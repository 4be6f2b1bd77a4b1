# Formal models of the Ghostless backend

TLA+ specifications of the NestJS services under `src/apps` and `src/libs`, the
TLC configurations that model-check them on small instances, and TLAPS proofs of
their main safety properties for every size. The code is the reference: every
definition translates the lines `PROJECT.json` names for it under `map`.

Run inside this directory: `tlc -workers 2 -config MCMatch.cfg MCMatchLifecycle`
checks one run (all are listed in `PROJECT.json`), `tlapm MatchingProofs.tla`
checks one module of proofs.

## 1. Inventory

Six Nest services share one PostgreSQL database (through Prisma), one Redis and
one Kafka cluster. HTTP enters through the gateway; services never call each
other by HTTP, they publish events. A Node process runs one callback at a time,
so the atomic unit is the code between two `await`s, and every service may run in
several processes.

| Component | State | Operations | Talks to | What makes it correct |
|---|---|---|---|---|
| scoring: recalculation pipeline (`recalc-queue/`, `scoring.service.ts`) | BullMQ jobs `recalc-<user>`, Redis key `recalc:lock:<user>`, `user_metrics`, `zone_history` | enqueue (deduplicated, delayed), process under the mutex, recalculate, optimistic write on `revision`, history, event | Redis, Kafka `USER_ZONE_CHANGED` | overlapping runs lose no update; a zone moves only on two consecutive agreeing verdicts; history and event follow the row; a request for a recalculation is answered |
| scoring: consumers (`message-events.consumer.ts`) | `total_messages`, metrics rows | one handler per event type | Kafka in, queue out | each message counted; each event leads to a recalculation |
| scoring: metrics and classifier | none | the formulas, fed by the queries of `recalculateUser` | - | every metric in range; nobody is blamed for what it did not leave unread |
| scoring: hourly job (`scoring.job.ts`, `health.controller.ts`) | none (a cursor) | enqueue every recently active user | queue | no active user is skipped; lost events are made up for, as far as the queue takes the jobs |
| matching: interests and matches (`matching.service.ts`) | `match_interests`, `matches` | expressInterest, createMatch, unmatch | Kafka `INTEREST_EXPRESSED`, `MATCH_CREATED` | crossing likes always produce one match, which is announced |
| matching: discovery (`matching.service.ts`, the compatibility matrix) | none (reads) | filter, gate, rank | - | suggestions are mutual and ranked; who fits is shown |
| matching: zone cache (`zone-changed.consumer.ts`) | a `Map` in the process | written on `USER_ZONE_CHANGED` | Kafka in | its reader `getZone` has no caller |
| chat: messages (`chat.service.ts`, `match-created.consumer.ts`) | `messages`, `interactions` | sendMessage, markRead, seeding at MATCH_CREATED | refine queue, Kafka `MESSAGE_SENT`/`MESSAGE_READ`, Redis pub/sub | counters agree with the rows; read is a prefix |
| chat: question refinement (`classify-queue/`) | BullMQ jobs `refine-<message>`, `messages.is_question` | enqueue, classify again, update | external model | a verdict is changed at most once, on the model's word; every job comes to rest |
| chat: WebSocket gateway (`chat.gateway.ts`) | `socketSubs`, one Redis connection per join | connect, verify, join, typing, disconnect | Redis pub/sub | connections end with their socket; events reach participants only |
| auth (`auth.service.ts`) | `users`, `refresh_tokens`, and the rows of `user_profiles` and `user_metrics` it creates | register, two logins, refresh, logout | - | unique accounts; a token is spent once; a session has one credential; logout ends it |
| user: profile, gallery, onboarding (`users.service.ts`) | `user_profiles`, objects in the bucket | update, add and remove a photo, onboard, bootstrap | Supabase storage | the gallery's cap and links; no minor's birth date; onboarded means all rows |
| kafka library | offsets | publish; subscribe with a handler whose error is logged | - | no event is skipped by a restart |
| network library, classifiers | none | one fetch with a timeout; a verdict on a text | external model | a verdict always comes |
| api-gateway | none | prefix routing | HTTP | each path reaches its service |
| database library, bootstrap, controllers, DTOs, scripts | none | wiring | - | - |

Hard here: requests that interleave between their awaits (likes, refreshes,
registrations, sends, photo uploads); jobs that BullMQ takes twice because a
worker stalled; a mutex with a lifetime; jobs deduplicated by an id that outlives
them; several writes with no transaction around them, any of which may reject
after the earlier ones took effect; multi-query reads of moving tables; a cursor
over a filter that moves; events delivered twice, late or never; a call that may
never be answered; and a socket that closes while one of its handlers awaits.
`PROJECT.json` lists each at its line under `hazards`, with the properties that
would catch it or the reason there is none.

## 2. Modules

| Module | Models | Proofs |
|---|---|---|
| `SoftTransition` | what scoring promises about a user's zone; abstract: no queue, worker, lock or revision | |
| `RecalcQueue` | the recalculation pipeline; implements `SoftTransition` | `RecalcQueueProofs` |
| `ZoneMetrics` | the metric formulas and the zone classifier, as operators | in `ScoringServiceProofs` |
| `Scoring` | `recalculateUser` query by query, over `ZoneMetrics` | `ScoringServiceProofs` |
| `DriftRepair` | the Kafka consumer's offsets and the hourly scan, and how they make up for each other | `ScoringServiceProofs` |
| `MatchLifecycle` | expressInterest, createMatch, unmatch, the MATCH_CREATED event | `MatchingProofs` |
| `Discovery` | one discovery request, query by query | `MatchingProofs` |
| `Conversation` | sendMessage, markRead, seeding, counting of sent messages | `ConversationProofs` |
| `QuestionHeuristic` | the multilingual heuristic, as operators | in `QuestionRefineProofs` |
| `QuestionRefine` | `is_question`, the refine queue, the model's adapter and its timeout | `QuestionRefineProofs` |
| `ChatGateway` | sockets, joins and their Redis subscribers, typing | `ChatGatewayProofs` |
| `AuthTokens` | accounts, sessions, refresh tokens | `AuthTokensProofs` |
| `UserProfile` | profile, gallery, onboarding of one user | `UserProfileProofs` |
| `MC*` | instances for TLC: symmetry, constraint, view, constants that are functions or records | |

Operators whose comment says `mutant` are plausible bugs in the definition below
them; no specification uses them. `PROJECT.json` pairs each with the property that
a run then finds violated.

### RecalcQueue

`job`, `attemptsMade`, `stalls`, `owner` and `kept` are BullMQ's view of the job
`recalc-<user>`; `lock` is the mutex; `metrics` the rows; `pc`, `user`, `snapshot`,
`finalZone` and `threw` are the worker's place in `process()` and its locals.

- `enqueue` is `queue.add` with a custom id: it does nothing while a job with that
  id is stored in any state, finished ones included. `Retire` keeps the latest
  `Keep` finished jobs of each outcome (100 in the code).
- `TakeJob`, `AcquireLock`, `ReadMetrics`, `WriteMetrics`, `CreateZoneHistory`,
  `PublishZoneChanged`, `ReleaseLock`/`ReleaseFails` and `Acknowledge` are the
  successive calls of `process()` and `recalculateUser`; `Reenqueue` is the enqueue
  on a held mutex or a stale revision; `Throw` is a rejected call, which unwinds
  through the `finally`.
- `Stalled`, `Crash` and `LockExpires` are the environment. A stalled worker goes
  on running while another takes its job.
- The verdict of the classifier is any member of `Proposable`: the properties say
  what the pipeline does with verdicts, not which it gets (`Scoring` says that).
- `owed`, `overrun` and `faulted` are history variables, read by properties only.

The refinement maps `zone` to the row's zone and `candidate` to its pending zone; the
count of agreeing runs, the revision and everything about jobs disappears.

### ZoneMetrics and Scoring

Ratios are integers in hundredths, rounded down at every division; the
exponentials are tables over the hours that can pass, assumed to fall from 100.
`Scoring` is one run of `recalculateUser` at a time: `ReadRow`, `ReadMessages`,
`ReadMatches`, then for each match `CountUnread`, `CountSentMine`,
`CountSentTheirs`, in whichever order the query returned the matches, then `Write`.
A sum of samples is a sum of what each match or message contributes, a function on
the set of them, so that a formula never folds a sequence. Sends, reads, new
matches and the clock move between any two queries. `blamed` collects which
conversations were unread all along or at some moment of the run; `scored` is the
table as the run saw it.

### DriftRepair

`topic`, `position` and `committed` are the log, the running consumer and the group's
offset; `Subscribe` is `fromBeginning: false`, `EachMessage` the library's
`try/catch`, after which the offset moves on whatever the handler did. `scan` is the
generator `streamActiveUserIds`: `ReadPage` is the cursor query over the rows `fresh`
at that moment, and between two pages or two enqueues rows become fresh or lapse. A
recalculation is one step here that succeeds or used up its attempts, since
`RecalcQueue` has the rest; but `enqueue` and `Finish` keep the queue's retention,
which decides what a scan achieves: `kept` holds the finished jobs, the latest `Keep`
of each outcome, and an enqueue for a user in it does nothing. `dirty`, `passed`,
`first`, `steady` and `gaps` are history variables.

### MatchLifecycle

A request is a slot with a step and two users. `ExpressInterest` is the upsert of
the caller's row, `CheckMutual` the lookup of the reverse row, `CreateMatch` the
upsert of the pair in sorted order, `PublishMatch` the event. `FindMatch` and
`EndMatch` are unmatch. `RequestFails` ends a request before any of its calls and
records the pair in `broken`. `Handled` and `HandlerFails` are chat-service's
consumer behind the library's `try/catch`.

### Discovery

`ReadMe`, `ReadMyMetrics`, `ReadPage`, `ReadMatches`, one `ScoreCandidate` for each
candidate, and `Answer`. The page is any `PageSize` of the rows that fit, and its rows
are scored in any order, because the query has no `orderBy`. `Sort` is the set of
orders a stable descending sort may leave, and `Answer` takes the first `limit` rows
of one of them; the limit arrives with the request, and one that is negative or does
not parse is left out. `EditProfile`, `Recalculated` and `MatchMade` change rows
between the queries, and `touched` records which of whom, so that each part of
`SuggestionsMutual` excuses only a change of the rows it was read from. The matrix is
the code's, value by value.

### Conversation

`messages` is the table in the order of `created_at`; a request carries the row it
created through `EnqueueRefine`, `BumpInteraction`, `PublishSent` and `NotifySent`.
`SeedInteraction` is the MATCH_CREATED handler, which runs at any time and any
number of times, `onMessageSent` scoring's counter. `broken` remembers at which
call a request failed, so that the counters can be related to the rows exactly.

### QuestionHeuristic and QuestionRefine

A text is what the rules look at: how it ends, the scripts its characters belong to,
the languages of whose word lists one starts or ends it. `detectScript` and
`classifySync` keep the order of the code's tests. `Text` ties these together as they
are tied in writing: a Russian word is Cyrillic, a Japanese starter kana or kanji; any
mixture of scripts is a text. The script found selects the only lists looked at, so
another script in the text may hide the one that matters; `Misleads` says when, by
which scripts are there and the order of the tests. In `QuestionRefine` the message
row and its job are followed through `EnqueueRefine`, `TakeJob`, the model's
`Answered` or one of the fallbacks (`CallFails`, `TimerFires`), the conditional
`WriteVerdict` and `Acknowledge`; `Stalled` and `Crash` are as in `RecalcQueue`. A
timer lives from its request to the `finally`, so it can fire exactly while the worker
waits. `disagreed` records on which messages the model itself contradicted the
heuristic.

### ChatGateway

A call of `join` is identified with the subscriber it may open; `sub` is how far it
got and what became of the connection. `Verified` is the continuation of
`verifyAsync`, which resets the socket's list; `Disconnect` disconnects what is
tracked and `ForgetSubs`, after the await, deletes the entry. `Join` runs on a
socket in any phase, so that a client which emits before it is verified is
included; the check against `userId` is what stops it. Typing makes the same check
and emits to the room.

### AuthTokens

A refresh token is its position in the order of creation. `arg` and `userOf` are
the request's locals. `CreateUser` and `LoginWithOAuth` respect the unique keys on
`email` and `google_id`; a rejected create ends the request. `Logout` is one
statement. `spent` and `loggedOut` are history variables.

### UserProfile

One user's rows and objects, with any number of concurrent requests. A request
holds in `seen` the photos it read and in `arg` what it was given; each await is a
step: `UploadAvatar` and `WriteUpdate` for PATCH, `AddPhoto`, `UploadPhoto`,
`WriteAdd`, `RemovePhoto`, `WriteRemove` for the gallery, `UpsertUser`,
`UpsertMetrics`, `UpsertProfile` for onboarding, `BootProfile` and `BootMetrics` for
bootstrap. A year has three days, the middle one a leap day, so that the age
arithmetic meets the date that does not exist every year. `overtaken` marks a
request whose photos were written over since it read them, `cleared` that a PATCH
took preferences away, which `UpdateProfileDto` lets through.

### Assumptions about what is not in `src/`

- BullMQ (external): a job id is unique among stored jobs; a job whose worker does
  not renew it is stalled and taken again at most `maxStalledCount` times; a worker
  that lost its job's token cannot complete it; `attempts` bounds retries.
- PostgreSQL and Prisma: one statement is atomic; the upserts used (one unique
  key, the same key in `create`) are `INSERT ... ON CONFLICT`; a `findMany` with a
  cursor whose row left the filter still starts from that row's place and skips
  the first row it returns.
- An awaited call that rejects has had no effect. The exceptions modelled are
  `ensureProfileAndMetrics`, where one of two parallel upserts may have succeeded,
  and a Kafka handler, which may have written before it threw.
- Kafka: an event is delivered at least once per consumer group; the library
  logs a handler's error and moves on. Handlers of different events take any order.
- Redis pub/sub: a subscriber gets what is published while it is subscribed.

## 3. Runs

| Run (cfg) | Instance | Distinct states | Shows |
|---|---|---|---|
| `MCRecalcOverlap` | 1 user, 2 workers, stalls and expiring keys, 5 recalculations | 289 000 | `TypeOK`, `MutualExclusion`, `ZoneAnnounced`, and `SoftTransitionSpec`: the pipeline implements `SoftTransition` |
| `MCRecalcFair` | 1 user, 2 workers, rejected calls and crashes | 3 500 | `JobsSettle`, `JobsServed` |
| `MCScoring` | 2 matches, 3 messages, 2 recalculations reading 2 messages each, one step of the clock | 1 320 000 | `MetricsInRange`, `GhostIndexFair` |
| `MCDriftRepair` | 2 users, pages of one row, one retained job per outcome, 2 events, 2 failures | 234 000 | `NoEventSkipped`, `ScanComplete`, `DriftRepaired` |
| `MCMatch` | 2 users who like each other, one who likes itself, 2 requests | 66 000 | `MatchTypeOK`, `MutualOnly`, `NoMissedMatch`, `MatchAnnounced`, `MatchSeeded` |
| `MCDiscovery` | 3 other users of 3 kinds of profile, a page of 2, limits 1 and 2, one change | 2 670 000 | `SuggestionsMutual`, `NobodyMissed`, `Ranked` |
| `MCConversation` | 1 match of 2 users, a third user, 2 requests, 3 messages | 801 000 | `ConvTypeOK`, `CountConserved`, `TotalsCounted`, `ReadPrefix` |
| `MCQuestionRefine` | 2 messages, 2 texts, 2 workers, 2 attempts, one stall | 181 000 | `QuestionsCounted`, `RefinedOnce`, `RefineSettles` |
| `MCChatGateway` | 2 sockets, 2 matches, 3 joins | 42 500 | `SubscribersTracked`, `DisconnectCloses`, `OnlyParticipants` |
| `MCAuthTokens` | 2 addresses, 1 Google subject, 2 requests, 2 accounts, 2 tokens | 682 000 | `AuthTypeOK`, `OneAccountPerEmail`, `TokenSpentOnce`, `OneCredential`, `TokenHolderComplete`, `LogoutEndsSession` |
| `MCUserProfile` | 2 requests, a gallery of 2, 2 uploads, a leap-day birth date | 2 990 000 | `GallerySound`, `AdultsOnly`, `OnboardedComplete`, `GalleryWrites` |

One run finds a sentence of the documentation violated. `MCScoringReplies` checks
`InstantReplies`, after `README.md:217` ("`RTS = 1.0` → instant replies"): the query
reads only the user's own messages, so the loop that looks for neighbours with
different senders never finds a pair, and RTS is 0.5 for everybody.

Bounds, and why they are enough:

- Locks, jobs and rows are per user, so one user suffices for overlapping runs; two
  workers give every overlap of two of them, and the mutex's token check concerns
  pairs. What users share is the list of retained jobs; the runs retain none
  (`Keep = 0`, a finished job is forgotten at once, else a single user would be
  recalculated once). The theorems hold for any number of users and any `Keep`.
- `MaxRevision = 5` in `MCRecalcOverlap` lets a zone be proposed, withdrawn and
  committed, and a second transition be committed while the first is still being
  announced, which takes four writes. It bounds `Trigger`, and there the constraint
  `Bounded` bounds the states too, since a conflict can re-enqueue without end. That
  run omits `owed` from the state (`Core`), which none of its properties and no
  guard reads. `MCRecalcFair` has neither constraint nor view.
- `MaxAttempts = 3`, `MaxStalls = 1` are the values in the code (BullMQ's default
  for the second); `MCQuestionRefine` has two attempts, a first and a last.
- Two requests and two users give all crossings of two `expressInterest`; a like of
  oneself is there because no code excludes it. The other modules race in pairs too.
- `MaxMessages = 3` allows two sends that race and one before or after; `MaxTotal = 1`
  lets the first event of a user be handled twice. Three joins allow one before and
  two around a disconnect; two accounts and two tokens allow every race of
  creations and of one token's refreshes with the token that follows.
- `MCUserProfile` has a gallery of two so that two requests that both counted one
  photo meet the cap, and an adult age of one year in a clock of two.
- `MCScoring` lets a third message fall out of a window of two, and a second run
  blend the index of the first. Messages are long enough to reach the caps of the
  engagement score.
- `MCDriftRepair` reads pages of one row, so that a scan of two users has a cursor
  that can lapse between pages; two failures lose an event and then a
  recalculation, a restart or a scan. With `Keep = 1` for the code's 100, a second
  enqueue of a user is ignored until the other one has been recalculated.
- `MCDiscovery` has more users than the page and more than the answer, so that both
  cut; its rows, with the defaults of a missing row, lie on both sides of each gate.
  A limit of one shows which row comes first, a limit of two in which order they come.
- `Faults` and `MaxFaults` select the failures of an instance. What is impossible
  without a fault is checked without it, what must survive it with it.
- Symmetry is over interchangeable requests, users, workers, subscribers and matches,
  and only in runs without liveness properties.
- Deadlock is checked, except where the system really stops: in `MCQuestionRefine`
  every job is at rest, in `MCDiscovery` the request is answered, in `MCScoring`
  the messages, runs and hours of the instance are used up.

### Fairness

Assumed only where the runtime provides it, and never that a failure happens or
ceases. RecalcQueue: delayed jobs are promoted, stalled jobs without a worker are
noticed by BullMQ's timer, a living worker goes on (weak); a waiting job is taken
though its worker is busy in between, because BullMQ's wait list is first come
first served (strong). MatchLifecycle: a request continues with
its next call or fails, since a promise settles; a consumer handles a delivered
event or logs its failure (weak). QuestionRefine: a worker goes on, the timer of a
request fires, an idle worker takes a waiting job and a job without a worker is
noticed (weak); that the model answers is not assumed. DriftRepair: the service is
restarted and subscribes, the cron fires, its loop and the jobs it enqueued go on
(weak); that Kafka delivers is not assumed, so the scan alone must repair.

`JobsServed` is stated for executions in which nothing failed so far, since the
code promises nothing more; `JobsSettle`, `MatchSeeded`, `RefineSettles` and
`DriftRepaired` allow failures, the last of them finitely many. `DriftRepaired` also
needs more users the scan can serve than jobs BullMQ retains, and excepts a user whose
own failed job is retained: else the code does not repair, as the table below says.

### Where the prose says more than the code does

Met while modelling; the models follow the code.

| The sentence | The code |
|---|---|
| `recalc.processor.ts:18` "conflicts re-enqueue themselves" | the re-enqueue has the id of the job that is running, so it is ignored |
| `recalc-enqueuer.service.ts:28` "no-op if already pending" | also a no-op when the last job is finished and retained, or has already read its data |
| `README.md:200` a committed transition is published | a call that rejects after the commit loses the event for good; the retry sees no transition |
| `event-bus.port.ts:8` consumers are idempotent-safe, `README.md:91` lifetime count | a redelivered MESSAGE_SENT is counted twice |
| `chat.gateway.ts:30` subscribers are cleaned up on disconnect | a disconnect while `join` awaits the lookup leaves the connection it then opens |
| `README.md:153` logout invalidates the session | a logout between a refresh's delete and its create removes nothing |
| `README.md:157` the gateway validates the JWT | it only forwards; the services' guards do |
| `chat.controller.ts:37` "Returns recent messages" | `getMessages` orders ascending and takes `limit`: the oldest ones |
| `README.md:369` "last 500 messages" | `orderBy asc, take 500` reads the oldest 500 |
| `README.md:301` "every zone has 3–4 compatible neighbors" | at 0.5 and above, GHOST_TOWN has one beside itself |
| `zone-classifier.spec.ts:11` UNMAPPED below the message threshold | the classifier returns STEADY |
| `scoring.job.ts:10` the cron repairs drift by re-enqueueing active users | the enqueue is ignored while a finished job of the user is retained, so with up to 100 users nobody is recalculated a second time, and a user whose job failed waits for 100 more failures; users whose row was not written for seven days are not enqueued |

Further behaviours without a sentence to hold them against: the ghost index is
halved by each recalculation of a user who left nothing unread, so repeated runs forgive
sooner than the decay does; a refined verdict lands after the recalculation its
message asked for; the discovery `limit` is parsed without validation; a PATCH that
is refused for its birth date has already replaced the avatar object.

## 4. Theorems

Each is proved for all values of the constants that satisfy the module's assumption:
any number of users, workers, requests, sockets, photos, any zones, any mix of faults.
`PROJECT.json` lists them with the property each states.

- `RecalcQueueProofs`. The inductive invariant adds to the types: `RowsShaped`, a
  row counts at most one run for a pending zone and none without one, so that the
  second agreeing run always commits; `SnapshotFresh`, a run about to write whose
  snapshot has the row's revision has the row itself, which is what the
  optimistic write relies on; and `LockOwned`, a run in its critical section whose
  key has not expired holds the key. `AnnounceInv`: while nothing worse than
  a stall happened, a run between its commit and its event holds the row's zone, and
  without such a run the last history row and the last event have it. It rests on the
  mutex and gives `LastZoneAnnounced` (`ZoneAnnounced`). `TypeCorrect` and `MutexSafe`
  (`MutualExclusion`) follow, the latter because a key has one holder. `Implements`
  (`SoftTransitionSpec`) shows that every step is a stutter of `SoftTransition`
  except a write, which with the invariant is one of its three actions.
- `MatchingProofs`, for `MatchLifecycle`. `MatchInv` adds what a request has
  established when it reaches a step (its own row is stored before it looks for the
  other; both rows are there when it creates the match). `NoneMissed`: when the
  second of two rows is stored, the request that stored it has yet to look.
  `RowsOnlyMutual`, `EveryMatchAnnounced`, `MatchTypeCorrect`.
- `MatchingProofs`, for `Discovery`. `RequestInv` ties what a request remembers to the
  tables, except for users whose rows changed since: what it holds of the caller is
  the caller's row, a page without a user who fits is full, who is neither waiting nor
  excluded has been scored, and what was scored passed the gates. The matrix and the
  distance of ghost indices are symmetric (`MatrixSymmetric`, `ScoreSymmetric`), so
  the candidate would compute the same score. Each of these speaks of one kind of row.
  `SuggestionsAreMutual`, `NobodyIsMissed`, `AnswerIsRanked`, `DiscoveryTypeCorrect`.
- `ChatGatewayProofs`. `SocketSteps` (a socket is verified once; its disconnect
  handler runs on a closed socket) and `JoinsAuthorized` (a join past its check
  belongs to a verified participant) make the three properties inductive: since no
  join is past its check before the verification ends, the list that it resets is
  empty. `OpenedThenClosed`, `AllTracked`, `EventsStayInside`, `GatewayTypeCorrect`.
- `AuthTokensProofs`. `RequestSteps` says what a request has in hand at each step,
  so that it issues tokens only to users with all rows (`HoldersComplete`).
  `Rotation`, a spent token has no row and a stored one is the last of its session,
  carries `TokensSpentOnce`, `SessionsSingle` and `LogoutHolds` over each other: a
  deleted row is what makes the next refresh, and the second delete, find nothing.
  `AccountsUnique` and `AuthTypeCorrect` come from the unique keys.
- `ConversationProofs`. `CountIsConserved` and `TotalsAreCounted` relate a counter to
  the size of a set of rows; a step adds one row to a set or leaves it, by the
  cardinality theorems. That needs `Sole`, a row is in the hands of one request that
  has not failed on it, and `EventsPublished`, an event is of a row past its
  publication. `ReadIsPrefix`, `ConvTypeCorrect`.
- `QuestionRefineProofs`. `HeuristicComplete` and `StarterExact` are about the
  operators alone. `FoundOrMisled`: the script test finds a third language exactly
  where `Misleads` says so. Hence a text that asks is a question to `classifySync`
  unless another script misleads, and one that asks by a question word alone is never
  one where it does: Japanese in kanji alone and a Latin question that quotes Chinese
  are missed. `RowVerdict` and `WriteCarries` (a row away from the heuristic's
  verdict, and a worker about to write, have the model's word) give
  `QuestionsAreCounted` and `RefinedAtMostOnce`; `Budget` and `OwnedIsActive` bound
  attempts and stalls in `RefineTypeCorrect`.
- `ScoringServiceProofs`, for `DriftRepair`. `NoEventIsSkipped`, with `GroupOK`: a
  group that runs or has committed began somewhere, and what lies between there and
  its place was handled. `ScanMissesOnlyGaps` (`ScanComplete`), with `ScanInv`: of the
  users fresh throughout, those behind the cursor that the scan neither yielded nor has
  in its page are at most as many as cursor rows lapsed, and a short page leaves none
  ahead. A page has no gap inside, since it takes the least rows of what is left.
- `ScoringServiceProofs`, for `ZoneMetrics` and `Scoring`. A lemma per formula bounds its
  result, from division rounding down and from the sums; `MetricsStayInRange` puts
  them together. `GhostIndexIsFair` needs `CountInv`: what a run has counted so far is at
  least what was unread in the matches behind it all along, at most what was unread at
  some moment. `OnlySteadyProposed` is what the violated run `MCScoringReplies` shows,
  for every instance: with the messages of one sender the response-time score is one
  half, and at one half no other branch of the classifier is reached.
- `UserProfileProofs`. A request's locals stay right while the world moves, because
  the bucket only grows and the clock only advances: a list that was sound when it
  was read and a birth date that was an adult's when it was checked still are when
  they are written. With `Current`, a request not overtaken has the gallery as it
  stands, follow `GalleryIsSound`, `OnlyAdults`, `OnboardedIsComplete`,
  `GalleryWritesExact` and `ProfileTypeCorrect`.

The assumptions are the modules' named ones on their constants, and nothing else.

Every safety property and every action property that a run checks is stated by one of
these theorems. Only model-checked is liveness (`JobsSettle`, `JobsServed`,
`MatchSeeded`, `RefineSettles`, `DriftRepaired`), which is out of
TLAPS's reach, as is `ENABLED`. Induction over data is too, and the models are written
so that no theorem needs it: a page and a batch of candidates are sets, whose members
are compared by the least or by cardinality; a sum is a function on a set of
contributions with a bound for each; a sort is the set of orders it may leave.

## 5. What is left

The order followed was: the zone pipeline, matching, conversation, gateway and
sessions, then profile, refinement, drift, scoring and discovery; then the proofs of
what the runs check. What could be added: an abstract specification, with its
refinement proved, for a second component (a lifetime counter over at-least-once
delivery; a session with one credential); a composition of `MatchLifecycle`,
`Conversation` and `RecalcQueue` over one bus, whose parts are linked here only
through the assumptions on events in section 2.

## 6. Not modelled

- The api-gateway: a stateless map from a path prefix to a service. Its proxies are
  registered before the Nest middleware with the method-specific rules, so those
  rules never apply.
- The zone cache: written, never read.
- The read-only getters (messages, matches, profiles, public user lookup).
- Bootstrap, guards and decorators of the controllers (their routes are the disjuncts
  of the `Next` operators), DTO validation beyond `UpdateProfileDto`'s lists and
  preferences, health, generated code, seeding and smoke scripts.
- In `QuestionRefine` the warm-up call and the retention of finished jobs; in the
  network library `getJson`, headers and body parsing.
- In `UserProfile` the text fields and a birth date of `null`; in `Discovery` names,
  pictures and ages; in matching the scores stored with interests and matches,
  which no guard reads.
- Rate limiting, JWT and password cryptography, ID-token verification (verdicts),
  Supabase beyond "the object exists".
