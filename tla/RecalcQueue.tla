---------------------------- MODULE RecalcQueue ----------------------------
(***************************************************************************)
(* The recalculation pipeline of scoring-service: RecalcEnqueuer, the      *)
(* BullMQ queue it fills, RecalcProcessor with its per-user Redis mutex,   *)
(* and ScoringService.recalculateUser with the optimistic write on         *)
(* UserMetrics.revision and the zone-changed record and event after it.    *)
(*                                                                         *)
(* Every await of process() and recalculateUser() is a point where other   *)
(* workers run, so each call between two awaits is one action.  What the   *)
(* classifier answers is data here: any member of Proposable.              *)
(***************************************************************************)
EXTENDS Naturals, Sequences

CONSTANTS Users,        \* user ids
          Workers,      \* BullMQ worker slots, over all processes
          Zones,        \* the zones of libs/contracts
          Steady,       \* the zone of a fresh UserMetrics row
          Proposable,   \* what ZoneClassifier.classify may answer
          SeedZones,    \* zones of the rows that exist at the start
          NoZone,       \* a null pending_zone
          Nobody,       \* no worker: a free lock, an unowned job
          Orphan,       \* a mutex token whose run is over
          MaxAttempts,  \* the job option "attempts"
          MaxStalls,    \* BullMQ's maxStalledCount
          Keep,         \* removeOnComplete.count and removeOnFail.count
          MaxRevision,  \* bound of the model: no call to enqueue past it
          Faults        \* the failures this instance allows

ASSUME ConstantsAssumption ==
    /\ Steady \in Zones /\ Proposable \subseteq Zones /\ SeedZones \subseteq Zones
    /\ NoZone \notin Zones /\ Nobody \notin Users
    /\ Nobody \notin Workers /\ Orphan \notin Workers /\ Nobody # Orphan
    /\ MaxAttempts \in Nat \ {0} /\ MaxStalls \in Nat /\ Keep \in Nat
    /\ MaxRevision \in Nat
    /\ Faults \subseteq {"throw", "crash", "stall", "slow"}

\* Consecutive recalculations required before a pending zone is applied.
SOFT_TRANSITION_RUNS == 2

VARIABLES
    job,          \* state of job `recalc-<user>` in BullMQ
    attemptsMade, \* of that job
    stalls,       \* of that job
    owner,        \* the worker that holds the job's BullMQ token
    kept,         \* finished jobs BullMQ retains, oldest first, per outcome
    lock,         \* the Redis key recalc:lock:<user>
    metrics,      \* the user_metrics rows
    pc,           \* where each worker is in process()
    user,         \* the job.data.userId it works on, Nobody when idle
    snapshot,     \* the row its recalculateUser read
    finalZone,    \* the zone its recalculateUser wrote
    threw,        \* its process() is unwinding an exception
    historyZone,  \* newZone of the user's latest zone_history row
    eventZone,    \* zone of the user's latest USER_ZONE_CHANGED event
    overrun,      \* history: workers whose mutex expired under them
    faulted,      \* history: the faults that have happened
    owed          \* history: unanswered requests to recalculate a user

queueVars == <<job, attemptsMade, stalls, owner, kept>>
workerVars == <<user, snapshot, finalZone, threw>>
zoneLog == <<historyZone, eventZone>>
hist == <<overrun, faulted>>
vars == <<queueVars, lock, metrics, pc, workerVars, zoneLog, hist, owed>>

JobStates == {"absent", "delayed", "waiting", "active", "completed", "failed"}
Steps == {"idle", "acquire", "read", "write", "history", "publish",
          "requeueBusy", "requeueStale", "release", "ack"}

Row == [exists : BOOLEAN, zone : Zones, pendingZone : Zones \cup {NoZone},
        pendingZoneRuns : Nat, revision : Nat]

FreshRow(z) == [exists |-> TRUE, zone |-> z, pendingZone |-> NoZone,
                pendingZoneRuns |-> 0, revision |-> 0]

\* The locals of process(), before they are set and after it returned.
NoLocals == [user |-> Nobody, snapshot |-> FreshRow(Steady), finalZone |-> Steady,
             threw |-> FALSE]

Return(w) == /\ pc' = [pc EXCEPT ![w] = "idle"]
             /\ user' = [user EXCEPT ![w] = NoLocals.user]
             /\ snapshot' = [snapshot EXCEPT ![w] = NoLocals.snapshot]
             /\ finalZone' = [finalZone EXCEPT ![w] = NoLocals.finalZone]
             /\ threw' = [threw EXCEPT ![w] = NoLocals.threw]

\* Where the mutex protects the worker: between the SET NX and the release.
Section == {"read", "write", "history", "publish", "requeueStale", "release"}
InSection(w) == pc[w] \in Section

----------------------------------------------------------------------------
\* ScoringService: the pure part of the soft transition.

applySoftTransition(current, proposed, pending, pendingRuns) ==
    IF /\ proposed # current
       /\ pending = proposed
       /\ pendingRuns + 1 >= SOFT_TRANSITION_RUNS
    THEN proposed ELSE current

\* The row recalculateUser writes over the row it read.
NextRow(row, proposed) ==
    LET final == applySoftTransition(row.zone, proposed, row.pendingZone, row.pendingZoneRuns)
        accumulating == final # proposed /\ proposed # row.zone
    IN  [exists          |-> TRUE,
         zone            |-> final,
         pendingZone     |-> IF accumulating THEN proposed ELSE NoZone,
         pendingZoneRuns |-> IF ~accumulating THEN 0
                             ELSE IF row.pendingZone = proposed
                                  THEN row.pendingZoneRuns + 1 ELSE 1,
         revision        |-> row.revision + 1]

----------------------------------------------------------------------------
\* BullMQ, as the options of RecalcEnqueuer and the Processor use it.

enqueueReplace(u) ==                 \* mutant: each request restarts the delay
    /\ job' = [job EXCEPT ![u] = "delayed"]
    /\ attemptsMade' = [attemptsMade EXCEPT ![u] = 0]
    /\ stalls' = [stalls EXCEPT ![u] = 0]
    /\ UNCHANGED <<owner, kept>>

\* queue.add with a custom jobId: ignored while a job of that id is stored in
\* ANY state, the finished jobs that are retained included.
enqueue(u) ==
    /\ job' = IF job[u] = "absent" THEN [job EXCEPT ![u] = "delayed"] ELSE job
    /\ attemptsMade' = IF job[u] = "absent" THEN [attemptsMade EXCEPT ![u] = 0] ELSE attemptsMade
    /\ stalls' = IF job[u] = "absent" THEN [stalls EXCEPT ![u] = 0] ELSE stalls
    /\ UNCHANGED <<owner, kept>>

RetireUnbounded(u, outcome) ==       \* mutant: nothing is ever removed
    /\ kept' = [kept EXCEPT ![outcome] = Append(@, u)]
    /\ job' = [job EXCEPT ![u] = outcome]

\* A job reaches its final state; the oldest beyond Keep is forgotten.
Retire(u, outcome) ==
    LET all == Append(kept[outcome], u)
        full == Len(all) > Keep
        ended == [job EXCEPT ![u] = outcome]
    IN  /\ kept' = [kept EXCEPT ![outcome] = IF full THEN Tail(all) ELSE all]
        /\ job' = IF full THEN [ended EXCEPT ![Head(all)] = "absent"] ELSE ended

DelayElapses(u) ==
    /\ job[u] = "delayed"
    /\ job' = [job EXCEPT ![u] = "waiting"]
    /\ UNCHANGED <<attemptsMade, stalls, owner, kept, lock, metrics, pc, workerVars,
                   zoneLog, hist, owed>>

TakeJob(w, u) ==
    /\ pc[w] = "idle" /\ job[u] = "waiting"
    /\ job' = [job EXCEPT ![u] = "active"]
    /\ owner' = [owner EXCEPT ![u] = w]
    /\ pc' = [pc EXCEPT ![w] = "acquire"]
    /\ user' = [user EXCEPT ![w] = u]
    /\ UNCHANGED <<attemptsMade, stalls, kept, lock, metrics, snapshot, finalZone, threw,
                   zoneLog, hist, owed>>

\* The worker no longer renews its job: it died, or ("stall") it is alive but
\* its event loop is blocked.  BullMQ's stalled check gives the job to another.
Stalled(u) ==
    /\ job[u] = "active"
    /\ owner[u] = Nobody \/ "stall" \in Faults
    /\ owner' = [owner EXCEPT ![u] = Nobody]
    /\ faulted' = faulted \cup (IF owner[u] = Nobody THEN {} ELSE {"stall"})
    /\ \/ /\ stalls[u] < MaxStalls
          /\ stalls' = [stalls EXCEPT ![u] = @ + 1]
          /\ job' = [job EXCEPT ![u] = "waiting"]
          /\ UNCHANGED kept
       \/ /\ stalls[u] >= MaxStalls
          /\ Retire(u, "failed")
          /\ UNCHANGED stalls
    /\ UNCHANGED <<attemptsMade, lock, metrics, pc, workerVars, zoneLog, overrun, owed>>

attemptsLeft(u) == attemptsMade[u] + 1 < MaxAttempts

\* process() returned or threw; only the worker that still owns the job moves it.
Acknowledge(w) ==
    LET u == user[w] IN
    /\ pc[w] = "ack"
    /\ Return(w)
    /\ overrun' = overrun \ {w}
    /\ \/ /\ owner[u] # w
          /\ UNCHANGED queueVars
       \/ /\ owner[u] = w /\ ~threw[w]
          /\ Retire(u, "completed")
          /\ owner' = [owner EXCEPT ![u] = Nobody]
          /\ UNCHANGED <<attemptsMade, stalls>>
       \/ /\ owner[u] = w /\ threw[w]
          /\ attemptsMade' = [attemptsMade EXCEPT ![u] = @ + 1]
          /\ owner' = [owner EXCEPT ![u] = Nobody]
          /\ \/ /\ attemptsLeft(u)
                /\ job' = [job EXCEPT ![u] = "delayed"]
                /\ UNCHANGED kept
             \/ /\ ~attemptsLeft(u)
                /\ Retire(u, "failed")
          /\ UNCHANGED stalls
    /\ UNCHANGED <<lock, metrics, zoneLog, faulted, owed>>

----------------------------------------------------------------------------
\* RecalcProcessor.process

AcquireLockPlain(w) ==               \* mutant: SET without NX
    /\ pc[w] = "acquire"
    /\ lock' = [lock EXCEPT ![user[w]] = w]
    /\ pc' = [pc EXCEPT ![w] = "read"]
    /\ UNCHANGED <<queueVars, metrics, workerVars, zoneLog, hist, owed>>

\* SET recalc:lock:<user> <token> EX 60 NX
AcquireLock(w) ==
    LET u == user[w] IN
    /\ pc[w] = "acquire"
    /\ \/ /\ lock[u] = Nobody
          /\ lock' = [lock EXCEPT ![u] = w]
          /\ pc' = [pc EXCEPT ![w] = "read"]
       \/ /\ lock[u] # Nobody
          /\ pc' = [pc EXCEPT ![w] = "requeueBusy"]
          /\ UNCHANGED lock
    /\ UNCHANGED <<queueVars, metrics, workerVars, zoneLog, hist, owed>>

\* The conflict paths: the mutex was held, or the optimistic write was stale.
Reenqueue(w) ==
    LET u == user[w] IN
    /\ pc[w] \in {"requeueBusy", "requeueStale"}
    /\ enqueue(u)
    /\ owed' = [owed EXCEPT ![u] = @ \cup {"conflict"}]
    /\ pc' = [pc EXCEPT ![w] = IF @ = "requeueBusy" THEN "ack" ELSE "release"]
    /\ UNCHANGED <<lock, metrics, workerVars, zoneLog, hist>>

ReleaseLockNever(w) ==               \* mutant: left to the TTL
    /\ pc[w] = "release"
    /\ pc' = [pc EXCEPT ![w] = "ack"]
    /\ UNCHANGED <<queueVars, lock, metrics, workerVars, zoneLog, hist, owed>>

ReleaseLockAny(w) ==                 \* mutant: DEL without comparing the token
    /\ pc[w] = "release"
    /\ lock' = [lock EXCEPT ![user[w]] = Nobody]
    /\ pc' = [pc EXCEPT ![w] = "ack"]
    /\ UNCHANGED <<queueVars, metrics, workerVars, zoneLog, hist, owed>>

\* releaseIfOwned: the Lua script deletes the key only if it holds our token.
ReleaseLock(w) ==
    LET u == user[w] IN
    /\ pc[w] = "release"
    /\ lock' = IF lock[u] = w THEN [lock EXCEPT ![u] = Nobody] ELSE lock
    /\ pc' = [pc EXCEPT ![w] = "ack"]
    /\ UNCHANGED <<queueVars, metrics, workerVars, zoneLog, hist, owed>>

\* The eval rejects: logged and swallowed, the key stays until its TTL.
ReleaseFails(w) ==
    LET u == user[w] IN
    /\ "throw" \in Faults /\ pc[w] = "release"
    /\ lock' = IF lock[u] = w THEN [lock EXCEPT ![u] = Orphan] ELSE lock
    /\ pc' = [pc EXCEPT ![w] = "ack"]
    /\ faulted' = faulted \cup {"throw"}
    /\ UNCHANGED <<queueVars, metrics, workerVars, zoneLog, overrun, owed>>

----------------------------------------------------------------------------
\* ScoringService.recalculateUser

ReadMetrics(w) ==
    LET u == user[w] IN
    /\ pc[w] = "read"
    /\ \/ /\ ~metrics[u].exists
          /\ pc' = [pc EXCEPT ![w] = "release"]
          /\ UNCHANGED snapshot
       \/ /\ metrics[u].exists
          /\ snapshot' = [snapshot EXCEPT ![w] = metrics[u]]
          /\ pc' = [pc EXCEPT ![w] = "write"]
    /\ owed' = [owed EXCEPT ![u] = {}]
    /\ UNCHANGED <<queueVars, lock, metrics, user, finalZone, threw, zoneLog, hist>>

WriteMetricsBlind(w, proposed) ==    \* mutant: update where userId only
    LET u == user[w]
        row == NextRow(snapshot[w], proposed) IN
    /\ pc[w] = "write"
    /\ metrics' = [metrics EXCEPT ![u] = row]
    /\ finalZone' = [finalZone EXCEPT ![w] = row.zone]
    /\ pc' = [pc EXCEPT ![w] = IF row.zone # snapshot[w].zone THEN "history" ELSE "release"]
    /\ UNCHANGED <<queueVars, lock, user, snapshot, threw, zoneLog, hist, owed>>

\* updateMany where revision = the one read; count 0 means a lost race.
WriteMetrics(w, proposed) ==
    LET u == user[w]
        row == NextRow(snapshot[w], proposed) IN
    /\ pc[w] = "write"
    /\ \/ /\ metrics[u].revision = snapshot[w].revision
          /\ metrics' = [metrics EXCEPT ![u] = row]
          /\ finalZone' = [finalZone EXCEPT ![w] = row.zone]
          /\ pc' = [pc EXCEPT ![w] = IF row.zone # snapshot[w].zone
                                     THEN "history" ELSE "release"]
       \/ /\ metrics[u].revision # snapshot[w].revision
          /\ pc' = [pc EXCEPT ![w] = "requeueStale"]
          /\ UNCHANGED <<metrics, finalZone>>
    /\ UNCHANGED <<queueVars, lock, user, snapshot, threw, zoneLog, hist, owed>>

CreateZoneHistory(w) ==
    /\ pc[w] = "history"
    /\ historyZone' = [historyZone EXCEPT ![user[w]] = finalZone[w]]
    /\ pc' = [pc EXCEPT ![w] = "publish"]
    /\ UNCHANGED <<queueVars, lock, metrics, workerVars, eventZone, hist, owed>>

PublishZoneChanged(w) ==
    /\ pc[w] = "publish"
    /\ eventZone' = [eventZone EXCEPT ![user[w]] = finalZone[w]]
    /\ pc' = [pc EXCEPT ![w] = "release"]
    /\ UNCHANGED <<queueVars, lock, metrics, workerVars, historyZone, hist, owed>>

----------------------------------------------------------------------------
\* Failures, and the callers of RecalcEnqueuer.

\* The awaited call of Postgres, Redis or Kafka rejects: `finally` releases the
\* lock when it was taken, and BullMQ sees a failed attempt.
Throw(w) ==
    /\ "throw" \in Faults
    /\ pc[w] \in Steps \ {"idle", "release", "ack"}
    /\ threw' = [threw EXCEPT ![w] = TRUE]
    /\ pc' = [pc EXCEPT ![w] = IF InSection(w) THEN "release" ELSE "ack"]
    /\ faulted' = faulted \cup {"throw"}
    /\ UNCHANGED <<queueVars, lock, metrics, user, snapshot, finalZone, zoneLog, overrun, owed>>

\* The process dies: its jobs lose their owner, its mutex key stays behind.
Crash(w) ==
    /\ "crash" \in Faults /\ pc[w] # "idle"
    /\ Return(w)
    /\ overrun' = overrun \ {w}
    /\ owner' = [u \in Users |-> IF owner[u] = w THEN Nobody ELSE owner[u]]
    /\ lock' = [u \in Users |-> IF lock[u] = w THEN Orphan ELSE lock[u]]
    /\ faulted' = faulted \cup {"crash"}
    /\ UNCHANGED <<job, attemptsMade, stalls, kept, metrics, zoneLog, owed>>

\* The key's TTL.  A live run only loses it when it is "slow": the constant is
\* meant to exceed the worst-case runtime.
LockExpires(u) ==
    /\ lock[u] # Nobody
    /\ lock[u] # Orphan => "slow" \in Faults
    /\ lock' = [lock EXCEPT ![u] = Nobody]
    /\ overrun' = overrun \cup ({lock[u]} \cap Workers)
    /\ faulted' = faulted \cup (IF lock[u] = Orphan THEN {} ELSE {"slow"})
    /\ UNCHANGED <<queueVars, metrics, pc, workerVars, zoneLog, owed>>

\* A Kafka handler, the hourly cron or the ops endpoint asks for u.
Trigger(u) ==
    /\ metrics[u].revision < MaxRevision
    /\ enqueue(u)
    /\ owed' = [owed EXCEPT ![u] = @ \cup {"trigger"}]
    /\ UNCHANGED <<lock, metrics, pc, workerVars, zoneLog, hist>>

\* The MATCH_CREATED handler's upsert for a user without a metrics row.
EnsureMetrics(u) ==
    /\ ~metrics[u].exists
    /\ metrics' = [metrics EXCEPT ![u].exists = TRUE]
    /\ UNCHANGED <<queueVars, lock, pc, workerVars, zoneLog, hist, owed>>

----------------------------------------------------------------------------
Pending(u) == job[u] \in {"delayed", "waiting", "active"}

Init ==
    /\ job = [u \in Users |-> "absent"]
    /\ attemptsMade = [u \in Users |-> 0]
    /\ stalls = [u \in Users |-> 0]
    /\ owner = [u \in Users |-> Nobody]
    /\ kept = [o \in {"completed", "failed"} |-> <<>>]
    /\ lock = [u \in Users |-> Nobody]
    /\ metrics \in [Users -> {FreshRow(z) : z \in SeedZones}
                             \cup {[FreshRow(Steady) EXCEPT !.exists = FALSE]}]
    /\ pc = [w \in Workers |-> "idle"]
    /\ user = [w \in Workers |-> NoLocals.user]
    /\ snapshot = [w \in Workers |-> NoLocals.snapshot]
    /\ finalZone = [w \in Workers |-> NoLocals.finalZone]
    /\ threw = [w \in Workers |-> NoLocals.threw]
    /\ historyZone = [u \in Users |-> metrics[u].zone]
    /\ eventZone = [u \in Users |-> metrics[u].zone]
    /\ overrun = {}
    /\ faulted = {}
    /\ owed = [u \in Users |-> {}]

\* Nothing is queued and nothing runs: the only state the pipeline rests in.
Quiescent == /\ \A u \in Users : ~Pending(u)
             /\ \A w \in Workers : pc[w] = "idle"
             /\ UNCHANGED vars

Process(w) == \/ AcquireLock(w) \/ Reenqueue(w) \/ ReleaseLock(w) \/ ReleaseFails(w)
              \/ ReadMetrics(w) \/ (\E v \in Proposable : WriteMetrics(w, v))
              \/ CreateZoneHistory(w) \/ PublishZoneChanged(w)
              \/ Throw(w) \/ Acknowledge(w)

Next == \/ \E u \in Users : DelayElapses(u) \/ Stalled(u) \/ LockExpires(u)
                            \/ Trigger(u) \/ EnsureMetrics(u)
        \/ \E w \in Workers : Process(w) \/ Crash(w)
        \/ \E w \in Workers, u \in Users : TakeJob(w, u)
        \/ Quiescent

Spec == Init /\ [][Next]_vars

\* BullMQ promotes delayed jobs, serves the wait list first come first served,
\* notices stalled jobs, and a live worker goes on.
Fairness == /\ \A u \in Users : /\ WF_vars(DelayElapses(u))
                                /\ WF_vars(owner[u] = Nobody /\ Stalled(u))
                                /\ SF_vars(\E w \in Workers : TakeJob(w, u))
            /\ \A w \in Workers : WF_vars(Process(w))

FairSpec == Spec /\ Fairness

----------------------------------------------------------------------------
(* Types; BullMQ retains at most Keep finished jobs per outcome, and a     *)
(* worker has a user exactly while process() runs.                         *)
TypeOK ==
    /\ job \in [Users -> JobStates]
    /\ attemptsMade \in [Users -> Nat]
    /\ stalls \in [Users -> Nat]
    /\ owner \in [Users -> Workers \cup {Nobody}]
    /\ kept \in [{"completed", "failed"} -> Seq(Users)]
    /\ lock \in [Users -> Workers \cup {Nobody, Orphan}]
    /\ metrics \in [Users -> Row]
    /\ pc \in [Workers -> Steps]
    /\ user \in [Workers -> Users \cup {Nobody}]
    /\ snapshot \in [Workers -> Row]
    /\ finalZone \in [Workers -> Zones]
    /\ threw \in [Workers -> BOOLEAN]
    /\ historyZone \in [Users -> Zones]
    /\ eventZone \in [Users -> Zones]
    /\ overrun \subseteq Workers
    /\ faulted \subseteq Faults
    /\ owed \in [Users -> SUBSET {"trigger", "conflict"}]
    /\ \A w \in Workers : pc[w] = "idle" <=> user[w] = Nobody
    /\ \A outcome \in DOMAIN kept : Len(kept[outcome]) <= Keep

(* Two runs are inside their critical sections for the same user only if   *)
(* the mutex of one of them expired under it: a stalled job that is taken  *)
(* again, a dead worker and the release by a run that overran its key      *)
(* never let a second run in (recalc.processor.ts: SET NX, token check).   *)
MutualExclusion ==
    \A w1, w2 \in Workers :
        (w1 # w2 /\ InSection(w1) /\ InSection(w2) /\ user[w1] = user[w2])
            => (w1 \in overrun \/ w2 \in overrun)

(* The worker is between the commit of a new zone and its event.           *)
Announcing(w, u) == user[w] = u /\ pc[w] \in {"history", "publish"}

LastAnnounced(u) == eventZone[u] = metrics[u].zone /\ historyZone[u] = metrics[u].zone

(* While calls succeed, processes live and keys last, once nobody is       *)
(* between the commit and the publish the last USER_ZONE_CHANGED and the   *)
(* last zone_history row of a user both carry the zone of the metrics row: *)
(* no other run commits in between and announces first, although stalled   *)
(* jobs are taken twice (recalculateUser after its updateMany).            *)
ZoneAnnounced ==
    faulted \subseteq {"stall"} =>
        \A u \in Users : (\A w \in Workers : ~Announcing(w, u)) => LastAnnounced(u)

(* Whatever overlaps, stalls, dies or is retried, each user's zone moves   *)
(* as if its recalculations ran one after the other, and only on a second  *)
(* consecutive agreeing verdict (revision check plus applySoftTransition). *)
Promise == INSTANCE SoftTransition
    WITH zone <- [u \in Users |-> metrics[u].zone],
         candidate <- [u \in Users |-> metrics[u].pendingZone]

SoftTransitionSpec == Promise!Spec

(* A queued recalculation never stays in the queue: BullMQ's attempts and  *)
(* stalled-job limit bring every accepted job to an end.                   *)
JobsSettle == \A u \in Users : job[u] = "delayed" ~> job[u] \in {"completed", "failed", "absent"}

(* As long as nothing fails, an accepted job answers every request made so *)
(* far: a recalculation reads the database after the job was accepted.     *)
JobsServed == \A u \in Users : job[u] = "delayed" ~> (owed[u] = {} \/ faulted # {})
=============================================================================
