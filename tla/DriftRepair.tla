----------------------------- MODULE DriftRepair ----------------------------
(***************************************************************************)
(* How a recalculation that an event asked for, or should have asked for,  *)
(* comes about: KafkaEventBus and the message-event consumers of           *)
(* scoring-service on one side, the hourly scan of streamActiveUserIds on  *)
(* the other.  RecalcQueue is the job in between; here it is stored or not *)
(* and ends in one step, by a recalculation or by its attempts used up.    *)
(*                                                                         *)
(* Users are numbered in the order of user_metrics.id, the scan's order.   *)
(***************************************************************************)
EXTENDS Naturals, Sequences, FiniteSets

CONSTANTS N,           \* number of users
          BatchSize,   \* 500 in the code
          Keep,        \* removeOnComplete.count and removeOnFail.count: 100
          NoOffset,    \* a group that never committed; a consumer that is down
          MaxEvents,   \* bound: events on the topic
          MaxFaults    \* bound: failures of all kinds together

ASSUME RepairAssumption == N \in Nat \ {0} /\ BatchSize \in Nat \ {0} /\ NoOffset \notin Nat
                           /\ Keep \in Nat /\ MaxEvents \in Nat /\ MaxFaults \in Nat

Users == 1 .. N

VARIABLES
    topic,      \* the events of message.sent, by offset: their sender
    position,   \* offset of the next event the running consumer takes
    committed,  \* the group's committed offset
    jobs,       \* users whose job recalc-<user> is delayed, waiting or active
    kept,       \* users whose finished job BullMQ retains, oldest first, per outcome
    fresh,      \* users whose user_metrics.updated_at is within seven days
    scan,       \* the running scan, or how the last one ended
    faults,     \* failures so far
    dirty,      \* history: users whose messages are newer than their metrics
    passed,     \* history: offsets handled, or logged as failed
    first,      \* history: where the group last began with no committed offset
    steady,     \* history: users fresh since the scan began
    gaps        \* history: pages read from a cursor row that left the filter

bus == <<topic, position, committed, passed, first>>
queue == <<jobs, kept>>
scanVars == <<scan, steady, gaps>>
repairVars == <<bus, queue, fresh, scanVars, faults, dirty>>

NoScan == [at |-> "idle", cursor |-> 0, page |-> {}, last |-> FALSE, yielded |-> {}]

Fault == faults < MaxFaults /\ faults' = faults + 1

\* @updatedAt: any write of the row.
Touch(u) == fresh' = fresh \cup {u}

----------------------------------------------------------------------------
\* RecalcEnqueuer and its BullMQ queue.

Retained(u, outcome) == \E i \in DOMAIN kept[outcome] : kept[outcome][i] = u

\* queue.add with a custom jobId: ignored while a job of that id is stored in
\* any state, the finished ones that are retained included.
enqueue(u) ==
    /\ jobs' = IF Retained(u, "completed") \/ Retained(u, "failed") THEN jobs ELSE jobs \cup {u}
    /\ UNCHANGED kept

FinishForever(u, outcome) ==            \* mutant: without removeOnComplete and removeOnFail
    /\ jobs' = jobs \ {u}
    /\ kept' = [kept EXCEPT ![outcome] = Append(@, u)]

\* A job reaches its final state; the oldest beyond Keep is forgotten.
Finish(u, outcome) ==
    LET all == Append(kept[outcome], u) IN
    /\ jobs' = jobs \ {u}
    /\ kept' = [kept EXCEPT ![outcome] = IF Len(all) > Keep THEN Tail(all) ELSE all]

----------------------------------------------------------------------------
\* chat-service: the row is stored, then the event is published or is not.
PublishSent(u) ==
    /\ Len(topic) < MaxEvents
    /\ dirty' = dirty \cup {u}
    /\ \/ topic' = Append(topic, u) /\ UNCHANGED faults
       \/ Fault /\ UNCHANGED topic
    /\ UNCHANGED <<position, committed, passed, first, queue, fresh, scanVars>>

----------------------------------------------------------------------------
\* KafkaEventBus.subscribe and its eachMessage

SubscribeLatest ==                      \* mutant: always the end of the topic
    /\ position = NoOffset
    /\ position' = Len(topic)
    /\ first' = IF first = NoOffset THEN Len(topic) ELSE first
    /\ UNCHANGED <<topic, committed, passed, queue, fresh, scanVars, faults, dirty>>

\* fromBeginning: false applies to a group without a committed offset.
Subscribe ==
    /\ position = NoOffset
    /\ position' = IF committed = NoOffset THEN Len(topic) ELSE committed
    /\ first' = IF committed = NoOffset THEN position' ELSE first
    /\ UNCHANGED <<topic, committed, passed, queue, fresh, scanVars, faults, dirty>>

\* onMessageSent upserts the row, then the user is enqueued; a handler that
\* throws is logged and its offset passed over all the same.
EachMessage ==
    LET u == topic[position + 1] IN
    /\ position # NoOffset /\ position < Len(topic)
    /\ \/ Touch(u) /\ enqueue(u) /\ UNCHANGED faults
       \/ Fault /\ UNCHANGED queue /\ fresh' \in {fresh, fresh \cup {u}}
    /\ position' = position + 1
    /\ passed' = passed \cup {position + 1}
    /\ UNCHANGED <<topic, committed, first, scanVars, dirty>>

\* kafkajs commits what eachMessage has resolved.
Commit ==
    /\ position # NoOffset /\ committed # position
    /\ committed' = position
    /\ UNCHANGED <<topic, position, passed, first, queue, fresh, scanVars, faults, dirty>>

\* The process stops between two commits: the consumer and the scan are gone.
Stop ==
    /\ position # NoOffset /\ Fault
    /\ position' = NoOffset
    /\ scan' = NoScan /\ steady' = {} /\ gaps' = 0
    /\ UNCHANGED <<topic, committed, passed, first, queue, fresh, dirty>>

----------------------------------------------------------------------------
\* ScoringJob.handleCron, HealthController.recalculate: one scan at a time here.

StartScan ==
    /\ position # NoOffset /\ scan.at = "idle"
    /\ scan' = [NoScan EXCEPT !.at = "read"]
    /\ steady' = fresh /\ gaps' = 0
    /\ UNCHANGED <<bus, queue, fresh, faults, dirty>>

\* findMany: the filter, from the cursor on, less its first row, and of these
\* the first BatchSize.
Rest(cursor) ==
    LET matching == {u \in fresh : u >= cursor}
    IN  {u \in matching : cursor = 0 \/ \E v \in matching : v < u}

Page(cursor) == {u \in Rest(cursor) : Cardinality({v \in Rest(cursor) : v < u}) < BatchSize}

Turn(page, last) ==
    \/ /\ page = {}
       /\ scan' = [scan EXCEPT !.at = "done"]
    \/ \E final \in page :
          /\ \A v \in page : v <= final
          /\ scan' = [scan EXCEPT !.at = "yield", !.page = page, !.cursor = final, !.last = last]

ReadPageShort ==                        \* mutant: a full page ends the scan too
    /\ scan.at = "read"
    /\ Turn(Page(scan.cursor), TRUE)
    /\ gaps' = IF scan.cursor \in fresh \cup {0} THEN gaps ELSE gaps + 1
    /\ UNCHANGED <<bus, queue, fresh, steady, faults, dirty>>

ReadPage ==
    LET page == Page(scan.cursor) IN
    /\ scan.at = "read"
    /\ Turn(page, Cardinality(page) < BatchSize)
    /\ gaps' = IF scan.cursor \in fresh \cup {0} THEN gaps ELSE gaps + 1
    /\ UNCHANGED <<bus, queue, fresh, steady, faults, dirty>>

\* The rows of a page are yielded in its order.
EnqueueYielded ==
    /\ scan.at = "yield"
    /\ \E u \in scan.page :
          /\ \A v \in scan.page : u <= v
          /\ enqueue(u)
          /\ scan' = [scan EXCEPT !.page = @ \ {u}, !.yielded = @ \cup {u},
                                  !.at = IF scan.page # {u} THEN "yield"
                                         ELSE IF scan.last THEN "done" ELSE "read"]
    /\ UNCHANGED <<bus, fresh, steady, gaps, faults, dirty>>

\* An enqueue or a page read rejects: the scan ends there.
ScanFails ==
    /\ scan.at \in {"read", "yield"} /\ Fault
    /\ scan' = NoScan /\ steady' = {} /\ gaps' = 0
    /\ UNCHANGED <<bus, queue, fresh, dirty>>

EndScan ==
    /\ scan.at = "done"
    /\ scan' = NoScan /\ steady' = {} /\ gaps' = 0
    /\ UNCHANGED <<bus, queue, fresh, faults, dirty>>

----------------------------------------------------------------------------
\* The job: recalculateUser writes the row.
Recalculate(u) ==
    /\ u \in jobs
    /\ Finish(u, "completed")
    /\ dirty' = dirty \ {u}
    /\ Touch(u)
    /\ UNCHANGED <<bus, scanVars, faults>>

RecalculationFails(u) ==
    /\ u \in jobs /\ Fault
    /\ Finish(u, "failed")
    /\ UNCHANGED <<bus, fresh, scanVars, dirty>>

\* Seven days without a write of the row.
Lapse(u) ==
    /\ u \in fresh /\ Fault
    /\ fresh' = fresh \ {u}
    /\ steady' = steady \ {u}
    /\ UNCHANGED <<bus, queue, scan, gaps, dirty>>

----------------------------------------------------------------------------
RepairInit ==
    /\ topic \in {<<>>, <<1>>}
    /\ position = NoOffset /\ committed = NoOffset /\ passed = {} /\ first = NoOffset
    /\ jobs = {} /\ kept = [outcome \in {"completed", "failed"} |-> <<>>]
    /\ fresh \in {Users, {}} /\ dirty = {}
    /\ scan = NoScan /\ steady = {} /\ gaps = 0 /\ faults = 0

Scan == ReadPage \/ EnqueueYielded \/ ScanFails \/ EndScan

RepairNext ==
    \/ \E u \in Users : PublishSent(u) \/ Recalculate(u) \/ RecalculationFails(u) \/ Lapse(u)
    \/ Subscribe \/ EachMessage \/ Commit \/ Stop
    \/ StartScan \/ Scan

RepairSpec == RepairInit /\ [][RepairNext]_repairVars

\* The service is restarted, the cron fires, its loop and the workers go on.
\* Whether kafkajs delivers is left open.
RepairFairness ==
    /\ WF_repairVars(Subscribe) /\ WF_repairVars(StartScan) /\ WF_repairVars(Scan)
    /\ \A u \in Users : WF_repairVars(Recalculate(u) \/ RecalculationFails(u))

RepairFairSpec == RepairSpec /\ RepairFairness

----------------------------------------------------------------------------
\* Types, and where a scan may be.
RepairTypeOK ==
    /\ topic \in Seq(Users) /\ position \in Nat \cup {NoOffset} /\ committed \in Nat \cup {NoOffset}
    /\ jobs \subseteq Users /\ kept \in [{"completed", "failed"} -> Seq(Users)]
    /\ \A outcome \in DOMAIN kept : Len(kept[outcome]) <= Keep
    /\ fresh \subseteq Users /\ dirty \subseteq Users /\ steady \subseteq fresh
    /\ scan.at \in {"idle", "read", "yield", "done"} /\ scan.cursor \in Users \cup {0}
    /\ scan.page \subseteq Users /\ scan.last \in BOOLEAN /\ scan.yielded \subseteq Users
    /\ passed \subseteq DOMAIN topic /\ gaps \in Nat /\ faults \in 0 .. MaxFaults

(* No event falls between two runs of the consumer: from where the group   *)
(* began (at the end of the topic, again and again until it has committed  *)
(* once), every offset before the committed one was handled or logged as   *)
(* failed, so a restart repeats events and skips none (KafkaEventBus).     *)
NoEventSkipped ==
    /\ committed # NoOffset => (first + 1) .. committed \subseteq passed
    /\ position # NoOffset => (first + 1) .. position \subseteq passed

(* A scan that ran to its end yielded every user whose row was in the      *)
(* filter all along, less at most one for each page that was read from a   *)
(* cursor row that had left the filter, rows touched and lapsing while it  *)
(* ran included (streamActiveUserIds).                                     *)
ScanComplete == scan.at = "done" => Cardinality(steady \ scan.yielded) <= gaps

\* Users the scan can still bring to a recalculation.
Servable == {u \in fresh : ~Retained(u, "failed")}

(* The safety net repairs drift, with or without an event for it, as far   *)
(* as the queue lets it: a retained job makes the enqueue of its user a    *)
(* no-op, so a job that failed bars its user, and one that completed does  *)
(* until the scan has recalculated others.  While more users than BullMQ   *)
(* retains can be served, each of them whose messages are newer than its   *)
(* metrics is recalculated by a later scan, once failures come to an end   *)
(* (ScoringJob.handleCron, RecalcEnqueuer.enqueue).                        *)
DriftRepaired ==
    \A u \in Users :
        (u \in dirty \cap Servable /\ Cardinality(Servable) > Keep)
            ~> (u \notin dirty \/ u \notin Servable \/ Cardinality(Servable) <= Keep)
=============================================================================
