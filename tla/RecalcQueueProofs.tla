------------------------- MODULE RecalcQueueProofs -------------------------
(***************************************************************************)
(* Theorems about RecalcQueue, for every set of users, workers and zones,  *)
(* every verdict of the classifier and every combination of Faults.        *)
(***************************************************************************)
EXTENDS RecalcQueue, TLAPS

(* A row counts at most one run for its pending zone, and none without a   *)
(* pending zone: the second agreeing run always commits.                   *)
RowShape(row) == /\ row.pendingZone # row.zone
                 /\ row.pendingZoneRuns = IF row.pendingZone = NoZone THEN 0 ELSE 1

RowsShaped == \A u \in Users : RowShape(metrics[u])

(* What a run read is the row's past; if the revision has not moved, it is *)
(* the row itself.                                                         *)
Fresh(w) ==
    LET row == metrics[user[w]] IN
    /\ snapshot[w].exists
    /\ snapshot[w].revision <= row.revision
    /\ snapshot[w].revision = row.revision => snapshot[w] = row

SnapshotFresh == \A w \in Workers : pc[w] = "write" => Fresh(w)

(* A run whose key has not expired under it still holds the key.           *)
LockOwned == \A w \in Workers : InSection(w) /\ w \notin overrun => lock[user[w]] = w

IInv == TypeOK /\ RowsShaped /\ SnapshotFresh /\ LockOwned

USE ConstantsAssumption DEF hist

----------------------------------------------------------------------------
\* Types.

LEMMA FreshRowType == \A z \in Zones : FreshRow(z) \in Row /\ [FreshRow(z) EXCEPT !.exists = FALSE] \in Row
  BY DEF FreshRow, Row

LEMMA NextRowType ==
  ASSUME NEW row \in Row, NEW v \in Zones
  PROVE  /\ NextRow(row, v) \in Row
         /\ NextRow(row, v).revision = row.revision + 1
  BY DEF NextRow, Row, applySoftTransition

LEMMA ExistingRowType ==
  ASSUME NEW r \in Row
  PROVE  [r EXCEPT !.exists = TRUE] \in Row
  BY DEF Row

LEMMA BusyWorker ==
  ASSUME TypeOK, NEW w \in Workers, pc[w] # "idle"
  PROVE  user[w] \in Users
  BY DEF TypeOK

LEMMA RetireType ==
  ASSUME TypeOK, NEW u \in Users, NEW outcome \in {"completed", "failed"}, Retire(u, outcome)
  PROVE  /\ job' \in [Users -> JobStates]
         /\ kept' \in [{"completed", "failed"} -> Seq(Users)]
         /\ \A o \in DOMAIN kept' : Len(kept'[o]) <= Keep
  <1> DEFINE all == Append(kept[outcome], u)
             rest == IF Len(all) > Keep THEN Tail(all) ELSE all
  <1>1. /\ all \in Seq(Users) /\ all # <<>>
        /\ Len(all) <= Keep + 1
        /\ Head(all) \in Users
    <2>1. kept[outcome] \in Seq(Users) /\ Len(kept[outcome]) <= Keep
      BY DEF TypeOK
    <2>2. /\ all \in Seq(Users) /\ Len(all) = Len(kept[outcome]) + 1
          /\ \A i \in 1 .. Len(all) : all[i] \in Users
      BY <2>1
    <2> HIDE DEF all
    <2>3. Len(all) >= 1 /\ all # <<>>
      BY <2>1, <2>2
    <2>4. Head(all) = all[1]
      BY <2>2, <2>3
    <2> QED  BY <2>1, <2>2, <2>3, <2>4
  <1>2. rest \in Seq(Users) /\ Len(rest) <= Keep
    <2> HIDE DEF all
    <2>1. CASE Len(all) > Keep
      BY <1>1, <2>1
    <2>2. CASE ~(Len(all) > Keep)
      BY <1>1, <2>2
    <2> QED  BY <2>1, <2>2
  <1>3. kept' = [kept EXCEPT ![outcome] = rest]
    BY DEF Retire
  <1>4. job' \in [Users -> JobStates]
    <2>1. \/ job' = [job EXCEPT ![u] = outcome]
          \/ job' = [[job EXCEPT ![u] = outcome] EXCEPT ![Head(all)] = "absent"]
      BY DEF Retire
    <2>2. job \in [Users -> JobStates]
      BY DEF TypeOK
    <2> HIDE DEF all
    <2> QED  BY <1>1, <2>1, <2>2 DEF JobStates
  <1> HIDE DEF rest
  <1> QED  BY <1>2, <1>3, <1>4 DEF TypeOK

LEMMA InitType == Init => TypeOK
  <1> SUFFICES ASSUME Init PROVE TypeOK
    OBVIOUS
  <1> DEFINE rows == {FreshRow(z) : z \in SeedZones}
                      \cup {[FreshRow(Steady) EXCEPT !.exists = FALSE]}
  <1>0. \A r \in rows : r \in Row
    BY FreshRowType
  <1>1. metrics \in [Users -> Row]
    <2>1. metrics \in [Users -> rows]
      BY DEF Init
    <2> HIDE DEF rows
    <2> QED  BY <1>0, <2>1
  <1>2. \A u \in Users : metrics[u].zone \in Zones
    BY <1>1 DEF Row
  <1>3. snapshot \in [Workers -> Row] /\ finalZone \in [Workers -> Zones]
    BY FreshRowType DEF Init, NoLocals
  <1> QED
    BY <1>1, <1>2, <1>3 DEF Init, TypeOK, JobStates, Steps, NoLocals

LEMMA NextType == TypeOK /\ [Next]_vars => TypeOK'
  <1> SUFFICES ASSUME TypeOK, [Next]_vars PROVE TypeOK'
    OBVIOUS
  <1> USE DEF TypeOK, queueVars, workerVars, zoneLog
  <1>1. ASSUME NEW u \in Users, DelayElapses(u) PROVE TypeOK'
    BY <1>1 DEF DelayElapses, JobStates
  <1>2. ASSUME NEW u \in Users, Stalled(u) PROVE TypeOK'
    <2>1. job' \in [Users -> JobStates] /\ kept' \in [{"completed", "failed"} -> Seq(Users)]
          /\ \A o \in DOMAIN kept' : Len(kept'[o]) <= Keep
      BY <1>2, RetireType DEF Stalled, JobStates
    <2>2. /\ owner' = [owner EXCEPT ![u] = Nobody]
          /\ stalls' = [stalls EXCEPT ![u] = stalls[u] + 1] \/ stalls' = stalls
          /\ UNCHANGED <<attemptsMade, lock, metrics, pc, workerVars, zoneLog, overrun, owed>>
      BY <1>2 DEF Stalled
    <2>3. stalls' \in [Users -> Nat]
      <3>1. stalls \in [Users -> Nat]
        OBVIOUS
      <3> HIDE DEF TypeOK
      <3> QED  BY <2>2, <3>1
    <2>4. faulted' \subseteq Faults
      BY <1>2 DEF Stalled
    <2> QED  BY <2>1, <2>2, <2>3, <2>4
  <1>3. ASSUME NEW u \in Users, LockExpires(u) PROVE TypeOK'
    BY <1>3 DEF LockExpires
  <1>4. ASSUME NEW u \in Users, Trigger(u) PROVE TypeOK'
    BY <1>4 DEF Trigger, enqueue, JobStates
  <1>5. ASSUME NEW u \in Users, EnsureMetrics(u) PROVE TypeOK'
    <2>1. [metrics[u] EXCEPT !.exists = TRUE] \in Row
      BY ExistingRowType
    <2>2. metrics' = [metrics EXCEPT ![u] = [metrics[u] EXCEPT !.exists = TRUE]]
      BY <1>5 DEF EnsureMetrics
    <2> QED  BY <1>5, <2>1, <2>2 DEF EnsureMetrics
  <1>6. ASSUME NEW w \in Workers, NEW u \in Users, TakeJob(w, u) PROVE TypeOK'
    BY <1>6 DEF TakeJob, JobStates, Steps
  <1>7. ASSUME NEW w \in Workers, AcquireLock(w) PROVE TypeOK'
    <2>1. user[w] \in Users
      BY <1>7, BusyWorker DEF AcquireLock
    <2>2. /\ \/ lock' = [lock EXCEPT ![user[w]] = w]
             \/ lock' = lock
          /\ \/ pc' = [pc EXCEPT ![w] = "read"]
             \/ pc' = [pc EXCEPT ![w] = "requeueBusy"]
          /\ pc[w] = "acquire"
          /\ UNCHANGED <<queueVars, metrics, workerVars, zoneLog, hist, owed>>
      BY <1>7 DEF AcquireLock
    <2>3. lock' \in [Users -> Workers \cup {Nobody, Orphan}]
      <3>1. lock \in [Users -> Workers \cup {Nobody, Orphan}]
        OBVIOUS
      <3> HIDE DEF TypeOK
      <3> QED  BY <2>1, <2>2, <3>1
    <2>4. pc' \in [Workers -> Steps] /\ \A x \in Workers : pc'[x] = "idle" <=> user'[x] = Nobody
      BY <2>2 DEF Steps
    <2> QED  BY <2>2, <2>3, <2>4
  <1>8. ASSUME NEW w \in Workers, Reenqueue(w) PROVE TypeOK'
    BY <1>8, BusyWorker DEF Reenqueue, enqueue, JobStates, Steps
  <1>9. ASSUME NEW w \in Workers, ReleaseLock(w) PROVE TypeOK'
    BY <1>9, BusyWorker DEF ReleaseLock, Steps
  <1>10. ASSUME NEW w \in Workers, ReleaseFails(w) PROVE TypeOK'
    BY <1>10, BusyWorker DEF ReleaseFails, Steps
  <1>11. ASSUME NEW w \in Workers, ReadMetrics(w) PROVE TypeOK'
    <2>1. user[w] \in Users /\ metrics[user[w]] \in Row
      BY <1>11, BusyWorker DEF ReadMetrics
    <2>2. snapshot' \in [Workers -> Row] /\ owed' \in [Users -> SUBSET {"trigger", "conflict"}]
      BY <1>11, <2>1 DEF ReadMetrics
    <2>3. pc' \in [Workers -> Steps] /\ \A x \in Workers : pc'[x] = "idle" <=> user'[x] = Nobody
      <3>1. /\ pc' = [pc EXCEPT ![w] = "release"] \/ pc' = [pc EXCEPT ![w] = "write"]
            /\ pc[w] = "read" /\ user' = user
        BY <1>11 DEF ReadMetrics
      <3> QED  BY <3>1 DEF Steps
    <2> QED  BY <1>11, <2>2, <2>3 DEF ReadMetrics
  <1>12. ASSUME NEW w \in Workers, NEW v \in Proposable, WriteMetrics(w, v) PROVE TypeOK'
    <2> DEFINE row == NextRow(snapshot[w], v)
    <2>1. user[w] \in Users
      BY <1>12, BusyWorker DEF WriteMetrics
    <2>2. row \in Row /\ row.zone \in Zones
      BY NextRowType DEF Row
    <2> HIDE DEF row
    <2>3. /\ metrics' = [metrics EXCEPT ![user[w]] = row] \/ metrics' = metrics
          /\ finalZone' = [finalZone EXCEPT ![w] = row.zone] \/ finalZone' = finalZone
      BY <1>12 DEF WriteMetrics, row
    <2>4. metrics \in [Users -> Row] /\ finalZone \in [Workers -> Zones]
      OBVIOUS
    <2>6. metrics' \in [Users -> Row] /\ finalZone' \in [Workers -> Zones]
      <3> HIDE DEF TypeOK
      <3> QED  BY <2>1, <2>2, <2>3, <2>4
    <2>5. pc' \in [Workers -> Steps] /\ \A x \in Workers : pc'[x] = "idle" <=> user'[x] = Nobody
      BY <1>12 DEF WriteMetrics, Steps
    <2> QED  BY <1>12, <2>5, <2>6 DEF WriteMetrics
  <1>13. ASSUME NEW w \in Workers, CreateZoneHistory(w) PROVE TypeOK'
    BY <1>13, BusyWorker DEF CreateZoneHistory, Steps
  <1>14. ASSUME NEW w \in Workers, PublishZoneChanged(w) PROVE TypeOK'
    BY <1>14, BusyWorker DEF PublishZoneChanged, Steps
  <1>15. ASSUME NEW w \in Workers, Throw(w) PROVE TypeOK'
    <2>1. /\ pc' = [pc EXCEPT ![w] = "release"] \/ pc' = [pc EXCEPT ![w] = "ack"]
          /\ threw' = [threw EXCEPT ![w] = TRUE]
          /\ pc[w] # "idle"
      BY <1>15 DEF Throw
    <2> QED  BY <1>15, <2>1 DEF Throw, Steps
  <1>16. ASSUME NEW w \in Workers, Acknowledge(w) PROVE TypeOK'
    <2>1. user[w] \in Users
      BY <1>16, BusyWorker DEF Acknowledge
    <2>2. job' \in [Users -> JobStates] /\ kept' \in [{"completed", "failed"} -> Seq(Users)]
          /\ \A o \in DOMAIN kept' : Len(kept'[o]) <= Keep
      BY <1>16, <2>1, RetireType DEF Acknowledge, JobStates
    <2>3. /\ pc' \in [Workers -> Steps] /\ user' \in [Workers -> Users \cup {Nobody}]
          /\ snapshot' \in [Workers -> Row] /\ finalZone' \in [Workers -> Zones]
          /\ threw' \in [Workers -> BOOLEAN]
          /\ \A x \in Workers : pc'[x] = "idle" <=> user'[x] = Nobody
      BY <1>16, FreshRowType DEF Acknowledge, Return, NoLocals, Steps
    <2>4. /\ owner' = [owner EXCEPT ![user[w]] = Nobody] \/ owner' = owner
          /\ \/ attemptsMade' = [attemptsMade EXCEPT ![user[w]] = attemptsMade[user[w]] + 1]
             \/ attemptsMade' = attemptsMade
          /\ stalls' = stalls /\ overrun' = overrun \ {w}
          /\ UNCHANGED <<lock, metrics, zoneLog, faulted, owed>>
      BY <1>16 DEF Acknowledge
    <2>5. /\ owner' \in [Users -> Workers \cup {Nobody}]
          /\ attemptsMade' \in [Users -> Nat]
      <3>1. owner \in [Users -> Workers \cup {Nobody}] /\ attemptsMade \in [Users -> Nat]
        OBVIOUS
      <3> HIDE DEF TypeOK
      <3> QED  BY <2>1, <2>4, <3>1
    <2> QED  BY <2>2, <2>3, <2>4, <2>5
  <1>17. ASSUME NEW w \in Workers, Crash(w) PROVE TypeOK'
    <2>3. /\ pc' \in [Workers -> Steps] /\ user' \in [Workers -> Users \cup {Nobody}]
          /\ snapshot' \in [Workers -> Row] /\ finalZone' \in [Workers -> Zones]
          /\ threw' \in [Workers -> BOOLEAN]
          /\ \A x \in Workers : pc'[x] = "idle" <=> user'[x] = Nobody
      BY <1>17, FreshRowType DEF Crash, Return, NoLocals, Steps
    <2>4. faulted' \subseteq Faults /\ overrun' \subseteq Workers
      BY <1>17 DEF Crash
    <2> QED  BY <1>17, <2>3, <2>4 DEF Crash
  <1>18. CASE UNCHANGED vars
    BY <1>18 DEF vars
  <1> QED
    BY <1>1, <1>2, <1>3, <1>4, <1>5, <1>6, <1>7, <1>8, <1>9, <1>10, <1>11, <1>12, <1>13,
       <1>14, <1>15, <1>16, <1>17, <1>18 DEF Next, Process, Quiescent

(* Every variable keeps its type, the retained jobs stay within Keep, and  *)
(* a worker has a user exactly while it runs process().                    *)
THEOREM TypeCorrect == Spec => []TypeOK
  BY InitType, NextType, PTL DEF Spec

----------------------------------------------------------------------------
\* The optimistic write, and the mutex.

LEMMA NextRowShape ==
  ASSUME NEW row \in Row, NEW v \in Zones, RowShape(row)
  PROVE  RowShape(NextRow(row, v))
  BY DEF RowShape, NextRow, Row, applySoftTransition, SOFT_TRANSITION_RUNS

LEMMA InitInv == Init => IInv
  <1> SUFFICES ASSUME Init PROVE IInv
    OBVIOUS
  <1>1. TypeOK
    BY InitType
  <1>2. RowsShaped
    <2> SUFFICES ASSUME NEW u \in Users PROVE RowShape(metrics[u])
      BY DEF RowsShaped
    <2>1. \A z \in Zones : RowShape(FreshRow(z)) /\ RowShape([FreshRow(z) EXCEPT !.exists = FALSE])
      BY DEF RowShape, FreshRow
    <2>2. metrics[u] \in {FreshRow(z) : z \in SeedZones}
                         \cup {[FreshRow(Steady) EXCEPT !.exists = FALSE]}
      BY DEF Init
    <2> QED  BY <2>1, <2>2
  <1>3. SnapshotFresh /\ LockOwned
    BY DEF Init, SnapshotFresh, LockOwned, InSection, Section
  <1> QED  BY <1>1, <1>2, <1>3 DEF IInv

\* The three parts of a step on which the rows, the snapshots and the mutex depend.

LEMMA RowsKept ==
  ASSUME IInv, [Next]_vars
  PROVE  RowsShaped'
  <1> USE DEF IInv
  <1>1. ASSUME NEW w \in Workers, NEW v \in Proposable, WriteMetrics(w, v) PROVE RowsShaped'
    <2> DEFINE u == user[w]
    <2>1. u \in Users /\ snapshot[w] \in Row /\ metrics \in [Users -> Row]
      BY <1>1, BusyWorker DEF WriteMetrics, TypeOK
    <2>2. CASE metrics[u].revision = snapshot[w].revision
      <3>1. snapshot[w] = metrics[u]
        BY <1>1, <2>2 DEF WriteMetrics, SnapshotFresh, Fresh
      <3>2. RowShape(NextRow(snapshot[w], v))
        BY <2>1, <3>1, NextRowShape DEF RowsShaped
      <3>3. metrics' = [metrics EXCEPT ![u] = NextRow(snapshot[w], v)]
        BY <1>1, <2>2 DEF WriteMetrics
      <3> QED  BY <2>1, <3>2, <3>3 DEF RowsShaped
    <2>3. CASE metrics[u].revision # snapshot[w].revision
      BY <1>1, <2>3 DEF WriteMetrics, RowsShaped
    <2> QED  BY <2>2, <2>3
  <1>2. ASSUME NEW u \in Users, EnsureMetrics(u) PROVE RowsShaped'
    <2>1. metrics' = [metrics EXCEPT ![u] = [metrics[u] EXCEPT !.exists = TRUE]]
      BY <1>2 DEF EnsureMetrics
    <2>2. metrics \in [Users -> Row] /\ metrics[u] \in Row
      BY DEF TypeOK
    <2>3. RowShape([metrics[u] EXCEPT !.exists = TRUE])
      BY <2>2 DEF RowsShaped, RowShape, Row
    <2> QED  BY <2>1, <2>2, <2>3 DEF RowsShaped
  <1>3. ASSUME metrics' = metrics PROVE RowsShaped'
    BY <1>3 DEF RowsShaped
  <1> QED
    BY <1>1, <1>2, <1>3 DEF Next, Process, Quiescent, vars, DelayElapses, Stalled, LockExpires,
       Trigger, TakeJob, AcquireLock, Reenqueue, ReleaseLock, ReleaseFails, ReadMetrics,
       CreateZoneHistory, PublishZoneChanged, Throw, Acknowledge, Crash

LEMMA SnapshotKept ==
  ASSUME IInv, [Next]_vars
  PROVE  SnapshotFresh'
  <1> USE DEF IInv
  <1> SUFFICES ASSUME NEW x \in Workers, pc'[x] = "write"
               PROVE  Fresh(x)'
    BY DEF SnapshotFresh
  <1> DEFINE u == user[x]
  <1>0. /\ metrics \in [Users -> Row] /\ snapshot[x] \in Row
        /\ pc[x] # "idle" => u \in Users
    BY BusyWorker DEF TypeOK
  \* A worker in "write" that did not just read has read before.
  <1>1. ASSUME pc[x] = "write", UNCHANGED <<metrics, user[x], snapshot[x]>>
        PROVE  Fresh(x)'
    BY <1>1 DEF SnapshotFresh, Fresh
  <1>2. ASSUME NEW w \in Workers, ReadMetrics(w), w = x
        PROVE  snapshot'[x] = metrics'[user'[x]] /\ metrics[u].exists /\ u \in Users
    <2>1. pc[x] = "read" /\ u \in Users
      BY <1>0, <1>2 DEF ReadMetrics
    <2>2. CASE metrics[u].exists
      BY <1>2, <2>1, <2>2 DEF ReadMetrics, TypeOK
    <2>3. CASE ~metrics[u].exists
      BY <1>2, <2>1, <2>3 DEF ReadMetrics, TypeOK
    <2> QED  BY <2>1, <2>2, <2>3
  <1>3. ASSUME NEW w \in Workers, ReadMetrics(w), w # x
        PROVE  pc[x] = "write" /\ UNCHANGED <<metrics, user[x], snapshot[x]>>
    BY <1>3 DEF ReadMetrics, TypeOK
  <1>4. ASSUME NEW w \in Workers, NEW v \in Proposable, WriteMetrics(w, v)
        PROVE  Fresh(x)'
    <2>1. x # w /\ pc[x] = "write"
      BY <1>4 DEF WriteMetrics, TypeOK
    <2>2. user' = user /\ snapshot' = snapshot /\ u \in Users
      BY <1>0, <1>4, <2>1 DEF WriteMetrics
    <2>3. user[w] \in Users /\ snapshot[w] \in Row /\ metrics[user[w]] \in Row
      BY <1>4, BusyWorker DEF WriteMetrics, TypeOK
    <2>4. /\ snapshot[x].exists
          /\ snapshot[x].revision <= metrics[u].revision
          /\ snapshot[x].revision = metrics[u].revision => snapshot[x] = metrics[u]
      BY <2>1 DEF SnapshotFresh, Fresh
    <2>5. CASE metrics' = metrics
      BY <2>2, <2>4, <2>5 DEF Fresh
    <2>6. CASE /\ metrics[user[w]].revision = snapshot[w].revision
               /\ metrics' = [metrics EXCEPT ![user[w]] = NextRow(snapshot[w], v)]
      <3>1. NextRow(snapshot[w], v).revision = metrics[user[w]].revision + 1
        BY <2>3, <2>6, NextRowType
      <3>2. CASE u = user[w]
        <4>1. metrics'[u] = NextRow(snapshot[w], v)
          BY <1>0, <2>3, <2>6, <3>2
        <4>2. metrics[u].revision \in Nat /\ snapshot[x].revision \in Nat
          BY <1>0, <2>3, <3>2 DEF Row
        <4> QED  BY <2>2, <2>4, <3>1, <3>2, <4>1, <4>2 DEF Fresh
      <3>3. CASE u # user[w]
        BY <1>0, <2>2, <2>4, <2>6, <3>3 DEF Fresh
      <3> QED  BY <3>2, <3>3
    <2> QED  BY <1>4, <2>5, <2>6 DEF WriteMetrics
  <1>5. ASSUME NEW v \in Users, EnsureMetrics(v)
        PROVE  Fresh(x)'
    <2>1. /\ pc[x] = "write" /\ user' = user /\ snapshot' = snapshot
          /\ metrics' = [metrics EXCEPT ![v] = [metrics[v] EXCEPT !.exists = TRUE]]
      BY <1>5 DEF EnsureMetrics, workerVars
    <2>2. /\ snapshot[x].exists
          /\ snapshot[x].revision <= metrics[u].revision
          /\ snapshot[x].revision = metrics[u].revision => snapshot[x] = metrics[u]
      BY <2>1 DEF SnapshotFresh, Fresh
    <2>3. CASE u = v
      <3>1. metrics'[u].revision = metrics[u].revision
        BY <1>0, <2>1, <2>3 DEF Row
      <3>2. ~metrics[u].exists
        BY <1>5, <2>3 DEF EnsureMetrics
      <3> QED  BY <2>1, <2>2, <3>1, <3>2 DEF Fresh
    <2>4. CASE u # v
      BY <1>0, <2>1, <2>2, <2>4 DEF Fresh
    <2> QED  BY <2>3, <2>4
  <1>6. ASSUME NEW w \in Workers, NEW v \in Users, TakeJob(w, v)
        PROVE  pc[x] = "write" /\ UNCHANGED <<metrics, user[x], snapshot[x]>>
    BY <1>6 DEF TakeJob, TypeOK
  <1>7. ASSUME NEW w \in Workers, Acknowledge(w) \/ Crash(w)
        PROVE  pc[x] = "write" /\ UNCHANGED <<metrics, user[x], snapshot[x]>>
    BY <1>7 DEF Acknowledge, Crash, Return, TypeOK
  <1>8. ASSUME NEW w \in Workers,
               \/ AcquireLock(w) \/ Reenqueue(w) \/ ReleaseLock(w) \/ ReleaseFails(w)
               \/ CreateZoneHistory(w) \/ PublishZoneChanged(w) \/ Throw(w)
        PROVE  pc[x] = "write" /\ UNCHANGED <<metrics, user[x], snapshot[x]>>
    BY <1>8 DEF AcquireLock, Reenqueue, ReleaseLock, ReleaseFails, CreateZoneHistory,
       PublishZoneChanged, Throw, TypeOK, workerVars
  <1>9. ASSUME NEW v \in Users, DelayElapses(v) \/ Stalled(v) \/ LockExpires(v) \/ Trigger(v)
        PROVE  pc[x] = "write" /\ UNCHANGED <<metrics, user[x], snapshot[x]>>
    BY <1>9 DEF DelayElapses, Stalled, LockExpires, Trigger, workerVars
  <1>10. ASSUME UNCHANGED vars
         PROVE  pc[x] = "write" /\ UNCHANGED <<metrics, user[x], snapshot[x]>>
    BY <1>10 DEF vars, workerVars
  <1>11. ASSUME NEW w \in Workers, ReadMetrics(w), w = x
         PROVE  Fresh(x)'
    <2>1. metrics' = metrics /\ user' = user
      BY <1>11 DEF ReadMetrics
    <2>2. snapshot'[x] = metrics[u] /\ metrics[u].exists /\ metrics[u] \in Row
      BY <1>0, <1>2, <1>11, <2>1
    <2> QED  BY <2>1, <2>2 DEF Row, Fresh
  <1> QED
    BY <1>1, <1>3, <1>4, <1>5, <1>6, <1>7, <1>8, <1>9, <1>10, <1>11
    DEF Next, Process, Quiescent

LEMMA LockKept ==
  ASSUME IInv, [Next]_vars
  PROVE  LockOwned'
  <1> USE DEF IInv, InSection
  <1> SUFFICES ASSUME NEW x \in Workers, pc'[x] \in Section, x \notin overrun'
               PROVE  lock'[user'[x]] = x
    BY DEF LockOwned
  <1>0. /\ pc[x] \in Section /\ x \notin overrun => lock[user[x]] = x /\ user[x] \in Users
        /\ lock \in [Users -> Workers \cup {Nobody, Orphan}]
    BY BusyWorker DEF LockOwned, Section, TypeOK
  <1>1. ASSUME NEW w \in Workers, AcquireLock(w) PROVE lock'[user'[x]] = x
    <2>1. user[w] \in Users
      BY <1>1, BusyWorker DEF AcquireLock
    <2> QED  BY <1>0, <1>1, <2>1 DEF AcquireLock, Section, TypeOK, workerVars
  <1>2. ASSUME NEW w \in Workers, ReleaseLock(w) \/ ReleaseFails(w) PROVE lock'[user'[x]] = x
    <2>1. user[w] \in Users /\ x # w /\ pc[x] \in Section
      BY <1>2, BusyWorker DEF ReleaseLock, ReleaseFails, Section, TypeOK
    <2> QED  BY <1>0, <1>2, <2>1 DEF ReleaseLock, ReleaseFails, workerVars
  <1>3. ASSUME NEW w \in Workers, Crash(w) PROVE lock'[user'[x]] = x
    <2>1. x # w /\ pc[x] \in Section /\ user'[x] = user[x] /\ x \notin overrun
      BY <1>3 DEF Crash, Return, Section, TypeOK
    <2> QED  BY <1>0, <1>3, <2>1 DEF Crash
  <1>4. ASSUME NEW w \in Workers, Acknowledge(w) PROVE lock'[user'[x]] = x
    BY <1>0, <1>4 DEF Acknowledge, Return, Section, TypeOK
  <1>5. ASSUME NEW v \in Users, LockExpires(v) PROVE lock'[user'[x]] = x
    BY <1>0, <1>5 DEF LockExpires, workerVars
  <1>6. ASSUME NEW w \in Workers, NEW v \in Users, TakeJob(w, v) PROVE lock'[user'[x]] = x
    BY <1>0, <1>6 DEF TakeJob, Section, TypeOK
  <1>7. ASSUME NEW w \in Workers, ReadMetrics(w) PROVE lock'[user'[x]] = x
    BY <1>0, <1>7 DEF ReadMetrics, Section, TypeOK
  <1>8. ASSUME NEW w \in Workers, NEW v \in Proposable, WriteMetrics(w, v) PROVE lock'[user'[x]] = x
    BY <1>0, <1>8 DEF WriteMetrics, Section, TypeOK
  <1>9. ASSUME NEW w \in Workers,
               Reenqueue(w) \/ CreateZoneHistory(w) \/ PublishZoneChanged(w)
        PROVE lock'[user'[x]] = x
    BY <1>0, <1>9 DEF Reenqueue, CreateZoneHistory, PublishZoneChanged, Section, TypeOK, workerVars
  <1>10. ASSUME NEW w \in Workers, Throw(w) PROVE lock'[user'[x]] = x
    BY <1>0, <1>10 DEF Throw, Section, TypeOK
  <1>11. ASSUME NEW v \in Users, DelayElapses(v) \/ Stalled(v) \/ Trigger(v) \/ EnsureMetrics(v)
         PROVE lock'[user'[x]] = x
    BY <1>0, <1>11 DEF DelayElapses, Stalled, Trigger, EnsureMetrics, workerVars
  <1>12. ASSUME UNCHANGED vars PROVE lock'[user'[x]] = x
    BY <1>0, <1>12 DEF vars, workerVars
  <1> QED
    BY <1>1, <1>2, <1>3, <1>4, <1>5, <1>6, <1>7, <1>8, <1>9, <1>10, <1>11, <1>12
    DEF Next, Process, Quiescent

THEOREM Invariant == Spec => []IInv
  <1>1. IInv /\ [Next]_vars => IInv'
    BY NextType, RowsKept, SnapshotKept, LockKept DEF IInv
  <1> QED  BY InitInv, <1>1, PTL DEF Spec

(* Two runs share a user's critical section only when the mutex of one of  *)
(* them expired under it, whatever stalls, dies or is retried.             *)
THEOREM MutexSafe == Spec => []MutualExclusion
  <1>1. IInv => MutualExclusion
    <2> SUFFICES ASSUME IInv, NEW w1 \in Workers, NEW w2 \in Workers,
                        w1 # w2, InSection(w1), InSection(w2), user[w1] = user[w2],
                        w1 \notin overrun, w2 \notin overrun
                 PROVE  FALSE
      BY DEF MutualExclusion
    <2> QED  BY DEF IInv, LockOwned
  <1> QED  BY Invariant, <1>1, PTL

----------------------------------------------------------------------------
\* While calls succeed, processes live and keys last.

(* Between commit and event a run holds the zone of the row, and from its  *)
(* history record on that record holds it too.                             *)
Announced(w) ==
    /\ pc[w] \in {"history", "publish"} => finalZone[w] = metrics[user[w]].zone
    /\ pc[w] = "publish" => historyZone[user[w]] = metrics[user[w]].zone

(* No key has expired under its run; each window is as Announced says, and *)
(* outside the windows what was announced is current.                      *)
AnnounceInv ==
    faulted \subseteq {"stall"} =>
        /\ overrun = {}
        /\ \A w \in Workers : Announced(w)
        /\ \A u \in Users : (\A w \in Workers : ~Announcing(w, u)) => LastAnnounced(u)

LEMMA InitAnnounce == Init => AnnounceInv
  BY DEF Init, AnnounceInv, Announced, LastAnnounced

LEMMA FaultsRemembered == [Next]_vars => faulted \subseteq faulted'
  BY DEF Next, Process, Quiescent, vars, DelayElapses, Stalled, LockExpires,
     Trigger, EnsureMetrics, TakeJob, AcquireLock, Reenqueue, ReleaseLock, ReleaseFails,
     ReadMetrics, WriteMetrics, CreateZoneHistory, PublishZoneChanged, Throw, Acknowledge, Crash

LEMMA AnnounceKept ==
  ASSUME IInv, AnnounceInv, [Next]_vars
  PROVE  AnnounceInv'
  <1> DEFINE Calm == /\ overrun = {}
                     /\ \A w \in Workers : Announced(w)
                     /\ \A u \in Users : (\A w \in Workers : ~Announcing(w, u)) => LastAnnounced(u)
  <1> SUFFICES ASSUME faulted' \subseteq {"stall"} PROVE Calm'
    BY DEF AnnounceInv
  <1>0. /\ metrics \in [Users -> Row] /\ pc \in [Workers -> Steps]
        /\ user \in [Workers -> Users \cup {Nobody}] /\ finalZone \in [Workers -> Zones]
        /\ historyZone \in [Users -> Zones] /\ eventZone \in [Users -> Zones]
        /\ \A w \in Workers : pc[w] # "idle" => user[w] \in Users
    BY BusyWorker DEF IInv, TypeOK
  <1>1. Calm
    BY FaultsRemembered DEF AnnounceInv
  \* At most one run of a user is in its section.
  <1>2. ASSUME NEW w \in Workers, NEW x \in Workers, x # w, user[x] = user[w],
               pc[w] \in Section
        PROVE  pc[x] \notin Section
    BY <1>1, <1>2 DEF IInv, LockOwned, InSection
  \* The steps that move no zone and no record, and open or close no window.
  <1>3. ASSUME overrun' = {}, UNCHANGED <<historyZone, eventZone>>,
               \A u \in Users : metrics'[u].zone = metrics[u].zone,
               \A w \in Workers :
                  \/ /\ pc'[w] \notin {"history", "publish"}
                     /\ pc[w] \notin {"history", "publish"}
                  \/ UNCHANGED <<pc[w], user[w], finalZone[w]>>
        PROVE  Calm'
    <2>1. ASSUME NEW w \in Workers PROVE Announced(w)'
      BY <1>0, <1>1, <1>3 DEF Announced, Steps
    <2>2. \A w \in Workers, u \in Users : Announcing(w, u)' <=> Announcing(w, u)
      BY <1>3 DEF Announcing
    <2>3. ASSUME NEW u \in Users, \A w \in Workers : ~Announcing(w, u)'
          PROVE  LastAnnounced(u)'
      BY <1>1, <1>3, <2>2, <2>3 DEF LastAnnounced
    <2> QED  BY <1>3, <2>1, <2>3
  <1>4. ASSUME NEW w \in Workers, NEW v \in Proposable, WriteMetrics(w, v) PROVE Calm'
    <2> DEFINE u == user[w]
               row == NextRow(snapshot[w], v)
    <2>1. u \in Users /\ pc[w] = "write" /\ row \in Row /\ snapshot[w] \in Row
      BY <1>0, <1>4, NextRowType DEF WriteMetrics, IInv, TypeOK
    <2> HIDE DEF row
    <2>2. UNCHANGED <<user, historyZone, eventZone, overrun>>
      BY <1>4 DEF WriteMetrics, zoneLog
    <2>3. CASE metrics[u].revision # snapshot[w].revision
      <3>1. pc' = [pc EXCEPT ![w] = "requeueStale"] /\ UNCHANGED <<metrics, finalZone>>
        BY <1>4, <2>3 DEF WriteMetrics
      <3> QED  BY <1>0, <1>1, <1>3, <2>1, <2>2, <3>1
    <2>4. CASE metrics[u].revision = snapshot[w].revision
      <3>1. /\ metrics' = [metrics EXCEPT ![u] = row]
            /\ finalZone' = [finalZone EXCEPT ![w] = row.zone]
            /\ pc' = [pc EXCEPT ![w] = IF row.zone # snapshot[w].zone THEN "history" ELSE "release"]
        BY <1>4, <2>4 DEF WriteMetrics, row
      <3>2. snapshot[w] = metrics[u]
        BY <1>0, <2>1, <2>4 DEF IInv, SnapshotFresh, Fresh
      <3>3. ASSUME NEW x \in Workers, x # w, user[x] = u
            PROVE  pc[x] \notin {"history", "publish"}
        BY <1>2, <2>1, <3>3 DEF Section
      <3>4. ASSUME NEW x \in Workers PROVE Announced(x)'
        <4>1. CASE x = w
          BY <1>0, <2>1, <2>2, <3>1, <4>1 DEF Announced
        <4>2. CASE x # w /\ user[x] = u
          BY <1>0, <2>2, <3>1, <3>3, <4>2 DEF Announced
        <4>3. CASE x # w /\ user[x] # u
          BY <1>0, <1>1, <2>1, <2>2, <3>1, <4>3 DEF Announced, Steps
        <4> QED  BY <4>1, <4>2, <4>3
      <3>5. ASSUME NEW t \in Users, \A x \in Workers : ~Announcing(x, t)'
            PROVE  LastAnnounced(t)'
        <4>1. CASE t = u
          <5>1. pc'[w] # "history"
            BY <2>2, <3>5, <4>1 DEF Announcing
          <5>2. row.zone = metrics[u].zone
            BY <1>0, <3>1, <3>2, <5>1
          <5>3. \A x \in Workers : ~Announcing(x, u)
            BY <2>1, <3>3 DEF Announcing
          <5> QED  BY <1>0, <1>1, <2>1, <2>2, <3>1, <4>1, <5>2, <5>3 DEF LastAnnounced
        <4>2. CASE t # u
          <5>1. \A x \in Workers : ~Announcing(x, t)
            BY <1>0, <2>2, <3>1, <3>5, <4>2 DEF Announcing
          <5> QED  BY <1>0, <1>1, <2>2, <3>1, <4>2, <5>1 DEF LastAnnounced
        <4> QED  BY <4>1, <4>2
      <3> QED  BY <1>1, <2>2, <3>4, <3>5
    <2> QED  BY <2>3, <2>4
  <1>5. ASSUME NEW w \in Workers, CreateZoneHistory(w) PROVE Calm'
    <2> DEFINE u == user[w]
    <2>1. /\ pc[w] = "history" /\ u \in Users
          /\ historyZone' = [historyZone EXCEPT ![u] = finalZone[w]]
          /\ pc' = [pc EXCEPT ![w] = "publish"]
          /\ UNCHANGED <<metrics, user, finalZone, eventZone, overrun>>
      BY <1>0, <1>5 DEF CreateZoneHistory, workerVars
    <2>2. finalZone[w] = metrics[u].zone
      BY <1>1, <2>1 DEF Announced
    <2>3. ASSUME NEW x \in Workers PROVE Announced(x)'
      BY <1>0, <1>1, <1>2, <2>1, <2>2 DEF Announced, Section, Steps
    <2>4. ASSUME NEW t \in Users, \A x \in Workers : ~Announcing(x, t)'
          PROVE  LastAnnounced(t)'
      <3>1. t # u
        BY <1>0, <2>1, <2>4 DEF Announcing
      <3>2. \A x \in Workers : ~Announcing(x, t)
        BY <1>0, <2>1, <2>4 DEF Announcing
      <3> QED  BY <1>0, <1>1, <2>1, <3>1, <3>2 DEF LastAnnounced
    <2> QED  BY <1>1, <2>1, <2>3, <2>4
  <1>6. ASSUME NEW w \in Workers, PublishZoneChanged(w) PROVE Calm'
    <2> DEFINE u == user[w]
    <2>1. /\ pc[w] = "publish" /\ u \in Users
          /\ eventZone' = [eventZone EXCEPT ![u] = finalZone[w]]
          /\ pc' = [pc EXCEPT ![w] = "release"]
          /\ UNCHANGED <<metrics, user, finalZone, historyZone, overrun>>
      BY <1>0, <1>6 DEF PublishZoneChanged, workerVars
    <2>2. finalZone[w] = metrics[u].zone /\ historyZone[u] = metrics[u].zone
      BY <1>1, <2>1 DEF Announced
    <2>3. ASSUME NEW x \in Workers PROVE Announced(x)'
      BY <1>0, <1>1, <2>1 DEF Announced, Steps
    <2>4. ASSUME NEW t \in Users, \A x \in Workers : ~Announcing(x, t)'
          PROVE  LastAnnounced(t)'
      <3>1. CASE t = u
        BY <1>0, <2>1, <2>2, <3>1 DEF LastAnnounced
      <3>2. CASE t # u
        <4>1. \A x \in Workers : ~Announcing(x, t)
          BY <1>0, <2>1, <2>4, <3>2 DEF Announcing
        <4> QED  BY <1>0, <1>1, <2>1, <3>2, <4>1 DEF LastAnnounced
      <3> QED  BY <3>1, <3>2
    <2> QED  BY <1>1, <2>1, <2>3, <2>4
  <1>7. ASSUME NEW u \in Users, EnsureMetrics(u) PROVE Calm'
    <2>1. metrics' = [metrics EXCEPT ![u] = [metrics[u] EXCEPT !.exists = TRUE]]
      BY <1>7 DEF EnsureMetrics
    <2>2. \A t \in Users : metrics'[t].zone = metrics[t].zone
      BY <1>0, <2>1 DEF Row
    <2> QED  BY <1>1, <1>3, <1>7, <2>2 DEF EnsureMetrics, workerVars, zoneLog
  <1>8. ASSUME NEW u \in Users, LockExpires(u) PROVE Calm'
    <2>1. lock[u] = Orphan
      BY <1>8 DEF LockExpires
    <2> QED  BY <1>1, <1>3, <1>8, <2>1 DEF LockExpires, workerVars, zoneLog
  <1>9. ASSUME NEW w \in Workers, Throw(w) \/ Crash(w) \/ ReleaseFails(w) PROVE Calm'
    BY <1>9 DEF Throw, Crash, ReleaseFails
  <1>10. ASSUME NEW u \in Users, DelayElapses(u) \/ Stalled(u) \/ Trigger(u) PROVE Calm'
    BY <1>1, <1>3, <1>10 DEF DelayElapses, Stalled, Trigger, workerVars, zoneLog
  <1>11. ASSUME NEW w \in Workers, NEW u \in Users, TakeJob(w, u) PROVE Calm'
    BY <1>0, <1>1, <1>3, <1>11 DEF TakeJob, zoneLog
  <1>12. ASSUME NEW w \in Workers, AcquireLock(w) \/ Reenqueue(w) \/ ReleaseLock(w) PROVE Calm'
    <2>1. /\ pc[w] \notin {"history", "publish"} /\ pc'[w] \notin {"history", "publish"}
          /\ \A x \in Workers \ {w} : pc'[x] = pc[x]
      BY <1>0, <1>12 DEF AcquireLock, Reenqueue, ReleaseLock
    <2>2. UNCHANGED <<metrics, workerVars, zoneLog, hist>>
      BY <1>12 DEF AcquireLock, Reenqueue, ReleaseLock
    <2> QED  BY <1>1, <1>3, <2>1, <2>2 DEF workerVars, zoneLog
  <1>13. ASSUME NEW w \in Workers, ReadMetrics(w) PROVE Calm'
    <2>1. /\ pc[w] \notin {"history", "publish"} /\ pc'[w] \notin {"history", "publish"}
          /\ \A x \in Workers \ {w} : pc'[x] = pc[x]
      BY <1>0, <1>13 DEF ReadMetrics
    <2>2. UNCHANGED <<metrics, user, finalZone, zoneLog, hist>>
      BY <1>13 DEF ReadMetrics
    <2> QED  BY <1>1, <1>3, <2>1, <2>2 DEF zoneLog
  <1>14. ASSUME NEW w \in Workers, Acknowledge(w) PROVE Calm'
    <2>1. /\ pc[w] \notin {"history", "publish"} /\ pc'[w] \notin {"history", "publish"}
          /\ \A x \in Workers \ {w} : UNCHANGED <<pc[x], user[x], finalZone[x]>>
      BY <1>0, <1>14 DEF Acknowledge, Return
    <2>2. UNCHANGED <<metrics, zoneLog>> /\ overrun' = overrun \ {w}
      BY <1>14 DEF Acknowledge
    <2> QED  BY <1>1, <1>3, <2>1, <2>2 DEF zoneLog
  <1>15. CASE UNCHANGED vars
    BY <1>1, <1>3, <1>15 DEF vars, workerVars, zoneLog
  <1> QED
    BY <1>4, <1>5, <1>6, <1>7, <1>8, <1>9, <1>10, <1>11, <1>12, <1>13, <1>14, <1>15
    DEF Next, Process, Quiescent

(* While calls succeed, processes live and keys last, a user's last event  *)
(* and last history record carry the zone of the row whenever no run is    *)
(* between its commit and its event, however often a stalled job is taken. *)
THEOREM LastZoneAnnounced == Spec => []ZoneAnnounced
  <1>1. AnnounceInv => ZoneAnnounced
    BY DEF AnnounceInv, ZoneAnnounced
  <1> QED  BY InitAnnounce, AnnounceKept, Invariant, <1>1, PTL DEF Spec

----------------------------------------------------------------------------
\* The pipeline keeps the promise of SoftTransition.

LEMMA RowMaps ==
  ASSUME NEW row \in Row, NEW v \in Zones, RowShape(row)
  PROVE  LET next == NextRow(row, v) IN
         \/ v = row.zone /\ next.zone = row.zone /\ next.pendingZone = NoZone
         \/ v # row.zone /\ v # row.pendingZone /\ next.zone = row.zone /\ next.pendingZone = v
         \/ v # row.zone /\ v = row.pendingZone /\ next.zone = v /\ next.pendingZone = NoZone
  BY DEF RowShape, NextRow, Row, applySoftTransition, SOFT_TRANSITION_RUNS

(* Each user's zone moves as if its recalculations ran one after the       *)
(* other, and only on a second consecutive agreeing verdict: the optimistic *)
(* write makes every commit a step of SoftTransition, and nothing else     *)
(* touches zone or candidate.                                              *)
THEOREM Implements == Spec => SoftTransitionSpec
  <1>1. Init => Promise!Init
    <2> SUFFICES ASSUME Init PROVE Promise!Init
      OBVIOUS
    <2>1. metrics \in [Users -> Row]
      BY InitType DEF TypeOK
    <2> QED  BY <2>1 DEF Promise!Init, Row
  <1>2. IInv /\ [Next]_vars => [Promise!Next]_<<[u \in Users |-> metrics[u].zone],
                                                [u \in Users |-> metrics[u].pendingZone]>>
    <2> SUFFICES ASSUME IInv, [Next]_vars
                 PROVE  [Promise!Next]_<<[u \in Users |-> metrics[u].zone],
                                         [u \in Users |-> metrics[u].pendingZone]>>
      OBVIOUS
    <2> DEFINE zone == [u \in Users |-> metrics[u].zone]
               candidate == [u \in Users |-> metrics[u].pendingZone]
    <2>0. metrics \in [Users -> Row]
      BY DEF IInv, TypeOK
    <2>1. ASSUME NEW w \in Workers, NEW v \in Proposable, WriteMetrics(w, v), metrics' # metrics
          PROVE  Promise!Next
      <3> DEFINE u == user[w]
                 next == NextRow(metrics[u], v)
      <3>1. u \in Users /\ v \in Zones /\ metrics[u] \in Row /\ RowShape(metrics[u])
        BY <2>0, <2>1, BusyWorker DEF WriteMetrics, IInv, RowsShaped
      <3>2. snapshot[w] = metrics[u] /\ metrics' = [metrics EXCEPT ![u] = next]
        BY <2>1 DEF WriteMetrics, IInv, SnapshotFresh, Fresh
      <3>3. \/ v = zone[u] /\ next.zone = zone[u] /\ next.pendingZone = NoZone
            \/ v # zone[u] /\ v # candidate[u] /\ next.zone = zone[u] /\ next.pendingZone = v
            \/ v # zone[u] /\ v = candidate[u] /\ next.zone = v /\ next.pendingZone = NoZone
        BY <3>1, RowMaps
      <3> HIDE DEF next
      <3>4. /\ zone' = [zone EXCEPT ![u] = next.zone]
            /\ candidate' = [candidate EXCEPT ![u] = next.pendingZone]
        BY <2>0, <3>1, <3>2
      <3>5. next.zone = zone[u] => zone' = zone
        BY <3>1, <3>4
      <3>6. CASE v = zone[u] /\ next.zone = zone[u] /\ next.pendingZone = NoZone
        BY <3>1, <3>4, <3>5, <3>6 DEF Promise!Confirm, Promise!Next
      <3>7. CASE v # zone[u] /\ v # candidate[u] /\ next.zone = zone[u] /\ next.pendingZone = v
        BY <3>1, <3>4, <3>5, <3>7 DEF Promise!Propose, Promise!Next
      <3>8. CASE v # zone[u] /\ v = candidate[u] /\ next.zone = v /\ next.pendingZone = NoZone
        BY <3>1, <3>4, <3>8 DEF Promise!Commit, Promise!Next
      <3> QED  BY <3>3, <3>6, <3>7, <3>8
    <2>2. ASSUME NEW u \in Users, EnsureMetrics(u) PROVE zone' = zone /\ candidate' = candidate
      <3>1. metrics' = [metrics EXCEPT ![u] = [metrics[u] EXCEPT !.exists = TRUE]]
        BY <2>2 DEF EnsureMetrics
      <3>2. \A v \in Users : /\ metrics'[v].zone = metrics[v].zone
                              /\ metrics'[v].pendingZone = metrics[v].pendingZone
        BY <2>0, <3>1 DEF Row
      <3> QED  BY <3>2
    <2>3. ASSUME metrics' = metrics PROVE zone' = zone /\ candidate' = candidate
      BY <2>3
    <2> HIDE DEF zone, candidate
    <2>4. Promise!Next \/ (zone' = zone /\ candidate' = candidate)
      BY <2>1, <2>2, <2>3 DEF Next, Process, Quiescent, vars, DelayElapses, Stalled, LockExpires,
         Trigger, TakeJob, AcquireLock, Reenqueue, ReleaseLock, ReleaseFails, ReadMetrics,
         CreateZoneHistory, PublishZoneChanged, Throw, Acknowledge, Crash
    <2> QED  BY <2>4 DEF zone, candidate
  <1> QED  BY Invariant, <1>1, <1>2, PTL DEF Spec, SoftTransitionSpec, Promise!Spec
=============================================================================
