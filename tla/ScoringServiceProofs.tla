------------------------ MODULE ScoringServiceProofs ------------------------
(***************************************************************************)
(* Theorems about DriftRepair, for any number of users, pages and events,  *)
(* and about Scoring with its formulas, for any messages, lengths, decay   *)
(* tables and number of recalculations.  The two modules share no state.   *)
(***************************************************************************)
EXTENDS DriftRepair, Scoring, SequenceTheorems, FiniteSetTheorems,
        WellFoundedInduction, TLAPS

----------------------------------------------------------------------------
\* DriftRepair

\* A group that runs or has committed has begun somewhere.
GroupOK ==
    /\ topic \in Seq(Users)
    /\ position \in Nat \cup {NoOffset} /\ committed \in Nat \cup {NoOffset}
    /\ first \in Nat \cup {NoOffset}
    /\ position # NoOffset => first # NoOffset
    /\ committed # NoOffset => first # NoOffset

BusInv == GroupOK /\ NoEventSkipped

LEMMA BusInitInv == RepairInit => BusInv
  <1> SUFFICES ASSUME RepairInit PROVE BusInv
    OBVIOUS
  <1>1. topic \in Seq(Users)
    <2>1. CASE topic = <<>>
      BY <2>1, EmptySeq
    <2>2. CASE topic # <<>>
      <3>1. 1 \in Users /\ topic = <<1>>
        BY <2>2, RepairAssumption DEF RepairInit, Users
      <3>2. <<1>> \in [1 .. 1 -> Users]
        BY <3>1
      <3> QED  BY <3>1, <3>2
    <2> QED  BY <2>1, <2>2
  <1> QED  BY <1>1 DEF RepairInit, BusInv, GroupOK, NoEventSkipped

LEMMA SendInv ==
  ASSUME BusInv, NEW u \in Users, PublishSent(u)
  PROVE  BusInv'
  <1>1. topic' \in Seq(Users)
    BY AppendProperties DEF BusInv, GroupOK, PublishSent
  <1> QED  BY <1>1 DEF BusInv, GroupOK, NoEventSkipped, PublishSent

\* A new group begins where it stands; another one resumes at its offset.
LEMMA SubscribeInv ==
  ASSUME BusInv, Subscribe
  PROVE  BusInv'
  <1> USE DEF BusInv, Subscribe
  <1>1. Len(topic) \in Nat
    BY LenProperties DEF GroupOK
  <1>2. CASE committed = NoOffset
    <2>1. position' = Len(topic) /\ first' = Len(topic)
      BY <1>2
    <2>2. (first' + 1) .. position' = {}
      BY <1>1, <2>1
    <2> QED  BY <1>1, <1>2, <2>1, <2>2 DEF GroupOK, NoEventSkipped
  <1>3. CASE committed # NoOffset
    BY <1>3 DEF GroupOK, NoEventSkipped
  <1> QED  BY <1>2, <1>3

LEMMA EachMessageInv ==
  ASSUME BusInv, EachMessage
  PROVE  BusInv'
  <1> USE DEF BusInv, EachMessage
  <1>1. position \in Nat /\ first \in Nat
    BY DEF GroupOK
  <1>2. GroupOK'
    BY <1>1, RepairAssumption DEF GroupOK
  <1>3. (first + 1) .. (position + 1) \subseteq passed \cup {position + 1}
    BY <1>1 DEF NoEventSkipped
  <1> QED  BY <1>2, <1>3 DEF NoEventSkipped

LEMMA CommitInv ==
  ASSUME BusInv, Commit
  PROVE  BusInv'
  BY DEF BusInv, Commit, GroupOK, NoEventSkipped

LEMMA StopInv ==
  ASSUME BusInv, Stop
  PROVE  BusInv'
  BY DEF BusInv, Stop, GroupOK, NoEventSkipped

\* The scan, the jobs and the clock leave the bus alone.
LEMMA ElsewhereInv ==
  ASSUME BusInv, UNCHANGED bus
  PROVE  BusInv'
  BY DEF BusInv, bus, GroupOK, NoEventSkipped

LEMMA BusStepInv == BusInv /\ [RepairNext]_repairVars => BusInv'
  <1> SUFFICES ASSUME BusInv, [RepairNext]_repairVars PROVE BusInv'
    OBVIOUS
  <1>1. CASE \E u \in Users : PublishSent(u) \/ Recalculate(u) \/ RecalculationFails(u) \/ Lapse(u)
    BY <1>1, SendInv, ElsewhereInv DEF Recalculate, RecalculationFails, Lapse
  <1>2. CASE Subscribe \/ EachMessage \/ Commit \/ Stop
    BY <1>2, SubscribeInv, EachMessageInv, CommitInv, StopInv
  <1>3. CASE StartScan \/ Scan
    BY <1>3, ElsewhereInv DEF StartScan, Scan, ReadPage, EnqueueYielded, ScanFails, EndScan
  <1>4. CASE UNCHANGED repairVars
    BY <1>4, ElsewhereInv DEF repairVars
  <1> QED  BY <1>1, <1>2, <1>3, <1>4 DEF RepairNext

(* A restart of the consumer repeats events and skips none, wherever it    *)
(* stops between handling an event and committing it, any number of times. *)
THEOREM NoEventIsSkipped == RepairSpec => []NoEventSkipped
  <1>1. BusInv => NoEventSkipped
    BY DEF BusInv
  <1> QED  BY <1>1, BusInitInv, BusStepInv, PTL DEF RepairSpec
----------------------------------------------------------------------------
\* The scan.

\* The steady users the scan has behind it without having yielded them.
Missed == {u \in steady : u <= scan.cursor /\ u \notin scan.yielded \cup scan.page}

ScanOK ==
    /\ scan \in [at : {"idle", "read", "yield", "done"}, cursor : Users \cup {0},
                 page : SUBSET Users, last : BOOLEAN, yielded : SUBSET Users]
    /\ jobs \subseteq Users /\ fresh \subseteq Users /\ dirty \subseteq Users
    /\ steady \subseteq fresh /\ gaps \in Nat

(* A user is behind the scan's cursor and missed only through a gap; when  *)
(* a page was short, no steady user is ahead of it.                        *)
ScanInv ==
    /\ ScanOK
    /\ scan.at \in {"read", "yield"} => Cardinality(Missed) <= gaps
    /\ scan.at = "read" => scan.page = {}
    /\ scan.at = "yield" /\ scan.last => \A u \in steady : u <= scan.cursor
    /\ ScanComplete

LEMMA UsersNumbered == \A u \in Users : u \in Nat
  BY RepairAssumption DEF Users

LEMMA UsersFinite ==
  ASSUME NEW S \in SUBSET Users
  PROVE  IsFiniteSet(S) /\ Cardinality(S) \in Nat
  <1>1. IsFiniteSet(Users)
    BY RepairAssumption, FS_Interval DEF Users
  <1> QED  BY <1>1, FS_Subset, FS_CardinalityType

LEMMA FewerUsers ==
  ASSUME NEW S \in SUBSET Users, NEW T \in SUBSET S
  PROVE  Cardinality(T) <= Cardinality(S)
  BY UsersFinite, FS_Subset

LEMMA OneMoreUser ==
  ASSUME NEW S \in SUBSET Users, NEW T \in SUBSET Users, NEW u \in Users, T \subseteq S \cup {u}
  PROVE  Cardinality(T) <= Cardinality(S) + 1
  <1>1. /\ Cardinality(S) \in Nat /\ IsFiniteSet(S)
        /\ S \cup {u} \in SUBSET Users
    BY UsersFinite
  <1>2. Cardinality(S \cup {u}) <= Cardinality(S) + 1
    BY <1>1, FS_AddElement
  <1>3. Cardinality(T) <= Cardinality(S \cup {u})
    BY <1>1, FewerUsers
  <1>4. Cardinality(T) \in Nat /\ Cardinality(S \cup {u}) \in Nat
    BY <1>1, UsersFinite
  <1> QED  BY <1>1, <1>2, <1>3, <1>4

\* A set of numbers has a least one.
LEMMA LeastOf ==
  ASSUME NEW T \in SUBSET Nat, T # {}
  PROVE  \E x \in T : \A y \in T : x <= y
  <1> DEFINE less == {ss \in Nat \X Nat : ss[1] < ss[2]}
  <1>1. IsWellFoundedOn(less, Nat)
    BY NatLessThanWellFounded DEF OpToRel
  <1>2. PICK x \in T : \A y \in T : ~ (<<y, x>> \in less)
    <2> HIDE DEF less
    <2> QED  BY <1>1, WFMin
  <1>3. ASSUME NEW y \in T PROVE x <= y
    <2>1. <<y, x>> \notin less
      BY <1>2
    <2> QED  BY <2>1
  <1> QED  BY <1>3

----------------------------------------------------------------------------
\* A page of the scan, read from `cursor`.

LEMMA PageType ==
  ASSUME ScanOK, NEW cursor \in Users \cup {0}
  PROVE  /\ Rest(cursor) \subseteq fresh /\ Page(cursor) \subseteq Rest(cursor)
         /\ \A u \in Rest(cursor) : u >= cursor
  BY DEF ScanOK, Rest, Page

\* A page leaves out no row before its last one.
LEMMA PageDense ==
  ASSUME ScanOK, NEW cursor \in Users \cup {0}, NEW final \in Page(cursor),
         NEW u \in Rest(cursor), u <= final
  PROVE  u \in Page(cursor)
  <1> DEFINE below(x) == {v \in Rest(cursor) : v < x}
  <1>1. Rest(cursor) \subseteq Users /\ final \in Users /\ u \in Users
    BY PageType DEF ScanOK
  <1>2. below(u) \subseteq below(final)
    BY <1>1 DEF Users
  <1>3. Cardinality(below(final)) < BatchSize
    BY DEF Page
  <1>4. /\ below(u) \in SUBSET Users /\ below(final) \in SUBSET Users
    BY <1>1
  <1>5. /\ Cardinality(below(u)) <= Cardinality(below(final))
        /\ Cardinality(below(u)) \in Nat /\ Cardinality(below(final)) \in Nat
    <2> HIDE DEF below
    <2> QED  BY <1>2, <1>4, FewerUsers, UsersFinite
  <1>6. Cardinality(below(u)) < BatchSize
    <2> HIDE DEF below
    <2> QED  BY <1>3, <1>5, RepairAssumption
  <1> QED  BY <1>6 DEF Page

\* A page shorter than the batch is all that is left.
LEMMA PageShort ==
  ASSUME ScanOK, NEW cursor \in Users \cup {0}, Cardinality(Page(cursor)) < BatchSize
  PROVE  Page(cursor) = Rest(cursor)
  <1> SUFFICES ASSUME Rest(cursor) \ Page(cursor) # {} PROVE FALSE
    BY PageType
  <1> DEFINE left == Rest(cursor) \ Page(cursor)
  <1>1. Rest(cursor) \subseteq Users /\ Page(cursor) \subseteq Users
    BY PageType DEF ScanOK
  <1>2. PICK u \in left : \A v \in left : u <= v
    <2>1. left \in SUBSET Nat /\ left # {}
      BY <1>1 DEF Users
    <2> HIDE DEF left
    <2> QED  BY <2>1, LeastOf
  <1> DEFINE below == {v \in Rest(cursor) : v < u}
  <1>3. below \subseteq Page(cursor)
    BY <1>1, <1>2 DEF Users
  <1>4. Cardinality(below) <= Cardinality(Page(cursor))
    BY <1>1, <1>3, FewerUsers
  <1>5. ~(Cardinality(below) < BatchSize)
    BY <1>2 DEF Page
  <1>6. Cardinality(below) \in Nat /\ Cardinality(Page(cursor)) \in Nat
    BY <1>1, <1>3, UsersFinite
  <1> HIDE DEF below
  <1> QED  BY <1>4, <1>5, <1>6, RepairAssumption

\* From a cursor whose row is still in the filter nothing ahead is left out;
\* otherwise the first row ahead is.
LEMMA RestSkips ==
  ASSUME ScanOK, NEW cursor \in Users \cup {0}
  PROVE  \E u \in Users : \A v \in fresh : v > cursor => (v \in Rest(cursor) \/ v = u)
  <1> DEFINE ahead == {v \in fresh : v > cursor} \ Rest(cursor)
  <1>1. fresh \subseteq Users
    BY DEF ScanOK
  <1>2. ASSUME NEW u \in ahead, NEW v \in ahead PROVE u = v
    BY <1>1 DEF Rest, Users
  <1>3. CASE ahead = {}
    BY <1>3, RepairAssumption DEF Users
  <1>4. CASE ahead # {}
    BY <1>1, <1>2, <1>4
  <1> QED  BY <1>3, <1>4

LEMMA RestKeepsAll ==
  ASSUME ScanOK, NEW cursor \in Users \cup {0}, cursor \in fresh \cup {0},
         NEW v \in fresh, v > cursor
  PROVE  v \in Rest(cursor)
  BY DEF Rest, ScanOK, Users

\* The users a page from the cursor misses: those behind it, and with a gap one more.
LEMMA ReadMisses ==
  ASSUME ScanInv, scan.at = "read", ReadPage,
         NEW S \in SUBSET steady,
         \A u \in S : u \notin scan.yielded /\ u \notin Rest(scan.cursor)
  PROVE  Cardinality(S) <= gaps' /\ gaps' \in Nat
  <1> DEFINE cursor == scan.cursor
  <1>1. /\ ScanOK /\ cursor \in Users \cup {0} /\ scan.page = {} /\ gaps \in Nat
        /\ Cardinality(Missed) <= gaps
    BY DEF ScanInv, ScanOK
  <1>2. /\ fresh \subseteq Users /\ steady \subseteq fresh
        /\ Missed \in SUBSET Users /\ S \in SUBSET Users
    BY <1>1 DEF ScanOK, Missed
  <1>3. Cardinality(Missed) \in Nat /\ Cardinality(S) \in Nat
    BY <1>2, UsersFinite
  <1>4. ASSUME NEW u \in S, u <= cursor PROVE u \in Missed
    BY <1>1, <1>4 DEF Missed
  <1>5. CASE cursor \in fresh \cup {0}
    <2>1. S \subseteq Missed
      <3> SUFFICES ASSUME NEW u \in S PROVE u <= cursor
        BY <1>4
      <3> QED  BY <1>1, <1>2, <1>5, RestKeepsAll DEF Users
    <2>2. Cardinality(S) <= Cardinality(Missed)
      BY <1>2, <2>1, FewerUsers
    <2>3. gaps' = gaps
      BY <1>5 DEF ReadPage
    <2> QED  BY <1>1, <1>3, <2>2, <2>3
  <1>6. CASE cursor \notin fresh \cup {0}
    <2>1. PICK u \in Users : \A v \in fresh : v > cursor => (v \in Rest(cursor) \/ v = u)
      BY <1>1, RestSkips
    <2>2. S \subseteq Missed \cup {u}
      <3> SUFFICES ASSUME NEW v \in S, v # u PROVE v <= cursor
        BY <1>4
      <3> QED  BY <1>1, <1>2, <2>1 DEF Users
    <2>3. Cardinality(S) <= Cardinality(Missed) + 1
      BY <1>2, <2>2, OneMoreUser
    <2>4. gaps' = gaps + 1
      BY <1>6 DEF ReadPage
    <2> QED  BY <1>1, <1>3, <2>3, <2>4
  <1> QED  BY <1>5, <1>6
----------------------------------------------------------------------------
\* The steps of the scan.

LEMMA ReadPageInv ==
  ASSUME ScanInv, ReadPage
  PROVE  ScanInv'
  <1> DEFINE cursor == scan.cursor
             page == Page(cursor)
             rest == Rest(cursor)
  <1>1. /\ ScanOK /\ cursor \in Users \cup {0} /\ scan.page = {} /\ scan.at = "read"
        /\ UNCHANGED <<fresh, steady, jobs, dirty>>
    BY DEF ScanInv, ScanOK, ReadPage, queue
  <1>2. fresh \subseteq Users /\ steady \subseteq fresh /\ scan.yielded \subseteq Users
    BY <1>1 DEF ScanOK
  <1>3. page \subseteq rest /\ rest \subseteq fresh /\ \A u \in rest : u >= cursor
    BY <1>1, PageType
  <1>4. gaps' \in Nat
    BY <1>1, ReadMisses
  <1>5. CASE page = {}
    <2>1. scan' = [scan EXCEPT !.at = "done"]
      BY <1>5 DEF ReadPage, Turn
    <2>2. rest = {}
      <3>1. Cardinality({}) = 0
        BY FS_EmptySet
      <3> QED  BY <1>1, <1>5, <3>1, PageShort, RepairAssumption
    <2>3. Cardinality(steady \ scan.yielded) <= gaps'
      BY <1>1, <2>2, ReadMisses
    <2>4. ScanOK'
      BY <1>1, <1>4, <2>1 DEF ScanOK
    <2> QED  BY <1>1, <2>1, <2>3, <2>4 DEF ScanInv, ScanComplete, ScanOK
  <1>6. ASSUME NEW final \in page, \A v \in page : v <= final,
               scan' = [scan EXCEPT !.at = "yield", !.page = page, !.cursor = final,
                                    !.last = Cardinality(page) < BatchSize]
        PROVE  ScanInv'
    <2> DEFINE S == {u \in steady : u <= final /\ u \notin scan.yielded \cup page}
    <2>1. /\ final \in Users /\ page \in SUBSET Users
          /\ (Cardinality(page) < BatchSize) \in BOOLEAN
      BY <1>2, <1>3
    <2>2. ScanOK'
      <3> HIDE DEF page
      <3> QED  BY <1>1, <1>4, <1>6, <2>1 DEF ScanOK
    <2>3. scan'.at = "yield" /\ scan'.page = page /\ scan'.cursor = final
          /\ scan'.last = (Cardinality(page) < BatchSize) /\ scan'.yielded = scan.yielded
      BY <1>1, <1>6 DEF ScanOK
    <2>4. Missed' = S
      BY <1>1, <2>3 DEF Missed
    <2>5. \A u \in S : u \notin rest
      BY <1>1, PageDense
    <2>6. Cardinality(S) <= gaps'
      <3>1. S \in SUBSET steady /\ \A u \in S : u \notin scan.yielded
        OBVIOUS
      <3> HIDE DEF S
      <3> QED  BY <1>1, <2>5, <3>1, ReadMisses
    <2>7. ASSUME Cardinality(page) < BatchSize, NEW u \in steady PROVE u <= final
      <3>1. rest = page
        BY <1>1, <2>7, PageShort
      <3>2. u \in Users /\ final \in rest /\ final \in fresh
        BY <1>2, <1>3
      <3>3. final < u => u \in rest
        BY <1>1, <1>2, <3>2 DEF Rest, Users
      <3>4. \A v \in page : v <= final
        BY <1>6
      <3>5. u \in Nat /\ final \in Nat
        BY <1>2, <3>2, UsersNumbered
      <3> HIDE DEF page, rest
      <3> QED  BY <3>1, <3>3, <3>4, <3>5
    <2> QED  BY <1>1, <2>2, <2>3, <2>4, <2>6, <2>7 DEF ScanInv, ScanComplete
  <1> QED  BY <1>5, <1>6 DEF ReadPage, Turn

LEMMA EnqueueYieldedInv ==
  ASSUME ScanInv, EnqueueYielded
  PROVE  ScanInv'
  <1> PICK u \in scan.page :
          /\ jobs' \subseteq jobs \cup {u}
          /\ scan' = [scan EXCEPT !.page = scan.page \ {u}, !.yielded = scan.yielded \cup {u},
                                  !.at = IF scan.page # {u} THEN "yield"
                                         ELSE IF scan.last THEN "done" ELSE "read"]
    BY DEF EnqueueYielded, enqueue
  <1>1. /\ ScanOK /\ scan.at = "yield" /\ u \in Users /\ gaps \in Nat
        /\ UNCHANGED <<fresh, steady, gaps, dirty>>
        /\ Cardinality(Missed) <= gaps
    BY DEF ScanInv, ScanOK, EnqueueYielded
  <1>2. /\ scan'.page = scan.page \ {u} /\ scan'.yielded = scan.yielded \cup {u}
        /\ scan'.cursor = scan.cursor /\ scan'.last = scan.last
        /\ scan'.at = IF scan.page # {u} THEN "yield" ELSE IF scan.last THEN "done" ELSE "read"
    BY <1>1 DEF ScanOK
  <1>3. ScanOK'
    BY <1>1, <1>2 DEF ScanOK
  <1>4. Missed' = Missed
    BY <1>1, <1>2 DEF Missed
  <1>5. CASE scan.page # {u}
    BY <1>1, <1>2, <1>3, <1>4, <1>5 DEF ScanInv, ScanComplete
  <1>6. CASE scan.page = {u} /\ ~scan.last
    BY <1>1, <1>2, <1>3, <1>4, <1>6 DEF ScanInv, ScanComplete
  <1>7. CASE scan.page = {u} /\ scan.last
    <2>1. \A v \in steady : v <= scan.cursor
      BY <1>1, <1>7 DEF ScanInv
    <2>2. steady \ scan'.yielded = Missed
      BY <1>2, <1>7, <2>1 DEF Missed
    <2> QED  BY <1>1, <1>2, <1>3, <1>7, <2>2 DEF ScanInv, ScanComplete
  <1> QED  BY <1>5, <1>6, <1>7

\* A scan begins, or ends.
LEMMA NoScanInv ==
  ASSUME ScanInv, steady' \subseteq fresh', gaps' = 0, UNCHANGED <<jobs, fresh, dirty>>,
         scan' = NoScan \/ scan' = [NoScan EXCEPT !.at = "read"]
  PROVE  ScanInv'
  <1>1. /\ scan'.at \in {"idle", "read"} /\ scan'.cursor = 0 /\ scan'.page = {}
        /\ scan'.last = FALSE /\ scan'.yielded = {}
    BY DEF NoScan
  <1>2. ScanOK'
    <2>1. scan' \in [at : {"idle", "read", "yield", "done"}, cursor : Users \cup {0},
                     page : SUBSET Users, last : BOOLEAN, yielded : SUBSET Users]
      <3>1. {} \in SUBSET Users
        OBVIOUS
      <3>2. CASE scan' = NoScan
        BY <3>1, <3>2 DEF NoScan
      <3>3. CASE scan' = [NoScan EXCEPT !.at = "read"]
        BY <3>1, <3>3 DEF NoScan
      <3> QED  BY <3>2, <3>3
    <2> QED  BY <2>1 DEF ScanInv, ScanOK
  <1>3. Missed' = {}
    BY <1>1, <1>2 DEF Missed, ScanOK, Users
  <1>4. Cardinality({}) = 0
    BY FS_EmptySet
  <1> QED  BY <1>1, <1>2, <1>3, <1>4 DEF ScanInv, ScanComplete

\* Rows touched do not matter to the scan; a row that lapses leaves fewer to miss.
LEMMA RowsMoveInv ==
  ASSUME ScanInv, UNCHANGED <<scan, gaps>>, steady' \subseteq steady, steady' \subseteq fresh',
         fresh' \subseteq Users, jobs' \subseteq Users, dirty' \subseteq Users
  PROVE  ScanInv'
  <1>1. steady \subseteq Users /\ gaps \in Nat /\ ScanOK'
    BY DEF ScanInv, ScanOK
  <1>2. Missed' \subseteq Missed /\ Missed \in SUBSET Users
    BY <1>1 DEF Missed
  <1>3. Cardinality(Missed') <= Cardinality(Missed)
        /\ Cardinality(Missed') \in Nat /\ Cardinality(Missed) \in Nat
    BY <1>2, FewerUsers, UsersFinite
  <1>4. scan.at \in {"read", "yield"} => Cardinality(Missed') <= gaps
    <2>1. scan.at \in {"read", "yield"} => Cardinality(Missed) <= gaps
      BY DEF ScanInv
    <2> QED  BY <1>1, <1>3, <2>1
  <1> DEFINE left == steady \ scan.yielded
             left2 == steady' \ scan.yielded
  <1>5. left \in SUBSET Users /\ left2 \in SUBSET left
    BY <1>1
  <1>6. Cardinality(left2) <= Cardinality(left)
        /\ Cardinality(left2) \in Nat /\ Cardinality(left) \in Nat
    <2>1. left2 \in SUBSET Users
      BY <1>5
    <2> HIDE DEF left, left2
    <2> QED  BY <1>5, <2>1, FewerUsers, UsersFinite
  <1>7. scan.at = "done" => Cardinality(left2) <= gaps
    <2>1. scan.at = "done" => Cardinality(left) <= gaps
      BY DEF ScanInv, ScanComplete
    <2> HIDE DEF left, left2
    <2> QED  BY <1>1, <1>6, <2>1
  <1> QED  BY <1>1, <1>4, <1>7 DEF ScanInv, ScanComplete

LEMMA ScanInitInv == RepairInit => ScanInv
  <1> SUFFICES ASSUME RepairInit PROVE ScanInv
    OBVIOUS
  <1>1. scan.at = "idle" /\ ScanOK
    BY DEF RepairInit, NoScan, ScanOK
  <1> QED  BY <1>1 DEF ScanInv, ScanComplete

LEMMA ScanStepInv == BusInv /\ ScanInv /\ [RepairNext]_repairVars => ScanInv'
  <1> SUFFICES ASSUME BusInv, ScanInv, [RepairNext]_repairVars PROVE ScanInv'
    OBVIOUS
  <1>0. jobs \subseteq Users /\ fresh \subseteq Users /\ dirty \subseteq Users /\ steady \subseteq fresh
    BY DEF ScanInv, ScanOK
  <1>1. ASSUME NEW u \in Users,
               PublishSent(u) \/ Recalculate(u) \/ RecalculationFails(u) \/ Lapse(u)
        PROVE  ScanInv'
    BY <1>0, <1>1, RowsMoveInv DEF PublishSent, Recalculate, RecalculationFails, Lapse, Touch,
       Finish, queue, scanVars
  <1>2. ASSUME Subscribe \/ Commit PROVE ScanInv'
    BY <1>0, <1>2, RowsMoveInv DEF Subscribe, Commit, queue, scanVars
  <1>3. ASSUME EachMessage PROVE ScanInv'
    <2>1. topic[position + 1] \in Users
      BY <1>3, ElementOfSeq DEF EachMessage, BusInv, GroupOK
    <2> QED  BY <1>0, <1>3, <2>1, RowsMoveInv DEF EachMessage, Touch, enqueue, queue, scanVars
  <1>4. ASSUME Stop \/ StartScan \/ ScanFails \/ EndScan PROVE ScanInv'
    BY <1>0, <1>4, NoScanInv DEF Stop, StartScan, ScanFails, EndScan, queue
  <1>5. ASSUME UNCHANGED repairVars PROVE ScanInv'
    BY <1>0, <1>5, RowsMoveInv DEF repairVars, queue, scanVars
  <1> QED  BY <1>1, <1>2, <1>3, <1>4, <1>5, ReadPageInv, EnqueueYieldedInv DEF RepairNext, Scan

(* A scan that ran to its end yielded every user who stayed in its filter, *)
(* less at most one for each page read from a cursor row that had left it, *)
(* for any number of users, any batch size, and rows touched or lapsing    *)
(* between any two steps of it.                                            *)
THEOREM ScanMissesOnlyGaps == RepairSpec => []ScanComplete
  <1>1. ScanInv => ScanComplete
    BY DEF ScanInv
  <1> QED
    BY <1>1, BusInitInv, BusStepInv, ScanInitInv, ScanStepInv, PTL DEF RepairSpec

\* Finished jobs are jobs of users, and no more than BullMQ retains.
KeptOK == /\ kept \in [{"completed", "failed"} -> Seq(Users)]
          /\ \A outcome \in DOMAIN kept : Len(kept[outcome]) <= Keep

LEMMA KeptFinish ==
  ASSUME KeptOK, NEW u \in Users, NEW outcome \in {"completed", "failed"}, Finish(u, outcome)
  PROVE  KeptOK'
  <1> DEFINE all == Append(kept[outcome], u)
             rest == IF Len(all) > Keep THEN Tail(all) ELSE all
  <1>1. kept[outcome] \in Seq(Users) /\ Len(kept[outcome]) <= Keep
    BY DEF KeptOK
  <1>2. all \in Seq(Users) /\ Len(all) = Len(kept[outcome]) + 1 /\ Len(kept[outcome]) \in Nat
    BY <1>1
  <1>3. rest \in Seq(Users) /\ Len(rest) <= Keep
    <2> HIDE DEF all
    <2>1. CASE Len(all) > Keep
      <3>1. all # <<>>
        BY <1>2
      <3> QED  BY <1>1, <1>2, <2>1, <3>1, RepairAssumption
    <2>2. CASE ~(Len(all) > Keep)
      BY <1>2, <2>2, RepairAssumption
    <2> QED  BY <2>1, <2>2
  <1>4. kept' = [kept EXCEPT ![outcome] = rest]
    BY DEF Finish
  <1> HIDE DEF rest
  <1> QED  BY <1>3, <1>4 DEF KeptOK

LEMMA KeptStep == KeptOK /\ [RepairNext]_repairVars => KeptOK'
  <1> SUFFICES ASSUME KeptOK, [RepairNext]_repairVars PROVE KeptOK'
    OBVIOUS
  <1>1. ASSUME NEW u \in Users, Recalculate(u) PROVE KeptOK'
    BY <1>1, KeptFinish DEF Recalculate
  <1>2. ASSUME NEW u \in Users, RecalculationFails(u) PROVE KeptOK'
    BY <1>2, KeptFinish DEF RecalculationFails
  <1>3. CASE UNCHANGED kept
    BY <1>3 DEF KeptOK
  <1> QED
    BY <1>1, <1>2, <1>3 DEF RepairNext, repairVars, queue, enqueue, PublishSent, Lapse, Subscribe,
       EachMessage, Commit, Stop, StartScan, Scan, ReadPage, EnqueueYielded, ScanFails, EndScan

(* Types, and where a scan may be.                                         *)
THEOREM RepairTypeCorrect == RepairSpec => []RepairTypeOK
  <1> DEFINE Rest2 == passed \subseteq DOMAIN topic /\ faults \in 0 .. MaxFaults
  <1>1. RepairInit => Rest2
    BY RepairAssumption DEF RepairInit
  <1>2. BusInv /\ Rest2 /\ [RepairNext]_repairVars => Rest2'
    <2> SUFFICES ASSUME BusInv, Rest2, [RepairNext]_repairVars PROVE Rest2'
      OBVIOUS
    <2>0. topic \in Seq(Users) /\ (position = NoOffset \/ position \in Nat)
      BY DEF BusInv, GroupOK
    <2>1. faults' \in 0 .. MaxFaults
      <3>1. faults' = faults \/ Fault
        BY DEF RepairNext, repairVars, PublishSent, Recalculate, RecalculationFails,
         Lapse, Subscribe, EachMessage, Commit, Stop, StartScan, Scan, ReadPage, EnqueueYielded,
         ScanFails, EndScan
      <3> QED  BY <3>1, RepairAssumption DEF Fault
    <2>2. ASSUME EachMessage PROVE passed' \subseteq DOMAIN topic'
      BY <2>0, <2>2, LenProperties DEF EachMessage
    <2>3. ASSUME NEW u \in Users, PublishSent(u) PROVE passed' \subseteq DOMAIN topic'
      <3>1. DOMAIN topic \subseteq DOMAIN topic'
        BY <2>0, <2>3, AppendProperties, LenProperties DEF PublishSent
      <3> QED  BY <2>3, <3>1 DEF PublishSent
    <2>4. ASSUME UNCHANGED <<passed, topic>> PROVE passed' \subseteq DOMAIN topic'
      BY <2>4
    <2> QED
      BY <2>1, <2>2, <2>3, <2>4 DEF RepairNext, repairVars, bus, Recalculate, RecalculationFails,
         Lapse, Subscribe, Commit, Stop, StartScan, Scan, ReadPage, EnqueueYielded, ScanFails, EndScan
  <1>3. BusInv /\ ScanInv /\ Rest2 /\ KeptOK => RepairTypeOK
    BY DEF BusInv, GroupOK, ScanInv, ScanOK, KeptOK, RepairTypeOK
  <1>4. RepairInit => KeptOK
    BY RepairAssumption, EmptySeq DEF RepairInit, KeptOK
  <1> QED
    BY <1>1, <1>2, <1>3, <1>4, KeptStep, BusInitInv, BusStepInv, ScanInitInv, ScanStepInv, PTL DEF RepairSpec

----------------------------------------------------------------------------
\* Scoring

----------------------------------------------------------------------------
\* Sums and means.

LEMMA Points ==
  ASSUME NEW D, IsFiniteSet(D), NEW f \in [D -> Nat]
  PROVE  Sum(f) \in Nat
  <1> DEFINE column == [i \in D |-> {i} \X (1 .. f[i])]
             columns == {{i} \X (1 .. f[i]) : i \in DOMAIN f}
  <1>1. column \in Surjection(D, columns)
    BY DEF Surjection
  <1>2. IsFiniteSet(columns)
    <2> HIDE DEF column, columns
    <2> QED  BY <1>1, FS_Surjection
  <1>3. ASSUME NEW T \in columns PROVE IsFiniteSet(T)
    <2>1. PICK i \in D : T = {i} \X (1 .. f[i])
      BY <1>3
    <2>2. IsFiniteSet({i}) /\ IsFiniteSet(1 .. f[i])
      <3>1. 1 \in Int /\ f[i] \in Int
        OBVIOUS
      <3> QED  BY <3>1, FS_Singleton, FS_Interval
    <2> QED  BY <2>1, <2>2, FS_Product
  <1>4. IsFiniteSet(UNION columns)
    <2> HIDE DEF columns
    <2> QED  BY <1>2, <1>3, FS_UNION
  <1> QED  BY <1>4, FS_CardinalityType DEF Sum

LEMMA SumBound ==
  ASSUME NEW D, IsFiniteSet(D), NEW k \in Nat, NEW f \in [D -> 0 .. k]
  PROVE  Sum(f) \in Nat /\ Sum(f) <= Cardinality(D) * k
  <1> DEFINE points == UNION {{i} \X (1 .. f[i]) : i \in DOMAIN f}
             box == D \X (1 .. k)
  <1>1. f \in [D -> Nat]
    OBVIOUS
  <1>2. points \subseteq box
    <2>1. ASSUME NEW i \in D PROVE {i} \X (1 .. f[i]) \subseteq box
      <3>1. f[i] \in 0 .. k
        OBVIOUS
      <3> QED  BY <3>1
    <2> QED  BY <2>1
  <1>3. IsFiniteSet(box) /\ Cardinality(box) = Cardinality(D) * k
    <2>1. IsFiniteSet(1 .. k) /\ Cardinality(1 .. k) = k
      BY FS_Interval
    <2> QED  BY <2>1, FS_Product
  <1>4. Cardinality(points) <= Cardinality(box)
    <2> HIDE DEF points, box
    <2> QED  BY <1>2, <1>3, FS_Subset
  <1>5. Sum(f) = Cardinality(points)
    BY DEF Sum
  <1> HIDE DEF points, box
  <1> QED  BY <1>1, <1>3, <1>4, <1>5, Points

LEMMA Quotient ==
  ASSUME NEW a \in Nat, NEW b \in Nat \ {0}, NEW k \in Nat, a <= b * k
  PROVE  a \div b \in 0 .. k
  OBVIOUS

LEMMA QuotientNat ==
  ASSUME NEW a \in Nat, NEW b \in Nat \ {0}
  PROVE  a \div b \in Nat
  OBVIOUS

LEMMA NonEmpty ==
  ASSUME NEW D, IsFiniteSet(D), D # {}
  PROVE  Cardinality(D) \in Nat \ {0}
  BY FS_EmptySet, FS_CardinalityType

LEMMA MeanBound ==
  ASSUME NEW D, IsFiniteSet(D), D # {}, NEW k \in Nat, NEW f \in [D -> 0 .. k]
  PROVE  Mean(f) \in 0 .. k
  <1>1. Sum(f) \in Nat /\ Sum(f) <= Cardinality(D) * k /\ Cardinality(D) \in Nat \ {0}
    BY SumBound, NonEmpty
  <1>2. DOMAIN f = D
    OBVIOUS
  <1> QED  BY <1>1, <1>2, Quotient DEF Mean

LEMMA MeanNat ==
  ASSUME NEW D, IsFiniteSet(D), D # {}, NEW f \in [D -> Nat]
  PROVE  Mean(f) \in Nat
  <1>1. Sum(f) \in Nat /\ Cardinality(D) \in Nat \ {0}
    BY Points, NonEmpty
  <1>2. DOMAIN f = D
    OBVIOUS
  <1> QED  BY <1>1, <1>2, QuotientNat DEF Mean

----------------------------------------------------------------------------
\* The formulas of MetricsCalculator.

LEMMA CappedRange ==
  ASSUME NEW x \in Nat, NEW cap \in Nat
  PROVE  Capped(x, cap) \in 0 .. cap
  BY DEF Capped

LEMMA Products ==
  /\ \A a, b \in Nat : a * b \in Nat
  /\ Unit \in Nat \ {0} /\ Unit \div 2 \in Nat /\ Unit * Unit \in Nat \ {0}
  BY DEF Unit

LEMMA NormalRange ==
  ASSUME NEW x \in Nat, NEW c \in Nat \ {0}
  PROVE  Capped((x * Unit) \div c, Unit) \in Nat
  <1>1. x * Unit \in Nat
    BY Products
  <1>2. (x * Unit) \div c \in Nat
    BY <1>1, QuotientNat
  <1>3. Capped((x * Unit) \div c, Unit) \in 0 .. Unit
    BY <1>2, Products, CappedRange
  <1> QED  BY <1>3

LEMMA EdsRange ==
  ASSUME NEW D, IsFiniteSet(D), NEW lengths \in [D -> Nat], NEW questions \in Nat, NEW depth \in Nat
  PROVE  computeEds(lengths, questions, depth) \in 0 .. Unit
  <1> DEFINE normLen == Capped((Mean(lengths) * Unit) \div 200, Unit)
             ratio == (questions * Unit) \div Cardinality(DOMAIN lengths)
             depthNorm == Capped((depth * Unit) \div 10, Unit)
             product == (normLen * (Unit \div 2 + ratio) * (Unit \div 2 + depthNorm))
                            \div (Unit * Unit)
  <1>0. DOMAIN lengths = D
    OBVIOUS
  <1>1. CASE D = {}
    BY <1>0, <1>1 DEF computeEds, Unit
  <1>2. CASE D # {}
    <2>1. Mean(lengths) \in Nat /\ Cardinality(D) \in Nat \ {0}
      BY <1>2, MeanNat, NonEmpty
    <2>2. normLen \in Nat
      BY <2>1, NormalRange
    <2>3. ratio \in Nat
      BY <1>0, <2>1, Products, QuotientNat
    <2>4. depthNorm \in Nat
      BY NormalRange
    <2>5. product \in Nat
      <3> HIDE DEF normLen, ratio, depthNorm
      <3>1. Unit \div 2 + ratio \in Nat /\ Unit \div 2 + depthNorm \in Nat
        BY <2>3, <2>4, Products
      <3>2. normLen * (Unit \div 2 + ratio) \in Nat
        BY <2>2, <3>1, Products
      <3>3. normLen * (Unit \div 2 + ratio) * (Unit \div 2 + depthNorm) \in Nat
        BY <3>1, <3>2, Products
      <3> QED  BY <3>3, Products, QuotientNat
    <2>6. computeEds(lengths, questions, depth) = Capped(product, Unit)
      BY <1>0, <1>2 DEF computeEds
    <2> HIDE DEF product
    <2> QED  BY <2>5, <2>6, CappedRange, Products
  <1> QED  BY <1>1, <1>2

LEMMA Share ==
  ASSUME NEW a \in Nat, NEW b \in Nat \ {0}, a <= b
  PROVE  (a * Unit) \div b \in 0 .. Unit
  BY Quotient DEF Unit

\* The previous index only fades, and the new one lies between the share of
\* unread conversations and its mean with the previous index.
LEMMA GiRange ==
  ASSUME NEW unreadNow \in Nat, NEW total \in Nat \ {0}, unreadNow <= total,
         NEW previous \in 0 .. Unit, NEW hours \in DOMAIN GhostDecay
  PROVE  LET base == (unreadNow * Unit) \div total
             gi == computeGi(unreadNow, total, previous, hours)
         IN  /\ gi \in 0 .. Unit /\ base \in 0 .. Unit
             /\ base <= gi
             /\ gi = base \/ 2 * gi <= previous + base
  <1> DEFINE base == (unreadNow * Unit) \div total
             decayed == (previous * GhostDecay[hours]) \div Unit
             blend == (decayed + base) \div 2
  <1>1. base \in 0 .. Unit
    BY Share
  <1>2. GhostDecay[hours] \in 0 .. 100 /\ previous \in 0 .. 100
    BY MetricsAssumption DEF Falling, Unit
  <1>3. decayed \in 0 .. previous
    <2>1. \A p, d \in 0 .. 100 : (p * d) \div 100 \in 0 .. p
      OBVIOUS
    <2> QED  BY <1>2, <2>1 DEF Unit
  <1>4. computeGi(unreadNow, total, previous, hours) = IF base > blend THEN base ELSE blend
    BY DEF computeGi
  <1>5. \A b, p \in 0 .. 100, d \in 0 .. 100 : d <= p =>
          LET e == (d + b) \div 2 IN e \in 0 .. 100 /\ 2 * e <= p + b
    OBVIOUS
  <1> HIDE DEF base, decayed
  <1>6. blend \in 0 .. Unit /\ 2 * blend <= previous + base
    <2>1. base \in 0 .. 100 /\ decayed \in 0 .. 100 /\ decayed <= previous
      BY <1>1, <1>2, <1>3 DEF Unit
    <2> QED  BY <1>2, <1>5, <2>1 DEF Unit
  <1> HIDE DEF blend
  <1> QED  BY <1>1, <1>4, <1>6 DEF base, Unit

LEMMA CompositeRange ==
  ASSUME NEW rts \in 0 .. Unit, NEW eds \in 0 .. Unit, NEW reciprocity \in 0 .. Unit, NEW gi \in 0 .. Unit
  PROVE  composite(rts, eds, reciprocity, gi) \in -20 .. Unit
  BY DEF composite, Unit
----------------------------------------------------------------------------
\* The run.

Ranged(r) == /\ \A f \in {"rts", "eds", "gi", "reciprocity"} : r[f] \in 0 .. Unit
             /\ r.compositeScore \in -20 .. Unit

InRange == /\ Ranged(metrics) /\ Ranged(row)
           /\ \A m \in DOMAIN samples : samples[m] \in 0 .. Unit

Looping == {"unread", "sentMine", "sentTheirs", "write"}
Midway == pc \in {"sentMine", "sentTheirs"}

\* The matches whose unread messages have been counted.
Counted == DOMAIN samples \cup (IF Midway THEN {counting} ELSE {})

\* `found` are the conversations the counter stands for.
Tallied(found) ==
    /\ found \subseteq Counted /\ Cardinality(found) = unread
    /\ found \subseteq blamed.ever
    /\ blamed.always \cap Counted \subseteq found

(* What the loop has counted as unread was unread at some moment of the    *)
(* run, and what was unread all through it has been counted or is to come. *)
CountInv ==
    /\ IsFiniteSet(matches)
    /\ pc \in Looping =>
          /\ \E found \in SUBSET matches : Tallied(found)
          /\ blamed.always \subseteq Counted \cup todo
          /\ todo \cap Counted = {}
    /\ Midway => counting \in matches /\ counting \notin DOMAIN samples
    /\ pc = "sentTheirs" => sent \in Nat
    /\ pc = "write" => todo = {}
----------------------------------------------------------------------------
\* What a run computes.

USE ScoringAssumption, MetricsAssumption

\* The messages read are all of `me`, so no two neighbours differ in sender.
LEMMA NoNeighbours ==
  ASSUME ScoringTypeOK
  PROVE  computeRts(ResponseTimes(own)) = Unit \div 2
  <1>1. \A i \in DOMAIN own : own[i].mine = TRUE
    BY DEF ScoringTypeOK, MessageRow
  <1>2. Neighbours(own) = {}
    BY <1>1 DEF Neighbours
  <1>3. DOMAIN ResponseTimes(own) = {}
    BY <1>2 DEF ResponseTimes
  <1> QED  BY <1>3 DEF computeRts

LEMMA ConversationsType ==
  ASSUME ScoringTypeOK, CountInv
  PROVE  /\ IsFiniteSet(DOMAIN samples) /\ Conversations \in Nat \ {0}
         /\ DOMAIN samples # {} => Conversations = Cardinality(DOMAIN samples)
  <1>1. IsFiniteSet(DOMAIN samples)
    BY FS_Subset DEF ScoringTypeOK, CountInv
  <1> QED  BY <1>1, NonEmpty DEF Conversations

LEMMA UnreadBound ==
  ASSUME ScoringTypeOK, CountInv, pc = "write"
  PROVE  unread <= Conversations
  <1>1. PICK found \in SUBSET matches : Tallied(found)
    BY DEF CountInv, Looping
  <1>2. found \subseteq DOMAIN samples /\ Cardinality(found) = unread /\ IsFiniteSet(DOMAIN samples)
    BY <1>1, ConversationsType DEF Tallied, Counted, Midway
  <1>3. CASE DOMAIN samples = {}
    <2>1. found = {}
      BY <1>2, <1>3
    <2> QED  BY <1>2, <2>1, FS_EmptySet, ConversationsType
  <1>4. CASE DOMAIN samples # {}
    BY <1>2, <1>4, FS_Subset, ConversationsType
  <1> QED  BY <1>3, <1>4

LEMMA GiComputed ==
  ASSUME ScoringTypeOK, CountInv, InRange, pc = "write"
  PROVE  LET base == (unread * Unit) \div Conversations IN
         /\ Computed.gi \in 0 .. Unit /\ base \in 0 .. Unit
         /\ base <= Computed.gi
         /\ Computed.gi = base \/ 2 * Computed.gi <= row.gi + base
  <1>1. /\ unread \in Nat /\ Conversations \in Nat \ {0} /\ unread <= Conversations
        /\ row.gi \in 0 .. Unit
    BY ConversationsType, UnreadBound DEF ScoringTypeOK, InRange, Ranged
  <1>2. hour - row.updatedAt \in DOMAIN GhostDecay
    <2>1. hour \in 0 .. MaxHours /\ row.updatedAt \in 0 .. MaxHours /\ row.updatedAt <= hour
      BY DEF ScoringTypeOK, ScoreRow
    <2> QED  BY <2>1
  <1>3. Computed.gi = computeGi(unread, Conversations, row.gi, hour - row.updatedAt)
    BY DEF Computed
  <1> QED  BY <1>1, <1>2, <1>3, GiRange

LEMMA ComputedRange ==
  ASSUME ScoringTypeOK, CountInv, InRange, pc = "write"
  PROVE  /\ \A f \in {"rts", "eds", "gi", "reciprocity"} : Computed[f] \in 0 .. Unit
         /\ Computed.score \in -20 .. Unit
  <1>1. Computed.rts \in 0 .. Unit
    BY NoNeighbours DEF Computed, Unit
  <1>2. Computed.eds \in 0 .. Unit
    <2> DEFINE lengths == [i \in DOMAIN own |-> own[i].length]
               questions == Cardinality({i \in DOMAIN own : own[i].question})
               depth == Capped(Cardinality(DOMAIN own), 10)
    <2>1. IsFiniteSet(DOMAIN own)
      BY DEF ScoringTypeOK
    <2>2. lengths \in [DOMAIN own -> Nat]
      BY DEF ScoringTypeOK, MessageRow
    <2>3. questions \in Nat
      <3>1. IsFiniteSet({i \in DOMAIN own : own[i].question})
        BY <2>1, FS_Subset
      <3> QED  BY <3>1, FS_CardinalityType
    <2>4. depth \in Nat
      <3>1. Cardinality(DOMAIN own) \in Nat
        BY <2>1, FS_CardinalityType
      <3>2. depth \in 0 .. 10
        BY <3>1, CappedRange
      <3> QED  BY <3>2
    <2>5. Computed.eds = computeEds(lengths, questions, depth)
      BY DEF Computed
    <2> HIDE DEF lengths, questions, depth
    <2>6. computeEds(lengths, questions, depth) \in 0 .. Unit
      BY <2>1, <2>2, <2>3, <2>4, EdsRange
    <2> QED  BY <2>5, <2>6
  <1>3. Computed.gi \in 0 .. Unit
    BY GiComputed
  <1>4. Computed.reciprocity \in 0 .. Unit
    <2>1. Computed.reciprocity = computeReciprocity(samples)
      BY DEF Computed
    <2>2. samples \in [DOMAIN samples -> 0 .. Unit] /\ IsFiniteSet(DOMAIN samples)
      BY ConversationsType DEF ScoringTypeOK, InRange
    <2>3. CASE DOMAIN samples = {}
      BY <2>1, <2>3 DEF computeReciprocity, Unit
    <2>4. CASE DOMAIN samples # {}
      BY <2>1, <2>2, <2>4, MeanBound, Products DEF computeReciprocity
    <2> QED  BY <2>3, <2>4
  <1>5. Computed.score = composite(Computed.rts, Computed.eds, Computed.reciprocity, Computed.gi)
    BY DEF Computed
  <1>6. Computed.score \in -20 .. Unit
    <2>1. composite(Computed.rts, Computed.eds, Computed.reciprocity, Computed.gi) \in -20 .. Unit
      <3> HIDE DEF Computed
      <3> QED  BY <1>1, <1>2, <1>3, <1>4, CompositeRange
    <2> QED  BY <1>5, <2>1
  <1> QED  BY <1>1, <1>2, <1>3, <1>4, <1>6

LEMMA Classified ==
  ASSUME NEW m, NEW totalMessages
  PROVE  classify(m, totalMessages) \in {"STEADY", "GHOST_TOWN", "SPARK", "PULSE", "CHILL"}
  BY DEF classify

LEMMA BalanceRange ==
  ASSUME NEW a \in Nat, NEW b \in Nat
  PROVE  Balance(a, b) \in 0 .. Unit
  <1>1. CASE a > b
    BY <1>1, Share DEF Balance, Capped, Unit
  <1>2. CASE ~(a > b) /\ b = 0
    BY <1>2 DEF Balance, Unit
  <1>3. CASE ~(a > b) /\ b # 0
    <2>1. Capped(a, b) = a \/ Capped(a, b) = b
      BY DEF Capped
    <2> QED  BY <1>3, <2>1, Share DEF Balance
  <1> QED  BY <1>1, <1>2, <1>3

LEMMA SentType ==
  ASSUME ScoringTypeOK, NEW m, NEW mine
  PROVE  Sent(m, mine) \in Nat
  <1>1. IsFiniteSet(DOMAIN messages)
    <2>1. DOMAIN messages = 1 .. Len(messages) /\ Len(messages) \in Nat
      BY DEF ScoringTypeOK
    <2> QED  BY <2>1, FS_Interval
  <1>2. IsFiniteSet({i \in DOMAIN messages : LET x == messages[i] IN x.match = m /\ x.mine = mine})
    BY <1>1, FS_Subset
  <1> QED  BY <1>2, FS_CardinalityType DEF Sent
----------------------------------------------------------------------------
\* The steps.

LEMMA ScoringInitInv == ScoringInit => ScoringTypeOK /\ InRange /\ CountInv
  <1> SUFFICES ASSUME ScoringInit PROVE ScoringTypeOK /\ InRange /\ CountInv
    OBVIOUS
  <1> USE DEF ScoringInit
  <1>1. PICK gi \in PastGi : metrics =
            [rts |-> Unit \div 2, eds |-> Unit \div 2, gi |-> gi,
             reciprocity |-> Unit \div 2, compositeScore |-> Unit \div 2,
             proposed |-> "STEADY", totalMessages |-> 0, updatedAt |-> 0]
    OBVIOUS
  <1>2. gi \in 0 .. Unit
    OBVIOUS
  <1>3. metrics \in ScoreRow /\ Ranged(metrics) /\ metrics.updatedAt = 0
    BY <1>1, <1>2 DEF ScoreRow, Ranged, Unit
  <1>4. own \in [DOMAIN own -> {x \in MessageRow : x.mine}] /\ IsFiniteSet(DOMAIN own)
        /\ samples \in [DOMAIN samples -> Nat] /\ DOMAIN samples = {}
    BY FS_EmptySet DEF Nothing
  <1>5. ScoringTypeOK
    BY <1>3, <1>4, EmptySeq DEF ScoringTypeOK, Steps
  <1>6. IsFiniteSet(matches)
    BY FS_EmptySet
  <1> QED  BY <1>3, <1>4, <1>5, <1>6 DEF InRange, CountInv, Looping, Midway

\* What every action does to the history.
LEMMA BlameStep ==
  ASSUME ScoringTypeOK, Blame, matches \subseteq matches'
  PROVE  /\ blamed' \in [always : SUBSET matches', ever : SUBSET matches']
         /\ pc # "idle" => /\ blamed'.always \subseteq blamed.always /\ blamed'.always \subseteq Unread'
                           /\ blamed.ever \subseteq blamed'.ever /\ Unread' \subseteq blamed'.ever
  <1>1. Unread' \subseteq matches'
    BY DEF Unread
  <1>2. blamed.always \subseteq matches' /\ blamed.ever \subseteq matches'
    BY DEF ScoringTypeOK
  <1>3. blamed' = [always |-> Unread', ever |-> Unread'] \/
        blamed' = [always |-> blamed.always \cap Unread', ever |-> blamed.ever \cup Unread']
    BY DEF Blame
  <1>4. pc # "idle" =>
          blamed' = [always |-> blamed.always \cap Unread', ever |-> blamed.ever \cup Unread']
    BY DEF Blame
  <1> QED  BY <1>1, <1>2, <1>3, <1>4

\* Around a run: it may find more unread, less all along, and new matches.
LEMMA AroundCount ==
  ASSUME ScoringTypeOK, CountInv, Blame, matches \subseteq matches', IsFiniteSet(matches'),
         UNCHANGED runVars
  PROVE  CountInv'
  <1>1. /\ pc # "idle" => /\ blamed'.always \subseteq blamed.always
                          /\ blamed.ever \subseteq blamed'.ever
        /\ Counted' = Counted /\ Midway' = Midway
    BY BlameStep DEF Counted, Midway, runVars, counted
  <1>2. ASSUME pc \in Looping PROVE \E found \in SUBSET matches' : Tallied(found)'
    <2>1. PICK found \in SUBSET matches : Tallied(found)
      BY <1>2 DEF CountInv
    <2>2. found \in SUBSET matches' /\ Tallied(found)'
      BY <1>1, <1>2, <2>1 DEF Tallied, runVars, counted, Looping
    <2> QED  BY <2>2
  <1>3. pc \in Looping => blamed'.always \subseteq Counted \cup todo
    BY <1>1 DEF CountInv, Looping
  <1> QED  BY <1>1, <1>2, <1>3 DEF CountInv, runVars, counted

LEMMA AroundRange ==
  ASSUME InRange, UNCHANGED <<samples, row>>,
         metrics' = metrics \/ metrics' = [metrics EXCEPT !.totalMessages = metrics.totalMessages + 1,
                                                          !.updatedAt = hour],
         metrics \in ScoreRow
  PROVE  InRange'
  BY DEF InRange, Ranged, ScoreRow

LEMMA SendMessageInv ==
  ASSUME ScoringTypeOK, InRange, CountInv, NEW m \in Matches, NEW mine \in BOOLEAN,
         NEW length \in Lengths, NEW question \in BOOLEAN, SendMessage(m, mine, length, question)
  PROVE  ScoringTypeOK' /\ InRange' /\ CountInv'
  <1> DEFINE new == [match |-> m, mine |-> mine, at |-> hour, length |-> length,
                     question |-> question, read |-> FALSE]
  <1>1. /\ messages' = Append(messages, new) /\ UNCHANGED <<matches, hour, runVars>> /\ Blame
        /\ metrics' = metrics
           \/ metrics' = [metrics EXCEPT !.totalMessages = metrics.totalMessages + 1, !.updatedAt = hour]
    BY DEF SendMessage
  <1>2. new \in MessageRow
    BY DEF ScoringTypeOK, MessageRow
  <1>3. messages' \in Seq(MessageRow)
    <2> HIDE DEF new
    <2> QED  BY <1>1, <1>2, AppendProperties DEF ScoringTypeOK
  <1>4. metrics' \in ScoreRow /\ metrics'.updatedAt <= hour
    <2>1. metrics \in ScoreRow /\ metrics.updatedAt <= hour /\ hour \in 0 .. MaxHours
      BY DEF ScoringTypeOK
    <2>2. CASE metrics' = metrics
      BY <2>1, <2>2
    <2>3. CASE metrics' = [metrics EXCEPT !.totalMessages = metrics.totalMessages + 1,
                                          !.updatedAt = hour]
      <3>1. metrics.totalMessages + 1 \in Nat
        BY <2>1 DEF ScoreRow
      <3>2. metrics' \in ScoreRow /\ metrics'.updatedAt = hour
        BY <2>1, <2>3, <3>1 DEF ScoreRow
      <3> QED  BY <2>1, <3>2
    <2> QED  BY <1>1, <2>2, <2>3
  <1>5. blamed' \in [always : SUBSET matches', ever : SUBSET matches']
    BY <1>1, BlameStep
  <1>6. ScoringTypeOK'
    BY <1>1, <1>3, <1>4, <1>5 DEF ScoringTypeOK, runVars, counted
  <1>7. InRange'
    BY <1>1, AroundRange DEF ScoringTypeOK, runVars, counted
  <1>8. CountInv'
    BY <1>1, AroundCount DEF CountInv
  <1> QED  BY <1>6, <1>7, <1>8

LEMMA MarkReadInv ==
  ASSUME ScoringTypeOK, InRange, CountInv, NEW m \in Matches, MarkRead(m)
  PROVE  ScoringTypeOK' /\ InRange' /\ CountInv'
  <1> DEFINE n == Len(messages)
             after(i) == IF messages[i].match = m /\ ~messages[i].mine
                         THEN [messages[i] EXCEPT !.read = TRUE] ELSE messages[i]
  <1>1. UNCHANGED <<matches, hour, metrics, runVars>> /\ Blame
    BY DEF MarkRead
  <1>2. n \in Nat /\ DOMAIN messages = 1 .. n
    BY DEF ScoringTypeOK
  <1>3. messages' = [i \in 1 .. n |-> after(i)]
    BY <1>2 DEF MarkRead
  <1>4. ASSUME NEW i \in 1 .. n PROVE after(i) \in MessageRow
    <2>1. messages[i] \in MessageRow
      BY <1>2 DEF ScoringTypeOK
    <2> QED  BY <2>1 DEF MessageRow
  <1>5. messages' \in Seq(MessageRow)
    <2> HIDE DEF after, n
    <2>1. messages' \in [1 .. n -> MessageRow]
      BY <1>3, <1>4
    <2> QED  BY <1>2, <2>1
  <1>6. blamed' \in [always : SUBSET matches', ever : SUBSET matches']
    BY <1>1, BlameStep
  <1>7. ScoringTypeOK'
    BY <1>1, <1>5, <1>6 DEF ScoringTypeOK, runVars, counted
  <1>8. InRange'
    BY <1>1, AroundRange DEF ScoringTypeOK, runVars, counted
  <1>9. CountInv'
    BY <1>1, AroundCount DEF CountInv
  <1> QED  BY <1>7, <1>8, <1>9

LEMMA AroundInv ==
  ASSUME ScoringTypeOK, InRange, CountInv, (\E m \in Matches : CreateMatch(m)) \/ Tick
  PROVE  ScoringTypeOK' /\ InRange' /\ CountInv'
  <1>1. /\ UNCHANGED <<messages, metrics, runVars>> /\ Blame
        /\ matches \subseteq matches' /\ matches' \subseteq Matches
        /\ hour' \in 0 .. MaxHours /\ hour <= hour'
    BY DEF CreateMatch, Tick, ScoringTypeOK
  <1>2. IsFiniteSet(matches')
    BY FS_AddElement DEF CreateMatch, Tick, CountInv
  <1>3. blamed' \in [always : SUBSET matches', ever : SUBSET matches']
    BY <1>1, BlameStep
  <1>4. metrics.updatedAt <= hour' /\ row.updatedAt <= hour'
    <2>1. /\ metrics.updatedAt <= hour /\ metrics.updatedAt \in Nat
          /\ row.updatedAt <= hour /\ row.updatedAt \in Nat
          /\ hour \in Nat /\ hour' \in Nat
      BY <1>1 DEF ScoringTypeOK, ScoreRow
    <2> QED  BY <1>1, <2>1
  <1>5. ScoringTypeOK'
    BY <1>1, <1>3, <1>4 DEF ScoringTypeOK, runVars, counted
  <1>6. InRange'
    BY <1>1, AroundRange DEF ScoringTypeOK, runVars, counted
  <1>7. CountInv'
    BY <1>1, <1>2, AroundCount
  <1> QED  BY <1>5, <1>6, <1>7
----------------------------------------------------------------------------
\* The queries of the run.

LEMMA ReadRowInv ==
  ASSUME ScoringTypeOK, InRange, CountInv, ReadRow
  PROVE  ScoringTypeOK' /\ InRange' /\ CountInv'
  <1> USE DEF ReadRow, world, counted
  <1>1. blamed' \in [always : SUBSET matches', ever : SUBSET matches']
    BY BlameStep
  <1>2. ScoringTypeOK'
    BY <1>1 DEF ScoringTypeOK, Steps
  <1>3. InRange'
    BY DEF InRange
  <1>4. CountInv'
    BY DEF CountInv, Looping, Midway
  <1> QED  BY <1>2, <1>3, <1>4

LEMMA ReadMessagesInv ==
  ASSUME ScoringTypeOK, InRange, CountInv, ReadMessages
  PROVE  ScoringTypeOK' /\ InRange' /\ CountInv'
  <1> DEFINE mine == {j \in DOMAIN messages : messages[j].mine}
  <1> USE DEF ReadMessages, world, counted
  <1>1. blamed' \in [always : SUBSET matches', ever : SUBSET matches']
    BY BlameStep
  <1>2. messages \in Seq(MessageRow) /\ \A i \in DOMAIN messages : messages[i] \in MessageRow
    BY DEF ScoringTypeOK
  <1>3. Oldest(mine) \subseteq mine
    BY DEF Oldest
  <1>4. IsFiniteSet(Oldest(mine))
    <2>1. IsFiniteSet(DOMAIN messages)
      <3>1. DOMAIN messages = 1 .. Len(messages) /\ Len(messages) \in Nat
        BY <1>2
      <3> QED  BY <3>1, FS_Interval
    <2>2. Oldest(mine) \subseteq DOMAIN messages
      BY <1>3
    <2> QED  BY <2>1, <2>2, FS_Subset
  <1>5. own' \in [DOMAIN own' -> {x \in MessageRow : x.mine}] /\ DOMAIN own' = Oldest(mine)
    <2>1. own' = [i \in Oldest(mine) |-> messages[i]]
      OBVIOUS
    <2>2. \A i \in Oldest(mine) : messages[i] \in {x \in MessageRow : x.mine}
      BY <1>2, <1>3
    <2> HIDE DEF mine, ReadMessages
    <2> QED  BY <2>1, <2>2
  <1>6. ScoringTypeOK'
    BY <1>1, <1>2, <1>4, <1>5 DEF ScoringTypeOK, Steps
  <1>7. InRange'
    BY DEF InRange
  <1>8. CountInv'
    BY DEF CountInv, Looping, Midway
  <1> QED  BY <1>6, <1>7, <1>8

LEMMA ReadMatchesInv ==
  ASSUME ScoringTypeOK, InRange, CountInv, ReadMatches
  PROVE  ScoringTypeOK' /\ InRange' /\ CountInv'
  <1> USE DEF ReadMatches, world
  <1>1. blamed' \in [always : SUBSET matches', ever : SUBSET matches']
    BY BlameStep
  <1>2. samples' \in [DOMAIN samples' -> Nat] /\ DOMAIN samples' = {}
    BY DEF Nothing
  <1>3. ScoringTypeOK'
    BY <1>1, <1>2 DEF ScoringTypeOK, Steps
  <1>4. InRange'
    BY <1>2 DEF InRange
  <1>5. pc' \in {"unread", "write"} /\ ~Midway' /\ Counted' = {}
    BY <1>2 DEF Midway, Counted
  <1>6. Tallied({})' /\ {} \in SUBSET matches'
    BY <1>5, FS_EmptySet DEF Tallied
  <1>7. blamed'.always \subseteq matches'
    BY <1>1
  <1>8. CountInv'
    BY <1>5, <1>6, <1>7 DEF CountInv, ScoringTypeOK
  <1> QED  BY <1>3, <1>4, <1>8

LEMMA CountUnreadInv ==
  ASSUME ScoringTypeOK, InRange, CountInv, CountUnread
  PROVE  ScoringTypeOK' /\ InRange' /\ CountInv'
  <1> USE DEF CountUnread, world
  <1>0. PICK m \in todo : /\ counting' = m /\ todo' = todo \ {m}
                          /\ unread' = IF UnreadCount(m) > 0 THEN unread + 1 ELSE unread
    OBVIOUS
  <1>1. /\ blamed' \in [always : SUBSET matches', ever : SUBSET matches']
        /\ blamed'.always \subseteq blamed.always /\ blamed'.always \subseteq Unread'
        /\ blamed.ever \subseteq blamed'.ever /\ Unread' \subseteq blamed'.ever
    BY BlameStep
  <1>2. m \in matches /\ todo \subseteq matches /\ unread \in Nat
    BY DEF ScoringTypeOK
  <1>3. ScoringTypeOK'
    BY <1>0, <1>1, <1>2 DEF ScoringTypeOK, Steps
  <1>4. InRange'
    BY DEF InRange
  <1>5. /\ Counted = DOMAIN samples /\ Counted' = DOMAIN samples \cup {m} /\ Midway'
        /\ m \notin DOMAIN samples
    BY <1>0 DEF Counted, Midway, CountInv, Looping
  <1>6. Unread' = {x \in matches : UnreadCount(x) > 0}
    BY DEF Unread, UnreadCount
  <1>7. PICK found \in SUBSET matches : Tallied(found)
    BY DEF CountInv, Looping
  <1>8. IsFiniteSet(found) /\ m \notin found
    BY <1>5, <1>7, FS_Subset DEF CountInv, Tallied
  <1>9. \E f \in SUBSET matches' : Tallied(f)'
    <2>1. CASE UnreadCount(m) > 0
      <3>1. m \in blamed'.ever
        BY <1>1, <1>2, <1>6, <2>1
      <3>2. Cardinality(found \cup {m}) = unread + 1
        BY <1>7, <1>8, FS_AddElement DEF Tallied
      <3>3. Tallied(found \cup {m})'
        BY <1>0, <1>1, <1>5, <1>7, <2>1, <3>1, <3>2 DEF Tallied
      <3> QED  BY <1>2, <3>3
    <2>2. CASE ~(UnreadCount(m) > 0)
      <3>1. m \notin blamed'.always
        BY <1>1, <1>6, <2>2
      <3>2. Tallied(found)'
        BY <1>0, <1>1, <1>5, <1>7, <2>2, <3>1 DEF Tallied
      <3> QED  BY <3>2
    <2> QED  BY <2>1, <2>2
  <1>10. blamed.always \subseteq Counted \cup todo /\ todo \cap Counted = {} /\ IsFiniteSet(matches)
    BY DEF CountInv, Looping
  <1>11. CountInv'
    BY <1>0, <1>1, <1>2, <1>5, <1>9, <1>10 DEF CountInv
  <1> QED  BY <1>3, <1>4, <1>11

\* A query that finds nothing new for the tally.
LEMMA TallyKept ==
  ASSUME ScoringTypeOK, CountInv, Blame, pc \in Looping, pc' \in Looping,
         UNCHANGED <<world, unread, todo>>, Counted' = Counted
  PROVE  /\ IsFiniteSet(matches')
         /\ \E found \in SUBSET matches' : Tallied(found)'
         /\ blamed'.always \subseteq Counted' \cup todo'
         /\ todo' \cap Counted' = {}
  <1>1. /\ blamed'.always \subseteq blamed.always /\ blamed.ever \subseteq blamed'.ever
        /\ UNCHANGED matches
    BY BlameStep DEF Looping, world
  <1>2. PICK found \in SUBSET matches : Tallied(found)
    BY DEF CountInv
  <1>3. Tallied(found)'
    BY <1>1, <1>2 DEF Tallied
  <1> QED  BY <1>1, <1>2, <1>3 DEF CountInv

LEMMA CountSentMineInv ==
  ASSUME ScoringTypeOK, InRange, CountInv, CountSentMine
  PROVE  ScoringTypeOK' /\ InRange' /\ CountInv'
  <1> USE DEF CountSentMine
  <1>1. blamed' \in [always : SUBSET matches', ever : SUBSET matches']
    BY BlameStep DEF world
  <1>2. sent' \in Nat
    BY SentType
  <1>3. ScoringTypeOK'
    BY <1>1, <1>2 DEF ScoringTypeOK, Steps, world
  <1>4. InRange'
    BY DEF InRange
  <1>5. Counted' = Counted /\ Midway /\ Midway'
    BY DEF Counted, Midway
  <1>6. CountInv'
    BY <1>2, <1>5, TallyKept DEF CountInv, Looping, world
  <1> QED  BY <1>3, <1>4, <1>6

LEMMA CountSentTheirsInv ==
  ASSUME ScoringTypeOK, InRange, CountInv, CountSentTheirs
  PROVE  ScoringTypeOK' /\ InRange' /\ CountInv'
  <1> DEFINE ratio == Balance(sent, Sent(counting, FALSE))
             after == DOMAIN samples \cup {counting}
  <1> USE DEF CountSentTheirs
  <1>1. blamed' \in [always : SUBSET matches', ever : SUBSET matches']
    BY BlameStep DEF world
  <1>2. counting \in matches /\ sent \in Nat /\ Midway
    BY DEF CountInv, Midway
  <1>3. ratio \in 0 .. Unit
    BY <1>2, SentType, BalanceRange
  <1>4. samples' = [m \in after |-> IF m = counting THEN ratio ELSE samples[m]]
    OBVIOUS
  <1>5. /\ samples' \in [DOMAIN samples' -> Nat] /\ DOMAIN samples' = after
        /\ \A m \in DOMAIN samples' : samples'[m] \in 0 .. Unit
    <2>1. \A m \in DOMAIN samples : samples[m] \in 0 .. Unit
      BY DEF InRange
    <2>2. \A x \in 0 .. Unit : x \in Nat
      BY DEF Unit
    <2> HIDE DEF ratio, CountSentTheirs
    <2> QED  BY <1>3, <1>4, <2>1, <2>2
  <1>6. after \subseteq matches
    BY <1>2 DEF ScoringTypeOK
  <1>7. ScoringTypeOK'
    BY <1>1, <1>5, <1>6 DEF ScoringTypeOK, Steps, world
  <1>8. InRange'
    BY <1>5 DEF InRange
  <1>9. pc' \in Looping /\ ~Midway' /\ Counted' = Counted
    BY <1>2, <1>5 DEF Counted, Midway, Looping
  <1>10. CountInv'
    BY <1>9, TallyKept DEF CountInv, Looping, world
  <1> QED  BY <1>7, <1>8, <1>10

LEMMA WriteInv ==
  ASSUME ScoringTypeOK, InRange, CountInv, Write
  PROVE  ScoringTypeOK' /\ InRange' /\ CountInv'
  <1>1. /\ pc = "write" /\ pc' = "idle" /\ row' = metrics' /\ Blame
        /\ metrics' = [metrics EXCEPT !.rts = Computed.rts, !.eds = Computed.eds, !.gi = Computed.gi,
                       !.reciprocity = Computed.reciprocity, !.compositeScore = Computed.score,
                       !.proposed = classify(Computed, row.totalMessages), !.updatedAt = hour]
        /\ own' = Nothing /\ samples' = Nothing /\ unread' = 0
        /\ UNCHANGED <<world, todo, counting, sent, runs, scored>>
    BY DEF Write
  <1>2. blamed' \in [always : SUBSET matches', ever : SUBSET matches']
    BY <1>1, BlameStep DEF world
  <1>3. /\ metrics' \in ScoreRow /\ Ranged(metrics') /\ metrics'.updatedAt = hour
    <2>1. /\ Computed.rts \in 0 .. Unit /\ Computed.eds \in 0 .. Unit /\ Computed.gi \in 0 .. Unit
          /\ Computed.reciprocity \in 0 .. Unit /\ Computed.score \in -20 .. Unit
      BY <1>1, ComputedRange
    <2>2. classify(Computed, row.totalMessages)
              \in {"STEADY", "GHOST_TOWN", "SPARK", "PULSE", "CHILL"}
      BY Classified
    <2>3. metrics \in ScoreRow /\ hour \in 0 .. MaxHours
      BY DEF ScoringTypeOK
    <2>4. PICK c : c = Computed
      OBVIOUS
    <2>5. PICK zone : zone = classify(Computed, row.totalMessages)
      OBVIOUS
    <2>6. PICK new : new = metrics'
      OBVIOUS
    <2>7. new = [metrics EXCEPT !.rts = c.rts, !.eds = c.eds, !.gi = c.gi,
                                !.reciprocity = c.reciprocity, !.compositeScore = c.score,
                                !.proposed = zone, !.updatedAt = hour]
      BY <1>1, <2>4, <2>5, <2>6
    <2>8. /\ c.rts \in 0 .. Unit /\ c.eds \in 0 .. Unit /\ c.gi \in 0 .. Unit
          /\ c.reciprocity \in 0 .. Unit /\ c.score \in -20 .. Unit
      BY <2>1, <2>4
    <2>9. zone \in {"STEADY", "GHOST_TOWN", "SPARK", "PULSE", "CHILL"}
      BY <2>2, <2>5
    <2>10. /\ new.rts = c.rts /\ new.eds = c.eds /\ new.gi = c.gi
           /\ new.reciprocity = c.reciprocity /\ new.compositeScore = c.score
           /\ new.updatedAt = hour
      BY <2>3, <2>7 DEF ScoreRow
    <2>11. /\ c.rts \in Nat /\ c.eds \in Nat /\ c.gi \in Nat /\ c.reciprocity \in Nat
           /\ c.score \in Int
      <3>1. (\A x \in 0 .. Unit : x \in Nat) /\ (\A x \in -20 .. Unit : x \in Int)
        BY DEF Unit
      <3> QED  BY <2>8, <3>1
    <2>12. new \in ScoreRow
      BY <2>3, <2>7, <2>9, <2>11 DEF ScoreRow
    <2>13. Ranged(new)
      BY <2>8, <2>10 DEF Ranged
    <2> QED  BY <2>6, <2>10, <2>12, <2>13
  <1>4. /\ own' \in [DOMAIN own' -> {x \in MessageRow : x.mine}] /\ IsFiniteSet(DOMAIN own')
        /\ samples' \in [DOMAIN samples' -> Nat] /\ DOMAIN samples' = {}
    BY <1>1, FS_EmptySet DEF Nothing
  <1>5. hour \in 0 .. MaxHours
    BY DEF ScoringTypeOK
  <1>6. ScoringTypeOK'
    BY <1>1, <1>2, <1>3, <1>4, <1>5 DEF ScoringTypeOK, Steps, world
  <1>7. InRange'
    BY <1>1, <1>3, <1>4 DEF InRange
  <1>8. CountInv'
    BY <1>1 DEF CountInv, Looping, Midway, world
  <1> QED  BY <1>6, <1>7, <1>8

LEMMA ScoringStepInv ==
  ScoringTypeOK /\ InRange /\ CountInv /\ [ScoringNext]_scoringVars
      => ScoringTypeOK' /\ InRange' /\ CountInv'
  <1> SUFFICES ASSUME ScoringTypeOK, InRange, CountInv, [ScoringNext]_scoringVars
               PROVE  ScoringTypeOK' /\ InRange' /\ CountInv'
    OBVIOUS
  <1>1. CASE Run
    BY <1>1, ReadRowInv, ReadMessagesInv, ReadMatchesInv, CountUnreadInv, CountSentMineInv,
       CountSentTheirsInv, WriteInv DEF Run
  <1>2. CASE Tick \/ \E m \in Matches : CreateMatch(m)
    BY <1>2, AroundInv
  <1>3. ASSUME NEW m \in Matches, NEW length \in Lengths, NEW question \in Verdicts,
               SendMessage(m, FALSE, length, FALSE) \/ SendMessage(m, TRUE, length, question)
        PROVE  ScoringTypeOK' /\ InRange' /\ CountInv'
    BY <1>3, SendMessageInv
  <1>4. ASSUME NEW m \in Matches, NEW length \in Lengths, SendMessage(m, FALSE, length, FALSE)
        PROVE  ScoringTypeOK' /\ InRange' /\ CountInv'
    BY <1>4, SendMessageInv
  <1>5. ASSUME NEW m \in Matches, MarkRead(m)
        PROVE  ScoringTypeOK' /\ InRange' /\ CountInv'
    BY <1>5, MarkReadInv
  <1>6. CASE UNCHANGED scoringVars
    BY <1>6 DEF scoringVars, world, runVars, counted, ScoringTypeOK, InRange, CountInv, Looping,
       Midway, Counted, Tallied
  <1> QED  BY <1>1, <1>2, <1>3, <1>4, <1>5, <1>6 DEF ScoringNext

(* Types; no row was written later than now, and what a run has read of    *)
(* the messages are messages of the user it scores.                        *)
THEOREM ScoringTypeCorrect == ScoringSpec => []ScoringTypeOK
  BY ScoringInitInv, ScoringStepInv, PTL DEF ScoringSpec

(* Every metric stays in [0, 1] and the composite in [-0.2, 1], for any    *)
(* messages, lengths and matches, whatever changes between two queries of  *)
(* a run and however often the ghost index is blended with its past.       *)
THEOREM MetricsStayInRange == ScoringSpec => []MetricsInRange
  <1>1. InRange => MetricsInRange
    BY DEF InRange, Ranged, MetricsInRange
  <1> QED  BY <1>1, ScoringInitInv, ScoringStepInv, PTL DEF ScoringSpec

----------------------------------------------------------------------------
\* The ghost index.

LEMMA ShareGrows ==
  ASSUME NEW a \in Nat, NEW b \in Nat, a <= b, NEW c \in Nat \ {0}
  PROVE  (a * Unit) \div c <= (b * Unit) \div c /\ (a * Unit) \div c \in Nat
  BY DEF Unit

LEMMA UnreadBetween ==
  ASSUME ScoringTypeOK, CountInv, pc = "write"
  PROVE  /\ Cardinality(blamed.always) \in Nat /\ Cardinality(blamed.ever) \in Nat
         /\ Cardinality(blamed.always) <= unread /\ unread <= Cardinality(blamed.ever)
  <1>1. PICK found \in SUBSET matches : Tallied(found)
    BY DEF CountInv, Looping
  <1>2. blamed.always \subseteq found
    BY <1>1 DEF CountInv, Looping, Tallied
  <1>3. found \subseteq blamed.ever /\ Cardinality(found) = unread
    BY <1>1 DEF Tallied
  <1>4. IsFiniteSet(found) /\ IsFiniteSet(blamed.ever)
    <2>1. IsFiniteSet(matches) /\ blamed.ever \subseteq matches
      BY DEF CountInv, ScoringTypeOK
    <2> QED  BY <2>1, FS_Subset
  <1> QED  BY <1>2, <1>3, <1>4, FS_Subset, FS_CardinalityType

LEMMA WriteIsFair ==
  ASSUME ScoringTypeOK, InRange, CountInv, Write
  PROVE  Charged
  <1> DEFINE share(S) == (Cardinality(S) * Unit) \div Conversations
             least == share(blamed.always)
             most == share(blamed.ever)
             base == (unread * Unit) \div Conversations
  <1>1. pc = "write" /\ metrics'.gi = Computed.gi
    BY DEF Write, ScoringTypeOK, ScoreRow
  <1>2. /\ Computed.gi \in 0 .. Unit /\ base \in 0 .. Unit /\ base <= Computed.gi
        /\ Computed.gi = base \/ 2 * Computed.gi <= row.gi + base
    BY <1>1, GiComputed
  <1>3. Conversations \in Nat \ {0} /\ unread \in Nat
    BY <1>1, ConversationsType DEF ScoringTypeOK
  <1>4. least <= base /\ base <= most /\ least \in Nat /\ most \in Nat
    <2>1. base <= most
      BY <1>1, <1>3, UnreadBetween, ShareGrows
    <2>2. least <= base /\ least \in Nat
      BY <1>1, <1>3, UnreadBetween, ShareGrows
    <2>3. most \in Nat
      BY <1>1, <1>3, UnreadBetween, ShareGrows
    <2> QED  BY <2>1, <2>2, <2>3
  <1>5. row.gi \in 0 .. Unit
    BY DEF InRange, Ranged
  <1> HIDE DEF share, least, most, base
  <1>6. Computed.gi \in Nat /\ base \in Nat /\ row.gi \in Nat
    <2>1. \A x \in 0 .. Unit : x \in Nat
      BY DEF Unit
    <2> QED  BY <1>2, <1>5, <2>1
  <1>7. least <= Computed.gi /\ (Computed.gi <= most \/ 2 * Computed.gi <= row.gi + most)
    BY <1>2, <1>4, <1>6
  <1> QED  BY <1>1, <1>7 DEF share, least, most, Charged

(* The ghost index charges a user for what it left unread and nothing      *)
(* else, however many messages are sent, read or matched while the loop    *)
(* is counting, and whatever order it takes the matches in.                *)
THEOREM GhostIndexIsFair == ScoringSpec => GhostIndexFair
  <1>1. ScoringTypeOK /\ InRange /\ CountInv /\ [ScoringNext]_scoringVars
            => [(pc = "write" /\ pc' = "idle") => Charged]_scoringVars
    <2> SUFFICES ASSUME ScoringTypeOK, InRange, CountInv, ScoringNext, pc = "write", pc' = "idle"
                 PROVE  Charged
      BY DEF scoringVars
    <2>1. Write
      BY DEF ScoringNext, Run, ReadRow, ReadMessages, ReadMatches, CountUnread, CountSentMine,
             CountSentTheirs, Tick, CreateMatch, MarkRead, SendMessage, runVars
    <2> QED  BY <2>1, WriteIsFair
  <1> QED  BY <1>1, ScoringInitInv, ScoringStepInv, PTL DEF ScoringSpec, GhostIndexFair

----------------------------------------------------------------------------
\* What the response-time score leaves of the classifier.

HalfAndSteady == metrics.rts = Unit \div 2 /\ metrics.proposed = "STEADY"

LEMMA SteadyAtHalf ==
  ASSUME NEW m, m.rts = Unit \div 2, NEW totalMessages
  PROVE  classify(m, totalMessages) = "STEADY"
  BY DEF classify, Unit

LEMMA HalfAndSteadyStep ==
  ASSUME ScoringTypeOK, HalfAndSteady, [ScoringNext]_scoringVars
  PROVE  HalfAndSteady'
  <1>1. CASE Write
    <2>1. PICK c : c = Computed
      OBVIOUS
    <2>2. c.rts = Unit \div 2
      BY <2>1, NoNeighbours DEF Computed
    <2>3. PICK zone : zone = classify(c, row.totalMessages)
      OBVIOUS
    <2>4. zone = "STEADY"
      BY <2>2, <2>3, SteadyAtHalf
    <2>5. metrics' = [metrics EXCEPT !.rts = c.rts, !.eds = c.eds, !.gi = c.gi,
                                     !.reciprocity = c.reciprocity, !.compositeScore = c.score,
                                     !.proposed = zone, !.updatedAt = hour]
      BY <1>1, <2>1, <2>3 DEF Write
    <2>6. metrics \in ScoreRow
      BY DEF ScoringTypeOK
    <2>7. metrics'.rts = c.rts /\ metrics'.proposed = zone
      BY <2>5, <2>6 DEF ScoreRow
    <2> QED  BY <2>2, <2>4, <2>7 DEF HalfAndSteady
  <1>2. ASSUME NEW m, NEW mine, NEW length, NEW question, SendMessage(m, mine, length, question)
        PROVE  HalfAndSteady'
    <2>1. metrics \in ScoreRow
      BY DEF ScoringTypeOK
    <2>2. metrics'.rts = metrics.rts /\ metrics'.proposed = metrics.proposed
      BY <1>2, <2>1 DEF SendMessage, ScoreRow
    <2> QED  BY <2>2 DEF HalfAndSteady
  <1>3. CASE UNCHANGED metrics
    BY <1>3 DEF HalfAndSteady
  <1> QED  BY <1>1, <1>2, <1>3 DEF ScoringNext, Run, ReadRow, ReadMessages, ReadMatches, CountUnread,
             CountSentMine, CountSentTheirs, Tick, CreateMatch, MarkRead, scoringVars

(* Whatever a user writes, answers or leaves unread, every recalculation   *)
(* gives a response-time score of one half, because the query reads only   *)
(* the user's own messages, and so the classifier proposes STEADY.         *)
THEOREM OnlySteadyProposed == ScoringSpec => []HalfAndSteady
  <1>1. ScoringInit => HalfAndSteady
    BY DEF ScoringInit, HalfAndSteady
  <1> QED  BY <1>1, HalfAndSteadyStep, ScoringInitInv, ScoringStepInv, PTL DEF ScoringSpec
=============================================================================
