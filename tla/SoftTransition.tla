--------------------------- MODULE SoftTransition ---------------------------
(***************************************************************************)
(* What the scoring service promises about a user's zone, with no queue,   *)
(* no worker, no lock and no revision: recalculations of one user happen   *)
(* one after the other, each reaches a verdict, and the zone moves only    *)
(* when two consecutive verdicts agree on the same other zone.             *)
(*                                                                         *)
(* candidate[u] is the verdict of u's latest recalculation when it differs *)
(* from u's zone, and NoZone otherwise.                                    *)
(***************************************************************************)
CONSTANTS Users,      \* user ids
          Zones,      \* the zones of libs/contracts
          NoZone      \* "null": not a zone

VARIABLES zone, candidate

Init == /\ zone \in [Users -> Zones]
        /\ candidate \in [Users -> Zones \cup {NoZone}]

\* One whole recalculation of u, whose verdict is v.
Confirm(u, v) == /\ v = zone[u]
                 /\ candidate' = [candidate EXCEPT ![u] = NoZone]
                 /\ UNCHANGED zone

Propose(u, v) == /\ v # zone[u]
                 /\ v # candidate[u]
                 /\ candidate' = [candidate EXCEPT ![u] = v]
                 /\ UNCHANGED zone

Commit(u, v) == /\ v # zone[u]
                /\ v = candidate[u]
                /\ zone' = [zone EXCEPT ![u] = v]
                /\ candidate' = [candidate EXCEPT ![u] = NoZone]

Next == \E u \in Users, v \in Zones : Confirm(u, v) \/ Propose(u, v) \/ Commit(u, v)

Spec == Init /\ [][Next]_<<zone, candidate>>
=============================================================================
