--------------------------- MODULE MCRecalcQueue ---------------------------
(***************************************************************************)
(* Instances of RecalcQueue for TLC.  Users and workers are interchangeable *)
(* model values: nothing in the module chooses one of them.                *)
(***************************************************************************)
EXTENDS RecalcQueue, TLC

Symmetry == Permutations(Users) \cup Permutations(Workers)
\* Conflicts may re-enqueue without end, so Trigger's guard does not bound the
\* revisions of the runs with stalls; this does.
Bounded == \A u \in Users : metrics[u].revision <= MaxRevision
\* The state without owed, which no guard and no property of that run reads.
Core == <<queueVars, lock, metrics, pc, workerVars, zoneLog, hist>>
=============================================================================
