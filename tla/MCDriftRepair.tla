---------------------------- MODULE MCDriftRepair ---------------------------
\* Two users in batches of one, so that a scan has several pages, one retained
\* job of each outcome, so that enqueues are ignored and jobs forgotten, two
\* messages and two failures.
EXTENDS DriftRepair
=============================================================================
