---------------------------- MODULE MCScheduler -----------------------------
(***************************************************************************)
(* Small instances of the scheduling core for TLC.                         *)
(***************************************************************************)
EXTENDS Scheduler

CONSTANTS urgent, minor, walk, call

\* Two Recommendations: an urgent one for now, a minor one suggested for later.
MCPriority == [r \in Recommendations |-> IF r = urgent THEN 2 ELSE 1]
MCLead     == [r \in Recommendations |-> IF r = urgent THEN 0 ELSE 1]
=============================================================================
