----------------------------- MODULE MCEventLog -----------------------------
(* The event log on a small instance: a store with events older than its     *)
(* chain, and three events after it, committed in any order and grouping.    *)
EXTENDS EventLog
=============================================================================
