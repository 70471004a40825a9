---------------------------- MODULE ExactlyOnce ----------------------------
(***************************************************************************)
(* What the fleet's delivery promises: an event a store committed is       *)
(* handed to the cloud's readers at most once, and nothing else is.        *)
(***************************************************************************)
EXTENDS Integers

CONSTANT Events

VARIABLES
  committed,  \* the events the stores have committed
  handed      \* how often each was handed on: the rows of event_outbox

Init == committed = {} /\ handed = [e \in Events |-> 0]

Commit == \E E \in SUBSET (Events \ committed) :
            committed' = committed \cup E /\ UNCHANGED handed

HandOn == \E E \in SUBSET {e \in committed : handed[e] = 0} :
            /\ handed' = [e \in Events |-> IF e \in E THEN 1 ELSE handed[e]]
            /\ UNCHANGED committed

Spec == Init /\ [][Commit \/ HandOn]_<<committed, handed>>
=============================================================================
