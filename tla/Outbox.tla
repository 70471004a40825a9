------------------------------- MODULE Outbox -------------------------------
(***************************************************************************)
(* What a store's outbox promises its publisher: positions are given out   *)
(* one after another, and an acknowledgement removes everything up to a    *)
(* position, in order, and nothing that was not queued (the EventStore     *)
(* port: outbox_batch, acknowledge_outbox).  EventLog implements it over   *)
(* SQLite; Delivery uses one per store.                                    *)
(***************************************************************************)
EXTENDS Integers

VARIABLES
  queued,   \* the last position given out
  through   \* the last position acknowledged

Init == queued \in Nat /\ through \in 0 .. queued

Queue == /\ queued' \in Nat /\ queued' > queued
         /\ UNCHANGED through

AcknowledgeThrough == /\ through' \in Nat /\ through' > through /\ through' <= queued
                      /\ UNCHANGED queued

Spec == Init /\ [][Queue \/ AcknowledgeThrough]_<<queued, through>>
=============================================================================
