------------------------------ MODULE MCSales ------------------------------
(* The sales core on small floors. *)
EXTENDS Sales, TLC

Symmetric == Permutations(Tables) \cup Permutations(Tills)
=============================================================================
