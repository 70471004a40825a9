----------------------------- MODULE MCLiveLink -----------------------------
(* The live link on small instances: one device, because devices share only *)
(* the edge's side, which none of them changes.                             *)
EXTENDS LiveLink
CONSTANTS d1, sale, mark1, mark2
=============================================================================
