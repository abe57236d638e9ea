----------------------------- MODULE MCHashMap -----------------------------
(***************************************************************************)
(* Keys that collide in the small table, across its end, and in the next   *)
(* table too, so that one growth can call for another.                     *)
(***************************************************************************)
EXTENDS HashMap, TLC

CONSTANTS ka, kb, kc, kd

MCKeys == {ka, kb, kc, kd}
MCHash == (ka :> 15) @@ (kb :> 31) @@ (kc :> 0) @@ (kd :> 7)
=============================================================================
