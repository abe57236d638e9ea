------------------------------ MODULE MCEeprom ------------------------------
EXTENDS Eeprom, TLC

CONSTANTS a, b

(* Uniform contents; calls for all pages, and for the second half of the   *)
(* last slice.                                                             *)
MCContents == {[g \in Pages |-> v] : v \in {a, b}}
MCRanges == {<<0, NPages>>, <<NPages - 1, NPages>>}
Symmetry == Permutations({a, b})
=============================================================================
