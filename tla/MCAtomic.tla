------------------------------ MODULE MCAtomic ------------------------------
EXTENDS Atomic, Bitwise

C(kind, a, b) == [kind |-> kind, a |-> a, b |-> b]

(* Words of two bits: increment, decrement, set and clear a bit, a         *)
(* comparison that may fail, and one of each load and store.               *)
MCCalls == {C("add", 1, 0), C("add", 3, 0), C("and", 2, 0), C("or", 1, 0),
            C("cas", 1, 2), C("swap", 3, 0), C("acquire_load", 0, 0), C("release_load", 0, 0),
            C("acquire_store", 0, 0), C("release_store", 2, 0)}
MCBitAnd(v, w) == v & w
MCBitOr(v, w) == v | w
=============================================================================
