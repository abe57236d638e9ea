---------------------------- MODULE BoundedFifo ----------------------------
(***************************************************************************)
(* What a byte FIFO of bounded capacity promises its users: bytes come out *)
(* in the order they went in, none is lost, duplicated or invented, and    *)
(* never more than Capacity of them are held.  How a reader or a writer    *)
(* waits, locks or is woken is no part of the promise.                     *)
(***************************************************************************)
EXTENDS Naturals, Sequences

CONSTANTS Procs,      \* the processes that use the fifo
          Byte,       \* what it carries
          Capacity    \* how much it holds

VARIABLES q,          \* the bytes held, oldest first
          got         \* got[p]: the bytes just handed to process p

fifoVars == <<q, got>>

FifoInit == q = << >> /\ got = [p \in Procs |-> << >>]

(* A writer appends some bytes, as many as fit or fewer. *)
Put == \E n \in 1 .. Capacity : \E s \in [1 .. n -> Byte] :
         /\ Len(q) + Len(s) <= Capacity
         /\ q' = q \o s
         /\ got' = got

(* A reader takes some of the oldest bytes. *)
Take(p) == \E n \in 1 .. Len(q) :
             /\ got' = [got EXCEPT ![p] = SubSeq(q, 1, n)]
             /\ q' = SubSeq(q, n + 1, Len(q))

(* The reader has gone away with its bytes. *)
Leave(p) == got' = [got EXCEPT ![p] = << >>] /\ q' = q

(* Everything held is thrown away. *)
Discard == q' = << >> /\ got' = got

FifoNext == Put \/ Discard \/ \E p \in Procs : Take(p) \/ Leave(p)

FifoSpec == FifoInit /\ [][FifoNext]_fifoVars
============================================================================
