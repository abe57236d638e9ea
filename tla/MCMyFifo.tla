------------------------------ MODULE MCMyFifo ------------------------------
(* Small instances of MyFifo: who makes which calls. *)
EXTENDS MyFifo

CONSTANTS r1, w1, c1

RW == {"read", "write"}
\* everybody reads and writes at will, and one also clears and polls
SharedRole == [p \in Procs |-> IF p = c1 THEN Kinds ELSE RW]
\* one reader, one writer
PairRole == [p \in Procs |-> IF p = r1 THEN {"read"}
                             ELSE IF p = w1 THEN {"write"} ELSE {"pollin", "pollout"}]
=============================================================================
