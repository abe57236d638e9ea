------------------------------ MODULE BrServer ------------------------------
(***************************************************************************)
(* The broadcast server of sock_br_server.c: one thread selects on its     *)
(* standard input and a listening socket, keeps its clients in a linked    *)
(* list, newest first, and writes every chunk it reads to all of them; a   *)
(* client whose write fails is taken off the list.                         *)
(*                                                                         *)
(* A connection stands for its socket and for the list node malloc gave    *)
(* it.  What follows the use of a freed node is undefined: the model stops *)
(* there.                                                                  *)
(***************************************************************************)
EXTENDS Integers, FiniteSets

CONSTANTS Conns,    \* connections that may be made
          Null

ASSUME ConnAssumption == Null \notin Conns /\ IsFiniteSet(Conns)

VARIABLES head, next,      \* g_clients_head and the next field of the nodes
          heap,            \* nodes that are allocated
          cnt,             \* g_clients_cnt
          open,            \* connections whose socket is open in the server
          gone,            \* connections whose peer has left
          pc, stdin,       \* where the loop is; whether stdin was ready too
          pclient, prev,   \* the cursor of the broadcast
          todo             \* open connections this chunk has not been offered to

list == <<head, next, heap, cnt, open>>
brVars == <<list, gone, pc, stdin, pclient, prev, todo>>

BrInit ==
  /\ head = Null /\ next = [c \in Conns |-> Null] /\ heap = {} /\ cnt = 0
  /\ open = {} /\ gone = {}
  /\ pc = "select" /\ stdin = FALSE
  /\ pclient = Null /\ prev = Null /\ todo = {}

(* select returns with one or both descriptors ready; the new connection   *)
(* is handled before the input.  EINTR, failure and timeout only loop.     *)
Select ==
  /\ pc = "select"
  /\ \E listening, input \in BOOLEAN :
       /\ listening \/ input
       /\ stdin' = input
       /\ pc' = IF listening THEN "accept" ELSE "read"
  /\ UNCHANGED <<list, gone, pclient, prev, todo>>

Accept ==
  /\ pc = "accept"
  /\ \E c \in Conns \ heap :
       /\ c \notin gone
       /\ next' = [next EXCEPT ![c] = head]
       /\ head' = c /\ cnt' = cnt + 1
       /\ heap' = heap \cup {c} /\ open' = open \cup {c}
  /\ pc' = IF stdin THEN "read" ELSE "select"
  /\ UNCHANGED <<gone, stdin, pclient, prev, todo>>

(* accept fails: start over, the input is looked at next time.             *)
AcceptFails ==
  /\ pc = "accept"
  /\ pc' = "select" /\ stdin' = FALSE
  /\ UNCHANGED <<list, gone, pclient, prev, todo>>

(* A chunk to broadcast, or nothing (end of input, error).                 *)
ReadStdin ==
  /\ pc = "read"
  /\ stdin' = FALSE
  /\ \/ pc' = "write" /\ pclient' = head /\ prev' = Null /\ todo' = open
     \/ pc' = "select" /\ UNCHANGED <<pclient, prev, todo>>
  /\ UNCHANGED <<list, gone>>

BroadcastEnds ==
  /\ pc = "write" /\ pclient = Null
  /\ pc' = "select" /\ prev' = Null
  /\ UNCHANGED <<list, gone, stdin, pclient, todo>>

(* The cursor points to memory that has been freed: anything may follow.   *)
UseAfterFree ==
  /\ pc = "write" /\ pclient # Null /\ pclient \notin heap
  /\ pc' = "undefined"
  /\ UNCHANGED <<list, gone, stdin, pclient, prev, todo>>

(* write(2) to a live peer succeeds; to one that has left it may, once     *)
(* more, succeed too.                                                      *)
WriteOk ==
  /\ pc = "write" /\ pclient \in heap
  /\ todo' = todo \ {pclient}
  /\ prev' = pclient
  /\ pclient' = next[pclient]
  /\ UNCHANGED <<list, gone, pc, stdin>>

(* The failed client is unlinked and closed, then the cursor moves on and  *)
(* free is called on where it has moved to.                                *)
UnlinkHead == head' = next[pclient] /\ next' = next       \* mutant: prev ignored
Unlink ==
  IF prev # Null THEN next' = [next EXCEPT ![prev] = next[pclient]] /\ head' = head
                 ELSE head' = next[pclient] /\ next' = next

WriteFailsUncounted ==                             \* mutant: counter kept
  /\ pc = "write" /\ pclient \in heap /\ pclient \in gone
  /\ Unlink
  /\ open' = open \ {pclient}
  /\ todo' = todo \ {pclient}
  /\ pclient' = next[pclient]
  /\ heap' = heap \ {next[pclient]}
  /\ cnt' = cnt
  /\ UNCHANGED <<gone, pc, stdin, prev>>
WriteFailsSkipping ==                              \* mutant: no else, advances again
  /\ pc = "write" /\ pclient \in heap /\ pclient \in gone
  /\ Unlink
  /\ open' = open \ {pclient}
  /\ todo' = todo \ {pclient}
  /\ prev' = next[pclient]
  /\ pclient' = IF next[pclient] = Null THEN Null ELSE next[next[pclient]]
  /\ heap' = heap \ {next[pclient]}
  /\ cnt' = cnt - 1
  /\ UNCHANGED <<gone, pc, stdin>>
WriteFails ==
  /\ pc = "write" /\ pclient \in heap /\ pclient \in gone
  /\ Unlink
  /\ open' = open \ {pclient}
  /\ todo' = todo \ {pclient}
  /\ pclient' = next[pclient]
  /\ heap' = heap \ {next[pclient]}
  /\ cnt' = cnt - 1
  /\ UNCHANGED <<gone, pc, stdin, prev>>

PeerLeaves ==
  /\ \E c \in open \ gone : gone' = gone \cup {c}
  /\ UNCHANGED <<list, pc, stdin, pclient, prev, todo>>

BrNext ==
  \/ Select \/ Accept \/ AcceptFails \/ ReadStdin
  \/ BroadcastEnds \/ WriteOk \/ WriteFails \/ UseAfterFree
  \/ PeerLeaves

BrSpec == BrInit /\ [][BrNext]_brVars

(***************************************************************************)
(* Properties.                                                             *)
(***************************************************************************)
(* Types.                                                                  *)
BrTypeOK ==
  /\ head \in Conns \cup {Null} /\ next \in [Conns -> Conns \cup {Null}]
  /\ heap \subseteq Conns /\ open \subseteq Conns /\ gone \subseteq Conns /\ todo \subseteq Conns
  /\ cnt \in 0 .. Cardinality(Conns)
  /\ pc \in {"select", "accept", "read", "write", "undefined"} /\ stdin \in BOOLEAN
  /\ pclient \in Conns \cup {Null} /\ prev \in Conns \cup {Null}

(* Following next from head for as many steps as there are connections     *)
(* meets every connection that is open and no other, and ends: the links   *)
(* survive accepts and deletions at the head, in the middle and at the     *)
(* end, up to a use of freed memory.                                       *)
Chain[n \in 0 .. Cardinality(Conns)] ==
  IF n = 0 THEN head ELSE IF Chain[n - 1] = Null THEN Null ELSE next[Chain[n - 1]]
Reachable == {Chain[n] : n \in 0 .. Cardinality(Conns)} \ {Null}
ListIsOpenClients == BrTypeOK /\ Reachable = open /\ Chain[Cardinality(Conns)] = Null

(* g_clients_cnt is the number of open clients.                            *)
CountsClients == cnt = Cardinality(open)

(* While a chunk goes round, the clients it has not been offered to are    *)
(* those the links lead to from the cursor on, also when a client has just *)
(* been deleted with others behind it; and none is left when the loop      *)
(* ends.  Up to a use of freed memory: a round that comes to its end has   *)
(* deleted the last client of the list at most.                            *)
LeftFrom(n) == {Chain[m] : m \in n .. Cardinality(Conns)} \ {Null}
EveryClientServed ==
  /\ pc = "write" => \E n \in DOMAIN Chain : Chain[n] = pclient /\ todo = LeftFrom(n)
  /\ pc = "select" => todo = {}

(* "delete client": only a client whose write failed is deleted, so what   *)
(* is on the list has its node.                                            *)
DeletesOnlyTheFailed == open \subseteq heap
=============================================================================
