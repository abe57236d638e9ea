------------------------------- MODULE MinHeap -------------------------------
(***************************************************************************)
(* The min-heap of math/min_heap.c: an array of pointers to items, each of *)
(* which knows its own index, so that it can be erased or moved when its   *)
(* value changes.                                                          *)
(*                                                                         *)
(* A call opens a hole and one iteration of shift_up or shift_down is one  *)
(* step.  shift_up_unconditional is shift_up: the test its first iteration *)
(* leaves out is the one its callers have just made.                       *)
(***************************************************************************)
EXTENDS Integers, FiniteSets

CONSTANTS Items, Values,
          FirstAlloc,    \* slots reserved at first, 8 in the code
          Null

ASSUME MinHeapAssumption ==
  /\ IsFiniteSet(Items) /\ Null \notin Items
  /\ Values \subseteq Int /\ FirstAlloc \in Nat \ {0}

VARIABLES p, n, a,          \* min_heap_t
          value, idx,       \* value and min_heap_idx of each item
          pc, hole, e,      \* the shift under way
          out,              \* the item pop or erase takes out, or Null
          ret               \* what pop returned

heap == <<p, n, a>>
vars == <<heap, value, idx, pc, hole, e, out, ret>>

Slots == 0 .. Cardinality(Items) - 1
Parent(i) == (i - 1) \div 2
Greater(x, y) == value[x] > value[y]

(* min_heap_ctor_, min_heap_elem_init_                                     *)
Init ==
  /\ p = [i \in Slots |-> Null] /\ n = 0 /\ a = 0
  /\ value \in [Items -> Values] /\ idx = [x \in Items |-> -1]
  /\ pc = "idle" /\ hole = 0 /\ e = Null /\ out = Null /\ ret = Null

Reserve == a' = IF a >= n + 1 THEN a ELSE IF a = 0 THEN FirstAlloc ELSE 2 * a

Shift(kind, h, x) == pc' = kind /\ hole' = h /\ e' = x

(* An item outside the heap is given a value and pushed.  When realloc     *)
(* fails nothing changes.                                                  *)
Push(x) ==
  /\ pc = "idle" /\ idx[x] = -1
  /\ \E v \in Values : value' = [value EXCEPT ![x] = v]
  /\ Reserve
  /\ n' = n + 1
  /\ Shift("up", n, x)
  /\ out' = Null /\ ret' = Null
  /\ UNCHANGED <<p, idx>>

PopLast ==                                        \* mutant: item not remembered
  /\ pc = "idle" /\ n > 0
  /\ n' = n - 1
  /\ Shift("down", 0, p[n - 1])
  /\ out' = Null /\ ret' = p[0]
  /\ UNCHANGED <<p, a, value, idx>>
Pop ==
  /\ pc = "idle" /\ n > 0
  /\ n' = n - 1
  /\ Shift("down", 0, p[n - 1])
  /\ out' = p[0] /\ ret' = p[0]
  /\ UNCHANGED <<p, a, value, idx>>

(* The last item takes the place of the erased one.                        *)
EraseDown(x) ==                                   \* mutant: never shifts up
  /\ pc = "idle" /\ idx[x] # -1
  /\ n' = n - 1
  /\ Shift("down", idx[x], p[n - 1])
  /\ out' = x /\ ret' = Null
  /\ UNCHANGED <<p, a, value, idx>>
Erase(x) ==
  /\ pc = "idle" /\ idx[x] # -1
  /\ n' = n - 1
  /\ Shift(IF idx[x] > 0 /\ Greater(p[Parent(idx[x])], p[n - 1]) THEN "up" ELSE "down",
           idx[x], p[n - 1])
  /\ out' = x /\ ret' = Null
  /\ UNCHANGED <<p, a, value, idx>>

(* The caller has changed the value of an item in the heap.                *)
Adjust(x) ==
  /\ pc = "idle" /\ idx[x] # -1
  /\ \E v \in Values :
       /\ value' = [value EXCEPT ![x] = v]
       /\ Shift(IF idx[x] > 0 /\ value[p[Parent(idx[x])]] > v THEN "up" ELSE "down",
                idx[x], x)
  /\ out' = Null /\ ret' = Null
  /\ UNCHANGED <<heap, idx>>

-----------------------------------------------------------------------------
(* s->p[hole] = s->p[i]                                                    *)
Fill(i) ==
  /\ p' = [p EXCEPT ![hole] = p[i]]
  /\ idx' = [idx EXCEPT ![p[i]] = hole]
  /\ hole' = i
  /\ UNCHANGED <<n, a, value, pc, e, out, ret>>

(* s->p[hole] = e, and the item that leaves gets the index -1.             *)
Place ==
  /\ p' = [p EXCEPT ![hole] = e]
  /\ idx' = [x \in Items |-> IF x = out THEN -1 ELSE IF x = e THEN hole ELSE idx[x]]
  /\ pc' = "idle"
  /\ e' = Null /\ out' = Null /\ hole' = 0
  /\ UNCHANGED <<n, a, value, ret>>

Rises == hole > 0 /\ Greater(p[Parent(hole)], e)

LastChild == 2 * (hole + 1)
MinChildRight == IF LastChild = n THEN LastChild - 1 ELSE LastChild   \* mutant: no choice
MinChild == IF LastChild = n \/ Greater(p[LastChild], p[LastChild - 1])
              THEN LastChild - 1 ELSE LastChild
Sinks == LastChild <= n /\ Greater(e, p[MinChild])

UpMove    == pc = "up" /\ Rises /\ Fill(Parent(hole))
UpPlace   == pc = "up" /\ ~Rises /\ Place
DownMove  == pc = "down" /\ Sinks /\ Fill(MinChild)
DownPlace == pc = "down" /\ ~Sinks /\ Place

Next ==
  \/ \E x \in Items : Push(x) \/ Erase(x) \/ Adjust(x)
  \/ Pop
  \/ UpMove \/ UpPlace \/ DownMove \/ DownPlace

Spec == Init /\ [][Next]_vars

-----------------------------------------------------------------------------
(* Types; no index ever reaches past the reserved slots.                   *)
TypeOK ==
  /\ p \in [Slots -> Items \cup {Null}] /\ n \in 0 .. Cardinality(Items) /\ a \in Nat
  /\ n <= a /\ (pc # "idle" => hole < a)
  /\ value \in [Items -> Values] /\ idx \in [Items -> -1 .. Cardinality(Items)]
  /\ pc \in {"idle", "up", "down"} /\ hole \in Nat
  /\ e \in Items \cup {Null} /\ out \in Items \cup {Null} /\ ret \in Items \cup {Null}

(* Between calls no item is smaller than its parent: one shift, up or      *)
(* down, is enough after any erase or change of value.                     *)
HeapOrdered ==
  pc = "idle" => \A i \in 1 .. n - 1 : value[p[Parent(i)]] <= value[p[i]]

(* Between calls every item in the heap knows its slot, and only items in  *)
(* the heap have one: what erase and adjust rely on.                       *)
BackPointers ==
  pc = "idle" =>
    /\ \A i \in 0 .. n - 1 : p[i] \in Items /\ idx[p[i]] = i
    /\ \A x \in Items : idx[x] # -1 => idx[x] \in 0 .. n - 1 /\ p[idx[x]] = x

(* The heap is a priority queue; a call takes effect when it is made.      *)
Inside == LET rest == {p[i] : i \in 0 .. n - 1}
              shifted == {p[i] : i \in (0 .. n - 1) \ {hole}} \cup {e}
          IN  IF pc = "idle" THEN rest ELSE shifted \ {out}
Queue == INSTANCE PriorityQueue WITH inside <- Inside
ImplementsQueue == Queue!QueueSpec
=============================================================================
