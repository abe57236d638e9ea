---------------------------- MODULE PriorityQueue ----------------------------
(***************************************************************************)
(* What a min-heap of items promises: a set from which a least item can be *)
(* taken, any item erased, and any item given another value.               *)
(***************************************************************************)
EXTENDS Integers

CONSTANTS Items, Values, Null

VARIABLES inside,   \* the items in the queue
          value,    \* value[x] of every item
          ret       \* the item the last call returned, or Null

QueueInit ==
  /\ inside = {} /\ ret = Null
  /\ value \in [Items -> Values]

Push(x) ==
  /\ x \notin inside
  /\ inside' = inside \cup {x} /\ ret' = Null
  /\ \E v \in Values : value' = [value EXCEPT ![x] = v]

Adjust(x) ==
  /\ x \in inside
  /\ \E v \in Values : value' = [value EXCEPT ![x] = v]
  /\ ret' = Null
  /\ UNCHANGED inside

Pop(x) ==
  /\ x \in inside /\ \A y \in inside : value[x] <= value[y]
  /\ inside' = inside \ {x} /\ ret' = x
  /\ UNCHANGED value

Erase(x) ==
  /\ x \in inside
  /\ inside' = inside \ {x} /\ ret' = Null
  /\ UNCHANGED value

QueueNext == \E x \in Items : Push(x) \/ Adjust(x) \/ Pop(x) \/ Erase(x)

QueueSpec == QueueInit /\ [][QueueNext]_<<inside, value, ret>>
=============================================================================
