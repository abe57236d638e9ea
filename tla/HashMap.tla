------------------------------ MODULE HashMap ------------------------------
(***************************************************************************)
(* The hash map of math/hashmap.c_: open addressing, linear probing over   *)
(* at most ChainLength slots, doubling when the map is half full or a      *)
(* probe finds no slot.  The doubling puts every element again, through    *)
(* hashmap_put itself, which may have to double once more: the puts under  *)
(* way are a stack, and calloc may fail at every level of it.              *)
(***************************************************************************)
EXTENDS Integers, Sequences, FiniteSets

CONSTANTS Keys, Values,
          Hash,          \* the mixed crc32 of each key
          ChainLength,   \* HMAP_CHAIN_LENGTH, 8 in the code
          InitialSize,   \* HMAP_INITIAL_SIZE, 256 in the code
          MaxTable,      \* bound: the largest table there is memory for
          Null

ASSUME HashMapAssumption ==
  /\ Hash \in [Keys -> Nat]
  /\ ChainLength \in Nat \ {0} /\ InitialSize \in Nat \ {0} /\ MaxTable \in Nat /\ InitialSize <= MaxTable
  /\ Null \notin Keys /\ Null \notin Values

VARIABLES table_size, size, elems,   \* hashmap_map_t
          stack,                     \* the calls of hashmap_put under way
          pc,
          map,                       \* history: the value put last for each key
          torn,                      \* history: a put failed half-way through a rehash
          holed                      \* history: a key has been removed

vars == <<table_size, size, elems, stack, pc, map, torn, holed>>

unused_0 == [used |-> FALSE, key |-> Null, data |-> Null]
Cleared(n) == [i \in 0 .. n - 1 |-> unused_0]

(* hashmap_create *)
Init ==
  /\ table_size = InitialSize /\ size = 0 /\ elems = Cleared(InitialSize)
  /\ stack = <<>> /\ pc = "idle"
  /\ map = [k \in Keys |-> Null] /\ torn = FALSE /\ holed = FALSE

(* The slots a probe for k looks at, in order.                             *)
Slot(k, i) == (Hash[k] + i) % table_size
Steps == 0 .. ChainLength - 1
First(S) == CHOOSE i \in S : \A j \in S : i <= j

Holds(k, i) == elems[Slot(k, i)].used /\ elems[Slot(k, i)].key = k
UsableBlind(k, i) == ~elems[Slot(k, i)].used              \* mutant: key not compared
Usable(k, i) == ~elems[Slot(k, i)].used \/ Holds(k, i)

(* _hashmap_hash: HMAP_E_OVERFLOW, or the first usable slot.               *)
Full == size >= table_size \div 2
Overflow(k) == Full \/ ~ \E i \in Steps : Usable(k, i)
Place(k) == Slot(k, First({i \in Steps : Usable(k, i)}))

(* What hashmap_get returns: Null for HMAP_E_NOTFOUND.                     *)
Get(k) == LET S == {i \in Steps : Holds(k, i)}
          IN  IF S = {} THEN Null ELSE elems[Slot(k, First(S))].data

-----------------------------------------------------------------------------
Top == stack[Len(stack)]
Rest == SubSeq(stack, 1, Len(stack) - 1)

Call(k, v) == [key |-> k, val |-> v, old |-> <<>>, i |-> 0]

Put(k, v) ==
  /\ pc = "idle"
  /\ stack' = <<Call(k, v)>> /\ pc' = "hash"
  /\ UNCHANGED <<table_size, size, elems, map, torn, holed>>

(* There is a place: the pair is stored and this call of put returns, to   *)
(* the caller or to the rehash that made it.                               *)
Store ==
  /\ pc = "hash" /\ ~Overflow(Top.key)
  /\ elems' = [elems EXCEPT ![Place(Top.key)] =
                 [used |-> TRUE, key |-> Top.key, data |-> Top.val]]
  /\ size' = size + 1
  /\ stack' = Rest
  /\ IF Len(stack) = 1
       THEN pc' = "idle" /\ map' = [map EXCEPT ![Top.key] = Top.val]
       ELSE pc' = "rehash" /\ map' = map
  /\ UNCHANGED <<table_size, torn, holed>>

(* _hashmap_rehash up to its loop.                                         *)
Grow ==
  /\ pc = "hash" /\ Overflow(Top.key)
  /\ 2 * table_size <= MaxTable
  /\ table_size' = 2 * table_size
  /\ elems' = Cleared(2 * table_size) /\ size' = 0
  /\ stack' = [stack EXCEPT ![Len(stack)].old = elems, ![Len(stack)].i = 0]
  /\ pc' = "rehash"
  /\ UNCHANGED <<map, torn, holed>>

(* calloc fails: HMAP_E_OUTMEM is returned through every put and rehash    *)
(* under way, and what those had still to put again is lost.               *)
GrowFails ==
  /\ pc = "hash" /\ Overflow(Top.key)
  /\ stack' = <<>> /\ pc' = "idle"
  /\ torn' = (torn \/ Len(stack) > 1)
  /\ UNCHANGED <<table_size, size, elems, map, holed>>

(* The loop of the rehash: the next used element of the old table is put   *)
(* again; at the end the old table is freed and the probe repeated.        *)
LeftShort ==                                              \* mutant: last slot missed
  {j \in DOMAIN Top.old : j >= Top.i /\ j + 1 \in DOMAIN Top.old /\ Top.old[j].used}
Left == {j \in DOMAIN Top.old : j >= Top.i /\ Top.old[j].used}

PutAgain ==
  /\ pc = "rehash" /\ Left # {}
  /\ LET j == First(Left) IN
       stack' = Append([stack EXCEPT ![Len(stack)].i = j + 1],
                       Call(Top.old[j].key, Top.old[j].data))
  /\ pc' = "hash"
  /\ UNCHANGED <<table_size, size, elems, map, torn, holed>>

RehashDone ==
  /\ pc = "rehash" /\ Left = {}
  /\ stack' = [stack EXCEPT ![Len(stack)].old = <<>>]
  /\ pc' = "hash"
  /\ UNCHANGED <<table_size, size, elems, map, torn, holed>>

Blanked(k) == {i \in Steps : Holds(k, i)}
RemoveUnchecked(k) ==                                     \* mutant: counts misses
  /\ pc = "idle"
  /\ elems' = IF Blanked(k) = {} THEN elems
              ELSE [elems EXCEPT ![Slot(k, First(Blanked(k)))] = unused_0]
  /\ size' = size - 1
  /\ map' = [map EXCEPT ![k] = Null] /\ holed' = TRUE
  /\ UNCHANGED <<table_size, stack, pc, torn>>
(* hashmap_remove: the first slot that holds the key is blanked; a miss    *)
(* changes nothing.                                                        *)
Remove(k) ==
  /\ pc = "idle"
  /\ \E i \in Blanked(k) :
       /\ \A j \in Blanked(k) : i <= j
       /\ elems' = [elems EXCEPT ![Slot(k, i)] = unused_0]
  /\ size' = size - 1
  /\ map' = [map EXCEPT ![k] = Null] /\ holed' = TRUE
  /\ UNCHANGED <<table_size, stack, pc, torn>>

(* hashmap_destroy, and a new hashmap_create.                              *)
Recreate ==
  /\ pc = "idle"
  /\ table_size' = InitialSize /\ size' = 0 /\ elems' = Cleared(InitialSize)
  /\ map' = [k \in Keys |-> Null] /\ torn' = FALSE /\ holed' = FALSE
  /\ UNCHANGED <<stack, pc>>

Next ==
  \/ \E k \in Keys, v \in Values : Put(k, v)
  \/ Store \/ Grow \/ GrowFails \/ PutAgain \/ RehashDone
  \/ \E k \in Keys : Remove(k)
  \/ Recreate

Spec == Init /\ [][Next]_vars

-----------------------------------------------------------------------------
Used == {i \in 0 .. table_size - 1 : elems[i].used}

(* What hashmap_iterate shows the callback.                                *)
Iterated == IF size <= 0 THEN {} ELSE {elems[i].key : i \in Used}

(* Types; the size never passes half of the table.                         *)
TypeOK ==
  /\ table_size \in InitialSize .. MaxTable
  /\ size \in 0 .. table_size \div 2
  /\ elems \in [0 .. table_size - 1 ->
                 {unused_0} \cup [used : {TRUE}, key : Keys, data : Values]]
  /\ \A f \in DOMAIN stack : stack[f].key \in Keys /\ stack[f].val \in Values
  /\ pc \in {"idle", "hash", "rehash"} /\ (pc = "idle") = (stack = <<>>)
  /\ map \in [Keys -> Values \cup {Null}] /\ torn \in BOOLEAN /\ holed \in BOOLEAN

(* size is never less than the number of used slots, through replacing     *)
(* puts, removals and rehashes: a probe is refused before the table can be *)
(* more than half full, and iterate never takes a filled map for empty.    *)
SizeCoversUsed == size >= Cardinality(Used)

(* A key that was put and not removed is found by get and visited by       *)
(* iterate, whatever collisions, holes and rehashes there were since,      *)
(* unless memory ran out inside a rehash.                                  *)
KeysReachable ==
  pc = "idle" /\ ~torn =>
    \A k \in Keys : map[k] # Null => Get(k) # Null /\ k \in Iterated

(* As long as no key has been removed the table is a map: get returns the  *)
(* value put last.                                                         *)
GetReturnsLatest ==
  pc = "idle" /\ ~torn /\ ~holed => \A k \in Keys : Get(k) = map[k]
=============================================================================
