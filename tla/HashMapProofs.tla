--------------------------- MODULE HashMapProofs ---------------------------
(***************************************************************************)
(* hashmap.c_ for every hash function, table and memory limit: the size    *)
(* counter covers the used slots and stays within half of the table, no    *)
(* step leaves the table or the memory there is, keys that were put are    *)
(* found, and before the first removal with the value put last.            *)
(*                                                                         *)
(* A rehash puts through hashmap_put, which may rehash: what the map holds *)
(* is then spread over the table, the old tables of the calls under way    *)
(* and the pairs on their way between them.  The invariant is about all    *)
(* three together (Kept), whatever the depth.                              *)
(***************************************************************************)
EXTENDS HashMap, TLAPS, FiniteSetTheorems, SequenceTheorems, WellFoundedInduction

(* Shape: elems has one slot for each index of the table.                  *)
Shape ==
  /\ table_size \in Nat \ {0}
  /\ elems = [i \in 0 .. table_size - 1 |-> elems[i]]
  /\ size \in Nat

(* Counted: the counter covers the slots in use.                           *)
Counted == size >= Cardinality(Used)

(* Half: the counter never passes half of the table.                       *)
Half == size <= table_size \div 2

HInv == Shape /\ Counted /\ Half

(* Assigning to one slot leaves a function on the same slots.              *)
LEMMA ExceptShape ==
  ASSUME NEW S, NEW f, NEW g, NEW a, NEW b,
         f = [i \in S |-> f[i]], g = [f EXCEPT ![a] = b]
  PROVE  g = [i \in S |-> g[i]]
  BY SMT

(* The used slots are finitely many.                                       *)
LEMMA UsedFinite ==
  ASSUME Shape PROVE IsFiniteSet(Used) /\ Cardinality(Used) \in Nat
<1>1. IsFiniteSet(0 .. table_size - 1)
  BY FS_Interval DEF Shape
<1>2. Used \subseteq 0 .. table_size - 1
  BY DEF Used
<1> QED BY <1>1, <1>2, FS_Subset, FS_CardinalityType

(* A new or recreated table has no used slot.                              *)
LEMMA ClearedUnused ==
  ASSUME NEW n \in Nat \ {0}, table_size' = n, elems' = Cleared(n), size' = 0
  PROVE  HInv'
<1>1. Used' = {}
  BY DEF Used, Cleared, unused_0
<1>2. Cardinality(Used') = 0
  BY <1>1, FS_EmptySet
<1>3. Shape'
  BY DEF Shape, Cleared
<1>4. Half'
  <2>1. n \div 2 \in Nat
    BY SMT
  <2> QED BY <2>1 DEF Half
<1> QED BY <1>2, <1>3, <1>4 DEF HInv, Counted

(* Storing at any slot makes at most one more slot used.                   *)
LEMMA StoreCounts ==
  ASSUME HInv, Store PROVE HInv'
<1> DEFINE p == Place(Top.key)
<1> USE DEF HInv
<1>1. Shape'
  <2>1. elems' = [i \in 0 .. table_size - 1 |-> elems'[i]]
    BY ExceptShape DEF Store, Shape
  <2> QED BY <2>1 DEF Store, Shape
<1>2. Used' \subseteq Used \cup {p}
  BY DEF Used, Store, Shape
<1>3. IsFiniteSet(Used) /\ Cardinality(Used) \in Nat
  BY UsedFinite
<1>4. /\ IsFiniteSet(Used \cup {p})
      /\ Cardinality(Used \cup {p}) \in Nat
      /\ Cardinality(Used \cup {p}) <= Cardinality(Used) + 1
  BY <1>3, FS_AddElement, FS_CardinalityType
<1>5. Cardinality(Used') <= Cardinality(Used \cup {p}) /\ Cardinality(Used') \in Nat
  BY <1>2, <1>4, FS_Subset, FS_CardinalityType
<1>6. Counted'
  BY <1>3, <1>4, <1>5 DEF Counted, Store, Shape
<1>7. Half'
  <2>1. size < table_size \div 2
    BY SMT DEF Store, Overflow, Full, Shape
  <2>2. table_size \div 2 \in Nat
    BY SMT DEF Shape
  <2> QED BY <2>1, <2>2 DEF Half, Store, Shape
<1> QED BY <1>1, <1>6, <1>7

(* Removing blanks a slot that was used.                                   *)
LEMMA RemoveCounts ==
  ASSUME HInv, NEW k \in Keys, Remove(k) PROVE HInv'
<1> USE DEF HInv
<1>1. PICK i \in Blanked(k) : elems' = [elems EXCEPT ![Slot(k, i)] = unused_0]
  BY DEF Remove
<1> DEFINE s == Slot(k, i)
<1>2. s \in 0 .. table_size - 1
  <2>1. Hash[k] + i \in Nat
    BY <1>1, HashMapAssumption DEF Blanked, Steps
  <2> HIDE DEF HInv
  <2>2. table_size \in Nat \ {0}
    BY DEF HInv, Shape
  <2> QED BY <2>1, <2>2, SMT DEF Slot
<1>3. elems[s].used
  BY <1>1 DEF Blanked, Holds
<1>4. s \in Used
  BY <1>2, <1>3 DEF Used
<1>5. Used' = Used \ {s}
  BY <1>1, <1>2 DEF Used, Remove, Shape, unused_0
<1>6. IsFiniteSet(Used) /\ Cardinality(Used) \in Nat
  BY UsedFinite
<1>7. Cardinality(Used') = Cardinality(Used) - 1
  BY <1>4, <1>5, <1>6, FS_RemoveElement
<1>8. Cardinality(Used) # 0
  BY <1>4, <1>6, FS_EmptySet
<1>9. size' = size - 1 /\ size >= 1
  BY <1>6, <1>8 DEF Remove, Counted, Shape
<1>10. Shape'
  <2>1. elems' = [j \in 0 .. table_size - 1 |-> elems'[j]]
    BY <1>1, ExceptShape DEF Shape
  <2> QED BY <1>9, <2>1 DEF Shape, Remove
<1>11. Counted'
  BY <1>6, <1>7, <1>9 DEF Counted, Shape
<1>12. Half'
  <2>1. table_size \div 2 \in Nat
    BY SMT DEF Shape
  <2> QED BY <1>9, <2>1 DEF Half, Remove, Shape
<1> QED BY <1>10, <1>11, <1>12

(* Init: an empty table.                                                   *)
LEMMA Initial == Init => HInv
<1> SUFFICES ASSUME Init PROVE HInv
  OBVIOUS
<1>1. Used = {}
  BY DEF Init, Used, Cleared, unused_0
<1>2. Cardinality(Used) = 0
  BY <1>1, FS_EmptySet
<1>3. Shape
  BY HashMapAssumption DEF Init, Shape, Cleared
<1>4. Half
  <2>1. InitialSize \div 2 \in Nat
    BY HashMapAssumption, SMT
  <2> QED BY <2>1 DEF Half, Init
<1> QED BY <1>2, <1>3, <1>4 DEF HInv, Counted, Init

(* Every step keeps HInv; those that matter store or free a slot, or       *)
(* change the table.                                                       *)
LEMMA Inductive == HInv /\ [Next]_vars => HInv'
<1> SUFFICES ASSUME HInv, [Next]_vars PROVE HInv'
  OBVIOUS
<1> DEFINE Same == UNCHANGED <<table_size, size, elems>>
<1>1. ASSUME Same PROVE HInv'
  BY <1>1 DEF HInv, Shape, Counted, Half, Used
<1>2. ASSUME NEW k \in Keys, NEW v \in Values, Put(k, v) PROVE HInv'
  BY <1>1, <1>2 DEF Put
<1>3. CASE Store
  BY <1>3, StoreCounts
<1>4. CASE Grow
  <2>1. 2 * table_size \in Nat \ {0}
    BY DEF HInv, Shape
  <2> QED BY <1>4, <2>1, ClearedUnused DEF Grow
<1>5. CASE GrowFails
  BY <1>1, <1>5 DEF GrowFails
<1>6. CASE PutAgain
  BY <1>1, <1>6 DEF PutAgain
<1>7. CASE RehashDone
  BY <1>1, <1>7 DEF RehashDone
<1>8. ASSUME NEW k \in Keys, Remove(k) PROVE HInv'
  BY <1>8, RemoveCounts
<1>9. CASE Recreate
  BY <1>9, ClearedUnused, HashMapAssumption DEF Recreate
<1>10. CASE UNCHANGED vars
  BY <1>1, <1>10 DEF vars
<1> QED BY <1>2, <1>3, <1>4, <1>5, <1>6, <1>7, <1>8, <1>9, <1>10 DEF Next

(* hashmap_size never falls short of the slots that are in use, for every  *)
(* hash function, table size, order of calls and failure of calloc, so     *)
(* the early return of hashmap_iterate never hides an element.             *)
THEOREM SizeCorrect == Spec => []SizeCoversUsed
<1>1. HInv => SizeCoversUsed
  BY DEF HInv, Counted, SizeCoversUsed
<1> QED BY <1>1, Initial, Inductive, PTL DEF Spec

(* At most half of the slots are in use, so a probe refused for want of    *)
(* room always has an unused slot somewhere in the table.                  *)
THEOREM HalfEmpty == Spec => [](2 * Cardinality(Used) <= table_size)
<1>1. HInv => 2 * Cardinality(Used) <= table_size
  <2> SUFFICES ASSUME HInv PROVE 2 * Cardinality(Used) <= table_size
    OBVIOUS
  <2>1. Cardinality(Used) \in Nat
    BY UsedFinite DEF HInv
  <2>2. 2 * (table_size \div 2) <= table_size /\ table_size \div 2 \in Nat
    BY SMT DEF HInv, Shape
  <2> QED BY <2>1, <2>2 DEF HInv, Shape, Counted, Half
<1> QED BY <1>1, Initial, Inductive, PTL DEF Spec
-----------------------------------------------------------------------------
(* Types.  What a rehash puts again was in a table before, so the elements *)
(* of the tables and the arguments of the calls under way are typed        *)
(* together.                                                               *)
Elem == {unused_0} \cup [used : {TRUE}, key : Keys, data : Values]
OldTables == UNION {[S -> Elem] : S \in SUBSET Int}
Frames == [key : Keys, val : Values, old : OldTables, i : Nat]

Typed ==
  /\ table_size \in InitialSize .. MaxTable
  /\ \A j \in 0 .. table_size - 1 : elems[j] \in Elem
  /\ stack \in Seq(Frames)
  /\ pc \in {"idle", "hash", "rehash"} /\ (pc = "idle" <=> stack = <<>>)
  /\ map \in [Keys -> Values \cup {Null}]
  /\ torn \in BOOLEAN /\ holed \in BOOLEAN

(* The top of the stack and what is below it.                              *)
LEMMA StackTop ==
  ASSUME NEW st \in Seq(Frames), st # <<>>
  PROVE  /\ Len(st) \in Nat \ {0} /\ st[Len(st)] \in Frames
         /\ SubSeq(st, 1, Len(st) - 1) \in Seq(Frames)
         /\ Len(SubSeq(st, 1, Len(st) - 1)) = Len(st) - 1
<1>1. Len(st) \in Nat \ {0}
  OBVIOUS
<1>2. \A j \in 1 .. Len(st) : st[j] \in Frames
  OBVIOUS
<1>3. \A j \in 1 .. Len(st) - 1 : st[j] \in Frames
  BY <1>1, <1>2
<1>4. /\ SubSeq(st, 1, Len(st) - 1) \in Seq(Frames)
      /\ Len(SubSeq(st, 1, Len(st) - 1)) =
           IF 1 <= Len(st) - 1 THEN Len(st) - 1 - 1 + 1 ELSE 0
  BY <1>1, <1>3, SubSeqProperties
<1>5. Len(SubSeq(st, 1, Len(st) - 1)) = Len(st) - 1
  <2>1. \A m \in Nat \ {0} : (IF 1 <= m - 1 THEN m - 1 - 1 + 1 ELSE 0) = m - 1
    OBVIOUS
  <2> QED BY <1>1, <1>4, <2>1, Zenon
<1>6. st[Len(st)] \in Frames
  BY <1>1, <1>2
<1> QED BY <1>1, <1>4, <1>5, <1>6

(* A fresh table holds nothing.                                            *)
LEMMA ClearedTyped ==
  ASSUME NEW m \in Nat, NEW j \in 0 .. m - 1 PROVE Cleared(m)[j] \in Elem
  BY DEF Cleared, Elem

(* The old table of the call on top may be replaced by any typed table.    *)
LEMMA OldReplaced ==
  ASSUME NEW st \in Seq(Frames), st # <<>>, NEW o \in OldTables, NEW k \in Nat
  PROVE  /\ [st EXCEPT ![Len(st)].old = o, ![Len(st)].i = k] \in Seq(Frames)
         /\ [st EXCEPT ![Len(st)].old = o] \in Seq(Frames)
         /\ [st EXCEPT ![Len(st)].i = k] \in Seq(Frames)
         /\ [st EXCEPT ![Len(st)].old = o, ![Len(st)].i = k] # <<>>
         /\ [st EXCEPT ![Len(st)].old = o] # <<>>
<1> DEFINE m == Len(st)
<1>1. m \in Nat \ {0} /\ st[m] \in Frames
  BY StackTop
<1>2. /\ [st[m] EXCEPT !.old = o, !.i = k] \in Frames
      /\ [st[m] EXCEPT !.old = o] \in Frames
      /\ [st[m] EXCEPT !.i = k] \in Frames
  BY <1>1 DEF Frames
<1>3. \A f \in Frames : [st EXCEPT ![m] = f] \in Seq(Frames) /\ Len([st EXCEPT ![m] = f]) = m
  BY <1>1
<1>4. /\ [st EXCEPT ![m].old = o, ![m].i = k] = [st EXCEPT ![m] = [st[m] EXCEPT !.old = o, !.i = k]]
      /\ [st EXCEPT ![m].old = o] = [st EXCEPT ![m] = [st[m] EXCEPT !.old = o]]
      /\ [st EXCEPT ![m].i = k] = [st EXCEPT ![m] = [st[m] EXCEPT !.i = k]]
  BY <1>1
<1> QED BY <1>1, <1>2, <1>3, <1>4

(* A set of natural numbers has a least one: First is what it says.        *)
LEMMA FirstIsMin ==
  ASSUME NEW T \in SUBSET Nat, T # {}
  PROVE  First(T) \in T /\ \A y \in T : First(T) <= y
<1>1. PICK x \in T : \A y \in T : ~ (<<y, x>> \in OpToRel(<, Nat))
  BY WFMin, NatLessThanWellFounded, Zenon
<1>2. \A y \in T : <<y, x>> \in Nat \X Nat /\ <<y, x>>[1] = y /\ <<y, x>>[2] = x
  OBVIOUS
<1>3. \A y \in T : ~(y < x)
  BY <1>1, <1>2 DEF OpToRel
<1>4. \A y \in T : x <= y
  BY <1>3
<1> QED BY <1>4 DEF First

(* Every step keeps the types: an index that is stored is one of the       *)
(* table, because a probe stops at a slot of the table.                    *)
LEMMA TypedStep == HInv /\ Typed /\ [Next]_vars => Typed'
<1> SUFFICES ASSUME HInv, Typed, [Next]_vars PROVE Typed'
  OBVIOUS
<1> DEFINE SameTable == UNCHANGED <<table_size, elems>>
           SameHistory == UNCHANGED <<map, torn, holed>>
           Table == table_size' \in InitialSize .. MaxTable
                    /\ \A j \in 0 .. table_size' - 1 : elems'[j] \in Elem
           History == map' \in [Keys -> Values \cup {Null}]
                      /\ torn' \in BOOLEAN /\ holed' \in BOOLEAN
           Calls == /\ stack' \in Seq(Frames) /\ pc' \in {"idle", "hash", "rehash"}
                    /\ (pc' = "idle" <=> stack' = <<>>)
<1>1. ASSUME SameTable PROVE Table
  BY <1>1 DEF Typed
<1>2. ASSUME SameHistory PROVE History
  BY <1>2 DEF Typed
<1>3. ASSUME Table, History, Calls PROVE Typed'
  BY <1>3 DEF Typed
<1>4. <<>> \in OldTables
  <2>1. <<>> \in [{} -> Elem] /\ {} \in SUBSET Int
    OBVIOUS
  <2> QED BY <2>1 DEF OldTables
<1>5. pc # "idle" => /\ Len(stack) \in Nat \ {0} /\ Top \in Frames /\ stack # <<>>
                     /\ Rest \in Seq(Frames) /\ Len(Rest) = Len(stack) - 1
  BY StackTop DEF Typed, Top, Rest
<1>6. \A k \in Keys, v \in Values : Call(k, v) \in Frames
  BY <1>4 DEF Call, Frames
<1>7. ASSUME NEW k \in Keys, NEW v \in Values, Put(k, v) PROVE Typed'
  <2>1. Calls
    BY <1>6, <1>7 DEF Put
  <2> QED BY <1>1, <1>2, <1>3, <1>7, <2>1 DEF Put
<1>8. CASE Store
  <2>1. Top \in Frames /\ Len(stack) \in Nat \ {0} /\ Rest \in Seq(Frames)
        /\ Len(Rest) = Len(stack) - 1
    BY <1>5, <1>8 DEF Store
  <2>2. Top.key \in Keys /\ Top.val \in Values
    BY <2>1 DEF Frames
  <2> DEFINE r == [used |-> TRUE, key |-> Top.key, data |-> Top.val]
  <2>3. r \in Elem
    BY <2>2 DEF Elem
  <2>4. Table
    <3>1. \A j \in 0 .. table_size - 1 : elems'[j] = elems[j] \/ elems'[j] = r
      BY <1>8 DEF Store, HInv, Shape
    <3> QED BY <1>8, <2>3, <3>1 DEF Store, Typed
  <2>5. History
    BY <1>8, <2>2 DEF Store, Typed
  <2>6. Calls
    <3>1. stack' = Rest /\ pc' \in {"idle", "hash", "rehash"}
          /\ (pc' = "idle" <=> Len(stack) = 1)
      BY <1>8 DEF Store
    <3>2. Rest = <<>> <=> Len(Rest) = 0
      BY <2>1
    <3> QED BY <2>1, <3>1, <3>2
  <2> QED BY <1>3, <2>4, <2>5, <2>6
<1>9. CASE Grow
  <2>1. elems \in OldTables
    <3>1. elems \in [0 .. table_size - 1 -> Elem]
      BY DEF HInv, Shape, Typed
    <3>2. 0 .. table_size - 1 \in SUBSET Int
      OBVIOUS
    <3> QED BY <3>1, <3>2 DEF OldTables
  <2>2. Calls
    <3>1. stack # <<>> /\ stack \in Seq(Frames) /\ 0 \in Nat
      BY <1>5, <1>9 DEF Grow, Typed
    <3> QED BY <1>9, <2>1, <3>1, OldReplaced DEF Grow
  <2>3. table_size' = 2 * table_size /\ table_size' \in Nat /\ table_size' \in InitialSize .. MaxTable
    BY <1>9, HashMapAssumption DEF Grow, HInv, Shape, Typed
  <2>4. Table
    BY <1>9, <2>3, ClearedTyped DEF Grow
  <2> QED BY <1>2, <1>3, <1>9, <2>2, <2>4 DEF Grow
<1>10. CASE GrowFails
  <2>1. Calls /\ SameTable
    BY <1>10 DEF GrowFails
  <2>2. torn' \in BOOLEAN /\ holed' = holed /\ map' = map
    <3>1. (torn \/ Len(stack) > 1) \in BOOLEAN
      OBVIOUS
    <3> QED BY <1>10, <3>1 DEF GrowFails
  <2>3. History
    BY <2>2 DEF Typed
  <2> QED BY <1>1, <1>3, <2>1, <2>3
<1>11. CASE PutAgain
  <2>1. Top \in Frames /\ stack # <<>> /\ stack \in Seq(Frames)
    BY <1>5, <1>11 DEF PutAgain, Typed
  <2>2. Top.i \in Nat /\ Top.old \in OldTables
    BY <2>1 DEF Frames
  <2>3. PICK S \in SUBSET Int : Top.old \in [S -> Elem]
    BY <2>2 DEF OldTables
  <2>4. Left \in SUBSET Nat /\ Left # {}
    <3>1. DOMAIN Top.old = S
      BY <2>3
    <3>2. \A x \in Left : x \in Int /\ x >= Top.i
      BY <3>1 DEF Left
    <3>3. \A x \in Left : x \in Nat
      BY <2>2, <3>2
    <3> QED BY <1>11, <3>3 DEF PutAgain
  <2> DEFINE j == First(Left)
  <2>5. j \in Left /\ j \in Nat
    BY <2>4, FirstIsMin
  <2>6. Top.old[j] \in Elem /\ Top.old[j].used
    BY <2>3, <2>5 DEF Left
  <2>7. Top.old[j].key \in Keys /\ Top.old[j].data \in Values
    <3>1. ~unused_0.used
      BY DEF unused_0
    <3>2. Top.old[j] \in [used : {TRUE}, key : Keys, data : Values]
      BY <2>6, <3>1 DEF Elem
    <3> QED BY <3>2
  <2>8. [stack EXCEPT ![Len(stack)].i = j + 1] \in Seq(Frames)
    <3>1. j + 1 \in Nat
      BY <2>5
    <3> QED BY <2>1, <2>2, <3>1, OldReplaced
  <2>9. Call(Top.old[j].key, Top.old[j].data) \in Frames
    BY <1>6, <2>7
  <2>10. stack' = Append([stack EXCEPT ![Len(stack)].i = j + 1],
                         Call(Top.old[j].key, Top.old[j].data))
    BY <1>11 DEF PutAgain
  <2>11. stack' \in Seq(Frames) /\ stack' # <<>>
    BY <2>8, <2>9, <2>10
  <2>12. Calls
    BY <1>11, <2>11 DEF PutAgain
  <2> QED BY <1>1, <1>2, <1>3, <1>11, <2>12 DEF PutAgain
<1>12. CASE RehashDone
  <2>1. stack # <<>> /\ stack \in Seq(Frames) /\ 0 \in Nat
    BY <1>5, <1>12 DEF RehashDone, Typed
  <2>2. Calls
    BY <1>4, <1>12, <2>1, OldReplaced DEF RehashDone
  <2> QED BY <1>1, <1>2, <1>3, <1>12, <2>2 DEF RehashDone
<1>13. ASSUME NEW k \in Keys, Remove(k) PROVE Typed'
  <2>1. PICK b \in Blanked(k) : elems' = [elems EXCEPT ![Slot(k, b)] = unused_0]
    BY <1>13 DEF Remove
  <2>2. Table
    <3>1. \A j \in 0 .. table_size - 1 : elems'[j] = elems[j] \/ elems'[j] = unused_0
      BY <2>1 DEF HInv, Shape
    <3> QED BY <1>13, <3>1 DEF Remove, Typed, Elem
  <2>3. History /\ Calls
    BY <1>13 DEF Remove, Typed
  <2> QED BY <1>3, <2>2, <2>3
<1>14. CASE Recreate
  <2>1. Table
    <3>1. InitialSize \in Nat /\ InitialSize \in InitialSize .. MaxTable
      BY HashMapAssumption
    <3> QED BY <1>14, <3>1, ClearedTyped DEF Recreate
  <2>2. History /\ Calls
    BY <1>14 DEF Recreate, Typed
  <2> QED BY <1>3, <2>1, <2>2
<1>15. CASE UNCHANGED vars
  BY <1>15 DEF vars, Typed
<1> QED BY <1>7, <1>8, <1>9, <1>10, <1>11, <1>12, <1>13, <1>14, <1>15 DEF Next

(* Init: the types.                                                        *)
LEMMA InitialTyped == Init => Typed
<1> SUFFICES ASSUME Init PROVE Typed
  OBVIOUS
<1>1. InitialSize \in Nat /\ InitialSize \in InitialSize .. MaxTable
  BY HashMapAssumption
<1>2. \A j \in 0 .. table_size - 1 : elems[j] \in Elem
  BY <1>1, ClearedTyped DEF Init
<1>3. stack = <<>> /\ <<>> \in Seq(Frames) /\ pc = "idle"
      /\ map \in [Keys -> Values \cup {Null}]
  BY DEF Init
<1>4. torn \in BOOLEAN /\ holed \in BOOLEAN
  BY DEF Init
<1> QED BY <1>1, <1>2, <1>3, <1>4 DEF Init, Typed

(* The types, for every hash function and every failure of calloc: a       *)
(* rehash, however deep, puts again only what was put.                     *)
THEOREM TypesCorrect == Spec => []TypeOK
<1>1. Init => Typed
  BY InitialTyped
<1>2. HInv /\ Typed => TypeOK
  <2> SUFFICES ASSUME HInv, Typed PROVE TypeOK
    OBVIOUS
  <2>1. elems \in [0 .. table_size - 1 -> Elem]
    BY DEF HInv, Shape, Typed
  <2>2. size \in 0 .. table_size \div 2
    <3>1. table_size \div 2 \in Nat
      BY SMT DEF HInv, Shape
    <3> QED BY <3>1 DEF HInv, Shape, Half
  <2>3. \A f \in DOMAIN stack : stack[f].key \in Keys /\ stack[f].val \in Values
    <3>1. \A f \in DOMAIN stack : stack[f] \in Frames
      BY DEF Typed
    <3> QED BY <3>1 DEF Frames
  <2>4. (pc = "idle") = (stack = <<>>)
    BY DEF Typed
  <2> QED BY <2>1, <2>2, <2>3, <2>4 DEF TypeOK, Typed, Elem
<1>3. HInv /\ Typed /\ [Next]_vars => (HInv /\ Typed)'
  BY Inductive, TypedStep
<1> QED BY <1>1, <1>2, <1>3, Initial, PTL DEF Spec
-----------------------------------------------------------------------------
(***************************************************************************)
(* What the table and the calls under way keep: the elements of the table, *)
(* those that a rehash has still to put again, and those on their way from *)
(* an old table to the new one.                                            *)
(***************************************************************************)
Pair(f) == [used |-> TRUE, key |-> f.key, data |-> f.val]
Awaits(f, e) == \E j \in DOMAIN f.old : j >= f.i /\ f.old[j].used /\ e = f.old[j]
Kept(e) ==
  \/ \E s \in Used : e = elems[s]
  \/ \E f \in 1 .. Len(stack) : Awaits(stack[f], e)
  \/ \E f \in 2 .. Len(stack) : e = Pair(stack[f])

(* A call that probes has no old table: everything in it has been put      *)
(* again, or there was none.                                               *)
Probing == pc = "hash" => Top.old = <<>>

(* What was put and not removed is kept; and, before the first removal,    *)
(* nothing is kept but the latest.                                         *)
AllKept == ~torn => \A k \in Keys : map[k] # Null => \E e \in Elem : Kept(e) /\ e.key = k
Latest  == ~torn /\ ~holed => \A e \in Elem : Kept(e) => map[e.key] = e.data

(* A used slot is one that the probe for its key looks at; before the      *)
(* first removal every slot looked at earlier is used, and no key has two. *)
Placed == \A s \in Used : \E i \in Steps : Slot(elems[s].key, i) = s
Tight  == ~holed => \A s \in Used :
            \E i \in Steps : /\ Slot(elems[s].key, i) = s
                             /\ \A j \in 0 .. i - 1 : elems[Slot(elems[s].key, j)].used
Single == ~holed => \A s, t \in Used : elems[s].key = elems[t].key => s = t

Probes == Placed /\ Tight /\ Single
KInv == Probing /\ AllKept /\ Latest /\ Probes

(* A probe looks at slots of the table.                                    *)
LEMMA SlotInTable ==
  ASSUME Shape, NEW k \in Keys, NEW i \in Nat
  PROVE  Slot(k, i) \in 0 .. table_size - 1
<1>1. Hash[k] + i \in Nat
  BY HashMapAssumption
<1>2. table_size \in Nat \ {0}
  BY DEF Shape
<1> QED BY <1>1, <1>2, SMT DEF Slot

(* A used slot holds a key and a value.                                    *)
LEMMA UsedElem ==
  ASSUME Typed, NEW s \in Used
  PROVE  elems[s].key \in Keys /\ elems[s].data \in Values /\ elems[s].used
         /\ elems[s] \in Elem /\ s \in 0 .. table_size - 1
<1>1. s \in 0 .. table_size - 1 /\ elems[s] \in Elem /\ elems[s].used
  BY DEF Used, Typed
<1>2. ~unused_0.used
  BY DEF unused_0
<1>3. elems[s] \in [used : {TRUE}, key : Keys, data : Values]
  BY <1>1, <1>2 DEF Elem
<1> QED BY <1>1, <1>3

(* The place of a key: a slot of the table, the first in the probe that is *)
(* unused or holds the key.                                                *)
LEMMA PlaceFound ==
  ASSUME Shape, NEW k \in Keys, ~Overflow(k)
  PROVE  \E i \in Steps : /\ Place(k) = Slot(k, i) /\ Usable(k, i)
                          /\ \A j \in 0 .. i - 1 : ~Usable(k, j)
<1> DEFINE U == {i \in Steps : Usable(k, i)}
<1>1. U \in SUBSET Nat /\ U # {}
  BY HashMapAssumption DEF Overflow, Steps
<1> DEFINE i == First(U)
<1>2. i \in U /\ \A j \in U : i <= j
  BY <1>1, FirstIsMin
<1>3. \A j \in 0 .. i - 1 : ~Usable(k, j)
  <2> SUFFICES ASSUME NEW j \in 0 .. i - 1, Usable(k, j) PROVE FALSE
    OBVIOUS
  <2>1. i \in 0 .. ChainLength - 1 /\ ChainLength \in Nat
    BY <1>2, HashMapAssumption DEF Steps
  <2>2. j \in Steps
    BY <2>1 DEF Steps
  <2>3. j \in U
    BY <2>2
  <2>4. i <= j
    BY <1>2, <2>3
  <2> QED BY <2>1, <2>4
<1>4. Place(k) = Slot(k, i)
  BY DEF Place
<1> QED BY <1>2, <1>3, <1>4

(* What a store changes: the slot of the place holds the pair of the call. *)
LEMMA StoreEffect ==
  ASSUME HInv, Typed, Store
  PROVE  /\ Top \in Frames /\ Top.key \in Keys /\ Place(Top.key) \in 0 .. table_size - 1
         /\ elems'[Place(Top.key)] = Pair(Top)
         /\ \A s \in 0 .. table_size - 1 : s # Place(Top.key) => elems'[s] = elems[s]
         /\ Used' = Used \cup {Place(Top.key)}
<1>1. Top \in Frames
  BY StackTop DEF Store, Typed, Top
<1>2. Top.key \in Keys
  BY <1>1 DEF Frames
<1>3. PICK i \in Steps : Place(Top.key) = Slot(Top.key, i)
  BY <1>2, PlaceFound DEF HInv, Store
<1>4. i \in Nat
  BY HashMapAssumption DEF Steps
<1>5. Place(Top.key) \in 0 .. table_size - 1
  BY <1>2, <1>3, <1>4, SlotInTable DEF HInv
<1>6. /\ elems'[Place(Top.key)] = Pair(Top)
      /\ \A s \in 0 .. table_size - 1 : s # Place(Top.key) => elems'[s] = elems[s]
  BY <1>5 DEF Store, HInv, Shape, Pair
<1>7. Pair(Top).used
  BY DEF Pair
<1>8. Used' = Used \cup {Place(Top.key)}
  BY <1>5, <1>6, <1>7 DEF Used, Store
<1> QED BY <1>1, <1>2, <1>5, <1>6, <1>8

(* Before the first removal, the place of a key that the table holds is    *)
(* the slot that holds it.                                                 *)
LEMMA PlaceOfHeld ==
  ASSUME HInv, Typed, Probes, ~holed, NEW k \in Keys, ~Overflow(k),
         NEW s \in Used, elems[s].key = k
  PROVE  Place(k) = s
<1>1. PICK i \in Steps : /\ Place(k) = Slot(k, i) /\ Usable(k, i)
                         /\ \A j \in 0 .. i - 1 : ~Usable(k, j)
  BY PlaceFound DEF HInv
<1>2. PICK h \in Steps : /\ Slot(k, h) = s
                         /\ \A j \in 0 .. h - 1 : elems[Slot(k, j)].used
  BY DEF Probes, Tight
<1>3. i \in Nat /\ h \in Nat
  BY HashMapAssumption DEF Steps
<1>4. Usable(k, h)
  BY <1>2 DEF Usable, Holds, Used
<1>5. ~(h < i)
  BY <1>1, <1>3, <1>4
<1>6. CASE h = i
  BY <1>1, <1>2, <1>6
<1>7. CASE i < h
  <2>1. elems[Slot(k, i)].used
    BY <1>2, <1>3, <1>7
  <2>2. elems[Slot(k, i)].key = k
    BY <1>1, <2>1 DEF Usable, Holds
  <2>3. Slot(k, i) \in Used
    BY <1>3, <2>1, SlotInTable DEF Used, HInv
  <2> QED BY <1>1, <2>2, <2>3 DEF Probes, Single
<1> QED BY <1>3, <1>5, <1>6, <1>7

(* A store keeps the probes: the slots looked at in vain are in use.       *)
LEMMA StoreProbes ==
  ASSUME HInv, Typed, Probes, Store PROVE Probes'
<1> DEFINE P == Place(Top.key)
           T == 0 .. table_size - 1
<1>1. /\ Top.key \in Keys /\ P \in T /\ elems'[P] = Pair(Top)
      /\ \A s \in T : s # P => elems'[s] = elems[s]
      /\ Used' = Used \cup {P}
  BY StoreEffect
<1>2. table_size' = table_size /\ holed' = holed /\ ~Overflow(Top.key)
  BY DEF Store
<1>3. PICK i \in Steps : /\ P = Slot(Top.key, i) /\ Usable(Top.key, i)
                         /\ \A j \in 0 .. i - 1 : ~Usable(Top.key, j)
  BY <1>1, <1>2, PlaceFound DEF HInv
<1>4. elems'[P].key = Top.key /\ elems'[P].used
  BY <1>1 DEF Pair
<1>5. \A s \in T : elems[s].used => elems'[s].used
  BY <1>1, <1>4
<1>6. \A s \in Used : s \in T /\ elems[s].key \in Keys
  BY UsedElem
<1>7. \A k \in Keys, j \in Nat : Slot(k, j) \in T
  BY SlotInTable DEF HInv
<1>8. \A h \in Steps : \A j \in 0 .. h - 1 : h \in Nat /\ j \in Nat
  BY HashMapAssumption DEF Steps
<1>9. Steps' = Steps /\ \A h \in Steps : h \in Nat
  BY HashMapAssumption DEF Steps
<1> HIDE DEF P, T
<1>10. Placed'
  <2> SUFFICES ASSUME NEW s \in Used'
               PROVE  \E h \in Steps : Slot(elems'[s].key, h) = s
    BY <1>2, <1>9 DEF Placed, Slot
  <2>1. CASE s = P
    BY <1>1, <1>3, <1>4, <1>7, <1>9, <2>1
  <2>2. CASE s # P
    <3>1. s \in Used /\ elems'[s] = elems[s]
      BY <1>1, <1>6, <2>2
    <3>2. PICK h \in Steps : Slot(elems[s].key, h) = s
      BY <3>1 DEF Probes, Placed
    <3> QED BY <1>6, <1>7, <1>9, <3>1, <3>2
  <2> QED BY <2>1, <2>2
<1>11. Tight'
  <2> SUFFICES ASSUME ~holed, NEW s \in Used'
               PROVE  \E h \in Steps :
                        /\ Slot(elems'[s].key, h) = s
                        /\ \A j \in 0 .. h - 1 : elems'[Slot(elems'[s].key, j)].used
    BY <1>2, <1>9 DEF Tight, Slot
  <2>1. CASE s = P
    <3>1. \A j \in 0 .. i - 1 : elems[Slot(Top.key, j)].used
      BY <1>3 DEF Usable
    <3>2. \A j \in 0 .. i - 1 : elems'[Slot(Top.key, j)].used
      BY <1>1, <1>5, <1>7, <1>8, <3>1
    <3>3. Slot(Top.key, i) = s
      BY <1>1, <1>3, <1>7, <1>9, <2>1
    <3> QED BY <1>4, <2>1, <3>2, <3>3
  <2>2. CASE s # P
    <3>1. s \in Used /\ elems'[s] = elems[s] /\ elems[s].key \in Keys
      BY <1>1, <1>6, <2>2
    <3>2. PICK h \in Steps : /\ Slot(elems[s].key, h) = s
                             /\ \A j \in 0 .. h - 1 : elems[Slot(elems[s].key, j)].used
      BY <3>1 DEF Probes, Tight
    <3>3. Slot(elems'[s].key, h) = s
      BY <1>7, <1>9, <3>1, <3>2
    <3>4. \A j \in 0 .. h - 1 : elems'[Slot(elems'[s].key, j)].used
      BY <1>5, <1>7, <1>8, <3>1, <3>2
    <3> QED BY <3>3, <3>4
  <2> QED BY <2>1, <2>2
<1>12. Single'
  <2> SUFFICES ASSUME ~holed, NEW s \in Used', NEW t \in Used', elems'[s].key = elems'[t].key
               PROVE  s = t
    BY <1>2 DEF Single
  <2>1. \A u \in Used' : u # P => u \in Used /\ elems'[u] = elems[u]
    BY <1>1, <1>6
  <2>2. \A u \in Used : elems[u].key = Top.key => P = u
    BY <1>1, <1>2, PlaceOfHeld DEF P
  <2>3. CASE s # P /\ t # P
    BY <2>1, <2>3 DEF Probes, Single
  <2>4. CASE s = P \/ t = P
    BY <1>4, <2>1, <2>2, <2>4
  <2> QED BY <2>3, <2>4
<1> QED BY <1>10, <1>11, <1>12 DEF Probes

(* A table without a used slot breaks no rule of the probes.               *)
LEMMA EmptyProbes == ASSUME Used' = {} PROVE Probes'
BY DEF Probes, Placed, Tight, Single

(* A removal leaves the other slots where they were.                       *)
LEMMA RemoveProbes ==
  ASSUME HInv, Typed, Probes, NEW k \in Keys, Remove(k)
  PROVE  /\ Probes' /\ Used' \subseteq Used
         /\ \A s \in Used' : elems'[s] = elems[s]
         /\ \A s \in Used : elems[s].key # k => s \in Used'
<1>1. PICK i \in Blanked(k) : elems' = [elems EXCEPT ![Slot(k, i)] = unused_0]
  BY DEF Remove
<1>2. table_size' = table_size /\ holed'
  BY DEF Remove
<1>3. \A s \in 0 .. table_size - 1 :
        elems'[s] = IF s = Slot(k, i) THEN unused_0 ELSE elems[s]
  BY <1>1 DEF HInv, Shape
<1>4. Used' \subseteq Used /\ \A s \in Used' : elems'[s] = elems[s]
  BY <1>2, <1>3 DEF Used, unused_0
<1>5. \A s \in Used : elems[s].key # k => s \in Used'
  <2>1. elems[Slot(k, i)].key = k
    BY DEF Blanked, Holds
  <2> QED BY <1>2, <1>3, <2>1 DEF Used
<1>6. Placed'
  BY <1>2, <1>4 DEF Probes, Placed, Slot, Steps
<1> QED BY <1>2, <1>4, <1>5, <1>6 DEF Probes, Tight, Single

(* A new table has no used slot.                                           *)
LEMMA NewTable ==
  ASSUME NEW m \in Nat, table_size' = m, elems' = Cleared(m)
  PROVE  Used' = {}
BY DEF Used, Cleared, unused_0

(* Every step keeps the probes.                                            *)
LEMMA ProbesStep ==
  ASSUME HInv, Typed, Probes, [Next]_vars PROVE Probes'
<1>1. ASSUME UNCHANGED <<table_size, elems, holed>> PROVE Probes'
  BY <1>1 DEF Probes, Placed, Tight, Single, Used, Slot, Steps
<1>2. CASE Grow
  <2>1. 2 * table_size \in Nat
    BY DEF HInv, Shape
  <2> QED BY <1>2, <2>1, NewTable, EmptyProbes DEF Grow
<1>3. CASE Recreate
  <2>1. InitialSize \in Nat
    BY HashMapAssumption
  <2> QED BY <1>3, <2>1, NewTable, EmptyProbes DEF Recreate
<1>4. CASE Store
  BY <1>4, StoreProbes
<1>5. ASSUME NEW k \in Keys, Remove(k) PROVE Probes'
  BY <1>5, RemoveProbes
<1>6. ASSUME NEW k \in Keys, NEW v \in Values, Put(k, v) PROVE Probes'
  BY <1>1, <1>6 DEF Put
<1>7. CASE GrowFails \/ PutAgain \/ RehashDone \/ UNCHANGED vars
  BY <1>1, <1>7 DEF GrowFails, PutAgain, RehashDone, vars
<1> QED BY <1>2, <1>3, <1>4, <1>5, <1>6, <1>7 DEF Next

(* A call that has no old table awaits nothing.                            *)
LEMMA NothingAwaits == ASSUME NEW f, f.old = <<>>, NEW e PROVE ~Awaits(f, e)
<1>1. DOMAIN f.old = {}
  OBVIOUS
<1> QED BY <1>1 DEF Awaits

(* Between calls, and in a put that is not inside a rehash, everything is  *)
(* in the table.                                                           *)
LEMMA InTheTable ==
  ASSUME stack = <<>> \/ (pc = "hash" /\ Len(stack) = 1 /\ Probing), NEW e
  PROVE  Kept(e) <=> \E s \in Used : e = elems[s]
<1>1. CASE stack = <<>>
  <2>1. Len(stack) = 0
    BY <1>1
  <2> QED BY <2>1 DEF Kept
<1>2. CASE pc = "hash" /\ Len(stack) = 1 /\ Probing
  <2>1. ~Awaits(stack[1], e)
    BY <1>2, NothingAwaits DEF Probing, Top
  <2>2. 1 .. Len(stack) = {1} /\ 2 .. Len(stack) = {}
    BY <1>2
  <2> QED BY <2>1, <2>2 DEF Kept
<1> QED BY <1>1, <1>2

(* A put begins: nothing in it is of a rehash.                             *)
LEMMA PutKeeps ==
  ASSUME Typed, NEW k \in Keys, NEW v \in Values, Put(k, v)
  PROVE  Probing' /\ \A e : Kept(e)' <=> Kept(e)
<1>1. stack = <<>> /\ stack' = <<Call(k, v)>> /\ pc' = "hash" /\ Used' = Used /\ elems' = elems
  BY DEF Put, Typed, Used
<1>2. Len(stack') = 1 /\ stack'[1].old = <<>>
  BY <1>1 DEF Call
<1>3. Probing'
  BY <1>2 DEF Probing, Top
<1>4. \A e : Kept(e) <=> \E s \in Used : e = elems[s]
  BY <1>1, InTheTable
<1>5. ASSUME NEW e PROVE Kept(e)' <=> \E s \in Used' : e = elems'[s]
  <2>1. ~Awaits(stack'[1], e)
    BY <1>2, NothingAwaits
  <2>2. 1 .. Len(stack') = {1} /\ 2 .. Len(stack') = {}
    BY <1>2
  <2> QED BY <2>1, <2>2 DEF Kept, Awaits
<1> QED BY <1>1, <1>3, <1>4, <1>5

(* No table at all is such as a call may have as its old table.            *)
LEMMA NoTable == <<>> \in OldTables
<1>1. <<>> \in [{} -> Elem] /\ {} \in SUBSET Int
  OBVIOUS
<1> QED BY <1>1 DEF OldTables

(* The table in use is one that a call may keep as its old table.          *)
LEMMA TableIsOld == ASSUME HInv, Typed PROVE elems \in OldTables
<1>1. elems \in [0 .. table_size - 1 -> Elem]
  BY DEF HInv, Shape, Typed
<1>2. 0 .. table_size - 1 \in SUBSET Int
  OBVIOUS
<1> QED BY <1>1, <1>2 DEF OldTables

(* The call on top is replaced by another: those below stay.               *)
LEMMA TopReplaced ==
  ASSUME NEW st \in Seq(Frames), st # <<>>, NEW g \in Frames
  PROVE  /\ Len(st) \in Nat \ {0} /\ st[Len(st)] \in Frames
         /\ Len([st EXCEPT ![Len(st)] = g]) = Len(st)
         /\ [st EXCEPT ![Len(st)] = g][Len(st)] = g
         /\ \A f \in 1 .. Len(st) : f # Len(st) => [st EXCEPT ![Len(st)] = g][f] = st[f]
<1>1. Len(st) \in Nat \ {0} /\ st[Len(st)] \in Frames
  BY StackTop
<1> QED BY <1>1

(* Assigning to fields of the call on top is such a replacement.           *)
LEMMA TopAssigned ==
  ASSUME NEW st \in Seq(Frames), st # <<>>, NEW o, NEW k
  PROVE  /\ [st EXCEPT ![Len(st)].old = o, ![Len(st)].i = k]
              = [st EXCEPT ![Len(st)] = [st[Len(st)] EXCEPT !.old = o, !.i = k]]
         /\ [st EXCEPT ![Len(st)].old = o] = [st EXCEPT ![Len(st)] = [st[Len(st)] EXCEPT !.old = o]]
         /\ [st EXCEPT ![Len(st)].i = k] = [st EXCEPT ![Len(st)] = [st[Len(st)] EXCEPT !.i = k]]
<1>1. Len(st) \in Nat \ {0} /\ st[Len(st)] \in Frames
  BY StackTop
<1> QED BY <1>1

(* The table becomes the old table of the call on top.                     *)
LEMMA GrowKeeps ==
  ASSUME HInv, Typed, Probing, Grow
  PROVE  Probing' /\ \A e : Kept(e)' <=> Kept(e)
<1> DEFINE m == Len(stack)
<1>1. stack \in Seq(Frames) /\ stack # <<>>
  BY DEF Typed, Grow
<1>2. stack' = [stack EXCEPT ![m].old = elems, ![m].i = 0]
  BY DEF Grow
<1>3. /\ m \in Nat \ {0} /\ stack[m] \in Frames /\ Len(stack') = m
      /\ \A f \in 1 .. m : f # m => stack'[f] = stack[f]
      /\ stack'[m] = [stack[m] EXCEPT !.old = elems, !.i = 0]
  <2> DEFINE g == [stack[m] EXCEPT !.old = elems, !.i = 0]
  <2>1. stack' = [stack EXCEPT ![m] = g]
    BY <1>1, <1>2, TopAssigned
  <2>2. stack[m] \in Frames
    BY <1>1, StackTop
  <2>3. elems \in OldTables
    BY TableIsOld
  <2>4. g \in Frames
    BY <2>2, <2>3 DEF Frames
  <2> HIDE DEF g
  <2>5. Len(stack') = m /\ stack'[m] = g /\ \A f \in 1 .. m : f # m => stack'[f] = stack[f]
    BY <1>1, <2>1, <2>4, TopReplaced
  <2>6. m \in Nat \ {0}
    BY <1>1, StackTop
  <2> QED BY <2>2, <2>5, <2>6 DEF g
<1>4. stack'[m].old = elems /\ stack'[m].i = 0 /\ Pair(stack'[m]) = Pair(stack[m])
  BY <1>3 DEF Frames, Pair
<1>5. Used' = {}
  <2>1. 2 * table_size \in Nat
    BY DEF HInv, Shape
  <2> QED BY <2>1, NewTable DEF Grow
<1>6. stack[m].old = <<>>
  BY DEF Grow, Probing, Top
<1> HIDE DEF m
<1>7. ASSUME NEW e PROVE Awaits(stack'[m], e) <=> \E s \in Used : e = elems[s]
  <2>1. DOMAIN elems = 0 .. table_size - 1 /\ table_size \in Nat
    BY DEF HInv, Shape
  <2> QED BY <1>4, <2>1 DEF Awaits, Used
<1>8. \A e : ~Awaits(stack[m], e)
  BY <1>6, NothingAwaits
<1>9. \A f \in 2 .. m : f \in 1 .. m /\ Pair(stack'[f]) = Pair(stack[f])
  BY <1>3, <1>4
<1>10. m \in 1 .. m /\ Len(stack) = m
  BY <1>3 DEF m
<1>11. ASSUME NEW e PROVE Kept(e)' <=> Kept(e)
  <2>1. Kept(e)' <=> \/ \E f \in 1 .. m : Awaits(stack'[f], e)
                     \/ \E f \in 2 .. m : e = Pair(stack'[f])
    BY <1>3, <1>5 DEF Kept, Awaits, Pair
  <2>2. Kept(e) <=> \/ \E s \in Used : e = elems[s]
                    \/ \E f \in 1 .. m : Awaits(stack[f], e)
                    \/ \E f \in 2 .. m : e = Pair(stack[f])
    BY <1>10 DEF Kept
  <2>3. \A f \in 1 .. m : f # m => (Awaits(stack'[f], e) <=> Awaits(stack[f], e))
    BY <1>3
  <2> QED BY <1>7, <1>8, <1>9, <1>10, <2>1, <2>2, <2>3
<1>12. Probing'
  BY DEF Grow, Probing
<1> QED BY <1>11, <1>12

(* The end of a rehash: the old table that is freed has nothing left.      *)
LEMMA RehashDoneKeeps ==
  ASSUME HInv, Typed, RehashDone
  PROVE  Probing' /\ \A e : Kept(e)' <=> Kept(e)
<1> DEFINE m == Len(stack)
<1>1. stack \in Seq(Frames) /\ stack # <<>>
  BY DEF Typed, RehashDone
<1>2. stack' = [stack EXCEPT ![m].old = <<>>]
  BY DEF RehashDone
<1>3. /\ m \in Nat \ {0} /\ stack[m] \in Frames /\ Len(stack') = m
      /\ \A f \in 1 .. m : f # m => stack'[f] = stack[f]
      /\ stack'[m] = [stack[m] EXCEPT !.old = <<>>]
  <2> DEFINE g == [stack[m] EXCEPT !.old = <<>>]
  <2>1. stack' = [stack EXCEPT ![m] = g]
    BY <1>1, <1>2, TopAssigned
  <2>2. stack[m] \in Frames
    BY <1>1, StackTop
  <2>3. g \in Frames
    BY <2>2, NoTable DEF Frames
  <2> HIDE DEF g
  <2>4. Len(stack') = m /\ stack'[m] = g /\ \A f \in 1 .. m : f # m => stack'[f] = stack[f]
    BY <1>1, <2>1, <2>3, TopReplaced
  <2>5. m \in Nat \ {0}
    BY <1>1, StackTop
  <2> QED BY <2>2, <2>4, <2>5 DEF g
<1>4. stack'[m].old = <<>> /\ Pair(stack'[m]) = Pair(stack[m])
  BY <1>3 DEF Frames, Pair
<1>5. Used' = Used /\ elems' = elems
  BY DEF RehashDone, Used
<1>6. \A e : ~Awaits(stack[m], e)
  BY DEF RehashDone, Left, Top, Awaits
<1>7. Probing'
  BY <1>3, <1>4 DEF Probing, Top
<1>8. \A e : ~Awaits(stack'[m], e)
  BY <1>4, NothingAwaits
<1> HIDE DEF m
<1>9. \A f \in 2 .. m : f \in 1 .. m /\ Pair(stack'[f]) = Pair(stack[f])
  BY <1>3, <1>4
<1>10. m \in 1 .. m /\ Len(stack) = m
  BY <1>3 DEF m
<1>11. ASSUME NEW e PROVE Kept(e)' <=> Kept(e)
  <2>1. Kept(e)' <=> \/ \E s \in Used : e = elems[s]
                     \/ \E f \in 1 .. m : Awaits(stack'[f], e)
                     \/ \E f \in 2 .. m : e = Pair(stack'[f])
    BY <1>3, <1>5 DEF Kept, Awaits, Pair
  <2>2. Kept(e) <=> \/ \E s \in Used : e = elems[s]
                    \/ \E f \in 1 .. m : Awaits(stack[f], e)
                    \/ \E f \in 2 .. m : e = Pair(stack[f])
    BY <1>10 DEF Kept
  <2>3. \A f \in 1 .. m : f # m => (Awaits(stack'[f], e) <=> Awaits(stack[f], e))
    BY <1>3
  <2> QED BY <1>6, <1>8, <1>9, <1>10, <2>1, <2>2, <2>3
<1> QED BY <1>7, <1>11

(* The next element of the old table is on its way to the new one.         *)
LEMMA PutAgainKeeps ==
  ASSUME HInv, Typed, PutAgain
  PROVE  Probing' /\ \A e : Kept(e)' <=> Kept(e)
<1> DEFINE m == Len(stack)
           j == First(Left)
           c == Call(Top.old[j].key, Top.old[j].data)
           g == [stack[m] EXCEPT !.i = j + 1]
           st == [stack EXCEPT ![m] = g]
<1>1. stack \in Seq(Frames) /\ stack # <<>>
  BY DEF Typed, PutAgain
<1>2. m \in Nat \ {0} /\ Top \in Frames /\ Top = stack[m]
  BY <1>1, StackTop DEF Top
<1>3. Top.i \in Nat /\ Top.old \in OldTables
  BY <1>2 DEF Frames
<1>4. PICK S \in SUBSET Int : Top.old \in [S -> Elem]
  BY <1>3 DEF OldTables
<1>5. Left \in SUBSET Nat /\ Left # {}
  <2>1. \A x \in Left : x \in Int /\ x >= Top.i
    BY <1>4 DEF Left
  <2>2. \A x \in Left : x \in Nat
    BY <1>3, <2>1
  <2> QED BY <2>2 DEF PutAgain
<1>6. j \in Left /\ j \in Nat /\ \A x \in Left : j <= x
  BY <1>5, FirstIsMin
<1> HIDE DEF j
<1>7. Top.old[j] \in [used : {TRUE}, key : Keys, data : Values]
  <2>1. Top.old[j] \in Elem /\ Top.old[j].used
    BY <1>4, <1>6 DEF Left
  <2>2. ~unused_0.used
    BY DEF unused_0
  <2> QED BY <2>1, <2>2 DEF Elem
<1>8. c \in Frames /\ c.old = <<>> /\ Pair(c) = Top.old[j]
  BY <1>7, NoTable DEF Call, Frames, Pair
<1>9. g \in Frames /\ g.i = j + 1 /\ g.old = Top.old /\ Pair(g) = Pair(Top)
  BY <1>2, <1>6 DEF Frames, Pair
<1>10. stack' = Append([stack EXCEPT ![m].i = j + 1], c)
  BY DEF PutAgain, j
<1>11. stack' = Append(st, c)
  BY <1>1, <1>10, TopAssigned
<1> HIDE DEF c, g
<1>12. st \in Seq(Frames) /\ Len(st) = m /\ st[m] = g /\ \A f \in 1 .. m : f # m => st[f] = stack[f]
  BY <1>1, <1>9, TopReplaced
<1> HIDE DEF st
<1>13. /\ Len(stack') = m + 1 /\ stack'[m + 1] = c
       /\ \A f \in 1 .. m : stack'[f] = st[f]
  BY <1>2, <1>8, <1>11, <1>12
<1>14. Probing'
  BY <1>8, <1>13 DEF Probing, Top
<1>15. \A e : ~Awaits(c, e)
  BY <1>8, NothingAwaits
<1>16. ASSUME NEW e PROVE Awaits(stack[m], e) <=> Awaits(g, e) \/ e = Top.old[j]
  <2>1. \A x \in DOMAIN Top.old : Top.old[x].used => (x >= Top.i <=> x = j \/ x >= j + 1)
    <3> SUFFICES ASSUME NEW x \in DOMAIN Top.old, Top.old[x].used
                 PROVE  x >= Top.i <=> x = j \/ x >= j + 1
      OBVIOUS
    <3>1. x \in Int
      BY <1>4
    <3>2. x >= Top.i => x >= j
      BY <1>6 DEF Left
    <3>3. j >= Top.i
      BY <1>6 DEF Left
    <3> QED BY <1>3, <1>6, <3>1, <3>2, <3>3
  <2>2. j \in DOMAIN Top.old /\ Top.old[j].used
    BY <1>6 DEF Left
  <2> QED BY <1>2, <1>9, <2>1, <2>2 DEF Awaits
<1>17. Used' = Used /\ elems' = elems
  BY DEF PutAgain, Used
<1> HIDE DEF m
<1>18. \A f \in 2 .. m : f \in 1 .. m /\ Pair(stack'[f]) = Pair(stack[f])
  BY <1>2, <1>9, <1>12, <1>13
<1>19. /\ m \in 1 .. m /\ Len(stack) = m /\ stack'[m] = g
       /\ 1 .. m + 1 = 1 .. m \cup {m + 1} /\ 2 .. m + 1 = 2 .. m \cup {m + 1}
  BY <1>2, <1>12, <1>13 DEF m
<1>20. ASSUME NEW e PROVE Kept(e)' <=> Kept(e)
  <2>1. Kept(e)' <=> \/ \E s \in Used : e = elems[s]
                     \/ \E f \in 1 .. m + 1 : Awaits(stack'[f], e)
                     \/ \E f \in 2 .. m + 1 : e = Pair(stack'[f])
    BY <1>13, <1>17 DEF Kept, Awaits, Pair
  <2>2. Kept(e) <=> \/ \E s \in Used : e = elems[s]
                    \/ \E f \in 1 .. m : Awaits(stack[f], e)
                    \/ \E f \in 2 .. m : e = Pair(stack[f])
    BY <1>19 DEF Kept
  <2>3. \A f \in 1 .. m : f # m => (Awaits(stack'[f], e) <=> Awaits(stack[f], e))
    BY <1>12, <1>13
  <2>4. (\E f \in 1 .. m + 1 : Awaits(stack'[f], e))
          <=> \E f \in 1 .. m : Awaits(stack'[f], e)
    BY <1>13, <1>15, <1>19
  <2>5. (\E f \in 2 .. m + 1 : e = Pair(stack'[f]))
          <=> e = Top.old[j] \/ \E f \in 2 .. m : e = Pair(stack[f])
    BY <1>8, <1>13, <1>18, <1>19
  <2>6. (\E f \in 1 .. m : Awaits(stack[f], e))
          <=> e = Top.old[j] \/ \E f \in 1 .. m : Awaits(stack'[f], e)
    BY <1>16, <1>19, <2>3
  <2> QED BY <2>1, <2>2, <2>4, <2>5, <2>6
<1> QED BY <1>14, <1>20

(* A pair is stored: it is kept from now on in the table, and nothing else *)
(* is lost but what its key had.                                           *)
LEMMA StoreKeeps ==
  ASSUME HInv, Typed, Probing, Store
  PROVE  /\ Probing' /\ Pair(Top) \in Elem
         /\ \A e : e = Pair(Top) => Kept(e)'
         /\ \A e : Kept(e) /\ e.key # Top.key => Kept(e)'
         /\ \A e : Kept(e)' => Kept(e) \/ e = Pair(Top)
         /\ Len(stack) # 1 => Kept(Pair(Top))
<1> DEFINE m == Len(stack)
           P == Place(Top.key)
<1>1. /\ Top \in Frames /\ Top.key \in Keys /\ P \in 0 .. table_size - 1
      /\ elems'[P] = Pair(Top)
      /\ \A s \in 0 .. table_size - 1 : s # P => elems'[s] = elems[s]
      /\ Used' = Used \cup {P}
  BY StoreEffect
<1>2. stack \in Seq(Frames) /\ stack # <<>> /\ stack' = SubSeq(stack, 1, m - 1)
  BY DEF Typed, Store, Rest
<1>3. m \in Nat \ {0} /\ Len(stack') = m - 1 /\ Top = stack[m]
  BY <1>2, StackTop DEF Top
<1>4. \A f \in 1 .. m - 1 : stack'[f] = stack[f]
  BY <1>2, <1>3
<1>5. \A e : ~Awaits(stack[m], e)
  BY <1>3, NothingAwaits DEF Probing, Store
<1>6. Pair(Top) \in Elem /\ Pair(Top).key = Top.key
  BY <1>1 DEF Pair, Elem, Frames
<1>7. elems[P].used => elems[P].key = Top.key
  <2>1. PICK i \in Steps : P = Slot(Top.key, i) /\ Usable(Top.key, i)
    BY <1>1, PlaceFound DEF HInv, Store
  <2> QED BY <2>1 DEF Usable, Holds
<1>8. Probing'
  BY DEF Probing, Store
<1> HIDE DEF P, m
<1>9. \A s \in Used : s \in 0 .. table_size - 1 /\ elems[s].used
  BY DEF Used
<1>10. Len(stack) = m
  BY DEF m
<1>11. \A e : Kept(e)' <=> \/ \E s \in Used' : e = elems'[s]
                           \/ \E f \in 1 .. m - 1 : Awaits(stack[f], e)
                           \/ \E f \in 2 .. m - 1 : e = Pair(stack[f])
  <2> TAKE e
  <2>1. Kept(e)' <=> \/ \E s \in Used' : e = elems'[s]
                     \/ \E f \in 1 .. m - 1 : Awaits(stack'[f], e)
                     \/ \E f \in 2 .. m - 1 : e = Pair(stack'[f])
    BY <1>3 DEF Kept, Awaits, Pair
  <2>2. \A f \in 2 .. m - 1 : f \in 1 .. m - 1
    BY <1>3
  <2> QED BY <1>4, <2>1, <2>2
<1>12. ASSUME NEW e, Kept(e), e.key # Top.key PROVE Kept(e)'
  <2>1. CASE \E s \in Used : e = elems[s]
    <3>1. PICK s \in Used : e = elems[s]
      BY <2>1
    <3>2. s # P
      BY <1>7, <1>9, <1>12, <3>1
    <3>3. s \in Used' /\ e = elems'[s]
      BY <1>1, <1>9, <3>1, <3>2
    <3> QED BY <1>11, <3>3
  <2>2. CASE \E f \in 1 .. m : Awaits(stack[f], e)
    <3>1. PICK f \in 1 .. m : Awaits(stack[f], e)
      BY <2>2
    <3>2. f \in 1 .. m - 1
      BY <1>3, <1>5, <3>1
    <3> QED BY <1>11, <3>1, <3>2
  <2>3. CASE \E f \in 2 .. m : e = Pair(stack[f])
    <3>1. PICK f \in 2 .. m : e = Pair(stack[f])
      BY <2>3
    <3>2. f \in 2 .. m - 1
      BY <1>3, <1>6, <1>12, <3>1
    <3> QED BY <1>11, <3>1, <3>2
  <2> QED BY <1>10, <1>12, <2>1, <2>2, <2>3 DEF Kept
<1>13. ASSUME NEW e, Kept(e)' PROVE Kept(e) \/ e = Pair(Top)
  <2>1. CASE \E s \in Used' : e = elems'[s]
    <3>1. PICK s \in Used' : e = elems'[s]
      BY <2>1
    <3>2. CASE s # P
      <4>1. s \in Used /\ e = elems[s]
        BY <1>1, <1>9, <3>1, <3>2
      <4> QED BY <4>1 DEF Kept
    <3> QED BY <1>1, <3>1, <3>2
  <2>2. CASE \E f \in 1 .. m - 1 : Awaits(stack[f], e)
    <3>1. \A f \in 1 .. m - 1 : f \in 1 .. m
      BY <1>3
    <3> QED BY <1>10, <2>2, <3>1 DEF Kept
  <2>3. CASE \E f \in 2 .. m - 1 : e = Pair(stack[f])
    <3>1. \A f \in 2 .. m - 1 : f \in 2 .. m
      BY <1>3
    <3> QED BY <1>10, <2>3, <3>1 DEF Kept
  <2> QED BY <1>11, <1>13, <2>1, <2>2, <2>3
<1>14. ASSUME NEW e, e = Pair(Top) PROVE Kept(e)'
  BY <1>1, <1>11, <1>14
<1>15. ASSUME m # 1 PROVE Kept(Pair(Top))
  <2>1. m \in 2 .. m
    BY <1>3, <1>15
  <2> QED BY <1>3, <1>10, <2>1 DEF Kept
<1> QED BY <1>6, <1>8, <1>10, <1>12, <1>13, <1>14, <1>15

(* When no call is left after a step, everything is in the table.          *)
LEMMA EmptyStack ==
  ASSUME stack' = <<>>, NEW e
  PROVE  Kept(e)' <=> \E s \in Used' : e = elems'[s]
<1>1. Len(stack') = 0
  OBVIOUS
<1> QED BY <1>1 DEF Kept

(* Every step keeps what must be kept, and before the first removal        *)
(* nothing but the latest.                                                 *)
LEMMA KeptStep ==
  ASSUME HInv, Typed, KInv, [Next]_vars
  PROVE  Probing' /\ AllKept' /\ Latest'
<1> DEFINE SameHistory == UNCHANGED <<map, torn, holed>>
           SameKept == \A e : Kept(e)' <=> Kept(e)
           Goal == AllKept' /\ Latest'
<1>0. Probing /\ AllKept /\ Latest /\ Probes
  BY DEF KInv
<1>1. ASSUME SameHistory, SameKept PROVE Goal
  BY <1>0, <1>1 DEF AllKept, Latest
<1> HIDE DEF SameKept
<1>2. ASSUME UNCHANGED <<table_size, elems, stack>> PROVE SameKept
  BY <1>2 DEF SameKept, Kept, Used, Awaits, Pair
<1>3. ASSUME NEW k \in Keys, NEW v \in Values, Put(k, v) PROVE Probing' /\ Goal
  <2>1. Probing' /\ SameKept
    BY <1>3, PutKeeps DEF SameKept
  <2> QED BY <1>1, <1>3, <2>1 DEF Put
<1>4. CASE Grow
  <2>1. Probing' /\ SameKept
    BY <1>0, <1>4, GrowKeeps DEF SameKept
  <2> QED BY <1>1, <1>4, <2>1 DEF Grow
<1>5. CASE PutAgain
  <2>1. Probing' /\ SameKept
    BY <1>5, PutAgainKeeps DEF SameKept
  <2> QED BY <1>1, <1>5, <2>1 DEF PutAgain
<1>6. CASE RehashDone
  <2>1. Probing' /\ SameKept
    BY <1>6, RehashDoneKeeps DEF SameKept
  <2> QED BY <1>1, <1>6, <2>1 DEF RehashDone
<1>7. CASE UNCHANGED vars
  <2>1. SameKept /\ SameHistory
    BY <1>2, <1>7 DEF vars
  <2>2. Probing'
    BY <1>0, <1>7 DEF vars, Probing, Top
  <2> QED BY <1>1, <2>1, <2>2
<1>8. CASE GrowFails
  <2>1. Probing' /\ stack' = <<>> /\ map' = map /\ holed' = holed
        /\ torn' = (torn \/ Len(stack) > 1) /\ Used' = Used /\ elems' = elems
    BY <1>8 DEF GrowFails, Probing, Used
  <2>2. CASE torn'
    BY <2>1, <2>2 DEF AllKept, Latest
  <2>3. CASE ~torn'
    <3>1. Len(stack) \in Nat \ {0}
      BY <1>8, StackTop DEF GrowFails, Typed
    <3>2. ~torn /\ Len(stack) = 1
      <4>1. ~(torn \/ Len(stack) > 1)
        BY <2>1, <2>3, Zenon
      <4>2. ~torn /\ ~(Len(stack) > 1)
        BY <4>1, Zenon
      <4>3. ~(Len(stack) > 1)
        BY <4>2, Zenon
      <4>4. Len(stack) = 1
        <5>1. \A n \in Nat \ {0} : ~(n > 1) => n = 1
          OBVIOUS
        <5> QED BY <3>1, <4>3, <5>1, Zenon
      <4> QED BY <4>2, <4>4, Zenon
    <3>3. \A e : Kept(e) <=> \E s \in Used : e = elems[s]
      BY <1>0, <1>8, <3>2, InTheTable DEF GrowFails
    <3>4. \A e : Kept(e)' <=> \E s \in Used : e = elems[s]
      BY <2>1, EmptyStack
    <3>5. SameKept /\ SameHistory
      BY <2>1, <2>3, <3>2, <3>3, <3>4, Zenon DEF SameKept, Typed
    <3> QED BY <1>1, <2>1, <3>5
  <2> QED BY <2>2, <2>3
<1>9. CASE Store
  <2> DEFINE r == Pair(Top)
  <2>1. /\ Probing' /\ r \in Elem
        /\ \A e : e = r => Kept(e)'
        /\ \A e : Kept(e) /\ e.key # Top.key => Kept(e)'
        /\ \A e : Kept(e)' => Kept(e) \/ e = r
        /\ Len(stack) # 1 => Kept(r)
    BY <1>0, <1>9, StoreKeeps
  <2>2. r.key = Top.key /\ r.data = Top.val
    BY DEF Pair
  <2>3. torn' = torn /\ holed' = holed
    BY <1>9 DEF Store
  <2>4. CASE Len(stack) # 1
    <3>1. map' = map
      BY <1>9, <2>4 DEF Store
    <3>2. AllKept'
      <4> SUFFICES ASSUME ~torn, NEW k \in Keys, map[k] # Null
                   PROVE  \E e \in Elem : Kept(e)' /\ e.key = k
        BY <2>3, <3>1 DEF AllKept
      <4>1. CASE k = Top.key
        BY <2>1, <2>2, <4>1
      <4>2. CASE k # Top.key
        BY <1>0, <2>1, <4>2 DEF AllKept
      <4> QED BY <4>1, <4>2
    <3>3. Latest'
      BY <1>0, <2>1, <2>3, <2>4, <3>1 DEF Latest
    <3> QED BY <2>1, <3>2, <3>3
  <2>5. CASE Len(stack) = 1
    <3>1. Top \in Frames /\ Top.key \in Keys /\ Top.val \in Values
      BY <1>9, StackTop DEF Store, Typed, Top, Frames
    <3>2. map' = [map EXCEPT ![Top.key] = Top.val]
      BY <1>9, <2>5 DEF Store
    <3>3. map'[Top.key] = Top.val /\ \A k \in Keys : k # Top.key => map'[k] = map[k]
      BY <3>1, <3>2 DEF Typed
    <3>4. AllKept'
      <4> SUFFICES ASSUME ~torn, NEW k \in Keys, map'[k] # Null
                   PROVE  \E e \in Elem : Kept(e)' /\ e.key = k
        BY <2>3 DEF AllKept
      <4>1. CASE k = Top.key
        BY <2>1, <2>2, <4>1
      <4>2. CASE k # Top.key
        BY <1>0, <2>1, <3>3, <4>2 DEF AllKept
      <4> QED BY <4>1, <4>2
    <3>5. Latest'
      <4> SUFFICES ASSUME ~torn, ~holed, NEW e \in Elem, Kept(e)'
                   PROVE  map'[e.key] = e.data
        BY <2>3 DEF Latest
      <4>1. stack' = <<>>
        BY <1>9, <2>5, StackTop DEF Store, Rest, Typed
      <4>2. PICK s \in Used' : e = elems'[s]
        BY <4>1, EmptyStack
      <4> DEFINE P == Place(Top.key)
      <4>3. /\ elems'[P] = r
            /\ \A t \in 0 .. table_size - 1 : t # P => elems'[t] = elems[t]
            /\ Used' = Used \cup {P}
        BY <1>9, StoreEffect
      <4>4. ~Overflow(Top.key)
        BY <1>9 DEF Store
      <4>5. CASE s = P
        BY <2>2, <3>3, <4>2, <4>3, <4>5
      <4>6. CASE s # P
        <5>1. s \in Used
          BY <4>3, <4>6
        <5>2. e = elems[s] /\ e.key \in Keys
          BY <4>2, <4>3, <4>6, <5>1, UsedElem
        <5>3. e.key # Top.key
          BY <1>0, <3>1, <4>4, <4>6, <5>1, <5>2, PlaceOfHeld
        <5>4. Kept(e)
          BY <5>1, <5>2 DEF Kept
        <5> QED BY <1>0, <3>3, <5>2, <5>3, <5>4 DEF Latest
      <4> QED BY <4>5, <4>6
    <3> QED BY <2>1, <3>4, <3>5
  <2> QED BY <2>4, <2>5
<1>10. ASSUME NEW k \in Keys, Remove(k) PROVE Probing' /\ Goal
  <2>1. stack = <<>> /\ stack' = <<>> /\ pc' = "idle" /\ torn' = torn /\ holed'
        /\ map' = [map EXCEPT ![k] = Null]
    BY <1>10 DEF Remove, Typed
  <2>2. /\ \A s \in Used' : elems'[s] = elems[s]
        /\ \A s \in Used : elems[s].key # k => s \in Used'
    BY <1>0, <1>10, RemoveProbes
  <2>3. \A e : (Kept(e) <=> \E s \in Used : e = elems[s])
               /\ (Kept(e)' <=> \E s \in Used' : e = elems'[s])
    BY <2>1, InTheTable, EmptyStack
  <2>4. AllKept'
    <3> SUFFICES ASSUME ~torn, NEW q \in Keys, map'[q] # Null
                 PROVE  \E e \in Elem : Kept(e)' /\ e.key = q
      BY <2>1 DEF AllKept
    <3>1. q # k /\ map[q] # Null
      BY <2>1 DEF Typed
    <3>2. PICK e \in Elem : Kept(e) /\ e.key = q
      BY <1>0, <3>1 DEF AllKept
    <3>3. PICK s \in Used : e = elems[s]
      BY <2>3, <3>2
    <3>4. Kept(e)'
      BY <2>2, <2>3, <3>1, <3>2, <3>3
    <3> QED BY <3>2, <3>4
  <2> QED BY <2>1, <2>4 DEF Probing, Latest
<1>11. CASE Recreate
  <2>1. stack' = <<>> /\ pc' = "idle" /\ map' = [q \in Keys |-> Null]
    BY <1>11 DEF Recreate, Typed
  <2>2. Used' = {}
    BY <1>11, NewTable, HashMapAssumption DEF Recreate
  <2>3. \A e : ~Kept(e)'
    BY <2>1, <2>2, EmptyStack
  <2> QED BY <2>1, <2>3 DEF Probing, AllKept, Latest
<1> QED BY <1>3, <1>4, <1>5, <1>6, <1>7, <1>8, <1>9, <1>10, <1>11 DEF Next

(* The whole invariant.                                                    *)
MInv == HInv /\ Typed /\ KInv

(* It holds of an empty table, and every step keeps it.                    *)
LEMMA MapInvariant == Spec => []MInv
<1>1. Init => MInv
  <2> SUFFICES ASSUME Init PROVE MInv
    OBVIOUS
  <2>1. HInv /\ Typed
    BY Initial, InitialTyped
  <2>2. Used = {} /\ stack = <<>>
    BY DEF Init, Used, Cleared, unused_0
  <2>3. \A e : ~Kept(e)
    BY <2>2, InTheTable
  <2>4. Probes
    BY <2>2 DEF Probes, Placed, Tight, Single
  <2>5. AllKept /\ Latest /\ Probing
    BY <2>3 DEF AllKept, Latest, Probing, Init
  <2> QED BY <2>1, <2>4, <2>5 DEF MInv, KInv
<1>2. MInv /\ [Next]_vars => MInv'
  BY Inductive, TypedStep, KeptStep, ProbesStep DEF MInv, KInv
<1> QED BY <1>1, <1>2, PTL DEF Spec

(* What get finds for a key: the value of a used slot with that key, if    *)
(* there is one.                                                           *)
LEMMA GetFinds ==
  ASSUME MInv, NEW k \in Keys
  PROVE  /\ (\E s \in Used : elems[s].key = k) =>
              \E s \in Used : elems[s].key = k /\ Get(k) = elems[s].data
         /\ ~(\E s \in Used : elems[s].key = k) => Get(k) = Null
<1> DEFINE S == {i \in Steps : Holds(k, i)}
<1>1. S \in SUBSET Nat
  BY HashMapAssumption DEF Steps
<1>2. \A i \in S : Slot(k, i) \in Used /\ elems[Slot(k, i)].key = k
  BY <1>1, SlotInTable DEF Holds, Used, MInv, HInv
<1>3. \A s \in Used : elems[s].key = k => S # {}
  <2> SUFFICES ASSUME NEW s \in Used, elems[s].key = k PROVE S # {}
    OBVIOUS
  <2>1. PICK i \in Steps : Slot(k, i) = s
    BY DEF MInv, KInv, Probes, Placed
  <2>2. Holds(k, i)
    BY <2>1 DEF Holds, Used
  <2> QED BY <2>2
<1>4. S # {} => First(S) \in S
  BY <1>1, FirstIsMin
<1>5. Get(k) = IF S = {} THEN Null ELSE elems[Slot(k, First(S))].data
  BY DEF Get
<1> QED BY <1>2, <1>3, <1>4, <1>5

(* hashmap_get and hashmap_iterate find every key that was put and not     *)
(* removed, through collisions, holes and rehashes within rehashes, unless *)
(* memory has run out in the middle of one.                                *)
THEOREM KeysFound == Spec => []KeysReachable
<1>1. MInv => KeysReachable
  <2> SUFFICES ASSUME MInv, pc = "idle", ~torn, NEW k \in Keys, map[k] # Null
               PROVE  Get(k) # Null /\ k \in Iterated
    BY DEF KeysReachable
  <2>1. stack = <<>>
    BY DEF MInv, Typed
  <2>2. PICK e \in Elem : Kept(e) /\ e.key = k
    BY DEF MInv, KInv, AllKept
  <2>3. PICK s \in Used : elems[s].key = k
    BY <2>1, <2>2, InTheTable
  <2>4. Get(k) # Null
    <3>1. PICK t \in Used : Get(k) = elems[t].data
      BY <2>3, GetFinds
    <3>2. elems[t].data \in Values
      BY UsedElem DEF MInv
    <3> QED BY <3>1, <3>2, HashMapAssumption
  <2>5. ~(size <= 0)
    <3>1. IsFiniteSet(Used) /\ Cardinality(Used) \in Nat
      BY UsedFinite DEF MInv, HInv
    <3>2. Cardinality(Used) # 0
      BY <3>1, FS_EmptySet
    <3> QED BY <3>1, <3>2 DEF MInv, HInv, Counted, Shape
  <2> QED BY <2>3, <2>4, <2>5 DEF Iterated
<1> QED BY <1>1, MapInvariant, PTL

(* Until a key is removed, hashmap_get returns the value put last, and     *)
(* nothing for a key that was never put.                                   *)
THEOREM LatestFound == Spec => []GetReturnsLatest
<1>1. MInv => GetReturnsLatest
  <2> SUFFICES ASSUME MInv, pc = "idle", ~torn, ~holed, NEW k \in Keys
               PROVE  Get(k) = map[k]
    BY DEF GetReturnsLatest
  <2>1. stack = <<>>
    BY DEF MInv, Typed
  <2>2. \A s \in Used : map[elems[s].key] = elems[s].data /\ elems[s].data \in Values
    <3> TAKE s \in Used
    <3>1. elems[s] \in Elem /\ elems[s].data \in Values
      BY UsedElem DEF MInv
    <3>2. Kept(elems[s])
      BY DEF Kept
    <3> QED BY <3>1, <3>2 DEF MInv, KInv, Latest
  <2>3. CASE \E s \in Used : elems[s].key = k
    BY <2>2, <2>3, GetFinds
  <2>4. CASE ~ \E s \in Used : elems[s].key = k
    <3>1. Get(k) = Null
      BY <2>4, GetFinds
    <3>2. map[k] = Null
      <4> SUFFICES ASSUME map[k] # Null PROVE FALSE
        OBVIOUS
      <4>1. PICK e \in Elem : Kept(e) /\ e.key = k
        BY DEF MInv, KInv, AllKept
      <4> QED BY <2>1, <2>4, <4>1, InTheTable
    <3> QED BY <3>1, <3>2
  <2> QED BY <2>3, <2>4
<1> QED BY <1>1, MapInvariant, PTL
=============================================================================
