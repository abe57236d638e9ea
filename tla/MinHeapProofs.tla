---------------------------- MODULE MinHeapProofs ----------------------------
(***************************************************************************)
(* min_heap.c for any number of items and any integer values: the heap     *)
(* order and the back-pointers hold between calls, and the heap implements *)
(* PriorityQueue.                                                          *)
(*                                                                         *)
(* While a shift is under way the array has a hole, and the invariant is   *)
(* about the slots that hold something: the live ones.                     *)
(***************************************************************************)
EXTENDS MinHeap, TLAPS, FiniteSetTheorems, WellFoundedInduction

Live == IF pc = "idle" THEN 0 .. n - 1 ELSE (0 .. n - 1) \ {hole}
At(i) == value[p[i]]

(* Shape: the types, and that the hole is a slot of the array.             *)
Shape ==
  /\ p \in [Slots -> Items \cup {Null}]
  /\ n \in Nat /\ n <= Cardinality(Items) /\ a \in Nat /\ n <= a
  /\ value \in [Items -> Values] /\ idx \in [Items -> Int]
  /\ pc \in {"idle", "up", "down"}
  /\ pc = "idle" => e = Null /\ out = Null
  /\ pc # "idle" =>
       /\ e \in Items /\ out \in Items \cup {Null}
       /\ hole \in 0 .. n /\ hole \in Slots /\ hole < a
       /\ hole = n <=> e = out
       /\ hole = n => pc = "down"

(* Linked: a live slot and its item name each other, and neither the item  *)
(* to be placed nor the one that leaves is in a live slot.                 *)
Linked ==
  /\ \A i \in Live : p[i] \in Items /\ idx[p[i]] = i /\ p[i] # e /\ p[i] # out
  /\ \A x \in Items : idx[x] # -1 /\ x # e /\ x # out => idx[x] \in Live /\ p[idx[x]] = x

(* Ordered: the heap order holds between live slots, and across the hole;  *)
(* an item that shifts up is no larger than what is below the hole, one    *)
(* that shifts down no smaller than what is above it.                      *)
Below == {i \in Live : i > 0 /\ Parent(i) = hole}
Ordered ==
  /\ \A i \in Live : i > 0 /\ Parent(i) \in Live => At(Parent(i)) <= At(i)
  /\ pc # "idle" /\ hole > 0 => \A i \in Below : At(Parent(hole)) <= At(i)
  /\ pc = "up" => \A i \in Below : value[e] <= At(i)
  /\ pc = "down" /\ hole > 0 => At(Parent(hole)) <= value[e]

HInv == Shape /\ Linked /\ Ordered

-----------------------------------------------------------------------------

(* Parents come before their children.                                     *)
LEMMA ParentBelow ==
  ASSUME NEW i \in Nat, i > 0 PROVE Parent(i) \in Nat /\ Parent(i) < i
  BY SMT DEF Parent

(* The two children of a slot, from the parent that the code computes.     *)
LEMMA Children ==
  ASSUME NEW i \in Nat, i > 0, NEW h \in Nat
  PROVE  Parent(i) = h <=> i = 2 * h + 1 \/ i = 2 * h + 2
  BY SMT DEF Parent

(* Indexes below the number of items.                                      *)
LEMMA SlotsAre ==
  /\ Cardinality(Items) \in Nat
  /\ \A i \in Nat : i < Cardinality(Items) <=> i \in Slots
<1>1. Cardinality(Items) \in Nat
  BY MinHeapAssumption, FS_CardinalityType
<1> QED BY <1>1 DEF Slots

(* An item outside the heap leaves room for it.                            *)
LEMMA Room ==
  ASSUME HInv, pc = "idle", NEW x \in Items, idx[x] = -1
  PROVE  n < Cardinality(Items)
<1> DEFINE f == [i \in 0 .. n - 1 |-> p[i]]
<1>1. \A i \in 0 .. n - 1 : p[i] \in Items \ {x} /\ idx[p[i]] = i
  BY DEF HInv, Linked, Live
<1>2. IsFiniteSet(Items \ {x}) /\ Cardinality(Items \ {x}) = Cardinality(Items) - 1
  BY MinHeapAssumption, FS_RemoveElement
<1>3. n \in Nat
  BY DEF HInv, Shape
<1>4. IsFiniteSet(0 .. n - 1) /\ Cardinality(0 .. n - 1) = n
  BY <1>3, FS_Interval
<1>5. f \in Injection(0 .. n - 1, Items \ {x})
  BY <1>1 DEF Injection, IsInjective
<1>6. Cardinality(0 .. n - 1) <= Cardinality(Items \ {x})
  BY <1>2, <1>4, <1>5, FS_Injection
<1> QED BY <1>2, <1>3, <1>4, <1>6, SlotsAre
-----------------------------------------------------------------------------
(* Calls open a hole.                                                      *)
LEMMA PushStep ==
  ASSUME HInv, NEW x \in Items, Push(x) PROVE HInv'
<1> USE DEF HInv
<1>0. PICK v \in Values : value' = [value EXCEPT ![x] = v]
  BY DEF Push
<1>1. n < Cardinality(Items) /\ n \in Slots
  BY Room, SlotsAre DEF Push, Shape
<1>2. a' \in Nat /\ n + 1 <= a'
  BY MinHeapAssumption DEF Push, Reserve, Shape
<1>3. /\ pc = "idle" /\ pc' = "up" /\ hole' = n /\ n' = n + 1 /\ e' = x /\ out' = Null
      /\ p' = p /\ idx' = idx /\ idx[x] = -1
  BY DEF Push, Shift
<1>4. Shape'
  <2>1. p' \in [Slots -> Items \cup {Null}] /\ idx' \in [Items -> Int]
    BY <1>3 DEF Shape
  <2>2. value' \in [Items -> Values]
    BY <1>0 DEF Shape
  <2>3. n' \in Nat /\ n' <= Cardinality(Items) /\ n' <= a' /\ hole' \in 0 .. n' /\ hole' < a'
    BY <1>1, <1>2, <1>3, SlotsAre DEF Shape
  <2>4. hole' # n' /\ e' # out'
    BY <1>3, MinHeapAssumption DEF Shape
  <2> QED BY <1>1, <1>2, <1>3, <2>1, <2>2, <2>3, <2>4 DEF Shape
<1>5. Live' = Live /\ Live = 0 .. n - 1
  BY <1>3 DEF Live, Shape
<1>6. \A i \in Live : p[i] \in Items /\ idx[p[i]] = i /\ p[i] # x
  BY <1>3, <1>5 DEF Linked
<1>7. Linked'
  <2>1. \A i \in Live' : p'[i] \in Items /\ idx'[p'[i]] = i /\ p'[i] # e' /\ p'[i] # out'
    BY <1>3, <1>5, <1>6, MinHeapAssumption
  <2>2. \A y \in Items : idx[y] # -1 => idx[y] \in Live /\ p[idx[y]] = y
    BY <1>3, MinHeapAssumption DEF Linked, Shape
  <2> QED BY <1>3, <1>5, <2>1, <2>2 DEF Linked
<1>8. \A i \in Live : At(i)' = At(i)
  BY <1>0, <1>3, <1>6 DEF At, Shape
<1>9. Below' = {}
  BY <1>3, <1>5, ParentBelow DEF Below, Shape
<1>10. \A i \in Live : i > 0 /\ Parent(i) \in Live => At(Parent(i))' <= At(i)'
  BY <1>8 DEF Ordered
<1>11. Ordered'
  BY <1>3, <1>5, <1>9, <1>10 DEF Ordered
<1> QED BY <1>4, <1>7, <1>11

(* Pop and erase take the last item, and open a hole where h was.          *)
LEMMA TakeLast ==
  ASSUME HInv, pc = "idle", NEW h \in 0 .. n - 1,
         n' = n - 1, hole' = h, e' = p[n - 1], out' = p[h],
         UNCHANGED <<p, a, value, idx>>,
         pc' = IF h > 0 /\ Greater(p[Parent(h)], p[n - 1]) THEN "up" ELSE "down"
  PROVE  HInv'
<1> USE DEF HInv
<1>1. Live = 0 .. n - 1 /\ Live' = (0 .. n - 2) \ {h} /\ n \in Nat /\ n > 0 /\ h \in Nat
  BY DEF Live, Shape
<1>2. \A i \in Live : p[i] \in Items /\ idx[p[i]] = i
  BY DEF Linked
<1>3. n - 1 \in Live /\ h \in Live
  BY <1>1
<1>4. At(h) \in Int /\ \A i \in Live : At(i) \in Int
  BY <1>2, <1>3, MinHeapAssumption DEF At, Shape
<1>5. h > 0 => Parent(h) \in Live /\ Parent(h) < h /\ At(Parent(h)) <= At(h)
  BY <1>1, <1>3, ParentBelow DEF Ordered
<1>6. h = n - 1 => pc' = "down"
  <2>1. h = n - 1 /\ h > 0 => ~Greater(p[Parent(h)], p[n - 1])
    BY <1>4, <1>5 DEF Greater, At
  <2> QED BY <2>1
<1>7. Shape'
  <2>1. hole' \in Slots /\ hole' \in 0 .. n' /\ hole' < a'
    BY <1>1, SlotsAre DEF Shape
  <2>2. e' \in Items /\ out' \in Items
    BY <1>2, <1>3
  <2>3. hole' = n' <=> e' = out'
    BY <1>1, <1>2, <1>3
  <2>4. n' \in Nat /\ n' <= Cardinality(Items) /\ n' <= a'
    BY <1>1, SlotsAre DEF Shape
  <2>5. pc' \in {"up", "down"}
    OBVIOUS
  <2> QED BY <1>6, <2>1, <2>2, <2>3, <2>4, <2>5 DEF Shape
<1>8. Live' \subseteq Live /\ \A i \in Live' : i # h /\ i # n - 1
  BY <1>1
<1>9. Linked'
  <2>1. \A i \in Live' : p'[i] \in Items /\ idx'[p'[i]] = i /\ p'[i] # e' /\ p'[i] # out'
    BY <1>2, <1>3, <1>8
  <2>2. \A x \in Items : idx[x] # -1 => idx[x] \in Live /\ p[idx[x]] = x
    BY <1>2, MinHeapAssumption DEF Linked, Shape
  <2>3. \A i \in Live : i # h /\ i # n - 1 => i \in Live'
    BY <1>1
  <2> QED BY <1>3, <2>1, <2>2, <2>3 DEF Linked
<1>10. \A i \in Live : At(i)' = At(i)
  BY DEF At
<1>11. \A i \in Below' : At(h) <= At(i) /\ i \in Live'
  BY <1>3, <1>8 DEF Below, Ordered
<1>12. \A i \in Live' : i > 0 /\ Parent(i) \in Live' => At(Parent(i))' <= At(i)'
  BY <1>8, <1>10 DEF Ordered
<1>13. h > 0 => \A i \in Below' : At(Parent(h))' <= At(i)'
  <2> SUFFICES ASSUME h > 0, NEW i \in Below' PROVE At(Parent(h)) <= At(i)
    BY <1>5, <1>8, <1>10, <1>11
  <2>1. At(Parent(h)) <= At(h) /\ At(h) <= At(i)
    BY <1>5, <1>11
  <2> QED BY <1>4, <1>5, <1>8, <1>11, <2>1
<1>14. pc' = "up" => \A i \in Below' : value'[e'] <= At(i)'
  <2> SUFFICES ASSUME pc' = "up", NEW i \in Below' PROVE At(n - 1) <= At(i)
    BY <1>8, <1>10, <1>11 DEF At
  <2>1. h > 0 /\ At(Parent(h)) > At(n - 1)
    BY DEF Greater, At
  <2>2. At(Parent(h)) <= At(h) /\ At(h) <= At(i)
    BY <1>5, <1>11, <2>1
  <2>3. At(h) \in Int /\ At(n - 1) \in Int /\ At(Parent(h)) \in Int /\ At(i) \in Int
    BY <1>3, <1>4, <1>5, <1>8, <1>11, <2>1
  <2> QED BY <2>1, <2>2, <2>3
<1>15. pc' = "down" /\ h > 0 => At(Parent(h))' <= value'[e']
  <2> SUFFICES ASSUME pc' = "down", h > 0 PROVE At(Parent(h)) <= At(n - 1)
    BY <1>5, <1>10 DEF At
  <2>1. ~(At(Parent(h)) > At(n - 1))
    BY DEF Greater, At
  <2>2. At(n - 1) \in Int /\ At(Parent(h)) \in Int
    BY <1>3, <1>4, <1>5
  <2> QED BY <2>1, <2>2
<1>16. Ordered'
  BY <1>12, <1>13, <1>14, <1>15 DEF Ordered
<1> QED BY <1>7, <1>9, <1>16

(* min_heap_pop: the hole is the root.                                     *)
LEMMA PopStep ==
  ASSUME HInv, Pop PROVE HInv'
<1>1. 0 \in 0 .. n - 1
  BY DEF Pop, HInv, Shape
<1>2. pc' = IF 0 > 0 /\ Greater(p[Parent(0)], p[n - 1]) THEN "up" ELSE "down"
  BY DEF Pop, Shift
<1> QED BY <1>1, <1>2, TakeLast DEF Pop, Shift

(* min_heap_erase: the hole is where the item says it is, which is right.  *)
LEMMA EraseStep ==
  ASSUME HInv, NEW x \in Items, Erase(x) PROVE HInv'
<1>1. idx[x] \in 0 .. n - 1 /\ p[idx[x]] = x
  BY MinHeapAssumption DEF Erase, HInv, Shape, Linked, Live
<1> QED BY <1>1, TakeLast DEF Erase, Shift

(* A changed item is its own hole.                                         *)
LEMMA AdjustStep ==
  ASSUME HInv, NEW x \in Items, Adjust(x) PROVE HInv'
<1> USE DEF HInv
<1> DEFINE h == idx[x]
<1>0. PICK v \in Values :
        /\ value' = [value EXCEPT ![x] = v]
        /\ Shift(IF h > 0 /\ value[p[Parent(h)]] > v THEN "up" ELSE "down", h, x)
  BY DEF Adjust
<1>1. /\ pc = "idle" /\ h # -1 /\ hole' = h /\ e' = x /\ out' = Null
      /\ p' = p /\ n' = n /\ a' = a /\ idx' = idx
      /\ pc' = IF h > 0 /\ At(Parent(h)) > v THEN "up" ELSE "down"
  BY <1>0 DEF Adjust, heap, Shift, At
<1>2. Live = 0 .. n - 1 /\ n \in Nat /\ Live' = (0 .. n - 1) \ {h}
  BY <1>1 DEF Live, Shape
<1>3. h \in Live /\ p[h] = x /\ h \in Nat
  BY <1>1, <1>2, MinHeapAssumption DEF Linked, Shape
<1>4. \A i \in Live : p[i] \in Items /\ idx[p[i]] = i
  BY DEF Linked
<1>5. value' \in [Items -> Values] /\ value'[x] = v
  BY <1>0 DEF Shape
<1>6. Shape'
  <2>1. hole' \in Slots /\ hole' \in 0 .. n' /\ hole' < a' /\ hole' # n'
    BY <1>1, <1>2, <1>3, SlotsAre DEF Shape
  <2>2. e' \in Items /\ out' = Null /\ e' # out'
    BY <1>1, MinHeapAssumption
  <2>3. pc' \in {"up", "down"}
    BY <1>1
  <2> QED BY <1>1, <1>5, <2>1, <2>2, <2>3 DEF Shape
<1>7. Live' \subseteq Live /\ (\A i \in Live' : i # h) /\ \A i \in Live : i # h => i \in Live'
  BY <1>2
<1>8. Linked'
  <2>1. \A i \in Live' : p'[i] \in Items /\ idx'[p'[i]] = i /\ p'[i] # e' /\ p'[i] # out'
    BY <1>1, <1>3, <1>4, <1>7, MinHeapAssumption
  <2>2. \A y \in Items : idx[y] # -1 => idx[y] \in Live /\ p[idx[y]] = y
    BY <1>1, MinHeapAssumption DEF Linked, Shape
  <2> QED BY <1>1, <1>3, <1>7, <2>1, <2>2 DEF Linked
<1>9. \A i \in Live' : At(i)' = At(i) /\ At(i) \in Int
  BY <1>0, <1>1, <1>3, <1>4, <1>7, MinHeapAssumption DEF At, Shape
<1>10. At(h) \in Int /\ v \in Int
  BY <1>3, <1>4, MinHeapAssumption DEF At, Shape
<1>11. h > 0 => Parent(h) \in Live' /\ At(Parent(h)) <= At(h)
  BY <1>2, <1>3, ParentBelow DEF Ordered
<1>12. \A i \in Below' : At(h) <= At(i) /\ i \in Live'
  BY <1>1, <1>3, <1>7 DEF Below, Ordered
<1>13. \A i \in Live' : i > 0 /\ Parent(i) \in Live' => At(Parent(i))' <= At(i)'
  BY <1>7, <1>9 DEF Ordered
<1>14. h > 0 => \A i \in Below' : At(Parent(h))' <= At(i)'
  <2> SUFFICES ASSUME h > 0, NEW i \in Below' PROVE At(Parent(h)) <= At(i)
    BY <1>1, <1>9, <1>11, <1>12
  <2>1. At(Parent(h)) <= At(h) /\ At(h) <= At(i)
    BY <1>11, <1>12
  <2>2. At(Parent(h)) \in Int /\ At(i) \in Int
    BY <1>9, <1>11, <1>12
  <2> QED BY <1>10, <2>1, <2>2
<1>15. pc' = "up" => \A i \in Below' : v <= At(i)'
  <2> SUFFICES ASSUME pc' = "up", NEW i \in Below' PROVE v <= At(i)
    BY <1>9, <1>12
  <2>1. h > 0 /\ At(Parent(h)) > v
    BY <1>1
  <2>2. At(Parent(h)) <= At(h) /\ At(h) <= At(i)
    BY <1>11, <1>12, <2>1
  <2>3. At(Parent(h)) \in Int /\ At(i) \in Int
    BY <1>9, <1>11, <1>12, <2>1
  <2> QED BY <1>10, <2>1, <2>2, <2>3
<1>16. pc' = "down" /\ h > 0 => At(Parent(h))' <= v
  <2> SUFFICES ASSUME pc' = "down", h > 0 PROVE At(Parent(h)) <= v
    BY <1>1, <1>9, <1>11
  <2>1. ~(At(Parent(h)) > v)
    BY <1>1
  <2>2. At(Parent(h)) \in Int
    BY <1>9, <1>11
  <2> QED BY <1>10, <2>1, <2>2
<1>17. Ordered'
  BY <1>1, <1>5, <1>13, <1>14, <1>15, <1>16 DEF Ordered
<1> QED BY <1>6, <1>8, <1>17

-----------------------------------------------------------------------------
(* The iterations of a shift: the hole moves to slot i, whose item fills   *)
(* the old hole.                                                           *)
LEMMA FillLinks ==
  ASSUME HInv, pc # "idle", NEW i \in Live, hole < n, Fill(i),
         NEW h \in Nat, h = hole
  PROVE  /\ Shape' /\ Linked'
         /\ Live' = (Live \ {i}) \cup {hole} /\ hole \notin Live
         /\ At(h)' = At(i)
         /\ \A j \in Live : j # i => At(j)' = At(j)
<1> USE DEF HInv
<1>1. Live = (0 .. n - 1) \ {hole} /\ hole \in 0 .. n - 1 /\ n \in Nat
  BY DEF Live, Shape
<1>2. Live' = (0 .. n - 1) \ {i}
  BY DEF Live, Fill
<1>3. Live' = (Live \ {i}) \cup {hole} /\ hole \notin Live
  BY <1>1, <1>2
<1>4. \A j \in Live : p[j] \in Items /\ idx[p[j]] = j /\ p[j] # e /\ p[j] # out
  BY DEF Linked
<1>5. p'[hole] = p[i] /\ \A j \in Live : j # i => p'[j] = p[j]
  <2>1. hole \in Slots /\ Live \subseteq Slots
    BY <1>1, SlotsAre DEF Shape
  <2> QED BY <1>3, <2>1 DEF Fill, Shape
<1>6. /\ idx'[p[i]] = hole
      /\ \A x \in Items : x # p[i] => idx'[x] = idx[x]
  BY <1>4 DEF Fill, Shape
<1>7. Shape'
  <2>1. p' \in [Slots -> Items \cup {Null}] /\ idx' \in [Items -> Int]
    BY <1>1, <1>4 DEF Fill, Shape
  <2>2. i \in 0 .. n /\ i \in Slots /\ i < a /\ i # n
    BY <1>1, SlotsAre DEF Shape
  <2> QED BY <1>1, <2>1, <2>2 DEF Fill, Shape
<1>8. Linked'
  <2>1. \A j \in Live' : p'[j] \in Items /\ idx'[p'[j]] = j /\ p'[j] # e' /\ p'[j] # out'
    BY <1>3, <1>4, <1>5, <1>6 DEF Fill
  <2>2. \A x \in Items : idx'[x] # -1 /\ x # e /\ x # out => idx'[x] \in Live' /\ p'[idx'[x]] = x
    <3> SUFFICES ASSUME NEW x \in Items, idx'[x] # -1, x # e, x # out
                 PROVE  idx'[x] \in Live' /\ p'[idx'[x]] = x
      OBVIOUS
    <3>1. CASE x = p[i]
      BY <1>3, <1>5, <1>6, <3>1
    <3>2. CASE x # p[i]
      <4>1. idx[x] \in Live /\ p[idx[x]] = x /\ idx'[x] = idx[x]
        BY <1>6, <3>2 DEF Linked
      <4>2. idx[x] # i
        BY <3>2, <4>1
      <4> QED BY <1>3, <1>5, <4>1, <4>2
    <3> QED BY <3>1, <3>2
  <2> QED BY <2>1, <2>2 DEF Linked, Fill
<1>9. At(h)' = At(i) /\ \A j \in Live : j # i => At(j)' = At(j)
  BY <1>5 DEF At, Fill
<1> QED BY <1>3, <1>7, <1>8, <1>9

(* min_heap_shift_up_, one iteration: the parent moves into the hole.      *)
LEMMA UpMoveStep ==
  ASSUME HInv, UpMove PROVE HInv'
<1> USE DEF HInv
<1>a. PICK h : h = hole
  OBVIOUS
<1>b. PICK q : q = Parent(h)
  OBVIOUS
<1>1. /\ h = hole /\ q = Parent(h) /\ h > 0 /\ Fill(q)
      /\ pc = "up" /\ pc' = "up" /\ hole' = q /\ e' = e /\ value' = value
  BY <1>a, <1>b DEF UpMove, Rises, Fill
<1>2. h \in Nat /\ h < n /\ n \in Nat /\ Live = (0 .. n - 1) \ {h}
  BY <1>1 DEF Shape, Live
<1>3. q \in Nat /\ q < h /\ q \in Live
  BY <1>1, <1>2, ParentBelow
<1>4. /\ Shape' /\ Linked'
      /\ Live' = (Live \ {q}) \cup {h} /\ h \notin Live
      /\ At(h)' = At(q)
      /\ \A j \in Live : j # q => At(j)' = At(j)
  BY <1>1, <1>2, <1>3, FillLinks
<1>5. value[e] < At(q) /\ value[e] \in Int /\ \A j \in Live : At(j) \in Int
  BY <1>1, MinHeapAssumption DEF UpMove, Rises, Greater, At, Shape, Linked
<1>6. \A i \in Live : i > 0 /\ Parent(i) = h => At(q) <= At(i)
  BY <1>1 DEF Ordered, Below
<1>7. \A i \in Live : i > 0 /\ Parent(i) \in Live => At(Parent(i)) <= At(i)
  BY DEF Ordered
<1>8. \A i \in Below' : i \in Live' /\ i > 0 /\ Parent(i) = q
  BY <1>1 DEF Below
<1>9. \A i \in Below' : At(q) <= At(i)'
  <2> SUFFICES ASSUME NEW i \in Below' PROVE At(q) <= At(i)'
    OBVIOUS
  <2>1. CASE i = h
    BY <1>3, <1>4, <1>5, <2>1
  <2>2. CASE i # h
    <3>1. i \in Live /\ i # q /\ Parent(i) = q /\ i > 0
      BY <1>4, <1>8, <2>2
    <3> QED BY <1>3, <1>4, <1>7, <3>1
  <2> QED BY <2>1, <2>2
<1>10. \A i \in Below' : At(i)' \in Int
  BY <1>3, <1>4, <1>5, <1>8
<1>11. ASSUME NEW i \in Live', i > 0, Parent(i) \in Live' PROVE At(Parent(i))' <= At(i)'
  <2>1. i # h
    BY <1>1, <1>3, <1>4, <1>11
  <2>2. i \in Live /\ i # q
    BY <1>3, <1>4, <1>11, <2>1
  <2>3. CASE Parent(i) = h
    BY <1>4, <1>6, <1>11, <2>2, <2>3
  <2>4. CASE Parent(i) # h
    BY <1>4, <1>7, <1>11, <2>2, <2>4
  <2> QED BY <2>3, <2>4
<1>12. ASSUME q > 0, NEW i \in Below' PROVE At(Parent(q))' <= At(i)'
  <2>1. Parent(q) \in Nat /\ Parent(q) < q
    BY <1>3, <1>12, ParentBelow
  <2>2. Parent(q) \in Live /\ Parent(q) # q
    BY <1>2, <1>3, <2>1
  <2>3. At(Parent(q)) <= At(q)
    BY <1>3, <1>7, <1>12, <2>2
  <2>4. \A j \in Live : j # q => At(j)' = At(j)
    BY <1>4
  <2>5. value'[p'[Parent(q)]] = At(Parent(q))
    BY <1>4, <2>2 DEF At
  <2>6. At(Parent(q)) \in Int /\ At(q) \in Int /\ At(i)' \in Int
    BY <1>3, <1>5, <1>10, <1>12, <2>2
  <2>7. At(q) <= At(i)'
    BY <1>9, <1>12
  <2> QED BY <2>3, <2>5, <2>6, <2>7 DEF At
<1>13. \A i \in Below' : value[e] <= At(i)'
  BY <1>3, <1>5, <1>9, <1>10
<1>14. Ordered'
  <2>1. pc' # "idle" /\ hole' > 0 => \A i \in Below' : At(Parent(hole))' <= At(i)'
    BY <1>1, <1>12
  <2> QED BY <1>1, <1>11, <1>13, <2>1 DEF Ordered
<1> QED BY <1>4, <1>14

(* The child that moves up is the smaller one.                             *)
LEMMA MinChildLeast ==
  ASSUME HInv, pc = "down", LastChild <= n
  PROVE  /\ MinChild \in Live /\ MinChild > 0 /\ Parent(MinChild) = hole
         /\ \A i \in Live : i > 0 /\ Parent(i) = hole => At(MinChild) <= At(i)
<1> USE DEF HInv
<1>1. hole \in Nat /\ n \in Nat /\ Live = (0 .. n - 1) \ {hole}
  BY DEF Shape, Live
<1>2. \A j \in Live : At(j) \in Int
  BY MinHeapAssumption DEF At, Shape, Linked
<1>3. MinChild \in {2 * hole + 1, 2 * hole + 2} /\ (LastChild = n => MinChild = 2 * hole + 1)
  BY <1>1 DEF MinChild, LastChild
<1>4. MinChild \in Live /\ MinChild > 0
  BY <1>1, <1>3 DEF LastChild
<1>5. Parent(MinChild) = hole
  BY <1>1, <1>3, <1>4, Children
<1>6. ASSUME NEW i \in Live, i > 0, Parent(i) = hole PROVE At(MinChild) <= At(i)
  <2>1. i = 2 * hole + 1 \/ i = 2 * hole + 2
    BY <1>1, <1>6, Children
  <2>2. CASE i = MinChild
    BY <1>2, <1>6, <2>2
  <2>3. CASE i # MinChild /\ LastChild = n
    BY <1>1, <1>3, <1>6, <2>1, <2>3 DEF LastChild
  <2>4. CASE i # MinChild /\ LastChild # n
    <3>1. LastChild = 2 * hole + 2 /\ LastChild - 1 = 2 * hole + 1
      BY <1>1 DEF LastChild
    <3>2. LastChild \in Live /\ LastChild - 1 \in Live
      BY <1>1, <2>4, <3>1
    <3>3. At(LastChild) \in Int /\ At(LastChild - 1) \in Int
      BY <1>2, <3>2
    <3>4. CASE At(LastChild) > At(LastChild - 1)
      <4>1. MinChild = LastChild - 1
        BY <3>4 DEF MinChild, Greater, At
      <4>2. i = LastChild
        BY <2>1, <2>4, <3>1, <4>1
      <4> QED BY <3>3, <3>4, <4>1, <4>2
    <3>5. CASE ~(At(LastChild) > At(LastChild - 1))
      <4>1. MinChild = LastChild
        BY <2>4, <3>5 DEF MinChild, Greater, At
      <4>2. i = LastChild - 1
        BY <2>1, <2>4, <3>1, <4>1
      <4> QED BY <3>3, <3>5, <4>1, <4>2
    <3> QED BY <3>4, <3>5
  <2> QED BY <2>2, <2>3, <2>4
<1> QED BY <1>4, <1>5, <1>6

(* min_heap_shift_down_, one iteration: the lesser child moves into the    *)
(* hole.                                                                   *)
LEMMA DownMoveStep ==
  ASSUME HInv, DownMove PROVE HInv'
<1> USE DEF HInv
<1>a. PICK h : h = hole
  OBVIOUS
<1>b. PICK c : c = MinChild
  OBVIOUS
<1>1. /\ h = hole /\ c = MinChild /\ Fill(c) /\ LastChild <= n
      /\ pc = "down" /\ pc' = "down" /\ hole' = c /\ e' = e /\ value' = value
  BY <1>a, <1>b DEF DownMove, Sinks, Fill
<1>2. h \in Nat /\ h < n /\ n \in Nat /\ Live = (0 .. n - 1) \ {h}
  BY <1>1 DEF Shape, Live, LastChild
<1>3. /\ c \in Live /\ c > 0 /\ c \in Nat /\ Parent(c) = h /\ c # h
      /\ \A i \in Live : i > 0 /\ Parent(i) = h => At(c) <= At(i)
  BY <1>1, <1>2, MinChildLeast
<1>4. /\ Shape' /\ Linked'
      /\ Live' = (Live \ {c}) \cup {h} /\ h \notin Live
      /\ At(h)' = At(c)
      /\ \A j \in Live : j # c => At(j)' = At(j)
  BY <1>1, <1>2, <1>3, FillLinks
<1>5. At(c) < value[e] /\ value[e] \in Int /\ \A j \in Live : At(j) \in Int
  BY <1>1, MinHeapAssumption DEF DownMove, Sinks, Greater, At, Shape, Linked
<1>6. h > 0 => \A i \in Live : i > 0 /\ Parent(i) = h => At(Parent(h)) <= At(i)
  BY <1>1 DEF Ordered, Below
<1>7. \A i \in Live : i > 0 /\ Parent(i) \in Live => At(Parent(i)) <= At(i)
  BY DEF Ordered
<1>8. \A i \in Below' : i \in Live' /\ i > 0 /\ Parent(i) = c
  BY <1>1 DEF Below
<1>9. ASSUME NEW i \in Below' PROVE At(c) <= At(i)'
  <2>1. i > 0 /\ Parent(i) = c /\ i \in Nat
    BY <1>2, <1>4, <1>8, <1>9
  <2>2. i # h /\ i # c
    <3>1. c < i
      BY <2>1, ParentBelow
    <3>2. h < c
      BY <1>3, ParentBelow
    <3> QED BY <1>2, <1>3, <2>1, <3>1, <3>2
  <2>3. i \in Live
    BY <1>4, <1>8, <1>9, <2>2
  <2> QED BY <1>3, <1>4, <1>7, <2>1, <2>2, <2>3
<1>10. ASSUME NEW i \in Live', i > 0, Parent(i) \in Live' PROVE At(Parent(i))' <= At(i)'
  <2>1. Parent(i) # c
    BY <1>3, <1>4, <1>10
  <2>2. CASE i = h
    <3>1. Parent(h) \in Live /\ Parent(h) # c
      <4>1. Parent(h) < h /\ Parent(h) \in Nat
        BY <1>2, <1>10, <2>2, ParentBelow
      <4> QED BY <1>2, <2>1, <2>2, <4>1
    <3>2. At(Parent(h)) <= At(c)
      BY <1>3, <1>6, <1>10, <2>2
    <3> QED BY <1>4, <2>2, <3>1, <3>2
  <2>3. CASE i # h
    <3>1. i \in Live /\ i # c
      BY <1>3, <1>4, <1>10, <2>3
    <3>2. CASE Parent(i) = h
      BY <1>3, <1>4, <1>10, <3>1, <3>2
    <3>3. CASE Parent(i) # h
      BY <1>4, <1>7, <1>10, <2>1, <3>1, <3>3
    <3> QED BY <3>2, <3>3
  <2> QED BY <2>2, <2>3
<1>11. At(Parent(c))' <= value[e]
  <2>1. value'[p'[Parent(c)]] = At(c)
    BY <1>3, <1>4 DEF At
  <2>2. At(c) \in Int
    BY <1>3, <1>5
  <2> QED BY <1>5, <2>1, <2>2 DEF At
<1>12. Ordered'
  <2>1. hole' > 0 => At(Parent(hole))' <= value'[e']
    BY <1>1, <1>11
  <2>2. \A i \in Below' : At(Parent(hole))' <= At(i)'
    <3>1. At(Parent(c))' = At(c)
      BY <1>3, <1>4 DEF At
    <3> QED BY <1>1, <1>9, <3>1
  <2> QED BY <1>1, <1>10, <2>1, <2>2 DEF Ordered
<1> QED BY <1>4, <1>12

-----------------------------------------------------------------------------
(* The hole is filled where the item belongs, and the call ends.           *)
LEMMA PlaceStep ==
  ASSUME HInv, pc # "idle", Place, NEW h, h = hole,
         h > 0 /\ h < n => At(Parent(h)) <= value[e],
         h < n => \A i \in Live : i > 0 /\ Parent(i) = h => value[e] <= At(i)
  PROVE  HInv'
<1> USE DEF HInv
<1>1. /\ h \in 0 .. n /\ n \in Nat /\ Live = (0 .. n - 1) \ {h} /\ Live' = 0 .. n - 1
      /\ n' = n /\ value' = value /\ e' = Null /\ out' = Null /\ pc' = "idle"
  BY DEF Shape, Live, Place
<1>2. p'[h] = e /\ (\A j \in Live : p'[j] = p[j]) /\ h \in Slots /\ e \in Items
  <2>1. h \in Slots /\ Live \subseteq Slots /\ e \in Items
    BY <1>1, SlotsAre DEF Shape
  <2> QED BY <1>1, <2>1 DEF Place, Shape
<1>3. \A x \in Items : idx'[x] = IF x = out THEN -1 ELSE IF x = e THEN h ELSE idx[x]
  BY DEF Place
<1>4. \A j \in Live : p[j] \in Items /\ idx[p[j]] = j /\ p[j] # e /\ p[j] # out
  BY DEF Linked
<1>5. Shape'
  <2>1. p' \in [Slots -> Items \cup {Null}]
    BY <1>2 DEF Place, Shape
  <2>2. idx' \in [Items -> Int]
    BY <1>1 DEF Place, Shape
  <2> QED BY <1>1, <2>1, <2>2 DEF Place, Shape
<1>6. \A j \in 0 .. n - 1 : p'[j] \in Items /\ idx'[p'[j]] = j
  <2> SUFFICES ASSUME NEW j \in 0 .. n - 1 PROVE p'[j] \in Items /\ idx'[p'[j]] = j
    OBVIOUS
  <2>1. CASE j = h
    <3>1. e # out
      BY <1>1, <2>1 DEF Shape
    <3> QED BY <1>2, <1>3, <2>1, <3>1
  <2>2. CASE j # h
    BY <1>1, <1>2, <1>3, <1>4, <2>2
  <2> QED BY <2>1, <2>2
<1>7. ASSUME NEW x \in Items, idx'[x] # -1 PROVE idx'[x] \in 0 .. n - 1 /\ p'[idx'[x]] = x
  <2>1. x # out
    BY <1>3, <1>7
  <2>2. CASE x = e
    <3>1. h # n
      BY <1>1, <2>1, <2>2 DEF Shape
    <3> QED BY <1>1, <1>2, <1>3, <2>1, <2>2, <3>1
  <2>3. CASE x # e
    <3>1. idx[x] \in Live /\ p[idx[x]] = x /\ idx'[x] = idx[x]
      BY <1>3, <1>7, <2>1, <2>3 DEF Linked
    <3> QED BY <1>1, <1>2, <3>1
  <2> QED BY <2>2, <2>3
<1>8. Linked'
  BY <1>1, <1>6, <1>7, MinHeapAssumption DEF Linked
<1>9. (\A j \in Live : At(j)' = At(j)) /\ (h < n => At(h)' = value[e])
  BY <1>1, <1>2 DEF At
<1>10. ASSUME NEW i \in 0 .. n - 1, i > 0, Parent(i) \in 0 .. n - 1
       PROVE  At(Parent(i))' <= At(i)'
  <2>1. Parent(i) < i
    BY <1>10, ParentBelow
  <2>2. CASE i = h
    <3>1. Parent(h) \in Live /\ h < n
      BY <1>1, <1>10, <2>1, <2>2
    <3> QED BY <1>9, <1>10, <2>2, <3>1
  <2>3. CASE i # h /\ Parent(i) = h
    <3>1. h < n /\ i \in Live
      BY <1>1, <1>10, <2>3
    <3> QED BY <1>9, <1>10, <2>3, <3>1
  <2>4. CASE i # h /\ Parent(i) # h
    <3>1. i \in Live /\ Parent(i) \in Live
      BY <1>1, <1>10, <2>4
    <3>2. At(Parent(i)) <= At(i)
      BY <1>10, <3>1 DEF Ordered
    <3> QED BY <1>9, <3>1, <3>2
  <2> QED BY <2>2, <2>3, <2>4
<1>11. Ordered'
  BY <1>1, <1>10 DEF Ordered
<1> QED BY <1>5, <1>8, <1>11

(* Values around the hole are integers.                                    *)
LEMMA Above ==
  ASSUME HInv, pc # "idle", hole > 0
  PROVE  /\ At(Parent(hole)) \in Int /\ value[e] \in Int
         /\ \A i \in Live : At(i) \in Int
<1>1. hole \in 0 .. n /\ n \in Nat /\ Live = (0 .. n - 1) \ {hole}
  BY DEF HInv, Shape, Live
<1>2. Parent(hole) \in Live
  BY <1>1, ParentBelow
<1>3. \A i \in Live : At(i) \in Int
  BY MinHeapAssumption DEF HInv, Shape, Linked, At
<1>4. value[e] \in Int
  BY MinHeapAssumption DEF HInv, Shape
<1> QED BY <1>2, <1>3, <1>4

(* min_heap_shift_up_ ends: the parent is not greater than the item.       *)
LEMMA UpPlaceStep ==
  ASSUME HInv, UpPlace PROVE HInv'
<1>1. PICK h : h = hole
  OBVIOUS
<1>2. h > 0 /\ h < n => At(Parent(h)) <= value[e]
  <2> SUFFICES ASSUME h > 0 PROVE At(Parent(h)) <= value[e]
    OBVIOUS
  <2>1. ~(At(Parent(h)) > value[e])
    BY <1>1 DEF UpPlace, Rises, Greater, At
  <2>2. At(Parent(h)) \in Int /\ value[e] \in Int
    BY <1>1, Above DEF UpPlace
  <2> QED BY <2>1, <2>2
<1>3. \A i \in Live : i > 0 /\ Parent(i) = h => value[e] <= At(i)
  BY <1>1 DEF UpPlace, HInv, Ordered, Below
<1> QED BY <1>1, <1>2, <1>3, PlaceStep DEF UpPlace

(* min_heap_shift_down_ ends: no child is less than the item.              *)
LEMMA DownPlaceStep ==
  ASSUME HInv, DownPlace PROVE HInv'
<1>1. PICK h : h = hole
  OBVIOUS
<1>2. h > 0 /\ h < n => At(Parent(h)) <= value[e]
  BY <1>1 DEF DownPlace, HInv, Ordered
<1>3. ASSUME NEW i \in Live, i > 0, Parent(i) = h PROVE value[e] <= At(i)
  <2>1. h \in Nat /\ n \in Nat /\ i \in 0 .. n - 1
    BY <1>1, <1>3 DEF DownPlace, HInv, Shape, Live
  <2>2. i = 2 * h + 1 \/ i = 2 * h + 2
    BY <1>3, <2>1, Children
  <2>3. LastChild <= n
    BY <1>1, <2>1, <2>2 DEF LastChild
  <2>4. MinChild \in Live /\ At(MinChild) <= At(i)
    BY <1>1, <1>3, <2>3, MinChildLeast DEF DownPlace
  <2>5. ~(value[e] > At(MinChild))
    BY <2>3 DEF DownPlace, Sinks, Greater, At
  <2>6. value[e] \in Int /\ \A j \in Live : At(j) \in Int
    BY MinHeapAssumption DEF DownPlace, HInv, Shape, Linked, At
  <2> QED BY <1>3, <2>4, <2>5, <2>6
<1> QED BY <1>1, <1>2, <1>3, PlaceStep DEF DownPlace

-----------------------------------------------------------------------------

(* Init: no item is in the heap.                                           *)
LEMMA Initial == Init => HInv
<1> SUFFICES ASSUME Init PROVE HInv
  OBVIOUS
<1>1. Shape
  BY SlotsAre DEF Init, Shape
<1>2. Live = {}
  BY DEF Init, Live
<1>3. Linked /\ Ordered
  BY <1>2 DEF Init, Linked, Ordered
<1> QED BY <1>1, <1>3 DEF HInv

(* Every step keeps HInv.                                                  *)
LEMMA Inductive == HInv /\ [Next]_vars => HInv'
<1> SUFFICES ASSUME HInv, [Next]_vars PROVE HInv'
  OBVIOUS
<1>1. ASSUME NEW x \in Items, Push(x) PROVE HInv'
  BY <1>1, PushStep
<1>2. ASSUME NEW x \in Items, Erase(x) PROVE HInv'
  BY <1>2, EraseStep
<1>3. ASSUME NEW x \in Items, Adjust(x) PROVE HInv'
  BY <1>3, AdjustStep
<1>4. CASE Pop
  BY <1>4, PopStep
<1>5. CASE UpMove
  BY <1>5, UpMoveStep
<1>6. CASE UpPlace
  BY <1>6, UpPlaceStep
<1>7. CASE DownMove
  BY <1>7, DownMoveStep
<1>8. CASE DownPlace
  BY <1>8, DownPlaceStep
<1>9. CASE UNCHANGED vars
  BY <1>9 DEF vars, heap, HInv, Shape, Linked, Ordered, Live, Below, At
<1> QED BY <1>1, <1>2, <1>3, <1>4, <1>5, <1>6, <1>7, <1>8, <1>9 DEF Next

(* Between calls no item is smaller than its parent, after any sequence of *)
(* push, pop, erase and adjust on any number of items.                     *)
THEOREM OrderCorrect == Spec => []HeapOrdered
<1>1. HInv => HeapOrdered
  <2> SUFFICES ASSUME HInv, pc = "idle", NEW i \in 1 .. n - 1
               PROVE  value[p[Parent(i)]] <= value[p[i]]
    BY DEF HeapOrdered
  <2>1. i \in Nat /\ i > 0 /\ n \in Nat
    BY DEF HInv, Shape
  <2>2. i \in Live /\ Parent(i) \in Live
    BY <2>1, ParentBelow DEF Live
  <2> QED BY <2>1, <2>2 DEF HInv, Ordered, At
<1> QED BY <1>1, Initial, Inductive, PTL DEF Spec

(* Between calls every item in the heap knows its slot and no other item   *)
(* claims one, so erase and adjust, which trust min_heap_idx, are safe.    *)
THEOREM BackPointersCorrect == Spec => []BackPointers
<1>1. HInv => BackPointers
  BY MinHeapAssumption DEF HInv, BackPointers, Linked, Live, Shape
<1> QED BY <1>1, Initial, Inductive, PTL DEF Spec

(* No push, and no iteration of a shift, writes past the reserved slots.   *)
THEOREM WithinReserve == Spec => [](n <= a /\ (pc # "idle" => hole < a))
<1>1. HInv => n <= a /\ (pc # "idle" => hole < a)
  BY DEF HInv, Shape
<1> QED BY <1>1, Initial, Inductive, PTL DEF Spec

(* What the types say beyond HInv: the index of an item outside the live   *)
(* slots, the hole between calls, and what pop returned.                   *)
Ranges ==
  /\ \A x \in Items : idx[x] \in -1 .. Cardinality(Items)
  /\ pc = "idle" => hole \in Nat
  /\ ret \in Items \cup {Null}

(* Indices given by a shift are slots of the hole.                         *)
LEMMA RangesStep == HInv /\ HInv' /\ Ranges /\ [Next]_vars => Ranges'
<1> SUFFICES ASSUME HInv, HInv', Ranges, [Next]_vars PROVE Ranges'
  OBVIOUS
<1> USE DEF Ranges
<1>1. /\ 0 \in Nat /\ -1 \in -1 .. Cardinality(Items)
      /\ pc # "idle" => hole \in Nat /\ hole \in -1 .. Cardinality(Items)
  BY SlotsAre DEF HInv, Shape
<1>2. ASSUME NEW x \in Items, Push(x) PROVE Ranges'
  BY <1>2 DEF Push, Shift
<1>3. ASSUME NEW x \in Items, Erase(x) PROVE Ranges'
  BY <1>3 DEF Erase, Shift
<1>4. ASSUME NEW x \in Items, Adjust(x) PROVE Ranges'
  BY <1>4 DEF Adjust, Shift
<1>5. CASE Pop
  <2>1. 0 \in Slots
    BY <1>5, SlotsAre DEF Pop, HInv, Shape
  <2>2. p[0] \in Items \cup {Null}
    BY <2>1 DEF HInv, Shape
  <2> QED BY <1>5, <2>2 DEF Pop, Shift
<1>6. ASSUME NEW j, Fill(j), pc # "idle" PROVE Ranges'
  <2>1. \A x \in Items : idx'[x] = idx[x] \/ idx'[x] = hole
    BY <1>6 DEF Fill, HInv, Shape
  <2> QED BY <1>1, <1>6, <2>1 DEF Fill
<1>7. ASSUME Place, pc # "idle" PROVE Ranges'
  BY <1>1, <1>7 DEF Place
<1>8. CASE UpMove \/ DownMove
  BY <1>6, <1>8 DEF UpMove, DownMove
<1>9. CASE UpPlace \/ DownPlace
  BY <1>7, <1>9 DEF UpPlace, DownPlace
<1>10. CASE UNCHANGED vars
  BY <1>10 DEF vars, heap
<1> QED BY <1>2, <1>3, <1>4, <1>5, <1>8, <1>9, <1>10 DEF Next

(* The types, for any number of items and any reserve: no index, size or   *)
(* hole leaves the array.                                                  *)
THEOREM TypesCorrect == Spec => []TypeOK
<1>1. Init => Ranges
  BY SlotsAre DEF Init, Ranges
<1>2. HInv /\ Ranges => TypeOK
  <2> SUFFICES ASSUME HInv, Ranges PROVE TypeOK
    OBVIOUS
  <2>1. idx \in [Items -> -1 .. Cardinality(Items)]
    BY DEF HInv, Shape, Ranges
  <2>2. /\ n \in 0 .. Cardinality(Items) /\ a \in Nat /\ n <= a
        /\ hole \in Nat /\ (pc # "idle" => hole < a)
    BY SlotsAre DEF HInv, Shape, Ranges
  <2>3. e \in Items \cup {Null} /\ out \in Items \cup {Null} /\ ret \in Items \cup {Null}
    BY DEF HInv, Shape, Ranges
  <2> QED BY <2>1, <2>2, <2>3 DEF TypeOK, HInv, Shape
<1>3. HInv /\ Ranges /\ [Next]_vars => (HInv /\ Ranges)'
  BY Inductive, RangesStep
<1> QED BY <1>1, <1>2, <1>3, Initial, PTL DEF Spec

(***************************************************************************)
(* The heap is a priority queue.                                           *)
(***************************************************************************)
(* The items in the queue, by what they say of themselves.                 *)
Member(x) ==
  /\ x \in Items
  /\ IF pc = "idle" THEN idx[x] # -1 ELSE x # out /\ (x = e \/ idx[x] # -1)
Members == \A x : x \in Inside <=> Member(x)

(* It is what they say.                                                    *)
LEMMA InsideIs == HInv => Members
<1> SUFFICES ASSUME HInv PROVE \A x : x \in Inside <=> Member(x)
  BY DEF Members
<1> USE DEF HInv, Member
<1>1. \A i \in Live : p[i] \in Items /\ idx[p[i]] = i /\ p[i] # e /\ p[i] # out /\ i # -1
  BY DEF Linked, Live, Shape
<1>2. \A x \in Items : idx[x] # -1 /\ x # e /\ x # out => idx[x] \in Live /\ p[idx[x]] = x
  BY DEF Linked
<1>3. CASE pc = "idle"
  <2>1. \A x : x \in Inside <=> \E i \in Live : p[i] = x
    BY <1>3 DEF Inside, Live
  <2>2. \A x \in Items : x # e /\ x # out
    BY <1>3, MinHeapAssumption DEF Shape
  <2> QED BY <1>1, <1>2, <1>3, <2>1, <2>2
<1>4. CASE pc # "idle"
  <2>1. \A x : x \in Inside <=> x # out /\ (x = e \/ \E i \in Live : p[i] = x)
    BY <1>4 DEF Inside, Live
  <2>2. e \in Items
    BY <1>4 DEF Shape
  <2> QED BY <1>1, <1>2, <1>4, <2>1, <2>2
<1> QED BY <1>3, <1>4

(* The root is a least item: else there is a least slot with a lesser one, *)
(* whose parent comes before it.                                           *)
LEMMA RootIsLeast ==
  ASSUME HInv, pc = "idle", NEW i \in 0 .. n - 1
  PROVE  At(0) <= At(i)
<1> DEFINE Wrong == {j \in 0 .. n - 1 : ~(At(0) <= At(j))}
<1>1. n \in Nat /\ Live = 0 .. n - 1 /\ \A j \in Live : At(j) \in Int
  BY MinHeapAssumption DEF HInv, Shape, Linked, Live, At
<1>2. SUFFICES ASSUME Wrong # {} PROVE FALSE
  BY <1>2
<1>3. Wrong \in SUBSET Nat
  BY <1>1
<1> HIDE DEF Wrong
<1>4. PICK j \in Wrong : \A k \in Wrong : ~ (<<k, j>> \in OpToRel(<, Nat))
  BY <1>2, <1>3, WFMin, NatLessThanWellFounded, Zenon
<1>5. \A k \in Wrong : <<k, j>> \in Nat \X Nat /\ <<k, j>>[1] = k /\ <<k, j>>[2] = j
  BY <1>3
<1>6. \A k \in Wrong : ~(k < j)
  BY <1>4, <1>5 DEF OpToRel
<1> USE DEF Wrong
<1>7. j \in 0 .. n - 1 /\ ~(At(0) <= At(j)) /\ j > 0
  BY <1>1
<1>8. Parent(j) \in Nat /\ Parent(j) < j /\ Parent(j) \in Live
  BY <1>1, <1>7, ParentBelow
<1>9. At(0) <= At(Parent(j))
  BY <1>1, <1>6, <1>8
<1>10. At(Parent(j)) <= At(j)
  BY <1>1, <1>7, <1>8 DEF HInv, Ordered
<1>11. 0 \in Live
  BY <1>1, <1>7
<1> QED BY <1>1, <1>7, <1>8, <1>9, <1>10, <1>11

(* What a step does to the queue.                                          *)
LEMMA QueueStep ==
  ASSUME HInv, HInv', Members, Members', Next
  PROVE  Queue!QueueNext \/ UNCHANGED <<Inside, value, ret>>
<1> USE DEF Member
<1>1. (\A x : x \in Inside <=> Member(x)) /\ \A x : x \in Inside' <=> Member(x)'
  BY DEF Members
<1>2. Null \notin Items
  BY MinHeapAssumption
<1>3. ASSUME NEW x \in Items, Push(x) PROVE Queue!QueueNext
  <2>1. x \notin Inside /\ \A y : y \in Inside' <=> y \in Inside \/ y = x
    BY <1>1, <1>2, <1>3 DEF Push, Shift
  <2>2. Inside' = Inside \cup {x}
    BY <2>1
  <2> QED BY <1>3, <2>1, <2>2 DEF Push, Queue!QueueNext, Queue!Push
<1>4. ASSUME NEW x \in Items, Adjust(x) PROVE Queue!QueueNext
  <2>1. /\ pc = "idle" /\ pc' \in {"up", "down"} /\ out' = Null /\ e' = x /\ idx' = idx /\ idx[x] # -1
        /\ ret' = Null /\ \E v \in Values : value' = [value EXCEPT ![x] = v]
    BY <1>4 DEF Adjust, Shift
  <2>2. x \in Inside /\ \A y : y \in Inside' <=> y \in Inside
    BY <1>1, <1>2, <2>1
  <2>3. Inside' = Inside
    BY <2>2
  <2> QED BY <2>1, <2>2, <2>3 DEF Queue!QueueNext, Queue!Adjust
<1>5. n \in Nat /\ (pc = "idle" => \A i \in 0 .. n - 1 : p[i] \in Items /\ idx[p[i]] = i)
  BY DEF HInv, Shape, Linked, Live
<1>6. ASSUME NEW x \in Items, Erase(x) PROVE Queue!QueueNext
  <2>1. /\ pc = "idle" /\ pc' \in {"up", "down"} /\ out' = x /\ e' = p[n - 1] /\ idx' = idx /\ idx[x] # -1
        /\ ret' = Null /\ value' = value
    BY <1>6 DEF Erase, Shift
  <2>2. idx[x] \in 0 .. n - 1
    BY <1>2, <2>1 DEF HInv, Shape, Linked, Live
  <2>3. n - 1 \in 0 .. n - 1 /\ n - 1 # -1
    BY <1>5, <2>2
  <2>4. x \in Inside /\ \A y : y \in Inside' <=> y \in Inside /\ y # x
    BY <1>1, <1>5, <2>1, <2>3
  <2>5. Inside' = Inside \ {x}
    BY <2>4
  <2> QED BY <2>1, <2>4, <2>5 DEF Queue!QueueNext, Queue!Erase
<1>7. ASSUME Pop PROVE Queue!QueueNext
  <2>1. /\ pc = "idle" /\ pc' = "down" /\ out' = p[0] /\ e' = p[n - 1] /\ idx' = idx /\ n > 0
        /\ ret' = p[0] /\ value' = value
    BY <1>7 DEF Pop, Shift
  <2>2. 0 \in 0 .. n - 1 /\ n - 1 \in 0 .. n - 1 /\ n - 1 # -1 /\ 0 # -1
    BY <1>5, <2>1
  <2>3. PICK x \in Items : x = p[0] /\ idx[x] = 0
    BY <1>5, <2>1, <2>2
  <2>4. x \in Inside /\ \A y : y \in Inside' <=> y \in Inside /\ y # x
    BY <1>1, <1>5, <2>1, <2>2, <2>3
  <2>5. Inside' = Inside \ {x}
    BY <2>4
  <2>6. ASSUME NEW y \in Inside PROVE value[x] <= value[y]
    <3>1. PICK i \in 0 .. n - 1 : y = p[i]
      BY <2>1, <2>6 DEF Inside
    <3> QED BY <2>1, <2>3, <3>1, RootIsLeast DEF At
  <2> QED BY <2>1, <2>3, <2>4, <2>5, <2>6 DEF Queue!QueueNext, Queue!Pop
<1>8. ASSUME NEW i \in Live, Fill(i), pc # "idle" PROVE UNCHANGED <<Inside, value, ret>>
  <2>1. p[i] \in Items /\ idx[p[i]] = i /\ i # -1 /\ hole \in Nat /\ idx \in [Items -> Int]
    BY <1>8 DEF HInv, Linked, Live, Shape
  <2>2. /\ \A y \in Items : idx'[y] = IF y = p[i] THEN hole ELSE idx[y]
        /\ UNCHANGED <<pc, e, out, value, ret>>
    BY <1>8, <2>1 DEF Fill
  <2>3. \A y : y \in Inside' <=> y \in Inside
    BY <1>1, <1>8, <2>1, <2>2
  <2> QED BY <2>2, <2>3
<1>9. ASSUME Place, pc # "idle" PROVE UNCHANGED <<Inside, value, ret>>
  <2>1. /\ \A y \in Items : idx'[y] = IF y = out THEN -1 ELSE IF y = e THEN hole ELSE idx[y]
        /\ pc' = "idle" /\ UNCHANGED <<value, ret>>
    BY <1>9 DEF Place
  <2>2. hole \in Nat
    BY <1>9 DEF HInv, Shape
  <2>3. \A y : y \in Inside' <=> y \in Inside
    BY <1>1, <1>9, <2>1, <2>2
  <2> QED BY <2>1, <2>3
<1>10. CASE UpMove
  <2>1. hole > 0 /\ hole \in Nat /\ hole <= n /\ Live = (0 .. n - 1) \ {hole}
    BY <1>10 DEF UpMove, Rises, HInv, Shape, Live
  <2>2. Parent(hole) \in Live
    BY <1>5, <2>1, ParentBelow
  <2> QED BY <1>8, <1>10, <2>2 DEF UpMove
<1>11. CASE DownMove
  <2>1. MinChild \in Live
    BY <1>11, MinChildLeast DEF DownMove, Sinks
  <2> QED BY <1>8, <1>11, <2>1 DEF DownMove
<1> QED BY <1>3, <1>4, <1>6, <1>7, <1>9, <1>10, <1>11 DEF Next, UpPlace, DownPlace

(* The heap implements the queue: a call takes effect when it is made, pop *)
(* returns a least item, and a shift changes neither what is inside nor    *)
(* any value, for any number of items and any values.                      *)
THEOREM ImplementsPriorityQueue == Spec => ImplementsQueue
<1>1. Init => Queue!QueueInit
  BY DEF Init, Queue!QueueInit, Inside
<1>2. HInv /\ HInv' /\ Members /\ Members' /\ [Next]_vars => [Queue!QueueNext]_<<Inside, value, ret>>
  <2> SUFFICES ASSUME HInv, HInv', Members, Members', [Next]_vars
               PROVE  Queue!QueueNext \/ UNCHANGED <<Inside, value, ret>>
    OBVIOUS
  <2>1. CASE UNCHANGED vars
    BY <2>1 DEF vars, heap, Inside
  <2>2. CASE Next
    BY <2>2, QueueStep
  <2> QED BY <2>1, <2>2
<1> QED BY <1>1, <1>2, InsideIs, Initial, Inductive, PTL DEF Spec, ImplementsQueue, Queue!QueueSpec
=============================================================================
