---------------------------- MODULE EepromProofs ----------------------------
(***************************************************************************)
(* Proofs about module Eeprom, for any device, adapter, lease and number   *)
(* of processes: types, the coherence of the cache, what reads return and  *)
(* how old it is, and what the count of a write means.                     *)
(***************************************************************************)
EXTENDS Eeprom, TLAPS

Reading == {"read", "fill", "stamp", "mark", "copied"}
Putting == {"write", "clear", "page", "written"}
Locking == {"fill", "stamp", "mark"}

(* Where a process is in its call, and how far it may have got.            *)
PShape(p) ==
  /\ pc[p] = "idle" => call[p] = NoCall /\ page[p] = 0
  /\ pc[p] # "idle" => call[p] \in Calls(p)
  /\ pc[p] \in Reading => ~call[p].write
  /\ pc[p] \in Putting => call[p].write
  /\ pc[p] \in Locking <=> update_lock = p
  /\ pc[p] \in Locking \cup {"clear", "page"} => slice[p] <= LastSlice(p)
  /\ pc[p] = "fill" => \/ page[p] = slice[p] * PagesPerBlk
                       \/ page[p] = slice[p] * PagesPerBlk + 1 /\ ~BlockRead
  /\ pc[p] \in {"write", "clear"} => page[p] <= slice[p] * PagesPerBlk
  /\ pc[p] = "page" => page[p] <= slice[p] * PagesPerBlk + 1

(* The variables that TypeOK says less of.                                 *)
Domains == /\ DOMAIN call = Procs /\ DOMAIN buf = Procs /\ DOMAIN failed = Procs
           /\ calm \in BOOLEAN

Shape == TypeOK /\ Domains /\ \A p \in Procs : PShape(p)

(* Pages of which the cache has what the device has.                       *)
Same(g) == data[g] = device[g]

(* As long as it is calm: a write is alone, and so far its pages are those *)
(* of the slices it has cleared; nobody changes valid between the two      *)
(* accesses; a refresh has fetched what is behind its page counter; and a  *)
(* read has found or made the slices behind its slice counter coherent.    *)
PCalm(p) ==
  /\ Writing(p) => \A q \in Procs \ {p} : ~Active(q)
  /\ pc[p] \in {"write", "clear"} => page[p] = slice[p] * PagesPerBlk
  /\ pc[p] = "page" => /\ page[p] \in PagesOf(slice[p])
                       /\ slice[p] \notin valid
  /\ pc[p] \in Putting => \A g \in 0 .. page[p] - 1 : device[g] = call[p].out[g]
  /\ pc[p] \in {"clear", "mark"} => seen[p] = valid
  /\ pc[p] = "fill" => \A g \in PagesOf(slice[p]) : g < page[p] => Same(g)
  /\ pc[p] \in {"stamp", "mark"} => \A g \in PagesOf(slice[p]) : Same(g)
  /\ pc[p] \in {"read", "fill", "stamp", "mark"} /\ ~failed[p] =>
       \A g \in Pages : call[p].off \div PagesPerBlk <= SliceOf(g) /\ SliceOf(g) < slice[p] => Same(g)
  /\ pc[p] = "copied" /\ ~failed[p] => \A g \in Asked(p) : buf[p][g] = Shown(p, g, device)
Quiet == calm => CoherentWhenCalm /\ \A p \in Procs : PCalm(p)

IInv == Shape /\ Quiet

(***************************************************************************)
(* Arithmetic.                                                             *)
(***************************************************************************)
(* Division with remainder.                                                *)
LEMMA DivMod ==
  ASSUME NEW n \in Int, NEW m \in Nat, m > 0
  PROVE  \E k \in Int, r \in 0 .. m - 1 : n % m = r /\ n = k * m + r
<1>1. n \div m \in Int /\ n % m \in 0 .. m - 1
  OBVIOUS
<1>2. n % m = n - m * (n \div m)
  OBVIOUS
<1>3. PICK k \in Int, r \in 0 .. m - 1 : k = n \div m /\ r = n % m
  BY <1>1
<1>4. r = n - m * k
  BY <1>2, <1>3
<1>5. PICK z \in Int : z = m * k
  OBVIOUS
<1>6. k * m = z
  BY <1>5
<1>7. n = z + r
  BY <1>4, <1>5
<1>8. QED BY <1>3, <1>6, <1>7

(* There is one remainder.                                                 *)
LEMMA ModUnique ==
  ASSUME NEW n \in Int, NEW m \in Nat, m > 0, NEW k \in Int, NEW r \in 0 .. m - 1,
         n = k * m + r
  PROVE  n % m = r
OBVIOUS

USE EepromAssumption, ContentsAssumption DEF PagesPerBlk

(* A remainder is below the divisor.                                       *)
LEMMA ModRange ==
  ASSUME NEW n \in Int
  PROVE  n % Jiffies \in 0 .. Jiffies - 1
<1>1. \A k \in Int, m \in Nat : m > 0 => k % m \in 0 .. m - 1
  OBVIOUS
<1>2. QED BY <1>1

(* The pages of a slice.                                                   *)
LEMMA SlicePages ==
  ASSUME NEW s \in Slices
  PROVE  /\ PagesOf(s) = {s * 2, s * 2 + 1}
         /\ s * 2 \in Pages /\ s * 2 + 1 \in Pages
<1>1. s \in Nat /\ s <= NSlices - 1
  BY DEF Slices
<1>2. s * 2 \in Pages /\ s * 2 + 1 \in Pages
  BY <1>1 DEF Pages, NPages
<1>3. \A g \in Pages : g \div 2 = s <=> (g = s * 2 \/ g = s * 2 + 1)
  BY <1>1 DEF Pages, NPages
<1>4. QED BY <1>2, <1>3 DEF PagesOf, SliceOf

(* A page is in one slice of the device.                                   *)
LEMMA PageSlice ==
  ASSUME NEW g \in Pages
  PROVE  SliceOf(g) \in Slices /\ g \in PagesOf(SliceOf(g))
<1>1. g \in Nat /\ g < NSlices * 2
  BY DEF Pages, NPages
<1>2. g \div 2 \in Slices
  BY <1>1 DEF Slices
<1>3. QED BY <1>2 DEF SliceOf, PagesOf

(* What the code has cut the arguments of a call to.                       *)
LEMMA CallShape ==
  ASSUME NEW p \in Procs, NEW c \in Calls(p)
  PROVE  /\ c.off \in 0 .. NPages /\ c.count \in 0 .. NPages
         /\ c.off + c.count >= 1 /\ c.off + c.count <= NPages
         /\ c.out \in [Pages -> Value] /\ c.write \in BOOLEAN
         /\ (c.off + c.count - 1) \div 2 \in Slices
         /\ c.off .. c.off + c.count - 1 \subseteq Pages
<1>1. PICK w \in BOOLEAN, r \in Ranges, b \in Contents :
        c = [write |-> w, off |-> r[1], count |-> Clamp(r[1], r[2]), out |-> b]
  BY DEF Calls
<1>2. PICK off \in 0 .. NPages, count \in 1 .. NPages : r = <<off, count>>
  OBVIOUS
<1>3. r[1] = off /\ r[2] = count
  BY <1>2
<1>4. c.off = off /\ c.count = Clamp(off, count) /\ c.out = b /\ c.write = w
  BY <1>1, <1>3
<1>5. NPages \in Nat /\ NPages = NSlices * 2 /\ NPages >= 2
  BY DEF NPages
<1>6. /\ Clamp(off, count) \in 0 .. NPages
      /\ off + Clamp(off, count) >= 1 /\ off + Clamp(off, count) <= NPages
  BY <1>5 DEF Clamp
<1>7. \A n \in 1 .. NPages : (n - 1) \div 2 \in Slices
  BY <1>5 DEF Slices
<1>8. (off + Clamp(off, count) - 1) \div 2 \in Slices
  BY <1>6, <1>7
<1>9. c.out \in [Pages -> Value] /\ c.write \in BOOLEAN
  BY <1>4
<1>10. c.off .. c.off + c.count - 1 \subseteq Pages
  BY <1>4, <1>5, <1>6 DEF Pages
<1>11. QED BY <1>4, <1>6, <1>8, <1>9, <1>10

(* What is known of a process in a call.                                   *)
LEMMA InCall ==
  ASSUME Shape, NEW p \in Procs, pc[p] # "idle"
  PROVE  /\ call[p] \in Calls(p)
         /\ call[p].off \in 0 .. NPages /\ call[p].count \in 0 .. NPages
         /\ call[p].out \in [Pages -> Value] /\ call[p].write \in BOOLEAN
         /\ LastSlice(p) \in Slices /\ Asked(p) \subseteq Pages
         /\ slice[p] \in Nat /\ page[p] \in Nat /\ NPages \in Nat
         /\ slice[p] <= LastSlice(p) => slice[p] \in Slices
<1>1. call[p] \in Calls(p)
  BY DEF Shape, PShape
<1>2. LastSlice(p) \in Slices /\ Asked(p) \subseteq Pages
  BY <1>1, CallShape DEF LastSlice, Asked
<1>3. slice[p] \in Nat /\ page[p] \in Nat
  BY DEF Shape, TypeOK
<1>4. slice[p] <= LastSlice(p) => slice[p] \in Slices
  BY <1>2, <1>3 DEF Slices
<1>5. QED BY <1>1, <1>2, <1>3, <1>4, CallShape DEF NPages

(***************************************************************************)
(* The shape is kept, action by action.                                    *)
(***************************************************************************)
(* A process that another one does not touch.                              *)
LEMMA OthersShape ==
  ASSUME Shape, NEW p \in Procs, NEW q \in Procs, q # p,
         pc'[q] = pc[q], call'[q] = call[q], slice'[q] = slice[q], page'[q] = page[q],
         update_lock' = update_lock \/ (update_lock' = p /\ update_lock = Nobody)
                                     \/ (update_lock' = Nobody /\ update_lock = p)
  PROVE  PShape(q)'
BY DEF Shape, PShape, LastSlice

Steps == {"idle", "read", "fill", "stamp", "mark", "copied", "write", "clear", "page", "written"}

(* The local variables when a call returns.                                *)
LEMMA ReturnShape ==
  ASSUME Shape, NEW p \in Procs, pc[p] \in {"copied", "written"}, Return(p),
         UNCHANGED <<device, cache, valid, jiffies, now, calls, filled, calm>>
  PROVE  Shape'
<1>0. 0 \in 0 .. Jiffies - 1 /\ DOMAIN << >> = {}
  OBVIOUS
<1>1. TypeOK'
  <2>1. /\ pc' = [pc EXCEPT ![p] = "idle"] /\ call' = [call EXCEPT ![p] = NoCall]
        /\ slice' = [slice EXCEPT ![p] = 0] /\ page' = [page EXCEPT ![p] = 0]
        /\ seen' = [seen EXCEPT ![p] = {}] /\ timeout' = [timeout EXCEPT ![p] = 0]
        /\ buf' = [buf EXCEPT ![p] = << >>]
    BY DEF Return, Goto
  <2>2. \A q \in Procs : DOMAIN buf'[q] \subseteq Pages
    BY <1>0, <2>1 DEF Shape, Domains, TypeOK
  <2>3. \A q \in Procs : call'[q] = NoCall \/ call'[q] \in Calls(q)
    BY <2>1 DEF Shape, Domains, TypeOK
  <2>4. QED BY <1>0, <2>1, <2>2, <2>3 DEF Shape, TypeOK, cache
<1>2. Domains'
  BY DEF Return, Goto, Shape, Domains
<1>3. ASSUME NEW q \in Procs PROVE PShape(q)'
  <2>1. CASE q # p
    BY <2>1, OthersShape DEF Return, Goto, Shape, TypeOK, Domains, cache
  <2>2. CASE q = p
    BY <2>2 DEF Return, Goto, Shape, TypeOK, Domains, cache, PShape, Reading, Putting, Locking, LastSlice
  <2>3. QED BY <2>1, <2>2
<1>4. QED BY <1>1, <1>2, <1>3 DEF Shape

(* A call begins with its first slice and page 0.                          *)
LEMMA StartShape ==
  ASSUME Shape, NEW p \in Procs, Start(p)
  PROVE  Shape'
<1>1. PICK c \in Calls(p) :
        /\ call' = [call EXCEPT ![p] = c]
        /\ slice' = [slice EXCEPT ![p] = c.off \div PagesPerBlk]
        /\ calm' = (calm /\ ~Disturbs(p, c))
        /\ Goto(p, IF c.write THEN "write" ELSE "read")
  BY DEF Start
<1>2. c.off \in Nat /\ c.off \div 2 \in Nat /\ c.write \in BOOLEAN
  BY CallShape
<1>3. pc[p] = "idle" /\ page[p] = 0 /\ update_lock # p
  BY DEF Start, Active, Shape, PShape, Locking
<1>4. TypeOK'
  BY <1>1, <1>2 DEF Start, Goto, Shape, Domains, TypeOK, cache
<1>5. Domains'
  BY <1>1 DEF Start, Shape, Domains
<1>6. ASSUME NEW q \in Procs PROVE PShape(q)'
  <2>1. CASE q # p
    BY <1>1, <2>1, OthersShape DEF Start, Goto, Shape, TypeOK, Domains, cache
  <2>2. CASE q = p
    <3>1. /\ pc'[p] = IF c.write THEN "write" ELSE "read"
          /\ call'[p] = c /\ page'[p] = 0 /\ slice'[p] = c.off \div 2
          /\ update_lock' = update_lock
      BY <1>1, <1>3 DEF Start, Goto, Shape, TypeOK, Domains, cache
    <3>2. QED BY <1>2, <1>3, <2>2, <3>1 DEF PShape, Reading, Putting, Locking
  <2>3. QED BY <2>1, <2>2
<1>7. QED BY <1>4, <1>5, <1>6 DEF Shape

(* The steps in a call leave the call alone; what is left to show is what  *)
(* they change.                                                            *)
LEMMA WithinCall ==
  ASSUME Shape, NEW p \in Procs, UNCHANGED call, Domains',
         device' \in [Pages -> Value], data' \in [Pages -> Value],
         valid' \subseteq Slices, last_updated' \in [Slices -> 0 .. Jiffies - 1],
         jiffies' = jiffies,
         update_lock' = update_lock \/ (update_lock' = p /\ update_lock = Nobody)
                                     \/ (update_lock' = Nobody /\ update_lock = p),
         pc' \in [Procs -> Steps], slice' \in [Procs -> Nat], page' \in [Procs -> Nat],
         \A q \in Procs \ {p} : pc'[q] = pc[q] /\ slice'[q] = slice[q] /\ page'[q] = page[q],
         seen' \in [Procs -> SUBSET Slices], timeout' \in [Procs -> 0 .. Jiffies - 1],
         \A q \in Procs : DOMAIN buf'[q] \subseteq Pages,
         PShape(p)'
  PROVE  Shape'
<1>1. update_lock' \in Procs \cup {Nobody}
  BY DEF Shape, TypeOK
<1>2. TypeOK'
  BY <1>1 DEF Shape, TypeOK, Steps
<1>3. ASSUME NEW q \in Procs PROVE PShape(q)'
  BY OthersShape
<1>4. QED BY <1>2, <1>3 DEF Shape

(* The steps of a read keep its slice and page within the device.          *)
LEMMA ReaderShape ==
  ASSUME Shape, NEW p \in Procs,
         UpdateClient(p) \/ Fill(p) \/ FillFails(p) \/ Stamp(p) \/ Mark(p) \/ Copy(p)
  PROVE  Shape'
<1>1. pc[p] \in Reading /\ pc[p] # "idle"
  BY DEF UpdateClient, Fill, FillFails, Stamp, Mark, Copy, Reading
<1>2. /\ call[p] \in Calls(p) /\ ~call[p].write /\ slice[p] \in Nat /\ page[p] \in Nat
      /\ Asked(p) \subseteq Pages /\ (slice[p] <= LastSlice(p) => slice[p] \in Slices)
      /\ (pc[p] \in Locking <=> update_lock = p)
      /\ LastSlice(p) \in Nat
  <2>1. /\ call[p] \in Calls(p) /\ slice[p] \in Nat /\ page[p] \in Nat
        /\ Asked(p) \subseteq Pages /\ (slice[p] <= LastSlice(p) => slice[p] \in Slices)
        /\ LastSlice(p) \in Slices
    BY <1>1, InCall
  <2>2. ~call[p].write /\ (pc[p] \in Locking <=> update_lock = p)
    BY <1>1 DEF Shape, PShape
  <2>3. LastSlice(p) \in Nat
    BY <2>1 DEF Slices
  <2>4. QED BY <2>1, <2>2, <2>3
<1> USE DEF Goto, Shape, TypeOK, Steps
<1>3. Nobody # p /\ p \in Procs
  OBVIOUS
<1>4. CASE UpdateClient(p)
  <2>1. CASE Expired(slice[p])
    <3>1. /\ update_lock' = p /\ update_lock = Nobody
          /\ pc' = [pc EXCEPT ![p] = "fill"] /\ slice' = slice
          /\ page' = [page EXCEPT ![p] = slice[p] * 2]
          /\ slice[p] <= LastSlice(p)
          /\ UNCHANGED <<device, data, last_updated, valid, jiffies, call, seen, timeout, buf, history>>
      BY <1>4, <2>1 DEF UpdateClient
    <3>2. slice[p] * 2 \in Nat
      BY <1>2
    <3>3. PShape(p)'
      BY <1>2, <3>1 DEF PShape, Reading, Putting, Locking, LastSlice
    <3>4. pc' \in [Procs -> Steps] /\ page' \in [Procs -> Nat]
      BY <3>1, <3>2
    <3>5. Domains'
      BY <3>1 DEF Domains, history
    <3>6. QED BY <3>1, <3>3, <3>4, <3>5, WithinCall
  <2>2. CASE ~Expired(slice[p])
    <3>1. /\ update_lock' = update_lock /\ update_lock = Nobody
          /\ pc' = [pc EXCEPT ![p] = "read"] /\ slice' = [slice EXCEPT ![p] = @ + 1]
          /\ page' = [page EXCEPT ![p] = 0]
          /\ UNCHANGED <<device, data, last_updated, valid, jiffies, call, seen, timeout, buf, history>>
      BY <1>4, <2>2 DEF UpdateClient, NextSlice
    <3>2. slice[p] + 1 \in Nat
      BY <1>2
    <3>3. PShape(p)'
      BY <1>2, <1>3, <3>1 DEF PShape, Reading, Putting, Locking, LastSlice
    <3>4. pc' \in [Procs -> Steps] /\ page' \in [Procs -> Nat] /\ slice' \in [Procs -> Nat]
      BY <3>1, <3>2
    <3>5. Domains'
      BY <3>1 DEF Domains, history
    <3>6. QED BY <3>1, <3>3, <3>4, <3>5, WithinCall
  <2>3. QED BY <2>1, <2>2
<1>5. CASE Fill(p)
  <2>1. /\ pc[p] = "fill" /\ update_lock = p /\ slice[p] <= LastSlice(p)
        /\ page[p] = slice[p] * 2 \/ (page[p] = slice[p] * 2 + 1 /\ ~BlockRead)
    BY <1>5 DEF Fill, PShape, Locking
  <2>2. /\ data' = [g \in Pages |-> IF g \in Fetched(p) THEN device[g] ELSE data[g]]
        /\ UNCHANGED <<device, last_updated, update_lock, valid, jiffies, call, slice, seen, timeout, buf, history>>
    BY <1>5 DEF Fill
  <2>3. data' \in [Pages -> Value]
    BY <2>2
  <2>4. PagesOf(slice[p]) = {slice[p] * 2, slice[p] * 2 + 1}
    BY <1>2, <2>1, SlicePages
  <2>5. CASE BlockRead \/ page[p] + 1 \notin PagesOf(slice[p])
    <3>1. pc' = [pc EXCEPT ![p] = "stamp"] /\ page' = page
      BY <1>5, <2>5 DEF Fill
    <3>2. PShape(p)'
      BY <1>2, <2>1, <2>2, <3>1 DEF PShape, Reading, Putting, Locking, LastSlice
    <3>3. Domains'
      BY <2>2 DEF Domains, history
    <3>4. pc' \in [Procs -> Steps]
      BY <3>1
    <3>5. QED BY <2>2, <2>3, <3>1, <3>2, <3>3, <3>4, WithinCall
  <2>6. CASE ~(BlockRead \/ page[p] + 1 \notin PagesOf(slice[p]))
    <3>1. page' = [page EXCEPT ![p] = @ + 1] /\ pc' = pc
      BY <1>5, <2>6 DEF Fill
    <3>2. page[p] + 1 = slice[p] * 2 + 1 /\ page[p] + 1 \in Nat
      BY <1>2, <2>1, <2>4, <2>6
    <3>3. PShape(p)'
      BY <1>2, <2>1, <2>2, <2>6, <3>1, <3>2 DEF PShape, Reading, Putting, Locking, LastSlice
    <3>4. Domains'
      BY <2>2 DEF Domains, history
    <3>5. page' \in [Procs -> Nat]
      BY <3>1, <3>2
    <3>6. QED BY <2>2, <2>3, <3>1, <3>3, <3>4, <3>5, WithinCall
  <2>7. QED BY <2>5, <2>6
<1>6. CASE FillFails(p)
  <2>1. PICK got \in SUBSET Fetched(p) :
          data' = [g \in Pages |-> IF g \in got THEN device[g] ELSE data[g]]
    BY <1>6 DEF FillFails
  <2>2. /\ update_lock' = Nobody /\ update_lock = p
        /\ pc' = [pc EXCEPT ![p] = "read"] /\ slice' = [slice EXCEPT ![p] = @ + 1]
        /\ page' = [page EXCEPT ![p] = 0] /\ failed' = [failed EXCEPT ![p] = TRUE]
        /\ UNCHANGED <<device, last_updated, valid, jiffies, call, seen, timeout, buf, calm>>
    BY <1>6 DEF FillFails, NextSlice, PShape, Locking
  <2>3. data' \in [Pages -> Value] /\ slice[p] + 1 \in Nat
    BY <1>2, <2>1
  <2>4. PShape(p)'
    BY <1>2, <1>3, <2>2 DEF PShape, Reading, Putting, Locking, LastSlice
  <2>5. pc' \in [Procs -> Steps] /\ page' \in [Procs -> Nat] /\ slice' \in [Procs -> Nat]
    BY <2>2, <2>3
  <2>6. Domains'
    BY <2>2 DEF Domains
  <2>7. QED BY <2>2, <2>3, <2>4, <2>5, <2>6, WithinCall
<1>7. CASE Stamp(p)
  <2>1. /\ pc[p] = "stamp" /\ slice[p] <= LastSlice(p) /\ slice[p] \in Slices
        /\ last_updated' = [last_updated EXCEPT ![slice[p]] = jiffies]
        /\ seen' = [seen EXCEPT ![p] = valid] /\ pc' = [pc EXCEPT ![p] = "mark"]
        /\ UNCHANGED <<device, data, update_lock, valid, jiffies, call, slice, page, timeout, buf, calm, failed>>
    BY <1>2, <1>7 DEF Stamp, PShape, Locking
  <2>2. PShape(p)'
    BY <1>2, <2>1 DEF PShape, Reading, Putting, Locking, LastSlice
  <2>3. pc' \in [Procs -> Steps] /\ seen' \in [Procs -> SUBSET Slices]
        /\ last_updated' \in [Slices -> 0 .. Jiffies - 1]
    BY <2>1
  <2>4. Domains'
    BY <2>1 DEF Domains
  <2>5. QED BY <2>1, <2>2, <2>3, <2>4, WithinCall
<1>8. CASE Mark(p)
  <2>1. /\ pc[p] = "mark" /\ slice[p] <= LastSlice(p) /\ slice[p] \in Slices /\ update_lock = p
        /\ valid' = seen[p] \cup {slice[p]} /\ seen' = [seen EXCEPT ![p] = {}]
        /\ update_lock' = Nobody
        /\ pc' = [pc EXCEPT ![p] = "read"] /\ slice' = [slice EXCEPT ![p] = @ + 1]
        /\ page' = [page EXCEPT ![p] = 0]
        /\ UNCHANGED <<device, data, last_updated, jiffies, call, timeout, buf, history>>
    BY <1>2, <1>8 DEF Mark, NextSlice, PShape, Locking
  <2>2. PShape(p)'
    BY <1>2, <1>3, <2>1 DEF PShape, Reading, Putting, Locking, LastSlice
  <2>3. slice[p] + 1 \in Nat
    BY <1>2
  <2>4. /\ pc' \in [Procs -> Steps] /\ seen' \in [Procs -> SUBSET Slices] /\ valid' \subseteq Slices
        /\ page' \in [Procs -> Nat] /\ slice' \in [Procs -> Nat]
    BY <2>1, <2>3
  <2>5. Domains'
    BY <2>1 DEF Domains, history
  <2>6. QED BY <2>1, <2>2, <2>4, <2>5, WithinCall
<1>9. CASE Copy(p)
  <2>1. /\ pc[p] = "read" /\ pc' = [pc EXCEPT ![p] = "copied"]
        /\ buf' = [buf EXCEPT ![p] = [g \in Asked(p) |-> Shown(p, g, data)]]
        /\ UNCHANGED <<device, cache, valid, jiffies, call, slice, page, seen, timeout, history>>
    BY <1>9 DEF Copy
  <2>2. PShape(p)'
    BY <1>2, <2>1 DEF PShape, Reading, Putting, Locking, LastSlice, cache
  <2>3. pc' \in [Procs -> Steps]
    BY <2>1
  <2>4. Domains' /\ \A q \in Procs : DOMAIN buf'[q] \subseteq Pages
    BY <1>2, <2>1 DEF Domains, history
  <2>5. QED BY <2>1, <2>2, <2>3, <2>4, WithinCall DEF cache
<1>10. QED BY <1>4, <1>5, <1>6, <1>7, <1>8, <1>9

(* The steps of a write keep wr_cnt behind the slices it has passed.       *)
LEMMA WriterShape ==
  ASSUME Shape, NEW p \in Procs,
         ClearLoad(p) \/ ClearStore(p) \/ WritePage(p) \/ WritePageFails(p) \/ AllWritten(p)
  PROVE  Shape'
<1> USE DEF Goto, Shape, TypeOK, Steps
<1>1. pc[p] \in Putting
  BY DEF ClearLoad, ClearStore, WritePage, WritePageFails, AllWritten, Putting
<1>2. /\ call[p] \in Calls(p) /\ call[p].write /\ slice[p] \in Nat /\ page[p] \in Nat
      /\ call[p].out \in [Pages -> Value]
      /\ (slice[p] <= LastSlice(p) => slice[p] \in Slices)
      /\ update_lock # p
  BY <1>1, InCall DEF Putting, PShape, Locking
<1>3. (jiffies + Retry) % Jiffies \in 0 .. Jiffies - 1
  BY ModRange
<1>4. CASE ClearLoad(p)
  <2>1. /\ pc[p] = "write" /\ slice[p] <= LastSlice(p) /\ page[p] <= slice[p] * 2
        /\ seen' = [seen EXCEPT ![p] = valid] /\ pc' = [pc EXCEPT ![p] = "clear"]
        /\ UNCHANGED <<device, cache, valid, jiffies, call, slice, page, timeout, buf, history>>
    BY <1>4 DEF ClearLoad, PShape
  <2>2. PShape(p)'
    BY <1>2, <2>1 DEF PShape, Reading, Putting, Locking, LastSlice, cache
  <2>3. pc' \in [Procs -> Steps] /\ seen' \in [Procs -> SUBSET Slices]
    BY <2>1
  <2>4. Domains'
    BY <2>1 DEF Domains, history
  <2>5. QED BY <2>1, <2>2, <2>3, <2>4, WithinCall DEF cache
<1>5. CASE ClearStore(p)
  <2>1. /\ pc[p] = "clear" /\ slice[p] <= LastSlice(p) /\ page[p] <= slice[p] * 2
        /\ valid' = seen[p] \ {slice[p]} /\ timeout' = [timeout EXCEPT ![p] = (jiffies + Retry) % Jiffies]
        /\ seen' = [seen EXCEPT ![p] = {}] /\ pc' = [pc EXCEPT ![p] = "page"]
        /\ UNCHANGED <<device, cache, jiffies, call, slice, page, buf, history>>
    BY <1>5 DEF ClearStore, PShape
  <2>2. PShape(p)'
    BY <1>2, <2>1 DEF PShape, Reading, Putting, Locking, LastSlice, cache
  <2>3. pc' \in [Procs -> Steps] /\ seen' \in [Procs -> SUBSET Slices] /\ valid' \subseteq Slices
        /\ timeout' \in [Procs -> 0 .. Jiffies - 1]
    BY <1>3, <2>1
  <2>4. Domains'
    BY <2>1 DEF Domains, history
  <2>5. QED BY <2>1, <2>2, <2>3, <2>4, WithinCall DEF cache
<1>6. ASSUME pc[p] = "page"
      PROVE  /\ page[p] \in Pages /\ page[p] <= slice[p] * 2 + 1 /\ slice[p] <= LastSlice(p)
             /\ call[p].out[page[p]] \in Value
  <2>1. page[p] <= slice[p] * 2 + 1 /\ slice[p] <= LastSlice(p)
    BY <1>6 DEF PShape
  <2>2. slice[p] * 2 + 1 \in Pages
    BY <1>2, <2>1, SlicePages
  <2>3. page[p] \in Pages
    BY <1>2, <2>1, <2>2 DEF Pages, NPages
  <2>4. QED BY <1>2, <2>1, <2>3
<1>7. CASE WritePage(p)
  <2>1. /\ pc[p] = "page"
        /\ device' = [device EXCEPT ![page[p]] = call[p].out[page[p]]]
        /\ page' = [page EXCEPT ![p] = @ + 1]
        /\ timeout' = [timeout EXCEPT ![p] = (jiffies + Retry) % Jiffies]
        /\ UNCHANGED <<cache, valid, jiffies, call, seen, buf, history>>
    BY <1>7 DEF WritePage
  <2>2. device' \in [Pages -> Value] /\ page[p] + 1 \in Nat /\ slice[p] + 1 \in Nat
    BY <1>2, <1>6, <2>1
  <2>3. timeout' \in [Procs -> 0 .. Jiffies - 1] /\ page' \in [Procs -> Nat]
    BY <1>3, <2>1, <2>2
  <2>4. Domains'
    BY <2>1 DEF Domains, history
  <2>5. CASE (page[p] + 1) % 2 = 0
    <3>1. slice' = [slice EXCEPT ![p] = @ + 1] /\ pc' = [pc EXCEPT ![p] = "write"]
      BY <1>7, <2>5 DEF WritePage
    <3>2. PShape(p)'
      BY <1>2, <1>6, <2>1, <3>1 DEF PShape, Reading, Putting, Locking, LastSlice, cache
    <3>3. pc' \in [Procs -> Steps] /\ slice' \in [Procs -> Nat]
      BY <2>2, <3>1
    <3>4. QED BY <2>1, <2>2, <2>3, <2>4, <3>1, <3>2, <3>3, WithinCall DEF cache
  <2>6. CASE (page[p] + 1) % 2 # 0
    <3>1. UNCHANGED <<slice, pc>>
      BY <1>7, <2>6 DEF WritePage
    <3>2. page[p] + 1 <= slice[p] * 2 + 1
      <4>1. \A k \in Nat : (k * 2 + 1 + 1) % 2 = 0
        OBVIOUS
      <4>2. page[p] # slice[p] * 2 + 1
        BY <1>2, <2>6, <4>1
      <4>3. QED BY <1>2, <1>6, <2>1, <4>2
    <3>3. PShape(p)'
      BY <1>2, <1>6, <2>1, <3>1, <3>2 DEF PShape, Reading, Putting, Locking, LastSlice, cache
    <3>4. QED BY <2>1, <2>2, <2>3, <2>4, <3>1, <3>3, WithinCall DEF cache
  <2>7. QED BY <2>5, <2>6
<1>8. CASE WritePageFails(p)
  <2>1. /\ pc[p] = "page"
        /\ device' = device \/ device' = [device EXCEPT ![page[p]] = call[p].out[page[p]]]
        /\ pc' = pc \/ pc' = [pc EXCEPT ![p] = "written"]
        /\ UNCHANGED <<cache, valid, jiffies, call, slice, page, seen, timeout, buf, history>>
    BY <1>8 DEF WritePageFails
  <2>2. device' \in [Pages -> Value]
    BY <1>6, <2>1
  <2>3. PShape(p)'
    <3>1. CASE pc' = pc
      BY <1>2, <2>1, <3>1 DEF PShape, LastSlice, cache
    <3>2. CASE pc' = [pc EXCEPT ![p] = "written"]
      BY <1>2, <2>1, <3>2 DEF PShape, Reading, Putting, Locking, LastSlice, cache
    <3>3. QED BY <2>1, <3>1, <3>2
  <2>4. pc' \in [Procs -> Steps] /\ \A q \in Procs \ {p} : pc'[q] = pc[q]
    BY <2>1
  <2>5. Domains'
    BY <2>1 DEF Domains, history
  <2>6. QED BY <2>1, <2>2, <2>3, <2>4, <2>5, WithinCall DEF cache
<1>9. CASE AllWritten(p)
  <2>1. /\ pc[p] = "write" /\ pc' = [pc EXCEPT ![p] = "written"]
        /\ UNCHANGED <<device, cache, valid, jiffies, call, slice, page, seen, timeout, buf, history>>
    BY <1>9 DEF AllWritten
  <2>2. PShape(p)'
    BY <1>2, <2>1 DEF PShape, Reading, Putting, Locking, LastSlice, cache
  <2>3. pc' \in [Procs -> Steps]
    BY <2>1
  <2>4. Domains'
    BY <2>1 DEF Domains, history
  <2>5. QED BY <2>1, <2>2, <2>3, <2>4, WithinCall DEF cache
<1>10. QED BY <1>4, <1>5, <1>7, <1>8, <1>9

(* Every step keeps the shape of the calls.                                *)
THEOREM StepShape == Shape /\ [Next]_vars => Shape'
<1> SUFFICES ASSUME Shape, [Next]_vars PROVE Shape'
  OBVIOUS
<1>1. CASE Tick
  <2>1. (jiffies + 1) % Jiffies \in 0 .. Jiffies - 1
    <3>1. jiffies + 1 \in Int
      BY DEF Shape, TypeOK
    <3>2. QED BY <3>1, ModRange
  <2>2. TypeOK'
    BY <1>1, <2>1 DEF Tick, Shape, TypeOK, cache
  <2>3. Domains' /\ \A q \in Procs : PShape(q)'
    BY <1>1 DEF Tick, Shape, Domains, PShape, LastSlice, cache
  <2>4. QED BY <2>2, <2>3 DEF Shape
<1>2. CASE UNCHANGED vars
  BY <1>2 DEF vars, cache, history, Shape, TypeOK, Domains, PShape, LastSlice
<1>3. ASSUME NEW p \in Procs, ReadReturns(p) \/ WriteReturns(p)
      PROVE  Shape'
  BY <1>3, ReturnShape DEF ReadReturns, WriteReturns
<1>4. QED
  BY <1>1, <1>2, <1>3, StartShape, ReaderShape, WriterShape DEF Next

(***************************************************************************)
(* The calm is kept, action by action.                                     *)
(***************************************************************************)
Coherent == \A g \in Pages : SliceOf(g) \in valid => Same(g)

(* What the invariant says while it is calm.                               *)
LEMMA CalmFacts ==
  ASSUME IInv, calm
  PROVE  Coherent /\ \A p \in Procs : PCalm(p)
BY DEF IInv, Quiet, CoherentWhenCalm, Coherent, Same

(* Beside a reader: no write, and a cache that only gets better.           *)
LEMMA BesideReader ==
  ASSUME IInv, calm, NEW p \in Procs, NEW q \in Procs, q # p, pc[p] \in Reading,
         pc'[q] = pc[q], call'[q] = call[q], slice'[q] = slice[q], page'[q] = page[q],
         seen'[q] = seen[q], buf'[q] = buf[q], failed'[q] = failed[q],
         device' = device,
         \A g \in Pages : data'[g] = data[g] \/ data'[g] = device[g],
         valid' = valid \/ update_lock = p
  PROVE  PCalm(q)'
<1>1. PCalm(q) /\ PShape(q) /\ PShape(p)
  BY CalmFacts DEF IInv, Shape
<1>2. ~Writing(q)
  BY <1>1 DEF PCalm, Active, Reading
<1>3. pc[q] \notin Putting
  BY <1>1, <1>2 DEF PShape, Writing, Active, Putting
<1>4. pc[q] \in Locking => valid' = valid
  BY <1>1 DEF PShape, Locking
<1>5. \A g \in Pages : Same(g) => Same(g)'
  BY DEF Same
<1>6. pc[q] \in Locking => PagesOf(slice[q]) \subseteq Pages
  BY DEF PagesOf
<1>7. ~Writing(q)'
  BY <1>2 DEF Writing, Active
<1>8. /\ pc'[q] \notin {"write", "clear", "page"} /\ pc'[q] \notin Putting
      /\ pc'[q] \in {"clear", "mark"} => seen'[q] = valid'
      /\ pc'[q] = "fill" => \A g \in PagesOf(slice[q]) : g < page'[q] => Same(g)'
      /\ pc'[q] \in {"stamp", "mark"} => \A g \in PagesOf(slice[q]) : Same(g)'
  BY <1>1, <1>3, <1>4, <1>5, <1>6 DEF PCalm, Putting, Locking
<1>9. pc'[q] \in {"read", "fill", "stamp", "mark"} /\ ~failed'[q] =>
        \A g \in Pages : call'[q].off \div PagesPerBlk <= SliceOf(g) /\ SliceOf(g) < slice'[q] => Same(g)'
  BY <1>1, <1>5 DEF PCalm
<1>10. pc'[q] = "copied" /\ ~failed'[q] => \A g \in Asked(q)' : buf'[q][g] = Shown(q, g, device)'
  BY <1>1 DEF PCalm, Asked, Shown
<1>11. QED BY <1>7, <1>8, <1>9, <1>10 DEF PCalm, PagesOf

(* Beside a writer: nobody.                                                *)
LEMMA BesideWriter ==
  ASSUME IInv, calm, NEW p \in Procs, NEW q \in Procs, q # p, pc[p] \in Putting, pc'[q] = pc[q]
  PROVE  PCalm(q)'
<1>1. PCalm(p) /\ PShape(p)
  BY CalmFacts DEF IInv, Shape
<1>2. pc[q] = "idle"
  BY <1>1 DEF PCalm, PShape, Writing, Active, Putting
<1>3. QED BY <1>2 DEF PCalm, Writing, Active, Putting

(* Beginning a refresh, or finding the slice young, keeps the calm parts.  *)
LEMMA UpdateClientCalm ==
  ASSUME IInv, calm, NEW p \in Procs, UpdateClient(p)
  PROVE  Coherent' /\ \A q \in Procs : PCalm(q)'
<1>1. /\ pc[p] = "read" /\ slice[p] <= LastSlice(p)
      /\ UNCHANGED <<device, data, valid, call, seen, buf, failed>>
  BY DEF UpdateClient, history
<1>2. PCalm(p) /\ Coherent /\ ~call[p].write /\ slice[p] \in Slices /\ slice[p] \in Nat
  BY <1>1, CalmFacts, InCall DEF IInv, Shape, PShape, Reading
<1>3. Coherent' /\ \A g \in Pages : Same(g)' = Same(g)
  BY <1>1, <1>2 DEF Coherent, Same
<1>4. ASSUME NEW q \in Procs, q # p PROVE PCalm(q)'
  <2>1. pc'[q] = pc[q] /\ slice'[q] = slice[q] /\ page'[q] = page[q]
    BY <1>4 DEF UpdateClient, NextSlice, Goto, IInv, Shape, TypeOK
  <2>2. QED BY <1>1, <1>4, <2>1, BesideReader DEF Reading
<1>5. CASE Expired(slice[p])
  <2>1. pc'[p] = "fill" /\ page'[p] = slice[p] * 2 /\ slice'[p] = slice[p]
    BY <1>5 DEF UpdateClient, Goto, IInv, Shape, TypeOK
  <2>2. PagesOf(slice[p]) = {slice[p] * 2, slice[p] * 2 + 1}
    BY <1>2, SlicePages
  <2>3. \A g \in PagesOf(slice[p]) : ~(g < page'[p])
    BY <1>2, <2>1, <2>2
  <2>4. PCalm(p)'
    BY <1>1, <1>2, <1>3, <2>1, <2>3 DEF PCalm, Writing, Putting, PagesOf
  <2>5. QED BY <1>3, <1>4, <2>4
<1>6. CASE ~Expired(slice[p])
  <2>1. pc'[p] = "read" /\ slice'[p] = slice[p] + 1
    BY <1>6 DEF UpdateClient, NextSlice, Goto, IInv, Shape, TypeOK
  <2>2. slice[p] \in valid
    BY <1>6 DEF Expired
  <2>3. \A g \in Pages : SliceOf(g) \in Nat
    BY PageSlice DEF Slices
  <2>4. \A g \in Pages : SliceOf(g) < slice[p] + 1 => SliceOf(g) < slice[p] \/ SliceOf(g) = slice[p]
    BY <1>2, <2>3
  <2>5. PCalm(p)'
    BY <1>1, <1>2, <1>3, <2>1, <2>2, <2>4 DEF PCalm, Writing, Putting, Coherent
  <2>6. QED BY <1>3, <1>4, <2>5
<1>7. QED BY <1>5, <1>6

(* So does a transfer,                                                     *)
LEMMA FillCalm ==
  ASSUME IInv, calm, NEW p \in Procs, Fill(p)
  PROVE  Coherent' /\ \A q \in Procs : PCalm(q)'
<1>1. /\ pc[p] = "fill" /\ UNCHANGED <<device, valid, call, slice, seen, buf, failed>>
      /\ data' = [g \in Pages |-> IF g \in Fetched(p) THEN device[g] ELSE data[g]]
  BY DEF Fill, history
<1>2. /\ PCalm(p) /\ Coherent /\ ~call[p].write /\ slice[p] \in Slices /\ slice[p] \in Nat
      /\ page[p] = slice[p] * 2 \/ (page[p] = slice[p] * 2 + 1 /\ ~BlockRead)
  BY <1>1, CalmFacts, InCall DEF IInv, Shape, PShape, Reading, Locking
<1>3. /\ \A g \in Pages : data'[g] = data[g] \/ data'[g] = device[g]
      /\ \A g \in Pages : g \in Fetched(p) \/ Same(g) => Same(g)'
  BY <1>1 DEF Same
<1>4. Coherent'
  BY <1>1, <1>2, <1>3 DEF Coherent
<1>5. ASSUME NEW q \in Procs, q # p PROVE PCalm(q)'
  <2>1. pc'[q] = pc[q] /\ page'[q] = page[q]
    BY <1>5 DEF Fill, Goto, IInv, Shape, TypeOK
  <2>2. QED BY <1>1, <1>3, <1>5, <2>1, BesideReader DEF Reading
<1>6. PagesOf(slice[p]) = {slice[p] * 2, slice[p] * 2 + 1} /\ PagesOf(slice[p]) \subseteq Pages
  BY <1>2, SlicePages
<1>7. CASE BlockRead \/ page[p] + 1 \notin PagesOf(slice[p])
  <2>1. pc'[p] = "stamp"
    BY <1>7 DEF Fill, Goto, IInv, Shape, TypeOK
  <2>2. \A g \in PagesOf(slice[p]) : g \in Fetched(p) \/ g < page[p]
    BY <1>2, <1>6, <1>7 DEF Fetched
  <2>3. \A g \in PagesOf(slice[p]) : Same(g)'
    BY <1>1, <1>2, <1>3, <1>6, <2>2 DEF PCalm
  <2>4. PCalm(p)'
    BY <1>1, <1>2, <1>3, <2>1, <2>3 DEF PCalm, Writing, Putting, PagesOf
  <2>5. QED BY <1>4, <1>5, <2>4
<1>8. CASE ~(BlockRead \/ page[p] + 1 \notin PagesOf(slice[p]))
  <2>1. pc'[p] = "fill" /\ page'[p] = page[p] + 1
    BY <1>1, <1>8 DEF Fill, Goto, IInv, Shape, TypeOK
  <2>2. \A g \in PagesOf(slice[p]) : g < page[p] + 1 => g < page[p] \/ g \in Fetched(p)
    BY <1>2, <1>6, <1>8 DEF Fetched
  <2>3. \A g \in PagesOf(slice[p]) : g < page'[p] => Same(g)'
    BY <1>1, <1>2, <1>3, <1>6, <2>1, <2>2 DEF PCalm
  <2>4. PCalm(p)'
    BY <1>1, <1>2, <1>3, <2>1, <2>3 DEF PCalm, Writing, Putting, PagesOf
  <2>5. QED BY <1>4, <1>5, <2>4
<1>9. QED BY <1>7, <1>8

(* one that fails and leaves the slice not valid,                          *)
LEMMA FillFailsCalm ==
  ASSUME IInv, calm, NEW p \in Procs, FillFails(p)
  PROVE  Coherent' /\ \A q \in Procs : PCalm(q)'
<1>1. PICK got \in SUBSET Fetched(p) :
        data' = [g \in Pages |-> IF g \in got THEN device[g] ELSE data[g]]
  BY DEF FillFails
<1>2. /\ pc[p] = "fill" /\ UNCHANGED <<device, valid, call, seen, buf>>
      /\ pc'[p] = "read" /\ failed'[p] = TRUE
  BY DEF FillFails, NextSlice, Goto, IInv, Shape, TypeOK, Domains
<1>3. PCalm(p) /\ Coherent /\ ~call[p].write
  BY <1>2, CalmFacts DEF IInv, Shape, PShape, Reading
<1>4. \A g \in Pages : data'[g] = data[g] \/ data'[g] = device[g]
  BY <1>1
<1>5. Coherent'
  BY <1>2, <1>3, <1>4 DEF Coherent, Same
<1>6. ASSUME NEW q \in Procs, q # p PROVE PCalm(q)'
  <2>1. pc'[q] = pc[q] /\ slice'[q] = slice[q] /\ page'[q] = page[q] /\ failed'[q] = failed[q]
    BY <1>6 DEF FillFails, NextSlice, Goto, IInv, Shape, TypeOK, Domains
  <2>2. QED BY <1>2, <1>4, <1>6, <2>1, BesideReader DEF Reading
<1>7. PCalm(p)'
  BY <1>2, <1>3 DEF PCalm, Writing, Putting
<1>8. QED BY <1>5, <1>6, <1>7

(* the time stamp,                                                         *)
LEMMA StampCalm ==
  ASSUME IInv, calm, NEW p \in Procs, Stamp(p)
  PROVE  Coherent' /\ \A q \in Procs : PCalm(q)'
<1>1. /\ pc[p] = "stamp" /\ UNCHANGED <<device, data, valid, call, slice, page, buf, failed>>
      /\ pc'[p] = "mark" /\ seen'[p] = valid
  BY DEF Stamp, Goto, IInv, Shape, TypeOK
<1>2. PCalm(p) /\ Coherent /\ ~call[p].write
  BY <1>1, CalmFacts DEF IInv, Shape, PShape, Reading
<1>3. Coherent' /\ \A g \in Pages : Same(g)' = Same(g)
  BY <1>1, <1>2 DEF Coherent, Same
<1>4. ASSUME NEW q \in Procs, q # p PROVE PCalm(q)'
  <2>1. pc'[q] = pc[q] /\ seen'[q] = seen[q]
    BY <1>4 DEF Stamp, Goto, IInv, Shape, TypeOK
  <2>2. QED BY <1>1, <1>4, <2>1, BesideReader DEF Reading
<1>5. PagesOf(slice[p]) \subseteq Pages
  BY DEF PagesOf
<1>6. PCalm(p)'
  BY <1>1, <1>2, <1>3, <1>5 DEF PCalm, Writing, Putting, PagesOf
<1>7. QED BY <1>3, <1>4, <1>6

(* marking a slice whose transfers have all succeeded,                     *)
LEMMA MarkCalm ==
  ASSUME IInv, calm, NEW p \in Procs, Mark(p)
  PROVE  Coherent' /\ \A q \in Procs : PCalm(q)'
<1>1. /\ pc[p] = "mark" /\ UNCHANGED <<device, data, call, buf, failed>>
      /\ valid' = seen[p] \cup {slice[p]}
      /\ pc'[p] = "read" /\ slice'[p] = slice[p] + 1
  BY DEF Mark, NextSlice, Goto, IInv, Shape, TypeOK, history
<1>2. PCalm(p) /\ Coherent /\ ~call[p].write /\ slice[p] \in Nat /\ update_lock = p
  BY <1>1, CalmFacts, InCall DEF IInv, Shape, PShape, Reading, Locking
<1>3. \A g \in Pages : Same(g)' = Same(g)
  BY <1>1 DEF Same
<1>4. \A g \in Pages : SliceOf(g) = slice[p] => Same(g)
  BY <1>1, <1>2 DEF PCalm, PagesOf
<1>5. Coherent'
  BY <1>1, <1>2, <1>3, <1>4 DEF Coherent, PCalm
<1>6. ASSUME NEW q \in Procs, q # p PROVE PCalm(q)'
  <2>1. pc'[q] = pc[q] /\ slice'[q] = slice[q] /\ page'[q] = page[q] /\ seen'[q] = seen[q]
    BY <1>6 DEF Mark, NextSlice, Goto, IInv, Shape, TypeOK
  <2>2. QED BY <1>1, <1>2, <1>6, <2>1, BesideReader DEF Reading
<1>7. \A g \in Pages : SliceOf(g) \in Nat
  BY PageSlice DEF Slices
<1>8. \A g \in Pages : SliceOf(g) < slice[p] + 1 => SliceOf(g) < slice[p] \/ SliceOf(g) = slice[p]
  BY <1>2, <1>7
<1>9. PCalm(p)'
  BY <1>1, <1>2, <1>3, <1>4, <1>8 DEF PCalm, Writing, Putting
<1>10. QED BY <1>5, <1>6, <1>9

(* and the copy to the caller.                                             *)
LEMMA CopyCalm ==
  ASSUME IInv, calm, NEW p \in Procs, Copy(p)
  PROVE  Coherent' /\ \A q \in Procs : PCalm(q)'
<1>1. /\ pc[p] = "read" /\ slice[p] > LastSlice(p)
      /\ UNCHANGED <<device, data, valid, call, slice, page, seen, failed>>
      /\ pc'[p] = "copied" /\ buf'[p] = [g \in Asked(p) |-> Shown(p, g, data)]
  BY DEF Copy, Goto, IInv, Shape, TypeOK, Domains, history, cache
<1>2. PCalm(p) /\ Coherent /\ ~call[p].write /\ slice[p] \in Nat /\ Asked(p) \subseteq Pages
      /\ call[p].off \in Nat /\ call[p].count \in Nat /\ LastSlice(p) \in Nat
  BY <1>1, CalmFacts, InCall DEF IInv, Shape, PShape, Reading, Slices
<1>3. Coherent'
  BY <1>1, <1>2 DEF Coherent, Same
<1>4. ASSUME NEW q \in Procs, q # p PROVE PCalm(q)'
  <2>1. pc'[q] = pc[q] /\ buf'[q] = buf[q]
    BY <1>4 DEF Copy, Goto, IInv, Shape, TypeOK, Domains
  <2>2. QED BY <1>1, <1>4, <2>1, BesideReader DEF Reading
<1>5. ASSUME NEW g \in Asked(p), ~failed[p] PROVE Same(g)
  <2>1. g \in Nat /\ call[p].off <= g /\ g <= call[p].off + call[p].count - 1
    BY <1>2 DEF Asked
  <2>2. call[p].off \div 2 <= g \div 2 /\ g \div 2 <= (call[p].off + call[p].count - 1) \div 2
    BY <1>2, <2>1
  <2>3. call[p].off \div 2 <= SliceOf(g) /\ SliceOf(g) < slice[p]
    BY <1>1, <1>2, <2>1, <2>2 DEF SliceOf, LastSlice
  <2>4. QED BY <1>1, <1>2, <1>5, <2>3 DEF PCalm
<1>6. PCalm(p)'
  <2>1. \A g \in Asked(p) : ~failed[p] => Shown(p, g, data) = Shown(p, g, device)
    BY <1>5 DEF Shown, Same
  <2>2. \A g \in Asked(p) : ~failed[p] => buf'[p][g] = Shown(p, g, device)
    BY <1>1, <2>1
  <2>3. QED BY <1>1, <1>2, <2>2 DEF PCalm, Writing, Putting, Asked, Shown
<1>7. QED BY <1>3, <1>4, <1>6

(* The first access of a write, and its end, change no contents.           *)
LEMMA ClearLoadCalm ==
  ASSUME IInv, calm, NEW p \in Procs, ClearLoad(p) \/ AllWritten(p)
  PROVE  Coherent' /\ \A q \in Procs : PCalm(q)'
<1>1. /\ pc[p] = "write" /\ UNCHANGED <<device, data, valid, call, slice, page, buf, failed>>
      /\ \/ pc'[p] = "clear" /\ seen'[p] = valid
         \/ pc'[p] = "written"
      /\ \A q \in Procs \ {p} : pc'[q] = pc[q]
  BY DEF ClearLoad, AllWritten, Goto, IInv, Shape, TypeOK, cache, history
<1>2. PCalm(p) /\ Coherent /\ call[p].write
  BY <1>1, CalmFacts DEF IInv, Shape, PShape, Putting
<1>3. Coherent'
  BY <1>1, <1>2 DEF Coherent, Same
<1>4. ASSUME NEW q \in Procs, q # p PROVE PCalm(q)'
  BY <1>1, <1>4, BesideWriter DEF Putting
<1>5. PCalm(p)'
  BY <1>1, <1>2 DEF PCalm, Writing, Active, Putting
<1>6. QED BY <1>3, <1>4, <1>5

(* A write clears the slice before its pages are written.                  *)
LEMMA ClearStoreCalm ==
  ASSUME IInv, calm, NEW p \in Procs, ClearStore(p)
  PROVE  Coherent' /\ \A q \in Procs : PCalm(q)'
<1>1. /\ pc[p] = "clear" /\ UNCHANGED <<device, data, call, slice, page, buf, failed>>
      /\ pc'[p] = "page" /\ valid' = seen[p] \ {slice[p]} /\ slice[p] \in Slices
      /\ \A q \in Procs \ {p} : pc'[q] = pc[q]
  BY InCall DEF ClearStore, Goto, IInv, Shape, PShape, TypeOK, cache, history
<1>2. PCalm(p) /\ Coherent /\ call[p].write
  BY <1>1, CalmFacts DEF IInv, Shape, PShape, Putting
<1>3. seen[p] = valid /\ page[p] = slice[p] * 2
  BY <1>1, <1>2 DEF PCalm
<1>4. Coherent'
  BY <1>1, <1>2, <1>3 DEF Coherent, Same
<1>5. ASSUME NEW q \in Procs, q # p PROVE PCalm(q)'
  BY <1>1, <1>5, BesideWriter DEF Putting
<1>6. page[p] \in PagesOf(slice[p])
  BY <1>1, <1>3, SlicePages
<1>7. PCalm(p)'
  BY <1>1, <1>2, <1>3, <1>6 DEF PCalm, Writing, Active, Putting, PagesOf
<1>8. QED BY <1>4, <1>5, <1>7

(* A page that reaches the device is of a slice that is not valid.         *)
LEMMA PageCalm ==
  ASSUME IInv, calm, NEW p \in Procs, pc[p] = "page", UNCHANGED <<data, valid>>,
         device' = device \/ device' = [device EXCEPT ![page[p]] = call[p].out[page[p]]]
  PROVE  /\ Coherent'
         /\ \A g \in 0 .. page[p] - 1 : device'[g] = call[p].out[g]
         /\ slice[p] \in Slices /\ slice[p] \in Nat /\ page[p] \in {slice[p] * 2, slice[p] * 2 + 1}
         /\ slice[p] \notin valid /\ call[p].write
<1>1. /\ PCalm(p) /\ Coherent /\ slice[p] \in Slices /\ slice[p] \in Nat /\ page[p] \in Nat
      /\ call[p].write
  BY CalmFacts, InCall DEF IInv, Shape, PShape, Putting
<1>2. page[p] \in PagesOf(slice[p]) /\ slice[p] \notin valid /\ page[p] \in Pages
  BY <1>1 DEF PCalm, PagesOf
<1>3. PagesOf(slice[p]) = {slice[p] * 2, slice[p] * 2 + 1}
  BY <1>1, SlicePages
<1>4. \A g \in Pages : g # page[p] => device'[g] = device[g]
  BY DEF IInv, Shape, TypeOK
<1>5. \A g \in 0 .. page[p] - 1 : g \in Pages /\ g # page[p]
  BY <1>1, <1>2 DEF Pages, NPages
<1>6. \A g \in 0 .. page[p] - 1 : device'[g] = call[p].out[g]
  BY <1>1, <1>4, <1>5 DEF PCalm, Putting
<1>7. Coherent'
  BY <1>1, <1>2, <1>4 DEF Coherent, Same, PagesOf
<1>8. QED BY <1>1, <1>2, <1>3, <1>6, <1>7

(* A page that is written is in a slice that is not valid, and is counted. *)
LEMMA WritePageCalm ==
  ASSUME IInv, calm, NEW p \in Procs, WritePage(p)
  PROVE  Coherent' /\ \A q \in Procs : PCalm(q)'
<1>1. /\ pc[p] = "page" /\ UNCHANGED <<data, valid, call, buf, failed>>
      /\ device' = [device EXCEPT ![page[p]] = call[p].out[page[p]]]
      /\ page'[p] = page[p] + 1
      /\ \A q \in Procs \ {p} : pc'[q] = pc[q]
  BY DEF WritePage, Goto, IInv, Shape, TypeOK, cache, history
<1>2. /\ Coherent' /\ call[p].write
      /\ \A g \in 0 .. page[p] - 1 : device'[g] = call[p].out[g]
      /\ slice[p] \in Slices /\ slice[p] \in Nat /\ page[p] \in {slice[p] * 2, slice[p] * 2 + 1}
      /\ slice[p] \notin valid
  BY <1>1, PageCalm
<1>3. PCalm(p) /\ page[p] \in Nat /\ page[p] \in Pages
  BY <1>1, <1>2, CalmFacts, SlicePages DEF IInv, Shape, TypeOK
<1>4. ASSUME NEW q \in Procs, q # p PROVE PCalm(q)'
  BY <1>1, <1>4, BesideWriter DEF Putting
<1>5. \A g \in 0 .. page'[p] - 1 : device'[g] = call[p].out[g]
  <2>1. device'[page[p]] = call[p].out[page[p]]
    BY <1>1, <1>3 DEF IInv, Shape, TypeOK
  <2>2. \A g \in 0 .. page[p] + 1 - 1 : g = page[p] \/ g \in 0 .. page[p] - 1
    BY <1>3
  <2>3. QED BY <1>1, <1>2, <2>1, <2>2
<1>6. CASE (page[p] + 1) % 2 = 0
  <2>1. pc'[p] = "write" /\ slice'[p] = slice[p] + 1
    BY <1>6 DEF WritePage, Goto, IInv, Shape, TypeOK
  <2>2. page[p] = slice[p] * 2 + 1
    <3>1. \A k \in Nat : (k * 2 + 1) % 2 # 0
      OBVIOUS
    <3>2. QED BY <1>2, <1>6, <3>1
  <2>3. page'[p] = slice'[p] * 2
    BY <1>1, <1>2, <2>1, <2>2
  <2>4. PCalm(p)'
    BY <1>1, <1>2, <1>3, <1>5, <2>1, <2>3 DEF PCalm, Writing, Active, Putting
  <2>5. QED BY <1>2, <1>4, <2>4
<1>7. CASE (page[p] + 1) % 2 # 0
  <2>1. pc'[p] = "page" /\ slice'[p] = slice[p]
    BY <1>1, <1>7 DEF WritePage
  <2>2. page[p] = slice[p] * 2
    <3>1. \A k \in Nat : (k * 2 + 1 + 1) % 2 = 0
      OBVIOUS
    <3>2. QED BY <1>2, <1>7, <3>1
  <2>3. page'[p] \in PagesOf(slice[p])
    BY <1>1, <1>2, <2>2, SlicePages
  <2>4. PCalm(p)'
    BY <1>1, <1>2, <1>3, <1>5, <2>1, <2>3 DEF PCalm, Writing, Active, Putting, PagesOf
  <2>5. QED BY <1>2, <1>4, <2>4
<1>8. QED BY <1>6, <1>7

(* One that fails is not counted, whether it was written or not.           *)
LEMMA WritePageFailsCalm ==
  ASSUME IInv, calm, NEW p \in Procs, WritePageFails(p)
  PROVE  Coherent' /\ \A q \in Procs : PCalm(q)'
<1>1. /\ pc[p] = "page" /\ UNCHANGED <<data, valid, call, slice, page, buf, failed>>
      /\ device' = device \/ device' = [device EXCEPT ![page[p]] = call[p].out[page[p]]]
      /\ pc'[p] \in {"page", "written"}
      /\ \A q \in Procs \ {p} : pc'[q] = pc[q]
  BY DEF WritePageFails, Goto, IInv, Shape, TypeOK, cache, history
<1>2. /\ Coherent' /\ call[p].write
      /\ \A g \in 0 .. page[p] - 1 : device'[g] = call[p].out[g]
  BY <1>1, PageCalm
<1>3. PCalm(p)
  BY CalmFacts
<1>4. ASSUME NEW q \in Procs, q # p PROVE PCalm(q)'
  BY <1>1, <1>4, BesideWriter DEF Putting
<1>5. PCalm(p)'
  BY <1>1, <1>2, <1>3 DEF PCalm, Writing, Active, Putting, PagesOf
<1>6. QED BY <1>2, <1>4, <1>5

(* A call that returns leaves the rest as it was.                          *)
LEMMA ReturnCalm ==
  ASSUME IInv, calm, NEW p \in Procs, ReadReturns(p) \/ WriteReturns(p)
  PROVE  Coherent' /\ \A q \in Procs : PCalm(q)'
<1>1. /\ pc[p] \in {"copied", "written"} /\ UNCHANGED <<device, data, valid>>
      /\ pc'[p] = "idle"
      /\ \A q \in Procs \ {p} :
           UNCHANGED <<pc[q], call[q], slice[q], page[q], seen[q], buf[q], failed[q]>>
  <2>1. pc[p] \in {"copied", "written"} /\ UNCHANGED <<device, data, valid>> /\ Return(p)
    BY DEF ReadReturns, WriteReturns, cache
  <2>2. DOMAIN pc = Procs /\ DOMAIN slice = Procs /\ DOMAIN page = Procs /\ DOMAIN seen = Procs
    BY DEF IInv, Shape, TypeOK
  <2>3. DOMAIN call = Procs /\ DOMAIN buf = Procs /\ DOMAIN failed = Procs
    BY DEF IInv, Shape, Domains
  <2>4. pc'[p] = "idle"
    BY <2>1, <2>2 DEF Return, Goto
  <2>5. ASSUME NEW q \in Procs \ {p}
        PROVE  UNCHANGED <<pc[q], call[q], slice[q], page[q], seen[q], buf[q], failed[q]>>
    BY <2>1, <2>2, <2>3 DEF Return, Goto
  <2>6. QED BY <2>1, <2>4, <2>5
<1>2. Coherent'
  BY <1>1, CalmFacts DEF Coherent, Same
<1>3. PCalm(p)'
  BY <1>1 DEF PCalm, Writing, Active, Putting
<1>4. ASSUME NEW q \in Procs, q # p PROVE PCalm(q)'
  <2>1. CASE pc[p] = "copied"
    BY <1>1, <1>4, <2>1, BesideReader DEF Reading
  <2>2. CASE pc[p] = "written"
    BY <1>1, <1>4, <2>2, BesideWriter DEF Putting
  <2>3. QED BY <1>1, <2>1, <2>2
<1>5. QED BY <1>2, <1>3, <1>4

(* A call that leaves it calm meets no write, and no call if it writes.    *)
LEMMA StartCalm ==
  ASSUME IInv, calm', NEW p \in Procs, Start(p)
  PROVE  calm /\ Coherent' /\ \A q \in Procs : PCalm(q)'
<1>1. PICK c \in Calls(p) :
        /\ call' = [call EXCEPT ![p] = c]
        /\ slice' = [slice EXCEPT ![p] = c.off \div PagesPerBlk]
        /\ calm' = (calm /\ ~Disturbs(p, c))
        /\ Goto(p, IF c.write THEN "write" ELSE "read")
  BY DEF Start
<1>2. calm /\ ~Disturbs(p, c) /\ pc[p] = "idle" /\ page[p] = 0
  BY <1>1 DEF Start, Active, IInv, Shape, PShape
<1>3. /\ UNCHANGED <<device, data, valid, page, seen, buf, failed>>
      /\ call'[p] = c /\ slice'[p] = c.off \div 2 /\ pc'[p] = IF c.write THEN "write" ELSE "read"
      /\ \A q \in Procs \ {p} : UNCHANGED <<pc[q], call[q], slice[q]>>
  BY <1>1 DEF Start, Goto, IInv, Shape, TypeOK, Domains, cache
<1>4. Coherent' /\ \A g \in Pages : Same(g)' = Same(g)
  BY <1>2, <1>3, CalmFacts DEF Coherent, Same
<1>5. ASSUME NEW q \in Procs, q # p PROVE PCalm(q)'
  <2>1. PCalm(q) /\ ~Writing(q)
    BY <1>2, <1>5, CalmFacts DEF Disturbs, Writing
  <2>2. pc[q] \notin Putting
    BY <2>1 DEF IInv, Shape, PShape, Writing, Active, Putting
  <2>3. PagesOf(slice[q]) \subseteq Pages
    BY DEF PagesOf
  <2>4. QED BY <1>3, <1>4, <1>5, <2>1, <2>2, <2>3 DEF PCalm, Writing, Active, Putting, PagesOf, Asked, Shown
<1>6. c.off \in Nat /\ c.off \div 2 \in Nat /\ c.write \in BOOLEAN
  BY CallShape
<1>7. CASE c.write
  <2>1. \A q \in Procs \ {p} : pc[q] = "idle"
    BY <1>2, <1>7 DEF Disturbs, Active
  <2>2. slice'[p] = 0 /\ page'[p] = 0 /\ pc'[p] = "write"
    BY <1>2, <1>3, <1>6, <1>7 DEF Disturbs
  <2>3. \A g \in 0 .. page'[p] - 1 : FALSE
    BY <2>2
  <2>4. PCalm(p)'
    BY <1>3, <2>1, <2>2, <2>3 DEF PCalm, Writing, Active, Putting
  <2>5. QED BY <1>2, <1>4, <1>5, <2>4
<1>8. CASE ~c.write
  <2>1. pc'[p] = "read" /\ slice'[p] = call'[p].off \div 2 /\ ~call'[p].write
    BY <1>3, <1>8
  <2>2. \A g \in Pages : SliceOf(g) \in Nat
    BY PageSlice DEF Slices
  <2>3. \A g \in Pages : ~(call'[p].off \div 2 <= SliceOf(g) /\ SliceOf(g) < slice'[p])
    BY <1>3, <1>6, <2>1, <2>2
  <2>4. PCalm(p)'
    BY <2>1, <2>3 DEF PCalm, Writing, Putting
  <2>5. QED BY <1>2, <1>4, <1>5, <2>4
<1>9. QED BY <1>6, <1>7, <1>8

(* The remaining steps touch nothing that the calm parts speak of.         *)
LEMMA OthersCalm ==
  ASSUME IInv, calm, Tick \/ UNCHANGED vars
  PROVE  Coherent' /\ \A q \in Procs : PCalm(q)'
<1>1. UNCHANGED <<device, data, valid, pc, call, slice, page, seen, buf, failed>>
  BY DEF Tick, vars, cache, history
<1>2. QED BY <1>1, CalmFacts DEF Coherent, Same, PCalm, Writing, Active, Asked, Shown

(* Every step keeps the calm parts.                                        *)
THEOREM StepQuiet == IInv /\ [Next]_vars => Quiet'
<1> SUFFICES ASSUME IInv, [Next]_vars, calm'
             PROVE  CoherentWhenCalm' /\ \A q \in Procs : PCalm(q)'
  BY DEF Quiet
<1>1. Coherent' => CoherentWhenCalm'
  BY DEF Coherent, CoherentWhenCalm, Same
<1>2. CASE \E p \in Procs : Start(p)
  BY <1>1, <1>2, StartCalm
<1>3. CASE ~\E p \in Procs : Start(p)
  <2>1. calm
    BY <1>3 DEF Next, vars, history, Tick, UpdateClient, Fill, FillFails, Stamp, Mark, Copy, ReadReturns,
                ClearLoad, ClearStore, WritePage, WritePageFails, AllWritten, WriteReturns
  <2>2. QED
    BY <1>1, <1>3, <2>1, UpdateClientCalm, FillCalm, FillFailsCalm, StampCalm, MarkCalm, CopyCalm,
       ClearLoadCalm, ClearStoreCalm, WritePageCalm, WritePageFailsCalm, ReturnCalm, OthersCalm DEF Next
<1>4. QED BY <1>2, <1>3

(***************************************************************************)
(* The invariant and the theorems.                                         *)
(***************************************************************************)
THEOREM InitIInv == Init => IInv
<1> SUFFICES ASSUME Init PROVE IInv
  OBVIOUS
<1>1. 0 \in 0 .. Jiffies - 1 /\ DOMAIN << >> = {}
  OBVIOUS
<1>2. TypeOK
  BY <1>1 DEF Init, TypeOK
<1>3. Shape
  BY <1>2 DEF Init, Shape, Domains, PShape, Reading, Putting, Locking
<1>4. Quiet
  BY DEF Init, Quiet, CoherentWhenCalm, PCalm, Writing, Active, Putting
<1>5. QED BY <1>3, <1>4 DEF IInv

(* The two halves of the invariant hold in every state.                    *)
THEOREM Invariance == Spec => []IInv
<1>1. IInv /\ [Next]_vars => IInv'
  BY StepShape, StepQuiet DEF IInv
<1>2. QED BY <1>1, InitIInv, PTL DEF Spec

(* The types of all variables.                                             *)
THEOREM TypesCorrect == Spec => []TypeOK
<1>1. IInv => TypeOK
  BY DEF IInv, Shape
<1>2. QED BY <1>1, Invariance, PTL

(* As long as no write overlaps another call or begins behind the first    *)
(* slice, a valid slice holds what the device holds.                       *)
THEOREM CacheCoherent == Spec => []CoherentWhenCalm
<1>1. IInv => CoherentWhenCalm
  BY DEF IInv, Quiet, CoherentWhenCalm
<1>2. QED BY <1>1, Invariance, PTL

(* Under the same condition a read whose transfers succeed returns it.     *)
THEOREM ReadCorrect == Spec => []ReadSeesDevice
<1>1. IInv => ReadSeesDevice
  BY DEF IInv, Quiet, PCalm, ReadSeesDevice
<1>2. QED BY <1>1, Invariance, PTL

(* And the count that a write returns is what the device has of it.        *)
THEOREM CountCorrect == Spec => []CountIsWritten
<1>1. IInv => CountIsWritten
  BY DEF IInv, Quiet, PCalm, CountIsWritten, Putting
<1>2. QED BY <1>1, Invariance, PTL
(***************************************************************************)
(* Ages, whatever overlaps.                                                *)
(***************************************************************************)
(* jiffies follows the time; nothing was completed or begun later.         *)
Clock ==
  /\ now \in Nat /\ jiffies = (Boot + now) % Jiffies
  /\ filled \in [Slices -> Nat] /\ \A s \in Slices : filled[s] <= now
  /\ began \in [Procs -> Nat] /\ \A p \in Procs : began[p] <= now

(* The time in last_updated is that of the refresh.                        *)
Stamped(s) == last_updated[s] = (Boot + filled[s]) % Jiffies

(* It is for every slice that is valid, or that a process has found valid  *)
(* or is about to mark, and may write back to valid at any time.           *)
StampsInv ==
  /\ \A s \in valid : Stamped(s)
  /\ \A p \in Procs :
       /\ \A s \in seen[p] : Stamped(s)
       /\ pc[p] = "mark" => Stamped(slice[p]) /\ filled[slice[p]] >= began[p]

(* What a read demands of the slices it has passed.                        *)
Fresh(p, s) ==
  \/ filled[s] + Lease >= began[p]
  \/ filled[s] + Lease + Jiffies \div 2 < now
Passed(p) ==
  /\ pc[p] \in Reading /\ ~failed[p] =>
       \A s \in Slices : call[p].off \div PagesPerBlk <= s /\ s < slice[p] => Fresh(p, s)
  /\ pc[p] = "copied" => slice[p] > LastSlice(p)

Ages == Clock /\ StampsInv /\ \A p \in Procs : Passed(p)

(* Every number is a multiple of the period of jiffies and a remainder.    *)
LEMMA Quotient ==
  ASSUME NEW n \in Int
  PROVE  \E k \in Int, r \in 0 .. Jiffies - 1 : n % Jiffies = r /\ n = k * Jiffies + r
BY DivMod

(* And of one remainder only.                                              *)
LEMMA Remainder ==
  ASSUME NEW n \in Int, NEW k \in Int, NEW r \in 0 .. Jiffies - 1, n = k * Jiffies + r
  PROVE  n % Jiffies = r
BY ModUnique

(* jiffies counts on.                                                      *)
LEMMA NextJiffy ==
  ASSUME NEW n \in Nat
  PROVE  ((n % Jiffies) + 1) % Jiffies = (n + 1) % Jiffies
<1>1. n \in Int /\ Jiffies \in Nat \ {0}
  OBVIOUS
<1>2. PICK k \in Int, r \in 0 .. Jiffies - 1 : n % Jiffies = r /\ n = k * Jiffies + r
  BY <1>1, Quotient
<1>3. PICK z \in Int : z = k * Jiffies
  BY <1>1
<1>4. n = z + r
  BY <1>2, <1>3
<1>5. CASE r + 1 < Jiffies
  <2>1. n + 1 = k * Jiffies + (r + 1)
    BY <1>1, <1>3, <1>4
  <2>2. r + 1 = 0 * Jiffies + (r + 1)
    BY <1>1
  <2>3. r + 1 \in 0 .. Jiffies - 1 /\ r + 1 \in Int /\ n + 1 \in Int /\ k \in Int /\ 0 \in Int
    BY <1>1, <1>5
  <2>4. (n + 1) % Jiffies = r + 1
    BY <2>1, <2>3, Remainder
  <2>5. (r + 1) % Jiffies = r + 1
    BY <2>2, <2>3, Remainder
  <2>6. QED BY <1>2, <2>4, <2>5
<1>6. CASE r + 1 = Jiffies
  <2>1. (k + 1) * Jiffies = z + Jiffies
    BY <1>1, <1>3
  <2>2. n + 1 = (k + 1) * Jiffies + 0
    BY <1>1, <1>4, <1>6, <2>1
  <2>3. r + 1 = 1 * Jiffies + 0
    BY <1>1, <1>6
  <2>4. (n + 1) % Jiffies = 0 /\ (r + 1) % Jiffies = 0
    BY <1>1, <2>2, <2>3, Remainder
  <2>5. QED BY <1>2, <2>4
<1>7. QED BY <1>1, <1>2, <1>5, <1>6

(* time_after says of two times less than half a wrap apart which is the   *)
(* later one.                                                              *)
LEMMA TimeAfterIsLater ==
  ASSUME NEW f \in Nat, NEW t \in Nat,
         f + Lease < t, t <= f + Lease + Jiffies \div 2
  PROVE  TimeAfter((Boot + t) % Jiffies, (((Boot + f) % Jiffies) + Lease) % Jiffies)
<1> DEFINE A == (Boot + f) % Jiffies
           B == (A + Lease) % Jiffies
           C == (Boot + t) % Jiffies
           D == (B - C) % Jiffies
<1>0. Boot \in Nat /\ Lease \in Nat /\ Jiffies \in Nat \ {0}
  OBVIOUS
<1>1. PICK i \in Int : Boot + f = i * Jiffies + A
  <2>1. Boot + f \in Int
    BY <1>0
  <2>2. \E k \in Int, r \in 0 .. Jiffies - 1 : A = r /\ Boot + f = k * Jiffies + r
    BY <2>1, Quotient
  <2> QED BY <2>2
<1>2. A \in Nat /\ B \in Nat /\ C \in Nat
  BY <1>0, ModRange
<1>3. PICK j \in Int : A + Lease = j * Jiffies + B
  <2> HIDE DEF A
  <2>1. A + Lease \in Int
    BY <1>0, <1>2
  <2>2. \E k \in Int, r \in 0 .. Jiffies - 1 : B = r /\ A + Lease = k * Jiffies + r
    BY <2>1, Quotient
  <2> QED BY <2>2
<1>4. PICK k \in Int : Boot + t = k * Jiffies + C
  <2>1. Boot + t \in Int
    BY <1>0
  <2>2. \E k \in Int, r \in 0 .. Jiffies - 1 : C = r /\ Boot + t = k * Jiffies + r
    BY <2>1, Quotient
  <2> QED BY <2>2
<1>5. PICK l \in Int : B - C = l * Jiffies + D
  <2> HIDE DEF B, C
  <2>1. B - C \in Int
    BY <1>2
  <2>2. \E z \in Int, r \in 0 .. Jiffies - 1 : D = r /\ B - C = z * Jiffies + r
    BY <2>1, Quotient
  <2> QED BY <2>2
<1>6. D \in 0 .. Jiffies - 1
  <2> HIDE DEF B, C
  <2>1. B - C \in Int
    BY <1>2
  <2> QED BY <2>1, ModRange
<1> HIDE DEF A, B, C, D
<1>7. PICK q \in Int : q = i + j + l - k
  OBVIOUS
<1>8. q * Jiffies = i * Jiffies + j * Jiffies + l * Jiffies - k * Jiffies
  BY <1>7, <1>0
<1>9. PICK z \in Int : z = q * Jiffies
  BY <1>0
<1>10. D = f + Lease - t - z
  <2>1. PICK zi \in Int, zj \in Int, zk \in Int, zl \in Int :
          zi = i * Jiffies /\ zj = j * Jiffies /\ zk = k * Jiffies /\ zl = l * Jiffies
    BY <1>0
  <2>2. z = zi + zj + zl - zk
    BY <1>8, <1>9, <2>1
  <2>3. Boot + f = zi + A /\ A + Lease = zj + B /\ Boot + t = zk + C /\ B - C = zl + D
    BY <1>1, <1>3, <1>4, <1>5, <2>1
  <2> QED BY <1>0, <1>2, <1>6, <2>1, <2>2, <2>3
<1>11. q = -1
  <2>1. \A x \in Int, m \in Nat : x >= 0 => x * m >= 0
    OBVIOUS
  <2>2. q < 0
    BY <1>0, <1>6, <1>9, <1>10, <2>1
  <2>3. CASE q <= -2
    <3>1. PICK d \in Nat : q = -2 - d
      BY <2>3
    <3>2. q * Jiffies = -2 * Jiffies - d * Jiffies /\ d * Jiffies >= 0 /\ d * Jiffies \in Int
      BY <1>0, <2>1, <3>1
    <3>3. Jiffies \div 2 < Jiffies /\ Jiffies \div 2 \in Nat
      BY <1>0
    <3> QED BY <1>0, <1>6, <1>9, <1>10, <3>2, <3>3
  <2> QED BY <2>2, <2>3
<1>12. D = f + Lease - t + Jiffies
  BY <1>0, <1>9, <1>10, <1>11
<1>13. D >= Jiffies \div 2
  BY <1>0, <1>12
<1>14. QED BY <1>13 DEF TimeAfter, A, B, C, D

(* A slice that is not refreshed because it is valid and young is fresh.   *)
LEMMA YoungIsFresh ==
  ASSUME Ages, NEW p \in Procs, NEW s \in Slices, ~Expired(s)
  PROVE  Fresh(p, s)
<1>1. Stamped(s) /\ jiffies = (Boot + now) % Jiffies
  BY DEF Ages, StampsInv, Clock, Expired
<1>2. ~TimeAfter((Boot + now) % Jiffies, (((Boot + filled[s]) % Jiffies) + Lease) % Jiffies)
  BY <1>1 DEF Expired, Stamped
<1>3. filled[s] \in Nat /\ now \in Nat /\ began[p] \in Nat /\ began[p] <= now
  BY DEF Ages, Clock
<1>4. filled[s] + Lease >= now \/ filled[s] + Lease + Jiffies \div 2 < now
  BY <1>2, <1>3, TimeAfterIsLater
<1>5. QED BY <1>3, <1>4 DEF Fresh

(* What is fresh stays so, while time passes and slices are refreshed.     *)
LEMMA StillFresh ==
  ASSUME Clock, NEW p \in Procs, NEW s \in Slices, Fresh(p, s),
         began'[p] = began[p], now' \in Nat, now' >= now,
         filled'[s] = filled[s] \/ filled'[s] = now
  PROVE  Fresh(p, s)'
<1>1. /\ now \in Nat /\ filled[s] \in Nat /\ began[p] \in Nat /\ began[p] <= now
      /\ Lease \in Nat /\ Jiffies \div 2 \in Nat
  BY DEF Clock
<1>2. CASE filled'[s] = filled[s]
  BY <1>1, <1>2 DEF Fresh
<1>3. CASE filled'[s] = now
  BY <1>1, <1>3 DEF Fresh
<1>4. QED BY <1>2, <1>3

(* A step that completes no refresh and takes no time.                     *)
LEMMA SameAges ==
  ASSUME Ages, NEW p \in Procs, UNCHANGED <<last_updated, filled, began, now, jiffies, call>>,
         \A s \in valid' : Stamped(s), \A s \in seen'[p] : Stamped(s), pc'[p] # "mark",
         \A q \in Procs \ {p} : /\ pc'[q] = pc[q] /\ slice'[q] = slice[q]
                                /\ seen'[q] = seen[q] /\ failed'[q] = failed[q],
         Passed(p)'
  PROVE  Ages'
<1>1. Clock'
  BY DEF Ages, Clock
<1>2. \A s : Stamped(s)' <=> Stamped(s)
  BY DEF Stamped
<1>3. StampsInv'
  BY <1>2 DEF Ages, StampsInv
<1>4. ASSUME NEW q \in Procs \ {p} PROVE Passed(q)'
  BY DEF Ages, Passed, Fresh, LastSlice
<1>5. QED BY <1>1, <1>3, <1>4 DEF Ages

(* The steps in a read other than Stamp.                                   *)
LEMMA ReaderAges ==
  ASSUME Shape, Ages, NEW p \in Procs,
         UpdateClient(p) \/ Fill(p) \/ FillFails(p) \/ Mark(p) \/ Copy(p)
  PROVE  Ages'
<1> USE DEF Goto, Shape, TypeOK, Domains, history, cache
<1>1. pc[p] \in Reading
  BY DEF UpdateClient, Fill, FillFails, Mark, Copy, Reading
<1>2. /\ slice[p] \in Nat /\ LastSlice(p) \in Slices
      /\ (slice[p] <= LastSlice(p) => slice[p] \in Slices)
  BY <1>1, InCall DEF Reading
<1>3. \A s \in valid \cup seen[p] : Stamped(s)
  BY DEF Ages, StampsInv
<1>4. ~failed[p] => \A s \in Slices : call[p].off \div 2 <= s /\ s < slice[p] => Fresh(p, s)
  BY <1>1 DEF Ages, Passed
<1>5. \A s \in Slices : s < slice[p] + 1 => s < slice[p] \/ s = slice[p]
  BY <1>2 DEF Slices
<1>6. CASE UpdateClient(p)
  <2>1. CASE Expired(slice[p])
    <3>1. /\ pc' = [pc EXCEPT ![p] = "fill"] /\ slice' = slice
          /\ UNCHANGED <<last_updated, filled, began, now, jiffies, call, valid, seen, failed>>
      BY <1>6, <2>1 DEF UpdateClient
    <3>2. Passed(p)'
      BY <1>4, <3>1 DEF Passed, Fresh
    <3>3. QED BY <1>3, <3>1, <3>2, SameAges
  <2>2. CASE ~Expired(slice[p])
    <3>1. /\ pc' = [pc EXCEPT ![p] = "read"] /\ slice' = [slice EXCEPT ![p] = @ + 1]
          /\ slice[p] <= LastSlice(p)
          /\ UNCHANGED <<last_updated, filled, began, now, jiffies, call, valid, seen, failed>>
      BY <1>6, <2>2 DEF UpdateClient, NextSlice
    <3>2. Fresh(p, slice[p])
      BY <1>2, <2>2, <3>1, YoungIsFresh
    <3>3. Passed(p)'
      BY <1>4, <1>5, <3>1, <3>2 DEF Passed, Fresh
    <3>4. QED BY <1>3, <3>1, <3>3, SameAges
  <2>3. QED BY <2>1, <2>2
<1>7. CASE Fill(p)
  <2>1. /\ pc' = [pc EXCEPT ![p] = "stamp"] \/ pc' = pc
        /\ pc[p] = "fill"
        /\ UNCHANGED <<last_updated, filled, began, now, jiffies, call, slice, valid, seen, failed>>
    BY <1>7 DEF Fill
  <2>2. Passed(p)'
    BY <1>4, <2>1 DEF Passed, Fresh
  <2>3. QED BY <1>3, <2>1, <2>2, SameAges
<1>8. CASE FillFails(p)
  <2>1. /\ pc' = [pc EXCEPT ![p] = "read"] /\ slice' = [slice EXCEPT ![p] = @ + 1]
        /\ failed' = [failed EXCEPT ![p] = TRUE]
        /\ UNCHANGED <<last_updated, filled, began, now, jiffies, call, valid, seen>>
    BY <1>8 DEF FillFails, NextSlice
  <2>2. Passed(p)'
    BY <2>1 DEF Passed
  <2>3. QED BY <1>3, <2>1, <2>2, SameAges
<1>9. CASE Mark(p)
  <2>1. /\ pc[p] = "mark"
        /\ pc' = [pc EXCEPT ![p] = "read"] /\ slice' = [slice EXCEPT ![p] = @ + 1]
        /\ valid' = seen[p] \cup {slice[p]} /\ seen' = [seen EXCEPT ![p] = {}]
        /\ UNCHANGED <<last_updated, filled, began, now, jiffies, call, failed>>
    BY <1>9 DEF Mark, NextSlice
  <2>2. Stamped(slice[p]) /\ filled[slice[p]] >= began[p]
    BY <2>1 DEF Ages, StampsInv
  <2>3. slice[p] \in Slices
    BY <1>2, <2>1 DEF PShape, Locking
  <2>4. Fresh(p, slice[p])
    BY <2>2, <2>3 DEF Fresh, Ages, Clock
  <2>5. Passed(p)'
    BY <1>4, <1>5, <2>1, <2>4 DEF Passed, Fresh
  <2>6. \A s \in valid' : Stamped(s)
    BY <1>3, <2>1, <2>2
  <2>7. QED BY <2>1, <2>5, <2>6, SameAges
<1>10. CASE Copy(p)
  <2>1. /\ pc[p] = "read" /\ slice[p] > LastSlice(p) /\ pc' = [pc EXCEPT ![p] = "copied"]
        /\ UNCHANGED <<last_updated, filled, began, now, jiffies, call, slice, valid, seen, failed>>
    BY <1>10 DEF Copy
  <2>2. Passed(p)'
    BY <1>4, <2>1 DEF Passed, Fresh, LastSlice
  <2>3. QED BY <1>3, <2>1, <2>2, SameAges
<1>11. QED BY <1>6, <1>7, <1>8, <1>9, <1>10

(* A refresh is completed.                                                 *)
LEMMA StampAges ==
  ASSUME Shape, Ages, NEW p \in Procs, Stamp(p)
  PROVE  Ages'
<1> USE DEF Goto, Shape, TypeOK, Domains, cache
<1>1. /\ pc[p] = "stamp" /\ pc' = [pc EXCEPT ![p] = "mark"]
      /\ last_updated' = [last_updated EXCEPT ![slice[p]] = jiffies]
      /\ filled' = [filled EXCEPT ![slice[p]] = now] /\ seen' = [seen EXCEPT ![p] = valid]
      /\ UNCHANGED <<began, now, jiffies, call, slice, valid, failed>>
  BY DEF Stamp
<1>2. slice[p] \in Slices
  BY <1>1, InCall DEF PShape, Locking
<1>3. now \in Nat /\ jiffies = (Boot + now) % Jiffies /\ \A q \in Procs : began[q] <= now
  BY DEF Ages, Clock
<1>4. Clock'
  BY <1>1, <1>2 DEF Ages, Clock
<1>5. \A s \in Slices : Stamped(s) \/ s = slice[p] => Stamped(s)'
  BY <1>1, <1>2, <1>3 DEF Stamped, Ages, Clock
<1>6. StampsInv'
  <2>1. \A s \in valid' : Stamped(s)'
    BY <1>1, <1>5 DEF Ages, StampsInv
  <2>2. ASSUME NEW q \in Procs
        PROVE  /\ \A s \in seen'[q] : Stamped(s)'
               /\ pc'[q] = "mark" => Stamped(slice[q])' /\ filled'[slice'[q]] >= began'[q]
    <3>1. CASE q = p
      <4>1. pc'[q] = "mark" /\ seen'[q] = valid /\ slice'[q] = slice[q] /\ began'[q] = began[q]
        BY <1>1, <3>1
      <4>2. \A s \in seen'[q] : Stamped(s)'
        BY <1>5, <4>1 DEF Ages, StampsInv
      <4>3. filled'[slice[q]] = now /\ last_updated'[slice[q]] = jiffies
        BY <1>1, <1>2, <3>1 DEF Ages, Clock
      <4>4. Stamped(slice[q])'
        BY <1>3, <4>1, <4>3 DEF Stamped
      <4>5. QED BY <1>3, <4>1, <4>2, <4>3, <4>4
    <3>2. CASE q # p
      <4>1. pc'[q] = pc[q] /\ seen'[q] = seen[q] /\ slice'[q] = slice[q] /\ began'[q] = began[q]
        BY <1>1, <3>2
      <4>2. \A s \in seen'[q] : Stamped(s)'
        BY <1>5, <4>1 DEF Ages, StampsInv
      <4>3. ASSUME pc[q] = "mark"
            PROVE  Stamped(slice[q])' /\ filled'[slice'[q]] >= began'[q]
        <5>1. slice[q] \in Slices
          BY <4>3, InCall DEF PShape, Locking
        <5>2. Stamped(slice[q]) /\ filled[slice[q]] >= began[q]
          BY <4>3 DEF Ages, StampsInv
        <5>3. filled'[slice[q]] = filled[slice[q]] \/ filled'[slice[q]] = now
          BY <1>1, <1>2, <5>1 DEF Ages, Clock
        <5>4. Stamped(slice[q])'
          BY <1>5, <4>1, <5>1, <5>2 DEF Stamped
        <5>5. QED BY <1>3, <4>1, <5>2, <5>3, <5>4
      <4>4. QED BY <4>1, <4>2, <4>3
    <3>3. QED BY <3>1, <3>2
  <2>3. QED BY <2>1, <2>2 DEF StampsInv
<1>7. ASSUME NEW q \in Procs PROVE Passed(q)'
  <2>1. \A s \in Slices : Fresh(q, s) => Fresh(q, s)'
    BY <1>1, <1>2, <1>3, StillFresh DEF Ages, Clock
  <2>2. (pc'[q] \in Reading => pc[q] \in Reading) /\ (pc'[q] = "copied" => pc[q] = "copied")
    BY <1>1 DEF Reading
  <2>3. Passed(q)
    BY DEF Ages
  <2>4. QED BY <1>1, <2>1, <2>2, <2>3 DEF Passed, LastSlice
<1>8. QED BY <1>4, <1>6, <1>7 DEF Ages

(* The steps in a write.                                                   *)
LEMMA WriterAges ==
  ASSUME Shape, Ages, NEW p \in Procs,
         ClearLoad(p) \/ ClearStore(p) \/ WritePage(p) \/ WritePageFails(p) \/ AllWritten(p)
  PROVE  Ages'
<1> USE DEF Goto, Shape, TypeOK, Domains, history, cache
<1>1. /\ UNCHANGED <<last_updated, filled, began, now, jiffies, call, failed>>
      /\ valid' = valid \/ valid' = seen[p] \ {slice[p]}
      /\ seen' = seen \/ seen' = [seen EXCEPT ![p] = valid] \/ seen' = [seen EXCEPT ![p] = {}]
      /\ slice' = slice \/ slice' = [slice EXCEPT ![p] = @ + 1]
  BY DEF ClearLoad, ClearStore, WritePage, WritePageFails, AllWritten
<1>2. \E l \in {"write", "clear", "page", "written"} : pc' = [pc EXCEPT ![p] = l]
  <2>1. pc[p] = "page" /\ pc' = pc => pc' = [pc EXCEPT ![p] = "page"]
    OBVIOUS
  <2>2. QED BY <2>1 DEF ClearLoad, ClearStore, WritePage, WritePageFails, AllWritten
<1>3. \A s \in valid \cup seen[p] : Stamped(s)
  BY DEF Ages, StampsInv
<1>4. Passed(p)'
  BY <1>2 DEF Passed, Reading
<1>5. (\A s \in valid' : Stamped(s)) /\ (\A s \in seen'[p] : Stamped(s))
  BY <1>1, <1>3
<1>6. QED BY <1>1, <1>2, <1>4, <1>5, SameAges

(* A call begins: it has passed no slice.                                  *)
LEMMA StartAges ==
  ASSUME Shape, Ages, NEW p \in Procs, Start(p)
  PROVE  Ages'
<1> USE DEF Goto, Shape, TypeOK, Domains, cache
<1>1. PICK c \in Calls(p) :
        /\ call' = [call EXCEPT ![p] = c]
        /\ slice' = [slice EXCEPT ![p] = c.off \div PagesPerBlk]
        /\ pc' = [pc EXCEPT ![p] = IF c.write THEN "write" ELSE "read"]
  BY DEF Start
<1>2. /\ began' = [began EXCEPT ![p] = now]
      /\ UNCHANGED <<last_updated, filled, now, jiffies, valid, seen, failed>>
  BY DEF Start
<1>3. c.off \div 2 \in Int
  BY CallShape
<1>4. Clock'
  BY <1>2 DEF Ages, Clock
<1>5. StampsInv'
  <2>1. \A s : Stamped(s)' <=> Stamped(s)
    BY <1>2 DEF Stamped
  <2>2. QED BY <1>1, <1>2, <2>1 DEF Ages, StampsInv
<1>6. ASSUME NEW q \in Procs PROVE Passed(q)'
  <2>1. CASE q = p
    <3>1. pc'[p] # "copied" /\ call'[p] = c /\ slice'[p] = c.off \div 2
      BY <1>1
    <3>2. \A s \in Slices : ~(c.off \div 2 <= s /\ s < c.off \div 2)
      BY <1>3 DEF Slices
    <3>3. QED BY <2>1, <3>1, <3>2 DEF Passed
  <2>2. CASE q # p
    BY <1>1, <1>2, <2>2 DEF Ages, Passed, Fresh, LastSlice
  <2>3. QED BY <2>1, <2>2
<1>7. QED BY <1>4, <1>5, <1>6 DEF Ages

(* A call returns.                                                         *)
LEMMA ReturnAges ==
  ASSUME Shape, Ages, NEW p \in Procs, ReadReturns(p) \/ WriteReturns(p)
  PROVE  Ages'
<1> USE DEF Goto, Shape, TypeOK, Domains, cache
<1>1. /\ pc' = [pc EXCEPT ![p] = "idle"] /\ seen' = [seen EXCEPT ![p] = {}]
      /\ call' = [call EXCEPT ![p] = NoCall] /\ slice' = [slice EXCEPT ![p] = 0]
      /\ began' = [began EXCEPT ![p] = 0] /\ failed' = [failed EXCEPT ![p] = FALSE]
      /\ UNCHANGED <<last_updated, filled, now, jiffies, valid>>
  BY DEF ReadReturns, WriteReturns, Return
<1>2. Clock'
  BY <1>1 DEF Ages, Clock
<1>3. StampsInv'
  <2>1. \A s : Stamped(s)' <=> Stamped(s)
    BY <1>1 DEF Stamped
  <2>2. QED BY <1>1, <2>1 DEF Ages, StampsInv, Clock
<1>4. ASSUME NEW q \in Procs PROVE Passed(q)'
  <2>1. CASE q = p
    BY <1>1, <2>1 DEF Passed, Reading
  <2>2. CASE q # p
    BY <1>1, <2>2 DEF Ages, Passed, Fresh, LastSlice, Clock
  <2>3. QED BY <2>1, <2>2
<1>5. QED BY <1>2, <1>3, <1>4 DEF Ages

(* Time passes.                                                            *)
LEMMA TickAges ==
  ASSUME Shape, Ages, Tick
  PROVE  Ages'
<1> USE DEF cache
<1>1. /\ now' = now + 1 /\ jiffies' = (jiffies + 1) % Jiffies
      /\ UNCHANGED <<last_updated, filled, began, call, slice, pc, valid, seen, failed>>
  BY DEF Tick
<1>2. (((Boot + now) % Jiffies) + 1) % Jiffies = (Boot + (now + 1)) % Jiffies
  <2>1. Boot + now \in Nat /\ Boot + now + 1 = Boot + (now + 1)
    BY DEF Ages, Clock
  <2>2. QED BY <2>1, NextJiffy
<1>3. Clock'
  BY <1>1, <1>2 DEF Ages, Clock
<1>4. StampsInv'
  <2>1. \A s : Stamped(s)' <=> Stamped(s)
    BY <1>1 DEF Stamped
  <2>2. QED BY <1>1, <2>1 DEF Ages, StampsInv
<1>5. ASSUME NEW q \in Procs PROVE Passed(q)'
  <2>1. \A s \in Slices : Fresh(q, s) => Fresh(q, s)'
    BY <1>1, StillFresh DEF Ages, Clock
  <2>2. QED BY <1>1, <2>1 DEF Ages, Passed, LastSlice
<1>6. QED BY <1>3, <1>4, <1>5 DEF Ages

(* Every step.                                                             *)
THEOREM StepAges == Shape /\ Ages /\ [Next]_vars => Ages'
<1> SUFFICES ASSUME Shape, Ages, [Next]_vars PROVE Ages'
  OBVIOUS
<1>1. CASE UNCHANGED vars
  BY <1>1 DEF vars, cache, history, Ages, Clock, StampsInv, Stamped, Passed, Fresh, LastSlice
<1>2. CASE Next
  BY <1>2, TickAges, StartAges, ReaderAges, StampAges, WriterAges, ReturnAges DEF Next
<1>3. QED BY <1>1, <1>2

(* What a read returns is no older than the lease, unless a transfer of    *)
(* its own failed or half a wrap of jiffies has passed, for any number of  *)
(* processes and any overlap of reads and writes.                          *)
THEOREM AgeBounded == Spec => []NotOlderThanLease
<1>1. Init => Ages
  <2>1. (Boot + 0) % Jiffies = Boot
    OBVIOUS
  <2>2. QED BY <2>1 DEF Init, Ages, Clock, StampsInv, Passed, Reading
<1>2. IInv /\ Ages /\ [Next]_vars => Ages'
  BY StepAges DEF IInv
<1>3. IInv /\ Ages => NotOlderThanLease
  <2> SUFFICES ASSUME Shape, Ages, NEW p \in Procs, pc[p] = "copied", ~failed[p],
                      NEW g \in Asked(p)
               PROVE  Fresh(p, SliceOf(g))
    BY DEF NotOlderThanLease, Fresh, IInv
  <2>1. SliceOf(g) \in Slices
    BY InCall, PageSlice
  <2>2. call[p].off \div 2 <= SliceOf(g) /\ SliceOf(g) <= LastSlice(p)
    <3>1. /\ g \in Int /\ call[p].off \in Nat /\ call[p].count \in Nat
          /\ call[p].off <= g /\ g <= call[p].off + call[p].count - 1
      BY InCall DEF Asked
    <3>2. QED BY <3>1 DEF SliceOf, LastSlice
  <2>3. slice[p] > LastSlice(p) /\ slice[p] \in Nat /\ LastSlice(p) \in Slices
    BY InCall DEF Ages, Passed
  <2>4. SliceOf(g) < slice[p]
    BY <2>1, <2>2, <2>3 DEF Slices
  <2>5. QED BY <2>1, <2>2, <2>4 DEF Ages, Passed, Reading
<1>4. QED BY <1>1, <1>2, <1>3, Invariance, PTL DEF Spec
=============================================================================
