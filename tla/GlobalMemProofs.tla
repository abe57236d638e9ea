-------------------------- MODULE GlobalMemProofs ---------------------------
(***************************************************************************)
(* Proofs about module GlobalMem, for any number of processes, any size    *)
(* and any number of probes: the types, that the semaphore is returned on  *)
(* every path, what the counter counts, and that reads are whole.          *)
(***************************************************************************)
EXTENDS GlobalMem, FiniteSetTheorems, SequenceTheorems, TLAPS

LOCAL INSTANCE SequencesExt

(* A process is in a call exactly if it has one; the step it is at fits    *)
(* the call; the cells it has still to copy are behind its offset and      *)
(* within the device; a read has collected the cells it has passed.        *)
ProcOK(p) ==
  /\ pc[p] \in {"closed", "idle"} <=> op[p].kind = "none"
  /\ pc[p] = "count" => Counts(p)
  /\ pc[p] = "copy" => op[p].kind \in {"clear", "read", "write"}
  /\ op[p].kind \in {"read", "write"} =>
       pos[p] + op[p].n <= Size /\ pos[p] <= at[p] /\ at[p] <= pos[p] + op[p].n
  /\ op[p].kind = "clear" => op[p].n = Size
  /\ pc[p] # "copy" => got[p] = << >>
  /\ op[p].kind = "read" => at[p] = pos[p] + Len(got[p])

(* The write of the binary attribute is within the memory.                 *)
BinOK == bin = NoBin \/ bin.at < bin.n

(* Those in the queue wait, and nobody is in it twice.                     *)
QueueWaits ==
  /\ \A k \in DOMAIN queue : pc[queue[k]] = "wait"
  /\ \A k, m \in DOMAIN queue : queue[k] = queue[m] => k = m

(* SemCountsHolder, with the state before the first sema_init, and saying  *)
(* who is inside rather than how many.                                     *)
SemHeld ==
  driver # "undefined" =>
    /\ ~inited => sem = 0 /\ queue = << >> /\ Inside = {}
    /\ inited => \/ sem = 1 /\ Inside = {} /\ queue = << >>
                 \/ sem = 0 /\ \E p \in Procs : Inside = {p}

Shapes == TypeOK /\ (\A p \in Procs : ProcOK(p)) /\ BinOK
Mutex  == QueueWaits /\ SemHeld
IInv   == Shapes /\ Mutex /\ CountsOpeners /\ ReadsWhole

Labels == {"closed", "idle", "down", "wait", "count", "copy"}
Ops == [kind : {"none", "open", "release", "clear", "read", "write"}, n : 0 .. Size, v : Value]

(***************************************************************************)
(* The queue.                                                              *)
(***************************************************************************)
(* The elements of two queues put together.                                *)
LEMMA JoinedQueues ==
  \A f, b \in Seq(Procs) :
    /\ f \o b \in Seq(Procs) /\ Len(f \o b) = Len(f) + Len(b)
    /\ \A j \in 1 .. Len(f) + Len(b) :
         (f \o b)[j] = IF j <= Len(f) THEN f[j] ELSE b[j - Len(f)]
BY ConcatProperties, Zenon

USE GlobalMemAssumption

(* Without its first element, a queue is a queue of the others.            *)
LEMMA TailOfQueue ==
  ASSUME NEW q \in Seq(Procs), q # << >>,
         \A k, m \in DOMAIN q : q[k] = q[m] => k = m
  PROVE  /\ Tail(q) \in Seq(Procs) /\ Head(q) \in Procs
         /\ \A k \in DOMAIN Tail(q) :
              k + 1 \in DOMAIN q /\ Tail(q)[k] = q[k + 1] /\ q[k + 1] # Head(q)
         /\ \A k, m \in DOMAIN Tail(q) : Tail(q)[k] = Tail(q)[m] => k = m
<1>1. Len(q) \in Nat \ {0} /\ DOMAIN q = 1 .. Len(q) /\ Head(q) = q[1]
  OBVIOUS
<1>2. Tail(q) \in Seq(Procs) /\ Len(Tail(q)) = Len(q) - 1
  BY <1>1
<1>3. \A k \in 1 .. Len(q) - 1 : Tail(q)[k] = q[k + 1]
  BY <1>1
<1>4. DOMAIN Tail(q) = 1 .. Len(q) - 1
  BY <1>2
<1>5. \A k \in 1 .. Len(q) - 1 : k + 1 \in 1 .. Len(q) /\ k + 1 # 1
  BY <1>1
<1>6. \A k, m \in 1 .. Len(q) - 1 : k + 1 = m + 1 => k = m
  OBVIOUS
<1>7. QED
  BY <1>1, <1>2, <1>3, <1>4, <1>5, <1>6

(* Without the element at k, a queue is a queue of the others.             *)
LEMMA RemoveFromQueue ==
  ASSUME NEW q \in Seq(Procs), NEW k \in DOMAIN q,
         \A i, j \in DOMAIN q : q[i] = q[j] => i = j
  PROVE  /\ RemoveAt(q, k) \in Seq(Procs)
         /\ \A i \in DOMAIN RemoveAt(q, k) : \E j \in DOMAIN q :
              j # k /\ RemoveAt(q, k)[i] = q[j]
         /\ \A i, j \in DOMAIN RemoveAt(q, k) :
              RemoveAt(q, k)[i] = RemoveAt(q, k)[j] => i = j
         /\ Len(q) = 1 => RemoveAt(q, k) = << >>
<1> DEFINE r == RemoveAt(q, k)
<1>1. Len(q) \in Nat /\ DOMAIN q = 1 .. Len(q) /\ k \in 1 .. Len(q)
  OBVIOUS
<1>2. /\ SubSeq(q, 1, k - 1) \in Seq(Procs) /\ Len(SubSeq(q, 1, k - 1)) = k - 1
      /\ SubSeq(q, k + 1, Len(q)) \in Seq(Procs) /\ Len(SubSeq(q, k + 1, Len(q))) = Len(q) - k
  BY <1>1
<1>3. r \in Seq(Procs) /\ Len(r) = Len(q) - 1
  <2> DEFINE f == SubSeq(q, 1, k - 1)  b == SubSeq(q, k + 1, Len(q))
  <2>1. f \in Seq(Procs) /\ b \in Seq(Procs) /\ Len(f) = k - 1 /\ Len(b) = Len(q) - k
    BY <1>2
  <2>2. r = f \o b
    BY DEF RemoveAt
  <2> HIDE DEF f, b, r
  <2>3. f \o b \in Seq(Procs) /\ Len(f \o b) = Len(f) + Len(b)
    BY <2>1, JoinedQueues, Zenon
  <2>4. QED BY <1>1, <2>1, <2>2, <2>3
<1>4. ASSUME NEW i \in 1 .. Len(q) - 1
      PROVE  r[i] = IF i < k THEN q[i] ELSE q[i + 1]
  <2>1. r[i] = IF i <= k - 1 THEN SubSeq(q, 1, k - 1)[i]
                             ELSE SubSeq(q, k + 1, Len(q))[i - (k - 1)]
    <3> DEFINE f == SubSeq(q, 1, k - 1)  b == SubSeq(q, k + 1, Len(q))
    <3>1. f \in Seq(Procs) /\ b \in Seq(Procs) /\ Len(f) = k - 1 /\ Len(b) = Len(q) - k
      BY <1>2
    <3> HIDE DEF f, b
    <3>2. \A j \in 1 .. Len(f) + Len(b) :
            (f \o b)[j] = IF j <= Len(f) THEN f[j] ELSE b[j - Len(f)]
      BY <3>1, JoinedQueues, Zenon
    <3>3. (f \o b)[i] = IF i <= k - 1 THEN f[i] ELSE b[i - (k - 1)]
      BY <1>1, <3>1, <3>2
    <3>4. QED BY <3>3 DEF f, b, RemoveAt
  <2>2. CASE i < k
    BY <1>1, <2>1, <2>2
  <2>3. CASE ~(i < k)
    <3>1. i - (k - 1) \in 1 .. Len(q) - k
      BY <1>1, <2>3
    <3>2. SubSeq(q, k + 1, Len(q))[i - (k - 1)] = q[k + 1 + (i - (k - 1)) - 1]
      BY <1>1, <3>1
    <3>3. QED BY <1>1, <2>1, <2>3, <3>2
  <2>4. QED BY <1>1, <2>2, <2>3
<1>5. DOMAIN r = 1 .. Len(q) - 1
  BY <1>3
<1>6. ASSUME NEW i \in DOMAIN r
      PROVE  \E j \in DOMAIN q : j # k /\ r[i] = q[j]
  <2>1. CASE i < k
    BY <1>1, <1>4, <1>5, <2>1
  <2>2. CASE ~(i < k)
    <3>1. i + 1 \in DOMAIN q /\ i + 1 # k /\ r[i] = q[i + 1]
      BY <1>1, <1>4, <1>5, <2>2
    <3>2. QED BY <3>1
  <2>3. QED BY <2>1, <2>2
<1>7. ASSUME NEW i \in DOMAIN r, NEW j \in DOMAIN r, r[i] = r[j]
      PROVE  i = j
  <2>1. i \in 1 .. Len(q) - 1 /\ j \in 1 .. Len(q) - 1
    BY <1>5
  <2>2. CASE i < k /\ j < k
    BY <1>1, <1>4, <1>7, <2>1, <2>2
  <2>3. CASE i < k /\ ~(j < k)
    <3>1. q[i] = q[j + 1] /\ i \in DOMAIN q /\ j + 1 \in DOMAIN q /\ i # j + 1
      BY <1>1, <1>4, <1>7, <2>1, <2>3
    <3>2. QED BY <3>1
  <2>4. CASE ~(i < k) /\ j < k
    <3>1. q[i + 1] = q[j] /\ i + 1 \in DOMAIN q /\ j \in DOMAIN q /\ i + 1 # j
      BY <1>1, <1>4, <1>7, <2>1, <2>4
    <3>2. QED BY <3>1
  <2>5. CASE ~(i < k) /\ ~(j < k)
    <3>1. q[i + 1] = q[j + 1] /\ i + 1 \in DOMAIN q /\ j + 1 \in DOMAIN q
      BY <1>1, <1>4, <1>7, <2>1, <2>5
    <3>2. i + 1 = j + 1
      BY <3>1
    <3>3. QED BY <2>1, <3>2
  <2>6. QED BY <2>2, <2>3, <2>4, <2>5
<1>8. Len(q) = 1 => r = << >>
  BY <1>3
<1>9. QED
  BY <1>3, <1>6, <1>7, <1>8

(***************************************************************************)
(* The semaphore.                                                          *)
(***************************************************************************)
(* Who leaves hands the semaphore to the first in the queue, or frees it.  *)
LEMMA LeaveKeepsMutex ==
  ASSUME TypeOK, Mutex, driver # "undefined", UNCHANGED <<inited, driver>>,
         NEW p \in Procs, p \in Inside, NEW label \in {"closed", "idle"}, Leave(p, label)
  PROVE  /\ Mutex'
         /\ pc' \in [Procs -> Labels] /\ pc'[p] = label
         /\ \A q \in Procs \ {p} :
              pc'[q] = pc[q] \/ (pc[q] = "wait" /\ pc'[q] = Body(q))
         /\ queue' \in Seq(Procs) /\ sem' \in Nat
<1>1. /\ inited /\ sem = 0 /\ Inside = {p} /\ queue \in Seq(Procs)
      /\ pc \in [Procs -> Labels]
  BY DEF Mutex, SemHeld, TypeOK, Labels
<1>2. \A q \in Procs : Body(q) \in {"count", "copy"}
  BY DEF Body
<1>3. \A q \in Procs : q # p => pc[q] \notin {"count", "copy"}
  BY <1>1 DEF Inside
<1>4. CASE queue = << >>
  <2>1. /\ pc' = [q \in Procs |-> IF q = p THEN label ELSE pc[q]]
        /\ sem' = 1 /\ queue' = << >>
    BY <1>1, <1>4 DEF Leave, Up, AfterUp
  <2>2. Inside' = {}
    BY <1>3, <2>1 DEF Inside
  <2>3. Mutex'
    BY <1>1, <2>1, <2>2 DEF Mutex, QueueWaits, SemHeld
  <2>4. QED BY <1>1, <2>1, <2>3 DEF Labels
<1>5. CASE queue # << >>
  <2> DEFINE h == Head(queue)
  <2>1. /\ h \in Procs /\ Tail(queue) \in Seq(Procs)
        /\ \A k \in DOMAIN Tail(queue) :
             k + 1 \in DOMAIN queue /\ Tail(queue)[k] = queue[k + 1] /\ queue[k + 1] # h
        /\ \A k, m \in DOMAIN Tail(queue) : Tail(queue)[k] = Tail(queue)[m] => k = m
    BY <1>1, <1>5, TailOfQueue DEF Mutex, QueueWaits
  <2>2. pc[h] = "wait" /\ h # p
    <3>1. 1 \in DOMAIN queue /\ h = queue[1]
      BY <1>1, <1>5
    <3>2. pc[h] = "wait"
      BY <3>1 DEF Mutex, QueueWaits
    <3>3. QED BY <1>1, <3>2 DEF Inside
  <2> HIDE DEF h
  <2>3. /\ pc' = [q \in Procs |-> IF q = p THEN label ELSE IF q = h THEN Body(q) ELSE pc[q]]
        /\ sem' = 0 /\ queue' = Tail(queue)
    BY <1>1, <1>5 DEF Leave, Up, AfterUp, h
  <2>4. Inside' = {h}
    BY <1>2, <1>3, <2>1, <2>2, <2>3 DEF Inside
  <2>5. SemHeld'
    BY <1>1, <2>1, <2>3, <2>4 DEF SemHeld
  <2>6. QueueWaits'
    <3>1. ASSUME NEW k \in DOMAIN queue'
          PROVE  pc'[queue'[k]] = "wait"
      <4>1. k + 1 \in DOMAIN queue /\ queue'[k] = queue[k + 1] /\ queue[k + 1] # h
        BY <2>1, <2>3, <3>1
      <4>2. pc[queue[k + 1]] = "wait" /\ queue[k + 1] \in Procs
        BY <1>1, <4>1 DEF Mutex, QueueWaits
      <4>3. queue[k + 1] # p
        BY <1>1, <4>2 DEF Inside
      <4>4. QED BY <2>3, <4>1, <4>2, <4>3
    <3>2. QED BY <2>1, <2>3, <3>1 DEF QueueWaits
  <2>7. QED BY <1>1, <1>2, <2>1, <2>2, <2>3, <2>5, <2>6 DEF Mutex, Labels
<1>6. QED BY <1>4, <1>5

(* A step after which everybody is where he was, or somebody who was not   *)
(* concerned with the semaphore still is not, keeps the mutual exclusion.  *)
LEMMA OutsideKeepsMutex ==
  ASSUME TypeOK, Mutex, UNCHANGED <<lock, driver>>, pc' \in [Procs -> Labels],
         \A q \in Procs : pc'[q] = pc[q] \/ (pc[q] \notin {"wait", "count", "copy"}
                                              /\ pc'[q] \notin {"count", "copy"})
  PROVE  Mutex'
<1>1. Inside' = Inside
  BY DEF Inside
<1>2. \A k \in DOMAIN queue : queue[k] \in Procs
  BY DEF TypeOK
<1>3. QueueWaits'
  BY <1>2 DEF Mutex, QueueWaits, lock
<1>4. SemHeld'
  BY <1>1 DEF Mutex, SemHeld, lock
<1>5. QED BY <1>3, <1>4 DEF Mutex

(* Taking the free semaphore keeps it a mutex.                             *)
LEMMA TakeKeepsMutex ==
  ASSUME TypeOK, Mutex, driver # "undefined", NEW p \in Procs, Take(p)
  PROVE  Mutex'
<1>1. inited /\ sem = 1 /\ Inside = {} /\ queue = << >> /\ pc \in [Procs -> Labels]
  BY DEF Take, Mutex, SemHeld, TypeOK, Labels
<1>2. sem' = 0 /\ queue' = << >> /\ UNCHANGED <<inited, driver>>
  BY <1>1 DEF Take, bus
<1>3. Inside' = {p}
  BY <1>1 DEF Take, Inside, Body
<1>4. QED BY <1>1, <1>2, <1>3 DEF Mutex, QueueWaits, SemHeld

(* So does waiting for it while it is taken.                               *)
LEMMA EnqueueKeepsMutex ==
  ASSUME TypeOK, Mutex, driver # "undefined", NEW p \in Procs, Enqueue(p)
  PROVE  Mutex'
<1>1. /\ inited /\ sem = 0 /\ queue \in Seq(Procs) /\ pc \in [Procs -> Labels]
      /\ \E q \in Procs : Inside = {q}
  BY DEF Enqueue, Mutex, SemHeld, TypeOK, Labels
<1>2. queue' = Append(queue, p) /\ pc' = [pc EXCEPT ![p] = "wait"] /\ pc[p] = "down"
      /\ UNCHANGED <<sem, inited, driver>>
  BY DEF Enqueue, bus
<1>3. Inside' = Inside
  BY <1>1, <1>2 DEF Inside
<1>4. SemHeld'
  BY <1>1, <1>2, <1>3 DEF SemHeld
<1>5. \A k \in DOMAIN queue : queue[k] \in Procs /\ queue[k] # p /\ pc[queue[k]] = "wait"
  BY <1>1, <1>2 DEF Mutex, QueueWaits
<1>6. \A k \in DOMAIN queue' : \/ k \in DOMAIN queue /\ queue'[k] = queue[k]
                               \/ k = Len(queue) + 1 /\ queue'[k] = p
  BY <1>1, <1>2
<1>7. QueueWaits'
  <2>1. \A k \in DOMAIN queue' : pc'[queue'[k]] = "wait"
    BY <1>1, <1>2, <1>5, <1>6
  <2>2. \A k, m \in DOMAIN queue' : queue'[k] = queue'[m] => k = m
    BY <1>5, <1>6 DEF Mutex, QueueWaits
  <2>3. QED BY <2>1, <2>2 DEF QueueWaits
<1>8. QED BY <1>4, <1>7 DEF Mutex

(* Whoever gives up takes himself off the queue.                           *)
LEMMA InterruptedKeepsMutex ==
  ASSUME TypeOK, Mutex, driver # "undefined", NEW p \in Procs, Interrupted(p)
  PROVE  Mutex' /\ queue' \in Seq(Procs) /\ UNCHANGED <<sem, inited, driver>>
<1>1. /\ queue \in Seq(Procs) /\ pc \in [Procs -> Labels] /\ pc[p] = "wait"
      /\ UNCHANGED <<sem, inited, driver>>
      /\ pc' = [pc EXCEPT ![p] = IF Counts(p) THEN "closed" ELSE "idle"]
  BY DEF Interrupted, TypeOK, Labels, bus
<1>2. PICK k \in DOMAIN queue : queue[k] = p /\ queue' = RemoveAt(queue, k)
  BY DEF Interrupted
<1>3. /\ queue' \in Seq(Procs)
      /\ \A i \in DOMAIN queue' : \E j \in DOMAIN queue : j # k /\ queue'[i] = queue[j]
      /\ \A i, j \in DOMAIN queue' : queue'[i] = queue'[j] => i = j
  BY <1>1, <1>2, RemoveFromQueue DEF Mutex, QueueWaits
<1>4. QueueWaits'
  <2>1. ASSUME NEW i \in DOMAIN queue'
        PROVE  pc'[queue'[i]] = "wait"
    <3>1. PICK j \in DOMAIN queue : j # k /\ queue'[i] = queue[j]
      BY <1>3
    <3>2. queue[j] # p /\ pc[queue[j]] = "wait" /\ queue[j] \in Procs
      BY <1>1, <1>2, <3>1 DEF Mutex, QueueWaits
    <3>3. QED BY <1>1, <3>1, <3>2
  <2>2. QED BY <1>3, <2>1 DEF QueueWaits
<1>5. Inside' = Inside
  BY <1>1 DEF Inside
<1>6. sem = 0 /\ inited
  <2>1. queue # << >>
    BY <1>1, <1>2
  <2>2. QED BY <2>1 DEF Mutex, SemHeld
<1>7. SemHeld'
  BY <1>1, <1>5, <1>6 DEF Mutex, SemHeld
<1>8. QED BY <1>1, <1>3, <1>4, <1>7 DEF Mutex

(* sema_init on a semaphore that is not in use.                            *)
LEMMA SemaInitKeepsMutex ==
  ASSUME TypeOK, SemaInit
  PROVE  Mutex'
<1>1. sem' = 1 /\ queue' = << >> /\ inited' /\ Inside' = Inside
  BY DEF SemaInit, local, Inside
<1>2. driver' # "undefined" => Inside = {}
  BY DEF SemaInit
<1>3. QED BY <1>1, <1>2 DEF Mutex, QueueWaits, SemHeld

(* Every step keeps the semaphore a mutex.                                 *)
THEOREM StepMutex == IInv /\ [Next]_vars => Mutex'
<1> SUFFICES ASSUME IInv, [Next]_vars PROVE Mutex'
  OBVIOUS
<1> USE DEF IInv, Shapes
<1>1. pc \in [Procs -> Labels] /\ \A q \in Procs : ProcOK(q)
  BY DEF TypeOK, Labels
<1>2. ASSUME NEW p \in Procs, NEW kind, NEW n, NEW v, pc[p] \in {"closed", "idle"}, Call(p, kind, n, v)
      PROVE  Mutex'
  BY <1>1, <1>2, OutsideKeepsMutex DEF Call, bus, Labels
<1>3. ASSUME NEW p \in Procs,
             Open(p) \/ Release(p) \/ Clear(p) \/ Read(p) \/ Write(p)
      PROVE  Mutex'
  BY <1>2, <1>3 DEF Open, Release, Clear, Read, Write
<1>4. ASSUME NEW p \in Procs, Seek(p) \/ Copy(p)
      PROVE  Mutex'
  BY <1>1, <1>4, OutsideKeepsMutex DEF Seek, Copy, bus
<1>5. ASSUME BinWrite \/ BinCopy \/ DemoStore
      PROVE  Mutex'
  BY <1>1, <1>5, OutsideKeepsMutex DEF BinWrite, BinCopy, DemoStore, bus, local
<1>6. ASSUME driver # "undefined", UNCHANGED <<lock, local>>
      PROVE  Mutex'
  BY <1>6 DEF Mutex, QueueWaits, SemHeld, Inside, lock, local
<1>7. ASSUME driver # "undefined", Publish \/ RequestIrq \/ DrvRemove
      PROVE  Mutex'
  BY <1>6, <1>7 DEF Publish, RequestIrq, DrvRemove
<1>8. ASSUME NEW p \in Procs, driver # "undefined", Oops(p)
      PROVE  Mutex'
  BY <1>6, <1>8 DEF Oops
<1>9. ASSUME NEW p \in Procs, driver # "undefined", Count(p)
      PROVE  Mutex'
  <2>1. p \in Inside /\ UNCHANGED <<inited, driver>>
    BY <1>9 DEF Count, Inside, bus
  <2>2. CASE op[p].kind = "open"
    BY <1>9, <2>1, <2>2, LeaveKeepsMutex DEF Count
  <2>3. CASE op[p].kind # "open"
    BY <1>9, <2>1, <2>3, LeaveKeepsMutex DEF Count
  <2>4. QED BY <2>2, <2>3
<1>10. ASSUME NEW p \in Procs, driver # "undefined", Copied(p) \/ Fault(p)
      PROVE  Mutex'
  <2>1. p \in Inside /\ UNCHANGED <<inited, driver>> /\ Leave(p, "idle")
    BY <1>10 DEF Copied, Fault, Copying, Inside, bus
  <2>2. QED BY <1>10, <2>1, LeaveKeepsMutex
<1>11. CASE UNCHANGED vars
  BY <1>11 DEF vars, lock, local, bus, Mutex, QueueWaits, SemHeld, Inside
<1>12. QED
  BY <1>3, <1>4, <1>5, <1>7, <1>8, <1>9, <1>10, <1>11,
     TakeKeepsMutex, EnqueueKeepsMutex, InterruptedKeepsMutex, SemaInitKeepsMutex
     DEF Next, Works

(***************************************************************************)
(* Types and the shape of calls.                                           *)
(***************************************************************************)
(* A call begins with what the code has cut to the size of the device.     *)
LEMMA CallShapes ==
  ASSUME Shapes, NEW p \in Procs, NEW kind \in {"open", "release", "clear", "read", "write"},
         NEW n \in 0 .. Size, NEW v \in Value, Call(p, kind, n, v),
         pc[p] \in {"closed", "idle"},
         kind \in {"read", "write"} => pos[p] + n <= Size,
         kind = "clear" => n = Size
  PROVE  Shapes'
<1>1. [kind |-> kind, n |-> n, v |-> v] \in Ops
  BY DEF Ops
<1>2. pos[p] \in 0 .. Size /\ got[p] = << >> /\ ProcOK(p)
  BY DEF Shapes, TypeOK, ProcOK
<1>3. TypeOK'
  BY <1>1, <1>2 DEF Shapes, TypeOK, Call, lock, fields, bus, ghosts, Ops
<1>4. ProcOK(p)'
  <2>1. /\ op'[p].kind = kind /\ op'[p].n = n /\ pc'[p] = "down" /\ got'[p] = << >>
        /\ pos'[p] = pos[p] /\ at'[p] = IF kind \in {"read", "write"} THEN pos[p] ELSE 0
    BY <1>2 DEF Call, Shapes, TypeOK
  <2>2. Len(<< >>) = 0
    OBVIOUS
  <2>3. QED BY <1>2, <2>1, <2>2 DEF ProcOK
<1>5. ASSUME NEW q \in Procs, q # p
      PROVE  ProcOK(q)'
  <2>1. UNCHANGED <<op[q], pc[q], got[q], pos[q], at[q]>>
    BY <1>5 DEF Call, Shapes, TypeOK
  <2>2. QED BY <2>1 DEF Shapes, ProcOK, Counts
<1>6. BinOK'
  BY DEF Call, Shapes, BinOK
<1>7. QED BY <1>3, <1>4, <1>5, <1>6 DEF Shapes

(* Whoever has left has no call, and the one who enters had one.           *)
LEMMA LeaveShapes ==
  ASSUME Shapes, Mutex, driver # "undefined", UNCHANGED <<inited, mem, data, bus, bin, leaked>>,
         NEW p \in Procs, p \in Inside, NEW label \in {"closed", "idle"}, Leave(p, label),
         cnt' \in Int, pos' \in [Procs -> 0 .. Size], \A q \in Procs : q # p => pos'[q] = pos[q]
  PROVE  Shapes'
<1> USE DEF Shapes
<1>1. /\ pc' \in [Procs -> Labels] /\ pc'[p] = label
      /\ \A q \in Procs \ {p} :
           pc'[q] = pc[q] \/ (pc[q] = "wait" /\ pc'[q] = Body(q))
      /\ queue' \in Seq(Procs) /\ sem' \in Nat
  BY LeaveKeepsMutex DEF bus
<1>2. /\ op' = [op EXCEPT ![p] = NoOp] /\ at' = [at EXCEPT ![p] = 0]
      /\ got' = [got EXCEPT ![p] = << >>] /\ torn' = torn \ {p}
  BY DEF Leave
<1>3. NoOp \in Ops /\ << >> \in Seq(Value) /\ NoOp.kind = "none"
  BY DEF NoOp, Ops
<1>4. TypeOK'
  <2>1. UNCHANGED <<inited, mem, data, driver, cdev, binds, bin, leaked>>
    BY DEF bus
  <2>2. inited' \in BOOLEAN /\ mem' \in [Cells -> Value] /\ data' \in Value
    BY <2>1 DEF TypeOK
  <2>3. /\ driver' \in {"unbound", "published", "sysfs", "bound", "undefined"}
        /\ cdev' \in BOOLEAN /\ binds' \in 0 .. MaxBinds
    BY <2>1 DEF TypeOK
  <2>4. bin' \in [n : 0 .. Size, v : Value, at : 0 .. Size] /\ leaked' \in 0 .. MaxLeaks
    BY <2>1 DEF TypeOK
  <2>5. op' \in [Procs -> Ops]
    BY <1>2, <1>3 DEF TypeOK, Ops
  <2>6. at' \in [Procs -> 0 .. Size]
    BY <1>2 DEF TypeOK
  <2>7. got' \in [Procs -> Seq(Value)]
    BY <1>2, <1>3 DEF TypeOK
  <2>8. torn' \subseteq Procs
    BY <1>2 DEF TypeOK
  <2>9. QED
    BY <1>1, <2>2, <2>3, <2>4, <2>5, <2>6, <2>7, <2>8 DEF TypeOK, Labels, Ops
<1>5. ProcOK(p)'
  BY <1>1, <1>2, <1>3 DEF ProcOK, TypeOK, Counts
<1>6. ASSUME NEW q \in Procs, q # p
      PROVE  ProcOK(q)'
  <2>1. UNCHANGED <<op[q], got[q], pos[q], at[q]>>
    BY <1>2, <1>6 DEF TypeOK
  <2>2. CASE pc'[q] = pc[q]
    BY <2>1, <2>2 DEF ProcOK, Counts
  <2>3. CASE pc[q] = "wait" /\ pc'[q] = Body(q)
    <3>1. op[q].kind # "none" /\ op[q].kind \in {"open", "release", "clear", "read", "write"}
      BY <2>3 DEF ProcOK, TypeOK
    <3>2. QED BY <2>1, <2>3, <3>1 DEF ProcOK, Counts, Body
  <2>4. QED BY <1>1, <1>6, <2>2, <2>3
<1>7. BinOK'
  BY DEF BinOK
<1>8. QED BY <1>4, <1>5, <1>6, <1>7

(* Where neither a process nor the memory is concerned.                    *)
LEMMA OtherShapes ==
  ASSUME Shapes, UNCHANGED local, TypeOK', BinOK'
  PROVE  Shapes'
BY DEF Shapes, local, ProcOK, Counts

(* Every step keeps the types and the shape of the calls.                  *)
THEOREM StepShapes == IInv /\ [Next]_vars => Shapes'
<1> SUFFICES ASSUME IInv, [Next]_vars PROVE Shapes'
  OBVIOUS
<1> USE DEF IInv
<1>1. 0 \in 0 .. Size /\ Size \in 0 .. Size /\ Size \in Nat
  OBVIOUS
<1>2. ASSUME NEW p \in Procs, Open(p) \/ Release(p) \/ Clear(p)
      PROVE  Shapes'
  BY <1>1, <1>2, CallShapes DEF Open, Release, Clear
<1>3. ASSUME NEW p \in Procs, NEW count \in 0 .. Size, pos[p] < Size
      PROVE  /\ Lesser(count, Size - pos[p]) \in 0 .. Size
             /\ pos[p] + Lesser(count, Size - pos[p]) <= Size
  <2>1. pos[p] \in 0 .. Size
    BY DEF Shapes, TypeOK
  <2>2. QED BY <1>3, <2>1 DEF Lesser
<1>4. ASSUME NEW p \in Procs, Read(p)
      PROVE  Shapes'
  BY <1>3, <1>4, CallShapes DEF Read
<1>5. ASSUME NEW p \in Procs, Write(p)
      PROVE  Shapes'
  BY <1>3, <1>5, CallShapes DEF Write
<1>6. ASSUME NEW p \in Procs, Seek(p)
      PROVE  Shapes'
  <2>1. TypeOK'
    BY <1>6 DEF Seek, Shapes, TypeOK, lock, fields, bus, ghosts
  <2>2. ASSUME NEW q \in Procs PROVE ProcOK(q)'
    <3>1. UNCHANGED <<op[q], pc[q], got[q], at[q]>> /\ (q # p => pos'[q] = pos[q])
      BY <1>6 DEF Seek, Shapes, TypeOK
    <3>2. op[p].kind = "none"
      BY <1>6 DEF Seek, Shapes, ProcOK
    <3>3. QED BY <3>1, <3>2 DEF Shapes, ProcOK, Counts
  <2>3. QED BY <1>6, <2>1, <2>2 DEF Seek, Shapes, BinOK
<1>7. ASSUME NEW p \in Procs, pc[p] \in {"down", "wait"}, pc' = [pc EXCEPT ![p] = "wait"] \/ pc' = [pc EXCEPT ![p] = Body(p)],
             UNCHANGED <<inited, fields, bus, op, pos, at, got, bin, ghosts>>,
             sem' \in Nat, queue' \in Seq(Procs)
      PROVE  Shapes'
  <2>1. Body(p) \in {"count", "copy"}
    BY DEF Body
  <2>2. TypeOK'
    BY <1>7, <2>1 DEF Shapes, TypeOK, fields, bus, ghosts
  <2>3. ASSUME NEW q \in Procs PROVE ProcOK(q)'
    <3>1. UNCHANGED <<op[q], got[q], pos[q], at[q]>> /\ (q # p => pc'[q] = pc[q])
          /\ pc'[p] \in {"wait", Body(p)}
      BY <1>7 DEF Shapes, TypeOK
    <3>2. op[p].kind # "none" /\ op[p].kind \in {"open", "release", "clear", "read", "write"}
      BY <1>7 DEF Shapes, ProcOK, TypeOK
    <3>3. QED BY <1>7, <3>1, <3>2 DEF Shapes, ProcOK, Counts, Body
  <2>4. QED BY <1>7, <2>2, <2>3 DEF Shapes, BinOK
<1>8. ASSUME NEW p \in Procs, Take(p) PROVE Shapes'
  <2>1. sem' \in Nat /\ queue' \in Seq(Procs)
    BY <1>8 DEF Take, Shapes, TypeOK
  <2>2. pc[p] \in {"down", "wait"} /\ pc' = [pc EXCEPT ![p] = Body(p)]
        /\ UNCHANGED <<inited, fields, bus, op, pos, at, got, bin, ghosts>>
    BY <1>8 DEF Take
  <2>3. QED BY <1>7, <2>1, <2>2
<1>9. ASSUME NEW p \in Procs, Enqueue(p) PROVE Shapes'
  <2>1. sem' \in Nat /\ queue' \in Seq(Procs)
    BY <1>9 DEF Enqueue, Shapes, TypeOK
  <2>2. pc[p] \in {"down", "wait"} /\ pc' = [pc EXCEPT ![p] = "wait"]
        /\ UNCHANGED <<inited, fields, bus, op, pos, at, got, bin, ghosts>>
    BY <1>9 DEF Enqueue
  <2>3. QED BY <1>7, <2>1, <2>2
<1>10. ASSUME NEW p \in Procs, driver # "undefined", Interrupted(p) PROVE Shapes'
  <2>1. queue' \in Seq(Procs)
    BY <1>10, InterruptedKeepsMutex DEF Shapes
  <2>2. NoOp \in Ops /\ NoOp.kind = "none"
    BY DEF NoOp, Ops
  <2>3. leaked \in 0 .. MaxLeaks
    BY DEF Shapes, TypeOK
  <2>4. leaked' \in 0 .. MaxLeaks
    BY <1>10, <2>3 DEF Interrupted
  <2>5. TypeOK'
    <3>1. pc' \in [Procs -> {"closed", "idle", "down", "wait", "count", "copy"}]
      BY <1>10 DEF Interrupted, Shapes, TypeOK
    <3>2. op' \in [Procs -> Ops] /\ at' \in [Procs -> 0 .. Size] /\ pos' \in [Procs -> 0 .. Size]
      BY <1>1, <1>10, <2>2 DEF Interrupted, Shapes, TypeOK, Ops
    <3>3. UNCHANGED <<sem, inited, mem, cnt, data, driver, cdev, binds, got, bin, torn>>
      BY <1>10 DEF Interrupted, fields, bus
    <3>4. QED BY <2>1, <2>4, <3>1, <3>2, <3>3 DEF Shapes, TypeOK, Ops
  <2>6. ASSUME NEW q \in Procs PROVE ProcOK(q)'
    <3>1. CASE q # p
      BY <1>10, <3>1 DEF Interrupted, Shapes, TypeOK, ProcOK, Counts
    <3>2. CASE q = p
      BY <1>10, <2>2, <3>2 DEF Interrupted, Shapes, TypeOK, ProcOK, Counts
    <3>3. QED BY <3>1, <3>2
  <2>7. QED BY <1>10, <2>5, <2>6 DEF Interrupted, Shapes, BinOK
<1>11. ASSUME NEW p \in Procs, driver # "undefined", Count(p) PROVE Shapes'
  <2>1. p \in Inside /\ UNCHANGED <<inited, mem, data, bus, bin, leaked>> /\ cnt' \in Int
    BY <1>11 DEF Count, Inside, Shapes, TypeOK
  <2>2. pos' \in [Procs -> 0 .. Size] /\ \A q \in Procs : q # p => pos'[q] = pos[q]
    BY <1>11 DEF Count, Shapes, TypeOK
  <2>3. Leave(p, "idle") \/ Leave(p, "closed")
    BY <1>11 DEF Count
  <2>4. QED BY <1>11, <2>1, <2>2, <2>3, LeaveShapes
<1>12. ASSUME NEW p \in Procs, driver # "undefined", Copied(p) PROVE Shapes'
  <2>1. p \in Inside /\ UNCHANGED <<inited, mem, data, bus, bin, leaked>> /\ cnt' \in Int /\ Leave(p, "idle")
    BY <1>12 DEF Copied, Inside, Shapes, TypeOK, fields
  <2>2. pos[p] \in 0 .. Size /\ op[p].n \in 0 .. Size
    BY DEF Shapes, TypeOK
  <2>3. op[p].kind # "clear" => pos[p] + op[p].n \in 0 .. Size
    BY <1>12, <2>2 DEF Copied, Shapes, ProcOK
  <2>4. pos' \in [Procs -> 0 .. Size] /\ \A q \in Procs : q # p => pos'[q] = pos[q]
    BY <1>12, <2>2, <2>3 DEF Copied, Shapes, TypeOK
  <2>5. QED BY <1>12, <2>1, <2>4, LeaveShapes
<1>13. ASSUME NEW p \in Procs, driver # "undefined", Fault(p) PROVE Shapes'
  <2>1. p \in Inside /\ UNCHANGED <<inited, mem, data, bus, bin, leaked>> /\ cnt' \in Int /\ Leave(p, "idle")
    BY <1>13 DEF Fault, Copying, Inside, Shapes, TypeOK, fields
  <2>2. pos' \in [Procs -> 0 .. Size] /\ \A q \in Procs : q # p => pos'[q] = pos[q]
    BY <1>13 DEF Fault, Shapes, TypeOK
  <2>3. QED BY <1>13, <2>1, <2>2, LeaveShapes
<1>14. ASSUME NEW p \in Procs, Copy(p) PROVE Shapes'
  <2>1. /\ pc[p] = "copy" /\ at[p] < First(p) + op[p].n /\ ProcOK(p)
        /\ at[p] \in 0 .. Size /\ pos[p] \in 0 .. Size /\ op[p].n \in 0 .. Size
        /\ op[p].v \in Value /\ got[p] \in Seq(Value) /\ at[p] \in Cells
    <3>1. pc[p] = "copy" /\ at[p] < First(p) + op[p].n /\ ProcOK(p)
      BY <1>14 DEF Copy, Copying, Shapes
    <3>2. op[p] \in Ops
      BY DEF Shapes, TypeOK, Ops
    <3>3. op[p].n \in 0 .. Size /\ op[p].v \in Value
      BY <3>2 DEF Ops
    <3>4. at[p] \in 0 .. Size /\ pos[p] \in 0 .. Size /\ got[p] \in Seq(Value)
      BY DEF Shapes, TypeOK
    <3>5. First(p) + op[p].n <= Size
      BY <3>1, <3>3, <3>4 DEF ProcOK, First
    <3>6. QED BY <3>1, <3>3, <3>4, <3>5 DEF First, Cells
  <2>2. at[p] + 1 \in 0 .. Size /\ at[p] + 1 <= First(p) + op[p].n
    BY <2>1 DEF First, ProcOK
  <2>3. mem[at[p]] \in Value /\ Append(got[p], mem[at[p]]) \in Seq(Value)
        /\ Len(Append(got[p], mem[at[p]])) = Len(got[p]) + 1
    BY <2>1 DEF Shapes, TypeOK
  <2>4. TypeOK'
    <3>1. mem' \in [Cells -> Value] /\ got' \in [Procs -> Seq(Value)]
      <4>1. mem \in [Cells -> Value] /\ got \in [Procs -> Seq(Value)] /\ 0 \in Value
        BY DEF Shapes, TypeOK
      <4>2. CASE op[p].kind = "read"
        <5>1. mem' = mem /\ got' = [got EXCEPT ![p] = Append(got[p], mem[at[p]])]
          BY <1>14, <4>2 DEF Copy
        <5>2. QED BY <2>3, <4>1, <5>1
      <4>3. CASE op[p].kind # "read"
        <5>1. got' = got /\ mem' = [mem EXCEPT ![at[p]] = op[p].v]
          BY <1>14, <4>3 DEF Copy
        <5>2. QED BY <2>1, <4>1, <5>1
      <4>4. QED BY <4>2, <4>3
    <3>2. at' \in [Procs -> 0 .. Size]
      BY <1>14, <2>1, <2>2 DEF Copy, Shapes, TypeOK
    <3>3. QED BY <1>14, <3>1, <3>2 DEF Copy, Shapes, TypeOK, lock, bus, ghosts
  <2>5. ASSUME NEW q \in Procs PROVE ProcOK(q)'
    <3>1. CASE q # p
      BY <1>14, <3>1 DEF Copy, Shapes, TypeOK, ProcOK, Counts
    <3>2. CASE q = p
      <4>1. /\ UNCHANGED <<pc, op, pos>> /\ at'[p] = at[p] + 1
            /\ op[p].kind = "read" => got'[p] = Append(got[p], mem[at[p]])
        BY <1>14 DEF Copy, Shapes, TypeOK
      <4>2. op[p].kind = "read" => Len(got'[p]) = Len(got[p]) + 1 /\ Len(got[p]) \in Nat
        BY <2>1, <2>3, <4>1
      <4>3. op[p].kind = "read" => at'[p] = pos'[p] + Len(got'[p])
        BY <2>1, <4>1, <4>2 DEF ProcOK
      <4>4. op[p].kind \in {"read", "write"} =>
              pos'[p] <= at'[p] /\ at'[p] <= pos'[p] + op[p].n
        BY <2>1, <2>2, <4>1 DEF ProcOK, First
      <4>5. QED BY <2>1, <3>2, <4>1, <4>3, <4>4 DEF ProcOK, Counts
    <3>3. QED BY <3>1, <3>2
  <2>6. QED BY <1>14, <2>4, <2>5 DEF Copy, Shapes, BinOK
<1>15. ASSUME BinWrite PROVE Shapes'
  <2>1. PICK off \in Cells, count \in 1 .. Size, v \in Value :
          bin' = [n |-> Lesser(count, Size - off), v |-> v, at |-> 0]
    BY <1>15 DEF BinWrite
  <2>2. Lesser(count, Size - off) \in 1 .. Size
    BY DEF Lesser, Cells
  <2>3. bin' \in [n : 0 .. Size, v : Value, at : 0 .. Size] /\ bin'.at < bin'.n
    BY <1>1, <2>1, <2>2
  <2>4. QED BY <1>15, <2>3, OtherShapes DEF BinWrite, BinOK, Shapes, TypeOK, lock, fields, bus, local, ghosts
<1>16. ASSUME BinCopy PROVE Shapes'
  <2>1. bin.at \in 0 .. Size /\ bin.n \in 0 .. Size /\ bin.at < bin.n /\ bin.v \in Value
        /\ bin \in [n : 0 .. Size, v : Value, at : 0 .. Size]
    BY <1>16 DEF BinCopy, Shapes, TypeOK
  <2>2. mem' \in [Cells -> Value]
    BY <1>16, <2>1 DEF BinCopy, Shapes, TypeOK, Cells
  <2>3. bin' \in [n : 0 .. Size, v : Value, at : 0 .. Size] /\ BinOK'
    <3>1. CASE bin.at + 1 = bin.n
      BY <1>1, <1>16, <3>1 DEF BinCopy, NoBin, BinOK
    <3>2. CASE bin.at + 1 # bin.n
      <4>1. bin' = [bin EXCEPT !.at = @ + 1]
        BY <1>16, <3>2 DEF BinCopy
      <4>2. bin.at + 1 \in 0 .. Size /\ bin.at + 1 < bin.n
        BY <2>1, <3>2
      <4>3. QED BY <2>1, <4>1, <4>2 DEF BinOK
    <3>3. QED BY <3>1, <3>2
  <2>4. torn' \subseteq Procs
    BY <1>16 DEF BinCopy, Shapes, TypeOK, Inside
  <2>5. TypeOK'
    BY <1>16, <2>2, <2>3, <2>4 DEF BinCopy, Shapes, TypeOK, lock, bus, local
  <2>6. QED BY <1>16, <2>3, <2>5, OtherShapes DEF BinCopy
<1>17. ASSUME DemoStore PROVE Shapes'
  BY <1>17, OtherShapes DEF DemoStore, Shapes, TypeOK, lock, bus, local, ghosts, BinOK
<1>18. ASSUME Publish PROVE Shapes'
  <2>1. binds' \in 0 .. MaxBinds
    BY <1>18 DEF Publish, Shapes, TypeOK
  <2>2. QED BY <1>18, <2>1, OtherShapes DEF Publish, Shapes, TypeOK, lock, fields, local, ghosts, BinOK
<1>19. ASSUME RequestIrq \/ DrvRemove PROVE Shapes'
  BY <1>19, OtherShapes DEF RequestIrq, DrvRemove, Shapes, TypeOK, lock, fields, local, ghosts, BinOK
<1>20. ASSUME SemaInit PROVE Shapes'
  <2>1. << >> \in Seq(Procs) /\ 1 \in Nat
    OBVIOUS
  <2>2. TypeOK' /\ BinOK'
    BY <1>20, <2>1 DEF SemaInit, Shapes, TypeOK, fields, local, ghosts, BinOK
  <2>3. QED BY <1>20, <2>2, OtherShapes DEF SemaInit
<1>21. ASSUME NEW p \in Procs, Oops(p) PROVE Shapes'
  BY <1>21, OtherShapes DEF Oops, Shapes, TypeOK, lock, fields, local, ghosts, BinOK
<1>22. CASE UNCHANGED vars
  BY <1>22, OtherShapes DEF vars, Shapes, TypeOK, lock, fields, bus, local, ghosts, BinOK
<1>23. QED
  BY <1>2, <1>4, <1>5, <1>6, <1>8, <1>9, <1>10, <1>11, <1>12, <1>13, <1>14, <1>15,
     <1>16, <1>17, <1>18, <1>19, <1>20, <1>21, <1>22 DEF Next, Works

(***************************************************************************)
(* The open counter.                                                       *)
(***************************************************************************)
Openers == {p \in Procs : IsOpen(p)}

(* A file more, a file less, or neither.                                   *)
LEMMA OpenersChange ==
  ASSUME NEW p \in Procs, \A q \in Procs \ {p} : IsOpen(q)' = IsOpen(q)
  PROVE  /\ IsOpen(p)' = IsOpen(p) => Cardinality(Openers') = Cardinality(Openers)
         /\ ~IsOpen(p) /\ IsOpen(p)' => Cardinality(Openers') = Cardinality(Openers) + 1
         /\ IsOpen(p) /\ ~IsOpen(p)' => Cardinality(Openers') = Cardinality(Openers) - 1
         /\ Cardinality(Openers) \in Nat
<1>1. IsFiniteSet(Openers)
  BY FS_Subset DEF Openers
<1>2. Cardinality(Openers) \in Nat
  BY <1>1, FS_CardinalityType
<1>3. ASSUME IsOpen(p)' = IsOpen(p)
      PROVE  Openers' = Openers
  BY <1>3 DEF Openers
<1>4. ASSUME ~IsOpen(p), IsOpen(p)'
      PROVE  Cardinality(Openers') = Cardinality(Openers) + 1
  <2>1. Openers' = Openers \cup {p} /\ p \notin Openers
    BY <1>4 DEF Openers
  <2>2. QED BY <1>1, <2>1, FS_AddElement
<1>5. ASSUME IsOpen(p), ~IsOpen(p)'
      PROVE  Cardinality(Openers') = Cardinality(Openers) - 1
  <2>1. Openers' = Openers \ {p} /\ p \in Openers
    BY <1>5 DEF Openers
  <2>2. QED BY <1>1, <2>1, FS_RemoveElement
<1>6. QED BY <1>2, <1>3, <1>4, <1>5

(* Nothing is counted in a step that opens and closes no file.             *)
LEMMA CountFrame ==
  ASSUME CountsOpeners, UNCHANGED <<cnt, leaked>>, \A q \in Procs : IsOpen(q)' = IsOpen(q)
  PROVE  CountsOpeners'
<1>1. Openers' = Openers
  BY DEF Openers
<1>2. QED BY <1>1 DEF CountsOpeners, Openers

(* Leaving touches no other file.                                          *)
LEMMA LeaveOpens ==
  ASSUME Shapes, Mutex, driver # "undefined", UNCHANGED <<inited, driver>>,
         NEW p \in Procs, p \in Inside, NEW label \in {"closed", "idle"}, Leave(p, label)
  PROVE  /\ IsOpen(p)' = (label = "idle")
         /\ \A q \in Procs \ {p} : IsOpen(q)' = IsOpen(q)
<1>1. /\ pc'[p] = label
      /\ \A q \in Procs \ {p} :
              pc'[q] = pc[q] \/ (pc[q] = "wait" /\ pc'[q] = Body(q))
  BY LeaveKeepsMutex DEF Shapes
<1>2. op' = [op EXCEPT ![p] = NoOp] /\ DOMAIN op = Procs
  BY DEF Leave, Shapes, TypeOK
<1>3. IsOpen(p)' = (label = "idle")
  BY <1>1, <1>2 DEF IsOpen, NoOp
<1>4. ASSUME NEW q \in Procs, q # p
      PROVE  IsOpen(q)' = IsOpen(q)
  <2>1. op'[q] = op[q]
    BY <1>2, <1>4
  <2>2. CASE pc'[q] = pc[q]
    BY <2>1, <2>2 DEF IsOpen
  <2>3. CASE pc[q] = "wait" /\ pc'[q] = Body(q)
    BY <2>1, <2>3 DEF IsOpen, Body
  <2>4. QED BY <1>1, <1>4, <2>2, <2>3
<1>5. QED BY <1>3, <1>4

(* Every step keeps the counter right.                                     *)
THEOREM StepCounts == IInv /\ [Next]_vars => CountsOpeners'
<1> SUFFICES ASSUME IInv, [Next]_vars PROVE CountsOpeners'
  OBVIOUS
<1> USE DEF IInv
<1>1. ASSUME NEW p \in Procs, NEW kind \in {"open", "release", "clear", "read", "write"}, NEW n, NEW v,
             Call(p, kind, n, v), pc[p] = IF kind = "open" THEN "closed" ELSE "idle"
      PROVE  CountsOpeners'
  <2>1. op[p].kind = "none"
    BY <1>1 DEF Shapes, ProcOK
  <2>2. \A q \in Procs : IsOpen(q)' = IsOpen(q)
    BY <1>1, <2>1 DEF Call, IsOpen, Shapes, TypeOK
  <2>3. QED BY <1>1, <2>2, CountFrame DEF Call, fields, ghosts
<1>2. ASSUME NEW p \in Procs, Open(p) \/ Release(p) \/ Clear(p) \/ Read(p) \/ Write(p)
      PROVE  CountsOpeners'
  BY <1>1, <1>2 DEF Open, Release, Clear, Read, Write
<1>3. ASSUME NEW p \in Procs, Seek(p) \/ Copy(p) \/ Oops(p)
      PROVE  CountsOpeners'
  BY <1>3, CountFrame DEF Seek, Copy, Oops, IsOpen, fields, local, ghosts
<1>4. ASSUME NEW p \in Procs, Take(p) \/ Enqueue(p)
      PROVE  CountsOpeners'
  <2>1. \A q \in Procs : IsOpen(q)' = IsOpen(q)
    BY <1>4 DEF Take, Enqueue, IsOpen, Body, Shapes, TypeOK
  <2>2. QED BY <1>4, <2>1, CountFrame DEF Take, Enqueue, fields, ghosts
<1>5. ASSUME NEW p \in Procs, Interrupted(p)
      PROVE  CountsOpeners'
  <2>1. \A q \in Procs \ {p} : IsOpen(q)' = IsOpen(q)
    BY <1>5 DEF Interrupted, IsOpen, Shapes, TypeOK
  <2>2. /\ cnt' = cnt /\ cnt \in Int /\ leaked \in Nat /\ pc[p] = "wait"
        /\ op[p].kind \in {"open", "release", "clear", "read", "write"}
        /\ leaked' = IF op[p].kind = "release" THEN leaked + 1 ELSE leaked
        /\ pc'[p] = (IF op[p].kind \in {"open", "release"} THEN "closed" ELSE "idle")
        /\ op'[p].kind = "none"
    <3>1. cnt' = cnt /\ cnt \in Int /\ leaked \in Nat /\ pc[p] = "wait"
      BY <1>5 DEF Interrupted, Shapes, TypeOK, fields
    <3>2. op[p].kind \in {"open", "release", "clear", "read", "write"}
      BY <3>1 DEF Shapes, TypeOK, ProcOK
    <3>3. /\ leaked' = IF op[p].kind = "release" THEN leaked + 1 ELSE leaked
          /\ pc'[p] = IF op[p].kind \in {"open", "release"} THEN "closed" ELSE "idle"
          /\ op'[p] = NoOp
      BY <1>5 DEF Interrupted, Shapes, TypeOK, Counts
    <3>4. QED BY <3>1, <3>2, <3>3 DEF NoOp
  <2>3. CASE op[p].kind = "release"
    <3>1. IsOpen(p) /\ ~IsOpen(p)'
      BY <2>2, <2>3 DEF IsOpen
    <3>2. Cardinality(Openers') = Cardinality(Openers) - 1 /\ Cardinality(Openers) \in Nat
      BY <2>1, <3>1, OpenersChange
    <3>3. QED BY <2>2, <2>3, <3>2 DEF CountsOpeners, Openers
  <2>4. CASE op[p].kind # "release"
    <3>1. IsOpen(p)' = IsOpen(p)
      BY <2>2, <2>4 DEF IsOpen
    <3>2. QED BY <2>1, <2>2, <2>4, <3>1, CountFrame
  <2>5. QED BY <2>3, <2>4
<1>6. ASSUME NEW p \in Procs, driver # "undefined", Count(p)
      PROVE  CountsOpeners'
  <2>1. /\ p \in Inside /\ UNCHANGED <<inited, driver, leaked>> /\ cnt \in Int /\ leaked \in Nat
        /\ op[p].kind \in {"open", "release"}
    BY <1>6 DEF Count, Inside, bus, Shapes, TypeOK, ProcOK, Counts
  <2>2. CASE op[p].kind = "open"
    <3>1. cnt' = cnt + 1 /\ Leave(p, "idle") /\ ~IsOpen(p)
      BY <1>6, <2>2 DEF Count, IsOpen
    <3>2. Cardinality(Openers') = Cardinality(Openers) + 1 /\ Cardinality(Openers) \in Nat
      BY <1>6, <2>1, <3>1, LeaveOpens, OpenersChange
    <3>3. QED BY <2>1, <3>1, <3>2 DEF CountsOpeners, Openers
  <2>3. CASE op[p].kind = "release"
    <3>1. cnt' = cnt - 1 /\ Leave(p, "closed") /\ IsOpen(p)
      BY <1>6, <2>3 DEF Count, IsOpen
    <3>2. Cardinality(Openers') = Cardinality(Openers) - 1 /\ Cardinality(Openers) \in Nat
      BY <1>6, <2>1, <3>1, LeaveOpens, OpenersChange
    <3>3. QED BY <2>1, <3>1, <3>2 DEF CountsOpeners, Openers
  <2>4. QED BY <2>1, <2>2, <2>3
<1>7. ASSUME NEW p \in Procs, driver # "undefined", Copied(p) \/ Fault(p)
      PROVE  CountsOpeners'
  <2>1. /\ p \in Inside /\ UNCHANGED <<inited, driver, leaked, cnt>> /\ Leave(p, "idle")
        /\ op[p].kind \in {"clear", "read", "write"}
    BY <1>7 DEF Copied, Fault, Copying, Inside, bus, fields, Shapes, ProcOK
  <2>2. IsOpen(p)
    BY <2>1 DEF IsOpen
  <2>3. QED BY <1>7, <2>1, <2>2, LeaveOpens, CountFrame
<1>8. ASSUME UNCHANGED <<cnt, leaked, pc, op>>
      PROVE  CountsOpeners'
  BY <1>8, CountFrame DEF IsOpen
<1>9. ASSUME \/ BinWrite \/ BinCopy \/ DemoStore
             \/ Publish \/ RequestIrq \/ SemaInit \/ DrvRemove \/ UNCHANGED vars
      PROVE  CountsOpeners'
  BY <1>8, <1>9 DEF BinWrite, BinCopy, DemoStore, Publish, RequestIrq, SemaInit, DrvRemove,
                    vars, fields, local, ghosts
<1>10. QED
  BY <1>2, <1>3, <1>4, <1>5, <1>6, <1>7, <1>9 DEF Next, Works

(***************************************************************************)
(* Reads.                                                                  *)
(***************************************************************************)
(* A step that leaves the memory alone, and gives no reader cells.         *)
LEMMA ReadsFrame ==
  ASSUME ReadsWhole, mem' = mem,
         \A q \in Procs \ torn' : pc'[q] = "copy" /\ op'[q].kind = "read" =>
           \/ got'[q] = << >>
           \/ /\ q \notin torn /\ pc[q] = "copy" /\ op[q].kind = "read"
              /\ got'[q] = got[q] /\ pos'[q] = pos[q]
  PROVE  ReadsWhole'
BY DEF ReadsWhole

(* Every step keeps what has been read whole.                              *)
THEOREM StepReads == IInv /\ [Next]_vars => ReadsWhole'
<1> SUFFICES ASSUME IInv, [Next]_vars PROVE ReadsWhole'
  OBVIOUS
<1> USE DEF IInv
<1>1. ASSUME UNCHANGED <<mem, local, torn>>
      PROVE  ReadsWhole'
  BY <1>1, ReadsFrame DEF local
<1>2. ASSUME \/ BinWrite \/ DemoStore \/ Publish \/ RequestIrq \/ SemaInit \/ DrvRemove
             \/ UNCHANGED vars \/ \E p \in Procs : Oops(p)
      PROVE  ReadsWhole'
  BY <1>1, <1>2 DEF BinWrite, DemoStore, Publish, RequestIrq, SemaInit, DrvRemove, Oops,
                    vars, fields, ghosts
<1>3. ASSUME NEW p \in Procs, NEW kind, NEW n, NEW v, Call(p, kind, n, v)
      PROVE  ReadsWhole'
  BY <1>3, ReadsFrame DEF Call, Shapes, TypeOK, fields, ghosts
<1>4. ASSUME NEW p \in Procs, Seek(p)
      PROVE  ReadsWhole'
  BY <1>4, ReadsFrame DEF Seek, Shapes, TypeOK, fields, ghosts
<1>5. ASSUME NEW p \in Procs, Take(p) \/ Enqueue(p)
      PROVE  ReadsWhole'
  BY <1>5, ReadsFrame DEF Take, Enqueue, Shapes, TypeOK, ProcOK, fields, ghosts
<1>6. ASSUME NEW p \in Procs, Interrupted(p)
      PROVE  ReadsWhole'
  BY <1>6, ReadsFrame DEF Interrupted, Shapes, TypeOK, fields
<1>7. ASSUME NEW p \in Procs, driver # "undefined", Count(p) \/ Copied(p) \/ Fault(p)
      PROVE  ReadsWhole'
  <2>1. /\ p \in Inside /\ UNCHANGED <<inited, driver, mem>> /\ \E l \in {"closed", "idle"} : Leave(p, l)
        /\ \A q \in Procs \ {p} : pos'[q] = pos[q]
    BY <1>7 DEF Count, Copied, Fault, Copying, Inside, bus, fields, Shapes, TypeOK
  <2>2. PICK l \in {"closed", "idle"} : Leave(p, l)
    BY <2>1
  <2>3. /\ pc'[p] = l
        /\ \A q \in Procs \ {p} :
             pc'[q] = pc[q] \/ (pc[q] = "wait" /\ pc'[q] = Body(q))
    BY <1>7, <2>1, <2>2, LeaveKeepsMutex DEF Shapes
  <2>4. \A q \in Procs \ {p} : got'[q] = got[q] /\ op'[q] = op[q] /\ (q \in torn' <=> q \in torn)
    BY <2>2 DEF Leave, Shapes, TypeOK
  <2>5. \A q \in Procs : pc[q] = "wait" => got[q] = << >>
    BY DEF Shapes, ProcOK
  <2>6. QED BY <2>1, <2>3, <2>4, <2>5, ReadsFrame
<1>8. ASSUME BinCopy
      PROVE  ReadsWhole'
  BY <1>8 DEF BinCopy, local, ReadsWhole, Inside
<1>9. ASSUME NEW p \in Procs, driver # "undefined", Copy(p)
      PROVE  ReadsWhole'
  <2>1. /\ pc[p] = "copy" /\ ProcOK(p) /\ got[p] \in Seq(Value)
        /\ op[p].kind \in {"clear", "read", "write"}
    BY <1>9 DEF Copy, Copying, Shapes, TypeOK, ProcOK
  <2>2. \A q \in Procs : pc[q] = "copy" => q = p
    BY <2>1, <1>9 DEF Mutex, SemHeld, Inside
  <2>3. UNCHANGED <<pc, op, pos, torn>>
    BY <1>9 DEF Copy, ghosts
  <2>4. CASE op[p].kind # "read"
    BY <2>2, <2>3, <2>4 DEF ReadsWhole
  <2>5. CASE op[p].kind = "read"
    <3>1. mem' = mem /\ got'[p] = Append(got[p], mem[at[p]])
      BY <1>9, <2>5 DEF Copy, Shapes, TypeOK
    <3>2. at[p] = pos[p] + Len(got[p]) /\ pos[p] \in Nat /\ Len(got[p]) \in Nat
      BY <2>1, <2>5 DEF ProcOK, Shapes, TypeOK
    <3>3. \A k \in DOMAIN got'[p] :
            \/ k \in DOMAIN got[p] /\ got'[p][k] = got[p][k]
            \/ k = Len(got[p]) + 1 /\ got'[p][k] = mem[at[p]]
      BY <2>1, <3>1
    <3>4. pos[p] + (Len(got[p]) + 1) - 1 = at[p]
      BY <3>2
    <3>5. ASSUME p \notin torn, NEW k \in DOMAIN got'[p]
          PROVE  got'[p][k] = mem[pos[p] + k - 1]
      <4>1. CASE k \in DOMAIN got[p] /\ got'[p][k] = got[p][k]
        BY <2>1, <2>5, <3>5, <4>1 DEF ReadsWhole
      <4>2. CASE k = Len(got[p]) + 1 /\ got'[p][k] = mem[at[p]]
        BY <3>4, <4>2
      <4>3. QED BY <3>3, <3>5, <4>1, <4>2
    <3>6. QED BY <2>2, <2>3, <3>1, <3>5 DEF ReadsWhole
  <2>6. QED BY <2>4, <2>5
<1>10. QED
  BY <1>2, <1>3, <1>4, <1>5, <1>6, <1>7, <1>8, <1>9
     DEF Next, Works, Open, Release, Clear, Read, Write

(***************************************************************************)
(* The invariant and the theorems.                                         *)
(***************************************************************************)
THEOREM InitIInv == Init => IInv
<1> SUFFICES ASSUME Init PROVE IInv
  OBVIOUS
<1> USE DEF Init
<1>1. << >> \in Seq(Procs) /\ << >> \in Seq(Value) /\ 0 \in 0 .. Size /\ Len(<< >>) = 0
  OBVIOUS
<1>2. TypeOK
  <2>1. NoOp \in Ops /\ NoBin \in [n : 0 .. Size, v : Value, at : 0 .. Size]
    BY <1>1 DEF NoOp, NoBin, Ops
  <2>2. op \in [Procs -> Ops] /\ bin \in [n : 0 .. Size, v : Value, at : 0 .. Size]
    BY <2>1
  <2>3. binds \in 0 .. MaxBinds /\ leaked \in 0 .. MaxLeaks /\ torn \subseteq Procs
    OBVIOUS
  <2>4. /\ pos \in [Procs -> 0 .. Size] /\ at \in [Procs -> 0 .. Size]
        /\ got \in [Procs -> Seq(Value)] /\ mem \in [Cells -> Value]
    BY <1>1
  <2>5. pc \in [Procs -> {"closed", "idle", "down", "wait", "count", "copy"}]
    OBVIOUS
  <2>6. sem \in Nat /\ queue \in Seq(Procs) /\ cnt \in Int /\ data \in Value
    BY <1>1
  <2>7. QED BY <2>2, <2>3, <2>4, <2>5, <2>6 DEF TypeOK, Ops
<1>3. Shapes
  BY <1>1, <1>2 DEF Shapes, ProcOK, Counts, NoOp, BinOK
<1>4. Inside = {}
  BY DEF Inside
<1>5. Mutex
  BY <1>4 DEF Mutex, QueueWaits, SemHeld
<1>6. CountsOpeners
  <2>1. {p \in Procs : IsOpen(p)} = {}
    BY DEF IsOpen, NoOp
  <2>2. Cardinality({p \in Procs : IsOpen(p)}) = 0
    BY <2>1, FS_EmptySet
  <2>3. cnt = 0 /\ leaked = 0
    OBVIOUS
  <2>4. QED BY <2>2, <2>3 DEF CountsOpeners
<1>7. ReadsWhole
  BY DEF ReadsWhole
<1>8. QED BY <1>3, <1>5, <1>6, <1>7 DEF IInv

(* Every step keeps the invariant.                                         *)
THEOREM StepIInv == IInv /\ [Next]_vars => IInv'
BY StepShapes, StepMutex, StepCounts, StepReads DEF IInv

(* The invariant holds in every state.                                     *)
THEOREM Invariance == Spec => []IInv
BY InitIInv, StepIInv, PTL DEF Spec

(* Offsets and lengths stay within the device, whatever is called when.    *)
THEOREM TypesCorrect == Spec => []TypeOK
<1>1. IInv => TypeOK
  BY DEF IInv, Shapes
<1>2. QED BY <1>1, Invariance, PTL

(* Every path through a call returns the semaphore, and only that path     *)
(* does: one process is inside, or the count is one.                       *)
THEOREM SemaphoreCorrect == Spec => []SemCountsHolder
<1>1. IInv => SemCountsHolder
  <2> SUFFICES ASSUME IInv, inited, driver # "undefined"
               PROVE  sem + Cardinality(Inside) = 1 /\ (queue # << >> => sem = 0)
    BY DEF SemCountsHolder
  <2>1. CASE sem = 1 /\ Inside = {} /\ queue = << >>
    BY <2>1, FS_EmptySet
  <2>2. CASE sem = 0 /\ \E p \in Procs : Inside = {p}
    BY <2>2, FS_Singleton
  <2>3. QED BY <2>1, <2>2 DEF IInv, Mutex, SemHeld
<1>2. QED BY <1>1, Invariance, PTL

(* The counter is off by the releases that a signal cut short, and by      *)
(* nothing else.                                                           *)
THEOREM CounterCorrect == Spec => []CountsOpeners
<1>1. IInv => CountsOpeners
  BY DEF IInv
<1>2. QED BY <1>1, Invariance, PTL

(* Only sysfs can tear a read.                                             *)
THEOREM ReadsCorrect == Spec => []ReadsWhole
<1>1. IInv => ReadsWhole
  BY DEF IInv
<1>2. QED BY <1>1, Invariance, PTL
=============================================================================
