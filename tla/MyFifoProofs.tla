---------------------------- MODULE MyFifoProofs ----------------------------
(***************************************************************************)
(* Theorems about MyFifo for every set of processes, every MYFIFO_SIZE and *)
(* every request size.  The inductive invariant is the conjunction of the  *)
(* type invariant, the semaphore's, the ring's and the two wake-up         *)
(* invariants; the last needs that nobody clears the fifo and is proved on *)
(* top of the others.  From the ring's follows that the device implements  *)
(* BoundedFifo.                                                            *)
(***************************************************************************)
EXTENDS MyFifo, SequenceTheorems, TLAPS

(* What the fields of a call hold.                                         *)
LEMMA CallFields ==
  ASSUME NEW c \in Calls
  PROVE  /\ c.kind \in Kinds /\ c.n \in Nat /\ c.nb \in BOOLEAN
         /\ c.kind = "write" => c.data \in [1 .. c.n -> Byte]
<1>1. ASSUME NEW d \in Strings
      PROVE  Len(d) \in Nat /\ d \in [1 .. Len(d) -> Byte]
  <2>1. PICK n \in 0 .. MaxReq : d \in [1 .. n -> Byte]
    BY <1>1 DEF Strings
  <2>2. n \in Nat /\ d \in Seq(Byte) /\ Len(d) = n
    BY <2>1, MyFifoAssumption
  <2> QED BY <2>1, <2>2
<1>2. CASE c \in ReadCalls
  BY <1>2, MyFifoAssumption DEF ReadCalls, Call, Kinds
<1>3. CASE c \in WriteCalls
  BY <1>3, <1>1 DEF WriteCalls, Call, Kinds
<1>4. CASE c \in OtherCalls
  <2>1. PICK k \in {"clear", "pollin", "pollout"} : c = Call(k, 0, << >>, FALSE)
    BY <1>4 DEF OtherCalls
  <2>2. c.n \in Nat /\ c.nb \in BOOLEAN
    BY <2>1 DEF Call
  <2>3. c.kind \in {"clear", "pollin", "pollout"}
    BY <2>1 DEF Call
  <2> QED BY <2>2, <2>3 DEF Kinds
<1> QED BY <1>2, <1>3, <1>4 DEF Calls

(* A chunk never reaches past the end of the buffer, past the other        *)
(* pointer, or past what is held (read) or free (write).                   *)
LEMMA ReadChunk ==
  ASSUME TypeOK, RingConsistent, size > 0, NEW n \in Nat
  PROVE  /\ ReadCount(n) \in 0 .. n /\ ReadCount(n) <= size
         /\ rp + ReadCount(n) <= Size
         /\ Advance(rp, ReadCount(n)) \in Cells
         /\ wp > rp => rp + ReadCount(n) <= wp
BY MyFifoAssumption DEF TypeOK, RingConsistent, ReadCount, Lesser, Advance, Cells

(* myfifo_write: a chunk ends at the end of the buffer or at rp, and fits  *)
(* into what is free.                                                      *)
LEMMA WriteChunk ==
  ASSUME TypeOK, RingConsistent, size < Size, NEW n \in Nat
  PROVE  /\ WriteCount(n) \in 0 .. n /\ size + WriteCount(n) <= Size
         /\ wp + WriteCount(n) <= Size
         /\ Advance(wp, WriteCount(n)) \in Cells
         /\ wp < rp => wp + WriteCount(n) <= rp
BY MyFifoAssumption DEF TypeOK, RingConsistent, WriteCount, Lesser, Advance, Cells

BaseInv == TypeOK /\ SemCountsHolder /\ RingConsistent

(* Init: an empty fifo, and nobody in a call.                              *)
LEMMA BaseInit == Init => BaseInv
<1> SUFFICES ASSUME Init PROVE BaseInv
  OBVIOUS
<1>1. TypeOK
  <2>1. NoCall \in Calls
    BY DEF NoCall, Calls, OtherCalls
  <2>2. << >> \in Seq(Byte)
    OBVIOUS
  <2> QED BY <2>1, <2>2, MyFifoAssumption DEF Init, TypeOK, Cells, Labels
<1>2. SemCountsHolder
  BY DEF Init, SemCountsHolder, Holders
<1>3. RingConsistent
  BY MyFifoAssumption DEF Init, RingConsistent
<1> QED BY <1>1, <1>2, <1>3 DEF BaseInv

(***************************************************************************)
(* The invariant falls apart into what the critical section protects, the  *)
(* semaphore itself and the rest.                                          *)
(***************************************************************************)
RingInv ==
  /\ RingConsistent
  /\ size \in 0 .. Size /\ rp \in Cells /\ wp \in Cells
  /\ buf \in [Cells -> Byte]

LockInv ==
  /\ SemCountsHolder
  /\ sem \in 0 .. 1 /\ pc \in [Procs -> Labels]

RestTyped ==
  /\ inq \subseteq Procs /\ outq \subseteq Procs
  /\ req \in [Procs -> Calls] /\ got \in [Procs -> Seq(Byte)]

(* The invariant by what its parts are about: the ring, the semaphore, and *)
(* where the processes are.                                                *)
LEMMA BaseParts == BaseInv <=> RingInv /\ LockInv /\ RestTyped
BY DEF BaseInv, RingInv, LockInv, RestTyped, TypeOK

(* The same of the next state.                                             *)
LEMMA BasePartsNext == BaseInv' <=> RingInv' /\ LockInv' /\ RestTyped'
BY DEF BaseInv, RingInv, LockInv, RestTyped, TypeOK

(* A step that leaves the device alone leaves the ring consistent.         *)
LEMMA RingKept == ASSUME RingInv, UNCHANGED dev PROVE RingInv'
BY DEF RingInv, RingConsistent, dev

(* The semaphore is released exactly by the process that holds it.         *)
LEMMA Released ==
  ASSUME LockInv, NEW p \in Procs, pc[p] = "locked", Up,
         NEW l \in Labels \ {"locked"}, Goto(p, l)
  PROVE  LockInv'
<1>1. sem = 0 /\ Holders = {p}
  BY DEF LockInv, SemCountsHolder, Holders
<1>2. sem' = 1 /\ pc' \in [Procs -> Labels]
  BY <1>1 DEF Up, Goto, LockInv
<1>3. Holders' = {}
  BY <1>1 DEF Holders, Goto, LockInv
<1> QED BY <1>2, <1>3 DEF SemCountsHolder, LockInv

(* A step outside the critical section leaves the semaphore alone.         *)
LEMMA Untouched ==
  ASSUME LockInv, NEW p \in Procs, pc[p] # "locked", sem' = sem,
         NEW l \in Labels \ {"locked"}, Goto(p, l)
  PROVE  LockInv'
<1>1. pc' \in [Procs -> Labels]
  BY DEF Goto, LockInv
<1>2. Holders' = Holders
  BY DEF Holders, Goto, LockInv
<1> QED BY <1>1, <1>2 DEF SemCountsHolder, LockInv

(* What a call that returns leaves behind.                                 *)
LEMMA Returns ==
  ASSUME RestTyped, NEW p \in Procs, Return(p)
  PROVE  req' \in [Procs -> Calls] /\ Goto(p, "idle")
BY DEF Return, RestTyped, NoCall, Calls, OtherCalls

(* myfifo_read: the queue loses its head, of the length that was read.     *)
LEMMA ReadKeepsRing ==
  ASSUME BaseInv, NEW p \in Procs, ReadBody(p)
  PROVE  RingInv' /\ got' \in [Procs -> Seq(Byte)]
<1> DEFINE n == ReadCount(req[p].n)
<1>1. req[p] \in Calls /\ req[p].n \in Nat
  BY CallFields DEF BaseInv, TypeOK
<1>2. size > 0 /\ size \in Nat /\ rp \in Nat
  BY MyFifoAssumption DEF ReadBody, NothingFor, BaseInv, TypeOK, Cells
<1>3. /\ n \in Nat /\ n <= size /\ rp + n <= Size
      /\ Advance(rp, n) \in Cells
      /\ wp > rp => rp + n <= wp
  BY <1>1, <1>2, ReadChunk DEF BaseInv
<1>4. rp' = Advance(rp, n) /\ size' = size - n /\ wp' = wp /\ buf' = buf
  BY DEF ReadBody
<1> HIDE DEF n
<1>5. RingConsistent' /\ size' \in 0 .. Size
  BY <1>2, <1>3, <1>4, MyFifoAssumption DEF BaseInv, TypeOK, Cells, RingConsistent, Advance
<1>6. [i \in 1 .. n |-> buf[rp + i - 1]] \in Seq(Byte)
  <2>1. \A i \in 1 .. n : rp + i - 1 \in Cells
    BY <1>2, <1>3, MyFifoAssumption DEF Cells
  <2>2. \A i \in 1 .. n : buf[rp + i - 1] \in Byte
    BY <2>1 DEF BaseInv, TypeOK
  <2> QED BY <2>2, <1>3
<1>7. got' = [got EXCEPT ![p] = [i \in 1 .. n |-> buf[rp + i - 1]]]
  BY DEF ReadBody, n
<1>8. got' \in [Procs -> Seq(Byte)]
  BY <1>6, <1>7 DEF BaseInv, TypeOK
<1> QED BY <1>3, <1>4, <1>5, <1>8 DEF RingInv, BaseInv, TypeOK

(* myfifo_write: the bytes are appended at wp.                             *)
LEMMA WriteKeepsRing ==
  ASSUME BaseInv, NEW p \in Procs, Store(p)
  PROVE  RingInv'
<1> DEFINE n == WriteCount(req[p].n)
           d == req[p].data
<1>1. req[p] \in Calls /\ req[p].n \in Nat /\ d \in [1 .. req[p].n -> Byte]
  BY CallFields DEF BaseInv, TypeOK, Store, Writes
<1>2. size < Size /\ size \in Nat /\ wp \in Nat /\ rp \in Nat
  <2>1. size # Size
    BY DEF Store, NothingFor, Reads, Writes
  <2> QED BY <2>1, MyFifoAssumption DEF BaseInv, TypeOK, Cells
<1>3. /\ n \in 0 .. req[p].n /\ size + n <= Size /\ wp + n <= Size
      /\ Advance(wp, n) \in Cells
      /\ wp < rp => wp + n <= rp
  BY <1>1, <1>2, WriteChunk DEF BaseInv
<1>4. wp' = Advance(wp, n) /\ size' = size + n /\ rp' = rp
  BY DEF Store
<1>5. buf' = [i \in Cells |-> IF wp <= i /\ i < wp + n THEN d[i - wp + 1] ELSE buf[i]]
  BY DEF Store
<1> HIDE DEF n, d
<1>6. RingConsistent' /\ size' \in 0 .. Size
  BY <1>1, <1>2, <1>3, <1>4, MyFifoAssumption DEF BaseInv, TypeOK, Cells, RingConsistent, Advance
<1>7. \A i \in Cells : wp <= i /\ i < wp + n => d[i - wp + 1] \in Byte
  <2> TAKE i \in Cells
  <2> HAVE wp <= i /\ i < wp + n
  <2>1. i - wp + 1 \in 1 .. req[p].n
    BY <1>1, <1>2, <1>3, MyFifoAssumption DEF Cells
  <2> QED BY <2>1, <1>1
<1>8. buf' \in [Cells -> Byte]
  BY <1>5, <1>7 DEF BaseInv, TypeOK
<1> QED BY <1>3, <1>4, <1>6, <1>8 DEF RingInv, BaseInv, TypeOK

(* A copy_from_user that fails wrote only to free cells.                   *)
LEMMA FaultKeepsRing ==
  ASSUME BaseInv, NEW p \in Procs, WriteFault(p)
  PROVE  RingInv'
<1> DEFINE n == WriteCount(req[p].n)
           d == req[p].data
<1>1. req[p] \in Calls /\ req[p].n \in Nat /\ d \in [1 .. req[p].n -> Byte]
  BY CallFields DEF BaseInv, TypeOK, WriteFault, Writes
<1>2. size < Size /\ wp \in Nat
  <2>1. size # Size
    BY DEF WriteFault, NothingFor, Reads, Writes
  <2> QED BY <2>1, MyFifoAssumption DEF BaseInv, TypeOK, Cells
<1>3. n \in 0 .. req[p].n
  BY <1>1, <1>2, WriteChunk DEF BaseInv
<1>4. PICK b \in Byte, k \in 0 .. n - 1 :
        buf' = [i \in Cells |-> IF wp <= i /\ i < wp + k THEN d[i - wp + 1]
                                ELSE IF wp + k <= i /\ i < wp + n THEN b ELSE buf[i]]
  BY DEF WriteFault
<1> HIDE DEF n, d
<1>5. \A i \in Cells : wp <= i /\ i < wp + k => d[i - wp + 1] \in Byte
  <2> TAKE i \in Cells
  <2> HAVE wp <= i /\ i < wp + k
  <2>1. i - wp + 1 \in 1 .. req[p].n
    BY <1>1, <1>2, <1>3, MyFifoAssumption DEF Cells
  <2> QED BY <2>1, <1>1
<1>6. buf' \in [Cells -> Byte]
  BY <1>4, <1>5 DEF BaseInv, TypeOK
<1> QED BY <1>6 DEF RingInv, RingConsistent, BaseInv, TypeOK, WriteFault

(* Every step keeps the invariant.                                         *)
LEMMA BaseStep == BaseInv /\ [Next]_vars => BaseInv'
<1> SUFFICES ASSUME BaseInv, [Next]_vars PROVE RingInv' /\ LockInv' /\ RestTyped'
  BY BasePartsNext
<1>0. RingInv /\ LockInv /\ RestTyped
  BY BaseParts
<1>1. CASE UNCHANGED vars
  BY <1>0, <1>1 DEF vars, dev, RingInv, RingConsistent, LockInv, SemCountsHolder, Holders, RestTyped
<1>2. ASSUME NEW p \in Procs, Start(p) PROVE RingInv' /\ LockInv' /\ RestTyped'
  <2>1. LockInv'
    BY <1>0, <1>2, Untouched DEF Start, Labels
  <2> QED BY <1>0, <1>2, <2>1, RingKept DEF Start, RestTyped
<1>3. ASSUME NEW p \in Procs, Down(p) PROVE RingInv' /\ LockInv' /\ RestTyped'
  <2>1. sem = 1 /\ sem' = 0 /\ pc' \in [Procs -> Labels]
    BY <1>0, <1>3 DEF Down, LockInv, Goto, Labels
  <2>2. Holders' = {p}
    BY <1>0, <1>3, <2>1 DEF Down, Goto, Holders, SemCountsHolder, LockInv
  <2>3. LockInv'
    BY <2>1, <2>2 DEF LockInv, SemCountsHolder
  <2> QED BY <1>0, <1>3, <2>3, RingKept DEF Down, RestTyped
<1>4. ASSUME NEW p \in Procs, Interrupted(p) PROVE RingInv' /\ LockInv' /\ RestTyped'
  <2>1. /\ Return(p) \/ (Goto(p, "down") /\ req' = req)
        /\ pc[p] # "locked" /\ sem' = sem /\ got' = got /\ UNCHANGED dev
    BY <1>4 DEF Interrupted, DownInterrupted, SleepInterrupted
  <2>2. LockInv' /\ req' \in [Procs -> Calls]
    BY <1>0, <2>1, Returns, Untouched DEF Labels, RestTyped
  <2>3. inq' \subseteq Procs /\ outq' \subseteq Procs
    BY <1>0, <1>4 DEF Interrupted, DownInterrupted, SleepInterrupted, FinishWait, RestTyped
  <2> QED BY <1>0, <2>1, <2>2, <2>3, RingKept DEF RestTyped
<1>5. ASSUME NEW p \in Procs, Blocked(p) PROVE RingInv' /\ LockInv' /\ RestTyped'
  <2>1. pc[p] = "locked" /\ Up /\ UNCHANGED <<dev, inq, outq, got>>
        /\ (Return(p) \/ (Goto(p, "check") /\ req' = req))
    BY <1>5 DEF Blocked
  <2>2. LockInv' /\ req' \in [Procs -> Calls]
    BY <1>0, <2>1, Returns, Released DEF Labels, RestTyped
  <2> QED BY <1>0, <2>1, <2>2, RingKept DEF RestTyped
<1>6. ASSUME NEW p \in Procs, ReadBody(p) PROVE RingInv' /\ LockInv' /\ RestTyped'
  <2>1. LockInv'
    BY <1>0, <1>6, Released DEF ReadBody, Labels
  <2> QED BY <1>0, <1>6, <2>1, ReadKeepsRing DEF ReadBody, RestTyped
<1>7. ASSUME NEW p \in Procs, WriteBody(p) PROVE RingInv' /\ LockInv' /\ RestTyped'
  <2>1. LockInv'
    BY <1>0, <1>7, Released DEF WriteBody, Store, Labels
  <2> QED BY <1>0, <1>7, <2>1, WriteKeepsRing DEF WriteBody, Store, RestTyped
<1>8. ASSUME NEW p \in Procs, Clear(p) PROVE RingInv' /\ LockInv' /\ RestTyped'
  <2>1. pc[p] = "locked" /\ Up /\ Return(p) /\ UNCHANGED <<buf, inq, outq, got>>
    BY <1>8 DEF Clear
  <2>2. LockInv'
    BY <1>0, <2>1, Returns, Released DEF Labels
  <2>3. RingInv'
    BY <1>0, <1>8, MyFifoAssumption DEF Clear, RingInv, RingConsistent, Cells
  <2> QED BY <1>0, <2>1, <2>2, <2>3, Returns DEF RestTyped
<1>9. ASSUME NEW p \in Procs, PollBody(p) PROVE RingInv' /\ LockInv' /\ RestTyped'
  <2>1. /\ pc[p] = "locked" /\ Up /\ UNCHANGED <<dev, got>>
        /\ Return(p) \/ (Goto(p, "sleep") /\ req' = req)
        /\ inq' \subseteq inq \cup {p} /\ outq' \subseteq outq \cup {p}
    BY <1>9 DEF PollBody
  <2>2. LockInv' /\ req' \in [Procs -> Calls]
    BY <1>0, <2>1, Returns, Released DEF Labels, RestTyped
  <2> QED BY <1>0, <2>1, <2>2, RingKept DEF RestTyped
<1>10. ASSUME NEW p \in Procs, WaitCheck(p) \/ PrepareToWait(p) \/ WaitRecheck(p) \/ Woken(p)
       PROVE  RingInv' /\ LockInv' /\ RestTyped'
  <2>1. /\ pc[p] \in {"check", "prepare", "recheck", "sleep"}
        /\ \E l \in {"down", "prepare", "recheck", "sleep"} : Goto(p, l)
        /\ UNCHANGED <<sem, dev, req, got>>
        /\ inq' \subseteq inq \cup {p} /\ outq' \subseteq outq \cup {p}
    BY <1>10 DEF WaitCheck, PrepareToWait, WaitRecheck, Woken, FinishWait
  <2>2. LockInv'
    BY <1>0, <2>1, Untouched DEF Labels
  <2> QED BY <1>0, <2>1, <2>2, RingKept DEF RestTyped
<1>11. ASSUME NEW p \in Procs, WakeUp(p) PROVE RingInv' /\ LockInv' /\ RestTyped'
  <2>1. /\ pc[p] = "wake" /\ Return(p) /\ UNCHANGED <<sem, dev>>
        /\ inq' \subseteq inq /\ outq' \subseteq outq
        /\ got' = [got EXCEPT ![p] = << >>]
    BY <1>11 DEF WakeUp
  <2>2. LockInv'
    BY <1>0, <2>1, Returns, Untouched DEF Labels
  <2>3. got' \in [Procs -> Seq(Byte)]
    BY <1>0, <2>1 DEF RestTyped
  <2> QED BY <1>0, <2>1, <2>2, <2>3, Returns, RingKept DEF RestTyped
<1>12. ASSUME NEW p \in Procs, ReadFault(p) PROVE RingInv' /\ LockInv' /\ RestTyped'
  <2>1. pc[p] = "locked" /\ Up /\ Return(p) /\ UNCHANGED <<dev, inq, outq, got>>
    BY <1>12 DEF ReadFault
  <2>2. LockInv'
    BY <1>0, <2>1, Returns, Released DEF Labels
  <2> QED BY <1>0, <2>1, <2>2, Returns, RingKept DEF RestTyped
<1>13. ASSUME NEW p \in Procs, WriteFault(p) PROVE RingInv' /\ LockInv' /\ RestTyped'
  <2>1. pc[p] = "locked" /\ Up /\ Return(p) /\ UNCHANGED <<inq, outq, got>>
    BY <1>13 DEF WriteFault
  <2>2. LockInv'
    BY <1>0, <2>1, Returns, Released DEF Labels
  <2> QED BY <1>0, <1>13, <2>1, <2>2, FaultKeepsRing, Returns DEF RestTyped
<1> QED
  BY <1>1, <1>2, <1>3, <1>4, <1>5, <1>6, <1>7, <1>8, <1>9, <1>10, <1>11, <1>12, <1>13
     DEF Next, Step, Fault

(* The types hold for every instance: in particular size stays within      *)
(* MYFIFO_SIZE and both pointers inside the buffer.                        *)
THEOREM TypeCorrect == Spec => []TypeOK
<1>1. Spec => []BaseInv
  BY BaseInit, BaseStep, PTL DEF Spec
<1> QED BY <1>1, PTL DEF BaseInv

(* The semaphore is taken and released correctly on every path of read,    *)
(* write, poll and ioctl.                                                  *)
THEOREM SemaphoreCorrect == Spec => []SemCountsHolder
<1>1. Spec => []BaseInv
  BY BaseInit, BaseStep, PTL DEF Spec
<1> QED BY <1>1, PTL DEF BaseInv

(* size and the two pointers always agree.                                 *)
THEOREM RingCorrect == Spec => []RingConsistent
<1>1. Spec => []BaseInv
  BY BaseInit, BaseStep, PTL DEF Spec
<1> QED BY <1>1, PTL DEF BaseInv

(***************************************************************************)
(* Wake-ups.                                                               *)
(***************************************************************************)

(* A process about to wake sleepers stays so until it does.                *)
LEMMA WakerStays ==
  ASSUME BaseInv, [Next]_vars, NEW w \in Procs, pc[w] = "wake", ~WakeUp(w)
  PROVE  pc'[w] = "wake" /\ req'[w] = req[w]
BY DEF Next, vars, Start, Down, Step, Blocked, ReadBody, WriteBody, Store, Clear, PollBody,
       WaitCheck, PrepareToWait, WaitRecheck, Woken, WakeUp, Fault, ReadFault, WriteFault,
       Interrupted, DownInterrupted, SleepInterrupted, Goto, Return, BaseInv, TypeOK

(* A reader found asleep on inq was so before the step, or has just seen   *)
(* that there is nothing to read.                                          *)
LEMMA FallsAsleep ==
  ASSUME BaseInv, [Next]_vars, NEW p \in Procs, pc'[p] = "sleep", req'[p].kind \in {"read", "write"}
  PROVE  /\ req'[p] = req[p]
         /\ \/ pc[p] = "sleep" /\ (p \in inq' => p \in inq) /\ (p \in outq' => p \in outq)
            \/ WaitRecheck(p) /\ ~Condition(p)
<1>1. CASE UNCHANGED vars
  BY <1>1 DEF vars
<1>2. ASSUME NEW o \in Procs, o # p,
             Start(o) \/ Down(o) \/ Step(o) \/ Fault(o) \/ Interrupted(o)
      PROVE  /\ req'[p] = req[p] /\ pc'[p] = pc[p]
             /\ (p \in inq' => p \in inq) /\ (p \in outq' => p \in outq)
  BY <1>2 DEF Start, Down, Step, Blocked, ReadBody, WriteBody, Store, Clear, PollBody,
       WaitCheck, PrepareToWait, WaitRecheck, Woken, WakeUp, Fault, ReadFault, WriteFault,
       Interrupted, DownInterrupted, SleepInterrupted, FinishWait, Goto, Return, BaseInv, TypeOK
<1>3. ASSUME Start(p) \/ Down(p) \/ Step(p) \/ Fault(p) \/ Interrupted(p)
      PROVE  req'[p] = req[p] /\ WaitRecheck(p) /\ ~Condition(p)
  <2>1. pc'[p] = "sleep"
    OBVIOUS
  <2>2. ~Start(p) /\ ~Down(p) /\ ~Fault(p) /\ ~Interrupted(p)
    BY <2>1 DEF Start, Down, Fault, ReadFault, WriteFault, Interrupted, DownInterrupted,
                SleepInterrupted, Goto, Return, BaseInv, TypeOK
  <2>3. ~Blocked(p) /\ ~ReadBody(p) /\ ~WriteBody(p) /\ ~Clear(p)
    BY <2>1 DEF Blocked, ReadBody, WriteBody, Store, Clear, Goto, Return, BaseInv, TypeOK
  <2>4. ~WaitCheck(p) /\ ~PrepareToWait(p) /\ ~Woken(p) /\ ~WakeUp(p)
    BY <2>1 DEF WaitCheck, PrepareToWait, Woken, WakeUp, Goto, Return, BaseInv, TypeOK
  <2>5. ~PollBody(p)
    BY <2>1 DEF PollBody, Polls, Goto, Return, BaseInv, TypeOK
  <2>6. WaitRecheck(p)
    BY <1>3, <2>2, <2>3, <2>4, <2>5 DEF Step
  <2> QED BY <2>1, <2>6 DEF WaitRecheck, Goto, BaseInv, TypeOK
<1> QED BY <1>1, <1>2, <1>3 DEF Next

(* Only a write adds to what is held; only a read or MYFIFO_CLEAR takes    *)
(* from it.                                                                *)
LEMMA SizeGrows ==
  ASSUME BaseInv, [Next]_vars, size' > size
  PROVE  \E o \in Procs : WriteBody(o)
<1>1. size \in Nat
  BY MyFifoAssumption DEF BaseInv, TypeOK
<1>2. size' # size
  BY <1>1
<1>3. ASSUME NEW o \in Procs, ReadBody(o) PROVE FALSE
  <2>1. req[o].n \in Nat
    BY CallFields DEF BaseInv, TypeOK
  <2>2. size > 0
    BY <1>1, <1>3 DEF ReadBody, NothingFor
  <2>3. ReadCount(req[o].n) \in Nat
    BY <2>1, <2>2, ReadChunk DEF BaseInv
  <2> QED BY <1>1, <1>3, <2>3 DEF ReadBody
<1>4. ASSUME NEW o \in Procs, Clear(o) PROVE FALSE
  BY <1>1, <1>4 DEF Clear
<1> QED
  BY <1>2, <1>3, <1>4 DEF Next, vars, dev, Start, Down, Step, Blocked, PollBody, WaitCheck,
     PrepareToWait, WaitRecheck, Woken, WakeUp, Fault, ReadFault, WriteFault,
     Interrupted, DownInterrupted, SleepInterrupted

(* Only a read or MYFIFO_CLEAR makes the fifo emptier.                     *)
LEMMA SizeShrinks ==
  ASSUME BaseInv, [Next]_vars, size' < size
  PROVE  \E o \in Procs : ReadBody(o) \/ Clear(o)
<1>1. size \in Nat
  BY MyFifoAssumption DEF BaseInv, TypeOK
<1>2. size' # size
  BY <1>1
<1>3. ASSUME NEW o \in Procs, WriteBody(o) PROVE FALSE
  <2>1. req[o].n \in Nat
    BY CallFields DEF BaseInv, TypeOK
  <2>2. size < Size
    BY <1>1, <1>3, MyFifoAssumption DEF WriteBody, Store, NothingFor, Reads, Writes, BaseInv, TypeOK
  <2>3. WriteCount(req[o].n) \in Nat
    BY <2>1, <2>2, WriteChunk DEF BaseInv
  <2> QED BY <1>1, <1>3, <2>3 DEF WriteBody, Store
<1> QED
  BY <1>2, <1>3 DEF Next, vars, dev, Start, Down, Step, Blocked, PollBody, WaitCheck,
     PrepareToWait, WaitRecheck, Woken, WakeUp, Fault, ReadFault, WriteFault,
     Interrupted, DownInterrupted, SleepInterrupted

(* No step strands a reader: what makes size positive is a write, whose    *)
(* process wakes the readers next.                                         *)
LEMMA ReaderStep == BaseInv /\ ReaderNotStranded /\ [Next]_vars => ReaderNotStranded'
<1> SUFFICES ASSUME BaseInv, ReaderNotStranded, [Next]_vars,
                    NEW p \in Procs, pc'[p] = "sleep", req'[p].kind = "read", p \in inq', size' > 0
             PROVE  \E w \in Procs : pc'[w] = "wake" /\ req'[w].kind = "write"
  BY DEF ReaderNotStranded, Reads, Writes
<1>1. CASE WaitRecheck(p) /\ ~Condition(p)
  <2>1. req'[p] = req[p] /\ size' = size
    BY <1>1 DEF WaitRecheck, dev
  <2> QED BY <1>1, <2>1 DEF Condition, Reads
<1>2. CASE pc[p] = "sleep" /\ p \in inq /\ req[p].kind = "read"
  <2>1. CASE size > 0
    <3>1. PICK w \in Procs : pc[w] = "wake" /\ Writes(w)
      BY <1>2, <2>1 DEF ReaderNotStranded, Reads
    <3>2. ~WakeUp(w)
      BY <3>1 DEF WakeUp, Reads, Writes
    <3> QED BY <3>1, <3>2, WakerStays DEF Writes
  <2>2. CASE ~(size > 0)
    <3>1. size' > size
      BY <2>2, MyFifoAssumption DEF BaseInv, TypeOK
    <3>2. PICK o \in Procs : WriteBody(o)
      BY <3>1, SizeGrows
    <3>3. pc'[o] = "wake" /\ req'[o].kind = "write"
      BY <3>2 DEF WriteBody, Store, Goto, Writes, BaseInv, TypeOK
    <3> QED BY <3>3
  <2> QED BY <2>1, <2>2
<1> QED BY <1>1, <1>2, FallsAsleep

(* No reader misses its wake-up, whoever else reads, writes, polls, clears *)
(* or is interrupted.                                                      *)
THEOREM NoReaderStranded == Spec => []ReaderNotStranded
<1>1. Init => ReaderNotStranded
  BY DEF Init, ReaderNotStranded
<1>2. Spec => []BaseInv
  BY BaseInit, BaseStep, PTL DEF Spec
<1> QED BY <1>1, <1>2, ReaderStep, PTL DEF Spec

(***************************************************************************)
(* The writers' side needs that nobody issues MYFIFO_CLEAR, which makes    *)
(* room without waking anybody.                                            *)
(***************************************************************************)
NobodyClears == \A p \in Procs : "clear" \notin Role[p]

CallsInRole == \A p \in Procs : pc[p] # "idle" => req[p].kind \in Role[p]

(* Processes make only the calls of their role.                            *)
LEMMA RoleStep == BaseInv /\ CallsInRole /\ [Next]_vars => CallsInRole'
<1> SUFFICES ASSUME BaseInv, CallsInRole, [Next]_vars, NEW p \in Procs, pc'[p] # "idle"
             PROVE  req'[p].kind \in Role[p]
  BY DEF CallsInRole
<1>1. CASE UNCHANGED vars
  BY <1>1 DEF vars, CallsInRole
<1>2. ASSUME NEW o \in Procs, Start(o) PROVE req'[p].kind \in Role[p]
  BY <1>2 DEF Start, CallsInRole, Goto, BaseInv, TypeOK
<1>3. ASSUME NEW o \in Procs, Down(o) \/ Step(o) \/ Fault(o) \/ Interrupted(o)
      PROVE  req'[p].kind \in Role[p]
  <2>1. pc[o] # "idle"
    BY <1>3 DEF Down, Step, Blocked, ReadBody, WriteBody, Store, Clear, PollBody, WaitCheck,
       PrepareToWait, WaitRecheck, Woken, WakeUp, Fault, ReadFault, WriteFault,
       Interrupted, DownInterrupted, SleepInterrupted
  <2>2. Return(o) \/ (req' = req /\ \E l \in Labels : Goto(o, l))
    BY <1>3 DEF Down, Step, Blocked, ReadBody, WriteBody, Store, Clear, PollBody, WaitCheck,
       PrepareToWait, WaitRecheck, Woken, WakeUp, Fault, ReadFault, WriteFault,
       Interrupted, DownInterrupted, SleepInterrupted, Labels
  <2>3. pc[p] # "idle" /\ req'[p] = req[p]
    BY <2>1, <2>2 DEF Return, Goto, BaseInv, TypeOK
  <2> QED BY <2>3 DEF CallsInRole
<1> QED BY <1>1, <1>2, <1>3 DEF Next

(* Nor a writer, if nobody clears: what makes room is then a read, whose   *)
(* process wakes the writers next.                                         *)
LEMMA WriterStep ==
  ASSUME NobodyClears
  PROVE  BaseInv /\ CallsInRole /\ WriterNotStranded /\ [Next]_vars => WriterNotStranded'
<1> SUFFICES ASSUME BaseInv, CallsInRole, WriterNotStranded, [Next]_vars, NEW p \in Procs,
                    pc'[p] = "sleep", req'[p].kind = "write", p \in outq', size' < Size
             PROVE  \E w \in Procs : pc'[w] = "wake" /\ req'[w].kind = "read"
  BY DEF WriterNotStranded, Reads, Writes
<1>1. CASE WaitRecheck(p) /\ ~Condition(p)
  <2>1. req'[p] = req[p] /\ size' = size
    BY <1>1 DEF WaitRecheck, dev
  <2> QED BY <1>1, <2>1 DEF Condition, Reads
<1>2. CASE pc[p] = "sleep" /\ p \in outq /\ req[p].kind = "write"
  <2>1. CASE size < Size
    <3>1. PICK w \in Procs : pc[w] = "wake" /\ Reads(w)
      BY <1>2, <2>1 DEF WriterNotStranded, Writes
    <3>2. ~WakeUp(w)
      BY <3>1 DEF WakeUp, Reads
    <3> QED BY <3>1, <3>2, WakerStays DEF Reads
  <2>2. CASE ~(size < Size)
    <3>1. size' < size
      BY <2>2, BaseStep, MyFifoAssumption DEF BaseInv, TypeOK
    <3>2. PICK o \in Procs : ReadBody(o) \/ Clear(o)
      BY <3>1, SizeShrinks
    <3>3. ~Clear(o)
      BY DEF NobodyClears, CallsInRole, Clear
    <3>4. pc'[o] = "wake" /\ req'[o].kind = "read"
      BY <3>2, <3>3 DEF ReadBody, Goto, Reads, BaseInv, TypeOK
    <3> QED BY <3>4
  <2> QED BY <2>1, <2>2
<1> QED BY <1>1, <1>2, FallsAsleep

(* No writer misses its wake-up where nobody clears the fifo.              *)
THEOREM NoWriterStranded ==
  ASSUME NobodyClears
  PROVE  Spec => []WriterNotStranded
<1>1. Init => WriterNotStranded /\ CallsInRole
  BY DEF Init, WriterNotStranded, CallsInRole
<1>2. Spec => []BaseInv
  BY BaseInit, BaseStep, PTL DEF Spec
<1>3. BaseInv /\ CallsInRole /\ WriterNotStranded /\ [Next]_vars => WriterNotStranded'
  BY WriterStep
<1> QED BY <1>1, <1>2, <1>3, RoleStep, PTL DEF Spec

(***************************************************************************)
(* Pollers.  A poller does not go through wait_event; it is on both queues *)
(* or, once either has been woken, on none.                                *)
(***************************************************************************)
OnBothQueues ==
  \A p \in Procs : Polls(p) =>
    /\ pc[p] \notin {"check", "prepare", "recheck"}
    /\ pc[p] = "sleep" => (p \in inq <=> p \in outq)

(* What the steps of others do to a poller: nothing, or they take it off   *)
(* both queues.                                                            *)
LEMMA OthersAndPoller ==
  ASSUME BaseInv, NEW p \in Procs, NEW o \in Procs, o # p, OnBothQueues,
         Start(o) \/ Down(o) \/ Step(o) \/ Fault(o) \/ Interrupted(o)
  PROVE  /\ req'[p] = req[p] /\ pc'[p] = pc[p]
         /\ p \in inq' => p \in inq
         /\ Polls(p) /\ pc[p] = "sleep" => (p \in inq' <=> p \in outq')
         /\ Polls(p) /\ pc[p] = "sleep" /\ p \in inq' => ~WakeUp(o)
<1>1. CASE WakeUp(o)
  <2>1. req'[p] = req[p] /\ pc'[p] = pc[p]
    BY <1>1 DEF WakeUp, Return, Goto, BaseInv, TypeOK
  <2>2. \/ inq' = inq \ inq /\ outq' = outq \ inq
        \/ inq' = inq \ outq /\ outq' = outq \ outq
    BY <1>1 DEF WakeUp
  <2>3. Polls(p) /\ pc[p] = "sleep" => (p \in inq <=> p \in outq)
    BY DEF OnBothQueues
  <2> QED BY <2>1, <2>2, <2>3
<1>2. CASE ~WakeUp(o)
  <2>1. /\ req'[p] = req[p] /\ pc'[p] = pc[p]
        /\ (p \in inq' <=> p \in inq) /\ (p \in outq' <=> p \in outq)
    BY <1>2 DEF Start, Down, Step, Blocked, ReadBody, WriteBody, Store, Clear, PollBody,
       WaitCheck, PrepareToWait, WaitRecheck, Woken, Fault, ReadFault, WriteFault,
       Interrupted, DownInterrupted, SleepInterrupted, FinishWait, Goto, Return, BaseInv, TypeOK
  <2> QED BY <1>2, <2>1 DEF OnBothQueues
<1> QED BY <1>1, <1>2

(* A poller falls asleep in one way: it has found nothing to do and has    *)
(* put itself on both queues.                                              *)
LEMMA PollerStep ==
  ASSUME BaseInv, OnBothQueues, NEW p \in Procs, Polls(p)',
         Start(p) \/ Down(p) \/ Step(p) \/ Fault(p) \/ Interrupted(p)
  PROVE  /\ pc'[p] \notin {"check", "prepare", "recheck"}
         /\ pc'[p] = "sleep" => /\ PollBody(p) /\ ~Ready(p) /\ req' = req
                                /\ p \in inq' /\ p \in outq'
<1>1. CASE Start(p)
  BY <1>1 DEF Start, Goto, BaseInv, TypeOK
<1>2. CASE Return(p)
  BY <1>2 DEF Return, Goto, BaseInv, TypeOK
<1>3. CASE ~Start(p) /\ ~Return(p)
  <2>1. req' = req
    BY <1>3 DEF Down, Step, Blocked, ReadBody, WriteBody, Clear, PollBody,
       WaitCheck, PrepareToWait, WaitRecheck, Woken, WakeUp, Fault, ReadFault, WriteFault,
       Interrupted, DownInterrupted, SleepInterrupted
  <2>2. Polls(p) /\ ~Reads(p) /\ ~Writes(p)
    BY <2>1 DEF Polls, Reads, Writes
  <2>3. pc[p] \notin {"check", "prepare", "recheck"}
    BY <2>2 DEF OnBothQueues
  <2>4. Down(p) \/ Woken(p) \/ PollBody(p)
    BY <1>3, <2>2, <2>3 DEF Step, Blocked, ReadBody, WriteBody, Store, Clear, Polls,
       WaitCheck, PrepareToWait, WaitRecheck, WakeUp, Fault, ReadFault, WriteFault,
       Interrupted, DownInterrupted, SleepInterrupted
  <2>5. CASE Down(p) \/ Woken(p)
    BY <2>2, <2>5 DEF Down, Woken, Goto, BaseInv, TypeOK
  <2>6. CASE PollBody(p)
    BY <1>3, <2>1, <2>6 DEF PollBody, Goto, BaseInv, TypeOK
  <2> QED BY <2>4, <2>5, <2>6
<1> QED BY <1>1, <1>2, <1>3

(* Every step leaves pollers on both queues or on none.                    *)
LEMMA BothQueuesStep == BaseInv /\ OnBothQueues /\ [Next]_vars => OnBothQueues'
<1> SUFFICES ASSUME BaseInv, OnBothQueues, [Next]_vars, NEW p \in Procs, Polls(p)'
             PROVE  /\ pc'[p] \notin {"check", "prepare", "recheck"}
                    /\ pc'[p] = "sleep" => (p \in inq' <=> p \in outq')
  BY DEF OnBothQueues
<1>1. CASE UNCHANGED vars
  BY <1>1 DEF vars, OnBothQueues, Polls
<1>2. ASSUME NEW o \in Procs, Start(o) \/ Down(o) \/ Step(o) \/ Fault(o) \/ Interrupted(o)
      PROVE  /\ pc'[p] \notin {"check", "prepare", "recheck"}
             /\ pc'[p] = "sleep" => (p \in inq' <=> p \in outq')
  <2>1. CASE o = p
    BY <1>2, <2>1, PollerStep
  <2>2. CASE o # p
    BY <1>2, <2>2, OthersAndPoller DEF OnBothQueues, Polls
  <2> QED BY <2>1, <2>2
<1> QED BY <1>1, <1>2 DEF Next

(* A poller that sleeps over an empty or a full fifo does so until what is *)
(* held changes, and whoever changes it wakes it, MYFIFO_CLEAR excepted,   *)
(* which leaves the fifo empty.                                            *)
LEMMA SleepersAtEnds ==
  BaseInv /\ OnBothQueues /\ PollSleepsOnlyAtEnds /\ [Next]_vars => PollSleepsOnlyAtEnds'
<1> SUFFICES ASSUME BaseInv, OnBothQueues, PollSleepsOnlyAtEnds, [Next]_vars,
                    NEW p \in Procs, pc'[p] = "sleep", req'[p].kind = "pollin", p \in inq'
             PROVE  size' \in {0, Size} \/ \E w \in Procs : pc'[w] = "wake"
  BY DEF PollSleepsOnlyAtEnds
<1> DEFINE Goal == size' \in {0, Size} \/ \E w \in Procs : pc'[w] = "wake"
<1>0. Polls(p)'
  BY DEF Polls
<1>1. CASE PollBody(p) /\ ~Ready(p) /\ req' = req
  <2>1. rp = wp
    BY <1>1 DEF Ready, Readable
  <2>2. size' = size
    BY <1>1 DEF PollBody, dev
  <2> QED BY <2>1, <2>2, MyFifoAssumption DEF BaseInv, RingConsistent, TypeOK, Cells
<1>2. ASSUME pc[p] = "sleep", req[p].kind = "pollin", p \in inq,
             \A o \in Procs : WakeUp(o) => o = p
      PROVE  Goal
  <2>1. CASE size \in {0, Size}
    <3>1. CASE size' > size
      <4>1. PICK o \in Procs : WriteBody(o)
        BY <3>1, SizeGrows
      <4> QED BY <4>1 DEF WriteBody, Store, Goto, BaseInv, TypeOK
    <3>2. CASE size' < size
      <4>1. PICK o \in Procs : ReadBody(o) \/ Clear(o)
        BY <3>2, SizeShrinks
      <4>2. ReadBody(o) => pc'[o] = "wake"
        BY DEF ReadBody, Goto, BaseInv, TypeOK
      <4>3. Clear(o) => size' = 0
        BY DEF Clear
      <4> QED BY <4>1, <4>2, <4>3
    <3>3. CASE ~(size' > size) /\ ~(size' < size)
      <4>1. size \in Int /\ size' \in Int
        BY BaseStep, MyFifoAssumption DEF BaseInv, TypeOK
      <4> QED BY <2>1, <3>3, <4>1
    <3> QED BY <3>1, <3>2, <3>3
  <2>2. CASE size \notin {0, Size}
    <3>1. PICK w \in Procs : pc[w] = "wake"
      BY <1>2, <2>2 DEF PollSleepsOnlyAtEnds
    <3>2. ~WakeUp(w)
      BY <1>2, <3>1
    <3> QED BY <3>1, <3>2, WakerStays
  <2> QED BY <2>1, <2>2
<1>3. CASE UNCHANGED vars
  <2>1. size' = size /\ pc' = pc /\ inq' = inq /\ req' = req
    BY <1>3 DEF vars, dev
  <2> QED BY <2>1 DEF PollSleepsOnlyAtEnds
<1>4. ASSUME NEW o \in Procs, Start(o) \/ Down(o) \/ Step(o) \/ Fault(o) \/ Interrupted(o)
      PROVE  Goal
  <2>1. CASE o = p
    BY <1>0, <1>1, <1>4, <2>1, PollerStep
  <2>2. CASE o # p
    <3>1. /\ pc[p] = "sleep" /\ req[p].kind = "pollin" /\ p \in inq /\ ~WakeUp(o)
      BY <1>4, <2>2, OthersAndPoller DEF Polls
    <3>2. \A q \in Procs : WakeUp(q) => q = o
      <4> SUFFICES ASSUME NEW q \in Procs, WakeUp(q), q # o PROVE FALSE
        OBVIOUS
      <4>1. pc[q] = "wake" /\ pc'[q] = "idle"
        BY DEF WakeUp, Return, Goto, BaseInv, TypeOK
      <4>2. pc'[q] = pc[q]
        BY <1>4, OthersAndPoller
      <4> QED BY <4>1, <4>2
    <3> QED BY <1>2, <3>1, <3>2
  <2> QED BY <2>1, <2>2
<1> QED BY <1>3, <1>4 DEF Next

(* poll for input sleeps only over an empty fifo or a full one, whoever    *)
(* else reads, writes, polls, clears or is interrupted.                    *)
THEOREM PollersAtEnds == Spec => []PollSleepsOnlyAtEnds
<1>1. Init => OnBothQueues /\ PollSleepsOnlyAtEnds
  BY DEF Init, OnBothQueues, PollSleepsOnlyAtEnds
<1>2. Spec => []BaseInv
  BY BaseInit, BaseStep, PTL DEF Spec
<1> QED BY <1>1, <1>2, BothQueuesStep, SleepersAtEnds, PTL DEF Spec

(***************************************************************************)
(* The ring is a queue.                                                    *)
(***************************************************************************)
(* Where the bytes held are, and where the next ones go: the cells follow  *)
(* each other from rp on, across the end of the buffer, and those from wp  *)
(* on are free.                                                            *)
LEMMA CellsHeld ==
  ASSUME RingInv
  PROVE  /\ \A i \in 1 .. size : Cell(i - 1) \in Cells
         /\ \A n \in Nat : /\ size < Size /\ wp + n <= Size
                           /\ wp < rp => wp + n <= rp
              => /\ \A i \in 1 .. size : ~(wp <= Cell(i - 1) /\ Cell(i - 1) < wp + n)
                 /\ \A i \in size + 1 .. size + n : Cell(i - 1) = wp + (i - size) - 1
<1>1. /\ Size \in Nat /\ rp \in Nat /\ wp \in Nat /\ size \in Nat /\ size <= Size
      /\ rp < Size /\ wp < Size
  BY MyFifoAssumption DEF RingInv, Cells
<1>2. \A i \in 1 .. size : Cell(i - 1) \in Cells
  BY <1>1 DEF Cell, Cells
<1>3. ASSUME NEW n \in Nat, size < Size, wp + n <= Size, wp < rp => wp + n <= rp,
             NEW i \in 1 .. size
      PROVE  ~(wp <= Cell(i - 1) /\ Cell(i - 1) < wp + n)
  BY <1>1, <1>3 DEF RingInv, RingConsistent, Cell
<1>4. ASSUME NEW n \in Nat, size < Size, wp + n <= Size, NEW i \in size + 1 .. size + n
      PROVE  Cell(i - 1) = wp + (i - size) - 1
  BY <1>1, <1>4 DEF RingInv, RingConsistent, Cell
<1> QED BY <1>2, <1>3, <1>4

(* The queue that the ring stands for has size bytes.                      *)
LEMMA Held ==
  ASSUME RingInv
  PROVE  /\ Contents \in Seq(Byte) /\ Len(Contents) = size /\ size \in Nat
         /\ \A i \in 1 .. size : Contents[i] = buf[Cell(i - 1)]
<1>1. size \in Nat /\ \A i \in 1 .. size : buf[Cell(i - 1)] \in Byte
  BY CellsHeld, MyFifoAssumption DEF RingInv
<1>2. Contents \in [1 .. size -> Byte]
  BY <1>1 DEF Contents
<1>3. \A i \in 1 .. size : Contents[i] = buf[Cell(i - 1)]
  BY DEF Contents
<1> QED BY <1>1, <1>2, <1>3

(* The same of the next state.                                             *)
LEMMA HeldNext ==
  ASSUME RingInv'
  PROVE  /\ Contents' \in Seq(Byte) /\ Len(Contents') = size' /\ size' \in Nat
         /\ \A i \in 1 .. size' : Contents'[i] = buf'[Cell(i - 1)']
<1>1. /\ Size \in Nat /\ rp' \in Nat /\ size' \in Nat /\ size' <= Size
      /\ rp' < Size /\ buf' \in [Cells -> Byte]
  BY MyFifoAssumption DEF RingInv, Cells
<1>2. ASSUME NEW i \in 1 .. size' PROVE Cell(i - 1)' \in Cells
  <2>1. PICK r \in Nat, z \in Nat : r = rp' /\ z = size'
    BY <1>1
  <2>2. r < Size /\ z <= Size /\ i \in 1 .. z /\ Size \in Nat
    BY <1>1, <2>1
  <2>3. (IF r + (i - 1) < Size THEN r + (i - 1) ELSE r + (i - 1) - Size) \in 0 .. Size - 1
    BY <2>2
  <2> QED BY <2>1, <2>3 DEF Cell, Cells
<1>3. \A i \in 1 .. size' : buf'[Cell(i - 1)'] \in Byte
  BY <1>1, <1>2
<1>4. Contents' \in [1 .. size' -> Byte]
  BY <1>3 DEF Contents
<1>5. \A i \in 1 .. size' : Contents'[i] = buf'[Cell(i - 1)']
  BY DEF Contents
<1> QED BY <1>1, <1>4, <1>5

(* A write appends the first bytes of its buffer.                          *)
LEMMA StoreAppends ==
  ASSUME BaseInv, NEW p \in Procs, Store(p)
  PROVE  Queue!Put \/ UNCHANGED <<Contents, got>>
<1> DEFINE n == WriteCount(req[p].n)
           d == req[p].data
           t == [i \in 1 .. n |-> d[i]]
<1>1. req[p] \in Calls /\ req[p].n \in Nat /\ d \in [1 .. req[p].n -> Byte]
  BY CallFields DEF BaseInv, TypeOK, Store, Writes
<1>2. size < Size /\ size \in Nat /\ wp \in Nat /\ rp \in Nat /\ Size \in Nat
  <2>1. size # Size
    BY DEF Store, NothingFor, Reads, Writes
  <2> QED BY <2>1, MyFifoAssumption DEF BaseInv, TypeOK, Cells
<1>3. /\ n \in 0 .. req[p].n /\ size + n <= Size /\ wp + n <= Size
      /\ wp < rp => wp + n <= rp
  BY <1>1, <1>2, WriteChunk DEF BaseInv
<1>4. size' = size + n /\ rp' = rp /\ got' = got
  BY DEF Store
<1>5. buf' = [i \in Cells |-> IF wp <= i /\ i < wp + n THEN d[i - wp + 1] ELSE buf[i]]
  BY DEF Store
<1> HIDE DEF n, d
<1>6. RingInv /\ RingInv'
  BY WriteKeepsRing, BaseParts
<1>7. n \in Nat
  BY <1>1, <1>3
<1>8. /\ \A i \in 1 .. size : Cell(i - 1) \in Cells
      /\ \A i \in 1 .. size : ~(wp <= Cell(i - 1) /\ Cell(i - 1) < wp + n)
      /\ \A i \in size + 1 .. size + n : Cell(i - 1) = wp + (i - size) - 1
  BY <1>2, <1>3, <1>6, <1>7, CellsHeld
<1>9. \A i : Cell(i)' = Cell(i)
  BY <1>4 DEF Cell
<1>10. ASSUME NEW i \in 1 .. size PROVE Contents'[i] = Contents[i]
  <2>1. i \in 1 .. size'
    BY <1>2, <1>4, <1>7
  <2>2. Contents'[i] = buf'[Cell(i - 1)]
    BY <1>6, <1>9, <2>1, HeldNext
  <2>3. buf'[Cell(i - 1)] = buf[Cell(i - 1)]
    BY <1>5, <1>8
  <2>4. Contents[i] = buf[Cell(i - 1)]
    BY <1>6, Held
  <2> QED BY <2>2, <2>3, <2>4
<1>11. ASSUME NEW i \in size + 1 .. size + n PROVE Contents'[i] = t[i - size]
  <2>1. i \in 1 .. size' /\ i - size \in 1 .. n
    BY <1>2, <1>4, <1>7
  <2>2. Contents'[i] = buf'[Cell(i - 1)]
    BY <1>6, <1>9, <2>1, HeldNext
  <2>3. Cell(i - 1) = wp + (i - size) - 1 /\ Cell(i - 1) \in Cells
    BY <1>2, <1>3, <1>7, <1>8, <2>1 DEF Cells
  <2>4. buf'[Cell(i - 1)] = d[i - size]
    <3>1. wp <= Cell(i - 1) /\ Cell(i - 1) < wp + n /\ Cell(i - 1) - wp + 1 = i - size
      BY <1>2, <1>7, <2>1, <2>3
    <3> QED BY <1>5, <2>3, <3>1
  <2> QED BY <2>1, <2>2, <2>4
<1>12. t \in [1 .. n -> Byte] /\ t \in Seq(Byte) /\ Len(t) = n
  <2>1. \A i \in 1 .. n : d[i] \in Byte
    BY <1>1, <1>3
  <2> QED BY <1>7, <2>1
<1> HIDE DEF t
<1>13. Contents' = Contents \o t
  <2>1. /\ Contents \o t \in Seq(Byte) /\ Len(Contents \o t) = size + n
        /\ \A i \in 1 .. size + n : (Contents \o t)[i] = IF i <= size THEN Contents[i] ELSE t[i - size]
    <3>1. Contents \in Seq(Byte) /\ Len(Contents) = size
      BY <1>6, Held
    <3>2. /\ Contents \o t \in Seq(Byte) /\ Len(Contents \o t) = Len(Contents) + Len(t)
          /\ \A i \in 1 .. Len(Contents) + Len(t) :
               (Contents \o t)[i] = IF i <= Len(Contents) THEN Contents[i] ELSE t[i - Len(Contents)]
      BY <1>12, <3>1, ConcatProperties, Zenon
    <3> QED BY <1>12, <3>1, <3>2, Zenon
  <2>2. Contents' \in Seq(Byte) /\ Len(Contents') = size + n
    BY <1>4, <1>6, HeldNext
  <2>3. ASSUME NEW i \in 1 .. size + n PROVE Contents'[i] = (Contents \o t)[i]
    <3>1. CASE i <= size
      BY <1>2, <1>10, <2>1, <3>1
    <3>2. CASE i > size
      <4>1. i \in size + 1 .. size + n /\ ~(i <= size)
        BY <1>2, <1>7, <3>2
      <4> QED BY <1>11, <2>1, <4>1
    <3>3. i <= size \/ i > size
      BY <1>2, <1>7
    <3> QED BY <3>1, <3>2, <3>3
  <2> QED BY <2>1, <2>2, <2>3, SeqEqual
<1>14. CASE n = 0
  <2>1. Contents' \in Seq(Byte) /\ Contents \in Seq(Byte) /\ Len(Contents') = Len(Contents)
        /\ \A i \in 1 .. Len(Contents) : Contents'[i] = Contents[i]
    BY <1>2, <1>4, <1>6, <1>10, <1>14, Held, HeldNext
  <2>2. Contents' = Contents
    BY <2>1, SeqEqual
  <2> QED BY <1>4, <2>2
<1>15. CASE n # 0
  <2>1. n \in 1 .. Size /\ Len(Contents) + Len(t) <= Size
    BY <1>2, <1>3, <1>6, <1>7, <1>12, <1>15, Held
  <2> QED BY <1>4, <1>12, <1>13, <2>1 DEF Queue!Put
<1> QED BY <1>14, <1>15

(* A read takes the first bytes held.                                      *)
LEMMA ReadTakes ==
  ASSUME BaseInv, NEW p \in Procs, ReadBody(p)
  PROVE  Queue!Take(p) \/ Queue!Leave(p)
<1> DEFINE n == ReadCount(req[p].n)
           t == [i \in 1 .. n |-> buf[rp + i - 1]]
<1>1. req[p].n \in Nat
  BY CallFields DEF BaseInv, TypeOK
<1>2. size > 0 /\ size \in Nat /\ size <= Size /\ rp \in Nat /\ rp < Size /\ Size \in Nat
  BY MyFifoAssumption DEF ReadBody, NothingFor, BaseInv, TypeOK, Cells
<1>3. n \in Nat /\ n <= size /\ rp + n <= Size
  BY <1>1, <1>2, ReadChunk DEF BaseInv
<1>4. rp' = Advance(rp, n) /\ size' = size - n /\ buf' = buf /\ got' = [got EXCEPT ![p] = t]
  BY DEF ReadBody
<1> HIDE DEF n
<1>5. RingInv /\ RingInv'
  BY ReadKeepsRing, BaseParts
<1>6. /\ Contents \in Seq(Byte) /\ Len(Contents) = size
      /\ Contents' \in Seq(Byte) /\ Len(Contents') = size - n
  BY <1>4, <1>5, Held, HeldNext
<1>7. ASSUME NEW i \in 1 .. size - n PROVE Contents'[i] = Contents[n + i]
  <2>1. i \in 1 .. size' /\ n + i \in 1 .. size
    BY <1>2, <1>3, <1>4
  <2>2. Cell(i - 1)' = Cell(n + i - 1)
    BY <1>2, <1>3, <1>4, <2>1 DEF Cell, Advance
  <2>3. Contents'[i] = buf[Cell(n + i - 1)]
    BY <1>4, <1>5, <2>1, <2>2, HeldNext
  <2>4. PICK j \in 1 .. size : j = n + i
    BY <2>1
  <2>5. Contents[j] = buf[Cell(j - 1)]
    BY <1>5, Held
  <2>6. n + i - 1 = j - 1
    BY <1>2, <1>3, <2>4
  <2> QED BY <2>3, <2>4, <2>5, <2>6
<1>8. ASSUME NEW i \in 1 .. n PROVE t[i] = Contents[i]
  <2>1. i \in 1 .. size /\ Cell(i - 1) = rp + i - 1
    BY <1>2, <1>3 DEF Cell
  <2> QED BY <1>5, <2>1, Held
<1>9. t \in Seq(Byte) /\ Len(t) = n
  <2>1. \A i \in 1 .. n : i \in 1 .. Len(Contents) /\ t[i] = Contents[i] /\ Contents[i] \in Byte
    BY <1>2, <1>3, <1>6, <1>8, ElementOfSeq
  <2>2. t \in [1 .. n -> Byte]
    BY <2>1
  <2> QED BY <1>3, <2>2
<1> HIDE DEF t
<1>10. CASE n = 0
  <2>1. t = << >>
    BY <1>9, <1>10, EmptySeq
  <2>2. \A i \in 1 .. Len(Contents) : Contents'[i] = Contents[i]
    BY <1>2, <1>6, <1>7, <1>10
  <2>3. Contents' = Contents
    BY <1>2, <1>6, <1>10, <2>2, SeqEqual
  <2> QED BY <1>4, <2>1, <2>3 DEF Queue!Leave
<1>11. CASE n # 0
  <2>1. n \in 1 .. Len(Contents)
    BY <1>2, <1>3, <1>6, <1>11
  <2>2. /\ SubSeq(Contents, 1, n) \in Seq(Byte) /\ Len(SubSeq(Contents, 1, n)) = n
        /\ \A i \in 1 .. n : SubSeq(Contents, 1, n)[i] = Contents[i]
    BY <1>2, <1>3, <1>6, <2>1
  <2>3. t = SubSeq(Contents, 1, n)
    BY <1>8, <1>9, <2>2, SeqEqual
  <2>4. /\ SubSeq(Contents, n + 1, size) \in Seq(Byte) /\ Len(SubSeq(Contents, n + 1, size)) = size - n
        /\ \A i \in 1 .. size - n : SubSeq(Contents, n + 1, size)[i] = Contents[n + i]
    BY <1>2, <1>3, <1>6, <2>1
  <2>5. Contents' = SubSeq(Contents, n + 1, size)
    BY <1>6, <1>7, <2>4, SeqEqual
  <2> QED BY <1>4, <1>6, <2>1, <2>3, <2>5 DEF Queue!Take
<1> QED BY <1>10, <1>11

(* A write that fails has written to free cells only.                      *)
LEMMA FaultLeavesQueue ==
  ASSUME BaseInv, NEW p \in Procs, WriteFault(p)
  PROVE  UNCHANGED <<Contents, got>>
<1> DEFINE n == WriteCount(req[p].n)
           d == req[p].data
<1>1. req[p].n \in Nat
  BY CallFields DEF BaseInv, TypeOK
<1>2. size < Size /\ size \in Nat /\ wp \in Nat
  <2>1. size # Size
    BY DEF WriteFault, NothingFor, Reads, Writes
  <2> QED BY <2>1, MyFifoAssumption DEF BaseInv, TypeOK, Cells
<1>3. n \in 0 .. req[p].n /\ wp + n <= Size /\ (wp < rp => wp + n <= rp)
  BY <1>1, <1>2, WriteChunk DEF BaseInv
<1>4. PICK b \in Byte, k \in 0 .. n - 1 :
        buf' = [i \in Cells |-> IF wp <= i /\ i < wp + k THEN d[i - wp + 1]
                                ELSE IF wp + k <= i /\ i < wp + n THEN b ELSE buf[i]]
  BY DEF WriteFault
<1>5. size' = size /\ rp' = rp /\ got' = got
  BY DEF WriteFault
<1> HIDE DEF n, d
<1>6. RingInv /\ RingInv'
  BY FaultKeepsRing, BaseParts
<1>7. n \in Nat /\ k \in Nat /\ k < n
  BY <1>1, <1>3, <1>4
<1>8. /\ \A i \in 1 .. size : Cell(i - 1) \in Cells /\ Cell(i - 1) \in Int
      /\ \A i \in 1 .. size : ~(wp <= Cell(i - 1) /\ Cell(i - 1) < wp + n)
  BY <1>2, <1>3, <1>6, <1>7, CellsHeld DEF Cells
<1>9. ASSUME NEW i \in 1 .. size PROVE buf'[Cell(i - 1)] = buf[Cell(i - 1)]
  BY <1>2, <1>4, <1>7, <1>8
<1>10. \A i : Cell(i)' = Cell(i)
  BY <1>5 DEF Cell
<1>11. Contents' = Contents
  BY <1>5, <1>9, <1>10 DEF Contents
<1> QED BY <1>5, <1>11

(* Every step of the device is one of the queue's, or none.                *)
LEMMA QueueStep ==
  ASSUME BaseInv, Next
  PROVE  Queue!FifoNext \/ UNCHANGED <<Contents, got>>
<1>1. UNCHANGED <<dev, got>> => UNCHANGED <<Contents, got>>
  BY DEF dev, Contents, Cell
<1>2. ASSUME NEW p \in Procs, Start(p) \/ Down(p) \/ Interrupted(p) PROVE UNCHANGED <<dev, got>>
  BY <1>2 DEF Start, Down, Interrupted, DownInterrupted, SleepInterrupted
<1>3. ASSUME NEW p \in Procs,
             Blocked(p) \/ PollBody(p) \/ WaitCheck(p) \/ PrepareToWait(p) \/ WaitRecheck(p)
               \/ Woken(p) \/ ReadFault(p)
      PROVE  UNCHANGED <<dev, got>>
  BY <1>3 DEF Blocked, PollBody, WaitCheck, PrepareToWait, WaitRecheck, Woken, ReadFault
<1>4. ASSUME NEW p \in Procs, ReadBody(p) PROVE Queue!FifoNext
  BY <1>4, ReadTakes DEF Queue!FifoNext
<1>5. ASSUME NEW p \in Procs, WriteBody(p) PROVE Queue!FifoNext \/ UNCHANGED <<Contents, got>>
  BY <1>5, StoreAppends DEF WriteBody, Queue!FifoNext
<1>6. ASSUME NEW p \in Procs, Clear(p) PROVE Queue!FifoNext
  <2>1. size' = 0 /\ got' = got
    BY <1>6 DEF Clear
  <2>2. RingInv'
    BY <1>6, BaseParts, MyFifoAssumption DEF Clear, RingInv, RingConsistent, Cells
  <2>3. Contents' = << >>
    BY <2>1, <2>2, HeldNext, EmptySeq
  <2> QED BY <2>1, <2>3 DEF Queue!FifoNext, Queue!Discard
<1>7. ASSUME NEW p \in Procs, WakeUp(p) PROVE Queue!FifoNext
  <2>1. Contents' = Contents /\ got' = [got EXCEPT ![p] = << >>]
    BY <1>7 DEF WakeUp, dev, Contents, Cell
  <2> QED BY <2>1 DEF Queue!FifoNext, Queue!Leave
<1>8. ASSUME NEW p \in Procs, WriteFault(p) PROVE UNCHANGED <<Contents, got>>
  BY <1>8, FaultLeavesQueue
<1> QED BY <1>1, <1>2, <1>3, <1>4, <1>5, <1>6, <1>7, <1>8 DEF Next, Step, Fault

(* The device implements the queue: bytes come out once and in the order   *)
(* in which they went in, never more than MYFIFO_SIZE are held, and no     *)
(* fault, signal or wake-up takes, adds or changes one.                    *)
THEOREM ImplementsBoundedFifo == Spec => ImplementsFifo
<1>1. Init => Queue!FifoInit
  <2> SUFFICES ASSUME Init PROVE Queue!FifoInit
    OBVIOUS
  <2>1. RingInv /\ size = 0
    BY BaseInit, BaseParts DEF Init
  <2>2. Contents = << >>
    BY <2>1, Held, EmptySeq
  <2> QED BY <2>2 DEF Init, Queue!FifoInit
<1>2. BaseInv /\ [Next]_vars => [Queue!FifoNext]_Queue!fifoVars
  <2> SUFFICES ASSUME BaseInv, [Next]_vars
               PROVE  Queue!FifoNext \/ UNCHANGED <<Contents, got>>
    BY DEF Queue!fifoVars
  <2>1. CASE UNCHANGED vars
    BY <2>1 DEF vars, Contents, Cell
  <2>2. CASE Next
    BY <2>2, QueueStep
  <2> QED BY <2>1, <2>2
<1> QED BY <1>1, <1>2, BaseInit, BaseStep, PTL DEF Spec, ImplementsFifo, Queue!FifoSpec
=============================================================================
