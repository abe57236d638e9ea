------------------------------- MODULE MyFifo -------------------------------
(***************************************************************************)
(* The myfifo character device (driver/myfifo/drv/myfifo.c): a ring of     *)
(* MYFIFO_SIZE bytes behind a semaphore, with blocking and O_NONBLOCK      *)
(* read and write, poll, and the MYFIFO_CLEAR ioctl.                       *)
(*                                                                         *)
(* A process is one system call at a time.  The part of a call between     *)
(* down and up is one step: the only field read without the semaphore is   *)
(* size (in the conditions of wait_event_interruptible), and each critical *)
(* section writes it once.  wait_event_interruptible is taken apart into   *)
(* the steps the macro has, because a wake-up may fall between any two.    *)
(***************************************************************************)
EXTENDS Integers, Sequences, FiniteSets

CONSTANTS Procs,      \* processes with the device open
          Role,       \* Role[p]: the kinds of call p makes
          Byte,       \* contents of the fifo
          Size,       \* MYFIFO_SIZE
          MaxReq      \* largest size argument of read and write

Kinds == {"read", "write", "clear", "pollin", "pollout"}

ASSUME MyFifoAssumption ==
  /\ Size \in Nat \ {0}
  /\ MaxReq \in Nat
  /\ Role \in [Procs -> SUBSET Kinds]

VARIABLES sem,        \* dev->sem
          size, rp, wp, buf,
          inq, outq,  \* processes queued on dev->inq, dev->outq and not woken
          pc,         \* where each process is in its call
          req,        \* the arguments of the call
          got         \* bytes a read has put in the caller's buffer

dev  == <<size, rp, wp, buf>>
vars == <<sem, size, rp, wp, buf, inq, outq, pc, req, got>>

(***************************************************************************)
(* System calls.  n is the size argument, data the bytes of a write, nb    *)
(* O_NONBLOCK.                                                             *)
(***************************************************************************)
Cells == 0 .. Size - 1
Strings == UNION {[1 .. n -> Byte] : n \in 0 .. MaxReq}
Call(kind, n, data, nb) == [kind |-> kind, n |-> n, data |-> data, nb |-> nb]
NoCall == Call("clear", 0, << >>, FALSE)

ReadCalls  == {Call("read", n, << >>, nb) : n \in 0 .. MaxReq, nb \in BOOLEAN}
WriteCalls == {Call("write", Len(d), d, nb) : d \in Strings, nb \in BOOLEAN}
OtherCalls == {Call(kind, 0, << >>, FALSE) : kind \in {"clear", "pollin", "pollout"}}
Calls == ReadCalls \cup WriteCalls \cup OtherCalls

Reads(p)  == req[p].kind = "read"
Writes(p) == req[p].kind = "write"
Polls(p)  == req[p].kind \in {"pollin", "pollout"}

Init ==
  /\ sem = 1
  /\ size = 0 /\ rp = 0 /\ wp = 0
  /\ buf \in {[i \in Cells |-> b] : b \in Byte}
  /\ inq = {} /\ outq = {}
  /\ pc = [p \in Procs |-> "idle"]
  /\ req = [p \in Procs |-> NoCall]
  /\ got = [p \in Procs |-> << >>]

Goto(p, label) == pc' = [pc EXCEPT ![p] = label]

Return(p) ==
  /\ Goto(p, "idle")
  /\ req' = [req EXCEPT ![p] = NoCall]

Start(p) ==
  /\ pc[p] = "idle"
  /\ \E c \in Calls : c.kind \in Role[p] /\ req' = [req EXCEPT ![p] = c]
  /\ Goto(p, "down")
  /\ UNCHANGED <<sem, dev, inq, outq, got>>

(* down_interruptible: take the semaphore, or give up on a signal while    *)
(* waiting for it (-ERESTARTSYS).                                          *)
Down(p) ==
  /\ pc[p] = "down" /\ sem > 0
  /\ sem' = sem - 1
  /\ Goto(p, "locked")
  /\ UNCHANGED <<dev, inq, outq, req, got>>

DownInterrupted(p) ==
  /\ pc[p] = "down" /\ sem = 0
  /\ Return(p)
  /\ UNCHANGED <<sem, dev, inq, outq, got>>

Up == sem' = sem + 1

(***************************************************************************)
(* The ring.                                                               *)
(***************************************************************************)
Lesser(a, b) == IF a < b THEN a ELSE b
Advance(x, n) == IF x + n = Size THEN 0 ELSE x + n

ReadCount(n)  == Lesser(n, IF wp > rp THEN wp - rp ELSE Size - rp)
WriteCountBlind(n) == Lesser(n, Size - wp)               \* mutant: forgets rp
WriteCount(n) == Lesser(n, IF wp < rp THEN rp - wp ELSE Size - wp)

NothingFor(p) == IF Reads(p) THEN size = 0 ELSE size = Size

(* The while loop of read and write: nothing to do, so release the         *)
(* semaphore and fail with -EAGAIN or go and wait.                         *)
Blocked(p) ==
  /\ pc[p] = "locked" /\ (Reads(p) \/ Writes(p)) /\ NothingFor(p)
  /\ Up
  /\ IF req[p].nb THEN Return(p) ELSE Goto(p, "check") /\ req' = req
  /\ UNCHANGED <<dev, inq, outq, got>>

ReadBody(p) ==
  LET n == ReadCount(req[p].n) IN
  /\ pc[p] = "locked" /\ Reads(p) /\ ~NothingFor(p)
  /\ got' = [got EXCEPT ![p] = [i \in 1 .. n |-> buf[rp + i - 1]]]
  /\ rp' = Advance(rp, n)
  /\ size' = size - n
  /\ Up
  /\ Goto(p, "wake")
  /\ UNCHANGED <<wp, buf, inq, outq, req>>

Store(p) ==
  LET n == WriteCount(req[p].n) IN
  /\ pc[p] = "locked" /\ Writes(p) /\ ~NothingFor(p)
  /\ buf' = [i \in Cells |-> IF wp <= i /\ i < wp + n THEN req[p].data[i - wp + 1] ELSE buf[i]]
  /\ wp' = Advance(wp, n)
  /\ size' = size + n
  /\ Up
  /\ UNCHANGED <<rp, inq, outq, got>>

WriteBodySilent(p) == Store(p) /\ Return(p)               \* mutant: no wake-up
WriteBody(p) == Store(p) /\ Goto(p, "wake") /\ req' = req

(* copy_to_user or copy_from_user fails: -EFAULT.  A failed write may have *)
(* left anything in the free cells it was copying to.                      *)
ReadFaultHolding(p) ==                                   \* mutant: no up
  /\ pc[p] = "locked" /\ Reads(p) /\ ~NothingFor(p)
  /\ Return(p)
  /\ UNCHANGED <<sem, dev, inq, outq, got>>
ReadFault(p) ==
  /\ pc[p] = "locked" /\ Reads(p) /\ ~NothingFor(p) /\ ReadCount(req[p].n) > 0
  /\ Up
  /\ Return(p)
  /\ UNCHANGED <<dev, inq, outq, got>>

WriteFault(p) ==
  LET n == WriteCount(req[p].n) IN
  /\ pc[p] = "locked" /\ Writes(p) /\ ~NothingFor(p) /\ n > 0
  /\ \E b \in Byte : \E k \in 0 .. n - 1 :
       buf' = [i \in Cells |-> IF wp <= i /\ i < wp + k THEN req[p].data[i - wp + 1]
                               ELSE IF wp + k <= i /\ i < wp + n THEN b ELSE buf[i]]
  /\ Up
  /\ Return(p)
  /\ UNCHANGED <<rp, wp, size, inq, outq, got>>

ClearKeepsWp(p) ==                                       \* mutant: wp not reset
  /\ pc[p] = "locked" /\ req[p].kind = "clear"
  /\ rp' = 0 /\ wp' = wp /\ size' = 0
  /\ Up
  /\ Return(p)
  /\ UNCHANGED <<buf, inq, outq, got>>
Clear(p) ==
  /\ pc[p] = "locked" /\ req[p].kind = "clear"
  /\ rp' = 0 /\ wp' = 0 /\ size' = 0
  /\ Up
  /\ Return(p)
  /\ UNCHANGED <<buf, inq, outq, got>>

(***************************************************************************)
(* wait_event_interruptible(queue, condition): look at the condition; if   *)
(* it is false enqueue, look again, and sleep until a wake-up takes the    *)
(* process off the queue; then start over.                                 *)
(***************************************************************************)
Condition(p) == IF Reads(p) THEN size > 0 ELSE size < Size

FinishWait(p) == inq' = inq \ {p} /\ outq' = outq \ {p}

WaitCheck(p) ==
  /\ pc[p] = "check"
  /\ Goto(p, IF Condition(p) THEN "down" ELSE "prepare")
  /\ UNCHANGED <<sem, dev, inq, outq, req, got>>

PrepareToWait(p) ==
  /\ pc[p] = "prepare"
  /\ inq'  = IF Reads(p) THEN inq \cup {p} ELSE inq
  /\ outq' = IF Reads(p) THEN outq ELSE outq \cup {p}
  /\ Goto(p, "recheck")
  /\ UNCHANGED <<sem, dev, req, got>>

WaitRecheck(p) ==
  /\ pc[p] = "recheck"
  /\ IF Condition(p)
     THEN FinishWait(p) /\ Goto(p, "down")
     ELSE UNCHANGED <<inq, outq>> /\ Goto(p, "sleep")
  /\ UNCHANGED <<sem, dev, req, got>>

Woken(p) ==
  /\ pc[p] = "sleep" /\ p \notin inq \cup outq
  /\ Goto(p, IF Polls(p) THEN "down" ELSE "prepare")
  /\ UNCHANGED <<sem, dev, inq, outq, req, got>>

(* A signal makes a sleeper look again: it goes on if its condition holds, *)
(* else the call fails with -ERESTARTSYS.  A signal or the timeout ends a  *)
(* poll(2).                                                                *)
SleepInterrupted(p) ==
  /\ pc[p] = "sleep"
  /\ FinishWait(p)
  /\ IF Polls(p) \/ ~Condition(p) THEN Return(p) ELSE Goto(p, "down") /\ req' = req
  /\ UNCHANGED <<sem, dev, got>>

(* wake_up_interruptible: every process on the queue; a poller, which is   *)
(* on both queues, will register again when it looks again.                *)
WakeUpOwnQueue(p) ==                                     \* mutant: queues swapped
  /\ pc[p] = "wake"
  /\ LET woken == IF Reads(p) THEN inq ELSE outq IN
       inq' = inq \ woken /\ outq' = outq \ woken
  /\ Return(p)
  /\ got' = [got EXCEPT ![p] = << >>]
  /\ UNCHANGED <<sem, dev>>
WakeUp(p) ==
  /\ pc[p] = "wake"
  /\ LET woken == IF Reads(p) THEN outq ELSE inq IN
       inq' = inq \ woken /\ outq' = outq \ woken
  /\ Return(p)
  /\ got' = [got EXCEPT ![p] = << >>]
  /\ UNCHANGED <<sem, dev>>

(***************************************************************************)
(* poll: register on both queues and compute the mask; the call sleeps     *)
(* when the event it asks for is not in the mask.                          *)
(***************************************************************************)
Readable == rp # wp
Writable == size < Size
Ready(p) == IF req[p].kind = "pollin" THEN Readable ELSE Writable

PollBody(p) ==
  /\ pc[p] = "locked" /\ Polls(p)
  /\ IF Ready(p)
     THEN Return(p) /\ UNCHANGED <<inq, outq>>
     ELSE /\ Goto(p, "sleep") /\ req' = req
          /\ inq' = inq \cup {p} /\ outq' = outq \cup {p}
  /\ Up
  /\ UNCHANGED <<dev, got>>

Step(p) ==
  \/ Blocked(p) \/ ReadBody(p) \/ WriteBody(p) \/ Clear(p) \/ PollBody(p)
  \/ WaitCheck(p) \/ PrepareToWait(p) \/ WaitRecheck(p) \/ Woken(p) \/ WakeUp(p)

Fault(p) == ReadFault(p) \/ WriteFault(p)

Interrupted(p) == DownInterrupted(p) \/ SleepInterrupted(p)

Next == \E p \in Procs :
          Start(p) \/ Down(p) \/ Step(p) \/ Fault(p) \/ Interrupted(p)

Spec == Init /\ [][Next]_vars

(* The scheduler runs every runnable process; a semaphore serves those     *)
(* that wait for it in turn.  Nobody is obliged to start a call, and       *)
(* signals, timeouts and faults may never come.                            *)
Fairness == \A p \in Procs : WF_vars(Step(p) \/ Fault(p)) /\ SF_vars(Down(p))

FairSpec == Spec /\ Fairness

(***************************************************************************)
(* Properties.                                                             *)
(***************************************************************************)
Labels == {"idle", "down", "locked", "check", "prepare", "recheck", "sleep", "wake"}

(* Every variable keeps its type; a read or write never asks for more      *)
(* bytes than it has.                                                      *)
TypeOK ==
  /\ sem \in 0 .. 1
  /\ size \in 0 .. Size /\ rp \in Cells /\ wp \in Cells
  /\ buf \in [Cells -> Byte]
  /\ inq \subseteq Procs /\ outq \subseteq Procs
  /\ pc \in [Procs -> Labels]
  /\ req \in [Procs -> Calls]
  /\ got \in [Procs -> Seq(Byte)]

(* The semaphore is what it should be on every path through the loops and  *)
(* the error returns of read, write, poll and ioctl: taken exactly while   *)
(* one process is between its down and its up.                             *)
Holders == {p \in Procs : pc[p] = "locked"}
SemCountsHolder ==
  /\ sem = 1 => Holders = {}
  /\ sem = 0 => \E p \in Holders : Holders = {p}

(* size, which the wait conditions read without the semaphore, agrees with *)
(* the pointers, which alone say where the next chunk is.                  *)
RingConsistent ==
  \/ wp > rp /\ size = wp - rp
  \/ wp < rp /\ size = wp - rp + Size
  \/ wp = rp /\ size \in {0, Size}

(* No wake-up is lost: a read asleep on inq while there is data has a      *)
(* writer about to call wake_up_interruptible(&dev->inq).                  *)
ReaderNotStranded ==
  \A p \in Procs :
    pc[p] = "sleep" /\ Reads(p) /\ p \in inq /\ size > 0
      => \E w \in Procs : pc[w] = "wake" /\ Writes(w)

(* The same of a write asleep on outq while there is room.                 *)
WriterNotStranded ==
  \A p \in Procs :
    pc[p] = "sleep" /\ Writes(p) /\ p \in outq /\ size < Size
      => \E r \in Procs : pc[r] = "wake" /\ Reads(r)

(* poll(POLLIN) sleeps only on an empty fifo, or one that a pending wake-up *)
(* will make it look at again; and on a full one, which has rp = wp too.   *)
PollSleepsOnlyAtEnds ==
  \A p \in Procs :
    pc[p] = "sleep" /\ req[p].kind = "pollin" /\ p \in inq
      => size \in {0, Size} \/ \E w \in Procs : pc[w] = "wake"

(* The fifo behaves as a bounded queue of bytes: contents is the queue     *)
(* the ring stands for.                                                    *)
Cell(i) == IF rp + i < Size THEN rp + i ELSE rp + i - Size
Contents == [i \in 1 .. size |-> buf[Cell(i - 1)]]
Queue == INSTANCE BoundedFifo WITH q <- Contents, Capacity <- Size
ImplementsFifo == Queue!FifoSpec

(* Progress: a read that is the only reader's returns once there is data,  *)
(* a write that is the only writer's once there is room, whatever polls,   *)
(* signals and faults others meet.                                         *)
Alone(p) == \A o \in Procs \ {p} : Role[o] \cap Role[p] = {}
SoleCallReturns ==
  \A p \in Procs : Alone(p) =>
    /\ (pc[p] # "idle" /\ Reads(p) /\ size > 0) ~> pc[p] = "idle"
    /\ (pc[p] # "idle" /\ Writes(p) /\ size < Size) ~> pc[p] = "idle"
=============================================================================
