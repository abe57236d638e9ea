----------------------------- MODULE GlobalMem ------------------------------
(***************************************************************************)
(* The globalmem character device (driver/globalmem/drv/globalmem.c): a    *)
(* memory and an open counter behind a semaphore, sysfs attributes that    *)
(* reach the same memory without it, and the probe and remove of the       *)
(* platform driver, which an administrator may repeat (unbind, bind) while *)
(* files are open.                                                         *)
(*                                                                         *)
(* A process has one open file.  Inside the semaphore memory is copied     *)
(* cell by cell, because sysfs is not kept out.  What follows the use of   *)
(* an uninitialised semaphore (an oops), or its initialisation while it is *)
(* in use, is undefined: the model stops there.                            *)
(***************************************************************************)
EXTENDS Integers, Sequences, FiniteSets
LOCAL INSTANCE SequencesExt

CONSTANTS Procs, Readers, Writers,   \* processes; what they do with their file
          Size,       \* GLOBALMEM_SIZE
          Value,      \* contents of a cell; 0 is one of them
          MaxBinds,   \* bound: probes that are made
          MaxLeaks    \* bound: releases that a signal cuts short

ASSUME GlobalMemAssumption ==
  /\ IsFiniteSet(Procs) /\ Readers \cup Writers \subseteq Procs
  /\ Size \in Nat \ {0} /\ 0 \in Value
  /\ {MaxBinds, MaxLeaks} \subseteq Nat

VARIABLES sem, queue,       \* dev->sem: its count and those queued on it
          inited,           \* sema_init has been called
          mem, cnt, data,   \* the other fields of struct globalmem_dev
          driver, cdev,     \* how far the probe has got; whether open finds it
          binds,
          pc, op, pos,      \* per process: step, call, file->f_pos
          at, got,          \* next cell to copy; cells read
          bin,              \* the write of the binary attribute under way
          leaked, torn      \* history: releases cut short; reads sysfs wrote into

lock   == <<sem, queue, inited>>
fields == <<mem, cnt, data>>
bus    == <<driver, cdev, binds>>
local  == <<pc, op, pos, at, got>>
ghosts == <<leaked, torn>>
vars   == <<lock, fields, bus, local, bin, ghosts>>

Cells == 0 .. Size - 1
Lesser(a, b) == IF a < b THEN a ELSE b
NoOp  == [kind |-> "none", n |-> 0, v |-> 0]
NoBin == [n |-> 0, v |-> 0, at |-> 0]

Init ==                              \* globalmem_init has cleared the struct
  /\ sem = 0 /\ queue = << >> /\ inited = FALSE
  /\ mem = [c \in Cells |-> 0] /\ cnt = 0 /\ data = 0
  /\ driver = "unbound" /\ cdev = FALSE /\ binds = 0
  /\ pc = [p \in Procs |-> "closed"] /\ op = [p \in Procs |-> NoOp]
  /\ pos = [p \in Procs |-> 0] /\ at = [p \in Procs |-> 0]
  /\ got = [p \in Procs |-> << >>]
  /\ bin = NoBin
  /\ leaked = 0 /\ torn = {}

Inside == {p \in Procs : pc[p] \in {"count", "copy"}}
Counts(p) == op[p].kind \in {"open", "release"}
Body(p)   == IF Counts(p) THEN "count" ELSE "copy"

(***************************************************************************)
(* Calls.  A read or write at the end of the device, a seek and the        *)
(* demo_data attribute do not come to the semaphore.  The length is cut to *)
(* what is left behind the offset, before the semaphore is taken.          *)
(***************************************************************************)
Call(p, kind, n, v) ==
  /\ op' = [op EXCEPT ![p] = [kind |-> kind, n |-> n, v |-> v]]
  /\ pc' = [pc EXCEPT ![p] = "down"]
  /\ at' = [at EXCEPT ![p] = IF kind \in {"read", "write"} THEN pos[p] ELSE 0]
  /\ UNCHANGED <<lock, fields, bus, pos, got, bin, ghosts>>

Open(p)    == pc[p] = "closed" /\ cdev /\ Call(p, "open", 0, 0)
Release(p) == pc[p] = "idle" /\ Call(p, "release", 0, 0)
ClearUnlocked(p) ==                                   \* mutant: memset without down
  /\ pc[p] = "idle" /\ p \in Writers
  /\ mem' = [c \in Cells |-> 0]
  /\ UNCHANGED <<lock, cnt, data, bus, local, bin, ghosts>>
Clear(p)   == pc[p] = "idle" /\ p \in Writers /\ Call(p, "clear", Size, 0)
Read(p) ==
  /\ pc[p] = "idle" /\ p \in Readers /\ pos[p] < Size
  /\ \E count \in 0 .. Size : Call(p, "read", Lesser(count, Size - pos[p]), 0)
Write(p) ==
  /\ pc[p] = "idle" /\ p \in Writers /\ pos[p] < Size
  /\ \E count \in 0 .. Size, v \in Value : Call(p, "write", Lesser(count, Size - pos[p]), v)
Seek(p) ==
  /\ pc[p] = "idle"
  /\ \E o \in 0 .. Size : pos' = [pos EXCEPT ![p] = o]
  /\ UNCHANGED <<lock, fields, bus, pc, op, at, got, bin, ghosts>>

(***************************************************************************)
(* The semaphore.  down_interruptible takes it or queues; up hands it to   *)
(* the first in the queue.  Before the first sema_init its list head is    *)
(* zero, and queueing on it is an oops.                                    *)
(***************************************************************************)
Take(p) ==
  /\ pc[p] = "down" /\ sem > 0
  /\ sem' = sem - 1
  /\ pc' = [pc EXCEPT ![p] = Body(p)]
  /\ UNCHANGED <<queue, inited, fields, bus, op, pos, at, got, bin, ghosts>>

Enqueue(p) ==
  /\ pc[p] = "down" /\ sem = 0 /\ inited
  /\ queue' = Append(queue, p)
  /\ pc' = [pc EXCEPT ![p] = "wait"]
  /\ UNCHANGED <<sem, inited, fields, bus, op, pos, at, got, bin, ghosts>>

Oops(p) ==
  /\ pc[p] = "down" /\ ~inited
  /\ driver' = "undefined"
  /\ UNCHANGED <<lock, fields, cdev, binds, local, bin, ghosts>>

Up ==
  IF queue = << >> THEN sem' = sem + 1 /\ queue' = queue
                   ELSE sem' = sem /\ queue' = Tail(queue)
AfterUp(p, label) ==                 \* p goes on at label, the first in the queue enters
  pc' = [q \in Procs |-> IF q = p THEN label
                         ELSE IF queue # << >> /\ q = Head(queue) THEN Body(q) ELSE pc[q]]
Leave(p, label) ==
  /\ Up /\ AfterUp(p, label)
  /\ op' = [op EXCEPT ![p] = NoOp] /\ at' = [at EXCEPT ![p] = 0]
  /\ got' = [got EXCEPT ![p] = << >>]
  /\ torn' = torn \ {p}

InterruptedEnters(p) ==                               \* mutant: result of down ignored
  /\ pc[p] = "wait"
  /\ \E k \in DOMAIN queue : queue[k] = p /\ queue' = RemoveAt(queue, k)
  /\ pc' = [pc EXCEPT ![p] = Body(p)]
  /\ UNCHANGED <<sem, inited, fields, bus, op, pos, at, got, bin, ghosts>>
(* A signal while waiting: -ERESTARTSYS.  An open has then not happened,   *)
(* and a release is not called again although nothing has been counted.    *)
Interrupted(p) ==
  /\ pc[p] = "wait"
  /\ op[p].kind = "release" => leaked < MaxLeaks
  /\ \E k \in DOMAIN queue : queue[k] = p /\ queue' = RemoveAt(queue, k)
  /\ pc' = [pc EXCEPT ![p] = IF Counts(p) THEN "closed" ELSE "idle"]
  /\ leaked' = IF op[p].kind = "release" THEN leaked + 1 ELSE leaked
  /\ op' = [op EXCEPT ![p] = NoOp] /\ at' = [at EXCEPT ![p] = 0]
  /\ pos' = [pos EXCEPT ![p] = IF Counts(p) THEN 0 ELSE @]
  /\ UNCHANGED <<sem, inited, fields, bus, got, bin, torn>>

(***************************************************************************)
(* Inside.                                                                 *)
(***************************************************************************)
CountNeverDown(p) ==                                  \* mutant: release does not count
  /\ pc[p] = "count"
  /\ cnt' = IF op[p].kind = "open" THEN cnt + 1 ELSE cnt
  /\ pos' = [pos EXCEPT ![p] = 0]
  /\ Leave(p, IF op[p].kind = "open" THEN "idle" ELSE "closed")
  /\ UNCHANGED <<inited, mem, data, bus, bin, leaked>>
Count(p) ==                          \* cnt++ or cnt--, and up
  /\ pc[p] = "count"
  /\ cnt' = IF op[p].kind = "open" THEN cnt + 1 ELSE cnt - 1
  /\ pos' = [pos EXCEPT ![p] = 0]
  /\ Leave(p, IF op[p].kind = "open" THEN "idle" ELSE "closed")
  /\ UNCHANGED <<inited, mem, data, bus, bin, leaked>>

First(p) == IF op[p].kind = "clear" THEN 0 ELSE pos[p]
Copying(p) == pc[p] = "copy" /\ at[p] < First(p) + op[p].n

Copy(p) ==                           \* one cell of the copy or the memset
  /\ Copying(p)
  /\ IF op[p].kind = "read"
     THEN got' = [got EXCEPT ![p] = Append(@, mem[at[p]])] /\ mem' = mem
     ELSE mem' = [mem EXCEPT ![at[p]] = op[p].v] /\ got' = got
  /\ at' = [at EXCEPT ![p] = @ + 1]
  /\ UNCHANGED <<lock, cnt, data, bus, pc, op, pos, bin, ghosts>>

Copied(p) ==
  /\ pc[p] = "copy" /\ ~Copying(p)
  /\ pos' = [pos EXCEPT ![p] = IF op[p].kind = "clear" THEN @ ELSE @ + op[p].n]
  /\ Leave(p, "idle")
  /\ UNCHANGED <<inited, fields, bus, bin, leaked>>

FaultKeepsSem(p) ==                                   \* mutant: return without up
  /\ Copying(p) /\ op[p].kind # "clear"
  /\ pc' = [pc EXCEPT ![p] = "idle"] /\ op' = [op EXCEPT ![p] = NoOp]
  /\ at' = [at EXCEPT ![p] = 0] /\ got' = [got EXCEPT ![p] = << >>]
  /\ torn' = torn \ {p}
  /\ UNCHANGED <<lock, fields, bus, pos, bin, leaked>>
Fault(p) ==                          \* -EFAULT, possibly half way
  /\ Copying(p) /\ op[p].kind # "clear"
  /\ Leave(p, "idle")
  /\ UNCHANGED <<inited, fields, bus, pos, bin, leaked>>

(***************************************************************************)
(* sysfs.  The binary attribute writes to the beginning of the memory,     *)
(* whatever the offset, and takes no semaphore.                            *)
(***************************************************************************)
Attributes == driver \in {"sysfs", "bound"}

BinWrite ==
  /\ Attributes /\ bin = NoBin
  /\ \E off \in Cells, count \in 1 .. Size, v \in Value :
       bin' = [n |-> Lesser(count, Size - off), v |-> v, at |-> 0]
  /\ UNCHANGED <<lock, fields, bus, local, ghosts>>

BinCopy ==
  /\ bin.at < bin.n
  /\ mem' = [mem EXCEPT ![bin.at] = bin.v]
  /\ bin' = IF bin.at + 1 = bin.n THEN NoBin ELSE [bin EXCEPT !.at = @ + 1]
  /\ torn' = torn \cup {p \in Inside : op[p].kind = "read"}
  /\ UNCHANGED <<lock, cnt, data, bus, local, leaked>>

DemoStore ==
  /\ Attributes
  /\ data' \in Value
  /\ UNCHANGED <<lock, mem, cnt, bus, local, bin, ghosts>>

(***************************************************************************)
(* Probe and remove.  cdev_add may fail and is then passed over.           *)
(***************************************************************************)
Publish ==
  /\ driver = "unbound" /\ binds < MaxBinds
  /\ driver' = "published" /\ cdev' \in BOOLEAN /\ binds' = binds + 1
  /\ UNCHANGED <<lock, fields, local, bin, ghosts>>

RequestIrq ==
  /\ driver = "published"
  /\ \/ driver' = "sysfs" /\ cdev' = cdev
     \/ driver' = "unbound" /\ cdev' = FALSE
  /\ UNCHANGED <<lock, fields, binds, local, bin, ghosts>>

(* sema_init sets the count and empties the list, whoever is inside or     *)
(* queued.                                                                 *)
SemaInit ==
  /\ driver = "sysfs"
  /\ driver' = IF Inside = {} /\ queue = << >> THEN "bound" ELSE "undefined"
  /\ sem' = 1 /\ queue' = << >> /\ inited' = TRUE
  /\ UNCHANGED <<fields, cdev, binds, local, bin, ghosts>>

DrvRemove ==                         \* sysfs waits for the write under way
  /\ driver = "bound" /\ bin = NoBin
  /\ driver' = "unbound" /\ cdev' = FALSE
  /\ UNCHANGED <<lock, fields, binds, local, bin, ghosts>>

Works(p) ==                          \* the steps of a call that has begun
  \/ Take(p) \/ Enqueue(p) \/ Oops(p)
  \/ Count(p) \/ Copy(p) \/ Copied(p) \/ Fault(p)

Next ==
  /\ driver # "undefined"
  /\ \/ \E p \in Procs :
          \/ Open(p) \/ Release(p) \/ Clear(p) \/ Read(p) \/ Write(p) \/ Seek(p)
          \/ Works(p)
          \/ Interrupted(p)
     \/ BinWrite \/ BinCopy \/ DemoStore
     \/ Publish \/ RequestIrq \/ SemaInit \/ DrvRemove

(* The scheduler runs every process that can run, and a probe goes on.     *)
Fairness ==
  /\ \A p \in Procs : WF_vars(driver # "undefined" /\ Works(p))
  /\ WF_vars(driver # "undefined" /\ (RequestIrq \/ SemaInit))
Spec == Init /\ [][Next]_vars
FairSpec == Spec /\ Fairness

(***************************************************************************)
(* Properties.                                                             *)
(***************************************************************************)
(* Types.                                                                  *)
TypeOK ==
  /\ sem \in Nat /\ queue \in Seq(Procs) /\ inited \in BOOLEAN
  /\ mem \in [Cells -> Value] /\ cnt \in Int /\ data \in Value
  /\ driver \in {"unbound", "published", "sysfs", "bound", "undefined"}
  /\ cdev \in BOOLEAN /\ binds \in 0 .. MaxBinds
  /\ pc \in [Procs -> {"closed", "idle", "down", "wait", "count", "copy"}]
  /\ op \in [Procs -> [kind : {"none", "open", "release", "clear", "read", "write"},
                       n : 0 .. Size, v : Value]]
  /\ pos \in [Procs -> 0 .. Size] /\ at \in [Procs -> 0 .. Size]
  /\ got \in [Procs -> Seq(Value)]
  /\ bin \in [n : 0 .. Size, v : Value, at : 0 .. Size]
  /\ leaked \in 0 .. MaxLeaks /\ torn \subseteq Procs

(* Until the semaphore is initialised in use or used uninitialised: one    *)
(* process is inside or the count is one, through every error, signal,     *)
(* unbind and probe, and nobody queues on a free semaphore.                *)
SemCountsHolder ==
  inited /\ driver # "undefined" =>
    /\ sem + Cardinality(Inside) = 1
    /\ queue # << >> => sem = 0

(* The counter is the number of open files and of the releases that a      *)
(* signal cut short.                                                       *)
IsOpen(p) == pc[p] = "idle" \/ op[p].kind \in {"release", "clear", "read", "write"}
CountsOpeners == cnt = Cardinality({p \in Procs : IsOpen(p)}) + leaked

(* What a read has copied so far is the memory as it is, all of it from    *)
(* one moment, unless a sysfs write fell in between.                       *)
ReadsWhole ==
  \A p \in Procs \ torn : pc[p] = "copy" /\ op[p].kind = "read" =>
    \A k \in DOMAIN got[p] : got[p][k] = mem[pos[p] + k - 1]

(* A process that waits for the semaphore gets it, or gives up on a        *)
(* signal, whatever becomes of the driver, if nothing undefined happens.   *)
WaiterServed == \A p \in Procs : pc[p] = "wait" ~> pc[p] # "wait" \/ driver = "undefined"
=============================================================================
