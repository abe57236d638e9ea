----------------------------- MODULE ProcTable ------------------------------
(***************************************************************************)
(* The process monitor (top_ext.c): rounds that list /proc into a table of *)
(* records, compare it with the table of the round before and recycle the  *)
(* records of that one, while processes and threads come, run and go.      *)
(*                                                                         *)
(* The program has one thread; its steps are the accesses to /proc, and    *)
(* what it does between two of them is part of the step.  Of the fields    *)
(* that are read, a record keeps the processor time.                       *)
(***************************************************************************)
EXTENDS Integers, Sequences, FiniteSets

CONSTANTS Tids, PidOf,      \* task ids; the process that each belongs to
          InitProcs,        \* first size of a table
          Options,          \* -t; -p, none for all; -m, 0 for no limit
          Iterations,       \* -n, -1 for no limit
          ULong,             \* unsigned long counts modulo this
          Garbage,          \* what memory that nobody wrote may hold
          Null,
          MaxLife, MaxTime, MaxEvents   \* bounds of what the kernel does

ASSUME ProcTableAssumption ==
  /\ IsFiniteSet(Tids)
  /\ PidOf \in [Tids -> Tids] /\ \A t \in Tids : PidOf[PidOf[t]] = PidOf[t]
  /\ InitProcs \in Nat \ {0}
  /\ Iterations \in Nat \cup {-1}
  /\ Options \subseteq [threads : BOOLEAN, def_pids : SUBSET Tids, max_procs : Nat]
  /\ ULong \in Nat \ {0} /\ Garbage \subseteq 0 .. ULong - 1
  /\ MaxLife \in Nat \ {0} /\ MaxTime \in 0 .. ULong - 1 /\ MaxEvents \in Nat
  /\ Null \notin Nat

VARIABLES kernel,                   \* the tasks: alive, which life, time used
          options,
          rec,                      \* proc_info: what malloc has given so far
          new_procs, old_procs, proc_num,
          free_procs, num_used_procs, num_free_procs,
          step, first, iterations,  \* first: before the loop of main
          pids, tids, pid, proc,    \* the locals of read_procs
          events, alive, this, last, lost, peak     \* history, see below

monitor == <<options, rec, new_procs, old_procs, proc_num, free_procs,
             num_used_procs, num_free_procs, step, first, iterations,
             pids, tids, pid, proc>>
history == <<events, alive, this, last, lost, peak>>
procVars == <<kernel, monitor, history>>

Pids   == {PidOf[t] : t \in Tids}
Times  == 0 .. ULong - 1
Tasks  == [alive : BOOLEAN, life : 0 .. MaxLife, time : 0 .. MaxTime]
Unseen == [life |-> 0, time |-> 0]
Records == 1 .. Len(rec)

(* History.  alive: the tasks there since read_procs began; this, last:    *)
(* what read_stat found of each task in this round and the round before;   *)
(* lost: records that no list holds any more; peak: most records in use.   *)
ProcInit ==
  /\ kernel \in [Tids -> {[alive |-> a, life |-> 1, time |-> 0] : a \in BOOLEAN}]
  /\ \A t \in Tids : kernel[t].alive => kernel[PidOf[t]].alive
  /\ options \in Options
  /\ rec = << >> /\ new_procs = << >> /\ old_procs = << >> /\ proc_num = 0
  /\ free_procs = << >> /\ num_used_procs = 0 /\ num_free_procs = 0
  /\ step = "open" /\ first = TRUE /\ iterations = Iterations
  /\ pids = {} /\ tids = {} /\ pid = Null /\ proc = Null
  /\ events = 0 /\ alive = {} /\ lost = {} /\ peak = 0
  /\ this = [t \in Tids |-> Unseen] /\ last = [t \in Tids |-> Unseen]

(***************************************************************************)
(* The kernel: a task runs, exits (the first one with all of its process), *)
(* or its id is given to a new one.                                        *)
(***************************************************************************)
Event == events < MaxEvents /\ events' = events + 1

Run(t) ==
  /\ Event /\ kernel[t].alive /\ kernel[t].time < MaxTime
  /\ kernel' = [kernel EXCEPT ![t].time = @ + 1]
  /\ UNCHANGED <<monitor, alive, this, last, lost, peak>>

Leaving(t) == IF t = PidOf[t] THEN {u \in Tids : PidOf[u] = t} ELSE {t}
Exit(t) ==
  /\ Event /\ kernel[t].alive
  /\ kernel' = [u \in Tids |-> [kernel[u] EXCEPT !.alive = @ /\ u \notin Leaving(t)]]
  /\ alive' = alive \ Leaving(t)
  /\ UNCHANGED <<monitor, this, last, lost, peak>>

Create(t) ==
  /\ Event /\ ~kernel[t].alive /\ kernel[t].life < MaxLife
  /\ t = PidOf[t] \/ kernel[PidOf[t]].alive
  /\ kernel' = [kernel EXCEPT ![t] = [alive |-> TRUE, life |-> @.life + 1, time |-> 0]]
  /\ UNCHANGED <<monitor, alive, this, last, lost, peak>>

(***************************************************************************)
(* Records.                                                                *)
(***************************************************************************)
(* What a record from malloc holds is not initialized; one from the free   *)
(* list holds what its last user left.                                     *)
Larger(m, n) == IF m > n THEN m ELSE n
AllocProc(t) ==
  /\ IF free_procs # << >>
     THEN /\ proc' = Head(free_procs)
          /\ rec' = [rec EXCEPT ![Head(free_procs)].tid = t]
          /\ free_procs' = Tail(free_procs)
          /\ num_free_procs' = num_free_procs - 1
     ELSE /\ \E v \in Garbage : rec' = Append(rec, [tid |-> t, time |-> v])
          /\ proc' = Len(rec) + 1
          /\ UNCHANGED <<free_procs, num_free_procs>>
  /\ num_used_procs' = num_used_procs + 1
  /\ peak' = Larger(peak, num_used_procs + 1)

(* The table is doubled when it is full.                                   *)
Nulls(n) == [i \in 1 .. n |-> Null]
AddProcLate(r) ==                             \* mutant: > for >=
  LET table == IF proc_num > Len(new_procs)
               THEN new_procs \o Nulls(Len(new_procs)) ELSE new_procs
  IN  /\ new_procs' = [table EXCEPT ![proc_num + 1] = r]
      /\ proc_num' = proc_num + 1
AddProc(r) ==
  LET table == IF proc_num >= Len(new_procs)
               THEN new_procs \o Nulls(Len(new_procs)) ELSE new_procs
  IN  /\ new_procs' = [table EXCEPT ![proc_num + 1] = r]
      /\ proc_num' = proc_num + 1

(***************************************************************************)
(* read_procs.  The ids that readdir returns are those of tasks alive when *)
(* the directory was read, in any order; a task may be gone when its files *)
(* are opened, or be another one by then.                                  *)
(***************************************************************************)
Wanted(p) == options.def_pids = {} \/ p \in options.def_pids

OpenProc ==
  /\ step = "open"
  /\ new_procs' = Nulls(InitProcs) /\ proc_num' = 0
  /\ pids' = {p \in Pids : kernel[p].alive}
  /\ alive' = {t \in Tids : kernel[t].alive}
  /\ last' = this /\ this' = [t \in Tids |-> Unseen]
  /\ step' = "pids"
  /\ UNCHANGED <<kernel, options, rec, old_procs, free_procs, num_used_procs,
                 num_free_procs, first, iterations, tids, pid, proc, events, lost, peak>>

NextPid ==
  /\ step = "pids"
  /\ \E p \in pids :
       /\ pids' = pids \ {p}
       /\ IF ~Wanted(p)
          THEN UNCHANGED <<step, pid, rec, proc, free_procs, num_free_procs, num_used_procs, peak>>
          ELSE /\ pid' = p
               /\ IF options.threads
                  THEN /\ step' = "opentask"
                       /\ UNCHANGED <<rec, proc, free_procs, num_free_procs, num_used_procs, peak>>
                  ELSE step' = "stat" /\ AllocProc(p)
  /\ UNCHANGED <<kernel, options, new_procs, old_procs, proc_num, first, iterations, tids,
                 events, alive, this, last, lost>>

(* read_stat leaves the record as it is when the task is gone; when it has *)
(* gone since the file was opened, nothing is read (fgets is not tested)   *)
(* and what the buffer on the stack held is parsed.  The result is ignored. *)
ReadStat ==
  /\ step = "stat"
  /\ LET t == rec[proc].tid
     IN  IF kernel[t].alive
         THEN /\ rec' = [rec EXCEPT ![proc].time = kernel[t].time]
              /\ this' = [this EXCEPT ![t] = [life |-> kernel[t].life, time |-> kernel[t].time]]
         ELSE /\ \E v \in Garbage \cup {rec[proc].time} : rec' = [rec EXCEPT ![proc].time = v]
              /\ this' = this
  /\ IF options.threads
     THEN AddProc(proc) /\ proc' = Null /\ step' = "tids"
     ELSE UNCHANGED <<new_procs, proc_num, proc>> /\ step' = "opentask"
  /\ UNCHANGED <<kernel, options, old_procs, free_procs, num_used_procs, num_free_procs,
                 first, iterations, pids, tids, pid, events, alive, last, lost, peak>>

(* Without a task directory, the record of the process is dropped.         *)
OpenTask ==
  /\ step = "opentask"
  /\ IF ~kernel[pid].alive
     THEN /\ step' = "pids" /\ proc' = Null
          /\ lost' = lost \cup ({proc} \ {Null})
          /\ UNCHANGED <<tids, new_procs, proc_num>>
     ELSE IF options.threads
     THEN /\ step' = "tids"
          /\ tids' = {t \in Tids : PidOf[t] = pid /\ kernel[t].alive}
          /\ UNCHANGED <<proc, lost, new_procs, proc_num>>
     ELSE /\ AddProc(proc) /\ proc' = Null /\ step' = "pids"
          /\ UNCHANGED <<tids, lost>>
  /\ UNCHANGED <<kernel, options, rec, old_procs, free_procs, num_used_procs, num_free_procs,
                 first, iterations, pids, pid, events, alive, this, last, peak>>

NextTid ==
  /\ step = "tids" /\ tids # {}
  /\ \E t \in tids : tids' = tids \ {t} /\ AllocProc(t)
  /\ step' = "stat"
  /\ UNCHANGED <<kernel, options, new_procs, old_procs, proc_num, first, iterations, pids, pid,
                 events, alive, this, last, lost>>

CloseTask ==
  /\ step = "tids" /\ tids = {}
  /\ step' = "pids"
  /\ UNCHANGED <<kernel, options, rec, new_procs, old_procs, proc_num, free_procs, num_used_procs,
                 num_free_procs, first, iterations, pids, tids, pid, proc, history>>

CloseProc ==
  /\ step = "pids" /\ pids = {}
  /\ step' = IF first THEN "loop" ELSE "print"
  /\ pid' = Null
  /\ UNCHANGED <<kernel, options, rec, new_procs, old_procs, proc_num, free_procs, num_used_procs,
                 num_free_procs, first, iterations, pids, tids, proc, history>>

(***************************************************************************)
(* print_procs: the differences, unsigned; then sort and show.  The sort   *)
(* is by processor time, the default.                                      *)
(***************************************************************************)
Entries(table) == {table[i] : i \in DOMAIN table} \ {Null}
OldOf(t) == {r \in Entries(old_procs) : rec[r].tid = t}
Delta(r) ==
  IF OldOf(rec[r].tid) = {} THEN 0
  ELSE (rec[r].time - rec[CHOOSE o \in OldOf(rec[r].tid) : TRUE].time) % ULong

(* proc_cpu_cmp: a may stand before b.  The differences are compared as    *)
(* long long, which is no wider than long on 64 bits.                      *)
Signed(d) == IF 2 * d >= ULong THEN d - ULong ELSE d
MayPrecedeNullsFirst(a, b) ==                 \* mutant: no record, no time
  a = Null \/ (b # Null /\ Signed(Delta(a)) >= Signed(Delta(b)))
MayPrecede(a, b) ==
  b = Null \/ (a # Null /\ Signed(Delta(a)) >= Signed(Delta(b)))

(* qsort: some order that the comparison allows.                           *)
Orders(table) ==
  {f \in [DOMAIN table -> DOMAIN table] :
     /\ \A i, j \in DOMAIN table : i # j => f[i] # f[j]
     /\ \A i, j \in DOMAIN table : i < j => MayPrecede(table[f[i]], table[f[j]])}

PrintProcs ==
  /\ step = "print"
  /\ \E f \in Orders(new_procs) :
       new_procs' = [i \in DOMAIN new_procs |-> new_procs[f[i]]]
  /\ step' = "free"
  /\ UNCHANGED <<kernel, options, rec, old_procs, proc_num, free_procs, num_used_procs,
                 num_free_procs, first, iterations, pids, tids, pid, proc, history>>

(* What the loop shows: it ends at the first entry without a record.       *)
Shown == {new_procs[i] : i \in {j \in DOMAIN new_procs :
            /\ \A k \in 1 .. j : new_procs[k] # Null
            /\ options.max_procs = 0 \/ j <= options.max_procs}}

(***************************************************************************)
(* free_old_procs, an entry a step; and the loop of main.  old_procs is    *)
(* the rest of the table, new_procs is empty where it is the same array.   *)
(***************************************************************************)
FreeProc ==
  /\ step = "free" /\ old_procs # << >>
  /\ old_procs' = Tail(old_procs)
  /\ IF Head(old_procs) = Null
     THEN UNCHANGED <<free_procs, num_used_procs, num_free_procs>>
     ELSE /\ free_procs' = <<Head(old_procs)>> \o free_procs
          /\ num_used_procs' = num_used_procs - 1
          /\ num_free_procs' = num_free_procs + 1
  /\ UNCHANGED <<kernel, options, rec, new_procs, proc_num, step, first, iterations, pids, tids, pid, proc, history>>

FreedAll ==
  /\ step = "free" /\ old_procs = << >>
  /\ step' = "loop"
  /\ UNCHANGED <<kernel, options, rec, new_procs, old_procs, proc_num, free_procs, num_used_procs,
                 num_free_procs, first, iterations, pids, tids, pid, proc, history>>

Continues == iterations = -1 \/ iterations > 0
SwapFrees ==                                  \* mutant: free_old_procs before the round
  /\ step = "loop" /\ Continues
  /\ old_procs' = new_procs /\ new_procs' = << >>
  /\ LET held == SelectSeq(new_procs, LAMBDA r : r # Null)
     IN  /\ free_procs' = held \o free_procs
         /\ num_used_procs' = num_used_procs - Len(held)
         /\ num_free_procs' = num_free_procs + Len(held)
  /\ iterations' = IF iterations = -1 THEN -1 ELSE iterations - 1
  /\ first' = FALSE /\ step' = "open"
  /\ UNCHANGED <<kernel, options, rec, proc_num, pids, tids, pid, proc, history>>
Swap ==
  /\ step = "loop" /\ Continues
  /\ old_procs' = new_procs /\ new_procs' = << >>
  /\ iterations' = IF iterations = -1 THEN -1 ELSE iterations - 1
  /\ first' = FALSE /\ step' = "open"
  /\ UNCHANGED <<kernel, options, rec, proc_num, free_procs, num_used_procs, num_free_procs,
                 pids, tids, pid, proc, history>>

MainReturns ==
  /\ step = "loop" /\ ~Continues
  /\ step' = "done"
  /\ UNCHANGED <<kernel, options, rec, new_procs, old_procs, proc_num, free_procs, num_used_procs,
                 num_free_procs, first, iterations, pids, tids, pid, proc, history>>

ProcNext ==
  \/ OpenProc \/ NextPid \/ ReadStat \/ OpenTask \/ NextTid \/ CloseTask \/ CloseProc
  \/ PrintProcs \/ FreeProc \/ FreedAll \/ Swap \/ MainReturns
  \/ \E t \in Tids : Run(t) \/ Exit(t) \/ Create(t)

ProcSpec == ProcInit /\ [][ProcNext]_procVars

(***************************************************************************)
(* Properties.                                                             *)
(***************************************************************************)
(* Types.                                                                  *)
ProcTypeOK ==
  /\ kernel \in [Tids -> Tasks]
  /\ options \in Options
  /\ rec \in Seq([tid : Tids, time : Times])
  /\ new_procs \in Seq(Records \cup {Null}) /\ old_procs \in Seq(Records \cup {Null})
  /\ free_procs \in Seq(Records)
  /\ {proc_num, num_used_procs, num_free_procs, peak, events} \subseteq Nat
  /\ step \in {"open", "pids", "stat", "opentask", "tids", "print", "free", "loop", "done"}
  /\ first \in BOOLEAN /\ iterations \in Nat \cup {-1}
  /\ pids \subseteq Pids /\ tids \subseteq Tids
  /\ pid \in Pids \cup {Null} /\ proc \in Records \cup {Null}
  /\ alive \subseteq Tids /\ lost \subseteq Records
  /\ {this, last} \subseteq [Tids -> [life : 0 .. MaxLife, time : 0 .. MaxTime]]

(* Every record is in one place: in the free list, in one of the tables,   *)
(* in the hands of read_procs, or lost to a process that went away under   *)
(* it, which happens without -t only; the two counters count them, and no  *)
(* more are made than were in use at one time.                             *)
Places == <<{free_procs[i] : i \in DOMAIN free_procs},
            Entries(new_procs), Entries(old_procs), {proc} \ {Null}, lost>>
Once(table) == \A i, j \in DOMAIN table : table[i] = table[j] /\ table[i] # Null => i = j
RecordsAccounted ==
  /\ ProcTypeOK
  /\ Records = UNION {Places[i] : i \in 1 .. 5}
  /\ \A i, j \in 1 .. 5 : i # j => Places[i] \cap Places[j] = {}
  /\ Once(free_procs) /\ Once(new_procs) /\ Once(old_procs)
  /\ options.threads => lost = {}
  /\ num_free_procs = Len(free_procs)
  /\ num_used_procs = Cardinality(Entries(new_procs)) + Cardinality(Entries(old_procs))
                      + Cardinality({proc} \ {Null}) + Cardinality(lost)
  /\ Len(rec) = peak

(* The time shown for a task whose stat was read in this round and, in the *)
(* same life, in the round before is what it has used in between.          *)
DeltaIsOwn ==
  step = "print" => \A r \in Entries(new_procs) :
    LET t == rec[r].tid
    IN  this[t].life # 0 /\ last[t].life = this[t].life =>
          Delta(r) = this[t].time - last[t].time

(* A process, or with -t a thread, that was there during the whole round   *)
(* is shown, and once, unless there is a limit (-m) and as many are shown  *)
(* as it allows; whatever came and went meanwhile.                         *)
LongLivedShown ==
  step = "free" => \A t \in alive :
    Wanted(PidOf[t]) /\ (options.threads \/ t = PidOf[t]) =>
      \/ Cardinality({r \in Shown : rec[r].tid = t}) = 1
      \/ options.max_procs # 0 /\ Cardinality(Shown) = options.max_procs
=============================================================================
