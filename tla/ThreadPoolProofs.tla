-------------------------- MODULE ThreadPoolProofs --------------------------
(***************************************************************************)
(* Theorems about ThreadPool for any number of threads and tasks, with or  *)
(* without pool_destroy.  Inv is inductive: who is inside the critical     *)
(* section (LockInv), what a worker there has learnt about the list        *)
(* (KnowsInv), and how far pool_destroy has got (JoinInv).  That every     *)
(* task is in one place is proved on top of it, by counting.               *)
(***************************************************************************)
EXTENDS ThreadPool, FiniteSetTheorems, SequenceTheorems, TLAPS

Inside == {"test", "wait", "decide", "take"}

LockInv ==
  /\ \A w \in Workers : pc[w] \in Inside <=> lock = w
  /\ main = "append" <=> lock = Main
  /\ \A w \in waiting : pc[w] = "asleep"

KnowsInv ==
  \A w \in Workers :
    /\ pc[w] = "wait" => count = 0
    /\ pc[w] = "decide" => count # 0 \/ shutdown
    /\ pc[w] = "take" => count # 0

JoinInv ==
  /\ freed <=> main = "done"
  /\ main = "create" => \A w \in Workers : w >= i => pc[w] = "unborn"
  /\ main = "append" => i \in Tasks
  /\ main = "join" => \A w \in Workers : w < i => pc[w] = "exited"
  /\ main \in {"free", "done"} => \A w \in Workers : pc[w] = "exited"

Inv == TypeOK /\ LockInv /\ KnowsInv /\ JoinInv /\ CountMatchesQueue /\ NotAllAsleep

(* Init: no task, and nobody in the critical section.                      *)
LEMMA InvInit == Init => Inv
<1> SUFFICES ASSUME Init PROVE Inv
  OBVIOUS
<1>1. << >> \in Seq(Tasks) /\ Len(<< >>) = 0
  OBVIOUS
<1>2. CountMatchesQueue
  BY <1>1 DEF Init, CountMatchesQueue
<1>2a. TypeOK
  <2>1. pc \in [Workers -> Labels] /\ job \in [Workers -> Tasks \cup {NoTask}] /\ ran \in [Tasks -> Nat]
    BY DEF Init, Labels
  <2>2. shutdown \in BOOLEAN /\ freed \in BOOLEAN
    BY DEF Init
  <2>3. lock \in Workers \cup {Main, Nobody} /\ waiting \subseteq Workers /\ count \in Nat
        /\ main = "create" /\ i \in Nat \ {0} /\ queue \in Seq(Tasks)
    BY <1>1 DEF Init
  <2> QED BY <2>1, <2>2, <2>3 DEF TypeOK
<1>3. LockInv
  BY PoolAssumption DEF Init, LockInv, Workers, Main, Nobody, Inside
<1>4. KnowsInv /\ JoinInv
  BY DEF Init, KnowsInv, JoinInv
<1> QED BY <1>2, <1>2a, <1>3, <1>4 DEF Init, Inv, NotAllAsleep

(* The steps of pool_init, pool_add_worker and pool_destroy keep Inv.      *)
LEMMA MainKeepsInv == Inv /\ (MainStep \/ SetShutdown) => Inv'
<1> SUFFICES ASSUME Inv, MainStep \/ SetShutdown PROVE Inv'
  OBVIOUS
<1> USE PoolAssumption DEF Workers, Main, Nobody
<1>1. CASE Create
  <2>1. TypeOK'
    BY <1>1 DEF Create, Inv, TypeOK, Goto, pool, Labels
  <2>2. LockInv' /\ KnowsInv'
    <3>1. CASE i <= MaxThreadNum
      <4>1. i \in Workers /\ main' = main /\ Goto(i, "lock")
        BY <1>1, <3>1 DEF Create, Inv, TypeOK
      <4>2. pc[i] = "unborn"
        BY <1>1, <4>1, PoolAssumption DEF Create, Inv, JoinInv, TypeOK
      <4> QED BY <1>1, <4>1, <4>2 DEF Create, Inv, TypeOK, LockInv, KnowsInv, Goto, pool, Inside
    <3>2. CASE ~(i <= MaxThreadNum)
      BY <1>1, <3>2 DEF Create, Inv, LockInv, KnowsInv, pool
    <3> QED BY <3>1, <3>2
  <2>3. JoinInv'
    BY <1>1 DEF Create, Inv, TypeOK, JoinInv, Goto, pool
  <2> QED BY <1>1, <2>1, <2>2, <2>3 DEF Create, Inv, CountMatchesQueue, NotAllAsleep, pool
<1>2. CASE AddLock
  <2>1. TypeOK' /\ CountMatchesQueue' /\ NotAllAsleep'
    BY <1>2 DEF AddLock, Inv, TypeOK, CountMatchesQueue, NotAllAsleep, pool
  <2>2. LockInv' /\ KnowsInv'
    BY <1>2 DEF AddLock, Inv, LockInv, KnowsInv, pool, Inside
  <2>3. JoinInv'
    BY <1>2 DEF AddLock, Inv, TypeOK, JoinInv, pool, Tasks
  <2> QED BY <2>1, <2>2, <2>3 DEF Inv
<1>3. CASE Add
  <2>1. i \in Tasks /\ lock = Main /\ ~freed /\ lock' = Nobody
    BY <1>3 DEF Add, Inv, JoinInv, LockInv
  <2>2. waiting' \subseteq waiting /\ (MaxThreadNum > 0 => waiting' # Workers)
    <3>1. CASE waiting = {} /\ waiting' = {}
      <4>1. MaxThreadNum > 0 => 1 \in Workers
        OBVIOUS
      <4> QED BY <3>1, <4>1
    <3>2. CASE \E w \in waiting : waiting' = waiting \ {w}
      BY <3>2 DEF Inv, TypeOK
    <3> QED BY <1>3, <3>1, <3>2 DEF Add, Signal
  <2>3. queue' \in Seq(Tasks) /\ Len(queue') = Len(queue) + 1
    BY <1>3, <2>1 DEF Add, Inv, TypeOK
  <2>4a. count = Len(queue) /\ count \in Nat /\ i \in Nat \ {0}
    BY <2>1 DEF Inv, TypeOK, CountMatchesQueue
  <2>4b. CountMatchesQueue'
    BY <1>3, <2>3, <2>4a DEF Add, CountMatchesQueue
  <2>4c. TypeOK'
    BY <1>3, <2>2, <2>3, <2>4a DEF Add, Inv, TypeOK
  <2>5. \A w \in Workers : pc[w] \notin Inside
    BY <2>1 DEF Inv, LockInv
  <2>6. LockInv' /\ KnowsInv'
    BY <1>3, <2>1, <2>2, <2>5 DEF Add, Inv, LockInv, KnowsInv, Inside
  <2> QED BY <1>3, <2>2, <2>4b, <2>4c, <2>6 DEF Add, Inv, JoinInv, NotAllAsleep
<1>4. CASE SetShutdown
  BY <1>4 DEF SetShutdown, Inv, TypeOK, LockInv, KnowsInv, JoinInv, CountMatchesQueue, NotAllAsleep
<1>5. CASE Broadcast
  <2>1. TypeOK' /\ LockInv' /\ KnowsInv' /\ CountMatchesQueue'
    BY <1>5 DEF Broadcast, Inv, TypeOK, LockInv, KnowsInv, CountMatchesQueue, pool
  <2>2. JoinInv'
    BY <1>5 DEF Broadcast, Inv, JoinInv, pool
  <2>3. MaxThreadNum > 0 => 1 \in Workers
    OBVIOUS
  <2> QED BY <1>5, <2>1, <2>2, <2>3 DEF Broadcast, Inv, NotAllAsleep
<1>6. CASE Join
  BY <1>6 DEF Join, Inv, TypeOK, LockInv, KnowsInv, JoinInv, CountMatchesQueue, NotAllAsleep, pool
<1>7. CASE Free
  BY <1>7 DEF Free, Inv, TypeOK, LockInv, KnowsInv, JoinInv, CountMatchesQueue, NotAllAsleep
<1> QED BY <1>1, <1>2, <1>3, <1>4, <1>5, <1>6, <1>7 DEF MainStep

(* The steps of thread_routine keep Inv, whoever is woken.                 *)
LEMMA WorkerKeepsInv ==
  ASSUME Inv, NEW w \in Workers, Acquire(w) \/ WorkerStep(w) \/ SpuriousWakeup(w)
  PROVE  Inv'
<1> USE PoolAssumption DEF Workers, Main, Nobody
<1>1. CASE Lock(w)
  <2>1. TypeOK'
    BY <1>1 DEF Lock, Inv, TypeOK, Goto, pool, Labels
  <2>2. LockInv' /\ KnowsInv' /\ JoinInv'
    BY <1>1 DEF Lock, Inv, TypeOK, LockInv, KnowsInv, JoinInv, Goto, pool, Inside
  <2> QED BY <1>1, <2>1, <2>2 DEF Lock, Inv, CountMatchesQueue, NotAllAsleep, pool
<1>2. CASE Wakes(w)
  <2>1. TypeOK'
    BY <1>2 DEF Wakes, Inv, TypeOK, Goto, pool, Labels
  <2>2. LockInv' /\ KnowsInv' /\ JoinInv'
    BY <1>2 DEF Wakes, Inv, TypeOK, LockInv, KnowsInv, JoinInv, Goto, pool, Inside
  <2> QED BY <1>2, <2>1, <2>2 DEF Wakes, Inv, CountMatchesQueue, NotAllAsleep, pool
<1>3. CASE Test(w)
  <2>1. TypeOK'
    BY <1>3 DEF Test, Inv, TypeOK, Goto, pool, Labels
  <2>2. LockInv' /\ KnowsInv' /\ JoinInv'
    BY <1>3 DEF Test, Inv, TypeOK, LockInv, KnowsInv, JoinInv, Goto, pool, Inside
  <2> QED BY <1>3, <2>1, <2>2 DEF Test, Inv, CountMatchesQueue, NotAllAsleep, pool
<1>4. CASE Wait(w)
  <2>1. TypeOK'
    BY <1>4 DEF Wait, Inv, TypeOK, Goto, pool, Labels
  <2>2. LockInv' /\ KnowsInv' /\ JoinInv'
    BY <1>4 DEF Wait, Inv, TypeOK, LockInv, KnowsInv, JoinInv, Goto, pool, Inside
  <2>3. ~freed /\ count = 0
    BY <1>4 DEF Wait, Inv, JoinInv, KnowsInv
  <2>4. queue = << >>
    BY <2>3 DEF Inv, TypeOK, CountMatchesQueue
  <2> QED BY <1>4, <2>1, <2>2, <2>4 DEF Wait, Inv, CountMatchesQueue, NotAllAsleep, pool
<1>5. CASE Decide(w)
  <2>1. TypeOK'
    BY <1>5 DEF Decide, Inv, TypeOK, Goto, pool, Labels
  <2>2. LockInv' /\ KnowsInv' /\ JoinInv'
    BY <1>5 DEF Decide, Inv, TypeOK, LockInv, KnowsInv, JoinInv, Goto, pool, Inside
  <2> QED BY <1>5, <2>1, <2>2 DEF Decide, Inv, CountMatchesQueue, NotAllAsleep, pool
<1>6. CASE Take(w)
  <2>1. queue \in Seq(Tasks) /\ queue # << >> /\ ~freed /\ count = Len(queue)
    BY <1>6 DEF Take, Inv, TypeOK, JoinInv, CountMatchesQueue
  <2>2. Head(queue) \in Tasks /\ Tail(queue) \in Seq(Tasks) /\ Len(Tail(queue)) = Len(queue) - 1
        /\ Len(queue) \in Nat /\ Len(queue) > 0
    BY <2>1
  <2>3. TypeOK' /\ CountMatchesQueue'
    BY <1>6, <2>1, <2>2 DEF Take, Inv, TypeOK, CountMatchesQueue, Goto, Labels
  <2>4. LockInv' /\ KnowsInv' /\ JoinInv'
    BY <1>6 DEF Take, Inv, TypeOK, LockInv, KnowsInv, JoinInv, Goto, Inside
  <2>5. NotAllAsleep'
    BY <1>6, <2>1 DEF Take, Inv, NotAllAsleep
  <2> QED BY <2>3, <2>4, <2>5 DEF Inv
<1>7. CASE Run(w)
  <2>0. ran' \in [Tasks -> Nat]
    <3>1. CASE job[w] \in Tasks
      BY <1>7, <3>1 DEF Run, Inv, TypeOK
    <3>2. CASE job[w] \notin Tasks
      BY <1>7, <3>2 DEF Run, Inv, TypeOK
    <3> QED BY <3>1, <3>2
  <2>1. TypeOK'
    BY <1>7, <2>0 DEF Run, Inv, TypeOK, Goto, pool, Labels
  <2>2. LockInv' /\ KnowsInv' /\ JoinInv'
    BY <1>7 DEF Run, Inv, TypeOK, LockInv, KnowsInv, JoinInv, Goto, pool, Inside
  <2> QED BY <1>7, <2>1, <2>2 DEF Run, Inv, CountMatchesQueue, NotAllAsleep, pool
<1>8. CASE SpuriousWakeup(w)
  <2>1. TypeOK' /\ LockInv' /\ KnowsInv' /\ JoinInv' /\ CountMatchesQueue'
    BY <1>8 DEF SpuriousWakeup, Inv, TypeOK, LockInv, KnowsInv, JoinInv, CountMatchesQueue, pool
  <2> QED BY <1>8, <2>1 DEF SpuriousWakeup, Inv, NotAllAsleep, TypeOK
<1> QED BY <1>1, <1>2, <1>3, <1>4, <1>5, <1>6, <1>7, <1>8 DEF Acquire, WorkerStep

(* Every step keeps Inv.                                                   *)
LEMMA InvStep == Inv /\ [Next]_vars => Inv'
<1> SUFFICES ASSUME Inv, [Next]_vars PROVE Inv'
  OBVIOUS
<1>1. CASE UNCHANGED vars
  BY <1>1 DEF vars, pool, Inv, TypeOK, LockInv, KnowsInv, JoinInv, CountMatchesQueue, NotAllAsleep
<1> QED BY <1>1, MainKeepsInv, WorkerKeepsInv DEF Next, Idle

(* The invariant of every behaviour.                                       *)
LEMMA InvHolds == Spec => []Inv
BY InvInit, InvStep, PTL DEF Spec

(* Types, for any number of threads and tasks.                             *)
THEOREM PoolTypeCorrect == Spec => []TypeOK
BY InvHolds, PTL DEF Inv

(* The asserts of thread_routine hold: whoever leaves the loop to take a   *)
(* task finds one, however many workers a wake-up released.                *)
THEOREM AssertsHold == Spec => []TakerFindsTask
<1>1. Inv => TakerFindsTask
  <2> SUFFICES ASSUME Inv, NEW w \in Workers, pc[w] = "take"
               PROVE  count # 0 /\ queue # << >>
    BY DEF TakerFindsTask
  <2>1. count # 0 /\ ~freed
    BY DEF Inv, KnowsInv, JoinInv
  <2> QED BY <2>1 DEF Inv, CountMatchesQueue
<1> QED BY <1>1, InvHolds, PTL

(* cur_queue_size counts the list.                                         *)
THEOREM CountCorrect == Spec => []CountMatchesQueue
BY InvHolds, PTL DEF Inv

(* The signal of pool_add_worker is never lost on workers that all sleep.  *)
THEOREM SignalNotLost == Spec => []NotAllAsleep
BY InvHolds, PTL DEF Inv

(* pool_destroy frees the pool only after the last worker has gone.        *)
THEOREM FreeIsSafe == Spec => []FreedAfterExit
<1>1. Inv => FreedAfterExit
  <2> SUFFICES ASSUME Inv, freed
               PROVE  waiting = {} /\ lock = Nobody /\ \A w \in Workers : pc[w] = "exited"
    BY DEF FreedAfterExit
  <2>1. main = "done" /\ \A w \in Workers : pc[w] = "exited"
    BY DEF Inv, JoinInv
  <2>2. waiting = {}
    BY <2>1 DEF Inv, LockInv, TypeOK
  <2>3. lock # Main /\ lock \notin Workers
    BY <2>1 DEF Inv, LockInv, Inside
  <2> QED BY <2>1, <2>2, <2>3 DEF Inv, TypeOK
<1> QED BY <1>1, InvHolds, PTL

-----------------------------------------------------------------------------
(* Where a task can be: in the list, with a worker, or run.                *)
Positions(q, t) == {k \in DOMAIN q : q[k] = t}
Holders(j, t) == {w \in Workers : j[w] = t}

(* A worker has a task exactly while it runs it; pool_destroy has begun    *)
(* exactly when main has left the adding of tasks.                         *)
Jobs ==
  /\ \A w \in Workers : IF pc[w] = "run" THEN job[w] \in Tasks ELSE job[w] = NoTask
  /\ shutdown <=> main \notin {"create", "add", "append"}

(* Due: the copies there must be of a task, by how far main has got.       *)
Due(t) == IF main = "create" \/ (main \in {"add", "append"} /\ t >= i) THEN 0 ELSE 1
Tally == \A t \in Tasks : IF freed THEN Copies(t) \in {0, 1} ELSE Copies(t) = Due(t)

(* The places of a task are finitely many.                                 *)
LEMMA Finite ==
  ASSUME NEW q \in Seq(Tasks), NEW j, NEW t
  PROVE  /\ IsFiniteSet(Positions(q, t)) /\ Cardinality(Positions(q, t)) \in Nat
         /\ IsFiniteSet(Holders(j, t)) /\ Cardinality(Holders(j, t)) \in Nat
<1>1. Positions(q, t) \subseteq 1 .. Len(q) /\ Len(q) \in Nat
  BY DEF Positions
<1>2. IsFiniteSet(1 .. Len(q)) /\ IsFiniteSet(1 .. MaxThreadNum)
  BY <1>1, FS_Interval, PoolAssumption
<1>3. Holders(j, t) \subseteq 1 .. MaxThreadNum
  BY DEF Holders, Workers
<1> QED BY <1>1, <1>2, <1>3, FS_Subset, FS_CardinalityType

(* Appending a task adds one position for it and none for another.         *)
LEMMA AppendCounts ==
  ASSUME NEW q \in Seq(Tasks), NEW x \in Tasks, NEW t
  PROVE  Cardinality(Positions(Append(q, x), t)) =
           Cardinality(Positions(q, t)) + IF t = x THEN 1 ELSE 0
<1> DEFINE r == Append(q, x)
           m == Len(q) + 1
<1>1. /\ m \in Nat /\ DOMAIN q = 1 .. m - 1 /\ DOMAIN r = 1 .. m
      /\ r[m] = x /\ \A k \in 1 .. m - 1 : r[k] = q[k]
  OBVIOUS
<1>2. m \notin Positions(q, t)
  BY <1>1 DEF Positions
<1>3. CASE t = x
  <2>1. Positions(r, t) = Positions(q, t) \cup {m}
    BY <1>1, <1>3 DEF Positions
  <2> QED BY <1>2, <1>3, <2>1, Finite, FS_AddElement
<1>4. CASE t # x
  <2>1. Positions(r, t) = Positions(q, t)
    BY <1>1, <1>4 DEF Positions
  <2> QED BY <1>4, <2>1, Finite
<1> QED BY <1>3, <1>4

(* Taking the head removes one position of that task and none of another.  *)
LEMMA TailCounts ==
  ASSUME NEW q \in Seq(Tasks), q # << >>, NEW t
  PROVE  Cardinality(Positions(q, t)) =
           Cardinality(Positions(Tail(q), t)) + IF t = Head(q) THEN 1 ELSE 0
<1> DEFINE P == Positions(q, t)
           R == Positions(Tail(q), t)
           f == [k \in R |-> k + 1]
<1>1. /\ Tail(q) \in Seq(Tasks) /\ Len(q) \in Nat \ {0} /\ DOMAIN q = 1 .. Len(q)
      /\ DOMAIN Tail(q) = 1 .. Len(q) - 1 /\ Head(q) = q[1]
      /\ \A k \in 1 .. Len(q) - 1 : Tail(q)[k] = q[k + 1]
  OBVIOUS
<1>2. f \in Bijection(R, P \ {1})
  <2>1. \A k \in R : k \in 1 .. Len(q) - 1 /\ f[k] = k + 1 /\ f[k] \in P \ {1}
    BY <1>1 DEF Positions
  <2>2. \A k \in P \ {1} : k - 1 \in R /\ f[k - 1] = k
    <3> SUFFICES ASSUME NEW k \in P \ {1} PROVE k - 1 \in R /\ f[k - 1] = k
      OBVIOUS
    <3>1. k \in 2 .. Len(q) /\ q[k] = t
      BY <1>1 DEF Positions
    <3>2. k - 1 \in 1 .. Len(q) - 1 /\ (k - 1) + 1 = k
      BY <1>1, <3>1
    <3>3. k - 1 \in R
      BY <1>1, <3>1, <3>2 DEF Positions
    <3> QED BY <3>2, <3>3
  <2>3. \A k, l \in R : f[k] = f[l] => k = l
    BY <2>1
  <2> QED BY <2>1, <2>2, <2>3 DEF Bijection, Injection, Surjection, IsInjective
<1>3. IsFiniteSet(P) /\ IsFiniteSet(R) /\ Cardinality(P) \in Nat /\ Cardinality(R) \in Nat
  BY <1>1, Finite
<1>4. Cardinality(R) = Cardinality(P \ {1})
  <2>1. IsFiniteSet(P \ {1})
    BY <1>3, FS_RemoveElement
  <2> QED BY <1>2, <1>3, <2>1, FS_Bijection DEF ExistsBijection
<1>5. CASE t = Head(q)
  <2>1. 1 \in P
    BY <1>1, <1>5 DEF Positions
  <2> HIDE DEF P, R
  <2>2. Cardinality(P \ {1}) = Cardinality(P) - 1
    BY <1>3, <2>1, FS_RemoveElement
  <2>3. Cardinality(P) = Cardinality(R) + 1
    BY <1>3, <1>4, <2>2
  <2> QED BY <1>5, <2>3 DEF P, R
<1>6. CASE t # Head(q)
  <2>1. 1 \notin P
    BY <1>1, <1>6 DEF Positions
  <2>2. P \ {1} = P
    BY <2>1
  <2> HIDE DEF P, R
  <2>3. Cardinality(P) = Cardinality(R)
    BY <1>4, <2>2
  <2>4. Cardinality(P) = Cardinality(R) + 0
    BY <1>3, <2>3
  <2> QED BY <1>6, <2>4 DEF P, R
<1> QED BY <1>5, <1>6

(* A worker that takes a task, or the other way round, one that has run    *)
(* it: h is g but for one more copy of x, with w.                          *)
LEMMA HoldCounts ==
  ASSUME NEW g, NEW h, NEW w \in Workers, g[w] = NoTask,
         NEW x \in Tasks, NEW t \in Tasks,
         h[w] = x, \A v \in Workers \ {w} : h[v] = g[v]
  PROVE  Cardinality(Holders(h, t)) =
           Cardinality(Holders(g, t)) + IF t = x THEN 1 ELSE 0
<1>1. NoTask \notin Tasks /\ << >> \in Seq(Tasks)
  BY PoolAssumption DEF NoTask, Tasks
<1>2. IsFiniteSet(Holders(g, t)) /\ Cardinality(Holders(g, t)) \in Nat
  BY <1>1, Finite
<1>3. w \notin Holders(g, t)
  BY <1>1 DEF Holders
<1>4. CASE t = x
  <2>1. Holders(h, t) = Holders(g, t) \cup {w}
    BY <1>4 DEF Holders
  <2>2. Cardinality(Holders(g, t) \cup {w}) = Cardinality(Holders(g, t)) + 1
    BY <1>2, <1>3, FS_AddElement
  <2> QED BY <1>4, <2>1, <2>2
<1>5. CASE t # x
  <2>1. Holders(h, t) = Holders(g, t)
    BY <1>3, <1>5 DEF Holders
  <2> QED BY <1>2, <1>5, <2>1
<1> QED BY <1>4, <1>5

(* The sum that Copies is.                                                 *)
LEMMA CopiesAre ==
  ASSUME NEW t \in Tasks
  PROVE  Copies(t) = Cardinality(Positions(queue, t)) + Cardinality(Holders(job, t)) + ran[t]
  BY DEF Copies, Positions, Holders

(* No step loses a task, duplicates it or runs it again.                   *)
LEMMA TallyStep == Inv /\ Jobs /\ Tally /\ [Next]_vars => (Jobs /\ Tally)'
<1> SUFFICES ASSUME Inv, Jobs, Tally, [Next]_vars PROVE Jobs' /\ Tally'
  OBVIOUS
<1> DEFINE Same == queue' = queue /\ job' = job /\ ran' = ran /\ freed' = freed
           SameDue == \A t \in Tasks : Due(t)' = Due(t)
<1>0. /\ queue \in Seq(Tasks) /\ job \in [Workers -> Tasks \cup {NoTask}]
      /\ ran \in [Tasks -> Nat] /\ i \in Nat \ {0} /\ pc \in [Workers -> Labels]
      /\ main \in {"create", "add", "append", "broadcast", "join", "free", "done"}
  BY DEF Inv, TypeOK
<1>1. ASSUME Same, SameDue PROVE Tally'
  BY <1>1 DEF Tally, Copies
<1>2. ASSUME main' = main, main \notin {"add", "append"} PROVE SameDue
  BY <1>2 DEF Due
<1>3. NoTask \notin Tasks
  BY PoolAssumption DEF NoTask, Tasks
<1>4. \A t \in Tasks : t \in Nat /\ 1 <= t /\ t <= NumTasks
  BY PoolAssumption DEF Tasks
<1>5. ASSUME UNCHANGED <<main, i, queue, job, ran, freed>> PROVE Tally'
  BY <1>1, <1>5 DEF Due
<1>6. CASE Create
  <2>1. SameDue
    <3>1. CASE main' = main
      BY <1>2, <1>6, <3>1 DEF Create
    <3>2. CASE main' = "add" /\ i' = 1
      BY <1>4, <1>6, <3>2 DEF Create, Due
    <3> QED BY <1>6, <3>1, <3>2 DEF Create
  <2>2. Jobs'
    <3>1. CASE i <= MaxThreadNum
      <4>1. i \in Workers
        BY <1>0, <3>1, PoolAssumption DEF Workers
      <4>2. pc[i] = "unborn"
        BY <1>6, <4>1, <1>0 DEF Create, Inv, JoinInv, Workers
      <4> QED BY <1>0, <1>6, <3>1, <4>1, <4>2 DEF Create, Jobs, Goto, pool
    <3>2. CASE ~(i <= MaxThreadNum)
      BY <1>6, <3>2 DEF Create, Jobs, pool
    <3> QED BY <3>1, <3>2
  <2> QED BY <1>1, <1>6, <2>1, <2>2 DEF Create, pool
<1>7. CASE AddLock
  <2>1. SameDue
    BY <1>7 DEF AddLock, Due
  <2>2. Jobs'
    BY <1>7 DEF AddLock, Jobs, pool
  <2> QED BY <1>1, <1>7, <2>1, <2>2 DEF AddLock, pool
<1>8. CASE Add
  <2>1. /\ main = "append" /\ main' = "add" /\ i' = i + 1 /\ queue' = Append(queue, i)
        /\ UNCHANGED <<shutdown, freed, pc, job, ran>> /\ i \in Tasks
    BY <1>8 DEF Add, Inv, JoinInv
  <2>2. ~freed
    BY <2>1 DEF Inv, JoinInv
  <2>3. ASSUME NEW t \in Tasks PROVE Copies(t)' = Due(t)'
    <3>1. Copies(t) = Due(t)
      BY <2>2 DEF Tally
    <3>2. Cardinality(Positions(queue', t)) =
            Cardinality(Positions(queue, t)) + IF t = i THEN 1 ELSE 0
      BY <1>0, <2>1, AppendCounts
    <3>3. Due(t)' = Due(t) + IF t = i THEN 1 ELSE 0
      BY <1>0, <1>4, <2>1 DEF Due
    <3>4. Copies(t)' = Cardinality(Positions(queue', t)) + Cardinality(Holders(job, t)) + ran[t]
      BY <2>1 DEF Copies, Positions, Holders
    <3>5. /\ Cardinality(Positions(queue, t)) \in Nat /\ Cardinality(Holders(job, t)) \in Nat
          /\ ran[t] \in Nat
      BY <1>0, Finite
    <3> QED BY <3>1, <3>2, <3>3, <3>4, <3>5, CopiesAre
  <2>4. Jobs'
    BY <2>1 DEF Jobs
  <2> QED BY <2>1, <2>2, <2>3, <2>4 DEF Tally
<1>9. CASE SetShutdown
  <2>1. SameDue
    BY <1>0, <1>4, <1>9, PoolAssumption DEF SetShutdown, Due
  <2>2. Jobs'
    BY <1>9 DEF SetShutdown, Jobs
  <2> QED BY <1>1, <1>9, <2>1, <2>2 DEF SetShutdown
<1>10. CASE Broadcast
  BY <1>1, <1>10 DEF Broadcast, pool, Jobs, Due
<1>11. CASE Join
  BY <1>1, <1>11 DEF Join, pool, Jobs, Due
<1>12. CASE Free
  <2>1. /\ queue' = << >> /\ freed' /\ UNCHANGED <<job, ran, pc, shutdown>>
        /\ main = "free" /\ main' = "done"
    BY <1>12 DEF Free
  <2>2. ASSUME NEW t \in Tasks PROVE Copies(t)' \in {0, 1}
    <3>1. Copies(t) \in {0, 1}
      BY DEF Tally, Due
    <3>2. Copies(t)' = Cardinality(Positions(<< >>, t)) + Cardinality(Holders(job, t)) + ran[t]
      BY <2>1 DEF Copies, Positions, Holders
    <3>3. Positions(<< >>, t) = {}
      BY DEF Positions
    <3>4. Cardinality(Positions(<< >>, t)) = 0
      BY <3>3, FS_EmptySet
    <3>5. /\ Cardinality(Positions(queue, t)) \in Nat /\ Cardinality(Holders(job, t)) \in Nat
          /\ ran[t] \in Nat
      BY <1>0, Finite
    <3> QED BY <3>1, <3>2, <3>4, <3>5, CopiesAre
  <2>3. Jobs'
    BY <2>1 DEF Jobs
  <2> QED BY <2>1, <2>2, <2>3 DEF Tally
<1>13. ASSUME NEW w \in Workers, Acquire(w) \/ Test(w) \/ Wait(w) \/ Decide(w) \/ SpuriousWakeup(w)
       PROVE  Jobs' /\ Tally'
  <2>1. /\ UNCHANGED <<main, i, queue, job, ran, freed, shutdown>>
        /\ \A x \in Workers : pc'[x] = "run" <=> pc[x] = "run"
    BY <1>0, <1>13 DEF Acquire, Lock, Wakes, Test, Wait, Decide, SpuriousWakeup, pool, Goto
  <2> QED BY <1>5, <2>1 DEF Jobs
<1>14. ASSUME NEW w \in Workers, Take(w) PROVE Jobs' /\ Tally'
  <2> DEFINE x == Head(queue)
  <2>1. /\ queue # << >> /\ x \in Tasks /\ queue' = Tail(queue) /\ job' = [job EXCEPT ![w] = x]
        /\ UNCHANGED <<ran, freed, main, i, shutdown>> /\ pc' = [pc EXCEPT ![w] = "run"]
        /\ pc[w] = "take"
    BY <1>0, <1>14 DEF Take, Goto
  <2>2. job[w] = NoTask
    BY <2>1 DEF Jobs
  <2>3. Jobs'
    BY <1>0, <2>1 DEF Jobs
  <2>4. ASSUME NEW t \in Tasks PROVE Copies(t)' = Copies(t) /\ Due(t)' = Due(t)
    <3>1. Cardinality(Positions(queue, t)) =
            Cardinality(Positions(queue', t)) + IF t = x THEN 1 ELSE 0
      BY <1>0, <2>1, TailCounts
    <3>2. Cardinality(Holders(job', t)) =
            Cardinality(Holders(job, t)) + IF t = x THEN 1 ELSE 0
      <4>1. job'[w] = x /\ \A v \in Workers \ {w} : job'[v] = job[v]
        BY <1>0, <2>1
      <4>2. x \in Tasks
        BY <2>1
      <4> HIDE DEF x
      <4> QED BY <2>2, <4>1, <4>2, HoldCounts
    <3>3. Copies(t)' = Cardinality(Positions(queue', t)) + Cardinality(Holders(job', t)) + ran[t]
      BY <2>1 DEF Copies, Positions, Holders
    <3>4. /\ Cardinality(Positions(queue', t)) \in Nat /\ Cardinality(Holders(job, t)) \in Nat
          /\ ran[t] \in Nat
      <4>1. queue' \in Seq(Tasks)
        BY <1>0, <2>1
      <4> QED BY <1>0, <4>1, Finite
    <3>5. Due(t)' = Due(t)
      BY <2>1 DEF Due
    <3> QED BY <3>1, <3>2, <3>3, <3>4, <3>5, CopiesAre
  <2> QED BY <2>1, <2>3, <2>4 DEF Tally
<1>15. ASSUME NEW w \in Workers, Run(w) PROVE Jobs' /\ Tally'
  <2> DEFINE x == job[w]
  <2>1. /\ x \in Tasks /\ ran' = [ran EXCEPT ![x] = @ + 1] /\ job' = [job EXCEPT ![w] = NoTask]
        /\ UNCHANGED <<queue, freed, main, i, shutdown>> /\ pc' = [pc EXCEPT ![w] = "lock"]
    BY <1>15 DEF Run, Goto, pool, Jobs
  <2>2. Jobs'
    BY <1>0, <2>1 DEF Jobs
  <2>3. ASSUME NEW t \in Tasks PROVE Copies(t)' = Copies(t) /\ Due(t)' = Due(t)
    <3>1. Cardinality(Holders(job, t)) =
            Cardinality(Holders(job', t)) + IF t = x THEN 1 ELSE 0
      <4>1. job'[w] = NoTask /\ \A v \in Workers \ {w} : job[v] = job'[v]
        BY <1>0, <2>1
      <4>2. x \in Tasks /\ job[w] = x
        BY <2>1
      <4> HIDE DEF x
      <4> QED BY <4>1, <4>2, HoldCounts
    <3>2. ran'[t] = ran[t] + IF t = x THEN 1 ELSE 0
      BY <1>0, <2>1
    <3>3. Copies(t)' = Cardinality(Positions(queue, t)) + Cardinality(Holders(job', t)) + ran'[t]
      BY <2>1 DEF Copies, Positions, Holders
    <3>4. /\ Cardinality(Positions(queue, t)) \in Nat /\ Cardinality(Holders(job', t)) \in Nat
          /\ ran[t] \in Nat
      BY <1>0, Finite
    <3>5. Due(t)' = Due(t)
      BY <2>1 DEF Due
    <3> QED BY <3>1, <3>2, <3>3, <3>4, <3>5, CopiesAre
  <2> QED BY <2>1, <2>2, <2>3 DEF Tally
<1>16. CASE UNCHANGED vars
  BY <1>5, <1>16 DEF vars, pool, Jobs
<1> QED BY <1>6, <1>7, <1>8, <1>9, <1>10, <1>11, <1>12, <1>13, <1>14, <1>15, <1>16
        DEF Next, MainStep, WorkerStep, Idle

(* No task is lost, duplicated or run twice, for any number of threads and *)
(* tasks and any order of their steps.                                     *)
THEOREM TasksConserved == Spec => []TaskConserved
<1>1. Init => Jobs /\ Tally
  <2> SUFFICES ASSUME Init PROVE Jobs /\ Tally
    OBVIOUS
  <2>1. Jobs
    BY DEF Init, Jobs
  <2>2. ASSUME NEW t \in Tasks PROVE Copies(t) = 0 /\ Due(t) = 0
    <3>1. NoTask \notin Tasks
      BY PoolAssumption DEF NoTask, Tasks
    <3>2. Positions(queue, t) = {} /\ Holders(job, t) = {} /\ ran[t] = 0
      BY <3>1 DEF Init, Positions, Holders
    <3>3. Cardinality(Positions(queue, t)) = 0 /\ Cardinality(Holders(job, t)) = 0
      BY <3>2, FS_EmptySet
    <3>4. Copies(t) = 0 + 0 + 0
      BY <3>2, <3>3, CopiesAre
    <3>5. Due(t) = 0
      BY DEF Init, Due
    <3> QED BY <3>4, <3>5
  <2> QED BY <2>1, <2>2 DEF Init, Tally
<1>2. Inv /\ Jobs /\ Tally => TaskConserved
  <2> SUFFICES ASSUME Inv, Jobs, Tally, NEW t \in Tasks
               PROVE  Copies(t) <= 1 /\ (t \in Added => (~freed => Copies(t) = 1))
    BY DEF TaskConserved, Added
  <2>1. Copies(t) \in {0, 1}
    BY DEF Tally, Due
  <2>2. t \in Added /\ ~freed => Copies(t) = 1
    <3>1. t \in Added => Due(t) = 1
      BY PoolAssumption DEF Added, Due, Jobs, Tasks, Inv, TypeOK
    <3> QED BY <3>1 DEF Tally
  <2> QED BY <2>1, <2>2
<1>3. (Inv /\ Jobs /\ Tally) /\ [Next]_vars => (Inv /\ Jobs /\ Tally)'
  BY InvStep, TallyStep
<1> QED BY <1>1, <1>2, <1>3, InvInit, PTL DEF Spec
=============================================================================
