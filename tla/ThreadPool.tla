----------------------------- MODULE ThreadPool -----------------------------
(***************************************************************************)
(* The thread pool of test_threads_pool.c: main creates the workers, adds  *)
(* its tasks, and destroys the pool; the workers take tasks from the list  *)
(* under queue_lock and wait on queue_ready when there is none.            *)
(*                                                                         *)
(* pool->shutdown is read and written by pool_destroy without queue_lock,  *)
(* so each read of it by a worker is a step of its own.  Everything else   *)
(* in the pool changes under the lock, and a critical section is cut only  *)
(* at those reads.  Waiting is the set of threads blocked on queue_ready.  *)
(***************************************************************************)
EXTENDS Integers, Sequences, FiniteSets

CONSTANTS MaxThreadNum,   \* argument of pool_init
          NumTasks        \* tasks main adds

ASSUME PoolAssumption ==
  MaxThreadNum \in Nat /\ NumTasks \in Nat

Workers == 1 .. MaxThreadNum
Tasks   == 1 .. NumTasks
NoTask  == 0
Main    == 0
Nobody  == -1

VARIABLES lock,       \* who owns queue_lock
          waiting,    \* blocked in pthread_cond_wait(&queue_ready)
          queue,      \* the list from queue_head, as a sequence of tasks
          count,      \* cur_queue_size
          shutdown,
          freed,      \* the pool and its lock are gone
          pc, job,    \* of each worker
          main, i,    \* where main is; its loop index (threads, tasks, joins)
          ran         \* ran[t]: how often task t has been run to its end

pool == <<queue, count, shutdown, freed>>
vars == <<lock, waiting, pool, pc, job, main, i, ran>>

Init ==
  /\ lock = Nobody /\ waiting = {}
  /\ queue = << >> /\ count = 0 /\ shutdown = FALSE /\ freed = FALSE
  /\ pc = [w \in Workers |-> "unborn"] /\ job = [w \in Workers |-> NoTask]
  /\ main = "create" /\ i = 1
  /\ ran = [t \in Tasks |-> 0]

Goto(w, label) == pc' = [pc EXCEPT ![w] = label]

(***************************************************************************)
(* main: pool_init, pool_add_worker for each task, pool_destroy.           *)
(***************************************************************************)
Create ==
  /\ main = "create"
  /\ IF i <= MaxThreadNum
     THEN Goto(i, "lock") /\ i' = i + 1 /\ main' = main
     ELSE pc' = pc /\ i' = 1 /\ main' = "add"
  /\ UNCHANGED <<lock, waiting, pool, job, ran>>

AddLock ==
  /\ main = "add" /\ i <= NumTasks /\ lock = Nobody
  /\ lock' = Main /\ main' = "append"
  /\ UNCHANGED <<waiting, pool, pc, job, i, ran>>

(* pthread_cond_signal wakes one waiter, if there is one.                  *)
Signal == \/ waiting = {} /\ waiting' = {}
          \/ \E w \in waiting : waiting' = waiting \ {w}

AddUnsignalled ==                                        \* mutant: no signal
  /\ main = "append"
  /\ queue' = Append(queue, i) /\ count' = count + 1
  /\ lock' = Nobody
  /\ main' = "add" /\ i' = i + 1
  /\ UNCHANGED <<waiting, shutdown, freed, pc, job, ran>>
Add ==
  /\ main = "append"
  /\ queue' = Append(queue, i) /\ count' = count + 1
  /\ Signal
  /\ lock' = Nobody
  /\ main' = "add" /\ i' = i + 1
  /\ UNCHANGED <<shutdown, freed, pc, job, ran>>

SetShutdown ==                           \* a second call would return at once
  /\ main = "add" /\ i > NumTasks /\ ~shutdown
  /\ shutdown' = TRUE
  /\ main' = "broadcast"
  /\ UNCHANGED <<lock, waiting, queue, count, freed, pc, job, i, ran>>

Broadcast ==
  /\ main = "broadcast"
  /\ waiting' = {}
  /\ main' = "join" /\ i' = 1
  /\ UNCHANGED <<lock, pool, pc, job, ran>>

JoinAny ==                                               \* mutant: does not wait
  /\ main = "join"
  /\ IF i <= MaxThreadNum
     THEN i' = i + 1 /\ main' = main
     ELSE i' = 1 /\ main' = "free"
  /\ UNCHANGED <<lock, waiting, pool, pc, job, ran>>
Join ==
  /\ main = "join"
  /\ IF i <= MaxThreadNum
     THEN pc[i] = "exited" /\ i' = i + 1 /\ main' = main
     ELSE i' = 1 /\ main' = "free"
  /\ UNCHANGED <<lock, waiting, pool, pc, job, ran>>

Free ==
  /\ main = "free"
  /\ queue' = << >> /\ freed' = TRUE /\ main' = "done"
  /\ UNCHANGED <<lock, waiting, count, shutdown, pc, job, i, ran>>

(***************************************************************************)
(* thread_routine.                                                         *)
(***************************************************************************)
Lock(w) ==
  /\ pc[w] = "lock" /\ lock = Nobody
  /\ lock' = w
  /\ Goto(w, "test")
  /\ UNCHANGED <<waiting, pool, job, main, i, ran>>

(* while (cur_queue_size == 0 && !shutdown)                                *)
Test(w) ==
  /\ pc[w] = "test"
  /\ Goto(w, IF count = 0 /\ ~shutdown THEN "wait" ELSE "decide")
  /\ UNCHANGED <<lock, waiting, pool, job, main, i, ran>>

(* pthread_cond_wait: release the lock and block in one step; take the     *)
(* lock again once woken, and test again.                                  *)
Wait(w) ==
  /\ pc[w] = "wait"
  /\ lock' = Nobody /\ waiting' = waiting \cup {w}
  /\ Goto(w, "asleep")
  /\ UNCHANGED <<pool, job, main, i, ran>>

WakesUntested(w) ==                                      \* mutant: if, not while
  /\ pc[w] = "asleep" /\ w \notin waiting /\ lock = Nobody
  /\ lock' = w
  /\ Goto(w, "decide")
  /\ UNCHANGED <<waiting, pool, job, main, i, ran>>
Wakes(w) ==
  /\ pc[w] = "asleep" /\ w \notin waiting /\ lock = Nobody
  /\ lock' = w
  /\ Goto(w, "test")
  /\ UNCHANGED <<waiting, pool, job, main, i, ran>>

SpuriousWakeup(w) ==
  /\ w \in waiting
  /\ waiting' = waiting \ {w}
  /\ UNCHANGED <<lock, pool, pc, job, main, i, ran>>

(* if (shutdown) unlock and exit                                           *)
DecideKeepsLock(w) ==                                    \* mutant: exits locked
  /\ pc[w] = "decide"
  /\ lock' = lock
  /\ IF shutdown THEN Goto(w, "exited") ELSE Goto(w, "take")
  /\ UNCHANGED <<waiting, pool, job, main, i, ran>>
Decide(w) ==
  /\ pc[w] = "decide"
  /\ IF shutdown THEN lock' = Nobody /\ Goto(w, "exited")
                 ELSE lock' = lock   /\ Goto(w, "take")
  /\ UNCHANGED <<waiting, pool, job, main, i, ran>>

TakeKeepsHead(w) ==                                      \* mutant: head not moved
  /\ pc[w] = "take" /\ queue # << >>
  /\ count' = count - 1
  /\ job' = [job EXCEPT ![w] = Head(queue)]
  /\ lock' = Nobody
  /\ Goto(w, "run")
  /\ UNCHANGED <<waiting, queue, shutdown, freed, main, i, ran>>
Take(w) ==
  /\ pc[w] = "take" /\ queue # << >>
  /\ count' = count - 1
  /\ job' = [job EXCEPT ![w] = Head(queue)]
  /\ queue' = Tail(queue)
  /\ lock' = Nobody
  /\ Goto(w, "run")
  /\ UNCHANGED <<waiting, shutdown, freed, main, i, ran>>

Run(w) ==
  /\ pc[w] = "run"
  /\ ran' = [ran EXCEPT ![job[w]] = @ + 1]
  /\ job' = [job EXCEPT ![w] = NoTask]
  /\ Goto(w, "lock")
  /\ UNCHANGED <<lock, waiting, pool, main, i>>

(* main has returned.                                                      *)
Finished == main = "done"
Idle == Finished /\ UNCHANGED vars

MainStep == Create \/ AddLock \/ Add \/ Broadcast \/ Join \/ Free
Acquire(w) == Lock(w) \/ Wakes(w)
WorkerStep(w) == Test(w) \/ Wait(w) \/ Decide(w) \/ Take(w) \/ Run(w)

Next ==
  \/ MainStep \/ SetShutdown
  \/ \E w \in Workers : Acquire(w) \/ WorkerStep(w) \/ SpuriousWakeup(w)
  \/ Idle

Spec == Init /\ [][Next]_vars

(* Threads are scheduled and tasks end, but main may sleep for as long as  *)
(* it likes before it destroys the pool; a thread that keeps finding the    *)
(* mutex free now and then gets it in the end.                             *)
Fairness ==
  /\ SF_vars(MainStep)
  /\ \A w \in Workers : SF_vars(Acquire(w)) /\ WF_vars(WorkerStep(w))

FairSpec == Spec /\ Fairness

(***************************************************************************)
(* Properties.                                                             *)
(***************************************************************************)
Labels == {"unborn", "lock", "test", "wait", "asleep", "decide", "take", "run", "exited"}

(* Types; a worker that may be asleep is one that called cond_wait.        *)
TypeOK ==
  /\ lock \in Workers \cup {Main, Nobody}
  /\ waiting \subseteq Workers
  /\ queue \in Seq(Tasks) /\ count \in Nat
  /\ shutdown \in BOOLEAN /\ freed \in BOOLEAN
  /\ pc \in [Workers -> Labels] /\ job \in [Workers -> Tasks \cup {NoTask}]
  /\ main \in {"create", "add", "append", "broadcast", "join", "free", "done"}
  /\ i \in Nat \ {0}
  /\ ran \in [Tasks -> Nat]

(* The two assert()s of thread_routine: a worker that leaves the while     *)
(* loop to take a task finds one, although shutdown is read twice and      *)
(* several workers may be woken for the same task.                         *)
TakerFindsTask ==
  \A w \in Workers : pc[w] = "take" => count # 0 /\ queue # << >>

(* cur_queue_size, which decides who waits, is the length of the list.     *)
CountMatchesQueue == ~freed => count = Len(queue)

(* A task is never in two places, and is not run twice: of a task that was *)
(* added, the list, the workers and the finished runs together hold at     *)
(* most one.                                                               *)
Copies(t) == Cardinality({k \in DOMAIN queue : queue[k] = t})
           + Cardinality({w \in Workers : job[w] = t}) + ran[t]
Added == {t \in Tasks : main # "create" /\ (t < i \/ shutdown)}
TaskConserved ==
  /\ \A t \in Tasks : Copies(t) <= 1
  /\ \A t \in Added : ~freed => Copies(t) = 1

(* A task is not left in the list by workers that all sleep: the signal of *)
(* pool_add_worker is not lost.                                            *)
NotAllAsleep == queue # << >> /\ MaxThreadNum > 0 => waiting # Workers

(* The pool and its mutex are freed only when no thread can touch them     *)
(* any more.                                                               *)
FreedAfterExit ==
  freed => waiting = {} /\ lock = Nobody /\ \A w \in Workers : pc[w] = "exited"

(* Every task that was added is run, as long as the pool is not destroyed. *)
EveryTaskRuns == \A t \in Tasks : (t \in Added) ~> (ran[t] = 1 \/ shutdown)

(* "Wake up all waiting threads", "block until the threads have exited":   *)
(* pool_destroy returns, unless a worker read shutdown before it was set   *)
(* and went to sleep after the broadcast, which pthread_join waits for.    *)
MissedBroadcast == main = "join" /\ waiting # {}
DestroyReturnsUnlessMissed == shutdown ~> (freed \/ MissedBroadcast)

=============================================================================
