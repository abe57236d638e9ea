-------------------------- MODULE AtomicProcProofs --------------------------
(***************************************************************************)
(* Theorems about the atomic operations (Atomic), and about the process    *)
(* monitor (ProcTable).                                                    *)
(***************************************************************************)
EXTENDS Atomic, ProcTable, FiniteSetTheorems, SequenceTheorems, TLAPS

(***************************************************************************)
(* Atomic, for any number of processors, any calls, any width of the word  *)
(* and any of the headers: the types, that a link guards the value, and    *)
(* that every operation takes effect in one step.                          *)
(***************************************************************************)

(* Inside an operation there is a call, only an operation that both reads  *)
(* and writes is ever between the two, and x86 knows no links.             *)
CallKnown ==
  /\ Linked \/ reserved = {}
  /\ \A p \in Procs :
       /\ pc[p] # "idle" => call[p] \in Calls
       /\ pc[p] = "loaded" => Modifies(p)

IInv == TypeOK /\ CallKnown /\ LinkKeepsValue

USE AtomicAssumption

(* An operation makes a word of a word.                                    *)
LEMMA ResultIsWord ==
  ASSUME NEW c \in Calls, NEW v \in Word
  PROVE  Result(c, v) \in Word
<1>1. c \in [kind : Kinds, a : Word, b : Word]
  OBVIOUS
<1>2. c.a \in Word /\ c.b \in Word /\ c.kind \in Kinds
  BY <1>1
<1>3. (v + c.a) % Modulus \in Word
  <2>1. v + c.a \in Int /\ Modulus \in Nat /\ Modulus > 0
    BY <1>2 DEF Word
  <2>2. \A n \in Int, m \in Nat : m > 0 => n % m \in 0 .. m - 1
    OBVIOUS
  <2>3. QED BY <2>1, <2>2 DEF Word
<1>4. BitAnd(v, c.a) \in Word /\ BitOr(v, c.a) \in Word
  BY <1>2
<1>5. QED
  BY <1>2, <1>3, <1>4 DEF Result

(* What an operation returns is a word, or 0 or 1.                         *)
LEMMA AnswerIsWord ==
  ASSUME NEW c, NEW v \in Word
  PROVE  Answer(c, v) \in Word \cup {0, 1}
BY DEF Answer

(* Finishing an operation keeps the types.                                 *)
LEMMA DoneTypes ==
  ASSUME TypeOK, NEW p \in Procs, NEW v \in Word, Done(p, v)
  PROVE  /\ pc' \in [Procs -> {"idle", "call", "loaded", "done"}]
         /\ ret' \in [Procs -> Word \cup {0, 1}]
         /\ call' = call
         /\ pc' = [pc EXCEPT ![p] = "done"]
         /\ ret' = [ret EXCEPT ![p] = Answer(call[p], v)]
BY AnswerIsWord DEF Done, TypeOK

(* The invariant holds at first.                                           *)
THEOREM InitIInv == Init => IInv
<1>1. 0 \in Word
  BY DEF Word
<1>2. QED
  BY <1>1 DEF Init, IInv, TypeOK, CallKnown, LinkKeepsValue

(* Every instruction keeps the invariant.                                  *)
THEOREM StepIInv == IInv /\ [Next]_vars => IInv'
<1> SUFFICES ASSUME IInv, [Next]_vars PROVE IInv'
  OBVIOUS
<1> USE DEF IInv
<1>0. 0 \in Word
  BY DEF Word
<1>1. ASSUME NEW p \in Procs, Invoke(p) PROVE IInv'
  BY <1>1 DEF Invoke, shared, TypeOK, CallKnown, LinkKeepsValue, Modifies, Linked, Visible
<1>2. ASSUME NEW p \in Procs, LoadLinked(p) PROVE IInv'
  <2>0. Visible(p) \in Word /\ \A q \in Procs : Visible(q)' = Visible(q)
    BY <1>2 DEF LoadLinked, shared, Visible, TypeOK
  <2>1. CASE pc' = [pc EXCEPT ![p] = "loaded"] /\ UNCHANGED <<call, ret>>
    BY <1>2, <2>0, <2>1 DEF LoadLinked, shared, TypeOK, CallKnown, LinkKeepsValue, Modifies, Linked
  <2>2. CASE Done(p, Visible(p))
    <3>1. Visible(p) \in Word
      BY <2>0
    <3>2. TypeOK'
      BY <1>2, <2>2, <3>1, DoneTypes DEF LoadLinked, shared, TypeOK
    <3>3. CallKnown'
      BY <1>2, <2>2, <3>1, DoneTypes DEF LoadLinked, shared, TypeOK, CallKnown, Modifies, Linked
    <3>4. LinkKeepsValue'
      BY <1>2, <2>0, <2>2, <3>1, DoneTypes DEF LoadLinked, shared, TypeOK, LinkKeepsValue
    <3>5. QED BY <3>2, <3>3, <3>4
  <2>3. QED BY <1>2, <2>1, <2>2 DEF LoadLinked
<1>3. ASSUME NEW p \in Procs, StoreCond(p) PROVE IInv'
  <2>1. CASE p \in reserved
    <3>1. prev[p] \in Word /\ call[p] \in Calls /\ Done(p, prev[p])
      BY <1>3, <2>1 DEF StoreCond, TypeOK, CallKnown
    <3>2. word' \in Word /\ reserved' = {}
      BY <1>3, <2>1, <3>1, ResultIsWord DEF StoreCond
    <3>3. TypeOK'
      BY <1>3, <3>1, <3>2, DoneTypes DEF StoreCond, TypeOK
    <3>4. CallKnown' /\ LinkKeepsValue'
      BY <1>3, <3>1, <3>2, DoneTypes DEF StoreCond, TypeOK, CallKnown, LinkKeepsValue, Modifies, Linked
    <3>5. QED BY <3>3, <3>4
  <2>2. CASE p \notin reserved
    BY <1>3, <2>2 DEF StoreCond, TypeOK, CallKnown, LinkKeepsValue, Modifies, Linked, Visible
  <2>3. QED BY <2>1, <2>2
<1>4. ASSUME NEW p \in Procs, LinkBreaks(p) PROVE IInv'
  BY <1>4 DEF LinkBreaks, shared, TypeOK, CallKnown, LinkKeepsValue, Modifies, Linked, Visible
<1>5. ASSUME NEW p \in Procs, Locked(p) PROVE IInv'
  <2>1. word \in Word /\ call[p] \in Calls /\ Done(p, word) /\ reserved = {}
    BY <1>5 DEF Locked, TypeOK, CallKnown, Linked
  <2>2. word' \in Word
    BY <1>5, <2>1, ResultIsWord DEF Locked
  <2>3. TypeOK'
    BY <1>5, <2>1, <2>2, DoneTypes DEF Locked, TypeOK
  <2>4. CallKnown' /\ LinkKeepsValue'
    BY <1>5, <2>1, DoneTypes DEF Locked, TypeOK, CallKnown, LinkKeepsValue, Modifies, Linked
  <2>5. QED BY <2>3, <2>4
<1>6. ASSUME NEW p \in Procs, ReadForLoop(p) PROVE IInv'
  <2>1. Visible(p) \in Word
    BY <1>6 DEF Visible, TypeOK
  <2>2. reserved = {}
    BY <1>6 DEF ReadForLoop, Loop, CallKnown, Linked
  <2>3. TypeOK'
    BY <1>6, <2>1 DEF ReadForLoop, shared, TypeOK
  <2>4. CallKnown' /\ LinkKeepsValue'
    BY <1>6, <2>2 DEF ReadForLoop, shared, TypeOK, CallKnown, LinkKeepsValue, Modifies, Linked, Loop, Loads, Stores
  <2>5. QED BY <2>3, <2>4
<1>7. ASSUME NEW p \in Procs, CasInLoop(p) PROVE IInv'
  <2>1. reserved = {} /\ prev[p] \in Word /\ call[p] \in Calls
    BY <1>7 DEF CasInLoop, Loop, CallKnown, Linked, TypeOK
  <2>2. CASE word = prev[p]
    <3>1. Done(p, prev[p]) /\ word' \in Word
      BY <1>7, <2>1, <2>2, ResultIsWord DEF CasInLoop
    <3>2. TypeOK'
      BY <1>7, <2>1, <3>1, DoneTypes DEF CasInLoop, TypeOK
    <3>3. CallKnown' /\ LinkKeepsValue'
      BY <1>7, <2>1, <3>1, DoneTypes DEF CasInLoop, TypeOK, CallKnown, LinkKeepsValue, Modifies, Linked
    <3>4. QED BY <3>2, <3>3
  <2>3. CASE word # prev[p]
    BY <1>7, <2>1, <2>3 DEF CasInLoop, TypeOK, CallKnown, LinkKeepsValue, Modifies, Linked
  <2>4. QED BY <2>2, <2>3
<1>8. ASSUME NEW p \in Procs, Load(p) PROVE IInv'
  <2>1. Visible(p) \in Word /\ Done(p, Visible(p))
    BY <1>8 DEF Load, Visible, TypeOK
  <2>2. TypeOK'
    BY <1>8, <2>1, DoneTypes DEF Load, shared, TypeOK
  <2>3. CallKnown' /\ LinkKeepsValue'
    BY <1>8, <2>1, DoneTypes DEF Load, shared, TypeOK, CallKnown, LinkKeepsValue, Modifies, Linked, Visible
  <2>4. QED BY <2>2, <2>3
<1>9. ASSUME NEW p \in Procs, Store(p) PROVE IInv'
  <2>1. /\ word \in Word /\ Done(p, word) /\ call[p] \in Calls
        /\ call[p].a \in Word
    BY <1>9 DEF Store, TypeOK, CallKnown
  <2>2. TypeOK'
    BY <1>9, <2>1, DoneTypes DEF Store, TypeOK
  <2>3. CallKnown' /\ LinkKeepsValue'
    BY <1>9, <2>1, DoneTypes DEF Store, TypeOK, CallKnown, LinkKeepsValue, Modifies, Linked, Visible
  <2>4. QED BY <2>2, <2>3
<1>10. ASSUME NEW p \in Procs, Drain(p) PROVE IInv'
  <2>1. /\ reserved' \subseteq reserved \cap {p} /\ Visible(p)' = Visible(p)
        /\ UNCHANGED <<arch, call, ret, pc, prev>> /\ word' \in Word
        /\ buf' \in [Procs -> Word \cup {None}]
    BY <1>10 DEF Drain, Drained, Visible, TypeOK
  <2>2. TypeOK' /\ CallKnown'
    BY <2>1 DEF TypeOK, CallKnown, Modifies, Linked
  <2>3. LinkKeepsValue'
    BY <2>1 DEF LinkKeepsValue
  <2> QED BY <2>2, <2>3
<1>11. ASSUME NEW p \in Procs, Return(p) PROVE IInv'
  <2>1. TypeOK'
    BY <1>0, <1>11 DEF Return, shared, TypeOK
  <2>2. CallKnown' /\ LinkKeepsValue'
    BY <1>11 DEF Return, shared, TypeOK, CallKnown, LinkKeepsValue, Modifies, Linked, Visible
  <2>3. QED BY <2>1, <2>2
<1>12. CASE UNCHANGED vars
  BY <1>12 DEF vars, TypeOK, CallKnown, LinkKeepsValue, Modifies, Linked, Visible
<1>13. QED
  BY <1>1, <1>2, <1>3, <1>4, <1>5, <1>6, <1>7, <1>8, <1>9, <1>10, <1>11, <1>12
     DEF Next, Instruction

(* The types hold in every state of every run of the operations.           *)
THEOREM TypesCorrect == Spec => []TypeOK
<1>1. IInv => TypeOK
  BY DEF IInv
<1>2. QED
  BY <1>1, InitIInv, StepIInv, PTL DEF Spec

(* An unbroken link means that what the processor sees in the word has not *)
(* changed since the load (ldrex and strex, ll and sc).                    *)
THEOREM LinkCorrect == Spec => []LinkKeepsValue
<1>1. IInv => LinkKeepsValue
  BY DEF IInv
<1>2. QED
  BY <1>1, InitIInv, StepIInv, PTL DEF Spec

(***************************************************************************)
(* Refinement: a step of the loop is a stutter or the whole operation.     *)
(***************************************************************************)
(* The step that finishes an operation is the step of module AtomicWord.   *)
LEMMA DoneIsAnswered ==
  ASSUME TypeOK, NEW p \in Procs, NEW v \in Word, Done(p, v)
  PROVE  /\ [q \in Procs |-> IF pc'[q] \in {"call", "loaded"} THEN "called" ELSE pc'[q]]
            = [[q \in Procs |-> IF pc[q] \in {"call", "loaded"} THEN "called" ELSE pc[q]]
                 EXCEPT ![p] = "done"]
         /\ ret' = [ret EXCEPT ![p] = Answer(call[p], v)]
         /\ call' = call
<1>1. /\ pc' = [pc EXCEPT ![p] = "done"]
      /\ ret' = [ret EXCEPT ![p] = Answer(call[p], v)]
      /\ call' = call
      /\ pc \in [Procs -> {"idle", "call", "loaded", "done"}]
  BY DEF Done, TypeOK
<1>2. QED
  BY <1>1

(* The first state is one of the abstract word.                            *)
THEOREM InitRefines == Init => A!Init
BY DEF Init, A!Init

(* Every instruction is an operation on the abstract word, or a stutter.   *)
THEOREM StepRefines == IInv /\ [Next]_vars => [A!Next]_(A!vars)
<1> SUFFICES ASSUME IInv, [Next]_vars PROVE A!Next \/ UNCHANGED A!vars
  OBVIOUS
<1> USE DEF IInv
<1>1. ASSUME NEW p \in Procs, Invoke(p) PROVE A!Invoke(p)
  BY <1>1 DEF Invoke, A!Invoke, shared, TypeOK
<1>2. ASSUME NEW p \in Procs, LoadLinked(p) PROVE A!Compare(p) \/ UNCHANGED A!vars
  <2>1. CASE pc' = [pc EXCEPT ![p] = "loaded"] /\ UNCHANGED <<call, ret>>
    BY <1>2, <2>1 DEF LoadLinked, shared, TypeOK, A!vars
  <2>2. CASE call[p].kind = "cas" /\ Visible(p) # call[p].a
    <3>1. Visible(p) \in Word /\ Visible(p) = A!Visible(p)
      BY DEF TypeOK, Visible, A!Visible
    <3>2. A!Answered(p, A!Visible(p))
      BY <1>2, <2>2, <3>1, DoneIsAnswered DEF A!Answered, LoadLinked
    <3>3. QED
      BY <1>2, <2>2, <3>1, <3>2 DEF LoadLinked, shared, A!Compare, TypeOK
  <2>3. QED BY <1>2, <2>1, <2>2 DEF LoadLinked
<1>3. ASSUME NEW p \in Procs, StoreCond(p) PROVE A!Modify(p) \/ UNCHANGED A!vars
  <2>1. CASE p \in reserved
    <3>1. prev[p] = word /\ word \in Word /\ Done(p, prev[p]) /\ Modifies(p)
      BY <1>3, <2>1 DEF StoreCond, TypeOK, LinkKeepsValue, CallKnown, Drained, Visible
    <3>2. A!Answered(p, word)
      BY <3>1, DoneIsAnswered DEF A!Answered
    <3>3. QED
      BY <1>3, <2>1, <3>1, <3>2 DEF StoreCond, Modifies, A!Modify, A!Loads, A!Stores, Loads, Stores, TypeOK
  <2>2. CASE p \notin reserved
    BY <1>3, <2>2 DEF StoreCond, TypeOK, A!vars
  <2>3. QED BY <2>1, <2>2
<1>4. ASSUME NEW p \in Procs, LinkBreaks(p) PROVE UNCHANGED A!vars
  BY <1>4 DEF LinkBreaks, shared, A!vars
<1>5. ASSUME NEW p \in Procs, Locked(p) PROVE A!Modify(p)
  <2>1. word \in Word /\ Done(p, word) /\ A!Answered(p, word)
    BY <1>5, DoneIsAnswered DEF A!Answered, Locked, TypeOK
  <2>2. QED
    BY <1>5, <2>1 DEF Locked, Modifies, A!Modify, A!Loads, A!Stores, Loads, Stores, TypeOK
<1>6. ASSUME NEW p \in Procs, ReadForLoop(p) PROVE UNCHANGED A!vars
  BY <1>6 DEF ReadForLoop, shared, TypeOK, A!vars
<1>7. ASSUME NEW p \in Procs, CasInLoop(p) PROVE A!Modify(p) \/ UNCHANGED A!vars
  <2>1. CASE word = prev[p]
    <3>1. word \in Word /\ Done(p, word) /\ A!Answered(p, word) /\ Modifies(p)
      BY <1>7, <2>1, DoneIsAnswered DEF A!Answered, CasInLoop, TypeOK, CallKnown
    <3>2. QED
      BY <1>7, <2>1, <3>1 DEF CasInLoop, Modifies, A!Modify, A!Loads, A!Stores, Loads, Stores, TypeOK
  <2>2. CASE word # prev[p]
    BY <1>7, <2>2 DEF CasInLoop, TypeOK, A!vars
  <2>3. QED BY <2>1, <2>2
<1>8. ASSUME NEW p \in Procs, Load(p) PROVE A!Load(p)
  <2>1. Visible(p) = A!Visible(p)
    BY DEF Visible, A!Visible
  <2>2. Visible(p) \in Word /\ Done(p, Visible(p))
    BY <1>8 DEF Load, Visible, TypeOK
  <2>3. A!Answered(p, A!Visible(p))
    BY <2>1, <2>2, DoneIsAnswered DEF A!Answered
  <2>4. QED
    BY <1>8, <2>3 DEF Load, shared, A!Load, A!Loads, Loads, TypeOK
<1>9. ASSUME NEW p \in Procs, Store(p) PROVE A!Store(p)
  <2>1. word \in Word /\ Done(p, word) /\ A!Answered(p, word)
    BY <1>9, DoneIsAnswered DEF A!Answered, Store, TypeOK
  <2>2. Result(call[p], word) = call[p].a
    BY <1>9 DEF Store, Result, Stores
  <2>3. QED
    BY <1>9, <2>1, <2>2 DEF Store, Drained, A!Store, A!Stores, Stores, TypeOK
<1>10. ASSUME NEW p \in Procs, Drain(p) PROVE A!Drain(p)
  BY <1>10 DEF Drain, Drained, A!Drain
<1>11. ASSUME NEW p \in Procs, Return(p) PROVE A!Return(p)
  BY <1>11 DEF Return, BarrierAfter, Drained, shared, A!Return, TypeOK
<1>12. CASE UNCHANGED vars
  BY <1>12 DEF vars, A!vars
<1>13. QED
  BY <1>1, <1>2, <1>3, <1>4, <1>5, <1>6, <1>7, <1>8, <1>9, <1>10, <1>11, <1>12
     DEF Next, Instruction, A!Next

(* Whatever the others do between the load and the store of a loop, every  *)
(* operation takes effect in one step: android_atomic_* are atomic.        *)
THEOREM OperationsAtomic == Spec => ImplementsWord
<1>1. QED
  BY InitIInv, StepIInv, InitRefines, StepRefines, PTL DEF Spec, ImplementsWord, A!Spec

-----------------------------------------------------------------------------
(***************************************************************************)
(* ProcTable, for any tasks and whatever they do, any size of the first    *)
(* table and any of the options: where the records are, that the time      *)
(* shown is the task's own, and that no task is missed or shown twice.     *)
(*                                                                         *)
(* Accounting is about the records; Tracking relates what is in the tables *)
(* to what was read of the tasks in this round and the one before.         *)
(***************************************************************************)
Free == {free_procs[i] : i \in DOMAIN free_procs}
New  == Entries(new_procs)
Old  == Entries(old_procs)
Hand == {proc} \ {Null}

(* Every record is in one of the five places, and once.                    *)
Divided ==
  /\ Records = Free \cup New \cup Old \cup Hand \cup lost
  /\ Free \cap (New \cup Old \cup Hand \cup lost) = {}
  /\ New \cap (Old \cup Hand \cup lost) = {}
  /\ Old \cap (Hand \cup lost) = {} /\ Hand \cap lost = {}
  /\ Once(free_procs) /\ Once(new_procs) /\ Once(old_procs)

Counted ==
  /\ num_free_procs = Len(free_procs)
  /\ num_used_procs + num_free_procs = Len(rec)
  /\ Len(rec) = peak

(* The table that is being read is full up to proc_num, and no further.    *)
Reading == {"pids", "stat", "opentask", "tids"}
FilledTo(table, n) ==
  /\ n <= Len(table) /\ Len(table) # 0
  /\ \A i \in DOMAIN table : table[i] # Null <=> i <= n
Filled == step \in Reading \cup {"print"} => FilledTo(new_procs, proc_num)

Control ==
  /\ step = "open" => new_procs = << >>
  /\ step \in {"loop", "done"} \/ first => old_procs = << >>
  /\ proc # Null <=> step = "stat" \/ (step = "opentask" /\ ~options.threads)
  /\ options.threads => lost = {}
  /\ step \in {"stat", "opentask", "tids"} => pid \in Pids /\ pid \notin pids
  /\ tids # {} => /\ step \in {"stat", "tids"} /\ options.threads
                  /\ \A t \in tids : PidOf[t] = pid
  /\ proc # Null => /\ PidOf[rec[proc].tid] = pid /\ rec[proc].tid \notin tids
                    /\ ~options.threads => rec[proc].tid = pid
  /\ step = "tids" => options.threads
  /\ step \notin Reading => pids = {}

Accounting == ProcTypeOK /\ Divided /\ Counted /\ Filled /\ Control

USE ProcTableAssumption

-----------------------------------------------------------------------------
(* The tables.                                                             *)
LEMMA Entered ==
  ASSUME NEW table, NEW r
  PROVE  r \in Entries(table) <=> r # Null /\ \E i \in DOMAIN table : table[i] = r
BY DEF Entries

LEMMA EmptyTable ==
  /\ Entries(<< >>) = {} /\ Once(<< >>)
  /\ \A S : << >> \in Seq(S)
BY DEF Entries, Once

LEMMA NullsShape ==
  ASSUME NEW n \in Nat, NEW S
  PROVE  /\ Nulls(n) \in Seq(S \cup {Null})
         /\ Len(Nulls(n)) = n /\ DOMAIN Nulls(n) = 1 .. n
         /\ \A i \in 1 .. n : Nulls(n)[i] = Null
<1>1. Nulls(n) \in [1 .. n -> S \cup {Null}]
  BY DEF Nulls
<1> QED BY <1>1 DEF Nulls

LEMMA NewTable ==
  ASSUME NEW n \in Nat \ {0}, NEW S
  PROVE  /\ Nulls(n) \in Seq(S \cup {Null})
         /\ Entries(Nulls(n)) = {} /\ Once(Nulls(n)) /\ FilledTo(Nulls(n), 0)
<1>1. n \in Nat
  OBVIOUS
<1>2. Nulls(n) \in Seq(S \cup {Null}) /\ Len(Nulls(n)) = n /\ DOMAIN Nulls(n) = 1 .. n
  BY <1>1, NullsShape
<1>3. \A i \in 1 .. n : Nulls(n)[i] = Null
  BY <1>1, NullsShape
<1> QED BY <1>2, <1>3 DEF Entries, Once, FilledTo

(* AddProc puts one record more into the table, which may have grown.      *)
LEMMA Added ==
  ASSUME NEW S, Null \notin S, NEW r \in S, r \notin New,
         new_procs \in Seq(S \cup {Null}), proc_num \in Nat,
         FilledTo(new_procs, proc_num), Once(new_procs), AddProc(r)
  PROVE  /\ new_procs' \in Seq(S \cup {Null})
         /\ proc_num' \in Nat /\ FilledTo(new_procs', proc_num')
         /\ Once(new_procs') /\ Entries(new_procs') = New \cup {r}
<1> DEFINE n     == Len(new_procs)
           m     == IF proc_num >= n THEN n + n ELSE n
           table == IF proc_num >= n THEN new_procs \o Nulls(n) ELSE new_procs
<1>1. /\ n \in Nat \ {0} /\ DOMAIN new_procs = 1 .. n
      /\ m \in Nat /\ n <= m /\ proc_num < m /\ proc_num <= n
  BY DEF FilledTo
<1>2. Nulls(n) \in Seq(S \cup {Null}) /\ Len(Nulls(n)) = n /\ \A i \in 1 .. n : Nulls(n)[i] = Null
  BY <1>1, NullsShape
<1>3. /\ table \in Seq(S \cup {Null}) /\ Len(table) = m /\ DOMAIN table = 1 .. m
      /\ \A i \in 1 .. m : table[i] = IF i <= n THEN new_procs[i] ELSE Null
  BY <1>1, <1>2
<1>4. \A i \in 1 .. n : new_procs[i] # Null <=> i <= proc_num
  BY <1>1 DEF FilledTo
<1>5. \A i \in 1 .. m : table[i] # Null <=> i <= proc_num
  BY <1>1, <1>3, <1>4
<1> HIDE DEF table
<1>6. new_procs' = [table EXCEPT ![proc_num + 1] = r] /\ proc_num' = proc_num + 1
  BY DEF AddProc, table
<1> HIDE DEF m, n
<1>7. /\ new_procs' \in Seq(S \cup {Null}) /\ Len(new_procs') = m
      /\ DOMAIN new_procs' = 1 .. m
      /\ new_procs'[proc_num + 1] = r
      /\ \A i \in 1 .. m : i # proc_num + 1 => new_procs'[i] = table[i]
  BY <1>1, <1>3, <1>6
<1>8. r # Null /\ m # 0 /\ proc_num + 1 \in 1 .. m
  BY <1>1
<1>9. \A i \in 1 .. m : new_procs'[i] # Null <=> i <= proc_num + 1
  <2> TAKE i \in 1 .. m
  <2>1. CASE i = proc_num + 1
    BY <2>1, <1>7, <1>8
  <2>2. CASE i # proc_num + 1
    <3>1. new_procs'[i] = table[i] /\ (table[i] # Null <=> i <= proc_num)
      BY <2>2, <1>5, <1>7
    <3>2. i <= proc_num + 1 <=> i <= proc_num
      BY <2>2, <1>1
    <3> QED BY <3>1, <3>2
  <2> QED BY <2>1, <2>2
<1>10. proc_num' \in Nat /\ FilledTo(new_procs', proc_num')
  BY <1>1, <1>6, <1>7, <1>8, <1>9 DEF FilledTo
<1>11. \A i \in 1 .. m : i # proc_num + 1 /\ new_procs'[i] # Null =>
                            i \in 1 .. n /\ new_procs'[i] = new_procs[i]
  BY <1>1, <1>3, <1>5, <1>7
<1>12. Entries(new_procs') = New \cup {r}
  <2>1. ASSUME NEW x \in Entries(new_procs')
        PROVE  x \in New \cup {r}
    BY <1>1, <1>7, <1>11, Entered DEF New
  <2>2. ASSUME NEW x \in New
        PROVE  x \in Entries(new_procs')
    <3>1. PICK i \in 1 .. n : new_procs[i] = x /\ x # Null
      BY <1>1, Entered DEF New
    <3>2. i \in 1 .. m /\ i <= proc_num /\ i # proc_num + 1
      BY <3>1, <1>1, <1>4
    <3>3. new_procs'[i] = x
      BY <3>1, <3>2, <1>3, <1>7
    <3> QED BY <3>1, <3>2, <3>3, <1>7, Entered
  <2>3. r \in Entries(new_procs')
    BY <1>7, <1>8, Entered
  <2> QED BY <2>1, <2>2, <2>3
<1>13. Once(new_procs')
  <2>1. SUFFICES ASSUME NEW i \in 1 .. m, NEW j \in 1 .. m,
                        new_procs'[i] = new_procs'[j], new_procs'[i] # Null
                 PROVE  i = j
    BY <1>7 DEF Once
  <2>2. \A k \in 1 .. n : new_procs[k] # Null => new_procs[k] # r
    BY <1>1, Entered DEF New
  <2>3. CASE i = proc_num + 1 \/ j = proc_num + 1
    BY <2>1, <2>2, <2>3, <1>7, <1>11
  <2>4. CASE i # proc_num + 1 /\ j # proc_num + 1
    BY <2>1, <2>4, <1>1, <1>11 DEF Once
  <2> QED BY <2>3, <2>4
<1> QED BY <1>7, <1>10, <1>12, <1>13

-----------------------------------------------------------------------------
(* The records.  AllocProc takes one that is in no other place.            *)
LEMMA PlacesAreRecords ==
  ASSUME ProcTypeOK
  PROVE  /\ New \subseteq Records /\ Old \subseteq Records /\ Free \subseteq Records
         /\ Hand \subseteq Records /\ lost \subseteq Records
         /\ Len(rec) \in Nat /\ Null \notin Records
         /\ \A r \in Records : rec[r] \in [tid : Tids, time : Times]
<1> DEFINE R == [tid : Tids, time : Times]
<1>0. rec \in Seq(R)
  BY DEF ProcTypeOK
<1> HIDE DEF R
<1>1. Len(rec) \in Nat /\ \A r \in Records : rec[r] \in R
  BY <1>0 DEF Records
<1> USE DEF R
<1>2. Null \notin Records
  BY <1>1 DEF Records
<1>3. \A table \in Seq(Records \cup {Null}) : Entries(table) \subseteq Records
  BY DEF Entries
<1>4. Free \subseteq Records
  BY DEF Free, ProcTypeOK
<1> QED BY <1>1, <1>2, <1>3, <1>4 DEF ProcTypeOK, New, Old, Hand

LEMMA Taken ==
  ASSUME ProcTypeOK, Divided, Counted, NEW t \in Tids, AllocProc(t)
  PROVE  /\ rec' \in Seq([tid : Tids, time : Times])
         /\ Records' = Records \cup {proc'}
         /\ proc' \notin New \cup Old \cup Hand \cup lost
         /\ free_procs' \in Seq(Records') /\ Free' = Free \ {proc'} /\ Once(free_procs')
         /\ {num_used_procs', num_free_procs', peak'} \subseteq Nat /\ Counted'
         /\ rec'[proc'].tid = t
         /\ \A r \in Records : r # proc' => rec'[r] = rec[r]
<1>1. /\ rec \in Seq([tid : Tids, time : Times]) /\ free_procs \in Seq(Records)
      /\ {num_used_procs, num_free_procs, peak} \subseteq Nat
      /\ Len(rec) \in Nat /\ DOMAIN rec = Records
  BY DEF ProcTypeOK, Records
<1>2. num_used_procs' = num_used_procs + 1 /\ peak' = Larger(peak, num_used_procs + 1)
  BY DEF AllocProc
<1>3. CASE free_procs # << >>
  <2> DEFINE n == Len(free_procs)
             h == Head(free_procs)
  <2>1. /\ proc' = h /\ rec' = [rec EXCEPT ![h].tid = t]
        /\ free_procs' = Tail(free_procs) /\ num_free_procs' = num_free_procs - 1
    BY <1>3 DEF AllocProc
  <2>2. n \in Nat \ {0} /\ DOMAIN free_procs = 1 .. n /\ h = free_procs[1] /\ h \in Records
    BY <1>1, <1>3
  <2>3. /\ free_procs' \in Seq(Records) /\ Len(free_procs') = n - 1
        /\ DOMAIN free_procs' = 1 .. n - 1
        /\ \A i \in 1 .. n - 1 : free_procs'[i] = free_procs[i + 1]
    BY <1>1, <1>3, <2>1
  <2>4. \A i, j \in 1 .. n : free_procs[i] = free_procs[j] => i = j
    <3>1. \A i \in 1 .. n : free_procs[i] # Null
      BY <1>1, <2>2, PlacesAreRecords
    <3> QED BY <3>1, <2>2 DEF Divided, Once
  <2>5. Once(free_procs')
    BY <2>2, <2>3, <2>4 DEF Once
  <2>6. Free' = Free \ {h}
    <3>1. \A x : x \in Free <=> \E i \in 1 .. n : free_procs[i] = x
      BY <2>2 DEF Free
    <3>2. \A x : x \in Free' <=> \E i \in 1 .. n - 1 : free_procs'[i] = x
      BY <2>3 DEF Free
    <3>3. ASSUME NEW x \in Free' PROVE x \in Free \ {h}
      <4>1. PICK i \in 1 .. n - 1 : free_procs'[i] = x
        BY <3>2
      <4>2. i + 1 \in 1 .. n /\ i + 1 # 1 /\ 1 \in 1 .. n /\ free_procs[i + 1] = x
        BY <4>1, <2>2, <2>3
      <4> QED BY <4>2, <3>1, <2>2, <2>4
    <3>4. ASSUME NEW x \in Free \ {h} PROVE x \in Free'
      <4>1. PICK i \in 1 .. n : free_procs[i] = x
        BY <3>1
      <4>2. i # 1
        BY <4>1, <2>2
      <4>3. i - 1 \in 1 .. n - 1 /\ (i - 1) + 1 = i
        BY <4>2, <2>2
      <4>4. free_procs'[i - 1] = x
        BY <4>1, <4>3, <2>3
      <4> QED BY <4>3, <4>4, <3>2
    <3> QED BY <3>3, <3>4
  <2>7. h \in Free
    BY <2>2 DEF Free
  <2>8. /\ rec' \in [Records -> [tid : Tids, time : Times]]
        /\ rec'[h].tid = t /\ \A r \in Records : r # h => rec'[r] = rec[r]
    <3> HIDE DEF h
    <3>1. rec \in [Records -> [tid : Tids, time : Times]]
      BY <1>1, PlacesAreRecords
    <3>2. rec[h] \in [tid : Tids, time : Times]
      BY <3>1, <2>2
    <3>3. [rec[h] EXCEPT !.tid = t] \in [tid : Tids, time : Times]
      BY <3>2
    <3>4. rec' = [rec EXCEPT ![h] = [rec[h] EXCEPT !.tid = t]]
      BY <2>1
    <3>5. rec' \in [Records -> [tid : Tids, time : Times]] /\ rec'[h] = [rec[h] EXCEPT !.tid = t]
      BY <3>1, <3>3, <3>4, <2>2
    <3>6. \A r \in Records : r # h => rec'[r] = rec[r]
      BY <3>1, <3>4
    <3>7. rec'[h].tid = t
      BY <3>2, <3>5
    <3> QED BY <3>5, <3>6, <3>7
  <2>9. rec' \in Seq([tid : Tids, time : Times]) /\ Len(rec') = Len(rec)
    BY <1>1, <2>1, <2>2, <2>8 DEF Records
  <2>10. Records' = Records
    BY <2>9 DEF Records
  <2>11. {num_used_procs', num_free_procs', peak'} \subseteq Nat /\ Counted'
    <3>1. /\ num_used_procs + num_free_procs = Len(rec) /\ num_free_procs = n /\ Len(rec) = peak
      BY DEF Counted
    <3>2. /\ num_used_procs' = num_used_procs + 1 /\ num_free_procs' = num_free_procs - 1
          /\ Len(rec') = Len(rec) /\ Len(free_procs') = n - 1
      BY <1>2, <2>1, <2>3, <2>9
    <3>3. n \in Nat /\ n # 0 /\ num_used_procs \in Nat /\ Len(rec) \in Nat
      BY <1>1, <2>2
    <3> HIDE DEF n
    <3>4. num_used_procs + 1 <= peak
      BY <3>1, <3>3
    <3>5. peak' = peak
      BY <1>2, <3>1, <3>3, <3>4 DEF Larger
    <3>6. num_used_procs' \in Nat /\ num_free_procs' \in Nat /\ peak' \in Nat
      BY <3>1, <3>2, <3>3, <3>5
    <3>7. Counted'
      BY <3>1, <3>2, <3>3, <3>5 DEF Counted
    <3> QED BY <3>6, <3>7
  <2>12. h \notin New \cup Old \cup Hand \cup lost
    BY <2>7 DEF Divided
  <2> HIDE DEF h, n
  <2>13. /\ Records' = Records \cup {proc'} /\ free_procs' \in Seq(Records')
         /\ Free' = Free \ {proc'} /\ proc' \notin New \cup Old \cup Hand \cup lost
    BY <2>1, <2>2, <2>3, <2>6, <2>10, <2>12
  <2>14. rec'[proc'].tid = t /\ \A r \in Records : r # proc' => rec'[r] = rec[r]
    BY <2>1, <2>8
  <2> QED BY <2>5, <2>9, <2>11, <2>13, <2>14
<1>4. CASE free_procs = << >>
  <2>1. PICK v \in Garbage : rec' = Append(rec, [tid |-> t, time |-> v])
    BY <1>4 DEF AllocProc
  <2>2. proc' = Len(rec) + 1 /\ UNCHANGED <<free_procs, num_free_procs>>
    BY <1>4 DEF AllocProc
  <2>3. [tid |-> t, time |-> v] \in [tid : Tids, time : Times]
    BY DEF Times
  <2>4. /\ rec' \in Seq([tid : Tids, time : Times]) /\ Len(rec') = Len(rec) + 1
        /\ rec'[Len(rec) + 1] = [tid |-> t, time |-> v]
        /\ \A r \in 1 .. Len(rec) : rec'[r] = rec[r]
    BY <1>1, <2>1, <2>3
  <2>5. Records' = Records \cup {proc'} /\ proc' \notin Records
    BY <1>1, <2>2, <2>4 DEF Records
  <2>6. Free = {} /\ Free' = {} /\ free_procs' \in Seq(Records') /\ Once(free_procs')
    BY <1>4, <2>2, EmptyTable DEF Free
  <2>7. {num_used_procs', num_free_procs', peak'} \subseteq Nat /\ Counted'
    BY <1>1, <1>2, <1>4, <2>2, <2>4 DEF Counted, Larger
  <2> QED BY <2>2, <2>4, <2>5, <2>6, <2>7, PlacesAreRecords DEF Records
<1> QED BY <1>3, <1>4

(* The record is in the hands of read_procs, and nothing else has moved.   *)
LEMMA TakenDivided ==
  ASSUME ProcTypeOK, Divided, Counted, NEW t \in Tids, AllocProc(t),
         proc = Null, UNCHANGED <<new_procs, old_procs, lost>>
  PROVE  /\ Divided' /\ Counted' /\ proc' # Null
         /\ Hand' = {proc'} /\ New' = New /\ Old' = Old
         /\ new_procs' \in Seq(Records' \cup {Null}) /\ old_procs' \in Seq(Records' \cup {Null})
<1>1. /\ rec' \in Seq([tid : Tids, time : Times])
      /\ Records' = Records \cup {proc'}
      /\ proc' \notin New \cup Old \cup Hand \cup lost
      /\ Free' = Free \ {proc'} /\ Once(free_procs') /\ Counted'
  BY Taken
<1>2. Hand = {} /\ New' = New /\ Old' = Old
  BY DEF Hand, New, Old
<1>3. proc' # Null
  <2>1. Len(rec') \in Nat /\ proc' \in 1 .. Len(rec')
    BY <1>1 DEF Records
  <2> QED BY <2>1
<1>4. Hand' = {proc'}
  BY <1>3 DEF Hand
<1>5. Divided'
  BY <1>1, <1>2, <1>4 DEF Divided
<1>6. Records \cup {Null} \subseteq Records' \cup {Null}
  BY <1>1
<1>7. new_procs \in Seq(Records' \cup {Null}) /\ old_procs \in Seq(Records' \cup {Null})
  BY <1>6, SeqMonotonic DEF ProcTypeOK
<1> QED BY <1>1, <1>2, <1>3, <1>4, <1>5, <1>7

(* What read_stat writes is the time of the record at hand.                *)
LEMMA StatRead ==
  ASSUME ProcTypeOK, proc \in Records, ReadStat
  PROVE  /\ rec' \in Seq([tid : Tids, time : Times]) /\ Len(rec') = Len(rec)
         /\ Records' = Records
         /\ \A r \in Records : r # proc => rec'[r] = rec[r]
         /\ \A r \in Records : rec'[r].tid = rec[r].tid
         /\ kernel[rec[proc].tid].alive => rec'[proc].time = kernel[rec[proc].tid].time
<1> DEFINE t == rec[proc].tid
           R == [tid : Tids, time : Times]
<1>1. rec \in Seq(R) /\ Len(rec) \in Nat /\ rec[proc] \in R /\ \A r \in Records : rec[r] \in R
  BY PlacesAreRecords DEF ProcTypeOK
<1>2. rec \in [Records -> R] /\ t \in Tids
  BY <1>1 DEF Records
<1>3. kernel[t].time \in Times
  <2>1. kernel[t] \in Tasks
    BY <1>2 DEF ProcTypeOK
  <2> QED BY <2>1 DEF Tasks, Times
<1>4. PICK v \in Times : /\ rec' = [rec EXCEPT ![proc] = [rec[proc] EXCEPT !.time = v]]
                         /\ kernel[t].alive => v = kernel[t].time
  <2>1. CASE kernel[t].alive
    BY <1>3, <2>1 DEF ReadStat
  <2>2. CASE ~kernel[t].alive
    <3>1. PICK v \in Garbage \cup {rec[proc].time} : rec' = [rec EXCEPT ![proc].time = v]
      BY <2>2 DEF ReadStat
    <3>2. v \in Times
      BY <1>1, ProcTableAssumption DEF Times
    <3> QED BY <2>2, <3>1, <3>2
  <2> QED BY <2>1, <2>2
<1>5. [rec[proc] EXCEPT !.time = v] \in R
  BY <1>1
<1>6. [rec[proc] EXCEPT !.time = v].time = v /\ [rec[proc] EXCEPT !.time = v].tid = rec[proc].tid
  BY <1>1
<1> HIDE DEF R, t
<1>7. /\ rec' \in [Records -> R] /\ rec'[proc] = [rec[proc] EXCEPT !.time = v]
      /\ \A r \in Records : r # proc => rec'[r] = rec[r]
  BY <1>2, <1>4, <1>5
<1>8. rec' \in Seq(R) /\ Len(rec') = Len(rec)
  BY <1>1, <1>4, <1>5, <1>7 DEF Records
<1> QED BY <1>4, <1>6, <1>7, <1>8 DEF R, t, Records

-----------------------------------------------------------------------------
(* Every step keeps the records accounted for.                             *)
Kept == UNCHANGED <<rec, new_procs, old_procs, proc_num, free_procs, num_used_procs,
                    num_free_procs, proc, lost, peak>>

LEMMA KeptAccounts ==
  ASSUME Accounting, Kept
  PROVE  /\ Divided' /\ Counted' /\ New' = New /\ Old' = Old /\ Hand' = Hand /\ Records' = Records
         /\ FilledTo(new_procs', proc_num') <=> FilledTo(new_procs, proc_num)
<1>1. /\ New' = New /\ Old' = Old /\ Hand' = Hand /\ Free' = Free /\ Records' = Records
      /\ lost' = lost /\ new_procs' = new_procs /\ old_procs' = old_procs /\ free_procs' = free_procs
  BY DEF Kept, New, Old, Hand, Free, Records
<1>2. Divided'
  BY <1>1 DEF Accounting, Divided
<1>3. Counted'
  BY DEF Accounting, Counted, Kept
<1>4. FilledTo(new_procs', proc_num') <=> FilledTo(new_procs, proc_num)
  BY DEF Kept
<1> QED BY <1>1, <1>2, <1>3, <1>4

LEMMA PidsShape == Pids \subseteq Tids /\ \A p \in Pids : PidOf[p] = p
BY DEF Pids

LEMMA OpenProcAccounts ==
  ASSUME Accounting, OpenProc
  PROVE  Accounting'
<1> USE DEF Accounting
<1>1. /\ step = "open" /\ step' = "pids" /\ new_procs' = Nulls(InitProcs) /\ proc_num' = 0
      /\ UNCHANGED <<options, rec, old_procs, free_procs, num_used_procs, num_free_procs,
                     first, tids, pid, proc, lost, peak>>
      /\ pids' \subseteq Pids /\ new_procs = << >>
  BY DEF OpenProc, Control
<1>2. /\ new_procs' \in Seq(Records \cup {Null})
      /\ Entries(new_procs') = {} /\ Once(new_procs') /\ FilledTo(new_procs', 0)
  BY <1>1, NewTable
<1>3. New = {} /\ New' = {} /\ Old' = Old /\ Hand' = Hand /\ Free' = Free /\ Records' = Records
  BY <1>1, <1>2, EmptyTable DEF New, Old, Hand, Free, Records
<1>4. Divided'
  BY <1>1, <1>2, <1>3 DEF Divided
<1>5. Counted'
  BY <1>1 DEF Counted
<1>6. Filled'
  BY <1>1, <1>2 DEF Filled
<1>7. Control'
  BY <1>1 DEF Control, Reading
<1>8. ProcTypeOK'
  <2>1. [t \in Tids |-> Unseen] \in [Tids -> [life : 0 .. MaxLife, time : 0 .. MaxTime]]
    BY DEF Unseen
  <2>2. {this', last'} \subseteq [Tids -> [life : 0 .. MaxLife, time : 0 .. MaxTime]]
    BY <2>1 DEF OpenProc, ProcTypeOK
  <2>3. alive' \subseteq Tids
    BY DEF OpenProc
  <2> QED BY <1>1, <1>2, <1>3, <2>2, <2>3 DEF ProcTypeOK, OpenProc
<1> QED BY <1>4, <1>5, <1>6, <1>7, <1>8

LEMMA NextPidAccounts ==
  ASSUME Accounting, NextPid
  PROVE  Accounting'
<1> USE DEF Accounting
<1>1. PICK p \in pids :
        /\ pids' = pids \ {p}
        /\ IF ~Wanted(p)
           THEN UNCHANGED <<step, pid, rec, proc, free_procs, num_free_procs, num_used_procs, peak>>
           ELSE /\ pid' = p
                /\ IF options.threads
                   THEN /\ step' = "opentask"
                        /\ UNCHANGED <<rec, proc, free_procs, num_free_procs, num_used_procs, peak>>
                   ELSE step' = "stat" /\ AllocProc(p)
  BY DEF NextPid
<1>2. /\ step = "pids" /\ proc = Null /\ tids = {} /\ Hand = {}
      /\ UNCHANGED <<kernel, options, new_procs, old_procs, proc_num, first, iterations, tids,
                     events, alive, this, last, lost>>
  BY DEF NextPid, Control, Hand
<1>3. p \in Pids /\ p \in Tids /\ PidOf[p] = p /\ pids' \subseteq Pids
  <2>1. pids \subseteq Pids
    BY DEF ProcTypeOK
  <2> QED BY <1>1, <2>1, PidsShape
<1>4. FilledTo(new_procs', proc_num')
  <2>1. FilledTo(new_procs, proc_num)
    BY <1>2 DEF Filled, Reading
  <2> QED BY <1>2, <2>1
<1>5. CASE ~Wanted(p) \/ options.threads
  <2>1. Kept /\ ((step' = "pids" /\ pid' = pid) \/ (step' = "opentask" /\ pid' = p /\ options.threads))
    BY <1>1, <1>2, <1>5 DEF Kept
  <2>2. Divided' /\ Counted' /\ Records' = Records
    BY <2>1, KeptAccounts
  <2>3. Filled'
    BY <1>4 DEF Filled
  <2>4. Control'
    BY <1>1, <1>2, <1>3, <2>1 DEF Control, Reading, Kept
  <2>5. ProcTypeOK'
    <3>1. pid' \in Pids \cup {Null} /\ step' \in {"pids", "opentask"}
      BY <1>3, <2>1 DEF ProcTypeOK
    <3>2. UNCHANGED <<rec, new_procs, old_procs, proc_num, free_procs, num_used_procs,
                      num_free_procs, proc, lost, peak>>
      BY <2>1 DEF Kept
    <3> QED BY <1>2, <1>3, <2>2, <3>1, <3>2 DEF ProcTypeOK
  <2> QED BY <2>2, <2>3, <2>4, <2>5
<1>6. CASE Wanted(p) /\ ~options.threads
  <2>1. step' = "stat" /\ pid' = p /\ AllocProc(p) /\ pids' = pids \ {p}
    BY <1>1, <1>6
  <2>2. /\ Divided' /\ Counted' /\ proc' # Null /\ Hand' = {proc'}
        /\ new_procs' \in Seq(Records' \cup {Null}) /\ old_procs' \in Seq(Records' \cup {Null})
    BY <1>2, <1>3, <2>1, TakenDivided
  <2>3. /\ rec' \in Seq([tid : Tids, time : Times]) /\ Records' = Records \cup {proc'}
        /\ free_procs' \in Seq(Records')
        /\ {num_used_procs', num_free_procs', peak'} \subseteq Nat
        /\ rec'[proc'].tid = p
    BY <1>3, <2>1, Taken
  <2>4. Filled'
    BY <1>4 DEF Filled
  <2>5. Control'
    BY <1>2, <1>3, <1>6, <2>1, <2>2, <2>3 DEF Control, Reading
  <2>6. ProcTypeOK'
    BY <1>2, <1>3, <2>1, <2>2, <2>3 DEF ProcTypeOK
  <2> QED BY <2>2, <2>4, <2>5, <2>6
<1> QED BY <1>5, <1>6

LEMMA ReadStatAccounts ==
  ASSUME Accounting, ReadStat
  PROVE  Accounting'
<1> USE DEF Accounting
<1>1. /\ step = "stat"
      /\ UNCHANGED <<kernel, options, old_procs, free_procs, num_used_procs, num_free_procs,
                     first, iterations, pids, tids, pid, events, alive, last, lost, peak>>
  BY DEF ReadStat
<1>2. /\ proc # Null /\ proc \in Records /\ Hand = {proc}
      /\ pid \in Pids /\ pid \notin pids /\ old_procs = old_procs'
      /\ PidOf[rec[proc].tid] = pid /\ rec[proc].tid \notin tids
      /\ ~options.threads => rec[proc].tid = pid
  BY <1>1 DEF Control, ProcTypeOK, Hand
<1>3. /\ rec' \in Seq([tid : Tids, time : Times]) /\ Len(rec') = Len(rec)
      /\ Records' = Records /\ \A r \in Records : rec'[r].tid = rec[r].tid
  BY <1>2, StatRead
<1>4. FilledTo(new_procs, proc_num) /\ proc \notin New /\ Null \notin Records
  BY <1>1, <1>2, PlacesAreRecords DEF Filled, Reading, Divided
<1>5. this' \in [Tids -> [life : 0 .. MaxLife, time : 0 .. MaxTime]]
  <2> DEFINE t == rec[proc].tid
  <2>1. t \in Tids /\ kernel[t] \in Tasks
    <3>1. rec[proc] \in [tid : Tids, time : Times]
      BY <1>2, PlacesAreRecords
    <3> QED BY <3>1 DEF ProcTypeOK
  <2>2. [life |-> kernel[t].life, time |-> kernel[t].time] \in [life : 0 .. MaxLife, time : 0 .. MaxTime]
    BY <2>1 DEF Tasks
  <2>3. \/ this' = this
        \/ this' = [this EXCEPT ![t] = [life |-> kernel[t].life, time |-> kernel[t].time]]
    BY DEF ReadStat
  <2> HIDE DEF t
  <2>4. this \in [Tids -> [life : 0 .. MaxLife, time : 0 .. MaxTime]]
    BY DEF ProcTypeOK
  <2> QED BY <2>1, <2>2, <2>3, <2>4
<1>6. Old' = Old /\ Free' = Free
  BY <1>1 DEF Old, Free
<1>7. Counted'
  BY <1>1, <1>3 DEF Counted
<1>8. CASE options.threads
  <2>1. AddProc(proc) /\ proc' = Null /\ step' = "tids"
    BY <1>8 DEF ReadStat
  <2>2. /\ new_procs' \in Seq(Records \cup {Null})
        /\ proc_num' \in Nat /\ FilledTo(new_procs', proc_num')
        /\ Once(new_procs') /\ New' = New \cup {proc}
    BY <1>2, <1>4, <2>1, Added DEF ProcTypeOK, Divided, New
  <2>3. Hand' = {}
    BY <2>1 DEF Hand
  <2>4. Divided'
    BY <1>1, <1>2, <1>3, <1>6, <2>2, <2>3 DEF Divided
  <2>5. Filled'
    BY <2>2 DEF Filled
  <2>6. Control'
    BY <1>1, <1>2, <1>8, <2>1 DEF Control, Reading
  <2>7. ProcTypeOK'
    <3>1. /\ old_procs' \in Seq(Records' \cup {Null}) /\ free_procs' \in Seq(Records')
          /\ new_procs' \in Seq(Records' \cup {Null}) /\ lost' \subseteq Records'
      BY <1>1, <1>3, <2>2 DEF ProcTypeOK
    <3>2. {proc_num', num_used_procs', num_free_procs', peak', events'} \subseteq Nat
      BY <1>1, <2>2 DEF ProcTypeOK
    <3>3. last' \in [Tids -> [life : 0 .. MaxLife, time : 0 .. MaxTime]]
      BY <1>1 DEF ProcTypeOK
    <3> QED BY <1>1, <1>3, <1>5, <2>1, <3>1, <3>2, <3>3 DEF ProcTypeOK
  <2> QED BY <1>7, <2>4, <2>5, <2>6, <2>7
<1>9. CASE ~options.threads
  <2>1. UNCHANGED <<new_procs, proc_num, proc>> /\ step' = "opentask"
    BY <1>9 DEF ReadStat
  <2>2. New' = New /\ Hand' = Hand
    BY <2>1 DEF New, Hand
  <2>3. Divided'
    BY <1>1, <1>3, <1>6, <2>1, <2>2 DEF Divided
  <2>4. Filled'
    BY <1>4, <2>1 DEF Filled
  <2>5. Control'
    BY <1>1, <1>2, <1>3, <1>9, <2>1 DEF Control, Reading
  <2>6. ProcTypeOK'
    <3>1. /\ old_procs' \in Seq(Records' \cup {Null}) /\ free_procs' \in Seq(Records')
          /\ new_procs' \in Seq(Records' \cup {Null}) /\ lost' \subseteq Records'
      BY <1>1, <1>3, <2>1 DEF ProcTypeOK
    <3>2. last' \in [Tids -> [life : 0 .. MaxLife, time : 0 .. MaxTime]]
      BY <1>1 DEF ProcTypeOK
    <3> QED BY <1>1, <1>3, <1>5, <2>1, <3>1, <3>2 DEF ProcTypeOK
  <2> QED BY <1>7, <2>3, <2>4, <2>5, <2>6
<1> QED BY <1>8, <1>9

LEMMA OpenTaskAccounts ==
  ASSUME Accounting, OpenTask
  PROVE  Accounting'
<1> USE DEF Accounting
<1>1. /\ step = "opentask"
      /\ UNCHANGED <<kernel, options, rec, old_procs, free_procs, num_used_procs, num_free_procs,
                     first, iterations, pids, pid, events, alive, this, last, peak>>
  BY DEF OpenTask
<1>2. /\ pid \in Pids /\ pid \notin pids /\ tids = {}
      /\ proc # Null <=> ~options.threads
      /\ proc # Null => proc \in Records
  BY <1>1 DEF Control, ProcTypeOK
<1>3. FilledTo(new_procs, proc_num) /\ Null \notin Records
  BY <1>1, PlacesAreRecords DEF Filled, Reading
<1>4. Old' = Old /\ Free' = Free /\ Records' = Records
  BY <1>1 DEF Old, Free, Records
<1>5. Counted'
  BY <1>1 DEF Counted
<1>6. CASE ~kernel[pid].alive
  <2>1. /\ step' = "pids" /\ proc' = Null /\ lost' = lost \cup Hand
        /\ UNCHANGED <<tids, new_procs, proc_num>>
    BY <1>6 DEF OpenTask, Hand
  <2>2. New' = New /\ Hand' = {} /\ Hand \subseteq Records
    BY <1>2, <2>1 DEF New, Hand
  <2>3. Divided'
    BY <1>1, <1>4, <2>1, <2>2 DEF Divided
  <2>4. Filled'
    BY <1>3, <2>1 DEF Filled
  <2>5. options.threads => Hand = {}
    BY <1>2 DEF Hand
  <2>6. Control'
    BY <1>1, <1>2, <2>1, <2>5 DEF Control, Reading
  <2>7. ProcTypeOK'
    BY <1>1, <1>4, <2>1, <2>2 DEF ProcTypeOK
  <2> QED BY <1>5, <2>3, <2>4, <2>6, <2>7
<1>7. CASE kernel[pid].alive /\ options.threads
  <2>1. /\ step' = "tids" /\ tids' = {t \in Tids : PidOf[t] = pid /\ kernel[t].alive}
        /\ UNCHANGED <<proc, lost, new_procs, proc_num>>
    BY <1>7 DEF OpenTask
  <2>2. Kept
    BY <1>1, <2>1 DEF Kept
  <2>3. Divided'
    BY <2>2, KeptAccounts
  <2>4. Filled'
    BY <1>3, <2>1 DEF Filled
  <2>5. Control'
    BY <1>1, <1>2, <1>7, <2>1 DEF Control, Reading
  <2>6. tids' \subseteq Tids
    BY <2>1
  <2> HIDE <2>1
  <2>7. step' = "tids" /\ UNCHANGED <<proc, lost, new_procs, proc_num>>
    BY <2>1
  <2>8. ProcTypeOK'
    BY <1>1, <1>4, <2>6, <2>7 DEF ProcTypeOK
  <2> QED BY <1>5, <2>3, <2>4, <2>5, <2>8
<1>8. CASE kernel[pid].alive /\ ~options.threads
  <2>1. AddProc(proc) /\ proc' = Null /\ step' = "pids" /\ UNCHANGED <<tids, lost>>
    BY <1>8 DEF OpenTask
  <2>2. proc \in Records /\ Hand = {proc} /\ proc \notin New /\ Hand' = {}
    BY <1>2, <1>8, <2>1 DEF Hand, Divided
  <2>3. /\ new_procs' \in Seq(Records \cup {Null})
        /\ proc_num' \in Nat /\ FilledTo(new_procs', proc_num')
        /\ Once(new_procs') /\ New' = New \cup {proc}
    BY <1>3, <2>1, <2>2, Added DEF ProcTypeOK, Divided, New
  <2>4. Divided'
    BY <1>1, <1>4, <2>1, <2>2, <2>3 DEF Divided
  <2>5. Filled'
    BY <2>3 DEF Filled
  <2>6. Control'
    BY <1>1, <1>2, <1>8, <2>1 DEF Control, Reading
  <2>7. ProcTypeOK'
    BY <1>1, <1>4, <2>1, <2>3 DEF ProcTypeOK
  <2> QED BY <1>5, <2>4, <2>5, <2>6, <2>7
<1> QED BY <1>6, <1>7, <1>8

LEMMA NextTidAccounts ==
  ASSUME Accounting, NextTid
  PROVE  Accounting'
<1> USE DEF Accounting
<1>1. PICK t \in tids : tids' = tids \ {t} /\ AllocProc(t)
  BY DEF NextTid
<1>2. /\ step = "tids" /\ step' = "stat"
      /\ UNCHANGED <<kernel, options, new_procs, old_procs, proc_num, first, iterations, pids, pid,
                     events, alive, this, last, lost>>
  BY DEF NextTid
<1>3. /\ proc = Null /\ options.threads /\ pid \in Pids /\ pid \notin pids
      /\ t \in Tids /\ PidOf[t] = pid /\ \A u \in tids : PidOf[u] = pid
  BY <1>1, <1>2 DEF Control, ProcTypeOK
<1>4. FilledTo(new_procs', proc_num')
  <2>1. FilledTo(new_procs, proc_num)
    BY <1>2 DEF Filled, Reading
  <2> QED BY <1>2, <2>1
<1>5. /\ Divided' /\ Counted' /\ proc' # Null /\ Hand' = {proc'}
      /\ new_procs' \in Seq(Records' \cup {Null}) /\ old_procs' \in Seq(Records' \cup {Null})
  BY <1>1, <1>2, <1>3, TakenDivided
<1>6. /\ rec' \in Seq([tid : Tids, time : Times]) /\ Records' = Records \cup {proc'}
      /\ free_procs' \in Seq(Records')
      /\ {num_used_procs', num_free_procs', peak'} \subseteq Nat
      /\ rec'[proc'].tid = t
  BY <1>1, <1>3, Taken
<1>7. Filled'
  BY <1>4 DEF Filled
<1>8. Control'
  BY <1>1, <1>2, <1>3, <1>5, <1>6 DEF Control, Reading
<1>9. ProcTypeOK'
  BY <1>1, <1>2, <1>3, <1>5, <1>6 DEF ProcTypeOK
<1> QED BY <1>5, <1>7, <1>8, <1>9

(* The steps that leave every record where it is.                          *)
LEMMA CloseAccounts ==
  ASSUME Accounting, CloseTask \/ CloseProc \/ FreedAll \/ MainReturns
  PROVE  Accounting'
<1> USE DEF Accounting
<1>1. /\ Kept
      /\ UNCHANGED <<kernel, options, first, iterations, pids, tids, events, alive, this, last>>
  BY DEF CloseTask, CloseProc, FreedAll, MainReturns, Kept, history
<1>2. \/ step = "tids" /\ tids = {} /\ step' = "pids" /\ pid' = pid
      \/ /\ step = "pids" /\ pids = {} /\ step' = (IF first THEN "loop" ELSE "print")
         /\ pid' = Null
      \/ step = "free" /\ old_procs = << >> /\ step' = "loop" /\ pid' = pid
      \/ step = "loop" /\ step' = "done" /\ pid' = pid
  BY DEF CloseTask, CloseProc, FreedAll, MainReturns
<1>3. Divided' /\ Counted' /\ Records' = Records
  BY <1>1, KeptAccounts
<1>4. Filled'
  <2>1. step' \in {"pids", "print"} => FilledTo(new_procs, proc_num)
    BY <1>2 DEF Filled, Reading
  <2>2. FilledTo(new_procs', proc_num') <=> FilledTo(new_procs, proc_num)
    BY <1>1, KeptAccounts
  <2>3. step' \in {"pids", "print", "loop", "done"}
    BY <1>2
  <2> QED BY <2>1, <2>2, <2>3 DEF Filled, Reading
<1>5. Control'
  BY <1>1, <1>2 DEF Control, Reading, Kept
<1>6. ProcTypeOK'
  BY <1>1, <1>2, <1>3 DEF ProcTypeOK, Kept
<1> QED BY <1>3, <1>4, <1>5, <1>6

(* A rearrangement of the entries holds the same entries.                  *)
LEMMA Rearranged ==
  ASSUME NEW S, NEW table \in Seq(S), NEW f \in Orders(table)
  PROVE  LET sorted == [i \in DOMAIN table |-> table[f[i]]]
         IN  /\ sorted \in Seq(S) /\ DOMAIN sorted = DOMAIN table
             /\ Entries(sorted) = Entries(table)
             /\ Once(table) => Once(sorted)
<1> DEFINE n == Len(table)
           sorted == [i \in DOMAIN table |-> table[f[i]]]
<1>1. n \in Nat /\ DOMAIN table = 1 .. n
  OBVIOUS
<1>2. f \in [1 .. n -> 1 .. n] /\ \A i, j \in 1 .. n : i # j => f[i] # f[j]
  BY <1>1 DEF Orders
<1> HIDE DEF n
<1>3. \A j \in 1 .. n : \E i \in 1 .. n : f[i] = j
  <2>1. IsFiniteSet(1 .. n)
    BY <1>1, FS_Interval
  <2>2. f \in Injection(1 .. n, 1 .. n)
    BY <1>2 DEF Injection, IsInjective
  <2>3. f \in Surjection(1 .. n, 1 .. n)
    BY <2>1, <2>2, FS_Injection
  <2> QED BY <2>3 DEF Surjection
<1>4. sorted \in [1 .. n -> S] /\ \A i \in 1 .. n : sorted[i] = table[f[i]]
  <2>1. \A i \in 1 .. n : table[i] \in S
    BY DEF n
  <2> QED BY <1>1, <1>2, <2>1
<1> HIDE DEF sorted
<1>5. sorted \in Seq(S) /\ DOMAIN sorted = 1 .. n
  <2>1. \A T : T \in {[1 .. m -> S] : m \in Nat} => T \subseteq Seq(S)
    BY SeqDef
  <2>2. [1 .. n -> S] \subseteq Seq(S)
    BY <1>1, <2>1
  <2> QED BY <1>4, <2>2
<1>6. Entries(sorted) = Entries(table)
  <2>1. ASSUME NEW r \in Entries(sorted) PROVE r \in Entries(table)
    <3>1. PICK i \in 1 .. n : sorted[i] = r /\ r # Null
      BY <1>5, Entered
    <3>2. f[i] \in 1 .. n /\ table[f[i]] = r
      BY <1>2, <1>4, <3>1
    <3> QED BY <1>1, <3>1, <3>2, Entered
  <2>2. ASSUME NEW r \in Entries(table) PROVE r \in Entries(sorted)
    <3>1. PICK j \in 1 .. n : table[j] = r /\ r # Null
      BY <1>1, Entered
    <3>2. PICK i \in 1 .. n : f[i] = j
      BY <1>3
    <3> QED BY <3>1, <3>2, <1>4, <1>5, Entered
  <2> QED BY <2>1, <2>2
<1>7. ASSUME Once(table) PROVE Once(sorted)
  <2>1. SUFFICES ASSUME NEW i \in 1 .. n, NEW j \in 1 .. n, sorted[i] = sorted[j], sorted[i] # Null
                 PROVE  i = j
    BY <1>5 DEF Once
  <2>2. f[i] \in 1 .. n /\ f[j] \in 1 .. n /\ table[f[i]] = table[f[j]] /\ table[f[i]] # Null
    BY <1>2, <1>4, <2>1
  <2>3. f[i] = f[j]
    BY <1>1, <1>7, <2>2 DEF Once
  <2> QED BY <1>2, <2>3
<1> QED BY <1>1, <1>5, <1>6, <1>7 DEF sorted

LEMMA PrintProcsAccounts ==
  ASSUME Accounting, PrintProcs
  PROVE  Accounting' /\ New' = New
<1> USE DEF Accounting
<1>1. PICK f \in Orders(new_procs) : new_procs' = [i \in DOMAIN new_procs |-> new_procs[f[i]]]
  BY DEF PrintProcs
<1>2. /\ step = "print" /\ step' = "free"
      /\ UNCHANGED <<kernel, options, rec, old_procs, proc_num, free_procs, num_used_procs,
                     num_free_procs, first, iterations, pids, tids, pid, proc,
                     events, alive, this, last, lost, peak>>
  BY DEF PrintProcs, history
<1>3. new_procs \in Seq(Records \cup {Null}) /\ Once(new_procs)
  BY DEF ProcTypeOK, Divided
<1>4. /\ new_procs' \in Seq(Records \cup {Null}) /\ New' = New /\ Once(new_procs')
  <2> DEFINE sorted == [i \in DOMAIN new_procs |-> new_procs[f[i]]]
  <2>1. /\ sorted \in Seq(Records \cup {Null}) /\ Entries(sorted) = Entries(new_procs)
        /\ Once(new_procs) => Once(sorted)
    BY <1>3, Rearranged
  <2>2. new_procs' = sorted
    BY <1>1
  <2> QED BY <1>3, <2>1, <2>2 DEF New
<1>5. Old' = Old /\ Hand' = Hand /\ Free' = Free /\ Records' = Records
  BY <1>2 DEF Old, Hand, Free, Records
<1>6. Divided' /\ Counted'
  BY <1>2, <1>4, <1>5 DEF Divided, Counted
<1>7. Filled' /\ Control'
  BY <1>2 DEF Filled, Control, Reading
<1>8. ProcTypeOK'
  BY <1>2, <1>4, <1>5 DEF ProcTypeOK
<1> QED BY <1>4, <1>6, <1>7, <1>8

LEMMA FreeProcAccounts ==
  ASSUME Accounting, FreeProc
  PROVE  Accounting'
<1> USE DEF Accounting
<1> DEFINE h == Head(old_procs)
           n == Len(old_procs)
<1>1. /\ step = "free" /\ old_procs # << >> /\ old_procs' = Tail(old_procs)
      /\ UNCHANGED <<kernel, options, rec, new_procs, proc_num, step, first, iterations, pids,
                     tids, pid, proc, events, alive, this, last, lost, peak>>
  BY DEF FreeProc, history
<1>2. old_procs \in Seq(Records \cup {Null}) /\ free_procs \in Seq(Records) /\ Len(free_procs) \in Nat
  BY DEF ProcTypeOK
<1>3. n \in Nat \ {0} /\ DOMAIN old_procs = 1 .. n /\ h = old_procs[1] /\ h \in Records \cup {Null}
  BY <1>1, <1>2
<1>4. /\ old_procs' \in Seq(Records \cup {Null}) /\ DOMAIN old_procs' = 1 .. n - 1
      /\ \A i \in 1 .. n - 1 : old_procs'[i] = old_procs[i + 1]
  BY <1>1, <1>2
<1>5. \A i, j \in 1 .. n : old_procs[i] = old_procs[j] /\ old_procs[i] # Null => i = j
  BY <1>3 DEF Divided, Once
<1>6. New' = New /\ Hand' = Hand /\ Records' = Records
  BY <1>1 DEF New, Hand, Records
<1> HIDE DEF n, h
<1>7. Once(old_procs')
  <2>1. SUFFICES ASSUME NEW i \in 1 .. n - 1, NEW j \in 1 .. n - 1,
                        old_procs'[i] = old_procs'[j], old_procs'[i] # Null
                 PROVE  i = j
    BY <1>4 DEF Once
  <2>2. i + 1 \in 1 .. n /\ j + 1 \in 1 .. n
    BY <1>3
  <2>3. i + 1 = j + 1
    BY <1>4, <1>5, <2>1, <2>2
  <2> QED BY <2>3
<1>8. Old' = Old \ {h}
  <2>1. \A x : x \in Old <=> x # Null /\ \E i \in 1 .. n : old_procs[i] = x
    BY <1>3, Entered DEF Old
  <2>2. \A x : x \in Old' <=> x # Null /\ \E i \in 1 .. n - 1 : old_procs'[i] = x
    <3>1. Old' = Entries(old_procs')
      BY DEF Old
    <3>2. \A x : x \in Entries(old_procs') <=> x # Null /\ \E i \in DOMAIN old_procs' : old_procs'[i] = x
      BY Entered
    <3> QED BY <1>4, <3>1, <3>2
  <2>3. ASSUME NEW x \in Old' PROVE x \in Old \ {h}
    <3>1. PICK i \in 1 .. n - 1 : old_procs'[i] = x /\ x # Null
      BY <2>2
    <3>2. i + 1 \in 1 .. n /\ i + 1 # 1 /\ 1 \in 1 .. n /\ old_procs[i + 1] = x
      BY <3>1, <1>3, <1>4
    <3> QED BY <3>1, <3>2, <2>1, <1>3, <1>5
  <2>4. ASSUME NEW x \in Old \ {h} PROVE x \in Old'
    <3>1. PICK i \in 1 .. n : old_procs[i] = x /\ x # Null
      BY <2>1
    <3>2. i # 1
      BY <3>1, <1>3
    <3>3. i - 1 \in 1 .. n - 1 /\ (i - 1) + 1 = i
      BY <3>2, <1>3
    <3>4. old_procs'[i - 1] = x
      BY <3>1, <3>3, <1>4
    <3> QED BY <3>1, <3>3, <3>4, <2>2
  <2> QED BY <2>3, <2>4
<1>9. Filled' /\ Control'
  BY <1>1 DEF Filled, Control, Reading
<1>10. CASE h = Null
  <2>1. UNCHANGED <<free_procs, num_used_procs, num_free_procs>>
    BY <1>10 DEF FreeProc, h
  <2>2. Free' = Free /\ Null \notin Old
    BY <2>1 DEF Free, Old, Entries
  <2>3. Divided' /\ Counted'
    BY <1>1, <1>6, <1>7, <1>8, <1>10, <2>1, <2>2 DEF Divided, Counted
  <2>4. ProcTypeOK'
    BY <1>1, <1>4, <1>6, <2>1 DEF ProcTypeOK
  <2> QED BY <1>9, <2>3, <2>4
<1>11. CASE h # Null
  <2>1. /\ free_procs' = <<h>> \o free_procs
        /\ num_used_procs' = num_used_procs - 1 /\ num_free_procs' = num_free_procs + 1
    BY <1>11 DEF FreeProc, h
  <2>2. h \in Records /\ h \in Old /\ h \notin Free
    <3>1. h \in Old
      BY <1>3, <1>11, Entered DEF Old
    <3> QED BY <1>3, <1>11, <3>1 DEF Divided
  <2> DEFINE m == Len(free_procs)
  <2>3. /\ free_procs' \in Seq(Records) /\ Len(free_procs') = m + 1 /\ DOMAIN free_procs' = 1 .. m + 1
        /\ free_procs'[1] = h /\ \A i \in 2 .. m + 1 : free_procs'[i] = free_procs[i - 1]
    BY <1>2, <2>1, <2>2
  <2>4. m \in Nat /\ DOMAIN free_procs = 1 .. m
    BY <1>2
  <2> HIDE DEF m
  <2>5. \A x : x \in Free <=> \E i \in 1 .. m : free_procs[i] = x
    BY <2>4 DEF Free
  <2>6. \A x : x \in Free' <=> \E i \in 1 .. m + 1 : free_procs'[i] = x
    BY <2>3 DEF Free
  <2>7. Free' = Free \cup {h}
    <3>1. ASSUME NEW x \in Free' PROVE x \in Free \cup {h}
      <4>1. PICK i \in 1 .. m + 1 : free_procs'[i] = x
        BY <2>6
      <4>2. CASE i = 1
        BY <4>1, <4>2, <2>3
      <4>3. CASE i # 1
        <5>1. i \in 2 .. m + 1 /\ i - 1 \in 1 .. m
          BY <4>3, <2>4
        <5> QED BY <4>1, <5>1, <2>3, <2>5
      <4> QED BY <4>2, <4>3
    <3>2. ASSUME NEW x \in Free PROVE x \in Free'
      <4>1. PICK i \in 1 .. m : free_procs[i] = x
        BY <2>5
      <4>2. i + 1 \in 2 .. m + 1 /\ i + 1 \in 1 .. m + 1 /\ (i + 1) - 1 = i
        BY <2>4
      <4> QED BY <4>1, <4>2, <2>3, <2>6
    <3>3. h \in Free'
      BY <2>3, <2>4, <2>6
    <3> QED BY <3>1, <3>2, <3>3
  <2>8. Once(free_procs')
    <3>1. SUFFICES ASSUME NEW i \in 1 .. m + 1, NEW j \in 1 .. m + 1,
                          free_procs'[i] = free_procs'[j]
                   PROVE  i = j
      BY <2>3 DEF Once
    <3>2. \A k \in 2 .. m + 1 : k - 1 \in 1 .. m /\ free_procs'[k] = free_procs[k - 1]
      BY <2>3, <2>4
    <3>3. \A k \in 2 .. m + 1 : free_procs'[k] # h
      BY <3>2, <2>2, <2>5
    <3>4. \A x, y \in 1 .. m : free_procs[x] = free_procs[y] => x = y
      <4>1. \A x \in 1 .. m : free_procs[x] # Null
        BY <1>2, <2>4, PlacesAreRecords
      <4> QED BY <4>1, <2>4 DEF Divided, Once
    <3>5. CASE i = 1 \/ j = 1
      <4>1. (i = 1 \/ i \in 2 .. m + 1) /\ (j = 1 \/ j \in 2 .. m + 1)
        OBVIOUS
      <4> QED BY <3>1, <3>3, <3>5, <4>1, <2>3
    <3>6. CASE i # 1 /\ j # 1
      <4>1. i \in 2 .. m + 1 /\ j \in 2 .. m + 1
        BY <3>6
      <4>2. i - 1 = j - 1
        BY <3>1, <3>2, <3>4, <4>1
      <4> QED BY <4>2
    <3> QED BY <3>5, <3>6
  <2>9. Divided'
    BY <1>1, <1>6, <1>7, <1>8, <2>2, <2>7, <2>8 DEF Divided
  <2>10. num_used_procs - 1 \in Nat
    <3>1. /\ Records = 1 .. Len(rec) /\ Len(rec) \in Nat
          /\ num_used_procs + m = Len(rec) /\ num_used_procs \in Nat
      <4>1. Records = 1 .. Len(rec) /\ Len(rec) \in Nat
        BY PlacesAreRecords DEF Records
      <4>2. num_used_procs + m = Len(rec)
        BY DEF Counted, m
      <4>3. num_used_procs \in Nat
        BY DEF ProcTypeOK
      <4> QED BY <4>1, <4>2, <4>3
    <3>2. num_used_procs # 0
      <4>1. SUFFICES ASSUME num_used_procs = 0 PROVE FALSE
        OBVIOUS
      <4>2. m = Len(rec)
        BY <2>4, <3>1, <4>1
      <4>3. free_procs \in [1 .. m -> 1 .. m]
        BY <1>2, <2>4, <3>1, <4>2
      <4>4. \A x, y \in 1 .. m : free_procs[x] = free_procs[y] => x = y
        <5>1. \A x \in 1 .. m : free_procs[x] # Null
          BY <1>2, <2>4, PlacesAreRecords
        <5> QED BY <5>1, <2>4 DEF Divided, Once
      <4>5. free_procs \in Injection(1 .. m, 1 .. m)
        BY <4>3, <4>4 DEF Injection, IsInjective
      <4>6. IsFiniteSet(1 .. m)
        BY <2>4, FS_Interval
      <4>7. free_procs \in Surjection(1 .. m, 1 .. m)
        BY <4>5, <4>6, FS_Injection
      <4>8. h \in 1 .. m
        BY <2>2, <3>1, <4>2
      <4>9. \E i \in 1 .. m : free_procs[i] = h
        BY <4>7, <4>8 DEF Surjection
      <4> QED BY <4>9, <2>2, <2>5
    <3> QED BY <3>1, <3>2
  <2>11. Counted'
    <3>1. /\ num_used_procs + num_free_procs = Len(rec) /\ num_free_procs = m /\ Len(rec) = peak
      BY DEF Counted, m
    <3>2. num_used_procs \in Nat
      BY DEF ProcTypeOK
    <3>3. Len(rec') = Len(rec) /\ peak' = peak /\ Len(free_procs') = m + 1
      BY <1>1, <2>3
    <3>4. num_used_procs' + num_free_procs' = num_used_procs + num_free_procs /\ num_free_procs' = m + 1
      BY <2>1, <2>4, <3>1, <3>2
    <3> QED BY <3>1, <3>3, <3>4 DEF Counted
  <2>12. ProcTypeOK'
    <3>1. num_free_procs' \in Nat /\ num_used_procs' \in Nat
      <4>1. num_free_procs \in Nat
        BY DEF ProcTypeOK
      <4> QED BY <2>1, <2>10, <4>1
    <3>2. /\ old_procs' \in Seq(Records' \cup {Null}) /\ free_procs' \in Seq(Records')
          /\ new_procs' \in Seq(Records' \cup {Null})
      BY <1>1, <1>4, <1>6, <2>3 DEF ProcTypeOK
    <3>3. lost' \subseteq Records' /\ proc' \in Records' \cup {Null}
      BY <1>1, <1>6 DEF ProcTypeOK
    <3> QED BY <1>1, <3>1, <3>2, <3>3 DEF ProcTypeOK
  <2> QED BY <1>9, <2>9, <2>11, <2>12
<1> QED BY <1>10, <1>11

LEMMA SwapAccounts ==
  ASSUME Accounting, Swap
  PROVE  Accounting'
<1> USE DEF Accounting
<1>1. /\ step = "loop" /\ step' = "open" /\ first' = FALSE
      /\ old_procs' = new_procs /\ new_procs' = << >>
      /\ iterations' = IF iterations = -1 THEN -1 ELSE iterations - 1
      /\ iterations = -1 \/ iterations > 0
      /\ UNCHANGED <<kernel, options, rec, proc_num, free_procs, num_used_procs, num_free_procs,
                     pids, tids, pid, proc, events, alive, this, last, lost, peak>>
  BY DEF Swap, history, Continues
<1>2. old_procs = << >>
  BY <1>1 DEF Control
<1>3. /\ New' = {} /\ Old' = New /\ Old = {} /\ Hand' = Hand /\ Free' = Free /\ Records' = Records
      /\ Once(new_procs') /\ new_procs' \in Seq(Records \cup {Null})
  BY <1>1, <1>2, EmptyTable DEF New, Old, Hand, Free, Records
<1>4. Divided' /\ Counted'
  BY <1>1, <1>3 DEF Divided, Counted
<1>5. Filled' /\ Control'
  BY <1>1 DEF Filled, Control, Reading
<1>6. iterations' \in Nat \cup {-1}
  BY <1>1 DEF ProcTypeOK
<1>7. ProcTypeOK'
  BY <1>1, <1>3, <1>6 DEF ProcTypeOK
<1> QED BY <1>4, <1>5, <1>7

(* What the tasks do moves no record.                                      *)
KernelSteps == \E t \in Tids : Run(t) \/ Exit(t) \/ Create(t)

LEMMA KernelAccounts ==
  ASSUME Accounting, KernelSteps
  PROVE  /\ Accounting' /\ UNCHANGED <<monitor, this, last>>
         /\ New' = New /\ Old' = Old /\ Hand' = Hand
<1> USE DEF Accounting
<1>1. PICK t \in Tids : Run(t) \/ Exit(t) \/ Create(t)
  BY DEF KernelSteps
<1>2. UNCHANGED <<monitor, this, last, lost, peak>>
  BY <1>1 DEF Run, Exit, Create
<1>3. Kept /\ UNCHANGED <<options, step, first, iterations, pids, tids, pid>>
  BY <1>2 DEF Kept, monitor
<1>4. /\ Divided' /\ Counted' /\ New' = New /\ Old' = Old /\ Hand' = Hand /\ Records' = Records
  BY <1>3, KeptAccounts
<1>5. Filled'
  BY <1>3, KeptAccounts DEF Filled
<1>6. Control'
  BY <1>3 DEF Control, Kept
<1>7. kernel' \in [Tids -> Tasks]
  <2>1. kernel \in [Tids -> Tasks]
    BY DEF ProcTypeOK
  <2>2. CASE Run(t)
    <3>1. kernel[t] \in Tasks /\ kernel[t].time + 1 \in 0 .. MaxTime
      BY <2>1, <2>2 DEF Tasks, Run
    <3>2. [kernel[t] EXCEPT !.time = kernel[t].time + 1] \in Tasks
      BY <3>1 DEF Tasks
    <3>3. kernel' = [kernel EXCEPT ![t] = [kernel[t] EXCEPT !.time = kernel[t].time + 1]]
      BY <2>2 DEF Run
    <3> QED BY <2>1, <3>2, <3>3
  <2>3. CASE Exit(t)
    <3>1. \A u \in Tids : [kernel[u] EXCEPT !.alive = kernel[u].alive /\ u \notin Leaving(t)] \in Tasks
      <4>1. \A k \in Tasks, a \in BOOLEAN : [k EXCEPT !.alive = a] \in Tasks
        BY DEF Tasks
      <4>2. \A u \in Tids : (kernel[u].alive /\ u \notin Leaving(t)) \in BOOLEAN
        OBVIOUS
      <4> QED BY <2>1, <4>1, <4>2
    <3>2. kernel' = [u \in Tids |-> [kernel[u] EXCEPT !.alive = kernel[u].alive /\ u \notin Leaving(t)]]
      BY <2>3 DEF Exit
    <3> QED BY <3>1, <3>2
  <2>4. CASE Create(t)
    <3>1. kernel[t] \in Tasks /\ kernel[t].life + 1 \in 0 .. MaxLife
      BY <2>1, <2>4 DEF Tasks, Create
    <3>2. [alive |-> TRUE, life |-> kernel[t].life + 1, time |-> 0] \in Tasks
      BY <3>1 DEF Tasks
    <3>3. kernel' = [kernel EXCEPT ![t] = [alive |-> TRUE, life |-> kernel[t].life + 1, time |-> 0]]
      BY <2>4 DEF Create
    <3> QED BY <2>1, <3>2, <3>3
  <2> QED BY <1>1, <2>2, <2>3, <2>4
<1>8. events' \in Nat /\ alive' \subseteq Tids
  <2>1. events \in Nat /\ alive \subseteq Tids
    BY DEF ProcTypeOK
  <2>2. events' = events + 1
    BY <1>1 DEF Run, Exit, Create, Event
  <2>3. alive' \subseteq alive
    BY <1>1 DEF Run, Exit, Create
  <2> QED BY <2>1, <2>2, <2>3
<1>9. ProcTypeOK'
  BY <1>2, <1>3, <1>4, <1>7, <1>8 DEF ProcTypeOK, Kept
<1> QED BY <1>2, <1>4, <1>5, <1>6, <1>9

LEMMA StutterAccounts ==
  ASSUME Accounting, UNCHANGED procVars
  PROVE  Accounting'
<1> USE DEF Accounting
<1>1. Kept /\ UNCHANGED <<kernel, options, step, first, iterations, pids, tids, pid,
                          events, alive, this, last>>
  BY DEF procVars, monitor, history, Kept
<1>2. Divided' /\ Counted' /\ Records' = Records
  BY <1>1, KeptAccounts
<1>3. Filled'
  BY <1>1, KeptAccounts DEF Filled
<1>4. Control'
  BY <1>1 DEF Control, Kept
<1>5. ProcTypeOK'
  BY <1>1, <1>2 DEF ProcTypeOK, Kept
<1> QED BY <1>2, <1>3, <1>4, <1>5

LEMMA AccountingKept ==
  ASSUME Accounting, [ProcNext]_procVars
  PROVE  Accounting'
BY OpenProcAccounts, NextPidAccounts, ReadStatAccounts, OpenTaskAccounts, NextTidAccounts,
   CloseAccounts, PrintProcsAccounts, FreeProcAccounts, SwapAccounts, KernelAccounts,
   StutterAccounts DEF ProcNext, KernelSteps

LEMMA AccountingInit == ProcInit => Accounting
<1> SUFFICES ASSUME ProcInit PROVE Accounting
  OBVIOUS
<1>1. /\ rec = << >> /\ new_procs = << >> /\ old_procs = << >> /\ free_procs = << >>
      /\ proc_num = 0 /\ num_used_procs = 0 /\ num_free_procs = 0 /\ peak = 0 /\ events = 0
      /\ step = "open" /\ first = TRUE /\ iterations = Iterations /\ options \in Options
      /\ pids = {} /\ tids = {} /\ pid = Null /\ proc = Null /\ alive = {} /\ lost = {}
  BY DEF ProcInit
<1>2. /\ Records = {} /\ New = {} /\ Old = {} /\ Free = {} /\ Hand = {}
      /\ Once(new_procs) /\ Once(old_procs) /\ Once(free_procs)
  BY <1>1, EmptyTable DEF Records, New, Old, Free, Hand
<1>3. Divided /\ Counted /\ Filled /\ Control
  BY <1>1, <1>2 DEF Divided, Counted, Filled, Control, Reading
<1>4. kernel \in [Tids -> Tasks]
  <2>1. \A a \in BOOLEAN : [alive |-> a, life |-> 1, time |-> 0] \in Tasks
    BY DEF Tasks
  <2> QED BY <2>1 DEF ProcInit
<1>5. this \in [Tids -> [life : 0 .. MaxLife, time : 0 .. MaxTime]] /\ last = this
  <2>1. Unseen \in [life : 0 .. MaxLife, time : 0 .. MaxTime]
    BY DEF Unseen
  <2> QED BY <2>1 DEF ProcInit
<1>6. ProcTypeOK
  BY <1>1, <1>2, <1>4, <1>5, EmptyTable DEF ProcTypeOK
<1> QED BY <1>3, <1>6 DEF Accounting

-----------------------------------------------------------------------------
(* What RecordsAccounted says of the places and the counters.              *)
LEMMA AccountingCounts ==
  ASSUME Accounting
  PROVE  RecordsAccounted
<1> USE DEF Accounting
<1>1. Places = <<Free, New, Old, Hand, lost>>
  BY DEF Places, Free, New, Old, Hand
<1>2. Places[1] = Free /\ Places[2] = New /\ Places[3] = Old /\ Places[4] = Hand /\ Places[5] = lost
  BY <1>1
<1>3. 1 .. 5 = {1, 2, 3, 4, 5}
  OBVIOUS
<1> HIDE DEF Places
<1>4. Records = UNION {Places[i] : i \in 1 .. 5}
  <2>1. UNION {Places[i] : i \in 1 .. 5} = Free \cup New \cup Old \cup Hand \cup lost
    BY <1>2, <1>3
  <2> QED BY <2>1 DEF Divided
<1>5. \A i, j \in 1 .. 5 : i # j => Places[i] \cap Places[j] = {}
  <2>1. /\ Free \cap New = {} /\ Free \cap Old = {} /\ Free \cap Hand = {} /\ Free \cap lost = {}
        /\ New \cap Old = {} /\ New \cap Hand = {} /\ New \cap lost = {}
        /\ Old \cap Hand = {} /\ Old \cap lost = {} /\ Hand \cap lost = {}
    BY DEF Divided
  <2>2. \A i, j \in {1, 2, 3, 4, 5} : i # j => Places[i] \cap Places[j] = {}
    BY <1>2, <2>1
  <2> QED BY <1>3, <2>2
<1>6. /\ IsFiniteSet(Records) /\ Cardinality(Records) = Len(rec) /\ Len(rec) \in Nat
  <2>1. Len(rec) \in Nat
    BY PlacesAreRecords
  <2> QED BY <2>1, FS_Interval DEF Records
<1>7. /\ IsFiniteSet(Free) /\ IsFiniteSet(New) /\ IsFiniteSet(Old) /\ IsFiniteSet(Hand) /\ IsFiniteSet(lost)
  BY <1>6, PlacesAreRecords, FS_Subset
<1>8. Cardinality(Free) = Len(free_procs)
  <2> DEFINE m == Len(free_procs)
  <2>1. free_procs \in Seq(Records) /\ m \in Nat /\ DOMAIN free_procs = 1 .. m
    BY DEF ProcTypeOK
  <2>2. \A x, y \in 1 .. m : free_procs[x] = free_procs[y] => x = y
    <3>1. \A x \in 1 .. m : free_procs[x] # Null
      BY <2>1, PlacesAreRecords
    <3> QED BY <3>1, <2>1 DEF Divided, Once
  <2> HIDE DEF m
  <2>3. free_procs \in [1 .. m -> Free]
    BY <2>1 DEF Free, m
  <2>4. \A x \in Free : \E i \in 1 .. m : free_procs[i] = x
    BY <2>1 DEF Free
  <2>5. free_procs \in Bijection(1 .. m, Free)
    BY <2>2, <2>3, <2>4 DEF Bijection, Injection, Surjection, IsInjective
  <2>6. ExistsBijection(1 .. m, Free)
    BY <2>5 DEF ExistsBijection
  <2> QED BY <2>1, <2>6, FS_CountingElements DEF m
<1>9. Cardinality(Records) = Cardinality(Free) + Cardinality(New) + Cardinality(Old)
                             + Cardinality(Hand) + Cardinality(lost)
  <2>1. \A S, T : IsFiniteSet(S) /\ IsFiniteSet(T) /\ S \cap T = {} =>
          /\ IsFiniteSet(S \cup T)
          /\ Cardinality(S \cup T) = Cardinality(S) + Cardinality(T)
    <3> SUFFICES ASSUME NEW S, NEW T, IsFiniteSet(S), IsFiniteSet(T), S \cap T = {}
                 PROVE  /\ IsFiniteSet(S \cup T)
                        /\ Cardinality(S \cup T) = Cardinality(S) + Cardinality(T)
      OBVIOUS
    <3>1. Cardinality(S) \in Nat /\ Cardinality(T) \in Nat
      BY FS_CardinalityType
    <3>2. Cardinality(S \cap T) = 0
      BY FS_EmptySet
    <3>3. /\ IsFiniteSet(S \cup T)
          /\ Cardinality(S \cup T) = Cardinality(S) + Cardinality(T) - Cardinality(S \cap T)
      BY FS_Union
    <3> QED BY <3>1, <3>2, <3>3
  <2> DEFINE X == Hand \cup lost
             Y == Old \cup X
             Z == New \cup Y
  <2>2. /\ Hand \cap lost = {} /\ Old \cap X = {} /\ New \cap Y = {} /\ Free \cap Z = {}
        /\ Records = Free \cup Z
    BY DEF Divided
  <2>3. IsFiniteSet(X) /\ Cardinality(X) = Cardinality(Hand) + Cardinality(lost)
    BY <1>7, <2>1, <2>2
  <2> HIDE DEF X
  <2>4. IsFiniteSet(Y) /\ Cardinality(Y) = Cardinality(Old) + Cardinality(X)
    BY <1>7, <2>1, <2>2, <2>3
  <2> HIDE DEF Y
  <2>5. IsFiniteSet(Z) /\ Cardinality(Z) = Cardinality(New) + Cardinality(Y)
    BY <1>7, <2>1, <2>2, <2>4
  <2> HIDE DEF Z
  <2>6. Cardinality(Records) = Cardinality(Free) + Cardinality(Z)
    BY <1>7, <2>1, <2>2, <2>5
  <2>7. /\ Cardinality(Free) \in Nat /\ Cardinality(New) \in Nat /\ Cardinality(Old) \in Nat
        /\ Cardinality(Hand) \in Nat /\ Cardinality(lost) \in Nat
    BY <1>7, FS_CardinalityType
  <2> QED BY <2>3, <2>4, <2>5, <2>6, <2>7
<1>10. num_used_procs = Cardinality(New) + Cardinality(Old) + Cardinality(Hand) + Cardinality(lost)
  <2>1. /\ Cardinality(Free) \in Nat /\ Cardinality(New) \in Nat /\ Cardinality(Old) \in Nat
        /\ Cardinality(Hand) \in Nat /\ Cardinality(lost) \in Nat
    BY <1>7, FS_CardinalityType
  <2>2. num_used_procs \in Nat /\ num_free_procs \in Nat
    BY DEF ProcTypeOK
  <2>3. num_used_procs + num_free_procs = Len(rec) /\ num_free_procs = Len(free_procs)
    BY DEF Counted
  <2>4. num_used_procs + Cardinality(Free)
          = Cardinality(Free) + Cardinality(New) + Cardinality(Old) + Cardinality(Hand) + Cardinality(lost)
    BY <1>6, <1>8, <1>9, <2>3
  <2> QED BY <2>1, <2>2, <2>4
<1>11. Once(free_procs) /\ Once(new_procs) /\ Once(old_procs)
  BY DEF Divided
<1>12. (options.threads => lost = {}) /\ num_free_procs = Len(free_procs) /\ Len(rec) = peak
  BY DEF Control, Counted
<1> QED BY <1>4, <1>5, <1>10, <1>11, <1>12 DEF RecordsAccounted, New, Old, Hand

-----------------------------------------------------------------------------
(* Rounds.  What a round has found of a task, seen, is still true of it or *)
(* is of the past; a table T holds one record for each task still living   *)
(* that was seen, with the time that was found.                            *)
KernelOK ==
  \A t \in Tids : kernel[t].life >= 1 /\ (kernel[t].alive => kernel[PidOf[t]].alive)

SeenBefore(seen, k) ==
  \A t \in Tids : /\ seen[t].life <= k[t].life
                  /\ seen[t].life = k[t].life => seen[t].time <= k[t].time

Living(seen, k, t) == k[t].alive /\ seen[t].life = k[t].life
Matches(T, seen, records, k) ==
  /\ \A r \in T : seen[records[r].tid].life # 0 => records[r].time = seen[records[r].tid].time
  /\ \A r, s \in T : records[r].tid = records[s].tid => r = s
  /\ \A t \in Tids : Living(seen, k, t) => \E r \in T : records[r].tid = t

Ready == IF step = "open" THEN Old ELSE IF step = "opentask" THEN New \cup Hand ELSE New
Rounds ==
  /\ SeenBefore(this, kernel) /\ SeenBefore(last, kernel)
  /\ Matches(Ready, this, rec, kernel)
  /\ step \in Reading \cup {"print"} => Matches(Old, last, rec, kernel)

(* A task seen in both rounds, in one life, is in the table of the first.  *)
Between ==
  step \in Reading \cup {"print"} =>
    \A t \in Tids : this[t].life # 0 /\ this[t].life = last[t].life =>
      /\ \E o \in Old : rec[o].tid = t /\ rec[o].time = last[t].time
      /\ last[t].time <= this[t].time

(* No task comes twice in a round.                                         *)
Met == {t \in Tids : this[t].life # 0} \cup {rec[r].tid : r \in New}
Fresh ==
  step \in Reading =>
    /\ \A t \in Met :
         /\ PidOf[t] \notin pids /\ t \notin tids
         /\ step = "stat" => t # rec[proc].tid
         /\ step = "opentask" /\ options.threads => PidOf[t] # pid
    /\ step = "opentask" /\ ~options.threads => \A r \in New : rec[r].tid # rec[proc].tid

(* A task that is there all the while has its record or is still to come.  *)
Due(t) == Wanted(PidOf[t]) /\ (options.threads \/ t = PidOf[t])
Found(t) == \E r \in New : rec[r].tid = t
Coming(t) ==
  \/ PidOf[t] \in pids \/ t \in tids
  \/ step = "opentask" /\ options.threads /\ PidOf[t] = pid
  \/ proc # Null /\ rec[proc].tid = t
Noticed ==
  /\ \A t \in alive : kernel[t].alive
  /\ step # "open" => \A t \in alive : Due(t) => Found(t) \/ Coming(t)

Tracking == KernelOK /\ Rounds /\ Between /\ Fresh /\ Noticed

LEMMA MatchesSame ==
  ASSUME NEW T, NEW seen, NEW rc, NEW k, NEW rd, NEW j, Matches(T, seen, rc, k),
         \A r \in T : rd[r] = rc[r],
         \A t \in Tids : Living(seen, j, t) => Living(seen, k, t)
  PROVE  Matches(T, seen, rd, j)
BY DEF Matches

(* A step of the monitor that moves on, and changes no record in use.      *)
Quiet ==
  /\ UNCHANGED <<kernel, options, alive, this, last>>
  /\ \A r \in New \cup Old \cup Hand : rec'[r] = rec[r]

LEMMA QuietKernel ==
  ASSUME Tracking, Quiet
  PROVE  /\ KernelOK' /\ SeenBefore(this', kernel') /\ SeenBefore(last', kernel')
         /\ Matches(Ready, this', rec', kernel')
         /\ step \in Reading \cup {"print"} => Matches(Old, last', rec', kernel')
         /\ \A t \in alive' : kernel'[t].alive
         /\ \A t \in Tids : Due(t)' <=> Due(t)
<1> USE DEF Tracking
<1>1. /\ kernel' = kernel /\ options' = options /\ alive' = alive /\ this' = this /\ last' = last
      /\ \A r \in New \cup Old \cup Hand : rec'[r] = rec[r]
  BY DEF Quiet
<1>2. KernelOK' /\ SeenBefore(this', kernel') /\ SeenBefore(last', kernel')
  BY <1>1 DEF KernelOK, Rounds
<1>3. Ready \subseteq New \cup Old \cup Hand
  BY DEF Ready
<1>4. Matches(Ready, this, rec, kernel)
  BY DEF Rounds
<1>5. Matches(Ready, this, rec', kernel)
  BY <1>1, <1>3, <1>4, MatchesSame
<1>6. ASSUME step \in Reading \cup {"print"} PROVE Matches(Old, last, rec', kernel)
  <2>1. Matches(Old, last, rec, kernel)
    BY <1>6 DEF Rounds
  <2> QED BY <1>1, <2>1, MatchesSame
<1>7. \A t \in alive' : kernel'[t].alive
  BY <1>1 DEF Noticed
<1>8. \A t \in Tids : Due(t)' <=> Due(t)
  BY <1>1 DEF Due, Wanted
<1> QED BY <1>1, <1>2, <1>5, <1>6, <1>7, <1>8

(* As long as old_procs is the same, so is what the last round has found.  *)
LEMMA QuietBetween ==
  ASSUME Tracking, Quiet, old_procs' = old_procs,
         step' \in Reading \cup {"print"} => step \in Reading \cup {"print"}
  PROVE  /\ Between' /\ Old' = Old
         /\ step' \in Reading \cup {"print"} => Matches(Old', last', rec', kernel')
<1> USE DEF Tracking
<1>1. /\ this' = this /\ last' = last /\ Old' = Old
      /\ \A r \in Old : rec'[r] = rec[r]
  BY DEF Quiet, Old
<1>2. Between'
  <2> SUFFICES ASSUME step' \in Reading \cup {"print"}, NEW t \in Tids,
                      this[t].life # 0, this[t].life = last[t].life
               PROVE  /\ \E o \in Old : rec'[o].tid = t /\ rec'[o].time = last[t].time
                      /\ last[t].time <= this[t].time
    BY <1>1 DEF Between
  <2> QED BY <1>1 DEF Between
<1>3. step' \in Reading \cup {"print"} => Matches(Old', last', rec', kernel')
  BY <1>1, QuietKernel
<1> QED BY <1>1, <1>2, <1>3

LEMMA OpenProcTracks ==
  ASSUME Accounting, Tracking, OpenProc
  PROVE  Tracking'
<1> USE DEF Accounting, Tracking
<1>1. /\ step = "open" /\ step' = "pids" /\ new_procs' = Nulls(InitProcs)
      /\ pids' = {p \in Pids : kernel[p].alive} /\ alive' = {t \in Tids : kernel[t].alive}
      /\ last' = this /\ this' = [t \in Tids |-> Unseen]
      /\ UNCHANGED <<kernel, options, rec, old_procs, tids, pid, proc>>
  BY DEF OpenProc
<1>2. Old' = Old /\ New' = {} /\ Ready = Old /\ Ready' = {}
  <2>1. New' = {}
    BY <1>1, NewTable DEF New
  <2> QED BY <1>1, <2>1 DEF Old, Ready
<1>3. \A t \in Tids : this'[t].life = 0 /\ kernel[t].life >= 1 /\ kernel[t].life \in Int
  <2>1. \A t \in Tids : this'[t].life = 0
    BY <1>1 DEF Unseen
  <2>2. \A t \in Tids : kernel[t] \in Tasks
    BY DEF ProcTypeOK
  <2> QED BY <2>1, <2>2 DEF KernelOK, Tasks
<1>4. KernelOK'
  BY <1>1 DEF KernelOK
<1>5. Rounds'
  <2>1. SeenBefore(last', kernel') /\ Matches(Old', last', rec', kernel')
    BY <1>1, <1>2 DEF Rounds
  <2>2. SeenBefore(this', kernel')
    BY <1>1, <1>3 DEF SeenBefore
  <2>3. Matches({}, this', rec', kernel')
    BY <1>1, <1>3 DEF Matches, Living
  <2> QED BY <1>1, <1>2, <2>1, <2>2, <2>3 DEF Rounds
<1>6. Between'
  BY <1>3 DEF Between
<1>7. Fresh'
  <2>1. Met' = {}
    BY <1>2, <1>3 DEF Met
  <2> QED BY <1>1, <2>1 DEF Fresh
<1>8. Noticed'
  <2>1. ASSUME NEW t \in alive' PROVE PidOf[t] \in pids'
    <3>1. t \in Tids /\ kernel[PidOf[t]].alive
      BY <1>1 DEF KernelOK
    <3>2. PidOf[t] \in Pids
      BY <3>1 DEF Pids
    <3> QED BY <1>1, <3>1, <3>2
  <2>2. \A t \in alive' : Coming(t)'
    BY <2>1 DEF Coming
  <2>3. \A t \in alive' : kernel'[t].alive
    BY <1>1
  <2> QED BY <2>2, <2>3 DEF Noticed
<1> QED BY <1>4, <1>5, <1>6, <1>7, <1>8

LEMMA NextPidTracks ==
  ASSUME Accounting, Tracking, NextPid
  PROVE  Tracking'
<1> USE DEF Accounting, Tracking
<1>1. PICK p \in pids :
        /\ pids' = pids \ {p}
        /\ IF ~Wanted(p)
           THEN UNCHANGED <<step, pid, rec, proc, free_procs, num_free_procs, num_used_procs, peak>>
           ELSE /\ pid' = p
                /\ IF options.threads
                   THEN /\ step' = "opentask"
                        /\ UNCHANGED <<rec, proc, free_procs, num_free_procs, num_used_procs, peak>>
                   ELSE step' = "stat" /\ AllocProc(p)
  BY DEF NextPid
<1>2. /\ step = "pids" /\ proc = Null /\ tids = {} /\ Hand = {} /\ Ready = New
      /\ UNCHANGED <<kernel, options, new_procs, old_procs, tids, alive, this, last>>
  BY DEF NextPid, Control, Hand, Ready
<1>3. p \in Tids /\ PidOf[p] = p
  <2>1. pids \subseteq Pids
    BY DEF ProcTypeOK
  <2> QED BY <1>1, <2>1, PidsShape
<1>4. /\ \A r \in New \cup Old : rec'[r] = rec[r]
      /\ \/ step' = "pids" /\ ~Wanted(p) /\ proc' = Null
         \/ step' = "opentask" /\ pid' = p /\ options.threads /\ proc' = Null
         \/ step' = "stat" /\ pid' = p /\ ~options.threads /\ proc' # Null /\ rec'[proc'].tid = p
  <2>1. CASE ~Wanted(p) \/ options.threads
    BY <1>1, <1>2, <2>1
  <2>2. CASE Wanted(p) /\ ~options.threads
    <3>1. step' = "stat" /\ pid' = p /\ AllocProc(p)
      BY <1>1, <2>2
    <3>2. /\ proc' \notin New \cup Old \cup Hand \cup lost /\ rec'[proc'].tid = p
          /\ \A r \in Records : r # proc' => rec'[r] = rec[r]
      BY <1>3, <3>1, Taken
    <3>3. proc' # Null
      BY <1>2, <1>3, <3>1, TakenDivided DEF NextPid
    <3> QED BY <2>2, <3>1, <3>2, <3>3, PlacesAreRecords
  <2> QED BY <2>1, <2>2
<1>5. Quiet
  BY <1>2, <1>4 DEF Quiet
<1>6. New' = New /\ Ready' = New
  <2>1. New' = New
    BY <1>2 DEF New
  <2>2. proc' = Null => Hand' = {}
    BY DEF Hand
  <2>3. step' \in {"pids", "opentask", "stat"} /\ (step' = "opentask" => proc' = Null)
    BY <1>4
  <2> QED BY <2>1, <2>2, <2>3 DEF Ready
<1>7. Between' /\ Old' = Old /\ (step' \in Reading \cup {"print"} => Matches(Old', last', rec', kernel'))
  BY <1>2, <1>5, QuietBetween DEF Reading
<1>8. Rounds'
  <2>1. Matches(New, this', rec', kernel')
    BY <1>2, <1>5, QuietKernel
  <2> QED BY <1>5, <1>6, <1>7, <2>1, QuietKernel DEF Rounds
<1>9. Fresh'
  <2>1. Met' = Met
    BY <1>2, <1>4, <1>6 DEF Met
  <2>2. \A t \in Met : PidOf[t] \notin pids /\ t \notin tids
    BY <1>2 DEF Fresh, Reading
  <2>3. \A t \in Met : PidOf[t] \notin pids' /\ t \notin tids' /\ PidOf[t] # p /\ t # p
    BY <1>1, <1>2, <1>3, <2>2
  <2> QED BY <1>2, <1>4, <2>1, <2>3 DEF Fresh
<1>10. Noticed'
  <2> SUFFICES ASSUME NEW t \in alive, Due(t) PROVE Found(t)' \/ Coming(t)'
    <3>1. alive' = alive /\ \A t \in alive' : kernel'[t].alive
      BY <1>2, <1>5, QuietKernel
    <3>2. \A t \in alive : Due(t)' <=> Due(t)
      BY <1>5, QuietKernel DEF ProcTypeOK
    <3> QED BY <3>1, <3>2 DEF Noticed
  <2>1. Found(t) \/ PidOf[t] \in pids
    BY <1>2 DEF Noticed, Coming
  <2>2. CASE Found(t)
    BY <2>2, <1>4, <1>6 DEF Found
  <2>3. CASE PidOf[t] \in pids'
    BY <2>3 DEF Coming
  <2>4. CASE PidOf[t] = p
    BY <2>4, <1>2, <1>4 DEF Coming, Due
  <2> QED BY <1>1, <2>1, <2>2, <2>3, <2>4
<1> QED BY <1>5, <1>7, <1>8, <1>9, <1>10, QuietKernel

LEMMA NextTidTracks ==
  ASSUME Accounting, Tracking, NextTid
  PROVE  Tracking'
<1> USE DEF Accounting, Tracking
<1>1. PICK u \in tids : tids' = tids \ {u} /\ AllocProc(u)
  BY DEF NextTid
<1>2. /\ step = "tids" /\ step' = "stat" /\ Ready = New /\ proc = Null /\ Hand = {}
      /\ options.threads
      /\ UNCHANGED <<kernel, options, new_procs, old_procs, pids, pid, alive, this, last>>
  BY DEF NextTid, Ready, Control, Hand
<1>3. u \in Tids
  BY <1>1 DEF ProcTypeOK
<1>4. /\ proc' \notin New \cup Old \cup Hand \cup lost /\ rec'[proc'].tid = u
      /\ \A r \in Records : r # proc' => rec'[r] = rec[r]
  BY <1>1, <1>3, Taken
<1>5. proc' # Null
  BY <1>1, <1>2, <1>3, TakenDivided DEF NextTid
<1>6. Quiet
  BY <1>2, <1>4, PlacesAreRecords DEF Quiet
<1>7. New' = New /\ Ready' = New
  BY <1>2 DEF New, Ready
<1>8. Between' /\ Old' = Old /\ (step' \in Reading \cup {"print"} => Matches(Old', last', rec', kernel'))
  BY <1>2, <1>6, QuietBetween DEF Reading
<1>9. Rounds'
  <2>1. Matches(New, this', rec', kernel')
    BY <1>2, <1>6, QuietKernel
  <2> QED BY <1>6, <1>7, <1>8, <2>1, QuietKernel DEF Rounds
<1>10. Fresh'
  <2>1. Met' = Met
    BY <1>2, <1>6, <1>7 DEF Met, Quiet
  <2>2. \A t \in Met : PidOf[t] \notin pids /\ t \notin tids
    BY <1>2 DEF Fresh, Reading
  <2>3. \A t \in Met : PidOf[t] \notin pids' /\ t \notin tids' /\ t # u
    BY <1>1, <1>2, <2>2
  <2> QED BY <1>2, <1>4, <2>1, <2>3 DEF Fresh
<1>11. Noticed'
  <2> SUFFICES ASSUME NEW t \in alive, Due(t) PROVE Found(t)' \/ Coming(t)'
    <3>1. alive' = alive /\ \A t \in alive' : kernel'[t].alive
      BY <1>2, <1>6, QuietKernel
    <3>2. \A t \in alive : Due(t)' <=> Due(t)
      BY <1>6, QuietKernel DEF ProcTypeOK
    <3> QED BY <3>1, <3>2 DEF Noticed
  <2>1. Found(t) \/ PidOf[t] \in pids \/ t \in tids
    BY <1>2 DEF Noticed, Coming
  <2>2. CASE Found(t)
    BY <2>2, <1>6, <1>7 DEF Found, Quiet
  <2>3. CASE PidOf[t] \in pids \/ t \in tids'
    BY <2>3, <1>2 DEF Coming
  <2>4. CASE t = u
    BY <2>4, <1>4, <1>5 DEF Coming
  <2> QED BY <1>1, <2>1, <2>2, <2>3, <2>4
<1> QED BY <1>6, <1>8, <1>9, <1>10, <1>11, QuietKernel

LEMMA ReadStatTracks ==
  ASSUME Accounting, Tracking, ReadStat
  PROVE  Tracking'
<1> USE DEF Accounting, Tracking
<1> DEFINE u == rec[proc].tid
<1>1. /\ step = "stat"
      /\ UNCHANGED <<kernel, options, old_procs, pids, tids, pid, alive, last>>
  BY DEF ReadStat
<1>2. /\ proc # Null /\ proc \in Records /\ Hand = {proc} /\ Ready = New
      /\ pid \in Pids /\ pid \notin pids
      /\ PidOf[u] = pid /\ u \notin tids /\ (~options.threads => u = pid /\ tids = {})
  BY <1>1 DEF Control, ProcTypeOK, Hand, Ready
<1>3. /\ \A r \in Records : r # proc => rec'[r] = rec[r]
      /\ \A r \in Records : rec'[r].tid = rec[r].tid
      /\ kernel[u].alive => rec'[proc].time = kernel[u].time
  BY <1>2, StatRead
<1>4. /\ New \subseteq Records /\ Old \subseteq Records /\ proc \notin New /\ proc \notin Old
      /\ u \in Tids /\ u \notin Met
  <2>1. rec[proc] \in [tid : Tids, time : Times]
    BY <1>2, PlacesAreRecords
  <2>2. u \notin Met
    BY <1>1 DEF Fresh, Reading
  <2> QED BY <1>2, <2>1, <2>2, PlacesAreRecords DEF Divided
<1>5. /\ this[u].life = 0
      /\ \A r \in New : rec[r].tid # u /\ rec'[r] = rec[r]
      /\ \A r \in Old : rec'[r] = rec[r]
      /\ rec'[proc].tid = u
  <2>1. this[u].life = 0 /\ \A r \in New : rec[r].tid # u
    BY <1>4 DEF Met
  <2>2. \A r \in New : rec'[r] = rec[r]
    BY <1>3, <1>4
  <2>3. \A r \in Old : rec'[r] = rec[r]
    BY <1>3, <1>4
  <2>4. rec'[proc].tid = u
    BY <1>2, <1>3
  <2> QED BY <2>1, <2>2, <2>3, <2>4
<1>6. \/ ~kernel[u].alive /\ this' = this
      \/ /\ kernel[u].alive /\ rec'[proc].time = kernel[u].time
         /\ this'[u].life = kernel[u].life /\ this'[u].time = kernel[u].time
         /\ \A t \in Tids : t # u => this'[t] = this[t]
  <2>1. this \in [Tids -> [life : 0 .. MaxLife, time : 0 .. MaxTime]]
    BY DEF ProcTypeOK
  <2>2. CASE kernel[u].alive
    <3>1. this' = [this EXCEPT ![u] = [life |-> kernel[u].life, time |-> kernel[u].time]]
      BY <2>2 DEF ReadStat
    <3> QED BY <1>3, <1>4, <2>1, <2>2, <3>1
  <2>3. CASE ~kernel[u].alive
    BY <2>3 DEF ReadStat
  <2> QED BY <2>2, <2>3
<1>7. \A t \in Tids : t # u => this'[t] = this[t]
  BY <1>6
<1>8. \A t \in Tids : /\ kernel[t].life \in Int /\ kernel[t].life >= 1 /\ kernel[t].time \in Int
                      /\ this[t].life \in Int /\ last[t].life \in Int
  <2>1. /\ kernel \in [Tids -> Tasks]
        /\ this \in [Tids -> [life : 0 .. MaxLife, time : 0 .. MaxTime]]
        /\ last \in [Tids -> [life : 0 .. MaxLife, time : 0 .. MaxTime]]
    BY DEF ProcTypeOK
  <2>2. \A t \in Tids : /\ kernel[t] \in Tasks
                        /\ this[t] \in [life : 0 .. MaxLife, time : 0 .. MaxTime]
                        /\ last[t] \in [life : 0 .. MaxLife, time : 0 .. MaxTime]
    BY <2>1
  <2> QED BY <2>2 DEF KernelOK, Tasks
<1>9. \/ options.threads /\ step' = "tids" /\ proc' = Null /\ New' = New \cup {proc}
      \/ ~options.threads /\ step' = "opentask" /\ proc' = proc /\ New' = New /\ Hand' = {proc}
  <2>1. CASE options.threads
    <3>1. AddProc(proc) /\ proc' = Null /\ step' = "tids"
      BY <2>1 DEF ReadStat
    <3>2. Null \notin Records /\ FilledTo(new_procs, proc_num)
      BY <1>1, PlacesAreRecords DEF Filled, Reading
    <3>3. Entries(new_procs') = New \cup {proc}
      BY <1>2, <1>4, <3>1, <3>2, Added DEF ProcTypeOK, Divided
    <3> QED BY <2>1, <3>1, <3>3 DEF New
  <2>2. CASE ~options.threads
    <3>1. UNCHANGED <<new_procs, proc_num, proc>> /\ step' = "opentask"
      BY <2>2 DEF ReadStat
    <3> QED BY <1>2, <2>2, <3>1 DEF New, Hand
  <2> QED BY <2>1, <2>2
<1>10. Ready' = New \cup {proc} /\ Old' = Old /\ step' \in {"tids", "opentask"}
  BY <1>1, <1>9 DEF Ready, Old
<1> HIDE DEF u
<1>11. KernelOK'
  BY <1>1 DEF KernelOK
<1>12. SeenBefore(this', kernel') /\ SeenBefore(last', kernel')
  <2>1. SeenBefore(last', kernel') /\ SeenBefore(this, kernel')
    BY <1>1 DEF Rounds
  <2>2. \A t \in Tids : /\ this'[t].life <= kernel'[t].life
                        /\ this'[t].life = kernel'[t].life => this'[t].time <= kernel'[t].time
    <3> TAKE t \in Tids
    <3>1. CASE this'[t] = this[t]
      BY <2>1, <3>1 DEF SeenBefore
    <3>2. CASE this'[t] # this[t]
      <4>1. t = u /\ this'[t].life = kernel[t].life /\ this'[t].time = kernel[t].time
        BY <1>6, <3>2
      <4> QED BY <1>1, <1>8, <4>1
    <3> QED BY <3>1, <3>2
  <2> QED BY <2>1, <2>2 DEF SeenBefore
<1>13. Matches(Old', last', rec', kernel')
  <2>1. Matches(Old, last, rec, kernel)
    BY <1>1 DEF Rounds, Reading
  <2> QED BY <1>1, <1>5, <1>10, <2>1, MatchesSame
<1>14. Matches(Ready', this', rec', kernel')
  <2>1. Matches(New, this, rec, kernel)
    BY <1>2 DEF Rounds
  <2>2. ASSUME NEW r \in New \cup {proc}, this'[rec'[r].tid].life # 0
        PROVE  rec'[r].time = this'[rec'[r].tid].time
    <3>1. CASE r \in New
      <4>1. rec'[r] = rec[r] /\ rec[r].tid # u
        BY <1>5, <3>1
      <4>2. rec[r].tid \in Tids
        <5>1. rec[r] \in [tid : Tids, time : Times]
          BY <1>4, <3>1, PlacesAreRecords
        <5> QED BY <5>1
      <4>3. this'[rec[r].tid] = this[rec[r].tid]
        BY <1>7, <4>1, <4>2
      <4> QED BY <2>1, <2>2, <3>1, <4>1, <4>3 DEF Matches
    <3>2. CASE r = proc
      BY <1>5, <1>6, <2>2, <3>2
    <3> QED BY <3>1, <3>2
  <2>3. ASSUME NEW r \in New \cup {proc}, NEW s \in New \cup {proc}, rec'[r].tid = rec'[s].tid
        PROVE  r = s
    BY <1>5, <2>1, <2>3 DEF Matches
  <2>4. ASSUME NEW t \in Tids, Living(this', kernel', t)
        PROVE  \E r \in New \cup {proc} : rec'[r].tid = t
    <3>1. CASE t = u
      BY <1>5, <3>1
    <3>2. CASE t # u
      <4>1. Living(this, kernel, t)
        BY <1>1, <1>7, <2>4, <3>2 DEF Living
      <4>2. PICK r \in New : rec[r].tid = t
        BY <2>1, <4>1 DEF Matches
      <4> QED BY <1>5, <4>2
    <3> QED BY <3>1, <3>2
  <2> QED BY <1>10, <2>2, <2>3, <2>4 DEF Matches
<1>15. Rounds'
  BY <1>12, <1>13, <1>14 DEF Rounds
<1>16. Between'
  <2> SUFFICES ASSUME NEW t \in Tids, this'[t].life # 0, this'[t].life = last[t].life
               PROVE  /\ \E o \in Old : rec'[o].tid = t /\ rec'[o].time = last[t].time
                      /\ last[t].time <= this'[t].time
    BY <1>1, <1>10 DEF Between
  <2>1. CASE this'[t] = this[t]
    <3>1. /\ \E o \in Old : rec[o].tid = t /\ rec[o].time = last[t].time
          /\ last[t].time <= this[t].time
      BY <1>1, <2>1 DEF Between, Reading
    <3> QED BY <1>5, <2>1, <3>1
  <2>2. CASE this'[t] # this[t]
    <3>1. t = u /\ kernel[t].alive /\ this'[t].life = kernel[t].life /\ this'[t].time = kernel[t].time
      BY <1>6, <2>2
    <3>2. Living(last, kernel, t) /\ Matches(Old, last, rec, kernel) /\ SeenBefore(last, kernel)
      BY <1>1, <3>1 DEF Living, Rounds, Reading
    <3>3. PICK o \in Old : rec[o].tid = t
      BY <3>2 DEF Matches
    <3>4. rec[o].time = last[t].time
      BY <3>2, <3>3 DEF Matches
    <3>5. last[t].time <= kernel[t].time
      BY <3>1, <3>2 DEF SeenBefore
    <3> QED BY <1>5, <3>1, <3>3, <3>4, <3>5
  <2> QED BY <2>1, <2>2
<1>17. Fresh'
  <2>1. Met' \subseteq Met \cup {u}
    <3>1. \A t \in Tids : this'[t].life # 0 => t \in Met \cup {u}
      BY <1>7 DEF Met
    <3>2. \A r \in New \cup {proc} : rec'[r].tid \in Met \cup {u}
      BY <1>5 DEF Met
    <3> QED BY <1>9, <3>1, <3>2 DEF Met
  <2>2. \A t \in Met \cup {u} : PidOf[t] \notin pids' /\ t \notin tids'
    BY <1>1, <1>2 DEF Fresh, Reading, u
  <2> QED BY <1>1, <1>5, <1>9, <2>1, <2>2 DEF Fresh
<1>18. Noticed'
  <2>1. \A t \in alive' : kernel'[t].alive
    BY <1>1 DEF Noticed
  <2> SUFFICES ASSUME NEW t \in alive, Due(t) PROVE Found(t)' \/ Coming(t)'
    BY <1>1, <2>1 DEF Noticed, Due, Wanted
  <2>2. Found(t) \/ PidOf[t] \in pids \/ t \in tids \/ t = u
    BY <1>1 DEF Noticed, Coming, u
  <2>3. CASE Found(t)
    BY <1>5, <1>9, <2>3 DEF Found
  <2>4. CASE PidOf[t] \in pids \/ t \in tids
    BY <1>1, <2>4 DEF Coming
  <2>5. CASE t = u
    BY <1>2, <1>5, <1>9, <2>5 DEF Found, Coming
  <2> QED BY <2>2, <2>3, <2>4, <2>5
<1> QED BY <1>11, <1>15, <1>16, <1>17, <1>18

LEMMA OpenTaskTracks ==
  ASSUME Accounting, Tracking, OpenTask
  PROVE  Tracking'
<1> USE DEF Accounting, Tracking
<1>1. /\ step = "opentask" /\ tids = {} /\ Ready = New \cup Hand
      /\ pid \in Pids /\ pid \in Tids /\ PidOf[pid] = pid /\ pid \notin pids
      /\ UNCHANGED <<kernel, options, rec, old_procs, pids, pid, alive, this, last>>
  <2>1. step = "opentask" /\ tids = {} /\ pid \in Pids /\ pid \notin pids /\ Ready = New \cup Hand
    BY DEF OpenTask, Control, Ready
  <2> QED BY <2>1, PidsShape DEF OpenTask
<1>2. /\ options.threads => proc = Null /\ Hand = {}
      /\ ~options.threads => proc # Null /\ proc \in Records /\ Hand = {proc} /\ rec[proc].tid = pid
  BY <1>1 DEF Control, Hand, ProcTypeOK
<1>3. Quiet
  BY <1>1 DEF Quiet
<1>4. \/ ~kernel[pid].alive /\ step' = "pids" /\ proc' = Null /\ New' = New /\ tids' = {}
      \/ /\ kernel[pid].alive /\ options.threads /\ step' = "tids" /\ proc' = Null /\ New' = New
         /\ tids' = {t \in Tids : PidOf[t] = pid /\ kernel[t].alive}
      \/ /\ kernel[pid].alive /\ ~options.threads /\ step' = "pids" /\ proc' = Null
         /\ New' = New \cup {proc} /\ tids' = {}
  <2>1. CASE ~kernel[pid].alive
    BY <1>1, <2>1 DEF OpenTask, New
  <2>2. CASE kernel[pid].alive /\ options.threads
    BY <1>1, <1>2, <2>2 DEF OpenTask, New
  <2>3. CASE kernel[pid].alive /\ ~options.threads
    <3>1. AddProc(proc) /\ proc' = Null /\ step' = "pids" /\ tids' = tids
      BY <2>3 DEF OpenTask
    <3>2. Null \notin Records /\ FilledTo(new_procs, proc_num) /\ proc \notin New
      BY <1>1, <1>2, <2>3, PlacesAreRecords DEF Filled, Reading, Divided
    <3>3. Entries(new_procs') = New \cup {proc}
      BY <1>2, <2>3, <3>1, <3>2, Added DEF ProcTypeOK, Divided
    <3> QED BY <1>1, <2>3, <3>1, <3>3 DEF New
  <2> QED BY <2>1, <2>2, <2>3
<1>5. Ready' = New' /\ step' \in {"pids", "tids"}
  BY <1>4 DEF Ready
<1>6. Between' /\ Old' = Old /\ (step' \in Reading \cup {"print"} => Matches(Old', last', rec', kernel'))
  BY <1>1, <1>3, QuietBetween DEF Reading
<1>7. Matches(New \cup Hand, this, rec, kernel)
  BY <1>1 DEF Rounds
<1>8. Matches(New', this', rec', kernel')
  <2>1. CASE New' = New \cup Hand
    BY <1>1, <1>7, <2>1
  <2>2. CASE ~kernel[pid].alive /\ New' = New
    <3>1. ASSUME NEW t \in Tids, Living(this, kernel, t) PROVE \E r \in New : rec[r].tid = t
      <4>1. PICK r \in New \cup Hand : rec[r].tid = t
        BY <1>7, <3>1 DEF Matches
      <4>2. t # pid
        BY <2>2, <3>1 DEF Living
      <4> QED BY <1>2, <4>1, <4>2
    <3> QED BY <1>1, <1>7, <2>2, <3>1 DEF Matches
  <2> QED BY <1>2, <1>4, <2>1, <2>2
<1>9. Rounds'
  BY <1>3, <1>5, <1>6, <1>8, QuietKernel DEF Rounds
<1>10. Fresh'
  <2>1. \A t \in Met : PidOf[t] \notin pids /\ (options.threads => PidOf[t] # pid)
    BY <1>1 DEF Fresh, Reading
  <2>2. Met' \subseteq IF options.threads THEN Met ELSE Met \cup {pid}
    BY <1>1, <1>2, <1>4 DEF Met
  <2>3. tids' = {} \/ (options.threads /\ tids' = {t \in Tids : PidOf[t] = pid /\ kernel[t].alive})
    BY <1>4
  <2>4. \A t \in Met' : PidOf[t] \notin pids' /\ t \notin tids'
    BY <1>1, <2>1, <2>2, <2>3
  <2> QED BY <1>5, <2>4 DEF Fresh
<1>11. Noticed'
  <2> SUFFICES ASSUME NEW t \in alive, Due(t) PROVE Found(t)' \/ Coming(t)'
    <3>1. alive' = alive /\ \A t \in alive' : kernel'[t].alive
      BY <1>1, <1>3, QuietKernel
    <3>2. \A t \in alive : Due(t)' <=> Due(t)
      BY <1>3, QuietKernel DEF ProcTypeOK
    <3> QED BY <3>1, <3>2 DEF Noticed
  <2>1. t \in Tids /\ kernel[t].alive /\ kernel[PidOf[t]].alive
    BY DEF Noticed, ProcTypeOK, KernelOK
  <2>2. \/ Found(t) \/ PidOf[t] \in pids
        \/ options.threads /\ PidOf[t] = pid
        \/ proc # Null /\ rec[proc].tid = t
    BY <1>1 DEF Noticed, Coming
  <2>3. CASE Found(t)
    BY <2>3, <1>1, <1>4 DEF Found
  <2>4. CASE PidOf[t] \in pids
    BY <2>4, <1>1 DEF Coming
  <2>5. CASE options.threads /\ PidOf[t] = pid
    BY <2>1, <2>5, <1>4 DEF Coming
  <2>6. CASE proc # Null /\ rec[proc].tid = t
    BY <2>1, <2>6, <1>1, <1>2, <1>4 DEF Found
  <2> QED BY <2>2, <2>3, <2>4, <2>5, <2>6
<1> QED BY <1>3, <1>6, <1>9, <1>10, <1>11, QuietKernel

(* The steps after which nothing is read: all who were due have come.      *)
LEMMA LaterTracks ==
  ASSUME Accounting, Tracking,
         CloseTask \/ CloseProc \/ PrintProcs \/ FreeProc \/ FreedAll \/ Swap \/ MainReturns
  PROVE  Tracking'
<1> USE DEF Accounting, Tracking
<1>1. UNCHANGED <<kernel, options, rec, pids, tids, proc, alive, this, last>>
  BY DEF CloseTask, CloseProc, PrintProcs, FreeProc, FreedAll, Swap, MainReturns, history
<1>2. Quiet /\ proc = Null
  BY <1>1 DEF Quiet, Control, CloseTask, CloseProc, PrintProcs, FreeProc, FreedAll, Swap, MainReturns
<1>3. \/ /\ step = "tids" /\ tids = {} /\ step' = "pids" /\ UNCHANGED <<new_procs, old_procs>>
      \/ /\ step = "pids" /\ pids = {} /\ step' \in {"loop", "print"}
         /\ UNCHANGED <<new_procs, old_procs>>
      \/ step = "print" /\ step' = "free" /\ old_procs' = old_procs /\ PrintProcs
      \/ step = "free" /\ step' \in {"free", "loop"} /\ new_procs' = new_procs
      \/ step = "loop" /\ step' = "open" /\ old_procs' = new_procs
      \/ step = "loop" /\ step' = "done" /\ new_procs' = new_procs
  <2>1. CASE CloseTask
    BY <2>1 DEF CloseTask
  <2>2. CASE CloseProc
    BY <2>2 DEF CloseProc
  <2>3. CASE PrintProcs
    BY <2>3 DEF PrintProcs
  <2>4. CASE FreeProc \/ FreedAll
    BY <2>4 DEF FreeProc, FreedAll
  <2>5. CASE Swap \/ MainReturns
    BY <2>5 DEF Swap, MainReturns
  <2> QED BY <2>1, <2>2, <2>3, <2>4, <2>5
<1>4. /\ step' # "open" => New' = New
      /\ step' = "open" => Old' = New
      /\ step' \in Reading \cup {"print"} => step \in Reading /\ old_procs' = old_procs
  BY <1>3, PrintProcsAccounts DEF New, Old, Reading
<1>5. Ready = New /\ Ready' = New
  BY <1>3, <1>4 DEF Ready
<1>6. Between' /\ (step' \in Reading \cup {"print"} => Matches(Old', last', rec', kernel'))
  <2>1. CASE step' \in Reading \cup {"print"}
    BY <1>2, <1>4, <2>1, QuietBetween
  <2>2. CASE step' \notin Reading \cup {"print"}
    BY <2>2 DEF Between
  <2> QED BY <2>1, <2>2
<1>7. Rounds'
  <2>1. Matches(New, this', rec', kernel')
    BY <1>2, <1>5, QuietKernel
  <2> QED BY <1>2, <1>5, <1>6, <2>1, QuietKernel DEF Rounds
<1>8. Fresh'
  <2>1. CASE step' = "pids"
    <3>1. Met' = Met
      BY <1>1, <1>4, <2>1 DEF Met
    <3>2. \A t \in Met : PidOf[t] \notin pids /\ t \notin tids
      BY <1>3, <2>1 DEF Fresh, Reading
    <3> QED BY <1>1, <2>1, <3>1, <3>2 DEF Fresh
  <2>2. CASE step' # "pids"
    BY <1>3, <2>2 DEF Fresh, Reading
  <2> QED BY <2>1, <2>2
<1>9. Noticed'
  <2> SUFFICES ASSUME step' # "open", NEW t \in alive, Due(t) PROVE Found(t)' \/ Coming(t)'
    <3>1. alive' = alive /\ \A t \in alive' : kernel'[t].alive
      BY <1>1, <1>2, QuietKernel
    <3>2. \A t \in alive : Due(t)' <=> Due(t)
      BY <1>2, QuietKernel DEF ProcTypeOK
    <3> QED BY <3>1, <3>2 DEF Noticed
  <2>1. Found(t) \/ PidOf[t] \in pids
    BY <1>2, <1>3 DEF Noticed, Coming, Control
  <2>2. CASE Found(t)
    BY <1>1, <1>4, <2>2 DEF Found
  <2>3. CASE PidOf[t] \in pids
    BY <1>1, <2>3 DEF Coming
  <2> QED BY <2>1, <2>2, <2>3
<1> QED BY <1>2, <1>6, <1>7, <1>8, <1>9, QuietKernel

(* What the tasks do, one by one.                                          *)
LEMMA KernelChanges ==
  ASSUME ProcTypeOK, NEW t \in Tids
  PROVE  /\ Run(t) => \A u \in Tids : /\ kernel'[u].life = kernel[u].life
                                      /\ kernel'[u].time >= kernel[u].time
                                      /\ kernel'[u].alive <=> kernel[u].alive
         /\ Exit(t) => \A u \in Tids : /\ kernel'[u].life = kernel[u].life
                                       /\ kernel'[u].time = kernel[u].time
                                       /\ kernel'[u].alive <=> kernel[u].alive /\ u \notin Leaving(t)
         /\ Create(t) => /\ kernel'[t].life = kernel[t].life + 1 /\ kernel'[t].alive
                         /\ \A u \in Tids : u # t => kernel'[u] = kernel[u]
<1>1. kernel \in [Tids -> Tasks] /\ \A u \in Tids : kernel[u] \in Tasks
  BY DEF ProcTypeOK
<1>2. ASSUME Run(t)
      PROVE  \A u \in Tids : /\ kernel'[u].life = kernel[u].life
                             /\ kernel'[u].time >= kernel[u].time
                             /\ kernel'[u].alive <=> kernel[u].alive
  <2> DEFINE after == [kernel[t] EXCEPT !.time = kernel[t].time + 1]
  <2>1. after.life = kernel[t].life /\ after.time = kernel[t].time + 1 /\ after.alive = kernel[t].alive
    BY <1>1 DEF Tasks
  <2>2. kernel' = [kernel EXCEPT ![t] = after]
    BY <1>2 DEF Run
  <2> HIDE DEF after
  <2>3. \A u \in Tids : kernel'[u] = IF u = t THEN after ELSE kernel[u]
    BY <1>1, <2>2
  <2>4. \A u \in Tids : kernel[u].time \in Int
    BY <1>1 DEF Tasks
  <2> QED BY <2>1, <2>3, <2>4
<1>3. ASSUME Exit(t), NEW u \in Tids
      PROVE  /\ kernel'[u].life = kernel[u].life
             /\ kernel'[u].time = kernel[u].time
             /\ kernel'[u].alive <=> kernel[u].alive /\ u \notin Leaving(t)
  <2> DEFINE stays == kernel[u].alive /\ u \notin Leaving(t)
             after == [kernel[u] EXCEPT !.alive = stays]
  <2>1. kernel'[u] = after
    BY <1>3 DEF Exit
  <2>2. after.life = kernel[u].life /\ after.time = kernel[u].time /\ after.alive = stays
    <3> HIDE DEF stays
    <3> QED BY <1>1 DEF Tasks
  <2> QED BY <2>1, <2>2
<1>4. ASSUME Create(t)
      PROVE  /\ kernel'[t].life = kernel[t].life + 1 /\ kernel'[t].alive
             /\ \A u \in Tids : u # t => kernel'[u] = kernel[u]
  <2>1. kernel' = [kernel EXCEPT ![t] = [alive |-> TRUE, life |-> kernel[t].life + 1, time |-> 0]]
    BY <1>4 DEF Create
  <2> QED BY <1>1, <2>1
<1> QED BY <1>2, <1>3, <1>4

(* The tasks: a life that has ended does not come back.                    *)
LEMMA KernelTracks ==
  ASSUME Accounting, Tracking, KernelSteps
  PROVE  Tracking'
<1> USE DEF Accounting, Tracking
<1>1. PICK t \in Tids : Run(t) \/ Exit(t) \/ Create(t)
  BY DEF KernelSteps
<1>2. /\ UNCHANGED <<options, rec, new_procs, old_procs, step, pids, tids, pid, proc, this, last>>
      /\ New' = New /\ Old' = Old /\ Hand' = Hand
  BY KernelAccounts DEF monitor
<1>3. \A u \in Tids : kernel[u] \in Tasks /\ this[u].life \in Int /\ last[u].life \in Int
                      /\ this[u].time \in Int /\ last[u].time \in Int
                      /\ kernel[u].life \in Int /\ kernel[u].time \in Int
  <2>1. /\ kernel \in [Tids -> Tasks]
        /\ this \in [Tids -> [life : 0 .. MaxLife, time : 0 .. MaxTime]]
        /\ last \in [Tids -> [life : 0 .. MaxLife, time : 0 .. MaxTime]]
    BY DEF ProcTypeOK
  <2>2. \A u \in Tids : /\ kernel[u] \in Tasks
                        /\ this[u] \in [life : 0 .. MaxLife, time : 0 .. MaxTime]
                        /\ last[u] \in [life : 0 .. MaxLife, time : 0 .. MaxTime]
    BY <2>1
  <2> QED BY <2>2 DEF Tasks
<1>4. \A u \in Tids :
        \/ /\ kernel'[u].life = kernel[u].life /\ kernel'[u].time >= kernel[u].time
           /\ kernel'[u].alive => kernel[u].alive
        \/ kernel'[u].life = kernel[u].life + 1
  <2>1. CASE Run(t) \/ Exit(t)
    BY <1>3, <2>1, KernelChanges
  <2>2. CASE Create(t)
    BY <1>3, <2>2, KernelChanges
  <2> QED BY <1>1, <2>1, <2>2
<1>5. KernelOK'
  <2>1. \A u \in Tids : kernel'[u].life >= 1
    BY <1>3, <1>4 DEF KernelOK
  <2>2. \A u \in Tids : kernel'[u].alive => kernel'[PidOf[u]].alive
    <3>1. \A u \in Tids : PidOf[u] \in Tids /\ (kernel[u].alive => kernel[PidOf[u]].alive)
      BY DEF KernelOK
    <3>2. CASE Run(t)
      BY <3>1, <3>2, KernelChanges
    <3>3. CASE Exit(t)
      <4>1. \A u \in Tids : PidOf[u] \in Leaving(t) => u \in Leaving(t)
        BY DEF Leaving
      <4> QED BY <3>1, <3>3, <4>1, KernelChanges
    <3>4. CASE Create(t)
      <4>1. t = PidOf[t] \/ kernel[PidOf[t]].alive
        BY <3>4 DEF Create
      <4> QED BY <3>1, <3>4, <4>1, KernelChanges
    <3> QED BY <1>1, <3>2, <3>3, <3>4
  <2> QED BY <2>1, <2>2 DEF KernelOK
<1>6. \A seen \in {this, last} : SeenBefore(seen, kernel) =>
        /\ SeenBefore(seen, kernel')
        /\ \A u \in Tids : Living(seen, kernel', u) => Living(seen, kernel, u)
  <2> SUFFICES ASSUME NEW seen \in {this, last}, SeenBefore(seen, kernel), NEW u \in Tids
               PROVE  /\ seen[u].life <= kernel'[u].life
                      /\ seen[u].life = kernel'[u].life => seen[u].time <= kernel'[u].time
                      /\ Living(seen, kernel', u) => Living(seen, kernel, u)
    BY DEF SeenBefore
  <2>1. /\ seen[u].life \in Int /\ seen[u].time \in Int
        /\ seen[u].life <= kernel[u].life
        /\ seen[u].life = kernel[u].life => seen[u].time <= kernel[u].time
    BY <1>3 DEF SeenBefore
  <2>2. CASE /\ kernel'[u].life = kernel[u].life /\ kernel'[u].time >= kernel[u].time
             /\ kernel'[u].alive => kernel[u].alive
    <3>1. kernel'[u].time \in Int
      <4>1. kernel' \in [Tids -> Tasks]
        BY KernelAccounts DEF ProcTypeOK
      <4>2. kernel'[u] \in Tasks
        BY <4>1
      <4> QED BY <4>2 DEF Tasks
    <3> QED BY <1>3, <2>1, <2>2, <3>1 DEF Living
  <2>3. CASE kernel'[u].life = kernel[u].life + 1
    BY <1>3, <2>1, <2>3 DEF Living
  <2> QED BY <1>4, <2>2, <2>3
<1>7. Ready' = Ready
  BY <1>2 DEF Ready
<1>8. Rounds'
  <2>1. SeenBefore(this, kernel) /\ SeenBefore(last, kernel) /\ Matches(Ready, this, rec, kernel)
    BY DEF Rounds
  <2>2. SeenBefore(this', kernel') /\ SeenBefore(last', kernel')
    BY <1>2, <1>6, <2>1
  <2>3. Matches(Ready', this', rec', kernel')
    BY <1>2, <1>6, <1>7, <2>1, MatchesSame
  <2>4. ASSUME step' \in Reading \cup {"print"} PROVE Matches(Old', last', rec', kernel')
    <3>1. Matches(Old, last, rec, kernel)
      BY <1>2, <2>4 DEF Rounds
    <3> QED BY <1>2, <1>6, <2>1, <3>1, MatchesSame
  <2> QED BY <2>2, <2>3, <2>4 DEF Rounds
<1>9. Between'
  BY <1>2 DEF Between
<1>10. Fresh'
  <2>1. Met' = Met
    BY <1>2 DEF Met
  <2> QED BY <1>2, <2>1 DEF Fresh
<1>11. Noticed'
  <2>1. alive' \subseteq alive /\ \A u \in alive' : kernel'[u].alive
    <3>1. alive \subseteq Tids /\ \A u \in alive : kernel[u].alive
      BY DEF Noticed, ProcTypeOK
    <3>2. CASE Run(t)
      BY <3>1, <3>2, KernelChanges DEF Run
    <3>3. CASE Exit(t)
      BY <3>1, <3>3, KernelChanges DEF Exit
    <3>4. CASE Create(t)
      BY <3>1, <3>4, KernelChanges DEF Create
    <3> QED BY <1>1, <3>2, <3>3, <3>4
  <2> QED BY <1>2, <2>1 DEF Noticed, Due, Wanted, Found, Coming
<1> QED BY <1>5, <1>8, <1>9, <1>10, <1>11

(* qsort puts the entries without a record last.                           *)
NullsLast == \A i, j \in DOMAIN new_procs : i < j /\ new_procs[i] = Null => new_procs[j] = Null
Sorted == step = "free" => NullsLast

LEMMA SortedKept ==
  ASSUME Accounting, Sorted, [ProcNext]_procVars
  PROVE  Sorted'
<1>1. CASE step' # "free"
  BY <1>1 DEF Sorted
<1>2. CASE step' = "free"
  <2>1. PrintProcs \/ (step = "free" /\ new_procs' = new_procs)
    <3>1. CASE KernelSteps \/ UNCHANGED procVars
      BY <1>2, <3>1, KernelAccounts DEF monitor, procVars
    <3>2. CASE \/ OpenProc \/ NextPid \/ ReadStat \/ OpenTask \/ NextTid \/ CloseTask
               \/ CloseProc \/ FreedAll \/ Swap \/ MainReturns
      <4>1. step' \in {"pids", "opentask", "stat", "tids", "loop", "print", "open", "done"}
        BY <3>2 DEF OpenProc, NextPid, ReadStat, OpenTask, NextTid, CloseTask, CloseProc,
                    FreedAll, Swap, MainReturns
      <4> QED BY <1>2, <4>1
    <3>3. CASE FreeProc
      BY <3>3 DEF FreeProc
    <3> QED BY <3>1, <3>2, <3>3 DEF ProcNext, KernelSteps
  <2>2. CASE step = "free" /\ new_procs' = new_procs
    BY <2>2 DEF Sorted, NullsLast
  <2>3. CASE PrintProcs
    <3>1. PICK f \in Orders(new_procs) : new_procs' = [i \in DOMAIN new_procs |-> new_procs[f[i]]]
      BY <2>3 DEF PrintProcs
    <3>2. \A i, j \in DOMAIN new_procs : i < j => MayPrecede(new_procs[f[i]], new_procs[f[j]])
      BY <3>1 DEF Orders
    <3>3. \A i, j \in DOMAIN new_procs :
            i < j /\ new_procs[f[i]] = Null => new_procs[f[j]] = Null
      BY <3>2 DEF MayPrecede
    <3>4. /\ DOMAIN new_procs' = DOMAIN new_procs
          /\ \A i \in DOMAIN new_procs : new_procs'[i] = new_procs[f[i]]
      BY <3>1
    <3> QED BY <3>3, <3>4 DEF Sorted, NullsLast
  <2> QED BY <2>1, <2>2, <2>3
<1> QED BY <1>1, <1>2

-----------------------------------------------------------------------------
ProcInv == Accounting /\ Tracking /\ Sorted

LEMMA ProcInvInit == ProcInit => ProcInv
<1> SUFFICES ASSUME ProcInit PROVE ProcInv
  OBVIOUS
<1>1. Accounting
  BY AccountingInit
<1>2. /\ step = "open" /\ alive = {} /\ old_procs = << >>
      /\ this = [t \in Tids |-> Unseen] /\ last = [t \in Tids |-> Unseen]
      /\ \A t \in Tids : kernel[t].alive => kernel[PidOf[t]].alive
  BY DEF ProcInit
<1>3. \A t \in Tids : kernel[t].life = 1 /\ this[t].life = 0 /\ last[t].life = 0
  <2>1. kernel \in [Tids -> {[alive |-> a, life |-> 1, time |-> 0] : a \in BOOLEAN}]
    BY DEF ProcInit
  <2> QED BY <1>2, <2>1 DEF Unseen
<1>4. KernelOK
  BY <1>2, <1>3 DEF KernelOK
<1>5. Ready = {}
  BY <1>2, EmptyTable DEF Ready, Old
<1>6. Rounds
  BY <1>2, <1>3, <1>5 DEF Rounds, SeenBefore, Matches, Living, Reading
<1>7. Between /\ Fresh /\ Noticed /\ Sorted
  BY <1>2 DEF Between, Fresh, Noticed, Sorted, Reading
<1> QED BY <1>1, <1>4, <1>6, <1>7 DEF ProcInv, Tracking

LEMMA ProcInvKept == ProcInv /\ [ProcNext]_procVars => ProcInv'
<1> SUFFICES ASSUME ProcInv, [ProcNext]_procVars PROVE ProcInv'
  OBVIOUS
<1> USE DEF ProcInv
<1>1. Accounting'
  BY AccountingKept
<1>2. Sorted'
  BY SortedKept
<1>3. Tracking'
  <2>1. CASE UNCHANGED procVars
    <3>1. UNCHANGED <<kernel, options, rec, new_procs, old_procs, step, pids, tids, pid, proc,
                      alive, this, last>>
      BY <2>1 DEF procVars, monitor, history
    <3>2. New' = New /\ Old' = Old /\ Hand' = Hand
      BY <3>1 DEF New, Old, Hand
    <3>3. KernelOK' /\ Rounds' /\ Between'
      BY <3>1, <3>2 DEF Tracking, KernelOK, Rounds, Between, Ready
    <3>4. Fresh' /\ Noticed'
      BY <3>1, <3>2 DEF Tracking, Fresh, Noticed, Met, Due, Wanted, Found, Coming
    <3> QED BY <3>3, <3>4 DEF Tracking
  <2>2. CASE ProcNext
    BY <2>2, OpenProcTracks, NextPidTracks, ReadStatTracks, OpenTaskTracks, NextTidTracks,
       LaterTracks, KernelTracks DEF ProcNext, KernelSteps
  <2> QED BY <2>1, <2>2
<1> QED BY <1>1, <1>2, <1>3

(* Whatever the monitor and the tasks do keeps the invariant.              *)
LEMMA ProcInvariant == ProcSpec => []ProcInv
BY ProcInvInit, ProcInvKept, PTL DEF ProcSpec

(* Types, of the records and the tables of read_procs and of the tasks.    *)
THEOREM ProcTypesCorrect == ProcSpec => []ProcTypeOK
<1>1. ProcInv => ProcTypeOK
  BY DEF ProcInv, Accounting
<1> QED BY <1>1, ProcInvariant, PTL

(* Every record is in one place, and the counters count them (alloc_proc,  *)
(* add_proc, free_old_procs), whatever the tasks do and however many.      *)
THEOREM RecordsCounted == ProcSpec => []RecordsAccounted
<1>1. ProcInv => RecordsAccounted
  BY AccountingCounts DEF ProcInv
<1> QED BY <1>1, ProcInvariant, PTL

(* The difference that print_procs takes is what the task itself has used  *)
(* between the two rounds, and does not wrap.                              *)
THEOREM DeltaCorrect == ProcSpec => []DeltaIsOwn
<1>1. ProcInv => DeltaIsOwn
  <2> SUFFICES ASSUME ProcInv, step = "print", NEW r \in New,
                      this[rec[r].tid].life # 0, last[rec[r].tid].life = this[rec[r].tid].life
               PROVE  Delta(r) = this[rec[r].tid].time - last[rec[r].tid].time
    BY DEF DeltaIsOwn, New
  <2> DEFINE t == rec[r].tid
  <2>1. Accounting /\ Matches(New, this, rec, kernel) /\ Matches(Old, last, rec, kernel)
    BY DEF ProcInv, Tracking, Rounds, Ready
  <2>2. t \in Tids
    <3>1. rec[r] \in [tid : Tids, time : Times]
      BY <2>1, PlacesAreRecords DEF Accounting
    <3> QED BY <3>1
  <2>3. PICK o \in Old : rec[o].tid = t /\ rec[o].time = last[t].time
    BY <2>2 DEF ProcInv, Tracking, Between
  <2>4. OldOf(t) = {o}
    BY <2>1, <2>3 DEF OldOf, Old, Matches
  <2>5. rec[r].time = this[t].time /\ last[t].time <= this[t].time
    BY <2>1, <2>2 DEF ProcInv, Tracking, Between, Matches
  <2>6. Delta(r) = (this[t].time - last[t].time) % ULong
    <3>1. (CHOOSE x \in OldOf(t) : TRUE) = o
      BY <2>4
    <3> QED BY <2>3, <2>4, <2>5, <3>1 DEF Delta
  <2>7. this[t].time \in 0 .. MaxTime /\ last[t].time \in 0 .. MaxTime
    <3>1. /\ this \in [Tids -> [life : 0 .. MaxLife, time : 0 .. MaxTime]]
          /\ last \in [Tids -> [life : 0 .. MaxLife, time : 0 .. MaxTime]]
      BY <2>1 DEF Accounting, ProcTypeOK
    <3>2. /\ this[t] \in [life : 0 .. MaxLife, time : 0 .. MaxTime]
          /\ last[t] \in [life : 0 .. MaxLife, time : 0 .. MaxTime]
      BY <2>2, <3>1
    <3> QED BY <3>2
  <2>8. \A d \in 0 .. ULong - 1 : d % ULong = d
    OBVIOUS
  <2> HIDE DEF t
  <2>9. this[t].time - last[t].time \in 0 .. ULong - 1
    BY <2>5, <2>7
  <2> QED BY <2>6, <2>8, <2>9 DEF t
<1> QED BY <1>1, ProcInvariant, PTL

(* A task that is there all through the round is shown, and once, unless   *)
(* there is a limit and as many are shown as it allows: none is missed and *)
(* none comes twice (read_procs), and the first entry without a record is  *)
(* behind them all (qsort).                                                *)
THEOREM LongLivedSeen == ProcSpec => []LongLivedShown
<1>1. ProcInv => LongLivedShown
  <2> SUFFICES ASSUME ProcInv, step = "free", NEW t \in alive,
                      Wanted(PidOf[t]), options.threads \/ t = PidOf[t]
               PROVE  \/ Cardinality({r \in Shown : rec[r].tid = t}) = 1
                      \/ options.max_procs # 0 /\ Cardinality(Shown) = options.max_procs
    BY DEF LongLivedShown
  <2> DEFINE n == Len(new_procs)
             max == options.max_procs
  <2>1. Accounting /\ Matches(New, this, rec, kernel) /\ NullsLast
    BY DEF ProcInv, Tracking, Rounds, Ready, Sorted
  <2>2. PICK r \in New : rec[r].tid = t
    <3>1. t \in Tids /\ tids = {} /\ pids = {} /\ proc = Null
      BY <2>1 DEF Accounting, Control, ProcTypeOK, Reading
    <3>2. Found(t) \/ Coming(t)
      BY DEF ProcInv, Tracking, Noticed, Due
    <3> QED BY <3>1, <3>2 DEF Coming, Found
  <2>3. n \in Nat /\ DOMAIN new_procs = 1 .. n /\ max \in Nat
    <3>1. new_procs \in Seq(Records \cup {Null}) /\ options \in Options
      BY <2>1 DEF Accounting, ProcTypeOK
    <3>2. options \in [threads : BOOLEAN, def_pids : SUBSET Tids, max_procs : Nat]
      BY <3>1
    <3> QED BY <3>1, <3>2
  <2>4. \A x \in New : x # Null /\ \E i \in 1 .. n : new_procs[i] = x
    BY <2>3, Entered DEF New
  <2>5. PICK i \in 1 .. n : new_procs[i] = r /\ r # Null
    BY <2>4
  <2> HIDE DEF n, max
  <2>6. \A k \in 1 .. i : k \in 1 .. n /\ new_procs[k] # Null
    <3>1. \A k \in 1 .. i : k \in 1 .. n /\ (k = i \/ k < i)
      BY <2>3
    <3> QED BY <2>1, <2>3, <2>5, <3>1 DEF NullsLast
  <2> DEFINE Line == {j \in 1 .. n : (\A k \in 1 .. j : new_procs[k] # Null) /\ (max = 0 \/ j <= max)}
  <2>7. Shown = {new_procs[j] : j \in Line}
    BY <2>3 DEF Shown, max
  <2>8. CASE max = 0 \/ i <= max
    <3>1. r \in Shown
      BY <2>5, <2>6, <2>7, <2>8
    <3>2. Shown \subseteq New
      <4>1. \A j \in Line : j \in DOMAIN new_procs /\ new_procs[j] # Null
        BY <2>3
      <4>2. \A j \in Line : new_procs[j] \in New
        BY <4>1, Entered DEF New
      <4> QED BY <2>7, <4>2
    <3>3. {x \in Shown : rec[x].tid = t} = {r}
      BY <2>1, <2>2, <3>1, <3>2 DEF Matches
    <3> QED BY <3>3, FS_Singleton
  <2>9. CASE max # 0 /\ max < i
    <3>1. Line = 1 .. max
      <4>1. \A j \in 1 .. max : j \in 1 .. i /\ j \in 1 .. n
        BY <2>3, <2>9
      <4>2. \A j \in 1 .. max : \A k \in 1 .. j : k \in 1 .. i
        BY <2>3, <2>9
      <4>3. \A j \in 1 .. max : j \in Line
        BY <2>6, <4>1, <4>2
      <4>4. \A j \in Line : j \in 1 .. max
        BY <2>3, <2>9
      <4> QED BY <4>3, <4>4
    <3> HIDE DEF Line
    <3> DEFINE f == [j \in 1 .. max |-> new_procs[j]]
    <3>2. \A j \in 1 .. max : j \in 1 .. n /\ new_procs[j] # Null
      BY <2>3, <2>6, <2>9
    <3>3. \A j, k \in 1 .. max : f[j] = f[k] => j = k
      <4>1. Once(new_procs)
        BY <2>1 DEF Accounting, Divided
      <4> QED BY <2>3, <3>2, <4>1 DEF Once
    <3>4. f \in [1 .. max -> Shown] /\ \A x \in Shown : \E j \in 1 .. max : f[j] = x
      BY <2>7, <3>1
    <3> HIDE DEF f
    <3>5. f \in Bijection(1 .. max, Shown)
      BY <3>3, <3>4 DEF Bijection, Injection, Surjection, IsInjective
    <3>6. ExistsBijection(1 .. max, Shown)
      BY <3>5 DEF ExistsBijection
    <3> QED BY <2>3, <2>9, <3>6, FS_CountingElements DEF max
  <2> QED BY <2>3, <2>8, <2>9
<1> QED BY <1>1, ProcInvariant, PTL
=============================================================================
