------------------------------- MODULE Atomic -------------------------------
(***************************************************************************)
(* The atomic operations of atomic/atomic-arm.h, atomic-mips.h and         *)
(* atomic-x86.h on one word.                                               *)
(*                                                                         *)
(* A step is one instruction that touches memory.  ARM and MIPS load       *)
(* linked, compute, and store conditionally until the store succeeds; x86  *)
(* has locked instructions, and a loop of load and compare-and-swap for    *)
(* and and or.  A plain store waits in the processor's buffer until it is  *)
(* drained or a barrier has passed (ANDROID_SMP is not 0); BOUND: one store *)
(* per processor waits.                                                    *)
(***************************************************************************)
EXTENDS Integers

CONSTANTS Procs,
          Calls,            \* [kind, a, b]: an operation and its arguments
          Modulus,          \* 2^32
          BitAnd(_, _), BitOr(_, _),
          Archs,            \* the headers: "arm", "mips", "x86"
          NoCall, None

Word == 0 .. Modulus - 1
Loads  == {"acquire_load", "release_load"}
Stores == {"acquire_store", "release_store"}
Kinds  == Loads \cup Stores \cup {"add", "and", "or", "cas", "swap"}

ASSUME AtomicAssumption ==
  /\ Modulus \in Nat \ {0}
  /\ Archs \subseteq {"arm", "mips", "x86"}
  /\ Calls \subseteq [kind : Kinds, a : Word, b : Word]
  /\ None \notin Word
  /\ \A v, w \in Word : BitAnd(v, w) \in Word /\ BitOr(v, w) \in Word

VARIABLES arch,             \* the header compiled in
          word, buf, call, ret,
          pc,               \* idle, call, loaded, done
          prev,             \* the local variable: the value read
          reserved          \* processors whose link is unbroken

shared == <<arch, word, buf>>
vars   == <<arch, word, buf, call, ret, pc, prev, reserved>>

(* inc and dec are add of 1 and of -1; the word wraps.  and, or, add and   *)
(* swap return the old value, cas whether it differed.                     *)
Result(c, v) ==
  CASE c.kind = "add"  -> (v + c.a) % Modulus
    [] c.kind = "and"  -> BitAnd(v, c.a)
    [] c.kind = "or"   -> BitOr(v, c.a)
    [] c.kind = "swap" -> c.a
    [] c.kind = "cas"  -> IF v = c.a THEN c.b ELSE v
    [] c.kind \in Stores -> c.a
    [] OTHER -> v
Answer(c, v) ==
  CASE c.kind = "cas" -> IF v = c.a THEN 0 ELSE 1
    [] c.kind \in Stores -> 0
    [] OTHER -> v

Init ==
  /\ arch \in Archs
  /\ word \in Word /\ buf = [p \in Procs |-> None]
  /\ call = [p \in Procs |-> NoCall] /\ ret = [p \in Procs |-> 0]
  /\ pc = [p \in Procs |-> "idle"]
  /\ prev = [p \in Procs |-> 0] /\ reserved = {}

(* swap exists in the MIPS header only.                                    *)
Invoke(p) ==
  /\ pc[p] = "idle"
  /\ \E c \in Calls : (c.kind = "swap" => arch = "mips") /\ call' = [call EXCEPT ![p] = c]
  /\ pc' = [pc EXCEPT ![p] = "call"]
  /\ UNCHANGED <<shared, ret, prev, reserved>>

Done(p, v) ==
  /\ pc' = [pc EXCEPT ![p] = "done"]
  /\ ret' = [ret EXCEPT ![p] = Answer(call[p], v)]
  /\ call' = call

(* What an instruction waits for that orders the processor's own stores    *)
(* before it: a barrier, a locked instruction, another store of the word.  *)
Drained(p) == buf[p] = None
Visible(p) == IF buf[p] # None THEN buf[p] ELSE word
Modifies(p) == call[p].kind \notin Loads \cup Stores
Linked == arch \in {"arm", "mips"}
Loop(p) == arch = "x86" /\ call[p].kind \in {"and", "or"}

(***************************************************************************)
(* ARM and MIPS.  add, and and or begin with a barrier; cas and swap do    *)
(* not, and may load the processor's own store while it still waits.  A    *)
(* comparison that fails leaves the loop at once.                          *)
(***************************************************************************)
LoadLinked(p) ==
  /\ Linked /\ pc[p] = "call" /\ Modifies(p)
  /\ call[p].kind \in {"add", "and", "or"} => Drained(p)
  /\ prev' = [prev EXCEPT ![p] = Visible(p)]
  /\ reserved' = reserved \cup {p}
  /\ IF call[p].kind = "cas" /\ Visible(p) # call[p].a
     THEN Done(p, Visible(p))
     ELSE pc' = [pc EXCEPT ![p] = "loaded"] /\ UNCHANGED <<call, ret>>
  /\ UNCHANGED shared

StoreCondSpins(p) ==                               \* mutant: the loop leaves out the load
  /\ Linked /\ pc[p] = "loaded" /\ (p \in reserved => Drained(p))
  /\ IF p \in reserved
     THEN /\ word' = Result(call[p], prev[p]) /\ reserved' = {}
          /\ Done(p, prev[p])
     ELSE UNCHANGED <<pc, word, reserved, call, ret>>
  /\ UNCHANGED <<arch, buf, prev>>
StoreCond(p) ==
  /\ Linked /\ pc[p] = "loaded" /\ (p \in reserved => Drained(p))
  /\ IF p \in reserved
     THEN /\ word' = Result(call[p], prev[p]) /\ reserved' = {}
          /\ Done(p, prev[p])
     ELSE /\ pc' = [pc EXCEPT ![p] = "call"]
          /\ UNCHANGED <<word, reserved, call, ret>>
  /\ UNCHANGED <<arch, buf, prev>>

(* An interrupt or a cache eviction breaks the link.                       *)
LinkBreaks(p) ==
  /\ p \in reserved
  /\ reserved' = reserved \ {p}
  /\ UNCHANGED <<shared, call, ret, pc, prev>>

(***************************************************************************)
(* x86.                                                                    *)
(***************************************************************************)
Locked(p) ==                         \* lock cmpxchg and lock xadd
  /\ arch = "x86" /\ pc[p] = "call" /\ Modifies(p) /\ ~Loop(p) /\ Drained(p)
  /\ word' = Result(call[p], word)
  /\ Done(p, word)
  /\ UNCHANGED <<arch, buf, prev, reserved>>

ReadForLoop(p) ==                    \* prev = *ptr
  /\ pc[p] = "call" /\ Loop(p)
  /\ prev' = [prev EXCEPT ![p] = Visible(p)]
  /\ pc' = [pc EXCEPT ![p] = "loaded"]
  /\ UNCHANGED <<shared, call, ret, reserved>>

CasInLoopBlind(p) ==                               \* mutant: a store for the cas
  /\ pc[p] = "loaded" /\ Loop(p) /\ Drained(p)
  /\ word' = Result(call[p], prev[p]) /\ Done(p, prev[p])
  /\ UNCHANGED <<arch, buf, prev, reserved>>
CasInLoop(p) ==
  /\ pc[p] = "loaded" /\ Loop(p) /\ Drained(p)
  /\ IF word = prev[p]
     THEN word' = Result(call[p], prev[p]) /\ Done(p, prev[p])
     ELSE pc' = [pc EXCEPT ![p] = "call"] /\ UNCHANGED <<word, call, ret>>
  /\ UNCHANGED <<arch, buf, prev, reserved>>

(***************************************************************************)
(* Loads, stores and barriers.                                             *)
(***************************************************************************)
Load(p) ==
  /\ pc[p] = "call" /\ call[p].kind \in Loads
  /\ call[p].kind = "release_load" => Drained(p)
  /\ Done(p, Visible(p))
  /\ UNCHANGED <<shared, prev, reserved>>

Store(p) ==
  /\ pc[p] = "call" /\ call[p].kind \in Stores /\ Drained(p)
  /\ buf' = [buf EXCEPT ![p] = call[p].a]
  /\ Done(p, word)
  /\ UNCHANGED <<arch, word, prev, reserved>>

(* The store breaks the links of the others; whether it breaks the         *)
(* processor's own depends on the implementation.                          *)
Drain(p) ==
  /\ ~Drained(p)
  /\ word' = buf[p] /\ buf' = [buf EXCEPT ![p] = None]
  /\ reserved' \in {{}, reserved \cap {p}}
  /\ UNCHANGED <<arch, call, ret, pc, prev>>

BarrierAfter(p) ==
  \/ call[p].kind = "acquire_store"
  \/ call[p].kind = "acquire_load" /\ Linked
Return(p) ==
  /\ pc[p] = "done"
  /\ BarrierAfter(p) => Drained(p)
  /\ pc' = [pc EXCEPT ![p] = "idle"]
  /\ call' = [call EXCEPT ![p] = NoCall] /\ ret' = [ret EXCEPT ![p] = 0]
  /\ prev' = [prev EXCEPT ![p] = 0]
  /\ UNCHANGED <<shared, reserved>>

Instruction(p) ==
  \/ LoadLinked(p) \/ StoreCond(p)
  \/ Locked(p) \/ ReadForLoop(p) \/ CasInLoop(p)
  \/ Load(p) \/ Store(p) \/ Return(p)

Next == \E p \in Procs : Invoke(p) \/ Instruction(p) \/ LinkBreaks(p) \/ Drain(p)

(* A processor executes its instructions and drains its stores, and does   *)
(* not lose the link for ever before the store.                            *)
Fairness == \A p \in Procs :
  /\ WF_vars(Instruction(p)) /\ WF_vars(Drain(p))
  /\ SF_vars(p \in reserved /\ StoreCond(p))
Spec == Init /\ [][Next]_vars
FairSpec == Spec /\ Fairness

(***************************************************************************)
(* Properties.                                                             *)
(***************************************************************************)
(* Types.                                                                  *)
TypeOK ==
  /\ arch \in Archs /\ word \in Word /\ buf \in [Procs -> Word \cup {None}]
  /\ call \in [Procs -> Calls \cup {NoCall}] /\ ret \in [Procs -> Word \cup {0, 1}]
  /\ pc \in [Procs -> {"idle", "call", "loaded", "done"}]
  /\ prev \in [Procs -> Word] /\ reserved \subseteq Procs

(* While a link is unbroken between the load and the conditional store,    *)
(* what the processor sees in the word is still the value that it loaded.  *)
LinkKeepsValue ==
  \A p \in reserved : pc[p] = "loaded" => prev[p] = Visible(p)

(* Every operation takes effect in one step, whatever the other processors *)
(* do between the load and the store of its loop.                          *)
A == INSTANCE AtomicWord WITH
       status <- [p \in Procs |-> IF pc[p] \in {"call", "loaded"} THEN "called" ELSE pc[p]]
ImplementsWord == A!Spec

(* The loops are lock-free: as long as somebody is in an operation, some   *)
(* operation completes.                                                    *)
LockFree == (\E p \in Procs : pc[p] # "idle") ~> (\E p \in Procs : pc[p] = "done")
=============================================================================
