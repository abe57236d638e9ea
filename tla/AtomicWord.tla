----------------------------- MODULE AtomicWord -----------------------------
(***************************************************************************)
(* What the atomic operations of atomic/ promise of one 32-bit word: every *)
(* operation that reads and writes does both in one step, between its call *)
(* and its return.  A cas that fails writes nothing, and may have compared *)
(* with a store of its own that others do not see yet.  A store may become *)
(* visible to others after a release store has returned, and not after an  *)
(* acquire store has.                                                      *)
(***************************************************************************)
EXTENDS Integers

CONSTANTS Procs, Calls, Word,
          Result(_, _),     \* Result(c, v): what call c makes of the word v
          Answer(_, _),     \* Answer(c, v): what it returns
          NoCall, None

VARIABLES word,             \* the word as others see it
          buf,              \* a store that others do not see yet, or None
          status, call, ret

vars == <<word, buf, status, call, ret>>

Visible(p) == IF buf[p] # None THEN buf[p] ELSE word
Loads  == {"acquire_load", "release_load"}
Stores == {"acquire_store", "release_store"}

Init ==
  /\ word \in Word
  /\ buf = [p \in Procs |-> None]
  /\ status = [p \in Procs |-> "idle"]
  /\ call = [p \in Procs |-> NoCall]
  /\ ret = [p \in Procs |-> 0]

Invoke(p) ==
  /\ status[p] = "idle"
  /\ status' = [status EXCEPT ![p] = "called"]
  /\ \E c \in Calls : call' = [call EXCEPT ![p] = c]
  /\ UNCHANGED <<word, buf, ret>>

Answered(p, v) ==
  /\ status' = [status EXCEPT ![p] = "done"]
  /\ ret' = [ret EXCEPT ![p] = Answer(call[p], v)]
  /\ call' = call

Modify(p) ==
  /\ status[p] = "called" /\ call[p].kind \notin Loads \cup Stores
  /\ word' = Result(call[p], word)
  /\ Answered(p, word)
  /\ buf' = buf

Compare(p) ==
  /\ status[p] = "called" /\ call[p].kind = "cas" /\ Visible(p) # call[p].a
  /\ Answered(p, Visible(p))
  /\ UNCHANGED <<word, buf>>

Load(p) ==
  /\ status[p] = "called" /\ call[p].kind \in Loads
  /\ Answered(p, Visible(p))
  /\ UNCHANGED <<word, buf>>

Store(p) ==
  /\ status[p] = "called" /\ call[p].kind \in Stores /\ buf[p] = None
  /\ buf' = [buf EXCEPT ![p] = Result(call[p], word)]
  /\ Answered(p, word)
  /\ word' = word

Drain(p) ==
  /\ buf[p] # None
  /\ word' = buf[p]
  /\ buf' = [buf EXCEPT ![p] = None]
  /\ UNCHANGED <<status, call, ret>>

Return(p) ==
  /\ status[p] = "done"
  /\ call[p].kind = "acquire_store" => buf[p] = None
  /\ status' = [status EXCEPT ![p] = "idle"]
  /\ call' = [call EXCEPT ![p] = NoCall]
  /\ ret' = [ret EXCEPT ![p] = 0]
  /\ UNCHANGED <<word, buf>>

Next == \E p \in Procs :
  Invoke(p) \/ Modify(p) \/ Compare(p) \/ Load(p) \/ Store(p) \/ Drain(p) \/ Return(p)

Spec == Init /\ [][Next]_vars
=============================================================================
