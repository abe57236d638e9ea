------------------------------ MODULE FrameRing ------------------------------
(***************************************************************************)
(* The shared audio-style buffer of test_ringbuffer.c: a client thread     *)
(* fills frames, the server (main) drains them, each with a free-running   *)
(* uint32_t frame counter and the counter value at the start of its lap.   *)
(*                                                                         *)
(* The client reads server under the lock and writes user without it; the  *)
(* server reads user without the lock and writes server under it.  Filling *)
(* and draining frames takes time: they are states, not steps.             *)
(***************************************************************************)
EXTENDS Integers

CONSTANTS FrameCount,   \* BUF_FRAME_COUNT
          Laps,         \* 2^32 / BUF_FRAME_COUNT
          FramesReq,    \* BUF_FRAME_REQ, what the client wants to fill at a time
          FramesReqS    \* BUF_FRAME_REQ_S, what the server wants to drain

ASSUME FrameAssumption ==
  /\ FrameCount \in Nat \ {0} /\ Laps \in Nat \ {0, 1}
  /\ FramesReq \in Nat \ {0} /\ FramesReqS \in Nat \ {0}

(* Unsigned arithmetic of the counters' width.                             *)
Modulus == Laps * FrameCount
Word == 0 .. Modulus - 1
Plus(a, b)  == IF a + b < Modulus THEN a + b ELSE a + b - Modulus
Minus(a, b) == IF a >= b THEN a - b ELSE a - b + Modulus
Lesser(a, b) == IF a < b THEN a ELSE b

VARIABLES user, user_base,       \* written by the client
          server, server_base,   \* written by the server
          lock, waiting,         \* the mutex's owner; client blocked on cond
          running,               \* g_client_runnig
          client, avail, fill,   \* client: where it is, frames_avail, chunk
          main, drain            \* server: where it is, chunk

counters == <<user, user_base, server, server_base>>
clientVars == <<client, avail, fill>>
serverVars == <<main, drain>>
vars == <<counters, lock, waiting, running, clientVars, serverVars>>

Init ==
  /\ user = 0 /\ user_base = 0 /\ server = 0 /\ server_base = 0
  /\ lock = "nobody" /\ waiting = FALSE /\ running = TRUE
  /\ client = "loop" /\ avail = 0 /\ fill = 0
  /\ main = "loop" /\ drain = 0

frames_available == Minus(Plus(server, FrameCount), user)
frames_ready == Minus(user, server)

(* A counter's lap starts FrameCount later once it has left the old one.   *)
NewBase(x, base) ==
  IF \/ x >= FrameCount /\ x - FrameCount >= base
     \/ x < FrameCount /\ x >= Plus(base, FrameCount)
  THEN Plus(base, FrameCount) ELSE base

(* What is left of the lap from x on.                                      *)
ToEnd(x, base) == Minus(Plus(base, FrameCount), x)

(***************************************************************************)
(* thread_client.                                                          *)
(***************************************************************************)
ClientLoop ==
  /\ client = "loop"
  /\ client' = IF running THEN "lock" ELSE "exited"
  /\ UNCHANGED <<counters, lock, waiting, running, avail, fill, serverVars>>

(* Look at the space under the lock; with none, wait.                      *)
ClientLook ==
  /\ client = "lock" /\ lock = "nobody"
  /\ avail' = frames_available
  /\ IF frames_available = 0
     THEN client' = "asleep" /\ waiting' = TRUE
     ELSE client' = "plan" /\ waiting' = waiting
  /\ UNCHANGED <<counters, lock, running, fill, serverVars>>

(* Woken: leave, lock in hand, if the program is ending; otherwise look    *)
(* again, once.                                                            *)
ClientWakes ==
  /\ client = "asleep" /\ ~waiting /\ lock = "nobody"
  /\ IF running
     THEN client' = "plan" /\ avail' = frames_available /\ lock' = lock
     ELSE client' = "exited" /\ lock' = "client" /\ avail' = avail
  /\ UNCHANGED <<counters, waiting, running, fill, serverVars>>

SpuriousWakeup ==
  /\ waiting /\ waiting' = FALSE
  /\ UNCHANGED <<counters, lock, running, clientVars, serverVars>>

FillChunkBlind == Lesser(FramesReq, ToEnd(user, user_base))   \* mutant: avail ignored
FillChunkLong == Lesser(FramesReq, avail)                     \* mutant: past the lap's end
FillChunk == Lesser(Lesser(FramesReq, avail), ToEnd(user, user_base))

(* Choose a contiguous chunk and fill it; give up if the counter is below  *)
(* the start of its lap.                                                   *)
ClientPlan ==
  /\ client = "plan"
  /\ IF user < user_base
     THEN client' = "exited" /\ running' = FALSE /\ fill' = fill
     ELSE client' = "fill" /\ running' = running /\ fill' = FillChunk
  /\ UNCHANGED <<counters, lock, waiting, avail, serverVars>>

(* step_user, without the lock.                                            *)
StepUser ==
  /\ client = "fill"
  /\ user' = Plus(user, fill)
  /\ user_base' = NewBase(Plus(user, fill), user_base)
  /\ client' = "loop" /\ fill' = 0 /\ avail' = 0
  /\ UNCHANGED <<server, server_base, lock, waiting, running, serverVars>>

(***************************************************************************)
(* main.                                                                   *)
(***************************************************************************)
DrainChunkBlind == Lesser(FramesReqS, ToEnd(server, server_base)) \* mutant: ready ignored
DrainChunk == Lesser(Lesser(FramesReqS, frames_ready), ToEnd(server, server_base))

(* Nothing ready: sleep and look again.  Otherwise drain a chunk.          *)
ServerPlan ==
  /\ main = "loop" /\ running /\ frames_ready # 0
  /\ drain' = DrainChunk
  /\ main' = "drain"
  /\ UNCHANGED <<counters, lock, waiting, running, clientVars>>

ServerLock ==
  /\ main = "drain" /\ lock = "nobody"
  /\ lock' = "server" /\ main' = "step"
  /\ UNCHANGED <<counters, waiting, running, clientVars, drain>>

Advance ==
  /\ main = "step"
  /\ server' = Plus(server, drain)
  /\ server_base' = NewBase(Plus(server, drain), server_base)
  /\ main' = "rest" /\ drain' = 0
  /\ UNCHANGED <<user, user_base, running, clientVars>>

StepServerSilent == Advance /\ lock' = "nobody" /\ waiting' = waiting   \* mutant: no signal
StepServerHolding == Advance /\ lock' = lock /\ waiting' = FALSE        \* mutant: no unlock
StepServer == Advance /\ lock' = "nobody" /\ waiting' = FALSE

(* usleep(DELAY_S), and count towards the delay of the command line.       *)
Rest ==
  /\ main = "rest"
  /\ main' = "loop"
  /\ UNCHANGED <<counters, lock, waiting, running, clientVars, drain>>

(* The delay runs out, or the client has stopped.                          *)
ServerStops ==
  /\ main = "rest" \/ (main = "loop" /\ ~running)
  /\ running' = FALSE
  /\ main' = "signal"
  /\ UNCHANGED <<counters, lock, waiting, clientVars, drain>>

LastSignal ==
  /\ main = "signal"
  /\ waiting' = FALSE /\ main' = "join"
  /\ UNCHANGED <<counters, lock, running, clientVars, drain>>

Join ==
  /\ main = "join" /\ client = "exited"
  /\ main' = "done"
  /\ UNCHANGED <<counters, lock, waiting, running, clientVars, drain>>

ClientAcquire == ClientLook \/ ClientWakes
ClientStep == ClientLoop \/ ClientPlan \/ StepUser
ServerStep == ServerPlan \/ StepServer \/ Rest \/ LastSignal \/ Join

Next ==
  \/ ClientAcquire \/ ClientStep \/ SpuriousWakeup
  \/ ServerLock \/ ServerStep \/ ServerStops

Spec == Init /\ [][Next]_vars

(* Both threads are scheduled and get the mutex when they keep asking; the *)
(* main loop also ends when the client has stopped it, but its own delay   *)
(* may never run out.                                                      *)
Fairness ==
  /\ SF_vars(ClientAcquire) /\ WF_vars(ClientStep)
  /\ SF_vars(ServerLock) /\ WF_vars(ServerStep)
  /\ WF_vars(~running /\ ServerStops)

FairSpec == Spec /\ Fairness

(***************************************************************************)
(* Properties.                                                             *)
(***************************************************************************)

(* Types; no more is filled or drained at once than was asked for.         *)
TypeOK ==
  /\ {user, user_base, server, server_base} \subseteq Word
  /\ lock \in {"nobody", "client", "server"} /\ waiting \in BOOLEAN /\ running \in BOOLEAN
  /\ client \in {"loop", "lock", "asleep", "plan", "fill", "exited"}
  /\ avail \in 0 .. FrameCount /\ fill \in 0 .. FramesReq
  /\ main \in {"loop", "drain", "step", "rest", "signal", "join", "done"}
  /\ drain \in 0 .. FramesReqS

(* The counters never overtake each other by more than the buffer, across  *)
(* the wrap of uint32_t: what is ready plus what is free is the buffer.    *)
WithinCapacity ==
  /\ frames_ready <= FrameCount
  /\ frames_ready + frames_available = FrameCount

(* Each counter is inside its lap, so that a chunk, which is addressed     *)
(* from the lap's start, lies inside the buffer.                           *)
Offset(x, base) == Minus(x, base)
ChunksInBuffer ==
  /\ Offset(user, user_base) + fill <= FrameCount /\ Offset(user, user_base) < FrameCount
  /\ Offset(server, server_base) + drain <= FrameCount /\ Offset(server, server_base) < FrameCount

(* The frames the client is filling and those the server is draining are   *)
(* different memory, although neither holds the lock while it works.       *)
FillCells  == {Offset(user, user_base) + k : k \in 0 .. fill - 1}
DrainCells == {Offset(server, server_base) + k : k \in 0 .. drain - 1}
NoFrameShared == FillCells \cap DrainCells = {}

(* The "u < user_base" exit of the client, which ends the program, is      *)
(* never taken: only main stops it.                                        *)
OnlyMainStops == ~running => main \in {"signal", "join", "done"}

(* The client does not sleep over free space.                              *)
SleepsOnlyWhenFull == waiting => frames_available = 0

(* While the program runs, frames keep moving.                             *)
FramesFlow == []<><<server' # server>>_vars \/ <>~running

(* When main ends the loop it gets to the end, unless the client slipped   *)
(* into its wait after main's last signal, which is sent without the lock. *)
MissedSignal == main = "join" /\ waiting
EndsUnlessMissed == (main = "signal") ~> (main = "done" \/ MissedSignal)
=============================================================================
