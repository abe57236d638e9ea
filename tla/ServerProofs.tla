---------------------------- MODULE ServerProofs ----------------------------
(***************************************************************************)
(* Theorems about the two servers: the one that drains the shared frame    *)
(* buffer (FrameRing), and the broadcast server (BrServer).                *)
(***************************************************************************)
EXTENDS FrameRing, BrServer, FiniteSetTheorems, WellFoundedInduction, TLAPS

(***************************************************************************)
(* FrameRing, for every buffer, every width of the counters and every size *)
(* of the requests: the frames ready and free always make up the buffer    *)
(* across the wrap of the counters, and the two chunks being worked on     *)
(* without the lock never overlap.                                         *)
(*                                                                         *)
(* The argument is about laps: a base is a multiple of the buffer, so that *)
(* a lap never straddles the wrap, and a counter stays within its lap.     *)
(***************************************************************************)
IsLap(b) == \E k \in Nat : b = k * FrameCount
InLap(x, b) == IsLap(b) /\ b <= x /\ x < b + FrameCount /\ b + FrameCount <= Modulus

Shape ==
  /\ TypeOK
  /\ InLap(user, user_base) /\ InLap(server, server_base)

(* What each side has planned is still there, and within its lap: the      *)
(* other side can only have made more of it.                               *)
Planned ==
  /\ frames_ready <= FrameCount
  /\ client = "plan" => avail <= frames_available
  /\ fill <= frames_available /\ fill <= user_base + FrameCount - user
  /\ drain <= frames_ready /\ drain <= server_base + FrameCount - server
  /\ client # "fill" => fill = 0
  /\ main \notin {"drain", "step"} => drain = 0

Sleeping == waiting => client = "asleep" /\ frames_available = 0

Inv == Shape /\ Planned /\ Sleeping /\ OnlyMainStops

-----------------------------------------------------------------------------
(* Arithmetic of laps.                                                     *)
LEMMA Multiples ==
  ASSUME NEW c \in Nat \ {0}, NEW j \in Nat, NEW k \in Nat, j * c < k * c
  PROVE  j * c + c <= k * c
<1>1. j < k
  <2>1. CASE j >= k
    <3>1. PICK d \in Nat : j = k + d
      BY <2>1
    <3>2. j * c = k * c + d * c /\ d * c \in Nat /\ k * c \in Nat
      BY <3>1
    <3> QED BY <3>2
  <2> QED BY <2>1
<1>2. PICK d \in Nat : k = j + 1 + d
  BY <1>1
<1>3. k * c = j * c + c + d * c /\ d * c \in Nat /\ j * c \in Nat
  BY <1>2
<1> QED BY <1>3

(* Two lap bases differ by at least a lap.                                 *)
LEMMA LapGap ==
  ASSUME NEW a, NEW b, IsLap(a), IsLap(b), a < b
  PROVE  a + FrameCount <= b
  BY Multiples, FrameAssumption DEF IsLap

(* The lap after a lap.                                                    *)
LEMMA LapNext ==
  ASSUME NEW b, IsLap(b) PROVE IsLap(b + FrameCount) /\ b \in Nat
<1>1. PICK k \in Nat : b = k * FrameCount
  BY DEF IsLap
<1>2. b + FrameCount = (k + 1) * FrameCount /\ b \in Nat
  BY <1>1, FrameAssumption
<1> QED BY <1>2 DEF IsLap

(* The counter wraps at the end of a lap, and after two laps at least.     *)
LEMMA Sizes ==
  /\ FrameCount \in Nat \ {0} /\ Modulus \in Nat /\ 2 * FrameCount <= Modulus
  /\ IsLap(0) /\ IsLap(Modulus)
<1>1. FrameCount \in Nat \ {0} /\ Laps \in Nat \ {0, 1}
  BY FrameAssumption
<1>2. PICK d \in Nat : Laps = d + 2
  BY <1>1
<1>3. Modulus = 2 * FrameCount + d * FrameCount /\ d * FrameCount \in Nat
  BY <1>1, <1>2 DEF Modulus
<1>4. IsLap(Modulus)
  BY <1>1 DEF IsLap, Modulus
<1>5. IsLap(0)
  BY <1>1 DEF IsLap
<1> QED BY <1>1, <1>3, <1>4, <1>5

(* What is free and what is ready make up the buffer.                      *)
LEMMA FreeAndReady ==
  ASSUME NEW u \in Word, NEW s \in Word, Minus(u, s) <= FrameCount
  PROVE  /\ Minus(Plus(s, FrameCount), u) = FrameCount - Minus(u, s)
         /\ Minus(u, s) \in Nat
  BY Sizes DEF Word, Minus, Plus

(* Filling d frames makes d more ready, draining d makes d fewer.          *)
LEMMA Moves ==
  ASSUME NEW u \in Word, NEW s \in Word, NEW d \in Nat, Minus(u, s) <= FrameCount
  PROVE  /\ Minus(u, s) + d <= FrameCount =>
              Plus(u, d) \in Word /\ Minus(Plus(u, d), s) = Minus(u, s) + d
         /\ d <= Minus(u, s) =>
              Plus(s, d) \in Word /\ Minus(u, Plus(s, d)) = Minus(u, s) - d
  BY Sizes DEF Word, Minus, Plus

(* What is left of a lap, and where a counter is after a chunk of it.      *)
LEMMA LapEnd ==
  ASSUME NEW x \in Word, NEW b, InLap(x, b)
  PROVE  ToEnd(x, b) = b + FrameCount - x /\ Offset(x, b) = x - b /\ b \in Word
  BY Sizes, LapNext DEF Word, InLap, ToEnd, Offset, Minus, Plus

(* A counter advanced within its lap stays in it, or is at the start of    *)
(* the next one, which the base then follows, also where both wrap.        *)
LEMMA LapStep ==
  ASSUME NEW x \in Word, NEW b, InLap(x, b), NEW d \in Nat, d <= b + FrameCount - x
  PROVE  LET y == Plus(x, d) IN
         y \in Word /\ InLap(y, NewBase(y, b)) /\ NewBase(y, b) \in Word
<1> DEFINE y == Plus(x, d)
<1>1. b \in Nat /\ IsLap(b) /\ IsLap(b + FrameCount) /\ b <= x /\ x + d <= b + FrameCount
      /\ b + FrameCount <= Modulus /\ x \in Nat
  <2>1. IsLap(b) /\ b <= x /\ b + FrameCount <= Modulus /\ x \in Nat
    BY Sizes DEF InLap, Word
  <2>2. b \in Nat /\ IsLap(b + FrameCount)
    BY <2>1, LapNext
  <2> QED BY <2>1, <2>2, Sizes
<1>2. CASE x + d < b + FrameCount
  <2>1. y = x + d /\ NewBase(y, b) = b
    BY <1>1, <1>2, Sizes DEF Plus, NewBase
  <2> QED BY <1>1, <1>2, <2>1, Sizes DEF InLap, Word
<1>3. CASE x + d = b + FrameCount /\ b + FrameCount < Modulus
  <2>1. y = b + FrameCount /\ NewBase(y, b) = b + FrameCount
    BY <1>1, <1>3, Sizes DEF Plus, NewBase
  <2>2. b + FrameCount + FrameCount <= Modulus
    BY <1>1, <1>3, LapGap, Sizes
  <2> QED BY <1>1, <1>3, <2>1, <2>2, Sizes DEF InLap, Word
<1>4. CASE x + d = b + FrameCount /\ b + FrameCount = Modulus
  <2>1. y = 0 /\ NewBase(y, b) = 0
    BY <1>1, <1>4, Sizes DEF Plus, NewBase
  <2> QED BY <2>1, Sizes DEF InLap, Word
<1> QED BY <1>1, <1>2, <1>3, <1>4, Sizes

(* The cells of two chunks that are ready and free do not meet.            *)
LEMMA Disjoint ==
  ASSUME NEW u \in Word, NEW ub, InLap(u, ub), NEW s \in Word, NEW sb, InLap(s, sb),
         NEW f \in Nat, NEW d \in Nat, d <= Minus(u, s), Minus(u, s) + f <= FrameCount
  PROVE  (u - ub) + f <= s - sb \/ (s - sb) + d <= u - ub
<1> DEFINE C == FrameCount
<1>1. /\ ub \in Nat /\ sb \in Nat /\ IsLap(ub) /\ IsLap(sb) /\ IsLap(sb + C) /\ IsLap(ub + C)
      /\ ub <= u /\ u < ub + C /\ sb <= s /\ s < sb + C
      /\ ub + C <= Modulus /\ sb + C <= Modulus /\ u \in Nat /\ s \in Nat
  BY LapNext DEF InLap, Word
<1>2. CASE ub = sb
  <2>1. u >= s
    BY <1>1, <1>2, Sizes DEF Minus
  <2> QED BY <1>1, <1>2, <2>1, Sizes DEF Minus
<1>3. CASE sb < ub
  <2>1. sb + C <= ub
    BY <1>1, <1>3, LapGap
  <2>2. sb + C = ub
    <3>1. CASE sb + C < ub
      <4>1. sb + C + C <= ub
        BY <1>1, <3>1, LapGap
      <4> QED BY <1>1, <4>1, Sizes DEF Minus
    <3> QED BY <1>1, <2>1, <3>1, Sizes
  <2> QED BY <1>1, <2>2, Sizes DEF Minus
<1>4. CASE ub < sb
  <2>1. ub + C <= sb
    BY <1>1, <1>4, LapGap
  <2>2. Minus(u, s) = u - s + Modulus
    BY <1>1, <2>1, Sizes DEF Minus
  <2>3. sb + C = Modulus
    <3>1. CASE sb + C < Modulus
      <4>1. sb + C + C <= Modulus
        BY <1>1, <3>1, LapGap, Sizes
      <4> QED BY <1>1, <2>2, <4>1, Sizes
    <3> QED BY <1>1, <3>1, Sizes
  <2>4. ub = 0
    <3>1. CASE 0 < ub
      <4>1. IsLap(0)
        BY Sizes
      <4>2. 0 + FrameCount <= ub
        BY <1>1, <3>1, <4>1, LapGap
      <4>3. C <= ub
        BY <4>2, Sizes
      <4> QED BY <1>1, <2>2, <2>3, <4>3, Sizes
    <3> QED BY <1>1, <3>1
  <2> QED BY <1>1, <2>2, <2>3, <2>4, Sizes
<1> QED BY <1>1, <1>2, <1>3, <1>4
-----------------------------------------------------------------------------
(* The invariant, what it says about the planned chunks, and its proof.    *)
LEMMA Facts ==
  ASSUME Inv
  PROVE  /\ user \in Word /\ server \in Word /\ user_base \in Word /\ server_base \in Word
         /\ frames_ready \in Nat /\ frames_ready <= FrameCount
         /\ frames_available = FrameCount - frames_ready
         /\ fill \in Nat /\ drain \in Nat /\ avail \in Nat
         /\ InLap(user, user_base) /\ InLap(server, server_base)
<1>1. user \in Word /\ server \in Word /\ user_base \in Word /\ server_base \in Word
  BY DEF Inv, Shape, TypeOK
<1>2. fill \in Nat /\ drain \in Nat /\ avail \in Nat
  BY FrameAssumption DEF Inv, Shape, TypeOK
<1>3. frames_ready <= FrameCount /\ InLap(user, user_base) /\ InLap(server, server_base)
  BY DEF Inv, Shape, Planned
<1>4. frames_available = FrameCount - frames_ready /\ frames_ready \in Nat
  BY <1>1, <1>3, FreeAndReady DEF frames_ready, frames_available
<1> QED BY <1>1, <1>2, <1>3, <1>4

(* Init: nothing is ready, and nobody has planned anything.                *)
LEMMA Initial == Init => Inv
<1> SUFFICES ASSUME Init PROVE Inv
  OBVIOUS
<1>1. 0 \in Word /\ InLap(0, 0)
  BY Sizes DEF Word, InLap
<1>2. frames_ready = 0 /\ frames_available = FrameCount
  BY Sizes DEF Init, frames_ready, frames_available, Minus, Plus
<1>3. TypeOK
  <2>1. waiting \in BOOLEAN /\ running \in BOOLEAN
    BY DEF Init
  <2>2. /\ {user, user_base, server, server_base} \subseteq Word
        /\ avail \in 0 .. FrameCount /\ fill \in 0 .. FramesReq /\ drain \in 0 .. FramesReqS
    BY <1>1, FrameAssumption DEF Init
  <2>3. lock = "nobody" /\ client = "loop" /\ main = "loop"
    BY DEF Init
  <2> QED BY <2>1, <2>2, <2>3 DEF TypeOK
<1> QED BY <1>1, <1>2, <1>3, Sizes DEF Init, Inv, Shape, Planned, Sleeping, OnlyMainStops

(* The client plans with the free frames it counts, of which there can     *)
(* only become more until it publishes what it filled.                     *)
LEMMA ClientKeepsInv == Inv /\ (ClientAcquire \/ ClientStep \/ SpuriousWakeup) => Inv'
<1> SUFFICES ASSUME Inv, ClientAcquire \/ ClientStep \/ SpuriousWakeup PROVE Inv'
  OBVIOUS
<1> DEFINE SameCounters == UNCHANGED counters
<1>1. ASSUME SameCounters
      PROVE  /\ frames_ready' = frames_ready /\ frames_available' = frames_available
             /\ InLap(user, user_base)' /\ InLap(server, server_base)'
             /\ user' = user /\ user_base' = user_base
             /\ server' = server /\ server_base' = server_base
  BY <1>1, Facts DEF counters, frames_ready, frames_available
<1>2. CASE ClientLoop
  BY <1>1, <1>2 DEF ClientLoop, Inv, Shape, TypeOK, Planned, Sleeping, OnlyMainStops, serverVars
<1>3. CASE ClientLook
  <2>1. avail' = frames_available /\ avail' \in 0 .. FrameCount /\ SameCounters
    BY <1>3, Facts, Sizes DEF ClientLook
  <2>2. /\ client' \in {"asleep", "plan"} /\ client = "lock" /\ fill' = fill /\ lock' = lock
        /\ running' = running /\ main' = main /\ drain' = drain
    BY <1>3 DEF ClientLook, serverVars
  <2>3. waiting' \in BOOLEAN /\ (waiting' => client' = "asleep" /\ frames_available = 0)
    BY <1>3 DEF ClientLook, Inv, Shape, TypeOK, Sleeping
  <2>4. Shape'
    BY <1>1, <2>1, <2>2, <2>3 DEF Inv, Shape, TypeOK
  <2>5. Planned'
    BY <1>1, <2>1, <2>2, Facts DEF Inv, Planned
  <2>6. Sleeping'
    BY <1>1, <2>1, <2>3 DEF Sleeping
  <2> QED BY <2>2, <2>4, <2>5, <2>6 DEF Inv, OnlyMainStops
<1>4. CASE ClientWakes
  <2>1. avail' \in 0 .. FrameCount /\ SameCounters
    BY <1>4, Facts, Sizes DEF ClientWakes, Inv, Shape, TypeOK
  <2>2. client' = "plan" => avail' = frames_available
    BY <1>4 DEF ClientWakes
  <2>3. Shape'
    BY <1>1, <1>4, <2>1 DEF ClientWakes, Inv, Shape, TypeOK, serverVars
  <2> QED BY <1>1, <1>4, <2>1, <2>2, <2>3, Facts DEF ClientWakes, Inv, Planned, Sleeping,
                                        OnlyMainStops, serverVars
<1>5. CASE ClientPlan
  <2>1. user >= user_base /\ SameCounters
    BY <1>5, Facts, Sizes DEF ClientPlan, InLap, Word
  <2>2. client' = "fill" /\ running' = running /\ fill' = FillChunk
    BY <1>5, <2>1, Facts, Sizes DEF ClientPlan, Word
  <2>3. /\ FillChunk \in 0 .. FramesReq /\ FillChunk <= avail
        /\ FillChunk <= user_base + FrameCount - user
    <3>1. ToEnd(user, user_base) = user_base + FrameCount - user
      BY LapEnd, Facts
    <3>2. user_base + FrameCount - user \in Nat
      BY Facts, Sizes DEF InLap, Word
    <3> QED BY <3>1, <3>2, Facts, FrameAssumption DEF FillChunk, Lesser
  <2>4. avail <= frames_available
    BY <1>5 DEF ClientPlan, Inv, Planned
  <2>5. fill' <= frames_available
    BY <2>2, <2>3, <2>4, Facts, FrameAssumption
  <2>6. Shape'
    BY <1>1, <1>5, <2>1, <2>2, <2>3 DEF ClientPlan, Inv, Shape, TypeOK, serverVars
  <2> QED BY <1>1, <1>5, <2>1, <2>2, <2>3, <2>5, <2>6 DEF ClientPlan, Inv, Planned, Sleeping,
                                                OnlyMainStops, serverVars
<1>6. CASE StepUser
  <2>1. fill <= frames_available /\ fill <= user_base + FrameCount - user /\ ~waiting
    BY <1>6 DEF StepUser, Inv, Planned, Sleeping
  <2>2. user' \in Word /\ InLap(user', user_base') /\ user_base' \in Word
    BY <1>6, <2>1, Facts, LapStep DEF StepUser
  <2>3. frames_ready' = frames_ready + fill /\ frames_ready' <= FrameCount
    <3>1. frames_ready + fill <= FrameCount
      BY <2>1, Facts, Sizes
    <3>2. Minus(Plus(user, fill), server) = Minus(user, server) + fill
      BY <3>1, Facts, Moves DEF frames_ready
    <3> QED BY <1>6, <3>1, <3>2 DEF StepUser, frames_ready
  <2>4. frames_available' = FrameCount - frames_ready'
    <3>1. server' = server /\ server \in Word /\ Minus(user', server) <= FrameCount
      BY <1>6, <2>3, Facts DEF StepUser, frames_ready
    <3>2. Minus(Plus(server, FrameCount), user') = FrameCount - Minus(user', server)
      BY <2>2, <3>1, FreeAndReady
    <3> QED BY <3>1, <3>2 DEF frames_available, frames_ready
  <2>5. fill' = 0 /\ user_base' + FrameCount - user' \in Nat
    BY <1>6, <2>2, Sizes DEF StepUser, InLap, Word
  <2>6. /\ client' = "loop" /\ avail' = 0 /\ server' = server /\ server_base' = server_base
        /\ lock' = lock /\ waiting' = waiting /\ running' = running
        /\ main' = main /\ drain' = drain /\ user_base' \in Word
    BY <1>6, <2>2 DEF StepUser, serverVars
  <2>7. TypeOK'
    BY <2>2, <2>5, <2>6, Sizes, FrameAssumption DEF Inv, Shape, TypeOK
  <2>8. Shape'
    BY <2>2, <2>6, <2>7, Facts DEF Shape
  <2>9. Planned'
    <3>1. drain <= frames_ready /\ drain <= server_base + FrameCount - server
      BY DEF Inv, Planned
    <3>2. drain <= frames_ready'
      BY <2>3, <3>1, Facts
    <3>3. fill' <= frames_available' /\ fill' <= user_base' + FrameCount - user'
      BY <2>3, <2>4, <2>5, Facts, Sizes
    <3> QED BY <2>3, <2>5, <2>6, <3>1, <3>2, <3>3 DEF Inv, Planned
  <2> QED BY <2>1, <2>6, <2>8, <2>9 DEF Inv, Sleeping, OnlyMainStops
<1>7. CASE SpuriousWakeup
  BY <1>1, <1>7 DEF SpuriousWakeup, Inv, Shape, TypeOK, Planned, Sleeping, OnlyMainStops,
                    clientVars, serverVars
<1> QED BY <1>2, <1>3, <1>4, <1>5, <1>6, <1>7 DEF ClientAcquire, ClientStep

(* The server plans with the ready frames it counts, of which there can    *)
(* only become more until it publishes what it drained.                    *)
LEMMA ServerKeepsInv == Inv /\ (ServerLock \/ ServerStep \/ ServerStops) => Inv'
<1> SUFFICES ASSUME Inv, ServerLock \/ ServerStep \/ ServerStops PROVE Inv'
  OBVIOUS
<1> DEFINE SameCounters == UNCHANGED counters
<1>1. ASSUME SameCounters
      PROVE  /\ frames_ready' = frames_ready /\ frames_available' = frames_available
             /\ InLap(user, user_base)' /\ InLap(server, server_base)'
             /\ user' = user /\ user_base' = user_base
             /\ server' = server /\ server_base' = server_base
  BY <1>1, Facts DEF counters, frames_ready, frames_available
<1>2. CASE ServerPlan
  <2>1. /\ DrainChunk \in 0 .. FramesReqS /\ DrainChunk <= frames_ready
        /\ DrainChunk <= server_base + FrameCount - server
    <3>1. ToEnd(server, server_base) = server_base + FrameCount - server
      BY LapEnd, Facts
    <3>2. server_base + FrameCount - server \in Nat
      BY Facts, Sizes DEF InLap, Word
    <3> QED BY <3>1, <3>2, Facts, FrameAssumption DEF DrainChunk, Lesser
  <2>2. SameCounters /\ drain' = DrainChunk /\ main' = "drain" /\ running
    BY <1>2 DEF ServerPlan
  <2>3. Shape'
    BY <1>1, <1>2, <2>1, <2>2 DEF ServerPlan, Inv, Shape, TypeOK, clientVars
  <2> QED BY <1>1, <1>2, <2>1, <2>2, <2>3 DEF ServerPlan, Inv, Planned, Sleeping,
                                             OnlyMainStops, clientVars
<1>3. CASE ServerLock
  BY <1>1, <1>3 DEF ServerLock, Inv, Shape, TypeOK, Planned, Sleeping, OnlyMainStops, clientVars
<1>4. CASE StepServer
  <2>1. drain <= frames_ready /\ drain <= server_base + FrameCount - server /\ running
    BY <1>4 DEF StepServer, Advance, Inv, Planned, OnlyMainStops
  <2>2. server' \in Word /\ InLap(server', server_base') /\ server_base' \in Word
    BY <1>4, <2>1, Facts, LapStep DEF StepServer, Advance
  <2>3. frames_ready' = frames_ready - drain
    <3>1. Minus(user, Plus(server, drain)) = Minus(user, server) - drain
      BY <2>1, Facts, Moves DEF frames_ready
    <3> QED BY <1>4, <3>1 DEF StepServer, Advance, frames_ready
  <2>4. frames_available' = FrameCount - frames_ready' /\ frames_ready' <= FrameCount
    <3>1. user' = user /\ user \in Word /\ Minus(user, server') <= FrameCount
      BY <1>4, <2>3, Facts, Sizes DEF StepServer, Advance, frames_ready
    <3>2. Minus(Plus(server', FrameCount), user) = FrameCount - Minus(user, server')
      BY <2>2, <3>1, FreeAndReady
    <3> QED BY <3>1, <3>2 DEF frames_available, frames_ready
  <2>5. drain' = 0 /\ server_base' + FrameCount - server' \in Nat /\ frames_ready' \in Nat
    BY <1>4, <2>1, <2>2, <2>3, Facts, Sizes DEF StepServer, Advance, InLap, Word
  <2>6. /\ main' = "rest" /\ user' = user /\ user_base' = user_base
        /\ lock' = "nobody" /\ waiting' = FALSE /\ running' = running
        /\ client' = client /\ avail' = avail /\ fill' = fill
    BY <1>4 DEF StepServer, Advance, clientVars
  <2>7. TypeOK'
    <3>1. waiting' \in BOOLEAN
      BY <2>6
    <3>2. drain' \in 0 .. FramesReqS /\ {user, user_base, server, server_base}' \subseteq Word
      BY <2>2, <2>5, <2>6, Facts, FrameAssumption
    <3> QED BY <2>6, <3>1, <3>2 DEF Inv, Shape, TypeOK
  <2>8. Shape'
    BY <2>2, <2>6, <2>7, Facts DEF Shape
  <2>9. Planned'
    <3>1. /\ fill <= frames_available /\ fill <= user_base + FrameCount - user
          /\ client = "plan" => avail <= frames_available
      BY DEF Inv, Planned
    <3>2. frames_available <= frames_available' /\ frames_available' \in Nat
      BY <2>3, <2>4, <2>5, Facts, Sizes
    <3>3. fill' <= frames_available' /\ (client' = "plan" => avail' <= frames_available')
      BY <2>6, <3>1, <3>2, Facts, Sizes
    <3> QED BY <2>4, <2>5, <2>6, <3>1, <3>3 DEF Inv, Planned
  <2> QED BY <2>1, <2>6, <2>8, <2>9 DEF Inv, Sleeping, OnlyMainStops
<1>5. CASE Rest
  BY <1>1, <1>5 DEF Rest, Inv, Shape, TypeOK, Planned, Sleeping, OnlyMainStops, clientVars
<1>6. CASE LastSignal
  BY <1>1, <1>6 DEF LastSignal, Inv, Shape, TypeOK, Planned, Sleeping, OnlyMainStops, clientVars
<1>7. CASE Join
  BY <1>1, <1>7 DEF Join, Inv, Shape, TypeOK, Planned, Sleeping, OnlyMainStops, clientVars
<1>8. CASE ServerStops
  BY <1>1, <1>8 DEF ServerStops, Inv, Shape, TypeOK, Planned, Sleeping, OnlyMainStops, clientVars
<1> QED BY <1>2, <1>3, <1>4, <1>5, <1>6, <1>7, <1>8 DEF ServerStep

(* The invariant of every behaviour.                                       *)
LEMMA InvHolds == Spec => []Inv
<1>1. Inv /\ UNCHANGED vars => Inv'
  BY DEF vars, counters, clientVars, serverVars, Inv, Shape, TypeOK, Planned, Sleeping,
         OnlyMainStops, frames_ready, frames_available
<1>2. Inv /\ [Next]_vars => Inv'
  BY <1>1, ClientKeepsInv, ServerKeepsInv DEF Next
<1> QED BY <1>2, Initial, PTL DEF Spec
-----------------------------------------------------------------------------
(* Types, for every buffer and counter width; no more is filled or drained *)
(* at once than was asked for.                                             *)
THEOREM TypesCorrect == Spec => []TypeOK
<1>1. Inv => TypeOK
  BY DEF Inv, Shape
<1> QED BY <1>1, InvHolds, PTL

(* Ready and free frames always make up the buffer, however often the      *)
(* uint32_t counters have wrapped.                                         *)
THEOREM CapacityKept == Spec => []WithinCapacity
<1>1. Inv => WithinCapacity
  BY Facts, Sizes DEF WithinCapacity
<1> QED BY <1>1, InvHolds, PTL

(* The memory of a chunk lies inside the buffer: a base is the start of    *)
(* the counter's lap.                                                      *)
THEOREM ChunksCorrect == Spec => []ChunksInBuffer
<1>1. Inv => ChunksInBuffer
  <2> SUFFICES ASSUME Inv PROVE ChunksInBuffer
    OBVIOUS
  <2>1. /\ Offset(user, user_base) = user - user_base
        /\ Offset(server, server_base) = server - server_base
    BY Facts, LapEnd
  <2>2. /\ fill <= user_base + FrameCount - user
        /\ drain <= server_base + FrameCount - server
    BY DEF Inv, Planned
  <2> QED BY <2>1, <2>2, Facts, Sizes DEF ChunksInBuffer, InLap, Word
<1> QED BY <1>1, InvHolds, PTL

(* The client fills and the server drains different memory, with no lock   *)
(* held by either.                                                         *)
THEOREM ChunksDisjoint == Spec => []NoFrameShared
<1>1. Inv => NoFrameShared
  <2> SUFFICES ASSUME Inv PROVE NoFrameShared
    OBVIOUS
  <2> DEFINE o == user - user_base
             q == server - server_base
  <2>1. /\ Offset(user, user_base) = o /\ Offset(server, server_base) = q
    BY Facts, LapEnd
  <2>2. drain <= Minus(user, server) /\ Minus(user, server) + fill <= FrameCount
    <3>1. drain <= frames_ready /\ fill <= frames_available
      BY DEF Inv, Planned
    <3>2. frames_ready + fill <= FrameCount
      BY <3>1, Facts, Sizes
    <3> QED BY <3>1, <3>2 DEF frames_ready
  <2>3. o + fill <= q \/ q + drain <= o
    BY <2>2, Facts, Disjoint
  <2>4. o \in Int /\ q \in Int /\ fill \in Nat /\ drain \in Nat
    BY Facts DEF Word
  <2>5. \A x \in FillCells : x \in Int /\ o <= x /\ x < o + fill
    BY <2>1, <2>4 DEF FillCells
  <2>6. \A x \in DrainCells : x \in Int /\ q <= x /\ x < q + drain
    BY <2>1, <2>4 DEF DrainCells
  <2> QED BY <2>3, <2>4, <2>5, <2>6 DEF NoFrameShared
<1> QED BY <1>1, InvHolds, PTL

(* The exit of the client for a counter below its lap is never taken.      *)
THEOREM ClientNeverGivesUp == Spec => []OnlyMainStops
<1>1. Inv => OnlyMainStops
  BY DEF Inv
<1> QED BY <1>1, InvHolds, PTL

(* The client never sleeps over free space: every drained chunk wakes it.  *)
THEOREM WakeUpNotLost == Spec => []SleepsOnlyWhenFull
<1>1. Inv => SleepsOnlyWhenFull
  BY DEF Inv, Sleeping, SleepsOnlyWhenFull
<1> QED BY <1>1, InvHolds, PTL

(***************************************************************************)
(* BrServer, for every set of connections: the linked list is the open     *)
(* clients, the counter counts them, and a broadcast serves them all.      *)
(*                                                                         *)
(* The argument is about an order: some function r of the connections, the *)
(* less the newer, puts the open clients in the order of the list.  It is  *)
(* found anew after an accept and stays what it is when a client is taken  *)
(* off the list; the cursor of a broadcast is a place in that order.       *)
(***************************************************************************)
(* The list, by the age of its clients: r orders the open clients, head is *)
(* the first of them and next leads from each to the one behind it.        *)
Ordered(r) ==
  /\ \A c, d \in open : r[c] = r[d] => c = d
  /\ IF head = Null THEN open = {} ELSE head \in open /\ \A d \in open : r[head] <= r[d]
  /\ \A c \in open :
       IF next[c] = Null THEN \A d \in open : r[d] <= r[c]
       ELSE /\ next[c] \in open /\ r[c] < r[next[c]]
            /\ \A d \in open : r[d] <= r[c] \/ r[next[c]] <= r[d]

(* A broadcast has still to be offered to the cursor and those behind it,  *)
(* and prev is the client before the cursor.                               *)
Cursor(r) ==
  IF pclient = Null THEN todo = {}
  ELSE /\ pclient \in open /\ todo = {d \in open : r[pclient] <= r[d]}
       /\ IF prev = Null THEN head = pclient ELSE prev \in open /\ next[prev] = pclient

Listed == \E r \in [Conns -> Int] : Ordered(r) /\ (pc = "write" => Cursor(r))

(* While the cursor is on an allocated node, all clients have their nodes. *)
Allocated ==
  /\ pc \in {"select", "accept", "read"} => todo = {} /\ open \subseteq heap
  /\ pc = "write" /\ (pclient = Null \/ pclient \in heap) => open \subseteq heap

BrInv == BrTypeOK /\ Listed /\ Allocated /\ CountsClients

USE ConnAssumption

(***************************************************************************)
(* The chain of next fields.                                               *)
(***************************************************************************)
Follow(f, m) == IF m = 0 THEN head ELSE IF f[m - 1] = Null THEN Null ELSE next[f[m - 1]]

(* The chain can be followed for any number of steps.                      *)
LEMMA ChainExists ==
  ASSUME NEW n \in Nat
  PROVE  \E f : f = [m \in 0 .. n |-> Follow(f, m)]
<1> DEFINE Works(k) == \E f : f = [m \in 0 .. k |-> Follow(f, m)]
           Wrong == {k \in Nat : ~Works(k)}
<1>1. SUFFICES ASSUME Wrong # {} PROVE FALSE
  BY <1>1
<1>2. Wrong \in SUBSET Nat
  OBVIOUS
<1> HIDE DEF Wrong
<1>3. PICK k \in Wrong : \A j \in Wrong : ~ (<<j, k>> \in OpToRel(<, Nat))
  BY <1>1, <1>2, WFMin, NatLessThanWellFounded, Zenon
<1>4. \A j \in Wrong : <<j, k>> \in Nat \X Nat /\ <<j, k>>[1] = j /\ <<j, k>>[2] = k
  BY <1>2
<1>5. \A j \in Wrong : ~(j < k)
  BY <1>3, <1>4 DEF OpToRel
<1>6. k \in Nat
  BY <1>2
<1> USE DEF Wrong
<1>7. CASE k = 0
  <2> DEFINE f == [m \in 0 .. 0 |-> head]
  <2>1. f = [m \in 0 .. 0 |-> Follow(f, m)]
    BY DEF Follow
  <2> HIDE DEF f
  <2> QED BY <1>7, <2>1
<1>8. CASE k # 0
  <2>1. k - 1 \in Nat /\ k - 1 < k
    BY <1>6, <1>8
  <2>2. Works(k - 1)
    BY <1>5, <2>1
  <2>3. PICK g : g = [m \in 0 .. k - 1 |-> Follow(g, m)]
    BY <2>2
  <2> DEFINE f == [m \in 0 .. k |-> IF m < k THEN g[m] ELSE Follow(g, k)]
  <2>4. \A m \in 0 .. k : f[m] = Follow(f, m)
    <3>1. ASSUME NEW m \in 0 .. k PROVE Follow(f, m) = Follow(g, m)
      <4>1. m # 0 => m - 1 \in 0 .. k /\ m - 1 < k
        BY <1>6
      <4> QED BY <4>1 DEF Follow
    <3>2. ASSUME NEW m \in 0 .. k, m < k PROVE g[m] = Follow(g, m)
      <4>1. m \in 0 .. k - 1
        BY <1>6, <3>2
      <4> QED BY <2>3, <4>1
    <3>3. \A m \in 0 .. k : ~(m < k) => m = k
      BY <1>6
    <3> QED BY <3>1, <3>2, <3>3
  <2>5. f = [m \in 0 .. k |-> f[m]]
    OBVIOUS
  <2>6. f = [m \in 0 .. k |-> Follow(f, m)]
    BY <2>4, <2>5
  <2> HIDE DEF f
  <2> QED BY <2>6
<1> QED BY <1>7, <1>8

(* Chain is what its definition says.                                      *)
LEMMA ChainUnfolds ==
  /\ DOMAIN Chain = 0 .. Cardinality(Conns)
  /\ \A n \in 0 .. Cardinality(Conns) : Chain[n] = Follow(Chain, n)
<1> DEFINE K == Cardinality(Conns)
<1>1. K \in Nat
  BY FS_CardinalityType DEF ConnAssumption
<1>2. \E f : f = [m \in 0 .. K |-> Follow(f, m)]
  BY <1>1, ChainExists
<1>3. Chain = CHOOSE f : f = [m \in 0 .. K |-> Follow(f, m)]
  BY DEF Chain, Follow
<1>4. Chain = [m \in 0 .. K |-> Follow(Chain, m)]
  BY <1>2, <1>3, Zenon
<1>5. \A g : \A n \in 0 .. K : [m \in 0 .. K |-> Follow(g, m)][n] = Follow(g, n)
  OBVIOUS
<1> QED BY <1>4, <1>5, Zenon

(* The first n of the chain: if it has not ended by then, they are the n   *)
(* clients before the next one; else they are all.                         *)
First(n) == {Chain[m] : m \in 0 .. n - 1} \ {Null}
Followed(r, n) ==
  IF Chain[n] = Null THEN First(n) = open
  ELSE /\ Chain[n] \in open /\ First(n) = {d \in open : r[d] < r[Chain[n]]}
       /\ Cardinality(First(n)) = n

LEMMA FirstOfNext ==
  ASSUME NEW n \in Nat
  PROVE  First(n + 1) = First(n) \cup ({Chain[n]} \ {Null})
<1>1. 0 .. (n + 1) - 1 = 0 .. n - 1 \cup {n}
  OBVIOUS
<1> QED BY <1>1 DEF First

LEMMA ChainFollowed ==
  ASSUME BrTypeOK, NEW r \in [Conns -> Int], Ordered(r),
         NEW n \in 0 .. Cardinality(Conns)
  PROVE  Followed(r, n)
<1> DEFINE K == Cardinality(Conns)
           Wrong == {k \in 0 .. K : ~Followed(r, k)}
<1>1. SUFFICES ASSUME Wrong # {} PROVE FALSE
  BY <1>1
<1>2. K \in Nat /\ Wrong \in SUBSET Nat
  BY FS_CardinalityType DEF ConnAssumption
<1> HIDE DEF Wrong
<1>3. PICK k \in Wrong : \A j \in Wrong : ~ (<<j, k>> \in OpToRel(<, Nat))
  BY <1>1, <1>2, WFMin, NatLessThanWellFounded, Zenon
<1>4. \A j \in Wrong : <<j, k>> \in Nat \X Nat /\ <<j, k>>[1] = j /\ <<j, k>>[2] = k
  BY <1>2
<1>5. \A j \in Wrong : ~(j < k)
  BY <1>3, <1>4 DEF OpToRel
<1> USE DEF Wrong
<1> HIDE DEF K
<1>6. k \in 0 .. K /\ ~Followed(r, k) /\ Null \notin Conns /\ open \subseteq Conns
  BY DEF ConnAssumption, BrTypeOK
<1>7. \A m \in 0 .. K : Chain[m] = Follow(Chain, m)
  BY ChainUnfolds DEF K
<1>8. CASE k = 0
  <2>1. First(0) = {}
    <3>1. 0 .. 0 - 1 = {}
      OBVIOUS
    <3> QED BY <3>1 DEF First
  <2>2. Cardinality({}) = 0
    BY FS_EmptySet
  <2>3. Chain[0] = head
    BY <1>2, <1>7 DEF Follow
  <2>4. head # Null => {d \in open : r[d] < r[head]} = {}
    BY <1>6 DEF Ordered
  <2>5. head = Null => open = {}
    BY DEF Ordered
  <2>6. head # Null => head \in open
    BY DEF Ordered
  <2> QED BY <1>6, <1>8, <2>1, <2>2, <2>3, <2>4, <2>5, <2>6 DEF Followed
<1>9. CASE k # 0
  <2> DEFINE j == k - 1  c == Chain[j]
  <2>1. j \in 0 .. K /\ j < k /\ j \in Nat /\ k = j + 1
    BY <1>2, <1>6, <1>9
  <2>2. Followed(r, j)
    BY <1>5, <2>1
  <2>3. Chain[k] = IF c = Null THEN Null ELSE next[c]
    BY <1>6, <1>7, <1>9 DEF Follow
  <2>4. First(k) = First(j) \cup ({c} \ {Null})
    BY <2>1, FirstOfNext
  <2> HIDE DEF j, c
  <2>5. CASE c = Null
    BY <1>6, <2>2, <2>3, <2>4, <2>5 DEF Followed, c
  <2>6. CASE c # Null
    <3>1. c \in open /\ First(j) = {d \in open : r[d] < r[c]} /\ Cardinality(First(j)) = j
      BY <2>2, <2>6 DEF Followed, c
    <3>2. First(k) = First(j) \cup {c} /\ c \notin First(j) /\ r[c] \in Int
      BY <1>6, <2>4, <2>6, <3>1
    <3>3. First(k) = {d \in open : r[d] <= r[c]}
      <4>1. \A d \in open : r[d] \in Int /\ (r[d] = r[c] => d = c)
        BY <1>6, <3>1 DEF Ordered
      <4> QED BY <3>1, <3>2, <4>1
    <3>4. Cardinality(First(k)) = k
      <4>1. IsFiniteSet(First(j))
        BY <1>6, <3>1, FS_Subset DEF ConnAssumption
      <4>2. Cardinality(First(j) \cup {c}) = Cardinality(First(j)) + 1
        BY <3>2, <4>1, FS_AddElement
      <4> QED BY <2>1, <3>1, <3>2, <4>2
    <3>5. CASE next[c] = Null
      <4>1. \A d \in open : r[d] <= r[c]
        BY <3>1, <3>5 DEF Ordered
      <4>2. First(k) = open
        BY <3>3, <4>1
      <4> QED BY <1>6, <2>3, <2>6, <3>5, <4>2 DEF Followed
    <3>6. CASE next[c] # Null
      <4>1. /\ next[c] \in open /\ r[c] < r[next[c]]
            /\ \A d \in open : r[d] <= r[c] \/ r[next[c]] <= r[d]
        BY <3>1, <3>6 DEF Ordered
      <4>2. \A d \in open : r[d] \in Int
        BY <1>6
      <4>3. First(k) = {d \in open : r[d] < r[next[c]]}
        BY <3>1, <3>3, <4>1, <4>2
      <4> QED BY <1>6, <2>3, <2>6, <3>4, <3>6, <4>1, <4>3 DEF Followed
    <3> QED BY <3>5, <3>6
  <2> QED BY <2>5, <2>6
<1> QED BY <1>8, <1>9

(* So after as many steps as there are connections it has ended, and met   *)
(* every open client.                                                      *)
LEMMA ListedIsOpen ==
  ASSUME BrTypeOK, Listed
  PROVE  ListIsOpenClients
<1> DEFINE K == Cardinality(Conns)
<1>1. PICK r \in [Conns -> Int] : Ordered(r)
  BY DEF Listed
<1>2. K \in Nat /\ IsFiniteSet(Conns) /\ open \subseteq Conns
  BY FS_CardinalityType DEF ConnAssumption, BrTypeOK
<1>3. Followed(r, K)
  BY <1>1, <1>2, ChainFollowed
<1>4. Chain[K] = Null
  <2>1. SUFFICES ASSUME Chain[K] # Null PROVE FALSE
    OBVIOUS
  <2>2. First(K) = {d \in open : r[d] < r[Chain[K]]} /\ Cardinality(First(K)) = K
        /\ Chain[K] \in open
    BY <1>3, <2>1 DEF Followed
  <2>3. First(K) \in SUBSET Conns /\ Chain[K] \in Conns
    BY <1>2, <2>2
  <2>4. First(K) = Conns
    BY <1>2, <2>2, <2>3, FS_Subset
  <2>5. r[Chain[K]] < r[Chain[K]] /\ r[Chain[K]] \in Int
    BY <2>2, <2>3, <2>4
  <2> QED BY <2>5
<1>5. Reachable = First(K)
  <2>1. 0 .. K = 0 .. K - 1 \cup {K}
    BY <1>2
  <2> QED BY <1>4, <2>1 DEF Reachable, First
<1> QED BY <1>3, <1>4, <1>5 DEF Followed, ListIsOpenClients

(***************************************************************************)
(* The invariant is kept.                                                  *)
(***************************************************************************)
(* The types but for the counter, which follows from what it counts.       *)
Domains ==
  /\ head \in Conns \cup {Null} /\ next \in [Conns -> Conns \cup {Null}]
  /\ heap \subseteq Conns /\ open \subseteq Conns /\ gone \subseteq Conns /\ todo \subseteq Conns
  /\ pc \in {"select", "accept", "read", "write", "undefined"} /\ stdin \in BOOLEAN
  /\ pclient \in Conns \cup {Null} /\ prev \in Conns \cup {Null}

LEMMA CountBound ==
  ASSUME NEW S \in SUBSET Conns
  PROVE  IsFiniteSet(S) /\ Cardinality(S) \in 0 .. Cardinality(Conns)
<1>1. IsFiniteSet(S) /\ Cardinality(S) <= Cardinality(Conns)
  BY FS_Subset DEF ConnAssumption
<1>2. Cardinality(S) \in Nat /\ Cardinality(Conns) \in Nat
  BY <1>1, FS_CardinalityType DEF ConnAssumption
<1> QED BY <1>1, <1>2

LEMMA BrInitial == BrInit => BrInv
<1> SUFFICES ASSUME BrInit PROVE BrInv
  OBVIOUS
<1>1. Domains
  BY DEF BrInit, Domains
<1>2. CountsClients
  BY FS_EmptySet DEF BrInit, CountsClients
<1>3. Listed
  <2> DEFINE r == [c \in Conns |-> 0]
  <2>1. r \in [Conns -> Int] /\ Ordered(r) /\ pc # "write"
    BY DEF BrInit, Ordered
  <2> HIDE DEF r
  <2> QED BY <2>1 DEF Listed
<1>4. Allocated
  BY DEF BrInit, Allocated
<1> QED BY <1>1, <1>2, <1>3, <1>4, CountBound DEF BrInv, Domains, CountsClients, BrTypeOK

(* A new client is before all others.                                      *)
LEMMA AcceptKeeps ==
  ASSUME BrInv, Accept PROVE BrInv'
<1>1. PICK c \in Conns \ heap :
        /\ next' = [next EXCEPT ![c] = head] /\ head' = c /\ cnt' = cnt + 1
        /\ heap' = heap \cup {c} /\ open' = open \cup {c}
  BY DEF Accept
<1>2. /\ pc = "accept" /\ pc' \in {"select", "read"} /\ UNCHANGED <<gone, stdin, pclient, prev, todo>>
      /\ Domains /\ open \subseteq heap /\ todo = {} /\ Null \notin Conns
  BY DEF Accept, BrInv, BrTypeOK, Domains, Allocated, ConnAssumption
<1>3. c \notin open /\ c # Null
  BY <1>2
<1>4. PICK r \in [Conns -> Int] : Ordered(r)
  BY DEF BrInv, Listed
<1>5. CountsClients'
  <2>1. IsFiniteSet(open) /\ cnt = Cardinality(open)
    BY <1>2, FS_Subset DEF ConnAssumption, Domains, BrInv, CountsClients
  <2> QED BY <1>1, <1>3, <2>1, FS_AddElement DEF CountsClients
<1>6. Domains'
  BY <1>1, <1>2 DEF Domains
<1>7. Listed'
  <2>1. PICK first \in Int : \A d \in open : first < r[d]
    <3>1. \A d \in open : r[d] \in Int
      BY <1>2, <1>4 DEF Domains
    <3>2. CASE head = Null
      <4>1. \A d \in open : 0 < r[d]
        BY <1>4, <3>2 DEF Ordered
      <4> QED BY <4>1
    <3>3. CASE head # Null
      <4>1. head \in open /\ \A d \in open : r[head] <= r[d]
        BY <1>4, <3>3 DEF Ordered
      <4>2. r[head] - 1 \in Int /\ \A d \in open : r[head] - 1 < r[d]
        BY <3>1, <4>1
      <4> QED BY <4>2
    <3> QED BY <3>2, <3>3
  <2>2. PICK q \in [Conns -> Int] :
        /\ q[c] = first /\ \A d \in open : q[d] = r[d] /\ r[d] \in Int
        /\ next'[c] = head /\ \A d \in open : next'[d] = next[d]
    <3> DEFINE q == [r EXCEPT ![c] = first]
    <3>1. q \in [Conns -> Int] /\ q[c] = first
      BY <1>4, <2>1
    <3>2. \A d \in open : q[d] = r[d] /\ r[d] \in Int /\ next'[d] = next[d]
      BY <1>1, <1>2, <1>3, <1>4 DEF Domains
    <3>3. next'[c] = head
      BY <1>1, <1>2 DEF Domains
    <3> HIDE DEF q
    <3> QED BY <3>1, <3>2, <3>3
  <2>3. Ordered(q)'
    <3>1. \A d, e \in open' : q[d] = q[e] => d = e
      BY <1>1, <1>4, <2>1, <2>2 DEF Ordered
    <3>2. head' \in open' /\ \A d \in open' : q[head'] <= q[d]
      BY <1>1, <2>1, <2>2
    <3>3. ASSUME NEW e \in open'
          PROVE  IF next'[e] = Null THEN \A d \in open' : q[d] <= q[e]
                 ELSE /\ next'[e] \in open' /\ q[e] < q[next'[e]]
                      /\ \A d \in open' : q[d] <= q[e] \/ q[next'[e]] <= q[d]
      <4>1. CASE e = c
        <5>1. CASE head = Null
          <6>1. open' = {c}
            BY <1>1, <1>4, <5>1 DEF Ordered
          <6> QED BY <2>1, <2>2, <4>1, <5>1, <6>1
        <5>2. CASE head # Null
          <6>1. head \in open /\ \A d \in open : r[head] <= r[d]
            BY <1>4, <5>2 DEF Ordered
          <6> QED BY <1>1, <2>1, <2>2, <4>1, <5>2, <6>1
        <5> QED BY <5>1, <5>2
      <4>2. CASE e # c
        <5>1. e \in open /\ next'[e] = next[e] /\ first < r[e]
          BY <1>1, <2>1, <2>2, <4>2
        <5>2. IF next[e] = Null THEN \A d \in open : r[d] <= r[e]
              ELSE /\ next[e] \in open /\ r[e] < r[next[e]]
                   /\ \A d \in open : r[d] <= r[e] \/ r[next[e]] <= r[d]
          BY <1>4, <5>1 DEF Ordered
        <5> QED BY <1>1, <2>1, <2>2, <5>1, <5>2
      <4> QED BY <4>1, <4>2
    <3> QED BY <1>1, <1>3, <3>1, <3>2, <3>3 DEF Ordered
  <2> QED BY <1>2, <2>2, <2>3 DEF Listed
<1>8. Allocated'
  BY <1>1, <1>2 DEF Allocated
<1> QED BY <1>5, <1>6, <1>7, <1>8, CountBound DEF BrInv, Domains, CountsClients, BrTypeOK

(* Steps that leave the list and the broadcast alone.                      *)
LEMMA ElsewhereKeeps ==
  ASSUME BrInv, UNCHANGED <<list, pclient, todo>>, Domains', Allocated',
         pc' = "write" => pc = "write" /\ prev' = prev
  PROVE  BrInv'
<1>1. UNCHANGED <<head, next, heap, cnt, open>>
  BY DEF list
<1>2. PICK r \in [Conns -> Int] : Ordered(r) /\ (pc = "write" => Cursor(r))
  BY DEF BrInv, Listed
<1>3. Ordered(r)' /\ (pc' = "write" => Cursor(r)')
  BY <1>1, <1>2 DEF Ordered, Cursor
<1>4. Listed'
  BY <1>2, <1>3 DEF Listed
<1> QED BY <1>1, <1>4, CountBound DEF BrInv, CountsClients, Domains, BrTypeOK

(* A broadcast begins before the first client, with all of them to serve.  *)
LEMMA ReadKeeps ==
  ASSUME BrInv, ReadStdin PROVE BrInv'
<1>1. Domains' /\ Allocated'
  BY DEF ReadStdin, list, BrInv, BrTypeOK, Domains, Allocated
<1>2. CASE pc' = "write"
  <2>1. pclient' = head /\ prev' = Null /\ todo' = open /\ UNCHANGED <<head, next, heap, cnt, open>>
    BY <1>2 DEF ReadStdin, list
  <2>2. PICK r \in [Conns -> Int] : Ordered(r)
    BY DEF BrInv, Listed
  <2>3. Ordered(r)' /\ Cursor(r)'
    <3>1. Ordered(r)'
      BY <2>1, <2>2 DEF Ordered
    <3>2. CASE head = Null
      BY <2>1, <2>2, <3>2 DEF Ordered, Cursor
    <3>3. CASE head # Null
      BY <2>1, <2>2, <3>3 DEF Ordered, Cursor
    <3> QED BY <3>1, <3>2, <3>3
  <2>4. Listed'
    BY <2>2, <2>3 DEF Listed
  <2> QED BY <1>1, <2>1, <2>4, CountBound DEF BrInv, CountsClients, Domains, BrTypeOK
<1>3. CASE pc' # "write"
  BY <1>1, <1>3, ElsewhereKeeps DEF ReadStdin
<1> QED BY <1>2, <1>3

(* The client served, the cursor moves on: nobody is between the two.      *)
LEMMA WriteKeeps ==
  ASSUME BrInv, WriteOk PROVE BrInv'
<1>1. /\ pc = "write" /\ pc' = "write" /\ pclient \in heap /\ todo' = todo \ {pclient}
      /\ prev' = pclient /\ pclient' = next[pclient]
      /\ UNCHANGED <<head, next, heap, cnt, open, gone, stdin>>
  BY DEF WriteOk, list
<1>2. Domains /\ Null \notin Conns /\ pclient # Null /\ open \subseteq heap
  BY <1>1 DEF BrInv, BrTypeOK, Domains, Allocated, ConnAssumption
<1>3. PICK r \in [Conns -> Int] : Ordered(r) /\ Cursor(r)
  BY <1>1 DEF BrInv, Listed
<1>4. pclient \in open /\ todo = {d \in open : r[pclient] <= r[d]}
  BY <1>2, <1>3 DEF Cursor
<1>5. \A d \in open : r[d] \in Int
  BY <1>2 DEF Domains
<1>6. Domains'
  BY <1>1, <1>2 DEF Domains
<1>7. Allocated'
  BY <1>1, <1>2 DEF Allocated
<1>8. Ordered(r)'
  BY <1>1, <1>3 DEF Ordered
<1>9. todo' = {d \in open : r[pclient] < r[d]}
  <2>1. \A d \in open : r[d] = r[pclient] => d = pclient
    BY <1>3, <1>4 DEF Ordered
  <2> QED BY <1>1, <1>4, <1>5, <2>1
<1>10. Cursor(r)'
  <2>1. CASE next[pclient] = Null
    <3>1. \A d \in open : r[d] <= r[pclient]
      BY <1>3, <1>4, <2>1 DEF Ordered
    <3>2. todo' = {}
      BY <1>4, <1>5, <1>9, <3>1
    <3> QED BY <1>1, <2>1, <3>2 DEF Cursor
  <2>2. CASE next[pclient] # Null
    <3>1. /\ next[pclient] \in open /\ r[pclient] < r[next[pclient]]
          /\ \A d \in open : r[d] <= r[pclient] \/ r[next[pclient]] <= r[d]
      BY <1>3, <1>4, <2>2 DEF Ordered
    <3>2. todo' = {d \in open : r[next[pclient]] <= r[d]}
      BY <1>4, <1>5, <1>9, <3>1
    <3> QED BY <1>1, <1>2, <1>4, <2>2, <3>1, <3>2 DEF Cursor
  <2> QED BY <2>1, <2>2
<1>11. Listed'
  BY <1>8, <1>10 DEF Listed
<1> QED BY <1>1, <1>6, <1>7, <1>11, CountBound DEF BrInv, CountsClients, Domains, BrTypeOK

(* The failed client is between its neighbours no more.                    *)
LEMMA DeleteKeeps ==
  ASSUME BrInv, WriteFails PROVE BrInv'
<1>1. /\ pc = "write" /\ pc' = "write" /\ pclient \in heap /\ todo' = todo \ {pclient}
      /\ pclient' = next[pclient] /\ heap' = heap \ {next[pclient]}
      /\ open' = open \ {pclient} /\ cnt' = cnt - 1
      /\ UNCHANGED <<gone, stdin, prev>> /\ Unlink
  BY DEF WriteFails
<1>2. Domains /\ Null \notin Conns /\ pclient # Null /\ open \subseteq heap
  BY <1>1 DEF BrInv, BrTypeOK, Domains, Allocated, ConnAssumption
<1>3. PICK r \in [Conns -> Int] : Ordered(r) /\ Cursor(r)
  BY <1>1 DEF BrInv, Listed
<1>4. /\ pclient \in open /\ todo = {d \in open : r[pclient] <= r[d]}
      /\ IF prev = Null THEN head = pclient ELSE prev \in open /\ next[prev] = pclient
  BY <1>2, <1>3 DEF Cursor
<1>5. \A d \in open : r[d] \in Int
  BY <1>2 DEF Domains
<1>6. Domains'
  BY <1>1, <1>2 DEF Domains, Unlink
<1>7. Allocated'
  <2>1. pclient' \notin heap'
    BY <1>1
  <2>2. pclient' = Null => open' \subseteq heap'
    BY <1>1, <1>2 DEF Domains
  <2> QED BY <1>1, <2>1, <2>2 DEF Allocated
<1>8. CountsClients'
  <2>1. IsFiniteSet(open) /\ cnt = Cardinality(open)
    BY <1>2, CountBound DEF Domains, BrInv, CountsClients
  <2> QED BY <1>1, <1>4, <2>1, FS_RemoveElement DEF CountsClients
<1> DEFINE behind == next[pclient]
<1>9. IF behind = Null THEN \A d \in open : r[d] <= r[pclient]
      ELSE /\ behind \in open /\ r[pclient] < r[behind]
           /\ \A d \in open : r[d] <= r[pclient] \/ r[behind] <= r[d]
  BY <1>3, <1>4 DEF Ordered
<1>10. \A d, e \in open : r[d] = r[e] => d = e
  BY <1>3 DEF Ordered
<1>11. PICK b : b = behind
  OBVIOUS
<1>12. /\ IF b = Null THEN \A d \in open' : r[d] < r[pclient]
           ELSE /\ b \in open' /\ r[pclient] < r[b]
                /\ \A d \in open' : r[d] < r[pclient] \/ r[b] <= r[d]
       /\ pclient' = b /\ todo' = {d \in open' : r[pclient] < r[d]}
  <2>1. \A d \in open' : d \in open /\ d # pclient /\ r[d] # r[pclient]
    BY <1>1, <1>4, <1>10
  <2>2. b # Null => b \in open' /\ r[pclient] < r[b]
    BY <1>1, <1>4, <1>5, <1>9, <1>11
  <2>3. todo' = {d \in open' : r[pclient] < r[d]}
    BY <1>1, <1>4, <1>5, <2>1
  <2> QED BY <1>1, <1>4, <1>5, <1>9, <1>11, <2>1, <2>2, <2>3
<1>13. IF prev = Null THEN head' = b /\ next' = next
       ELSE head' = head /\ prev \in open' /\ r[prev] < r[pclient]
            /\ next' = [next EXCEPT ![prev] = b]
            /\ \A d \in open' : r[d] <= r[prev] \/ r[pclient] < r[d]
  <2>1. CASE prev = Null
    BY <1>1, <1>11, <2>1 DEF Unlink
  <2>2. CASE prev # Null
    <3>1. /\ prev \in open /\ r[prev] < r[pclient]
          /\ \A d \in open : r[d] <= r[prev] \/ r[pclient] <= r[d]
      BY <1>2, <1>3, <1>4, <2>2 DEF Ordered
    <3>2. prev \in open' /\ \A d \in open' : r[d] # r[pclient] /\ d \in open
      BY <1>1, <1>4, <1>5, <1>10, <3>1
    <3>3. head' = head /\ next' = [next EXCEPT ![prev] = b]
      BY <1>1, <1>11, <2>2 DEF Unlink
    <3> QED BY <1>4, <1>5, <2>2, <3>1, <3>2, <3>3
  <2> QED BY <2>1, <2>2
<1>14. Ordered(r)'
  <2>1. \A d \in open' : d \in open /\ d # pclient /\ d \in Conns /\ r[d] \in Int
    BY <1>1, <1>2, <1>5 DEF Domains
  <2>2. IF head' = Null THEN open' = {} ELSE head' \in open' /\ \A d \in open' : r[head'] <= r[d]
    <3>1. CASE prev = Null
      <4>1. \A d \in open : r[pclient] <= r[d]
        BY <1>2, <1>3, <1>4, <3>1 DEF Ordered
      <4>2. \A d \in open' : ~(r[d] < r[pclient])
        BY <1>4, <1>5, <2>1, <4>1
      <4> QED BY <1>12, <1>13, <3>1, <4>2
    <3>2. CASE prev # Null
      <4>1. prev \in open' /\ head' = head /\ r[prev] < r[pclient]
        BY <1>13, <3>2
      <4>2. head # Null /\ head \in open /\ \A d \in open : r[head] <= r[d]
        BY <1>3, <1>4 DEF Ordered
      <4>3. head # pclient
        BY <1>4, <1>5, <2>1, <4>1, <4>2
      <4> QED BY <1>1, <2>1, <4>1, <4>2, <4>3
    <3> QED BY <3>1, <3>2
  <2>3. ASSUME NEW c \in open'
        PROVE  IF next'[c] = Null THEN \A d \in open' : r[d] <= r[c]
               ELSE /\ next'[c] \in open' /\ r[c] < r[next'[c]]
                    /\ \A d \in open' : r[d] <= r[c] \/ r[next'[c]] <= r[d]
    <3>1. c \in open /\ c # pclient /\ c \in Conns
      BY <2>1
    <3>2. IF next[c] = Null THEN \A d \in open : r[d] <= r[c]
          ELSE /\ next[c] \in open /\ r[c] < r[next[c]]
               /\ \A d \in open : r[d] <= r[c] \/ r[next[c]] <= r[d]
      BY <1>3, <3>1 DEF Ordered
    <3>3. CASE c = prev
      <4>1. next'[c] = b /\ prev # Null /\ r[c] < r[pclient]
            /\ \A d \in open' : r[d] <= r[c] \/ r[pclient] < r[d]
        BY <1>2, <1>13, <3>1, <3>3 DEF Domains
      <4>2. \A d \in open' : r[d] < r[pclient] => r[d] <= r[c]
        BY <1>4, <1>5, <2>1, <3>1, <4>1
      <4>3. CASE b = Null
        BY <1>12, <4>1, <4>2, <4>3
      <4>4. CASE b # Null
        <5>1. b \in open' /\ r[c] < r[b]
          BY <1>4, <1>5, <1>12, <2>1, <3>1, <4>1, <4>4
        <5> QED BY <1>12, <4>1, <4>2, <4>4, <5>1
      <4> QED BY <4>3, <4>4
    <3>4. CASE c # prev
      <4>1. next'[c] = next[c]
        BY <1>2, <1>13, <3>1, <3>4 DEF Domains
      <4>2. next[c] # pclient
        <5>1. SUFFICES ASSUME next[c] = pclient PROVE FALSE
          OBVIOUS
        <5>2. r[c] < r[pclient] /\ \A d \in open : r[d] <= r[c] \/ r[pclient] <= r[d]
          BY <1>2, <3>2, <5>1
        <5>3. CASE prev = Null
          <6>1. r[pclient] <= r[c]
            BY <1>2, <1>3, <1>4, <3>1, <5>3 DEF Ordered
          <6> QED BY <1>4, <1>5, <3>1, <5>2, <6>1
        <5>4. CASE prev # Null
          <6>1. /\ prev \in open /\ r[prev] < r[pclient]
                /\ \A d \in open' : r[d] <= r[prev] \/ r[pclient] < r[d]
            BY <1>1, <1>13, <5>4
          <6>2. r[prev] <= r[c] /\ r[c] <= r[prev]
            BY <1>4, <1>5, <3>1, <5>2, <6>1
          <6>3. r[prev] = r[c]
            BY <1>5, <3>1, <6>1, <6>2
          <6> QED BY <1>10, <3>1, <3>4, <6>1, <6>3
        <5> QED BY <5>3, <5>4
      <4>3. next[c] # Null => next[c] \in open'
        BY <1>1, <3>2, <4>2
      <4> QED BY <2>1, <3>2, <4>1, <4>3
    <3> QED BY <3>3, <3>4
  <2>4. \A d, e \in open' : r[d] = r[e] => d = e
    BY <1>10, <2>1
  <2> QED BY <2>2, <2>3, <2>4 DEF Ordered
<1>15. Cursor(r)'
  <2>1. \A d \in open' : r[d] \in Int
    BY <1>1, <1>5
  <2>2. CASE b = Null
    <3>1. todo' = {}
      BY <1>4, <1>5, <1>12, <2>1, <2>2
    <3> QED BY <1>12, <2>2, <3>1 DEF Cursor
  <2>3. CASE b # Null
    <3>1. pclient' \in open' /\ todo' = {d \in open' : r[pclient'] <= r[d]}
      BY <1>4, <1>5, <1>12, <2>1, <2>3
    <3>2. IF prev' = Null THEN head' = pclient' ELSE prev' \in open' /\ next'[prev'] = pclient'
      BY <1>1, <1>2, <1>12, <1>13 DEF Domains
    <3> QED BY <1>12, <2>3, <3>1, <3>2 DEF Cursor
  <2> QED BY <2>2, <2>3
<1>16. Listed'
  BY <1>14, <1>15 DEF Listed
<1> QED BY <1>6, <1>7, <1>8, <1>16, CountBound DEF BrInv, CountsClients, Domains, BrTypeOK

(* No step of the server or of a peer breaks the invariant.                *)
LEMMA BrStep == BrInv /\ [BrNext]_brVars => BrInv'
<1> SUFFICES ASSUME BrInv, [BrNext]_brVars PROVE BrInv'
  OBVIOUS
<1> USE DEF BrInv, BrTypeOK, Domains, Allocated, list
<1>1. CASE Select
  BY <1>1, ElsewhereKeeps DEF Select
<1>2. CASE AcceptFails
  BY <1>2, ElsewhereKeeps DEF AcceptFails
<1>3. CASE BroadcastEnds
  <2>1. todo = {}
    BY <1>3 DEF BroadcastEnds, Listed, Cursor
  <2> QED BY <1>3, <2>1, ElsewhereKeeps DEF BroadcastEnds
<1>4. CASE UseAfterFree
  BY <1>4, ElsewhereKeeps DEF UseAfterFree
<1>5. CASE PeerLeaves
  BY <1>5, ElsewhereKeeps DEF PeerLeaves
<1>6. CASE UNCHANGED brVars
  BY <1>6, ElsewhereKeeps DEF brVars
<1> QED
  BY <1>1, <1>2, <1>3, <1>4, <1>5, <1>6, AcceptKeeps, ReadKeeps, WriteKeeps, DeleteKeeps DEF BrNext

(* Types, and the counter within the number of connections.                *)
THEOREM BrTypesCorrect == BrSpec => []BrTypeOK
<1>1. BrInv => BrTypeOK
  BY DEF BrInv
<1> QED BY <1>1, BrInitial, BrStep, PTL DEF BrSpec

(* The linked list is the open clients, after any accepts and deletions.   *)
THEOREM ListCorrect == BrSpec => []ListIsOpenClients
<1>1. BrInv => ListIsOpenClients
  BY ListedIsOpen DEF BrInv
<1> QED BY <1>1, BrInitial, BrStep, PTL DEF BrSpec

(* g_clients_cnt counts them.                                              *)
THEOREM ClientsCounted == BrSpec => []CountsClients
<1>1. BrInv => CountsClients
  BY DEF BrInv
<1> QED BY <1>1, BrInitial, BrStep, PTL DEF BrSpec

(* Behind the first n of the chain are the clients that come after them.   *)
LEMMA RestOfChain ==
  ASSUME BrTypeOK, NEW r \in [Conns -> Int], Ordered(r), ListIsOpenClients,
         NEW n \in 0 .. Cardinality(Conns), Chain[n] # Null
  PROVE  LeftFrom(n) = {d \in open : r[Chain[n]] <= r[d]}
<1> DEFINE K == Cardinality(Conns)
<1>1. K \in Nat /\ open \subseteq Conns
  BY FS_CardinalityType DEF ConnAssumption, BrTypeOK
<1>2. \A m \in 0 .. K : Followed(r, m)
  BY ChainFollowed
<1>3. Chain[n] \in open /\ First(n) = {d \in open : r[d] < r[Chain[n]]}
  BY <1>2 DEF Followed
<1>4. open = First(n) \cup LeftFrom(n)
  <2>1. 0 .. K = 0 .. n - 1 \cup n .. K
    BY <1>1
  <2> QED BY <2>1 DEF ListIsOpenClients, Reachable, First, LeftFrom
<1> HIDE DEF K
<1>5. \A d \in open : r[d] \in Int
  BY <1>1
<1>6. ASSUME NEW m \in n .. K, Chain[m] # Null PROVE r[Chain[n]] <= r[Chain[m]]
  <2>1. m \in 0 .. K /\ m \in Nat /\ n \in Nat
    BY <1>1
  <2>2. Chain[m] \in open /\ First(m) = {d \in open : r[d] < r[Chain[m]]}
    BY <1>2, <1>6, <2>1 DEF Followed
  <2>3. CASE m = n
    BY <1>5, <2>2, <2>3
  <2>4. CASE m # n
    <3>1. n \in 0 .. m - 1
      BY <1>6, <2>1, <2>4
    <3>2. Chain[n] \in First(m)
      BY <3>1 DEF First
    <3> QED BY <1>3, <1>5, <2>2, <3>2
  <2> QED BY <2>3, <2>4
<1>7. \A d \in LeftFrom(n) : r[Chain[n]] <= r[d]
  BY <1>6 DEF LeftFrom, K
<1>8. \A d \in open : r[Chain[n]] <= r[d] => d \notin First(n)
  BY <1>3, <1>5
<1> QED BY <1>4, <1>7, <1>8

(* In every round the clients still to be offered the chunk are those from *)
(* the cursor on: a client whose write fails is passed by, whoever is      *)
(* before or behind it, and no other is.  Up to a use of freed memory: a   *)
(* round that comes to its end has deleted the last client at most.        *)
THEOREM ClientsServed == BrSpec => []EveryClientServed
<1>1. BrInv => EveryClientServed
  <2> SUFFICES ASSUME BrInv, pc = "write"
               PROVE  \E n \in DOMAIN Chain : Chain[n] = pclient /\ todo = LeftFrom(n)
    BY DEF BrInv, Allocated, EveryClientServed
  <2> DEFINE K == Cardinality(Conns)
  <2>1. PICK r \in [Conns -> Int] : Ordered(r) /\ Cursor(r)
    BY DEF BrInv, Listed
  <2>2. BrTypeOK /\ ListIsOpenClients /\ Null \notin open
    BY ListedIsOpen, ConnAssumption DEF BrInv, BrTypeOK
  <2>3. DOMAIN Chain = 0 .. K /\ K \in 0 .. K
    BY ChainUnfolds, FS_CardinalityType DEF ConnAssumption
  <2>4. CASE pclient = Null
    <3>1. Chain[K] = Null /\ todo = {}
      BY <2>1, <2>2, <2>4 DEF ListIsOpenClients, Cursor
    <3>2. LeftFrom(K) = {}
      <4>1. K .. K = {K}
        BY <2>3
      <4> QED BY <3>1, <4>1 DEF LeftFrom
    <3> QED BY <2>3, <2>4, <3>1, <3>2
  <2>5. CASE pclient # Null
    <3>1. pclient \in open /\ todo = {d \in open : r[pclient] <= r[d]}
      BY <2>1, <2>5 DEF Cursor
    <3>2. PICK n \in 0 .. K : Chain[n] = pclient
      BY <2>2, <3>1 DEF ListIsOpenClients, Reachable
    <3>3. todo = LeftFrom(n)
      BY <2>1, <2>2, <2>5, <3>1, <3>2, RestOfChain
    <3> QED BY <2>3, <3>2, <3>3
  <2> QED BY <2>4, <2>5
<1> QED BY <1>1, BrInitial, BrStep, PTL DEF BrSpec
=============================================================================
