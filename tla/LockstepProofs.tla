--------------------------- MODULE LockstepProofs ----------------------------
(***************************************************************************)
(* Theorems about a match, for every set of players, every interval and    *)
(* every bound: first types, timers and the PlayData that phones apply,    *)
(* then that the match implements FrameLog, then what follows from the     *)
(* invariant of that proof.                                                *)
(***************************************************************************)
EXTENDS Lockstep, TLAPS

-----------------------------------------------------------------------------
(* Types.                                                                  *)

\* Two sequences of the same length with the same elements are the same.
LEMMA SeqEqual ==
  ASSUME NEW S, NEW s \in Seq(S), NEW t \in Seq(S), Len(s) = Len(t),
         \A i \in 1..Len(s) : s[i] = t[i]
  PROVE  s = t
  OBVIOUS

LEMMA SeqOfFunction ==
  ASSUME NEW S, NEW n \in Nat, NEW f \in [1..n -> S]
  PROVE  f \in Seq(S) /\ Len(f) = n
  OBVIOUS

\* A sequence is two others put together if its elements are theirs.
LEMMA SeqGlued ==
  ASSUME NEW S, NEW s \in Seq(S), NEW t \in Seq(S), NEW l \in Seq(S),
         Len(s) + Len(t) = Len(l),
         \A i \in 1..Len(s) : s[i] = l[i],
         \A i \in 1..Len(t) : t[i] = l[Len(s) + i]
  PROVE  s \o t = l
<1>1. s \o t \in Seq(S) /\ Len(s \o t) = Len(l)
  OBVIOUS
<1>2. ASSUME NEW i \in 1..Len(l) PROVE (s \o t)[i] = l[i]
  <2>1. CASE i <= Len(s)
    BY <2>1
  <2>2. CASE i > Len(s)
    <3>1. i - Len(s) \in 1..Len(t) /\ (s \o t)[i] = t[i - Len(s)]
      BY <2>2
    <3>2. Len(s) + (i - Len(s)) = i
      OBVIOUS
    <3> QED
      BY <3>1, <3>2
  <2> QED
    BY <2>1, <2>2
<1> QED
  BY <1>1, <1>2, SeqEqual

LEMMA NoInputsType == NoInputs \in PlayData
  BY DEF NoInputs, NoInput, PlayData

\* What the room hands to its players' connections keeps their type.
LEMMA DeliveredType ==
  ASSUME WireTypeOK, NEW m \in DownMsg
  PROVE  Delivered(m) \in [Players -> Seq(DownMsg)]
  BY DEF WireTypeOK, Delivered

\* Play keeps the types of all it changes.
LEMMA PlayType ==
  ASSUME TypeOK, NEW inputs \in PlayData, Play(inputs)
  PROVE  /\ down' \in [Players -> Seq(DownMsg)]
         /\ log' \in Seq(PlayData)
         /\ inputMap' \in PlayData
         /\ readyPlay' \in BOOLEAN
         /\ elapsed' \in 0..PlayInterval
         /\ roomFrame' \in Nat
<1>1. PlayMsg(inputs) \in DownMsg
  BY DEF PlayMsg, DownMsg
<1>2. down' \in [Players -> Seq(DownMsg)]
  BY <1>1, DeliveredType DEF Play, TypeOK
<1>3. log' \in Seq(PlayData)
  BY DEF Play, TypeOK, RoomTypeOK
<1>4. inputMap' \in PlayData
  BY NoInputsType DEF Play
<1>5. readyPlay' \in BOOLEAN
  BY DEF Play
<1>6. elapsed' \in 0..PlayInterval
  BY PlayIntervalAssumption DEF Play
<1>7. roomFrame' \in Nat
  BY DEF Play, TypeOK, RoomTypeOK
<1> QED
  BY <1>2, <1>3, <1>4, <1>5, <1>6, <1>7

\* The messages a phone sends have the type of messages to the room.
LEMMA SentType ==
  ASSUME TypeOK, NEW p \in Players, NEW inLoop \in BOOLEAN, playDataList[p] # <<>>
  PROVE  Sent(p, inLoop) \in Seq(UpMsg)
<1> DEFINE f == playFrame[p] + 1
           d == Head(playDataList[p])
           c == [ticks |-> ticks[p], applied |-> Append(applied[p], d)]
<1>1. f \in Nat /\ ticks[p] \in Nat
  BY DEF TypeOK, NetworkmgrTypeOK
<1>2. d \in PlayData
  BY DEF TypeOK, NetworkmgrTypeOK
<1>3. Append(applied[p], d) \in Seq(PlayData)
  BY <1>2 DEF TypeOK, NetworkmgrTypeOK
<1>4. c \in Content
  BY <1>1, <1>3 DEF Content
<1>5. InputMsg(f) \in UpMsg /\ ComparisonMsg(f, c) \in UpMsg
  BY <1>1, <1>4 DEF InputMsg, ComparisonMsg, UpMsg
<1> HIDE DEF f, c
<1>6. /\ (IF WillSend(p, inLoop) THEN <<InputMsg(f)>> ELSE <<>>) \in Seq(UpMsg)
      /\ (IF f > CompareFrame THEN <<ComparisonMsg(f, c)>> ELSE <<>>) \in Seq(UpMsg)
  BY <1>5
<1>7. QED
  BY <1>6 DEF Sent, f, c, d

LEMMA TypeInit == Init => TypeOK
<1> SUFFICES ASSUME Init PROVE TypeOK
  OBVIOUS
<1>1. WireTypeOK
  BY DEF Init, WireInit, WireTypeOK
<1>2. RoomTypeOK
  <2>1. running \in {"new", "up", "gone"} /\ roomFrame \in Nat
    BY DEF Init, RoomInit
  <2>2. readyPlay \in BOOLEAN /\ mismatch \in BOOLEAN
    BY DEF Init, RoomInit
  <2>3. inputMap \in PlayData /\ log \in Seq(PlayData)
    BY NoInputsType DEF Init, RoomInit
  <2>4. elapsed \in 0..PlayInterval
    BY PlayIntervalAssumption DEF Init, RoomInit
  <2>5. timers \subseteq [frame : Nat, left : 0..PlayInterval] /\ reports \subseteq Report
    BY DEF Init, RoomInit
  <2> QED
    BY <2>1, <2>2, <2>3, <2>4, <2>5 DEF RoomTypeOK
<1>3. NetworkmgrTypeOK
  <2>1. Stale \in PlayData
    BY MaxFrameAssumption DEF Stale, PlayData
  <2>2. playFrame \in [Players -> Nat]
    BY NetworkmgrAssumption DEF Init, NetworkmgrInit
  <2>3. playDataList \in [Players -> Seq(PlayData)]
    <3>1. PICK n \in [Players -> 0..MaxLeftover] :
             playDataList = [p \in Players |-> [i \in 1..n[p] |-> Stale]]
      BY DEF Init, NetworkmgrInit
    <3>2. \A p \in Players : [i \in 1..n[p] |-> Stale] \in Seq(PlayData)
      <4> TAKE p \in Players
      <4>1. n[p] \in Nat
        BY NetworkmgrAssumption
      <4> QED
        BY <4>1, <2>1
    <3> QED
      BY <3>1, <3>2
  <2> QED
    BY <2>2, <2>3, NetworkmgrAssumption DEF Init, NetworkmgrInit, NetworkmgrTypeOK
<1> QED
  BY <1>1, <1>2, <1>3 DEF TypeOK

\* Taking a message and leaving any number of them keep a mailbox's type.
LEMMA TakenType ==
  ASSUME NEW S, NEW box \in [Players -> Seq(S)], NEW p \in Players, box[p] # <<>>
  PROVE  /\ Head(box[p]) \in S
         /\ [box EXCEPT ![p] = Tail(@)] \in [Players -> Seq(S)]
  OBVIOUS

LEMMA RoomStepType ==
  ASSUME TypeOK, RoomStep, UNCHANGED clientVars
  PROVE  TypeOK'
<1>1. NetworkmgrTypeOK'
  BY DEF TypeOK, NetworkmgrTypeOK, clientVars
<1>2. CASE Start
  <2>1. StartMsg \in DownMsg
    BY DEF DownMsg
  <2>2. down' \in [Players -> Seq(DownMsg)]
    BY <1>2, <2>1, DeliveredType DEF Start, TypeOK
  <2>3. WireTypeOK'
    BY <1>2, <2>2 DEF Start, TypeOK, WireTypeOK
  <2>4. running' \in {"new", "up", "gone"}
    BY <1>2 DEF Start
  <2>5. RoomTypeOK'
    BY <1>2, <2>4 DEF Start, TypeOK, RoomTypeOK
  <2> QED
    BY <1>1, <2>3, <2>5 DEF TypeOK
<1>3. CASE PlayTimeout
  <2>1. PICK t \in timers :
           /\ timers' = timers \ {t}
           /\ IF readyPlay
                THEN Play(inputMap)
                ELSE UNCHANGED <<down, log, inputMap, readyPlay, elapsed, roomFrame>>
    BY <1>3 DEF PlayTimeout
  <2>2. UNCHANGED <<up, connected, running, reports, mismatch>>
    BY <1>3 DEF PlayTimeout
  <2>3. timers' \subseteq [frame : Nat, left : 0..PlayInterval]
    BY <2>1 DEF TypeOK, RoomTypeOK
  <2>4. CASE readyPlay
    <3>1. Play(inputMap)
      BY <2>1, <2>4
    <3>2. inputMap \in PlayData
      BY DEF TypeOK, RoomTypeOK
    <3> QED
      BY <1>1, <2>2, <2>3, <3>1, <3>2, PlayType DEF TypeOK, WireTypeOK, RoomTypeOK
  <2>5. CASE ~readyPlay
    BY <1>1, <2>1, <2>2, <2>3, <2>5 DEF TypeOK, WireTypeOK, RoomTypeOK
  <2> QED
    BY <2>4, <2>5
<1>4. CASE Exit
  <2>1. running' \in {"new", "up", "gone"}
    BY <1>4 DEF Exit
  <2> QED
    BY <1>1, <1>4, <2>1 DEF Exit, TypeOK, WireTypeOK, RoomTypeOK, wireVars
<1>5. CASE Tick
  <2>1. elapsed' \in 0..PlayInterval
    BY <1>5, PlayIntervalAssumption DEF Tick, TypeOK, RoomTypeOK
  <2>2. timers' \subseteq [frame : Nat, left : 0..PlayInterval]
    <3> SUFFICES ASSUME NEW t \in timers
                 PROVE  [t EXCEPT !.left = IF @ > 0 THEN @ - 1 ELSE 0]
                          \in [frame : Nat, left : 0..PlayInterval]
      BY <1>5 DEF Tick
    <3>1. t \in [frame : Nat, left : 0..PlayInterval]
      BY DEF TypeOK, RoomTypeOK
    <3>2. (IF t.left > 0 THEN t.left - 1 ELSE 0) \in 0..PlayInterval
      BY <3>1, PlayIntervalAssumption
    <3> QED
      BY <3>1, <3>2
  <2> QED
    BY <1>1, <1>5, <2>1, <2>2 DEF Tick, TypeOK, WireTypeOK, RoomTypeOK, wireVars
<1>6. ASSUME NEW p \in Players, ReceiveInput(p)
      PROVE  TypeOK'
  <2> DEFINE f      == Head(up[p]).frame
             inputs == [inputMap EXCEPT ![p] = f]
  <2>1. /\ up[p] # <<>>
        /\ Head(up[p]).kind = "input"
        /\ up' = [up EXCEPT ![p] = Tail(@)]
        /\ UNCHANGED <<connected, running, reports, mismatch>>
    BY <1>6 DEF ReceiveInput
  <2>2. up \in [Players -> Seq(UpMsg)]
    BY DEF TypeOK, WireTypeOK
  <2>3. Head(up[p]) \in UpMsg /\ up' \in [Players -> Seq(UpMsg)]
    BY <2>1, <2>2, TakenType
  <2>4. f \in Nat
    BY <2>3 DEF UpMsg
  <2>5. inputs \in PlayData
    BY <2>4 DEF TypeOK, RoomTypeOK, PlayData
  <2>6. \/ Play(inputs) /\ UNCHANGED timers
        \/ Arm(inputs)
        \/ Keep(inputs)
    BY <1>6 DEF ReceiveInput
  <2> HIDE DEF f, inputs
  <2>7. CASE Play(inputs) /\ UNCHANGED timers
    BY <1>1, <2>1, <2>3, <2>5, <2>7, PlayType DEF TypeOK, WireTypeOK, RoomTypeOK
  <2>8. CASE Arm(inputs)
    <3>1. [frame |-> roomFrame, left |-> PlayInterval - elapsed]
            \in [frame : Nat, left : 0..PlayInterval]
      BY PlayIntervalAssumption DEF TypeOK, RoomTypeOK
    <3>2. timers' \subseteq [frame : Nat, left : 0..PlayInterval]
      BY <2>8, <3>1 DEF Arm, TypeOK, RoomTypeOK
    <3>3. readyPlay' \in BOOLEAN
      BY <2>8 DEF Arm
    <3>4. inputMap' \in PlayData
      BY <2>8, <2>5 DEF Arm
    <3> QED
      BY <1>1, <2>1, <2>3, <2>8, <3>2, <3>3, <3>4
      DEF Arm, TypeOK, WireTypeOK, RoomTypeOK
  <2>9. CASE Keep(inputs)
    BY <1>1, <2>1, <2>3, <2>5, <2>9 DEF Keep, TypeOK, WireTypeOK, RoomTypeOK
  <2> QED
    BY <2>6, <2>7, <2>8, <2>9
<1>7. ASSUME NEW p \in Players, ReceiveComparison(p)
      PROVE  TypeOK'
  <2> DEFINE m     == Head(up[p])
             mine  == [frame |-> m.frame, player |-> p, content |-> m.content]
             map   == {r \in reports : r.frame = m.frame /\ r.player # p} \cup {mine}
             older == {r \in reports : r.frame # m.frame}
  <2>1. /\ up[p] # <<>>
        /\ m.kind = "comparison"
        /\ up' = [up EXCEPT ![p] = Tail(@)]
        /\ UNCHANGED <<down, connected, running, roomFrame, readyPlay, inputMap,
                       elapsed, timers, log>>
    BY <1>7 DEF ReceiveComparison
  <2>2. up \in [Players -> Seq(UpMsg)]
    BY DEF TypeOK, WireTypeOK
  <2>3. m \in UpMsg /\ up' \in [Players -> Seq(UpMsg)]
    BY <2>1, <2>2, TakenType
  <2>4. mine \in Report
    BY <2>1, <2>3 DEF UpMsg, Report
  <2>5. map \subseteq Report /\ older \subseteq Report
    BY <2>4 DEF TypeOK, RoomTypeOK
  <2>6. reports' = older \/ reports' = older \cup map
    BY <1>7 DEF ReceiveComparison
  <2>7. reports' \subseteq Report
    BY <2>5, <2>6
  <2>8. mismatch' \in BOOLEAN
    BY <1>7 DEF ReceiveComparison, TypeOK, RoomTypeOK
  <2> QED
    BY <1>1, <2>1, <2>3, <2>7, <2>8 DEF TypeOK, WireTypeOK, RoomTypeOK
<1> QED
  BY <1>2, <1>3, <1>4, <1>5, <1>6, <1>7 DEF RoomStep

\* LockUpdate keeps the types of all it changes.
LEMMA LockUpdateType ==
  ASSUME TypeOK, NEW p \in Players, NEW inLoop \in BOOLEAN, LockUpdate(p, inLoop)
  PROVE  /\ up' \in [Players -> Seq(UpMsg)]
         /\ frame' \in [Players -> 0..(WaitingInterval - 1)]
         /\ playFrame' \in [Players -> Nat]
         /\ playDataList' \in [Players -> Seq(PlayData)]
         /\ sendInLoop' \in [Players -> BOOLEAN]
         /\ ticks' \in [Players -> Nat]
         /\ applied' \in [Players -> Seq(PlayData)]
<1> USE DEF TypeOK, WireTypeOK, NetworkmgrTypeOK
<1>1. CASE LockIdle(p)
  BY <1>1 DEF LockIdle
<1>2. CASE LockTick(p)
  <2>1. frame' \in [Players -> 0..(WaitingInterval - 1)]
    BY <1>2, NetworkmgrAssumption DEF LockTick, AtBoundary
  <2> QED
    BY <1>2, <2>1 DEF LockTick
<1>3. CASE LockPlay(p, inLoop)
  <2>1. playDataList[p] # <<>>
    BY <1>3 DEF LockPlay
  <2>2. Sent(p, inLoop) \in Seq(UpMsg)
    BY <2>1, SentType
  <2>3. up[p] \o Sent(p, inLoop) \in Seq(UpMsg)
    BY <2>2
  <2>4. up' \in [Players -> Seq(UpMsg)]
    BY <1>3, <2>3 DEF LockPlay
  <2>5. Head(playDataList[p]) \in PlayData /\ Tail(playDataList[p]) \in Seq(PlayData)
    BY <2>1
  <2>6. /\ playDataList' \in [Players -> Seq(PlayData)]
        /\ applied' \in [Players -> Seq(PlayData)]
    BY <1>3, <2>5 DEF LockPlay
  <2>7. frame' \in [Players -> 0..(WaitingInterval - 1)]
    BY <1>3, NetworkmgrAssumption DEF LockPlay
  <2>8. playFrame' \in [Players -> Nat] /\ ticks' \in [Players -> Nat]
    <3>1. /\ playFrame' = [playFrame EXCEPT ![p] = @ + 1]
          /\ ticks' = [ticks EXCEPT ![p] = @ + 1]
      BY <1>3 DEF LockPlay
    <3> QED
      BY <3>1
  <2>9. sendInLoop' \in [Players -> BOOLEAN]
    BY <1>3 DEF LockPlay
  <2> QED
    BY <2>4, <2>6, <2>7, <2>8, <2>9
<1> QED
  BY <1>1, <1>2, <1>3 DEF LockUpdate

LEMMA ClientStepType ==
  ASSUME TypeOK, NEW p \in Players, ClientStep(p), UNCHANGED roomVars
  PROVE  TypeOK'
<1>1. RoomTypeOK'
  BY DEF TypeOK, RoomTypeOK, roomVars
<1>2. CASE OnStart(p)
  <2>1. down' \in [Players -> Seq(DownMsg)]
    BY <1>2, TakenType DEF OnStart, TypeOK, WireTypeOK
  <2>2. <<NoInputs>> \in Seq(PlayData)
    BY NoInputsType
  <2>3. playDataList' \in [Players -> Seq(PlayData)]
    BY <1>2, <2>2 DEF OnStart, TypeOK, NetworkmgrTypeOK
  <2>4. frame' \in [Players -> 0..(WaitingInterval - 1)]
    BY <1>2, NetworkmgrAssumption DEF OnStart, TypeOK, NetworkmgrTypeOK
  <2>5. /\ online' \in [Players -> BOOLEAN]
        /\ sendInLoop' \in [Players -> BOOLEAN]
    BY <1>2 DEF OnStart, TypeOK, NetworkmgrTypeOK
  <2>6. /\ playFrame' \in [Players -> Nat]
        /\ ticks' \in [Players -> Nat]
    BY <1>2 DEF OnStart, TypeOK, NetworkmgrTypeOK
  <2>7. applied' \in [Players -> Seq(PlayData)]
    BY <1>2 DEF OnStart, TypeOK, NetworkmgrTypeOK
  <2> QED
    BY <1>1, <1>2, <2>1, <2>3, <2>4, <2>5, <2>6, <2>7
    DEF OnStart, TypeOK, WireTypeOK, NetworkmgrTypeOK
<1>3. CASE OnReceivePlayData(p)
  <2>1. /\ down[p] # <<>> /\ Head(down[p]).kind = "play"
        /\ down' = [down EXCEPT ![p] = Tail(@)]
        /\ playDataList' = [playDataList EXCEPT ![p] = Append(@, Head(down[p]).data)]
        /\ UNCHANGED <<up, connected, pc, online, frame, playFrame, sendInLoop,
                       lateFrame, ticks, applied>>
    BY <1>3 DEF OnReceivePlayData
  <2>2. down' \in [Players -> Seq(DownMsg)] /\ Head(down[p]) \in DownMsg
    BY <2>1, TakenType DEF TypeOK, WireTypeOK
  <2>3. Head(down[p]).data \in PlayData
    BY <2>1, <2>2 DEF DownMsg, StartMsg
  <2>4. playDataList' \in [Players -> Seq(PlayData)]
    BY <2>1, <2>3 DEF TypeOK, NetworkmgrTypeOK
  <2> QED
    BY <1>1, <2>1, <2>2, <2>4 DEF TypeOK, WireTypeOK, NetworkmgrTypeOK
<1>4. CASE Polled(p)
  <2>1. /\ pc' \in [Players -> {"poll", "loop", "lock"}]
        /\ lateFrame' \in [Players -> 0..(WaitingInterval - 1)]
    BY <1>4 DEF Polled, TypeOK, NetworkmgrTypeOK
  <2>2. sendInLoop' \in [Players -> BOOLEAN]
    BY <1>4 DEF Polled, TypeOK, NetworkmgrTypeOK
  <2>3. UNCHANGED <<wireVars, online, frame, playFrame, playDataList, ticks, applied>>
    BY <1>4 DEF Polled
  <2> QED
    BY <1>1, <2>1, <2>2, <2>3 DEF TypeOK, WireTypeOK, NetworkmgrTypeOK, wireVars
<1>5. ASSUME CatchUp(p) \/ Lock(p) PROVE TypeOK'
  <2>1. PICK inLoop \in BOOLEAN : LockUpdate(p, inLoop)
    BY <1>5 DEF CatchUp, Lock
  <2>2. pc' \in [Players -> {"poll", "loop", "lock"}]
    BY <1>5 DEF CatchUp, Lock, TypeOK, NetworkmgrTypeOK
  <2>3. UNCHANGED <<down, connected, online, lateFrame>>
    BY <1>5 DEF CatchUp, Lock
  <2> QED
    BY <1>1, <2>1, <2>2, <2>3, LockUpdateType DEF TypeOK, WireTypeOK, NetworkmgrTypeOK
<1> QED
  BY <1>2, <1>3, <1>4, <1>5 DEF ClientStep

LEMMA LeaveType ==
  ASSUME TypeOK, NEW p \in Players, Leave(p), UNCHANGED roomVars
  PROVE  TypeOK'
<1>1. PICK n \in 0..Len(up[p]) : up' = [up EXCEPT ![p] = SubSeq(@, 1, n)]
  BY DEF Leave
<1>2. SubSeq(up[p], 1, n) \in Seq(UpMsg)
  BY DEF TypeOK, WireTypeOK
<1>3. up' \in [Players -> Seq(UpMsg)]
  BY <1>1, <1>2 DEF TypeOK, WireTypeOK
<1>4. connected' \in [Players -> BOOLEAN]
  BY DEF Leave, TypeOK, WireTypeOK
<1>5. down' \in [Players -> Seq(DownMsg)]
  BY DEF Leave, TypeOK, WireTypeOK
<1> QED
  BY <1>3, <1>4, <1>5
  DEF Leave, TypeOK, WireTypeOK, RoomTypeOK, NetworkmgrTypeOK, roomVars, clientVars

LEMMA TypeStep == TypeOK /\ [Next]_vars => TypeOK'
<1> SUFFICES ASSUME TypeOK, [Next]_vars PROVE TypeOK'
  OBVIOUS
<1>1. CASE RoomStep /\ UNCHANGED clientVars
  BY <1>1, RoomStepType
<1>2. ASSUME NEW p \in Players, ClientStep(p) /\ UNCHANGED roomVars PROVE TypeOK'
  BY <1>2, ClientStepType
<1>3. ASSUME NEW p \in Players, Leave(p) /\ UNCHANGED roomVars PROVE TypeOK'
  BY <1>3, LeaveType
<1>4. CASE UNCHANGED vars
  BY <1>4 DEF TypeOK, WireTypeOK, RoomTypeOK, NetworkmgrTypeOK, vars, wireVars,
              roomVars, clientVars
<1> QED
  BY <1>1, <1>2, <1>3, <1>4 DEF Next

\* Every variable of a match keeps its type, for every set of players and
\* whatever the intervals: a phone's frame never reaches WaitingInterval
\* (Networkmgr.cs LockUpdate) and no timeout waits a negative time (room.lua).
THEOREM Typing == Spec => []TypeOK
<1>1. Init => TypeOK
  BY TypeInit
<1>2. TypeOK /\ [Next]_vars => TypeOK'
  BY TypeStep
<1> QED
  BY <1>1, <1>2, PTL DEF Spec

-----------------------------------------------------------------------------
(* Every ready frame has its timeout.                                      *)

TimerInv == readyPlay => \E t \in timers : t.frame = roomFrame

LEMMA TimerStep == TypeOK /\ TimerInv /\ [Next]_vars => TimerInv'
<1> SUFFICES ASSUME TypeOK, TimerInv, [Next]_vars PROVE TimerInv'
  OBVIOUS
<1>1. CASE PlayTimeout
  <2>1. CASE readyPlay
    <3>1. readyPlay' = FALSE
      BY <1>1, <2>1 DEF PlayTimeout, Play
    <3> QED
      BY <3>1 DEF TimerInv
  <2>2. CASE ~readyPlay
    BY <1>1, <2>2 DEF PlayTimeout, TimerInv
  <2> QED
    BY <2>1, <2>2
<1>2. CASE Tick
  <2>1. UNCHANGED <<readyPlay, roomFrame>>
    BY <1>2 DEF Tick
  <2> SUFFICES ASSUME readyPlay PROVE \E t \in timers' : t.frame = roomFrame
    BY <2>1 DEF TimerInv
  <2>2. PICK t \in timers : t.frame = roomFrame
    BY DEF TimerInv
  <2> DEFINE u == [t EXCEPT !.left = IF @ > 0 THEN @ - 1 ELSE 0]
  <2>3. u \in timers'
    BY <1>2 DEF Tick
  <2>4. u.frame = roomFrame
    BY <2>2 DEF TypeOK, RoomTypeOK
  <2> QED
    BY <2>3, <2>4
<1>3. ASSUME NEW p \in Players, ReceiveInput(p)
      PROVE  TimerInv'
  <2>1. PICK inputs : \/ Play(inputs)
                      \/ Arm(inputs)
                      \/ Keep(inputs)
    BY <1>3 DEF ReceiveInput
  <2>2. CASE Play(inputs)
    BY <2>2 DEF Play, TimerInv
  <2>3. CASE Arm(inputs)
    <3>1. [frame |-> roomFrame, left |-> PlayInterval - elapsed] \in timers'
      BY <2>3 DEF Arm
    <3>2. roomFrame' = roomFrame
      BY <2>3 DEF Arm
    <3> QED
      BY <3>1, <3>2 DEF TimerInv
  <2>4. CASE Keep(inputs)
    BY <2>4 DEF Keep, TimerInv
  <2> QED
    BY <2>1, <2>2, <2>3, <2>4
<1>4. CASE \/ Start \/ Exit
           \/ \E p \in Players : ReceiveComparison(p)
  BY <1>4 DEF Start, Exit, ReceiveComparison, TimerInv
<1>5. CASE UNCHANGED roomVars
  BY <1>5 DEF roomVars, TimerInv
<1> QED
  BY <1>1, <1>2, <1>3, <1>4, <1>5 DEF Next, RoomStep, vars

\* The room never waits for a timeout that is not there (room.lua
\* ReceiveInput, Play): while a frame is ready, its own timeout is pending.
THEOREM TimerPending == Spec => []ReadyHasTimer
<1>1. Init => TimerInv
  BY DEF Init, RoomInit, TimerInv
<1>2. TimerInv => ReadyHasTimer
  BY DEF TimerInv, ReadyHasTimer
<1> QED
  BY <1>1, <1>2, Typing, TimerStep, PTL DEF Spec

-----------------------------------------------------------------------------
(* The simulation is in step.                                              *)

LEMMA TickStep == TypeOK /\ TickAligned /\ [Next]_vars => TickAligned'
<1> SUFFICES ASSUME TypeOK, TickAligned, [Next]_vars,
                    NEW q \in Players, online'[q]
             PROVE  /\ ticks'[q] = WaitingInterval * playFrame'[q] + frame'[q]
                    /\ Len(applied'[q]) = playFrame'[q]
  BY DEF TickAligned
<1> USE DEF TypeOK, NetworkmgrTypeOK
<1>1. CASE UNCHANGED <<online, frame, playFrame, ticks, applied>>
  BY <1>1 DEF TickAligned
<1>2. ASSUME NEW p \in Players, OnStart(p)
      PROVE  /\ ticks'[q] = WaitingInterval * playFrame'[q] + frame'[q]
             /\ Len(applied'[q]) = playFrame'[q]
  <2>1. CASE q = p
    <3>1. ticks'[q] = 0 /\ playFrame'[q] = 0 /\ frame'[q] = 0 /\ applied'[q] = <<>>
      BY <1>2, <2>1 DEF OnStart
    <3> QED
      BY <3>1, NetworkmgrAssumption
  <2>2. CASE q # p
    BY <1>2, <2>2 DEF OnStart, TickAligned
  <2> QED
    BY <2>1, <2>2
<1>3. ASSUME NEW p \in Players, NEW inLoop \in BOOLEAN, LockUpdate(p, inLoop),
             UNCHANGED online
      PROVE  /\ ticks'[q] = WaitingInterval * playFrame'[q] + frame'[q]
             /\ Len(applied'[q]) = playFrame'[q]
  <2>1. /\ online[q]
        /\ ticks[q] = WaitingInterval * playFrame[q] + frame[q]
        /\ Len(applied[q]) = playFrame[q]
    BY <1>3 DEF TickAligned
  <2>2. CASE LockIdle(p)
    BY <2>1, <2>2 DEF LockIdle
  <2>3. CASE LockTick(p)
    <3>1. /\ frame' = [frame EXCEPT ![p] = @ + 1]
          /\ ticks' = [ticks EXCEPT ![p] = @ + 1]
          /\ UNCHANGED <<playFrame, applied>>
      BY <2>3 DEF LockTick
    <3>2. ticks'[q] - ticks[q] = frame'[q] - frame[q]
      BY <3>1
    <3>3. /\ ticks[q] \in Nat /\ ticks'[q] \in Nat
          /\ frame[q] \in Nat /\ frame'[q] \in Nat
      BY <3>1, NetworkmgrAssumption
    <3>4. WaitingInterval * playFrame[q] \in Int
      BY NetworkmgrAssumption
    <3>5. playFrame'[q] = playFrame[q] /\ applied'[q] = applied[q]
      BY <3>1
    <3> DEFINE base == WaitingInterval * playFrame[q]
    <3>6. ticks[q] = base + frame[q]
      BY <2>1
    <3>7. base \in Int
      BY <3>4
    <3> HIDE DEF base, TypeOK, NetworkmgrTypeOK
    <3>8. ticks'[q] = base + frame'[q]
      BY <3>2, <3>3, <3>6, <3>7
    <3> QED
      BY <2>1, <3>5, <3>8, Zenon DEF base
  <2>4. CASE LockPlay(p, inLoop)
    <3>1. /\ playDataList[p] # <<>>
          /\ frame[p] + 1 = WaitingInterval
          /\ frame' = [frame EXCEPT ![p] = 0]
          /\ playFrame' = [playFrame EXCEPT ![p] = @ + 1]
          /\ ticks' = [ticks EXCEPT ![p] = @ + 1]
          /\ applied' = [applied EXCEPT ![p] = Append(@, Head(playDataList[p]))]
      BY <2>4 DEF LockPlay, AtBoundary
    <3>2. CASE q = p
      <4>1. Len(applied'[q]) = Len(applied[q]) + 1
        BY <3>1, <3>2
      <4>2. WaitingInterval * (playFrame[q] + 1) = WaitingInterval * playFrame[q] + WaitingInterval
        BY NetworkmgrAssumption
      <4>3. ticks'[q] = WaitingInterval * playFrame[q] + frame[q] + 1
        BY <2>1, <3>1, <3>2
      <4> QED
        BY <2>1, <3>1, <3>2, <4>1, <4>2, <4>3, NetworkmgrAssumption
    <3>3. CASE q # p
      BY <2>1, <3>1, <3>3
    <3> QED
      BY <3>2, <3>3
  <2> QED
    BY <1>3, <2>2, <2>3, <2>4 DEF LockUpdate
<1>4. ASSUME NEW p \in Players, CatchUp(p) \/ Lock(p)
      PROVE  /\ ticks'[q] = WaitingInterval * playFrame'[q] + frame'[q]
             /\ Len(applied'[q]) = playFrame'[q]
  BY <1>3, <1>4 DEF CatchUp, Lock
<1>5. ASSUME NEW p \in Players, OnReceivePlayData(p) \/ Polled(p) \/ Leave(p)
      PROVE  UNCHANGED <<online, frame, playFrame, ticks, applied>>
  BY <1>5 DEF OnReceivePlayData, Polled, Leave, clientVars
<1> QED
  BY <1>1, <1>2, <1>4, <1>5 DEF Next, ClientStep, vars, clientVars

\* The k-th PlayData is applied after the same number of ticks on every
\* phone (Networkmgr.cs LockUpdate), whatever the catch-up loop did, however
\* often the phone stood still and whatever frame an earlier match ended in.
THEOREM Aligned == Spec => []TickAligned
<1>1. Init => TickAligned
  BY DEF Init, NetworkmgrInit, TickAligned
<1> QED
  BY <1>1, Typing, TickStep, PTL DEF Spec

-----------------------------------------------------------------------------
(* No PlayData is lost, doubled or left over.                              *)

LEMMA StreamInit == Init => StreamInv
  BY DEF Init, WireInit, RoomInit, NetworkmgrInit, StreamInv, StreamOf

\* A broadcast: one more element in the log and on every connection.
LEMMA StreamPlay ==
  ASSUME TypeOK, StreamInv, running = "up", NEW inputs \in PlayData, Play(inputs),
         UNCHANGED <<connected, running, clientVars>>
  PROVE  StreamInv'
<1> USE DEF TypeOK, WireTypeOK, RoomTypeOK, NetworkmgrTypeOK
<1>1. /\ log' = Append(log, inputs)
      /\ down' = Delivered(PlayMsg(inputs))
  BY DEF Play
<1>2. Len(log') = Len(log) + 1 /\ log'[Len(log) + 1] = inputs
  BY <1>1
<1>3. \A i \in 1..Len(log) : log'[i] = log[i]
  BY <1>1
<1>4. Len(log') > 0 /\ log'[1] = NoInputs
  <2>1. Len(log) \in Nat /\ Len(log) > 0 /\ log[1] = NoInputs
    BY DEF StreamInv
  <2>2. 1 \in 1..Len(log)
    BY <2>1
  <2> QED
    BY <1>2, <1>3, <2>1, <2>2
<1>5. ASSUME NEW p \in Players
      PROVE  StreamOf(p)'
  <2>1. UNCHANGED <<online[p], applied[p], playDataList[p], Taken(p)>>
    BY DEF clientVars, Taken
  <2>2. StreamOf(p)
    BY DEF StreamInv
  <2>3. /\ Len(applied[p]) \in Nat /\ Len(playDataList[p]) \in Nat
        /\ Len(down[p]) \in Nat /\ Len(log) \in Nat
    OBVIOUS
  <2>4. online[p] => TakenFromLog(p)'
    <3> SUFFICES ASSUME online[p] PROVE TakenFromLog(p)'
      OBVIOUS
    <3>1. TakenFromLog(p)
      BY <2>2 DEF StreamOf
    <3>2. Taken(p)' <= Len(log')
      BY <1>2, <2>1, <2>3, <3>1 DEF TakenFromLog, Taken
    <3>3. ASSUME NEW i \in 1..Len(applied[p])
          PROVE  applied[p][i] = log'[i]
      <4>1. i \in 1..Len(log)
        BY <2>3, <3>1 DEF TakenFromLog, Taken
      <4> QED
        BY <1>3, <3>1, <4>1 DEF TakenFromLog
    <3>4. ASSUME NEW i \in 1..Len(playDataList[p])
          PROVE  playDataList[p][i] = log'[Len(applied[p]) + i]
      <4>1. Len(applied[p]) + i \in 1..Len(log)
        BY <2>3, <3>1 DEF TakenFromLog, Taken
      <4> QED
        BY <1>3, <3>1, <4>1 DEF TakenFromLog
    <3> QED
      BY <2>1, <3>2, <3>3, <3>4 DEF TakenFromLog
  <2>5. connected[p] => /\ Len(down'[p]) = Len(down[p]) + 1
                        /\ down'[p][Len(down[p]) + 1] = PlayMsg(inputs)
                        /\ \A i \in 1..Len(down[p]) : down'[p][i] = down[p][i]
    BY <1>1 DEF Delivered
  <2>6. online[p] /\ connected[p] => ComingFromLog(p)'
    <3> SUFFICES ASSUME online[p], connected[p] PROVE ComingFromLog(p)'
      OBVIOUS
    <3>1. ComingFromLog(p) /\ TakenFromLog(p)
      BY <2>2 DEF StreamOf
    <3>2. Len(down'[p]) = Len(log') - Taken(p)
      BY <1>2, <2>3, <2>5, <3>1 DEF ComingFromLog, Taken
    <3>3. ASSUME NEW i \in 1..Len(down'[p])
          PROVE  down'[p][i] = PlayMsg(log'[Taken(p) + i])
      <4>1. CASE i = Len(down[p]) + 1
        <5>1. Taken(p) + i = Len(log) + 1
          BY <2>3, <3>1, <4>1 DEF ComingFromLog, Taken
        <5> QED
          BY <1>2, <2>5, <4>1, <5>1
      <4>2. CASE i # Len(down[p]) + 1
        <5>1. i \in 1..Len(down[p])
          BY <2>3, <2>5, <4>2
        <5>2. Taken(p) + i \in 1..Len(log)
          BY <2>3, <3>1, <5>1 DEF ComingFromLog, Taken
        <5> QED
          BY <1>3, <2>5, <3>1, <5>1, <5>2 DEF ComingFromLog
      <4> QED
        BY <4>1, <4>2
    <3> QED
      BY <2>1, <3>2, <3>3 DEF ComingFromLog
  <2>7. ~online[p] /\ connected[p] => StartThenLog(p)'
    <3> SUFFICES ASSUME ~online[p], connected[p] PROVE StartThenLog(p)'
      OBVIOUS
    <3>1. StartThenLog(p)
      BY <2>2 DEF StreamOf
    <3>2. Len(down'[p]) = Len(log')
      BY <1>2, <2>5, <3>1 DEF StartThenLog
    <3>3. down'[p][1] = StartMsg
      BY <2>3, <2>5, <3>1 DEF StartThenLog, StreamInv
    <3>4. ASSUME NEW i \in 2..Len(down'[p])
          PROVE  down'[p][i] = PlayMsg(log'[i])
      <4>1. CASE i = Len(down[p]) + 1
        BY <1>2, <2>5, <3>1, <4>1 DEF StartThenLog
      <4>2. CASE i # Len(down[p]) + 1
        <5>1. i \in 2..Len(down[p]) /\ i \in 1..Len(down[p]) /\ i \in 1..Len(log)
          BY <2>3, <2>5, <3>1, <4>2 DEF StartThenLog
        <5> QED
          BY <1>3, <2>5, <3>1, <5>1 DEF StartThenLog
      <4> QED
        BY <4>1, <4>2
    <3> QED
      BY <3>2, <3>3, <3>4 DEF StartThenLog
  <2> QED
    BY <2>1, <2>4, <2>6, <2>7 DEF StreamOf
<1> QED
  BY <1>4, <1>5 DEF StreamInv

\* The lobby's Start: every phone still there gets it before anything else.
LEMMA StreamStart ==
  ASSUME TypeOK, StreamInv, Start, UNCHANGED clientVars
  PROVE  StreamInv'
<1>1. /\ running = "new" /\ running' = "up"
      /\ down' = Delivered(StartMsg)
      /\ UNCHANGED <<connected, log>>
  BY DEF Start
<1>2. Len(log) = 1
  BY <1>1 DEF StreamInv
<1>3. ASSUME NEW p \in Players PROVE StreamOf(p)'
  <2>1. ~online[p] /\ down[p] = <<>> /\ online'[p] = online[p]
    BY <1>1 DEF StreamInv, StreamOf, clientVars
  <2>2. connected[p] => down'[p] = Append(<<>>, StartMsg)
    BY <1>1, <2>1 DEF Delivered
  <2>3. connected[p] => down'[p] = <<StartMsg>>
    BY <2>2
  <2>4. connected[p] => Len(down'[p]) = 1 /\ down'[p][1] = StartMsg
    BY <2>3
  <2>5. connected[p] => StartThenLog(p)'
    BY <1>1, <1>2, <2>4 DEF StartThenLog
  <2> QED
    BY <1>1, <2>1, <2>5 DEF StreamOf
<1> QED
  BY <1>1, <1>3 DEF StreamInv

\* A step that changes none of the variables of the stream.
streamVars == <<running, log, down, connected, online, applied, playDataList>>

LEMMA StreamStutter ==
  ASSUME StreamInv, UNCHANGED streamVars
  PROVE  StreamInv'
<1>1. ASSUME NEW p \in Players PROVE StreamOf(p)'
  BY DEF StreamInv, StreamOf, TakenFromLog, ComingFromLog, StartThenLog, Taken,
         streamVars
<1> QED
  BY <1>1 DEF StreamInv, streamVars

\* A step of one phone leaves the other phone's stream as it is.
LEMMA StreamOthers ==
  ASSUME NEW q \in Players, StreamOf(q), running' = running, log' = log,
         down'[q] = down[q], connected'[q] = connected[q], online'[q] = online[q],
         applied'[q] = applied[q], playDataList'[q] = playDataList[q]
  PROVE  StreamOf(q)'
<1>1. Taken(q)' = Taken(q)
  BY DEF Taken
<1>2. /\ TakenFromLog(q) => TakenFromLog(q)'
      /\ ComingFromLog(q) => ComingFromLog(q)'
      /\ StartThenLog(q) => StartThenLog(q)'
  BY <1>1 DEF TakenFromLog, ComingFromLog, StartThenLog
<1> QED
  BY <1>2 DEF StreamOf

\* The start of a match: the list of an earlier one is dropped, and the
\* first PlayData is the empty one the log starts with.
LEMMA StreamOnStart ==
  ASSUME TypeOK, StreamInv, NEW p \in Players, OnStart(p), UNCHANGED roomVars
  PROVE  StreamOf(p)'
<1> USE DEF TypeOK, WireTypeOK, RoomTypeOK, NetworkmgrTypeOK
<1>1. /\ connected[p] /\ down[p] # <<>> /\ Head(down[p]).kind = "start"
      /\ online'[p] /\ down'[p] = Tail(down[p])
      /\ applied'[p] = <<>> /\ playDataList'[p] = <<NoInputs>>
      /\ UNCHANGED <<connected, running, log>>
  BY DEF OnStart, Active, roomVars
<1>2. running # "new"
  BY <1>1 DEF StreamInv, StreamOf
<1>3. /\ down[p] \in Seq(DownMsg) /\ Len(down[p]) \in Nat /\ Len(down[p]) > 0
      /\ Len(log) \in Nat
  BY <1>1
<1>4. ~online[p]
  <2> SUFFICES ASSUME online[p] PROVE FALSE
    OBVIOUS
  <2>1. ComingFromLog(p)
    BY <1>1 DEF StreamInv, StreamOf
  <2>2. down[p][1] = PlayMsg(log[Taken(p) + 1])
    BY <1>3, <2>1 DEF ComingFromLog
  <2> QED
    BY <1>1, <1>3, <2>2 DEF PlayMsg
<1>5. StartThenLog(p)
  BY <1>1, <1>2, <1>4 DEF StreamInv, StreamOf
<1>6. Taken(p)' = 1 /\ Len(applied'[p]) = 0 /\ Len(playDataList'[p]) = 1
  BY <1>1 DEF Taken
<1>7. TakenFromLog(p)'
  <2>1. playDataList'[p][1] = log[1] /\ Len(log) > 0
    BY <1>1 DEF StreamInv
  <2> QED
    BY <1>1, <1>3, <1>6, <2>1 DEF TakenFromLog
<1>8. ComingFromLog(p)'
  <2>1. Len(down'[p]) = Len(log) - 1
    BY <1>1, <1>3, <1>5 DEF StartThenLog
  <2>2. ASSUME NEW i \in 1..Len(down'[p])
        PROVE  down'[p][i] = PlayMsg(log[1 + i])
    <3>1. i + 1 \in 2..Len(down[p]) /\ down'[p][i] = down[p][i + 1]
      BY <1>1, <1>3, <1>5, <2>1 DEF StartThenLog
    <3> QED
      BY <3>1, <1>5 DEF StartThenLog
  <2> QED
    BY <1>1, <1>6, <2>1, <2>2 DEF ComingFromLog
<1> QED
  BY <1>1, <1>2, <1>7, <1>8 DEF StreamOf

\* A PlayData moves from the connection to the list.
LEMMA StreamOnReceive ==
  ASSUME TypeOK, StreamInv, NEW p \in Players, OnReceivePlayData(p), UNCHANGED roomVars
  PROVE  StreamOf(p)'
<1> USE DEF TypeOK, WireTypeOK, RoomTypeOK, NetworkmgrTypeOK
<1>1. /\ connected[p] /\ down[p] # <<>> /\ Head(down[p]).kind = "play"
      /\ down'[p] = Tail(down[p])
      /\ playDataList'[p] = Append(playDataList[p], Head(down[p]).data)
      /\ UNCHANGED <<connected, online, applied, running, log>>
  BY DEF OnReceivePlayData, Active, roomVars
<1>2. /\ Len(down[p]) \in Nat /\ Len(down[p]) > 0 /\ Len(log) \in Nat
      /\ Len(applied[p]) \in Nat /\ Len(playDataList[p]) \in Nat
  BY <1>1
<1>3. running # "new"
  BY <1>1 DEF StreamInv, StreamOf
<1>4. online[p]
  <2> SUFFICES ASSUME ~online[p] PROVE FALSE
    OBVIOUS
  <2>1. StartThenLog(p)
    BY <1>1, <1>3 DEF StreamInv, StreamOf
  <2>2. Head(down[p]) = StartMsg
    BY <1>1, <1>2, <2>1 DEF StartThenLog
  <2> QED
    BY <1>1, <2>2 DEF StartMsg
<1>5. TakenFromLog(p) /\ ComingFromLog(p)
  BY <1>1, <1>4 DEF StreamInv, StreamOf
<1>6. /\ Len(playDataList'[p]) = Len(playDataList[p]) + 1
      /\ Len(down'[p]) = Len(down[p]) - 1
      /\ Taken(p)' = Taken(p) + 1
      /\ Taken(p) \in Nat
  BY <1>1, <1>2 DEF Taken
<1>7. Head(down[p]).data = log[Taken(p) + 1]
  <2>1. Head(down[p]) = PlayMsg(log[Taken(p) + 1])
    BY <1>2, <1>5 DEF ComingFromLog
  <2> QED
    BY <2>1 DEF PlayMsg
<1>8. TakenFromLog(p)'
  <2>1. Taken(p)' <= Len(log)
    BY <1>2, <1>5, <1>6 DEF ComingFromLog
  <2>2. ASSUME NEW i \in 1..Len(playDataList'[p])
        PROVE  playDataList'[p][i] = log[Len(applied[p]) + i]
    <3>1. CASE i = Len(playDataList[p]) + 1
      <4>1. playDataList'[p][i] = Head(down[p]).data
        BY <1>1, <1>2, <3>1
      <4>2. Len(applied[p]) + i = Taken(p) + 1
        BY <1>2, <3>1 DEF Taken
      <4> QED
        BY <1>7, <4>1, <4>2
    <3>2. CASE i # Len(playDataList[p]) + 1
      <4>1. i \in 1..Len(playDataList[p])
        BY <1>2, <1>6, <3>2, SMTT(30)
      <4>2. playDataList'[p][i] = playDataList[p][i]
        BY <1>1, <4>1
      <4> QED
        BY <1>5, <4>1, <4>2 DEF TakenFromLog
    <3> QED
      BY <3>1, <3>2
  <2> QED
    BY <1>1, <1>5, <2>1, <2>2 DEF TakenFromLog
<1>9. ComingFromLog(p)'
  <2>1. Len(down'[p]) = Len(log) - Taken(p)'
    BY <1>2, <1>5, <1>6 DEF ComingFromLog
  <2>2. ASSUME NEW i \in 1..Len(down'[p])
        PROVE  down'[p][i] = PlayMsg(log[Taken(p) + 1 + i])
    <3>1. i + 1 \in 1..Len(down[p]) /\ down'[p][i] = down[p][i + 1]
      BY <1>1, <1>2, <1>6
    <3>2. Taken(p) + (i + 1) = Taken(p) + 1 + i
      BY <1>6
    <3> QED
      BY <1>5, <3>1, <3>2 DEF ComingFromLog
  <2> QED
    BY <1>1, <1>6, <2>1, <2>2 DEF ComingFromLog
<1> QED
  BY <1>1, <1>3, <1>4, <1>8, <1>9 DEF StreamOf

\* A PlayData moves from the list to the simulation.
LEMMA StreamLockPlay ==
  ASSUME TypeOK, StreamInv, NEW p \in Players, NEW inLoop \in BOOLEAN,
         LockPlay(p, inLoop), UNCHANGED <<down, connected, online, running, log>>
  PROVE  StreamOf(p)'
<1> USE DEF TypeOK, WireTypeOK, RoomTypeOK, NetworkmgrTypeOK
<1>1. /\ online[p] /\ playDataList[p] # <<>>
      /\ playDataList'[p] = Tail(playDataList[p])
      /\ applied'[p] = Append(applied[p], Head(playDataList[p]))
  BY DEF LockPlay
<1>2. /\ Len(playDataList[p]) \in Nat /\ Len(playDataList[p]) > 0
      /\ Len(applied[p]) \in Nat /\ Len(log) \in Nat
  BY <1>1
<1>3. TakenFromLog(p) /\ (connected[p] => ComingFromLog(p))
  BY <1>1 DEF StreamInv, StreamOf
<1>4. /\ Len(playDataList'[p]) = Len(playDataList[p]) - 1
      /\ Len(applied'[p]) = Len(applied[p]) + 1
      /\ Taken(p)' = Taken(p)
  BY <1>1, <1>2 DEF Taken
<1>5. TakenFromLog(p)'
  <2>1. ASSUME NEW i \in 1..Len(applied'[p]) PROVE applied'[p][i] = log[i]
    <3>1. CASE i = Len(applied[p]) + 1
      <4>1. applied'[p][i] = playDataList[p][1]
        BY <1>1, <1>2, <3>1
      <4>2. 1 \in 1..Len(playDataList[p])
        BY <1>2
      <4>3. playDataList[p][1] = log[Len(applied[p]) + 1]
        BY <1>3, <4>2 DEF TakenFromLog
      <4> QED
        BY <3>1, <4>1, <4>3
    <3>2. CASE i # Len(applied[p]) + 1
      <4>1. i \in 1..Len(applied[p])
        BY <1>2, <1>4, <3>2
      <4>2. applied'[p][i] = applied[p][i]
        BY <1>1, <4>1
      <4>3. applied[p][i] = log[i]
        BY <1>3, <4>1 DEF TakenFromLog
      <4> QED
        BY <4>2, <4>3
    <3> QED
      BY <3>1, <3>2
  <2>2. ASSUME NEW i \in 1..Len(playDataList'[p])
        PROVE  playDataList'[p][i] = log[Len(applied'[p]) + i]
    <3>1. i + 1 \in 1..Len(playDataList[p]) /\ playDataList'[p][i] = playDataList[p][i + 1]
      BY <1>1, <1>2, <1>4
    <3>2. Len(applied'[p]) + i = Len(applied[p]) + (i + 1)
      BY <1>2, <1>4
    <3> QED
      BY <1>3, <3>1, <3>2 DEF TakenFromLog
  <2>3. Taken(p)' <= Len(log)
    BY <1>3, <1>4 DEF TakenFromLog
  <2> QED
    BY <2>1, <2>2, <2>3 DEF TakenFromLog
<1>6. connected[p] => ComingFromLog(p)'
  BY <1>3, <1>4 DEF ComingFromLog
<1> QED
  BY <1>1, <1>5, <1>6 DEF StreamInv, StreamOf

\* A phone that is gone has stopped at a prefix.
LEMMA StreamLeave ==
  ASSUME TypeOK, StreamInv, NEW p \in Players, Leave(p), UNCHANGED roomVars
  PROVE  StreamOf(p)'
<1>1. /\ ~connected'[p] /\ down'[p] = <<>>
      /\ UNCHANGED <<online, applied, playDataList, running, log>>
  BY DEF Leave, roomVars, clientVars, TypeOK, WireTypeOK
<1>2. online[p] => TakenFromLog(p)'
  BY <1>1 DEF StreamInv, StreamOf, TakenFromLog, Taken
<1> QED
  BY <1>1, <1>2 DEF StreamInv, StreamOf

LEMMA StreamStep == TypeOK /\ StreamInv /\ [Next]_vars => StreamInv'
<1> SUFFICES ASSUME TypeOK, StreamInv, [Next]_vars PROVE StreamInv'
  OBVIOUS
\* What a step of one phone leaves to be shown.
<1>1. ASSUME NEW p \in Players, StreamOf(p)', UNCHANGED <<running, log>>,
             \A q \in Players \ {p} :
               /\ down'[q] = down[q]
               /\ connected'[q] = connected[q]
               /\ online'[q] = online[q]
               /\ applied'[q] = applied[q]
               /\ playDataList'[q] = playDataList[q]
      PROVE  StreamInv'
  <2>1. ASSUME NEW q \in Players PROVE StreamOf(q)'
    <3>1. CASE q = p
      BY <1>1, <3>1
    <3>2. CASE q # p
      <4>1. StreamOf(q)
        BY DEF StreamInv
      <4> QED
        BY <1>1, <3>2, <4>1, StreamOthers
    <3> QED
      BY <3>1, <3>2
  <2> QED
    BY <1>1, <2>1 DEF StreamInv
<1>2. CASE RoomStep /\ UNCHANGED clientVars
  <2>1. CASE Start
    BY <1>2, <2>1, StreamStart
  <2>2. CASE PlayTimeout
    <3>1. CASE readyPlay
      <4>1. running = "up" /\ Play(inputMap) /\ UNCHANGED <<connected, running>>
        BY <2>2, <3>1 DEF PlayTimeout
      <4>2. inputMap \in PlayData
        BY DEF TypeOK, RoomTypeOK
      <4> QED
        BY <1>2, <4>1, <4>2, StreamPlay
    <3>2. CASE ~readyPlay
      <4>1. UNCHANGED streamVars
        BY <1>2, <2>2, <3>2 DEF PlayTimeout, streamVars, clientVars
      <4> QED
        BY <4>1, StreamStutter
    <3> QED
      BY <3>1, <3>2
  <2>3. CASE Exit
    <3>1. running = "up" /\ running' = "gone"
          /\ UNCHANGED <<down, connected, log, online, applied, playDataList>>
      BY <1>2, <2>3 DEF Exit, wireVars, clientVars
    <3>2. ASSUME NEW q \in Players PROVE StreamOf(q)'
      BY <3>1 DEF StreamInv, StreamOf, TakenFromLog, ComingFromLog, StartThenLog, Taken
    <3> QED
      BY <3>1, <3>2 DEF StreamInv
  <2>4. CASE Tick \/ \E p \in Players : ReceiveComparison(p)
    <3>1. UNCHANGED streamVars
      BY <1>2, <2>4 DEF Tick, ReceiveComparison, streamVars, clientVars, wireVars
    <3> QED
      BY <3>1, StreamStutter
  <2>5. ASSUME NEW p \in Players, ReceiveInput(p) PROVE StreamInv'
    <3> DEFINE f      == Head(up[p]).frame
               inputs == [inputMap EXCEPT ![p] = f]
    <3>1. /\ running = "up" /\ UNCHANGED <<connected, running>>
          /\ up[p] # <<>> /\ Head(up[p]).kind = "input"
          /\ Play(inputs) \/ Arm(inputs) \/ Keep(inputs)
      BY <2>5 DEF ReceiveInput
    <3>2. CASE Play(inputs)
      <4>1. Head(up[p]) \in UpMsg
        BY <3>1, TakenType DEF TypeOK, WireTypeOK
      <4>2. inputs \in PlayData
        BY <4>1 DEF UpMsg, TypeOK, RoomTypeOK, PlayData
      <4> QED
        BY <1>2, <3>1, <3>2, <4>2, StreamPlay
    <3>3. CASE Arm(inputs) \/ Keep(inputs)
      <4>1. UNCHANGED <<down, log>>
        BY <3>3 DEF Arm, Keep
      <4>2. UNCHANGED streamVars
        BY <1>2, <3>1, <4>1 DEF streamVars, clientVars
      <4> QED
        BY <4>2, StreamStutter
    <3> QED
      BY <3>1, <3>2, <3>3
  <2> QED
    BY <1>2, <2>1, <2>2, <2>3, <2>4, <2>5 DEF RoomStep
<1>3. ASSUME NEW p \in Players, ClientStep(p), UNCHANGED roomVars
      PROVE  StreamInv'
  <2>0. UNCHANGED <<running, log>>
    BY <1>3 DEF roomVars
  <2>1. CASE OnStart(p)
    <3>1. StreamOf(p)'
      BY <1>3, <2>1, StreamOnStart
    <3> QED
      BY <1>1, <2>0, <2>1, <3>1 DEF OnStart, TypeOK, WireTypeOK, NetworkmgrTypeOK
  <2>2. CASE OnReceivePlayData(p)
    <3>1. StreamOf(p)'
      BY <1>3, <2>2, StreamOnReceive
    <3> QED
      BY <1>1, <2>0, <2>2, <3>1 DEF OnReceivePlayData, TypeOK, WireTypeOK, NetworkmgrTypeOK
  <2>3. CASE Polled(p)
    <3>1. UNCHANGED streamVars
      BY <2>0, <2>3 DEF Polled, streamVars, wireVars
    <3> QED
      BY <3>1, StreamStutter
  <2>4. CASE CatchUp(p) \/ Lock(p)
    <3>1. PICK inLoop \in BOOLEAN : LockUpdate(p, inLoop)
      BY <2>4 DEF CatchUp, Lock
    <3>2. UNCHANGED <<down, connected, online>>
      BY <2>4 DEF CatchUp, Lock
    <3>3. CASE LockIdle(p) \/ LockTick(p)
      <4>1. UNCHANGED streamVars
        BY <2>0, <3>2, <3>3 DEF LockIdle, LockTick, streamVars
      <4> QED
        BY <4>1, StreamStutter
    <3>4. CASE LockPlay(p, inLoop)
      <4>1. StreamOf(p)'
        BY <2>0, <3>2, <3>4, StreamLockPlay
      <4>2. /\ applied' = [applied EXCEPT ![p] = Append(@, Head(playDataList[p]))]
            /\ playDataList' = [playDataList EXCEPT ![p] = Tail(@)]
        BY <3>4 DEF LockPlay
      <4> QED
        BY <1>1, <2>0, <3>2, <4>1, <4>2 DEF TypeOK, NetworkmgrTypeOK
    <3> QED
      BY <3>1, <3>3, <3>4 DEF LockUpdate
  <2> QED
    BY <1>3, <2>1, <2>2, <2>3, <2>4 DEF ClientStep
<1>4. ASSUME NEW p \in Players, Leave(p), UNCHANGED roomVars
      PROVE  StreamInv'
  <2>1. StreamOf(p)'
    BY <1>4, StreamLeave
  <2>2. UNCHANGED <<running, log>>
    BY <1>4 DEF roomVars
  <2> QED
    BY <1>1, <1>4, <2>1, <2>2 DEF Leave, clientVars, TypeOK, WireTypeOK
<1>5. CASE UNCHANGED vars
  <2>1. UNCHANGED streamVars
    BY <1>5 DEF vars, streamVars, wireVars, roomVars, clientVars
  <2> QED
    BY <2>1, StreamStutter
<1> QED
  BY <1>2, <1>3, <1>4, <1>5 DEF Next

\* From elements to sequences.
LEMMA StreamWhole ==
  ASSUME TypeOK, StreamInv
  PROVE  StreamIntact
<1> USE DEF TypeOK, WireTypeOK, RoomTypeOK, NetworkmgrTypeOK
<1> SUFFICES ASSUME NEW p \in Players, online[p]
             PROVE  /\ IsPrefixOf(applied[p] \o playDataList[p], log)
                    /\ connected[p] => applied[p] \o playDataList[p] \o InFlight(p) = log
  BY DEF StreamIntact
<1> DEFINE s == applied[p] \o playDataList[p]
<1>1. /\ s \in Seq(PlayData) /\ Len(s) = Taken(p)
      /\ Len(applied[p]) \in Nat /\ Len(playDataList[p]) \in Nat /\ Len(log) \in Nat
  BY DEF Taken
<1>2. TakenFromLog(p) /\ (connected[p] => ComingFromLog(p))
  BY DEF StreamInv, StreamOf
<1>3. ASSUME NEW i \in 1..Len(s) PROVE s[i] = log[i]
  <2>1. CASE i \in 1..Len(applied[p])
    <3>1. s[i] = applied[p][i]
      BY <1>1, <2>1
    <3> QED
      BY <1>2, <2>1, <3>1 DEF TakenFromLog
  <2>2. CASE i \notin 1..Len(applied[p])
    <3>1. i - Len(applied[p]) \in 1..Len(playDataList[p])
      BY <1>1, <2>2 DEF Taken
    <3>2. s[i] = playDataList[p][i - Len(applied[p])]
      BY <1>1, <2>2
    <3>3. Len(applied[p]) + (i - Len(applied[p])) = i
      BY <1>1
    <3> QED
      BY <1>2, <3>1, <3>2, <3>3 DEF TakenFromLog
  <2> QED
    BY <2>1, <2>2
<1>4. IsPrefixOf(s, log)
  BY <1>1, <1>2, <1>3 DEF IsPrefixOf, TakenFromLog
<1> HIDE DEF s
<1>5. ASSUME connected[p]
      PROVE  s \o InFlight(p) = log
  <2> DEFINE t == InFlight(p)
             n == Len(down[p])
  <2>1. /\ n \in Nat /\ Len(s) \in Nat /\ n = Len(log) - Len(s)
        /\ \A i \in 1..n : down[p][i] = PlayMsg(log[Len(s) + i])
    BY <1>1, <1>2, <1>5 DEF ComingFromLog
  <2>2. ASSUME NEW i \in 1..n
        PROVE  down[p][i].data = log[Len(s) + i] /\ log[Len(s) + i] \in PlayData
    <3>1. down[p][i].data = log[Len(s) + i]
      <4>1. down[p][i] = PlayMsg(log[Len(s) + i])
        BY <2>1
      <4> QED
        BY <4>1 DEF PlayMsg
    <3>2. Len(s) + i \in 1..Len(log)
      BY <1>1, <2>1
    <3>3. log[Len(s) + i] \in PlayData
      BY <3>2
    <3> QED
      BY <3>1, <3>3
  <2>3. t = [i \in 1..n |-> down[p][i].data]
    BY DEF InFlight
  <2> HIDE DEF t, n
  <2>4. t \in Seq(PlayData) /\ Len(t) = n
    <3>1. \A i \in 1..n : down[p][i].data \in PlayData
      BY <2>2
    <3>2. t \in [1..n -> PlayData]
      BY <2>3, <3>1
    <3>3. n \in Nat
      BY <2>1
    <3> QED
      BY ONLY <3>2, <3>3, SeqOfFunction
  <2>5. \A i \in 1..Len(t) : t[i] = log[Len(s) + i]
    BY <2>2, <2>3, <2>4
  <2>6. Len(s) + Len(t) = Len(log) /\ log \in Seq(PlayData)
    BY <1>1, <2>1, <2>4
  <2>7. s \o t = log
    BY <1>1, <1>3, <2>4, <2>5, <2>6, SeqGlued
  <2> QED
    BY <2>7 DEF t
<1> QED
  BY <1>4, <1>5 DEF s

\* No PlayData is lost, doubled or left over (room.lua Play, Networkmgr.cs
\* OnStart, OnReceivePlayData, LockUpdate), for every number of players,
\* every interval and whatever an earlier match left in playDataList.
THEOREM Intact == Spec => []StreamIntact
<1>1. TypeOK /\ StreamInv => StreamIntact
  BY StreamWhole
<1> QED
  BY <1>1, StreamInit, StreamStep, Typing, PTL DEF Spec

-----------------------------------------------------------------------------
(***************************************************************************)
(* The match implements FrameLog, for every set of players, every interval *)
(* and every bound.  What makes it true is the order of inputs: those on   *)
(* their way to the room are newer than the one it holds, which is newer   *)
(* than all that it has played.                                            *)
(***************************************************************************)

-----------------------------------------------------------------------------
(* Inputs on their way: each newer than the one before it, newer than lo   *)
(* and not newer than hi.                                                  *)

Between(u, lo, hi) ==
  \A i \in 1..Len(u) : u[i].kind = "input" => lo < u[i].frame /\ u[i].frame <= hi

Rising(u) ==
  \A i, j \in 1..Len(u) :
     j < i /\ u[j].kind = "input" /\ u[i].kind = "input" => u[j].frame < u[i].frame

Coming(u, lo, hi) == Between(u, lo, hi) /\ Rising(u)

LEMMA UpFrame ==
  ASSUME NEW u \in Seq(UpMsg), NEW i \in 1..Len(u)
  PROVE  u[i].frame \in Nat
<1>1. u[i] \in UpMsg
  OBVIOUS
<1> QED
  BY <1>1 DEF UpMsg

\* Messages are taken off either end, or none are.
LEMMA ComingKept ==
  ASSUME NEW u \in Seq(UpMsg), NEW v \in Seq(UpMsg), NEW s \in Nat,
         \A i \in 1..Len(v) : i + s \in 1..Len(u) /\ v[i] = u[i + s],
         NEW lo \in Nat, NEW hi \in Nat, Coming(u, lo, hi)
  PROVE  Coming(v, lo, hi)
<1>1. Between(v, lo, hi)
  BY DEF Coming, Between
<1>2. ASSUME NEW i \in 1..Len(v), NEW j \in 1..Len(v), j < i,
             v[j].kind = "input", v[i].kind = "input"
      PROVE  v[j].frame < v[i].frame
  <2>1. /\ i + s \in 1..Len(u) /\ v[i] = u[i + s]
        /\ j + s \in 1..Len(u) /\ v[j] = u[j + s]
    OBVIOUS
  <2>2. j + s < i + s
    BY <1>2
  <2> QED
    BY <1>2, <2>1, <2>2 DEF Coming, Rising
<1> QED
  BY <1>1, <1>2 DEF Coming, Rising

\* The first message, an input, is taken: the others are newer.
LEMMA ComingTaken ==
  ASSUME NEW u \in Seq(UpMsg), u # <<>>, Head(u).kind = "input",
         NEW lo \in Nat, NEW hi \in Nat, Coming(u, lo, hi)
  PROVE  /\ Head(u).frame \in Nat /\ lo < Head(u).frame /\ Head(u).frame <= hi
         /\ Coming(Tail(u), Head(u).frame, hi)
<1>1. 1 \in 1..Len(u) /\ Head(u) = u[1] /\ Tail(u) \in Seq(UpMsg)
  OBVIOUS
<1>2. Head(u).frame \in Nat
  BY <1>1, UpFrame
<1>3. lo < Head(u).frame /\ Head(u).frame <= hi
  BY <1>1 DEF Coming, Between
<1>4. \A i \in 1..Len(Tail(u)) : i + 1 \in 1..Len(u) /\ Tail(u)[i] = u[i + 1]
  OBVIOUS
<1>5. Rising(Tail(u))
  BY <1>1, <1>4, ComingKept DEF Coming
<1>6. ASSUME NEW i \in 1..Len(Tail(u)), Tail(u)[i].kind = "input"
      PROVE  Head(u).frame < Tail(u)[i].frame /\ Tail(u)[i].frame <= hi
  <2>1. i + 1 \in 1..Len(u) /\ 1 < i + 1 /\ Tail(u)[i] = u[i + 1]
    BY <1>4
  <2>2. u[i + 1].kind = "input"
    BY <1>6, <2>1
  <2>3. u[1].frame < u[i + 1].frame
    BY <1>1, <2>1, <2>2 DEF Coming, Rising
  <2>4. u[i + 1].frame <= hi
    BY <2>1, <2>2 DEF Coming, Between
  <2> QED
    BY <1>1, <2>1, <2>3, <2>4
<1> QED
  BY <1>2, <1>3, <1>5, <1>6 DEF Coming, Between

\* An input made for the next frame is the newest; comparisons do not count.
LEMMA ComingSent ==
  ASSUME NEW u \in Seq(UpMsg), NEW v \in Seq(UpMsg),
         NEW lo \in Nat, NEW hi \in Nat, lo <= hi, Coming(u, lo, hi),
         \A i \in 1..Len(v) : v[i].kind = "input" => i = 1 /\ v[i].frame = hi + 1
  PROVE  Coming(u \o v, lo, hi + 1)
<1> DEFINE w == u \o v
<1>1. w \in Seq(UpMsg) /\ Len(w) = Len(u) + Len(v) /\ Len(u) \in Nat /\ Len(v) \in Nat
  OBVIOUS
<1>2. ASSUME NEW i \in 1..Len(w), i <= Len(u) PROVE i \in 1..Len(u) /\ w[i] = u[i]
  BY <1>2
<1>3. ASSUME NEW i \in 1..Len(w), i > Len(u)
      PROVE  i - Len(u) \in 1..Len(v) /\ w[i] = v[i - Len(u)]
  BY <1>3
<1> HIDE DEF w
<1>4. ASSUME NEW i \in 1..Len(w), w[i].kind = "input"
      PROVE  lo < w[i].frame /\ w[i].frame <= hi + 1
  <2>1. CASE i <= Len(u)
    <3>1. lo < u[i].frame /\ u[i].frame <= hi
      BY <1>2, <1>4, <2>1 DEF Coming, Between
    <3>2. u[i].frame \in Nat
      BY <1>2, <2>1, UpFrame
    <3> QED
      BY <1>2, <2>1, <3>1, <3>2
  <2>2. CASE i > Len(u)
    <3>1. w[i].frame = hi + 1
      BY <1>3, <1>4, <2>2
    <3> QED
      BY <3>1
  <2> QED
    BY <1>1, <2>1, <2>2
<1>5. ASSUME NEW i \in 1..Len(w), NEW j \in 1..Len(w), j < i,
             w[j].kind = "input", w[i].kind = "input"
      PROVE  w[j].frame < w[i].frame
  <2>1. CASE i <= Len(u)
    <3>1. j <= Len(u)
      BY <1>1, <1>5, <2>1
    <3>2. i \in 1..Len(u) /\ w[i] = u[i] /\ j \in 1..Len(u) /\ w[j] = u[j]
      BY <1>2, <2>1, <3>1
    <3> QED
      BY <1>5, <3>2 DEF Coming, Rising
  <2>2. CASE i > Len(u)
    <3>1. w[i].frame = hi + 1 /\ i - Len(u) = 1
      BY <1>3, <1>5, <2>2
    <3>2. j <= Len(u)
      BY <1>1, <1>5, <3>1
    <3>3. j \in 1..Len(u) /\ w[j] = u[j]
      BY <1>2, <3>2
    <3>4. w[j].frame <= hi /\ w[j].frame \in Nat
      BY <1>5, <3>3, UpFrame DEF Coming, Between
    <3> QED
      BY <3>1, <3>4
  <2> QED
    BY <1>1, <2>1, <2>2
<1> QED
  BY <1>4, <1>5 DEF Coming, Between, Rising, w

-----------------------------------------------------------------------------
(* The invariant.                                                          *)

\* lo is the newest input of p that the room has taken: it holds no newer
\* one, has played no newer one, and all on their way are newer, made for
\* frames that p has entered.
OrderOf(p, lo) ==
  /\ lo <= seen[p]
  /\ Coming(up[p], lo, seen[p])
  /\ inputMap[p] <= lo
  /\ \A k \in 1..Len(log) :
       log[k][p] <= lo /\ (inputMap[p] # NoInput => log[k][p] < inputMap[p])

LogInv ==
  /\ roomFrame = Len(log)
  /\ readyPlay => \E p \in Players : inputMap[p] = roomFrame
  /\ \A p \in Players : \E lo \in Nat : OrderOf(p, lo)

\* What the steps rest on.
MatchInv == TypeOK /\ TickAligned /\ StreamInv /\ LogInv

\* The types of what the order is about.
LEMMA OrderTypes ==
  ASSUME TypeOK, NEW q \in Players
  PROVE  /\ seen \in [Players -> Nat] /\ seen[q] \in Nat /\ inputMap[q] \in Nat
         /\ up[q] \in Seq(UpMsg) /\ log \in Seq(PlayData)
         /\ \A k \in 1..Len(log) : log[k][q] \in Nat
<1>1. seen \in [Players -> Nat]
  BY DEF TypeOK, NetworkmgrTypeOK, seen
<1>2. inputMap[q] \in Nat /\ up[q] \in Seq(UpMsg) /\ log \in Seq(PlayData)
  BY DEF TypeOK, WireTypeOK, RoomTypeOK, PlayData
<1>3. \A k \in 1..Len(log) : log[k] \in PlayData
  BY <1>2
<1> QED
  BY <1>1, <1>2, <1>3 DEF PlayData

\* No phone has read more than there is.
LEMMA SeenBound ==
  ASSUME TypeOK, TickAligned, StreamInv, NEW p \in Players
  PROVE  seen[p] <= Len(log)
<1> USE DEF TypeOK, RoomTypeOK, NetworkmgrTypeOK
<1>1. CASE online[p]
  <2>1. TakenFromLog(p) /\ Len(applied[p]) = playFrame[p]
    BY <1>1 DEF StreamInv, StreamOf, TickAligned
  <2> QED
    BY <1>1, <2>1 DEF TakenFromLog, Taken, seen
<1>2. CASE ~online[p]
  BY <1>2 DEF seen
<1> QED
  BY <1>1, <1>2

\* A phone that gets Start was not in a match: it has read nothing.
LEMMA SeenAtStart ==
  ASSUME TypeOK, StreamInv, NEW p \in Players, OnStart(p)
  PROVE  seen' = seen
<1>1. /\ connected[p] /\ down[p] # <<>> /\ Head(down[p]).kind = "start"
      /\ online' = [online EXCEPT ![p] = TRUE]
      /\ playFrame' = [playFrame EXCEPT ![p] = 0]
  BY DEF OnStart, Active
<1>2. down[p] \in Seq(DownMsg) /\ 1 \in 1..Len(down[p]) /\ Head(down[p]) = down[p][1]
  BY <1>1 DEF TypeOK, WireTypeOK
<1>3. ~online[p]
  <2> SUFFICES ASSUME online[p] PROVE FALSE
    OBVIOUS
  <2>1. ComingFromLog(p)
    BY <1>1 DEF StreamInv, StreamOf
  <2>2. down[p][1] = PlayMsg(log[Taken(p) + 1])
    BY <1>2, <2>1 DEF ComingFromLog
  <2> QED
    BY <1>1, <1>2, <2>2 DEF PlayMsg
<1> QED
  BY <1>1, <1>3 DEF seen, TypeOK, NetworkmgrTypeOK

-----------------------------------------------------------------------------
(* What a step does to the order of one player's inputs.                   *)

\* Nothing, but that messages may be taken off either end.
LEMMA OrderKept ==
  ASSUME TypeOK, TypeOK', NEW q \in Players, NEW lo \in Nat, OrderOf(q, lo), NEW s \in Nat,
         \A i \in 1..Len(up'[q]) : i + s \in 1..Len(up[q]) /\ up'[q][i] = up[q][i + s],
         seen'[q] = seen[q], log' = log, inputMap'[q] = inputMap[q]
  PROVE  OrderOf(q, lo)'
<1>1. /\ up[q] \in Seq(UpMsg) /\ up'[q] \in Seq(UpMsg) /\ seen[q] \in Nat
  <2>1. up'[q] \in Seq(UpMsg)
    BY DEF TypeOK, WireTypeOK
  <2> QED
    BY <2>1, OrderTypes
<1>2. Coming(up[q], lo, seen[q])
  BY DEF OrderOf
<1>3. Coming(up'[q], lo, seen[q])
  BY <1>1, <1>2, ComingKept
<1>4. Coming(up'[q], lo, seen'[q])
  BY <1>3
<1> QED
  BY <1>4 DEF OrderOf

\* The first message, an input, is taken and becomes the one held.
LEMMA OrderTaken ==
  ASSUME TypeOK, NEW q \in Players, NEW lo \in Nat, OrderOf(q, lo),
         up[q] # <<>>, Head(up[q]).kind = "input", up'[q] = Tail(up[q]),
         NEW f, f = Head(up[q]).frame,
         seen'[q] = seen[q], log' = log, inputMap'[q] = f
  PROVE  f \in Nat /\ lo < f /\ f <= seen[q] /\ OrderOf(q, f)'
<1>1. /\ up[q] \in Seq(UpMsg) /\ seen[q] \in Nat
      /\ \A k \in 1..Len(log) : log[k][q] \in Nat
  BY OrderTypes
<1>2. Coming(up[q], lo, seen[q])
  BY DEF OrderOf
<1>3. f \in Nat /\ lo < f /\ f <= seen[q] /\ Coming(Tail(up[q]), f, seen[q])
  BY <1>1, <1>2, ComingTaken
<1>4. ASSUME NEW k \in 1..Len(log) PROVE log[k][q] < f
  BY <1>1, <1>3 DEF OrderOf
<1>5. Coming(up'[q], f, seen'[q])
  BY <1>3
<1> QED
  BY <1>1, <1>3, <1>4, <1>5 DEF OrderOf

\* What is played for q is the input held: now it is a played one.
LEMMA OrderPlayed ==
  ASSUME TypeOK, NEW q \in Players, NEW lo \in Nat, OrderOf(q, lo),
         NEW d \in PlayData, log' = Append(log, d), d[q] = inputMap[q],
         up'[q] = up[q], seen'[q] = seen[q], inputMap'[q] = NoInput
  PROVE  OrderOf(q, lo)'
<1>1. /\ up[q] \in Seq(UpMsg) /\ seen[q] \in Nat /\ log \in Seq(PlayData)
      /\ d[q] \in Nat
  BY OrderTypes DEF PlayData
<1>2. lo <= seen'[q] /\ inputMap'[q] <= lo
  BY <1>1 DEF OrderOf, NoInput
<1>3. Coming(up'[q], lo, seen'[q])
  BY DEF OrderOf
<1>4. ASSUME NEW k \in 1..Len(log') PROVE log'[k][q] <= lo
  <2>1. CASE k = Len(log) + 1
    <3>1. log'[k] = d
      BY <1>1, <2>1
    <3> QED
      BY <3>1 DEF OrderOf
  <2>2. CASE k # Len(log) + 1
    <3>1. k \in 1..Len(log) /\ log'[k] = log[k]
      BY <1>1, <2>2
    <3> QED
      BY <3>1 DEF OrderOf
  <2> QED
    BY <2>1, <2>2
<1> QED
  BY <1>2, <1>3, <1>4 DEF OrderOf

\* Or the first message, an input.
LEMMA OrderPlayedTaken ==
  ASSUME TypeOK, NEW q \in Players, NEW lo \in Nat, OrderOf(q, lo),
         up[q] # <<>>, Head(up[q]).kind = "input", up'[q] = Tail(up[q]),
         NEW f, f = Head(up[q]).frame,
         NEW d \in PlayData, log' = Append(log, d), d[q] = f,
         seen'[q] = seen[q], inputMap'[q] = NoInput
  PROVE  f \in Nat /\ lo < f /\ f <= seen[q] /\ OrderOf(q, f)'
<1>1. /\ up[q] \in Seq(UpMsg) /\ seen[q] \in Nat /\ log \in Seq(PlayData)
      /\ \A k \in 1..Len(log) : log[k][q] \in Nat
  BY OrderTypes
<1>2. Coming(up[q], lo, seen[q])
  BY DEF OrderOf
<1>3. f \in Nat /\ lo < f /\ f <= seen[q] /\ Coming(Tail(up[q]), f, seen[q])
  BY <1>1, <1>2, ComingTaken
<1>4. ASSUME NEW k \in 1..Len(log') PROVE log'[k][q] <= f
  <2>1. CASE k = Len(log) + 1
    <3>1. log'[k] = d
      BY <1>1, <2>1
    <3> QED
      BY <1>3, <3>1
  <2>2. CASE k # Len(log) + 1
    <3>1. k \in 1..Len(log) /\ log'[k] = log[k]
      BY <1>1, <2>2
    <3>2. log[k][q] <= lo /\ log[k][q] \in Nat
      BY <1>1, <3>1 DEF OrderOf
    <3> QED
      BY <1>3, <3>1, <3>2
  <2> QED
    BY <2>1, <2>2
<1>5. Coming(up'[q], f, seen'[q])
  BY <1>3
<1>6. inputMap'[q] <= f /\ f <= seen'[q]
  BY <1>3 DEF NoInput
<1> QED
  BY <1>3, <1>4, <1>5, <1>6 DEF OrderOf, NoInput

\* Of two pieces with at most one element each.
LEMMA GluedElement ==
  ASSUME NEW S, NEW s \in Seq(S), NEW t \in Seq(S), Len(s) <= 1, Len(t) <= 1,
         NEW i \in 1..Len(s \o t)
  PROVE  \/ i = 1 /\ Len(s) = 1 /\ (s \o t)[i] = s[1]
         \/ Len(t) = 1 /\ (s \o t)[i] = t[1]
<1> DEFINE w == s \o t
           m == Len(s)
           n == Len(t)
<1>1. m \in Nat /\ n \in Nat /\ i \in 1..(m + n) /\ m <= 1 /\ n <= 1
  OBVIOUS
<1>2. \A k \in 1..m : w[k] = s[k]
  OBVIOUS
<1>3. \A k \in 1..n : w[m + k] = t[k]
  OBVIOUS
<1> HIDE DEF w, m, n
<1>4. CASE m = 1 /\ i = 1
  BY <1>1, <1>2, <1>4 DEF w, m
<1>5. CASE ~(m = 1 /\ i = 1)
  <2>1. n = 1 /\ i = m + 1
    BY <1>1, <1>5
  <2>2. w[m + 1] = t[1]
    BY <1>3, <2>1
  <2> QED
    BY <2>1, <2>2 DEF w, n
<1> QED
  BY <1>4, <1>5

LEMMA AtMostOne ==
  ASSUME NEW S, NEW m \in S, NEW a, a = <<m>> \/ a = <<>>
  PROVE  a \in Seq(S) /\ Len(a) <= 1 /\ (Len(a) = 1 => a[1] = m)
<1>1. CASE a = <<m>>
  BY <1>1
<1>2. CASE a = <<>>
  BY <1>2
<1> QED
  BY <1>1, <1>2

\* The phone enters a frame and may send an input made for it.
LEMMA OrderSent ==
  ASSUME TypeOK, NEW q \in Players, NEW lo \in Nat, OrderOf(q, lo),
         NEW inLoop \in BOOLEAN, LockPlay(q, inLoop), online' = online,
         log' = log, inputMap' = inputMap
  PROVE  seen' = [seen EXCEPT ![q] = @ + 1] /\ OrderOf(q, lo)'
<1> DEFINE f == playFrame[q] + 1
           v == Sent(q, inLoop)
<1>1. /\ online[q] /\ playDataList[q] # <<>>
      /\ up' = [up EXCEPT ![q] = @ \o v]
      /\ playFrame' = [playFrame EXCEPT ![q] = @ + 1]
  BY DEF LockPlay
<1>2. /\ up[q] \in Seq(UpMsg) /\ seen \in [Players -> Nat] /\ seen[q] \in Nat
      /\ up'[q] = up[q] \o v
  BY <1>1, OrderTypes DEF TypeOK, WireTypeOK
<1>3. seen[q] = playFrame[q] /\ f = seen[q] + 1
  BY <1>1 DEF seen
<1>4. seen' = [seen EXCEPT ![q] = @ + 1]
  BY <1>1 DEF seen, TypeOK, NetworkmgrTypeOK
<1>5. v \in Seq(UpMsg)
  BY <1>1, SentType
<1>6. ASSUME NEW i \in 1..Len(v), v[i].kind = "input"
      PROVE  i = 1 /\ v[i].frame = f
  <2> DEFINE c == [ticks |-> ticks[q], applied |-> Append(applied[q], Head(playDataList[q]))]
             m == InputMsg(f)
             n == ComparisonMsg(f, c)
             a == IF WillSend(q, inLoop) THEN <<m>> ELSE <<>>
             b == IF f > CompareFrame THEN <<n>> ELSE <<>>
  <2>1. v = a \o b
    BY DEF Sent
  <2>2. m.frame = f /\ n.kind = "comparison"
    BY DEF InputMsg, ComparisonMsg
  <2> HIDE DEF m, n, c, f, v
  <2>3. /\ a \in Seq({m, n}) /\ Len(a) <= 1 /\ (Len(a) = 1 => a[1] = m)
        /\ b \in Seq({m, n}) /\ Len(b) <= 1 /\ (Len(b) = 1 => b[1] = n)
    <3>1. a = <<m>> \/ a = <<>>
      OBVIOUS
    <3>2. b = <<n>> \/ b = <<>>
      OBVIOUS
    <3> HIDE DEF a, b
    <3> QED
      BY <3>1, <3>2, AtMostOne
  <2>4. \/ i = 1 /\ v[i] = m
        \/ v[i] = n
    BY <2>1, <2>3, GluedElement
  <2> QED
    BY <1>6, <2>2, <2>4
<1> HIDE DEF v, f
<1>7. Coming(up[q], lo, seen[q]) /\ lo <= seen[q]
  BY DEF OrderOf
<1>8. Coming(up[q] \o v, lo, seen[q] + 1)
  BY <1>2, <1>3, <1>5, <1>6, <1>7, ComingSent
<1>9. seen'[q] = seen[q] + 1 /\ lo <= seen'[q]
  BY <1>2, <1>4, <1>7
<1>10. Coming(up'[q], lo, seen'[q])
  BY <1>2, <1>8, <1>9
<1> QED
  BY <1>4, <1>9, <1>10 DEF OrderOf

-----------------------------------------------------------------------------
(* The invariant holds.                                                    *)

LEMMA LogInit == Init => LogInv
<1> SUFFICES ASSUME Init PROVE LogInv
  OBVIOUS
<1>1. /\ up = [p \in Players |-> <<>>] /\ inputMap = NoInputs /\ log = <<NoInputs>>
      /\ roomFrame = 1 /\ readyPlay = FALSE /\ online = [p \in Players |-> FALSE]
  BY DEF Init, WireInit, RoomInit, NetworkmgrInit
<1>2. ASSUME NEW p \in Players PROVE OrderOf(p, 0)
  <2>1. up[p] = <<>> /\ seen[p] = 0 /\ inputMap[p] = 0
    BY <1>1 DEF seen, NoInputs, NoInput
  <2>2. Coming(up[p], 0, seen[p])
    BY <2>1 DEF Coming, Between, Rising
  <2>3. \A k \in 1..Len(log) : log[k][p] = 0
    BY <1>1 DEF NoInputs, NoInput
  <2> QED
    BY <2>1, <2>2, <2>3 DEF OrderOf, NoInput
<1> QED
  BY <1>1, <1>2 DEF LogInv

\* A player whose input held and whose reading do not change, and of whose
\* messages perhaps some are taken off one end.
LEMMA OrderStays ==
  ASSUME TypeOK, TypeOK', LogInv, NEW q \in Players,
         seen'[q] = seen[q], log' = log, inputMap'[q] = inputMap[q],
         \/ up'[q] = up[q]
         \/ up[q] # <<>> /\ up'[q] = Tail(up[q])
         \/ \E n \in 0..Len(up[q]) : up'[q] = SubSeq(up[q], 1, n)
  PROVE  (\E lo \in Nat : OrderOf(q, lo))'
<1>1. PICK lo \in Nat : OrderOf(q, lo)
  BY DEF LogInv
<1>2. up[q] \in Seq(UpMsg)
  BY OrderTypes
<1>3. PICK s \in Nat : \A i \in 1..Len(up'[q]) : i + s \in 1..Len(up[q]) /\ up'[q][i] = up[q][i + s]
  <2>1. CASE up'[q] = up[q]
    <3>1. \A i \in 1..Len(up'[q]) : i + 0 \in 1..Len(up[q]) /\ up'[q][i] = up[q][i + 0]
      BY <1>2, <2>1
    <3> QED
      BY <3>1
  <2>2. CASE up[q] # <<>> /\ up'[q] = Tail(up[q])
    <3>1. \A i \in 1..Len(up'[q]) : i + 1 \in 1..Len(up[q]) /\ up'[q][i] = up[q][i + 1]
      BY <1>2, <2>2
    <3> QED
      BY <3>1
  <2>3. CASE \E n \in 0..Len(up[q]) : up'[q] = SubSeq(up[q], 1, n)
    <3>1. PICK n \in 0..Len(up[q]) : up'[q] = SubSeq(up[q], 1, n)
      BY <2>3
    <3>2. \A i \in 1..Len(up'[q]) : i + 0 \in 1..Len(up[q]) /\ up'[q][i] = up[q][i + 0]
      BY <1>2, <3>1
    <3> QED
      BY <3>2
  <2> QED
    BY <2>1, <2>2, <2>3
<1>4. OrderOf(q, lo)'
  BY <1>1, <1>3, OrderKept
<1> QED
  BY <1>4

\* A PlayData of inputs made in time, none of them used before, one of them
\* for the current frame, is a decision of the frame log.
LEMMA Decides ==
  ASSUME MatchInv, NEW d \in PlayData, log' = Append(log, d), seen' = seen,
         \A q \in Players : /\ d[q] <= seen[q]
                            /\ d[q] # NoInput => \A k \in 1..Len(log) : log[k][q] < d[q],
         \E q \in Players : d[q] = roomFrame
  PROVE  Abstract!Decide
<1>1. \A q \in Players : d[q] \in 0..Len(log)
  <2> TAKE q \in Players
  <2>1. seen[q] <= Len(log) /\ seen[q] \in Nat /\ d[q] \in Nat
    BY SeenBound, OrderTypes DEF MatchInv, PlayData
  <2>2. Len(log) \in Nat
    BY DEF MatchInv, TypeOK, RoomTypeOK
  <2> QED
    BY <2>1, <2>2
<1>2. d \in [Players -> 0..Len(log)]
  BY <1>1 DEF PlayData
<1>3. \E q \in Players : d[q] = Len(log)
  BY DEF MatchInv, LogInv
<1>4. \A q \in Players : Abstract!Fresh(d, q) /\ d[q] <= seen[q]
  BY DEF Abstract!Fresh, Abstract!NoInput, NoInput
<1> QED
  BY <1>2, <1>3, <1>4 DEF Abstract!Decide

\* The room plays what it holds.
LEMMA PlayHeld ==
  ASSUME MatchInv, TypeOK', readyPlay, Play(inputMap), up' = up, UNCHANGED clientVars
  PROVE  LogInv' /\ Abstract!Decide
<1>1. /\ TypeOK /\ inputMap \in PlayData /\ log \in Seq(PlayData)
      /\ log' = Append(log, inputMap) /\ inputMap' = NoInputs
      /\ readyPlay' = FALSE /\ roomFrame' = roomFrame + 1
  BY DEF MatchInv, TypeOK, RoomTypeOK, Play
<1>2. seen' = seen
  BY DEF clientVars, seen
<1>3. ASSUME NEW q \in Players
      PROVE  /\ (\E lo \in Nat : OrderOf(q, lo))'
             /\ inputMap[q] <= seen[q]
             /\ inputMap[q] # NoInput => \A k \in 1..Len(log) : log[k][q] < inputMap[q]
  <2>1. PICK lo \in Nat : OrderOf(q, lo)
    BY DEF MatchInv, LogInv
  <2>2. inputMap'[q] = NoInput
    BY <1>1 DEF NoInputs
  <2>3. OrderOf(q, lo)'
    BY <1>1, <1>2, <2>1, <2>2, OrderPlayed
  <2>4. inputMap[q] \in Nat /\ seen[q] \in Nat
    BY <1>1, OrderTypes
  <2> QED
    BY <2>1, <2>3, <2>4 DEF OrderOf
<1>4. \E q \in Players : inputMap[q] = roomFrame
  BY DEF MatchInv, LogInv
<1>5. Abstract!Decide
  BY <1>1, <1>2, <1>3, <1>4, Decides
<1>6. roomFrame' = Len(log')
  BY <1>1 DEF MatchInv, LogInv
<1> QED
  BY <1>1, <1>3, <1>5, <1>6 DEF LogInv

\* The room plays at once with the input it has just received.
LEMMA PlayReceived ==
  ASSUME MatchInv, TypeOK', NEW p \in Players, up[p] # <<>>, Head(up[p]).kind = "input",
         up' = [up EXCEPT ![p] = Tail(@)], NEW f, f = Head(up[p]).frame, f = roomFrame,
         Play([inputMap EXCEPT ![p] = f]), UNCHANGED clientVars
  PROVE  LogInv' /\ Abstract!Decide
<1> DEFINE d == [inputMap EXCEPT ![p] = f]
<1>1. /\ TypeOK /\ inputMap \in PlayData /\ log \in Seq(PlayData) /\ f \in Nat
      /\ up'[p] = Tail(up[p]) /\ \A q \in Players \ {p} : up'[q] = up[q]
  BY DEF MatchInv, TypeOK, WireTypeOK, RoomTypeOK
<1>2. /\ log' = Append(log, d) /\ inputMap' = NoInputs
      /\ readyPlay' = FALSE /\ roomFrame' = roomFrame + 1
  BY DEF Play
<1>3. d \in PlayData /\ d[p] = f /\ \A q \in Players \ {p} : d[q] = inputMap[q]
  BY <1>1 DEF PlayData
<1> HIDE DEF d
<1>4. seen' = seen
  BY DEF clientVars, seen
<1>5. ASSUME NEW q \in Players
      PROVE  /\ (\E lo \in Nat : OrderOf(q, lo))'
             /\ d[q] <= seen[q]
             /\ d[q] # NoInput => \A k \in 1..Len(log) : log[k][q] < d[q]
  <2>1. PICK lo \in Nat : OrderOf(q, lo)
    BY DEF MatchInv, LogInv
  <2>2. inputMap'[q] = NoInput
    BY <1>2 DEF NoInputs
  <2>3. /\ inputMap[q] \in Nat /\ seen[q] \in Nat
        /\ \A k \in 1..Len(log) : log[k][q] \in Nat
    BY <1>1, OrderTypes
  <2>4. CASE q = p
    <3>1. lo < f /\ f <= seen[q] /\ OrderOf(q, f)'
      BY <1>1, <1>2, <1>3, <1>4, <2>1, <2>2, <2>4, OrderPlayedTaken
    <3>2. \A k \in 1..Len(log) : log[k][q] < f
      BY <1>1, <2>1, <2>3, <3>1 DEF OrderOf
    <3> QED
      BY <1>1, <1>3, <2>4, <3>1, <3>2
  <2>5. CASE q # p
    <3>1. OrderOf(q, lo)'
      BY <1>1, <1>2, <1>3, <1>4, <2>1, <2>2, <2>5, OrderPlayed
    <3> QED
      BY <1>3, <2>1, <2>3, <2>5, <3>1 DEF OrderOf
  <2> QED
    BY <2>4, <2>5
<1>6. \E q \in Players : d[q] = roomFrame
  BY <1>3
<1>7. Abstract!Decide
  BY <1>2, <1>3, <1>4, <1>5, <1>6, Decides
<1>8. roomFrame' = Len(log')
  BY <1>1, <1>2, <1>3 DEF MatchInv, LogInv
<1> QED
  BY <1>2, <1>5, <1>7, <1>8 DEF LogInv

-----------------------------------------------------------------------------
(* Every step keeps the invariant and is one of the frame log's.           *)

\* A step of the room that plays nothing.
LEMMA RoomKeeps ==
  ASSUME TypeOK, TypeOK', LogInv, UNCHANGED <<seen, log, roomFrame, readyPlay, inputMap>>,
         \/ up' = up
         \/ \E p \in Players : up[p] # <<>> /\ up' = [up EXCEPT ![p] = Tail(@)]
  PROVE  LogInv'
<1>1. ASSUME NEW q \in Players PROVE (\E lo \in Nat : OrderOf(q, lo))'
  <2>1. \/ up'[q] = up[q]
        \/ up[q] # <<>> /\ up'[q] = Tail(up[q])
    BY DEF TypeOK, WireTypeOK
  <2> QED
    BY <2>1, OrderStays
<1> QED
  BY <1>1 DEF LogInv

\* The room takes an input and plays nothing.
LEMMA InputHeld ==
  ASSUME MatchInv, TypeOK', NEW p \in Players, up[p] # <<>>, Head(up[p]).kind = "input",
         up' = [up EXCEPT ![p] = Tail(@)], NEW f, f = Head(up[p]).frame,
         UNCHANGED <<seen, log, roomFrame>>, inputMap' = [inputMap EXCEPT ![p] = f],
         \/ f = roomFrame
         \/ f # roomFrame /\ readyPlay' = readyPlay
  PROVE  LogInv'
<1>1. /\ TypeOK /\ up'[p] = Tail(up[p]) /\ \A q \in Players \ {p} : up'[q] = up[q]
      /\ inputMap'[p] = f /\ \A q \in Players \ {p} : inputMap'[q] = inputMap[q]
  BY DEF MatchInv, TypeOK, WireTypeOK, RoomTypeOK, PlayData
<1>2. PICK lo \in Nat : OrderOf(p, lo)
  BY DEF MatchInv, LogInv
<1>3. f \in Nat /\ lo < f /\ f <= seen[p] /\ OrderOf(p, f)'
  BY <1>1, <1>2, OrderTaken
<1>4. ASSUME NEW q \in Players PROVE (\E l \in Nat : OrderOf(q, l))'
  <2>1. CASE q = p
    BY <1>3, <2>1
  <2>2. CASE q # p
    BY <1>1, <2>2, OrderStays DEF MatchInv
  <2> QED
    BY <2>1, <2>2
<1>5. ASSUME readyPlay' PROVE \E q \in Players : inputMap'[q] = roomFrame'
  <2>1. CASE f = roomFrame
    BY <1>1, <2>1
  <2>2. CASE f # roomFrame
    \* The input held for the current frame is not p's: p has nothing newer
    \* on its way.
    <3>1. PICK q \in Players : inputMap[q] = roomFrame
      BY <1>5, <2>2 DEF MatchInv, LogInv
    <3>2. q # p
      <4> SUFFICES ASSUME q = p PROVE FALSE
        OBVIOUS
      <4>1. seen[p] <= Len(log) /\ roomFrame = Len(log) /\ Len(log) \in Nat
        BY <1>1, SeenBound DEF MatchInv, LogInv, TypeOK, RoomTypeOK
      <4>2. inputMap[p] <= lo /\ inputMap[p] \in Nat /\ seen[p] \in Nat
        BY <1>1, <1>2, OrderTypes DEF OrderOf
      <4> QED
        BY <1>3, <3>1, <4>1, <4>2
    <3> QED
      BY <1>1, <3>1, <3>2
  <2> QED
    BY <2>1, <2>2
<1> QED
  BY <1>4, <1>5 DEF MatchInv, LogInv

\* One step: the invariant, and the step of the frame log it is.
Refines == Abstract!Decide \/ (\E p \in Players : Abstract!Read(p)) \/ UNCHANGED <<log, seen>>

LEMMA RoomRefines ==
  ASSUME MatchInv, TypeOK', RoomStep, UNCHANGED clientVars
  PROVE  LogInv' /\ Refines
<1>1. TypeOK /\ LogInv /\ seen' = seen
  BY DEF MatchInv, clientVars, seen
<1>2. CASE Start \/ Exit \/ Tick
  <2>1. UNCHANGED <<up, log, roomFrame, readyPlay, inputMap>>
    BY <1>2 DEF Start, Exit, Tick, wireVars
  <2> QED
    BY <1>1, <2>1, RoomKeeps DEF Refines
<1>3. CASE PlayTimeout
  <2>1. CASE readyPlay
    <3>1. Play(inputMap) /\ up' = up
      BY <1>3, <2>1 DEF PlayTimeout
    <3> QED
      BY <2>1, <3>1, PlayHeld DEF Refines
  <2>2. CASE ~readyPlay
    <3>1. UNCHANGED <<up, log, roomFrame, readyPlay, inputMap>>
      BY <1>3, <2>2 DEF PlayTimeout
    <3> QED
      BY <1>1, <3>1, RoomKeeps DEF Refines
  <2> QED
    BY <2>1, <2>2
<1>4. ASSUME NEW p \in Players, ReceiveInput(p) PROVE LogInv' /\ Refines
  <2> DEFINE f == Head(up[p]).frame
             d == [inputMap EXCEPT ![p] = f]
  <2>1. /\ up[p] # <<>> /\ Head(up[p]).kind = "input"
        /\ up' = [up EXCEPT ![p] = Tail(@)]
    BY <1>4 DEF ReceiveInput
  <2>2. \/ f = roomFrame /\ Play(d)
        \/ f = roomFrame /\ Arm(d)
        \/ f # roomFrame /\ Keep(d)
    BY <1>4 DEF ReceiveInput
  <2>3. CASE f = roomFrame /\ Play(d)
    BY <2>1, <2>3, PlayReceived DEF Refines
  <2>4. CASE (f = roomFrame /\ Arm(d)) \/ (f # roomFrame /\ Keep(d))
    <3>1. /\ UNCHANGED <<log, roomFrame>> /\ inputMap' = d
          /\ f = roomFrame \/ (f # roomFrame /\ readyPlay' = readyPlay)
      BY <2>4 DEF Arm, Keep
    <3>2. LogInv'
      BY <1>1, <2>1, <3>1, InputHeld
    <3> QED
      BY <1>1, <3>1, <3>2 DEF Refines
  <2> QED
    BY <2>2, <2>3, <2>4
<1>5. ASSUME NEW p \in Players, ReceiveComparison(p) PROVE LogInv' /\ Refines
  <2>1. /\ up[p] # <<>> /\ up' = [up EXCEPT ![p] = Tail(@)]
        /\ UNCHANGED <<log, roomFrame, readyPlay, inputMap>>
    BY <1>5 DEF ReceiveComparison
  <2> QED
    BY <1>1, <2>1, RoomKeeps DEF Refines
<1> QED
  BY <1>2, <1>3, <1>4, <1>5 DEF RoomStep

\* The phone plays a frame: it reads one element more.
LEMMA PlayedRefines ==
  ASSUME MatchInv, TypeOK', NEW p \in Players, NEW inLoop \in BOOLEAN,
         LockPlay(p, inLoop), online' = online, UNCHANGED roomVars
  PROVE  LogInv' /\ Refines
<1>1. /\ TypeOK /\ LogInv /\ UNCHANGED <<log, roomFrame, readyPlay, inputMap>>
      /\ \A q \in Players \ {p} : up'[q] = up[q]
  BY DEF MatchInv, LockPlay, roomVars, TypeOK, WireTypeOK
<1>2. PICK lo \in Nat : OrderOf(p, lo)
  BY <1>1 DEF LogInv
<1>3. seen' = [seen EXCEPT ![p] = @ + 1] /\ OrderOf(p, lo)'
  BY <1>1, <1>2, OrderSent
<1>4. seen \in [Players -> Nat]
  BY <1>1, OrderTypes
<1>5. ASSUME NEW q \in Players PROVE (\E l \in Nat : OrderOf(q, l))'
  <2>1. CASE q = p
    BY <1>3, <2>1
  <2>2. CASE q # p
    <3>1. seen'[q] = seen[q]
      BY <1>3, <1>4, <2>2
    <3> QED
      BY <1>1, <2>2, <3>1, OrderStays
  <2> QED
    BY <2>1, <2>2
<1>6. LogInv'
  BY <1>1, <1>5 DEF LogInv
<1>7. seen[p] < Len(log)
  <2>1. /\ online[p] /\ playDataList[p] # <<>> /\ playDataList[p] \in Seq(PlayData)
        /\ applied[p] \in Seq(PlayData) /\ log \in Seq(PlayData)
    BY <1>1 DEF LockPlay, TypeOK, RoomTypeOK, NetworkmgrTypeOK
  <2>2. TakenFromLog(p) /\ Len(applied[p]) = playFrame[p]
    BY <2>1 DEF MatchInv, StreamInv, StreamOf, TickAligned
  <2>3. Len(playDataList[p]) > 0
    BY <2>1
  <2>4. seen[p] = Len(applied[p])
    BY <2>1, <2>2 DEF seen
  <2> QED
    BY <2>1, <2>2, <2>3, <2>4 DEF TakenFromLog, Taken
<1>8. Abstract!Read(p)
  BY <1>1, <1>3, <1>7 DEF Abstract!Read
<1> QED
  BY <1>6, <1>8 DEF Refines

\* A step that reads nothing and touches only messages not sent yet.
LEMMA PhoneKeeps ==
  ASSUME TypeOK, TypeOK', LogInv, seen' = seen, UNCHANGED roomVars,
         \/ up' = up
         \/ \E p \in Players : \E n \in 0..Len(up[p]) :
              up' = [up EXCEPT ![p] = SubSeq(@, 1, n)]
  PROVE  LogInv' /\ Refines
<1>1. UNCHANGED <<log, roomFrame, readyPlay, inputMap>>
  BY DEF roomVars
<1>2. ASSUME NEW q \in Players PROVE (\E lo \in Nat : OrderOf(q, lo))'
  <2>1. \/ up'[q] = up[q]
        \/ \E n \in 0..Len(up[q]) : up'[q] = SubSeq(up[q], 1, n)
    BY DEF TypeOK, WireTypeOK
  <2> QED
    BY <1>1, <2>1, OrderStays
<1> QED
  BY <1>1, <1>2 DEF LogInv, Refines

LEMMA LogStep == MatchInv /\ TypeOK' /\ [Next]_vars => LogInv' /\ Refines
<1> SUFFICES ASSUME MatchInv, TypeOK', [Next]_vars PROVE LogInv' /\ Refines
  OBVIOUS
<1>1. TypeOK /\ LogInv /\ StreamInv
  BY DEF MatchInv
<1>2. CASE RoomStep /\ UNCHANGED clientVars
  BY <1>2, RoomRefines
<1>3. ASSUME NEW p \in Players, ClientStep(p), UNCHANGED roomVars
      PROVE  LogInv' /\ Refines
  <2>1. CASE OnStart(p)
    <3>1. seen' = seen /\ up' = up
      BY <1>1, <2>1, SeenAtStart DEF OnStart
    <3> QED
      BY <1>1, <1>3, <3>1, PhoneKeeps
  <2>2. CASE OnReceivePlayData(p) \/ Polled(p)
    <3>1. seen' = seen /\ up' = up
      BY <2>2 DEF OnReceivePlayData, Polled, wireVars, seen
    <3> QED
      BY <1>1, <1>3, <3>1, PhoneKeeps
  <2>3. CASE CatchUp(p) \/ Lock(p)
    <3>1. PICK inLoop \in BOOLEAN : LockUpdate(p, inLoop)
      BY <2>3 DEF CatchUp, Lock
    <3>2. online' = online
      BY <2>3 DEF CatchUp, Lock
    <3>3. CASE LockIdle(p) \/ LockTick(p)
      <4>1. seen' = seen /\ up' = up
        BY <3>2, <3>3 DEF LockIdle, LockTick, seen
      <4> QED
        BY <1>1, <1>3, <4>1, PhoneKeeps
    <3>4. CASE LockPlay(p, inLoop)
      BY <1>3, <3>2, <3>4, PlayedRefines
    <3> QED
      BY <3>1, <3>3, <3>4 DEF LockUpdate
  <2> QED
    BY <1>3, <2>1, <2>2, <2>3 DEF ClientStep
<1>4. ASSUME NEW p \in Players, Leave(p), UNCHANGED roomVars
      PROVE  LogInv' /\ Refines
  <2>1. seen' = seen /\ \E n \in 0..Len(up[p]) : up' = [up EXCEPT ![p] = SubSeq(@, 1, n)]
    BY <1>4 DEF Leave, clientVars, seen
  <2> QED
    BY <1>1, <1>4, <2>1, PhoneKeeps
<1>5. CASE UNCHANGED vars
  <2>1. seen' = seen /\ up' = up /\ UNCHANGED roomVars
    BY <1>5 DEF vars, wireVars, clientVars, roomVars, seen
  <2> QED
    BY <1>1, <2>1, PhoneKeeps
<1> QED
  BY <1>2, <1>3, <1>4, <1>5 DEF Next

LEMMA InMatch == Spec => []MatchInv
<1>1. Spec => []StreamInv
  BY StreamInit, StreamStep, Typing, PTL DEF Spec
<1>2. Spec => []LogInv
  <2>1. TypeOK /\ TickAligned /\ StreamInv /\ LogInv /\ TypeOK' /\ [Next]_vars => LogInv'
    BY LogStep DEF MatchInv
  <2> QED
    BY <1>1, <2>1, LogInit, Typing, Aligned, PTL DEF Spec
<1>3. TypeOK /\ TickAligned /\ StreamInv /\ LogInv => MatchInv
  BY DEF MatchInv
<1> QED
  BY <1>1, <1>2, <1>3, Typing, Aligned, PTL

\* A match implements the frame log (room.lua ReceiveInput and Play with
\* Networkmgr.cs LockUpdate and its catch-up loop), for every set of players,
\* every interval and whatever an earlier match left behind.
THEOREM Implements == Spec => ImplementsFrameLog
<1>1. Init => Abstract!Init
  BY DEF Init, RoomInit, NetworkmgrInit, Abstract!Init, seen, NoInputs, NoInput,
         Abstract!NoInput
<1>2. MatchInv /\ TypeOK' /\ [Next]_vars => LogInv' /\ [Abstract!Next]_(Abstract!vars)
  BY LogStep DEF Refines, Abstract!Next, Abstract!vars
<1> QED
  BY <1>1, <1>2, InMatch, Typing, PTL DEF Spec, ImplementsFrameLog, Abstract!Spec

-----------------------------------------------------------------------------
(* The trigger of a frame.  The catch-up loop sends one input only, but no *)
(* iteration of it plays two frames, so each frame entered is announced.   *)

LoopInv ==
  \A p \in Players : pc[p] = "loop" /\ online[p] =>
     sendInLoop[p] \/ frame[p] = 0 \/ (frame[p] = 1 /\ lateFrame[p] = 1)

LEMMA LoopInit == Init => LoopInv
  BY DEF Init, NetworkmgrInit, LoopInv

LEMMA LoopStep == TypeOK /\ LoopInv /\ [Next]_vars => LoopInv'
<1> SUFFICES ASSUME TypeOK, LoopInv, [Next]_vars, NEW q \in Players,
                    pc'[q] = "loop", online'[q]
             PROVE  (sendInLoop[q] \/ frame[q] = 0 \/ (frame[q] = 1 /\ lateFrame[q] = 1))'
  BY DEF LoopInv
<1> USE DEF TypeOK, NetworkmgrTypeOK
<1>1. CASE UNCHANGED clientVars
  BY <1>1 DEF clientVars, LoopInv
<1>2. ASSUME NEW p \in Players, ClientStep(p)
      PROVE  (sendInLoop[q] \/ frame[q] = 0 \/ (frame[q] = 1 /\ lateFrame[q] = 1))'
  <2>1. CASE OnStart(p)
    <3>1. CASE q = p
      BY <2>1, <3>1 DEF OnStart
    <3>2. CASE q # p
      BY <2>1, <3>2 DEF OnStart, LoopInv
    <3> QED
      BY <3>1, <3>2
  <2>2. CASE OnReceivePlayData(p)
    BY <2>2 DEF OnReceivePlayData, LoopInv
  <2>3. CASE Polled(p)
    <3>1. CASE q = p
      BY <2>3, <3>1 DEF Polled
    <3>2. CASE q # p
      BY <2>3, <3>2 DEF Polled, LoopInv
    <3> QED
      BY <3>1, <3>2
  <2>4. CASE CatchUp(p)
    <3>1. LockUpdate(p, TRUE) /\ pc[p] = "loop" /\ UNCHANGED <<online, lateFrame>>
          /\ pc' = [pc EXCEPT ![p] =
                      IF Len(playDataList'[p]) = 1 /\ frame'[p] = lateFrame[p]
                        THEN "loop" ELSE "lock"]
      BY <2>4 DEF CatchUp
    <3>2. CASE q = p
      <4>1. frame'[p] = lateFrame[p]
        BY <3>1, <3>2
      <4>2. CASE LockIdle(p)
        BY <3>1, <3>2, <4>2 DEF LockIdle, LoopInv
      <4>3. CASE LockTick(p)
        BY <3>1, <3>2, <4>1, <4>3 DEF LockTick, LoopInv
      <4>4. CASE LockPlay(p, TRUE)
        BY <3>2, <4>4 DEF LockPlay
      <4> QED
        BY <3>1, <4>2, <4>3, <4>4 DEF LockUpdate
    <3>3. CASE q # p
      BY <3>1, <3>3 DEF LockUpdate, LockIdle, LockTick, LockPlay, LoopInv
    <3> QED
      BY <3>2, <3>3
  <2>5. CASE Lock(p)
    <3>1. LockUpdate(p, FALSE) /\ pc' = [pc EXCEPT ![p] = "poll"]
          /\ UNCHANGED <<online, lateFrame>>
      BY <2>5 DEF Lock
    <3> QED
      BY <3>1 DEF LockUpdate, LockIdle, LockTick, LockPlay, LoopInv
  <2> QED
    BY <1>2, <2>1, <2>2, <2>3, <2>4, <2>5 DEF ClientStep
<1>3. ASSUME NEW p \in Players, Leave(p) PROVE UNCHANGED clientVars
  BY <1>3 DEF Leave
<1> QED
  BY <1>1, <1>2, <1>3 DEF Next, vars

\* The frame that a phone enters is announced to the room.
LEMMA Announced ==
  ASSUME TypeOK, LoopInv, NEW p \in Players, NEW inLoop \in BOOLEAN,
         pc[p] = "loop" \/ inLoop = FALSE, LockPlay(p, inLoop)
  PROVE  \E i \in 1..Len(up'[p]) : up'[p][i] = InputMsg(playFrame'[p])
<1> DEFINE f == playFrame[p] + 1
           c == [ticks |-> ticks[p], applied |-> Append(applied[p], Head(playDataList[p]))]
           b == IF f > CompareFrame THEN <<ComparisonMsg(f, c)>> ELSE <<>>
<1>1. /\ online[p] /\ AtBoundary(p) /\ playDataList[p] # <<>>
      /\ up' = [up EXCEPT ![p] = @ \o Sent(p, inLoop)]
      /\ playFrame' = [playFrame EXCEPT ![p] = @ + 1]
  BY DEF LockPlay
<1>2. WillSend(p, inLoop)
  <2>1. CASE inLoop = FALSE
    BY <2>1 DEF WillSend
  <2>2. CASE pc[p] = "loop"
    <3>1. frame[p] > 1
      BY <1>1, NetworkmgrAssumption DEF AtBoundary, TypeOK, NetworkmgrTypeOK
    <3> QED
      BY <1>1, <2>2, <3>1 DEF LoopInv, WillSend
  <2> QED
    BY <2>1, <2>2
<1>3. Sent(p, inLoop) = <<InputMsg(f)>> \o b
  BY <1>2 DEF Sent
<1>4. Sent(p, inLoop) \in Seq(UpMsg) /\ up[p] \in Seq(UpMsg)
  BY <1>1, SentType DEF TypeOK, WireTypeOK
<1>5. up'[p] = up[p] \o Sent(p, inLoop)
  BY <1>1 DEF TypeOK, WireTypeOK
<1>6. f = playFrame'[p]
  BY <1>1 DEF TypeOK, NetworkmgrTypeOK
<1>7. 1 \in 1..Len(Sent(p, inLoop)) /\ Sent(p, inLoop)[1] = InputMsg(f)
  <2> DEFINE m == InputMsg(f)
             n == ComparisonMsg(f, c)
  <2>1. b = <<n>> \/ b = <<>>
    OBVIOUS
  <2> HIDE DEF b, m, n
  <2>2. b \in Seq({m, n})
    BY <2>1, AtMostOne
  <2>3. 1 \in 1..Len(<<m>> \o b) /\ (<<m>> \o b)[1] = m
    BY <2>2
  <2> QED
    BY <1>3, <2>3 DEF m
<1> HIDE DEF f, c, b
<1>8. Len(up[p]) + 1 \in 1..Len(up'[p]) /\ up'[p][Len(up[p]) + 1] = InputMsg(f)
  BY <1>4, <1>5, <1>7
<1> QED
  BY <1>6, <1>8

\* TriggerComes for one player.
TriggerOf(p) ==
  running = "up" /\ ~readyPlay /\ connected[p] /\ online[p] /\ playFrame[p] = roomFrame
    => \E i \in 1..Len(up[p]) : up[p][i] = InputMsg(roomFrame)

\* While a phone stands where it stood, in the current frame of a room that
\* is not ready, its trigger stays on its way: what the room takes is
\* something else.
LEMMA TriggerStays ==
  ASSUME TypeOK, NEW q \in Players, TriggerOf(q),
         running' = "up" => running = "up",
         UNCHANGED <<readyPlay, roomFrame, connected, online, playFrame>>,
         \/ up'[q] = up[q]
         \/ up[q] # <<>> /\ Head(up[q]) # InputMsg(roomFrame) /\ up'[q] = Tail(up[q])
  PROVE  TriggerOf(q)'
<1> SUFFICES ASSUME running = "up", ~readyPlay, connected[q], online[q],
                    playFrame[q] = roomFrame
             PROVE  \E i \in 1..Len(up'[q]) : up'[q][i] = InputMsg(roomFrame)
  BY DEF TriggerOf
<1>1. PICK i \in 1..Len(up[q]) : up[q][i] = InputMsg(roomFrame)
  BY DEF TriggerOf
<1>2. CASE up'[q] = up[q]
  BY <1>1, <1>2
<1>3. CASE up[q] # <<>> /\ Head(up[q]) # InputMsg(roomFrame) /\ up'[q] = Tail(up[q])
  <2>1. up[q] \in Seq(UpMsg)
    BY OrderTypes
  <2>2. i # 1
    BY <1>1, <1>3, <2>1
  <2>3. i - 1 \in 1..Len(up'[q]) /\ up'[q][i - 1] = up[q][i]
    BY <1>3, <2>1, <2>2
  <2> QED
    BY <1>1, <2>3
<1> QED
  BY <1>2, <1>3, <1>1 DEF TriggerOf

\* No phone is in the frame after the one the room has just played.
LEMMA TriggerNext ==
  ASSUME MatchInv, NEW inputs, Play(inputs), UNCHANGED <<online, playFrame>>, NEW q \in Players
  PROVE  TriggerOf(q)'
<1>1. seen[q] <= roomFrame /\ roomFrame \in Nat /\ seen[q] \in Nat
  BY SeenBound, OrderTypes DEF MatchInv, LogInv, TypeOK, RoomTypeOK
<1>2. roomFrame' = roomFrame + 1
  BY DEF Play
<1>3. ~(online'[q] /\ playFrame'[q] = roomFrame')
  BY <1>1, <1>2 DEF seen
<1> QED
  BY <1>3 DEF TriggerOf

LEMMA TriggerInit == Init => TriggerComes
  BY DEF Init, RoomInit, TriggerComes

LEMMA TriggerStep ==
  MatchInv /\ LoopInv /\ TriggerComes /\ [Next]_vars => TriggerComes'
<1> SUFFICES ASSUME MatchInv, LoopInv, TriggerComes, [Next]_vars, NEW q \in Players
             PROVE  TriggerOf(q)'
  BY DEF TriggerComes, TriggerOf
<1>1. TypeOK /\ TriggerOf(q)
  BY DEF MatchInv, TriggerComes, TriggerOf
<1>2. CASE RoomStep /\ UNCHANGED clientVars
  <2>0. UNCHANGED <<online, playFrame>>
    BY <1>2 DEF clientVars
  <2>1. CASE Start
    <3>1. ~online[q]
      BY <2>1 DEF Start, MatchInv, StreamInv, StreamOf
    <3> QED
      BY <2>0, <3>1 DEF TriggerOf
  <2>2. CASE PlayTimeout
    <3>1. CASE readyPlay
      <4>1. Play(inputMap)
        BY <2>2, <3>1 DEF PlayTimeout
      <4> QED
        BY <2>0, <4>1, TriggerNext
    <3>2. CASE ~readyPlay
      <4>1. UNCHANGED <<running, readyPlay, roomFrame, connected, up>>
        BY <2>2, <3>2 DEF PlayTimeout
      <4> QED
        BY <1>1, <2>0, <4>1, TriggerStays
    <3> QED
      BY <3>1, <3>2
  <2>3. CASE Exit \/ Tick
    <3>1. /\ UNCHANGED <<readyPlay, roomFrame, connected, up>>
          /\ running' = "up" => running = "up"
      BY <2>3 DEF Exit, Tick, wireVars
    <3> QED
      BY <1>1, <2>0, <3>1, TriggerStays
  <2>4. ASSUME NEW p \in Players, ReceiveInput(p) PROVE TriggerOf(q)'
    <3> DEFINE f == Head(up[p]).frame
               d == [inputMap EXCEPT ![p] = f]
    <3>1. /\ up[p] # <<>> /\ up' = [up EXCEPT ![p] = Tail(@)]
          /\ UNCHANGED <<running, connected>>
          /\ Play(d) \/ Arm(d) \/ (f # roomFrame /\ Keep(d))
      BY <2>4 DEF ReceiveInput
    <3>2. CASE Play(d)
      BY <2>0, <3>2, TriggerNext
    <3>3. CASE Arm(d)
      BY <3>3 DEF Arm, TriggerOf
    <3>4. CASE f # roomFrame /\ Keep(d)
      <4>1. UNCHANGED <<readyPlay, roomFrame>> /\ Head(up[p]) # InputMsg(roomFrame)
        BY <3>4 DEF Keep, InputMsg
      <4>2. up'[q] = up[q] \/ (q = p /\ up'[q] = Tail(up[q]))
        BY <1>1, <3>1 DEF TypeOK, WireTypeOK
      <4> QED
        BY <1>1, <2>0, <3>1, <4>1, <4>2, TriggerStays
    <3> QED
      BY <3>1, <3>2, <3>3, <3>4
  <2>5. ASSUME NEW p \in Players, ReceiveComparison(p) PROVE TriggerOf(q)'
    <3>1. /\ up[p] # <<>> /\ up' = [up EXCEPT ![p] = Tail(@)]
          /\ UNCHANGED <<running, readyPlay, roomFrame, connected>>
          /\ Head(up[p]).kind = "comparison"
      BY <2>5 DEF ReceiveComparison
    <3>2. Head(up[p]) # InputMsg(roomFrame)
      BY <3>1 DEF InputMsg
    <3>3. up'[q] = up[q] \/ (q = p /\ up'[q] = Tail(up[q]))
      BY <1>1, <3>1 DEF TypeOK, WireTypeOK
    <3> QED
      BY <1>1, <2>0, <3>1, <3>2, <3>3, TriggerStays
  <2> QED
    BY <1>2, <2>1, <2>2, <2>3, <2>4, <2>5 DEF RoomStep
<1>3. ASSUME NEW p \in Players, ClientStep(p), UNCHANGED roomVars PROVE TriggerOf(q)'
  <2>0. UNCHANGED <<running, readyPlay, roomFrame, log>>
    BY <1>3 DEF roomVars
  <2>1. CASE OnStart(p)
    <3>1. CASE q = p
      <4>1. playFrame'[q] = 0
        BY <1>1, <2>1, <3>1 DEF OnStart, TypeOK, NetworkmgrTypeOK
      <4>2. roomFrame' > 0
        BY <2>0 DEF MatchInv, LogInv, StreamInv
      <4> QED
        BY <4>1, <4>2 DEF TriggerOf
    <3>2. CASE q # p
      BY <1>1, <2>0, <2>1, <3>2 DEF OnStart, TriggerOf, TypeOK, NetworkmgrTypeOK
    <3> QED
      BY <3>1, <3>2
  <2>2. CASE OnReceivePlayData(p) \/ Polled(p)
    <3>1. UNCHANGED <<online, playFrame, connected, up>>
      BY <2>2 DEF OnReceivePlayData, Polled, wireVars
    <3> QED
      BY <1>1, <2>0, <3>1, TriggerStays
  <2>3. CASE CatchUp(p) \/ Lock(p)
    <3>1. PICK inLoop \in BOOLEAN : /\ LockUpdate(p, inLoop)
                                    /\ pc[p] = "loop" \/ inLoop = FALSE
      BY <2>3 DEF CatchUp, Lock
    <3>2. UNCHANGED <<online, connected>>
      BY <2>3 DEF CatchUp, Lock
    <3>3. CASE LockIdle(p) \/ LockTick(p)
      <4>1. UNCHANGED <<playFrame, up>>
        BY <3>3 DEF LockIdle, LockTick
      <4> QED
        BY <1>1, <2>0, <3>2, <4>1, TriggerStays
    <3>4. CASE LockPlay(p, inLoop)
      <4>1. CASE q = p
        <5>1. \E i \in 1..Len(up'[p]) : up'[p][i] = InputMsg(playFrame'[p])
          BY <1>1, <3>1, <3>4, Announced
        <5> QED
          BY <4>1, <5>1 DEF TriggerOf
      <4>2. CASE q # p
        BY <1>1, <2>0, <3>2, <3>4, <4>2
        DEF LockPlay, TriggerOf, TypeOK, WireTypeOK, NetworkmgrTypeOK
      <4> QED
        BY <4>1, <4>2
    <3> QED
      BY <3>1, <3>3, <3>4 DEF LockUpdate
  <2> QED
    BY <1>3, <2>1, <2>2, <2>3 DEF ClientStep
<1>4. ASSUME NEW p \in Players, Leave(p), UNCHANGED roomVars PROVE TriggerOf(q)'
  <2>1. CASE q = p
    BY <1>1, <1>4, <2>1 DEF Leave, TriggerOf, TypeOK, WireTypeOK
  <2>2. CASE q # p
    BY <1>1, <1>4, <2>2 DEF Leave, TriggerOf, roomVars, clientVars, TypeOK, WireTypeOK
  <2> QED
    BY <2>1, <2>2
<1>5. CASE UNCHANGED vars
  BY <1>1, <1>5, TriggerStays DEF vars, wireVars, roomVars, clientVars
<1> QED
  BY <1>2, <1>3, <1>4, <1>5 DEF Next

\* The room never misses the trigger of a frame (room.lua ReceiveInput
\* compares frames with ==; Networkmgr.cs sends each frame's input once).
THEOREM Triggered == Spec => []NoLostTrigger
<1>1. MatchInv => NeverAhead
  <2> SUFFICES ASSUME MatchInv, NEW p \in Players, NEW i \in 1..Len(up[p]),
                      up[p][i].kind = "input"
               PROVE  up[p][i].frame <= roomFrame
    BY DEF NeverAhead
  <2>1. PICK lo \in Nat : OrderOf(p, lo)
    BY DEF MatchInv, LogInv
  <2>2. up[p][i].frame <= seen[p]
    BY <2>1 DEF OrderOf, Coming, Between
  <2>3. seen[p] <= roomFrame
    BY SeenBound DEF MatchInv, LogInv
  <2>4. /\ up[p][i].frame \in Nat /\ seen[p] \in Nat /\ roomFrame \in Nat
    BY OrderTypes, UpFrame DEF MatchInv, TypeOK, RoomTypeOK
  <2> QED
    BY <2>2, <2>3, <2>4
<1>2. MatchInv /\ TriggerComes => NoLostTrigger
  BY <1>1 DEF NoLostTrigger
<1>3. TypeOK /\ LoopInv /\ [Next]_vars => LoopInv'
  BY LoopStep
<1> QED
  BY <1>2, <1>3, LoopInit, TriggerInit, TriggerStep, InMatch, Typing, PTL DEF Spec

-----------------------------------------------------------------------------
(***************************************************************************)
(* More about a match, from the invariant of the refinement: what becomes  *)
(* of an input, how long a frame is, and that two phones in step are never *)
(* taken for different.                                                    *)
(***************************************************************************)

-----------------------------------------------------------------------------
(* Inputs that were in time.                                               *)

KeptBy(p) ==
  inputMap[p] # NoInput /\ inputMap'[p] # inputMap[p] =>
    \/ inputMap[p] < roomFrame
    \/ log' = Append(log, [log'[Len(log')] EXCEPT ![p] = inputMap[p]])

\* An input held is played as it is.
LEMMA PlayedAsHeld ==
  ASSUME TypeOK, NEW p \in Players, NEW d \in PlayData, Play(d), d[p] = inputMap[p]
  PROVE  KeptBy(p)
<1>1. log' = Append(log, d) /\ log'[Len(log')] = d
  BY DEF Play, TypeOK, RoomTypeOK
<1>2. [d EXCEPT ![p] = inputMap[p]] = d
  BY DEF PlayData
<1> QED
  BY <1>1, <1>2 DEF KeptBy

\* What a player sends is newer than what the room holds, and nothing is
\* newer than the room's frame.
LEMMA NewerThanHeld ==
  ASSUME MatchInv, NEW p \in Players, up[p] # <<>>, Head(up[p]).kind = "input"
  PROVE  /\ Head(up[p]).frame \in Nat /\ inputMap[p] < Head(up[p]).frame
         /\ Head(up[p]).frame <= roomFrame
<1>1. PICK lo \in Nat : OrderOf(p, lo)
  BY DEF MatchInv, LogInv
<1>2. /\ up[p] \in Seq(UpMsg) /\ seen[p] \in Nat /\ inputMap[p] \in Nat
      /\ seen[p] <= roomFrame /\ roomFrame \in Nat
  BY OrderTypes, SeenBound DEF MatchInv, LogInv, TypeOK, RoomTypeOK
<1>3. /\ Head(up[p]).frame \in Nat /\ lo < Head(up[p]).frame
      /\ Head(up[p]).frame <= seen[p]
  BY <1>1, <1>2, ComingTaken DEF OrderOf
<1> QED
  BY <1>1, <1>2, <1>3 DEF OrderOf

LEMMA KeptStep == MatchInv /\ [Next]_vars => \A p \in Players : KeptBy(p)
<1> SUFFICES ASSUME MatchInv, [Next]_vars, NEW p \in Players, inputMap' # inputMap
             PROVE  KeptBy(p)
  BY DEF KeptBy
<1>1. TypeOK /\ inputMap \in PlayData
  BY DEF MatchInv, TypeOK, RoomTypeOK
<1>2. CASE PlayTimeout
  <2>1. Play(inputMap)
    BY <1>2 DEF PlayTimeout
  <2> QED
    BY <1>1, <2>1, PlayedAsHeld
<1>3. ASSUME NEW q \in Players, ReceiveInput(q) PROVE KeptBy(p)
  <2> DEFINE f == Head(up[q]).frame
             d == [inputMap EXCEPT ![q] = f]
  <2>1. /\ up[q] # <<>> /\ Head(up[q]).kind = "input"
        /\ Play(d) \/ Arm(d) \/ Keep(d)
    BY <1>3 DEF ReceiveInput
  <2>2. f \in Nat /\ inputMap[q] < f /\ f <= roomFrame
    BY <2>1, NewerThanHeld
  <2>3. CASE p = q
    <3>1. inputMap[q] \in Nat /\ roomFrame \in Nat
      BY <1>1 DEF TypeOK, RoomTypeOK, PlayData
    <3> QED
      BY <2>2, <2>3, <3>1 DEF KeptBy
  <2>4. CASE p # q
    <3>1. d \in PlayData /\ d[p] = inputMap[p]
      BY <1>1, <2>2, <2>4 DEF PlayData
    <3>2. CASE Play(d)
      BY <1>1, <3>1, <3>2, PlayedAsHeld
    <3>3. CASE Arm(d) \/ Keep(d)
      <4>1. inputMap'[p] = inputMap[p]
        BY <3>1, <3>3 DEF Arm, Keep
      <4> QED
        BY <4>1 DEF KeptBy
    <3> QED
      BY <2>1, <3>2, <3>3
  <2> QED
    BY <2>3, <2>4
<1>4. PlayTimeout \/ \E q \in Players : ReceiveInput(q)
  BY DEF Next, RoomStep, ClientStep, Leave, Start, Exit, Tick, ReceiveComparison, roomVars, vars
<1> QED
  BY <1>2, <1>3, <1>4

\* An input that was in time for its frame is in that frame's PlayData: a
\* later one overwrites only late ones in _inputMap (room.lua ReceiveInput).
THEOREM Kept == Spec => OnTimeInputKept
<1>1. MatchInv /\ [Next]_vars =>
        [\A p \in Players :
           inputMap[p] # NoInput /\ inputMap'[p] # inputMap[p] =>
             \/ inputMap[p] < roomFrame
             \/ log' = Append(log, [log'[Len(log')] EXCEPT ![p] = inputMap[p]])]_vars
  BY KeptStep DEF KeptBy
<1> QED
  BY <1>1, InMatch, PTL DEF Spec, OnTimeInputKept

-----------------------------------------------------------------------------
(* How long a frame is.                                                    *)

\* A timeout armed in the current frame does not expire before the interval
\* is over, and none was armed in a frame to come.
PaceInv ==
  \A t \in timers :
    /\ t.frame <= roomFrame
    /\ t.frame = roomFrame => t.left + elapsed >= PlayInterval

LEMMA PaceInit == Init => PaceInv
  BY DEF Init, RoomInit, PaceInv

\* Nothing is left to wait for when a frame begins.
LEMMA PacePlay ==
  ASSUME TypeOK, PaceInv, NEW d, Play(d), timers' \subseteq timers
  PROVE  PaceInv'
<1> SUFFICES ASSUME NEW t \in timers' PROVE t.frame <= roomFrame' /\ t.frame # roomFrame'
  BY DEF PaceInv
<1>1. t \in timers /\ t.frame \in Nat /\ roomFrame \in Nat
  BY DEF TypeOK, RoomTypeOK
<1> QED
  BY <1>1 DEF PaceInv, Play

LEMMA PaceStep == TypeOK /\ PaceInv /\ [Next]_vars => PaceInv'
<1> SUFFICES ASSUME TypeOK, PaceInv, [Next]_vars PROVE PaceInv'
  OBVIOUS
<1>1. CASE PlayTimeout
  <2>1. timers' \subseteq timers
    BY <1>1 DEF PlayTimeout
  <2>2. CASE readyPlay
    BY <1>1, <2>1, <2>2, PacePlay DEF PlayTimeout
  <2>3. CASE ~readyPlay
    BY <1>1, <2>1, <2>3 DEF PlayTimeout, PaceInv
  <2> QED
    BY <2>2, <2>3
<1>2. CASE Tick
  <2> SUFFICES ASSUME NEW u \in timers'
               PROVE  /\ u.frame <= roomFrame
                      /\ u.frame = roomFrame => u.left + elapsed' >= PlayInterval
    BY <1>2 DEF Tick, PaceInv
  <2>1. PICK t \in timers : u = [t EXCEPT !.left = IF @ > 0 THEN @ - 1 ELSE 0]
    BY <1>2 DEF Tick
  <2>2. t \in [frame : Nat, left : 0..PlayInterval] /\ elapsed \in 0..PlayInterval
    BY DEF TypeOK, RoomTypeOK
  <2>3. /\ u.frame = t.frame
        /\ u.left = IF t.left > 0 THEN t.left - 1 ELSE 0
    BY <2>1, <2>2
  <2>4. elapsed' = IF elapsed < PlayInterval THEN elapsed + 1 ELSE elapsed
    BY <1>2 DEF Tick
  <2>5. /\ t.frame <= roomFrame
        /\ t.frame = roomFrame => t.left + elapsed >= PlayInterval
    BY DEF PaceInv
  <2> QED
    BY <2>2, <2>3, <2>4, <2>5, PlayIntervalAssumption
<1>3. ASSUME NEW p \in Players, ReceiveInput(p) PROVE PaceInv'
  <2>1. PICK d : (Play(d) /\ UNCHANGED timers) \/ Arm(d) \/ (Keep(d))
    BY <1>3 DEF ReceiveInput
  <2>2. CASE Play(d) /\ UNCHANGED timers
    BY <2>2, PacePlay
  <2>3. CASE Arm(d)
    <3> SUFFICES ASSUME NEW u \in timers'
                 PROVE  /\ u.frame <= roomFrame
                        /\ u.frame = roomFrame => u.left + elapsed >= PlayInterval
      BY <2>3 DEF Arm, PaceInv
    <3>1. CASE u \in timers
      BY <3>1 DEF PaceInv
    <3>2. CASE u \notin timers
      <4>1. u = [frame |-> roomFrame, left |-> PlayInterval - elapsed]
        BY <2>3, <3>2 DEF Arm
      <4> QED
        BY <4>1, PlayIntervalAssumption DEF TypeOK, RoomTypeOK
    <3> QED
      BY <3>1, <3>2
  <2>4. CASE Keep(d)
    BY <2>4 DEF Keep, PaceInv
  <2> QED
    BY <2>1, <2>2, <2>3, <2>4
<1>4. CASE UNCHANGED <<timers, roomFrame, elapsed>>
  BY <1>4 DEF PaceInv
<1> QED
  BY <1>1, <1>2, <1>3, <1>4
  DEF Next, RoomStep, ClientStep, Leave, Start, Exit, ReceiveComparison, roomVars, vars

TwoPlayers == \A p, q, r \in Players : p = q \/ q = r \/ p = r

\* The frame that this step ends is short.
CutShort ==
  log' # log /\ elapsed < PlayInterval /\ \E p \in Players : log'[Len(log')][p] # roomFrame

LEMMA ShortStep ==
  ASSUME TwoPlayers, MatchInv, PaceInv, [Next]_vars, CutShort
  PROVE  \E t \in timers : t \notin timers' /\ t.frame < roomFrame
<1>1. TypeOK /\ inputMap \in PlayData /\ log \in Seq(PlayData) /\ log' # log
  BY DEF MatchInv, TypeOK, RoomTypeOK, CutShort
<1>2. CASE PlayTimeout
  <2>1. PICK t \in timers : t.left = 0 /\ timers' = timers \ {t}
    BY <1>2 DEF PlayTimeout
  <2>2. t.frame \in Nat /\ roomFrame \in Nat /\ elapsed \in Nat
    BY <1>1, PlayIntervalAssumption DEF TypeOK, RoomTypeOK
  <2>3. t.frame # roomFrame /\ t.frame <= roomFrame
    BY <2>1, <2>2, PlayIntervalAssumption DEF PaceInv, CutShort
  <2> QED
    BY <2>1, <2>2, <2>3
\* When the second player's input comes, both are there.
<1>3. ASSUME NEW p \in Players, ReceiveInput(p) PROVE FALSE
  <2> DEFINE f == Head(up[p]).frame
             d == [inputMap EXCEPT ![p] = f]
  <2>1. /\ up[p] # <<>> /\ Head(up[p]).kind = "input"
        /\ Arm(d) \/ Keep(d) \/ (Play(d) /\ f = roomFrame /\ readyPlay)
    BY <1>3 DEF ReceiveInput
  <2>2. Play(d) /\ f = roomFrame /\ readyPlay
    BY <1>1, <2>1 DEF Arm, Keep
  <2>3. log'[Len(log')] = d
    BY <1>1, <2>2 DEF Play
  <2>4. PICK q \in Players : inputMap[q] = roomFrame
    BY <2>2 DEF MatchInv, LogInv
  <2>5. q # p
    <3>1. inputMap[p] < f /\ inputMap[p] \in Nat /\ f \in Nat
      BY <1>1, <2>1, NewerThanHeld DEF PlayData
    <3> QED
      BY <2>2, <2>4, <3>1
  <2>6. d[p] = roomFrame /\ d[q] = roomFrame
    BY <1>1, <2>2, <2>4, <2>5 DEF PlayData
  <2>7. \A r \in Players : d[r] = roomFrame
    BY <2>5, <2>6 DEF TwoPlayers
  <2> QED
    BY <2>3, <2>7 DEF CutShort
<1>4. PlayTimeout \/ \E p \in Players : ReceiveInput(p)
  BY <1>1 DEF Next, RoomStep, ClientStep, Leave, Start, Exit, Tick, ReceiveComparison, roomVars, vars
<1> QED
  BY <1>2, <1>3, <1>4

\* With two players, a frame is cut short only by a timeout that an earlier
\* frame left behind (room.lua Play, which never cancels one).
THEOREM Short == ASSUME TwoPlayers PROVE Spec => ShortFrameNeedsStaleTimer
<1>1. MatchInv /\ PaceInv /\ [Next]_vars =>
        [log' # log /\ elapsed < PlayInterval
           /\ (\E p \in Players : log'[Len(log')][p] # roomFrame)
           => \E t \in timers : t \notin timers' /\ t.frame < roomFrame]_vars
  BY ShortStep DEF CutShort
<1> QED
  BY <1>1, PaceInit, PaceStep, Typing, InMatch, PTL DEF Spec, ShortFrameNeedsStaleTimer

-----------------------------------------------------------------------------
(* Comparisons.                                                            *)

\* What every phone reports of frame f: it has run WaitingInterval * f - 1
\* ticks, and is about to run the next one, on the first f PlayData.
Expected(f, c, l) ==
  /\ c \in Content
  /\ c.ticks = WaitingInterval * f - 1
  /\ Len(c.applied) = f /\ f <= Len(l)
  /\ \A i \in 1..f : c.applied[i] = l[i]

AlarmInv ==
  /\ \A p \in Players : \A i \in 1..Len(up[p]) :
       up[p][i].kind = "comparison" => Expected(up[p][i].frame, up[p][i].content, log)
  /\ \A r \in reports : Expected(r.frame, r.content, log)
  /\ ~mismatch

\* There is only one such report.
LEMMA ExpectedOnce ==
  ASSUME NEW l, NEW f, NEW c, NEW e, Expected(f, c, l), Expected(f, e, l)
  PROVE  c = e
<1>1. /\ c \in Content /\ e \in Content /\ c.ticks = e.ticks
      /\ c.applied \in Seq(PlayData) /\ e.applied \in Seq(PlayData)
  BY DEF Expected, Content
<1>2. c.applied = e.applied
  BY <1>1, SeqEqual DEF Expected
<1> QED
  BY <1>1, <1>2 DEF Content

\* It stays true while the log grows.
LEMMA ExpectedStays ==
  ASSUME TypeOK, NEW f \in Nat, NEW c, Expected(f, c, log),
         log' = log \/ \E d \in PlayData : log' = Append(log, d)
  PROVE  Expected(f, c, log')
<1>1. log \in Seq(PlayData) /\ f <= Len(log)
  BY DEF TypeOK, RoomTypeOK, Expected
<1>2. f <= Len(log') /\ \A i \in 1..f : log'[i] = log[i]
  BY <1>1
<1> QED
  BY <1>2 DEF Expected

\* Messages and reports that were there stay what they should be, whatever
\* of them goes.
LEMMA AlarmKept ==
  ASSUME TypeOK, AlarmInv,
         log' = log \/ \E d \in PlayData : log' = Append(log, d),
         UNCHANGED <<reports, mismatch>>,
         \A p \in Players :
            \/ up'[p] = up[p]
            \/ up[p] # <<>> /\ up'[p] = Tail(up[p])
            \/ \E n \in 0..Len(up[p]) : up'[p] = SubSeq(up[p], 1, n)
  PROVE  AlarmInv'
<1>1. ASSUME NEW p \in Players, NEW i \in 1..Len(up'[p]), up'[p][i].kind = "comparison"
      PROVE  Expected(up'[p][i].frame, up'[p][i].content, log')
  <2>1. up[p] \in Seq(UpMsg)
    BY OrderTypes
  <2>2. PICK j \in 1..Len(up[p]) : up'[p][i] = up[p][j]
    <3>1. CASE up'[p] = up[p]
      BY <3>1
    <3>2. CASE up[p] # <<>> /\ up'[p] = Tail(up[p])
      <4>1. i + 1 \in 1..Len(up[p]) /\ up'[p][i] = up[p][i + 1]
        BY <2>1, <3>2
      <4> QED
        BY <4>1
    <3>3. CASE \E n \in 0..Len(up[p]) : up'[p] = SubSeq(up[p], 1, n)
      <4>1. i \in 1..Len(up[p]) /\ up'[p][i] = up[p][i]
        BY <2>1, <3>3
      <4> QED
        BY <4>1
    <3> QED
      BY <3>1, <3>2, <3>3
  <2> DEFINE m == up[p][j]
  <2>3. Expected(m.frame, m.content, log) /\ m.frame \in Nat
    BY <1>1, <2>1, <2>2, UpFrame DEF AlarmInv
  <2> QED
    BY <2>2, <2>3, ExpectedStays
<1>2. ASSUME NEW r \in reports' PROVE Expected(r.frame, r.content, log')
  <2>1. r \in reports /\ r.frame \in Nat
    BY DEF TypeOK, RoomTypeOK, Report
  <2> QED
    BY <2>1, ExpectedStays DEF AlarmInv
<1> QED
  BY <1>1, <1>2 DEF AlarmInv

LEMMA AlarmInit == Init => AlarmInv
  BY DEF Init, WireInit, RoomInit, AlarmInv

\* The room compares: all it has for the frame is the same.
LEMMA AlarmCompared ==
  ASSUME TypeOK, AlarmInv, NEW p \in Players, ReceiveComparison(p)
  PROVE  AlarmInv'
<1> DEFINE m     == Head(up[p])
           mine  == [frame |-> m.frame, player |-> p, content |-> m.content]
           map   == {r \in reports : r.frame = m.frame /\ r.player # p} \cup {mine}
           older == {r \in reports : r.frame # m.frame}
<1>1. /\ up[p] # <<>> /\ m.kind = "comparison" /\ up' = [up EXCEPT ![p] = Tail(@)]
      /\ log' = log
      /\ \/ reports' = older /\ mismatch' = (mismatch \/ \E r, s \in map : r.content # s.content)
         \/ reports' = older \cup map /\ mismatch' = mismatch
  BY DEF ReceiveComparison
<1>2. Expected(m.frame, m.content, log)
  <2>1. up[p] \in Seq(UpMsg)
    BY OrderTypes
  <2>2. 1 \in 1..Len(up[p]) /\ m = up[p][1]
    BY <1>1, <2>1
  <2> QED
    BY <1>1, <2>2 DEF AlarmInv
<1>3. \A r \in map : r.frame = m.frame /\ Expected(r.frame, r.content, log)
  BY <1>2 DEF AlarmInv
<1>4. \A r, s \in map : r.content = s.content
  BY <1>3, ExpectedOnce
<1>5. ~mismatch'
  BY <1>1, <1>4 DEF AlarmInv
<1>6. reports' \subseteq reports \cup map
  BY <1>1
<1> HIDE DEF map, older
<1>7. \A r \in reports' : Expected(r.frame, r.content, log')
  BY <1>1, <1>3, <1>6 DEF AlarmInv, Expected
<1>8. ASSUME NEW q \in Players, NEW i \in 1..Len(up'[q]), up'[q][i].kind = "comparison"
      PROVE  Expected(up'[q][i].frame, up'[q][i].content, log')
  <2>1. up[q] \in Seq(UpMsg) /\ up \in [Players -> Seq(UpMsg)]
    BY DEF TypeOK, WireTypeOK
  <2>2. PICK j \in 1..Len(up[q]) : up'[q][i] = up[q][j]
    <3>1. CASE q = p
      <4>1. i + 1 \in 1..Len(up[q]) /\ up'[q][i] = up[q][i + 1]
        BY <1>1, <2>1, <3>1
      <4> QED
        BY <4>1
    <3>2. CASE q # p
      BY <1>1, <2>1, <3>2
    <3> QED
      BY <3>1, <3>2
  <2>3. Expected(up[q][j].frame, up[q][j].content, log)
    BY <1>8, <2>2 DEF AlarmInv
  <2> QED
    BY <1>1, <2>2, <2>3 DEF Expected
<1> QED
  BY <1>5, <1>7, <1>8 DEF AlarmInv

\* The phone reports what is expected of the frame it enters.
LEMMA AlarmSent ==
  ASSUME MatchInv, AlarmInv, NEW p \in Players, NEW inLoop \in BOOLEAN, LockPlay(p, inLoop),
         UNCHANGED <<log, reports, mismatch>>
  PROVE  AlarmInv'
<1> DEFINE f == playFrame[p] + 1
           c == [ticks |-> ticks[p], applied |-> Append(applied[p], Head(playDataList[p]))]
<1>1. /\ TypeOK /\ online[p] /\ frame[p] + 1 = WaitingInterval /\ playDataList[p] # <<>>
      /\ up' = [up EXCEPT ![p] = @ \o Sent(p, inLoop)]
  BY DEF MatchInv, LockPlay, AtBoundary
<1>2. /\ up \in [Players -> Seq(UpMsg)] /\ Sent(p, inLoop) \in Seq(UpMsg)
      /\ log \in Seq(PlayData) /\ applied[p] \in Seq(PlayData)
      /\ playDataList[p] \in Seq(PlayData) /\ Head(playDataList[p]) \in PlayData
      /\ playFrame[p] \in Nat /\ ticks[p] \in Nat /\ frame[p] \in Nat
  <2>1. Sent(p, inLoop) \in Seq(UpMsg)
    BY <1>1, SentType
  <2>2. playDataList[p] \in Seq(PlayData) /\ frame[p] \in Nat
    BY <1>1, NetworkmgrAssumption DEF TypeOK, NetworkmgrTypeOK
  <2>3. Head(playDataList[p]) \in PlayData
    BY <1>1, <2>2
  <2> QED
    BY <1>1, <2>1, <2>2, <2>3 DEF TypeOK, WireTypeOK, RoomTypeOK, NetworkmgrTypeOK
<1>3. /\ TakenFromLog(p) /\ Len(applied[p]) = playFrame[p]
      /\ ticks[p] = WaitingInterval * playFrame[p] + frame[p]
  BY <1>1 DEF MatchInv, StreamInv, StreamOf, TickAligned
<1>4. Expected(f, c, log)
  <2>1. c.applied \in Seq(PlayData) /\ c \in Content
    BY <1>2 DEF Content
  <2>2. Len(c.applied) = f /\ f <= Len(log)
    <3>1. Len(playDataList[p]) >= 1
      BY <1>1, <1>2
    <3> QED
      BY <1>2, <1>3, <3>1 DEF TakenFromLog, Taken
  <2>3. c.ticks = WaitingInterval * f - 1
    <3>1. ticks[p] = WaitingInterval * playFrame[p] + (WaitingInterval - 1)
      BY <1>1, <1>2, <1>3, NetworkmgrAssumption
    <3>2. WaitingInterval * f = WaitingInterval * playFrame[p] + WaitingInterval
      BY <1>2, NetworkmgrAssumption
    <3>3. WaitingInterval * playFrame[p] \in Int
      BY <1>2, NetworkmgrAssumption
    <3> QED
      BY <3>1, <3>2, <3>3, NetworkmgrAssumption
  <2>4. ASSUME NEW i \in 1..f PROVE c.applied[i] = log[i]
    <3>1. CASE i = f
      <4>1. 1 \in 1..Len(playDataList[p]) /\ Head(playDataList[p]) = playDataList[p][1]
        BY <1>1, <1>2
      <4>2. playDataList[p][1] = log[f]
        BY <1>3, <4>1 DEF TakenFromLog
      <4> QED
        BY <1>2, <1>3, <3>1, <4>1, <4>2
    <3>2. CASE i # f
      <4>1. i \in 1..Len(applied[p])
        BY <1>2, <1>3, <3>2
      <4>2. c.applied[i] = applied[p][i]
        BY <1>2, <4>1
      <4> QED
        BY <1>3, <4>1, <4>2 DEF TakenFromLog
    <3> QED
      BY <3>1, <3>2
  <2> QED
    BY <2>1, <2>2, <2>3, <2>4 DEF Expected
<1>5. ASSUME NEW i \in 1..Len(Sent(p, inLoop)), Sent(p, inLoop)[i].kind = "comparison"
      PROVE  Sent(p, inLoop)[i].frame = f /\ Sent(p, inLoop)[i].content = c
  <2> DEFINE m == InputMsg(f)
             n == ComparisonMsg(f, c)
             a == IF WillSend(p, inLoop) THEN <<m>> ELSE <<>>
             b == IF f > CompareFrame THEN <<n>> ELSE <<>>
             v == Sent(p, inLoop)
  <2>1. v = a \o b
    BY DEF Sent
  <2>2. m.kind = "input" /\ n.frame = f /\ n.content = c
    BY DEF InputMsg, ComparisonMsg
  <2>3. v[i].kind = "comparison" /\ i \in 1..Len(v)
    BY <1>5
  <2> HIDE DEF m, n, c, f, v
  <2>4. a = <<m>> \/ a = <<>>
    OBVIOUS
  <2>5. b = <<n>> \/ b = <<>>
    OBVIOUS
  <2> HIDE DEF a, b
  <2>6. /\ a \in Seq({m, n}) /\ Len(a) <= 1 /\ (Len(a) = 1 => a[1] = m)
        /\ b \in Seq({m, n}) /\ Len(b) <= 1 /\ (Len(b) = 1 => b[1] = n)
    BY <2>4, <2>5, AtMostOne
  <2>7. v[i] = m \/ v[i] = n
    BY <2>1, <2>3, <2>6, GluedElement
  <2>8. v[i].frame = f /\ v[i].content = c
    BY <2>2, <2>3, <2>7
  <2> QED
    BY <2>8 DEF v
<1> HIDE DEF f, c
<1>6. ASSUME NEW q \in Players, NEW i \in 1..Len(up'[q]), up'[q][i].kind = "comparison"
      PROVE  Expected(up'[q][i].frame, up'[q][i].content, log')
  <2>1. CASE i \in 1..Len(up[q]) /\ up'[q][i] = up[q][i]
    BY <1>6, <2>1 DEF AlarmInv
  <2>2. CASE ~(i \in 1..Len(up[q]) /\ up'[q][i] = up[q][i])
    <3>1. q = p
      BY <1>1, <1>2, <2>2
    <3>2. up'[q] = up[q] \o Sent(p, inLoop)
      BY <1>1, <1>2, <3>1
    <3>3. /\ i - Len(up[q]) \in 1..Len(Sent(p, inLoop))
          /\ up'[q][i] = Sent(p, inLoop)[i - Len(up[q])]
      BY <1>2, <2>2, <3>2
    <3> QED
      BY <1>4, <1>5, <1>6, <3>3
  <2> QED
    BY <2>1, <2>2
<1> QED
  BY <1>6 DEF AlarmInv, Expected

LEMMA AlarmStep == MatchInv /\ AlarmInv /\ [Next]_vars => AlarmInv'
<1> SUFFICES ASSUME MatchInv, AlarmInv, [Next]_vars PROVE AlarmInv'
  OBVIOUS
<1>0. TypeOK /\ inputMap \in PlayData
  BY DEF MatchInv, TypeOK, RoomTypeOK
<1>1. CASE Start \/ Exit \/ Tick
  <2>1. UNCHANGED <<up, log, reports, mismatch>>
    BY <1>1 DEF Start, Exit, Tick, wireVars
  <2> QED
    BY <1>0, <2>1, AlarmKept
<1>2. CASE PlayTimeout
  <2>1. UNCHANGED <<up, reports, mismatch>> /\ (log' = log \/ log' = Append(log, inputMap))
    BY <1>2 DEF PlayTimeout, Play
  <2> QED
    BY <1>0, <2>1, AlarmKept
<1>3. ASSUME NEW p \in Players, ReceiveInput(p) PROVE AlarmInv'
  <2> DEFINE d == [inputMap EXCEPT ![p] = Head(up[p]).frame]
  <2>1. /\ up[p] # <<>> /\ Head(up[p]).kind = "input" /\ up' = [up EXCEPT ![p] = Tail(@)]
        /\ UNCHANGED <<reports, mismatch>> /\ (log' = log \/ log' = Append(log, d))
    BY <1>3 DEF ReceiveInput, Play, Arm, Keep
  <2>2. d \in PlayData
    BY <1>0, <2>1, NewerThanHeld DEF PlayData
  <2>3. \A q \in Players : up'[q] = up[q] \/ (up[q] # <<>> /\ up'[q] = Tail(up[q]))
    BY <1>0, <2>1 DEF TypeOK, WireTypeOK
  <2> HIDE DEF d
  <2> QED
    BY <1>0, <2>1, <2>2, <2>3, AlarmKept
<1>4. ASSUME NEW p \in Players, ReceiveComparison(p) PROVE AlarmInv'
  BY <1>0, <1>4, AlarmCompared
<1>5. ASSUME NEW p \in Players, ClientStep(p), UNCHANGED roomVars PROVE AlarmInv'
  <2>1. UNCHANGED <<log, reports, mismatch>>
    BY <1>5 DEF roomVars
  <2>2. CASE up' = up
    BY <1>0, <2>1, <2>2, AlarmKept
  <2>3. ASSUME NEW inLoop \in BOOLEAN, LockPlay(p, inLoop) PROVE AlarmInv'
    BY <2>1, <2>3, AlarmSent
  <2> QED
    BY <1>5, <2>2, <2>3
    DEF ClientStep, OnStart, OnReceivePlayData, Polled, CatchUp, Lock, LockUpdate,
        LockIdle, LockTick, wireVars
<1>6. ASSUME NEW p \in Players, Leave(p), UNCHANGED roomVars PROVE AlarmInv'
  <2>1. UNCHANGED <<log, reports, mismatch>>
    BY <1>6 DEF roomVars
  <2>2. \A q \in Players : \/ up'[q] = up[q]
                           \/ \E n \in 0..Len(up[q]) : up'[q] = SubSeq(up[q], 1, n)
    BY <1>0, <1>6 DEF Leave, TypeOK, WireTypeOK
  <2> QED
    BY <1>0, <2>1, <2>2, AlarmKept
<1>7. CASE UNCHANGED vars
  <2>1. UNCHANGED <<up, log, reports, mismatch>>
    BY <1>7 DEF vars, wireVars, roomVars
  <2> QED
    BY <1>0, <2>1, AlarmKept
<1> QED
  BY <1>1, <1>2, <1>3, <1>4, <1>5, <1>6, <1>7 DEF Next, RoomStep

\* Two phones that have applied the same PlayData at the same ticks are never
\* reported as different, in whatever order their comparisons come (room.lua
\* ReceiveComparison, Networkmgr.cs SendComparison): for every number of
\* players, every interval and every history of the match.
THEOREM NoAlarm == Spec => []NoFalseAlarm
<1>1. AlarmInv => NoFalseAlarm
  BY DEF AlarmInv, NoFalseAlarm
<1> QED
  BY <1>1, AlarmInit, AlarmStep, InMatch, PTL DEF Spec

=============================================================================
