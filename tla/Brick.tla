------------------------------- MODULE Brick -------------------------------
(***************************************************************************)
(* A brick and its states (Field/Brick_: Brick, Statemgr, States/Normal,   *)
(* States/Elast), with the input that makes it elast: at once in PVE, by   *)
(* way of the server in PVP, where the player looks at the brick before    *)
(* the input leaves and the brick obeys it some frames later.              *)
(*                                                                         *)
(* One tick is one LockUpdate of the phone of the brick's player: at the   *)
(* end of a frame the PlayData is applied and the next input is sent       *)
(* ("input"), the bricks look at the mouse ("drag"), DOTween runs the      *)
(* sequences ("tween").  All times are in ticks.                           *)
(***************************************************************************)
EXTENDS Integers, Sequences

CONSTANTS
  Interval,   \* WAITTING_INTERVAL
  ElastTime,  \* an Elast: twice the time of Elast.asset
  CoolTime,   \* coolDownTime of Normal.asset
  RestTime,   \* from the end of a match to Judge.Reset: result, Back, camera
  BreakTime,  \* from there to the next match: logo, title, camera, count
  Lag         \* inputs under way at most: 1 if all of them arrive in time

ASSUME BrickAssumption ==
  /\ {Interval, ElastTime, CoolTime, RestTime, BreakTime, Lag} \subseteq Nat \ {0}
  /\ ElastTime > Interval
  /\ RestTime > ElastTime
  /\ BreakTime > CoolTime

VARIABLES
  pc,         \* "input", "drag" or "tween"
  frame,      \* Networkmgr.frame
  match,      \* "running", "over" (Reset is to come), "none"
  since,      \* ticks since the match was over or reset, as far as needed
  gameType,   \* Judge.GameType: "PVE", "PVP"; "LEFT": PVE after PVP
  nowState,   \* Statemgr.nowState
  coolDown,   \* NormalState.coolDown
  willReset,  \* NormalState.willReset
  elasts,     \* ticks left of each Elast's sequence, in their order
  cools,      \* ticks left of each cool-down's sequence; the last is sequence
  willElaste, \* Networkmgr.WillElaste
  inputs      \* willElaste of the inputs that are under way

stateVars == <<nowState, coolDown, willReset, elasts, cools>>
matchVars == <<match, since, gameType>>
vars      == <<pc, frame, matchVars, stateVars, willElaste, inputs>>

TypeOK ==
  /\ pc \in {"input", "drag", "tween"}
  /\ frame \in 0..(Interval - 1)
  /\ match \in {"running", "over", "none"}
  /\ since \in 0..(RestTime + BreakTime)
  /\ gameType \in {"PVE", "PVP", "LEFT"}
  /\ nowState \in {"Normal", "Elast"}
  /\ coolDown \in BOOLEAN
  /\ willReset \in BOOLEAN
  /\ elasts \in Seq(0..ElastTime)
  /\ cools \in Seq(0..CoolTime)
  /\ willElaste \in BOOLEAN
  /\ inputs \in Seq(BOOLEAN) /\ Len(inputs) <= Lag

\* Statemgr.Awake: Play("Normal").
Init ==
  /\ pc = "input"
  /\ frame = 0
  /\ match = "none"
  /\ since = BreakTime
  /\ gameType = "PVE"
  /\ nowState = "Normal"
  /\ coolDown = FALSE
  /\ willReset = FALSE
  /\ elasts = <<>>
  /\ cools = <<>>
  /\ willElaste = FALSE
  /\ inputs = <<>>

Running == match = "running"

-----------------------------------------------------------------------------
\* Statemgr.Play("Elast"): Normal.Exit, if it was Normal, and Elast.Enter.
PlayElast ==
  /\ coolDown' = (coolDown \/ nowState = "Normal")
  /\ nowState' = "Elast"
  /\ elasts' = Append(elasts, ElastTime)
  /\ UNCHANGED <<willReset, cools>>

\* Faulty form of PlayNormal: Normal.Enter starts no sequence.
PlayNormalForgets ==
  /\ nowState' = "Normal"
  /\ coolDown' = (coolDown \/ nowState = "Normal")
  /\ UNCHANGED <<willReset, cools>>

\* Statemgr.Play("Normal"): Normal.Exit, if another Elast has come back to
\* Normal before, and Normal.Enter, which resets at once if it has to.
PlayNormal ==
  LET cooling == coolDown \/ nowState = "Normal"
  IN  /\ nowState' = "Normal"
      /\ coolDown' = (cooling /\ ~willReset)
      /\ cools' = IF cooling /\ ~willReset THEN Append(cools, CoolTime) ELSE cools
      /\ UNCHANGED willReset

-----------------------------------------------------------------------------
\* Judge.Input, Brick.Input.
Applied(input) ==
  IF input /\ Running THEN PlayElast ELSE UNCHANGED stateVars

\* The next input is sent after those under way.  If it reaches the room
\* before the last of them is broadcast it takes its place.
Sent(rest) ==
  /\ \/ Len(rest) < Lag /\ inputs' = Append(rest, willElaste)
     \/ rest # <<>> /\ Lag > 1 /\ inputs' = [rest EXCEPT ![Len(rest)] = willElaste]
  /\ willElaste' = FALSE

\* LockUpdate in the last tick of a frame of PVP.  A PlayData without an
\* input of this phone, or a frame of the catch-up loop, which sends none,
\* are what happens when the phone or its inputs are late.
EndFrame ==
  /\ pc = "input"
  /\ gameType = "PVP"
  /\ frame = Interval - 1
  /\ frame' = 0
  /\ pc' = "drag"
  /\ \/ inputs = <<>> /\ Sent(<<>>) /\ UNCHANGED stateVars
     \/ inputs # <<>> /\ Applied(Head(inputs)) /\ Sent(Tail(inputs))
     \/ inputs # <<>> /\ Lag > 1 /\ Sent(inputs) /\ UNCHANGED stateVars
     \/ /\ inputs # <<>> /\ Lag > 1
        /\ Applied(Head(inputs))
        /\ inputs' = Tail(inputs)
        /\ UNCHANGED willElaste
  /\ UNCHANGED matchVars

InFrame ==
  /\ pc = "input"
  /\ gameType # "PVP" \/ frame < Interval - 1
  /\ frame' = IF gameType = "PVP" THEN frame + 1 ELSE frame
  /\ pc' = "drag"
  /\ UNCHANGED <<matchVars, stateVars, willElaste, inputs>>

-----------------------------------------------------------------------------
NoDrag ==
  /\ pc = "drag"
  /\ pc' = "tween"
  /\ UNCHANGED <<frame, matchVars, stateVars, willElaste, inputs>>

\* Faulty form of Drag: bricks move out of a match, too.
DragAlways ==
  /\ pc = "drag"
  /\ nowState = "Normal"
  /\ ~coolDown
  /\ pc' = "tween"
  /\ IF gameType = "PVP"
       THEN willElaste' = TRUE /\ UNCHANGED stateVars
       ELSE PlayElast /\ UNCHANGED willElaste
  /\ UNCHANGED <<frame, matchVars, inputs>>

\* NormalState.OnDrag or, for a brick of the AI, NormalState.Elast.
Drag ==
  /\ pc = "drag"
  /\ Running
  /\ nowState = "Normal"
  /\ ~coolDown
  /\ pc' = "tween"
  /\ IF gameType = "PVP"
       THEN willElaste' = TRUE /\ UNCHANGED stateVars
       ELSE PlayElast /\ UNCHANGED willElaste
  /\ UNCHANGED <<frame, matchVars, inputs>>

-----------------------------------------------------------------------------
\* A sequence of Elast is over: GotoNextState.
ElastEnd ==
  /\ pc = "tween"
  /\ elasts # <<>>
  /\ Head(elasts) = 0
  /\ elasts' = Tail(elasts)
  /\ PlayNormal
  /\ UNCHANGED <<pc, frame, matchVars, willElaste, inputs>>

\* Faulty form of CoolDownEnd: the brick stays cooling.
CoolDownStays ==
  /\ pc = "tween"
  /\ cools # <<>>
  /\ Head(cools) = 0
  /\ cools' = Tail(cools)
  /\ UNCHANGED <<pc, frame, matchVars, nowState, coolDown, willReset, elasts,
                 willElaste, inputs>>

\* A sequence of a cool-down is over: CoolDownEnd.
CoolDownEnd ==
  /\ pc = "tween"
  /\ cools # <<>>
  /\ Head(cools) = 0
  /\ cools' = Tail(cools)
  /\ coolDown' = FALSE
  /\ UNCHANGED <<pc, frame, matchVars, nowState, willReset, elasts, willElaste,
                 inputs>>

\* DOTween.ManualUpdate with no sequence at its end, and the end of the tick.
Tween ==
  /\ pc = "tween"
  /\ \A i \in DOMAIN elasts : elasts[i] > 0
  /\ \A i \in DOMAIN cools : cools[i] > 0
  /\ elasts' = [i \in DOMAIN elasts |-> elasts[i] - 1]
  /\ cools' = [i \in DOMAIN cools |-> cools[i] - 1]
  /\ since' = IF (match = "over" /\ since < RestTime) \/ (match = "none" /\ since < BreakTime)
                THEN since + 1 ELSE since
  /\ pc' = "input"
  /\ UNCHANGED <<frame, match, gameType, nowState, coolDown, willReset, willElaste,
                 inputs>>

-----------------------------------------------------------------------------
\* OnStart and the slot of PVP or PVE, then Judge.IsRunning = true.
StartMatch ==
  /\ pc = "input"
  /\ match = "none"
  /\ since = BreakTime
  /\ match' = "running"
  /\ since' = 0
  /\ gameType' \in {"PVE", "PVP"}
  /\ frame' = 0
  /\ willElaste' = FALSE
  /\ inputs' = <<>>
  /\ UNCHANGED <<pc, stateVars>>

\* The connection of a match ends and the game goes on as PVE.
LoseConnection ==
  /\ pc = "input"
  /\ gameType = "PVP"
  /\ gameType' = "LEFT"
  /\ inputs' = <<>>
  /\ UNCHANGED <<pc, frame, match, since, stateVars, willElaste>>

\* Judge.IsRunning = false, which disconnects: seen in the next Update.
EndMatch ==
  /\ pc = "tween"
  /\ Running
  /\ match' = "over"
  /\ since' = 0
  /\ UNCHANGED <<pc, frame, gameType, stateVars, willElaste, inputs>>

\* Faulty form of Reset: coolDown waits for a sequence that is over.
ResetCompletes ==
  /\ pc = "input"
  /\ match = "over"
  /\ since = RestTime
  /\ match' = "none"
  /\ since' = 0
  /\ IF nowState = "Normal"
       THEN /\ cools' = SubSeq(cools, 1, Len(cools) - 1)
            /\ UNCHANGED <<coolDown, willReset>>
       ELSE willReset' = TRUE /\ UNCHANGED <<coolDown, cools>>
  /\ UNCHANGED <<pc, frame, gameType, nowState, elasts, willElaste, inputs>>

\* Judge.Reset, Brick.Reset, NormalState.Reset: the newest cool-down is
\* completed without its callback.
Reset ==
  /\ pc = "input"
  /\ match = "over"
  /\ since = RestTime
  /\ match' = "none"
  /\ since' = 0
  /\ IF nowState = "Normal"
       THEN /\ cools' = SubSeq(cools, 1, Len(cools) - 1)
            /\ coolDown' = FALSE
            /\ UNCHANGED willReset
       ELSE willReset' = TRUE /\ UNCHANGED <<coolDown, cools>>
  /\ UNCHANGED <<pc, frame, gameType, nowState, elasts, willElaste, inputs>>

Tick == EndFrame \/ InFrame \/ NoDrag \/ Drag \/ ElastEnd \/ CoolDownEnd \/ Tween

Next == Tick \/ StartMatch \/ LoseConnection \/ EndMatch \/ Reset

Spec == Init /\ [][Next]_vars

\* The phone goes on with its ticks.
FairSpec == Spec /\ WF_vars(Tick)

-----------------------------------------------------------------------------
\* An Elast comes to its end and a cool-down to its own, however many of
\* them inputs have started on top of each other: something that will end
\* the state is always running.
NeverStuck ==
  /\ nowState = "Elast" => elasts # <<>>
  /\ coolDown => elasts # <<>> \/ cools # <<>>

\* Reset never finds the brick in Elast: willReset, which nothing clears
\* again, is never set.
ResetFindsNormal == ~willReset

\* A match starts with the brick at rest, whatever an earlier one has left.
StartsAtRest ==
  [][match = "none" /\ match' = "running" =>
       nowState = "Normal" /\ ~coolDown /\ elasts = <<>> /\ cools = <<>>]_vars

\* A brick that cools down is ready again, however the player drags.
ReadyAgain == coolDown ~> ~coolDown
=============================================================================
