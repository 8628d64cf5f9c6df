------------------------------ MODULE Lockstep ------------------------------
(***************************************************************************)
(* A match: the room service, the two phones and their connections.        *)
(***************************************************************************)
EXTENDS Room, Networkmgr

vars == <<wireVars, roomVars, clientVars>>

Init == WireInit /\ RoomInit /\ NetworkmgrInit

Next ==
  \/ RoomStep /\ UNCHANGED clientVars
  \/ \E p \in Players : ClientStep(p) /\ UNCHANGED roomVars
  \/ \E p \in Players : Leave(p) /\ UNCHANGED roomVars

Spec == Init /\ [][Next]_vars

\* The phone's main loop runs, the room's mailbox is served, the clock
\* advances and an expired timeout is dispatched.  KCP sends a message again
\* until it is acknowledged and client.Update is called in every iteration,
\* so what is on its way is dispatched in one of them: strong fairness, as
\* the phone is only now and then at the point where it dispatches.  Nothing
\* makes a player leave or the lobby close the room.
Fairness ==
  /\ WF_vars(Start /\ UNCHANGED clientVars)
  /\ WF_vars(PlayTimeout /\ UNCHANGED clientVars)
  /\ WF_vars(Tick /\ UNCHANGED clientVars)
  /\ \A p \in Players :
       /\ WF_vars((ReceiveInput(p) \/ ReceiveComparison(p)) /\ UNCHANGED clientVars)
       /\ SF_vars((OnStart(p) \/ OnReceivePlayData(p)) /\ UNCHANGED roomVars)
       /\ WF_vars((Polled(p) \/ CatchUp(p) \/ Lock(p)) /\ UNCHANGED roomVars)

FairSpec == Spec /\ Fairness

-----------------------------------------------------------------------------
\* Every variable has its type: in particular frame stays below
\* WaitingInterval and no timeout has a negative delay.
TypeOK == WireTypeOK /\ RoomTypeOK /\ NetworkmgrTypeOK

\* What phone p has not taken yet: its list, then its connection.
InFlight(p) == [i \in 1..Len(down[p]) |-> down[p][i].data]

IsPrefixOf(s, t) == Len(s) <= Len(t) /\ \A i \in 1..Len(s) : s[i] = t[i]

\* No PlayData is lost, doubled or left over: what a phone of the match has
\* applied, what waits in playDataList and what is still on its way make up
\* exactly what the room has broadcast (room.lua Play), whatever an earlier
\* match left in the list; a phone that is gone stopped at a prefix.
StreamIntact ==
  \A p \in Players : online[p] =>
     /\ IsPrefixOf(applied[p] \o playDataList[p], log)
     /\ connected[p] => applied[p] \o playDataList[p] \o InFlight(p) = log

\* StreamIntact element by element, with what makes it inductive: a phone
\* that has not seen Start yet has Start and then the whole log before it.
\* The proof of StreamIntact (LockstepProofs) rests on it.
Taken(p) == Len(applied[p]) + Len(playDataList[p])

TakenFromLog(p) ==
  /\ Taken(p) <= Len(log)
  /\ \A i \in 1..Len(applied[p]) : applied[p][i] = log[i]
  /\ \A i \in 1..Len(playDataList[p]) :
        playDataList[p][i] = log[Len(applied[p]) + i]

ComingFromLog(p) ==
  /\ Len(down[p]) = Len(log) - Taken(p)
  /\ \A i \in 1..Len(down[p]) : down[p][i] = PlayMsg(log[Taken(p) + i])

StartThenLog(p) ==
  /\ Len(down[p]) = Len(log)
  /\ down[p][1] = StartMsg
  /\ \A i \in 2..Len(down[p]) : down[p][i] = PlayMsg(log[i])

StreamOf(p) ==
  /\ online[p] => TakenFromLog(p)
  /\ online[p] /\ connected[p] => ComingFromLog(p)
  /\ ~online[p] /\ connected[p] /\ running # "new" => StartThenLog(p)
  /\ running = "new" => ~online[p] /\ down[p] = <<>>

StreamInv ==
  /\ Len(log) > 0 /\ log[1] = NoInputs
  /\ running = "new" => Len(log) = 1
  /\ \A p \in Players : StreamOf(p)

\* The simulation is in step: on every phone the k-th PlayData is applied
\* after the same number of ticks, however often the phone stood still
\* waiting for it or ran the catch-up loop.
TickAligned ==
  \A p \in Players : online[p] =>
     /\ ticks[p] = WaitingInterval * playFrame[p] + frame[p]
     /\ Len(applied[p]) = playFrame[p]

\* The room never waits for a timeout that is not there: while a frame is
\* ready to play, the timeout armed in that very frame is pending.
ReadyHasTimer ==
  running = "up" /\ readyPlay => \E t \in timers : t.frame = roomFrame

\* No input claims a frame the room has not reached: it would be kept and
\* never trigger its frame.
NeverAhead ==
  \A p \in Players : \A i \in 1..Len(up[p]) :
     up[p][i].kind = "input" => up[p][i].frame <= roomFrame

\* A phone that is in the room's frame while the room is not ready has an
\* input for that frame on its way: sendInLoop skips no input that could still
\* be in time.
TriggerComes ==
  \A p \in Players :
     running = "up" /\ ~readyPlay /\ connected[p] /\ online[p] /\ playFrame[p] = roomFrame
       => \E i \in 1..Len(up[p]) : up[p][i] = InputMsg(roomFrame)

\* The room never misses the trigger of a frame, although ReceiveInput
\* compares frames with == and a frame is sent to the room only once.
NoLostTrigger == NeverAhead /\ TriggerComes

-----------------------------------------------------------------------------
\* An input that was in time for its frame is in that frame's PlayData: the
\* only inputs a later one may overwrite in _inputMap are late ones.
OnTimeInputKept ==
  [][\A p \in Players :
       inputMap[p] # NoInput /\ inputMap'[p] # inputMap[p] =>
         \/ inputMap[p] < roomFrame
         \/ log' = Append(log, [log'[Len(log')] EXCEPT ![p] = inputMap[p]])]_vars

\* A frame is cut short (a player's input for it missing although less than
\* play_interval has passed since the last Play) only by a timeout that an
\* earlier frame left behind.
ShortFrameNeedsStaleTimer ==
  [][log' # log /\ elapsed < PlayInterval
       /\ (\E p \in Players : log'[Len(log')][p] # roomFrame)
       => \E t \in timers : t \notin timers' /\ t.frame < roomFrame]_vars

-----------------------------------------------------------------------------
\* Two phones that apply the same PlayData at the same ticks are never
\* reported as different (room.lua ReceiveComparison, Log and Warn).
NoFalseAlarm == ~mismatch

\* A player who stays plays on to the bound while the room is there, also
\* when the other player is slow, stalls or leaves.
Progress ==
  \A p \in Players :
     <>(~connected[p] \/ running = "gone" \/ (online[p] /\ playFrame[p] = MaxFrame))

-----------------------------------------------------------------------------
\* The match implements the frame log: its log is the room's, and a player
\* has read as many elements as the phone has played frames since OnStart.
seen == [p \in Players |-> IF online[p] THEN playFrame[p] ELSE 0]

Abstract == INSTANCE FrameLog WITH Players <- Players, log <- log, seen <- seen

ImplementsFrameLog == Abstract!Spec
=============================================================================
