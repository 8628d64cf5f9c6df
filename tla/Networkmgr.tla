----------------------------- MODULE Networkmgr -----------------------------
(***************************************************************************)
(* The lockstep loop of a phone (Assets/Script/Network/Networkmgr.cs).     *)
(* One iteration of the while loop of Update dispatches what the           *)
(* connection has delivered, runs LockUpdate once more first if more than  *)
(* one PlayData is waiting (the catch-up loop), and runs LockUpdate.       *)
(* LockUpdate is one tick of the simulation; every WaitingInterval-th tick *)
(* of a match needs a PlayData and the phone stands still without one.     *)
(***************************************************************************)
EXTENDS Wire

CONSTANTS
  WaitingInterval,   \* WAITTING_INTERVAL: ticks per play frame
  CompareFrame,      \* LEAST_COMPARE_FRAME
  MaxLeftover        \* bound: PlayData an earlier match may leave in the list

ASSUME NetworkmgrAssumption ==
  /\ WaitingInterval \in Nat /\ WaitingInterval > 2
  /\ CompareFrame \in Nat
  /\ MaxLeftover \in Nat

VARIABLES
  pc,          \* where the iteration is: "poll", "loop" (catch-up), "lock"
  online,      \* online
  frame,       \* frame
  playFrame,   \* playFrame
  playDataList,\* playDataList
  sendInLoop,  \* sendInLoop
  lateFrame,   \* the catch-up loop's local
  ticks,       \* UpdateEvents raised since OnStart (history)
  applied      \* PlayData taken from the list since OnStart (history)

clientVars == <<pc, online, frame, playFrame, playDataList, sendInLoop,
                lateFrame, ticks, applied>>

NetworkmgrTypeOK ==
  /\ pc \in [Players -> {"poll", "loop", "lock"}]
  /\ online \in [Players -> BOOLEAN]
  /\ frame \in [Players -> 0..(WaitingInterval - 1)]
  /\ playFrame \in [Players -> Nat]
  /\ playDataList \in [Players -> Seq(PlayData)]
  /\ sendInLoop \in [Players -> BOOLEAN]
  /\ lateFrame \in [Players -> 0..(WaitingInterval - 1)]
  /\ ticks \in [Players -> Nat]
  /\ applied \in [Players -> Seq(PlayData)]

\* A PlayData of an earlier match: no input of this one has its number.
Stale == [p \in Players |-> MaxFrame + 1]

\* A phone waiting for an opponent.  Nothing of an earlier match is cleared
\* when that match ends, only when the next one starts.
NetworkmgrInit ==
  /\ pc = [p \in Players |-> "poll"]
  /\ online = [p \in Players |-> FALSE]
  /\ frame \in [Players -> 0..(WaitingInterval - 1)]
  /\ \E n \in [Players -> 0..MaxLeftover] :
        /\ playFrame = n
        /\ playDataList = [p \in Players |-> [i \in 1..n[p] |-> Stale]]
  /\ sendInLoop = [p \in Players |-> FALSE]
  /\ lateFrame = [p \in Players |-> 0]
  /\ ticks = [p \in Players |-> 0]
  /\ applied = [p \in Players |-> <<>>]

\* Bound: a phone that has played MaxFrame frames stops.
Active(p) == connected[p] /\ (online[p] => playFrame[p] < MaxFrame)

-----------------------------------------------------------------------------
\* Faulty forms of OnStart: the list of the earlier match is kept, or the
\* tick count of its last play frame is.
StartKeepsList(p) ==
  /\ Active(p)
  /\ pc[p] \in {"poll", "loop"}
  /\ down[p] # <<>>
  /\ Head(down[p]).kind = "start"
  /\ down' = [down EXCEPT ![p] = Tail(@)]
  /\ online' = [online EXCEPT ![p] = TRUE]
  /\ frame' = [frame EXCEPT ![p] = 0]
  /\ playFrame' = [playFrame EXCEPT ![p] = 0]
  /\ sendInLoop' = [sendInLoop EXCEPT ![p] = FALSE]
  /\ playDataList' = [playDataList EXCEPT ![p] = Append(@, NoInputs)]
  /\ ticks' = [ticks EXCEPT ![p] = 0]
  /\ applied' = [applied EXCEPT ![p] = <<>>]
  /\ UNCHANGED <<up, connected, pc, lateFrame>>

StartKeepsFrame(p) ==
  /\ Active(p)
  /\ pc[p] \in {"poll", "loop"}
  /\ down[p] # <<>>
  /\ Head(down[p]).kind = "start"
  /\ down' = [down EXCEPT ![p] = Tail(@)]
  /\ online' = [online EXCEPT ![p] = TRUE]
  /\ playFrame' = [playFrame EXCEPT ![p] = 0]
  /\ sendInLoop' = [sendInLoop EXCEPT ![p] = FALSE]
  /\ playDataList' = [playDataList EXCEPT ![p] = <<NoInputs>>]
  /\ ticks' = [ticks EXCEPT ![p] = 0]
  /\ applied' = [applied EXCEPT ![p] = <<>>]
  /\ UNCHANGED <<up, connected, pc, frame, lateFrame>>

\* OnStart, dispatched by client.Update.
OnStart(p) ==
  /\ Active(p)
  /\ pc[p] \in {"poll", "loop"}
  /\ down[p] # <<>>
  /\ Head(down[p]).kind = "start"
  /\ down' = [down EXCEPT ![p] = Tail(@)]
  /\ online' = [online EXCEPT ![p] = TRUE]
  /\ frame' = [frame EXCEPT ![p] = 0]
  /\ playFrame' = [playFrame EXCEPT ![p] = 0]
  /\ sendInLoop' = [sendInLoop EXCEPT ![p] = FALSE]
  /\ playDataList' = [playDataList EXCEPT ![p] = <<NoInputs>>]
  /\ ticks' = [ticks EXCEPT ![p] = 0]
  /\ applied' = [applied EXCEPT ![p] = <<>>]
  /\ UNCHANGED <<up, connected, pc, lateFrame>>

\* OnReceivePlayData, dispatched by client.Update.
OnReceivePlayData(p) ==
  /\ Active(p)
  /\ pc[p] \in {"poll", "loop"}
  /\ down[p] # <<>>
  /\ Head(down[p]).kind = "play"
  /\ down' = [down EXCEPT ![p] = Tail(@)]
  /\ playDataList' = [playDataList EXCEPT ![p] = Append(@, Head(down[p]).data)]
  /\ UNCHANGED <<up, connected, pc, online, frame, playFrame, sendInLoop,
                 lateFrame, ticks, applied>>

\* client.Update has found nothing more; the catch-up loop is entered if
\* more than one PlayData is waiting.
Polled(p) ==
  /\ Active(p)
  /\ pc[p] = "poll"
  /\ IF Len(playDataList[p]) > 1
       THEN /\ pc' = [pc EXCEPT ![p] = "loop"]
            /\ lateFrame' = [lateFrame EXCEPT ![p] = frame[p]]
            /\ sendInLoop' = [sendInLoop EXCEPT ![p] = TRUE]
       ELSE /\ pc' = [pc EXCEPT ![p] = "lock"]
            /\ UNCHANGED <<lateFrame, sendInLoop>>
  /\ UNCHANGED <<wireVars, online, frame, playFrame, playDataList, ticks, applied>>

-----------------------------------------------------------------------------
\* The tick that ends a play frame takes a PlayData.
AtBoundary(p) == frame[p] + 1 = WaitingInterval

\* What the phone sends in that tick: its input for the new play frame, and
\* a comparison once the match is old enough.
WillSend(p, inLoop) == ~inLoop \/ sendInLoop[p]

\* Faulty form of Sent: the message is built before playFrame is increased.
SentBeforeIncrement(p, inLoop) ==
  IF WillSend(p, inLoop) THEN <<InputMsg(playFrame[p])>> ELSE <<>>

Sent(p, inLoop) ==
  LET f == playFrame[p] + 1
      c == [ticks |-> ticks[p], applied |-> Append(applied[p], Head(playDataList[p]))]
  IN  (IF WillSend(p, inLoop) THEN <<InputMsg(f)>> ELSE <<>>)
        \o (IF f > CompareFrame THEN <<ComparisonMsg(f, c)>> ELSE <<>>)

\* Offline, or online and waiting for a PlayData: no step of the match.
LockIdle(p) ==
  /\ \/ ~online[p]
     \/ AtBoundary(p) /\ playDataList[p] = <<>>
  /\ UNCHANGED <<up, frame, playFrame, playDataList, sendInLoop, ticks, applied>>

LockTick(p) ==
  /\ online[p]
  /\ ~AtBoundary(p)
  /\ frame' = [frame EXCEPT ![p] = @ + 1]
  /\ ticks' = [ticks EXCEPT ![p] = @ + 1]
  /\ UNCHANGED <<up, playFrame, playDataList, sendInLoop, applied>>

\* Faulty forms of LockPlay: the list keeps its first element, or frame is
\* not set back.
LockPlayKeepsHead(p, inLoop) ==
  /\ online[p]
  /\ AtBoundary(p)
  /\ playDataList[p] # <<>>
  /\ frame' = [frame EXCEPT ![p] = 0]
  /\ playFrame' = [playFrame EXCEPT ![p] = @ + 1]
  /\ applied' = [applied EXCEPT ![p] = Append(@, Head(playDataList[p]))]
  /\ up' = [up EXCEPT ![p] = @ \o Sent(p, inLoop)]
  /\ sendInLoop' = [sendInLoop EXCEPT ![p] = @ /\ ~WillSend(p, inLoop)]
  /\ ticks' = [ticks EXCEPT ![p] = @ + 1]
  /\ UNCHANGED playDataList

LockPlayNoReset(p, inLoop) ==
  /\ online[p]
  /\ AtBoundary(p)
  /\ playDataList[p] # <<>>
  /\ frame' = [frame EXCEPT ![p] = @ + 1]
  /\ playFrame' = [playFrame EXCEPT ![p] = @ + 1]
  /\ playDataList' = [playDataList EXCEPT ![p] = Tail(@)]
  /\ applied' = [applied EXCEPT ![p] = Append(@, Head(playDataList[p]))]
  /\ up' = [up EXCEPT ![p] = @ \o Sent(p, inLoop)]
  /\ sendInLoop' = [sendInLoop EXCEPT ![p] = @ /\ ~WillSend(p, inLoop)]
  /\ ticks' = [ticks EXCEPT ![p] = @ + 1]

LockPlay(p, inLoop) ==
  /\ online[p]
  /\ AtBoundary(p)
  /\ playDataList[p] # <<>>
  /\ frame' = [frame EXCEPT ![p] = 0]
  /\ playFrame' = [playFrame EXCEPT ![p] = @ + 1]
  /\ playDataList' = [playDataList EXCEPT ![p] = Tail(@)]
  /\ applied' = [applied EXCEPT ![p] = Append(@, Head(playDataList[p]))]
  /\ up' = [up EXCEPT ![p] = @ \o Sent(p, inLoop)]
  /\ sendInLoop' = [sendInLoop EXCEPT ![p] = @ /\ ~WillSend(p, inLoop)]
  /\ ticks' = [ticks EXCEPT ![p] = @ + 1]

\* LockUpdate(inLoop)
LockUpdate(p, inLoop) == LockIdle(p) \/ LockTick(p) \/ LockPlay(p, inLoop)

\* LockUpdate(true) in the catch-up loop and the loop's condition.
CatchUp(p) ==
  /\ Active(p)
  /\ pc[p] = "loop"
  /\ LockUpdate(p, TRUE)
  /\ pc' = [pc EXCEPT ![p] =
              IF Len(playDataList'[p]) = 1 /\ frame'[p] = lateFrame[p]
                THEN "loop" ELSE "lock"]
  /\ UNCHANGED <<down, connected, online, lateFrame>>

\* The LockUpdate that ends the iteration.
Lock(p) ==
  /\ Active(p)
  /\ pc[p] = "lock"
  /\ LockUpdate(p, FALSE)
  /\ pc' = [pc EXCEPT ![p] = "poll"]
  /\ UNCHANGED <<down, connected, online, lateFrame>>

-----------------------------------------------------------------------------
\* The phone is gone (Disconnect, no network, or killed): what it had sent
\* may have reached the server up to any point, and it reads no more.
Leave(p) ==
  /\ connected[p]
  /\ connected' = [connected EXCEPT ![p] = FALSE]
  /\ \E n \in 0..Len(up[p]) : up' = [up EXCEPT ![p] = SubSeq(@, 1, n)]
  /\ down' = [down EXCEPT ![p] = <<>>]
  /\ UNCHANGED clientVars

ClientStep(p) ==
  \/ OnStart(p)
  \/ OnReceivePlayData(p)
  \/ Polled(p)
  \/ CatchUp(p)
  \/ Lock(p)
=============================================================================
