-------------------------------- MODULE Room --------------------------------
(***************************************************************************)
(* The room service (Server/src/service/room.lua): it gathers the inputs   *)
(* of a match and broadcasts, once per play frame, the PlayData that both  *)
(* phones apply.  The first input for the current frame arms a timeout;    *)
(* the second one plays at once.  A timeout is never cancelled: the one a  *)
(* played frame leaves behind still fires, in whatever frame is current.   *)
(*                                                                         *)
(* Time is relative: elapsed is skynet.now() - _timer, counted up to       *)
(* PlayInterval because a longer wait changes nothing (time < 0 becomes    *)
(* 0), and every pending timeout holds what is left of its delay.          *)
(***************************************************************************)
EXTENDS Wire

CONSTANT PlayInterval        \* play_interval of src/config, in clock ticks

ASSUME PlayIntervalAssumption == PlayInterval \in Nat \ {0}

VARIABLES
  running,     \* "new" until Start is handled, then "up", "gone" after Exit
  roomFrame,   \* _playFrame
  readyPlay,   \* _readyPlay
  inputMap,    \* _inputMap: the input held for each player
  elapsed,     \* now() - _timer, at most PlayInterval
  timers,      \* pending timeouts: [frame it was armed in, delay left]
  reports,     \* _comparsionHandler, as a set of [frame, player, content]
  mismatch,    \* a comparison of two different contents has been logged
  log          \* every PlayData so far (history); log[1] is the empty one
               \* with which each phone starts

roomVars == <<running, roomFrame, readyPlay, inputMap, elapsed, timers,
              reports, mismatch, log>>

Report == [frame : Nat, player : Players, content : Content]

RoomTypeOK ==
  /\ running \in {"new", "up", "gone"}
  /\ roomFrame \in Nat
  /\ readyPlay \in BOOLEAN
  /\ inputMap \in PlayData
  /\ elapsed \in 0..PlayInterval
  /\ timers \subseteq [frame : Nat, left : 0..PlayInterval]
  /\ reports \subseteq Report
  /\ mismatch \in BOOLEAN
  /\ log \in Seq(PlayData)

RoomInit ==
  /\ running = "new"
  /\ roomFrame = 1
  /\ readyPlay = FALSE
  /\ inputMap = NoInputs
  /\ elapsed = PlayInterval
  /\ timers = {}
  /\ reports = {}
  /\ mismatch = FALSE
  /\ log = <<NoInputs>>

-----------------------------------------------------------------------------
\* Faulty forms of Play, each checked to break a property: _readyPlay
\* or _inputMap is left as it was.
PlayStillReady(inputs) ==
  /\ down' = Delivered(PlayMsg(inputs))
  /\ log' = Append(log, inputs)
  /\ inputMap' = NoInputs
  /\ elapsed' = 0
  /\ roomFrame' = roomFrame + 1
  /\ UNCHANGED readyPlay

PlayKeepsInputs(inputs) ==
  /\ down' = Delivered(PlayMsg(inputs))
  /\ log' = Append(log, inputs)
  /\ inputMap' = inputs
  /\ readyPlay' = FALSE
  /\ elapsed' = 0
  /\ roomFrame' = roomFrame + 1

\* _FUNC.Play past its guard, with the given contents of _inputMap.
Play(inputs) ==
  /\ down' = Delivered(PlayMsg(inputs))
  /\ log' = Append(log, inputs)
  /\ inputMap' = NoInputs
  /\ readyPlay' = FALSE
  /\ elapsed' = 0
  /\ roomFrame' = roomFrame + 1

\* Faulty forms of Arm: the timeout does not wait, or is left out when the
\* interval is already over.
ArmAtOnce(inputs) ==
  /\ timers' = timers \cup {[frame |-> roomFrame, left |-> 0]}
  /\ readyPlay' = TRUE
  /\ inputMap' = inputs
  /\ UNCHANGED <<down, log, elapsed, roomFrame>>

ArmIfTimeLeft(inputs) ==
  /\ timers' = IF elapsed < PlayInterval
                 THEN timers \cup {[frame |-> roomFrame, left |-> PlayInterval - elapsed]}
                 ELSE timers
  /\ readyPlay' = TRUE
  /\ inputMap' = inputs
  /\ UNCHANGED <<down, log, elapsed, roomFrame>>

\* The first input of a frame: _readyPlay and skynet.timeout(time, Play).
Arm(inputs) ==
  /\ timers' = timers \cup {[frame |-> roomFrame, left |-> PlayInterval - elapsed]}
  /\ readyPlay' = TRUE
  /\ inputMap' = inputs
  /\ UNCHANGED <<down, log, elapsed, roomFrame>>

\* An input whose frame is not the current one is only kept.
Keep(inputs) ==
  /\ inputMap' = inputs
  /\ UNCHANGED <<down, log, readyPlay, elapsed, roomFrame, timers>>

\* _CMD.Start: the lobby's first message.
Start ==
  /\ running = "new"
  /\ running' = "up"
  /\ down' = Delivered(StartMsg)
  /\ UNCHANGED <<up, connected, roomFrame, readyPlay, inputMap, elapsed,
                 timers, reports, mismatch, log>>

\* _CMD.ReceiveInput
ReceiveInput(p) ==
  /\ running = "up"
  /\ up[p] # <<>>
  /\ Head(up[p]).kind = "input"
  /\ up' = [up EXCEPT ![p] = Tail(@)]
  /\ LET f      == Head(up[p]).frame
         inputs == [inputMap EXCEPT ![p] = f]
     IN  \/ f = roomFrame /\ readyPlay /\ Play(inputs) /\ UNCHANGED timers
         \/ f = roomFrame /\ ~readyPlay /\ Arm(inputs)
         \/ f # roomFrame /\ Keep(inputs)
  /\ UNCHANGED <<connected, running, reports, mismatch>>

\* A timeout reaches _FUNC.Play, which returns at once unless _readyPlay.
PlayTimeout ==
  /\ running = "up"
  /\ \E t \in timers :
        /\ t.left = 0
        /\ timers' = timers \ {t}
        /\ IF readyPlay
             THEN Play(inputMap)
             ELSE UNCHANGED <<down, log, inputMap, readyPlay, elapsed, roomFrame>>
  /\ UNCHANGED <<up, connected, running, reports, mismatch>>

\* _CMD.ReceiveComparison: the first content of a frame is kept; with the
\* last one they are compared and the frame is forgotten.
ReceiveComparison(p) ==
  /\ running = "up"
  /\ up[p] # <<>>
  /\ Head(up[p]).kind = "comparison"
  /\ up' = [up EXCEPT ![p] = Tail(@)]
  /\ LET m     == Head(up[p])
         mine  == [frame |-> m.frame, player |-> p, content |-> m.content]
         map   == {r \in reports : r.frame = m.frame /\ r.player # p} \cup {mine}
         older == {r \in reports : r.frame # m.frame}
     IN  IF {r.player : r \in map} = Players
           THEN /\ mismatch' = (mismatch \/ \E r, s \in map : r.content # s.content)
                /\ reports' = older
           ELSE /\ reports' = older \cup map
                /\ UNCHANGED mismatch
  /\ UNCHANGED <<down, connected, running, roomFrame, readyPlay, inputMap,
                 elapsed, timers, log>>

\* _CMD.Exit, sent by the lobby once the gate reports a player gone.
Exit ==
  /\ running = "up"
  /\ \E p \in Players : ~connected[p]
  /\ running' = "gone"
  /\ UNCHANGED <<wireVars, roomFrame, readyPlay, inputMap, elapsed, timers,
                 reports, mismatch, log>>

\* One tick of the skynet clock.
Tick ==
  /\ elapsed' = IF elapsed < PlayInterval THEN elapsed + 1 ELSE elapsed
  /\ timers' = {[t EXCEPT !.left = IF @ > 0 THEN @ - 1 ELSE 0] : t \in timers}
  /\ UNCHANGED <<wireVars, running, roomFrame, readyPlay, inputMap, reports,
                 mismatch, log>>

RoomStep ==
  \/ Start
  \/ PlayTimeout
  \/ Exit
  \/ Tick
  \/ \E p \in Players : ReceiveInput(p) \/ ReceiveComparison(p)
=============================================================================
