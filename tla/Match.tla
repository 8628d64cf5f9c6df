------------------------------- MODULE Match -------------------------------
(***************************************************************************)
(* The course of the game on one phone: the screens and their slots        *)
(* (UI/Interface.cs, Slots), the camera, the judge with its shot timer     *)
(* (Field/Judge.cs), the ball as far as the rules see it (Field/Ball.cs),  *)
(* and the connection as it meddles with them (Networkmgr.cs).             *)
(*                                                                         *)
(* The parts know each other by callbacks only, and each of them assumes   *)
(* that the others are where they should be: Interface has one timer for   *)
(* Clear and for Result, whose callback the next call replaces, the server *)
(* starts a match and a connection ends whatever the player is looking at. *)
(*                                                                         *)
(* Timers and tweens fire at any tick; the ball leaves the field wherever  *)
(* physics lets it.  A click is handled between two calls of Update, so    *)
(* not while an exitCode waits for its handling.                           *)
(***************************************************************************)
EXTENDS Integers, FiniteSets

CONSTANT ScoreMax  \* scoreMax

ASSUME ScoreAssumption == ScoreMax \in Nat \ {0}

VARIABLES
  ui,          \* what Interface shows
  eventSystem, \* clicks reach the buttons
  pending,     \* the callback of Interface's timer, "none" if not running
  camera,      \* targets of the camera's moves under way
  gameType,    \* Judge.GameType
  player,      \* Judge.PlayerType
  isRunning,   \* Judge.isRunning
  score,       \* [teams -> score]
  aShooted,    \* aShooted
  shotTimer,   \* Judge.timer is running
  ball,        \* "off": not active; "air", "down": hasDown
  connected,   \* client.Connected
  online,      \* Networkmgr's online
  exitCode     \* Networkmgr's exitCode

uiVars    == <<ui, eventSystem, pending, camera>>
judgeVars == <<isRunning, score, aShooted, shotTimer>>
netVars   == <<connected, online, exitCode>>
vars      == <<uiVars, gameType, player, judgeVars, ball, netVars>>

Team    == {"A", "B"}
Posters == {"logo", "title", "count", "result"}
Buttons == {"buttons", "cancel", "back"}
Clears  == {"opening", "PVE", "PVP", "help", "connect", "cancel"}
Results == {"victory", "failed"}

TypeOK ==
  /\ ui \subseteq Posters \cup Buttons \cup {"label", "help"}
  /\ eventSystem \in BOOLEAN
  /\ pending \in {"none"} \cup Clears \cup Results
  /\ camera \subseteq {"Opening"} \cup Team
  /\ gameType \in {"NONE", "PVE", "PVP"}
  /\ player \in Team
  /\ isRunning \in BOOLEAN
  /\ score \in [Team -> 0..ScoreMax]
  /\ aShooted \in BOOLEAN
  /\ shotTimer \in BOOLEAN
  /\ ball \in {"off", "air", "down"}
  /\ connected \in BOOLEAN
  /\ online \in BOOLEAN
  /\ exitCode \in {"none", "normal", "refused"}

Init ==
  /\ ui = {"logo"}
  /\ eventSystem = TRUE
  /\ pending = "none"
  /\ camera = {}
  /\ gameType = "NONE"
  /\ player = "B"
  /\ isRunning = FALSE
  /\ score = [t \in Team |-> 0]
  /\ aShooted = FALSE
  /\ shotTimer = FALSE
  /\ ball = "off"
  /\ connected = FALSE
  /\ online = FALSE
  /\ exitCode = "none"

-----------------------------------------------------------------------------
\* Interface.Clear: whatever the timer was running for is replaced.
Clear(kind) == eventSystem' = FALSE /\ pending' = kind

\* Networkmgr.Disconnect and OnDisconnect.
Disconnect(code) ==
  /\ connected' = FALSE
  /\ exitCode' = IF connected THEN code ELSE exitCode

Click(button, kind) ==
  /\ button \in ui
  /\ eventSystem
  /\ exitCode = "none"
  /\ Clear(kind)
  /\ UNCHANGED <<ui, camera, gameType, player, judgeVars, ball, netVars>>

ClickPVP    == Click("buttons", "connect")
ClickPVE    == Click("buttons", "PVE")
ClickHelp   == Click("buttons", "help")
ClickCancel == Click("cancel", "cancel")
ClickBack   == Click("back", "opening")

\* Help looks at the mouse itself.
LeaveHelp ==
  /\ "help" \in ui
  /\ ui' = (ui \ {"help"}) \cup {"buttons"}
  /\ UNCHANGED <<eventSystem, pending, camera, gameType, player, judgeVars, ball,
                 netVars>>

-----------------------------------------------------------------------------
\* SwitchScene.OnComplete after TickClear.
SwitchScene ==
  /\ pending \in {"opening", "PVE", "PVP"}
  /\ pending' = "none"
  /\ eventSystem' = TRUE
  /\ ui' = {}
  /\ gameType' = IF pending = "opening" THEN "NONE" ELSE pending
  /\ player' = IF pending = "PVE" THEN "B" ELSE player
  /\ camera' = camera \cup {IF pending = "opening" THEN "Opening" ELSE player'}
  /\ UNCHANGED <<judgeVars, ball, netVars>>

\* SwtichUI.OnComplete and Match.OnComplete after TickClear.
SwitchUI ==
  /\ pending \in {"help", "connect", "cancel"}
  /\ pending' = "none"
  /\ eventSystem' = TRUE
  /\ ui' = (ui \cap Posters) \cup
             {CASE pending = "help" -> "help"
                [] pending = "connect" -> "label"
                [] pending = "cancel" -> "buttons"}
  /\ CASE pending = "help" -> UNCHANGED <<connected, exitCode>>
       [] pending = "connect" -> connected' = TRUE /\ UNCHANGED exitCode
       [] pending = "cancel" -> Disconnect("normal")
  /\ UNCHANGED <<camera, gameType, player, judgeVars, ball, online>>

TickResult ==
  /\ pending \in Results
  /\ pending' = "none"
  /\ ui' = ui \cup {"result"}
  /\ UNCHANGED <<eventSystem, camera, gameType, player, judgeVars, ball, netVars>>

-----------------------------------------------------------------------------
\* What shows up by itself: the chain of posters of the logo, the Cancel
\* button after the label, Back after the result.
TitleShown ==
  /\ "logo" \in ui
  /\ ui' = (ui \ {"logo"}) \cup {"title", "buttons"}
  /\ UNCHANGED <<eventSystem, pending, camera, gameType, player, judgeVars, ball,
                 netVars>>

CancelShown ==
  /\ "label" \in ui /\ "cancel" \notin ui
  /\ ui' = ui \cup {"cancel"}
  /\ UNCHANGED <<eventSystem, pending, camera, gameType, player, judgeVars, ball,
                 netVars>>

BackShown ==
  /\ "result" \in ui /\ "back" \notin ui
  /\ ui' = ui \cup {"back"}
  /\ UNCHANGED <<eventSystem, pending, camera, gameType, player, judgeVars, ball,
                 netVars>>

\* The count ends with Fight, whose last slot sets Judge.IsRunning.
CountEnd ==
  /\ "count" \in ui
  /\ ui' = ui \ {"count"}
  /\ isRunning' = TRUE
  /\ shotTimer' = TRUE
  /\ UNCHANGED <<eventSystem, pending, camera, gameType, player, score, aShooted,
                 ball, netVars>>

\* Faulty form of OpeningEnd: the turn is not reset.
OpeningKeepsTurn ==
  /\ "Opening" \in camera
  /\ camera' = camera \ {"Opening"}
  /\ score' = [t \in Team |-> 0]
  /\ ui' = ui \cup {"logo"}
  /\ UNCHANGED <<eventSystem, pending, gameType, player, isRunning, aShooted,
                 shotTimer, ball, netVars>>

\* Faulty form of OpeningEnd: the scores are not reset.
OpeningKeepsScore ==
  /\ "Opening" \in camera
  /\ camera' = camera \ {"Opening"}
  /\ aShooted' = FALSE
  /\ ui' = ui \cup {"logo"}
  /\ UNCHANGED <<eventSystem, pending, gameType, player, isRunning, score,
                 shotTimer, ball, netVars>>

\* ViceCamera.OnEndEvent: Judge.Reset and Interface.OnCameraEnd.
OpeningEnd ==
  /\ "Opening" \in camera
  /\ camera' = camera \ {"Opening"}
  /\ aShooted' = FALSE
  /\ score' = [t \in Team |-> 0]
  /\ ui' = ui \cup {"logo"}
  /\ UNCHANGED <<eventSystem, pending, gameType, player, isRunning, shotTimer,
                 ball, netVars>>

CameraEnd ==
  \E t \in camera \cap Team :
    /\ camera' = camera \ {t}
    /\ ui' = ui \cup {"count"}
    /\ UNCHANGED <<eventSystem, pending, gameType, player, judgeVars, ball, netVars>>

-----------------------------------------------------------------------------
\* Judge.timer is over: TickShoot and Shooter.Shoot.
TickShoot ==
  /\ isRunning
  /\ shotTimer
  /\ shotTimer' = FALSE
  /\ aShooted' = ~aShooted
  /\ ball' = IF ball = "off" THEN "air" ELSE ball
  /\ UNCHANGED <<uiVars, gameType, player, isRunning, score, netVars>>

\* Ball.OnCollide for the first time.
BallDown ==
  /\ ball = "air"
  /\ ball' = "down"
  /\ UNCHANGED <<uiVars, gameType, player, judgeVars, netVars>>

\* The ball leaves the field: Ball.LockUpdate and Judge.Gain.
Gain(t) ==
  /\ ball = "down"
  /\ ball' = "off"
  /\ score' = [score EXCEPT ![t] = @ + 1]
  /\ IF \E u \in Team : score'[u] = ScoreMax
       THEN /\ isRunning' = FALSE
            /\ Disconnect("normal")
            /\ pending' = IF score'[player] >= ScoreMax THEN "victory" ELSE "failed"
            /\ UNCHANGED shotTimer
       ELSE /\ shotTimer' = TRUE
            /\ UNCHANGED <<isRunning, connected, exitCode, pending>>
  /\ UNCHANGED <<ui, eventSystem, camera, gameType, player, aShooted, online>>

-----------------------------------------------------------------------------
\* OnStart: the server starts one match per connection, with either side.
OnStart ==
  /\ connected
  /\ ~online
  /\ player' \in Team
  /\ Clear("PVP")
  /\ online' = TRUE
  /\ exitCode' = "none"
  /\ UNCHANGED <<ui, camera, gameType, judgeVars, ball, connected>>

\* OnConnect: the server is full, or the version old.
Refused ==
  /\ connected
  /\ ~online
  /\ Disconnect("refused")
  /\ UNCHANGED <<uiVars, gameType, player, judgeVars, ball, online>>

\* The client disconnects: no heartbeat, an error.
Lost ==
  /\ connected
  /\ Disconnect("normal")
  /\ UNCHANGED <<uiVars, gameType, player, judgeVars, ball, online>>

\* Faulty form of HandleExit: a match that was being played is left too.
ExitAlways ==
  /\ exitCode # "none"
  /\ exitCode' = "none"
  /\ online' = FALSE
  /\ gameType' = IF gameType = "PVP" THEN "PVE" ELSE gameType
  /\ IF exitCode = "normal" THEN Clear("cancel") ELSE UNCHANGED <<eventSystem, pending>>
  /\ UNCHANGED <<ui, camera, player, judgeVars, ball, connected>>

\* Faulty form of HandleExit: the game goes on as PVP.
ExitKeepsType ==
  /\ exitCode # "none"
  /\ exitCode' = "none"
  /\ online' = FALSE
  /\ IF gameType # "PVP" /\ exitCode = "normal" THEN Clear("cancel")
     ELSE UNCHANGED <<eventSystem, pending>>
  /\ UNCHANGED <<ui, camera, gameType, player, judgeVars, ball, connected>>

\* The end of Networkmgr.Update.
HandleExit ==
  /\ exitCode # "none"
  /\ exitCode' = "none"
  /\ online' = FALSE
  /\ gameType' = IF gameType = "PVP" THEN "PVE" ELSE gameType
  /\ IF gameType # "PVP" /\ exitCode = "normal" THEN Clear("cancel")
     ELSE UNCHANGED <<eventSystem, pending>>
  /\ UNCHANGED <<ui, camera, player, judgeVars, ball, connected>>

-----------------------------------------------------------------------------
Clicks == ClickPVP \/ ClickPVE \/ ClickHelp \/ ClickCancel \/ ClickBack \/ LeaveHelp

Shows == TitleShown \/ CancelShown \/ BackShown \/ CountEnd \/ OpeningEnd \/ CameraEnd

InterfaceTick == SwitchScene \/ SwitchUI \/ TickResult

Play == TickShoot \/ BallDown \/ \E t \in Team : Gain(t)

Network == OnStart \/ Refused \/ Lost \/ HandleExit

Next == Clicks \/ Shows \/ InterfaceTick \/ Play \/ Network

Spec == Init /\ [][Next]_vars

-----------------------------------------------------------------------------
\* The game is in one scene and never between them with nothing to come: no
\* button of the title stays on the screen in a match, no match starts over
\* a running one, and no screen stays empty.
Scenes ==
  (ui \cap {"logo", "buttons", "help", "label", "count", "result"})
    \cup {"moving" : t \in camera}
    \cup (IF isRunning THEN {"running"} ELSE {})
    \cup (IF pending \in Results THEN {"result"} ELSE {})

OneScene == Cardinality(Scenes) = 1 /\ Cardinality(camera) <= 1

\* In a match there is a shot to come or a ball on the field, never both and
\* never neither; outside of one there is none of them.
ShotOrBall ==
  IF isRunning THEN shotTimer <=> ball = "off" ELSE ball = "off" /\ ~shotTimer

\* The teams shoot in turn, B first, in the second match as in the first.
ShotsInTurn ==
  aShooted <=> (score["A"] + score["B"] + (IF ball = "off" THEN 0 ELSE 1)) % 2 = 1

\* The course of shots: one at a time and in turn, over the matches' borders.
ShotCycle == ShotOrBall /\ ShotsInTurn

\* A match starts with no score, and is over when a team has scoreMax: the
\* scores of the one before are there until the camera is back, and nothing
\* but the order of the screens keeps the next match from starting earlier.
FreshStart == "count" \in ui => \A t \in Team : score[t] = 0
OverAtMax  == isRunning => \A t \in Team : score[t] < ScoreMax
ScoresFit  == FreshStart /\ OverAtMax

\* Clear switches the event system off and only its own callback switches it
\* on again: it is never replaced by Result, which would leave the player
\* with buttons that do not react.
ButtonsReact == ~eventSystem => pending \in Clears

\* What the player sees is one scene, and one that can be left.
LiveScene == OneScene /\ ButtonsReact

\* The connection fits what the player sees, wherever it was made or ended.
\* First, the inputs of a brick go by the server exactly if LockUpdate waits
\* for the server's PlayData.
PvpIsOnline == (gameType = "PVP" \/ pending = "PVP") <=> online

\* Second, a connection is being waited for, with a label and Cancel, or it
\* is the one the match is played over.
NoHiddenConnection == connected => "label" \in ui \/ gameType = "PVP"

ConnectionFits == PvpIsOnline /\ NoHiddenConnection
=============================================================================
