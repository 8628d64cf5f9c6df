---------------------------- MODULE MatchProofs ----------------------------
(***************************************************************************)
(* The course of the game on one phone, for every scoreMax.  The parts of  *)
(* Match hold each other together by where the game is, which no variable  *)
(* says: Stage is that, a disjunction of the ten places a phone can be in, *)
(* each with all that is on the screen, to come and connected there.       *)
(***************************************************************************)
EXTENDS Match, FiniteSetTheorems, TLAPS

Idle   == pending = "none" /\ eventSystem
Apart  == ~online /\ ~connected /\ exitCode = "none"
NoShot == ~isRunning /\ ~shotTimer /\ ball = "off"
Zeros  == score["A"] = 0 /\ score["B"] = 0

\* Clear has been called for one of kinds.
Clearing(kinds) == pending \in kinds /\ ~eventSystem

\* An end is handled before the next connection is made.
OneTale == connected => exitCode = "none"

\* The server has started a match, whose end may wait to be handled.
Matched ==
  /\ online
  /\ connected <=> exitCode = "none"
  /\ exitCode # "refused"

\* A match against the machine, or one over the connection.
Played == (gameType = "PVE" /\ Apart) \/ (gameType = "PVP" /\ Matched)

\* The same when somebody has won.
Finished == Played /\ ~connected

\* The screens of the title.
AtTitle == camera = {} /\ gameType = "NONE" /\ NoShot /\ Zeros

Logo == AtTitle /\ ui = {"logo"} /\ Idle /\ Apart

Menu ==
  /\ AtTitle /\ ui = {"title", "buttons"}
  /\ ~online /\ ~connected
  /\ Idle \/ (Clearing({"PVE", "cancel", "connect", "help"}) /\ exitCode = "none")

Helping == AtTitle /\ ui = {"title", "help"} /\ Idle /\ Apart

\* Waiting for an opponent.
Labelled ==
  /\ AtTitle /\ ui \in {{"title", "label"}, {"title", "label", "cancel"}}
  /\ \/ ~online /\ OneTale /\ (Idle \/ Clearing({"cancel"}))
     \/ Clearing({"PVP"}) /\ Matched

\* A match, from the camera's way to the field to its way back.
Arriving == ui = {} /\ camera \in {{"A"}, {"B"}} /\ Idle /\ Played /\ NoShot /\ Zeros

Counting == ui = {"count"} /\ camera = {} /\ Idle /\ Played /\ NoShot /\ Zeros

Running ==
  /\ ui = {} /\ camera = {} /\ Idle /\ Played
  /\ isRunning /\ (shotTimer <=> ball = "off")
  /\ score["A"] < ScoreMax /\ score["B"] < ScoreMax

Decided ==
  ui = {} /\ camera = {} /\ pending \in Results /\ eventSystem /\ Finished /\ NoShot

Shown ==
  /\ ui \in {{"result"}, {"result", "back"}}
  /\ camera = {} /\ Finished /\ NoShot
  /\ Idle \/ (Clearing({"opening"}) /\ gameType = "PVE")

Leaving ==
  ui = {} /\ camera = {"Opening"} /\ gameType = "NONE" /\ Idle /\ Apart /\ NoShot

Stage ==
  \/ Logo \/ Menu \/ Helping \/ Labelled
  \/ Arriving \/ Counting \/ Running \/ Decided \/ Shown \/ Leaving

MatchInv == TypeOK /\ Stage /\ ShotsInTurn

-----------------------------------------------------------------------------
\* The numbers of goals alternate with the turns.
LEMMA Odd == ASSUME NEW n \in Nat
             PROVE  n % 2 = 1 <=> (n + 1) % 2 # 1
  OBVIOUS

\* A click changes nothing but the callback of Interface's timer.
LEMMA ClickStep ==
  ASSUME MatchInv, Clicks
  PROVE  MatchInv'
<1> USE DEF MatchInv
<1>1. CASE ClickPVP \/ ClickPVE \/ ClickHelp
  <2>1. /\ "buttons" \in ui /\ eventSystem /\ exitCode = "none" /\ eventSystem' = FALSE
        /\ pending' \in {"connect", "PVE", "help"}
        /\ UNCHANGED <<ui, camera, gameType, player, judgeVars, ball, netVars>>
    BY <1>1 DEF ClickPVP, ClickPVE, ClickHelp, Click, Clear
  <2>2. Menu
    BY <2>1 DEF Stage, Logo, Helping, Labelled, Arriving, Counting, Running, Decided,
       Shown, Leaving
  <2>3. Menu'
    BY <2>1, <2>2 DEF Menu, AtTitle, NoShot, Zeros, Clearing, judgeVars, netVars
  <2>4. TypeOK' /\ ShotsInTurn'
    BY <2>1 DEF TypeOK, Clears, ShotsInTurn, judgeVars, netVars
  <2> QED BY <2>3, <2>4 DEF Stage
<1>2. CASE ClickCancel
  <2>1. /\ "cancel" \in ui /\ eventSystem /\ exitCode = "none" /\ eventSystem' = FALSE
        /\ pending' = "cancel"
        /\ UNCHANGED <<ui, camera, gameType, player, judgeVars, ball, netVars>>
    BY <1>2 DEF ClickCancel, Click, Clear
  <2>2. Labelled
    BY <2>1 DEF Stage, Logo, Menu, Helping, Arriving, Counting, Running, Decided,
       Shown, Leaving
  <2>3. Labelled'
    BY <2>1, <2>2 DEF Labelled, AtTitle, NoShot, Zeros, Clearing, OneTale, judgeVars,
       netVars
  <2>4. TypeOK' /\ ShotsInTurn'
    BY <2>1 DEF TypeOK, Clears, ShotsInTurn, judgeVars, netVars
  <2> QED BY <2>3, <2>4 DEF Stage
<1>3. CASE ClickBack
  <2>1. /\ "back" \in ui /\ eventSystem /\ exitCode = "none" /\ eventSystem' = FALSE
        /\ pending' = "opening"
        /\ UNCHANGED <<ui, camera, gameType, player, judgeVars, ball, netVars>>
    BY <1>3 DEF ClickBack, Click, Clear
  <2>2. Shown
    BY <2>1 DEF Stage, Logo, Menu, Helping, Labelled, Arriving, Counting, Running,
       Decided, Leaving
  <2>3. Shown'
    BY <2>1, <2>2 DEF Shown, Finished, Played, Apart, Matched, NoShot, Clearing,
       judgeVars, netVars
  <2>4. TypeOK' /\ ShotsInTurn'
    BY <2>1 DEF TypeOK, Clears, ShotsInTurn, judgeVars, netVars
  <2> QED BY <2>3, <2>4 DEF Stage
<1>4. CASE LeaveHelp
  <2>1. Helping
    BY <1>4 DEF LeaveHelp, Stage, Logo, Menu, Labelled, Arriving, Counting, Running,
       Decided, Shown, Leaving
  <2>2. ui' = {"title", "buttons"}
    BY <1>4, <2>1 DEF LeaveHelp, Helping
  <2>3. Menu'
    BY <1>4, <2>1, <2>2 DEF LeaveHelp, Helping, Menu, AtTitle, Idle, Apart, NoShot,
       Zeros, judgeVars, netVars
  <2>4. TypeOK' /\ ShotsInTurn'
    BY <1>4, <2>2 DEF LeaveHelp, TypeOK, Posters, Buttons, ShotsInTurn, judgeVars,
       netVars
  <2> QED BY <2>3, <2>4 DEF Stage
<1> QED BY <1>1, <1>2, <1>3, <1>4 DEF Clicks

\* What shows up by itself.
LEMMA ShowStep ==
  ASSUME MatchInv, Shows
  PROVE  MatchInv'
<1> USE DEF MatchInv
<1>1. CASE TitleShown
  <2>1. Logo
    BY <1>1 DEF TitleShown, Stage, Menu, Helping, Labelled, Arriving, Counting, Running,
       Decided, Shown, Leaving
  <2>2. ui' = {"title", "buttons"}
    BY <1>1, <2>1 DEF TitleShown, Logo
  <2>3. Menu'
    BY <1>1, <2>1, <2>2 DEF TitleShown, Logo, Menu, AtTitle, Idle, Apart, NoShot, Zeros,
       judgeVars, netVars
  <2>4. TypeOK' /\ ShotsInTurn'
    BY <1>1, <2>2 DEF TitleShown, TypeOK, Posters, Buttons, ShotsInTurn, judgeVars,
       netVars
  <2> QED BY <2>3, <2>4 DEF Stage
<1>2. CASE CancelShown
  <2>1. Labelled
    BY <1>2 DEF CancelShown, Stage, Logo, Menu, Helping, Arriving, Counting, Running,
       Decided, Shown, Leaving
  <2>2. ui' = {"title", "label", "cancel"}
    BY <1>2, <2>1 DEF CancelShown, Labelled
  <2>3. Labelled'
    BY <1>2, <2>1, <2>2 DEF CancelShown, Labelled, AtTitle, Idle, OneTale, Matched,
       Clearing, NoShot, Zeros, judgeVars, netVars
  <2>4. TypeOK' /\ ShotsInTurn'
    BY <1>2, <2>2 DEF CancelShown, TypeOK, Posters, Buttons, ShotsInTurn, judgeVars,
       netVars
  <2> QED BY <2>3, <2>4 DEF Stage
<1>3. CASE BackShown
  <2>1. Shown
    BY <1>3 DEF BackShown, Stage, Logo, Menu, Helping, Labelled, Arriving, Counting,
       Running, Decided, Leaving
  <2>2. ui' = {"result", "back"}
    BY <1>3, <2>1 DEF BackShown, Shown
  <2>3. Shown'
    BY <1>3, <2>1, <2>2 DEF BackShown, Shown, Idle, Finished, Played, Apart, Matched,
       Clearing, NoShot, judgeVars, netVars
  <2>4. TypeOK' /\ ShotsInTurn'
    BY <1>3, <2>2 DEF BackShown, TypeOK, Posters, Buttons, ShotsInTurn, judgeVars,
       netVars
  <2> QED BY <2>3, <2>4 DEF Stage
<1>4. CASE CountEnd
  <2>1. Counting
    BY <1>4 DEF CountEnd, Stage, Logo, Menu, Helping, Labelled, Arriving, Running,
       Decided, Shown, Leaving
  <2>2. ui' = {}
    BY <1>4, <2>1 DEF CountEnd, Counting
  <2>3. Running'
    BY <1>4, <2>1, <2>2, ScoreAssumption DEF CountEnd, Counting, Running, Idle, Played,
       Apart, Matched, NoShot, Zeros, netVars
  <2>4. TypeOK' /\ ShotsInTurn'
    BY <1>4, <2>2 DEF CountEnd, TypeOK, ShotsInTurn, netVars
  <2> QED BY <2>3, <2>4 DEF Stage
<1>5. CASE OpeningEnd
  <2>1. Leaving
    BY <1>5 DEF OpeningEnd, Stage, AtTitle, Logo, Menu, Helping, Labelled, Arriving,
       Counting, Running, Decided, Shown
  <2>2. ui' = {"logo"} /\ camera' = {}
    BY <1>5, <2>1 DEF OpeningEnd, Leaving
  <2>3. Zeros'
    BY <1>5 DEF OpeningEnd, Zeros, Team
  <2>4. Logo'
    BY <1>5, <2>1, <2>2, <2>3 DEF OpeningEnd, Leaving, Logo, AtTitle, Idle, Apart, NoShot,
       netVars
  <2>5. TypeOK'
    <3>1. score' \in [Team -> 0..ScoreMax]
      BY <1>5, ScoreAssumption DEF OpeningEnd
    <3>2. ui' \subseteq Posters /\ aShooted' \in BOOLEAN
      BY <1>5, <2>2 DEF OpeningEnd, Posters
    <3> QED BY <1>5, <2>2, <3>1, <3>2 DEF OpeningEnd, TypeOK, netVars
  <2>6. ShotsInTurn'
    BY <1>5, <2>3, <2>4 DEF OpeningEnd, Logo, AtTitle, NoShot, ShotsInTurn, Zeros
  <2> QED BY <2>4, <2>5, <2>6 DEF Stage
<1>6. CASE CameraEnd
  <2>1. PICK t \in camera \cap Team : camera' = camera \ {t}
    BY <1>6 DEF CameraEnd
  <2>2. /\ ui' = ui \cup {"count"}
        /\ UNCHANGED <<eventSystem, pending, gameType, player, judgeVars, ball, netVars>>
    BY <1>6 DEF CameraEnd
  <2>3. Arriving
    BY <2>1 DEF Stage, Team, AtTitle, Logo, Menu, Helping, Labelled, Counting, Running,
       Decided, Shown, Leaving
  <2>4. camera' = {} /\ ui' = {"count"}
    BY <2>1, <2>2, <2>3 DEF Arriving
  <2>5. Counting'
    BY <2>2, <2>3, <2>4 DEF Arriving, Counting, Idle, Played, Apart, Matched, NoShot,
       Zeros, judgeVars, netVars
  <2>6. TypeOK' /\ ShotsInTurn'
    BY <2>2, <2>4 DEF TypeOK, Posters, ShotsInTurn, judgeVars, netVars
  <2> QED BY <2>5, <2>6 DEF Stage
<1> QED BY <1>1, <1>2, <1>3, <1>4, <1>5, <1>6 DEF Shows

\* The callbacks of Interface's one timer.
LEMMA InterfaceStep ==
  ASSUME MatchInv, InterfaceTick
  PROVE  MatchInv'
<1> USE DEF MatchInv
<1>1. CASE SwitchScene
  <2>1. /\ pending \in {"opening", "PVE", "PVP"} /\ pending' = "none" /\ eventSystem'
        /\ ui' = {} /\ UNCHANGED <<judgeVars, ball, netVars>>
    BY <1>1 DEF SwitchScene
  <2>2. player' \in Team
    BY <1>1 DEF SwitchScene, TypeOK, Team
  <2>3. CASE pending = "opening"
    <3>1. Shown /\ gameType = "PVE"
      BY <2>3 DEF Stage, Idle, Clearing, Logo, Menu, Helping, Labelled, Arriving,
         Counting, Running, Decided, Results, Shown, Leaving
    <3>2. camera' = {"Opening"} /\ gameType' = "NONE"
      BY <1>1, <2>3, <3>1 DEF SwitchScene, Shown
    <3>3. Leaving'
      BY <2>1, <3>1, <3>2 DEF Leaving, Shown, Finished, Played, Idle, Apart, Matched,
         NoShot, judgeVars, netVars
    <3>4. TypeOK'
      BY <2>1, <2>2, <3>2 DEF TypeOK, judgeVars, netVars
    <3> QED BY <2>1, <3>3, <3>4 DEF Stage, ShotsInTurn, judgeVars
  <2>4. CASE pending = "PVE"
    <3>1. Menu
      BY <2>4 DEF Stage, Idle, Clearing, Logo, Helping, Labelled, Arriving,
         Counting, Running, Decided, Results, Shown, Leaving
    <3>2. camera' = {"B"} /\ gameType' = "PVE"
      BY <1>1, <2>4, <3>1 DEF SwitchScene, Menu, AtTitle
    <3>3. Arriving'
      BY <2>1, <2>4, <3>1, <3>2 DEF Arriving, Menu, AtTitle, Played, Idle, Apart, NoShot,
         Zeros, judgeVars, netVars
    <3>4. TypeOK'
      BY <2>1, <2>2, <3>2 DEF TypeOK, Team, judgeVars, netVars
    <3> QED BY <2>1, <3>3, <3>4 DEF Stage, ShotsInTurn, judgeVars
  <2>5. CASE pending = "PVP"
    <3>1. Labelled /\ Matched
      BY <2>5 DEF Stage, Idle, Clearing, Logo, Menu, Helping, Labelled, Arriving,
         Counting, Running, Decided, Results, Shown, Leaving
    <3>2. camera' = {player'} /\ gameType' = "PVP"
      BY <1>1, <2>5, <3>1 DEF SwitchScene, Labelled, AtTitle
    <3>3. camera' \in {{"A"}, {"B"}}
      BY <2>2, <3>2 DEF Team
    <3>4. Arriving'
      BY <2>1, <3>1, <3>2, <3>3 DEF Arriving, Labelled, AtTitle, Played, Idle,
         Matched, NoShot, Zeros, judgeVars, netVars
    <3>5. TypeOK'
      BY <2>1, <2>2, <3>2 DEF TypeOK, Team, judgeVars, netVars
    <3> QED BY <2>1, <3>4, <3>5 DEF Stage, ShotsInTurn, judgeVars
  <2> QED BY <2>1, <2>3, <2>4, <2>5
<1>2. CASE SwitchUI
  <2>1. /\ pending \in {"help", "connect", "cancel"} /\ pending' = "none" /\ eventSystem'
        /\ UNCHANGED <<camera, gameType, player, judgeVars, ball, online>>
    BY <1>2 DEF SwitchUI
  <2>2. CASE pending = "help"
    <3>1. Menu /\ exitCode = "none"
      BY <2>2 DEF Stage, Idle, Clearing, Logo, Menu, Helping, Labelled, Arriving,
         Counting, Running, Decided, Results, Shown, Leaving
    <3>2. /\ ui' = (ui \cap Posters) \cup {"help"}
          /\ UNCHANGED <<connected, exitCode>>
      BY <1>2, <2>2 DEF SwitchUI
    <3>3. ui' = {"title", "help"}
      BY <3>1, <3>2 DEF Menu, Posters
    <3>4. Helping'
      BY <2>1, <3>1, <3>2, <3>3 DEF Menu, Helping, AtTitle, Idle, Apart, NoShot, Zeros,
         judgeVars
    <3>5. TypeOK' /\ ShotsInTurn'
      BY <2>1, <3>2, <3>3 DEF TypeOK, Posters, ShotsInTurn, judgeVars
    <3> QED BY <3>4, <3>5 DEF Stage
  <2>3. CASE pending = "connect"
    <3>1. Menu /\ exitCode = "none"
      BY <2>3 DEF Stage, Idle, Clearing, Logo, Menu, Helping, Labelled, Arriving,
         Counting, Running, Decided, Results, Shown, Leaving
    <3>2. /\ ui' = (ui \cap Posters) \cup {"label"}
          /\ connected' /\ UNCHANGED exitCode
      BY <1>2, <2>3 DEF SwitchUI
    <3>3. connected' \in BOOLEAN
      BY <1>2, <2>3 DEF SwitchUI
    <3>4. ui' = {"title", "label"}
      BY <3>1, <3>2 DEF Menu, Posters
    <3>5. Labelled'
      BY <2>1, <3>1, <3>2, <3>4 DEF Menu, Labelled, AtTitle, Idle, OneTale, NoShot, Zeros,
         judgeVars
    <3>6. TypeOK' /\ ShotsInTurn'
      BY <2>1, <3>2, <3>3, <3>4 DEF TypeOK, Posters, ShotsInTurn, judgeVars
    <3> QED BY <3>5, <3>6 DEF Stage
  <2>4. CASE pending = "cancel"
    <3>1. (Menu \/ Labelled) /\ ~online
      BY <2>4 DEF Stage, Idle, Clearing, Logo, Menu, Helping, Labelled, Arriving,
         Counting, Running, Decided, Results, Shown, Leaving
    <3>2. /\ ui' = (ui \cap Posters) \cup {"buttons"}
          /\ connected' = FALSE
          /\ exitCode' = IF connected THEN "normal" ELSE exitCode
      BY <1>2, <2>4 DEF SwitchUI, Disconnect
    <3>3. ui' = {"title", "buttons"}
      BY <3>1, <3>2 DEF Menu, Labelled, Posters
    <3>4. Menu'
      BY <2>1, <3>1, <3>2, <3>3 DEF Menu, Labelled, AtTitle, Idle, NoShot, Zeros,
         judgeVars
    <3>5. TypeOK' /\ ShotsInTurn'
      BY <2>1, <3>2, <3>3 DEF TypeOK, Posters, Buttons, ShotsInTurn, judgeVars
    <3> QED BY <3>4, <3>5 DEF Stage
  <2> QED BY <2>1, <2>2, <2>3, <2>4
<1>3. CASE TickResult
  <2>1. Decided
    BY <1>3 DEF TickResult, Results, Stage, Idle, Clearing, Logo, Menu, Helping, Labelled,
       Arriving, Counting, Running, Shown, Leaving
  <2>2. ui' = {"result"}
    BY <1>3, <2>1 DEF TickResult, Decided
  <2>3. Shown'
    BY <1>3, <2>1, <2>2 DEF TickResult, Decided, Shown, Idle, Finished, Played, Apart,
       Matched, NoShot, judgeVars, netVars
  <2>4. TypeOK' /\ ShotsInTurn'
    BY <1>3, <2>2 DEF TickResult, TypeOK, Posters, ShotsInTurn, judgeVars, netVars
  <2> QED BY <2>3, <2>4 DEF Stage
<1> QED BY <1>1, <1>2, <1>3 DEF InterfaceTick

\* Shots, the ball and the goals.
LEMMA PlayStep ==
  ASSUME MatchInv, Play
  PROVE  MatchInv'
<1> USE DEF MatchInv
<1> DEFINE goals == score["A"] + score["B"]
<1>1. Running
  BY DEF Play, TickShoot, BallDown, Gain, Stage, AtTitle, NoShot, Logo, Menu, Helping,
     Labelled, Arriving, Counting, Decided, Shown, Leaving
<1>2. score["A"] \in Nat /\ score["B"] \in Nat /\ goals \in Nat
  BY ScoreAssumption DEF TypeOK, Team
<1>3. CASE TickShoot
  <2>1. ball = "off" /\ ball' = "air"
    BY <1>1, <1>3 DEF TickShoot, Running
  <2>2. Running'
    BY <1>1, <1>3, <2>1 DEF TickShoot, Running, Idle, Played, Apart, Matched, uiVars,
       netVars
  <2>3. TypeOK'
    BY <1>3, <2>1 DEF TickShoot, TypeOK, uiVars, netVars
  <2>4. aShooted <=> goals % 2 = 1
    BY <1>2, <2>1 DEF ShotsInTurn
  <2>5. aShooted' <=> (goals + 1) % 2 = 1
    BY <1>2, <1>3, <2>4, Odd DEF TickShoot
  <2>6. ShotsInTurn'
    BY <1>3, <2>1, <2>5 DEF TickShoot, ShotsInTurn
  <2> QED BY <2>2, <2>3, <2>6 DEF Stage
<1>4. CASE BallDown
  <2>1. Running'
    BY <1>1, <1>4 DEF BallDown, Running, Idle, Played, Apart, Matched, uiVars, judgeVars,
       netVars
  <2>2. TypeOK' /\ ShotsInTurn'
    BY <1>4 DEF BallDown, TypeOK, ShotsInTurn, uiVars, judgeVars, netVars
  <2> QED BY <2>1, <2>2 DEF Stage
<1>5. ASSUME NEW t \in Team, Gain(t)
      PROVE  MatchInv'
  <2>1. /\ ball = "down" /\ ball' = "off"
        /\ score' = [score EXCEPT ![t] = @ + 1]
        /\ UNCHANGED <<ui, eventSystem, camera, gameType, player, aShooted, online>>
    BY <1>5 DEF Gain
  <2>2. /\ score' \in [Team -> 0..ScoreMax]
        /\ score'["A"] + score'["B"] = goals + 1
    BY <1>1, <1>2, <2>1, ScoreAssumption DEF TypeOK, Running, Team
  <2>3. ShotsInTurn'
    <3>1. aShooted <=> (goals + 1) % 2 = 1
      BY <2>1 DEF ShotsInTurn
    <3>2. score'["A"] + score'["B"] + 0 = goals + 1
      BY <1>2, <2>2
    <3> QED BY <2>1, <3>1, <3>2 DEF ShotsInTurn
  <2>4. CASE \E u \in Team : score'[u] = ScoreMax
    <3>1. /\ isRunning' = FALSE /\ Disconnect("normal") /\ pending' \in Results
          /\ UNCHANGED shotTimer
      BY <1>5, <2>4 DEF Gain, Results
    <3>2. Decided'
      BY <1>1, <2>1, <3>1 DEF Running, Decided, Disconnect, Idle, Finished, Played, Apart,
         Matched, NoShot
    <3>3. TypeOK'
      BY <2>1, <2>2, <3>1 DEF TypeOK, Disconnect
    <3> QED BY <2>3, <3>2, <3>3 DEF Stage
  <2>5. CASE ~ \E u \in Team : score'[u] = ScoreMax
    <3>1. /\ shotTimer' = TRUE
          /\ UNCHANGED <<isRunning, connected, exitCode, pending>>
      BY <1>5, <2>5 DEF Gain
    <3>2. score'["A"] < ScoreMax /\ score'["B"] < ScoreMax
      BY <2>2, <2>5, ScoreAssumption DEF Team
    <3>3. Running'
      BY <1>1, <2>1, <3>1, <3>2 DEF Running, Idle, Played, Apart, Matched
    <3>4. TypeOK'
      BY <2>1, <2>2, <3>1 DEF TypeOK
    <3> QED BY <2>3, <3>3, <3>4 DEF Stage
  <2> QED BY <2>4, <2>5
<1> QED BY <1>3, <1>4, <1>5 DEF Play

\* The server and the end of the connection, on whatever screen they come.
LEMMA NetworkStep ==
  ASSUME MatchInv, Network
  PROVE  MatchInv'
<1> USE DEF MatchInv
<1>1. CASE OnStart
  <2>1. Labelled /\ ~online /\ connected
    BY <1>1 DEF OnStart, Stage, Idle, Apart, Finished, Played, Matched, Logo, Menu,
       Helping, Arriving, Counting, Running, Decided, Shown, Leaving
  <2>2. Labelled'
    BY <1>1, <2>1 DEF OnStart, Clear, Labelled, AtTitle, Clearing, Matched, NoShot, Zeros,
       judgeVars
  <2>3. TypeOK' /\ ShotsInTurn'
    BY <1>1 DEF OnStart, Clear, TypeOK, Clears, ShotsInTurn, judgeVars
  <2> QED BY <2>2, <2>3 DEF Stage
<1>2. CASE Refused
  <2>1. Labelled /\ ~online /\ connected
    BY <1>2 DEF Refused, Stage, Idle, Apart, Finished, Played, Matched, Logo, Menu,
       Helping, Arriving, Counting, Running, Decided, Shown, Leaving
  <2>2. Labelled'
    BY <1>2, <2>1 DEF Refused, Disconnect, Labelled, AtTitle, Idle, Clearing, OneTale,
       Matched, NoShot, Zeros, uiVars, judgeVars
  <2>3. TypeOK' /\ ShotsInTurn'
    BY <1>2 DEF Refused, Disconnect, TypeOK, ShotsInTurn, uiVars, judgeVars
  <2> QED BY <2>2, <2>3 DEF Stage
<1>3. CASE Lost
  <2>1. /\ connected /\ connected' = FALSE /\ exitCode' = "normal"
        /\ UNCHANGED <<uiVars, gameType, player, judgeVars, ball, online>>
    BY <1>3 DEF Lost, Disconnect
  <2>2. TypeOK' /\ ShotsInTurn'
    BY <2>1 DEF TypeOK, ShotsInTurn, uiVars, judgeVars
  <2>3. CASE Labelled
    <3>1. Labelled'
      BY <2>1, <2>3 DEF Labelled, AtTitle, Idle, Clearing, OneTale, Matched, NoShot,
         Zeros, uiVars, judgeVars
    <3> QED BY <2>2, <3>1 DEF Stage
  <2>4. CASE Arriving \/ Counting
    <3>1. (Arriving \/ Counting)'
      BY <2>1, <2>4 DEF Arriving, Counting, Idle, Played, Apart, Matched, NoShot, Zeros,
         uiVars, judgeVars
    <3> QED BY <2>2, <3>1 DEF Stage
  <2>5. CASE Running
    <3>1. Running'
      BY <2>1, <2>5 DEF Running, Idle, Played, Apart, Matched, uiVars, judgeVars
    <3> QED BY <2>2, <3>1 DEF Stage
  <2> QED BY <2>1, <2>3, <2>4, <2>5 DEF Stage, Apart, Finished, Logo, Menu, Helping,
         Decided, Shown, Leaving
<1>4. CASE HandleExit
  <2>1. /\ exitCode # "none" /\ exitCode' = "none" /\ online' = FALSE
        /\ gameType' = IF gameType = "PVP" THEN "PVE" ELSE gameType
        /\ UNCHANGED <<ui, camera, player, judgeVars, ball, connected>>
    BY <1>4 DEF HandleExit
  <2>2. \/ ~eventSystem' /\ pending' = "cancel" /\ gameType # "PVP" /\ exitCode = "normal"
        \/ UNCHANGED <<eventSystem, pending>> /\ (gameType = "PVP" \/ exitCode # "normal")
    BY <1>4 DEF HandleExit, Clear
  <2>3. TypeOK'
    BY <1>4 DEF HandleExit, Clear, TypeOK, Clears, judgeVars
  <2>4. ShotsInTurn'
    BY <2>1 DEF ShotsInTurn, judgeVars
  <2>5. CASE Menu
    <3>1. Menu'
      BY <2>1, <2>2, <2>5 DEF Menu, AtTitle, Idle, Clearing, NoShot, Zeros, judgeVars
    <3> QED BY <2>3, <2>4, <3>1 DEF Stage
  <2>6. CASE Labelled
    <3>1. Labelled'
      BY <2>1, <2>2, <2>6 DEF Labelled, AtTitle, Idle, Clearing, OneTale, Matched, TypeOK,
         NoShot, Zeros, judgeVars
    <3> QED BY <2>3, <2>4, <3>1 DEF Stage
  <2>7. CASE Arriving \/ Counting \/ Running
    <3>1. gameType = "PVP" /\ ~connected
      BY <2>1, <2>7 DEF Arriving, Counting, Running, Played, Apart, Matched
    <3>2. (Arriving \/ Counting \/ Running)'
      BY <2>1, <2>2, <2>7, <3>1 DEF Arriving, Counting, Running, Idle, Played, Apart,
         NoShot, Zeros, judgeVars
    <3> QED BY <2>3, <2>4, <3>2 DEF Stage
  <2>8. CASE Decided \/ Shown
    <3>1. gameType = "PVP" /\ ~connected
      BY <2>1, <2>8 DEF Decided, Shown, Finished, Played, Apart
    <3>2. (Decided \/ Shown)'
      BY <2>1, <2>2, <2>8, <3>1 DEF Decided, Shown, Idle, Clearing, Finished, Played,
         Apart, NoShot, judgeVars
    <3> QED BY <2>3, <2>4, <3>2 DEF Stage
  <2> QED BY <2>1, <2>5, <2>6, <2>7, <2>8 DEF Stage, Apart, Logo, Helping, Leaving
<1> QED BY <1>1, <1>2, <1>3, <1>4 DEF Network

-----------------------------------------------------------------------------
\* The game is always at one of its stages.
LEMMA Staged == Spec => []MatchInv
<1>1. Init => MatchInv
  <2> SUFFICES ASSUME Init
               PROVE  MatchInv
    OBVIOUS
  <2>1. Zeros
    BY DEF Init, Zeros, Team
  <2>2. TypeOK
    <3>1. score \in [Team -> 0..ScoreMax]
      BY ScoreAssumption DEF Init
    <3>2. ui \subseteq Posters /\ player \in Team
      BY DEF Init, Posters, Team
    <3> QED BY <3>1, <3>2 DEF Init, TypeOK
  <2>3. Logo
    BY <2>1 DEF Init, Logo, AtTitle, Idle, Apart, NoShot
  <2>4. ShotsInTurn
    <3>1. aShooted = FALSE /\ ball = "off" /\ score["A"] = 0 /\ score["B"] = 0
      BY <2>1 DEF Init, Zeros
    <3>2. (0 + 0 + 0) % 2 # 1
      OBVIOUS
    <3> QED BY <3>1, <3>2 DEF ShotsInTurn
  <2> QED BY <2>2, <2>3, <2>4 DEF MatchInv, Stage
<1>2. MatchInv /\ [Next]_vars => MatchInv'
  <2> SUFFICES ASSUME MatchInv, [Next]_vars
               PROVE  MatchInv'
    OBVIOUS
  <2>1. CASE Next
    BY <2>1, ClickStep, ShowStep, InterfaceStep, PlayStep, NetworkStep DEF Next
  <2>2. CASE UNCHANGED vars
    BY <2>2 DEF vars, uiVars, judgeVars, netVars, MatchInv, TypeOK, ShotsInTurn, Stage,
       Logo, Menu, Helping, Labelled, Arriving, Counting, Running, Decided, Shown,
       Leaving, AtTitle, Idle, Apart, NoShot, Zeros, Clearing, OneTale, Matched, Played,
       Finished
  <2> QED BY <2>1, <2>2
<1> QED BY <1>1, <1>2, PTL DEF Spec

\* The player sees one scene, and one he can leave, whenever the server
\* starts a match or a connection ends.
THEOREM OneLiveScene == Spec => []LiveScene
<1>1. MatchInv => LiveScene
  <2> SUFFICES ASSUME MatchInv
               PROVE  LiveScene
    OBVIOUS
  <2>1. \E x : Scenes = {x}
    <3> DEFINE onScreen == ui \cap {"logo", "buttons", "help", "label", "count", "result"}
               moving   == {"moving" : t \in camera}
               running  == IF isRunning THEN {"running"} ELSE {}
               over     == IF pending \in Results THEN {"result"} ELSE {}
    <3>1. Scenes = onScreen \cup moving \cup running \cup over
      BY DEF Scenes
    <3>2. CASE Logo
      <4>1. onScreen = {"logo"} /\ moving = {} /\ running = {} /\ over = {}
        BY <3>2 DEF Logo, AtTitle, NoShot, Idle, Results
      <4> QED BY <3>1, <4>1
    <3>3. CASE Menu
      <4>1. onScreen = {"buttons"} /\ moving = {} /\ running = {} /\ over = {}
        BY <3>3 DEF Menu, AtTitle, NoShot, Idle, Clearing, Results
      <4> QED BY <3>1, <4>1
    <3>4. CASE Helping
      <4>1. onScreen = {"help"} /\ moving = {} /\ running = {} /\ over = {}
        BY <3>4 DEF Helping, AtTitle, NoShot, Idle, Results
      <4> QED BY <3>1, <4>1
    <3>5. CASE Labelled
      <4>1. onScreen = {"label"} /\ moving = {} /\ running = {} /\ over = {}
        BY <3>5 DEF Labelled, AtTitle, NoShot, Idle, Clearing, Results
      <4> QED BY <3>1, <4>1
    <3>6. CASE Arriving \/ Leaving
      <4>1. onScreen = {} /\ moving = {"moving"} /\ running = {} /\ over = {}
        BY <3>6 DEF Arriving, Leaving, NoShot, Idle, Results
      <4> QED BY <3>1, <4>1
    <3>7. CASE Counting
      <4>1. onScreen = {"count"} /\ moving = {} /\ running = {} /\ over = {}
        BY <3>7 DEF Counting, NoShot, Idle, Results
      <4> QED BY <3>1, <4>1
    <3>8. CASE Running
      <4>1. onScreen = {} /\ moving = {} /\ running = {"running"} /\ over = {}
        BY <3>8 DEF Running, Idle, Results
      <4> QED BY <3>1, <4>1
    <3>9. CASE Decided
      <4>1. onScreen = {} /\ moving = {} /\ running = {} /\ over = {"result"}
        BY <3>9 DEF Decided, NoShot, Results
      <4> QED BY <3>1, <4>1
    <3>10. CASE Shown
      <4>1. onScreen = {"result"} /\ moving = {} /\ running = {} /\ over = {}
        BY <3>10 DEF Shown, NoShot, Idle, Clearing, Results
      <4> QED BY <3>1, <4>1
    <3> QED
      BY <3>2, <3>3, <3>4, <3>5, <3>6, <3>7, <3>8, <3>9, <3>10 DEF MatchInv, Stage
  <2>2. Cardinality(Scenes) = 1
    BY <2>1, FS_Singleton
  <2>3. camera = {} \/ \E x : camera = {x}
    BY DEF MatchInv, Stage, AtTitle, Logo, Menu, Helping, Labelled, Arriving, Counting,
       Running, Decided, Shown, Leaving
  <2>4. Cardinality(camera) <= 1
    <3>1. CASE camera = {}
      BY <3>1, FS_EmptySet
    <3>2. CASE \E x : camera = {x}
      BY <3>2, FS_Singleton
    <3> QED BY <2>3, <3>1, <3>2
  <2>5. ButtonsReact
    BY DEF MatchInv, Stage, ButtonsReact, Clears, Idle, Clearing, Logo, Menu, Helping,
       Labelled, Arriving, Counting, Running, Decided, Shown, Leaving
  <2> QED BY <2>2, <2>4, <2>5 DEF LiveScene, OneScene
<1> QED BY <1>1, Staged, PTL

\* Shots come one at a time and in turn, in every match.
THEOREM Turns == Spec => []ShotCycle
<1>1. MatchInv => ShotCycle
  BY DEF MatchInv, Stage, AtTitle, NoShot, Logo, Menu, Helping, Labelled, Arriving,
     Counting, Running, Decided, Shown, Leaving, ShotCycle, ShotOrBall
<1> QED BY <1>1, Staged, PTL

\* A match starts at nil and is over at scoreMax, for every scoreMax.
THEOREM Scores == Spec => []ScoresFit
<1>1. MatchInv => ScoresFit
  BY DEF MatchInv, Stage, AtTitle, NoShot, Zeros, Team, Logo, Menu, Helping, Labelled,
     Arriving, Counting, Running, Decided, Shown, Leaving, ScoresFit, FreshStart,
     OverAtMax
<1> QED BY <1>1, Staged, PTL

\* A connection is there exactly where the player can see or use it.
THEOREM Connections == Spec => []ConnectionFits
<1>1. MatchInv => ConnectionFits
  BY DEF MatchInv, Stage, AtTitle, Idle, Clearing, Apart, OneTale, Matched, Played,
     Finished, Results, Logo, Menu, Helping, Labelled, Arriving, Counting, Running,
     Decided, Shown, Leaving, ConnectionFits, PvpIsOnline, NoHiddenConnection
<1> QED BY <1>1, Staged, PTL
=============================================================================
