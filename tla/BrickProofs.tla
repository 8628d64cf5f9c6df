---------------------------- MODULE BrickProofs ----------------------------
(***************************************************************************)
(* A brick always comes back (NeverStuck), for all times and any number of *)
(* inputs under way, whichever sequence ends first; and it is at rest when *)
(* Judge.Reset comes and when the next match starts, if the ways there are *)
(* longer than an Elast and a cool-down.                                   *)
(***************************************************************************)
EXTENDS Brick, TLAPS

\* What the invariant adds to NeverStuck is that the sequences are sequences
\* and the values Boolean.
StuckInv ==
  /\ elasts \in Seq(Int)
  /\ cools \in Seq(Int)
  /\ coolDown \in BOOLEAN
  /\ nowState \in {"Normal", "Elast"}
  /\ NeverStuck

LEMMA TimesAreInt == ElastTime \in Int /\ CoolTime \in Int
BY BrickAssumption

\* A tick changes no sequence's length.
LEMMA Aged ==
  ASSUME NEW s \in Seq(Int)
  PROVE  LET aged == [i \in DOMAIN s |-> s[i] - 1]
         IN  aged \in Seq(Int) /\ (s # <<>> => aged # <<>>)
<1> DEFINE aged == [i \in DOMAIN s |-> s[i] - 1]
<1>1. DOMAIN s = 1..Len(s) /\ Len(s) \in Nat
  OBVIOUS
<1>2. aged \in [1..Len(s) -> Int]
  BY <1>1
<1>3. aged \in Seq(Int) /\ Len(aged) = Len(s)
  BY <1>1, <1>2
<1>4. s # <<>> => Len(s) # 0
  OBVIOUS
<1> QED
  BY <1>3, <1>4

\* Nor does the loss of the newest one make a sequence something else.
LEMMA Older ==
  ASSUME NEW s \in Seq(Int)
  PROVE  SubSeq(s, 1, Len(s) - 1) \in Seq(Int)
<1>1. Len(s) \in Nat /\ DOMAIN s = 1..Len(s)
  OBVIOUS
<1>2. \A i \in 1..(Len(s) - 1) : s[i] \in Int
  BY <1>1
<1> QED
  BY <1>1, <1>2

\* Statemgr.Play("Elast") keeps the invariant.
LEMMA PlayElastKeeps ==
  ASSUME StuckInv, PlayElast
  PROVE  StuckInv'
<1>1. elasts' \in Seq(Int) /\ elasts' # <<>>
  BY TimesAreInt DEF StuckInv, PlayElast
<1> QED
  BY <1>1 DEF StuckInv, NeverStuck, PlayElast

\* So does an input, applied or not.
LEMMA AppliedKeeps ==
  ASSUME StuckInv, NEW input, Applied(input)
  PROVE  StuckInv'
<1>1. CASE PlayElast
  BY <1>1, PlayElastKeeps
<1>2. CASE UNCHANGED stateVars
  BY <1>2 DEF StuckInv, NeverStuck, stateVars
<1> QED
  BY <1>1, <1>2 DEF Applied

\* One step per action that touches the brick's state.
LEMMA StuckStep == StuckInv /\ [Next]_vars => StuckInv'
<1> SUFFICES ASSUME StuckInv, [Next]_vars
             PROVE  StuckInv'
  OBVIOUS
<1>0. CASE UNCHANGED stateVars
  BY <1>0 DEF StuckInv, NeverStuck, stateVars
<1>1. CASE EndFrame
  <2>1. CASE UNCHANGED stateVars
    BY <2>1, <1>0
  <2>2. CASE Applied(Head(inputs))
    BY <2>2, AppliedKeeps
  <2> QED
    BY <1>1, <2>1, <2>2 DEF EndFrame
<1>2. CASE Drag
  <2>1. CASE UNCHANGED stateVars
    BY <2>1, <1>0
  <2>2. CASE PlayElast
    BY <2>2, PlayElastKeeps
  <2> QED
    BY <1>2, <2>1, <2>2 DEF Drag
<1>3. CASE ElastEnd
  <2>1. elasts' \in Seq(Int)
    BY <1>3 DEF ElastEnd, StuckInv
  <2>2. cools' \in Seq(Int) /\ (coolDown' => cools' # <<>>)
    <3> DEFINE cooled == Append(cools, CoolTime)
    <3>1. cooled \in Seq(Int) /\ cooled # <<>> /\ cools \in Seq(Int)
      BY TimesAreInt DEF StuckInv
    <3> HIDE DEF cooled
    <3>2. \/ cools' = cooled
          \/ cools' = cools /\ ~coolDown'
      BY <1>3, Zenon DEF ElastEnd, PlayNormal, cooled
    <3> QED
      BY <3>1, <3>2
  <2>3. nowState' = "Normal" /\ coolDown' \in BOOLEAN
    BY <1>3 DEF ElastEnd, PlayNormal
  <2> QED
    BY <2>1, <2>2, <2>3 DEF StuckInv, NeverStuck
<1>4. CASE CoolDownEnd
  <2>1. cools' \in Seq(Int)
    BY <1>4 DEF CoolDownEnd, StuckInv
  <2> QED
    BY <1>4, <2>1 DEF CoolDownEnd, StuckInv, NeverStuck
<1>5. CASE Tween
  <2>1. elasts' \in Seq(Int) /\ (elasts # <<>> => elasts' # <<>>)
    BY <1>5, Aged DEF Tween, StuckInv
  <2>2. cools' \in Seq(Int) /\ (cools # <<>> => cools' # <<>>)
    BY <1>5, Aged DEF Tween, StuckInv
  <2> QED
    BY <1>5, <2>1, <2>2 DEF Tween, StuckInv, NeverStuck
<1>6. CASE Reset
  <2>1. cools' \in Seq(Int)
    BY <1>6, Older DEF Reset, StuckInv
  <2>2. nowState = "Normal" => coolDown' = FALSE
    BY <1>6 DEF Reset
  <2>3. nowState = "Elast" => elasts # <<>> /\ UNCHANGED coolDown
    BY <1>6 DEF Reset, StuckInv, NeverStuck
  <2> QED
    BY <1>6, <2>1, <2>2, <2>3 DEF Reset, StuckInv, NeverStuck
<1>7. CASE InFrame \/ NoDrag \/ StartMatch \/ LoseConnection \/ EndMatch
  BY <1>7, <1>0 DEF InFrame, NoDrag, StartMatch, LoseConnection, EndMatch
<1>8. CASE UNCHANGED vars
  BY <1>8, <1>0 DEF vars
<1> QED
  BY <1>1, <1>2, <1>3, <1>4, <1>5, <1>6, <1>7, <1>8 DEF Next, Tick

LEMMA InitStuck == Init => StuckInv
<1>1. <<>> \in Seq(Int)
  OBVIOUS
<1>2. Init => /\ nowState = "Normal" /\ coolDown = FALSE
              /\ elasts = <<>> /\ cools = <<>>
  BY DEF Init
<1> QED
  BY <1>1, <1>2, Zenon DEF StuckInv, NeverStuck

\* An Elast and a cool-down come to an end: however inputs have piled them
\* up, a sequence that ends the state is running, or another Elast that
\* starts one.
THEOREM AlwaysEnds == Spec => []NeverStuck
<1>1. StuckInv => NeverStuck
  BY DEF StuckInv
<1> QED
  BY <1>1, InitStuck, StuckStep, PTL DEF Spec

-----------------------------------------------------------------------------
\* After the end of a match no Elast begins, so those of the match have the
\* less to go the longer it is over, and none is left when Reset comes.
RestInv ==
  /\ StuckInv
  /\ since \in Nat
  /\ \A i \in DOMAIN elasts :
       elasts[i] >= 0 /\ elasts[i] <= (IF match = "over" THEN ElastTime - since ELSE ElastTime)
  /\ ResetFindsNormal

\* What RestInv says of the Elasts under way holds of the rest of them.
LEMMA TailFacts ==
  ASSUME NEW s \in Seq(Int), s # <<>>
  PROVE  \A i \in DOMAIN Tail(s) : i + 1 \in DOMAIN s /\ Tail(s)[i] = s[i + 1]
OBVIOUS

LEMMA PlayElastRests ==
  ASSUME RestInv, PlayElast, match # "over", UNCHANGED <<match, since>>
  PROVE  RestInv'
<1>1. StuckInv'
  BY PlayElastKeeps DEF RestInv
<1>2. \A i \in DOMAIN elasts' : elasts'[i] >= 0 /\ elasts'[i] <= ElastTime
  <2>1. elasts' = Append(elasts, ElastTime) /\ elasts \in Seq(Int)
    BY DEF PlayElast, RestInv, StuckInv
  <2>2. \A i \in DOMAIN elasts : elasts[i] >= 0 /\ elasts[i] <= ElastTime
    BY DEF RestInv
  <2>3. ElastTime \in Nat
    BY BrickAssumption
  <2> QED
    BY <2>1, <2>2, <2>3
<1>3. UNCHANGED willReset
  BY DEF PlayElast
<1> QED
  BY <1>1, <1>2, <1>3 DEF RestInv, ResetFindsNormal

\* No Elast is under way when Reset comes.
LEMMA OverInTime ==
  ASSUME RestInv, match = "over", since = RestTime
  PROVE  elasts = <<>>
<1>1. elasts \in Seq(Int)
  BY DEF RestInv, StuckInv
<1>2. ElastTime \in Nat /\ RestTime \in Nat /\ ElastTime - RestTime < 0
  BY BrickAssumption
<1>3. ASSUME NEW i \in DOMAIN elasts
      PROVE  FALSE
  <2>1. elasts[i] >= 0 /\ elasts[i] <= ElastTime - RestTime
    BY DEF RestInv
  <2>2. elasts[i] \in Int
    BY <1>1
  <2> QED
    BY <1>2, <2>1, <2>2
<1>4. DOMAIN elasts = {}
  BY <1>3
<1> QED
  BY <1>1, <1>4

LEMMA RestStep == RestInv /\ [Next]_vars => RestInv'
<1> SUFFICES ASSUME RestInv, [Next]_vars
             PROVE  RestInv'
  OBVIOUS
<1>s. StuckInv'
  BY StuckStep DEF RestInv
<1>t. elasts \in Seq(Int) /\ elasts' \in Seq(Int)
  BY <1>s DEF StuckInv, RestInv
<1>0. ASSUME UNCHANGED <<match, since, elasts, willReset>>
      PROVE  RestInv'
  BY <1>0, <1>s DEF RestInv, ResetFindsNormal
<1>1. CASE EndFrame
  <2>1. UNCHANGED <<match, since>>
    BY <1>1 DEF EndFrame, matchVars
  <2>2. UNCHANGED stateVars \/ (Running /\ PlayElast)
    BY <1>1 DEF EndFrame, Applied
  <2>3. CASE UNCHANGED stateVars
    BY <2>1, <2>3, <1>0 DEF stateVars
  <2> QED
    BY <2>1, <2>2, <2>3, PlayElastRests DEF Running
<1>2. CASE Drag
  <2>1. UNCHANGED <<match, since>> /\ Running
    BY <1>2 DEF Drag, matchVars
  <2>2. UNCHANGED stateVars \/ PlayElast
    BY <1>2 DEF Drag
  <2>3. CASE UNCHANGED stateVars
    BY <2>1, <2>3, <1>0 DEF stateVars
  <2> QED
    BY <2>1, <2>2, <2>3, PlayElastRests DEF Running
<1>3. CASE ElastEnd
  <2>1. elasts # <<>> /\ elasts' = Tail(elasts) /\ UNCHANGED <<match, since, willReset>>
    BY <1>3 DEF ElastEnd, PlayNormal, matchVars
  <2>2. \A i \in DOMAIN elasts' : i + 1 \in DOMAIN elasts /\ elasts'[i] = elasts[i + 1]
    BY <2>1, <1>t, TailFacts
  <2> QED
    BY <2>1, <2>2, <1>s DEF RestInv, ResetFindsNormal
<1>4. CASE CoolDownEnd
  BY <1>4, <1>0 DEF CoolDownEnd, matchVars
<1>5. CASE Tween
  <2>1. /\ DOMAIN elasts' = DOMAIN elasts
        /\ \A i \in DOMAIN elasts : elasts[i] > 0 /\ elasts'[i] = elasts[i] - 1
    BY <1>5 DEF Tween
  <2>2. \A i \in DOMAIN elasts : elasts[i] \in Int
    BY <1>t
  <2>3. UNCHANGED <<match, willReset>>
    BY <1>5 DEF Tween
  <2>4. since' \in Nat /\ (since' = since \/ since' = since + 1)
    BY <1>5 DEF Tween, RestInv
  <2>5. ElastTime \in Nat /\ since \in Nat
    BY BrickAssumption DEF RestInv
  <2>6. \A i \in DOMAIN elasts' : elasts'[i] >= 0 /\ elasts'[i] <=
            (IF match' = "over" THEN ElastTime - since' ELSE ElastTime)
    <3> SUFFICES ASSUME NEW i \in DOMAIN elasts
                 PROVE  /\ elasts'[i] >= 0
                        /\ elasts'[i] <= (IF match = "over" THEN ElastTime - since'
                                          ELSE ElastTime)
      BY <2>1, <2>3
    <3>1. elasts[i] <= (IF match = "over" THEN ElastTime - since ELSE ElastTime)
      BY DEF RestInv
    <3> QED
      BY <3>1, <2>1, <2>2, <2>4, <2>5
  <2> QED
    BY <2>3, <2>4, <2>6, <1>s DEF RestInv, ResetFindsNormal
<1>6. CASE StartMatch
  BY <1>6, <1>s, BrickAssumption DEF StartMatch, stateVars, RestInv, ResetFindsNormal
<1>7. CASE EndMatch
  <2>1. ElastTime \in Nat
    BY BrickAssumption
  <2>2. Running /\ since' = 0 /\ UNCHANGED <<elasts, willReset>>
    BY <1>7 DEF EndMatch, stateVars
  <2> QED
    BY <2>1, <2>2, <1>s, <1>t DEF Running, RestInv, ResetFindsNormal
<1>8. CASE Reset
  <2>1. elasts = <<>>
    BY <1>8, OverInTime DEF Reset
  <2>2. nowState = "Normal"
    BY <2>1 DEF RestInv, StuckInv, NeverStuck
  <2>3. UNCHANGED <<willReset, elasts>> /\ since' = 0
    BY <2>2, <1>8 DEF Reset
  <2> QED
    BY <2>1, <2>3, <1>s DEF RestInv, ResetFindsNormal
<1>9. CASE InFrame \/ NoDrag \/ LoseConnection
  BY <1>9, <1>0 DEF InFrame, NoDrag, LoseConnection, stateVars, matchVars
<1>10. CASE UNCHANGED vars
  BY <1>10, <1>0 DEF vars, stateVars, matchVars
<1> QED
  BY <1>1, <1>2, <1>3, <1>4, <1>5, <1>6, <1>7, <1>8, <1>9, <1>10 DEF Next, Tick

\* Judge.Reset finds every brick in Normal for all times of which the rest
\* after a match is longer than an Elast, and however late inputs are.
THEOREM ResetSafe == Spec => []ResetFindsNormal
<1>1. Init => RestInv
  <2>1. Init => StuckInv
    BY InitStuck
  <2>2. Init => since = BreakTime /\ willReset = FALSE /\ elasts = <<>>
    BY DEF Init
  <2> QED
    BY <2>1, <2>2, BrickAssumption DEF RestInv, ResetFindsNormal
<1>2. RestInv => ResetFindsNormal
  BY DEF RestInv
<1> QED
  BY <1>1, <1>2, RestStep, PTL DEF Spec

-----------------------------------------------------------------------------
\* After Reset nothing begins, so the cool-downs have the less to go the
\* longer it is ago, and none is left when the next match starts.
BreakInv ==
  /\ RestInv
  /\ match = "none" => elasts = <<>>
  /\ \A i \in DOMAIN cools :
       cools[i] >= 0 /\ cools[i] <= (IF match = "none" THEN CoolTime - since ELSE CoolTime)

LEMMA BreakStep == BreakInv /\ [Next]_vars => BreakInv'
<1> SUFFICES ASSUME BreakInv, [Next]_vars
             PROVE  BreakInv'
  OBVIOUS
<1>s. RestInv'
  BY RestStep DEF BreakInv
<1>t. /\ cools \in Seq(Int) /\ cools' \in Seq(Int) /\ elasts \in Seq(Int)
      /\ CoolTime \in Nat /\ since \in Nat
  BY <1>s, BrickAssumption DEF BreakInv, RestInv, StuckInv
<1>0. ASSUME UNCHANGED <<match, since, elasts, cools>>
      PROVE  BreakInv'
  BY <1>0, <1>s DEF BreakInv
<1>p. ASSUME PlayElast, Running, UNCHANGED <<match, since>>
      PROVE  BreakInv'
  BY <1>p, <1>s DEF BreakInv, PlayElast, Running
<1>1. CASE EndFrame
  <2>1. UNCHANGED <<match, since>>
    BY <1>1 DEF EndFrame, matchVars
  <2>2. UNCHANGED stateVars \/ (Running /\ PlayElast)
    BY <1>1 DEF EndFrame, Applied
  <2> QED
    BY <2>1, <2>2, <1>0, <1>p DEF stateVars
<1>2. CASE Drag
  <2>1. UNCHANGED <<match, since>> /\ Running
    BY <1>2 DEF Drag, matchVars
  <2>2. UNCHANGED stateVars \/ PlayElast
    BY <1>2 DEF Drag
  <2> QED
    BY <2>1, <2>2, <1>0, <1>p DEF stateVars
<1>3. CASE ElastEnd
  <2>1. elasts # <<>> /\ UNCHANGED <<match, since>>
    BY <1>3 DEF ElastEnd, matchVars
  <2>2. match # "none"
    BY <2>1 DEF BreakInv
  <2>3. cools' = cools \/ cools' = Append(cools, CoolTime)
    BY <1>3 DEF ElastEnd, PlayNormal
  <2>4. \A i \in DOMAIN cools : cools[i] >= 0 /\ cools[i] <= CoolTime
    BY <2>2 DEF BreakInv
  <2>5. \A i \in DOMAIN cools' : cools'[i] >= 0 /\ cools'[i] <= CoolTime
    <3>1. CASE cools' = cools
      BY <3>1, <2>4
    <3>2. CASE cools' = Append(cools, CoolTime)
      BY <3>2, <2>4, <1>t
    <3> QED
      BY <2>3, <3>1, <3>2
  <2> QED
    BY <2>1, <2>2, <2>5, <1>s DEF BreakInv
<1>4. CASE CoolDownEnd
  <2>1. cools # <<>> /\ cools' = Tail(cools) /\ UNCHANGED <<match, since, elasts>>
    BY <1>4 DEF CoolDownEnd, matchVars
  <2>2. \A i \in DOMAIN cools' : i + 1 \in DOMAIN cools /\ cools'[i] = cools[i + 1]
    BY <2>1, <1>t, TailFacts
  <2> QED
    BY <2>1, <2>2, <1>s DEF BreakInv
<1>5. CASE Tween
  <2>1. /\ DOMAIN cools' = DOMAIN cools
        /\ \A i \in DOMAIN cools : cools[i] > 0 /\ cools'[i] = cools[i] - 1
        /\ match' = match
    BY <1>5 DEF Tween
  <2>2. \A i \in DOMAIN cools : cools[i] \in Int
    BY <1>t
  <2>3. since' = since \/ since' = since + 1
    BY <1>5 DEF Tween
  <2>4. \A i \in DOMAIN cools' : cools'[i] >= 0 /\ cools'[i] <=
            (IF match' = "none" THEN CoolTime - since' ELSE CoolTime)
    <3> SUFFICES ASSUME NEW i \in DOMAIN cools
                 PROVE  /\ cools'[i] >= 0
                        /\ cools'[i] <= (IF match = "none" THEN CoolTime - since'
                                         ELSE CoolTime)
      BY <2>1
    <3>1. cools[i] <= (IF match = "none" THEN CoolTime - since ELSE CoolTime)
      BY DEF BreakInv
    <3> QED
      BY <3>1, <2>1, <2>2, <2>3, <1>t
  <2>5. match' = "none" => elasts' = <<>>
    <3>1. elasts' = [i \in DOMAIN elasts |-> elasts[i] - 1]
      BY <1>5 DEF Tween
    <3> QED
      BY <2>1, <3>1 DEF BreakInv
  <2> QED
    BY <2>4, <2>5, <1>s DEF BreakInv
<1>6. CASE StartMatch
  <2>1. /\ match = "none" /\ match' = "running" /\ cools' = cools
    BY <1>6 DEF StartMatch, stateVars
  <2>2. \A i \in DOMAIN cools : cools[i] >= 0 /\ cools[i] <= CoolTime - since
    BY <2>1 DEF BreakInv
  <2>3. \A i \in DOMAIN cools : cools[i] >= 0 /\ cools[i] <= CoolTime
    <3> TAKE i \in DOMAIN cools
    <3>1. cools[i] \in Int
      BY <1>t
    <3> QED
      BY <2>2, <3>1, <1>t
  <2> QED
    BY <2>1, <2>3, <1>s DEF BreakInv
<1>7. CASE EndMatch
  BY <1>7, <1>s DEF EndMatch, Running, stateVars, BreakInv
<1>8. CASE Reset
  <2>1. match = "over" /\ since = RestTime /\ match' = "none" /\ since' = 0 /\ elasts' = elasts
    BY <1>8 DEF Reset
  <2>2. elasts = <<>>
    BY <2>1, OverInTime DEF BreakInv
  <2>3. cools' = cools \/ cools' = SubSeq(cools, 1, Len(cools) - 1)
    BY <1>8 DEF Reset
  <2>4. \A i \in DOMAIN cools : cools[i] >= 0 /\ cools[i] <= CoolTime
    BY <2>1 DEF BreakInv
  <2>5. \A i \in DOMAIN cools' : i \in DOMAIN cools /\ cools'[i] = cools[i]
    BY <2>3, <1>t, SMTT(30)
  <2>6. CoolTime - since' = CoolTime
    BY <2>1, <1>t
  <2> QED
    BY <2>1, <2>2, <2>4, <2>5, <2>6, <1>s DEF BreakInv
<1>9. CASE InFrame \/ NoDrag \/ LoseConnection
  BY <1>9, <1>0 DEF InFrame, NoDrag, LoseConnection, stateVars, matchVars
<1>10. CASE UNCHANGED vars
  BY <1>10, <1>0 DEF vars, stateVars, matchVars
<1> QED
  BY <1>1, <1>2, <1>3, <1>4, <1>5, <1>6, <1>7, <1>8, <1>9, <1>10 DEF Next, Tick

\* Every match starts with the bricks in Normal, ready and with no sequence of
\* an earlier match that would still change them (Statemgr.cs, Normal.cs), for
\* all times of which the way to the next match is longer than a cool-down.
THEOREM RestedStart == Spec => StartsAtRest
<1>1. Init => BreakInv
  <2>1. Init => RestInv
    <3>1. Init => StuckInv
      BY InitStuck
    <3>2. Init => since = BreakTime /\ willReset = FALSE /\ elasts = <<>>
      BY DEF Init
    <3> QED
      BY <3>1, <3>2, BrickAssumption DEF RestInv, ResetFindsNormal
  <2>2. Init => elasts = <<>> /\ cools = <<>>
    BY DEF Init
  <2> QED
    BY <2>1, <2>2 DEF BreakInv
<1>2. ASSUME BreakInv, [Next]_vars, match = "none", match' = "running"
      PROVE  nowState = "Normal" /\ ~coolDown /\ elasts = <<>> /\ cools = <<>>
  <2>1. since = BreakTime
    BY <1>2 DEF Next, Tick, EndFrame, InFrame, NoDrag, Drag, ElastEnd, CoolDownEnd, Tween,
       StartMatch, LoseConnection, EndMatch, Reset, Running, matchVars, vars
  <2>2. /\ elasts = <<>> /\ cools \in Seq(Int)
        /\ nowState = "Elast" => elasts # <<>>
        /\ nowState \in {"Normal", "Elast"} /\ (coolDown => elasts # <<>> \/ cools # <<>>)
    BY <1>2 DEF BreakInv, RestInv, StuckInv, NeverStuck
  <2>3. CoolTime \in Nat /\ BreakTime \in Nat /\ CoolTime - BreakTime < 0
    BY BrickAssumption
  <2>4. ASSUME NEW i \in DOMAIN cools
        PROVE  FALSE
    <3>1. cools[i] >= 0 /\ cools[i] <= CoolTime - BreakTime
      BY <1>2, <2>1 DEF BreakInv
    <3>2. cools[i] \in Int
      BY <2>2
    <3> QED
      BY <2>3, <3>1, <3>2
  <2>5. DOMAIN cools = {}
    BY <2>4
  <2>6. cools = <<>>
    BY <2>2, <2>5
  <2> QED
    BY <2>2, <2>6
<1> QED
  BY <1>1, <1>2, BreakStep, PTL DEF Spec, StartsAtRest
=============================================================================
