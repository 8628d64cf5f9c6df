-------------------------- MODULE ConnectionProofs --------------------------
(***************************************************************************)
(* Theorems about the two layers of a connection: what Client.cs keeps of  *)
(* it, for every interval and any number of connections, datagrams and     *)
(* errors; and KCP below, for every window, word and first number and any  *)
(* number of datagrams lost, doubled and overtaken.                        *)
(***************************************************************************)
EXTENDS Client, Kcp, FiniteSetTheorems, WellFoundedInduction, TLAPS

-----------------------------------------------------------------------------
(* The end of a connection.                                                *)

\* Disconnect is called in five places; each of them keeps the count.
EndInv ==
  /\ connected \in BOOLEAN
  /\ conn \in Nat
  /\ OneEnd

LEMMA EndDisconnect ==
  ASSUME EndInv, NEW code, Disconnect(code), conn' = conn
  PROVE  EndInv'
BY DEF EndInv, OneEnd, Disconnect

LEMMA EndStep == EndInv /\ [Next]_vars => EndInv'
<1> SUFFICES ASSUME EndInv, [Next]_vars PROVE EndInv'
  OBVIOUS
<1>1. CASE UNCHANGED <<connected, conn, ends>>
  BY <1>1 DEF EndInv, OneEnd
<1>2. CASE UpdateError \/ UpdateSendFails \/ LockDisconnect
  <2>1. Disconnect("normal") /\ conn' = conn
    BY <1>2 DEF UpdateError, UpdateSendFails, LockDisconnect
  <2> QED
    BY <2>1, EndDisconnect
<1>3. CASE HeartbeatTick
  <2>1. conn' = conn /\ (UNCHANGED <<connected, ends>> \/ Disconnect("normal"))
    BY <1>3 DEF HeartbeatTick
  <2> QED
    BY <1>1, <2>1, EndDisconnect
<1>4. CASE RecvRefused
  <2>1. conn' = conn /\ (UNCHANGED <<connected, ends>> \/ Disconnect("refused"))
    BY <1>4 DEF RecvRefused
  <2> QED
    BY <1>1, <2>1, EndDisconnect
<1>5. CASE LockConnect
  <2>1. ~connected /\ connected' = TRUE /\ conn' = conn + 1 /\ ends' = ends
    BY <1>5 DEF LockConnect, Connect
  <2> QED
    BY <2>1 DEF EndInv, OneEnd
<1>6. CASE \/ UpdateIdle \/ UpdateRunning \/ RecvConnect \/ RecvStart \/ RecvPlay
           \/ RecvDone \/ LockNothing \/ HandleExit
  <2>1. UNCHANGED <<connected, conn, ends>>
    BY <1>6 DEF UpdateIdle, UpdateRunning, RecvConnect, RecvStart, RecvPlay,
                RecvDone, LockNothing, HandleExit, netVars, history
  <2> QED
    BY <1>1, <2>1
<1>7. CASE Callback \/ UNCHANGED vars
  <2>1. UNCHANGED <<connected, conn, ends>>
    BY <1>7 DEF Callback, Arrive, ArriveError, ReceiveCallback, ReceiveInput,
                ReceiveError, netVars, history, vars
  <2> QED
    BY <1>1, <2>1
<1> QED
  BY <1>2, <1>3, <1>4, <1>5, <1>6, <1>7 DEF Next, MainStep

\* However a connection ends (Client.cs Disconnect, called by a failed send,
\* a missed heartbeat, a receive error, a refusal or the player), its end is
\* reported exactly once.
THEOREM EndedOnce == Spec => []OneEnd
<1>1. Init => EndInv
  <2>1. Init => ~connected /\ connected \in BOOLEAN /\ conn = 0 /\ ends = 0
    BY DEF Init
  <2> QED
    BY <2>1 DEF EndInv, OneEnd
<1>2. EndInv => OneEnd
  BY DEF EndInv
<1> QED
  BY <1>1, <1>2, EndStep, PTL DEF Spec

-----------------------------------------------------------------------------
(* A match and its connection.                                             *)

LEMMA OnlineStep == OnlineHasEnd /\ [Next]_vars => OnlineHasEnd'
<1> SUFFICES ASSUME OnlineHasEnd, [Next]_vars PROVE OnlineHasEnd'
  OBVIOUS
<1>1. CASE UNCHANGED <<connected, online, exitCode, lateStart>>
  BY <1>1 DEF OnlineHasEnd
<1>2. ASSUME NEW code \in {"normal", "refused"}, Disconnect(code),
             UNCHANGED <<online, lateStart>>
      PROVE  OnlineHasEnd'
  BY <1>2 DEF OnlineHasEnd, Disconnect
<1>3. CASE UpdateError \/ UpdateSendFails \/ LockDisconnect
  <2>1. Disconnect("normal") /\ UNCHANGED <<online, lateStart>>
    BY <1>3 DEF UpdateError, UpdateSendFails, LockDisconnect
  <2> QED
    BY <1>2, <2>1
<1>4. CASE HeartbeatTick
  <2>1. /\ UNCHANGED <<online, lateStart>>
        /\ UNCHANGED <<connected, exitCode>> \/ Disconnect("normal")
    BY <1>4 DEF HeartbeatTick
  <2> QED
    BY <1>1, <1>2, <2>1
<1>5. CASE RecvRefused
  <2>1. /\ UNCHANGED <<online, lateStart>>
        /\ UNCHANGED <<connected, exitCode>> \/ Disconnect("refused")
    BY <1>5 DEF RecvRefused
  <2> QED
    BY <1>1, <1>2, <2>1
<1>6. CASE RecvStart \/ HandleExit
  <2>1. CASE RecvStart
    <3>1. lateStart' = ~connected /\ connected' = connected
      BY <2>1 DEF RecvStart
    <3> QED
      BY <3>1, Zenon DEF OnlineHasEnd
  <2>2. CASE HandleExit
    <3>1. /\ online' = (online /\ exitCode = "none")
          /\ connected' = connected /\ lateStart' = lateStart
      BY <2>2 DEF HandleExit, netVars, history
    <3> QED
      BY <3>1, Zenon DEF OnlineHasEnd
  <2> QED
    BY <1>6, <2>1, <2>2
<1>7. CASE LockConnect
  BY <1>7 DEF OnlineHasEnd, LockConnect, Connect
<1>8. CASE \/ UpdateIdle \/ UpdateRunning \/ RecvConnect \/ RecvPlay \/ RecvDone
           \/ LockNothing
  <2>1. UNCHANGED <<connected, online, exitCode, lateStart>>
    BY <1>8 DEF UpdateIdle, UpdateRunning, RecvConnect, RecvPlay, RecvDone,
                LockNothing, netVars, history
  <2> QED
    BY <1>1, <2>1
<1>9. CASE Callback \/ UNCHANGED vars
  <2>1. UNCHANGED <<connected, online, exitCode, lateStart>>
    BY <1>9 DEF Callback, Arrive, ArriveError, ReceiveCallback, ReceiveInput,
                ReceiveError, netVars, history, vars
  <2> QED
    BY <1>1, <2>1
<1> QED
  BY <1>3, <1>4, <1>5, <1>6, <1>7, <1>8, <1>9 DEF Next, MainStep

\* A phone in a match (Networkmgr.cs online) without a connection is about
\* to leave the match, unless OnStart cleared its exitCode in the Update
\* that disconnected.
THEOREM OnlineEnded == Spec => []OnlineHasEnd
<1>1. Init => OnlineHasEnd
  BY DEF Init, OnlineHasEnd
<1> QED
  BY <1>1, OnlineStep, PTL DEF Spec

-----------------------------------------------------------------------------
(* The heartbeat.                                                          *)

\* A heartbeat flag that is not set has been so for as long as the timer has
\* run over this connection; and a timer that outlives a connection, entered
\* by a message dispatched too late, has not run at all.
BeatInv ==
  /\ timer \in {Stopped} \cup 0..(HeartbeatInterval - 1)
  /\ silence \in 0..HeartbeatInterval
  /\ connected /\ ~heartbeat => silence >= timer
  /\ ~connected => timer \in {Stopped, 0}

LEMMA SilentCounts ==
  ASSUME silence \in 0..HeartbeatInterval
  PROVE  /\ Silent \in 0..HeartbeatInterval
         /\ \A t \in Int : t < HeartbeatInterval /\ silence >= t => Silent >= t + 1
         /\ Silent >= silence
BY ClientAssumption DEF Silent

LEMMA BeatStep == BeatInv /\ [Next]_vars => BeatInv'
<1> SUFFICES ASSUME BeatInv, [Next]_vars PROVE BeatInv'
  OBVIOUS
<1> USE ClientAssumption DEF Stopped
<1>1. CASE UNCHANGED <<timer, silence, connected, heartbeat>>
  BY <1>1 DEF BeatInv
<1>2. ASSUME ~connected', timer' = Stopped, silence' \in 0..HeartbeatInterval
      PROVE  BeatInv'
  BY <1>2 DEF BeatInv
<1>3. CASE UpdateError \/ UpdateSendFails \/ LockDisconnect
  <2>1. connected /\ Disconnect("normal") /\ silence' \in {silence, Silent}
    BY <1>3 DEF UpdateError, UpdateSendFails, LockDisconnect
  <2> QED
    BY <1>2, <2>1, SilentCounts DEF BeatInv, Disconnect
<1>4. CASE UpdateRunning
  <2>1. /\ UNCHANGED <<connected, heartbeat>> /\ silence' = Silent
        /\ timer < HeartbeatInterval - 1
        /\ timer' = IF timer = Stopped THEN Stopped ELSE timer + 1
        /\ connected
    BY <1>4 DEF UpdateRunning
  <2> QED
    BY <2>1, SilentCounts DEF BeatInv
<1>5. CASE HeartbeatTick
  <2>1. connected /\ silence' = Silent
    BY <1>5 DEF HeartbeatTick
  <2>2. CASE heartbeat
    BY <1>5, <2>1, <2>2, SilentCounts DEF BeatInv, HeartbeatTick
  <2>3. CASE ~heartbeat
    <3>1. Disconnect("normal")
      BY <1>5, <2>3 DEF HeartbeatTick
    <3> QED
      BY <1>2, <2>1, <3>1, SilentCounts DEF BeatInv, Disconnect
  <2> QED
    BY <2>2, <2>3
<1>6. CASE RecvConnect
  BY <1>6 DEF BeatInv, RecvConnect, history
<1>7. CASE RecvRefused
  <2>1. CASE connected
    <3>1. Disconnect("refused") /\ silence' = silence
      BY <1>7, <2>1 DEF RecvRefused
    <3> QED
      BY <1>2, <2>1, <3>1 DEF BeatInv, Disconnect
  <2>2. CASE ~connected
    BY <1>7, <2>2 DEF BeatInv, RecvRefused
  <2> QED
    BY <2>1, <2>2
<1>8. CASE LockConnect
  BY <1>8 DEF BeatInv, LockConnect, Connect
<1>9. ASSUME NEW g \in Connections, ReceiveCallback(g)
      PROVE  BeatInv'
  BY <1>9 DEF BeatInv, ReceiveCallback
<1>10. CASE \/ UpdateIdle \/ RecvStart \/ RecvPlay \/ RecvDone \/ LockNothing
            \/ HandleExit
  <2>1. UNCHANGED <<timer, silence, connected, heartbeat>>
    BY <1>10 DEF UpdateIdle, RecvStart, RecvPlay, RecvDone, LockNothing,
                 HandleExit, netVars, history
  <2> QED
    BY <1>1, <2>1
<1>11. ASSUME NEW g \in Connections,
              Arrive(g) \/ ArriveError(g) \/ ReceiveInput(g) \/ ReceiveError(g)
       PROVE  BeatInv'
  <2>1. UNCHANGED <<timer, silence, connected, heartbeat>>
    BY <1>11 DEF Arrive, ArriveError, ReceiveInput, ReceiveError, netVars, history
  <2> QED
    BY <1>1, <2>1
<1>12. CASE UNCHANGED vars
  BY <1>1, <1>12 DEF vars, netVars, history
<1> QED
  BY <1>3, <1>4, <1>5, <1>6, <1>7, <1>8, <1>9, <1>10, <1>11, <1>12
     DEF Next, MainStep, Callback

\* HeartbeatTick (Client.cs) never ends a connection over which something
\* was received within the last HEARTBEAT_INTERVAL, though heartbeat and the
\* timer are left as they are from one connection to the next.
THEOREM NotHasty == Spec => HeartbeatNotHasty
<1>1. Init => BeatInv
  BY ClientAssumption DEF Init, BeatInv, Stopped
<1>2. ASSUME BeatInv, [Next]_vars, connected, ~connected',
             pc = "update", timer = HeartbeatInterval - 1, ~heartbeat,
             ~willDisconnect
      PROVE  silence' = HeartbeatInterval
  <2>1. silence' = Silent
    <3>1. CASE UpdateSendFails \/ HeartbeatTick
      BY <3>1 DEF UpdateSendFails, HeartbeatTick
    <3>2. ~UpdateError /\ ~UpdateIdle /\ ~UpdateRunning
      BY <1>2 DEF UpdateError, UpdateIdle, UpdateRunning
    <3>3. ~(RecvConnect \/ RecvRefused \/ RecvStart \/ RecvPlay \/ RecvDone)
      BY <1>2 DEF RecvConnect, RecvRefused, RecvStart, RecvPlay, RecvDone
    <3>4. ~(LockNothing \/ LockConnect \/ LockDisconnect \/ HandleExit)
      BY <1>2 DEF LockNothing, LockConnect, LockDisconnect, HandleExit
    <3>5. ~Callback /\ ~UNCHANGED vars
      BY <1>2 DEF Callback, Arrive, ArriveError, ReceiveCallback, ReceiveInput,
                  ReceiveError, vars, netVars
    <3> QED
      BY <1>2, <3>1, <3>2, <3>3, <3>4, <3>5 DEF Next, MainStep
  <2>2. silence >= timer
    BY <1>2 DEF BeatInv
  <2> QED
    BY <1>2, <2>1, <2>2, SilentCounts, ClientAssumption DEF BeatInv, Silent
<1> QED
  BY <1>1, <1>2, BeatStep, PTL DEF Spec, HeartbeatNotHasty

-----------------------------------------------------------------------------
(* Receive errors and what they end.                                       *)

\* The callbacks that have had an error and not yet said so.
Failing == {g \in Connections : chain[g].at = "error"}

Flag == IF willDisconnect THEN 1 ELSE 0

\* Every callback is somewhere.
Chains(c) == DOMAIN c = Connections /\ \A g \in Connections : "at" \in DOMAIN c[g]

ErrorInv ==
  /\ Chains(chain)
  /\ willDisconnect \in BOOLEAN
  /\ errors \in Nat /\ errorEnds \in Nat
  /\ errorEnds + Cardinality(Failing) + Flag <= errors

\* Callbacks that do something else than fail are not counted.
LEMMA FailingFewer ==
  ASSUME Failing' \subseteq Failing
  PROVE  /\ IsFiniteSet(Failing) /\ IsFiniteSet(Failing')
         /\ Cardinality(Failing') \in Nat /\ Cardinality(Failing) \in Nat
         /\ Cardinality(Failing') <= Cardinality(Failing)
<1>1. IsFiniteSet(Connections) /\ Failing \subseteq Connections
  BY ClientAssumption, FS_Interval DEF Connections, Failing
<1>2. IsFiniteSet(Failing)
  BY <1>1, FS_Subset
<1> QED
  BY <1>2, FS_Subset, FS_CardinalityType

LEMMA ErrorKept ==
  ASSUME ErrorInv, Chains(chain'), Failing' \subseteq Failing,
         UNCHANGED <<willDisconnect, errors, errorEnds>>
  PROVE  ErrorInv'
BY FailingFewer DEF ErrorInv, Flag

LEMMA DisconnectFails ==
  ASSUME ErrorInv, NEW code, Disconnect(code)
  PROVE  Chains(chain') /\ Failing' = Failing
<1>1. CASE chain' = chain
  BY <1>1 DEF ErrorInv, Failing, Chains
<1>2. CASE chain' = [g \in Connections |->
                       IF chain[g].at = "waiting" THEN [at |-> "none"] ELSE chain[g]]
  BY <1>2 DEF ErrorInv, Failing, Chains
<1> QED
  BY <1>1, <1>2 DEF Disconnect

LEMMA CallbackMoves ==
  ASSUME ErrorInv, NEW g \in Connections, NEW c, c.at # "error", "at" \in DOMAIN c,
         chain' = [chain EXCEPT ![g] = c],
         UNCHANGED <<willDisconnect, errors, errorEnds>>
  PROVE  ErrorInv'
<1>1. Chains(chain') /\ Failing' \subseteq Failing
  BY DEF ErrorInv, Failing, Chains
<1> QED
  BY <1>1, ErrorKept

LEMMA ErrorStep == ErrorInv /\ [Next]_vars => ErrorInv'
<1> SUFFICES ASSUME ErrorInv, [Next]_vars PROVE ErrorInv'
  OBVIOUS
<1>1. CASE UNCHANGED <<chain, willDisconnect, errors, errorEnds>>
  BY <1>1 DEF ErrorInv, Failing, Flag
<1>2. CASE UpdateError
  <2>1. /\ willDisconnect /\ ~willDisconnect' /\ willDisconnect' \in BOOLEAN
        /\ errorEnds' = errorEnds + 1 /\ errors' = errors /\ Disconnect("normal")
    BY <1>2 DEF UpdateError
  <2>2. Chains(chain') /\ Failing' = Failing
    BY <2>1, DisconnectFails
  <2>3. Cardinality(Failing) \in Nat
    BY <2>2, FailingFewer
  <2> QED
    BY <2>1, <2>2, <2>3 DEF ErrorInv, Flag
<1>3. CASE UpdateSendFails \/ LockDisconnect
  <2>1. Disconnect("normal") /\ UNCHANGED <<willDisconnect, errors, errorEnds>>
    BY <1>3 DEF UpdateSendFails, LockDisconnect
  <2> QED
    BY <2>1, DisconnectFails, ErrorKept
<1>4. CASE HeartbeatTick \/ RecvRefused
  <2>1. /\ UNCHANGED <<willDisconnect, errors, errorEnds>>
        /\ chain' = chain \/ \E code \in {"normal", "refused"} : Disconnect(code)
    BY <1>4 DEF HeartbeatTick, RecvRefused
  <2> QED
    BY <1>1, <2>1, DisconnectFails, ErrorKept
<1>5. CASE LockConnect
  <2>1. /\ chain' = [chain EXCEPT ![conn + 1] = [at |-> "waiting"]]
        /\ UNCHANGED <<willDisconnect, errors, errorEnds>>
    BY <1>5 DEF LockConnect, Connect
  <2> QED
    BY <2>1, ErrorKept DEF ErrorInv, Failing, Chains
<1>6. ASSUME NEW g \in Connections, Arrive(g) \/ ReceiveCallback(g) \/ ReceiveInput(g)
      PROVE  ErrorInv'
  <2>1. CASE Arrive(g)
    <3>1. PICK m \in Message \cup {"nothing"} :
            chain' = [chain EXCEPT ![g] = [at |-> "data", got |-> m, from |-> conn]]
      BY <2>1 DEF Arrive, Message
    <3> DEFINE c == [at |-> "data", got |-> m, from |-> conn]
    <3>2. c.at # "error" /\ "at" \in DOMAIN c
      OBVIOUS
    <3>3. /\ UNCHANGED <<willDisconnect, errors, errorEnds>>
          /\ chain' = [chain EXCEPT ![g] = c]
      BY <2>1, <3>1 DEF Arrive, netVars, history
    <3> HIDE DEF c
    <3> QED
      BY <3>2, <3>3, CallbackMoves
  <2>2. CASE ReceiveCallback(g)
    <3> DEFINE c == [chain[g] EXCEPT !.at = "input"]
    <3>1. /\ UNCHANGED <<willDisconnect, errors, errorEnds>>
          /\ chain' = [chain EXCEPT ![g] = c]
      BY <2>2 DEF ReceiveCallback
    <3>2. "at" \in DOMAIN chain[g]
      BY DEF ErrorInv, Chains
    <3>3. c.at # "error" /\ "at" \in DOMAIN c
      BY <3>2
    <3> HIDE DEF c
    <3> QED
      BY <3>1, <3>3, CallbackMoves
  <2>3. CASE ReceiveInput(g)
    <3> DEFINE c == [at |-> IF connected THEN "waiting" ELSE "none"]
    <3>1. c.at # "error" /\ "at" \in DOMAIN c
      OBVIOUS
    <3>2. /\ UNCHANGED <<willDisconnect, errors, errorEnds>>
          /\ chain' = [chain EXCEPT ![g] = c]
      BY <2>3 DEF ReceiveInput, history
    <3> HIDE DEF c
    <3> QED
      BY <3>1, <3>2, CallbackMoves
  <2> QED
    BY <1>6, <2>1, <2>2, <2>3
<1>7. ASSUME NEW g \in Connections, ArriveError(g)
      PROVE  ErrorInv'
  <2>1. /\ chain[g].at = "waiting" /\ chain' = [chain EXCEPT ![g] = [at |-> "error"]]
        /\ errors' = errors + 1 /\ UNCHANGED <<willDisconnect, errorEnds>>
    BY <1>7 DEF ArriveError, netVars
  <2>2. g \notin Failing /\ Failing' = Failing \cup {g} /\ Chains(chain')
    BY <2>1 DEF Failing, ErrorInv, Chains
  <2>3. IsFiniteSet(Connections) /\ Failing \subseteq Connections
    BY ClientAssumption, FS_Interval DEF Connections, Failing
  <2>4. IsFiniteSet(Failing)
    BY <2>3, FS_Subset
  <2>5. Cardinality(Failing') = Cardinality(Failing) + 1 /\ Cardinality(Failing) \in Nat
    BY <2>2, <2>4, FS_AddElement, FS_CardinalityType
  <2> QED
    BY <2>1, <2>2, <2>5 DEF ErrorInv, Flag
<1>8. ASSUME NEW g \in Connections, ReceiveError(g)
      PROVE  ErrorInv'
  <2>1. /\ chain[g].at = "error" /\ chain' = [chain EXCEPT ![g] = [at |-> "none"]]
        /\ willDisconnect' = TRUE /\ UNCHANGED <<errors, errorEnds>>
    BY <1>8 DEF ReceiveError, history
  <2>2. g \in Failing /\ Failing' = Failing \ {g} /\ Chains(chain')
    BY <2>1 DEF Failing, ErrorInv, Chains
  <2>3. IsFiniteSet(Failing) /\ Cardinality(Failing) \in Nat
    BY <2>2, FailingFewer
  <2>4. Cardinality(Failing') = Cardinality(Failing) - 1
    BY <2>2, <2>3, FS_RemoveElement
  <2> QED
    BY <2>1, <2>2, <2>3, <2>4 DEF ErrorInv, Flag
<1>9. CASE \/ UpdateIdle \/ UpdateRunning \/ RecvConnect \/ RecvStart \/ RecvPlay
           \/ RecvDone \/ LockNothing \/ HandleExit \/ UNCHANGED vars
  BY <1>1, <1>9 DEF UpdateIdle, UpdateRunning, RecvConnect, RecvStart, RecvPlay,
     RecvDone, LockNothing, HandleExit, netVars, wireVars, history, vars
<1> QED
  BY <1>2, <1>3, <1>4, <1>5, <1>6, <1>7, <1>8, <1>9 DEF Next, MainStep, Callback

\* Though ReceiveCallback (Client.cs) sets willDisconnect on its own thread, at
\* any time and for whatever connection is there, an error never ends more
\* than one of them.
THEOREM OneEach == Spec => []ErrorEndsOne
<1>1. Init => ErrorInv
  <2> SUFFICES ASSUME Init
               PROVE  ErrorInv
    OBVIOUS
  <2>1. /\ Chains(chain) /\ willDisconnect = FALSE /\ errors = 0
        /\ errorEnds = 0 /\ Failing = {}
    BY DEF Init, Failing, Chains
  <2>2. Cardinality(Failing) = 0 /\ Flag = 0
    BY <2>1, FS_EmptySet DEF Flag
  <2>3. errorEnds + Cardinality(Failing) + Flag <= errors
    BY <2>1, <2>2
  <2>4. willDisconnect \in BOOLEAN
    BY <2>1
  <2> QED
    BY <2>1, <2>3, <2>4 DEF ErrorInv
<1>2. ErrorInv => ErrorEndsOne
  BY DEF ErrorInv, ErrorEndsOne, Failing, Flag
<1> QED
  BY <1>1, <1>2, ErrorStep, PTL DEF Spec

-----------------------------------------------------------------------------
(* Numbers of segments.  At counts from First on, whereas a number is      *)
(* counted modulo Word; within half a word both say the same.              *)

Num == 0..Word - 1

\* A remainder of what is less than a word away.
LEMMA Remainder ==
  ASSUME NEW W \in Nat \ {0}, NEW x \in Int, NEW c \in {-1, 0, 1}, x + c * W \in 0..W - 1
  PROVE  x % W = x + c * W
<1> DEFINE q == x \div W
           r == x % W
<1>1. q \in Int /\ r \in 0..W - 1 /\ x = W * q + r
  OBVIOUS
<1> HIDE DEF q, r
<1>2. \A n \in Int : (n >= 1 => W * n >= W) /\ (n <= -1 => W * n <= -W)
  OBVIOUS
<1>3. W * (q + c) = W * q + c * W
  BY <1>1
<1>4. q + c \in Int /\ W * (q + c) > -W /\ W * (q + c) < W
  BY <1>1, <1>3
<1>5. q + c = 0
  BY <1>2, <1>4
<1>6. W * q + c * W = 0
  BY <1>3, <1>5
<1> QED BY <1>1, <1>6 DEF r

LEMMA Words == /\ Word \in Nat \ {0} /\ First \in Num /\ Wnd \in Nat \ {0}
               /\ MaxSegments \in Nat \ {0} /\ 2 * (MaxSegments + Wnd) <= Word
BY KcpAssumption DEF Num

LEMMA AtIs ==
  ASSUME NEW x \in Num
  PROVE  /\ At(x) \in Num
         /\ At(x) = IF x >= First THEN x - First ELSE x - First + Word
<1>1. x \in Int /\ First \in Int /\ x - First \in Int
  BY Words DEF Num
<1>2. CASE x >= First
  <2>1. (x - First) + 0 * Word \in 0..Word - 1
    BY <1>1, <1>2, Words DEF Num
  <2>2. (x - First) % Word = (x - First) + 0 * Word
    BY <1>1, <2>1, Words, Remainder
  <2> QED BY <1>1, <1>2, <2>1, <2>2, Words DEF At, Num
<1>3. CASE x < First
  <2>1. (x - First) + 1 * Word \in 0..Word - 1
    BY <1>1, <1>3, Words DEF Num
  <2>2. (x - First) % Word = (x - First) + 1 * Word
    BY <1>1, <2>1, Words, Remainder
  <2> QED BY <1>1, <1>3, <2>1, <2>2, Words DEF At, Num
<1> QED BY <1>1, <1>2, <1>3

LEMMA AtFirst == At(First) = 0
BY AtIs, Words DEF Num

LEMMA AtOne ==
  ASSUME NEW x \in Num, NEW y \in Num, At(x) = At(y)
  PROVE  x = y
BY AtIs, Words DEF Num

LEMMA AtBack ==
  ASSUME NEW a \in Num
  PROVE  \E x \in Num : At(x) = a
<1>1. CASE First + a < Word
  <2>1. First + a \in Num /\ First + a >= First
    BY <1>1, Words DEF Num
  <2>2. At(First + a) = (First + a) - First
    BY <2>1, AtIs
  <2> QED BY <2>1, <2>2, Words DEF Num
<1>2. CASE First + a >= Word
  <2>1. First + a - Word \in Num /\ ~(First + a - Word >= First)
    BY <1>2, Words DEF Num
  <2>2. At(First + a - Word) = (First + a - Word) - First + Word
    BY <2>1, AtIs
  <2> QED BY <2>1, <2>2, Words DEF Num
<1> QED BY <1>1, <1>2, Words DEF Num

LEMMA AtAdd ==
  ASSUME NEW x \in Num, NEW c \in Nat, At(x) + c < Word
  PROVE  (x + c) % Word \in Num /\ At((x + c) % Word) = At(x) + c
<1>1. At(x) \in 0..Word - 1 /\ c < Word /\ x \in Int /\ x + c \in Int
  BY AtIs, Words DEF Num
<1>2. CASE x + c < Word
  <2>3. x + c \in Num
    BY <1>1, <1>2, Words DEF Num
  <2>1. (x + c) + 0 * Word = x + c
    BY <1>1, Words
  <2>2. (x + c) % Word = x + c
    BY <1>1, <2>1, <2>3, Words, Remainder DEF Num
  <2> QED BY <1>1, <2>2, <2>3, AtIs, Words DEF Num
<1>3. CASE x + c >= Word
  <2>1. (x + c) + (-1) * Word \in 0..Word - 1
    BY <1>1, <1>3, Words DEF Num
  <2>2. (x + c) % Word = x + c - Word
    <3>1. (x + c) % Word = (x + c) + (-1) * Word
      BY <1>1, <2>1, Words, Remainder
    <3> QED BY <3>1, <1>1, Words
  <2>3. x + c - Word \in Num
    BY <1>1, <2>1, Words DEF Num
  <2> QED BY <1>1, <1>3, <2>2, <2>3, AtIs, Words DEF Num
<1> QED BY <1>1, <1>2, <1>3, Words

\* _itimediff says how far two numbers are apart, up to half a word.
LEMMA DiffAt ==
  ASSUME NEW x \in Num, NEW y \in Num,
         2 * (At(x) - At(y)) < Word, 2 * (At(y) - At(x)) <= Word
  PROVE  Diff(x, y) = At(x) - At(y)
<1> DEFINE d == (x - y) % Word
<1>1. /\ x \in Int /\ y \in Int /\ x - y \in Int /\ At(x) \in Int /\ At(y) \in Int
      /\ \/ x - y = At(x) - At(y) \/ x - y = At(x) - At(y) + Word
         \/ x - y = At(x) - At(y) - Word
      /\ 0 * Word = 0 /\ 1 * Word = Word /\ (-1) * Word = -Word
  <2>1. At(x) \in Int /\ At(y) \in Int /\ x \in Int /\ y \in Int /\ Word \in Int
    BY AtIs, Words DEF Num
  <2>2. \/ x - y = At(x) - At(y) \/ x - y = At(x) - At(y) + Word
        \/ x - y = At(x) - At(y) - Word
    BY <2>1, AtIs, Words DEF Num
  <2> QED BY <2>1, <2>2
<1>2. CASE At(x) >= At(y)
  <2>1. At(x) - At(y) \in 0..Word - 1
    BY <1>1, <1>2, AtIs, Words DEF Num
  <2>2. \E c \in {-1, 0, 1} : (x - y) + c * Word = At(x) - At(y)
    <3>1. CASE x - y = At(x) - At(y)
      BY <1>1, <3>1
    <3>2. CASE x - y = At(x) - At(y) + Word
      BY <1>1, <3>2, Words
    <3>3. CASE x - y = At(x) - At(y) - Word
      <4>1. (x - y) + 1 * Word = At(x) - At(y)
        BY <1>1, <3>3, Words
      <4> QED BY <4>1
    <3> QED BY <1>1, <3>1, <3>2, <3>3
  <2>3. d = At(x) - At(y)
    BY <1>1, <2>1, <2>2, Words, Remainder
  <2> QED BY <1>1, <2>3, Words DEF Diff
<1>3. CASE At(x) < At(y)
  <2>1. At(x) - At(y) + Word \in 0..Word - 1
    BY <1>1, <1>3, AtIs, Words DEF Num
  <2>2. \E c \in {-1, 0, 1} : (x - y) + c * Word = At(x) - At(y) + Word
    <3>1. x - y # At(x) - At(y) - Word
      BY <1>1, <1>3, Words DEF Num
    <3> QED BY <1>1, <3>1, Words
  <2>3. d = At(x) - At(y) + Word
    BY <1>1, <2>1, <2>2, Words, Remainder
  <2>4. d \in Int /\ 2 * d >= Word /\ d - Word = At(x) - At(y)
    BY <1>1, <2>3, Words
  <2>5. Diff(x, y) = IF 2 * d >= Word THEN d - Word ELSE d
    BY DEF Diff
  <2> HIDE DEF d
  <2> QED BY <2>4, <2>5
<1> QED BY <1>1, <1>2, <1>3

\* A set of numbers that is not empty has a least one.
LEMMA Least ==
  ASSUME NEW S \in SUBSET Nat, S # {}
  PROVE  \E h \in S : \A k \in S : h <= k
<1> DEFINE Below(h) == {k \in Nat : k < h}
           T == {Below(h) : h \in S}
<1>1. ASSUME NEW h \in Nat PROVE Below(h) \in SUBSET Nat /\ IsFiniteSet(Below(h))
  <2>1. Below(h) \subseteq 0..h /\ Below(h) \in SUBSET Nat
    OBVIOUS
  <2>2. IsFiniteSet(0..h)
    BY FS_Interval
  <2> HIDE DEF Below
  <2> QED
    BY <2>1, <2>2, FS_Subset
<1>2. T \subseteq FiniteSubsetsOf(Nat) /\ T # {}
  BY <1>1 DEF FiniteSubsetsOf
<1>3. PICK x \in T : \A y \in T : <<y, x>> \notin StrictSubsetOrdering(Nat)
  <2>1. IsWellFoundedOn(StrictSubsetOrdering(Nat), FiniteSubsetsOf(Nat))
    BY FS_StrictSubsetOrderingWellFounded
  <2> HIDE DEF T
  <2> QED
    BY <1>2, <2>1, WFMin
<1>4. PICK h \in S : x = Below(h)
  OBVIOUS
<1>5. ASSUME NEW k \in S, k < h PROVE FALSE
  <2>1. Below(k) \subseteq x /\ Below(k) # x /\ Below(k) \in SUBSET Nat /\ x \in SUBSET Nat
    <3>1. k \in x /\ k \notin Below(k)
      BY <1>4, <1>5
    <3> QED
      BY <1>4, <1>5, <3>1
  <2>2. Below(k) \in T
    OBVIOUS
  <2> HIDE DEF T, Below
  <2>3. <<Below(k), x>> \in StrictSubsetOrdering(Nat)
    BY <2>1 DEF StrictSubsetOrdering
  <2> QED
    BY <1>3, <2>2, <2>3
<1> QED
  BY <1>5

-----------------------------------------------------------------------------
(* Lists of segments.                                                      *)

Piece == [frg : Nat, data : Data]
Seg   == [sn : Num, frg : Nat, data : Data]

\* In the order of their numbers, none twice.
Sorted(buf) ==
  \A i, j \in 1..Len(buf) : i < j => At(buf[i].sn) < At(buf[j].sn)

\* t is what is left of the first n segments of buf without those in sns.
Left(t, buf, sns, n) ==
  /\ t \in Seq(Seg)
  /\ \E h \in [1..Len(t) -> 1..n] :
       /\ \A i, j \in 1..Len(t) : i < j => h[i] < h[j]
       /\ \A i \in 1..Len(t) : t[i] = buf[h[i]]
  /\ \A i \in 1..Len(t) : t[i].sn \notin sns
  /\ \A m \in 1..n : buf[m].sn \notin sns => \E i \in 1..Len(t) : t[i] = buf[m]

LEMMA LeftMore ==
  ASSUME NEW buf \in Seq(Seg), NEW sns, NEW n \in 0..Len(buf) - 1, NEW t,
         Left(t, buf, sns, n)
  PROVE  Left(IF buf[n + 1].sn \in sns THEN t ELSE Append(t, buf[n + 1]), buf, sns, n + 1)
<1>1. /\ t \in Seq(Seg) /\ n + 1 \in 1..Len(buf) /\ buf[n + 1] \in Seg /\ n \in Nat
      /\ \A i \in 1..Len(t) : t[i].sn \notin sns
      /\ \A m \in 1..n : buf[m].sn \notin sns => \E i \in 1..Len(t) : t[i] = buf[m]
  BY DEF Left
<1>2. PICK h \in [1..Len(t) -> 1..n] :
        /\ \A i, j \in 1..Len(t) : i < j => h[i] < h[j]
        /\ \A i \in 1..Len(t) : t[i] = buf[h[i]]
  BY DEF Left
<1>3. CASE buf[n + 1].sn \in sns
  <2>1. h \in [1..Len(t) -> 1..n + 1]
    BY <1>1
  <2>2. \A m \in 1..n + 1 : buf[m].sn \notin sns => m \in 1..n
    BY <1>1, <1>3
  <2> QED BY <1>1, <1>2, <1>3, <2>1, <2>2 DEF Left
<1>4. CASE buf[n + 1].sn \notin sns
  <2> DEFINE u == Append(t, buf[n + 1])
             g == [i \in 1..Len(u) |-> IF i <= Len(t) THEN h[i] ELSE n + 1]
  <2>1. /\ u \in Seq(Seg) /\ Len(u) = Len(t) + 1 /\ u[Len(u)] = buf[n + 1] /\ Len(t) \in Nat
        /\ \A i \in 1..Len(t) : u[i] = t[i]
    BY <1>1
  <2> HIDE DEF u
  <2>2. g \in [1..Len(u) -> 1..n + 1]
    BY <1>1, <2>1
  <2>3. \A i, j \in 1..Len(u) : i < j => g[i] < g[j]
    BY <1>1, <1>2, <2>1
  <2>4. \A i \in 1..Len(u) : u[i] = buf[g[i]]
    BY <1>1, <1>2, <2>1
  <2>5. \A i \in 1..Len(u) : u[i].sn \notin sns
    BY <1>1, <1>4, <2>1
  <2>6. ASSUME NEW m \in 1..n + 1, buf[m].sn \notin sns
        PROVE  \E i \in 1..Len(u) : u[i] = buf[m]
    <3>1. CASE m = n + 1
      BY <2>1, <3>1
    <3>2. CASE m \in 1..n
      <4>1. PICK i \in 1..Len(t) : t[i] = buf[m]
        BY <1>1, <2>6, <3>2
      <4>2. i \in 1..Len(u) /\ u[i] = buf[m]
        BY <2>1, <4>1
      <4> QED BY <4>2
    <3> QED BY <1>1, <3>1, <3>2
  <2> HIDE DEF g
  <2>7. Left(u, buf, sns, n + 1)
    BY <2>1, <2>2, <2>3, <2>4, <2>5, <2>6 DEF Left
  <2> QED BY <1>4, <2>7 DEF u
<1> QED BY <1>3, <1>4

\* What Without computes.
LEMMA WithoutIs ==
  ASSUME NEW buf \in Seq(Seg), NEW sns
  PROVE  Left(Without(buf, sns), buf, sns, Len(buf))
<1> DEFINE Take(t, i) == IF buf[i].sn \in sns THEN t ELSE Append(t, buf[i])
           Run(f, n)  == f = [i \in 0..n |-> IF i = 0 THEN <<>> ELSE Take(f[i - 1], i)]
           Bad        == {n \in 0..Len(buf) : ~\E f : Run(f, n)}
<1>1. ASSUME Bad # {} PROVE FALSE
  <2>1. PICK n \in Bad : \A m \in Bad : n <= m
    <3>1. Bad \in SUBSET Nat
      OBVIOUS
    <3> HIDE DEF Bad
    <3> QED BY <1>1, <3>1, Least
  <2>2. n # 0
    <3>1. Run([i \in 0..0 |-> <<>>], 0)
      OBVIOUS
    <3> QED BY <2>1, <3>1
  <2>3. PICK f : Run(f, n - 1)
    <3>1. n - 1 \in 0..Len(buf) /\ ~(n <= n - 1)
      BY <2>1, <2>2
    <3>2. n - 1 \notin Bad
      BY <2>1, <3>1
    <3> HIDE DEF Run
    <3> QED BY <3>1, <3>2
  <2> DEFINE g == [i \in 0..n |-> IF i < n THEN f[i] ELSE Take(f[n - 1], n)]
  <2>4. ASSUME NEW i \in 0..n
        PROVE  g[i] = IF i = 0 THEN <<>> ELSE Take(g[i - 1], i)
    <3>1. CASE i = n
      <4>1. g[i] = Take(f[n - 1], n) /\ g[n - 1] = f[n - 1]
        BY <2>2, <3>1
      <4> QED BY <2>2, <3>1, <4>1
    <3>2. CASE i < n
      <4>1. g[i] = f[i] /\ (i # 0 => g[i - 1] = f[i - 1])
        BY <3>2
      <4>2. f[i] = IF i = 0 THEN <<>> ELSE Take(f[i - 1], i)
        <5>1. i \in 0..n - 1
          BY <3>2
        <5> HIDE DEF Take
        <5> QED BY <2>3, <5>1
      <4> QED BY <4>1, <4>2
    <3> QED BY <3>1, <3>2
  <2>5. Run(g, n)
    <3>1. g = [i \in 0..n |-> g[i]]
      OBVIOUS
    <3> HIDE DEF g, Take
    <3> QED BY <2>4, <3>1
  <2> QED BY <2>1, <2>5
<1> DEFINE r == CHOOSE f : Run(f, Len(buf))
<1>2. Run(r, Len(buf)) /\ Without(buf, sns) = r[Len(buf)]
  <2>1. \E f : Run(f, Len(buf))
    <3>1. Len(buf) \in 0..Len(buf)
      OBVIOUS
    <3> HIDE DEF Run
    <3> QED BY <1>1, <3>1
  <2>2. Run(r, Len(buf))
    <3> HIDE DEF Run
    <3> QED BY <2>1
  <2>3. Without(buf, sns) = r[Len(buf)]
    BY DEF Without
  <2> QED BY <2>2, <2>3
<1>3. /\ r[0] = <<>>
      /\ \A i \in 1..Len(buf) : r[i] = Take(r[i - 1], i)
  <2> HIDE DEF r, Take
  <2> QED BY <1>2
<1> HIDE DEF r
<1> DEFINE Worse == {n \in 0..Len(buf) : ~Left(r[n], buf, sns, n)}
<1>4. ASSUME Worse # {} PROVE FALSE
  <2>1. PICK n \in Worse : \A m \in Worse : n <= m
    <3>1. Worse \in SUBSET Nat
      OBVIOUS
    <3> HIDE DEF Worse
    <3> QED BY <1>4, <3>1, Least
  <2>2. n # 0
    <3>1. <<>> \in Seq(Seg) /\ Len(<<>>) = 0
      OBVIOUS
    <3>2. [i \in 1..0 |-> 1] \in [1..0 -> 1..0]
      OBVIOUS
    <3>3. \A i \in 1..0 : FALSE
      OBVIOUS
    <3> DEFINE e == <<>>
    <3> HIDE DEF e
    <3>4. Left(e, buf, sns, 0)
      <4>1. e \in Seq(Seg) /\ Len(e) = 0
        BY <3>1 DEF e
      <4>2. PICK h \in [1..Len(e) -> 1..0] : TRUE
        BY <3>2, <4>1
      <4> QED BY <3>3, <4>1, <4>2 DEF Left
    <3>5. Left(<<>>, buf, sns, 0)
      BY <3>4 DEF e
    <3> QED BY <1>3, <2>1, <3>5
  <2>3. n - 1 \in 0..Len(buf) - 1 /\ (n - 1) + 1 = n /\ n \in 1..Len(buf)
    BY <2>1, <2>2
  <2>4. Left(r[n - 1], buf, sns, n - 1)
    BY <2>1, <2>3
  <2>5. Left(r[n], buf, sns, n)
    <3> DEFINE m == n - 1
    <3>1. m \in 0..Len(buf) - 1 /\ m + 1 = n /\ Left(r[m], buf, sns, m)
      BY <2>3, <2>4
    <3> HIDE DEF m
    <3>2. Left(IF buf[m + 1].sn \in sns THEN r[m] ELSE Append(r[m], buf[m + 1]),
               buf, sns, m + 1)
      BY <3>1, LeftMore
    <3>3. r[n] = Take(r[n - 1], n)
      BY <1>3, <2>3
    <3> QED BY <3>1, <3>2, <3>3 DEF m
  <2> QED BY <2>1, <2>5
<1>5. Left(r[Len(buf)], buf, sns, Len(buf))
  <2>1. Len(buf) \in 0..Len(buf)
    OBVIOUS
  <2> QED BY <1>4, <2>1
<1> QED BY <1>2, <1>5

\* A sorted list stays so, and loses those numbers.
LEMMA WithoutSorted ==
  ASSUME NEW buf \in Seq(Seg), Sorted(buf), NEW sns
  PROVE  /\ Without(buf, sns) \in Seq(Seg) /\ Sorted(Without(buf, sns))
         /\ Sns(Without(buf, sns)) = Sns(buf) \ sns
         /\ \A i \in 1..Len(Without(buf, sns)) : \E m \in 1..Len(buf) :
              Without(buf, sns)[i] = buf[m]
         /\ buf = <<>> => Without(buf, sns) = <<>>
<1> DEFINE t == Without(buf, sns)
<1>1. Left(t, buf, sns, Len(buf))
  BY WithoutIs
<1> HIDE DEF t
<1>2. PICK h \in [1..Len(t) -> 1..Len(buf)] :
        /\ \A i, j \in 1..Len(t) : i < j => h[i] < h[j]
        /\ \A i \in 1..Len(t) : t[i] = buf[h[i]]
  BY <1>1 DEF Left
<1>3. /\ t \in Seq(Seg)
      /\ \A i \in 1..Len(t) : t[i].sn \notin sns
      /\ \A m \in 1..Len(buf) : buf[m].sn \notin sns => \E i \in 1..Len(t) : t[i] = buf[m]
  BY <1>1 DEF Left
<1>4. Sorted(t)
  BY <1>2 DEF Sorted
<1>5. \A i \in 1..Len(t) : \E m \in 1..Len(buf) : t[i] = buf[m]
  BY <1>2
<1>6. Sns(t) = Sns(buf) \ sns
  <2>1. ASSUME NEW x \in Sns(t) PROVE x \in Sns(buf) \ sns
    BY <1>3, <1>5, <2>1 DEF Sns
  <2>2. ASSUME NEW x \in Sns(buf), x \notin sns PROVE x \in Sns(t)
    <3>1. PICK m \in 1..Len(buf) : x = buf[m].sn
      BY DEF Sns
    <3>2. PICK i \in 1..Len(t) : t[i] = buf[m]
      BY <1>3, <2>2, <3>1
    <3> QED BY <3>1, <3>2 DEF Sns
  <2> QED BY <2>1, <2>2
<1>7. buf = <<>> => t = <<>>
  <2> SUFFICES ASSUME buf = <<>> PROVE t = <<>>
    OBVIOUS
  <2>1. Len(t) \in Nat /\ Len(buf) = 0
    BY <1>3
  <2>2. Len(t) = 0
    BY <1>5, <2>1
  <2> QED BY <1>3, <2>2
<1> QED BY <1>3, <1>4, <1>5, <1>6, <1>7 DEF t

-----------------------------------------------------------------------------
(* The receiver.  F is what the sender has queued since the beginning, of  *)
(* which N pieces have a number; the queue holds what follows the first c. *)

End == [sndQueue : Seq(Piece), sndBuf : Seq(Seg), sndUna : Num, sndNxt : Num,
        rmtWnd : 0..Wnd, probing : BOOLEAN, tell : BOOLEAN, acks : SUBSET Num,
        rcvNxt : Num, rcvBuf : Seq(Seg), rcvQueue : Seq(Piece)]

History(F, N, c) ==
  F \in Seq(Piece) /\ N \in 0..Len(F) /\ Len(F) <= MaxSegments /\ c \in Nat

Genuine(s, F, N) ==
  /\ At(s.sn) < N
  /\ s.frg = F[At(s.sn) + 1].frg /\ s.data = F[At(s.sn) + 1].data

\* The numbers that have come to k.
Came(k) == {x \in Num : At(x) < At(k.rcvNxt)} \cup Sns(k.rcvBuf)

RecvInv(k, F, N, c) ==
  /\ k \in End
  /\ k.sndQueue = <<>> /\ k.sndBuf = <<>> /\ k.sndUna = First /\ k.sndNxt = First
  /\ At(k.rcvNxt) <= N
  /\ Sorted(k.rcvBuf)
  /\ \A i \in 1..Len(k.rcvBuf) :
       /\ Genuine(k.rcvBuf[i], F, N)
       /\ At(k.rcvBuf[i].sn) >= At(k.rcvNxt)
       /\ At(k.rcvBuf[i].sn) < At(k.rcvNxt) + Wnd
  /\ Len(k.rcvQueue) <= Wnd
  /\ c + Len(k.rcvQueue) = At(k.rcvNxt)
  /\ \A i \in 1..Len(k.rcvQueue) : k.rcvQueue[i] = F[c + i]
  /\ k.acks \subseteq Came(k)

\* What MoveReady moves.
LEMMA MoveReadyIs ==
  ASSUME NEW k \in End, Len(k.rcvQueue) <= Wnd
  PROVE  \E n \in 0..Wnd :
           /\ n <= Len(k.rcvBuf) /\ Len(k.rcvQueue) + n <= Wnd
           /\ \A i \in 1..n : k.rcvBuf[i].sn = (k.rcvNxt + i - 1) % Word
           /\ MoveReady(k) =
                [k EXCEPT !.rcvQueue = @ \o [i \in 1..n |-> [frg |-> k.rcvBuf[i].frg,
                                                            data |-> k.rcvBuf[i].data]],
                          !.rcvBuf = SubSeq(@, n + 1, Len(@)),
                          !.rcvNxt = (@ + n) % Word]
<1> DEFINE Ready(n) == /\ n <= Len(k.rcvBuf) /\ Len(k.rcvQueue) + n <= Wnd
                       /\ \A i \in 1..n : k.rcvBuf[i].sn = (k.rcvNxt + i - 1) % Word
           Last(n)  == Ready(n) /\ (n = Wnd \/ ~Ready(n + 1))
           S        == {m \in 0..Wnd : Ready(Wnd - m)}
<1>1. Wnd \in Nat /\ Len(k.rcvBuf) \in Nat /\ Len(k.rcvQueue) \in Nat
  BY Words DEF End
<1>2. Ready(0)
  BY <1>1
<1>3. \E n \in 0..Wnd : Last(n)
  <2>1. S \in SUBSET Nat /\ Wnd \in S
    <3>1. Wnd - Wnd = 0 /\ Wnd \in 0..Wnd
      BY <1>1
    <3> HIDE DEF Ready
    <3> QED BY <1>2, <3>1
  <2>2. PICK m \in S : \A j \in S : m <= j
    <3> HIDE DEF S
    <3> QED BY <2>1, Least
  <2>3. Wnd - m \in 0..Wnd /\ Ready(Wnd - m)
    BY <1>1, <2>2
  <2>4. Wnd - m = Wnd \/ ~Ready((Wnd - m) + 1)
    <3> SUFFICES ASSUME Wnd - m # Wnd PROVE ~Ready((Wnd - m) + 1)
      OBVIOUS
    <3>1. m - 1 \in 0..Wnd /\ Wnd - (m - 1) = (Wnd - m) + 1 /\ ~(m <= m - 1)
      BY <1>1, <2>2
    <3>2. m - 1 \notin S
      BY <2>2, <3>1
    <3> HIDE DEF Ready
    <3> QED BY <3>1, <3>2
  <2> HIDE DEF Ready
  <2> QED BY <2>3, <2>4
<1> DEFINE n == CHOOSE n \in 0..Wnd : Last(n)
<1>4. n \in 0..Wnd /\ Last(n)
  <2> HIDE DEF Last
  <2> QED BY <1>3
<1>5. MoveReady(k) =
        [k EXCEPT !.rcvQueue = @ \o [i \in 1..n |-> [frg |-> k.rcvBuf[i].frg,
                                                    data |-> k.rcvBuf[i].data]],
                  !.rcvBuf = SubSeq(@, n + 1, Len(@)),
                  !.rcvNxt = (@ + n) % Word]
  BY DEF MoveReady
<1> HIDE DEF n
<1> QED BY <1>4, <1>5

\* The window moves on, and nothing that had come is lost.
LEMMA MoveReadyKeeps ==
  ASSUME NEW F, NEW N, NEW c, History(F, N, c), NEW k, RecvInv(k, F, N, c)
  PROVE  RecvInv(MoveReady(k), F, N, c) /\ Came(k) \subseteq Came(MoveReady(k))
<1> DEFINE R == At(k.rcvNxt)
           b == k.rcvBuf
           q == k.rcvQueue
           M == MoveReady(k)
<1>1. /\ k \in End /\ b \in Seq(Seg) /\ q \in Seq(Piece) /\ k.rcvNxt \in Num
      /\ F \in Seq(Piece) /\ \A i \in 1..Len(q) : q[i] = F[c + i]
  BY DEF RecvInv, End, History
<1>0. /\ Len(q) <= Wnd /\ Len(b) \in Nat /\ Len(q) \in Nat /\ R \in Nat /\ R <= N
      /\ N \in Nat /\ N <= Len(F) /\ Len(F) <= MaxSegments /\ Len(F) \in Nat
      /\ c \in Nat /\ c + Len(q) = R
      /\ Wnd \in Nat /\ MaxSegments + Wnd < Word /\ MaxSegments \in Nat /\ Word \in Nat
  <2>1. Len(q) <= Wnd /\ R <= N /\ c + Len(q) = R
    BY DEF RecvInv
  <2>2. N \in Nat /\ N <= Len(F) /\ Len(F) <= MaxSegments /\ Len(F) \in Nat /\ c \in Nat
    BY <1>1 DEF History
  <2>3. R \in Nat /\ Len(b) \in Nat /\ Len(q) \in Nat
    BY <1>1, AtIs DEF Num
  <2>4. Wnd \in Nat /\ MaxSegments + Wnd < Word /\ MaxSegments \in Nat /\ Word \in Nat
    BY Words
  <2> QED BY <2>1, <2>2, <2>3, <2>4
<1>2. /\ Sorted(b)
      /\ \A i \in 1..Len(b) : /\ b[i] \in Seg /\ b[i].sn \in Num /\ At(b[i].sn) \in Nat
                              /\ Genuine(b[i], F, N) /\ At(b[i].sn) >= R /\ At(b[i].sn) < R + Wnd
  <2>1. \A i \in 1..Len(b) : b[i] \in Seg
    BY <1>1
  <2> QED BY <2>1, AtIs DEF RecvInv, Seg, Num
<1>3. PICK n \in 0..Wnd :
        /\ n <= Len(b) /\ Len(q) + n <= Wnd
        /\ \A i \in 1..n : b[i].sn = (k.rcvNxt + i - 1) % Word
        /\ M = [k EXCEPT !.rcvQueue = @ \o [i \in 1..n |-> [frg |-> k.rcvBuf[i].frg,
                                                            data |-> k.rcvBuf[i].data]],
                         !.rcvBuf = SubSeq(@, n + 1, Len(@)),
                         !.rcvNxt = (@ + n) % Word]
  BY <1>0, <1>1, MoveReadyIs
<1> DEFINE new == [i \in 1..n |-> [frg |-> k.rcvBuf[i].frg, data |-> k.rcvBuf[i].data]]
           b2  == SubSeq(b, n + 1, Len(b))
           x2  == (k.rcvNxt + n) % Word
<1> HIDE DEF R, b, q, M, new, b2, x2
<1>4. /\ M = [k EXCEPT !.rcvQueue = q \o new, !.rcvBuf = b2, !.rcvNxt = x2]
      /\ R = At(k.rcvNxt)
  BY <1>3 DEF b, q, new, b2, x2, R
<1>n. n \in Nat /\ n <= Wnd /\ n <= Len(b) /\ Len(q) + n <= Wnd
  BY <1>0, <1>3
<1>5. \A i \in 1..n : At(b[i].sn) = R + (i - 1)
  <2> SUFFICES ASSUME NEW i \in 1..n PROVE At(b[i].sn) = R + (i - 1)
    OBVIOUS
  <2>1. i - 1 \in Nat /\ R + (i - 1) < Word /\ k.rcvNxt + i - 1 = k.rcvNxt + (i - 1)
    BY <1>0, <1>n, <1>1 DEF Num
  <2> QED BY <1>1, <1>3, <1>4, <2>1, AtAdd
<1>6. R + n <= N
  <2>1. n = 0 \/ (n \in 1..n /\ n \in 1..Len(b))
    BY <1>0, <1>n
  <2>2. n # 0 => At(b[n].sn) < N
    BY <1>2, <2>1 DEF Genuine
  <2> QED BY <1>0, <1>n, <1>1, <1>4, <1>5, <2>1, <2>2
<1>7. x2 \in Num /\ At(x2) = R + n
  <2>1. R + n < Word
    BY <1>0, <1>n, <1>1, <1>4, <1>6
  <2> QED BY <1>0, <1>n, <1>1, <1>4, <2>1, AtAdd DEF x2
<1>8. new \in Seq(Piece) /\ Len(new) = n /\ \A i \in 1..n : new[i] = F[R + i]
  <2>1. \A i \in 1..n : i \in 1..Len(b) /\ b[i] \in Seg
    BY <1>0, <1>n, <1>1, <1>2, <1>4
  <2>2. \A i \in 1..n : [frg |-> b[i].frg, data |-> b[i].data] \in Piece
    BY <2>1 DEF Seg, Piece
  <2>3. new \in Seq(Piece) /\ Len(new) = n
    BY <1>n, <2>2 DEF new, b
  <2>4. ASSUME NEW i \in 1..n PROVE new[i] = F[R + i]
    <3>1. /\ b[i].frg = F[At(b[i].sn) + 1].frg /\ b[i].data = F[At(b[i].sn) + 1].data
      BY <1>2, <2>1 DEF Genuine
    <3>2. At(b[i].sn) + 1 = R + i
      BY <1>0, <1>n, <1>1, <1>4, <1>5
    <3>3. R + i \in 1..Len(F)
      BY <1>0, <1>n, <1>6
    <3>4. F[R + i] \in Piece
      BY <1>0, <1>n, <1>1, <3>3
    <3>5. new[i] = [frg |-> F[R + i].frg, data |-> F[R + i].data]
      BY <3>1, <3>2 DEF new, b
    <3> QED BY <3>4, <3>5 DEF Piece
  <2> QED BY <2>3, <2>4
<1>9. /\ b2 \in Seq(Seg) /\ Len(b2) = Len(b) - n
      /\ \A i \in 1..Len(b2) : i + n \in 1..Len(b) /\ b2[i] = b[i + n]
  <2>1. b \in Seq(Seg) /\ n \in Nat /\ n <= Len(b)
    BY <1>1, <1>n
  <2> QED BY <2>1 DEF b2
<1>10. M \in End
  <2>1. q \o new \in Seq(Piece)
    BY <1>1, <1>8
  <2> QED BY <1>1, <1>4, <1>7, <1>9, <2>1 DEF End
<1>11. /\ M.sndQueue = k.sndQueue /\ M.sndBuf = k.sndBuf /\ M.sndUna = k.sndUna
       /\ M.sndNxt = k.sndNxt /\ M.acks = k.acks
       /\ M.rcvNxt = x2 /\ M.rcvBuf = b2 /\ M.rcvQueue = q \o new
  BY <1>0, <1>n, <1>1, <1>4 DEF End
<1>12. Sorted(b2)
  <2> SUFFICES ASSUME NEW i \in 1..Len(b2), NEW j \in 1..Len(b2), i < j
               PROVE  At(b2[i].sn) < At(b2[j].sn)
    BY DEF Sorted
  <2>1. i + n \in 1..Len(b) /\ j + n \in 1..Len(b) /\ b2[i] = b[i + n] /\ b2[j] = b[j + n]
    BY <1>9
  <2>2. i + n < j + n
    BY <1>0, <1>n, <1>9
  <2> QED BY <1>2, <2>1, <2>2 DEF Sorted
<1>13. ASSUME NEW i \in 1..Len(b2)
       PROVE  /\ Genuine(b2[i], F, N) /\ At(b2[i].sn) >= R + n /\ At(b2[i].sn) < R + n + Wnd
  <2>1. i + n \in 1..Len(b) /\ b2[i] = b[i + n]
    BY <1>9
  <2>2. At(b[i + n].sn) >= R + n
    <3>1. CASE n = 0
      <4>1. At(b[i + n].sn) >= R
        BY <1>2, <2>1
      <4>2. R + n = R
        BY <1>0, <3>1
      <4> QED BY <4>1, <4>2
    <3>2. CASE n # 0
      <4>1. n \in 1..Len(b) /\ n < i + n /\ n \in 1..n
        <5>1. i \in Nat \ {0}
          OBVIOUS
        <5> QED BY <1>n, <3>2, <5>1
      <4>2. At(b[n].sn) < At(b[i + n].sn)
        BY <1>2, <2>1, <4>1 DEF Sorted
      <4>3. At(b[n].sn) = R + (n - 1) /\ At(b[i + n].sn) \in Nat
        BY <1>2, <1>5, <2>1, <4>1
      <4> QED BY <1>0, <1>n, <4>2, <4>3
    <3> QED BY <3>1, <3>2
  <2>3. Genuine(b[i + n], F, N) /\ At(b[i + n].sn) < R + Wnd /\ At(b[i + n].sn) \in Nat
    BY <1>2, <2>1
  <2>4. At(b[i + n].sn) < R + n + Wnd
    BY <1>0, <1>n, <2>3
  <2> QED BY <2>1, <2>2, <2>3, <2>4
<1>14. /\ Len(q \o new) = Len(q) + n
       /\ \A i \in 1..Len(q \o new) : (q \o new)[i] = F[c + i]
  <2>1. Len(q \o new) = Len(q) + n
    <3>1. q \in Seq(Piece) /\ new \in Seq(Piece) /\ Len(new) = n
      BY <1>1, <1>8
    <3> QED BY <3>1
  <2>2. ASSUME NEW i \in 1..Len(q \o new) PROVE (q \o new)[i] = F[c + i]
    <3>1. CASE i <= Len(q)
      <4>1. (q \o new)[i] = q[i] /\ i \in 1..Len(q)
        BY <1>0, <1>n, <1>1, <1>8, <2>1, <3>1
      <4> QED BY <1>0, <1>n, <1>1, <4>1
    <3>2. CASE i > Len(q)
      <4>1. (q \o new)[i] = new[i - Len(q)] /\ i - Len(q) \in 1..n
        BY <1>0, <1>n, <1>1, <1>8, <2>1, <3>2
      <4>2. R + (i - Len(q)) = c + i
        BY <1>0, <2>1, <1>n
      <4> QED BY <1>8, <4>1, <4>2
    <3> QED BY <1>0, <1>n, <1>1, <3>1, <3>2
  <2> QED BY <2>1, <2>2
<1>15. Came(k) \subseteq Came(M)
  <2>1. ASSUME NEW x \in Num, At(x) < R PROVE x \in Came(M)
    <3>1. At(x) \in Nat
      BY AtIs DEF Num
    <3>2. At(x) < At(M.rcvNxt)
      BY <1>0, <1>n, <1>7, <1>11, <2>1, <3>1
    <3> QED BY <3>2 DEF Came
  <2>2. ASSUME NEW j \in 1..Len(b) PROVE b[j].sn \in Came(M)
    <3>1. CASE j <= n
      <4>1. At(b[j].sn) < R + n /\ b[j].sn \in Num
        BY <1>0, <1>n, <1>2, <1>5, <3>1
      <4> QED BY <1>7, <1>11, <4>1 DEF Came
    <3>2. CASE j > n
      <4>1. j - n \in 1..Len(b2) /\ (j - n) + n = j
        BY <1>0, <1>n, <1>1, <1>4, <1>9, <3>2
      <4>2. b2[j - n] = b[j]
        BY <1>9, <4>1
      <4> QED BY <1>11, <4>1, <4>2 DEF Came, Sns
    <3> QED BY <1>0, <1>n, <1>1, <1>4, <3>1, <3>2
  <2> QED BY <1>0, <1>n, <1>4, <2>1, <2>2 DEF Came, Sns, b
<1>16. k.acks \subseteq Came(M)
  BY <1>15 DEF RecvInv
<1>17. RecvInv(M, F, N, c)
  <2>1. /\ k.sndQueue = <<>> /\ k.sndBuf = <<>> /\ k.sndUna = First /\ k.sndNxt = First
    BY DEF RecvInv
  <2>2. Len(M.rcvQueue) <= Wnd /\ c + Len(M.rcvQueue) = At(M.rcvNxt) /\ At(M.rcvNxt) <= N
    BY <1>0, <1>n, <1>1, <1>4, <1>6, <1>7, <1>11, <1>14
  <2>3. \A i \in 1..Len(M.rcvBuf) :
          /\ Genuine(M.rcvBuf[i], F, N)
          /\ At(M.rcvBuf[i].sn) >= At(M.rcvNxt)
          /\ At(M.rcvBuf[i].sn) < At(M.rcvNxt) + Wnd
    BY <1>7, <1>11, <1>13
  <2>4. \A i \in 1..Len(M.rcvQueue) : M.rcvQueue[i] = F[c + i]
    BY <1>11, <1>14
  <2>5. Sorted(M.rcvBuf) /\ M.acks \subseteq Came(M)
    BY <1>11, <1>12, <1>16
  <2> QED BY <1>10, <1>11, <2>1, <2>2, <2>3, <2>4, <2>5 DEF RecvInv
<1> QED BY <1>15, <1>17 DEF M

-----------------------------------------------------------------------------
(* What the receiver does with the segments that come.                     *)

\* A new segment in its place.
LEMMA Inserted ==
  ASSUME NEW buf \in Seq(Seg), Sorted(buf), NEW s \in Seg, s.sn \notin Sns(buf),
         \A y \in Sns(buf) : Diff(s.sn, y) = At(s.sn) - At(y)
  PROVE  LET b2 == Without(buf, {x \in Sns(buf) : Diff(s.sn, x) < 0}) \o <<s>>
                     \o Without(buf, {x \in Sns(buf) : Diff(s.sn, x) > 0})
         IN  /\ b2 \in Seq(Seg) /\ Sorted(b2) /\ Sns(b2) = Sns(buf) \cup {s.sn}
             /\ \A i \in 1..Len(b2) : b2[i] = s \/ \E m \in 1..Len(buf) : b2[i] = buf[m]
<1> DEFINE A  == {x \in Sns(buf) : Diff(s.sn, x) < 0}
           B  == {x \in Sns(buf) : Diff(s.sn, x) > 0}
           t  == Without(buf, A)
           u  == Without(buf, B)
           b2 == t \o <<s>> \o u
<1>1. /\ t \in Seq(Seg) /\ Sorted(t) /\ Sns(t) = Sns(buf) \ A
      /\ \A i \in 1..Len(t) : \E m \in 1..Len(buf) : t[i] = buf[m]
      /\ u \in Seq(Seg) /\ Sorted(u) /\ Sns(u) = Sns(buf) \ B
      /\ \A i \in 1..Len(u) : \E m \in 1..Len(buf) : u[i] = buf[m]
  BY WithoutSorted
<1>2. \A y \in Sns(buf) : y \in Num /\ At(y) \in Nat
  <2> SUFFICES ASSUME NEW i \in 1..Len(buf)
               PROVE  buf[i].sn \in Num /\ At(buf[i].sn) \in Nat
    BY DEF Sns
  <2>1. buf[i] \in Seg
    OBVIOUS
  <2>2. buf[i].sn \in Num
    BY <2>1 DEF Seg
  <2> QED BY <2>2, AtIs DEF Num
<1>3. s.sn \in Num /\ At(s.sn) \in Nat
  BY AtIs DEF Seg, Num
<1>4. /\ \A y \in Sns(buf) : y \notin A => At(y) < At(s.sn)
      /\ \A y \in Sns(buf) : y \notin B => At(s.sn) < At(y)
  <2> SUFFICES ASSUME NEW y \in Sns(buf)
               PROVE  (y \notin A => At(y) < At(s.sn)) /\ (y \notin B => At(s.sn) < At(y))
    OBVIOUS
  <2>1. At(y) # At(s.sn)
    BY <1>2, <1>3, AtOne
  <2>2. Diff(s.sn, y) = At(s.sn) - At(y) /\ At(y) \in Nat
    BY <1>2
  <2> QED BY <1>3, <2>1, <2>2
<1>5. /\ \A y \in Sns(t) : At(y) < At(s.sn)
      /\ \A y \in Sns(u) : At(s.sn) < At(y)
  BY <1>1, <1>4
<1>6. \A y \in Sns(buf) : y \in Sns(t) \/ y \in Sns(u)
  <2> SUFFICES ASSUME NEW y \in Sns(buf), y \in A, y \in B PROVE FALSE
    BY <1>1
  <2> QED BY <1>2, <1>3
<1> HIDE DEF A, B, t, u
<1>7. /\ b2 \in Seq(Seg) /\ Len(b2) = Len(t) + 1 + Len(u)
      /\ Len(t) \in Nat /\ Len(u) \in Nat
      /\ \A i \in 1..Len(t) : b2[i] = t[i]
      /\ b2[Len(t) + 1] = s
      /\ \A i \in 1..Len(u) : b2[Len(t) + 1 + i] = u[i]
  <2> DEFINE v == t \o <<s>>
  <2>1. v \in Seq(Seg) /\ Len(v) = Len(t) + 1 /\ v[Len(t) + 1] = s /\ Len(t) \in Nat
        /\ \A i \in 1..Len(t) : v[i] = t[i]
    BY <1>1
  <2> HIDE DEF v
  <2>2. v \o u \in Seq(Seg) /\ Len(v \o u) = Len(v) + Len(u) /\ Len(u) \in Nat
        /\ (\A i \in 1..Len(v) : (v \o u)[i] = v[i])
        /\ \A i \in 1..Len(u) : (v \o u)[Len(v) + i] = u[i]
    <3>1. u \in Seq(Seg) /\ v \in Seq(Seg)
      BY <1>1, <2>1
    <3> QED BY <3>1
  <2>3. b2 = v \o u
    BY DEF v
  <2> HIDE DEF b2
  <2> QED BY <2>1, <2>2, <2>3
<1> HIDE DEF b2
<1>8. \A i \in 1..Len(b2) : \/ i \in 1..Len(t) \/ i = Len(t) + 1
                            \/ i > Len(t) + 1 /\ i - (Len(t) + 1) \in 1..Len(u)
                               /\ b2[i] = u[i - (Len(t) + 1)]
  <2> SUFFICES ASSUME NEW i \in 1..Len(b2), i > Len(t) + 1
               PROVE  i - (Len(t) + 1) \in 1..Len(u) /\ b2[i] = u[i - (Len(t) + 1)]
    BY <1>7
  <2>1. i - (Len(t) + 1) \in 1..Len(u) /\ i = Len(t) + 1 + (i - (Len(t) + 1))
    BY <1>7
  <2> QED BY <1>7, <2>1
<1>9. Sorted(b2)
  <2> SUFFICES ASSUME NEW i \in 1..Len(b2), NEW j \in 1..Len(b2), i < j
               PROVE  At(b2[i].sn) < At(b2[j].sn)
    BY DEF Sorted
  <2>1. \A m \in 1..Len(t) : t[m].sn \in Sns(t)
    BY DEF Sns
  <2>2. \A m \in 1..Len(u) : u[m].sn \in Sns(u)
    BY DEF Sns
  <2>3. CASE i \in 1..Len(t) /\ j \in 1..Len(t)
    BY <1>1, <1>7, <2>3 DEF Sorted
  <2>4. CASE i \in 1..Len(t) /\ j = Len(t) + 1
    BY <1>5, <1>7, <2>1, <2>4
  <2>5. CASE i \in 1..Len(t) /\ j > Len(t) + 1
    <3>1. j - (Len(t) + 1) \in 1..Len(u) /\ b2[j] = u[j - (Len(t) + 1)]
      BY <1>7, <1>8, <2>5
    <3>2. /\ At(b2[i].sn) < At(s.sn) /\ At(s.sn) < At(b2[j].sn)
          /\ b2[i].sn \in Num /\ b2[j].sn \in Num
      <4>1. b2[i].sn \in Sns(t) /\ b2[j].sn \in Sns(u)
        BY <1>7, <2>1, <2>2, <2>5, <3>1
      <4> QED BY <1>1, <1>2, <1>5, <4>1
    <3>3. At(b2[i].sn) \in Nat /\ At(b2[j].sn) \in Nat
      BY <3>2, AtIs DEF Num
    <3> QED BY <1>3, <3>2, <3>3
  <2>6. CASE i = Len(t) + 1
    <3>1. j - (Len(t) + 1) \in 1..Len(u) /\ b2[j] = u[j - (Len(t) + 1)]
      BY <1>7, <1>8, <2>6
    <3>2. b2[j].sn \in Sns(u) /\ b2[i] = s
      BY <1>7, <2>2, <2>6, <3>1
    <3> QED BY <1>5, <3>2
  <2>7. CASE i > Len(t) + 1
    <3>1. j > Len(t) + 1
      BY <1>7, <2>7
    <3>2. /\ i - (Len(t) + 1) \in 1..Len(u) /\ b2[i] = u[i - (Len(t) + 1)]
          /\ j - (Len(t) + 1) \in 1..Len(u) /\ b2[j] = u[j - (Len(t) + 1)]
      <4>1. \A l \in 1..Len(b2) : l > Len(t) + 1 => l \notin 1..Len(t) /\ l # Len(t) + 1
        BY <1>7
      <4> HIDE DEF Sorted
      <4> QED BY <1>8, <2>7, <3>1, <4>1
    <3>3. i - (Len(t) + 1) < j - (Len(t) + 1)
      BY <1>7
    <3> QED BY <1>1, <3>2, <3>3 DEF Sorted
  <2> QED BY <1>7, <1>8, <2>3, <2>4, <2>5, <2>6, <2>7
<1>10. \A i \in 1..Len(b2) : b2[i] = s \/ \E m \in 1..Len(buf) : b2[i] = buf[m]
  <2>1. /\ \A i \in 1..Len(t) : \E m \in 1..Len(buf) : t[i] = buf[m]
        /\ \A i \in 1..Len(u) : \E m \in 1..Len(buf) : u[i] = buf[m]
    BY <1>1
  <2> SUFFICES ASSUME NEW i \in 1..Len(b2)
               PROVE  b2[i] = s \/ \E m \in 1..Len(buf) : b2[i] = buf[m]
    OBVIOUS
  <2>2. \/ i \in 1..Len(t) /\ b2[i] = t[i]
        \/ b2[i] = s
        \/ i - (Len(t) + 1) \in 1..Len(u) /\ b2[i] = u[i - (Len(t) + 1)]
    BY <1>7, <1>8
  <2> QED BY <2>1, <2>2
<1>11. Sns(b2) = Sns(buf) \cup {s.sn}
  <2>1. \A y \in Sns(b2) : y \in Sns(buf) \cup {s.sn}
    BY <1>10 DEF Sns
  <2>2. s.sn \in Sns(b2)
    BY <1>7 DEF Sns
  <2>3. ASSUME NEW y \in Sns(t) PROVE y \in Sns(b2)
    <3>1. PICK i \in 1..Len(t) : y = t[i].sn
      BY DEF Sns
    <3>2. i \in 1..Len(b2) /\ b2[i] = t[i]
      BY <1>7
    <3> QED BY <3>1, <3>2 DEF Sns
  <2>4. ASSUME NEW y \in Sns(u) PROVE y \in Sns(b2)
    <3>1. PICK i \in 1..Len(u) : y = u[i].sn
      BY DEF Sns
    <3>2. Len(t) + 1 + i \in 1..Len(b2) /\ b2[Len(t) + 1 + i] = u[i]
      BY <1>7
    <3> QED BY <3>1, <3>2 DEF Sns
  <2> QED BY <1>6, <2>1, <2>2, <2>3, <2>4
<1> QED BY <1>7, <1>9, <1>10, <1>11 DEF b2, t, u, A, B

\* _itimediff is the distance of any two numbers that a receiver compares.
LEMMA Near ==
  ASSUME NEW F, NEW N, NEW c, History(F, N, c), NEW k, RecvInv(k, F, N, c),
         NEW x \in Num, At(x) < N
  PROVE  /\ \A y \in Num : At(y) <= N => Diff(x, y) = At(x) - At(y)
         /\ Diff(x, (k.rcvNxt + Wnd) % Word) = At(x) - (At(k.rcvNxt) + Wnd)
         /\ At(x) \in Nat /\ At(k.rcvNxt) \in Nat /\ k.rcvNxt \in Num
<1>1. /\ N \in Nat /\ N <= MaxSegments /\ At(x) \in Nat /\ Wnd \in Nat \ {0}
      /\ MaxSegments \in Nat /\ Word \in Nat /\ 2 * (MaxSegments + Wnd) <= Word
  <2>1. Len(F) \in Nat
    BY DEF History
  <2> QED BY <2>1, AtIs, Words DEF History, Num
<1>2. k.rcvNxt \in Num /\ At(k.rcvNxt) <= N
  BY DEF RecvInv, End
<1>3. At(k.rcvNxt) \in Nat
  BY <1>2, AtIs DEF Num
<1>4. ASSUME NEW y \in Num, At(y) <= N PROVE Diff(x, y) = At(x) - At(y)
  <2>1. At(y) \in Nat
    BY AtIs DEF Num
  <2>2. 2 * (At(x) - At(y)) < Word /\ 2 * (At(y) - At(x)) <= Word
    BY <1>1, <1>4, <2>1
  <2> QED BY <2>2, DiffAt
<1>5. Diff(x, (k.rcvNxt + Wnd) % Word) = At(x) - (At(k.rcvNxt) + Wnd)
  <2> DEFINE y == (k.rcvNxt + Wnd) % Word
  <2>1. At(k.rcvNxt) + Wnd < Word
    BY <1>1, <1>2, <1>3
  <2>2. y \in Num /\ At(y) = At(k.rcvNxt) + Wnd
    BY <1>1, <1>2, <2>1, AtAdd
  <2> HIDE DEF y
  <2>3. 2 * (At(x) - At(y)) < Word /\ 2 * (At(y) - At(x)) <= Word
    BY <1>1, <1>2, <1>3, <2>2
  <2>4. Diff(x, y) = At(x) - At(y)
    BY <2>2, <2>3, DiffAt
  <2> QED BY <2>2, <2>4 DEF y
<1> QED BY <1>1, <1>2, <1>3, <1>4, <1>5

\* A segment of the sender's, however old, is taken or is superfluous.
LEMMA InputPushKeeps ==
  ASSUME NEW F, NEW N, NEW c, History(F, N, c), NEW k, RecvInv(k, F, N, c),
         NEW s \in Seg, Genuine(s, F, N)
  PROVE  RecvInv(InputPush(k, s), F, N, c) /\ Came(k) \subseteq Came(InputPush(k, s))
<1> DEFINE x  == s.sn
           k1 == [k EXCEPT !.acks = @ \cup {x}]
<1>1. /\ x \in Num /\ At(x) < N /\ k \in End /\ k.acks \in SUBSET Num
      /\ k.rcvBuf \in Seq(Seg) /\ k.rcvNxt \in Num /\ At(k.rcvNxt) <= N
  BY DEF Seg, Genuine, RecvInv, End
<1>2. /\ \A y \in Num : At(y) <= N => Diff(x, y) = At(x) - At(y)
      /\ Diff(x, (k.rcvNxt + Wnd) % Word) = At(x) - (At(k.rcvNxt) + Wnd)
      /\ At(x) \in Nat /\ At(k.rcvNxt) \in Nat
  BY <1>1, Near
<1>3. Diff(x, k.rcvNxt) = At(x) - At(k.rcvNxt)
  BY <1>1, <1>2
<1>4. Wnd \in Nat /\ N \in Int
  <2>1. Len(F) \in Nat
    BY DEF History
  <2> QED BY <2>1, Words DEF History
<1>5. CASE At(x) >= At(k.rcvNxt) + Wnd
  <2>1. Diff(x, (k.rcvNxt + Wnd) % Word) >= 0
    BY <1>2, <1>4, <1>5
  <2>2. InputPush(k, s) = k
    BY <2>1 DEF InputPush
  <2> QED BY <2>2
<1>6. /\ k1 \in End /\ k1.acks = k.acks \cup {x} /\ k1.rcvNxt = k.rcvNxt
      /\ k1.rcvBuf = k.rcvBuf /\ k1.rcvQueue = k.rcvQueue /\ k1.sndQueue = k.sndQueue
      /\ k1.sndBuf = k.sndBuf /\ k1.sndUna = k.sndUna /\ k1.sndNxt = k.sndNxt
  BY <1>1 DEF End
<1>7. x \in Came(k1) => RecvInv(k1, F, N, c) /\ Came(k) \subseteq Came(k1)
  <2>1. Came(k1) = Came(k)
    BY <1>6 DEF Came
  <2> HIDE DEF k1, x
  <2>2. x \in Came(k1) => k1.acks \subseteq Came(k1)
    BY <1>6, <2>1 DEF RecvInv
  <2> QED BY <1>6, <2>1, <2>2 DEF RecvInv
<1>8. CASE At(x) < At(k.rcvNxt)
  <2>1. ~(Diff(x, (k.rcvNxt + Wnd) % Word) >= 0) /\ ~(Diff(x, k.rcvNxt) >= 0)
    BY <1>2, <1>3, <1>4, <1>8
  <2>2. InputPush(k, s) = k1
    BY <2>1 DEF InputPush
  <2>3. x \in Came(k1)
    BY <1>1, <1>6, <1>8 DEF Came
  <2> QED BY <1>7, <2>2, <2>3
<1>9. CASE At(x) >= At(k.rcvNxt) /\ At(x) < At(k.rcvNxt) + Wnd
  <2> DEFINE b2 == Without(k.rcvBuf, {y \in Sns(k.rcvBuf) : Diff(x, y) < 0}) \o <<s>>
                     \o Without(k.rcvBuf, {y \in Sns(k.rcvBuf) : Diff(x, y) > 0})
             k2 == [k1 EXCEPT !.rcvBuf = b2]
  <2>1. ~(Diff(x, (k.rcvNxt + Wnd) % Word) >= 0) /\ Diff(x, k.rcvNxt) >= 0
    BY <1>2, <1>3, <1>4, <1>9
  <2>2. InputPush(k, s) = MoveReady(IF x \in Sns(k.rcvBuf) THEN k1 ELSE k2)
    <3>1. InputPush(k, s) = ParseData(k1, s)
      BY <2>1 DEF InputPush
    <3>2. ~(Diff(x, (k1.rcvNxt + Wnd) % Word) >= 0 \/ Diff(x, k1.rcvNxt) < 0)
      BY <1>2, <1>3, <1>6, <2>1
    <3>3. ParseData(k1, s) = MoveReady(IF x \in Sns(k1.rcvBuf) THEN k1
            ELSE [k1 EXCEPT !.rcvBuf =
                    Without(k1.rcvBuf, {y \in Sns(k1.rcvBuf) : Diff(x, y) < 0}) \o <<s>>
                      \o Without(k1.rcvBuf, {y \in Sns(k1.rcvBuf) : Diff(x, y) > 0})])
      BY <3>2 DEF ParseData
    <3> QED BY <1>6, <3>1, <3>3
  <2>3. CASE x \in Sns(k.rcvBuf)
    <3>1. RecvInv(k1, F, N, c) /\ Came(k) \subseteq Came(k1)
      BY <1>6, <1>7, <2>3 DEF Came
    <3> QED BY <2>2, <2>3, <3>1, MoveReadyKeeps
  <2>4. CASE x \notin Sns(k.rcvBuf)
    <3>1. \A i \in 1..Len(k.rcvBuf) :
            /\ k.rcvBuf[i] \in Seg /\ Genuine(k.rcvBuf[i], F, N)
            /\ At(k.rcvBuf[i].sn) >= At(k.rcvNxt) /\ At(k.rcvBuf[i].sn) < At(k.rcvNxt) + Wnd
      BY <1>1 DEF RecvInv
    <3>2. \A y \in Sns(k.rcvBuf) : Diff(x, y) = At(x) - At(y)
      <4> SUFFICES ASSUME NEW i \in 1..Len(k.rcvBuf)
                   PROVE  Diff(x, k.rcvBuf[i].sn) = At(x) - At(k.rcvBuf[i].sn)
        BY DEF Sns
      <4>1. k.rcvBuf[i].sn \in Num /\ At(k.rcvBuf[i].sn) < N
        BY <3>1 DEF Seg, Genuine
      <4>2. At(k.rcvBuf[i].sn) <= N
        BY <1>4, <4>1, AtIs DEF Num
      <4> QED BY <1>2, <4>1, <4>2
    <3>3. /\ b2 \in Seq(Seg) /\ Sorted(b2) /\ Sns(b2) = Sns(k.rcvBuf) \cup {x}
          /\ \A i \in 1..Len(b2) : b2[i] = s \/ \E m \in 1..Len(k.rcvBuf) : b2[i] = k.rcvBuf[m]
      <4>1. Sorted(k.rcvBuf)
        BY DEF RecvInv
      <4> QED BY <1>1, <2>4, <3>2, <4>1, Inserted
    <3> HIDE DEF b2, k1
    <3>4. /\ k2 \in End /\ k2.acks = k.acks \cup {x} /\ k2.rcvNxt = k.rcvNxt
          /\ k2.rcvBuf = b2 /\ k2.rcvQueue = k.rcvQueue /\ k2.sndQueue = k.sndQueue
          /\ k2.sndBuf = k.sndBuf /\ k2.sndUna = k.sndUna /\ k2.sndNxt = k.sndNxt
      BY <1>6, <3>3 DEF End
    <3>5. Came(k) \subseteq Came(k2) /\ k2.acks \subseteq Came(k2)
      <4>1. k.acks \subseteq Came(k)
        BY DEF RecvInv
      <4> HIDE DEF k2, x
      <4> QED BY <3>3, <3>4, <4>1 DEF Came
    <3>6. \A i \in 1..Len(b2) : /\ Genuine(b2[i], F, N)
                                /\ At(b2[i].sn) >= At(k.rcvNxt) /\ At(b2[i].sn) < At(k.rcvNxt) + Wnd
      BY <1>9, <3>1, <3>3
    <3>7. RecvInv(k2, F, N, c)
      <4> HIDE DEF k2, x
      <4> QED BY <3>3, <3>4, <3>5, <3>6 DEF RecvInv
    <3>8. InputPush(k, s) = MoveReady(k2)
      BY <2>2, <2>4
    <3> HIDE DEF k2
    <3> QED BY <3>5, <3>7, <3>8, MoveReadyKeeps
  <2> QED BY <2>3, <2>4
<1> QED BY <1>2, <1>4, <1>5, <1>8, <1>9

\* What InputPushes computes: one segment of a datagram after the other.
LEMMA InputPushesIs ==
  ASSUME NEW k, NEW ps \in Seq(Seg)
  PROVE  \E r : /\ r[0] = k /\ InputPushes(k, ps) = r[Len(ps)]
               /\ \A i \in 1..Len(ps) : r[i] = InputPush(r[i - 1], ps[i])
<1> DEFINE Run(f, n) == f = [i \in 0..n |-> IF i = 0 THEN k ELSE InputPush(f[i - 1], ps[i])]
           Bad       == {n \in 0..Len(ps) : ~\E f : Run(f, n)}
<1>1. ASSUME Bad # {} PROVE FALSE
  <2>1. PICK n \in Bad : \A m \in Bad : n <= m
    <3>1. Bad \in SUBSET Nat
      OBVIOUS
    <3> HIDE DEF Bad
    <3> QED BY <1>1, <3>1, Least
  <2>2. n # 0
    <3>1. Run([i \in 0..0 |-> k], 0)
      OBVIOUS
    <3> QED BY <2>1, <3>1
  <2>3. PICK f : Run(f, n - 1)
    <3>1. n - 1 \in 0..Len(ps) /\ ~(n <= n - 1)
      BY <2>1, <2>2
    <3>2. n - 1 \notin Bad
      BY <2>1, <3>1
    <3> HIDE DEF Run
    <3> QED BY <3>1, <3>2
  <2> DEFINE g == [i \in 0..n |-> IF i < n THEN f[i] ELSE InputPush(f[n - 1], ps[n])]
  <2>4. ASSUME NEW i \in 0..n
        PROVE  g[i] = IF i = 0 THEN k ELSE InputPush(g[i - 1], ps[i])
    <3>1. CASE i = n
      <4>1. g[i] = InputPush(f[n - 1], ps[n]) /\ g[n - 1] = f[n - 1]
        BY <2>2, <3>1
      <4> QED BY <2>2, <3>1, <4>1
    <3>2. CASE i < n
      <4>1. g[i] = f[i] /\ (i # 0 => g[i - 1] = f[i - 1])
        BY <3>2
      <4>2. i \in 0..n - 1
        BY <3>2
      <4>3. f[i] = IF i = 0 THEN k ELSE InputPush(f[i - 1], ps[i])
        BY <2>3, <4>2
      <4> QED BY <4>1, <4>3
    <3> QED BY <3>1, <3>2
  <2>5. Run(g, n)
    <3>1. g = [i \in 0..n |-> g[i]]
      OBVIOUS
    <3> HIDE DEF g
    <3> QED BY <2>4, <3>1
  <2> QED BY <2>1, <2>5
<1> DEFINE r == CHOOSE f : Run(f, Len(ps))
<1>2. Run(r, Len(ps)) /\ InputPushes(k, ps) = r[Len(ps)]
  <2>1. \E f : Run(f, Len(ps))
    <3>1. Len(ps) \in 0..Len(ps)
      OBVIOUS
    <3> HIDE DEF Run
    <3> QED BY <1>1, <3>1
  <2>2. Run(r, Len(ps))
    <3> HIDE DEF Run
    <3> QED BY <2>1
  <2>3. InputPushes(k, ps) = r[Len(ps)]
    BY DEF InputPushes
  <2> QED BY <2>2, <2>3
<1>3. /\ r[0] = k
      /\ \A i \in 1..Len(ps) : r[i] = InputPush(r[i - 1], ps[i])
  <2> HIDE DEF r
  <2> QED BY <1>2
<1> HIDE DEF r
<1> QED BY <1>2, <1>3

LEMMA InputPushesKeeps ==
  ASSUME NEW F, NEW N, NEW c, History(F, N, c), NEW k, RecvInv(k, F, N, c),
         NEW ps \in Seq(Seg), \A i \in 1..Len(ps) : Genuine(ps[i], F, N)
  PROVE  RecvInv(InputPushes(k, ps), F, N, c) /\ Came(k) \subseteq Came(InputPushes(k, ps))
<1>1. PICK r : /\ r[0] = k /\ InputPushes(k, ps) = r[Len(ps)]
               /\ \A i \in 1..Len(ps) : r[i] = InputPush(r[i - 1], ps[i])
  BY InputPushesIs
<1> DEFINE Good(n) == RecvInv(r[n], F, N, c) /\ Came(k) \subseteq Came(r[n])
           Worse   == {n \in 0..Len(ps) : ~Good(n)}
<1>2. ASSUME Worse # {} PROVE FALSE
  <2>1. PICK n \in Worse : \A m \in Worse : n <= m
    <3>1. Worse \in SUBSET Nat
      OBVIOUS
    <3> HIDE DEF Worse
    <3> QED BY <1>2, <3>1, Least
  <2>2. n # 0
    BY <1>1, <2>1
  <2>3. n - 1 \in 0..Len(ps) /\ ~(n <= n - 1) /\ n \in 1..Len(ps) /\ ps[n] \in Seg
    BY <2>1, <2>2
  <2>4. Good(n - 1)
    <3>1. n - 1 \notin Worse
      BY <2>1, <2>3
    <3> HIDE DEF Good
    <3> QED BY <2>3, <3>1
  <2>5. r[n] = InputPush(r[n - 1], ps[n])
    BY <1>1, <2>3
  <2>6. Good(n)
    BY <2>3, <2>4, <2>5, InputPushKeeps
  <2> QED BY <2>1, <2>6
<1>3. Good(Len(ps))
  <2>1. Len(ps) \in 0..Len(ps)
    OBVIOUS
  <2> HIDE DEF Good
  <2> QED BY <1>2, <2>1
<1> QED BY <1>1, <1>3

-----------------------------------------------------------------------------
(* The messages S, cut into the pieces F: message m ends with piece b[m].  *)

Laid(S, F, b) ==
  /\ S \in Seq(Messages) /\ F \in Seq(Piece)
  /\ b \in [0..Len(S) -> 0..Len(F)] /\ b[0] = 0 /\ b[Len(S)] = Len(F)
  /\ \A m \in 1..Len(S) :
       /\ Len(S[m]) \in Nat \ {0} /\ b[m] = b[m - 1] + Len(S[m])
       /\ S[m] = [i \in 1..Len(S[m]) |-> F[b[m - 1] + i].data]
       /\ \A i \in 1..Len(S[m]) : F[b[m - 1] + i].frg = Len(S[m]) - i

\* The first in the queue is the message whose turn it is, and ikcp_recv
\* takes that and nothing else.
LEMMA HeadIs ==
  ASSUME NEW S, NEW F, NEW b, Laid(S, F, b), NEW g \in 0..Len(S),
         NEW k, Whole(k), k.rcvQueue \in Seq(Piece), b[g] + Len(k.rcvQueue) <= Len(F),
         \A i \in 1..Len(k.rcvQueue) : k.rcvQueue[i] = F[b[g] + i]
  PROVE  /\ g < Len(S) /\ HeadLength(k) = Len(S[g + 1])
         /\ HeadLength(k) \in 1..Len(k.rcvQueue)
         /\ [i \in 1..HeadLength(k) |-> k.rcvQueue[i].data] = S[g + 1]
         /\ b[g + 1] = b[g] + HeadLength(k)
<1> DEFINE q == k.rcvQueue
<1>0. q \in Seq(Piece) /\ q # <<>> /\ b[g] + Len(q) <= Len(F)
  BY DEF Whole
<1>1. /\ S \in Seq(Messages) /\ F \in Seq(Piece) /\ Len(S) \in Nat /\ Len(F) \in Nat
      /\ b \in [0..Len(S) -> 0..Len(F)] /\ b[Len(S)] = Len(F)
      /\ Len(q) \in Nat /\ Len(q) >= 1 /\ b[g] \in Nat
  <2>1. S \in Seq(Messages) /\ F \in Seq(Piece) /\ b[Len(S)] = Len(F)
        /\ b \in [0..Len(S) -> 0..Len(F)]
    BY DEF Laid
  <2>2. Len(S) \in Nat /\ Len(F) \in Nat /\ Len(q) \in Nat /\ Len(q) >= 1
    BY <1>0, <2>1
  <2>3. b[g] \in Nat
    BY <2>1, <2>2
  <2> QED BY <2>1, <2>2, <2>3
<1>2. g < Len(S) /\ g + 1 \in 1..Len(S) /\ (g + 1) - 1 = g
  BY <1>1
<1> DEFINE m == S[g + 1]
           L == Len(m)
<1>3. /\ L \in Nat /\ L >= 1 /\ b[g + 1] = b[g] + L
      /\ m = [i \in 1..L |-> F[b[g] + i].data]
      /\ \A i \in 1..L : F[b[g] + i].frg = L - i
  <2>1. /\ Len(S[g + 1]) \in Nat \ {0} /\ b[g + 1] = b[(g + 1) - 1] + Len(S[g + 1])
        /\ S[g + 1] = [i \in 1..Len(S[g + 1]) |-> F[b[(g + 1) - 1] + i].data]
        /\ \A i \in 1..Len(S[g + 1]) : F[b[(g + 1) - 1] + i].frg = Len(S[g + 1]) - i
    BY <1>2 DEF Laid
  <2>2. L \in Nat /\ L >= 1
    BY <2>1
  <2> QED BY <1>2, <2>1, <2>2
<1> HIDE DEF L, m
<1>4. Len(q) >= L
  <2>1. 1 \in 1..L /\ 1 \in 1..Len(q) /\ Head(q) = q[1]
    BY <1>1, <1>3
  <2>2. Head(q).frg = L - 1
    BY <1>3, <2>1
  <2>3. Head(q).frg = 0 \/ Len(q) > Head(q).frg
    BY DEF Whole
  <2> QED BY <1>1, <1>3, <2>2, <2>3
<1>5. \A i \in 1..L : i \in 1..Len(q) /\ q[i].frg = L - i
  <2> SUFFICES ASSUME NEW i \in 1..L PROVE i \in 1..Len(q) /\ q[i].frg = L - i
    OBVIOUS
  <2>1. i \in 1..Len(q)
    BY <1>1, <1>3, <1>4
  <2>2. q[i] = F[b[g] + i]
    BY <2>1
  <2> QED BY <1>3, <2>1, <2>2
<1> DEFINE P(i) == q[i].frg = 0 /\ \A j \in 1..i - 1 : q[j].frg # 0
<1>6. L \in 1..Len(q) /\ P(L)
  <2>1. L \in 1..L /\ L - L = 0 /\ \A j \in 1..L - 1 : j \in 1..L /\ L - j # 0
    BY <1>3
  <2> QED BY <1>5, <2>1
<1>7. \A i \in 1..Len(q) : P(i) => i = L
  <2> SUFFICES ASSUME NEW i \in 1..Len(q), P(i), i # L PROVE FALSE
    OBVIOUS
  <2>1. CASE i < L
    <3>1. i \in 1..L /\ L - i # 0
      BY <1>3, <2>1
    <3> QED BY <1>5, <3>1
  <2>2. CASE i > L
    <3>1. L \in 1..i - 1
      BY <1>3, <2>2
    <3> QED BY <1>6, <3>1
  <2> QED BY <1>3, <2>1, <2>2
<1>8. HeadLength(k) = L
  <2>1. HeadLength(k) = CHOOSE i \in 1..Len(q) : P(i)
    BY DEF HeadLength
  <2> HIDE DEF P
  <2> QED BY <1>6, <1>7, <2>1
<1>9. [i \in 1..L |-> k.rcvQueue[i].data] = m
  BY <1>3, <1>5
<1> QED BY <1>2, <1>3, <1>6, <1>8, <1>9 DEF L, m

\* ikcp_recv leaves the rest of the queue and lets what was ready follow.
LEMMA ReceivedKeeps ==
  ASSUME NEW F, NEW N, NEW c, History(F, N, c), NEW k, RecvInv(k, F, N, c),
         HeadLength(k) \in 1..Len(k.rcvQueue)
  PROVE  /\ RecvInv(Received(k), F, N, c + HeadLength(k))
         /\ Came(k) \subseteq Came(Received(k))
<1> DEFINE h  == HeadLength(k)
           q  == k.rcvQueue
           q2 == SubSeq(q, h + 1, Len(q))
           k0 == [k EXCEPT !.rcvQueue = q2]
           k1 == MoveReady(k0)
<1>1. /\ k \in End /\ q \in Seq(Piece) /\ h \in 1..Len(q) /\ Len(q) \in Nat /\ Len(q) <= Wnd
      /\ c \in Nat /\ c + Len(q) = At(k.rcvNxt) /\ Wnd \in Nat
  BY Words DEF RecvInv, End, History
<1>2. \A i \in 1..Len(q) : q[i] = F[c + i]
  BY DEF RecvInv
<1> HIDE DEF h, q, q2
<1>3. /\ q2 \in Seq(Piece) /\ Len(q2) = Len(q) - h
      /\ \A i \in 1..Len(q2) : i + h \in 1..Len(q) /\ q2[i] = q[i + h]
  <2>1. q \in Seq(Piece) /\ h \in Nat /\ h <= Len(q)
    BY <1>1
  <2> QED BY <2>1 DEF q2
<1>4. /\ k0 \in End /\ k0.rcvQueue = q2 /\ k0.acks = k.acks /\ k0.rcvNxt = k.rcvNxt
      /\ k0.rcvBuf = k.rcvBuf /\ k0.sndQueue = k.sndQueue
      /\ k0.sndBuf = k.sndBuf /\ k0.sndUna = k.sndUna /\ k0.sndNxt = k.sndNxt
  BY <1>1, <1>3 DEF End
<1> HIDE DEF k0
<1>5. Came(k0) = Came(k)
  BY <1>4 DEF Came
<1>6. History(F, N, c + h)
  BY <1>1 DEF History
<1>7. Len(q2) <= Wnd /\ (c + h) + Len(q2) = At(k.rcvNxt)
  BY <1>1, <1>3
<1>8. \A i \in 1..Len(q2) : q2[i] = F[(c + h) + i]
  <2> SUFFICES ASSUME NEW i \in 1..Len(q2) PROVE q2[i] = F[(c + h) + i]
    OBVIOUS
  <2>1. i + h \in 1..Len(q) /\ q2[i] = q[i + h] /\ c + (i + h) = (c + h) + i
    BY <1>1, <1>3
  <2> QED BY <1>2, <2>1
<1>9. RecvInv(k0, F, N, c + h)
  BY <1>4, <1>5, <1>7, <1>8 DEF RecvInv
<1>10. RecvInv(k1, F, N, c + h) /\ Came(k0) \subseteq Came(k1)
  BY <1>6, <1>9, MoveReadyKeeps
<1>11. Received(k) = [k1 EXCEPT !.tell = @ \/ (Len(q) >= Wnd /\ Len(k1.rcvQueue) < Wnd)]
  BY DEF Received, k0, q2, q, h
<1> HIDE DEF k1
<1> DEFINE r == Received(k)
<1>12. /\ r \in End /\ r.rcvQueue = k1.rcvQueue /\ r.acks = k1.acks /\ r.rcvNxt = k1.rcvNxt
       /\ r.rcvBuf = k1.rcvBuf /\ r.sndQueue = k1.sndQueue
       /\ r.sndBuf = k1.sndBuf /\ r.sndUna = k1.sndUna /\ r.sndNxt = k1.sndNxt
  <2> DEFINE t == k1.tell \/ (Len(q) >= Wnd /\ Len(k1.rcvQueue) < Wnd)
  <2>1. k1 \in End
    BY <1>10 DEF RecvInv
  <2>2. t \in BOOLEAN
    OBVIOUS
  <2>3. r = [k1 EXCEPT !.tell = t]
    BY <1>11
  <2> HIDE DEF t, r
  <2> QED BY <2>1, <2>2, <2>3 DEF End
<1> HIDE DEF r
<1>13. Came(r) = Came(k1)
  BY <1>12 DEF Came
<1>14. RecvInv(r, F, N, c + h)
  BY <1>10, <1>12, <1>13 DEF RecvInv
<1> QED BY <1>5, <1>10, <1>13, <1>14 DEF r, h

-----------------------------------------------------------------------------
(* The sender, and what a datagram and a flush do at either end.           *)

Datagram == [wnd : 0..Wnd, una : Num, acks : SUBSET Num, ask : BOOLEAN, tell : BOOLEAN,
             pushes : Seq(Seg)]

Una(k) == IF k.sndBuf = <<>> THEN k.sndNxt ELSE Head(k.sndBuf).sn

SendInv(k, F) ==
  /\ k \in End
  /\ k.rcvNxt = First /\ k.rcvBuf = <<>> /\ k.rcvQueue = <<>> /\ k.acks = {}
  /\ At(k.sndNxt) + Len(k.sndQueue) = Len(F)
  /\ \A i \in 1..Len(k.sndQueue) : k.sndQueue[i] = F[At(k.sndNxt) + i]
  /\ Sorted(k.sndBuf)
  /\ \A i \in 1..Len(k.sndBuf) : Genuine(k.sndBuf[i], F, At(k.sndNxt))
  /\ k.sndUna = Una(k)
  /\ At(k.sndNxt) <= At(k.sndUna) + Wnd

\* Two ends that are the same but for what has been heard of the other's window.
Alike(m, k) ==
  /\ m \in End
  /\ m.rcvNxt = k.rcvNxt /\ m.rcvBuf = k.rcvBuf /\ m.rcvQueue = k.rcvQueue
  /\ m.acks = k.acks /\ m.sndQueue = k.sndQueue /\ m.sndNxt = k.sndNxt

\* m is what k comes to when the numbers in sns have been acknowledged.
Dropped(m, k, sns) ==
  /\ Alike(m, k) /\ m.sndUna = Una(m) /\ Sorted(m.sndBuf)
  /\ Sns(m.sndBuf) = Sns(k.sndBuf) \ sns
  /\ \A i \in 1..Len(m.sndBuf) : \E j \in 1..Len(k.sndBuf) : m.sndBuf[i] = k.sndBuf[j]
  /\ k.sndBuf = <<>> => m.sndBuf = <<>>

LEMMA DropIs ==
  ASSUME NEW k \in End, Sorted(k.sndBuf), NEW sns
  PROVE  Dropped(ShrinkBuf([k EXCEPT !.sndBuf = Without(k.sndBuf, sns)]), k, sns)
<1> DEFINE t  == Without(k.sndBuf, sns)
           k1 == [k EXCEPT !.sndBuf = t]
           m  == ShrinkBuf(k1)
<1>1. k.sndBuf \in Seq(Seg) /\ k.sndNxt \in Num
  BY DEF End
<1>2. /\ t \in Seq(Seg) /\ Sorted(t) /\ Sns(t) = Sns(k.sndBuf) \ sns
      /\ \A i \in 1..Len(t) : \E j \in 1..Len(k.sndBuf) : t[i] = k.sndBuf[j]
      /\ k.sndBuf = <<>> => t = <<>>
  BY <1>1, WithoutSorted
<1> HIDE DEF t
<1>3. /\ k1 \in End /\ k1.sndBuf = t /\ Alike(k1, k) /\ k1.sndNxt = k.sndNxt
  BY <1>2 DEF End, Alike
<1> HIDE DEF k1
<1>4. Una(k1) \in Num
  <2>1. CASE t = <<>>
    BY <1>1, <1>3, <2>1 DEF Una
  <2>2. CASE t # <<>>
    <3>1. Head(t) \in Seg
      BY <1>2, <2>2
    <3> QED BY <1>3, <2>2, <3>1 DEF Una, Seg
  <2> QED BY <2>1, <2>2
<1>5. m = [k1 EXCEPT !.sndUna = Una(k1)]
  BY DEF ShrinkBuf, Una
<1>6. m.sndUna = Una(k1) /\ m.sndBuf = t /\ m.sndNxt = k1.sndNxt /\ Alike(m, k)
  BY <1>3, <1>4, <1>5 DEF End, Alike
<1> HIDE DEF m
<1>7. Una(k1) = Una(m)
  BY <1>3, <1>6 DEF Una
<1>8. Dropped(m, k, sns)
  BY <1>2, <1>6, <1>7 DEF Dropped
<1> QED BY <1>8 DEF m, k1, t

LEMMA DropTwice ==
  ASSUME NEW k, NEW s1, NEW s2, NEW m1, Dropped(m1, k, s1), NEW m, Dropped(m, m1, s2)
  PROVE  Dropped(m, k, s1 \cup s2)
<1>1. Alike(m, k) /\ m.sndUna = Una(m) /\ Sorted(m.sndBuf)
  BY DEF Dropped, Alike
<1>2. Sns(m.sndBuf) = Sns(k.sndBuf) \ (s1 \cup s2)
  BY DEF Dropped
<1>3. \A i \in 1..Len(m.sndBuf) : \E j \in 1..Len(k.sndBuf) : m.sndBuf[i] = k.sndBuf[j]
  BY DEF Dropped
<1>4. k.sndBuf = <<>> => m.sndBuf = <<>>
  BY DEF Dropped
<1> QED BY <1>1, <1>2, <1>3, <1>4 DEF Dropped

\* ikcp_input up to the segments: what una and acks name is dropped.
LEMMA InputIs ==
  ASSUME NEW k \in End, Sorted(k.sndBuf), NEW d \in Datagram
  PROVE  \E m : /\ Input(k, d) = InputPushes(m, d.pushes)
                /\ Dropped(m, k, {x \in Sns(k.sndBuf) : Diff(d.una, x) > 0} \cup d.acks)
<1> DEFINE s1 == {x \in Sns(k.sndBuf) : Diff(d.una, x) > 0}
           k0 == [k EXCEPT !.rmtWnd = d.wnd]
           k1 == ShrinkBuf(ParseUna(k0, d.una))
           k2 == ShrinkBuf(ParseAcks(k1, d.acks))
           k3 == [k2 EXCEPT !.tell = @ \/ d.ask]
<1>1. d.wnd \in 0..Wnd /\ d.ask \in BOOLEAN
  BY DEF Datagram
<1>2. k0 \in End /\ Alike(k0, k) /\ k0.sndBuf = k.sndBuf
  BY <1>1 DEF End, Alike
<1>3. Input(k, d) = InputPushes(k3, d.pushes)
  BY DEF Input
<1> HIDE DEF k0
<1>4. ParseUna(k0, d.una) = [k0 EXCEPT !.sndBuf = Without(k0.sndBuf, s1)]
  BY <1>2 DEF ParseUna
<1> HIDE DEF s1
<1>5. Dropped(k1, k0, s1)
  BY <1>2, <1>4, DropIs
<1>6. Dropped(k1, k, s1)
  BY <1>2, <1>5 DEF Dropped, Alike
<1> HIDE DEF k1
<1>7. ParseAcks(k1, d.acks) = [k1 EXCEPT !.sndBuf = Without(k1.sndBuf, d.acks)]
  BY DEF ParseAcks
<1>8. Dropped(k2, k1, d.acks)
  <2>1. k1 \in End /\ Sorted(k1.sndBuf)
    BY <1>6 DEF Dropped, Alike
  <2> QED BY <1>7, <2>1, DropIs
<1>9. Dropped(k2, k, s1 \cup d.acks)
  BY <1>6, <1>8, DropTwice
<1> HIDE DEF k2
<1>10. k2 \in End
  BY <1>9 DEF Dropped, Alike
<1>11. /\ k3 \in End /\ Alike(k3, k2) /\ k3.sndBuf = k2.sndBuf /\ k3.sndUna = k2.sndUna
  <2> DEFINE t == k2.tell \/ d.ask
  <2>1. t \in BOOLEAN
    OBVIOUS
  <2>2. k3 = [k2 EXCEPT !.tell = t]
    OBVIOUS
  <2> HIDE DEF t, k3
  <2> QED BY <1>10, <2>1, <2>2 DEF End, Alike
<1> HIDE DEF k3
<1>12. Una(k3) = Una(k2)
  BY <1>11 DEF Una, Alike
<1>13. Dropped(k3, k, s1 \cup d.acks)
  BY <1>9, <1>11, <1>12 DEF Dropped, Alike
<1> QED BY <1>3, <1>13 DEF s1

LEMMA NoPushes ==
  ASSUME NEW k, NEW ps \in Seq(Seg)
  PROVE  Len(ps) = 0 => InputPushes(k, ps) = k
<1>1. PICK r : /\ r[0] = k /\ InputPushes(k, ps) = r[Len(ps)]
               /\ \A i \in 1..Len(ps) : r[i] = InputPush(r[i - 1], ps[i])
  BY InputPushesIs
<1> QED BY <1>1

\* The sender drops what has come, and its window can only move on.
LEMMA InputSender ==
  ASSUME NEW F \in Seq(Piece), Len(F) <= MaxSegments, NEW k, SendInv(k, F),
         NEW d \in Datagram, d.pushes = <<>>, At(d.una) <= At(k.sndNxt)
  PROVE  /\ SendInv(Input(k, d), F) /\ Input(k, d).sndNxt = k.sndNxt
         /\ Input(k, d).sndQueue = k.sndQueue
         /\ \A x \in Sns(k.sndBuf) :
              x \in Sns(Input(k, d).sndBuf) \/ At(x) < At(d.una) \/ x \in d.acks
<1>1. k \in End /\ Sorted(k.sndBuf) /\ k.sndBuf \in Seq(Seg) /\ k.sndNxt \in Num
      /\ d.una \in Num /\ k.sndUna \in Num
  BY DEF SendInv, End, Datagram
<1> DEFINE sns == {x \in Sns(k.sndBuf) : Diff(d.una, x) > 0} \cup d.acks
<1>2. PICK m : Input(k, d) = InputPushes(m, d.pushes) /\ Dropped(m, k, sns)
  BY <1>1, InputIs
<1>3. InputPushes(m, d.pushes) = m
  <2>1. d.pushes \in Seq(Seg) /\ Len(d.pushes) = 0
    BY DEF Datagram
  <2> QED BY <2>1, NoPushes
<1>4. ASSUME NEW x \in Sns(k.sndBuf), Diff(d.una, x) > 0
      PROVE  At(x) < At(d.una)
  <2>1. PICK i \in 1..Len(k.sndBuf) : x = k.sndBuf[i].sn
    BY DEF Sns
  <2>2. x \in Num /\ At(x) < At(k.sndNxt)
    <3>1. k.sndBuf[i] \in Seg
      BY <1>1
    <3> QED BY <2>1, <3>1 DEF SendInv, Genuine, Seg
  <2>3. /\ At(x) \in Nat /\ At(d.una) \in Nat /\ At(k.sndNxt) \in Nat
        /\ Len(F) \in Nat /\ Len(k.sndQueue) \in Nat
    <3>1. At(x) \in Num /\ At(d.una) \in Num /\ At(k.sndNxt) \in Num
      BY <1>1, <2>2, AtIs
    <3>2. k.sndQueue \in Seq(Piece)
      BY <1>1 DEF End
    <3>3. Len(F) \in Nat /\ Len(k.sndQueue) \in Nat
      BY <3>2
    <3> QED BY <3>1, <3>3 DEF Num
  <2>4. At(k.sndNxt) + Len(k.sndQueue) = Len(F)
    BY DEF SendInv
  <2>5. 2 * (At(d.una) - At(x)) < Word /\ 2 * (At(x) - At(d.una)) <= Word
    BY <2>2, <2>3, <2>4, Words
  <2>6. Diff(d.una, x) = At(d.una) - At(x)
    BY <1>1, <2>2, <2>5, DiffAt
  <2> QED BY <1>4, <2>3, <2>6
<1>5. \A x \in Sns(k.sndBuf) : x \in Sns(m.sndBuf) \/ At(x) < At(d.una) \/ x \in d.acks
  BY <1>2, <1>4 DEF Dropped
<1>6. At(m.sndNxt) <= At(m.sndUna) + Wnd
  <2>1. /\ m \in End /\ m.sndUna = Una(m) /\ m.sndNxt = k.sndNxt /\ m.sndBuf \in Seq(Seg)
        /\ \A i \in 1..Len(m.sndBuf) : \E j \in 1..Len(k.sndBuf) : m.sndBuf[i] = k.sndBuf[j]
    BY <1>2 DEF Dropped, Alike, End
  <2>2. At(k.sndNxt) <= At(k.sndUna) + Wnd /\ k.sndUna = Una(k)
    BY DEF SendInv
  <2>3. At(k.sndNxt) \in Nat /\ At(k.sndUna) \in Nat /\ Wnd \in Nat
    <3>1. At(k.sndNxt) \in Num /\ At(k.sndUna) \in Num
      BY <1>1, AtIs
    <3> QED BY <3>1, Words DEF Num
  <2>4. CASE m.sndBuf = <<>>
    BY <2>1, <2>3, <2>4 DEF Una
  <2>5. CASE m.sndBuf # <<>>
    <3>1. 1 \in 1..Len(m.sndBuf) /\ Head(m.sndBuf) = m.sndBuf[1]
      BY <2>1, <2>5
    <3>2. PICK j \in 1..Len(k.sndBuf) : m.sndBuf[1] = k.sndBuf[j]
      BY <2>1, <3>1
    <3>3. k.sndBuf # <<>> /\ 1 \in 1..Len(k.sndBuf) /\ Head(k.sndBuf) = k.sndBuf[1]
          /\ k.sndBuf[j] \in Seg /\ (j = 1 \/ 1 < j)
      BY <1>1, <3>2
    <3>4. m.sndUna = k.sndBuf[j].sn /\ k.sndUna = k.sndBuf[1].sn /\ k.sndBuf[j].sn \in Num
      BY <2>1, <2>2, <2>5, <3>1, <3>2, <3>3 DEF Una, Seg
    <3>5. At(k.sndUna) <= At(m.sndUna) /\ At(m.sndUna) \in Nat
      <4>1. At(m.sndUna) \in Nat
        BY <3>4, AtIs DEF Num
      <4>2. CASE j = 1
        BY <2>3, <3>4, <4>2
      <4>3. CASE 1 < j
        BY <1>1, <2>3, <3>3, <3>4, <4>1, <4>3 DEF Sorted
      <4> QED BY <3>3, <4>1, <4>2, <4>3
    <3> QED BY <2>1, <2>2, <2>3, <3>5
  <2> QED BY <2>4, <2>5
<1>7. \A i \in 1..Len(m.sndBuf) : Genuine(m.sndBuf[i], F, At(k.sndNxt))
  <2>1. \A i \in 1..Len(m.sndBuf) : \E j \in 1..Len(k.sndBuf) : m.sndBuf[i] = k.sndBuf[j]
    BY <1>2 DEF Dropped
  <2>2. \A j \in 1..Len(k.sndBuf) : Genuine(k.sndBuf[j], F, At(k.sndNxt))
    BY DEF SendInv
  <2> HIDE DEF sns
  <2> QED BY <2>1, <2>2
<1>8. SendInv(m, F)
  BY <1>2, <1>6, <1>7 DEF SendInv, Dropped, Alike
<1>9. m.sndNxt = k.sndNxt /\ m.sndQueue = k.sndQueue
  BY <1>2 DEF Dropped, Alike
<1> QED BY <1>2, <1>3, <1>5, <1>8, <1>9

\* The receiver, which sends no segments, takes those that come.
LEMMA InputReceiver ==
  ASSUME NEW F, NEW N, NEW c, History(F, N, c), NEW k, RecvInv(k, F, N, c),
         NEW d \in Datagram, \A i \in 1..Len(d.pushes) : Genuine(d.pushes[i], F, N)
  PROVE  RecvInv(Input(k, d), F, N, c) /\ Came(k) \subseteq Came(Input(k, d))
<1>1. k \in End /\ Sorted(k.sndBuf) /\ k.sndBuf = <<>> /\ k.sndNxt = First
      /\ d.pushes \in Seq(Seg)
  <2>1. k \in End /\ k.sndBuf = <<>> /\ k.sndNxt = First
    BY DEF RecvInv
  <2>2. Sorted(k.sndBuf)
    BY <2>1 DEF Sorted
  <2> QED BY <2>1, <2>2 DEF Datagram
<1> DEFINE sns == {x \in Sns(k.sndBuf) : Diff(d.una, x) > 0} \cup d.acks
<1>2. PICK m : Input(k, d) = InputPushes(m, d.pushes) /\ Dropped(m, k, sns)
  BY <1>1, InputIs
<1>3. Alike(m, k) /\ m.sndBuf = <<>> /\ m.sndUna = First
  BY <1>1, <1>2 DEF Dropped, Alike, Una
<1>4. Came(m) = Came(k)
  BY <1>3 DEF Came, Alike
<1>5. RecvInv(m, F, N, c)
  <2>1. k.sndUna = First
    BY DEF RecvInv
  <2> HIDE DEF sns
  <2> QED BY <1>1, <1>3, <1>4, <2>1 DEF RecvInv, Alike
<1> QED BY <1>1, <1>2, <1>4, <1>5, InputPushesKeeps

-----------------------------------------------------------------------------
(* ikcp_flush fills snd_buf.                                               *)

\* What FillBuf moves: as much as the narrower of the windows lets through.
LEMMA FillIs ==
  ASSUME NEW k \in End
  PROVE  \E n \in 0..Len(k.sndQueue), w \in 0..Wnd :
           /\ n = 0 \/ n <= Diff((k.sndUna + w) % Word, k.sndNxt)
           /\ FillBuf(k) =
                [k EXCEPT !.sndBuf = @ \o [i \in 1..n |->
                                             [sn |-> (k.sndNxt + i - 1) % Word,
                                              frg |-> k.sndQueue[i].frg,
                                              data |-> k.sndQueue[i].data]],
                          !.sndNxt = (@ + n) % Word,
                          !.sndQueue = SubSeq(@, n + 1, Len(@))]
<1> DEFINE w    == IF Wnd < k.rmtWnd THEN Wnd ELSE k.rmtWnd
           room == Diff((k.sndUna + w) % Word, k.sndNxt)
           n    == IF room < 0 THEN 0 ELSE IF room < Len(k.sndQueue) THEN room ELSE Len(k.sndQueue)
<1>1. w \in 0..Wnd /\ Len(k.sndQueue) \in Nat /\ k.sndUna \in Int /\ k.sndNxt \in Int
      /\ Word \in Nat \ {0}
  <2>1. k.sndQueue \in Seq(Piece) /\ k.rmtWnd \in 0..Wnd /\ k.sndUna \in Num /\ k.sndNxt \in Num
    BY DEF End
  <2>2. k.sndUna \in Int /\ k.sndNxt \in Int
    BY <2>1, Words DEF Num
  <2> QED BY <2>1, <2>2, Words
<1> HIDE DEF w
<1>2. room \in Int
  <2> DEFINE x == (k.sndUna + w) % Word
             e == (x - k.sndNxt) % Word
  <2>1. x \in Int
    BY <1>1
  <2> HIDE DEF x
  <2>2. e \in Int
    BY <1>1, <2>1
  <2>3. Diff(x, k.sndNxt) = IF 2 * e >= Word THEN e - Word ELSE e
    BY DEF Diff
  <2> HIDE DEF e
  <2>4. (IF 2 * e >= Word THEN e - Word ELSE e) \in Int
    BY <1>1, <2>2
  <2> QED BY <2>3, <2>4 DEF x
<1>3. FillBuf(k) =
        [k EXCEPT !.sndBuf = @ \o [i \in 1..n |->
                                     [sn |-> (k.sndNxt + i - 1) % Word,
                                      frg |-> k.sndQueue[i].frg,
                                      data |-> k.sndQueue[i].data]],
                  !.sndNxt = (@ + n) % Word,
                  !.sndQueue = SubSeq(@, n + 1, Len(@))]
  BY DEF FillBuf, w
<1> HIDE DEF room
<1>4. n \in 0..Len(k.sndQueue) /\ (n = 0 \/ n <= room)
  BY <1>1, <1>2
<1> HIDE DEF n
<1> QED BY <1>1, <1>3, <1>4 DEF room

\* The sender's pieces get the numbers that come next, inside the window.
LEMMA FillSender ==
  ASSUME NEW F \in Seq(Piece), Len(F) <= MaxSegments, NEW s, SendInv(s, F)
  PROVE  /\ SendInv(FillBuf(s), F)
         /\ At(s.sndNxt) <= At(FillBuf(s).sndNxt)
         /\ Sns(s.sndBuf) \subseteq Sns(FillBuf(s).sndBuf)
         /\ \A x \in Num : At(x) < At(FillBuf(s).sndNxt) =>
              At(x) < At(s.sndNxt) \/ x \in Sns(FillBuf(s).sndBuf)
<1> DEFINE k  == FillBuf(s)
           b  == s.sndBuf
           q  == s.sndQueue
           N  == At(s.sndNxt)
           U  == At(s.sndUna)
<1>1. /\ s \in End /\ b \in Seq(Seg) /\ q \in Seq(Piece) /\ s.sndNxt \in Num /\ s.sndUna \in Num
  BY DEF SendInv, End
<1>2. /\ Len(b) \in Nat /\ Len(q) \in Nat /\ N \in Nat /\ U \in Nat /\ Len(F) \in Nat
      /\ Len(F) <= MaxSegments /\ N + Len(q) = Len(F) /\ N <= U + Wnd
      /\ Wnd \in Nat \ {0} /\ MaxSegments \in Nat \ {0} /\ Word \in Nat
      /\ 2 * (MaxSegments + Wnd) <= Word
  <2>1. N \in Num /\ U \in Num
    BY <1>1, AtIs
  <2>2. N \in Nat /\ U \in Nat
    BY <2>1 DEF Num
  <2>3. N + Len(q) = Len(F) /\ N <= U + Wnd
    BY DEF SendInv
  <2>4. Len(b) \in Nat /\ Len(q) \in Nat
    BY <1>1
  <2> QED BY <2>2, <2>3, <2>4, Words
<1>3. /\ Sorted(b) /\ s.sndUna = Una(s)
      /\ \A i \in 1..Len(b) : /\ b[i] \in Seg /\ b[i].sn \in Num /\ At(b[i].sn) \in Nat
                              /\ Genuine(b[i], F, N) /\ At(b[i].sn) < N
  <2>1. \A i \in 1..Len(b) : b[i] \in Seg
    BY <1>1
  <2>2. \A i \in 1..Len(b) : Genuine(b[i], F, N) /\ At(b[i].sn) < N
    BY DEF SendInv, Genuine
  <2>3. Sorted(b) /\ s.sndUna = Una(s)
    BY DEF SendInv
  <2> QED BY <2>1, <2>2, <2>3, AtIs DEF Seg, Num
<1>4. U <= N
  <2>1. CASE b = <<>>
    BY <1>2, <1>3, <2>1 DEF Una
  <2>2. CASE b # <<>>
    <3>1. 1 \in 1..Len(b) /\ Head(b) = b[1]
      BY <1>1, <2>2
    <3>2. s.sndUna = b[1].sn
      BY <1>3, <2>2, <3>1 DEF Una
    <3> QED BY <1>2, <1>3, <3>1, <3>2
  <2> QED BY <2>1, <2>2
<1>5. PICK n \in 0..Len(q), w \in 0..Wnd :
        /\ n = 0 \/ n <= Diff((s.sndUna + w) % Word, s.sndNxt)
        /\ k = [s EXCEPT !.sndBuf = @ \o [i \in 1..n |-> [sn |-> (s.sndNxt + i - 1) % Word,
                                                          frg |-> s.sndQueue[i].frg,
                                                          data |-> s.sndQueue[i].data]],
                         !.sndNxt = (@ + n) % Word,
                         !.sndQueue = SubSeq(@, n + 1, Len(@))]
  BY <1>1, FillIs
<1> DEFINE new == [i \in 1..n |-> [sn |-> (s.sndNxt + i - 1) % Word,
                                   frg |-> s.sndQueue[i].frg, data |-> s.sndQueue[i].data]]
           x2  == (s.sndNxt + n) % Word
           q2  == SubSeq(q, n + 1, Len(q))
           b2  == b \o new
<1>6. k = [s EXCEPT !.sndBuf = b2, !.sndNxt = x2, !.sndQueue = q2]
  BY <1>5
<1>7. n = 0 \/ n <= Diff((s.sndUna + w) % Word, s.sndNxt)
  BY <1>5
<1>n. n \in Nat /\ n <= Len(q) /\ w \in Nat /\ w <= Wnd
  BY <1>2
<1> HIDE DEF k, b, q, N, U, new, x2, q2, b2
<1>8. N + n <= U + Wnd
  <2>1. CASE n = 0
    BY <1>2, <2>1
  <2>2. CASE n # 0
    <3> DEFINE y == (s.sndUna + w) % Word
    <3>1. U + w < Word
      BY <1>2, <1>4, <1>n
    <3>2. y \in Num /\ At(y) = U + w
      BY <1>1, <1>n, <3>1, AtAdd DEF U
    <3> HIDE DEF y
    <3>3. 2 * (At(y) - N) < Word /\ 2 * (N - At(y)) <= Word
      BY <1>2, <1>4, <1>n, <3>2
    <3>4. Diff(y, s.sndNxt) = At(y) - N
      BY <1>1, <3>2, <3>3, DiffAt DEF N
    <3>5. n <= Diff(y, s.sndNxt)
      BY <1>7, <2>2 DEF y
    <3> QED BY <1>2, <1>n, <3>2, <3>4, <3>5
  <2> QED BY <2>1, <2>2
<1>9. x2 \in Num /\ At(x2) = N + n
  <2>1. N + n < Word
    BY <1>2, <1>n
  <2> QED BY <1>1, <1>n, <2>1, AtAdd DEF x2, N
<1>10. /\ new \in Seq(Seg) /\ Len(new) = n
       /\ \A i \in 1..n : At(new[i].sn) = N + (i - 1) /\ Genuine(new[i], F, N + n)
  <2>1. ASSUME NEW i \in 1..n
        PROVE  /\ new[i] \in Seg /\ At(new[i].sn) = N + (i - 1) /\ Genuine(new[i], F, N + n)
    <3>1. /\ i - 1 \in Nat /\ N + (i - 1) < Word /\ s.sndNxt + i - 1 = s.sndNxt + (i - 1)
          /\ i \in 1..Len(q)
      BY <1>1, <1>2, <1>n DEF Num
    <3>2. /\ (s.sndNxt + i - 1) % Word \in Num /\ At((s.sndNxt + i - 1) % Word) = N + (i - 1)
      BY <1>1, <3>1, AtAdd DEF N
    <3>3. new[i] = [sn |-> (s.sndNxt + i - 1) % Word, frg |-> q[i].frg, data |-> q[i].data]
      BY DEF new, q
    <3>4. q[i] = F[N + i] /\ q[i] \in Piece
      BY <1>1, <3>1 DEF SendInv, N, q
    <3>5. N + (i - 1) + 1 = N + i /\ N + (i - 1) < N + n
      BY <1>2, <1>n
    <3>6. new[i] \in Seg
      BY <3>2, <3>3, <3>4 DEF Seg, Piece
    <3>7. new[i].sn = (s.sndNxt + i - 1) % Word /\ new[i].frg = q[i].frg /\ new[i].data = q[i].data
      BY <3>3
    <3>8. At(new[i].sn) = N + (i - 1)
      BY <3>2, <3>7
    <3>9. Genuine(new[i], F, N + n)
      BY <3>4, <3>5, <3>7, <3>8 DEF Genuine
    <3> QED BY <3>6, <3>8, <3>9
  <2>2. new = [i \in 1..n |-> new[i]]
    BY DEF new
  <2>3. new \in [1..n -> Seg]
    BY <2>1, <2>2
  <2>4. new \in Seq(Seg) /\ Len(new) = n
    BY <1>n, <2>3
  <2> QED BY <2>1, <2>4
<1>11. /\ b2 \in Seq(Seg) /\ Len(b2) = Len(b) + n
       /\ \A i \in 1..Len(b) : b2[i] = b[i]
       /\ \A i \in 1..n : b2[Len(b) + i] = new[i]
  <2>1. b \in Seq(Seg) /\ new \in Seq(Seg) /\ Len(new) = n
    BY <1>1, <1>10
  <2> QED BY <2>1 DEF b2
<1>12. /\ q2 \in Seq(Piece) /\ Len(q2) = Len(q) - n
       /\ \A i \in 1..Len(q2) : i + n \in 1..Len(q) /\ q2[i] = q[i + n]
  <2>1. q \in Seq(Piece) /\ n \in Nat /\ n <= Len(q)
    BY <1>1, <1>n
  <2> QED BY <2>1 DEF q2
<1>13. /\ k \in End /\ k.sndBuf = b2 /\ k.sndNxt = x2 /\ k.sndQueue = q2
       /\ k.sndUna = s.sndUna /\ k.acks = s.acks /\ k.rcvNxt = s.rcvNxt
       /\ k.rcvBuf = s.rcvBuf /\ k.rcvQueue = s.rcvQueue
  BY <1>1, <1>6, <1>9, <1>11, <1>12 DEF End
<1>14. \A i \in 1..Len(b2) : \/ i \in 1..Len(b) /\ b2[i] = b[i]
                             \/ i > Len(b) /\ i - Len(b) \in 1..n /\ b2[i] = new[i - Len(b)]
  <2> SUFFICES ASSUME NEW i \in 1..Len(b2), i > Len(b)
               PROVE  i - Len(b) \in 1..n /\ b2[i] = new[i - Len(b)]
    BY <1>2, <1>11
  <2>1. i - Len(b) \in 1..n /\ i = Len(b) + (i - Len(b))
    BY <1>2, <1>11, <1>n
  <2> QED BY <1>11, <2>1
<1>15. \A i \in 1..Len(b2) : Genuine(b2[i], F, N + n)
  <2> SUFFICES ASSUME NEW i \in 1..Len(b2) PROVE Genuine(b2[i], F, N + n)
    OBVIOUS
  <2>1. CASE i \in 1..Len(b) /\ b2[i] = b[i]
    <3>1. Genuine(b[i], F, N) /\ At(b[i].sn) \in Nat
      BY <1>3, <2>1
    <3>2. At(b[i].sn) < N => At(b[i].sn) < N + n
      BY <1>2, <1>n, <3>1
    <3> QED BY <2>1, <3>1, <3>2 DEF Genuine
  <2>2. CASE i > Len(b) /\ i - Len(b) \in 1..n /\ b2[i] = new[i - Len(b)]
    BY <1>10, <2>2
  <2> QED BY <1>14, <2>1, <2>2
<1>16. Sorted(b2)
  <2> SUFFICES ASSUME NEW i \in 1..Len(b2), NEW j \in 1..Len(b2), i < j
               PROVE  At(b2[i].sn) < At(b2[j].sn)
    BY DEF Sorted
  <2>1. CASE j \in 1..Len(b) /\ b2[j] = b[j]
    <3>1. i \in 1..Len(b) /\ b2[i] = b[i]
      BY <1>2, <1>11, <2>1
    <3> QED BY <1>3, <2>1, <3>1 DEF Sorted
  <2>2. CASE j > Len(b) /\ j - Len(b) \in 1..n /\ b2[j] = new[j - Len(b)]
    <3>1. At(b2[j].sn) = N + ((j - Len(b)) - 1)
      BY <1>10, <2>2
    <3>2. CASE i \in 1..Len(b) /\ b2[i] = b[i]
      <4>1. At(b[i].sn) < N /\ At(b[i].sn) \in Nat
        BY <1>3, <3>2
      <4> QED BY <1>2, <1>n, <2>2, <3>1, <3>2, <4>1
    <3>3. CASE i > Len(b) /\ i - Len(b) \in 1..n /\ b2[i] = new[i - Len(b)]
      <4>1. At(b2[i].sn) = N + ((i - Len(b)) - 1)
        BY <1>10, <3>3
      <4> QED BY <1>2, <1>11, <1>n, <2>2, <3>1, <3>3, <4>1
    <3> QED BY <1>14, <3>2, <3>3
  <2> QED BY <1>14, <2>1, <2>2
<1>17. Una(k) = s.sndUna
  <2>1. CASE b = <<>>
    <3>1. s.sndUna = s.sndNxt
      BY <1>3, <2>1 DEF Una, b
    <3>2. Len(b) = 0
      BY <2>1
    <3>3. CASE n = 0
      <4>1. b2 = <<>>
        BY <1>11, <3>2, <3>3
      <4>2. x2 = s.sndNxt
        BY <1>1, <1>2, <1>9, <3>3, AtOne DEF N
      <4> QED BY <1>13, <3>1, <4>1, <4>2 DEF Una
    <3>4. CASE n # 0
      <4>1. 1 \in 1..n /\ 1 = Len(b) + 1 /\ b2 # <<>> /\ Head(b2) = b2[1]
        BY <1>11, <1>n, <3>2, <3>4
      <4>2. Head(b2) = new[1] /\ At(new[1].sn) = N + (1 - 1) /\ new[1] \in Seg
        BY <1>10, <1>11, <4>1
      <4>3. new[1].sn = s.sndNxt
        BY <1>1, <1>2, <4>2, AtOne DEF Seg, N
      <4> QED BY <1>13, <3>1, <4>1, <4>2, <4>3 DEF Una
    <3> QED BY <3>3, <3>4
  <2>2. CASE b # <<>>
    <3>1. 1 \in 1..Len(b) /\ Head(b) = b[1] /\ b2 # <<>> /\ Head(b2) = b2[1]
      BY <1>1, <1>11, <1>n, <2>2
    <3>2. Head(b2) = Head(b)
      BY <1>11, <3>1
    <3> QED BY <1>3, <1>13, <2>2, <3>1, <3>2 DEF Una, b
  <2> QED BY <2>1, <2>2
<1>18. SendInv(k, F)
  <2>1. /\ k.rcvNxt = First /\ k.rcvBuf = <<>> /\ k.rcvQueue = <<>> /\ k.acks = {}
    BY <1>13 DEF SendInv
  <2>2. At(k.sndNxt) + Len(k.sndQueue) = Len(F)
    <3>1. At(k.sndNxt) = N + n /\ Len(k.sndQueue) = Len(q) - n
      BY <1>9, <1>12, <1>13
    <3> QED BY <1>2, <1>n, <3>1
  <2>3. \A i \in 1..Len(k.sndQueue) : k.sndQueue[i] = F[At(k.sndNxt) + i]
    <3> SUFFICES ASSUME NEW i \in 1..Len(q2) PROVE q2[i] = F[At(x2) + i]
      BY <1>13
    <3>1. i + n \in 1..Len(q) /\ q2[i] = q[i + n] /\ N + (i + n) = At(x2) + i
      BY <1>2, <1>9, <1>12, <1>n
    <3>2. \A j \in 1..Len(q) : q[j] = F[N + j]
      BY DEF SendInv, q, N
    <3> QED BY <3>1, <3>2
  <2>4. Sorted(k.sndBuf) /\ \A i \in 1..Len(k.sndBuf) : Genuine(k.sndBuf[i], F, At(k.sndNxt))
    BY <1>9, <1>13, <1>15, <1>16
  <2>5. k.sndUna = Una(k) /\ At(k.sndNxt) <= At(k.sndUna) + Wnd
    BY <1>8, <1>9, <1>13, <1>17 DEF U
  <2> QED BY <1>13, <2>1, <2>2, <2>3, <2>4, <2>5 DEF SendInv
<1>19. Sns(b) \subseteq Sns(b2)
  <2> SUFFICES ASSUME NEW i \in 1..Len(b) PROVE b[i].sn \in Sns(b2)
    BY DEF Sns
  <2>1. Len(b2) = Len(b) + n /\ b2[i] = b[i]
    BY <1>11
  <2>2. i \in 1..Len(b2)
    BY <1>2, <1>n, <2>1
  <2> QED BY <2>1, <2>2 DEF Sns
<1>20. ASSUME NEW x \in Num, At(x) < N + n
       PROVE  At(x) < N \/ x \in Sns(b2)
  <2> SUFFICES ASSUME ~(At(x) < N) PROVE x \in Sns(b2)
    OBVIOUS
  <2> DEFINE i == At(x) - N + 1
  <2>1. At(x) \in Nat
    BY AtIs DEF Num
  <2>2. i \in 1..n /\ N + (i - 1) = At(x) /\ Len(b) + i \in 1..Len(b2)
    <3>1. Len(b2) = Len(b) + n /\ At(x) < N + n /\ ~(At(x) < N)
      BY <1>11, <1>20
    <3> QED BY <1>2, <1>n, <2>1, <3>1
  <2> HIDE DEF i
  <2>3. b2[Len(b) + i] = new[i] /\ At(new[i].sn) = At(x) /\ new[i] \in Seg
    BY <1>10, <1>11, <2>2
  <2>4. new[i].sn = x
    BY <2>3, AtOne DEF Seg
  <2> QED BY <2>2, <2>3, <2>4 DEF Sns
<1>21. N <= At(k.sndNxt)
  BY <1>2, <1>9, <1>13, <1>n
<1> QED BY <1>9, <1>13, <1>18, <1>19, <1>20, <1>21 DEF k, N, b

\* The receiver has nothing to fill in.
LEMMA FillReceiver ==
  ASSUME NEW k \in End, k.sndQueue = <<>>, k.sndBuf = <<>>
  PROVE  FillBuf(k) = k
<1>1. PICK n \in 0..Len(k.sndQueue) :
        FillBuf(k) =
          [k EXCEPT !.sndBuf = @ \o [i \in 1..n |->
                                       [sn |-> (k.sndNxt + i - 1) % Word,
                                        frg |-> k.sndQueue[i].frg,
                                        data |-> k.sndQueue[i].data]],
                    !.sndNxt = (@ + n) % Word,
                    !.sndQueue = SubSeq(@, n + 1, Len(@))]
  BY FillIs
<1>2. n = 0
  BY <1>1
<1> DEFINE new == [i \in 1..n |-> [sn |-> (k.sndNxt + i - 1) % Word,
                                   frg |-> k.sndQueue[i].frg, data |-> k.sndQueue[i].data]]
           x2  == (k.sndNxt + n) % Word
           q2  == SubSeq(k.sndQueue, n + 1, Len(k.sndQueue))
<1>3. FillBuf(k) = [k EXCEPT !.sndBuf = k.sndBuf \o new, !.sndNxt = x2, !.sndQueue = q2]
  BY <1>1
<1>4. k.sndBuf \o new = k.sndBuf
  BY <1>2
<1>5. x2 = k.sndNxt
  <2>1. k.sndNxt \in Num /\ At(k.sndNxt) \in Num
    BY AtIs DEF End
  <2>2. At(k.sndNxt) + 0 < Word /\ At(k.sndNxt) + 0 = At(k.sndNxt)
    BY <2>1, Words DEF Num
  <2> QED BY <1>2, <2>1, <2>2, AtAdd, AtOne
<1>6. q2 = k.sndQueue
  BY <1>2
<1> HIDE DEF new, x2, q2
<1> QED BY <1>3, <1>4, <1>5, <1>6 DEF End

-----------------------------------------------------------------------------
(* Both ends, the datagrams between them and what has gone in and out.     *)

\* What a datagram says to the sender is so.
Told(d, r, N) ==
  /\ d.pushes = <<>> /\ At(d.una) <= N
  /\ {x \in Num : At(x) < At(d.una)} \cup d.acks \subseteq Came(r)

Carries(d, F, N) == \A i \in 1..Len(d.pushes) : Genuine(d.pushes[i], F, N)

\* What has not come is still with the sender.
Covered(s, r) ==
  \A x \in Num : At(x) < At(s.sndNxt) => x \in Came(r) \/ x \in Sns(s.sndBuf)

\* G is what has come out of S.
Out(G, S) ==
  G \in Seq(Messages) /\ Len(G) <= Len(S) /\ \A i \in 1..Len(G) : G[i] = S[i]

Joined(s, r, toR, toS, S, G, F, b) ==
  /\ F \in Seq(Piece) /\ Len(F) <= MaxSegments
  /\ Laid(S, F, b) /\ Out(G, S)
  /\ SendInv(s, F)
  /\ RecvInv(r, F, At(s.sndNxt), b[Len(G)])
  /\ Covered(s, r)
  /\ \A d \in toR : d \in Datagram /\ Carries(d, F, At(s.sndNxt))
  /\ \A d \in toS : d \in Datagram /\ Told(d, r, At(s.sndNxt))

LEMMA JoinedNum ==
  ASSUME NEW s, NEW r, NEW toR, NEW toS, NEW S, NEW G, NEW F, NEW b,
         Joined(s, r, toR, toS, S, G, F, b)
  PROVE  /\ History(F, At(s.sndNxt), b[Len(G)])
         /\ At(s.sndNxt) \in Nat /\ Len(F) \in Nat /\ Len(S) \in Nat /\ Len(G) \in 0..Len(S)
         /\ At(s.sndNxt) + Len(s.sndQueue) = Len(F) /\ Len(s.sndQueue) \in Nat
<1>1. /\ F \in Seq(Piece) /\ Len(F) <= MaxSegments /\ Laid(S, F, b) /\ Out(G, S) /\ SendInv(s, F)
  BY DEF Joined
<1>2. /\ s.sndNxt \in Num /\ s.sndQueue \in Seq(Piece)
      /\ At(s.sndNxt) + Len(s.sndQueue) = Len(F)
  BY <1>1 DEF SendInv, End
<1>3. At(s.sndNxt) \in Nat /\ Len(s.sndQueue) \in Nat /\ Len(F) \in Nat
  BY <1>1, <1>2, AtIs DEF Num
<1>4. Len(S) \in Nat /\ Len(G) \in 0..Len(S)
  <2>1. S \in Seq(Messages) /\ G \in Seq(Messages) /\ Len(G) <= Len(S)
    BY <1>1 DEF Laid, Out
  <2> QED BY <2>1
<1>5. b[Len(G)] \in Nat
  <2>1. b \in [0..Len(S) -> 0..Len(F)]
    BY <1>1 DEF Laid
  <2>2. b[Len(G)] \in 0..Len(F)
    BY <1>4, <2>1
  <2> QED BY <1>3, <2>2
<1>6. At(s.sndNxt) \in 0..Len(F)
  BY <1>2, <1>3
<1> QED BY <1>1, <1>2, <1>3, <1>4, <1>5, <1>6 DEF History

\* Datagrams may stay away.
LEMMA FewerKeeps ==
  ASSUME NEW s, NEW r, NEW toR, NEW toS, NEW S, NEW G, NEW F, NEW b,
         Joined(s, r, toR, toS, S, G, F, b),
         NEW tR \in SUBSET toR, NEW tS \in SUBSET toS
  PROVE  Joined(s, r, tR, tS, S, G, F, b)
BY DEF Joined

\* What was true of fewer pieces is so of more.
LEMMA GenuineMore ==
  ASSUME NEW F \in Seq(Piece), NEW N \in 0..Len(F), NEW F2, NEW N2 \in Nat, N <= N2,
         \A i \in 1..Len(F) : F2[i] = F[i],
         NEW s \in Seg, Genuine(s, F, N)
  PROVE  Genuine(s, F2, N2)
<1>1. s.sn \in Num /\ At(s.sn) < N
  BY DEF Seg, Genuine
<1>2. At(s.sn) \in Nat /\ Len(F) \in Nat
  BY <1>1, AtIs DEF Num
<1>3. At(s.sn) + 1 \in 1..Len(F) /\ At(s.sn) < N2
  BY <1>1, <1>2
<1> QED BY <1>3 DEF Genuine

LEMMA RecvMore ==
  ASSUME NEW F, NEW N, NEW c, History(F, N, c), NEW F2, NEW N2 \in Nat, N <= N2,
         \A i \in 1..Len(F) : F2[i] = F[i],
         NEW k, RecvInv(k, F, N, c)
  PROVE  RecvInv(k, F2, N2, c)
<1>1. F \in Seq(Piece) /\ N \in 0..Len(F) /\ Len(F) \in Nat /\ c \in Nat
  BY DEF History
<1>2. /\ k \in End /\ k.rcvBuf \in Seq(Seg) /\ k.rcvNxt \in Num /\ k.rcvQueue \in Seq(Piece)
      /\ At(k.rcvNxt) <= N
  BY DEF RecvInv, End
<1>3. At(k.rcvNxt) \in Nat /\ Len(k.rcvQueue) \in Nat
  BY <1>2, AtIs DEF Num
<1>4. \A i \in 1..Len(k.rcvBuf) : Genuine(k.rcvBuf[i], F2, N2)
  <2> SUFFICES ASSUME NEW i \in 1..Len(k.rcvBuf) PROVE Genuine(k.rcvBuf[i], F2, N2)
    OBVIOUS
  <2>1. k.rcvBuf[i] \in Seg
    BY <1>2
  <2>2. Genuine(k.rcvBuf[i], F, N)
    BY DEF RecvInv
  <2> QED BY <1>1, <2>1, <2>2, GenuineMore
<1>5. \A i \in 1..Len(k.rcvQueue) : k.rcvQueue[i] = F2[c + i]
  <2> SUFFICES ASSUME NEW i \in 1..Len(k.rcvQueue) PROVE k.rcvQueue[i] = F2[c + i]
    OBVIOUS
  <2>1. k.rcvQueue[i] = F[c + i] /\ c + Len(k.rcvQueue) = At(k.rcvNxt)
    BY DEF RecvInv
  <2>2. c + i \in 1..Len(F)
    BY <1>1, <1>2, <1>3, <2>1
  <2> QED BY <2>1, <2>2
<1>6. At(k.rcvNxt) <= N2
  BY <1>1, <1>2, <1>3
<1> QED BY <1>4, <1>5, <1>6 DEF RecvInv

LEMMA CarriesMore ==
  ASSUME NEW F \in Seq(Piece), NEW N \in 0..Len(F), NEW F2, NEW N2 \in Nat, N <= N2,
         \A i \in 1..Len(F) : F2[i] = F[i],
         NEW d \in Datagram, Carries(d, F, N)
  PROVE  Carries(d, F2, N2)
<1> SUFFICES ASSUME NEW i \in 1..Len(d.pushes) PROVE Genuine(d.pushes[i], F2, N2)
  BY DEF Carries
<1>1. d.pushes \in Seq(Seg)
  BY DEF Datagram
<1>2. d.pushes[i] \in Seg
  BY <1>1
<1>3. Genuine(d.pushes[i], F, N)
  BY DEF Carries
<1> QED BY <1>2, <1>3, GenuineMore

\* ikcp_recv takes the next message out.
LEMMA RecvKeeps ==
  ASSUME NEW s, NEW r, NEW toR, NEW toS, NEW S, NEW G, NEW F, NEW b,
         Joined(s, r, toR, toS, S, G, F, b), Whole(r)
  PROVE  LET m == [i \in 1..HeadLength(r) |-> r.rcvQueue[i].data]
         IN  /\ Len(G) < Len(S) /\ m = S[Len(G) + 1]
             /\ Joined(s, Received(r), toR, toS, S, Append(G, m), F, b)
<1> DEFINE N  == At(s.sndNxt)
           g  == Len(G)
           c  == b[g]
           q  == r.rcvQueue
           h  == HeadLength(r)
           m  == [i \in 1..h |-> q[i].data]
           r2 == Received(r)
           G2 == Append(G, m)
<1>1. History(F, N, c) /\ N \in Nat /\ Len(F) \in Nat /\ Len(S) \in Nat /\ Len(G) \in 0..Len(S)
      /\ N <= Len(F)
  <2>1. N + Len(s.sndQueue) = Len(F) /\ Len(s.sndQueue) \in Nat /\ N \in Nat
    BY JoinedNum
  <2> QED BY <2>1, JoinedNum
<1>2. /\ RecvInv(r, F, N, c) /\ Laid(S, F, b) /\ Out(G, S)
  BY DEF Joined
<1>3. /\ q \in Seq(Piece) /\ r.rcvNxt \in Num /\ c + Len(q) = At(r.rcvNxt) /\ At(r.rcvNxt) <= N
      /\ \A i \in 1..Len(q) : q[i] = F[c + i]
  BY <1>2 DEF RecvInv, End
<1>5. c + Len(q) <= Len(F)
  <2>1. At(r.rcvNxt) \in Nat
    BY <1>3, AtIs DEF Num
  <2> QED BY <1>1, <1>3, <2>1
<1>6. /\ g < Len(S) /\ h = Len(S[g + 1]) /\ h \in 1..Len(q)
      /\ m = S[g + 1] /\ b[g + 1] = c + h
  <2>1. g \in 0..Len(S) /\ Laid(S, F, b)
    BY <1>1, <1>2
  <2>2. /\ r.rcvQueue \in Seq(Piece) /\ b[g] + Len(r.rcvQueue) <= Len(F)
        /\ \A i \in 1..Len(r.rcvQueue) : r.rcvQueue[i] = F[b[g] + i]
    BY <1>3, <1>5
  <2> HIDE DEF g, q
  <2>3. r.rcvQueue = q
    BY DEF q
  <2> QED BY <2>1, <2>2, <2>3, HeadIs
<1>7. RecvInv(r2, F, N, c + h) /\ Came(r) \subseteq Came(r2)
  BY <1>1, <1>2, <1>6, ReceivedKeeps
<1> HIDE DEF m, h, q, r2, c
<1>8. /\ G2 \in Seq(Messages) /\ Len(G2) = g + 1 /\ G2[g + 1] = m
      /\ \A i \in 1..g : G2[i] = G[i]
  <2>1. G \in Seq(Messages) /\ S \in Seq(Messages) /\ g + 1 \in 1..Len(S)
    BY <1>1, <1>2, <1>6 DEF Out, Laid
  <2>2. m \in Messages
    BY <1>6, <2>1
  <2> QED BY <2>1, <2>2
<1> HIDE DEF G2
<1>9. Out(G2, S)
  <2>1. \A i \in 1..g : G[i] = S[i]
    BY <1>2 DEF Out
  <2>2. \A i \in 1..Len(G2) : G2[i] = S[i]
    <3> SUFFICES ASSUME NEW i \in 1..Len(G2) PROVE G2[i] = S[i]
      OBVIOUS
    <3>1. i \in 1..g \/ i = g + 1
      BY <1>1, <1>8
    <3> QED BY <1>6, <1>8, <2>1, <3>1
  <2>3. Len(G2) <= Len(S)
    BY <1>1, <1>6, <1>8
  <2> QED BY <1>8, <2>2, <2>3 DEF Out
<1>10. b[Len(G2)] = c + h
  BY <1>6, <1>8
<1>11. Covered(s, r2)
  BY <1>7 DEF Joined, Covered
<1>12. \A d \in toS : d \in Datagram /\ Told(d, r2, N)
  BY <1>7 DEF Joined, Told
<1>13. Joined(s, r2, toR, toS, S, G2, F, b)
  BY <1>7, <1>9, <1>10, <1>11, <1>12 DEF Joined
<1> QED BY <1>6, <1>13 DEF m, h, q, r2, G2

\* A message of L fragments goes in.
LEMMA SendKeeps ==
  ASSUME NEW s, NEW r, NEW toR, NEW toS, NEW S, NEW G, NEW F, NEW b,
         Joined(s, r, toR, toS, S, G, F, b),
         NEW m \in Messages, NEW L \in Nat \ {0}, m \in [1..L -> Data],
         At(s.sndNxt) + Len(s.sndQueue) + L <= MaxSegments
  PROVE  \E F2, b2 : Joined(Queued(s, m), r, toR, toS, Append(S, m), G, F2, b2)
<1> DEFINE N   == At(s.sndNxt)
           q   == s.sndQueue
           new == [i \in 1..L |-> [frg |-> L - i, data |-> m[i]]]
           k   == Queued(s, m)
           q2  == q \o new
           F2  == F \o new
           S2  == Append(S, m)
           b2  == [j \in 0..Len(S) + 1 |-> IF j <= Len(S) THEN b[j] ELSE Len(F) + L]
<1>1. /\ History(F, N, b[Len(G)]) /\ N \in Nat /\ Len(F) \in Nat /\ Len(S) \in Nat
      /\ Len(G) \in 0..Len(S) /\ N + Len(q) = Len(F) /\ Len(q) \in Nat
  BY JoinedNum
<1>2. /\ F \in Seq(Piece) /\ Laid(S, F, b) /\ Out(G, S) /\ SendInv(s, F)
      /\ RecvInv(r, F, N, b[Len(G)]) /\ Covered(s, r)
  BY DEF Joined
<1>3. s \in End /\ q \in Seq(Piece) /\ s.sndBuf \in Seq(Seg) /\ N \in 0..Len(F)
  <2>1. N \in 0..Len(F)
    BY <1>1
  <2> QED BY <1>2, <2>1 DEF SendInv, End
<1>4. m \in Seq(Data) /\ Len(m) = L /\ L \in Nat /\ L >= 1 /\ m = [i \in 1..L |-> m[i]]
  OBVIOUS
<1>5. /\ new \in Seq(Piece) /\ Len(new) = L
      /\ \A i \in 1..L : new[i].frg = L - i /\ new[i].data = m[i]
  <2>1. \A i \in 1..L : L - i \in Nat /\ m[i] \in Data
    BY <1>4
  <2>2. \A i \in 1..L : [frg |-> L - i, data |-> m[i]] \in Piece
    BY <2>1 DEF Piece
  <2>3. new \in Seq(Piece) /\ Len(new) = L
    BY <1>4, <2>2
  <2> QED BY <2>3
<1>0. N + Len(q) + L <= MaxSegments
  OBVIOUS
<1>6. k = [s EXCEPT !.sndQueue = q2]
  BY <1>4 DEF Queued
<1> HIDE DEF new, k, q2, F2, N, q
<1>7. /\ q2 \in Seq(Piece) /\ Len(q2) = Len(q) + L
      /\ (\A i \in 1..Len(q) : q2[i] = q[i])
      /\ \A i \in 1..L : q2[Len(q) + i] = new[i]
  BY <1>3, <1>5 DEF q2
<1>8. /\ F2 \in Seq(Piece) /\ Len(F2) = Len(F) + L
      /\ (\A i \in 1..Len(F) : F2[i] = F[i])
      /\ \A i \in 1..L : F2[Len(F) + i] = new[i]
  <2>1. F \in Seq(Piece) /\ new \in Seq(Piece) /\ Len(new) = L
    BY <1>2, <1>5
  <2> QED BY <2>1 DEF F2
<1>9. /\ k \in End /\ k.sndQueue = q2 /\ k.sndBuf = s.sndBuf /\ k.sndNxt = s.sndNxt
      /\ k.sndUna = s.sndUna /\ k.acks = s.acks /\ k.rcvNxt = s.rcvNxt
      /\ k.rcvBuf = s.rcvBuf /\ k.rcvQueue = s.rcvQueue
  BY <1>3, <1>6, <1>7 DEF End
<1>10. /\ S2 \in Seq(Messages) /\ Len(S2) = Len(S) + 1 /\ S2[Len(S) + 1] = m
       /\ \A i \in 1..Len(S) : S2[i] = S[i]
  <2>1. S \in Seq(Messages)
    BY <1>2 DEF Laid
  <2> QED BY <2>1
<1> HIDE DEF S2
<1>11. /\ b \in [0..Len(S) -> 0..Len(F)] /\ b[0] = 0 /\ b[Len(S)] = Len(F)
       /\ \A j \in 1..Len(S) :
            /\ Len(S[j]) \in Nat \ {0} /\ b[j] = b[j - 1] + Len(S[j])
            /\ S[j] = [i \in 1..Len(S[j]) |-> F[b[j - 1] + i].data]
            /\ \A i \in 1..Len(S[j]) : F[b[j - 1] + i].frg = Len(S[j]) - i
  BY <1>2 DEF Laid
<1>12. /\ b2 \in [0..Len(S) + 1 -> 0..Len(F2)] /\ b2[Len(S) + 1] = Len(F2)
       /\ \A j \in 0..Len(S) : b2[j] = b[j]
  <2>1. ASSUME NEW j \in 0..Len(S) + 1
        PROVE  (IF j <= Len(S) THEN b[j] ELSE Len(F) + L) \in 0..Len(F2)
    <3>1. j <= Len(S) => b[j] \in 0..Len(F)
      BY <1>1, <1>11
    <3> QED BY <1>1, <1>4, <1>8, <3>1
  <2> QED BY <1>1, <1>8, <2>1
<1> HIDE DEF b2
<1>13. Laid(S2, F2, b2)
  <2>1. b2[0] = 0
    BY <1>1, <1>11, <1>12
  <2>2. ASSUME NEW j \in 1..Len(S2)
        PROVE  /\ Len(S2[j]) \in Nat \ {0} /\ b2[j] = b2[j - 1] + Len(S2[j])
               /\ S2[j] = [i \in 1..Len(S2[j]) |-> F2[b2[j - 1] + i].data]
               /\ \A i \in 1..Len(S2[j]) : F2[b2[j - 1] + i].frg = Len(S2[j]) - i
    <3>1. CASE j \in 1..Len(S)
      <4>1. S2[j] = S[j] /\ b2[j] = b[j] /\ b2[j - 1] = b[j - 1]
        <5>1. j \in 0..Len(S) /\ j - 1 \in 0..Len(S)
          BY <1>1, <3>1
        <5> QED BY <1>10, <1>12, <3>1, <5>1
      <4>2. /\ Len(S[j]) \in Nat \ {0} /\ b[j] = b[j - 1] + Len(S[j])
            /\ S[j] = [i \in 1..Len(S[j]) |-> F[b[j - 1] + i].data]
            /\ \A i \in 1..Len(S[j]) : F[b[j - 1] + i].frg = Len(S[j]) - i
        BY <1>11, <3>1
      <4>3. \A i \in 1..Len(S[j]) : F2[b[j - 1] + i] = F[b[j - 1] + i]
        <5>1. b[j] \in 0..Len(F) /\ b[j - 1] \in Nat
          <6>1. j \in 0..Len(S) /\ j - 1 \in 0..Len(S)
            BY <1>1, <3>1
          <6>2. b[j] \in 0..Len(F) /\ b[j - 1] \in 0..Len(F)
            BY <1>11, <6>1
          <6> QED BY <1>1, <6>2
        <5>2. \A i \in 1..Len(S[j]) : b[j - 1] + i \in 1..Len(F)
          <6>1. /\ b[j] = b[j - 1] + Len(S[j]) /\ b[j] <= Len(F) /\ b[j - 1] \in Nat
                /\ Len(S[j]) \in Nat
            BY <1>1, <4>2, <5>1
          <6> DEFINE o == b[j - 1]
                     l == Len(S[j])
          <6>2. o + l <= Len(F) /\ o \in Nat /\ l \in Nat
            BY <6>1
          <6> HIDE DEF o, l
          <6>3. \A i \in 1..l : o + i \in 1..Len(F)
            BY <1>1, <6>2
          <6> QED BY <6>3 DEF o, l
        <5> QED BY <1>8, <5>2
      <4> DEFINE o == b[j - 1]
                 l == Len(S[j])
      <4>4. [i \in 1..l |-> F2[o + i].data] = [i \in 1..l |-> F[o + i].data]
        BY <4>3
      <4>5. S[j] = [i \in 1..l |-> F2[o + i].data]
        BY <4>2, <4>4
      <4>6. \A i \in 1..l : F2[o + i].frg = l - i
        BY <4>2, <4>3
      <4> HIDE DEF o, l
      <4> QED BY <4>1, <4>2, <4>5, <4>6 DEF o, l
    <3>2. CASE j = Len(S) + 1
      <4>1. S2[j] = m /\ b2[j] = Len(F) + L /\ b2[j - 1] = Len(F)
        <5>1. j - 1 = Len(S) /\ Len(S) \in 0..Len(S)
          BY <1>1, <3>2
        <5> QED BY <1>8, <1>10, <1>11, <1>12, <3>2, <5>1
      <4>2. m = [i \in 1..L |-> F2[Len(F) + i].data]
        <5>1. \A i \in 1..L : F2[Len(F) + i].data = m[i]
          BY <1>5, <1>8
        <5> QED BY <1>4, <5>1
      <4>3. \A i \in 1..L : F2[Len(F) + i].frg = L - i
        BY <1>5, <1>8
      <4> QED BY <1>4, <4>1, <4>2, <4>3
    <3>3. j \in 1..Len(S) \/ j = Len(S) + 1
      BY <1>1, <1>10
    <3> QED BY <3>1, <3>2, <3>3
  <2> QED BY <1>8, <1>10, <1>12, <2>1, <2>2 DEF Laid
<1>14. Out(G, S2)
  <2>1. G \in Seq(Messages) /\ \A i \in 1..Len(G) : G[i] = S[i]
    BY <1>2 DEF Out
  <2>2. Len(G) <= Len(S2) /\ \A i \in 1..Len(G) : i \in 1..Len(S)
    BY <1>1, <1>10
  <2> QED BY <1>10, <2>1, <2>2 DEF Out
<1>15. N <= N /\ Len(F2) <= MaxSegments
  <2>1. N + Len(q) = Len(F) /\ Len(F2) = Len(F) + L /\ N \in Nat
    BY <1>1, <1>8
  <2> QED BY <1>0, <2>1
<1>16. SendInv(k, F2)
  <2>1. At(k.sndNxt) + Len(k.sndQueue) = Len(F2)
    <3>1. At(k.sndNxt) = N /\ Len(k.sndQueue) = Len(q) + L /\ Len(F2) = Len(F) + L
      BY <1>7, <1>8, <1>9 DEF N
    <3>2. N + Len(q) = Len(F) /\ N \in Nat /\ Len(q) \in Nat /\ Len(F) \in Nat
      BY <1>1
    <3> QED BY <1>4, <3>1, <3>2
  <2>2. \A i \in 1..Len(q2) : q2[i] = F2[N + i]
    <3> SUFFICES ASSUME NEW i \in 1..Len(q2) PROVE q2[i] = F2[N + i]
      OBVIOUS
    <3>1. CASE i <= Len(q)
      <4>1. i \in 1..Len(q) /\ N + i \in 1..Len(F)
        BY <1>1, <3>1
      <4>2. q[i] = F[N + i]
        BY <1>2, <4>1 DEF SendInv, N, q
      <4> QED BY <1>7, <1>8, <4>1, <4>2
    <3>2. CASE i > Len(q)
      <4> DEFINE e == i - Len(q)
      <4>1. e \in 1..L /\ Len(q) + e = i /\ Len(F) + e = N + i
        <5>1. Len(q2) = Len(q) + L /\ N + Len(q) = Len(F) /\ N \in Nat /\ Len(q) \in Nat
          BY <1>1, <1>7
        <5> QED BY <3>2, <5>1
      <4> HIDE DEF e
      <4> QED BY <1>7, <1>8, <4>1
    <3> QED BY <1>1, <3>1, <3>2
  <2>3. \A i \in 1..Len(s.sndBuf) : Genuine(s.sndBuf[i], F2, N)
    <3> SUFFICES ASSUME NEW i \in 1..Len(s.sndBuf) PROVE Genuine(s.sndBuf[i], F2, N)
      OBVIOUS
    <3>1. s.sndBuf[i] \in Seg /\ Genuine(s.sndBuf[i], F, N)
      BY <1>2, <1>3 DEF SendInv, N
    <3>2. /\ F \in Seq(Piece) /\ N \in 0..Len(F) /\ N \in Nat /\ N <= N
          /\ \A j \in 1..Len(F) : F2[j] = F[j]
      BY <1>1, <1>2, <1>3, <1>8
    <3> QED BY <3>1, <3>2, GenuineMore
  <2>4. Una(k) = Una(s)
    BY <1>9 DEF Una
  <2>5. /\ s.rcvNxt = First /\ s.rcvBuf = <<>> /\ s.rcvQueue = <<>> /\ s.acks = {}
        /\ Sorted(s.sndBuf) /\ s.sndUna = Una(s) /\ At(s.sndNxt) <= At(s.sndUna) + Wnd
    BY <1>2 DEF SendInv
  <2>6. \A i \in 1..Len(k.sndQueue) : k.sndQueue[i] = F2[At(k.sndNxt) + i]
    BY <1>9, <2>2 DEF N
  <2>7. \A i \in 1..Len(k.sndBuf) : Genuine(k.sndBuf[i], F2, At(k.sndNxt))
    BY <1>9, <2>3 DEF N
  <2> QED BY <1>9, <2>1, <2>4, <2>5, <2>6, <2>7 DEF SendInv
<1>17. RecvInv(r, F2, N, b2[Len(G)])
  BY <1>1, <1>2, <1>8, <1>12, <1>15, RecvMore
<1>18. Covered(k, r)
  BY <1>2, <1>9 DEF Covered
<1>19. \A d \in toR : d \in Datagram /\ Carries(d, F2, N)
  <2> SUFFICES ASSUME NEW d \in toR PROVE d \in Datagram /\ Carries(d, F2, N)
    OBVIOUS
  <2>1. d \in Datagram /\ Carries(d, F, N)
    BY DEF Joined, N
  <2> QED BY <1>1, <1>2, <1>3, <1>8, <1>15, <2>1, CarriesMore
<1>20. \A d \in toS : d \in Datagram /\ Told(d, r, N)
  BY DEF Joined, N
<1>21. At(k.sndNxt) = N
  BY <1>9 DEF N
<1>22. Joined(k, r, toR, toS, S2, G, F2, b2)
  BY <1>8, <1>13, <1>14, <1>15, <1>16, <1>17, <1>18, <1>19, <1>20, <1>21 DEF Joined
<1> QED BY <1>22 DEF k, S2

\* The sender's flush.
LEMMA FlushSenderKeeps ==
  ASSUME NEW s, NEW r, NEW toR, NEW toS, NEW S, NEW G, NEW F, NEW b,
         Joined(s, r, toR, toS, S, G, F, b), NEW again, NEW due \in BOOLEAN,
         NEW d, d = Output(s, FillBuf(s), again, due),
         NEW k, k = [FillBuf(s) EXCEPT !.acks = {}, !.tell = FALSE,
                                       !.probing = (FillBuf(s).rmtWnd = 0)]
  PROVE  Joined(k, r, toR \cup {d}, toS, S, G, F, b)
<1> DEFINE N == At(s.sndNxt)
           e == FillBuf(s)
           M == At(e.sndNxt)
<1>1. /\ History(F, N, b[Len(G)]) /\ N \in Nat /\ Len(F) \in Nat
      /\ N + Len(s.sndQueue) = Len(F) /\ Len(s.sndQueue) \in Nat
  BY JoinedNum
<1>2. /\ F \in Seq(Piece) /\ Len(F) <= MaxSegments /\ Laid(S, F, b) /\ Out(G, S)
      /\ SendInv(s, F) /\ RecvInv(r, F, N, b[Len(G)]) /\ Covered(s, r)
  BY DEF Joined
<1>3. /\ SendInv(e, F) /\ N <= M /\ Sns(s.sndBuf) \subseteq Sns(e.sndBuf)
      /\ \A x \in Num : At(x) < M => At(x) < N \/ x \in Sns(e.sndBuf)
  BY <1>2, FillSender
<1> HIDE DEF e
<1>4. /\ e \in End /\ e.sndBuf \in Seq(Seg) /\ Sorted(e.sndBuf) /\ e.sndNxt \in Num
      /\ e.sndQueue \in Seq(Piece) /\ M + Len(e.sndQueue) = Len(F)
      /\ \A i \in 1..Len(e.sndBuf) : Genuine(e.sndBuf[i], F, M)
  BY <1>3 DEF SendInv, End
<1>5. M \in Nat /\ N \in 0..Len(F) /\ M \in 0..Len(F)
  <2>1. M \in Nat /\ Len(e.sndQueue) \in Nat
    BY <1>4, AtIs DEF Num
  <2> QED BY <1>1, <1>4, <2>1
<1>6. /\ k \in End /\ k.sndQueue = e.sndQueue /\ k.sndBuf = e.sndBuf /\ k.sndNxt = e.sndNxt
      /\ k.sndUna = e.sndUna /\ k.acks = {} /\ k.rcvNxt = e.rcvNxt
      /\ k.rcvBuf = e.rcvBuf /\ k.rcvQueue = e.rcvQueue
  <2> DEFINE p == e.rmtWnd = 0
  <2>1. p \in BOOLEAN
    OBVIOUS
  <2>2. k = [e EXCEPT !.acks = {}, !.tell = FALSE, !.probing = p]
    BY DEF e
  <2> HIDE DEF p
  <2> QED BY <1>4, <2>1, <2>2 DEF End
<1>7. SendInv(k, F)
  <2>1. Una(k) = Una(e)
    BY <1>6 DEF Una
  <2> QED BY <1>3, <1>6, <2>1 DEF SendInv
<1> DEFINE sns == {x \in Sns(e.sndBuf) \ again : Diff(x, s.sndNxt) < 0}
           ps  == Without(e.sndBuf, sns)
<1>8. /\ ps \in Seq(Seg)
      /\ \A i \in 1..Len(ps) : \E j \in 1..Len(e.sndBuf) : ps[i] = e.sndBuf[j]
  BY <1>4, WithoutSorted
<1>9. d = [wnd |-> WndUnused(s), una |-> s.rcvNxt, acks |-> s.acks,
           ask |-> Asks(s, due), tell |-> s.tell, pushes |-> ps]
  BY DEF Output, e
<1> HIDE DEF ps, sns
<1>10. d \in Datagram /\ d.pushes = ps
  <2>1. s \in End /\ s.rcvNxt \in Num /\ s.acks \in SUBSET Num /\ s.tell \in BOOLEAN
        /\ s.rcvQueue \in Seq(Piece)
    BY <1>2 DEF SendInv, End
  <2>2. WndUnused(s) \in 0..Wnd
    <3>1. Len(s.rcvQueue) \in Nat /\ Wnd \in Nat
      BY <2>1, Words
    <3> QED BY <3>1 DEF WndUnused
  <2>3. Asks(s, due) \in BOOLEAN
    BY DEF Asks
  <2> QED BY <1>8, <1>9, <2>1, <2>2, <2>3 DEF Datagram
<1>11. Carries(d, F, M)
  BY <1>4, <1>8, <1>10 DEF Carries
<1>12. Covered(k, r)
  <2> SUFFICES ASSUME NEW x \in Num, At(x) < M
               PROVE  x \in Came(r) \/ x \in Sns(e.sndBuf)
    BY <1>6 DEF Covered
  <2>1. CASE At(x) < N
    BY <1>2, <1>3, <2>1 DEF Covered
  <2> QED BY <1>3, <2>1
<1>13. RecvInv(r, F, M, b[Len(G)])
  BY <1>1, <1>2, <1>3, <1>5, RecvMore
<1>14. \A x \in toR : x \in Datagram /\ Carries(x, F, M)
  <2> SUFFICES ASSUME NEW x \in toR PROVE x \in Datagram /\ Carries(x, F, M)
    OBVIOUS
  <2>1. x \in Datagram /\ Carries(x, F, N)
    BY DEF Joined
  <2> QED BY <1>2, <1>3, <1>5, <2>1, CarriesMore
<1>15. \A x \in toS : x \in Datagram /\ Told(x, r, M)
  <2> SUFFICES ASSUME NEW x \in toS PROVE x \in Datagram /\ Told(x, r, M)
    OBVIOUS
  <2>1. x \in Datagram /\ Told(x, r, N)
    BY DEF Joined
  <2>2. At(x.una) \in Nat /\ At(x.una) <= N
    <3>1. x.una \in Num
      BY <2>1 DEF Datagram
    <3> QED BY <2>1, <3>1, AtIs DEF Told, Num
  <2>3. At(x.una) <= M
    BY <1>1, <1>3, <1>5, <2>2
  <2> QED BY <2>1, <2>3 DEF Told
<1>16. At(k.sndNxt) = M
  BY <1>6
<1> HIDE DEF M
<1> QED BY <1>2, <1>7, <1>10, <1>11, <1>12, <1>13, <1>14, <1>15, <1>16 DEF Joined

\* The receiver's flush tells where it is.
LEMMA FlushReceiverKeeps ==
  ASSUME NEW s, NEW r, NEW toR, NEW toS, NEW S, NEW G, NEW F, NEW b,
         Joined(s, r, toR, toS, S, G, F, b), NEW again, NEW due \in BOOLEAN,
         NEW d, d = Output(r, FillBuf(r), again, due),
         NEW k, k = [FillBuf(r) EXCEPT !.acks = {}, !.tell = FALSE,
                                       !.probing = (FillBuf(r).rmtWnd = 0)]
  PROVE  Joined(s, k, toR, toS \cup {d}, S, G, F, b)
<1> DEFINE N == At(s.sndNxt)
<1>1. RecvInv(r, F, N, b[Len(G)]) /\ Covered(s, r)
  BY DEF Joined
<1>2. /\ r \in End /\ r.sndQueue = <<>> /\ r.sndBuf = <<>> /\ r.acks \subseteq Came(r)
      /\ At(r.rcvNxt) <= N /\ Len(r.rcvQueue) <= Wnd
  BY <1>1 DEF RecvInv
<1>3. FillBuf(r) = r
  BY <1>2, FillReceiver
<1>4. /\ k \in End /\ k.sndQueue = r.sndQueue /\ k.sndBuf = r.sndBuf /\ k.sndNxt = r.sndNxt
      /\ k.sndUna = r.sndUna /\ k.acks = {} /\ k.rcvNxt = r.rcvNxt
      /\ k.rcvBuf = r.rcvBuf /\ k.rcvQueue = r.rcvQueue
  <2> DEFINE p == r.rmtWnd = 0
  <2>1. p \in BOOLEAN
    OBVIOUS
  <2>2. k = [r EXCEPT !.acks = {}, !.tell = FALSE, !.probing = p]
    BY <1>3
  <2> HIDE DEF p
  <2> QED BY <1>2, <2>1, <2>2 DEF End
<1>5. Came(k) = Came(r)
  BY <1>4 DEF Came
<1>6. RecvInv(k, F, N, b[Len(G)])
  BY <1>1, <1>4 DEF RecvInv
<1> DEFINE sns == {x \in Sns(r.sndBuf) \ again : Diff(x, r.sndNxt) < 0}
           ps  == Without(r.sndBuf, sns)
<1>7. ps = <<>>
  <2>1. r.sndBuf \in Seq(Seg) /\ Sorted(r.sndBuf)
    BY <1>2 DEF End, Sorted
  <2> QED BY <1>2, <2>1, WithoutSorted
<1>8. d = [wnd |-> WndUnused(r), una |-> r.rcvNxt, acks |-> r.acks,
           ask |-> Asks(r, due), tell |-> r.tell, pushes |-> ps]
  BY <1>3 DEF Output
<1> HIDE DEF ps, sns
<1>9. d \in Datagram /\ d.pushes = <<>> /\ d.una = r.rcvNxt /\ d.acks = r.acks
  <2>1. r.rcvNxt \in Num /\ r.acks \in SUBSET Num /\ r.tell \in BOOLEAN
        /\ r.rcvQueue \in Seq(Piece)
    BY <1>2 DEF End
  <2>2. WndUnused(r) \in 0..Wnd
    <3>1. Len(r.rcvQueue) \in Nat /\ Wnd \in Nat
      BY <2>1, Words
    <3> QED BY <3>1 DEF WndUnused
  <2>3. Asks(r, due) \in BOOLEAN
    BY DEF Asks
  <2>4. ps \in Seq(Seg)
    BY <1>7
  <2> QED BY <1>7, <1>8, <2>1, <2>2, <2>3, <2>4 DEF Datagram
<1>10. Told(d, k, N)
  <2>1. {x \in Num : At(x) < At(d.una)} \subseteq Came(r)
    BY <1>9 DEF Came
  <2> QED BY <1>2, <1>5, <1>9, <2>1 DEF Told
<1>11. \A x \in toS : x \in Datagram /\ Told(x, k, N)
  BY <1>5 DEF Joined, Told
<1>12. Covered(s, k)
  BY <1>1, <1>5 DEF Covered
<1> QED BY <1>6, <1>9, <1>10, <1>11, <1>12 DEF Joined

\* A datagram comes to the sender.
LEMMA DeliverSenderKeeps ==
  ASSUME NEW s, NEW r, NEW toR, NEW toS, NEW S, NEW G, NEW F, NEW b,
         Joined(s, r, toR, toS, S, G, F, b), NEW d \in toS
  PROVE  Joined(Input(s, d), r, toR, toS, S, G, F, b)
<1> DEFINE N == At(s.sndNxt)
           k == Input(s, d)
<1>1. F \in Seq(Piece) /\ Len(F) <= MaxSegments /\ SendInv(s, F) /\ Covered(s, r)
  BY DEF Joined
<1>2. d \in Datagram /\ Told(d, r, N) /\ d.pushes = <<>> /\ At(d.una) <= N
  BY DEF Joined, Told
<1>3. /\ SendInv(k, F) /\ k.sndNxt = s.sndNxt
      /\ \A x \in Sns(s.sndBuf) : x \in Sns(k.sndBuf) \/ At(x) < At(d.una) \/ x \in d.acks
  BY <1>1, <1>2, InputSender
<1> HIDE DEF k
<1>4. Covered(k, r)
  <2> SUFFICES ASSUME NEW x \in Num, At(x) < N, x \notin Came(r)
               PROVE  x \in Sns(k.sndBuf)
    BY <1>3 DEF Covered
  <2>1. x \in Sns(s.sndBuf)
    BY <1>1 DEF Covered
  <2>2. ~(At(x) < At(d.una)) /\ x \notin d.acks
    BY <1>2 DEF Told
  <2> QED BY <1>3, <2>1, <2>2
<1>5. Joined(k, r, toR, toS, S, G, F, b)
  BY <1>3, <1>4 DEF Joined
<1> QED BY <1>5 DEF k

\* And to the receiver.
LEMMA DeliverReceiverKeeps ==
  ASSUME NEW s, NEW r, NEW toR, NEW toS, NEW S, NEW G, NEW F, NEW b,
         Joined(s, r, toR, toS, S, G, F, b), NEW d \in toR
  PROVE  Joined(s, Input(r, d), toR, toS, S, G, F, b)
<1> DEFINE N == At(s.sndNxt)
           k == Input(r, d)
<1>1. History(F, N, b[Len(G)])
  BY JoinedNum
<1>2. RecvInv(r, F, N, b[Len(G)]) /\ Covered(s, r) /\ d \in Datagram /\ Carries(d, F, N)
  BY DEF Joined
<1>3. RecvInv(k, F, N, b[Len(G)]) /\ Came(r) \subseteq Came(k)
  BY <1>1, <1>2, InputReceiver DEF Carries
<1> HIDE DEF k
<1>4. Covered(s, k)
  BY <1>2, <1>3 DEF Covered
<1>5. \A x \in toS : x \in Datagram /\ Told(x, k, N)
  BY <1>3 DEF Joined, Told
<1>6. Joined(s, k, toR, toS, S, G, F, b)
  BY <1>3, <1>4, <1>5 DEF Joined
<1> QED BY <1>6 DEF k

-----------------------------------------------------------------------------
(* The inductive invariant, and what follows from it.                      *)

KcpInv ==
  /\ kcpcb \in [Ends -> End] /\ net \in [Ends -> SUBSET Datagram]
  /\ \E F, b : Joined(kcpcb[Sender], kcpcb[Receiver], net[Receiver], net[Sender],
                      sent, got, F, b)

\* Neighbours in a sorted list are in the order of _itimediff.
LEMMA SortedDiff ==
  ASSUME NEW b \in Seq(Seg), Sorted(b), \A i \in 1..Len(b) : At(b[i].sn) < MaxSegments
  PROVE  \A i \in 1..Len(b) - 1 : Diff(b[i + 1].sn, b[i].sn) > 0
<1> SUFFICES ASSUME NEW i \in 1..Len(b) - 1 PROVE Diff(b[i + 1].sn, b[i].sn) > 0
  OBVIOUS
<1>1. i \in 1..Len(b) /\ i + 1 \in 1..Len(b) /\ i < i + 1
  OBVIOUS
<1> DEFINE x == b[i + 1].sn
           y == b[i].sn
<1>2. x \in Num /\ y \in Num /\ At(y) < At(x) /\ At(x) < MaxSegments
  <2>1. b[i] \in Seg /\ b[i + 1] \in Seg
    BY <1>1
  <2> QED BY <1>1, <2>1 DEF Sorted, Seg
<1> HIDE DEF x, y
<1>3. At(x) \in Nat /\ At(y) \in Nat
  BY <1>2, AtIs DEF Num
<1>4. 2 * (At(x) - At(y)) < Word /\ 2 * (At(y) - At(x)) <= Word
  BY <1>2, <1>3, Words
<1>5. Diff(x, y) = At(x) - At(y)
  BY <1>2, <1>4, DiffAt
<1>6. Diff(x, y) > 0
  BY <1>2, <1>3, <1>5
<1> QED BY <1>6 DEF x, y

\* The sender is at most two windows ahead: what it has dropped has come, and
\* the receiver holds nothing beyond its own window.
LEMMA JoinedFits ==
  ASSUME NEW s, NEW r, NEW toR, NEW toS, NEW S, NEW G, NEW F, NEW b,
         Joined(s, r, toR, toS, S, G, F, b)
  PROVE  LET ahead == Diff(s.sndNxt, r.rcvNxt)
         IN  /\ Diff(s.sndNxt, s.sndUna) \in 0..Wnd
             /\ ahead \in 0..2 * Wnd
             /\ \A i \in 0..ahead - 1 :
                  (r.rcvNxt + i) % Word \in Sns(s.sndBuf) \cup Sns(r.rcvBuf)
             /\ \A i \in 1..Len(s.sndBuf) - 1 : Diff(s.sndBuf[i + 1].sn, s.sndBuf[i].sn) > 0
             /\ \A i \in 1..Len(r.rcvBuf) - 1 : Diff(r.rcvBuf[i + 1].sn, r.rcvBuf[i].sn) > 0
             /\ \A n \in Sns(r.rcvBuf) : Diff(n, r.rcvNxt) \in 0..Wnd - 1
<1> DEFINE N == At(s.sndNxt)
           U == At(s.sndUna)
           R == At(r.rcvNxt)
           p == s.sndBuf
           q == r.rcvBuf
<1>1. /\ Len(F) \in Nat /\ Len(F) <= MaxSegments /\ N + Len(s.sndQueue) = Len(F)
      /\ Len(s.sndQueue) \in Nat /\ N \in Nat
      /\ SendInv(s, F) /\ RecvInv(r, F, N, b[Len(G)]) /\ Covered(s, r)
  BY JoinedNum DEF Joined
<1>2. /\ s.sndNxt \in Num /\ s.sndUna \in Num /\ r.rcvNxt \in Num
      /\ p \in Seq(Seg) /\ q \in Seq(Seg)
  BY <1>1 DEF SendInv, RecvInv, End
<1>3. /\ Sorted(p) /\ Sorted(q) /\ N <= U + Wnd /\ R <= N /\ s.sndUna = Una(s)
  BY <1>1 DEF SendInv, RecvInv
<1>4. /\ U \in Nat /\ R \in Nat /\ N \in Nat /\ N <= MaxSegments
      /\ Wnd \in Nat \ {0} /\ MaxSegments \in Nat \ {0} /\ Word \in Nat
      /\ 2 * (MaxSegments + Wnd) <= Word
  <2>1. U \in Num /\ R \in Num
    BY <1>2, AtIs
  <2>2. U \in Nat /\ R \in Nat
    BY <2>1 DEF Num
  <2>3. N \in Nat /\ N <= MaxSegments
    BY <1>1, Words
  <2> QED BY <2>2, <2>3, Words
<1>5. \A i \in 1..Len(p) : p[i].sn \in Num /\ At(p[i].sn) < N /\ At(p[i].sn) \in Nat
  <2> SUFFICES ASSUME NEW i \in 1..Len(p)
               PROVE  p[i].sn \in Num /\ At(p[i].sn) < N /\ At(p[i].sn) \in Nat
    OBVIOUS
  <2>1. p[i] \in Seg
    BY <1>2
  <2>2. Genuine(p[i], F, N)
    BY <1>1 DEF SendInv
  <2> QED BY <2>1, <2>2, AtIs DEF Seg, Genuine, Num
<1>6. \A i \in 1..Len(q) : /\ q[i].sn \in Num /\ At(q[i].sn) < N /\ At(q[i].sn) \in Nat
                           /\ At(q[i].sn) >= R /\ At(q[i].sn) < R + Wnd
  <2> SUFFICES ASSUME NEW i \in 1..Len(q)
               PROVE  /\ q[i].sn \in Num /\ At(q[i].sn) < N /\ At(q[i].sn) \in Nat
                      /\ At(q[i].sn) >= R /\ At(q[i].sn) < R + Wnd
    OBVIOUS
  <2>1. q[i] \in Seg
    BY <1>2
  <2>2. Genuine(q[i], F, N) /\ At(q[i].sn) >= R /\ At(q[i].sn) < R + Wnd
    BY <1>1 DEF RecvInv
  <2> QED BY <2>1, <2>2, AtIs DEF Seg, Genuine, Num
<1>7. \/ p = <<>> /\ s.sndUna = s.sndNxt
      \/ 1 \in 1..Len(p) /\ s.sndUna = p[1].sn
  <2>1. CASE p = <<>>
    BY <1>3, <2>1 DEF Una
  <2>2. CASE p # <<>>
    <3>1. 1 \in 1..Len(p) /\ Head(p) = p[1]
      BY <1>2, <2>2
    <3> QED BY <1>3, <2>2, <3>1 DEF Una
  <2> QED BY <2>1, <2>2
<1>8. \A x \in Num : At(x) < N => At(x) < R \/ x \in Sns(q) \/ x \in Sns(p)
  BY <1>1 DEF Covered, Came
<1> HIDE DEF N, U, R, p, q
<1>9. U <= N
  <2>1. CASE p = <<>> /\ s.sndUna = s.sndNxt
    <3>1. U = N
      BY <2>1 DEF U, N
    <3> QED BY <1>4, <3>1
  <2>2. CASE 1 \in 1..Len(p) /\ s.sndUna = p[1].sn
    <3>1. U < N
      BY <1>5, <2>2 DEF U
    <3> QED BY <1>4, <3>1
  <2> QED BY <1>7, <2>1, <2>2
<1>10. \A x \in Sns(p) : U <= At(x)
  <2> SUFFICES ASSUME NEW i \in 1..Len(p) PROVE U <= At(p[i].sn)
    BY DEF Sns
  <2>1. 1 \in 1..Len(p) /\ U = At(p[1].sn) /\ At(p[i].sn) \in Nat
    BY <1>5, <1>7 DEF U
  <2>2. CASE i = 1
    BY <1>4, <2>1, <2>2
  <2>3. CASE 1 < i
    <3>1. At(p[1].sn) < At(p[i].sn)
      BY <1>3, <2>1, <2>3 DEF Sorted
    <3> QED BY <1>4, <2>1, <3>1
  <2> QED BY <2>2, <2>3
<1>11. U <= R + Wnd
  <2> SUFFICES ASSUME U > R + Wnd PROVE FALSE
    BY <1>4
  <2>1. R + Wnd \in Num
    BY <1>4, <1>9 DEF Num
  <2>2. PICK x \in Num : At(x) = R + Wnd
    BY <2>1, AtBack
  <2>3. At(x) < N /\ ~(At(x) < R) /\ ~(U <= At(x))
    BY <1>1, <1>4, <1>9, <2>2
  <2>4. x \notin Sns(q)
    BY <1>4, <1>6, <2>2 DEF Sns
  <2> QED BY <1>8, <1>10, <2>3, <2>4
<1>12. Diff(s.sndNxt, s.sndUna) = N - U
  <2>1. 2 * (N - U) < Word /\ 2 * (U - N) <= Word
    BY <1>3, <1>4, <1>9
  <2> QED BY <1>2, <2>1, DiffAt DEF N, U
<1>13. Diff(s.sndNxt, r.rcvNxt) = N - R
  <2>1. 2 * (N - R) < Word /\ 2 * (R - N) <= Word
    BY <1>3, <1>4
  <2> QED BY <1>2, <2>1, DiffAt DEF N, R
<1>14. N - U \in 0..Wnd /\ N - R \in 0..2 * Wnd
  BY <1>3, <1>4, <1>9, <1>11
<1>15. ASSUME NEW i \in 0..N - R - 1
       PROVE  (r.rcvNxt + i) % Word \in Sns(p) \cup Sns(q)
  <2>1. i \in Nat /\ R + i < N /\ R + i < Word /\ ~(R + i < R)
    BY <1>4
  <2>2. (r.rcvNxt + i) % Word \in Num /\ At((r.rcvNxt + i) % Word) = R + i
    BY <1>2, <2>1, AtAdd DEF R
  <2> QED BY <1>8, <2>1, <2>2
<1>16. ASSUME NEW n \in Sns(q) PROVE Diff(n, r.rcvNxt) \in 0..Wnd - 1
  <2>1. n \in Num /\ At(n) \in Nat /\ At(n) < N /\ At(n) >= R /\ At(n) < R + Wnd
    BY <1>6 DEF Sns
  <2>2. 2 * (At(n) - R) < Word /\ 2 * (R - At(n)) <= Word
    BY <1>4, <2>1
  <2>3. Diff(n, r.rcvNxt) = At(n) - R
    BY <1>2, <2>1, <2>2, DiffAt DEF R
  <2> QED BY <1>4, <2>1, <2>3
<1>17. /\ \A i \in 1..Len(p) : At(p[i].sn) < MaxSegments
       /\ \A i \in 1..Len(q) : At(q[i].sn) < MaxSegments
  <2> SUFFICES ASSUME NEW a \in Nat, a < N PROVE a < MaxSegments
    BY <1>5, <1>6
  <2> QED BY <1>4
<1>18. /\ \A i \in 1..Len(p) - 1 : Diff(p[i + 1].sn, p[i].sn) > 0
       /\ \A i \in 1..Len(q) - 1 : Diff(q[i + 1].sn, q[i].sn) > 0
  BY <1>2, <1>3, <1>17, SortedDiff
<1> QED BY <1>12, <1>13, <1>14, <1>15, <1>16, <1>18 DEF p, q

LEMMA InvFits == KcpInv => WindowsFit
<1> SUFFICES ASSUME KcpInv PROVE WindowsFit
  OBVIOUS
<1> DEFINE s == kcpcb[Sender]
           r == kcpcb[Receiver]
<1>1. PICK F, b : Joined(s, r, net[Receiver], net[Sender], sent, got, F, b)
  BY DEF KcpInv
<1>2. /\ Other(Sender) = Receiver /\ Other(Receiver) = Sender
      /\ \A e \in Ends : e = Sender \/ e = Receiver
  BY KcpAssumption DEF Ends, Other
<1>3. /\ s.rcvBuf = <<>> /\ s.rcvQueue = <<>> /\ s.rcvNxt = First
      /\ r.sndBuf = <<>> /\ r.sndNxt = First /\ r.sndUna = First /\ Len(r.rcvQueue) <= Wnd
  BY <1>1 DEF Joined, SendInv, RecvInv
<1> DEFINE Fits(k, o) ==
             LET held  == Sns(o.rcvBuf)
                 ahead == Diff(k.sndNxt, o.rcvNxt)
             IN  /\ Diff(k.sndNxt, k.sndUna) \in 0..Wnd
                 /\ ahead \in 0..2 * Wnd
                 /\ \A i \in 0..ahead - 1 : (o.rcvNxt + i) % Word \in Sns(k.sndBuf) \cup held
                 /\ \A c \in {k.sndBuf, k.rcvBuf} :
                      \A i \in 1..Len(c) - 1 : Diff(c[i + 1].sn, c[i].sn) > 0
                 /\ \A n \in held : Diff(n, o.rcvNxt) \in 0..Wnd - 1
                 /\ Len(k.rcvQueue) <= Wnd
<1> HIDE DEF s, r
<1>4. Wnd \in Nat /\ Len(<<>>) = 0 /\ \A i \in 1..Len(<<>>) - 1 : FALSE
  BY Words
<1>5. Diff(First, First) = 0
  <2>1. At(First) = 0 /\ First \in Num /\ Word \in Nat \ {0}
    BY AtFirst, Words
  <2>2. 2 * (At(First) - At(First)) < Word /\ 2 * (At(First) - At(First)) <= Word
    BY <2>1
  <2> QED BY <2>1, <2>2, DiffAt
<1>6. Fits(s, r)
  <2>1. /\ Diff(s.sndNxt, s.sndUna) \in 0..Wnd
        /\ Diff(s.sndNxt, r.rcvNxt) \in 0..2 * Wnd
        /\ \A i \in 0..Diff(s.sndNxt, r.rcvNxt) - 1 :
             (r.rcvNxt + i) % Word \in Sns(s.sndBuf) \cup Sns(r.rcvBuf)
        /\ \A n \in Sns(r.rcvBuf) : Diff(n, r.rcvNxt) \in 0..Wnd - 1
    BY <1>1, JoinedFits
  <2>2. \A i \in 1..Len(s.sndBuf) - 1 : Diff(s.sndBuf[i + 1].sn, s.sndBuf[i].sn) > 0
    BY <1>1, JoinedFits
  <2>3. \A c \in {s.sndBuf, s.rcvBuf} :
          \A i \in 1..Len(c) - 1 : Diff(c[i + 1].sn, c[i].sn) > 0
    BY <1>3, <1>4, <2>2
  <2>4. Len(s.rcvQueue) <= Wnd
    BY <1>3, <1>4
  <2> QED BY <2>1, <2>3, <2>4
<1>7. Fits(r, s)
  <2>1. Sns(s.rcvBuf) = {}
    BY <1>3 DEF Sns
  <2>2. \A i \in 1..Len(r.rcvBuf) - 1 : Diff(r.rcvBuf[i + 1].sn, r.rcvBuf[i].sn) > 0
    BY <1>1, JoinedFits
  <2>3. \A c \in {r.sndBuf, r.rcvBuf} :
          \A i \in 1..Len(c) - 1 : Diff(c[i + 1].sn, c[i].sn) > 0
    BY <1>3, <1>4, <2>2
  <2> QED BY <1>3, <1>4, <1>5, <2>1, <2>3
<1> HIDE DEF Fits
<1>8. \A e \in Ends : Fits(kcpcb[e], kcpcb[Other(e)])
  BY <1>2, <1>6, <1>7 DEF s, r
<1> QED BY <1>8 DEF WindowsFit, Unacked, Fits

LEMMA KcpInitInv == KcpInit => KcpInv
<1> SUFFICES ASSUME KcpInit PROVE KcpInv
  OBVIOUS
<1>1. kcpcb = [e \in Ends |-> Create] /\ net = [e \in Ends |-> {}] /\ sent = <<>> /\ got = <<>>
  BY DEF KcpInit
<1>2. Create \in End
  <2>1. First \in Num /\ Wnd \in 0..Wnd /\ <<>> \in Seq(Piece) /\ <<>> \in Seq(Seg)
    BY Words
  <2> QED BY <2>1 DEF Create, End
<1>3. At(First) = 0 /\ Wnd \in Nat /\ MaxSegments \in Nat
  BY AtFirst, Words
<1> DEFINE c == Create
           F == <<>>
           b == [m \in 0..0 |-> 0]
<1>4. /\ c.sndQueue = <<>> /\ c.sndBuf = <<>> /\ c.sndUna = First /\ c.sndNxt = First
      /\ c.acks = {} /\ c.rcvNxt = First /\ c.rcvBuf = <<>> /\ c.rcvQueue = <<>>
  BY DEF Create
<1> HIDE DEF c
<1>5. /\ F \in Seq(Piece) /\ Len(F) = 0 /\ F \in Seq(Messages) /\ F \in Seq(Seg)
      /\ b \in [0..0 -> 0..0] /\ b[0] = 0
  OBVIOUS
<1> HIDE DEF F, b
<1>6. Laid(F, F, b)
  <2>1. \A m \in 1..Len(F) : FALSE
    BY <1>5
  <2> QED BY <1>5, <2>1 DEF Laid
<1>7. Out(F, F)
  BY <1>5 DEF Out
<1>8. /\ c.sndQueue = F /\ c.sndBuf = F /\ c.rcvBuf = F /\ c.rcvQueue = F
  BY <1>4 DEF F
<1>9. SendInv(c, F)
  <2>1. \A i \in 1..Len(F) : FALSE
    BY <1>5
  <2>2. Una(c) = First
    BY <1>4 DEF Una
  <2>3. Sorted(F)
    BY <2>1 DEF Sorted
  <2> QED BY <1>2, <1>3, <1>4, <1>5, <1>8, <2>1, <2>2, <2>3 DEF SendInv, c
<1>10. RecvInv(c, F, At(c.sndNxt), b[Len(F)])
  <2>1. \A i \in 1..Len(F) : FALSE
    BY <1>5
  <2>2. Sorted(F)
    BY <2>1 DEF Sorted
  <2> QED BY <1>2, <1>3, <1>4, <1>5, <1>8, <2>1, <2>2 DEF RecvInv, c
<1>11. Covered(c, c)
  <2> SUFFICES ASSUME NEW x \in Num, At(x) < At(c.sndNxt) PROVE FALSE
    BY DEF Covered
  <2>1. At(x) \in Nat
    BY AtIs DEF Num
  <2> QED BY <1>3, <1>4, <2>1
<1>12. Joined(c, c, {}, {}, F, F, F, b)
  BY <1>3, <1>5, <1>6, <1>7, <1>9, <1>10, <1>11 DEF Joined
<1>13. /\ kcpcb[Sender] = c /\ kcpcb[Receiver] = c /\ net[Receiver] = {} /\ net[Sender] = {}
       /\ sent = F /\ got = F
  BY <1>1 DEF Ends, c, F
<1>14. kcpcb \in [Ends -> End] /\ net \in [Ends -> SUBSET Datagram]
  BY <1>1, <1>2
<1> QED BY <1>12, <1>13, <1>14 DEF KcpInv

\* What a step of the connection is to show.
Steps == KcpInv' /\ [Abstract!Next]_<<sent, got>>

LEMMA SendStep == KcpInv /\ Send => Steps
<1> SUFFICES ASSUME KcpInv, Send PROVE Steps
  OBVIOUS
<1> DEFINE s == kcpcb[Sender]
           r == kcpcb[Receiver]
<1>1. PICK F, b : Joined(s, r, net[Receiver], net[Sender], sent, got, F, b)
  BY DEF KcpInv
<1>2. PICK l \in 1..MaxFrags :
        /\ At(s.sndNxt) + Len(s.sndQueue) + l <= MaxSegments
        /\ kcpcb' = [kcpcb EXCEPT ![Sender] = Queued(s, Fragments(Len(sent) + 1, l))]
        /\ sent' = Append(sent, Fragments(Len(sent) + 1, l))
  BY DEF Send
<1>3. Len(sent) < MaxMessages /\ net' = net /\ got' = got
  BY DEF Send
<1> DEFINE m == Fragments(Len(sent) + 1, l)
<1>4. Len(sent) \in Nat /\ MaxMessages \in Nat /\ MaxFrags \in Nat
  <2>1. Len(sent) \in Nat
    BY <1>1, JoinedNum
  <2> QED BY <2>1, KcpAssumption
<1>5. Len(sent) + 1 \in 1..MaxMessages /\ l \in Nat \ {0} /\ l <= MaxFrags
  BY <1>3, <1>4
<1>6. m \in Messages /\ m \in [1..l -> Data]
  <2> DEFINE n == Len(sent) + 1
  <2> HIDE DEF n
  <2>1. n \in 1..MaxMessages
    BY <1>5 DEF n
  <2>2. m = Fragments(n, l)
    BY DEF n
  <2>3. Fragments(n, l) \in Messages
    BY <2>1 DEF Messages
  <2>4. \A i \in 1..l : i \in 1..MaxFrags
    BY <1>4, <1>5
  <2>5. \A i \in 1..l : [n |-> n, i |-> i] \in Data
    BY <2>1, <2>4 DEF Data
  <2>6. Fragments(n, l) \in [1..l -> Data]
    BY <2>5 DEF Fragments
  <2> QED BY <2>2, <2>3, <2>6
<1> HIDE DEF m
<1>7. kcpcb' = [kcpcb EXCEPT ![Sender] = Queued(s, m)] /\ sent' = Append(sent, m)
  BY <1>2 DEF m
<1> HIDE DEF s, r
<1>8. PICK F2, b2 : Joined(Queued(s, m), r, net[Receiver], net[Sender], Append(sent, m), got, F2, b2)
  BY <1>1, <1>2, <1>5, <1>6, SendKeeps
<1>9. kcpcb \in [Ends -> End] /\ net \in [Ends -> SUBSET Datagram] /\ Sender \in Ends
      /\ Receiver \in Ends /\ Sender # Receiver
  BY KcpAssumption DEF KcpInv, Ends
<1>10. Queued(s, m) \in End
  BY <1>8 DEF Joined, SendInv
<1>11. /\ kcpcb'[Sender] = Queued(s, m) /\ kcpcb'[Receiver] = r /\ kcpcb' \in [Ends -> End]
  BY <1>7, <1>9, <1>10 DEF r
<1>12. KcpInv'
  BY <1>3, <1>7, <1>8, <1>9, <1>11 DEF KcpInv
<1>13. Abstract!Put
  BY <1>3, <1>6, <1>7 DEF Abstract!Put
<1> QED BY <1>12, <1>13 DEF Steps, Abstract!Next

LEMMA RecvStep == KcpInv /\ Recv => Steps
<1> SUFFICES ASSUME KcpInv, Recv PROVE Steps
  OBVIOUS
<1> DEFINE s == kcpcb[Sender]
           r == kcpcb[Receiver]
           m == [i \in 1..HeadLength(r) |-> r.rcvQueue[i].data]
<1>1. PICK F, b : Joined(s, r, net[Receiver], net[Sender], sent, got, F, b)
  BY DEF KcpInv
<1>2. /\ Whole(r) /\ got' = Append(got, m) /\ net' = net /\ sent' = sent
      /\ kcpcb' = [kcpcb EXCEPT ![Receiver] = Received(r)]
  BY DEF Recv
<1> HIDE DEF s, r
<1>3. /\ Len(got) < Len(sent) /\ m = sent[Len(got) + 1]
      /\ Joined(s, Received(r), net[Receiver], net[Sender], sent, Append(got, m), F, b)
  BY <1>1, <1>2, RecvKeeps
<1> HIDE DEF m
<1>4. kcpcb \in [Ends -> End] /\ net \in [Ends -> SUBSET Datagram] /\ Sender \in Ends
      /\ Receiver \in Ends /\ Sender # Receiver
  BY KcpAssumption DEF KcpInv, Ends
<1>5. Received(r) \in End
  BY <1>3 DEF Joined, RecvInv
<1>6. /\ kcpcb'[Receiver] = Received(r) /\ kcpcb'[Sender] = s /\ kcpcb' \in [Ends -> End]
  BY <1>2, <1>4, <1>5 DEF s
<1>7. KcpInv'
  BY <1>2, <1>3, <1>4, <1>6 DEF KcpInv
<1>8. Abstract!Take
  BY <1>2, <1>3 DEF Abstract!Take
<1> QED BY <1>7, <1>8 DEF Steps, Abstract!Next

\* What a step of one end leaves to show when it takes nothing in or out.
LEMMA StepOf ==
  ASSUME KcpInv, NEW s, NEW r, NEW F, NEW b, NEW toR, NEW toS,
         Joined(s, r, toR, toS, sent, got, F, b),
         kcpcb' \in [Ends -> End], kcpcb'[Sender] = s, kcpcb'[Receiver] = r,
         net' \in [Ends -> SUBSET Datagram],
         net'[Receiver] \subseteq toR, net'[Sender] \subseteq toS,
         sent' = sent, got' = got
  PROVE  Steps
<1>1. Joined(s, r, net'[Receiver], net'[Sender], sent', got', F, b)
  BY FewerKeeps
<1>2. KcpInv'
  BY <1>1 DEF KcpInv
<1> QED BY <1>2 DEF Steps

LEMMA FlushStep ==
  ASSUME KcpInv, NEW e \in Ends, NEW again, NEW due \in BOOLEAN, Flush(e, again, due)
  PROVE  Steps
<1> DEFINE s == kcpcb[Sender]
           r == kcpcb[Receiver]
           f == FillBuf(kcpcb[e])
           d == Output(kcpcb[e], f, again, due)
           k == [f EXCEPT !.acks = {}, !.tell = FALSE, !.probing = (f.rmtWnd = 0)]
<1>1. PICK F, b : Joined(s, r, net[Receiver], net[Sender], sent, got, F, b)
  BY DEF KcpInv
<1>2. /\ net' = IF Empty(d) THEN net ELSE [net EXCEPT ![Other(e)] = @ \cup {d}]
      /\ kcpcb' = [kcpcb EXCEPT ![e] = k] /\ sent' = sent /\ got' = got
  BY DEF Flush
<1>3. /\ kcpcb \in [Ends -> End] /\ net \in [Ends -> SUBSET Datagram] /\ Sender \in Ends
      /\ Receiver \in Ends /\ Sender # Receiver /\ (e = Sender \/ e = Receiver)
      /\ Other(Sender) = Receiver /\ Other(Receiver) = Sender
  BY KcpAssumption DEF KcpInv, Ends, Other
<1>4. CASE e = Sender
  <2>1. Joined(k, r, net[Receiver] \cup {d}, net[Sender], sent, got, F, b)
    <3> HIDE DEF r
    <3> QED BY <1>1, <1>4, FlushSenderKeeps
  <2> HIDE DEF k, d
  <2>2. k \in End /\ d \in Datagram
    BY <2>1 DEF Joined, SendInv
  <2>3. /\ kcpcb'[Sender] = k /\ kcpcb'[Receiver] = r /\ kcpcb' \in [Ends -> End]
    BY <1>2, <1>3, <1>4, <2>2
  <2>4. /\ net' \in [Ends -> SUBSET Datagram]
        /\ net'[Receiver] \subseteq net[Receiver] \cup {d} /\ net'[Sender] \subseteq net[Sender]
    BY <1>2, <1>3, <1>4, <2>2
  <2> HIDE DEF r
  <2> QED BY <1>2, <2>1, <2>3, <2>4, StepOf
<1>5. CASE e = Receiver
  <2>1. Joined(s, k, net[Receiver], net[Sender] \cup {d}, sent, got, F, b)
    <3> HIDE DEF s
    <3> QED BY <1>1, <1>5, FlushReceiverKeeps
  <2> HIDE DEF k, d
  <2>2. k \in End /\ d \in Datagram
    BY <2>1 DEF Joined, RecvInv
  <2>3. /\ kcpcb'[Receiver] = k /\ kcpcb'[Sender] = s /\ kcpcb' \in [Ends -> End]
    BY <1>2, <1>3, <1>5, <2>2
  <2>4. /\ net' \in [Ends -> SUBSET Datagram]
        /\ net'[Receiver] \subseteq net[Receiver] /\ net'[Sender] \subseteq net[Sender] \cup {d}
    BY <1>2, <1>3, <1>5, <2>2
  <2> HIDE DEF s
  <2> QED BY <1>2, <2>1, <2>3, <2>4, StepOf
<1> QED BY <1>3, <1>4, <1>5

LEMMA DeliverStep ==
  ASSUME KcpInv, NEW e \in Ends, NEW d \in net[e], Deliver(e, d)
  PROVE  Steps
<1> DEFINE s == kcpcb[Sender]
           r == kcpcb[Receiver]
           k == Input(kcpcb[e], d)
<1>1. PICK F, b : Joined(s, r, net[Receiver], net[Sender], sent, got, F, b)
  BY DEF KcpInv
<1>2. /\ net' = [net EXCEPT ![e] = @ \ {d}] \/ net' = net
      /\ kcpcb' = [kcpcb EXCEPT ![e] = k] /\ sent' = sent /\ got' = got
  BY DEF Deliver
<1>3. /\ kcpcb \in [Ends -> End] /\ net \in [Ends -> SUBSET Datagram] /\ Sender \in Ends
      /\ Receiver \in Ends /\ Sender # Receiver /\ (e = Sender \/ e = Receiver)
  BY KcpAssumption DEF KcpInv, Ends
<1>4. /\ net' \in [Ends -> SUBSET Datagram]
      /\ net'[Receiver] \subseteq net[Receiver] /\ net'[Sender] \subseteq net[Sender]
  BY <1>2, <1>3
<1>5. CASE e = Sender
  <2>1. Joined(k, r, net[Receiver], net[Sender], sent, got, F, b)
    <3> HIDE DEF r
    <3> QED BY <1>1, <1>5, DeliverSenderKeeps
  <2> HIDE DEF k
  <2>2. k \in End
    BY <2>1 DEF Joined, SendInv
  <2>3. /\ kcpcb'[Sender] = k /\ kcpcb'[Receiver] = r /\ kcpcb' \in [Ends -> End]
    BY <1>2, <1>3, <1>5, <2>2
  <2> HIDE DEF r
  <2> QED BY <1>2, <1>4, <2>1, <2>3, StepOf
<1>6. CASE e = Receiver
  <2>1. Joined(s, k, net[Receiver], net[Sender], sent, got, F, b)
    <3> HIDE DEF s
    <3> QED BY <1>1, <1>6, DeliverReceiverKeeps
  <2> HIDE DEF k
  <2>2. k \in End
    BY <2>1 DEF Joined, RecvInv
  <2>3. /\ kcpcb'[Receiver] = k /\ kcpcb'[Sender] = s /\ kcpcb' \in [Ends -> End]
    BY <1>2, <1>3, <1>6, <2>2
  <2> HIDE DEF s
  <2> QED BY <1>2, <1>4, <2>1, <2>3, StepOf
<1> QED BY <1>3, <1>5, <1>6

LEMMA LoseStep ==
  ASSUME KcpInv, NEW e \in Ends, NEW d \in net[e], Lose(e, d)
  PROVE  Steps
<1>1. PICK F, b : Joined(kcpcb[Sender], kcpcb[Receiver], net[Receiver], net[Sender],
                         sent, got, F, b)
  BY DEF KcpInv
<1>2. /\ net' = [net EXCEPT ![e] = @ \ {d}] /\ kcpcb' = kcpcb /\ sent' = sent /\ got' = got
  BY DEF Lose
<1>3. /\ kcpcb \in [Ends -> End] /\ net \in [Ends -> SUBSET Datagram] /\ Sender \in Ends
      /\ Receiver \in Ends
  BY DEF KcpInv, Ends
<1>4. /\ net' \in [Ends -> SUBSET Datagram]
      /\ net'[Receiver] \subseteq net[Receiver] /\ net'[Sender] \subseteq net[Sender]
  BY <1>2, <1>3
<1> QED BY <1>1, <1>2, <1>3, <1>4, StepOf

LEMMA KcpNextSteps == KcpInv /\ [KcpNext]_kcpVars => Steps
<1> SUFFICES ASSUME KcpInv, [KcpNext]_kcpVars PROVE Steps
  OBVIOUS
<1>1. CASE Send
  BY <1>1, SendStep
<1>2. CASE Recv
  BY <1>2, RecvStep
<1>3. ASSUME NEW e \in Ends, NEW again \in SUBSET Unacked(e), NEW due \in BOOLEAN,
             Flush(e, again, due)
      PROVE  Steps
  BY <1>3, FlushStep
<1>4. ASSUME NEW e \in Ends, NEW d \in net[e], Deliver(e, d) \/ Lose(e, d)
      PROVE  Steps
  BY <1>4, DeliverStep, LoseStep
<1>5. CASE UNCHANGED kcpVars
  BY <1>5 DEF KcpInv, kcpVars, Steps
<1> QED BY <1>1, <1>2, <1>3, <1>4, <1>5 DEF KcpNext

LEMMA KcpSafe == KcpSpec => []KcpInv
<1>1. KcpInv /\ [KcpNext]_kcpVars => KcpInv'
  BY KcpNextSteps DEF Steps
<1> QED BY KcpInitInv, <1>1, PTL DEF KcpSpec

\* WindowsFit holds of every connection, whatever the sizes of the window and
\* of the word, the number of the first segment and the number of datagrams
\* that are lost, doubled and overtaken.
THEOREM Windows == KcpSpec => []WindowsFit
BY KcpSafe, InvFits, PTL

\* A connection is a Stream, as far as safety goes: whole messages come out, in
\* the order they went in and once, whatever the datagrams do (ImplementsStream
\* without its fairness).
THEOREM ConnectionIsStream == KcpSpec => Abstract!Spec
<1>1. KcpInit => Abstract!Init
  BY DEF KcpInit, Abstract!Init
<1>2. KcpInv /\ [KcpNext]_kcpVars => [Abstract!Next]_<<sent, got>>
  BY KcpNextSteps DEF Steps
<1> QED BY KcpSafe, <1>1, <1>2, PTL DEF KcpSpec, Abstract!Spec, Abstract!vars
=============================================================================
