------------------------------- MODULE Client -------------------------------
(***************************************************************************)
(* The connection of a phone (Assets/Script/Network/Client.cs) with what   *)
(* Networkmgr keeps of it: two threads without a lock.                     *)
(*                                                                         *)
(* The main thread runs Networkmgr.Update: client.Update (pc "update": the *)
(* checks, KCP's clock and the heartbeat timer; "recv": the loop over what *)
(* KCP has received), LockUpdate ("lock"), in which the player's buttons   *)
(* and the end of a match connect and disconnect, and the handling of      *)
(* exitCode ("exit").                                                      *)
(*                                                                         *)
(* The receive callbacks run on threads of the pool: every Connect starts  *)
(* a chain of them, each of which asks for the next.  A callback is split  *)
(* where EndReceive returns, for everything after it may come late.        *)
(***************************************************************************)
EXTENDS Integers, Sequences, FiniteSets

CONSTANTS
  HeartbeatInterval,  \* HEARTBEAT_INTERVAL, in calls of Update
  MaxConnects,        \* bound: connections
  MaxDatagrams,       \* bound: datagrams received over one connection
  MaxErrors           \* bound: receive errors

ASSUME ClientAssumption ==
  /\ HeartbeatInterval \in Nat \ {0}
  /\ MaxConnects \in Nat /\ MaxDatagrams \in Nat /\ MaxErrors \in Nat

VARIABLES
  pc,             \* where the main thread is
  connected,      \* Connected; the socket is open
  conn,           \* connections so far: the number of this.udp and this.kcp
  willDisconnect, \* willDisconnect
  heartbeat,      \* heartbeat
  timer,          \* heartbeatTimer: calls since Enter, or Stopped
  kcp,            \* messages in this.kcp, received and not yet dispatched
  chain,          \* [connections -> their receive callback]
  datagrams,      \* datagrams received over this connection
  streamed,       \* messages the server has sent over this connection
  online,         \* Networkmgr's online
  exitCode,       \* Networkmgr's exitCode
  ends,           \* Disconnect events raised (history)
  errors,         \* receive errors (history)
  errorEnds,      \* connections ended by willDisconnect (history)
  silence,        \* Updates of this connection since something was received,
                  \* at most HeartbeatInterval (history)
  lateStart       \* the last Start was dispatched after its end (history)

netVars   == <<connected, conn, willDisconnect, heartbeat, timer, kcp>>
wireVars  == <<chain, datagrams, streamed>>
history   == <<ends, errors, errorEnds, silence, lateStart>>
vars      == <<pc, netVars, wireVars, online, exitCode, history>>

Stopped     == -1
Connections == 1..MaxConnects

\* What the server's stream holds: the answer to Connect, which may be that
\* the server is full or the version is old, Start, and PlayData.
Message == {"connect", "refused", "start", "play"}

\* A datagram may bring no message at all: an acknowledgement.
Chain == [at : {"none", "waiting"}]
           \cup [at : {"data", "input"}, got : Message \cup {"nothing"},
                 from : Connections]
           \cup [at : {"error"}]

TypeOK ==
  /\ pc \in {"update", "recv", "lock", "exit"}
  /\ connected \in BOOLEAN
  /\ conn \in 0..MaxConnects
  /\ willDisconnect \in BOOLEAN
  /\ heartbeat \in BOOLEAN
  /\ timer \in {Stopped} \cup 0..(HeartbeatInterval - 1)
  /\ kcp \in Seq(Message)
  /\ chain \in [Connections -> Chain]
  /\ datagrams \in 0..MaxDatagrams
  /\ streamed \in 0..MaxDatagrams
  /\ online \in BOOLEAN
  /\ exitCode \in {"none", "normal", "refused"}
  /\ ends \in 0..MaxConnects
  /\ errors \in 0..MaxErrors
  /\ errorEnds \in 0..MaxErrors
  /\ silence \in 0..HeartbeatInterval
  /\ lateStart \in BOOLEAN

Init ==
  /\ pc = "update"
  /\ connected = FALSE
  /\ conn = 0
  /\ willDisconnect = FALSE
  /\ heartbeat = TRUE
  /\ timer = Stopped
  /\ kcp = <<>>
  /\ chain = [g \in Connections |-> [at |-> "none"]]
  /\ datagrams = 0
  /\ streamed = 0
  /\ online = FALSE
  /\ exitCode = "none"
  /\ ends = 0
  /\ errors = 0
  /\ errorEnds = 0
  /\ silence = 0
  /\ lateStart = FALSE

-----------------------------------------------------------------------------
\* Faulty form of Disconnect: the event is not raised.
DisconnectSilently(code) ==
  IF connected
    THEN /\ timer' = Stopped
         /\ connected' = FALSE
         /\ chain' = [g \in Connections |->
                        IF chain[g].at = "waiting" THEN [at |-> "none"] ELSE chain[g]]
         /\ ends' = ends + 1
         /\ UNCHANGED exitCode
    ELSE UNCHANGED <<timer, connected, chain, exitCode, ends>>

\* Client.Disconnect and Networkmgr.OnDisconnect, which it calls.  The chain
\* that waits on the closed socket ends with ObjectDisposedException.
Disconnect(code) ==
  IF connected
    THEN /\ timer' = Stopped
         /\ connected' = FALSE
         /\ chain' = [g \in Connections |->
                        IF chain[g].at = "waiting" THEN [at |-> "none"] ELSE chain[g]]
         /\ exitCode' = code
         /\ ends' = ends + 1
    ELSE UNCHANGED <<timer, connected, chain, exitCode, ends>>

\* Client.Connect, unless connected.
Connect ==
  /\ conn < MaxConnects
  /\ connected' = TRUE
  /\ conn' = conn + 1
  /\ kcp' = <<>>
  /\ chain' = [chain EXCEPT ![conn + 1] = [at |-> "waiting"]]
  /\ datagrams' = 0
  /\ streamed' = 0
  /\ silence' = 0
  /\ UNCHANGED <<willDisconnect, heartbeat, timer, online, exitCode, ends,
                 errors, errorEnds, lateStart>>

-----------------------------------------------------------------------------
UpdateIdle ==
  /\ pc = "update"
  /\ ~connected
  /\ pc' = "lock"
  /\ UNCHANGED <<netVars, wireVars, online, exitCode, history>>

\* Faulty form of UpdateError: willDisconnect stays set.
ErrorStays ==
  /\ pc = "update"
  /\ connected
  /\ willDisconnect
  /\ Disconnect("normal")
  /\ errorEnds' = errorEnds + 1
  /\ pc' = "lock"
  /\ UNCHANGED <<conn, willDisconnect, heartbeat, kcp, datagrams, streamed,
                 online, errors, silence, lateStart>>

UpdateError ==
  /\ pc = "update"
  /\ connected
  /\ willDisconnect
  /\ Disconnect("normal")
  /\ willDisconnect' = FALSE
  /\ errorEnds' = errorEnds + 1
  /\ pc' = "lock"
  /\ UNCHANGED <<conn, heartbeat, kcp, datagrams, streamed, online, errors,
                 silence, lateStart>>

Silent == IF silence < HeartbeatInterval THEN silence + 1 ELSE silence

\* kcp.Update sends, and SendWrap disconnects if that fails.  The next
\* BeginSend of the same flush, on a closed socket, throws what nobody
\* catches: then this Networkmgr.Update is over.
UpdateSendFails ==
  /\ pc = "update"
  /\ connected
  /\ ~willDisconnect
  /\ Disconnect("normal")
  /\ silence' = Silent
  /\ pc' \in {"recv", "update"}
  /\ UNCHANGED <<conn, willDisconnect, heartbeat, kcp, datagrams, streamed,
                 online, errors, errorEnds, lateStart>>

UpdateRunning ==
  /\ pc = "update"
  /\ connected
  /\ ~willDisconnect
  /\ timer < HeartbeatInterval - 1
  /\ timer' = IF timer = Stopped THEN Stopped ELSE timer + 1
  /\ silence' = Silent
  /\ pc' = "recv"
  /\ UNCHANGED <<connected, conn, willDisconnect, heartbeat, kcp, wireVars,
                 online, exitCode, ends, errors, errorEnds, lateStart>>

\* Faulty form of HeartbeatTick: the timer is not entered again.
TickOnce ==
  /\ pc = "update"
  /\ connected
  /\ ~willDisconnect
  /\ timer = HeartbeatInterval - 1
  /\ IF heartbeat
       THEN /\ timer' = Stopped
            /\ heartbeat' = FALSE
            /\ UNCHANGED <<connected, chain, exitCode, ends>>
       ELSE /\ Disconnect("normal")
            /\ UNCHANGED heartbeat
  /\ silence' = Silent
  /\ pc' = "recv"
  /\ UNCHANGED <<conn, willDisconnect, kcp, datagrams, streamed, online, errors,
                 errorEnds, lateStart>>

\* heartbeatTimer is over: HeartbeatTick.
HeartbeatTick ==
  /\ pc = "update"
  /\ connected
  /\ ~willDisconnect
  /\ timer = HeartbeatInterval - 1
  /\ IF heartbeat
       THEN /\ timer' = 0
            /\ heartbeat' = FALSE
            /\ UNCHANGED <<connected, chain, exitCode, ends>>
       ELSE /\ Disconnect("normal")
            /\ UNCHANGED heartbeat
  /\ silence' = Silent
  /\ pc' = "recv"
  /\ UNCHANGED <<conn, willDisconnect, kcp, datagrams, streamed, online, errors,
                 errorEnds, lateStart>>

-----------------------------------------------------------------------------
\* The loop over the messages KCP has: it does not look at Connected again.
RecvConnect ==
  /\ pc = "recv"
  /\ kcp # <<>>
  /\ Head(kcp) = "connect"
  /\ kcp' = Tail(kcp)
  /\ timer' = 0
  /\ UNCHANGED <<pc, connected, conn, willDisconnect, heartbeat, wireVars,
                 online, exitCode, history>>

RecvRefused ==
  /\ pc = "recv"
  /\ kcp # <<>>
  /\ Head(kcp) = "refused"
  /\ kcp' = Tail(kcp)
  /\ IF connected
       THEN Disconnect("refused")
       ELSE timer' = 0 /\ UNCHANGED <<connected, chain, exitCode, ends>>
  /\ UNCHANGED <<pc, conn, willDisconnect, heartbeat, datagrams, streamed,
                 online, errors, errorEnds, silence, lateStart>>

RecvStart ==
  /\ pc = "recv"
  /\ kcp # <<>>
  /\ Head(kcp) = "start"
  /\ kcp' = Tail(kcp)
  /\ online' = TRUE
  /\ exitCode' = "none"
  /\ lateStart' = ~connected
  /\ UNCHANGED <<pc, connected, conn, willDisconnect, heartbeat, timer,
                 wireVars, ends, errors, errorEnds, silence>>

RecvPlay ==
  /\ pc = "recv"
  /\ kcp # <<>>
  /\ Head(kcp) = "play"
  /\ kcp' = Tail(kcp)
  /\ UNCHANGED <<pc, connected, conn, willDisconnect, heartbeat, timer,
                 wireVars, online, exitCode, history>>

RecvDone ==
  /\ pc = "recv"
  /\ kcp = <<>>
  /\ pc' = "lock"
  /\ UNCHANGED <<netVars, wireVars, online, exitCode, history>>

-----------------------------------------------------------------------------
\* LockUpdate: nothing, a button or the end of the match.  The button that
\* connects is there only out of a match, and not before the end of an
\* earlier connection has been handled, as a click takes another Update.
After == pc' \in {"update", "exit"}

LockNothing ==
  /\ pc = "lock"
  /\ After
  /\ UNCHANGED <<netVars, wireVars, online, exitCode, history>>

\* Faulty form of LockConnect: Connect does not look at Connected.
ConnectAgain ==
  /\ pc = "lock"
  /\ ~online /\ exitCode = "none"
  /\ Connect
  /\ After

LockConnect ==
  /\ pc = "lock"
  /\ ~connected /\ ~online /\ exitCode = "none"
  /\ Connect
  /\ After

LockDisconnect ==
  /\ pc = "lock"
  /\ connected
  /\ Disconnect("normal")
  /\ After
  /\ UNCHANGED <<conn, willDisconnect, heartbeat, kcp, datagrams, streamed,
                 online, errors, errorEnds, silence, lateStart>>

\* Faulty form of HandleExit: the match is not left.
ExitForgets ==
  /\ pc = "exit"
  /\ exitCode' = "none"
  /\ pc' = "update"
  /\ UNCHANGED <<netVars, wireVars, online, history>>

HandleExit ==
  /\ pc = "exit"
  /\ online' = (online /\ exitCode = "none")
  /\ exitCode' = "none"
  /\ pc' = "update"
  /\ UNCHANGED <<netVars, wireVars, history>>

-----------------------------------------------------------------------------
\* EndReceive returns a datagram to callback g of the open socket.  KCP
\* delivers the server's stream in order: its first message answers Connect.
Arrive(g) ==
  /\ chain[g].at = "waiting"
  /\ datagrams < MaxDatagrams
  /\ datagrams' = datagrams + 1
  /\ \/ /\ chain' = [chain EXCEPT ![g] = [at |-> "data", got |-> "nothing", from |-> conn]]
        /\ UNCHANGED streamed
     \/ /\ streamed' = streamed + 1
        /\ \E m \in IF streamed = 0 THEN {"connect", "refused"}
                    ELSE IF streamed = 1 THEN {"start"} ELSE {"play"} :
              chain' = [chain EXCEPT ![g] = [at |-> "data", got |-> m, from |-> conn]]
  /\ UNCHANGED <<pc, netVars, online, exitCode, history>>

\* EndReceive throws a SocketException, of which the phone has no more.
ArriveError(g) ==
  /\ chain[g].at = "waiting"
  /\ errors < MaxErrors
  /\ errors' = errors + 1
  /\ chain' = [chain EXCEPT ![g] = [at |-> "error"]]
  /\ UNCHANGED <<pc, netVars, datagrams, streamed, online, exitCode, ends,
                 errorEnds, silence, lateStart>>

\* Faulty form of ReceiveCallback: the flag is not set.
CallbackNoBeat(g) ==
  /\ chain[g].at = "data"
  /\ silence' = 0
  /\ chain' = [chain EXCEPT ![g].at = "input"]
  /\ UNCHANGED <<pc, connected, conn, willDisconnect, heartbeat, timer, kcp,
                 datagrams, streamed, online, exitCode, ends, errors, errorEnds,
                 lateStart>>

\* The rest of the callback: first its flag, then kcp.Input and the next
\* BeginReceive, with this.kcp and this.udp as they are now: a later
\* connection's KCP may take the message of an earlier one or not.
ReceiveCallback(g) ==
  /\ chain[g].at = "data"
  /\ heartbeat' = TRUE
  /\ silence' = 0
  /\ chain' = [chain EXCEPT ![g].at = "input"]
  /\ UNCHANGED <<pc, connected, conn, willDisconnect, timer, kcp, datagrams,
                 streamed, online, exitCode, ends, errors, errorEnds, lateStart>>

ReceiveInput(g) ==
  /\ chain[g].at = "input"
  /\ \/ chain[g].got # "nothing" /\ kcp' = Append(kcp, chain[g].got)
     \/ (chain[g].got = "nothing" \/ chain[g].from # conn) /\ UNCHANGED kcp
  /\ chain' = [chain EXCEPT ![g] = [at |-> IF connected THEN "waiting" ELSE "none"]]
  /\ UNCHANGED <<pc, connected, conn, willDisconnect, heartbeat, timer, datagrams,
                 streamed, online, exitCode, history>>

ReceiveError(g) ==
  /\ chain[g].at = "error"
  /\ willDisconnect' = TRUE
  /\ chain' = [chain EXCEPT ![g] = [at |-> "none"]]
  /\ UNCHANGED <<pc, connected, conn, heartbeat, timer, kcp, datagrams, streamed,
                 online, exitCode, history>>

MainStep ==
  \/ UpdateIdle \/ UpdateError \/ UpdateSendFails \/ UpdateRunning \/ HeartbeatTick
  \/ RecvConnect \/ RecvRefused \/ RecvStart \/ RecvPlay \/ RecvDone
  \/ LockNothing \/ LockConnect \/ LockDisconnect \/ HandleExit

Callback ==
  \E g \in Connections :
    Arrive(g) \/ ArriveError(g) \/ ReceiveCallback(g) \/ ReceiveInput(g)
      \/ ReceiveError(g)

Next == MainStep \/ Callback

Spec == Init /\ [][Next]_vars

\* Unity calls Update, and Update's while loop comes to its end.
Fairness ==
  /\ WF_vars(MainStep)
  /\ SF_vars(LockNothing /\ pc' = "exit")

FairSpec == Spec /\ Fairness

-----------------------------------------------------------------------------
\* The end of every connection is reported once, however it comes about: a
\* failed send, a missed heartbeat, a receive error, a refusal, the player.
OneEnd == IF connected THEN conn = ends + 1 ELSE conn = ends

\* A receive error ends at most one connection, its own or, if that one has
\* ended otherwise before Update looked at willDisconnect, a later one.
ErrorEndsOne ==
  LET pending == {g \in Connections : chain[g].at = "error"}
  IN  errorEnds + Cardinality(pending) + (IF willDisconnect THEN 1 ELSE 0) <= errors

\* A phone in a match has a connection, or is about to handle its end, with
\* one exception: Start dispatched by the very Update that disconnected,
\* whose OnStart clears exitCode again.  That phone stands still for good.
OnlineHasEnd == online /\ ~connected => exitCode # "none" \/ lateStart

\* HeartbeatTick ends no connection over which something was received
\* within the last HEARTBEAT_INTERVAL, nor one that is younger, although
\* heartbeat and heartbeatTimer outlive the connection they were set in.
HeartbeatNotHasty ==
  [][pc = "update" /\ timer = HeartbeatInterval - 1 /\ ~heartbeat
       /\ connected /\ ~connected' /\ ~willDisconnect
       => silence' = HeartbeatInterval]_vars

\* A connection that was answered once ends when nothing comes any more.
SilenceEnds == connected /\ timer # Stopped ~> ~connected

\* A phone whose connection has ended leaves the match.
MatchIsLeft == online /\ ~connected ~> ~online \/ lateStart
=============================================================================
