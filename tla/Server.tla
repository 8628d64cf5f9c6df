------------------------------- MODULE Server -------------------------------
(***************************************************************************)
(* The server: gate, queue, lobby and rooms, and the phones that come and  *)
(* go.  How two phones that look for an opponent get a room, and how all   *)
(* of that is undone when one of them leaves.                              *)
(***************************************************************************)
EXTENDS Gate, Queue, Lobby

vars == <<mbox, gateVars, phoneVars, readyFd, lobbyVars>>

Init == SkynetInit /\ GateInit /\ QueueInit /\ LobbyInit

Next ==
  \/ (GateStep \/ PhoneStep) /\ UNCHANGED <<readyFd, lobbyVars>>
  \/ QueueStep /\ UNCHANGED <<gateVars, phoneVars, lobbyVars>>
  \/ LobbyStep /\ UNCHANGED <<gateVars, phoneVars, readyFd>>

Spec == Init /\ [][Next]_vars

\* Every service takes its messages, the gate's loops run, the launcher
\* answers and KCP delivers.  Nothing makes a phone connect, send
\* or leave, and nothing keeps the flag of a phone that has left set.
Fairness ==
  /\ WF_vars(GateCommand /\ UNCHANGED <<readyFd, lobbyVars>>)
  /\ WF_vars(Heartbeat /\ UNCHANGED <<readyFd, lobbyVars>>)
  /\ WF_vars(QueueStep /\ UNCHANGED <<gateVars, phoneVars, lobbyVars>>)
  /\ WF_vars(LobbyStep /\ UNCHANGED <<gateVars, phoneVars, readyFd>>)
  /\ \A f \in Fds :
       /\ WF_vars((RecvHandshake(f) \/ RecvInput(f)) /\ UNCHANGED <<readyFd, lobbyVars>>)
       /\ WF_vars((OnConnect(f) \/ OnStart(f)) /\ UNCHANGED <<readyFd, lobbyVars>>)

FairSpec == Spec /\ Fairness

-----------------------------------------------------------------------------
\* Every variable has its type.
TypeOK == SkynetTypeOK /\ GateTypeOK /\ QueueTypeOK /\ LobbyTypeOK

\* The fd the queue keeps can be matched: it has an agent, or the queue is
\* about to hear that it has none any more, although OnHandshake asked the
\* gate before it went on.
ReadyFdWaits ==
  readyFd # NoFd =>
    agentMap[readyFd].here \/ Pending("queue", Event("OnDisconnect", readyFd))

\* A phone that has shaken hands and waits for an opponent.
Waits(f) == phone[f] = "waiting" /\ Joined(f)

\* A message on its way between the services is about f.
Named(f) ==
  \E s \in Services : \E i \in 1..Len(mbox[s]) :
    LET m == mbox[s][i]
    IN  IF "fd" \in DOMAIN m THEN m.fd = f ELSE \E j \in DOMAIN m.fds : m.fds[j] = f

\* No phone that waits is forgotten: its handshake is on its way to the
\* queue, or the queue keeps it, or it is on its way into a room, or it is
\* about to be kicked.
NoWaiterForgotten ==
  \A f \in Fds : Waits(f) =>
    \/ up[f] # <<>> \/ down[f] # <<>>
    \/ readyFd = f
    \/ Named(f)
    \/ \E r \in 1..Len(rooms) : /\ f \in {rooms[r].fds[1], rooms[r].fds[2]}
                                /\ rooms[r].state \in {"launching", "launched"}

\* The lobby has this room in its map.
Established(r) == roomMap[rooms[r].fds] = r

\* The lobby knows, or will hear, if one of the room's players is gone.
Covered(r) ==
  \A i \in 1..2 : LET f == rooms[r].fds[i]
                  IN  agentMap[f].here \/ Pending("lobby", Event("OnDisconnect", f))

\* A room that the lobby can reach gets Start first, nothing after Exit, and
\* the map never leads to a room that was told to exit.
RoomProtocol ==
  \A r \in 1..Len(rooms) :
    LET inbox == rooms[r].inbox
    IN  /\ rooms[r].state = "launched" /\ inbox # <<>> => Head(inbox) = "Start"
        /\ \A i \in 1..Len(inbox) : inbox[i] = "Exit" => i = Len(inbox)
        /\ Established(r) => /\ rooms[r].state # "gone"
                             /\ \A i \in 1..Len(inbox) : inbox[i] # "Exit"

\* GetRoom leads both players of a room to it, so that their inputs and
\* their disconnects reach it.
RoomFound ==
  \A r \in 1..Len(rooms) : Established(r) =>
    GetRoom(rooms[r].fds[1]) = r /\ GetRoom(rooms[r].fds[2]) = r

-----------------------------------------------------------------------------
\* A room whose players are both there, or are about to be reported gone, is
\* never left behind with a player nobody will report: the only rooms of
\* that kind are those that NewRoom makes of a player who left while it was
\* suspended.
StaysCovered ==
  [][\A r \in 1..Len(rooms) :
       Established(r) /\ Covered(r) /\ Established(r)' => Covered(r)']_vars

-----------------------------------------------------------------------------
\* Rooms that a player has left, whether or not the server knows; rooms that
\* are over, with both players' agents dropped.  An agent that a late copy of
\* Connect made since then (its peer is 0) may be there.
Deserted ==
  {r \in 1..Len(rooms) :
     Established(r) /\ Covered(r) /\ \E i \in 1..2 : phone[rooms[r].fds[i]] = "off"}

Closed ==
  {r \in 1..Len(rooms) :
     rooms[r].state = "gone" /\ \A i \in 1..2 : agentMap[rooms[r].fds[i]].peer = 0}

\* When a player of such a room leaves, the room ends and the gate drops
\* both players.
RoomCloses == \A r \in 1..MaxRooms : r \in Deserted ~> r \in Closed

=============================================================================
