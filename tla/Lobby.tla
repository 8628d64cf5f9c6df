------------------------------- MODULE Lobby -------------------------------
(***************************************************************************)
(* The lobby (Server/src/service/lobby.lua) with the rooms it starts: it   *)
(* forwards what players send to their room and closes the room when the   *)
(* gate reports one of them gone.  NewRoom suspends three times, for two   *)
(* calls to the gate and for the launch of the room service, and the lobby *)
(* goes on with other messages meanwhile.                                  *)
(*                                                                         *)
(* Of a room only its life is kept here, what it does is in Room.  A room  *)
(* is numbered when its launch is asked for.                               *)
(***************************************************************************)
EXTENDS Skynet

CONSTANT MaxRooms    \* bound: rooms launched

ASSUME MaxRoomsAssumption == MaxRooms \in Nat

VARIABLES
  leftFdMap,   \* _leftFdMap: the right fd of a left one
  rightFdMap,  \* _rightFdMap: the left fd of a right one
  roomMap,     \* _roomMap: the room of a pair <<left, right>>, or 0
  rooms        \* the room services so far: [fds, state, inbox]

lobbyVars == <<leftFdMap, rightFdMap, roomMap, rooms>>

Room == [fds : Pairs, state : {"launching", "launched", "up", "gone"},
         inbox : Seq({"Start", "Receive", "Exit"})]

LobbyTypeOK ==
  /\ leftFdMap \in [Fds -> Fds \cup {NoFd}]
  /\ rightFdMap \in [Fds -> Fds \cup {NoFd}]
  /\ roomMap \in [Pairs -> 0..MaxRooms]
  /\ rooms \in Seq(Room)
  /\ Len(rooms) <= MaxRooms

LobbyInit ==
  /\ leftFdMap = [f \in Fds |-> NoFd]
  /\ rightFdMap = [f \in Fds |-> NoFd]
  /\ roomMap = [pr \in Pairs |-> 0]
  /\ rooms = <<>>

\* The pair GetRoom finds for f, and its room.
HasPair(f) == leftFdMap[f] # NoFd \/ rightFdMap[f] # NoFd

PairOf(f) ==
  IF leftFdMap[f] # NoFd THEN <<f, leftFdMap[f]>> ELSE <<rightFdMap[f], f>>

GetRoom(f) == IF HasPair(f) THEN roomMap[PairOf(f)] ELSE 0

\* The rooms once the message c is sent to room r: a service that is gone
\* gets nothing.
Told(r, c) ==
  [rooms EXCEPT ![r].inbox = IF rooms[r].state = "gone" THEN @ ELSE Append(@, c)]

-----------------------------------------------------------------------------
NewRoom ==
  /\ Heads("lobby", "NewRoom")
  /\ mbox' = SentTo(Taken("lobby"), "gate",
                    <<Request("CheckAgent.lobby", Head(mbox["lobby"]).fds)>>)
  /\ UNCHANGED lobbyVars

\* NewRoom resumed after CheckAgent.
NewRoomChecked ==
  /\ Heads("lobby", "checked")
  /\ LET m == Head(mbox["lobby"])
     IN  mbox' = SentTo(Taken("lobby"), "gate",
                        <<Request(IF m.ok THEN "GetAgentValue" ELSE "Kick", m.fds)>>)
  /\ UNCHANGED lobbyVars

\* NewRoom resumed after GetAgentValue, up to its call of newservice.
NewRoomGotValue ==
  /\ Heads("lobby", "gotValue")
  /\ Len(rooms) < MaxRooms
  /\ LET fs == Head(mbox["lobby"]).fds
     IN  /\ leftFdMap' = [leftFdMap EXCEPT ![fs[1]] = fs[2]]
         /\ rightFdMap' = [rightFdMap EXCEPT ![fs[2]] = fs[1]]
         /\ rooms' = Append(rooms, [fds |-> fs, state |-> "launching", inbox |-> <<>>])
  /\ mbox' = Taken("lobby")
  /\ UNCHANGED roomMap

\* The launcher's answer: the new service has run its _Start.
Launch(r) ==
  /\ rooms[r].state = "launching"
  /\ rooms' = [rooms EXCEPT ![r].state = "launched"]
  /\ mbox' = SentTo(mbox, "lobby", <<Launched(rooms[r].fds, r)>>)
  /\ UNCHANGED <<leftFdMap, rightFdMap, roomMap>>

\* NewRoom resumed after newservice, to its end.
NewRoomLaunched ==
  /\ Heads("lobby", "launched")
  /\ LET m == Head(mbox["lobby"])
     IN  /\ roomMap' = [roomMap EXCEPT ![m.fds] = m.room]
         /\ rooms' = Told(m.room, "Start")
  /\ mbox' = Taken("lobby")
  /\ UNCHANGED <<leftFdMap, rightFdMap>>

\* Faulty forms of LobbyOnDisconnect: the room stays in the maps; the maps
\* are cleared although there is no room yet; the room is not told.
DisconnectKeepsRoom ==
  /\ Heads("lobby", "OnDisconnect")
  /\ LET f == Head(mbox["lobby"]).fd
     IN  IF GetRoom(f) = 0
           THEN mbox' = Taken("lobby") /\ UNCHANGED rooms
           ELSE /\ rooms' = Told(GetRoom(f), "Exit")
                /\ mbox' = SentTo(Taken("lobby"), "gate", <<Request("Kick", PairOf(f))>>)
  /\ UNCHANGED <<leftFdMap, rightFdMap, roomMap>>

DisconnectClearsEarly ==
  /\ Heads("lobby", "OnDisconnect")
  /\ LET f == Head(mbox["lobby"]).fd
     IN  IF ~HasPair(f)
           THEN mbox' = Taken("lobby") /\ UNCHANGED lobbyVars
           ELSE /\ leftFdMap' = [leftFdMap EXCEPT ![PairOf(f)[1]] = NoFd]
                /\ rightFdMap' = [rightFdMap EXCEPT ![PairOf(f)[2]] = NoFd]
                /\ rooms' = IF GetRoom(f) = 0 THEN rooms ELSE Told(GetRoom(f), "Exit")
                /\ roomMap' = [roomMap EXCEPT ![PairOf(f)] = 0]
                /\ mbox' = SentTo(Taken("lobby"), "gate", <<Request("Kick", PairOf(f))>>)

DisconnectNotTold ==
  /\ Heads("lobby", "OnDisconnect")
  /\ LET f == Head(mbox["lobby"]).fd
     IN  IF GetRoom(f) = 0
           THEN mbox' = Taken("lobby") /\ UNCHANGED lobbyVars
           ELSE /\ leftFdMap' = [leftFdMap EXCEPT ![PairOf(f)[1]] = NoFd]
                /\ rightFdMap' = [rightFdMap EXCEPT ![PairOf(f)[2]] = NoFd]
                /\ UNCHANGED rooms
                /\ roomMap' = [roomMap EXCEPT ![PairOf(f)] = 0]
                /\ mbox' = SentTo(Taken("lobby"), "gate", <<Request("Kick", PairOf(f))>>)

LobbyOnDisconnect ==
  /\ Heads("lobby", "OnDisconnect")
  /\ LET f == Head(mbox["lobby"]).fd
     IN  IF GetRoom(f) = 0
           THEN mbox' = Taken("lobby") /\ UNCHANGED lobbyVars
           ELSE /\ leftFdMap' = [leftFdMap EXCEPT ![PairOf(f)[1]] = NoFd]
                /\ rightFdMap' = [rightFdMap EXCEPT ![PairOf(f)[2]] = NoFd]
                /\ rooms' = Told(GetRoom(f), "Exit")
                /\ roomMap' = [roomMap EXCEPT ![PairOf(f)] = 0]
                /\ mbox' = SentTo(Taken("lobby"), "gate", <<Request("Kick", PairOf(f))>>)

LobbyOnReceive ==
  /\ Heads("lobby", "OnReceive")
  /\ LET r == GetRoom(Head(mbox["lobby"]).fd)
     IN  rooms' = IF r = 0 THEN rooms ELSE Told(r, "Receive")
  /\ mbox' = Taken("lobby")
  /\ UNCHANGED <<leftFdMap, rightFdMap, roomMap>>

-----------------------------------------------------------------------------
\* The room handles its next message: Start makes it send to both phones.
RoomHandles(r) ==
  /\ rooms[r].state \in {"launched", "up"}
  /\ rooms[r].inbox # <<>>
  /\ LET c == Head(rooms[r].inbox)
     IN  /\ rooms' = [rooms EXCEPT
              ![r].inbox = IF c = "Exit" THEN <<>> ELSE Tail(@),
              ![r].state = CASE c = "Start" -> "up"
                             [] c = "Exit"  -> "gone"
                             [] OTHER       -> @]
         /\ mbox' = IF c = "Start"
                      THEN SentTo(mbox, "gate", <<Request("Send", rooms[r].fds)>>)
                      ELSE mbox
  /\ UNCHANGED <<leftFdMap, rightFdMap, roomMap>>

LobbyStep ==
  \/ NewRoom \/ NewRoomChecked \/ NewRoomGotValue \/ NewRoomLaunched
  \/ LobbyOnDisconnect \/ LobbyOnReceive
  \/ \E r \in 1..Len(rooms) : Launch(r) \/ RoomHandles(r)
=============================================================================
