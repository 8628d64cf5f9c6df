-------------------------------- MODULE Gate --------------------------------
(***************************************************************************)
(* The gate (Server/src/service/gate.lua, Server/src/agent.lua) and, as    *)
(* its environment, the phones (Networkmgr.OnConnect, Client.Connect).     *)
(*                                                                         *)
(* A phone's first message, Connect, is a KCP segment like any other: it   *)
(* is sent again until it is acknowledged, and a late copy of it makes the *)
(* gate create an agent for a phone that is gone or already being served.  *)
(* An agent speaks with a phone only if both started their KCP streams     *)
(* together: peer is then the number of that phone, and 0 for an agent     *)
(* that will never deliver anything.  KCP delivers in order (up, down).    *)
(***************************************************************************)
EXTENDS Skynet

CONSTANTS
  MaxClient,     \* max_client of src/config
  MaxConnects,   \* bound: phones that use one fd, one after the other
  MaxCopies,     \* bound: copies of a phone's Connect that make an agent
  MaxInputs      \* bound: inputs a phone sends

ASSUME GateAssumption ==
  MaxClient \in Nat /\ MaxConnects \in Nat \ {0} /\ MaxCopies \in Nat \ {0}
  /\ MaxInputs \in Nat

VARIABLES
  agentMap,     \* _agentMap: the agent of each fd or NoAgent
  clientCount,  \* _clientCount
  up,           \* [Fds -> Seq(messages the phone sent its agent)]
  down,         \* [Fds -> Seq(messages the agent sent its phone)]
  phone,        \* [Fds -> what the phone at the fd is doing]
  connects,     \* [Fds -> phones that have used the fd so far]
  inputs,       \* [Fds -> inputs the phone at the fd has sent]
  copies        \* [Fds -> agents made by copies of the phone's Connect]

gateVars  == <<agentMap, clientCount, up>>
phoneVars == <<down, phone, connects, inputs, copies>>

NoAgent == [peer |-> 0, heartbeat |-> FALSE, isFull |-> FALSE, here |-> FALSE]

Agent == [peer : 0..MaxConnects, heartbeat : BOOLEAN, isFull : BOOLEAN,
          here : BOOLEAN]

Agents == {f \in Fds : agentMap[f].here}

GateTypeOK ==
  /\ agentMap \in [Fds -> Agent]
  /\ clientCount \in 0..Cardinality(Fds)
  /\ up \in [Fds -> Seq({"handshake", "input"})]
  /\ down \in [Fds -> Seq({"connect", "full", "start"})]
  /\ phone \in [Fds -> {"off", "connecting", "waiting", "playing"}]
  /\ connects \in [Fds -> 0..MaxConnects]
  /\ inputs \in [Fds -> 0..MaxInputs]
  /\ copies \in [Fds -> 0..MaxCopies]

GateInit ==
  /\ agentMap = [f \in Fds |-> NoAgent]
  /\ clientCount = 0
  /\ up = [f \in Fds |-> <<>>]
  /\ down = [f \in Fds |-> <<>>]
  /\ phone = [f \in Fds |-> "off"]
  /\ connects = [f \in Fds |-> 0]
  /\ inputs = [f \in Fds |-> 0]
  /\ copies = [f \in Fds |-> 0]

\* The phone at f and the agent of f are two ends of one KCP stream.
Joined(f) ==
  /\ agentMap[f].here
  /\ phone[f] # "off"
  /\ agentMap[f].peer = connects[f]

-----------------------------------------------------------------------------
\* A player starts to look for an opponent (Networkmgr.Connect).
Connect(f) ==
  /\ phone[f] = "off"
  /\ connects[f] < MaxConnects
  /\ phone' = [phone EXCEPT ![f] = "connecting"]
  /\ connects' = [connects EXCEPT ![f] = @ + 1]
  /\ down' = [down EXCEPT ![f] = <<>>]
  /\ copies' = [copies EXCEPT ![f] = 0]
  /\ UNCHANGED <<gateVars, inputs, mbox>>

\* Faulty form of NewAgent: the newcomer is not counted in the comparison.
NewAgentUncounted(f, n) ==
  LET isFull == clientCount > MaxClient
  IN  /\ agentMap' = [agentMap EXCEPT ![f] =
           [peer |-> n, heartbeat |-> TRUE, isFull |-> isFull, here |-> TRUE]]
      /\ clientCount' = clientCount + 1
      /\ up' = [up EXCEPT ![f] = <<>>]
      /\ down' = IF n = 0 THEN down
                 ELSE [down EXCEPT ![f] = <<IF isFull THEN "full" ELSE "connect">>]

\* OnReceive of a Connect segment from an fd without agent.  The agent gets
\* the answer to send, not the segment.
NewAgent(f, n) ==
  LET isFull == clientCount + 1 > MaxClient
  IN  /\ agentMap' = [agentMap EXCEPT ![f] =
           [peer |-> n, heartbeat |-> TRUE, isFull |-> isFull, here |-> TRUE]]
      /\ clientCount' = clientCount + 1
      /\ up' = [up EXCEPT ![f] = <<>>]
      /\ down' = IF n = 0 THEN down
                 ELSE [down EXCEPT ![f] = <<IF isFull THEN "full" ELSE "connect">>]

\* A copy that the phone has sent: its stream is still at its start, and
\* the agent's too, unless an earlier agent has acknowledged the segment.
OnReceiveConnect(f) ==
  /\ ~agentMap[f].here
  /\ connects[f] > 0
  /\ copies[f] < MaxCopies
  /\ copies' = [copies EXCEPT ![f] = @ + 1]
  /\ \/ phone[f] = "connecting" /\ NewAgent(f, connects[f])
     \/ (copies[f] > 0 \/ phone[f] = "off") /\ NewAgent(f, 0)
  /\ UNCHANGED <<phone, connects, inputs, mbox>>

\* OnReceive of anything else: Agent.Input.
OnReceive(f) ==
  /\ agentMap[f].here
  /\ phone[f] # "off"
  /\ agentMap' = [agentMap EXCEPT ![f].heartbeat = TRUE]
  /\ UNCHANGED <<clientCount, up, phoneVars, mbox>>

-----------------------------------------------------------------------------
\* Of the fds of a pair, those _FUNC.Kick finds an agent for, in its order;
\* an fd that the pair holds twice is gone the second time.
There(fs) ==
  LET gone == {f \in Agents : \E i \in 1..Len(fs) : fs[i] = f}
  IN  IF gone = {} THEN <<>>
      ELSE IF \E f \in gone : gone = {f} THEN <<CHOOSE f \in gone : TRUE>>
      ELSE fs

\* What _FUNC.Kick does to the gate for a set of fds that have an agent.
Kick(gone) ==
  /\ clientCount' = clientCount - Cardinality(gone)
  /\ up' = [f \in Fds |-> IF f \in gone THEN <<>> ELSE up[f]]

\* Faulty form of Disconnects: the event of the lobby is missing.
QueueOnly(boxes, fs) ==
  SentTo(boxes, "queue", [i \in 1..Len(fs) |-> Event("OnDisconnect", fs[i])])

\* The events of agents that are gone, to the lobby and the queue: both
\* registered for them.
Disconnects(boxes, fs) ==
  LET events == [i \in 1..Len(fs) |-> Event("OnDisconnect", fs[i])]
  IN  SentTo(SentTo(boxes, "lobby", events), "queue", events)

\* _FUNC.Heartbeat: every agent that has received nothing since the last
\* heartbeat is kicked, in whatever order pairs takes them, and the others'
\* flags are cleared.
Heartbeat ==
  LET silent == {f \in Agents : ~agentMap[f].heartbeat}
  IN  /\ agentMap' = [f \in Fds |-> IF f \in silent THEN NoAgent
                                    ELSE [agentMap[f] EXCEPT !.heartbeat = FALSE]]
      /\ Kick(silent)
      /\ \E fs \in [1..Cardinality(silent) -> silent] :
            /\ {fs[i] : i \in DOMAIN fs} = silent
            /\ mbox' = Disconnects(mbox, fs)
      /\ UNCHANGED phoneVars

\* _FUNC.Recv takes one message of every agent, each a step of its own here.
\* The queue registered for handshakes and the lobby for inputs.
RecvHandshake(f) ==
  /\ agentMap[f].here
  /\ up[f] # <<>>
  /\ Head(up[f]) = "handshake"
  /\ up' = [up EXCEPT ![f] = Tail(@)]
  /\ mbox' = SentTo(mbox, "queue", <<Event("OnHandshake", f)>>)
  /\ UNCHANGED <<agentMap, clientCount, phoneVars>>

RecvInput(f) ==
  /\ agentMap[f].here
  /\ up[f] # <<>>
  /\ Head(up[f]) = "input"
  /\ up' = [up EXCEPT ![f] = Tail(@)]
  /\ mbox' = SentTo(mbox, "lobby", <<Event("OnReceive", f)>>)
  /\ UNCHANGED <<agentMap, clientCount, phoneVars>>

-----------------------------------------------------------------------------
\* The commands other services send.
CheckAgentFor(caller, c) ==
  /\ Heads("gate", c)
  /\ LET fs == Head(mbox["gate"]).fds
         ok == \A i \in 1..Len(fs) : agentMap[fs[i]].here
     IN  mbox' = SentTo(Taken("gate"), caller, <<Checked(fs, ok)>>)
  /\ UNCHANGED <<gateVars, phoneVars>>

CheckAgent ==
  CheckAgentFor("queue", "CheckAgent.queue") \/ CheckAgentFor("lobby", "CheckAgent.lobby")

\* The device models are left out: they are only logged.
GetAgentValue ==
  /\ Heads("gate", "GetAgentValue")
  /\ mbox' = SentTo(Taken("gate"), "lobby",
                    <<Request("gotValue", Head(mbox["gate"]).fds)>>)
  /\ UNCHANGED <<gateVars, phoneVars>>

KickCommand ==
  /\ Heads("gate", "Kick")
  /\ LET fs   == Head(mbox["gate"]).fds
         gone == {f \in Agents : \E i \in 1..Len(fs) : fs[i] = f}
     IN  /\ agentMap' = [f \in Fds |-> IF f \in gone THEN NoAgent ELSE agentMap[f]]
         /\ Kick(gone)
  /\ mbox' = Disconnects(Taken("gate"), There(Head(mbox["gate"]).fds))
  /\ UNCHANGED phoneVars

\* The room's Start message for both phones; an fd without agent is skipped
\* and an agent that has lost its phone sends in vain.
Send ==
  /\ Heads("gate", "Send")
  /\ LET fs == Head(mbox["gate"]).fds
     IN  down' = [f \in Fds |-> IF f \in {fs[i] : i \in 1..Len(fs)} /\ Joined(f)
                                THEN Append(down[f], "start") ELSE down[f]]
  /\ mbox' = Taken("gate")
  /\ UNCHANGED <<gateVars, phone, connects, inputs, copies>>

-----------------------------------------------------------------------------
\* Networkmgr.OnConnect: handshake, or Disconnect if the server is full.
OnConnect(f) ==
  /\ phone[f] = "connecting"
  /\ down[f] # <<>>
  /\ \/ /\ Head(down[f]) = "connect"
        /\ phone' = [phone EXCEPT ![f] = "waiting"]
        /\ up' = [up EXCEPT ![f] = IF Joined(f) THEN Append(@, "handshake") ELSE @]
        /\ down' = [down EXCEPT ![f] = Tail(@)]
     \/ /\ Head(down[f]) = "full"
        /\ phone' = [phone EXCEPT ![f] = "off"]
        /\ down' = [down EXCEPT ![f] = <<>>]
        /\ UNCHANGED up
  /\ UNCHANGED <<agentMap, clientCount, connects, inputs, copies, mbox>>

OnStart(f) ==
  /\ phone[f] \in {"waiting", "playing"}
  /\ down[f] # <<>>
  /\ Head(down[f]) = "start"
  /\ phone' = [phone EXCEPT ![f] = "playing"]
  /\ down' = [down EXCEPT ![f] = Tail(@)]
  /\ UNCHANGED <<gateVars, connects, inputs, copies, mbox>>

\* The input of a play frame.
SendInput(f) ==
  /\ phone[f] = "playing"
  /\ Joined(f)
  /\ inputs[f] < MaxInputs
  /\ inputs' = [inputs EXCEPT ![f] = @ + 1]
  /\ up' = [up EXCEPT ![f] = Append(@, "input")]
  /\ UNCHANGED <<agentMap, clientCount, down, phone, connects, copies, mbox>>

\* The phone is gone; the server is not told.
Leave(f) ==
  /\ phone[f] # "off"
  /\ phone' = [phone EXCEPT ![f] = "off"]
  /\ down' = [down EXCEPT ![f] = <<>>]
  /\ UNCHANGED <<gateVars, connects, inputs, copies, mbox>>

GateCommand == CheckAgent \/ GetAgentValue \/ KickCommand \/ Send

GateStep ==
  \/ GateCommand
  \/ Heartbeat
  \/ \E f \in Fds : \/ OnReceiveConnect(f) \/ OnReceive(f)
                    \/ RecvHandshake(f) \/ RecvInput(f)

PhoneStep ==
  \E f \in Fds : Connect(f) \/ OnConnect(f) \/ OnStart(f) \/ SendInput(f) \/ Leave(f)

-----------------------------------------------------------------------------
\* No more phones are told that they may play than max_client, whoever
\* kicks whom how often: a phone that is told the server is full stays in
\* _agentMap, and is counted, until its heartbeats stop.
AcceptedBound ==
  Cardinality({f \in Agents : ~agentMap[f].isFull}) <= MaxClient
=============================================================================
