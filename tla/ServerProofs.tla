---------------------------- MODULE ServerProofs -----------------------------
(***************************************************************************)
(* Theorems about the server, for every finite set of fds and every bound: *)
(* how many play, what the queue keeps, what a room hears, that nobody who *)
(* waits to be matched is forgotten, and that both players find their room *)
(* and it hears of them.                                                   *)
(***************************************************************************)
EXTENDS Server, FiniteSetTheorems, SequenceTheorems, TLAPS

-----------------------------------------------------------------------------
(* The number of clients.                                                  *)

Accepted == {f \in Agents : ~agentMap[f].isFull}

\* _clientCount counts _agentMap; and because a phone that is told the
\* server is full is counted too, it is an upper bound of the phones accepted
\* only until one of them is kicked: the bound itself is part of the invariant.
CountInv ==
  /\ agentMap \in [Fds -> Agent]
  /\ connects \in [Fds -> 0..MaxConnects]
  /\ clientCount = Cardinality(Agents)
  /\ Cardinality(Accepted) <= MaxClient

LEMMA AgentsFinite ==
  /\ IsFiniteSet(Agents) /\ Cardinality(Agents) \in Nat
  /\ IsFiniteSet(Accepted) /\ Cardinality(Accepted) \in Nat
  /\ Cardinality(Accepted) <= Cardinality(Agents)
<1>1. Agents \subseteq Fds /\ Accepted \subseteq Agents
  BY DEF Agents, Accepted
<1>2. IsFiniteSet(Agents)
  BY <1>1, FdsAssumption, FS_Subset
<1>3. IsFiniteSet(Accepted) /\ Cardinality(Accepted) <= Cardinality(Agents)
  BY <1>1, <1>2, FS_Subset
<1> QED
  BY <1>2, <1>3, FS_CardinalityType

\* Kicking: agents go, no phone is accepted anew.
LEMMA CountKick ==
  ASSUME CountInv, NEW gone \in SUBSET Agents, connects' = connects,
         agentMap' \in [Fds -> Agent],
         \A f \in Fds : agentMap'[f].here = (agentMap[f].here /\ f \notin gone),
         \A f \in Fds \ gone : agentMap'[f].isFull = agentMap[f].isFull,
         clientCount' = clientCount - Cardinality(gone)
  PROVE  CountInv'
<1>1. Agents' = Agents \ gone
  BY DEF Agents
<1>2. Accepted' \subseteq Accepted
  BY <1>1 DEF Accepted, Agents
<1>3. IsFiniteSet(gone) /\ Agents \cap gone = gone
  BY AgentsFinite, FS_Subset
<1>4. Cardinality(Agents \ gone) = Cardinality(Agents) - Cardinality(gone)
  BY <1>3, AgentsFinite, FS_Difference
<1>5. clientCount' = Cardinality(Agents')
  BY <1>1, <1>4 DEF CountInv
<1>6. Cardinality(Accepted') <= Cardinality(Accepted)
  BY <1>2, AgentsFinite, FS_Subset
<1>7. Cardinality(Accepted') \in Nat
  BY <1>2, AgentsFinite, FS_Subset, FS_CardinalityType
<1> QED
  BY <1>5, <1>6, <1>7, AgentsFinite, GateAssumption DEF CountInv

\* A new agent: accepted only if it is counted within max_client.
LEMMA CountNewAgent ==
  ASSUME CountInv, NEW f \in Fds, ~agentMap[f].here, NEW n \in 0..MaxConnects,
         NewAgent(f, n), connects' = connects
  PROVE  CountInv'
<1> DEFINE isFull == clientCount + 1 > MaxClient
<1>1. /\ agentMap' = [agentMap EXCEPT ![f] =
           [peer |-> n, heartbeat |-> TRUE, isFull |-> isFull, here |-> TRUE]]
      /\ clientCount' = clientCount + 1
  BY DEF NewAgent
<1>2. [peer |-> n, heartbeat |-> TRUE, isFull |-> isFull, here |-> TRUE] \in Agent
  BY DEF Agent
<1>3. agentMap' \in [Fds -> Agent]
  BY <1>1, <1>2 DEF CountInv
<1>4. Agents' = Agents \cup {f} /\ f \notin Agents
  BY <1>1 DEF Agents, CountInv
<1>5. Cardinality(Agents') = Cardinality(Agents) + 1
  BY <1>4, AgentsFinite, FS_AddElement
<1>6. clientCount' = Cardinality(Agents')
  BY <1>1, <1>5 DEF CountInv
<1>7. CASE isFull
  <2>1. Accepted' = Accepted
    BY <1>1, <1>4, <1>7 DEF Accepted, Agents, CountInv
  <2> QED
    BY <1>3, <1>6, <2>1 DEF CountInv
<1>8. CASE ~isFull
  <2>1. Accepted' \subseteq Agents'
    BY DEF Accepted
  <2>2. Cardinality(Accepted') <= Cardinality(Agents')
    BY <2>1, <1>4, AgentsFinite, FS_AddElement, FS_Subset
  <2>3. Cardinality(Agents') <= MaxClient
    BY <1>1, <1>6, <1>8, AgentsFinite, GateAssumption DEF CountInv
  <2>4. Cardinality(Accepted') \in Nat /\ Cardinality(Agents') \in Nat
    BY <2>1, <1>4, AgentsFinite, FS_AddElement, FS_Subset, FS_CardinalityType
  <2> QED
    BY <1>3, <1>6, <2>2, <2>3, <2>4, GateAssumption DEF CountInv
<1> QED
  BY <1>7, <1>8

\* The gate's and the phones' steps, whatever the mailboxes hold.
LEMMA CountGateStep ==
  ASSUME CountInv, GateStep \/ PhoneStep
  PROVE  CountInv'
<1>1. CASE UNCHANGED <<agentMap, clientCount, connects>>
  BY <1>1 DEF CountInv, Agents, Accepted
<1>2. CASE Heartbeat
  <2> DEFINE silent == {f \in Agents : ~agentMap[f].heartbeat}
  <2>1. /\ agentMap' = [f \in Fds |-> IF f \in silent THEN NoAgent
                                      ELSE [agentMap[f] EXCEPT !.heartbeat = FALSE]]
        /\ clientCount' = clientCount - Cardinality(silent)
        /\ connects' = connects
    BY <1>2 DEF Heartbeat, Kick, phoneVars
  <2>0. silent \in SUBSET Agents
    OBVIOUS
  <2> HIDE DEF silent
  <2>2. agentMap' \in [Fds -> Agent]
    <3>1. NoAgent \in Agent
      BY GateAssumption DEF Agent, NoAgent
    <3>2. \A a \in Agent : [a EXCEPT !.heartbeat = FALSE] \in Agent
      BY DEF Agent
    <3>3. \A f \in Fds : agentMap[f] \in Agent
      BY DEF CountInv
    <3> QED
      BY <2>1, <3>1, <3>2, <3>3
  <2>3. \A f \in Fds : agentMap'[f].here = (agentMap[f].here /\ f \notin silent)
    BY <2>1 DEF CountInv, Agent, NoAgent
  <2>4. \A f \in Fds \ silent : agentMap'[f].isFull = agentMap[f].isFull
    BY <2>1 DEF CountInv, Agent
  <2> QED
    BY <2>0, <2>1, <2>2, <2>3, <2>4, CountKick
<1>3. CASE KickCommand
  <2> DEFINE fs   == Head(mbox["gate"]).fds
             gone == {f \in Agents : \E i \in 1..Len(fs) : fs[i] = f}
  <2>1. /\ agentMap' = [f \in Fds |-> IF f \in gone THEN NoAgent ELSE agentMap[f]]
        /\ clientCount' = clientCount - Cardinality(gone)
        /\ connects' = connects
    BY <1>3 DEF KickCommand, Kick, phoneVars
  <2>2. gone \in SUBSET Agents
    OBVIOUS
  <2> HIDE DEF gone
  <2>3. agentMap' \in [Fds -> Agent]
    BY <2>1, GateAssumption DEF CountInv, Agent, NoAgent
  <2>4. \A f \in Fds : agentMap'[f].here = (agentMap[f].here /\ f \notin gone)
    BY <2>1 DEF CountInv, Agent, NoAgent
  <2>5. \A f \in Fds \ gone : agentMap'[f].isFull = agentMap[f].isFull
    BY <2>1 DEF CountInv
  <2> QED
    BY <2>1, <2>2, <2>3, <2>4, <2>5, CountKick
<1>4. ASSUME NEW f \in Fds, OnReceiveConnect(f)
      PROVE  CountInv'
  <2>1. /\ ~agentMap[f].here /\ connects' = connects
        /\ NewAgent(f, connects[f]) \/ NewAgent(f, 0)
    BY <1>4 DEF OnReceiveConnect
  <2>2. connects[f] \in 0..MaxConnects /\ 0 \in 0..MaxConnects
    BY GateAssumption DEF CountInv
  <2> QED
    BY <2>1, <2>2, CountNewAgent
<1>5. ASSUME NEW f \in Fds, OnReceive(f)
      PROVE  CountInv'
  <2>1. /\ agentMap' = [agentMap EXCEPT ![f].heartbeat = TRUE]
        /\ clientCount' = clientCount /\ connects' = connects
    BY <1>5 DEF OnReceive, phoneVars
  <2>2. agentMap' \in [Fds -> Agent]
    BY <2>1 DEF CountInv, Agent
  <2>3. /\ \A g \in Fds : agentMap'[g].here = agentMap[g].here
        /\ \A g \in Fds : agentMap'[g].isFull = agentMap[g].isFull
    BY <2>1 DEF CountInv, Agent
  <2>4. Agents' = Agents /\ Accepted' = Accepted
    BY <2>3 DEF Agents, Accepted
  <2> QED
    BY <2>1, <2>2, <2>4 DEF CountInv
<1>6. ASSUME NEW f \in Fds, Connect(f)
      PROVE  CountInv'
  <2>1. /\ agentMap' = agentMap /\ clientCount' = clientCount
        /\ connects[f] < MaxConnects
        /\ connects' = [connects EXCEPT ![f] = @ + 1]
    BY <1>6 DEF Connect, gateVars
  <2>2. connects' \in [Fds -> 0..MaxConnects]
    BY <2>1, GateAssumption DEF CountInv
  <2> QED
    BY <2>1, <2>2 DEF CountInv, Agents, Accepted
<1>7. CASE CheckAgent \/ GetAgentValue \/ Send
  BY <1>1, <1>7 DEF CheckAgent, CheckAgentFor, GetAgentValue, Send, gateVars, phoneVars
<1>8. ASSUME NEW f \in Fds,
             \/ RecvHandshake(f) \/ RecvInput(f)
             \/ OnConnect(f) \/ OnStart(f) \/ SendInput(f) \/ Leave(f)
      PROVE  CountInv'
  <2>1. UNCHANGED <<agentMap, clientCount, connects>>
    BY <1>8 DEF RecvHandshake, RecvInput, OnConnect, OnStart, SendInput, Leave,
                gateVars, phoneVars
  <2> QED
    BY <1>1, <2>1
<1> QED
  BY <1>2, <1>3, <1>4, <1>5, <1>6, <1>7, <1>8 DEF GateStep, PhoneStep, GateCommand

LEMMA CountStep == CountInv /\ [Next]_vars => CountInv'
<1> SUFFICES ASSUME CountInv, [Next]_vars PROVE CountInv'
  OBVIOUS
<1>1. CASE GateStep \/ PhoneStep
  BY <1>1, CountGateStep
<1>2. CASE UNCHANGED <<gateVars, phoneVars>>
  BY <1>2 DEF CountInv, Agents, Accepted, gateVars, phoneVars
<1> QED
  BY <1>1, <1>2 DEF Next, vars

LEMMA CountInit == Init => CountInv
<1> SUFFICES ASSUME Init PROVE CountInv
  OBVIOUS
<1>1. Agents = {} /\ Accepted = {}
  BY DEF Init, GateInit, Agents, Accepted, NoAgent
<1>2. Cardinality({}) = 0
  BY FS_EmptySet
<1>3. agentMap \in [Fds -> Agent] /\ connects \in [Fds -> 0..MaxConnects]
  BY GateAssumption DEF Init, GateInit, Agent, NoAgent
<1> QED
  BY <1>1, <1>2, <1>3, GateAssumption DEF Init, GateInit, CountInv

\* The server never tells more than max_client phones at a time that they
\* may play (gate.lua OnReceive, Kick, Heartbeat), for any number of phones
\* and whatever the lobby kicks, twice or long gone.
THEOREM Bounded == Spec => []AcceptedBound
<1>1. CountInv => AcceptedBound
  BY DEF CountInv, Accepted, AcceptedBound
<1> QED
  BY <1>1, CountInit, CountStep, PTL DEF Spec

-----------------------------------------------------------------------------
(* The fd the queue keeps.                                                 *)

Msg(s) == CASE s = "gate" -> GateMsg [] s = "queue" -> QueueMsg [] OTHER -> LobbyMsg

Boxes(b) == DOMAIN b = Services /\ \A s \in Services : b[s] \in Seq(Msg(s))

LEMMA BoxesType == SkynetTypeOK <=> Boxes(mbox)
BY DEF SkynetTypeOK, Boxes, Msg, Services

\* What the services need to know of what they send.
MailInv ==
  /\ Boxes(mbox)
  /\ leftFdMap \in [Fds -> Fds \cup {NoFd}]
  /\ rightFdMap \in [Fds -> Fds \cup {NoFd}]
  /\ rooms \in Seq(Room)

\* An agent of f is there, or q says after its i-th message that it is gone.
Reported(agents, q, f, i) ==
  \/ agents[f].here
  \/ \E j \in (i + 1)..Len(q) : q[j] = Event("OnDisconnect", f)

\* The gate's answers were right when they were given: if an agent that was
\* there is gone since, the queue hears of it after the answer.
AnswersHold(agents, q) ==
  \A i \in 1..Len(q) :
    q[i].cmd = "checked" /\ q[i].ok => Reported(agents, q, q[i].fds[1], i)

WaitInv ==
  /\ readyFd \in Fds \cup {NoFd}
  /\ readyFd # NoFd => Reported(agentMap, mbox["queue"], readyFd, 0)
  /\ AnswersHold(agentMap, mbox["queue"])

QueueInv == MailInv /\ CountInv /\ WaitInv

LEMMA TakenBoxes ==
  ASSUME NEW s \in Services, Boxes(mbox), mbox[s] # <<>>
  PROVE  /\ Boxes(Taken(s)) /\ Head(mbox[s]) \in Msg(s)
         /\ Taken(s)[s] = Tail(mbox[s])
         /\ \A t \in Services \ {s} : Taken(s)[t] = mbox[t]
<1>1. mbox[s] \in Seq(Msg(s))
  BY DEF Boxes
<1>2. Head(mbox[s]) \in Msg(s) /\ Tail(mbox[s]) \in Seq(Msg(s))
  BY <1>1, HeadTailProperties
<1> QED BY <1>2 DEF Boxes, Taken

LEMMA SentBoxes ==
  ASSUME NEW b, Boxes(b), NEW t \in Services, NEW ms \in Seq(Msg(t))
  PROVE  /\ Boxes(SentTo(b, t, ms))
         /\ SentTo(b, t, ms)[t] = b[t] \o ms
         /\ \A u \in Services \ {t} : SentTo(b, t, ms)[u] = b[u]
<1>1. b[t] \o ms \in Seq(Msg(t))
  BY ConcatProperties DEF Boxes
<1> QED BY <1>1 DEF Boxes, SentTo

\* The messages, by the service they are for.
LEMMA Sorts ==
  ASSUME NEW f \in Fds, NEW pr \in Pairs, NEW ok \in BOOLEAN
  PROVE  /\ <<f>> \in Single
         /\ Event("OnHandshake", f) \in QueueMsg /\ Event("OnDisconnect", f) \in QueueMsg
         /\ Event("OnReceive", f) \in LobbyMsg /\ Event("OnDisconnect", f) \in LobbyMsg
         /\ Request("CheckAgent.queue", <<f>>) \in GateMsg
         /\ \A c \in {"CheckAgent.lobby", "GetAgentValue", "Kick", "Send"} :
              Request(c, pr) \in GateMsg
         /\ \A c \in {"NewRoom", "gotValue"} : Request(c, pr) \in LobbyMsg
         /\ \A fs \in Single : Checked(fs, ok) \in QueueMsg
         /\ Checked(pr, ok) \in LobbyMsg
         /\ \A r \in Nat : Launched(pr, r) \in LobbyMsg
<1>1. <<f>> \in Single
  BY DEF Single
<1>2. /\ Event("OnHandshake", f) \in QueueMsg /\ Event("OnDisconnect", f) \in QueueMsg
      /\ Event("OnReceive", f) \in LobbyMsg /\ Event("OnDisconnect", f) \in LobbyMsg
  BY DEF QueueMsg, LobbyMsg, Event
<1>3. /\ Request("CheckAgent.queue", <<f>>) \in GateMsg
      /\ \A c \in {"CheckAgent.lobby", "GetAgentValue", "Kick", "Send"} :
           Request(c, pr) \in GateMsg
  BY <1>1 DEF GateMsg, Request
<1>4. \A c \in {"NewRoom", "gotValue"} : Request(c, pr) \in LobbyMsg
  BY DEF LobbyMsg, Request
<1>5. /\ \A fs \in Single : Checked(fs, ok) \in QueueMsg
      /\ Checked(pr, ok) \in LobbyMsg
  BY DEF QueueMsg, LobbyMsg, Checked
<1>6. \A r \in Nat : Launched(pr, r) \in LobbyMsg
  BY DEF LobbyMsg, Launched
<1> QED BY <1>1, <1>2, <1>3, <1>4, <1>5, <1>6

\* The events of agents that are gone: one for each, and nothing else.
Events(fs) == [i \in 1..Len(fs) |-> Event("OnDisconnect", fs[i])]

LEMMA EventsType ==
  ASSUME NEW fs \in Seq(Fds)
  PROVE  /\ Events(fs) \in Seq(QueueMsg) /\ Events(fs) \in Seq(LobbyMsg)
         /\ Len(Events(fs)) = Len(fs)
         /\ \A i \in 1..Len(fs) : Events(fs)[i] = Event("OnDisconnect", fs[i])
<1>1. \A i \in 1..Len(fs) : fs[i] \in Fds
  OBVIOUS
<1>2. /\ \A i \in 1..Len(fs) : Event("OnDisconnect", fs[i]) \in QueueMsg \cap LobbyMsg
      /\ Len(fs) \in Nat
  BY <1>1 DEF Event, QueueMsg, LobbyMsg
<1> QED BY <1>2 DEF Events

LEMMA EventsSent ==
  ASSUME NEW b, Boxes(b), NEW fs \in Seq(Fds)
  PROVE  /\ Boxes(Disconnects(b, fs))
         /\ Disconnects(b, fs)["queue"] = b["queue"] \o Events(fs)
<1>1. Events(fs) \in Seq(Msg("queue")) /\ Events(fs) \in Seq(Msg("lobby"))
  BY EventsType DEF Msg
<1> DEFINE b1 == SentTo(b, "lobby", Events(fs))
<1>2. Boxes(b1) /\ b1["queue"] = b["queue"]
  BY <1>1, SentBoxes DEF Services
<1>3. Disconnects(b, fs) = SentTo(b1, "queue", Events(fs))
  BY DEF Disconnects, Events
<1> HIDE DEF b1
<1>4. /\ Boxes(SentTo(b1, "queue", Events(fs)))
      /\ SentTo(b1, "queue", Events(fs))["queue"] = b1["queue"] \o Events(fs)
  BY <1>1, <1>2, SentBoxes DEF Services
<1> QED BY <1>2, <1>3, <1>4

-----------------------------------------------------------------------------
\* More messages for the queue: an agent that goes is reported, an answer is
\* given for an agent that is there.
LEMMA WaitSent ==
  ASSUME MailInv, WaitInv, readyFd' = readyFd,
         NEW ms \in Seq(QueueMsg), mbox'["queue"] = mbox["queue"] \o ms,
         \A f \in Fds : agentMap[f].here =>
           agentMap'[f].here \/ \E k \in 1..Len(ms) : ms[k] = Event("OnDisconnect", f),
         \A k \in 1..Len(ms) :
           ms[k].cmd = "checked" /\ ms[k].ok => agentMap'[ms[k].fds[1]].here
  PROVE  WaitInv'
<1> DEFINE q  == mbox["queue"]
           q2 == q \o ms
<1>1. /\ q \in Seq(QueueMsg) /\ Len(q) \in Nat /\ Len(ms) \in Nat
      /\ Len(q2) = Len(q) + Len(ms)
      /\ \A i \in 1..Len(q) : q2[i] = q[i] /\ q[i] \in QueueMsg
      /\ \A i \in 1..Len(ms) : q2[Len(q) + i] = ms[i]
  BY DEF MailInv, Boxes, Services, Msg
<1> HIDE DEF q2
<1>2. ASSUME NEW f \in Fds, NEW i \in 0..Len(q), Reported(agentMap, q, f, i)
      PROVE  Reported(agentMap', q2, f, i)
  <2>1. CASE agentMap'[f].here
    BY <2>1 DEF Reported
  <2>2. CASE \E k \in 1..Len(ms) : ms[k] = Event("OnDisconnect", f)
    <3>1. PICK k \in 1..Len(ms) : ms[k] = Event("OnDisconnect", f)
      BY <2>2
    <3>2. /\ Len(q) + k \in (i + 1)..Len(q2)
          /\ q2[Len(q) + k] = Event("OnDisconnect", f)
      BY <1>1, <3>1
    <3> QED BY <3>2 DEF Reported
  <2>3. CASE \E j \in (i + 1)..Len(q) : q[j] = Event("OnDisconnect", f)
    <3>1. PICK j \in (i + 1)..Len(q) : q[j] = Event("OnDisconnect", f)
      BY <2>3
    <3>2. j \in (i + 1)..Len(q2) /\ q2[j] = Event("OnDisconnect", f)
      BY <1>1, <3>1
    <3> QED BY <3>2 DEF Reported
  <2> QED BY <1>2, <2>1, <2>2, <2>3 DEF Reported
<1>3. readyFd' # NoFd => Reported(agentMap', q2, readyFd', 0)
  <2> SUFFICES ASSUME readyFd # NoFd
               PROVE  Reported(agentMap', q2, readyFd, 0)
    OBVIOUS
  <2>1. readyFd \in Fds /\ Reported(agentMap, q, readyFd, 0)
    BY DEF WaitInv
  <2>2. 0 \in 0..Len(q)
    BY <1>1
  <2> QED BY <1>2, <2>1, <2>2
<1>4. AnswersHold(agentMap', q2)
  <2> SUFFICES ASSUME NEW i \in 1..Len(q2), q2[i].cmd = "checked", q2[i].ok
               PROVE  Reported(agentMap', q2, q2[i].fds[1], i)
    BY DEF AnswersHold
  <2>1. CASE i \in 1..Len(q)
    <3>1. q2[i] = q[i] /\ q[i] \in QueueMsg /\ i \in 0..Len(q)
      BY <1>1, <2>1
    <3>2. q[i].fds[1] \in Fds
      BY <3>1 DEF QueueMsg, Single
    <3>3. Reported(agentMap, q, q[i].fds[1], i)
      BY <2>1, <3>1 DEF WaitInv, AnswersHold
    <3> QED BY <1>2, <3>1, <3>2, <3>3
  <2>2. CASE i \notin 1..Len(q)
    <3>1. i - Len(q) \in 1..Len(ms) /\ i = Len(q) + (i - Len(q))
      BY <1>1, <2>2
    <3>2. q2[i] = ms[i - Len(q)]
      BY <1>1, <3>1
    <3> QED BY <3>1, <3>2 DEF Reported
  <2> QED BY <2>1, <2>2
<1> QED BY <1>3, <1>4 DEF WaitInv, q2

\* The queue takes a message: what it keeps then, it kept before or has just
\* been told to be there.
LEMMA WaitTaken ==
  ASSUME MailInv, WaitInv, mbox["queue"] # <<>>, mbox'["queue"] = Tail(mbox["queue"]),
         agentMap' = agentMap, readyFd' \in Fds \cup {NoFd},
         LET m == Head(mbox["queue"])
         IN  \/ readyFd' = NoFd
             \/ readyFd' = readyFd /\ m # Event("OnDisconnect", readyFd)
             \/ m.cmd = "checked" /\ m.ok /\ readyFd' = m.fds[1]
  PROVE  WaitInv'
<1> DEFINE q  == mbox["queue"]
           q2 == Tail(q)
<1>1. /\ q \in Seq(QueueMsg) /\ Len(q) \in Nat \ {0} /\ Len(q2) = Len(q) - 1
      /\ Head(q) = q[1] /\ \A i \in 1..Len(q2) : q2[i] = q[i + 1]
  BY DEF MailInv, Boxes, Services, Msg
<1> HIDE DEF q2
<1>2. ASSUME NEW f, NEW i \in 1..Len(q), Reported(agentMap, q, f, i)
      PROVE  Reported(agentMap, q2, f, i - 1)
  <2>1. CASE \E j \in (i + 1)..Len(q) : q[j] = Event("OnDisconnect", f)
    <3>1. PICK j \in (i + 1)..Len(q) : q[j] = Event("OnDisconnect", f)
      BY <2>1
    <3>2. /\ j - 1 \in (i - 1 + 1)..Len(q2) /\ j - 1 \in 1..Len(q2)
          /\ j - 1 + 1 = j
      BY <1>1, <3>1
    <3>3. q2[j - 1] = Event("OnDisconnect", f)
      BY <1>1, <3>1, <3>2
    <3> QED BY <3>2, <3>3 DEF Reported
  <2> QED BY <1>2, <2>1 DEF Reported
<1>3. readyFd' # NoFd => Reported(agentMap, q2, readyFd', 0)
  <2> SUFFICES ASSUME readyFd' # NoFd
               PROVE  Reported(agentMap, q2, readyFd', 0)
    OBVIOUS
  <2>0. 1 \in 1..Len(q) /\ 1 - 1 = 0
    BY <1>1
  <2>1. CASE readyFd' = readyFd /\ Head(q) # Event("OnDisconnect", readyFd)
    <3>1. Reported(agentMap, q, readyFd, 0)
      BY <2>1 DEF WaitInv
    <3>2. Reported(agentMap, q, readyFd, 1)
      <4>1. CASE agentMap[readyFd].here
        BY <4>1 DEF Reported
      <4>2. CASE \E j \in (0 + 1)..Len(q) : q[j] = Event("OnDisconnect", readyFd)
        <5>1. PICK j \in (0 + 1)..Len(q) : q[j] = Event("OnDisconnect", readyFd)
          BY <4>2
        <5>2. j # 1
          BY <1>1, <2>1, <5>1
        <5>3. j \in (1 + 1)..Len(q)
          BY <1>1, <5>1, <5>2
        <5> QED BY <5>1, <5>3 DEF Reported
      <4> QED BY <3>1, <4>1, <4>2 DEF Reported
    <3>3. Reported(agentMap, q2, readyFd, 1 - 1)
      BY <1>2, <2>0, <3>2
    <3> QED BY <2>0, <2>1, <3>3
  <2>2. CASE Head(q).cmd = "checked" /\ Head(q).ok /\ readyFd' = Head(q).fds[1]
    <3>1. Reported(agentMap, q, q[1].fds[1], 1)
      BY <1>1, <2>0, <2>2 DEF WaitInv, AnswersHold
    <3>2. Reported(agentMap, q2, q[1].fds[1], 1 - 1)
      BY <1>2, <2>0, <3>1
    <3> QED BY <1>1, <2>0, <2>2, <3>2
  <2> QED BY <2>1, <2>2
<1>4. AnswersHold(agentMap, q2)
  <2> SUFFICES ASSUME NEW i \in 1..Len(q2), q2[i].cmd = "checked", q2[i].ok
               PROVE  Reported(agentMap, q2, q2[i].fds[1], i)
    BY DEF AnswersHold
  <2>1. q2[i] = q[i + 1] /\ i + 1 \in 1..Len(q) /\ i + 1 - 1 = i
    BY <1>1
  <2>2. Reported(agentMap, q, q[i + 1].fds[1], i + 1)
    BY <2>1 DEF WaitInv, AnswersHold
  <2>3. Reported(agentMap, q2, q[i + 1].fds[1], i + 1 - 1)
    BY <1>2, <2>1, <2>2
  <2> QED BY <2>1, <2>3
<1> QED BY <1>3, <1>4 DEF WaitInv, q2

\* Steps that neither drop an agent nor touch the queue.
LEMMA WaitKept ==
  ASSUME MailInv, WaitInv, UNCHANGED readyFd, mbox'["queue"] = mbox["queue"],
         \A f \in Fds : agentMap[f].here => agentMap'[f].here
  PROVE  WaitInv'
<1> DEFINE ms == <<>>
<1>1. ms \in Seq(QueueMsg) /\ mbox["queue"] \in Seq(QueueMsg) /\ Len(ms) = 0
  BY DEF MailInv, Boxes, Services, Msg
<1>2. mbox'["queue"] = mbox["queue"] \o ms
  BY <1>1, ConcatEmptySeq
<1> HIDE DEF ms
<1>3. \A k \in 1..Len(ms) : ms[k].cmd = "checked" /\ ms[k].ok => agentMap'[ms[k].fds[1]].here
  BY <1>1
<1> QED BY <1>1, <1>2, <1>3, WaitSent

-----------------------------------------------------------------------------
\* Agents that go: the queue is told of each of them.
LEMMA WaitGone ==
  ASSUME MailInv, WaitInv, UNCHANGED <<readyFd, lobbyVars>>, NEW b, Boxes(b),
         b["queue"] = mbox["queue"], NEW fs \in Seq(Fds), mbox' = Disconnects(b, fs),
         \A f \in Fds : agentMap[f].here =>
           agentMap'[f].here \/ \E i \in 1..Len(fs) : fs[i] = f
  PROVE  MailInv' /\ WaitInv'
<1> DEFINE events == Events(fs)
<1>1. /\ Boxes(mbox') /\ events \in Seq(QueueMsg) /\ Len(events) = Len(fs)
      /\ mbox'["queue"] = mbox["queue"] \o events
      /\ \A i \in 1..Len(fs) : events[i] = Event("OnDisconnect", fs[i])
  BY EventsSent, EventsType
<1> HIDE DEF events
<1>2. \A f \in Fds : agentMap[f].here =>
        agentMap'[f].here \/ \E k \in 1..Len(events) : events[k] = Event("OnDisconnect", f)
  BY <1>1
<1>3. \A k \in 1..Len(events) : events[k].cmd # "checked"
  <2> TAKE k \in 1..Len(events)
  <2>1. events[k] = [cmd |-> "OnDisconnect", fd |-> fs[k]]
    BY <1>1 DEF Event
  <2> QED BY <2>1
<1>4. WaitInv'
  BY <1>1, <1>2, <1>3, WaitSent
<1> QED BY <1>1, <1>4 DEF MailInv, Boxes, lobbyVars

LEMMA WaitHeartbeat ==
  ASSUME QueueInv, Heartbeat, UNCHANGED <<readyFd, lobbyVars>>
  PROVE  MailInv' /\ WaitInv'
<1> DEFINE silent == {f \in Agents : ~agentMap[f].heartbeat}
<1>1. agentMap' = [f \in Fds |-> IF f \in silent THEN NoAgent
                                 ELSE [agentMap[f] EXCEPT !.heartbeat = FALSE]]
  BY DEF Heartbeat
<1>2. PICK fs \in [1..Cardinality(silent) -> silent] :
        {fs[i] : i \in DOMAIN fs} = silent /\ mbox' = Disconnects(mbox, fs)
  BY DEF Heartbeat
<1>3. silent \subseteq Fds /\ Cardinality(silent) \in Nat
  <2>1. silent \subseteq Fds
    BY DEF Agents
  <2> QED BY <2>1, FdsAssumption, FS_Subset, FS_CardinalityType
<1> HIDE DEF silent
<1>4. fs \in Seq(Fds) /\ DOMAIN fs = 1..Len(fs)
  BY <1>2, <1>3
<1>5. \A f \in Fds : agentMap[f].here =>
        agentMap'[f].here \/ \E i \in 1..Len(fs) : fs[i] = f
  <2> SUFFICES ASSUME NEW f \in Fds, agentMap[f].here
               PROVE  agentMap'[f].here \/ \E i \in 1..Len(fs) : fs[i] = f
    OBVIOUS
  <2>1. CASE f \in silent
    BY <1>2, <1>4, <2>1
  <2>2. CASE f \notin silent
    BY <1>1, <2>2 DEF QueueInv, CountInv, Agent
  <2> QED BY <2>1, <2>2
<1> QED BY <1>2, <1>4, <1>5, WaitGone DEF QueueInv, MailInv

\* What There selects of a pair are the fds of it that have an agent.
LEMMA ThereAll ==
  ASSUME NEW pr \in Pairs
  PROVE  /\ There(pr) \in Seq(Fds)
         /\ \A f \in Agents : (\E i \in 1..Len(pr) : pr[i] = f) =>
              \E i \in 1..Len(There(pr)) : There(pr)[i] = f
<1> DEFINE gone == {f \in Agents : \E i \in 1..Len(pr) : pr[i] = f}
<1>1. pr \in Seq(Fds)
  <2>1. PICK f \in Fds, g \in Fds : pr = <<f, g>>
    BY DEF Pairs
  <2> QED BY <2>1
<1>2. gone \subseteq Fds
  BY DEF Agents
<1>3. There(pr) = IF gone = {} THEN <<>>
                  ELSE IF \E f \in gone : gone = {f} THEN <<CHOOSE f \in gone : TRUE>>
                  ELSE pr
  BY DEF There
<1>4. \A f \in Agents : (\E i \in 1..Len(pr) : pr[i] = f) => f \in gone
  OBVIOUS
<1> HIDE DEF gone
<1>5. CASE gone = {}
  BY <1>3, <1>4, <1>5
<1>6. CASE \E f \in gone : gone = {f}
  <2>1. PICK g \in gone : gone = {g}
    BY <1>6
  <2>2. There(pr) = <<g>>
    BY <1>3, <2>1
  <2> QED BY <1>2, <1>4, <2>1, <2>2
<1>7. CASE gone # {} /\ ~ \E f \in gone : gone = {f}
  BY <1>1, <1>3, <1>7
<1> QED BY <1>5, <1>6, <1>7

\* The message at the head of a box, by its command.
LEMMA GateHead ==
  ASSUME MailInv, mbox["gate"] # <<>>
  PROVE  LET m == Head(mbox["gate"])
         IN  /\ m.cmd = "CheckAgent.queue" => m.fds \in Single
             /\ m.cmd \in {"CheckAgent.lobby", "GetAgentValue", "Kick", "Send"} =>
                  m.fds \in Pairs
<1>1. Head(mbox["gate"]) \in GateMsg
  BY TakenBoxes DEF MailInv, Services, Msg
<1> QED BY <1>1 DEF GateMsg

LEMMA QueueHead ==
  ASSUME MailInv, mbox["queue"] # <<>>
  PROVE  LET m == Head(mbox["queue"])
         IN  /\ m.cmd \in {"OnHandshake", "OnDisconnect"} =>
                  m.fd \in Fds /\ m = [cmd |-> m.cmd, fd |-> m.fd]
             /\ m.cmd = "checked" => m.fds[1] \in Fds /\ m.ok \in BOOLEAN
<1>1. Head(mbox["queue"]) \in QueueMsg
  BY TakenBoxes DEF MailInv, Services, Msg
<1> QED BY <1>1 DEF QueueMsg, Single

LEMMA LobbyHead ==
  ASSUME MailInv, mbox["lobby"] # <<>>
  PROVE  LET m == Head(mbox["lobby"])
         IN  /\ m.cmd \in {"OnReceive", "OnDisconnect"} => m.fd \in Fds
             /\ m.cmd \in {"NewRoom", "gotValue", "checked", "launched"} => m.fds \in Pairs
<1>1. Head(mbox["lobby"]) \in LobbyMsg
  BY TakenBoxes DEF MailInv, Services, Msg
<1> QED BY <1>1 DEF LobbyMsg

\* A service takes its message and sends one to another.
LEMMA Passed ==
  ASSUME MailInv, NEW s \in Services, mbox[s] # <<>>, NEW t \in Services \ {s},
         NEW m \in Msg(t), mbox' = SentTo(Taken(s), t, <<m>>)
  PROVE  /\ Boxes(mbox') /\ mbox'[s] = Tail(mbox[s]) /\ mbox'[t] = mbox[t] \o <<m>>
         /\ \A u \in Services \ {s, t} : mbox'[u] = mbox[u]
<1>1. /\ Boxes(Taken(s)) /\ Taken(s)[s] = Tail(mbox[s])
      /\ \A u \in Services \ {s} : Taken(s)[u] = mbox[u]
  BY TakenBoxes DEF MailInv
<1>2. <<m>> \in Seq(Msg(t))
  OBVIOUS
<1>3. /\ Boxes(SentTo(Taken(s), t, <<m>>))
      /\ SentTo(Taken(s), t, <<m>>)[t] = Taken(s)[t] \o <<m>>
      /\ \A u \in Services \ {t} : SentTo(Taken(s), t, <<m>>)[u] = Taken(s)[u]
  <2> DEFINE b == Taken(s)
  <2> HIDE DEF b
  <2>1. Boxes(b)
    BY <1>1 DEF b
  <2>2. /\ Boxes(SentTo(b, t, <<m>>)) /\ SentTo(b, t, <<m>>)[t] = b[t] \o <<m>>
        /\ \A u \in Services \ {t} : SentTo(b, t, <<m>>)[u] = b[u]
    BY <1>2, <2>1, SentBoxes
  <2> QED BY <2>2 DEF b
<1> QED BY <1>1, <1>3

-----------------------------------------------------------------------------
\* The gate's answer to one of the services.
LEMMA WaitAnswered ==
  ASSUME QueueInv, UNCHANGED <<readyFd, lobbyVars>>, CheckAgent
  PROVE  MailInv' /\ WaitInv'
<1> USE DEF QueueInv
<1>0. /\ "gate" \in Services /\ "queue" \in Services \ {"gate"}
      /\ "lobby" \in Services \ {"gate"} /\ "queue" \in Services \ {"gate", "lobby"}
      /\ Msg("queue") = QueueMsg /\ Msg("lobby") = LobbyMsg
  BY DEF Services, Msg
<1> DEFINE fs == Head(mbox["gate"]).fds
           ok == \A i \in 1..Len(fs) : agentMap[fs[i]].here
           m  == Checked(fs, ok)
<1>1. mbox["gate"] # <<>> /\ agentMap' = agentMap /\ ok \in BOOLEAN
  BY DEF CheckAgent, CheckAgentFor, Heads, gateVars
<1>2. CASE CheckAgentFor("queue", "CheckAgent.queue")
  <2>1. fs \in Single /\ mbox' = SentTo(Taken("gate"), "queue", <<m>>)
    BY <1>1, <1>2, GateHead DEF CheckAgentFor, Heads
  <2>2. ok => agentMap[fs[1]].here
    BY <2>1 DEF Single
  <2>3. PICK f \in Fds : fs = <<f>>
    BY <2>1 DEF Single
  <2>4. f \in Fds /\ <<f, f>> \in Pairs
    BY <2>3 DEF Pairs
  <2>5. m \in QueueMsg
    BY <1>1, <2>1, <2>4, Sorts
  <2>6. m.cmd = "checked" /\ m.ok = ok /\ m.fds = fs
    BY DEF Checked
  <2> HIDE DEF m, ok, fs
  <2>7. Boxes(mbox') /\ mbox'["queue"] = mbox["queue"] \o <<m>>
    BY <1>0, <1>1, <2>1, <2>5, Passed
  <2>8. <<m>> \in Seq(QueueMsg) /\ Len(<<m>>) = 1 /\ <<m>>[1] = m
    BY <2>5
  <2>9. WaitInv'
    <3> DEFINE ms == <<m>>
    <3> HIDE DEF ms
    <3>1. ms \in Seq(QueueMsg) /\ Len(ms) = 1 /\ ms[1] = m
      BY <2>8 DEF ms
    <3>2. mbox'["queue"] = mbox["queue"] \o ms
      BY <2>7 DEF ms
    <3>3. \A k \in 1..Len(ms) :
            ms[k].cmd = "checked" /\ ms[k].ok => agentMap'[ms[k].fds[1]].here
      BY <1>1, <2>2, <2>6, <3>1
    <3> QED BY <1>1, <3>1, <3>2, <3>3, WaitSent
  <2> QED BY <2>7, <2>9 DEF MailInv, Boxes, lobbyVars
<1>3. CASE CheckAgentFor("lobby", "CheckAgent.lobby")
  <2>1. fs \in Pairs /\ mbox' = SentTo(Taken("gate"), "lobby", <<m>>)
    BY <1>1, <1>3, GateHead DEF CheckAgentFor, Heads
  <2>2. PICK f \in Fds : TRUE
    BY <2>1 DEF Pairs
  <2>3. m \in LobbyMsg
    BY <1>1, <2>1, <2>2, Sorts
  <2> HIDE DEF m, ok, fs
  <2>4. Boxes(mbox') /\ mbox'["queue"] = mbox["queue"]
    BY <1>0, <1>1, <2>1, <2>3, Passed
  <2> QED BY <1>1, <2>4, WaitKept DEF MailInv, Boxes, lobbyVars
<1> QED BY <1>2, <1>3 DEF CheckAgent

\* The other steps of the gate and the phones.
LEMMA WaitGateStep ==
  ASSUME QueueInv, GateStep \/ PhoneStep, UNCHANGED <<readyFd, lobbyVars>>
  PROVE  MailInv' /\ WaitInv'
<1> USE DEF QueueInv
<1>0. /\ "gate" \in Services /\ "queue" \in Services \ {"gate"}
      /\ "lobby" \in Services \ {"gate"} /\ "queue" \in Services \ {"gate", "lobby"}
      /\ Msg("gate") = GateMsg /\ Msg("queue") = QueueMsg /\ Msg("lobby") = LobbyMsg
  BY DEF Services, Msg
<1>1. ASSUME Boxes(mbox'), mbox'["queue"] = mbox["queue"],
             \A f \in Fds : agentMap[f].here => agentMap'[f].here
      PROVE  MailInv' /\ WaitInv'
  <2>1. MailInv'
    BY <1>1 DEF MailInv, Boxes, lobbyVars
  <2> QED BY <1>1, <2>1, WaitKept
<1>2. CASE Heartbeat
  BY <1>2, WaitHeartbeat
<1>3. CASE KickCommand
  <2> DEFINE fs   == Head(mbox["gate"]).fds
             gone == {f \in Agents : \E i \in 1..Len(fs) : fs[i] = f}
  <2>1. /\ mbox["gate"] # <<>> /\ fs \in Pairs
        /\ agentMap' = [f \in Fds |-> IF f \in gone THEN NoAgent ELSE agentMap[f]]
        /\ mbox' = Disconnects(Taken("gate"), There(fs))
    BY <1>3, GateHead DEF KickCommand, Heads
  <2>2. \A f \in gone : f \in Agents /\ \E i \in 1..Len(fs) : fs[i] = f
    OBVIOUS
  <2> HIDE DEF fs, gone
  <2>3. Boxes(Taken("gate")) /\ Taken("gate")["queue"] = mbox["queue"]
    BY <1>0, <2>1, TakenBoxes DEF MailInv, Services
  <2>4. /\ There(fs) \in Seq(Fds)
        /\ \A f \in gone : \E i \in 1..Len(There(fs)) : There(fs)[i] = f
    BY <2>1, <2>2, ThereAll
  <2>5. \A f \in Fds : agentMap[f].here =>
          agentMap'[f].here \/ \E i \in 1..Len(There(fs)) : There(fs)[i] = f
    BY <2>1, <2>4
  <2> QED BY <2>1, <2>3, <2>4, <2>5, WaitGone
<1>4. CASE CheckAgent
  BY <1>4, WaitAnswered
<1>5. CASE GetAgentValue
  <2> DEFINE m == Request("gotValue", Head(mbox["gate"]).fds)
  <2>1. /\ mbox["gate"] # <<>> /\ Head(mbox["gate"]).fds \in Pairs
        /\ mbox' = SentTo(Taken("gate"), "lobby", <<m>>) /\ agentMap' = agentMap
    BY <1>5, GateHead DEF GetAgentValue, Heads, gateVars
  <2>2. PICK f \in Fds : TRUE
    BY <2>1 DEF Pairs
  <2>3. m \in LobbyMsg
    BY <2>1, <2>2, Sorts
  <2> HIDE DEF m
  <2>4. Boxes(mbox') /\ mbox'["queue"] = mbox["queue"]
    BY <1>0, <2>1, <2>3, Passed
  <2> QED BY <1>1, <2>1, <2>4
<1>6. CASE Send
  <2>1. mbox["gate"] # <<>> /\ mbox' = Taken("gate") /\ agentMap' = agentMap
    BY <1>6 DEF Send, Heads, gateVars
  <2>2. Boxes(mbox') /\ mbox'["queue"] = mbox["queue"]
    BY <1>0, <2>1, TakenBoxes DEF MailInv
  <2> QED BY <1>1, <2>1, <2>2
<1>7. ASSUME NEW f \in Fds, OnReceiveConnect(f)
      PROVE  MailInv' /\ WaitInv'
  <2>1. mbox' = mbox /\ \E n \in {0, connects[f]} : NewAgent(f, n)
    BY <1>7 DEF OnReceiveConnect
  <2>2. \A g \in Fds : agentMap[g].here => agentMap'[g].here
    BY <2>1 DEF NewAgent, CountInv
  <2> QED BY <1>1, <2>1, <2>2 DEF MailInv
<1>8. ASSUME NEW f \in Fds, OnReceive(f)
      PROVE  MailInv' /\ WaitInv'
  <2>1. mbox' = mbox /\ agentMap' = [agentMap EXCEPT ![f].heartbeat = TRUE]
    BY <1>8 DEF OnReceive
  <2>2. \A g \in Fds : agentMap[g].here => agentMap'[g].here
    BY <2>1 DEF CountInv, Agent
  <2> QED BY <1>1, <2>1, <2>2 DEF MailInv
<1>9. ASSUME NEW f \in Fds, RecvHandshake(f)
      PROVE  MailInv' /\ WaitInv'
  <2> DEFINE ms == <<Event("OnHandshake", f)>>
  <2>1. mbox' = SentTo(mbox, "queue", ms) /\ agentMap' = agentMap
    BY <1>9 DEF RecvHandshake
  <2>2. <<f, f>> \in Pairs
    BY DEF Pairs
  <2>3. Event("OnHandshake", f) \in QueueMsg
    BY <2>2, Sorts
  <2>4. ms \in Seq(QueueMsg) /\ Len(ms) = 1 /\ ms[1] = Event("OnHandshake", f)
    BY <2>3
  <2> HIDE DEF ms
  <2>5. Boxes(mbox') /\ mbox'["queue"] = mbox["queue"] \o ms
    BY <1>0, <2>1, <2>4, SentBoxes DEF MailInv
  <2>6. \A k \in 1..Len(ms) : ms[k].cmd # "checked"
    BY <2>4 DEF Event
  <2>7. WaitInv'
    BY <2>1, <2>4, <2>5, <2>6, WaitSent
  <2> QED BY <2>5, <2>7 DEF MailInv, Boxes, lobbyVars
<1>10. ASSUME NEW f \in Fds, RecvInput(f)
       PROVE  MailInv' /\ WaitInv'
  <2> DEFINE ms == <<Event("OnReceive", f)>>
  <2>1. mbox' = SentTo(mbox, "lobby", ms) /\ agentMap' = agentMap
    BY <1>10 DEF RecvInput
  <2>2. <<f, f>> \in Pairs
    BY DEF Pairs
  <2>3. Event("OnReceive", f) \in LobbyMsg
    BY <2>2, Sorts
  <2>4. ms \in Seq(LobbyMsg)
    BY <2>3
  <2> HIDE DEF ms
  <2>5. Boxes(mbox') /\ mbox'["queue"] = mbox["queue"]
    BY <1>0, <2>1, <2>4, SentBoxes DEF MailInv, Services
  <2> QED BY <1>1, <2>1, <2>5
<1>11. CASE PhoneStep
  <2>1. mbox' = mbox /\ agentMap' = agentMap
    BY <1>11 DEF PhoneStep, Connect, OnConnect, OnStart, SendInput, Leave, gateVars
  <2> QED BY <1>1, <2>1 DEF MailInv
<1> QED
  BY <1>2, <1>3, <1>4, <1>5, <1>6, <1>7, <1>8, <1>9, <1>10, <1>11
  DEF GateStep, GateCommand

-----------------------------------------------------------------------------
\* The queue's steps: what it keeps, it kept before or has just been told.
LEMMA WaitQueueStep ==
  ASSUME QueueInv, QueueStep, UNCHANGED <<gateVars, phoneVars, lobbyVars>>
  PROVE  MailInv' /\ WaitInv'
<1> USE DEF QueueInv
<1> DEFINE m == Head(mbox["queue"])
<1>0. /\ "queue" \in Services /\ "gate" \in Services \ {"queue"}
      /\ "lobby" \in Services \ {"queue"}
      /\ Msg("gate") = GateMsg /\ Msg("lobby") = LobbyMsg
  BY DEF Services, Msg
<1>1. /\ mbox["queue"] # <<>> /\ agentMap' = agentMap
      /\ readyFd \in Fds \cup {NoFd}
  BY DEF QueueStep, QueueOnHandshake, QueueChecked, QueueOnDisconnect, Heads, gateVars,
     WaitInv
<1>2. ASSUME Boxes(mbox'), mbox'["queue"] = Tail(mbox["queue"]),
             readyFd' \in Fds \cup {NoFd},
             \/ readyFd' = NoFd
             \/ readyFd' = readyFd /\ m # Event("OnDisconnect", readyFd)
             \/ m.cmd = "checked" /\ m.ok /\ readyFd' = m.fds[1]
      PROVE  MailInv' /\ WaitInv'
  <2>1. MailInv'
    BY <1>2 DEF MailInv, Boxes, lobbyVars
  <2> QED BY <1>1, <1>2, <2>1, WaitTaken
<1>3. /\ Boxes(Taken("queue")) /\ Taken("queue")["queue"] = Tail(mbox["queue"])
  BY <1>0, <1>1, TakenBoxes DEF MailInv
<1>4. m.cmd # "OnDisconnect" => m # Event("OnDisconnect", readyFd)
  BY DEF Event
<1>5. CASE QueueOnHandshake
  <2> DEFINE r == Request("CheckAgent.queue", <<m.fd>>)
  <2>1. /\ m.cmd = "OnHandshake" /\ readyFd' = readyFd
        /\ mbox' = SentTo(Taken("queue"), "gate", <<r>>)
    BY <1>5 DEF QueueOnHandshake, Heads
  <2>2. m.fd \in Fds /\ <<m.fd, m.fd>> \in Pairs
    BY <1>1, <2>1, QueueHead DEF Pairs
  <2>3. r \in GateMsg
    BY <2>2, Sorts
  <2> HIDE DEF r, m
  <2>4. Boxes(mbox') /\ mbox'["queue"] = Tail(mbox["queue"])
    BY <1>0, <1>1, <2>1, <2>3, Passed
  <2> QED BY <1>1, <1>2, <1>4, <2>1, <2>4
<1>6. CASE QueueChecked
  <2>1. m.cmd = "checked" /\ m.fds[1] \in Fds
    BY <1>1, <1>6, QueueHead DEF QueueChecked, Heads
  <2>2. CASE ~m.ok
    <3>1. mbox' = Taken("queue") /\ readyFd' = readyFd
      BY <1>6, <2>2 DEF QueueChecked
    <3> QED BY <1>1, <1>2, <1>3, <1>4, <2>1, <3>1
  <2>3. CASE m.ok /\ readyFd = NoFd
    <3>1. mbox' = Taken("queue") /\ readyFd' = m.fds[1]
      BY <1>6, <2>3 DEF QueueChecked
    <3> QED BY <1>2, <1>3, <2>1, <2>3, <3>1
  <2>4. CASE m.ok /\ readyFd # NoFd
    <3> DEFINE r == Request("NewRoom", <<readyFd, m.fds[1]>>)
    <3>1. mbox' = SentTo(Taken("queue"), "lobby", <<r>>) /\ readyFd' = NoFd
      BY <1>6, <2>4 DEF QueueChecked
    <3>2. <<readyFd, m.fds[1]>> \in Pairs
      BY <1>1, <2>1, <2>4 DEF Pairs
    <3>3. r \in LobbyMsg
      BY <2>1, <3>2, Sorts
    <3> HIDE DEF r, m
    <3>4. Boxes(mbox') /\ mbox'["queue"] = Tail(mbox["queue"])
      BY <1>0, <1>1, <3>1, <3>3, Passed
    <3> QED BY <1>2, <3>1, <3>4
  <2> QED BY <2>2, <2>3, <2>4
<1>7. CASE QueueOnDisconnect
  <2>1. /\ m.cmd = "OnDisconnect" /\ mbox' = Taken("queue")
        /\ readyFd' = IF readyFd = m.fd THEN NoFd ELSE readyFd
    BY <1>7 DEF QueueOnDisconnect, Heads
  <2>2. readyFd # m.fd => m # Event("OnDisconnect", readyFd)
    BY DEF Event
  <2> QED BY <1>1, <1>2, <1>3, <2>1, <2>2
<1> QED BY <1>5, <1>6, <1>7 DEF QueueStep

-----------------------------------------------------------------------------
\* The lobby's steps do not touch the queue; what they send names pairs.
LEMMA RoomsTold ==
  ASSUME rooms \in Seq(Room), NEW r, NEW c \in {"Start", "Receive", "Exit"}
  PROVE  Told(r, c) \in Seq(Room)
<1>1. /\ Len(rooms) \in Nat /\ DOMAIN rooms = 1..Len(rooms)
      /\ \A i \in 1..Len(rooms) : rooms[i] \in Room
  OBVIOUS
<1> DEFINE inbox == IF rooms[r].state = "gone" THEN rooms[r].inbox
                    ELSE Append(rooms[r].inbox, c)
<1>2. Told(r, c) = [rooms EXCEPT ![r] = [@ EXCEPT !.inbox = inbox]]
  BY DEF Told
<1>3. CASE r \in 1..Len(rooms)
  <2>1. rooms[r] \in Room
    BY <1>1, <1>3
  <2>2. inbox \in Seq({"Start", "Receive", "Exit"})
    BY <2>1 DEF Room
  <2> HIDE DEF inbox
  <2>3. [rooms[r] EXCEPT !.inbox = inbox] \in Room
    BY <2>1, <2>2 DEF Room
  <2> QED BY <1>2, <1>3, <2>3
<1>4. CASE r \notin 1..Len(rooms)
  <2>1. Told(r, c) = rooms
    BY <1>1, <1>2, <1>4
  <2> QED BY <2>1
<1> QED BY <1>3, <1>4

LEMMA WaitLobbyStep ==
  ASSUME QueueInv, LobbyStep, UNCHANGED <<gateVars, phoneVars, readyFd>>
  PROVE  MailInv' /\ WaitInv'
<1> USE DEF QueueInv
<1> DEFINE m == Head(mbox["lobby"])
<1>0. /\ "lobby" \in Services /\ "gate" \in Services \ {"lobby"}
      /\ "queue" \in Services \ {"lobby", "gate"} /\ "lobby" \in Services \ {"gate"}
      /\ "queue" \in Services \ {"lobby"} /\ "queue" \in Services \ {"gate"}
      /\ "gate" \in Services
      /\ Msg("gate") = GateMsg /\ Msg("lobby") = LobbyMsg
  BY DEF Services, Msg
<1>1. ASSUME Boxes(mbox'), mbox'["queue"] = mbox["queue"],
             leftFdMap' \in [Fds -> Fds \cup {NoFd}],
             rightFdMap' \in [Fds -> Fds \cup {NoFd}], rooms' \in Seq(Room)
      PROVE  MailInv' /\ WaitInv'
  <2>1. MailInv'
    BY <1>1 DEF MailInv, Boxes
  <2> QED BY <1>1, <2>1, WaitKept DEF gateVars
<1>2. /\ leftFdMap \in [Fds -> Fds \cup {NoFd}] /\ rightFdMap \in [Fds -> Fds \cup {NoFd}]
      /\ rooms \in Seq(Room) /\ Boxes(mbox)
  BY DEF MailInv
<1>3. ASSUME mbox["lobby"] # <<>>
      PROVE  Boxes(Taken("lobby")) /\ Taken("lobby")["queue"] = mbox["queue"]
  BY <1>0, <1>3, TakenBoxes DEF MailInv, Services
<1>4. ASSUME mbox["lobby"] # <<>>,
             NEW c \in {"CheckAgent.lobby", "GetAgentValue", "Kick", "Send"},
             NEW pr \in Pairs, mbox' = SentTo(Taken("lobby"), "gate", <<Request(c, pr)>>)
      PROVE  Boxes(mbox') /\ mbox'["queue"] = mbox["queue"]
  <2>1. PICK f \in Fds : TRUE
    BY DEF Pairs
  <2>2. Request(c, pr) \in GateMsg
    BY <2>1, Sorts
  <2> QED BY <1>0, <1>4, <2>2, Passed
<1>5. CASE NewRoom
  <2>1. /\ mbox["lobby"] # <<>> /\ m.fds \in Pairs /\ UNCHANGED lobbyVars
        /\ mbox' = SentTo(Taken("lobby"), "gate", <<Request("CheckAgent.lobby", m.fds)>>)
    BY <1>5, LobbyHead DEF NewRoom, Heads
  <2> QED BY <1>1, <1>2, <1>4, <2>1 DEF lobbyVars
<1>6. CASE NewRoomChecked
  <2> DEFINE c == IF m.ok THEN "GetAgentValue" ELSE "Kick"
  <2>1. /\ mbox["lobby"] # <<>> /\ m.fds \in Pairs /\ UNCHANGED lobbyVars
        /\ mbox' = SentTo(Taken("lobby"), "gate", <<Request(c, m.fds)>>)
    BY <1>6, LobbyHead DEF NewRoomChecked, Heads
  <2>2. c \in {"GetAgentValue", "Kick"}
    OBVIOUS
  <2> HIDE DEF c
  <2> QED BY <1>1, <1>2, <1>4, <2>1, <2>2 DEF lobbyVars
<1>7. CASE NewRoomGotValue
  <2> DEFINE new == [fds |-> m.fds, state |-> "launching", inbox |-> <<>>]
  <2>1. /\ mbox["lobby"] # <<>> /\ m.fds \in Pairs /\ mbox' = Taken("lobby")
        /\ leftFdMap' = [leftFdMap EXCEPT ![m.fds[1]] = m.fds[2]]
        /\ rightFdMap' = [rightFdMap EXCEPT ![m.fds[2]] = m.fds[1]]
        /\ rooms' = Append(rooms, new)
    BY <1>7, LobbyHead DEF NewRoomGotValue, Heads
  <2>2. m.fds[1] \in Fds /\ m.fds[2] \in Fds
    BY <2>1 DEF Pairs
  <2>3. new \in Room
    BY <2>1 DEF Room
  <2> HIDE DEF m, new
  <2>4. rooms' \in Seq(Room)
    BY <1>2, <2>1, <2>3
  <2>5. /\ leftFdMap' \in [Fds -> Fds \cup {NoFd}]
        /\ rightFdMap' \in [Fds -> Fds \cup {NoFd}]
    BY <1>2, <2>1, <2>2
  <2> QED BY <1>1, <1>3, <2>1, <2>4, <2>5
<1>8. CASE NewRoomLaunched
  <2>1. /\ mbox["lobby"] # <<>> /\ mbox' = Taken("lobby")
        /\ rooms' = Told(m.room, "Start") /\ UNCHANGED <<leftFdMap, rightFdMap>>
    BY <1>8 DEF NewRoomLaunched, Heads
  <2>2. rooms' \in Seq(Room)
    BY <1>2, <2>1, RoomsTold
  <2> QED BY <1>1, <1>2, <1>3, <2>1, <2>2
<1>9. CASE LobbyOnDisconnect
  <2>1. mbox["lobby"] # <<>> /\ m.fd \in Fds
    BY <1>9, LobbyHead DEF LobbyOnDisconnect, Heads
  <2> DEFINE f == m.fd
  <2>2. CASE GetRoom(f) = 0
    <3>1. mbox' = Taken("lobby") /\ UNCHANGED lobbyVars
      BY <1>9, <2>2 DEF LobbyOnDisconnect
    <3> QED BY <1>1, <1>2, <1>3, <2>1, <3>1 DEF lobbyVars
  <2>3. CASE GetRoom(f) # 0
    <3>1. /\ leftFdMap' = [leftFdMap EXCEPT ![PairOf(f)[1]] = NoFd]
          /\ rightFdMap' = [rightFdMap EXCEPT ![PairOf(f)[2]] = NoFd]
          /\ rooms' = Told(GetRoom(f), "Exit")
          /\ mbox' = SentTo(Taken("lobby"), "gate", <<Request("Kick", PairOf(f))>>)
      BY <1>9, <2>3 DEF LobbyOnDisconnect
    <3>2. HasPair(f)
      BY <2>3 DEF GetRoom
    <3> HIDE DEF m
    <3>3. PairOf(f) \in Pairs
      BY <1>2, <2>1, <3>2 DEF HasPair, PairOf, Pairs
    <3>4. rooms' \in Seq(Room)
      BY <1>2, <3>1, RoomsTold
    <3>5. /\ leftFdMap' \in [Fds -> Fds \cup {NoFd}]
          /\ rightFdMap' \in [Fds -> Fds \cup {NoFd}]
      BY <1>2, <3>1
    <3> QED BY <1>1, <1>4, <2>1, <3>1, <3>3, <3>4, <3>5
  <2> QED BY <2>2, <2>3
<1>10. CASE LobbyOnReceive
  <2>1. /\ mbox["lobby"] # <<>> /\ mbox' = Taken("lobby")
        /\ rooms' = rooms \/ \E r : rooms' = Told(r, "Receive")
        /\ UNCHANGED <<leftFdMap, rightFdMap>>
    BY <1>10 DEF LobbyOnReceive, Heads
  <2>2. rooms' \in Seq(Room)
    BY <1>2, <2>1, RoomsTold
  <2> QED BY <1>1, <1>2, <1>3, <2>1, <2>2
<1>11. ASSUME NEW r \in 1..Len(rooms), Launch(r)
       PROVE  MailInv' /\ WaitInv'
  <2> DEFINE l == Launched(rooms[r].fds, r)
  <2>1. /\ rooms' = [rooms EXCEPT ![r].state = "launched"]
        /\ mbox' = SentTo(mbox, "lobby", <<l>>) /\ UNCHANGED <<leftFdMap, rightFdMap>>
    BY <1>11 DEF Launch
  <2>2. rooms[r] \in Room /\ r \in Nat
    BY <1>2
  <2>3. rooms[r].fds \in Pairs /\ [rooms[r] EXCEPT !.state = "launched"] \in Room
    BY <2>2 DEF Room
  <2>4. rooms' \in Seq(Room)
    BY <1>2, <2>1, <2>3
  <2>5. PICK f \in Fds : TRUE
    BY <2>3 DEF Pairs
  <2>6. l \in LobbyMsg
    BY <2>2, <2>3, <2>5, Sorts
  <2> HIDE DEF l
  <2>7. <<l>> \in Seq(Msg("lobby"))
    BY <1>0, <2>6
  <2>8. Boxes(mbox') /\ mbox'["queue"] = mbox["queue"]
    BY <1>0, <1>2, <2>1, <2>7, SentBoxes DEF Services
  <2> QED BY <1>1, <1>2, <2>1, <2>4, <2>8
<1>12. ASSUME NEW r \in 1..Len(rooms), RoomHandles(r)
       PROVE  MailInv' /\ WaitInv'
  <2> DEFINE c == Head(rooms[r].inbox)
             inbox == IF c = "Exit" THEN <<>> ELSE Tail(rooms[r].inbox)
             state == CASE c = "Start" -> "up" [] c = "Exit" -> "gone"
                        [] OTHER -> rooms[r].state
             q == Request("Send", rooms[r].fds)
  <2>1. /\ rooms[r].inbox # <<>> /\ UNCHANGED <<leftFdMap, rightFdMap>>
        /\ mbox' = mbox \/ mbox' = SentTo(mbox, "gate", <<q>>)
    BY <1>12 DEF RoomHandles
  <2>2. rooms[r] \in Room
    BY <1>2
  <2>0. rooms' = [rooms EXCEPT ![r].inbox = inbox, ![r].state = state]
    BY <1>12, <1>2, <2>2 DEF RoomHandles, Room
  <2>3. /\ rooms[r].fds \in Pairs /\ inbox \in Seq({"Start", "Receive", "Exit"})
        /\ state \in {"launching", "launched", "up", "gone"}
    BY <2>1, <2>2 DEF Room
  <2> HIDE DEF inbox, state
  <2>5. rooms' \in Seq(Room)
    <3> DEFINE new == [[rooms[r] EXCEPT !.inbox = inbox] EXCEPT !.state = state]
    <3>1. rooms' = [rooms EXCEPT ![r] = new]
      BY <1>2, <2>0, <2>2
    <3>2. \A x \in Room : [x EXCEPT !.inbox = inbox] \in Room
      BY <2>3 DEF Room
    <3>3. \A x \in Room : [x EXCEPT !.state = state] \in Room
      BY <2>3 DEF Room
    <3>4. new \in Room
      BY <2>2, <3>2, <3>3
    <3> HIDE DEF new
    <3> QED BY <1>2, <3>1, <3>4
  <2>6. PICK f \in Fds : TRUE
    BY <2>3 DEF Pairs
  <2>7. q \in GateMsg
    BY <2>3, <2>6, Sorts
  <2> HIDE DEF q
  <2>8. <<q>> \in Seq(Msg("gate"))
    BY <1>0, <2>7
  <2>9. Boxes(mbox') /\ mbox'["queue"] = mbox["queue"]
    <3> DEFINE ms == <<q>>
    <3> HIDE DEF ms
    <3>1. ms \in Seq(Msg("gate")) /\ (mbox' = mbox \/ mbox' = SentTo(mbox, "gate", ms))
      BY <2>1, <2>8 DEF ms
    <3>2. /\ Boxes(SentTo(mbox, "gate", ms))
          /\ SentTo(mbox, "gate", ms)["queue"] = mbox["queue"]
      BY <1>0, <1>2, <3>1, SentBoxes
    <3> QED BY <1>2, <3>1, <3>2
  <2> QED BY <1>1, <1>2, <2>1, <2>5, <2>9
<1> QED
  BY <1>5, <1>6, <1>7, <1>8, <1>9, <1>10, <1>11, <1>12 DEF LobbyStep

-----------------------------------------------------------------------------
LEMMA WaitsInit == Init => QueueInv
<1> SUFFICES ASSUME Init
             PROVE  QueueInv
  OBVIOUS
<1>1. Boxes(mbox) /\ Len(mbox["queue"]) = 0
  BY DEF Init, SkynetInit, Boxes, Services
<1>2. MailInv
  BY <1>1 DEF Init, LobbyInit, MailInv
<1>3. WaitInv
  BY <1>1 DEF Init, QueueInit, WaitInv, AnswersHold
<1> QED BY <1>2, <1>3, CountInit DEF QueueInv

LEMMA WaitsStep == QueueInv /\ [Next]_vars => QueueInv'
<1> SUFFICES ASSUME QueueInv, [Next]_vars
             PROVE  QueueInv'
  OBVIOUS
<1>1. CountInv'
  BY CountStep DEF QueueInv
<1>2. CASE UNCHANGED vars
  BY <1>1, <1>2 DEF vars, gateVars, lobbyVars, QueueInv, MailInv, Boxes, WaitInv,
     AnswersHold, Reported
<1>3. CASE (GateStep \/ PhoneStep) /\ UNCHANGED <<readyFd, lobbyVars>>
  BY <1>1, <1>3, WaitGateStep DEF QueueInv
<1>4. CASE QueueStep /\ UNCHANGED <<gateVars, phoneVars, lobbyVars>>
  BY <1>1, <1>4, WaitQueueStep DEF QueueInv
<1>5. CASE LobbyStep /\ UNCHANGED <<gateVars, phoneVars, readyFd>>
  BY <1>1, <1>5, WaitLobbyStep DEF QueueInv
<1> QED BY <1>2, <1>3, <1>4, <1>5 DEF Next

\* The fd that queue.lua keeps in _readyFd can be matched, or the queue is
\* about to hear that it cannot, for any number of phones, fds used again and
\* again, late copies and kicks: although OnHandshake is suspended while the
\* gate answers, and the agent may go before it goes on.
THEOREM ReadyWaits == Spec => []ReadyFdWaits
<1>1. QueueInv => ReadyFdWaits
  <2> SUFFICES ASSUME QueueInv, readyFd # NoFd
               PROVE  agentMap[readyFd].here
                        \/ Pending("queue", Event("OnDisconnect", readyFd))
    BY DEF ReadyFdWaits
  <2>1. Reported(agentMap, mbox["queue"], readyFd, 0)
    BY DEF QueueInv, WaitInv
  <2>2. 0 + 1 = 1
    OBVIOUS
  <2> QED BY <2>1, <2>2 DEF Reported, Pending
<1> QED BY <1>1, WaitsInit, WaitsStep, PTL DEF Spec

-----------------------------------------------------------------------------
(***************************************************************************)
(* What a room hears, for every number of phones, rooms and fds used anew: *)
(* Start first, and nothing after Exit.  A room goes through the hands of  *)
(* the launcher, of a message on its way to the lobby and of the lobby's   *)
(* map, one after the other, and only the last of them can tell it more.   *)
(***************************************************************************)

\* The lobby's messages that a room has been launched, and not heard of yet.
Launches(box) == {i \in 1..Len(box) : box[i].cmd = "launched"}

\* A room that nobody has told anything.
Fresh(room) == room.state = "launched" /\ room.inbox = <<>>

\* Each such message is the only one about a fresh room, of these players.
BoxInv(box, rms) ==
  /\ \A i \in Launches(box) :
       LET r == box[i].room
       IN  r \in 1..Len(rms) /\ rms[r].fds = box[i].fds /\ Fresh(rms[r])
  /\ \A i, j \in Launches(box) : box[i].room = box[j].room => i = j

\* A room that is told what its players send.
Open(room) ==
  /\ room.state \in {"launched", "up"}
  /\ \A i \in 1..Len(room.inbox) : room.inbox[i] # "Exit"
  /\ room.state = "launched" => room.inbox # <<>> /\ Head(room.inbox) = "Start"

\* The map leads to open rooms, and to each from its own players only.
MapInv(map, rms) ==
  \A pr \in Pairs : map[pr] # 0 =>
    map[pr] \in 1..Len(rms) /\ rms[map[pr]].fds = pr /\ Open(rms[map[pr]])

\* No message says that room r is launched.
Unnamed(box, r) == \A i \in Launches(box) : box[i].room # r

\* If the map leads to r, it may as well lead to room in its place.
Leads(map, r, room) == \A pr \in Pairs : map[pr] = r => Open(room)

\* What a room has before it, whether or not it can be told more.
HeardInv(room) ==
  /\ room.state = "launching" => room.inbox = <<>>
  /\ room.state = "launched" /\ room.inbox # <<>> => Head(room.inbox) = "Start"
  /\ \A i \in 1..Len(room.inbox) : room.inbox[i] = "Exit" => i = Len(room.inbox)

RoomInv ==
  /\ roomMap \in [Pairs -> Nat]
  /\ BoxInv(mbox["lobby"], rooms)
  /\ MapInv(roomMap, rooms)
  /\ \A r \in 1..Len(rooms) : HeardInv(rooms[r])

-----------------------------------------------------------------------------
\* Messages of other kinds change nothing about those of launched rooms.
LEMMA BoxAppend ==
  ASSUME NEW box \in Seq(LobbyMsg), NEW ms \in Seq(LobbyMsg), NEW rms,
         \A k \in 1..Len(ms) : ms[k].cmd # "launched", BoxInv(box, rms)
  PROVE  BoxInv(box \o ms, rms)
<1> DEFINE b2 == box \o ms
<1>1. /\ Len(box) \in Nat /\ Len(ms) \in Nat /\ Len(b2) = Len(box) + Len(ms)
      /\ \A i \in 1..Len(box) : b2[i] = box[i]
      /\ \A i \in 1..Len(ms) : b2[Len(box) + i] = ms[i]
  OBVIOUS
<1> HIDE DEF b2
<1>2. \A i \in Launches(b2) : i \in Launches(box) /\ b2[i] = box[i]
  <2> TAKE i \in Launches(b2)
  <2>1. i \in 1..Len(b2) /\ b2[i].cmd = "launched"
    BY DEF Launches
  <2>2. CASE i \in 1..Len(box)
    BY <1>1, <2>1, <2>2 DEF Launches
  <2>3. CASE i \notin 1..Len(box)
    <3>1. i - Len(box) \in 1..Len(ms) /\ i = Len(box) + (i - Len(box))
      BY <1>1, <2>1, <2>3
    <3>2. b2[i] = ms[i - Len(box)]
      BY <1>1, <3>1
    <3> QED BY <2>1, <3>1, <3>2
  <2> QED BY <2>2, <2>3
<1>3. BoxInv(b2, rms)
  BY <1>2 DEF BoxInv
<1> QED BY <1>3 DEF b2

\* Taking a message: if it says that a room is launched, no other one does.
LEMMA BoxTail ==
  ASSUME NEW box \in Seq(LobbyMsg), box # <<>>, NEW rms, BoxInv(box, rms)
  PROVE  /\ BoxInv(Tail(box), rms)
         /\ Head(box).cmd = "launched" =>
              /\ Head(box).room \in 1..Len(rms)
              /\ rms[Head(box).room].fds = Head(box).fds /\ Fresh(rms[Head(box).room])
              /\ \A i \in Launches(Tail(box)) : Tail(box)[i].room # Head(box).room
<1> DEFINE b2 == Tail(box)
<1>1. /\ Len(box) \in Nat \ {0} /\ Len(b2) = Len(box) - 1 /\ Head(box) = box[1]
      /\ \A i \in 1..Len(b2) : b2[i] = box[i + 1]
  OBVIOUS
<1> HIDE DEF b2
<1>2. \A i \in Launches(b2) :
        i + 1 \in Launches(box) /\ b2[i] = box[i + 1] /\ i \in 1..Len(b2) /\ i + 1 # 1
  BY <1>1 DEF Launches
<1>3. \A i, j \in Launches(b2) : i + 1 = j + 1 => i = j
  BY <1>2
<1>4. BoxInv(b2, rms)
  BY <1>2, <1>3, SMTT(30) DEF BoxInv
<1>5. ASSUME Head(box).cmd = "launched"
      PROVE  1 \in Launches(box)
  BY <1>1, <1>5 DEF Launches
<1>6. Head(box).cmd = "launched" =>
        /\ Head(box).room \in 1..Len(rms)
        /\ rms[Head(box).room].fds = Head(box).fds /\ Fresh(rms[Head(box).room])
        /\ \A i \in Launches(b2) : b2[i].room # Head(box).room
  <2> SUFFICES ASSUME Head(box).cmd = "launched"
               PROVE  /\ Head(box).room \in 1..Len(rms)
                      /\ rms[Head(box).room].fds = Head(box).fds
                      /\ Fresh(rms[Head(box).room])
                      /\ \A i \in Launches(b2) : b2[i].room # Head(box).room
    OBVIOUS
  <2>1. 1 \in Launches(box)
    BY <1>5
  <2>2. \A i \in Launches(b2) : box[i + 1].room # box[1].room
    BY <1>2, <2>1 DEF BoxInv
  <2> QED BY <1>1, <1>2, <2>1, <2>2 DEF BoxInv
<1> QED BY <1>4, <1>6 DEF b2


-----------------------------------------------------------------------------
\* Steps that only send to the lobby, about other things than launches.
LEMMA RoomSent ==
  ASSUME RoomInv, MailInv, UNCHANGED <<roomMap, rooms>>, NEW ms \in Seq(LobbyMsg),
         \A k \in 1..Len(ms) : ms[k].cmd # "launched",
         mbox'["lobby"] = mbox["lobby"] \o ms
  PROVE  RoomInv'
<1>1. mbox["lobby"] \in Seq(LobbyMsg)
  BY DEF MailInv, Boxes, Services, Msg
<1>2. BoxInv(mbox["lobby"] \o ms, rooms)
  BY <1>1, BoxAppend DEF RoomInv
<1> QED BY <1>2 DEF RoomInv

\* Steps that have nothing to do with the lobby.
LEMMA RoomKept ==
  ASSUME RoomInv, UNCHANGED <<roomMap, rooms>>, mbox'["lobby"] = mbox["lobby"]
  PROVE  RoomInv'
BY DEF RoomInv

LEMMA RoomOneSent ==
  ASSUME RoomInv, MailInv, UNCHANGED <<roomMap, rooms>>, NEW m \in LobbyMsg,
         m.cmd # "launched", mbox'["lobby"] = mbox["lobby"] \o <<m>>
  PROVE  RoomInv'
<1> DEFINE ms == <<m>>
<1>1. ms \in Seq(LobbyMsg) /\ Len(ms) = 1 /\ ms[1] = m
  OBVIOUS
<1> HIDE DEF ms
<1>2. \A k \in 1..Len(ms) : ms[k].cmd # "launched"
  BY <1>1
<1>3. mbox'["lobby"] = mbox["lobby"] \o ms
  BY DEF ms
<1> QED BY <1>1, <1>2, <1>3, RoomSent

\* The events of agents that are gone.
LEMMA RoomGone ==
  ASSUME RoomInv, MailInv, UNCHANGED <<roomMap, rooms>>, NEW b, Boxes(b),
         b["lobby"] = mbox["lobby"], NEW fs \in Seq(Fds), mbox' = Disconnects(b, fs)
  PROVE  RoomInv'
<1> DEFINE ms == Events(fs)
           b1 == SentTo(b, "lobby", ms)
<1>0. "lobby" \in Services /\ "queue" \in Services /\ "lobby" \in Services \ {"queue"}
  BY DEF Services
<1>1. /\ ms \in Seq(Msg("lobby")) /\ ms \in Seq(Msg("queue")) /\ ms \in Seq(LobbyMsg)
      /\ Len(ms) = Len(fs)
      /\ \A i \in 1..Len(fs) : ms[i] = Event("OnDisconnect", fs[i])
  BY EventsType DEF Msg
<1>2. mbox' = SentTo(b1, "queue", ms)
  BY DEF Disconnects, Events
<1>3. Boxes(b1) /\ b1["lobby"] = mbox["lobby"] \o ms
  <2> HIDE DEF ms
  <2>1. /\ Boxes(SentTo(b, "lobby", ms))
        /\ SentTo(b, "lobby", ms)["lobby"] = b["lobby"] \o ms
    BY <1>0, <1>1, SentBoxes
  <2> QED BY <2>1
<1> HIDE DEF ms, b1
<1>4. mbox'["lobby"] = mbox["lobby"] \o ms
  <2>1. \A u \in Services \ {"queue"} : SentTo(b1, "queue", ms)[u] = b1[u]
    BY <1>0, <1>1, <1>3, SentBoxes
  <2> QED BY <1>0, <1>2, <1>3, <2>1
<1>5. \A k \in 1..Len(ms) : ms[k].cmd # "launched"
  <2> TAKE k \in 1..Len(ms)
  <2>1. ms[k] = [cmd |-> "OnDisconnect", fd |-> fs[k]]
    BY <1>1 DEF Event
  <2> QED BY <2>1
<1> QED BY <1>1, <1>4, <1>5, RoomSent

LEMMA RoomGateStep ==
  ASSUME RoomInv, QueueInv, GateStep \/ PhoneStep, UNCHANGED lobbyVars
  PROVE  RoomInv'
<1> USE DEF QueueInv
<1>0. /\ "gate" \in Services /\ "queue" \in Services \ {"gate"} /\ "queue" \in Services
      /\ "lobby" \in Services \ {"gate"} /\ "lobby" \in Services \ {"gate", "queue"}
      /\ "lobby" \in Services /\ "lobby" \in Services \ {"queue"}
      /\ Msg("queue") = QueueMsg /\ Msg("lobby") = LobbyMsg /\ Boxes(mbox)
      /\ UNCHANGED <<roomMap, rooms>>
  BY DEF Services, Msg, MailInv, lobbyVars
<1>1. CASE Heartbeat
  <2> DEFINE silent == {f \in Agents : ~agentMap[f].heartbeat}
  <2>1. PICK fs \in [1..Cardinality(silent) -> silent] : mbox' = Disconnects(mbox, fs)
    BY <1>1 DEF Heartbeat
  <2>2. silent \subseteq Fds /\ Cardinality(silent) \in Nat
    <3>1. silent \subseteq Fds
      BY DEF Agents
    <3> QED BY <3>1, FdsAssumption, FS_Subset, FS_CardinalityType
  <2> HIDE DEF silent
  <2>3. fs \in Seq(Fds)
    BY <2>1, <2>2
  <2> QED BY <1>0, <2>1, <2>3, RoomGone
<1>2. CASE KickCommand
  <2> DEFINE fs == Head(mbox["gate"]).fds
  <2>1. /\ mbox["gate"] # <<>> /\ fs \in Pairs
        /\ mbox' = Disconnects(Taken("gate"), There(fs))
    BY <1>2, GateHead DEF KickCommand, Heads
  <2> HIDE DEF fs
  <2>2. Boxes(Taken("gate")) /\ Taken("gate")["lobby"] = mbox["lobby"]
    BY <1>0, <2>1, TakenBoxes
  <2>3. There(fs) \in Seq(Fds)
    BY <2>1, ThereAll
  <2> QED BY <1>0, <2>1, <2>2, <2>3, RoomGone
<1>3. CASE CheckAgent
  <2> DEFINE fs == Head(mbox["gate"]).fds
             ok == \A i \in 1..Len(fs) : agentMap[fs[i]].here
             m  == Checked(fs, ok)
  <2>1. mbox["gate"] # <<>> /\ ok \in BOOLEAN /\ m.cmd # "launched"
    BY <1>3 DEF CheckAgent, CheckAgentFor, Heads, Checked
  <2>2. CASE CheckAgentFor("queue", "CheckAgent.queue")
    <3>1. fs \in Single /\ mbox' = SentTo(Taken("gate"), "queue", <<m>>)
      BY <2>1, <2>2, GateHead DEF CheckAgentFor, Heads
    <3>2. PICK f \in Fds : fs = <<f>>
      BY <3>1 DEF Single
    <3>3. <<f, f>> \in Pairs
      BY DEF Pairs
    <3>4. m \in QueueMsg
      BY <2>1, <3>1, <3>3, Sorts
    <3> HIDE DEF m, ok, fs
    <3>5. mbox'["lobby"] = mbox["lobby"]
      BY <1>0, <2>1, <3>1, <3>4, Passed
    <3> QED BY <1>0, <3>5, RoomKept
  <2>3. CASE CheckAgentFor("lobby", "CheckAgent.lobby")
    <3>1. fs \in Pairs /\ mbox' = SentTo(Taken("gate"), "lobby", <<m>>)
      BY <2>1, <2>3, GateHead DEF CheckAgentFor, Heads
    <3>2. PICK f \in Fds : TRUE
      BY <3>1 DEF Pairs
    <3>3. m \in LobbyMsg
      BY <2>1, <3>1, <3>2, Sorts
    <3> HIDE DEF m, ok, fs
    <3>4. mbox'["lobby"] = mbox["lobby"] \o <<m>>
      BY <1>0, <2>1, <3>1, <3>3, Passed
    <3> QED BY <1>0, <2>1, <3>3, <3>4, RoomOneSent
  <2> QED BY <1>3, <2>2, <2>3 DEF CheckAgent
<1>4. CASE GetAgentValue
  <2> DEFINE m == Request("gotValue", Head(mbox["gate"]).fds)
  <2>1. /\ mbox["gate"] # <<>> /\ Head(mbox["gate"]).fds \in Pairs
        /\ mbox' = SentTo(Taken("gate"), "lobby", <<m>>) /\ m.cmd # "launched"
    BY <1>4, GateHead DEF GetAgentValue, Heads, Request
  <2>2. PICK f \in Fds : TRUE
    BY <2>1 DEF Pairs
  <2>3. m \in LobbyMsg
    BY <2>1, <2>2, Sorts
  <2> HIDE DEF m
  <2>4. mbox'["lobby"] = mbox["lobby"] \o <<m>>
    BY <1>0, <2>1, <2>3, Passed
  <2> QED BY <1>0, <2>1, <2>3, <2>4, RoomOneSent
<1>5. CASE Send
  <2>1. mbox["gate"] # <<>> /\ mbox' = Taken("gate")
    BY <1>5 DEF Send, Heads
  <2>2. mbox'["lobby"] = mbox["lobby"]
    BY <1>0, <2>1, TakenBoxes
  <2> QED BY <1>0, <2>2, RoomKept
<1>6. ASSUME NEW f \in Fds, RecvHandshake(f)
      PROVE  RoomInv'
  <2> DEFINE ms == <<Event("OnHandshake", f)>>
  <2>1. mbox' = SentTo(mbox, "queue", ms)
    BY <1>6 DEF RecvHandshake
  <2>2. <<f, f>> \in Pairs
    BY DEF Pairs
  <2>3. Event("OnHandshake", f) \in QueueMsg
    BY <2>2, Sorts
  <2>4. ms \in Seq(QueueMsg)
    BY <2>3
  <2> HIDE DEF ms
  <2>5. mbox'["lobby"] = mbox["lobby"]
    BY <1>0, <2>1, <2>4, SentBoxes, SMTT(30)
  <2> QED BY <1>0, <2>5, RoomKept
<1>7. ASSUME NEW f \in Fds, RecvInput(f)
      PROVE  RoomInv'
  <2> DEFINE m == Event("OnReceive", f)
             ms == <<m>>
  <2>1. mbox' = SentTo(mbox, "lobby", ms) /\ m.cmd # "launched"
    BY <1>7 DEF RecvInput, Event
  <2>2. <<f, f>> \in Pairs
    BY DEF Pairs
  <2>3. m \in LobbyMsg
    BY <2>2, Sorts
  <2> HIDE DEF m
  <2>4. ms \in Seq(LobbyMsg)
    BY <2>3
  <2> HIDE DEF ms
  <2>5. mbox'["lobby"] = mbox["lobby"] \o ms
    BY <1>0, <2>1, <2>4, SentBoxes
  <2> QED BY <1>0, <2>1, <2>3, <2>5, RoomOneSent DEF ms
<1>8. CASE mbox' = mbox
  BY <1>0, <1>8, RoomKept
<1>9. CASE \/ PhoneStep
           \/ \E f \in Fds : OnReceiveConnect(f) \/ OnReceive(f)
  <2>1. mbox' = mbox
    BY <1>9 DEF PhoneStep, Connect, OnConnect, OnStart, SendInput, Leave,
       OnReceiveConnect, OnReceive
  <2> QED BY <1>8, <2>1
<1> QED
  BY <1>1, <1>2, <1>3, <1>4, <1>5, <1>6, <1>7, <1>9 DEF GateStep, GateCommand

LEMMA RoomQueueStep ==
  ASSUME RoomInv, QueueInv, QueueStep, UNCHANGED lobbyVars
  PROVE  RoomInv'
<1> USE DEF QueueInv
<1> DEFINE m == Head(mbox["queue"])
<1>0. /\ "queue" \in Services /\ "gate" \in Services \ {"queue"}
      /\ "lobby" \in Services \ {"queue"} /\ "lobby" \in Services \ {"queue", "gate"}
      /\ Msg("gate") = GateMsg /\ Msg("lobby") = LobbyMsg /\ Boxes(mbox)
      /\ UNCHANGED <<roomMap, rooms>> /\ readyFd \in Fds \cup {NoFd}
  BY DEF Services, Msg, MailInv, WaitInv, lobbyVars
<1>1. mbox["queue"] # <<>>
  BY DEF QueueStep, QueueOnHandshake, QueueChecked, QueueOnDisconnect, Heads
<1>2. CASE mbox' = Taken("queue")
  <2>1. mbox'["lobby"] = mbox["lobby"]
    BY <1>0, <1>1, <1>2, TakenBoxes
  <2> QED BY <1>0, <2>1, RoomKept
<1>3. CASE QueueOnHandshake
  <2> DEFINE r == Request("CheckAgent.queue", <<m.fd>>)
  <2>1. m.cmd = "OnHandshake" /\ mbox' = SentTo(Taken("queue"), "gate", <<r>>)
    BY <1>3 DEF QueueOnHandshake, Heads
  <2>2. m.fd \in Fds /\ <<m.fd, m.fd>> \in Pairs
    BY <1>1, <2>1, QueueHead DEF Pairs
  <2>3. r \in GateMsg
    BY <2>2, Sorts
  <2> HIDE DEF r, m
  <2>4. mbox'["lobby"] = mbox["lobby"]
    BY <1>0, <1>1, <2>1, <2>3, Passed
  <2> QED BY <1>0, <2>4, RoomKept
<1>4. CASE QueueChecked /\ mbox' # Taken("queue")
  <2> DEFINE r == Request("NewRoom", <<readyFd, m.fds[1]>>)
  <2>1. /\ m.cmd = "checked" /\ m.fds[1] \in Fds /\ readyFd # NoFd
        /\ mbox' = SentTo(Taken("queue"), "lobby", <<r>>)
    BY <1>1, <1>4, QueueHead DEF QueueChecked, Heads
  <2>2. <<readyFd, m.fds[1]>> \in Pairs
    BY <1>0, <2>1 DEF Pairs
  <2>3. r \in LobbyMsg
    BY <2>1, <2>2, Sorts
  <2>4. r.cmd # "launched"
    BY DEF Request
  <2> HIDE DEF r, m
  <2>5. mbox'["lobby"] = mbox["lobby"] \o <<r>>
    BY <1>0, <1>1, <2>1, <2>3, Passed
  <2> QED BY <1>0, <2>3, <2>4, <2>5, RoomOneSent
<1> QED BY <1>2, <1>3, <1>4 DEF QueueStep, QueueOnDisconnect

-----------------------------------------------------------------------------
\* One room changes, which no message is about; it stays open if the map
\* leads to it.
LEMMA RoomChanged ==
  ASSUME NEW rms \in Seq(Room), NEW r \in 1..Len(rms), NEW room \in Room,
         NEW rms2, rms2 = [rms EXCEPT ![r] = room], room.fds = rms[r].fds,
         \A i \in 1..Len(rms) : HeardInv(rms[i]), HeardInv(room),
         NEW box, BoxInv(box, rms), Unnamed(box, r),
         NEW map, MapInv(map, rms), Leads(map, r, room)
  PROVE  /\ \A i \in 1..Len(rms2) : HeardInv(rms2[i])
         /\ BoxInv(box, rms2) /\ MapInv(map, rms2)
<1>1. /\ rms2 \in Seq(Room) /\ Len(rms2) = Len(rms)
      /\ rms2[r] = room /\ \A i \in 1..Len(rms) : i # r => rms2[i] = rms[i]
  OBVIOUS
<1>2. \A i \in 1..Len(rms2) : HeardInv(rms2[i])
  <2> TAKE i \in 1..Len(rms2)
  <2> QED BY <1>1
<1>3. BoxInv(box, rms2)
  <2>1. \A i \in Launches(box) :
          box[i].room \in 1..Len(rms2) /\ rms2[box[i].room] = rms[box[i].room]
    BY <1>1 DEF BoxInv, Unnamed
  <2> QED BY <2>1 DEF BoxInv
<1>4. MapInv(map, rms2)
  <2> SUFFICES ASSUME NEW pr \in Pairs, map[pr] # 0
               PROVE  /\ map[pr] \in 1..Len(rms2) /\ rms2[map[pr]].fds = pr
                      /\ Open(rms2[map[pr]])
    BY DEF MapInv
  <2>1. map[pr] \in 1..Len(rms) /\ rms[map[pr]].fds = pr /\ Open(rms[map[pr]])
    BY DEF MapInv
  <2>2. CASE map[pr] = r
    BY <1>1, <2>1, <2>2 DEF Leads
  <2>3. CASE map[pr] # r
    BY <1>1, <2>1, <2>3
  <2> QED BY <2>2, <2>3
<1> QED BY <1>1, <1>2, <1>3, <1>4

\* What a room that is not gone is told comes last.
LEMMA TellsOne ==
  ASSUME rooms \in Seq(Room), NEW r \in 1..Len(rooms), rooms[r].state # "gone",
         NEW c \in {"Start", "Receive", "Exit"}
  PROVE  \E room \in Room :
           /\ Told(r, c) = [rooms EXCEPT ![r] = room]
           /\ room.fds = rooms[r].fds /\ room.state = rooms[r].state
           /\ room.inbox = Append(rooms[r].inbox, c)
<1> DEFINE inbox == Append(rooms[r].inbox, c)
           room  == [rooms[r] EXCEPT !.inbox = inbox]
<1>1. rooms[r] \in Room
  OBVIOUS
<1>2. /\ room \in Room /\ room.fds = rooms[r].fds /\ room.state = rooms[r].state
      /\ room.inbox = inbox
  <2>1. inbox \in Seq({"Start", "Receive", "Exit"})
    BY <1>1 DEF Room
  <2> HIDE DEF inbox
  <2> QED BY <1>1, <2>1 DEF Room
<1>3. Told(r, c) = [rooms EXCEPT ![r] = room]
  BY DEF Told
<1> QED BY <1>2, <1>3

\* A room that GetRoom finds is open, in the map under its own players, and
\* not one that a message says is launched.
LEMMA RoomOpen ==
  ASSUME RoomInv, MailInv, NEW f \in Fds, GetRoom(f) # 0
  PROVE  /\ PairOf(f) \in Pairs /\ roomMap[PairOf(f)] = GetRoom(f)
         /\ GetRoom(f) \in 1..Len(rooms) /\ rooms[GetRoom(f)] \in Room
         /\ Open(rooms[GetRoom(f)])
         /\ \A pr \in Pairs : roomMap[pr] = GetRoom(f) => pr = PairOf(f)
         /\ \A i \in Launches(mbox["lobby"]) : mbox["lobby"][i].room # GetRoom(f)
<1>1. HasPair(f) /\ roomMap[PairOf(f)] = GetRoom(f)
  BY DEF GetRoom
<1>2. PairOf(f) \in Pairs
  BY <1>1 DEF MailInv, HasPair, PairOf, Pairs
<1>3. /\ GetRoom(f) \in 1..Len(rooms) /\ rooms[GetRoom(f)].fds = PairOf(f)
      /\ Open(rooms[GetRoom(f)])
  BY <1>1, <1>2 DEF RoomInv, MapInv
<1>4. \A pr \in Pairs : roomMap[pr] = GetRoom(f) => pr = PairOf(f)
  BY <1>3 DEF RoomInv, MapInv
<1>5. ~Fresh(rooms[GetRoom(f)])
  BY <1>3 DEF Open, Fresh
<1>6. \A i \in Launches(mbox["lobby"]) : mbox["lobby"][i].room # GetRoom(f)
  BY <1>5 DEF RoomInv, BoxInv
<1>7. rooms[GetRoom(f)] \in Room
  BY <1>3 DEF MailInv
<1> QED BY <1>1, <1>2, <1>3, <1>4, <1>6, <1>7

\* The box once the lobby has taken its message and sent one to the gate.
LEMMA LobbyTook ==
  ASSUME RoomInv, MailInv, mbox["lobby"] # <<>>,
         \/ mbox' = Taken("lobby")
         \/ \E c \in {"CheckAgent.lobby", "GetAgentValue", "Kick"}, pr \in Pairs :
              mbox' = SentTo(Taken("lobby"), "gate", <<Request(c, pr)>>)
  PROVE  /\ mbox'["lobby"] = Tail(mbox["lobby"])
         /\ BoxInv(mbox'["lobby"], rooms)
         /\ \A i \in Launches(mbox'["lobby"]) :
              \E j \in Launches(mbox["lobby"]) : mbox'["lobby"][i] = mbox["lobby"][j]
<1>0. /\ "lobby" \in Services /\ "gate" \in Services \ {"lobby"}
      /\ Msg("gate") = GateMsg /\ Msg("lobby") = LobbyMsg /\ Boxes(mbox)
  BY DEF Services, Msg, MailInv
<1>1. mbox'["lobby"] = Tail(mbox["lobby"])
  <2>1. CASE mbox' = Taken("lobby")
    BY <1>0, <2>1, TakenBoxes
  <2>2. ASSUME NEW c \in {"CheckAgent.lobby", "GetAgentValue", "Kick"}, NEW pr \in Pairs,
               mbox' = SentTo(Taken("lobby"), "gate", <<Request(c, pr)>>)
        PROVE  mbox'["lobby"] = Tail(mbox["lobby"])
    <3>1. PICK f \in Fds : TRUE
      BY DEF Pairs
    <3>2. Request(c, pr) \in GateMsg
      BY <3>1, Sorts
    <3> QED BY <1>0, <2>2, <3>2, Passed
  <2> QED BY <2>1, <2>2
<1>2. mbox["lobby"] \in Seq(LobbyMsg)
  BY <1>0 DEF Boxes
<1>3. BoxInv(Tail(mbox["lobby"]), rooms)
  BY <1>2, BoxTail DEF RoomInv
<1>4. \A i \in Launches(Tail(mbox["lobby"])) :
        i + 1 \in Launches(mbox["lobby"]) /\ Tail(mbox["lobby"])[i] = mbox["lobby"][i + 1]
  BY <1>2 DEF Launches
<1> QED BY <1>1, <1>3, <1>4

-----------------------------------------------------------------------------
\* The lobby goes on with NewRoom when the room is launched: it tells the room
\* to start before the map leads anyone to it.
LEMMA RoomStarts ==
  ASSUME RoomInv, MailInv, NewRoomLaunched
  PROVE  RoomInv'
<1> DEFINE m == Head(mbox["lobby"])
<1>1. /\ mbox["lobby"] # <<>> /\ m.cmd = "launched" /\ mbox' = Taken("lobby")
      /\ roomMap' = [roomMap EXCEPT ![m.fds] = m.room] /\ rooms' = Told(m.room, "Start")
      /\ m.fds \in Pairs
  BY LobbyHead DEF NewRoomLaunched, Heads
<1>2. mbox["lobby"] \in Seq(LobbyMsg) /\ rooms \in Seq(Room)
  BY DEF MailInv, Boxes, Services, Msg
<1>3. mbox'["lobby"] = Tail(mbox["lobby"])
  BY <1>1, LobbyTook
<1>4. /\ BoxInv(Tail(mbox["lobby"]), rooms)
      /\ m.room \in 1..Len(rooms) /\ rooms[m.room].fds = m.fds /\ Fresh(rooms[m.room])
      /\ \A i \in Launches(Tail(mbox["lobby"])) : Tail(mbox["lobby"])[i].room # m.room
  BY <1>1, <1>2, BoxTail DEF RoomInv
<1> HIDE DEF m
<1>5. PICK room \in Room :
        /\ rooms' = [rooms EXCEPT ![m.room] = room]
        /\ room.fds = m.fds /\ room.state = "launched"
        /\ room.inbox = Append(<<>>, "Start")
  BY <1>1, <1>2, <1>4, TellsOne DEF Fresh
<1>6. Len(room.inbox) = 1 /\ room.inbox[1] = "Start" /\ Head(room.inbox) = "Start"
  BY <1>5
<1>7. HeardInv(room) /\ Open(room)
  BY <1>5, <1>6 DEF HeardInv, Open
<1>8. \A i \in 1..Len(rooms) : HeardInv(rooms[i])
  BY DEF RoomInv
<1>9. \A pr \in Pairs : roomMap[pr] # m.room
  <2> TAKE pr \in Pairs
  <2>1. ~Open(rooms[m.room])
    BY <1>4 DEF Open, Fresh
  <2>2. m.room # 0
    BY <1>2, <1>4
  <2> QED BY <2>1, <2>2 DEF RoomInv, MapInv
<1>10. /\ Len(rooms') = Len(rooms) /\ rooms'[m.room] = room
       /\ \A i \in 1..Len(rooms') : HeardInv(rooms'[i])
       /\ BoxInv(Tail(mbox["lobby"]), rooms') /\ MapInv(roomMap, rooms')
  <2>1. room.fds = rooms[m.room].fds /\ MapInv(roomMap, rooms)
    BY <1>4, <1>5 DEF RoomInv
  <2>2. /\ BoxInv(Tail(mbox["lobby"]), rooms)
        /\ \A i \in Launches(Tail(mbox["lobby"])) : Tail(mbox["lobby"])[i].room # m.room
        /\ \A pr \in Pairs : roomMap[pr] = m.room => Open(room)
    BY <1>4, <1>9
  <2> DEFINE box == Tail(mbox["lobby"])
             r   == m.room
  <2> HIDE DEF box, r
  <2>3. /\ \A i \in 1..Len(rooms') : HeardInv(rooms'[i])
        /\ BoxInv(box, rooms') /\ MapInv(roomMap, rooms')
    <3>1. r \in 1..Len(rooms) /\ rooms' = [rooms EXCEPT ![r] = room]
      BY <1>4, <1>5 DEF r
    <3>2. room.fds = rooms[r].fds /\ Leads(roomMap, r, room)
      BY <2>1, <2>2 DEF r, Leads
    <3>3. BoxInv(box, rooms) /\ Unnamed(box, r)
      BY <2>2 DEF r, box, Unnamed
    <3> QED BY <1>2, <1>7, <1>8, <2>1, <3>1, <3>2, <3>3, RoomChanged
  <2>4. Len(rooms') = Len(rooms) /\ rooms'[r] = room
    BY <1>2, <1>4, <1>5 DEF r
  <2> QED BY <2>3, <2>4 DEF r, box
<1>11. MapInv(roomMap', rooms') /\ roomMap' \in [Pairs -> Nat]
  <2>1. roomMap \in [Pairs -> Nat] /\ m.room \in Nat /\ Len(rooms) \in Nat
    BY <1>2, <1>4 DEF RoomInv
  <2>2. \A pr \in Pairs : roomMap'[pr] = IF pr = m.fds THEN m.room ELSE roomMap[pr]
    BY <1>1, <2>1
  <2>3. MapInv(roomMap', rooms')
    <3> SUFFICES ASSUME NEW pr \in Pairs, roomMap'[pr] # 0
                 PROVE  /\ roomMap'[pr] \in 1..Len(rooms')
                        /\ rooms'[roomMap'[pr]].fds = pr /\ Open(rooms'[roomMap'[pr]])
      BY DEF MapInv
    <3>1. CASE pr = m.fds
      BY <1>4, <1>5, <1>7, <1>10, <2>2, <3>1
    <3>2. CASE pr # m.fds
      BY <1>10, <2>2, <3>2 DEF MapInv
    <3> QED BY <3>1, <3>2
  <2> QED BY <1>1, <2>1, <2>3
<1> QED BY <1>3, <1>10, <1>11 DEF RoomInv

\* A player is gone: the map leads no one to the room that is told to exit.
LEMMA RoomEnds ==
  ASSUME RoomInv, MailInv, LobbyOnDisconnect
  PROVE  RoomInv'
<1> DEFINE f == Head(mbox["lobby"]).fd
<1>1. mbox["lobby"] # <<>> /\ f \in Fds
  BY LobbyHead DEF LobbyOnDisconnect, Heads
<1>2. CASE GetRoom(f) = 0
  <2>1. mbox' = Taken("lobby") /\ UNCHANGED lobbyVars
    BY <1>2 DEF LobbyOnDisconnect
  <2>2. BoxInv(mbox'["lobby"], rooms)
    BY <1>1, <2>1, LobbyTook
  <2> QED BY <2>1, <2>2 DEF RoomInv, lobbyVars
<1>3. CASE GetRoom(f) # 0
  <2> DEFINE r  == GetRoom(f)
             pr == PairOf(f)
  <2>1. /\ rooms' = Told(r, "Exit") /\ roomMap' = [roomMap EXCEPT ![pr] = 0]
        /\ mbox' = SentTo(Taken("lobby"), "gate", <<Request("Kick", pr)>>)
    BY <1>3 DEF LobbyOnDisconnect
  <2> HIDE DEF f
  <2>2. /\ pr \in Pairs /\ roomMap[pr] = r /\ r \in 1..Len(rooms) /\ rooms[r] \in Room
        /\ Open(rooms[r]) /\ \A p \in Pairs : roomMap[p] = r => p = pr
        /\ \A i \in Launches(mbox["lobby"]) : mbox["lobby"][i].room # r
    BY <1>1, <1>3, RoomOpen
  <2>3. /\ BoxInv(mbox'["lobby"], rooms)
        /\ \A i \in Launches(mbox'["lobby"]) :
             \E j \in Launches(mbox["lobby"]) : mbox'["lobby"][i] = mbox["lobby"][j]
    BY <1>1, <2>1, <2>2, LobbyTook
  <2>4. rooms \in Seq(Room) /\ r # 0 /\ roomMap \in [Pairs -> Nat] /\ r \in Nat
    BY <1>3, <2>2 DEF MailInv, RoomInv
  <2> HIDE DEF r, pr
  <2>5. PICK room \in Room :
          /\ rooms' = [rooms EXCEPT ![r] = room] /\ room.fds = rooms[r].fds
          /\ room.state = rooms[r].state /\ room.inbox = Append(rooms[r].inbox, "Exit")
    BY <2>1, <2>2, <2>4, TellsOne DEF Open
  <2>6. HeardInv(room)
    <3> DEFINE n == Len(rooms[r].inbox)
    <3>1. rooms[r].inbox \in Seq({"Start", "Receive", "Exit"})
      BY <2>2 DEF Room
    <3>2. /\ Len(room.inbox) = n + 1 /\ n \in Nat /\ room.inbox[n + 1] = "Exit"
          /\ \A i \in 1..n : room.inbox[i] = rooms[r].inbox[i]
          /\ rooms[r].inbox # <<>> => Head(room.inbox) = Head(rooms[r].inbox)
      BY <2>5, <3>1
    <3> HIDE DEF n
    <3>3. \A i \in 1..Len(room.inbox) : room.inbox[i] = "Exit" => i = Len(room.inbox)
      <4> SUFFICES ASSUME NEW i \in 1..Len(room.inbox), i # n + 1
                   PROVE  room.inbox[i] # "Exit"
        BY <3>2
      <4>1. i \in 1..n
        BY <3>2
      <4> QED BY <2>2, <3>2, <4>1 DEF Open, n
    <3> QED BY <2>2, <2>5, <3>2, <3>3 DEF HeardInv, Open
  <2>7. /\ \A i \in 1..Len(rooms) : HeardInv(rooms[i])
        /\ MapInv(roomMap', rooms)
        /\ \A p \in Pairs : roomMap'[p] # r
        /\ roomMap' \in [Pairs -> Nat]
    <3>1. \A p \in Pairs : roomMap'[p] = IF p = pr THEN 0 ELSE roomMap[p]
      BY <2>1, <2>4
    <3>2. MapInv(roomMap', rooms)
      BY <3>1 DEF RoomInv, MapInv
    <3>3. \A p \in Pairs : roomMap'[p] # r
      BY <2>2, <2>4, <3>1
    <3> QED BY <2>1, <2>2, <2>4, <3>2, <3>3 DEF RoomInv
  <2>8. \A i \in Launches(mbox'["lobby"]) : mbox'["lobby"][i].room # r
    BY <2>2, <2>3
  <2>9. /\ \A i \in 1..Len(rooms') : HeardInv(rooms'[i])
        /\ BoxInv(mbox'["lobby"], rooms') /\ MapInv(roomMap', rooms')
    <3> DEFINE box == mbox'["lobby"]
               map == roomMap'
    <3> HIDE DEF box, map
    <3>1. /\ BoxInv(box, rooms) /\ Unnamed(box, r)
          /\ MapInv(map, rooms) /\ Leads(map, r, room)
      BY <2>3, <2>7, <2>8 DEF box, map, Unnamed, Leads
    <3>2. /\ \A i \in 1..Len(rooms') : HeardInv(rooms'[i])
          /\ BoxInv(box, rooms') /\ MapInv(map, rooms')
      BY <2>2, <2>4, <2>5, <2>6, <2>7, <3>1, RoomChanged
    <3> QED BY <3>2 DEF box, map
  <2> QED BY <2>7, <2>9 DEF RoomInv
<1> QED BY <1>2, <1>3

\* An input goes to an open room, behind its Start.
LEMMA RoomReceives ==
  ASSUME RoomInv, MailInv, LobbyOnReceive
  PROVE  RoomInv'
<1> DEFINE f == Head(mbox["lobby"]).fd
<1>1. /\ mbox["lobby"] # <<>> /\ f \in Fds /\ mbox' = Taken("lobby")
      /\ rooms' = (IF GetRoom(f) = 0 THEN rooms ELSE Told(GetRoom(f), "Receive"))
      /\ roomMap' = roomMap
  BY LobbyHead DEF LobbyOnReceive, Heads
<1> HIDE DEF f
<1>2. /\ BoxInv(mbox'["lobby"], rooms)
      /\ \A i \in Launches(mbox'["lobby"]) :
           \E j \in Launches(mbox["lobby"]) : mbox'["lobby"][i] = mbox["lobby"][j]
  BY <1>1, LobbyTook
<1>3. CASE GetRoom(f) = 0
  BY <1>1, <1>2, <1>3 DEF RoomInv
<1>4. CASE GetRoom(f) # 0
  <2> DEFINE r == GetRoom(f)
  <2>1. /\ r \in 1..Len(rooms) /\ rooms[r] \in Room /\ Open(rooms[r])
        /\ \A i \in Launches(mbox["lobby"]) : mbox["lobby"][i].room # r
        /\ rooms' = Told(r, "Receive")
    BY <1>1, <1>4, RoomOpen
  <2>2. rooms \in Seq(Room)
    BY DEF MailInv
  <2> HIDE DEF r
  <2>3. PICK room \in Room :
          /\ rooms' = [rooms EXCEPT ![r] = room] /\ room.fds = rooms[r].fds
          /\ room.state = rooms[r].state
          /\ room.inbox = Append(rooms[r].inbox, "Receive")
    BY <2>1, <2>2, TellsOne DEF Open
  <2>4. HeardInv(room) /\ Open(room)
    <3> DEFINE n == Len(rooms[r].inbox)
    <3>1. rooms[r].inbox \in Seq({"Start", "Receive", "Exit"})
      BY <2>1 DEF Room
    <3>2. /\ Len(room.inbox) = n + 1 /\ n \in Nat /\ room.inbox[n + 1] = "Receive"
          /\ \A i \in 1..n : room.inbox[i] = rooms[r].inbox[i]
          /\ rooms[r].inbox # <<>> => Head(room.inbox) = Head(rooms[r].inbox)
          /\ room.inbox # <<>>
      BY <2>3, <3>1
    <3> HIDE DEF n
    <3>3. \A i \in 1..Len(room.inbox) : room.inbox[i] # "Exit"
      <4> TAKE i \in 1..Len(room.inbox)
      <4>1. i \in 1..n \/ i = n + 1
        BY <3>2
      <4> QED BY <2>1, <3>2, <4>1 DEF Open, n
    <3> QED BY <2>1, <2>3, <3>2, <3>3 DEF HeardInv, Open
  <2>5. \A i \in Launches(mbox'["lobby"]) : mbox'["lobby"][i].room # r
    BY <1>2, <2>1
  <2>6. MapInv(roomMap, rooms) /\ \A i \in 1..Len(rooms) : HeardInv(rooms[i])
    BY DEF RoomInv
  <2>7. Unnamed(mbox'["lobby"], r) /\ Leads(roomMap, r, room)
    BY <2>4, <2>5 DEF Unnamed, Leads
  <2>8. /\ \A i \in 1..Len(rooms') : HeardInv(rooms'[i])
        /\ BoxInv(mbox'["lobby"], rooms') /\ MapInv(roomMap, rooms')
    BY <1>2, <2>1, <2>2, <2>3, <2>4, <2>6, <2>7, RoomChanged
  <2> QED BY <1>1, <2>8 DEF RoomInv
<1> QED BY <1>3, <1>4

-----------------------------------------------------------------------------
\* The launcher answers: the room was nobody's before, the message is new.
LEMMA RoomLaunches ==
  ASSUME RoomInv, MailInv, NEW r \in 1..Len(rooms), Launch(r)
  PROVE  RoomInv'
<1> DEFINE l   == Launched(rooms[r].fds, r)
           old == mbox["lobby"]
           box == mbox'["lobby"]
<1>0. /\ "lobby" \in Services /\ Msg("lobby") = LobbyMsg /\ Boxes(mbox)
      /\ rooms \in Seq(Room) /\ rooms[r] \in Room /\ old \in Seq(LobbyMsg) /\ r \in Nat
  BY DEF Services, Msg, MailInv, Boxes
<1>1. /\ rooms[r].state = "launching" /\ rooms' = [rooms EXCEPT ![r].state = "launched"]
      /\ mbox' = SentTo(mbox, "lobby", <<l>>) /\ roomMap' = roomMap
  BY DEF Launch
<1>2. /\ l.cmd = "launched" /\ l.fds = rooms[r].fds /\ l.room = r
  BY DEF Launched
<1>3. box = old \o <<l>>
  <2>1. rooms[r].fds \in Pairs
    BY <1>0 DEF Room
  <2>2. PICK f \in Fds : TRUE
    BY <2>1 DEF Pairs
  <2>3. l \in LobbyMsg
    BY <1>0, <2>1, <2>2, Sorts
  <2> DEFINE ms == <<l>>
  <2>4. ms \in Seq(Msg("lobby")) /\ mbox' = SentTo(mbox, "lobby", ms)
    BY <1>0, <1>1, <2>3
  <2> HIDE DEF ms
  <2>5. mbox'["lobby"] = mbox["lobby"] \o ms
    BY <1>0, <2>4, SentBoxes
  <2> QED BY <2>5 DEF ms
<1> HIDE DEF l
<1>4. /\ Len(old) \in Nat /\ Len(box) = Len(old) + 1 /\ box[Len(old) + 1] = l
      /\ \A i \in 1..Len(old) : box[i] = old[i]
  BY <1>0, <1>3
<1>5. PICK room \in Room :
        /\ rooms' = [rooms EXCEPT ![r] = room] /\ room.fds = rooms[r].fds
        /\ room.state = "launched" /\ room.inbox = rooms[r].inbox
  <2> DEFINE room == [rooms[r] EXCEPT !.state = "launched"]
  <2>1. /\ room \in Room /\ room.fds = rooms[r].fds
        /\ room.state = "launched" /\ room.inbox = rooms[r].inbox
    BY <1>0 DEF Room
  <2> QED BY <1>1, <2>1
<1>6. Fresh(room) /\ HeardInv(room) /\ ~Open(rooms[r]) /\ ~Fresh(rooms[r])
  <2>1. HeardInv(rooms[r])
    BY DEF RoomInv
  <2>2. room.inbox = <<>>
    BY <1>1, <1>5, <2>1 DEF HeardInv
  <2> QED BY <1>1, <1>5, <2>2 DEF HeardInv, Fresh, Open
<1>7. /\ BoxInv(old, rooms) /\ Unnamed(old, r)
      /\ MapInv(roomMap, rooms) /\ Leads(roomMap, r, room)
  <2>1. BoxInv(old, rooms) /\ MapInv(roomMap, rooms)
    BY DEF RoomInv
  <2>2. Unnamed(old, r)
    BY <1>6, <2>1 DEF BoxInv, Unnamed
  <2>3. Leads(roomMap, r, room)
    BY <1>0, <1>6, <2>1 DEF MapInv, Leads
  <2> QED BY <2>1, <2>2, <2>3
<1>8. /\ Len(rooms') = Len(rooms) /\ rooms'[r] = room
  BY <1>0, <1>5
<1>9. /\ \A i \in 1..Len(rooms') : HeardInv(rooms'[i])
      /\ BoxInv(old, rooms') /\ MapInv(roomMap, rooms')
  <2>1. \A i \in 1..Len(rooms) : HeardInv(rooms[i])
    BY DEF RoomInv
  <2> HIDE DEF old
  <2> QED BY <1>0, <1>5, <1>6, <1>7, <2>1, RoomChanged
<1> HIDE DEF old, box
<1>10. BoxInv(box, rooms')
  <2>1. \A i \in Launches(box) :
          \/ i \in Launches(old) /\ box[i] = old[i] /\ box[i].room # r
          \/ i = Len(old) + 1 /\ box[i] = l
    <3> SUFFICES ASSUME NEW i \in Launches(box), i # Len(old) + 1
                 PROVE  i \in Launches(old) /\ box[i] = old[i] /\ box[i].room # r
      BY <1>4
    <3>1. i \in 1..Len(old) /\ box[i].cmd = "launched"
      BY <1>4 DEF Launches
    <3>2. i \in Launches(old) /\ box[i] = old[i]
      BY <1>4, <3>1 DEF Launches
    <3> QED BY <1>7, <3>2 DEF Unnamed
  <2>2. \A i \in Launches(box) :
          LET q == box[i].room
          IN  q \in 1..Len(rooms') /\ rooms'[q].fds = box[i].fds /\ Fresh(rooms'[q])
    <3> TAKE i \in Launches(box)
    <3>1. CASE i \in Launches(old) /\ box[i] = old[i]
      BY <1>9, <3>1 DEF BoxInv
    <3>2. CASE box[i] = l
      BY <1>2, <1>5, <1>6, <1>8, <3>2
    <3> QED BY <2>1, <3>1, <3>2
  <2>3. \A i, j \in Launches(box) : box[i].room = box[j].room => i = j
    <3> TAKE i, j \in Launches(box)
    <3>1. CASE i = Len(old) + 1 \/ j = Len(old) + 1
      <4>1. \A k \in Launches(box) : box[k].room = r <=> k = Len(old) + 1
        BY <1>2, <1>4, <2>1
      <4> QED BY <3>1, <4>1
    <3>2. CASE i # Len(old) + 1 /\ j # Len(old) + 1
      BY <1>7, <2>1, <3>2 DEF BoxInv
    <3> QED BY <3>1, <3>2
  <2> QED BY <2>2, <2>3 DEF BoxInv
<1>11. roomMap' \in [Pairs -> Nat]
  BY <1>1 DEF RoomInv
<1> QED BY <1>1, <1>9, <1>10, <1>11 DEF RoomInv, box

\* A room takes its next message.  If that is Exit, the map no longer leads
\* to it; if it is up, it has taken its Start.
LEMMA RoomTakes ==
  ASSUME RoomInv, MailInv, NEW r \in 1..Len(rooms), RoomHandles(r)
  PROVE  RoomInv'
<1> DEFINE old   == rooms[r].inbox
           c     == Head(old)
           inbox == IF c = "Exit" THEN <<>> ELSE Tail(old)
           state == CASE c = "Start" -> "up" [] c = "Exit" -> "gone"
                      [] OTHER -> rooms[r].state
           q     == Request("Send", rooms[r].fds)
<1>0. /\ "gate" \in Services /\ "lobby" \in Services \ {"gate"} /\ Msg("gate") = GateMsg
      /\ Boxes(mbox) /\ rooms \in Seq(Room) /\ rooms[r] \in Room /\ HeardInv(rooms[r])
  BY DEF Services, Msg, MailInv, RoomInv
<1>1. /\ rooms[r].state \in {"launched", "up"} /\ old # <<>> /\ roomMap' = roomMap
      /\ rooms' = [rooms EXCEPT ![r].inbox = inbox, ![r].state = state]
      /\ mbox' = mbox \/ mbox' = SentTo(mbox, "gate", <<q>>)
  BY <1>0 DEF RoomHandles, Room
<1>2. /\ rooms[r].fds \in Pairs /\ old \in Seq({"Start", "Receive", "Exit"})
      /\ inbox \in Seq({"Start", "Receive", "Exit"})
      /\ state \in {"launching", "launched", "up", "gone"}
  BY <1>0, <1>1 DEF Room
<1>3. mbox'["lobby"] = mbox["lobby"]
  <2>1. PICK f \in Fds : TRUE
    BY <1>2 DEF Pairs
  <2>2. q \in GateMsg
    BY <1>2, <2>1, Sorts
  <2> DEFINE ms == <<q>>
  <2>3. ms \in Seq(Msg("gate")) /\ (mbox' = mbox \/ mbox' = SentTo(mbox, "gate", ms))
    BY <1>0, <1>1, <2>2
  <2> HIDE DEF ms
  <2>4. SentTo(mbox, "gate", ms)["lobby"] = mbox["lobby"]
    BY <1>0, <2>3, SentBoxes
  <2> QED BY <2>3, <2>4
<1>4. /\ state \in {"up", "gone"}
      /\ (\A i \in 1..Len(old) : old[i] # "Exit") => state = "up"
      /\ (\A i \in 1..Len(old) : old[i] # "Exit") => \A i \in 1..Len(inbox) : inbox[i] # "Exit"
      /\ \A i \in 1..Len(inbox) : inbox[i] = "Exit" => i = Len(inbox)
  <2>1. /\ Len(old) \in Nat \ {0} /\ c = old[1] /\ c \in {"Start", "Receive", "Exit"}
        /\ Len(Tail(old)) = Len(old) - 1
        /\ \A i \in 1..Len(Tail(old)) : Tail(old)[i] = old[i + 1] /\ i + 1 \in 1..Len(old)
        /\ 1 \in 1..Len(old)
    BY <1>1, <1>2
  <2>2. rooms[r].state = "launched" => c = "Start"
    BY <1>0, <1>1 DEF HeardInv
  <2>3. \A i \in 1..Len(old) : old[i] = "Exit" => i = Len(old)
    BY <1>0 DEF HeardInv
  <2>4. state \in {"up", "gone"} /\ (c # "Exit" => state = "up")
    BY <1>1, <2>1, <2>2
  <2>5. CASE c = "Exit"
    BY <2>1, <2>4, <2>5
  <2>6. CASE c # "Exit"
    <3>1. inbox = Tail(old)
      BY <2>6
    <3>2. \A i \in 1..Len(inbox) : inbox[i] = "Exit" => i = Len(inbox)
      <4> SUFFICES ASSUME NEW i \in 1..Len(inbox), inbox[i] = "Exit"
                   PROVE  i = Len(inbox)
        OBVIOUS
      <4>1. i + 1 = Len(old)
        BY <2>1, <2>3, <3>1
      <4> QED BY <2>1, <3>1, <4>1
    <3>3. (\A i \in 1..Len(old) : old[i] # "Exit")
            => \A i \in 1..Len(inbox) : inbox[i] # "Exit"
      BY <2>1, <3>1
    <3> QED BY <2>4, <2>6, <3>2, <3>3
  <2> QED BY <2>5, <2>6
<1>5. PICK room \in Room :
        /\ rooms' = [rooms EXCEPT ![r] = room] /\ room.fds = rooms[r].fds
        /\ room.state = state /\ room.inbox = inbox
  <2> DEFINE room == [[rooms[r] EXCEPT !.inbox = inbox] EXCEPT !.state = state]
  <2> HIDE DEF inbox, state
  <2>1. rooms' = [rooms EXCEPT ![r] = room]
    BY <1>0, <1>1
  <2>2. /\ room \in Room /\ room.fds = rooms[r].fds
        /\ room.state = state /\ room.inbox = inbox
    BY <1>0, <1>2 DEF Room
  <2> QED BY <2>1, <2>2
<1> HIDE DEF inbox, state, c, q
<1>6. HeardInv(room) /\ (Open(rooms[r]) => Open(room)) /\ ~Fresh(rooms[r])
  <2>1. HeardInv(room)
    BY <1>4, <1>5 DEF HeardInv
  <2>2. ASSUME Open(rooms[r])
        PROVE  Open(room)
    <3>1. state = "up" /\ \A i \in 1..Len(inbox) : inbox[i] # "Exit"
      BY <1>4, <2>2 DEF Open
    <3> QED BY <1>5, <3>1 DEF Open
  <2>3. ~Fresh(rooms[r])
    BY <1>1 DEF Fresh
  <2> QED BY <2>1, <2>2, <2>3
<1> HIDE DEF old
<1> DEFINE box == mbox["lobby"]
<1>7. /\ BoxInv(box, rooms) /\ Unnamed(box, r)
      /\ MapInv(roomMap, rooms) /\ Leads(roomMap, r, room)
      /\ \A i \in 1..Len(rooms) : HeardInv(rooms[i])
  <2>1. /\ BoxInv(box, rooms) /\ MapInv(roomMap, rooms)
        /\ \A i \in 1..Len(rooms) : HeardInv(rooms[i])
    BY DEF RoomInv
  <2>2. Unnamed(box, r)
    BY <1>6, <2>1 DEF BoxInv, Unnamed
  <2>3. Leads(roomMap, r, room)
    BY <1>0, <1>6, <2>1 DEF MapInv, Leads
  <2> QED BY <2>1, <2>2, <2>3
<1> HIDE DEF box
<1>8. /\ \A i \in 1..Len(rooms') : HeardInv(rooms'[i])
      /\ BoxInv(box, rooms') /\ MapInv(roomMap, rooms')
  BY <1>0, <1>5, <1>6, <1>7, RoomChanged
<1> QED BY <1>1, <1>3, <1>8 DEF RoomInv, box

LEMMA RoomLobbyStep ==
  ASSUME RoomInv, QueueInv, LobbyStep
  PROVE  RoomInv'
<1> USE DEF QueueInv
<1> DEFINE m == Head(mbox["lobby"])
<1>1. ASSUME UNCHANGED <<roomMap, rooms>>, BoxInv(mbox'["lobby"], rooms)
      PROVE  RoomInv'
  BY <1>1 DEF RoomInv
<1>2. CASE NewRoom
  <2>1. /\ mbox["lobby"] # <<>> /\ m.fds \in Pairs /\ UNCHANGED <<roomMap, rooms>>
        /\ mbox' = SentTo(Taken("lobby"), "gate", <<Request("CheckAgent.lobby", m.fds)>>)
    BY <1>2, LobbyHead DEF NewRoom, Heads, lobbyVars
  <2> HIDE DEF m
  <2>2. BoxInv(mbox'["lobby"], rooms)
    BY <2>1, LobbyTook
  <2> QED BY <1>1, <2>1, <2>2
<1>3. CASE NewRoomChecked
  <2> DEFINE c == IF m.ok THEN "GetAgentValue" ELSE "Kick"
  <2>1. /\ mbox["lobby"] # <<>> /\ m.fds \in Pairs /\ UNCHANGED <<roomMap, rooms>>
        /\ mbox' = SentTo(Taken("lobby"), "gate", <<Request(c, m.fds)>>)
        /\ c \in {"CheckAgent.lobby", "GetAgentValue", "Kick"}
    BY <1>3, LobbyHead DEF NewRoomChecked, Heads, lobbyVars
  <2> HIDE DEF m, c
  <2>2. BoxInv(mbox'["lobby"], rooms)
    BY <2>1, LobbyTook
  <2> QED BY <1>1, <2>1, <2>2
<1>4. CASE NewRoomGotValue
  <2> DEFINE new == [fds |-> m.fds, state |-> "launching", inbox |-> <<>>]
  <2>1. /\ mbox["lobby"] # <<>> /\ mbox' = Taken("lobby")
        /\ rooms' = Append(rooms, new) /\ roomMap' = roomMap
        /\ rooms \in Seq(Room)
    BY <1>4 DEF NewRoomGotValue, Heads, MailInv
  <2>2. HeardInv(new)
    BY DEF HeardInv
  <2> HIDE DEF new
  <2>3. BoxInv(mbox'["lobby"], rooms)
    BY <2>1, LobbyTook
  <2>4. /\ Len(rooms) \in Nat /\ Len(rooms') = Len(rooms) + 1
        /\ rooms'[Len(rooms) + 1] = new /\ \A i \in 1..Len(rooms) : rooms'[i] = rooms[i]
    BY <2>1
  <2>5. BoxInv(mbox'["lobby"], rooms')
    <3> DEFINE box == mbox'["lobby"]
    <3> HIDE DEF box
    <3>1. BoxInv(box, rooms)
      BY <2>3 DEF box
    <3>2. BoxInv(box, rooms')
      BY <2>4, <3>1 DEF BoxInv
    <3> QED BY <3>2 DEF box
  <2>6. MapInv(roomMap, rooms')
    BY <2>4 DEF RoomInv, MapInv
  <2>7. \A i \in 1..Len(rooms') : HeardInv(rooms'[i])
    <3> TAKE i \in 1..Len(rooms')
    <3>1. i \in 1..Len(rooms) \/ i = Len(rooms) + 1
      BY <2>4
    <3> QED BY <2>2, <2>4, <3>1 DEF RoomInv
  <2> QED BY <2>1, <2>5, <2>6, <2>7 DEF RoomInv
<1> QED BY <1>2, <1>3, <1>4, RoomStarts, RoomEnds, RoomReceives, RoomLaunches, RoomTakes
        DEF LobbyStep

-----------------------------------------------------------------------------
LEMMA RoomsInit == Init => RoomInv
<1> SUFFICES ASSUME Init
             PROVE  RoomInv
  OBVIOUS
<1>1. /\ Len(mbox["lobby"]) = 0 /\ Len(rooms) = 0 /\ roomMap = [pr \in Pairs |-> 0]
  BY DEF Init, SkynetInit, Services, LobbyInit
<1>2. Launches(mbox["lobby"]) = {}
  BY <1>1 DEF Launches
<1> QED BY <1>1, <1>2 DEF RoomInv, BoxInv, MapInv

LEMMA RoomsStep == RoomInv /\ QueueInv /\ [Next]_vars => RoomInv'
<1> SUFFICES ASSUME RoomInv, QueueInv, [Next]_vars
             PROVE  RoomInv'
  OBVIOUS
<1>1. CASE UNCHANGED vars
  BY <1>1, RoomKept DEF vars, lobbyVars
<1>2. CASE (GateStep \/ PhoneStep) /\ UNCHANGED <<readyFd, lobbyVars>>
  BY <1>2, RoomGateStep
<1>3. CASE QueueStep /\ UNCHANGED <<gateVars, phoneVars, lobbyVars>>
  BY <1>3, RoomQueueStep
<1>4. CASE LobbyStep /\ UNCHANGED <<gateVars, phoneVars, readyFd>>
  BY <1>4, RoomLobbyStep
<1> QED BY <1>1, <1>2, <1>3, <1>4 DEF Next

\* A room service takes Start before anything else and is told nothing after
\* Exit, and lobby.lua's _roomMap never leads to a room that is over or about
\* to be: for any number of phones and rooms, whatever disconnects and inputs
\* the lobby handles while NewRoom is suspended.
THEOREM Protocol == Spec => []RoomProtocol
<1>1. RoomInv /\ QueueInv => RoomProtocol
  <2> SUFFICES ASSUME RoomInv, QueueInv, NEW r \in 1..Len(rooms)
               PROVE  LET inbox == rooms[r].inbox
                      IN  /\ rooms[r].state = "launched" /\ inbox # <<>>
                               => Head(inbox) = "Start"
                          /\ \A i \in 1..Len(inbox) : inbox[i] = "Exit" => i = Len(inbox)
                          /\ Established(r) => /\ rooms[r].state # "gone"
                                               /\ \A i \in 1..Len(inbox) : inbox[i] # "Exit"
    BY DEF RoomProtocol
  <2>1. HeardInv(rooms[r])
    BY DEF RoomInv
  <2>2. ASSUME Established(r)
        PROVE  Open(rooms[r])
    <3>0. rooms[r] \in Room /\ r # 0
      BY DEF QueueInv, MailInv
    <3>1. rooms[r].fds \in Pairs /\ r # 0 /\ roomMap[rooms[r].fds] = r
      BY <2>2, <3>0 DEF Established, Room
    <3> QED BY <3>1 DEF RoomInv, MapInv
  <2> QED BY <2>1, <2>2 DEF HeardInv, Open
<1>2. Init => RoomInv /\ QueueInv
  BY RoomsInit, WaitsInit
<1>3. RoomInv /\ QueueInv /\ [Next]_vars => (RoomInv /\ QueueInv)'
  BY RoomsStep, WaitsStep
<1> QED BY <1>1, <1>2, <1>3, PTL DEF Spec

-----------------------------------------------------------------------------
(***************************************************************************)
(* Nobody who waits to be matched is forgotten, for every number of phones *)
(* and of fds used anew: what was said of a waiting fd comes after all     *)
(* that could take it off the queue, or somebody still minds it.           *)
(***************************************************************************)

\* The queue does not hear that the agent of f is gone.
Clean(q, f) == \A i \in 1..Len(q) : q[i] # Event("OnDisconnect", f)

\* The queue hears of f, that it shakes hands or that it has an agent, and
\* not after that that the agent is gone.
Queued(q, f) ==
  \E i \in 1..Len(q) :
    /\ q[i] = Event("OnHandshake", f) \/ q[i] = Checked(<<f>>, TRUE)
    /\ \A j \in (i + 1)..Len(q) : q[j] # Event("OnDisconnect", f)

Asked(box, f) == \E i \in 1..Len(box) : box[i] = Request("CheckAgent.queue", <<f>>)

\* A message or a room is for a pair that f belongs to.
OfPair(m, f) == m.fds \in Pairs /\ (m.fds[1] = f \/ m.fds[2] = f)

AtGate(box, f) ==
  \E i \in 1..Len(box) : box[i].cmd # "CheckAgent.queue" /\ OfPair(box[i], f)

AtLobby(box, f) ==
  \E i \in 1..Len(box) :
    box[i].cmd \in {"NewRoom", "checked", "gotValue"} /\ OfPair(box[i], f)

InRoom(rms, f) ==
  \E r \in 1..Len(rms) : /\ rms[r].state \in {"launching", "launched"}
                         /\ OfPair(rms[r], f)

\* Somebody still has to do something for f: with u and d on its streams, fd
\* kept by the queue, these boxes and rooms.
Minds(u, d, fd, b, rms, f) ==
  \/ u # <<>> \/ d # <<>>
  \/ Queued(b["queue"], f)
  \/ Clean(b["queue"], f) /\ (fd = f \/ Asked(b["gate"], f))
  \/ AtGate(b["gate"], f) \/ AtLobby(b["lobby"], f) \/ InRoom(rms, f)

Minded(f) == Minds(up[f], down[f], readyFd, mbox, rooms, f)

\* The streams: a phone that has sent nothing but its handshake has nothing
\* else on its way, and an agent was made for no phone that is to come.
StreamInv ==
  /\ up \in [Fds -> Seq({"handshake", "input"})]
  /\ down \in [Fds -> Seq({"connect", "full", "start"})]
  /\ phone \in [Fds -> {"off", "connecting", "waiting", "playing"}]
  /\ \A f \in Fds :
       /\ agentMap[f].peer <= connects[f]
       /\ phone[f] # "off" => connects[f] > 0
       /\ phone[f] \in {"connecting", "waiting"} /\ Joined(f) =>
            \A i \in 1..Len(up[f]) : up[f][i] = "handshake"

MindInv == \A f \in Fds : Waits(f) => Minded(f)

-----------------------------------------------------------------------------
\* An agent that is new, of this or of no phone.
LEMMA StreamNew ==
  ASSUME StreamInv, CountInv, NEW f \in Fds, NEW n \in 0..MaxConnects, NewAgent(f, n),
         n = connects[f] \/ n = 0, UNCHANGED <<phone, connects>>
  PROVE  StreamInv'
<1> DEFINE new == [peer |-> n, heartbeat |-> TRUE,
                   isFull |-> clientCount + 1 > MaxClient, here |-> TRUE]
           c   == IF clientCount + 1 > MaxClient THEN "full" ELSE "connect"
<1>1. /\ agentMap' = [agentMap EXCEPT ![f] = new] /\ up' = [up EXCEPT ![f] = <<>>]
      /\ down' = down \/ down' = [down EXCEPT ![f] = <<c>>]
  BY DEF NewAgent
<1>2. up' \in [Fds -> Seq({"handshake", "input"})]
  BY <1>1 DEF StreamInv
<1>3. down' \in [Fds -> Seq({"connect", "full", "start"})]
  <2>1. <<c>> \in Seq({"connect", "full", "start"})
    OBVIOUS
  <2> HIDE DEF c
  <2> QED BY <1>1, <2>1 DEF StreamInv
<1>4. /\ connects[f] \in Nat /\ n <= connects[f] /\ new.peer = n
      /\ agentMap'[f] = new /\ up'[f] = <<>>
      /\ \A g \in Fds \ {f} : agentMap'[g] = agentMap[g] /\ up'[g] = up[g]
  BY <1>1, GateAssumption DEF CountInv, StreamInv
<1> HIDE DEF new
<1>5. ASSUME NEW g \in Fds
      PROVE  /\ agentMap'[g].peer <= connects[g]
             /\ phone[g] # "off" => connects[g] > 0
             /\ phone[g] \in {"connecting", "waiting"} /\ Joined(g)' =>
                  \A i \in 1..Len(up'[g]) : up'[g][i] = "handshake"
  <2>1. CASE g = f
    BY <1>4, <2>1 DEF StreamInv
  <2>2. CASE g # f
    <3>1. /\ agentMap'[g] = agentMap[g] /\ up'[g] = up[g]
          /\ phone'[g] = phone[g] /\ connects'[g] = connects[g]
      BY <1>4, <2>2
    <3>2. Joined(g)' = Joined(g)
      BY <3>1 DEF Joined
    <3> QED BY <3>1, <3>2 DEF StreamInv
  <2> QED BY <2>1, <2>2
<1> QED BY <1>2, <1>3, <1>5 DEF StreamInv

\* Steps that send a phone at most what it is to play, and drop agents.
LEMMA StreamKept ==
  ASSUME StreamInv, UNCHANGED <<connects, phone>>,
         up' \in [Fds -> Seq({"handshake", "input"})],
         down' \in [Fds -> Seq({"connect", "full", "start"})],
         \A f \in Fds : \/ /\ agentMap'[f].peer = agentMap[f].peer
                           /\ agentMap'[f].here = agentMap[f].here
                        \/ agentMap'[f] = NoAgent /\ connects[f] \in Nat,
         \A f \in Fds : \/ up'[f] = up[f] \/ up'[f] = <<>>
                        \/ /\ up[f] # <<>>
                           /\ up'[f] = Tail(up[f])
  PROVE  StreamInv'
<1> SUFFICES ASSUME NEW f \in Fds
             PROVE  /\ agentMap'[f].peer <= connects[f]
                    /\ phone[f] # "off" => connects[f] > 0
                    /\ phone[f] \in {"connecting", "waiting"} /\ Joined(f)' =>
                         \A i \in 1..Len(up'[f]) : up'[f][i] = "handshake"
  BY DEF StreamInv
<1>1. agentMap'[f].peer <= connects[f] /\ (Joined(f)' => Joined(f))
  <2>1. CASE /\ agentMap'[f].peer = agentMap[f].peer
             /\ agentMap'[f].here = agentMap[f].here
    BY <2>1 DEF StreamInv, Joined
  <2>2. CASE agentMap'[f] = NoAgent /\ connects[f] \in Nat
    BY <2>2 DEF Joined, NoAgent
  <2> QED BY <2>1, <2>2
<1>2. ASSUME \A i \in 1..Len(up[f]) : up[f][i] = "handshake"
      PROVE  \A i \in 1..Len(up'[f]) : up'[f][i] = "handshake"
  <2>1. CASE up'[f] = up[f] \/ up'[f] = <<>>
    BY <1>2, <2>1
  <2>2. CASE up'[f] = Tail(up[f]) /\ up[f] # <<>>
    <3>1. up[f] \in Seq({"handshake", "input"})
      BY DEF StreamInv
    <3>2. \A i \in 1..Len(Tail(up[f])) : Tail(up[f])[i] = up[f][i + 1] /\ i + 1 \in 1..Len(up[f])
      BY <2>2, <3>1
    <3> QED BY <1>2, <2>2, <3>2
  <2> QED BY <2>1, <2>2
<1> QED BY <1>1, <1>2 DEF StreamInv

LEMMA StreamGateStep ==
  ASSUME StreamInv, QueueInv, GateStep
  PROVE  StreamInv'
<1> DEFINE Ups == Seq({"handshake", "input"})
<1>0. /\ up \in [Fds -> Ups] /\ down \in [Fds -> Seq({"connect", "full", "start"})]
      /\ agentMap \in [Fds -> Agent] /\ connects \in [Fds -> Nat]
  BY GateAssumption DEF StreamInv, QueueInv, CountInv
<1>1. CASE Heartbeat
  <2> DEFINE silent == {f \in Agents : ~agentMap[f].heartbeat}
  <2>1. /\ agentMap' = [f \in Fds |-> IF f \in silent THEN NoAgent
                                      ELSE [agentMap[f] EXCEPT !.heartbeat = FALSE]]
        /\ up' = [f \in Fds |-> IF f \in silent THEN <<>> ELSE up[f]]
        /\ UNCHANGED <<connects, phone, down>>
    BY <1>1 DEF Heartbeat, Kick, phoneVars
  <2> HIDE DEF silent
  <2>2. up' \in [Fds -> Ups] /\ \A f \in Fds : up'[f] = up[f] \/ up'[f] = <<>>
    BY <1>0, <2>1
  <2>3. \A f \in Fds : \/ /\ agentMap'[f].peer = agentMap[f].peer
                          /\ agentMap'[f].here = agentMap[f].here
                       \/ agentMap'[f] = NoAgent /\ connects[f] \in Nat
    BY <1>0, <2>1 DEF Agent
  <2> QED BY <1>0, <2>1, <2>2, <2>3, StreamKept
<1>2. CASE KickCommand
  <2> DEFINE fs   == Head(mbox["gate"]).fds
             gone == {f \in Agents : \E i \in 1..Len(fs) : fs[i] = f}
  <2>1. /\ agentMap' = [f \in Fds |-> IF f \in gone THEN NoAgent ELSE agentMap[f]]
        /\ up' = [f \in Fds |-> IF f \in gone THEN <<>> ELSE up[f]]
        /\ UNCHANGED <<connects, phone, down>>
    BY <1>2 DEF KickCommand, Kick, phoneVars
  <2> HIDE DEF gone
  <2>2. up' \in [Fds -> Ups] /\ \A f \in Fds : up'[f] = up[f] \/ up'[f] = <<>>
    BY <1>0, <2>1
  <2>3. \A f \in Fds : \/ agentMap'[f] = agentMap[f]
                       \/ agentMap'[f] = NoAgent /\ connects[f] \in Nat
    BY <1>0, <2>1
  <2> QED BY <1>0, <2>1, <2>2, <2>3, StreamKept
<1>3. CASE CheckAgent \/ GetAgentValue
  BY <1>3 DEF CheckAgent, CheckAgentFor, GetAgentValue, gateVars, phoneVars,
              StreamInv, Joined
<1>4. CASE Send
  <2>1. /\ down' = [f \in Fds |->
             IF f \in {Head(mbox["gate"]).fds[i] : i \in 1..Len(Head(mbox["gate"]).fds)}
                  /\ Joined(f)
               THEN Append(down[f], "start") ELSE down[f]]
        /\ UNCHANGED <<agentMap, up, connects, phone>>
    BY <1>4 DEF Send, gateVars
  <2>2. down' \in [Fds -> Seq({"connect", "full", "start"})]
    <3>1. \A f \in Fds : /\ down[f] \in Seq({"connect", "full", "start"})
                         /\ Append(down[f], "start") \in Seq({"connect", "full", "start"})
      BY <1>0
    <3> QED BY <2>1, <3>1
  <2> QED BY <2>1, <2>2 DEF StreamInv, Joined
<1>5. ASSUME NEW f \in Fds, OnReceiveConnect(f)
      PROVE  StreamInv'
  <2>1. \E n \in {connects[f], 0} : NewAgent(f, n)
    BY <1>5 DEF OnReceiveConnect
  <2>2. PICK n \in {connects[f], 0} : NewAgent(f, n)
    BY <2>1
  <2>3. n \in 0..MaxConnects
    BY GateAssumption DEF QueueInv, CountInv
  <2>4. UNCHANGED <<phone, connects>>
    BY <1>5 DEF OnReceiveConnect
  <2> QED BY <2>2, <2>3, <2>4, StreamNew DEF QueueInv
<1>6. ASSUME NEW f \in Fds, OnReceive(f)
      PROVE  StreamInv'
  <2>1. /\ agentMap' = [agentMap EXCEPT ![f].heartbeat = TRUE]
        /\ UNCHANGED <<up, connects, phone, down>>
    BY <1>6 DEF OnReceive, phoneVars
  <2>2. \A g \in Fds : /\ agentMap'[g].peer = agentMap[g].peer
                       /\ agentMap'[g].here = agentMap[g].here
    BY <1>0, <2>1 DEF Agent
  <2> QED BY <1>0, <2>1, <2>2, StreamKept
<1>7. ASSUME NEW f \in Fds, RecvHandshake(f) \/ RecvInput(f)
      PROVE  StreamInv'
  <2>1. /\ up[f] # <<>> /\ up' = [up EXCEPT ![f] = Tail(@)]
        /\ UNCHANGED <<agentMap, connects, phone, down>>
    BY <1>7 DEF RecvHandshake, RecvInput, phoneVars
  <2>2. Tail(up[f]) \in Ups
    BY <1>0, <2>1
  <2>3. /\ up' \in [Fds -> Ups]
        /\ \A g \in Fds : up'[g] = up[g] \/ (up[g] # <<>> /\ up'[g] = Tail(up[g]))
    BY <1>0, <2>1, <2>2
  <2> QED BY <1>0, <2>1, <2>3, StreamKept
<1> QED
  BY <1>1, <1>2, <1>3, <1>4, <1>5, <1>6, <1>7 DEF GateStep, GateCommand

LEMMA StreamPhoneStep ==
  ASSUME StreamInv, QueueInv, PhoneStep
  PROVE  StreamInv'
<1> DEFINE Ups   == Seq({"handshake", "input"})
           Downs == Seq({"connect", "full", "start"})
<1>0. /\ up \in [Fds -> Ups] /\ down \in [Fds -> Downs]
      /\ phone \in [Fds -> {"off", "connecting", "waiting", "playing"}]
      /\ agentMap \in [Fds -> Agent] /\ connects \in [Fds -> Nat]
      /\ \A f \in Fds : agentMap[f].peer \in Nat
  BY GateAssumption DEF StreamInv, QueueInv, CountInv, Agent
<1>1. ASSUME NEW f \in Fds, Connect(f)
      PROVE  StreamInv'
  <2>1. /\ phone' = [phone EXCEPT ![f] = "connecting"]
        /\ connects' = [connects EXCEPT ![f] = @ + 1]
        /\ down' = [down EXCEPT ![f] = <<>>] /\ UNCHANGED <<agentMap, up>>
    BY <1>1 DEF Connect, gateVars
  <2>2. down' \in [Fds -> Downs]
    <3>1. <<>> \in Downs
      OBVIOUS
    <3> QED BY <1>0, <2>1, <3>1
  <2>3. /\ connects'[f] = connects[f] + 1 /\ connects'[f] > 0
        /\ agentMap[f].peer <= connects[f] /\ agentMap[f].peer # connects'[f]
        /\ \A g \in Fds \ {f} : connects'[g] = connects[g] /\ phone'[g] = phone[g]
    BY <1>0, <2>1 DEF StreamInv
  <2>4. phone' \in [Fds -> {"off", "connecting", "waiting", "playing"}]
    BY <1>0, <2>1
  <2> QED BY <1>0, <2>1, <2>2, <2>3, <2>4 DEF StreamInv, Joined
<1>2. ASSUME NEW f \in Fds, OnConnect(f)
      PROVE  StreamInv'
  <2>1. /\ phone[f] = "connecting" /\ down[f] # <<>>
        /\ UNCHANGED <<agentMap, connects>>
    BY <1>2 DEF OnConnect
  <2>2. CASE Head(down[f]) = "connect"
    <3>1. /\ phone' = [phone EXCEPT ![f] = "waiting"]
          /\ up' = [up EXCEPT ![f] = IF Joined(f) THEN Append(@, "handshake") ELSE @]
          /\ down' = [down EXCEPT ![f] = Tail(@)]
      BY <1>2, <2>2 DEF OnConnect
    <3>2. Tail(down[f]) \in Downs /\ Append(up[f], "handshake") \in Ups
      BY <1>0, <2>1
    <3>3. /\ up' \in [Fds -> Ups] /\ down' \in [Fds -> Downs]
          /\ phone' \in [Fds -> {"off", "connecting", "waiting", "playing"}]
      BY <1>0, <3>1, <3>2
    <3>4. Joined(f) => \A i \in 1..Len(up'[f]) : up'[f][i] = "handshake"
      <4>1. Joined(f) => /\ up'[f] = Append(up[f], "handshake")
                         /\ \A i \in 1..Len(up[f]) : up[f][i] = "handshake"
        BY <1>0, <2>1, <3>1 DEF StreamInv
      <4>2. up[f] \in Ups
        BY <1>0
      <4> QED BY <4>1, <4>2
    <3>5. /\ \A g \in Fds \ {f} : phone'[g] = phone[g] /\ up'[g] = up[g]
          /\ phone'[f] = "waiting"
      BY <1>0, <3>1
    <3> QED BY <2>1, <3>3, <3>4, <3>5 DEF StreamInv, Joined
  <2>3. CASE Head(down[f]) # "connect"
    <3>1. /\ phone' = [phone EXCEPT ![f] = "off"]
          /\ down' = [down EXCEPT ![f] = <<>>] /\ up' = up
      BY <1>2, <2>3 DEF OnConnect
    <3>2. <<>> \in Downs
      OBVIOUS
    <3>3. /\ phone' \in [Fds -> {"off", "connecting", "waiting", "playing"}]
          /\ down' \in [Fds -> Downs]
      BY <1>0, <3>1, <3>2
    <3> QED BY <1>0, <2>1, <3>1, <3>3 DEF StreamInv, Joined
  <2> QED BY <2>2, <2>3
<1>3. ASSUME NEW f \in Fds, OnStart(f)
      PROVE  StreamInv'
  <2>1. /\ phone[f] \in {"waiting", "playing"} /\ down[f] # <<>>
        /\ phone' = [phone EXCEPT ![f] = "playing"]
        /\ down' = [down EXCEPT ![f] = Tail(@)] /\ UNCHANGED <<agentMap, up, connects>>
    BY <1>3 DEF OnStart, gateVars
  <2>2. Tail(down[f]) \in Downs
    BY <1>0, <2>1
  <2>3. /\ phone' \in [Fds -> {"off", "connecting", "waiting", "playing"}]
        /\ down' \in [Fds -> Downs]
    BY <1>0, <2>1, <2>2
  <2> QED BY <1>0, <2>1, <2>3 DEF StreamInv, Joined
<1>4. ASSUME NEW f \in Fds, SendInput(f)
      PROVE  StreamInv'
  <2>1. /\ phone[f] = "playing" /\ up' = [up EXCEPT ![f] = Append(@, "input")]
        /\ UNCHANGED <<agentMap, down, phone, connects>>
    BY <1>4 DEF SendInput
  <2>2. Append(up[f], "input") \in Ups
    BY <1>0
  <2>3. up' \in [Fds -> Ups] /\ \A g \in Fds \ {f} : up'[g] = up[g]
    BY <1>0, <2>1, <2>2
  <2> QED BY <1>0, <2>1, <2>3 DEF StreamInv, Joined
<1>5. ASSUME NEW f \in Fds, Leave(f)
      PROVE  StreamInv'
  <2>1. /\ phone' = [phone EXCEPT ![f] = "off"]
        /\ down' = [down EXCEPT ![f] = <<>>] /\ UNCHANGED <<agentMap, up, connects>>
    BY <1>5 DEF Leave, gateVars
  <2>2. <<>> \in Downs
    OBVIOUS
  <2>3. /\ phone' \in [Fds -> {"off", "connecting", "waiting", "playing"}]
        /\ down' \in [Fds -> Downs]
    BY <1>0, <2>1, <2>2
  <2> QED BY <1>0, <2>1, <2>3 DEF StreamInv, Joined
<1> QED BY <1>1, <1>2, <1>3, <1>4, <1>5 DEF PhoneStep

LEMMA StreamInit == Init => StreamInv
BY DEF Init, GateInit, StreamInv, NoAgent, Joined

LEMMA StreamStep == StreamInv /\ QueueInv /\ [Next]_vars => StreamInv'
<1> SUFFICES ASSUME StreamInv, QueueInv, [Next]_vars
             PROVE  StreamInv'
  OBVIOUS
<1>1. CASE GateStep \/ PhoneStep
  BY <1>1, StreamGateStep, StreamPhoneStep
<1>2. CASE UNCHANGED <<gateVars, phoneVars>>
  BY <1>2 DEF StreamInv, Joined, gateVars, phoneVars
<1> QED BY <1>1, <1>2 DEF Next, vars

-----------------------------------------------------------------------------
\* Nothing that b holds about f is missing in b2.
Keeps(b, b2, f) ==
  /\ Queued(b["queue"], f) => Queued(b2["queue"], f)
  /\ Clean(b["queue"], f) => Clean(b2["queue"], f)
  /\ Asked(b["gate"], f) => Asked(b2["gate"], f)
  /\ AtGate(b["gate"], f) => AtGate(b2["gate"], f)
  /\ AtLobby(b["lobby"], f) => AtLobby(b2["lobby"], f)

LEMMA MindsKept ==
  ASSUME NEW f, NEW u, NEW u2, NEW d, NEW d2, NEW x, NEW x2, NEW b, NEW b2,
         NEW rms, NEW rms2, Minds(u, d, x, b, rms, f), Keeps(b, b2, f),
         u # <<>> => u2 # <<>>, d # <<>> => d2 # <<>>, x = f => x2 = f,
         InRoom(rms, f) => InRoom(rms2, f)
  PROVE  Minds(u2, d2, x2, b2, rms2, f)
BY DEF Minds, Keeps

\* Sending hides nothing, but for the news that the agent is gone.
LEMMA SentKeeps ==
  ASSUME NEW f, NEW b, Boxes(b), NEW t \in Services, NEW ms \in Seq(Msg(t)),
         t = "queue" => Clean(ms, f)
  PROVE  Keeps(b, SentTo(b, t, ms), f)
<1> DEFINE b2 == SentTo(b, t, ms)
<1>1. /\ b2[t] = b[t] \o ms /\ b[t] \in Seq(Msg(t))
      /\ \A u \in Services \ {t} : b2[u] = b[u]
  <2>1. b2[t] = b[t] \o ms /\ \A u \in Services \ {t} : b2[u] = b[u]
    BY SentBoxes
  <2>2. b[t] \in Seq(Msg(t))
    BY DEF Boxes
  <2> QED BY <2>1, <2>2
<1> HIDE DEF b2
<1>2. /\ Len(b[t]) \in Nat /\ Len(b2[t]) = Len(b[t]) + Len(ms) /\ Len(ms) \in Nat
      /\ \A i \in 1..Len(b[t]) : i \in 1..Len(b2[t]) /\ b2[t][i] = b[t][i]
      /\ \A i \in 1..Len(ms) : b2[t][Len(b[t]) + i] = ms[i]
  BY <1>1
<1>3. CASE t = "queue"
  <2>1. b2["gate"] = b["gate"] /\ b2["lobby"] = b["lobby"]
    BY <1>1, <1>3 DEF Services
  <2>2. ASSUME NEW j \in 1..Len(b2[t]), j > Len(b[t])
        PROVE  b2[t][j] # Event("OnDisconnect", f)
    <3>1. j - Len(b[t]) \in 1..Len(ms) /\ Len(b[t]) + (j - Len(b[t])) = j
      BY <1>2, <2>2
    <3>2. b2[t][j] = ms[j - Len(b[t])]
      BY <1>2, <3>1
    <3> QED BY <1>3, <3>1, <3>2 DEF Clean
  <2>3. Clean(b[t], f) => Clean(b2[t], f)
    <3> SUFFICES ASSUME Clean(b[t], f), NEW j \in 1..Len(b2[t])
                 PROVE  b2[t][j] # Event("OnDisconnect", f)
      BY DEF Clean
    <3>1. CASE j > Len(b[t])
      BY <2>2, <3>1
    <3>2. CASE ~(j > Len(b[t]))
      <4>1. j \in 1..Len(b[t])
        BY <1>2, <3>2
      <4>2. b[t][j] # Event("OnDisconnect", f)
        BY <4>1 DEF Clean
      <4> QED BY <1>2, <4>1, <4>2
    <3> QED BY <3>1, <3>2
  <2>4. Queued(b[t], f) => Queued(b2[t], f)
    <3> SUFFICES ASSUME Queued(b[t], f)
                 PROVE  Queued(b2[t], f)
      OBVIOUS
    <3>1. PICK i \in 1..Len(b[t]) :
            /\ b[t][i] = Event("OnHandshake", f) \/ b[t][i] = Checked(<<f>>, TRUE)
            /\ \A j \in (i + 1)..Len(b[t]) : b[t][j] # Event("OnDisconnect", f)
      BY DEF Queued
    <3>2. \A j \in (i + 1)..Len(b2[t]) : b2[t][j] # Event("OnDisconnect", f)
      <4> TAKE j \in (i + 1)..Len(b2[t])
      <4>1. CASE j > Len(b[t])
        BY <1>2, <2>2, <4>1
      <4>2. CASE ~(j > Len(b[t]))
        <5>1. j \in 1..Len(b[t]) /\ j \in (i + 1)..Len(b[t])
          BY <1>2, <3>1, <4>2
        <5>2. b[t][j] # Event("OnDisconnect", f)
          BY <3>1, <5>1
        <5> QED BY <1>2, <5>1, <5>2
      <4> QED BY <4>1, <4>2
    <3> QED BY <1>2, <3>1, <3>2 DEF Queued
  <2> QED BY <1>3, <2>1, <2>3, <2>4 DEF Keeps, b2
<1>4. CASE t = "gate"
  <2>1. b2["queue"] = b["queue"] /\ b2["lobby"] = b["lobby"]
    BY <1>1, <1>4 DEF Services
  <2>2. /\ Asked(b["gate"], f) => Asked(b2["gate"], f)
        /\ AtGate(b["gate"], f) => AtGate(b2["gate"], f)
    BY <1>2, <1>4 DEF Asked, AtGate
  <2> QED BY <2>1, <2>2 DEF Keeps, b2
<1>5. CASE t = "lobby"
  <2>1. b2["queue"] = b["queue"] /\ b2["gate"] = b["gate"]
    BY <1>1, <1>5 DEF Services
  <2>2. AtLobby(b["lobby"], f) => AtLobby(b2["lobby"], f)
    BY <1>2, <1>5 DEF AtLobby
  <2> QED BY <2>1, <2>2 DEF Keeps, b2
<1> QED BY <1>3, <1>4, <1>5 DEF Services

LEMMA KeepsTwice ==
  ASSUME NEW f, NEW b1, NEW b2, NEW b3, Keeps(b1, b2, f), Keeps(b2, b3, f)
  PROVE  Keeps(b1, b3, f)
BY DEF Keeps

\* The message m that s takes may be what minded f.
Serves(s, m, f) ==
  \/ s = "gate" /\ m.cmd # "CheckAgent.queue" /\ OfPair(m, f)
  \/ /\ s = "gate" /\ m = Request("CheckAgent.queue", <<f>>)
     /\ Clean(mbox["queue"], f)
  \/ /\ s = "queue" /\ (m = Event("OnHandshake", f) \/ m = Checked(<<f>>, TRUE))
     /\ Clean(Tail(mbox["queue"]), f)
  \/ s = "lobby" /\ m.cmd \in {"NewRoom", "checked", "gotValue"} /\ OfPair(m, f)

LEMMA TakenMinds ==
  ASSUME NEW f, NEW fd, NEW s \in Services, Boxes(mbox), mbox[s] # <<>>,
         Minds(up[f], down[f], fd, mbox, rooms, f)
  PROVE  \/ Serves(s, Head(mbox[s]), f)
         \/ Minds(up[f], down[f], fd, Taken(s), rooms, f)
<1> DEFINE b == Taken(s)
           q == mbox[s]
<1>1. /\ q \in Seq(Msg(s)) /\ b[s] = Tail(q)
      /\ \A u \in Services \ {s} : b[u] = mbox[u]
  BY TakenBoxes DEF Boxes
<1>2. /\ Len(q) \in Nat \ {0} /\ Len(b[s]) = Len(q) - 1 /\ Head(q) = q[1]
      /\ \A i \in 1..Len(b[s]) : b[s][i] = q[i + 1]
  BY <1>1
<1>3. ASSUME NEW i \in 1..Len(q), i # 1
      PROVE  i - 1 \in 1..Len(b[s]) /\ b[s][i - 1] = q[i]
  BY <1>2, <1>3
<1> HIDE DEF b
<1>4. CASE s = "gate"
  <2>1. b["queue"] = mbox["queue"] /\ b["lobby"] = mbox["lobby"]
    BY <1>1, <1>4 DEF Services
  <2>2. Asked(q, f) => q[1] = Request("CheckAgent.queue", <<f>>) \/ Asked(b[s], f)
    BY <1>3 DEF Asked
  <2>3. AtGate(q, f) => (q[1].cmd # "CheckAgent.queue" /\ OfPair(q[1], f)) \/ AtGate(b[s], f)
    BY <1>3 DEF AtGate
  <2> QED BY <1>2, <1>4, <2>1, <2>2, <2>3 DEF Minds, Serves, b
<1>5. CASE s = "lobby"
  <2>1. b["queue"] = mbox["queue"] /\ b["gate"] = mbox["gate"]
    BY <1>1, <1>5 DEF Services
  <2>2. AtLobby(q, f) => \/ q[1].cmd \in {"NewRoom", "checked", "gotValue"} /\ OfPair(q[1], f)
                         \/ AtLobby(b[s], f)
    BY <1>3 DEF AtLobby
  <2> QED BY <1>2, <1>5, <2>1, <2>2 DEF Minds, Serves, b
<1>6. CASE s = "queue"
  <2>1. b["lobby"] = mbox["lobby"] /\ b["gate"] = mbox["gate"]
    BY <1>1, <1>6 DEF Services
  <2>2. Clean(q, f) => Clean(b[s], f)
    <3>1. \A i \in 1..Len(b[s]) : i + 1 \in 1..Len(q)
      BY <1>2
    <3> QED BY <1>2, <3>1 DEF Clean
  <2>3. Queued(q, f) => \/ /\ q[1] = Event("OnHandshake", f) \/ q[1] = Checked(<<f>>, TRUE)
                           /\ Clean(b[s], f)
                        \/ Queued(b[s], f)
    <3> SUFFICES ASSUME Queued(q, f)
                 PROVE  \/ /\ q[1] = Event("OnHandshake", f) \/ q[1] = Checked(<<f>>, TRUE)
                           /\ Clean(b[s], f)
                        \/ Queued(b[s], f)
      OBVIOUS
    <3>1. PICK i \in 1..Len(q) :
            /\ q[i] = Event("OnHandshake", f) \/ q[i] = Checked(<<f>>, TRUE)
            /\ \A j \in (i + 1)..Len(q) : q[j] # Event("OnDisconnect", f)
      BY DEF Queued
    <3>2. \A j \in i..Len(b[s]) : b[s][j] # Event("OnDisconnect", f)
      <4> TAKE j \in i..Len(b[s])
      <4>1. j \in 1..Len(b[s]) /\ j + 1 \in (i + 1)..Len(q)
        BY <1>2, <3>1
      <4> QED BY <1>2, <3>1, <4>1
    <3>3. CASE i = 1
      BY <3>1, <3>2, <3>3 DEF Clean
    <3>4. CASE i # 1
      <4>1. i - 1 \in 1..Len(b[s]) /\ b[s][i - 1] = q[i] /\ (i - 1) + 1 = i
        BY <1>3, <3>1, <3>4
      <4> QED BY <3>1, <3>2, <4>1 DEF Queued
    <3> QED BY <3>3, <3>4
  <2> QED BY <1>1, <1>2, <1>6, <2>1, <2>2, <2>3 DEF Minds, Serves, b
<1> QED BY <1>4, <1>5, <1>6 DEF Services

\* What comes last in a box.
LEMMA SentLast ==
  ASSUME NEW f, NEW b, Boxes(b), NEW t \in Services, NEW m \in Msg(t),
         \/ t = "queue" /\ (m = Event("OnHandshake", f) \/ m = Checked(<<f>>, TRUE))
         \/ t = "gate" /\ m.cmd # "CheckAgent.queue" /\ OfPair(m, f)
         \/ t = "lobby" /\ m.cmd \in {"NewRoom", "checked", "gotValue"} /\ OfPair(m, f)
  PROVE  \A u, d, x, rms : Minds(u, d, x, SentTo(b, t, <<m>>), rms, f)
<1> DEFINE b2 == SentTo(b, t, <<m>>)
<1>1. <<m>> \in Seq(Msg(t)) /\ b[t] \in Seq(Msg(t))
  BY DEF Boxes
<1>2. b2[t] = b[t] \o <<m>>
  BY <1>1, SentBoxes
<1> HIDE DEF b2
<1>3. /\ Len(b[t]) \in Nat /\ Len(b2[t]) = Len(b[t]) + 1
      /\ b2[t][Len(b2[t])] = m /\ Len(b2[t]) \in 1..Len(b2[t])
  BY <1>1, <1>2
<1>4. \A j \in (Len(b2[t]) + 1)..Len(b2[t]) : FALSE
  BY <1>3
<1>5. t = "queue" => Queued(b2["queue"], f)
  <2> SUFFICES ASSUME t = "queue"
               PROVE  Queued(b2[t], f)
    OBVIOUS
  <2> QED BY <1>3, <1>4 DEF Queued
<1>6. t = "gate" => AtGate(b2["gate"], f)
  BY <1>3 DEF AtGate
<1>7. t = "lobby" => AtLobby(b2["lobby"], f)
  BY <1>3 DEF AtLobby
<1> QED BY <1>5, <1>6, <1>7 DEF Minds, b2

\* The news that others are gone.
LEMMA GoneKeeps ==
  ASSUME NEW f, NEW b, Boxes(b), NEW fs \in Seq(Fds), \A i \in 1..Len(fs) : fs[i] # f
  PROVE  Keeps(b, Disconnects(b, fs), f)
<1> DEFINE ms == Events(fs)
           b1 == SentTo(b, "lobby", ms)
           b2 == SentTo(b1, "queue", ms)
<1>0. "lobby" \in Services /\ "queue" \in Services /\ "lobby" # "queue"
  BY DEF Services
<1>1. /\ ms \in Seq(Msg("lobby")) /\ ms \in Seq(Msg("queue")) /\ Len(ms) = Len(fs)
      /\ \A i \in 1..Len(fs) : ms[i] = Event("OnDisconnect", fs[i])
  BY EventsType DEF Msg
<1>2. Disconnects(b, fs) = b2
  BY DEF Disconnects, Events
<1> HIDE DEF ms
<1>3. Clean(ms, f)
  <2>1. \A g, h : Event("OnDisconnect", g) = Event("OnDisconnect", h) => g = h
    BY DEF Event
  <2> QED BY <1>1, <2>1 DEF Clean
<1>4. Boxes(b1) /\ Keeps(b, b1, f)
  BY <1>0, <1>1, SentBoxes, SentKeeps
<1> HIDE DEF b1
<1>5. Keeps(b1, b2, f)
  BY <1>0, <1>1, <1>3, <1>4, SentKeeps
<1> HIDE DEF b2
<1> QED BY <1>2, <1>4, <1>5, KeepsTwice

LEMMA ThereOnly ==
  ASSUME NEW pr \in Pairs
  PROVE  /\ There(pr) \in Seq(Fds)
         /\ \A i \in 1..Len(There(pr)) :
              There(pr)[i] \in Agents /\ \E j \in 1..Len(pr) : pr[j] = There(pr)[i]
<1> DEFINE gone == {f \in Agents : \E i \in 1..Len(pr) : pr[i] = f}
<1>1. PICK a \in Fds, b \in Fds : pr = <<a, b>>
  BY DEF Pairs
<1>2. /\ Len(pr) = 2 /\ pr[1] = a /\ pr[2] = b
      /\ \A i \in 1..Len(pr) : i = 1 \/ i = 2
  BY <1>1
<1>3. There(pr) = IF gone = {} THEN <<>>
                  ELSE IF \E f \in gone : gone = {f} THEN <<CHOOSE f \in gone : TRUE>>
                  ELSE pr
  BY DEF There
<1>4. /\ \A f \in gone : f \in Agents /\ f \in Fds /\ \E j \in 1..Len(pr) : pr[j] = f
      /\ \A f \in gone : f = a \/ f = b
  BY <1>2 DEF Agents
<1> HIDE DEF gone
<1>5. CASE gone = {}
  BY <1>3, <1>5
<1>6. CASE \E f \in gone : gone = {f}
  <2>1. PICK g \in gone : gone = {g}
    BY <1>6
  <2>2. There(pr) = <<g>>
    BY <1>3, <2>1
  <2>3. Len(<<g>>) = 1 /\ <<g>>[1] = g /\ <<g>> \in Seq(Fds)
    BY <1>4
  <2> QED BY <1>4, <2>2, <2>3
<1>7. CASE gone # {} /\ ~ \E f \in gone : gone = {f}
  <2>1. a \in gone /\ b \in gone
    BY <1>4, <1>7
  <2>2. There(pr) = pr /\ pr \in Seq(Fds)
    BY <1>1, <1>3, <1>7
  <2> QED BY <1>2, <1>4, <2>1, <2>2
<1> QED BY <1>5, <1>6, <1>7, ThereAll

-----------------------------------------------------------------------------
\* The gate drops agents: a phone that still waits is not among them.
LEMMA MindHeartbeat ==
  ASSUME QueueInv, MindInv, Heartbeat, UNCHANGED <<readyFd, lobbyVars>>
  PROVE  MindInv'
<1> SUFFICES ASSUME NEW f \in Fds, Waits(f)'
             PROVE  Minded(f)'
  BY DEF MindInv
<1> DEFINE silent == {g \in Agents : ~agentMap[g].heartbeat}
<1>1. /\ agentMap' = [g \in Fds |-> IF g \in silent THEN NoAgent
                                    ELSE [agentMap[g] EXCEPT !.heartbeat = FALSE]]
      /\ up' = [g \in Fds |-> IF g \in silent THEN <<>> ELSE up[g]]
      /\ UNCHANGED phoneVars
  BY DEF Heartbeat, Kick
<1>2. PICK fs \in [1..Cardinality(silent) -> silent] : mbox' = Disconnects(mbox, fs)
  BY DEF Heartbeat
<1>3. silent \subseteq Fds /\ Cardinality(silent) \in Nat
  <2>1. silent \subseteq Fds
    BY DEF Agents
  <2> QED BY <2>1, FdsAssumption, FS_Subset, FS_CardinalityType
<1> HIDE DEF silent
<1>4. /\ f \notin silent /\ up'[f] = up[f]
      /\ agentMap'[f] = [agentMap[f] EXCEPT !.heartbeat = FALSE]
  BY <1>1 DEF Waits, Joined, NoAgent
<1>5. Waits(f)
  <2>1. agentMap[f] \in Agent
    BY DEF QueueInv, CountInv
  <2>2. agentMap'[f].here = agentMap[f].here /\ agentMap'[f].peer = agentMap[f].peer
    BY <1>4, <2>1 DEF Agent
  <2> QED BY <1>1, <2>2 DEF Waits, Joined, phoneVars
<1>6. fs \in Seq(Fds) /\ \A i \in 1..Len(fs) : fs[i] # f
  BY <1>2, <1>3, <1>4
<1>7. Keeps(mbox, mbox', f)
  BY <1>2, <1>6, GoneKeeps DEF QueueInv, MailInv
<1> QED BY <1>1, <1>4, <1>5, <1>7, MindsKept DEF MindInv, Minded, phoneVars, lobbyVars

LEMMA MindKick ==
  ASSUME QueueInv, MindInv, KickCommand, UNCHANGED <<readyFd, lobbyVars>>
  PROVE  MindInv'
<1> SUFFICES ASSUME NEW f \in Fds, Waits(f)'
             PROVE  Minded(f)'
  BY DEF MindInv
<1> DEFINE m    == Head(mbox["gate"])
           gone == {g \in Agents : \E i \in 1..Len(m.fds) : m.fds[i] = g}
<1>1. /\ mbox["gate"] # <<>> /\ m.cmd = "Kick"
      /\ agentMap' = [g \in Fds |-> IF g \in gone THEN NoAgent ELSE agentMap[g]]
      /\ up' = [g \in Fds |-> IF g \in gone THEN <<>> ELSE up[g]]
      /\ mbox' = Disconnects(Taken("gate"), There(m.fds)) /\ UNCHANGED phoneVars
  BY DEF KickCommand, Kick, Heads
<1>2. m.fds \in Pairs
  BY <1>1, GateHead DEF QueueInv
<1>3. \A g \in Agents : g \in gone <=> \E i \in 1..Len(m.fds) : m.fds[i] = g
  OBVIOUS
<1> HIDE DEF gone
<1>4. f \notin gone /\ up'[f] = up[f] /\ agentMap'[f] = agentMap[f]
  BY <1>1 DEF Waits, Joined, NoAgent
<1>5. Waits(f) /\ f \in Agents
  BY <1>1, <1>4 DEF Waits, Joined, phoneVars, Agents
<1>6. ~OfPair(m, f)
  <2>1. Len(m.fds) = 2
    BY <1>2 DEF Pairs
  <2>2. \A i \in 1..2 : m.fds[i] # f
    BY <1>3, <1>4, <1>5, <2>1
  <2> QED BY <2>2 DEF OfPair
<1>7. ~Serves("gate", m, f)
  BY <1>1, <1>6 DEF Serves, Request
<1>8. Boxes(Taken("gate")) /\ Minds(up[f], down[f], readyFd, Taken("gate"), rooms, f)
  BY <1>1, <1>5, <1>7, TakenBoxes, TakenMinds DEF QueueInv, MailInv, MindInv, Minded, Services
<1>9. There(m.fds) \in Seq(Fds) /\ \A i \in 1..Len(There(m.fds)) : There(m.fds)[i] # f
  BY <1>2, <1>3, <1>4, ThereOnly
<1> HIDE DEF m
<1>10. Keeps(Taken("gate"), mbox', f)
  BY <1>1, <1>8, <1>9, GoneKeeps
<1> QED BY <1>1, <1>4, <1>8, <1>10, MindsKept DEF Minded, phoneVars, lobbyVars

\* The gate's answers and the room's Start.
LEMMA MindAnswers ==
  ASSUME QueueInv, MindInv, CheckAgent \/ GetAgentValue \/ Send,
         UNCHANGED <<readyFd, lobbyVars>>
  PROVE  MindInv'
<1> SUFFICES ASSUME NEW f \in Fds, Waits(f)'
             PROVE  Minded(f)'
  BY DEF MindInv
<1> DEFINE m == Head(mbox["gate"])
<1>0. /\ "gate" \in Services /\ "queue" \in Services /\ "lobby" \in Services
      /\ Msg("queue") = QueueMsg /\ Msg("lobby") = LobbyMsg
  BY DEF Services, Msg
<1>1. /\ mbox["gate"] # <<>> /\ UNCHANGED <<gateVars, phone, connects>>
      /\ m.cmd \in {"CheckAgent.queue", "CheckAgent.lobby", "GetAgentValue", "Send"}
  BY DEF CheckAgent, CheckAgentFor, GetAgentValue, Send, Heads, phoneVars
<1>2. Waits(f) /\ agentMap[f].here
  BY <1>1 DEF Waits, Joined, gateVars
<1>3. /\ Boxes(Taken("gate"))
      /\ Serves("gate", m, f) \/ Minds(up[f], down[f], readyFd, Taken("gate"), rooms, f)
  BY <1>0, <1>1, <1>2, TakenBoxes, TakenMinds DEF QueueInv, MailInv, MindInv, Minded
<1>4. UNCHANGED <<up, readyFd, rooms>>
  BY <1>1 DEF gateVars, lobbyVars
<1>5. ASSUME NEW t \in {"queue", "lobby"}, NEW x \in Msg(t), down' = down,
             mbox' = SentTo(Taken("gate"), t, <<x>>), x.cmd # "OnDisconnect",
             Serves("gate", m, f) =>
               \/ t = "queue" /\ x = Checked(<<f>>, TRUE)
               \/ t = "lobby" /\ x.cmd \in {"NewRoom", "checked", "gotValue"} /\ OfPair(x, f)
      PROVE  Minded(f)'
  <2>0. t \in Services
    BY <1>0
  <2>1. CASE Serves("gate", m, f)
    BY <1>3, <1>5, <2>0, <2>1, SentLast DEF Minded
  <2>2. CASE ~Serves("gate", m, f)
    <3> DEFINE ms == <<x>>
    <3>1. ms \in Seq(Msg(t)) /\ Clean(ms, f)
      <4>1. \A i \in 1..Len(ms) : ms[i] = x
        OBVIOUS
      <4>2. x # Event("OnDisconnect", f)
        BY <1>5 DEF Event
      <4> QED BY <4>1, <4>2 DEF Clean
    <3> HIDE DEF ms
    <3>2. Keeps(Taken("gate"), SentTo(Taken("gate"), t, ms), f)
      BY <1>3, <2>0, <3>1, SentKeeps
    <3>3. mbox' = SentTo(Taken("gate"), t, ms)
      BY <1>5 DEF ms
    <3> QED BY <1>3, <1>4, <1>5, <2>2, <3>2, <3>3, MindsKept DEF Minded
  <2> QED BY <2>1, <2>2
<1>6. CASE CheckAgentFor("queue", "CheckAgent.queue")
  <2> DEFINE ok == \A i \in 1..Len(m.fds) : agentMap[m.fds[i]].here
             x  == Checked(m.fds, ok)
  <2>1. /\ m.cmd = "CheckAgent.queue" /\ mbox' = SentTo(Taken("gate"), "queue", <<x>>)
        /\ down' = down
    BY <1>6 DEF CheckAgentFor, Heads, phoneVars
  <2>2. m.fds \in Single /\ ok \in BOOLEAN
    BY <1>1, <2>1, GateHead DEF QueueInv
  <2>3. x \in QueueMsg /\ x.cmd # "OnDisconnect"
    <3> HIDE DEF ok
    <3> QED BY <2>2 DEF Checked, QueueMsg
  <2>4. Serves("gate", m, f) => x = Checked(<<f>>, TRUE)
    <3> SUFFICES ASSUME Serves("gate", m, f)
                 PROVE  x = Checked(<<f>>, TRUE)
      OBVIOUS
    <3>1. m.fds = <<f>>
      BY <2>1 DEF Serves, Request
    <3>2. \A i \in 1..Len(m.fds) : m.fds[i] = f
      BY <3>1
    <3>3. ok = TRUE
      BY <1>2, <3>2
    <3> QED BY <3>1, <3>3
  <2> HIDE DEF x, m
  <2> QED BY <1>0, <1>5, <2>1, <2>3, <2>4
<1>7. CASE CheckAgentFor("lobby", "CheckAgent.lobby")
  <2> DEFINE ok == \A i \in 1..Len(m.fds) : agentMap[m.fds[i]].here
             x  == Checked(m.fds, ok)
  <2>1. /\ m.cmd = "CheckAgent.lobby" /\ mbox' = SentTo(Taken("gate"), "lobby", <<x>>)
        /\ down' = down
    BY <1>7 DEF CheckAgentFor, Heads, phoneVars
  <2>2. m.fds \in Pairs /\ ok \in BOOLEAN
    BY <1>1, <2>1, GateHead DEF QueueInv
  <2>3. x \in LobbyMsg /\ x.cmd = "checked" /\ x.fds = m.fds
    <3> HIDE DEF ok
    <3> QED BY <2>2 DEF Checked, LobbyMsg
  <2> HIDE DEF x, m
  <2>4. Serves("gate", m, f) => OfPair(x, f)
    BY <2>1, <2>3 DEF Serves, OfPair, Request
  <2> QED BY <1>0, <1>5, <2>1, <2>3, <2>4
<1>8. CASE GetAgentValue
  <2> DEFINE x == Request("gotValue", m.fds)
  <2>1. /\ m.cmd = "GetAgentValue" /\ mbox' = SentTo(Taken("gate"), "lobby", <<x>>)
        /\ down' = down
    BY <1>8 DEF GetAgentValue, Heads, phoneVars
  <2>2. m.fds \in Pairs
    BY <1>1, <2>1, GateHead DEF QueueInv
  <2>3. x \in LobbyMsg /\ x.cmd = "gotValue" /\ x.fds = m.fds
    BY <2>2 DEF Request, LobbyMsg
  <2> HIDE DEF x, m
  <2>4. Serves("gate", m, f) => OfPair(x, f)
    BY <2>1, <2>3 DEF Serves, OfPair, Request
  <2> QED BY <1>0, <1>5, <2>1, <2>3, <2>4
<1>9. CASE Send
  <2>1. /\ m.cmd = "Send" /\ mbox' = Taken("gate")
        /\ down' = [g \in Fds |-> IF g \in {m.fds[i] : i \in 1..Len(m.fds)} /\ Joined(g)
                                    THEN Append(down[g], "start") ELSE down[g]]
    BY <1>9 DEF Send, Heads
  <2>2. Append(down[f], "start") # <<>> /\ Joined(f)
    BY <1>2 DEF Waits
  <2>3. down[f] # <<>> => down'[f] # <<>>
    BY <2>1, <2>2
  <2>4. CASE Serves("gate", m, f)
    <3>1. OfPair(m, f)
      BY <2>1, <2>4 DEF Serves, Request
    <3>2. m.fds \in Pairs /\ 1 \in 1..Len(m.fds) /\ 2 \in 1..Len(m.fds)
      BY <3>1, SMTT(30) DEF OfPair, Pairs
    <3>3. f \in {m.fds[i] : i \in 1..Len(m.fds)}
      BY <3>1, <3>2 DEF OfPair
    <3>4. down'[f] # <<>>
      BY <2>1, <2>2, <3>3
    <3> QED BY <3>4 DEF Minded, Minds
  <2>5. CASE ~Serves("gate", m, f)
    <3>1. Keeps(Taken("gate"), mbox', f)
      BY <2>1 DEF Keeps
    <3> QED BY <1>3, <1>4, <2>3, <2>5, <3>1, MindsKept DEF Minded
  <2> QED BY <2>4, <2>5
<1> QED BY <1>6, <1>7, <1>8, <1>9 DEF CheckAgent

\* What the phones send and the other steps of the gate.
LEMMA MindGateStep ==
  ASSUME QueueInv, StreamInv, MindInv, GateStep \/ PhoneStep,
         UNCHANGED <<readyFd, lobbyVars>>
  PROVE  MindInv'
<1> SUFFICES ASSUME NEW f \in Fds, Waits(f)'
             PROVE  Minded(f)'
  BY DEF MindInv
<1>0. /\ "queue" \in Services /\ "lobby" \in Services
      /\ Msg("queue") = QueueMsg /\ Msg("lobby") = LobbyMsg
      /\ Boxes(mbox) /\ UNCHANGED <<readyFd, rooms>>
      /\ agentMap \in [Fds -> Agent] /\ connects \in [Fds -> Nat]
  BY GateAssumption DEF Services, Msg, QueueInv, MailInv, lobbyVars, CountInv
<1>1. ASSUME Waits(f), up[f] # <<>> => up'[f] # <<>>, down[f] # <<>> => down'[f] # <<>>,
             Keeps(mbox, mbox', f)
      PROVE  Minded(f)'
  BY <1>0, <1>1, MindsKept DEF MindInv, Minded
<1>2. ASSUME mbox' = mbox
      PROVE  Keeps(mbox, mbox', f)
  BY <1>2 DEF Keeps
<1>3. CASE Heartbeat \/ KickCommand \/ CheckAgent \/ GetAgentValue \/ Send
  BY <1>3, MindHeartbeat, MindKick, MindAnswers DEF MindInv
<1>4. ASSUME NEW g \in Fds, OnReceiveConnect(g)
      PROVE  Minded(f)'
  <2>1. UNCHANGED <<phone, connects, mbox>>
    BY <1>4 DEF OnReceiveConnect
  <2>2. CASE g = f
    <3>1. phone[f] = "waiting" /\ connects[f] > 0
      BY <2>1 DEF Waits, StreamInv
    <3>2. NewAgent(f, 0)
      BY <1>4, <2>2, <3>1 DEF OnReceiveConnect
    <3>3. agentMap'[f].peer = 0
      BY <1>0, <3>2 DEF NewAgent
    <3> QED BY <1>0, <2>1, <3>1, <3>3 DEF Waits, Joined
  <2>3. CASE g # f
    <3>1. /\ agentMap'[f] = agentMap[f] /\ up'[f] = up[f] /\ down'[f] = down[f]
      <4>1. PICK n \in {connects[g], 0} : NewAgent(g, n)
        BY <1>4 DEF OnReceiveConnect
      <4> QED BY <1>0, <2>3, <4>1 DEF NewAgent, StreamInv
    <3> QED BY <1>1, <1>2, <2>1, <3>1 DEF Waits, Joined
  <2> QED BY <2>2, <2>3
<1>5. ASSUME NEW g \in Fds, OnReceive(g)
      PROVE  Minded(f)'
  <2>1. /\ agentMap' = [agentMap EXCEPT ![g].heartbeat = TRUE]
        /\ UNCHANGED <<up, down, phone, connects, mbox>>
    BY <1>5 DEF OnReceive, phoneVars
  <2>2. agentMap'[f].here = agentMap[f].here /\ agentMap'[f].peer = agentMap[f].peer
    BY <1>0, <2>1 DEF Agent
  <2> QED BY <1>1, <1>2, <2>1, <2>2 DEF Waits, Joined
<1>6. ASSUME NEW g \in Fds, NEW c \in {"OnHandshake", "OnReceive"}, NEW t \in {"queue", "lobby"},
             c = "OnHandshake" => t = "queue", c = "OnReceive" => t = "lobby" /\ g # f,
             mbox' = SentTo(mbox, t, <<Event(c, g)>>), up' = [up EXCEPT ![g] = Tail(@)],
             UNCHANGED <<agentMap, down, phone, connects>>
      PROVE  Minded(f)'
  <2>1. t \in Services /\ Event(c, g) \in Msg(t)
    BY <1>0, <1>6 DEF Event, QueueMsg, LobbyMsg
  <2>2. CASE g = f
    <3>1. c = "OnHandshake" /\ t = "queue"
      BY <1>6, <2>2
    <3>2. /\ mbox' = SentTo(mbox, "queue", <<Event("OnHandshake", f)>>)
          /\ Event("OnHandshake", f) \in Msg("queue")
      BY <1>6, <2>1, <2>2, <3>1
    <3> QED BY <1>0, <3>2, SentLast DEF Minded
  <2>3. CASE g # f
    <3> DEFINE ms == <<Event(c, g)>>
    <3>1. ms \in Seq(Msg(t))
      BY <2>1
    <3>2. Clean(ms, f)
      <4>1. \A i \in 1..Len(ms) : ms[i] = Event(c, g)
        OBVIOUS
      <4>2. Event(c, g) # Event("OnDisconnect", f)
        BY DEF Event
      <4> QED BY <4>1, <4>2 DEF Clean
    <3> HIDE DEF ms
    <3>3. mbox' = SentTo(mbox, t, ms)
      BY <1>6 DEF ms
    <3>4. Keeps(mbox, mbox', f)
      BY <1>0, <2>1, <3>1, <3>2, <3>3, SentKeeps
    <3>5. up'[f] = up[f]
      BY <1>6, <2>3 DEF StreamInv
    <3> QED BY <1>1, <1>6, <3>4, <3>5 DEF Waits, Joined
  <2> QED BY <2>2, <2>3
<1>7. ASSUME NEW g \in Fds, RecvHandshake(g)
      PROVE  Minded(f)'
  <2>1. /\ mbox' = SentTo(mbox, "queue", <<Event("OnHandshake", g)>>)
        /\ up' = [up EXCEPT ![g] = Tail(@)] /\ UNCHANGED <<agentMap, down, phone, connects>>
    BY <1>7 DEF RecvHandshake, phoneVars
  <2> QED BY <1>6, <2>1
<1>8. ASSUME NEW g \in Fds, RecvInput(g)
      PROVE  Minded(f)'
  <2>1. /\ mbox' = SentTo(mbox, "lobby", <<Event("OnReceive", g)>>)
        /\ up' = [up EXCEPT ![g] = Tail(@)] /\ UNCHANGED <<agentMap, down, phone, connects>>
        /\ up[g] # <<>> /\ Head(up[g]) = "input"
    BY <1>8 DEF RecvInput, phoneVars
  <2>2. g # f
    <3> SUFFICES ASSUME g = f
                 PROVE  FALSE
      OBVIOUS
    <3>1. phone[f] = "waiting" /\ Joined(f)
      BY <2>1 DEF Waits, Joined
    <3>2. \A i \in 1..Len(up[f]) : up[f][i] = "handshake"
      BY <3>1 DEF StreamInv
    <3>3. up[f] \in Seq({"handshake", "input"})
      BY DEF StreamInv
    <3>4. 1 \in 1..Len(up[f]) /\ Head(up[f]) = up[f][1]
      BY <2>1, <3>3
    <3> QED BY <2>1, <3>2, <3>4
  <2> QED BY <1>6, <2>1, <2>2
<1>9. ASSUME NEW g \in Fds, OnConnect(g)
      PROVE  Minded(f)'
  <2>1. UNCHANGED <<agentMap, connects, mbox>> /\ phone[g] = "connecting"
    BY <1>9 DEF OnConnect
  <2>2. CASE g = f
    <3>1. phone'[f] = "waiting"
      BY DEF Waits
    <3>2. /\ phone' = [phone EXCEPT ![f] = "waiting"] \/ phone' = [phone EXCEPT ![f] = "off"]
          /\ phone' = [phone EXCEPT ![f] = "waiting"] =>
               up' = [up EXCEPT ![f] = IF Joined(f) THEN Append(@, "handshake") ELSE @]
      <4>1. phone'[f] # "off"
        BY <3>1
      <4>2. phone' # [phone EXCEPT ![f] = "off"]
        BY <4>1 DEF StreamInv
      <4> QED BY <1>9, <2>2, <4>2 DEF OnConnect
    <3>3. phone' = [phone EXCEPT ![f] = "waiting"]
      BY <3>1, <3>2 DEF StreamInv
    <3>4. Joined(f)
      BY <2>1, <2>2, <3>1 DEF Waits, Joined
    <3>5. up'[f] = Append(up[f], "handshake") /\ Append(up[f], "handshake") # <<>>
      BY <3>2, <3>3, <3>4 DEF StreamInv
    <3> QED BY <3>5 DEF Minded, Minds
  <2>3. CASE g # f
    <3>1. up'[f] = up[f] /\ down'[f] = down[f] /\ phone'[f] = phone[f]
      BY <1>9, <2>3 DEF OnConnect, StreamInv
    <3> QED BY <1>1, <1>2, <2>1, <3>1 DEF Waits, Joined
  <2> QED BY <2>2, <2>3
<1>10. ASSUME NEW g \in Fds, Connect(g) \/ OnStart(g) \/ SendInput(g) \/ Leave(g)
       PROVE  Minded(f)'
  <2>1. UNCHANGED <<agentMap, mbox>>
    BY <1>10 DEF Connect, OnStart, SendInput, Leave, gateVars
  <2>2. g # f
    <3> SUFFICES ASSUME g = f
                 PROVE  phone'[f] # "waiting"
      BY DEF Waits
    <3> QED BY <1>10 DEF Connect, OnStart, SendInput, Leave, StreamInv
  <2>3. /\ up'[f] = up[f] /\ down'[f] = down[f] /\ phone'[f] = phone[f]
        /\ connects'[f] = connects[f]
    BY <1>0, <1>10, <2>2 DEF Connect, OnStart, SendInput, Leave, StreamInv, gateVars
  <2> QED BY <1>1, <1>2, <2>1, <2>3 DEF Waits, Joined
<1> QED
  BY <1>3, <1>4, <1>5, <1>7, <1>8, <1>9, <1>10 DEF GateStep, PhoneStep, GateCommand

-----------------------------------------------------------------------------
\* A service hands on what it took: what it sends minds f if its message did.
LEMMA Handed ==
  ASSUME QueueInv, MindInv, NEW f \in Fds, Waits(f), NEW s \in Services, mbox[s] # <<>>,
         NEW t \in Services \ {s, "queue"}, NEW x \in Msg(t),
         mbox' = SentTo(Taken(s), t, <<x>>),
         UNCHANGED <<up, down, rooms>>, readyFd = f => readyFd' = f \/ OfPair(x, f),
         t = "gate" /\ s = "lobby" => x.cmd # "CheckAgent.queue",
         t = "lobby" => x.cmd \in {"NewRoom", "checked", "gotValue"},
         \/ ~Serves(s, Head(mbox[s]), f)
         \/ t = "gate" /\ x = Request("CheckAgent.queue", <<f>>) /\ s = "queue"
         \/ x.cmd # "CheckAgent.queue" /\ OfPair(x, f)
  PROVE  Minded(f)'
<1>1. /\ Boxes(mbox) /\ Boxes(Taken(s))
      /\ Serves(s, Head(mbox[s]), f) \/ Minds(up[f], down[f], readyFd, Taken(s), rooms, f)
      /\ Taken(s)[s] = Tail(mbox[s])
  BY TakenBoxes, TakenMinds DEF QueueInv, MailInv, MindInv, Minded
<1>2. CASE x.cmd # "CheckAgent.queue" /\ OfPair(x, f)
  <2>1. t = "gate" \/ t = "lobby"
    BY DEF Services
  <2> QED BY <1>1, <1>2, <2>1, SentLast DEF Minded
<1> DEFINE ms == <<x>>
<1>3. ms \in Seq(Msg(t)) /\ Len(ms) = 1 /\ ms[1] = x
  OBVIOUS
<1> HIDE DEF ms
<1>4. mbox' = SentTo(Taken(s), t, ms)
  BY DEF ms
<1>5. Keeps(Taken(s), mbox', f)
  BY <1>1, <1>3, <1>4, SentKeeps
<1>6. CASE ~Serves(s, Head(mbox[s]), f) /\ ~(x.cmd # "CheckAgent.queue" /\ OfPair(x, f))
  <2>1. readyFd = f => readyFd' = f
    <3>1. OfPair(x, f) => x.cmd # "CheckAgent.queue"
      <4>1. x.cmd = "CheckAgent.queue" => x.fds \in Single
        BY DEF Services, Msg, GateMsg, LobbyMsg
      <4>2. x.fds \in Single => x.fds \notin Pairs
        BY DEF Single, Pairs
      <4> QED BY <4>1, <4>2 DEF OfPair
    <3> QED BY <1>6, <3>1
  <2> QED BY <1>1, <1>5, <1>6, <2>1, MindsKept DEF Minded
<1>7. CASE /\ Serves(s, Head(mbox[s]), f) /\ s = "queue"
           /\ t = "gate" /\ x = Request("CheckAgent.queue", <<f>>)
  <2>1. Clean(Taken(s)["queue"], f)
    BY <1>1, <1>7 DEF Serves
  <2>2. Clean(mbox'["queue"], f)
    BY <1>5, <2>1 DEF Keeps
  <2>3. Asked(mbox'["gate"], f)
    <3>1. /\ mbox'["gate"] = Taken(s)["gate"] \o ms
          /\ Taken(s)["gate"] \in Seq(Msg("gate"))
      <4>1. "gate" \in Services
        BY DEF Services
      <4>2. Taken(s)["gate"] \in Seq(Msg("gate"))
        BY <1>1, <4>1 DEF Boxes
      <4>3. SentTo(Taken(s), t, ms)[t] = Taken(s)[t] \o ms
        BY <1>1, <1>3, SentBoxes
      <4> QED BY <1>4, <1>7, <4>2, <4>3
    <3>2. \A q \in Seq(Msg("gate")) : /\ Len(q \o ms) \in 1..Len(q \o ms)
                                      /\ (q \o ms)[Len(q \o ms)] = x
      <4> TAKE q \in Seq(Msg("gate"))
      <4> DEFINE S == Msg("gate")
      <4>1. ms \in Seq(S) /\ q \in Seq(S) /\ Len(ms) = 1
        BY <1>3, <1>7
      <4> HIDE DEF S
      <4>2. Len(q) \in Nat /\ Len(q \o ms) = Len(q) + 1 /\ (q \o ms)[Len(q) + 1] = ms[1]
        <5>1. Len(q) \in Nat /\ Len(q) + 1 \in 1..Len(q) + 1 /\ ~(Len(q) + 1 <= Len(q))
              /\ Len(q) + 1 - Len(q) = 1
          BY <4>1, LenProperties
        <5>2. \A i \in 1..Len(q) + 1 : (q \o ms)[i] = IF i <= Len(q) THEN q[i] ELSE ms[i - Len(q)]
          BY <4>1, ConcatProperties
        <5>3. Len(q \o ms) = Len(q) + 1
          BY <4>1, ConcatProperties
        <5> QED BY <5>1, <5>2, <5>3
      <4> QED BY <1>3, <4>2
    <3> QED BY <1>7, <3>1, <3>2 DEF Asked
  <2> QED BY <2>2, <2>3 DEF Minded, Minds
<1> QED BY <1>2, <1>6, <1>7

\* The queue's steps: it asks, keeps or hands on the fd it heard of.
LEMMA MindQueueStep ==
  ASSUME QueueInv, MindInv, QueueStep, UNCHANGED <<gateVars, phoneVars, lobbyVars>>
  PROVE  MindInv'
<1> SUFFICES ASSUME NEW f \in Fds, Waits(f)'
             PROVE  Minded(f)'
  BY DEF MindInv
<1> DEFINE m == Head(mbox["queue"])
<1>0. /\ "queue" \in Services /\ Boxes(mbox) /\ readyFd \in Fds \cup {NoFd} /\ NoFd \notin Fds
      /\ "gate" \in Services \ {"queue"} /\ "lobby" \in Services \ {"queue"}
      /\ Msg("gate") = GateMsg /\ Msg("lobby") = LobbyMsg
  BY FdsAssumption DEF Services, Msg, QueueInv, MailInv, WaitInv
<1>1. Waits(f) /\ UNCHANGED <<up, down, rooms>>
  BY DEF Waits, Joined, gateVars, phoneVars, lobbyVars
<1>2. mbox["queue"] # <<>>
  BY DEF QueueStep, QueueOnHandshake, QueueChecked, QueueOnDisconnect, Heads
<1>3. /\ Boxes(Taken("queue")) /\ Taken("queue")["queue"] = Tail(mbox["queue"])
      /\ Serves("queue", m, f) \/ Minds(up[f], down[f], readyFd, Taken("queue"), rooms, f)
  BY <1>0, <1>1, <1>2, TakenBoxes, TakenMinds DEF MindInv, Minded
<1>4. CASE QueueOnHandshake
  <2> DEFINE x == Request("CheckAgent.queue", <<m.fd>>)
  <2>1. /\ m.cmd = "OnHandshake" /\ mbox' = SentTo(Taken("queue"), "gate", <<x>>)
        /\ readyFd' = readyFd
    BY <1>4 DEF QueueOnHandshake, Heads
  <2>2. m.fd \in Fds
    BY <1>2, <2>1, QueueHead DEF QueueInv
  <2>3. x \in GateMsg
    <3> HIDE DEF m
    <3> QED BY <2>2 DEF GateMsg, Single, Request
  <2>4. Serves("queue", m, f) => x = Request("CheckAgent.queue", <<f>>)
    <3>1. m = Checked(<<f>>, TRUE) => m.cmd = "checked"
      BY DEF Checked
    <3>2. m = Event("OnHandshake", f) => m.fd = f
      BY DEF Event
    <3> HIDE DEF m
    <3> QED BY <2>1, <3>1, <3>2 DEF Serves
  <2> HIDE DEF x
  <2> QED BY <1>0, <1>1, <1>2, <2>1, <2>3, <2>4, Handed
<1>5. CASE QueueChecked
  <2> DEFINE g == m.fds[1]
             x == Request("NewRoom", <<readyFd, g>>)
  <2>1. m.cmd = "checked"
    BY <1>5 DEF QueueChecked, Heads
  <2>2. g \in Fds
    BY <1>2, <2>1, QueueHead DEF QueueInv
  <2>3. Serves("queue", m, f) => m.ok /\ g = f /\ Clean(Taken("queue")["queue"], f)
    <3>1. m = Checked(<<f>>, TRUE) => m.ok /\ m.fds[1] = f
      BY DEF Checked
    <3>2. m # Event("OnHandshake", f)
      BY <2>1 DEF Event
    <3> HIDE DEF m
    <3> QED BY <1>3, <3>1, <3>2 DEF Serves
  <2>4. CASE ~m.ok
    <3>1. mbox' = Taken("queue") /\ readyFd' = readyFd
      BY <1>5, <2>4 DEF QueueChecked
    <3> QED BY <1>1, <1>3, <2>3, <2>4, <3>1 DEF Minded
  <2>5. CASE m.ok /\ readyFd = NoFd
    <3>1. mbox' = Taken("queue") /\ readyFd' = g
      BY <1>5, <2>5 DEF QueueChecked
    <3>2. CASE Serves("queue", m, f)
      BY <2>3, <3>1, <3>2 DEF Minded, Minds
    <3>3. CASE ~Serves("queue", m, f)
      <4>1. Keeps(Taken("queue"), mbox', f)
        BY <3>1 DEF Keeps
      <4> QED BY <1>0, <1>1, <1>3, <2>5, <3>3, <4>1, MindsKept DEF Minded
    <3> QED BY <3>2, <3>3
  <2>6. CASE m.ok /\ readyFd # NoFd
    <3>1. mbox' = SentTo(Taken("queue"), "lobby", <<x>>)
      BY <1>5, <2>6 DEF QueueChecked
    <3> HIDE DEF m, g
    <3>2. <<readyFd, g>> \in Pairs
      BY <1>0, <2>2, <2>6 DEF Pairs
    <3>3. /\ x \in LobbyMsg /\ x.cmd = "NewRoom"
          /\ readyFd = f \/ g = f => OfPair(x, f)
      BY <3>2 DEF LobbyMsg, Request, OfPair
    <3> HIDE DEF x
    <3> QED BY <1>0, <1>1, <1>2, <2>3, <3>1, <3>3, Handed DEF m
  <2> QED BY <2>4, <2>5, <2>6
<1>6. CASE QueueOnDisconnect
  <2>1. /\ m.cmd = "OnDisconnect" /\ mbox' = Taken("queue")
        /\ readyFd' = IF readyFd = m.fd THEN NoFd ELSE readyFd
    BY <1>6 DEF QueueOnDisconnect, Heads
  <2>2. m = Event("OnDisconnect", m.fd)
    BY <1>2, <2>1, QueueHead DEF QueueInv, Event
  <2>3. ~Serves("queue", m, f)
    <3>1. m # Event("OnHandshake", f) /\ m # Checked(<<f>>, TRUE)
      BY <2>1 DEF Event, Checked
    <3> QED BY <3>1 DEF Serves
  <2>4. CASE m.fd # f
    <3>1. Keeps(Taken("queue"), mbox', f)
      BY <2>1 DEF Keeps
    <3>2. readyFd = f => readyFd' = f
      BY <2>1, <2>4
    <3> QED BY <1>1, <1>3, <2>3, <3>1, <3>2, MindsKept DEF Minded
  <2>5. CASE m.fd = f
    <3>1. ~Clean(mbox["queue"], f)
      <4>1. mbox["queue"] \in Seq(Msg("queue"))
        BY <1>0 DEF Boxes
      <4>2. 1 \in 1..Len(mbox["queue"]) /\ mbox["queue"][1] = m
        BY <1>2, <4>1
      <4> QED BY <2>2, <2>5, <4>2 DEF Clean
    <3>2. Minds(up[f], down[f], NoFd, mbox, rooms, f)
      BY <1>1, <3>1 DEF MindInv, Minded, Minds
    <3>3. Minds(up[f], down[f], NoFd, Taken("queue"), rooms, f)
      BY <1>0, <1>2, <2>3, <3>2, TakenMinds
    <3>4. Keeps(Taken("queue"), mbox', f)
      BY <2>1 DEF Keeps
    <3> QED BY <1>0, <1>1, <3>3, <3>4, MindsKept DEF Minded
  <2> QED BY <2>4, <2>5
<1> QED BY <1>4, <1>5, <1>6 DEF QueueStep

\* The lobby tells a room something: whom it is for and how far it is stay.
LEMMA ToldInRoom ==
  ASSUME rooms \in Seq(Room), NEW r, NEW c, NEW f, InRoom(rooms, f)
  PROVE  InRoom(Told(r, c), f)
<1> DEFINE rms == Told(r, c)
<1>1. /\ DOMAIN rooms = 1..Len(rooms) /\ Len(rooms) \in Nat
      /\ \A i \in 1..Len(rooms) : rooms[i] \in Room
  OBVIOUS
<1>2. DOMAIN rms = 1..Len(rooms) /\ Len(rms) = Len(rooms)
  BY <1>1 DEF Told
<1>3. \A i \in 1..Len(rooms) : rms[i].state = rooms[i].state /\ rms[i].fds = rooms[i].fds
  BY <1>1 DEF Told, Room
<1> HIDE DEF rms
<1> QED BY <1>2, <1>3 DEF InRoom, OfPair, rms

\* A room changes: it still takes f in.
LEMMA SameRooms ==
  ASSUME rooms \in Seq(Room), NEW r \in 1..Len(rooms), NEW room,
         rooms' = [rooms EXCEPT ![r] = room], room.fds = rooms[r].fds,
         NEW f, InRoom(rooms, f),
         OfPair(rooms[r], f) => \/ room.state \in {"launching", "launched"}
                                \/ rooms[r].state \notin {"launching", "launched"}
  PROVE  InRoom(rooms', f)
<1>1. Len(rooms') = Len(rooms) /\ \A i \in 1..Len(rooms) : i # r => rooms'[i] = rooms[i]
  OBVIOUS
<1>2. rooms'[r] = room
  OBVIOUS
<1>3. PICK i \in 1..Len(rooms) : /\ rooms[i].state \in {"launching", "launched"}
                                 /\ OfPair(rooms[i], f)
  BY DEF InRoom
<1> QED BY <1>1, <1>2, <1>3 DEF InRoom, OfPair

LEMMA MindLobbyStep ==
  ASSUME QueueInv, RoomInv, MindInv, LobbyStep, UNCHANGED <<gateVars, phoneVars, readyFd>>
  PROVE  MindInv'
<1> SUFFICES ASSUME NEW f \in Fds, Waits(f)'
             PROVE  Minded(f)'
  BY DEF MindInv
<1> DEFINE m == Head(mbox["lobby"])
<1>0. /\ "lobby" \in Services /\ "gate" \in Services \ {"lobby", "queue"}
      /\ "lobby" # "queue" /\ "gate" \in Services
      /\ Msg("gate") = GateMsg /\ Msg("lobby") = LobbyMsg
      /\ Boxes(mbox) /\ rooms \in Seq(Room)
  BY DEF Services, Msg, QueueInv, MailInv
<1>1. Waits(f) /\ UNCHANGED <<up, down, readyFd>>
  BY DEF Waits, Joined, gateVars, phoneVars
<1>2. ASSUME mbox["lobby"] # <<>>
      PROVE  /\ Boxes(Taken("lobby"))
             /\ Serves("lobby", m, f) \/ Minds(up[f], down[f], readyFd, Taken("lobby"), rooms, f)
  BY <1>0, <1>1, <1>2, TakenBoxes, TakenMinds DEF MindInv, Minded
<1>3. ASSUME mbox["lobby"] # <<>>, ~Serves("lobby", m, f), Keeps(Taken("lobby"), mbox', f),
             InRoom(rooms, f) => InRoom(rooms', f)
      PROVE  Minded(f)'
  BY <1>1, <1>2, <1>3, MindsKept DEF Minded
<1>4. ASSUME mbox["lobby"] # <<>>, rooms' = rooms,
             NEW c \in {"CheckAgent.lobby", "GetAgentValue", "Kick"}, m.fds \in Pairs,
             mbox' = SentTo(Taken("lobby"), "gate", <<Request(c, m.fds)>>)
      PROVE  Minded(f)'
  <2> DEFINE x == Request(c, m.fds)
  <2>1. x \in GateMsg /\ x.cmd = c /\ x.fds = m.fds
    BY <1>4 DEF GateMsg, Request
  <2> HIDE DEF x
  <2>2. Serves("lobby", m, f) => x.cmd # "CheckAgent.queue" /\ OfPair(x, f)
    BY <2>1 DEF Serves, OfPair
  <2>3. mbox' = SentTo(Taken("lobby"), "gate", <<x>>)
    BY <1>4 DEF x
  <2> QED BY <1>0, <1>1, <1>4, <2>1, <2>2, <2>3, Handed
<1>5. CASE NewRoom
  <2>1. /\ mbox["lobby"] # <<>> /\ m.cmd = "NewRoom" /\ rooms' = rooms
        /\ mbox' = SentTo(Taken("lobby"), "gate", <<Request("CheckAgent.lobby", m.fds)>>)
    BY <1>5 DEF NewRoom, Heads, lobbyVars
  <2>2. m.fds \in Pairs
    BY <2>1, LobbyHead DEF QueueInv
  <2> QED BY <1>4, <2>1, <2>2
<1>6. CASE NewRoomChecked
  <2> DEFINE c == IF m.ok THEN "GetAgentValue" ELSE "Kick"
  <2>1. /\ mbox["lobby"] # <<>> /\ m.cmd = "checked" /\ rooms' = rooms
        /\ mbox' = SentTo(Taken("lobby"), "gate", <<Request(c, m.fds)>>)
    BY <1>6 DEF NewRoomChecked, Heads, lobbyVars
  <2>2. m.fds \in Pairs
    BY <2>1, LobbyHead DEF QueueInv
  <2>3. c \in {"CheckAgent.lobby", "GetAgentValue", "Kick"}
    OBVIOUS
  <2> HIDE DEF c
  <2> QED BY <1>4, <2>1, <2>2, <2>3
<1>7. CASE NewRoomGotValue
  <2> DEFINE new == [fds |-> m.fds, state |-> "launching", inbox |-> <<>>]
  <2>1. /\ mbox["lobby"] # <<>> /\ m.cmd = "gotValue" /\ mbox' = Taken("lobby")
        /\ rooms' = Append(rooms, new)
    BY <1>7 DEF NewRoomGotValue, Heads
  <2>2. new.state = "launching" /\ (OfPair(m, f) => OfPair(new, f))
    BY DEF OfPair
  <2> HIDE DEF new
  <2>3. new \in Room
    <3>1. m.fds \in Pairs
      BY <2>1, LobbyHead DEF QueueInv
    <3> HIDE DEF m
    <3> QED BY <3>1 DEF Room, new
  <2>4. /\ Len(rooms') = Len(rooms) + 1 /\ Len(rooms) \in Nat /\ rooms'[Len(rooms) + 1] = new
        /\ \A i \in 1..Len(rooms) : rooms'[i] = rooms[i]
    BY <1>0, <2>1, <2>3
  <2>5. CASE Serves("lobby", m, f)
    <3>1. OfPair(new, f)
      BY <2>2, <2>5 DEF Serves
    <3>2. InRoom(rooms', f)
      BY <2>2, <2>4, <3>1 DEF InRoom
    <3> QED BY <3>2 DEF Minded, Minds
  <2>6. CASE ~Serves("lobby", m, f)
    <3>1. InRoom(rooms, f) => InRoom(rooms', f)
      BY <2>4 DEF InRoom
    <3>2. Keeps(Taken("lobby"), mbox', f)
      BY <2>1 DEF Keeps
    <3> QED BY <1>3, <2>1, <2>6, <3>1, <3>2
  <2> QED BY <2>5, <2>6
<1>8. CASE NewRoomLaunched \/ LobbyOnReceive
  <2>1. /\ mbox["lobby"] # <<>> /\ m.cmd \in {"launched", "OnReceive"}
        /\ mbox' = Taken("lobby")
        /\ rooms' = rooms \/ \E r, c : rooms' = Told(r, c)
    BY <1>8 DEF NewRoomLaunched, LobbyOnReceive, Heads
  <2>2. InRoom(rooms, f) => InRoom(rooms', f)
    BY <1>0, <2>1, ToldInRoom
  <2>3. ~Serves("lobby", m, f) /\ Keeps(Taken("lobby"), mbox', f)
    BY <2>1 DEF Serves, Keeps
  <2> QED BY <1>3, <2>1, <2>2, <2>3
<1>9. CASE LobbyOnDisconnect
  <2>1. mbox["lobby"] # <<>> /\ m.cmd = "OnDisconnect"
    BY <1>9 DEF LobbyOnDisconnect, Heads
  <2>2. m.fd \in Fds /\ ~Serves("lobby", m, f)
    BY <2>1, LobbyHead DEF QueueInv, Serves
  <2>3. CASE GetRoom(m.fd) = 0
    <3>1. mbox' = Taken("lobby") /\ rooms' = rooms
      BY <1>9, <2>3 DEF LobbyOnDisconnect, lobbyVars
    <3>2. Keeps(Taken("lobby"), mbox', f)
      BY <3>1 DEF Keeps
    <3> QED BY <1>3, <2>1, <2>2, <3>1, <3>2
  <2>4. CASE GetRoom(m.fd) # 0
    <3> DEFINE x == Request("Kick", PairOf(m.fd))
    <3>1. /\ mbox' = SentTo(Taken("lobby"), "gate", <<x>>)
          /\ rooms' = Told(GetRoom(m.fd), "Exit")
      BY <1>9, <2>4 DEF LobbyOnDisconnect
    <3>2. PairOf(m.fd) \in Pairs
      BY <2>2, <2>4, RoomOpen DEF QueueInv
    <3>3. <<x>> \in Seq(Msg("gate"))
      <4>1. x \in GateMsg
        BY <3>2 DEF GateMsg, Request
      <4> QED BY <1>0, <4>1
    <3> DEFINE ms == <<x>>
    <3>4. ms \in Seq(Msg("gate")) /\ mbox' = SentTo(Taken("lobby"), "gate", ms)
      BY <3>1, <3>3
    <3> HIDE DEF ms, m
    <3>5. Keeps(Taken("lobby"), mbox', f)
      BY <1>0, <1>2, <2>1, <3>4, SentKeeps
    <3>6. InRoom(rooms, f) => InRoom(rooms', f)
      BY <1>0, <3>1, ToldInRoom
    <3> QED BY <1>3, <2>1, <2>2, <3>5, <3>6
  <2> QED BY <2>3, <2>4
<1>10. ASSUME NEW r \in 1..Len(rooms), Launch(r)
       PROVE  Minded(f)'
  <2> DEFINE x    == Launched(rooms[r].fds, r)
             room == [rooms[r] EXCEPT !.state = "launched"]
  <2>1. /\ rooms' = [rooms EXCEPT ![r].state = "launched"]
        /\ mbox' = SentTo(mbox, "lobby", <<x>>)
    BY <1>10 DEF Launch
  <2>2. rooms[r] \in Room /\ r \in Nat /\ rooms' = [rooms EXCEPT ![r] = room]
    BY <1>0, <2>1
  <2>3. room.fds = rooms[r].fds /\ room.state = "launched" /\ rooms[r].fds \in Pairs
    BY <2>2 DEF Room
  <2> HIDE DEF room
  <2>4. InRoom(rooms, f) => InRoom(rooms', f)
    BY <1>0, <2>2, <2>3, SameRooms
  <2>5. x \in LobbyMsg
    BY <2>2, <2>3 DEF Launched, LobbyMsg
  <2> HIDE DEF x
  <2> DEFINE ms == <<x>>
  <2>6. ms \in Seq(Msg("lobby")) /\ mbox' = SentTo(mbox, "lobby", ms)
    BY <1>0, <2>1, <2>5
  <2> HIDE DEF ms
  <2>7. Keeps(mbox, mbox', f)
    BY <1>0, <2>6, SentKeeps
  <2> QED BY <1>1, <2>4, <2>7, MindsKept DEF MindInv, Minded
<1>11. ASSUME NEW r \in 1..Len(rooms), RoomHandles(r)
       PROVE  Minded(f)'
  <2> DEFINE c     == Head(rooms[r].inbox)
             x     == Request("Send", rooms[r].fds)
             inbox == IF c = "Exit" THEN <<>> ELSE Tail(rooms[r].inbox)
             state == CASE c = "Start" -> "up" [] c = "Exit" -> "gone"
                        [] OTHER -> rooms[r].state
             room  == [[rooms[r] EXCEPT !.inbox = inbox] EXCEPT !.state = state]
  <2>1. /\ rooms[r] \in Room /\ rooms[r].state \in {"launched", "up"} /\ rooms[r].inbox # <<>>
        /\ rooms' = [rooms EXCEPT ![r].inbox = inbox, ![r].state = state]
        /\ mbox' = IF c = "Start" THEN SentTo(mbox, "gate", <<x>>) ELSE mbox
    BY <1>0, <1>11 DEF RoomHandles
  <2>2. rooms' = [rooms EXCEPT ![r] = room]
    <3> HIDE DEF inbox, state
    <3> QED BY <1>0, <2>1 DEF room
  <2>3. rooms[r].fds \in Pairs /\ room.fds = rooms[r].fds /\ room.state = state
    <3> HIDE DEF inbox, state
    <3> QED BY <2>1 DEF Room
  <2>4. rooms[r].state = "launched" => c = "Start"
    BY <2>1 DEF RoomInv, HeardInv
  <2>5. x \in GateMsg /\ x.cmd = "Send" /\ x.fds = rooms[r].fds
    BY <2>3 DEF GateMsg, Request
  <2> HIDE DEF x, room
  <2>6. CASE c = "Start"
    <3> DEFINE ms == <<x>>
    <3>1. ms \in Seq(Msg("gate")) /\ mbox' = SentTo(mbox, "gate", ms)
      BY <1>0, <2>1, <2>5, <2>6
    <3> HIDE DEF ms
    <3>2. CASE OfPair(rooms[r], f)
      <4>1. OfPair(x, f) /\ x.cmd # "CheckAgent.queue"
        BY <2>5, <3>2 DEF OfPair
      <4> QED BY <1>0, <2>1, <2>5, <2>6, <4>1, SentLast DEF Minded
    <3>3. CASE ~OfPair(rooms[r], f)
      <4>1. InRoom(rooms, f) => InRoom(rooms', f)
        BY <1>0, <2>2, <2>3, <3>3, SameRooms
      <4>2. Keeps(mbox, mbox', f)
        BY <1>0, <3>1, SentKeeps
      <4> QED BY <1>1, <4>1, <4>2, MindsKept DEF MindInv, Minded
    <3> QED BY <3>2, <3>3
  <2>7. CASE c # "Start"
    <3>1. rooms[r].state = "up"
      BY <2>1, <2>4, <2>7
    <3>2. InRoom(rooms, f) => InRoom(rooms', f)
      BY <1>0, <2>2, <2>3, <3>1, SameRooms
    <3>3. Keeps(mbox, mbox', f)
      BY <2>1, <2>7 DEF Keeps
    <3> QED BY <1>1, <3>2, <3>3, MindsKept DEF MindInv, Minded
  <2> QED BY <2>6, <2>7
<1> QED
  BY <1>5, <1>6, <1>7, <1>8, <1>9, <1>10, <1>11 DEF LobbyStep

-----------------------------------------------------------------------------
LEMMA MindInit == Init => MindInv
BY DEF Init, GateInit, MindInv, Waits

WaiterInv == QueueInv /\ RoomInv /\ StreamInv /\ MindInv

LEMMA MindStep == WaiterInv /\ [Next]_vars => WaiterInv'
<1> SUFFICES ASSUME WaiterInv, [Next]_vars
             PROVE  WaiterInv'
  OBVIOUS
<1>1. QueueInv' /\ RoomInv' /\ StreamInv'
  BY WaitsStep, RoomsStep, StreamStep DEF WaiterInv
<1>2. CASE UNCHANGED vars
  BY <1>1, <1>2 DEF WaiterInv, MindInv, Waits, Joined, Minded, vars, gateVars, phoneVars,
                    lobbyVars
<1>3. CASE (GateStep \/ PhoneStep) /\ UNCHANGED <<readyFd, lobbyVars>>
  BY <1>1, <1>3, MindGateStep DEF WaiterInv
<1>4. CASE QueueStep /\ UNCHANGED <<gateVars, phoneVars, lobbyVars>>
  BY <1>1, <1>4, MindQueueStep DEF WaiterInv
<1>5. CASE LobbyStep /\ UNCHANGED <<gateVars, phoneVars, readyFd>>
  BY <1>1, <1>5, MindLobbyStep DEF WaiterInv
<1> QED BY <1>2, <1>3, <1>4, <1>5 DEF Next

\* A phone that has shaken hands and waits for an opponent is never forgotten
\* (gate.lua, queue.lua, lobby.lua): whatever goes on while the queue and the
\* lobby are suspended, somebody still holds its fd or a message about it, for
\* any number of phones and however often their fds are used again.
THEOREM NotForgotten == Spec => []NoWaiterForgotten
<1>1. WaiterInv => NoWaiterForgotten
  <2> SUFFICES ASSUME WaiterInv, NEW f \in Fds, Waits(f)
               PROVE  \/ up[f] # <<>> \/ down[f] # <<>>
                      \/ readyFd = f
                      \/ Named(f)
                      \/ \E r \in 1..Len(rooms) :
                           /\ f \in {rooms[r].fds[1], rooms[r].fds[2]}
                           /\ rooms[r].state \in {"launching", "launched"}
    BY DEF NoWaiterForgotten
  <2>0. /\ Minded(f) /\ "queue" \in Services /\ "gate" \in Services /\ "lobby" \in Services
    BY DEF WaiterInv, MindInv, Services
  <2>1. ASSUME NEW s \in Services, NEW i \in 1..Len(mbox[s]),
               \/ mbox[s][i] = Event("OnHandshake", f)
               \/ mbox[s][i] = Checked(<<f>>, TRUE)
               \/ mbox[s][i] = Request("CheckAgent.queue", <<f>>)
        PROVE  Named(f)
    <3>1. CASE mbox[s][i] = Event("OnHandshake", f)
      <4>1. "fd" \in DOMAIN mbox[s][i] /\ mbox[s][i].fd = f
        BY <3>1 DEF Event
      <4> QED BY <4>1 DEF Named
    <3>2. CASE mbox[s][i] # Event("OnHandshake", f)
      <4>1. /\ "fd" \notin DOMAIN mbox[s][i] /\ mbox[s][i].fds = <<f>>
        BY <2>1, <3>2 DEF Checked, Request
      <4>2. 1 \in DOMAIN mbox[s][i].fds /\ mbox[s][i].fds[1] = f
        BY <4>1
      <4> QED BY <4>1, <4>2 DEF Named
    <3> QED BY <3>1, <3>2
  <2>2. ASSUME NEW s \in {"gate", "lobby"}, NEW i \in 1..Len(mbox[s]), OfPair(mbox[s][i], f),
               s = "gate" \/ mbox[s][i].cmd \in {"NewRoom", "checked", "gotValue"}
        PROVE  Named(f)
    <3>1. mbox[s][i] \in Msg(s)
      BY <2>0 DEF WaiterInv, QueueInv, MailInv, Boxes
    <3>2. "fd" \notin DOMAIN mbox[s][i]
      <4>1. CASE s = "gate"
        BY <3>1, <4>1 DEF Msg, GateMsg
      <4>2. CASE s = "lobby"
        BY <2>2, <3>1, <4>2 DEF Msg, LobbyMsg
      <4> QED BY <4>1, <4>2
    <3>3. \E j \in DOMAIN mbox[s][i].fds : mbox[s][i].fds[j] = f
      <4>1. /\ DOMAIN mbox[s][i].fds = 1..2
            /\ mbox[s][i].fds[1] = f \/ mbox[s][i].fds[2] = f
        BY <2>2 DEF OfPair, Pairs
      <4> QED BY <4>1
    <3> QED BY <2>0, <3>2, <3>3 DEF Named
  <2>3. Queued(mbox["queue"], f) \/ Asked(mbox["gate"], f) => Named(f)
    BY <2>0, <2>1 DEF Queued, Asked
  <2>4. AtGate(mbox["gate"], f) \/ AtLobby(mbox["lobby"], f) => Named(f)
    BY <2>2 DEF AtGate, AtLobby
  <2> QED BY <2>0, <2>3, <2>4 DEF Minded, Minds, InRoom, OfPair
<1>2. Init => WaiterInv
  BY RoomsInit, WaitsInit, StreamInit, MindInit DEF WaiterInv
<1> QED BY <1>1, <1>2, MindStep, PTL DEF Spec

-----------------------------------------------------------------------------
(***************************************************************************)
(* Both players of a room find it, where no second phone has used their    *)
(* fds.  The handshake of such a phone is at one place at a time: the      *)
(* services hand it on as it is, so that no fd gets into two rooms, nor    *)
(* into one room twice.                                                    *)
(***************************************************************************)

Names(fs, f) == \E i \in DOMAIN fs : fs[i] = f

\* The commands that hand a phone, or two, on to be matched.
Handing ==
  {"CheckAgent.queue", "checked", "NewRoom", "CheckAgent.lobby", "GetAgentValue", "gotValue"}

Bears(m, f) ==
  \/ m.cmd = "OnHandshake" /\ m.fd = f
  \/ m.cmd \in Handing /\ Names(m.fds, f)

Twofold(m, f) == m.cmd \in Handing /\ m.fds = <<f, f>>

Holds(box, f) == \E i \in 1..Len(box) : Bears(box[i], f)

Alone(box, f) ==
  /\ \A i \in 1..Len(box) : ~Twofold(box[i], f)
  /\ \A i, j \in 1..Len(box) : Bears(box[i], f) /\ Bears(box[j], f) => i = j

Shakes(u) == \E i \in 1..Len(u) : u[i] = "handshake"

ShakesOnce(u) ==
  \A i, j \in 1..Len(u) : u[i] = "handshake" /\ u[j] = "handshake" => i = j

Plays(rms, f) == \E r \in 1..Len(rms) : Names(rms[r].fds, f)

PlaysOnce(rms, f) ==
  /\ \A r \in 1..Len(rms) : rms[r].fds # <<f, f>>
  /\ \A r, q \in 1..Len(rms) : Names(rms[r].fds, f) /\ Names(rms[q].fds, f) => r = q

\* Where the handshake of f is: still to come, in its stream, in the box of a
\* service, kept by the queue, or in a room.
Spots == Services \cup {"phone", "up", "ready", "room"}

Spot(p, f) ==
  CASE p = "phone" -> connects[f] = 0 \/ phone[f] = "connecting"
    [] p = "up"    -> Shakes(up[f])
    [] p = "ready" -> readyFd = f
    [] p = "room"  -> Plays(rooms, f)
    [] OTHER       -> Holds(mbox[p], f)

InOneSpot(f) == \A p, q \in Spots : Spot(p, f) /\ Spot(q, f) => p = q

Once(f) ==
  /\ InOneSpot(f)
  /\ ShakesOnce(up[f]) /\ PlaysOnce(rooms, f)
  /\ \A s \in Services : Alone(mbox[s], f)

\* No second phone has used f so far.
UsedOnce(f) == connects[f] <= 1

OnceInv == \A f \in Fds : UsedOnce(f) => Once(f)

-----------------------------------------------------------------------------
\* A service takes a message from its box.
LEMMA TailHolds ==
  ASSUME NEW M, NEW box \in Seq(M), box # <<>>, NEW f, Alone(box, f)
  PROVE  /\ Holds(Tail(box), f) => Holds(box, f) /\ ~Bears(Head(box), f)
         /\ Alone(Tail(box), f)
         /\ Bears(Head(box), f) => Holds(box, f)
         /\ ~Twofold(Head(box), f)
<1> DEFINE b == Tail(box)
<1>1. /\ Len(box) \in Nat \ {0} /\ Len(b) = Len(box) - 1 /\ Head(box) = box[1]
      /\ \A i \in 1..Len(b) : b[i] = box[i + 1]
  OBVIOUS
<1> HIDE DEF b
<1>2. /\ 1 \in 1..Len(box)
      /\ \A i \in 1..Len(b) : i + 1 \in 1..Len(box) /\ i + 1 # 1 /\ b[i] = box[i + 1]
      /\ \A i, j \in 1..Len(b) : i + 1 = j + 1 => i = j
  BY <1>1
<1>3. Holds(b, f) => Holds(box, f) /\ ~Bears(Head(box), f)
  BY <1>1, <1>2 DEF Holds, Alone
<1>4. Alone(b, f)
  BY <1>2 DEF Alone
<1>5. Bears(Head(box), f) => Holds(box, f)
  BY <1>1, <1>2 DEF Holds
<1>6. ~Twofold(Head(box), f)
  BY <1>1, <1>2 DEF Alone
<1> QED BY <1>3, <1>4, <1>5, <1>6 DEF b

\* One more message comes into a box.
LEMMA MoreHolds ==
  ASSUME NEW M, NEW box \in Seq(M), NEW m \in M, NEW f
  PROVE  /\ Holds(box \o <<m>>, f) <=> Holds(box, f) \/ Bears(m, f)
         /\ Alone(box, f) /\ ~Twofold(m, f) /\ ~(Holds(box, f) /\ Bears(m, f)) =>
              Alone(box \o <<m>>, f)
<1> DEFINE b == box \o <<m>>
           n == Len(box) + 1
<1>1. /\ Len(box) \in Nat /\ Len(b) = n /\ b[n] = m
      /\ \A i \in 1..Len(box) : b[i] = box[i]
  OBVIOUS
<1> HIDE DEF b
<1>2. /\ n \in 1..Len(b)
      /\ \A i \in 1..Len(b) : i \in 1..Len(box) \/ i = n
      /\ \A i \in 1..Len(box) : i \in 1..Len(b) /\ b[i] = box[i]
  BY <1>1
<1> HIDE DEF n
<1>3. Holds(b, f) <=> Holds(box, f) \/ Bears(m, f)
  BY <1>1, <1>2 DEF Holds
<1>4. ASSUME Alone(box, f), ~Twofold(m, f), ~(Holds(box, f) /\ Bears(m, f))
      PROVE  Alone(b, f)
  <2>1. \A i \in 1..Len(b) : ~Twofold(b[i], f)
    BY <1>1, <1>2, <1>4 DEF Alone
  <2>2. \A i, j \in 1..Len(b) : Bears(b[i], f) /\ Bears(b[j], f) => i = j
    BY <1>1, <1>2, <1>4 DEF Alone, Holds
  <2> QED BY <2>1, <2>2 DEF Alone
<1> QED BY <1>3, <1>4 DEF b

\* Messages of other kinds come into a box.
LEMMA OthersHold ==
  ASSUME NEW M, NEW box \in Seq(M), NEW ms \in Seq(M), NEW f,
         \A k \in 1..Len(ms) : ~Bears(ms[k], f) /\ ~Twofold(ms[k], f)
  PROVE  /\ Holds(box \o ms, f) <=> Holds(box, f)
         /\ Alone(box, f) => Alone(box \o ms, f)
<1> DEFINE b == box \o ms
<1>1. /\ Len(box) \in Nat /\ Len(ms) \in Nat /\ Len(b) = Len(box) + Len(ms)
      /\ \A i \in 1..Len(box) : b[i] = box[i]
      /\ \A i \in 1..Len(ms) : b[Len(box) + i] = ms[i]
  OBVIOUS
<1> HIDE DEF b
<1>2. /\ \A i \in 1..Len(box) : i \in 1..Len(b) /\ b[i] = box[i]
      /\ \A i \in 1..Len(b) : i \in 1..Len(box) \/ (~Bears(b[i], f) /\ ~Twofold(b[i], f))
  <2>1. ASSUME NEW i \in 1..Len(b), i \notin 1..Len(box)
        PROVE  ~Bears(b[i], f) /\ ~Twofold(b[i], f)
    <3>1. i - Len(box) \in 1..Len(ms) /\ i = Len(box) + (i - Len(box))
      BY <1>1, <2>1
    <3>2. b[i] = ms[i - Len(box)]
      BY <1>1, <3>1
    <3> QED BY <3>1, <3>2
  <2>2. \A i \in 1..Len(box) : i \in 1..Len(b) /\ b[i] = box[i]
    BY <1>1
  <2> QED BY <2>1, <2>2
<1>3. Holds(b, f) <=> Holds(box, f)
  BY <1>2 DEF Holds
<1>4. ASSUME Alone(box, f)
      PROVE  Alone(b, f)
  <2>1. \A i \in 1..Len(b) : ~Twofold(b[i], f)
    BY <1>2, <1>4 DEF Alone
  <2>2. \A i, j \in 1..Len(b) : Bears(b[i], f) /\ Bears(b[j], f) => i = j
    BY <1>2, <1>4 DEF Alone
  <2> QED BY <2>1, <2>2 DEF Alone
<1> QED BY <1>3, <1>4 DEF b

SameFds(rms, rms2) ==
  Len(rms2) = Len(rms) /\ \A r \in 1..Len(rms) : rms2[r].fds = rms[r].fds

LEMMA SamePlays ==
  ASSUME SameFds(rooms, rooms'), NEW f
  PROVE  /\ Plays(rooms, f)' <=> Plays(rooms, f)
         /\ PlaysOnce(rooms, f) => PlaysOnce(rooms, f)'
BY DEF SameFds, Plays, PlaysOnce

\* The places, one by one.
LEMMA SpotIs ==
  ASSUME NEW f
  PROVE  /\ Spot("phone", f) <=> connects[f] = 0 \/ phone[f] = "connecting"
         /\ Spot("up", f) <=> Shakes(up[f])
         /\ Spot("ready", f) <=> readyFd = f
         /\ Spot("room", f) <=> Plays(rooms, f)
         /\ \A s \in Services : Spot(s, f) <=> Holds(mbox[s], f)
BY DEF Spot, Services

\* A step leaves f where it was, or moves it from one place to another.
LEMMA OnceStep ==
  ASSUME NEW f, Once(f), NEW from \in Spots, NEW to \in Spots,
         \A p \in Spots \ {to} : Spot(p, f)' => Spot(p, f) /\ p # from,
         Spot(to, f)' => Spot(to, f) \/ Spot(from, f),
         ShakesOnce(up'[f]), PlaysOnce(rooms', f),
         \A s \in Services : Alone(mbox'[s], f)
  PROVE  Once(f)'
<1>1. ASSUME NEW p \in Spots, NEW q \in Spots, Spot(p, f)', Spot(q, f)'
      PROVE  p = q
  BY <1>1 DEF Once, InOneSpot
<1> QED BY <1>1 DEF Once, InOneSpot

LEMMA SpotNext ==
  ASSUME NEW f
  PROVE  /\ Spot("phone", f)' <=> connects'[f] = 0 \/ phone'[f] = "connecting"
         /\ Spot("up", f)' <=> Shakes(up'[f])
         /\ Spot("ready", f)' <=> readyFd' = f
         /\ Spot("room", f)' <=> Plays(rooms', f)
         /\ \A s \in Services : Spot(s, f)' <=> Holds(mbox'[s], f)
BY DEF Spot, Services

\* The boxes b2 hold f only where b does, and as little.
Fewer(b, b2, f) ==
  \A s \in Services : /\ Holds(b2[s], f) => Holds(b[s], f)
                      /\ Alone(b[s], f) => Alone(b2[s], f)

\* The phones, the agents' streams and the queue hold f only where they did.
Elsewhere(f) ==
  /\ Spot("phone", f)' => Spot("phone", f)
  /\ Shakes(up'[f]) => Shakes(up[f])
  /\ ShakesOnce(up'[f])
  /\ readyFd' = f => readyFd = f
  /\ SameFds(rooms, rooms')

\* A step that has nothing to do with f's handshake.
LEMMA OnceQuiet ==
  ASSUME NEW f, Once(f), Elsewhere(f), Fewer(mbox, mbox', f)
  PROVE  Once(f)'
<1>1. "phone" \in Spots /\ Spots = Services \cup {"phone", "up", "ready", "room"}
  BY DEF Spots
<1>2. PlaysOnce(rooms', f) /\ (Plays(rooms', f) => Plays(rooms, f))
  BY SamePlays DEF Elsewhere, Once
<1>3. \A s \in Services : Alone(mbox'[s], f) /\ (Spot(s, f)' => Spot(s, f))
  BY SpotIs, SpotNext DEF Once, Fewer
<1>4. \A p \in Spots : Spot(p, f)' => Spot(p, f)
  BY <1>1, <1>2, <1>3, SpotIs, SpotNext DEF Elsewhere
<1> QED BY <1>1, <1>2, <1>3, <1>4, OnceStep DEF Elsewhere

LEMMA TakenFewer ==
  ASSUME NEW f, Boxes(mbox), Once(f), NEW s \in Services, mbox[s] # <<>>
  PROVE  Fewer(mbox, Taken(s), f)
<1>1. /\ Taken(s)[s] = Tail(mbox[s]) /\ \A t \in Services \ {s} : Taken(s)[t] = mbox[t]
      /\ mbox[s] \in Seq(Msg(s)) /\ Alone(mbox[s], f)
  BY TakenBoxes DEF Boxes, Once
<1>2. Alone(Tail(mbox[s]), f) /\ (Holds(Tail(mbox[s]), f) => Holds(mbox[s], f))
  BY <1>1, TailHolds
<1> HIDE DEF Fewer
<1>3. \A t \in Services : /\ Holds(Taken(s)[t], f) => Holds(mbox[t], f)
                          /\ Alone(mbox[t], f) => Alone(Taken(s)[t], f)
  BY <1>1, <1>2
<1> QED BY <1>3 DEF Fewer

LEMMA SentFewer ==
  ASSUME NEW f, NEW b, Boxes(b), NEW t \in Services, NEW ms \in Seq(Msg(t)),
         \A k \in 1..Len(ms) : ~Bears(ms[k], f) /\ ~Twofold(ms[k], f)
  PROVE  Fewer(b, SentTo(b, t, ms), f)
<1>1. /\ SentTo(b, t, ms)[t] = b[t] \o ms
      /\ \A u \in Services \ {t} : SentTo(b, t, ms)[u] = b[u]
      /\ b[t] \in Seq(Msg(t))
  BY SentBoxes DEF Boxes
<1>2. /\ Holds(b[t] \o ms, f) => Holds(b[t], f)
      /\ Alone(b[t], f) => Alone(b[t] \o ms, f)
  BY <1>1, OthersHold
<1>3. \A u \in Services : /\ Holds(SentTo(b, t, ms)[u], f) => Holds(b[u], f)
                          /\ Alone(b[u], f) => Alone(SentTo(b, t, ms)[u], f)
  BY <1>1, <1>2
<1> QED BY <1>3 DEF Fewer

LEMMA OneFewer ==
  ASSUME NEW f, NEW b, Boxes(b), NEW t \in Services, NEW m \in Msg(t),
         ~Bears(m, f), ~Twofold(m, f)
  PROVE  Fewer(b, SentTo(b, t, <<m>>), f)
<1> DEFINE ms == <<m>>
<1>1. ms \in Seq(Msg(t)) /\ \A k \in 1..Len(ms) : ms[k] = m
  OBVIOUS
<1> HIDE DEF ms
<1>2. Fewer(b, SentTo(b, t, ms), f)
  BY <1>1, SentFewer
<1> QED BY <1>2 DEF ms

LEMMA FewerTwice ==
  ASSUME NEW f, NEW b1, NEW b2, NEW b3, Fewer(b1, b2, f), Fewer(b2, b3, f)
  PROVE  Fewer(b1, b3, f)
BY DEF Fewer

LEMMA GoneFewer ==
  ASSUME NEW f, NEW b, Boxes(b), NEW fs \in Seq(Fds)
  PROVE  Fewer(b, Disconnects(b, fs), f)
<1>1. "queue" \in Services /\ "lobby" \in Services
  BY DEF Services
<1>2. Events(fs) \in Seq(Msg("queue")) /\ Events(fs) \in Seq(Msg("lobby"))
  BY EventsType DEF Msg
<1>3. \A k \in 1..Len(Events(fs)) : ~Bears(Events(fs)[k], f) /\ ~Twofold(Events(fs)[k], f)
  <2>1. \A x : ~Bears(Event("OnDisconnect", x), f) /\ ~Twofold(Event("OnDisconnect", x), f)
    BY DEF Event, Bears, Twofold, Handing
  <2> QED BY <2>1, EventsType
<1> DEFINE b1 == SentTo(b, "lobby", Events(fs))
<1>4. Boxes(b1) /\ Fewer(b, b1, f)
  BY <1>1, <1>2, <1>3, SentBoxes, SentFewer
<1>5. Disconnects(b, fs) = SentTo(b1, "queue", Events(fs))
  BY DEF Disconnects, Events
<1> HIDE DEF b1
<1>6. Fewer(b1, SentTo(b1, "queue", Events(fs)), f)
  BY <1>1, <1>2, <1>3, <1>4, SentFewer
<1> QED BY <1>4, <1>5, <1>6, FewerTwice

\* A service takes its message and sends one that says no more of f.
LEMMA OncePassed ==
  ASSUME NEW f, MailInv, Once(f), Elsewhere(f),
         NEW s \in Services, mbox[s] # <<>>, NEW t \in Services \ {s}, NEW m \in Msg(t),
         mbox' = SentTo(Taken(s), t, <<m>>),
         Bears(m, f) => Bears(Head(mbox[s]), f), ~Twofold(m, f)
  PROVE  Once(f)'
<1>0. Boxes(mbox) /\ Boxes(Taken(s)) /\ s \in Spots /\ t \in Spots /\ t \in Services
  BY TakenBoxes DEF MailInv, Spots
<1>1. CASE ~Bears(m, f)
  <2>1. Fewer(mbox, Taken(s), f)
    BY <1>0, TakenFewer
  <2>2. Fewer(Taken(s), mbox', f)
    BY <1>0, <1>1, OneFewer
  <2> QED BY <2>1, <2>2, FewerTwice, OnceQuiet
<1>2. CASE Bears(m, f)
  <2>1. /\ mbox'[s] = Tail(mbox[s]) /\ mbox'[t] = mbox[t] \o <<m>>
        /\ \A u \in Services \ {s, t} : mbox'[u] = mbox[u]
        /\ mbox[s] \in Seq(Msg(s)) /\ mbox[t] \in Seq(Msg(t))
    BY <1>0, Passed DEF Boxes
  <2>2. Holds(mbox[s], f) /\ ~Holds(mbox'[s], f) /\ Alone(mbox'[s], f)
    BY <1>2, <2>1, TailHolds DEF Once
  <2>3. ~Holds(mbox[t], f)
    BY <1>0, <2>2, SpotIs DEF Once, InOneSpot
  <2>4. Alone(mbox'[t], f)
    BY <2>1, <2>3, MoreHolds DEF Once
  <2>5. \A u \in Services : Alone(mbox'[u], f)
    BY <2>1, <2>2, <2>4 DEF Once
  <2>6. PlaysOnce(rooms', f) /\ (Plays(rooms', f) => Plays(rooms, f))
    BY SamePlays DEF Elsewhere, Once
  <2>7. \A p \in Spots \ {t} : Spot(p, f)' => Spot(p, f) /\ p # s
    <3>1. \A p \in {"phone", "up", "ready", "room"} : Spot(p, f)' => Spot(p, f)
      BY <2>6, SpotIs, SpotNext DEF Elsewhere
    <3>2. \A u \in Services \ {t} : Spot(u, f)' => Spot(u, f) /\ u # s
      BY <2>1, <2>2, SpotIs, SpotNext
    <3>3. \A p \in {"phone", "up", "ready", "room"} : p # s
      BY DEF Services
    <3> QED BY <3>1, <3>2, <3>3 DEF Spots
  <2>8. Spot(s, f)
    BY <2>2, SpotIs
  <2> QED BY <1>0, <2>5, <2>6, <2>7, <2>8, OnceStep DEF Elsewhere
<1> QED BY <1>1, <1>2

\* What the messages bear.
LEMMA Bearings ==
  ASSUME NEW f
  PROVE  /\ \A c, g : c \notin Handing =>
              /\ Bears(Event(c, g), f) <=> c = "OnHandshake" /\ g = f
              /\ ~Twofold(Event(c, g), f)
         /\ \A c, fs : c # "OnHandshake" =>
              /\ Bears(Request(c, fs), f) <=> c \in Handing /\ Names(fs, f)
              /\ Twofold(Request(c, fs), f) <=> c \in Handing /\ fs = <<f, f>>
         /\ \A fs, ok : /\ Bears(Checked(fs, ok), f) <=> Names(fs, f)
                        /\ Twofold(Checked(fs, ok), f) <=> fs = <<f, f>>
         /\ \A fs, r : ~Bears(Launched(fs, r), f) /\ ~Twofold(Launched(fs, r), f)
<1>1. \A c, g : Event(c, g).cmd = c /\ Event(c, g).fd = g
  BY DEF Event
<1>2. \A c, fs : Request(c, fs).cmd = c /\ Request(c, fs).fds = fs
  BY DEF Request
<1>3. \A fs, ok : Checked(fs, ok).cmd = "checked" /\ Checked(fs, ok).fds = fs
  BY DEF Checked
<1>4. \A fs, r : Launched(fs, r).cmd = "launched"
  BY DEF Launched
<1>5. "checked" \in Handing /\ "launched" \notin Handing
  BY DEF Handing
<1>6. \A c, g : c \notin Handing =>
        /\ Bears(Event(c, g), f) <=> c = "OnHandshake" /\ g = f
        /\ ~Twofold(Event(c, g), f)
  BY <1>1 DEF Bears, Twofold
<1>7. \A c, fs : c # "OnHandshake" =>
        /\ Bears(Request(c, fs), f) <=> c \in Handing /\ Names(fs, f)
        /\ Twofold(Request(c, fs), f) <=> c \in Handing /\ fs = <<f, f>>
  BY <1>2 DEF Bears, Twofold
<1>8. \A fs, ok : /\ Bears(Checked(fs, ok), f) <=> Names(fs, f)
                  /\ Twofold(Checked(fs, ok), f) <=> fs = <<f, f>>
  BY <1>3, <1>5 DEF Bears, Twofold
<1>9. \A fs, r : ~Bears(Launched(fs, r), f) /\ ~Twofold(Launched(fs, r), f)
  BY <1>4, <1>5 DEF Bears, Twofold
<1> QED BY <1>6, <1>7, <1>8, <1>9

\* The message of a service that is about two players or one.
LEMMA Heading ==
  ASSUME NEW f, NEW m, m.cmd \in Handing
  PROVE  /\ Bears(m, f) <=> Names(m.fds, f)
         /\ Twofold(m, f) <=> m.fds = <<f, f>>
BY DEF Bears, Twofold, Handing

LEMMA SingleNames ==
  ASSUME NEW f, NEW g
  PROVE  /\ Names(<<g>>, f) <=> f = g
         /\ <<g>> # <<f, f>>
<1>1. DOMAIN <<g>> = 1..1 /\ <<g>>[1] = g /\ Len(<<g>>) = 1 /\ Len(<<f, f>>) = 2
  OBVIOUS
<1>2. <<g>> # <<f, f>>
  BY <1>1
<1>3. Names(<<g>>, f) <=> f = g
  BY <1>1 DEF Names
<1> QED BY <1>2, <1>3

\* Steps that change no more than the streams and the boxes.
LEMMA StayElsewhere ==
  ASSUME NEW f, Once(f), UNCHANGED <<connects, phone, readyFd, rooms>>,
         \/ up'[f] = up[f] \/ up'[f] = <<>>
         \/ up[f] # <<>> /\ up[f] \in Seq({"handshake", "input"}) /\ up'[f] = Tail(up[f])
  PROVE  Elsewhere(f)
<1>1. Spot("phone", f)' => Spot("phone", f)
  BY SpotIs, SpotNext
<1>2. SameFds(rooms, rooms')
  BY DEF SameFds
<1>3. /\ Shakes(up'[f]) => Shakes(up[f])
      /\ ShakesOnce(up'[f])
  <2>1. CASE up'[f] = up[f]
    BY <2>1 DEF Once
  <2>2. CASE up'[f] = <<>>
    BY <2>2 DEF Shakes, ShakesOnce
  <2>3. CASE up[f] # <<>> /\ up[f] \in Seq({"handshake", "input"}) /\ up'[f] = Tail(up[f])
    <3> DEFINE u == up[f]
               v == up'[f]
    <3>1. /\ Len(u) \in Nat /\ Len(v) = Len(u) - 1
          /\ \A i \in 1..Len(v) : i + 1 \in 1..Len(u) /\ v[i] = u[i + 1]
      BY <2>3
    <3>2. ShakesOnce(u)
      BY DEF Once
    <3> HIDE DEF u, v
    <3>3. \A i, j \in 1..Len(v) : i + 1 = j + 1 => i = j
      BY <3>1
    <3>4. (Shakes(v) => Shakes(u)) /\ ShakesOnce(v)
      BY <3>1, <3>2, <3>3 DEF Shakes, ShakesOnce
    <3> QED BY <3>4 DEF u, v
  <2> QED BY <2>1, <2>2, <2>3
<1> QED BY <1>1, <1>2, <1>3 DEF Elsewhere

-----------------------------------------------------------------------------
\* The commands of the gate.
LEMMA OnceAnswered ==
  ASSUME QueueInv, NEW f \in Fds, Once(f), CheckAgent \/ GetAgentValue,
         UNCHANGED <<readyFd, lobbyVars>>
  PROVE  Once(f)'
<1>0. /\ "gate" \in Services /\ "queue" \in Services \ {"gate"}
      /\ "lobby" \in Services \ {"gate"}
      /\ Msg("queue") = QueueMsg /\ Msg("lobby") = LobbyMsg
      /\ MailInv /\ Once(f)
  BY DEF Services, Msg, QueueInv
<1> DEFINE h  == Head(mbox["gate"])
           ok == \A i \in 1..Len(h.fds) : agentMap[h.fds[i]].here
<1>1. /\ mbox["gate"] # <<>> /\ Elsewhere(f) /\ ok \in BOOLEAN
      /\ h.cmd \in {"CheckAgent.queue", "CheckAgent.lobby", "GetAgentValue"}
  <2>1. UNCHANGED <<connects, phone, readyFd, rooms, up>>
    BY DEF CheckAgent, CheckAgentFor, GetAgentValue, gateVars, phoneVars, lobbyVars
  <2>2. Elsewhere(f)
    BY <1>0, <2>1, StayElsewhere
  <2> QED BY <2>2 DEF CheckAgent, CheckAgentFor, GetAgentValue, Heads
<1>2. \E g \in Fds : h.fds = <<g>> \/ h.fds \in Pairs
  BY <1>0, <1>1, GateHead DEF Single, Pairs
<1>3. PICK g \in Fds : h.fds = <<g>> \/ h.fds \in Pairs
  BY <1>2
<1>4. /\ Bears(h, f) <=> Names(h.fds, f)
      /\ h.fds # <<f, f>>
  <2>1. mbox["gate"] \in Seq(Msg("gate"))
    BY <1>0 DEF MailInv, Boxes
  <2>2. ~Twofold(h, f)
    BY <1>0, <1>1, <2>1, TailHolds DEF Once
  <2>3. h.cmd \in Handing
    BY <1>1 DEF Handing
  <2> HIDE DEF h
  <2> QED BY <2>2, <2>3, Heading
<1>5. ASSUME NEW t \in Services \ {"gate"}, NEW x \in Msg(t),
             mbox' = SentTo(Taken("gate"), t, <<x>>),
             Bears(x, f) => Names(h.fds, f), Twofold(x, f) => h.fds = <<f, f>>
      PROVE  Once(f)'
  BY <1>0, <1>1, <1>4, <1>5, OncePassed
<1>6. CASE CheckAgentFor("queue", "CheckAgent.queue")
  <2> DEFINE x == Checked(h.fds, ok)
  <2>1. mbox' = SentTo(Taken("gate"), "queue", <<x>>) /\ h.fds \in Single
    BY <1>0, <1>1, <1>6, GateHead DEF CheckAgentFor, Heads
  <2>2. x \in QueueMsg
    <3>1. <<g, g>> \in Pairs
      BY DEF Pairs
    <3> HIDE DEF h, ok
    <3> QED BY <1>1, <2>1, <3>1, Sorts
  <2>3. (Bears(x, f) => Names(h.fds, f)) /\ (Twofold(x, f) => h.fds = <<f, f>>)
    <3> HIDE DEF h, ok
    <3> QED BY Bearings
  <2> HIDE DEF x, h
  <2> QED BY <1>0, <1>5, <2>1, <2>2, <2>3
<1>7. CASE CheckAgentFor("lobby", "CheckAgent.lobby")
  <2> DEFINE x == Checked(h.fds, ok)
  <2>1. mbox' = SentTo(Taken("gate"), "lobby", <<x>>) /\ h.fds \in Pairs
    BY <1>0, <1>1, <1>7, GateHead DEF CheckAgentFor, Heads
  <2>2. x \in LobbyMsg
    <3> HIDE DEF h, ok
    <3> QED BY <1>1, <2>1, <1>3, Sorts
  <2>3. (Bears(x, f) => Names(h.fds, f)) /\ (Twofold(x, f) => h.fds = <<f, f>>)
    <3> HIDE DEF h, ok
    <3> QED BY Bearings
  <2> HIDE DEF x, h
  <2> QED BY <1>0, <1>5, <2>1, <2>2, <2>3
<1>8. CASE GetAgentValue
  <2> DEFINE x == Request("gotValue", h.fds)
  <2>1. mbox' = SentTo(Taken("gate"), "lobby", <<x>>) /\ h.fds \in Pairs
    BY <1>0, <1>1, <1>8, GateHead DEF GetAgentValue, Heads
  <2>2. x \in LobbyMsg
    <3> HIDE DEF h
    <3> QED BY <1>1, <2>1, <1>3, Sorts
  <2>3. (Bears(x, f) => Names(h.fds, f)) /\ (Twofold(x, f) => h.fds = <<f, f>>)
    <3> HIDE DEF h, ok
    <3> QED BY Bearings
  <2> HIDE DEF x, h
  <2> QED BY <1>0, <1>5, <2>1, <2>2, <2>3
<1> QED BY <1>6, <1>7, <1>8 DEF CheckAgent

LEMMA OnceDropped ==
  ASSUME QueueInv, StreamInv, NEW f \in Fds, Once(f), Heartbeat \/ KickCommand \/ Send,
         UNCHANGED <<readyFd, lobbyVars>>
  PROVE  Once(f)'
<1>0. "gate" \in Services /\ MailInv /\ Boxes(mbox) /\ Once(f)
  BY DEF Services, QueueInv, MailInv
<1>1. UNCHANGED <<connects, phone, readyFd, rooms>>
  BY DEF Heartbeat, KickCommand, Send, phoneVars, lobbyVars
<1>2. up'[f] = up[f] \/ up'[f] = <<>>
  BY DEF Heartbeat, KickCommand, Send, Kick, gateVars
<1>3. Elsewhere(f)
  BY <1>0, <1>1, <1>2, StayElsewhere
<1>4. CASE Heartbeat
  <2> DEFINE silent == {g \in Agents : ~agentMap[g].heartbeat}
  <2>1. PICK fs \in [1..Cardinality(silent) -> silent] : mbox' = Disconnects(mbox, fs)
    BY <1>4 DEF Heartbeat
  <2>2. fs \in Seq(Fds)
    <3>1. silent \subseteq Agents /\ Agents \subseteq Fds
      BY DEF Agents
    <3>2. Cardinality(silent) \in Nat
      BY <3>1, AgentsFinite, FS_Subset, FS_CardinalityType
    <3> HIDE DEF silent
    <3> QED BY <2>1, <3>1, <3>2
  <2>3. Fewer(mbox, mbox', f)
    BY <1>0, <2>1, <2>2, GoneFewer
  <2> QED BY <1>0, <1>3, <2>3, OnceQuiet
<1>5. CASE KickCommand
  <2> DEFINE fs == Head(mbox["gate"]).fds
  <2>1. /\ mbox["gate"] # <<>> /\ fs \in Pairs
        /\ mbox' = Disconnects(Taken("gate"), There(fs))
    BY <1>0, <1>5, GateHead DEF KickCommand, Heads
  <2> HIDE DEF fs
  <2>2. There(fs) \in Seq(Fds)
    BY <2>1, ThereAll
  <2>3. Boxes(Taken("gate")) /\ Fewer(mbox, Taken("gate"), f)
    BY <1>0, <2>1, TakenBoxes, TakenFewer
  <2>4. Fewer(Taken("gate"), mbox', f)
    BY <2>1, <2>2, <2>3, GoneFewer
  <2> QED BY <1>0, <1>3, <2>3, <2>4, FewerTwice, OnceQuiet
<1>6. CASE Send
  <2>1. mbox["gate"] # <<>> /\ mbox' = Taken("gate")
    BY <1>6 DEF Send, Heads
  <2> QED BY <1>0, <1>3, <2>1, TakenFewer, OnceQuiet
<1> QED BY <1>4, <1>5, <1>6

LEMMA StillFewer ==
  ASSUME NEW f, NEW b
  PROVE  Fewer(b, b, f)
BY DEF Fewer

\* The gate hands the phones' messages on, and meets new ones.
LEMMA OnceReceived ==
  ASSUME QueueInv, StreamInv, NEW f \in Fds, Once(f), UNCHANGED <<readyFd, lobbyVars>>,
         NEW g \in Fds,
         OnReceiveConnect(g) \/ OnReceive(g) \/ RecvHandshake(g) \/ RecvInput(g)
  PROVE  Once(f)'
<1>0. /\ "queue" \in Services /\ "lobby" \in Services /\ MailInv /\ Boxes(mbox) /\ Once(f)
      /\ Msg("queue") = QueueMsg /\ Msg("lobby") = LobbyMsg
      /\ up \in [Fds -> Seq({"handshake", "input"})]
  BY DEF Services, Msg, QueueInv, MailInv, StreamInv
<1>1. UNCHANGED <<connects, phone, readyFd, rooms>>
  BY DEF OnReceiveConnect, OnReceive, RecvHandshake, RecvInput, phoneVars, lobbyVars
<1>2. \/ up'[f] = up[f] \/ up'[f] = <<>>
      \/ up[f] # <<>> /\ up'[f] = Tail(up[f])
  BY <1>0 DEF OnReceiveConnect, NewAgent, OnReceive, RecvHandshake, RecvInput
<1>3. Elsewhere(f)
  BY <1>0, <1>1, <1>2, StayElsewhere
<1>4. <<g, g>> \in Pairs
  BY DEF Pairs
<1>5. CASE OnReceiveConnect(g) \/ OnReceive(g)
  <2>1. mbox' = mbox
    BY <1>5 DEF OnReceiveConnect, OnReceive
  <2> QED BY <1>0, <1>3, <2>1, StillFewer, OnceQuiet
<1>6. CASE RecvInput(g)
  <2> DEFINE x == Event("OnReceive", g)
  <2>1. mbox' = SentTo(mbox, "lobby", <<x>>)
    BY <1>6 DEF RecvInput
  <2>2. x \in LobbyMsg
    BY <1>4, Sorts
  <2>3. ~Bears(x, f) /\ ~Twofold(x, f)
    <3>1. "OnReceive" \notin Handing
      BY DEF Handing
    <3> QED BY <3>1, Bearings
  <2> HIDE DEF x
  <2>4. Fewer(mbox, mbox', f)
    BY <1>0, <2>1, <2>2, <2>3, OneFewer
  <2> QED BY <1>0, <1>3, <2>4, OnceQuiet
<1>7. CASE RecvHandshake(g)
  <2> DEFINE x == Event("OnHandshake", g)
  <2>1. /\ mbox' = SentTo(mbox, "queue", <<x>>) /\ up[g] # <<>> /\ Head(up[g]) = "handshake"
        /\ up' = [up EXCEPT ![g] = Tail(@)]
    BY <1>7 DEF RecvHandshake
  <2>2. x \in QueueMsg
    BY <1>4, Sorts
  <2>3. (Bears(x, f) => f = g) /\ ~Twofold(x, f)
    <3>1. "OnHandshake" \notin Handing
      BY DEF Handing
    <3> QED BY <3>1, Bearings
  <2> HIDE DEF x
  <2>4. CASE f # g
    <3>1. Fewer(mbox, mbox', f)
      BY <1>0, <2>1, <2>2, <2>3, <2>4, OneFewer
    <3> QED BY <1>0, <1>3, <3>1, OnceQuiet
  <2>5. CASE f = g
    <3> DEFINE u == up[f]
               v == up'[f]
               ms == <<x>>
    <3>1. /\ u \in Seq({"handshake", "input"}) /\ u # <<>> /\ v = Tail(u) /\ u[1] = "handshake"
          /\ ShakesOnce(u)
      BY <1>0, <2>1, <2>5 DEF Once
    <3> HIDE DEF u, v
    <3>2. /\ 1 \in 1..Len(u)
          /\ \A i \in 1..Len(v) : i + 1 \in 1..Len(u) /\ v[i] = u[i + 1] /\ i + 1 # 1
      BY <3>1
    <3>3. Shakes(u) /\ ~Shakes(v)
      BY <3>1, <3>2 DEF Shakes, ShakesOnce
    <3>4. Spot("up", f) /\ ~Spot("up", f)'
      BY <3>3, SpotIs, SpotNext DEF u, v
    <3>5. "up" \in Spots /\ "queue" \in Spots /\ "up" # "queue"
      BY DEF Spots, Services
    <3>6. ~Holds(mbox["queue"], f)
      BY <1>0, <3>4, <3>5, SpotIs DEF Once, InOneSpot
    <3>7. ms \in Seq(Msg("queue")) /\ mbox' = SentTo(mbox, "queue", ms)
      BY <1>0, <2>1, <2>2
    <3> HIDE DEF ms
    <3>8. /\ mbox'["queue"] = mbox["queue"] \o ms
          /\ \A s \in Services \ {"queue"} : mbox'[s] = mbox[s]
          /\ mbox["queue"] \in Seq(Msg("queue"))
      <4>1. mbox["queue"] \in Seq(Msg("queue"))
        BY <1>0 DEF Boxes
      <4> QED BY <1>0, <3>7, <4>1, SentBoxes
    <3>9. Alone(mbox'["queue"], f)
      BY <1>0, <2>2, <2>3, <3>6, <3>8, MoreHolds DEF Once, ms
    <3>10. \A s \in Services : Alone(mbox'[s], f)
      BY <1>0, <3>8, <3>9 DEF Once
    <3>11. PlaysOnce(rooms', f) /\ ShakesOnce(up'[f]) /\ (Plays(rooms', f) => Plays(rooms, f))
      BY <1>0, <1>3, SamePlays DEF Elsewhere, Once
    <3>12. \A p \in Spots \ {"queue"} : Spot(p, f)' => Spot(p, f) /\ p # "up"
      <4>1. \A s \in Services \ {"queue"} : Spot(s, f)' => Spot(s, f)
        BY <3>8, SpotIs, SpotNext
      <4>2. \A p \in {"phone", "ready", "room"} : Spot(p, f)' => Spot(p, f)
        BY <1>3, <3>11, SpotIs, SpotNext DEF Elsewhere
      <4> QED BY <3>4, <4>1, <4>2 DEF Spots
    <3> QED BY <1>0, <3>4, <3>5, <3>10, <3>11, <3>12, OnceStep
  <2> QED BY <2>4, <2>5
<1> QED BY <1>5, <1>6, <1>7

\* The phones: each looks for an opponent once, and shakes hands once.
LEMMA OncePhoneStep ==
  ASSUME QueueInv, StreamInv, NEW f \in Fds, Once(f), UsedOnce(f)', PhoneStep,
         UNCHANGED <<readyFd, lobbyVars>>
  PROVE  Once(f)'
<1>0. /\ Once(f) /\ SameFds(rooms, rooms') /\ readyFd' = readyFd
      /\ up \in [Fds -> Seq({"handshake", "input"})]
      /\ phone \in [Fds -> {"off", "connecting", "waiting", "playing"}]
      /\ connects \in [Fds -> Nat] /\ connects'[f] <= 1
      /\ \A g \in Fds : phone[g] # "off" => connects[g] > 0
  BY GateAssumption DEF UsedOnce, SameFds, lobbyVars, StreamInv, QueueInv, CountInv
<1>1. mbox' = mbox
  BY DEF PhoneStep, Connect, OnConnect, OnStart, SendInput, Leave
<1>2. Fewer(mbox, mbox', f)
  BY <1>1, StillFewer
<1>3. ASSUME Spot("phone", f)' => Spot("phone", f), up'[f] = up[f]
      PROVE  Once(f)'
  BY <1>0, <1>2, <1>3, OnceQuiet DEF Elsewhere, Once
<1>4. ASSUME NEW g \in Fds, Connect(g)
      PROVE  Once(f)'
  <2>1. /\ connects' = [connects EXCEPT ![g] = @ + 1]
        /\ phone' = [phone EXCEPT ![g] = "connecting"] /\ up' = up
    BY <1>4 DEF Connect, gateVars
  <2>2. Spot("phone", f)' => Spot("phone", f)
    BY <1>0, <2>1, SpotIs, SpotNext
  <2> QED BY <1>3, <2>1, <2>2
<1>5. ASSUME NEW g \in Fds, OnStart(g) \/ Leave(g)
      PROVE  Once(f)'
  <2>1. /\ connects' = connects /\ up' = up
        /\ \E c \in {"playing", "off"} : phone' = [phone EXCEPT ![g] = c]
    BY <1>5 DEF OnStart, Leave, gateVars
  <2>2. Spot("phone", f)' => Spot("phone", f)
    BY <1>0, <2>1, SpotIs, SpotNext
  <2> QED BY <1>3, <2>1, <2>2
<1>6. ASSUME NEW g \in Fds, SendInput(g)
      PROVE  Once(f)'
  <2>1. connects' = connects /\ phone' = phone /\ up' = [up EXCEPT ![g] = Append(@, "input")]
    BY <1>6 DEF SendInput
  <2>2. Spot("phone", f)' => Spot("phone", f)
    BY <2>1, SpotIs, SpotNext
  <2>3. CASE f = g
    <3> DEFINE u == up[f]
               v == up'[f]
    <3>1. u \in Seq({"handshake", "input"}) /\ v = Append(u, "input") /\ ShakesOnce(u)
      BY <1>0, <2>1, <2>3 DEF Once
    <3> HIDE DEF u, v
    <3>2. \A i \in 1..Len(v) : v[i] = "handshake" => i \in 1..Len(u) /\ u[i] = v[i]
      BY <3>1
    <3>3. (Shakes(v) => Shakes(u)) /\ ShakesOnce(v)
      BY <3>1, <3>2 DEF Shakes, ShakesOnce
    <3> QED BY <1>0, <1>2, <2>2, <3>3, OnceQuiet DEF Elsewhere, u, v
  <2>4. CASE f # g
    BY <1>0, <1>3, <2>1, <2>2, <2>4
  <2> QED BY <2>3, <2>4
<1>7. ASSUME NEW g \in Fds, OnConnect(g)
      PROVE  Once(f)'
  <2>1. /\ phone[g] = "connecting" /\ connects' = connects
        /\ \E c \in {"waiting", "off"} : phone' = [phone EXCEPT ![g] = c]
        /\ up' = up \/ up' = [up EXCEPT ![g] = Append(@, "handshake")]
    BY <1>0, <1>7 DEF OnConnect
  <2>2. f # g => (Spot("phone", f)' => Spot("phone", f)) /\ up'[f] = up[f]
    BY <1>0, <2>1, SpotIs, SpotNext
  <2>3. f = g => Spot("phone", f) /\ ~Spot("phone", f)'
    <3>1. f = g => phone[f] = "connecting" /\ phone'[f] # "connecting"
      BY <1>0, <2>1
    <3>2. f = g => connects[f] \in Nat /\ connects[f] > 0
      BY <1>0, <2>1
    <3>3. f = g => connects'[f] # 0
      BY <2>1, <3>2
    <3>4. Spot("phone", f) <=> connects[f] = 0 \/ phone[f] = "connecting"
      BY SpotIs
    <3>5. Spot("phone", f)' <=> connects'[f] = 0 \/ phone'[f] = "connecting"
      BY SpotNext
    <3> QED BY <3>1, <3>3, <3>4, <3>5
  <2>4. CASE f = g /\ up'[f] # up[f]
    <3> DEFINE u == up[f]
               v == up'[f]
    <3>1. u \in Seq({"handshake", "input"}) /\ v = Append(u, "handshake")
      BY <1>0, <2>1, <2>4
    <3>2. "phone" \in Spots /\ "up" \in Spots
      BY DEF Spots
    <3>3. ~Shakes(u)
      BY <1>0, <2>3, <2>4, <3>2, SpotIs DEF Once, InOneSpot
    <3> HIDE DEF u, v
    <3>4. \A i \in 1..Len(v) : v[i] = "handshake" => i = Len(u) + 1
      <4>1. \A i \in 1..Len(v) : i # Len(u) + 1 => i \in 1..Len(u) /\ u[i] = v[i]
        BY <3>1
      <4> QED BY <3>3, <4>1 DEF Shakes
    <3>5. ShakesOnce(up'[f])
      BY <3>4 DEF ShakesOnce, v
    <3>6. PlaysOnce(rooms', f) /\ (Plays(rooms', f) => Plays(rooms, f))
      BY <1>0, SamePlays DEF Once
    <3>7. \A p \in Spots \ {"up"} : Spot(p, f)' => Spot(p, f) /\ p # "phone"
      <4>1. \A s \in Services : Spot(s, f)' => Spot(s, f) /\ s # "phone"
        BY <1>1, SpotIs, SpotNext DEF Services
      <4>2. \A p \in {"ready", "room"} : Spot(p, f)' => Spot(p, f) /\ p # "phone"
        BY <1>0, <3>6, SpotIs, SpotNext
      <4> QED BY <2>3, <2>4, <4>1, <4>2 DEF Spots
    <3>8. \A s \in Services : Alone(mbox'[s], f)
      BY <1>0, <1>1 DEF Once
    <3> QED BY <1>0, <2>3, <2>4, <3>2, <3>5, <3>6, <3>7, <3>8, OnceStep
  <2> QED BY <1>3, <2>2, <2>3, <2>4
<1> QED BY <1>4, <1>5, <1>6, <1>7 DEF PhoneStep

-----------------------------------------------------------------------------
\* The queue asks about a phone, keeps it, or hands it on with another one.
LEMMA OnceQueueStep ==
  ASSUME QueueInv, NEW f \in Fds, Once(f), QueueStep,
         UNCHANGED <<gateVars, phoneVars, lobbyVars>>
  PROVE  Once(f)'
<1> DEFINE h == Head(mbox["queue"])
<1>0. /\ "queue" \in Services /\ "gate" \in Services \ {"queue"}
      /\ "lobby" \in Services \ {"queue"} /\ "lobby" \in Services
      /\ Msg("gate") = GateMsg /\ Msg("lobby") = LobbyMsg /\ Msg("queue") = QueueMsg
      /\ MailInv /\ Boxes(mbox) /\ Once(f) /\ readyFd \in Fds \cup {NoFd}
      /\ {"queue", "lobby", "ready"} \subseteq Spots /\ "ready" \notin Services
      /\ \A s \in Services : s \in Spots
  BY DEF Services, Msg, QueueInv, MailInv, WaitInv, Spots
<1>1. mbox["queue"] # <<>>
  BY DEF QueueStep, QueueOnHandshake, QueueChecked, QueueOnDisconnect, Heads
<1>2. /\ UNCHANGED <<connects, phone, up>> /\ SameFds(rooms, rooms')
      /\ Spot("phone", f)' => Spot("phone", f)
  <2>1. UNCHANGED <<connects, phone, up>> /\ SameFds(rooms, rooms')
    BY DEF gateVars, phoneVars, lobbyVars, SameFds
  <2> QED BY <2>1, SpotIs, SpotNext
<1>3. ASSUME readyFd' = f => readyFd = f
      PROVE  Elsewhere(f)
  BY <1>0, <1>2, <1>3 DEF Elsewhere, Once
<1>4. /\ Boxes(Taken("queue")) /\ Fewer(mbox, Taken("queue"), f)
      /\ Taken("queue")["queue"] = Tail(mbox["queue"])
      /\ \A s \in Services \ {"queue"} : Taken("queue")[s] = mbox[s]
  BY <1>0, <1>1, TakenBoxes, TakenFewer
<1>5. /\ mbox["queue"] \in Seq(Msg("queue")) /\ Alone(mbox["queue"], f)
      /\ h \in QueueMsg
  BY <1>0, <1>1, TakenBoxes DEF Boxes, Once
<1>6. /\ Holds(Tail(mbox["queue"]), f) => ~Bears(h, f)
      /\ Alone(Tail(mbox["queue"]), f)
      /\ Bears(h, f) => Holds(mbox["queue"], f)
  BY <1>1, <1>5, TailHolds
<1>7. CASE QueueOnHandshake
  <2> DEFINE x == Request("CheckAgent.queue", <<h.fd>>)
  <2>1. /\ h.cmd = "OnHandshake" /\ readyFd' = readyFd
        /\ mbox' = SentTo(Taken("queue"), "gate", <<x>>)
    BY <1>7 DEF QueueOnHandshake, Heads
  <2>2. h.fd \in Fds /\ <<h.fd, h.fd>> \in Pairs
    BY <1>0, <1>1, <2>1, QueueHead DEF Pairs
  <2>3. x \in GateMsg
    BY <2>2, Sorts
  <2>4. (Bears(x, f) => Bears(h, f)) /\ ~Twofold(x, f)
    <3>1. Bears(x, f) <=> Names(<<h.fd>>, f)
      BY Bearings DEF Handing
    <3>2. ~Twofold(x, f)
      <4>1. <<h.fd>> # <<f, f>>
        BY SingleNames
      <4> HIDE DEF h
      <4> QED BY <4>1, Bearings
    <3>3. Names(<<h.fd>>, f) => f = h.fd
      BY SingleNames
    <3> QED BY <2>1, <3>1, <3>2, <3>3 DEF Bears
  <2> HIDE DEF x
  <2> QED BY <1>0, <1>1, <1>3, <2>1, <2>3, <2>4, OncePassed
<1>8. CASE QueueOnDisconnect
  <2>1. mbox' = Taken("queue") /\ (readyFd' = readyFd \/ readyFd' = NoFd)
    BY <1>8 DEF QueueOnDisconnect
  <2>2. Elsewhere(f)
    BY <1>3, <2>1, FdsAssumption
  <2> QED BY <1>0, <1>4, <2>1, <2>2, OnceQuiet
<1>9. CASE QueueChecked
  <2>1. h.cmd = "checked"
    BY <1>9 DEF QueueChecked, Heads
  <2>2. \E k \in Fds : h.fds = <<k>>
    BY <1>5, <2>1 DEF QueueMsg, Single
  <2>3. PICK k \in Fds : h.fds = <<k>>
    BY <2>2
  <2>4. h.fds[1] = k /\ (Bears(h, f) <=> f = k)
    <3>1. h.cmd \in Handing
      BY <2>1 DEF Handing
    <3>2. (Bears(h, f) <=> Names(h.fds, f)) /\ (Names(<<k>>, f) <=> f = k)
      BY <3>1, Heading, SingleNames
    <3> HIDE DEF h
    <3> QED BY <2>3, <3>2
  <2>5. CASE ~h.ok
    <3>1. mbox' = Taken("queue") /\ readyFd' = readyFd
      BY <1>9, <2>5 DEF QueueChecked
    <3> QED BY <1>0, <1>3, <1>4, <3>1, OnceQuiet
  <2>6. CASE h.ok /\ readyFd = NoFd
    <3>1. mbox' = Taken("queue") /\ readyFd' = k
      BY <1>9, <2>4, <2>6 DEF QueueChecked
    <3>2. CASE f # k
      BY <1>0, <1>3, <1>4, <3>1, <3>2, OnceQuiet
    <3>3. CASE f = k
      <4>1. Spot("queue", f) /\ ~Spot("queue", f)'
        BY <1>0, <1>4, <1>6, <2>4, <3>1, <3>3, SpotIs, SpotNext
      <4>2. \A s \in Services : Alone(mbox'[s], f)
        BY <1>4, <1>6, <3>1, <1>0 DEF Once
      <4>3. PlaysOnce(rooms', f) /\ ShakesOnce(up'[f]) /\ (Plays(rooms', f) => Plays(rooms, f))
        BY <1>0, <1>2, SamePlays DEF Once
      <4>4. \A p \in Spots \ {"ready"} : Spot(p, f)' => Spot(p, f) /\ p # "queue"
        <5>1. \A s \in Services \ {"queue"} : Spot(s, f)' => Spot(s, f)
          BY <1>4, <3>1, SpotIs, SpotNext
        <5>2. \A p \in {"phone", "up", "room"} : Spot(p, f)' => Spot(p, f)
          BY <1>2, <4>3, SpotIs, SpotNext
        <5> QED BY <4>1, <5>1, <5>2 DEF Spots
      <4> QED BY <1>0, <4>1, <4>2, <4>3, <4>4, OnceStep
    <3> QED BY <3>2, <3>3
  <2>7. CASE h.ok /\ readyFd # NoFd
    <3> DEFINE fs == <<readyFd, k>>
               x  == Request("NewRoom", fs)
    <3>1. mbox' = SentTo(Taken("queue"), "lobby", <<x>>) /\ readyFd' = NoFd
      BY <1>9, <2>4, <2>7 DEF QueueChecked
    <3>2. readyFd \in Fds
      BY <1>0, <2>7
    <3>3. ~(f = k /\ f = readyFd)
      <4> SUFFICES ASSUME f = k, f = readyFd
                   PROVE  FALSE
        OBVIOUS
      <4>1. Spot("ready", f) /\ Spot("queue", f)
        BY <1>0, <1>6, <2>4, SpotIs
      <4> QED BY <1>0, <4>1 DEF Once, InOneSpot
    <3>4. x \in LobbyMsg
      <4>1. fs \in Pairs
        BY <3>2 DEF Pairs
      <4> HIDE DEF fs
      <4> QED BY <3>2, <4>1, Sorts
    <3>5. (Bears(x, f) <=> f = readyFd \/ f = k) /\ ~Twofold(x, f)
      <4>1. (Bears(x, f) <=> Names(fs, f)) /\ (Twofold(x, f) <=> fs = <<f, f>>)
        BY Bearings DEF Handing
      <4>2. Names(fs, f) <=> f = readyFd \/ f = k
        <5>1. DOMAIN fs = 1..2 /\ fs[1] = readyFd /\ fs[2] = k
          OBVIOUS
        <5> HIDE DEF fs
        <5> QED BY <5>1 DEF Names
      <4>3. fs # <<f, f>>
        BY <3>3
      <4> QED BY <4>1, <4>2, <4>3
    <3>6. CASE f = k
      <4>1. readyFd # f /\ readyFd' # f
        BY <3>1, <3>3, <3>6, FdsAssumption
      <4>2. Elsewhere(f)
        BY <1>3, <4>1
      <4> HIDE DEF x
      <4> QED BY <1>0, <1>1, <2>4, <3>1, <3>4, <3>5, <3>6, <4>2, OncePassed
    <3>7. CASE f # k /\ f # readyFd
      <4>1. Elsewhere(f)
        BY <1>3, <3>1, <3>7, FdsAssumption
      <4> HIDE DEF x
      <4> QED BY <1>0, <1>1, <3>1, <3>4, <3>5, <3>7, <4>1, OncePassed
    <3>8. CASE f = readyFd
      <4> DEFINE ms == <<x>>
      <4>1. ms \in Seq(Msg("lobby")) /\ mbox' = SentTo(Taken("queue"), "lobby", ms)
        BY <1>0, <3>1, <3>4
      <4>2. Spot("ready", f) /\ ~Spot("ready", f)'
        BY <3>1, <3>8, FdsAssumption, SpotIs, SpotNext
      <4>3. ~Holds(mbox["lobby"], f) /\ ~Bears(h, f)
        <5>1. ~Spot("lobby", f)
          BY <1>0, <4>2 DEF Once, InOneSpot
        <5> QED BY <1>0, <2>4, <3>3, <3>8, <5>1, SpotIs
      <4> HIDE DEF ms, x, fs
      <4>4. /\ mbox'["lobby"] = mbox["lobby"] \o ms
            /\ mbox'["queue"] = Tail(mbox["queue"])
            /\ mbox["lobby"] \in Seq(Msg("lobby")) /\ mbox'["gate"] = mbox["gate"]
        <5>1. mbox["lobby"] \in Seq(Msg("lobby"))
          BY <1>0 DEF Boxes
        <5> DEFINE b == Taken("queue")
        <5>2. /\ Boxes(b) /\ b["lobby"] = mbox["lobby"] /\ b["queue"] = Tail(mbox["queue"])
              /\ b["gate"] = mbox["gate"] /\ mbox' = SentTo(b, "lobby", ms)
          BY <1>0, <1>4, <4>1
        <5> HIDE DEF b
        <5>3. /\ mbox'["lobby"] = b["lobby"] \o ms
              /\ \A u \in Services \ {"lobby"} : mbox'[u] = b[u]
          <6>1. /\ SentTo(b, "lobby", ms)["lobby"] = b["lobby"] \o ms
                /\ \A u \in Services \ {"lobby"} : SentTo(b, "lobby", ms)[u] = b[u]
            BY <1>0, <4>1, <5>2, SentBoxes
          <6> QED BY <5>2, <6>1
        <5>4. "queue" \in Services \ {"lobby"} /\ "gate" \in Services \ {"lobby"}
          BY DEF Services
        <5> QED BY <5>1, <5>2, <5>3, <5>4
      <4>5. Alone(mbox'["lobby"], f)
        BY <1>0, <3>4, <3>5, <4>3, <4>4, MoreHolds DEF Once, ms
      <4>6. \A s \in Services : Alone(mbox'[s], f)
        BY <1>0, <1>6, <4>4, <4>5 DEF Once, Services
      <4>7. PlaysOnce(rooms', f) /\ ShakesOnce(up'[f]) /\ (Plays(rooms', f) => Plays(rooms, f))
        BY <1>0, <1>2, SamePlays DEF Once
      <4>8. \A p \in Spots \ {"lobby"} : Spot(p, f)' => Spot(p, f) /\ p # "ready"
        <5>1. Holds(mbox'["queue"], f) => Holds(mbox["queue"], f)
          BY <1>1, <1>5, <4>4, TailHolds
        <5>2. \A s \in Services \ {"lobby"} : Spot(s, f)' => Spot(s, f)
          BY <4>4, <5>1, SpotIs, SpotNext DEF Services
        <5>3. \A p \in {"phone", "up", "room"} : Spot(p, f)' => Spot(p, f)
          BY <1>2, <4>7, SpotIs, SpotNext
        <5> QED BY <1>0, <4>2, <5>2, <5>3 DEF Spots
      <4> QED BY <1>0, <4>2, <4>6, <4>7, <4>8, OnceStep
    <3> QED BY <3>6, <3>7, <3>8
  <2> QED BY <2>5, <2>6, <2>7
<1> QED BY <1>7, <1>8, <1>9 DEF QueueStep

\* A room comes in.
LEMMA MorePlays ==
  ASSUME NEW f, NEW rms \in Seq(Room), NEW room \in Room
  PROVE  LET rms2 == Append(rms, room)
         IN  /\ Plays(rms2, f) => Plays(rms, f) \/ Names(room.fds, f)
             /\ PlaysOnce(rms, f) /\ room.fds # <<f, f>>
                /\ ~(Plays(rms, f) /\ Names(room.fds, f)) => PlaysOnce(rms2, f)
<1> DEFINE rms2 == Append(rms, room)
           n    == Len(rms) + 1
<1>1. /\ Len(rms) \in Nat /\ Len(rms2) = n /\ rms2[n] = room
      /\ \A i \in 1..Len(rms) : rms2[i] = rms[i]
  OBVIOUS
<1> HIDE DEF rms2
<1>2. \A i \in 1..Len(rms2) : i = n \/ (i \in 1..Len(rms) /\ rms2[i] = rms[i])
  BY <1>1
<1> HIDE DEF n
<1>3. Plays(rms2, f) => Plays(rms, f) \/ Names(room.fds, f)
  BY <1>1, <1>2 DEF Plays
<1>4. ASSUME PlaysOnce(rms, f), room.fds # <<f, f>>, ~(Plays(rms, f) /\ Names(room.fds, f))
      PROVE  PlaysOnce(rms2, f)
  <2>1. \A r \in 1..Len(rms2) : rms2[r].fds # <<f, f>>
    BY <1>1, <1>2, <1>4 DEF PlaysOnce
  <2>2. \A r, q \in 1..Len(rms2) : Names(rms2[r].fds, f) /\ Names(rms2[q].fds, f) => r = q
    BY <1>1, <1>2, <1>4 DEF PlaysOnce, Plays
  <2> QED BY <2>1, <2>2 DEF PlaysOnce
<1> QED BY <1>3, <1>4 DEF rms2

\* What a room is told does not change whose it is.
LEMMA ToldSame ==
  ASSUME rooms \in Seq(Room), NEW r, NEW c
  PROVE  SameFds(rooms, Told(r, c))
<1> DEFINE rms == Told(r, c)
<1>1. /\ DOMAIN rooms = 1..Len(rooms) /\ Len(rooms) \in Nat
      /\ \A i \in 1..Len(rooms) : rooms[i] \in Room
  OBVIOUS
<1>2. DOMAIN rms = 1..Len(rooms) /\ Len(rms) = Len(rooms)
  BY <1>1 DEF Told
<1>3. \A i \in 1..Len(rooms) : rms[i].fds = rooms[i].fds
  BY <1>1 DEF Told, Room
<1> QED BY <1>2, <1>3 DEF SameFds

\* The lobby starts a room of the two phones it was handed.
LEMMA OnceRoom ==
  ASSUME QueueInv, NEW f \in Fds, Once(f), NewRoomGotValue,
         UNCHANGED <<gateVars, phoneVars, readyFd>>
  PROVE  Once(f)'
<1> DEFINE m   == Head(mbox["lobby"])
           new == [fds |-> m.fds, state |-> "launching", inbox |-> <<>>]
<1>0. /\ "lobby" \in Services /\ "lobby" \in Spots /\ "room" \in Spots /\ "phone" \in Spots
      /\ "lobby" # "room"
      /\ MailInv /\ Boxes(mbox) /\ Once(f) /\ rooms \in Seq(Room)
  BY DEF Services, Spots, QueueInv, MailInv
<1>1. /\ mbox["lobby"] # <<>> /\ m.cmd = "gotValue" /\ mbox' = Taken("lobby")
      /\ rooms' = Append(rooms, new)
  BY DEF NewRoomGotValue, Heads
<1>2. m.fds \in Pairs
  BY <1>0, <1>1, LobbyHead
<1>3. /\ Bears(m, f) <=> Names(m.fds, f)
      /\ m.fds # <<f, f>>
  <2>1. mbox["lobby"] \in Seq(Msg("lobby"))
    BY <1>0 DEF Boxes
  <2>2. ~Twofold(m, f)
    BY <1>0, <1>1, <2>1, TailHolds DEF Once
  <2>3. m.cmd \in Handing
    BY <1>1 DEF Handing
  <2> HIDE DEF m
  <2> QED BY <2>2, <2>3, Heading
<1>4. /\ Fewer(mbox, mbox', f)
      /\ Bears(m, f) => Holds(mbox["lobby"], f) /\ ~Holds(mbox'["lobby"], f)
  <2>1. mbox["lobby"] \in Seq(Msg("lobby")) /\ mbox'["lobby"] = Tail(mbox["lobby"])
    BY <1>0, <1>1, TakenBoxes DEF Boxes
  <2> QED BY <1>0, <1>1, <2>1, TakenFewer, TailHolds DEF Once
<1>5. new \in Room /\ new.fds = m.fds
  <2> HIDE DEF m
  <2> QED BY <1>2 DEF Room
<1> HIDE DEF new, m
<1>6. Bears(m, f) => Spot("lobby", f) /\ ~Spot("lobby", f)' /\ ~Plays(rooms, f)
  BY <1>0, <1>4, SpotIs, SpotNext DEF Once, InOneSpot
<1>7. /\ Plays(rooms', f) => Plays(rooms, f) \/ Bears(m, f)
      /\ PlaysOnce(rooms', f)
  BY <1>0, <1>1, <1>3, <1>5, <1>6, MorePlays DEF Once
<1>8. UNCHANGED <<connects, phone, up, readyFd>>
  BY DEF gateVars, phoneVars
<1>9. \A s \in Services : Alone(mbox'[s], f) /\ (Spot(s, f)' => Spot(s, f))
  BY <1>0, <1>4, SpotIs, SpotNext DEF Once, Fewer
<1>10. \A p \in Spots \ {"room"} : Spot(p, f)' => Spot(p, f)
  <2>1. \A p \in {"phone", "up", "ready"} : Spot(p, f)' => Spot(p, f)
    BY <1>8, SpotIs, SpotNext
  <2> QED BY <1>9, <2>1 DEF Spots
<1>11. ShakesOnce(up'[f])
  BY <1>0, <1>8 DEF Once
<1>12. CASE Bears(m, f)
  BY <1>0, <1>6, <1>7, <1>9, <1>10, <1>11, <1>12, OnceStep
<1>13. CASE ~Bears(m, f)
  <2>1. \A p \in Spots : Spot(p, f)' => Spot(p, f)
    BY <1>7, <1>10, <1>13, SpotIs, SpotNext
  <2> QED BY <1>0, <1>7, <1>9, <1>11, <2>1, OnceStep
<1> QED BY <1>12, <1>13

LEMMA OnceLobbyStep ==
  ASSUME QueueInv, RoomInv, NEW f \in Fds, Once(f), LobbyStep,
         UNCHANGED <<gateVars, phoneVars, readyFd>>
  PROVE  Once(f)'
<1>1. CASE NewRoomGotValue
  BY <1>1, OnceRoom
<1> DEFINE m == Head(mbox["lobby"])
<1>0. /\ "lobby" \in Services /\ "gate" \in Services \ {"lobby"}
      /\ "gate" \in Services
      /\ Msg("gate") = GateMsg /\ Msg("lobby") = LobbyMsg
      /\ MailInv /\ Boxes(mbox) /\ Once(f) /\ rooms \in Seq(Room)
  BY DEF Services, Msg, QueueInv, MailInv
<1>2. ASSUME SameFds(rooms, rooms')
      PROVE  Elsewhere(f)
  <2>1. UNCHANGED <<connects, phone, up, readyFd>>
    BY DEF gateVars, phoneVars
  <2> QED BY <1>0, <1>2, <2>1, SpotIs, SpotNext DEF Elsewhere, Once
<1>3. SameFds(rooms, rooms)
  BY DEF SameFds
<1>4. ASSUME mbox["lobby"] # <<>>, SameFds(rooms, rooms'), mbox' = Taken("lobby")
      PROVE  Once(f)'
  BY <1>0, <1>2, <1>4, TakenFewer, OnceQuiet
<1>5. ASSUME mbox["lobby"] # <<>>, SameFds(rooms, rooms'), m.fds \in Pairs,
             NEW c \in {"CheckAgent.lobby", "GetAgentValue"}, m.cmd \in Handing,
             mbox' = SentTo(Taken("lobby"), "gate", <<Request(c, m.fds)>>)
      PROVE  Once(f)'
  <2> DEFINE x == Request(c, m.fds)
  <2>1. x \in GateMsg
    <3>1. PICK g \in Fds : TRUE
      BY <1>5 DEF Pairs
    <3> HIDE DEF m
    <3> QED BY <1>5, <3>1, Sorts
  <2>2. (Bears(x, f) <=> Bears(m, f)) /\ (Twofold(x, f) <=> Twofold(m, f))
    <3>1. c \in Handing /\ c # "OnHandshake"
      BY <1>5 DEF Handing
    <3> HIDE DEF m
    <3> QED BY <1>5, <3>1, Heading, Bearings
  <2>3. ~Twofold(m, f)
    <3>1. mbox["lobby"] \in Seq(Msg("lobby"))
      BY <1>0 DEF Boxes
    <3> QED BY <1>0, <1>5, <3>1, TailHolds DEF Once
  <2>4. mbox' = SentTo(Taken("lobby"), "gate", <<x>>)
    BY <1>5
  <2> HIDE DEF x
  <2> QED BY <1>0, <1>2, <1>5, <2>1, <2>2, <2>3, <2>4, OncePassed
<1>6. ASSUME mbox["lobby"] # <<>>, SameFds(rooms, rooms'), NEW pr \in Pairs,
             mbox' = SentTo(Taken("lobby"), "gate", <<Request("Kick", pr)>>)
      PROVE  Once(f)'
  <2> DEFINE x == Request("Kick", pr)
  <2>1. x \in GateMsg
    <3>1. PICK g \in Fds : TRUE
      BY <1>6 DEF Pairs
    <3> QED BY <1>6, <3>1, Sorts
  <2>2. ~Bears(x, f) /\ ~Twofold(x, f)
    <3>1. "Kick" \notin Handing
      BY DEF Handing
    <3> QED BY <3>1, Bearings
  <2>3. mbox' = SentTo(Taken("lobby"), "gate", <<x>>)
    BY <1>6
  <2> HIDE DEF x
  <2> QED BY <1>0, <1>2, <1>6, <2>1, <2>2, <2>3, OncePassed
<1>7. CASE NewRoom
  <2>1. /\ mbox["lobby"] # <<>> /\ m.cmd = "NewRoom" /\ rooms' = rooms
        /\ mbox' = SentTo(Taken("lobby"), "gate", <<Request("CheckAgent.lobby", m.fds)>>)
    BY <1>7 DEF NewRoom, Heads, lobbyVars
  <2>2. m.fds \in Pairs /\ m.cmd \in Handing
    BY <1>0, <2>1, LobbyHead DEF Handing
  <2> QED BY <1>3, <1>5, <2>1, <2>2
<1>8. CASE NewRoomChecked
  <2> DEFINE c == IF m.ok THEN "GetAgentValue" ELSE "Kick"
  <2>1. /\ mbox["lobby"] # <<>> /\ m.cmd = "checked" /\ rooms' = rooms
        /\ mbox' = SentTo(Taken("lobby"), "gate", <<Request(c, m.fds)>>)
    BY <1>8 DEF NewRoomChecked, Heads, lobbyVars
  <2>2. m.fds \in Pairs /\ m.cmd \in Handing
    BY <1>0, <2>1, LobbyHead DEF Handing
  <2>3. c = "GetAgentValue" \/ c = "Kick"
    OBVIOUS
  <2> HIDE DEF c, m
  <2> QED BY <1>3, <1>5, <1>6, <2>1, <2>2, <2>3
<1>9. CASE NewRoomLaunched \/ LobbyOnReceive
  <2>1. /\ mbox["lobby"] # <<>> /\ mbox' = Taken("lobby")
        /\ rooms' = rooms \/ \E r, c : rooms' = Told(r, c)
    BY <1>9 DEF NewRoomLaunched, LobbyOnReceive, Heads
  <2>2. SameFds(rooms, rooms')
    BY <1>0, <1>3, <2>1, ToldSame
  <2> QED BY <1>4, <2>1, <2>2
<1>10. CASE LobbyOnDisconnect
  <2>1. mbox["lobby"] # <<>> /\ m.fd \in Fds
    BY <1>0, <1>10, LobbyHead DEF LobbyOnDisconnect, Heads
  <2>2. CASE GetRoom(m.fd) = 0
    <3>1. mbox' = Taken("lobby") /\ rooms' = rooms
      BY <1>10, <2>2 DEF LobbyOnDisconnect, lobbyVars
    <3> QED BY <1>3, <1>4, <2>1, <3>1
  <2>3. CASE GetRoom(m.fd) # 0
    <3>1. /\ mbox' = SentTo(Taken("lobby"), "gate", <<Request("Kick", PairOf(m.fd))>>)
          /\ rooms' = Told(GetRoom(m.fd), "Exit")
      BY <1>10, <2>3 DEF LobbyOnDisconnect
    <3> HIDE DEF m
    <3>2. PairOf(m.fd) \in Pairs
      BY <1>0, <2>1, <2>3, RoomOpen
    <3>3. SameFds(rooms, rooms')
      BY <1>0, <3>1, ToldSame
    <3> QED BY <1>6, <2>1, <3>1, <3>2, <3>3
  <2> QED BY <2>2, <2>3
<1>11. ASSUME NEW r \in 1..Len(rooms), Launch(r)
       PROVE  Once(f)'
  <2> DEFINE x == Launched(rooms[r].fds, r)
  <2>1. /\ rooms' = [rooms EXCEPT ![r].state = "launched"]
        /\ mbox' = SentTo(mbox, "lobby", <<x>>)
    BY <1>11 DEF Launch
  <2>2. rooms[r] \in Room /\ r \in Nat /\ rooms[r].fds \in Pairs
    <3>1. rooms[r] \in Room /\ r \in Nat
      BY <1>0
    <3> QED BY <3>1 DEF Room
  <2>3. x \in LobbyMsg
    BY <2>2 DEF Launched, LobbyMsg
  <2>4. SameFds(rooms, rooms')
    BY <1>0, <2>1 DEF SameFds, Room
  <2>5. ~Bears(x, f) /\ ~Twofold(x, f)
    BY Bearings
  <2> HIDE DEF x
  <2>6. Fewer(mbox, mbox', f)
    BY <1>0, <2>1, <2>3, <2>5, OneFewer
  <2> QED BY <1>0, <1>2, <2>4, <2>6, OnceQuiet
<1>12. ASSUME NEW r \in 1..Len(rooms), RoomHandles(r)
       PROVE  Once(f)'
  <2> DEFINE x == Request("Send", rooms[r].fds)
  <2>1. /\ \E i, s : rooms' = [rooms EXCEPT ![r].inbox = i, ![r].state = s]
        /\ mbox' = mbox \/ mbox' = SentTo(mbox, "gate", <<x>>)
    BY <1>12 DEF RoomHandles
  <2>2. SameFds(rooms, rooms')
    <3>1. PICK i, s : rooms' = [rooms EXCEPT ![r].inbox = i, ![r].state = s]
      BY <2>1
    <3> QED BY <1>0, <3>1 DEF SameFds, Room
  <2>3. x \in GateMsg
    <3>1. rooms[r] \in Room
      BY <1>0
    <3>2. rooms[r].fds \in Pairs
      BY <3>1 DEF Room
    <3> QED BY <3>2 DEF Request, GateMsg
  <2>4. ~Bears(x, f) /\ ~Twofold(x, f)
    <3>1. "Send" \notin Handing
      BY DEF Handing
    <3> QED BY <3>1, Bearings
  <2> HIDE DEF x
  <2>5. Fewer(mbox, mbox', f)
    BY <1>0, <2>1, <2>3, <2>4, OneFewer, StillFewer
  <2> QED BY <1>0, <1>2, <2>2, <2>5, OnceQuiet
<1> QED BY <1>1, <1>7, <1>8, <1>9, <1>10, <1>11, <1>12 DEF LobbyStep

-----------------------------------------------------------------------------
LEMMA OnceInit == Init => OnceInv
<1> SUFFICES ASSUME Init, NEW f \in Fds
             PROVE  Once(f)
  BY DEF OnceInv
<1>1. /\ Len(up[f]) = 0 /\ Len(rooms) = 0 /\ readyFd # f /\ connects[f] = 0
      /\ \A s \in Services : Len(mbox[s]) = 0
  BY FdsAssumption DEF Init, SkynetInit, GateInit, QueueInit, LobbyInit
<1>2. \A p \in Spots : Spot(p, f) => p = "phone"
  <2>1. ~Shakes(up[f]) /\ ~Plays(rooms, f) /\ \A s \in Services : ~Holds(mbox[s], f)
    BY <1>1 DEF Shakes, Plays, Holds
  <2> QED BY <1>1, <2>1, SpotIs DEF Spots
<1>3. ShakesOnce(up[f]) /\ PlaysOnce(rooms, f) /\ \A s \in Services : Alone(mbox[s], f)
  BY <1>1 DEF ShakesOnce, PlaysOnce, Alone
<1> QED BY <1>2, <1>3 DEF Once, InOneSpot

LEMMA UsedBefore ==
  ASSUME QueueInv, [Next]_vars, NEW f \in Fds, UsedOnce(f)'
  PROVE  UsedOnce(f)
<1>1. connects \in [Fds -> Nat]
  BY GateAssumption DEF QueueInv, CountInv
<1>2. connects' = connects \/ \E g \in Fds : connects' = [connects EXCEPT ![g] = @ + 1]
  <2>1. CASE PhoneStep
    BY <2>1 DEF PhoneStep, Connect, OnConnect, OnStart, SendInput, Leave
  <2>2. CASE GateStep
    BY <2>2 DEF GateStep, GateCommand, CheckAgent, CheckAgentFor, GetAgentValue,
                KickCommand, Send, Heartbeat, OnReceiveConnect, OnReceive, RecvHandshake,
                RecvInput, phoneVars
  <2>3. CASE UNCHANGED phoneVars
    BY <2>3 DEF phoneVars
  <2> QED BY <2>1, <2>2, <2>3 DEF Next, vars
<1>3. connects[f] <= connects'[f]
  BY <1>1, <1>2
<1> QED BY <1>1, <1>2, <1>3 DEF UsedOnce

LEMMA OnceNext ==
  ASSUME QueueInv, RoomInv, StreamInv, OnceInv, [Next]_vars
  PROVE  OnceInv'
<1> SUFFICES ASSUME NEW f \in Fds, UsedOnce(f)'
             PROVE  Once(f)'
  BY DEF OnceInv
<1>1. Once(f)
  BY UsedBefore DEF OnceInv
<1>2. CASE UNCHANGED vars
  BY <1>1, <1>2 DEF Once, InOneSpot, Spot, vars, gateVars, phoneVars, lobbyVars
<1>3. CASE (GateStep \/ PhoneStep) /\ UNCHANGED <<readyFd, lobbyVars>>
  BY <1>1, <1>3, OnceAnswered, OnceDropped, OnceReceived, OncePhoneStep
  DEF GateStep, GateCommand
<1>4. CASE QueueStep /\ UNCHANGED <<gateVars, phoneVars, lobbyVars>>
  BY <1>1, <1>4, OnceQueueStep
<1>5. CASE LobbyStep /\ UNCHANGED <<gateVars, phoneVars, readyFd>>
  BY <1>1, <1>5, OnceLobbyStep
<1> QED BY <1>2, <1>3, <1>4, <1>5 DEF Next

-----------------------------------------------------------------------------
\* A room that the map may lead to: nobody has told it to exit.
Live(map, rms, r) ==
  \/ rms[r].state = "launching" \/ Fresh(rms[r])
  \/ map[rms[r].fds] = r

\* No second phone has used the fds of room r so far.
Unshared(rms, r) == UsedOnce(rms[r].fds[1]) /\ UsedOnce(rms[r].fds[2])

\* The lobby's maps of left and right fds agree with its rooms.
PairInv ==
  /\ \A f \in Fds : leftFdMap[f] # NoFd =>
       \E r \in 1..Len(rooms) : rooms[r].fds = <<f, leftFdMap[f]>>
  /\ \A r \in 1..Len(rooms) : Live(roomMap, rooms, r) /\ Unshared(rooms, r) =>
       /\ leftFdMap[rooms[r].fds[1]] = rooms[r].fds[2]
       /\ rightFdMap[rooms[r].fds[2]] = rooms[r].fds[1]

LEMMA PairKept ==
  ASSUME PairInv, UNCHANGED <<leftFdMap, rightFdMap, connects>>, SameFds(rooms, rooms'),
         \A r \in 1..Len(rooms) : Live(roomMap', rooms', r) => Live(roomMap, rooms, r)
  PROVE  PairInv'
BY DEF PairInv, SameFds, Unshared, UsedOnce

\* Whose a room is.
LEMMA PairNames ==
  ASSUME NEW pr \in Pairs
  PROVE  /\ pr[1] \in Fds /\ pr[2] \in Fds /\ pr = <<pr[1], pr[2]>>
         /\ \A f : Names(pr, f) <=> f = pr[1] \/ f = pr[2]
<1>1. PICK f, g \in Fds : pr = <<f, g>>
  BY DEF Pairs
<1>2. DOMAIN pr = 1..2 /\ pr[1] = f /\ pr[2] = g
  BY <1>1
<1>3. \A h : Names(pr, h) <=> h = f \/ h = g
  <2> HIDE <1>1
  <2> QED BY <1>2 DEF Names
<1> QED BY <1>1, <1>2, <1>3

-----------------------------------------------------------------------------
\* The room that is started is the first and the only one of its players.
LEMMA PairRoom ==
  ASSUME QueueInv, RoomInv, OnceInv, PairInv, NewRoomGotValue, UNCHANGED connects
  PROVE  PairInv'
<1> DEFINE m   == Head(mbox["lobby"])
           new == [fds |-> m.fds, state |-> "launching", inbox |-> <<>>]
           n   == Len(rooms) + 1
<1>0. /\ "lobby" \in Services /\ "lobby" \in Spots /\ "room" \in Spots /\ "lobby" # "room"
      /\ MailInv /\ Boxes(mbox) /\ rooms \in Seq(Room)
      /\ leftFdMap \in [Fds -> Fds \cup {NoFd}]
      /\ rightFdMap \in [Fds -> Fds \cup {NoFd}]
  BY DEF Services, Spots, QueueInv, MailInv
<1>1. /\ mbox["lobby"] # <<>> /\ m.cmd = "gotValue" /\ rooms' = Append(rooms, new)
      /\ leftFdMap' = [leftFdMap EXCEPT ![m.fds[1]] = m.fds[2]]
      /\ rightFdMap' = [rightFdMap EXCEPT ![m.fds[2]] = m.fds[1]]
      /\ roomMap' = roomMap
  BY DEF NewRoomGotValue, Heads
<1>2. m.fds \in Pairs
  BY <1>0, <1>1, LobbyHead
<1>3. ASSUME NEW f \in Fds, UsedOnce(f), Names(m.fds, f)
      PROVE  ~Plays(rooms, f)
  <2>1. Once(f) /\ Alone(mbox["lobby"], f) /\ mbox["lobby"] \in Seq(Msg("lobby"))
    BY <1>0, <1>3 DEF OnceInv, Once, Boxes
  <2>2. m.cmd \in Handing
    BY <1>1 DEF Handing
  <2> HIDE DEF m
  <2>3. Bears(m, f)
    BY <1>3, <2>2, Heading
  <2>4. Holds(mbox["lobby"], f)
    BY <1>1, <2>1, <2>3, TailHolds DEF m
  <2> QED BY <1>0, <2>1, <2>4, SpotIs DEF Once, InOneSpot
<1>4. new.fds = m.fds
  OBVIOUS
<1> HIDE DEF new, m
<1>5. /\ Len(rooms') = n /\ rooms'[n] = new /\ Len(rooms) \in Nat
      /\ \A r \in 1..Len(rooms) : rooms'[r] = rooms[r] /\ rooms[r] \in Room
  BY <1>0, <1>1
<1>6. /\ m.fds[1] \in Fds /\ m.fds[2] \in Fds /\ m.fds = <<m.fds[1], m.fds[2]>>
      /\ Names(m.fds, m.fds[1]) /\ Names(m.fds, m.fds[2])
  BY <1>2, PairNames
<1>7. \A r \in 1..Len(rooms) : \A f \in Fds :
        UsedOnce(f) /\ Names(m.fds, f) => ~Names(rooms[r].fds, f)
  BY <1>3 DEF Plays
<1>8. ASSUME NEW f \in Fds, leftFdMap'[f] # NoFd
      PROVE  \E r \in 1..Len(rooms') : rooms'[r].fds = <<f, leftFdMap'[f]>>
  <2>1. CASE f = m.fds[1]
    <3>1. rooms'[n].fds = <<f, leftFdMap'[f]>>
      BY <1>0, <1>1, <1>4, <1>5, <1>6, <2>1
    <3> QED BY <1>5, <3>1
  <2>2. CASE f # m.fds[1]
    <3>1. leftFdMap'[f] = leftFdMap[f]
      BY <1>0, <1>1, <2>2
    <3>2. PICK r \in 1..Len(rooms) : rooms[r].fds = <<f, leftFdMap[f]>>
      BY <1>8, <3>1 DEF PairInv
    <3> QED BY <1>5, <3>1, <3>2
  <2> QED BY <2>1, <2>2
<1>9. ASSUME NEW r \in 1..Len(rooms'), Live(roomMap', rooms', r), Unshared(rooms, r)'
      PROVE  /\ leftFdMap'[rooms'[r].fds[1]] = rooms'[r].fds[2]
             /\ rightFdMap'[rooms'[r].fds[2]] = rooms'[r].fds[1]
  <2>1. CASE r = n
    BY <1>0, <1>1, <1>4, <1>5, <1>6, <2>1
  <2>2. CASE r # n
    <3>1. r \in 1..Len(rooms) /\ rooms'[r] = rooms[r] /\ rooms[r] \in Room
      BY <1>5, <2>2
    <3>2. Live(roomMap, rooms, r) /\ Unshared(rooms, r)
      BY <1>1, <1>9, <3>1 DEF Live, Unshared, UsedOnce
    <3>3. rooms[r].fds \in Pairs
      BY <3>1 DEF Room
    <3>4. rooms[r].fds[1] # m.fds[1] /\ rooms[r].fds[2] # m.fds[2]
      BY <1>6, <1>7, <3>1, <3>2, <3>3, PairNames DEF Unshared
    <3>5. rooms[r].fds[1] \in Fds /\ rooms[r].fds[2] \in Fds
      BY <3>3, PairNames
    <3> QED BY <1>0, <1>1, <3>1, <3>2, <3>4, <3>5 DEF PairInv
  <2> QED BY <2>1, <2>2
<1> QED BY <1>8, <1>9 DEF PairInv

\* Both players are taken off the maps, and nobody else.
LEMMA PairEnds ==
  ASSUME QueueInv, RoomInv, OnceInv, PairInv, LobbyOnDisconnect, UNCHANGED connects
  PROVE  PairInv'
<1> DEFINE f == Head(mbox["lobby"]).fd
<1>0. /\ MailInv /\ rooms \in Seq(Room)
      /\ leftFdMap \in [Fds -> Fds \cup {NoFd}]
      /\ rightFdMap \in [Fds -> Fds \cup {NoFd}]
      /\ roomMap \in [Pairs -> Nat]
  BY DEF QueueInv, MailInv, RoomInv
<1>1. f \in Fds
  BY <1>0, LobbyHead DEF LobbyOnDisconnect, Heads
<1>2. CASE GetRoom(f) = 0
  <2>1. UNCHANGED lobbyVars
    BY <1>2 DEF LobbyOnDisconnect
  <2> QED BY <2>1 DEF PairInv, lobbyVars, Unshared, UsedOnce
<1>3. CASE GetRoom(f) # 0
  <2> DEFINE r  == GetRoom(f)
             pr == PairOf(f)
  <2>1. /\ leftFdMap' = [leftFdMap EXCEPT ![pr[1]] = NoFd]
        /\ rightFdMap' = [rightFdMap EXCEPT ![pr[2]] = NoFd]
        /\ rooms' = Told(r, "Exit") /\ roomMap' = [roomMap EXCEPT ![pr] = 0]
    BY <1>3 DEF LobbyOnDisconnect
  <2>2. /\ pr \in Pairs /\ roomMap[pr] = r /\ r \in 1..Len(rooms) /\ Open(rooms[r])
        /\ \A p \in Pairs : roomMap[p] = r => p = pr
    BY <1>0, <1>1, <1>3, RoomOpen
  <2>3. rooms[r].fds = pr
    BY <2>2 DEF RoomInv, MapInv
  <2> HIDE DEF r, pr, f
  <2>4. rooms[r].state # "gone"
    BY <2>2 DEF Open
  <2>5. PICK room \in Room : /\ Told(r, "Exit") = [rooms EXCEPT ![r] = room]
                             /\ room.fds = rooms[r].fds /\ room.state = rooms[r].state
                             /\ room.inbox = Append(rooms[r].inbox, "Exit")
    BY <1>0, <2>2, <2>4, TellsOne
  <2>6. /\ Len(rooms') = Len(rooms) /\ rooms'[r] = room
        /\ \A q \in 1..Len(rooms) : q # r => rooms'[q] = rooms[q]
        /\ \A q \in 1..Len(rooms) : rooms[q] \in Room
    BY <1>0, <2>1, <2>2, <2>5
  <2>7. \A q \in 1..Len(rooms) : rooms'[q].fds = rooms[q].fds
    BY <2>5, <2>6
  <2>8. ~Live(roomMap', rooms', r)
    <3>1. room.state \in {"launched", "up"} /\ room.inbox # <<>>
      <4>1. rooms[r] \in Room
        BY <2>2, <2>6
      <4>2. rooms[r].inbox \in Seq({"Start", "Receive", "Exit"})
        BY <4>1 DEF Room
      <4> QED BY <2>2, <2>5, <4>2 DEF Open
    <3>2. roomMap'[room.fds] = 0 /\ r # 0
      BY <1>0, <2>1, <2>2, <2>3, <2>5
    <3> QED BY <2>6, <3>1, <3>2 DEF Live, Fresh
  <2>9. ASSUME NEW q \in 1..Len(rooms), Live(roomMap', rooms', q), Unshared(rooms, q)'
        PROVE  /\ leftFdMap'[rooms'[q].fds[1]] = rooms'[q].fds[2]
               /\ rightFdMap'[rooms'[q].fds[2]] = rooms'[q].fds[1]
    <3>1. q # r
      BY <2>8, <2>9
    <3>2. rooms'[q] = rooms[q] /\ rooms[q].fds \in Pairs /\ q # 0
      BY <2>6, <3>1 DEF Room
    <3>0. Unshared(rooms, q)
      BY <2>9, <3>2 DEF Unshared, UsedOnce
    <3>3. \A g \in Fds : ~(UsedOnce(g) /\ Names(rooms[q].fds, g) /\ Names(pr, g))
      BY <2>2, <2>3, <3>1 DEF OnceInv, Once, PlaysOnce
    <3>4. rooms[q].fds[1] # pr[1] /\ rooms[q].fds[2] # pr[2] /\ rooms[q].fds # pr
      BY <2>2, <3>0, <3>2, <3>3, PairNames DEF Unshared
    <3>5. Live(roomMap, rooms, q)
      BY <1>0, <2>1, <2>9, <3>2, <3>4 DEF Live
    <3>6. rooms[q].fds[1] \in Fds /\ rooms[q].fds[2] \in Fds
      BY <3>2, PairNames
    <3> QED BY <1>0, <2>1, <3>0, <3>2, <3>4, <3>5, <3>6 DEF PairInv
  <2>10. ASSUME NEW g \in Fds, leftFdMap'[g] # NoFd
         PROVE  \E q \in 1..Len(rooms') : rooms'[q].fds = <<g, leftFdMap'[g]>>
    <3>1. leftFdMap'[g] = leftFdMap[g]
      BY <1>0, <2>1, <2>10
    <3> QED BY <2>6, <2>7, <2>10, <3>1 DEF PairInv
  <2> QED BY <2>6, <2>9, <2>10 DEF PairInv
<1> QED BY <1>2, <1>3

\* A room is launched, starts, and takes and hears messages.
LEMMA PairLives ==
  ASSUME QueueInv, RoomInv, PairInv, UNCHANGED connects,
         \/ NewRoomLaunched \/ LobbyOnReceive
         \/ \E r \in 1..Len(rooms) : Launch(r) \/ RoomHandles(r)
  PROVE  PairInv'
<1>0. /\ MailInv /\ rooms \in Seq(Room) /\ \A r \in 1..Len(rooms) : rooms[r] \in Room
  BY DEF QueueInv, MailInv
<1>1. UNCHANGED <<leftFdMap, rightFdMap>>
  BY DEF NewRoomLaunched, LobbyOnReceive, Launch, RoomHandles
<1>2. ASSUME NEW r \in 1..Len(rooms), NEW room, rooms' = [rooms EXCEPT ![r] = room],
             room.fds = rooms[r].fds,
             \A q \in 1..Len(rooms) : q # r /\ roomMap'[rooms[q].fds] = q =>
               roomMap[rooms[q].fds] = q,
             \/ Live(roomMap, rooms, r)
             \/ /\ room.state # "launching" /\ ~Fresh(room)
                /\ roomMap'[rooms[r].fds] = r => roomMap[rooms[r].fds] = r
      PROVE  PairInv'
  <2>1. /\ Len(rooms') = Len(rooms) /\ rooms'[r] = room
        /\ \A q \in 1..Len(rooms) : q # r => rooms'[q] = rooms[q]
    BY <1>0, <1>2
  <2>2. SameFds(rooms, rooms')
    BY <1>2, <2>1 DEF SameFds
  <2>3. \A q \in 1..Len(rooms) : Live(roomMap', rooms', q) => Live(roomMap, rooms, q)
    BY <1>2, <2>1 DEF Live
  <2> QED BY <1>1, <2>2, <2>3, PairKept
<1>3. CASE NewRoomLaunched
  <2> DEFINE m == Head(mbox["lobby"])
             r == m.room
  <2>1. /\ mbox["lobby"] # <<>> /\ m.cmd = "launched"
        /\ roomMap' = [roomMap EXCEPT ![m.fds] = r] /\ rooms' = Told(r, "Start")
    BY <1>3 DEF NewRoomLaunched, Heads
  <2>2. r \in 1..Len(rooms) /\ rooms[r].fds = m.fds /\ Fresh(rooms[r])
    <3>1. mbox["lobby"] \in Seq(LobbyMsg) /\ BoxInv(mbox["lobby"], rooms)
      BY <1>0 DEF MailInv, Boxes, Services, Msg, RoomInv
    <3> QED BY <2>1, <3>1, BoxTail
  <2> HIDE DEF r, m
  <2>3. Live(roomMap, rooms, r)
    BY <2>2 DEF Live
  <2>4. PICK room \in Room : rooms' = [rooms EXCEPT ![r] = room] /\ room.fds = rooms[r].fds
    <3>1. rooms[r].state # "gone"
      BY <2>2 DEF Fresh
    <3> QED BY <1>0, <2>1, <2>2, <3>1, TellsOne
  <2>5. \A q \in 1..Len(rooms) : q # r /\ roomMap'[rooms[q].fds] = q =>
          roomMap[rooms[q].fds] = q
    <3> TAKE q \in 1..Len(rooms)
    <3>1. rooms[q].fds \in Pairs /\ roomMap \in [Pairs -> Nat]
      BY <1>0 DEF Room, RoomInv
    <3> QED BY <2>1, <3>1
  <2> QED BY <1>2, <2>2, <2>3, <2>4, <2>5
<1>4. CASE LobbyOnReceive
  <2> DEFINE r == GetRoom(Head(mbox["lobby"]).fd)
  <2>1. /\ Head(mbox["lobby"]).fd \in Fds /\ roomMap' = roomMap
        /\ rooms' = IF r = 0 THEN rooms ELSE Told(r, "Receive")
    BY <1>0, <1>4, LobbyHead DEF LobbyOnReceive, Heads
  <2>2. CASE r = 0
    BY <1>1, <2>1, <2>2 DEF PairInv, Unshared, UsedOnce
  <2>3. CASE r # 0
    <3>1. r \in 1..Len(rooms) /\ Open(rooms[r])
      BY <1>0, <2>1, <2>3, RoomOpen
    <3> HIDE DEF r
    <3>2. PICK room \in Room : /\ rooms' = [rooms EXCEPT ![r] = room]
                               /\ room.fds = rooms[r].fds /\ room.state = rooms[r].state
                               /\ room.inbox = Append(rooms[r].inbox, "Receive")
      <4>1. rooms[r].state # "gone"
        BY <3>1 DEF Open
      <4> QED BY <1>0, <2>1, <2>3, <3>1, <4>1, TellsOne
    <3>3. room.state # "launching" /\ ~Fresh(room)
      <4>1. rooms[r].inbox \in Seq({"Start", "Receive", "Exit"})
        BY <1>0, <3>1 DEF Room
      <4> QED BY <3>1, <3>2, <4>1 DEF Open, Fresh
    <3> QED BY <1>2, <2>1, <3>1, <3>2, <3>3
  <2> QED BY <2>2, <2>3
<1>5. ASSUME NEW r \in 1..Len(rooms), Launch(r)
      PROVE  PairInv'
  <2> DEFINE room == [rooms[r] EXCEPT !.state = "launched"]
  <2>1. /\ rooms[r].state = "launching" /\ roomMap' = roomMap
        /\ rooms' = [rooms EXCEPT ![r] = room]
    BY <1>5 DEF Launch
  <2>2. room.fds = rooms[r].fds
    BY <1>0 DEF Room
  <2> HIDE DEF room
  <2>3. Live(roomMap, rooms, r)
    BY <2>1 DEF Live
  <2> QED BY <1>2, <2>1, <2>2, <2>3
<1>6. ASSUME NEW r \in 1..Len(rooms), RoomHandles(r)
      PROVE  PairInv'
  <2> DEFINE c     == Head(rooms[r].inbox)
             inbox == IF c = "Exit" THEN <<>> ELSE Tail(rooms[r].inbox)
             state == CASE c = "Start" -> "up" [] c = "Exit" -> "gone"
                        [] OTHER -> rooms[r].state
             room  == [[rooms[r] EXCEPT !.inbox = inbox] EXCEPT !.state = state]
  <2>1. /\ rooms[r] \in Room /\ rooms[r].state \in {"launched", "up"} /\ rooms[r].inbox # <<>>
        /\ rooms' = [rooms EXCEPT ![r].inbox = inbox, ![r].state = state]
        /\ roomMap' = roomMap
    BY <1>0, <1>6 DEF RoomHandles
  <2>2. rooms' = [rooms EXCEPT ![r] = room]
    <3> HIDE DEF inbox, state
    <3> QED BY <1>0, <2>1 DEF room
  <2>3. room.fds = rooms[r].fds /\ room.state = state
    <3> HIDE DEF inbox, state
    <3> QED BY <2>1 DEF Room
  <2>4. state # "launching" /\ state # "launched"
    BY <2>1 DEF RoomInv, HeardInv
  <2> HIDE DEF room, state
  <2>5. room.state # "launching" /\ ~Fresh(room)
    BY <2>3, <2>4 DEF Fresh
  <2> QED BY <1>2, <2>1, <2>2, <2>3, <2>5
<1> QED BY <1>3, <1>4, <1>5, <1>6

LEMMA PairStep ==
  ASSUME QueueInv, RoomInv, OnceInv, PairInv, [Next]_vars
  PROVE  PairInv'
<1>1. CASE UNCHANGED lobbyVars
  <2>1. \A r \in 1..Len(rooms) : rooms[r].fds[1] \in Fds /\ rooms[r].fds[2] \in Fds
    <3> SUFFICES ASSUME NEW r \in 1..Len(rooms)
                 PROVE  rooms[r].fds[1] \in Fds /\ rooms[r].fds[2] \in Fds
      OBVIOUS
    <3>1. rooms[r] \in Room
      BY DEF QueueInv, MailInv
    <3>2. rooms[r].fds \in Pairs
      BY <3>1 DEF Room
    <3> QED BY <3>2, PairNames
  <2>2. \A f \in Fds : UsedOnce(f)' => UsedOnce(f)
    BY UsedBefore
  <2>3. \A r \in 1..Len(rooms) : Unshared(rooms, r)' => Unshared(rooms, r)
    BY <1>1, <2>1, <2>2 DEF Unshared, UsedOnce, lobbyVars
  <2> QED BY <1>1, <2>3 DEF PairInv, lobbyVars
<1>2. CASE LobbyStep /\ UNCHANGED phoneVars
  <2>1. UNCHANGED connects
    BY <1>2 DEF phoneVars
  <2> QED BY <1>1, <1>2, <2>1, PairRoom, PairEnds, PairLives
          DEF LobbyStep, NewRoom, NewRoomChecked
<1> QED BY <1>1, <1>2 DEF Next, vars

-----------------------------------------------------------------------------
FoundInv == QueueInv /\ RoomInv /\ StreamInv /\ OnceInv /\ PairInv

LEMMA FoundInit == Init => FoundInv
<1> SUFFICES ASSUME Init
             PROVE  FoundInv
  OBVIOUS
<1>1. PairInv
  BY DEF Init, LobbyInit, PairInv
<1> QED BY <1>1, WaitsInit, RoomsInit, StreamInit, OnceInit DEF FoundInv

LEMMA FoundStep == FoundInv /\ [Next]_vars => FoundInv'
<1> SUFFICES ASSUME FoundInv, [Next]_vars
             PROVE  FoundInv'
  OBVIOUS
<1>1. QueueInv /\ RoomInv /\ StreamInv /\ OnceInv /\ PairInv
  BY DEF FoundInv
<1> QED BY <1>1, WaitsStep, RoomsStep, StreamStep, OnceNext, PairStep DEF FoundInv

LEMMA FoundRooms ==
  ASSUME FoundInv, NEW r \in 1..Len(rooms), Established(r), Unshared(rooms, r)
  PROVE  GetRoom(rooms[r].fds[1]) = r /\ GetRoom(rooms[r].fds[2]) = r
<1> DEFINE f == rooms[r].fds[1]
           g == rooms[r].fds[2]
<1>1. rooms[r].fds \in Pairs
  <2>1. rooms[r] \in Room
    BY DEF FoundInv, QueueInv, MailInv
  <2> QED BY <2>1 DEF Room
<1>2. f \in Fds /\ g \in Fds /\ rooms[r].fds = <<f, g>> /\ Names(rooms[r].fds, g)
  BY <1>1, PairNames
<1>3. leftFdMap[f] = g /\ rightFdMap[g] = f
  BY DEF FoundInv, PairInv, Live, Established, Unshared
<1>4. roomMap[<<f, g>>] = r
  BY <1>2 DEF Established
<1>9. Once(g)
  BY <1>2 DEF FoundInv, OnceInv, Unshared
<1> HIDE DEF f, g
<1>5. leftFdMap[g] = NoFd
  <2> SUFFICES ASSUME leftFdMap[g] # NoFd
               PROVE  FALSE
    OBVIOUS
  <2>1. PICK q \in 1..Len(rooms) : rooms[q].fds = <<g, leftFdMap[g]>>
    BY <1>2 DEF FoundInv, PairInv
  <2>2. Names(rooms[q].fds, g)
    <3>1. DOMAIN rooms[q].fds = 1..2 /\ rooms[q].fds[1] = g
      BY <2>1
    <3> QED BY <3>1 DEF Names
  <2>3. q = r /\ rooms[r].fds # <<g, g>>
    BY <1>2, <1>9, <2>2 DEF Once, PlaysOnce
  <2> QED BY <1>2, <2>1, <2>3
<1>6. f # NoFd /\ g # NoFd
  BY <1>2, FdsAssumption
<1>7. GetRoom(f) = r
  BY <1>3, <1>4, <1>6 DEF GetRoom, HasPair, PairOf
<1>8. GetRoom(g) = r
  BY <1>3, <1>4, <1>5, <1>6 DEF GetRoom, HasPair, PairOf
<1> QED BY <1>7, <1>8 DEF f, g

\* Where all fds are used once, those of every room are.
LEMMA NoneShared ==
  ASSUME MaxConnects = 1, FoundInv, NEW r \in 1..Len(rooms)
  PROVE  Unshared(rooms, r)
<1>1. rooms[r] \in Room
  BY DEF FoundInv, QueueInv, MailInv
<1>2. rooms[r].fds[1] \in Fds /\ rooms[r].fds[2] \in Fds
  <2>1. rooms[r].fds \in Pairs
    BY <1>1 DEF Room
  <2> QED BY <2>1, PairNames
<1>3. connects \in [Fds -> 0..1]
  BY DEF FoundInv, QueueInv, CountInv
<1> QED BY <1>2, <1>3 DEF Unshared, UsedOnce

\* GetRoom in lobby.lua leads both players of a room in _roomMap to it if no
\* second phone has used their fds, whatever all others do: for any number of
\* phones, fds used anew and rooms, and whatever leaves, late copies of Connect
\* and kicks come while NewRoom and OnHandshake are suspended.
THEOREM FoundUnshared ==
  Spec => [](\A r \in 1..Len(rooms) : Established(r) /\ Unshared(rooms, r) =>
               GetRoom(rooms[r].fds[1]) = r /\ GetRoom(rooms[r].fds[2]) = r)
<1>1. FoundInv =>
        \A r \in 1..Len(rooms) : Established(r) /\ Unshared(rooms, r) =>
          GetRoom(rooms[r].fds[1]) = r /\ GetRoom(rooms[r].fds[2]) = r
  BY FoundRooms
<1> QED BY <1>1, FoundInit, FoundStep, PTL DEF Spec

\* The same of every room in _roomMap, where every fd is used by one phone.
\* (With fds used anew it is not so: an fd may then be the left one of one room
\* and the right one of another.)
THEOREM Found ==
  ASSUME MaxConnects = 1
  PROVE  Spec => []RoomFound
<1>1. FoundInv => RoomFound
  BY FoundRooms, NoneShared DEF RoomFound
<1> QED BY <1>1, FoundInit, FoundStep, PTL DEF Spec

-----------------------------------------------------------------------------
\* The lobby will hear if the agent of f is gone.
Watched(f) == agentMap[f].here \/ Pending("lobby", Event("OnDisconnect", f))

LEMMA WatchMore ==
  ASSUME MailInv, NEW f, Watched(f), NEW ms \in Seq(LobbyMsg),
         mbox'["lobby"] = mbox["lobby"] \o ms,
         agentMap[f].here =>
           agentMap'[f].here \/ \E k \in 1..Len(ms) : ms[k] = Event("OnDisconnect", f)
  PROVE  Watched(f)'
<1> DEFINE e  == Event("OnDisconnect", f)
           b  == mbox["lobby"]
           b2 == mbox'["lobby"]
<1>1. /\ Len(b) \in Nat /\ Len(ms) \in Nat /\ Len(b2) = Len(b) + Len(ms)
      /\ \A i \in 1..Len(b) : i \in 1..Len(b2) /\ b2[i] = b[i]
      /\ \A k \in 1..Len(ms) : Len(b) + k \in 1..Len(b2) /\ b2[Len(b) + k] = ms[k]
  <2>1. b \in Seq(LobbyMsg)
    BY DEF MailInv, Boxes, Services, Msg
  <2> QED BY <2>1
<1> HIDE DEF e, b, b2
<1>2. (\E i \in 1..Len(b) : b[i] = e) \/ (\E k \in 1..Len(ms) : ms[k] = e) =>
        \E i \in 1..Len(b2) : b2[i] = e
  BY <1>1
<1>3. (\E i \in 1..Len(b) : b[i] = e) \/ (\E k \in 1..Len(ms) : ms[k] = e)
      \/ agentMap'[f].here
  BY DEF Watched, Pending, e, b
<1> QED BY <1>2, <1>3 DEF Watched, Pending, e, b2

LEMMA WatchSame ==
  ASSUME NEW f, Watched(f), mbox'["lobby"] = mbox["lobby"],
         agentMap[f].here => agentMap'[f].here
  PROVE  Watched(f)'
BY DEF Watched, Pending

LEMMA WatchOne ==
  ASSUME MailInv, NEW f, Watched(f), NEW m \in LobbyMsg,
         mbox'["lobby"] = mbox["lobby"] \o <<m>>,
         agentMap[f].here => agentMap'[f].here
  PROVE  Watched(f)'
<1> DEFINE ms == <<m>>
<1>1. ms \in Seq(LobbyMsg) /\ mbox'["lobby"] = mbox["lobby"] \o ms
  OBVIOUS
<1> HIDE DEF ms
<1> QED BY <1>1, WatchMore

\* The lobby takes a message, other than the news that the agent is gone.
LEMMA WatchTaken ==
  ASSUME MailInv, NEW f, Watched(f), mbox["lobby"] # <<>>,
         Head(mbox["lobby"]) # Event("OnDisconnect", f),
         mbox'["lobby"] = Tail(mbox["lobby"]), agentMap' = agentMap
  PROVE  Watched(f)'
<1> DEFINE e  == Event("OnDisconnect", f)
           b  == mbox["lobby"]
           b2 == mbox'["lobby"]
<1>1. /\ Len(b) \in Nat /\ Len(b2) = Len(b) - 1 /\ b[1] = Head(b)
      /\ \A i \in 1..Len(b) : i # 1 => i - 1 \in 1..Len(b2) /\ b2[i - 1] = b[i]
  <2>1. b \in Seq(LobbyMsg)
    BY DEF MailInv, Boxes, Services, Msg
  <2> QED BY <2>1
<1>2. b[1] # e
  BY <1>1
<1> HIDE DEF e, b, b2
<1>3. (\E i \in 1..Len(b) : b[i] = e) => \E i \in 1..Len(b2) : b2[i] = e
  BY <1>1, <1>2
<1> QED BY <1>3 DEF Watched, Pending, e, b, b2

LEMMA WatchGone ==
  ASSUME MailInv, NEW f, Watched(f), NEW b, Boxes(b), b["lobby"] = mbox["lobby"],
         NEW fs \in Seq(Fds), mbox' = Disconnects(b, fs),
         agentMap[f].here => agentMap'[f].here \/ \E i \in 1..Len(fs) : fs[i] = f
  PROVE  Watched(f)'
<1>0. "queue" \in Services /\ "lobby" \in Services \ {"queue"} /\ "lobby" \in Services
  BY DEF Services
<1>1. /\ Events(fs) \in Seq(Msg("queue")) /\ Events(fs) \in Seq(Msg("lobby"))
      /\ Events(fs) \in Seq(LobbyMsg) /\ Len(Events(fs)) = Len(fs)
      /\ \A i \in 1..Len(fs) : Events(fs)[i] = Event("OnDisconnect", fs[i])
  BY EventsType DEF Msg
<1> DEFINE b1 == SentTo(b, "lobby", Events(fs))
<1>2. Boxes(b1) /\ b1["lobby"] = b["lobby"] \o Events(fs)
  BY <1>0, <1>1, SentBoxes
<1>3. Disconnects(b, fs) = SentTo(b1, "queue", Events(fs))
  BY DEF Disconnects, Events
<1> HIDE DEF b1
<1>4. SentTo(b1, "queue", Events(fs))["lobby"] = b1["lobby"]
  BY <1>0, <1>1, <1>2, SentBoxes
<1>5. mbox'["lobby"] = mbox["lobby"] \o Events(fs)
  BY <1>2, <1>3, <1>4
<1> QED BY <1>1, <1>5, WatchMore

\* The gate tells the lobby of every agent that it drops.
LEMMA WatchGateStep ==
  ASSUME QueueInv, GateStep \/ PhoneStep, NEW f \in Fds, Watched(f)
  PROVE  Watched(f)'
<1>0. /\ MailInv /\ Boxes(mbox) /\ "gate" \in Services /\ "lobby" \in Services
      /\ "lobby" \in Services \ {"gate"} /\ "queue" \in Services \ {"gate"}
      /\ "lobby" \in Services \ {"gate", "queue"} /\ "lobby" \in Services \ {"queue"}
      /\ "queue" \in Services /\ Msg("queue") = QueueMsg /\ Msg("lobby") = LobbyMsg
      /\ agentMap \in [Fds -> Agent]
  BY DEF QueueInv, MailInv, CountInv, Services, Msg
<1>1. CASE Heartbeat
  <2> DEFINE silent == {g \in Agents : ~agentMap[g].heartbeat}
  <2>1. /\ agentMap' = [g \in Fds |-> IF g \in silent THEN NoAgent
                                      ELSE [agentMap[g] EXCEPT !.heartbeat = FALSE]]
        /\ \E fs \in [1..Cardinality(silent) -> silent] :
             {fs[i] : i \in DOMAIN fs} = silent /\ mbox' = Disconnects(mbox, fs)
    BY <1>1 DEF Heartbeat
  <2>2. silent \subseteq Fds /\ Cardinality(silent) \in Nat
    <3>1. silent \subseteq Agents /\ Agents \subseteq Fds
      BY DEF Agents
    <3> QED BY <3>1, AgentsFinite, FS_Subset, FS_CardinalityType
  <2> HIDE DEF silent
  <2>3. PICK fs \in [1..Cardinality(silent) -> silent] :
          {fs[i] : i \in DOMAIN fs} = silent /\ mbox' = Disconnects(mbox, fs)
    BY <2>1
  <2>4. /\ fs \in Seq(Fds) /\ DOMAIN fs = 1..Len(fs)
    BY <2>2, <2>3
  <2>5. agentMap[f].here => agentMap'[f].here \/ \E i \in 1..Len(fs) : fs[i] = f
    <3>1. CASE f \in silent
      BY <2>3, <2>4, <3>1
    <3>2. CASE f \notin silent
      BY <1>0, <2>1, <3>2 DEF Agent
    <3> QED BY <3>1, <3>2
  <2> QED BY <1>0, <2>3, <2>4, <2>5, WatchGone
<1>2. CASE KickCommand
  <2> DEFINE fs   == Head(mbox["gate"]).fds
             gone == {g \in Agents : \E i \in 1..Len(fs) : fs[i] = g}
  <2>1. /\ mbox["gate"] # <<>> /\ fs \in Pairs
        /\ agentMap' = [g \in Fds |-> IF g \in gone THEN NoAgent ELSE agentMap[g]]
        /\ mbox' = Disconnects(Taken("gate"), There(fs))
    BY <1>0, <1>2, GateHead DEF KickCommand, Heads
  <2>2. \A g \in gone : g \in Agents /\ \E i \in 1..Len(fs) : fs[i] = g
    OBVIOUS
  <2> HIDE DEF fs, gone
  <2>3. Boxes(Taken("gate")) /\ Taken("gate")["lobby"] = mbox["lobby"]
    BY <1>0, <2>1, TakenBoxes
  <2>4. /\ There(fs) \in Seq(Fds)
        /\ \A g \in gone : \E i \in 1..Len(There(fs)) : There(fs)[i] = g
    BY <2>1, <2>2, ThereAll
  <2>5. agentMap[f].here => agentMap'[f].here \/ \E i \in 1..Len(There(fs)) : There(fs)[i] = f
    BY <2>1, <2>4
  <2> QED BY <1>0, <2>1, <2>3, <2>4, <2>5, WatchGone
<1>3. CASE CheckAgent \/ GetAgentValue
  <2> DEFINE h  == Head(mbox["gate"])
             ok == \A i \in 1..Len(h.fds) : agentMap[h.fds[i]].here
  <2>1. mbox["gate"] # <<>> /\ agentMap' = agentMap /\ ok \in BOOLEAN
    BY <1>3 DEF CheckAgent, CheckAgentFor, GetAgentValue, Heads, gateVars
  <2>2. <<f, f>> \in Pairs
    BY DEF Pairs
  <2>3. CASE CheckAgentFor("queue", "CheckAgent.queue")
    <3> DEFINE x == Checked(h.fds, ok)
    <3>1. mbox' = SentTo(Taken("gate"), "queue", <<x>>) /\ h.fds \in Single
      BY <1>0, <2>1, <2>3, GateHead DEF CheckAgentFor, Heads
    <3>2. x \in QueueMsg
      <4> HIDE DEF h, ok
      <4> QED BY <2>1, <2>2, <3>1, Sorts
    <3> HIDE DEF x
    <3>3. mbox'["lobby"] = mbox["lobby"]
      BY <1>0, <2>1, <3>1, <3>2, Passed
    <3> QED BY <2>1, <3>3, WatchSame
  <2>4. CASE CheckAgentFor("lobby", "CheckAgent.lobby") \/ GetAgentValue
    <3>1. /\ h.fds \in Pairs
          /\ \E x \in {Checked(h.fds, ok), Request("gotValue", h.fds)} :
               mbox' = SentTo(Taken("gate"), "lobby", <<x>>)
      BY <1>0, <2>1, <2>4, GateHead DEF CheckAgentFor, GetAgentValue, Heads
    <3>2. PICK x \in {Checked(h.fds, ok), Request("gotValue", h.fds)} :
            mbox' = SentTo(Taken("gate"), "lobby", <<x>>)
      BY <3>1
    <3>3. x \in LobbyMsg
      <4> HIDE DEF h, ok
      <4> QED BY <2>1, <3>1, Sorts
    <3>4. mbox'["lobby"] = mbox["lobby"] \o <<x>>
      BY <1>0, <2>1, <3>2, <3>3, Passed
    <3> QED BY <1>0, <2>1, <3>3, <3>4, WatchOne
  <2> QED BY <1>3, <2>3, <2>4 DEF CheckAgent
<1>4. CASE Send
  <2>1. mbox["gate"] # <<>> /\ mbox' = Taken("gate") /\ agentMap' = agentMap
    BY <1>4 DEF Send, Heads, gateVars
  <2> QED BY <1>0, <2>1, TakenBoxes, WatchSame
<1>5. ASSUME NEW g \in Fds, OnReceiveConnect(g) \/ OnReceive(g)
      PROVE  Watched(f)'
  <2>1. /\ mbox' = mbox
        /\ \E a \in [here : {TRUE, agentMap[g].here}] : agentMap'[g].here = a.here
        /\ \A k \in Fds \ {g} : agentMap'[k] = agentMap[k]
    <3>1. CASE OnReceiveConnect(g)
      <4>1. mbox' = mbox /\ \E n \in {0, connects[g]} : NewAgent(g, n)
        BY <3>1 DEF OnReceiveConnect
      <4>2. agentMap'[g].here = TRUE /\ \A k \in Fds \ {g} : agentMap'[k] = agentMap[k]
        BY <1>0, <4>1 DEF NewAgent
      <4>3. [here |-> TRUE] \in [here : {TRUE, agentMap[g].here}]
        OBVIOUS
      <4> QED BY <4>1, <4>2, <4>3
    <3>2. CASE OnReceive(g)
      <4>1. mbox' = mbox /\ agentMap' = [agentMap EXCEPT ![g].heartbeat = TRUE]
        BY <3>2 DEF OnReceive
      <4>2. /\ agentMap'[g].here = agentMap[g].here
            /\ \A k \in Fds \ {g} : agentMap'[k] = agentMap[k]
        BY <1>0, <4>1 DEF Agent
      <4>3. [here |-> agentMap[g].here] \in [here : {TRUE, agentMap[g].here}]
        OBVIOUS
      <4> QED BY <4>1, <4>2, <4>3
    <3> QED BY <1>5, <3>1, <3>2
  <2>2. agentMap[f].here => agentMap'[f].here
    BY <2>1
  <2> QED BY <2>1, <2>2, WatchSame
<1>6. ASSUME NEW g \in Fds, RecvHandshake(g)
      PROVE  Watched(f)'
  <2> DEFINE ms == <<Event("OnHandshake", g)>>
  <2>1. mbox' = SentTo(mbox, "queue", ms) /\ agentMap' = agentMap
    BY <1>6 DEF RecvHandshake
  <2>2. ms \in Seq(Msg("queue"))
    <3>1. <<g, g>> \in Pairs
      BY DEF Pairs
    <3>2. Event("OnHandshake", g) \in QueueMsg
      BY <3>1, Sorts
    <3> QED BY <1>0, <3>2
  <2> HIDE DEF ms
  <2>3. mbox'["lobby"] = mbox["lobby"]
    <3>1. ms \in Seq(Msg("queue")) /\ "queue" \in Services
      BY <1>0, <2>2
    <3>2. SentTo(mbox, "queue", ms)["lobby"] = mbox["lobby"]
      BY <1>0, <3>1, SentBoxes
    <3> QED BY <2>1, <3>2
  <2> QED BY <2>1, <2>3, WatchSame
<1>7. ASSUME NEW g \in Fds, RecvInput(g)
      PROVE  Watched(f)'
  <2> DEFINE ms == <<Event("OnReceive", g)>>
  <2>1. mbox' = SentTo(mbox, "lobby", ms) /\ agentMap' = agentMap
    BY <1>7 DEF RecvInput
  <2>2. ms \in Seq(LobbyMsg)
    <3>1. <<g, g>> \in Pairs
      BY DEF Pairs
    <3>2. Event("OnReceive", g) \in LobbyMsg
      BY <3>1, Sorts
    <3> QED BY <3>2
  <2> HIDE DEF ms
  <2>3. mbox'["lobby"] = mbox["lobby"] \o ms
    <3>1. ms \in Seq(Msg("lobby"))
      BY <1>0, <2>2
    <3> QED BY <1>0, <2>1, <3>1, SentBoxes
  <2> QED BY <1>0, <2>1, <2>2, <2>3, WatchMore
<1>8. CASE PhoneStep
  <2>1. mbox' = mbox /\ agentMap' = agentMap
    BY <1>8 DEF PhoneStep, Connect, OnConnect, OnStart, SendInput, Leave, gateVars
  <2> QED BY <2>1, WatchSame
<1> QED BY <1>1, <1>2, <1>3, <1>4, <1>5, <1>6, <1>7, <1>8 DEF GateStep, GateCommand

LEMMA WatchQueueStep ==
  ASSUME QueueInv, QueueStep, UNCHANGED gateVars, NEW f \in Fds, Watched(f)
  PROVE  Watched(f)'
<1> DEFINE h == Head(mbox["queue"])
<1>0. /\ MailInv /\ Boxes(mbox) /\ "queue" \in Services /\ "gate" \in Services \ {"queue"}
      /\ "lobby" \in Services \ {"queue"} /\ "lobby" \in Services \ {"queue", "gate"}
      /\ Msg("gate") = GateMsg /\ Msg("lobby") = LobbyMsg /\ readyFd \in Fds \cup {NoFd}
  BY DEF QueueInv, WaitInv, MailInv, Services, Msg
<1>1. mbox["queue"] # <<>> /\ agentMap' = agentMap
  BY DEF QueueStep, QueueOnHandshake, QueueChecked, QueueOnDisconnect, Heads, gateVars
<1>2. Taken("queue")["lobby"] = mbox["lobby"]
  BY <1>0, <1>1, TakenBoxes
<1>3. CASE mbox' = Taken("queue")
  BY <1>1, <1>2, <1>3, WatchSame
<1>4. CASE QueueOnHandshake
  <2> DEFINE x == Request("CheckAgent.queue", <<h.fd>>)
  <2>1. h.cmd = "OnHandshake" /\ mbox' = SentTo(Taken("queue"), "gate", <<x>>)
    BY <1>4 DEF QueueOnHandshake, Heads
  <2>2. h.fd \in Fds /\ <<h.fd, h.fd>> \in Pairs
    BY <1>0, <1>1, <2>1, QueueHead DEF Pairs
  <2>3. x \in GateMsg
    BY <2>2, Sorts
  <2> HIDE DEF x
  <2>4. mbox'["lobby"] = mbox["lobby"]
    BY <1>0, <1>1, <2>1, <2>3, Passed
  <2> QED BY <1>1, <2>4, WatchSame
<1>5. CASE QueueChecked /\ mbox' # Taken("queue")
  <2> DEFINE fs == <<readyFd, h.fds[1]>>
             x  == Request("NewRoom", fs)
  <2>1. /\ h.cmd = "checked" /\ readyFd # NoFd
        /\ mbox' = SentTo(Taken("queue"), "lobby", <<x>>)
    BY <1>5 DEF QueueChecked, Heads
  <2>2. readyFd \in Fds /\ h.fds[1] \in Fds
    BY <1>0, <1>1, <2>1, QueueHead
  <2>3. x \in LobbyMsg
    <3>1. fs \in Pairs
      BY <2>2 DEF Pairs
    <3> HIDE DEF fs
    <3> QED BY <2>2, <3>1, Sorts
  <2> HIDE DEF x
  <2>4. mbox'["lobby"] = mbox["lobby"] \o <<x>>
    BY <1>0, <1>1, <2>1, <2>3, Passed
  <2> QED BY <1>0, <1>1, <2>3, <2>4, WatchOne
<1> QED BY <1>3, <1>4, <1>5 DEF QueueStep, QueueOnDisconnect

\* The lobby hears that a player is gone: its room is closed.
LEMMA WatchLobbyStep ==
  ASSUME FoundInv, LobbyStep, UNCHANGED gateVars,
         NEW r \in 1..Len(rooms), Established(r), Established(r)',
         Unshared(rooms, r),
         NEW f \in Fds, f = rooms[r].fds[1] \/ f = rooms[r].fds[2], Watched(f)
  PROVE  Watched(f)'
<1> DEFINE m == Head(mbox["lobby"])
<1>0. /\ QueueInv /\ RoomInv /\ MailInv /\ Boxes(mbox) /\ rooms \in Seq(Room)
      /\ "lobby" \in Services /\ Msg("lobby") = LobbyMsg /\ agentMap' = agentMap
      /\ roomMap \in [Pairs -> Nat]
  BY DEF FoundInv, QueueInv, MailInv, RoomInv, Services, Msg, gateVars
<1>1. GetRoom(f) = r
  BY FoundRooms
<1>2. ASSUME mbox["lobby"] # <<>>, m # Event("OnDisconnect", f),
             mbox'["lobby"] = Tail(mbox["lobby"])
      PROVE  Watched(f)'
  BY <1>0, <1>2, WatchTaken
<1>3. \A c : c # "OnDisconnect" /\ m.cmd = c => m # Event("OnDisconnect", f)
  BY DEF Event
<1>4. CASE NewRoom \/ NewRoomChecked
  <2>1. /\ mbox["lobby"] # <<>> /\ m.cmd \in {"NewRoom", "checked"}
        /\ \E c \in {"CheckAgent.lobby", "GetAgentValue", "Kick"} :
             mbox' = SentTo(Taken("lobby"), "gate", <<Request(c, m.fds)>>)
    BY <1>4 DEF NewRoom, NewRoomChecked, Heads
  <2>2. m.fds \in Pairs
    BY <1>0, <2>1, LobbyHead
  <2>3. m # Event("OnDisconnect", f)
    BY <1>3, <2>1
  <2> HIDE DEF m
  <2>4. mbox'["lobby"] = Tail(mbox["lobby"])
    BY <1>0, <2>1, <2>2, LobbyTook
  <2> QED BY <1>2, <2>1, <2>3, <2>4
<1>5. CASE NewRoomGotValue \/ NewRoomLaunched \/ LobbyOnReceive
  <2>1. /\ mbox["lobby"] # <<>> /\ m.cmd \in {"gotValue", "launched", "OnReceive"}
        /\ mbox' = Taken("lobby")
    BY <1>5 DEF NewRoomGotValue, NewRoomLaunched, LobbyOnReceive, Heads
  <2> QED BY <1>0, <1>2, <1>3, <2>1, TakenBoxes
<1>6. CASE LobbyOnDisconnect
  <2>1. mbox["lobby"] # <<>> /\ m.cmd = "OnDisconnect" /\ m.fd \in Fds
    BY <1>0, <1>6, LobbyHead DEF LobbyOnDisconnect, Heads
  <2>2. CASE m.fd # f
    <3>1. m # Event("OnDisconnect", f)
      BY <2>2 DEF Event
    <3>2. mbox'["lobby"] = Tail(mbox["lobby"])
      <4>1. CASE GetRoom(m.fd) = 0
        BY <1>0, <1>6, <2>1, <4>1, TakenBoxes DEF LobbyOnDisconnect
      <4>2. CASE GetRoom(m.fd) # 0
        <5>1. mbox' = SentTo(Taken("lobby"), "gate", <<Request("Kick", PairOf(m.fd))>>)
          BY <1>6, <4>2 DEF LobbyOnDisconnect
        <5>2. PairOf(m.fd) \in Pairs
          BY <1>0, <2>1, <4>2, RoomOpen
        <5> QED BY <1>0, <2>1, <5>1, <5>2, LobbyTook
      <4> QED BY <4>1, <4>2
    <3> QED BY <1>2, <2>1, <3>1, <3>2
  <2>3. CASE m.fd = f
    <3>1. r # 0 /\ GetRoom(f) # 0
      BY <1>1
    <3>2. /\ roomMap' = [roomMap EXCEPT ![PairOf(f)] = 0]
          /\ rooms' = Told(r, "Exit")
      BY <1>1, <1>6, <2>3, <3>1 DEF LobbyOnDisconnect
    <3>3. PairOf(f) \in Pairs /\ rooms[r].fds = PairOf(f)
      <4>1. PairOf(f) \in Pairs /\ roomMap[PairOf(f)] = r
        BY <1>0, <1>1, <3>1, RoomOpen
      <4> QED BY <1>0, <3>1, <4>1 DEF RoomInv, MapInv
    <3>4. rooms'[r].fds = rooms[r].fds
      BY <1>0, <3>2, ToldSame DEF SameFds
    <3> QED BY <1>0, <3>1, <3>2, <3>3, <3>4 DEF Established
  <2> QED BY <2>2, <2>3
<1>7. ASSUME NEW q \in 1..Len(rooms), Launch(q)
      PROVE  Watched(f)'
  <2> DEFINE x  == Launched(rooms[q].fds, q)
             ms == <<x>>
  <2>1. mbox' = SentTo(mbox, "lobby", ms)
    BY <1>7 DEF Launch
  <2>2. x \in LobbyMsg
    <3>1. rooms[q] \in Room /\ q \in Nat
      BY <1>0
    <3> QED BY <3>1 DEF Room, Launched, LobbyMsg
  <2> HIDE DEF x
  <2>3. ms \in Seq(LobbyMsg)
    BY <2>2
  <2> HIDE DEF ms
  <2>4. mbox'["lobby"] = mbox["lobby"] \o ms
    BY <1>0, <2>1, <2>3, SentBoxes
  <2> QED BY <1>0, <2>3, <2>4, WatchMore
<1>8. ASSUME NEW q \in 1..Len(rooms), RoomHandles(q)
      PROVE  Watched(f)'
  <2> DEFINE ms == <<Request("Send", rooms[q].fds)>>
  <2>1. mbox' = mbox \/ mbox' = SentTo(mbox, "gate", ms)
    BY <1>8 DEF RoomHandles
  <2>2. ms \in Seq(Msg("gate"))
    <3>1. rooms[q] \in Room
      BY <1>0
    <3>2. Request("Send", rooms[q].fds) \in GateMsg
      BY <3>1 DEF Room, Request, GateMsg
    <3> QED BY <3>2 DEF Msg
  <2> HIDE DEF ms
  <2>3. "gate" \in Services /\ "lobby" \in Services \ {"gate"}
    BY DEF Services
  <2>4. mbox'["lobby"] = mbox["lobby"]
    <3>1. SentTo(mbox, "gate", ms)["lobby"] = mbox["lobby"]
      <4>1. "gate" \in Services
        BY <2>3
      <4> QED BY <1>0, <2>2, <2>3, <4>1, SentBoxes
    <3> QED BY <2>1, <3>1
  <2> QED BY <1>0, <2>4, WatchSame
<1> QED BY <1>4, <1>5, <1>6, <1>7, <1>8 DEF LobbyStep

\* A room stays covered while the lobby has it in its map.
LEMMA CoversRoom ==
  ASSUME FoundInv, Next, NEW r \in 1..Len(rooms), Unshared(rooms, r),
         Established(r), Covered(r), Established(r)'
  PROVE  Covered(r)'
<1>0. QueueInv /\ MailInv /\ rooms \in Seq(Room)
  BY DEF FoundInv, QueueInv, MailInv
<1>1. rooms'[r].fds = rooms[r].fds
  <2>1. CASE UNCHANGED rooms
    BY <2>1
  <2>2. CASE NewRoomGotValue
    <3>1. PICK room \in Room : rooms' = Append(rooms, room)
      <4>1. Head(mbox["lobby"]).fds \in Pairs
        BY <1>0, <2>2, LobbyHead DEF NewRoomGotValue, Heads
      <4> DEFINE fs == Head(mbox["lobby"]).fds
      <4>2. rooms' = Append(rooms, [fds |-> fs, state |-> "launching", inbox |-> <<>>])
        BY <2>2 DEF NewRoomGotValue
      <4> HIDE DEF fs
      <4>3. [fds |-> fs, state |-> "launching", inbox |-> <<>>] \in Room
        BY <4>1 DEF Room, fs
      <4> QED BY <4>2, <4>3
    <3> QED BY <1>0, <3>1
  <2>3. ASSUME NEW q, NEW c, rooms' = Told(q, c)
        PROVE  rooms'[r].fds = rooms[r].fds
    BY <1>0, <2>3, ToldSame DEF SameFds
  <2>4. ASSUME NEW q \in 1..Len(rooms), Launch(q) \/ RoomHandles(q)
        PROVE  rooms'[r].fds = rooms[r].fds
    <3>1. \/ rooms' = [rooms EXCEPT ![q].state = "launched"]
          \/ \E i, s : rooms' = [rooms EXCEPT ![q].inbox = i, ![q].state = s]
      BY <2>4 DEF Launch, RoomHandles
    <3>2. rooms[r] \in Room /\ DOMAIN rooms = 1..Len(rooms) /\ "fds" \in DOMAIN rooms[r]
      <4>1. rooms[r] \in Room /\ DOMAIN rooms = 1..Len(rooms)
        BY <1>0
      <4> QED BY <4>1 DEF Room
    <3>3. CASE rooms' = [rooms EXCEPT ![q].state = "launched"]
      BY <3>2, <3>3
    <3>4. ASSUME NEW i, NEW s, rooms' = [rooms EXCEPT ![q].inbox = i, ![q].state = s]
          PROVE  rooms'[r].fds = rooms[r].fds
      BY <3>2, <3>4
    <3> QED BY <3>1, <3>3, <3>4
  <2> QED BY <2>1, <2>2, <2>3, <2>4
      DEF Next, LobbyStep, NewRoom, NewRoomChecked, NewRoomLaunched, LobbyOnDisconnect,
          LobbyOnReceive, lobbyVars
<1>2. ASSUME NEW i \in 1..2
      PROVE  Watched(rooms[r].fds[i]) => Watched(rooms[r].fds[i])'
  <2> DEFINE f == rooms[r].fds[i]
  <2>1. f \in Fds /\ (f = rooms[r].fds[1] \/ f = rooms[r].fds[2])
    <3>1. rooms[r] \in Room
      BY <1>0
    <3>2. rooms[r].fds \in Pairs
      BY <3>1 DEF Room
    <3> QED BY <3>2, PairNames
  <2>2. \A g \in Fds : (g = rooms[r].fds[1] \/ g = rooms[r].fds[2]) /\ Watched(g) =>
          Watched(g)'
    <3> SUFFICES ASSUME NEW g \in Fds, g = rooms[r].fds[1] \/ g = rooms[r].fds[2],
                        Watched(g)
                 PROVE  Watched(g)'
      OBVIOUS
    <3>1. CASE GateStep \/ PhoneStep
      BY <1>0, <3>1, WatchGateStep
    <3>2. CASE QueueStep /\ UNCHANGED gateVars
      BY <1>0, <3>2, WatchQueueStep
    <3>3. CASE LobbyStep /\ UNCHANGED gateVars
      BY <3>3, WatchLobbyStep
    <3> QED BY <3>1, <3>2, <3>3 DEF Next
  <2> QED BY <1>1, <2>1, <2>2
<1> QED BY <1>1, <1>2 DEF Covered, Watched

\* A room whose players are there, or about to be reported gone, stays so for
\* as long as the lobby has it in _roomMap, if no second phone has used their
\* fds, for any number of phones and rooms: the lobby hears of every agent that
\* the gate drops and closes the room of its fd.
THEOREM CoversUnshared ==
  Spec => [][\A r \in 1..Len(rooms) :
               Established(r) /\ Unshared(rooms, r) /\ Covered(r) /\ Established(r)' =>
                 Covered(r)']_vars
<1>1. FoundInv /\ [Next]_vars =>
        [\A r \in 1..Len(rooms) :
           Established(r) /\ Unshared(rooms, r) /\ Covered(r) /\ Established(r)' =>
             Covered(r)']_vars
  BY CoversRoom
<1> QED BY <1>1, FoundInit, FoundStep, PTL DEF Spec

\* The same of every room, where every fd is used by one phone.
THEOREM Covers ==
  ASSUME MaxConnects = 1
  PROVE  Spec => StaysCovered
<1>1. FoundInv /\ [Next]_vars =>
        [\A r \in 1..Len(rooms) :
           Established(r) /\ Covered(r) /\ Established(r)' => Covered(r)']_vars
  BY CoversRoom, NoneShared
<1> QED BY <1>1, FoundInit, FoundStep, PTL DEF Spec, StaysCovered

=============================================================================
