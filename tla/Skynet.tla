------------------------------- MODULE Skynet -------------------------------
(***************************************************************************)
(* What the services of the server share: their mailboxes and the fds.     *)
(*                                                                         *)
(* A service takes the messages of its mailbox one at a time, first in     *)
(* first out.  skynet.send appends to the receiver's mailbox; skynet.call  *)
(* does too, and then suspends only the coroutine that calls: the service  *)
(* goes on with its next message and resumes the coroutine when the        *)
(* response, a message like any other, is at the head of its own mailbox.  *)
(* A suspended coroutine is therefore what its request and, later, its     *)
(* response carry; no variable of its own is needed.                       *)
(***************************************************************************)
EXTENDS Integers, Sequences, FiniteSets

CONSTANTS
  Fds,       \* the UDP addresses phones speak from
  NoFd       \* nil, where an fd is expected

ASSUME FdsAssumption == NoFd \notin Fds /\ IsFiniteSet(Fds)

VARIABLE mbox  \* [Services -> Seq(messages)]

Services == {"gate", "lobby", "queue"}

Event(c, f)     == [cmd |-> c, fd |-> f]
Request(c, fs)  == [cmd |-> c, fds |-> fs]
Checked(fs, ok) == [cmd |-> "checked", fds |-> fs, ok |-> ok]
Launched(fs, r) == [cmd |-> "launched", fds |-> fs, room |-> r]

Pairs == {<<f, g>> : f, g \in Fds}

\* What is asked about one fd, and what is asked about two players.
Single == {<<f>> : f \in Fds}

GateMsg  == [cmd : {"CheckAgent.queue"}, fds : Single]
              \cup [cmd : {"CheckAgent.lobby", "GetAgentValue", "Kick", "Send"},
                    fds : Pairs]
QueueMsg == [cmd : {"OnHandshake", "OnDisconnect"}, fd : Fds]
              \cup [cmd : {"checked"}, fds : Single, ok : BOOLEAN]
LobbyMsg == [cmd : {"OnReceive", "OnDisconnect"}, fd : Fds]
              \cup [cmd : {"NewRoom", "gotValue"}, fds : Pairs]
              \cup [cmd : {"checked"}, fds : Pairs, ok : BOOLEAN]
              \cup [cmd : {"launched"}, fds : Pairs, room : Nat]

SkynetTypeOK ==
  /\ DOMAIN mbox = Services
  /\ mbox["gate"] \in Seq(GateMsg)
  /\ mbox["queue"] \in Seq(QueueMsg)
  /\ mbox["lobby"] \in Seq(LobbyMsg)

SkynetInit == mbox = [s \in Services |-> <<>>]

\* Service s has the message m for command c at the head of its mailbox.
Heads(s, c) == mbox[s] # <<>> /\ Head(mbox[s]).cmd = c

\* The mailboxes once s has taken its message, and once ms is sent to t.
Taken(s) == [mbox EXCEPT ![s] = Tail(@)]

SentTo(boxes, t, ms) == [boxes EXCEPT ![t] = @ \o ms]

Pending(s, m) == \E i \in 1..Len(mbox[s]) : mbox[s][i] = m
=============================================================================
