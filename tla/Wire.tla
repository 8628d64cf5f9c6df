-------------------------------- MODULE Wire --------------------------------
(***************************************************************************)
(* What a room and the two phones of its match share: the connections.     *)
(*                                                                         *)
(* up[p] carries what phone p sent and the room has not handled yet: the   *)
(* path is p's KCP stream, the gate's Recv loop, the lobby's mailbox and   *)
(* the room's mailbox, each of them first-in first-out and none of them    *)
(* reordering one player's messages.  down[p] carries what the room sent   *)
(* to p and p's Client.Update has not dispatched yet: the gate's mailbox   *)
(* and p's KCP stream back.  KCP itself is below this module: here a       *)
(* connection delivers in order, after any delay, until it is gone.        *)
(***************************************************************************)
EXTENDS Integers, Sequences

CONSTANTS
  Players,     \* the two fds of the room
  MaxFrame     \* bound: a phone stops after this many play frames

ASSUME MaxFrameAssumption == MaxFrame \in Nat

VARIABLES
  up,          \* [Players -> Seq(messages to the room)]
  down,        \* [Players -> Seq(messages to the phone)]
  connected    \* [Players -> BOOLEAN], FALSE once the phone is gone

wireVars == <<up, down, connected>>

(***************************************************************************)
(* The payload of an input (movingValue, willElaste) is what the player    *)
(* did up to the play frame it was sent in; it is represented by that      *)
(* frame's number.  A PlayData maps every player to the input it holds for *)
(* that player, NoInput standing for an fd that is not among its addrs.    *)
(***************************************************************************)
NoInput  == 0
NoInputs == [p \in Players |-> NoInput]
PlayData == [Players -> Nat]

InputMsg(f)      == [kind |-> "input", frame |-> f]
ComparisonMsg(f, c) == [kind |-> "comparison", frame |-> f, content |-> c]
StartMsg         == [kind |-> "start"]
PlayMsg(d)       == [kind |-> "play", data |-> d]

\* What Judge.Comparison prints is a function of the simulation, and the
\* simulation is determined by the ticks run and the PlayData applied.
Content == [ticks : Nat, applied : Seq(PlayData)]

UpMsg   == [kind : {"input"}, frame : Nat]
             \cup [kind : {"comparison"}, frame : Nat, content : Content]
DownMsg == {StartMsg} \cup [kind : {"play"}, data : PlayData]

WireTypeOK ==
  /\ up \in [Players -> Seq(UpMsg)]
  /\ down \in [Players -> Seq(DownMsg)]
  /\ connected \in [Players -> BOOLEAN]

WireInit ==
  /\ up = [p \in Players |-> <<>>]
  /\ down = [p \in Players |-> <<>>]
  /\ connected = [p \in Players |-> TRUE]

\* What a message for the players of the room does to their connections: a
\* fd without an agent is skipped.
Delivered(m) ==
  [p \in Players |-> IF connected[p] THEN Append(down[p], m) ELSE down[p]]
=============================================================================
