------------------------------ MODULE FrameLog ------------------------------
(***************************************************************************)
(* What a match promises, with no room, clock or connection in it: there   *)
(* is one sequence of PlayData, it only grows, and every phone reads it    *)
(* from its first element, in order and without a gap.  A new element      *)
(* holds at least one input made for the frame it decides; an input is     *)
(* used at most once, a player's inputs in the order they were made, and   *)
(* none before its player had read every element the input follows.        *)
(***************************************************************************)
EXTENDS Integers, Sequences

CONSTANT Players

VARIABLES
  log,    \* the PlayData decided so far
  seen    \* [Players -> how many of them the player has read]

vars == <<log, seen>>

NoInput == 0

\* The input of p that d holds, if any, is newer than all used before it.
Fresh(d, p) ==
  d[p] # NoInput => \A i \in 1..Len(log) : log[i][p] < d[p]

Init ==
  /\ log = <<[p \in Players |-> NoInput]>>
  /\ seen = [p \in Players |-> 0]

Decide ==
  \E d \in [Players -> 0..Len(log)] :
     /\ \A p \in Players : Fresh(d, p) /\ d[p] <= seen[p]
     /\ \E p \in Players : d[p] = Len(log)
     /\ log' = Append(log, d)
     /\ UNCHANGED seen

Read(p) ==
  /\ seen[p] < Len(log)
  /\ seen' = [seen EXCEPT ![p] = @ + 1]
  /\ UNCHANGED log

Next == Decide \/ \E p \in Players : Read(p)

Spec == Init /\ [][Next]_vars
=============================================================================
