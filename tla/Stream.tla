------------------------------- MODULE Stream -------------------------------
(***************************************************************************)
(* What the game takes a KCP connection for, in one direction: whole       *)
(* messages come out in the order they were put in, each of them once, and *)
(* none that was put in stays away for ever.                               *)
(***************************************************************************)
EXTENDS Naturals, Sequences

CONSTANT Messages

VARIABLES
  sent,  \* the messages put in so far
  got    \* the messages taken out so far

vars == <<sent, got>>

Init == sent = <<>> /\ got = <<>>

Put ==
  /\ \E m \in Messages : sent' = Append(sent, m)
  /\ UNCHANGED got

Take ==
  /\ Len(got) < Len(sent)
  /\ got' = Append(got, sent[Len(got) + 1])
  /\ UNCHANGED sent

Next == Put \/ Take
Spec == Init /\ [][Next]_vars

FairSpec == Spec /\ WF_vars(Take)
=============================================================================
