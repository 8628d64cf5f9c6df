------------------------------ MODULE Mailbox -------------------------------
(***************************************************************************)
(* What the services of the game rely on, with no thread, lock, reference  *)
(* or queue of queues in it: a service has a box, its messages are taken   *)
(* in the order they came in and one at a time, none before the service    *)
(* is initialised, and none is lost: those that a service leaves behind    *)
(* when it is gone are answered with an error to whoever sent them.        *)
(***************************************************************************)
EXTENDS Naturals, Sequences

CONSTANTS Contexts, Numbers

\* A message: the service it is from (0: none), its number, and whether it
\* is the error that answers the message of that number.
Message == [from : Contexts \cup {0}, n : Numbers, error : BOOLEAN]

VARIABLES
  box,      \* [Contexts -> messages that wait]
  busy,     \* [Contexts -> the service is in its callback]
  status,   \* [Contexts -> none, starting, open, closed or dead]
  answers,  \* errors on their way: records of a message and its receiver
  stopped   \* the node has stopped: nobody needs to take messages any more

vars == <<box, busy, status, answers, stopped>>

\* The one answer to a message that nobody will take.
ErrorTo(m, c) == [to |-> m.from, m |-> [from |-> c, n |-> m.n, error |-> TRUE]]

-----------------------------------------------------------------------------
Init ==
  /\ status \in [Contexts -> {"none", "open"}]
  /\ box = [c \in Contexts |-> <<>>]
  /\ busy = [c \in Contexts |-> FALSE]
  /\ answers = {}
  /\ stopped = FALSE

Begin(c) ==
  /\ status[c] = "none"
  /\ status' = [status EXCEPT ![c] = "starting"]
  /\ UNCHANGED <<box, busy, answers, stopped>>

Accept(c) ==
  /\ status[c] \notin {"none", "dead"}
  /\ \E m \in Message : ~m.error /\ box' = [box EXCEPT ![c] = Append(@, m)]
  /\ UNCHANGED <<busy, status, answers, stopped>>

Open(c) ==
  /\ status[c] = "starting"
  /\ status' = [status EXCEPT ![c] = "open"]
  /\ UNCHANGED <<box, busy, answers, stopped>>

Take(c) ==
  /\ status[c] \in {"open", "closed"}
  /\ ~busy[c]
  /\ box[c] # <<>>
  /\ box' = [box EXCEPT ![c] = Tail(@)]
  /\ busy' = [busy EXCEPT ![c] = TRUE]
  /\ UNCHANGED <<status, answers, stopped>>

Finish(c) ==
  /\ busy[c]
  /\ busy' = [busy EXCEPT ![c] = FALSE]
  /\ UNCHANGED <<box, status, answers, stopped>>

\* The service exits or is killed; the message it is at may still be done.
Close(c) ==
  /\ status[c] \in {"starting", "open"}
  /\ status' = [status EXCEPT ![c] = "closed"]
  /\ UNCHANGED <<box, busy, answers, stopped>>

Die(c) ==
  /\ status[c] \in {"starting", "closed"}
  /\ ~busy[c]
  /\ status' = [status EXCEPT ![c] = "dead"]
  /\ UNCHANGED <<box, busy, answers, stopped>>

\* A message of a dead service is answered, unless its sender is gone too.
Bounce(c) ==
  /\ status[c] = "dead"
  /\ box[c] # <<>>
  /\ box' = [box EXCEPT ![c] = Tail(@)]
  /\ LET m == Head(box[c])
     IN  \/ m.from # 0 /\ answers' = answers \cup {ErrorTo(m, c)}
         \/ (m.from = 0 \/ status[m.from] # "open") /\ UNCHANGED answers
  /\ UNCHANGED <<busy, status, stopped>>

Answer(a) ==
  /\ a \in answers
  /\ answers' = answers \ {a}
  /\ status[a.to] # "dead"
  /\ box' = [box EXCEPT ![a.to] = Append(@, a.m)]
  /\ UNCHANGED <<busy, status, stopped>>

Stop ==
  /\ \A c \in Contexts : status[c] \in {"none", "closed", "dead"}
  /\ stopped' = TRUE
  /\ UNCHANGED <<box, busy, status, answers>>

Next ==
  \/ \E c \in Contexts :
       Begin(c) \/ Accept(c) \/ Open(c) \/ Take(c) \/ Finish(c) \/ Close(c) \/ Die(c) \/ Bounce(c)
  \/ \E a \in answers : Answer(a)
  \/ Stop

Spec == Init /\ [][Next]_vars

\* No message waits for ever, and no callback is left unfinished by the
\* threads; a callback that does not return is the service's own fault.
FairSpec ==
  /\ Spec
  /\ \A c \in Contexts : /\ WF_vars(~stopped /\ (Take(c) \/ Bounce(c)))
                         /\ WF_vars(Finish(c))
  /\ WF_vars(\E a \in answers : Answer(a))
=============================================================================
