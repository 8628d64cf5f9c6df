--------------------------------- MODULE Mq ---------------------------------
(***************************************************************************)
(* The mailboxes of skynet (skynet_mq.c): one queue of messages for each   *)
(* service, and the global queue, a list of those queues that the worker   *)
(* threads take their work from.  A queue has the number of the context it *)
(* was made for; numbers are not used again.  Every operation here runs    *)
(* under the spin locks of what it touches and is one step; the circular   *)
(* buffer that grows when it is full is a sequence.                        *)
(***************************************************************************)
EXTENDS Handle, Sequences

VARIABLES
  global,  \* the global queue: a sequence of queues
  queue    \* [Contexts -> a queue]

mqVars == <<global, queue>>

\* inGlobal is "in global mq, or the message is dispatching"; release asks
\* whoever takes the queue next to drop it.
NoQueue == [state |-> "none", msgs |-> <<>>, inGlobal |-> FALSE, release |-> FALSE]

\* A new queue is not in the global one, but says so until its service has
\* been initialised.
NewQueue == [NoQueue EXCEPT !.state = "live", !.inGlobal = TRUE]

\* The services of skynet_start have been pushed and nobody has taken them.
MqInit(started) ==
  /\ global = [i \in 1..Len(started) |-> started[i]]
  /\ queue = [c \in Contexts |->
                IF \E i \in 1..Len(started) : started[i] = c THEN NewQueue ELSE NoQueue]

-----------------------------------------------------------------------------
GlobalPush(c) == global' = Append(global, c)

\* The worker gets the first queue, or none.
GlobalPop(c) == global # <<>> /\ c = Head(global) /\ global' = Tail(global)

\* skynet_mq_pop of a queue that has messages, and of one that has none.
MqPop(c, m) ==
  /\ queue[c].msgs # <<>>
  /\ m = Head(queue[c].msgs)
  /\ queue' = [queue EXCEPT ![c].msgs = Tail(@)]
  /\ UNCHANGED global

MqPopEmpty(c) ==
  /\ queue[c].msgs = <<>>
  /\ queue' = [queue EXCEPT ![c].inGlobal = FALSE]
  /\ UNCHANGED global

MqPush(c, m) ==
  /\ queue' = [queue EXCEPT ![c].msgs = Append(@, m), ![c].inGlobal = TRUE]
  /\ IF queue[c].inGlobal THEN UNCHANGED global ELSE GlobalPush(c)

\* Faulty form of MqMarkRelease: the queue is pushed wherever it is.
MqMarkPushes(c) ==
  /\ queue' = [queue EXCEPT ![c].release = TRUE]
  /\ GlobalPush(c)

MqMarkRelease(c) ==
  /\ queue' = [queue EXCEPT ![c].release = TRUE]
  /\ IF queue[c].inGlobal THEN UNCHANGED global ELSE GlobalPush(c)

\* skynet_mq_release before its context is deleted: somebody still uses it,
\* so the queue goes round again.
MqReleaseLater(c) ==
  /\ ~queue[c].release
  /\ GlobalPush(c)
  /\ UNCHANGED queue

\* The end of _drop_queue.
MqFree(c) ==
  /\ queue[c].release
  /\ queue[c].msgs = <<>>
  /\ queue' = [queue EXCEPT ![c].state = "freed", ![c].inGlobal = FALSE]
  /\ UNCHANGED global
=============================================================================
