------------------------------ MODULE Service -------------------------------
(***************************************************************************)
(* How skynet runs services (skynet_server.c, skynet_start.c): worker      *)
(* threads take queues from the global queue and call the services back,   *)
(* a callback sends messages, launches services and ends them, and a       *)
(* context lives for as long as it is in the table or somebody holds a     *)
(* reference to it.  One step is what happens under one lock or in one     *)
(* atomic operation.                                                       *)
(*                                                                         *)
(* A thread is in several calls at once, and each has a variable: pc and   *)
(* held for the loop of a worker, op for what its callback is doing, drop  *)
(* for skynet_mq_release, snd for skynet_context_push and rel for          *)
(* delete_context; the innermost one goes on.                              *)
(***************************************************************************)
EXTENDS Mq

CONSTANTS
  Single,     \* the workers with weight -1: one message in a round
  Whole,      \* the workers with weight 0: all that a queue has
  Outside,    \* the threads of timer and socket, which only send
  Started,    \* the contexts 1..Started are there when the workers start
  Launchers,  \* the contexts whose callbacks launch services
  MaxSends,   \* bounds: messages sent,
  MaxKills    \* and contexts ended

Workers == Single \cup Whole
Threads == Workers \cup Outside

\* The services that skynet_start makes fit in the table, and at most one of
\* those that run launches services, as the launcher of the game does.
ASSUME ServiceAssumption ==
  /\ IsFiniteSet(Workers) /\ IsFiniteSet(Outside) /\ Workers \cap Outside = {}
  /\ Contexts \subseteq Nat \ {0} /\ SlotSize \in Nat \ {0}
  /\ Started \in 0..SlotSize /\ 1..Started \subseteq Contexts
  /\ \A a, b \in Launchers : a = b
  /\ MaxSends \in Nat

VARIABLES
  ref, alive, init,  \* of a context: its fields ref and init, and not freed yet
  pc, held,          \* of a worker: where it is, and the queue it has
  rest,              \* the rounds i < n that are left after this message
  op,                \* what a callback is doing
  drop,              \* the queue that skynet_mq_release drops, 0 for none
  snd,               \* the message being pushed
  rel,               \* the context to delete, 0 for none
  quit,              \* monitor.quit
  sends, kills       \* counters for the bounds

ctxVars    == <<ref, alive, init>>
workerVars == <<pc, held, rest, quit>>
callVars   == <<op, drop, snd, rel>>
bounds     == <<sends, kills>>
vars == <<mqVars, handleVars, ctxVars, workerVars, callVars, bounds>>

NoOp  == [kind |-> "none", step |-> "none", c |-> 0, h |-> 0]
\* A callback that has launched c goes on with the pointer to it.
Launched(c) == [NoOp EXCEPT !.kind = "launched", !.step = "report", !.c = c]

NoSnd == [step |-> "none", c |-> 0, m |-> <<>>]

Message(c, n, error) == [from |-> c, n |-> n, error |-> error]

Init ==
  /\ MqInit([i \in 1..Started |-> i])
  /\ HandleInit(Started)
  /\ ref = [c \in Contexts |-> IF c <= Started THEN 1 ELSE 0]
  /\ alive = [c \in Contexts |-> c <= Started]
  /\ init = [c \in Contexts |-> c <= Started]
  /\ pc = [w \in Workers |-> "idle"]
  /\ held = [w \in Workers |-> 0]
  /\ rest = [w \in Workers |-> 0]
  /\ op = [t \in Threads |-> NoOp]
  /\ drop = [t \in Threads |-> 0]
  /\ snd = [t \in Threads |-> NoSnd]
  /\ rel = [t \in Threads |-> 0]
  /\ quit = FALSE
  /\ sends = 0
  /\ kills = 0

\* How deep a thread is in its calls.
NotDeleting(t) == rel[t] = 0
NotPushing(t)  == NotDeleting(t) /\ snd[t] = NoSnd
NotDropping(t) == NotPushing(t) /\ drop[t] = 0
InCallback(t)  == IF t \in Outside THEN op[t] = NoOp /\ NotDropping(t)
                  ELSE pc[t] = "call" /\ op[t] = NoOp /\ NotDropping(t)

-----------------------------------------------------------------------------
\* Faulty form of Release: the context is deleted with a reference too many.
ReleaseEarly(t, c) ==
  /\ ref' = [ref EXCEPT ![c] = @ - 1]
  /\ rel' = IF ref[c] <= 2 THEN [rel EXCEPT ![t] = c] ELSE rel

\* skynet_context_release.
Release(t, c) ==
  /\ ref' = [ref EXCEPT ![c] = @ - 1]
  /\ rel' = IF ref[c] = 1 THEN [rel EXCEPT ![t] = c] ELSE rel

\* delete_context: the queue is marked and the context is gone.
Delete(t) ==
  /\ rel[t] # 0
  /\ MqMarkRelease(rel[t])
  /\ alive' = [alive EXCEPT ![rel[t]] = FALSE]
  /\ rel' = [rel EXCEPT ![t] = 0]
  /\ UNCHANGED <<handleVars, ref, init, workerVars, op, drop, snd, bounds>>

\* skynet_context_push, as far as skynet_handle_grab: the message is
\* refused, or the context is held until it has been pushed.
Grab(t, c, m) ==
  IF Found(c)
    THEN /\ snd' = [snd EXCEPT ![t] = [step |-> "push", c |-> c, m |-> m]]
         /\ ref' = [ref EXCEPT ![c] = @ + 1]
    ELSE UNCHANGED <<snd, ref>>

Push(t) ==
  /\ NotDeleting(t)
  /\ snd[t].step = "push"
  /\ MqPush(snd[t].c, snd[t].m)
  /\ snd' = [snd EXCEPT ![t].step = "release"]
  /\ UNCHANGED <<handleVars, ctxVars, workerVars, op, drop, rel, bounds>>

PushDone(t) ==
  /\ NotDeleting(t)
  /\ snd[t].step = "release"
  /\ Release(t, snd[t].c)
  /\ snd' = [snd EXCEPT ![t] = NoSnd]
  /\ UNCHANGED <<mqVars, handleVars, alive, init, workerVars, op, drop, bounds>>

\* The handle of a service is known once its init has told anybody.
Known(c) ==
  handle[c] # 0 /\ \A t \in Threads : ~(op[t].step = "init" /\ op[t].c = c)

\* skynet_send by a callback, or by the thread of timer or sockets, whose
\* messages have no source to answer.
Send(t, c) ==
  /\ InCallback(t)
  /\ sends < MaxSends
  /\ Known(c) /\ Found(c)
  /\ Grab(t, c, Message(IF t \in Outside THEN 0 ELSE held[t], sends, FALSE))
  /\ sends' = sends + 1
  /\ UNCHANGED <<mqVars, handleVars, alive, init, workerVars, op, drop, rel, kills>>

-----------------------------------------------------------------------------
\* skynet_mq_release and _drop_queue: the queue goes back if its context is
\* not deleted yet; if it is, every message is answered with an error.
ReleaseLater(t) ==
  /\ NotPushing(t)
  /\ drop[t] # 0
  /\ MqReleaseLater(drop[t])
  /\ drop' = [drop EXCEPT ![t] = 0]
  /\ UNCHANGED <<handleVars, ctxVars, workerVars, op, snd, rel, bounds>>

\* Faulty form of DropMessage: nobody is told.
DropSilently(t) ==
  /\ NotPushing(t)
  /\ drop[t] # 0 /\ queue[drop[t]].release
  /\ \E m \in {queue[drop[t]].msgs[i] : i \in 1..Len(queue[drop[t]].msgs)} : MqPop(drop[t], m)
  /\ UNCHANGED <<handleVars, ctxVars, workerVars, callVars, bounds>>

DropMessage(t) ==
  /\ NotPushing(t)
  /\ drop[t] # 0 /\ queue[drop[t]].release
  /\ queue[drop[t]].msgs # <<>>
  /\ LET m == Head(queue[drop[t]].msgs)
     IN  /\ MqPop(drop[t], m)
         /\ IF m.from = 0 THEN UNCHANGED <<snd, ref>>
            ELSE Grab(t, m.from, Message(drop[t], m.n, TRUE))
  /\ UNCHANGED <<handleVars, alive, init, workerVars, op, drop, rel, bounds>>

Dropped(t) ==
  /\ NotPushing(t)
  /\ drop[t] # 0
  /\ MqFree(drop[t])
  /\ drop' = [drop EXCEPT ![t] = 0]
  /\ UNCHANGED <<handleVars, ctxVars, workerVars, op, snd, rel, bounds>>

-----------------------------------------------------------------------------
\* skynet_handle_retire, called by KILL and EXIT and after a failed init.
RetireStart(t, c) ==
  /\ InCallback(t) /\ t \in Workers
  /\ kills < MaxKills
  /\ Known(c)
  /\ Remove(c)
  /\ op' = [op EXCEPT ![t] = [NoOp EXCEPT !.kind = "retire", !.step = "release", !.c = c]]
  /\ kills' = kills + 1
  /\ UNCHANGED <<mqVars, ctxVars, workerVars, drop, snd, rel, sends>>

RetireEnd(t) ==
  /\ NotDropping(t)
  /\ op[t].kind = "retire" /\ op[t].step = "release"
  /\ Release(t, op[t].c)
  /\ op' = [op EXCEPT ![t] = NoOp]
  /\ UNCHANGED <<mqVars, handleVars, alive, init, workerVars, drop, snd, bounds>>

-----------------------------------------------------------------------------
\* skynet_context_new, step by step.
At(t, s) == NotDropping(t) /\ op[t].kind = "launch" /\ op[t].step = s

Goto(t, s) == op' = [op EXCEPT ![t].step = s]

\* The context exists with two references and is in the table, its handle
\* still 0.
Launch(t, c) ==
  /\ InCallback(t) /\ t \in Workers
  /\ held[t] \in Launchers
  /\ ref[c] = 0 /\ ~alive[c] /\ queue[c].state = "none"
  /\ \A d \in Contexts : d < c => alive[d] \/ queue[d].state # "none"
  /\ \E h \in handleIndex..handleIndex + Size :
       /\ Register(c, h)
       /\ op' = [op EXCEPT ![t] = [kind |-> "launch", step |-> "learn", c |-> c, h |-> h]]
  /\ ref' = [ref EXCEPT ![c] = 2]
  /\ alive' = [alive EXCEPT ![c] = TRUE]
  /\ UNCHANGED <<mqVars, init, workerVars, drop, snd, rel, bounds>>

\* ctx->handle is set, and its queue made.
LaunchLearn(t) ==
  /\ At(t, "learn")
  /\ LearnHandle(op[t].c, op[t].h)
  /\ queue' = [queue EXCEPT ![op[t].c] = NewQueue]
  /\ Goto(t, "init")
  /\ UNCHANGED <<global, ctxVars, workerVars, drop, snd, rel, bounds>>

\* skynet_module_instance_init: snlua_init sends its own service the message
\* that "must be first"; other modules may fail.
LaunchInit(t) ==
  /\ At(t, "init")
  /\ MqPush(op[t].c, Message(op[t].c, MaxSends, FALSE))
  /\ Goto(t, "release") \/ Goto(t, "failed")
  /\ UNCHANGED <<handleVars, ctxVars, workerVars, drop, snd, rel, bounds>>

\* After the init: the launcher's reference goes, and the queue gets into
\* the global one, whoever has ended the service in the meantime.  If the
\* reference was not the last one, ret is the context, which the launcher goes
\* on with: it writes init, though the context may be gone by then, and reads
\* the handle once the queue is in the global one.
LaunchRelease(t) ==
  /\ At(t, "release")
  /\ Release(t, op[t].c)
  /\ Goto(t, IF ref[op[t].c] = 1 THEN "pushGone" ELSE "ready")
  /\ UNCHANGED <<mqVars, handleVars, alive, init, workerVars, drop, snd, bounds>>

LaunchReady(t) ==
  /\ At(t, "ready")
  /\ init' = [init EXCEPT ![op[t].c] = TRUE]
  /\ Goto(t, "push")
  /\ UNCHANGED <<mqVars, handleVars, ref, alive, workerVars, drop, snd, rel, bounds>>

LaunchPush(t) ==
  /\ At(t, "push") \/ At(t, "pushGone")
  /\ GlobalPush(op[t].c)
  /\ op' = [op EXCEPT ![t] = IF op[t].step = "push" THEN Launched(op[t].c) ELSE NoOp]
  /\ UNCHANGED <<queue, handleVars, ctxVars, workerVars, drop, snd, rel, bounds>>

\* skynet_error(ret, ...), and cmd_launch with what it was given: both read
\* the handle of the context.
LaunchReport(t) ==
  /\ NotDropping(t)
  /\ op[t].kind = "launched"
  /\ op' = [op EXCEPT ![t] = NoOp]
  /\ UNCHANGED <<mqVars, handleVars, ctxVars, workerVars, drop, snd, rel, bounds>>

\* The init has failed: release, retire, and the queue is dropped.
LaunchFailed(t) ==
  /\ At(t, "failed")
  /\ Release(t, op[t].c)
  /\ Goto(t, "retire")
  /\ UNCHANGED <<mqVars, handleVars, alive, init, workerVars, drop, snd, bounds>>

LaunchRetire(t) ==
  /\ At(t, "retire")
  /\ IF Found(op[t].c) THEN Remove(op[t].c) /\ Goto(t, "retired")
     ELSE Goto(t, "drop") /\ UNCHANGED handleVars
  /\ UNCHANGED <<mqVars, ctxVars, workerVars, drop, snd, rel, bounds>>

LaunchRetired(t) ==
  /\ At(t, "retired")
  /\ Release(t, op[t].c)
  /\ Goto(t, "drop")
  /\ UNCHANGED <<mqVars, handleVars, alive, init, workerVars, drop, snd, bounds>>

LaunchDrop(t) ==
  /\ At(t, "drop")
  /\ drop' = [drop EXCEPT ![t] = op[t].c]
  /\ op' = [op EXCEPT ![t] = NoOp]
  /\ UNCHANGED <<mqVars, handleVars, ctxVars, workerVars, snd, rel, bounds>>

LaunchStep(t) ==
  \/ LaunchLearn(t) \/ LaunchInit(t) \/ LaunchRelease(t) \/ LaunchReady(t)
  \/ LaunchPush(t) \/ LaunchReport(t) \/ LaunchFailed(t) \/ LaunchRetire(t) \/ LaunchRetired(t) \/ LaunchDrop(t)

-----------------------------------------------------------------------------
\* The loop of a worker, thread_worker with skynet_context_message_dispatch.
WorkerAt(w, s) == pc[w] = s /\ NotDropping(w) /\ op[w] = NoOp

To(w, s) == pc' = [pc EXCEPT ![w] = s]

\* Nothing in its hands: a queue from the global one, or to sleep.
Fetch(w) ==
  /\ WorkerAt(w, "idle") /\ held[w] = 0 /\ ~quit
  /\ \/ \E c \in Contexts : GlobalPop(c) /\ held' = [held EXCEPT ![w] = c] /\ To(w, "grab")
     \/ global = <<>> /\ To(w, "tired") /\ UNCHANGED <<held, global>>
  /\ UNCHANGED <<queue, handleVars, ctxVars, rest, quit, callVars, bounds>>

\* The queue it has kept from the last round.
Again(w) ==
  /\ WorkerAt(w, "idle") /\ held[w] # 0 /\ ~quit
  /\ To(w, "grab")
  /\ UNCHANGED <<mqVars, handleVars, ctxVars, held, rest, quit, callVars, bounds>>

\* pthread_cond_wait, unless the node has stopped.
Sleep(w) ==
  /\ WorkerAt(w, "tired")
  /\ To(w, IF quit THEN "idle" ELSE "asleep")
  /\ UNCHANGED <<mqVars, handleVars, ctxVars, held, rest, quit, callVars, bounds>>

Leave(w) ==
  /\ WorkerAt(w, "idle") /\ quit
  /\ To(w, "over")
  /\ UNCHANGED <<mqVars, handleVars, ctxVars, held, rest, quit, callVars, bounds>>

\* The context of the queue; without one the queue is to be dropped.
GrabContext(w) ==
  /\ WorkerAt(w, "grab")
  /\ IF Found(held[w])
       THEN /\ ref' = [ref EXCEPT ![held[w]] = @ + 1]
            /\ To(w, "first")
            /\ UNCHANGED <<held, drop>>
       ELSE /\ drop' = [drop EXCEPT ![w] = held[w]]
            /\ held' = [held EXCEPT ![w] = 0]
            /\ To(w, "idle")
            /\ UNCHANGED ref
  /\ UNCHANGED <<mqVars, handleVars, alive, init, rest, quit, op, snd, rel, bounds>>

\* The first message of a round, or the next one.
PopMessage(w) ==
  /\ WorkerAt(w, "first") \/ WorkerAt(w, "next")
  /\ \E m \in {queue[held[w]].msgs[i] : i \in 1..Len(queue[held[w]].msgs)} : MqPop(held[w], m)
  /\ IF pc[w] = "first" /\ w \in Whole THEN To(w, "length") /\ UNCHANGED rest
     ELSE To(w, "call") /\ rest' = [rest EXCEPT ![w] = IF pc[w] = "first" THEN 0 ELSE @ - 1]
  /\ UNCHANGED <<handleVars, ctxVars, held, quit, callVars, bounds>>

\* n = skynet_mq_length(q) >> 0, of which this message was one.
ReadLength(w) ==
  /\ WorkerAt(w, "length")
  /\ LET n == Len(queue[held[w]].msgs)
     IN  rest' = [rest EXCEPT ![w] = IF n = 0 THEN 0 ELSE n - 1]
  /\ To(w, "call")
  /\ UNCHANGED <<mqVars, handleVars, ctxVars, held, quit, callVars, bounds>>

\* The callback has returned.
Return(w) ==
  /\ WorkerAt(w, "call")
  /\ To(w, IF rest[w] > 0 THEN "next" ELSE "look")
  /\ UNCHANGED <<mqVars, handleVars, ctxVars, held, rest, quit, callVars, bounds>>

\* No message: the queue is out of the worker's hands with this.
PopNothing(w) ==
  /\ WorkerAt(w, "first") \/ WorkerAt(w, "next")
  /\ MqPopEmpty(held[w])
  /\ To(w, "empty")
  /\ UNCHANGED <<handleVars, ctxVars, held, rest, quit, callVars, bounds>>

LetGo(w) ==
  /\ WorkerAt(w, "empty")
  /\ Release(w, held[w])
  /\ held' = [held EXCEPT ![w] = 0]
  /\ To(w, "idle")
  /\ UNCHANGED <<mqVars, handleVars, alive, init, rest, quit, op, drop, snd, bounds>>

\* After a round: if another queue waits this one goes to the end of the
\* global queue, else it is kept.  rest holds the other queue meanwhile.
Look(w) ==
  /\ WorkerAt(w, "look")
  /\ \/ \E c \in Contexts : GlobalPop(c) /\ rest' = [rest EXCEPT ![w] = c] /\ To(w, "swap")
     \/ global = <<>> /\ To(w, "keep") /\ UNCHANGED <<rest, global>>
  /\ UNCHANGED <<queue, handleVars, ctxVars, held, quit, callVars, bounds>>

Swap(w) ==
  /\ WorkerAt(w, "swap")
  /\ GlobalPush(held[w])
  /\ To(w, "keep")
  /\ UNCHANGED <<queue, handleVars, ctxVars, held, rest, quit, callVars, bounds>>

\* The context is released at last, and the loop goes on with rest or held.
Keep(w) ==
  /\ WorkerAt(w, "keep")
  /\ Release(w, held[w])
  /\ held' = [held EXCEPT ![w] = IF rest[w] # 0 THEN rest[w] ELSE @]
  /\ rest' = [rest EXCEPT ![w] = 0]
  /\ To(w, "idle")
  /\ UNCHANGED <<mqVars, handleVars, alive, init, quit, op, drop, snd, bounds>>

WorkerStep(w) ==
  \/ Fetch(w) \/ Again(w) \/ Sleep(w) \/ Leave(w) \/ GrabContext(w)
  \/ PopMessage(w) \/ ReadLength(w) \/ Return(w) \/ PopNothing(w)
  \/ LetGo(w) \/ Look(w) \/ Swap(w) \/ Keep(w)

\* What goes on once it has begun, in a callback or below it.
CallStep(t) ==
  \/ Delete(t) \/ Push(t) \/ PushDone(t)
  \/ ReleaseLater(t) \/ DropMessage(t) \/ Dropped(t)
  \/ RetireEnd(t) \/ LaunchStep(t)

\* What a callback may do, or leave.
Callback(t) ==
  \/ \E c \in Contexts : Send(t, c)
  \/ \E c \in Contexts : RetireStart(t, c) \/ Launch(t, c)

-----------------------------------------------------------------------------
\* thread_timer: one sleeping worker is woken, again and again; once there
\* is no context left, all of them are, to stop.
Wake ==
  /\ \E w \in Workers : pc[w] = "asleep" /\ To(w, "idle")
  /\ ~quit
  /\ UNCHANGED <<mqVars, handleVars, ctxVars, held, rest, quit, callVars, bounds>>

Quit ==
  /\ ~quit
  /\ \A c \in Contexts : ~alive[c]
  /\ quit' = TRUE
  /\ pc' = [w \in Workers |-> IF pc[w] = "asleep" THEN "idle" ELSE pc[w]]
  /\ UNCHANGED <<mqVars, handleVars, ctxVars, held, rest, callVars, bounds>>

Next ==
  \/ \E w \in Workers : WorkerStep(w)
  \/ \E t \in Threads : CallStep(t) \/ Callback(t)
  \/ Wake
  \/ Quit

Spec == Init /\ [][Next]_vars

\* Every thread goes on, also while a callback could do more: it returns.
FairSpec ==
  /\ Spec
  /\ \A w \in Workers : WF_vars(WorkerStep(w) \/ CallStep(w))
  /\ \A t \in Outside : WF_vars(CallStep(t))
  /\ WF_vars(Wake)
  /\ WF_vars(Quit)

-----------------------------------------------------------------------------
\* The places of a queue: its entries in the global queue, and the threads
\* that have it in their hands.
InHands(c) ==
  {w \in Workers : held[w] = c /\ pc[w] \notin {"empty", "keep"}}
   \cup {w \in Workers : held[w] = c /\ pc[w] = "keep" /\ rest[w] = 0}
   \cup {w \in Workers : pc[w] \in {"swap", "keep"} /\ rest[w] = c}

Launching(c) == {t \in Threads : op[t].kind = "launch" /\ op[t].c = c}

Dropping(c) == {t \in Threads : drop[t] = c}

InGlobal(c) == {i \in 1..Len(global) : global[i] = c}

Places(c) ==
  Cardinality(InGlobal(c)) + Cardinality(InHands(c)) + Cardinality(Launching(c))
    + Cardinality(Dropping(c))

\* A queue that says so, or is to be released, is in exactly one place, and
\* one that does not is in none and has no message that would be forgotten
\* (skynet_mq.c: "0 means mq is not in global mq. 1 means mq is in global mq,
\* or the message is dispatching").  One worker at a time follows, and that
\* a queue is freed once.
OnePlace ==
  \A c \in Contexts :
    CASE queue[c].state = "live" ->
           IF queue[c].inGlobal \/ queue[c].release THEN Places(c) = 1
           ELSE Places(c) = 0 /\ queue[c].msgs = <<>>
      [] queue[c].state = "freed" -> Places(c) = 0
      [] OTHER -> InGlobal(c) = {} /\ InHands(c) = {} /\ Dropping(c) = {}

\* Who counts in a context's ref: the table, workers at a message, calls.
InTable(c) == {i \in DOMAIN slot : slot[i] = c}

Working(c) ==
  {w \in Workers : held[w] = c /\
     pc[w] \in {"first", "next", "length", "call", "look", "swap", "keep", "empty"}}

Pushing(c) == {t \in Threads : snd[t].c = c}

Ending(c) ==
  {t \in Threads : op[t].c = c /\ \/ op[t].kind = "retire"
                                  \/ op[t].step \in {"learn", "init", "release", "failed", "retired"}}

Counted(c) ==
  Cardinality(InTable(c)) + Cardinality(Working(c)) + Cardinality(Pushing(c))
    + Cardinality(Ending(c))

Deleting(c) == {t \in Threads : rel[t] = c}

\* Who uses a context by a reference, or to delete it; and the launcher that
\* goes on with one whose reference it has given back.
Using(c) == Working(c) \cup Pushing(c) \cup Ending(c) \cup Deleting(c)

Trusting(c) ==
  {t \in Threads : op[t].c = c /\ \/ op[t].kind = "launch" /\ op[t].step \in {"ready", "push"}
                                  \/ op[t].kind = "launched"}

\* ref counts the references, so that whoever uses a context by one finds it
\* there, and the one who gives the last reference back deletes it, once; no
\* callback runs before the init is over.  The launcher alone goes on without
\* a reference, and what it uses is there as long as nobody has ended the
\* service.
Lifetimes ==
  \A c \in Contexts :
    /\ ref[c] = Counted(c)
    /\ Using(c) # {} => alive[c]
    /\ Cardinality(Deleting(c)) = IF alive[c] /\ ref[c] = 0 THEN 1 ELSE 0
    /\ InTable(c) # {} => alive[c]
    /\ Working(c) # {} => init[c]

\* No thread ever uses a context whose memory is free, the launcher included.
\* This needs the one worker of src/config (thread = 1): with two, a service
\* may have come to its end when skynet_context_new sets its init, or when
\* cmd_launch reads its handle.
UsedWhileAlive == \A c \in Contexts : Using(c) \cup Trusting(c) # {} => alive[c]

-----------------------------------------------------------------------------
\* What the services see: the boxes of Mailbox.
boxOf == [c \in Contexts |-> queue[c].msgs]

busyOf == [c \in Contexts |-> \E w \in Workers : held[w] = c /\ pc[w] \in {"length", "call"}]

statusOf ==
  [c \in Contexts |->
     CASE queue[c].state = "none" -> "none"
       [] queue[c].state # "none" /\ queue[c].release -> "dead"
       [] queue[c].state # "none" /\ ~queue[c].release /\ Found(c) /\ ~init[c] -> "starting"
       [] queue[c].state # "none" /\ ~queue[c].release /\ Found(c) /\ init[c] -> "open"
       [] OTHER -> "closed"]

answersOf ==
  {[to |-> snd[t].c, m |-> snd[t].m] :
     t \in {u \in Threads : snd[u].step = "push" /\ snd[u].m.error}}

Boxes == INSTANCE Mailbox WITH
  Contexts <- Contexts, Numbers <- 0..MaxSends,
  box <- boxOf, busy <- busyOf, status <- statusOf, answers <- answersOf, stopped <- quit

\* The threads implement the boxes: nothing is lost, doubled or overtaken,
\* one message of a service at a time, and every message comes to its end.
ImplementsMailbox == Boxes!FairSpec
=============================================================================
