------------------------------ MODULE Launches ------------------------------
(***************************************************************************)
(* The table of services under threads that launch services at the same    *)
(* time, and services that end: skynet_context_new and                     *)
(* skynet_handle_retire as far as the table knows.  Service restricts      *)
(* launches to one at a time, as the launcher of the game does; the C      *)
(* interface allows any thread to launch.                                  *)
(***************************************************************************)
EXTENDS Handle

CONSTANT Threads

VARIABLE launching   \* [Threads -> the context and handle it has registered]

vars == <<handleVars, launching>>

NoLaunch == [c |-> 0, h |-> 0]

Init == HandleInit(SlotSize - 1) /\ launching = [t \in Threads |-> NoLaunch]

\* skynet_handle_register; a context is made once.
New(t, c) ==
  /\ launching[t] = NoLaunch
  /\ handle[c] = 0 /\ \A u \in Threads : launching[u].c # c
  /\ \E h \in handleIndex..handleIndex + Size :
        Register(c, h) /\ launching' = [launching EXCEPT ![t] = [c |-> c, h |-> h]]

\* ctx->handle = ...
Known(t) ==
  /\ launching[t] # NoLaunch
  /\ LearnHandle(launching[t].c, launching[t].h)
  /\ launching' = [launching EXCEPT ![t] = NoLaunch]

\* A service exits or is killed.
Retire(c) == Remove(c) /\ UNCHANGED launching

Next ==
  \/ \E t \in Threads : Known(t) \/ \E c \in Contexts : New(t, c)
  \/ \E c \in Contexts : Retire(c)

Spec == Init /\ [][Next]_vars

-----------------------------------------------------------------------------
\* What the expansion of the table asserts of every context it moves,
\* "assert(new_slot[hash] == NULL)": its new slot is not taken, so all are
\* still in the table afterwards.
NewSlotFree ==
  [][Size' > Size =>
       {slot[i] : i \in DOMAIN slot} \subseteq {slot'[i] : i \in DOMAIN slot'}]_vars
=============================================================================
