------------------------------- MODULE Handle -------------------------------
(***************************************************************************)
(* The table of services (skynet_handle.c): handles are given out in       *)
(* order, a context is in the slot of its handle modulo the table's size,  *)
(* and the table is doubled when it is full.  A context learns its handle  *)
(* from the caller of skynet_handle_register, after the table's lock has   *)
(* been released: until then its handle is 0.                              *)
(***************************************************************************)
EXTENDS Naturals, FiniteSets

CONSTANTS
  Contexts,   \* the numbers, from 1, of the contexts that may be made
  SlotSize    \* the size of the table at the start

VARIABLES
  slot,         \* [0..slot_size - 1 -> a context, or 0]
  handleIndex,  \* handle_index: the next handle to try
  handle        \* [Contexts -> its handle, 0 until it is known]

handleVars == <<slot, handleIndex, handle>>

Size == Cardinality(DOMAIN slot)

\* The contexts 1..n have registered one after the other, with room for them.
HandleInit(n) ==
  /\ slot = [i \in 0..SlotSize - 1 |->
               IF \E c \in 1..n : c % SlotSize = i
               THEN CHOOSE c \in 1..n : c % SlotSize = i ELSE 0]
  /\ handleIndex = n + 1
  /\ handle = [c \in Contexts |-> IF c \in 1..n THEN c ELSE 0]

-----------------------------------------------------------------------------
\* Where the expansion puts a context: by the handle it has by now.
Rehash(c) == handle[c] % (2 * Size)

\* Of two that meet in one slot the loop's later one stays; in a build with
\* assertions the program would stop before.
Doubled ==
  [j \in 0..2 * Size - 1 |->
     LET here == {i \in DOMAIN slot : slot[i] # 0 /\ Rehash(slot[i]) = j}
     IN  IF here = {} THEN 0 ELSE slot[CHOOSE i \in here : \A k \in here : k <= i]]

\* The first handle from handle_index on whose slot is free.
FreeHandles(table) ==
  {h \in handleIndex..handleIndex + Cardinality(DOMAIN table) - 1 :
     table[h % Cardinality(DOMAIN table)] = 0}

FirstFree(table) == CHOOSE h \in FreeHandles(table) : \A k \in FreeHandles(table) : h <= k

\* skynet_handle_register under its lock; h is what it returns.
Register(c, h) ==
  LET table == IF FreeHandles(slot) # {} THEN slot ELSE Doubled
  IN  /\ h = FirstFree(table)
      /\ slot' = [table EXCEPT ![h % Cardinality(DOMAIN table)] = c]
      /\ handleIndex' = h + 1
      /\ UNCHANGED handle

\* The caller's assignment of what skynet_handle_register returned.
LearnHandle(c, h) ==
  /\ handle' = [handle EXCEPT ![c] = h]
  /\ UNCHANGED <<slot, handleIndex>>

\* skynet_handle_grab of c's handle finds c.
Found(c) == handle[c] # 0 /\ slot[handle[c] % Size] = c

\* skynet_handle_retire under its lock.
Remove(c) ==
  /\ Found(c)
  /\ slot' = [slot EXCEPT ![handle[c] % Size] = 0]
  /\ UNCHANGED <<handleIndex, handle>>
=============================================================================
