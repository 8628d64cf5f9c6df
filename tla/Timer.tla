------------------------------- MODULE Timer --------------------------------
(***************************************************************************)
(* The timers of skynet (skynet_timer.c): a wheel of lists for the near    *)
(* ticks and four levels of coarser lists, from which a list moves down    *)
(* when its time comes near.  The thread of the timer unlocks the wheels   *)
(* while it dispatches, so that other threads may add timers at any point  *)
(* between its steps, but not while a list moves.  Time is a 32-bit        *)
(* counter of Near * Level^4 values and wraps; here the sizes are          *)
(* parameters.                                                             *)
(***************************************************************************)
EXTENDS Integers, Sequences

CONSTANTS
  Near,      \* TIME_NEAR, a power of two
  Level,     \* TIME_LEVEL, a power of two
  MaxTimers, \* bound: timers at a time
  MaxDiff    \* bound: ticks in one skynet_updatetime

ASSUME TimerAssumption ==
  Near \in Nat \ {0} /\ Level \in Nat \ {0, 1} /\ MaxTimers \in Nat /\ MaxDiff \in Nat

\* The ticks that a list of each of the four levels stands for, and those of
\* the whole wheel: all values of the counter.
Span == <<Near, Near * Level, Near * Level * Level, Near * Level * Level * Level,
          Near * Level * Level * Level * Level>>

Word    == Span[5]
Longest == Word \div 2 - 1     \* the longest timeout: int time
Timers  == 1..MaxTimers
Node    == [n : Timers, expire : 0..Word - 1]

\* Where a list is: near (0) or one of the levels t[0] to t[3] (1 to 4), and
\* its index there.
Places == ({0} \X (0..Near - 1)) \cup ((1..4) \X (0..Level - 1))

VARIABLES
  wheel,    \* near and t: [Places -> lists of nodes, in the order of linking]
  time,     \* T->time
  ticks,    \* what is left of the loop of skynet_updatetime
  place,    \* idle; in move_list, locked; in timer_execute at the end of
            \* timer_update
  moving,   \* the rest of the list that move_list adds again
  firing,   \* the list being dispatched, without the lock
  left,     \* history: the ticks each timer not dispatched yet has to wait
  before    \* history: of these timers, which was set before which

vars == <<wheel, time, ticks, place, moving, firing, left, before>>

Init ==
  /\ wheel = [p \in Places |-> <<>>]
  /\ time = 0
  /\ ticks = 0
  /\ place = "idle"
  /\ moving = <<>>
  /\ firing = <<>>
  /\ left = [n \in {} |-> 0]
  /\ before = {}

-----------------------------------------------------------------------------
\* The list of add_node: the one of its tick if that is near, otherwise one
\* of the first level that has no list of the same ticks in a later turn,
\* the last level if there is none.
LevelOf(expire, now) ==
  CHOOSE i \in 0..4 :
    /\ i < 4 => expire \div Span[i + 1] = now \div Span[i + 1]
    /\ \A k \in 1..i : expire \div Span[k] # now \div Span[k]

PlaceOf(expire, now) ==
  LET i == LevelOf(expire, now)
  IN  <<i, IF i = 0 THEN expire % Near ELSE (expire \div Span[i]) % Level>>

\* Faulty form of AddNode: linked before the others.
AddNodeFirst(w, node, now) == [w EXCEPT ![PlaceOf(node.expire, now)] = <<node>> \o @]

\* add_node
AddNode(w, node, now) == [w EXCEPT ![PlaceOf(node.expire, now)] = Append(@, node)]

\* The levels whose turn begins with tick ct: all below are at 0, it is not.
Turning(ct) ==
  {i \in 1..4 : ct % Span[i] = 0 /\ (ct \div Span[i]) % Level # 0}

\* Faulty form of ToMove: nothing is moved when the counter wraps.
ToMoveNoWrap(ct) == {<<i, (ct \div Span[i]) % Level>> : i \in Turning(ct)}

\* The list, if any, that timer_shift moves in tick ct.
ToMove(ct) ==
  IF ct = 0 THEN {<<4, 0>>} ELSE {<<i, (ct \div Span[i]) % Level>> : i \in Turning(ct)}

-----------------------------------------------------------------------------
\* skynet_timeout with a time above 0, by any thread while the wheels are
\* not locked.  With 0 the message is pushed at once and no timer made.
Timeout(d) ==
  /\ place # "move"
  /\ \E n \in Timers \ DOMAIN left :
       /\ 1..n - 1 \subseteq DOMAIN left
       /\ wheel' = AddNode(wheel, [n |-> n, expire |-> (time + d) % Word], time)
       /\ left' = [k \in DOMAIN left \cup {n} |-> IF k = n THEN d ELSE left[k]]
       /\ before' = before \cup {<<k, n>> : k \in DOMAIN left}
  /\ UNCHANGED <<time, ticks, place, moving, firing>>

\* skynet_updatetime: the clock has gone on by d ticks.  One that has gone
\* back, or not at all, changes nothing here.
UpdateTime(d) ==
  /\ ticks = 0 /\ place = "idle"
  /\ ticks' = d
  /\ UNCHANGED <<wheel, time, place, moving, firing, left, before>>

\* timer_update: its first timer_execute finds nothing (skynet_timeout makes
\* no timer of 0 ticks); timer_shift counts the tick and clears the list that
\* is to move.
Shift ==
  /\ place = "idle" /\ ticks > 0
  /\ wheel[<<0, time % Near>>] = <<>>
  /\ time' = (time + 1) % Word
  /\ place' = "move"
  /\ \/ /\ ToMove(time') = {}
        /\ UNCHANGED <<wheel, moving>>
     \/ \E p \in ToMove(time') :
          /\ moving' = wheel[p]
          /\ wheel' = [wheel EXCEPT ![p] = <<>>]
  /\ left' = [n \in DOMAIN left |-> left[n] - 1]
  /\ UNCHANGED <<ticks, firing, before>>

\* move_list: a node of the list is added again.
MoveNode ==
  /\ place = "move" /\ moving # <<>>
  /\ wheel' = AddNode(wheel, Head(moving), time)
  /\ moving' = Tail(moving)
  /\ UNCHANGED <<time, ticks, place, firing, left, before>>

\* timer_execute: the list of the tick is taken off, to be dispatched
\* without the lock.
TakeOff ==
  /\ firing' = wheel[<<0, time % Near>>]
  /\ wheel' = [wheel EXCEPT ![<<0, time % Near>>] = <<>>]
  /\ place' = "execute"

\* The second timer_execute of timer_update, under the lock of timer_shift.
Execute ==
  /\ place = "move" /\ moving = <<>>
  /\ TakeOff
  /\ UNCHANGED <<time, ticks, moving, left, before>>

\* dispatch_list: one event is pushed to its service.
Dispatch ==
  /\ firing # <<>>
  /\ firing' = Tail(firing)
  /\ left' = [n \in DOMAIN left \ {Head(firing).n} |-> left[n]]
  /\ before' = {r \in before : Head(firing).n \notin {r[1], r[2]}}
  /\ UNCHANGED <<wheel, time, ticks, place, moving>>

\* Locked again: what has been added meanwhile, or the end of timer_update.
ExecuteOn ==
  /\ place = "execute" /\ firing = <<>>
  /\ IF wheel[<<0, time % Near>>] # <<>>
       THEN TakeOff /\ UNCHANGED ticks
       ELSE place' = "idle" /\ ticks' = ticks - 1 /\ UNCHANGED <<wheel, firing>>
  /\ UNCHANGED <<time, moving, left, before>>

Next ==
  \/ \E d \in 1..Longest : Timeout(d)
  \/ \E d \in 1..MaxDiff : UpdateTime(d)
  \/ Shift \/ MoveNode \/ Execute \/ Dispatch \/ ExecuteOn

Spec == Init /\ [][Next]_vars

-----------------------------------------------------------------------------
\* Every timer is dispatched in the very tick it was set for, also when its
\* tick lies beyond the wrap of the counter and when it was added between
\* two steps of an update: none is dispatched early, and none is still on
\* the wheel when its time has come.
DueOnTime ==
  place # "move" =>
    \A n \in DOMAIN left : left[n] = 0 <=> \E k \in 1..Len(firing) : firing[k].n = n

\* Timers that are due in the same tick are dispatched in the order they
\* were set, whatever lists and levels they have come through: a service
\* gets its timeouts in the order it asked for them.
InOrder ==
  [][\A n \in DOMAIN left \ DOMAIN left' :
       \A k \in DOMAIN left : <<k, n>> \in before => left[k] # 0]_vars
=============================================================================
