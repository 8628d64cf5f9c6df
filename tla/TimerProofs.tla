---------------------------- MODULE TimerProofs -----------------------------
(***************************************************************************)
(* What is proved of Timer for wheels of any size, any number of timers    *)
(* and any timeouts: each is dispatched in its tick (InTime), those of one *)
(* tick in the order they were set (InTurn), and the first timer_execute   *)
(* of timer_update never finds a list (NothingMissed).                     *)
(*                                                                         *)
(* The heart is Stays: when the counter goes on by one tick, every list    *)
(* but the one that timer_shift moves is still the list that add_node      *)
(* would choose for what it holds, also across the wrap.  So a list is     *)
(* always the right one for all its nodes (OnWheel), what expires in the   *)
(* same tick is in one list, and that of the current tick holds what is    *)
(* due and nothing else.  The order is kept because a list moves from its  *)
(* first node on, and because no node is already in the list of another    *)
(* level when those that expire with it move there (Ordered).              *)
(***************************************************************************)
EXTENDS Timer, SequenceTheorems, TLAPS

\* Division with a remainder, by any positive number.
LEMMA DivMod ==
  ASSUME NEW x \in Nat, NEW D \in Nat \ {0}
  PROVE  /\ x \div D \in Nat /\ x % D \in 0..D - 1
         /\ x = D * (x \div D) + (x % D)
OBVIOUS

LEMMA DivIs ==
  ASSUME NEW x \in Nat, NEW D \in Nat \ {0}, NEW q \in Nat, D * q <= x, x < D * q + D
  PROVE  x \div D = q
<1> DEFINE p == x \div D
<1>1. p \in Nat /\ D * p <= x /\ x < D * p + D
  BY DivMod
<1> HIDE DEF p
<1>2. ~(p > q)
  <2> SUFFICES ASSUME p > q PROVE FALSE
    OBVIOUS
  <2>1. p >= q + 1
    BY <1>1
  <2>2. D * p >= D * (q + 1)
    BY <1>1, <2>1
  <2>3. D * (q + 1) = D * q + D
    OBVIOUS
  <2> QED
    BY <1>1, <2>2, <2>3
<1>3. ~(q > p)
  <2> SUFFICES ASSUME q > p PROVE FALSE
    OBVIOUS
  <2>1. q >= p + 1
    BY <1>1
  <2>2. D * q >= D * (p + 1)
    BY <1>1, <2>1
  <2>3. D * (p + 1) = D * p + D
    BY <1>1
  <2> QED
    BY <1>1, <2>2, <2>3
<1> QED
  BY <1>1, <1>2, <1>3 DEF p

LEMMA DivMono ==
  ASSUME NEW x \in Nat, NEW y \in Nat, NEW D \in Nat \ {0}, x <= y
  PROVE  x \div D <= y \div D
<1> DEFINE p == x \div D  q == y \div D
<1>1. p \in Nat /\ D * p <= x /\ q \in Nat /\ y < D * q + D
  BY DivMod
<1> HIDE DEF p, q
<1> SUFFICES ASSUME p > q PROVE FALSE
  BY <1>1 DEF p, q
<1>2. p >= q + 1
  BY <1>1
<1>3. D * p >= D * (q + 1)
  BY <1>1, <1>2
<1>4. D * (q + 1) = D * q + D
  BY <1>1
<1> QED
  BY <1>1, <1>3, <1>4

\* The quotient grows by one where the remainder starts again.
LEMMA DivStep ==
  ASSUME NEW x \in Nat, NEW D \in Nat \ {0}
  PROVE  \/ (x + 1) \div D = x \div D
         \/ (x + 1) % D = 0 /\ (x + 1) \div D = x \div D + 1
<1> DEFINE q == x \div D  r == x % D
<1>1. q \in Nat /\ r \in 0..D - 1 /\ x = D * q + r
  BY DivMod
<1> HIDE DEF q, r
<1>2. CASE r + 1 < D
  <2>1. D * q <= x + 1 /\ x + 1 < D * q + D
    BY <1>1, <1>2
  <2>2. (x + 1) \div D = q
    BY <1>1, <2>1, DivIs
  <2> QED
    BY <2>2 DEF q
<1>3. CASE r + 1 = D
  <2>1. D * (q + 1) = D * q + D
    BY <1>1
  <2>2. x + 1 = D * (q + 1)
    BY <1>1, <1>3, <2>1
  <2>3. (x + 1) \div D = q + 1
    BY <1>1, <2>2, DivIs
  <2>4. x + 1 = D * ((x + 1) \div D) + ((x + 1) % D)
    BY DivMod
  <2>5. (x + 1) % D = 0
    BY <1>1, <2>2, <2>3, <2>4
  <2> QED
    BY <2>3, <2>5 DEF q
<1> QED
  BY <1>1, <1>2, <1>3

LEMMA DivDiv ==
  ASSUME NEW x \in Nat, NEW D \in Nat \ {0}, NEW L \in Nat \ {0}
  PROVE  x \div (D * L) = (x \div D) \div L
<1> DEFINE q == x \div D  p == q \div L  r == x % D  s == q % L
<1>1. q \in Nat /\ r \in 0..D - 1 /\ x = D * q + r
  BY DivMod
<1>2. p \in Nat /\ s \in 0..L - 1 /\ q = L * p + s
  <2> HIDE DEF q
  <2> QED
    BY <1>1, DivMod
<1> HIDE DEF q, p, r, s
<1>3. x = D * (L * p + s) + r
  BY <1>1, <1>2
<1>4. D * (L * p + s) = (D * L) * p + D * s
  BY <1>2
<1>5. D * L \in Nat \ {0}
  OBVIOUS
<1>6. D * s \in Nat /\ D * s <= D * (L - 1) /\ D * (L - 1) = D * L - D
  BY <1>2
<1>7. (D * L) * p \in Nat
  BY <1>2, <1>5
<1> DEFINE E == D * L
<1>8. E * p <= x /\ x < E * p + E
  <2> DEFINE a == E * p  b == D * s
  <2>1. a \in Nat /\ b \in Nat /\ b <= E - D /\ x = a + b + r /\ E \in Nat
    BY <1>3, <1>4, <1>5, <1>6, <1>7
  <2> HIDE DEF a, b, E
  <2>2. a <= x /\ x < a + E
    BY <1>1, <2>1
  <2> QED
    BY <2>2 DEF a
<1>9. E \in Nat \ {0}
  BY <1>5
<1> HIDE DEF E
<1>10. x \div E = p
  BY <1>2, <1>8, <1>9, DivIs
<1> QED
  BY <1>10 DEF E, p, q

LEMMA DivBelow ==
  ASSUME NEW x \in Nat, NEW D \in Nat \ {0}, NEW L \in Nat, x < D * L
  PROVE  x \div D < L
<1> DEFINE q == x \div D
<1>1. q \in Nat /\ D * q <= x
  BY DivMod
<1> HIDE DEF q
<1> SUFFICES ASSUME q >= L PROVE FALSE
  BY <1>1 DEF q
<1>2. D * q >= D * L
  BY <1>1
<1> QED
  BY <1>1, <1>2

LEMMA ModDown ==
  ASSUME NEW x \in Nat, NEW D \in Nat \ {0}, NEW L \in Nat \ {0}, x % (D * L) = 0
  PROVE  x % D = 0 /\ (x \div D) % L = 0
<1> DEFINE p == x \div (D * L)
<1>1. D * L \in Nat \ {0}
  OBVIOUS
<1>2. p \in Nat /\ x = (D * L) * p
  <2> DEFINE E == D * L
  <2>1. E \in Nat \ {0} /\ x % E = 0
    BY <1>1
  <2> HIDE DEF E
  <2>2. x \div E \in Nat /\ x = E * (x \div E)
    BY <2>1, DivMod
  <2> QED
    BY <2>2 DEF E
<1> HIDE DEF p
<1>3. (D * L) * p = D * (L * p) /\ L * p \in Nat
  BY <1>2
<1> DEFINE q == L * p
<1>4. q \in Nat /\ x = D * q
  BY <1>2, <1>3
<1> HIDE DEF q
<1>5. x \div D = q
  BY <1>4, DivIs
<1>6. x = D * q + (x % D) /\ x % D \in 0..D - 1
  BY <1>5, DivMod
<1>7. x % D = 0
  <2> DEFINE u == D * q  r == x % D
  <2>1. x = u /\ x = u + r /\ u \in Nat /\ r \in Nat
    BY <1>4, <1>6
  <2> HIDE DEF u, r
  <2>2. r = 0
    BY <2>1
  <2> QED
    BY <2>2 DEF r
<1>8. q \div L = p
  BY <1>2, <1>4, DivIs DEF q
<1>9. q = L * p + (q % L) /\ q % L \in 0..L - 1
  BY <1>4, <1>8, DivMod
<1>10. q % L = 0
  <2> DEFINE u == L * p  r == q % L
  <2>1. q = u /\ q = u + r /\ u \in Nat /\ r \in Nat
    BY <1>3, <1>9 DEF q
  <2> HIDE DEF u, r
  <2>2. r = 0
    BY <2>1
  <2> QED
    BY <2>2 DEF r
<1> QED
  BY <1>5, <1>7, <1>10

-----------------------------------------------------------------------------
\* The turn of a level in which a tick lies.
Turn(x, k) == x \div Span[k]

LEMMA Spans ==
  /\ \A k \in 1..5 : Span[k] \in Nat \ {0}
  /\ Span[1] = Near /\ Word = Span[5]
  /\ \A k \in 1..4 : Span[k + 1] = Span[k] * Level
<1> DEFINE a == Near  b == Near * Level  c == Near * Level * Level
           d == Near * Level * Level * Level  e == Near * Level * Level * Level * Level
<1>1. Near \in Nat \ {0} /\ Level \in Nat \ {0}
  BY TimerAssumption
<1>2. b = a * Level /\ c = b * Level /\ d = c * Level /\ e = d * Level
  OBVIOUS
<1>3. a \in Nat \ {0}
  BY <1>1
<1>4. Span[1] = a /\ Span[2] = b /\ Span[3] = c /\ Span[4] = d /\ Span[5] = e
  BY DEF Span
<1> HIDE DEF a, b, c, d, e
<1>5. b \in Nat \ {0}
  BY <1>1, <1>2, <1>3
<1>6. c \in Nat \ {0}
  BY <1>1, <1>2, <1>5
<1>7. d \in Nat \ {0}
  BY <1>1, <1>2, <1>6
<1>8. e \in Nat \ {0}
  BY <1>1, <1>2, <1>7
<1>9. ASSUME NEW k \in 1..5
      PROVE  Span[k] \in Nat \ {0}
  <2>1. k = 1 \/ k = 2 \/ k = 3 \/ k = 4 \/ k = 5
    OBVIOUS
  <2> QED
    BY <1>3, <1>4, <1>5, <1>6, <1>7, <1>8, <2>1
<1>10. ASSUME NEW k \in 1..4
       PROVE  Span[k + 1] = Span[k] * Level
  <2>1. k = 1 \/ k = 2 \/ k = 3 \/ k = 4
    OBVIOUS
  <2> QED
    BY <1>2, <1>4, <2>1
<1> QED
  BY <1>4, <1>9, <1>10 DEF a, Word

LEMMA TurnIn ==
  ASSUME NEW x \in Nat, NEW k \in 1..5
  PROVE  Turn(x, k) \in Nat
BY Spans, DivMod DEF Turn

LEMMA TurnUp ==
  ASSUME NEW x \in Nat, NEW k \in 1..4
  PROVE  Turn(x, k + 1) = Turn(x, k) \div Level
<1>1. Span[k] \in Nat \ {0} /\ Level \in Nat \ {0} /\ Span[k + 1] = Span[k] * Level
  BY Spans, TimerAssumption
<1> QED
  BY <1>1, DivDiv DEF Turn

\* Ticks of one turn of a level are in one turn of those above.
LEMMA TurnSame ==
  ASSUME NEW x \in Nat, NEW y \in Nat, NEW k \in 1..4, NEW m \in 1..4, k <= m,
         Turn(x, k) = Turn(y, k)
  PROVE  Turn(x, m) = Turn(y, m)
<1>1. \A j \in 1..3 : Turn(x, j) = Turn(y, j) => Turn(x, j + 1) = Turn(y, j + 1)
  <2> TAKE j \in 1..3
  <2>1. Turn(x, j + 1) = Turn(x, j) \div Level /\ Turn(y, j + 1) = Turn(y, j) \div Level
    BY TurnUp
  <2> QED
    BY <2>1
<1>2. /\ Turn(x, 1) = Turn(y, 1) => Turn(x, 2) = Turn(y, 2)
      /\ Turn(x, 2) = Turn(y, 2) => Turn(x, 3) = Turn(y, 3)
      /\ Turn(x, 3) = Turn(y, 3) => Turn(x, 4) = Turn(y, 4)
  BY <1>1
<1>3. /\ k = 1 \/ k = 2 \/ k = 3 \/ k = 4
      /\ m = 1 \/ m = 2 \/ m = 3 \/ m = 4
  OBVIOUS
<1> QED
  BY <1>2, <1>3

LEMMA TurnMono ==
  ASSUME NEW x \in Nat, NEW y \in Nat, NEW k \in 1..5, x <= y
  PROVE  Turn(x, k) <= Turn(y, k)
BY Spans, DivMono DEF Turn

LEMMA TurnStep ==
  ASSUME NEW x \in Nat, NEW k \in 1..4, Turn(x + 1, k) # Turn(x, k)
  PROVE  (x + 1) % Span[k] = 0 /\ Turn(x + 1, k) = Turn(x, k) + 1
<1> DEFINE D == Span[k]
<1>1. D \in Nat \ {0}
  BY Spans
<1>2. Turn(x + 1, k) = (x + 1) \div D /\ Turn(x, k) = x \div D
  BY DEF Turn
<1> HIDE DEF D
<1>3. \/ (x + 1) \div D = x \div D
      \/ (x + 1) % D = 0 /\ (x + 1) \div D = x \div D + 1
  BY <1>1, DivStep
<1> QED
  BY <1>2, <1>3 DEF D

\* Half of the counter apart is another list of the last level.
LEMMA Far ==
  ASSUME NEW x \in Nat, NEW y \in Nat, y + Word \div 2 < x
  PROVE  Turn(x, 4) # Turn(y, 4)
<1> DEFINE D == Span[4]  q == Turn(x, 4)
<1> SUFFICES ASSUME Turn(y, 4) = q PROVE FALSE
  OBVIOUS
<1>1. D \in Nat \ {0} /\ Word = D * Level /\ Level \in Nat /\ Level >= 2
  BY Spans, TimerAssumption
<1>2. q \in Nat /\ x < D * q + D /\ D * q <= y
  <2>1. /\ Turn(x, 4) = x \div D /\ Turn(y, 4) = y \div D
    BY DEF Turn
  <2> HIDE DEF D
  <2>2. /\ x \div D \in Nat /\ x % D \in 0..D - 1 /\ x = D * (x \div D) + (x % D)
        /\ y % D \in 0..D - 1 /\ y = D * (y \div D) + (y % D)
    BY <1>1, DivMod
  <2>3. y \div D = x \div D
    BY <2>1
  <2> DEFINE u == D * (x \div D)
  <2>4. u \in Nat /\ x = u + (x % D) /\ y = u + (y % D)
    BY <1>1, <2>2, <2>3
  <2> HIDE DEF u
  <2>5. x < u + D /\ u <= y
    BY <1>1, <2>2, <2>4
  <2> QED
    BY <2>1, <2>2, <2>5 DEF u
<1> HIDE DEF D, q
<1>3. D * Level >= D * 2 /\ D * Level \in Nat
  BY <1>1
<1>4. D <= Word \div 2
  BY <1>1, <1>3
<1> DEFINE u == D * q
<1>5. u \in Nat
  BY <1>1, <1>2
<1> HIDE DEF u
<1>6. x < u + D /\ u <= y
  BY <1>2 DEF u
<1> QED
  BY <1>1, <1>4, <1>5, <1>6

-----------------------------------------------------------------------------
\* The level i is the one of add_node.
At(e, now, i) ==
  /\ i < 4 => Turn(e, i + 1) = Turn(now, i + 1)
  /\ \A k \in 1..i : Turn(e, k) # Turn(now, k)

LEMMA LevelIn ==
  ASSUME NEW e \in Nat, NEW now \in Nat
  PROVE  LevelOf(e, now) \in 0..4 /\ At(e, now, LevelOf(e, now))
<1> DEFINE same(k) == Turn(e, k) = Turn(now, k)
<1>1. \E i \in 0..4 : At(e, now, i)
  <2>1. CASE same(1)
    <3>1. At(e, now, 0)
      BY <2>1 DEF At
    <3> QED
      BY <3>1
  <2>2. CASE ~same(1) /\ same(2)
    <3>1. At(e, now, 1)
      BY <2>2 DEF At
    <3> QED
      BY <3>1
  <2>3. CASE ~same(1) /\ ~same(2) /\ same(3)
    <3>1. At(e, now, 2)
      BY <2>3 DEF At
    <3> QED
      BY <3>1
  <2>4. CASE ~same(1) /\ ~same(2) /\ ~same(3) /\ same(4)
    <3>1. At(e, now, 3)
      BY <2>4 DEF At
    <3> QED
      BY <3>1
  <2>5. CASE ~same(1) /\ ~same(2) /\ ~same(3) /\ ~same(4)
    <3>1. At(e, now, 4)
      BY <2>5 DEF At
    <3> QED
      BY <3>1
  <2> QED
    BY <2>1, <2>2, <2>3, <2>4, <2>5
<1>2. LevelOf(e, now) = CHOOSE i \in 0..4 : At(e, now, i)
  BY DEF LevelOf, At, Turn
<1> QED
  BY <1>1, <1>2

LEMMA LevelIs ==
  ASSUME NEW e \in Nat, NEW now \in Nat, NEW i \in 0..4, At(e, now, i)
  PROVE  LevelOf(e, now) = i
<1> DEFINE j == LevelOf(e, now)
<1>1. j \in 0..4 /\ At(e, now, j)
  BY LevelIn
<1> HIDE DEF j
<1>2. ~(i < j)
  <2> SUFFICES ASSUME i < j PROVE FALSE
    OBVIOUS
  <2>1. i < 4 /\ i + 1 \in 1..j
    BY <1>1
  <2> QED
    BY <1>1, <2>1 DEF At
<1>3. ~(j < i)
  <2> SUFFICES ASSUME j < i PROVE FALSE
    OBVIOUS
  <2>1. j < 4 /\ j + 1 \in 1..i
    BY <1>1
  <2> QED
    BY <1>1, <2>1 DEF At
<1> QED
  BY <1>1, <1>2, <1>3 DEF j

\* What the index in its level is, which does not depend on the time.
Index(e, i) == IF i = 0 THEN e % Near ELSE Turn(e, i) % Level

LEMMA PlaceIs ==
  ASSUME NEW e \in Nat, NEW now \in Nat, NEW i \in 0..4, At(e, now, i)
  PROVE  PlaceOf(e, now) = <<i, Index(e, i)>>
<1>1. LevelOf(e, now) = i
  BY LevelIs
<1> QED
  BY <1>1 DEF PlaceOf, Index, Turn

LEMMA PlaceIn ==
  ASSUME NEW e \in Nat, NEW now \in Nat
  PROVE  PlaceOf(e, now) \in Places
<1> DEFINE i == LevelOf(e, now)
<1>1. i \in 0..4 /\ At(e, now, i)
  BY LevelIn
<1> HIDE DEF i
<1>2. PlaceOf(e, now) = <<i, Index(e, i)>>
  BY <1>1, PlaceIs
<1>3. e % Near \in 0..Near - 1
  BY TimerAssumption, DivMod
<1>4. CASE i = 0
  BY <1>2, <1>3, <1>4 DEF Index, Places
<1>5. CASE i # 0
  <2>1. i \in 1..4 /\ Turn(e, i) \in Nat
    BY <1>1, <1>5, TurnIn
  <2>2. Turn(e, i) % Level \in 0..Level - 1
    BY <2>1, TimerAssumption, DivMod
  <2> QED
    BY <1>2, <1>5, <2>1, <2>2 DEF Index, Places
<1> QED
  BY <1>4, <1>5

\* The list of the current tick holds what is due in it.
LEMMA PlaceNow ==
  ASSUME NEW e \in Nat, NEW now \in Nat
  PROVE  PlaceOf(e, now) = <<0, now % Near>> <=> e = now
<1> DEFINE i == LevelOf(e, now)
<1>1. i \in 0..4 /\ At(e, now, i)
  BY LevelIn
<1> HIDE DEF i
<1>2. PlaceOf(e, now) = <<i, Index(e, i)>>
  BY <1>1, PlaceIs
<1>3. ASSUME e = now
      PROVE  PlaceOf(e, now) = <<0, now % Near>>
  <2>1. At(e, now, 0)
    BY <1>3 DEF At
  <2>2. i = 0
    BY <1>1, <2>1, LevelIs DEF i
  <2> QED
    BY <1>2, <1>3, <2>2 DEF Index
<1>4. ASSUME PlaceOf(e, now) = <<0, now % Near>>
      PROVE  e = now
  <2>1. i = 0 /\ e % Near = now % Near
    BY <1>2, <1>4 DEF Index
  <2>2. e \div Near = now \div Near
    BY <1>1, <2>1, Spans DEF At, Turn
  <2>3. e = Near * (e \div Near) + (e % Near) /\ now = Near * (now \div Near) + (now % Near)
    BY TimerAssumption, DivMod
  <2> QED
    BY <2>1, <2>2, <2>3
<1> QED
  BY <1>3, <1>4

\* One list moves at a time.
LEMMA TurningDown ==
  ASSUME NEW c \in Nat, NEW k \in 1..4, NEW m \in 1..4, k < m, c % Span[m] = 0
  PROVE  Turn(c, k) % Level = 0
<1>1. ASSUME NEW j \in 1..3, c % Span[j + 1] = 0
      PROVE  c % Span[j] = 0 /\ Turn(c, j) % Level = 0
  <2> DEFINE D == Span[j]
  <2>1. D \in Nat \ {0} /\ Level \in Nat \ {0} /\ c % (D * Level) = 0
    BY <1>1, Spans, TimerAssumption
  <2>2. Turn(c, j) = c \div D
    BY DEF Turn
  <2> HIDE DEF D
  <2>3. c % D = 0 /\ (c \div D) % Level = 0
    BY <2>1, ModDown
  <2> QED
    BY <2>2, <2>3 DEF D
<1>2. /\ c % Span[4] = 0 => c % Span[3] = 0 /\ Turn(c, 3) % Level = 0
      /\ c % Span[3] = 0 => c % Span[2] = 0 /\ Turn(c, 2) % Level = 0
      /\ c % Span[2] = 0 => c % Span[1] = 0 /\ Turn(c, 1) % Level = 0
  BY <1>1
<1>3. /\ k = 1 \/ k = 2 \/ k = 3
      /\ m = 2 \/ m = 3 \/ m = 4
  OBVIOUS
<1> QED
  BY <1>2, <1>3

LEMMA OneMoves ==
  ASSUME NEW c \in Nat, NEW p \in ToMove(c), NEW q \in ToMove(c)
  PROVE  p = q
<1>1. CASE c = 0
  BY <1>1 DEF ToMove
<1>2. CASE c # 0
  <2>1. PICK i \in Turning(c) : p = <<i, Turn(c, i) % Level>>
    BY <1>2 DEF ToMove, Turn
  <2>2. PICK j \in Turning(c) : q = <<j, Turn(c, j) % Level>>
    BY <1>2 DEF ToMove, Turn
  <2>3. \A k \in Turning(c) : k \in 1..4 /\ c % Span[k] = 0 /\ Turn(c, k) % Level # 0
    BY DEF Turning, Turn
  <2>4. i = j
    <3>1. ~(i < j) /\ ~(j < i)
      BY <2>3, TurningDown
    <3> QED
      BY <2>3, <3>1
  <2> QED
    BY <2>1, <2>2, <2>4
<1> QED
  BY <1>1, <1>2

LEMMA MovesIn ==
  ASSUME NEW c \in Nat, NEW p \in ToMove(c)
  PROVE  p \in Places
<1>1. CASE c = 0
  BY <1>1, TimerAssumption DEF ToMove, Places
<1>2. CASE c # 0
  <2>1. PICK i \in Turning(c) : p = <<i, Turn(c, i) % Level>>
    BY <1>2 DEF ToMove, Turn
  <2>2. i \in 1..4
    BY DEF Turning
  <2>3. Turn(c, i) \in Nat
    BY <2>2, TurnIn
  <2>4. Turn(c, i) % Level \in 0..Level - 1
    BY <2>3, TimerAssumption, DivMod
  <2> QED
    BY <2>1, <2>2, <2>4 DEF Places
<1> QED
  BY <1>1, <1>2

-----------------------------------------------------------------------------
LEMMA Half ==
  /\ Word \in Nat \ {0} /\ Longest \in Int /\ Word \div 2 \in Nat
  /\ Longest < Word \div 2 /\ (Word \div 2) + (Word \div 2) <= Word
<1>1. Word \in Nat \ {0}
  BY Spans
<1>2. Word \div 2 \in Nat /\ Word % 2 \in 0..1 /\ Word = 2 * (Word \div 2) + (Word % 2)
  BY <1>1
<1> QED
  BY <1>1, <1>2 DEF Longest

\* When a timer that is set for the d-th tick from now expires.
LEMMA Wrap ==
  ASSUME NEW now \in 0..Word - 1, NEW d \in 0..Longest
  PROVE  /\ (now + d) % Word \in 0..Word - 1
         /\ now + d < Word => (now + d) % Word = now + d
         /\ now + d >= Word => (now + d) % Word = now + d - Word
<1> DEFINE W == Word  x == now + d
<1>1. W \in Nat \ {0} /\ x \in Nat /\ now < W /\ d < W /\ now \in Nat /\ d \in Nat
  BY Half
<1> HIDE DEF W
<1>2. x % W \in 0..W - 1 /\ x = W * (x \div W) + (x % W)
  BY <1>1, DivMod
<1>3. CASE x < W
  <2>1. x \div W = 0
    BY <1>1, <1>3, DivIs
  <2>2. x % W = x
    BY <1>1, <1>2, <2>1
  <2> QED
    BY <1>1, <1>2, <1>3, <2>2 DEF W
<1>4. CASE x >= W
  <2>1. x \div W = 1
    BY <1>1, <1>4, DivIs
  <2>2. x % W = x - W
    BY <1>1, <1>2, <2>1
  <2> QED
    BY <1>1, <1>2, <1>4, <2>2 DEF W
<1> QED
  BY <1>1, <1>3, <1>4

LEMMA NextTick ==
  ASSUME NEW now \in 0..Word - 1
  PROVE  /\ (now + 1) % Word \in 0..Word - 1
         /\ now + 1 < Word => (now + 1) % Word = now + 1
         /\ now + 1 = Word => (now + 1) % Word = 0
<1> DEFINE W == Word  x == now + 1
<1>1. W \in Nat \ {0} /\ x \in Nat /\ now < W /\ now \in Nat
  BY Half
<1> HIDE DEF W
<1>2. x % W \in 0..W - 1 /\ x = W * (x \div W) + (x % W)
  BY <1>1, DivMod
<1>3. CASE x < W
  <2>1. x \div W = 0
    BY <1>1, <1>3, DivIs
  <2>2. x % W = x
    BY <1>1, <1>2, <2>1
  <2> QED
    BY <1>1, <1>2, <1>3, <2>2 DEF W
<1>4. CASE x >= W
  <2>1. x = W /\ x \div W = 1
    BY <1>1, <1>4, DivIs
  <2>2. x % W = 0
    BY <1>1, <1>2, <2>1
  <2> QED
    BY <1>1, <1>2, <1>4, <2>1, <2>2 DEF W
<1> QED
  BY <1>1, <1>3, <1>4

\* A tick later it has one tick less to wait.
LEMMA LessToWait ==
  ASSUME NEW now \in 0..Word - 1, NEW d \in 1..Longest
  PROVE  (now + d) % Word = (((now + 1) % Word) + (d - 1)) % Word
<1> DEFINE c == (now + 1) % Word
<1>1. /\ Word \in Nat \ {0} /\ d \in Nat /\ d < Word /\ now \in Nat /\ now < Word
      /\ d \in 0..Longest /\ d - 1 \in 0..Longest
  BY Half
<1>2. c \in 0..Word - 1 /\ (now + 1 < Word => c = now + 1) /\ (now + 1 = Word => c = 0)
  BY NextTick
<1> HIDE DEF c
<1>3. /\ c + (d - 1) < Word => (c + (d - 1)) % Word = c + (d - 1)
      /\ c + (d - 1) >= Word => (c + (d - 1)) % Word = c + (d - 1) - Word
  BY <1>1, <1>2, Wrap
<1>4. /\ now + d < Word => (now + d) % Word = now + d
      /\ now + d >= Word => (now + d) % Word = now + d - Word
  BY <1>1, Wrap
<1> DEFINE e == (now + d) % Word  f == (c + (d - 1)) % Word
<1>5. /\ c + (d - 1) < Word => f = c + (d - 1)
      /\ c + (d - 1) >= Word => f = c + (d - 1) - Word
      /\ now + d < Word => e = now + d
      /\ now + d >= Word => e = now + d - Word
  BY <1>3, <1>4
<1> HIDE DEF e, f
<1>6. CASE now + 1 < Word
  BY <1>1, <1>2, <1>5, <1>6 DEF e, f, c
<1>7. CASE now + 1 = Word
  BY <1>1, <1>2, <1>5, <1>7 DEF e, f, c
<1> QED
  BY <1>1, <1>6, <1>7

\* It is due when it has nothing to wait.
LEMMA NothingToWait ==
  ASSUME NEW now \in 0..Word - 1, NEW d \in 0..Longest
  PROVE  (now + d) % Word = now <=> d = 0
<1> DEFINE e == (now + d) % Word
<1>1. /\ now + d < Word => e = now + d
      /\ now + d >= Word => e = now + d - Word
  BY Wrap
<1> HIDE DEF e
<1>2. Word \in Nat \ {0} /\ d < Word
  BY Half
<1>3. e = now <=> d = 0
  BY <1>1, <1>2
<1> QED
  BY <1>3 DEF e

\* Each list but the one that moves holds in the next tick what belongs there
\* then.
LEMMA Stays ==
  ASSUME NEW now \in 0..Word - 1, NEW d \in 1..Longest
  PROVE  LET e == (now + d) % Word
             c == (now + 1) % Word
         IN  PlaceOf(e, now) \in ToMove(c) \/ PlaceOf(e, c) = PlaceOf(e, now)
<1> DEFINE e == (now + d) % Word  c == (now + 1) % Word  i == LevelOf(e, now)
<1>1. /\ Word \in Nat \ {0} /\ d \in Nat \ {0} /\ now \in Nat /\ now < Word /\ d < Word \div 2
      /\ d \in 0..Longest
  BY Half
<1>2. /\ e \in 0..Word - 1
      /\ now + d < Word => e = now + d
      /\ now + d >= Word => e = now + d - Word
  BY <1>1, Wrap
<1>3. c \in 0..Word - 1 /\ (now + 1 < Word => c = now + 1) /\ (now + 1 = Word => c = 0)
  BY NextTick
<1> SUFFICES PlaceOf(e, now) \in ToMove(c) \/ PlaceOf(e, c) = PlaceOf(e, now)
  OBVIOUS
<1> HIDE DEF e, c
<1>4. e \in Nat /\ c \in Nat
  BY <1>2, <1>3
<1>5. i \in 0..4 /\ At(e, now, i)
  BY <1>1, <1>4, LevelIn
<1> HIDE DEF i
<1>6. PlaceOf(e, now) = <<i, Index(e, i)>>
  BY <1>1, <1>4, <1>5, PlaceIs
<1>7. CASE now + d < Word
  <2>1. e = now + d /\ c = now + 1 /\ now <= c /\ c <= e
    BY <1>1, <1>2, <1>3, <1>7
  <2>2. i < 4 => Turn(e, i + 1) = Turn(c, i + 1)
    <3> SUFFICES ASSUME i < 4 PROVE Turn(e, i + 1) = Turn(c, i + 1)
      OBVIOUS
    <3>1. i + 1 \in 1..4 /\ Turn(e, i + 1) = Turn(now, i + 1)
      BY <1>5 DEF At
    <3>2. Turn(now, i + 1) <= Turn(c, i + 1) /\ Turn(c, i + 1) <= Turn(e, i + 1)
      BY <1>1, <1>4, <2>1, <3>1, TurnMono
    <3>3. Turn(now, i + 1) \in Nat /\ Turn(c, i + 1) \in Nat
      BY <1>1, <1>4, <3>1, TurnIn
    <3> QED
      BY <3>1, <3>2, <3>3
  <2>3. CASE \A k \in 1..i : Turn(e, k) # Turn(c, k)
    <3>1. At(e, c, i)
      BY <2>2, <2>3 DEF At
    <3>2. PlaceOf(e, c) = <<i, Index(e, i)>>
      BY <1>4, <1>5, <3>1, PlaceIs
    <3> QED
      BY <1>6, <3>2
  <2>4. CASE \E k \in 1..i : Turn(e, k) = Turn(c, k)
    <3>1. PICK k \in 1..i : Turn(e, k) = Turn(c, k)
      BY <2>4
    <3>2. i \in 1..4 /\ k \in 1..4 /\ k <= i
      BY <1>5
    <3>3. Turn(e, i) = Turn(c, i)
      BY <1>4, <3>1, <3>2, TurnSame
    <3>4. Turn(now + 1, i) # Turn(now, i)
      BY <1>5, <2>1, <3>2, <3>3 DEF At
    <3>5. c % Span[i] = 0 /\ Turn(c, i) = Turn(now, i) + 1
      BY <1>1, <2>1, <3>2, <3>4, TurnStep
    <3>6. Turn(now, i) \in Nat /\ Turn(c, i) \in Nat /\ Level \in Nat \ {0}
      BY <1>1, <1>4, <3>2, TurnIn, TimerAssumption
    <3>7. Turn(c, i) % Level # 0
      <4> DEFINE x == Turn(now, i)  y == Turn(c, i)
      <4>1. x \in Nat /\ y = x + 1
        BY <3>5, <3>6
      <4>2. x \div Level = y \div Level
        <5>1. CASE i < 4
          <6>1. i + 1 \in 1..5 /\ Turn(now, i + 1) = x \div Level /\ Turn(c, i + 1) = y \div Level
            BY <1>1, <1>4, <3>2, <5>1, TurnUp
          <6>2. Turn(e, i + 1) = Turn(c, i + 1) /\ Turn(e, i + 1) = Turn(now, i + 1)
            BY <1>5, <2>2, <5>1 DEF At
          <6> QED
            BY <6>1, <6>2
        <5>2. CASE i = 4
          <6>1. Word = Span[4] * Level /\ Span[4] \in Nat \ {0} /\ c < Word
            BY <1>3, <1>1, Spans
          <6>2. y < Level
            BY <1>4, <3>6, <5>2, <6>1, DivBelow DEF Turn
          <6> HIDE DEF x, y
          <6>3. x < Level /\ y < Level /\ y \in Nat /\ Level \in Nat \ {0}
            BY <3>6, <4>1, <6>2
          <6>4. x \div Level = 0 /\ y \div Level = 0
            BY <4>1, <6>3, DivIs
          <6> QED
            BY <6>4
        <5> QED
          BY <3>2, <5>1, <5>2
      <4> HIDE DEF x, y
      <4>3. y \in Nat /\ Level \in Nat \ {0}
        BY <3>6, <4>1
      <4> DEFINE u == Level * (y \div Level)
      <4>4. /\ x = u + (x % Level) /\ y = u + (y % Level)
            /\ x % Level \in 0..Level - 1 /\ y % Level \in 0..Level - 1
        BY <4>1, <4>2, <4>3, DivMod
      <4>5. u \in Nat
        <5>1. y \div Level \in Nat
          BY <4>3, DivMod
        <5> QED
          BY <4>3, <5>1
      <4> HIDE DEF u
      <4>6. y % Level # 0
        BY <4>1, <4>4, <4>5
      <4> QED
        BY <4>6 DEF y
    <3>8. i \in Turning(c)
      BY <3>2, <3>5, <3>7 DEF Turning, Turn
    <3>9. c # 0
      BY <1>1, <2>1
    <3>10. <<i, Turn(c, i) % Level>> \in ToMove(c)
      BY <3>8, <3>9 DEF ToMove, Turn
    <3>11. Index(e, i) = Turn(c, i) % Level
      BY <3>2, <3>3 DEF Index
    <3> QED
      BY <1>6, <3>10, <3>11
  <2> QED
    BY <2>3, <2>4
<1>8. CASE now + d >= Word
  <2>1. e = now + d - Word /\ e + Word \div 2 < now
    <3>1. (Word \div 2) + (Word \div 2) <= Word /\ Word \div 2 \in Nat
      BY Half
    <3> QED
      BY <1>1, <1>2, <1>8, <3>1
  <2>2. \A x \in Nat : Turn(x, 4) # Turn(e, 4) => At(e, x, 4)
    <3> SUFFICES ASSUME NEW x \in Nat, Turn(x, 4) # Turn(e, 4) PROVE At(e, x, 4)
      OBVIOUS
    <3>1. \A k \in 1..4 : Turn(e, k) # Turn(x, k)
      BY <1>4, TurnSame
    <3> QED
      BY <3>1 DEF At
  <2>3. At(e, now, 4)
    BY <1>1, <1>4, <2>1, <2>2, Far
  <2>4. i = 4
    BY <1>1, <1>4, <1>6, <2>3, PlaceIs
  <2>5. CASE Turn(c, 4) # Turn(e, 4)
    <3>1. PlaceOf(e, c) = <<4, Index(e, 4)>>
      BY <1>4, <2>2, <2>5, PlaceIs
    <3> QED
      BY <1>6, <2>4, <3>1
  <2>6. CASE Turn(c, 4) = Turn(e, 4)
    <3>1. c = 0
      <4> SUFFICES ASSUME now + 1 < Word PROVE FALSE
        BY <1>1, <1>3
      <4>1. c = now + 1 /\ e + Word \div 2 < c
        BY <1>1, <1>3, <2>1, Half
      <4> QED
        BY <1>4, <2>6, <4>1, Far
    <3>2. Turn(c, 4) = 0
      BY <3>1, Spans, DivIs DEF Turn
    <3>3. Index(e, 4) = 0
      BY <2>6, <3>2, TimerAssumption DEF Index
    <3> QED
      BY <1>6, <2>4, <3>1, <3>3 DEF ToMove
  <2> QED
    BY <2>5, <2>6
<1> QED
  BY <1>1, <1>7, <1>8

-----------------------------------------------------------------------------
TypeOK ==
  /\ wheel \in [Places -> Seq(Node)]
  /\ time \in 0..Word - 1
  /\ ticks \in Nat
  /\ place \in {"idle", "move", "execute"}
  /\ moving \in Seq(Node)
  /\ firing \in Seq(Node)
  /\ left \in [DOMAIN left -> 0..Longest]
  /\ DOMAIN left \subseteq Timers

\* What is set before what, strictly.
Strict ==
  /\ before \subseteq (DOMAIN left) \X (DOMAIN left)
  /\ \A a, b \in DOMAIN left : <<a, b>> \in before => <<b, a>> \notin before

\* Each node stands for a timer that waits, and expires when this does.
Set(x) == x.n \in DOMAIN left /\ x.expire = (time + left[x.n]) % Word

OnWheel ==
  \A p \in Places : \A k \in 1..Len(wheel[p]) :
    /\ Set(wheel[p][k])
    /\ PlaceOf(wheel[p][k].expire, time) = p
    /\ place # "move" => left[wheel[p][k].n] # 0

InMove ==
  /\ place # "move" => moving = <<>>
  /\ \A k \in 1..Len(moving) : Set(moving[k])

Fired ==
  /\ place # "execute" => firing = <<>>
  /\ \A k \in 1..Len(firing) : firing[k].n \in DOMAIN left /\ left[firing[k].n] = 0

\* No timer is lost.
Has(s, n) == \E k \in 1..Len(s) : s[k].n = n

Kept ==
  \A n \in DOMAIN left :
    Has(moving, n) \/ Has(firing, n) \/ \E p \in Places : Has(wheel[p], n)

\* What expires at the same time stands in the order it was set.
Sorted(s) ==
  \A j, k \in 1..Len(s) :
    j < k /\ s[j].expire = s[k].expire => <<s[j].n, s[k].n>> \in before

Ordered ==
  /\ \A p \in Places : Sorted(wheel[p])
  /\ Sorted(moving)
  /\ \A p \in Places : \A j \in 1..Len(wheel[p]), k \in 1..Len(moving) :
       wheel[p][j].expire = moving[k].expire => <<wheel[p][j].n, moving[k].n>> \in before
  /\ \A j, k \in 1..Len(firing) : j < k => <<firing[j].n, firing[k].n>> \in before

Counting == place # "idle" => ticks > 0

Inv == TypeOK /\ Counting /\ Strict /\ OnWheel /\ InMove /\ Fired /\ Kept /\ Ordered

-----------------------------------------------------------------------------
LEMMA AppendAt ==
  ASSUME NEW A, NEW s \in Seq(A), NEW x \in A
  PROVE  /\ Append(s, x) \in Seq(A)
         /\ Len(Append(s, x)) = Len(s) + 1
         /\ \A k \in 1..Len(s) : Append(s, x)[k] = s[k]
         /\ Append(s, x)[Len(s) + 1] = x
OBVIOUS

LEMMA TailAt ==
  ASSUME NEW A, NEW s \in Seq(A), s # <<>>
  PROVE  /\ Tail(s) \in Seq(A) /\ Head(s) = s[1] /\ Head(s) \in A
         /\ Len(s) \in Nat \ {0} /\ Len(s) = Len(Tail(s)) + 1
         /\ \A k \in 1..Len(Tail(s)) : Tail(s)[k] = s[k + 1]
<1>1. Len(s) \in Nat \ {0}
  OBVIOUS
<1>2. Tail(s) \in Seq(A) /\ Len(Tail(s)) = Len(s) - 1 /\ \A k \in 1..Len(Tail(s)) : Tail(s)[k] = s[k + 1]
  BY HeadTailProperties
<1>3. Head(s) = s[1] /\ Head(s) \in A
  BY <1>1
<1> QED
  BY <1>1, <1>2, <1>3

\* A node is linked to its list.
LEMMA Added ==
  ASSUME TypeOK, NEW x \in Node, wheel' = AddNode(wheel, x, time)
  PROVE  LET q == PlaceOf(x.expire, time)
         IN  /\ wheel' \in [Places -> Seq(Node)] /\ q \in Places
             /\ \A p \in Places : \A k \in 1..Len(wheel'[p]) :
                  \/ k \in 1..Len(wheel[p]) /\ wheel'[p][k] = wheel[p][k]
                  \/ p = q /\ k = Len(wheel[q]) + 1 /\ wheel'[p][k] = x
             /\ \A p \in Places : \A k \in 1..Len(wheel[p]) :
                  k \in 1..Len(wheel'[p]) /\ wheel'[p][k] = wheel[p][k]
             /\ Len(wheel[q]) + 1 \in 1..Len(wheel'[q]) /\ wheel'[q][Len(wheel[q]) + 1] = x
<1> DEFINE q == PlaceOf(x.expire, time)
<1>1. q \in Places
  <2>1. x.expire \in Nat /\ time \in Nat
    BY Half DEF Node, TypeOK
  <2> QED
    BY <2>1, PlaceIn
<1>2. wheel' = [wheel EXCEPT ![q] = Append(wheel[q], x)]
  BY DEF AddNode
<1> HIDE DEF q
<1> DEFINE s == wheel[q]  t == Append(s, x)
<1>3. s \in Seq(Node)
  BY <1>1 DEF TypeOK
<1> HIDE DEF s
<1>4. /\ t \in Seq(Node) /\ Len(s) \in Nat /\ Len(t) = Len(s) + 1
      /\ \A k \in 1..Len(s) : t[k] = s[k]
      /\ t[Len(s) + 1] = x
  BY <1>3, AppendAt
<1>5. wheel' \in [Places -> Seq(Node)] /\ \A p \in Places : wheel'[p] = IF p = q THEN t ELSE wheel[p]
  BY <1>1, <1>2, <1>4 DEF TypeOK, s
<1> HIDE DEF t
<1>6. \A k \in 1..Len(t) : k \in 1..Len(s) \/ k = Len(s) + 1
  BY <1>4
<1>7. \A k \in 1..Len(s) : k \in 1..Len(t)
  BY <1>4
<1>8. Len(s) + 1 \in 1..Len(t)
  BY <1>4
<1>9. ASSUME NEW p \in Places, NEW k \in 1..Len(wheel'[p])
      PROVE  \/ k \in 1..Len(wheel[p]) /\ wheel'[p][k] = wheel[p][k]
             \/ p = q /\ k = Len(s) + 1 /\ wheel'[p][k] = x
  <2>1. CASE p = q
    BY <1>4, <1>5, <1>6, <1>9, <2>1 DEF s
  <2>2. CASE p # q
    BY <1>5, <1>9, <2>2
  <2> QED
    BY <2>1, <2>2
<1>10. ASSUME NEW p \in Places, NEW k \in 1..Len(wheel[p])
       PROVE  k \in 1..Len(wheel'[p]) /\ wheel'[p][k] = wheel[p][k]
  <2>1. CASE p = q
    BY <1>4, <1>5, <1>7, <1>10, <2>1 DEF s
  <2>2. CASE p # q
    BY <1>5, <1>10, <2>2
  <2> QED
    BY <2>1, <2>2
<1>11. wheel'[q] = t
  BY <1>1, <1>5
<1> QED
  BY <1>1, <1>4, <1>5, <1>8, <1>9, <1>10, <1>11 DEF q, s

\* A list is cleared.
LEMMA Cleared ==
  ASSUME TypeOK, NEW q \in Places, wheel' = [wheel EXCEPT ![q] = <<>>]
  PROVE  /\ wheel' \in [Places -> Seq(Node)]
         /\ \A p \in Places : p # q => wheel'[p] = wheel[p]
         /\ \A p \in Places : \A k \in 1..Len(wheel'[p]) : p # q
<1>1. <<>> \in Seq(Node)
  OBVIOUS
<1>2. wheel \in [Places -> Seq(Node)]
  BY DEF TypeOK
<1>3. wheel' \in [Places -> Seq(Node)] /\ wheel'[q] = <<>>
      /\ \A p \in Places : p # q => wheel'[p] = wheel[p]
  BY <1>1, <1>2
<1>4. \A k : k \notin 1..0
  OBVIOUS
<1> QED
  BY <1>3, <1>4

\* The list of the current tick, and that only, holds what is due.
LEMMA Due ==
  ASSUME TypeOK, OnWheel, NEW p \in Places, NEW k \in 1..Len(wheel[p])
  PROVE  left[wheel[p][k].n] = 0 <=> p = <<0, time % Near>>
<1> DEFINE x == wheel[p][k]  d == left[x.n]
<1>1. x.n \in DOMAIN left /\ x.expire = (time + d) % Word /\ PlaceOf(x.expire, time) = p
  BY DEF OnWheel, Set
<1>2. d \in 0..Longest /\ time \in 0..Word - 1
  BY <1>1 DEF TypeOK
<1>3. x.expire = time <=> d = 0
  BY <1>1, <1>2, NothingToWait
<1>4. x.expire \in Nat /\ time \in Nat
  <2> HIDE DEF d
  <2>1. (time + d) % Word \in 0..Word - 1
    BY <1>2, Wrap
  <2> HIDE DEF x
  <2> QED
    BY <1>1, <1>2, <2>1, Half
<1>5. PlaceOf(x.expire, time) = <<0, time % Near>> <=> x.expire = time
  BY <1>4, PlaceNow
<1> QED
  BY <1>1, <1>3, <1>5

LEMMA NearIn ==
  ASSUME TypeOK
  PROVE  <<0, time % Near>> \in Places
<1>1. time \in Nat
  BY Half DEF TypeOK
<1>2. time % Near \in 0..Near - 1
  BY <1>1, TimerAssumption, DivMod
<1> QED
  BY <1>2 DEF Places

LEMMA NothingDue ==
  ASSUME Inv, place # "move"
  PROVE  wheel[<<0, time % Near>>] = <<>>
<1> DEFINE p == <<0, time % Near>>
<1>1. p \in Places /\ wheel[p] \in Seq(Node)
  BY NearIn DEF Inv, TypeOK
<1> SUFFICES ASSUME wheel[p] # <<>> PROVE FALSE
  OBVIOUS
<1>2. 1 \in 1..Len(wheel[p])
  BY <1>1
<1>3. left[wheel[p][1].n] # 0
  BY <1>1, <1>2 DEF Inv, OnWheel
<1> QED
  BY <1>1, <1>2, <1>3, Due DEF Inv

-----------------------------------------------------------------------------
LEMMA InitInv ==
  ASSUME Init
  PROVE  Inv
<1>1. <<>> \in Seq(Node) /\ Len(<<>>) = 0 /\ \A k : k \notin 1..0
  OBVIOUS
<1>2. DOMAIN left = {}
  BY DEF Init
<1>3. TypeOK
  <2>1. 0 \in 0..Word - 1
    BY Half
  <2> QED
    BY <1>1, <1>2, <2>1 DEF Init, TypeOK
<1>4. /\ \A p \in Places : \A k : k \notin 1..Len(wheel[p])
      /\ \A k : k \notin 1..Len(moving) /\ k \notin 1..Len(firing)
  BY <1>1 DEF Init
<1>5. Counting /\ Strict
  BY <1>2 DEF Init, Counting, Strict
<1>6. OnWheel
  BY <1>4 DEF OnWheel
<1>7. InMove /\ Fired /\ Kept
  BY <1>2, <1>4 DEF Init, InMove, Fired, Kept
<1>8. Ordered
  BY <1>4 DEF Ordered, Sorted
<1> QED
  BY <1>3, <1>5, <1>6, <1>7, <1>8 DEF Inv

LEMMA TimeoutKeeps ==
  ASSUME Inv, NEW d \in 1..Longest, Timeout(d)
  PROVE  Inv'
<1>1. PICK n \in Timers \ DOMAIN left :
        /\ wheel' = AddNode(wheel, [n |-> n, expire |-> (time + d) % Word], time)
        /\ left' = [k \in DOMAIN left \cup {n} |-> IF k = n THEN d ELSE left[k]]
        /\ before' = before \cup {<<k, n>> : k \in DOMAIN left}
  BY DEF Timeout
<1>2. place # "move" /\ UNCHANGED <<time, ticks, place, moving, firing>>
  BY DEF Timeout
<1> DEFINE x == [n |-> n, expire |-> (time + d) % Word]  q == PlaceOf(x.expire, time)
           last == Len(wheel[q]) + 1
<1>3. d \in 0..Longest /\ d # 0
  BY Half
<1>4. x \in Node /\ x.n = n /\ x.expire = (time + d) % Word
  <2>1. (time + d) % Word \in 0..Word - 1
    BY <1>3, Wrap DEF Inv, TypeOK
  <2> QED
    BY <2>1 DEF Node
<1>5. wheel' = AddNode(wheel, x, time)
  BY <1>1
<1> HIDE DEF x
<1>6. /\ wheel' \in [Places -> Seq(Node)] /\ q \in Places
      /\ \A p \in Places : \A k \in 1..Len(wheel'[p]) :
           \/ k \in 1..Len(wheel[p]) /\ wheel'[p][k] = wheel[p][k]
           \/ p = q /\ k = last /\ wheel'[p][k] = x
      /\ \A p \in Places : \A k \in 1..Len(wheel[p]) :
           k \in 1..Len(wheel'[p]) /\ wheel'[p][k] = wheel[p][k]
      /\ last \in 1..Len(wheel'[q]) /\ wheel'[q][last] = x
  BY <1>4, <1>5, Added DEF Inv
<1>7. \A p \in Places : Len(wheel[p]) \in Nat
  BY DEF Inv, TypeOK
<1> HIDE DEF q, last
<1>8. /\ DOMAIN left' = DOMAIN left \cup {n} /\ left'[n] = d /\ n \notin DOMAIN left
      /\ \A k \in DOMAIN left : left'[k] = left[k] /\ k # n
  BY <1>1
<1>9. TypeOK'
  BY <1>2, <1>3, <1>6, <1>8, <1>1 DEF Inv, TypeOK
<1>10. Counting'
  BY <1>2 DEF Inv, Counting
<1>11. Strict'
  BY <1>1, <1>8 DEF Inv, Strict
<1>12. \A a \in DOMAIN left : <<a, n>> \in before'
  BY <1>1
<1>13. before \subseteq before'
  BY <1>1
<1>14. OnWheel'
  <2> SUFFICES ASSUME NEW p \in Places, NEW k \in 1..Len(wheel'[p])
               PROVE  /\ wheel'[p][k].n \in DOMAIN left'
                      /\ wheel'[p][k].expire = (time' + left'[wheel'[p][k].n]) % Word
                      /\ PlaceOf(wheel'[p][k].expire, time') = p
                      /\ left'[wheel'[p][k].n] # 0
    BY DEF OnWheel, Set
  <2>1. CASE k \in 1..Len(wheel[p]) /\ wheel'[p][k] = wheel[p][k]
    <3>1. /\ wheel[p][k].n \in DOMAIN left
          /\ wheel[p][k].expire = (time + left[wheel[p][k].n]) % Word
          /\ PlaceOf(wheel[p][k].expire, time) = p
          /\ left[wheel[p][k].n] # 0
      BY <1>2, <2>1 DEF Inv, OnWheel, Set
    <3> QED
      BY <1>2, <1>8, <2>1, <3>1
  <2>2. CASE p = q /\ k = last /\ wheel'[p][k] = x
    BY <1>2, <1>3, <1>4, <1>8, <2>2 DEF q
  <2> QED
    BY <1>6, <2>1, <2>2
<1>15. InMove'
  BY <1>2, <1>8 DEF Inv, InMove, Set
<1>16. Fired'
  BY <1>2, <1>8 DEF Inv, Fired
<1>17. Kept'
  <2>3. \A k : \A p \in Places : Has(wheel[p], k) => Has(wheel'[p], k)
    BY <1>6 DEF Has
  <2>4. Has(wheel'[q], n)
    BY <1>4, <1>6 DEF Has
  <2> SUFFICES ASSUME NEW k \in DOMAIN left'
               PROVE  Has(moving', k) \/ Has(firing', k) \/ \E p \in Places : Has(wheel'[p], k)
    BY DEF Kept
  <2>5. CASE k = n
    BY <1>6, <2>4, <2>5
  <2>6. CASE k \in DOMAIN left
    <3>1. Has(moving, k) \/ Has(firing, k) \/ \E p \in Places : Has(wheel[p], k)
      BY <2>6 DEF Inv, Kept
    <3> QED
      BY <1>2, <2>3, <3>1
  <2> QED
    BY <1>8, <2>5, <2>6
<1>18. Ordered'
  <2>1. ASSUME NEW p \in Places, NEW j \in 1..Len(wheel'[p]), NEW k \in 1..Len(wheel'[p]),
               j < k, wheel'[p][j].expire = wheel'[p][k].expire
        PROVE  <<wheel'[p][j].n, wheel'[p][k].n>> \in before'
    <3>1. CASE k \in 1..Len(wheel[p]) /\ wheel'[p][k] = wheel[p][k]
      <4>1. j \in 1..Len(wheel[p]) /\ wheel'[p][j] = wheel[p][j]
        BY <1>6, <1>7, <2>1, <3>1
      <4>2. <<wheel[p][j].n, wheel[p][k].n>> \in before
        BY <2>1, <3>1, <4>1 DEF Inv, Ordered, Sorted
      <4> QED
        BY <1>13, <3>1, <4>1, <4>2
    <3>2. CASE p = q /\ k = last /\ wheel'[p][k] = x
      <4>1. j \in 1..Len(wheel[p]) /\ wheel'[p][j] = wheel[p][j]
        BY <1>6, <2>1, <3>2
      <4>2. wheel[p][j].n \in DOMAIN left
        BY <4>1 DEF Inv, OnWheel, Set
      <4> QED
        BY <1>4, <1>12, <3>2, <4>1, <4>2
    <3> QED
      BY <1>6, <3>1, <3>2
  <2>2. moving' = <<>> /\ \A k : k \notin 1..Len(moving')
    <3>1. moving' = <<>>
      BY <1>2 DEF Inv, InMove
    <3> QED
      BY <3>1
  <2>3. \A j, k \in 1..Len(firing') : j < k => <<firing'[j].n, firing'[k].n>> \in before'
    BY <1>2, <1>13 DEF Inv, Ordered
  <2> QED
    BY <2>1, <2>2, <2>3 DEF Ordered, Sorted
<1> QED
  BY <1>9, <1>10, <1>11, <1>14, <1>15, <1>16, <1>17, <1>18 DEF Inv

LEMMA UpdateTimeKeeps ==
  ASSUME Inv, NEW d \in 1..MaxDiff, UpdateTime(d)
  PROVE  Inv'
<1>1. /\ UNCHANGED <<wheel, time, place, moving, firing, left, before>>
      /\ ticks' = d /\ place = "idle" /\ d \in Nat
  BY TimerAssumption DEF UpdateTime
<1>2. TypeOK'
  BY <1>1 DEF Inv, TypeOK
<1>3. Counting'
  BY <1>1 DEF Counting
<1>4. Strict'
  BY <1>1 DEF Inv, Strict
<1>5. OnWheel'
  BY <1>1 DEF Inv, OnWheel, Set
<1>6. InMove'
  BY <1>1 DEF Inv, InMove, Set
<1>7. Fired'
  BY <1>1 DEF Inv, Fired
<1>8. Kept'
  BY <1>1 DEF Inv, Kept, Has
<1>9. Ordered'
  BY <1>1 DEF Inv, Ordered, Sorted
<1> QED
  BY <1>2, <1>3, <1>4, <1>5, <1>6, <1>7, <1>8, <1>9 DEF Inv

\* While nothing is dispatched or moved, all timers are on the wheel and have
\* to wait.
LEMMA IdleWaits ==
  ASSUME Inv, place = "idle", NEW n \in DOMAIN left
  PROVE  left[n] \in 1..Longest
<1>1. moving = <<>> /\ firing = <<>>
  BY DEF Inv, InMove, Fired
<1>2. ~Has(moving, n) /\ ~Has(firing, n)
  BY <1>1 DEF Has
<1>3. PICK p \in Places : Has(wheel[p], n)
  BY <1>2 DEF Inv, Kept
<1>4. left[n] # 0
  BY <1>3 DEF Has, Inv, OnWheel
<1>5. left[n] \in 0..Longest
  BY DEF Inv, TypeOK
<1> QED
  BY <1>4, <1>5

\* In the next tick a timer has one tick less to wait, and every list but
\* those that move is the right one for what it holds.
LEMMA Ticked ==
  ASSUME Inv, place = "idle", time' = (time + 1) % Word,
         left' = [n \in DOMAIN left |-> left[n] - 1],
         NEW p \in Places, NEW k \in 1..Len(wheel[p])
  PROVE  LET x == wheel[p][k]
         IN  /\ x.n \in DOMAIN left' /\ x.expire = (time' + left'[x.n]) % Word
             /\ p \in ToMove(time') \/ PlaceOf(x.expire, time') = p
<1> DEFINE x == wheel[p][k]  d == left[x.n]  e == (time + d) % Word
<1>1. x.n \in DOMAIN left /\ x.expire = (time + d) % Word /\ PlaceOf(x.expire, time) = p
  BY DEF Inv, OnWheel, Set
<1>2. d \in 1..Longest
  BY <1>1, IdleWaits
<1>3. x.n \in DOMAIN left' /\ left'[x.n] = d - 1
  BY <1>1
<1>4. time \in 0..Word - 1
  BY DEF Inv, TypeOK
<1> HIDE DEF x, d
<1>5. (time + d) % Word = (((time + 1) % Word) + (d - 1)) % Word
  BY <1>2, <1>4, LessToWait
<1>6. PlaceOf(e, time) \in ToMove((time + 1) % Word) \/ PlaceOf(e, (time + 1) % Word) = PlaceOf(e, time)
  BY <1>2, <1>4, Stays
<1>7. x.expire = (time' + left'[x.n]) % Word
  BY <1>1, <1>3, <1>5
<1>8. p \in ToMove(time') \/ PlaceOf(x.expire, time') = p
  BY <1>1, <1>6
<1> QED
  BY <1>3, <1>7, <1>8 DEF x

LEMMA ShiftKeeps ==
  ASSUME Inv, Shift
  PROVE  Inv'
<1>1. /\ place = "idle" /\ ticks > 0 /\ time' = (time + 1) % Word /\ place' = "move"
      /\ left' = [n \in DOMAIN left |-> left[n] - 1] /\ UNCHANGED <<ticks, firing, before>>
  BY DEF Shift
<1>2. time' \in 0..Word - 1
  BY <1>1, NextTick DEF Inv, TypeOK
<1>3. firing = <<>> /\ moving = <<>>
  BY <1>1 DEF Inv, Fired, InMove
<1>4. DOMAIN left' = DOMAIN left /\ \A n \in DOMAIN left : left'[n] \in 0..Longest
  <2>1. \A n \in DOMAIN left : left[n] \in 1..Longest
    BY <1>1, IdleWaits
  <2> QED
    BY <1>1, <2>1, Half
<1>5. \A p \in Places : \A k \in 1..Len(wheel[p]) :
        /\ wheel[p][k].n \in DOMAIN left'
        /\ wheel[p][k].expire = (time' + left'[wheel[p][k].n]) % Word
        /\ p \in ToMove(time') \/ PlaceOf(wheel[p][k].expire, time') = p
  BY <1>1, Ticked
<1>6. Counting' /\ Strict'
  BY <1>1, <1>4 DEF Inv, Counting, Strict
<1>7. firing' = <<>> /\ \A k : k \notin 1..Len(firing')
  BY <1>1, <1>3
<1>8. Fired'
  BY <1>7 DEF Fired
<1>9. \A n \in DOMAIN left : \E p \in Places : Has(wheel[p], n)
  <2>1. \A n : ~Has(moving, n) /\ ~Has(firing, n)
    BY <1>3 DEF Has
  <2> QED
    BY <2>1 DEF Inv, Kept
<1>10. CASE ToMove(time') = {} /\ UNCHANGED <<wheel, moving>>
  <2>1. \A k : k \notin 1..Len(moving')
    BY <1>3, <1>10
  <2>2. TypeOK'
    BY <1>1, <1>2, <1>4, <1>10 DEF Inv, TypeOK
  <2>3. OnWheel'
    BY <1>1, <1>5, <1>10 DEF OnWheel, Set
  <2>4. InMove'
    BY <1>1, <2>1 DEF InMove
  <2>5. Kept'
    BY <1>4, <1>9, <1>10 DEF Kept, Has
  <2>6. Ordered'
    BY <1>1, <1>7, <1>10, <2>1 DEF Inv, Ordered, Sorted
  <2> QED
    BY <1>6, <1>8, <2>2, <2>3, <2>4, <2>5, <2>6 DEF Inv
<1>11. CASE \E p \in ToMove(time') : moving' = wheel[p] /\ wheel' = [wheel EXCEPT ![p] = <<>>]
  <2>1. PICK p \in ToMove(time') : moving' = wheel[p] /\ wheel' = [wheel EXCEPT ![p] = <<>>]
    BY <1>11
  <2>2. p \in Places /\ \A q \in ToMove(time') : q = p
    <3>1. time' \in Nat
      BY <1>2, Half
    <3> QED
      BY <3>1, MovesIn, OneMoves
  <2>3. /\ wheel' \in [Places -> Seq(Node)]
        /\ \A q \in Places : q # p => wheel'[q] = wheel[q]
        /\ \A q \in Places : \A k \in 1..Len(wheel'[q]) : q # p
    BY <2>1, <2>2, Cleared DEF Inv
  <2>4. TypeOK'
    BY <1>1, <1>2, <1>4, <2>1, <2>2, <2>3 DEF Inv, TypeOK
  <2>5. \A q \in Places : \A k \in 1..Len(wheel'[q]) :
          q # p /\ k \in 1..Len(wheel[q]) /\ wheel'[q] = wheel[q]
    BY <2>3
  <2>6. \A q \in Places : \A k \in 1..Len(wheel'[q]) :
          /\ wheel'[q][k].n \in DOMAIN left'
          /\ wheel'[q][k].expire = (time' + left'[wheel'[q][k].n]) % Word
          /\ PlaceOf(wheel'[q][k].expire, time') = q
    BY <1>5, <2>2, <2>5
  <2>7. OnWheel'
    BY <1>1, <2>6 DEF OnWheel, Set
  <2>8. InMove'
    BY <1>1, <1>5, <2>1, <2>2 DEF InMove, Set
  <2>9. Kept'
    <3> SUFFICES ASSUME NEW n \in DOMAIN left'
                 PROVE  Has(moving', n) \/ \E q \in Places : Has(wheel'[q], n)
      BY DEF Kept
    <3>1. PICK q \in Places : Has(wheel[q], n)
      BY <1>4, <1>9
    <3> QED
      BY <2>1, <2>3, <3>1
  <2>10. Ordered'
    <3>1. ASSUME NEW q \in Places, NEW j \in 1..Len(wheel'[q]), NEW k \in 1..Len(wheel'[q]),
                 j < k, wheel'[q][j].expire = wheel'[q][k].expire
          PROVE  <<wheel'[q][j].n, wheel'[q][k].n>> \in before'
      <4>1. wheel'[q] = wheel[q]
        BY <2>5
      <4> QED
        BY <1>1, <3>1, <4>1 DEF Inv, Ordered, Sorted
    <3>3. ASSUME NEW j \in 1..Len(moving'), NEW k \in 1..Len(moving'),
                 j < k, moving'[j].expire = moving'[k].expire
          PROVE  <<moving'[j].n, moving'[k].n>> \in before'
      BY <1>1, <2>1, <2>2, <3>3 DEF Inv, Ordered, Sorted
    <3>2. ASSUME NEW q \in Places, NEW j \in 1..Len(wheel'[q]), NEW k \in 1..Len(moving'),
                 wheel'[q][j].expire = moving'[k].expire
          PROVE  FALSE
      <4>1. q # p /\ j \in 1..Len(wheel[q]) /\ wheel'[q][j] = wheel[q][j]
        BY <2>5
      <4>2. PlaceOf(wheel[q][j].expire, time) = q
        BY <4>1 DEF Inv, OnWheel
      <4>3. PlaceOf(wheel[p][k].expire, time) = p
        BY <2>1, <2>2 DEF Inv, OnWheel
      <4> QED
        BY <2>1, <3>2, <4>1, <4>2, <4>3
    <3> QED
      BY <1>7, <3>1, <3>2, <3>3 DEF Ordered, Sorted
  <2> QED
    BY <1>6, <1>8, <2>4, <2>7, <2>8, <2>9, <2>10 DEF Inv
<1> QED
  BY <1>10, <1>11 DEF Shift

LEMMA MoveNodeKeeps ==
  ASSUME Inv, MoveNode
  PROVE  Inv'
<1>1. /\ place = "move" /\ moving # <<>> /\ wheel' = AddNode(wheel, Head(moving), time)
      /\ moving' = Tail(moving) /\ UNCHANGED <<time, ticks, place, firing, left, before>>
  BY DEF MoveNode
<1>2. moving \in Seq(Node)
  BY DEF Inv, TypeOK
<1> DEFINE x == moving[1]  q == PlaceOf(x.expire, time)  last == Len(wheel[q]) + 1
<1>3. /\ moving' \in Seq(Node) /\ Head(moving) = x /\ x \in Node
      /\ Len(moving) \in Nat \ {0} /\ Len(moving) = Len(moving') + 1
      /\ \A k \in 1..Len(moving') : moving'[k] = moving[k + 1]
  BY <1>1, <1>2, TailAt
<1>4. /\ 1 \in 1..Len(moving)
      /\ \A k \in 1..Len(moving') : k + 1 \in 1..Len(moving) /\ k + 1 > 1
      /\ \A k \in 1..Len(moving) : k = 1 \/ (k - 1 \in 1..Len(moving') /\ (k - 1) + 1 = k)
  BY <1>3
<1> HIDE DEF x
<1>5. /\ wheel' \in [Places -> Seq(Node)] /\ q \in Places
      /\ \A p \in Places : \A k \in 1..Len(wheel'[p]) :
           \/ k \in 1..Len(wheel[p]) /\ wheel'[p][k] = wheel[p][k]
           \/ p = q /\ k = last /\ wheel'[p][k] = x
      /\ \A p \in Places : \A k \in 1..Len(wheel[p]) :
           k \in 1..Len(wheel'[p]) /\ wheel'[p][k] = wheel[p][k]
      /\ last \in 1..Len(wheel'[q]) /\ wheel'[q][last] = x
  BY <1>1, <1>3, Added DEF Inv
<1>6. \A p \in Places : Len(wheel[p]) \in Nat
  BY DEF Inv, TypeOK
<1>7. x.n \in DOMAIN left /\ x.expire = (time + left[x.n]) % Word
  BY <1>4 DEF Inv, InMove, Set, x
<1>8. q = PlaceOf(x.expire, time)
  OBVIOUS
<1> HIDE DEF q, last
<1>9. TypeOK'
  BY <1>1, <1>3, <1>5 DEF Inv, TypeOK
<1>10. Counting' /\ Strict'
  BY <1>1 DEF Inv, Counting, Strict
<1>11. OnWheel'
  <2> SUFFICES ASSUME NEW p \in Places, NEW k \in 1..Len(wheel'[p])
               PROVE  /\ wheel'[p][k].n \in DOMAIN left
                      /\ wheel'[p][k].expire = (time + left[wheel'[p][k].n]) % Word
                      /\ PlaceOf(wheel'[p][k].expire, time) = p
    BY <1>1 DEF OnWheel, Set
  <2>1. CASE k \in 1..Len(wheel[p]) /\ wheel'[p][k] = wheel[p][k]
    BY <2>1 DEF Inv, OnWheel, Set
  <2>2. CASE p = q /\ k = last /\ wheel'[p][k] = x
    BY <1>7, <1>8, <2>2
  <2> QED
    BY <1>5, <2>1, <2>2
<1>12. InMove'
  BY <1>1, <1>3, <1>4 DEF Inv, InMove, Set
<1>13. Fired'
  BY <1>1 DEF Inv, Fired
<1>14. Kept'
  <2> SUFFICES ASSUME NEW n \in DOMAIN left
               PROVE  Has(moving', n) \/ Has(firing, n) \/ \E p \in Places : Has(wheel'[p], n)
    BY <1>1 DEF Kept, Has
  <2>1. \A p \in Places : Has(wheel[p], n) => Has(wheel'[p], n)
    BY <1>5 DEF Has
  <2>2. Has(moving, n) => Has(moving', n) \/ Has(wheel'[q], n)
    <3> SUFFICES ASSUME NEW k \in 1..Len(moving), moving[k].n = n
                 PROVE  Has(moving', n) \/ Has(wheel'[q], n)
      BY DEF Has
    <3>1. CASE k = 1
      BY <1>5, <3>1 DEF Has, x
    <3>2. CASE k - 1 \in 1..Len(moving') /\ (k - 1) + 1 = k
      BY <1>3, <3>2 DEF Has
    <3> QED
      BY <1>4, <3>1, <3>2
  <2>3. Has(moving, n) \/ Has(firing, n) \/ \E p \in Places : Has(wheel[p], n)
    BY DEF Inv, Kept
  <2> QED
    BY <1>5, <2>1, <2>2, <2>3
<1>15. Ordered'
  <2>1. ASSUME NEW p \in Places, NEW j \in 1..Len(wheel'[p]), NEW k \in 1..Len(wheel'[p]),
               j < k, wheel'[p][j].expire = wheel'[p][k].expire
        PROVE  <<wheel'[p][j].n, wheel'[p][k].n>> \in before
    <3>1. CASE k \in 1..Len(wheel[p]) /\ wheel'[p][k] = wheel[p][k]
      <4>1. j \in 1..Len(wheel[p]) /\ wheel'[p][j] = wheel[p][j]
        BY <1>5, <1>6, <2>1, <3>1
      <4> QED
        BY <2>1, <3>1, <4>1 DEF Inv, Ordered, Sorted
    <3>2. CASE p = q /\ k = last /\ wheel'[p][k] = x
      <4>1. j \in 1..Len(wheel[p]) /\ wheel'[p][j] = wheel[p][j]
        BY <1>5, <2>1, <3>2
      <4> QED
        BY <1>4, <2>1, <3>2, <4>1 DEF Inv, Ordered, x
    <3> QED
      BY <1>5, <3>1, <3>2
  <2>2. ASSUME NEW j \in 1..Len(moving'), NEW k \in 1..Len(moving'), j < k,
               moving'[j].expire = moving'[k].expire
        PROVE  <<moving'[j].n, moving'[k].n>> \in before
    <3>1. j + 1 \in 1..Len(moving) /\ k + 1 \in 1..Len(moving) /\ j + 1 < k + 1
      BY <1>4, <2>2
    <3> QED
      BY <1>3, <2>2, <3>1 DEF Inv, Ordered, Sorted
  <2>3. ASSUME NEW p \in Places, NEW j \in 1..Len(wheel'[p]), NEW k \in 1..Len(moving'),
               wheel'[p][j].expire = moving'[k].expire
        PROVE  <<wheel'[p][j].n, moving'[k].n>> \in before
    <3>1. k + 1 \in 1..Len(moving) /\ k + 1 > 1 /\ moving'[k] = moving[k + 1]
      BY <1>3, <1>4
    <3>2. CASE j \in 1..Len(wheel[p]) /\ wheel'[p][j] = wheel[p][j]
      BY <2>3, <3>1, <3>2 DEF Inv, Ordered
    <3>3. CASE wheel'[p][j] = x
      BY <1>4, <2>3, <3>1, <3>3 DEF Inv, Ordered, Sorted, x
    <3> QED
      BY <1>5, <3>2, <3>3
  <2>4. \A j, k \in 1..Len(firing) : j < k => <<firing[j].n, firing[k].n>> \in before
    BY DEF Inv, Ordered
  <2> QED
    BY <1>1, <2>1, <2>2, <2>3, <2>4 DEF Ordered, Sorted
<1> QED
  BY <1>9, <1>10, <1>11, <1>12, <1>13, <1>14, <1>15 DEF Inv

LEMMA ExecuteKeeps ==
  ASSUME Inv, Execute
  PROVE  Inv'
<1> DEFINE q == <<0, time % Near>>
<1>1. /\ place = "move" /\ moving = <<>> /\ firing' = wheel[q]
      /\ wheel' = [wheel EXCEPT ![q] = <<>>] /\ place' = "execute"
      /\ UNCHANGED <<time, ticks, moving, left, before>>
  BY DEF Execute, TakeOff
<1>2. q \in Places
  BY NearIn DEF Inv
<1>3. /\ \A k \in 1..Len(wheel[q]) : left[wheel[q][k].n] = 0
      /\ \A p \in Places : \A k \in 1..Len(wheel[p]) : p # q => left[wheel[p][k].n] # 0
  BY <1>2, Due DEF Inv
<1> HIDE DEF q
<1>4. /\ wheel' \in [Places -> Seq(Node)]
      /\ \A p \in Places : p # q => wheel'[p] = wheel[p]
      /\ \A p \in Places : \A k \in 1..Len(wheel'[p]) : p # q
  BY <1>1, <1>2, Cleared DEF Inv
<1>5. \A p \in Places : \A k \in 1..Len(wheel'[p]) :
        k \in 1..Len(wheel[p]) /\ wheel'[p] = wheel[p] /\ left[wheel[p][k].n] # 0
  BY <1>3, <1>4
<1>6. firing = <<>> /\ moving' = <<>> /\ \A k : k \notin 1..Len(moving') /\ k \notin 1..Len(firing)
  <2>1. firing = <<>> /\ moving' = <<>>
    BY <1>1 DEF Inv, Fired
  <2> QED
    BY <2>1
<1>7. TypeOK'
  BY <1>1, <1>2, <1>4 DEF Inv, TypeOK
<1>8. Counting' /\ Strict'
  BY <1>1 DEF Inv, Counting, Strict
<1>9. OnWheel'
  BY <1>1, <1>5 DEF Inv, OnWheel, Set
<1>10. InMove'
  BY <1>6 DEF InMove
<1>11. Fired'
  BY <1>1, <1>2, <1>3 DEF Inv, Fired, OnWheel, Set
<1>12. Kept'
  <2> SUFFICES ASSUME NEW n \in DOMAIN left
               PROVE  Has(firing', n) \/ \E p \in Places : Has(wheel'[p], n)
    BY <1>1 DEF Kept
  <2>1. PICK p \in Places : Has(wheel[p], n)
    BY <1>1, <1>6 DEF Inv, Kept, Has
  <2> QED
    BY <1>1, <1>4, <2>1
<1>13. Ordered'
  <2>1. ASSUME NEW p \in Places, NEW j \in 1..Len(wheel'[p]), NEW k \in 1..Len(wheel'[p]),
               j < k, wheel'[p][j].expire = wheel'[p][k].expire
        PROVE  <<wheel'[p][j].n, wheel'[p][k].n>> \in before'
    <3>1. wheel'[p] = wheel[p]
      BY <1>5
    <3> QED
      BY <1>1, <2>1, <3>1 DEF Inv, Ordered, Sorted
  <2>2. ASSUME NEW j \in 1..Len(firing'), NEW k \in 1..Len(firing'), j < k
        PROVE  <<firing'[j].n, firing'[k].n>> \in before'
    <3>1. \A i \in 1..Len(wheel[q]) : wheel[q][i].expire = (time + 0) % Word
      BY <1>2, <1>3 DEF Inv, OnWheel, Set
    <3>2. Sorted(wheel[q])
      BY <1>2 DEF Inv, Ordered
    <3> QED
      BY <1>1, <2>2, <3>1, <3>2 DEF Sorted
  <2> QED
    BY <1>6, <2>1, <2>2 DEF Ordered, Sorted
<1> QED
  BY <1>7, <1>8, <1>9, <1>10, <1>11, <1>12, <1>13 DEF Inv

\* What is dispatched was set before the rest of the list, and is due.
LEMMA Dispatched ==
  ASSUME Inv, Dispatch
  PROVE  LET n == firing[1].n
         IN  /\ place = "execute" /\ moving = <<>> /\ 1 \in 1..Len(firing)
             /\ n \in DOMAIN left /\ left[n] = 0 /\ <<n, n>> \notin before
             /\ firing' \in Seq(Node)
             /\ \A k \in 1..Len(firing') :
                  k + 1 \in 1..Len(firing) /\ k + 1 > 1 /\ firing'[k] = firing[k + 1]
             /\ \A k \in 1..Len(firing) :
                  k = 1 \/ (k - 1 \in 1..Len(firing') /\ (k - 1) + 1 = k)
             /\ \A k \in 1..Len(firing) : k # 1 => <<n, firing[k].n>> \in before
             /\ left' = [k \in DOMAIN left \ {n} |-> left[k]]
             /\ before' = {r \in before : n \notin {r[1], r[2]}}
<1>1. /\ firing # <<>> /\ firing' = Tail(firing)
      /\ left' = [k \in DOMAIN left \ {Head(firing).n} |-> left[k]]
      /\ before' = {r \in before : Head(firing).n \notin {r[1], r[2]}}
  BY DEF Dispatch
<1>2. place = "execute" /\ moving = <<>>
  BY <1>1 DEF Inv, Fired, InMove
<1>3. /\ firing' \in Seq(Node) /\ Head(firing) = firing[1]
      /\ Len(firing) \in Nat \ {0} /\ Len(firing) = Len(firing') + 1
      /\ \A k \in 1..Len(firing') : firing'[k] = firing[k + 1]
  BY <1>1, TailAt DEF Inv, TypeOK
<1>4. Len(firing') \in Nat
  BY <1>3
<1>5. /\ 1 \in 1..Len(firing)
      /\ \A k \in 1..Len(firing') : k + 1 \in 1..Len(firing) /\ k + 1 > 1
      /\ \A k \in 1..Len(firing) : k = 1 \/ (k - 1 \in 1..Len(firing') /\ (k - 1) + 1 = k)
      /\ \A k \in 1..Len(firing) : k # 1 => 1 < k
  BY <1>3, <1>4
<1>6. firing[1].n \in DOMAIN left /\ left[firing[1].n] = 0
  BY <1>5 DEF Inv, Fired
<1>7. <<firing[1].n, firing[1].n>> \notin before
  BY <1>6 DEF Inv, Strict
<1>8. \A k \in 1..Len(firing) : k # 1 => <<firing[1].n, firing[k].n>> \in before
  BY <1>5 DEF Inv, Ordered
<1> QED
  BY <1>1, <1>2, <1>3, <1>5, <1>6, <1>7, <1>8

LEMMA DispatchKeeps ==
  ASSUME Inv, Dispatch
  PROVE  Inv'
<1> DEFINE n == firing[1].n
<1>1. UNCHANGED <<wheel, time, ticks, place, moving>>
  BY DEF Dispatch
<1>2. /\ place = "execute" /\ moving = <<>> /\ 1 \in 1..Len(firing)
      /\ n \in DOMAIN left /\ left[n] = 0 /\ <<n, n>> \notin before
      /\ firing' \in Seq(Node)
      /\ \A k \in 1..Len(firing') :
           k + 1 \in 1..Len(firing) /\ k + 1 > 1 /\ firing'[k] = firing[k + 1]
      /\ \A k \in 1..Len(firing) :
           k = 1 \/ (k - 1 \in 1..Len(firing') /\ (k - 1) + 1 = k)
      /\ \A k \in 1..Len(firing) : k # 1 => <<n, firing[k].n>> \in before
      /\ left' = [k \in DOMAIN left \ {n} |-> left[k]]
      /\ before' = {r \in before : n \notin {r[1], r[2]}}
  BY Dispatched
<1>3. \A k \in 1..Len(firing) : k = 1 => firing[k].n = n
  OBVIOUS
<1> HIDE DEF n
<1>4. DOMAIN left' = DOMAIN left \ {n} /\ \A k \in DOMAIN left : k # n => left'[k] = left[k]
  BY <1>2
<1>5. \A a, b : <<a, b>> \in before /\ a # n /\ b # n => <<a, b>> \in before'
  BY <1>2
<1>6. \A p \in Places : \A k \in 1..Len(wheel[p]) :
        Set(wheel[p][k]) /\ wheel[p][k].n # n /\ left[wheel[p][k].n] # 0
        /\ PlaceOf(wheel[p][k].expire, time) = p
  BY <1>2 DEF Inv, OnWheel
<1>7. \A k \in 1..Len(firing') :
        firing'[k].n \in DOMAIN left /\ firing'[k].n # n /\ left[firing'[k].n] = 0
  BY <1>2 DEF Inv, Fired
<1>8. moving' = <<>> /\ \A k : k \notin 1..Len(moving')
  BY <1>1, <1>2
<1>9. TypeOK'
  BY <1>1, <1>2, <1>4 DEF Inv, TypeOK
<1>10. Counting'
  BY <1>1 DEF Inv, Counting
<1>11. Strict'
  BY <1>2, <1>4 DEF Inv, Strict
<1>12. OnWheel'
  BY <1>1, <1>4, <1>6 DEF OnWheel, Set
<1>13. InMove'
  BY <1>8 DEF InMove
<1>14. Fired'
  BY <1>1, <1>2, <1>4, <1>7 DEF Fired
<1>15. Kept'
  <2> SUFFICES ASSUME NEW k \in DOMAIN left'
               PROVE  Has(firing', k) \/ \E p \in Places : Has(wheel[p], k)
    BY <1>1 DEF Kept
  <2>1. k \in DOMAIN left /\ k # n
    BY <1>4
  <2>2. ~Has(moving, k)
    BY <1>1, <1>8 DEF Has
  <2>3. Has(firing, k) => Has(firing', k)
    <3> SUFFICES ASSUME NEW i \in 1..Len(firing), firing[i].n = k
                 PROVE  Has(firing', k)
      BY DEF Has
    <3>1. i # 1
      BY <1>3, <2>1
    <3>2. i - 1 \in 1..Len(firing') /\ firing'[i - 1] = firing[i]
      BY <1>2, <3>1
    <3> QED
      BY <3>2 DEF Has
  <2> QED
    BY <2>1, <2>2, <2>3 DEF Inv, Kept
<1>16. Ordered'
  <2>1. ASSUME NEW p \in Places, NEW j \in 1..Len(wheel'[p]), NEW k \in 1..Len(wheel'[p]),
               j < k, wheel'[p][j].expire = wheel'[p][k].expire
        PROVE  <<wheel'[p][j].n, wheel'[p][k].n>> \in before'
    <3>1. wheel' = wheel
      BY <1>1
    <3>2. <<wheel[p][j].n, wheel[p][k].n>> \in before
      BY <2>1, <3>1 DEF Inv, Ordered, Sorted
    <3> QED
      BY <1>5, <1>6, <3>1, <3>2
  <2>2. ASSUME NEW j \in 1..Len(firing'), NEW k \in 1..Len(firing'), j < k
        PROVE  <<firing'[j].n, firing'[k].n>> \in before'
    <3>1. /\ j + 1 \in 1..Len(firing) /\ k + 1 \in 1..Len(firing) /\ j + 1 < k + 1
          /\ firing'[j] = firing[j + 1] /\ firing'[k] = firing[k + 1]
      BY <1>2, <2>2
    <3>2. <<firing'[j].n, firing'[k].n>> \in before
      BY <3>1 DEF Inv, Ordered
    <3> QED
      BY <1>5, <1>7, <3>2
  <2> QED
    BY <1>8, <2>1, <2>2 DEF Ordered, Sorted
<1> QED
  BY <1>9, <1>10, <1>11, <1>12, <1>13, <1>14, <1>15, <1>16 DEF Inv

\* Nothing that is due has been added while the lock was free.
LEMMA ExecuteOnKeeps ==
  ASSUME Inv, ExecuteOn
  PROVE  Inv'
<1>1. wheel[<<0, time % Near>>] = <<>>
  BY NothingDue DEF ExecuteOn
<1>2. /\ place = "execute" /\ firing = <<>> /\ place' = "idle" /\ ticks' = ticks - 1
      /\ UNCHANGED <<wheel, firing, time, moving, left, before>>
  BY <1>1 DEF ExecuteOn
<1>3. ticks' \in Nat
  BY <1>2 DEF Inv, TypeOK, Counting
<1>4. TypeOK'
  BY <1>2, <1>3 DEF Inv, TypeOK
<1>5. Counting' /\ Strict'
  BY <1>2 DEF Inv, Counting, Strict
<1>6. OnWheel'
  BY <1>2 DEF Inv, OnWheel, Set
<1>7. InMove'
  BY <1>2 DEF Inv, InMove, Set
<1>8. Fired'
  BY <1>2 DEF Inv, Fired
<1>9. Kept'
  BY <1>2 DEF Inv, Kept, Has
<1>10. Ordered'
  BY <1>2 DEF Inv, Ordered, Sorted
<1> QED
  BY <1>4, <1>5, <1>6, <1>7, <1>8, <1>9, <1>10 DEF Inv

LEMMA StutterKeeps ==
  ASSUME Inv, UNCHANGED vars
  PROVE  Inv'
<1>1. UNCHANGED <<wheel, time, ticks, place, moving, firing, left, before>>
  BY DEF vars
<1>2. TypeOK' /\ Counting' /\ Strict'
  BY <1>1 DEF Inv, TypeOK, Counting, Strict
<1>3. OnWheel' /\ InMove'
  BY <1>1 DEF Inv, OnWheel, InMove, Set
<1>4. Fired' /\ Kept'
  BY <1>1 DEF Inv, Fired, Kept, Has
<1>5. Ordered'
  BY <1>1 DEF Inv, Ordered, Sorted
<1> QED
  BY <1>2, <1>3, <1>4, <1>5 DEF Inv

LEMMA StepInv ==
  ASSUME Inv, [Next]_vars
  PROVE  Inv'
<1>1. CASE Next
  BY <1>1, TimeoutKeeps, UpdateTimeKeeps, ShiftKeeps, MoveNodeKeeps, ExecuteKeeps,
     DispatchKeeps, ExecuteOnKeeps DEF Next
<1>2. CASE UNCHANGED vars
  BY <1>2, StutterKeeps
<1> QED
  BY <1>1, <1>2

\* What every step of the timer's thread and of those that add timers keeps:
\* the lists are the right ones for what they hold and in order, and no timer
\* is lost.
THEOREM Invariant == Spec => []Inv
<1>1. Init => Inv
  BY InitInv
<1>2. Inv /\ [Next]_vars => Inv'
  BY StepInv
<1> QED
  BY <1>1, <1>2, PTL DEF Spec

\* A timer is dispatched in the tick that skynet_timeout set it for, neither
\* earlier nor later, also beyond the wrap of T->time and when it was added
\* while timer_execute had given up the lock.
THEOREM InTime == Spec => []DueOnTime
<1>1. ASSUME Inv, place # "move", NEW n \in DOMAIN left, left[n] = 0
      PROVE  Has(firing, n)
  <2>1. moving = <<>>
    BY <1>1 DEF Inv, InMove
  <2>2. ~Has(moving, n)
    BY <2>1 DEF Has
  <2>3. \A p \in Places : ~Has(wheel[p], n)
    BY <1>1 DEF Inv, OnWheel, Has
  <2> QED
    BY <1>1, <2>2, <2>3 DEF Inv, Kept
<1>2. ASSUME Inv, NEW n \in DOMAIN left, Has(firing, n)
      PROVE  left[n] = 0
  BY <1>2 DEF Inv, Fired, Has
<1>3. Inv => DueOnTime
  BY <1>1, <1>2 DEF DueOnTime, Has
<1> QED
  BY <1>3, Invariant, PTL

\* When timer_update begins, the list of the current tick is empty: its first
\* timer_execute has nothing to do, and Shift, which asks for this, is never
\* held up by it.
THEOREM NothingMissed == Spec => [](place = "idle" => wheel[<<0, time % Near>>] = <<>>)
<1>1. Inv => (place = "idle" => wheel[<<0, time % Near>>] = <<>>)
  BY NothingDue
<1> QED
  BY <1>1, Invariant, PTL

\* dispatch_list takes the timers of one tick in the order in which they were
\* set, whatever lists they have come through.
THEOREM InTurn == Spec => InOrder
<1> DEFINE Turns == \A n \in DOMAIN left \ DOMAIN left' :
                      \A k \in DOMAIN left : <<k, n>> \in before => left[k] # 0
<1>1. ASSUME Inv, Next
      PROVE  Turns
  <2>1. CASE \E d \in 1..Longest : Timeout(d)
    BY <2>1 DEF Timeout
  <2>2. CASE \E d \in 1..MaxDiff : UpdateTime(d)
    BY <2>2 DEF UpdateTime
  <2>3. CASE Shift
    BY <2>3 DEF Shift
  <2>4. CASE MoveNode
    BY <2>4 DEF MoveNode
  <2>5. CASE Execute
    BY <2>5 DEF Execute
  <2>6. CASE ExecuteOn
    BY <2>6 DEF ExecuteOn
  <2>7. CASE Dispatch
    <3> SUFFICES ASSUME NEW n \in DOMAIN left \ DOMAIN left', NEW k \in DOMAIN left,
                        <<k, n>> \in before, left[k] = 0
                 PROVE  FALSE
      OBVIOUS
    <3>1. n = firing[1].n /\ place = "execute" /\ moving = <<>>
      BY <2>7, <1>1, Dispatched
    <3>2. ~Has(moving, k) /\ \A p \in Places : ~Has(wheel[p], k)
      BY <1>1, <3>1 DEF Inv, OnWheel, Has
    <3>3. PICK i \in 1..Len(firing) : firing[i].n = k
      BY <1>1, <3>2 DEF Inv, Kept, Has
    <3>4. k = n \/ <<n, k>> \in before
      BY <1>1, <2>7, <3>1, <3>3, Dispatched
    <3> QED
      BY <1>1, <3>4 DEF Inv, Strict
  <2> QED
    BY <1>1, <2>1, <2>2, <2>3, <2>4, <2>5, <2>6, <2>7 DEF Next
<1>2. Inv /\ [Next]_vars => [Turns]_vars
  BY <1>1
<1> QED
  BY <1>2, Invariant, PTL DEF Spec, InOrder
=============================================================================
