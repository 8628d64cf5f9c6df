--------------------------- MODULE ServiceProofs ----------------------------
(***************************************************************************)
(* Theorems about services, for every number of workers, of services and   *)
(* of messages: a queue is in one place, and a context lives for as long   *)
(* as it is referred to.  Both rest on counting: a step moves one thread,  *)
(* and what it adds to one count it takes from another, or from ref.       *)
(***************************************************************************)
EXTENDS Service, FiniteSetTheorems, SequenceTheorems, TLAPS

-----------------------------------------------------------------------------
(* Counting.                                                               *)

One(b) == IF b THEN 1 ELSE 0

\* If only x moves into or out of a set, the count changes by it.
LEMMA CountOne ==
  ASSUME NEW W, IsFiniteSet(W), NEW S \in SUBSET W, NEW T \in SUBSET W, NEW x,
         \A y \in W : y # x => (y \in S <=> y \in T)
  PROVE  /\ IsFiniteSet(S) /\ Cardinality(S) \in Nat
         /\ IsFiniteSet(T) /\ Cardinality(T) \in Nat
         /\ Cardinality(T) + (IF x \in S THEN 1 ELSE 0) =
              Cardinality(S) + (IF x \in T THEN 1 ELSE 0)
<1>1. IsFiniteSet(S) /\ Cardinality(S) \in Nat /\ IsFiniteSet(T) /\ Cardinality(T) \in Nat
  BY FS_Subset, FS_CardinalityType
<1>2. CASE x \in S /\ x \notin T
  <2>1. T = S \ {x}
    BY <1>2
  <2> QED
    BY <1>1, <1>2, <2>1, FS_RemoveElement
<1>3. CASE x \notin S /\ x \in T
  <2>1. T = S \cup {x}
    BY <1>3
  <2> QED
    BY <1>1, <1>3, <2>1, FS_AddElement
<1>4. CASE (x \in S) <=> (x \in T)
  <2>1. S = T
    BY <1>4
  <2> QED
    BY <1>1, <2>1, <1>4
<1> QED
  BY <1>2, <1>3, <1>4

\* A set that x is in counts one at least, and with a second element two.
LEMMA CountTwo ==
  ASSUME NEW S, IsFiniteSet(S), NEW x \in S
  PROVE  /\ Cardinality(S) \in Nat /\ Cardinality(S) >= 1
         /\ \A y \in S : y # x => Cardinality(S) >= 2
<1>1. IsFiniteSet(S \ {x}) /\ Cardinality(S) = Cardinality(S \ {x}) + 1
      /\ Cardinality(S \ {x}) \in Nat /\ Cardinality(S) \in Nat
  BY FS_RemoveElement, FS_CardinalityType
<1>2. ASSUME NEW y \in S, y # x PROVE Cardinality(S \ {x}) # 0
  BY <1>1, <1>2, FS_EmptySet
<1> QED
  BY <1>1, <1>2

LEMMA CountNone ==
  ASSUME NEW S, IsFiniteSet(S)
  PROVE  Cardinality(S) \in Nat /\ (Cardinality(S) = 0 <=> S = {})
  BY FS_CardinalityType, FS_EmptySet

-----------------------------------------------------------------------------
(* Remainders.                                                             *)

LEMMA DivMod ==
  ASSUME NEW n \in Nat \ {0}, NEW a \in Nat
  PROVE  a % n \in 0..n - 1 /\ a \div n \in Nat /\ a = n * (a \div n) + (a % n)
<1>1. a % n \in 0..n - 1
  OBVIOUS
<1>2. a \div n \in Int /\ a % n \in Int
  OBVIOUS
<1>4. a = n * (a \div n) + (a % n)
  OBVIOUS
<1>3. a \div n >= 0
  <2>1. CASE a \div n < 0
    <3> DEFINE k == -(a \div n) - 1
    <3>1. k \in Nat /\ a \div n = -1 - k
      BY <1>2, <2>1
    <3>2. n * k \in Nat
      BY <3>1
    <3>3. n * (a \div n) = -n - n * k
      BY <3>1
    <3> HIDE DEF k
    <3> QED
      BY <1>1, <1>2, <1>4, <3>2, <3>3
  <2> QED
    BY <1>2, <2>1
<1> QED
  BY <1>1, <1>2, <1>3, <1>4

LEMMA Multiples ==
  ASSUME NEW n \in Nat \ {0}, NEW x \in Int, NEW y \in Int, x > y
  PROVE  n * x \in Int /\ n * y \in Int /\ n * x >= n * y + n
<1> DEFINE k == x - y - 1
<1>1. k \in Nat /\ x = y + 1 + k
  OBVIOUS
<1>2. n * k \in Nat /\ n * x \in Int /\ n * y \in Int
  BY <1>1
<1>3. n * x = n * y + n + n * k
  BY <1>1
<1> HIDE DEF k
<1> QED
  BY <1>2, <1>3

LEMMA ModOf ==
  ASSUME NEW n \in Nat \ {0}, NEW a \in Nat, NEW q \in Nat, NEW r \in 0..n - 1, a = n * q + r
  PROVE  a % n = r
<1> DEFINE p == a \div n
           s == a % n
           x == n * p
           y == n * q
<1>1. a = x + s /\ s \in 0..n - 1 /\ p \in Nat
  BY DivMod
<1>2. a = y + r /\ x \in Int /\ y \in Int
  BY <1>1
<1>3. p > q => x >= y + n
  BY <1>1, Multiples
<1>4. q > p => y >= x + n
  BY <1>1, Multiples
<1>5. p = q => x = y
  OBVIOUS
<1> HIDE DEF p, s, x, y
<1>6. s = r
  BY <1>1, <1>2, <1>3, <1>4, <1>5
<1> QED
  BY <1>6 DEF s

LEMMA ModDouble ==
  ASSUME NEW n \in Nat \ {0}, NEW a \in Nat
  PROVE  (a % (2 * n)) % n = a % n
<1> DEFINE d == 2 * n
           b == a % d
           k == a \div d
           j == b \div n
           r == b % n
<1>0. d \in Nat \ {0}
  OBVIOUS
<1>1. b \in Nat /\ k \in Nat /\ a = d * k + b
  <2> HIDE DEF d
  <2> QED
    BY <1>0, DivMod
<1> HIDE DEF b, k
<1>2. j \in Nat /\ b = n * j + r /\ r \in 0..n - 1
  BY <1>1, DivMod
<1> HIDE DEF j, r
<1> DEFINE q == 2 * k + j
<1>3. n * q = (2 * n) * k + n * j /\ q \in Nat
  BY <1>1, <1>2
<1> HIDE DEF q
<1> DEFINE x == (2 * n) * k
           y == n * j
           z == n * q
<1>4. x \in Nat /\ y \in Nat /\ z \in Nat /\ a = x + b /\ b = y + r /\ z = x + y
  BY <1>1, <1>2, <1>3
<1>5. a = z + r
  <2> HIDE DEF x, y, z
  <2> QED
    BY <1>2, <1>4
<1>6. a % n = r
  BY <1>2, <1>3, <1>5, ModOf
<1> QED
  BY <1>6 DEF b, r

\* Of n numbers in a row, one has the remainder r.
Tried(n, a, r) == \E h \in a..a + n - 1 : h % n = r

LEMMA Window ==
  ASSUME NEW n \in Nat \ {0}, NEW a \in Nat, NEW r \in 0..n - 1
  PROVE  Tried(n, a, r)
<1> DEFINE q == a \div n
           m == a % n
<1>1. q \in Nat /\ m \in 0..n - 1 /\ a = n * q + m
  BY DivMod
<1> HIDE DEF q, m
<1> DEFINE x == n * q
           p == q + 1
<1>2. x \in Nat /\ n * p = x + n /\ p \in Nat /\ a = x + m
  BY <1>1
<1> HIDE DEF p
<1>3. CASE r >= m
  <2> DEFINE h == x + r
  <2>1. h \in a..a + n - 1
    <3> HIDE DEF x
    <3> QED
      BY <1>1, <1>2, <1>3
  <2>2. h % n = r
    <3>1. h \in Nat /\ h = n * q + r
      BY <1>1, <2>1
    <3> HIDE DEF h
    <3> QED
      BY <1>1, <3>1, ModOf
  <2> QED
    BY <2>1, <2>2 DEF Tried
<1>4. CASE r < m
  <2> DEFINE h == n * p + r
  <2>1. h \in a..a + n - 1
    <3> HIDE DEF x
    <3> QED
      BY <1>1, <1>2, <1>4
  <2>2. h % n = r
    <3>1. h \in Nat /\ h = n * p + r
      BY <1>2, <2>1
    <3> HIDE DEF h
    <3> QED
      BY <1>2, <3>1, ModOf
  <2> QED
    BY <2>1, <2>2 DEF Tried
<1> QED
  BY <1>1, <1>3, <1>4 DEF Tried

\* A set of numbers that is not empty has a least one.
LEMMA Least ==
  ASSUME NEW S \in SUBSET Nat, S # {}
  PROVE  \E h \in S : \A k \in S : h <= k
<1> DEFINE Below(h) == {k \in Nat : k < h}
           T == {Below(h) : h \in S}
<1>1. ASSUME NEW h \in Nat PROVE Below(h) \in SUBSET Nat /\ IsFiniteSet(Below(h))
  <2>1. Below(h) \subseteq 0..h /\ Below(h) \in SUBSET Nat
    OBVIOUS
  <2>2. IsFiniteSet(0..h)
    BY FS_Interval
  <2> HIDE DEF Below
  <2> QED
    BY <2>1, <2>2, FS_Subset
<1>2. T \subseteq FiniteSubsetsOf(Nat) /\ T # {}
  BY <1>1 DEF FiniteSubsetsOf
<1>3. PICK x \in T : \A y \in T : <<y, x>> \notin StrictSubsetOrdering(Nat)
  <2>1. IsWellFoundedOn(StrictSubsetOrdering(Nat), FiniteSubsetsOf(Nat))
    BY FS_StrictSubsetOrderingWellFounded
  <2> HIDE DEF T
  <2> QED
    BY <1>2, <2>1, WFMin
<1>4. PICK h \in S : x = Below(h)
  OBVIOUS
<1>5. ASSUME NEW k \in S, k < h PROVE FALSE
  <2>1. Below(k) \subseteq x /\ Below(k) # x /\ Below(k) \in SUBSET Nat /\ x \in SUBSET Nat
    <3>1. k \in x /\ k \notin Below(k)
      BY <1>4, <1>5
    <3> QED
      BY <1>4, <1>5, <3>1
  <2>2. Below(k) \in T
    OBVIOUS
  <2> HIDE DEF T, Below
  <2>3. <<Below(k), x>> \in StrictSubsetOrdering(Nat)
    BY <2>1 DEF StrictSubsetOrdering
  <2> QED
    BY <1>3, <2>2, <2>3
<1> QED
  BY <1>5

-----------------------------------------------------------------------------
(* Types.                                                                  *)

Ctx == Contexts \cup {0}

Msg == [from : Ctx, n : Nat, error : BOOLEAN]

QueueType ==
  [state : {"none", "live", "freed"}, msgs : Seq(Msg), inGlobal : BOOLEAN, release : BOOLEAN]

LaunchSteps ==
  {"learn", "init", "release", "ready", "push", "pushGone", "failed", "retire", "retired", "drop"}

RetireOp == [kind : {"retire"}, step : {"release"}, c : Contexts, h : {0}]
LaunchOp == [kind : {"launch"}, step : LaunchSteps, c : Contexts, h : Nat]
ReportOp == [kind : {"launched"}, step : {"report"}, c : Contexts, h : {0}]
OpType   == {NoOp} \cup RetireOp \cup LaunchOp \cup ReportOp

SndType == {NoSnd} \cup [step : {"push", "release"}, c : Contexts, m : Msg]

\* Where a worker refers to the context of the queue it has.
AtContext == {"first", "next", "length", "call", "look", "swap", "keep", "empty"}
PcType == AtContext \cup {"idle", "tired", "asleep", "over", "grab"}

MqType == global \in Seq(Contexts) /\ queue \in [Contexts -> QueueType]

TableType ==
  /\ Size \in Nat \ {0} /\ slot \in [0..Size - 1 -> Ctx]
  /\ handleIndex \in Nat \ {0} /\ handle \in [Contexts -> Nat]

CtxType ==
  ref \in [Contexts -> Nat] /\ alive \in [Contexts -> BOOLEAN] /\ init \in [Contexts -> BOOLEAN]

WorkerType == pc \in [Workers -> PcType] /\ held \in [Workers -> Ctx] /\ rest \in [Workers -> Nat]

CallType ==
  /\ op \in [Threads -> OpType] /\ drop \in [Threads -> Ctx]
  /\ snd \in [Threads -> SndType] /\ rel \in [Threads -> Ctx]

TypeInv == MqType /\ TableType /\ CtxType /\ WorkerType /\ CallType /\ sends \in Nat

LEMMA OpFields ==
  /\ NoOp.kind = "none" /\ NoOp.step = "none" /\ NoOp.c = 0 /\ NoOp.h = 0
  /\ \A o \in OpType : /\ o.kind \in {"none", "retire", "launch", "launched"}
                       /\ o.kind = "none" <=> o = NoOp
                       /\ o.kind = "none" <=> o.c = 0
                       /\ o.kind # "none" => o.c \in Contexts
                       /\ o.kind = "retire" => o.step = "release"
                       /\ o.kind = "launch" => o.step \in LaunchSteps /\ o.h \in Nat
                       /\ o.kind = "launched" => o.step = "report"
                       /\ o.c \in Ctx
<1> USE ServiceAssumption DEF NoOp, OpType
<1>1. NoOp.kind = "none" /\ NoOp.step = "none" /\ NoOp.c = 0 /\ NoOp.h = 0
  OBVIOUS
<1>2. \A o \in RetireOp : o.kind = "retire" /\ o.step = "release" /\ o.c \in Contexts
  BY DEF RetireOp
<1>3. \A o \in LaunchOp : o.kind = "launch" /\ o.step \in LaunchSteps /\ o.c \in Contexts /\ o.h \in Nat
  BY DEF LaunchOp
<1>4. \A o \in ReportOp : o.kind = "launched" /\ o.step = "report" /\ o.c \in Contexts
  BY DEF ReportOp
<1> HIDE DEF NoOp
<1> QED
  BY <1>1, <1>2, <1>3, <1>4 DEF Ctx

LEMMA LaunchedFields ==
  ASSUME NEW c \in Contexts
  PROVE  /\ Launched(c) \in ReportOp /\ Launched(c).c = c
         /\ Launched(c).kind = "launched" /\ Launched(c).step = "report"
  BY DEF Launched, NoOp, ReportOp

LEMMA SndFields ==
  /\ NoSnd.step = "none" /\ NoSnd.c = 0
  /\ \A s \in SndType : /\ s.step \in {"none", "push", "release"}
                        /\ s.step = "none" <=> s = NoSnd
                        /\ s.step = "none" <=> s.c = 0
                        /\ s.step # "none" => s.c \in Contexts /\ s.m \in Msg
<1> USE ServiceAssumption DEF NoSnd
<1>1. NoSnd.step = "none" /\ NoSnd.c = 0
  OBVIOUS
<1> DEFINE Sent == [step : {"push", "release"}, c : Contexts, m : Msg]
<1>2. \A s \in Sent : s.step \in {"push", "release"} /\ s.c \in Contexts /\ s.m \in Msg
  OBVIOUS
<1> HIDE DEF NoSnd, Sent
<1>3. SndType = {NoSnd} \cup Sent
  BY DEF SndType, Sent
<1> QED
  BY <1>1, <1>2, <1>3

LEMMA QueueFields ==
  /\ \A q \in QueueType : /\ q.state \in {"none", "live", "freed"} /\ q.msgs \in Seq(Msg)
                          /\ q.inGlobal \in BOOLEAN /\ q.release \in BOOLEAN
  /\ NoQueue \in QueueType /\ NewQueue \in QueueType
  /\ NewQueue.state = "live" /\ NewQueue.inGlobal /\ ~NewQueue.release /\ NewQueue.msgs = <<>>
  /\ NoQueue.state = "none" /\ ~NoQueue.inGlobal /\ ~NoQueue.release /\ NoQueue.msgs = <<>>
<1>1. /\ \A q \in QueueType : /\ q.state \in {"none", "live", "freed"} /\ q.msgs \in Seq(Msg)
                               /\ q.inGlobal \in BOOLEAN /\ q.release \in BOOLEAN
  BY DEF QueueType
<1>2. <<>> \in Seq(Msg)
  OBVIOUS
<1>3. /\ NoQueue \in QueueType
      /\ NoQueue.state = "none" /\ ~NoQueue.inGlobal /\ ~NoQueue.release /\ NoQueue.msgs = <<>>
  BY <1>2 DEF NoQueue, QueueType
<1>4. NewQueue.state = "live" /\ NewQueue.inGlobal /\ ~NewQueue.release /\ NewQueue.msgs = <<>>
  BY DEF NewQueue, NoQueue
<1>5. NewQueue \in QueueType
  BY <1>2 DEF NewQueue, NoQueue, QueueType
<1> QED
  BY <1>1, <1>3, <1>4, <1>5

-----------------------------------------------------------------------------
(* What a thread adds to the places of a queue, and to the references.     *)

Hands(w, c) ==
  /\ w \in Workers
  /\ \/ held[w] = c /\ pc[w] \notin {"empty", "keep"}
     \/ held[w] = c /\ pc[w] = "keep" /\ rest[w] = 0
     \/ pc[w] \in {"swap", "keep"} /\ rest[w] = c

Drops(t, c) == drop[t] = c

Launches(t, c) == op[t].kind = "launch" /\ op[t].c = c

Works(w, c) == w \in Workers /\ held[w] = c /\ pc[w] \in AtContext

Pushes(t, c) == snd[t].c = c

Ends(t, c) ==
  op[t].c = c /\ \/ op[t].kind = "retire"
                 \/ op[t].step \in {"learn", "init", "release", "failed", "retired"}

Spot(t, c) == One(Hands(t, c)) + One(Drops(t, c))
Made(t, c) == One(Launches(t, c))
Use(t, c)  == One(Works(t, c)) + One(Pushes(t, c)) + One(Ends(t, c))

\* The counts of a context: entries in the global queue, queues in hands or
\* dropped, launches; entries in the table, and the references of threads.
InList(c)  == Cardinality(InGlobal(c))
Near(c)    == Cardinality(InHands(c)) + Cardinality(Dropping(c))
Making(c)  == Cardinality(Launching(c))
Listed(c)  == Cardinality(InTable(c))
Used(c)    == Cardinality(Working(c)) + Cardinality(Pushing(c)) + Cardinality(Ending(c))

LEMMA Sets ==
  /\ Workers \subseteq Threads /\ IsFiniteSet(Workers) /\ IsFiniteSet(Threads)
  /\ \A c : /\ InHands(c) = {t \in Threads : Hands(t, c)}
            /\ Dropping(c) = {t \in Threads : Drops(t, c)}
            /\ Launching(c) = {t \in Threads : Launches(t, c)}
            /\ Working(c) = {t \in Threads : Works(t, c)}
            /\ Pushing(c) = {t \in Threads : Pushes(t, c)}
            /\ Ending(c) = {t \in Threads : Ends(t, c)}
<1>1. Workers \subseteq Threads /\ IsFiniteSet(Workers) /\ IsFiniteSet(Threads)
  BY ServiceAssumption, FS_Union DEF Threads
<1>2. ASSUME NEW c PROVE InHands(c) = {t \in Threads : Hands(t, c)}
  BY <1>1 DEF InHands, Hands
<1>3. ASSUME NEW c PROVE Working(c) = {t \in Threads : Works(t, c)}
  BY <1>1 DEF Working, Works, AtContext
<1>4. ASSUME NEW c PROVE /\ Dropping(c) = {t \in Threads : Drops(t, c)}
                         /\ Launching(c) = {t \in Threads : Launches(t, c)}
                         /\ Pushing(c) = {t \in Threads : Pushes(t, c)}
                         /\ Ending(c) = {t \in Threads : Ends(t, c)}
  BY DEF Dropping, Drops, Launching, Launches, Pushing, Pushes, Ending, Ends
<1> QED
  BY <1>1, <1>2, <1>3, <1>4

\* No thread but t moves.
OnlyMoves(t) ==
  \A u \in Threads \ {t} :
    /\ op'[u] = op[u] /\ drop'[u] = drop[u] /\ snd'[u] = snd[u]
    /\ u \in Workers => pc'[u] = pc[u] /\ held'[u] = held[u] /\ rest'[u] = rest[u]

LEMMA CountStep ==
  ASSUME NEW t \in Threads, OnlyMoves(t), NEW c
  PROVE  /\ Near(c) \in Nat /\ Near(c)' \in Nat
         /\ Making(c) \in Nat /\ Making(c)' \in Nat
         /\ Used(c) \in Nat /\ Used(c)' \in Nat
         /\ Near(c)' + Spot(t, c) = Near(c) + Spot(t, c)'
         /\ Making(c)' + Made(t, c) = Making(c) + Made(t, c)'
         /\ Used(c)' + Use(t, c) = Used(c) + Use(t, c)'
<1>1. \A u \in Threads : u # t =>
        /\ Hands(u, c) <=> Hands(u, c)'
        /\ Drops(u, c) <=> Drops(u, c)'
        /\ Launches(u, c) <=> Launches(u, c)'
        /\ Works(u, c) <=> Works(u, c)'
        /\ Pushes(u, c) <=> Pushes(u, c)'
        /\ Ends(u, c) <=> Ends(u, c)'
  BY DEF OnlyMoves, Hands, Drops, Launches, Works, Pushes, Ends
<1>2. /\ InHands(c)' = {u \in Threads : Hands(u, c)'}
      /\ Dropping(c)' = {u \in Threads : Drops(u, c)'}
      /\ Launching(c)' = {u \in Threads : Launches(u, c)'}
      /\ Working(c)' = {u \in Threads : Works(u, c)'}
      /\ Pushing(c)' = {u \in Threads : Pushes(u, c)'}
      /\ Ending(c)' = {u \in Threads : Ends(u, c)'}
  <2>1. InHands(c)' = {u \in Threads : Hands(u, c)'}
    BY Sets DEF InHands, Hands
  <2>2. Working(c)' = {u \in Threads : Works(u, c)'}
    BY Sets DEF Working, Works, AtContext
  <2> QED
    BY <2>1, <2>2 DEF Dropping, Drops, Launching, Launches, Pushing, Pushes, Ending, Ends
<1>3. /\ Cardinality(InHands(c)) \in Nat /\ Cardinality(InHands(c)') \in Nat
      /\ Cardinality(InHands(c)') + One(Hands(t, c)) = Cardinality(InHands(c)) + One(Hands(t, c)')
  <2>1. InHands(c) = {u \in Threads : Hands(u, c)}
    BY Sets
  <2>2. /\ InHands(c) \in SUBSET Threads /\ InHands(c)' \in SUBSET Threads
        /\ \A y \in Threads : y # t => (y \in InHands(c) <=> y \in InHands(c)')
        /\ t \in InHands(c) <=> Hands(t, c)
        /\ t \in InHands(c)' <=> Hands(t, c)'
    BY <1>1, <1>2, <2>1
  <2>3. /\ Cardinality(InHands(c)) \in Nat /\ Cardinality(InHands(c)') \in Nat
        /\ Cardinality(InHands(c)') + (IF t \in InHands(c) THEN 1 ELSE 0) =
             Cardinality(InHands(c)) + (IF t \in InHands(c)' THEN 1 ELSE 0)
    <3>1. IsFiniteSet(Threads)
      BY Sets
    <3>2. /\ InHands(c) \in SUBSET Threads /\ InHands(c)' \in SUBSET Threads
          /\ \A y \in Threads : y # t => (y \in InHands(c) <=> y \in InHands(c)')
      BY <2>2
    <3> QED
      BY <3>1, <3>2, CountOne
  <2> QED
    BY <2>2, <2>3 DEF One
<1>4. /\ Cardinality(Dropping(c)) \in Nat /\ Cardinality(Dropping(c)') \in Nat
      /\ Cardinality(Dropping(c)') + One(Drops(t, c)) = Cardinality(Dropping(c)) + One(Drops(t, c)')
  <2>1. Dropping(c) = {u \in Threads : Drops(u, c)}
    BY Sets
  <2> QED
    BY <1>1, <1>2, <2>1, Sets, CountOne DEF One
<1>5. /\ Cardinality(Launching(c)) \in Nat /\ Cardinality(Launching(c)') \in Nat
      /\ Cardinality(Launching(c)') + Made(t, c) = Cardinality(Launching(c)) + Made(t, c)'
  <2>1. Launching(c) = {u \in Threads : Launches(u, c)}
    BY Sets
  <2> QED
    BY <1>1, <1>2, <2>1, Sets, CountOne DEF One, Made
<1>6. /\ Cardinality(Working(c)) \in Nat /\ Cardinality(Working(c)') \in Nat
      /\ Cardinality(Working(c)') + One(Works(t, c)) = Cardinality(Working(c)) + One(Works(t, c)')
  <2>1. Working(c) = {u \in Threads : Works(u, c)}
    BY Sets
  <2> QED
    BY <1>1, <1>2, <2>1, Sets, CountOne DEF One
<1>7. /\ Cardinality(Pushing(c)) \in Nat /\ Cardinality(Pushing(c)') \in Nat
      /\ Cardinality(Pushing(c)') + One(Pushes(t, c)) = Cardinality(Pushing(c)) + One(Pushes(t, c)')
  <2>1. Pushing(c) = {u \in Threads : Pushes(u, c)}
    BY Sets
  <2> QED
    BY <1>1, <1>2, <2>1, Sets, CountOne DEF One
<1>8. /\ Cardinality(Ending(c)) \in Nat /\ Cardinality(Ending(c)') \in Nat
      /\ Cardinality(Ending(c)') + One(Ends(t, c)) = Cardinality(Ending(c)) + One(Ends(t, c)')
  <2>1. Ending(c) = {u \in Threads : Ends(u, c)}
    BY Sets
  <2> QED
    BY <1>1, <1>2, <2>1, Sets, CountOne DEF One
<1>9. \A b \in BOOLEAN : One(b) \in Nat
  BY DEF One
<1>10. Near(c) \in Nat /\ Near(c)' \in Nat /\ Near(c)' + Spot(t, c) = Near(c) + Spot(t, c)'
  BY <1>3, <1>4 DEF Near, Spot, One
<1>11. /\ Making(c) \in Nat /\ Making(c)' \in Nat
       /\ Making(c)' + Made(t, c) = Making(c) + Made(t, c)'
  BY <1>5 DEF Making
<1>12. Used(c) \in Nat /\ Used(c)' \in Nat /\ Used(c)' + Use(t, c) = Used(c) + Use(t, c)'
  BY <1>6, <1>7, <1>8 DEF Used, Use, One
<1> QED
  BY <1>10, <1>11, <1>12

\* A thread at a place or with a reference is counted, and two are two.
LEMMA Counts ==
  ASSUME NEW t \in Threads, NEW c
  PROVE  /\ Near(c) \in Nat /\ Making(c) \in Nat /\ Used(c) \in Nat
         /\ Hands(t, c) \/ Drops(t, c) => Near(c) >= 1
         /\ Launches(t, c) => Making(c) >= 1
         /\ Works(t, c) \/ Pushes(t, c) \/ Ends(t, c) => Used(c) >= 1
         /\ \A u \in Threads : u # t /\ Hands(t, c) /\ Hands(u, c) => Near(c) >= 2
         /\ \A u \in Threads : u # t /\ Launches(t, c) /\ Launches(u, c) => Making(c) >= 2
<1>1. /\ IsFiniteSet(InHands(c)) /\ IsFiniteSet(Dropping(c)) /\ IsFiniteSet(Launching(c))
      /\ IsFiniteSet(Working(c)) /\ IsFiniteSet(Pushing(c)) /\ IsFiniteSet(Ending(c))
  BY Sets, FS_Subset
<1>2. /\ Cardinality(InHands(c)) \in Nat /\ Cardinality(Dropping(c)) \in Nat
      /\ Cardinality(Launching(c)) \in Nat /\ Cardinality(Working(c)) \in Nat
      /\ Cardinality(Pushing(c)) \in Nat /\ Cardinality(Ending(c)) \in Nat
  BY <1>1, FS_CardinalityType
<1>3. /\ Hands(t, c) => Cardinality(InHands(c)) >= 1
      /\ \A u \in Threads : u # t /\ Hands(t, c) /\ Hands(u, c) => Cardinality(InHands(c)) >= 2
  BY <1>1, Sets, CountTwo
<1>4. /\ Launches(t, c) => Cardinality(Launching(c)) >= 1
      /\ \A u \in Threads : u # t /\ Launches(t, c) /\ Launches(u, c) => Cardinality(Launching(c)) >= 2
  BY <1>1, Sets, CountTwo
<1>5. /\ Drops(t, c) => Cardinality(Dropping(c)) >= 1
      /\ Works(t, c) => Cardinality(Working(c)) >= 1
      /\ Pushes(t, c) => Cardinality(Pushing(c)) >= 1
      /\ Ends(t, c) => Cardinality(Ending(c)) >= 1
  BY <1>1, Sets, CountTwo
<1> QED
  BY <1>2, <1>3, <1>4, <1>5 DEF Near, Making, Used

LEMMA CountTypes ==
  ASSUME NEW c
  PROVE  Near(c) \in Nat /\ Making(c) \in Nat /\ Used(c) \in Nat
<1>1. /\ IsFiniteSet(InHands(c)) /\ IsFiniteSet(Dropping(c)) /\ IsFiniteSet(Launching(c))
      /\ IsFiniteSet(Working(c)) /\ IsFiniteSet(Pushing(c)) /\ IsFiniteSet(Ending(c))
  BY Sets, FS_Subset
<1>2. /\ Cardinality(InHands(c)) \in Nat /\ Cardinality(Dropping(c)) \in Nat
      /\ Cardinality(Launching(c)) \in Nat /\ Cardinality(Working(c)) \in Nat
      /\ Cardinality(Pushing(c)) \in Nat /\ Cardinality(Ending(c)) \in Nat
  BY <1>1, FS_CardinalityType
<1> QED
  BY <1>2 DEF Near, Making, Used

LEMMA NoneNear ==
  ASSUME NEW c
  PROVE  Near(c) = 0 <=> InHands(c) = {} /\ Dropping(c) = {}
<1>1. IsFiniteSet(InHands(c)) /\ IsFiniteSet(Dropping(c))
  BY Sets, FS_Subset
<1> QED
  BY <1>1, CountNone DEF Near

\* Near is the same if nothing of it changes, whichever threads move.
LEMMA NearSame ==
  ASSUME NEW c, \A t \in Threads : /\ Hands(t, c) <=> Hands(t, c)'
                                   /\ Works(t, c) <=> Works(t, c)',
         UNCHANGED callVars
  PROVE  Near(c)' = Near(c) /\ Making(c)' = Making(c) /\ Used(c)' = Used(c)
<1>1. InHands(c)' = {u \in Threads : Hands(u, c)'} /\ Working(c)' = {u \in Threads : Works(u, c)'}
  <2>1. InHands(c)' = {u \in Threads : Hands(u, c)'}
    BY Sets DEF InHands, Hands
  <2>2. Working(c)' = {u \in Threads : Works(u, c)'}
    BY Sets DEF Working, Works, AtContext
  <2> QED
    BY <2>1, <2>2
<1>2. InHands(c)' = InHands(c) /\ Working(c)' = Working(c)
  BY <1>1, Sets
<1>3. Dropping(c)' = Dropping(c) /\ Launching(c)' = Launching(c) /\ Pushing(c)' = Pushing(c)
      /\ Ending(c)' = Ending(c)
  BY DEF callVars, Dropping, Launching, Pushing, Ending
<1> QED
  BY <1>2, <1>3 DEF Near, Making, Used

-----------------------------------------------------------------------------
(* The global queue.                                                       *)

LEMMA ListFinite ==
  ASSUME NEW s \in Seq(Contexts), NEW c
  PROVE  LET I == {i \in 1..Len(s) : s[i] = c}
         IN  IsFiniteSet(I) /\ Cardinality(I) \in Nat
<1>1. IsFiniteSet(1..Len(s))
  BY FS_Interval
<1> QED
  BY <1>1, FS_Subset, FS_CardinalityType

LEMMA ListSame ==
  ASSUME global \in Seq(Contexts), NEW c
  PROVE  InList(c) \in Nat /\ (InList(c) = 0 <=> InGlobal(c) = {})
<1>1. IsFiniteSet(InGlobal(c))
  BY ListFinite DEF InGlobal
<1> QED
  BY <1>1, CountNone DEF InList

LEMMA ListPush ==
  ASSUME global \in Seq(Contexts), NEW d \in Contexts, GlobalPush(d), NEW c \in Contexts
  PROVE  /\ global' \in Seq(Contexts)
         /\ InList(c) \in Nat
         /\ InList(c)' = InList(c) + One(c = d)
<1>1. /\ global' \in Seq(Contexts) /\ Len(global') = Len(global) + 1
      /\ global'[Len(global) + 1] = d
      /\ \A i \in 1..Len(global) : global'[i] = global[i]
  BY DEF GlobalPush
<1>2. IsFiniteSet(InGlobal(c)) /\ InList(c) \in Nat
  BY ListFinite DEF InGlobal, InList
<1>3. Len(global) + 1 \notin InGlobal(c) /\ Len(global) \in Nat
  BY DEF InGlobal
<1>4. CASE c = d
  <2>1. InGlobal(c)' = InGlobal(c) \cup {Len(global) + 1}
    BY <1>1, <1>3, <1>4 DEF InGlobal
  <2>2. Cardinality(InGlobal(c) \cup {Len(global) + 1}) = Cardinality(InGlobal(c)) + 1
    BY <1>2, <1>3, FS_AddElement
  <2>3. InList(c) = Cardinality(InGlobal(c)) /\ InList(c)' = Cardinality(InGlobal(c)')
    BY DEF InList
  <2> QED
    BY <1>1, <1>2, <1>4, <2>1, <2>2, <2>3 DEF One
<1>5. CASE c # d
  <2>1. InGlobal(c)' = InGlobal(c)
    BY <1>1, <1>3, <1>5 DEF InGlobal
  <2> QED
    BY <1>1, <1>2, <1>5, <2>1 DEF InList, One
<1> QED
  BY <1>4, <1>5

\* What is behind the first entry, counted from there.
LEMMA ListPop ==
  ASSUME global \in Seq(Contexts), NEW d, GlobalPop(d), NEW c \in Contexts
  PROVE  /\ global' \in Seq(Contexts) /\ d \in Contexts
         /\ InList(c) \in Nat /\ InList(c)' \in Nat
         /\ InList(c) = InList(c)' + One(c = d)
<1>1. /\ global' \in Seq(Contexts) /\ d \in Contexts /\ d = global[1]
      /\ Len(global) = Len(global') + 1 /\ Len(global') \in Nat
      /\ \A i \in 1..Len(global') : global'[i] = global[i + 1]
  BY DEF GlobalPop
<1> DEFINE Rest == InGlobal(c) \ {1}
<1>2. IsFiniteSet(InGlobal(c)) /\ InList(c) \in Nat /\ IsFiniteSet(InGlobal(c)')
  BY <1>1, ListFinite DEF InGlobal, InList
<1>3. InList(c)' \in Nat /\ Cardinality(Rest) = InList(c)' /\ IsFiniteSet(Rest)
  <2>1. Rest \subseteq Nat /\ \A i \in Rest : i - 1 \in InGlobal(c)'
    BY <1>1 DEF InGlobal
  <2>2. \A i \in InGlobal(c)' : i \in Nat /\ i + 1 \in Rest
    BY <1>1 DEF InGlobal
  <2>3. [i \in InGlobal(c)' |-> i + 1] \in Bijection(InGlobal(c)', Rest)
    <3> DEFINE f == [i \in InGlobal(c)' |-> i + 1]
    <3>1. f \in [InGlobal(c)' -> Rest]
      BY <2>2
    <3>2. \A i, j \in InGlobal(c)' : f[i] = f[j] => i = j
      BY <2>2
    <3>3. \A j \in Rest : \E i \in InGlobal(c)' : f[i] = j
      <4> SUFFICES ASSUME NEW j \in Rest PROVE f[j - 1] = j /\ j - 1 \in InGlobal(c)'
        OBVIOUS
      <4> QED
        BY <2>1
    <3> QED
      BY <3>1, <3>2, <3>3 DEF Bijection, Injection, Surjection, IsInjective
  <2> QED
    BY <1>2, <2>3, FS_Bijection, FS_CardinalityType DEF ExistsBijection, InList
<1> HIDE DEF Rest
<1>4. InList(c) = Cardinality(InGlobal(c))
  BY DEF InList
<1>5. CASE c = d
  <2>1. 1 \in InGlobal(c)
    BY <1>1, <1>5 DEF InGlobal
  <2>2. Cardinality(InGlobal(c) \ {1}) = Cardinality(InGlobal(c)) - 1
    BY <1>2, <2>1, FS_RemoveElement
  <2>3. Cardinality(Rest) = InList(c) - 1
    BY <1>4, <2>2 DEF Rest
  <2> QED
    BY <1>1, <1>2, <1>3, <1>5, <2>3 DEF One
<1>6. CASE c # d
  <2>1. Rest = InGlobal(c)
    BY <1>1, <1>6 DEF InGlobal, Rest
  <2> QED
    BY <1>1, <1>2, <1>3, <1>4, <1>6, <2>1 DEF One
<1> QED
  BY <1>5, <1>6

-----------------------------------------------------------------------------
(* The invariant.                                                          *)

Sums(c) == InList(c) + Near(c) + Making(c)

\* OnePlace, by the counts.
PlaceInv(c) ==
  /\ queue[c].state = "live" /\ (queue[c].inGlobal \/ queue[c].release) => Sums(c) = 1
  /\ queue[c].state = "live" /\ ~queue[c].inGlobal /\ ~queue[c].release =>
       Sums(c) = 0 /\ queue[c].msgs = <<>>
  /\ queue[c].state = "freed" => Sums(c) = 0
  /\ queue[c].state = "none" => InList(c) = 0 /\ Near(c) = 0

RefInv(c) == ref[c] = Listed(c) + Used(c)

\* A callback is in one call at a time, and only the launcher's launches; who
\* does not know its handle yet has no queue.
CallInv(t) ==
  /\ op[t] # NoOp => t \in Workers /\ pc[t] = "call" /\ drop[t] = 0
  /\ op[t].kind = "launch" =>
       held[t] \in Launchers /\ (op[t].step = "learn" <=> queue[op[t].c].state = "none")
  /\ snd[t] # NoSnd => queue[snd[t].c].state # "none"
  /\ t \in Outside => drop[t] = 0

LoopInv(w) ==
  /\ pc[w] \in AtContext \cup {"grab"} => held[w] \in Contexts
  /\ pc[w] = "next" => rest[w] # 0
  /\ pc[w] = "look" => rest[w] = 0
  /\ pc[w] = "swap" => rest[w] # 0
  /\ pc[w] \in {"swap", "keep"} => rest[w] \in Ctx /\ rest[w] # held[w]

Learns(t, c) == op[t].step = "learn" /\ op[t].c = c

\* A context is in the slot of its handle, or of the one it is to have.
TableInv ==
  /\ \A c \in Contexts : handle[c] # 0 => queue[c].state # "none"
  /\ \A i \in 0..Size - 1 : slot[i] # 0 =>
       \/ handle[slot[i]] # 0 /\ handle[slot[i]] % Size = i
       \/ handle[slot[i]] = 0 /\ \E t \in Threads : Learns(t, slot[i]) /\ op[t].h % Size = i
  /\ \A t \in Threads : op[t].kind = "launch" =>
       IF op[t].step = "learn"
         THEN op[t].h # 0 /\ handle[op[t].c] = 0 /\ slot[op[t].h % Size] = op[t].c
         ELSE handle[op[t].c] # 0

\* The queue of a context is marked when the context is deleted.
AliveInv(c) ==
  /\ queue[c].state = "none" => /\ ~queue[c].release /\ ~init[c]
                                /\ alive[c] <=> \E t \in Threads : Learns(t, c)
  /\ queue[c].state = "live" => (queue[c].release <=> ~alive[c])
  /\ queue[c].state = "freed" => queue[c].release /\ ~alive[c]

\* Who gives the last reference back deletes the context, nobody else.
RelInv(c) ==
  /\ ref[c] > 0 => alive[c]
  /\ \A t \in Threads : rel[t] = c => alive[c] /\ ref[c] = 0
  /\ \A t, u \in Threads : rel[t] = c /\ rel[u] = c => t = u
  /\ alive[c] /\ ref[c] = 0 => \E t \in Threads : rel[t] = c

Starting(t, c) ==
  /\ op[t].kind = "launch" /\ op[t].c = c
  /\ op[t].step \in {"learn", "init", "release", "ready", "failed", "retire"}

\* Before its init no worker is at a context, and it is in the table only
\* while somebody launches it.
StartInv(c) ==
  ~init[c] => /\ \A t \in Threads : ~Works(t, c)
              /\ Listed(c) # 0 => \E t \in Threads : Starting(t, c)

CtxInv(c) == AliveInv(c) /\ RelInv(c) /\ StartInv(c) /\ RefInv(c) /\ PlaceInv(c)

IInv ==
  /\ TypeInv /\ TableInv
  /\ \A t \in Threads : CallInv(t)
  /\ \A w \in Workers : LoopInv(w)
  /\ \A c \in Contexts : CtxInv(c)

-----------------------------------------------------------------------------
(* What follows from it.                                                   *)

LEMMA ModRange ==
  ASSUME NEW n \in Nat \ {0}, NEW h \in Nat
  PROVE  h % n \in 0..n - 1
  OBVIOUS

LEMMA TableFinite ==
  ASSUME TableType, NEW c
  PROVE  /\ DOMAIN slot = 0..Size - 1 /\ IsFiniteSet(InTable(c))
         /\ Listed(c) \in Nat /\ (Listed(c) = 0 <=> InTable(c) = {})
<1>1. DOMAIN slot = 0..Size - 1
  BY DEF TableType
<1>2. IsFiniteSet(InTable(c))
  <2>1. IsFiniteSet(0..Size - 1)
    BY FS_Interval DEF TableType
  <2>2. InTable(c) \subseteq 0..Size - 1
    BY <1>1 DEF InTable
  <2> QED
    BY <2>1, <2>2, FS_Subset
<1> QED
  BY <1>1, <1>2, CountNone DEF Listed

LEMMA FoundListed ==
  ASSUME TableType, NEW c \in Contexts, Found(c)
  PROVE  handle[c] % Size \in InTable(c) /\ Listed(c) >= 1
<1>1. handle[c] % Size \in 0..Size - 1
  BY ModRange DEF TableType
<1>2. handle[c] % Size \in InTable(c)
  BY <1>1, TableFinite DEF Found, InTable
<1> QED
  BY <1>2, TableFinite, CountTwo DEF Listed

\* Who is found, or referred to by a thread, is there and is not deleted.
LEMMA Referred ==
  ASSUME IInv, NEW c \in Contexts,
         Found(c) \/ \E t \in Threads : Works(t, c) \/ Pushes(t, c) \/ Ends(t, c)
  PROVE  /\ ref[c] \in Nat /\ ref[c] >= 1 /\ alive[c]
         /\ \A t \in Threads : rel[t] # c
         /\ queue[c].state # "none" => queue[c].state = "live" /\ ~queue[c].release
         /\ Found(c) => queue[c].state = "live" /\ ~queue[c].release
<1> USE DEF IInv, CtxInv
<1>1. Listed(c) \in Nat /\ Used(c) \in Nat
  BY TableFinite, CountTypes DEF TypeInv
<1>2. ref[c] \in Nat /\ ref[c] >= 1
  <2>1. CASE Found(c)
    BY <1>1, <2>1, FoundListed DEF TypeInv, RefInv
  <2>2. CASE \E t \in Threads : Works(t, c) \/ Pushes(t, c) \/ Ends(t, c)
    BY <1>1, <2>2, Counts DEF TypeInv, RefInv
  <2> QED
    BY <2>1, <2>2
<1>3. alive[c] /\ \A t \in Threads : rel[t] # c
  BY <1>2 DEF RelInv
<1>4. queue[c].state \in {"none", "live", "freed"}
  BY QueueFields DEF TypeInv, MqType
<1>5. Found(c) => queue[c].state # "none"
  BY DEF Found, TableInv
<1> QED
  BY <1>2, <1>3, <1>4, <1>5 DEF AliveInv

\* A queue in somebody's hands is in no other place.
LEMMA Placed ==
  ASSUME IInv, NEW c \in Contexts, NEW t \in Threads,
         \/ Hands(t, c) \/ Drops(t, c)
         \/ Launches(t, c) /\ op[t].step # "learn"
  PROVE  /\ queue[c].state = "live" /\ (queue[c].inGlobal \/ queue[c].release)
         /\ Sums(c) = 1
         /\ InList(c) \in Nat /\ Near(c) \in Nat /\ Making(c) \in Nat
<1> USE DEF IInv, CtxInv
<1>1. InList(c) \in Nat /\ Near(c) \in Nat /\ Making(c) \in Nat
  BY ListSame, Counts DEF TypeInv, MqType
<1>2. Sums(c) >= 1 /\ queue[c].state # "none"
  <2>1. CASE Hands(t, c) \/ Drops(t, c)
    BY <1>1, <2>1, Counts DEF Sums, PlaceInv
  <2>2. CASE Launches(t, c) /\ op[t].step # "learn"
    BY <1>1, <2>2, Counts DEF Sums, CallInv, Launches
  <2> QED
    BY <2>1, <2>2
<1>3. queue[c].state \in {"none", "live", "freed"}
  BY QueueFields DEF TypeInv, MqType
<1> QED
  BY <1>1, <1>2, <1>3 DEF PlaceInv

\* One launcher: two threads that launch would both have its queue.
LEMMA OneLauncher ==
  ASSUME IInv, NEW t \in Workers, pc[t] = "call", held[t] \in Launchers,
         NEW u \in Threads, op[u].kind = "launch"
  PROVE  u = t
<1> USE DEF IInv
<1>1. op[u] # NoOp
  BY OpFields
<1>2. u \in Workers /\ pc[u] = "call" /\ held[u] = held[t] /\ t \in Threads
  BY <1>1, ServiceAssumption, Sets DEF CallInv
<1>3. held[t] \in Contexts
  BY <1>2 DEF LoopInv, AtContext
<1>4. Hands(t, held[t]) /\ Hands(u, held[t])
  BY <1>2 DEF Hands
<1>5. u # t => Near(held[t]) >= 2
  BY <1>2, <1>4, Counts
<1> QED
  BY <1>2, <1>3, <1>4, <1>5, Placed DEF Sums

-----------------------------------------------------------------------------
(* What the operations of the queues and of ref do.                        *)

LEMMA ListKept ==
  ASSUME MqType, UNCHANGED global, NEW c
  PROVE  InList(c) \in Nat /\ InList(c)' = InList(c)
  BY ListSame DEF MqType, InList, InGlobal

LEMMA PushEffect ==
  ASSUME MqType, NEW d \in Contexts, NEW m \in Msg, MqPush(d, m)
  PROVE  /\ MqType'
         /\ \A c \in Contexts : c # d => queue'[c] = queue[c]
         /\ queue'[d].state = queue[d].state /\ queue'[d].release = queue[d].release
         /\ queue'[d].inGlobal /\ queue'[d].msgs = Append(queue[d].msgs, m)
         /\ \A c \in Contexts :
              InList(c) \in Nat /\ InList(c)' = InList(c) + One(c = d /\ ~queue[d].inGlobal)
<1>1. queue[d] \in QueueType /\ Append(queue[d].msgs, m) \in Seq(Msg)
  BY QueueFields DEF MqType
<1>2. /\ queue' \in [Contexts -> QueueType]
      /\ \A c \in Contexts : c # d => queue'[c] = queue[c]
      /\ queue'[d].state = queue[d].state /\ queue'[d].release = queue[d].release
      /\ queue'[d].inGlobal /\ queue'[d].msgs = Append(queue[d].msgs, m)
  BY <1>1 DEF MqPush, MqType, QueueType
<1>3. CASE queue[d].inGlobal
  <2>1. global' = global
    BY <1>3 DEF MqPush
  <2> QED
    BY <1>2, <1>3, <2>1, ListKept DEF MqType, One
<1>4. CASE ~queue[d].inGlobal
  <2>1. GlobalPush(d)
    BY <1>4 DEF MqPush
  <2> QED
    BY <1>2, <1>4, <2>1, ListPush DEF MqType, One
<1> QED
  BY <1>3, <1>4

LEMMA MarkEffect ==
  ASSUME MqType, NEW d \in Contexts, MqMarkRelease(d)
  PROVE  /\ MqType'
         /\ \A c \in Contexts : c # d => queue'[c] = queue[c]
         /\ queue'[d].state = queue[d].state /\ queue'[d].inGlobal = queue[d].inGlobal
         /\ queue'[d].release /\ queue'[d].msgs = queue[d].msgs
         /\ \A c \in Contexts :
              InList(c) \in Nat /\ InList(c)' = InList(c) + One(c = d /\ ~queue[d].inGlobal)
<1>1. queue[d] \in QueueType
  BY DEF MqType
<1>2. /\ queue' \in [Contexts -> QueueType]
      /\ \A c \in Contexts : c # d => queue'[c] = queue[c]
      /\ queue'[d].state = queue[d].state /\ queue'[d].inGlobal = queue[d].inGlobal
      /\ queue'[d].release /\ queue'[d].msgs = queue[d].msgs
  BY <1>1 DEF MqMarkRelease, MqType, QueueType
<1>3. CASE queue[d].inGlobal
  <2>1. global' = global
    BY <1>3 DEF MqMarkRelease
  <2> QED
    BY <1>2, <1>3, <2>1, ListKept DEF MqType, One
<1>4. CASE ~queue[d].inGlobal
  <2>1. GlobalPush(d)
    BY <1>4 DEF MqMarkRelease
  <2> QED
    BY <1>2, <1>4, <2>1, ListPush DEF MqType, One
<1> QED
  BY <1>3, <1>4

LEMMA PopEffect ==
  ASSUME MqType, NEW d \in Contexts, NEW m, MqPop(d, m)
  PROVE  /\ MqType' /\ m \in Msg
         /\ \A c \in Contexts : c # d => queue'[c] = queue[c]
         /\ queue'[d].state = queue[d].state /\ queue'[d].inGlobal = queue[d].inGlobal
         /\ queue'[d].release = queue[d].release
         /\ \A c \in Contexts : InList(c) \in Nat /\ InList(c)' = InList(c)
<1>1. queue[d] \in QueueType /\ m \in Msg /\ Tail(queue[d].msgs) \in Seq(Msg)
  BY QueueFields DEF MqType, MqPop
<1>2. /\ queue' \in [Contexts -> QueueType]
      /\ \A c \in Contexts : c # d => queue'[c] = queue[c]
      /\ queue'[d].state = queue[d].state /\ queue'[d].inGlobal = queue[d].inGlobal
      /\ queue'[d].release = queue[d].release
  BY <1>1 DEF MqPop, MqType, QueueType
<1>3. global' = global
  BY DEF MqPop
<1> QED
  BY <1>1, <1>2, <1>3, ListSame DEF MqType, InList, InGlobal

LEMMA PopEmptyEffect ==
  ASSUME MqType, NEW d \in Contexts, MqPopEmpty(d)
  PROVE  /\ MqType'
         /\ \A c \in Contexts : c # d => queue'[c] = queue[c]
         /\ queue'[d].state = queue[d].state /\ queue'[d].release = queue[d].release
         /\ ~queue'[d].inGlobal /\ queue'[d].msgs = <<>>
         /\ \A c \in Contexts : InList(c) \in Nat /\ InList(c)' = InList(c)
<1>1. queue[d] \in QueueType
  BY DEF MqType
<1>2. /\ queue' \in [Contexts -> QueueType]
      /\ \A c \in Contexts : c # d => queue'[c] = queue[c]
      /\ queue'[d].state = queue[d].state /\ queue'[d].release = queue[d].release
      /\ ~queue'[d].inGlobal /\ queue'[d].msgs = <<>>
  BY <1>1 DEF MqPopEmpty, MqType, QueueType
<1>3. global' = global
  BY DEF MqPopEmpty
<1> QED
  BY <1>2, <1>3, ListSame DEF MqType, InList, InGlobal

LEMMA FreeEffect ==
  ASSUME MqType, NEW d \in Contexts, MqFree(d)
  PROVE  /\ MqType'
         /\ \A c \in Contexts : c # d => queue'[c] = queue[c]
         /\ queue'[d].state = "freed" /\ queue'[d].release /\ queue[d].release
         /\ \A c \in Contexts : InList(c) \in Nat /\ InList(c)' = InList(c)
<1>1. queue[d] \in QueueType
  BY DEF MqType
<1>2. /\ queue' \in [Contexts -> QueueType]
      /\ \A c \in Contexts : c # d => queue'[c] = queue[c]
      /\ queue'[d].state = "freed" /\ queue'[d].release /\ queue[d].release
  BY <1>1 DEF MqFree, MqType, QueueType
<1>3. global' = global
  BY DEF MqFree
<1> QED
  BY <1>2, <1>3, ListSame DEF MqType, InList, InGlobal

\* The last reference that goes makes the thread delete the context.
LEMMA ReleaseEffect ==
  ASSUME IInv, NEW t \in Threads, NEW d \in Contexts, Release(t, d),
         ref[d] >= 1, rel[t] = 0, UNCHANGED alive
  PROVE  /\ ref' \in [Contexts -> Nat] /\ rel' \in [Threads -> Ctx]
         /\ \A c \in Contexts : ref'[c] + One(c = d) = ref[c]
         /\ \A c \in Contexts : RelInv(c)'
<1> USE DEF IInv, CtxInv
<1>1. /\ ref' \in [Contexts -> Nat] /\ rel' \in [Threads -> Ctx]
      /\ \A c \in Contexts : c # d => ref'[c] = ref[c]
      /\ ref[d] \in Nat /\ ref'[d] = ref[d] - 1
      /\ \A u \in Threads : u # t => rel'[u] = rel[u]
      /\ rel'[t] = IF ref[d] = 1 THEN d ELSE 0
  BY DEF Release, TypeInv, CtxType, CallType, Ctx
<1>2. \A c \in Contexts : ref'[c] + One(c = d) = ref[c]
  BY <1>1 DEF One, TypeInv, CtxType
<1>3. RelInv(d)'
  <2>1. alive[d] /\ \A u \in Threads : rel[u] # d
    BY <1>1 DEF RelInv
  <2> QED
    BY <1>1, <2>1, ServiceAssumption DEF RelInv
<1>4. ASSUME NEW c \in Contexts, c # d PROVE RelInv(c)'
  <2>1. \A u \in Threads : rel'[u] = c <=> rel[u] = c
    BY <1>1, <1>4, ServiceAssumption
  <2> QED
    BY <1>1, <1>4, <2>1 DEF RelInv
<1> QED
  BY <1>1, <1>2, <1>3, <1>4

LEMMA GrabEffect ==
  ASSUME IInv, NEW d \in Contexts, ref' = [ref EXCEPT ![d] = @ + 1], ref[d] >= 1,
         UNCHANGED <<alive, rel>>
  PROVE  /\ ref' \in [Contexts -> Nat]
         /\ \A c \in Contexts : ref'[c] = ref[c] + One(c = d)
         /\ \A c \in Contexts : RelInv(c)'
<1> USE DEF IInv, CtxInv
<1>1. /\ ref' \in [Contexts -> Nat] /\ ref[d] \in Nat
      /\ \A c \in Contexts : ref'[c] = ref[c] + One(c = d)
      /\ \A c \in Contexts : c # d => ref'[c] = ref[c]
  BY DEF One, TypeInv, CtxType
<1>2. alive[d] /\ \A u \in Threads : rel[u] # d
  BY <1>1 DEF RelInv
<1> QED
  BY <1>1, <1>2 DEF RelInv, One, TypeInv, CtxType

-----------------------------------------------------------------------------
(* What is kept.                                                           *)

LEMMA PlaceKept ==
  ASSUME IInv, MqType', NEW t \in Threads, OnlyMoves(t), NEW c \in Contexts,
         queue'[c].state = queue[c].state, queue'[c].inGlobal = queue[c].inGlobal,
         queue'[c].release = queue[c].release,
         queue'[c].msgs = queue[c].msgs \/ Sums(c) = 1,
         InList(c)' + Spot(t, c)' + Made(t, c)' =
           InList(c) + Spot(t, c) + Made(t, c),
         queue[c].state = "none" => InList(c)' + Spot(t, c)' = InList(c) + Spot(t, c)
  PROVE  PlaceInv(c)'
<1>1. InList(c) \in Nat /\ InList(c)' \in Nat
  <2>1. InList(c)' \in Nat
    <3>1. IsFiniteSet(InGlobal(c)')
      BY ListFinite DEF MqType, InGlobal
    <3> QED
      BY <3>1, FS_CardinalityType DEF InList
  <2> QED
    BY <2>1, ListSame DEF IInv, TypeInv, MqType
<1>2. Spot(t, c) \in Nat /\ Spot(t, c)' \in Nat /\ Made(t, c) \in Nat
      /\ Made(t, c)' \in Nat
  BY DEF Spot, Made, One
<1>3. /\ Near(c) \in Nat /\ Near(c)' \in Nat /\ Making(c) \in Nat /\ Making(c)' \in Nat
      /\ Near(c)' + Spot(t, c) = Near(c) + Spot(t, c)'
      /\ Making(c)' + Made(t, c) = Making(c) + Made(t, c)'
  BY CountStep
<1>4. Sums(c)' = Sums(c)
  BY <1>1, <1>2, <1>3 DEF Sums
<1>5. queue[c].state = "none" => InList(c)' + Near(c)' = InList(c) + Near(c)
  BY <1>1, <1>2, <1>3
<1>6. PlaceInv(c)
  BY DEF IInv, CtxInv
<1> QED
  BY <1>1, <1>3, <1>4, <1>5, <1>6 DEF PlaceInv

LEMMA RefKept ==
  ASSUME IInv, ref' \in [Contexts -> Nat], UNCHANGED slot, NEW t \in Threads, OnlyMoves(t),
         NEW c \in Contexts, ref'[c] + Use(t, c) = ref[c] + Use(t, c)'
  PROVE  RefInv(c)'
<1>1. Used(c) \in Nat /\ Used(c)' \in Nat /\ Used(c)' + Use(t, c) = Used(c) + Use(t, c)'
  BY CountStep
<1>2. Listed(c) \in Nat /\ Listed(c)' = Listed(c)
  BY TableFinite DEF Listed, InTable, IInv, TypeInv
<1>3. Use(t, c) \in Nat /\ Use(t, c)' \in Nat
  BY DEF Use, One
<1>4. ref[c] \in Nat /\ ref'[c] \in Nat /\ ref[c] = Listed(c) + Used(c)
  BY DEF IInv, CtxInv, RefInv, TypeInv, CtxType
<1> DEFINE a == Listed(c)'
           b == Used(c)'
           x == Use(t, c)
           y == Use(t, c)'
           r == ref'[c]
<1>5. r = a + b
  <2>1. r + x = ref[c] + y /\ b + x = Used(c) + y /\ Listed(c) = a /\ ref[c] = Listed(c) + Used(c)
    BY <1>1, <1>2, <1>4
  <2>2. r \in Nat /\ a \in Nat /\ b \in Nat /\ x \in Nat /\ y \in Nat /\ ref[c] \in Nat
        /\ Listed(c) \in Nat /\ Used(c) \in Nat
    BY <1>1, <1>2, <1>3, <1>4
  <2> HIDE DEF a, b, x, y, r
  <2> QED
    BY <2>1, <2>2
<1> QED
  BY <1>5 DEF RefInv

\* What a step of t may do to what others know of its launch.
SameLaunch(t) ==
  \/ op'[t] = op[t]
  \/ /\ op[t].step # "learn" /\ op'[t].step # "learn"
     /\ op'[t].kind = "launch" => op[t].kind = "launch" /\ op'[t].c = op[t].c

LEMMA TableKept ==
  ASSUME IInv, UNCHANGED handleVars, NEW t \in Threads, OnlyMoves(t), SameLaunch(t),
         \A c \in Contexts : queue'[c].state = "none" <=> queue[c].state = "none"
  PROVE  TableInv'
<1>1. \A u \in Threads : u # t => op'[u] = op[u]
  BY DEF OnlyMoves
<1>2. \A u \in Threads, c \in Contexts : Learns(u, c) => op'[u] = op[u] /\ Learns(u, c)'
  BY <1>1 DEF SameLaunch, Learns
<1>3. slot' = slot /\ handle' = handle /\ Size' = Size
  BY DEF handleVars, Size
<1>4. \A i \in 0..Size - 1 : slot[i] \in Ctx
  BY DEF IInv, TypeInv, TableType
<1>5. TableInv
  BY DEF IInv
<1>6. (\A c \in Contexts : handle[c] # 0 => queue[c].state # "none")'
  BY <1>3, <1>5 DEF TableInv
<1>7. (\A i \in 0..Size - 1 : slot[i] # 0 =>
        \/ handle[slot[i]] # 0 /\ handle[slot[i]] % Size = i
        \/ handle[slot[i]] = 0 /\ \E u \in Threads : Learns(u, slot[i]) /\ op[u].h % Size = i)'
  <2> SUFFICES ASSUME NEW i \in 0..Size - 1, slot[i] # 0
               PROVE  \/ handle[slot[i]] # 0 /\ handle[slot[i]] % Size = i
                      \/ handle[slot[i]] = 0
                         /\ \E u \in Threads : Learns(u, slot[i])' /\ op'[u].h % Size = i
    BY <1>3 DEF Learns
  <2>1. slot[i] \in Contexts
    BY <1>4 DEF Ctx
  <2>2. \/ handle[slot[i]] # 0 /\ handle[slot[i]] % Size = i
        \/ handle[slot[i]] = 0 /\ \E u \in Threads : Learns(u, slot[i]) /\ op[u].h % Size = i
    BY <1>5 DEF TableInv
  <2>3. ASSUME NEW u \in Threads, Learns(u, slot[i])
        PROVE  Learns(u, slot[i])' /\ op'[u].h = op[u].h
    <3>1. op'[u] = op[u]
      BY <1>2, <2>1, <2>3
    <3> QED
      BY <1>3, <2>3, <3>1 DEF Learns
  <2> QED
    BY <2>2, <2>3
<1>8. (\A u \in Threads : op[u].kind = "launch" =>
        IF op[u].step = "learn"
          THEN op[u].h # 0 /\ handle[op[u].c] = 0 /\ slot[op[u].h % Size] = op[u].c
          ELSE handle[op[u].c] # 0)'
  <2> SUFFICES ASSUME NEW u \in Threads, op'[u].kind = "launch"
               PROVE  IF op'[u].step = "learn"
                        THEN op'[u].h # 0 /\ handle[op'[u].c] = 0
                             /\ slot[op'[u].h % Size] = op'[u].c
                        ELSE handle[op'[u].c] # 0
    BY <1>3
  <2> QED
    BY <1>1, <1>5 DEF TableInv, SameLaunch
<1> QED
  BY <1>6, <1>7, <1>8 DEF TableInv

LEMMA LearnsKept ==
  ASSUME NEW t \in Threads, OnlyMoves(t), SameLaunch(t), NEW u \in Threads, NEW c
  PROVE  Learns(u, c)' <=> Learns(u, c)
  BY DEF OnlyMoves, SameLaunch, Learns

LEMMA AliveKept ==
  ASSUME IInv, UNCHANGED init, NEW t \in Threads, OnlyMoves(t), SameLaunch(t), NEW c \in Contexts,
         alive'[c] = alive[c], queue'[c].state = queue[c].state,
         queue'[c].release = queue[c].release
  PROVE  AliveInv(c)'
<1>1. AliveInv(c)
  BY DEF IInv, CtxInv
<1>2. \A u \in Threads : Learns(u, c)' <=> Learns(u, c)
  BY LearnsKept
<1> QED
  BY <1>1, <1>2 DEF AliveInv

LEMMA CallsKept ==
  ASSUME IInv, TypeInv', NEW t \in Threads, OnlyMoves(t), CallInv(t)',
         \A c \in Contexts : queue'[c].state = "none" <=> queue[c].state = "none",
         NEW u \in Threads
  PROVE  CallInv(u)'
<1>1. CASE u = t
  BY <1>1
<1>2. CASE u # t
  <2>1. CallInv(u) /\ op[u] \in OpType /\ snd[u] \in SndType
    BY DEF IInv, TypeInv, CallType
  <2>2. /\ op'[u] = op[u] /\ drop'[u] = drop[u] /\ snd'[u] = snd[u]
        /\ u \in Workers => pc'[u] = pc[u] /\ held'[u] = held[u]
    BY <1>2 DEF OnlyMoves
  <2>3. op[u].kind = "launch" => op[u].c \in Contexts /\ op[u] # NoOp
    BY <2>1, OpFields
  <2>4. snd[u] # NoSnd => snd[u].c \in Contexts
    BY <2>1, SndFields
  <2>5. (op[u] # NoOp => u \in Workers /\ pc[u] = "call" /\ drop[u] = 0)'
    BY <2>1, <2>2 DEF CallInv
  <2>6. (op[u].kind = "launch" =>
           held[u] \in Launchers /\ (op[u].step = "learn" <=> queue[op[u].c].state = "none"))'
    BY <2>1, <2>2, <2>3 DEF CallInv
  <2>7. (snd[u] # NoSnd => queue[snd[u].c].state # "none")'
    BY <2>1, <2>2, <2>4 DEF CallInv
  <2> QED
    BY <2>1, <2>2, <2>5, <2>6, <2>7 DEF CallInv
<1> QED
  BY <1>1, <1>2

LEMMA StartKept ==
  ASSUME IInv, UNCHANGED <<init, slot>>, NEW t \in Threads, OnlyMoves(t), NEW c \in Contexts,
         Works(t, c)' => Works(t, c) \/ init[c],
         Starting(t, c) => Starting(t, c)' \/ init[c] \/ Listed(c) = 0
  PROVE  StartInv(c)'
<1>1. StartInv(c)
  BY DEF IInv, CtxInv
<1>2. Listed(c)' = Listed(c)
  BY DEF Listed, InTable
<1>3. \A u \in Threads : u # t => /\ Works(u, c)' <=> Works(u, c)
                                  /\ Starting(u, c)' <=> Starting(u, c)
  BY DEF OnlyMoves, Works, Starting
<1> QED
  BY <1>1, <1>2, <1>3 DEF StartInv

\* Most steps change neither the table nor what becomes of a context.
LEMMA Frame ==
  ASSUME IInv, TypeInv', UNCHANGED <<handleVars, alive, init>>,
         NEW t \in Threads, OnlyMoves(t), SameLaunch(t),
         \A c \in Contexts : queue'[c].state = queue[c].state /\ queue'[c].release = queue[c].release,
         \A c \in Contexts : /\ Works(t, c)' => Works(t, c) \/ init[c]
                             /\ Starting(t, c) => Starting(t, c)' \/ init[c] \/ Listed(c) = 0,
         CallInv(t)', t \in Workers => LoopInv(t)',
         \A c \in Contexts : /\ RelInv(c)' /\ PlaceInv(c)'
                             /\ ref'[c] + Use(t, c) = ref[c] + Use(t, c)'
  PROVE  IInv'
<1>1. TableInv'
  BY TableKept
<1>2. \A u \in Threads : CallInv(u)'
  BY CallsKept
<1>3. \A w \in Workers : LoopInv(w)'
  <2> SUFFICES ASSUME NEW w \in Workers, w # t PROVE LoopInv(w)'
    OBVIOUS
  <2>1. LoopInv(w)
    BY DEF IInv
  <2>2. pc'[w] = pc[w] /\ held'[w] = held[w] /\ rest'[w] = rest[w]
    BY Sets DEF OnlyMoves
  <2> QED
    BY <2>1, <2>2 DEF LoopInv
<1>4. ASSUME NEW c \in Contexts PROVE CtxInv(c)'
  <2>1. AliveInv(c)'
    BY AliveKept
  <2>2. StartInv(c)'
    BY StartKept DEF handleVars
  <2>3. RefInv(c)'
    BY RefKept DEF handleVars, TypeInv, CtxType
  <2> QED
    BY <2>1, <2>2, <2>3 DEF CtxInv
<1> QED
  BY <1>1, <1>2, <1>3, <1>4 DEF IInv

-----------------------------------------------------------------------------
(* Calls that a thread is in.                                              *)

LEMMA SumsStep ==
  ASSUME IInv, MqType', NEW t \in Threads, OnlyMoves(t), NEW c \in Contexts
  PROVE  /\ Sums(c) \in Nat /\ Sums(c)' \in Nat /\ InList(c) \in Nat /\ InList(c)' \in Nat
         /\ Spot(t, c) \in Nat /\ Spot(t, c)' \in Nat
         /\ Made(t, c) \in Nat /\ Made(t, c)' \in Nat
         /\ Sums(c)' + (InList(c) + Spot(t, c) + Made(t, c)) =
              Sums(c) + (InList(c)' + Spot(t, c)' + Made(t, c)')
<1>1. InList(c) \in Nat /\ InList(c)' \in Nat
  <2>1. InList(c)' \in Nat
    <3>1. IsFiniteSet(InGlobal(c)')
      BY ListFinite DEF MqType, InGlobal
    <3> QED
      BY <3>1, FS_CardinalityType DEF InList
  <2> QED
    BY <2>1, ListSame DEF IInv, TypeInv, MqType
<1>2. Spot(t, c) \in Nat /\ Spot(t, c)' \in Nat /\ Made(t, c) \in Nat
      /\ Made(t, c)' \in Nat
  BY DEF Spot, Made, One
<1>3. /\ Near(c) \in Nat /\ Near(c)' \in Nat /\ Making(c) \in Nat /\ Making(c)' \in Nat
      /\ Near(c)' + Spot(t, c) = Near(c) + Spot(t, c)'
      /\ Making(c)' + Made(t, c) = Making(c) + Made(t, c)'
  BY CountStep
<1> DEFINE g == InList(c)
           gg == InList(c)'
           n == Near(c)
           nn == Near(c)'
           m == Making(c)
           mm == Making(c)'
           s == Spot(t, c)
           ss == Spot(t, c)'
           l == Made(t, c)
           ll == Made(t, c)'
<1>4. /\ g + n + m \in Nat /\ gg + nn + mm \in Nat
      /\ gg + nn + mm + (g + s + l) = g + n + m + (gg + ss + ll)
  <2>1. /\ g \in Nat /\ gg \in Nat /\ n \in Nat /\ nn \in Nat /\ m \in Nat /\ mm \in Nat
        /\ s \in Nat /\ ss \in Nat /\ l \in Nat /\ ll \in Nat
        /\ nn + s = n + ss /\ mm + l = m + ll
    BY <1>1, <1>2, <1>3
  <2> HIDE DEF g, gg, n, nn, m, mm, s, ss, l, ll
  <2> QED
    BY <2>1
<1> QED
  BY <1>1, <1>2, <1>4 DEF Sums

LEMMA SumsMove ==
  ASSUME IInv, MqType', NEW t \in Threads, OnlyMoves(t), NEW c \in Contexts, NEW k \in Int,
         InList(c)' + Spot(t, c)' + Made(t, c)' = InList(c) + Spot(t, c) + Made(t, c) + k
  PROVE  Sums(c) \in Nat /\ Sums(c)' \in Nat /\ Sums(c)' = Sums(c) + k
<1> DEFINE a == InList(c) + Spot(t, c) + Made(t, c)
           b == InList(c)' + Spot(t, c)' + Made(t, c)'
           x == Sums(c)
           y == Sums(c)'
<1>1. a \in Int /\ b \in Int /\ x \in Nat /\ y \in Nat /\ y + a = x + b /\ b = a + k
  BY SumsStep
<1> HIDE DEF a, b, x, y
<1>2. y = x + k
  BY <1>1
<1> QED
  BY <1>1, <1>2 DEF x, y

LEMMA StaysPut ==
  ASSUME UNCHANGED workerVars, NEW t, NEW c
  PROVE  /\ Hands(t, c)' <=> Hands(t, c)
         /\ Works(t, c)' <=> Works(t, c)
         /\ LoopInv(t)' <=> LoopInv(t)
         /\ UNCHANGED drop => Spot(t, c)' = Spot(t, c)
  BY DEF workerVars, Hands, Works, LoopInv, Spot, Drops, One

LEMMA PushStep ==
  ASSUME IInv, NEW t \in Threads, Push(t)
  PROVE  IInv'
<1> DEFINE d == snd[t].c
<1>1. /\ snd[t].step = "push" /\ d \in Contexts /\ snd[t].m \in Msg /\ Pushes(t, d)
      /\ snd[t] \in SndType /\ snd[t] # NoSnd
  BY SndFields DEF Push, IInv, TypeInv, CallType, Pushes
<1>2. queue[d].state = "live" /\ ~queue[d].release
  BY <1>1, Referred DEF IInv, CallInv
<1>3. UNCHANGED <<handleVars, ctxVars, workerVars, op, drop, rel, bounds>> /\ MqPush(d, snd[t].m)
  BY DEF Push
<1>4. /\ MqType'
      /\ \A c \in Contexts : c # d => queue'[c] = queue[c]
      /\ queue'[d].state = queue[d].state /\ queue'[d].release = queue[d].release
      /\ queue'[d].inGlobal
      /\ \A c \in Contexts :
           InList(c) \in Nat /\ InList(c)' = InList(c) + One(c = d /\ ~queue[d].inGlobal)
  BY <1>1, <1>3, PushEffect DEF IInv, TypeInv
<1>5. /\ snd' \in [Threads -> SndType] /\ \A u \in Threads : u # t => snd'[u] = snd[u]
      /\ snd'[t].c = d
  <2>1. snd' = [snd EXCEPT ![t].step = "release"] /\ snd \in [Threads -> SndType]
    BY DEF Push, IInv, TypeInv, CallType
  <2>2. snd[t] \in [step : {"push", "release"}, c : Contexts, m : Msg]
    BY <1>1 DEF SndType
  <2>3. [snd[t] EXCEPT !.step = "release"] \in [step : {"push", "release"}, c : Contexts, m : Msg]
    BY <2>2
  <2> QED
    BY <2>1, <2>2, <2>3 DEF SndType
<1>6. OnlyMoves(t) /\ SameLaunch(t)
  BY <1>3, <1>5 DEF OnlyMoves, SameLaunch, workerVars
<1>7. TypeInv'
  BY <1>3, <1>4, <1>5 DEF IInv, TypeInv, TableType, CtxType, WorkerType, CallType, handleVars,
    ctxVars, workerVars, bounds, Size
<1>8. CallInv(t)'
  <2>1. CallInv(t) /\ op'[t] = op[t] /\ op[t] \in OpType
    BY <1>3 DEF IInv, TypeInv, CallType
  <2>2. op[t].kind = "launch" => op[t].c \in Contexts
    BY <2>1, OpFields
  <2> QED
    BY <1>1, <1>2, <1>3, <1>4, <1>5, <2>1, <2>2 DEF CallInv, workerVars
<1>9. ASSUME NEW c \in Contexts
      PROVE  RelInv(c)' /\ PlaceInv(c)' /\ ref'[c] + Use(t, c) = ref[c] + Use(t, c)'
  <2>1. RelInv(c)'
    BY <1>3 DEF IInv, CtxInv, RelInv, ctxVars
  <2>2. Spot(t, c)' = Spot(t, c) /\ Made(t, c)' = Made(t, c)
    BY <1>3, StaysPut DEF Made, Launches
  <2>3. PlaceInv(c)'
    <3>1. CASE c # d
      BY <1>3, <1>4, <1>6, <2>2, <3>1, PlaceKept DEF One
    <3>2. CASE c = d /\ queue[d].inGlobal
      <4>1. PlaceInv(c)
        BY DEF IInv, CtxInv
      <4>2. InList(c)' = InList(c) /\ InList(c) \in Nat
        BY <1>4, <3>2 DEF One
      <4>3. queue'[c].inGlobal = queue[c].inGlobal /\ Sums(c) = 1
        BY <1>2, <1>3, <1>4, <3>2, <4>1, QueueFields DEF PlaceInv, IInv, TypeInv, MqType
      <4> QED
        BY <1>2, <1>4, <1>6, <2>2, <3>2, <4>2, <4>3, PlaceKept
    <3>3. CASE c = d /\ ~queue[d].inGlobal
      <4>1. PlaceInv(c)
        BY DEF IInv, CtxInv
      <4>2. InList(c)' = InList(c) + 1 /\ InList(c) \in Nat
        BY <1>4, <3>3 DEF One
      <4>3. InList(c)' + Spot(t, c)' + Made(t, c)' = InList(c) + Spot(t, c) + Made(t, c) + 1
        BY <1>4, <1>6, <2>2, <4>2, SumsStep
      <4>4. Sums(c)' = Sums(c) + 1
        BY <1>4, <1>6, <4>3, SumsMove
      <4> QED
        BY <1>2, <1>4, <3>3, <4>1, <4>4 DEF PlaceInv
    <3> QED
      BY <3>1, <3>2, <3>3
  <2>4. Use(t, c)' = Use(t, c) /\ Use(t, c) \in Nat /\ ref'[c] = ref[c]
    BY <1>3, <1>5, StaysPut DEF Use, Pushes, Ends, One, ctxVars
  <2> QED
    BY <2>1, <2>3, <2>4
<1> QED
  <2>1. \A c \in Contexts : queue'[c].state = queue[c].state /\ queue'[c].release = queue[c].release
    BY <1>4
  <2>2. \A c \in Contexts : /\ Works(t, c)' => Works(t, c) \/ init[c]
                            /\ Starting(t, c) => Starting(t, c)' \/ init[c] \/ Listed(c) = 0
    BY <1>3, StaysPut DEF Starting
  <2>3. t \in Workers => LoopInv(t)'
    BY <1>3, StaysPut DEF IInv
  <2>4. UNCHANGED <<handleVars, alive, init>>
    BY <1>3 DEF ctxVars
  <2> QED
    BY <1>6, <1>7, <1>8, <1>9, <2>1, <2>2, <2>3, <2>4, Frame

\* A thread gives back a reference, and with it nothing else.
LEMMA GiveBack ==
  ASSUME IInv, NEW t \in Threads, NEW d \in Contexts, Release(t, d), rel[t] = 0,
         Works(t, d) \/ Pushes(t, d) \/ Ends(t, d),
         UNCHANGED <<mqVars, handleVars, alive, init, drop, sends>>,
         WorkerType', op' \in [Threads -> OpType], snd' \in [Threads -> SndType],
         OnlyMoves(t), SameLaunch(t), CallInv(t)', t \in Workers => LoopInv(t)',
         \A c \in Contexts :
           /\ Use(t, c)' + One(c = d) = Use(t, c)
           /\ Spot(t, c)' = Spot(t, c) /\ Made(t, c)' = Made(t, c)
           /\ Works(t, c)' => Works(t, c)
           /\ Starting(t, c) => Starting(t, c)' \/ init[c] \/ Listed(c) = 0
  PROVE  IInv'
<1>1. ref[d] >= 1
  BY Referred
<1>2. /\ ref' \in [Contexts -> Nat] /\ rel' \in [Threads -> Ctx]
      /\ \A c \in Contexts : ref'[c] + One(c = d) = ref[c]
      /\ \A c \in Contexts : RelInv(c)'
  BY <1>1, ReleaseEffect
<1>3. TypeInv'
  BY <1>2 DEF IInv, TypeInv, MqType, TableType, CtxType, CallType, mqVars, handleVars, Size
<1>4. ASSUME NEW c \in Contexts
      PROVE  PlaceInv(c)' /\ ref'[c] + Use(t, c) = ref[c] + Use(t, c)'
  <2>1. InList(c) \in Nat /\ InList(c)' = InList(c)
    BY ListKept DEF IInv, TypeInv, mqVars
  <2>2. PlaceInv(c)'
    BY <1>3, <2>1, PlaceKept DEF TypeInv, mqVars
  <2>3. Use(t, c) \in Nat /\ Use(t, c)' \in Nat /\ One(c = d) \in Nat
    BY DEF Use, One
  <2>4. ref[c] \in Nat /\ ref'[c] \in Nat /\ ref'[c] + One(c = d) = ref[c]
        /\ Use(t, c)' + One(c = d) = Use(t, c)
    BY <1>2 DEF IInv, TypeInv, CtxType
  <2> QED
    BY <2>2, <2>3, <2>4
<1>5. \A c \in Contexts : queue'[c].state = queue[c].state /\ queue'[c].release = queue[c].release
  BY DEF mqVars
<1> QED
  BY <1>2, <1>3, <1>4, <1>5, Frame

LEMMA PushDoneStep ==
  ASSUME IInv, NEW t \in Threads, PushDone(t)
  PROVE  IInv'
<1> DEFINE d == snd[t].c
<1>1. d \in Contexts /\ Pushes(t, d) /\ snd[t] # NoSnd /\ snd[t] \in SndType
  BY SndFields DEF PushDone, IInv, TypeInv, CallType, Pushes
<1>2. /\ UNCHANGED <<mqVars, handleVars, alive, init, workerVars, op, drop, bounds>>
      /\ rel[t] = 0 /\ Release(t, d)
  BY DEF PushDone, NotDeleting
<1>3. /\ snd' \in [Threads -> SndType] /\ \A u \in Threads : u # t => snd'[u] = snd[u]
      /\ snd'[t] = NoSnd
  BY DEF PushDone, IInv, TypeInv, CallType, SndType
<1>4. OnlyMoves(t) /\ SameLaunch(t)
  BY <1>2, <1>3 DEF OnlyMoves, SameLaunch, workerVars
<1>5. WorkerType' /\ op' \in [Threads -> OpType]
  BY <1>2 DEF IInv, TypeInv, WorkerType, CallType, workerVars
<1>6. CallInv(t)'
  BY <1>2, <1>3 DEF IInv, CallInv, workerVars, mqVars
<1>7. ASSUME NEW c \in Contexts
      PROVE  /\ Use(t, c)' + One(c = d) = Use(t, c)
             /\ Spot(t, c)' = Spot(t, c) /\ Made(t, c)' = Made(t, c)
             /\ Works(t, c)' => Works(t, c)
             /\ Starting(t, c) => Starting(t, c)'
  <2>1. Pushes(t, c) <=> c = d
    BY DEF Pushes
  <2>2. ~Pushes(t, c)'
    BY <1>3, SndFields, ServiceAssumption DEF Pushes
  <2>3. op'[t] = op[t]
    BY <1>2
  <2> QED
    BY <1>2, <2>1, <2>2, <2>3, StaysPut DEF Use, One, Ends, Made, Launches, Starting
<1>8. t \in Workers => LoopInv(t)'
  BY <1>2, StaysPut DEF IInv
<1> QED
  BY <1>1, <1>2, <1>3, <1>4, <1>5, <1>6, <1>7, <1>8, GiveBack DEF bounds

\* The same at the end of a call: op of t is set, and nothing of the rest.
LEMMA GiveBackOp ==
  ASSUME IInv, NEW t \in Threads, NotDropping(t), NEW o \in OpType, op[t] # NoOp,
         Release(t, op[t].c), op' = [op EXCEPT ![t] = o], Ends(t, op[t].c),
         o.kind = "launch" => op[t].kind = "launch" /\ o.c = op[t].c,
         op[t].kind = "launch" => o.kind = "launch",
         op[t].step # "learn", o.step \notin {"learn", "init", "release", "failed", "retired"},
         \A c \in Contexts : Starting(t, c) => Starting(t, c)' \/ init[c] \/ Listed(c) = 0,
         UNCHANGED <<mqVars, handleVars, alive, init, workerVars, drop, snd, bounds>>
  PROVE  IInv'
<1> DEFINE d == op[t].c
<1>1. op[t] \in OpType /\ d \in Contexts /\ rel[t] = 0 /\ snd[t] = NoSnd /\ drop[t] = 0
  BY OpFields DEF IInv, TypeInv, CallType, NotDropping, NotPushing, NotDeleting
<1>2. /\ op' \in [Threads -> OpType] /\ \A u \in Threads : u # t => op'[u] = op[u]
      /\ op'[t] = o
  BY DEF IInv, TypeInv, CallType
<1>3. OnlyMoves(t) /\ SameLaunch(t)
  BY <1>2 DEF OnlyMoves, SameLaunch, workerVars
<1>4. WorkerType' /\ snd' \in [Threads -> SndType]
  BY DEF IInv, TypeInv, WorkerType, CallType, workerVars
<1>5. CallInv(t)'
  <2>1. CallInv(t)
    BY DEF IInv
  <2>2. o.kind = "launch" => queue[o.c].state # "none" /\ held[t] \in Launchers
    BY <2>1, OpFields DEF CallInv
  <2> QED
    BY <1>1, <1>2, <2>1, <2>2 DEF CallInv, workerVars, mqVars
<1>6. ASSUME NEW c \in Contexts
      PROVE  /\ Use(t, c)' + One(c = d) = Use(t, c)
             /\ Spot(t, c)' = Spot(t, c) /\ Made(t, c)' = Made(t, c)
             /\ Works(t, c)' => Works(t, c)
  <2>1. Ends(t, c) <=> c = d
    BY DEF Ends
  <2>2. ~Ends(t, c)'
    <3>1. o.kind # "retire"
      BY <1>1, OpFields DEF Ends
    <3> QED
      BY <1>2, <3>1 DEF Ends
  <2>3. Launches(t, c)' <=> Launches(t, c)
    BY <1>2 DEF Launches
  <2> QED
    BY <2>1, <2>2, <2>3, StaysPut DEF Use, One, Made, Pushes
<1>7. t \in Workers => LoopInv(t)'
  BY StaysPut DEF IInv
<1> QED
  BY <1>1, <1>2, <1>3, <1>4, <1>5, <1>6, <1>7, GiveBack DEF bounds

\* A step of a launch to s, as an operation.
LEMMA GotoOp ==
  ASSUME IInv, NEW t \in Threads, op[t].kind = "launch", NEW s \in LaunchSteps, Goto(t, s)
  PROVE  /\ op[t] \in OpType /\ op[t] # NoOp /\ op[t].c \in Contexts /\ op[t].step \in LaunchSteps
         /\ [op[t] EXCEPT !.step = s] \in OpType
         /\ op' = [op EXCEPT ![t] = [op[t] EXCEPT !.step = s]]
         /\ op' \in [Threads -> OpType] /\ \A u \in Threads : u # t => op'[u] = op[u]
         /\ op'[t].kind = "launch" /\ op'[t].c = op[t].c /\ op'[t].step = s
         /\ [op[t] EXCEPT !.step = s].kind = "launch" /\ [op[t] EXCEPT !.step = s].c = op[t].c
         /\ [op[t] EXCEPT !.step = s].step = s
<1>1. op[t] \in OpType /\ op[t] # NoOp /\ op[t].c \in Contexts /\ op[t].step \in LaunchSteps
  BY OpFields DEF IInv, TypeInv, CallType
<1>2. op[t] \in LaunchOp
  BY <1>1 DEF OpType, RetireOp, ReportOp
<1> DEFINE o == [op[t] EXCEPT !.step = s]
<1>3. o \in LaunchOp /\ o.kind = "launch" /\ o.c = op[t].c /\ o.step = s
  BY <1>2 DEF LaunchOp
<1>4. op' = [op EXCEPT ![t] = o] /\ op \in [Threads -> OpType]
  BY DEF Goto, IInv, TypeInv, CallType
<1>5. o \in OpType
  BY <1>3 DEF OpType
<1> HIDE DEF o
<1>6. op'[t] = o /\ op' \in [Threads -> OpType] /\ \A u \in Threads : u # t => op'[u] = op[u]
  BY <1>4, <1>5
<1> QED
  BY <1>1, <1>3, <1>4, <1>5, <1>6 DEF o

LEMMA RetireEndStep ==
  ASSUME IInv, NEW t \in Threads, RetireEnd(t)
  PROVE  IInv'
<1>1. op[t].kind = "retire" /\ op[t].step = "release" /\ op[t] # NoOp /\ Ends(t, op[t].c)
  BY OpFields DEF RetireEnd, Ends
<1>2. NoOp \in OpType /\ NoOp.kind = "none" /\ NoOp.step = "none"
  BY OpFields DEF OpType
<1>3. \A c \in Contexts : ~Starting(t, c)
  BY <1>1 DEF Starting
<1>4. /\ NotDropping(t) /\ Release(t, op[t].c) /\ op' = [op EXCEPT ![t] = NoOp]
      /\ UNCHANGED <<mqVars, handleVars, alive, init, workerVars, drop, snd, bounds>>
  BY DEF RetireEnd
<1> QED
  BY <1>1, <1>2, <1>3, <1>4, GiveBackOp

\* Only one thread launches a context.
LEMMA MakerOnly ==
  ASSUME IInv, NEW t \in Threads, op[t].kind = "launch", NEW u \in Threads, op[u].kind = "launch"
  PROVE  u = t
<1>1. op[t] # NoOp
  BY OpFields
<1>2. t \in Workers /\ pc[t] = "call" /\ held[t] \in Launchers
  BY <1>1 DEF IInv, CallInv
<1> QED
  BY <1>2, OneLauncher

\* At other steps of the launch than these the context is initialised or
\* out of the table.
LEMMA NotStarting ==
  ASSUME IInv, NEW t \in Threads, op[t].kind = "launch", ~Starting(t, op[t].c)
  PROVE  init[op[t].c] \/ Listed(op[t].c) = 0
<1>1. op[t].c \in Contexts
  BY OpFields DEF IInv, TypeInv, CallType
<1>2. \A u \in Threads : Starting(u, op[t].c) => u = t
  BY MakerOnly DEF Starting
<1> QED
  BY <1>1, <1>2 DEF IInv, CtxInv, StartInv

LEMMA LaunchReleaseStep ==
  ASSUME IInv, NEW t \in Threads, LaunchRelease(t)
  PROVE  IInv'
<1> DEFINE d == op[t].c
           s == IF ref[d] = 1 THEN "pushGone" ELSE "ready"
           o == [op[t] EXCEPT !.step = s]
<1>1. /\ op[t].kind = "launch" /\ op[t].step = "release" /\ NotDropping(t) /\ Release(t, d)
      /\ Goto(t, s) /\ UNCHANGED <<mqVars, handleVars, alive, init, workerVars, drop, snd, bounds>>
  BY DEF LaunchRelease, At
<1>2. s \in LaunchSteps /\ s \in {"pushGone", "ready"}
  BY DEF LaunchSteps
<1> HIDE DEF s
<1>3. /\ op[t] # NoOp /\ d \in Contexts /\ o \in OpType /\ op' = [op EXCEPT ![t] = o]
      /\ o.kind = "launch" /\ o.c = d /\ o.step = s
      /\ op'[t].kind = "launch" /\ op'[t].c = d /\ op'[t].step = s
  BY <1>1, <1>2, GotoOp
<1>4. Ends(t, d)
  BY <1>1 DEF Ends
<1>5. ASSUME NEW c \in Contexts, Starting(t, c) PROVE Starting(t, c)' \/ Listed(c) = 0
  <2>1. c = d
    BY <1>5 DEF Starting
  <2>2. CASE ref[d] # 1
    BY <1>3, <2>1, <2>2 DEF Starting, s
  <2>3. CASE ref[d] = 1
    <3>1. Used(d) \in Nat /\ Used(d) >= 1 /\ Listed(d) \in Nat
      BY <1>4, Counts, TableFinite DEF IInv, TypeInv
    <3>2. 1 = Listed(d) + Used(d)
      BY <1>3, <2>3 DEF IInv, CtxInv, RefInv
    <3> QED
      BY <2>1, <3>1, <3>2
  <2> QED
    BY <2>2, <2>3
<1> HIDE DEF o
<1> QED
  BY <1>1, <1>2, <1>3, <1>4, <1>5, GiveBackOp

LEMMA LaunchFailedStep ==
  ASSUME IInv, NEW t \in Threads, LaunchFailed(t)
  PROVE  IInv'
<1> DEFINE d == op[t].c
           o == [op[t] EXCEPT !.step = "retire"]
<1>1. /\ op[t].kind = "launch" /\ op[t].step = "failed" /\ NotDropping(t) /\ Release(t, d)
      /\ Goto(t, "retire")
      /\ UNCHANGED <<mqVars, handleVars, alive, init, workerVars, drop, snd, bounds>>
  BY DEF LaunchFailed, At
<1>2. "retire" \in LaunchSteps
  BY DEF LaunchSteps
<1>3. /\ op[t] # NoOp /\ d \in Contexts /\ o \in OpType /\ op' = [op EXCEPT ![t] = o]
      /\ o.kind = "launch" /\ o.c = d /\ o.step = "retire"
      /\ op'[t].kind = "launch" /\ op'[t].c = d /\ op'[t].step = "retire"
  BY <1>1, <1>2, GotoOp
<1>4. Ends(t, d)
  BY <1>1 DEF Ends
<1>5. ASSUME NEW c \in Contexts, Starting(t, c) PROVE Starting(t, c)'
  BY <1>3, <1>5 DEF Starting
<1> HIDE DEF o
<1> QED
  BY <1>1, <1>3, <1>4, <1>5, GiveBackOp

LEMMA LaunchRetiredStep ==
  ASSUME IInv, NEW t \in Threads, LaunchRetired(t)
  PROVE  IInv'
<1> DEFINE d == op[t].c
           o == [op[t] EXCEPT !.step = "drop"]
<1>1. /\ op[t].kind = "launch" /\ op[t].step = "retired" /\ NotDropping(t) /\ Release(t, d)
      /\ Goto(t, "drop")
      /\ UNCHANGED <<mqVars, handleVars, alive, init, workerVars, drop, snd, bounds>>
  BY DEF LaunchRetired, At
<1>2. "drop" \in LaunchSteps
  BY DEF LaunchSteps
<1>3. /\ op[t] # NoOp /\ d \in Contexts /\ o \in OpType /\ op' = [op EXCEPT ![t] = o]
      /\ o.kind = "launch" /\ o.c = d /\ o.step = "drop"
  BY <1>1, <1>2, GotoOp
<1>4. Ends(t, d)
  BY <1>1 DEF Ends
<1>5. \A c \in Contexts : ~Starting(t, c)
  BY <1>1 DEF Starting
<1> HIDE DEF o
<1> QED
  BY <1>1, <1>3, <1>4, <1>5, GiveBackOp

\* A queue goes from one place to another.
LEMMA PlaceChange ==
  ASSUME IInv, NEW t \in Threads, global' \in Seq(Contexts),
         op' \in [Threads -> OpType], drop' \in [Threads -> Ctx],
         UNCHANGED <<queue, handleVars, ctxVars, workerVars, snd, rel, bounds>>,
         OnlyMoves(t), SameLaunch(t), CallInv(t)',
         \A c \in Contexts :
           /\ Use(t, c)' = Use(t, c)
           /\ Starting(t, c) => Starting(t, c)' \/ init[c] \/ Listed(c) = 0
           /\ InList(c)' + Spot(t, c)' + Made(t, c)' = InList(c) + Spot(t, c) + Made(t, c)
           /\ queue[c].state = "none" => InList(c)' + Spot(t, c)' = InList(c) + Spot(t, c)
  PROVE  IInv'
<1>1. MqType' /\ TypeInv'
  BY DEF IInv, TypeInv, MqType, TableType, CtxType, WorkerType, CallType, handleVars,
    ctxVars, workerVars, bounds, Size
<1>2. ASSUME NEW c \in Contexts
      PROVE  RelInv(c)' /\ PlaceInv(c)' /\ ref'[c] + Use(t, c) = ref[c] + Use(t, c)'
  <2>1. RelInv(c)'
    BY DEF IInv, CtxInv, RelInv, ctxVars
  <2>2. PlaceInv(c)'
    BY <1>1, PlaceKept
  <2> QED
    BY <2>1, <2>2 DEF ctxVars
<1>3. /\ t \in Workers => LoopInv(t)'
      /\ \A c \in Contexts : Works(t, c)' => Works(t, c)
  BY StaysPut DEF IInv
<1> QED
  BY <1>1, <1>2, <1>3, Frame DEF ctxVars

LEMMA LaunchPushStep ==
  ASSUME IInv, NEW t \in Threads, LaunchPush(t)
  PROVE  IInv'
<1> DEFINE d == op[t].c
           o == IF op[t].step = "push" THEN Launched(d) ELSE NoOp
<1>1. /\ op[t].kind = "launch" /\ op[t].step \in {"push", "pushGone"} /\ GlobalPush(d)
      /\ op[t] # NoOp /\ op' = [op EXCEPT ![t] = o]
      /\ UNCHANGED <<queue, handleVars, ctxVars, workerVars, drop, snd, rel, bounds>>
  BY OpFields DEF LaunchPush, At
<1>2. d \in Contexts /\ queue[d].state # "none"
  BY <1>1, OpFields DEF IInv, TypeInv, CallType, CallInv
<1>3. /\ op' \in [Threads -> OpType] /\ \A u \in Threads : u # t => op'[u] = op[u]
      /\ op'[t] = o
  <2>1. o \in OpType
    BY <1>2, LaunchedFields DEF OpType
  <2> HIDE DEF o
  <2> QED
    BY <1>1, <2>1 DEF IInv, TypeInv, CallType
<1>4. /\ global' \in Seq(Contexts)
      /\ \A c \in Contexts : InList(c) \in Nat /\ InList(c)' = InList(c) + One(c = d)
  BY <1>1, <1>2, ListPush DEF IInv, TypeInv, MqType
<1>5. o.kind \in {"none", "launched"} /\ o.step \in {"none", "report"}
  BY <1>2, OpFields, LaunchedFields
<1> HIDE DEF o
<1>6. OnlyMoves(t) /\ SameLaunch(t)
  BY <1>1, <1>3, <1>5 DEF OnlyMoves, SameLaunch, workerVars
<1>7. CallInv(t)'
  BY <1>1, <1>3, <1>5 DEF IInv, CallInv, workerVars
<1>8. ASSUME NEW c \in Contexts
      PROVE  /\ Use(t, c)' = Use(t, c)
             /\ Starting(t, c) => Starting(t, c)' \/ init[c] \/ Listed(c) = 0
             /\ InList(c)' + Spot(t, c)' + Made(t, c)' = InList(c) + Spot(t, c) + Made(t, c)
             /\ queue[c].state = "none" => InList(c)' + Spot(t, c)' = InList(c) + Spot(t, c)
  <2>1. ~Ends(t, c) /\ ~Ends(t, c)' /\ ~Starting(t, c)
    BY <1>1, <1>3, <1>5 DEF Ends, Starting
  <2>2. (Launches(t, c) <=> c = d) /\ ~Launches(t, c)'
    BY <1>1, <1>3, <1>5 DEF Launches
  <2>3. Use(t, c)' = Use(t, c)
    BY <1>1, <2>1, StaysPut DEF Use, One, Pushes
  <2>4. Spot(t, c)' = Spot(t, c) /\ Spot(t, c) \in Nat
    BY <1>1, StaysPut DEF Spot, One
  <2> QED
    <3>1. Made(t, c) = One(c = d) /\ Made(t, c)' = 0 /\ One(c = d) \in Nat
      BY <2>2 DEF Made, One
    <3>2. InList(c) \in Nat /\ InList(c)' = InList(c) + One(c = d)
      BY <1>4
    <3>3. queue[c].state = "none" => InList(c)' = InList(c)
      BY <1>2, <3>2 DEF One
    <3> QED
      BY <2>1, <2>3, <2>4, <3>1, <3>2, <3>3
<1> QED
  BY <1>1, <1>3, <1>4, <1>6, <1>7, <1>8, PlaceChange DEF IInv, TypeInv, CallType

LEMMA LaunchReportStep ==
  ASSUME IInv, NEW t \in Threads, LaunchReport(t)
  PROVE  IInv'
<1>1. /\ op[t].kind = "launched" /\ op[t].step = "report" /\ op[t] # NoOp
      /\ op' = [op EXCEPT ![t] = NoOp]
      /\ UNCHANGED <<mqVars, handleVars, ctxVars, workerVars, drop, snd, rel, bounds>>
  BY OpFields DEF LaunchReport, IInv, TypeInv, CallType
<1>2. /\ op' \in [Threads -> OpType] /\ \A u \in Threads : u # t => op'[u] = op[u]
      /\ op'[t] = NoOp
  BY <1>1 DEF IInv, TypeInv, CallType, OpType
<1>3. NoOp.kind = "none" /\ NoOp.step = "none" /\ NoOp.c = 0
  BY OpFields
<1>4. OnlyMoves(t) /\ SameLaunch(t)
  BY <1>1, <1>2, <1>3 DEF OnlyMoves, SameLaunch, workerVars
<1>5. CallInv(t)'
  BY <1>1, <1>2, <1>3 DEF IInv, CallInv, mqVars
<1>6. ASSUME NEW c \in Contexts
      PROVE  /\ Use(t, c)' = Use(t, c) /\ ~Starting(t, c)
             /\ InList(c)' = InList(c) /\ Spot(t, c)' = Spot(t, c) /\ Made(t, c)' = Made(t, c)
  <2>1. ~Ends(t, c) /\ ~Ends(t, c)' /\ ~Launches(t, c) /\ ~Launches(t, c)' /\ ~Starting(t, c)
    BY <1>1, <1>2, <1>3 DEF Ends, Launches, Starting
  <2>2. InList(c)' = InList(c)
    BY <1>1, ListKept DEF IInv, TypeInv, mqVars
  <2> QED
    BY <1>1, <2>1, <2>2, StaysPut DEF Use, Spot, Made, One, Pushes
<1>7. global' \in Seq(Contexts) /\ drop' \in [Threads -> Ctx] /\ UNCHANGED queue
  BY <1>1 DEF IInv, TypeInv, MqType, CallType, mqVars
<1> QED
  BY <1>1, <1>2, <1>4, <1>5, <1>6, <1>7, PlaceChange

LEMMA LaunchDropStep ==
  ASSUME IInv, NEW t \in Threads, LaunchDrop(t)
  PROVE  IInv'
<1> DEFINE d == op[t].c
<1>1. /\ op[t].kind = "launch" /\ op[t].step = "drop" /\ drop[t] = 0
      /\ op' = [op EXCEPT ![t] = NoOp] /\ drop' = [drop EXCEPT ![t] = d]
      /\ UNCHANGED <<mqVars, handleVars, ctxVars, workerVars, snd, rel, bounds>>
  BY DEF LaunchDrop, At, NotDropping
<1>2. d \in Contexts /\ queue[d].state # "none" /\ t \in Workers
  BY <1>1, OpFields DEF IInv, TypeInv, CallType, CallInv
<1>3. /\ op' \in [Threads -> OpType] /\ \A u \in Threads : u # t => op'[u] = op[u]
      /\ op'[t] = NoOp
      /\ drop' \in [Threads -> Ctx] /\ \A u \in Threads : u # t => drop'[u] = drop[u]
      /\ drop'[t] = d
  BY <1>1, <1>2 DEF IInv, TypeInv, CallType, OpType, Ctx
<1>4. \A c \in Contexts : InList(c) \in Nat /\ InList(c)' = InList(c)
  BY <1>1, ListKept DEF IInv, TypeInv, mqVars
<1>5. NoOp.kind = "none" /\ NoOp.step = "none" /\ NoOp.c = 0
  BY OpFields
<1>6. OnlyMoves(t) /\ SameLaunch(t)
  BY <1>1, <1>3, <1>5 DEF OnlyMoves, SameLaunch, workerVars
<1>7. CallInv(t)'
  BY <1>1, <1>2, <1>3, <1>5, ServiceAssumption DEF IInv, CallInv, mqVars
<1>8. ASSUME NEW c \in Contexts
      PROVE  /\ Use(t, c)' = Use(t, c)
             /\ Starting(t, c) => Starting(t, c)' \/ init[c] \/ Listed(c) = 0
             /\ InList(c)' + Spot(t, c)' + Made(t, c)' = InList(c) + Spot(t, c) + Made(t, c)
             /\ queue[c].state = "none" => InList(c)' + Spot(t, c)' = InList(c) + Spot(t, c)
  <2>1. ~Ends(t, c) /\ ~Ends(t, c)' /\ ~Starting(t, c)
    BY <1>1, <1>3, <1>5 DEF Ends, Starting
  <2>2. (Launches(t, c) <=> c = d) /\ ~Launches(t, c)'
    BY <1>1, <1>3, <1>5 DEF Launches
  <2>3. Use(t, c)' = Use(t, c)
    BY <1>1, <2>1, StaysPut DEF Use, One, Pushes
  <2>4. ~Drops(t, c) /\ (Drops(t, c)' <=> c = d)
    BY <1>1, <1>3, ServiceAssumption DEF Drops
  <2>5. Hands(t, c)' <=> Hands(t, c)
    BY <1>1, StaysPut
  <2>6. Spot(t, c)' = Spot(t, c) + One(c = d) /\ Spot(t, c) \in Nat
    BY <2>4, <2>5 DEF Spot, One
  <2> QED
    BY <1>2, <1>4, <2>1, <2>2, <2>3, <2>6 DEF Made, One
<1> QED
  BY <1>1, <1>3, <1>6, <1>7, <1>8, PlaceChange DEF mqVars, IInv, TypeInv, MqType

LEMMA ReleaseLaterStep ==
  ASSUME IInv, NEW t \in Threads, ReleaseLater(t)
  PROVE  IInv'
<1> DEFINE d == drop[t]
<1>1. /\ d \in Contexts /\ GlobalPush(d) /\ drop' = [drop EXCEPT ![t] = 0]
      /\ UNCHANGED <<queue, handleVars, ctxVars, workerVars, op, snd, rel, bounds>>
  BY DEF ReleaseLater, MqReleaseLater, IInv, TypeInv, CallType, Ctx
<1>2. queue[d].state # "none"
  BY <1>1, Placed DEF Drops
<1>3. /\ drop' \in [Threads -> Ctx] /\ \A u \in Threads : u # t => drop'[u] = drop[u]
      /\ drop'[t] = 0
  BY <1>1 DEF IInv, TypeInv, CallType, Ctx
<1>4. /\ global' \in Seq(Contexts)
      /\ \A c \in Contexts : InList(c) \in Nat /\ InList(c)' = InList(c) + One(c = d)
  BY <1>1, ListPush DEF IInv, TypeInv, MqType
<1>6. OnlyMoves(t) /\ SameLaunch(t)
  BY <1>1, <1>3 DEF OnlyMoves, SameLaunch, workerVars
<1>7. CallInv(t)'
  BY <1>1, <1>3 DEF IInv, CallInv, workerVars
<1>8. ASSUME NEW c \in Contexts
      PROVE  /\ Use(t, c)' = Use(t, c)
             /\ Starting(t, c) => Starting(t, c)' \/ init[c] \/ Listed(c) = 0
             /\ InList(c)' + Spot(t, c)' + Made(t, c)' = InList(c) + Spot(t, c) + Made(t, c)
             /\ queue[c].state = "none" => InList(c)' + Spot(t, c)' = InList(c) + Spot(t, c)
  <2>1. op'[t] = op[t]
    BY <1>1
  <2>2. Starting(t, c) => Starting(t, c)'
    BY <2>1 DEF Starting
  <2>3. Use(t, c)' = Use(t, c)
    BY <1>1, <2>1, StaysPut DEF Use, One, Pushes, Ends
  <2>4. ~Drops(t, c)' /\ (Drops(t, c) <=> c = d)
    BY <1>1, <1>3, ServiceAssumption DEF Drops
  <2>5. Hands(t, c)' <=> Hands(t, c)
    BY <1>1, StaysPut
  <2>6. Spot(t, c) = Spot(t, c)' + One(c = d) /\ Spot(t, c)' \in Nat
    BY <2>4, <2>5 DEF Spot, One
  <2>7. Made(t, c)' = Made(t, c) /\ Made(t, c) \in Nat
    BY <2>1 DEF Made, Launches, One
  <2> QED
    BY <1>4, <2>2, <2>3, <2>6, <2>7 DEF One
<1> QED
  BY <1>1, <1>3, <1>4, <1>6, <1>7, <1>8, PlaceChange DEF IInv, TypeInv, CallType

LEMMA DroppedStep ==
  ASSUME IInv, NEW t \in Threads, Dropped(t)
  PROVE  IInv'
<1> DEFINE d == drop[t]
<1>1. /\ d \in Contexts /\ MqFree(d) /\ drop' = [drop EXCEPT ![t] = 0] /\ Drops(t, d)
      /\ UNCHANGED <<handleVars, ctxVars, workerVars, op, snd, rel, bounds>>
  BY DEF Dropped, Drops, IInv, TypeInv, CallType, Ctx
<1>2. queue[d].state = "live" /\ Sums(d) = 1
  BY <1>1, Placed
<1>3. /\ MqType'
      /\ \A c \in Contexts : c # d => queue'[c] = queue[c]
      /\ queue'[d].state = "freed" /\ queue'[d].release /\ queue[d].release
      /\ \A c \in Contexts : InList(c) \in Nat /\ InList(c)' = InList(c)
  BY <1>1, FreeEffect DEF IInv, TypeInv
<1>4. /\ drop' \in [Threads -> Ctx] /\ \A u \in Threads : u # t => drop'[u] = drop[u]
      /\ drop'[t] = 0 /\ op'[t] = op[t] /\ snd'[t] = snd[t]
  BY <1>1 DEF IInv, TypeInv, CallType, Ctx
<1>5. OnlyMoves(t) /\ SameLaunch(t)
  BY <1>1, <1>4 DEF OnlyMoves, SameLaunch, workerVars
<1>6. TypeInv'
  BY <1>1, <1>3, <1>4 DEF IInv, TypeInv, TableType, CtxType, WorkerType, CallType, handleVars,
    ctxVars, workerVars, bounds, Size
<1>7. \A c \in Contexts : queue'[c].state = "none" <=> queue[c].state = "none"
  BY <1>2, <1>3
<1>8. CallInv(t)'
  <2>1. CallInv(t) /\ op[t] \in OpType /\ snd[t] \in SndType
    BY DEF IInv, TypeInv, CallType
  <2>2. (op[t].kind = "launch" => op[t].c \in Contexts) /\ (snd[t] # NoSnd => snd[t].c \in Contexts)
    BY <2>1, OpFields, SndFields
  <2> QED
    BY <1>1, <1>4, <1>7, <2>1, <2>2 DEF CallInv, workerVars
<1>9. TableInv' /\ \A u \in Threads : CallInv(u)'
  BY <1>1, <1>5, <1>6, <1>7, <1>8, TableKept, CallsKept
<1>10. \A w \in Workers : LoopInv(w)'
  BY <1>1 DEF IInv, LoopInv, workerVars
<1>11. ASSUME NEW c \in Contexts PROVE CtxInv(c)'
  <2>1. AliveInv(c)'
    <3>1. CASE c # d
      BY <1>1, <1>3, <1>5, <3>1, AliveKept DEF ctxVars
    <3>2. CASE c = d
      BY <1>1, <1>2, <1>3, <3>2 DEF IInv, CtxInv, AliveInv, ctxVars
    <3> QED
      BY <3>1, <3>2
  <2>2. RelInv(c)'
    BY <1>1 DEF IInv, CtxInv, RelInv, ctxVars
  <2>3. Starting(t, c)' <=> Starting(t, c)
    BY <1>4 DEF Starting
  <2>4. StartInv(c)'
    BY <1>1, <1>5, <2>3, StartKept, StaysPut DEF ctxVars, handleVars
  <2>5. Use(t, c)' = Use(t, c)
    BY <1>1, <1>4, StaysPut DEF Use, One, Pushes, Ends
  <2>6. RefInv(c)'
    BY <1>1, <1>5, <1>6, <2>5, RefKept DEF TypeInv, CtxType, ctxVars, handleVars
  <2>7. Hands(t, c)' <=> Hands(t, c)
    BY <1>1, StaysPut
  <2>8. Made(t, c)' = Made(t, c) /\ Made(t, c) \in Nat
    BY <1>4 DEF Made, Launches, One
  <2>9. PlaceInv(c)'
    <3>1. CASE c # d
      <4>1. Spot(t, c)' = Spot(t, c)
        BY <1>4, <2>7, <3>1, ServiceAssumption DEF Spot, Drops, One
      <4> QED
        BY <1>3, <1>5, <2>8, <3>1, <4>1, PlaceKept
    <3>2. CASE c = d
      <4>1. Spot(t, c) = Spot(t, c)' + 1 /\ Spot(t, c)' \in Nat
        BY <1>1, <1>4, <2>7, <3>2, ServiceAssumption DEF Spot, Drops, One
      <4>2. InList(c)' + Spot(t, c)' + Made(t, c)' = InList(c) + Spot(t, c) + Made(t, c) + (-1)
        BY <1>3, <2>8, <4>1
      <4>3. Sums(c)' = Sums(c) + (-1)
        BY <1>3, <1>5, <4>2, SumsMove
      <4> QED
        BY <1>2, <1>3, <3>2, <4>3 DEF PlaceInv
    <3> QED
      BY <3>1, <3>2
  <2> QED
    BY <2>1, <2>2, <2>4, <2>6, <2>9 DEF CtxInv
<1> QED
  BY <1>6, <1>9, <1>10, <1>11 DEF IInv

LEMMA DeleteStep ==
  ASSUME IInv, NEW t \in Threads, Delete(t)
  PROVE  IInv'
<1> DEFINE d == rel[t]
<1>1. /\ d \in Contexts /\ MqMarkRelease(d) /\ rel' = [rel EXCEPT ![t] = 0]
      /\ alive' = [alive EXCEPT ![d] = FALSE]
      /\ UNCHANGED <<handleVars, ref, init, workerVars, op, drop, snd, bounds>>
  BY DEF Delete, IInv, TypeInv, CallType, Ctx
<1>2. alive[d] /\ ref[d] = 0 /\ \A u \in Threads : rel[u] = d => u = t
  BY <1>1 DEF IInv, CtxInv, RelInv
<1>3. queue[d].state = "live" /\ ~queue[d].release
  <2>1. \A u \in Threads : ~Learns(u, d)
    <3> SUFFICES ASSUME NEW u \in Threads, Learns(u, d) PROVE FALSE
      OBVIOUS
    <3>1. Ends(u, d)
      BY DEF Learns, Ends
    <3> QED
      BY <1>1, <1>2, <3>1, Referred
  <2>2. queue[d].state \in {"none", "live", "freed"}
    BY <1>1, QueueFields DEF IInv, TypeInv, MqType
  <2> QED
    BY <1>1, <1>2, <2>1, <2>2 DEF IInv, CtxInv, AliveInv
<1>4. /\ MqType'
      /\ \A c \in Contexts : c # d => queue'[c] = queue[c]
      /\ queue'[d].state = queue[d].state /\ queue'[d].inGlobal = queue[d].inGlobal
      /\ queue'[d].release
      /\ \A c \in Contexts :
           InList(c) \in Nat /\ InList(c)' = InList(c) + One(c = d /\ ~queue[d].inGlobal)
  BY <1>1, MarkEffect DEF IInv, TypeInv
<1>5. /\ rel' \in [Threads -> Ctx] /\ \A u \in Threads : u # t => rel'[u] = rel[u]
      /\ rel'[t] = 0
      /\ alive' \in [Contexts -> BOOLEAN] /\ ~alive'[d]
      /\ \A c \in Contexts : c # d => alive'[c] = alive[c]
  BY <1>1 DEF IInv, TypeInv, CallType, CtxType, Ctx
<1>6. OnlyMoves(t) /\ SameLaunch(t)
  BY <1>1 DEF OnlyMoves, SameLaunch, workerVars
<1>7. TypeInv'
  BY <1>1, <1>4, <1>5 DEF IInv, TypeInv, TableType, CtxType, WorkerType, CallType, handleVars,
    workerVars, bounds, Size
<1>8. \A c \in Contexts : queue'[c].state = "none" <=> queue[c].state = "none"
  BY <1>4
<1>9. CallInv(t)'
  <2>1. CallInv(t) /\ op[t] \in OpType /\ snd[t] \in SndType
    BY DEF IInv, TypeInv, CallType
  <2>2. (op[t].kind = "launch" => op[t].c \in Contexts) /\ (snd[t] # NoSnd => snd[t].c \in Contexts)
    BY <2>1, OpFields, SndFields
  <2> QED
    BY <1>1, <1>8, <2>1, <2>2 DEF CallInv, workerVars
<1>10. TableInv' /\ \A u \in Threads : CallInv(u)'
  BY <1>1, <1>6, <1>7, <1>8, <1>9, TableKept, CallsKept
<1>11. \A w \in Workers : LoopInv(w)'
  BY <1>1 DEF IInv, LoopInv, workerVars
<1>12. ASSUME NEW c \in Contexts PROVE CtxInv(c)'
  <2>1. AliveInv(c)'
    <3>1. CASE c # d
      BY <1>1, <1>4, <1>5, <1>6, <3>1, AliveKept
    <3>2. CASE c = d
      BY <1>1, <1>3, <1>4, <1>5, <3>2 DEF AliveInv
    <3> QED
      BY <3>1, <3>2
  <2>2. RelInv(c)'
    <3>1. CASE c # d
      BY <1>1, <1>5, <3>1, ServiceAssumption DEF IInv, CtxInv, RelInv
    <3>2. CASE c = d
      <4>1. \A u \in Threads : rel'[u] # d
        BY <1>1, <1>2, <1>5, ServiceAssumption
      <4> QED
        BY <1>1, <1>2, <1>5, <3>2, <4>1 DEF RelInv
    <3> QED
      BY <3>1, <3>2
  <2>3. Starting(t, c)' <=> Starting(t, c)
    BY <1>1 DEF Starting
  <2>4. StartInv(c)'
    BY <1>1, <1>6, <2>3, StartKept, StaysPut DEF handleVars
  <2>5. Use(t, c)' = Use(t, c)
    BY <1>1, StaysPut DEF Use, One, Pushes, Ends
  <2>6. RefInv(c)'
    BY <1>1, <1>6, <1>7, <2>5, RefKept DEF TypeInv, CtxType, handleVars
  <2>7. Spot(t, c)' = Spot(t, c) /\ Spot(t, c) \in Nat
    BY <1>1, StaysPut DEF Spot, One
  <2>8. Made(t, c)' = Made(t, c) /\ Made(t, c) \in Nat
    BY <1>1 DEF Made, Launches, One
  <2>9. PlaceInv(c)'
    <3> DEFINE k == One(c = d /\ ~queue[d].inGlobal)
    <3>1. k \in Int /\ InList(c) \in Nat /\ InList(c)' = InList(c) + k
      BY <1>4 DEF One
    <3>2. InList(c)' + Spot(t, c)' + Made(t, c)' = InList(c) + Spot(t, c) + Made(t, c) + k
      BY <2>7, <2>8, <3>1
    <3>3. Sums(c) \in Nat /\ Sums(c)' = Sums(c) + k
      <4> HIDE DEF k
      <4> QED
        BY <1>4, <1>6, <3>1, <3>2, SumsMove
    <3>4. PlaceInv(c)
      BY DEF IInv, CtxInv
    <3>5. CASE c # d
      <4>1. k = 0
        BY <3>5 DEF One
      <4>2. InList(c)' = InList(c)
        BY <3>1, <4>1
      <4> QED
        BY <1>4, <1>6, <2>7, <2>8, <3>5, <4>2, PlaceKept
    <3>6. CASE c = d
      BY <1>3, <1>4, <3>3, <3>4, <3>6 DEF PlaceInv, One
    <3> QED
      BY <3>5, <3>6
  <2> QED
    BY <2>1, <2>2, <2>4, <2>6, <2>9 DEF CtxInv
<1> QED
  BY <1>7, <1>10, <1>11, <1>12 DEF IInv

LEMMA LaunchReadyStep ==
  ASSUME IInv, NEW t \in Threads, LaunchReady(t)
  PROVE  IInv'
<1> DEFINE d == op[t].c
<1>1. /\ op[t].kind = "launch" /\ op[t].step = "ready" /\ Goto(t, "push")
      /\ init' = [init EXCEPT ![d] = TRUE]
      /\ UNCHANGED <<mqVars, handleVars, ref, alive, workerVars, drop, snd, rel, bounds>>
  BY DEF LaunchReady, At
<1>2. "push" \in LaunchSteps
  BY DEF LaunchSteps
<1>3. /\ op[t] # NoOp /\ d \in Contexts
      /\ op' \in [Threads -> OpType] /\ \A u \in Threads : u # t => op'[u] = op[u]
      /\ op'[t].kind = "launch" /\ op'[t].c = d /\ op'[t].step = "push"
  BY <1>1, <1>2, GotoOp
<1>4. OnlyMoves(t) /\ SameLaunch(t)
  BY <1>1, <1>3 DEF OnlyMoves, SameLaunch, workerVars
<1>5. /\ init' \in [Contexts -> BOOLEAN] /\ init'[d]
      /\ \A c \in Contexts : c # d => init'[c] = init[c]
  BY <1>1, <1>3 DEF IInv, TypeInv, CtxType
<1>6. TypeInv'
  BY <1>1, <1>3, <1>5 DEF IInv, TypeInv, MqType, TableType, CtxType, WorkerType, CallType, mqVars,
    handleVars, workerVars, bounds, Size
<1>7. CallInv(t)'
  BY <1>1, <1>3 DEF IInv, CallInv, workerVars, mqVars
<1>8. TableInv' /\ \A u \in Threads : CallInv(u)'
  BY <1>1, <1>4, <1>6, <1>7, TableKept, CallsKept DEF mqVars
<1>9. \A w \in Workers : LoopInv(w)'
  BY <1>1 DEF IInv, LoopInv, workerVars
<1>10. ASSUME NEW c \in Contexts PROVE CtxInv(c)'
  <2>1. AliveInv(c)'
    <3>1. AliveInv(c) /\ (c = d => queue[c].state # "none")
      BY <1>1 DEF IInv, CtxInv, CallInv
    <3>2. \A u \in Threads : Learns(u, c)' <=> Learns(u, c)
      BY <1>4, LearnsKept
    <3> QED
      BY <1>1, <1>5, <3>1, <3>2 DEF AliveInv, mqVars
  <2>2. RelInv(c)'
    BY <1>1 DEF IInv, CtxInv, RelInv
  <2>3. StartInv(c)'
    <3>1. CASE c = d
      BY <1>5, <3>1 DEF StartInv
    <3>2. CASE c # d
      <4>1. \A u \in Threads : (Starting(u, c)' <=> Starting(u, c)) /\ (Works(u, c)' <=> Works(u, c))
        BY <1>1, <1>3, <3>2, StaysPut DEF Starting
      <4>2. Listed(c)' = Listed(c)
        BY <1>1 DEF Listed, InTable, handleVars
      <4>3. StartInv(c)
        BY DEF IInv, CtxInv
      <4> QED
        BY <1>5, <3>2, <4>1, <4>2, <4>3 DEF StartInv
    <3> QED
      BY <3>1, <3>2
  <2>4. Use(t, c)' = Use(t, c)
    BY <1>1, <1>3, StaysPut DEF Use, One, Pushes, Ends
  <2>5. RefInv(c)'
    BY <1>1, <1>4, <1>6, <2>4, RefKept DEF TypeInv, CtxType, handleVars
  <2>6. Spot(t, c)' = Spot(t, c) /\ Made(t, c)' = Made(t, c)
    BY <1>1, <1>3, StaysPut DEF Made, Launches
  <2>7. InList(c)' = InList(c)
    BY <1>1, ListKept DEF IInv, TypeInv, mqVars
  <2>8. PlaceInv(c)'
    BY <1>1, <1>4, <1>6, <2>6, <2>7, PlaceKept DEF TypeInv, mqVars
  <2> QED
    BY <2>1, <2>2, <2>3, <2>5, <2>8 DEF CtxInv
<1> QED
  BY <1>6, <1>8, <1>9, <1>10 DEF IInv

LEMMA LaunchInitStep ==
  ASSUME IInv, NEW t \in Threads, LaunchInit(t)
  PROVE  IInv'
<1> DEFINE d == op[t].c
           m == Message(d, MaxSends, FALSE)
<1>1. /\ op[t].kind = "launch" /\ op[t].step = "init" /\ MqPush(d, m)
      /\ UNCHANGED <<handleVars, ctxVars, workerVars, drop, snd, rel, bounds>>
  BY DEF LaunchInit, At
<1>2. PICK s \in {"release", "failed"} : Goto(t, s)
  BY DEF LaunchInit
<1>3. s \in LaunchSteps
  BY DEF LaunchSteps
<1>4. /\ op[t] # NoOp /\ d \in Contexts
      /\ op' \in [Threads -> OpType] /\ \A u \in Threads : u # t => op'[u] = op[u]
      /\ op'[t].kind = "launch" /\ op'[t].c = d /\ op'[t].step = s
  BY <1>1, <1>2, <1>3, GotoOp
<1>5. m \in Msg
  BY <1>4, ServiceAssumption DEF Msg, Message, Ctx
<1>6. queue[d].state = "live" /\ ~queue[d].release /\ queue[d].inGlobal /\ Sums(d) = 1
  <2>1. Launches(t, d) /\ Ends(t, d)
    BY <1>1 DEF Launches, Ends
  <2> QED
    BY <1>1, <1>4, <2>1, Placed, Referred
<1> HIDE DEF m
<1>7. /\ MqType'
      /\ \A c \in Contexts : c # d => queue'[c] = queue[c]
      /\ queue'[d].state = queue[d].state /\ queue'[d].release = queue[d].release
      /\ queue'[d].inGlobal
      /\ \A c \in Contexts :
           InList(c) \in Nat /\ InList(c)' = InList(c) + One(c = d /\ ~queue[d].inGlobal)
  BY <1>1, <1>4, <1>5, PushEffect DEF IInv, TypeInv
<1>8. \A c \in Contexts : InList(c)' = InList(c)
  BY <1>6, <1>7 DEF One
<1>9. OnlyMoves(t) /\ SameLaunch(t)
  BY <1>1, <1>2, <1>4 DEF OnlyMoves, SameLaunch, workerVars
<1>10. TypeInv'
  BY <1>1, <1>4, <1>7 DEF IInv, TypeInv, TableType, CtxType, WorkerType, CallType, handleVars,
    ctxVars, workerVars, bounds, Size
<1>11. \A c \in Contexts : queue'[c].state = queue[c].state /\ queue'[c].release = queue[c].release
                           /\ queue'[c].inGlobal = queue[c].inGlobal
  <2> SUFFICES ASSUME NEW c \in Contexts, c = d PROVE queue'[c].inGlobal = queue[c].inGlobal
    BY <1>7
  <2>1. queue'[d] \in QueueType /\ queue[d] \in QueueType
    BY <1>4, <1>7 DEF IInv, TypeInv, MqType
  <2> QED
    BY <1>6, <1>7, <2>1, QueueFields
<1>12. CallInv(t)'
  <2>1. CallInv(t) /\ snd[t] \in SndType
    BY DEF IInv, TypeInv, CallType
  <2>2. snd[t] # NoSnd => snd[t].c \in Contexts
    BY <2>1, SndFields
  <2> QED
    BY <1>1, <1>2, <1>4, <1>6, <1>11, <2>1, <2>2 DEF CallInv, workerVars
<1>13. ASSUME NEW c \in Contexts
       PROVE  RelInv(c)' /\ PlaceInv(c)' /\ ref'[c] + Use(t, c) = ref[c] + Use(t, c)'
  <2>1. RelInv(c)'
    BY <1>1 DEF IInv, CtxInv, RelInv, ctxVars
  <2>2. Spot(t, c)' = Spot(t, c) /\ Made(t, c)' = Made(t, c)
    BY <1>1, <1>4, StaysPut DEF Made, Launches
  <2>3. PlaceInv(c)'
    <3>1. queue'[c].msgs = queue[c].msgs \/ Sums(c) = 1
      BY <1>6, <1>7
    <3> QED
      BY <1>7, <1>8, <1>9, <1>11, <2>2, <3>1, PlaceKept
  <2>4. Use(t, c)' = Use(t, c) /\ Use(t, c) \in Nat /\ ref'[c] = ref[c]
    BY <1>1, <1>2, <1>4, StaysPut DEF Use, Pushes, Ends, One, ctxVars
  <2> QED
    BY <2>1, <2>3, <2>4
<1>14. \A c \in Contexts : /\ Works(t, c)' => Works(t, c) \/ init[c]
                           /\ Starting(t, c) => Starting(t, c)' \/ init[c] \/ Listed(c) = 0
  BY <1>1, <1>2, <1>4, StaysPut DEF Starting
<1>15. (t \in Workers => LoopInv(t)') /\ UNCHANGED <<handleVars, alive, init>>
  BY <1>1, StaysPut DEF IInv, ctxVars
<1> QED
  BY <1>9, <1>10, <1>11, <1>12, <1>13, <1>14, <1>15, Frame

\* A message to c is refused, or c is held until it is pushed.
LEMMA GrabToPush ==
  ASSUME IInv, NEW t \in Threads, NEW d \in Contexts, NEW m \in Msg, snd[t] = NoSnd,
         Grab(t, d, m), UNCHANGED <<alive, rel>>
  PROVE  /\ ref' \in [Contexts -> Nat] /\ snd' \in [Threads -> SndType]
         /\ \A u \in Threads : u # t => snd'[u] = snd[u]
         /\ snd'[t] # NoSnd => snd'[t].c \in Contexts /\ queue[snd'[t].c].state # "none"
         /\ \A c \in Contexts :
              RelInv(c)' /\ ref'[c] + One(Pushes(t, c)) = ref[c] + One(Pushes(t, c)')
<1>1. \A c \in Contexts : ~Pushes(t, c)
  BY SndFields, ServiceAssumption DEF Pushes
<1>2. CASE Found(d)
  <2> DEFINE s == [step |-> "push", c |-> d, m |-> m]
  <2>1. /\ snd' = [snd EXCEPT ![t] = s] /\ ref' = [ref EXCEPT ![d] = @ + 1]
    BY <1>2 DEF Grab
  <2>2. s \in SndType /\ s.c = d
    BY DEF SndType
  <2>3. ref[d] >= 1 /\ queue[d].state = "live"
    BY <1>2, Referred
  <2>4. /\ ref' \in [Contexts -> Nat]
        /\ \A c \in Contexts : ref'[c] = ref[c] + One(c = d)
        /\ \A c \in Contexts : RelInv(c)'
    BY <2>1, <2>3, GrabEffect
  <2> HIDE DEF s
  <2>5. /\ snd' \in [Threads -> SndType] /\ \A u \in Threads : u # t => snd'[u] = snd[u]
        /\ snd'[t].c = d
    BY <2>1, <2>2 DEF IInv, TypeInv, CallType
  <2>6. \A c \in Contexts : ref[c] \in Nat /\ (Pushes(t, c)' <=> c = d)
    BY <2>5 DEF Pushes, IInv, TypeInv, CtxType
  <2> QED
    BY <1>1, <2>3, <2>4, <2>5, <2>6 DEF One
<1>3. CASE ~Found(d)
  <2>1. snd' = snd /\ ref' = ref
    BY <1>3 DEF Grab
  <2>2. \A c \in Contexts : RelInv(c)'
    BY <2>1 DEF IInv, CtxInv, RelInv
  <2>3. \A c \in Contexts : ref[c] \in Nat /\ ~Pushes(t, c)'
    BY <1>1, <2>1 DEF Pushes, IInv, TypeInv, CtxType
  <2> QED
    BY <1>1, <2>1, <2>2, <2>3 DEF One, IInv, TypeInv, CtxType, CallType
<1> QED
  BY <1>2, <1>3

LEMMA DropMessageStep ==
  ASSUME IInv, NEW t \in Threads, DropMessage(t)
  PROVE  IInv'
<1> DEFINE d == drop[t]
           m == Head(queue[d].msgs)
           a == Message(d, m.n, TRUE)
<1>1. /\ d \in Contexts /\ queue[d].release /\ MqPop(d, m) /\ snd[t] = NoSnd
      /\ IF m.from = 0 THEN UNCHANGED <<snd, ref>> ELSE Grab(t, m.from, a)
      /\ UNCHANGED <<handleVars, alive, init, workerVars, op, drop, rel, bounds>>
  BY DEF DropMessage, NotPushing, IInv, TypeInv, CallType, Ctx
<1>2. queue[d].state = "live" /\ Sums(d) = 1
  BY <1>1, Placed DEF Drops
<1>3. /\ MqType' /\ m \in Msg
      /\ \A c \in Contexts : c # d => queue'[c] = queue[c]
      /\ queue'[d].state = queue[d].state /\ queue'[d].inGlobal = queue[d].inGlobal
      /\ queue'[d].release = queue[d].release
      /\ \A c \in Contexts : InList(c) \in Nat /\ InList(c)' = InList(c)
  BY <1>1, PopEffect DEF IInv, TypeInv
<1>4. a \in Msg /\ m.from \in Ctx
  BY <1>1, <1>3 DEF Msg, Message, Ctx
<1> HIDE DEF m, a
<1>5. /\ ref' \in [Contexts -> Nat] /\ snd' \in [Threads -> SndType]
      /\ \A u \in Threads : u # t => snd'[u] = snd[u]
      /\ snd'[t] # NoSnd => snd'[t].c \in Contexts /\ queue[snd'[t].c].state # "none"
      /\ \A c \in Contexts :
           RelInv(c)' /\ ref'[c] + One(Pushes(t, c)) = ref[c] + One(Pushes(t, c)')
  <2>1. CASE m.from = 0
    <3>1. snd' = snd /\ ref' = ref /\ alive' = alive /\ rel' = rel
      BY <1>1, <2>1
    <3> QED
      BY <1>1, <3>1 DEF IInv, TypeInv, CtxType, CallType, CtxInv, RelInv, Pushes, One
  <2>2. CASE m.from # 0
    <3>1. m.from \in Contexts /\ Grab(t, m.from, a)
      BY <1>1, <1>4, <2>2 DEF Ctx
    <3> QED
      BY <1>1, <1>4, <3>1, GrabToPush
  <2> QED
    BY <2>1, <2>2
<1>6. OnlyMoves(t) /\ SameLaunch(t) /\ op'[t] = op[t]
  BY <1>1, <1>5 DEF OnlyMoves, SameLaunch, workerVars
<1>7. TypeInv'
  BY <1>1, <1>3, <1>5 DEF IInv, TypeInv, TableType, CtxType, WorkerType, CallType, handleVars,
    workerVars, bounds, Size
<1>8. \A c \in Contexts : /\ queue'[c].state = queue[c].state /\ queue'[c].release = queue[c].release
                          /\ queue'[c].inGlobal = queue[c].inGlobal
  BY <1>3
<1>9. CallInv(t)'
  <2>1. CallInv(t) /\ op[t] \in OpType
    BY DEF IInv, TypeInv, CallType
  <2>2. op[t].kind = "launch" => op[t].c \in Contexts
    BY <2>1, OpFields
  <2> QED
    BY <1>1, <1>5, <1>8, <2>1, <2>2 DEF CallInv, workerVars
<1>10. ASSUME NEW c \in Contexts
       PROVE  PlaceInv(c)' /\ ref'[c] + Use(t, c) = ref[c] + Use(t, c)'
  <2>1. Spot(t, c)' = Spot(t, c) /\ Made(t, c)' = Made(t, c)
    BY <1>1, <1>6, StaysPut DEF Made, Launches
  <2>2. PlaceInv(c)'
    <3>1. queue'[c].msgs = queue[c].msgs \/ Sums(c) = 1
      BY <1>2, <1>3
    <3> QED
      BY <1>3, <1>6, <1>8, <2>1, <3>1, PlaceKept
  <2>3. One(Works(t, c)') = One(Works(t, c)) /\ One(Ends(t, c)') = One(Ends(t, c))
    BY <1>1, <1>6, StaysPut DEF Ends, One
  <2>4. ref[c] \in Nat /\ ref'[c] \in Nat /\ ref'[c] + One(Pushes(t, c)) = ref[c] + One(Pushes(t, c)')
    BY <1>5 DEF IInv, TypeInv, CtxType
  <2> QED
    BY <2>2, <2>3, <2>4 DEF Use, One
<1>11. \A c \in Contexts : /\ Works(t, c)' => Works(t, c) \/ init[c]
                           /\ Starting(t, c) => Starting(t, c)' \/ init[c] \/ Listed(c) = 0
  BY <1>1, <1>6, StaysPut DEF Starting
<1>12. (t \in Workers => LoopInv(t)') /\ UNCHANGED <<handleVars, alive, init>>
  BY <1>1, StaysPut DEF IInv
<1> QED
  BY <1>5, <1>6, <1>7, <1>8, <1>9, <1>10, <1>11, <1>12, Frame

-----------------------------------------------------------------------------
(* What a callback begins.                                                 *)

LEMMA SendStep ==
  ASSUME IInv, NEW t \in Threads, NEW d \in Contexts, Send(t, d)
  PROVE  IInv'
<1> DEFINE m == Message(IF t \in Outside THEN 0 ELSE held[t], sends, FALSE)
<1>1. /\ snd[t] = NoSnd /\ Grab(t, d, m) /\ sends' = sends + 1
      /\ UNCHANGED <<mqVars, handleVars, alive, init, workerVars, op, drop, rel, kills>>
  BY DEF Send, InCallback, NotDropping, NotPushing
<1>2. m \in Msg
  <2>1. (IF t \in Outside THEN 0 ELSE held[t]) \in Ctx
    BY DEF IInv, TypeInv, WorkerType, Threads, Ctx
  <2> QED
    BY <2>1 DEF IInv, TypeInv, Msg, Message
<1> HIDE DEF m
<1>3. /\ ref' \in [Contexts -> Nat] /\ snd' \in [Threads -> SndType]
      /\ \A u \in Threads : u # t => snd'[u] = snd[u]
      /\ snd'[t] # NoSnd => snd'[t].c \in Contexts /\ queue[snd'[t].c].state # "none"
      /\ \A c \in Contexts :
           RelInv(c)' /\ ref'[c] + One(Pushes(t, c)) = ref[c] + One(Pushes(t, c)')
  BY <1>1, <1>2, GrabToPush
<1>4. OnlyMoves(t) /\ SameLaunch(t) /\ op'[t] = op[t]
  BY <1>1, <1>3 DEF OnlyMoves, SameLaunch, workerVars
<1>5. TypeInv'
  BY <1>1, <1>3 DEF IInv, TypeInv, MqType, TableType, CtxType, WorkerType, CallType, mqVars,
    handleVars, workerVars, Size
<1>6. CallInv(t)'
  BY <1>1, <1>3 DEF IInv, CallInv, workerVars, mqVars
<1>7. ASSUME NEW c \in Contexts
      PROVE  PlaceInv(c)' /\ ref'[c] + Use(t, c) = ref[c] + Use(t, c)'
  <2>1. Spot(t, c)' = Spot(t, c) /\ Made(t, c)' = Made(t, c)
    BY <1>1, <1>4, StaysPut DEF Made, Launches
  <2>2. InList(c)' = InList(c)
    BY <1>1, ListKept DEF IInv, TypeInv, mqVars
  <2>3. PlaceInv(c)'
    BY <1>1, <1>4, <1>5, <2>1, <2>2, PlaceKept DEF TypeInv, mqVars
  <2>4. One(Works(t, c)') = One(Works(t, c)) /\ One(Ends(t, c)') = One(Ends(t, c))
    BY <1>1, <1>4, StaysPut DEF Ends, One
  <2>5. ref[c] \in Nat /\ ref'[c] \in Nat /\ ref'[c] + One(Pushes(t, c)) = ref[c] + One(Pushes(t, c)')
    BY <1>3 DEF IInv, TypeInv, CtxType
  <2> QED
    BY <2>3, <2>4, <2>5 DEF Use, One
<1>8. \A c \in Contexts : /\ Works(t, c)' => Works(t, c) \/ init[c]
                          /\ Starting(t, c) => Starting(t, c)' \/ init[c] \/ Listed(c) = 0
  BY <1>1, <1>4, StaysPut DEF Starting
<1>9. /\ t \in Workers => LoopInv(t)'
      /\ UNCHANGED <<handleVars, alive, init>>
      /\ \A c \in Contexts : queue'[c].state = queue[c].state /\ queue'[c].release = queue[c].release
  BY <1>1, StaysPut DEF IInv, mqVars
<1> QED
  BY <1>3, <1>4, <1>5, <1>6, <1>7, <1>8, <1>9, Frame

\* A context that is removed was in one slot.
LEMMA RemoveEffect ==
  ASSUME IInv, NEW d \in Contexts, Remove(d)
  PROVE  /\ TableType' /\ Size' = Size /\ handle' = handle
         /\ \A i \in 0..Size - 1 : slot'[i] = IF slot[i] = d THEN 0 ELSE slot[i]
         /\ \A c \in Contexts : Listed(c)' \in Nat /\ Listed(c)' + One(c = d) = Listed(c)
         /\ Listed(d)' = 0
<1> DEFINE k == handle[d] % Size
<1>1. /\ TableType /\ Found(d) /\ handle[d] # 0
      /\ slot' = [slot EXCEPT ![k] = 0] /\ handle' = handle /\ handleIndex' = handleIndex
  BY DEF Remove, Found, IInv, TypeInv
<1>2. k \in 0..Size - 1 /\ slot[k] = d
  BY <1>1, ModRange DEF TableType, Found
<1>3. \A i \in 0..Size - 1 : slot[i] = d => i = k
  BY <1>1, ServiceAssumption DEF IInv, TableInv
<1>4. DOMAIN slot' = DOMAIN slot /\ Size' = Size
  BY <1>1 DEF Size
<1> HIDE DEF k
<1>5. \A i \in 0..Size - 1 : slot'[i] = IF slot[i] = d THEN 0 ELSE slot[i]
  BY <1>1, <1>2, <1>3 DEF TableType
<1>6. TableType'
  BY <1>1, <1>2, <1>4 DEF TableType, Ctx
<1>7. InTable(d) = {k} /\ InTable(d)' = {}
  BY <1>1, <1>2, <1>3, <1>4, <1>5, ServiceAssumption DEF InTable, TableType
<1>8. \A c \in Contexts : c # d => InTable(c)' = InTable(c)
  BY <1>1, <1>4, <1>5, ServiceAssumption DEF InTable, TableType
<1>9. Listed(d) = 1 /\ Listed(d)' = 0
  BY <1>7, FS_Singleton, FS_EmptySet DEF Listed
<1>10. \A c \in Contexts : Listed(c) \in Nat /\ (c # d => Listed(c)' = Listed(c))
  BY <1>1, <1>8, TableFinite DEF Listed
<1> QED
  BY <1>1, <1>4, <1>5, <1>6, <1>9, <1>10 DEF One

LEMMA TableRemoved ==
  ASSUME IInv, NEW d \in Contexts, Remove(d), NEW t \in Threads, OnlyMoves(t), SameLaunch(t),
         \A c \in Contexts : queue'[c].state = "none" <=> queue[c].state = "none"
  PROVE  TableInv'
<1>1. /\ Size' = Size /\ handle' = handle
      /\ \A i \in 0..Size - 1 : slot'[i] = IF slot[i] = d THEN 0 ELSE slot[i]
  BY RemoveEffect
<1>2. \A u \in Threads : u # t => op'[u] = op[u]
  BY DEF OnlyMoves
<1>3. \A u \in Threads, c \in Contexts : Learns(u, c) => op'[u] = op[u] /\ Learns(u, c)'
  BY <1>2 DEF SameLaunch, Learns
<1>4. TableInv /\ handle[d] # 0 /\ TableType
  BY DEF IInv, TypeInv, Remove, Found
<1>5. (\A c \in Contexts : handle[c] # 0 => queue[c].state # "none")'
  BY <1>1, <1>4 DEF TableInv
<1>6. (\A i \in 0..Size - 1 : slot[i] # 0 =>
        \/ handle[slot[i]] # 0 /\ handle[slot[i]] % Size = i
        \/ handle[slot[i]] = 0 /\ \E u \in Threads : Learns(u, slot[i]) /\ op[u].h % Size = i)'
  <2> SUFFICES ASSUME NEW i \in 0..Size - 1, slot'[i] # 0
               PROVE  \/ handle[slot'[i]] # 0 /\ handle[slot'[i]] % Size = i
                      \/ handle[slot'[i]] = 0
                         /\ \E u \in Threads : Learns(u, slot[i])' /\ op'[u].h % Size = i
    BY <1>1 DEF Learns
  <2>1. slot'[i] = slot[i] /\ slot[i] # 0
    BY <1>1
  <2>2. slot[i] \in Contexts
    BY <1>4, <2>1 DEF TableType, Ctx
  <2>3. \/ handle[slot[i]] # 0 /\ handle[slot[i]] % Size = i
        \/ handle[slot[i]] = 0 /\ \E u \in Threads : Learns(u, slot[i]) /\ op[u].h % Size = i
    BY <1>4, <2>1 DEF TableInv
  <2>4. ASSUME NEW u \in Threads, Learns(u, slot[i])
        PROVE  Learns(u, slot[i])' /\ op'[u].h = op[u].h
    <3>1. op'[u] = op[u]
      BY <1>3, <2>2, <2>4
    <3> QED
      BY <2>1, <2>4, <3>1 DEF Learns
  <2> QED
    BY <2>1, <2>3, <2>4
<1>7. (\A u \in Threads : op[u].kind = "launch" =>
        IF op[u].step = "learn"
          THEN op[u].h # 0 /\ handle[op[u].c] = 0 /\ slot[op[u].h % Size] = op[u].c
          ELSE handle[op[u].c] # 0)'
  <2> SUFFICES ASSUME NEW u \in Threads, op'[u].kind = "launch"
               PROVE  IF op'[u].step = "learn"
                        THEN op'[u].h # 0 /\ handle[op'[u].c] = 0
                             /\ slot'[op'[u].h % Size] = op'[u].c
                        ELSE handle[op'[u].c] # 0
    BY <1>1
  <2>1. CASE op'[u].step = "learn"
    <3>1. op'[u] = op[u]
      BY <1>2, <2>1 DEF SameLaunch
    <3>2. op[u].h # 0 /\ handle[op[u].c] = 0 /\ slot[op[u].h % Size] = op[u].c
      BY <1>4, <2>1, <3>1 DEF TableInv
    <3>3. op[u].h % Size \in 0..Size - 1
      BY <1>4, <2>1, <3>1, ModRange, OpFields DEF IInv, TypeInv, CallType, TableType
    <3> QED
      BY <1>1, <1>4, <2>1, <3>1, <3>2, <3>3
  <2>2. CASE op'[u].step # "learn"
    BY <1>2, <1>4, <2>2 DEF TableInv, SameLaunch
  <2> QED
    BY <2>1, <2>2
<1> QED
  BY <1>5, <1>6, <1>7 DEF TableInv

\* A thread takes the table's reference for its own.
LEMMA TakeOver ==
  ASSUME IInv, NEW t \in Threads, NEW d \in Contexts, Remove(d),
         UNCHANGED <<mqVars, ctxVars, workerVars, drop, snd, rel, sends>>,
         op' \in [Threads -> OpType], OnlyMoves(t), SameLaunch(t), CallInv(t)',
         \A c \in Contexts :
           /\ Use(t, c)' = Use(t, c) + One(c = d) /\ Made(t, c)' = Made(t, c)
           /\ Starting(t, c) => Starting(t, c)' \/ c = d
  PROVE  IInv'
<1>1. /\ TableType'
      /\ \A c \in Contexts : Listed(c)' \in Nat /\ Listed(c)' + One(c = d) = Listed(c)
      /\ Listed(d)' = 0
  BY RemoveEffect
<1>2. TypeInv'
  BY <1>1 DEF IInv, TypeInv, MqType, CtxType, WorkerType, CallType, mqVars, ctxVars, workerVars
<1>3. TableInv' /\ \A u \in Threads : CallInv(u)'
  BY <1>2, TableRemoved, CallsKept DEF mqVars
<1>4. \A w \in Workers : LoopInv(w)'
  BY DEF IInv, LoopInv, workerVars
<1>5. ASSUME NEW c \in Contexts PROVE CtxInv(c)'
  <2>1. AliveInv(c)'
    BY AliveKept DEF ctxVars, mqVars
  <2>2. RelInv(c)'
    BY DEF IInv, CtxInv, RelInv, ctxVars
  <2>3. StartInv(c)'
    <3>1. StartInv(c) /\ init' = init
      BY DEF IInv, CtxInv, ctxVars
    <3>2. \A u \in Threads : Works(u, c)' <=> Works(u, c)
      BY StaysPut
    <3>3. CASE c = d
      BY <1>1, <3>1, <3>2, <3>3 DEF StartInv
    <3>4. CASE c # d
      <4>1. Listed(c)' = Listed(c)
        BY <1>1, <3>4 DEF One
      <4>2. \A u \in Threads : Starting(u, c) => Starting(u, c)'
        BY <3>4 DEF OnlyMoves, Starting
      <4> QED
        BY <3>1, <3>2, <4>1, <4>2 DEF StartInv
    <3> QED
      BY <3>3, <3>4
  <2>4. RefInv(c)'
    <3>1. Used(c) \in Nat /\ Used(c)' \in Nat /\ Used(c)' + Use(t, c) = Used(c) + Use(t, c)'
      BY CountStep
    <3>2. Use(t, c) \in Nat /\ One(c = d) \in Nat /\ Listed(c) \in Nat
      BY TableFinite DEF Use, One, IInv, TypeInv
    <3>3. Used(c)' = Used(c) + One(c = d)
      BY <3>1, <3>2
    <3>4. ref[c] = Listed(c) + Used(c) /\ ref'[c] = ref[c]
      BY DEF IInv, CtxInv, RefInv, ctxVars
    <3> QED
      BY <1>1, <3>1, <3>2, <3>3, <3>4 DEF RefInv
  <2>5. Spot(t, c)' = Spot(t, c) /\ InList(c)' = InList(c)
    BY StaysPut, ListKept DEF IInv, TypeInv, mqVars
  <2>6. PlaceInv(c)'
    BY <1>2, <2>5, PlaceKept DEF TypeInv, mqVars
  <2> QED
    BY <2>1, <2>2, <2>3, <2>4, <2>6 DEF CtxInv
<1> QED
  BY <1>2, <1>3, <1>4, <1>5 DEF IInv

LEMMA RetireStartStep ==
  ASSUME IInv, NEW t \in Threads, NEW d \in Contexts, RetireStart(t, d)
  PROVE  IInv'
<1> DEFINE o == [NoOp EXCEPT !.kind = "retire", !.step = "release", !.c = d]
<1>1. /\ t \in Workers /\ pc[t] = "call" /\ op[t] = NoOp /\ drop[t] = 0 /\ Remove(d)
      /\ op' = [op EXCEPT ![t] = o]
      /\ UNCHANGED <<mqVars, ctxVars, workerVars, drop, snd, rel, sends>>
  BY ServiceAssumption DEF RetireStart, InCallback, NotDropping
<1>2. o.kind = "retire" /\ o.step = "release" /\ o.c = d /\ o \in RetireOp
  BY DEF NoOp, RetireOp
<1> HIDE DEF o
<1>3. o \in OpType /\ o.kind = "retire" /\ o.step = "release" /\ o.c = d
  BY <1>2 DEF OpType
<1>4. /\ op' \in [Threads -> OpType] /\ \A u \in Threads : u # t => op'[u] = op[u]
      /\ op'[t] = o
  BY <1>1, <1>3 DEF IInv, TypeInv, CallType
<1>5. NoOp.kind = "none" /\ NoOp.step = "none" /\ NoOp.c = 0
  BY OpFields
<1>6. OnlyMoves(t) /\ SameLaunch(t)
  BY <1>1, <1>3, <1>4, <1>5 DEF OnlyMoves, SameLaunch, workerVars
<1>7. CallInv(t)'
  BY <1>1, <1>3, <1>4 DEF IInv, CallInv, workerVars, mqVars
<1>8. ASSUME NEW c \in Contexts
      PROVE  /\ Use(t, c)' = Use(t, c) + One(c = d) /\ Made(t, c)' = Made(t, c)
             /\ Starting(t, c) => Starting(t, c)' \/ c = d
  <2>1. ~Ends(t, c) /\ (Ends(t, c)' <=> c = d)
    BY <1>1, <1>3, <1>4, <1>5 DEF Ends
  <2>2. ~Launches(t, c) /\ ~Launches(t, c)' /\ ~Starting(t, c)
    BY <1>1, <1>3, <1>4, <1>5 DEF Launches, Starting
  <2> QED
    BY <1>1, <2>1, <2>2, StaysPut DEF Use, Pushes, Made, One
<1> QED
  BY <1>1, <1>4, <1>6, <1>7, <1>8, TakeOver

LEMMA LaunchRetireStep ==
  ASSUME IInv, NEW t \in Threads, LaunchRetire(t)
  PROVE  IInv'
<1> DEFINE d == op[t].c
           s == IF Found(d) THEN "retired" ELSE "drop"
<1>1. /\ op[t].kind = "launch" /\ op[t].step = "retire" /\ Goto(t, s) /\ drop[t] = 0
      /\ IF Found(d) THEN Remove(d) ELSE UNCHANGED handleVars
      /\ UNCHANGED <<mqVars, ctxVars, workerVars, drop, snd, rel, bounds>>
  BY DEF LaunchRetire, At, NotDropping
<1>2. s \in LaunchSteps
  BY DEF LaunchSteps
<1> HIDE DEF s
<1>3. /\ op[t] # NoOp /\ d \in Contexts
      /\ op' \in [Threads -> OpType] /\ \A u \in Threads : u # t => op'[u] = op[u]
      /\ op'[t].kind = "launch" /\ op'[t].c = d /\ op'[t].step = s
  BY <1>1, <1>2, GotoOp
<1>4. s # "learn"
  BY DEF s
<1>5. OnlyMoves(t) /\ SameLaunch(t)
  BY <1>1, <1>3, <1>4 DEF OnlyMoves, SameLaunch, workerVars
<1>6. CallInv(t)'
  BY <1>1, <1>3, <1>4 DEF IInv, CallInv, workerVars, mqVars
<1>7. ASSUME NEW c \in Contexts
      PROVE  /\ ~Ends(t, c) /\ (Ends(t, c)' <=> c = d /\ Found(d))
             /\ Made(t, c)' = Made(t, c) /\ Made(t, c) \in Nat
             /\ Starting(t, c) => c = d
  BY <1>1, <1>3 DEF Ends, Made, Launches, One, Starting, s
<1>8. CASE Found(d)
  <2>1. ASSUME NEW c \in Contexts PROVE Use(t, c)' = Use(t, c) + One(c = d)
    BY <1>1, <1>7, <1>8, StaysPut DEF Use, Pushes, One
  <2> QED
    BY <1>1, <1>3, <1>5, <1>6, <1>7, <1>8, <2>1, TakeOver DEF bounds
<1>9. CASE ~Found(d)
  <2>1. Listed(d) = 0
    <3>1. handle[d] # 0 /\ TableInv /\ TableType
      BY <1>1 DEF IInv, TypeInv, TableInv
    <3>2. InTable(d) = {}
      BY <1>3, <1>9, <3>1, ServiceAssumption DEF InTable, TableInv, TableType, Found
    <3> QED
      BY <3>1, <3>2, TableFinite
  <2>2. ASSUME NEW c \in Contexts
        PROVE  /\ Use(t, c)' = Use(t, c)
               /\ Spot(t, c)' = Spot(t, c) /\ InList(c)' = InList(c)
               /\ Starting(t, c) => Listed(c) = 0
    BY <1>1, <1>7, <1>9, <2>1, StaysPut, ListKept DEF Use, Pushes, One, IInv, TypeInv, mqVars
  <2> QED
    BY <1>1, <1>3, <1>5, <1>6, <1>7, <1>9, <2>2, PlaceChange
    DEF mqVars, IInv, TypeInv, MqType, CallType
<1> QED
  BY <1>8, <1>9

LEMMA LaunchLearnStep ==
  ASSUME IInv, NEW t \in Threads, LaunchLearn(t)
  PROVE  IInv'
<1> DEFINE d == op[t].c
           h == op[t].h
<1>1. /\ op[t].kind = "launch" /\ op[t].step = "learn" /\ Goto(t, "init")
      /\ handle' = [handle EXCEPT ![d] = h] /\ queue' = [queue EXCEPT ![d] = NewQueue]
      /\ UNCHANGED <<slot, handleIndex, global, ctxVars, workerVars, drop, snd, rel, bounds>>
  BY DEF LaunchLearn, At, LearnHandle
<1>2. "init" \in LaunchSteps
  BY DEF LaunchSteps
<1>3. /\ op[t] # NoOp /\ d \in Contexts /\ h \in Nat
      /\ op' \in [Threads -> OpType] /\ \A u \in Threads : u # t => op'[u] = op[u]
      /\ op'[t].kind = "launch" /\ op'[t].c = d /\ op'[t].step = "init"
  <2>1. op[t] \in OpType
    BY DEF IInv, TypeInv, CallType
  <2>2. h \in Nat
    BY <1>1, <2>1, OpFields
  <2> QED
    BY <1>1, <1>2, <2>2, GotoOp
<1>4. /\ h # 0 /\ handle[d] = 0 /\ slot[h % Size] = d /\ queue[d].state = "none"
      /\ TableInv /\ TableType /\ t \in Workers
  BY <1>1, <1>3 DEF IInv, TypeInv, TableInv, CallInv
<1>5. /\ queue' \in [Contexts -> QueueType] /\ queue'[d] = NewQueue
      /\ \A c \in Contexts : c # d => queue'[c] = queue[c]
  BY <1>1, <1>3, QueueFields DEF IInv, TypeInv, MqType
<1>6. /\ handle' \in [Contexts -> Nat] /\ handle'[d] = h
      /\ \A c \in Contexts : c # d => handle'[c] = handle[c]
  BY <1>1, <1>3, <1>4 DEF TableType
<1>7. OnlyMoves(t)
  BY <1>1, <1>3 DEF OnlyMoves, workerVars
<1>8. Size' = Size /\ MqType' /\ TypeInv'
  BY <1>1, <1>3, <1>5, <1>6 DEF IInv, TypeInv, MqType, TableType, CtxType, WorkerType, CallType,
    ctxVars, workerVars, bounds, Size
<1>9. \A u \in Threads : op[u].kind = "launch" => u = t
  BY <1>1, MakerOnly
<1>10. \A u \in Threads : \A c : Learns(u, c) => u = t /\ c = d
  <2>1. \A u \in Threads : op[u].step = "learn" => op[u].kind = "launch"
    <3> SUFFICES ASSUME NEW u \in Threads, op[u].step = "learn" PROVE op[u].kind = "launch"
      OBVIOUS
    <3> QED
      BY OpFields DEF IInv, TypeInv, CallType
  <2> QED
    BY <1>9, <2>1 DEF Learns
<1>11. NewQueue.state = "live" /\ NewQueue.inGlobal /\ ~NewQueue.release
  BY QueueFields
<1>12. TableInv'
  <2>1. (\A c \in Contexts : handle[c] # 0 => queue[c].state # "none")'
    BY <1>4, <1>5, <1>6, <1>11 DEF TableInv
  <2>2. ASSUME NEW i \in 0..Size - 1, slot[i] # 0
        PROVE  handle'[slot[i]] # 0 /\ handle'[slot[i]] % Size = i
    <3>1. slot[i] \in Contexts
      BY <1>4, <2>2 DEF TableType, Ctx
    <3>2. \/ handle[slot[i]] # 0 /\ handle[slot[i]] % Size = i
          \/ handle[slot[i]] = 0 /\ \E u \in Threads : Learns(u, slot[i]) /\ op[u].h % Size = i
      BY <1>4, <2>2 DEF TableInv
    <3>3. CASE slot[i] = d
      BY <1>4, <1>6, <1>10, <3>2, <3>3
    <3>4. CASE slot[i] # d
      BY <1>6, <1>10, <3>1, <3>2, <3>4
    <3> QED
      BY <3>3, <3>4
  <2>3. \A u \in Threads : op'[u].kind = "launch" => u = t
    BY <1>3, <1>9
  <2> QED
    BY <1>1, <1>3, <1>4, <1>6, <1>8, <2>1, <2>2, <2>3 DEF TableInv
<1>13. ASSUME NEW u \in Threads PROVE CallInv(u)'
  <2>1. CallInv(u) /\ op[u] \in OpType /\ snd[u] \in SndType
    BY DEF IInv, TypeInv, CallType
  <2>2. (snd[u] # NoSnd => snd[u].c \in Contexts)
    BY <2>1, SndFields
  <2>3. (snd[u] # NoSnd => queue[snd[u].c].state # "none")'
    BY <1>1, <1>5, <1>11, <2>1, <2>2 DEF CallInv
  <2>4. CASE u = t
    BY <1>1, <1>3, <1>4, <1>5, <1>11, <2>1, <2>3, <2>4 DEF CallInv, workerVars
  <2>5. CASE u # t
    BY <1>1, <1>3, <1>9, <2>1, <2>3, <2>5 DEF CallInv, workerVars
  <2> QED
    BY <2>4, <2>5
<1>14. \A w \in Workers : LoopInv(w)'
  BY <1>1 DEF IInv, LoopInv, workerVars
<1>15. ASSUME NEW c \in Contexts PROVE CtxInv(c)'
  <2>1. AliveInv(c) /\ RelInv(c) /\ StartInv(c) /\ RefInv(c) /\ PlaceInv(c)
    BY DEF IInv, CtxInv
  <2>2. Learns(t, d) /\ \A u \in Threads : ~Learns(u, c)'
    <3>1. \A u \in Threads : u # t => op[u].step # "learn"
      BY <1>10 DEF Learns
    <3> QED
      BY <1>1, <1>3, <3>1 DEF Learns
  <2>3. AliveInv(c)'
    <3>1. CASE c = d
      BY <1>1, <1>3, <1>4, <1>5, <1>11, <2>1, <2>2, <3>1 DEF AliveInv, ctxVars
    <3>2. CASE c # d
      BY <1>1, <1>5, <1>10, <2>1, <2>2, <3>2 DEF AliveInv, ctxVars
    <3> QED
      BY <3>1, <3>2
  <2>4. RelInv(c)'
    BY <1>1, <2>1 DEF RelInv, ctxVars
  <2>5. Starting(t, c)' <=> Starting(t, c)
    BY <1>1, <1>3 DEF Starting
  <2>6. StartInv(c)'
    BY <1>1, <1>7, <2>5, StartKept, StaysPut DEF ctxVars
  <2>7. Use(t, c)' = Use(t, c)
    BY <1>1, <1>3, StaysPut DEF Use, Pushes, Ends, One
  <2>8. RefInv(c)'
    BY <1>1, <1>7, <1>8, <2>7, RefKept DEF TypeInv, CtxType, ctxVars
  <2>9. /\ Spot(t, c)' = Spot(t, c) /\ Made(t, c)' = Made(t, c)
        /\ InList(c)' = InList(c) /\ InList(c) \in Nat
    BY <1>1, <1>3, StaysPut, ListKept DEF Made, Launches, IInv, TypeInv
  <2>10. PlaceInv(c)'
    <3>1. CASE c # d
      BY <1>5, <1>7, <1>8, <2>9, <3>1, PlaceKept
    <3>2. CASE c = d
      <4>1. InList(c) = 0 /\ Near(c) = 0
        BY <1>4, <2>1, <3>2 DEF PlaceInv
      <4>2. Making(c) = 1
        <5>1. Launching(c) = {t}
          BY <1>1, <1>9, <3>2 DEF Launching
        <5> QED
          BY <5>1, FS_Singleton DEF Making
      <4>3. InList(c)' + Spot(t, c)' + Made(t, c)' = InList(c) + Spot(t, c) + Made(t, c) + 0
        BY <1>7, <1>8, <2>9, SumsStep
      <4>4. Sums(c)' = Sums(c) + 0
        BY <1>7, <1>8, <4>3, SumsMove
      <4>5. Sums(c)' = 1
        BY <4>1, <4>2, <4>4 DEF Sums
      <4> QED
        BY <1>5, <1>11, <3>2, <4>5 DEF PlaceInv
    <3> QED
      BY <3>1, <3>2
  <2> QED
    BY <2>3, <2>4, <2>6, <2>8, <2>10 DEF CtxInv
<1> QED
  BY <1>8, <1>12, <1>13, <1>14, <1>15 DEF IInv

-----------------------------------------------------------------------------
(* Handles are given out.                                                  *)

\* A table of n slots, and the handles that are tried for it.
Table(table, n) == n \in Nat \ {0} /\ table \in [0..n - 1 -> Ctx]

LEMMA TableSize ==
  ASSUME NEW n \in Nat \ {0}, NEW table, DOMAIN table = 0..n - 1
  PROVE  Cardinality(DOMAIN table) = n
<1>1. 0 \in Int /\ n - 1 \in Int /\ n - 1 - 0 + 1 = n
  OBVIOUS
<1>2. Cardinality(0..n - 1) = n
  BY <1>1, FS_Interval
<1> QED
  BY <1>2

\* If a slot is free the first handle that is tried for it is taken.
LEMMA FirstIsFree ==
  ASSUME handleIndex \in Nat \ {0}, NEW n, NEW table, Table(table, n),
         NEW r \in 0..n - 1, table[r] = 0
  PROVE  /\ FreeHandles(table) # {}
         /\ FirstFree(table) \in FreeHandles(table)
         /\ FirstFree(table) \in Nat \ {0}
         /\ FirstFree(table) % n \in 0..n - 1 /\ table[FirstFree(table) % n] = 0
<1>1. n \in Nat \ {0} /\ Cardinality(DOMAIN table) = n
  BY TableSize DEF Table
<1>2. FreeHandles(table) = {h \in handleIndex..handleIndex + n - 1 : table[h % n] = 0}
  BY <1>1 DEF FreeHandles
<1>3. FreeHandles(table) # {}
  <2> DEFINE a == handleIndex
  <2>0. a \in Nat /\ n \in Nat \ {0} /\ r \in 0..n - 1
    BY <1>1
  <2> HIDE DEF a
  <2>1. PICK h \in a..a + n - 1 : h % n = r
    <3>1. Tried(n, a, r)
      BY <2>0, Window
    <3> QED
      BY <3>1 DEF Tried
  <2> USE DEF a
  <2> QED
    BY <1>2, <2>1
<1>4. FreeHandles(table) \in SUBSET Nat /\ 0 \notin FreeHandles(table)
  BY <1>1, <1>2
<1>5. \E h \in FreeHandles(table) : \A k \in FreeHandles(table) : h <= k
  BY <1>3, <1>4, Least
<1>6. FirstFree(table) \in FreeHandles(table)
  BY <1>5 DEF FirstFree
<1>7. FirstFree(table) \in Nat \ {0} /\ table[FirstFree(table) % n] = 0
  BY <1>2, <1>4, <1>6
<1> QED
  BY <1>1, <1>3, <1>6, <1>7, ModRange

\* Each context is in the slot of its handle.
Sound(table, n) ==
  /\ Table(table, n)
  /\ \A j \in 0..n - 1 :
       table[j] # 0 => handle[table[j]] \in Nat \ {0} /\ handle[table[j]] % n = j

LEMMA SoundCount ==
  ASSUME NEW n, NEW table, Sound(table, n), NEW d \in Contexts
  PROVE  Cardinality({j \in DOMAIN table : table[j] = d}) =
           IF \E j \in 0..n - 1 : table[j] = d THEN 1 ELSE 0
<1>1. DOMAIN table = 0..n - 1 /\ d # 0
  BY ServiceAssumption DEF Sound, Table
<1>2. CASE \E j \in 0..n - 1 : table[j] = d
  <2>1. PICK j \in 0..n - 1 : table[j] = d
    BY <1>2
  <2>2. {i \in DOMAIN table : table[i] = d} = {j}
    BY <1>1, <2>1 DEF Sound
  <2> QED
    BY <1>2, <2>2, FS_Singleton
<1>3. CASE ~ \E j \in 0..n - 1 : table[j] = d
  <2>1. {i \in DOMAIN table : table[i] = d} = {}
    BY <1>1, <1>3
  <2> QED
    BY <1>3, <2>1, FS_EmptySet
<1> QED
  BY <1>2, <1>3

\* What the expansion makes: nobody is lost, and there is room.
LEMMA DoubledSound ==
  ASSUME Sound(slot, Size)
  PROVE  /\ Sound(Doubled, 2 * Size)
         /\ \A d \in Contexts : (\E j \in 0..2 * Size - 1 : Doubled[j] = d)
                                   <=> \E i \in 0..Size - 1 : slot[i] = d
         /\ \E j \in 0..2 * Size - 1 : Doubled[j] = 0
<1> DEFINE n == Size
           m == 2 * Size
           Here(j) == {i \in DOMAIN slot : slot[i] # 0 /\ Rehash(slot[i]) = j}
<1>1. n \in Nat \ {0} /\ m \in Nat \ {0} /\ m = 2 * n /\ DOMAIN slot = 0..n - 1
  BY DEF Sound, Table
<1>2. \A i \in 0..n - 1 : /\ slot[i] \in Ctx
                          /\ slot[i] # 0 => /\ handle[slot[i]] \in Nat \ {0}
                                            /\ handle[slot[i]] % n = i
                                            /\ Rehash(slot[i]) = handle[slot[i]] % m
  BY DEF Sound, Table, Rehash
<1>3. Doubled = [j \in 0..m - 1 |->
                   IF Here(j) = {} THEN 0
                   ELSE slot[CHOOSE i \in Here(j) : \A k \in Here(j) : k <= i]]
  BY DEF Doubled
<1> HIDE DEF n, m
<1>4. ASSUME NEW i \in 0..n - 1, slot[i] # 0
      PROVE  /\ handle[slot[i]] % m \in 0..m - 1
             /\ (handle[slot[i]] % m) % n = i
  BY <1>1, <1>2, <1>4, ModDouble, ModRange
<1>5. ASSUME NEW j \in 0..m - 1
      PROVE  /\ j % n \in 0..n - 1
             /\ Doubled[j] = IF slot[j % n] # 0 /\ handle[slot[j % n]] % m = j
                             THEN slot[j % n] ELSE 0
  <2>1. j % n \in 0..n - 1
    BY <1>1, ModRange
  <2>2. \A i \in Here(j) : i \in 0..n - 1 /\ i = j % n /\ handle[slot[i]] % m = j /\ slot[i] # 0
    BY <1>1, <1>2, <1>4
  <2>3. CASE Here(j) = {}
    BY <1>1, <1>2, <1>3, <2>1, <2>3
  <2>4. CASE Here(j) # {}
    <3>1. Here(j) = {j % n}
      BY <2>2, <2>4
    <3>2. (CHOOSE i \in Here(j) : \A k \in Here(j) : k <= i) = j % n
      BY <2>1, <3>1
    <3> QED
      BY <1>3, <2>2, <2>4, <3>1, <3>2
  <2> QED
    BY <2>1, <2>3, <2>4
<1>6. Doubled \in [0..m - 1 -> Ctx]
  <2>1. \A j \in 0..m - 1 : Doubled[j] \in Ctx
    BY <1>2, <1>5 DEF Ctx
  <2> QED
    BY <1>3, <2>1
<1>7. Sound(Doubled, m)
  BY <1>1, <1>2, <1>5, <1>6 DEF Sound, Table
<1>8. ASSUME NEW d \in Contexts
      PROVE  (\E j \in 0..m - 1 : Doubled[j] = d) <=> \E i \in 0..n - 1 : slot[i] = d
  <2>1. d # 0
    BY ServiceAssumption
  <2>2. ASSUME NEW j \in 0..m - 1, Doubled[j] = d PROVE \E i \in 0..n - 1 : slot[i] = d
    BY <1>5, <2>1, <2>2
  <2>3. ASSUME NEW i \in 0..n - 1, slot[i] = d PROVE \E j \in 0..m - 1 : Doubled[j] = d
    <3>1. handle[d] % m \in 0..m - 1 /\ (handle[d] % m) % n = i
      BY <1>4, <2>1, <2>3
    <3> QED
      BY <1>5, <2>1, <2>3, <3>1
  <2> QED
    BY <2>2, <2>3
<1>9. \E j \in 0..m - 1 : Doubled[j] = 0
  <2>1. 0 \in 0..m - 1 /\ n \in 0..m - 1 /\ 0 % n = 0 /\ n % n = 0 /\ n # 0
    BY <1>1
  <2>2. CASE Doubled[0] # 0 /\ Doubled[n] # 0
    BY <1>5, <2>1, <2>2
  <2> QED
    BY <2>1, <2>2
<1> QED
  BY <1>7, <1>8, <1>9 DEF n, m

LEMMA RegisterEffect ==
  ASSUME IInv, \A t \in Threads : op[t].kind # "launch",
         NEW c \in Contexts, handle[c] = 0, NEW h, Register(c, h)
  PROVE  /\ h \in Nat \ {0} /\ TableType' /\ handle' = handle /\ handle \in [Contexts -> Nat]
         /\ slot'[h % Size'] = c
         /\ \A j \in 0..Size' - 1 : slot'[j] # 0 =>
              \/ slot'[j] = c /\ j = h % Size'
              \/ slot'[j] # c /\ slot'[j] \in Contexts /\ handle[slot'[j]] # 0
                 /\ handle[slot'[j]] % Size' = j
         /\ \A d \in Contexts : d # c => Listed(d)' = Listed(d)
         /\ Listed(c) = 0 /\ Listed(c)' = 1
<1> DEFINE table == IF FreeHandles(slot) # {} THEN slot ELSE Doubled
<1>1. /\ h = FirstFree(table) /\ slot' = [table EXCEPT ![h % Cardinality(DOMAIN table)] = c]
      /\ handleIndex' = h + 1 /\ handle' = handle
  BY DEF Register
<1>2. TableType /\ TableInv /\ handleIndex \in Nat \ {0} /\ handle \in [Contexts -> Nat] /\ c # 0
  BY ServiceAssumption DEF IInv, TypeInv, TableType
<1>3. \A t \in Threads : \A d : ~Learns(t, d)
  <2>1. \A t \in Threads : op[t].step # "learn"
    <3> SUFFICES ASSUME NEW t \in Threads, op[t].step = "learn" PROVE FALSE
      OBVIOUS
    <3>1. op[t] \in OpType /\ op[t].kind # "launch"
      BY DEF IInv, TypeInv, CallType
    <3> QED
      BY <3>1, OpFields
  <2> QED
    BY <2>1 DEF Learns
<1>4. Sound(slot, Size)
  <2>1. \A j \in 0..Size - 1 : slot[j] # 0 => slot[j] \in Contexts
    BY <1>2 DEF TableType, Ctx
  <2>2. \A j \in 0..Size - 1 : slot[j] # 0 => handle[slot[j]] # 0 /\ handle[slot[j]] % Size = j
    BY <1>2, <1>3 DEF TableInv
  <2> QED
    BY <1>2, <2>1, <2>2 DEF Sound, Table, TableType
<1>5. PICK n : /\ Sound(table, n)
               /\ \E j \in 0..n - 1 : table[j] = 0
               /\ \A d \in Contexts : (\E j \in 0..n - 1 : table[j] = d)
                                         <=> \E i \in 0..Size - 1 : slot[i] = d
  <2>1. CASE FreeHandles(slot) # {}
    <3>1. PICK k \in FreeHandles(slot) : TRUE
      BY <2>1
    <3>2. k \in handleIndex..handleIndex + Size - 1 /\ slot[k % Size] = 0 /\ Size \in Nat \ {0}
      BY <1>2, <3>1 DEF FreeHandles, TableType, Size
    <3>3. k \in Nat
      BY <1>2, <3>2
    <3>4. k % Size \in 0..Size - 1
      BY <3>2, <3>3, ModRange
    <3> QED
      BY <1>4, <2>1, <3>2, <3>4
  <2>2. CASE FreeHandles(slot) = {}
    BY <1>4, <2>2, DoubledSound
  <2> QED
    BY <2>1, <2>2
<1> HIDE DEF table
<1>6. n \in Nat \ {0} /\ Table(table, n) /\ table \in [0..n - 1 -> Ctx]
  BY <1>5 DEF Sound, Table
<1>7. /\ h \in Nat \ {0} /\ h % n \in 0..n - 1 /\ table[h % n] = 0
  BY <1>1, <1>2, <1>5, <1>6, FirstIsFree
<1>8. slot' = [table EXCEPT ![h % n] = c] /\ slot' \in [0..n - 1 -> Ctx]
  <2>1. Cardinality(DOMAIN table) = n
    BY <1>6, TableSize
  <2> QED
    BY <1>1, <1>6, <1>7, <2>1 DEF Ctx
<1>9. Size' = n
  <2>1. DOMAIN slot' = 0..n - 1
    BY <1>8
  <2> QED
    BY <1>6, <2>1, TableSize DEF Size
<1>10. ~ \E i \in 0..Size - 1 : slot[i] = c
  BY <1>2, <1>4 DEF Sound
<1>11. /\ \A j \in 0..n - 1 : j # h % n => slot'[j] = table[j]
       /\ slot'[h % n] = c /\ \A j \in 0..n - 1 : table[j] # c
  BY <1>5, <1>6, <1>7, <1>8, <1>10
<1>12. TableType'
  BY <1>1, <1>2, <1>6, <1>7, <1>8, <1>9 DEF TableType
<1>13. \A j \in 0..n - 1 : slot'[j] # 0 =>
         \/ slot'[j] = c /\ j = h % n
         \/ slot'[j] # c /\ slot'[j] \in Contexts /\ handle[slot'[j]] # 0 /\ handle[slot'[j]] % n = j
  BY <1>5, <1>6, <1>11 DEF Sound, Ctx
<1>14. ASSUME NEW d \in Contexts, d # c PROVE Listed(d)' = Listed(d)
  <2>1. Listed(d) = IF \E i \in 0..Size - 1 : slot[i] = d THEN 1 ELSE 0
    BY <1>4, SoundCount DEF Listed, InTable
  <2>2. InTable(d)' = {j \in DOMAIN table : table[j] = d}
    BY <1>6, <1>7, <1>8, <1>11, <1>14, ServiceAssumption DEF InTable
  <2>3. Listed(d)' = IF \E j \in 0..n - 1 : table[j] = d THEN 1 ELSE 0
    BY <1>5, <2>2, SoundCount DEF Listed
  <2> QED
    BY <1>5, <2>1, <2>3
<1>15. Listed(c) = 0
  BY <1>4, <1>10, SoundCount DEF Listed, InTable
<1>16. Listed(c)' = 1
  <2>1. InTable(c)' = {h % n}
    BY <1>7, <1>8, <1>11 DEF InTable
  <2> QED
    BY <2>1, FS_Singleton DEF Listed
<1> QED
  BY <1>1, <1>2, <1>7, <1>9, <1>11, <1>12, <1>13, <1>14, <1>15, <1>16

LEMMA LaunchStartStep ==
  ASSUME IInv, NEW t \in Threads, NEW d \in Contexts, Launch(t, d)
  PROVE  IInv'
<1>1. /\ InCallback(t) /\ t \in Workers /\ held[t] \in Launchers
      /\ ref[d] = 0 /\ ~alive[d] /\ queue[d].state = "none"
      /\ ref' = [ref EXCEPT ![d] = 2] /\ alive' = [alive EXCEPT ![d] = TRUE]
      /\ UNCHANGED <<mqVars, init, workerVars, drop, snd, rel, bounds>>
  BY DEF Launch
<1>2. PICK h \in handleIndex..handleIndex + Size :
        /\ Register(d, h)
        /\ op' = [op EXCEPT ![t] = [kind |-> "launch", step |-> "learn", c |-> d, h |-> h]]
  BY DEF Launch
<1>3. pc[t] = "call" /\ op[t] = NoOp /\ drop[t] = 0 /\ snd[t] = NoSnd
  BY <1>1, ServiceAssumption DEF InCallback, NotDropping, NotPushing
<1>4. NoOp.kind = "none" /\ NoOp.step = "none" /\ NoOp.c = 0
  BY OpFields
<1>5. \A u \in Threads : op[u].kind # "launch"
  <2> SUFFICES ASSUME NEW u \in Threads, op[u].kind = "launch" PROVE FALSE
    OBVIOUS
  <2>1. u = t
    BY <1>1, <1>3, OneLauncher
  <2> QED
    BY <1>3, <1>4, <2>1
<1>6. \A u \in Threads : \A c : ~Learns(u, c) /\ ~Launches(u, c) /\ ~Starting(u, c)
  <2>1. \A u \in Threads : op[u].step # "learn"
    <3> SUFFICES ASSUME NEW u \in Threads, op[u].step = "learn" PROVE FALSE
      OBVIOUS
    <3> QED
      BY <1>5, OpFields DEF IInv, TypeInv, CallType
  <2> QED
    BY <1>5, <2>1 DEF Learns, Launches, Starting
<1>7. handle[d] = 0 /\ d # 0
  BY <1>1, ServiceAssumption DEF IInv, TableInv
<1>8. /\ h \in Nat \ {0} /\ TableType' /\ handle' = handle /\ handle \in [Contexts -> Nat]
      /\ slot'[h % Size'] = d
      /\ \A j \in 0..Size' - 1 : slot'[j] # 0 =>
           \/ slot'[j] = d /\ j = h % Size'
           \/ slot'[j] # d /\ slot'[j] \in Contexts /\ handle[slot'[j]] # 0
              /\ handle[slot'[j]] % Size' = j
      /\ \A c \in Contexts : c # d => Listed(c)' = Listed(c)
      /\ Listed(d) = 0 /\ Listed(d)' = 1
  BY <1>2, <1>5, <1>7, RegisterEffect
<1>9. /\ op' \in [Threads -> OpType] /\ \A u \in Threads : u # t => op'[u] = op[u]
      /\ op'[t].kind = "launch" /\ op'[t].step = "learn" /\ op'[t].c = d /\ op'[t].h = h
      /\ op'[t] # NoOp
  <2> DEFINE o == [kind |-> "launch", step |-> "learn", c |-> d, h |-> h]
  <2>1. o \in OpType /\ o.kind = "launch" /\ o.step = "learn" /\ o.c = d /\ o.h = h
    BY <1>8 DEF OpType, LaunchOp, LaunchSteps
  <2>2. o # NoOp
    BY <1>4, <2>1
  <2> HIDE DEF o
  <2>3. op' = [op EXCEPT ![t] = o] /\ op \in [Threads -> OpType]
    BY <1>2 DEF o, IInv, TypeInv, CallType
  <2> QED
    BY <2>1, <2>2, <2>3
<1>10. OnlyMoves(t)
  BY <1>1, <1>9 DEF OnlyMoves, workerVars
<1>11. /\ ref' \in [Contexts -> Nat] /\ ref'[d] = 2
       /\ alive' \in [Contexts -> BOOLEAN] /\ alive'[d]
       /\ \A c \in Contexts : c # d => ref'[c] = ref[c] /\ alive'[c] = alive[c]
  BY <1>1 DEF IInv, TypeInv, CtxType
<1>12. TypeInv'
  BY <1>1, <1>8, <1>9, <1>11 DEF IInv, TypeInv, MqType, CtxType, WorkerType, CallType, mqVars,
    workerVars, bounds
<1>13. TableInv'
  <2>1. Learns(t, d)'
    BY <1>9 DEF Learns
  <2>2. (\A c \in Contexts : handle[c] # 0 => queue[c].state # "none")'
    BY <1>1, <1>8 DEF IInv, TableInv, mqVars
  <2>3. \A u \in Threads : u # t => op'[u].kind # "launch"
    BY <1>5, <1>9
  <2> QED
    BY <1>7, <1>8, <1>9, <2>1, <2>2, <2>3 DEF TableInv
<1>14. \A u \in Threads : CallInv(u)'
  <2>1. CallInv(t)'
    BY <1>1, <1>3, <1>9 DEF IInv, CallInv, mqVars, workerVars
  <2> QED
    BY <1>1, <1>10, <1>12, <2>1, CallsKept DEF mqVars
<1>15. \A w \in Workers : LoopInv(w)'
  BY <1>1 DEF IInv, LoopInv, workerVars
<1>16. ASSUME NEW c \in Contexts PROVE CtxInv(c)'
  <2>1. AliveInv(c) /\ RelInv(c) /\ StartInv(c) /\ RefInv(c) /\ PlaceInv(c)
    BY DEF IInv, CtxInv
  <2>2. \A u \in Threads : Learns(u, c)' <=> u = t /\ c = d
    BY <1>6, <1>9 DEF Learns
  <2>3. AliveInv(c)'
    BY <1>1, <1>6, <1>11, <2>1, <2>2 DEF AliveInv, mqVars
  <2>4. \A u \in Threads : rel[u] # d
    BY <1>1 DEF IInv, CtxInv, RelInv
  <2>5. RelInv(c)'
    BY <1>1, <1>11, <2>1, <2>4 DEF RelInv
  <2>6. \A u \in Threads : Works(u, c)' <=> Works(u, c)
    BY <1>1, StaysPut
  <2>7. Starting(t, d)'
    BY <1>9 DEF Starting
  <2>8. StartInv(c)'
    BY <1>1, <1>6, <1>8, <2>1, <2>6, <2>7 DEF StartInv
  <2>9. Use(t, c)' = Use(t, c) + One(c = d) /\ Use(t, c) \in Nat /\ One(c = d) \in Nat
    <3>1. (Works(t, c)' <=> Works(t, c)) /\ (Pushes(t, c)' <=> Pushes(t, c))
      BY <1>1, StaysPut DEF Pushes
    <3>2. ~Ends(t, c) /\ (Ends(t, c)' <=> c = d)
      BY <1>3, <1>4, <1>9 DEF Ends
    <3> QED
      BY <3>1, <3>2 DEF Use, One
  <2>10. Used(c) \in Nat /\ Used(c)' = Used(c) + One(c = d)
    <3>1. Used(c) \in Nat /\ Used(c)' \in Nat /\ Used(c)' + Use(t, c) = Used(c) + Use(t, c)'
      BY <1>10, CountStep
    <3> QED
      BY <2>9, <3>1
  <2>11. RefInv(c)'
    <3>1. Listed(c) \in Nat /\ ref[c] = Listed(c) + Used(c)
      BY <2>1, TableFinite DEF RefInv, IInv, TypeInv
    <3>2. CASE c = d
      BY <1>1, <1>8, <1>11, <2>10, <3>1, <3>2 DEF RefInv, One
    <3>3. CASE c # d
      BY <1>8, <1>11, <2>10, <3>1, <3>3 DEF RefInv, One
    <3> QED
      BY <3>2, <3>3
  <2>12. /\ Spot(t, c)' = Spot(t, c) /\ Spot(t, c) \in Nat
         /\ InList(c)' = InList(c) /\ InList(c) \in Nat
    BY <1>1, StaysPut, ListKept DEF IInv, TypeInv, Spot, One, mqVars
  <2>13. PlaceInv(c)'
    <3>1. CASE c # d
      <4>1. Made(t, c)' = Made(t, c)
        BY <1>6, <1>9, <3>1 DEF Made, Launches, One
      <4> QED
        BY <1>1, <1>10, <1>12, <2>12, <4>1, PlaceKept DEF TypeInv, mqVars
    <3>2. CASE c = d
      <4>1. Near(c)' = Near(c) /\ Near(c) \in Nat
        BY <1>10, <2>12, CountStep
      <4>2. InList(d) = 0 /\ Near(d) = 0
        BY <1>1, <2>1, <3>2 DEF PlaceInv
      <4> QED
        BY <1>1, <2>12, <3>2, <4>1, <4>2 DEF PlaceInv, mqVars
    <3> QED
      BY <3>1, <3>2
  <2> QED
    BY <2>3, <2>5, <2>8, <2>11, <2>13 DEF CtxInv
<1> QED
  BY <1>12, <1>13, <1>14, <1>15, <1>16 DEF IInv

-----------------------------------------------------------------------------
(* The loop of a worker.                                                   *)

LEMMA InLoop ==
  ASSUME IInv, NEW w \in Workers, NEW s, WorkerAt(w, s)
  PROVE  /\ w \in Threads /\ pc[w] = s /\ rel[w] = 0 /\ snd[w] = NoSnd /\ drop[w] = 0 /\ op[w] = NoOp
         /\ LoopInv(w) /\ held[w] \in Ctx /\ rest[w] \in Nat
         /\ \A c \in Contexts : /\ ~Drops(w, c) /\ ~Launches(w, c) /\ ~Pushes(w, c) /\ ~Ends(w, c)
                                /\ ~Starting(w, c)
                                /\ Made(w, c) = 0 /\ Spot(w, c) = One(Hands(w, c))
                                /\ Use(w, c) = One(Works(w, c))
         /\ op[w].kind = "none"
<1>1. w \in Threads /\ pc[w] = s /\ rel[w] = 0 /\ snd[w] = NoSnd /\ drop[w] = 0 /\ op[w] = NoOp
  BY Sets DEF WorkerAt, NotDropping, NotPushing, NotDeleting
<1>2. LoopInv(w) /\ held[w] \in Ctx /\ rest[w] \in Nat
  BY DEF IInv, TypeInv, WorkerType
<1>3. NoOp.kind = "none" /\ NoOp.step = "none" /\ NoOp.c = 0 /\ NoSnd.c = 0
  BY OpFields, SndFields
<1>4. \A c \in Contexts : ~Drops(w, c) /\ ~Launches(w, c) /\ ~Pushes(w, c) /\ ~Ends(w, c)
                          /\ ~Starting(w, c)
  BY <1>1, <1>3, ServiceAssumption DEF Drops, Launches, Pushes, Ends, Starting
<1>5. \A c \in Contexts : /\ Made(w, c) = 0 /\ Spot(w, c) = One(Hands(w, c))
                          /\ Use(w, c) = One(Works(w, c))
  BY <1>4 DEF Made, Spot, Use, One
<1> QED
  BY <1>1, <1>2, <1>3, <1>4, <1>5

\* Steps that only move a worker, and perhaps the queue it has.
LEMMA LoopStep ==
  ASSUME IInv, NEW w \in Workers, NEW s, WorkerAt(w, s),
         UNCHANGED <<queue, handleVars, ctxVars, callVars, bounds>>,
         global' \in Seq(Contexts), WorkerType', OnlyMoves(w), LoopInv(w)',
         \A c \in Contexts :
           /\ Works(w, c)' <=> Works(w, c)
           /\ InList(c)' + One(Hands(w, c)') = InList(c) + One(Hands(w, c))
  PROVE  IInv'
<1>1. /\ w \in Threads /\ snd[w] = NoSnd /\ drop[w] = 0 /\ op[w] = NoOp /\ op[w].kind = "none"
      /\ \A c \in Contexts : ~Drops(w, c) /\ ~Starting(w, c) /\ Made(w, c) = 0
                             /\ Spot(w, c) = One(Hands(w, c))
  BY InLoop
<1>2. op' = op /\ drop' = drop /\ snd' = snd /\ rel' = rel /\ ref' = ref /\ alive' = alive
      /\ init' = init /\ queue' = queue /\ sends' = sends
  BY DEF callVars, ctxVars, bounds
<1>3. TypeInv'
  BY <1>2 DEF IInv, TypeInv, MqType, TableType, CtxType, CallType, handleVars, Size
<1>4. CallInv(w)'
  BY <1>1, <1>2, ServiceAssumption DEF CallInv
<1>5. ASSUME NEW c \in Contexts
      PROVE  /\ RelInv(c)' /\ PlaceInv(c)' /\ ref'[c] + Use(w, c) = ref[c] + Use(w, c)'
             /\ Works(w, c)' => Works(w, c)
             /\ ~Starting(w, c)
  <2>1. RelInv(c)'
    BY <1>2 DEF IInv, CtxInv, RelInv
  <2>2. Made(w, c)' = 0 /\ Spot(w, c)' = One(Hands(w, c)') /\ Use(w, c)' = Use(w, c)
    BY <1>1, <1>2 DEF Made, Launches, Spot, Drops, Use, Pushes, Ends, One
  <2>3. InList(c) \in Nat /\ InList(c)' \in Nat
    BY <1>1, <1>3, SumsStep DEF TypeInv
  <2>4. One(Hands(w, c)) \in Nat /\ One(Hands(w, c)') \in Nat
    BY DEF One
  <2>5. PlaceInv(c)'
    BY <1>1, <1>2, <1>3, <2>2, <2>3, <2>4, PlaceKept DEF TypeInv
  <2> QED
    BY <1>1, <1>2, <2>1, <2>2, <2>5
<1> QED
  BY <1>1, <1>2, <1>3, <1>4, <1>5, Frame DEF SameLaunch

LEMMA ToEffect ==
  ASSUME IInv, NEW w \in Workers, NEW s \in PcType, To(w, s)
  PROVE  /\ pc' \in [Workers -> PcType] /\ pc'[w] = s
         /\ \A u \in Workers : u # w => pc'[u] = pc[u]
  BY DEF To, IInv, TypeInv, WorkerType

\* A step of the loop that leaves the queue where it is.
LEMMA TurnStep ==
  ASSUME IInv, NEW w \in Workers, NEW s, WorkerAt(w, s), NEW z \in PcType, To(w, z),
         UNCHANGED <<mqVars, handleVars, ctxVars, held, callVars, bounds>>,
         rest' \in [Workers -> Nat], \A u \in Workers : u # w => rest'[u] = rest[u],
         s \notin {"empty", "swap", "keep"}, z \notin {"empty", "swap", "keep"},
         held[w] # 0 => (s \in AtContext <=> z \in AtContext),
         LoopInv(w)'
  PROVE  IInv'
<1>1. pc' \in [Workers -> PcType] /\ pc'[w] = z /\ \A u \in Workers : u # w => pc'[u] = pc[u]
  BY ToEffect
<1>2. held' = held /\ pc[w] = s
  BY InLoop
<1>3. WorkerType' /\ OnlyMoves(w)
  BY <1>1, <1>2 DEF WorkerType, OnlyMoves, IInv, TypeInv, callVars
<1>4. ASSUME NEW c \in Contexts
      PROVE  (Works(w, c)' <=> Works(w, c)) /\ (Hands(w, c)' <=> Hands(w, c))
  BY <1>1, <1>2, ServiceAssumption DEF Works, Hands
<1>5. ASSUME NEW c \in Contexts
      PROVE InList(c)' + One(Hands(w, c)') = InList(c) + One(Hands(w, c))
  BY <1>4, ListKept DEF One, IInv, TypeInv, mqVars
<1> QED
  BY <1>3, <1>4, <1>5, LoopStep DEF mqVars, IInv, TypeInv, MqType

LEMMA FetchStep ==
  ASSUME IInv, NEW w \in Workers, Fetch(w)
  PROVE  IInv'
<1>1. /\ WorkerAt(w, "idle") /\ held[w] = 0 /\ pc[w] = "idle"
      /\ UNCHANGED <<queue, handleVars, ctxVars, rest, quit, callVars, bounds>>
  BY InLoop DEF Fetch
<1>2. CASE \E d \in Contexts : GlobalPop(d) /\ held' = [held EXCEPT ![w] = d] /\ To(w, "grab")
  <2>1. PICK d \in Contexts : GlobalPop(d) /\ held' = [held EXCEPT ![w] = d] /\ To(w, "grab")
    BY <1>2
  <2>2. "grab" \in PcType
    BY DEF PcType
  <2>3. pc' \in [Workers -> PcType] /\ pc'[w] = "grab" /\ \A u \in Workers : u # w => pc'[u] = pc[u]
    BY <2>1, <2>2, ToEffect
  <2>4. /\ held' \in [Workers -> Ctx] /\ held'[w] = d
        /\ \A u \in Workers : u # w => held'[u] = held[u]
    BY <2>1 DEF IInv, TypeInv, WorkerType, Ctx
  <2>5. WorkerType' /\ OnlyMoves(w)
    BY <1>1, <2>3, <2>4 DEF WorkerType, OnlyMoves, IInv, TypeInv, callVars
  <2>6. LoopInv(w)'
    BY <1>1, <2>1, <2>3, <2>4 DEF LoopInv
  <2>7. /\ global' \in Seq(Contexts)
        /\ \A c \in Contexts : /\ InList(c) \in Nat /\ InList(c)' \in Nat
                               /\ InList(c) = InList(c)' + One(c = d)
    BY <2>1, ListPop DEF IInv, TypeInv, MqType
  <2>8. ASSUME NEW c \in Contexts
        PROVE  /\ Works(w, c)' <=> Works(w, c)
               /\ InList(c)' + One(Hands(w, c)') = InList(c) + One(Hands(w, c))
    <3>1. ~Works(w, c) /\ ~Works(w, c)' /\ ~Hands(w, c) /\ (Hands(w, c)' <=> c = d)
      BY <1>1, <2>3, <2>4, ServiceAssumption DEF Works, Hands, AtContext
    <3> QED
      BY <2>7, <3>1 DEF One
  <2> QED
    BY <1>1, <2>5, <2>6, <2>7, <2>8, LoopStep
<1>3. CASE global = <<>> /\ To(w, "tired") /\ UNCHANGED <<held, global>>
  <2>1. "tired" \in PcType
    BY DEF PcType
  <2>2. pc'[w] = "tired" /\ held'[w] = 0
    BY <1>1, <1>3, <2>1, ToEffect
  <2>3. LoopInv(w)'
    BY <2>2 DEF LoopInv, AtContext
  <2> QED
    BY <1>1, <1>3, <2>1, <2>3, TurnStep DEF mqVars, IInv, TypeInv, WorkerType
<1> QED
  BY <1>2, <1>3 DEF Fetch

LEMMA AgainStep ==
  ASSUME IInv, NEW w \in Workers, Again(w)
  PROVE  IInv'
<1>1. /\ WorkerAt(w, "idle") /\ held[w] # 0 /\ To(w, "grab")
      /\ UNCHANGED <<mqVars, handleVars, ctxVars, held, rest, quit, callVars, bounds>>
  BY DEF Again
<1>2. "grab" \in PcType /\ "grab" \notin AtContext /\ "idle" \notin AtContext
  BY DEF PcType, AtContext
<1>3. pc'[w] = "grab" /\ held'[w] \in Contexts
  BY <1>1, <1>2, ToEffect, InLoop DEF Ctx
<1>4. LoopInv(w)'
  BY <1>3 DEF LoopInv
<1> QED
  BY <1>1, <1>2, <1>4, TurnStep DEF IInv, TypeInv, WorkerType

LEMMA SleepStep ==
  ASSUME IInv, NEW w \in Workers, Sleep(w)
  PROVE  IInv'
<1>1. PICK z \in {"idle", "asleep"} : To(w, z)
  BY DEF Sleep
<1>2. /\ WorkerAt(w, "tired")
      /\ UNCHANGED <<mqVars, handleVars, ctxVars, held, rest, quit, callVars, bounds>>
  BY DEF Sleep
<1>3. z \in PcType /\ z \notin AtContext /\ "tired" \notin AtContext
  BY DEF PcType, AtContext
<1>4. pc'[w] = z
  BY <1>1, <1>3, ToEffect
<1>5. LoopInv(w)'
  BY <1>1, <1>3, <1>4 DEF LoopInv
<1> QED
  BY <1>1, <1>2, <1>3, <1>5, TurnStep DEF IInv, TypeInv, WorkerType

LEMMA LeaveStep ==
  ASSUME IInv, NEW w \in Workers, Leave(w)
  PROVE  IInv'
<1>1. /\ WorkerAt(w, "idle") /\ To(w, "over")
      /\ UNCHANGED <<mqVars, handleVars, ctxVars, held, rest, quit, callVars, bounds>>
  BY DEF Leave
<1>2. "over" \in PcType /\ "over" \notin AtContext /\ "idle" \notin AtContext
  BY DEF PcType, AtContext
<1>3. pc'[w] = "over"
  BY <1>1, <1>2, ToEffect
<1>4. LoopInv(w)'
  BY <1>2, <1>3 DEF LoopInv
<1> QED
  BY <1>1, <1>2, <1>4, TurnStep DEF IInv, TypeInv, WorkerType

LEMMA ReadLengthStep ==
  ASSUME IInv, NEW w \in Workers, ReadLength(w)
  PROVE  IInv'
<1> DEFINE n == Len(queue[held[w]].msgs)
           k == IF n = 0 THEN 0 ELSE n - 1
<1>1. /\ WorkerAt(w, "length") /\ To(w, "call") /\ rest' = [rest EXCEPT ![w] = k]
      /\ UNCHANGED <<mqVars, handleVars, ctxVars, held, quit, callVars, bounds>>
  BY DEF ReadLength
<1>2. "call" \in PcType /\ "call" \in AtContext /\ "length" \in AtContext
  BY DEF PcType, AtContext
<1>3. held[w] \in Contexts
  BY <1>1, <1>2, InLoop DEF LoopInv
<1>4. k \in Nat
  <2>1. queue[held[w]].msgs \in Seq(Msg)
    BY <1>3, QueueFields DEF IInv, TypeInv, MqType
  <2> QED
    BY <2>1
<1> HIDE DEF k
<1>5. rest' \in [Workers -> Nat] /\ \A u \in Workers : u # w => rest'[u] = rest[u]
  BY <1>1, <1>4 DEF IInv, TypeInv, WorkerType
<1>6. pc'[w] = "call" /\ held'[w] \in Contexts
  BY <1>1, <1>2, <1>3, ToEffect
<1>7. LoopInv(w)'
  BY <1>6 DEF LoopInv
<1> QED
  BY <1>1, <1>2, <1>5, <1>7, TurnStep

LEMMA ReturnStep ==
  ASSUME IInv, NEW w \in Workers, Return(w)
  PROVE  IInv'
<1> DEFINE z == IF rest[w] > 0 THEN "next" ELSE "look"
<1>1. /\ WorkerAt(w, "call") /\ To(w, z)
      /\ UNCHANGED <<mqVars, handleVars, ctxVars, held, rest, quit, callVars, bounds>>
  BY DEF Return
<1>2. z \in PcType /\ z \in AtContext /\ "call" \in AtContext
  BY DEF PcType, AtContext
<1>3. held[w] \in Contexts /\ rest[w] \in Nat
  BY <1>1, <1>2, InLoop DEF LoopInv
<1>4. pc'[w] = z /\ held'[w] \in Contexts /\ rest'[w] = rest[w]
  BY <1>1, <1>2, <1>3, ToEffect
<1>5. LoopInv(w)'
  BY <1>3, <1>4 DEF LoopInv
<1> QED
  BY <1>1, <1>2, <1>5, TurnStep DEF IInv, TypeInv, WorkerType

LEMMA LookStep ==
  ASSUME IInv, NEW w \in Workers, Look(w)
  PROVE  IInv'
<1> DEFINE d == held[w]
<1>1. /\ WorkerAt(w, "look") /\ pc[w] = "look" /\ "look" \in AtContext /\ w \in Threads
      /\ UNCHANGED <<queue, handleVars, ctxVars, held, quit, callVars, bounds>>
  BY InLoop DEF Look, AtContext
<1>2. d \in Contexts /\ rest[w] = 0
  BY <1>1, InLoop DEF LoopInv
<1>3. CASE \E c \in Contexts : GlobalPop(c) /\ rest' = [rest EXCEPT ![w] = c] /\ To(w, "swap")
  <2>1. PICK e \in Contexts : GlobalPop(e) /\ rest' = [rest EXCEPT ![w] = e] /\ To(w, "swap")
    BY <1>3
  <2>2. "swap" \in PcType /\ "swap" \in AtContext /\ e \in Nat /\ e # 0
    BY ServiceAssumption DEF PcType, AtContext
  <2>3. pc' \in [Workers -> PcType] /\ pc'[w] = "swap" /\ \A u \in Workers : u # w => pc'[u] = pc[u]
    BY <2>1, <2>2, ToEffect
  <2>4. /\ rest' \in [Workers -> Nat] /\ rest'[w] = e
        /\ \A u \in Workers : u # w => rest'[u] = rest[u]
    BY <2>1, <2>2 DEF IInv, TypeInv, WorkerType
  <2>5. WorkerType' /\ OnlyMoves(w)
    BY <1>1, <2>3, <2>4 DEF WorkerType, OnlyMoves, IInv, TypeInv, callVars
  <2>6. /\ global' \in Seq(Contexts)
        /\ \A c \in Contexts : /\ InList(c) \in Nat /\ InList(c)' \in Nat
                               /\ InList(c) = InList(c)' + One(c = e)
    BY <2>1, ListPop DEF IInv, TypeInv, MqType
  <2>7. e # d
    <3>1. Hands(w, d) /\ Near(d) >= 1 /\ Sums(d) = 1
          /\ InList(d) \in Nat /\ Near(d) \in Nat /\ Making(d) \in Nat
      <4>1. Hands(w, d)
        BY <1>1 DEF Hands
      <4> QED
        BY <1>1, <1>2, <4>1, Counts, Placed
    <3>2. InList(d) = 0
      BY <3>1 DEF Sums
    <3> QED
      BY <2>6, <3>2 DEF One
  <2>8. LoopInv(w)'
    BY <1>1, <1>2, <2>2, <2>3, <2>4, <2>7 DEF LoopInv, Ctx
  <2>9. ASSUME NEW c \in Contexts
        PROVE  /\ Works(w, c)' <=> Works(w, c)
               /\ InList(c)' + One(Hands(w, c)') = InList(c) + One(Hands(w, c))
    <3>1. Works(w, c)' <=> Works(w, c)
      BY <1>1, <2>2, <2>3 DEF Works
    <3>2. (Hands(w, c) <=> c = d) /\ (Hands(w, c)' <=> c = d \/ c = e)
      BY <1>1, <2>3, <2>4 DEF Hands
    <3> QED
      BY <2>6, <2>7, <3>1, <3>2 DEF One
  <2> QED
    BY <1>1, <2>5, <2>6, <2>8, <2>9, LoopStep
<1>4. CASE global = <<>> /\ To(w, "keep") /\ UNCHANGED <<rest, global>>
  <2>1. "keep" \in PcType /\ "keep" \in AtContext
    BY DEF PcType, AtContext
  <2>2. pc' \in [Workers -> PcType] /\ pc'[w] = "keep" /\ \A u \in Workers : u # w => pc'[u] = pc[u]
    BY <1>4, <2>1, ToEffect
  <2>3. WorkerType' /\ OnlyMoves(w)
    BY <1>1, <1>4, <2>2 DEF WorkerType, OnlyMoves, IInv, TypeInv, callVars
  <2>4. LoopInv(w)'
    BY <1>1, <1>2, <1>4, <2>2, ServiceAssumption DEF LoopInv, Ctx
  <2>5. ASSUME NEW c \in Contexts
        PROVE  /\ Works(w, c)' <=> Works(w, c)
               /\ InList(c)' + One(Hands(w, c)') = InList(c) + One(Hands(w, c))
    <3>1. (Works(w, c)' <=> Works(w, c)) /\ (Hands(w, c)' <=> Hands(w, c))
      BY <1>1, <1>2, <1>4, <2>1, <2>2, ServiceAssumption DEF Works, Hands
    <3> QED
      BY <1>4, <3>1, ListKept DEF One, IInv, TypeInv
  <2> QED
    BY <1>1, <1>4, <2>3, <2>4, <2>5, LoopStep DEF IInv, TypeInv, MqType
<1> QED
  BY <1>3, <1>4 DEF Look

LEMMA SwapStep ==
  ASSUME IInv, NEW w \in Workers, Swap(w)
  PROVE  IInv'
<1> DEFINE d == held[w]
           e == rest[w]
<1>1. /\ WorkerAt(w, "swap") /\ pc[w] = "swap" /\ "swap" \in AtContext /\ w \in Threads
      /\ GlobalPush(d) /\ To(w, "keep")
      /\ UNCHANGED <<queue, handleVars, ctxVars, held, rest, quit, callVars, bounds>>
  BY InLoop DEF Swap, AtContext
<1>2. d \in Contexts /\ e \in Contexts /\ e # d /\ e # 0
  BY <1>1, InLoop DEF LoopInv, Ctx
<1>3. "keep" \in PcType /\ "keep" \in AtContext
  BY DEF PcType, AtContext
<1>4. pc' \in [Workers -> PcType] /\ pc'[w] = "keep" /\ \A u \in Workers : u # w => pc'[u] = pc[u]
  BY <1>1, <1>3, ToEffect
<1>5. WorkerType' /\ OnlyMoves(w)
  BY <1>1, <1>4 DEF WorkerType, OnlyMoves, IInv, TypeInv, callVars
<1>6. LoopInv(w)'
  BY <1>1, <1>2, <1>4 DEF LoopInv, Ctx
<1>7. /\ global' \in Seq(Contexts)
      /\ \A c \in Contexts : InList(c) \in Nat /\ InList(c)' = InList(c) + One(c = d)
  BY <1>1, <1>2, ListPush DEF IInv, TypeInv, MqType
<1>8. ASSUME NEW c \in Contexts
      PROVE  /\ Works(w, c)' <=> Works(w, c)
             /\ InList(c)' + One(Hands(w, c)') = InList(c) + One(Hands(w, c))
  <2>1. Works(w, c)' <=> Works(w, c)
    BY <1>1, <1>3, <1>4 DEF Works
  <2>2. (Hands(w, c) <=> c = d \/ c = e) /\ (Hands(w, c)' <=> c = e)
    BY <1>1, <1>2, <1>4 DEF Hands
  <2> QED
    BY <1>2, <1>7, <2>1, <2>2 DEF One
<1> QED
  BY <1>1, <1>5, <1>6, <1>7, <1>8, LoopStep

LEMMA KeepStep ==
  ASSUME IInv, NEW w \in Workers, Keep(w)
  PROVE  IInv'
<1> DEFINE d == held[w]
           e == IF rest[w] # 0 THEN rest[w] ELSE held[w]
<1>1. /\ WorkerAt(w, "keep") /\ pc[w] = "keep" /\ "keep" \in AtContext /\ "idle" \notin AtContext
      /\ "idle" \in PcType /\ w \in Threads /\ op[w] = NoOp /\ drop[w] = 0 /\ rel[w] = 0
      /\ Release(w, d) /\ To(w, "idle")
      /\ held' = [held EXCEPT ![w] = e] /\ rest' = [rest EXCEPT ![w] = 0]
      /\ UNCHANGED <<mqVars, handleVars, alive, init, quit, op, drop, snd, bounds>>
  BY InLoop DEF Keep, AtContext, PcType
<1>2. d \in Contexts /\ rest[w] \in Ctx /\ rest[w] # d /\ e \in Contexts
  BY <1>1, InLoop DEF LoopInv, Ctx
<1>3. pc' \in [Workers -> PcType] /\ pc'[w] = "idle" /\ \A u \in Workers : u # w => pc'[u] = pc[u]
  BY <1>1, ToEffect
<1>4. /\ held' \in [Workers -> Ctx] /\ held'[w] = e /\ rest' \in [Workers -> Nat] /\ rest'[w] = 0
      /\ \A u \in Workers : u # w => held'[u] = held[u] /\ rest'[u] = rest[u]
  BY <1>1, <1>2 DEF IInv, TypeInv, WorkerType, Ctx
<1>5. WorkerType' /\ OnlyMoves(w) /\ SameLaunch(w)
  BY <1>1, <1>3, <1>4 DEF WorkerType, OnlyMoves, SameLaunch, IInv, TypeInv
<1>6. CallInv(w)' /\ LoopInv(w)'
  <2>1. LoopInv(w)'
    BY <1>1, <1>3 DEF LoopInv
  <2>2. NoOp.kind = "none" /\ snd[w] = NoSnd
    BY <1>1, InLoop, OpFields
  <2> QED
    BY <1>1, <2>1, <2>2 DEF CallInv
<1>7. Works(w, d)
  BY <1>1 DEF Works
<1>8. ASSUME NEW c \in Contexts
      PROVE  /\ Use(w, c)' + One(c = d) = Use(w, c)
             /\ Spot(w, c)' = Spot(w, c) /\ Made(w, c)' = Made(w, c)
             /\ Works(w, c)' => Works(w, c)
             /\ Starting(w, c) => Starting(w, c)' \/ init[c] \/ Listed(c) = 0
  <2>1. (Works(w, c) <=> c = d) /\ ~Works(w, c)'
    BY <1>1, <1>3 DEF Works
  <2>2. Hands(w, c)' <=> Hands(w, c)
    BY <1>1, <1>2, <1>3, <1>4, ServiceAssumption DEF Hands
  <2>3. /\ Drops(w, c)' <=> Drops(w, c)
        /\ Launches(w, c)' <=> Launches(w, c)
        /\ Pushes(w, c)' <=> Pushes(w, c)
        /\ Ends(w, c)' <=> Ends(w, c)
        /\ Starting(w, c)' <=> Starting(w, c)
    BY <1>1 DEF Drops, Launches, Pushes, Ends, Starting
  <2>4. ~Pushes(w, c) /\ ~Ends(w, c)
    BY <1>1, InLoop
  <2> QED
    BY <2>1, <2>2, <2>3, <2>4 DEF Use, Spot, Made, One
<1> QED
  BY <1>1, <1>2, <1>5, <1>6, <1>7, <1>8, GiveBack DEF bounds, IInv, TypeInv, CallType

LEMMA LetGoStep ==
  ASSUME IInv, NEW w \in Workers, LetGo(w)
  PROVE  IInv'
<1> DEFINE d == held[w]
<1>1. /\ WorkerAt(w, "empty") /\ pc[w] = "empty" /\ "empty" \in AtContext /\ "idle" \notin AtContext
      /\ "idle" \in PcType /\ w \in Threads /\ op[w] = NoOp /\ drop[w] = 0 /\ rel[w] = 0
      /\ Release(w, d) /\ To(w, "idle") /\ held' = [held EXCEPT ![w] = 0]
      /\ UNCHANGED <<mqVars, handleVars, alive, init, rest, quit, op, drop, snd, bounds>>
  BY InLoop DEF LetGo, AtContext, PcType
<1>2. d \in Contexts
  BY <1>1, InLoop DEF LoopInv
<1>3. pc' \in [Workers -> PcType] /\ pc'[w] = "idle" /\ \A u \in Workers : u # w => pc'[u] = pc[u]
  BY <1>1, ToEffect
<1>4. /\ held' \in [Workers -> Ctx] /\ held'[w] = 0
      /\ \A u \in Workers : u # w => held'[u] = held[u]
  BY <1>1 DEF IInv, TypeInv, WorkerType, Ctx
<1>5. WorkerType' /\ OnlyMoves(w) /\ SameLaunch(w)
  BY <1>1, <1>3, <1>4 DEF WorkerType, OnlyMoves, SameLaunch, IInv, TypeInv
<1>6. CallInv(w)' /\ LoopInv(w)'
  <2>1. LoopInv(w)'
    BY <1>1, <1>3 DEF LoopInv
  <2>2. NoOp.kind = "none" /\ snd[w] = NoSnd
    BY <1>1, InLoop, OpFields
  <2> QED
    BY <1>1, <2>1, <2>2 DEF CallInv
<1>7. Works(w, d)
  BY <1>1 DEF Works
<1>8. ASSUME NEW c \in Contexts
      PROVE  /\ Use(w, c)' + One(c = d) = Use(w, c)
             /\ Spot(w, c)' = Spot(w, c) /\ Made(w, c)' = Made(w, c)
             /\ Works(w, c)' => Works(w, c)
             /\ Starting(w, c) => Starting(w, c)' \/ init[c] \/ Listed(c) = 0
  <2>1. (Works(w, c) <=> c = d) /\ ~Works(w, c)'
    BY <1>1, <1>3 DEF Works
  <2>2. ~Hands(w, c)' /\ ~Hands(w, c)
    BY <1>1, <1>2, <1>3, <1>4, ServiceAssumption DEF Hands
  <2>3. /\ Drops(w, c)' <=> Drops(w, c)
        /\ Launches(w, c)' <=> Launches(w, c)
        /\ Pushes(w, c)' <=> Pushes(w, c)
        /\ Ends(w, c)' <=> Ends(w, c)
        /\ Starting(w, c)' <=> Starting(w, c)
    BY <1>1 DEF Drops, Launches, Pushes, Ends, Starting
  <2>4. ~Pushes(w, c) /\ ~Ends(w, c)
    BY <1>1, InLoop
  <2> QED
    BY <2>1, <2>2, <2>3, <2>4 DEF Use, Spot, Made, One
<1> QED
  BY <1>1, <1>2, <1>5, <1>6, <1>7, <1>8, GiveBack DEF bounds, IInv, TypeInv, CallType

LEMMA GrabContextStep ==
  ASSUME IInv, NEW w \in Workers, GrabContext(w)
  PROVE  IInv'
<1> DEFINE d == held[w]
<1>1. /\ WorkerAt(w, "grab") /\ pc[w] = "grab" /\ w \in Threads /\ op[w] = NoOp /\ drop[w] = 0
      /\ snd[w] = NoSnd /\ NoOp.kind = "none" /\ op[w].kind = "none"
      /\ UNCHANGED <<mqVars, handleVars, alive, init, rest, quit, op, snd, rel, bounds>>
  BY InLoop, OpFields DEF GrabContext
<1>2. d \in Contexts
  BY <1>1, InLoop DEF LoopInv
<1>3. /\ "first" \in PcType /\ "first" \in AtContext
      /\ "idle" \in PcType /\ "idle" \notin AtContext /\ "grab" \notin AtContext
  BY DEF PcType, AtContext
<1>4. Hands(w, d)
  BY <1>1 DEF Hands
<1>5. queue[d].state = "live" /\ Sums(d) = 1
  BY <1>1, <1>2, <1>4, Placed
<1>6. \A c \in Contexts : ~Works(w, c) /\ (Hands(w, c) <=> c = d) /\ Spot(w, c) = One(c = d)
                          /\ ~Starting(w, c) /\ Made(w, c) = 0 /\ ~Ends(w, c) /\ ~Pushes(w, c)
  <2>1. \A c \in Contexts : ~Works(w, c) /\ (Hands(w, c) <=> c = d)
    BY <1>1, <1>3 DEF Works, Hands
  <2> QED
    BY <1>1, <2>1, InLoop DEF One
<1>7. \A c \in Contexts : Made(w, c)' = 0
  BY <1>1 DEF Made, Launches, One
<1>8. SameLaunch(w)
  BY <1>1 DEF SameLaunch
<1>9. MqType' /\ \A c \in Contexts : InList(c) \in Nat /\ InList(c)' = InList(c)
  BY <1>1, ListKept DEF IInv, TypeInv, MqType, mqVars
<1>10. CASE Found(d)
  <2>1. ref' = [ref EXCEPT ![d] = @ + 1] /\ To(w, "first") /\ UNCHANGED <<held, drop>>
    BY <1>10 DEF GrabContext
  <2>2. pc' \in [Workers -> PcType] /\ pc'[w] = "first" /\ \A u \in Workers : u # w => pc'[u] = pc[u]
    BY <1>3, <2>1, ToEffect
  <2>3. /\ ref' \in [Contexts -> Nat]
        /\ \A c \in Contexts : ref'[c] = ref[c] + One(c = d)
        /\ \A c \in Contexts : RelInv(c)'
    BY <1>1, <1>2, <1>10, <2>1, Referred, GrabEffect
  <2>4. init[d]
    <3> SUFFICES ASSUME ~init[d] PROVE FALSE
      OBVIOUS
    <3>1. Listed(d) \in Nat /\ Listed(d) # 0
      BY <1>2, <1>10, TableFinite, FoundListed DEF IInv, TypeInv
    <3>2. PICK u \in Threads : Starting(u, d)
      BY <1>2, <3>1 DEF IInv, CtxInv, StartInv
    <3>3. Launches(u, d)
      BY <3>2 DEF Starting, Launches
    <3>4. Near(d) >= 1 /\ Making(d) >= 1 /\ Near(d) \in Nat /\ Making(d) \in Nat
      BY <1>1, <1>4, <3>3, Counts
    <3> QED
      BY <1>2, <1>5, <1>9, <3>4 DEF Sums
  <2>5. OnlyMoves(w)
    BY <1>1, <2>1, <2>2 DEF OnlyMoves
  <2>6. TypeInv'
    BY <1>1, <2>1, <2>2, <2>3 DEF IInv, TypeInv, MqType, TableType, CtxType, WorkerType, CallType,
      mqVars, handleVars, bounds, Size
  <2>7. CallInv(w)' /\ LoopInv(w)'
    <3>1. CallInv(w)'
      BY <1>1, <2>1, ServiceAssumption DEF CallInv
    <3>2. LoopInv(w)'
      BY <1>2, <2>1, <2>2 DEF LoopInv
    <3> QED
      BY <3>1, <3>2
  <2>8. ASSUME NEW c \in Contexts
        PROVE  /\ RelInv(c)' /\ PlaceInv(c)' /\ ref'[c] + Use(w, c) = ref[c] + Use(w, c)'
               /\ Works(w, c)' => init[c]
    <3>1. (Works(w, c)' <=> c = d) /\ (Hands(w, c)' <=> c = d)
      BY <1>1, <1>3, <2>1, <2>2 DEF Works, Hands
    <3>2. Spot(w, c)' = Spot(w, c) /\ Spot(w, c) \in Nat
      BY <1>1, <1>6, <2>1, <3>1 DEF Spot, Drops, One
    <3>3. PlaceInv(c)'
      BY <1>1, <1>6, <1>7, <1>9, <2>5, <3>2, PlaceKept DEF mqVars
    <3>4. Use(w, c) = 0 /\ Use(w, c)' = One(c = d)
      BY <1>1, <1>6, <2>1, <3>1 DEF Use, Pushes, Ends, One
    <3>5. One(c = d) \in Nat /\ ref[c] \in Nat
      BY DEF One, IInv, TypeInv, CtxType
    <3> QED
      BY <2>3, <2>4, <3>1, <3>3, <3>4, <3>5
  <2>9. \A c \in Contexts : queue'[c].state = queue[c].state /\ queue'[c].release = queue[c].release
    BY <1>1 DEF mqVars
  <2> QED
    BY <1>1, <1>6, <1>8, <2>5, <2>6, <2>7, <2>8, <2>9, Frame
<1>11. CASE ~Found(d)
  <2>1. /\ drop' = [drop EXCEPT ![w] = d] /\ held' = [held EXCEPT ![w] = 0]
        /\ To(w, "idle") /\ ref' = ref
    BY <1>11 DEF GrabContext
  <2>2. pc' \in [Workers -> PcType] /\ pc'[w] = "idle" /\ \A u \in Workers : u # w => pc'[u] = pc[u]
    BY <1>3, <2>1, ToEffect
  <2>3. /\ held' \in [Workers -> Ctx] /\ held'[w] = 0
        /\ \A u \in Workers : u # w => held'[u] = held[u]
        /\ drop' \in [Threads -> Ctx] /\ drop'[w] = d
        /\ \A u \in Threads : u # w => drop'[u] = drop[u]
    BY <1>1, <1>2, <2>1 DEF IInv, TypeInv, WorkerType, CallType, Ctx
  <2>4. OnlyMoves(w)
    BY <1>1, <2>2, <2>3 DEF OnlyMoves
  <2>5. TypeInv'
    BY <1>1, <2>1, <2>2, <2>3 DEF IInv, TypeInv, MqType, TableType, CtxType, WorkerType, CallType,
      mqVars, handleVars, bounds, Size
  <2>6. CallInv(w)' /\ LoopInv(w)'
    <3>1. CallInv(w)'
      BY <1>1, ServiceAssumption DEF CallInv
    <3>2. LoopInv(w)'
      BY <1>3, <2>2 DEF LoopInv
    <3> QED
      BY <3>1, <3>2
  <2>7. ASSUME NEW c \in Contexts
        PROVE  /\ RelInv(c)' /\ PlaceInv(c)' /\ ref'[c] + Use(w, c) = ref[c] + Use(w, c)'
               /\ ~Works(w, c)'
    <3>1. ~Works(w, c)' /\ ~Hands(w, c)' /\ (Drops(w, c)' <=> c = d)
      BY <1>1, <1>3, <2>2, <2>3, ServiceAssumption DEF Works, Hands, Drops
    <3>2. Spot(w, c)' = Spot(w, c) /\ Spot(w, c) \in Nat
      BY <1>6, <3>1 DEF Spot, One
    <3>3. PlaceInv(c)'
      BY <1>1, <1>6, <1>7, <1>9, <2>4, <3>2, PlaceKept DEF mqVars
    <3>4. Use(w, c) = 0 /\ Use(w, c)' = 0
      BY <1>1, <1>6, <3>1 DEF Use, Pushes, Ends, One
    <3>5. RelInv(c)'
      BY <1>1, <2>1 DEF IInv, CtxInv, RelInv
    <3> QED
      BY <2>1, <3>1, <3>3, <3>4, <3>5
  <2>8. \A c \in Contexts : queue'[c].state = queue[c].state /\ queue'[c].release = queue[c].release
    BY <1>1 DEF mqVars
  <2> QED
    BY <1>1, <1>6, <1>8, <2>4, <2>5, <2>6, <2>7, <2>8, Frame
<1> QED
  BY <1>10, <1>11

LEMMA PopMessageStep ==
  ASSUME IInv, NEW w \in Workers, PopMessage(w)
  PROVE  IInv'
<1> DEFINE d == held[w]
           z == IF pc[w] = "first" /\ w \in Whole THEN "length" ELSE "call"
<1>1. PICK s \in {"first", "next"} : WorkerAt(w, s)
  BY DEF PopMessage
<1>2. /\ pc[w] = s /\ w \in Threads /\ op[w] = NoOp /\ drop[w] = 0 /\ snd[w] = NoSnd
      /\ NoOp.kind = "none" /\ op[w].kind = "none" /\ rest[w] \in Nat
      /\ To(w, z) /\ UNCHANGED <<handleVars, ctxVars, held, quit, callVars, bounds>>
  BY <1>1, InLoop, OpFields DEF PopMessage
<1>3. z \in PcType /\ z \in AtContext /\ s \in AtContext /\ z \in {"length", "call"}
  BY DEF PcType, AtContext
<1>4. d \in Contexts
  BY <1>1, <1>2, <1>3, InLoop DEF LoopInv
<1>5. rest' \in [Workers -> Nat] /\ \A u \in Workers : u # w => rest'[u] = rest[u]
  <2>1. CASE rest' = rest
    BY <2>1 DEF IInv, TypeInv, WorkerType
  <2>2. CASE rest' = [rest EXCEPT ![w] = IF pc[w] = "first" THEN 0 ELSE @ - 1]
    <3>1. (IF pc[w] = "first" THEN 0 ELSE rest[w] - 1) \in Nat
      BY <1>1, <1>2, InLoop DEF LoopInv
    <3> QED
      BY <2>2, <3>1 DEF IInv, TypeInv, WorkerType
  <2> QED
    BY <2>1, <2>2 DEF PopMessage
<1>6. pc' \in [Workers -> PcType] /\ pc'[w] = z /\ \A u \in Workers : u # w => pc'[u] = pc[u]
  BY <1>2, <1>3, ToEffect
<1>7. PICK m : MqPop(d, m)
  BY DEF PopMessage
<1>8. /\ MqType'
      /\ \A c \in Contexts : c # d => queue'[c] = queue[c]
      /\ queue'[d].state = queue[d].state /\ queue'[d].inGlobal = queue[d].inGlobal
      /\ queue'[d].release = queue[d].release
      /\ \A c \in Contexts : InList(c) \in Nat /\ InList(c)' = InList(c)
  BY <1>4, <1>7, PopEffect DEF IInv, TypeInv
<1>9. Hands(w, d) /\ Sums(d) = 1
  <2>1. Hands(w, d)
    BY <1>1, <1>2 DEF Hands
  <2> QED
    BY <1>2, <1>4, <2>1, Placed
<1> HIDE DEF z
<1>10. OnlyMoves(w) /\ SameLaunch(w)
  BY <1>2, <1>5, <1>6 DEF OnlyMoves, SameLaunch, callVars
<1>11. TypeInv'
  BY <1>2, <1>5, <1>6, <1>8 DEF IInv, TypeInv, TableType, CtxType, WorkerType, CallType,
    handleVars, ctxVars, callVars, bounds, Size
<1>12. CallInv(w)' /\ LoopInv(w)'
  <2>1. CallInv(w)'
    BY <1>2, ServiceAssumption DEF CallInv, callVars
  <2>2. LoopInv(w)'
    BY <1>2, <1>3, <1>4, <1>6 DEF LoopInv
  <2> QED
    BY <2>1, <2>2
<1>13. ASSUME NEW c \in Contexts
       PROVE  /\ RelInv(c)' /\ PlaceInv(c)' /\ ref'[c] + Use(w, c) = ref[c] + Use(w, c)'
              /\ Works(w, c)' => Works(w, c)
              /\ Starting(w, c) => Starting(w, c)'
  <2>1. (Works(w, c)' <=> Works(w, c)) /\ (Hands(w, c)' <=> Hands(w, c))
    BY <1>1, <1>2, <1>3, <1>6 DEF Works, Hands
  <2>2. /\ Drops(w, c)' <=> Drops(w, c)
        /\ Launches(w, c)' <=> Launches(w, c)
        /\ Pushes(w, c)' <=> Pushes(w, c)
        /\ Ends(w, c)' <=> Ends(w, c)
        /\ Starting(w, c)' <=> Starting(w, c)
    BY <1>2 DEF Drops, Launches, Pushes, Ends, Starting, callVars
  <2>3. Spot(w, c)' = Spot(w, c) /\ Made(w, c)' = Made(w, c) /\ Use(w, c)' = Use(w, c)
    BY <2>1, <2>2 DEF Spot, Made, Use, One
  <2>4. RelInv(c)'
    BY <1>2 DEF IInv, CtxInv, RelInv, ctxVars, callVars
  <2>5. PlaceInv(c)'
    <3>1. queue'[c].msgs = queue[c].msgs \/ Sums(c) = 1
      BY <1>8, <1>9
    <3>2. queue'[c].state = queue[c].state /\ queue'[c].inGlobal = queue[c].inGlobal
          /\ queue'[c].release = queue[c].release
      BY <1>8
    <3> QED
      BY <1>2, <1>8, <1>10, <2>3, <3>1, <3>2, PlaceKept
  <2> QED
    BY <1>2, <2>1, <2>2, <2>3, <2>4, <2>5 DEF ctxVars
<1>14. \A c \in Contexts : queue'[c].state = queue[c].state /\ queue'[c].release = queue[c].release
  BY <1>8
<1> QED
  BY <1>2, <1>10, <1>11, <1>12, <1>13, <1>14, Frame DEF ctxVars

\* The queue leaves the hands of a worker that is at its context: the
\* context has not been deleted, or the queue would be forgotten.
LEMMA PopNothingStep ==
  ASSUME IInv, NEW w \in Workers, PopNothing(w)
  PROVE  IInv'
<1> DEFINE d == held[w]
<1>1. PICK s \in {"first", "next"} : WorkerAt(w, s)
  BY DEF PopNothing
<1>2. /\ pc[w] = s /\ w \in Threads /\ op[w] = NoOp /\ drop[w] = 0 /\ snd[w] = NoSnd
      /\ NoOp.kind = "none" /\ op[w].kind = "none"
      /\ MqPopEmpty(d) /\ To(w, "empty")
      /\ UNCHANGED <<handleVars, ctxVars, held, rest, quit, callVars, bounds>>
  BY <1>1, InLoop, OpFields DEF PopNothing
<1>3. "empty" \in PcType /\ "empty" \in AtContext /\ s \in AtContext
  BY DEF PcType, AtContext
<1>4. d \in Contexts
  BY <1>1, <1>2, <1>3, InLoop DEF LoopInv
<1>5. pc' \in [Workers -> PcType] /\ pc'[w] = "empty" /\ \A u \in Workers : u # w => pc'[u] = pc[u]
  BY <1>2, <1>3, ToEffect
<1>6. /\ MqType'
      /\ \A c \in Contexts : c # d => queue'[c] = queue[c]
      /\ queue'[d].state = queue[d].state /\ queue'[d].release = queue[d].release
      /\ ~queue'[d].inGlobal /\ queue'[d].msgs = <<>>
      /\ \A c \in Contexts : InList(c) \in Nat /\ InList(c)' = InList(c)
  BY <1>2, <1>4, PopEmptyEffect DEF IInv, TypeInv
<1>7. Hands(w, d) /\ Sums(d) = 1 /\ queue[d].state = "live" /\ ~queue[d].release
  <2>1. Hands(w, d) /\ Works(w, d)
    BY <1>1, <1>2, <1>3 DEF Hands, Works
  <2>2. Sums(d) = 1 /\ queue[d].state = "live"
    BY <1>2, <1>4, <2>1, Placed
  <2> QED
    BY <1>2, <1>4, <2>1, <2>2, Referred
<1>8. OnlyMoves(w) /\ SameLaunch(w)
  BY <1>2, <1>5 DEF OnlyMoves, SameLaunch, callVars
<1>9. TypeInv'
  BY <1>2, <1>5, <1>6 DEF IInv, TypeInv, TableType, CtxType, WorkerType, CallType,
    handleVars, ctxVars, callVars, bounds, Size
<1>10. CallInv(w)' /\ LoopInv(w)'
  <2>1. CallInv(w)'
    BY <1>2, ServiceAssumption DEF CallInv, callVars
  <2>2. LoopInv(w)'
    BY <1>2, <1>4, <1>5 DEF LoopInv
  <2> QED
    BY <2>1, <2>2
<1>11. ASSUME NEW c \in Contexts
       PROVE  /\ RelInv(c)' /\ PlaceInv(c)' /\ ref'[c] + Use(w, c) = ref[c] + Use(w, c)'
              /\ Works(w, c)' => Works(w, c)
              /\ Starting(w, c) => Starting(w, c)'
  <2>1. /\ Works(w, c)' <=> Works(w, c)
        /\ Hands(w, c) <=> c = d
        /\ ~Hands(w, c)'
    BY <1>1, <1>2, <1>3, <1>5 DEF Works, Hands
  <2>2. /\ Drops(w, c)' <=> Drops(w, c)
        /\ Launches(w, c)' <=> Launches(w, c)
        /\ Pushes(w, c)' <=> Pushes(w, c)
        /\ Ends(w, c)' <=> Ends(w, c)
        /\ Starting(w, c)' <=> Starting(w, c)
    BY <1>2 DEF Drops, Launches, Pushes, Ends, Starting, callVars
  <2>3. Made(w, c) = 0 /\ Made(w, c)' = 0 /\ Use(w, c)' = Use(w, c)
    BY <1>2, <2>1, <2>2, InLoop DEF Made, Launches, Use, One, callVars
  <2>4. Spot(w, c)' = 0 /\ Spot(w, c) = One(c = d)
    BY <1>1, <2>1, <2>2, InLoop DEF Spot, One
  <2>5. RelInv(c)'
    BY <1>2 DEF IInv, CtxInv, RelInv, ctxVars, callVars
  <2>6. PlaceInv(c)'
    <3>1. CASE c # d
      BY <1>2, <1>6, <1>8, <2>3, <2>4, <3>1, PlaceKept DEF One
    <3>2. CASE c = d
      <4>1. InList(c)' + Spot(w, c)' + Made(w, c)' = InList(c) + Spot(w, c) + Made(w, c) + (-1)
        BY <1>6, <2>3, <2>4, <3>2 DEF One
      <4>2. Sums(c)' = Sums(c) + (-1)
        BY <1>2, <1>6, <1>8, <4>1, SumsMove
      <4> QED
        BY <1>6, <1>7, <3>2, <4>2 DEF PlaceInv
    <3> QED
      BY <3>1, <3>2
  <2> QED
    BY <1>2, <2>1, <2>2, <2>3, <2>5, <2>6 DEF ctxVars
<1>12. \A c \in Contexts : queue'[c].state = queue[c].state /\ queue'[c].release = queue[c].release
  BY <1>6
<1> QED
  BY <1>2, <1>8, <1>9, <1>10, <1>11, <1>12, Frame DEF ctxVars

\* Sleeping workers are woken: no place and no reference changes.
LEMMA WokenStep ==
  ASSUME IInv, pc' \in [Workers -> PcType],
         \A w \in Workers : pc'[w] = pc[w] \/ (pc[w] = "asleep" /\ pc'[w] = "idle"),
         UNCHANGED <<mqVars, handleVars, ctxVars, held, rest, callVars, bounds>>
  PROVE  IInv'
<1>1. /\ global' = global /\ queue' = queue /\ slot' = slot /\ handleIndex' = handleIndex
      /\ handle' = handle /\ ref' = ref /\ alive' = alive /\ init' = init /\ held' = held
      /\ rest' = rest /\ op' = op /\ drop' = drop /\ snd' = snd /\ rel' = rel /\ sends' = sends
  BY DEF mqVars, handleVars, ctxVars, callVars, bounds
<1>2. TypeInv'
  BY <1>1 DEF IInv, TypeInv, MqType, TableType, CtxType, WorkerType, CallType, Size
<1>3. TableInv'
  BY <1>1 DEF IInv, TableInv, Learns, Size
<1>4. ASSUME NEW t \in Threads PROVE CallInv(t)'
  <2>1. CallInv(t)
    BY DEF IInv
  <2>2. t \in Workers /\ pc[t] = "call" => pc'[t] = "call"
    OBVIOUS
  <2> QED
    BY <1>1, <2>1, <2>2 DEF CallInv
<1>5. "asleep" \notin AtContext \cup {"grab"} /\ "idle" \notin AtContext \cup {"grab"}
      /\ {"next", "look", "swap", "keep", "empty"} \subseteq AtContext
  BY DEF AtContext
<1>6. ASSUME NEW w \in Workers PROVE LoopInv(w)'
  BY <1>1, <1>5 DEF IInv, LoopInv
<1>7. ASSUME NEW c \in Contexts PROVE CtxInv(c)'
  <2>1. \A t \in Threads : (Hands(t, c) <=> Hands(t, c)') /\ (Works(t, c) <=> Works(t, c)')
    <3> SUFFICES ASSUME NEW t \in Threads
                 PROVE  (Hands(t, c) <=> Hands(t, c)') /\ (Works(t, c) <=> Works(t, c)')
      OBVIOUS
    <3>1. t \in Workers => pc'[t] = pc[t] \/ (pc[t] = "asleep" /\ pc'[t] = "idle")
      OBVIOUS
    <3>2. Works(t, c) <=> Works(t, c)'
      BY <1>1, <1>5, <3>1 DEF Works
    <3>3. Hands(t, c) <=> Hands(t, c)'
      BY <1>1, <1>5, <3>1 DEF Hands
    <3> QED
      BY <3>2, <3>3
  <2>2. Near(c)' = Near(c) /\ Making(c)' = Making(c) /\ Used(c)' = Used(c)
    BY <1>1, <2>1, NearSame DEF callVars
  <2>3. InList(c)' = InList(c) /\ Listed(c)' = Listed(c)
    BY <1>1 DEF InList, InGlobal, Listed, InTable
  <2>4. AliveInv(c) /\ RelInv(c) /\ StartInv(c) /\ RefInv(c) /\ PlaceInv(c)
    BY DEF IInv, CtxInv
  <2>5. AliveInv(c)' /\ RelInv(c)'
    BY <1>1, <2>4 DEF AliveInv, RelInv, Learns
  <2>6. StartInv(c)'
    BY <1>1, <2>1, <2>3, <2>4 DEF StartInv, Starting
  <2>7. RefInv(c)' /\ PlaceInv(c)'
    BY <1>1, <2>2, <2>3, <2>4 DEF RefInv, PlaceInv, Sums
  <2> QED
    BY <2>5, <2>6, <2>7 DEF CtxInv
<1> QED
  BY <1>2, <1>3, <1>4, <1>6, <1>7 DEF IInv

LEMMA WakeStep ==
  ASSUME IInv, Wake
  PROVE  IInv'
<1>1. PICK w \in Workers : pc[w] = "asleep" /\ To(w, "idle")
  BY DEF Wake
<1>2. "idle" \in PcType
  BY DEF PcType
<1>3. pc' \in [Workers -> PcType] /\ pc'[w] = "idle" /\ \A u \in Workers : u # w => pc'[u] = pc[u]
  BY <1>1, <1>2, ToEffect
<1> QED
  BY <1>1, <1>3, WokenStep DEF Wake

LEMMA QuitStep ==
  ASSUME IInv, Quit
  PROVE  IInv'
<1>1. pc' = [w \in Workers |-> IF pc[w] = "asleep" THEN "idle" ELSE pc[w]]
  BY DEF Quit
<1>2. pc' \in [Workers -> PcType]
  BY <1>1 DEF PcType, IInv, TypeInv, WorkerType
<1>3. \A w \in Workers : pc'[w] = pc[w] \/ (pc[w] = "asleep" /\ pc'[w] = "idle")
  BY <1>1
<1> QED
  BY <1>2, <1>3, WokenStep DEF Quit

LEMMA IdleStep ==
  ASSUME IInv, UNCHANGED vars
  PROVE  IInv'
<1>1. pc' \in [Workers -> PcType]
  BY DEF vars, workerVars, IInv, TypeInv, WorkerType
<1> QED
  BY <1>1, WokenStep DEF vars, workerVars

-----------------------------------------------------------------------------
(* The invariant is inductive.                                             *)

LEMMA Step ==
  ASSUME IInv, [Next]_vars
  PROVE  IInv'
<1>1. ASSUME NEW w \in Workers, WorkerStep(w) PROVE IInv'
  BY <1>1, FetchStep, AgainStep, SleepStep, LeaveStep, GrabContextStep, PopMessageStep,
    ReadLengthStep, ReturnStep, PopNothingStep, LetGoStep, LookStep, SwapStep, KeepStep
  DEF WorkerStep
<1>2. ASSUME NEW t \in Threads, LaunchStep(t) PROVE IInv'
  BY <1>2, LaunchLearnStep, LaunchInitStep, LaunchReleaseStep, LaunchReadyStep, LaunchPushStep,
    LaunchReportStep, LaunchFailedStep, LaunchRetireStep, LaunchRetiredStep, LaunchDropStep
  DEF LaunchStep
<1>3. ASSUME NEW t \in Threads, CallStep(t) PROVE IInv'
  BY <1>2, <1>3, DeleteStep, PushStep, PushDoneStep, ReleaseLaterStep, DropMessageStep,
    DroppedStep, RetireEndStep
  DEF CallStep
<1>4. ASSUME NEW t \in Threads, Callback(t) PROVE IInv'
  BY <1>4, SendStep, RetireStartStep, LaunchStartStep DEF Callback
<1>5. CASE Next
  BY <1>1, <1>3, <1>4, <1>5, WakeStep, QuitStep DEF Next
<1> QED
  BY <1>5, IdleStep

LEMMA StartSlot ==
  ASSUME NEW n \in Nat \ {0}, NEW a \in 1..n, NEW b \in 1..n, a % n = b % n
  PROVE  a = b
<1>1. ASSUME NEW c \in 1..n PROVE c % n = IF c = n THEN 0 ELSE c
  <2>1. CASE c = n
    <3>1. c \in Nat /\ c = n * 1 + 0 /\ 0 \in 0..n - 1
      BY <2>1
    <3> QED
      BY <2>1, <3>1, ModOf
  <2>2. CASE c # n
    <3>1. c \in Nat /\ c = n * 0 + c /\ c \in 0..n - 1
      BY <2>2
    <3> QED
      BY <2>2, <3>1, ModOf
  <2> QED
    BY <2>1, <2>2
<1> QED
  BY <1>1

LEMMA First ==
  ASSUME Init
  PROVE  IInv
<1> DEFINE n == Started
           s == [i \in 1..n |-> i]
<1>1. /\ n \in 0..SlotSize /\ SlotSize \in Nat \ {0} /\ n \in Nat /\ 1..n \subseteq Contexts
      /\ Contexts \subseteq Nat \ {0}
      /\ \A c \in Contexts : c <= n <=> c \in 1..n
  BY ServiceAssumption
<1>2. /\ global \in Seq(Contexts) /\ Len(global) = n /\ \A i \in 1..n : global[i] = i
      /\ \A c \in Contexts : queue[c] = IF c \in 1..n THEN NewQueue ELSE NoQueue
      /\ queue \in [Contexts -> QueueType]
  <2>1. s \in Seq(Contexts) /\ Len(s) = n
    BY <1>1
  <2>2. global = [i \in 1..n |-> s[i]] /\ global = s
    BY <2>1 DEF Init, MqInit
  <2>3. queue = [c \in Contexts |-> IF \E i \in 1..n : s[i] = c THEN NewQueue ELSE NoQueue]
    BY <2>1 DEF Init, MqInit
  <2>4. \A c : (\E i \in 1..n : s[i] = c) <=> c \in 1..n
    OBVIOUS
  <2>5. \A i \in 1..n : global[i] = i
    BY <2>2
  <2>6. \A c \in Contexts : queue[c] = IF c \in 1..n THEN NewQueue ELSE NoQueue
    BY <2>3, <2>4
  <2> HIDE DEF s
  <2> QED
    BY <2>1, <2>2, <2>3, <2>5, <2>6, QueueFields
<1>3. /\ handleIndex \in Nat \ {0} /\ handle \in [Contexts -> Nat]
      /\ \A c \in Contexts : handle[c] = IF c \in 1..n THEN c ELSE 0
  BY <1>1 DEF Init, HandleInit
<1>4. /\ DOMAIN slot = 0..SlotSize - 1 /\ Size = SlotSize
      /\ \A i \in 0..SlotSize - 1 : slot[i] = IF \E c \in 1..n : c % SlotSize = i
                                              THEN CHOOSE c \in 1..n : c % SlotSize = i ELSE 0
  <2>1. /\ DOMAIN slot = 0..SlotSize - 1
        /\ \A i \in 0..SlotSize - 1 : slot[i] = IF \E c \in 1..n : c % SlotSize = i
                                                THEN CHOOSE c \in 1..n : c % SlotSize = i ELSE 0
    BY DEF Init, HandleInit
  <2> QED
    BY <1>1, <2>1, TableSize DEF Size
<1>5. ASSUME NEW i \in 0..SlotSize - 1
      PROVE  /\ slot[i] # 0 => slot[i] \in 1..n /\ slot[i] % SlotSize = i
             /\ \A c \in 1..n : c % SlotSize = i => slot[i] = c
  <2>1. CASE \E c \in 1..n : c % SlotSize = i
    <3>1. slot[i] \in 1..n /\ slot[i] % SlotSize = i
      BY <1>4, <2>1
    <3>2. ASSUME NEW c \in 1..n, c % SlotSize = i PROVE slot[i] = c
      <4>1. c \in 1..SlotSize /\ slot[i] \in 1..SlotSize
        BY <1>1, <3>1
      <4> QED
        BY <1>1, <3>1, <3>2, <4>1, StartSlot
    <3> QED
      BY <3>1, <3>2
  <2>2. CASE ~ \E c \in 1..n : c % SlotSize = i
    BY <1>4, <2>2
  <2> QED
    BY <2>1, <2>2
<1>6. \A c \in 1..n : c % SlotSize \in 0..SlotSize - 1 /\ slot[c % SlotSize] = c
  BY <1>1, <1>5, ModRange
<1>7. TableType
  <2>1. \A i \in 0..SlotSize - 1 : slot[i] \in Ctx
    BY <1>1, <1>5 DEF Ctx
  <2>2. slot = [i \in 0..SlotSize - 1 |-> slot[i]]
    BY DEF Init, HandleInit
  <2> QED
    BY <1>1, <1>3, <1>4, <2>1, <2>2 DEF TableType
<1>8. ASSUME NEW c \in Contexts PROVE Listed(c) = One(c \in 1..n)
  <2>1. CASE c \in 1..n
    <3>1. InTable(c) = {c % SlotSize}
      BY <1>1, <1>4, <1>5, <1>6, <2>1 DEF InTable
    <3> QED
      BY <2>1, <3>1, FS_Singleton DEF Listed, One
  <2>2. CASE c \notin 1..n
    <3>1. InTable(c) = {}
      BY <1>1, <1>4, <1>5, <2>2 DEF InTable
    <3> QED
      BY <2>2, <3>1, FS_EmptySet DEF Listed, One
  <2> QED
    BY <2>1, <2>2
<1>9. ASSUME NEW c \in Contexts PROVE InList(c) = One(c \in 1..n)
  <2>1. CASE c \in 1..n
    <3>1. InGlobal(c) = {c}
      BY <1>2, <2>1 DEF InGlobal
    <3> QED
      BY <2>1, <3>1, FS_Singleton DEF InList, One
  <2>2. CASE c \notin 1..n
    <3>1. InGlobal(c) = {}
      BY <1>2, <2>2 DEF InGlobal
    <3> QED
      BY <2>2, <3>1, FS_EmptySet DEF InList, One
  <2> QED
    BY <2>1, <2>2
<1>10. /\ \A t \in Threads : op[t] = NoOp /\ drop[t] = 0 /\ snd[t] = NoSnd /\ rel[t] = 0
       /\ \A w \in Workers : pc[w] = "idle" /\ held[w] = 0 /\ rest[w] = 0
       /\ NoOp.kind = "none" /\ NoOp.step = "none" /\ NoOp.c = 0 /\ NoSnd.c = 0
       /\ "idle" \notin AtContext /\ "idle" \in PcType
  BY OpFields, SndFields DEF Init, AtContext, PcType
<1>11. /\ CtxType
       /\ \A c \in Contexts : /\ ref[c] = One(c \in 1..n)
                              /\ alive[c] <=> c \in 1..n
                              /\ init[c] <=> c \in 1..n
  <2>1. CtxType
    BY <1>1 DEF Init, CtxType
  <2>2. \A c \in Contexts : /\ ref[c] = One(c \in 1..n)
                            /\ alive[c] <=> c \in 1..n
                            /\ init[c] <=> c \in 1..n
    BY <1>1 DEF Init, One
  <2> QED
    BY <2>1, <2>2
<1> HIDE DEF n
<1>12. ASSUME NEW c \in Contexts
       PROVE  /\ \A t \in Threads : ~Works(t, c) /\ ~Starting(t, c) /\ ~Learns(t, c)
              /\ Near(c) = 0 /\ Making(c) = 0 /\ Used(c) = 0
  <2>1. c # 0
    BY <1>1
  <2>2. \A t \in Threads : /\ ~Works(t, c) /\ ~Hands(t, c) /\ ~Drops(t, c) /\ ~Launches(t, c)
                           /\ ~Pushes(t, c) /\ ~Ends(t, c) /\ ~Starting(t, c) /\ ~Learns(t, c)
    BY <1>10, <2>1 DEF Works, Hands, Drops, Launches, Pushes, Ends, Starting, Learns
  <2>3. /\ InHands(c) = {} /\ Dropping(c) = {} /\ Launching(c) = {}
        /\ Working(c) = {} /\ Pushing(c) = {} /\ Ending(c) = {}
    BY <2>2, Sets
  <2> QED
    BY <2>2, <2>3, FS_EmptySet DEF Near, Making, Used
<1>13. TypeInv
  <2>1. WorkerType /\ CallType /\ sends \in Nat
    BY <1>10 DEF Init, WorkerType, CallType, OpType, SndType, Ctx
  <2> QED
    BY <1>2, <1>7, <1>11, <2>1 DEF TypeInv, MqType
<1>14. TableInv
  <2>1. \A c \in Contexts : handle[c] # 0 => queue[c].state # "none"
    BY <1>2, <1>3, QueueFields
  <2>2. \A i \in 0..Size - 1 : slot[i] # 0 => handle[slot[i]] # 0 /\ handle[slot[i]] % Size = i
    BY <1>1, <1>3, <1>4, <1>5
  <2> QED
    BY <1>10, <2>1, <2>2 DEF TableInv
<1>15. (\A t \in Threads : CallInv(t)) /\ \A w \in Workers : LoopInv(w)
  BY <1>10 DEF CallInv, LoopInv
<1>16. ASSUME NEW c \in Contexts PROVE CtxInv(c)
  <2>1. CASE c \in 1..n
    <3>1. /\ queue[c].state = "live" /\ ~queue[c].release /\ queue[c].inGlobal
          /\ ref[c] = 1 /\ alive[c] /\ init[c] /\ Listed(c) = 1 /\ InList(c) = 1
      BY <1>2, <1>8, <1>9, <1>11, <2>1, QueueFields DEF One
    <3> QED
      BY <1>1, <1>10, <1>12, <3>1
        DEF CtxInv, AliveInv, RelInv, StartInv, RefInv, PlaceInv, Sums
  <2>2. CASE c \notin 1..n
    <3>1. /\ queue[c].state = "none" /\ ~queue[c].release
          /\ ref[c] = 0 /\ ~alive[c] /\ ~init[c] /\ Listed(c) = 0 /\ InList(c) = 0
      BY <1>2, <1>8, <1>9, <1>11, <2>2, QueueFields DEF One
    <3> QED
      BY <1>1, <1>10, <1>12, <3>1
        DEF CtxInv, AliveInv, RelInv, StartInv, RefInv, PlaceInv, Sums
  <2> QED
    BY <2>1, <2>2
<1> QED
  BY <1>13, <1>14, <1>15, <1>16 DEF IInv

-----------------------------------------------------------------------------
(* The theorems.                                                           *)

\* The inductive invariant, types included, holds in every state.
THEOREM Inductive == Spec => []IInv
<1>1. Init => IInv
  BY First
<1>2. IInv /\ [Next]_vars => IInv'
  BY Step
<1> QED
  BY <1>1, <1>2, PTL DEF Spec

LEMMA PlaceOfCounts ==
  ASSUME IInv
  PROVE  OnePlace
<1> SUFFICES ASSUME NEW c \in Contexts
             PROVE  CASE queue[c].state = "live" ->
                           IF queue[c].inGlobal \/ queue[c].release THEN Places(c) = 1
                           ELSE Places(c) = 0 /\ queue[c].msgs = <<>>
                      [] queue[c].state = "freed" -> Places(c) = 0
                      [] OTHER -> InGlobal(c) = {} /\ InHands(c) = {} /\ Dropping(c) = {}
  BY DEF OnePlace
<1>1. PlaceInv(c) /\ queue[c].state \in {"none", "live", "freed"}
  BY QueueFields DEF IInv, CtxInv, TypeInv, MqType
<1>2. Places(c) = Sums(c)
  <2>1. /\ Cardinality(InGlobal(c)) \in Nat /\ Cardinality(InHands(c)) \in Nat
        /\ Cardinality(Launching(c)) \in Nat /\ Cardinality(Dropping(c)) \in Nat
    <3>1. IsFiniteSet(InGlobal(c)) /\ IsFiniteSet(InHands(c)) /\ IsFiniteSet(Launching(c))
          /\ IsFiniteSet(Dropping(c))
      BY Sets, FS_Subset, ListFinite DEF InGlobal, IInv, TypeInv, MqType
    <3> QED
      BY <3>1, FS_CardinalityType
  <2> QED
    BY <2>1 DEF Places, Sums, InList, Near, Making
<1>3. InList(c) = 0 /\ Near(c) = 0 => InGlobal(c) = {} /\ InHands(c) = {} /\ Dropping(c) = {}
  BY ListSame, NoneNear DEF IInv, TypeInv, MqType
<1> QED
  BY <1>1, <1>2, <1>3 DEF PlaceInv

LEMMA LifeOfCounts ==
  ASSUME IInv
  PROVE  Lifetimes
<1> SUFFICES ASSUME NEW c \in Contexts
             PROVE  /\ ref[c] = Counted(c)
                    /\ Using(c) # {} => alive[c]
                    /\ Cardinality(Deleting(c)) = IF alive[c] /\ ref[c] = 0 THEN 1 ELSE 0
                    /\ InTable(c) # {} => alive[c]
                    /\ Working(c) # {} => init[c]
  BY DEF Lifetimes
<1>1. RelInv(c) /\ StartInv(c) /\ RefInv(c) /\ ref[c] \in Nat
  BY DEF IInv, CtxInv, TypeInv, CtxType
<1>2. ref[c] = Counted(c)
  <2>1. /\ Cardinality(InTable(c)) \in Nat /\ Cardinality(Working(c)) \in Nat
        /\ Cardinality(Pushing(c)) \in Nat /\ Cardinality(Ending(c)) \in Nat
    <3>1. IsFiniteSet(InTable(c)) /\ IsFiniteSet(Working(c)) /\ IsFiniteSet(Pushing(c))
          /\ IsFiniteSet(Ending(c))
      BY Sets, FS_Subset, TableFinite DEF IInv, TypeInv
    <3> QED
      BY <3>1, FS_CardinalityType
  <2> QED
    BY <1>1, <2>1 DEF RefInv, Counted, Listed, Used
<1>3. Listed(c) # 0 \/ Used(c) # 0 => alive[c]
  <2>1. Listed(c) \in Nat /\ Used(c) \in Nat
    BY CountTypes, TableFinite DEF IInv, TypeInv
  <2> QED
    BY <1>1, <2>1 DEF RefInv, RelInv
<1>4. Using(c) # {} => alive[c]
  BY <1>1, <1>3, Counts, Sets DEF Using, Deleting, RelInv
<1>5. Cardinality(Deleting(c)) = IF alive[c] /\ ref[c] = 0 THEN 1 ELSE 0
  <2>1. CASE alive[c] /\ ref[c] = 0
    <3>1. PICK u \in Threads : rel[u] = c
      BY <1>1, <2>1 DEF RelInv
    <3>2. Deleting(c) = {u}
      BY <1>1, <3>1 DEF RelInv, Deleting
    <3> QED
      BY <2>1, <3>2, FS_Singleton
  <2>2. CASE ~(alive[c] /\ ref[c] = 0)
    <3>1. Deleting(c) = {}
      BY <1>1, <2>2 DEF RelInv, Deleting
    <3> QED
      BY <2>2, <3>1, FS_EmptySet
  <2> QED
    BY <2>1, <2>2
<1>6. InTable(c) # {} => alive[c]
  BY <1>3, TableFinite DEF IInv, TypeInv, Listed
<1>7. Working(c) # {} => init[c]
  BY <1>1, Sets DEF StartInv
<1> QED
  BY <1>2, <1>4, <1>5, <1>6, <1>7

\* The queue of a service is in exactly one place, or in none and empty:
\* however many workers, services and messages there are, no queue is in the
\* hands of two workers and none is forgotten with a message in it.
THEOREM OneQueueOnePlace == Spec => []OnePlace
<1>1. IInv => OnePlace
  BY PlaceOfCounts
<1> QED
  BY <1>1, Inductive, PTL

\* ref counts the references to a context exactly; the context is there as
\* long as there is one, and one thread deletes it after the last.
THEOREM CountedReferences == Spec => []Lifetimes
<1>1. IInv => Lifetimes
  BY LifeOfCounts
<1> QED
  BY <1>1, Inductive, PTL

-----------------------------------------------------------------------------
(* With one worker nobody ends a service while its launcher goes on with   *)
(* it, so that the reference of the table stays until cmd_launch is over.  *)

OneWorker == \A v, w \in Workers : v = w

Keeps(t, c) ==
  op[t].c = c /\ \/ op[t].kind = "launch" /\ op[t].step \in {"learn", "init", "release", "ready", "push"}
                 \/ op[t].kind = "launched"

KeptInv == \A c \in Contexts, t \in Threads : Keeps(t, c) => Listed(c) # 0

\* What a step that leaves the table alone may do.
LEMMA KeptSame ==
  ASSUME KeptInv, UNCHANGED slot, \A c \in Contexts, t \in Threads : Keeps(t, c)' => Keeps(t, c)
  PROVE  KeptInv'
<1>1. \A c \in Contexts : Listed(c)' = Listed(c)
  BY DEF Listed, InTable
<1> QED
  BY <1>1 DEF KeptInv

\* And one that leaves the calls alone as well.
LEMMA KeptIdle ==
  ASSUME KeptInv, UNCHANGED <<slot, op>>
  PROVE  KeptInv'
<1>1. \A c \in Contexts, t \in Threads : Keeps(t, c)' => Keeps(t, c)
  BY DEF Keeps
<1> QED
  BY <1>1, KeptSame

LEMMA KeptMove ==
  ASSUME IInv, KeptInv, UNCHANGED slot, NEW t \in Threads, NEW o, op' = [op EXCEPT ![t] = o],
         \A c \in Contexts : (o.c = c /\ \/ o.kind = "launch" /\ o.step \in {"learn", "init", "release", "ready", "push"}
                                         \/ o.kind = "launched") => Keeps(t, c)
  PROVE  KeptInv'
<1>1. op'[t] = o /\ \A u \in Threads : u # t => op'[u] = op[u]
  BY DEF IInv, TypeInv, CallType
<1>2. \A c \in Contexts, u \in Threads : Keeps(u, c)' => Keeps(u, c)
  BY <1>1 DEF Keeps
<1> QED
  BY <1>2, KeptSame

\* The others are in no operation.
LEMMA Alone ==
  ASSUME OneWorker, IInv, NEW t \in Workers, NEW u \in Threads, u # t
  PROVE  op[u] = NoOp /\ \A c \in Contexts : ~Keeps(u, c)
<1>1. op[u] = NoOp
  BY DEF OneWorker, IInv, CallInv
<1> QED
  BY <1>1, OpFields DEF Keeps

LEMMA KeptRemove ==
  ASSUME OneWorker, IInv, NEW t \in Workers, NEW o, op' = [op EXCEPT ![t] = o],
         o.kind \in {"launch", "launched"} => (o.kind = "launch" /\ o.step \in {"retired", "drop"})
  PROVE  KeptInv'
<1>1. t \in Threads /\ op'[t] = o /\ \A u \in Threads : u # t => op'[u] = op[u]
  BY Sets DEF IInv, TypeInv, CallType
<1>2. \A c \in Contexts, u \in Threads : ~Keeps(u, c)'
  <2> SUFFICES ASSUME NEW c \in Contexts, NEW u \in Threads PROVE ~Keeps(u, c)'
    OBVIOUS
  <2>1. CASE u = t
    BY <1>1, <2>1 DEF Keeps
  <2>2. CASE u # t
    BY <1>1, <2>2, Alone DEF Keeps
  <2> QED
    BY <2>1, <2>2
<1> QED
  BY <1>2 DEF KeptInv

LEMMA KeptLaunch ==
  ASSUME OneWorker, IInv, NEW t \in Threads, NEW d \in Contexts, Launch(t, d)
  PROVE  KeptInv'
<1>1. t \in Workers /\ op[t] = NoOp /\ queue[d].state = "none"
  BY ServiceAssumption DEF Launch, InCallback
<1>2. PICK h : /\ Register(d, h)
               /\ op' = [op EXCEPT ![t] = [kind |-> "launch", step |-> "learn", c |-> d, h |-> h]]
  BY DEF Launch
<1>3. \A u \in Threads : op[u].kind # "launch"
  BY <1>1, Alone, OpFields
<1>4. handle[d] = 0
  BY <1>1 DEF IInv, TableInv
<1>5. Listed(d)' = 1
  BY <1>2, <1>3, <1>4, RegisterEffect
<1>6. /\ op'[t] = [kind |-> "launch", step |-> "learn", c |-> d, h |-> h]
      /\ \A u \in Threads : u # t => op'[u] = op[u]
  BY <1>2 DEF IInv, TypeInv, CallType
<1>7. op'[t].c = d
  BY <1>6
<1>8. \A c \in Contexts, u \in Threads : Keeps(u, c)' => c = d
  <2> SUFFICES ASSUME NEW c \in Contexts, NEW u \in Threads, Keeps(u, c)' PROVE c = d
    OBVIOUS
  <2>1. CASE u = t
    BY <1>7, <2>1 DEF Keeps
  <2>2. CASE u # t
    BY <1>1, <1>6, <2>2, Alone DEF Keeps
  <2> QED
    BY <2>1, <2>2
<1> QED
  BY <1>5, <1>8 DEF KeptInv

LEMMA KeptLaunchStep ==
  ASSUME OneWorker, IInv, KeptInv, NEW t \in Threads, LaunchStep(t)
  PROVE  KeptInv'
<1>1. op[t] \in OpType /\ (op[t] # NoOp => t \in Workers)
  BY DEF IInv, TypeInv, CallType, CallInv
<1>2. ASSUME NEW s \in {"init", "ready", "push"}, NEW f \in {"learn", "init", "release", "ready"},
             op[t].kind = "launch", op[t].step = f, Goto(t, s), UNCHANGED slot
      PROVE  KeptInv'
  <2>1. s \in LaunchSteps
    BY DEF LaunchSteps
  <2> DEFINE o == [op[t] EXCEPT !.step = s]
  <2>2. op' = [op EXCEPT ![t] = o] /\ o.c = op[t].c
    BY <1>2, <2>1, GotoOp
  <2> HIDE DEF o
  <2>3. \A c \in Contexts : o.c = c => Keeps(t, c)
    BY <1>2, <2>2 DEF Keeps
  <2>4. op[t] # NoOp
    BY <1>2, OpFields
  <2> QED
    BY <1>1, <1>2, <2>2, <2>3, <2>4, KeptMove
<1>3. ASSUME NEW s \in {"pushGone", "failed", "retire", "retired", "drop"},
             op[t].kind = "launch", Goto(t, s), UNCHANGED slot
      PROVE  KeptInv'
  <2>1. s \in LaunchSteps
    BY DEF LaunchSteps
  <2>2. /\ op' = [op EXCEPT ![t] = [op[t] EXCEPT !.step = s]]
        /\ [op[t] EXCEPT !.step = s].step = s /\ [op[t] EXCEPT !.step = s].kind = "launch"
    BY <1>3, <2>1, GotoOp
  <2> QED
    BY <1>3, <2>2, KeptMove
<1>4. CASE LaunchLearn(t)
  BY <1>2, <1>4 DEF LaunchLearn, At, LearnHandle
<1>5. CASE LaunchInit(t)
  <2>1. op[t].kind = "launch" /\ op[t].step = "init" /\ UNCHANGED slot
    BY <1>5 DEF LaunchInit, At, handleVars
  <2>2. CASE Goto(t, "release")
    <3> DEFINE o == [op[t] EXCEPT !.step = "release"]
    <3>1. "release" \in LaunchSteps
      BY DEF LaunchSteps
    <3>2. op' = [op EXCEPT ![t] = o] /\ o.c = op[t].c
      BY <2>1, <2>2, <3>1, GotoOp
    <3> HIDE DEF o
    <3>3. \A c \in Contexts : o.c = c => Keeps(t, c)
      BY <2>1, <3>2 DEF Keeps
    <3> QED
      BY <2>1, <3>2, <3>3, KeptMove
  <2>3. CASE Goto(t, "failed")
    BY <1>3, <2>1, <2>3
  <2> QED
    BY <1>5, <2>2, <2>3 DEF LaunchInit
<1>6. CASE LaunchRelease(t)
  <2>1. op[t].kind = "launch" /\ op[t].step = "release" /\ UNCHANGED slot
    BY <1>6 DEF LaunchRelease, At, handleVars
  <2>2. CASE ref[op[t].c] = 1
    <3>1. Goto(t, "pushGone")
      BY <1>6, <2>2 DEF LaunchRelease
    <3> QED
      BY <1>3, <2>1, <3>1
  <2>3. CASE ref[op[t].c] # 1
    <3>1. Goto(t, "ready")
      BY <1>6, <2>3 DEF LaunchRelease
    <3> QED
      BY <1>2, <2>1, <3>1
  <2> QED
    BY <2>2, <2>3
<1>7. CASE LaunchReady(t)
  BY <1>2, <1>7 DEF LaunchReady, At, handleVars
<1>8. CASE LaunchPush(t)
  <2> DEFINE o == IF op[t].step = "push" THEN Launched(op[t].c) ELSE NoOp
  <2>1. op[t].kind = "launch" /\ UNCHANGED slot /\ op' = [op EXCEPT ![t] = o]
    BY <1>8 DEF LaunchPush, At, handleVars
  <2>2. op[t].c \in Contexts
    BY <1>1, <2>1, OpFields
  <2>3. ASSUME NEW c \in Contexts, o.c = c, o.kind \in {"launch", "launched"} PROVE Keeps(t, c)
    BY <2>1, <2>2, <2>3, OpFields, LaunchedFields DEF Keeps
  <2> HIDE DEF o
  <2> QED
    BY <2>1, <2>3, KeptMove
<1>9. CASE LaunchReport(t)
  <2>1. UNCHANGED slot /\ op' = [op EXCEPT ![t] = NoOp]
    BY <1>9 DEF LaunchReport, handleVars
  <2> QED
    BY <2>1, OpFields, KeptMove
<1>10. CASE LaunchFailed(t)
  BY <1>3, <1>10 DEF LaunchFailed, At, handleVars
<1>11. CASE LaunchRetire(t)
  <2> DEFINE s == IF Found(op[t].c) THEN "retired" ELSE "drop"
             o == [op[t] EXCEPT !.step = s]
  <2>1. op[t].kind = "launch" /\ Goto(t, s) /\ s \in LaunchSteps /\ s \in {"retired", "drop"}
    BY <1>11 DEF LaunchRetire, At, LaunchSteps
  <2> HIDE DEF s
  <2>2. op' = [op EXCEPT ![t] = o] /\ o.step = s /\ o.kind = "launch" /\ t \in Workers
    BY <1>1, <2>1, GotoOp
  <2> HIDE DEF o
  <2> QED
    BY <2>1, <2>2, KeptRemove
<1>12. CASE LaunchRetired(t)
  BY <1>3, <1>12 DEF LaunchRetired, At, handleVars
<1>13. CASE LaunchDrop(t)
  <2>1. UNCHANGED slot /\ op' = [op EXCEPT ![t] = NoOp]
    BY <1>13 DEF LaunchDrop, handleVars
  <2> QED
    BY <2>1, OpFields, KeptMove
<1> QED
  BY <1>4, <1>5, <1>6, <1>7, <1>8, <1>9, <1>10, <1>11, <1>12, <1>13 DEF LaunchStep

LEMMA KeptStep ==
  ASSUME OneWorker, IInv, KeptInv, [Next]_vars
  PROVE  KeptInv'
<1>1. ASSUME NEW w \in Workers, WorkerStep(w) PROVE KeptInv'
  <2>1. UNCHANGED <<slot, op>>
    BY <1>1 DEF WorkerStep, Fetch, Again, Sleep, Leave, GrabContext, PopMessage, ReadLength, Return,
      PopNothing, LetGo, Look, Swap, Keep, handleVars, callVars
  <2> QED
    BY <2>1, KeptIdle
<1>2. ASSUME NEW t \in Threads, RetireEnd(t) PROVE KeptInv'
  <2>1. UNCHANGED slot /\ op' = [op EXCEPT ![t] = NoOp]
    BY <1>2 DEF RetireEnd, handleVars
  <2> QED
    BY <2>1, OpFields, KeptMove
<1>3. ASSUME NEW t \in Threads, CallStep(t) PROVE KeptInv'
  <2>1. CASE Delete(t) \/ Push(t) \/ PushDone(t) \/ ReleaseLater(t) \/ DropMessage(t) \/ Dropped(t)
    <3>1. UNCHANGED <<slot, op>>
      BY <2>1 DEF Delete, Push, PushDone, ReleaseLater, DropMessage, Dropped, handleVars
    <3> QED
      BY <3>1, KeptIdle
  <2> QED
    BY <1>2, <1>3, <2>1, KeptLaunchStep DEF CallStep
<1>4. ASSUME NEW t \in Threads, Callback(t) PROVE KeptInv'
  <2>1. ASSUME NEW c \in Contexts, Send(t, c) PROVE KeptInv'
    <3>1. UNCHANGED <<slot, op>>
      BY <2>1 DEF Send, handleVars
    <3> QED
      BY <3>1, KeptIdle
  <2>2. ASSUME NEW c \in Contexts, RetireStart(t, c) PROVE KeptInv'
    <3> DEFINE o == [NoOp EXCEPT !.kind = "retire", !.step = "release", !.c = c]
    <3>1. t \in Workers /\ op' = [op EXCEPT ![t] = o] /\ o.kind = "retire"
      BY <2>2 DEF RetireStart, NoOp
    <3> HIDE DEF o
    <3>2. o.kind \notin {"launch", "launched"}
      BY <3>1
    <3>3. t \in Workers /\ op' = [op EXCEPT ![t] = o]
      BY <3>1
    <3> QED
      BY <3>2, <3>3, KeptRemove
  <2> QED
    BY <1>4, <2>1, <2>2, KeptLaunch DEF Callback
<1>5. ASSUME Wake \/ Quit \/ UNCHANGED vars PROVE KeptInv'
  <2>1. UNCHANGED <<slot, op>>
    BY <1>5 DEF Wake, Quit, vars, handleVars, callVars
  <2> QED
    BY <2>1, KeptIdle
<1> QED
  BY <1>1, <1>3, <1>4, <1>5 DEF Next

LEMMA KeptAlive ==
  ASSUME IInv, KeptInv
  PROVE  UsedWhileAlive
<1> SUFFICES ASSUME NEW c \in Contexts, Using(c) \cup Trusting(c) # {} PROVE alive[c]
  BY DEF UsedWhileAlive
<1>1. /\ Using(c) # {} => alive[c]
      /\ InTable(c) # {} => alive[c]
  BY LifeOfCounts DEF Lifetimes
<1>2. ASSUME NEW t \in Trusting(c) PROVE InTable(c) # {}
  <2>1. t \in Threads /\ Keeps(t, c)
    BY <1>2 DEF Trusting, Keeps
  <2> QED
    BY <2>1, TableFinite DEF KeptInv, IInv, TypeInv
<1> QED
  BY <1>1, <1>2

\* With one worker, as src/config asks for, no thread uses a context that has
\* been freed: neither by a reference nor, as the launcher in the steps after
\* skynet_context_release, without one.
THEOREM OneWorkerUses ==
  ASSUME \A v, w \in Workers : v = w
  PROVE  Spec => []UsedWhileAlive
<1>1. OneWorker
  BY DEF OneWorker
<1>2. Init => KeptInv
  <2> SUFFICES ASSUME Init PROVE KeptInv
    OBVIOUS
  <2>1. \A t \in Threads : op[t] = NoOp
    BY DEF Init
  <2> QED
    BY <2>1, OpFields DEF KeptInv, Keeps
<1>3. IInv /\ KeptInv /\ [Next]_vars => KeptInv'
  BY <1>1, KeptStep
<1>4. IInv /\ KeptInv => UsedWhileAlive
  BY KeptAlive
<1> QED
  BY <1>2, <1>3, <1>4, Inductive, PTL DEF Spec

-----------------------------------------------------------------------------
(* The boxes: the threads implement Mailbox.                               *)

BoxMsg == [from : Ctx, n : 0..MaxSends, error : BOOLEAN]

\* Messages have numbers up to the bound, a queue that is not made yet is
\* empty, and an error is sent by whoever drops the queue it is from.
QueueHolds(c) ==
  queue[c].msgs \in Seq(BoxMsg) /\ (queue[c].state = "none" => queue[c].msgs = <<>>)

SendHolds(t) ==
  snd[t] # NoSnd => /\ snd[t].m \in BoxMsg
                    /\ snd[t].m.error => drop[t] # 0 /\ drop[t] = snd[t].m.from

BoxInv ==
  /\ sends <= MaxSends
  /\ \A c \in Contexts : QueueHolds(c)
  /\ \A t \in Threads : SendHolds(t)

Refines == BoxInv' /\ [Boxes!Next]_(Boxes!vars)

\* What the abstract state is a function of.
Answers(t) == snd[t].step = "push" /\ snd[t].m.error
AtWork(w, c) == held[w] = c /\ pc[w] \in {"length", "call"}

SameQueue(c) ==
  /\ queue'[c].msgs = queue[c].msgs
  /\ queue'[c].state = "none" <=> queue[c].state = "none"

SameStatus(c) ==
  /\ queue'[c].state = "none" <=> queue[c].state = "none"
  /\ queue'[c].release <=> queue[c].release
  /\ Found(c)' <=> Found(c)
  /\ init'[c] <=> init[c]

SameSend(t) ==
  /\ SendHolds(t)'
  /\ Answers(t)' <=> Answers(t)
  /\ Answers(t) => snd'[t].c = snd[t].c /\ snd'[t].m = snd[t].m

LEMMA StatusIs ==
  ASSUME TypeInv, TypeInv', NEW c \in Contexts
  PROVE  /\ statusOf[c] = IF queue[c].state = "none" THEN "none"
                          ELSE IF queue[c].release THEN "dead"
                          ELSE IF ~Found(c) THEN "closed"
                          ELSE IF init[c] THEN "open" ELSE "starting"
         /\ statusOf'[c] = IF queue'[c].state = "none" THEN "none"
                           ELSE IF queue'[c].release THEN "dead"
                           ELSE IF ~Found(c)' THEN "closed"
                           ELSE IF init'[c] THEN "open" ELSE "starting"
<1>1. /\ queue[c] \in QueueType /\ queue'[c] \in QueueType
      /\ init[c] \in BOOLEAN /\ init'[c] \in BOOLEAN
  BY DEF TypeInv, MqType, CtxType
<1>2. queue[c].release \in BOOLEAN /\ queue'[c].release \in BOOLEAN
  BY <1>1, QueueFields
<1>3. \A a, r, f, i \in BOOLEAN :
        (CASE a -> "none"
           [] ~a /\ r -> "dead"
           [] ~a /\ ~r /\ f /\ ~i -> "starting"
           [] ~a /\ ~r /\ f /\ i -> "open"
           [] OTHER -> "closed") =
        IF a THEN "none" ELSE IF r THEN "dead" ELSE IF ~f THEN "closed"
        ELSE IF i THEN "open" ELSE "starting"
  OBVIOUS
<1>4. (queue[c].state = "none") \in BOOLEAN /\ Found(c) \in BOOLEAN
      /\ (queue'[c].state = "none") \in BOOLEAN /\ Found(c)' \in BOOLEAN
  BY DEF Found
<1>5. statusOf[c] = IF queue[c].state = "none" THEN "none"
                    ELSE IF queue[c].release THEN "dead"
                    ELSE IF ~Found(c) THEN "closed"
                    ELSE IF init[c] THEN "open" ELSE "starting"
  BY <1>1, <1>2, <1>3, <1>4 DEF statusOf
<1>6. statusOf'[c] = IF queue'[c].state = "none" THEN "none"
                     ELSE IF queue'[c].release THEN "dead"
                     ELSE IF ~Found(c)' THEN "closed"
                     ELSE IF init'[c] THEN "open" ELSE "starting"
  BY <1>1, <1>2, <1>3, <1>4 DEF statusOf
<1> QED
  BY <1>5, <1>6

\* At most one of the four changes, at one service.
LEMMA BoxChange ==
  ASSUME NEW d \in Contexts, \A c \in Contexts : c # d => SameQueue(c)
  PROVE  boxOf' = [boxOf EXCEPT ![d] = queue'[d].msgs]
  BY DEF boxOf, SameQueue

LEMMA BoxSame ==
  ASSUME \A c \in Contexts : SameQueue(c)
  PROVE  boxOf' = boxOf
  BY DEF boxOf, SameQueue

LEMMA StatusChange ==
  ASSUME TypeInv, TypeInv', NEW d \in Contexts, \A c \in Contexts : c # d => SameStatus(c)
  PROVE  statusOf' = [statusOf EXCEPT ![d] = statusOf'[d]]
<1>1. \A c \in Contexts : c # d => statusOf'[c] = statusOf[c]
  BY StatusIs DEF SameStatus
<1>2. DOMAIN statusOf = Contexts /\ DOMAIN statusOf' = Contexts
      /\ statusOf = [c \in Contexts |-> statusOf[c]] /\ statusOf' = [c \in Contexts |-> statusOf'[c]]
  BY DEF statusOf
<1> QED
  BY <1>1, <1>2

LEMMA StatusSame ==
  ASSUME TypeInv, TypeInv', \A c \in Contexts : SameStatus(c)
  PROVE  statusOf' = statusOf
<1>1. \A c \in Contexts : statusOf'[c] = statusOf[c]
  BY StatusIs DEF SameStatus
<1>2. statusOf = [c \in Contexts |-> statusOf[c]] /\ statusOf' = [c \in Contexts |-> statusOf'[c]]
  BY DEF statusOf
<1> QED
  BY <1>1, <1>2

LEMMA BusyChange ==
  ASSUME NEW d \in Contexts, NEW b \in BOOLEAN, b <=> \E w \in Workers : AtWork(w, d)',
         \A w \in Workers, c \in Contexts : c # d => (AtWork(w, c)' <=> AtWork(w, c))
  PROVE  busyOf' = [busyOf EXCEPT ![d] = b]
  BY DEF busyOf, AtWork

LEMMA BusySame ==
  ASSUME \A w \in Workers, c \in Contexts : AtWork(w, c)' <=> AtWork(w, c)
  PROVE  busyOf' = busyOf
  BY DEF busyOf, AtWork

LEMMA AnswersSame ==
  ASSUME \A t \in Threads : SameSend(t)
  PROVE  answersOf' = answersOf
<1>1. answersOf = {[to |-> snd[t].c, m |-> snd[t].m] : t \in {u \in Threads : Answers(u)}}
  BY DEF answersOf, Answers
<1>2. answersOf' = {[to |-> snd'[t].c, m |-> snd'[t].m] : t \in {u \in Threads : Answers(u)'}}
  BY DEF answersOf, Answers
<1> QED
  BY <1>1, <1>2 DEF SameSend

LEMMA Stutter ==
  ASSUME IInv, IInv', BoxInv, sends' <= MaxSends, quit' = quit,
         \A c \in Contexts : SameQueue(c) /\ SameStatus(c),
         \A t \in Threads : SameSend(t),
         \A w \in Workers, c \in Contexts : AtWork(w, c)' <=> AtWork(w, c)
  PROVE  Refines
<1>1. boxOf' = boxOf /\ busyOf' = busyOf /\ statusOf' = statusOf /\ answersOf' = answersOf
  BY BoxSame, BusySame, StatusSame, AnswersSame DEF IInv
<1>2. BoxInv'
  BY DEF BoxInv, SameQueue, QueueHolds, SameSend
<1> QED
  BY <1>1, <1>2 DEF Refines, Boxes!vars

KeptQueue(c) == SameQueue(c) /\ queue'[c].release = queue[c].release

LEMMA SendsStay ==
  ASSUME BoxInv, UNCHANGED snd, \A t \in Threads : drop'[t] = drop[t] \/ snd[t] = NoSnd
  PROVE  \A t \in Threads : SameSend(t)
  BY DEF BoxInv, SendHolds, SameSend, Answers

LEMMA CallStutter ==
  ASSUME IInv, IInv', BoxInv, sends' <= MaxSends,
         UNCHANGED <<workerVars, slot, handle, init>>,
         \A c \in Contexts : KeptQueue(c),
         \A t \in Threads : SameSend(t)
  PROVE  Refines
<1>1. \A c \in Contexts : SameQueue(c) /\ SameStatus(c)
  BY DEF KeptQueue, SameQueue, SameStatus, Found, Size
<1>2. \A w \in Workers, c \in Contexts : AtWork(w, c)' <=> AtWork(w, c)
  BY DEF AtWork, workerVars
<1>3. quit' = quit
  BY DEF workerVars
<1> QED
  BY <1>1, <1>2, <1>3, Stutter

LEMMA WorkerStutter ==
  ASSUME IInv, IInv', BoxInv, NEW w \in Workers, NEW s, WorkerAt(w, s), NEW z \in PcType, To(w, z),
         UNCHANGED <<handleVars, init, snd, quit, sends>>,
         \A c \in Contexts : KeptQueue(c),
         \A u \in Workers : u # w => held'[u] = held[u],
         \A u \in Threads : u # w => drop'[u] = drop[u],
         \/ s \notin {"length", "call"} /\ z \notin {"length", "call"}
         \/ s \in {"length", "call"} /\ z \in {"length", "call"} /\ held'[w] = held[w]
  PROVE  Refines
<1>1. /\ pc' \in [Workers -> PcType] /\ pc'[w] = z /\ pc[w] = s
      /\ \A u \in Workers : u # w => pc'[u] = pc[u]
  BY ToEffect, InLoop
<1>2. \A u \in Workers, c \in Contexts : AtWork(u, c)' <=> AtWork(u, c)
  BY <1>1 DEF AtWork
<1>3. \A c \in Contexts : SameQueue(c) /\ SameStatus(c)
  BY DEF KeptQueue, SameQueue, SameStatus, Found, Size, handleVars
<1>4. \A t \in Threads : SameSend(t)
  BY SendsStay, InLoop
<1>5. sends' <= MaxSends /\ quit' = quit
  BY DEF BoxInv
<1> QED
  BY <1>2, <1>3, <1>4, <1>5, Stutter

LEMMA QueuesStay ==
  ASSUME UNCHANGED queue
  PROVE  \A c \in Contexts : KeptQueue(c)
  BY DEF KeptQueue, SameQueue

-----------------------------------------------------------------------------
(* Steps that no service sees.                                             *)

LEMMA LoopRefines ==
  ASSUME IInv, IInv', BoxInv, NEW w \in Workers,
         \/ Fetch(w) \/ Again(w) \/ Sleep(w) \/ Leave(w) \/ GrabContext(w)
         \/ ReadLength(w) \/ LetGo(w) \/ Look(w) \/ Swap(w) \/ Keep(w)
  PROVE  Refines
<1> DEFINE Moved(s, z) ==
      /\ WorkerAt(w, s) /\ To(w, z)
      /\ \/ s \notin {"length", "call"} /\ z \notin {"length", "call"}
         \/ s \in {"length", "call"} /\ z \in {"length", "call"} /\ held'[w] = held[w]
<1> DEFINE Others ==
      /\ UNCHANGED <<queue, handleVars, init, snd, quit, sends>>
      /\ \A u \in Workers : u # w => held'[u] = held[u]
      /\ \A u \in Threads : u # w => drop'[u] = drop[u]
<1>1. held \in [Workers -> Ctx] /\ drop \in [Threads -> Ctx] /\ w \in Threads
  BY Sets DEF IInv, TypeInv, WorkerType, CallType
<1>2. ASSUME NEW s, NEW z \in PcType, Moved(s, z), Others PROVE Refines
  BY <1>2, WorkerStutter, QueuesStay
<1> HIDE DEF Moved
<1>3. CASE Fetch(w)
  <2>1. Others
    BY <1>1, <1>3 DEF Fetch, ctxVars, callVars, bounds
  <2>2. PICK z \in {"grab", "tired"} : To(w, z)
    BY <1>3 DEF Fetch
  <2>3. z \in PcType /\ Moved("idle", z)
    BY <1>3, <2>2 DEF Fetch, Moved, PcType
  <2> QED BY <1>2, <2>1, <2>3
<1>4. CASE Again(w)
  <2>1. Others
    BY <1>1, <1>4 DEF Again, ctxVars, callVars, bounds, mqVars
  <2>2. "grab" \in PcType /\ Moved("idle", "grab")
    BY <1>4 DEF Again, Moved, PcType
  <2> QED BY <1>2, <2>1, <2>2
<1>5. CASE Sleep(w)
  <2>1. Others
    BY <1>1, <1>5 DEF Sleep, ctxVars, callVars, bounds, mqVars
  <2>2. PICK z \in {"idle", "asleep"} : To(w, z)
    BY <1>5 DEF Sleep
  <2>3. z \in PcType /\ Moved("tired", z)
    BY <1>5, <2>2 DEF Sleep, Moved, PcType
  <2> QED BY <1>2, <2>1, <2>3
<1>6. CASE Leave(w)
  <2>1. Others
    BY <1>1, <1>6 DEF Leave, ctxVars, callVars, bounds, mqVars
  <2>2. "over" \in PcType /\ Moved("idle", "over")
    BY <1>6 DEF Leave, Moved, PcType
  <2> QED BY <1>2, <2>1, <2>2
<1>7. CASE GrabContext(w)
  <2>1. Others
    BY <1>1, <1>7 DEF GrabContext, bounds, mqVars
  <2>2. PICK z \in {"first", "idle"} : To(w, z)
    BY <1>7 DEF GrabContext
  <2>3. z \in PcType /\ Moved("grab", z)
    BY <1>7, <2>2 DEF GrabContext, Moved, PcType, AtContext
  <2> QED BY <1>2, <2>1, <2>3
<1>8. CASE ReadLength(w)
  <2>1. Others /\ held' = held
    BY <1>1, <1>8 DEF ReadLength, ctxVars, callVars, bounds, mqVars
  <2>2. "call" \in PcType /\ Moved("length", "call")
    BY <1>8, <2>1 DEF ReadLength, Moved, PcType, AtContext
  <2> QED BY <1>2, <2>1, <2>2
<1>9. CASE LetGo(w)
  <2>1. Others
    BY <1>1, <1>9 DEF LetGo, bounds, mqVars
  <2>2. "idle" \in PcType /\ Moved("empty", "idle")
    BY <1>9 DEF LetGo, Moved, PcType
  <2> QED BY <1>2, <2>1, <2>2
<1>10. CASE Look(w)
  <2>1. Others
    BY <1>1, <1>10 DEF Look, ctxVars, callVars, bounds
  <2>2. PICK z \in {"swap", "keep"} : To(w, z)
    BY <1>10 DEF Look
  <2>3. z \in PcType /\ Moved("look", z)
    BY <1>10, <2>2 DEF Look, Moved, PcType, AtContext
  <2> QED BY <1>2, <2>1, <2>3
<1>11. CASE Swap(w)
  <2>1. Others
    BY <1>1, <1>11 DEF Swap, ctxVars, callVars, bounds
  <2>2. "keep" \in PcType /\ Moved("swap", "keep")
    BY <1>11 DEF Swap, Moved, PcType, AtContext
  <2> QED BY <1>2, <2>1, <2>2
<1>12. CASE Keep(w)
  <2>1. Others
    BY <1>1, <1>12 DEF Keep, bounds, mqVars
  <2>2. "idle" \in PcType /\ Moved("keep", "idle")
    BY <1>12 DEF Keep, Moved, PcType
  <2> QED BY <1>2, <2>1, <2>2
<1> QED
  BY <1>3, <1>4, <1>5, <1>6, <1>7, <1>8, <1>9, <1>10, <1>11, <1>12

LEMMA PopNothingRefines ==
  ASSUME IInv, IInv', BoxInv, NEW w \in Workers, PopNothing(w)
  PROVE  Refines
<1>1. PICK s \in {"first", "next"} : WorkerAt(w, s)
  BY DEF PopNothing
<1>2. /\ MqPopEmpty(held[w]) /\ To(w, "empty")
      /\ UNCHANGED <<handleVars, ctxVars, held, rest, quit, callVars, bounds>>
  BY DEF PopNothing
<1>3. held[w] \in Contexts /\ "empty" \in PcType
  BY <1>1, InLoop DEF LoopInv, AtContext, PcType
<1>4. \A c \in Contexts : KeptQueue(c)
  <2>1. /\ \A c \in Contexts : c # held[w] => queue'[c] = queue[c]
        /\ queue'[held[w]].state = queue[held[w]].state
        /\ queue'[held[w]].release = queue[held[w]].release
        /\ queue'[held[w]].msgs = <<>> /\ queue[held[w]].msgs = <<>>
    BY <1>2, <1>3, PopEmptyEffect DEF IInv, TypeInv, MqPopEmpty
  <2> QED
    BY <2>1 DEF KeptQueue, SameQueue
<1> QED
  BY <1>1, <1>2, <1>3, <1>4, WorkerStutter DEF ctxVars, callVars, bounds

LEMMA CallRefines ==
  ASSUME IInv, IInv', BoxInv, NEW t \in Threads,
         \/ PushDone(t) \/ ReleaseLater(t) \/ Dropped(t) \/ RetireEnd(t) \/ LaunchRelease(t)
         \/ LaunchPush(t) \/ LaunchReport(t) \/ LaunchFailed(t) \/ LaunchRetired(t) \/ LaunchDrop(t)
  PROVE  Refines
<1> USE DEF mqVars, handleVars, ctxVars, bounds
<1>1. sends <= MaxSends /\ snd \in [Threads -> SndType] /\ drop \in [Threads -> Ctx]
  BY DEF BoxInv, IInv, TypeInv, CallType
<1>2. CASE PushDone(t)
  <2>1. /\ UNCHANGED <<queue, workerVars, slot, handle, init, sends, drop>>
        /\ snd' = [snd EXCEPT ![t] = NoSnd] /\ snd[t].step = "release"
    BY <1>2 DEF PushDone
  <2>2. snd'[t] = NoSnd /\ \A u \in Threads : u # t => snd'[u] = snd[u]
    BY <1>1, <2>1
  <2>3. \A u \in Threads : SameSend(u)
    BY <2>1, <2>2, SndFields DEF BoxInv, SendHolds, SameSend, Answers
  <2> QED
    BY <1>1, <2>1, <2>3, CallStutter, QueuesStay
<1>3. CASE ReleaseLater(t)
  <2>1. /\ UNCHANGED <<queue, workerVars, slot, handle, init, sends, snd>>
        /\ drop' = [drop EXCEPT ![t] = 0] /\ snd[t] = NoSnd
    BY <1>3 DEF ReleaseLater, MqReleaseLater, NotPushing
  <2>2. \A u \in Threads : SameSend(u)
    BY <1>1, <2>1, SendsStay
  <2> QED
    BY <1>1, <2>1, <2>2, CallStutter, QueuesStay
<1>4. CASE Dropped(t)
  <2>1. /\ UNCHANGED <<workerVars, slot, handle, init, sends, snd>>
        /\ drop' = [drop EXCEPT ![t] = 0] /\ snd[t] = NoSnd
        /\ drop[t] \in Contexts /\ MqFree(drop[t])
    BY <1>1, <1>4 DEF Dropped, NotPushing, Ctx
  <2>2. \A u \in Threads : SameSend(u)
    BY <1>1, <2>1, SendsStay
  <2>3. \A c \in Contexts : KeptQueue(c)
    <3>1. /\ \A c \in Contexts : c # drop[t] => queue'[c] = queue[c]
          /\ queue'[drop[t]].state = "freed"
          /\ queue'[drop[t]].release /\ queue[drop[t]].release
      BY <2>1, FreeEffect DEF IInv, TypeInv
    <3>2. queue'[drop[t]].msgs = queue[drop[t]].msgs
      BY <2>1 DEF MqFree, IInv, TypeInv, MqType, QueueType
    <3>3. queue[drop[t]].release = TRUE /\ queue'[drop[t]].release = TRUE
      BY <2>1, <3>1, QueueFields DEF IInv, TypeInv, MqType
    <3>4. queue[drop[t]].state = "live"
      BY <2>1, Placed DEF Drops
    <3> QED
      BY <3>1, <3>2, <3>3, <3>4 DEF KeptQueue, SameQueue
  <2> QED
    BY <1>1, <2>1, <2>2, <2>3, CallStutter
<1>5. CASE \/ RetireEnd(t) \/ LaunchRelease(t) \/ LaunchPush(t) \/ LaunchReport(t)
           \/ LaunchFailed(t) \/ LaunchRetired(t)
  <2>1. UNCHANGED <<queue, workerVars, slot, handle, init, sends, snd, drop>>
    BY <1>5 DEF RetireEnd, LaunchRelease, LaunchPush, LaunchReport, LaunchFailed, LaunchRetired
  <2>2. \A u \in Threads : SameSend(u)
    BY <1>1, <2>1, SendsStay
  <2> QED
    BY <1>1, <2>1, <2>2, CallStutter, QueuesStay
<1>6. CASE LaunchDrop(t)
  <2>1. /\ UNCHANGED <<queue, workerVars, slot, handle, init, sends, snd>>
        /\ drop' = [drop EXCEPT ![t] = op[t].c] /\ snd[t] = NoSnd
    BY <1>6 DEF LaunchDrop, At, NotDropping, NotPushing
  <2>2. \A u \in Threads : SameSend(u)
    BY <1>1, <2>1, SendsStay
  <2> QED
    BY <1>1, <2>1, <2>2, CallStutter, QueuesStay
<1> QED
  BY <1>2, <1>3, <1>4, <1>5, <1>6

LEMMA WakeRefines ==
  ASSUME IInv, IInv', BoxInv, Wake
  PROVE  Refines
<1>1. PICK w \in Workers : pc[w] = "asleep" /\ To(w, "idle")
  BY DEF Wake
<1>2. UNCHANGED <<queue, slot, handle, init, held, quit, snd, drop, sends>>
  BY DEF Wake, mqVars, handleVars, ctxVars, callVars, bounds
<1>3. pc'[w] = "idle" /\ \A u \in Workers : u # w => pc'[u] = pc[u]
  BY <1>1 DEF To, IInv, TypeInv, WorkerType
<1>4. \A u \in Workers, c \in Contexts : AtWork(u, c)' <=> AtWork(u, c)
  BY <1>1, <1>2, <1>3 DEF AtWork
<1>5. \A c \in Contexts : SameQueue(c) /\ SameStatus(c)
  BY <1>2 DEF SameQueue, SameStatus, Found, Size
<1>6. \A t \in Threads : SameSend(t)
  BY <1>2, SendsStay
<1>7. sends' <= MaxSends /\ quit' = quit
  BY <1>2 DEF BoxInv
<1> QED
  BY <1>4, <1>5, <1>6, <1>7, Stutter

\* Who knows its handle is found as long as it is in the table.
LEMMA FoundIs ==
  ASSUME IInv, IInv', NEW c \in Contexts
  PROVE  /\ Found(c) <=> handle[c] # 0 /\ Listed(c) # 0
         /\ Found(c)' <=> handle'[c] # 0 /\ Listed(c)' # 0
<1>0. c # 0
  BY ServiceAssumption
<1>1. Found(c) <=> handle[c] # 0 /\ Listed(c) # 0
  <2>1. TableType /\ TableInv
    BY DEF IInv, TypeInv
  <2>2. /\ DOMAIN slot = 0..Size - 1 /\ (Listed(c) = 0 <=> InTable(c) = {})
        /\ handle[c] % Size \in 0..Size - 1
    BY <2>1, TableFinite, ModRange DEF TableType
  <2>3. ASSUME handle[c] # 0, NEW i \in InTable(c) PROVE Found(c)
    BY <1>0, <2>1, <2>2, <2>3 DEF InTable, TableInv, Found
  <2> QED
    BY <2>2, <2>3 DEF Found, InTable
<1>2. Found(c)' <=> handle'[c] # 0 /\ Listed(c)' # 0
  <2>1. TableType' /\ TableInv'
    BY DEF IInv, TypeInv
  <2>2. /\ DOMAIN slot' = 0..Size' - 1 /\ handle'[c] % Size' \in 0..Size' - 1
        /\ Size' \in Nat \ {0}
    BY <2>1, ModRange DEF TableType
  <2>3. Listed(c)' = 0 <=> InTable(c)' = {}
    <3>1. IsFiniteSet(0..Size' - 1) /\ InTable(c)' \subseteq 0..Size' - 1
      BY <2>2, FS_Interval DEF InTable
    <3>2. IsFiniteSet(InTable(c)')
      BY <3>1, FS_Subset
    <3> QED
      BY <3>2, CountNone DEF Listed
  <2>4. ASSUME handle'[c] # 0, NEW i \in InTable(c)' PROVE Found(c)'
    BY <1>0, <2>1, <2>2, <2>4 DEF InTable, TableInv, Found
  <2> QED
    BY <2>2, <2>3, <2>4 DEF Found, InTable
<1> QED
  BY <1>1, <1>2

\* Nothing but the status of d changes: it opens, closes, begins or dies.
LEMMA StatusStep ==
  ASSUME IInv, IInv', BoxInv, NEW d \in Contexts, quit' = quit, sends' <= MaxSends,
         \A c \in Contexts : SameQueue(c) \/ (c = d /\ QueueHolds(d)' /\ queue'[d].msgs = queue[d].msgs),
         \A c \in Contexts : c # d => SameStatus(c),
         \A t \in Threads : SameSend(t),
         \A w \in Workers, c \in Contexts : AtWork(w, c)' <=> AtWork(w, c),
         \/ statusOf'[d] = statusOf[d]
         \/ statusOf[d] = "none" /\ statusOf'[d] = "starting"
         \/ statusOf[d] = "starting" /\ statusOf'[d] = "open"
         \/ statusOf[d] \in {"starting", "open"} /\ statusOf'[d] = "closed"
         \/ /\ statusOf[d] \in {"starting", "closed"} /\ statusOf'[d] = "dead"
            /\ \A w \in Workers : ~AtWork(w, d)
  PROVE  Refines
<1>1. boxOf' = boxOf
  BY DEF boxOf, SameQueue
<1>2. busyOf' = busyOf /\ answersOf' = answersOf
  BY BusySame, AnswersSame
<1>3. statusOf' = [statusOf EXCEPT ![d] = statusOf'[d]]
  BY StatusChange DEF IInv
<1>4. BoxInv'
  BY DEF BoxInv, SameQueue, QueueHolds, SameSend
<1>5. CASE statusOf'[d] = statusOf[d]
  <2>1. statusOf' = statusOf
    BY <1>3, <1>5 DEF statusOf
  <2> QED
    BY <1>1, <1>2, <1>4, <2>1 DEF Refines, Boxes!vars
<1>6. CASE statusOf[d] = "none" /\ statusOf'[d] = "starting"
  <2>1. Boxes!Begin(d)
    BY <1>1, <1>2, <1>3, <1>6 DEF Boxes!Begin
  <2> QED
    BY <1>4, <2>1 DEF Refines, Boxes!Next
<1>7. CASE statusOf[d] = "starting" /\ statusOf'[d] = "open"
  <2>1. Boxes!Open(d)
    BY <1>1, <1>2, <1>3, <1>7 DEF Boxes!Open
  <2> QED
    BY <1>4, <2>1 DEF Refines, Boxes!Next
<1>8. CASE statusOf[d] \in {"starting", "open"} /\ statusOf'[d] = "closed"
  <2>1. Boxes!Close(d)
    BY <1>1, <1>2, <1>3, <1>8 DEF Boxes!Close
  <2> QED
    BY <1>4, <2>1 DEF Refines, Boxes!Next
<1>9. CASE /\ statusOf[d] \in {"starting", "closed"} /\ statusOf'[d] = "dead"
           /\ \A w \in Workers : ~AtWork(w, d)
  <2>1. ~busyOf[d]
    BY <1>9 DEF busyOf, AtWork
  <2>2. Boxes!Die(d)
    BY <1>1, <1>2, <1>3, <1>9, <2>1 DEF Boxes!Die
  <2> QED
    BY <1>4, <2>2 DEF Refines, Boxes!Next
<1> QED
  BY <1>5, <1>6, <1>7, <1>8, <1>9

\* A service is taken out of the table.
LEMMA RemoveRefines ==
  ASSUME IInv, IInv', BoxInv, NEW d \in Contexts, Remove(d),
         UNCHANGED <<queue, workerVars, init, drop, snd, sends>>
  PROVE  Refines
<1>1. /\ handle' = handle /\ Listed(d)' = 0
      /\ \A c \in Contexts : c # d => Listed(c)' = Listed(c)
  BY RemoveEffect DEF One
<1>2. \A c \in Contexts : SameQueue(c)
  BY DEF SameQueue
<1>3. \A c \in Contexts : c # d => SameStatus(c)
  BY <1>1, FoundIs DEF SameStatus
<1>4. \A t \in Threads : SameSend(t)
  BY SendsStay
<1>5. \A w \in Workers, c \in Contexts : AtWork(w, c)' <=> AtWork(w, c)
  BY DEF AtWork, workerVars
<1>6. Found(d) /\ ~Found(d)'
  BY <1>1, FoundIs DEF Remove
<1>7. queue[d].state = "live" /\ ~queue[d].release
  BY <1>6, Referred
<1>8. statusOf[d] \in {"starting", "open"} /\ statusOf'[d] = "closed"
  BY <1>6, <1>7, StatusIs DEF IInv
<1>9. quit' = quit /\ sends' <= MaxSends
  BY DEF workerVars, BoxInv
<1> QED
  BY <1>2, <1>3, <1>4, <1>5, <1>8, <1>9, StatusStep

LEMMA RetireRefines ==
  ASSUME IInv, IInv', BoxInv, NEW t \in Threads,
         LaunchRetire(t) \/ \E d \in Contexts : RetireStart(t, d)
  PROVE  Refines
<1> USE DEF mqVars, handleVars, ctxVars, bounds
<1>1. CASE \E d \in Contexts : RetireStart(t, d)
  <2>1. PICK d \in Contexts : RetireStart(t, d)
    BY <1>1
  <2> QED
    BY <2>1, RemoveRefines DEF RetireStart
<1>2. CASE LaunchRetire(t)
  <2>1. op[t].c \in Contexts
    BY <1>2, OpFields DEF LaunchRetire, At, IInv, TypeInv, CallType
  <2>2. UNCHANGED <<queue, workerVars, init, drop, snd, sends>>
    BY <1>2 DEF LaunchRetire
  <2>3. CASE Found(op[t].c)
    <3>1. Remove(op[t].c)
      BY <1>2, <2>3 DEF LaunchRetire
    <3> QED
      BY <2>1, <2>2, <3>1, RemoveRefines
  <2>4. CASE ~Found(op[t].c)
    <3>1. UNCHANGED handleVars
      BY <1>2, <2>4 DEF LaunchRetire
    <3> QED
      BY <2>2, <3>1, SendsStay, QueuesStay, CallStutter DEF BoxInv
  <2> QED
    BY <2>3, <2>4
<1> QED
  BY <1>1, <1>2

LEMMA LaunchRefines ==
  ASSUME IInv, IInv', BoxInv, NEW t \in Threads, NEW d \in Contexts, Launch(t, d)
  PROVE  Refines
<1>1. /\ InCallback(t) /\ t \in Workers /\ held[t] \in Launchers
      /\ queue[d].state = "none"
      /\ UNCHANGED <<mqVars, init, workerVars, drop, snd, rel, bounds>>
  BY DEF Launch
<1>2. PICK h \in handleIndex..handleIndex + Size : Register(d, h)
  BY DEF Launch
<1>3. pc[t] = "call" /\ op[t] = NoOp
  BY <1>1, ServiceAssumption DEF InCallback, NotDropping, NotPushing
<1>4. \A u \in Threads : op[u].kind # "launch"
  <2> SUFFICES ASSUME NEW u \in Threads, op[u].kind = "launch" PROVE FALSE
    OBVIOUS
  <2>1. u = t
    BY <1>1, <1>3, OneLauncher
  <2> QED
    BY <1>3, <2>1, OpFields
<1>5. handle[d] = 0
  BY <1>1 DEF IInv, TableInv
<1>6. handle' = handle /\ \A c \in Contexts : c # d => Listed(c)' = Listed(c)
  BY <1>2, <1>4, <1>5, RegisterEffect
<1>7. \A c \in Contexts : SameQueue(c) /\ SameStatus(c)
  BY <1>1, <1>5, <1>6, FoundIs DEF SameQueue, SameStatus, mqVars
<1>8. \A u \in Threads : SameSend(u)
  BY <1>1, SendsStay
<1>9. \A w \in Workers, c \in Contexts : AtWork(w, c)' <=> AtWork(w, c)
  BY <1>1 DEF AtWork, workerVars
<1>10. quit' = quit /\ sends' <= MaxSends
  BY <1>1 DEF workerVars, bounds, BoxInv
<1> QED
  BY <1>7, <1>8, <1>9, <1>10, Stutter

LEMMA LearnRefines ==
  ASSUME IInv, IInv', BoxInv, NEW t \in Threads, LaunchLearn(t)
  PROVE  Refines
<1>0. PICK d \in Contexts : d = op[t].c
  BY OpFields DEF LaunchLearn, At, IInv, TypeInv, CallType
<1>1. /\ op[t].kind = "launch" /\ op[t].step = "learn" /\ d \in Contexts
      /\ handle' = [handle EXCEPT ![d] = op[t].h] /\ queue' = [queue EXCEPT ![d] = NewQueue]
      /\ UNCHANGED <<slot, init, workerVars, drop, snd, sends>>
  BY <1>0, OpFields DEF LaunchLearn, At, LearnHandle, ctxVars, bounds, IInv, TypeInv, CallType
<1>2. op[t].h # 0 /\ queue[d].state = "none" /\ op[t].h \in Nat
  BY <1>0, <1>1, OpFields DEF IInv, TableInv, CallInv, TypeInv, CallType
<1>3. /\ \A c \in Contexts : c # d => queue'[c] = queue[c] /\ handle'[c] = handle[c]
      /\ queue'[d] = NewQueue /\ handle'[d] = op[t].h
  BY <1>1 DEF IInv, TypeInv, MqType, TableType
<1>4. queue[d].msgs = <<>> /\ queue'[d].msgs = <<>> /\ ~queue'[d].release /\ queue'[d].state = "live"
  BY <1>1, <1>2, <1>3, QueueFields DEF BoxInv, QueueHolds
<1>5. \A c \in Contexts : c # d => SameQueue(c) /\ SameStatus(c)
  BY <1>1, <1>3 DEF SameQueue, SameStatus, Found, Size
<1>6. QueueHolds(d)'
  BY <1>4 DEF QueueHolds
<1>7. Found(d)' /\ ~init'[d]
  <2>1. Listed(d)' = Listed(d)
    BY <1>1 DEF Listed, InTable
  <2>2. Listed(d) # 0
    <3>1. slot[op[t].h % Size] = d /\ op[t].h % Size \in 0..Size - 1
      BY <1>0, <1>1, <1>2, ModRange DEF IInv, TableInv, TypeInv, TableType
    <3>2. op[t].h % Size \in InTable(d)
      BY <1>1, <3>1, TableFinite DEF InTable, IInv, TypeInv
    <3> QED
      BY <1>1, <3>2, TableFinite DEF IInv, TypeInv
  <2>3. ~init[d]
    BY <1>1, <1>2 DEF IInv, CtxInv, AliveInv
  <2> QED
    BY <1>1, <1>2, <1>3, <2>1, <2>2, <2>3, FoundIs
<1>8. statusOf[d] = "none" /\ statusOf'[d] = "starting"
  BY <1>1, <1>2, <1>4, <1>7, StatusIs DEF IInv
<1>9. \A u \in Threads : SameSend(u)
  BY <1>1, SendsStay
<1>10. \A w \in Workers, c \in Contexts : AtWork(w, c)' <=> AtWork(w, c)
  BY <1>1 DEF AtWork, workerVars
<1>11. quit' = quit /\ sends' <= MaxSends
  BY <1>1 DEF workerVars, BoxInv
<1> QED
  BY <1>1, <1>4, <1>5, <1>6, <1>8, <1>9, <1>10, <1>11, StatusStep

LEMMA ReadyRefines ==
  ASSUME IInv, IInv', BoxInv, NEW t \in Threads, LaunchReady(t)
  PROVE  Refines
<1> DEFINE d == op[t].c
<1>1. /\ d \in Contexts /\ init' = [init EXCEPT ![d] = TRUE]
      /\ UNCHANGED <<queue, slot, handle, workerVars, drop, snd, sends>>
  BY OpFields DEF LaunchReady, At, mqVars, handleVars, bounds, IInv, TypeInv, CallType
<1> HIDE DEF d
<1>2. init'[d] /\ \A c \in Contexts : c # d => init'[c] = init[c]
  BY <1>1 DEF IInv, TypeInv, CtxType
<1>3. \A c \in Contexts : SameQueue(c) /\ (c # d => SameStatus(c)) /\ (Found(c)' <=> Found(c))
  BY <1>1, <1>2 DEF SameQueue, SameStatus, Found, Size
<1>4. statusOf'[d] = statusOf[d] \/ (statusOf[d] = "starting" /\ statusOf'[d] = "open")
  BY <1>1, <1>2, <1>3, StatusIs DEF IInv
<1>5. \A u \in Threads : SameSend(u)
  BY <1>1, SendsStay
<1>6. \A w \in Workers, c \in Contexts : AtWork(w, c)' <=> AtWork(w, c)
  BY <1>1 DEF AtWork, workerVars
<1>7. quit' = quit /\ sends' <= MaxSends
  BY <1>1 DEF workerVars, BoxInv
<1> QED
  BY <1>1, <1>3, <1>4, <1>5, <1>6, <1>7, StatusStep

LEMMA DeleteRefines ==
  ASSUME IInv, IInv', BoxInv, NEW t \in Threads, Delete(t)
  PROVE  Refines
<1> DEFINE d == rel[t]
<1>1. /\ d \in Contexts /\ MqMarkRelease(d)
      /\ UNCHANGED <<slot, handle, init, workerVars, drop, snd, sends>>
  BY DEF Delete, handleVars, bounds, IInv, TypeInv, CallType, Ctx
<1>2. ref[d] = 0 /\ alive[d] /\ Listed(d) = 0 /\ Used(d) = 0
  <2>1. ref[d] = 0 /\ alive[d] /\ ref[d] = Listed(d) + Used(d)
    BY <1>1 DEF IInv, CtxInv, RelInv, RefInv
  <2>2. Listed(d) \in Nat /\ Used(d) \in Nat
    BY <1>1, TableFinite, CountTypes DEF IInv, TypeInv
  <2> QED
    BY <2>1, <2>2
<1>3. \A w \in Workers : ~AtWork(w, d)
  <2> SUFFICES ASSUME NEW w \in Workers, AtWork(w, d) PROVE FALSE
    OBVIOUS
  <2>1. w \in Threads /\ Works(w, d)
    BY Sets DEF AtWork, Works, AtContext
  <2> QED
    BY <1>2, <2>1, Counts
<1>4. /\ \A c \in Contexts : c # d => queue'[c] = queue[c]
      /\ queue'[d].state = queue[d].state /\ queue'[d].release
      /\ queue'[d].msgs = queue[d].msgs
  BY <1>1, MarkEffect DEF IInv, TypeInv
<1>5. queue[d].state # "none"
  <2> SUFFICES ASSUME queue[d].state = "none" PROVE FALSE
    OBVIOUS
  <2>1. PICK u \in Threads : Learns(u, d)
    BY <1>1, <1>2 DEF IInv, CtxInv, AliveInv
  <2>2. Ends(u, d)
    BY <2>1 DEF Learns, Ends
  <2> QED
    BY <1>2, <2>2, Counts
<1>6. statusOf[d] \in {"closed", "dead"} /\ statusOf'[d] = "dead"
  <2>1. ~Found(d)
    BY <1>1, <1>2, FoundIs
  <2> QED
    BY <1>1, <1>4, <1>5, <2>1, StatusIs DEF IInv
<1>7. \A c \in Contexts : SameQueue(c) /\ (c # d => SameStatus(c))
  BY <1>1, <1>4 DEF SameQueue, SameStatus, Found, Size
<1>8. \A u \in Threads : SameSend(u)
  BY <1>1, SendsStay
<1>9. \A w \in Workers, c \in Contexts : AtWork(w, c)' <=> AtWork(w, c)
  BY <1>1 DEF AtWork, workerVars
<1>10. quit' = quit /\ sends' <= MaxSends
  BY <1>1 DEF workerVars, BoxInv
<1> HIDE DEF d
<1> QED
  BY <1>1, <1>3, <1>6, <1>7, <1>8, <1>9, <1>10, StatusStep

LEMMA MessageIs == Boxes!Message = BoxMsg
  BY DEF Boxes!Message, BoxMsg, Ctx

LEMMA PushAll ==
  ASSUME IInv, BoxInv, NEW d \in Contexts, NEW m \in BoxMsg, MqPush(d, m), queue[d].state # "none"
  PROVE  /\ \A c \in Contexts : QueueHolds(c)'
         /\ boxOf' = [boxOf EXCEPT ![d] = Append(boxOf[d], m)]
         /\ \A c \in Contexts : /\ queue'[c].release = queue[c].release
                                /\ queue'[c].state = queue[c].state
<1>1. m \in Msg
  BY ServiceAssumption DEF BoxMsg, Msg
<1>2. /\ \A c \in Contexts : c # d => queue'[c] = queue[c]
      /\ queue'[d].state = queue[d].state /\ queue'[d].release = queue[d].release
      /\ queue'[d].msgs = Append(queue[d].msgs, m)
  BY <1>1, PushEffect DEF IInv, TypeInv
<1>3. queue'[d].msgs \in Seq(BoxMsg)
  BY <1>2 DEF BoxInv, QueueHolds
<1>4. \A c \in Contexts : QueueHolds(c)'
  BY <1>2, <1>3 DEF BoxInv, QueueHolds
<1>5. boxOf' = [boxOf EXCEPT ![d] = queue'[d].msgs]
  BY <1>2, BoxChange DEF SameQueue
<1>6. boxOf[d] = queue[d].msgs
  BY DEF boxOf
<1> QED
  BY <1>2, <1>4, <1>5, <1>6

LEMMA PushSeen ==
  ASSUME IInv, IInv', BoxInv, NEW d \in Contexts, NEW m \in BoxMsg, MqPush(d, m),
         queue[d].state # "none", UNCHANGED <<slot, handle, init, workerVars, sends>>
  PROVE  /\ boxOf' = [boxOf EXCEPT ![d] = Append(boxOf[d], m)]
         /\ busyOf' = busyOf /\ statusOf' = statusOf /\ quit' = quit
         /\ (\A t \in Threads : SendHolds(t)') => BoxInv'
         /\ ~queue[d].release => statusOf[d] \notin {"none", "dead"}
<1>1. \A c \in Contexts : SameStatus(c)
  BY PushAll DEF SameStatus, Found, Size
<1>2. \A w \in Workers, c \in Contexts : AtWork(w, c)' <=> AtWork(w, c)
  BY DEF AtWork, workerVars
<1>3. busyOf' = busyOf /\ statusOf' = statusOf /\ quit' = quit
  BY <1>1, <1>2, BusySame, StatusSame DEF IInv, workerVars
<1>4. (\A t \in Threads : SendHolds(t)') => BoxInv'
  BY PushAll DEF BoxInv
<1>5. ~queue[d].release => statusOf[d] \notin {"none", "dead"}
  BY StatusIs DEF IInv
<1> QED
  BY <1>3, <1>4, <1>5, PushAll

LEMMA LaunchInitRefines ==
  ASSUME IInv, IInv', BoxInv, NEW t \in Threads, LaunchInit(t)
  PROVE  Refines
<1>0. PICK d \in Contexts : d = op[t].c
  BY OpFields DEF LaunchInit, At, IInv, TypeInv, CallType
<1> DEFINE m == Message(d, MaxSends, FALSE)
<1>1. /\ op[t].kind = "launch" /\ op[t].step = "init" /\ MqPush(d, m)
      /\ UNCHANGED <<slot, handle, init, workerVars, drop, snd, sends>>
  BY <1>0 DEF LaunchInit, At, handleVars, ctxVars, bounds
<1>2. m \in BoxMsg /\ ~m.error
  BY ServiceAssumption DEF Message, BoxMsg, Ctx
<1> HIDE DEF m
<1>3. queue[d].state # "none" /\ ~queue[d].release
  <2>1. Ends(t, d)
    BY <1>0, <1>1 DEF Ends
  <2>2. queue[d].state # "none"
    BY <1>0, <1>1 DEF IInv, CallInv
  <2> QED
    BY <2>1, <2>2, Referred
<1>4. \A u \in Threads : SameSend(u)
  BY <1>1, SendsStay
<1>5. answersOf' = answersOf /\ \A u \in Threads : SendHolds(u)'
  BY <1>4, AnswersSame DEF SameSend
<1>6. /\ boxOf' = [boxOf EXCEPT ![d] = Append(boxOf[d], m)]
      /\ busyOf' = busyOf /\ statusOf' = statusOf /\ quit' = quit /\ BoxInv'
      /\ statusOf[d] \notin {"none", "dead"}
  BY <1>1, <1>2, <1>3, <1>5, PushSeen
<1>7. Boxes!Accept(d)
  BY <1>2, <1>5, <1>6, MessageIs DEF Boxes!Accept
<1> QED
  BY <1>6, <1>7 DEF Refines, Boxes!Next

\* Two errors under way are not from the same service.
LEMMA OneDropper ==
  ASSUME IInv, NEW t \in Threads, NEW u \in Threads, drop[t] # 0, drop[u] = drop[t]
  PROVE  u = t
<1>1. PICK c \in Contexts : c = drop[t]
  BY DEF IInv, TypeInv, CallType, Ctx
<1>2. Drops(t, c) /\ Drops(u, c)
  BY <1>1 DEF Drops
<1>3. Sums(c) = 1 /\ InList(c) \in Nat /\ Near(c) \in Nat /\ Making(c) \in Nat
  BY <1>2, Placed
<1>4. /\ IsFiniteSet(InHands(c)) /\ IsFiniteSet(Dropping(c))
      /\ t \in Dropping(c) /\ u \in Dropping(c)
  BY <1>2, Sets, FS_Subset
<1>5. u # t => Cardinality(Dropping(c)) >= 2
  BY <1>4, CountTwo
<1>6. Cardinality(InHands(c)) \in Nat /\ Cardinality(Dropping(c)) \in Nat
  BY <1>4, FS_CardinalityType
<1> QED
  BY <1>3, <1>5, <1>6 DEF Sums, Near

LEMMA PushRefines ==
  ASSUME IInv, IInv', BoxInv, NEW t \in Threads, Push(t)
  PROVE  Refines
<1>0. snd[t] \in SndType /\ snd[t].step = "push" /\ snd[t] # NoSnd /\ snd[t].c \in Contexts
  BY SndFields DEF Push, IInv, TypeInv, CallType
<1>1. PICK d \in Contexts, m \in BoxMsg : d = snd[t].c /\ m = snd[t].m
  BY <1>0 DEF BoxInv, SendHolds
<1>2. /\ MqPush(d, m) /\ UNCHANGED <<slot, handle, init, workerVars, drop, sends>>
  BY <1>1 DEF Push, handleVars, ctxVars, bounds
<1>3. /\ snd'[t].step = "release" /\ snd'[t].m = snd[t].m /\ snd'[t].c = snd[t].c
      /\ \A u \in Threads : u # t => snd'[u] = snd[u]
  <2>1. snd' = [snd EXCEPT ![t].step = "release"]
    BY DEF Push
  <2>2. snd[t] \in [step : {"push", "release"}, c : Contexts, m : Msg]
    BY <1>0 DEF SndType
  <2> QED
    BY <2>1, <2>2 DEF IInv, TypeInv, CallType
<1>4. queue[d].state # "none" /\ ~queue[d].release
  <2>1. Pushes(t, d)
    BY <1>1 DEF Pushes
  <2>2. queue[d].state # "none"
    BY <1>0, <1>1 DEF IInv, CallInv
  <2> QED
    BY <2>1, <2>2, Referred
<1>5. \A u \in Threads : SendHolds(u)'
  BY <1>0, <1>2, <1>3 DEF BoxInv, SendHolds
<1>6. /\ boxOf' = [boxOf EXCEPT ![d] = Append(boxOf[d], m)]
      /\ busyOf' = busyOf /\ statusOf' = statusOf /\ quit' = quit /\ BoxInv'
      /\ statusOf[d] \notin {"none", "dead"}
  BY <1>2, <1>4, <1>5, PushSeen
<1>7. ~Answers(t)' /\ \A u \in Threads : u # t => SameSend(u)
  BY <1>2, <1>3, <1>5 DEF Answers, SameSend
<1>8. CASE ~m.error
  <2>1. \A u \in Threads : SameSend(u)
    BY <1>1, <1>5, <1>7, <1>8 DEF Answers, SameSend
  <2>2. Boxes!Accept(d)
    BY <1>6, <1>8, <2>1, AnswersSame, MessageIs DEF Boxes!Accept
  <2> QED
    BY <1>6, <2>2 DEF Refines, Boxes!Next
<1>9. CASE m.error
  <2> DEFINE Rec(u) == [to |-> snd[u].c, m |-> snd[u].m]
             a == [to |-> d, m |-> m]
  <2>1. Answers(t) /\ Rec(t) = a
    BY <1>0, <1>1, <1>9 DEF Answers
  <2>2. answersOf = {Rec(u) : u \in {v \in Threads : Answers(v)}}
    BY DEF answersOf, Answers
  <2>3. answersOf' = {[to |-> snd'[u].c, m |-> snd'[u].m] : u \in {v \in Threads : Answers(v)'}}
    BY DEF answersOf, Answers
  <2>4. answersOf' = {Rec(u) : u \in {v \in Threads : Answers(v) /\ v # t}}
    BY <1>3, <1>7, <2>3 DEF SameSend
  <2>5. ASSUME NEW u \in Threads, Answers(u), u # t PROVE Rec(u) # a
    <3>1. snd[u] # NoSnd /\ snd[u].m.error
      BY <2>5, SndFields DEF Answers
    <3>2. drop[u] = snd[u].m.from /\ drop[t] = m.from /\ drop[t] # 0
      BY <1>0, <1>1, <1>9, <3>1 DEF BoxInv, SendHolds
    <3>3. drop[u] # drop[t]
      BY <2>5, <3>2, OneDropper
    <3> QED
      BY <3>2, <3>3
  <2> HIDE DEF Rec, a
  <2>6. a \in answersOf /\ answersOf' = answersOf \ {a}
    BY <2>1, <2>2, <2>4, <2>5
  <2>7. a.to = d /\ a.m = m
    BY DEF a
  <2>8. Boxes!Answer(a)
    BY <1>6, <2>6, <2>7 DEF Boxes!Answer
  <2> QED
    BY <1>6, <2>6, <2>8 DEF Refines, Boxes!Next
<1> QED
  BY <1>8, <1>9

-----------------------------------------------------------------------------
LEMMA PopAll ==
  ASSUME IInv, BoxInv, NEW d \in Contexts, NEW m, MqPop(d, m)
  PROVE  /\ \A c \in Contexts : QueueHolds(c)'
         /\ boxOf[d] # <<>> /\ m = Head(boxOf[d]) /\ m \in BoxMsg
         /\ boxOf' = [boxOf EXCEPT ![d] = Tail(boxOf[d])]
         /\ \A c \in Contexts : /\ queue'[c].release = queue[c].release
                                /\ queue'[c].state = queue[c].state
<1>1. /\ \A c \in Contexts : c # d => queue'[c] = queue[c]
      /\ queue'[d].state = queue[d].state /\ queue'[d].release = queue[d].release
  BY PopEffect DEF IInv, TypeInv
<1>2. queue'[d].msgs = Tail(queue[d].msgs) /\ queue[d].msgs # <<>> /\ m = Head(queue[d].msgs)
  BY DEF MqPop, IInv, TypeInv, MqType, QueueType
<1>3. queue'[d].msgs \in Seq(BoxMsg) /\ m \in BoxMsg /\ queue[d].state # "none"
  BY <1>2 DEF BoxInv, QueueHolds
<1>4. \A c \in Contexts : QueueHolds(c)'
  BY <1>1, <1>3 DEF BoxInv, QueueHolds
<1>5. boxOf' = [boxOf EXCEPT ![d] = queue'[d].msgs]
  BY <1>1, BoxChange DEF SameQueue
<1>6. boxOf[d] = queue[d].msgs
  BY DEF boxOf
<1> QED
  BY <1>1, <1>2, <1>3, <1>4, <1>5, <1>6

\* One worker is at a service.
LEMMA OneAtWork ==
  ASSUME IInv, NEW w \in Workers, NEW c \in Contexts, held[w] = c,
         pc[w] \notin {"empty", "keep"}, NEW u \in Workers, AtWork(u, c)
  PROVE  u = w
<1>1. Hands(w, c) /\ Hands(u, c) /\ w \in Threads /\ u \in Threads
  BY Sets DEF Hands, AtWork
<1>2. Sums(c) = 1 /\ InList(c) \in Nat /\ Near(c) \in Nat /\ Making(c) \in Nat
  BY <1>1, Placed
<1>3. u # w => Near(c) >= 2
  BY <1>1, Counts
<1> QED
  BY <1>2, <1>3 DEF Sums

LEMMA PopRefines ==
  ASSUME IInv, IInv', BoxInv, NEW w \in Workers, PopMessage(w)
  PROVE  Refines
<1>1. PICK s \in {"first", "next"} : WorkerAt(w, s)
  BY DEF PopMessage
<1>2. PICK z \in {"length", "call"} : To(w, z)
  BY DEF PopMessage
<1>3. PICK d \in Contexts : d = held[w]
  BY <1>1, InLoop DEF LoopInv, AtContext
<1>4. PICK m : MqPop(d, m)
  BY <1>3 DEF PopMessage
<1>5. UNCHANGED <<slot, handle, init, held, quit, snd, drop, sends>>
  BY DEF PopMessage, handleVars, ctxVars, callVars, bounds
<1>6. /\ pc[w] = s /\ pc'[w] = z /\ \A u \in Workers : u # w => pc'[u] = pc[u]
  BY <1>1, <1>2, InLoop, ToEffect DEF PcType, AtContext
<1>7. \A c \in Contexts : SameStatus(c)
  BY <1>4, <1>5, PopAll DEF SameStatus, Found, Size
<1>8. statusOf' = statusOf
  BY <1>7, StatusSame DEF IInv
<1>9. \A t \in Threads : SameSend(t)
  BY <1>5, SendsStay
<1>10. answersOf' = answersOf /\ BoxInv'
  BY <1>4, <1>5, <1>9, AnswersSame, PopAll DEF BoxInv, SameSend
<1>11. busyOf' = [busyOf EXCEPT ![d] = TRUE]
  <2>1. AtWork(w, d)' /\ \A u \in Workers, c \in Contexts : c # d => (AtWork(u, c)' <=> AtWork(u, c))
    BY <1>3, <1>5, <1>6 DEF AtWork
  <2> QED
    BY <2>1, BusyChange
<1>12. ~busyOf[d]
  <2> SUFFICES ASSUME NEW u \in Workers, AtWork(u, d) PROVE FALSE
    BY DEF busyOf, AtWork
  <2>1. u = w
    BY <1>3, <1>6, OneAtWork
  <2> QED
    BY <1>6, <2>1 DEF AtWork
<1>13. statusOf[d] \in {"open", "closed"}
  <2>1. Works(w, d) /\ w \in Threads
    BY <1>3, <1>6, Sets DEF Works, AtContext
  <2>2. init[d]
    BY <2>1 DEF IInv, CtxInv, StartInv
  <2>3. queue[d].state = "live"
    <3>1. Hands(w, d)
      BY <1>3, <1>6 DEF Hands
    <3> QED
      BY <2>1, <3>1, Placed
  <2>4. ~queue[d].release
    BY <2>1, <2>3, Referred
  <2> QED
    BY <2>2, <2>3, <2>4, StatusIs DEF IInv
<1>14. Boxes!Take(d)
  BY <1>4, <1>5, <1>8, <1>10, <1>11, <1>12, <1>13, PopAll DEF Boxes!Take
<1> QED
  BY <1>10, <1>14 DEF Refines, Boxes!Next

LEMMA ReturnRefines ==
  ASSUME IInv, IInv', BoxInv, NEW w \in Workers, Return(w)
  PROVE  Refines
<1>1. WorkerAt(w, "call") /\ UNCHANGED <<queue, slot, handle, init, held, quit, snd, drop, sends>>
  BY DEF Return, mqVars, handleVars, ctxVars, callVars, bounds
<1>2. PICK z \in {"next", "look"} : To(w, z)
  BY DEF Return
<1>3. PICK d \in Contexts : d = held[w]
  BY <1>1, InLoop DEF LoopInv, AtContext
<1>4. /\ pc[w] = "call" /\ pc'[w] = z /\ \A u \in Workers : u # w => pc'[u] = pc[u]
  BY <1>1, <1>2, InLoop, ToEffect DEF PcType, AtContext
<1>5. \A c \in Contexts : SameQueue(c) /\ SameStatus(c)
  BY <1>1 DEF SameQueue, SameStatus, Found, Size
<1>6. \A t \in Threads : SameSend(t)
  BY <1>1, SendsStay
<1>7. boxOf' = boxOf /\ statusOf' = statusOf /\ answersOf' = answersOf
  BY <1>5, <1>6, BoxSame, StatusSame, AnswersSame DEF IInv
<1>8. BoxInv'
  BY <1>1, <1>5, <1>6 DEF BoxInv, SameQueue, QueueHolds, SameSend
<1>9. AtWork(w, d) /\ busyOf[d]
  BY <1>3, <1>4 DEF AtWork, busyOf
<1>10. busyOf' = [busyOf EXCEPT ![d] = FALSE]
  <2>1. \A u \in Workers, c \in Contexts : c # d => (AtWork(u, c)' <=> AtWork(u, c))
    BY <1>1, <1>3, <1>4 DEF AtWork
  <2>2. ASSUME NEW u \in Workers, AtWork(u, d)' PROVE FALSE
    <3>1. u # w
      BY <1>4, <2>2 DEF AtWork
    <3>2. AtWork(u, d)
      BY <1>1, <1>4, <2>2, <3>1 DEF AtWork
    <3> QED
      BY <1>3, <1>4, <3>1, <3>2, OneAtWork
  <2> QED
    BY <2>1, <2>2, BusyChange
<1>11. Boxes!Finish(d)
  BY <1>1, <1>7, <1>9, <1>10 DEF Boxes!Finish
<1> QED
  BY <1>8, <1>11 DEF Refines, Boxes!Next

LEMMA SendRefines ==
  ASSUME IInv, IInv', BoxInv, NEW t \in Threads, NEW d \in Contexts, Send(t, d)
  PROVE  Refines
<1> DEFINE m == Message(IF t \in Outside THEN 0 ELSE held[t], sends, FALSE)
<1>1. /\ snd[t] = NoSnd /\ Grab(t, d, m) /\ sends' = sends + 1 /\ sends < MaxSends
      /\ UNCHANGED <<queue, slot, handle, init, workerVars, drop>>
  BY DEF Send, InCallback, NotDropping, NotPushing, mqVars, handleVars
<1>2. m \in BoxMsg /\ ~m.error
  <2>1. t \in Outside \/ held[t] \in Ctx
    BY Sets DEF Threads, IInv, TypeInv, WorkerType
  <2>2. sends \in 0..MaxSends
    BY <1>1, ServiceAssumption DEF IInv, TypeInv
  <2> QED
    BY <2>1, <2>2 DEF Message, BoxMsg, Ctx
<1> HIDE DEF m
<1>3. /\ \A u \in Threads : u # t => snd'[u] = snd[u]
      /\ snd'[t] = NoSnd \/ snd'[t].m = m
  BY <1>1 DEF Grab, IInv, TypeInv, CallType
<1>4. ~Answers(t)
  BY <1>1, SndFields DEF Answers
<1>5. \A u \in Threads : SameSend(u)
  <2>1. SameSend(t)
    <3>1. CASE snd'[t] = NoSnd
      BY <1>4, <3>1, SndFields DEF SameSend, SendHolds, Answers
    <3>2. CASE snd'[t].m = m
      BY <1>2, <1>4, <3>2 DEF SameSend, SendHolds, Answers
    <3> QED
      BY <1>3, <3>1, <3>2
  <2>2. ASSUME NEW u \in Threads, u # t PROVE SameSend(u)
    BY <1>1, <1>3, <2>2 DEF BoxInv, SameSend, SendHolds, Answers
  <2> QED
    BY <2>1, <2>2
<1>6. sends' <= MaxSends
  BY <1>1, ServiceAssumption DEF IInv, TypeInv
<1> QED
  BY <1>1, <1>5, <1>6, QueuesStay, CallStutter

LEMMA DropRefines ==
  ASSUME IInv, IInv', BoxInv, NEW t \in Threads, DropMessage(t)
  PROVE  Refines
<1>1. PICK d \in Contexts : d = drop[t]
  BY DEF DropMessage, IInv, TypeInv, CallType, Ctx
<1> DEFINE m == Head(queue[d].msgs)
           a == Message(d, m.n, TRUE)
<1>2. /\ MqPop(d, m) /\ snd[t] = NoSnd /\ queue[d].release /\ d # 0
      /\ IF m.from = 0 THEN UNCHANGED <<snd, ref>> ELSE Grab(t, m.from, a)
      /\ UNCHANGED <<slot, handle, init, workerVars, drop, sends>>
  BY <1>1 DEF DropMessage, NotPushing, handleVars, bounds
<1>3. /\ m \in BoxMsg /\ m = Head(boxOf[d]) /\ boxOf[d] # <<>>
      /\ boxOf' = [boxOf EXCEPT ![d] = Tail(boxOf[d])]
  BY <1>2, PopAll
<1>4. a \in BoxMsg /\ a.error /\ a.from = d
  BY <1>3 DEF Message, BoxMsg, Ctx
<1>5. m.from \in Ctx
  BY <1>3 DEF BoxMsg
<1> HIDE DEF m, a
<1>6. \A c \in Contexts : SameStatus(c)
  BY <1>2, PopAll DEF SameStatus, Found, Size
<1>7. \A w \in Workers, c \in Contexts : AtWork(w, c)' <=> AtWork(w, c)
  BY <1>2 DEF AtWork, workerVars
<1>8. busyOf' = busyOf /\ statusOf' = statusOf /\ quit' = quit
  BY <1>2, <1>6, <1>7, BusySame, StatusSame DEF IInv, workerVars
<1>9. statusOf[d] = "dead"
  <2>1. queue[d].state = "live"
    BY <1>1, <1>2, Placed DEF Drops
  <2> QED
    BY <1>2, <2>1, StatusIs DEF IInv
<1>10. (\A u \in Threads : SendHolds(u)') => BoxInv'
  BY <1>2, PopAll DEF BoxInv
<1>11. ~Answers(t)
  BY <1>2, SndFields DEF Answers
<1>12. CASE snd' = snd /\ (m.from = 0 \/ ~Found(m.from))
  <2>1. \A u \in Threads : SameSend(u)
    BY <1>2, <1>12, SendsStay
  <2>2. answersOf' = answersOf /\ BoxInv'
    BY <1>10, <2>1, AnswersSame DEF SameSend
  <2>3. m.from = 0 \/ statusOf[m.from] # "open"
    BY <1>5, <1>12, StatusIs DEF Ctx, IInv
  <2>4. Boxes!Bounce(d)
    BY <1>3, <1>8, <1>9, <2>2, <2>3 DEF Boxes!Bounce
  <2> QED
    BY <2>2, <2>4 DEF Refines, Boxes!Next
<1>13. CASE m.from # 0 /\ Found(m.from)
  <2>1. snd' = [snd EXCEPT ![t] = [step |-> "push", c |-> m.from, m |-> a]]
    BY <1>2, <1>13 DEF Grab
  <2>2. /\ snd'[t].step = "push" /\ snd'[t].c = m.from /\ snd'[t].m = a
        /\ \A u \in Threads : u # t => snd'[u] = snd[u]
    BY <2>1 DEF IInv, TypeInv, CallType
  <2>3. \A u \in Threads : SendHolds(u)'
    BY <1>1, <1>2, <1>4, <2>2 DEF BoxInv, SendHolds
  <2>4. BoxInv'
    BY <1>10, <2>3
  <2> DEFINE Rec(u) == [to |-> snd[u].c, m |-> snd[u].m]
             b == [to |-> m.from, m |-> a]
  <2>5. answersOf = {Rec(u) : u \in {v \in Threads : Answers(v)}}
    BY DEF answersOf, Answers
  <2>6. answersOf' = {[to |-> snd'[u].c, m |-> snd'[u].m] : u \in {v \in Threads : Answers(v)'}}
    BY DEF answersOf, Answers
  <2>7. Answers(t)' /\ \A u \in Threads : u # t => (Answers(u)' <=> Answers(u))
    BY <1>4, <2>2 DEF Answers
  <2>8. answersOf' = {Rec(u) : u \in {v \in Threads : Answers(v)}} \cup {b}
    <3>1. \A u \in Threads : u # t => [to |-> snd'[u].c, m |-> snd'[u].m] = Rec(u)
      BY <2>2
    <3>2. [to |-> snd'[t].c, m |-> snd'[t].m] = b
      BY <2>2
    <3> HIDE DEF Rec, b
    <3> QED
      BY <1>11, <2>6, <2>7, <3>1, <3>2
  <2>9. b = Boxes!ErrorTo(m, d)
    BY DEF a, Message, Boxes!ErrorTo
  <2>10. answersOf' = answersOf \cup {Boxes!ErrorTo(m, d)}
    BY <2>5, <2>8, <2>9
  <2>11. Boxes!Bounce(d)
    BY <1>3, <1>8, <1>9, <1>13, <2>10 DEF Boxes!Bounce
  <2> QED
    BY <2>4, <2>11 DEF Refines, Boxes!Next
<1> QED
  BY <1>2, <1>12, <1>13 DEF Grab

LEMMA QuitRefines ==
  ASSUME IInv, IInv', BoxInv, Quit
  PROVE  Refines
<1>1. /\ \A c \in Contexts : ~alive[c]
      /\ pc' = [w \in Workers |-> IF pc[w] = "asleep" THEN "idle" ELSE pc[w]]
      /\ UNCHANGED <<queue, slot, handle, init, held, snd, drop, sends>> /\ quit' = TRUE
  BY DEF Quit, mqVars, handleVars, ctxVars, callVars, bounds
<1>2. \A w \in Workers, c \in Contexts : AtWork(w, c)' <=> AtWork(w, c)
  BY <1>1 DEF AtWork
<1>3. \A c \in Contexts : SameQueue(c) /\ SameStatus(c)
  BY <1>1 DEF SameQueue, SameStatus, Found, Size
<1>4. \A t \in Threads : SameSend(t)
  BY <1>1, SendsStay
<1>5. boxOf' = boxOf /\ busyOf' = busyOf /\ statusOf' = statusOf /\ answersOf' = answersOf
  BY <1>2, <1>3, <1>4, BoxSame, BusySame, StatusSame, AnswersSame DEF IInv
<1>6. BoxInv'
  BY <1>1, <1>3, <1>4 DEF BoxInv, SameQueue, QueueHolds, SameSend
<1>7. \A c \in Contexts : statusOf[c] \in {"none", "closed", "dead"}
  <2> SUFFICES ASSUME NEW c \in Contexts PROVE statusOf[c] \in {"none", "closed", "dead"}
    OBVIOUS
  <2>1. ~Found(c)
    BY <1>1, Referred
  <2> QED
    BY <2>1, StatusIs DEF IInv
<1>8. Boxes!Stop
  BY <1>1, <1>5, <1>7 DEF Boxes!Stop
<1> QED
  BY <1>6, <1>8 DEF Refines, Boxes!Next

LEMMA IdleRefines ==
  ASSUME IInv, IInv', BoxInv, UNCHANGED vars
  PROVE  Refines
<1>1. UNCHANGED <<workerVars, slot, handle, init, queue, snd, drop, sends>>
  BY DEF vars, mqVars, handleVars, ctxVars, callVars, bounds
<1> QED
  BY <1>1, SendsStay, QueuesStay, CallStutter DEF BoxInv

LEMMA BoxStep ==
  ASSUME IInv, BoxInv, [Next]_vars
  PROVE  Refines
<1>0. IInv'
  BY Step
<1>1. ASSUME NEW w \in Workers, WorkerStep(w) PROVE Refines
  BY <1>0, <1>1, LoopRefines, PopNothingRefines, PopRefines, ReturnRefines DEF WorkerStep
<1>2. ASSUME NEW t \in Threads, LaunchStep(t) PROVE Refines
  BY <1>0, <1>2, LearnRefines, LaunchInitRefines, CallRefines, ReadyRefines, RetireRefines
  DEF LaunchStep
<1>3. ASSUME NEW t \in Threads, CallStep(t) PROVE Refines
  BY <1>0, <1>2, <1>3, DeleteRefines, PushRefines, CallRefines, DropRefines DEF CallStep
<1>4. ASSUME NEW t \in Threads, Callback(t) PROVE Refines
  BY <1>0, <1>4, SendRefines, RetireRefines, LaunchRefines DEF Callback
<1>5. ASSUME Wake \/ Quit \/ UNCHANGED vars PROVE Refines
  BY <1>0, <1>5, WakeRefines, QuitRefines, IdleRefines
<1> QED
  BY <1>1, <1>3, <1>4, <1>5 DEF Next

LEMMA BoxFirst ==
  ASSUME Init
  PROVE  Boxes!Init /\ BoxInv
<1> DEFINE n == Started
           s == [i \in 1..n |-> i]
<1>0. IInv /\ n \in Nat
  BY First, ServiceAssumption
<1>1. Len(s) = n /\ \A c \in Contexts : (\E i \in 1..Len(s) : s[i] = c) <=> c \in 1..n
  BY <1>0
<1>2. queue = [c \in Contexts |-> IF c \in 1..n THEN NewQueue ELSE NoQueue]
  BY <1>1 DEF Init, MqInit
<1>3. \A c \in Contexts : queue[c] = IF c \in 1..n THEN NewQueue ELSE NoQueue
  BY <1>2
<1>4. \A c \in Contexts : queue[c].msgs = <<>>
  BY <1>3, QueueFields
<1>5. boxOf = [c \in Contexts |-> <<>>]
  BY <1>4 DEF boxOf
<1>6. busyOf = [c \in Contexts |-> FALSE]
  BY DEF Init, busyOf
<1>7. answersOf = {}
  BY SndFields DEF Init, answersOf
<1>8. BoxInv
  <2>1. sends <= MaxSends
    BY ServiceAssumption DEF Init
  <2>2. \A c \in Contexts : QueueHolds(c)
    <3>1. <<>> \in Seq(BoxMsg)
      OBVIOUS
    <3> QED
      BY <1>4, <3>1 DEF QueueHolds
  <2>3. \A t \in Threads : SendHolds(t)
    BY DEF Init, SendHolds
  <2> QED
    BY <2>1, <2>2, <2>3 DEF BoxInv
<1>9. \A c \in Contexts : statusOf[c] \in {"none", "open"}
  <2> SUFFICES ASSUME NEW c \in Contexts PROVE statusOf[c] \in {"none", "open"}
    OBVIOUS
  <2>1. CASE c \notin 1..n
    <3>1. queue[c].state = "none"
      BY <1>3, <2>1, QueueFields
    <3> QED
      BY <3>1 DEF statusOf
  <2>2. CASE c \in 1..n
    <3>1. init[c] = TRUE /\ ref[c] = 1 /\ handle[c] # 0
      <4>1. c \in Nat \ {0} /\ c <= Started
        BY <1>0, <2>2, ServiceAssumption
      <4> QED
        BY <2>2, <4>1 DEF Init, HandleInit
    <3>2. Used(c) = 0
      <4>1. \A t \in Threads : ~Works(t, c) /\ ~Pushes(t, c) /\ ~Ends(t, c)
        BY ServiceAssumption, Sets, SndFields, OpFields DEF Init, Works, Pushes, Ends, AtContext
      <4>2. Working(c) = {} /\ Pushing(c) = {} /\ Ending(c) = {}
        BY <4>1, Sets
      <4> QED
        BY <4>2, FS_EmptySet DEF Used
    <3>3. Listed(c) # 0
      <4>1. Listed(c) \in Nat
        BY <1>0, TableFinite DEF IInv, TypeInv
      <4> QED
        BY <1>0, <3>1, <3>2, <4>1 DEF IInv, CtxInv, RefInv
    <3>4. Found(c)
      <4>1. TableType /\ TableInv /\ c # 0
        BY <1>0, ServiceAssumption DEF IInv, TypeInv
      <4>2. PICK i \in InTable(c) : TRUE
        BY <3>3, <4>1, TableFinite
      <4>3. i \in 0..Size - 1 /\ slot[i] = c
        BY <4>1, <4>2, TableFinite DEF InTable
      <4> QED
        BY <3>1, <4>1, <4>3 DEF TableInv, Found
    <3>5. queue[c].state = "live" /\ ~queue[c].release
      BY <1>3, <2>2, QueueFields
    <3> QED
      BY <3>1, <3>4, <3>5 DEF statusOf
  <2> QED
    BY <2>1, <2>2
<1>10. statusOf \in [Contexts -> {"none", "open"}]
  BY <1>9 DEF statusOf
<1>11. quit = FALSE
  BY DEF Init
<1> QED
  BY <1>5, <1>6, <1>7, <1>8, <1>10, <1>11 DEF Boxes!Init

\* The threads of skynet do what Mailbox says (skynet_server.c, skynet_mq.c,
\* skynet_handle.c): each step of a thread is a step of the boxes or none.  A
\* message is taken once and in order, by a service that is initialised and
\* does nothing else, and what a service leaves behind is answered.
THEOREM ServesBoxes == Spec => Boxes!Spec
<1>1. Init => Boxes!Init /\ BoxInv
  BY BoxFirst
<1>2. IInv /\ BoxInv /\ [Next]_vars => BoxInv' /\ [Boxes!Next]_(Boxes!vars)
  BY BoxStep DEF Refines
<1> QED
  BY <1>1, <1>2, Inductive, PTL DEF Spec, Boxes!Spec
=============================================================================
