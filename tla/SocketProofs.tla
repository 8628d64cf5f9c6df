---------------------------- MODULE SocketProofs ----------------------------
(***************************************************************************)
(* What is proved of Socket for any number of threads, sockets and         *)
(* messages and for messages of any size: the bytes written to a socket    *)
(* that did not fail are whole messages (MessagesWhole), and one that was  *)
(* closed when asked has written all that was due (FlushedBeforeClose).    *)
(*                                                                         *)
(* The argument is about all the bytes of a socket, in the order in which  *)
(* they are to be written: those that are on the wire, the rest of a       *)
(* direct write, the high list and the low list.  Every step either moves  *)
(* bytes along this sequence, or puts a new message where no other is      *)
(* begun; the message is new because each is in one call, in one request   *)
(* or among the bytes of one socket (Fresh), and a direct write finds      *)
(* nothing begun before it because one thread holds the lock and what it   *)
(* has checked under it still holds (Locks).                               *)
(***************************************************************************)
EXTENDS Socket, FiniteSetTheorems, SequenceTheorems, WellFoundedInduction, TLAPS

Byte == [m : Nat, b : 0..Size]

Follows(x, y) ==
  \/ x.b \in {0, Size} /\ y.b \in {0, 1}
  \/ x.b \in 1..Size - 1 /\ y.m = x.m /\ y.b = x.b + 1
Starts(s) == s = <<>> \/ s[1].b \in {0, 1}
Ends(s)   == s = <<>> \/ s[Len(s)].b \in {0, Size}
Runs(s)   == \A j \in 1..Len(s) - 1 : Follows(s[j], s[j + 1])
Chain(s)  == Starts(s) /\ Ends(s) /\ Runs(s)
Once(s)   == \A j, k \in 1..Len(s) : s[j] = s[k] => j = k
MsgsOf(s) == {s[j].m : j \in 1..Len(s)}
Final(s, m) == \E j \in 1..Len(s) : s[j].m = m /\ s[j].b \in {0, Size}

\* A set of numbers that is not empty has a least one.
LEMMA Least ==
  ASSUME NEW S \in SUBSET Nat, S # {}
  PROVE  \E h \in S : \A k \in S : h <= k
<1> DEFINE Below(h) == {k \in Nat : k < h}
           T == {Below(h) : h \in S}
<1>1. ASSUME NEW h \in Nat PROVE Below(h) \in SUBSET Nat /\ IsFiniteSet(Below(h))
  <2>1. Below(h) \subseteq 0..h /\ Below(h) \in SUBSET Nat
    OBVIOUS
  <2>2. IsFiniteSet(0..h)
    BY FS_Interval
  <2> HIDE DEF Below
  <2> QED
    BY <2>1, <2>2, FS_Subset
<1>2. T \subseteq FiniteSubsetsOf(Nat) /\ T # {}
  BY <1>1 DEF FiniteSubsetsOf
<1>3. PICK x \in T : \A y \in T : <<y, x>> \notin StrictSubsetOrdering(Nat)
  <2>1. IsWellFoundedOn(StrictSubsetOrdering(Nat), FiniteSubsetsOf(Nat))
    BY FS_StrictSubsetOrderingWellFounded
  <2> HIDE DEF T
  <2> QED
    BY <1>2, <2>1, WFMin
<1>4. PICK h \in S : x = Below(h)
  OBVIOUS
<1>5. ASSUME NEW k \in S, k < h PROVE FALSE
  <2>1. Below(k) \subseteq x /\ Below(k) # x /\ Below(k) \in SUBSET Nat /\ x \in SUBSET Nat
    <3>1. k \in x /\ k \notin Below(k)
      BY <1>4, <1>5
    <3> QED
      BY <1>4, <1>5, <3>1
  <2>2. Below(k) \in T
    OBVIOUS
  <2> HIDE DEF T, Below
  <2>3. <<Below(k), x>> \in StrictSubsetOrdering(Nat)
    BY <2>1 DEF StrictSubsetOrdering
  <2> QED
    BY <1>3, <2>2, <2>3
<1> QED
  BY <1>5

LEMMA ConcatAt ==
  ASSUME NEW A, NEW s \in Seq(A), NEW t \in Seq(A)
  PROVE  /\ s \o t \in Seq(A)
         /\ Len(s \o t) = Len(s) + Len(t)
         /\ \A j \in 1..Len(s) : (s \o t)[j] = s[j]
         /\ \A j \in 1..Len(t) : (s \o t)[Len(s) + j] = t[j]
         /\ \A j \in 1..Len(s) + Len(t) : j \in 1..Len(s) \/ \E k \in 1..Len(t) : j = Len(s) + k
<1>1. ASSUME NEW j \in 1..Len(s) + Len(t), j \notin 1..Len(s)
      PROVE  j - Len(s) \in 1..Len(t) /\ j = Len(s) + (j - Len(s))
  <2>1. Len(s) \in Nat /\ Len(t) \in Nat
    OBVIOUS
  <2> QED
    BY <1>1, <2>1
<1>2. s \o t \in Seq(A) /\ Len(s \o t) = Len(s) + Len(t)
  BY ConcatProperties
<1>3. \A j \in 1..Len(s) : (s \o t)[j] = s[j]
  OBVIOUS
<1>4. \A j \in 1..Len(t) : (s \o t)[Len(s) + j] = t[j]
  OBVIOUS
<1> QED
  BY <1>1, <1>2, <1>3, <1>4

\* A list of bytes cut in two, as one fact.
Cut(A, s, n, a, b) ==
  a \in Seq(A) /\ b \in Seq(A) /\ Len(a) = n /\ Len(b) = Len(s) - n /\ s = a \o b

LEMMA CutAt ==
  ASSUME NEW A, NEW s \in Seq(A), NEW n \in 0..Len(s)
  PROVE  Cut(A, s, n, SubSeq(s, 1, n), SubSeq(s, n + 1, Len(s)))
<1>1. SubSeq(s, 1, n) \in Seq(A) /\ Len(SubSeq(s, 1, n)) = n
  OBVIOUS
<1>2. SubSeq(s, n + 1, Len(s)) \in Seq(A) /\ Len(SubSeq(s, n + 1, Len(s))) = Len(s) - n
  OBVIOUS
<1>3. \A j \in 1..n : SubSeq(s, 1, n)[j] = s[j]
  OBVIOUS
<1>4. \A j \in 1..Len(s) - n : SubSeq(s, n + 1, Len(s))[j] = s[n + j]
  OBVIOUS
<1> DEFINE t == SubSeq(s, 1, n) \o SubSeq(s, n + 1, Len(s))
<1>5. s = t
  <2>1. /\ t \in Seq(A) /\ Len(t) = Len(s)
        /\ \A j \in 1..n : t[j] = s[j]
        /\ \A j \in 1..Len(s) - n : t[n + j] = s[n + j]
    <3>1. Len(s) \in Nat /\ n + (Len(s) - n) = Len(s)
      OBVIOUS
    <3> DEFINE u == SubSeq(s, 1, n)  v == SubSeq(s, n + 1, Len(s))
    <3>2. /\ u \in Seq(A) /\ Len(u) = n /\ v \in Seq(A) /\ Len(v) = Len(s) - n
          /\ \A j \in 1..n : u[j] = s[j]
          /\ \A j \in 1..Len(s) - n : v[j] = s[n + j]
      BY <1>1, <1>2, <1>3, <1>4
    <3>3. t = u \o v
      OBVIOUS
    <3> HIDE DEF t, u, v
    <3>4. /\ u \o v \in Seq(A)
          /\ Len(u \o v) = Len(u) + Len(v)
          /\ \A j \in 1..Len(u) : (u \o v)[j] = u[j]
          /\ \A j \in 1..Len(v) : (u \o v)[Len(u) + j] = v[j]
      <4>1. u \in Seq(A) /\ v \in Seq(A)
        BY <3>2
      <4> QED
        BY <4>1, ConcatAt
    <3> QED
      BY <3>1, <3>2, <3>3, <3>4
  <2>2. ASSUME NEW j \in 1..Len(s), j \notin 1..n
        PROVE  j - n \in 1..Len(s) - n /\ n + (j - n) = j
    BY <2>2
  <2>3. \A j \in 1..Len(s) : t[j] = s[j]
    BY <2>1, <2>2
  <2> HIDE DEF t
  <2> QED
    BY <2>1, <2>3, SeqEqual
<1> DEFINE a == SubSeq(s, 1, n)  b == SubSeq(s, n + 1, Len(s))
<1>6. a \in Seq(A) /\ Len(a) = n /\ b \in Seq(A) /\ Len(b) = Len(s) - n /\ s = a \o b
  BY <1>1, <1>2, <1>5
<1> HIDE DEF a, b
<1>7. Cut(A, s, n, a, b)
  BY <1>6 DEF Cut
<1> QED
  BY <1>7 DEF a, b

LEMMA SubAt ==
  ASSUME NEW A, NEW s \in Seq(A), NEW n \in 0..Len(s)
  PROVE  /\ SubSeq(s, 1, n) \in Seq(A) /\ Len(SubSeq(s, 1, n)) = n
         /\ SubSeq(s, n + 1, Len(s)) \in Seq(A) /\ Len(SubSeq(s, n + 1, Len(s))) = Len(s) - n
         /\ \A j \in 1..n : SubSeq(s, 1, n)[j] = s[j]
         /\ \A j \in 1..Len(s) - n : SubSeq(s, n + 1, Len(s))[j] = s[n + j]
         /\ s = SubSeq(s, 1, n) \o SubSeq(s, n + 1, Len(s))
<1>1. \A j \in 1..n : SubSeq(s, 1, n)[j] = s[j]
  OBVIOUS
<1>2. \A j \in 1..Len(s) - n : SubSeq(s, n + 1, Len(s))[j] = s[n + j]
  OBVIOUS
<1> DEFINE a == SubSeq(s, 1, n)  b == SubSeq(s, n + 1, Len(s))
<1>3. Cut(A, s, n, a, b)
  BY CutAt
<1> HIDE DEF a, b
<1>4. a \in Seq(A) /\ Len(a) = n /\ b \in Seq(A) /\ Len(b) = Len(s) - n /\ s = a \o b
  BY <1>3 DEF Cut
<1> QED
  BY <1>1, <1>2, <1>4 DEF a, b

LEMMA Joined ==
  ASSUME NEW A, NEW r \in Seq(A), NEW s \in Seq(A), NEW t \in Seq(A)
  PROVE  /\ (r \o s) \o t = r \o (s \o t)
         /\ <<>> \o s = s /\ s \o <<>> = s
OBVIOUS

\* Concatenation under a name of its own: what is regrouped below is proved with
\* this one lemma and no other fact on sequences.
Cat(r, s) == r \o s

LEMMA CatAssoc ==
  ASSUME NEW r \in Seq(Byte), NEW s \in Seq(Byte), NEW t \in Seq(Byte)
  PROVE  Cat(Cat(r, s), t) = Cat(r, Cat(s, t)) /\ Cat(r, s) \in Seq(Byte)
BY Joined, ConcatProperties DEF Cat

LEMMA ChainJoin ==
  ASSUME NEW s \in Seq(Byte), NEW t \in Seq(Byte), Chain(s), Chain(t)
  PROVE  Chain(s \o t)
<1>1. CASE s = <<>>
  BY <1>1, Joined
<1>2. CASE t = <<>>
  BY <1>2, Joined
<1>3. CASE s # <<>> /\ t # <<>>
  <2>1. Len(s) \in Nat \ {0} /\ Len(t) \in Nat \ {0}
    BY <1>3
  <2>2. /\ Len(s \o t) = Len(s) + Len(t)
        /\ \A j \in 1..Len(s) : (s \o t)[j] = s[j]
        /\ \A j \in 1..Len(t) : (s \o t)[Len(s) + j] = t[j]
    BY ConcatAt
  <2>3. Starts(s \o t)
    BY <1>3, <2>1, <2>2 DEF Chain, Starts
  <2>4. Ends(s \o t)
    <3>1. (s \o t)[Len(s) + Len(t)] = t[Len(t)]
      BY <2>1, <2>2
    <3> QED
      BY <1>3, <2>1, <2>2, <3>1 DEF Chain, Ends
  <2>5. ASSUME NEW j \in 1..Len(s) + Len(t) - 1
        PROVE  Follows((s \o t)[j], (s \o t)[j + 1])
    <3>1. CASE j < Len(s)
      <4>1. j \in 1..Len(s) - 1 /\ j \in 1..Len(s) /\ j + 1 \in 1..Len(s)
        BY <2>1, <3>1
      <4> QED
        BY <2>2, <4>1 DEF Chain, Runs
    <3>2. CASE j = Len(s)
      <4>1. s[Len(s)].b \in {0, Size} /\ t[1].b \in {0, 1}
        BY <1>3 DEF Chain, Ends, Starts
      <4>2. (s \o t)[j] = s[Len(s)] /\ (s \o t)[j + 1] = t[1]
        <5>1. j \in 1..Len(s) /\ 1 \in 1..Len(t)
          BY <2>1, <3>2
        <5> QED
          BY <2>2, <3>2, <5>1
      <4> QED
        BY <4>1, <4>2 DEF Follows
    <3>3. CASE j > Len(s)
      <4> DEFINE k == j - Len(s)
      <4>1. k \in 1..Len(t) - 1 /\ k \in 1..Len(t) /\ k + 1 \in 1..Len(t)
        BY <2>1, <3>3
      <4>2. (s \o t)[j] = t[k] /\ (s \o t)[j + 1] = t[k + 1]
        <5>1. j = Len(s) + k /\ j + 1 = Len(s) + (k + 1)
          BY <2>1
        <5> QED
          BY <2>2, <4>1, <5>1
      <4> QED
        BY <4>1, <4>2 DEF Chain, Runs
    <3> QED
      BY <2>1, <3>1, <3>2, <3>3
  <2> QED
    BY <2>2, <2>3, <2>4, <2>5 DEF Chain, Runs
<1> QED
  BY <1>1, <1>2, <1>3

\* What is between two messages splits a chain.
LEMMA ChainSplit ==
  ASSUME NEW s \in Seq(Byte), NEW t \in Seq(Byte), Chain(s \o t), Starts(t)
  PROVE  Chain(s) /\ Chain(t)
<1>1. CASE s = <<>>
  BY <1>1, Joined DEF Chain, Starts, Ends, Runs
<1>2. CASE t = <<>>
  BY <1>2, Joined DEF Chain, Starts, Ends, Runs
<1>3. CASE s # <<>> /\ t # <<>>
  <2>1. Len(s) \in Nat \ {0} /\ Len(t) \in Nat \ {0}
    BY <1>3
  <2>2. /\ Len(s \o t) = Len(s) + Len(t)
        /\ \A j \in 1..Len(s) : (s \o t)[j] = s[j]
        /\ \A j \in 1..Len(t) : (s \o t)[Len(s) + j] = t[j]
    BY ConcatAt
  <2>3. s \o t # <<>>
    BY <2>1, <2>2
  <2>4. Starts(s)
    BY <2>1, <2>2, <2>3 DEF Chain, Starts
  <2>5. Ends(t)
    <3>1. (s \o t)[Len(s) + Len(t)] = t[Len(t)]
      BY <2>1, <2>2
    <3> QED
      BY <2>2, <2>3, <3>1 DEF Chain, Ends
  <2>6. Runs(s)
    BY <2>1, <2>2 DEF Chain, Runs
  <2>7. Runs(t)
    <3> SUFFICES ASSUME NEW k \in 1..Len(t) - 1
                 PROVE  Follows(t[k], t[k + 1])
      BY DEF Runs
    <3>1. Len(s) + k \in 1..Len(s \o t) - 1 /\ k \in 1..Len(t) /\ k + 1 \in 1..Len(t)
      BY <2>1, <2>2
    <3>2. Follows((s \o t)[Len(s) + k], (s \o t)[(Len(s) + k) + 1])
      BY <3>1 DEF Chain, Runs
    <3>3. (Len(s) + k) + 1 = Len(s) + (k + 1)
      BY <2>1
    <3> QED
      BY <2>2, <3>1, <3>2, <3>3
  <2>8. Ends(s)
    <3>1. Len(s) \in 1..Len(s \o t) - 1 /\ Len(s) \in 1..Len(s) /\ 1 \in 1..Len(t)
      BY <2>1, <2>2
    <3>2. Follows(s[Len(s)], t[1])
      BY <2>2, <3>1 DEF Chain, Runs
    <3>3. t[1].b \in {0, 1} /\ s[Len(s)].b \in Int
      <4>1. s[Len(s)] \in Byte
        BY <3>1, ElementOfSeq
      <4> QED
        BY <1>3, <4>1, SocketAssumption DEF Starts, Byte
    <3> QED
      BY <3>2, <3>3 DEF Follows, Ends
  <2> QED
    BY <2>4, <2>5, <2>6, <2>7, <2>8, <1>3 DEF Chain, Starts
<1> QED
  BY <1>1, <1>2, <1>3

LEMMA OnceInsert ==
  ASSUME NEW r \in Seq(Byte), NEW s \in Seq(Byte), NEW t \in Seq(Byte),
         Once(r \o t), Once(s), MsgsOf(s) \cap MsgsOf(r \o t) = {}
  PROVE  Once(r \o (s \o t))
<1> DEFINE R == Len(r)  S == Len(s)  T == Len(t)
<1>1. R \in Nat /\ S \in Nat /\ T \in Nat
  OBVIOUS
<1>2. /\ Len(r \o t) = R + T
      /\ \A j \in 1..R : (r \o t)[j] = r[j]
      /\ \A j \in 1..T : (r \o t)[R + j] = t[j]
  BY ConcatAt
<1>3. s \o t \in Seq(Byte) /\ Len(s \o t) = S + T
  BY ConcatAt
<1>4. /\ Len(r \o (s \o t)) = R + (S + T)
      /\ \A j \in 1..R : (r \o (s \o t))[j] = r[j]
      /\ \A j \in 1..S + T : (r \o (s \o t))[R + j] = (s \o t)[j]
  BY <1>3, ConcatAt
<1>5. /\ \A j \in 1..S : (s \o t)[j] = s[j]
      /\ \A j \in 1..T : (s \o t)[S + j] = t[j]
  BY ConcatAt
<1> DEFINE f == r \o (s \o t)  g == r \o t
<1>6. ASSUME NEW j \in 1..R + (S + T)
      PROVE  \/ j \in 1..R /\ j \in 1..R + T /\ f[j] = g[j]
             \/ j - R \in 1..S /\ f[j] = s[j - R]
             \/ j > R + S /\ j - S \in 1..R + T /\ f[j] = g[j - S]
  <2>1. CASE j <= R
    <3>1. j \in 1..R /\ j \in 1..R + T
      BY <1>1, <2>1
    <3> QED
      BY <1>2, <1>4, <3>1
  <2>2. CASE j > R /\ j <= R + S
    <3>1. j - R \in 1..S /\ j - R \in 1..S + T /\ R + (j - R) = j
      BY <1>1, <2>2
    <3> QED
      BY <1>4, <1>5, <3>1
  <2>3. CASE j > R + S
    <3> DEFINE k == j - R - S
    <3>1. k \in 1..T /\ R + k = j - S /\ j - S \in 1..R + T
      BY <1>1, <2>3
    <3>2. S + k \in 1..S + T /\ R + (S + k) = j
      BY <1>1, <2>3
    <3>3. f[j] = t[k] /\ g[j - S] = t[k]
      BY <1>2, <1>4, <1>5, <3>1, <3>2
    <3> QED
      BY <2>3, <3>1, <3>3
  <2> QED
    BY <1>1, <2>1, <2>2, <2>3
<1>7. ASSUME NEW j \in 1..S, NEW k \in 1..R + T PROVE s[j] # g[k]
  <2>1. s[j].m \in MsgsOf(s)
    BY DEF MsgsOf
  <2>2. g[k].m \in MsgsOf(g)
    BY <1>2 DEF MsgsOf
  <2> QED
    BY <2>1, <2>2
<1>8. \A j, k \in 1..R + T : g[j] = g[k] => j = k
  BY <1>2 DEF Once
<1>9. \A j, k \in 1..S : s[j] = s[k] => j = k
  BY DEF Once
<1> HIDE DEF f, g, R, S, T
<1>10. ASSUME NEW j \in 1..R + (S + T), NEW k \in 1..R + (S + T), f[j] = f[k]
       PROVE  j = k
  BY <1>1, <1>6, <1>7, <1>8, <1>9, <1>10
<1> QED
  BY <1>4, <1>10 DEF Once, f, R, S, T

LEMMA MsgsJoin ==
  ASSUME NEW s \in Seq(Byte), NEW t \in Seq(Byte)
  PROVE  MsgsOf(s \o t) = MsgsOf(s) \cup MsgsOf(t)
<1>1. /\ Len(s \o t) = Len(s) + Len(t)
      /\ \A j \in 1..Len(s) : (s \o t)[j] = s[j]
      /\ \A j \in 1..Len(t) : (s \o t)[Len(s) + j] = t[j]
      /\ \A j \in 1..Len(s) + Len(t) : j \in 1..Len(s) \/ \E k \in 1..Len(t) : j = Len(s) + k
  BY ConcatAt
<1>2. MsgsOf(s \o t) \subseteq MsgsOf(s) \cup MsgsOf(t)
  <2> SUFFICES ASSUME NEW j \in 1..Len(s) + Len(t)
               PROVE  (s \o t)[j].m \in MsgsOf(s) \cup MsgsOf(t)
    BY <1>1 DEF MsgsOf
  <2>1. CASE j \in 1..Len(s)
    BY <1>1, <2>1 DEF MsgsOf
  <2>2. CASE \E k \in 1..Len(t) : j = Len(s) + k
    BY <1>1, <2>2 DEF MsgsOf
  <2> QED
    BY <1>1, <2>1, <2>2
<1>3. \A j \in 1..Len(s) : j \in 1..Len(s) + Len(t)
  OBVIOUS
<1>4. \A j \in 1..Len(t) : Len(s) + j \in 1..Len(s) + Len(t)
  OBVIOUS
<1>5. MsgsOf(s) \subseteq MsgsOf(s \o t)
  BY <1>1, <1>3 DEF MsgsOf
<1>6. MsgsOf(t) \subseteq MsgsOf(s \o t)
  <2> SUFFICES ASSUME NEW j \in 1..Len(t)
               PROVE  t[j].m \in MsgsOf(s \o t)
    BY DEF MsgsOf
  <2>1. (s \o t)[Len(s) + j] = t[j] /\ Len(s) + j \in 1..Len(s \o t)
    BY <1>1, <1>4
  <2> QED
    BY <2>1 DEF MsgsOf
<1> QED
  BY <1>2, <1>5, <1>6

LEMMA FinalJoin ==
  ASSUME NEW s \in Seq(Byte), NEW t \in Seq(Byte), NEW m
  PROVE  Final(s \o t, m) <=> Final(s, m) \/ Final(t, m)
<1>1. /\ Len(s \o t) = Len(s) + Len(t)
      /\ \A j \in 1..Len(s) : (s \o t)[j] = s[j]
      /\ \A j \in 1..Len(t) : (s \o t)[Len(s) + j] = t[j]
      /\ \A j \in 1..Len(s) + Len(t) : j \in 1..Len(s) \/ \E k \in 1..Len(t) : j = Len(s) + k
  BY ConcatAt
<1>2. Final(s \o t, m) => Final(s, m) \/ Final(t, m)
  BY <1>1 DEF Final
<1>3. \A j \in 1..Len(s) : j \in 1..Len(s) + Len(t)
  OBVIOUS
<1>4. \A j \in 1..Len(t) : Len(s) + j \in 1..Len(s) + Len(t)
  OBVIOUS
<1> QED
  BY <1>1, <1>2, <1>3, <1>4 DEF Final

LEMMA BytesAre ==
  ASSUME NEW m \in Nat, NEW cmd
  PROVE  /\ Bytes(m, cmd) \in Seq(Byte) /\ Bytes(m, cmd) # <<>>
         /\ Len(Bytes(m, cmd)) = IF cmd = "A" THEN 1 ELSE Size
         /\ Chain(Bytes(m, cmd)) /\ Once(Bytes(m, cmd))
         /\ MsgsOf(Bytes(m, cmd)) = {m} /\ Final(Bytes(m, cmd), m)
<1>1. CASE cmd = "A"
  <2> DEFINE x == [m |-> m, b |-> 0]
  <2>1. Bytes(m, cmd) = <<x>> /\ x \in Byte /\ x.b = 0 /\ x.m = m
    BY <1>1, SocketAssumption DEF Bytes, Byte
  <2> HIDE DEF x
  <2>2. Len(<<x>>) = 1 /\ <<x>>[1] = x /\ <<x>> # <<>> /\ <<x>> \in Seq(Byte)
    BY <2>1
  <2>3. Chain(<<x>>)
    BY <2>1, <2>2 DEF Chain, Starts, Ends, Runs
  <2>4. Once(<<x>>)
    BY <2>2 DEF Once
  <2>5. MsgsOf(<<x>>) = {m} /\ Final(<<x>>, m)
    BY <2>1, <2>2 DEF MsgsOf, Final
  <2> QED
    BY <1>1, <2>1, <2>2, <2>3, <2>4, <2>5
<1>2. CASE cmd # "A"
  <2> DEFINE s == [b \in 1..Size |-> [m |-> m, b |-> b]]
  <2>1. Bytes(m, cmd) = s
    BY <1>2 DEF Bytes
  <2>2. s \in Seq(Byte) /\ Len(s) = Size /\ \A j \in 1..Size : s[j] = [m |-> m, b |-> j]
    BY SocketAssumption DEF Byte
  <2>3. Size \in Nat \ {0} /\ 1 \in 1..Size /\ Size \in 1..Size
    BY SocketAssumption
  <2> HIDE DEF s
  <2>4. \A j \in 1..Size : s[j].m = m /\ s[j].b = j
    BY <2>2
  <2>5. s # <<>>
    BY <2>2, <2>3
  <2>6. Starts(s) /\ Ends(s)
    BY <2>2, <2>3, <2>4 DEF Starts, Ends
  <2>7. ASSUME NEW j \in 1..Size - 1
        PROVE  Follows(s[j], s[j + 1])
    <3>1. j \in 1..Size /\ j + 1 \in 1..Size
      BY <2>3
    <3> QED
      BY <2>4, <3>1 DEF Follows
  <2>8. Chain(s)
    BY <2>2, <2>6, <2>7 DEF Chain, Runs
  <2>9. Once(s)
    BY <2>2, <2>4 DEF Once
  <2>10. MsgsOf(s) = {m} /\ Final(s, m)
    BY <2>2, <2>3, <2>4 DEF MsgsOf, Final
  <2> QED
    BY <1>2, <2>1, <2>2, <2>5, <2>8, <2>9, <2>10
<1> QED
  BY <1>1, <1>2

-----------------------------------------------------------------------------
Lists(s) == s.dw \in Seq(Byte) /\ s.high \in Seq(Byte) /\ s.low \in Seq(Byte)

\* All the bytes of a socket, in the order in which they are to be written.
All(w, s) == w \o (s.dw \o (s.high \o s.low))

Sound(w, s) == Chain(w \o (s.dw \o s.high)) /\ Chain(s.low) /\ Once(All(w, s))

LEMMA AllIn ==
  ASSUME NEW w \in Seq(Byte), NEW s, Lists(s)
  PROVE  /\ All(w, s) \in Seq(Byte) /\ w \o (s.dw \o s.high) \in Seq(Byte)
         /\ MsgsOf(All(w, s)) = MsgsOf(w) \cup MsgsOf(s.dw) \cup MsgsOf(s.high) \cup MsgsOf(s.low)
<1>1. s.high \o s.low \in Seq(Byte) /\ s.dw \o s.high \in Seq(Byte)
  BY ConcatProperties DEF Lists
<1>2. s.dw \o (s.high \o s.low) \in Seq(Byte)
  BY <1>1, ConcatProperties DEF Lists
<1>3. MsgsOf(s.high \o s.low) = MsgsOf(s.high) \cup MsgsOf(s.low)
  BY MsgsJoin DEF Lists
<1>4. MsgsOf(s.dw \o (s.high \o s.low)) = MsgsOf(s.dw) \cup MsgsOf(s.high \o s.low)
  BY <1>1, MsgsJoin DEF Lists
<1>5. MsgsOf(All(w, s)) = MsgsOf(w) \cup MsgsOf(s.dw \o (s.high \o s.low))
  BY <1>2, MsgsJoin DEF All
<1> QED
  BY <1>1, <1>2, <1>3, <1>4, <1>5, ConcatProperties DEF All

Types == {"INVALID", "RESERVE", "CONNECTING", "CONNECTED", "HALFCLOSE"}

Slot == [type : Types, protocol : {"UNKNOWN", "TCP", "UDP"}, sending : Int,
         high : Seq(Byte), low : Seq(Byte), dw : Seq(Byte), lock : BOOLEAN,
         poll : {"off", "in", "out"}]

\* What an operation on the lists of a socket leaves alone.
Same(d, s) ==
  d.type = s.type /\ d.protocol = s.protocol /\ d.sending = s.sending /\ d.lock = s.lock

LEMMA TakeJoin ==
  ASSUME NEW s \in Seq(Byte), NEW t \in Seq(Byte)
  PROVE  SubSeq(s \o t, 1, Len(s)) = s
<1> DEFINE r == s \o t  u == SubSeq(r, 1, Len(s))
<1>1. r \in Seq(Byte) /\ Len(s) \in 0..Len(r) /\ \A j \in 1..Len(s) : r[j] = s[j]
  BY ConcatAt
<1> HIDE DEF r
<1>2. u \in Seq(Byte) /\ Len(u) = Len(s) /\ \A j \in 1..Len(s) : u[j] = r[j]
  BY <1>1, SubAt
<1> HIDE DEF u
<1>3. u = s
  BY <1>1, <1>2, SeqEqual
<1> QED
  BY <1>3 DEF u, r

\* send_buffer puts the rest of a direct write where it belongs.
LEMMA DirectKeeps ==
  ASSUME NEW w \in Seq(Byte), NEW s \in Slot
  PROVE  /\ WithDirect(s) \in Slot /\ Same(WithDirect(s), s)
         /\ WithDirect(s).dw = <<>> /\ WithDirect(s).high = s.dw \o s.high
         /\ WithDirect(s).low = s.low
         /\ All(w, WithDirect(s)) = All(w, s)
         /\ Sound(w, s) => Sound(w, WithDirect(s))
<1> DEFINE d == WithDirect(s)
<1>1. s.dw \in Seq(Byte) /\ s.high \in Seq(Byte) /\ s.low \in Seq(Byte)
  BY DEF Slot
<1>2. s.dw \o s.high \in Seq(Byte) /\ s.high \o s.low \in Seq(Byte)
  BY <1>1, ConcatProperties
<1>3. /\ d.dw = <<>> /\ d.high = s.dw \o s.high /\ d.low = s.low
      /\ d.type = s.type /\ d.protocol = s.protocol /\ d.sending = s.sending /\ d.lock = s.lock
  BY DEF WithDirect, Slot
<1>4. d \in Slot
  <2> DEFINE h == s.dw \o s.high
  <2>1. h \in Seq(Byte) /\ <<>> \in Seq(Byte)
    BY <1>2
  <2>2. d = [s EXCEPT !.high = h, !.dw = <<>>]
    BY DEF WithDirect, Slot
  <2> HIDE DEF d, h
  <2> QED
    BY <2>1, <2>2 DEF Slot
<1> HIDE DEF d
<1>5. All(w, d) = All(w, s)
  <2>1. (s.dw \o s.high) \o s.low = s.dw \o (s.high \o s.low)
    <3> DEFINE x == s.dw  y == s.high  z == s.low
    <3>1. x \in Seq(Byte) /\ y \in Seq(Byte) /\ z \in Seq(Byte)
      BY <1>1
    <3> HIDE DEF x, y, z
    <3>2. (x \o y) \o z = x \o (y \o z)
      BY <3>1, Joined
    <3> QED
      BY <3>2 DEF x, y, z
  <2>2. (s.dw \o s.high) \o s.low \in Seq(Byte)
    BY <1>1, <1>2, ConcatProperties
  <2> QED
    BY <1>3, <2>1, <2>2, Joined DEF All
<1>6. Sound(w, s) => Sound(w, d)
  <2>1. d.dw \o d.high = s.dw \o s.high
    BY <1>2, <1>3, Joined
  <2> QED
    BY <1>3, <1>5, <2>1 DEF Sound
<1> QED
  BY <1>3, <1>4, <1>5, <1>6 DEF d, Same

\* The rest of a buffer ends with the last byte of its message.
LEMMA Uncompleted ==
  ASSUME NEW r \in Seq(Byte), NEW t \in Seq(Byte), Chain(r \o t), t # <<>>, ~Starts(t)
  PROVE  LET n == CHOOSE n \in 1..Len(t) : t[n].b = Size /\ \A j \in 1..n - 1 : t[j].b # Size
         IN  n \in 1..Len(t) /\ Starts(SubSeq(t, n + 1, Len(t)))
<1> DEFINE S == {n \in 1..Len(t) : t[n].b = Size}
<1>1. Len(t) \in Nat \ {0} /\ Len(t) \in 1..Len(t) /\ Size \in Nat \ {0}
  BY SocketAssumption
<1>2. \A j \in 1..Len(t) : t[j] \in Byte
  BY ElementOfSeq
<1>3. /\ Len(r \o t) = Len(r) + Len(t) /\ Len(r) \in Nat
      /\ \A j \in 1..Len(t) : (r \o t)[Len(r) + j] = t[j]
  BY ConcatAt
<1>4. ASSUME NEW k \in 1..Len(t) - 1
      PROVE  Follows(t[k], t[k + 1])
  <2>1. Len(r) + k \in 1..Len(r \o t) - 1 /\ k \in 1..Len(t) /\ k + 1 \in 1..Len(t)
    BY <1>1, <1>3
  <2>2. Follows((r \o t)[Len(r) + k], (r \o t)[(Len(r) + k) + 1])
    BY <2>1 DEF Chain, Runs
  <2>3. (Len(r) + k) + 1 = Len(r) + (k + 1)
    BY <1>1, <1>3
  <2> QED
    BY <1>3, <2>1, <2>2, <2>3
<1>5. t[Len(t)].b \in {0, Size}
  <2>1. r \o t # <<>> /\ (r \o t)[Len(r \o t)] = t[Len(t)]
    BY <1>1, <1>3
  <2> QED
    BY <2>1 DEF Chain, Ends
<1>6. \E n \in S : \A j \in S : n <= j
  <2>1. CASE S # {}
    <3>1. S \in SUBSET Nat
      BY <1>1
    <3> HIDE DEF S
    <3> QED
      BY <2>1, <3>1, Least
  <2>2. CASE S = {}
    <3> DEFINE Z == {n \in 1..Len(t) : t[n].b = 0}
    <3>1. Z \in SUBSET Nat /\ Z # {}
      BY <1>1, <1>5, <2>2
    <3>2. PICK n \in Z : \A j \in Z : n <= j
      <4> HIDE DEF Z
      <4> QED
        BY <3>1, Least
    <3>3. n \in 1..Len(t) /\ t[n].b = 0
      BY <3>2
    <3>4. n # 1
      BY <3>3 DEF Starts
    <3>5. n - 1 \in 1..Len(t) - 1 /\ n - 1 \in 1..Len(t) /\ (n - 1) + 1 = n
      BY <1>1, <3>3, <3>4
    <3>6. Follows(t[n - 1], t[n])
      BY <1>4, <3>5
    <3>7. t[n - 1].b # Size /\ t[n - 1].b \in Nat
      <4>1. t[n - 1] \in Byte
        BY <3>5, ElementOfSeq
      <4>2. t[n - 1].b \in Nat
        BY <1>1, <4>1 DEF Byte
      <4>3. n - 1 \notin S
        BY <2>2
      <4> QED
        BY <3>5, <4>2, <4>3
    <3>8. t[n - 1].b = 0
      BY <3>3, <3>6, <3>7 DEF Follows
    <3>9. n - 1 \in Z
      BY <3>5, <3>8
    <3> QED
      BY <3>2, <3>3, <3>5, <3>9
  <2> QED
    BY <2>1, <2>2
<1> DEFINE P(n) == t[n].b = Size /\ \A j \in 1..n - 1 : t[j].b # Size
           c == CHOOSE n \in 1..Len(t) : P(n)
<1>7. \E n \in 1..Len(t) : P(n)
  <2>1. PICK n \in S : \A j \in S : n <= j
    BY <1>6
  <2>2. n \in 1..Len(t) /\ t[n].b = Size
    BY <2>1
  <2>3. ASSUME NEW j \in 1..n - 1, t[j].b = Size PROVE FALSE
    <3>1. j \in 1..Len(t) /\ j < n
      BY <1>1, <2>2
    <3> QED
      BY <2>1, <2>3, <3>1
  <2> QED
    BY <2>2, <2>3
<1>8. c \in 1..Len(t) /\ P(c)
  BY <1>7
<1>9. t[c].b = Size
  BY <1>8
<1> HIDE DEF P
<1>10. Starts(SubSeq(t, c + 1, Len(t)))
  <2> HIDE DEF c
  <2> DEFINE u == SubSeq(t, c + 1, Len(t))
  <2>1. c \in 0..Len(t)
    BY <1>8
  <2>2. Len(u) = Len(t) - c /\ u \in Seq(Byte) /\ \A j \in 1..Len(t) - c : u[j] = t[c + j]
    BY <2>1, SubAt
  <2>3. CASE c = Len(t)
    <3>1. Len(u) = 0
      BY <1>1, <2>2, <2>3
    <3> QED
      BY <2>2, <3>1, EmptySeq DEF Starts
  <2>4. CASE c # Len(t)
    <3>1. c \in 1..Len(t) - 1 /\ 1 \in 1..Len(t) - c
      BY <1>1, <1>8, <2>4
    <3>2. Follows(t[c], t[c + 1]) /\ u[1] = t[c + 1]
      BY <1>4, <2>2, <3>1
    <3> DEFINE x == t[c]  y == t[c + 1]
    <3>3. y.b \in {0, 1}
      <4>1. x.b = Size /\ Follows(x, y)
        BY <1>9, <3>2
      <4> HIDE DEF x, y
      <4>2. x.b \notin 1..Size - 1
        BY <1>1, <4>1
      <4> QED
        BY <4>1, <4>2 DEF Follows
    <3> QED
      BY <3>2, <3>3 DEF Starts
  <2> QED
    BY <2>3, <2>4
<1> QED
  BY <1>8, <1>10 DEF P

\* The fd has taken a part of the high list, or that and a part of the low
\* one, of which the rest of a message that was begun is the new high list.
Begun(s, d, took) ==
  \E a, b \in Seq(Byte) :
    s.high = a \o b /\ b # <<>> /\ took = a /\ d.high = b /\ d.low = s.low
Further(s, d, took) ==
  \E a, b, c \in Seq(Byte) :
    /\ s.low = a \o (b \o c) /\ Starts(c)
    /\ took = s.high \o a /\ d.high = b /\ d.low = c

LEMMA SendTakes ==
  ASSUME NEW s \in Slot, NEW n \in 0..Left(s), Chain(s.low)
  PROVE  LET d == SendBuffer(s, n)
         IN  /\ d \in Slot /\ Same(d, s) /\ d.dw = s.dw
             /\ Begun(s, d, Took(s, n)) \/ Further(s, d, Took(s, n))
<1> DEFINE x == s.high  y == s.low  s1 == SendLists(s, n)  d == SendBuffer(s, n)
<1>1. x \in Seq(Byte) /\ y \in Seq(Byte) /\ <<>> \in Seq(Byte)
  BY DEF Slot
<1>2. Len(x) \in Nat /\ Len(y) \in Nat /\ n \in 0..Len(x) + Len(y)
  <2>1. Left(s) = Len(x) + Len(y)
    BY DEF Left
  <2> HIDE DEF x, y
  <2> QED
    BY <1>1, <2>1
<1>3. CASE n < Len(x)
  <2> DEFINE a == SubSeq(x, 1, n)  b == SubSeq(x, n + 1, Len(x))
  <2>1. n \in 0..Len(x)
    BY <1>2, <1>3
  <2>2. a \in Seq(Byte) /\ b \in Seq(Byte) /\ Len(a) = n /\ Len(b) = Len(x) - n /\ x = a \o b
    <3>1. Cut(Byte, x, n, a, b)
      <4> HIDE DEF x, y
      <4> QED
        BY <1>1, <2>1, CutAt
    <3> HIDE DEF a, b, x, y
    <3> QED
      BY <3>1 DEF Cut
  <2>3. b # <<>>
    <3> HIDE DEF a, b, x, y
    <3> QED
      BY <1>2, <1>3, <2>2
  <2>4. SubSeq(y, 1, Len(y)) = y
    <3> HIDE DEF x, y
    <3> QED
      BY <1>1, SubSeqFull
  <2>5. s1 = [s EXCEPT !.high = b, !.low = y]
    <3>1. n - n + 1 = 1
      BY <1>2
    <3> QED
      BY <1>3, <2>4, <3>1 DEF SendLists, Slot
  <2>6. s1.high = b /\ s1.low = y /\ s1.dw = s.dw /\ Same(s1, s)
    <3> HIDE DEF b, s1
    <3> QED
      BY <2>5 DEF Slot, Same
  <2>7. s1 \in Slot
    <3> HIDE DEF b, y, s1
    <3> QED
      BY <1>1, <2>2, <2>5 DEF Slot
  <2>8. d = s1
    <3> HIDE DEF b, y
    <3> QED
      BY <2>3, <2>6 DEF SendBuffer, SendBufferEmpty
  <2>9. Took(s, n) = a
    <3>1. a \o (b \o y) = (a \o b) \o y /\ b \o y \in Seq(Byte)
      <4> HIDE DEF a, b, x, y
      <4>1. a \in Seq(Byte) /\ b \in Seq(Byte) /\ y \in Seq(Byte)
        BY <1>1, <2>2
      <4> QED
        <5>1. Cat(a, Cat(b, y)) = Cat(Cat(a, b), y) /\ Cat(b, y) \in Seq(Byte)
          BY <4>1, CatAssoc
        <5> QED
          BY <5>1 DEF Cat
    <3>2. SubSeq(a \o (b \o y), 1, Len(a)) = a
      <4> DEFINE z == b \o y
      <4>1. z \in Seq(Byte)
        BY <3>1
      <4> HIDE DEF a, b, x, y, z
      <4>2. SubSeq(a \o z, 1, Len(a)) = a
        BY <2>2, <4>1, TakeJoin
      <4> QED
        BY <4>2 DEF z
    <3>3. Took(s, n) = SubSeq(x \o y, 1, n)
      BY DEF Took
    <3> HIDE DEF a, b, x, y
    <3> QED
      BY <2>2, <3>1, <3>2, <3>3
  <2>10. Begun(s, d, Took(s, n))
    <3>1. s.high = a \o b /\ d.high = b /\ d.low = s.low
      <4> HIDE DEF a, b, d, s1
      <4> QED
        BY <2>2, <2>6, <2>8
    <3> HIDE DEF a, b, d
    <3> QED
      BY <2>2, <2>3, <2>9, <3>1 DEF Begun
  <2> HIDE DEF d, s1
  <2> QED
    BY <2>6, <2>7, <2>8, <2>10 DEF d
<1>4. CASE n >= Len(x)
  <2> DEFINE k == n - Len(x)  a == SubSeq(y, 1, k)  t == SubSeq(y, k + 1, Len(y))
  <2>1. k \in 0..Len(y) /\ Len(x) + k = n
    <3> HIDE DEF x, y
    <3> QED
      BY <1>2, <1>4
  <2>2. a \in Seq(Byte) /\ t \in Seq(Byte) /\ Len(a) = k /\ y = a \o t
    <3>1. Cut(Byte, y, k, a, t)
      <4> HIDE DEF x, y, k
      <4> QED
        BY <1>1, <2>1, CutAt
    <3> HIDE DEF a, t, x, y, k
    <3> QED
      BY <3>1 DEF Cut
  <2>3. SubSeq(x, Len(x) + 1, Len(x)) = <<>>
    <3> HIDE DEF x
    <3> QED
      BY <1>2, SubSeqEmpty
  <2>4. s1 = [s EXCEPT !.high = <<>>, !.low = t]
    <3>1. (IF n < Len(s.high) THEN n ELSE Len(s.high)) = Len(x)
      BY <1>2, <1>4
    <3> QED
      BY <2>3, <3>1 DEF SendLists, Slot
  <2>5. s1.high = <<>> /\ s1.low = t /\ s1.dw = s.dw /\ Same(s1, s)
    <3> HIDE DEF t, s1
    <3> QED
      BY <2>4 DEF Slot, Same
  <2>6. s1 \in Slot
    <3> HIDE DEF t, s1
    <3> QED
      BY <1>1, <2>2, <2>4 DEF Slot
  <2>7. Took(s, n) = x \o a
    <3>1. x \o (a \o t) = (x \o a) \o t /\ x \o a \in Seq(Byte) /\ Len(x \o a) = n
      <4> HIDE DEF a, t, x, y, k
      <4>1. (x \o a) \o t = x \o (a \o t)
        <5>1. x \in Seq(Byte) /\ a \in Seq(Byte) /\ t \in Seq(Byte)
          BY <1>1, <2>2
        <5> QED
          <6>1. Cat(Cat(x, a), t) = Cat(x, Cat(a, t))
            BY <5>1, CatAssoc
          <6> QED
            BY <6>1 DEF Cat
      <4>2. x \o a \in Seq(Byte) /\ Len(x \o a) = Len(x) + Len(a)
        BY <1>1, <2>2, ConcatProperties
      <4> QED
        BY <2>1, <2>2, <4>1, <4>2
    <3>2. SubSeq((x \o a) \o t, 1, Len(x \o a)) = x \o a
      <4> DEFINE z == x \o a
      <4>1. z \in Seq(Byte)
        BY <3>1
      <4> HIDE DEF a, t, x, y, z
      <4>2. SubSeq(z \o t, 1, Len(z)) = z
        BY <2>2, <4>1, TakeJoin
      <4> QED
        BY <4>2 DEF z
    <3>3. Took(s, n) = SubSeq(x \o y, 1, n)
      BY DEF Took
    <3> HIDE DEF a, t, x, y
    <3> QED
      BY <2>2, <3>1, <3>2, <3>3
  <2>8. Chain(a \o t)
    <3> HIDE DEF a, t
    <3> QED
      BY <2>2
  <2> HIDE DEF a, t, k, x, s1
  <2>9. CASE t = <<>> \/ ~Uncomplete(t)
    <3>1. d.high = <<>> /\ d.low = t /\ d.dw = s.dw /\ Same(d, s) /\ d \in Slot
      <4>1. d = s1 \/ d = [s1 EXCEPT !.poll = "in"]
        BY <2>5, <2>9 DEF SendBuffer, SendBufferEmpty, Uncomplete, s1
      <4> HIDE DEF d
      <4> QED
        BY <2>5, <2>6, <4>1 DEF Slot, Same
    <3>2. Starts(t)
      <4>1. t # <<>> => Head(t) = t[1] /\ t[1] \in Byte
        BY <2>2
      <4> QED
        BY <2>9, <4>1, SocketAssumption DEF Starts, Uncomplete, Byte
    <3>3. Further(s, d, Took(s, n))
      <4>1. <<>> \o t = t
        BY <2>2, Joined
      <4> HIDE DEF d
      <4> QED
        BY <1>1, <2>2, <2>7, <3>1, <3>2, <4>1 DEF Further, x
    <3> HIDE DEF d
    <3> QED
      BY <3>1, <3>3 DEF d
  <2>10. CASE t # <<>> /\ Uncomplete(t)
    <3> DEFINE c == CHOOSE c \in 1..Len(t) : t[c].b = Size /\ \A j \in 1..c - 1 : t[j].b # Size
               b == SubSeq(t, 1, c)  e == SubSeq(t, c + 1, Len(t))
    <3>1. ~Starts(t)
      <4>1. Head(t) = t[1] /\ t[1] \in Byte
        BY <2>2, <2>10
      <4> QED
        BY <2>10, <4>1 DEF Starts, Uncomplete, Byte
    <3>2. c \in 1..Len(t) /\ Starts(e)
      BY <2>2, <2>8, <2>10, <3>1, Uncompleted
    <3>3. d = RaiseUncomplete(s1)
      BY <2>5, <2>10 DEF SendBuffer, SendBufferEmpty, s1
    <3>4. d = [s1 EXCEPT !.high = b, !.low = e]
      <4> HIDE DEF d
      <4> QED
        BY <2>5, <3>3 DEF RaiseUncomplete
    <3> HIDE DEF c
    <3>5. b \in Seq(Byte) /\ e \in Seq(Byte) /\ t = b \o e
      <4>1. c \in 0..Len(t)
        BY <3>2
      <4> QED
        BY <2>2, <4>1, SubAt
    <3> HIDE DEF d, b, e
    <3>6. d.high = b /\ d.low = e /\ d.dw = s.dw /\ Same(d, s) /\ d \in Slot
      BY <2>5, <2>6, <3>4, <3>5 DEF Slot, Same
    <3>7. Further(s, d, Took(s, n))
      BY <2>2, <2>7, <3>2, <3>5, <3>6 DEF Further, x
    <3> QED
      BY <3>6, <3>7 DEF d
  <2> QED
    BY <2>9, <2>10
<1> QED
  BY <1>2, <1>3, <1>4

\* Writing what is on the lists moves bytes, and loses or doubles none.
LEMMA SendKeeps ==
  ASSUME NEW w \in Seq(Byte), NEW s \in Slot, s.dw = <<>>, Sound(w, s), NEW n \in 0..Left(s)
  PROVE  LET d == SendBuffer(s, n)
             v == w \o Took(s, n)
         IN  /\ d \in Slot /\ Same(d, s) /\ d.dw = <<>> /\ v \in Seq(Byte)
             /\ All(v, d) = All(w, s) /\ Sound(v, d)
             /\ n = Left(s) => SendBufferEmpty(d)
<1> DEFINE d == SendBuffer(s, n)  u == Took(s, n)  v == w \o u
           x == s.high  y == s.low  p == d.high  q == d.low
<1>1. x \in Seq(Byte) /\ y \in Seq(Byte) /\ <<>> \in Seq(Byte)
  BY DEF Slot
<1>2. d \in Slot /\ Same(d, s) /\ d.dw = <<>> /\ (Begun(s, d, u) \/ Further(s, d, u))
  BY SendTakes DEF Sound
<1>3. p \in Seq(Byte) /\ q \in Seq(Byte)
  <2> HIDE DEF d
  <2> QED
    BY <1>2 DEF Slot
<1>4. Left(s) = Len(x) + Len(y) /\ Len(x) \in Nat /\ Len(y) \in Nat /\ n \in Nat
  <2>1. Left(s) = Len(x) + Len(y)
    BY DEF Left
  <2> HIDE DEF x, y
  <2> QED
    BY <1>1, <2>1
<1>5. u = SubSeq(x \o y, 1, n)
  BY DEF Took
<1>6. u \in Seq(Byte) /\ Len(u) = n
  <2>1. x \o y \in Seq(Byte) /\ Len(x \o y) = Len(x) + Len(y)
    <3> HIDE DEF x, y
    <3> QED
      BY <1>1, ConcatProperties
  <2>2. n \in 0..Len(x \o y)
    BY <1>4, <2>1
  <2> DEFINE z == x \o y
  <2> HIDE DEF x, y, u, z
  <2>3. SubSeq(z, 1, n) \in Seq(Byte) /\ Len(SubSeq(z, 1, n)) = n
    BY <2>1, <2>2, SubAt DEF z
  <2> QED
    BY <1>5, <2>3 DEF z
<1>7. Chain(w \o x) /\ Chain(y) /\ Once(All(w, s)) /\ All(w, s) = w \o (x \o y)
  <2> HIDE DEF x, y
  <2>1. <<>> \o x = x /\ <<>> \o (x \o y) = x \o y
    <3>1. x \o y \in Seq(Byte)
      BY <1>1, ConcatProperties
    <3> QED
      BY <1>1, <3>1, Joined
  <2> QED
    BY <2>1 DEF Sound, All, x, y
<1>8. /\ All(v, d) = v \o (p \o q)
      /\ Sound(v, d) <=> Chain(v \o p) /\ Chain(q) /\ Once(All(v, d))
  <2> HIDE DEF d, v
  <2>1. <<>> \o p = p /\ <<>> \o (p \o q) = p \o q
    <3> HIDE DEF p, q
    <3>1. p \o q \in Seq(Byte)
      BY <1>3, ConcatProperties
    <3> QED
      BY <1>3, <3>1, Joined
  <2> QED
    BY <1>2, <2>1 DEF Sound, All
<1>9. v \in Seq(Byte)
  <2> HIDE DEF u
  <2> QED
    BY <1>6, ConcatProperties
<1>10. CASE Begun(s, d, u)
  <2>1. PICK a, b : /\ a \in Seq(Byte) /\ b \in Seq(Byte)
                     /\ x = a \o b /\ b # <<>> /\ u = a /\ p = b /\ q = y
    <3> HIDE DEF d, u
    <3> QED
      BY <1>10 DEF Begun
  <2> HIDE DEF d, u, x, y, p, q
  <2>2. (w \o a) \o b = w \o (a \o b)
    <3>1. Cat(Cat(w, a), b) = Cat(w, Cat(a, b))
      BY <2>1, CatAssoc
    <3> QED
      BY <3>1 DEF Cat
  <2>3. (w \o a) \o (b \o y) = w \o ((a \o b) \o y)
    <3>1. w \in Seq(Byte) /\ a \in Seq(Byte) /\ b \in Seq(Byte) /\ y \in Seq(Byte)
      BY <1>1, <2>1
    <3>2. Cat(Cat(w, a), Cat(b, y)) = Cat(w, Cat(Cat(a, b), y))
      BY <3>1, CatAssoc
    <3> QED
      BY <3>2 DEF Cat
  <2>4. n # Left(s)
    <3>1. Len(a \o b) = Len(a) + Len(b) /\ Len(b) \in Nat \ {0} /\ Len(a) \in Nat
      BY <2>1, ConcatProperties
    <3> QED
      BY <1>4, <1>6, <2>1, <3>1
  <2>5. All(v, d) = All(w, s)
    BY <1>7, <1>8, <2>1, <2>3
  <2>6. Sound(v, d)
    BY <1>7, <1>8, <2>1, <2>2, <2>5
  <2> QED
    BY <1>2, <1>9, <2>4, <2>5, <2>6 DEF d, u
<1>11. CASE Further(s, d, u)
  <2>1. PICK a, b, c : /\ a \in Seq(Byte) /\ b \in Seq(Byte) /\ c \in Seq(Byte)
                        /\ y = a \o (b \o c) /\ Starts(c) /\ u = x \o a /\ p = b /\ q = c
    <3> HIDE DEF d, u
    <3> QED
      BY <1>11 DEF Further
  <2> HIDE DEF d, u, x, y, p, q
  <2>10. a \in Seq(Byte) /\ b \in Seq(Byte) /\ c \in Seq(Byte)
    BY <2>1
  <2>2. a \o b \in Seq(Byte) /\ b \o c \in Seq(Byte) /\ (a \o b) \o c = a \o (b \o c)
    <3>1. a \o b \in Seq(Byte) /\ b \o c \in Seq(Byte)
      <4>1. Cat(a, b) \in Seq(Byte) /\ Cat(b, c) \in Seq(Byte)
        BY <2>10, CatAssoc
      <4> QED
        BY <4>1 DEF Cat
    <3>2. (a \o b) \o c = a \o (b \o c)
      <4>1. Cat(Cat(a, b), c) = Cat(a, Cat(b, c))
        BY <2>10, CatAssoc
      <4> QED
        BY <4>1 DEF Cat
    <3> QED
      BY <3>1, <3>2
  <2>3. Chain(a \o b) /\ Chain(c)
    <3> DEFINE z == a \o b
    <3> HIDE DEF z
    <3>1. z \in Seq(Byte) /\ Chain(z \o c)
      BY <1>7, <2>1, <2>2 DEF z
    <3>2. Chain(z) /\ Chain(c)
      BY <2>1, <3>1, ChainSplit
    <3> QED
      BY <3>2 DEF z
  <2>4. (w \o x) \o (a \o b) = v \o b
    <3>1. w \o x \in Seq(Byte) /\ v = (w \o x) \o a
      <4>1. v = w \o (x \o a)
        BY <2>1
      <4>2. (w \o x) \o a = w \o (x \o a) /\ w \o x \in Seq(Byte)
        <5>1. w \in Seq(Byte) /\ x \in Seq(Byte) /\ a \in Seq(Byte)
          BY <1>1, <2>10
        <5>2. Cat(Cat(w, x), a) = Cat(w, Cat(x, a)) /\ Cat(w, x) \in Seq(Byte)
          BY <5>1, CatAssoc
        <5> QED
          BY <5>2 DEF Cat
      <4> QED
        BY <4>1, <4>2
    <3> DEFINE z == w \o x
    <3> HIDE DEF z
    <3>2. z \o (a \o b) = (z \o a) \o b
      <4> HIDE DEF z
      <4>1. z \in Seq(Byte)
        BY <3>1 DEF z
      <4>2. Cat(z, Cat(a, b)) = Cat(Cat(z, a), b)
        BY <2>10, <4>1, CatAssoc
      <4> QED
        BY <4>2 DEF Cat
    <3> QED
      BY <3>1, <3>2 DEF z
  <2>5. Chain(v \o b)
    <3> DEFINE z == w \o x  r == a \o b
    <3>1. z \in Seq(Byte) /\ r \in Seq(Byte)
      BY <1>1, <2>2, ConcatProperties
    <3>2. Chain(z) /\ Chain(r)
      BY <1>7, <2>3
    <3> HIDE DEF z, r
    <3>3. Chain(z \o r)
      BY <3>1, <3>2, ChainJoin
    <3> QED
      BY <2>4, <3>3 DEF z, r
  <2>6. v \o (b \o c) = w \o (x \o y)
    <3> DEFINE z == b \o c
    <3>1. z \in Seq(Byte) /\ v = w \o (x \o a) /\ y = a \o z
      BY <2>1, <2>2
    <3> HIDE DEF z, v
    <3>5. x \in Seq(Byte) /\ z \in Seq(Byte)
      BY <1>1, <3>1
    <3>2. x \o a \in Seq(Byte) /\ x \o (a \o z) = (x \o a) \o z
      <4>1. a \in Seq(Byte)
        BY <2>1
      <4>2. x \o a \in Seq(Byte)
        <5>1. Cat(x, a) \in Seq(Byte)
          BY <3>5, <4>1, CatAssoc
        <5> QED
          BY <5>1 DEF Cat
      <4>3. (x \o a) \o z = x \o (a \o z)
        <5>1. Cat(Cat(x, a), z) = Cat(x, Cat(a, z))
          BY <3>5, <4>1, CatAssoc
        <5> QED
          BY <5>1 DEF Cat
      <4> QED
        BY <4>2, <4>3
    <3> DEFINE r == x \o a
    <3>3. v = w \o r
      BY <3>1
    <3>6. r \in Seq(Byte)
      BY <3>2
    <3> HIDE DEF r
    <3>7. z \in Seq(Byte)
      BY <3>5
    <3>4. (w \o r) \o z = w \o (r \o z)
      <4>1. Cat(Cat(w, r), z) = Cat(w, Cat(r, z))
        BY <3>6, <3>7, CatAssoc
      <4> QED
        BY <4>1 DEF Cat
    <3> QED
      BY <3>1, <3>2, <3>3, <3>4 DEF z, r
  <2>7. n = Left(s) => SendBufferEmpty(d)
    <3>1. Len(a \o (b \o c)) = Len(a) + (Len(b) + Len(c)) /\ Len(x \o a) = Len(x) + Len(a)
      <4>1. Len(b \o c) = Len(b) + Len(c) /\ Len(x \o a) = Len(x) + Len(a)
        BY <1>1, <2>10, ConcatProperties
      <4>2. Len(a \o (b \o c)) = Len(a) + Len(b \o c)
        <5> DEFINE z == b \o c
        <5>1. z \in Seq(Byte) /\ a \in Seq(Byte)
          BY <2>2, <2>10
        <5> HIDE DEF z
        <5>2. Len(a \o z) = Len(a) + Len(z)
          BY <5>1, ConcatProperties
        <5> QED
          BY <5>2 DEF z
      <4> QED
        BY <4>1, <4>2
    <3>2. Len(a) \in Nat /\ Len(b) \in Nat /\ Len(c) \in Nat
      BY <2>1
    <3>3. n = Left(s) => Len(b) = 0 /\ Len(c) = 0
      BY <1>4, <1>6, <2>1, <3>1, <3>2
    <3>4. n = Left(s) => b = <<>> /\ c = <<>>
      BY <2>1, <3>3, EmptySeq
    <3> QED
      BY <2>1, <3>4 DEF SendBufferEmpty, p, q
  <2>8. All(v, d) = All(w, s)
    BY <1>7, <1>8, <2>1, <2>6
  <2>9. Sound(v, d)
    BY <1>7, <1>8, <2>1, <2>3, <2>5, <2>8
  <2> QED
    BY <1>2, <1>9, <2>7, <2>8, <2>9 DEF d, u
<1> QED
  BY <1>2, <1>10, <1>11

\* A message has been put between two others.
Grown(a, e, m, cmd) ==
  \E x, y \in Seq(Byte) : a = x \o y /\ e = x \o (Bytes(m, cmd) \o y)

LEMMA GrownKeeps ==
  ASSUME NEW m \in Nat, NEW cmd, NEW a, NEW e, Grown(a, e, m, cmd)
  PROVE  /\ MsgsOf(e) = MsgsOf(a) \cup {m}
         /\ Once(a) /\ m \notin MsgsOf(a) => Once(e)
         /\ Final(e, m) /\ \A k : Final(a, k) => Final(e, k)
<1> DEFINE s == Bytes(m, cmd)
<1>1. s \in Seq(Byte) /\ MsgsOf(s) = {m} /\ Once(s) /\ Final(s, m)
  BY BytesAre
<1>2. PICK x \in Seq(Byte), y \in Seq(Byte) : a = x \o y /\ e = x \o (s \o y)
  BY DEF Grown
<1> HIDE DEF s
<1>3. s \o y \in Seq(Byte)
  BY <1>1, <1>2, ConcatProperties
<1>4. MsgsOf(e) = MsgsOf(a) \cup {m}
  <2>1. MsgsOf(e) = MsgsOf(x) \cup MsgsOf(s \o y)
    BY <1>2, <1>3, MsgsJoin
  <2>2. MsgsOf(s \o y) = MsgsOf(s) \cup MsgsOf(y)
    BY <1>1, MsgsJoin
  <2>3. MsgsOf(a) = MsgsOf(x) \cup MsgsOf(y)
    BY <1>2, MsgsJoin
  <2> QED
    BY <1>1, <2>1, <2>2, <2>3
<1>5. Once(a) /\ m \notin MsgsOf(a) => Once(e)
  BY <1>1, <1>2, OnceInsert
<1>6. ASSUME NEW k, Final(a, k) \/ k = m PROVE Final(e, k)
  <2>1. Final(x, k) \/ Final(y, k) \/ Final(s, k)
    BY <1>1, <1>2, <1>6, FinalJoin
  <2>2. Final(s \o y, k) <=> Final(s, k) \/ Final(y, k)
    BY <1>1, <1>2, FinalJoin
  <2>3. Final(e, k) <=> Final(x, k) \/ Final(s \o y, k)
    BY <1>2, <1>3, FinalJoin
  <2> QED
    BY <2>1, <2>2, <2>3
<1> QED
  BY <1>4, <1>5, <1>6

\* send_socket: the message goes behind the lists or between them.
LEMMA AppendKeeps ==
  ASSUME NEW w \in Seq(Byte), NEW s \in Slot, NEW m \in Nat, NEW cmd
  PROVE  LET d == Appended(s, m, cmd)
         IN  /\ d \in Slot /\ Same(d, s) /\ d.dw = s.dw
             /\ Grown(All(w, s), All(w, d), m, cmd)
             /\ Sound(w, s) /\ m \notin MsgsOf(All(w, s)) => Sound(w, d)
             /\ Starts(s.high) => Starts(d.high)
<1> DEFINE d == Appended(s, m, cmd)  t == Bytes(m, cmd)  x == s.high  y == s.low  z == s.dw
<1>1. x \in Seq(Byte) /\ y \in Seq(Byte) /\ z \in Seq(Byte) /\ <<>> \in Seq(Byte)
  BY DEF Slot
<1>2. t \in Seq(Byte) /\ Chain(t) /\ t # <<>>
  BY BytesAre
<1>3. /\ x \o y \in Seq(Byte) /\ z \o x \in Seq(Byte) /\ z \o (x \o y) \in Seq(Byte)
      /\ w \o (z \o x) \in Seq(Byte) /\ w \o (z \o (x \o y)) \in Seq(Byte)
      /\ w \o (z \o (x \o y)) = (w \o (z \o x)) \o y
  <2> HIDE DEF x, y, z
  <2>1. /\ Cat(x, y) \in Seq(Byte) /\ Cat(z, x) \in Seq(Byte) /\ Cat(z, Cat(x, y)) \in Seq(Byte)
        /\ Cat(w, Cat(z, x)) \in Seq(Byte) /\ Cat(w, Cat(z, Cat(x, y))) \in Seq(Byte)
        /\ Cat(w, Cat(z, Cat(x, y))) = Cat(Cat(w, Cat(z, x)), y)
    BY <1>1, CatAssoc
  <2> QED
    BY <2>1 DEF Cat
<1>4. CASE d = [s EXCEPT !.low = @ \o Bytes(m, cmd)]
  <2>1. d = [s EXCEPT !.low = y \o t]
    BY <1>4 DEF Slot
  <2> HIDE DEF t
  <2>2. y \o t \in Seq(Byte)
    BY <1>1, <1>2, ConcatProperties
  <2> HIDE DEF d
  <2>3. d.high = x /\ d.low = y \o t /\ d.dw = z /\ Same(d, s) /\ d \in Slot
    <3> DEFINE r == y \o t
    <3> HIDE DEF r
    <3> QED
      BY <2>1, <2>2 DEF Slot, Same, r
  <2>4. All(w, s) = w \o (z \o (x \o y)) /\ All(w, d) = w \o (z \o (x \o (y \o t)))
    BY <2>3 DEF All
  <2>5. w \o (z \o (x \o (y \o t))) = (w \o (z \o (x \o y))) \o (t \o <<>>)
    <3> HIDE DEF x, y, z
    <3>1. Cat(w, Cat(z, Cat(x, Cat(y, t)))) = Cat(Cat(w, Cat(z, Cat(x, y))), t)
      BY <1>1, <1>2, CatAssoc
    <3>2. t \o <<>> = t
      BY <1>2, ConcatEmptySeq
    <3> QED
      BY <3>1, <3>2 DEF Cat
  <2>6. Grown(All(w, s), All(w, d), m, cmd)
    <3> DEFINE r == w \o (z \o (x \o y))
    <3>1. r \in Seq(Byte)
      BY <1>3
    <3>2. r \o <<>> = r
      <4> HIDE DEF r
      <4> QED
        BY <3>1, ConcatEmptySeq
    <3>3. All(w, s) = r \o <<>> /\ All(w, d) = r \o (t \o <<>>)
      BY <2>4, <2>5, <3>2
    <3> HIDE DEF r
    <3> QED
      BY <1>1, <3>1, <3>3 DEF Grown, t
  <2>7. Chain(y) => Chain(y \o t)
    <3> HIDE DEF y
    <3> QED
      BY <1>1, <1>2, ChainJoin
  <2>8. Sound(w, s) /\ m \notin MsgsOf(All(w, s)) => Sound(w, d)
    BY <2>3, <2>6, <2>7, GrownKeeps DEF Sound
  <2> QED
    BY <2>3, <2>6, <2>8 DEF d
<1>5. CASE d = [s EXCEPT !.high = @ \o Bytes(m, cmd)]
  <2>1. d = [s EXCEPT !.high = x \o t]
    BY <1>5 DEF Slot
  <2> HIDE DEF t
  <2>2. x \o t \in Seq(Byte)
    BY <1>1, <1>2, ConcatProperties
  <2> HIDE DEF d
  <2>3. d.high = x \o t /\ d.low = y /\ d.dw = z /\ Same(d, s) /\ d \in Slot
    <3> DEFINE r == x \o t
    <3> HIDE DEF r
    <3> QED
      BY <2>1, <2>2 DEF Slot, Same, r
  <2>4. All(w, s) = w \o (z \o (x \o y)) /\ All(w, d) = w \o (z \o ((x \o t) \o y))
    BY <2>3 DEF All
  <2>5. /\ w \o (z \o ((x \o t) \o y)) = (w \o (z \o x)) \o (t \o y)
        /\ w \o (z \o (x \o t)) = (w \o (z \o x)) \o t
    <3> HIDE DEF x, y, z
    <3>1. /\ Cat(w, Cat(z, Cat(Cat(x, t), y))) = Cat(Cat(w, Cat(z, x)), Cat(t, y))
          /\ Cat(w, Cat(z, Cat(x, t))) = Cat(Cat(w, Cat(z, x)), t)
      BY <1>1, <1>2, CatAssoc
    <3> QED
      BY <3>1 DEF Cat
  <2>6. Grown(All(w, s), All(w, d), m, cmd)
    <3> DEFINE r == w \o (z \o x)
    <3>1. r \in Seq(Byte)
      BY <1>3
    <3>2. All(w, s) = r \o y /\ All(w, d) = r \o (t \o y)
      BY <1>3, <2>4, <2>5
    <3> HIDE DEF r
    <3> QED
      BY <1>1, <3>1, <3>2 DEF Grown, t
  <2>7. Chain(w \o (z \o x)) => Chain((w \o (z \o x)) \o t)
    <3> DEFINE r == w \o (z \o x)
    <3>1. r \in Seq(Byte)
      BY <1>3
    <3> HIDE DEF r
    <3>2. Chain(r) => Chain(r \o t)
      BY <1>2, <3>1, ChainJoin
    <3> QED
      BY <3>2 DEF r
  <2>8. Sound(w, s) /\ m \notin MsgsOf(All(w, s)) => Sound(w, d)
    BY <2>3, <2>5, <2>6, <2>7, GrownKeeps DEF Sound
  <2>9. Starts(x) => Starts(x \o t)
    <3> HIDE DEF x
    <3>1. CASE x = <<>>
      <4>1. <<>> \o t = t
        BY <1>2, ConcatEmptySeq
      <4> QED
        BY <1>2, <3>1, <4>1 DEF Chain
    <3>2. CASE x # <<>>
      <4>1. (x \o t)[1] = x[1]
        <5>1. 1 \in 1..Len(x)
          BY <1>1, <3>2
        <5> QED
          BY <1>1, <1>2, <5>1, ConcatAt
      <4> QED
        BY <3>2, <4>1 DEF Starts
    <3> QED
      BY <3>1, <3>2
  <2> QED
    BY <2>3, <2>6, <2>8, <2>9 DEF d
<1> QED
  BY <1>4, <1>5 DEF Appended

LEMMA Divided ==
  ASSUME NEW w \in Seq(Byte), NEW t \in Seq(Byte), NEW n \in 0..Len(t)
  PROVE  \A r \in Seq(Byte) :
           (w \o SubSeq(t, 1, n)) \o (SubSeq(t, n + 1, Len(t)) \o r) = w \o (t \o r)
<1> DEFINE a == SubSeq(t, 1, n)  b == SubSeq(t, n + 1, Len(t))
<1>1. a \in Seq(Byte) /\ b \in Seq(Byte) /\ t = a \o b
  BY SubAt
<1> HIDE DEF a, b
<1>2. \A q \in Seq(Byte) : (w \o a) \o q = w \o (a \o q)
  <2>1. \A q \in Seq(Byte) : Cat(Cat(w, a), q) = Cat(w, Cat(a, q))
    BY <1>1, CatAssoc
  <2> QED
    BY <2>1 DEF Cat
<1>3. \A q \in Seq(Byte) : b \o q \in Seq(Byte) /\ (a \o b) \o q = a \o (b \o q)
  <2>1. \A q \in Seq(Byte) : Cat(b, q) \in Seq(Byte) /\ Cat(Cat(a, b), q) = Cat(a, Cat(b, q))
    BY <1>1, CatAssoc
  <2> QED
    BY <2>1 DEF Cat
<1>4. ASSUME NEW r \in Seq(Byte)
      PROVE  (w \o a) \o (b \o r) = w \o (t \o r)
  <2> DEFINE z == b \o r
  <2>1. z \in Seq(Byte) /\ t \o r = a \o z
    BY <1>1, <1>3
  <2> HIDE DEF z
  <2>2. (w \o a) \o z = w \o (a \o z)
    BY <1>2, <2>1
  <2> QED
    BY <2>1, <2>2 DEF z
<1> QED
  BY <1>4 DEF a, b

\* A direct write, of which the rest comes before the lists.
LEMMA WriteKeeps ==
  ASSUME NEW w \in Seq(Byte), NEW s \in Slot, NEW d \in Slot, NEW m \in Nat, NEW cmd,
         s.dw = <<>>, d.high = s.high, d.low = s.low, NEW n \in 0..Len(Bytes(m, cmd)),
         d.dw = SubSeq(Bytes(m, cmd), n + 1, Len(Bytes(m, cmd)))
  PROVE  LET v == w \o SubSeq(Bytes(m, cmd), 1, n)
         IN  /\ v \in Seq(Byte)
             /\ Grown(All(w, s), All(v, d), m, cmd)
             /\ Sound(w, s) /\ Starts(s.high) /\ m \notin MsgsOf(All(w, s)) => Sound(v, d)
<1> DEFINE t == Bytes(m, cmd)  a == SubSeq(t, 1, n)  b == SubSeq(t, n + 1, Len(t))
           v == w \o a  x == s.high  y == s.low
<1>1. x \in Seq(Byte) /\ y \in Seq(Byte)
  BY DEF Slot
<1>2. t \in Seq(Byte) /\ Chain(t)
  BY BytesAre
<1>3. a \in Seq(Byte) /\ b \in Seq(Byte) /\ t = a \o b
  <2>1. n \in 0..Len(t)
    OBVIOUS
  <2> HIDE DEF t
  <2> QED
    BY <1>2, <2>1, SubAt
<1>4. d.dw = b
  OBVIOUS
<1> HIDE DEF a, b, t
<1>5. v \in Seq(Byte)
  BY <1>3, CatAssoc DEF Cat
<1>6. All(w, s) = w \o (x \o y) /\ All(v, d) = v \o (b \o (x \o y))
  <2>1. <<>> \o (x \o y) = x \o y
    <3> DEFINE r == x \o y
    <3>1. r \in Seq(Byte)
      <4> HIDE DEF x, y
      <4> QED
        BY <1>1, CatAssoc DEF Cat
    <3> HIDE DEF r
    <3>2. <<>> \o r = r
      BY <3>1, ConcatEmptySeq
    <3> QED
      BY <3>2 DEF r
  <2> QED
    BY <1>4, <2>1 DEF All
<1>7. \A r \in Seq(Byte) : v \o (b \o r) = w \o (t \o r)
  <2>1. n \in 0..Len(t) /\ t \in Seq(Byte)
    BY <1>2 DEF t
  <2> QED
    BY <2>1, Divided DEF a, b
<1>8. x \o y \in Seq(Byte)
  <2> HIDE DEF x, y
  <2> QED
    <3>1. Cat(x, y) \in Seq(Byte)
      BY <1>1, CatAssoc
    <3> QED
      BY <3>1 DEF Cat
<1>9. Grown(All(w, s), All(v, d), m, cmd)
  <2> DEFINE r == x \o y
  <2>1. All(w, s) = w \o r /\ All(v, d) = w \o (t \o r) /\ r \in Seq(Byte)
    BY <1>6, <1>7, <1>8
  <2> HIDE DEF r, v
  <2> QED
    BY <2>1 DEF Grown, t
<1>10. ASSUME Sound(w, s), Starts(s.high), m \notin MsgsOf(All(w, s))
       PROVE  Sound(v, d)
  <2>1. Chain(w \o x) /\ Chain(y) /\ Once(All(w, s)) /\ Starts(x)
    <3>1. <<>> \o x = x
      <4> HIDE DEF x
      <4> QED
        BY <1>1, ConcatEmptySeq
    <3> QED
      BY <1>10, <3>1 DEF Sound
  <2>2. Chain(w) /\ Chain(x)
    <3> HIDE DEF x
    <3> QED
      BY <1>1, <2>1, ChainSplit
  <2>3. t \o x \in Seq(Byte) /\ Chain(t \o x)
    <3> HIDE DEF x
    <3> QED
      BY <1>1, <1>2, <2>2, ChainJoin, ConcatProperties
  <2>4. Chain(w \o (t \o x))
    <3> DEFINE r == t \o x
    <3> HIDE DEF r
    <3> QED
      BY <2>2, <2>3, ChainJoin DEF r
  <2>5. v \o (b \o x) = w \o (t \o x)
    BY <1>1, <1>7
  <2>6. Once(All(v, d))
    BY <1>9, <1>10, <2>1, GrownKeeps
  <2> HIDE DEF v
  <2> QED
    BY <1>4, <2>1, <2>4, <2>5, <2>6 DEF Sound
<1> QED
  BY <1>5, <1>9, <1>10 DEF t, a

\* A datagram that is written at once, when nothing is before it.
LEMMA WireKeeps ==
  ASSUME NEW w \in Seq(Byte), NEW s \in Slot, NEW m \in Nat, NEW cmd,
         s.dw = <<>>, s.high = <<>>, s.low = <<>>
  PROVE  LET v == w \o Bytes(m, cmd)
         IN  /\ v \in Seq(Byte)
             /\ Grown(All(w, s), All(v, s), m, cmd)
             /\ Sound(w, s) /\ m \notin MsgsOf(All(w, s)) => Sound(v, s)
<1> DEFINE t == Bytes(m, cmd)  n == Len(t)
<1>1. t \in Seq(Byte)
  BY BytesAre
<1>2. SubSeq(t, 1, n) = t /\ SubSeq(t, n + 1, n) = <<>> /\ n \in 0..n
  <2> HIDE DEF t
  <2>1. n \in Nat
    BY <1>1
  <2> HIDE DEF n
  <2>2. n + 1 \in Int /\ n \in Int /\ n < n + 1
    BY <2>1
  <2> QED
    BY <1>1, <2>1, <2>2, SubSeqFull, SubSeqEmpty DEF n
<1>3. s.dw = SubSeq(t, n + 1, n)
  BY <1>2
<1>4. Starts(s.high)
  BY DEF Starts
<1>5. LET v == w \o SubSeq(t, 1, n)
      IN  /\ v \in Seq(Byte)
          /\ Grown(All(w, s), All(v, s), m, cmd)
          /\ Sound(w, s) /\ Starts(s.high) /\ m \notin MsgsOf(All(w, s)) => Sound(v, s)
  BY <1>2, <1>3, WriteKeeps
<1> QED
  BY <1>2, <1>4, <1>5

-----------------------------------------------------------------------------
\* WholeMessages of one socket.
Whole(w) ==
  /\ IsInjective(w)
  /\ \A j \in 1..Len(w) : w[j].b > 1 => j > 1 /\ w[j - 1] = [w[j] EXCEPT !.b = @ - 1]
  /\ \A j \in 1..Len(w) - 1 : w[j].b \in 1..Size - 1 => w[j + 1].m = w[j].m

LEMMA SoundWhole ==
  ASSUME NEW w \in Seq(Byte), NEW s \in Slot, Sound(w, s)
  PROVE  Whole(w)
<1> DEFINE x == s.dw \o s.high  y == s.dw \o (s.high \o s.low)
<1>1. x \in Seq(Byte) /\ y \in Seq(Byte)
  <2>1. s.dw \in Seq(Byte) /\ s.high \in Seq(Byte) /\ s.low \in Seq(Byte)
    BY DEF Slot
  <2>2. s.high \o s.low \in Seq(Byte)
    BY <2>1, ConcatProperties
  <2> QED
    BY <2>1, <2>2, ConcatProperties
<1>2. Chain(w \o x) /\ Once(w \o y)
  BY DEF Sound, All
<1> HIDE DEF x, y
<1>3. /\ Len(w \o x) = Len(w) + Len(x) /\ Len(w) \in Nat /\ Len(x) \in Nat /\ Len(y) \in Nat
      /\ \A j \in 1..Len(w) : (w \o x)[j] = w[j]
      /\ Len(w \o y) = Len(w) + Len(y)
      /\ \A j \in 1..Len(w) : (w \o y)[j] = w[j]
  BY <1>1, ConcatAt
<1>4. IsInjective(w)
  <2>1. \A j \in 1..Len(w) : j \in 1..Len(w \o y)
    BY <1>3
  <2>2. \A j, k \in 1..Len(w) : w[j] = w[k] => j = k
    BY <1>2, <1>3, <2>1 DEF Once
  <2>3. DOMAIN w = 1..Len(w)
    OBVIOUS
  <2> QED
    BY <2>2, <2>3 DEF IsInjective
<1>5. \A j \in 1..Len(w) : w[j] \in Byte
  BY ElementOfSeq
<1>6. ASSUME NEW j \in 1..Len(w) - 1
      PROVE  Follows(w[j], w[j + 1])
  <2>1. j \in 1..Len(w \o x) - 1 /\ j \in 1..Len(w) /\ j + 1 \in 1..Len(w)
    BY <1>3
  <2> QED
    BY <1>2, <1>3, <2>1 DEF Chain, Runs
<1>7. ASSUME NEW j \in 1..Len(w), w[j].b > 1
      PROVE  j > 1 /\ w[j - 1] = [w[j] EXCEPT !.b = @ - 1]
  <2>1. j # 1
    <3>1. ASSUME j = 1 PROVE FALSE
      <4>1. w \o x # <<>> /\ (w \o x)[1] = w[1] /\ w[1] \in Byte
        BY <1>3, <1>5, <3>1
      <4>2. w[1].b \in {0, 1}
        BY <1>2, <4>1 DEF Chain, Starts
      <4> QED
        BY <1>7, <3>1, <4>2
    <3> QED
      BY <3>1
  <2> DEFINE k == j - 1
  <2>2. k \in 1..Len(w) - 1 /\ k \in 1..Len(w) /\ k + 1 = j /\ j > 1
    BY <1>3, <2>1
  <2> DEFINE u == w[k]  v == w[j]
  <2>3. Follows(u, v) /\ u \in Byte /\ v \in Byte /\ v.b > 1
    BY <1>5, <1>6, <1>7, <2>2
  <2> HIDE DEF u, v
  <2>4. u.m = v.m /\ u.b = v.b - 1
    BY <2>3, SocketAssumption DEF Follows, Byte
  <2>5. u = [v EXCEPT !.b = @ - 1]
    BY <2>3, <2>4 DEF Byte
  <2> QED
    BY <2>2, <2>5 DEF u, v
<1>8. ASSUME NEW j \in 1..Len(w) - 1, w[j].b \in 1..Size - 1
      PROVE  w[j + 1].m = w[j].m
  <2> DEFINE u == w[j]  v == w[j + 1]
  <2>1. Follows(u, v) /\ u.b \in 1..Size - 1
    BY <1>6, <1>8
  <2> HIDE DEF u, v
  <2>2. u.b \notin {0, Size}
    BY <2>1, SocketAssumption
  <2>3. v.m = u.m
    BY <2>1, <2>2 DEF Follows
  <2> QED
    BY <2>3 DEF u, v
<1> QED
  BY <1>4, <1>7, <1>8 DEF Whole

Openers == {"O", "U"}
Senders == {"D", "P", "A"}
Closers == {"K", "S"}

Call ==
  {NoOp}
    \cup [step : {"pipe"}, id : Ids, m : {0}, cmd : Openers]
    \cup [step : {"look", "try", "lists", "rest", "write", "inc", "pipe"}, id : Ids,
          m : Nat \ {0}, cmd : Senders]

Request ==
  [cmd : Openers \cup Closers, id : Ids, m : {0}] \cup [cmd : Senders, id : Ids, m : Nat \ {0}]

TypeOK ==
  /\ sock \in [Ids -> Slot]
  /\ pipe \in Seq(Request)
  /\ ev \subseteq [id : Ids, read : BOOLEAN, write : BOOLEAN]
  /\ closing \subseteq Ids
  /\ op \in [Threads -> Call]
  /\ wire \in [Ids -> Seq(Byte)]
  /\ known \subseteq Ids
  /\ sends \in Nat
  /\ due \in [Ids -> SUBSET (Nat \ {0})]
  /\ asked \subseteq Ids
  /\ fate \in [Ids -> {"open", "flushed", "cut"}]

Requests == 1..Len(pipe)

\* One open is under way for a socket that is reserved, and before anything
\* else that is asked of it.
Opens(t, i) == op[t].cmd \in Openers /\ op[t].id = i
Asks(k, i)  == pipe[k].cmd \in Openers /\ pipe[k].id = i

Opening ==
  /\ \A i \in Ids, t \in Threads : Opens(t, i) =>
       /\ sock[i].type = "RESERVE" /\ i \notin known
       /\ \A u \in Threads : Opens(u, i) => u = t
       /\ \A k \in Requests : pipe[k].id # i
  /\ \A i \in Ids, k \in Requests : Asks(k, i) =>
       /\ sock[i].type = "RESERVE"
       /\ pipe[k].cmd = "O" => i \notin known
       /\ \A j \in Requests : pipe[j].id = i => j >= k
  /\ \A i \in Ids : sock[i].type = "RESERVE" /\ i \in known => \E k \in Requests : Asks(k, i)

\* Nobody names a socket before its id is known.
Unknown ==
  \A i \in Ids : i \notin known =>
    /\ \A t \in Threads : op[t].id = i => op[t].cmd \in Openers
    /\ \A k \in Requests : pipe[k].id = i => pipe[k].cmd \in Openers
    /\ i \notin asked

\* A socket is opened once and closed once.
Lives ==
  \A i \in Ids :
    /\ fate[i] # "open" /\ i \notin closing => sock[i].type = "INVALID"
    /\ i \in closing => /\ fate[i] # "open" /\ sock[i].type \notin {"RESERVE", "INVALID"}
                       /\ \A j \in closing : j = i
    /\ sock[i].type = "INVALID" /\ fate[i] = "open" => i \notin known
    /\ sock[i].type = "RESERVE" \/ (sock[i].type = "INVALID" /\ fate[i] = "open") =>
         ~sock[i].lock /\ sock[i].protocol = "UNKNOWN"

Protocols ==
  /\ \A i \in Ids : sock[i].protocol # "TCP" => sock[i].dw = <<>>
  /\ \A t \in Threads :
       /\ op[t].cmd \in {"D", "P"} => sock[op[t].id].protocol = "TCP"
       /\ op[t].cmd = "A" => sock[op[t].id].protocol # "TCP"
  /\ \A k \in Requests : pipe[k].cmd = "A" => sock[pipe[k].id].protocol # "TCP"

\* One thread holds the lock of a socket, and what it has checked still holds:
\* the high list may have got messages since, but none of them is begun.
Holds(t) == op[t].step \in {"lists", "rest", "write"}

Locks ==
  /\ \A t \in Threads : op[t].step = "try" => sock[op[t].id].type # "RESERVE"
  /\ \A t \in Threads : Holds(t) =>
       /\ sock[op[t].id].lock
       /\ \A u \in Threads : Holds(u) /\ op[u].id = op[t].id => u = t
  /\ \A t \in Threads : op[t].step \in {"rest", "write"} => Starts(sock[op[t].id].high)
  /\ \A t \in Threads : op[t].step = "write" =>
       sock[op[t].id].dw = <<>> /\ sock[op[t].id].type # "INVALID"

\* A message is in one call, in one request, or among the bytes of a socket.
Got(i) == All(wire[i], sock[i])

Fresh ==
  /\ \A t \in Threads : op[t].m # 0 =>
       /\ op[t].m <= sends
       /\ \A u \in Threads : op[u].m = op[t].m => u = t
       /\ \A k \in Requests : pipe[k].m # op[t].m
       /\ \A i \in Ids : op[t].m \notin MsgsOf(Got(i)) /\ op[t].m \notin due[i]
  /\ \A k \in Requests : pipe[k].m # 0 =>
       /\ pipe[k].m <= sends
       /\ \A j \in Requests : pipe[j].m = pipe[k].m => j = k
       /\ \A i \in Ids : pipe[k].m \notin MsgsOf(Got(i))
  /\ \A i \in Ids : \A m \in MsgsOf(Got(i)) \cup due[i] : m <= sends

\* Until it fails, the bytes of a socket are messages one after the other.
Streams ==
  \A i \in Ids : fate[i] # "cut" =>
    /\ Whole(wire[i])
    /\ sock[i].type # "INVALID" \/ fate[i] = "open" => Sound(wire[i], sock[i])

\* A message that is due is among the bytes, or in the pipe before the
\* request to close.
Dues ==
  /\ \A i \in Ids : fate[i] = "open" => \A m \in due[i] :
       Final(Got(i), m) \/ \E k \in Requests : pipe[k].id = i /\ pipe[k].m = m
  /\ \A i \in Ids : fate[i] = "flushed" => i \in asked /\ \A m \in due[i] : Final(wire[i], m)
  /\ \A k \in Requests : pipe[k].cmd \in Closers =>
       /\ pipe[k].id \in asked
       /\ \A j \in Requests : j > k /\ pipe[j].id = pipe[k].id => pipe[j].m \notin due[pipe[k].id]
  /\ \A i \in Ids : sock[i].type = "HALFCLOSE" =>
       /\ i \in asked
       /\ \A k \in Requests : pipe[k].id = i => pipe[k].m \notin due[i]

Inv ==
  TypeOK /\ Opening /\ Unknown /\ Lives /\ Protocols /\ Locks /\ Fresh /\ Streams /\ Dues

-----------------------------------------------------------------------------
\* The pipe without its first c requests.
Reads(c) ==
  /\ pipe' \in Seq(Request) /\ Len(pipe) = Len(pipe') + c
  /\ \A k \in 1..Len(pipe') : pipe'[k] = pipe[k + c]

LEMMA ReadsNone ==
  ASSUME TypeOK, UNCHANGED pipe
  PROVE  Reads(0)
<1>1. Len(pipe) \in Nat /\ pipe \in Seq(Request)
  BY DEF TypeOK
<1> QED
  BY <1>1 DEF Reads

LEMMA ReadsOne ==
  ASSUME TypeOK, pipe # <<>>, pipe' = Tail(pipe)
  PROVE  Reads(1) /\ 1 \in Requests /\ Head(pipe) = pipe[1] /\ pipe[1] \in Request
<1>1. pipe \in Seq(Request)
  BY DEF TypeOK
<1>2. Len(pipe) \in Nat \ {0} /\ Head(pipe) = pipe[1]
  BY <1>1
<1>3. /\ Tail(pipe) \in Seq(Request) /\ Len(Tail(pipe)) = Len(pipe) - 1
      /\ \A i \in 1..Len(Tail(pipe)) : Tail(pipe)[i] = pipe[i + 1]
  BY <1>1, HeadTailProperties
<1>4. Len(pipe) = Len(pipe') + 1
  BY <1>2, <1>3
<1>5. 1 \in Requests /\ pipe[1] \in Request
  BY <1>1, <1>2, ElementOfSeq DEF Requests
<1> QED
  BY <1>2, <1>3, <1>4, <1>5 DEF Reads

\* Where the requests have been.
LEMMA ReadsAt ==
  ASSUME TypeOK, NEW c \in {0, 1}, Reads(c)
  PROVE  /\ Requests' = 1..Len(pipe')
         /\ \A k \in Requests' : k + c \in Requests /\ pipe'[k] = pipe[k + c]
         /\ \A k \in Requests' : k \in Nat
         /\ \A k \in Requests : k > c => k - c \in Requests' /\ pipe'[k - c] = pipe[k]
<1>1. Len(pipe) \in Nat /\ Len(pipe') \in Nat /\ Len(pipe) = Len(pipe') + c
  BY DEF Reads, TypeOK
<1>2. Requests' = 1..Len(pipe') /\ Requests = 1..Len(pipe)
  BY DEF Requests
<1>3. ASSUME NEW k \in Requests' PROVE k + c \in Requests /\ pipe'[k] = pipe[k + c] /\ k \in Nat
  BY <1>1, <1>2 DEF Reads
<1>4. ASSUME NEW k \in Requests, k > c PROVE k - c \in Requests' /\ pipe'[k - c] = pipe[k]
  <2>1. k - c \in 1..Len(pipe') /\ (k - c) + c = k
    BY <1>1, <1>2, <1>4
  <2> QED
    BY <1>2, <2>1 DEF Reads
<1> QED
  BY <1>2, <1>3, <1>4

\* The socket thread has done something for socket i, which is now d, with
\* bytes v, and perhaps about to be closed; c requests have been read.
Serves(i, d, v, how, c) ==
  /\ sock' = [sock EXCEPT ![i] = d] /\ wire' = [wire EXCEPT ![i] = v]
  /\ fate' = [fate EXCEPT ![i] = how] /\ closing' = (IF how = "open" THEN {} ELSE {i})
  /\ closing = {} /\ fate[i] = "open"
  /\ sock[i].type \notin {"INVALID", "RESERVE"} /\ d.type \notin {"INVALID", "RESERVE"}
  /\ d.protocol = sock[i].protocol /\ d.lock = sock[i].lock
  /\ d.dw = sock[i].dw \/ (d.dw = <<>> /\ ~d.lock)
  /\ d.lock /\ Starts(sock[i].high) => Starts(d.high)
  /\ known' \in {known, known \cup {i}}
  /\ ev' \subseteq [id : Ids, read : BOOLEAN, write : BOOLEAN]
  /\ UNCHANGED <<op, sends, due, asked>>
  /\ Reads(c)
  /\ c = 1 => 1 \in Requests /\ pipe[1].id = i /\ pipe[1].cmd \notin Openers

Keeps(i, d, v, how, c) ==
  /\ how # "cut" =>
       Sound(v, d) /\ \A m : Final(Got(i), m) => Final(All(v, d), m)
  /\ \A m \in MsgsOf(All(v, d)) : m \in MsgsOf(Got(i)) \/ (c = 1 /\ m = pipe[1].m /\ m # 0)
  /\ how = "open" /\ c = 1 => pipe[1].m = 0 \/ Final(All(v, d), pipe[1].m)
  /\ d.type = "HALFCLOSE" \/ how = "flushed" =>
       i \in asked /\ \A k \in 1..Len(pipe') : pipe'[k].id = i => pipe'[k].m \notin due[i]
  /\ how = "flushed" => All(v, d) = v /\ (c = 1 => pipe[1].m = 0)

LEMMA Served ==
  ASSUME Inv, NEW i \in Ids, NEW d \in Slot, NEW v \in Seq(Byte),
         NEW how \in {"open", "flushed", "cut"}, NEW c \in {0, 1},
         Serves(i, d, v, how, c), Keeps(i, d, v, how, c)
  PROVE  Inv'
<1> USE DEF Inv
<1>1. TypeOK'
  BY DEF Serves, TypeOK, Reads
<1>2. /\ \A j \in Ids : sock'[j] = IF j = i THEN d ELSE sock[j]
      /\ \A j \in Ids : wire'[j] = IF j = i THEN v ELSE wire[j]
      /\ \A j \in Ids : fate'[j] = IF j = i THEN how ELSE fate[j]
  BY DEF Serves, TypeOK
<1>3. /\ \A k \in Requests' : k + c \in Requests /\ pipe'[k] = pipe[k + c]
      /\ \A k \in Requests' : k \in Nat
      /\ \A k \in Requests : k > c => k - c \in Requests' /\ pipe'[k - c] = pipe[k]
      /\ \A k \in Requests : k \in Nat \ {0}
      /\ Requests' = 1..Len(pipe')
  <2>1. TypeOK /\ Reads(c)
    BY DEF Serves
  <2>2. \A k \in Requests : k \in Nat \ {0}
    BY DEF Requests
  <2> HIDE DEF Inv
  <2> QED
    BY <2>1, <2>2, ReadsAt
<1>4. \A t \in Threads : op[t] \in Call
  BY DEF TypeOK
<1>5. \A k \in Requests : pipe[k] \in Request
  BY ElementOfSeq DEF TypeOK, Requests
<1>6. ASSUME NEW k \in Requests, c = 1, pipe[k].cmd \in Openers PROVE k > c
  BY <1>3, <1>6 DEF Serves
<1>7. Opening'
  <2>1. ASSUME NEW j \in Ids, NEW t \in Threads, Opens(t, j)'
        PROVE  /\ sock'[j].type = "RESERVE" /\ j \notin known'
               /\ \A u \in Threads : Opens(u, j)' => u = t
               /\ \A k \in Requests' : pipe'[k].id # j
    <3>1. op' = op /\ Opens(t, j)
      BY <2>1 DEF Opens, Serves
    <3>2. /\ sock[j].type = "RESERVE" /\ j \notin known
          /\ \A u \in Threads : Opens(u, j) => u = t
          /\ \A k \in Requests : pipe[k].id # j
      BY <3>1 DEF Opening
    <3>3. j # i
      BY <3>2 DEF Serves
    <3>4. sock'[j].type = "RESERVE" /\ j \notin known'
      BY <1>2, <3>2, <3>3 DEF Serves
    <3>5. \A u \in Threads : Opens(u, j)' => u = t
      BY <3>1, <3>2 DEF Opens
    <3>6. \A k \in Requests' : pipe'[k].id # j
      BY <1>3, <3>2
    <3> QED
      BY <3>4, <3>5, <3>6
  <2>2. ASSUME NEW j \in Ids, NEW k \in Requests', Asks(k, j)'
        PROVE  /\ sock'[j].type = "RESERVE"
               /\ pipe'[k].cmd = "O" => j \notin known'
               /\ \A l \in Requests' : pipe'[l].id = j => l >= k
    <3>1. k + c \in Requests /\ Asks(k + c, j)
      BY <1>3, <2>2 DEF Asks
    <3>2. /\ sock[j].type = "RESERVE" /\ (pipe[k + c].cmd = "O" => j \notin known)
          /\ \A l \in Requests : pipe[l].id = j => l >= k + c
      BY <3>1 DEF Opening
    <3>3. ASSUME NEW l \in Requests', pipe'[l].id = j PROVE l >= k
      <4>1. l + c \in Requests /\ pipe[l + c].id = j
        BY <1>3, <3>3
      <4>2. l + c >= k + c
        BY <3>2, <4>1
      <4> QED
        BY <1>3, <4>2
    <3>4. j # i
      BY <3>2 DEF Serves
    <3> QED
      BY <1>2, <1>3, <3>2, <3>3, <3>4 DEF Serves
  <2>3. ASSUME NEW j \in Ids, sock'[j].type = "RESERVE", j \in known'
        PROVE  \E k \in Requests' : Asks(k, j)'
    <3>1. sock[j].type = "RESERVE" /\ j \in known
      BY <1>2, <2>3 DEF Serves
    <3>2. PICK k \in Requests : Asks(k, j)
      BY <3>1 DEF Opening
    <3>3. k > c
      BY <1>3, <1>6, <3>2 DEF Asks
    <3> QED
      BY <1>3, <3>2, <3>3 DEF Asks
  <2> QED
    BY <2>1, <2>2, <2>3 DEF Opening
<1>8. Unknown'
  BY <1>3 DEF Unknown, Serves
<1>9. Lives'
  BY <1>2 DEF Lives, Serves
<1>10. \A t \in Threads : op[t].cmd \in Senders => op[t].id \in Ids
  BY <1>4 DEF Call, NoOp, Senders
<1>11. Protocols'
  <2>1. \A j \in Ids : sock'[j].protocol = sock[j].protocol
    BY <1>2 DEF Serves
  <2>2. \A j \in Ids : sock'[j].protocol # "TCP" => sock'[j].dw = <<>>
    BY <1>2, <2>1 DEF Protocols, Serves
  <2>3. \A k \in Requests : pipe[k].id \in Ids
    BY <1>5 DEF Request
  <2> QED
    <3>1. op' = op
      BY DEF Serves
    <3>2. ASSUME NEW t \in Threads
          PROVE  /\ op'[t].cmd \in {"D", "P"} => sock'[op'[t].id].protocol = "TCP"
                 /\ op'[t].cmd = "A" => sock'[op'[t].id].protocol # "TCP"
      BY <1>10, <2>1, <3>1 DEF Protocols, Senders
    <3>3. ASSUME NEW k \in Requests', pipe'[k].cmd = "A"
          PROVE  sock'[pipe'[k].id].protocol # "TCP"
      BY <1>3, <2>1, <2>3, <3>3 DEF Protocols
    <3> QED
      BY <2>2, <3>2, <3>3 DEF Protocols
<1>12. \A t \in Threads : op[t].step \in {"try", "lists", "rest", "write"} => op[t].id \in Ids
  BY <1>4 DEF Call, NoOp
<1>13. Locks'
  BY <1>2, <1>12 DEF Locks, Holds, Serves
<1>14. \A j \in Ids : Got(j)' = IF j = i THEN All(v, d) ELSE Got(j)
  BY <1>2 DEF Got
<1>15. ASSUME NEW j \in Ids, NEW m \in MsgsOf(Got(j)')
       PROVE  m \in MsgsOf(Got(j)) \/ (c = 1 /\ m = pipe[1].m /\ m # 0)
  BY <1>14, <1>15 DEF Keeps
<1>16. Fresh'
  <2>1. c = 1 => 1 \in Requests
    BY DEF Serves
  <2>2. ASSUME NEW t \in Threads, op'[t].m # 0
        PROVE  /\ op'[t].m <= sends'
               /\ \A u \in Threads : op'[u].m = op'[t].m => u = t
               /\ \A k \in Requests' : pipe'[k].m # op'[t].m
               /\ \A j \in Ids : op'[t].m \notin MsgsOf(Got(j)') /\ op'[t].m \notin due'[j]
    <3>1. op' = op /\ due' = due /\ sends' = sends /\ op[t].m # 0
      BY <2>2 DEF Serves
    <3>2. /\ op[t].m <= sends
          /\ \A u \in Threads : op[u].m = op[t].m => u = t
          /\ \A k \in Requests : pipe[k].m # op[t].m
          /\ \A j \in Ids : op[t].m \notin MsgsOf(Got(j)) /\ op[t].m \notin due[j]
      BY <3>1 DEF Fresh
    <3>3. \A k \in Requests' : pipe'[k].m # op[t].m
      BY <1>3, <3>2
    <3>4. \A j \in Ids : op[t].m \notin MsgsOf(Got(j)')
      BY <1>15, <2>1, <3>2
    <3> QED
      BY <3>1, <3>2, <3>3, <3>4
  <2>3. ASSUME NEW k \in Requests', pipe'[k].m # 0
        PROVE  /\ pipe'[k].m <= sends'
               /\ \A l \in Requests' : pipe'[l].m = pipe'[k].m => l = k
               /\ \A j \in Ids : pipe'[k].m \notin MsgsOf(Got(j)')
    <3>1. k + c \in Requests /\ pipe'[k] = pipe[k + c] /\ k \in Nat \ {0}
      BY <1>3
    <3>2. ASSUME NEW l \in Requests', pipe'[l].m = pipe'[k].m PROVE l = k
      <4>1. l + c \in Requests /\ pipe'[l] = pipe[l + c] /\ l \in Nat
        BY <1>3
      <4>2. l + c = k + c
        BY <2>3, <3>1, <3>2, <4>1 DEF Fresh
      <4> QED
        BY <3>1, <4>1, <4>2
    <3>3. ASSUME NEW j \in Ids PROVE pipe'[k].m \notin MsgsOf(Got(j)')
      <4>1. pipe[k + c].m \notin MsgsOf(Got(j))
        BY <2>3, <3>1 DEF Fresh
      <4>2. c = 1 => pipe[k + c].m # pipe[1].m
        <5>1. c = 1 => k + c # 1
          BY <3>1
        <5> QED
          BY <2>1, <2>3, <3>1, <5>1 DEF Fresh
      <4> QED
        BY <1>15, <3>1, <4>1, <4>2
    <3> QED
      BY <2>3, <3>1, <3>2, <3>3 DEF Fresh, Serves
  <2>4. ASSUME NEW j \in Ids, NEW m \in MsgsOf(Got(j)') \cup due'[j] PROVE m <= sends'
    BY <1>15, <2>1, <2>4 DEF Fresh, Serves
  <2> QED
    BY <2>2, <2>3, <2>4 DEF Fresh
<1>17. Streams'
  <2>1. how # "cut" => Whole(v) /\ Sound(v, d)
    BY SoundWhole DEF Keeps
  <2> QED
    BY <1>2, <2>1 DEF Streams
<1>18. Dues'
  <2>1. ASSUME NEW j \in Ids, fate'[j] = "open", NEW m \in due'[j]
        PROVE  Final(Got(j)', m) \/ \E k \in Requests' : pipe'[k].id = j /\ pipe'[k].m = m
    <3>1. fate[j] = "open" /\ m \in due[j] /\ m # 0
      BY <1>2, <2>1 DEF Serves, TypeOK
    <3>2. CASE Final(Got(j), m)
      BY <1>2, <1>14, <2>1, <3>2 DEF Keeps
    <3>3. CASE \E k \in Requests : pipe[k].id = j /\ pipe[k].m = m
      <4>1. PICK k \in Requests : pipe[k].id = j /\ pipe[k].m = m
        BY <3>3
      <4>2. CASE k > c
        BY <1>3, <4>1, <4>2
      <4>3. CASE ~(k > c)
        <5>1. c = 1 /\ k = 1
          BY <1>3, <4>3
        <5> QED
          BY <1>2, <1>14, <2>1, <3>1, <4>1, <5>1 DEF Keeps, Serves
      <4> QED
        BY <4>2, <4>3
    <3> QED
      BY <3>1, <3>2, <3>3 DEF Dues
  <2>2. ASSUME NEW j \in Ids, fate'[j] = "flushed"
        PROVE  j \in asked' /\ \A m \in due'[j] : Final(wire'[j], m)
    <3>1. CASE j # i
      BY <1>2, <2>2, <3>1 DEF Dues, Serves
    <3>2. CASE j = i
      <4>1. how = "flushed" /\ i \in asked /\ All(v, d) = v
        BY <1>2, <2>2, <3>2 DEF Keeps
      <4>2. ASSUME NEW m \in due[i] PROVE Final(v, m)
        <5>1. fate[i] = "open" /\ m # 0
          BY DEF Serves, TypeOK
        <5>2. ASSUME NEW k \in Requests, pipe[k].id = i, pipe[k].m = m PROVE FALSE
          <6>1. CASE k > c
            BY <1>3, <4>1, <5>2, <6>1 DEF Keeps
          <6>2. CASE ~(k > c)
            <7>1. c = 1 /\ k = 1
              BY <1>3, <6>2
            <7> QED
              BY <4>1, <5>1, <5>2, <7>1 DEF Keeps
          <6> QED
            BY <6>1, <6>2
        <5>3. Final(Got(i), m)
          BY <5>1, <5>2 DEF Dues
        <5> QED
          BY <4>1, <5>3 DEF Keeps
      <4> QED
        BY <1>2, <3>2, <4>1, <4>2 DEF Serves
    <3> QED
      BY <3>1, <3>2
  <2>3. ASSUME NEW k \in Requests', pipe'[k].cmd \in Closers
        PROVE  /\ pipe'[k].id \in asked'
               /\ \A j \in Requests' : j > k /\ pipe'[j].id = pipe'[k].id
                                         => pipe'[j].m \notin due'[pipe'[k].id]
    <3>1. k + c \in Requests /\ pipe'[k] = pipe[k + c] /\ k \in Nat
      BY <1>3
    <3>2. ASSUME NEW j \in Requests', j > k, pipe'[j].id = pipe'[k].id
          PROVE  pipe[j + c].m \notin due[pipe[k + c].id] /\ pipe'[j] = pipe[j + c]
      <4>1. j + c \in Requests /\ pipe'[j] = pipe[j + c] /\ j \in Nat
        BY <1>3
      <4>2. j + c > k + c
        BY <3>1, <3>2, <4>1
      <4> QED
        BY <2>3, <3>1, <3>2, <4>1, <4>2 DEF Dues
    <3> QED
      BY <2>3, <3>1, <3>2 DEF Dues, Serves
  <2>4. ASSUME NEW j \in Ids, sock'[j].type = "HALFCLOSE"
        PROVE  j \in asked' /\ \A k \in Requests' : pipe'[k].id = j => pipe'[k].m \notin due'[j]
    <3>1. CASE j # i
      BY <1>2, <1>3, <2>4, <3>1 DEF Dues, Serves
    <3>2. CASE j = i
      BY <1>2, <1>3, <2>4, <3>2 DEF Keeps, Serves
    <3> QED
      BY <3>1, <3>2
  <2> QED
    BY <2>1, <2>2, <2>3, <2>4 DEF Dues
<1> QED
  BY <1>1, <1>7, <1>8, <1>9, <1>11, <1>13, <1>16, <1>17, <1>18

LEMMA Alive ==
  ASSUME Inv, NEW i \in Ids, closing = {}, sock[i].type # "INVALID"
  PROVE  /\ fate[i] = "open" /\ sock[i] \in Slot /\ wire[i] \in Seq(Byte)
         /\ Sound(wire[i], sock[i])
         /\ wire = [wire EXCEPT ![i] = wire[i]] /\ fate = [fate EXCEPT ![i] = "open"]
         /\ sock = [sock EXCEPT ![i] = sock[i]]
<1>1. fate[i] = "open" /\ sock[i] \in Slot /\ wire[i] \in Seq(Byte)
  BY DEF Inv, TypeOK, Lives
<1>2. Sound(wire[i], sock[i])
  BY <1>1 DEF Inv, Streams
<1> QED
  BY <1>1, <1>2 DEF Inv, TypeOK

\* What force_close leaves of a socket.
Forced(s) == [s EXCEPT !.high = <<>>, !.low = <<>>, !.poll = "off"]

LEMMA ForcedIs ==
  ASSUME NEW s \in Slot, NEW v \in Seq(Byte)
  PROVE  /\ Forced(s) \in Slot /\ Same(Forced(s), s) /\ Forced(s).dw = s.dw
         /\ Starts(Forced(s).high)
         /\ MsgsOf(All(v, Forced(s))) \subseteq MsgsOf(All(v, s))
         /\ SendBufferEmpty(s) => /\ All(v, Forced(s)) = All(v, s)
                                  /\ Sound(v, s) => Sound(v, Forced(s))
         /\ s.dw = <<>> => All(v, Forced(s)) = v
<1> DEFINE d == Forced(s)
<1>1. /\ d \in Slot /\ Same(d, s) /\ d.dw = s.dw /\ d.high = <<>> /\ d.low = <<>>
  <2>1. <<>> \in Seq(Byte)
    OBVIOUS
  <2> QED
    BY <2>1 DEF Forced, Slot, Same
<1> HIDE DEF d
<1>2. Lists(s) /\ Lists(d)
  BY <1>1 DEF Lists, Slot
<1>3. MsgsOf(<<>>) = {}
  BY DEF MsgsOf
<1>4. MsgsOf(All(v, d)) \subseteq MsgsOf(All(v, s))
  <2>1. MsgsOf(All(v, d)) = MsgsOf(v) \cup MsgsOf(d.dw) \cup MsgsOf(d.high) \cup MsgsOf(d.low)
    BY <1>2, AllIn
  <2>2. MsgsOf(All(v, s)) = MsgsOf(v) \cup MsgsOf(s.dw) \cup MsgsOf(s.high) \cup MsgsOf(s.low)
    BY <1>2, AllIn
  <2> QED
    BY <1>1, <1>3, <2>1, <2>2
<1>5. SendBufferEmpty(s) => All(v, d) = All(v, s) /\ (Sound(v, s) => Sound(v, d))
  BY <1>1 DEF SendBufferEmpty, All, Sound
<1>6. s.dw = <<>> => All(v, d) = v
  <2>1. <<>> \o <<>> = <<>> /\ v \o <<>> = v
    BY ConcatEmptySeq
  <2> QED
    BY <1>1, <2>1 DEF All
<1> QED
  BY <1>1, <1>4, <1>5, <1>6 DEF d, Starts

-----------------------------------------------------------------------------
LEMMA EventKeeps ==
  ASSUME Inv, NEW e \in ev, NEW next, Event(e, next),
         next \subseteq [id : Ids, read : BOOLEAN, write : BOOLEAN]
  PROVE  /\ closing = {} /\ e.id \in Ids /\ e \in [id : Ids, read : BOOLEAN, write : BOOLEAN]
         /\ ev' \subseteq [id : Ids, read : BOOLEAN, write : BOOLEAN]
         /\ UNCHANGED <<op, sends, due, asked>> /\ UNCHANGED pipe /\ Reads(0)
<1>1. TypeOK
  BY DEF Inv
<1>2. UNCHANGED pipe
  BY DEF Event
<1>3. Reads(0)
  BY <1>1, <1>2, ReadsNone
<1> QED
  BY <1>1, <1>2, <1>3 DEF Event, TypeOK

\* What is asked of a socket after it is to be closed is not due.
LEMMA HalfStays ==
  ASSUME Inv, NEW i \in Ids, sock[i].type = "HALFCLOSE", NEW c \in {0, 1}, Reads(c)
  PROVE  i \in asked /\ \A k \in 1..Len(pipe') : pipe'[k].id = i => pipe'[k].m \notin due[i]
<1>1. i \in asked /\ \A k \in Requests : pipe[k].id = i => pipe[k].m \notin due[i]
  BY DEF Inv, Dues
<1>2. /\ Requests' = 1..Len(pipe')
      /\ \A k \in Requests' : k + c \in Requests /\ pipe'[k] = pipe[k + c]
  BY ReadsAt DEF Inv
<1> QED
  BY <1>1, <1>2

LEMMA AfterClose ==
  ASSUME Inv, NEW i \in Ids, Reads(1), 1 \in Requests, pipe[1].id = i, pipe[1].cmd \in Closers
  PROVE  /\ i \in asked /\ \A k \in 1..Len(pipe') : pipe'[k].id = i => pipe'[k].m \notin due[i]
         /\ pipe[1].m = 0 /\ pipe[1].cmd \notin Openers
<1>1. /\ i \in asked
      /\ \A j \in Requests : j > 1 /\ pipe[j].id = i => pipe[j].m \notin due[i]
  BY DEF Inv, Dues
<1>2. /\ Requests' = 1..Len(pipe')
      /\ \A k \in Requests' : k + 1 \in Requests /\ pipe'[k] = pipe[k + 1]
      /\ \A k \in Requests' : k \in Nat
  BY ReadsAt DEF Inv
<1>3. \A k \in Requests' : k + 1 > 1
  BY <1>2 DEF Requests
<1>4. pipe[1] \in Request
  BY ElementOfSeq DEF Requests, Inv, TypeOK
<1>5. pipe[1].m = 0 /\ pipe[1].cmd \notin Openers
  BY <1>4 DEF Request, Senders, Openers, Closers
<1> QED
  BY <1>1, <1>2, <1>3, <1>5

\* force_close of a socket that has been served until s, with bytes v.
Closes(i, s, v, how, c) ==
  /\ closing = {} /\ sock[i].type \notin {"INVALID", "RESERVE"}
  /\ Same(s, sock[i]) /\ (s.dw = sock[i].dw \/ (s.dw = <<>> /\ ~s.lock))
  /\ MsgsOf(All(v, s)) \subseteq MsgsOf(Got(i))
  /\ ForceClose(i, s, how) /\ wire' = [wire EXCEPT ![i] = v]
  /\ UNCHANGED <<known, op, sends, due, asked>>
  /\ ev' \subseteq [id : Ids, read : BOOLEAN, write : BOOLEAN]
  /\ Reads(c)
  /\ c = 1 => 1 \in Requests /\ pipe[1].id = i /\ pipe[1].cmd \in Closers

LEMMA Closed ==
  ASSUME Inv, NEW i \in Ids, NEW s \in Slot, NEW v \in Seq(Byte),
         NEW how \in {"flushed", "cut"}, NEW c \in {0, 1}, Closes(i, s, v, how, c),
         how = "flushed" => /\ SendBufferEmpty(s) /\ s.dw = <<>>
                            /\ All(v, s) = Got(i) /\ Sound(v, s)
                            /\ c = 1 \/ s.type = "HALFCLOSE"
  PROVE  Inv'
<1> DEFINE d == Forced(s)
<1>1. /\ d \in Slot /\ Same(d, s) /\ d.dw = s.dw
      /\ Starts(d.high)
      /\ MsgsOf(All(v, d)) \subseteq MsgsOf(All(v, s))
      /\ SendBufferEmpty(s) => All(v, d) = All(v, s) /\ (Sound(v, s) => Sound(v, d))
      /\ s.dw = <<>> => All(v, d) = v
  BY ForcedIs
<1>2. /\ sock' = [sock EXCEPT ![i] = d] /\ closing' = {i}
      /\ fate' = [fate EXCEPT ![i] = how]
  BY DEF Closes, ForceClose, Forced
<1>3. fate[i] = "open"
  BY Alive DEF Closes
<1> HIDE DEF d
<1>4. Serves(i, d, v, how, c)
  BY <1>1, <1>2, <1>3 DEF Closes, Serves, Same, Closers, Openers
<1>5. d.type = "HALFCLOSE" \/ how = "flushed" =>
        i \in asked /\ \A k \in 1..Len(pipe') : pipe'[k].id = i => pipe'[k].m \notin due[i]
  <2>1. d.type = s.type /\ s.type = sock[i].type
    BY <1>1 DEF Closes, Same
  <2>2. c = 1 => /\ i \in asked
                 /\ \A k \in 1..Len(pipe') : pipe'[k].id = i => pipe'[k].m \notin due[i]
    BY AfterClose DEF Closes
  <2>3. d.type = "HALFCLOSE" =>
          i \in asked /\ \A k \in 1..Len(pipe') : pipe'[k].id = i => pipe'[k].m \notin due[i]
    BY <2>1, HalfStays DEF Closes
  <2> QED
    BY <2>1, <2>2, <2>3
<1>6. c = 1 => pipe[1].m = 0
  BY AfterClose DEF Closes
<1>7. Keeps(i, d, v, how, c)
  BY <1>1, <1>5, <1>6 DEF Keeps, Closes
<1> QED
  BY <1>1, <1>4, <1>7, Served

LEMMA CutKeeps ==
  ASSUME Inv, NEW e \in ev, NEW s \in Slot, Event(e, {}), ForceClose(e.id, s, "cut"),
         sock[e.id].type \in {"CONNECTING", "CONNECTED", "HALFCLOSE"},
         s = sock[e.id] \/ (~s.lock /\ s = WithDirect(sock[e.id])), UNCHANGED <<known, wire>>
  PROVE  Inv'
<1> DEFINE i == e.id
<1>1. /\ closing = {} /\ i \in Ids
      /\ ev' \subseteq [id : Ids, read : BOOLEAN, write : BOOLEAN]
      /\ UNCHANGED <<op, sends, due, asked>> /\ Reads(0)
  BY EventKeeps
<1>2. wire[i] \in Seq(Byte) /\ wire = [wire EXCEPT ![i] = wire[i]] /\ sock[i] \in Slot
  BY <1>1, Alive
<1>3. /\ Same(s, sock[i]) /\ (s.dw = sock[i].dw \/ (s.dw = <<>> /\ ~s.lock))
      /\ All(wire[i], s) = Got(i)
  <2>1. CASE s = sock[i]
    BY <2>1 DEF Same, Got
  <2>2. CASE ~s.lock /\ s = WithDirect(sock[i])
    <3> DEFINE z == sock[i]  w == wire[i]
    <3>1. z \in Slot /\ w \in Seq(Byte) /\ s = WithDirect(z)
      BY <1>2, <2>2
    <3> HIDE DEF z, w
    <3>2. Same(s, z) /\ s.dw = <<>> /\ All(w, s) = All(w, z)
      BY <3>1, DirectKeeps
    <3> QED
      BY <2>2, <3>2 DEF Got, z, w
  <2> QED
    BY <2>1, <2>2
<1> HIDE DEF i
<1>4. Closes(i, s, wire[i], "cut", 0)
  BY <1>1, <1>2, <1>3 DEF Closes, i
<1> QED
  BY <1>1, <1>2, <1>4, Closed

LEMMA ReportConnectKeeps ==
  ASSUME Inv, NEW e \in ev, ReportConnect(e)
  PROVE  Inv'
<1> DEFINE i == e.id  s == sock[i]
<1>1. /\ closing = {} /\ i \in Ids
      /\ ev' \subseteq [id : Ids, read : BOOLEAN, write : BOOLEAN]
      /\ UNCHANGED <<op, sends, due, asked, pipe>> /\ Reads(0)
  BY EventKeeps DEF ReportConnect
<1>2. /\ fate[i] = "open" /\ s \in Slot /\ wire[i] \in Seq(Byte) /\ Sound(wire[i], s)
      /\ wire = [wire EXCEPT ![i] = wire[i]] /\ fate = [fate EXCEPT ![i] = "open"]
  BY <1>1, Alive DEF ReportConnect
<1>3. CASE ForceClose(e.id, s, "cut") /\ UNCHANGED known
  BY <1>2, <1>3, CutKeeps DEF ReportConnect
<1>4. CASE /\ sock' = [sock EXCEPT ![e.id].type = "CONNECTED",
                                   ![e.id].poll = IF NoMoreSendingData(s) THEN "in" ELSE @]
           /\ known' = known \cup {e.id}
           /\ UNCHANGED <<closing, fate>>
  <2> DEFINE p == IF NoMoreSendingData(s) THEN "in" ELSE s.poll
             d == [s EXCEPT !.type = "CONNECTED", !.poll = p]
  <2>1. p \in {"off", "in", "out"}
    <3> HIDE DEF s
    <3> QED
      BY <1>2 DEF Slot
  <2>2. sock' = [sock EXCEPT ![i] = d]
    <3>1. sock \in [Ids -> Slot]
      BY DEF Inv, TypeOK
    <3> QED
      BY <1>1, <1>4, <3>1 DEF Slot
  <2> HIDE DEF p, s
  <2>3. /\ d \in Slot /\ d.type = "CONNECTED" /\ d.protocol = s.protocol /\ d.lock = s.lock
        /\ d.dw = s.dw /\ d.high = s.high /\ d.low = s.low
    BY <1>2, <2>1 DEF Slot, Types
  <2> HIDE DEF d
  <2>4. All(wire[i], d) = Got(i) /\ Sound(wire[i], d)
    BY <1>2, <2>3 DEF All, Got, Sound, s
  <2>5. Serves(i, d, wire[i], "open", 0)
    <3>1. s.type = "CONNECTING" /\ s = sock[i]
      BY DEF ReportConnect, s
    <3>2. wire' = wire /\ fate' = fate /\ closing' = closing /\ known' = known \cup {i}
      BY <1>4 DEF ReportConnect
    <3> HIDE DEF i
    <3> QED
      BY <1>1, <1>2, <2>2, <2>3, <3>1, <3>2 DEF Serves
  <2>6. Keeps(i, d, wire[i], "open", 0)
    BY <2>3, <2>4 DEF Keeps
  <2> QED
    BY <1>1, <1>2, <2>3, <2>5, <2>6, Served
<1> QED
  BY <1>3, <1>4 DEF ReportConnect

\* An event that changes nothing but the events.
LEMMA QuietKeeps ==
  ASSUME Inv, NEW e \in ev, NEW next, Event(e, next),
         next \subseteq [id : Ids, read : BOOLEAN, write : BOOLEAN],
         sock[e.id].type \notin {"INVALID", "RESERVE"},
         UNCHANGED <<sock, closing, fate, known, wire>>
  PROVE  Inv'
<1> DEFINE i == e.id  s == sock[i]
<1>1. /\ closing = {} /\ i \in Ids
      /\ ev' \subseteq [id : Ids, read : BOOLEAN, write : BOOLEAN]
      /\ UNCHANGED <<op, sends, due, asked, pipe>> /\ Reads(0)
  BY EventKeeps
<1>2. /\ fate[i] = "open" /\ s \in Slot /\ wire[i] \in Seq(Byte) /\ Sound(wire[i], s)
      /\ wire = [wire EXCEPT ![i] = wire[i]] /\ fate = [fate EXCEPT ![i] = "open"]
      /\ sock = [sock EXCEPT ![i] = s]
  BY <1>1, Alive
<1> HIDE DEF s
<1>3. Serves(i, s, wire[i], "open", 0)
  BY <1>1, <1>2 DEF Serves, s
<1>4. Keeps(i, s, wire[i], "open", 0)
  <2>1. s.type = "HALFCLOSE" =>
          i \in asked /\ \A k \in 1..Len(pipe') : pipe'[k].id = i => pipe'[k].m \notin due[i]
    BY <1>1, HalfStays DEF s
  <2> QED
    BY <1>2, <2>1 DEF Keeps, Got, s
<1> QED
  BY <1>1, <1>2, <1>3, <1>4, Served

LEMMA ForwardMessageKeeps ==
  ASSUME Inv, NEW e \in ev, ForwardMessage(e)
  PROVE  Inv'
<1>1. e \in [id : Ids, read : BOOLEAN, write : BOOLEAN]
  BY DEF Inv, TypeOK
<1>2. CASE Event(e, {}) /\ ForceClose(e.id, sock[e.id], "cut")
  <2>1. sock[e.id] \in Slot
    BY <1>1 DEF Inv, TypeOK
  <2> QED
    BY <1>2, <2>1, CutKeeps DEF ForwardMessage
<1>3. [e EXCEPT !.read = FALSE] \in [id : Ids, read : BOOLEAN, write : BOOLEAN]
  BY <1>1
<1>4. CASE /\ Event(e, IF e.write THEN {[e EXCEPT !.read = FALSE]} ELSE {})
           /\ UNCHANGED <<sock, closing, fate>>
  BY <1>3, <1>4, QuietKeeps DEF ForwardMessage
<1>5. CASE Event(e, {e}) /\ UNCHANGED <<sock, closing, fate>>
  BY <1>1, <1>5, QuietKeeps DEF ForwardMessage
<1> QED
  BY <1>2, <1>4, <1>5 DEF ForwardMessage

LEMMA ErrorEventKeeps ==
  ASSUME Inv, NEW e \in ev, ErrorEvent(e)
  PROVE  Inv'
<1>1. e.id \in Ids /\ sock[e.id] \in Slot
  BY DEF Inv, TypeOK
<1> QED
  BY <1>1, CutKeeps DEF ErrorEvent

\* What has been written of the lists of s, after a direct write's rest.
LEMMA Written ==
  ASSUME Inv, NEW i \in Ids, closing = {}, sock[i].type # "INVALID", ~sock[i].lock,
         NEW n \in 0..Left(WithDirect(sock[i]))
  PROVE  LET z == WithDirect(sock[i])
             d == SendBuffer(z, n)
             v == wire[i] \o Took(z, n)
         IN  /\ d \in Slot /\ Same(d, sock[i]) /\ d.dw = <<>> /\ v \in Seq(Byte)
             /\ All(v, d) = Got(i) /\ Sound(v, d)
             /\ n = Left(z) => SendBufferEmpty(d)
<1> DEFINE s == sock[i]  w == wire[i]  z == WithDirect(s)
<1>1. s \in Slot /\ w \in Seq(Byte) /\ Sound(w, s)
  BY Alive
<1>2. Got(i) = All(w, s)
  BY DEF Got
<1> HIDE DEF s, w
<1>3. z \in Slot /\ Same(z, s) /\ z.dw = <<>> /\ All(w, z) = All(w, s) /\ Sound(w, z)
  BY <1>1, DirectKeeps
<1>4. n \in 0..Left(z)
  BY DEF s
<1> HIDE DEF z
<1>5. LET d == SendBuffer(z, n)
          v == w \o Took(z, n)
      IN  /\ d \in Slot /\ Same(d, z) /\ d.dw = <<>> /\ v \in Seq(Byte)
          /\ All(v, d) = All(w, z) /\ Sound(v, d)
          /\ n = Left(z) => SendBufferEmpty(d)
  BY <1>1, <1>3, <1>4, SendKeeps
<1> QED
  BY <1>2, <1>3, <1>5 DEF s, w, z, Same

LEMMA WriteEventKeeps ==
  ASSUME Inv, NEW e \in ev, WriteEvent(e)
  PROVE  Inv'
<1> DEFINE i == e.id  s == sock[i]  z == WithDirect(s)
<1>1. /\ closing = {} /\ i \in Ids
      /\ ev' \subseteq [id : Ids, read : BOOLEAN, write : BOOLEAN]
      /\ UNCHANGED <<op, sends, due, asked, pipe>> /\ Reads(0)
  BY EventKeeps DEF WriteEvent
<1>2. /\ fate[i] = "open" /\ s \in Slot /\ wire[i] \in Seq(Byte)
      /\ fate = [fate EXCEPT ![i] = "open"]
  BY <1>1, Alive DEF WriteEvent
<1>3. s.type \in {"CONNECTED", "HALFCLOSE"} /\ Event(e, {}) /\ UNCHANGED known
  BY DEF WriteEvent
<1>4. CASE s.lock /\ UNCHANGED <<sock, closing, wire, fate>>
  BY <1>3, <1>4, QuietKeeps
<1>5. CASE ~s.lock /\ ForceClose(e.id, z, "cut") /\ UNCHANGED wire
  <2>1. z \in Slot
    BY <1>2, DirectKeeps
  <2>2. z.lock = s.lock
    BY <1>2 DEF WithDirect, Slot
  <2> QED
    BY <1>3, <1>5, <2>1, <2>2, CutKeeps
<1>6. ASSUME NEW n \in 0..Left(z), ~s.lock,
             wire' = [wire EXCEPT ![e.id] = @ \o Took(z, n)],
             IF s.type = "HALFCLOSE" /\ n = Left(z)
               THEN ForceClose(e.id, SendBuffer(z, n), "flushed")
               ELSE /\ sock' = [sock EXCEPT ![e.id] = SendBuffer(z, n)]
                    /\ UNCHANGED <<closing, fate>>
      PROVE  Inv'
  <2> DEFINE d == SendBuffer(z, n)  v == wire[i] \o Took(z, n)
  <2>1. /\ d \in Slot /\ Same(d, s) /\ d.dw = <<>> /\ v \in Seq(Byte)
        /\ All(v, d) = Got(i) /\ Sound(v, d)
        /\ n = Left(z) => SendBufferEmpty(d)
    BY <1>1, <1>3, <1>6, Written
  <2>2. wire' = [wire EXCEPT ![i] = v]
    BY <1>6
  <2>3. CASE s.type = "HALFCLOSE" /\ n = Left(z)
    <3>1. ForceClose(i, d, "flushed") /\ SendBufferEmpty(d)
      BY <1>6, <2>1, <2>3
    <3>2. d.type = "HALFCLOSE" /\ d.lock = s.lock
      BY <2>1, <2>3 DEF Same
    <3>3. sock[i].type \notin {"INVALID", "RESERVE"} /\ ~d.lock /\ Same(d, sock[i])
      BY <1>3, <1>6, <2>1, <3>2
    <3>4. All(v, d) = Got(i) /\ Sound(v, d) /\ d.dw = <<>> /\ d \in Slot /\ v \in Seq(Byte)
      BY <2>1
    <3> HIDE DEF d, v, z, i, s
    <3>5. MsgsOf(All(v, d)) \subseteq MsgsOf(Got(i))
      BY <3>4
    <3>6. Closes(i, d, v, "flushed", 0)
      BY <1>1, <1>3, <2>2, <3>1, <3>3, <3>4, <3>5 DEF Closes
    <3> QED
      BY <1>1, <3>1, <3>2, <3>4, <3>6, Closed
  <2>4. CASE ~(s.type = "HALFCLOSE" /\ n = Left(z))
    <3>1. sock' = [sock EXCEPT ![i] = d] /\ UNCHANGED <<closing, fate>>
      BY <1>6, <2>4
    <3>2. s.type = "HALFCLOSE" =>
            i \in asked /\ \A k \in 1..Len(pipe') : pipe'[k].id = i => pipe'[k].m \notin due[i]
      BY <1>1, HalfStays
    <3>3. ~sock[i].lock /\ sock[i].type \in {"CONNECTED", "HALFCLOSE"}
      BY <1>3, <1>6
    <3> HIDE DEF d, v, z, i
    <3>4. Serves(i, d, v, "open", 0)
      BY <1>1, <1>2, <1>3, <2>1, <2>2, <3>1, <3>3 DEF Serves, Same
    <3>5. Keeps(i, d, v, "open", 0)
      BY <2>1, <3>2 DEF Keeps, Same
    <3> QED
      BY <1>1, <2>1, <3>4, <3>5, Served
  <2> QED
    BY <2>3, <2>4
<1> QED
  BY <1>4, <1>5, <1>6 DEF WriteEvent

-----------------------------------------------------------------------------
LEMMA CommandKeeps ==
  ASSUME Inv, NEW cmds, Command(cmds)
  PROVE  /\ closing = {} /\ Reads(1) /\ 1 \in Requests
         /\ Head(pipe) = pipe[1] /\ pipe[1] \in Request /\ pipe[1].id \in Ids
         /\ pipe[1].cmd \in cmds /\ pipe' = Tail(pipe)
         /\ UNCHANGED <<op, sends, due, asked>>
         /\ pipe[1].cmd \notin Openers => sock[pipe[1].id].type # "RESERVE" /\ pipe[1].id \in known
<1>1. /\ Reads(1) /\ 1 \in Requests /\ Head(pipe) = pipe[1] /\ pipe[1] \in Request
  BY ReadsOne DEF Inv, Command
<1>2. pipe[1].id \in Ids
  BY <1>1 DEF Request
<1>3. ASSUME pipe[1].cmd \notin Openers
      PROVE  sock[pipe[1].id].type # "RESERVE" /\ pipe[1].id \in known
  <2> DEFINE i == pipe[1].id
  <2>1. i \in known
    BY <1>1, <1>2, <1>3 DEF Inv, Unknown
  <2>2. ASSUME sock[i].type = "RESERVE" PROVE FALSE
    <3>1. PICK k \in Requests : Asks(k, i)
      BY <1>2, <2>1, <2>2 DEF Inv, Opening
    <3>2. 1 >= k
      BY <1>1, <1>2, <3>1 DEF Inv, Opening
    <3>3. k = 1
      BY <3>2 DEF Requests
    <3> QED
      BY <1>3, <3>1, <3>3 DEF Asks
  <2> QED
    BY <2>1, <2>2
<1> QED
  BY <1>1, <1>2, <1>3 DEF Command

\* A request for a socket that is closed, or half closed, changes nothing
\* but its counter.
LEMMA Dropped ==
  ASSUME Inv, NEW cmds, Command(cmds), NEW d \in Slot, pipe[1].cmd \notin Openers,
         sock' = [sock EXCEPT ![pipe[1].id] = d],
         LET s == sock[pipe[1].id]
         IN  /\ d.type = s.type /\ d.protocol = s.protocol /\ d.lock = s.lock
             /\ d.dw = s.dw /\ d.high = s.high /\ d.low = s.low
             /\ s.type \in {"INVALID", "HALFCLOSE"},
         UNCHANGED <<ev, closing, wire, known, fate>>
  PROVE  Inv'
<1> DEFINE i == pipe[1].id  s == sock[i]
<1>1. /\ Reads(1) /\ 1 \in Requests /\ i \in Ids /\ i \in known
      /\ UNCHANGED <<op, sends, due, asked>>
  BY CommandKeeps
<1>2. TypeOK'
  BY <1>1 DEF Inv, TypeOK, Reads
<1>3. /\ \A j \in Ids : /\ sock'[j].type = sock[j].type /\ sock'[j].protocol = sock[j].protocol
                        /\ sock'[j].lock = sock[j].lock /\ sock'[j].dw = sock[j].dw
                        /\ sock'[j].high = sock[j].high /\ sock'[j].low = sock[j].low
  BY <1>1 DEF Inv, TypeOK
<1>4. /\ Requests' = 1..Len(pipe')
      /\ \A k \in Requests' : k + 1 \in Requests /\ pipe'[k] = pipe[k + 1]
      /\ \A k \in Requests' : k \in Nat \ {0}
      /\ \A k \in Requests : k \in Nat \ {0} /\ (k # 1 => k - 1 \in Requests' /\ pipe'[k - 1] = pipe[k])
  <2>1. /\ Requests' = 1..Len(pipe')
        /\ \A k \in Requests' : k + 1 \in Requests /\ pipe'[k] = pipe[k + 1]
        /\ \A k \in Requests : k > 1 => k - 1 \in Requests' /\ pipe'[k - 1] = pipe[k]
    BY <1>1, ReadsAt DEF Inv
  <2>2. \A k \in Requests : k \in Nat \ {0} /\ (k # 1 => k > 1)
    BY DEF Requests
  <2> QED
    BY <2>1, <2>2
<1>5. \A k \in Requests : pipe[k] \in Request
  BY ElementOfSeq DEF Inv, TypeOK, Requests
<1>6. \A t \in Threads : op[t] \in Call
  BY DEF Inv, TypeOK
<1>7. Opening'
  <2>1. op' = op /\ known' = known
    BY <1>1
  <2>2. ASSUME NEW j \in Ids, NEW t \in Threads, Opens(t, j)'
        PROVE  /\ sock'[j].type = "RESERVE" /\ j \notin known'
               /\ \A u \in Threads : Opens(u, j)' => u = t
               /\ \A k \in Requests' : pipe'[k].id # j
    <3>1. Opens(t, j) /\ \A u \in Threads : Opens(u, j)' => Opens(u, j)
      BY <2>1, <2>2 DEF Opens
    <3> QED
      BY <1>3, <1>4, <2>1, <3>1 DEF Inv, Opening
  <2>3. ASSUME NEW j \in Ids, NEW k \in Requests', Asks(k, j)'
        PROVE  /\ sock'[j].type = "RESERVE"
               /\ pipe'[k].cmd = "O" => j \notin known'
               /\ \A l \in Requests' : pipe'[l].id = j => l >= k
    <3>1. k + 1 \in Requests /\ Asks(k + 1, j) /\ pipe'[k] = pipe[k + 1]
      BY <1>4, <2>3 DEF Asks
    <3>2. /\ sock[j].type = "RESERVE" /\ (pipe[k + 1].cmd = "O" => j \notin known)
          /\ \A l \in Requests : pipe[l].id = j => l >= k + 1
      BY <3>1 DEF Inv, Opening
    <3>3. ASSUME NEW l \in Requests', pipe'[l].id = j PROVE l >= k
      <4>1. l + 1 >= k + 1
        BY <1>4, <3>2, <3>3
      <4> QED
        BY <1>4, <4>1
    <3> QED
      BY <1>3, <2>1, <3>1, <3>2, <3>3
  <2>4. ASSUME NEW j \in Ids, sock'[j].type = "RESERVE", j \in known'
        PROVE  \E k \in Requests' : Asks(k, j)'
    <3>1. PICK k \in Requests : Asks(k, j)
      BY <1>3, <2>1, <2>4 DEF Inv, Opening
    <3>2. k # 1
      BY <3>1 DEF Asks
    <3> QED
      BY <1>4, <3>1, <3>2 DEF Asks
  <2> QED
    BY <2>2, <2>3, <2>4 DEF Opening
<1>8. Unknown'
  BY <1>1, <1>4 DEF Inv, Unknown
<1>9. Lives'
  BY <1>3 DEF Inv, Lives
<1>10. Protocols'
  <2>1. \A t \in Threads : op[t].cmd \in Senders => op[t].id \in Ids
    BY <1>6 DEF Call, NoOp, Senders
  <2>2. \A k \in Requests : pipe[k].id \in Ids
    BY <1>5 DEF Request
  <2>3. \A j \in Ids : sock'[j].protocol # "TCP" => sock'[j].dw = <<>>
    BY <1>3 DEF Inv, Protocols
  <2>4. op' = op
    BY <1>1
  <2>5. \A t \in Threads :
          /\ op'[t].cmd \in {"D", "P"} => sock'[op'[t].id].protocol = "TCP"
          /\ op'[t].cmd = "A" => sock'[op'[t].id].protocol # "TCP"
    BY <1>3, <2>1, <2>4 DEF Inv, Protocols, Senders
  <2>6. \A k \in Requests' : pipe'[k].cmd = "A" => sock'[pipe'[k].id].protocol # "TCP"
    BY <1>3, <1>4, <2>2 DEF Inv, Protocols
  <2> QED
    BY <2>3, <2>5, <2>6 DEF Protocols
<1>11. Locks'
  <2>1. \A t \in Threads : op[t].step \in {"try", "lists", "rest", "write"} => op[t].id \in Ids
    BY <1>6 DEF Call, NoOp
  <2>2. op' = op
    BY <1>1
  <2>3. \A t \in Threads : op'[t].step = "try" => sock'[op'[t].id].type # "RESERVE"
    BY <1>3, <2>1, <2>2 DEF Inv, Locks
  <2>4. ASSUME NEW t \in Threads, Holds(t)'
        PROVE  /\ sock'[op'[t].id].lock
               /\ \A u \in Threads : Holds(u)' /\ op'[u].id = op'[t].id => u = t
    BY <1>3, <2>1, <2>2, <2>4 DEF Inv, Locks, Holds
  <2>5. \A t \in Threads : op'[t].step \in {"rest", "write"} => Starts(sock'[op'[t].id].high)
    BY <1>3, <2>1, <2>2 DEF Inv, Locks
  <2>6. \A t \in Threads : op'[t].step = "write" =>
          sock'[op'[t].id].dw = <<>> /\ sock'[op'[t].id].type # "INVALID"
    BY <1>3, <2>1, <2>2 DEF Inv, Locks
  <2> QED
    BY <2>3, <2>4, <2>5, <2>6 DEF Locks
<1>12. \A j \in Ids : Got(j)' = Got(j)
  BY <1>3 DEF Got, All
<1>13. Fresh'
  <2>1. op' = op /\ due' = due /\ sends' = sends
    BY <1>1
  <2>2. ASSUME NEW t \in Threads, op'[t].m # 0
        PROVE  /\ op'[t].m <= sends'
               /\ \A u \in Threads : op'[u].m = op'[t].m => u = t
               /\ \A k \in Requests' : pipe'[k].m # op'[t].m
               /\ \A j \in Ids : op'[t].m \notin MsgsOf(Got(j)') /\ op'[t].m \notin due'[j]
    BY <1>4, <1>12, <2>1, <2>2 DEF Inv, Fresh
  <2>3. ASSUME NEW k \in Requests', pipe'[k].m # 0
        PROVE  /\ pipe'[k].m <= sends'
               /\ \A l \in Requests' : pipe'[l].m = pipe'[k].m => l = k
               /\ \A j \in Ids : pipe'[k].m \notin MsgsOf(Got(j)')
    <3>1. ASSUME NEW l \in Requests', pipe'[l].m = pipe'[k].m PROVE l = k
      <4>1. l + 1 = k + 1
        BY <1>4, <2>3, <3>1 DEF Inv, Fresh
      <4> QED
        BY <1>4, <4>1
    <3> QED
      BY <1>4, <1>12, <2>1, <2>3, <3>1 DEF Inv, Fresh
  <2>4. ASSUME NEW j \in Ids, NEW m \in MsgsOf(Got(j)') \cup due'[j] PROVE m <= sends'
    BY <1>12, <2>1, <2>4 DEF Inv, Fresh
  <2> QED
    BY <2>2, <2>3, <2>4 DEF Fresh
<1>14. Streams'
  <2>1. \A j \in Ids : Sound(wire[j], sock[j]) => Sound(wire[j], sock'[j])
    BY <1>3 DEF Sound, All
  <2> QED
    BY <1>3, <2>1 DEF Inv, Streams
<1>15. Dues'
  <2>1. due' = due /\ asked' = asked /\ fate' = fate /\ wire' = wire
    BY <1>1
  <2>2. ASSUME NEW j \in Ids, fate'[j] = "open", NEW m \in due'[j]
        PROVE  Final(Got(j)', m) \/ \E k \in Requests' : pipe'[k].id = j /\ pipe'[k].m = m
    <3>1. Final(Got(j), m) \/ \E k \in Requests : pipe[k].id = j /\ pipe[k].m = m
      BY <2>1, <2>2 DEF Inv, Dues
    <3>2. ASSUME pipe[1].id = j, pipe[1].m = m PROVE FALSE
      <4>1. CASE s.type = "INVALID"
        BY <1>1, <2>1, <2>2, <3>2, <4>1 DEF Inv, Lives
      <4>2. CASE s.type = "HALFCLOSE"
        BY <1>1, <2>1, <2>2, <3>2, <4>2 DEF Inv, Dues
      <4> QED
        BY <4>1, <4>2
    <3> QED
      BY <1>4, <1>12, <3>1, <3>2
  <2>3. \A j \in Ids : fate'[j] = "flushed" => j \in asked' /\ \A m \in due'[j] : Final(wire'[j], m)
    BY <2>1 DEF Inv, Dues
  <2>4. ASSUME NEW k \in Requests', pipe'[k].cmd \in Closers
        PROVE  /\ pipe'[k].id \in asked'
               /\ \A j \in Requests' : j > k /\ pipe'[j].id = pipe'[k].id
                                         => pipe'[j].m \notin due'[pipe'[k].id]
    <3>1. k + 1 \in Requests /\ pipe'[k] = pipe[k + 1] /\ k \in Nat
      BY <1>4
    <3>2. ASSUME NEW j \in Requests', j > k, pipe'[j].id = pipe'[k].id
          PROVE  pipe'[j].m \notin due[pipe[k + 1].id]
      <4>1. j + 1 \in Requests /\ pipe'[j] = pipe[j + 1] /\ j + 1 > k + 1
        BY <1>4, <3>1, <3>2
      <4> QED
        BY <2>4, <3>1, <3>2, <4>1 DEF Inv, Dues
    <3> QED
      BY <2>1, <2>4, <3>1, <3>2 DEF Inv, Dues
  <2>5. ASSUME NEW j \in Ids, sock'[j].type = "HALFCLOSE"
        PROVE  j \in asked' /\ \A k \in Requests' : pipe'[k].id = j => pipe'[k].m \notin due'[j]
    BY <1>3, <1>4, <2>1, <2>5 DEF Inv, Dues
  <2> QED
    BY <2>2, <2>3, <2>4, <2>5 DEF Dues
<1> QED
  BY <1>2, <1>7, <1>8, <1>9, <1>10, <1>11, <1>13, <1>14, <1>15 DEF Inv

\* The first request sends a message, which is new to its socket.
LEMMA SendsNew ==
  ASSUME Inv, 1 \in Requests, pipe[1].cmd \in Senders
  PROVE  /\ pipe[1].m \in Nat \ {0} /\ pipe[1].id \in Ids /\ pipe[1].cmd \notin Openers
         /\ \A i \in Ids : pipe[1].m \notin MsgsOf(Got(i))
<1>1. pipe[1] \in Request
  BY ElementOfSeq DEF Requests, Inv, TypeOK
<1>2. pipe[1].m \in Nat \ {0} /\ pipe[1].id \in Ids /\ pipe[1].cmd \notin Openers
  BY <1>1 DEF Request, Senders, Openers, Closers
<1> QED
  BY <1>2 DEF Inv, Fresh

\* A message is added to the bytes of an open socket.
LEMMA Added ==
  ASSUME Inv, NEW i \in Ids, NEW d \in Slot, NEW v \in Seq(Byte),
         1 \in Requests, pipe[1].id = i, pipe[1].cmd \in Senders,
         Serves(i, d, v, "open", 1), d.type = sock[i].type, sock[i].type # "HALFCLOSE",
         Sound(v, d), Grown(Got(i), All(v, d), pipe[1].m, pipe[1].cmd)
  PROVE  Inv'
<1> DEFINE m == pipe[1].m
<1>1. m \in Nat \ {0}
  BY SendsNew
<1>2. /\ MsgsOf(All(v, d)) = MsgsOf(Got(i)) \cup {m}
      /\ Final(All(v, d), m) /\ \A k : Final(Got(i), k) => Final(All(v, d), k)
  <2> DEFINE a == Got(i)  e == All(v, d)  cmd == pipe[1].cmd
  <2>1. m \in Nat /\ Grown(a, e, m, cmd)
    BY <1>1
  <2> HIDE DEF a, e, cmd, m
  <2>2. MsgsOf(e) = MsgsOf(a) \cup {m} /\ Final(e, m) /\ \A k : Final(a, k) => Final(e, k)
    BY <2>1, GrownKeeps
  <2> QED
    BY <2>2 DEF a, e, m
<1>3. Keeps(i, d, v, "open", 1)
  BY <1>1, <1>2 DEF Keeps
<1> QED
  BY <1>3, Served

LEMMA SendSocketKeeps ==
  ASSUME Inv, SendSocket
  PROVE  Inv'
<1> DEFINE i == pipe[1].id  m == pipe[1].m  cmd == pipe[1].cmd  s == sock[i]  w == wire[i]
           s1 == IF cmd # "A" /\ s.protocol = "TCP" THEN [s EXCEPT !.sending = @ - 1] ELSE s
           first == SendBufferEmpty(s) /\ s.type = "CONNECTED"
           s2 == Appended(s1, m, cmd)
           d == [s2 EXCEPT !.poll = IF first THEN "out" ELSE @]
<1>1. /\ closing = {} /\ Reads(1) /\ 1 \in Requests /\ Head(pipe) = pipe[1]
      /\ i \in Ids /\ cmd \in Senders /\ s.type # "RESERVE" /\ Command(Senders)
      /\ UNCHANGED <<op, sends, due, asked>>
  <2>1. Command(Senders)
    BY DEF SendSocket, Senders
  <2>2. \A x \in Senders : x \notin Openers
    BY DEF Senders, Openers
  <2> QED
    BY <2>1, <2>2, CommandKeeps
<1>2. m \in Nat \ {0} /\ m \notin MsgsOf(Got(i)) /\ cmd \notin Openers
  BY <1>1, SendsNew
<1>3. s \in Slot /\ w \in Seq(Byte) /\ fate = [fate EXCEPT ![i] = fate[i]]
      /\ wire = [wire EXCEPT ![i] = wire[i]] /\ sock = [sock EXCEPT ![i] = sock[i]]
  BY <1>1 DEF Inv, TypeOK
<1>4. UNCHANGED <<ev, closing, known, fate>>
  BY DEF SendSocket
<1>5. /\ s1 \in Slot /\ s1.type = s.type /\ s1.protocol = s.protocol /\ s1.lock = s.lock
      /\ s1.dw = s.dw /\ s1.high = s.high /\ s1.low = s.low
  <2> HIDE DEF s
  <2> QED
    BY <1>3 DEF Slot
<1>6. ev \subseteq [id : Ids, read : BOOLEAN, write : BOOLEAN]
  BY DEF Inv, TypeOK
<1>7. CASE /\ s.type \in {"INVALID", "HALFCLOSE"}
           /\ sock' = [sock EXCEPT ![i] = s1] /\ UNCHANGED wire
  <2> HIDE DEF s1
  <2> QED
    BY <1>1, <1>2, <1>4, <1>5, <1>7, Dropped
<1>8. CASE /\ s.type \notin {"INVALID", "HALFCLOSE"}
           /\ sock' = [sock EXCEPT ![i] = d] /\ UNCHANGED wire
  <2>1. fate[i] = "open" /\ Sound(w, s)
    BY <1>1, <1>8, Alive
  <2>2. Got(i) = All(w, s1) /\ Sound(w, s1)
    BY <1>5, <2>1 DEF Got, All, Sound
  <2>3. /\ s2 \in Slot /\ Same(s2, s1) /\ s2.dw = s1.dw
        /\ Grown(All(w, s1), All(w, s2), m, cmd)
        /\ Sound(w, s1) /\ m \notin MsgsOf(All(w, s1)) => Sound(w, s2)
        /\ Starts(s1.high) => Starts(s2.high)
    <3> HIDE DEF s1, cmd, m, w
    <3> QED
      BY <1>2, <1>3, <1>5, AppendKeeps
  <2>4. /\ d \in Slot /\ Same(d, s2) /\ d.dw = s2.dw /\ d.high = s2.high /\ d.low = s2.low
    <3> DEFINE p == IF first THEN "out" ELSE s2.poll
    <3>1. p \in {"off", "in", "out"} /\ d = [s2 EXCEPT !.poll = p]
      <4> HIDE DEF s2, first
      <4> QED
        BY <2>3 DEF Slot
    <3> HIDE DEF d, s2, p
    <3> QED
      BY <2>3, <3>1 DEF Slot, Same
  <2>5. All(w, d) = All(w, s2) /\ (Sound(w, s2) => Sound(w, d))
    BY <2>4 DEF All, Sound
  <2> HIDE DEF d, s2, s1
  <2>6. /\ d.type = s.type /\ d.protocol = s.protocol /\ d.lock = s.lock /\ d.dw = s.dw
        /\ Starts(s.high) => Starts(d.high)
    BY <1>5, <2>3, <2>4 DEF Same
  <2>7. Sound(w, d) /\ Grown(Got(i), All(w, d), m, cmd)
    BY <1>2, <2>2, <2>3, <2>5
  <2>8. /\ wire' = [wire EXCEPT ![i] = w] /\ fate' = [fate EXCEPT ![i] = "open"]
        /\ closing' = {} /\ known' = known /\ ev' = ev
    BY <1>1, <1>3, <1>4, <1>8, <2>1
  <2>9. Serves(i, d, w, "open", 1)
    BY <1>1, <1>2, <1>6, <1>8, <2>1, <2>6, <2>8 DEF Serves
  <2> QED
    BY <1>1, <1>3, <1>8, <2>4, <2>6, <2>7, <2>9, Added
<1>9. CASE /\ cmd = "A" /\ first
           /\ wire' = [wire EXCEPT ![i] = @ \o Bytes(m, cmd)] /\ UNCHANGED sock
  <2> DEFINE v == w \o Bytes(m, cmd)
  <2>1. fate[i] = "open" /\ Sound(w, s)
    BY <1>1, <1>9, Alive
  <2>2. s.dw = <<>> /\ s.high = <<>> /\ s.low = <<>>
    BY <1>1, <1>9 DEF Inv, Protocols, SendBufferEmpty
  <2>3. /\ v \in Seq(Byte) /\ Grown(All(w, s), All(v, s), m, cmd)
        /\ Sound(w, s) /\ m \notin MsgsOf(All(w, s)) => Sound(v, s)
    <3> HIDE DEF s, cmd, m, w
    <3> QED
      BY <1>2, <1>3, <2>2, WireKeeps
  <2>4. Got(i) = All(w, s)
    BY DEF Got
  <2>5. /\ wire' = [wire EXCEPT ![i] = v] /\ sock' = [sock EXCEPT ![i] = s]
        /\ fate' = [fate EXCEPT ![i] = "open"] /\ closing' = {} /\ known' = known /\ ev' = ev
    BY <1>1, <1>3, <1>4, <1>9, <2>1
  <2> HIDE DEF v
  <2>6. Serves(i, s, v, "open", 1)
    BY <1>1, <1>2, <1>6, <1>9, <2>1, <2>5 DEF Serves
  <2> QED
    BY <1>1, <1>2, <1>3, <1>9, <2>1, <2>3, <2>4, <2>6, Added
<1> QED
  BY <1>1, <1>7, <1>8, <1>9 DEF SendSocket

\* close_socket, when what can be written has been.
LEMMA CloseOrHalfKeeps ==
  ASSUME Inv, Command(Closers), NEW d \in Slot, NEW v \in Seq(Byte),
         CloseOrHalf(Head(pipe), d), UNCHANGED <<ev, known>>,
         LET i == pipe[1].id
             s == sock[i]
         IN  /\ s.type # "INVALID" /\ Same(d, s)
             /\ d.dw = s.dw \/ (d.dw = <<>> /\ ~d.lock)
             /\ d.lock /\ Starts(s.high) => Starts(d.high)
             /\ All(v, d) = Got(i) /\ Sound(v, d)
             /\ wire' = [wire EXCEPT ![i] = v]
  PROVE  Inv'
<1> DEFINE i == pipe[1].id  s == sock[i]
<1>1. \A x \in Closers : x \notin Openers
  BY DEF Closers, Openers
<1>2. /\ closing = {} /\ Reads(1) /\ 1 \in Requests /\ Head(pipe) = pipe[1]
      /\ i \in Ids /\ pipe[1].cmd \in Closers /\ pipe[1].cmd \notin Openers
      /\ UNCHANGED <<op, sends, due, asked>> /\ s.type # "RESERVE"
  BY <1>1, CommandKeeps
<1>3. ev' \subseteq [id : Ids, read : BOOLEAN, write : BOOLEAN]
  BY DEF Inv, TypeOK
<1>4. ASSUME NEW how \in {"flushed", "cut"}, ForceClose(i, d, how) PROVE Closes(i, d, v, how, 1)
  BY <1>2, <1>3, <1>4 DEF Closes
<1>5. CASE ForceClose(i, d, "cut")
  BY <1>2, <1>4, <1>5, Closed
<1>6. CASE NoMoreSendingData(d) /\ ForceClose(i, d, "flushed")
  <2>1. SendBufferEmpty(d) /\ d.dw = <<>>
    BY <1>6 DEF NoMoreSendingData
  <2> QED
    BY <1>2, <1>4, <1>6, <2>1, Closed
<1>7. CASE /\ sock' = [sock EXCEPT ![i] = [d EXCEPT !.type = "HALFCLOSE"]]
           /\ UNCHANGED <<closing, fate>>
  <2> DEFINE h == [d EXCEPT !.type = "HALFCLOSE"]
  <2>1. /\ h \in Slot /\ h.type = "HALFCLOSE" /\ h.protocol = d.protocol /\ h.lock = d.lock
        /\ h.dw = d.dw /\ h.high = d.high /\ h.low = d.low
    BY DEF Slot, Types
  <2>2. fate[i] = "open" /\ fate = [fate EXCEPT ![i] = "open"]
    BY <1>2, Alive
  <2>3. sock' = [sock EXCEPT ![i] = h] /\ fate' = [fate EXCEPT ![i] = "open"] /\ closing' = {}
    BY <1>2, <1>7, <2>2
  <2> HIDE DEF h
  <2>4. All(v, h) = All(v, d) /\ Sound(v, h)
    BY <2>1 DEF All, Sound
  <2>5. Serves(i, h, v, "open", 1)
    BY <1>2, <1>3, <2>1, <2>2, <2>3 DEF Serves, Same
  <2>6. /\ i \in asked /\ \A k \in 1..Len(pipe') : pipe'[k].id = i => pipe'[k].m \notin due[i]
        /\ pipe[1].m = 0
    BY <1>2, AfterClose
  <2>7. Keeps(i, h, v, "open", 1)
    BY <2>4, <2>6 DEF Keeps
  <2> QED
    BY <1>2, <2>1, <2>5, <2>7, Served
<1> QED
  BY <1>2, <1>5, <1>6, <1>7 DEF CloseOrHalf

LEMMA CloseSocketKeeps ==
  ASSUME Inv, CloseSocket
  PROVE  Inv'
<1> DEFINE i == pipe[1].id  s == sock[i]  w == wire[i]  z == WithDirect(s)
           unsent == s.type # "INVALID" /\ ~NoMoreSendingData(s) /\ ~s.lock
<1>1. Command(Closers) /\ UNCHANGED <<ev, known>>
  BY DEF CloseSocket, Closers
<1>2. \A x \in Closers : x \notin Openers
  BY DEF Closers, Openers
<1>3. /\ closing = {} /\ Reads(1) /\ 1 \in Requests /\ Head(pipe) = pipe[1]
      /\ i \in Ids /\ pipe[1].cmd \in Closers /\ pipe[1].cmd \notin Openers
      /\ UNCHANGED <<op, sends, due, asked>> /\ s.type # "RESERVE"
  BY <1>1, <1>2, CommandKeeps
<1>4. s \in Slot /\ w \in Seq(Byte) /\ sock = [sock EXCEPT ![i] = s] /\ wire = [wire EXCEPT ![i] = w]
  BY <1>3 DEF Inv, TypeOK
<1>5. CASE s.type = "INVALID" /\ UNCHANGED <<sock, closing, wire, fate>>
  BY <1>1, <1>3, <1>4, <1>5, Dropped
<1>6. s.type # "INVALID" => Sound(w, s)
  BY <1>3, Alive
<1>7. CASE s.type # "INVALID" /\ CloseOrHalf(Head(pipe), s) /\ UNCHANGED wire
  <2>1. Same(s, s) /\ All(w, s) = Got(i) /\ wire' = [wire EXCEPT ![i] = w]
    BY <1>4, <1>7 DEF Same, Got
  <2> QED
    BY <1>1, <1>3, <1>4, <1>6, <1>7, <2>1, CloseOrHalfKeeps
<1>8. ASSUME unsent, NEW n \in 0..Left(z), CloseOrHalf(Head(pipe), SendBuffer(z, n)),
             wire' = [wire EXCEPT ![i] = @ \o Took(z, n)]
      PROVE  Inv'
  <2> DEFINE d == SendBuffer(z, n)  v == wire[i] \o Took(z, n)
  <2>1. /\ d \in Slot /\ Same(d, s) /\ d.dw = <<>> /\ v \in Seq(Byte)
        /\ All(v, d) = Got(i) /\ Sound(v, d)
    BY <1>3, <1>8, Written
  <2>2. wire' = [wire EXCEPT ![i] = v] /\ CloseOrHalf(Head(pipe), d)
    BY <1>8
  <2>3. s.type # "INVALID" /\ ~d.lock
    BY <1>8, <2>1 DEF Same
  <2> HIDE DEF d, v
  <2> QED
    BY <1>1, <2>1, <2>2, <2>3, CloseOrHalfKeeps
<1>9. CASE unsent /\ ForceClose(i, z, "cut") /\ UNCHANGED wire
  <2>1. z \in Slot /\ Same(z, s) /\ z.dw = <<>> /\ All(w, z) = Got(i)
    <3>1. Got(i) = All(w, s)
      BY DEF Got
    <3> HIDE DEF s, w
    <3> QED
      BY <1>4, <3>1, DirectKeeps
  <2>2. ~z.lock /\ s.type \notin {"INVALID", "RESERVE"} /\ wire' = [wire EXCEPT ![i] = w]
    BY <1>3, <1>4, <1>9, <2>1 DEF Same
  <2> HIDE DEF z
  <2>3. ev' \subseteq [id : Ids, read : BOOLEAN, write : BOOLEAN]
    BY <1>1 DEF Inv, TypeOK
  <2>4. Closes(i, z, w, "cut", 1)
    BY <1>1, <1>3, <1>9, <2>1, <2>2, <2>3 DEF Closes
  <2> QED
    BY <1>3, <1>4, <2>1, <2>4, Closed
<1> QED
  BY <1>3, <1>5, <1>7, <1>8, <1>9 DEF CloseSocket

\* A socket that was reserved is opened, or could not be.
LEMMA Opened ==
  ASSUME Inv, Command(Openers), NEW d \in Slot, NEW how \in {"open", "cut"},
         sock' = [sock EXCEPT ![pipe[1].id] = d], fate' = [fate EXCEPT ![pipe[1].id] = how],
         IF how = "cut" THEN d.type = "INVALID" /\ d.protocol = sock[pipe[1].id].protocol
         ELSE /\ d.type \in {"CONNECTED", "CONNECTING"}
              /\ d.protocol = IF pipe[1].cmd = "O" THEN "TCP" ELSE "UDP",
         d.dw = <<>>, d.high = sock[pipe[1].id].high, d.low = sock[pipe[1].id].low, ~d.lock,
         known' \in {known, known \cup {pipe[1].id}}, UNCHANGED <<ev, closing, wire>>
  PROVE  Inv'
<1> DEFINE i == pipe[1].id  s == sock[i]
<1>1. /\ closing = {} /\ Reads(1) /\ 1 \in Requests /\ Head(pipe) = pipe[1]
      /\ i \in Ids /\ pipe[1].cmd \in Openers /\ UNCHANGED <<op, sends, due, asked>>
  BY CommandKeeps
<1>2. /\ s.type = "RESERVE" /\ ~s.lock /\ s.protocol = "UNKNOWN" /\ s.dw = <<>>
      /\ pipe[1].cmd = "O" => i \notin known
      /\ \A j \in Requests : pipe[j].id = i => j >= 1
      /\ fate[i] = "open"
  <2>1. Asks(1, i)
    BY <1>1 DEF Asks
  <2>2. s.type = "RESERVE" /\ (pipe[1].cmd = "O" => i \notin known)
    BY <1>1, <2>1 DEF Inv, Opening
  <2> QED
    BY <1>1, <2>2 DEF Inv, Lives, Protocols, Requests
<1>3. TypeOK'
  BY <1>1 DEF Inv, TypeOK, Reads
<1>4. /\ \A j \in Ids : sock'[j] = IF j = i THEN d ELSE sock[j]
      /\ \A j \in Ids : fate'[j] = IF j = i THEN how ELSE fate[j]
  BY DEF Inv, TypeOK
<1>5. /\ Requests' = 1..Len(pipe')
      /\ \A k \in Requests' : k + 1 \in Requests /\ pipe'[k] = pipe[k + 1]
      /\ \A k \in Requests' : k \in Nat \ {0}
      /\ \A k \in Requests : k \in Nat \ {0} /\ (k # 1 => k - 1 \in Requests' /\ pipe'[k - 1] = pipe[k])
  <2>1. /\ Requests' = 1..Len(pipe')
        /\ \A k \in Requests' : k + 1 \in Requests /\ pipe'[k] = pipe[k + 1]
        /\ \A k \in Requests : k > 1 => k - 1 \in Requests' /\ pipe'[k - 1] = pipe[k]
    BY <1>1, ReadsAt DEF Inv
  <2>2. \A k \in Requests : k \in Nat \ {0} /\ (k # 1 => k > 1)
    BY DEF Requests
  <2> QED
    BY <2>1, <2>2
<1>6. \A k \in Requests : pipe[k] \in Request
  BY ElementOfSeq DEF Inv, TypeOK, Requests
<1>7. \A t \in Threads : op[t] \in Call
  BY DEF Inv, TypeOK
<1>8. op' = op
  BY <1>1
\* Nobody else opens it.
<1>9. \A k \in Requests : Asks(k, i) => k = 1
  <2>1. \A k \in Requests : Asks(k, i) => 1 >= k
    BY <1>1 DEF Inv, Opening
  <2> QED
    BY <2>1 DEF Requests
<1>10. \A t \in Threads : ~Opens(t, i)
  BY <1>1 DEF Inv, Opening
<1>11. Opening'
  <2>1. ASSUME NEW j \in Ids, NEW t \in Threads, Opens(t, j)'
        PROVE  /\ sock'[j].type = "RESERVE" /\ j \notin known'
               /\ \A u \in Threads : Opens(u, j)' => u = t
               /\ \A k \in Requests' : pipe'[k].id # j
    <3>1. Opens(t, j) /\ j # i /\ \A u \in Threads : Opens(u, j)' => Opens(u, j)
      BY <1>8, <1>10, <2>1 DEF Opens
    <3>2. /\ sock[j].type = "RESERVE" /\ j \notin known
          /\ \A u \in Threads : Opens(u, j) => u = t
          /\ \A k \in Requests : pipe[k].id # j
      BY <3>1 DEF Inv, Opening
    <3> QED
      BY <1>4, <1>5, <3>1, <3>2
  <2>2. ASSUME NEW j \in Ids, NEW k \in Requests', Asks(k, j)'
        PROVE  /\ sock'[j].type = "RESERVE"
               /\ pipe'[k].cmd = "O" => j \notin known'
               /\ \A l \in Requests' : pipe'[l].id = j => l >= k
    <3>1. k + 1 \in Requests /\ Asks(k + 1, j) /\ pipe'[k] = pipe[k + 1]
      BY <1>5, <2>2 DEF Asks
    <3>2. /\ sock[j].type = "RESERVE" /\ (pipe[k + 1].cmd = "O" => j \notin known)
          /\ \A l \in Requests : pipe[l].id = j => l >= k + 1
      BY <3>1 DEF Inv, Opening
    <3>3. ASSUME NEW l \in Requests', pipe'[l].id = j PROVE l >= k
      <4>1. l + 1 >= k + 1
        BY <1>5, <3>2, <3>3
      <4> QED
        BY <1>5, <4>1
    <3>4. j # i
      <4>1. k + 1 # 1
        BY <1>5
      <4> QED
        BY <1>9, <3>1, <4>1
    <3> QED
      BY <1>4, <3>1, <3>2, <3>3, <3>4
  <2>3. ASSUME NEW j \in Ids, sock'[j].type = "RESERVE", j \in known'
        PROVE  \E k \in Requests' : Asks(k, j)'
    <3>1. sock[j].type = "RESERVE" /\ j \in known /\ j # i
      BY <1>4, <2>3
    <3>2. PICK k \in Requests : Asks(k, j)
      BY <3>1 DEF Inv, Opening
    <3>3. k # 1
      BY <3>1, <3>2 DEF Asks
    <3> QED
      BY <1>5, <3>2, <3>3 DEF Asks
  <2> QED
    BY <2>1, <2>2, <2>3 DEF Opening
<1>12. Unknown'
  <2>1. known \subseteq known' /\ asked' = asked
    BY <1>1
  <2>2. ASSUME NEW j \in Ids, j \notin known'
        PROVE  /\ \A t \in Threads : op'[t].id = j => op'[t].cmd \in Openers
               /\ \A k \in Requests' : pipe'[k].id = j => pipe'[k].cmd \in Openers
               /\ j \notin asked'
    <3>1. /\ \A t \in Threads : op[t].id = j => op[t].cmd \in Openers
          /\ \A k \in Requests : pipe[k].id = j => pipe[k].cmd \in Openers
          /\ j \notin asked
      BY <2>1, <2>2 DEF Inv, Unknown
    <3>2. \A k \in Requests' : pipe'[k].id = j => pipe'[k].cmd \in Openers
      BY <1>5, <3>1
    <3> QED
      BY <1>8, <2>1, <3>1, <3>2
  <2> QED
    BY <2>2 DEF Unknown
<1>13. Lives'
  BY <1>1, <1>2, <1>4 DEF Inv, Lives
<1>14. Protocols'
  <2>1. \A t \in Threads : op[t].cmd \in Senders => op[t].id \in Ids
    BY <1>7 DEF Call, NoOp, Senders
  <2>2. \A k \in Requests : pipe[k].id \in Ids
    BY <1>6 DEF Request
  <2>3. \A j \in Ids : sock'[j].protocol # "TCP" => sock'[j].dw = <<>>
    BY <1>4 DEF Inv, Protocols
  <2>4. ASSUME NEW t \in Threads
        PROVE  /\ op'[t].cmd \in {"D", "P"} => sock'[op'[t].id].protocol = "TCP"
               /\ op'[t].cmd = "A" => sock'[op'[t].id].protocol # "TCP"
    <3>1. /\ op[t].cmd \in {"D", "P"} => sock[op[t].id].protocol = "TCP"
          /\ op[t].cmd = "A" => sock[op[t].id].protocol # "TCP"
      BY DEF Inv, Protocols
    <3>2. op[t].cmd \in {"D", "P"} => op[t].id # i
      BY <1>2, <3>1
    <3>3. op[t].cmd = "A" /\ op[t].id = i => pipe[1].cmd # "O"
      BY <1>1, <1>2 DEF Inv, Unknown, Openers
    <3> QED
      BY <1>2, <1>4, <1>8, <2>1, <3>1, <3>2, <3>3 DEF Senders
  <2>5. ASSUME NEW k \in Requests', pipe'[k].cmd = "A"
        PROVE  sock'[pipe'[k].id].protocol # "TCP"
    <3>1. k + 1 \in Requests /\ pipe'[k] = pipe[k + 1] /\ sock[pipe[k + 1].id].protocol # "TCP"
      BY <1>5, <2>5 DEF Inv, Protocols
    <3>2. pipe[k + 1].id = i => pipe[1].cmd # "O"
      BY <1>1, <1>2, <2>5, <3>1 DEF Inv, Unknown, Openers
    <3> QED
      BY <1>2, <1>4, <2>2, <3>1, <3>2
  <2> QED
    BY <2>3, <2>4, <2>5 DEF Protocols
<1>15. Locks'
  <2>1. \A t \in Threads : op[t].step \in {"try", "lists", "rest", "write"} => op[t].id \in Ids
    BY <1>7 DEF Call, NoOp
  <2>2. \A t \in Threads : op[t].step \in {"try", "lists", "rest", "write"} => op[t].id # i
    BY <1>2 DEF Inv, Locks, Holds
  <2> QED
    BY <1>4, <1>8, <2>1, <2>2 DEF Inv, Locks, Holds
<1>16. \A j \in Ids : Got(j)' = Got(j)
  <2>1. \A j \in Ids : /\ sock'[j].dw = sock[j].dw /\ sock'[j].high = sock[j].high
                       /\ sock'[j].low = sock[j].low /\ wire'[j] = wire[j]
    BY <1>2, <1>4
  <2> QED
    BY <2>1 DEF Got, All
<1>17. Fresh'
  <2>1. op' = op /\ due' = due /\ sends' = sends
    BY <1>1
  <2>2. ASSUME NEW t \in Threads, op'[t].m # 0
        PROVE  /\ op'[t].m <= sends'
               /\ \A u \in Threads : op'[u].m = op'[t].m => u = t
               /\ \A k \in Requests' : pipe'[k].m # op'[t].m
               /\ \A j \in Ids : op'[t].m \notin MsgsOf(Got(j)') /\ op'[t].m \notin due'[j]
    BY <1>5, <1>16, <2>1, <2>2 DEF Inv, Fresh
  <2>3. ASSUME NEW k \in Requests', pipe'[k].m # 0
        PROVE  /\ pipe'[k].m <= sends'
               /\ \A l \in Requests' : pipe'[l].m = pipe'[k].m => l = k
               /\ \A j \in Ids : pipe'[k].m \notin MsgsOf(Got(j)')
    <3>1. ASSUME NEW l \in Requests', pipe'[l].m = pipe'[k].m PROVE l = k
      <4>1. l + 1 = k + 1
        BY <1>5, <2>3, <3>1 DEF Inv, Fresh
      <4> QED
        BY <1>5, <4>1
    <3> QED
      BY <1>5, <1>16, <2>1, <2>3, <3>1 DEF Inv, Fresh
  <2>4. ASSUME NEW j \in Ids, NEW m \in MsgsOf(Got(j)') \cup due'[j] PROVE m <= sends'
    BY <1>16, <2>1, <2>4 DEF Inv, Fresh
  <2> QED
    BY <2>2, <2>3, <2>4 DEF Fresh
<1>18. Streams'
  <2>1. \A j \in Ids : Sound(wire[j], sock[j]) => Sound(wire[j], sock'[j])
    BY <1>2, <1>4 DEF Sound, All
  <2> QED
    BY <1>2, <1>4, <2>1 DEF Inv, Streams
<1>19. Dues'
  <2>1. due' = due /\ asked' = asked /\ wire' = wire
    BY <1>1
  <2>2. ASSUME NEW j \in Ids, fate'[j] = "open", NEW m \in due'[j]
        PROVE  Final(Got(j)', m) \/ \E k \in Requests' : pipe'[k].id = j /\ pipe'[k].m = m
    <3>1. Final(Got(j), m) \/ \E k \in Requests : pipe[k].id = j /\ pipe[k].m = m
      BY <1>2, <1>4, <2>1, <2>2 DEF Inv, Dues
    <3>2. m # 0 /\ pipe[1].m = 0
      <4>1. pipe[1].m = 0
        BY <1>1, <1>6 DEF Request, Openers, Senders
      <4> QED
        BY <2>1, <4>1 DEF Inv, TypeOK
    <3> QED
      BY <1>5, <1>16, <3>1, <3>2
  <2>3. \A j \in Ids : fate'[j] = "flushed" => j \in asked' /\ \A m \in due'[j] : Final(wire'[j], m)
    BY <1>4, <2>1 DEF Inv, Dues
  <2>4. ASSUME NEW k \in Requests', pipe'[k].cmd \in Closers
        PROVE  /\ pipe'[k].id \in asked'
               /\ \A j \in Requests' : j > k /\ pipe'[j].id = pipe'[k].id
                                         => pipe'[j].m \notin due'[pipe'[k].id]
    <3>1. k + 1 \in Requests /\ pipe'[k] = pipe[k + 1] /\ k \in Nat
      BY <1>5
    <3>2. ASSUME NEW j \in Requests', j > k, pipe'[j].id = pipe'[k].id
          PROVE  pipe'[j].m \notin due[pipe[k + 1].id]
      <4>1. j + 1 \in Requests /\ pipe'[j] = pipe[j + 1] /\ j + 1 > k + 1
        BY <1>5, <3>1, <3>2
      <4> QED
        BY <2>4, <3>1, <3>2, <4>1 DEF Inv, Dues
    <3> QED
      BY <2>1, <2>4, <3>1, <3>2 DEF Inv, Dues
  <2>5. ASSUME NEW j \in Ids, sock'[j].type = "HALFCLOSE"
        PROVE  j \in asked' /\ \A k \in Requests' : pipe'[k].id = j => pipe'[k].m \notin due'[j]
    <3>1. sock[j].type = "HALFCLOSE"
      BY <1>4, <2>5
    <3>2. j \in asked /\ \A k \in Requests : pipe[k].id = j => pipe[k].m \notin due[j]
      BY <3>1 DEF Inv, Dues
    <3> QED
      BY <1>5, <2>1, <3>2
  <2> QED
    BY <2>2, <2>3, <2>4, <2>5 DEF Dues
<1> QED
  BY <1>3, <1>11, <1>12, <1>13, <1>14, <1>15, <1>17, <1>18, <1>19 DEF Inv

LEMMA OpenSocketKeeps ==
  ASSUME Inv, OpenSocket
  PROVE  Inv'
<1> DEFINE i == pipe[1].id  s == sock[i]
           p == IF pipe[1].cmd = "O" THEN "TCP" ELSE "UDP"
<1>1. Command(Openers) /\ UNCHANGED <<ev, closing, wire>>
  BY DEF OpenSocket, Openers
<1>2. 1 \in Requests /\ Head(pipe) = pipe[1] /\ i \in Ids /\ pipe[1].cmd \in Openers
  BY <1>1, CommandKeeps
<1>3. Asks(1, i)
  BY <1>2 DEF Asks
<1>4. s.type = "RESERVE" /\ ~s.lock /\ s.protocol = "UNKNOWN" /\ s.dw = <<>> /\ fate[i] = "open"
  BY <1>2, <1>3 DEF Inv, Opening, Lives, Protocols
<1>5. s \in Slot /\ sock \in [Ids -> Slot] /\ fate = [fate EXCEPT ![i] = "open"]
  BY <1>2, <1>4 DEF Inv, TypeOK
<1>6. CASE /\ sock' = [sock EXCEPT ![i].type = "INVALID"]
           /\ fate' = [fate EXCEPT ![i] = "cut"]
           /\ UNCHANGED known
  <2> DEFINE d == [s EXCEPT !.type = "INVALID"]
  <2>1. sock' = [sock EXCEPT ![i] = d]
    BY <1>2, <1>5, <1>6
  <2> HIDE DEF s
  <2>2. /\ d \in Slot /\ d.type = "INVALID" /\ d.protocol = s.protocol /\ d.lock = s.lock
        /\ d.dw = s.dw /\ d.high = s.high /\ d.low = s.low
    BY <1>5 DEF Slot, Types
  <2> HIDE DEF d
  <2> USE DEF s
  <2> QED
    BY <1>1, <1>4, <1>6, <2>1, <2>2, Opened
<1>7. ASSUME NEW type \in {"CONNECTED", "CONNECTING"},
             sock' = [sock EXCEPT ![i] = NewFd(@, p, type)],
             known' \in {known, known \cup {i}}, UNCHANGED fate
      PROVE  Inv'
  <2> DEFINE d == NewFd(s, p, type)
  <2>1. sock' = [sock EXCEPT ![i] = d] /\ fate' = [fate EXCEPT ![i] = "open"]
    BY <1>2, <1>5, <1>7
  <2>2. p \in {"TCP", "UDP"}
    OBVIOUS
  <2> HIDE DEF s, p
  <2>3. /\ d \in Slot /\ d.type = type /\ d.protocol = p /\ ~d.lock
        /\ d.dw = <<>> /\ d.high = s.high /\ d.low = s.low
    <3> DEFINE poll == IF type = "CONNECTING" THEN "out" ELSE "in"
    <3>1. d = [s EXCEPT !.type = type, !.protocol = p, !.sending = 0, !.dw = <<>>,
                        !.lock = FALSE, !.poll = poll]
      BY DEF NewFd
    <3>2. poll \in {"in", "out"} /\ <<>> \in Seq(Byte)
      OBVIOUS
    <3> HIDE DEF d, poll
    <3>3. d = [type |-> type, protocol |-> p, sending |-> 0, high |-> s.high, low |-> s.low,
               dw |-> <<>>, lock |-> FALSE, poll |-> poll]
      BY <1>5, <3>1 DEF Slot
    <3>4. s.high \in Seq(Byte) /\ s.low \in Seq(Byte) /\ type \in Types /\ 0 \in Int
      BY <1>5, <1>7 DEF Slot, Types
    <3>5. d \in Slot
      BY <2>2, <3>2, <3>3, <3>4 DEF Slot
    <3> QED
      BY <3>3, <3>5
  <2> HIDE DEF d
  <2> USE DEF s, p
  <2> QED
    BY <1>1, <1>4, <1>7, <2>1, <2>3, Opened
<1>8. \/ UNCHANGED fate /\ known' = known \cup {i} /\ sock' = [sock EXCEPT ![i] = NewFd(@, p, "CONNECTED")]
      \/ /\ UNCHANGED <<known, fate>> /\ pipe[1].cmd = "O"
         /\ sock' = [sock EXCEPT ![i] = NewFd(@, "TCP", "CONNECTING")]
      => Inv'
  BY <1>7
<1> QED
  BY <1>2, <1>6, <1>8 DEF OpenSocket

LEMMA StillKeeps ==
  ASSUME Inv, ev' \subseteq [id : Ids, read : BOOLEAN, write : BOOLEAN],
         UNCHANGED <<sock, pipe, closing, op, wire, known, sends, due, asked, fate>>
  PROVE  Inv'
<1>1. TypeOK'
  BY DEF Inv, TypeOK
<1>2. Requests' = Requests
  BY DEF Requests
<1>3. \A t, i : Opens(t, i)' = Opens(t, i) /\ Asks(t, i)' = Asks(t, i) /\ Holds(t)' = Holds(t)
  BY DEF Opens, Asks, Holds
<1>4. \A i : Got(i)' = Got(i)
  BY DEF Got
<1>5. Opening'
  BY <1>2, <1>3 DEF Inv, Opening
<1>6. Unknown' /\ Protocols'
  BY <1>2 DEF Inv, Unknown, Protocols
<1>7. Lives' /\ Streams'
  BY DEF Inv, Lives, Streams
<1>8. Locks'
  BY <1>3 DEF Inv, Locks
<1>9. Fresh'
  BY <1>2, <1>4 DEF Inv, Fresh
<1>10. Dues'
  BY <1>2, <1>4 DEF Inv, Dues
<1> QED
  BY <1>1, <1>5, <1>6, <1>7, <1>8, <1>9, <1>10 DEF Inv

LEMMA WaitKeeps ==
  ASSUME Inv, Wait
  PROVE  Inv'
<1>1. ev' \subseteq [id : Ids, read : BOOLEAN, write : BOOLEAN]
  <2>1. PICK ids \in SUBSET {i \in Ids : sock[i].poll # "off"}, reads \in SUBSET Ids,
             writes \in SUBSET Ids :
          ev' = {[id |-> i, read |-> i \in reads, write |-> i \in writes] : i \in ids}
    BY DEF Wait
  <2>2. \A i \in Ids : (i \in reads) \in BOOLEAN /\ (i \in writes) \in BOOLEAN
    OBVIOUS
  <2>3. \A i \in ids : [id |-> i, read |-> i \in reads, write |-> i \in writes]
                       \in [id : Ids, read : BOOLEAN, write : BOOLEAN]
    BY <2>2
  <2> QED
    BY <2>1, <2>3
<1> QED
  BY <1>1, StillKeeps DEF Wait, history

LEMMA CloseFdKeeps ==
  ASSUME Inv, CloseFd
  PROVE  Inv'
<1>1. PICK i \in closing :
        /\ ~sock[i].lock
        /\ sock' = [sock EXCEPT ![i].type = "INVALID", ![i].dw = <<>>]
        /\ closing' = {}
        /\ ev' = {e \in ev : e.id # i}
        /\ UNCHANGED <<pipe, check, at, op, history>>
  BY DEF CloseFd
<1> DEFINE s == sock[i]  d == [s EXCEPT !.type = "INVALID", !.dw = <<>>]
<1>2. /\ i \in Ids /\ s \in Slot /\ sock \in [Ids -> Slot]
      /\ fate[i] # "open" /\ s.type \notin {"RESERVE", "INVALID"} /\ \A j \in closing : j = i
  <2>1. i \in Ids
    BY DEF Inv, TypeOK
  <2> QED
    BY <2>1 DEF Inv, TypeOK, Lives
<1>3. UNCHANGED <<pipe, op, wire, known, sends, due, asked, fate>>
  BY <1>1 DEF history
<1>4. sock' = [sock EXCEPT ![i] = d]
  BY <1>1, <1>2
<1>5. /\ d \in Slot /\ d.type = "INVALID" /\ d.protocol = s.protocol /\ d.lock = s.lock
      /\ d.dw = <<>> /\ d.high = s.high /\ d.low = s.low
  <2>1. <<>> \in Seq(Byte)
    OBVIOUS
  <2> HIDE DEF s
  <2> QED
    BY <1>2, <2>1 DEF Slot, Types
<1> HIDE DEF d
<1>6. \A j \in Ids : sock'[j] = IF j = i THEN d ELSE sock[j]
  BY <1>2, <1>4
<1>7. TypeOK'
  BY <1>1, <1>2, <1>3, <1>4, <1>5 DEF Inv, TypeOK
<1>8. Requests' = Requests
  BY <1>3 DEF Requests
<1>9. \A t, j : Opens(t, j)' = Opens(t, j) /\ Asks(t, j)' = Asks(t, j) /\ Holds(t)' = Holds(t)
  BY <1>3 DEF Opens, Asks, Holds
<1>10. \A k \in Requests : pipe[k] \in Request
  BY ElementOfSeq DEF Inv, TypeOK, Requests
<1>11. \A t \in Threads : op[t] \in Call
  BY DEF Inv, TypeOK
<1>12. Opening'
  <2>1. \A j \in Ids : sock'[j].type = "RESERVE" <=> sock[j].type = "RESERVE"
    BY <1>2, <1>5, <1>6
  <2> QED
    BY <1>3, <1>8, <1>9, <2>1 DEF Inv, Opening
<1>13. Unknown'
  BY <1>3, <1>8 DEF Inv, Unknown
<1>14. Lives'
  BY <1>1, <1>2, <1>3, <1>5, <1>6 DEF Inv, Lives
<1>15. Protocols'
  <2>1. \A j \in Ids : sock'[j].protocol = sock[j].protocol
    BY <1>5, <1>6
  <2>2. \A t \in Threads : op[t].cmd \in Senders => op[t].id \in Ids
    BY <1>11 DEF Call, NoOp, Senders
  <2>3. \A k \in Requests : pipe[k].id \in Ids
    BY <1>10 DEF Request
  <2>4. \A j \in Ids : sock'[j].protocol # "TCP" => sock'[j].dw = <<>>
    BY <1>5, <1>6, <2>1 DEF Inv, Protocols
  <2>5. \A t \in Threads :
          /\ op'[t].cmd \in {"D", "P"} => sock'[op'[t].id].protocol = "TCP"
          /\ op'[t].cmd = "A" => sock'[op'[t].id].protocol # "TCP"
    BY <1>3, <2>1, <2>2 DEF Inv, Protocols, Senders
  <2>6. \A k \in Requests' : pipe'[k].cmd = "A" => sock'[pipe'[k].id].protocol # "TCP"
    BY <1>3, <1>8, <2>1, <2>3 DEF Inv, Protocols
  <2> QED
    BY <2>4, <2>5, <2>6 DEF Protocols
<1>16. Locks'
  <2>1. \A t \in Threads : op[t].step \in {"try", "lists", "rest", "write"} => op[t].id \in Ids
    BY <1>11 DEF Call, NoOp
  <2>2. \A t \in Threads : op[t].step \in {"lists", "rest", "write"} => op[t].id # i
    BY <1>1 DEF Inv, Locks, Holds
  <2>3. \A t \in Threads : op'[t].step = "try" => sock'[op'[t].id].type # "RESERVE"
    BY <1>3, <1>5, <1>6, <2>1 DEF Inv, Locks
  <2> QED
    BY <1>3, <1>6, <2>1, <2>2, <2>3 DEF Inv, Locks, Holds
<1>17. \A j \in Ids : MsgsOf(Got(j)') \subseteq MsgsOf(Got(j)) /\ (j # i => Got(j)' = Got(j))
  <2>1. ASSUME NEW j \in Ids, j # i PROVE Got(j)' = Got(j)
    BY <1>3, <1>6, <2>1 DEF Got
  <2>2. MsgsOf(Got(i)') \subseteq MsgsOf(Got(i))
    <3> DEFINE w == wire[i]
    <3>1. w \in Seq(Byte) /\ Lists(s) /\ Lists(d)
      BY <1>2, <1>5 DEF Inv, TypeOK, Lists, Slot
    <3>2. Got(i) = All(w, s) /\ Got(i)' = All(w, d)
      BY <1>2, <1>3, <1>6 DEF Got
    <3> HIDE DEF w, s
    <3>3. MsgsOf(All(w, s)) = MsgsOf(w) \cup MsgsOf(s.dw) \cup MsgsOf(s.high) \cup MsgsOf(s.low)
      BY <3>1, AllIn
    <3>4. MsgsOf(All(w, d)) = MsgsOf(w) \cup MsgsOf(d.dw) \cup MsgsOf(d.high) \cup MsgsOf(d.low)
      BY <3>1, AllIn
    <3>5. MsgsOf(<<>>) = {}
      BY DEF MsgsOf
    <3> QED
      BY <1>5, <3>2, <3>3, <3>4, <3>5
  <2> QED
    BY <2>1, <2>2
<1>18. Fresh'
  BY <1>3, <1>8, <1>17 DEF Inv, Fresh
<1>19. Streams'
  BY <1>2, <1>3, <1>5, <1>6 DEF Inv, Streams
<1>20. Dues'
  <2>1. ASSUME NEW j \in Ids, fate'[j] = "open", NEW m \in due'[j]
        PROVE  Final(Got(j)', m) \/ \E k \in Requests' : pipe'[k].id = j /\ pipe'[k].m = m
    <3>1. j # i /\ Got(j)' = Got(j)
      BY <1>2, <1>3, <1>17, <2>1
    <3> QED
      BY <1>3, <1>8, <2>1, <3>1 DEF Inv, Dues
  <2>2. ASSUME NEW j \in Ids, sock'[j].type = "HALFCLOSE"
        PROVE  j \in asked' /\ \A k \in Requests' : pipe'[k].id = j => pipe'[k].m \notin due'[j]
    <3>1. sock[j].type = "HALFCLOSE"
      BY <1>5, <1>6, <2>2
    <3> QED
      BY <1>3, <1>8, <3>1 DEF Inv, Dues
  <2> QED
    BY <1>3, <1>8, <2>1, <2>2 DEF Inv, Dues
<1> QED
  BY <1>7, <1>12, <1>13, <1>14, <1>15, <1>16, <1>18, <1>19, <1>20 DEF Inv

Steps == {"look", "try", "lists", "rest", "write", "inc", "pipe"}

\* A thread sends a message to a socket that is known.
LEMMA Caller ==
  ASSUME Inv, NEW t \in Threads, op[t].step \in Steps \ {"pipe"}
  PROVE  /\ op[t] \in [step : Steps, id : Ids, m : Nat \ {0}, cmd : Senders]
         /\ op[t].id \in Ids /\ op[t].id \in known /\ op[t].m \in Nat \ {0}
         /\ op[t].cmd \in Senders /\ op[t].cmd \notin Openers
         /\ sock[op[t].id] \in Slot /\ wire[op[t].id] \in Seq(Byte)
<1>1. op[t] \in Call
  BY DEF Inv, TypeOK
<1>2. op[t] \in [step : Steps, id : Ids, m : Nat \ {0}, cmd : Senders]
  BY <1>1 DEF Call, NoOp, Steps
<1>3. /\ op[t].id \in Ids /\ op[t].m \in Nat \ {0} /\ op[t].cmd \in Senders
      /\ op[t].cmd \notin Openers
  BY <1>2 DEF Senders, Openers
<1>4. op[t].id \in known
  BY <1>3 DEF Inv, Unknown
<1> QED
  BY <1>2, <1>3, <1>4 DEF Inv, TypeOK

Holding == {"lists", "rest", "write"}

\* The call of t goes on to a step, and its socket becomes d.
Moves(t, step, d) ==
  LET s == sock[op[t].id] IN
  /\ op[t].step \in Steps \ {"pipe"} /\ step \in Steps
  /\ op' = [op EXCEPT ![t].step = step]
  /\ sock' = [sock EXCEPT ![op[t].id] = d]
  /\ d.type = s.type /\ d.protocol = s.protocol
  /\ d.high = s.high /\ d.low = s.low /\ d.dw = s.dw
  /\ \/ d.lock = s.lock /\ (Holds(t) <=> step \in Holding)
     \/ ~s.lock /\ d.lock /\ s.type # "RESERVE"
     \/ Holds(t) /\ step \notin Holding /\ ~d.lock
  /\ step = "try" => s.type # "RESERVE"
  /\ step \in {"rest", "write"} => Starts(s.high)
  /\ step = "write" => s.dw = <<>> /\ s.type # "INVALID"
  /\ UNCHANGED <<pipe, loopVars, closing, history>>

LEMMA MovesKeeps ==
  ASSUME Inv, NEW t \in Threads, NEW step, NEW d \in Slot, Moves(t, step, d)
  PROVE  Inv'
<1> DEFINE i == op[t].id  s == sock[i]  o == [op[t] EXCEPT !.step = step]
<1>1. /\ op[t] \in [step : Steps, id : Ids, m : Nat \ {0}, cmd : Senders]
      /\ i \in Ids /\ i \in known /\ op[t].m \in Nat \ {0} /\ op[t].cmd \in Senders
      /\ op[t].cmd \notin Openers /\ s \in Slot
  BY Caller DEF Moves
<1>2. /\ o \in [step : Steps, id : Ids, m : Nat \ {0}, cmd : Senders]
      /\ o.step = step /\ o.id = op[t].id /\ o.m = op[t].m /\ o.cmd = op[t].cmd
  BY <1>1 DEF Moves
<1>3. UNCHANGED <<pipe, ev, closing, wire, known, sends, due, asked, fate>>
  BY DEF Moves, loopVars, history
<1>4. op' = [op EXCEPT ![t] = o] /\ op \in [Threads -> Call]
  BY DEF Moves, Inv, TypeOK
<1> HIDE DEF o
<1>5. o \in Call
  BY <1>2 DEF Call, Steps
<1>6. TypeOK'
  BY <1>1, <1>3, <1>4, <1>5 DEF Inv, TypeOK, Moves
<1>7. \A u \in Threads : /\ op'[u] = IF u = t THEN o ELSE op[u]
                         /\ op'[u].id = op[u].id /\ op'[u].m = op[u].m /\ op'[u].cmd = op[u].cmd
                         /\ op'[u].step = IF u = t THEN step ELSE op[u].step
  BY <1>2, <1>4
<1>8. \A j \in Ids : /\ sock'[j] = IF j = i THEN d ELSE sock[j]
                     /\ sock'[j].type = sock[j].type /\ sock'[j].protocol = sock[j].protocol
                     /\ sock'[j].dw = sock[j].dw /\ sock'[j].high = sock[j].high
                     /\ sock'[j].low = sock[j].low
  BY DEF Inv, TypeOK, Moves
<1>9. /\ Requests' = Requests /\ \A k, j : Asks(k, j)' = Asks(k, j)
      /\ \A u \in Threads : \A j : Opens(u, j)' = Opens(u, j)
  BY <1>3, <1>7 DEF Requests, Asks, Opens
<1>10. \A j \in Ids : Got(j)' = Got(j)
  BY <1>3, <1>8 DEF Got, All
<1>11. \A k \in Requests : pipe[k] \in Request
  BY ElementOfSeq DEF Inv, TypeOK, Requests
<1>12. \A u \in Threads : op[u] \in Call
  BY <1>4
<1>13. Opening'
  BY <1>3, <1>8, <1>9 DEF Inv, Opening
<1>14. Unknown'
  BY <1>3, <1>7, <1>9 DEF Inv, Unknown
<1>15. Lives'
  <2>1. \A j \in Ids : sock'[j].lock => sock[j].lock \/ (j = i /\ s.type # "RESERVE")
    BY <1>8 DEF Moves
  <2> QED
    BY <1>1, <1>3, <1>8, <2>1 DEF Inv, Lives
<1>16. Protocols'
  <2>1. \A u \in Threads : op[u].cmd \in Senders => op[u].id \in Ids
    BY <1>12 DEF Call, NoOp, Senders
  <2>2. \A k \in Requests : pipe[k].id \in Ids
    BY <1>11 DEF Request
  <2>3. \A j \in Ids : sock'[j].protocol # "TCP" => sock'[j].dw = <<>>
    BY <1>8 DEF Inv, Protocols
  <2>4. \A u \in Threads :
          /\ op'[u].cmd \in {"D", "P"} => sock'[op'[u].id].protocol = "TCP"
          /\ op'[u].cmd = "A" => sock'[op'[u].id].protocol # "TCP"
    BY <1>7, <1>8, <2>1 DEF Inv, Protocols, Senders
  <2>5. \A k \in Requests' : pipe'[k].cmd = "A" => sock'[pipe'[k].id].protocol # "TCP"
    BY <1>3, <1>8, <1>9, <2>2 DEF Inv, Protocols
  <2> QED
    BY <2>3, <2>4, <2>5 DEF Protocols
<1>17. Locks'
  <2>1. \A u \in Threads : op[u].step \in {"try", "lists", "rest", "write"} => op[u].id \in Ids
    BY <1>12 DEF Call, NoOp
  <2>2. \A u \in Threads : Holds(u)' <=> IF u = t THEN step \in Holding ELSE Holds(u)
    BY <1>7 DEF Holds, Holding
  <2>3. ASSUME NEW u \in Threads, op'[u].step = "try" PROVE sock'[op'[u].id].type # "RESERVE"
    <3>1. CASE u = t
      BY <1>1, <1>7, <1>8, <2>3, <3>1 DEF Moves
    <3>2. CASE u # t
      BY <1>7, <1>8, <2>1, <2>3, <3>2 DEF Inv, Locks
    <3> QED
      BY <3>1, <3>2
  <2>4. ASSUME NEW u \in Threads, Holds(u)'
        PROVE  /\ sock'[op'[u].id].lock
               /\ \A v \in Threads : Holds(v)' /\ op'[v].id = op'[u].id => v = u
    <3>1. op'[u].id = op[u].id /\ op[u].id \in Ids
      BY <1>1, <1>7, <2>1, <2>2, <2>4 DEF Holds
    <3>2. \A v, x \in Threads : Holds(v) /\ Holds(x) /\ op[v].id = op[x].id => v = x
      BY DEF Inv, Locks
    <3>3. \A v \in Threads : Holds(v) => sock[op[v].id].lock
      BY DEF Inv, Locks
    <3>4. CASE d.lock = s.lock /\ (Holds(t) <=> step \in Holding)
      <4>1. \A v \in Threads : Holds(v)' <=> Holds(v)
        BY <2>2, <3>4
      <4>2. sock'[op[u].id].lock
        BY <1>8, <2>4, <3>1, <3>3, <3>4, <4>1
      <4> QED
        BY <1>7, <2>4, <3>1, <3>2, <4>1, <4>2
    <3>5. CASE ~s.lock /\ d.lock
      <4>1. \A v \in Threads : Holds(v) => op[v].id # i
        BY <3>3, <3>5
      <4>2. sock'[op[u].id].lock
        BY <1>8, <2>2, <2>4, <3>1, <3>3, <3>5
      <4> QED
        BY <1>7, <2>2, <2>4, <3>1, <3>2, <4>1, <4>2
    <3>6. CASE Holds(t) /\ step \notin Holding /\ ~d.lock
      <4>1. \A v \in Threads : Holds(v)' => Holds(v) /\ op[v].id # i
        BY <2>2, <3>2, <3>6
      <4>2. sock'[op[u].id].lock
        BY <1>8, <2>4, <3>1, <3>3, <4>1
      <4> QED
        BY <1>7, <2>4, <3>1, <3>2, <4>1, <4>2
    <3> QED
      BY <3>4, <3>5, <3>6 DEF Moves
  <2>5. ASSUME NEW u \in Threads, op'[u].step \in {"rest", "write"}
        PROVE  Starts(sock'[op'[u].id].high)
    <3>1. CASE u = t
      BY <1>1, <1>7, <1>8, <2>5, <3>1 DEF Moves
    <3>2. CASE u # t
      BY <1>7, <1>8, <2>1, <2>5, <3>2 DEF Inv, Locks
    <3> QED
      BY <3>1, <3>2
  <2>6. ASSUME NEW u \in Threads, op'[u].step = "write"
        PROVE  sock'[op'[u].id].dw = <<>> /\ sock'[op'[u].id].type # "INVALID"
    <3>1. CASE u = t
      BY <1>1, <1>7, <1>8, <2>6, <3>1 DEF Moves
    <3>2. CASE u # t
      BY <1>7, <1>8, <2>1, <2>6, <3>2 DEF Inv, Locks
    <3> QED
      BY <3>1, <3>2
  <2> QED
    BY <2>3, <2>4, <2>5, <2>6 DEF Locks
<1>18. Fresh'
  BY <1>3, <1>7, <1>9, <1>10 DEF Inv, Fresh
<1>19. Streams'
  <2>1. \A j \in Ids : Sound(wire[j], sock[j]) => Sound(wire[j], sock'[j])
    BY <1>8 DEF Sound, All
  <2> QED
    BY <1>3, <1>8, <2>1 DEF Inv, Streams
<1>20. Dues'
  <2>1. \A j \in Ids : sock'[j].type = "HALFCLOSE" => sock[j].type = "HALFCLOSE"
    BY <1>8
  <2> QED
    BY <1>3, <1>9, <1>10, <2>1 DEF Inv, Dues
<1> QED
  BY <1>6, <1>13, <1>14, <1>15, <1>16, <1>17, <1>18, <1>19, <1>20 DEF Inv

\* A socket of which only the lock and the counter change.
LEMMA Locked ==
  ASSUME NEW s \in Slot, NEW b \in BOOLEAN
  PROVE  LET d == [s EXCEPT !.lock = b]
         IN  /\ d \in Slot /\ d.type = s.type /\ d.protocol = s.protocol /\ d.lock = b
             /\ d.high = s.high /\ d.low = s.low /\ d.dw = s.dw
BY DEF Slot

LEMMA LookKeeps ==
  ASSUME Inv, NEW t \in Threads, Look(t)
  PROVE  Inv'
<1> DEFINE i == op[t].id  s == sock[i]
<1>1. op[t].step = "look" /\ i \in Ids /\ s \in Slot
  BY Caller DEF Look, At, Steps
<1>2. sock' = [sock EXCEPT ![i] = s]
  BY <1>1 DEF Look, Inv, TypeOK
<1>3. ~Holds(t)
  BY <1>1 DEF Holds
<1>4. ASSUME NEW step \in {"try", "pipe", "inc"}, Goto(t, step), step = "try" => s.type # "RESERVE"
      PROVE  Inv'
  <2>1. Moves(t, step, s)
    BY <1>1, <1>2, <1>3, <1>4 DEF Moves, Steps, Holding, Goto, Look
  <2> QED
    BY <1>1, <2>1, MovesKeeps
<1> QED
  BY <1>4 DEF Look, ByPipe, CanDirectWrite

LEMMA TryLockKeeps ==
  ASSUME Inv, NEW t \in Threads, TryLock(t)
  PROVE  Inv'
<1> DEFINE i == op[t].id  s == sock[i]  d == [s EXCEPT !.lock = TRUE]
<1>1. op[t].step = "try" /\ i \in Ids /\ s \in Slot
  BY Caller DEF TryLock, At, Steps
<1>2. sock' = [sock EXCEPT ![i] = d]
  BY <1>1 DEF TryLock, Inv, TypeOK
<1>3. ~Holds(t) /\ s.type # "RESERVE"
  BY <1>1 DEF Holds, Inv, Locks
<1>4. /\ d \in Slot /\ d.type = s.type /\ d.protocol = s.protocol /\ d.lock
      /\ d.high = s.high /\ d.low = s.low /\ d.dw = s.dw
  <2> HIDE DEF s
  <2> QED
    BY <1>1, Locked
<1>5. s.lock \in BOOLEAN
  BY <1>1 DEF Slot
<1> HIDE DEF d
<1>6. ASSUME NEW step \in {"lists", "pipe", "inc"}, Goto(t, step), s.lock <=> step # "lists"
      PROVE  Inv'
  <2>1. \/ d.lock = s.lock /\ (Holds(t) <=> step \in Holding)
        \/ ~s.lock /\ d.lock /\ s.type # "RESERVE"
    <3>1. CASE step = "lists"
      BY <1>3, <1>4, <1>6, <3>1
    <3>2. CASE step # "lists"
      <4>1. d.lock = s.lock
        BY <1>4, <1>5, <1>6, <3>2 DEF Slot
      <4> QED
        BY <1>3, <1>6, <3>2, <4>1 DEF Holding
    <3> QED
      BY <3>1, <3>2
  <2>2. Moves(t, step, d)
    BY <1>1, <1>2, <1>4, <1>6, <2>1 DEF Moves, Steps, Goto, TryLock
  <2> QED
    BY <1>4, <2>2, MovesKeeps
<1> QED
  BY <1>6 DEF TryLock, ByPipe

LEMMA DoubleCheckKeeps ==
  ASSUME Inv, NEW t \in Threads, NEW step \in {"lists", "rest"}, NEW next \in {"rest", "write"},
         NEW holds, DoubleCheck(t, step, holds, next),
         LET s == sock[op[t].id]
         IN  holds => /\ Starts(s.high)
                      /\ next = "write" => s.dw = <<>> /\ s.type # "INVALID"
  PROVE  Inv'
<1> DEFINE i == op[t].id  s == sock[i]  d == [s EXCEPT !.lock = FALSE]
<1>1. op[t].step = step /\ i \in Ids /\ s \in Slot /\ step \in Steps \ {"pipe"} /\ Holds(t)
  <2>1. op[t].step = step /\ step \in Steps \ {"pipe"} /\ Holds(t)
    BY DEF DoubleCheck, At, Steps, Holds
  <2> QED
    BY <2>1, Caller
<1>2. CASE holds /\ Goto(t, next) /\ UNCHANGED sock
  <2>1. sock' = [sock EXCEPT ![i] = s]
    BY <1>1, <1>2 DEF Inv, TypeOK
  <2>2. Moves(t, next, s)
    BY <1>1, <1>2, <2>1 DEF Moves, Steps, Holding, Goto, DoubleCheck
  <2> QED
    BY <1>1, <2>2, MovesKeeps
<1>3. CASE ByPipe(t) /\ sock' = [sock EXCEPT ![i].lock = FALSE]
  <2>1. PICK to \in {"pipe", "inc"} : Goto(t, to)
    BY <1>3 DEF ByPipe
  <2>2. sock' = [sock EXCEPT ![i] = d]
    BY <1>1, <1>3 DEF Inv, TypeOK
  <2>3. /\ d \in Slot /\ d.type = s.type /\ d.protocol = s.protocol /\ ~d.lock
        /\ d.high = s.high /\ d.low = s.low /\ d.dw = s.dw
    <3> HIDE DEF s
    <3> QED
      BY <1>1, Locked
  <2> HIDE DEF d
  <2>4. Moves(t, to, d)
    BY <1>1, <2>1, <2>2, <2>3 DEF Moves, Steps, Holding, Goto, DoubleCheck
  <2> QED
    BY <2>3, <2>4, MovesKeeps
<1> QED
  BY <1>2, <1>3 DEF DoubleCheck

LEMMA CheckListsKeeps ==
  ASSUME Inv, NEW t \in Threads, CheckLists(t)
  PROVE  Inv'
<1>1. SendBufferEmpty(sock[op[t].id]) => Starts(sock[op[t].id].high)
  BY DEF SendBufferEmpty, Starts
<1> QED
  BY <1>1, DoubleCheckKeeps DEF CheckLists

LEMMA CheckRestKeeps ==
  ASSUME Inv, NEW t \in Threads, CheckRest(t)
  PROVE  Inv'
<1> DEFINE s == sock[op[t].id]
           holds == s.dw = <<>> /\ s.sending = 0 /\ s.type = "CONNECTED"
<1>1. DoubleCheck(t, "rest", holds, "write")
  BY DEF CheckRest
<1>2. holds => Starts(s.high) /\ s.dw = <<>> /\ s.type # "INVALID"
  BY <1>1 DEF DoubleCheck, At, Inv, Locks
<1> QED
  BY <1>1, <1>2, DoubleCheckKeeps

LEMMA IncSendingRefKeeps ==
  ASSUME Inv, NEW t \in Threads, IncSendingRef(t)
  PROVE  Inv'
<1> DEFINE i == op[t].id  s == sock[i]
           n == IF s.protocol = "TCP" THEN s.sending + 1 ELSE s.sending
           d == [s EXCEPT !.sending = n]
<1>1. op[t].step = "inc" /\ i \in Ids /\ s \in Slot
  BY Caller DEF IncSendingRef, At, Steps
<1>2. sock' = [sock EXCEPT ![i] = d]
  BY <1>1 DEF IncSendingRef, Inv, TypeOK
<1>3. ~Holds(t)
  BY <1>1 DEF Holds
<1>4. n \in Int
  <2> HIDE DEF s
  <2> QED
    BY <1>1 DEF Slot
<1>5. /\ d \in Slot /\ d.type = s.type /\ d.protocol = s.protocol /\ d.lock = s.lock
      /\ d.high = s.high /\ d.low = s.low /\ d.dw = s.dw
  <2> HIDE DEF s, n
  <2> QED
    BY <1>1, <1>4 DEF Slot
<1> HIDE DEF d
<1>6. Moves(t, "pipe", d)
  BY <1>1, <1>2, <1>3, <1>5 DEF Moves, Steps, Holding, Goto, IncSendingRef
<1> QED
  BY <1>5, <1>6, MovesKeeps

\* The call of t is over.
LEMMA Returns ==
  ASSUME Inv, NEW t \in Threads, Done(t)
  PROVE  /\ op' \in [Threads -> Call]
         /\ op'[t] = NoOp /\ \A u \in Threads : u # t => op'[u] = op[u]
         /\ \A u \in Threads : op'[u].id \in Ids => op'[u] = op[u] /\ u # t
         /\ \A u \in Threads : op'[u].m # 0 => op'[u] = op[u] /\ u # t
         /\ \A u \in Threads : op'[u].cmd # "none" => op'[u] = op[u] /\ u # t
         /\ \A u \in Threads : op'[u].step # "none" => op'[u] = op[u] /\ u # t
<1>1. op \in [Threads -> Call] /\ NoOp \in Call
  BY DEF Inv, TypeOK, Call
<1>2. op' \in [Threads -> Call] /\ op'[t] = NoOp /\ \A u \in Threads : u # t => op'[u] = op[u]
  BY <1>1 DEF Done
<1>3. NoOp.id \notin Ids /\ NoOp.m = 0 /\ NoOp.cmd = "none" /\ NoOp.step = "none"
  BY SocketAssumption DEF NoOp, Ids
<1> QED
  BY <1>2, <1>3

\* A message has been written directly, or its beginning has.
LEMMA WrittenKeeps ==
  ASSUME Inv, NEW t \in Threads, NEW d \in Slot, NEW v \in Seq(Byte), op[t].step = "write",
         Done(t), Returned(t),
         sock' = [sock EXCEPT ![op[t].id] = d], wire' = [wire EXCEPT ![op[t].id] = v],
         UNCHANGED <<pipe, loopVars, closing, known, sends, asked, fate>>,
         LET i == op[t].id
             s == sock[i]
         IN  /\ d.type = s.type /\ d.protocol = s.protocol /\ ~d.lock
             /\ d.high = s.high /\ d.low = s.low
             /\ op[t].cmd = "A" => d.dw = <<>>
             /\ Sound(wire[i], s) => Sound(v, d)
             /\ Grown(Got(i), All(v, d), op[t].m, op[t].cmd)
             /\ \A k : Final(wire[i], k) => Final(v, k)
  PROVE  Inv'
<1> DEFINE i == op[t].id  s == sock[i]  m == op[t].m
<1>1. /\ i \in Ids /\ i \in known /\ m \in Nat \ {0} /\ op[t].cmd \in Senders
      /\ op[t].cmd \notin Openers /\ s \in Slot
  BY Caller DEF Steps
<1>2. /\ op' \in [Threads -> Call]
      /\ op'[t] = NoOp /\ \A u \in Threads : u # t => op'[u] = op[u]
      /\ \A u \in Threads : op'[u].id \in Ids => op'[u] = op[u] /\ u # t
      /\ \A u \in Threads : op'[u].m # 0 => op'[u] = op[u] /\ u # t
      /\ \A u \in Threads : op'[u].cmd # "none" => op'[u] = op[u] /\ u # t
      /\ \A u \in Threads : op'[u].step # "none" => op'[u] = op[u] /\ u # t
  BY Returns
<1>3. UNCHANGED <<pipe, ev, closing, known, sends, asked, fate>>
  BY DEF loopVars
<1>4. /\ due' \in [Ids -> SUBSET (Nat \ {0})]
      /\ \A j \in Ids : \A k \in due'[j] : k \in due[j] \/ (k = m /\ j = i /\ i \notin asked)
      /\ \A j \in Ids : j \in asked => due'[j] = due[j]
  BY <1>1 DEF Inv, TypeOK, Returned
<1>5. TypeOK'
  BY <1>1, <1>2, <1>3, <1>4 DEF Inv, TypeOK
<1>6. /\ \A j \in Ids : sock'[j] = IF j = i THEN d ELSE sock[j]
      /\ \A j \in Ids : wire'[j] = IF j = i THEN v ELSE wire[j]
      /\ \A j \in Ids : sock'[j].type = sock[j].type /\ sock'[j].protocol = sock[j].protocol
                        /\ (sock'[j].lock => sock[j].lock) /\ sock'[j].high = sock[j].high
  BY DEF Inv, TypeOK
<1>7. Requests' = Requests /\ \A k, j : Asks(k, j)' = Asks(k, j)
  BY <1>3 DEF Requests, Asks
<1>8. \A k \in Requests : pipe[k] \in Request
  BY ElementOfSeq DEF Inv, TypeOK, Requests
<1>9. \A u \in Threads : op[u] \in Call
  BY DEF Inv, TypeOK
<1>10. Opening'
  <2>1. ASSUME NEW j \in Ids, NEW u \in Threads, Opens(u, j)' PROVE Opens(u, j)
    BY <1>2, <2>1 DEF Opens
  <2> QED
    BY <1>3, <1>6, <1>7, <2>1 DEF Inv, Opening
<1>11. Unknown'
  BY <1>2, <1>3, <1>7 DEF Inv, Unknown
<1>12. Lives'
  BY <1>3, <1>6 DEF Inv, Lives
<1>13. Protocols'
  <2>1. \A u \in Threads : op[u].cmd \in Senders => op[u].id \in Ids
    BY <1>9 DEF Call, NoOp, Senders
  <2>2. \A k \in Requests : pipe[k].id \in Ids
    BY <1>8 DEF Request
  <2>3. op[t].cmd # "A" => s.protocol = "TCP"
    BY <1>1 DEF Inv, Protocols, Senders
  <2>4. \A j \in Ids : sock'[j].protocol # "TCP" => sock'[j].dw = <<>>
    BY <1>6, <2>3 DEF Inv, Protocols
  <2>5. \A u \in Threads :
          /\ op'[u].cmd \in {"D", "P"} => sock'[op'[u].id].protocol = "TCP"
          /\ op'[u].cmd = "A" => sock'[op'[u].id].protocol # "TCP"
    BY <1>2, <1>6, <2>1 DEF Inv, Protocols, Senders
  <2>6. \A k \in Requests' : pipe'[k].cmd = "A" => sock'[pipe'[k].id].protocol # "TCP"
    BY <1>3, <1>6, <1>7, <2>2 DEF Inv, Protocols
  <2> QED
    BY <2>4, <2>5, <2>6 DEF Protocols
<1>14. Locks'
  <2>1. \A u \in Threads : op[u].step \in {"try", "lists", "rest", "write"} => op[u].id \in Ids
    BY <1>9 DEF Call, NoOp
  <2>2. Holds(t)
    BY DEF Holds
  <2>3. \A u \in Threads : Holds(u)' => Holds(u) /\ op'[u] = op[u] /\ op[u].id # i
    BY <1>2, <2>2 DEF Inv, Locks, Holds
  <2>4. \A u \in Threads : op'[u].step = "try" => sock'[op'[u].id].type # "RESERVE"
    BY <1>2, <1>6, <2>1 DEF Inv, Locks
  <2>5. ASSUME NEW u \in Threads, Holds(u)'
        PROVE  /\ sock'[op'[u].id].lock
               /\ \A x \in Threads : Holds(x)' /\ op'[x].id = op'[u].id => x = u
    <3>1. Holds(u) /\ op'[u] = op[u] /\ op[u].id # i /\ op[u].id \in Ids
      BY <2>1, <2>3, <2>5 DEF Holds
    <3>2. sock[op[u].id].lock /\ \A x \in Threads : Holds(x) /\ op[x].id = op[u].id => x = u
      BY <3>1 DEF Inv, Locks
    <3> QED
      BY <1>6, <2>3, <3>1, <3>2
  <2>6. \A u \in Threads : op'[u].step \in {"rest", "write"} => Starts(sock'[op'[u].id].high)
    BY <1>2, <1>6, <2>1 DEF Inv, Locks
  <2>7. ASSUME NEW u \in Threads, op'[u].step = "write"
        PROVE  sock'[op'[u].id].dw = <<>> /\ sock'[op'[u].id].type # "INVALID"
    <3>1. op'[u] = op[u] /\ op[u].id # i /\ op[u].id \in Ids
      BY <2>1, <2>3, <2>7, <1>2 DEF Holds
    <3> QED
      BY <1>6, <2>7, <3>1 DEF Inv, Locks
  <2> QED
    BY <2>4, <2>5, <2>6, <2>7 DEF Locks
<1>15. \A j \in Ids : Got(j)' = IF j = i THEN All(v, d) ELSE Got(j)
  BY <1>1, <1>6 DEF Got
<1>16. /\ MsgsOf(All(v, d)) = MsgsOf(Got(i)) \cup {m}
       /\ Final(All(v, d), m) /\ \A k : Final(Got(i), k) => Final(All(v, d), k)
  <2> DEFINE a == Got(i)  e == All(v, d)  cmd == op[t].cmd
  <2>1. m \in Nat /\ Grown(a, e, m, cmd)
    BY <1>1
  <2> HIDE DEF a, e, cmd, m
  <2>2. MsgsOf(e) = MsgsOf(a) \cup {m} /\ Final(e, m) /\ \A k : Final(a, k) => Final(e, k)
    BY <2>1, GrownKeeps
  <2> QED
    BY <2>2 DEF a, e, m
<1>17. \A j \in Ids : \A k \in MsgsOf(Got(j)') \cup due'[j] : k \in MsgsOf(Got(j)) \cup due[j] \/ k = m
  BY <1>4, <1>15, <1>16
<1>18. \A j \in Ids : \A k \in MsgsOf(Got(j)') : k \in MsgsOf(Got(j)) \/ k = m
  BY <1>15, <1>16
<1>19. Fresh'
  <2>1. /\ m <= sends /\ \A k \in Requests : pipe[k].m # m
        /\ \A u \in Threads : op[u].m = m => u = t
    BY <1>1 DEF Inv, Fresh
  <2>2. ASSUME NEW u \in Threads, op'[u].m # 0
        PROVE  /\ op'[u].m <= sends'
               /\ \A x \in Threads : op'[x].m = op'[u].m => x = u
               /\ \A k \in Requests' : pipe'[k].m # op'[u].m
               /\ \A j \in Ids : op'[u].m \notin MsgsOf(Got(j)') /\ op'[u].m \notin due'[j]
    <3>1. op'[u] = op[u] /\ u # t /\ op[u].m # 0 /\ op[u].m # m
      BY <1>2, <2>1, <2>2
    <3>2. /\ op[u].m <= sends
          /\ \A x \in Threads : op[x].m = op[u].m => x = u
          /\ \A k \in Requests : pipe[k].m # op[u].m
          /\ \A j \in Ids : op[u].m \notin MsgsOf(Got(j)) /\ op[u].m \notin due[j]
      BY <3>1 DEF Inv, Fresh
    <3>3. \A j \in Ids : op[u].m \notin MsgsOf(Got(j)') \cup due'[j]
      BY <1>17, <3>1, <3>2
    <3>4. \A x \in Threads : op'[x].m = op'[u].m => x = u
      BY <1>2, <2>2, <3>1, <3>2
    <3> QED
      BY <1>3, <1>7, <3>1, <3>2, <3>3, <3>4
  <2>3. ASSUME NEW k \in Requests', pipe'[k].m # 0
        PROVE  /\ pipe'[k].m <= sends'
               /\ \A l \in Requests' : pipe'[l].m = pipe'[k].m => l = k
               /\ \A j \in Ids : pipe'[k].m \notin MsgsOf(Got(j)')
    BY <1>3, <1>7, <1>18, <2>1, <2>3 DEF Inv, Fresh
  <2>4. ASSUME NEW j \in Ids, NEW k \in MsgsOf(Got(j)') \cup due'[j] PROVE k <= sends'
    BY <1>3, <1>17, <2>1, <2>4 DEF Inv, Fresh
  <2> QED
    BY <2>2, <2>3, <2>4 DEF Fresh
<1>20. Streams'
  <2>1. s.type # "INVALID"
    BY DEF Inv, Locks
  <2>2. fate[i] # "cut" => Sound(v, d) /\ Whole(v)
    <3>1. fate[i] # "cut" => Sound(v, d)
      BY <1>1, <2>1 DEF Inv, Streams
    <3> QED
      BY <3>1, SoundWhole
  <2> QED
    BY <1>3, <1>6, <2>2 DEF Inv, Streams
<1>21. Dues'
  <2>1. ASSUME NEW j \in Ids, fate'[j] = "open", NEW k \in due'[j]
        PROVE  Final(Got(j)', k) \/ \E l \in Requests' : pipe'[l].id = j /\ pipe'[l].m = k
    <3>1. CASE k \in due[j]
      BY <1>3, <1>7, <1>15, <1>16, <2>1, <3>1 DEF Inv, Dues
    <3>2. CASE k = m /\ j = i
      BY <1>15, <1>16, <3>2
    <3> QED
      BY <1>4, <3>1, <3>2
  <2>2. ASSUME NEW j \in Ids, fate'[j] = "flushed"
        PROVE  j \in asked' /\ \A k \in due'[j] : Final(wire'[j], k)
    <3>1. j \in asked /\ \A k \in due[j] : Final(wire[j], k)
      BY <1>3, <2>2 DEF Inv, Dues
    <3> QED
      BY <1>3, <1>4, <1>6, <3>1
  <2>3. ASSUME NEW k \in Requests', pipe'[k].cmd \in Closers
        PROVE  /\ pipe'[k].id \in asked'
               /\ \A j \in Requests' : j > k /\ pipe'[j].id = pipe'[k].id
                                         => pipe'[j].m \notin due'[pipe'[k].id]
    <3>1. /\ pipe[k].id \in asked
          /\ \A j \in Requests : j > k /\ pipe[j].id = pipe[k].id => pipe[j].m \notin due[pipe[k].id]
      BY <1>3, <1>7, <2>3 DEF Inv, Dues
    <3>2. pipe[k].id \in Ids
      BY <1>7, <1>8, <2>3 DEF Request
    <3> QED
      BY <1>3, <1>4, <1>7, <3>1, <3>2
  <2>4. ASSUME NEW j \in Ids, sock'[j].type = "HALFCLOSE"
        PROVE  j \in asked' /\ \A k \in Requests' : pipe'[k].id = j => pipe'[k].m \notin due'[j]
    <3>1. j \in asked /\ \A k \in Requests : pipe[k].id = j => pipe[k].m \notin due[j]
      BY <1>6, <2>4 DEF Inv, Dues
    <3> QED
      BY <1>3, <1>4, <1>7, <3>1
  <2> QED
    BY <2>1, <2>2, <2>3, <2>4 DEF Dues
<1> QED
  BY <1>5, <1>10, <1>11, <1>12, <1>13, <1>14, <1>19, <1>20, <1>21 DEF Inv

LEMMA WriteActionKeeps ==
  ASSUME Inv, NEW t \in Threads, NEW n \in 0..Size, Write(t, n)
  PROVE  Inv'
<1> DEFINE i == op[t].id  s == sock[i]  w == wire[i]  m == op[t].m  cmd == op[t].cmd
           bytes == Bytes(m, cmd)
           took == SubSeq(bytes, 1, n)
           rest == SubSeq(bytes, n + 1, Len(bytes))
           p == IF rest = <<>> THEN s.poll ELSE "out"
<1>1. op[t].step = "write"
  BY DEF Write, At
<1>2. /\ i \in Ids /\ i \in known /\ m \in Nat \ {0} /\ cmd \in Senders
      /\ s \in Slot /\ w \in Seq(Byte)
  BY <1>1, Caller DEF Steps
<1>3. /\ s.dw = <<>> /\ s.type # "INVALID" /\ Starts(s.high) /\ Holds(t)
      /\ m \notin MsgsOf(Got(i))
  BY <1>1, <1>2 DEF Inv, Locks, Holds, Fresh
<1>4. /\ bytes \in Seq(Byte) /\ Len(bytes) = (IF cmd = "A" THEN 1 ELSE Size) /\ n \in 0..Len(bytes)
  <2>1. bytes \in Seq(Byte) /\ Len(bytes) = IF cmd = "A" THEN 1 ELSE Size
    BY <1>2, BytesAre
  <2>2. n <= Len(bytes)
    BY DEF Write
  <2> HIDE DEF bytes
  <2> QED
    BY <2>1, <2>2, SocketAssumption
<1>5. /\ took \in Seq(Byte) /\ rest \in Seq(Byte) /\ Len(took) = n /\ Len(rest) = Len(bytes) - n
  BY <1>4, SubAt
<1>6. wire' = [wire EXCEPT ![i] = w \o took]
  BY <1>2 DEF Write, Inv, TypeOK
<1>7. UNCHANGED <<pipe, loopVars, closing, known, sends, asked, fate>>
  BY DEF Write
<1>8. CASE /\ cmd = "A" /\ rest # <<>> /\ Goto(t, "pipe")
           /\ sock' = [sock EXCEPT ![i].lock = FALSE] /\ UNCHANGED due
  <2> DEFINE d == [s EXCEPT !.lock = FALSE]
  <2>1. sock' = [sock EXCEPT ![i] = d]
    BY <1>2, <1>8 DEF Inv, TypeOK
  <2>2. /\ d \in Slot /\ d.type = s.type /\ d.protocol = s.protocol /\ ~d.lock
        /\ d.high = s.high /\ d.low = s.low /\ d.dw = s.dw
    <3> HIDE DEF s
    <3> QED
      BY <1>2, Locked
  <2>3. took = <<>>
    <3> HIDE DEF rest, took, bytes
    <3>1. Len(bytes) = 1 /\ Len(rest) # 0
      BY <1>4, <1>5, <1>8, EmptySeq
    <3>2. n = 0
      BY <1>4, <1>5, <3>1
    <3> QED
      BY <1>5, <3>2, EmptySeq
  <2> HIDE DEF d, took, bytes
  <2>4. w \o took = w
    <3> HIDE DEF w
    <3> QED
      BY <1>2, <2>3, ConcatEmptySeq
  <2>5. wire' = wire
    BY <1>2, <1>6, <2>4 DEF Inv, TypeOK
  <2>6. UNCHANGED <<pipe, loopVars, closing, history>>
    BY <1>7, <1>8, <2>5 DEF history
  <2>7. Moves(t, "pipe", d)
    BY <1>1, <1>3, <1>8, <2>1, <2>2, <2>6 DEF Moves, Steps, Holding, Goto
  <2> QED
    BY <2>2, <2>7, MovesKeeps
<1>9. CASE /\ ~(cmd = "A" /\ rest # <<>>) /\ Done(t) /\ Returned(t)
           /\ sock' = [sock EXCEPT ![i].lock = FALSE, ![i].dw = rest,
                                   ![i].poll = IF rest = <<>> THEN @ ELSE "out"]
  <2> DEFINE d == [s EXCEPT !.lock = FALSE, !.dw = rest, !.poll = p]
             v == w \o took
  <2>1. sock' = [sock EXCEPT ![i] = d]
    <3> HIDE DEF rest
    <3> QED
      BY <1>2, <1>9 DEF Inv, TypeOK, Slot
  <2>2. p \in {"off", "in", "out"}
    <3> HIDE DEF s, rest
    <3> QED
      BY <1>2 DEF Slot
  <2>3. /\ d \in Slot /\ d.type = s.type /\ d.protocol = s.protocol /\ ~d.lock
        /\ d.high = s.high /\ d.low = s.low /\ d.dw = rest
    <3> HIDE DEF s, p, rest
    <3> QED
      BY <1>2, <1>5, <2>2 DEF Slot
  <2>4. Got(i) = All(w, s)
    BY DEF Got
  <2> HIDE DEF d, p
  <2>5. /\ v \in Seq(Byte) /\ Grown(All(w, s), All(v, d), m, cmd)
        /\ Sound(w, s) /\ Starts(s.high) /\ m \notin MsgsOf(All(w, s)) => Sound(v, d)
    <3>1. d.dw = SubSeq(Bytes(m, cmd), n + 1, Len(Bytes(m, cmd))) /\ n \in 0..Len(Bytes(m, cmd))
          /\ m \in Nat
      BY <1>2, <1>4, <2>3
    <3> HIDE DEF s, w, m, cmd
    <3> QED
      BY <1>2, <1>3, <2>3, <3>1, WriteKeeps
  <2>6. \A k : Final(w, k) => Final(v, k)
    <3> HIDE DEF w, took
    <3> QED
      BY <1>2, <1>5, FinalJoin
  <2>7. cmd = "A" => d.dw = <<>>
    BY <1>9, <2>3
  <2>8. wire' = [wire EXCEPT ![i] = v]
    BY <1>6
  <2> HIDE DEF v, rest, took, bytes
  <2> QED
    BY <1>1, <1>3, <1>7, <1>9, <2>1, <2>3, <2>4, <2>5, <2>6, <2>7, <2>8, WrittenKeeps
<1> QED
  BY <1>8, <1>9 DEF Write

-----------------------------------------------------------------------------
LEMMA Appends ==
  ASSUME TypeOK, NEW r \in Request, pipe' = Append(pipe, r)
  PROVE  LET n == Len(pipe) + 1
         IN  /\ pipe' \in Seq(Request) /\ n \in Nat \ {0}
             /\ Requests' = Requests \cup {n} /\ pipe'[n] = r
             /\ \A k \in Requests : k \in Nat /\ k < n /\ pipe'[k] = pipe[k] /\ pipe[k] \in Request
<1> DEFINE n == Len(pipe) + 1
<1>1. pipe \in Seq(Request) /\ Len(pipe) \in Nat
  BY DEF TypeOK
<1>2. /\ pipe' \in Seq(Request) /\ Len(pipe') = n /\ pipe'[n] = r
      /\ \A k \in 1..Len(pipe) : pipe'[k] = pipe[k]
  BY <1>1, AppendProperties
<1>3. Requests' = 1..n /\ Requests = 1..Len(pipe)
  BY <1>2 DEF Requests
<1>4. 1..n = (1..Len(pipe)) \cup {n}
  BY <1>1
<1>5. \A k \in Requests : k \in Nat /\ k < n /\ pipe'[k] = pipe[k] /\ pipe[k] \in Request
  BY <1>1, <1>2, <1>3, ElementOfSeq
<1> QED
  BY <1>1, <1>2, <1>3, <1>4, <1>5

LEMMA SendRequestKeeps ==
  ASSUME Inv, NEW t \in Threads, SendRequest(t)
  PROVE  Inv'
<1> DEFINE i == op[t].id  m == op[t].m  cmd == op[t].cmd
           r == [cmd |-> cmd, id |-> i, m |-> m]
<1>1. op[t].step = "pipe" /\ op[t] \in Call
  BY DEF SendRequest, At, Inv, TypeOK
<1>2. /\ i \in Ids /\ r \in Request
      /\ \/ m = 0 /\ cmd \in Openers
         \/ m \in Nat \ {0} /\ cmd \in Senders /\ cmd \notin Openers
      /\ cmd \notin Closers
  BY <1>1 DEF Call, NoOp, Request, Senders, Openers, Closers
<1>3. r.cmd = cmd /\ r.id = i /\ r.m = m
  OBVIOUS
<1>4. pipe' = Append(pipe, r)
  BY DEF SendRequest
<1> HIDE DEF r
<1>5. PICK n :
      /\ pipe' \in Seq(Request) /\ n \in Nat \ {0}
      /\ Requests' = Requests \cup {n} /\ pipe'[n] = r
      /\ \A k \in Requests : k \in Nat /\ k < n /\ pipe'[k] = pipe[k] /\ pipe[k] \in Request
  BY <1>2, <1>4, Appends DEF Inv
<1>6. /\ op' \in [Threads -> Call]
      /\ op'[t] = NoOp /\ \A u \in Threads : u # t => op'[u] = op[u]
      /\ \A u \in Threads : op'[u].id \in Ids => op'[u] = op[u] /\ u # t
      /\ \A u \in Threads : op'[u].m # 0 => op'[u] = op[u] /\ u # t
      /\ \A u \in Threads : op'[u].cmd # "none" => op'[u] = op[u] /\ u # t
      /\ \A u \in Threads : op'[u].step # "none" => op'[u] = op[u] /\ u # t
  BY Returns DEF SendRequest
<1>7. UNCHANGED <<sock, ev, closing, wire, sends, asked, fate>>
  BY DEF SendRequest, loopVars
<1>8. /\ known' \subseteq Ids /\ \A j \in Ids : j \in known' <=> j \in known \/ (j = i /\ cmd = "U")
      /\ known \subseteq known'
  BY <1>2 DEF SendRequest, Inv, TypeOK
<1>9. /\ due' \in [Ids -> SUBSET (Nat \ {0})]
      /\ \A j \in Ids : \A k \in due'[j] : k \in due[j] \/ (k = m /\ j = i /\ i \notin asked /\ m # 0)
      /\ \A j \in Ids : j \in asked => due'[j] = due[j]
  <2>1. due \in [Ids -> SUBSET (Nat \ {0})]
    BY DEF Inv, TypeOK
  <2>2. CASE m = 0
    BY <2>1, <2>2 DEF SendRequest
  <2>3. CASE m # 0
    <3>1. m \in Nat \ {0}
      BY <1>2, <2>3
    <3>2. due' = IF i \in asked THEN due ELSE [due EXCEPT ![i] = @ \cup {m}]
      BY <2>3 DEF SendRequest, Returned
    <3> HIDE DEF i, m
    <3> QED
      BY <1>2, <2>1, <3>1, <3>2
  <2> QED
    BY <2>2, <2>3
<1>10. TypeOK'
  BY <1>5, <1>6, <1>7, <1>8, <1>9 DEF Inv, TypeOK
<1>11. \A u \in Threads : \A j \in Ids : Opens(u, j)' => Opens(u, j) /\ u # t
  BY <1>6 DEF Opens
<1>12. \A k \in Requests : \A j : Asks(k, j)' = Asks(k, j)
  BY <1>5 DEF Asks
<1>13. \A j \in Ids : Asks(n, j)' => Opens(t, j)
  BY <1>3, <1>5 DEF Asks, Opens
<1>14. Opening'
  <2>1. ASSUME NEW j \in Ids, NEW u \in Threads, Opens(u, j)'
        PROVE  /\ sock'[j].type = "RESERVE" /\ j \notin known'
               /\ \A x \in Threads : Opens(x, j)' => x = u
               /\ \A k \in Requests' : pipe'[k].id # j
    <3>1. Opens(u, j) /\ u # t
      BY <1>11, <2>1
    <3>2. /\ sock[j].type = "RESERVE" /\ j \notin known
          /\ \A x \in Threads : Opens(x, j) => x = u
          /\ \A k \in Requests : pipe[k].id # j
      BY <3>1 DEF Inv, Opening
    <3>3. j # i
      <4>1. i \notin known => cmd \in Openers
        BY <1>2 DEF Inv, Unknown
      <4>2. j = i => Opens(t, j)
        BY <3>2, <4>1 DEF Opens
      <4> QED
        BY <3>1, <3>2, <4>2
    <3> QED
      BY <1>3, <1>5, <1>7, <1>8, <1>11, <3>2, <3>3
  <2>2. ASSUME NEW j \in Ids, NEW k \in Requests', Asks(k, j)'
        PROVE  /\ sock'[j].type = "RESERVE"
               /\ pipe'[k].cmd = "O" => j \notin known'
               /\ \A l \in Requests' : pipe'[l].id = j => l >= k
    <3>1. CASE k \in Requests
      <4>1. Asks(k, j) /\ pipe'[k] = pipe[k] /\ k < n /\ k \in Nat
        BY <1>5, <1>12, <2>2, <3>1
      <4>2. /\ sock[j].type = "RESERVE" /\ (pipe[k].cmd = "O" => j \notin known)
            /\ \A l \in Requests : pipe[l].id = j => l >= k
        BY <3>1, <4>1 DEF Inv, Opening
      <4>3. j = i => cmd # "U"
        <5>1. Opens(t, i) => \A l \in Requests : pipe[l].id # i
          BY <1>2 DEF Inv, Opening
        <5>2. pipe[k].id = j
          BY <4>1 DEF Asks
        <5> QED
          BY <3>1, <5>1, <5>2 DEF Opens, Openers
      <4> QED
        BY <1>5, <1>7, <1>8, <4>1, <4>2, <4>3
    <3>2. CASE k = n
      <4>1. Opens(t, j) /\ j = i
        BY <1>13, <2>2, <3>2 DEF Opens
      <4>2. /\ sock[j].type = "RESERVE" /\ j \notin known
            /\ \A l \in Requests : pipe[l].id # j
        BY <4>1 DEF Inv, Opening
      <4> QED
        BY <1>3, <1>5, <1>7, <1>8, <3>2, <4>2
    <3> QED
      BY <1>5, <3>1, <3>2
  <2>3. ASSUME NEW j \in Ids, sock'[j].type = "RESERVE", j \in known'
        PROVE  \E k \in Requests' : Asks(k, j)'
    <3>1. CASE j \in known
      <4>1. PICK k \in Requests : Asks(k, j)
        BY <1>7, <2>3, <3>1 DEF Inv, Opening
      <4> QED
        BY <1>5, <1>12, <4>1
    <3>2. CASE j = i /\ cmd = "U"
      <4>1. Asks(n, j)'
        BY <1>3, <1>5, <3>2 DEF Asks, Openers
      <4> QED
        BY <1>5, <4>1
    <3> QED
      BY <1>8, <2>3, <3>1, <3>2
  <2> QED
    BY <2>1, <2>2, <2>3 DEF Opening
<1>15. Unknown'
  <2>1. ASSUME NEW j \in Ids, j \notin known'
        PROVE  /\ \A u \in Threads : op'[u].id = j => op'[u].cmd \in Openers
               /\ \A k \in Requests' : pipe'[k].id = j => pipe'[k].cmd \in Openers
               /\ j \notin asked'
    <3>1. /\ \A u \in Threads : op[u].id = j => op[u].cmd \in Openers
          /\ \A k \in Requests : pipe[k].id = j => pipe[k].cmd \in Openers
          /\ j \notin asked
      BY <1>8, <2>1 DEF Inv, Unknown
    <3>2. \A k \in Requests' : pipe'[k].id = j => pipe'[k].cmd \in Openers
      BY <1>3, <1>5, <3>1
    <3> QED
      BY <1>6, <1>7, <3>1, <3>2
  <2> QED
    BY <2>1 DEF Unknown
<1>16. Lives'
  <2>1. Opens(t, i) => sock[i].type = "RESERVE"
    BY <1>2 DEF Inv, Opening
  <2>2. cmd = "U" => sock[i].type = "RESERVE"
    BY <2>1 DEF Opens, Openers
  <2> QED
    BY <1>7, <1>8, <2>2 DEF Inv, Lives
<1>17. Protocols'
  <2>1. ASSUME NEW k \in Requests', pipe'[k].cmd = "A" PROVE sock'[pipe'[k].id].protocol # "TCP"
    <3>1. CASE k \in Requests
      BY <1>5, <1>7, <2>1, <3>1 DEF Inv, Protocols
    <3>2. CASE k = n
      BY <1>3, <1>5, <1>7, <2>1, <3>2 DEF Inv, Protocols
    <3> QED
      BY <1>5, <3>1, <3>2
  <2>2. \A u \in Threads :
          /\ op'[u].cmd \in {"D", "P"} => sock'[op'[u].id].protocol = "TCP"
          /\ op'[u].cmd = "A" => sock'[op'[u].id].protocol # "TCP"
    BY <1>6, <1>7 DEF Inv, Protocols
  <2> QED
    BY <1>7, <2>1, <2>2 DEF Inv, Protocols
<1>18. Locks'
  <2>1. \A u \in Threads : Holds(u)' => Holds(u) /\ op'[u] = op[u]
    BY <1>6 DEF Holds
  <2>2. ASSUME NEW u \in Threads, Holds(u)'
        PROVE  /\ sock'[op'[u].id].lock
               /\ \A x \in Threads : Holds(x)' /\ op'[x].id = op'[u].id => x = u
    BY <1>7, <2>1, <2>2 DEF Inv, Locks
  <2> QED
    BY <1>6, <1>7, <2>2 DEF Inv, Locks
<1>19. \A j \in Ids : Got(j)' = Got(j)
  BY <1>7 DEF Got
<1>20. m # 0 => /\ m <= sends /\ \A u \in Threads : op[u].m = m => u = t
                /\ \A k \in Requests : pipe[k].m # m
                /\ \A j \in Ids : m \notin MsgsOf(Got(j)) /\ m \notin due[j]
  BY DEF Inv, Fresh
<1>21. Fresh'
  <2>1. ASSUME NEW u \in Threads, op'[u].m # 0
        PROVE  /\ op'[u].m <= sends'
               /\ \A x \in Threads : op'[x].m = op'[u].m => x = u
               /\ \A k \in Requests' : pipe'[k].m # op'[u].m
               /\ \A j \in Ids : op'[u].m \notin MsgsOf(Got(j)') /\ op'[u].m \notin due'[j]
    <3>1. op'[u] = op[u] /\ u # t /\ op[u].m # 0
      BY <1>6, <2>1
    <3>2. /\ op[u].m <= sends
          /\ \A x \in Threads : op[x].m = op[u].m => x = u
          /\ \A k \in Requests : pipe[k].m # op[u].m
          /\ \A j \in Ids : op[u].m \notin MsgsOf(Got(j)) /\ op[u].m \notin due[j]
      BY <3>1 DEF Inv, Fresh
    <3>3. op[u].m # m
      BY <3>1, <3>2
    <3>4. \A k \in Requests' : pipe'[k].m # op[u].m
      BY <1>3, <1>5, <3>2, <3>3
    <3>5. \A j \in Ids : op[u].m \notin MsgsOf(Got(j)') /\ op[u].m \notin due'[j]
      BY <1>9, <1>19, <3>2, <3>3
    <3>6. \A x \in Threads : op'[x].m = op'[u].m => x = u
      BY <1>6, <2>1, <3>1, <3>2
    <3> QED
      BY <1>7, <3>1, <3>2, <3>4, <3>5, <3>6
  <2>2. ASSUME NEW k \in Requests', pipe'[k].m # 0
        PROVE  /\ pipe'[k].m <= sends'
               /\ \A l \in Requests' : pipe'[l].m = pipe'[k].m => l = k
               /\ \A j \in Ids : pipe'[k].m \notin MsgsOf(Got(j)')
    <3>1. CASE k \in Requests
      <4>1. /\ pipe[k].m <= sends /\ \A l \in Requests : pipe[l].m = pipe[k].m => l = k
            /\ \A j \in Ids : pipe[k].m \notin MsgsOf(Got(j))
        BY <1>5, <2>2, <3>1 DEF Inv, Fresh
      <4>2. pipe[k].m # m
        BY <1>5, <1>20, <2>2, <3>1
      <4> QED
        BY <1>3, <1>5, <1>7, <1>19, <3>1, <4>1, <4>2
    <3>2. CASE k = n
      <4>1. pipe'[k].m = m /\ m # 0
        BY <1>3, <1>5, <2>2, <3>2
      <4> QED
        BY <1>3, <1>5, <1>7, <1>19, <1>20, <3>2, <4>1
    <3> QED
      BY <1>5, <3>1, <3>2
  <2>3. ASSUME NEW j \in Ids, NEW k \in MsgsOf(Got(j)') \cup due'[j] PROVE k <= sends'
    <3>1. k \in MsgsOf(Got(j)) \cup due[j] \/ (k = m /\ m # 0)
      BY <1>9, <1>19
    <3> QED
      BY <1>7, <1>20, <3>1 DEF Inv, Fresh
  <2> QED
    BY <2>1, <2>2, <2>3 DEF Fresh
<1>22. Streams'
  BY <1>7 DEF Inv, Streams
<1>23. Dues'
  <2>1. ASSUME NEW j \in Ids, fate'[j] = "open", NEW k \in due'[j]
        PROVE  Final(Got(j)', k) \/ \E l \in Requests' : pipe'[l].id = j /\ pipe'[l].m = k
    <3>1. CASE k \in due[j]
      BY <1>5, <1>7, <1>19, <2>1, <3>1 DEF Inv, Dues
    <3>2. CASE k = m /\ j = i
      BY <1>3, <1>5, <3>2
    <3> QED
      BY <1>9, <3>1, <3>2
  <2>2. ASSUME NEW j \in Ids, fate'[j] = "flushed"
        PROVE  j \in asked' /\ \A k \in due'[j] : Final(wire'[j], k)
    <3>1. j \in asked /\ \A k \in due[j] : Final(wire[j], k)
      BY <1>7, <2>2 DEF Inv, Dues
    <3> QED
      BY <1>7, <1>9, <3>1
  <2>3. \A j \in Ids : m \notin due[j]
    BY <1>20 DEF Inv, TypeOK
  <2>4. ASSUME NEW k \in Requests', pipe'[k].cmd \in Closers
        PROVE  /\ pipe'[k].id \in asked'
               /\ \A j \in Requests' : j > k /\ pipe'[j].id = pipe'[k].id
                                         => pipe'[j].m \notin due'[pipe'[k].id]
    <3>1. k \in Requests /\ pipe'[k] = pipe[k]
      BY <1>2, <1>3, <1>5, <2>4
    <3>2. /\ pipe[k].id \in asked
          /\ \A j \in Requests : j > k /\ pipe[j].id = pipe[k].id => pipe[j].m \notin due[pipe[k].id]
      BY <2>4, <3>1 DEF Inv, Dues
    <3>3. pipe[k].id \in Ids
      BY <1>5, <3>1 DEF Request
    <3> QED
      BY <1>3, <1>5, <1>7, <1>9, <2>3, <3>1, <3>2, <3>3
  <2>5. ASSUME NEW j \in Ids, sock'[j].type = "HALFCLOSE"
        PROVE  j \in asked' /\ \A k \in Requests' : pipe'[k].id = j => pipe'[k].m \notin due'[j]
    <3>1. j \in asked /\ \A k \in Requests : pipe[k].id = j => pipe[k].m \notin due[j]
      BY <1>7, <2>5 DEF Inv, Dues
    <3> QED
      BY <1>3, <1>5, <1>7, <1>9, <2>3, <3>1
  <2> QED
    BY <2>1, <2>2, <2>4, <2>5 DEF Dues
<1> QED
  BY <1>10, <1>14, <1>15, <1>16, <1>17, <1>18, <1>21, <1>22, <1>23 DEF Inv

LEMMA CloseKeeps ==
  ASSUME Inv, NEW t \in Threads, NEW i \in Ids, NEW cmd \in Closers, Close(t, i, cmd)
  PROVE  Inv'
<1> DEFINE r == [cmd |-> cmd, id |-> i, m |-> 0]
<1>1. i \in known /\ i \notin asked /\ asked' = asked \cup {i}
  BY DEF Close
<1>2. /\ r \in Request /\ r.cmd = cmd /\ r.id = i /\ r.m = 0 /\ cmd \notin Openers /\ cmd # "A"
      /\ pipe' = Append(pipe, r)
  BY DEF Request, Openers, Closers, Close
<1> HIDE DEF r
<1>3. PICK n :
      /\ pipe' \in Seq(Request) /\ n \in Nat \ {0}
      /\ Requests' = Requests \cup {n} /\ pipe'[n] = r
      /\ \A k \in Requests : k \in Nat /\ k < n /\ pipe'[k] = pipe[k] /\ pipe[k] \in Request
  BY <1>2, Appends DEF Inv
<1>4. UNCHANGED <<sock, ev, closing, op, wire, known, sends, due, fate>>
  BY DEF Close, loopVars
<1>5. TypeOK'
  BY <1>1, <1>3, <1>4 DEF Inv, TypeOK
<1>6. \A u, j : Opens(u, j)' = Opens(u, j) /\ Holds(u)' = Holds(u)
  BY <1>4 DEF Opens, Holds
<1>7. /\ \A k \in Requests : \A j : Asks(k, j)' = Asks(k, j)
      /\ \A j : ~Asks(n, j)'
  BY <1>2, <1>3 DEF Asks
<1>8. Opening'
  <2>1. ASSUME NEW j \in Ids, NEW u \in Threads, Opens(u, j)'
        PROVE  /\ sock'[j].type = "RESERVE" /\ j \notin known'
               /\ \A x \in Threads : Opens(x, j)' => x = u
               /\ \A k \in Requests' : pipe'[k].id # j
    <3>1. /\ sock[j].type = "RESERVE" /\ j \notin known
          /\ \A x \in Threads : Opens(x, j) => x = u
          /\ \A k \in Requests : pipe[k].id # j
      BY <1>6, <2>1 DEF Inv, Opening
    <3> QED
      BY <1>1, <1>2, <1>3, <1>4, <1>6, <3>1
  <2>2. ASSUME NEW j \in Ids, NEW k \in Requests', Asks(k, j)'
        PROVE  /\ sock'[j].type = "RESERVE"
               /\ pipe'[k].cmd = "O" => j \notin known'
               /\ \A l \in Requests' : pipe'[l].id = j => l >= k
    <3>1. k \in Requests /\ Asks(k, j) /\ pipe'[k] = pipe[k] /\ k < n /\ k \in Nat
      BY <1>3, <1>7, <2>2
    <3>2. /\ sock[j].type = "RESERVE" /\ (pipe[k].cmd = "O" => j \notin known)
          /\ \A l \in Requests : pipe[l].id = j => l >= k
      BY <3>1 DEF Inv, Opening
    <3>3. \A l \in Requests' : pipe'[l].id = j => l >= k
      <4>1. \A l \in Requests : pipe'[l].id = j => l >= k
        BY <1>3, <3>2
      <4>2. n >= k
        BY <1>3, <3>1
      <4> QED
        BY <1>3, <4>1, <4>2
    <3> QED
      BY <1>4, <3>1, <3>2, <3>3
  <2>3. ASSUME NEW j \in Ids, sock'[j].type = "RESERVE", j \in known'
        PROVE  \E k \in Requests' : Asks(k, j)'
    <3>1. PICK k \in Requests : Asks(k, j)
      BY <1>4, <2>3 DEF Inv, Opening
    <3> QED
      BY <1>3, <1>7, <3>1
  <2> QED
    BY <2>1, <2>2, <2>3 DEF Opening
<1>9. Unknown'
  <2>1. ASSUME NEW j \in Ids, j \notin known'
        PROVE  /\ \A u \in Threads : op'[u].id = j => op'[u].cmd \in Openers
               /\ \A k \in Requests' : pipe'[k].id = j => pipe'[k].cmd \in Openers
               /\ j \notin asked'
    <3>1. /\ \A u \in Threads : op[u].id = j => op[u].cmd \in Openers
          /\ \A k \in Requests : pipe[k].id = j => pipe[k].cmd \in Openers
          /\ j \notin asked /\ j # i
      BY <1>1, <1>4, <2>1 DEF Inv, Unknown
    <3>2. \A k \in Requests' : pipe'[k].id = j => pipe'[k].cmd \in Openers
      BY <1>2, <1>3, <3>1
    <3> QED
      BY <1>1, <1>4, <3>1, <3>2
  <2> QED
    BY <2>1 DEF Unknown
<1>10. Lives' /\ Streams'
  BY <1>4 DEF Inv, Lives, Streams
<1>11. Protocols'
  <2>1. \A k \in Requests' : pipe'[k].cmd = "A" => sock'[pipe'[k].id].protocol # "TCP"
    BY <1>2, <1>3, <1>4 DEF Inv, Protocols
  <2> QED
    BY <1>4, <2>1 DEF Inv, Protocols
<1>12. Locks'
  BY <1>4, <1>6 DEF Inv, Locks
<1>13. \A j \in Ids : Got(j)' = Got(j)
  BY <1>4 DEF Got
<1>14. Fresh'
  <2>1. ASSUME NEW u \in Threads, op'[u].m # 0
        PROVE  /\ op'[u].m <= sends'
               /\ \A x \in Threads : op'[x].m = op'[u].m => x = u
               /\ \A k \in Requests' : pipe'[k].m # op'[u].m
               /\ \A j \in Ids : op'[u].m \notin MsgsOf(Got(j)') /\ op'[u].m \notin due'[j]
    <3>1. op' = op /\ sends' = sends /\ due' = due
      BY <1>4
    <3>2. /\ op[u].m <= sends /\ \A x \in Threads : op[x].m = op[u].m => x = u
          /\ \A k \in Requests : pipe[k].m # op[u].m
          /\ \A j \in Ids : op[u].m \notin MsgsOf(Got(j)) /\ op[u].m \notin due[j]
      BY <2>1, <3>1 DEF Inv, Fresh
    <3>3. \A x \in Threads : op'[x].m = op'[u].m => x = u
      BY <3>1, <3>2
    <3>4. \A k \in Requests' : pipe'[k].m # op'[u].m
      BY <1>2, <1>3, <2>1, <3>1, <3>2
    <3> QED
      BY <1>13, <3>1, <3>2, <3>3, <3>4
  <2>2. ASSUME NEW k \in Requests', pipe'[k].m # 0
        PROVE  /\ pipe'[k].m <= sends'
               /\ \A l \in Requests' : pipe'[l].m = pipe'[k].m => l = k
               /\ \A j \in Ids : pipe'[k].m \notin MsgsOf(Got(j)')
    <3>1. k \in Requests /\ pipe'[k] = pipe[k]
      BY <1>2, <1>3, <2>2
    <3>2. /\ pipe[k].m <= sends /\ \A l \in Requests : pipe[l].m = pipe[k].m => l = k
          /\ \A j \in Ids : pipe[k].m \notin MsgsOf(Got(j))
      BY <2>2, <3>1 DEF Inv, Fresh
    <3> QED
      BY <1>2, <1>3, <1>4, <1>13, <2>2, <3>1, <3>2
  <2>3. \A j \in Ids : \A k \in MsgsOf(Got(j)') \cup due'[j] : k <= sends'
    BY <1>4, <1>13 DEF Inv, Fresh
  <2> QED
    BY <2>1, <2>2, <2>3 DEF Fresh
<1>15. Dues'
  <2>1. \A j \in Ids : 0 \notin due[j]
    BY DEF Inv, TypeOK
  <2>2. ASSUME NEW j \in Ids, fate'[j] = "open", NEW k \in due'[j]
        PROVE  Final(Got(j)', k) \/ \E l \in Requests' : pipe'[l].id = j /\ pipe'[l].m = k
    BY <1>3, <1>4, <1>13, <2>2 DEF Inv, Dues
  <2>3. \A j \in Ids : fate'[j] = "flushed" => j \in asked' /\ \A k \in due'[j] : Final(wire'[j], k)
    BY <1>1, <1>4 DEF Inv, Dues
  <2>4. ASSUME NEW k \in Requests', pipe'[k].cmd \in Closers
        PROVE  /\ pipe'[k].id \in asked'
               /\ \A j \in Requests' : j > k /\ pipe'[j].id = pipe'[k].id
                                         => pipe'[j].m \notin due'[pipe'[k].id]
    <3>1. CASE k \in Requests
      <4>1. /\ pipe[k].id \in asked /\ pipe'[k] = pipe[k] /\ pipe[k].id \in Ids
            /\ \A j \in Requests : j > k /\ pipe[j].id = pipe[k].id => pipe[j].m \notin due[pipe[k].id]
        BY <1>3, <2>4, <3>1 DEF Inv, Dues, Request
      <4> QED
        BY <1>1, <1>2, <1>3, <1>4, <2>1, <4>1
    <3>2. CASE k = n
      <4>1. \A j \in Requests' : ~(j > n)
        BY <1>3
      <4>2. pipe'[n].id = i
        BY <1>2, <1>3
      <4> QED
        BY <1>1, <3>2, <4>1, <4>2
    <3> QED
      BY <1>3, <3>1, <3>2
  <2>5. ASSUME NEW j \in Ids, sock'[j].type = "HALFCLOSE"
        PROVE  j \in asked' /\ \A k \in Requests' : pipe'[k].id = j => pipe'[k].m \notin due'[j]
    <3>1. j \in asked /\ \A k \in Requests : pipe[k].id = j => pipe[k].m \notin due[j]
      BY <1>4, <2>5 DEF Inv, Dues
    <3> QED
      BY <1>1, <1>2, <1>3, <1>4, <2>1, <3>1
  <2> QED
    BY <2>2, <2>3, <2>4, <2>5 DEF Dues
<1> QED
  BY <1>5, <1>8, <1>9, <1>10, <1>11, <1>12, <1>14, <1>15 DEF Inv

\* A thread that did nothing begins a call.
LEMMA Begins ==
  ASSUME Inv, NEW t \in Threads, Idle(t), NEW o \in Call, op' = [op EXCEPT ![t] = o]
  PROVE  /\ op' \in [Threads -> Call]
         /\ \A u \in Threads : op'[u] = IF u = t THEN o ELSE op[u]
         /\ op[t].id = 0 /\ op[t].m = 0 /\ op[t].cmd = "none" /\ op[t].step = "none"
  BY DEF Inv, TypeOK, Idle, NoOp

LEMMA OpenKeeps ==
  ASSUME Inv, NEW t \in Threads, NEW i \in Ids, NEW cmd \in Openers, Open(t, i, cmd)
  PROVE  Inv'
<1> DEFINE s == sock[i]  d == [s EXCEPT !.type = "RESERVE"]
           o == [step |-> "pipe", id |-> i, m |-> 0, cmd |-> cmd]
<1>1. s.type = "INVALID" /\ fate[i] = "open"
  <2>1. i \in 1..i
    BY SocketAssumption DEF Ids
  <2> QED
    BY <2>1 DEF Open
<1>2. o \in Call /\ o.step = "pipe" /\ o.id = i /\ o.m = 0 /\ o.cmd = cmd /\ cmd \notin Senders
  BY DEF Call, Openers, Senders
<1>3. op' = [op EXCEPT ![t] = o]
  BY DEF Open
<1> HIDE DEF o
<1>4. /\ op' \in [Threads -> Call]
      /\ \A u \in Threads : op'[u] = IF u = t THEN o ELSE op[u]
      /\ op[t].id = 0 /\ op[t].m = 0 /\ op[t].cmd = "none" /\ op[t].step = "none"
  BY <1>2, <1>3, Begins DEF Open
<1>5. UNCHANGED <<pipe, ev, closing, wire, known, sends, due, asked, fate>>
  BY DEF Open, loopVars, history
<1>6. s \in Slot /\ sock' = [sock EXCEPT ![i] = d]
  BY DEF Open, Inv, TypeOK
<1>7. /\ d \in Slot /\ d.type = "RESERVE" /\ d.protocol = s.protocol /\ d.lock = s.lock
      /\ d.high = s.high /\ d.low = s.low /\ d.dw = s.dw
  <2> HIDE DEF s
  <2> QED
    BY <1>6 DEF Slot, Types
<1> HIDE DEF d
<1>8. /\ \A j \in Ids : sock'[j] = IF j = i THEN d ELSE sock[j]
      /\ \A j \in Ids : /\ sock'[j].protocol = sock[j].protocol /\ sock'[j].lock = sock[j].lock
                        /\ sock'[j].dw = sock[j].dw /\ sock'[j].high = sock[j].high
                        /\ sock'[j].low = sock[j].low
                        /\ j # i => sock'[j].type = sock[j].type
  BY <1>6, <1>7 DEF Inv, TypeOK
<1>9. Requests' = Requests /\ \A k, j : Asks(k, j)' = Asks(k, j)
  BY <1>5 DEF Requests, Asks
\* Nobody has named it yet.
<1>10. /\ i \notin known /\ ~s.lock /\ s.protocol = "UNKNOWN"
       /\ \A u \in Threads : op[u].id # i
       /\ \A k \in Requests : pipe[k].id # i
  <2>1. i \notin known /\ ~s.lock /\ s.protocol = "UNKNOWN"
    BY <1>1 DEF Inv, Lives
  <2>2. ASSUME NEW u \in Threads, op[u].id = i PROVE FALSE
    <3>1. Opens(u, i)
      BY <2>1, <2>2 DEF Inv, Unknown, Opens
    <3> QED
      BY <1>1, <3>1 DEF Inv, Opening
  <2>3. ASSUME NEW k \in Requests, pipe[k].id = i PROVE FALSE
    <3>1. Asks(k, i)
      BY <2>1, <2>3 DEF Inv, Unknown, Asks
    <3> QED
      BY <1>1, <3>1 DEF Inv, Opening
  <2> QED
    BY <2>1, <2>2, <2>3
<1>11. \A k \in Requests : pipe[k] \in Request
  BY ElementOfSeq DEF Inv, TypeOK, Requests
<1>12. \A u \in Threads : op[u] \in Call
  BY DEF Inv, TypeOK
<1>13. TypeOK'
  BY <1>4, <1>5, <1>6, <1>7 DEF Inv, TypeOK
<1>14. \A u \in Threads : \A j \in Ids : Opens(u, j)' <=> IF u = t THEN j = i ELSE Opens(u, j)
  BY <1>2, <1>4 DEF Opens
<1>15. \A u \in Threads : ~Opens(u, i)
  BY <1>10 DEF Opens
<1>16. Opening'
  <2>1. ASSUME NEW j \in Ids, NEW u \in Threads, Opens(u, j)'
        PROVE  /\ sock'[j].type = "RESERVE" /\ j \notin known'
               /\ \A x \in Threads : Opens(x, j)' => x = u
               /\ \A k \in Requests' : pipe'[k].id # j
    <3>1. CASE u = t
      <4>1. j = i
        BY <1>14, <2>1, <3>1
      <4> QED
        BY <1>5, <1>7, <1>8, <1>9, <1>10, <1>14, <1>15, <3>1, <4>1
    <3>2. CASE u # t
      <4>1. Opens(u, j) /\ j # i
        BY <1>14, <1>15, <2>1, <3>2
      <4>2. /\ sock[j].type = "RESERVE" /\ j \notin known
            /\ \A x \in Threads : Opens(x, j) => x = u
            /\ \A k \in Requests : pipe[k].id # j
        BY <4>1 DEF Inv, Opening
      <4> QED
        BY <1>5, <1>8, <1>9, <1>14, <4>1, <4>2
    <3> QED
      BY <3>1, <3>2
  <2>2. ASSUME NEW j \in Ids, NEW k \in Requests', Asks(k, j)'
        PROVE  /\ sock'[j].type = "RESERVE"
               /\ pipe'[k].cmd = "O" => j \notin known'
               /\ \A l \in Requests' : pipe'[l].id = j => l >= k
    <3>1. Asks(k, j) /\ j # i
      BY <1>9, <1>10, <2>2 DEF Asks
    <3> QED
      BY <1>5, <1>8, <1>9, <3>1 DEF Inv, Opening
  <2>3. ASSUME NEW j \in Ids, sock'[j].type = "RESERVE", j \in known'
        PROVE  \E k \in Requests' : Asks(k, j)'
    <3>1. j # i
      BY <1>5, <1>10, <2>3
    <3> QED
      BY <1>5, <1>8, <1>9, <2>3, <3>1 DEF Inv, Opening
  <2> QED
    BY <2>1, <2>2, <2>3 DEF Opening
<1>17. Unknown'
  BY <1>2, <1>4, <1>5, <1>9 DEF Inv, Unknown
<1>18. Lives'
  <2>1. i \notin closing
    BY <1>1 DEF Inv, Lives
  <2> QED
    BY <1>1, <1>5, <1>7, <1>8, <1>10, <2>1 DEF Inv, Lives
<1>19. Protocols'
  <2>1. \A u \in Threads : op[u].cmd \in Senders => op[u].id \in Ids
    BY <1>12 DEF Call, NoOp, Senders
  <2>2. \A k \in Requests : pipe[k].id \in Ids
    BY <1>11 DEF Request
  <2>3. \A j \in Ids : sock'[j].protocol # "TCP" => sock'[j].dw = <<>>
    BY <1>8 DEF Inv, Protocols
  <2>4. \A u \in Threads :
          /\ op'[u].cmd \in {"D", "P"} => sock'[op'[u].id].protocol = "TCP"
          /\ op'[u].cmd = "A" => sock'[op'[u].id].protocol # "TCP"
    BY <1>2, <1>4, <1>8, <2>1 DEF Inv, Protocols, Senders
  <2>5. \A k \in Requests' : pipe'[k].cmd = "A" => sock'[pipe'[k].id].protocol # "TCP"
    BY <1>5, <1>8, <1>9, <2>2 DEF Inv, Protocols
  <2> QED
    BY <2>3, <2>4, <2>5 DEF Protocols
<1>20. Locks'
  <2>1. \A u \in Threads : op[u].step \in {"try", "lists", "rest", "write"} => op[u].id \in Ids
    BY <1>12 DEF Call, NoOp
  <2>2. \A u \in Threads : op'[u].step \in {"try", "lists", "rest", "write"} =>
                             op'[u] = op[u] /\ op[u].id \in Ids /\ op[u].id # i
    BY <1>2, <1>4, <1>10, <2>1
  <2>3. ASSUME NEW u \in Threads, Holds(u)'
        PROVE  /\ sock'[op'[u].id].lock
               /\ \A x \in Threads : Holds(x)' /\ op'[x].id = op'[u].id => x = u
    BY <1>8, <2>2, <2>3 DEF Inv, Locks, Holds
  <2> QED
    BY <1>8, <2>2, <2>3 DEF Inv, Locks
<1>21. \A j \in Ids : Got(j)' = Got(j)
  BY <1>5, <1>8 DEF Got, All
<1>22. Fresh'
  <2>1. \A u \in Threads : op'[u].m = op[u].m
    BY <1>2, <1>4
  <2> QED
    BY <1>5, <1>9, <1>21, <2>1 DEF Inv, Fresh
<1>23. Streams'
  <2>1. \A j \in Ids : Sound(wire[j], sock[j]) => Sound(wire[j], sock'[j])
    BY <1>8 DEF Sound, All
  <2> QED
    BY <1>1, <1>5, <1>8, <2>1 DEF Inv, Streams
<1>24. Dues'
  <2>1. \A j \in Ids : sock'[j].type = "HALFCLOSE" => sock[j].type = "HALFCLOSE"
    BY <1>7, <1>8
  <2> QED
    BY <1>5, <1>9, <1>21, <2>1 DEF Inv, Dues
<1> QED
  BY <1>13, <1>16, <1>17, <1>18, <1>19, <1>20, <1>22, <1>23, <1>24 DEF Inv

LEMMA SendCallKeeps ==
  ASSUME Inv, NEW t \in Threads, NEW i \in Ids, NEW cmd \in Senders, Send(t, i, cmd)
  PROVE  Inv'
<1> DEFINE m == sends + 1
           step == IF cmd = "P" THEN "inc" ELSE "look"
           o == [step |-> step, id |-> i, m |-> m, cmd |-> cmd]
<1>1. sends \in Nat /\ m \in Nat \ {0} /\ sends' = m
  BY DEF Send, Inv, TypeOK
<1>2. /\ o \in Call /\ o.step \in {"inc", "look"} /\ o.id = i /\ o.m = m /\ o.cmd = cmd
      /\ cmd \notin Openers
  BY <1>1 DEF Call, Senders, Openers
<1>3. op' = [op EXCEPT ![t] = o]
  BY <1>1 DEF Send
<1>4. i \in known /\ (cmd = "A" <=> sock[i].protocol # "TCP")
  BY DEF Send
<1> HIDE DEF o
<1>5. /\ op' \in [Threads -> Call]
      /\ \A u \in Threads : op'[u] = IF u = t THEN o ELSE op[u]
      /\ op[t].id = 0 /\ op[t].m = 0 /\ op[t].cmd = "none" /\ op[t].step = "none"
  BY <1>2, <1>3, Begins DEF Send
<1>6. UNCHANGED <<sock, pipe, ev, closing, wire, known, due, asked, fate>>
  BY DEF Send, loopVars
<1> HIDE DEF m
<1>7. TypeOK'
  BY <1>1, <1>5, <1>6 DEF Inv, TypeOK
<1>8. Requests' = Requests /\ \A k, j : Asks(k, j)' = Asks(k, j)
  BY <1>6 DEF Requests, Asks
<1>9. \A u \in Threads : \A j \in Ids : Opens(u, j)' => Opens(u, j)
  BY <1>2, <1>5 DEF Opens
<1>10. Opening'
  BY <1>6, <1>8, <1>9 DEF Inv, Opening
<1>11. Unknown'
  BY <1>2, <1>4, <1>5, <1>6, <1>8 DEF Inv, Unknown
<1>12. Lives' /\ Streams'
  BY <1>6 DEF Inv, Lives, Streams
<1>13. Protocols'
  <2>1. \A u \in Threads :
          /\ op'[u].cmd \in {"D", "P"} => sock'[op'[u].id].protocol = "TCP"
          /\ op'[u].cmd = "A" => sock'[op'[u].id].protocol # "TCP"
    BY <1>2, <1>4, <1>5, <1>6 DEF Inv, Protocols
  <2> QED
    BY <1>6, <1>8, <2>1 DEF Inv, Protocols
<1>14. Locks'
  <2>1. \A u \in Threads : op'[u].step \in {"try", "lists", "rest", "write"} => op'[u] = op[u]
    BY <1>2, <1>5
  <2>2. ASSUME NEW u \in Threads, Holds(u)'
        PROVE  /\ sock'[op'[u].id].lock
               /\ \A x \in Threads : Holds(x)' /\ op'[x].id = op'[u].id => x = u
    BY <1>6, <2>1, <2>2 DEF Inv, Locks, Holds
  <2> QED
    BY <1>6, <2>1, <2>2 DEF Inv, Locks
<1>15. \A j \in Ids : Got(j)' = Got(j)
  BY <1>6 DEF Got
<1>16. Fresh'
  <2>1. /\ \A k \in Requests : pipe[k].m \in Nat
        /\ \A u \in Threads : op[u].m \in Nat
        /\ \A j \in Ids : \A k \in MsgsOf(Got(j)) : k \in Nat
        /\ \A j \in Ids : \A k \in due[j] : k \in Nat
    <3>1. \A k \in Requests : pipe[k] \in Request
      BY ElementOfSeq DEF Inv, TypeOK, Requests
    <3>2. \A u \in Threads : op[u] \in Call
      BY DEF Inv, TypeOK
    <3>3. ASSUME NEW j \in Ids PROVE \A k \in MsgsOf(Got(j)) : k \in Nat
      <4> DEFINE g == Got(j)  w == wire[j]  s == sock[j]
      <4>1. w \in Seq(Byte) /\ Lists(s) /\ g = All(w, s)
        BY DEF Inv, TypeOK, Lists, Slot, Got
      <4> HIDE DEF g, w, s
      <4>2. g \in Seq(Byte)
        BY <4>1, AllIn
      <4>3. \A k \in 1..Len(g) : g[k] \in Byte
        BY <4>2, ElementOfSeq
      <4>4. \A k \in MsgsOf(g) : k \in Nat
        BY <4>3 DEF MsgsOf, Byte
      <4> QED
        BY <4>4 DEF g
    <3> QED
      <4>1. \A k \in Requests : pipe[k].m \in Nat
        BY <3>1 DEF Request
      <4>2. \A u \in Threads : op[u].m \in Nat
        BY <3>2 DEF Call, NoOp
      <4>3. \A j \in Ids : \A k \in due[j] : k \in Nat
        BY DEF Inv, TypeOK
      <4> QED
        BY <3>3, <4>1, <4>2, <4>3
  <2>2. /\ \A k \in Requests : pipe[k].m # 0 => pipe[k].m <= sends
        /\ \A u \in Threads : op[u].m # 0 => op[u].m <= sends
        /\ \A j \in Ids : \A k \in MsgsOf(Got(j)) \cup due[j] : k <= sends
    BY DEF Inv, Fresh
  <2>3. /\ \A k \in Requests : pipe[k].m # m
        /\ \A u \in Threads : op[u].m # m
        /\ \A j \in Ids : m \notin MsgsOf(Got(j)) /\ m \notin due[j]
    BY <1>1, <2>1, <2>2 DEF m
  <2>4. \A k \in Nat : k <= sends => k <= sends'
    BY <1>1 DEF m
  <2>5. ASSUME NEW u \in Threads, op'[u].m # 0
        PROVE  /\ op'[u].m <= sends'
               /\ \A x \in Threads : op'[x].m = op'[u].m => x = u
               /\ \A k \in Requests' : pipe'[k].m # op'[u].m
               /\ \A j \in Ids : op'[u].m \notin MsgsOf(Got(j)') /\ op'[u].m \notin due'[j]
    <3>1. CASE u = t
      <4>1. op'[u].m = m
        BY <1>2, <1>5, <3>1
      <4>2. m <= sends'
        BY <1>1
      <4>3. \A x \in Threads : op'[x].m = m => x = t
        BY <1>5, <2>3
      <4> QED
        BY <1>6, <1>8, <1>15, <2>3, <3>1, <4>1, <4>2, <4>3
    <3>2. CASE u # t
      <4>1. op'[u] = op[u] /\ op[u].m # 0 /\ op[u].m # m
        BY <1>5, <2>3, <2>5, <3>2
      <4>2. /\ op[u].m <= sends /\ \A x \in Threads : op[x].m = op[u].m => x = u
            /\ \A k \in Requests : pipe[k].m # op[u].m
            /\ \A j \in Ids : op[u].m \notin MsgsOf(Got(j)) /\ op[u].m \notin due[j]
        BY <4>1 DEF Inv, Fresh
      <4>3. \A x \in Threads : op'[x].m = op[u].m => x = u
        BY <1>2, <1>5, <4>1, <4>2
      <4> QED
        BY <1>6, <1>8, <1>15, <2>1, <2>4, <4>1, <4>2, <4>3
    <3> QED
      BY <3>1, <3>2
  <2>6. ASSUME NEW k \in Requests', pipe'[k].m # 0
        PROVE  /\ pipe'[k].m <= sends'
               /\ \A l \in Requests' : pipe'[l].m = pipe'[k].m => l = k
               /\ \A j \in Ids : pipe'[k].m \notin MsgsOf(Got(j)')
    BY <1>6, <1>8, <1>15, <2>1, <2>4, <2>6 DEF Inv, Fresh
  <2>7. \A j \in Ids : \A k \in MsgsOf(Got(j)') \cup due'[j] : k <= sends'
    BY <1>6, <1>15, <2>1, <2>2, <2>4
  <2> QED
    BY <2>5, <2>6, <2>7 DEF Fresh
<1>17. Dues'
  BY <1>6, <1>8, <1>15 DEF Inv, Dues
<1> QED
  BY <1>7, <1>10, <1>11, <1>12, <1>13, <1>14, <1>16, <1>17 DEF Inv

-----------------------------------------------------------------------------
LEMMA InitInv == Init => Inv
<1> SUFFICES ASSUME Init PROVE Inv
  OBVIOUS
<1>1. /\ \A i \in Ids : /\ sock[i].type = "INVALID" /\ sock[i].protocol = "UNKNOWN"
                        /\ ~sock[i].lock /\ sock[i].dw = <<>>
                        /\ sock[i].high = <<>> /\ sock[i].low = <<>>
                        /\ wire[i] = <<>> /\ due[i] = {} /\ fate[i] = "open"
      /\ \A t \in Threads : op[t] = NoOp
  BY DEF Init
<1>2. <<>> \in Seq(Byte) /\ <<>> \in Seq(Request) /\ Len(<<>>) = 0 /\ <<>> \o <<>> = <<>>
  BY ConcatEmptySeq
<1>3. Requests = {}
  BY <1>2 DEF Init, Requests
<1>4. NoOp.id \notin Ids /\ NoOp.m = 0 /\ NoOp.cmd = "none" /\ NoOp.step = "none" /\ NoOp \in Call
  BY SocketAssumption DEF NoOp, Ids, Call
<1>5. TypeOK
  <2>1. sock \in [Ids -> Slot]
    BY <1>2 DEF Init, Slot, Types
  <2> QED
    BY <1>2, <1>4, <2>1 DEF Init, TypeOK
<1>6. Opening /\ Unknown
  BY <1>1, <1>3, <1>4 DEF Opening, Unknown, Opens, Asks, Openers, Init
<1>7. Lives
  BY <1>1 DEF Lives, Init
<1>8. Protocols /\ Locks
  BY <1>1, <1>3, <1>4 DEF Protocols, Locks, Holds
<1>9. \A i \in Ids : Got(i) = <<>>
  BY <1>1, <1>2 DEF Got, All
<1>10. MsgsOf(<<>>) = {} /\ Chain(<<>>) /\ Once(<<>>)
  BY <1>2 DEF MsgsOf, Chain, Starts, Ends, Runs, Once
<1>11. Fresh
  BY <1>1, <1>3, <1>4, <1>9, <1>10 DEF Fresh
<1>12. Streams
  <2>1. ASSUME NEW i \in Ids PROVE Sound(wire[i], sock[i]) /\ Whole(wire[i])
    <3>1. Sound(wire[i], sock[i])
      <4>1. sock[i].dw = <<>> /\ sock[i].high = <<>> /\ sock[i].low = <<>> /\ wire[i] = <<>>
        BY <1>1, <1>2
      <4>2. <<>> \o <<>> = <<>>
        OBVIOUS
      <4> QED
        BY <1>10, <4>1, <4>2 DEF Sound, All
    <3>2. wire[i] \in Seq(Byte) /\ sock[i] \in Slot
      BY <1>5 DEF TypeOK
    <3> QED
      BY <3>1, <3>2, SoundWhole
  <2> QED
    BY <2>1 DEF Streams
<1>13. Dues
  BY <1>1, <1>3 DEF Dues
<1> QED
  BY <1>5, <1>6, <1>7, <1>8, <1>11, <1>12, <1>13 DEF Inv

LEMMA StepInv == Inv /\ [Next]_vars => Inv'
<1> SUFFICES ASSUME Inv, [Next]_vars PROVE Inv'
  OBVIOUS
<1>1. CASE UNCHANGED vars
  BY <1>1, StillKeeps DEF vars, loopVars, history, Inv, TypeOK
<1>2. ASSUME NEW t \in Threads, NEW i \in Ids, NEW cmd \in {"O", "U"}, Open(t, i, cmd) PROVE Inv'
  BY <1>2, OpenKeeps DEF Openers
<1>3. ASSUME NEW t \in Threads, NEW i \in Ids, NEW cmd \in {"D", "P", "A"}, Send(t, i, cmd)
      PROVE Inv'
  BY <1>3, SendCallKeeps DEF Senders
<1>4. ASSUME NEW t \in Threads, NEW i \in Ids, NEW cmd \in {"K", "S"}, Close(t, i, cmd) PROVE Inv'
  BY <1>4, CloseKeeps DEF Closers
<1>5. ASSUME NEW t \in Threads,
             \/ Look(t) \/ TryLock(t) \/ CheckLists(t) \/ CheckRest(t)
             \/ IncSendingRef(t) \/ SendRequest(t)
      PROVE  Inv'
  BY <1>5, LookKeeps, TryLockKeeps, CheckListsKeeps, CheckRestKeeps, IncSendingRefKeeps,
     SendRequestKeeps
<1>6. ASSUME NEW t \in Threads, NEW n \in 0..Size, Write(t, n) PROVE Inv'
  BY <1>6, WriteActionKeeps
<1>7. CASE OpenSocket \/ SendSocket \/ CloseSocket \/ CloseFd \/ Wait
  BY <1>7, OpenSocketKeeps, SendSocketKeeps, CloseSocketKeeps, CloseFdKeeps, WaitKeeps
<1>8. ASSUME NEW e \in ev, ReportConnect(e) \/ ForwardMessage(e) \/ WriteEvent(e) \/ ErrorEvent(e)
      PROVE  Inv'
  BY <1>8, ReportConnectKeeps, ForwardMessageKeeps, WriteEventKeeps, ErrorEventKeeps
<1> QED
  BY <1>1, <1>2, <1>3, <1>4, <1>5, <1>6, <1>7, <1>8 DEF Next

\* What every step of the callers and of the socket thread keeps: how far an
\* open has come, who holds the lock of a socket, where each message is, and
\* that the bytes of a socket, written or not, are whole messages.
THEOREM Inductive == Spec => []Inv
BY InitInv, StepInv, PTL DEF Spec

\* What socket_server.c writes to a socket that did not fail are whole messages
\* one after the other, each once, whichever of them went by the lists and
\* which was written directly by its sender (send_socket, send_list_tcp,
\* raise_uncomplete, socket_server_send).
THEOREM MessagesWhole == Spec => []WholeMessages
<1>1. Inv => WholeMessages
  BY DEF Inv, Streams, Whole, WholeMessages
<1> QED
  BY <1>1, Inductive, PTL

\* A socket that close_socket closes, at once or when its lists have become
\* empty, has written every message whose sending was over when the close was
\* asked for.
THEOREM FlushedBeforeClose == Spec => []FlushBeforeClose
<1>1. Inv => FlushBeforeClose
  BY DEF Inv, Dues, Final, FlushBeforeClose
<1> QED
  BY <1>1, Inductive, PTL
=============================================================================
