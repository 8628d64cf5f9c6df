-------------------------------- MODULE Kcp ---------------------------------
(***************************************************************************)
(* KCP (ikcp.c), the protocol between an agent of the gate and a phone:    *)
(* two ends that number, send again and acknowledge segments over UDP,     *)
(* where datagrams are lost, doubled and overtaken.                        *)
(*                                                                         *)
(* An end is a record with the fields of struct IKCPCB that decide what    *)
(* happens.  Time is left out: a timer that may have run out is a choice   *)
(* of the flush.  Congestion control is off (nocwnd, agent.lua), and which *)
(* segments fastack has sent again is part of the same choice.             *)
(***************************************************************************)
EXTENDS Integers, Sequences, FiniteSets

CONSTANTS
  Sender,       \* the end whose program sends here
  Receiver,     \* and the end whose program receives
  Word,         \* sequence numbers are counted modulo Word (2^32)
  First,        \* the number of the first segment
  Wnd,          \* snd_wnd and rcv_wnd
  MaxFrags,     \* bounds: fragments of a message,
  MaxMessages,  \* messages,
  MaxSegments,  \* fragments of all of them,
  MaxNet,       \* datagrams on their way,
  MaxFaults     \* datagrams lost or doubled

\* The numbers of one connection, which lasts for one match, do not come half
\* around, wherever they start: with less, a late one could be taken for one
\* that is to come.
ASSUME KcpAssumption ==
  /\ Sender # Receiver
  /\ Wnd \in Nat \ {0} /\ Word \in Nat /\ First \in 0..Word - 1
  /\ MaxFrags \in 1..Wnd /\ MaxMessages \in Nat /\ MaxSegments \in Nat \ {0}
  /\ 2 * (MaxSegments + Wnd) <= Word

VARIABLES
  kcpcb,   \* [Ends -> the fields of struct IKCPCB]
  net,     \* [Ends -> the datagrams on their way to it]
  faults,  \* counter for the bound
  sent,    \* history: the messages sent
  got      \* and received

kcpVars == <<kcpcb, net, faults, sent, got>>

Ends     == {Sender, Receiver}
Other(e) == IF e = Sender THEN Receiver ELSE Sender

\* The fragments of the n-th message, when it has s of them.
Fragments(n, s) == [i \in 1..s |-> [n |-> n, i |-> i]]
Data     == [n : 1..MaxMessages, i : 1..MaxFrags]
Messages == {Fragments(n, s) : n \in 1..MaxMessages, s \in 1..MaxFrags}

\* _itimediff: how far x is ahead of y, as a signed word.
Diff(x, y) == LET d == (x - y) % Word IN IF 2 * d >= Word THEN d - Word ELSE d

\* How many segments have had a number when x is the next one.
At(x) == (x - First) % Word

\* The numbers in a list of segments, and the list without those in sns.
Sns(buf) == {buf[i].sn : i \in 1..Len(buf)}

Without(buf, sns) ==
  LET rest[i \in 0..Len(buf)] ==
        IF i = 0 THEN <<>>
        ELSE IF buf[i].sn \in sns THEN rest[i - 1] ELSE Append(rest[i - 1], buf[i])
  IN  rest[Len(buf)]

\* ikcp_create and ikcp_wndsize; First is where an idle connection has got to.
Create ==
  [sndQueue |-> <<>>, sndBuf |-> <<>>, sndUna |-> First, sndNxt |-> First,
   rmtWnd |-> Wnd, probing |-> FALSE, tell |-> FALSE,
   acks |-> {}, rcvNxt |-> First, rcvBuf |-> <<>>, rcvQueue |-> <<>>]

KcpInit ==
  /\ kcpcb = [e \in Ends |-> Create]
  /\ net = [e \in Ends |-> {}]
  /\ faults = 0
  /\ sent = <<>>
  /\ got = <<>>

-----------------------------------------------------------------------------
\* ikcp_send: the fragments count down to 0.
Queued(k, m) ==
  [k EXCEPT !.sndQueue = @ \o [i \in 1..Len(m) |-> [frg |-> Len(m) - i, data |-> m[i]]]]

\* ikcp_peeksize: there is a whole message.
Whole(k) ==
  k.rcvQueue # <<>> /\ (Head(k.rcvQueue).frg = 0 \/ Len(k.rcvQueue) > Head(k.rcvQueue).frg)

\* The fragments up to the one numbered 0.
HeadLength(k) ==
  CHOOSE i \in 1..Len(k.rcvQueue) :
    k.rcvQueue[i].frg = 0 /\ \A j \in 1..i - 1 : k.rcvQueue[j].frg # 0

\* The loop that ikcp_recv and ikcp_parse_data end with: what is next in
\* turn moves to the queue, as far as it has room.
MoveReady(k) ==
  LET ready(n) == /\ n <= Len(k.rcvBuf) /\ Len(k.rcvQueue) + n <= Wnd
                  /\ \A i \in 1..n : k.rcvBuf[i].sn = (k.rcvNxt + i - 1) % Word
      n == CHOOSE n \in 0..Wnd : ready(n) /\ (n = Wnd \/ ~ready(n + 1))
  IN  [k EXCEPT !.rcvQueue = @ \o [i \in 1..n |-> [frg |-> k.rcvBuf[i].frg, data |-> k.rcvBuf[i].data]],
                !.rcvBuf = SubSeq(@, n + 1, Len(@)),
                !.rcvNxt = (@ + n) % Word]

\* ikcp_recv: when the queue was full and is no more, the other end is told.
Received(k) ==
  LET k1 == MoveReady([k EXCEPT !.rcvQueue = SubSeq(@, HeadLength(k) + 1, Len(@))])
  IN  [k1 EXCEPT !.tell = @ \/ (Len(k.rcvQueue) >= Wnd /\ Len(k1.rcvQueue) < Wnd)]

\* ikcp_shrink_buf.
ShrinkBuf(k) ==
  [k EXCEPT !.sndUna = IF k.sndBuf = <<>> THEN k.sndNxt ELSE Head(k.sndBuf).sn]

\* Faulty form of ParseUna: una itself is taken to have come.
ParseUnaOver(k, una) == [k EXCEPT !.sndBuf = Without(@, {x \in Sns(@) : Diff(una, x) >= 0})]

\* ikcp_parse_una: everything before una has come.
ParseUna(k, una) == [k EXCEPT !.sndBuf = Without(@, {x \in Sns(@) : Diff(una, x) > 0})]

\* ikcp_parse_ack, for the numbers in acks: these segments have come.  A
\* number outside snd_una..snd_nxt - 1 is in nobody's snd_buf.
ParseAcks(k, acks) == [k EXCEPT !.sndBuf = Without(@, acks)]

\* ikcp_parse_data: a new segment takes its place in the order of numbers.
ParseData(k, s) ==
  IF Diff(s.sn, (k.rcvNxt + Wnd) % Word) >= 0 \/ Diff(s.sn, k.rcvNxt) < 0 THEN k
  ELSE LET before == Without(k.rcvBuf, {x \in Sns(k.rcvBuf) : Diff(s.sn, x) < 0})
           after  == Without(k.rcvBuf, {x \in Sns(k.rcvBuf) : Diff(s.sn, x) > 0})
       IN  MoveReady(IF s.sn \in Sns(k.rcvBuf) THEN k
                     ELSE [k EXCEPT !.rcvBuf = before \o <<s>> \o after])

\* ikcp_input, IKCP_CMD_PUSH: what came before is acknowledged again, what is
\* beyond the window is not.
InputPush(k, s) ==
  IF Diff(s.sn, (k.rcvNxt + Wnd) % Word) >= 0 THEN k
  ELSE LET k1 == [k EXCEPT !.acks = @ \cup {s.sn}]
       IN  IF Diff(s.sn, k.rcvNxt) >= 0 THEN ParseData(k1, s) ELSE k1

InputPushes(k, pushes) ==
  LET after[i \in 0..Len(pushes)] ==
        IF i = 0 THEN k ELSE InputPush(after[i - 1], pushes[i])
  IN  after[Len(pushes)]

\* Faulty form of Input: the question for the window is not answered.
InputNoTell(k, d) ==
  LET k1 == ShrinkBuf(ParseUna([k EXCEPT !.rmtWnd = d.wnd], d.una))
      k2 == ShrinkBuf(ParseAcks(k1, d.acks))
  IN  InputPushes(k2, d.pushes)

\* ikcp_input: the segments of a datagram, which one flush has filled, so
\* that all of them have the same wnd and una.
Input(k, d) ==
  LET k1 == ShrinkBuf(ParseUna([k EXCEPT !.rmtWnd = d.wnd], d.una))
      k2 == ShrinkBuf(ParseAcks(k1, d.acks))
      k3 == [k2 EXCEPT !.tell = @ \/ d.ask]
  IN  InputPushes(k3, d.pushes)

\* ikcp_wnd_unused.
WndUnused(k) == IF Len(k.rcvQueue) < Wnd THEN Wnd - Len(k.rcvQueue) ELSE 0

\* ikcp_flush, the probe: a remote window of 0 is asked after when the timer
\* that its first flush has set is due.
Asks(k, due) == k.rmtWnd = 0 /\ k.probing /\ due

\* ikcp_flush, from snd_queue to snd_buf, as far as both windows reach.
FillBuf(k) ==
  LET cwnd == IF Wnd < k.rmtWnd THEN Wnd ELSE k.rmtWnd
      room == Diff((k.sndUna + cwnd) % Word, k.sndNxt)
      n    == IF room < 0 THEN 0 ELSE IF room < Len(k.sndQueue) THEN room ELSE Len(k.sndQueue)
      new  == [i \in 1..n |-> [sn |-> (k.sndNxt + i - 1) % Word,
                               frg |-> k.sndQueue[i].frg, data |-> k.sndQueue[i].data]]
  IN  [k EXCEPT !.sndBuf = @ \o new, !.sndNxt = (@ + n) % Word,
                !.sndQueue = SubSeq(@, n + 1, Len(@))]

\* ikcp_flush, the datagram: all acknowledgements, the probe's commands, the
\* segments that are new and those of again, whose time has come.
Output(k0, k, again, due) ==
  [wnd |-> WndUnused(k0), una |-> k0.rcvNxt, acks |-> k0.acks,
   ask |-> Asks(k0, due), tell |-> k0.tell,
   pushes |-> Without(k.sndBuf, {x \in Sns(k.sndBuf) \ again : Diff(x, k0.sndNxt) < 0})]

Empty(d) == d.acks = {} /\ ~d.ask /\ ~d.tell /\ d.pushes = <<>>

-----------------------------------------------------------------------------
Send ==
  /\ Len(sent) < MaxMessages
  /\ \E s \in 1..MaxFrags :
       /\ At(kcpcb[Sender].sndNxt) + Len(kcpcb[Sender].sndQueue) + s <= MaxSegments
       /\ LET m == Fragments(Len(sent) + 1, s)
          IN  /\ kcpcb' = [kcpcb EXCEPT ![Sender] = Queued(@, m)]
              /\ sent' = Append(sent, m)
  /\ UNCHANGED <<net, faults, got>>

Recv ==
  LET k == kcpcb[Receiver] IN
  /\ Whole(k)
  /\ got' = Append(got, [i \in 1..HeadLength(k) |-> k.rcvQueue[i].data])
  /\ kcpcb' = [kcpcb EXCEPT ![Receiver] = Received(k)]
  /\ UNCHANGED <<net, faults, sent>>

\* ikcp_update when the next flush is due.
Flush(e, again, due) ==
  /\ Cardinality(net[e]) + Cardinality(net[Other(e)]) < MaxNet
  /\ \E k \in {FillBuf(kcpcb[e])} :
       \E d \in {Output(kcpcb[e], k, again, due)} :
         /\ net' = IF Empty(d) THEN net ELSE [net EXCEPT ![Other(e)] = @ \cup {d}]
         /\ kcpcb' = [kcpcb EXCEPT ![e] = [k EXCEPT !.acks = {}, !.tell = FALSE,
                                                 !.probing = (k.rmtWnd = 0)]]
  /\ UNCHANGED <<faults, sent, got>>

\* A datagram comes; it may come once more.
Deliver(e, d) ==
  /\ d \in net[e]
  /\ kcpcb' = [kcpcb EXCEPT ![e] = Input(@, d)]
  /\ \/ net' = [net EXCEPT ![e] = @ \ {d}] /\ UNCHANGED faults
     \/ faults < MaxFaults /\ faults' = faults + 1 /\ UNCHANGED net
  /\ UNCHANGED <<sent, got>>

Lose(e, d) ==
  /\ d \in net[e]
  /\ faults < MaxFaults
  /\ faults' = faults + 1
  /\ net' = [net EXCEPT ![e] = @ \ {d}]
  /\ UNCHANGED <<kcpcb, sent, got>>

Unacked(e) == Sns(kcpcb[e].sndBuf)

KcpNext ==
  \/ Send
  \/ Recv
  \/ \E e \in Ends :
       \/ \E again \in SUBSET Unacked(e), due \in BOOLEAN : Flush(e, again, due)
       \/ \E d \in net[e] : Deliver(e, d) \/ Lose(e, d)

KcpSpec == KcpInit /\ [][KcpNext]_kcpVars

\* The numbers that segments of a run have.
Numbers == {(First + i) % Word : i \in 0..MaxSegments - 1}
Holds(d, n) == \E i \in 1..Len(d.pushes) : d.pushes[i].sn = n

\* x is on its way no more: with finitely many faults, it has arrived.
Gone(e, x) == x \in net[e] /\ net' = [net EXCEPT ![e] = @ \ {x}]

\* The programs take messages and flush again and again, the timer of every
\* segment and of the probe runs out, and no datagram is on its way for ever.
KcpFairSpec ==
  /\ KcpSpec
  /\ WF_kcpVars(Recv)
  /\ \A e \in Ends : SF_kcpVars(\E again \in SUBSET Unacked(e), due \in BOOLEAN : Flush(e, again, due))
  /\ WF_net(\E x \in net[Sender] : x.tell /\ Gone(Sender, x))
  /\ \A n \in Numbers : WF_net(\E x \in net[Sender] : n \in x.acks /\ Gone(Sender, x))
  /\ WF_net(\E x \in net[Receiver] : x.ask /\ Gone(Receiver, x))
  /\ \A n \in Numbers : WF_net(\E x \in net[Receiver] : Holds(x, n) /\ Gone(Receiver, x))
  /\ SF_kcpVars(kcpcb[Sender].rmtWnd = 0
               /\ \E again \in SUBSET Unacked(Sender) : Flush(Sender, again, TRUE))
  /\ \A n \in Numbers :
       SF_kcpVars(n \in Unacked(Sender)
                 /\ \E again \in SUBSET Unacked(Sender), due \in BOOLEAN :
                      n \in again /\ Flush(Sender, again, due))

-----------------------------------------------------------------------------
\* The windows hold, also where the numbers wrap: an end never has more
\* segments under way than the window.  What it has dropped from snd_buf as
\* acknowledged, even beyond what the other end counts as come, is held there
\* until its turn; what is held is inside the receiver's window, in order and
\* once.
WindowsFit ==
  \A e \in Ends :
    LET k == kcpcb[e]
        o == kcpcb[Other(e)]
        held  == Sns(o.rcvBuf)
        ahead == Diff(k.sndNxt, o.rcvNxt)
    IN  /\ Diff(k.sndNxt, k.sndUna) \in 0..Wnd
        /\ ahead \in 0..2 * Wnd
        /\ \A i \in 0..ahead - 1 : (o.rcvNxt + i) % Word \in Unacked(e) \cup held
        /\ \A b \in {k.sndBuf, k.rcvBuf} :
             \A i \in 1..Len(b) - 1 : Diff(b[i + 1].sn, b[i].sn) > 0
        /\ \A n \in held : Diff(n, o.rcvNxt) \in 0..Wnd - 1
        /\ Len(k.rcvQueue) <= Wnd

\* The connection is a Stream: the messages come out whole, in order and
\* once, and each of them does, whatever is lost, doubled or late and however
\* long the receiver's window has been shut.
Abstract == INSTANCE Stream WITH Messages <- Messages, sent <- sent, got <- got
ImplementsStream == Abstract!FairSpec
=============================================================================
