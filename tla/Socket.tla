------------------------------- MODULE Socket -------------------------------
(***************************************************************************)
(* The sockets of skynet (socket_server.c): any thread sends and closes,   *)
(* by commands in a pipe to the socket thread or, when nothing else is     *)
(* under way, by writing to the fd itself; the socket thread opens, closes *)
(* and writes what is left.                                                *)
(*                                                                         *)
(* Sockets here are opened by connect (TCP) or udp; those that listen or   *)
(* are bound, and udp_connect, are left out.  A slot serves one id: there  *)
(* are 65536, and one is taken again only when alloc_id has come round.    *)
(* A list of write buffers is the sequence of the bytes that are still to  *)
(* be written, so that a write takes any number of them off its head.      *)
(***************************************************************************)
EXTENDS Integers, SequencesExt

CONSTANTS
  Threads,   \* the threads of services
  MaxIds,    \* bounds: sockets opened,
  MaxSends,  \* messages sent,
  Size       \* and bytes of a TCP message

ASSUME SocketAssumption == MaxIds \in Nat /\ MaxSends \in Nat /\ Size \in Nat \ {0}

Ids  == 1..MaxIds
Msgs == 1..MaxSends

VARIABLES
  sock,     \* [Ids -> struct socket, with poll: what epoll watches]
  pipe,     \* commands on their way to the socket thread
  ev,       \* the events of sp_wait not handled yet
  check,    \* checkctrl
  at,       \* the socket thread: at the top of its loop, or at an event
  closing,  \* the id that force_close is about to lock and close
  op,       \* [Threads -> the call it is in]
  wire,     \* history: [Ids -> the bytes written],
  known,    \* the ids that services have got,
  sends,    \* messages sent,
  due,      \* [Ids -> those sent before anybody asked for its close],
  asked,    \* the ids that somebody has asked to close,
  fate      \* and how each ended: open, flushed, or cut

loopVars == <<ev, check, at>>
history  == <<wire, known, sends, due, asked, fate>>
vars == <<sock, pipe, loopVars, closing, op, history>>

NoOp == [step |-> "none", id |-> 0, m |-> 0, cmd |-> "none"]

Init ==
  /\ sock = [i \in Ids |-> [type |-> "INVALID", protocol |-> "UNKNOWN", sending |-> 0,
                            high |-> <<>>, low |-> <<>>, dw |-> <<>>, lock |-> FALSE,
                            poll |-> "off"]]
  /\ pipe = <<>>
  /\ ev = {}
  /\ check = TRUE
  /\ at = "top"
  /\ closing = {}
  /\ op = [t \in Threads |-> NoOp]
  /\ wire = [i \in Ids |-> <<>>]
  /\ known = {}
  /\ sends = 0
  /\ due = [i \in Ids |-> {}]
  /\ asked = {}
  /\ fate = [i \in Ids |-> "open"]

\* The bytes of a TCP message are numbered, a datagram is one piece.
Bytes(m, cmd) ==
  IF cmd = "A" THEN <<[m |-> m, b |-> 0]>> ELSE [b \in 1..Size |-> [m |-> m, b |-> b]]

-----------------------------------------------------------------------------
SendBufferEmpty(s) == s.high = <<>> /\ s.low = <<>>

\* Faulty form of NoMoreSendingData: the direct write is forgotten.
NoMoreButDirect(s) == SendBufferEmpty(s) /\ s.sending = 0

\* nomore_sending_data
NoMoreSendingData(s) == SendBufferEmpty(s) /\ s.dw = <<>> /\ s.sending = 0

\* can_direct_write
CanDirectWrite(s) == NoMoreSendingData(s) /\ s.type = "CONNECTED"

\* Faulty form of WithDirect: what is left of it goes behind the list.
WithDirectLast(s) == [s EXCEPT !.high = @ \o s.dw, !.dw = <<>>]

\* send_buffer: what a direct write has left goes before the high list.
WithDirect(s) == [s EXCEPT !.high = s.dw \o @, !.dw = <<>>]

\* list_uncomplete
Uncomplete(list) == list # <<>> /\ Head(list).b > 1

\* raise_uncomplete: the rest of the head of low becomes the high list.
RaiseUncomplete(s) ==
  LET n == CHOOSE n \in 1..Len(s.low) : s.low[n].b = Size /\ \A j \in 1..n - 1 : s.low[j].b # Size
  IN  [s EXCEPT !.high = SubSeq(s.low, 1, n), !.low = SubSeq(@, n + 1, Len(@))]

\* send_list for the high list and, when that is empty, for the low one: the
\* fd has taken n bytes.
SendLists(s, n) ==
  LET h == IF n < Len(s.high) THEN n ELSE Len(s.high)
  IN  [s EXCEPT !.high = SubSeq(@, h + 1, Len(@)), !.low = SubSeq(@, n - h + 1, Len(@))]

\* send_buffer_: when all is written, there are no more events for writing.
SendBuffer(s, n) ==
  LET s1 == SendLists(s, n)
  IN  IF SendBufferEmpty(s1) THEN [s1 EXCEPT !.poll = "in"]
      ELSE IF s1.high = <<>> /\ Uncomplete(s1.low) THEN RaiseUncomplete(s1)
      ELSE s1

\* What its fd may take, and has taken.
Left(s)     == Len(s.high) + Len(s.low)
Took(s, n)  == SubSeq(s.high \o s.low, 1, n)

\* append_sendbuffer: low priority counts when there is anything before it.
Appended(s, m, cmd) ==
  IF cmd = "P" /\ ~(SendBufferEmpty(s) /\ s.type = "CONNECTED")
    THEN [s EXCEPT !.low = @ \o Bytes(m, cmd)]
    ELSE [s EXCEPT !.high = @ \o Bytes(m, cmd)]

\* new_fd, and the type that its caller sets.
NewFd(s, protocol, type) ==
  [s EXCEPT !.type = type, !.protocol = protocol, !.sending = 0, !.dw = <<>>, !.lock = FALSE,
            !.poll = IF type = "CONNECTING" THEN "out" ELSE "in"]

-----------------------------------------------------------------------------
(* What the threads of the services do. *)

Idle(t)       == op[t] = NoOp
At(t, step)   == op[t].step = step
Goto(t, step) == op' = [op EXCEPT ![t].step = step]
Done(t)       == op' = [op EXCEPT ![t] = NoOp]

\* reserve_id, by socket_server_connect ("O") or socket_server_udp ("U").
Open(t, id, cmd) ==
  /\ Idle(t)
  /\ \A i \in 1..id : sock[i].type = "INVALID" /\ fate[i] = "open" <=> i = id
  /\ sock' = [sock EXCEPT ![id].type = "RESERVE"]
  /\ op' = [op EXCEPT ![t] = [step |-> "pipe", id |-> id, m |-> 0, cmd |-> cmd]]
  /\ UNCHANGED <<pipe, loopVars, closing, history>>

\* socket_server_send ("D"), _send_lowpriority ("P") and _udp_send ("A").
Send(t, id, cmd) ==
  /\ Idle(t)
  /\ id \in known /\ sends < MaxSends
  /\ sock[id].type # "INVALID"
  /\ cmd = "A" <=> sock[id].protocol # "TCP"
  /\ sends' = sends + 1
  /\ op' = [op EXCEPT ![t] = [step |-> IF cmd = "P" THEN "inc" ELSE "look",
                              id |-> id, m |-> sends', cmd |-> cmd]]
  /\ UNCHANGED <<sock, pipe, loopVars, closing, wire, known, due, asked, fate>>

\* No direct write: a TCP message is counted and goes into the pipe.
ByPipe(t) == Goto(t, IF op[t].cmd = "A" THEN "pipe" ELSE "inc")

Look(t) ==
  /\ At(t, "look")
  /\ IF CanDirectWrite(sock[op[t].id]) THEN Goto(t, "try") ELSE ByPipe(t)
  /\ UNCHANGED <<sock, pipe, loopVars, closing, history>>

TryLock(t) ==
  /\ At(t, "try")
  /\ sock' = [sock EXCEPT ![op[t].id].lock = TRUE]
  /\ IF sock[op[t].id].lock THEN ByPipe(t) ELSE Goto(t, "lists")
  /\ UNCHANGED <<pipe, loopVars, closing, history>>

\* The double check reads the lists first and the counter after them.
DoubleCheck(t, step, holds, next) ==
  /\ At(t, step)
  /\ IF holds THEN Goto(t, next) /\ UNCHANGED sock
     ELSE ByPipe(t) /\ sock' = [sock EXCEPT ![op[t].id].lock = FALSE]
  /\ UNCHANGED <<pipe, loopVars, closing, history>>

CheckLists(t) ==
  DoubleCheck(t, "lists", SendBufferEmpty(sock[op[t].id]), "rest")
CheckRest(t) ==
  DoubleCheck(t, "rest", sock[op[t].id].dw = <<>> /\ sock[op[t].id].sending = 0
                           /\ sock[op[t].id].type = "CONNECTED", "write")

\* The call that sends a message returns.
Returned(t) ==
  due' = IF op[t].id \in asked THEN due ELSE [due EXCEPT ![op[t].id] = @ \cup {op[t].m}]

\* The fd takes n bytes.  The rest is left for the socket thread; a datagram
\* that was not taken goes into the pipe.
Write(t, n) ==
  LET id == op[t].id
      bytes == Bytes(op[t].m, op[t].cmd)
      rest  == SubSeq(bytes, n + 1, Len(bytes)) IN
  /\ At(t, "write")
  /\ n <= Len(bytes)
  /\ wire' = [wire EXCEPT ![id] = @ \o SubSeq(bytes, 1, n)]
  /\ IF op[t].cmd = "A" /\ rest # <<>>
       THEN /\ Goto(t, "pipe")
            /\ sock' = [sock EXCEPT ![id].lock = FALSE]
            /\ UNCHANGED due
       ELSE /\ Done(t)
            /\ sock' = [sock EXCEPT ![id].lock = FALSE, ![id].dw = rest,
                                    ![id].poll = IF rest = <<>> THEN @ ELSE "out"]
            /\ Returned(t)
  /\ UNCHANGED <<pipe, loopVars, closing, known, sends, asked, fate>>

\* inc_sending_ref
IncSendingRef(t) ==
  /\ At(t, "inc")
  /\ sock' = [sock EXCEPT ![op[t].id].sending = IF sock[op[t].id].protocol = "TCP" THEN @ + 1 ELSE @]
  /\ Goto(t, "pipe")
  /\ UNCHANGED <<pipe, loopVars, closing, history>>

\* send_request; a service has the id of a udp socket from here on.
SendRequest(t) ==
  /\ At(t, "pipe")
  /\ pipe' = Append(pipe, [cmd |-> op[t].cmd, id |-> op[t].id, m |-> op[t].m])
  /\ known' = IF op[t].cmd = "U" THEN known \cup {op[t].id} ELSE known
  /\ IF op[t].m = 0 THEN UNCHANGED due ELSE Returned(t)
  /\ Done(t)
  /\ UNCHANGED <<sock, loopVars, closing, wire, sends, asked, fate>>

\* socket_server_close and _shutdown: "K", with the flag "S".
Close(t, id, cmd) ==
  /\ Idle(t)
  /\ id \in known \ asked
  /\ asked' = asked \cup {id}
  /\ pipe' = Append(pipe, [cmd |-> cmd, id |-> id, m |-> 0])
  /\ UNCHANGED <<sock, loopVars, closing, op, wire, known, sends, due, fate>>

-----------------------------------------------------------------------------
(* What the socket thread does. *)

\* force_close before its lock: s as it is then, without its lists.
ForceClose(id, s, how) ==
  /\ sock' = [sock EXCEPT ![id] = [s EXCEPT !.high = <<>>, !.low = <<>>, !.poll = "off"]]
  /\ closing' = {id}
  /\ fate' = [fate EXCEPT ![id] = how]

\* force_close under the lock; with clear_closed_event after a command.
CloseFd ==
  \E id \in closing :
    /\ ~sock[id].lock
    /\ sock' = [sock EXCEPT ![id].type = "INVALID", ![id].dw = <<>>]
    /\ closing' = {}
    /\ ev' = {e \in ev : e.id # id}
    /\ UNCHANGED <<pipe, check, at, op, history>>

\* A command is read from the pipe.
Command(cmds) ==
  /\ closing = {}
  /\ at = "top" /\ check /\ pipe # <<>>
  /\ Head(pipe).cmd \in cmds
  /\ pipe' = Tail(pipe)
  /\ UNCHANGED <<check, at, op, sends, due, asked>>

\* open_socket and add_udp_socket: it fails, or not, or not yet.
OpenSocket ==
  LET c == Head(pipe) IN
  /\ Command({"O", "U"})
  /\ \/ /\ sock' = [sock EXCEPT ![c.id].type = "INVALID"]
        /\ fate' = [fate EXCEPT ![c.id] = "cut"]
        /\ UNCHANGED known
     \/ /\ sock' = [sock EXCEPT ![c.id] = NewFd(@, IF c.cmd = "O" THEN "TCP" ELSE "UDP", "CONNECTED")]
        /\ known' = known \cup {c.id}
        /\ UNCHANGED fate
     \/ /\ c.cmd = "O"
        /\ sock' = [sock EXCEPT ![c.id] = NewFd(@, "TCP", "CONNECTING")]
        /\ UNCHANGED <<known, fate>>
  /\ UNCHANGED <<ev, closing, wire>>

\* send_socket, and dec_sending_ref after a counted one: a datagram is tried
\* at once when nothing is before it.
SendSocket ==
  LET c == Head(pipe)
      s == sock[c.id]
      s1 == IF c.cmd # "A" /\ s.protocol = "TCP" THEN [s EXCEPT !.sending = @ - 1] ELSE s
      first == SendBufferEmpty(s) /\ s.type = "CONNECTED"
      s2 == Appended(s1, c.m, c.cmd) IN
  /\ Command({"D", "P", "A"})
  /\ \/ /\ s.type \in {"INVALID", "HALFCLOSE"}
        /\ sock' = [sock EXCEPT ![c.id] = s1]
        /\ UNCHANGED wire
     \/ /\ s.type \notin {"INVALID", "HALFCLOSE"}
        /\ sock' = [sock EXCEPT ![c.id] = [s2 EXCEPT !.poll = IF first THEN "out" ELSE @]]
        /\ UNCHANGED wire
     \/ /\ c.cmd = "A" /\ first
        /\ wire' = [wire EXCEPT ![c.id] = @ \o Bytes(c.m, c.cmd)]
        /\ UNCHANGED sock
  /\ UNCHANGED <<ev, closing, known, fate>>

\* close_socket, with nothing to send, and when the lock is taken or what is
\* left has been written, as far as it could be: a socket with more to send
\* is half closed.
CloseOrHalf(c, s) ==
  IF c.cmd = "S" THEN ForceClose(c.id, s, "cut")
  ELSE IF NoMoreSendingData(s) THEN ForceClose(c.id, s, "flushed")
  ELSE /\ sock' = [sock EXCEPT ![c.id] = [s EXCEPT !.type = "HALFCLOSE"]]
       /\ UNCHANGED <<closing, fate>>

CloseSocket ==
  LET c == Head(pipe)
      s == sock[c.id]
      d == WithDirect(s)
      unsent == s.type # "INVALID" /\ ~NoMoreSendingData(s) /\ ~s.lock IN
  /\ Command({"K", "S"})
  /\ \/ s.type = "INVALID" /\ UNCHANGED <<sock, closing, wire, fate>>
     \/ s.type # "INVALID" /\ ~unsent /\ CloseOrHalf(c, s) /\ UNCHANGED wire
     \/ /\ unsent
        /\ \E n \in 0..Left(d) : /\ CloseOrHalf(c, SendBuffer(d, n))
                                 /\ wire' = [wire EXCEPT ![c.id] = @ \o Took(d, n)]
     \/ unsent /\ s.protocol = "TCP" /\ Left(d) > 0 /\ ForceClose(c.id, d, "cut") /\ UNCHANGED wire
  /\ UNCHANGED <<ev, known>>

-----------------------------------------------------------------------------
\* sp_wait: events come for some of the sockets, the first is handled before
\* the commands are looked at again.
Wait ==
  /\ closing = {}
  /\ at = "top" /\ (check => pipe = <<>>) /\ ev = {}
  /\ \E ids \in SUBSET {i \in Ids : sock[i].poll # "off"}, reads, writes \in SUBSET Ids :
       /\ ids # {} /\ reads \subseteq ids
       /\ writes \subseteq {i \in ids : sock[i].poll = "out"}
       /\ ev' = {[id |-> i, read |-> i \in reads, write |-> i \in writes] : i \in ids}
  /\ check' = TRUE
  /\ at' = "event"
  /\ UNCHANGED <<sock, pipe, closing, op, history>>

\* The event e is handled, and next is left of it.
Event(e, next) ==
  /\ closing = {}
  /\ at = "event" \/ (check => pipe = <<>>)
  /\ ev' = (ev \ {e}) \cup next
  /\ at' = "top"
  /\ check' = (at = "event" /\ check)
  /\ UNCHANGED <<pipe, op, sends, due, asked>>

\* report_connect
ReportConnect(e) ==
  LET s == sock[e.id] IN
  /\ s.type = "CONNECTING"
  /\ Event(e, {})
  /\ \/ /\ sock' = [sock EXCEPT ![e.id].type = "CONNECTED",
                                 ![e.id].poll = IF NoMoreSendingData(s) THEN "in" ELSE @]
        /\ known' = known \cup {e.id}
        /\ UNCHANGED <<closing, fate>>
     \/ ForceClose(e.id, s, "cut") /\ UNCHANGED known
  /\ UNCHANGED wire

\* forward_message_tcp and _udp: there is data (of TCP one buffer), or no more
\* of it (of UDP, which is read again until then) and the turn is the
\* write's, or the peer has closed or the read fails.
ForwardMessage(e) ==
  LET s == sock[e.id] IN
  /\ s.type \in {"CONNECTED", "HALFCLOSE"} /\ e.read
  /\ \/ /\ Event(e, IF e.write THEN {[e EXCEPT !.read = FALSE]} ELSE {})
        /\ UNCHANGED <<sock, closing, fate>>
     \/ s.protocol = "UDP" /\ Event(e, {e}) /\ UNCHANGED <<sock, closing, fate>>
     \/ Event(e, {}) /\ ForceClose(e.id, s, "cut")
  /\ UNCHANGED <<known, wire>>

\* send_buffer for an event: not while the lock is taken.  A socket that is
\* half closed is closed when all is written.
WriteEvent(e) ==
  LET s == sock[e.id]
      d == WithDirect(s) IN
  /\ s.type \in {"CONNECTED", "HALFCLOSE"} /\ ~e.read /\ e.write
  /\ Event(e, {})
  /\ \/ s.lock /\ UNCHANGED <<sock, closing, wire, fate>>
     \/ /\ ~s.lock
        /\ \E n \in 0..Left(d) :
             /\ wire' = [wire EXCEPT ![e.id] = @ \o Took(d, n)]
             /\ IF s.type = "HALFCLOSE" /\ n = Left(d)
                  THEN ForceClose(e.id, SendBuffer(d, n), "flushed")
                  ELSE /\ sock' = [sock EXCEPT ![e.id] = SendBuffer(d, n)]
                       /\ UNCHANGED <<closing, fate>>
     \/ ~s.lock /\ s.protocol = "TCP" /\ Left(d) > 0 /\ ForceClose(e.id, d, "cut") /\ UNCHANGED wire
  /\ UNCHANGED known

\* An event that is neither: an error.
ErrorEvent(e) ==
  /\ sock[e.id].type \in {"CONNECTED", "HALFCLOSE"} /\ ~e.read /\ ~e.write
  /\ Event(e, {})
  /\ ForceClose(e.id, sock[e.id], "cut")
  /\ UNCHANGED <<known, wire>>

Next ==
  \/ \E t \in Threads :
       \/ \E id \in Ids :
            \/ \E cmd \in {"O", "U"} : Open(t, id, cmd)
            \/ \E cmd \in {"D", "P", "A"} : Send(t, id, cmd)
            \/ \E cmd \in {"K", "S"} : Close(t, id, cmd)
       \/ Look(t) \/ TryLock(t) \/ CheckLists(t) \/ CheckRest(t)
       \/ \E n \in 0..Size : Write(t, n)
       \/ IncSendingRef(t) \/ SendRequest(t)
  \/ OpenSocket \/ SendSocket \/ CloseSocket \/ CloseFd \/ Wait
  \/ \E e \in ev : ReportConnect(e) \/ ForwardMessage(e) \/ WriteEvent(e) \/ ErrorEvent(e)

Spec == Init /\ [][Next]_vars

-----------------------------------------------------------------------------
\* Whatever is written directly, by priority, in parts or again: what has
\* been written to a socket that did not fail are messages one after the
\* other, each once and none mixed with another, the last of them perhaps
\* not yet complete.
WholeMessages ==
  \A i \in Ids :
    fate[i] # "cut" =>
      /\ IsInjective(wire[i])
      /\ \A j \in 1..Len(wire[i]) :
           wire[i][j].b > 1 => j > 1 /\ wire[i][j - 1] = [wire[i][j] EXCEPT !.b = @ - 1]
      /\ \A j \in 1..Len(wire[i]) - 1 : wire[i][j].b \in 1..Size - 1 => wire[i][j + 1].m = wire[i][j].m

\* A socket that is closed because somebody asked for it, and not because it
\* failed, has written every message whose sending was over by then, also
\* what was left of a direct write or was still in the pipe.
FlushBeforeClose ==
  \A i \in Ids :
    fate[i] = "flushed" =>
      \A m \in due[i] : \E j \in 1..Len(wire[i]) : wire[i][j].m = m /\ wire[i][j].b \in {0, Size}
=============================================================================
