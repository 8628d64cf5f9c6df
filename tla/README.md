# Brick & Ball: models and proofs

Brick & Ball is a game for two phones: each player moves a brick, a ball goes to and fro, and who lets
it out on his side loses a point. A match is played in lockstep: a server collects the inputs of both
phones and sends each of them the same frames, and the phones compute everything else by themselves.
The client is C# (Unity, `src/Assets/Script`), the server Lua (`src/Server/src`) on two vendored pieces of C:
skynet, which runs its services (`src/Server/skynet`), and KCP, which makes a stream of UDP
(`src/Server/3rd/lua-kcp`).

This directory holds TLA+ modules for the parts of both in which order, time and failure matter, the
TLC configurations that check them on small instances, and proofs, checked by TLAPS, of what holds for
every instance. `PROJECT.json` lists components, runs, theorems, hazards, for every definition the lines
of source it models, and for every checked property a faulty form of the code that breaks it. In the
modules those faulty forms stand before the definition they replace, in no behaviour of their own.

    tlc -config lockstep_safety.cfg MCLockstep     # a run: see the table below for its module
    tlapm LockstepProofs.tla                       # a module of proofs

## 1. Inventory

### Server

| Part | State | Operations | Correct if |
|---|---|---|---|
| `service/gate.lua`, `agent.lua` | `_agentMap` (an agent with KCP stream, `heartbeat`, for each fd: address and port of a phone), `_clientCount` | `OnReceive` of a datagram, the loops `Recv`, `Heartbeat`, `Update`, the commands `CheckAgent`, `GetAgentValue`, `Send`, `Kick`, `Register` | it counts its agents, accepts at most `max_client`, tells everyone registered of each one that is gone |
| `service/queue.lua` | `_readyFd`, one fd that waits | `OnHandshake`, `OnDisconnect` | it pairs phones that are there, and forgets none |
| `service/lobby.lua` | `_roomMap`, `_leftFdMap`, `_rightFdMap` | `NewRoom`, `OnReceive`, `OnDisconnect` | a player's messages get to his room, a room is closed when a player is gone |
| `service/room.lua` | `_playFrame`, `_readyPlay`, `_inputMap`, `_timer`, `_comparsionHandler` | `Start`, `ReceiveInput`, `Play` and its timeout, `ReceiveComparison`, `Exit` | both players get one sequence of frames, with every input that was in time, and it goes on |
| `skynet.lua`, `lualib/skynet.lua` | suspended coroutines, timeouts | `Send`, `Call`, `DispatchCommand`, `Loop` | a handler goes on with the answer to its call; what happened meanwhile is what the services must live with |
| `shell/watch.sh` | none | starts the server again | nothing is stored, so a restart is `Init` |

### Under the server: skynet and KCP

| Part | State | Operations | Correct if |
|---|---|---|---|
| `skynet_handle.c` | `slot`, `handle_index`, the `handle` of each context | register with the expansion of the table, grab, retire | each service is found by its handle and by no other |
| `skynet_mq.c` | a queue per service with `in_global` and `release`, the global queue of queues | push, pop, mark and release, the global queue's push and pop | each queue with messages is in one place and nowhere twice |
| `skynet_server.c`, `skynet_start.c` | references of contexts, the workers, how many of them sleep | launch, send, dispatch, end, wake-up, sleep | one worker at a time runs a service, no context is used by a reference after it is freed, and with the game's one worker not at all, every message is taken or answered with an error |
| `skynet_timer.c` | a wheel of lists, the counter of ticks | add, shift, execute, update | a timer fires in its tick, those of one tick in order |
| `socket_server.c` | per socket two lists, a direct write, `sending`; a pipe of commands | open, send in three ways, close, the events of epoll | messages go out whole and once, and before a close that was asked for |
| `ikcp.c` | per end `snd_queue`, `snd_buf`, `rcv_buf`, `rcv_queue`, `snd_una`, `rmt_wnd` and the like | send, flush, input, recv | whole messages, once, in order, and all of them |

### Phone

| Part | State | Operations | Correct if |
|---|---|---|---|
| `Network/Networkmgr.cs` | `frame`, `playFrame`, `playDataList`, `sendInLoop`, `online`, `exitCode` | `Update` with its catch-up loop, `LockUpdate`, the handlers `OnConnect`, `OnStart`, `OnReceivePlayData`, `OnDisconnect` | both phones apply the same data in the same tick, and a phone whose connection ended leaves the match |
| `Network/Client.cs`, `Common.cs` | `udp`, `kcp`, `Connected`, `willDisconnect`, `heartbeat`, `heartbeatTimer` | `Update`, `Send`, `Connect`, `Disconnect`, `HeartbeatTick`, `ReceiveCallback` on a thread of the pool | each end of a connection is reported once, to the match it belongs to |
| `Network/LockBehaviour.cs` | subscriptions | `UpdateEvent`, `LateUpdateEvent` | everything advances once per tick |
| `Field/Judge.cs`, `Shooter.cs`, `Utility/Timer.cs` | scores, `aShooted`, `isRunning`, the shot timer, `GameType`, `PlayerType` | `Gain`, `Shoot`, `TickShoot`, `Reset`, `Input`, `IsRunning` | shots in turn, one ball, a match that ends at `scoreMax` and leaves nothing to the next |
| `Field/Ball.cs`, `Wall.cs`, `World.cs`, `Collider.cs` | body, `hasDown`, contacts | `OnCollide`, `LockUpdate`, `CollisionDetected` | a ball scores once; a contact begins once and ends once |
| `Field/Brick_/*` | the state, cool-down, tweens, position | `Input`, `OnDrag`, `TickAI`, `Play`, `Reset` | a brick elasts only when it may, and always comes back |
| `UI/*`, `Slots/*`, `ViceCamera.cs` | children of `Interface`, its one timer, the event system, a moving camera | `Clear`, `Result`, `Instantiate`, clicks, slots | one screen at a time, buttons that react |
| `Sound.cs`, `Vibrate.cs` | devices | | nothing else reads them |

### How they interact

* Phone to server: datagrams into KCP, messages out of it: `Connect`, `Handshake`, `Input`, `Comparison`,
  `Heartbeat` up, `Connect`, `Start`, `Input` (the PlayData) and `Heartbeat` down. The phone never says that
  it leaves; the server finds out because it hears nothing any more.
* Between services: `skynet.send` into the mailbox of the other and `skynet.call`, which suspends the one
  coroutine that calls and nothing else. `queue` waits for `gate`, `lobby` for `gate` twice and for the
  launch of a room.
* Under the services: a worker thread takes a service's queue from the global queue, calls the service back
  with a message, and the callback pushes to other queues; timer and socket threads push as well. Socket
  commands go through a pipe, or a worker writes to the fd itself.
* On the phone: static properties (`Judge.GameType`, `Networkmgr.WillElaste`), events
  (`ViceCamera.OnEndEvent`, `UpdateEvent`), callbacks of timers and tweens, and slots, ScriptableObjects that
  prefabs name. Everything is on Unity's main thread but `Client.ReceiveCallback`.

### What is hard

1. Lockstep over a network that delays, phones that stall and catch up, and a timeout in the room which
   nobody cancels.
2. Suspended coroutines on the server: a phone may be gone, or another one at its address, when
   `OnHandshake` or `NewRoom` goes on.
3. Ends: a phone that leaves, a kick, a missed heartbeat, a refusal, an error on another thread, each at any
   time, also twice, also during the start or after the end of a match.
4. State that outlives what it belongs to: `playDataList`, `willDisconnect`, `heartbeat`, `exitCode`,
   `willReset`, a cool-down's sequence, the one timer of `Interface`.
5. Threads in skynet, which hand queues and contexts to each other under locks that each cover one step, and
   numbers that wrap: ticks of the timer, segments of KCP.
6. Decisions taken long before they take effect: a drag is checked when it happens, its input is applied
   frames later.

## 2. Modules

    FrameLog <---+                                        implemented by Lockstep
    Wire ---- Room -------+
       \----- Networkmgr -+- Lockstep - MCLockstep
                                     \- LockstepProofs
    Skynet -- Gate --+
        \---- Queue -+--- Server --- MCServer
         \--- Lobby -+         \---- ServerProofs
    Client ------- ConnectionProofs    Match - MatchProofs    Brick - BrickProofs

    Mailbox <----+                                        implemented by Service
    Handle -- Mq -- Service -- ServiceProofs
        \---- Launches
    Stream <----- Kcp -- ConnectionProofs                 implemented by Kcp
    Timer -- TimerProofs          Socket -- SocketProofs

The upper half is the game's own code; the lower half is what it stands on. The two meet where the upper one
takes something for granted: `Skynet` has mailboxes that `Mailbox` describes and `Service` implements,
`Wire` and `Gate` have streams that `Stream` describes and `Kcp` implements.

**Wire, Room, Networkmgr, Lockstep**: one match. `Room` has one action per command of `room.lua` and one for
the timeout; `Play`, `Arm` and `Keep` are the three ways through `ReceiveInput`. Time is relative: `elapsed`
is `skynet.now() - _timer`, and a timeout is what is left of its delay and the frame it was armed in.
`Networkmgr` splits an iteration of `Update`'s loop where messages can come in between: `pc` is `"poll"`
(`client.Update`), `"loop"` (the catch-up loop), `"lock"` (the last `LockUpdate`). An input is
represented by the play frame it was sent in, so that a PlayData says which inputs it holds; `log`, `ticks` and
`applied` are history. What a player sees in `Comparison` is what the simulation is a function of: the ticks
and PlayData so far. `FrameLog` is the promise: one growing log which everyone reads from its start in order.

**Skynet, Gate, Queue, Lobby, Server**: how phones are matched and rooms end. A suspended coroutine is the
request and then the response in a mailbox, so every handler is as many actions as it has calls, plus one
(`NewRoom`, `NewRoomChecked`, `NewRoomGotValue`, `NewRoomLaunched`). The phones are part of `Gate`: they
connect, shake hands, get `Start`, send inputs, leave without a word. `peer` numbers the phone an agent speaks
with and is 0 for an agent made by a late copy of a `Connect` segment, which will never deliver anything. Of a
room `Lobby` keeps life and mailbox; what it does is `Room`'s.

**Client**: the connection of one phone. The main thread goes through `Networkmgr.Update` (`pc`: `"update"`,
`"recv"`, the loop over received messages, `"lock"`, `"exit"`, the handling of `exitCode`); every connection
has its chain of receive callbacks, whose steps interleave with it (`data` received, flag set, `input` into
KCP, `error`). `this.kcp` and `this.udp` are those of the newest connection whoever uses them. `Disconnect`
is an operator with `OnDisconnect` in it, used wherever the code calls it.

**Match**: the game on one phone. `ui` holds what `Interface` shows, `pending` is the callback its timer will
call, `camera` the moves under way. `Gain`, `TickShoot`, `OpeningEnd` (`Judge.Reset`), `HandleExit` (the end
of `Networkmgr.Update`) are whole handlers. Which screen follows which comes from the slots and prefabs in
`Resources`. Timers and tweens end at any tick, so nothing in `Match` depends on their values.

**Brick**: one brick, in ticks. `pc` keeps the order of a tick: `"input"` (`LockUpdate` applies a PlayData and
sends an input), `"drag"` (the bricks' `LockUpdate`), `"tween"` (`DOTween.ManualUpdate`). `elasts` and `cools`
hold what is left of each sequence; the last of `cools` is `NormalState.sequence`. `inputs` are the inputs under
way; with `Lag` greater than 1 a PlayData may come without this phone's input, an input may take the place of
an earlier one in `_inputMap`, and a frame of the catch-up loop may send none.

**Handle, Mq, Service, Mailbox**: how skynet runs services. A step is what one lock or one atomic operation
covers. A thread is in several calls at once: `pc` and `held` are the worker's loop, `op` what the callback it
runs is doing (`skynet_context_new`, a send, an end), `drop` is `skynet_mq_release`, `snd`
`skynet_context_push`, `rel` `delete_context`; the innermost call goes on. `Mailbox` has none of this: a box per
service, a message at a time, and an error for what a service leaves behind. A queue's `msgs` are the box; the
messages that a worker has popped one by one to answer them are the abstract `answers`.

**Launches** is the table of services (`Handle`) with any threads launching, while `Service` lets `Launchers` do so
one after the other, as the one launcher of the game does.

**Timer**: the wheel with one near list and four levels, sizes as parameters, so that the word `Near * Level^4`
is small enough to wrap. A list has its place: level 0 is `near`, 1 to 4 are `t[0]` to `t[3]`. `timer_shift` is
`Shift`, which counts the tick and clears the list that moves, and a `MoveNode` for each of its nodes, all under the
lock; `Execute` takes off the list of the tick. The lock is given back while that list is dispatched, so timers are
added between any two steps of it. `left` and `before` are history: how long each timer has to wait, and which of
them was set before which.

**Kcp, Stream**: two ends and the network. An end is a record with the fields of `struct IKCPCB` that decide
what happens; numbers are modulo `Word` and start close to the wrap.
`Without` is what the loops over `snd_buf` take out of it, and `InputPushes` goes through the segments of a datagram. Time is left out: which segments a flush
sends again, and whether it probes, is its choice. A datagram may be lost, doubled or overtaken (`MaxFaults`).

**Socket**: the socket thread with its epoll events and its pipe, and threads of services that open, send
directly, by the pipe or with low priority, close and shut down. A list of buffers is the sequence of bytes still to be
written; a datagram is one piece.

## 3. Runs

| Run (module) | Distinct states | What it shows |
|---|---|---|
| `lockstep_safety` (MCLockstep) | 2 371 052 | types; nothing of the stream is lost, doubled or left over (`StreamIntact`); both simulations take the k-th PlayData in the same tick (`TickAligned`); a frame that waits has its timeout (`ReadyHasTimer`) and one that does not has its trigger coming (`NoLostTrigger`); an input in time is used (`OnTimeInputKept`); a frame is cut short only by a timeout of an earlier one (`ShortFrameNeedsStaleTimer`) |
| `lockstep_refinement` (MCLockstep) | 292 848 | the match implements `FrameLog` (`ImplementsFrameLog`); phones in step are never reported as different (`NoFalseAlarm`); who stays plays on, whatever the other does (`Progress`) |
| `server_matching` (MCServer) | 399 278 | never more than `max_client` accepted (`AcceptedBound`), the queue's fd can be matched (`ReadyFdWaits`), no waiting phone is forgotten (`NoWaiterForgotten`), a room hears `Start` first and nothing after `Exit` (`RoomProtocol`) |
| `server_rooms` (MCServer) | 451 017 | with late copies of `Connect`: both players' fds lead to their room (`RoomFound`), it never loses the way to be closed (`StaysCovered`), and a player who leaves ends it and both agents (`RoomCloses`) |
| `client` (Client) | 433 661 | each end is reported once (`OneEnd`), an error ends one connection (`ErrorEndsOne`), a match without connection has an end to handle (`OnlineHasEnd`) and is left (`MatchIsLeft`), heartbeat checks are not hasty (`HeartbeatNotHasty`) and find a silent server (`SilenceEnds`) |
| `match_rules` (Match) | 322 | one scene at a time, with buttons that react (`LiveScene`); a shot to come or a ball but not both, in turn also in the next match (`ShotCycle`); scores (`ScoresFit`); a connection exactly where there should be one (`ConnectionFits`) |
| `brick` (Brick) | 68 033 | with inputs on time, late, lost and replaced: a sequence that will end the state is always running (`NeverStuck`), no Elast at the reset (`ResetFindsNormal`), nothing left at the next start (`StartsAtRest`), a cool-down ends (`ReadyAgain`) |
| `service_mailboxes` (Service) | 91 586 | a queue is in one place (`OnePlace`), references are counted exactly, so that a context is there for whoever uses it by one and is deleted once (`Lifetimes`), and all of it implements `Mailbox`, its liveness included (`ImplementsMailbox`) |
| `timer` (Timer) | 5 779 964 | each timer fires in its tick (`DueOnTime`) and those of a tick in order (`InOrder`), over the wrap of the counter |
| `kcp` (Kcp) | 80 364 | the windows of the two ends fit (`WindowsFit`), and `Stream` is implemented, its liveness included (`ImplementsStream`) |
| `socket` (Socket) | 2 356 779 | messages go out whole and once (`WholeMessages`) and before a close that was asked for (`FlushBeforeClose`) |
| `launches` (Launches) | (violated) | two threads that launch at once break what the expansion of the table asserts (`NewSlotFree`) |

All of them pass but `launches`, which is there for its counterexample: see the first item of section 5.

**Bounds.** `Lockstep`: two players as in the code (`room.lua` is given a left and a right fd); three play
frames, of which the first takes the empty PlayData each phone starts with, the second the room's first
frame and the third a frame that timeouts of the earlier ones may fall into; an interval of 3 ticks instead
of 5, as first, middle and last tick of a play frame are what `LockUpdate` tells apart; `play_interval` 2, so
that a timeout can be fresh, half over or due; two left-over PlayData, the number at which the catch-up loop
starts. `lockstep_safety` has no comparison (`CompareFrame` is out of reach), `lockstep_refinement` one in every
frame (`LEAST_COMPARE_FRAME` is only a start) and a frame less.
`Server`: three phones and two places, so that one is refused and one is left over in the queue; two fds where a
room is followed to its end; one room; in `server_rooms` two late copies of a `Connect` segment, one for each
phone, and no inputs, which change nothing for a room's life. `Client`: two connections, as state may outlive
only the one before; three messages, from the answer to Connect to the first PlayData; two errors; an interval
of 2 updates. `Match`: scores to 3, so that a match has a start, a middle and an end for either team; matches
and connections are not bounded. `Brick`: intervals keep the order of the real ones (a play frame of 85 ms <
an Elast of 0.3 s < a cool-down of 4 s; the result and the way back take longer than an Elast, the way to the next match
longer than a cool-down); with `Lag` 3 several inputs are under way.
`Service`: two workers of different weights as `skynet_start.c` gives them (one message at a time, or all), and the
socket thread: more than the one worker that `src/config` asks for, so that what is shown holds when it asks for more; one service at the start and one that it launches, which is enough for a service that is killed while
it runs, while a message is pushed to it, and as soon as it is launched, while its launcher still reads its handle; a table of one slot,
so that it is expanded; two messages, so that one can be left behind, and its error can be left behind as well. That a third service
kills the new one before `skynet_context_new` has returned needs three contexts, which with liveness is too long for a run;
`OnePlace` and `Lifetimes` alone were checked with three, two of them there from the start, a table of two slots, two messages and
two kills (1 013 105 states), and their proofs hold for any number. `Timer`: two near
slots and four levels of two, a word of 32 ticks that wraps many times; three timers and updates of up to two
ticks, so that a list can be dispatched while another is moved. `Kcp`: a word of 10 numbers that wraps after the first
segment, windows of 2 that fill, messages of one or two fragments, three fragments in all, two datagrams in either direction and two faults.
`Socket`: one socket of either protocol, two threads, four messages of two bytes: one being written, one
left over from a direct write, one in each list. `launches`: a table of 4 that is full but for one place.
Symmetry of players and fds is used in runs without liveness only.

**Fairness.** `lockstep_refinement`: the phone's loop, the room's mailbox, its clock and timeouts run (weak
fairness); what KCP has in order is dispatched when the phone is at that point again and again (strong
fairness). Nobody has to send, leave or be kicked. `server_rooms`: services take their messages, the gate's
loop runs, the launcher answers, KCP delivers. `client`: Unity calls `Update`; the `while` of `Update`, which
runs a limited number of iterations per display frame, comes to its end (strong fairness of leaving it). `brick`:
ticks go on. `service_mailboxes`: each thread runs (weak fairness of its next step), a signal reaches a sleeping
worker, and once the last service is gone the node stops. `kcp`: the receiver's program takes messages; each end's clock
flushes it (strong fairness: a flush is not possible at each moment, but again and again), a segment that waits for
its acknowledgement is sent again and a shut window is probed, which is what `rto` and `probe_wait` do; and a datagram
sent again and again comes through in the end, stated as: datagrams of each sort leave the network.
Nothing is assumed of players, of the network beyond that, or of the order of services.

**Deadlock** is not checked in `server_*`, where all phones may be gone for good and the
bounds leave nothing more to happen; in `service_mailboxes`, where the node stops; in `kcp`, `socket` and
`launches`, where everything has been sent, closed or launched.

## 4. Proofs

| Theorem (module) | Says | Argument |
|---|---|---|
| `Typing` (LockstepProofs) | `[]TypeOK` | each action; `frame` stays below the interval because `LockPlay` sets it back |
| `TimerPending` | `[]ReadyHasTimer` | `TimerInv`: a frame becomes ready only in `Arm`, and the timeout armed there is removed only by firing, which plays the frame |
| `Aligned` | `[]TickAligned` | inductive with the types: a tick counts in `frame` or, at the boundary, in `playFrame` |
| `Intact` | `[]StreamIntact` | `StreamInv`: element by element, applied, waiting and coming PlayData are the log; a phone that has not seen `Start` has `Start` and then the log before it. The invariant needs the phones not yet in the match, whose lists hold left-overs: it says nothing of these lists, only of what comes |
| `Implements` | `ImplementsFrameLog` | the initial states map to initial states, each step to a step or a stutter, under `MatchInv`: types, `TickAligned`, `StreamInv` and `LogInv`, the order of inputs. Those on their way are newer than the one the room holds, which is newer than all it has played, so a frame never takes an input twice or back |
| `Triggered` | `[]NoLostTrigger` | a phone that has applied all there is and stands in the room's frame has sent the input of it (`LoopInv`: in the catch-up loop it sends where the frame begins), and that input stays on its way until the room takes it and is ready (`TriggerOf`) |
| `Kept` | `OnTimeInputKept` | an input in time is held until its frame goes out: by `LogInv` one that comes after it is newer than the one held and not newer than the room's frame, so nothing takes its place |
| `Short` | `ShortFrameNeedsStaleTimer` | `PaceInv`: no timeout was armed in a frame to come, and one of the current frame has not fired before `play_interval` is over; with two players, a frame that is not complete goes out by a timeout, which is its own or an earlier one's |
| `NoAlarm` | `[]NoFalseAlarm` | `AlarmInv`: what is on its way to the room, and what it holds, of a frame's comparison is what each phone is `Expected` to report, a function of the log |
| `Bounded` (ServerProofs) | `[]AcceptedBound` | `CountInv`: `_clientCount` is the number of agents; the bound is part of the invariant, as refused agents are counted too and the count may exceed it |
| `ReadyWaits` | `[]ReadyFdWaits` | `QueueInv`: beside the types of the mailboxes and the count, `WaitInv`: an answer in the queue's box that an agent is there is followed by that agent's `OnDisconnect`, if it went since. The order of one box is all it rests on |
| `Protocol` | `[]RoomProtocol` | `RoomInv`: a room belongs to the launcher, then to one message `launched` about a fresh room, then to the map, which leads only to rooms that have `Start` before them and no `Exit`; `OnDisconnect` takes it out of the map in the step that sends `Exit` |
| `NotForgotten` | `[]NoWaiterForgotten` | `WaiterInv`: the three invariants before and `MindInv`. `Waits` speaks of a phone; what is minded is its fd, and where: in a stream to or from the gate, in the box of the queue, of the gate or of the lobby, in `_readyFd`, or in a room that is being launched. Each handler takes the fd from one of these places and puts it into the next before it is suspended, also when the same fds come a second time |
| `FoundUnshared`, `Found` | in every established room whose fds no second phone has used, both lead to it; `Found`: `[]RoomFound`, if `MaxConnects = 1` | `FoundInv`: `QueueInv`, `RoomInv`, the lengths and sorts of the streams, `OnceInv` and `PairInv`. `OnceInv`: a handshake of such an fd is in one of the `Spots` at most (the phone, its stream, the box of a service, `_readyFd`, a room), so that no second pair ever holds the fd. `PairInv`: what `_leftFdMap` knows is the pair of a room that exists, and a room that has begun and is not over has both entries. A late copy of a `Connect` makes an agent but no handshake, so that copies are no exception |
| `CoversUnshared`, `Covers` | such a room, once it is covered, is so until it leaves the map; `Covers`: `StaysCovered`, if `MaxConnects = 1` | the same `FoundInv`. `Watched`: an fd has an agent or its `OnDisconnect` is in the box of the lobby. The gate sends that in the step in which it drops the agent; when the lobby takes it out, `FoundUnshared` says that it finds the room, and then the room is not established any more |
| `EndedOnce` (ConnectionProofs) | `[]OneEnd` | `EndInv`: each use of `Disconnect` counts one end and leaves nothing connected |
| `OnlineEnded` | `[]OnlineHasEnd` | inductive as it is |
| `NotHasty` | `HeartbeatNotHasty` | `BeatInv`: while the flag is down the timer has counted no more updates than have been silent |
| `OneEach` | `[]ErrorEndsOne` | `ErrorInv`: ends by errors, callbacks that are about to raise the flag, and the flag itself are together no more than the errors so far |
| `Windows` | `[]WindowsFit` | `KcpInv`: there is a list of the fragments sent so far, and one of where each message begins, which say of every segment anywhere what it carries (`Joined`). A number is turned back into a place in that list by `At`, and `DiffAt` says that within half a word `_itimediff` is the difference of places, over the wrap or not; after that no step speaks of remainders. `SendInv`: what is in `snd_buf` is in order and genuine; `RecvInv`: what is held is genuine, in the window and once; `Covered`: what has a number and has not come to the receiver is in `snd_buf`; `Told`: what any datagram says, however late, was so when it was filled and has only become more true. `snd_una` is at most a window beyond `rcv_nxt`, as the segment a window beyond cannot have come and is in `snd_buf` if it has a number |
| `ConnectionIsStream` | `KcpSpec => Abstract!Spec`: the ends implement `Stream` | the same `KcpInv`: what waits in `rcv_queue` is the next of the fragments sent (`Laid`), so that the fragment numbered 0 ends a whole message (`HeadIs`) and `Recv` takes the next one; every other step is a `Put` or leaves `sent` and `got` alone (`Steps`) |
| `OneLiveScene`, `Turns`, `Scores`, `Connections` (MatchProofs) | `[]LiveScene`, `[]ShotCycle`, `[]ScoresFit`, `[]ConnectionFits` | one invariant, `Stage`: which of ten places the game is in (opening, waiting, matched, counting, playing, won and so on) and all that is on the screen, to come and connected there. No variable of the code says where the game is; each handler leads from a place to a place |
| `AlwaysEnds` (BrickProofs) | `[]NeverStuck` | `StuckInv`: a state that waits for a sequence was entered with it and keeps one |
| `ResetSafe` | `[]ResetFindsNormal` | `RestInv`: after the end of a match no Elast begins, so one that still runs has at most `ElastTime - since` to go, and `Reset` comes when that is negative |
| `RestedStart` | `StartsAtRest` | `BreakInv`: a cool-down that is left after the end is over in time, one that `Reset` ends included |
| `OneQueueOnePlace` (ServiceProofs) | `[]OnePlace` | `IInv`, by counting: a step moves one thread, and what it takes from one place of a queue it adds to another. Per context, `PlaceInv`: the places a queue may be in are together one, or none of them and then it has no message. Around it stand `TableInv` (each context is in the slot of its handle, or of the one it is to learn), `CallInv` (a callback is in one call at a time, and only the launcher launches) and `LoopInv` |
| `CountedReferences` | `[]Lifetimes` | the same `IInv`. `RefInv`: `ref` is the table's reference and those of the threads; `AliveInv`, `RelInv`: who gives back the last one, and nobody else, deletes; `LifeOfCounts`: so whoever has one finds the context there. `StartInv`: no worker is at a context that is not `init` yet. The table needs lemmas on remainders: after doubling, a handle that had its slot to itself still has it |
| `OneWorkerUses` | `[]UsedWhileAlive`, with one worker | `KeptInv`: from the moment a context has its handle until the launcher has done with it, the launch that failed excepted, it is in the table, whose reference keeps it (`KeptAlive`). Only a worker takes a context out of the table, and the one worker is the launcher (`Alone`), which is in one call at a time and does so in a failed launch alone |
| `ServesBoxes` | `Spec => Boxes!Spec`: the threads implement `Mailbox` | each step of a thread is a step of the boxes or leaves them alone, under `IInv` and `BoxInv`: a queue that is not made yet has no messages, and an error under way comes from the queue its thread drops, so that no two are the same. A `Take` needs what `IInv` says of the one worker at a service and of its init, a `Die` that nobody refers to it, a `Close` what the table says |
| `MessagesWhole` (SocketProofs) | `[]WholeMessages` | `Inv`, about all the bytes of a socket in the order in which they are to be written: those on the wire, the rest of a direct write, the high list, the low list. They are whole messages (`Streams`); a step moves bytes along them or puts a new message where none is begun. New it is by `Fresh`: a message is in one call, in one request or among the bytes of one socket. A direct write finds none begun by `Locks`: one thread holds the lock, and what it has checked still holds when it writes, though the lists may have grown since. `Opening`, `Unknown`, `Lives` and `Protocols` say how far the life of a socket has come, so that no request meets a socket before it is open |
| `FlushedBeforeClose` | `[]FlushBeforeClose` | the same `Inv`. `Dues`: a message that is due is among the bytes or in the pipe, and behind a request to close there is none that is due; a half-closed socket has all of them among its bytes, and is closed when these are written |
| `InTime` (TimerProofs) | `[]DueOnTime` | `Inv`: each node stands in the list that `add_node` would choose for it now. `Stays`: one tick later that is so still for every list but the one `timer_shift` moves, which is division with a remainder, and for the wrap that no timeout is half the counter or more (`Far`). So the list of the current tick holds what is due and nothing else (`Due`), and no timer is on its way when the lock is given back |
| `InTurn` | `InOrder` | the same `Inv`: what expires in one tick is in one list, in the order in which it was set (`Ordered`); a list that moves meets none of the same tick in the list it moves to, but what was moved before |
| `NothingMissed` | when `timer_update` begins, the list of the tick is empty | the same `Inv`; it is why `Shift` may ask for it, and also why `ExecuteOn` never takes off a list again |

They hold for every value of the constants that satisfies the modules' assumptions: any number of players and
any intervals in `Lockstep` (its code has two players, and `Short` assumes two), any finite set of fds each used by any
number of phones (by one in `Found` and `Covers`), any `max_client`, any number of rooms, late copies, connections, datagrams, errors, frames, inputs
under way, any `scoreMax`; any number of workers of any weights, of other threads, of services, messages and slots
in `Service`; any number of threads, sockets and messages, and messages of any size, in `Socket`; in `Timer` any size of `near` and
any size of the levels from two lists on, any number of timers and any timeouts;
in `Kcp` any window, word and first number, any messages and any number of datagrams under way, lost and doubled. The assumptions that say something of the code: one service launches others
(`Launchers` has at most one member), as the game's launcher does, and with two the
table really breaks (`launches`); `OneWorkerUses` alone takes one worker, as `src/config` asks for; the first services fit into the first table;
in `Kcp` the numbers of one connection, with a window more, stay within half a word (`2 * (MaxSegments + Wnd) <= Word`;
the word is 2^32 and a connection lasts for one match), and no message has more fragments than the window (see section 5);
`WaitingInterval > 2`; `MaxFrame`, the bounds and `play_interval` are natural numbers; an Elast is shorter than
the time from the end of a match to the reset of the field (result, Back, `Clear`, two seconds of camera, as `ExitGame.asset` says), and
a cool-down shorter than the time from there to the next start.

Only checked by TLC:

* liveness (`Progress`, `RoomCloses`, `SilenceEnds`, `MatchIsLeft`, `ReadyAgain`, the liveness of `Mailbox` and
  `Stream`), which is out of the provers' reach;
* `RoomFound` and `StaysCovered` of rooms whose fds are used a second time. They are proved for all others, and cannot
  be proved beyond: with every fd used twice and two rooms, TLC finds 49 steps after which `RoomFound` is wrong.
  Both players come back from their old fds while the room of their first pair, `<<a, b>>`, is still being launched;
  they are matched again, as `<<b, a>>`, and `_leftFdMap` has kept an entry of the first pair;
* the fairness in `ImplementsMailbox` and `ImplementsStream`: that each message is taken, and that each comes out.

## 5. What the code does that one might not expect

One run shows code that contradicts what it says of itself:

* **The table of services, doubled while two threads launch** (`launches`). `skynet_handle_register` puts each
  context where its `handle` says and asserts that the place is free (`skynet_handle.c:60`), but a context gets its
  `handle` only after the call has returned (`skynet_server.c:155`). With two threads launching, one may double the
  table while the other's context still has handle 0. The game has one worker (`thread = 1` in
  `src/config`) and launches its services one after the other through the one launcher, so it does not meet this.

The other properties are stated for what the code does. In modelling it we met:

* **A launched service that ends at once.** `skynet_context_new` gives its reference back and goes on with the context: it sets
  `init`, reads the handle for the log after the queue is in the global one (`skynet_server.c:164-171`), and `cmd_launch` reads it again
  (`skynet_server.c:494`). Only the table's reference keeps the context by then. With more workers than one it may be
  gone: TLC finds a trace of 22 steps, with two workers, in which the new service ends itself while its launcher is about to read
  (`UsedWhileAlive`), and with a third service one that kills it before `init` is set. With one worker, as in the game, nobody
  can end it meanwhile (`OneWorkerUses`). `Lifetimes` speaks of those who have a reference and holds for any number of workers;
  a write to a context that is gone changes nothing but its own `init` in `Service`.
* **Short frames.** A timeout stays after both inputs have played its frame. It fires in the next one, and
  plays that if one input is there, although `play_interval` is not over. `ShortFrameNeedsStaleTimer` says that
  nothing else shortens a frame.
* **Rooms nobody closes.** `NewRoom` is suspended while the room is launched. A disconnect handled then finds the
  pair but no room and is dropped; the room is established later, with one player, and stays. `RoomCloses`
  therefore speaks of rooms that were covered, and `StaysCovered` says that no room becomes like that later.
* **Agents of nobody.** A late copy of a `Connect` segment makes an agent that answers nothing, until the
  heartbeat drops it; if an agent of the kind takes the place of a phone's own, that phone stays waiting until its
  own heartbeat ends.
* **A flag for the next connection.** The callback may set `willDisconnect` after the connection has ended
  otherwise; it then ends the next one (`ErrorEndsOne`: one for each error, not always the right one).
* **A phone that stands still.** If `Update` disconnects and then dispatches a `Start` it had received,
  `OnStart` clears `exitCode` again: the phone is online without a connection and waits for a PlayData.
  `OnlineHasEnd` and `MatchIsLeft` name that exception, `lateStart`.
* **No timeout for Connect.** The heartbeat timer starts with the answer; without one, only Cancel ends it.
* **Two Elasts.** In PVP a second Elast on top of the first is normal: the drag was checked before the first one's
  input came back. Its cool-downs then overlap, and the first one ends both.
* **`willReset` is never cleared**, and only the duration of the result screen keeps it from being set.
* **`Timer.Enter(0)`** keeps the `max` of the call before it, so a `Clear` without a time waits as long as the last one.
* **Help** looks at the mouse itself: a second click while it shrinks makes a second set of buttons.
  `LeaveHelp` is one step in `Match`, so that this is not in the model.
* **A message larger than the window.** `ikcp_send` refuses messages of more than 255 fragments, but a message of more
  fragments than the receiver's window (`lkcp_wndsize(128, 128)`) is never complete there and blocks the stream.
  `Kcp` assumes `MaxFrags <= Wnd`; the game's messages are far smaller.
* **Late datagrams and the window.** Each segment carries the window, and an old one sets `rmt_wnd` back, even to 0.
  Only the probe recovers from that: without `WASK` and `WINS` the stream stops (`ImplementsStream` finds it).
  `snd_una` may also run ahead of what the other end has counted as come, by acknowledgements of segments it holds;
  `WindowsFit` says how far.
* **A dead link** sets `state` and nothing else: KCP goes on sending. The game ends a connection by its own heartbeat.
* **A half-closed socket that stays.** `close_socket` keeps a socket half closed if `sending` counts messages in the
  pipe; these are dropped when they come, and if nothing is left to be written no event comes that closes it
  (`socket_server.c:918`) until the peer does.
* **Order of messages on a socket.** A thread that finds both lists empty may write directly while another's message
  is still in the pipe, so `WholeMessages` claims no order between messages of two senders.

## 6. What is not modelled

* The physics engine (Jitter), DOTween, the Lua interpreter, JSON, sproto, jemalloc: vendored; each is what
  the code relies on. They are most of the lines of this repository, and why the share of it that is mapped is small.
* Of skynet: the names of services, the monitor, profiling, the log, nodes behind a harbor (`harbor = 0`), sessions
  and coroutine pools on the Lua side. Of sockets: those that listen, accept or are bound, `udp_connect`, options and
  the reuse of one of the 65536 slots; the game opens one UDP socket. `Socket` asks for the close of a socket once, while
  `lualib/skynet/socket.lua` may do so twice (line 68, when its buffer overflows, and then line 232). `FlushBeforeClose` does not depend
  on that: the second request finds the socket closed, or half closed with what was due still to be written.
* Of KCP: the estimate of the round trip, congestion control (switched off in `agent.lua`), stream mode and the cut of a
  flush into datagrams of an mtu. `3rd/KCP.cs` is a port of the same code and is not modelled apart.
* The motion of ball and bricks, walls, shaking, the AI's aim, the rate: floating-point values which no
  control depends on, but for `bounds.Contains`, a free choice in `Brick`.
* Contacts of colliders (`Collider.cs`, `World.cs`) and the order of `UpdateEvent`.
* `kcp.Input` on a thread of the pool while `Update` uses the same object without a lock: what that does to KCP's
  lists is not defined by the code here. `Client` lets the steps interleave and keeps each of them whole.
* How many iterations `updateTimer` gives a display frame; the models allow any number.
* Texts, sounds, colours, vibration, the device models and logs; the scripts of deployment.
* The periods of the two heartbeats against each other; in `Gate` any phone may be found silent at any time.

## 7. What is left

1. Contacts: `Collider` and `World` with Enter, Stay and Exit while the ball is switched off and on again; what
   of a contact is left in the map when the ball is enabled anew.
2. `lualib/skynet.lua` between `Service` and `Skynet`: sessions, the error that answers a call to a service that is
   gone, so that `Skynet`'s calls become what `Mailbox` and the sessions implement.
3. An fd that is used twice in a whole `Server`: a kick that meets the next phone at the address; the heartbeats of phone
   and gate in time over KCP.
