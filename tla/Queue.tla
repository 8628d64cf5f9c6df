------------------------------- MODULE Queue -------------------------------
(***************************************************************************)
(* The queue (Server/src/service/queue.lua): it keeps the fd of a phone    *)
(* that waits for an opponent and sends it to the lobby with the next one. *)
(* OnHandshake suspends in its call to the gate and the queue goes on with *)
(* other messages meanwhile.                                               *)
(***************************************************************************)
EXTENDS Skynet

VARIABLE readyFd   \* _readyFd

QueueTypeOK == readyFd \in Fds \cup {NoFd}

QueueInit == readyFd = NoFd

QueueOnHandshake ==
  /\ Heads("queue", "OnHandshake")
  /\ mbox' = SentTo(Taken("queue"), "gate",
                    <<Request("CheckAgent.queue", <<Head(mbox["queue"]).fd>>)>>)
  /\ UNCHANGED readyFd

\* Faulty form of QueueChecked: the gate's answer is not looked at.
CheckedBlindly ==
  /\ Heads("queue", "checked")
  /\ LET f == Head(mbox["queue"]).fds[1]
     IN  IF readyFd = NoFd
           THEN mbox' = Taken("queue") /\ readyFd' = f
           ELSE /\ mbox' = SentTo(Taken("queue"), "lobby",
                                  <<Request("NewRoom", <<readyFd, f>>)>>)
                /\ readyFd' = NoFd

\* OnHandshake resumed with the gate's answer.
QueueChecked ==
  /\ Heads("queue", "checked")
  /\ LET f == Head(mbox["queue"]).fds[1]
     IN  IF ~Head(mbox["queue"]).ok
           THEN mbox' = Taken("queue") /\ UNCHANGED readyFd
         ELSE IF readyFd = NoFd
           THEN mbox' = Taken("queue") /\ readyFd' = f
           ELSE /\ mbox' = SentTo(Taken("queue"), "lobby",
                                  <<Request("NewRoom", <<readyFd, f>>)>>)
                /\ readyFd' = NoFd

\* Faulty form of QueueOnDisconnect: any disconnect empties _readyFd.
ForgetsAnyone ==
  /\ Heads("queue", "OnDisconnect")
  /\ mbox' = Taken("queue")
  /\ readyFd' = NoFd

QueueOnDisconnect ==
  /\ Heads("queue", "OnDisconnect")
  /\ mbox' = Taken("queue")
  /\ readyFd' = IF readyFd = Head(mbox["queue"]).fd THEN NoFd ELSE readyFd

QueueStep == QueueOnHandshake \/ QueueChecked \/ QueueOnDisconnect
=============================================================================
