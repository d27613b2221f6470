---------------------------- MODULE ServerConnect ----------------------------
(***************************************************************************)
(* One accepted connection: ServerConnect (rpc/rpc_server_connect.cpp) on  *)
(* its MessageStream / SocketStream (mio/mio_message_stream.cpp,           *)
(* mio/mio_socket_stream.cpp), the poller, and the peer.                   *)
(*                                                                         *)
(* Requests are numbered in the order in which the peer sends them, as     *)
(* their Seq headers are.  A request and a response are two halves each,   *)
(* so that one can be read or written in part: <<r, h>> is half h of       *)
(* request r, <<seq, st, h>> half h of a response with that Seq and status.*)
(* The service's method runs inside the handler (CallMethod returns before *)
(* the answer is made), one pass of the handler at a time (IOEvent.tla).   *)
(***************************************************************************)
EXTENDS FiniteSets, SequencesExt, StreamPoller

CONSTANTS N,             \* bound: requests the peer sends
          MaxUnanswered, \* bound: requests the peer has under way at once
          MaxEagain      \* bound: how often the send buffer fills up

ASSUME ServerAssumption == {N, MaxUnanswered, MaxEagain} \subseteq Nat

Requests == 1..N

\* What becomes of a request: the list page; a call that is answered; a
\* malformed or oversized header; an unknown method; a body that does not
\* parse; a method that sets Failed().
Kinds == {"list", "call", "bad", "notfound", "unparsable", "failed"}

VARIABLES
  sent, kind,      \* requests begun by the peer, and what they are
  begun,           \* the second half of request sent is still to come
  inbox,           \* halves in the socket's receive buffer
  received,        \* halves of responses that the peer has
  link, room, eagain,
  readbuf, writebuf,
  pending,         \* ServerConnect::pending, a controller named by its request
  sendsize,        \* RpcServerController::_res_send_size
  ctl,             \* a controller's life: "none", "live" or "deleted"
  undefined,       \* a deleted controller was used or deleted again
  isConnected, isClosed, closeWhenEmpty,
  tasks, moved, interest, armed, raised,   \* as in RpcChannel
  hpc, hmask,
  piped, full      \* the peer has pipelined; a response did not fit writebuf

peerVars == <<sent, kind, begun, received, piped>>
netVars == <<link, room, eagain>>
connVars == <<pending, sendsize, ctl, undefined, full>>
flagVars == <<isConnected, isClosed>>
epollVars == <<moved, interest, armed, raised>>
handlerVars == <<hpc, hmask>>
vars == <<peerVars, inbox, netVars, readbuf, writebuf, connVars, flagVars, closeWhenEmpty,
          tasks, epollVars, handlerVars>>

\* OnAccept and Start: the stream is about to be added with a read interest.
Init ==
  /\ sent = 0 /\ kind = [r \in Requests |-> "none"] /\ begun = FALSE /\ received = <<>> /\ piped = FALSE
  /\ inbox = <<>> /\ link = "up" /\ room = TRUE /\ eagain = 0
  /\ readbuf = <<>> /\ writebuf = <<>>
  /\ pending = <<>> /\ sendsize = [r \in Requests |-> 0]
  /\ ctl = [r \in Requests |-> "none"] /\ undefined = FALSE /\ full = FALSE
  /\ isConnected = FALSE /\ isClosed = FALSE /\ closeWhenEmpty = FALSE
  /\ tasks = <<"AddR">> /\ moved = 0 /\ interest = "none" /\ armed = FALSE /\ raised = {}
  /\ hpc = "idle" /\ hmask = {}

PostTasks(ts) == tasks' = tasks \o ts
-----------------------------------------------------------------------------
(* The poller.                                                             *)

\* The next task, see InTmp.
ProcessPendingTask ==
  /\ tasks # <<>>
  /\ tasks' = Tail(tasks)
  /\ moved' = InTmp(tasks, moved) - 1
  /\ LET p == Execute([interest |-> interest, armed |-> armed, rtimer |-> FALSE, wtimer |-> FALSE],
                      Head(tasks))
     IN  interest' = p.interest /\ armed' = p.armed
  /\ UNCHANGED <<peerVars, inbox, netVars, readbuf, writebuf, connVars, flagVars,
                 closeWhenEmpty, raised, handlerVars>>

\* What epoll reports for the stream (EventToMask).
ReadyMask ==
     {b \in {"READ"} : inbox # <<>> \/ link \in {"fin", "rst"}}
  \cup {b \in {"WRITE"} : interest = "RW" /\ (room \/ link = "rst")}
  \cup {b \in {"CLOSE", "ERR"} : link = "rst"}

Report ==
  /\ armed /\ moved = 0
  /\ armed' = FALSE
  /\ raised' = raised \cup ReadyMask
  /\ UNCHANGED <<peerVars, inbox, netVars, readbuf, writebuf, connVars, flagVars,
                 closeWhenEmpty, tasks, moved, interest, handlerVars>>
-----------------------------------------------------------------------------
(* Sending.                                                                *)

Response(seq, st) == <<<<seq, st, 1>>, <<seq, st, 2>>>>

\* The Seq of an error header: that of the response being sent, or 0.
FrontSeq == IF pending = <<>> THEN 0 ELSE Head(pending)

OnMessageError_StaysOpen(seq) ==
  /\ writebuf' = writebuf \o Response(seq, "ERR")
  /\ PostTasks(<<"ModRW">>)
  /\ UNCHANGED closeWhenEmpty

\* OnMessageError appends an error header and has the stream closed once it is
\* written; pending keeps its controllers ("defer release the cntl").
OnMessageError(seq) ==
  /\ writebuf' = writebuf \o Response(seq, "ERR")
  /\ PostTasks(<<"ModRW">>)
  /\ closeWhenEmpty' = TRUE

\* SendMessage: behind another response the controller is only queued; else
\* the response is serialised, and if it does not fit, the controller is
\* deleted but stays in pending.
SendMessage(r) ==
  /\ pending' = Append(pending, r)
  /\ \/ /\ pending # <<>>
        /\ PostTasks(<<"ModRW">>)
        /\ ctl' = [ctl EXCEPT ![r] = "live"]
        /\ UNCHANGED <<writebuf, closeWhenEmpty, full>>
     \/ /\ pending = <<>>
        /\ writebuf' = writebuf \o Response(r, "OK")
        /\ PostTasks(<<"ModRW">>)
        /\ ctl' = [ctl EXCEPT ![r] = "live"]
        /\ UNCHANGED <<closeWhenEmpty, full>>
     \/ /\ pending = <<>>
        /\ OnMessageError(r)
        /\ ctl' = [ctl EXCEPT ![r] = "deleted"]
        /\ full' = TRUE

\* _res_pack_size is not set for the list page.
PackSize(r) == IF kind[r] = "list" THEN 0 ELSE 2

AllSent_Always(r, size) == size > 0

\* Whether the response is complete after so many halves were written.
AllSent(r, size) == size >= PackSize(r)

PendingRest_Kept == pending

PendingRest == Tail(pending)

\* OnMessageSended after n halves were written.  The next response is handed
\* to SendMessage while it is still in pending, which queues it once more.
OnMessageSended(n, after) ==
  LET r == Head(pending)
      size == sendsize[r] + n
  IN  \/ /\ pending = <<>>
         /\ PostTasks(<<"ModR">> \o after)
         /\ UNCHANGED connVars
      \/ /\ pending # <<>> /\ closeWhenEmpty
         /\ PostTasks(after)
         /\ UNCHANGED connVars
      \/ /\ pending # <<>> /\ ~closeWhenEmpty
         /\ sendsize' = [sendsize EXCEPT ![r] = size]
         /\ undefined' = (ctl[r] = "deleted")
         /\ IF AllSent(r, size)
            THEN /\ ctl' = [ctl EXCEPT ![r] = "deleted"]
                 /\ pending' = PendingRest \o (IF Len(pending) > 1 THEN <<pending[2]>> ELSE <<>>)
                 /\ PostTasks((IF Len(pending) > 1 THEN <<"ModRW">> ELSE <<"ModR">>) \o after)
            ELSE /\ PostTasks(after)
                 /\ UNCHANGED <<pending, ctl>>
         /\ UNCHANGED full
-----------------------------------------------------------------------------
(* SocketStream::OnEvent.                                                  *)

HGoto(pc) == hpc' = pc /\ UNCHANGED hmask
HContinue(i) == HGoto(PhaseAfter(i, hmask))
HEnd == hpc' = "idle" /\ hmask' = {}

\* The head of OnEvent; OnConnect fails if the peer's address is gone.
OnEvent ==
  /\ hpc = "idle" /\ raised # {}
  /\ raised' = {}
  /\ \/ /\ isClosed
        /\ UNCHANGED <<hpc, hmask, isConnected>>
     \/ /\ ~isClosed /\ raised \cap {"CLOSE", "ERR"} # {}
        /\ hpc' = IF "CLOSE" \in raised THEN "tail" ELSE "close"
        /\ hmask' = {"CLOSE"}
        /\ UNCHANGED isConnected
     \/ /\ ~isClosed /\ raised \cap {"CLOSE", "ERR"} = {}
        /\ isConnected \/ link # "rst"
        /\ hpc' = PhaseAfter(0, raised) /\ hmask' = raised
        /\ isConnected' = TRUE
     \/ /\ ~isClosed /\ raised \cap {"CLOSE", "ERR"} = {}
        /\ ~isConnected /\ link = "rst"
        /\ hpc' = "close" /\ hmask' = raised
        /\ UNCHANGED isConnected
  /\ UNCHANGED <<peerVars, inbox, netVars, readbuf, writebuf, connVars, isClosed,
                 closeWhenEmpty, tasks, moved, interest, armed>>

\* OnReadable reads until EAGAIN; at an end of file or an error it returns -1
\* without having processed what it read.
OnReadable ==
  /\ hpc = "READ"
  /\ inbox' = <<>>
  /\ readbuf' = readbuf \o inbox
  /\ \/ /\ link \in {"fin", "rst"}
        /\ hmask' = hmask \cup {"CLOSE"} /\ hpc' = PhaseAfter(1, hmask)
     \/ /\ link = "up" /\ inbox = <<>> /\ HContinue(1)
     \/ /\ link = "up" /\ inbox # <<>> /\ HGoto("recv")
  /\ UNCHANGED <<peerVars, netVars, writebuf, connVars, flagVars, closeWhenEmpty, tasks,
                 epollVars>>

\* The request parser skips what stands before a method name: the rest of a
\* body that nobody consumed.
Unskipped == IF readbuf # <<>> /\ Head(readbuf)[2] = 2 THEN Tail(readbuf) ELSE readbuf

\* OnRecived: the header or the body is not complete yet.
RecvHalf ==
  /\ hpc = "recv"
  /\ Unskipped = <<>> \/ (Len(Unskipped) = 1 /\ kind[Unskipped[1][1]] # "bad")
  /\ readbuf' = Unskipped
  /\ HContinue(1)
  /\ UNCHANGED <<peerVars, inbox, netVars, writebuf, connVars, flagVars, closeWhenEmpty, tasks,
                 epollVars>>

\* OnRecived: the header is malformed or announces too long a body.  The
\* parser is not reset, so that every further read meets the same error.
RecvBad ==
  /\ hpc = "recv"
  /\ Unskipped # <<>> /\ kind[Unskipped[1][1]] = "bad"
  /\ readbuf' = Unskipped
  /\ OnMessageError(FrontSeq)
  /\ undefined' = (pending # <<>> /\ ctl[FrontSeq] = "deleted")
  /\ HContinue(1)
  /\ UNCHANGED <<peerVars, inbox, netVars, pending, sendsize, ctl, full, flagVars, epollVars>>

\* A whole request is in readbuf.  It is parsed up to the end of readbuf, so
\* a request behind it makes the parse fail or is swallowed.  OnRecived goes
\* on with what is left unless the stream is to be closed.
OnMessageRecived ==
  /\ hpc = "recv"
  /\ LET b == Unskipped
         r == b[1][1]
         alone == Len(b) = 2
         rest(k) == SubSeq(b, k, Len(b))
     IN  /\ Len(b) >= 2 /\ kind[r] # "bad"
         /\ \/ /\ kind[r] = "list"
               /\ readbuf' = rest(3)
               /\ SendMessage(r)
               /\ UNCHANGED undefined
            \/ /\ kind[r] = "call"
               /\ readbuf' = <<>>
               /\ SendMessage(r)
               /\ UNCHANGED undefined
            \/ /\ kind[r] \in {"notfound", "unparsable", "failed"} \/ (kind[r] = "call" /\ ~alone)
               /\ readbuf' = CASE kind[r] = "failed" -> <<>>
                               [] kind[r] = "call" -> rest(4)
                               [] OTHER -> rest(2)
               /\ OnMessageError(FrontSeq)
               /\ undefined' = (pending # <<>> /\ ctl[FrontSeq] = "deleted")
               /\ ctl' = IF kind[r] = "failed" THEN [ctl EXCEPT ![r] = "deleted"] ELSE ctl
               /\ UNCHANGED <<pending, full>>
  /\ IF readbuf' = <<>> \/ closeWhenEmpty' THEN HContinue(1) ELSE HGoto("recv")
  /\ UNCHANGED <<peerVars, inbox, netVars, sendsize, flagVars, epollVars>>

Unsent_OffByOne(n) == SubSeq(writebuf, n, Len(writebuf))

\* What is left of writebuf after n halves (MoveSendPtr).
Unsent(n) == SubSeq(writebuf, n + 1, Len(writebuf))

\* OnWriteable: an empty writebuf gives up the write interest; else n halves
\* are written, and if that is not everything the send buffer is full.
OnWriteable ==
  /\ hpc = "WRITE"
  /\ \/ /\ writebuf = <<>>
        /\ PostTasks(<<"ModR">>)
        /\ HContinue(2)
        /\ UNCHANGED <<received, room, eagain, writebuf, connVars>>
     \/ /\ writebuf # <<>> /\ link = "rst"
        /\ hmask' = hmask \cup {"CLOSE"} /\ hpc' = PhaseAfter(2, hmask)
        /\ UNCHANGED <<received, room, eagain, writebuf, connVars, tasks>>
     \/ /\ writebuf # <<>> /\ link # "rst" /\ ~room
        /\ HContinue(2)
        /\ UNCHANGED <<received, room, eagain, writebuf, connVars, tasks>>
     \/ /\ writebuf # <<>> /\ link # "rst" /\ room
        /\ \E n \in 1..Len(writebuf) :
              /\ n < Len(writebuf) => eagain < MaxEagain
              /\ room' = (n = Len(writebuf))
              /\ eagain' = IF n < Len(writebuf) THEN eagain + 1 ELSE eagain
              /\ received' = received \o SubSeq(writebuf, 1, n)
              /\ writebuf' = Unsent(n)
              /\ OnMessageSended(n, IF n = Len(writebuf) THEN <<"ModR">> ELSE <<>>)
        /\ HContinue(2)
  /\ UNCHANGED <<sent, kind, begun, piped, inbox, link, readbuf, flagVars, closeWhenEmpty, epollVars>>

\* The end of OnEvent: close, close once writebuf is empty, or return.
OnEventTail ==
  /\ hpc = "tail"
  /\ LET closing == "CLOSE" \in hmask \/ closeWhenEmpty
     IN  \/ ~closing /\ HEnd /\ UNCHANGED <<closeWhenEmpty, tasks>>
         \/ closing /\ writebuf = <<>> /\ HGoto("close") /\ UNCHANGED <<closeWhenEmpty, tasks>>
         \/ closing /\ writebuf # <<>> /\ HEnd /\ closeWhenEmpty' = TRUE /\ PostTasks(<<"ModRW">>)
  /\ UNCHANGED <<peerVars, inbox, netVars, readbuf, writebuf, connVars, flagVars, epollVars>>

Released == ToSet(pending)

\* OnClose deletes what is pending, one entry after the other, and the
\* ServerConnect itself; the event is taken out of epoll.
OnClose ==
  /\ hpc = "close"
  /\ isClosed' = TRUE /\ isConnected' = FALSE
  /\ undefined' = (~IsInjective(pending) \/ \E r \in ToSet(pending) : ctl[r] = "deleted")
  /\ ctl' = [r \in Requests |-> IF r \in Released THEN "deleted" ELSE ctl[r]]
  /\ pending' = <<>>
  /\ PostTasks(<<"Del">>)
  /\ HEnd
  /\ UNCHANGED <<peerVars, inbox, netVars, readbuf, writebuf, sendsize, full, closeWhenEmpty,
                 epollVars>>
-----------------------------------------------------------------------------
(* The peer and the network.                                               *)

\* An edge for epoll; a closed connection is not followed.
Wake == ~isClosed /\ armed' = (interest # "none")

Responses == Cardinality({i \in DOMAIN received : received[i][3] = 2})

\* The peer sends the first half of a request; it is pipelining if an earlier
\* one has no response yet.
PeerBegins(k) ==
  /\ link = "up" /\ ~begun /\ sent < N
  /\ sent - Responses < MaxUnanswered
  /\ sent' = sent + 1 /\ begun' = TRUE
  /\ kind' = [kind EXCEPT ![sent + 1] = k]
  /\ piped' = (piped \/ Responses < sent)
  /\ inbox' = Append(inbox, <<sent + 1, 1>>)
  /\ Wake
  /\ UNCHANGED <<received, netVars, readbuf, writebuf, connVars, flagVars, closeWhenEmpty,
                 tasks, moved, interest, raised, handlerVars>>

PeerFinishes ==
  /\ link = "up" /\ begun
  /\ begun' = FALSE
  /\ inbox' = Append(inbox, <<sent, 2>>)
  /\ Wake
  /\ UNCHANGED <<sent, kind, received, piped, netVars, readbuf, writebuf, connVars, flagVars,
                 closeWhenEmpty, tasks, moved, interest, raised, handlerVars>>

\* The peer closes its side, or resets the connection.
PeerEnds(how) ==
  /\ link = "up" \/ (link = "fin" /\ how = "rst")
  /\ link' = how
  /\ Wake
  /\ UNCHANGED <<peerVars, inbox, room, eagain, readbuf, writebuf, connVars, flagVars,
                 closeWhenEmpty, tasks, moved, interest, raised, handlerVars>>

\* The send buffer drains.
Drain ==
  /\ ~room /\ link # "rst"
  /\ room' = TRUE
  /\ Wake
  /\ UNCHANGED <<peerVars, inbox, link, eagain, readbuf, writebuf, connVars, flagVars,
                 closeWhenEmpty, tasks, moved, interest, raised, handlerVars>>
-----------------------------------------------------------------------------
HandlerStep == \/ OnEvent \/ OnReadable \/ RecvHalf \/ RecvBad \/ OnMessageRecived
               \/ OnWriteable \/ OnEventTail \/ OnClose
PeerStep == \/ \E k \in Kinds : PeerBegins(k)
            \/ PeerFinishes \/ Drain
            \/ \E how \in {"fin", "rst"} : PeerEnds(how)

\* What follows the use of a deleted controller is undefined.
Next == ~undefined /\ (ProcessPendingTask \/ Report \/ HandlerStep \/ PeerStep)

Spec == Init /\ [][Next]_vars
-----------------------------------------------------------------------------
(* Properties.                                                             *)

\* The types of the connection's state and of its poller's view of the stream.
TypeOK ==
  /\ sent \in 0..N /\ kind \in [Requests -> Kinds \cup {"none"}]
  /\ {inbox, readbuf} \subseteq Seq(Requests \X {1, 2})
  /\ {received, writebuf} \subseteq Seq((0..N) \X {"OK", "ERR"} \X {1, 2})
  /\ link \in {"up", "fin", "rst"} /\ eagain \in 0..MaxEagain
  /\ pending \in Seq(Requests) /\ sendsize \in [Requests -> Nat]
  /\ ctl \in [Requests -> {"none", "live", "deleted"}]
  /\ {begun, piped, full, undefined, room, armed, isConnected, isClosed, closeWhenEmpty}
        \subseteq BOOLEAN
  /\ tasks \in Seq({"AddR", "ModR", "ModRW", "Del"}) /\ moved \in 0..Len(tasks)
  /\ interest \in {"none", "R", "RW"}
  /\ raised \cup hmask \subseteq {"READ", "WRITE", "CLOSE", "ERR"}

\* Nothing is left to happen without the peer.
AtRest == tasks = <<>> /\ ~armed /\ raised = {} /\ hpc = "idle" /\ room

IsAnswer(h) == h[2] = "OK" /\ h[3] = 2

\* Answers reach the peer in the order of their requests and each of them
\* once, whatever is cut by a full send buffer, pipelined, queued or followed
\* by an error header.
AnswersInOrder ==
  \A i, j \in DOMAIN received :
     i < j /\ IsAnswer(received[i]) /\ IsAnswer(received[j]) => received[i][1] < received[j][1]

\* A peer that waits for the answer before it sends the next request is never
\* left waiting: at rest every whole request has its response, however the
\* reads and writes were cut, or came after an error header on a connection
\* that is now closed.  The exception is a list page that was written
\* in part: its _res_pack_size is 0, so OnMessageSended takes it for complete
\* and gives up the write interest.
LockstepAnswered ==
  AtRest /\ link = "up" /\ ~piped /\ ~begun =>
     \/ Len(received) = 2 * sent
     \/ isClosed /\ received # <<>> /\ Last(received)[2] = "ERR"
     \/ writebuf # <<>> /\ kind[writebuf[1][1]] = "list"

\* After an error header or an end of file the connection does get closed,
\* once what was in writebuf is written: at rest it is closed.
ErrorCloses ==
  AtRest /\ link # "rst"
  /\ (link = "fin" \/ closeWhenEmpty \/ \E i \in DOMAIN received : received[i][2] = "ERR")
     => isClosed

\* No controller is deleted twice or used after it is deleted, unless the peer
\* pipelines (OnMessageSended then queues a controller twice) or a response
\* does not fit the buffer (SendMessage deletes what OnClose deletes again).
ReleasedOnce == undefined => piped \/ full

\* A closed connection has deleted every controller it made.
NoLeak == isClosed => \A r \in Requests : ctl[r] # "live"

\* Every controller OnMessageRecived makes is deleted in the end, and once: the
\* two parts above, which OnMessageSended, SendMessage and OnClose share.
ControllersReleased == TypeOK /\ ReleasedOnce /\ NoLeak
=============================================================================
