----------------------------- MODULE RpcChannel -----------------------------
(***************************************************************************)
(* One client channel: RpcChannelImpl (rpc/rpc_channel_impl.cpp) on its    *)
(* ConnectStream / SocketStream (mio/mio_connect_stream.cpp,               *)
(* mio/mio_socket_stream.cpp), the poller's task list and edge-triggered   *)
(* interest, the timers, the socket and the server behind it.              *)
(*                                                                         *)
(* Threads: the users (one per call) in CallMethod; the owner in           *)
(* GetChannel, Connect and ReleaseChannel; the poller, which runs posted   *)
(* tasks in order and reports events; and the stream's handler             *)
(* SocketStream::OnEvent, one pass at a time (IOEvent.tla), cut into steps *)
(* where it touches what other threads touch: sendcall, the task list, the *)
(* flags and the life of the RpcChannelImpl.  A request or a response is   *)
(* named by its call; only whole requests and responses are told apart.    *)
(***************************************************************************)
EXTENDS FiniteSets, SequencesExt, StreamPoller

CONSTANTS Calls,    \* one call of CallMethod each
          Sync,     \* the calls made with done = NULL
          NoCall,
          Setups    \* the environments to choose from, see setup

FaultKinds == {"refused", "fin", "rst", "rtimeout", "wtimeout", "parse", "seria"}
OwnerKinds == {"waits", "releases"}

ASSUME ChannelAssumption == /\ IsFiniteSet(Calls) /\ Sync \subseteq Calls
                            /\ NoCall \notin Calls
                            /\ Setups \subseteq [calls : SUBSET Calls, faults : SUBSET FaultKinds,
                                                owner : SUBSET OwnerKinds, eagain : Nat]

VARIABLES
  setup,           \* for good: the calls that are made, the faults that may occur,
                   \* whether the owner may have to wait in Connect, whether it
                   \* releases the channel, how often the send buffer may fill up
  opc,             \* the owner; "crashed" if it used a deleted or null object
  upc,             \* each user's thread; "crashed" likewise
  connectStatus,   \* ConnectStream::_ConnectStatus
  isClosed, closeWhenEmpty,
  implDeleted,     \* OnClose has executed "delete this"
  sendcall, waitcall, donecall,
  status,          \* RpcClientController::_status, "unset" for -1
  got,             \* whose response was parsed into the call's _response
  doneRan,         \* calls whose done closure has run
  writebuf,        \* requests not yet wholly written to the socket
  readbuf,         \* responses read and not yet processed
  garbled,         \* readbuf starts inside a response that nobody consumed
  tasks,           \* Epoller::tasklist, as far as it concerns this stream,
  moved,           \* and how many of them are in ProcessPendingTask's tmp
  interest,        \* ev.events: "none" (not in the epoll set), "R" or "RW"
  armed,           \* the stream is on epoll's ready list
  rtimer, wtimer,
  raised,          \* bits in _events
  hpc, hmask,      \* the handler, and its mask
  link,            \* the connection
  room, eagain,    \* the socket's send buffer has room; how often it filled up
  peerq, inbox     \* requests at the server; responses in the receive buffer

userVars == <<opc, upc>>
streamVars == <<connectStatus, isClosed, closeWhenEmpty, implDeleted>>
callVars == <<sendcall, waitcall, donecall, status, got, doneRan>>
bufVars == <<writebuf, readbuf, garbled>>
epollVars == <<moved, interest, armed, rtimer, wtimer, raised>>
handlerVars == <<hpc, hmask>>
netVars == <<link, room, eagain, peerq, inbox>>
vars == <<setup, userVars, streamVars, callVars, bufVars, tasks, epollVars, handlerVars, netVars>>

Faults == setup.faults

Init ==
  /\ setup \in Setups
  /\ opc = "start" /\ upc = [c \in Calls |-> "idle"]
  /\ connectStatus = "FAIL"
  /\ isClosed = FALSE /\ closeWhenEmpty = FALSE /\ implDeleted = FALSE
  /\ sendcall = <<>> /\ waitcall = <<>> /\ donecall = <<>>
  /\ status = [c \in Calls |-> "unset"]
  /\ got = [c \in Calls |-> NoCall]
  /\ doneRan = {}
  /\ writebuf = <<>> /\ readbuf = <<>> /\ garbled = FALSE
  /\ tasks = <<>> /\ moved = 0 /\ interest = "none" /\ armed = FALSE
  /\ rtimer = FALSE /\ wtimer = FALSE /\ raised = {}
  /\ hpc = "idle" /\ hmask = {}
  /\ link = "none" /\ room = TRUE /\ eagain = 0 /\ peerq = <<>> /\ inbox = <<>>

PostTasks(ts) == tasks' = tasks \o ts
-----------------------------------------------------------------------------
(* The owner: GetChannel, Connect, ReleaseChannel.                         *)

\* connect() succeeds at once, is in progress, or fails; after a failure
\* _stream is NULL and GetChannel deletes the channel, whose Close uses it.
Connect(ret) ==
  /\ opc = "start"
  /\ connectStatus' = ret
  /\ \/ ret = "OK" /\ link' = "up" /\ opc' = "open" /\ PostTasks(<<"AddR">>)
     \/ ret = "IPROCESS" /\ "waits" \in setup.owner
        /\ link' = "connecting" /\ opc' = "connecting" /\ PostTasks(<<"AddRW">>)
     \/ ret = "FAIL" /\ "refused" \in Faults /\ link' = "refused" /\ opc' = "crashed"
        /\ UNCHANGED tasks
  /\ UNCHANGED <<upc, isClosed, closeWhenEmpty, implDeleted, callVars, bufVars, epollVars,
                 handlerVars, room, eagain, peerq, inbox>>

\* _stream->Wait() is over; after a failure the RpcChannelImpl is deleted
\* ("Will delete by closed") and GetChannel's delete channel uses it.
ConnectReturns ==
  /\ opc = "connecting" /\ connectStatus # "IPROCESS"
  /\ opc' = IF implDeleted THEN "crashed" ELSE "open"
  /\ UNCHANGED <<upc, streamVars, callVars, bufVars, tasks, epollVars, handlerVars, netVars>>

\* ReleaseChannel -> ~RpcChannel -> Close, when no thread is inside CallMethod.
CloseFlag ==
  /\ opc = "open" /\ "releases" \in setup.owner
  /\ \A c \in Calls : upc[c] \in {"idle", "returned"}
  /\ \/ implDeleted /\ opc' = "crashed" /\ UNCHANGED closeWhenEmpty
     \/ ~implDeleted /\ isClosed /\ opc' = "released" /\ UNCHANGED closeWhenEmpty
     \/ ~implDeleted /\ ~isClosed /\ opc' = "closing" /\ closeWhenEmpty' = TRUE
  /\ UNCHANGED <<upc, connectStatus, isClosed, implDeleted, callVars, bufVars, tasks,
                 epollVars, handlerVars, netVars>>

\* Close, second half: ModEventAsync through _stream and _poller.
CloseMod ==
  /\ opc = "closing"
  /\ \/ implDeleted /\ opc' = "crashed" /\ UNCHANGED tasks
     \/ ~implDeleted /\ opc' = "released" /\ PostTasks(<<"ModRW">>)
  /\ UNCHANGED <<upc, streamVars, callVars, bufVars, epollVars, handlerVars, netVars>>
-----------------------------------------------------------------------------
(* CallMethod.                                                             *)

CallPush(c) ==
  /\ opc = "open" /\ upc[c] = "idle" /\ c \in setup.calls
  /\ \/ /\ implDeleted
        /\ upc' = [upc EXCEPT ![c] = "crashed"]
        /\ UNCHANGED sendcall
     \/ /\ ~implDeleted
        /\ upc' = [upc EXCEPT ![c] = "mod"]
        /\ sendcall' = Append(sendcall, c)
  /\ UNCHANGED <<opc, streamVars, waitcall, donecall, status, got, doneRan, bufVars, tasks,
                 epollVars, handlerVars, netVars>>

\* ModEventAsync after the push; then Wait if done is NULL.
CallMod(c) ==
  /\ upc[c] = "mod"
  /\ \/ /\ implDeleted
        /\ upc' = [upc EXCEPT ![c] = "crashed"]
        /\ UNCHANGED tasks
     \/ /\ ~implDeleted
        /\ upc' = [upc EXCEPT ![c] = IF c \in Sync THEN "wait" ELSE "returned"]
        /\ PostTasks(<<"ModRW">>)
  /\ UNCHANGED <<opc, streamVars, callVars, bufVars, epollVars, handlerVars, netVars>>

\* cntl->Wait() is over.
CallReturns(c) ==
  /\ upc[c] = "wait" /\ status[c] # "unset"
  /\ upc' = [upc EXCEPT ![c] = "returned"]
  /\ UNCHANGED <<opc, streamVars, callVars, bufVars, tasks, epollVars, handlerVars, netVars>>
-----------------------------------------------------------------------------
(* The poller.                                                             *)

\* ProcessPendingTask: the next task, see InTmp.
ProcessPendingTask ==
  /\ tasks # <<>>
  /\ tasks' = Tail(tasks)
  /\ moved' = InTmp(tasks, moved) - 1
  /\ LET p == Execute([interest |-> interest, armed |-> armed,
                       rtimer |-> rtimer, wtimer |-> wtimer], Head(tasks))
     IN  interest' = p.interest /\ armed' = p.armed /\ rtimer' = p.rtimer /\ wtimer' = p.wtimer
  /\ UNCHANGED <<userVars, streamVars, callVars, bufVars, raised, handlerVars, netVars>>

\* What epoll reports for the stream (EventToMask); EPOLLRDHUP is not asked for.
ReadyMask ==
     {b \in {"READ"} : inbox # <<>> \/ link \in {"fin", "rst"}}
  \cup {b \in {"WRITE"} : interest = "RW" /\ (link = "rst" \/ (room /\ link \in {"up", "fin"}))}
  \cup {b \in {"CLOSE", "ERR"} : link \in {"rst", "refused"}}

\* epoll_wait returns and OnEventAsync raises the bits.
Report ==
  /\ armed /\ moved = 0
  /\ armed' = FALSE
  /\ raised' = raised \cup ReadyMask
  /\ UNCHANGED <<userVars, streamVars, callVars, bufVars, tasks, moved, interest, rtimer, wtimer,
                 handlerVars, netVars>>

\* ProcessTimeOut: a timer leaves its tree and raises its bit (to no effect
\* once the stream is closed).
ReadTimeOut ==
  /\ moved = 0 /\ rtimer /\ "rtimeout" \in Faults /\ ~implDeleted
  /\ rtimer' = FALSE
  /\ raised' = raised \cup {"RTIME"}
  /\ UNCHANGED <<userVars, streamVars, callVars, bufVars, tasks, moved, interest, armed, wtimer,
                 handlerVars, netVars>>

WriteTimeOut ==
  /\ moved = 0 /\ wtimer /\ "wtimeout" \in Faults /\ ~implDeleted
  /\ wtimer' = FALSE
  /\ raised' = raised \cup {"WTIME"}
  /\ UNCHANGED <<userVars, streamVars, callVars, bufVars, tasks, moved, interest, armed, rtimer,
                 handlerVars, netVars>>
-----------------------------------------------------------------------------
(* SocketStream::OnEvent.                                                  *)

HGoto(pc) == hpc' = pc /\ UNCHANGED hmask

HContinue(i) == HGoto(PhaseAfter(i, hmask))
HEnd == hpc' = "idle" /\ hmask' = {}

\* The head of OnEvent: closed streams ignore everything, EVENT_CLOSE and
\* EVENT_ERR return early, the first read or write event connects.
OnEvent ==
  /\ hpc = "idle" /\ raised # {}
  /\ raised' = {}
  /\ \/ /\ isClosed
        /\ UNCHANGED <<hpc, hmask, connectStatus>>
     \/ /\ ~isClosed /\ raised \cap {"CLOSE", "ERR"} # {}
        /\ hpc' = IF "CLOSE" \in raised THEN "tail" ELSE "close"
        /\ hmask' = {"CLOSE"}
        /\ UNCHANGED connectStatus
     \/ /\ ~isClosed /\ raised \cap {"CLOSE", "ERR"} = {}
        /\ hpc' = PhaseAfter(0, raised) /\ hmask' = raised
        /\ connectStatus' = IF raised \cap {"READ", "WRITE"} # {} THEN "OK" ELSE connectStatus
  /\ UNCHANGED <<userVars, isClosed, closeWhenEmpty, implDeleted, callVars, bufVars, tasks,
                 moved, interest, armed, rtimer, wtimer, netVars>>

\* OnMessageError gives every call in a queue a status, CANCEL_BY_ERROR those
\* not sent yet; no done closure is run.
Cancelled(code) ==
  [c \in Calls |-> IF c \in ToSet(sendcall) THEN "CANCEL_BY_ERROR"
                   ELSE IF c \in ToSet(waitcall) \cup ToSet(donecall) THEN code
                   ELSE status[c]]

OnMessageError_KeepsDonecall(code) ==
  /\ status' = Cancelled(code)
  /\ sendcall' = <<>> /\ waitcall' = <<>> /\ UNCHANGED donecall
  /\ closeWhenEmpty' = TRUE

OnMessageError_StaysOpen(code) ==
  /\ status' = Cancelled(code)
  /\ sendcall' = <<>> /\ waitcall' = <<>> /\ donecall' = <<>>
  /\ UNCHANGED closeWhenEmpty

\* It empties the queues and has the stream closed; its callers post its ModRW.
OnMessageError(code) ==
  /\ status' = Cancelled(code)
  /\ sendcall' = <<>> /\ waitcall' = <<>> /\ donecall' = <<>>
  /\ closeWhenEmpty' = TRUE

Unread_Kept == inbox

\* What readv leaves in the socket.
Unread == <<>>

\* OnReadable reads until EAGAIN; at an end of file or an error it returns -1
\* without having processed what it read.
OnReadable ==
  /\ hpc = "READ"
  /\ inbox' = Unread
  /\ \/ /\ link \in {"fin", "rst"}
        /\ hmask' = hmask \cup {"CLOSE"} /\ hpc' = PhaseAfter(1, hmask)
        /\ UNCHANGED readbuf
     \/ /\ link \notin {"fin", "rst"}
        /\ readbuf' = IF garbled THEN <<>> ELSE readbuf \o inbox
        /\ IF inbox = <<>> \/ garbled THEN HContinue(1) ELSE HGoto("recv")
  /\ UNCHANGED <<userVars, streamVars, callVars, writebuf, garbled, tasks, epollVars,
                 link, room, eagain, peerq>>

\* OnRecived -> OnMessageRecived for the first response in readbuf.  The
\* response of a call that is gone is left in the buffer unread.
OnMessageRecived ==
  /\ hpc = "recv"
  /\ LET c == Head(donecall)
         r == Head(readbuf)
     IN  \/ /\ donecall = <<>>
            /\ garbled' = TRUE /\ readbuf' = <<>>
            /\ PostTasks(<<"DelR">>)
            /\ HContinue(1)
            /\ UNCHANGED <<closeWhenEmpty, callVars>>
         \/ /\ donecall # <<>>
            /\ donecall' = Tail(donecall) /\ readbuf' = Tail(readbuf)
            /\ got' = [got EXCEPT ![c] = r]
            /\ doneRan' = doneRan \cup ({c} \ Sync)
            /\ status' = [status EXCEPT ![c] = "OK"]
            /\ PostTasks(<<"DelR">>)
            /\ HGoto("next")
            /\ UNCHANGED <<closeWhenEmpty, sendcall, waitcall, garbled>>
         \/ /\ donecall # <<>> /\ "parse" \in Faults
            /\ readbuf' = Tail(readbuf)
            /\ OnMessageError("PARSER_FAILED")
            /\ PostTasks(<<"DelR", "ModRW">>)
            /\ HContinue(1)
            /\ UNCHANGED <<got, doneRan, garbled>>
  /\ UNCHANGED <<userVars, connectStatus, isClosed, implDeleted, writebuf, epollVars, netVars>>

\* SendToServer for the head of sendcall, then waitcall.push, whatever it
\* returned.  more: what the caller posts afterwards.
SendToServer(more) ==
  LET c == Head(sendcall)
  IN  \/ /\ sendcall' = Tail(sendcall)
         /\ waitcall' = Append(waitcall, c)
         /\ writebuf' = Append(writebuf, c)
         /\ PostTasks(<<"ModRW">> \o more)
         /\ UNCHANGED <<closeWhenEmpty, status, donecall>>
      \/ /\ "seria" \in Faults
         /\ status' = [Cancelled("SERIA_FAILED") EXCEPT ![c] = "SERIA_FAILED"]
         /\ sendcall' = <<>> /\ waitcall' = <<c>> /\ donecall' = <<>>
         /\ closeWhenEmpty' = TRUE
         /\ PostTasks(<<"ModRW">> \o more)
         /\ UNCHANGED writebuf

\* The end of OnMessageRecived sends the next call, then OnRecived goes on
\* with the next response unless the stream is to be closed.
SendNext ==
  /\ hpc = "next"
  /\ \/ sendcall # <<>> /\ SendToServer(<<"SetW">>)
     \/ sendcall = <<>> /\ UNCHANGED <<sendcall, waitcall, donecall, status, writebuf, tasks, closeWhenEmpty>>
  /\ IF readbuf = <<>> \/ closeWhenEmpty' THEN HContinue(1) ELSE HGoto("recv")
  /\ UNCHANGED <<userVars, connectStatus, isClosed, implDeleted, got, doneRan, readbuf, garbled,
                 epollVars, netVars>>

DisableWrite_Missing == <<>>

\* An empty writebuf gives up the write interest, so that the next ModEvent
\* for writing is a change and yields an edge.
DisableWrite == <<"ModR">>

\* OnWriteable: an empty writebuf first gives up the write interest ...
OnWriteable ==
  /\ hpc = "WRITE"
  /\ PostTasks(IF writebuf = <<>> THEN DisableWrite ELSE <<>>)
  /\ HGoto("able")
  /\ UNCHANGED <<userVars, streamVars, callVars, bufVars, epollVars, netVars>>

InFlight == ToSet(waitcall) \cup ToSet(donecall)

MaySend_Always == sendcall # <<>>

\* RpcChannelImpl::OnWriteable: one call at a time.
MaySend == sendcall # <<>> /\ waitcall = <<>> /\ donecall = <<>>

\* ... then handerWriteable sends the next call if none is in flight.
HandlerWriteable ==
  /\ hpc = "able"
  /\ \/ MaySend /\ SendToServer(<<>>)
     \/ ~MaySend /\ UNCHANGED <<sendcall, waitcall, donecall, status, writebuf, tasks, closeWhenEmpty>>
  /\ IF writebuf' = <<>> THEN HContinue(2) ELSE HGoto("flush")
  /\ UNCHANGED <<userVars, connectStatus, isClosed, implDeleted, got, doneRan, readbuf, garbled,
                 epollVars, netVars>>

\* OnMessageSended: any bytes written make the waiting call "sent" (its loop
\* adds the same buffer_size until the packet is complete).
OnMessageSended(after) ==
  IF waitcall = <<>>
  THEN UNCHANGED <<waitcall, donecall>> /\ PostTasks(after)
  ELSE /\ waitcall' = Tail(waitcall)
       /\ donecall' = Append(donecall, Head(waitcall))
       /\ PostTasks(<<"SetR">> \o after)

\* writev writes everything, ...
FlushAll ==
  /\ hpc = "flush" /\ room /\ link \in {"up", "fin"}
  /\ writebuf' = <<>>
  /\ peerq' = peerq \o writebuf
  /\ OnMessageSended(DisableWrite)
  /\ HContinue(2)
  /\ UNCHANGED <<userVars, streamVars, sendcall, status, got, doneRan, readbuf, garbled,
                 epollVars, link, room, eagain, inbox>>

\* ... or meets EAGAIN after k whole requests and perhaps a part of the next,
\* at once if there was no room, ...
FlushSome ==
  /\ hpc = "flush" /\ link \in {"up", "fin"}
  /\ \/ /\ room /\ eagain < setup.eagain
        /\ \E k \in 0..(Len(writebuf) - 1) :
              /\ peerq' = peerq \o SubSeq(writebuf, 1, k)
              /\ writebuf' = SubSeq(writebuf, k + 1, Len(writebuf))
        /\ OnMessageSended(<<>>)
        /\ room' = FALSE /\ eagain' = eagain + 1
     \/ ~room /\ UNCHANGED <<room, eagain, peerq, writebuf, waitcall, donecall, tasks>>
  /\ HContinue(2)
  /\ UNCHANGED <<userVars, streamVars, sendcall, status, got, doneRan, readbuf, garbled,
                 epollVars, link, inbox>>

\* ... or fails.
FlushFails ==
  /\ hpc = "flush" /\ link = "rst"
  /\ hmask' = hmask \cup {"CLOSE"} /\ hpc' = PhaseAfter(2, hmask)
  /\ UNCHANGED <<userVars, streamVars, callVars, bufVars, tasks, epollVars, netVars>>

\* OnReadTimeOut and OnWriteTimeOut.
TimeOut(i, code) ==
  /\ hpc = Phases[i]
  /\ OnMessageError(code) /\ PostTasks(<<"ModRW">>)
  /\ HContinue(i)
  /\ UNCHANGED <<userVars, connectStatus, isClosed, implDeleted, got, doneRan, bufVars,
                 epollVars, netVars>>

OnReadTimeOut == TimeOut(3, "RECV_TIMEOUT")
OnWriteTimeOut == TimeOut(4, "SEND_TIMEOUT")

\* The end of OnEvent: close, close once writebuf is empty, or return.
OnEventTail ==
  /\ hpc = "tail"
  /\ LET closing == "CLOSE" \in hmask \/ closeWhenEmpty
     IN  \/ ~closing /\ HEnd /\ UNCHANGED <<closeWhenEmpty, tasks>>
         \/ closing /\ writebuf = <<>> /\ HGoto("close") /\ UNCHANGED <<closeWhenEmpty, tasks>>
         \/ closing /\ writebuf # <<>> /\ HEnd /\ closeWhenEmpty' = TRUE /\ PostTasks(<<"ModRW">>)
  /\ UNCHANGED <<userVars, connectStatus, isClosed, implDeleted, callVars, bufVars, epollVars,
                 netVars>>

\* OnClose: calls that are left are cancelled ...
OnCloseCancel ==
  /\ hpc = "close"
  /\ isClosed' = TRUE
  /\ \/ /\ sendcall = <<>> /\ InFlight = {}
        /\ UNCHANGED <<callVars, closeWhenEmpty, tasks>>
     \/ /\ sendcall # <<>> \/ InFlight # {}
        /\ OnMessageError("CANCEL_BY_CLOSE") /\ PostTasks(<<"ModRW">>)
        /\ UNCHANGED <<got, doneRan>>
  /\ HGoto("delete")
  /\ UNCHANGED <<userVars, connectStatus, implDeleted, bufVars, epollVars, netVars>>

\* ... the RpcChannelImpl deletes itself, the event is taken out of epoll.
OnCloseDelete ==
  /\ hpc = "delete"
  /\ implDeleted' = TRUE
  /\ PostTasks(<<"Del">>)
  /\ connectStatus' = IF connectStatus = "IPROCESS" THEN "FAIL" ELSE connectStatus
  /\ HEnd
  /\ UNCHANGED <<userVars, isClosed, closeWhenEmpty, callVars, bufVars, epollVars, netVars>>
-----------------------------------------------------------------------------
(* The network and the server.                                             *)

\* An edge for epoll.  The connection of a deleted channel is not followed.
Wake == ~implDeleted /\ armed' = (interest # "none")

LinkBecomes(from, to) ==
  /\ link \in from /\ link' = to
  /\ Wake
  /\ UNCHANGED <<userVars, streamVars, callVars, bufVars, tasks, moved, interest, rtimer, wtimer,
                 raised, handlerVars, room, eagain, peerq, inbox>>

Established == LinkBecomes({"connecting"}, "up")
Refused == "refused" \in Faults /\ LinkBecomes({"connecting"}, "refused")
PeerCloses == "fin" \in Faults /\ LinkBecomes({"up"}, "fin")
PeerResets == "rst" \in Faults /\ LinkBecomes({"up", "fin"}, "rst")

\* The server answers requests in their order.
PeerReplies ==
  /\ link = "up" /\ peerq # <<>>
  /\ peerq' = Tail(peerq)
  /\ inbox' = Append(inbox, Head(peerq))
  /\ Wake
  /\ UNCHANGED <<userVars, streamVars, callVars, bufVars, tasks, moved, interest, rtimer, wtimer,
                 raised, handlerVars, link, room, eagain>>

\* The send buffer drains.
Drain ==
  /\ ~room /\ link \in {"up", "fin"}
  /\ room' = TRUE
  /\ Wake
  /\ UNCHANGED <<userVars, streamVars, callVars, bufVars, tasks, moved, interest, rtimer, wtimer,
                 raised, handlerVars, link, eagain, peerq, inbox>>
-----------------------------------------------------------------------------
OwnerStep == ConnectReturns \/ CloseMod
UserStep(c) == CallMod(c) \/ CallReturns(c)
PollerStep == ProcessPendingTask \/ Report
HandlerStep == \/ OnEvent \/ OnReadable \/ OnMessageRecived \/ SendNext \/ OnWriteable
               \/ HandlerWriteable \/ FlushAll \/ FlushSome \/ FlushFails
               \/ OnReadTimeOut \/ OnWriteTimeOut
               \/ OnEventTail \/ OnCloseCancel \/ OnCloseDelete
NetStep == Established \/ PeerReplies \/ Drain

\* What follows the use of a deleted or null object is undefined.
Running == opc # "crashed" /\ \A c \in Calls : upc[c] # "crashed"

Next == /\ Running /\ UNCHANGED setup
        /\ \/ \E ret \in {"OK", "IPROCESS", "FAIL"} : Connect(ret)
           \/ CloseFlag \/ OwnerStep
           \/ \E c \in Calls : CallPush(c) \/ UserStep(c)
           \/ PollerStep \/ ReadTimeOut \/ WriteTimeOut
           \/ HandlerStep
           \/ NetStep \/ Refused \/ PeerCloses \/ PeerResets

Spec == Init /\ [][Next]_vars
-----------------------------------------------------------------------------
(* Properties.                                                             *)

Codes == {"unset", "OK", "CANCEL_BY_ERROR", "CANCEL_BY_CLOSE", "RECV_TIMEOUT",
          "SEND_TIMEOUT", "PARSER_FAILED", "SERIA_FAILED"}

\* The types of the channel's state and of its poller's view of the stream.
TypeOK ==
  /\ opc \in {"start", "connecting", "open", "closing", "released", "crashed"}
  /\ upc \in [Calls -> {"idle", "mod", "wait", "returned", "crashed"}]
  /\ connectStatus \in {"FAIL", "IPROCESS", "OK"}
  /\ {isClosed, closeWhenEmpty, implDeleted, garbled, armed, rtimer, wtimer, room} \subseteq BOOLEAN
  /\ {sendcall, waitcall, donecall, writebuf, readbuf, peerq, inbox} \subseteq Seq(Calls)
  /\ status \in [Calls -> Codes] /\ got \in [Calls -> Calls \cup {NoCall}]
  /\ doneRan \subseteq Calls
  /\ tasks \in Seq({"AddR", "AddRW", "ModR", "ModRW", "SetR", "DelR", "SetW", "Del"})
  /\ moved \in 0..Len(tasks) /\ interest \in {"none", "R", "RW"}
  /\ raised \cup hmask \subseteq {"READ", "WRITE", "CLOSE", "ERR", "RTIME", "WTIME"}

\* The queues waitcall and donecall hold one call together: requests are never
\* pipelined, from OnWriteable or from OnMessageRecived.
OneInFlight == Len(waitcall) + Len(donecall) <= 1

\* A call's _response is filled by the answer to its own request, although
\* OnMessageRecived pairs the two by order alone.
ResponseMatches == \A c \in Calls : got[c] \in {c, NoCall}

\* Pairing by order is right as long as the channel is not to be closed, and
\* without timeouts to the end: a closing channel still sends calls, and after
\* a timeout the answer to a call that is gone may come first.
ResponsesPaired ==
  ~closeWhenEmpty \/ Faults \cap {"rtimeout", "wtimeout"} = {} => ResponseMatches

\* A response that no call waits for is met only when the stream is already
\* to be closed, so OnRecived stops before it parses that response's body.
StrayOnlyWhenClosing == hpc = "recv" /\ donecall = <<>> => closeWhenEmpty

\* The status of a call is given once, since the caller may then delete the
\* controller.  (Not so for a request that could not be serialised: see
\* SendToServer.)
StatusGivenOnce ==
  [][\A c \in Calls : status[c] \notin {"unset", "SERIA_FAILED"} => status'[c] = status[c]]_vars

\* Nothing is left to happen: no task, event, timer or bit is pending, the
\* handler is idle, the server has answered and the send buffer is free.
AtRest ==
  /\ tasks = <<>> /\ ~armed /\ raised = {} /\ hpc = "idle"
  /\ rtimer => "rtimeout" \notin Faults
  /\ wtimer => "wtimeout" \notin Faults
  /\ link # "connecting"
  /\ link = "up" => peerq = <<>> /\ room
  /\ link = "fin" => room

\* No call is stuck: at rest every call handed over has its status.  With
\* edge-triggered events and an interest that every thread posts changes of,
\* one wrong order of ModEvent tasks leaves a call in sendcall for ever.  The
\* exceptions are a call pushed after OnClose has cancelled the others, and a
\* reset with unsent data: the head of OnEvent then posts an interest that may
\* be set already, no edge follows, and the stream is never closed.
NoStuckCall ==
  AtRest /\ link # "rst" =>
     \A c \in Calls : upc[c] \in {"wait", "returned"} =>
        status[c] # "unset" \/ (implDeleted /\ c \in ToSet(sendcall))

\* At rest, a channel that was released has closed its stream and is deleted
\* (with the same exception for a reset).
ReleasedIsDeleted == AtRest /\ link # "rst" /\ opc = "released" => implDeleted

\* Nothing is left behind at rest, neither a call without a status nor a
\* released channel that was not deleted.
NothingStranded == TypeOK /\ NoStuckCall /\ ReleasedIsDeleted

\* "it's asynchronous and uses the callback to inform the completion (or
\* failure)": an asynchronous call with a status has had its done run.
CallbackInforms == \A c \in Calls \ Sync : status[c] # "unset" => c \in doneRan

\* The users of a channel never meet a deleted RpcChannelImpl or a null _stream.
NoDeadPointer == Running
=============================================================================
