-------------------------- MODULE RpcChannelProofs --------------------------
(***************************************************************************)
(* Proofs about RpcChannel for any set of calls, any choice of faults and  *)
(* any number of full send buffers.                                        *)
(*                                                                         *)
(* A channel has no identifiers to pair responses with calls: everything   *)
(* rests on requests not being pipelined.  InStep says so, and that what   *)
(* is on its way to the server and back is no more than what waits for an  *)
(* answer, as long as an answer is awaited; Paired says that it is the     *)
(* same call.  Pending says that a call in a queue has no status yet, so   *)
(* no controller gets a second one.  StreamInv adds the poller's tasks,    *)
(* the interest and the edges of epoll, and the handler: by it, nothing is *)
(* left behind when nothing is left to happen.                             *)
(***************************************************************************)
EXTENDS RpcChannel, SequenceTheorems, TLAPS

\* The types of the queues, the buffers and what is known of the calls.
QueueTypes ==
  /\ sendcall \in Seq(Calls) /\ waitcall \in Seq(Calls) /\ donecall \in Seq(Calls)
  /\ writebuf \in Seq(Calls) /\ readbuf \in Seq(Calls)
  /\ peerq \in Seq(Calls) /\ inbox \in Seq(Calls)
  /\ status \in [Calls -> Codes] /\ got \in [Calls -> Calls \cup {NoCall}]
  /\ upc \in [Calls -> {"idle", "mod", "wait", "returned", "crashed"}]

\* Without timeouts a response is waited for until the stream is closed, with
\* them until it is marked to be closed.
NoTimeouts == Faults \cap {"rtimeout", "wtimeout"} = {}
Awaited == ~closeWhenEmpty \/ (NoTimeouts /\ ~isClosed)

\* A closed stream handles nothing, and no timeout comes that may not.
Handles ==
  /\ isClosed => hpc \in {"idle", "delete"}
  /\ NoTimeouts => (raised \cup hmask \cup {hpc}) \cap {"RTIME", "WTIME"} = {}

\* Calls go one by one.  A response is on its way only for a call in donecall,
\* a request only for one in waitcall or donecall, as long as it is awaited.
InStep ==
  /\ Handles
  /\ OneInFlight
  /\ hpc = "next" => waitcall = <<>> /\ donecall = <<>>
  /\ hpc = "recv" => readbuf # <<>>
  /\ Awaited =>
       /\ Len(readbuf) + Len(inbox) + Len(peerq) <= Len(donecall)
       /\ Len(readbuf) + Len(inbox) + Len(peerq) + Len(writebuf) <= Len(donecall) + Len(waitcall)

\* s holds nothing but what is in q.
Only(s, q) == \A i \in 1..Len(s), j \in 1..Len(q) : s[i] = q[j]

\* What is awaited belongs to the call in flight.
Paired ==
  /\ Awaited =>
       /\ Only(readbuf, donecall) /\ Only(inbox, donecall) /\ Only(peerq, donecall)
       /\ Only(writebuf, donecall) /\ Only(writebuf, waitcall)
  /\ ~closeWhenEmpty \/ NoTimeouts => ResponseMatches

\* The call at the head, or anywhere, of a queue has not been given a status.
Unanswered(q) == \A i \in 1..Len(q) : status[q[i]] \in {"unset", "SERIA_FAILED"}
Apart(q, r) == \A i \in 1..Len(q), j \in 1..Len(r) : q[i] # r[j]

\* A call is in one queue at most, once, and has no status while it is there.
Pending ==
  /\ \A i, j \in 1..Len(sendcall) : sendcall[i] = sendcall[j] => i = j
  /\ Apart(sendcall, waitcall) /\ Apart(sendcall, donecall)
  /\ Unanswered(sendcall) /\ Unanswered(waitcall) /\ Unanswered(donecall)
  /\ \A c \in Calls : upc[c] = "idle" =>
       /\ status[c] = "unset"
       /\ \A i \in 1..Len(sendcall) : sendcall[i] # c
       /\ \A i \in 1..Len(waitcall) : waitcall[i] # c
       /\ \A i \in 1..Len(donecall) : donecall[i] # c

ChannelInv == QueueTypes /\ InStep /\ Paired /\ Pending
-----------------------------------------------------------------------------
(* The steps that leave the queues and the buffers alone.                  *)

LEMMA FirstPhase ==
  ASSUME NEW mask, NEW i \in 0..4
  PROVE  \E j \in (i + 1)..5 : /\ Phases[j] \in mask \cup {"tail"}
                               /\ \A k \in (i + 1)..(j - 1) : Phases[k] \notin mask
<1> DEFINE P(j) == /\ Phases[j] \in mask \cup {"tail"}
                   /\ \A k \in (i + 1)..(j - 1) : Phases[k] \notin mask
<1>1. /\ Phases[1] = "READ" /\ Phases[2] = "WRITE" /\ Phases[3] = "RTIME" /\ Phases[4] = "WTIME"
      /\ Phases[5] = "tail"
  BY DEF Phases
<1>2. \E j \in (i + 1)..5 : P(j)
  <2>1. CASE i = 4
    <3>1. 5 \in (i + 1)..5 /\ P(5)
      BY <1>1, <2>1
    <3> QED BY <3>1
  <2>2. CASE i = 3
    <3>1. CASE Phases[4] \in mask
      <4>1. 4 \in (i + 1)..5 /\ P(4)
        BY <1>1, <2>2, <3>1
      <4> QED BY <4>1
    <3>2. CASE Phases[4] \notin mask
      <4>1. 5 \in (i + 1)..5 /\ P(5)
        BY <1>1, <2>2, <3>2
      <4> QED BY <4>1
    <3> QED BY <3>1, <3>2
  <2>3. CASE i \in 0..2
    <3>1. CASE \A k \in (i + 1)..4 : Phases[k] \notin mask
      <4>1. 5 \in (i + 1)..5 /\ P(5)
        BY <1>1, <2>3, <3>1
      <4> QED BY <4>1
    <3>3. CASE \E k \in (i + 1)..4 : Phases[k] \in mask
      <4>1. CASE i = 2
        BY <4>1, <3>3, <1>1
      <4>2. CASE i = 1
        BY <4>2, <3>3, <1>1
      <4>3. CASE i = 0
        BY <4>3, <3>3, <1>1
      <4> QED BY <4>1, <4>2, <4>3, <2>3
    <3> QED BY <3>1, <3>3
  <2> QED BY <2>1, <2>2, <2>3
<1> QED BY <1>2

\* What follows part i of OnEvent.
LEMMA PhaseIs ==
  ASSUME NEW mask
  PROVE  /\ "READ" \in mask => PhaseAfter(0, mask) = "READ"
         /\ "READ" \notin mask /\ "WRITE" \in mask => PhaseAfter(0, mask) = "WRITE"
         /\ "READ" \notin mask /\ "WRITE" \notin mask => PhaseAfter(0, mask) \in {"RTIME", "WTIME", "tail"}
         /\ "WRITE" \in mask => PhaseAfter(1, mask) = "WRITE"
         /\ "WRITE" \notin mask => PhaseAfter(1, mask) \in {"RTIME", "WTIME", "tail"}
         /\ \A i \in 2..4 : PhaseAfter(i, mask) \in {"RTIME", "WTIME", "tail"}
         /\ \A i \in 0..4 : PhaseAfter(i, mask) \in mask \cup {"tail"}
<1>1. /\ Phases[1] = "READ" /\ Phases[2] = "WRITE" /\ Phases[3] = "RTIME" /\ Phases[4] = "WTIME"
      /\ Phases[5] = "tail"
  BY DEF Phases
<1>2. ASSUME NEW i \in 0..4
      PROVE  \E j \in (i + 1)..5 : /\ PhaseAfter(i, mask) = Phases[j]
                                   /\ Phases[j] \in mask \cup {"tail"}
                                   /\ \A k \in (i + 1)..(j - 1) : Phases[k] \notin mask
  <2> DEFINE P(j) == /\ Phases[j] \in mask \cup {"tail"}
                     /\ \A k \in (i + 1)..(j - 1) : Phases[k] \notin mask
  <2>1. \E j \in (i + 1)..5 : P(j)
    BY FirstPhase
  <2> HIDE DEF P
  <2>2. /\ (CHOOSE j \in (i + 1)..5 : P(j)) \in (i + 1)..5
        /\ P(CHOOSE j \in (i + 1)..5 : P(j))
    BY <2>1
  <2>3. PhaseAfter(i, mask) = Phases[CHOOSE j \in (i + 1)..5 : P(j)]
    BY DEF PhaseAfter, P
  <2> DEFINE l == CHOOSE j \in (i + 1)..5 : P(j)
  <2>4. l \in (i + 1)..5 /\ P(l) /\ PhaseAfter(i, mask) = Phases[l]
    BY <2>2, <2>3
  <2> HIDE DEF l
  <2> QED BY <2>4 DEF P
<1>3. \A i \in 2..4 : PhaseAfter(i, mask) \in {"RTIME", "WTIME", "tail"}
  <2> SUFFICES ASSUME NEW i \in 2..4 PROVE PhaseAfter(i, mask) \in {"RTIME", "WTIME", "tail"}
    OBVIOUS
  <2>1. PICK j \in (i + 1)..5 : PhaseAfter(i, mask) = Phases[j]
    BY <1>2
  <2>2. j \in {3, 4, 5}
    OBVIOUS
  <2> QED BY <1>1, <2>1, <2>2
<1>4. /\ "WRITE" \in mask => PhaseAfter(1, mask) = "WRITE"
      /\ "WRITE" \notin mask => PhaseAfter(1, mask) \in {"RTIME", "WTIME", "tail"}
  <2>1. PICK j \in (1 + 1)..5 : /\ PhaseAfter(1, mask) = Phases[j]
                                /\ Phases[j] \in mask \cup {"tail"}
                                /\ \A k \in (1 + 1)..(j - 1) : Phases[k] \notin mask
    BY <1>2
  <2>2. CASE j = 2
    BY <1>1, <2>1, <2>2
  <2>3. CASE j \in {3, 4, 5}
    <3>1. 2 \in (1 + 1)..(j - 1)
      BY <2>3
    <3> QED BY <1>1, <2>1, <2>3, <3>1
  <2> QED BY <2>2, <2>3
<1>5. /\ "READ" \in mask => PhaseAfter(0, mask) = "READ"
      /\ "READ" \notin mask /\ "WRITE" \in mask => PhaseAfter(0, mask) = "WRITE"
      /\ "READ" \notin mask /\ "WRITE" \notin mask => PhaseAfter(0, mask) \in {"RTIME", "WTIME", "tail"}
  <2>1. PICK j \in (0 + 1)..5 : /\ PhaseAfter(0, mask) = Phases[j]
                                /\ Phases[j] \in mask \cup {"tail"}
                                /\ \A k \in (0 + 1)..(j - 1) : Phases[k] \notin mask
    BY <1>2
  <2>2. CASE j = 1
    BY <1>1, <2>1, <2>2
  <2>3. CASE j = 2
    <3>1. 1 \in (0 + 1)..(j - 1)
      BY <2>3
    <3> QED BY <1>1, <2>1, <2>3, <3>1
  <2>4. CASE j \in {3, 4, 5}
    <3>1. 1 \in (0 + 1)..(j - 1) /\ 2 \in (0 + 1)..(j - 1)
      BY <2>4
    <3> QED BY <1>1, <2>1, <2>4, <3>1
  <2> QED BY <2>2, <2>3, <2>4
<1>6. \A i \in 0..4 : PhaseAfter(i, mask) \in mask \cup {"tail"}
  <2> SUFFICES ASSUME NEW i \in 0..4 PROVE PhaseAfter(i, mask) \in mask \cup {"tail"}
    OBVIOUS
  <2>1. PICK j \in (i + 1)..5 : PhaseAfter(i, mask) = Phases[j] /\ Phases[j] \in mask \cup {"tail"}
    BY <1>2
  <2> QED BY <2>1
<1> QED BY <1>3, <1>4, <1>5, <1>6

LEMMA PhaseIsPhase ==
  \A mask : \A i \in 0..4 : PhaseAfter(i, mask) \in {"READ", "WRITE", "RTIME", "WTIME", "tail"}
<1> SUFFICES ASSUME NEW mask, NEW i \in 0..4
             PROVE  PhaseAfter(i, mask) \in {"READ", "WRITE", "RTIME", "WTIME", "tail"}
  OBVIOUS
<1>1. i = 0 \/ i = 1 \/ i \in 2..4
  OBVIOUS
<1> QED BY <1>1, PhaseIs

\* A closed stream stays closed and at rest; timeouts come only if they may.
LEMMA StepHandles ==
  ASSUME Handles, [Next]_vars
  PROVE  Handles' /\ (NoTimeouts' <=> NoTimeouts) /\ (isClosed => isClosed') /\ (closeWhenEmpty => closeWhenEmpty')
<1> USE DEF userVars, streamVars, callVars, bufVars, epollVars, handlerVars, netVars
<1> DEFINE Timed == {"RTIME", "WTIME"}
<1>s. NoTimeouts' <=> NoTimeouts
  BY DEF Next, vars, NoTimeouts, Faults
<1>h. /\ isClosed => hpc \in {"idle", "delete"}
      /\ NoTimeouts => raised \cap Timed = {} /\ hmask \cap Timed = {} /\ hpc \notin Timed
  BY DEF Handles
<1>p. \A mask : mask \cap Timed = {} => \A i \in 0..4 : PhaseAfter(i, mask) \notin Timed
  BY PhaseIs
<1> DEFINE Kept == /\ isClosed => isClosed'
                   /\ closeWhenEmpty => closeWhenEmpty'
                   /\ isClosed' => hpc' \in {"idle", "delete"}
                   /\ NoTimeouts => raised' \cap Timed = {} /\ hmask' \cap Timed = {} /\ hpc' \notin Timed
<1> SUFFICES Kept
  BY <1>s DEF Handles
<1>1. CASE UNCHANGED <<isClosed, closeWhenEmpty, raised, handlerVars>>
  BY <1>1, <1>h
<1>2. CASE CloseFlag
  BY <1>2, <1>h DEF CloseFlag
<1>3. CASE Report
  <2>1. ReadyMask \cap Timed = {}
    BY DEF ReadyMask
  <2> QED BY <1>3, <2>1, <1>h DEF Report
<1>4. CASE ReadTimeOut
  BY <1>4, <1>h DEF ReadTimeOut, NoTimeouts
<1>5. CASE WriteTimeOut
  BY <1>5, <1>h DEF WriteTimeOut, NoTimeouts
<1>6. CASE OnEvent
  <2>1. PhaseAfter(0, raised) \in {"READ", "WRITE", "RTIME", "WTIME", "tail"}
    BY PhaseIsPhase
  <2>2. isClosed' = isClosed /\ closeWhenEmpty' = closeWhenEmpty /\ raised' = {}
    BY <1>6 DEF OnEvent
  <2>3. isClosed => hpc' = hpc
    BY <1>6 DEF OnEvent
  <2>4. NoTimeouts => hmask' \cap Timed = {} /\ hpc' \notin Timed
    BY <1>6, <1>h, <1>p DEF OnEvent
  <2> QED BY <2>2, <2>3, <2>4, <1>h
<1>7. CASE OnReadable
  <2>1. hpc = "READ" /\ UNCHANGED <<isClosed, closeWhenEmpty, raised>> /\ hmask' \subseteq hmask \cup {"CLOSE"}
        /\ (hpc' = PhaseAfter(1, hmask) \/ hpc' = "recv")
    BY <1>7 DEF OnReadable, HContinue, HGoto
  <2> QED BY <2>1, <1>h, <1>p
<1>8. CASE OnMessageRecived
  <2>1. hpc = "recv" /\ UNCHANGED <<isClosed, raised, hmask>> /\ (closeWhenEmpty => closeWhenEmpty')
        /\ (hpc' = PhaseAfter(1, hmask) \/ hpc' = "next")
    BY <1>8 DEF OnMessageRecived, OnMessageError, HContinue, HGoto
  <2> QED BY <2>1, <1>h, <1>p
<1>9. CASE SendNext
  <2>1. hpc = "next" /\ UNCHANGED <<isClosed, raised, hmask>> /\ (closeWhenEmpty => closeWhenEmpty')
        /\ (hpc' = PhaseAfter(1, hmask) \/ hpc' = "recv")
    BY <1>9 DEF SendNext, SendToServer, HContinue, HGoto
  <2> QED BY <2>1, <1>h, <1>p
<1>10. CASE OnWriteable
  BY <1>10, <1>h DEF OnWriteable, HGoto
<1>11. CASE HandlerWriteable
  <2>1. hpc = "able" /\ UNCHANGED <<isClosed, raised, hmask>> /\ (closeWhenEmpty => closeWhenEmpty')
        /\ (hpc' = PhaseAfter(2, hmask) \/ hpc' = "flush")
    BY <1>11 DEF HandlerWriteable, SendToServer, HContinue, HGoto
  <2> QED BY <2>1, <1>h, <1>p
<1>12. CASE FlushAll \/ FlushSome \/ FlushFails
  <2>1. hpc = "flush" /\ UNCHANGED <<isClosed, closeWhenEmpty, raised>> /\ hmask' \subseteq hmask \cup {"CLOSE"}
        /\ hpc' = PhaseAfter(2, hmask)
    BY <1>12 DEF FlushAll, FlushSome, FlushFails, HContinue, HGoto
  <2> QED BY <2>1, <1>h, <1>p
<1>13. CASE OnReadTimeOut \/ OnWriteTimeOut
  <2>1. Phases[3] = "RTIME" /\ Phases[4] = "WTIME"
    BY DEF Phases
  <2>2. hpc \in Timed /\ UNCHANGED <<isClosed, raised, hmask>> /\ closeWhenEmpty'
    BY <1>13, <2>1 DEF OnReadTimeOut, OnWriteTimeOut, TimeOut, OnMessageError, HContinue, HGoto
  <2> QED BY <2>2, <1>h
<1>14. CASE OnEventTail
  <2>1. hpc = "tail" /\ UNCHANGED <<isClosed, raised>> /\ hmask' \subseteq hmask
        /\ hpc' \in {"idle", "close"} /\ (closeWhenEmpty => closeWhenEmpty')
    BY <1>14 DEF OnEventTail, HGoto, HEnd
  <2> QED BY <2>1, <1>h
<1>15. CASE OnCloseCancel
  BY <1>15, <1>h DEF OnCloseCancel, OnMessageError, HGoto
<1>16. CASE OnCloseDelete
  BY <1>16, <1>h DEF OnCloseDelete, HEnd
<1>17. ASSUME NEW ret, Connect(ret) PROVE Kept
  BY <1>1, <1>17 DEF Connect
<1>18. ASSUME NEW c \in Calls, CallPush(c) \/ CallMod(c) \/ CallReturns(c) PROVE Kept
  BY <1>1, <1>18 DEF CallPush, CallMod, CallReturns
<1>19. CASE ConnectReturns \/ CloseMod \/ ProcessPendingTask
  BY <1>1, <1>19 DEF ConnectReturns, CloseMod, ProcessPendingTask
<1>20. CASE Established \/ Refused \/ PeerCloses \/ PeerResets \/ PeerReplies \/ Drain
  BY <1>1, <1>20 DEF Established, Refused, PeerCloses, PeerResets, LinkBecomes, PeerReplies, Drain
<1>21. CASE UNCHANGED vars
  BY <1>1, <1>21 DEF vars
<1> HIDE DEF Kept
<1> QED BY <1>2, <1>3, <1>4, <1>5, <1>6, <1>7, <1>8, <1>9, <1>10, <1>11, <1>12, <1>13, <1>14,
           <1>15, <1>16, <1>17, <1>18, <1>19, <1>20, <1>21
        DEF Next, OwnerStep, UserStep, PollerStep, HandlerStep, NetStep

\* What is awaited after a step was awaited before it.
LEMMA AwaitedBefore == Handles /\ [Next]_vars /\ Awaited' => Awaited
  BY StepHandles DEF Awaited

Calm ==
  /\ UNCHANGED <<sendcall, waitcall, donecall, status, got, writebuf, readbuf, garbled, peerq, inbox>>
  /\ hpc' = hpc \/ hpc' \notin {"next", "recv"} \/ (hpc' = "recv" /\ readbuf # <<>>)
  /\ closeWhenEmpty => closeWhenEmpty'
  /\ upc' \in [Calls -> {"idle", "mod", "wait", "returned", "crashed"}]
  /\ \A c \in Calls : upc'[c] = "idle" => upc[c] = "idle"

\* What may change a queue or a buffer.
Busy ==
  \/ \E c \in Calls : CallPush(c)
  \/ OnReadable \/ OnMessageRecived \/ SendNext \/ HandlerWriteable \/ FlushAll \/ FlushSome
  \/ OnReadTimeOut \/ OnWriteTimeOut \/ OnCloseCancel \/ PeerReplies

LEMMA CalmOrBusy == QueueTypes /\ [Next]_vars => Calm \/ Busy
<1> SUFFICES ASSUME QueueTypes, [Next]_vars, ~ Busy PROVE Calm
  OBVIOUS
<1>u. upc \in [Calls -> {"idle", "mod", "wait", "returned", "crashed"}]
  BY DEF QueueTypes
<1> USE DEF userVars, streamVars, callVars, bufVars, epollVars, handlerVars, netVars, Calm
<1>1. ASSUME NEW ret, Connect(ret) PROVE Calm
  BY <1>1, <1>u DEF Connect
<1>2. CASE ConnectReturns \/ CloseMod
  BY <1>2, <1>u DEF ConnectReturns, CloseMod
<1>3. CASE CloseFlag
  BY <1>3, <1>u DEF CloseFlag
<1>4. ASSUME NEW c \in Calls, CallMod(c) \/ CallReturns(c) PROVE Calm
  BY <1>4, <1>u DEF CallMod, CallReturns
<1>5. CASE ProcessPendingTask
  BY <1>5, <1>u DEF ProcessPendingTask
<1>6. CASE Report \/ ReadTimeOut \/ WriteTimeOut
  BY <1>6, <1>u DEF Report, ReadTimeOut, WriteTimeOut
<1>7. CASE OnEvent
  BY <1>7, <1>u, PhaseIsPhase DEF OnEvent
<1>8. CASE OnWriteable \/ FlushFails
  BY <1>8, <1>u, PhaseIsPhase DEF OnWriteable, FlushFails, HGoto
<1>9. CASE OnEventTail \/ OnCloseDelete
  BY <1>9, <1>u DEF OnEventTail, OnCloseDelete, HGoto, HEnd
<1>10. CASE Established \/ Refused \/ PeerCloses \/ PeerResets
  BY <1>10, <1>u DEF Established, Refused, PeerCloses, PeerResets, LinkBecomes
<1>11. CASE Drain
  BY <1>11, <1>u DEF Drain
<1>12. CASE UNCHANGED vars
  BY <1>12, <1>u DEF vars
<1> QED
  BY <1>1, <1>2, <1>3, <1>4, <1>5, <1>6, <1>7, <1>8, <1>9, <1>10, <1>11, <1>12
  DEF Next, OwnerStep, UserStep, PollerStep, HandlerStep, NetStep, Busy
-----------------------------------------------------------------------------
(* The steps that change a queue or a buffer, by what they change.         *)

\* Everything in s comes from q or r.
From(s, q, r) == \A i \in 1..Len(s) : \/ \E j \in 1..Len(q) : s[i] = q[j]
                                      \/ \E j \in 1..Len(r) : s[i] = r[j]

\* CallMethod queues a new call.
Pushed ==
  /\ \E c \in Calls : /\ upc[c] = "idle" /\ upc' = [upc EXCEPT ![c] = "mod"]
                      /\ sendcall' = Append(sendcall, c)
  /\ UNCHANGED <<waitcall, donecall, status, got, writebuf, readbuf, peerq, inbox, hpc, closeWhenEmpty>>

\* OnReadable empties the socket.
ReadIn ==
  /\ inbox' = <<>> /\ readbuf' \in Seq(Calls)
  /\ Len(readbuf') <= Len(readbuf) + Len(inbox) /\ From(readbuf', readbuf, inbox)
  /\ link \notin {"fin", "rst"} /\ ~garbled => Len(readbuf') = Len(readbuf) + Len(inbox)
  /\ hpc' # "next" /\ (hpc' = "recv" => readbuf' # <<>>)
  /\ UNCHANGED <<sendcall, waitcall, donecall, status, got, writebuf, peerq, upc, closeWhenEmpty>>

\* A response is given to the call at the head of donecall ...
Received ==
  /\ donecall # <<>> /\ readbuf # <<>> /\ hpc' = "next"
  /\ donecall' = Tail(donecall) /\ readbuf' = Tail(readbuf)
  /\ got' = [got EXCEPT ![Head(donecall)] = Head(readbuf)]
  /\ status' = [status EXCEPT ![Head(donecall)] = "OK"]
  /\ UNCHANGED <<sendcall, waitcall, writebuf, peerq, inbox, upc, closeWhenEmpty>>

\* ... or dropped.
Stray ==
  /\ hpc = "recv" /\ donecall = <<>> /\ readbuf' = <<>> /\ hpc' \notin {"next", "recv"}
  /\ UNCHANGED <<sendcall, waitcall, donecall, status, got, writebuf, peerq, inbox, upc, closeWhenEmpty>>

\* A request is sent when none is in flight.
Sent ==
  /\ sendcall # <<>> /\ waitcall = <<>> /\ donecall = <<>>
  /\ sendcall' = Tail(sendcall)
  /\ waitcall' = Append(waitcall, Head(sendcall)) /\ writebuf' = Append(writebuf, Head(sendcall))
  /\ hpc' # "next" /\ (hpc' = "recv" => readbuf # <<>>)
  /\ UNCHANGED <<donecall, status, got, readbuf, peerq, inbox, upc, closeWhenEmpty>>

\* An error empties the queues and closes; a request that could not be
\* serialised is pushed on waitcall nevertheless.  But for timeouts and OnClose,
\* it comes when nothing is in flight or with the answer to the call in flight.
Failed ==
  /\ closeWhenEmpty' /\ hpc' \notin {"next", "recv"}
  /\ sendcall' = <<>> /\ donecall' = <<>>
  /\ \/ waitcall' = <<>>
     \/ sendcall # <<>> /\ waitcall' = <<Head(sendcall)>> /\ status'[Head(sendcall)] = "SERIA_FAILED"
  /\ status' \in [Calls -> Codes]
  /\ \A c \in Calls : IF c \in ToSet(sendcall) \cup ToSet(waitcall) \cup ToSet(donecall)
                      THEN status'[c] # "unset" ELSE status'[c] = status[c]
  /\ readbuf' \in Seq(Calls)
  /\ \/ ~Awaited'
     \/ waitcall = <<>> /\ donecall = <<>> /\ readbuf' = readbuf
     \/ donecall # <<>> /\ readbuf # <<>> /\ readbuf' = Tail(readbuf)
  /\ UNCHANGED <<got, writebuf, peerq, inbox, upc>>

\* Bytes are written, and the waiting call counts as sent.
Flushed ==
  /\ peerq' \in Seq(Calls) /\ writebuf' \in Seq(Calls)
  /\ Len(peerq') + Len(writebuf') = Len(peerq) + Len(writebuf)
  /\ From(peerq', peerq, writebuf) /\ From(writebuf', writebuf, <<>>)
  /\ \/ waitcall = <<>> /\ UNCHANGED <<waitcall, donecall>>
     \/ waitcall # <<>> /\ waitcall' = Tail(waitcall) /\ donecall' = Append(donecall, Head(waitcall))
  /\ hpc' \notin {"next", "recv"}
  /\ UNCHANGED <<sendcall, status, got, readbuf, inbox, upc, closeWhenEmpty>>

\* The server answers.
Replied ==
  /\ peerq # <<>> /\ peerq' = Tail(peerq) /\ inbox' = Append(inbox, Head(peerq))
  /\ UNCHANGED <<sendcall, waitcall, donecall, status, got, writebuf, readbuf, upc, hpc, closeWhenEmpty>>

LEMMA ConcatFrom ==
  ASSUME NEW s \in Seq(Calls), NEW t \in Seq(Calls)
  PROVE  s \o t \in Seq(Calls) /\ Len(s \o t) = Len(s) + Len(t) /\ From(s \o t, s, t)
<1>1. /\ s \o t \in Seq(Calls) /\ Len(s \o t) = Len(s) + Len(t)
      /\ \A i \in 1..Len(s) + Len(t) : (s \o t)[i] = IF i <= Len(s) THEN s[i] ELSE t[i - Len(s)]
  BY ConcatProperties
<1>2. Len(s) \in Nat /\ Len(t) \in Nat
  BY LenProperties
<1>3. ASSUME NEW i \in 1..Len(s \o t)
      PROVE  (\E j \in 1..Len(s) : (s \o t)[i] = s[j]) \/ (\E j \in 1..Len(t) : (s \o t)[i] = t[j])
  <2>1. CASE i <= Len(s)
    BY <1>1, <1>2, <2>1
  <2>2. CASE ~ (i <= Len(s))
    <3>1. i - Len(s) \in 1..Len(t) /\ (s \o t)[i] = t[i - Len(s)]
      BY <1>1, <1>2, <2>2
    <3> QED BY <3>1
  <2> QED BY <2>1, <2>2
<1> QED BY <1>1, <1>3 DEF From

LEMMA SplitFrom ==
  ASSUME NEW s \in Seq(Calls), NEW k \in 0..Len(s)
  PROVE  LET a == SubSeq(s, 1, k)
             b == SubSeq(s, k + 1, Len(s))
         IN  /\ a \in Seq(Calls) /\ b \in Seq(Calls) /\ Len(a) = k /\ Len(b) = Len(s) - k
             /\ From(a, s, <<>>) /\ From(b, s, <<>>)
<1> DEFINE a == SubSeq(s, 1, k)
           b == SubSeq(s, k + 1, Len(s))
<1>1. Len(s) \in Nat /\ k \in Nat /\ k <= Len(s)
  BY LenProperties
<1>2. /\ a \in Seq(Calls) /\ Len(a) = k /\ \A i \in 1..k : a[i] = s[i]
  <2>1. 1 \in 1..Len(s) + 1 /\ k \in 0..Len(s)
    BY <1>1
  <2> QED BY <1>1, <2>1, SubSeqProperties
<1>3. /\ b \in Seq(Calls) /\ Len(b) = Len(s) - k /\ \A i \in 1..Len(s) - k : b[i] = s[k + i]
  <2>1. k + 1 \in 1..Len(s) + 1 /\ Len(s) \in k..Len(s)
    BY <1>1
  <2> QED BY <1>1, <2>1, SubSeqProperties
<1>4. ASSUME NEW i \in 1..Len(a) PROVE \E j \in 1..Len(s) : a[i] = s[j]
  BY <1>1, <1>2
<1>5. ASSUME NEW i \in 1..Len(b) PROVE \E j \in 1..Len(s) : b[i] = s[j]
  <2>1. k + i \in 1..Len(s) /\ b[i] = s[k + i]
    BY <1>1, <1>3
  <2> QED BY <2>1
<1> QED BY <1>2, <1>3, <1>4, <1>5 DEF From

\* SendToServer with nothing in flight either sends or fails.
LEMMA SendKinds ==
  ASSUME QueueTypes, sendcall # <<>>, waitcall = <<>>, donecall = <<>>,
         NEW more, SendToServer(more),
         UNCHANGED <<got, readbuf, peerq, inbox, upc>>,
         hpc' # "next", hpc' = "recv" => readbuf # <<>> /\ ~closeWhenEmpty'
  PROVE  Sent \/ Failed
<1>1. Head(sendcall) \in Calls
  BY HeadTailProperties DEF QueueTypes
<1>2. CASE /\ sendcall' = Tail(sendcall) /\ waitcall' = Append(waitcall, Head(sendcall))
           /\ writebuf' = Append(writebuf, Head(sendcall))
           /\ UNCHANGED <<closeWhenEmpty, status, donecall>>
  BY <1>2 DEF SendToServer, Sent
<1>3. CASE status' = [Cancelled("SERIA_FAILED") EXCEPT ![Head(sendcall)] = "SERIA_FAILED"]
           /\ sendcall' = <<>> /\ waitcall' = <<Head(sendcall)>> /\ donecall' = <<>>
           /\ closeWhenEmpty' /\ writebuf' = writebuf
  <2>1. /\ Cancelled("SERIA_FAILED") \in [Calls -> Codes]
        /\ \A c \in Calls : IF c \in ToSet(sendcall) \cup ToSet(waitcall) \cup ToSet(donecall)
                            THEN Cancelled("SERIA_FAILED")[c] # "unset"
                            ELSE Cancelled("SERIA_FAILED")[c] = status[c]
    BY DEF Cancelled, QueueTypes, Codes
  <2>2. Head(sendcall) \in ToSet(sendcall)
    <3>1. sendcall \in Seq(Calls) /\ Head(sendcall) = sendcall[1] /\ 1 \in DOMAIN sendcall
      BY LenProperties, EmptySeq DEF QueueTypes
    <3> QED BY <3>1 DEF ToSet
  <2>3. /\ status' \in [Calls -> Codes] /\ status'[Head(sendcall)] = "SERIA_FAILED"
        /\ \A c \in Calls \ {Head(sendcall)} : status'[c] = Cancelled("SERIA_FAILED")[c]
    BY <1>1, <1>3, <2>1 DEF Codes
  <2>4. \A c \in Calls : IF c \in ToSet(sendcall) \cup ToSet(waitcall) \cup ToSet(donecall)
                         THEN status'[c] # "unset" ELSE status'[c] = status[c]
    BY <2>1, <2>2, <2>3
  <2>5. readbuf' \in Seq(Calls)
    BY DEF QueueTypes
  <2> QED BY <1>3, <2>3, <2>4, <2>5 DEF Failed
<1> QED BY <1>2, <1>3 DEF SendToServer

\* OnMessageError.
LEMMA ErrorKinds ==
  ASSUME QueueTypes, NEW code \in Codes \ {"unset"}, OnMessageError(code), hpc' \notin {"next", "recv"},
         readbuf' \in Seq(Calls), UNCHANGED <<got, writebuf, peerq, inbox, upc>>,
         ~Awaited' \/ (donecall # <<>> /\ readbuf # <<>> /\ readbuf' = Tail(readbuf))
  PROVE  Failed
<1>1. /\ Cancelled(code) \in [Calls -> Codes]
      /\ \A c \in Calls : IF c \in ToSet(sendcall) \cup ToSet(waitcall) \cup ToSet(donecall)
                          THEN Cancelled(code)[c] # "unset" ELSE Cancelled(code)[c] = status[c]
  BY DEF Cancelled, QueueTypes, Codes
<1> QED BY <1>1 DEF OnMessageError, Failed

LEMMA BusyKinds ==
  QueueTypes /\ InStep /\ Busy /\ [Next]_vars =>
    Calm \/ Pushed \/ ReadIn \/ Received \/ Stray \/ Sent \/ Failed \/ Flushed \/ Replied
<1> SUFFICES ASSUME QueueTypes, InStep, Busy, [Next]_vars
             PROVE  Calm \/ Pushed \/ ReadIn \/ Received \/ Stray \/ Sent \/ Failed \/ Flushed \/ Replied
  OBVIOUS
<1> USE DEF userVars, streamVars, callVars, bufVars, epollVars, handlerVars, netVars
<1>q. /\ sendcall \in Seq(Calls) /\ waitcall \in Seq(Calls) /\ donecall \in Seq(Calls)
      /\ writebuf \in Seq(Calls) /\ readbuf \in Seq(Calls) /\ peerq \in Seq(Calls) /\ inbox \in Seq(Calls)
      /\ upc \in [Calls -> {"idle", "mod", "wait", "returned", "crashed"}]
  BY DEF QueueTypes
<1>1. ASSUME NEW c \in Calls, CallPush(c) PROVE Pushed \/ Calm
  <2>1. CASE implDeleted
    BY <1>1, <1>q, <2>1 DEF CallPush, Calm
  <2>2. CASE ~implDeleted
    BY <1>1, <2>2 DEF CallPush, Pushed
  <2> QED BY <2>1, <2>2
<1>2. CASE OnReadable
  <2>1. inbox' = <<>> /\ UNCHANGED <<sendcall, waitcall, donecall, status, got, writebuf, peerq, upc, closeWhenEmpty>>
    BY <1>2 DEF OnReadable, Unread
  <2>2. PhaseAfter(1, hmask) \notin {"next", "recv"}
    BY PhaseIsPhase
  <2>3. CASE link \in {"fin", "rst"}
    <3>1. readbuf' = readbuf /\ hpc' \notin {"next", "recv"}
      BY <1>2, <2>2, <2>3 DEF OnReadable
    <3>2. Len(readbuf) \in Nat /\ Len(inbox) \in Nat
      BY <1>q, LenProperties
    <3>3. Len(readbuf') <= Len(readbuf) + Len(inbox) /\ From(readbuf', readbuf, inbox)
      BY <3>1, <3>2 DEF From
    <3> QED BY <2>1, <2>3, <3>1, <3>3, <1>q DEF ReadIn
  <2>4. CASE link \notin {"fin", "rst"}
    <3>1. /\ readbuf' = IF garbled THEN <<>> ELSE readbuf \o inbox
          /\ hpc' # "next" /\ (hpc' = "recv" => inbox # <<>> /\ ~garbled)
      BY <1>2, <2>2, <2>4 DEF OnReadable, HContinue, HGoto
    <3>2. CASE garbled
      <4>1. readbuf' = <<>> /\ Len(readbuf') = 0 /\ readbuf' \in Seq(Calls)
        BY <3>1, <3>2, EmptySeq
      <4>2. Len(readbuf) \in Nat /\ Len(inbox) \in Nat
        BY <1>q, LenProperties
      <4>3. Len(readbuf') <= Len(readbuf) + Len(inbox) /\ From(readbuf', readbuf, inbox)
        BY <4>1, <4>2 DEF From
      <4> QED BY <2>1, <3>1, <3>2, <4>1, <4>3 DEF ReadIn
    <3>3. CASE ~garbled
      <4>1. /\ readbuf' \in Seq(Calls) /\ Len(readbuf') = Len(readbuf) + Len(inbox)
            /\ From(readbuf', readbuf, inbox)
        BY <3>1, <3>3, <1>q, ConcatFrom
      <4>2. Len(readbuf) \in Nat /\ Len(inbox) \in Nat /\ (inbox # <<>> => Len(inbox) >= 1)
        BY <1>q, LenProperties, EmptySeq
      <4>3. Len(readbuf') <= Len(readbuf) + Len(inbox)
        BY <4>1, <4>2
      <4>4. hpc' = "recv" => readbuf' # <<>>
        <5>1. inbox # <<>> => Len(readbuf') >= 1
          BY <4>1, <4>2
        <5>2. Len(<<>>) = 0
          BY EmptySeq
        <5> QED BY <3>1, <5>1, <5>2
      <4> QED BY <2>1, <3>1, <4>1, <4>3, <4>4 DEF ReadIn
    <3> QED BY <3>2, <3>3
  <2> QED BY <2>3, <2>4
<1>3. CASE OnMessageRecived
  <2>1. /\ hpc = "recv" /\ readbuf # <<>> /\ UNCHANGED <<writebuf, peerq, inbox, upc>>
    BY <1>3 DEF OnMessageRecived, InStep
  <2>2. PhaseAfter(1, hmask) \notin {"next", "recv"}
    BY PhaseIsPhase
  <2>3. CASE donecall = <<>> /\ readbuf' = <<>> /\ HContinue(1) /\ UNCHANGED <<closeWhenEmpty, callVars>>
    BY <2>1, <2>2, <2>3 DEF Stray, HContinue, HGoto
  <2>4. CASE /\ donecall # <<>>
             /\ donecall' = Tail(donecall) /\ readbuf' = Tail(readbuf)
             /\ got' = [got EXCEPT ![Head(donecall)] = Head(readbuf)]
             /\ status' = [status EXCEPT ![Head(donecall)] = "OK"]
             /\ HGoto("next")
             /\ UNCHANGED <<closeWhenEmpty, sendcall, waitcall, garbled>>
    BY <2>1, <2>4 DEF Received, HGoto
  <2>5. CASE /\ donecall # <<>>
             /\ readbuf' = Tail(readbuf) /\ OnMessageError("PARSER_FAILED") /\ HContinue(1)
             /\ UNCHANGED <<got, doneRan, garbled>>
    <3>1. readbuf' \in Seq(Calls)
      BY <2>1, <2>5, <1>q, HeadTailProperties
    <3>2. "PARSER_FAILED" \in Codes \ {"unset"} /\ hpc' \notin {"next", "recv"}
      BY <2>2, <2>5 DEF HContinue, HGoto, Codes
    <3> QED BY <2>1, <2>5, <3>1, <3>2, ErrorKinds
  <2> QED BY <1>3, <2>3, <2>4, <2>5 DEF OnMessageRecived
<1>4. CASE SendNext
  <2>1. /\ hpc = "next" /\ waitcall = <<>> /\ donecall = <<>>
        /\ UNCHANGED <<got, readbuf, peerq, inbox, upc, garbled>>
    BY <1>4 DEF SendNext, InStep
  <2>2. hpc' # "next" /\ (hpc' = "recv" => readbuf # <<>> /\ ~closeWhenEmpty')
    BY <1>4, PhaseIsPhase DEF SendNext, HContinue, HGoto
  <2>3. CASE sendcall # <<>>
    <3>1. SendToServer(<<"SetW">>)
      BY <1>4, <2>3 DEF SendNext
    <3> QED BY <2>1, <2>2, <2>3, <3>1, SendKinds
  <2>4. CASE sendcall = <<>>
    <3>1. UNCHANGED <<sendcall, waitcall, donecall, status, writebuf, closeWhenEmpty>>
      BY <1>4, <2>4 DEF SendNext
    <3> QED BY <2>1, <2>2, <3>1, <1>q DEF Calm
  <2> QED BY <2>3, <2>4
<1>5. CASE HandlerWriteable
  <2>1. UNCHANGED <<got, readbuf, garbled, peerq, inbox, upc>>
    BY <1>5 DEF HandlerWriteable
  <2>2. hpc' \notin {"next", "recv"}
    BY <1>5, PhaseIsPhase DEF HandlerWriteable, HContinue, HGoto
  <2>3. CASE MaySend
    <3>1. sendcall # <<>> /\ waitcall = <<>> /\ donecall = <<>> /\ SendToServer(<<>>)
      BY <1>5, <2>3 DEF HandlerWriteable, MaySend
    <3> QED BY <2>1, <2>2, <3>1, SendKinds
  <2>4. CASE ~MaySend
    <3>1. UNCHANGED <<sendcall, waitcall, donecall, status, writebuf, closeWhenEmpty>>
      BY <1>5, <2>4 DEF HandlerWriteable
    <3> QED BY <2>1, <2>2, <3>1, <1>q DEF Calm
  <2> QED BY <2>3, <2>4
<1>6. CASE FlushAll
  <2>1. /\ writebuf' = <<>> /\ peerq' = peerq \o writebuf
        /\ UNCHANGED <<sendcall, status, got, readbuf, inbox, upc, closeWhenEmpty>>
    BY <1>6 DEF FlushAll
  <2>2. hpc' \notin {"next", "recv"}
    BY <1>6, PhaseIsPhase DEF FlushAll, HContinue, HGoto
  <2>3. /\ peerq' \in Seq(Calls) /\ Len(peerq') = Len(peerq) + Len(writebuf) /\ From(peerq', peerq, writebuf)
    BY <2>1, <1>q, ConcatFrom
  <2>4. writebuf' \in Seq(Calls) /\ Len(writebuf') = 0 /\ From(writebuf', writebuf, <<>>)
    <3>1. writebuf' \in Seq(Calls) /\ Len(writebuf') = 0
      BY <2>1, EmptySeq
    <3> QED BY <3>1 DEF From
  <2>5. Len(peerq') + Len(writebuf') = Len(peerq) + Len(writebuf)
    <3>1. Len(peerq) \in Nat /\ Len(writebuf) \in Nat
      BY <1>q, LenProperties
    <3> QED BY <2>3, <2>4, <3>1
  <2>6. \/ waitcall = <<>> /\ UNCHANGED <<waitcall, donecall>>
        \/ waitcall # <<>> /\ waitcall' = Tail(waitcall) /\ donecall' = Append(donecall, Head(waitcall))
    BY <1>6 DEF FlushAll, OnMessageSended
  <2> QED BY <2>1, <2>2, <2>3, <2>4, <2>5, <2>6 DEF Flushed
<1>7. CASE FlushSome
  <2>1. UNCHANGED <<sendcall, status, got, readbuf, garbled, inbox, upc, closeWhenEmpty>>
    BY <1>7 DEF FlushSome
  <2>2. hpc' \notin {"next", "recv"}
    BY <1>7, PhaseIsPhase DEF FlushSome, HContinue, HGoto
  <2>3. CASE room
    <3>1. PICK k \in 0..(Len(writebuf) - 1) :
             /\ peerq' = peerq \o SubSeq(writebuf, 1, k)
             /\ writebuf' = SubSeq(writebuf, k + 1, Len(writebuf))
      BY <1>7, <2>3 DEF FlushSome
    <3> DEFINE a == SubSeq(writebuf, 1, k)
    <3>2. Len(writebuf) \in Nat /\ Len(peerq) \in Nat /\ k \in 0..Len(writebuf)
      BY <1>q, LenProperties
    <3>3. /\ a \in Seq(Calls) /\ writebuf' \in Seq(Calls) /\ Len(a) = k /\ Len(writebuf') = Len(writebuf) - k
          /\ From(a, writebuf, <<>>) /\ From(writebuf', writebuf, <<>>)
      BY <3>1, <3>2, <1>q, SplitFrom
    <3> HIDE DEF a
    <3>4. peerq' \in Seq(Calls) /\ Len(peerq') = Len(peerq) + Len(a) /\ From(peerq', peerq, a)
      BY <3>1, <3>3, <1>q, ConcatFrom DEF a
    <3>5. From(peerq', peerq, writebuf)
      <4>1. \A i \in 1..Len(a) : \E j \in 1..Len(writebuf) : a[i] = writebuf[j]
        <5>1. Len(<<>>) = 0
          BY EmptySeq
        <5> QED BY <3>3, <5>1 DEF From
      <4>2. ASSUME NEW i \in 1..Len(peerq')
            PROVE  \/ \E j \in 1..Len(peerq) : peerq'[i] = peerq[j]
                   \/ \E j \in 1..Len(writebuf) : peerq'[i] = writebuf[j]
        BY <3>4, <4>1 DEF From
      <4> QED BY <4>2 DEF From
    <3>6. Len(peerq') + Len(writebuf') = Len(peerq) + Len(writebuf)
      BY <3>2, <3>3, <3>4
    <3>7. \/ waitcall = <<>> /\ UNCHANGED <<waitcall, donecall>>
          \/ waitcall # <<>> /\ waitcall' = Tail(waitcall) /\ donecall' = Append(donecall, Head(waitcall))
      BY <1>7, <2>3 DEF FlushSome, OnMessageSended
    <3> QED BY <2>1, <2>2, <3>3, <3>4, <3>5, <3>6, <3>7 DEF Flushed
  <2>4. CASE ~room
    <3>1. UNCHANGED <<peerq, writebuf, waitcall, donecall>>
      BY <1>7, <2>4 DEF FlushSome
    <3> QED BY <2>1, <2>2, <3>1, <1>q DEF Calm
  <2> QED BY <2>3, <2>4
<1>8. ASSUME NEW i \in {3, 4}, NEW code \in Codes \ {"unset"}, TimeOut(i, code) PROVE Failed
  <2>1. hpc' \notin {"next", "recv"}
    BY <1>8, PhaseIsPhase DEF TimeOut, HContinue, HGoto
  <2>2. OnMessageError(code) /\ UNCHANGED <<got, writebuf, readbuf, peerq, inbox, upc>>
    BY <1>8 DEF TimeOut
  <2>3. ~Awaited'
    <3>1. hpc = Phases[i] /\ Phases[3] = "RTIME" /\ Phases[4] = "WTIME"
      BY <1>8 DEF TimeOut, Phases
    <3>2. ~NoTimeouts
      BY <3>1 DEF InStep, Handles
    <3>3. ~NoTimeouts'
      BY <3>2, StepHandles DEF InStep
    <3>4. closeWhenEmpty'
      BY <2>2 DEF OnMessageError
    <3> QED BY <3>3, <3>4 DEF Awaited
  <2> QED BY <2>1, <2>2, <2>3, <1>q, ErrorKinds
<1>9. CASE OnReadTimeOut \/ OnWriteTimeOut
  <2>1. "RECV_TIMEOUT" \in Codes \ {"unset"} /\ "SEND_TIMEOUT" \in Codes \ {"unset"}
    BY DEF Codes
  <2> QED BY <1>8, <1>9, <2>1 DEF OnReadTimeOut, OnWriteTimeOut
<1>10. CASE OnCloseCancel
  <2>1. hpc' = "delete" /\ UNCHANGED <<got, writebuf, readbuf, garbled, peerq, inbox, upc>>
    BY <1>10 DEF OnCloseCancel, HGoto
  <2>2. CASE UNCHANGED <<callVars, closeWhenEmpty, tasks>>
    BY <2>1, <2>2, <1>q DEF Calm
  <2>3. CASE OnMessageError("CANCEL_BY_CLOSE")
    <3>1. "CANCEL_BY_CLOSE" \in Codes \ {"unset"}
      BY DEF Codes
    <3>2. ~Awaited'
      BY <1>10, <2>3 DEF OnCloseCancel, OnMessageError, Awaited
    <3> QED BY <2>1, <2>3, <3>1, <3>2, <1>q, ErrorKinds
  <2> QED BY <1>10, <2>2, <2>3 DEF OnCloseCancel
<1>11. CASE PeerReplies
  BY <1>11 DEF PeerReplies, Replied
<1> QED BY <1>1, <1>2, <1>3, <1>4, <1>5, <1>6, <1>7, <1>9, <1>10, <1>11 DEF Busy
-----------------------------------------------------------------------------
(* What each kind of step preserves.                                       *)

LEMMA StepQueueTypes == QueueTypes /\ InStep /\ [Next]_vars => QueueTypes'
<1> SUFFICES ASSUME QueueTypes, InStep, [Next]_vars PROVE QueueTypes'
  OBVIOUS
<1>q. /\ sendcall \in Seq(Calls) /\ waitcall \in Seq(Calls) /\ donecall \in Seq(Calls)
      /\ writebuf \in Seq(Calls) /\ readbuf \in Seq(Calls) /\ peerq \in Seq(Calls) /\ inbox \in Seq(Calls)
  BY DEF QueueTypes
<1>v. /\ status \in [Calls -> Codes] /\ got \in [Calls -> Calls \cup {NoCall}]
      /\ upc \in [Calls -> {"idle", "mod", "wait", "returned", "crashed"}]
  BY DEF QueueTypes
<1>h. ASSUME NEW q \in Seq(Calls), q # <<>> PROVE Head(q) \in Calls /\ Tail(q) \in Seq(Calls)
  BY <1>h, HeadTailProperties
<1>a. ASSUME NEW q \in Seq(Calls), NEW c \in Calls PROVE Append(q, c) \in Seq(Calls)
  BY AppendProperties
<1>e. <<>> \in Seq(Calls)
  BY EmptySeq
<1>1. CASE Calm
  BY <1>1 DEF Calm, QueueTypes
<1>2. CASE Pushed
  <2>1. sendcall' \in Seq(Calls)
    BY <1>2, <1>a, <1>q DEF Pushed
  <2>2. upc' \in [Calls -> {"idle", "mod", "wait", "returned", "crashed"}]
    BY <1>2, <1>v DEF Pushed
  <2> QED BY <1>2, <2>1, <2>2 DEF Pushed, QueueTypes
<1>3. CASE ReadIn
  BY <1>3, <1>e DEF ReadIn, QueueTypes
<1>4. CASE Received
  <2>1. donecall' \in Seq(Calls) /\ readbuf' \in Seq(Calls) /\ Head(donecall) \in Calls /\ Head(readbuf) \in Calls
    BY <1>4, <1>h, <1>q DEF Received
  <2>2. status' \in [Calls -> Codes] /\ got' \in [Calls -> Calls \cup {NoCall}]
    BY <1>4, <2>1, <1>v DEF Received, Codes
  <2> QED BY <1>4, <2>1, <2>2 DEF Received, QueueTypes
<1>5. CASE Stray
  BY <1>5, <1>e DEF Stray, QueueTypes
<1>6. CASE Sent
  <2>1. Head(sendcall) \in Calls /\ sendcall' \in Seq(Calls)
    BY <1>6, <1>h, <1>q DEF Sent
  <2>2. waitcall' \in Seq(Calls) /\ writebuf' \in Seq(Calls)
    BY <1>6, <1>a, <1>q, <2>1 DEF Sent
  <2> QED BY <1>6, <2>1, <2>2 DEF Sent, QueueTypes
<1>7. CASE Failed
  <2>1. sendcall' \in Seq(Calls) /\ donecall' \in Seq(Calls)
    BY <1>7, <1>e DEF Failed
  <2>2. waitcall' \in Seq(Calls)
    <3>1. CASE waitcall' = <<>>
      BY <3>1, <1>e
    <3>2. CASE sendcall # <<>> /\ waitcall' = <<Head(sendcall)>>
      <4>1. Head(sendcall) \in Calls
        BY <3>2, <1>h, <1>q
      <4> QED BY <3>2, <4>1
    <3> QED BY <1>7, <3>1, <3>2 DEF Failed
  <2> QED BY <1>7, <2>1, <2>2 DEF Failed, QueueTypes
<1>8. CASE Flushed
  <2>1. waitcall' \in Seq(Calls) /\ donecall' \in Seq(Calls)
    <3>1. CASE waitcall = <<>> /\ UNCHANGED <<waitcall, donecall>>
      BY <3>1, <1>q
    <3>2. CASE waitcall # <<>> /\ waitcall' = Tail(waitcall) /\ donecall' = Append(donecall, Head(waitcall))
      <4>1. Head(waitcall) \in Calls /\ Tail(waitcall) \in Seq(Calls)
        BY <3>2, <1>h, <1>q
      <4> QED BY <3>2, <4>1, <1>a, <1>q
    <3> QED BY <1>8, <3>1, <3>2 DEF Flushed
  <2> QED BY <1>8, <2>1 DEF Flushed, QueueTypes
<1>9. CASE Replied
  <2>1. Head(peerq) \in Calls /\ peerq' \in Seq(Calls)
    BY <1>9, <1>h, <1>q DEF Replied
  <2>2. inbox' \in Seq(Calls)
    BY <1>9, <2>1, <1>a, <1>q DEF Replied
  <2> QED BY <1>9, <2>1, <2>2 DEF Replied, QueueTypes
<1> QED BY <1>1, <1>2, <1>3, <1>4, <1>5, <1>6, <1>7, <1>8, <1>9, CalmOrBusy, BusyKinds

\* Lengths of what the steps build.
LEMMA Lengths ==
  /\ \A q \in Seq(Calls) : Len(q) \in Nat /\ (q = <<>> <=> Len(q) = 0)
  /\ \A q \in Seq(Calls) : q # <<>> => Len(Tail(q)) = Len(q) - 1 /\ Head(q) = q[1] /\ Head(q) \in Calls
                                       /\ \A i \in 1..Len(q) - 1 : Tail(q)[i] = q[i + 1]
  /\ \A q \in Seq(Calls), c \in Calls : /\ Len(Append(q, c)) = Len(q) + 1
                                        /\ \A i \in 1..Len(q) : Append(q, c)[i] = q[i]
                                        /\ Append(q, c)[Len(q) + 1] = c
<1>1. ASSUME NEW q \in Seq(Calls) PROVE Len(q) \in Nat /\ (q = <<>> <=> Len(q) = 0)
  BY LenProperties, EmptySeq
<1>2. ASSUME NEW q \in Seq(Calls), q # <<>>
      PROVE  /\ Len(Tail(q)) = Len(q) - 1 /\ Head(q) = q[1] /\ Head(q) \in Calls
             /\ \A i \in 1..Len(q) - 1 : Tail(q)[i] = q[i + 1]
  BY <1>2, HeadTailProperties
<1>3. ASSUME NEW q \in Seq(Calls), NEW c \in Calls
      PROVE  /\ Len(Append(q, c)) = Len(q) + 1
             /\ \A i \in 1..Len(q) : Append(q, c)[i] = q[i]
             /\ Append(q, c)[Len(q) + 1] = c
  BY AppendProperties
<1> QED BY <1>1, <1>2, <1>3

\* One call in flight, and nothing on its way for nobody.
LEMMA StepInStep == QueueTypes /\ InStep /\ [Next]_vars => InStep'
<1> SUFFICES ASSUME QueueTypes, InStep, [Next]_vars PROVE InStep'
  OBVIOUS
<1>q. /\ sendcall \in Seq(Calls) /\ waitcall \in Seq(Calls) /\ donecall \in Seq(Calls)
      /\ writebuf \in Seq(Calls) /\ readbuf \in Seq(Calls) /\ peerq \in Seq(Calls) /\ inbox \in Seq(Calls)
  BY DEF QueueTypes
<1>r. /\ sendcall' \in Seq(Calls) /\ waitcall' \in Seq(Calls) /\ donecall' \in Seq(Calls)
      /\ writebuf' \in Seq(Calls) /\ readbuf' \in Seq(Calls) /\ peerq' \in Seq(Calls) /\ inbox' \in Seq(Calls)
  BY StepQueueTypes DEF QueueTypes
<1>n. /\ Len(waitcall) \in Nat /\ Len(donecall) \in Nat /\ Len(writebuf) \in Nat
      /\ Len(readbuf) \in Nat /\ Len(peerq) \in Nat /\ Len(inbox) \in Nat
      /\ Len(waitcall') \in Nat /\ Len(donecall') \in Nat /\ Len(writebuf') \in Nat
      /\ Len(readbuf') \in Nat /\ Len(peerq') \in Nat /\ Len(inbox') \in Nat
  BY <1>q, <1>r, Lengths
<1>z. /\ waitcall = <<>> <=> Len(waitcall) = 0
      /\ donecall = <<>> <=> Len(donecall) = 0
      /\ readbuf = <<>> <=> Len(readbuf) = 0
      /\ peerq = <<>> <=> Len(peerq) = 0
      /\ Len(<<>>) = 0
  BY <1>q, Lengths, EmptySeq
<1>s. /\ Len(waitcall) + Len(donecall) <= 1
      /\ hpc = "next" => waitcall = <<>> /\ donecall = <<>>
      /\ hpc = "recv" => readbuf # <<>>
      /\ Awaited' => Len(readbuf) + Len(inbox) + Len(peerq) <= Len(donecall)
      /\ Awaited' => Len(readbuf) + Len(inbox) + Len(peerq) + Len(writebuf) <= Len(donecall) + Len(waitcall)
  BY AwaitedBefore DEF InStep, OneInFlight
<1>l. Handles'
  BY StepHandles DEF InStep
<1> SUFFICES
      /\ Len(waitcall') + Len(donecall') <= 1
      /\ hpc' = "next" => waitcall' = <<>> /\ donecall' = <<>>
      /\ hpc' = "recv" => readbuf' # <<>>
      /\ Awaited' => Len(readbuf') + Len(inbox') + Len(peerq') <= Len(donecall')
      /\ Awaited' => Len(readbuf') + Len(inbox') + Len(peerq') + Len(writebuf') <= Len(donecall') + Len(waitcall')
  BY <1>l DEF InStep, OneInFlight
<1>1. CASE Calm
  BY <1>1, <1>s DEF Calm
<1>2. CASE Pushed
  BY <1>2, <1>s DEF Pushed
<1>3. CASE ReadIn
  <2>1. Len(inbox') = 0 /\ Len(readbuf') <= Len(readbuf) + Len(inbox)
    BY <1>3, <1>z DEF ReadIn
  <2>2. /\ UNCHANGED <<waitcall, donecall, writebuf, peerq, closeWhenEmpty>>
        /\ hpc' # "next" /\ (hpc' = "recv" => readbuf' # <<>>)
    BY <1>3 DEF ReadIn
  <2> QED BY <1>n, <1>s, <2>1, <2>2
<1>4. CASE Received
  <2>1. Len(donecall') = Len(donecall) - 1 /\ Len(readbuf') = Len(readbuf) - 1 /\ Len(donecall) >= 1
    BY <1>4, <1>q, <1>n, <1>z, Lengths DEF Received
  <2>2. hpc' = "next" /\ UNCHANGED <<waitcall, writebuf, peerq, inbox, closeWhenEmpty>>
    BY <1>4 DEF Received
  <2>3. Len(donecall') = 0 /\ Len(waitcall) = 0
    BY <1>n, <1>s, <2>1
  <2>4. waitcall' = <<>> /\ donecall' = <<>>
    BY <2>2, <2>3, <1>r, Lengths
  <2> QED BY <1>n, <1>s, <2>1, <2>2, <2>3, <2>4
<1>5. CASE Stray
  <2>1. Len(readbuf') = 0
    BY <1>5, <1>z DEF Stray
  <2> QED BY <1>5, <1>n, <1>s, <2>1 DEF Stray
<1>6. CASE Sent
  <2>1. Len(waitcall') = Len(waitcall) + 1 /\ Len(writebuf') = Len(writebuf) + 1
    BY <1>6, <1>q, Lengths DEF Sent
  <2>2. Len(waitcall) = 0 /\ Len(donecall) = 0
    BY <1>6, <1>z DEF Sent
  <2>3. /\ UNCHANGED <<donecall, readbuf, peerq, inbox, closeWhenEmpty>>
        /\ hpc' # "next" /\ (hpc' = "recv" => readbuf # <<>>)
    BY <1>6 DEF Sent
  <2> QED BY <1>n, <1>s, <2>1, <2>2, <2>3
<1>7. CASE Failed
  <2>1. Len(donecall') = 0 /\ Len(waitcall') <= 1
    <3>1. \A x : Len(<<x>>) = 1
      OBVIOUS
    <3>2. waitcall' = <<>> \/ \E x : waitcall' = <<x>>
      BY <1>7 DEF Failed
    <3>3. Len(waitcall') <= 1
      <4>1. 0 <= 1 /\ 1 <= 1
        OBVIOUS
      <4>2. Len(waitcall') = 0 \/ Len(waitcall') = 1
        BY <1>z, <3>1, <3>2, Zenon
      <4> QED BY <4>1, <4>2, Zenon
    <3>4. donecall' = <<>>
      BY <1>7 DEF Failed
    <3>5. Len(donecall') = 0
      BY <1>z, <3>4
    <3> QED BY <3>3, <3>5
  <2>2. UNCHANGED <<writebuf, peerq, inbox>> /\ hpc' \notin {"next", "recv"}
    BY <1>7 DEF Failed
  <2>3. CASE ~Awaited'
    BY <1>n, <2>1, <2>2, <2>3
  <2>4. CASE Awaited' /\ waitcall = <<>> /\ donecall = <<>> /\ readbuf' = readbuf
    <3>1. Len(waitcall) = 0 /\ Len(donecall) = 0 /\ Len(readbuf') = Len(readbuf)
      BY <2>4, <1>z
    <3> QED BY <1>n, <1>s, <2>1, <2>2, <2>4, <3>1
  <2>5. CASE Awaited' /\ donecall # <<>> /\ readbuf # <<>> /\ readbuf' = Tail(readbuf)
    <3>1. Len(readbuf') = Len(readbuf) - 1 /\ Len(donecall) # 0 /\ Len(readbuf) # 0
      BY <2>5, <1>q, <1>z, Lengths
    <3>2. Len(donecall) = 1 /\ Len(waitcall) = 0
      <4>1. \A a, b \in Nat : a + b <= 1 /\ b # 0 => b = 1 /\ a = 0
        OBVIOUS
      <4> QED BY <1>n, <1>s, <3>1, <4>1, Zenon
    <3> QED BY <1>n, <1>s, <2>1, <2>2, <2>5, <3>1, <3>2
  <2> QED BY <1>7, <2>3, <2>4, <2>5 DEF Failed
<1>8. CASE Flushed
  <2>1. /\ UNCHANGED <<readbuf, inbox, closeWhenEmpty>> /\ hpc' \notin {"next", "recv"}
        /\ Len(peerq') + Len(writebuf') = Len(peerq) + Len(writebuf)
    BY <1>8 DEF Flushed
  <2>2. Len(waitcall') + Len(donecall') = Len(waitcall) + Len(donecall) /\ Len(waitcall') = 0
    <3>1. CASE waitcall = <<>> /\ UNCHANGED <<waitcall, donecall>>
      BY <3>1, <1>z
    <3>2. CASE waitcall # <<>> /\ waitcall' = Tail(waitcall) /\ donecall' = Append(donecall, Head(waitcall))
      <4>1. Len(waitcall') = Len(waitcall) - 1 /\ Len(donecall') = Len(donecall) + 1
        BY <3>2, <1>q, Lengths
      <4> QED BY <4>1, <1>n, <1>s
    <3> QED BY <1>8, <3>1, <3>2 DEF Flushed
  <2> QED BY <1>n, <1>s, <2>1, <2>2
<1>9. CASE Replied
  <2>1. Len(peerq') = Len(peerq) - 1 /\ Len(inbox') = Len(inbox) + 1
    BY <1>9, <1>q, Lengths DEF Replied
  <2>2. UNCHANGED <<waitcall, donecall, writebuf, readbuf, hpc, closeWhenEmpty>>
    BY <1>9 DEF Replied
  <2> QED BY <1>n, <1>s, <2>1, <2>2
<1> QED BY <1>1, <1>2, <1>3, <1>4, <1>5, <1>6, <1>7, <1>8, <1>9, CalmOrBusy, BusyKinds

\* What is on its way belongs to the call in flight.
LEMMA AwaitedPaired ==
  ASSUME QueueTypes, InStep, Paired, [Next]_vars, Awaited'
  PROVE  /\ Only(readbuf, donecall)' /\ Only(inbox, donecall)' /\ Only(peerq, donecall)'
         /\ Only(writebuf, donecall)' /\ Only(writebuf, waitcall)'
         /\ ResponseMatches'
<1>q. /\ sendcall \in Seq(Calls) /\ waitcall \in Seq(Calls) /\ donecall \in Seq(Calls)
      /\ writebuf \in Seq(Calls) /\ readbuf \in Seq(Calls) /\ peerq \in Seq(Calls) /\ inbox \in Seq(Calls)
  BY DEF QueueTypes
<1>n. /\ Len(waitcall) \in Nat /\ Len(donecall) \in Nat /\ Len(writebuf) \in Nat
      /\ Len(readbuf) \in Nat /\ Len(peerq) \in Nat /\ Len(inbox) \in Nat
  BY <1>q, Lengths
<1>z. Len(<<>>) = 0 /\ (waitcall # <<>> => Len(waitcall) >= 1) /\ (readbuf # <<>> => Len(readbuf) >= 1)
      /\ (donecall # <<>> => Len(donecall) >= 1) /\ (peerq # <<>> => Len(peerq) >= 1)
  BY <1>q, <1>n, Lengths, EmptySeq
<1>o. Len(waitcall) + Len(donecall) <= 1
  BY DEF InStep, OneInFlight
<1>p. /\ Only(readbuf, donecall) /\ Only(inbox, donecall) /\ Only(peerq, donecall)
      /\ Only(writebuf, donecall) /\ Only(writebuf, waitcall)
      /\ \A c \in Calls : got[c] \in {c, NoCall}
      /\ Len(readbuf) + Len(inbox) + Len(peerq) <= Len(donecall)
      /\ Len(readbuf) + Len(inbox) + Len(peerq) + Len(writebuf) <= Len(donecall) + Len(waitcall)
  <2>1. Awaited
    BY AwaitedBefore DEF InStep
  <2>2. ~closeWhenEmpty \/ NoTimeouts
    BY <2>1 DEF Awaited
  <2> QED BY <2>1, <2>2 DEF Paired, InStep, ResponseMatches
<1>1. CASE Calm
  <2>1. UNCHANGED <<waitcall, donecall, got, writebuf, readbuf, peerq, inbox>>
    BY <1>1 DEF Calm
  <2> QED BY <1>p, <2>1 DEF Only, ResponseMatches
<1>2. CASE Pushed
  <2>1. UNCHANGED <<waitcall, donecall, got, writebuf, readbuf, peerq, inbox>>
    BY <1>2 DEF Pushed
  <2> QED BY <1>p, <2>1 DEF Only, ResponseMatches
<1>3. CASE ReadIn
  <2>1. UNCHANGED <<waitcall, donecall, got, writebuf, peerq>> /\ Len(inbox') = 0
    BY <1>3, <1>z DEF ReadIn
  <2>2. From(readbuf', readbuf, inbox)
    BY <1>3 DEF ReadIn
  <2>3. \A i \in 1..Len(readbuf'), j \in 1..Len(donecall) : readbuf'[i] = donecall[j]
    BY <1>p, <2>1, <2>2 DEF Only, From
  <2>4. Only(readbuf, donecall)' /\ Only(inbox, donecall)'
    BY <2>1, <2>3 DEF Only
  <2> QED BY <1>p, <2>1, <2>4 DEF Only, ResponseMatches
<1>4. CASE Received
  <2>1. /\ UNCHANGED <<waitcall, writebuf>> /\ donecall # <<>> /\ readbuf # <<>>
        /\ donecall' = Tail(donecall) /\ got' = [got EXCEPT ![Head(donecall)] = Head(readbuf)]
    BY <1>4 DEF Received
  <2>2. Len(donecall') = 0
    <3>1. Len(donecall') = Len(donecall) - 1
      BY <2>1, <1>q, Lengths
    <3> QED BY <2>1, <3>1, <1>n, <1>z, <1>o
  <2>3. Head(donecall) = donecall[1] /\ Head(readbuf) = readbuf[1] /\ Head(donecall) \in Calls
    BY <2>1, <1>q, Lengths
  <2>4. Head(readbuf) = Head(donecall)
    <3>1. 1 \in 1..Len(readbuf) /\ 1 \in 1..Len(donecall)
      BY <2>1, <1>n, <1>z
    <3> QED BY <2>1, <2>3, <3>1, <1>p DEF Only
  <2>5. ResponseMatches'
    <3>1. \A c \in Calls : got'[c] = got[c] \/ (c = Head(donecall) /\ got'[c] = Head(readbuf))
      BY <2>1, <2>3 DEF QueueTypes
    <3> QED BY <2>1, <2>4, <3>1, <1>p DEF ResponseMatches
  <2>6. /\ Only(readbuf, donecall)' /\ Only(inbox, donecall)' /\ Only(peerq, donecall)'
        /\ Only(writebuf, donecall)'
    BY <2>2 DEF Only
  <2>7. Only(writebuf, waitcall)'
    BY <2>1, <1>p DEF Only
  <2> QED BY <2>5, <2>6, <2>7
<1>5. CASE Stray
  <2>1. UNCHANGED <<waitcall, donecall, got, writebuf, peerq, inbox>> /\ Len(readbuf') = 0
    BY <1>5, <1>z DEF Stray
  <2> QED BY <1>p, <2>1 DEF Only, ResponseMatches
<1>6. CASE Sent
  <2>1. /\ UNCHANGED <<donecall, got, readbuf, peerq, inbox>>
        /\ sendcall # <<>> /\ donecall = <<>> /\ waitcall = <<>>
        /\ waitcall' = Append(waitcall, Head(sendcall)) /\ writebuf' = Append(writebuf, Head(sendcall))
    BY <1>6 DEF Sent
  <2>2. Len(donecall') = 0 /\ Len(waitcall) = 0 /\ Len(writebuf) = 0
    BY <2>1, <1>n, <1>z, <1>p
  <2>3. /\ Len(waitcall') = 1 /\ waitcall'[1] = Head(sendcall)
        /\ Len(writebuf') = 1 /\ writebuf'[1] = Head(sendcall)
    <3>1. Head(sendcall) \in Calls
      BY <2>1, <1>q, Lengths
    <3>2. /\ Len(waitcall') = Len(waitcall) + 1 /\ waitcall'[Len(waitcall) + 1] = Head(sendcall)
          /\ Len(writebuf') = Len(writebuf) + 1 /\ writebuf'[Len(writebuf) + 1] = Head(sendcall)
      BY <2>1, <3>1, <1>q, Lengths
    <3> QED BY <2>2, <3>2
  <2>4. \A i \in 1..Len(writebuf'), j \in 1..Len(waitcall') : writebuf'[i] = waitcall'[j]
    BY <2>3
  <2>5. ResponseMatches'
    BY <2>1, <1>p DEF ResponseMatches
  <2> QED BY <2>2, <2>4, <2>5 DEF Only
<1>7. CASE Failed
  <2>1. Len(donecall') = 0 /\ UNCHANGED <<writebuf, got>>
    BY <1>7, <1>z DEF Failed
  <2>2. Len(writebuf) = 0
    <3>1. CASE waitcall = <<>> /\ donecall = <<>>
      <4>1. Len(waitcall) = 0 /\ Len(donecall) = 0
        BY <3>1, <1>z
      <4> QED BY <1>n, <1>p, <4>1
    <3>2. CASE donecall # <<>> /\ readbuf # <<>>
      BY <1>n, <1>o, <1>p, <1>z, <3>2
    <3> QED BY <1>7, <3>1, <3>2 DEF Failed
  <2> QED BY <2>1, <2>2, <1>p DEF Only, ResponseMatches
<1>8. CASE Flushed
  <2>1. /\ UNCHANGED <<got, readbuf, inbox>>
        /\ From(peerq', peerq, writebuf) /\ From(writebuf', writebuf, <<>>)
    BY <1>8 DEF Flushed
  <2>2. ResponseMatches'
    BY <2>1, <1>p DEF ResponseMatches
  <2>3. \A i \in 1..Len(writebuf') : \E j \in 1..Len(writebuf) : writebuf'[i] = writebuf[j]
    BY <2>1, <1>z DEF From
  <2>4. CASE waitcall = <<>> /\ UNCHANGED <<waitcall, donecall>>
    <3>1. \A i \in 1..Len(writebuf'), j \in 1..Len(donecall) : writebuf'[i] = donecall[j]
      BY <2>1, <2>3, <1>p DEF Only
    <3>2. \A i \in 1..Len(peerq'), j \in 1..Len(donecall) : peerq'[i] = donecall[j]
      <4>1. ASSUME NEW i \in 1..Len(peerq')
            PROVE  \/ \E k \in 1..Len(peerq) : peerq'[i] = peerq[k]
                   \/ \E k \in 1..Len(writebuf) : peerq'[i] = writebuf[k]
        BY <2>1 DEF From
      <4>2. Only(peerq, donecall) /\ Only(writebuf, donecall)
        BY <2>1, <1>p
      <4> QED BY <4>1, <4>2 DEF Only
    <3>3. Len(waitcall') = 0
      BY <2>4, <1>z
    <3> QED BY <2>1, <2>2, <2>4, <3>1, <3>2, <3>3, <1>p DEF Only
  <2>5. CASE waitcall # <<>> /\ waitcall' = Tail(waitcall) /\ donecall' = Append(donecall, Head(waitcall))
    <3>1. /\ Len(waitcall') = Len(waitcall) - 1 /\ Len(donecall') = Len(donecall) + 1
          /\ Head(waitcall) = waitcall[1] /\ donecall'[Len(donecall) + 1] = Head(waitcall)
      BY <2>5, <1>q, Lengths
    <3>2. Len(waitcall) = 1 /\ Len(donecall) = 0 /\ Len(readbuf) = 0 /\ Len(inbox) = 0 /\ Len(peerq) = 0
      BY <2>1, <2>5, <1>n, <1>z, <1>o, <1>p
    <3>3. Len(waitcall') = 0 /\ Len(donecall') = 1 /\ donecall'[1] = waitcall[1]
      BY <3>1, <3>2
    <3>4. \A i \in 1..Len(writebuf) : writebuf[i] = waitcall[1]
      <4>1. 1 \in 1..Len(waitcall)
        BY <3>2
      <4> QED BY <4>1, <2>1, <1>p DEF Only
    <3>5. \A i \in 1..Len(writebuf'), j \in 1..Len(donecall') : writebuf'[i] = donecall'[j]
      BY <2>3, <3>3, <3>4
    <3>6. \A i \in 1..Len(peerq'), j \in 1..Len(donecall') : peerq'[i] = donecall'[j]
      BY <2>1, <3>2, <3>3, <3>4 DEF From
    <3> QED BY <2>1, <2>2, <3>2, <3>3, <3>5, <3>6 DEF Only
  <2> QED BY <1>8, <2>4, <2>5 DEF Flushed
<1>9. CASE Replied
  <2>1. /\ UNCHANGED <<waitcall, donecall, got, writebuf, readbuf>>
        /\ peerq # <<>> /\ peerq' = Tail(peerq) /\ inbox' = Append(inbox, Head(peerq))
    BY <1>9 DEF Replied
  <2>2. /\ Len(peerq') = Len(peerq) - 1 /\ \A i \in 1..Len(peerq) - 1 : peerq'[i] = peerq[i + 1]
        /\ Head(peerq) = peerq[1] /\ Head(peerq) \in Calls
    BY <2>1, <1>q, Lengths
  <2>3. /\ Len(inbox') = Len(inbox) + 1 /\ \A i \in 1..Len(inbox) : inbox'[i] = inbox[i]
        /\ inbox'[Len(inbox) + 1] = peerq[1]
    BY <2>1, <2>2, <1>q, Lengths
  <2>4. 1 \in 1..Len(peerq)
    BY <2>1, <1>n, <1>z
  <2>5. ASSUME NEW i \in 1..Len(peerq'), NEW j \in 1..Len(donecall) PROVE peerq'[i] = donecall[j]
    <3>1. i + 1 \in 1..Len(peerq) /\ peerq'[i] = peerq[i + 1]
      BY <2>2, <1>n
    <3> QED BY <3>1, <2>1, <1>p DEF Only
  <2>6. ASSUME NEW i \in 1..Len(inbox'), NEW j \in 1..Len(donecall) PROVE inbox'[i] = donecall[j]
    <3>1. i \in 1..Len(inbox) \/ i = Len(inbox) + 1
      BY <2>3, <1>n
    <3> QED BY <3>1, <2>1, <2>3, <2>4, <1>p DEF Only
  <2> QED BY <2>1, <2>5, <2>6, <1>p DEF Only, ResponseMatches
<1> QED BY <1>1, <1>2, <1>3, <1>4, <1>5, <1>6, <1>7, <1>8, <1>9, CalmOrBusy, BusyKinds

LEMMA StepPaired == QueueTypes /\ InStep /\ Paired /\ [Next]_vars => Paired'
<1> SUFFICES ASSUME QueueTypes, InStep, Paired, [Next]_vars PROVE Paired'
  OBVIOUS
<1>1. CASE Awaited'
  BY <1>1, AwaitedPaired DEF Paired
<1>2. CASE ~Awaited'
  <2> SUFFICES ASSUME ~closeWhenEmpty' \/ NoTimeouts' PROVE ResponseMatches'
    BY <1>2 DEF Paired
  <2>1. NoTimeouts /\ isClosed'
    BY <1>2, StepHandles DEF Awaited, InStep
  <2>2. hpc' # "next"
    BY <2>1, StepHandles DEF InStep, Handles
  <2>3. got' = got
    BY <2>2, CalmOrBusy, BusyKinds
       DEF Calm, Pushed, ReadIn, Received, Stray, Sent, Failed, Flushed, Replied
  <2>4. ResponseMatches
    BY <2>1 DEF Paired
  <2> QED BY <2>3, <2>4 DEF ResponseMatches
<1> QED BY <1>1, <1>2

\* The calls that have no status yet.
LEMMA StepPending == QueueTypes /\ InStep /\ Pending /\ [Next]_vars => Pending'
<1> SUFFICES ASSUME QueueTypes, InStep, Pending, [Next]_vars PROVE Pending'
  OBVIOUS
<1>q. /\ sendcall \in Seq(Calls) /\ waitcall \in Seq(Calls) /\ donecall \in Seq(Calls)
      /\ writebuf \in Seq(Calls) /\ readbuf \in Seq(Calls) /\ peerq \in Seq(Calls) /\ inbox \in Seq(Calls)
  BY DEF QueueTypes
<1>v. /\ status \in [Calls -> Codes] /\ upc \in [Calls -> {"idle", "mod", "wait", "returned", "crashed"}]
  BY DEF QueueTypes
<1>n. Len(sendcall) \in Nat /\ Len(waitcall) \in Nat /\ Len(donecall) \in Nat
  BY <1>q, Lengths
<1>z. /\ Len(<<>>) = 0 /\ (waitcall # <<>> => Len(waitcall) >= 1)
      /\ (donecall # <<>> => Len(donecall) >= 1) /\ (sendcall # <<>> => Len(sendcall) >= 1)
  BY <1>q, <1>n, Lengths, EmptySeq
<1>o. Len(waitcall) + Len(donecall) <= 1
  BY DEF InStep, OneInFlight
<1>i. /\ \A i \in 1..Len(sendcall) : sendcall[i] \in Calls
      /\ \A i \in 1..Len(waitcall) : waitcall[i] \in Calls
      /\ \A i \in 1..Len(donecall) : donecall[i] \in Calls
  BY <1>q, ElementOfSeq
<1>1. CASE Calm
  BY <1>1 DEF Calm, Pending, Unanswered, Apart
<1>2. CASE Pushed
  <2>1. PICK c \in Calls : /\ upc[c] = "idle" /\ upc' = [upc EXCEPT ![c] = "mod"]
                           /\ sendcall' = Append(sendcall, c)
    BY <1>2 DEF Pushed
  <2>2. UNCHANGED <<waitcall, donecall, status>>
    BY <1>2 DEF Pushed
  <2>3. /\ Len(sendcall') = Len(sendcall) + 1 /\ sendcall'[Len(sendcall) + 1] = c
        /\ \A i \in 1..Len(sendcall) : sendcall'[i] = sendcall[i]
    BY <2>1, <1>q, Lengths
  <2>4. /\ status[c] = "unset" /\ \A i \in 1..Len(sendcall) : sendcall[i] # c
        /\ \A i \in 1..Len(waitcall) : waitcall[i] # c
        /\ \A i \in 1..Len(donecall) : donecall[i] # c
    BY <2>1 DEF Pending
  <2>5. ASSUME NEW i \in 1..Len(sendcall') PROVE i \in 1..Len(sendcall) \/ i = Len(sendcall) + 1
    BY <2>3, <1>n
  <2>6. \A i, j \in 1..Len(sendcall') : sendcall'[i] = sendcall'[j] => i = j
    BY <2>3, <2>4, <2>5 DEF Pending
  <2>7. /\ \A i \in 1..Len(sendcall'), j \in 1..Len(waitcall) : sendcall'[i] # waitcall[j]
        /\ \A i \in 1..Len(sendcall'), j \in 1..Len(donecall) : sendcall'[i] # donecall[j]
    BY <2>3, <2>4, <2>5 DEF Pending, Apart
  <2>8. \A i \in 1..Len(sendcall') : status[sendcall'[i]] \in {"unset", "SERIA_FAILED"}
    BY <2>3, <2>4, <2>5 DEF Pending, Unanswered
  <2>9. ASSUME NEW d \in Calls, upc'[d] = "idle"
        PROVE  /\ status[d] = "unset" /\ \A i \in 1..Len(sendcall') : sendcall'[i] # d
               /\ \A i \in 1..Len(waitcall) : waitcall[i] # d
               /\ \A i \in 1..Len(donecall) : donecall[i] # d
    <3>1. d # c /\ upc[d] = "idle"
      BY <2>1, <2>9, <1>v
    <3> QED BY <3>1, <2>3, <2>5 DEF Pending
  <2>10. Apart(sendcall, waitcall)' /\ Apart(sendcall, donecall)' /\ Unanswered(sendcall)'
    BY <2>2, <2>7, <2>8 DEF Apart, Unanswered
  <2>11. Unanswered(waitcall)' /\ Unanswered(donecall)'
    BY <2>2 DEF Pending, Unanswered
  <2> QED BY <2>2, <2>6, <2>9, <2>10, <2>11 DEF Pending
<1>3. CASE ReadIn \/ Stray \/ Replied
  <2>1. UNCHANGED <<sendcall, waitcall, donecall, status, upc>>
    BY <1>3 DEF ReadIn, Stray, Replied
  <2> QED BY <2>1 DEF Pending, Unanswered, Apart
<1>4. CASE Received
  <2>1. /\ donecall # <<>> /\ donecall' = Tail(donecall)
        /\ status' = [status EXCEPT ![Head(donecall)] = "OK"] /\ UNCHANGED <<sendcall, waitcall, upc>>
    BY <1>4 DEF Received
  <2>2. Len(donecall') = 0 /\ Len(waitcall) = 0 /\ 1 \in 1..Len(donecall)
    <3>1. Len(donecall') = Len(donecall) - 1
      BY <2>1, <1>q, Lengths
    <3> QED BY <2>1, <3>1, <1>n, <1>z, <1>o
  <2>3. Head(donecall) = donecall[1] /\ Head(donecall) \in Calls
    BY <2>1, <1>q, Lengths
  <2>4. \A c \in Calls \ {Head(donecall)} : status'[c] = status[c]
    BY <2>1, <1>v
  <2>5. \A i \in 1..Len(sendcall) : sendcall[i] # Head(donecall)
    BY <2>2, <2>3 DEF Pending, Apart
  <2>6. Unanswered(sendcall)'
    BY <2>1, <2>4, <2>5, <1>i DEF Pending, Unanswered
  <2>7. \A c \in Calls : upc[c] = "idle" => c # Head(donecall)
    BY <2>2, <2>3 DEF Pending
  <2>8. Apart(sendcall, waitcall)' /\ Apart(sendcall, donecall)' /\ Unanswered(waitcall)' /\ Unanswered(donecall)'
    <3>1. Len(waitcall') = 0 /\ Len(donecall') = 0
      BY <2>1, <2>2
    <3>2. Apart(sendcall, waitcall)' /\ Apart(sendcall, donecall)'
      BY <3>1 DEF Apart
    <3>3. Unanswered(waitcall)' /\ Unanswered(donecall)'
      BY <3>1 DEF Unanswered
    <3> QED BY <3>2, <3>3
  <2> QED BY <2>1, <2>2, <2>4, <2>6, <2>7, <2>8 DEF Pending
<1>5. CASE Sent
  <2>1. /\ sendcall # <<>> /\ waitcall = <<>> /\ donecall = <<>>
        /\ sendcall' = Tail(sendcall) /\ waitcall' = Append(waitcall, Head(sendcall))
        /\ UNCHANGED <<donecall, status, upc>>
    BY <1>5 DEF Sent
  <2>2. /\ Len(sendcall') = Len(sendcall) - 1 /\ \A i \in 1..Len(sendcall) - 1 : sendcall'[i] = sendcall[i + 1]
        /\ Head(sendcall) = sendcall[1] /\ Head(sendcall) \in Calls
    BY <2>1, <1>q, Lengths
  <2>3. Len(waitcall') = 1 /\ waitcall'[1] = sendcall[1] /\ Len(donecall) = 0
    <3>1. Len(waitcall') = Len(waitcall) + 1 /\ waitcall'[Len(waitcall) + 1] = Head(sendcall)
      BY <2>1, <2>2, <1>q, Lengths
    <3>2. Len(waitcall) = 0 /\ Len(donecall) = 0
      BY <2>1, <1>z
    <3> QED BY <2>2, <3>1, <3>2
  <2>4. ASSUME NEW i \in 1..Len(sendcall')
        PROVE  i \in Int /\ i + 1 \in 1..Len(sendcall) /\ sendcall'[i] = sendcall[i + 1] /\ i + 1 # 1
    BY <2>2, <1>n
  <2>5. 1 \in 1..Len(sendcall)
    BY <2>1, <1>n, <1>z
  <2>6. ASSUME NEW i \in 1..Len(sendcall'), NEW j \in 1..Len(sendcall'), sendcall'[i] = sendcall'[j] PROVE i = j
    <3>1. i + 1 = j + 1
      BY <2>4, <2>6 DEF Pending
    <3> QED BY <3>1, <2>4
  <2>7. \A i \in 1..Len(sendcall') : sendcall'[i] # sendcall[1]
    BY <2>4, <2>5 DEF Pending
  <2>8. Apart(sendcall, waitcall)' /\ Apart(sendcall, donecall)'
    BY <2>1, <2>3, <2>7 DEF Apart
  <2>9. Unanswered(sendcall)' /\ Unanswered(waitcall)' /\ Unanswered(donecall)'
    BY <2>1, <2>3, <2>4, <2>5 DEF Pending, Unanswered
  <2>10. ASSUME NEW c \in Calls, upc[c] = "idle"
         PROVE  /\ status[c] = "unset" /\ \A i \in 1..Len(sendcall') : sendcall'[i] # c
                /\ \A i \in 1..Len(waitcall') : waitcall'[i] # c
                /\ \A i \in 1..Len(donecall) : donecall[i] # c
    BY <2>3, <2>4, <2>5, <2>10 DEF Pending
  <2> QED BY <2>1, <2>6, <2>8, <2>9, <2>10 DEF Pending
<1>6. CASE Failed
  <2>1. /\ Len(sendcall') = 0 /\ Len(donecall') = 0 /\ upc' = upc
    BY <1>6, <1>z DEF Failed
  <2>2. ASSUME NEW i \in 1..Len(waitcall')
        PROVE  /\ status'[waitcall'[i]] = "SERIA_FAILED"
               /\ 1 \in 1..Len(sendcall) /\ waitcall'[i] = sendcall[1]
    <3>1. waitcall' # <<>>
      BY <1>z
    <3>2. sendcall # <<>> /\ waitcall' = <<Head(sendcall)>> /\ status'[Head(sendcall)] = "SERIA_FAILED"
      BY <3>1, <1>6 DEF Failed
    <3>3. Len(waitcall') = 1 /\ waitcall'[1] = Head(sendcall)
      BY <3>2
    <3>4. i = 1
      BY <3>3
    <3>5. Head(sendcall) = sendcall[1] /\ 1 \in 1..Len(sendcall)
      BY <3>2, <1>q, <1>n, <1>z, Lengths
    <3> QED BY <3>2, <3>3, <3>4, <3>5
  <2>3. Unanswered(sendcall)' /\ Unanswered(waitcall)' /\ Unanswered(donecall)'
    BY <2>1, <2>2 DEF Unanswered
  <2>4. ASSUME NEW c \in Calls, upc[c] = "idle"
        PROVE  status'[c] = "unset" /\ \A i \in 1..Len(waitcall') : waitcall'[i] # c
    <3>1. /\ status[c] = "unset" /\ \A i \in 1..Len(sendcall) : sendcall[i] # c
          /\ \A i \in 1..Len(waitcall) : waitcall[i] # c
          /\ \A i \in 1..Len(donecall) : donecall[i] # c
      BY <2>4 DEF Pending
    <3>2. c \notin ToSet(sendcall) \cup ToSet(waitcall) \cup ToSet(donecall)
      BY <3>1, <1>q, LenProperties DEF ToSet
    <3>3. status'[c] = status[c]
      BY <3>2, <1>6 DEF Failed
    <3> QED BY <2>2, <3>1, <3>3
  <2> QED BY <2>1, <2>3, <2>4 DEF Pending, Apart
<1>7. CASE Flushed
  <2>1. UNCHANGED <<sendcall, status, upc>>
    BY <1>7 DEF Flushed
  <2>2. CASE waitcall = <<>> /\ UNCHANGED <<waitcall, donecall>>
    BY <2>1, <2>2 DEF Pending, Unanswered, Apart
  <2>3. CASE waitcall # <<>> /\ waitcall' = Tail(waitcall) /\ donecall' = Append(donecall, Head(waitcall))
    <3>1. /\ Len(waitcall') = Len(waitcall) - 1 /\ Len(donecall') = Len(donecall) + 1
          /\ Head(waitcall) = waitcall[1] /\ donecall'[Len(donecall) + 1] = Head(waitcall)
      BY <2>3, <1>q, Lengths
    <3>2. Len(waitcall) = 1 /\ Len(donecall) = 0
      <4>1. Len(waitcall) >= 1
        BY <2>3, <1>z
      <4>2. \A a, b \in Nat : a + b <= 1 /\ a >= 1 => a = 1 /\ b = 0
        OBVIOUS
      <4> QED BY <4>1, <4>2, <1>n, <1>o, Zenon
    <3>3. Len(waitcall') = 0 /\ Len(donecall') = 1 /\ donecall'[1] = waitcall[1] /\ 1 \in 1..Len(waitcall)
      BY <3>1, <3>2
    <3>4. \A j \in 1..Len(donecall') : donecall'[j] = waitcall[1]
      BY <3>3
    <3>5. Apart(sendcall, waitcall)' /\ Apart(sendcall, donecall)'
      BY <2>1, <3>3, <3>4 DEF Pending, Apart
    <3>6. Unanswered(sendcall)' /\ Unanswered(waitcall)' /\ Unanswered(donecall)'
      BY <2>1, <3>3, <3>4 DEF Pending, Unanswered
    <3> QED BY <2>1, <3>3, <3>4, <3>5, <3>6 DEF Pending
  <2> QED BY <1>7, <2>2, <2>3 DEF Flushed
<1> QED BY <1>1, <1>2, <1>3, <1>4, <1>5, <1>6, <1>7, CalmOrBusy, BusyKinds
-----------------------------------------------------------------------------
LEMMA InitChannel == Init => ChannelInv
<1> SUFFICES ASSUME Init PROVE ChannelInv
  OBVIOUS
<1>e. <<>> \in Seq(Calls) /\ Len(<<>>) = 0
  BY EmptySeq
<1>1. QueueTypes
  BY <1>e DEF Init, QueueTypes, Codes
<1>2. /\ Len(sendcall) = 0 /\ Len(waitcall) = 0 /\ Len(donecall) = 0 /\ Len(writebuf) = 0
      /\ Len(readbuf) = 0 /\ Len(peerq) = 0 /\ Len(inbox) = 0 /\ hpc = "idle"
  BY <1>e DEF Init
<1>3. InStep
  <2>1. Handles
    BY DEF Init, Handles
  <2> QED BY <1>2, <2>1 DEF InStep, OneInFlight
<1>4. Paired
  <2>1. ResponseMatches
    BY DEF Init, ResponseMatches
  <2> QED BY <1>2, <2>1 DEF Paired, Only
<1>5. Pending
  <2>1. \A c \in Calls : status[c] = "unset"
    BY DEF Init
  <2> QED BY <1>2, <2>1 DEF Pending, Apart, Unanswered
<1> QED BY <1>1, <1>3, <1>4, <1>5 DEF ChannelInv

LEMMA ChannelInvariant == Spec => []ChannelInv
<1>1. ChannelInv /\ [Next]_vars => ChannelInv'
  BY StepQueueTypes, StepInStep, StepPaired, StepPending DEF ChannelInv
<1> QED BY <1>1, InitChannel, PTL DEF Spec

\* Requests are never pipelined, whatever the users, the owner, the network
\* and the timers do (OnWriteable and OnMessageRecived of RpcChannelImpl).
THEOREM NeverPipelined == Spec => []OneInFlight
<1>1. ChannelInv => OneInFlight
  BY DEF ChannelInv, InStep
<1> QED BY <1>1, ChannelInvariant, PTL

\* OnMessageRecived meets an empty donecall only when the stream is to be
\* closed, with every kind of fault and any number of calls.
THEOREM StrayMeansClosing == Spec => []StrayOnlyWhenClosing
<1>1. ChannelInv => StrayOnlyWhenClosing
  <2> SUFFICES ASSUME ChannelInv, hpc = "recv", donecall = <<>>, ~closeWhenEmpty PROVE FALSE
    BY DEF StrayOnlyWhenClosing
  <2>1. readbuf \in Seq(Calls) /\ inbox \in Seq(Calls) /\ peerq \in Seq(Calls) /\ readbuf # <<>>
    BY DEF ChannelInv, QueueTypes, InStep
  <2>2. Len(readbuf) \in Nat \ {0} /\ Len(inbox) \in Nat /\ Len(peerq) \in Nat /\ Len(donecall) = 0
    BY <2>1, EmptySeq, LenProperties
  <2>3. Len(readbuf) + Len(inbox) + Len(peerq) <= Len(donecall)
    BY DEF ChannelInv, InStep, Awaited
  <2> QED BY <2>2, <2>3
<1> QED BY <1>1, ChannelInvariant, PTL

\* Pairing responses with calls by their order alone is right as long as the
\* channel is not to be closed: every call has its own response or none.
\* Without timeouts it is right to the end, also in a channel that is to be
\* closed and still sends calls: an end of file, a response that cannot be
\* parsed or a request that cannot be serialised leaves no response behind
\* for the next call to take.
THEOREM PairedWhileOpen == Spec => []ResponsesPaired
<1>1. ChannelInv => ResponsesPaired
  BY DEF ChannelInv, Paired, ResponsesPaired, NoTimeouts
<1> QED BY <1>1, ChannelInvariant, PTL

\* No controller is given a second status after a good or a failed end, other
\* than a request that could not be serialised: OnMessageError, OnClose and
\* OnMessageRecived never meet the same call twice.
THEOREM OneStatusEach == Spec => StatusGivenOnce
<1>1. ASSUME ChannelInv, [Next]_vars, NEW c \in Calls, status[c] \notin {"unset", "SERIA_FAILED"}
      PROVE  status'[c] = status[c]
  <2>1. QueueTypes /\ InStep /\ Pending
    BY <1>1 DEF ChannelInv
  <2>2. sendcall \in Seq(Calls) /\ waitcall \in Seq(Calls) /\ donecall \in Seq(Calls) /\ status \in [Calls -> Codes]
    BY <2>1 DEF QueueTypes
  <2>3. c \notin ToSet(sendcall) \cup ToSet(waitcall) \cup ToSet(donecall)
    <3>1. ASSUME NEW q \in Seq(Calls), Unanswered(q) PROVE c \notin ToSet(q)
      <4>1. DOMAIN q = 1..Len(q)
        BY LenProperties
      <4> QED BY <1>1, <3>1, <4>1 DEF ToSet, Unanswered
    <3>2. Unanswered(sendcall) /\ Unanswered(waitcall) /\ Unanswered(donecall)
      BY <2>1 DEF Pending
    <3> QED BY <2>2, <3>1, <3>2
  <2>4. CASE Received
    <3>1. Head(donecall) \in ToSet(donecall) /\ status' = [status EXCEPT ![Head(donecall)] = "OK"]
      <4>1. Head(donecall) = donecall[1] /\ 1 \in DOMAIN donecall
        BY <2>2, <2>4, LenProperties, EmptySeq, HeadTailProperties DEF Received
      <4> QED BY <2>4, <4>1 DEF Received, ToSet
    <3> QED BY <2>2, <2>3, <3>1
  <2>5. CASE Failed
    BY <2>3, <2>5 DEF Failed
  <2>6. CASE Calm \/ Pushed \/ ReadIn \/ Stray \/ Sent \/ Flushed \/ Replied
    BY <2>6 DEF Calm, Pushed, ReadIn, Stray, Sent, Flushed, Replied
  <2> QED BY <1>1, <2>1, <2>4, <2>5, <2>6, CalmOrBusy, BusyKinds
<1>2. ChannelInv /\ [Next]_vars =>
        [\A c \in Calls : status[c] \notin {"unset", "SERIA_FAILED"} => status'[c] = status[c]]_vars
  BY <1>1
<1> QED BY <1>2, ChannelInvariant, PTL DEF Spec, StatusGivenOnce
-----------------------------------------------------------------------------
(* Nothing is stranded at rest.  The invariant follows a wish to write from *)
(* the ModEvent tasks that are posted to the interest (WantsWrite), the     *)
(* edges of epoll that an interest is owed (Edges), and the requests and    *)
(* responses of an open channel, which are exactly those of the calls in    *)
(* flight (Flow): whoever is left in a queue has an edge, a task or the     *)
(* handler on the way to it.                                                *)

\* The interest will include writing once the posted tasks are run.
NoModR(k) == \A j \in (k + 1)..Len(tasks) : tasks[j] # "ModR"
WantsWrite == \/ interest = "RW" /\ NoModR(0)
              \/ \E i \in 1..Len(tasks) : tasks[i] \in {"AddRW", "ModRW"} /\ NoModR(i)

\* Before there is a connection nothing is under way.
Blank ==
  /\ \A c \in Calls : upc[c] = "idle"
  /\ sendcall = <<>> /\ waitcall = <<>> /\ donecall = <<>> /\ writebuf = <<>>
  /\ readbuf = <<>> /\ peerq = <<>> /\ inbox = <<>>
  /\ ~rtimer /\ ~wtimer /\ ~closeWhenEmpty /\ ~garbled /\ room
  /\ hpc \in {"idle", "tail", "close", "delete"}
  /\ raised \subseteq {"CLOSE", "ERR"}
  /\ \A i \in 1..Len(tasks) : tasks[i] \in {"AddRW", "Del"}

\* Up to there: what the owner does and what can have been reported.
Early ==
  /\ opc = "start" => link = "none"
  /\ link \in {"none", "connecting", "refused"} => Blank
  /\ link = "none" => opc = "start" /\ tasks = <<>> /\ interest = "none" /\ ~armed
  /\ link \in {"none", "connecting"} => raised = {} /\ hpc = "idle" /\ ~isClosed
  /\ link = "connecting" => opc = "connecting" /\ connectStatus = "IPROCESS"
  /\ link = "refused" => \/ opc = "connecting" /\ (connectStatus = "IPROCESS" \/ implDeleted)
                         \/ opc = "crashed"

\* Where the handler is, and what it knows of the connection.
Places ==
  /\ link \in {"none", "connecting", "refused", "up", "fin", "rst"}
  /\ hpc \in {"idle", "READ", "recv", "next", "WRITE", "able", "flush", "RTIME", "WTIME", "tail", "close", "delete"}
  /\ isClosed => hpc \in {"idle", "delete"} /\ waitcall = <<>> /\ donecall = <<>>
  /\ implDeleted => isClosed
  /\ hpc = "delete" <=> isClosed /\ ~implDeleted
  /\ hpc = "flush" => writebuf # <<>>
  /\ raised \cap {"CLOSE", "ERR"} # {} => link \in {"rst", "refused"}
  /\ "CLOSE" \in hmask => link \in {"fin", "rst", "refused"}
  /\ hpc = "idle" => hmask = {}
  /\ opc = "closing" => closeWhenEmpty
  /\ opc = "released" => closeWhenEmpty \/ isClosed

\* The tasks of an open stream: it is put into the epoll set first.
Joining ==
  /\ interest = "none" /\ tasks # <<>> /\ tasks[1] \in {"AddR", "AddRW"}
  /\ \A i \in 2..Len(tasks) : tasks[i] = "ModRW"
  /\ ~armed /\ raised = {} /\ hpc = "idle" /\ ~rtimer /\ ~wtimer
Joined ==
  /\ interest # "none"
  /\ \A i \in 1..Len(tasks) : tasks[i] \in {"ModR", "ModRW", "SetR", "DelR", "SetW"}
TaskList == ~isClosed /\ link \in {"connecting", "up", "fin", "rst"} => Joining \/ Joined

\* Of what is ready, epoll or a raised bit tells the handler, or the handler is
\* about to look by itself; an end of file that is known is acted upon once
\* writebuf is empty; a write interest that is given up gets its edge when it
\* is asked for again.
GivingUp == \E i \in 1..Len(tasks) : tasks[i] = "ModR"
ReadEdge == armed \/ "READ" \in raised \/ hpc = "READ"
Draining == closeWhenEmpty /\ (hpc = "idle" => WantsWrite)
EndEdge == \/ ReadEdge \/ (hpc # "idle" /\ "CLOSE" \in hmask) \/ hpc = "close" \/ Draining
WriteEdge == \/ armed \/ "WRITE" \in raised
             \/ (hpc \in {"READ", "recv", "next", "WRITE"} /\ "WRITE" \in hmask)
             \/ (hpc = "able" /\ writebuf # <<>>) \/ hpc = "flush" \/ GivingUp

Edges ==
  ~isClosed /\ interest # "none" =>
    /\ link = "up" /\ inbox # <<>> => ReadEdge
    /\ link = "fin" => EndEdge
    /\ link \in {"up", "fin"} /\ interest = "RW" /\ room => WriteEdge

\* Bytes that are not written, and a stream that is to be closed, keep the wish
\* to write: without it no event would come.
Unwritten == writebuf # <<>> /\ ~isClosed => WantsWrite
Closing == closeWhenEmpty /\ ~isClosed /\ hpc = "idle" => WantsWrite \/ opc = "closing"

\* As long as nothing has gone wrong, what is read, on its way or written is
\* that of the calls in flight, and a call in sendcall is looked after: by the
\* thread that pushed it, an event for writing, the handler or the answer to
\* the call in flight.
Normal == /\ link = "up" /\ ~isClosed
          /\ ~closeWhenEmpty \/ (opc = "closing" /\ hpc = "idle" /\ ~WantsWrite)
Balanced == Len(readbuf) + Len(inbox) + Len(peerq) + Len(writebuf) = Len(donecall) + Len(waitcall)
Served(c) == \/ upc[c] = "mod" \/ WantsWrite \/ hpc \in {"able", "next"}
             \/ waitcall # <<>> \/ donecall # <<>>
Serving == \A i \in 1..Len(sendcall) : Served(sendcall[i])
Flow ==
  Normal =>
    /\ Balanced
    /\ readbuf # <<>> => hpc = "recv"
    /\ ~garbled
    /\ Serving

\* A call without a status is in a queue.
Placed == \A c \in Calls : upc[c] \in {"mod", "wait", "returned"} /\ status[c] = "unset" =>
             c \in ToSet(sendcall) \cup ToSet(waitcall) \cup ToSet(donecall)
-----------------------------------------------------------------------------
(* Types, and what posting and running tasks does.                         *)

Bits == {"READ", "WRITE", "CLOSE", "ERR", "RTIME", "WTIME"}
TaskNames == {"AddR", "AddRW", "ModR", "ModRW", "SetR", "DelR", "SetW", "Del"}
Timers == {"SetR", "DelR", "SetW"}
OfOpen == {"ModR", "ModRW"} \cup Timers

\* TypeOK without sets of variables.
ChannelTypes ==
  /\ QueueTypes
  /\ opc \in {"start", "connecting", "open", "closing", "released", "crashed"}
  /\ connectStatus \in {"FAIL", "IPROCESS", "OK"}
  /\ isClosed \in BOOLEAN /\ closeWhenEmpty \in BOOLEAN /\ implDeleted \in BOOLEAN
  /\ garbled \in BOOLEAN /\ armed \in BOOLEAN /\ rtimer \in BOOLEAN /\ wtimer \in BOOLEAN
  /\ room \in BOOLEAN
  /\ doneRan \in SUBSET Calls
  /\ tasks \in Seq(TaskNames) /\ moved \in 0..Len(tasks) /\ interest \in {"none", "R", "RW"}
  /\ raised \in SUBSET Bits /\ hmask \in SUBSET Bits

LEMMA TypedChannel == (TypeOK <=> ChannelTypes) /\ (TypeOK <=> ChannelTypes)'
<1>1. \A S, a, b, c, d, e, f, g, h : {a, b, c, d, e, f, g, h} \subseteq S <=>
        a \in S /\ b \in S /\ c \in S /\ d \in S /\ e \in S /\ f \in S /\ g \in S /\ h \in S
  OBVIOUS
<1>2. \A S, a, b, c, d, e, f, g : {a, b, c, d, e, f, g} \subseteq S <=>
        a \in S /\ b \in S /\ c \in S /\ d \in S /\ e \in S /\ f \in S /\ g \in S
  OBVIOUS
<1>3. \A S, x, y : x \cup y \subseteq S <=> x \in SUBSET S /\ y \in SUBSET S
  OBVIOUS
<1>4. TypeOK <=> ChannelTypes
  BY <1>1, <1>2, <1>3, Zenon DEF TypeOK, ChannelTypes, QueueTypes, TaskNames, Bits
<1>5. (TypeOK <=> ChannelTypes)'
  BY <1>1, <1>2, <1>3, Zenon DEF TypeOK, ChannelTypes, QueueTypes, TaskNames, Bits
<1> QED BY <1>4, <1>5

\* The task list as SMT needs it.
LEMMA TaskFacts ==
  ASSUME ChannelTypes
  PROVE  /\ tasks \in Seq(TaskNames) /\ Len(tasks) \in Nat
         /\ \A i \in 1..Len(tasks) : tasks[i] \in TaskNames
         /\ tasks = <<>> <=> Len(tasks) = 0
<1>1. tasks \in Seq(TaskNames)
  BY DEF ChannelTypes
<1> QED BY <1>1, LenProperties, ElementOfSeq, EmptySeq

\* The places at which something was posted.
Fresh == (Len(tasks) + 1)..Len(tasks')

Grown == /\ interest' = interest /\ tasks' \in Seq(TaskNames) /\ moved' \in 0..Len(tasks')
         /\ Len(tasks') \in Nat /\ Len(tasks) \in Nat /\ Len(tasks') >= Len(tasks)
         /\ \A i \in 1..Len(tasks) : tasks'[i] = tasks[i]
Quiet == Grown /\ \A i \in Fresh : tasks'[i] \in Timers
Asked == /\ Grown /\ \A i \in Fresh : tasks'[i] \in Timers \cup {"ModRW"}
         /\ \E i \in Fresh : tasks'[i] = "ModRW"
Gave == /\ Grown /\ \A i \in Fresh : tasks'[i] \in Timers \cup {"ModR"}
        /\ \E i \in Fresh : tasks'[i] = "ModR"
Unposted == interest' = interest /\ tasks' = tasks /\ moved' = moved

LEMMA Posts ==
  ASSUME ChannelTypes, NEW ts \in Seq(TaskNames), tasks' = tasks \o ts, UNCHANGED <<interest, moved>>
  PROVE  /\ Grown /\ (ts = <<>> => tasks' = tasks)
         /\ \A i \in 1..Len(ts) : Len(tasks) + i \in Fresh /\ tasks'[Len(tasks) + i] = ts[i]
         /\ \A i \in Fresh : \E j \in 1..Len(ts) : tasks'[i] = ts[j]
<1>1. tasks \in Seq(TaskNames) /\ Len(tasks) \in Nat /\ moved \in 0..Len(tasks)
  BY TaskFacts DEF ChannelTypes
<1>2. Len(ts) \in Nat
  BY LenProperties
<1>3. /\ tasks' \in Seq(TaskNames) /\ Len(tasks') = Len(tasks) + Len(ts)
      /\ \A i \in 1..Len(tasks) + Len(ts) : tasks'[i] = IF i <= Len(tasks) THEN tasks[i] ELSE ts[i - Len(tasks)]
  BY <1>1, ConcatProperties
<1>4. ASSUME NEW m \in Nat, NEW n \in Nat
      PROVE  /\ \A i \in 1..m : i \in 1..m + n /\ i <= m
             /\ \A i \in 1..n : m + i \in 1..m + n /\ ~ (m + i <= m) /\ (m + i) - m = i /\ m + i \in (m + 1)..(m + n)
             /\ \A i \in (m + 1)..(m + n) : i \in 1..m + n /\ ~ (i <= m) /\ i - m \in 1..n
             /\ m + n >= m /\ m + n \in Nat
             /\ \A k \in 0..m : k \in 0..m + n
  OBVIOUS
<1>5. Grown
  BY <1>1, <1>2, <1>3, <1>4 DEF Grown
<1>6. \A i \in 1..Len(ts) : Len(tasks) + i \in Fresh /\ tasks'[Len(tasks) + i] = ts[i]
  BY <1>1, <1>2, <1>3, <1>4 DEF Fresh
<1>7. \A i \in Fresh : \E j \in 1..Len(ts) : tasks'[i] = ts[j]
  BY <1>1, <1>2, <1>3, <1>4 DEF Fresh
<1>8. ts = <<>> => tasks' = tasks
  BY <1>1, ConcatEmptySeq
<1> QED BY <1>5, <1>6, <1>7, <1>8

LEMMA Nothing == ChannelTypes /\ Unposted => Quiet
<1> SUFFICES ASSUME ChannelTypes, Unposted PROVE Quiet
  OBVIOUS
<1>1. tasks \in Seq(TaskNames) /\ Len(tasks) \in Nat /\ moved \in 0..Len(tasks)
  BY TaskFacts DEF ChannelTypes
<1>2. Grown
  BY <1>1 DEF Grown, Unposted
<1>3. Fresh = {}
  BY <1>1 DEF Fresh, Unposted
<1> QED BY <1>2, <1>3 DEF Quiet

\* One task, or two.
LEMMA PostsOne ==
  ASSUME ChannelTypes, NEW t \in TaskNames, tasks' = tasks \o <<t>>, UNCHANGED <<interest, moved>>
  PROVE  Grown /\ (\A i \in Fresh : tasks'[i] = t) /\ (\E i \in Fresh : tasks'[i] = t)
<1> DEFINE ts == <<t>>
<1>1. ts \in Seq(TaskNames) /\ Len(ts) = 1 /\ ts[1] = t
  OBVIOUS
<1>2. tasks' = tasks \o ts
  OBVIOUS
<1> HIDE DEF ts
<1>3. /\ Grown /\ \A i \in 1..Len(ts) : Len(tasks) + i \in Fresh /\ tasks'[Len(tasks) + i] = ts[i]
      /\ \A i \in Fresh : \E j \in 1..Len(ts) : tasks'[i] = ts[j]
  BY <1>1, <1>2, Posts
<1>4. 1 \in 1..Len(ts) /\ \A j \in 1..Len(ts) : j = 1
  BY <1>1
<1> QED BY <1>1, <1>3, <1>4

LEMMA PostsTwo ==
  ASSUME ChannelTypes, NEW t \in TaskNames, NEW u \in TaskNames, tasks' = tasks \o <<t, u>>, UNCHANGED <<interest, moved>>
  PROVE  /\ Grown /\ \A i \in Fresh : tasks'[i] \in {t, u}
         /\ (\E i \in Fresh : tasks'[i] = t) /\ (\E i \in Fresh : tasks'[i] = u)
<1> DEFINE ts == <<t, u>>
<1>1. ts \in Seq(TaskNames) /\ Len(ts) = 2 /\ ts[1] = t /\ ts[2] = u
  OBVIOUS
<1>2. tasks' = tasks \o ts
  OBVIOUS
<1> HIDE DEF ts
<1>3. /\ Grown /\ \A i \in 1..Len(ts) : Len(tasks) + i \in Fresh /\ tasks'[Len(tasks) + i] = ts[i]
      /\ \A i \in Fresh : \E j \in 1..Len(ts) : tasks'[i] = ts[j]
  BY <1>1, <1>2, Posts
<1>4. 1 \in 1..Len(ts) /\ 2 \in 1..Len(ts) /\ \A j \in 1..Len(ts) : j = 1 \/ j = 2
  BY <1>1
<1> QED BY <1>1, <1>3, <1>4

\* What running a task does.
LEMMA RunsTask ==
  ASSUME ChannelTypes, ProcessPendingTask
  PROVE  /\ tasks # <<>> /\ Len(tasks) \in Nat /\ Len(tasks) >= 1 /\ tasks[1] \in TaskNames
         /\ tasks' \in Seq(TaskNames) /\ Len(tasks') = Len(tasks) - 1 /\ moved' \in 0..Len(tasks')
         /\ \A i \in 1..Len(tasks) - 1 : tasks'[i] = tasks[i + 1]
         /\ tasks[1] = "AddR" => interest' = "R" /\ armed' = TRUE
         /\ tasks[1] = "AddRW" => interest' = "RW" /\ armed' = TRUE
         /\ tasks[1] = "Del" => interest' = "none" /\ armed' = FALSE
         /\ tasks[1] = "ModR" => IF interest = "RW" THEN interest' = "R" /\ armed' = TRUE
                                 ELSE interest' = interest /\ armed' = armed
         /\ tasks[1] = "ModRW" => IF interest = "R" THEN interest' = "RW" /\ armed' = TRUE
                                  ELSE interest' = interest /\ armed' = armed
         /\ tasks[1] \in Timers => interest' = interest /\ armed' = armed
         /\ rtimer' \in BOOLEAN /\ wtimer' \in BOOLEAN
         /\ tasks[1] \notin Timers => (~rtimer => ~rtimer') /\ (~wtimer => ~wtimer')
<1>1. /\ tasks \in Seq(TaskNames) /\ moved \in 0..Len(tasks) /\ interest \in {"none", "R", "RW"}
      /\ armed \in BOOLEAN /\ rtimer \in BOOLEAN /\ wtimer \in BOOLEAN
  BY DEF ChannelTypes
<1>2. tasks # <<>> /\ tasks' = Tail(tasks) /\ moved' = InTmp(tasks, moved) - 1
  BY DEF ProcessPendingTask
<1>3. Len(tasks) \in Nat /\ Len(tasks) >= 1 /\ tasks[1] \in TaskNames
  <2>1. Len(tasks) \in Nat /\ Len(tasks) # 0 /\ \A i \in 1..Len(tasks) : tasks[i] \in TaskNames
    BY <1>2, TaskFacts
  <2>2. 1 \in 1..Len(tasks)
    BY <2>1
  <2> QED BY <2>1, <2>2
<1>4. /\ tasks' \in Seq(TaskNames) /\ Len(tasks') = Len(tasks) - 1
      /\ \A i \in 1..Len(tasks) - 1 : tasks'[i] = tasks[i + 1]
      /\ Head(tasks) = tasks[1]
  <2>1. /\ Tail(tasks) \in Seq(TaskNames) /\ Len(Tail(tasks)) = Len(tasks) - 1
        /\ \A i \in 1..Len(Tail(tasks)) : Tail(tasks)[i] = tasks[i + 1]
    BY <1>1, <1>2, HeadTailProperties
  <2> QED BY <1>2, <2>1
<1>5. moved' \in 0..Len(tasks')
  BY <1>1, <1>2, <1>3, <1>4 DEF InTmp
<1> DEFINE p == [interest |-> interest, armed |-> armed, rtimer |-> rtimer, wtimer |-> wtimer]
           q == Execute(p, tasks[1])
<1>6. interest' = q.interest /\ armed' = q.armed /\ rtimer' = q.rtimer /\ wtimer' = q.wtimer
  BY <1>4 DEF ProcessPendingTask
<1>7. ASSUME tasks[1] = "ModR"
      PROVE  IF interest = "RW" THEN q = [p EXCEPT !.interest = "R", !.armed = TRUE] ELSE q = p
  BY <1>1, <1>7 DEF Execute, ModEvent
<1>8. ASSUME tasks[1] = "ModRW"
      PROVE  IF interest = "R" THEN q = [p EXCEPT !.interest = "RW", !.armed = TRUE] ELSE q = p
  BY <1>1, <1>8 DEF Execute, ModEvent
<1>9. /\ tasks[1] = "AddR" => q = [p EXCEPT !.interest = "R", !.armed = TRUE]
      /\ tasks[1] = "AddRW" => q = [p EXCEPT !.interest = "RW", !.armed = TRUE]
      /\ tasks[1] = "SetR" => q = [p EXCEPT !.rtimer = TRUE]
      /\ tasks[1] = "DelR" => q = [p EXCEPT !.rtimer = FALSE]
      /\ tasks[1] = "SetW" => q = [p EXCEPT !.wtimer = TRUE]
      /\ tasks[1] = "Del" => q = [interest |-> "none", armed |-> FALSE, rtimer |-> FALSE, wtimer |-> FALSE]
  BY DEF Execute
<1>10. ASSUME NEW r, r = [p EXCEPT !.interest = "R", !.armed = TRUE]
       PROVE  r.interest = "R" /\ r.armed = TRUE /\ r.rtimer = rtimer /\ r.wtimer = wtimer
  BY <1>10
<1>11. ASSUME NEW r, r = [p EXCEPT !.interest = "RW", !.armed = TRUE]
       PROVE  r.interest = "RW" /\ r.armed = TRUE /\ r.rtimer = rtimer /\ r.wtimer = wtimer
  BY <1>11
<1>12. ASSUME NEW v \in BOOLEAN, NEW r, r = [p EXCEPT !.rtimer = v] \/ r = [p EXCEPT !.wtimer = v]
       PROVE  r.interest = interest /\ r.armed = armed /\ r.rtimer \in BOOLEAN /\ r.wtimer \in BOOLEAN
  <2>1. CASE r = [p EXCEPT !.rtimer = v]
    BY <1>1, <2>1
  <2>2. CASE r = [p EXCEPT !.wtimer = v]
    BY <1>1, <2>2
  <2> QED BY <1>12, <2>1, <2>2
<1>13. p.interest = interest /\ p.armed = armed /\ p.rtimer = rtimer /\ p.wtimer = wtimer
  OBVIOUS
<1> HIDE DEF p, q
<1>14. CASE tasks[1] = "ModR"
  BY <1>1, <1>2, <1>3, <1>4, <1>5, <1>6, <1>7, <1>10, <1>13, <1>14 DEF Timers
<1>15. CASE tasks[1] = "ModRW"
  BY <1>1, <1>2, <1>3, <1>4, <1>5, <1>6, <1>8, <1>11, <1>13, <1>15 DEF Timers
<1>16. CASE tasks[1] = "AddR"
  BY <1>1, <1>2, <1>3, <1>4, <1>5, <1>6, <1>9, <1>10, <1>16 DEF Timers
<1>17. CASE tasks[1] = "AddRW"
  BY <1>1, <1>2, <1>3, <1>4, <1>5, <1>6, <1>9, <1>11, <1>17 DEF Timers
<1>18. CASE tasks[1] \in Timers
  <2>1. q.interest = interest /\ q.armed = armed /\ q.rtimer \in BOOLEAN /\ q.wtimer \in BOOLEAN
    <3>1. \E v \in BOOLEAN : q = [p EXCEPT !.rtimer = v] \/ q = [p EXCEPT !.wtimer = v]
      BY <1>9, <1>18 DEF Timers
    <3> QED BY <1>12, <3>1
  <2> QED BY <1>2, <1>3, <1>4, <1>5, <1>6, <1>18, <2>1 DEF Timers
<1>19. CASE tasks[1] = "Del"
  <2>1. q.interest = "none" /\ q.armed = FALSE /\ q.rtimer = FALSE /\ q.wtimer = FALSE
    BY <1>9, <1>19
  <2> QED BY <1>2, <1>3, <1>4, <1>5, <1>6, <1>19, <2>1 DEF Timers
<1> QED BY <1>3, <1>14, <1>15, <1>16, <1>17, <1>18, <1>19 DEF TaskNames, Timers

\* What posting leaves of the wish to write, and of giving it up.
LEMMA WishAfterPost ==
  /\ Quiet \/ Asked => (WantsWrite => WantsWrite')
  /\ Asked => WantsWrite'
  /\ Grown => (GivingUp => GivingUp')
  /\ Gave => GivingUp'
<1>1. ASSUME Grown
      PROVE  /\ Len(tasks) \in Nat /\ Len(tasks') \in Nat /\ Len(tasks') >= Len(tasks) /\ interest' = interest
             /\ \A i \in 1..Len(tasks) : tasks'[i] = tasks[i]
  BY <1>1 DEF Grown
<1>2. ASSUME Quiet \/ Asked, NEW k \in 0..Len(tasks), NoModR(k) PROVE NoModR(k)'
  <2>1. Grown /\ \A i \in Fresh : tasks'[i] # "ModR"
    BY <1>2 DEF Quiet, Asked, Timers
  <2> SUFFICES ASSUME NEW j \in (k + 1)..Len(tasks') PROVE tasks'[j] # "ModR"
    BY DEF NoModR
  <2>2. j \in Fresh \/ (j \in 1..Len(tasks) /\ j \in (k + 1)..Len(tasks))
    BY <1>1, <2>1 DEF Fresh
  <2> QED BY <1>1, <1>2, <2>1, <2>2 DEF NoModR
<1>3. Quiet \/ Asked => (WantsWrite => WantsWrite')
  <2> SUFFICES ASSUME Quiet \/ Asked, WantsWrite PROVE WantsWrite'
    OBVIOUS
  <2>1. Grown
    BY DEF Quiet, Asked
  <2>2. CASE interest = "RW" /\ NoModR(0)
    <3>1. 0 \in 0..Len(tasks)
      BY <1>1, <2>1
    <3> QED BY <1>1, <1>2, <2>1, <2>2, <3>1 DEF WantsWrite
  <2>3. ASSUME NEW i \in 1..Len(tasks), tasks[i] \in {"AddRW", "ModRW"}, NoModR(i) PROVE WantsWrite'
    <3>1. i \in 0..Len(tasks) /\ i \in 1..Len(tasks') /\ tasks'[i] = tasks[i]
      BY <1>1, <2>1
    <3>2. NoModR(i)'
      BY <1>2, <2>3, <3>1
    <3> QED BY <2>3, <3>1, <3>2 DEF WantsWrite
  <2> QED BY <2>2, <2>3 DEF WantsWrite
<1>4. Asked => WantsWrite'
  <2> SUFFICES ASSUME Asked PROVE WantsWrite'
    OBVIOUS
  <2>1. Grown /\ \A i \in Fresh : tasks'[i] # "ModR"
    BY DEF Asked, Timers
  <2>2. PICK i \in Fresh : tasks'[i] = "ModRW"
    BY DEF Asked
  <2>3. i \in 1..Len(tasks') /\ \A j \in (i + 1)..Len(tasks') : j \in Fresh
    BY <1>1, <2>1, <2>2 DEF Fresh
  <2>4. NoModR(i)'
    BY <2>1, <2>3 DEF NoModR
  <2> QED BY <2>2, <2>3, <2>4 DEF WantsWrite
<1>5. Grown => (GivingUp => GivingUp')
  <2> SUFFICES ASSUME Grown, NEW i \in 1..Len(tasks), tasks[i] = "ModR" PROVE GivingUp'
    BY DEF GivingUp
  <2>1. i \in 1..Len(tasks') /\ tasks'[i] = "ModR"
    BY <1>1
  <2> QED BY <2>1 DEF GivingUp
<1>6. Gave => GivingUp'
  <2> SUFFICES ASSUME Gave PROVE GivingUp'
    OBVIOUS
  <2>1. PICK i \in Fresh : tasks'[i] = "ModR"
    BY DEF Gave
  <2>2. i \in 1..Len(tasks')
    BY <1>1 DEF Gave, Fresh
  <2> QED BY <2>1, <2>2 DEF GivingUp
<1> QED BY <1>3, <1>4, <1>5, <1>6

\* Running a task of an open stream leaves the wish, and an edge for it.
LEMMA WishAfterRun ==
  ASSUME ChannelTypes, ProcessPendingTask, tasks[1] \notin {"Del"},
         \/ interest = "none" /\ tasks[1] \in {"AddR", "AddRW"}
         \/ interest # "none" /\ tasks[1] \in OfOpen
  PROVE  /\ WantsWrite => WantsWrite'
         /\ interest' # "none"
         /\ armed => armed'
         /\ interest' = "RW" => armed' \/ (interest = "RW" /\ (GivingUp => GivingUp'))
<1>1. /\ Len(tasks) \in Nat /\ Len(tasks) >= 1 /\ Len(tasks') = Len(tasks) - 1
      /\ \A i \in 1..Len(tasks) - 1 : tasks'[i] = tasks[i + 1]
  BY RunsTask
<1>2. interest \in {"none", "R", "RW"} /\ armed \in BOOLEAN
  BY DEF ChannelTypes
<1>3. interest' # "none" /\ (armed => armed')
  BY <1>2, RunsTask DEF OfOpen
<1>4. ASSUME NEW k \in 1..Len(tasks), NoModR(k) PROVE NoModR(k - 1)'
  <2> SUFFICES ASSUME NEW j \in ((k - 1) + 1)..Len(tasks') PROVE tasks'[j] # "ModR"
    BY DEF NoModR
  <2>1. j \in 1..Len(tasks) - 1 /\ j + 1 \in (k + 1)..Len(tasks)
    BY <1>1
  <2> QED BY <1>1, <1>4, <2>1 DEF NoModR
<1>5. WantsWrite => WantsWrite'
  <2>1. CASE interest = "RW" /\ NoModR(0)
    <3>1. 1 \in (0 + 1)..Len(tasks) /\ 1 \in 1..Len(tasks) /\ 1 - 1 = 0
      BY <1>1
    <3>2. tasks[1] # "ModR"
      BY <2>1, <3>1 DEF NoModR
    <3>3. interest' = "RW"
      BY <2>1, <3>2, RunsTask DEF OfOpen
    <3>4. NoModR(1)
      <4> SUFFICES ASSUME NEW j \in (1 + 1)..Len(tasks) PROVE tasks[j] # "ModR"
        BY DEF NoModR
      <4>1. j \in (0 + 1)..Len(tasks)
        BY <1>1
      <4> QED BY <2>1, <4>1 DEF NoModR
    <3>5. NoModR(0)'
      BY <1>4, <3>1, <3>4
    <3> QED BY <3>3, <3>5 DEF WantsWrite
  <2>2. ASSUME NEW i \in 1..Len(tasks), tasks[i] \in {"AddRW", "ModRW"}, NoModR(i) PROVE WantsWrite'
    <3>1. NoModR(i - 1)'
      BY <1>4, <2>2
    <3>2. CASE i = 1
      <4>1. interest' = "RW"
        BY <1>2, <2>2, <3>2, RunsTask DEF OfOpen, Timers
      <4>2. NoModR(0)'
        BY <3>1, <3>2
      <4> QED BY <4>1, <4>2 DEF WantsWrite
    <3>3. CASE i > 1
      <4>1. i - 1 \in 1..Len(tasks) - 1 /\ i - 1 \in 1..Len(tasks') /\ (i - 1) + 1 = i
        BY <1>1, <3>3
      <4>2. tasks'[i - 1] = tasks[i]
        BY <1>1, <4>1
      <4> QED BY <2>2, <3>1, <4>1, <4>2 DEF WantsWrite
    <3>4. i = 1 \/ i > 1
      BY <1>1
    <3> QED BY <3>2, <3>3, <3>4
  <2> QED BY <2>1, <2>2 DEF WantsWrite
<1>6. ASSUME interest' = "RW", ~armed' PROVE interest = "RW" /\ (GivingUp => GivingUp')
  <2>1. interest = "RW" /\ tasks[1] # "ModR"
    BY <1>2, <1>6, RunsTask DEF OfOpen, Timers
  <2> SUFFICES ASSUME NEW i \in 1..Len(tasks), tasks[i] = "ModR" PROVE GivingUp'
    BY <2>1 DEF GivingUp
  <2>2. i # 1
    BY <2>1
  <2>3. i - 1 \in 1..Len(tasks) - 1 /\ i - 1 \in 1..Len(tasks') /\ (i - 1) + 1 = i
    BY <1>1, <2>2
  <2>4. tasks'[i - 1] = "ModR"
    BY <1>1, <2>3
  <2> QED BY <2>3, <2>4 DEF GivingUp
<1> QED BY <1>3, <1>5, <1>6
-----------------------------------------------------------------------------
(* The kinds of steps, and what they leave alone.                          *)

UserSteps == \/ ConnectReturns \/ CloseFlag \/ CloseMod
             \/ \E c \in Calls : CallPush(c) \/ CallMod(c) \/ CallReturns(c)
Connects == \E ret \in {"OK", "IPROCESS", "FAIL"} : Connect(ret)
PollSteps == Report \/ ReadTimeOut \/ WriteTimeOut
NetSteps == Established \/ Refused \/ PeerCloses \/ PeerResets \/ PeerReplies \/ Drain

ChannelStep == \/ UNCHANGED vars \/ UserSteps \/ Connects \/ PollSteps \/ NetSteps
               \/ ProcessPendingTask \/ HandlerStep

LEMMA StepIs == [Next]_vars => ChannelStep
BY DEF Next, ChannelStep, UserSteps, Connects, PollSteps, NetSteps, OwnerStep, UserStep, PollerStep, NetStep

LEMMA StillFrame ==
  ASSUME UNCHANGED vars
  PROVE  /\ UNCHANGED <<opc, upc, connectStatus, isClosed, closeWhenEmpty, implDeleted, sendcall, waitcall, donecall,
                        status, got, doneRan, writebuf, readbuf, garbled, tasks, moved, interest, armed,
                        rtimer, wtimer, raised, hpc, hmask, link, room, eagain, peerq, inbox>>
         /\ Unposted
BY DEF vars, userVars, streamVars, callVars, bufVars, epollVars, handlerVars, netVars, Unposted

LEMMA UserFrame ==
  ASSUME ChannelTypes, UserSteps
  PROVE  /\ UNCHANGED <<connectStatus, isClosed, implDeleted, waitcall, donecall, status, got, doneRan,
                        writebuf, readbuf, garbled, interest, moved, armed, rtimer, wtimer, raised,
                        hpc, hmask, link, room, eagain, peerq, inbox>>
         /\ Unposted \/ (Asked /\ ~implDeleted /\ \A i \in Fresh : tasks'[i] = "ModRW")
         /\ closeWhenEmpty' = closeWhenEmpty \/ (closeWhenEmpty' = TRUE /\ opc = "open" /\ opc' = "closing")
         /\ \/ opc = "connecting" /\ connectStatus # "IPROCESS"
            \/ opc \in {"open", "closing"} \/ \E c \in Calls : upc[c] # "idle"
<1> USE DEF userVars, streamVars, callVars, bufVars, epollVars, handlerVars, netVars, Unposted
<1>0. ASSUME tasks' = tasks \o <<"ModRW">>, UNCHANGED <<interest, moved>>
      PROVE  Asked /\ \A i \in Fresh : tasks'[i] = "ModRW"
  BY <1>0, PostsOne DEF TaskNames, Asked
<1>1. CASE ConnectReturns
  BY <1>1 DEF ConnectReturns
<1>2. CASE CloseFlag
  BY <1>2 DEF CloseFlag
<1>3. CASE CloseMod
  BY <1>0, <1>3 DEF CloseMod, PostTasks
<1>4. ASSUME NEW c \in Calls, CallPush(c) PROVE
         /\ UNCHANGED <<connectStatus, isClosed, implDeleted, waitcall, donecall, status, got, doneRan,
                        writebuf, readbuf, garbled, interest, moved, armed, rtimer, wtimer, raised,
                        hpc, hmask, link, room, eagain, peerq, inbox>>
         /\ Unposted /\ closeWhenEmpty' = closeWhenEmpty /\ opc = "open"
  BY <1>4 DEF CallPush
<1>5. ASSUME NEW c \in Calls, CallMod(c) \/ CallReturns(c) PROVE
         /\ UNCHANGED <<connectStatus, isClosed, implDeleted, waitcall, donecall, status, got, doneRan,
                        writebuf, readbuf, garbled, interest, moved, armed, rtimer, wtimer, raised,
                        hpc, hmask, link, room, eagain, peerq, inbox>>
         /\ Unposted \/ (Asked /\ ~implDeleted /\ \A i \in Fresh : tasks'[i] = "ModRW")
         /\ closeWhenEmpty' = closeWhenEmpty /\ upc[c] # "idle"
  <2>1. CASE CallMod(c)
    BY <1>0, <2>1 DEF CallMod, PostTasks
  <2>2. CASE CallReturns(c)
    BY <2>2 DEF CallReturns
  <2> QED BY <1>5, <2>1, <2>2
<1> QED BY <1>1, <1>2, <1>3, <1>4, <1>5 DEF UserSteps

LEMMA NetFrame ==
  ASSUME NetSteps
  PROVE  /\ UNCHANGED <<opc, upc, connectStatus, isClosed, closeWhenEmpty, implDeleted, sendcall, waitcall, donecall,
                        status, got, doneRan, writebuf, readbuf, garbled, tasks, moved, interest, rtimer, wtimer,
                        raised, hpc, hmask>>
         /\ ~implDeleted /\ armed' = (interest # "none") /\ Unposted
         /\ \/ link = "connecting" /\ link' \in {"up", "refused"} /\ UNCHANGED <<room, peerq, inbox>>
            \/ link \in {"up", "fin"} /\ link' \in {"fin", "rst"} /\ UNCHANGED <<room, peerq, inbox>>
            \/ link = "up" /\ link' = "up" /\ PeerReplies
            \/ link \in {"up", "fin"} /\ link' = link /\ Drain /\ UNCHANGED <<peerq, inbox>>
<1> USE DEF userVars, streamVars, callVars, bufVars, epollVars, handlerVars, netVars, Unposted, Wake
<1>1. CASE Established \/ Refused
  BY <1>1 DEF Established, Refused, LinkBecomes
<1>2. CASE PeerCloses \/ PeerResets
  BY <1>2 DEF PeerCloses, PeerResets, LinkBecomes
<1>3. CASE PeerReplies
  BY <1>3 DEF PeerReplies
<1>4. CASE Drain
  BY <1>4 DEF Drain
<1> QED BY <1>1, <1>2, <1>3, <1>4 DEF NetSteps

LEMMA PollFrame ==
  ASSUME PollSteps
  PROVE  /\ UNCHANGED <<opc, upc, connectStatus, isClosed, closeWhenEmpty, implDeleted, sendcall, waitcall, donecall,
                        status, got, doneRan, writebuf, readbuf, garbled, tasks, moved, interest,
                        hpc, hmask, link, room, eagain, peerq, inbox>>
         /\ Unposted
         /\ \/ armed /\ armed' = FALSE /\ raised' = raised \cup ReadyMask /\ UNCHANGED <<rtimer, wtimer>>
            \/ rtimer /\ rtimer' = FALSE /\ raised' = raised \cup {"RTIME"} /\ UNCHANGED <<armed, wtimer>>
            \/ wtimer /\ wtimer' = FALSE /\ raised' = raised \cup {"WTIME"} /\ UNCHANGED <<armed, rtimer>>
<1> USE DEF userVars, streamVars, callVars, bufVars, epollVars, handlerVars, netVars, Unposted
<1>1. CASE Report
  BY <1>1 DEF Report
<1>2. CASE ReadTimeOut
  BY <1>2 DEF ReadTimeOut
<1>3. CASE WriteTimeOut
  BY <1>3 DEF WriteTimeOut
<1> QED BY <1>1, <1>2, <1>3 DEF PollSteps

LEMMA RunFrame ==
  ASSUME ProcessPendingTask
  PROVE  UNCHANGED <<opc, upc, connectStatus, isClosed, closeWhenEmpty, implDeleted, sendcall, waitcall, donecall,
                     status, got, doneRan, writebuf, readbuf, garbled, raised,
                     hpc, hmask, link, room, eagain, peerq, inbox>>
BY DEF ProcessPendingTask, userVars, streamVars, callVars, bufVars, handlerVars, netVars

LEMMA HandlerFrame ==
  ASSUME ChannelTypes, HandlerStep
  PROVE  /\ UNCHANGED <<opc, upc, link, moved, interest, armed, rtimer, wtimer>>
         /\ raised' = raised \/ (raised' = {} /\ OnEvent)
         /\ isClosed' = isClosed \/ (isClosed' = TRUE /\ OnCloseCancel)
         /\ implDeleted' = implDeleted \/ (implDeleted' = TRUE /\ OnCloseDelete)
         /\ closeWhenEmpty' = closeWhenEmpty \/ closeWhenEmpty' = TRUE
<1> USE DEF userVars, streamVars, callVars, bufVars, epollVars, handlerVars, netVars
<1>1. CASE OnEvent
  BY <1>1 DEF OnEvent
<1>2. CASE OnReadable
  BY <1>2 DEF OnReadable
<1>3. CASE OnMessageRecived
  BY <1>3 DEF OnMessageRecived, OnMessageError
<1>4. CASE SendNext
  BY <1>4 DEF SendNext, SendToServer
<1>5. CASE OnWriteable
  BY <1>5 DEF OnWriteable
<1>6. CASE HandlerWriteable
  BY <1>6 DEF HandlerWriteable, SendToServer
<1>7. CASE FlushAll \/ FlushSome \/ FlushFails
  BY <1>7 DEF FlushAll, FlushSome, FlushFails
<1>8. CASE OnReadTimeOut \/ OnWriteTimeOut
  BY <1>8 DEF OnReadTimeOut, OnWriteTimeOut, TimeOut, OnMessageError
<1>9. CASE OnEventTail
  BY <1>9 DEF OnEventTail
<1>10. CASE OnCloseCancel
  <2>1. /\ UNCHANGED <<opc, upc, link, moved, interest, armed, rtimer, wtimer, raised, implDeleted>>
        /\ isClosed' = TRUE
    BY <1>10 DEF OnCloseCancel
  <2>2. closeWhenEmpty' = closeWhenEmpty \/ closeWhenEmpty' = TRUE
    BY <1>10 DEF OnCloseCancel, OnMessageError
  <2> QED BY <1>10, <2>1, <2>2
<1>11. CASE OnCloseDelete
  BY <1>11 DEF OnCloseDelete
<1> QED BY <1>1, <1>2, <1>3, <1>4, <1>5, <1>6, <1>7, <1>8, <1>9, <1>10, <1>11 DEF HandlerStep

LEMMA Two ==
  ASSUME NEW S, NEW a \in S, NEW b \in S
  PROVE  <<a>> \o <<b>> = <<a, b>> /\ <<a>> \o <<>> = <<a>>
<1> DEFINE s == <<a>>
           t == <<b>>
           u == <<a, b>>
<1>1. /\ s \in Seq(S) /\ Len(s) = 1 /\ s[1] = a /\ t \in Seq(S) /\ Len(t) = 1 /\ t[1] = b
      /\ u \in Seq(S) /\ Len(u) = 2 /\ u[1] = a /\ u[2] = b
  OBVIOUS
<1> HIDE DEF s, t, u
<1>2. /\ s \o t \in Seq(S) /\ Len(s \o t) = Len(s) + Len(t)
      /\ \A i \in 1..Len(s) + Len(t) : (s \o t)[i] = IF i <= Len(s) THEN s[i] ELSE t[i - Len(s)]
  BY <1>1, ConcatProperties
<1>3. s \o t = u
  BY <1>1, <1>2, SeqEqual
<1>4. s \o <<>> = s
  BY <1>1, ConcatEmptySeq
<1> QED BY <1>3, <1>4 DEF s, t, u

\* What the handler's steps post.
LEMMA HandlerPosts ==
  ASSUME ChannelTypes, HandlerStep
  PROVE  /\ OnEvent \/ OnReadable \/ FlushFails => Unposted
         /\ OnMessageRecived => Quiet \/ (Asked /\ closeWhenEmpty')
         /\ SendNext => \/ Asked
                        \/ /\ Unposted /\ sendcall = <<>>
                           /\ UNCHANGED <<closeWhenEmpty, sendcall, waitcall, donecall, status, writebuf>>
         /\ OnWriteable => (IF writebuf = <<>> THEN Gave ELSE Unposted)
         /\ HandlerWriteable => \/ Asked
                                \/ /\ Unposted /\ ~MaySend
                                   /\ UNCHANGED <<closeWhenEmpty, sendcall, waitcall, donecall, status, writebuf>>
         /\ FlushAll => Gave
         /\ FlushSome => Quiet
         /\ OnReadTimeOut \/ OnWriteTimeOut => Asked /\ closeWhenEmpty'
         /\ OnEventTail => (Unposted /\ closeWhenEmpty' = closeWhenEmpty) \/ (Asked /\ closeWhenEmpty')
         /\ OnCloseCancel => Unposted \/ Asked
         /\ OnCloseDelete => Grown /\ isClosed' = isClosed
<1> USE DEF userVars, streamVars, callVars, bufVars, epollVars, handlerVars, netVars, Unposted
<1>u. UNCHANGED <<interest, moved>>
  BY HandlerFrame
<1>1. ASSUME tasks' = tasks \o <<"ModRW">> PROVE Asked
  BY <1>1, <1>u, PostsOne DEF TaskNames, Asked
<1>2. ASSUME tasks' = tasks \o <<"ModR">> PROVE Gave
  BY <1>2, <1>u, PostsOne DEF TaskNames, Gave
<1>3. ASSUME NEW t \in Timers, tasks' = tasks \o <<t>> PROVE Quiet
  BY <1>3, <1>u, PostsOne DEF TaskNames, Quiet, Timers
<1>t. {"ModR", "ModRW", "SetR", "DelR", "SetW"} \subseteq TaskNames
  BY DEF TaskNames
<1>4. ASSUME tasks' = tasks \o <<"ModRW", "SetW">> \/ tasks' = tasks \o <<"DelR", "ModRW">> PROVE Asked
  <2>1. CASE tasks' = tasks \o <<"ModRW", "SetW">>
    <3>1. /\ Grown /\ \A i \in Fresh : tasks'[i] \in {"ModRW", "SetW"}
          /\ \E i \in Fresh : tasks'[i] = "ModRW"
      BY <2>1, <1>t, <1>u, PostsTwo
    <3> QED BY <3>1 DEF Asked, Timers
  <2>2. CASE tasks' = tasks \o <<"DelR", "ModRW">>
    <3>1. /\ Grown /\ \A i \in Fresh : tasks'[i] \in {"DelR", "ModRW"}
          /\ \E i \in Fresh : tasks'[i] = "ModRW"
      BY <2>2, <1>t, <1>u, PostsTwo
    <3> QED BY <3>1 DEF Asked, Timers
  <2> QED BY <1>4, <2>1, <2>2
<1>5. ASSUME tasks' = tasks \o <<"SetR", "ModR">> PROVE Gave
  <2>1. /\ Grown /\ \A i \in Fresh : tasks'[i] \in {"SetR", "ModR"}
        /\ \E i \in Fresh : tasks'[i] = "ModR"
    BY <1>5, <1>t, <1>u, PostsTwo
  <2> QED BY <2>1 DEF Gave, Timers
<1>6. /\ <<"ModRW">> \o <<"SetW">> = <<"ModRW", "SetW">> /\ <<"ModRW">> \o <<>> = <<"ModRW">>
      /\ <<"SetR">> \o <<"ModR">> = <<"SetR", "ModR">> /\ <<"SetR">> \o <<>> = <<"SetR">>
  BY <1>t, Two
<1>7. tasks \o <<>> = tasks
  BY ConcatEmptySeq, TaskFacts
<1>8. Unposted => Quiet
  BY Nothing
<1>9. OnEvent \/ OnReadable \/ FlushFails => Unposted
  BY DEF OnEvent, OnReadable, FlushFails
<1>10. OnMessageRecived => Quiet \/ (Asked /\ closeWhenEmpty')
  BY <1>3, <1>4 DEF OnMessageRecived, PostTasks, OnMessageError, Timers
<1>11. \A more : SendToServer(more) => tasks' = tasks \o (<<"ModRW">> \o more)
  BY DEF SendToServer, PostTasks
<1>12. SendNext => \/ Asked
                   \/ /\ Unposted /\ sendcall = <<>>
                      /\ UNCHANGED <<closeWhenEmpty, sendcall, waitcall, donecall, status, writebuf>>
  <2>1. SendToServer(<<"SetW">>) => Asked
    BY <1>11, <1>4, <1>6
  <2> QED BY <1>u, <2>1 DEF SendNext
<1>13. OnWriteable => (IF writebuf = <<>> THEN Gave ELSE Unposted)
  BY <1>u, <1>2, <1>7 DEF OnWriteable, PostTasks, DisableWrite
<1>14. HandlerWriteable => \/ Asked
                           \/ /\ Unposted /\ ~MaySend
                              /\ UNCHANGED <<closeWhenEmpty, sendcall, waitcall, donecall, status, writebuf>>
  <2>1. SendToServer(<<>>) => Asked
    BY <1>11, <1>1, <1>6
  <2> QED BY <1>u, <2>1 DEF HandlerWriteable
<1>15. FlushAll => Gave
  BY <1>2, <1>5, <1>6 DEF FlushAll, OnMessageSended, PostTasks, DisableWrite
<1>16. FlushSome => Quiet
  <2>1. OnMessageSended(<<>>) => Quiet
    BY <1>u, <1>3, <1>6, <1>7, <1>8 DEF OnMessageSended, PostTasks, Timers
  <2> QED BY <1>u, <1>8, <2>1 DEF FlushSome
<1>17. OnReadTimeOut \/ OnWriteTimeOut => Asked /\ closeWhenEmpty'
  BY <1>1 DEF OnReadTimeOut, OnWriteTimeOut, TimeOut, PostTasks, OnMessageError
<1>18. OnEventTail => (Unposted /\ closeWhenEmpty' = closeWhenEmpty) \/ (Asked /\ closeWhenEmpty')
  BY <1>u, <1>1 DEF OnEventTail, PostTasks
<1>19. OnCloseCancel => Unposted \/ Asked
  BY <1>u, <1>1 DEF OnCloseCancel, PostTasks
<1>20. OnCloseDelete => Grown /\ isClosed' = isClosed
  BY <1>u, PostsOne DEF OnCloseDelete, PostTasks, TaskNames
<1> QED BY <1>9, <1>10, <1>12, <1>13, <1>14, <1>15, <1>16, <1>17, <1>18, <1>19, <1>20, Zenon

LEMMA HandlerGrown == ChannelTypes /\ HandlerStep => Grown
<1> SUFFICES ASSUME ChannelTypes, HandlerStep PROVE Grown
  OBVIOUS
<1>1. Unposted => Grown
  BY Nothing DEF Quiet
<1>2. Quiet \/ Asked \/ Gave => Grown
  BY DEF Quiet, Asked, Gave
<1> QED BY <1>1, <1>2, HandlerPosts, Zenon DEF HandlerStep

LEMMA HandlerTypes ==
  ASSUME ChannelTypes, HandlerStep
  PROVE  /\ connectStatus' \in {"FAIL", "IPROCESS", "OK"} /\ doneRan' \in SUBSET Calls
         /\ room' \in BOOLEAN /\ garbled' \in BOOLEAN /\ hmask' \in SUBSET Bits
<1> DEFINE T == /\ connectStatus' \in {"FAIL", "IPROCESS", "OK"} /\ doneRan' \in SUBSET Calls
                /\ room' \in BOOLEAN /\ garbled' \in BOOLEAN /\ hmask' \in SUBSET Bits
<1>t. /\ connectStatus \in {"FAIL", "IPROCESS", "OK"} /\ doneRan \in SUBSET Calls
      /\ room \in BOOLEAN /\ garbled \in BOOLEAN /\ hmask \in SUBSET Bits /\ raised \in SUBSET Bits
      /\ donecall \in Seq(Calls)
  BY DEF ChannelTypes, QueueTypes
<1>b. TRUE \in BOOLEAN /\ FALSE \in BOOLEAN /\ {"CLOSE"} \in SUBSET Bits /\ {} \in SUBSET Bits
  BY DEF Bits
<1> USE DEF userVars, streamVars, callVars, bufVars, epollVars, handlerVars, netVars, HGoto, HContinue, HEnd
<1>1. CASE OnEvent
  BY <1>1, <1>t, <1>b DEF OnEvent
<1>2. CASE OnReadable \/ FlushFails
  <2>1. hmask \cup {"CLOSE"} \in SUBSET Bits
    BY <1>t, <1>b
  <2> QED BY <1>2, <1>t, <2>1 DEF OnReadable, FlushFails
<1>3. CASE OnMessageRecived
  <2>1. UNCHANGED <<connectStatus, room, hmask>> /\ (garbled' = garbled \/ garbled' = TRUE)
    BY <1>3 DEF OnMessageRecived
  <2>2. doneRan' \in SUBSET Calls
    <3>1. CASE donecall # <<>>
      <4>1. Head(donecall) \in Calls
        BY <1>t, <3>1, HeadTailProperties
      <4> QED BY <1>3, <1>t, <4>1 DEF OnMessageRecived
    <3>2. CASE donecall = <<>>
      BY <1>3, <1>t, <3>2 DEF OnMessageRecived
    <3> QED BY <3>1, <3>2
  <2>3. garbled' \in BOOLEAN
    BY <1>t, <1>b, <2>1
  <2> QED BY <1>t, <2>1, <2>2, <2>3
<1>4. CASE SendNext \/ HandlerWriteable
  <2>1. UNCHANGED <<connectStatus, doneRan, room, garbled, hmask>>
    BY <1>4 DEF SendNext, HandlerWriteable
  <2> QED BY <1>t, <2>1
<1>5. CASE OnWriteable \/ FlushAll
  <2>1. UNCHANGED <<connectStatus, doneRan, room, garbled, hmask>>
    BY <1>5 DEF OnWriteable, FlushAll
  <2> QED BY <1>t, <2>1
<1>6. CASE FlushSome
  <2>1. UNCHANGED <<connectStatus, doneRan, garbled, hmask>> /\ (room' = room \/ room' = FALSE)
    BY <1>6 DEF FlushSome
  <2>2. room' \in BOOLEAN
    BY <1>t, <1>b, <2>1
  <2> QED BY <1>t, <2>1, <2>2
<1>7. CASE OnReadTimeOut \/ OnWriteTimeOut
  <2>1. UNCHANGED <<connectStatus, doneRan, room, garbled, hmask>>
    BY <1>7 DEF OnReadTimeOut, OnWriteTimeOut, TimeOut
  <2> QED BY <1>t, <2>1
<1>8. CASE OnEventTail
  <2>1. UNCHANGED <<connectStatus, doneRan, room, garbled>> /\ (hmask' = hmask \/ hmask' = {})
    BY <1>8 DEF OnEventTail
  <2> QED BY <1>t, <1>b, <2>1
<1>9. CASE OnCloseCancel
  <2>1. UNCHANGED <<connectStatus, doneRan, room, garbled, hmask>>
    BY <1>9 DEF OnCloseCancel
  <2> QED BY <1>t, <2>1
<1>10. CASE OnCloseDelete
  <2>1. /\ UNCHANGED <<doneRan, room, garbled>> /\ hmask' = {}
        /\ connectStatus' = connectStatus \/ connectStatus' = "FAIL"
    BY <1>10 DEF OnCloseDelete
  <2> QED BY <1>t, <1>b, <2>1
<1> QED BY <1>1, <1>2, <1>3, <1>4, <1>5, <1>6, <1>7, <1>8, <1>9, <1>10 DEF HandlerStep

LEMMA StepTypes == ChannelTypes /\ InStep /\ [Next]_vars => ChannelTypes'
<1> SUFFICES ASSUME ChannelTypes, InStep, [Next]_vars PROVE ChannelTypes'
  OBVIOUS
<1>q. QueueTypes'
  BY StepQueueTypes DEF ChannelTypes
<1>t. /\ opc \in {"start", "connecting", "open", "closing", "released", "crashed"}
      /\ connectStatus \in {"FAIL", "IPROCESS", "OK"}
      /\ isClosed \in BOOLEAN /\ closeWhenEmpty \in BOOLEAN /\ implDeleted \in BOOLEAN
      /\ garbled \in BOOLEAN /\ armed \in BOOLEAN /\ rtimer \in BOOLEAN /\ wtimer \in BOOLEAN
      /\ room \in BOOLEAN
      /\ doneRan \in SUBSET Calls
      /\ tasks \in Seq(TaskNames) /\ moved \in 0..Len(tasks) /\ interest \in {"none", "R", "RW"}
      /\ raised \in SUBSET Bits /\ hmask \in SUBSET Bits
  BY DEF ChannelTypes
<1>b. TRUE \in BOOLEAN /\ FALSE \in BOOLEAN
  OBVIOUS
<1>g. Grown => tasks' \in Seq(TaskNames) /\ moved' \in 0..Len(tasks') /\ interest' \in {"none", "R", "RW"}
  BY <1>t DEF Grown
<1>p. Unposted \/ Asked \/ Quiet \/ Gave => Grown
  BY Nothing DEF Quiet, Asked, Gave
<1>1. CASE UNCHANGED vars
  BY <1>1, <1>q, <1>t, StillFrame DEF ChannelTypes
<1>2. CASE UserSteps
  <2>1. opc' \in {"start", "connecting", "open", "closing", "released", "crashed"}
    BY <1>2, <1>t DEF UserSteps, ConnectReturns, CloseFlag, CloseMod, CallPush, CallMod, CallReturns
  <2>2. Grown
    BY <1>2, <1>p, UserFrame
  <2>3. closeWhenEmpty' \in BOOLEAN
    BY <1>2, <1>t, <1>b, UserFrame
  <2>4. UNCHANGED <<connectStatus, isClosed, implDeleted, garbled, armed, rtimer, wtimer, room, doneRan, raised, hmask>>
    BY <1>2, UserFrame
  <2>5. tasks' \in Seq(TaskNames) /\ moved' \in 0..Len(tasks') /\ interest' \in {"none", "R", "RW"}
    BY <2>2, <1>g
  <2> QED BY <1>q, <1>t, <2>1, <2>3, <2>4, <2>5 DEF ChannelTypes
<1>3. CASE Connects
  <2>1. PICK ret \in {"OK", "IPROCESS", "FAIL"} : Connect(ret)
    BY <1>3 DEF Connects
  <2>2. /\ UNCHANGED <<isClosed, closeWhenEmpty, implDeleted, garbled, armed, rtimer, wtimer, room, doneRan, raised, hmask,
                       interest, moved>>
        /\ opc' \in {"start", "connecting", "open", "closing", "released", "crashed"}
        /\ connectStatus' \in {"FAIL", "IPROCESS", "OK"}
    BY <2>1 DEF Connect, bufVars, callVars, epollVars, handlerVars
  <2>3. tasks' = tasks \/ tasks' = tasks \o <<"AddR">> \/ tasks' = tasks \o <<"AddRW">>
    BY <2>1 DEF Connect, PostTasks
  <2>4. Grown
    <3>1. "AddR" \in TaskNames /\ "AddRW" \in TaskNames
      BY DEF TaskNames
    <3> QED BY <2>2, <2>3, <3>1, <1>p, PostsOne DEF Unposted
  <2>5. tasks' \in Seq(TaskNames) /\ moved' \in 0..Len(tasks') /\ interest' \in {"none", "R", "RW"}
    BY <2>4, <1>g
  <2> QED BY <1>q, <1>t, <2>2, <2>5 DEF ChannelTypes
<1>4. CASE PollSteps
  <2>1. ReadyMask \in SUBSET Bits /\ {"RTIME"} \in SUBSET Bits /\ {"WTIME"} \in SUBSET Bits
    BY DEF ReadyMask, Bits
  <2>2. /\ UNCHANGED <<opc, connectStatus, isClosed, closeWhenEmpty, implDeleted, doneRan, garbled, hmask, room>>
        /\ Unposted
    BY <1>4, PollFrame
  <2>3. raised' \in SUBSET Bits
    BY <1>4, <1>t, <2>1, PollFrame
  <2>4. armed' \in BOOLEAN /\ rtimer' \in BOOLEAN /\ wtimer' \in BOOLEAN
    BY <1>4, <1>t, <1>b, PollFrame
  <2>5. tasks' \in Seq(TaskNames) /\ moved' \in 0..Len(tasks') /\ interest' \in {"none", "R", "RW"}
    BY <2>2, <1>g, <1>p
  <2> QED BY <1>q, <1>t, <2>2, <2>3, <2>4, <2>5 DEF ChannelTypes
<1>5. CASE NetSteps
  <2>1. /\ UNCHANGED <<opc, connectStatus, isClosed, closeWhenEmpty, implDeleted, doneRan, garbled, hmask, raised, rtimer, wtimer>>
        /\ Unposted /\ armed' = (interest # "none")
    BY <1>5, NetFrame
  <2>2. room' \in BOOLEAN
    <3>1. CASE Drain
      BY <3>1, <1>b DEF Drain
    <3>2. CASE ~Drain
      <4>1. room' = room
        BY <1>5, <3>2 DEF NetSteps, Established, Refused, PeerCloses, PeerResets, PeerReplies, LinkBecomes
      <4> QED BY <1>t, <4>1
    <3> QED BY <3>1, <3>2
  <2>3. armed' \in BOOLEAN
    BY <2>1
  <2>4. tasks' \in Seq(TaskNames) /\ moved' \in 0..Len(tasks') /\ interest' \in {"none", "R", "RW"}
    BY <2>1, <1>g, <1>p
  <2> QED BY <1>q, <1>t, <2>1, <2>2, <2>3, <2>4 DEF ChannelTypes
<1>6. CASE ProcessPendingTask
  <2>1. /\ UNCHANGED <<opc, connectStatus, isClosed, closeWhenEmpty, implDeleted, doneRan, garbled, raised, hmask, room>>
    BY <1>6, RunFrame
  <2>2. /\ tasks' \in Seq(TaskNames) /\ moved' \in 0..Len(tasks') /\ rtimer' \in BOOLEAN /\ wtimer' \in BOOLEAN
        /\ tasks[1] \in TaskNames
    BY <1>6, RunsTask
  <2>3. interest' \in {"none", "R", "RW"} /\ (armed' = TRUE \/ armed' = FALSE \/ armed' = armed)
    BY <1>6, <1>t, <2>2, RunsTask DEF TaskNames, Timers
  <2>4. armed' \in BOOLEAN
    BY <1>t, <1>b, <2>3
  <2> QED BY <1>q, <1>t, <2>1, <2>2, <2>3, <2>4 DEF ChannelTypes
<1>7. CASE HandlerStep
  <2>1. UNCHANGED <<opc, armed, rtimer, wtimer>>
    BY <1>7, HandlerFrame
  <2>2. raised' \in SUBSET Bits
    BY <1>7, <1>t, HandlerFrame
  <2>3. isClosed' \in BOOLEAN /\ implDeleted' \in BOOLEAN /\ closeWhenEmpty' \in BOOLEAN
    BY <1>7, <1>t, <1>b, HandlerFrame
  <2>4. tasks' \in Seq(TaskNames) /\ moved' \in 0..Len(tasks') /\ interest' \in {"none", "R", "RW"}
    BY <1>7, <1>g, HandlerGrown
  <2> QED BY <1>7, <1>q, <1>t, <2>1, <2>2, <2>3, <2>4, HandlerTypes DEF ChannelTypes
<1> QED BY <1>1, <1>2, <1>3, <1>4, <1>5, <1>6, <1>7, StepIs DEF ChannelStep
-----------------------------------------------------------------------------
(* Where the handler goes.                                                 *)

Late == {"RTIME", "WTIME", "tail"}
After1 == /\ "WRITE" \in hmask => hpc' = "WRITE"
          /\ "WRITE" \notin hmask => hpc' \in Late

LEMMA EventGoes ==
  ASSUME OnEvent
  PROVE  /\ hpc = "idle" /\ raised # {} /\ raised' = {}
         /\ UNCHANGED <<isClosed, closeWhenEmpty, implDeleted, sendcall, waitcall, donecall, status, writebuf,
                        readbuf, garbled, tasks, room, eagain, peerq, inbox>>
         /\ \/ isClosed /\ UNCHANGED <<hpc, hmask, connectStatus>>
            \/ /\ ~isClosed /\ raised \cap {"CLOSE", "ERR"} # {} /\ hpc' \in {"tail", "close"}
               /\ hmask' = {"CLOSE"} /\ connectStatus' = connectStatus
            \/ /\ ~isClosed /\ raised \cap {"CLOSE", "ERR"} = {} /\ hmask' = raised
               /\ "READ" \in raised => hpc' = "READ"
               /\ "READ" \notin raised /\ "WRITE" \in raised => hpc' = "WRITE"
               /\ "READ" \notin raised /\ "WRITE" \notin raised => hpc' \in Late
<1>1. /\ "READ" \in raised => PhaseAfter(0, raised) = "READ"
      /\ "READ" \notin raised /\ "WRITE" \in raised => PhaseAfter(0, raised) = "WRITE"
      /\ "READ" \notin raised /\ "WRITE" \notin raised => PhaseAfter(0, raised) \in Late
  BY PhaseIs DEF Late
<1> QED BY <1>1 DEF OnEvent, callVars, bufVars, netVars

LEMMA ReadGoes ==
  /\ OnReadable => /\ hpc = "READ"
                   /\ \/ link \in {"fin", "rst"} /\ hmask' = hmask \cup {"CLOSE"} /\ After1
                      \/ link \notin {"fin", "rst"} /\ hmask' = hmask /\ After1 /\ (inbox = <<>> \/ garbled)
                      \/ link \notin {"fin", "rst"} /\ hmask' = hmask /\ hpc' = "recv" /\ inbox # <<>> /\ ~garbled
  /\ OnMessageRecived => /\ hpc = "recv" /\ hmask' = hmask
                         /\ \/ donecall = <<>> /\ After1
                            \/ donecall # <<>> /\ hpc' = "next"
                            \/ After1 /\ closeWhenEmpty'
  /\ SendNext => /\ hpc = "next" /\ hmask' = hmask
                 /\ \/ After1 /\ (readbuf = <<>> \/ closeWhenEmpty')
                    \/ hpc' = "recv" /\ readbuf # <<>>
<1> USE DEF HGoto, HContinue, After1
<1>p. /\ "WRITE" \in hmask => PhaseAfter(1, hmask) = "WRITE"
      /\ "WRITE" \notin hmask => PhaseAfter(1, hmask) \in Late
  BY PhaseIs DEF Late
<1>1. OnReadable => /\ hpc = "READ"
                    /\ \/ link \in {"fin", "rst"} /\ hmask' = hmask \cup {"CLOSE"} /\ After1
                       \/ link \notin {"fin", "rst"} /\ hmask' = hmask /\ After1 /\ (inbox = <<>> \/ garbled)
                       \/ link \notin {"fin", "rst"} /\ hmask' = hmask /\ hpc' = "recv" /\ inbox # <<>> /\ ~garbled
  BY <1>p DEF OnReadable
<1>2. OnMessageRecived => /\ hpc = "recv" /\ hmask' = hmask
                          /\ \/ donecall = <<>> /\ After1
                             \/ donecall # <<>> /\ hpc' = "next"
                             \/ After1 /\ closeWhenEmpty'
  BY <1>p DEF OnMessageRecived, OnMessageError
<1>3. SendNext => /\ hpc = "next" /\ hmask' = hmask
                  /\ \/ After1 /\ (readbuf = <<>> \/ closeWhenEmpty')
                     \/ hpc' = "recv" /\ readbuf # <<>>
  BY <1>p DEF SendNext
<1> HIDE DEF HGoto, HContinue, After1
<1> QED BY <1>1, <1>2, <1>3

LEMMA WriteGoes ==
  /\ OnWriteable => hpc = "WRITE" /\ hpc' = "able" /\ hmask' = hmask
  /\ HandlerWriteable => /\ hpc = "able" /\ hmask' = hmask
                         /\ \/ writebuf' = <<>> /\ hpc' \in Late
                            \/ writebuf' # <<>> /\ hpc' = "flush"
  /\ FlushAll => hpc = "flush" /\ hpc' \in Late /\ hmask' = hmask /\ writebuf' = <<>>
  /\ FlushSome => hpc = "flush" /\ hpc' \in Late /\ hmask' = hmask
  /\ FlushFails => hpc = "flush" /\ hpc' \in Late /\ hmask' = hmask \cup {"CLOSE"} /\ link = "rst"
<1>1. PhaseAfter(2, hmask) \in Late
  BY PhaseIs DEF Late
<1> QED BY <1>1 DEF HGoto, HContinue, OnWriteable, HandlerWriteable, FlushAll, FlushSome, FlushFails

LEMMA EndGoes ==
  /\ OnReadTimeOut \/ OnWriteTimeOut => hpc \in {"RTIME", "WTIME"} /\ hpc' \in Late /\ hmask' = hmask
  /\ OnEventTail => /\ hpc = "tail"
                    /\ \/ /\ hpc' = "idle" /\ hmask' = {} /\ closeWhenEmpty' = closeWhenEmpty /\ tasks' = tasks
                          /\ ~closeWhenEmpty /\ "CLOSE" \notin hmask
                       \/ /\ hpc' = "close" /\ hmask' = hmask /\ closeWhenEmpty' = closeWhenEmpty
                          /\ closeWhenEmpty \/ "CLOSE" \in hmask
                       \/ /\ hpc' = "idle" /\ hmask' = {} /\ closeWhenEmpty' = TRUE
                          /\ tasks' = tasks \o <<"ModRW">> /\ UNCHANGED <<interest, moved>>
  /\ OnCloseCancel => hpc = "close" /\ hpc' = "delete" /\ hmask' = hmask /\ isClosed' = TRUE
  /\ OnCloseDelete => hpc = "delete" /\ hpc' = "idle" /\ hmask' = {} /\ implDeleted' = TRUE
<1>1. PhaseAfter(3, hmask) \in Late /\ PhaseAfter(4, hmask) \in Late
  BY PhaseIs DEF Late
<1>2. Phases[3] = "RTIME" /\ Phases[4] = "WTIME"
  BY DEF Phases
<1>3. OnReadTimeOut \/ OnWriteTimeOut => hpc \in {"RTIME", "WTIME"} /\ hpc' \in Late /\ hmask' = hmask
  BY <1>1, <1>2 DEF OnReadTimeOut, OnWriteTimeOut, TimeOut, HGoto, HContinue
<1> QED BY <1>3 DEF HGoto, HEnd, OnEventTail, OnCloseCancel, OnCloseDelete, PostTasks, epollVars

LEMMA ConnectFrame ==
  ASSUME Connects
  PROVE  /\ UNCHANGED <<upc, isClosed, closeWhenEmpty, implDeleted, sendcall, waitcall, donecall,
                        status, got, doneRan, writebuf, readbuf, garbled, moved, interest, armed,
                        rtimer, wtimer, raised, hpc, hmask, room, eagain, peerq, inbox>>
         /\ opc = "start"
         /\ \/ link' = "up" /\ opc' = "open" /\ tasks' = tasks \o <<"AddR">>
            \/ (link' = "connecting" /\ opc' = "connecting" /\ connectStatus' = "IPROCESS"
               /\ tasks' = tasks \o <<"AddRW">>)
            \/ link' = "refused" /\ opc' = "crashed" /\ tasks' = tasks
BY DEF Connects, Connect, PostTasks, callVars, bufVars, epollVars, handlerVars

\* Only the handler touches these.
LEMMA Outside ==
  ASSUME ChannelTypes, ChannelStep, ~ HandlerStep
  PROVE  /\ UNCHANGED <<isClosed, implDeleted, waitcall, donecall, status, got, doneRan, writebuf, readbuf,
                        garbled, hpc, hmask>>
         /\ closeWhenEmpty' = closeWhenEmpty \/ (closeWhenEmpty' = TRUE /\ opc' = "closing")
<1>1. CASE UNCHANGED vars
  BY <1>1, StillFrame
<1>2. CASE UserSteps
  BY <1>2, UserFrame
<1>3. CASE Connects
  BY <1>3, ConnectFrame
<1>4. CASE PollSteps
  BY <1>4, PollFrame
<1>5. CASE NetSteps
  BY <1>5, NetFrame
<1>6. CASE ProcessPendingTask
  BY <1>6, RunFrame
<1> QED BY <1>1, <1>2, <1>3, <1>4, <1>5, <1>6 DEF ChannelStep

\* The connection goes from one state to the next.
LEMMA LinkMoves ==
  ASSUME ChannelTypes, ChannelStep
  PROVE  \/ link' = link
         \/ Connects
         \/ link = "connecting" /\ link' \in {"up", "refused"} /\ NetSteps
         \/ link \in {"up", "fin"} /\ link' \in {"fin", "rst"} /\ NetSteps
<1>1. CASE UNCHANGED vars
  BY <1>1, StillFrame
<1>2. CASE UserSteps
  BY <1>2, UserFrame
<1>4. CASE PollSteps
  BY <1>4, PollFrame
<1>5. CASE NetSteps
  BY <1>5, NetFrame
<1>6. CASE ProcessPendingTask
  BY <1>6, RunFrame
<1>7. CASE HandlerStep
  BY <1>7, HandlerFrame
<1> QED BY <1>1, <1>2, <1>4, <1>5, <1>6, <1>7 DEF ChannelStep

LEMMA OwnerMoves ==
  ASSUME ChannelTypes, ChannelStep
  PROVE  \/ opc' = opc
         \/ /\ opc' \in {"open", "connecting", "crashed"}
            /\ opc \in {"start", "connecting", "open"} \/ (opc = "closing" /\ implDeleted)
         \/ opc = "open" /\ opc' = "closing" /\ closeWhenEmpty' = TRUE
         \/ opc = "open" /\ opc' = "released" /\ isClosed /\ isClosed' = isClosed
         \/ opc = "closing" /\ opc' = "released" /\ Asked /\ UserSteps
<1>1. CASE UNCHANGED vars
  BY <1>1, StillFrame
<1>2. CASE Connects
  BY <1>2, ConnectFrame
<1>3. CASE PollSteps
  BY <1>3, PollFrame
<1>4. CASE NetSteps
  BY <1>4, NetFrame
<1>5. CASE ProcessPendingTask
  BY <1>5, RunFrame
<1>6. CASE HandlerStep
  BY <1>6, HandlerFrame
<1>7. CASE UserSteps
  <2>1. CASE ConnectReturns
    BY <2>1 DEF ConnectReturns
  <2>2. CASE CloseFlag
    BY <2>2 DEF CloseFlag, streamVars
  <2>3. CASE CloseMod
    <3>1. opc = "closing" /\ ((implDeleted /\ opc' = "crashed") \/ (opc' = "released" /\ tasks' = tasks \o <<"ModRW">>))
          /\ UNCHANGED <<interest, moved>>
      BY <2>3 DEF CloseMod, PostTasks, epollVars
    <3>2. tasks' = tasks \o <<"ModRW">> => Asked
      BY <3>1, PostsOne DEF TaskNames, Asked
    <3> QED BY <1>7, <3>1, <3>2
  <2>4. ASSUME NEW c \in Calls, CallPush(c) \/ CallMod(c) \/ CallReturns(c) PROVE opc' = opc
    BY <2>4 DEF CallPush, CallMod, CallReturns
  <2> QED BY <1>7, <2>1, <2>2, <2>3, <2>4 DEF UserSteps
<1> QED BY <1>1, <1>2, <1>3, <1>4, <1>5, <1>6, <1>7 DEF ChannelStep

LEMMA StepPlaces == ChannelTypes /\ Early /\ Places /\ ChannelStep => Places'
<1> SUFFICES ASSUME ChannelTypes, Early, Places, ChannelStep PROVE Places'
  OBVIOUS
<1>p. /\ hpc \in {"idle", "READ", "recv", "next", "WRITE", "able", "flush", "RTIME", "WTIME", "tail", "close", "delete"}
      /\ link \in {"none", "connecting", "refused", "up", "fin", "rst"}
      /\ isClosed => hpc \in {"idle", "delete"} /\ waitcall = <<>> /\ donecall = <<>>
      /\ implDeleted => isClosed
      /\ hpc = "delete" <=> isClosed /\ ~implDeleted
      /\ hpc = "flush" => writebuf # <<>>
      /\ raised \cap {"CLOSE", "ERR"} # {} => link \in {"rst", "refused"}
      /\ "CLOSE" \in hmask => link \in {"fin", "rst", "refused"}
      /\ hpc = "idle" => hmask = {}
      /\ opc = "closing" => closeWhenEmpty
      /\ opc = "released" => closeWhenEmpty \/ isClosed
  BY DEF Places
<1>b. closeWhenEmpty \in BOOLEAN /\ isClosed \in BOOLEAN /\ implDeleted \in BOOLEAN
      /\ raised \in SUBSET Bits /\ hmask \in SUBSET Bits
  BY DEF ChannelTypes
<1>e. /\ opc = "start" => link = "none"
      /\ link \in {"none", "connecting"} => raised = {} /\ hpc = "idle"
  BY DEF Early
<1>c. (isClosed => isClosed') /\ (closeWhenEmpty => closeWhenEmpty')
  <2>1. CASE HandlerStep
    <3>1. /\ isClosed' = isClosed \/ isClosed' = TRUE
          /\ closeWhenEmpty' = closeWhenEmpty \/ closeWhenEmpty' = TRUE
      BY <2>1, HandlerFrame
    <3> QED BY <3>1, <1>b
  <2>2. CASE ~ HandlerStep
    <3>1. isClosed' = isClosed /\ (closeWhenEmpty' = closeWhenEmpty \/ closeWhenEmpty' = TRUE)
      BY <2>2, Outside
    <3> QED BY <3>1, <1>b
  <2> QED BY <2>1, <2>2
<1>l. link' \in {"none", "connecting", "refused", "up", "fin", "rst"}
  BY <1>p, ConnectFrame, LinkMoves
<1>1. /\ opc' = "closing" => closeWhenEmpty'
      /\ opc' = "released" => closeWhenEmpty' \/ isClosed'
  BY <1>p, <1>c, OwnerMoves
<1>2. CASE ~ HandlerStep
  <2>1. UNCHANGED <<isClosed, implDeleted, waitcall, donecall, writebuf, hpc, hmask>>
    BY <1>2, Outside
  <2>2. raised' \cap {"CLOSE", "ERR"} # {} => link' \in {"rst", "refused"}
    <3>1. CASE PollSteps
      <4>1. link' = link /\ (raised' = raised \cup ReadyMask \/ raised' \in {raised \cup {"RTIME"}, raised \cup {"WTIME"}})
        BY <3>1, PollFrame
      <4>2. ReadyMask \cap {"CLOSE", "ERR"} # {} => link \in {"rst", "refused"}
        BY DEF ReadyMask
      <4> QED BY <1>p, <4>1, <4>2
    <3>2. CASE ~ PollSteps
      <4>1. raised' = raised
        BY <1>2, <3>2, StillFrame, UserFrame, ConnectFrame, NetFrame, RunFrame DEF ChannelStep
      <4>2. link' # link => raised = {} \/ link' \in {"rst", "refused"} \/ link \in {"up", "fin"}
        BY <1>e, ConnectFrame, LinkMoves
      <4> QED BY <1>p, <4>1, <4>2
    <3> QED BY <3>1, <3>2
  <2>3. "CLOSE" \in hmask => link' \in {"fin", "rst", "refused"}
    BY <1>p, <1>e, ConnectFrame, LinkMoves
  <2> QED BY <1>p, <1>l, <1>1, <2>1, <2>2, <2>3 DEF Places
<1>3. CASE HandlerStep
  <2>1. /\ link' = link /\ (raised' = raised \/ raised' = {})
        /\ isClosed' = isClosed \/ (isClosed' = TRUE /\ OnCloseCancel)
        /\ implDeleted' = implDeleted \/ (implDeleted' = TRUE /\ OnCloseDelete)
    BY <1>3, HandlerFrame
  <2>2. raised' \cap {"CLOSE", "ERR"} # {} => link' \in {"rst", "refused"}
    BY <1>p, <2>1
  <2>3. CASE OnEvent
    <3>1. UNCHANGED <<isClosed, implDeleted, waitcall, donecall, writebuf>> /\ hpc = "idle"
      BY <2>3, EventGoes
    <3>2. /\ hpc' \in {"idle", "READ", "WRITE", "RTIME", "WTIME", "tail", "close"}
          /\ hpc' = "idle" => hmask' = {}
          /\ "CLOSE" \in hmask' => link \in {"fin", "rst", "refused"}
          /\ isClosed => hpc' = "idle"
      BY <1>p, <2>3, EventGoes DEF Late
    <3> QED BY <1>p, <1>l, <1>1, <2>1, <2>2, <3>1, <3>2 DEF Places
  <2>4. CASE OnReadable \/ OnMessageRecived \/ SendNext
    <3>1. /\ hpc \in {"READ", "recv", "next"} /\ hpc' \in {"recv", "next", "WRITE", "RTIME", "WTIME", "tail"}
          /\ "CLOSE" \in hmask' => "CLOSE" \in hmask \/ link \in {"fin", "rst"}
      BY <2>4, ReadGoes DEF After1, Late
    <3>2. isClosed' = isClosed /\ implDeleted' = implDeleted
      BY <2>4 DEF OnReadable, OnMessageRecived, SendNext, streamVars
    <3> QED BY <1>p, <1>l, <1>1, <2>1, <2>2, <3>1, <3>2 DEF Places
  <2>5. CASE OnWriteable \/ HandlerWriteable \/ FlushAll \/ FlushSome \/ FlushFails
    <3>1. /\ hpc \in {"WRITE", "able", "flush"} /\ hpc' \in {"able", "flush", "RTIME", "WTIME", "tail"}
          /\ "CLOSE" \in hmask' => "CLOSE" \in hmask \/ link = "rst"
          /\ hpc' = "flush" => writebuf' # <<>>
      BY <2>5, WriteGoes DEF Late
    <3>2. isClosed' = isClosed /\ implDeleted' = implDeleted
      BY <2>5 DEF OnWriteable, HandlerWriteable, FlushAll, FlushSome, FlushFails, streamVars
    <3> QED BY <1>p, <1>l, <1>1, <2>1, <2>2, <3>1, <3>2 DEF Places
  <2>6. CASE OnReadTimeOut \/ OnWriteTimeOut
    <3>1. hpc \in {"RTIME", "WTIME"} /\ hpc' \in {"RTIME", "WTIME", "tail"} /\ hmask' = hmask
      BY <2>6, EndGoes DEF Late
    <3>2. isClosed' = isClosed /\ implDeleted' = implDeleted
      BY <2>6 DEF OnReadTimeOut, OnWriteTimeOut, TimeOut
    <3> QED BY <1>p, <1>l, <1>1, <2>1, <2>2, <3>1, <3>2 DEF Places
  <2>7. CASE OnEventTail
    <3>1. hpc = "tail" /\ hpc' \in {"idle", "close"} /\ (hmask' = hmask \/ hmask' = {}) /\ (hpc' = "idle" => hmask' = {})
      BY <2>7, EndGoes
    <3>2. isClosed' = isClosed /\ implDeleted' = implDeleted
      BY <2>7 DEF OnEventTail
    <3> QED BY <1>p, <1>l, <1>1, <2>1, <2>2, <3>1, <3>2 DEF Places
  <2>8. CASE OnCloseCancel
    <3>1. hpc = "close" /\ hpc' = "delete" /\ hmask' = hmask /\ isClosed' = TRUE /\ implDeleted' = implDeleted
      BY <2>8, EndGoes DEF OnCloseCancel
    <3>2. waitcall' = <<>> /\ donecall' = <<>>
      <4>1. CASE InFlight = {} /\ UNCHANGED callVars
        <5>1. \A q \in Seq(Calls) : ToSet(q) = {} => q = <<>>
          <6> SUFFICES ASSUME NEW q \in Seq(Calls), q # <<>> PROVE ToSet(q) # {}
            OBVIOUS
          <6>1. 1 \in DOMAIN q
            BY LenProperties, EmptySeq
          <6> QED BY <6>1 DEF ToSet
        <5>2. ToSet(waitcall) = {} /\ ToSet(donecall) = {} /\ waitcall' = waitcall /\ donecall' = donecall
          BY <4>1 DEF InFlight, callVars
        <5>3. waitcall \in Seq(Calls) /\ donecall \in Seq(Calls)
          BY DEF ChannelTypes, QueueTypes
        <5> QED BY <5>1, <5>2, <5>3
      <4>2. CASE OnMessageError("CANCEL_BY_CLOSE")
        BY <4>2 DEF OnMessageError
      <4> QED BY <2>8, <4>1, <4>2 DEF OnCloseCancel
    <3>3. ~isClosed
      BY <1>p, <3>1
    <3> QED BY <1>p, <1>l, <1>1, <2>1, <2>2, <3>1, <3>2, <3>3 DEF Places
  <2>9. CASE OnCloseDelete
    <3>1. /\ hpc = "delete" /\ hpc' = "idle" /\ hmask' = {} /\ implDeleted' = TRUE
          /\ UNCHANGED <<isClosed, waitcall, donecall>>
      BY <2>9, EndGoes DEF OnCloseDelete, callVars
    <3> QED BY <1>p, <1>l, <1>1, <2>1, <2>2, <3>1 DEF Places
  <2> QED BY <1>3, <2>3, <2>4, <2>5, <2>6, <2>7, <2>8, <2>9 DEF HandlerStep
<1> QED BY <1>2, <1>3

LEMMA StepEarly == ChannelTypes /\ Early /\ Places /\ ChannelStep => Early'
<1> SUFFICES ASSUME ChannelTypes, Early, Places, ChannelStep PROVE Early'
  OBVIOUS
<1>b. /\ room \in BOOLEAN /\ rtimer \in BOOLEAN /\ wtimer \in BOOLEAN /\ garbled \in BOOLEAN
      /\ isClosed \in BOOLEAN /\ closeWhenEmpty \in BOOLEAN /\ implDeleted \in BOOLEAN /\ armed \in BOOLEAN
      /\ tasks \in Seq(TaskNames)
  BY DEF ChannelTypes
<1>e. /\ opc = "start" => link = "none"
      /\ link \in {"none", "connecting", "refused"} => Blank
      /\ link = "none" => opc = "start" /\ tasks = <<>> /\ interest = "none" /\ ~armed
      /\ link \in {"none", "connecting"} => raised = {} /\ hpc = "idle" /\ ~isClosed
      /\ link = "connecting" => opc = "connecting" /\ connectStatus = "IPROCESS"
      /\ link = "refused" => \/ opc = "connecting" /\ (connectStatus = "IPROCESS" \/ implDeleted)
                             \/ opc = "crashed"
  BY DEF Early
<1>s. opc' = "start" => opc = "start"
  BY OwnerMoves
<1>1. CASE UNCHANGED vars
  <2>1. UNCHANGED <<opc, upc, connectStatus, isClosed, closeWhenEmpty, implDeleted, sendcall, waitcall, donecall,
                    writebuf, readbuf, garbled, tasks, interest, armed,
                    rtimer, wtimer, raised, hpc, link, room, peerq, inbox>>
    BY <1>1, StillFrame
  <2> QED BY <2>1 DEF Early, Blank
<1>2. CASE UserSteps
  <2>1. /\ UNCHANGED <<connectStatus, isClosed, implDeleted, waitcall, donecall, writebuf, readbuf, garbled,
                       interest, armed, rtimer, wtimer, raised, hpc, link, room, peerq, inbox>>
        /\ \/ opc = "connecting" /\ connectStatus # "IPROCESS"
           \/ opc \in {"open", "closing"} \/ \E c \in Calls : upc[c] # "idle"
    BY <1>2, UserFrame
  <2>2. CASE link \notin {"none", "connecting", "refused"}
    BY <1>e, <1>s, <2>1, <2>2 DEF Early
  <2>3. CASE link \in {"none", "connecting", "refused"}
    <3>1. link = "refused" /\ implDeleted /\ opc = "connecting" /\ connectStatus # "IPROCESS"
      BY <1>e, <2>1, <2>3 DEF Blank
    <3>2. ConnectReturns
      BY <1>2, <1>e, <3>1 DEF UserSteps, Blank, CloseFlag, CloseMod, CallPush, CallMod, CallReturns
    <3>3. UNCHANGED <<upc, sendcall, closeWhenEmpty, tasks>> /\ opc' = "crashed"
      BY <3>1, <3>2 DEF ConnectReturns, streamVars, callVars
    <3>4. Blank'
      BY <1>e, <2>1, <2>3, <3>3 DEF Blank
    <3> QED BY <2>1, <3>1, <3>3, <3>4 DEF Early
  <2> QED BY <2>2, <2>3
<1>3. CASE Connects
  <2>1. link = "none" /\ tasks = <<>> /\ raised = {} /\ hpc = "idle" /\ ~isClosed
    BY <1>3, <1>e, ConnectFrame
  <2>2. UNCHANGED <<upc, isClosed, closeWhenEmpty, implDeleted, sendcall, waitcall, donecall,
                    writebuf, readbuf, garbled, interest, armed, rtimer, wtimer, raised, hpc, room, peerq, inbox>>
    BY <1>3, ConnectFrame
  <2>3. /\ tasks' = tasks => \A i \in 1..Len(tasks') : tasks'[i] \in {"AddRW", "Del"}
        /\ tasks' = tasks \o <<"AddRW">> => \A i \in 1..Len(tasks') : tasks'[i] \in {"AddRW", "Del"}
    <3>1. Len(<<>>) = 0
      BY EmptySeq
    <3>2. tasks \o <<"AddRW">> = <<"AddRW">>
      <4>1. <<"AddRW">> \in Seq({"AddRW"})
        OBVIOUS
      <4>2. <<>> \o <<"AddRW">> = <<"AddRW">>
        BY <4>1, ConcatEmptySeq
      <4> QED BY <2>1, <4>2
    <3>3. Len(<<"AddRW">>) = 1 /\ <<"AddRW">>[1] = "AddRW"
      OBVIOUS
    <3>4. ASSUME NEW s, s = <<"AddRW">> PROVE \A i \in 1..Len(s) : s[i] \in {"AddRW", "Del"}
      BY <3>3, <3>4
    <3> QED BY <2>1, <3>1, <3>2, <3>4
  <2>4. link' \in {"connecting", "refused"} => Blank'
    <3>1. link' \in {"connecting", "refused"} => tasks' = tasks \/ tasks' = tasks \o <<"AddRW">>
      BY <1>3, ConnectFrame
    <3> QED BY <1>e, <2>1, <2>2, <2>3, <3>1 DEF Blank
  <2>5. CASE link' = "up" /\ opc' = "open"
    BY <2>5 DEF Early
  <2>6. CASE link' = "connecting" /\ opc' = "connecting" /\ connectStatus' = "IPROCESS"
    BY <2>1, <2>2, <2>4, <2>6 DEF Early
  <2>7. CASE link' = "refused" /\ opc' = "crashed"
    BY <2>4, <2>7 DEF Early
  <2> QED BY <1>3, <2>5, <2>6, <2>7, ConnectFrame
<1>4. CASE PollSteps
  <2>1. UNCHANGED <<opc, upc, connectStatus, isClosed, closeWhenEmpty, implDeleted, sendcall, waitcall, donecall,
                    writebuf, readbuf, garbled, tasks, interest, hpc, link, room, peerq, inbox>>
    BY <1>4, PollFrame
  <2>2. CASE link \notin {"none", "connecting", "refused"}
    BY <1>e, <2>1, <2>2 DEF Early
  <2>3. CASE link \in {"none", "connecting", "refused"}
    <3>1. armed /\ armed' = FALSE /\ raised' = raised \cup ReadyMask /\ UNCHANGED <<rtimer, wtimer>>
      BY <1>4, <1>e, <2>3, PollFrame DEF Blank
    <3>2. link # "none"
      BY <1>e, <3>1
    <3>3. ReadyMask \subseteq {"CLOSE", "ERR"} /\ (link = "connecting" => ReadyMask = {})
      BY <1>e, <2>3, <3>2 DEF ReadyMask, Blank
    <3>4. raised' \subseteq {"CLOSE", "ERR"} /\ (link = "connecting" => raised' = {})
      BY <1>e, <2>3, <3>1, <3>3 DEF Blank
    <3>5. Blank'
      BY <1>e, <2>1, <2>3, <3>1, <3>4 DEF Blank
    <3> QED BY <1>e, <2>1, <3>2, <3>4, <3>5 DEF Early
  <2> QED BY <2>2, <2>3
<1>5. CASE NetSteps
  <2>1. UNCHANGED <<opc, upc, connectStatus, isClosed, closeWhenEmpty, implDeleted, sendcall, waitcall, donecall,
                    writebuf, readbuf, garbled, tasks, interest, rtimer, wtimer, raised, hpc>>
    BY <1>5, NetFrame
  <2>2. CASE link' \in {"up", "fin", "rst"}
    <3>1. opc # "start"
      BY <1>5, <1>e, NetFrame
    <3> QED BY <2>1, <2>2, <3>1 DEF Early
  <2>3. CASE link = "connecting" /\ link' = "refused" /\ UNCHANGED <<room, peerq, inbox>>
    <3>1. Blank'
      BY <1>e, <2>1, <2>3 DEF Blank
    <3> QED BY <1>e, <2>1, <2>3, <3>1 DEF Early
  <2> QED BY <1>5, <2>2, <2>3, NetFrame
<1>6. CASE ProcessPendingTask
  <2>1. UNCHANGED <<opc, upc, connectStatus, isClosed, closeWhenEmpty, implDeleted, sendcall, waitcall, donecall,
                    writebuf, readbuf, garbled, raised, hpc, link, room, peerq, inbox>>
    BY <1>6, RunFrame
  <2>2. CASE link \notin {"none", "connecting", "refused"}
    BY <1>e, <2>1, <2>2 DEF Early
  <2>3. CASE link \in {"none", "connecting", "refused"}
    <3>1. /\ tasks # <<>> /\ Len(tasks) \in Nat /\ Len(tasks) >= 1 /\ Len(tasks') = Len(tasks) - 1
          /\ \A i \in 1..Len(tasks) - 1 : tasks'[i] = tasks[i + 1]
      BY <1>6, RunsTask
    <3>2. /\ \A i \in 1..Len(tasks) : tasks[i] \in {"AddRW", "Del"}
          /\ ~rtimer /\ ~wtimer
      BY <1>e, <2>3 DEF Blank
    <3>3. tasks[1] \notin Timers
      BY <3>1, <3>2 DEF Timers
    <3>4. ~rtimer' /\ ~wtimer'
      BY <1>6, <3>2, <3>3, RunsTask
    <3>5. \A i \in 1..Len(tasks') : tasks'[i] \in {"AddRW", "Del"}
      <4> SUFFICES ASSUME NEW i \in 1..Len(tasks') PROVE tasks'[i] \in {"AddRW", "Del"}
        OBVIOUS
      <4>1. i \in 1..Len(tasks) - 1 /\ i + 1 \in 1..Len(tasks)
        BY <3>1
      <4> QED BY <3>1, <3>2, <4>1
    <3>6. Blank'
      BY <1>e, <2>1, <2>3, <3>4, <3>5 DEF Blank
    <3> QED BY <1>e, <2>1, <3>1, <3>6 DEF Early
  <2> QED BY <2>2, <2>3
<1>7. CASE HandlerStep
  <2>1. UNCHANGED <<opc, upc, link, interest, armed, rtimer, wtimer>>
    BY <1>7, HandlerFrame
  <2>2. CASE link \notin {"none", "connecting", "refused"}
    BY <1>e, <2>1, <2>2 DEF Early
  <2>3. CASE link \in {"none", "connecting", "refused"}
    <3>0. Blank /\ raised \subseteq {"CLOSE", "ERR"} /\ hpc \in {"idle", "tail", "close", "delete"}
      BY <1>e, <2>3 DEF Blank
    <3>1. OnEvent \/ OnEventTail \/ OnCloseCancel \/ OnCloseDelete
      <4>1. OnReadable \/ OnMessageRecived \/ SendNext => hpc \in {"READ", "recv", "next"}
        BY ReadGoes
      <4>2. OnWriteable \/ HandlerWriteable \/ FlushAll \/ FlushSome \/ FlushFails => hpc \in {"WRITE", "able", "flush"}
        BY WriteGoes
      <4>3. OnReadTimeOut \/ OnWriteTimeOut => hpc \in {"RTIME", "WTIME"}
        BY EndGoes
      <4> QED BY <1>7, <3>0, <4>1, <4>2, <4>3 DEF HandlerStep
    <3>2. link = "refused"
      <4>1. raised # {} \/ hpc # "idle"
        BY <3>1, EventGoes, EndGoes
      <4> QED BY <1>e, <2>3, <4>1
    <3>3. CASE OnEvent
      <4>1. /\ UNCHANGED <<isClosed, closeWhenEmpty, implDeleted, sendcall, waitcall, donecall, writebuf,
                           readbuf, garbled, tasks, room, peerq, inbox>>
            /\ raised' = {} /\ raised # {} /\ hpc = "idle"
        BY <3>3, EventGoes
      <4>2. raised \cap {"CLOSE", "ERR"} # {}
        BY <3>0, <4>1
      <4>3. hpc' \in {"idle", "tail", "close"} /\ connectStatus' = connectStatus
        BY <3>3, <4>1, <4>2, EventGoes
      <4>4. Blank'
        BY <2>1, <3>0, <4>1, <4>3 DEF Blank
      <4> QED BY <1>e, <2>1, <3>2, <4>1, <4>3, <4>4 DEF Early
    <3>4. CASE OnEventTail
      <4>1. /\ UNCHANGED <<connectStatus, isClosed, implDeleted, sendcall, waitcall, donecall, writebuf,
                           readbuf, garbled, room, peerq, inbox, raised>>
            /\ hpc' \in {"idle", "close"}
        BY <3>4, EndGoes DEF OnEventTail, callVars, bufVars, netVars, epollVars
      <4>2. UNCHANGED <<closeWhenEmpty, tasks>>
        BY <3>0, <3>4 DEF OnEventTail, Blank
      <4>3. Blank'
        BY <2>1, <3>0, <4>1, <4>2 DEF Blank
      <4> QED BY <1>e, <2>1, <3>2, <4>1, <4>3 DEF Early
    <3>5. CASE OnCloseCancel
      <4>1. /\ UNCHANGED <<connectStatus, implDeleted, writebuf, readbuf, garbled, room, peerq, inbox, raised>>
            /\ hpc' = "delete"
        BY <3>5, EndGoes DEF OnCloseCancel, bufVars, netVars, epollVars
      <4>2. sendcall = <<>> /\ InFlight = {}
        <5>1. ToSet(<<>>) = {}
          <6>1. DOMAIN <<>> = {}
            OBVIOUS
          <6> QED BY <6>1 DEF ToSet
        <5>2. sendcall = <<>> /\ waitcall = <<>> /\ donecall = <<>>
          BY <3>0 DEF Blank
        <5> QED BY <5>1, <5>2 DEF InFlight
      <4>3. UNCHANGED <<sendcall, waitcall, donecall, closeWhenEmpty, tasks>>
        BY <3>5, <4>2 DEF OnCloseCancel, callVars
      <4>4. Blank'
        BY <2>1, <3>0, <4>1, <4>3 DEF Blank
      <4> QED BY <1>e, <2>1, <3>2, <4>1, <4>4 DEF Early
    <3>6. CASE OnCloseDelete
      <4>1. /\ UNCHANGED <<isClosed, closeWhenEmpty, sendcall, waitcall, donecall, writebuf,
                           readbuf, garbled, room, peerq, inbox, raised, interest, moved>>
            /\ hpc' = "idle" /\ implDeleted' = TRUE /\ tasks' = tasks \o <<"Del">>
        BY <3>6, EndGoes DEF OnCloseDelete, callVars, bufVars, netVars, epollVars, PostTasks
      <4>2. Grown /\ \A i \in Fresh : tasks'[i] = "Del"
        BY <4>1, PostsOne DEF TaskNames
      <4>3. \A i \in 1..Len(tasks') : tasks'[i] \in {"AddRW", "Del"}
        <5> SUFFICES ASSUME NEW i \in 1..Len(tasks') PROVE tasks'[i] \in {"AddRW", "Del"}
          OBVIOUS
        <5>1. Len(tasks) \in Nat /\ Len(tasks') \in Nat /\ Len(tasks') >= Len(tasks)
          BY <4>2 DEF Grown
        <5>2. i \in 1..Len(tasks) \/ i \in Fresh
          BY <5>1 DEF Fresh
        <5> QED BY <3>0, <4>2, <5>2 DEF Grown, Blank
      <4>4. Blank'
        BY <2>1, <3>0, <4>1, <4>3 DEF Blank
      <4> QED BY <1>e, <2>1, <3>2, <4>1, <4>4 DEF Early
    <3> QED BY <3>1, <3>3, <3>4, <3>5, <3>6
  <2> QED BY <2>2, <2>3
<1> QED BY <1>1, <1>2, <1>3, <1>4, <1>5, <1>6, <1>7 DEF ChannelStep

\* What is posted to an open stream.
LEMMA PostsOfOpen ==
  /\ ChannelTypes /\ Grown => \A i \in 1..Len(tasks') : i \in Fresh \/ (i \in 1..Len(tasks) /\ tasks'[i] = tasks[i])
  /\ Quiet \/ Asked \/ Gave => \A i \in Fresh : tasks'[i] \in OfOpen
<1>1. ASSUME ChannelTypes, Grown, NEW i \in 1..Len(tasks')
      PROVE  i \in Fresh \/ (i \in 1..Len(tasks) /\ tasks'[i] = tasks[i])
  <2>1. Len(tasks) \in Nat /\ Len(tasks') \in Nat /\ Len(tasks') >= Len(tasks)
    BY <1>1 DEF Grown
  <2>2. i \in 1..Len(tasks) \/ i \in Fresh
    BY <2>1 DEF Fresh
  <2> QED BY <1>1, <2>2 DEF Grown
<1>2. Quiet \/ Asked \/ Gave => \A i \in Fresh : tasks'[i] \in OfOpen
  BY DEF Quiet, Asked, Gave, OfOpen, Timers
<1> QED BY <1>1, <1>2

LEMMA HandlerPostsOfOpen ==
  ASSUME ChannelTypes, HandlerStep, ~ OnCloseDelete
  PROVE  \A i \in Fresh : tasks'[i] \in OfOpen
<1>1. Unposted \/ Quiet \/ Asked \/ Gave
  BY HandlerPosts, Zenon DEF HandlerStep
<1> QED BY <1>1, Nothing, PostsOfOpen

LEMMA StepTaskList == ChannelTypes /\ Early /\ Places /\ TaskList /\ ChannelStep => TaskList'
<1> SUFFICES ASSUME ChannelTypes, Early, Places, TaskList, ChannelStep,
                    ~isClosed', link' \in {"connecting", "up", "fin", "rst"}
             PROVE  Joining' \/ Joined'
  BY DEF TaskList
<1>b. isClosed \in BOOLEAN /\ tasks \in Seq(TaskNames)
  BY DEF ChannelTypes
<1>o. ~isClosed
  <2>1. CASE HandlerStep
    BY <1>b, <2>1, HandlerFrame
  <2>2. CASE ~ HandlerStep
    BY <1>b, <2>2, Outside
  <2> QED BY <2>1, <2>2
<1>t. Connects \/ Joining \/ Joined
  <2>1. Connects \/ link \in {"connecting", "up", "fin", "rst"}
    BY LinkMoves
  <2> QED BY <1>o, <2>1 DEF TaskList
<1>1. CASE UNCHANGED vars
  <2>1. UNCHANGED <<interest, tasks, armed, raised, hpc, rtimer, wtimer>>
    BY <1>1, StillFrame
  <2>2. CASE Connects
    BY <1>1, <2>2, ConnectFrame DEF vars, userVars, Early
  <2>3. CASE Joining \/ Joined
    BY <2>1, <2>3 DEF Joining, Joined
  <2> QED BY <1>t, <2>2, <2>3
<1>2. CASE Connects
  <2>1. link = "none" /\ tasks = <<>> /\ interest = "none" /\ ~armed /\ raised = {} /\ hpc = "idle" /\ ~rtimer /\ ~wtimer
    BY <1>2, ConnectFrame DEF Early, Blank
  <2>2. UNCHANGED <<interest, armed, raised, hpc, rtimer, wtimer>>
    BY <1>2, ConnectFrame
  <2>3. PICK t \in {"AddR", "AddRW"} : tasks' = tasks \o <<t>>
    BY <1>2, ConnectFrame
  <2>4. tasks' = <<t>>
    <3>1. <<t>> \in Seq({"AddR", "AddRW"})
      OBVIOUS
    <3>2. <<>> \o <<t>> = <<t>>
      BY <3>1, ConcatEmptySeq
    <3> QED BY <2>1, <2>3, <3>2
  <2>5. tasks' # <<>> /\ Len(tasks') = 1 /\ tasks'[1] = t
    BY <2>4
  <2> QED BY <2>1, <2>2, <2>5 DEF Joining
<1>3. CASE UserSteps
  <2>1. /\ UNCHANGED <<interest, armed, raised, hpc, rtimer, wtimer>>
        /\ Unposted \/ (Asked /\ \A i \in Fresh : tasks'[i] = "ModRW")
    BY <1>3, UserFrame
  <2>2. CASE Unposted
    <3>1. CASE Connects
      BY <1>2, <3>1
    <3>2. CASE Joining \/ Joined
      BY <2>1, <2>2, <3>2 DEF Joining, Joined, Unposted
    <3> QED BY <1>t, <3>1, <3>2
  <2>3. CASE Asked /\ \A i \in Fresh : tasks'[i] = "ModRW"
    <3>1. /\ Grown /\ \A i \in 1..Len(tasks') : i \in Fresh \/ (i \in 1..Len(tasks) /\ tasks'[i] = tasks[i])
      BY <2>3, PostsOfOpen DEF Asked
    <3>2. CASE Joining
      <4>1. Len(tasks) \in Nat /\ Len(tasks) >= 1
        BY <3>2, TaskFacts DEF Joining
      <4>2. Len(tasks') \in Nat /\ Len(tasks') >= 1 /\ tasks'[1] = tasks[1]
        BY <3>1, <4>1 DEF Grown
      <4>3. tasks' # <<>>
        <5>1. Len(<<>>) = 0
          BY EmptySeq
        <5> QED BY <4>2, <5>1
      <4>4. \A i \in 2..Len(tasks') : tasks'[i] = "ModRW"
        <5> SUFFICES ASSUME NEW i \in 2..Len(tasks') PROVE tasks'[i] = "ModRW"
          OBVIOUS
        <5>1. i \in 1..Len(tasks') /\ (i \in 1..Len(tasks) => i \in 2..Len(tasks))
          BY <4>1, <4>2
        <5> QED BY <2>3, <3>1, <3>2, <5>1 DEF Joining
      <4> QED BY <2>1, <3>2, <4>2, <4>3, <4>4 DEF Joining
    <3>3. CASE Joined
      BY <2>1, <2>3, <3>1, <3>3 DEF Joined
    <3>4. CASE Connects
      BY <1>2, <3>4
    <3> QED BY <1>t, <3>2, <3>3, <3>4
  <2> QED BY <2>1, <2>2, <2>3
<1>4. CASE PollSteps
  <2>1. /\ UNCHANGED <<tasks, interest>> /\ (armed \/ rtimer \/ wtimer)
    BY <1>4, PollFrame
  <2> QED BY <1>t, <1>2, <2>1 DEF Joining, Joined
<1>5. CASE NetSteps
  <2>1. UNCHANGED <<tasks, interest, rtimer, wtimer, raised, hpc>> /\ armed' = (interest # "none")
    BY <1>5, NetFrame
  <2>2. CASE Joining
    BY <2>1, <2>2 DEF Joining
  <2>3. CASE Joined
    BY <2>1, <2>3 DEF Joined
  <2> QED BY <1>t, <1>2, <2>2, <2>3
<1>6. CASE ProcessPendingTask
  <2>1. /\ Len(tasks) \in Nat /\ Len(tasks) >= 1 /\ Len(tasks') = Len(tasks) - 1
        /\ \A i \in 1..Len(tasks) - 1 : tasks'[i] = tasks[i + 1]
    BY <1>6, RunsTask
  <2>2. \A i \in 1..Len(tasks') : i + 1 \in 2..Len(tasks) /\ i + 1 \in 1..Len(tasks) /\ tasks'[i] = tasks[i + 1]
    BY <2>1
  <2>3. CASE Joining
    <3>1. interest' # "none"
      BY <1>6, <2>3, RunsTask DEF Joining
    <3> QED BY <2>2, <2>3, <3>1 DEF Joining, Joined
  <2>4. CASE Joined
    <3>1. 1 \in 1..Len(tasks)
      BY <2>1
    <3>2. interest # "none" /\ tasks[1] \in {"ModR", "ModRW", "SetR", "DelR", "SetW"}
      BY <2>4, <3>1 DEF Joined
    <3>3. interest' # "none"
      BY <1>6, <3>2, RunsTask DEF Timers
    <3> QED BY <2>2, <2>4, <3>3 DEF Joined
  <2> QED BY <1>t, <1>2, <2>3, <2>4
<1>7. CASE HandlerStep
  <2>1. interest' = interest
    BY <1>7, HandlerFrame
  <2>2. Joined
    <3>1. hpc # "idle" \/ raised # {}
      BY <1>7, EventGoes, ReadGoes, WriteGoes, EndGoes DEF HandlerStep
    <3>2. ~Joining
      BY <3>1 DEF Joining
    <3>3. ~ Connects
      <4>1. Connects => link = "none"
        BY ConnectFrame DEF Early
      <4>2. link' = link
        BY <1>7, HandlerFrame
      <4> QED BY <4>1, <4>2
    <3> QED BY <1>t, <3>2, <3>3
  <2>3. ~ OnCloseDelete
    <3>1. hpc = "delete" => isClosed
      BY DEF Places
    <3> QED BY <1>o, <3>1, EndGoes
  <2>4. \A i \in 1..Len(tasks') : i \in Fresh \/ (i \in 1..Len(tasks) /\ tasks'[i] = tasks[i])
    BY <1>7, PostsOfOpen, HandlerGrown
  <2>5. \A i \in Fresh : tasks'[i] \in OfOpen
    BY <1>7, <2>3, HandlerPostsOfOpen
  <2> QED BY <2>1, <2>2, <2>4, <2>5 DEF Joined, OfOpen, Timers
<1> QED BY <1>1, <1>2, <1>3, <1>4, <1>5, <1>6, <1>7 DEF ChannelStep
-----------------------------------------------------------------------------
(* The wish to write.                                                      *)

LEMMA StaysOpen ==
  ASSUME ChannelTypes, ChannelStep
  PROVE  (isClosed => isClosed') /\ (closeWhenEmpty => closeWhenEmpty')
<1>b. isClosed \in BOOLEAN /\ closeWhenEmpty \in BOOLEAN
  BY DEF ChannelTypes
<1>1. CASE HandlerStep
  <2>1. /\ isClosed' = isClosed \/ isClosed' = TRUE
        /\ closeWhenEmpty' = closeWhenEmpty \/ closeWhenEmpty' = TRUE
    BY <1>1, HandlerFrame
  <2> QED BY <1>b, <2>1
<1>2. CASE ~ HandlerStep
  <2>1. isClosed' = isClosed /\ (closeWhenEmpty' = closeWhenEmpty \/ closeWhenEmpty' = TRUE)
    BY <1>2, Outside
  <2> QED BY <1>b, <2>1
<1> QED BY <1>1, <1>2

\* Only OnWriteable and a flush that empties writebuf give it up.
LEMMA WishStays ==
  ASSUME ChannelTypes, Early, Places, TaskList, ChannelStep, ~isClosed',
         link \in {"connecting", "up", "fin", "rst"}, WantsWrite
  PROVE  WantsWrite' \/ (OnWriteable /\ writebuf = <<>>) \/ FlushAll
<1>o. ~isClosed
  BY StaysOpen
<1>1. Unposted => WantsWrite'
  BY DEF Unposted, WantsWrite, NoModR
<1>2. Quiet \/ Asked => WantsWrite'
  BY WishAfterPost
<1>3. CASE UNCHANGED vars
  BY <1>1, <1>3, StillFrame
<1>4. CASE UserSteps
  BY <1>1, <1>2, <1>4, UserFrame
<1>5. CASE Connects
  BY <1>5, ConnectFrame DEF Early
<1>6. CASE PollSteps
  BY <1>1, <1>6, PollFrame
<1>7. CASE NetSteps
  BY <1>1, <1>7, NetFrame
<1>8. CASE ProcessPendingTask
  <2>1. tasks # <<>> /\ Len(tasks) \in Nat /\ Len(tasks) >= 1
    BY <1>8, RunsTask
  <2>2. \/ interest = "none" /\ tasks[1] \in {"AddR", "AddRW"}
        \/ interest # "none" /\ tasks[1] \in OfOpen
    <3>1. 1 \in 1..Len(tasks)
      BY <2>1
    <3> QED BY <1>o, <3>1 DEF TaskList, Joining, Joined, OfOpen, Timers
  <2>3. tasks[1] \notin {"Del"}
    BY <2>2 DEF OfOpen, Timers
  <2> QED BY <1>8, <2>2, <2>3, WishAfterRun
<1>9. CASE HandlerStep
  <2>1. CASE OnCloseDelete
    <3>1. hpc = "delete"
      BY <2>1, EndGoes
    <3> QED BY <1>o, <3>1 DEF Places
  <2>2. CASE ~ OnCloseDelete
    BY <1>1, <1>2, <1>9, <2>2, HandlerPosts DEF HandlerStep
  <2> QED BY <2>1, <2>2
<1> QED BY <1>3, <1>4, <1>5, <1>6, <1>7, <1>8, <1>9 DEF ChannelStep

\* Who writes to writebuf.
LEMMA SendWrites ==
  ASSUME ChannelTypes, NEW more, SendToServer(more), sendcall # <<>>
  PROVE  writebuf # <<>> => writebuf' # <<>>
<1>1. Head(sendcall) \in Calls /\ writebuf \in Seq(Calls)
  BY HeadTailProperties DEF ChannelTypes, QueueTypes
<1>2. Append(writebuf, Head(sendcall)) # <<>>
  <2>1. Len(Append(writebuf, Head(sendcall))) = Len(writebuf) + 1 /\ Len(writebuf) \in Nat
    BY <1>1, AppendProperties, LenProperties
  <2>2. Len(<<>>) = 0
    BY EmptySeq
  <2> QED BY <2>1, <2>2
<1>3. writebuf' = writebuf \/ writebuf' = Append(writebuf, Head(sendcall))
  BY DEF SendToServer
<1> QED BY <1>2, <1>3

LEMMA WhoWrites ==
  ASSUME ChannelTypes, ChannelStep
  PROVE  \/ writebuf' = writebuf
         \/ (SendNext \/ HandlerWriteable) /\ Asked /\ (writebuf # <<>> => writebuf' # <<>>)
         \/ FlushAll \/ FlushSome
<1>1. CASE ~ HandlerStep
  BY <1>1, Outside
<1>2. CASE SendNext
  <2>1. HandlerStep
    BY <1>2 DEF HandlerStep
  <2>2. CASE sendcall # <<>>
    <3>1. SendToServer(<<"SetW">>)
      BY <1>2, <2>2 DEF SendNext
    <3>2. writebuf # <<>> => writebuf' # <<>>
      BY <2>2, <3>1, SendWrites
    <3> QED BY <1>2, <2>1, <2>2, <3>2, HandlerPosts
  <2>3. CASE sendcall = <<>>
    BY <1>2, <2>3 DEF SendNext
  <2> QED BY <2>2, <2>3
<1>3. CASE HandlerWriteable
  <2>1. HandlerStep
    BY <1>3 DEF HandlerStep
  <2>2. CASE MaySend
    <3>1. SendToServer(<<>>) /\ sendcall # <<>>
      BY <1>3, <2>2 DEF HandlerWriteable, MaySend
    <3>2. writebuf # <<>> => writebuf' # <<>>
      BY <3>1, SendWrites
    <3> QED BY <1>3, <2>1, <2>2, <3>2, HandlerPosts
  <2>3. CASE ~MaySend
    BY <1>3, <2>3 DEF HandlerWriteable
  <2> QED BY <2>2, <2>3
<1>4. CASE OnEvent \/ OnReadable \/ OnWriteable \/ FlushFails \/ OnEventTail
  BY <1>4 DEF OnEvent, OnReadable, OnWriteable, FlushFails, OnEventTail, bufVars
<1>5. CASE OnMessageRecived
  BY <1>5 DEF OnMessageRecived
<1>6. CASE OnReadTimeOut \/ OnWriteTimeOut
  BY <1>6 DEF OnReadTimeOut, OnWriteTimeOut, TimeOut, bufVars
<1>7. CASE OnCloseCancel \/ OnCloseDelete
  BY <1>7 DEF OnCloseCancel, OnCloseDelete, bufVars
<1> QED BY <1>1, <1>2, <1>3, <1>4, <1>5, <1>6, <1>7 DEF HandlerStep

LEMMA StepUnwritten ==
  ASSUME ChannelTypes, Early, Places, TaskList, Unwritten, ChannelStep
  PROVE  Unwritten'
<1> SUFFICES ASSUME writebuf' # <<>>, ~isClosed' PROVE WantsWrite'
  BY DEF Unwritten
<1>o. ~isClosed
  BY StaysOpen
<1>1. CASE (SendNext \/ HandlerWriteable) /\ Asked
  BY <1>1, WishAfterPost
<1>2. CASE writebuf # <<>> /\ ~ FlushAll
  <2>1. WantsWrite
    BY <1>o, <1>2 DEF Unwritten
  <2>2. link \in {"connecting", "up", "fin", "rst"}
    <3>1. link \notin {"none", "connecting", "refused"}
      BY <1>2 DEF Early, Blank
    <3>2. link \in {"none", "connecting", "refused", "up", "fin", "rst"}
      BY DEF Places
    <3> QED BY <3>1, <3>2
  <2> QED BY <1>2, <2>1, <2>2, WishStays
<1>3. CASE FlushAll
  BY <1>3, WriteGoes
<1>4. CASE FlushSome
  <2>1. writebuf # <<>>
    BY <1>4, WriteGoes DEF Places
  <2>2. CASE ~ FlushAll
    BY <1>2, <2>1, <2>2
  <2> QED BY <1>3, <2>2
<1>5. CASE writebuf' = writebuf
  <2>1. CASE FlushAll
    BY <1>3, <2>1
  <2> QED BY <1>2, <1>5, <2>1
<1> QED BY <1>1, <1>3, <1>4, <1>5, WhoWrites

\* A stream that is to be closed will be told so.
LEMMA StepClosing ==
  ASSUME ChannelTypes, Early, Places, TaskList, Closing, ChannelStep
  PROVE  Closing'
<1> SUFFICES ASSUME closeWhenEmpty', ~isClosed', hpc' = "idle" PROVE WantsWrite' \/ opc' = "closing"
  BY DEF Closing
<1>o. ~isClosed /\ ~implDeleted
  BY StaysOpen DEF Places
<1>b. closeWhenEmpty \in BOOLEAN
  BY DEF ChannelTypes
<1>a. Asked => WantsWrite'
  BY WishAfterPost
<1>1. CASE hpc = "idle" /\ closeWhenEmpty
  <2>1. link \in {"connecting", "up", "fin", "rst"}
    <3>1. link \notin {"none", "connecting", "refused"}
      BY <1>1 DEF Early, Blank
    <3>2. link \in {"none", "connecting", "refused", "up", "fin", "rst"}
      BY DEF Places
    <3> QED BY <3>1, <3>2
  <2>2. CASE WantsWrite
    <3>1. ~ OnWriteable /\ ~ FlushAll
      BY <1>1, WriteGoes
    <3> QED BY <2>1, <2>2, <3>1, WishStays
  <2>3. CASE opc = "closing"
    BY <1>a, <1>o, <2>3, OwnerMoves
  <2> QED BY <1>o, <1>1, <2>2, <2>3 DEF Closing
<1>2. CASE ~ HandlerStep /\ ~ (hpc = "idle" /\ closeWhenEmpty)
  BY <1>b, <1>2, Outside
<1>3. CASE HandlerStep /\ ~ (hpc = "idle" /\ closeWhenEmpty)
  <2>1. OnEventTail
    <3>1. ~ OnEvent
      BY <1>b, <1>o, <1>3, EventGoes DEF Late
    <3>2. ~ OnReadable /\ ~ OnMessageRecived /\ ~ SendNext
      BY ReadGoes DEF After1, Late
    <3>3. ~ OnWriteable /\ ~ HandlerWriteable /\ ~ FlushAll /\ ~ FlushSome /\ ~ FlushFails
      BY WriteGoes DEF Late
    <3>4. ~ OnReadTimeOut /\ ~ OnWriteTimeOut /\ ~ OnCloseCancel
      BY EndGoes DEF Late
    <3>5. ~ OnCloseDelete
      BY <1>o, EndGoes DEF Places
    <3> QED BY <1>3, <3>1, <3>2, <3>3, <3>4, <3>5 DEF HandlerStep
  <2>2. tasks' = tasks \o <<"ModRW">> /\ UNCHANGED <<interest, moved>>
    BY <1>b, <2>1, EndGoes
  <2>3. Asked
    BY <2>2, PostsOne DEF TaskNames, Asked
  <2> QED BY <1>a, <2>3
<1> QED BY <1>1, <1>2, <1>3
-----------------------------------------------------------------------------
(* No edge is missed.                                                      *)

EdgeDue == /\ link = "up" /\ inbox # <<>> => ReadEdge
           /\ link = "fin" => EndEdge
           /\ link \in {"up", "fin"} /\ interest = "RW" /\ room => WriteEdge

\* The steps of the poller, the users and the network.
LEMMA StepEdgesOutside ==
  ASSUME ChannelTypes, Early, Places, TaskList, Edges, ChannelStep, ~ HandlerStep
  PROVE  Edges'
<1> SUFFICES ASSUME ~isClosed', interest' # "none" PROVE EdgeDue'
  BY DEF Edges, EdgeDue
<1>o. ~isClosed
  BY StaysOpen
<1>c. closeWhenEmpty => closeWhenEmpty'
  BY StaysOpen
<1>h. UNCHANGED <<hpc, hmask, writebuf>>
  BY Outside
<1>w. link \in {"up", "fin"} /\ WantsWrite => WantsWrite' \/ hpc # "idle"
  <2>1. OnWriteable \/ FlushAll => hpc # "idle"
    BY WriteGoes
  <2> QED BY <2>1, WishStays
<1>1. CASE UNCHANGED vars \/ UserSteps
  <2>1. UNCHANGED <<interest, armed, raised, link, room, inbox>>
    BY <1>1, StillFrame, UserFrame
  <2>2. EdgeDue
    BY <1>o, <2>1 DEF Edges, EdgeDue
  <2>3. GivingUp => GivingUp'
    BY <1>1, Nothing, StillFrame, UserFrame, WishAfterPost DEF Quiet, Asked
  <2>4. link = "fin" /\ Draining => Draining'
    BY <1>c, <1>h, <1>w DEF Draining
  <2> QED BY <1>h, <2>1, <2>2, <2>3, <2>4 DEF EdgeDue, ReadEdge, EndEdge, WriteEdge
<1>2. CASE Connects
  <2>1. interest' = "none"
    BY <1>2, ConnectFrame DEF Early
  <2> QED BY <2>1
<1>3. CASE PollSteps
  <2>1. UNCHANGED <<interest, tasks, moved, link, room, inbox, closeWhenEmpty>>
    BY <1>3, PollFrame
  <2>2. EdgeDue
    BY <1>o, <2>1 DEF Edges, EdgeDue
  <2>3. CASE armed' = FALSE /\ raised' = raised \cup ReadyMask
    <3>1. /\ (link = "up" /\ inbox # <<>>) \/ link = "fin" => "READ" \in ReadyMask
          /\ link \in {"up", "fin"} /\ interest = "RW" /\ room => "WRITE" \in ReadyMask
      BY DEF ReadyMask
    <3> QED BY <2>1, <2>3, <3>1 DEF EdgeDue, ReadEdge, EndEdge, WriteEdge
  <2>4. CASE armed' = armed /\ (raised' = raised \cup {"RTIME"} \/ raised' = raised \cup {"WTIME"})
    <3>1. \A b : b \in raised => b \in raised'
      BY <2>4
    <3>2. Draining => Draining'
      BY <1>h, <2>1 DEF Draining, WantsWrite, NoModR
    <3>3. GivingUp => GivingUp'
      BY <2>1 DEF GivingUp
    <3> QED BY <1>h, <2>1, <2>2, <2>4, <3>1, <3>2, <3>3 DEF EdgeDue, ReadEdge, EndEdge, WriteEdge
  <2> QED BY <1>3, <2>3, <2>4, PollFrame
<1>4. CASE NetSteps
  <2>1. armed' = TRUE
    <3>1. interest' = interest /\ armed' = (interest # "none")
      BY <1>4, NetFrame DEF Unposted
    <3> QED BY <3>1
  <2> QED BY <2>1 DEF EdgeDue, ReadEdge, EndEdge, WriteEdge
<1>5. CASE ProcessPendingTask
  <2>1. UNCHANGED <<raised, link, room, inbox, closeWhenEmpty>>
    BY <1>5, RunFrame
  <2>2. CASE link \notin {"up", "fin"}
    BY <2>1, <2>2 DEF EdgeDue
  <2>3. CASE link \in {"up", "fin"} /\ Joining
    <3>1. armed' = TRUE
      BY <1>5, <2>3, RunsTask DEF Joining
    <3> QED BY <3>1 DEF EdgeDue, ReadEdge, EndEdge, WriteEdge
  <2>4. CASE link \in {"up", "fin"} /\ Joined
    <3>1. interest # "none" /\ tasks[1] \in OfOpen
      <4>1. 1 \in 1..Len(tasks)
        BY <1>5, RunsTask
      <4> QED BY <2>4, <4>1 DEF Joined, OfOpen, Timers
    <3>2. EdgeDue
      BY <1>o, <3>1 DEF Edges, EdgeDue
    <3>3. tasks[1] \notin {"Del"}
      BY <3>1 DEF OfOpen, Timers
    <3>4. /\ WantsWrite => WantsWrite'
          /\ armed => armed'
          /\ interest' = "RW" => armed' \/ (interest = "RW" /\ (GivingUp => GivingUp'))
      BY <1>5, <3>1, <3>3, WishAfterRun
    <3>5. Draining => Draining'
      BY <1>h, <2>1, <3>4 DEF Draining
    <3> QED BY <1>h, <2>1, <2>4, <3>2, <3>4, <3>5 DEF EdgeDue, ReadEdge, EndEdge, WriteEdge
  <2> QED BY <1>o, <2>2, <2>3, <2>4 DEF TaskList
<1> QED BY <1>1, <1>2, <1>3, <1>4, <1>5 DEF ChannelStep

LEMMA StepEdgesHandler ==
  ASSUME ChannelTypes, Early, Places, TaskList, Edges, HandlerStep
  PROVE  Edges'
<1> SUFFICES ASSUME ~isClosed', interest' # "none" PROVE EdgeDue'
  BY DEF Edges, EdgeDue
<1>s. ChannelStep
  BY DEF ChannelStep
<1>o. ~isClosed
  BY <1>s, StaysOpen
<1>c. closeWhenEmpty => closeWhenEmpty'
  BY <1>s, StaysOpen
<1>f. UNCHANGED <<interest, armed, link>>
  BY HandlerFrame
<1>d. EdgeDue
  BY <1>o, <1>f DEF Edges, EdgeDue
<1>p. /\ "CLOSE" \in hmask => link \in {"fin", "rst", "refused"}
      /\ raised \cap {"CLOSE", "ERR"} # {} => link \in {"rst", "refused"}
      /\ hpc # "delete"
  BY <1>o DEF Places
<1>g. GivingUp => GivingUp'
  BY HandlerGrown, WishAfterPost
<1>1. CASE OnEvent
  <2>1. /\ hpc = "idle" /\ raised' = {} /\ UNCHANGED <<writebuf, tasks, room, inbox, closeWhenEmpty>>
        /\ \/ raised \cap {"CLOSE", "ERR"} # {}
           \/ /\ hmask' = raised
              /\ "READ" \in raised => hpc' = "READ"
              /\ "READ" \notin raised /\ "WRITE" \in raised => hpc' = "WRITE"
    BY <1>1, <1>o, EventGoes
  <2>2. Draining => Draining'
    BY <1>f, <2>1 DEF Draining, WantsWrite, NoModR
  <2>3. CASE link \in {"up", "fin"}
    <3>1. /\ hmask' = raised
          /\ "READ" \in raised => hpc' = "READ"
          /\ "READ" \notin raised /\ "WRITE" \in raised => hpc' = "WRITE"
      BY <1>p, <2>1, <2>3
    <3> QED BY <1>d, <1>f, <1>g, <2>1, <2>2, <3>1 DEF EdgeDue, ReadEdge, EndEdge, WriteEdge
  <2>4. CASE link \notin {"up", "fin"}
    BY <1>f, <2>4 DEF EdgeDue
  <2> QED BY <2>3, <2>4
<1>2. CASE OnReadable
  <2>1. /\ hpc = "READ" /\ UNCHANGED <<raised, room>> /\ inbox' = <<>>
        /\ hpc' \in {"recv", "WRITE", "RTIME", "WTIME", "tail"}
        /\ "WRITE" \in hmask => "WRITE" \in hmask' /\ hpc' \in {"recv", "WRITE"}
        /\ link = "fin" => "CLOSE" \in hmask'
    BY <1>2, ReadGoes DEF OnReadable, epollVars, Unread, After1, Late
  <2> QED BY <1>d, <1>f, <1>g, <2>1 DEF EdgeDue, ReadEdge, EndEdge, WriteEdge
<1>3. CASE OnMessageRecived \/ SendNext
  <2>1. /\ hpc \in {"recv", "next"} /\ UNCHANGED <<raised, room, inbox, hmask>>
        /\ hpc' \in {"recv", "next", "WRITE", "RTIME", "WTIME", "tail"}
        /\ "WRITE" \in hmask => hpc' \in {"recv", "next", "WRITE"}
    BY <1>3, ReadGoes DEF OnMessageRecived, SendNext, epollVars, netVars, After1, Late
  <2>2. Draining => Draining'
    BY <1>c, <2>1 DEF Draining
  <2> QED BY <1>d, <1>f, <1>g, <2>1, <2>2 DEF EdgeDue, ReadEdge, EndEdge, WriteEdge
<1>4. CASE OnWriteable
  <2>1. hpc = "WRITE" /\ hpc' = "able" /\ UNCHANGED <<raised, room, inbox, hmask, writebuf>>
    BY <1>4, WriteGoes DEF OnWriteable, epollVars, netVars, bufVars
  <2>2. Draining => Draining'
    BY <1>c, <2>1 DEF Draining
  <2>3. writebuf = <<>> => GivingUp'
    BY <1>4, HandlerPosts, WishAfterPost
  <2> QED BY <1>d, <1>f, <1>g, <2>1, <2>2, <2>3 DEF EdgeDue, ReadEdge, EndEdge, WriteEdge
<1>5. CASE HandlerWriteable
  <2>1. /\ hpc = "able" /\ hpc' \in {"flush", "RTIME", "WTIME", "tail"} /\ UNCHANGED <<raised, room, inbox, hmask>>
        /\ writebuf' # <<>> => hpc' = "flush"
    BY <1>5, WriteGoes DEF HandlerWriteable, epollVars, netVars, Late
  <2>2. Draining => Draining'
    BY <1>c, <2>1 DEF Draining
  <2>3. writebuf # <<>> => writebuf' # <<>>
    <3>1. ~ FlushAll /\ ~ FlushSome
      BY <2>1, WriteGoes
    <3> QED BY <1>s, <3>1, WhoWrites
  <2> QED BY <1>d, <1>f, <1>g, <2>1, <2>2, <2>3 DEF EdgeDue, ReadEdge, EndEdge, WriteEdge
<1>6. CASE FlushAll \/ FlushSome
  <2>1. /\ hpc = "flush" /\ hpc' \in {"RTIME", "WTIME", "tail"} /\ UNCHANGED <<raised, inbox, hmask>>
    BY <1>6, WriteGoes DEF FlushAll, FlushSome, epollVars, Late
  <2>2. Draining => Draining'
    BY <1>c, <2>1 DEF Draining
  <2>3. ~room' \/ GivingUp'
    <3>1. FlushAll => GivingUp'
      BY HandlerPosts, WishAfterPost
    <3>2. FlushSome => ~room'
      BY DEF FlushSome
    <3> QED BY <1>6, <3>1, <3>2
  <2> QED BY <1>d, <1>f, <2>1, <2>2, <2>3 DEF EdgeDue, ReadEdge, EndEdge, WriteEdge
<1>7. CASE FlushFails
  <2>1. link = "rst"
    BY <1>7, WriteGoes
  <2> QED BY <1>f, <2>1 DEF EdgeDue
<1>8. CASE OnReadTimeOut \/ OnWriteTimeOut
  <2>1. /\ hpc \in {"RTIME", "WTIME"} /\ hpc' \in {"RTIME", "WTIME", "tail"} /\ UNCHANGED <<raised, room, inbox, hmask>>
    BY <1>8, EndGoes DEF OnReadTimeOut, OnWriteTimeOut, TimeOut, epollVars, netVars, Late
  <2>2. Draining => Draining'
    BY <1>c, <2>1 DEF Draining
  <2> QED BY <1>d, <1>f, <1>g, <2>1, <2>2 DEF EdgeDue, ReadEdge, EndEdge, WriteEdge
<1>9. CASE OnEventTail
  <2>1. hpc = "tail" /\ UNCHANGED <<raised, room, inbox>>
    BY <1>9, EndGoes DEF OnEventTail, epollVars, netVars
  <2>2. "CLOSE" \in hmask \/ Draining => hpc' = "close" \/ Draining'
    <3>1. CASE hpc' = "close"
      BY <3>1
    <3>2. CASE closeWhenEmpty' = TRUE /\ tasks' = tasks \o <<"ModRW">> /\ UNCHANGED <<interest, moved>>
      <4>1. Asked
        BY <3>2, PostsOne DEF TaskNames, Asked
      <4>2. WantsWrite'
        BY <4>1, WishAfterPost
      <4> QED BY <3>2, <4>2 DEF Draining
    <3>3. CASE ~closeWhenEmpty /\ "CLOSE" \notin hmask
      BY <3>3 DEF Draining
    <3> QED BY <1>9, <3>1, <3>2, <3>3, EndGoes
  <2> QED BY <1>d, <1>f, <1>g, <2>1, <2>2 DEF EdgeDue, ReadEdge, EndEdge, WriteEdge
<1>10. CASE OnCloseCancel \/ OnCloseDelete
  <2>1. ~ OnCloseCancel /\ ~ OnCloseDelete
    BY <1>o, <1>p, EndGoes
  <2> QED BY <1>10, <2>1
<1> QED BY <1>1, <1>2, <1>3, <1>4, <1>5, <1>6, <1>7, <1>8, <1>9, <1>10 DEF HandlerStep

LEMMA StepEdges ==
  ChannelTypes /\ Early /\ Places /\ TaskList /\ Edges /\ ChannelStep => Edges'
BY StepEdgesOutside, StepEdgesHandler
-----------------------------------------------------------------------------
(* No call is mislaid.                                                     *)

LEMMA Kinds ==
  QueueTypes /\ InStep /\ [Next]_vars =>
    Calm \/ Pushed \/ ReadIn \/ Received \/ Stray \/ Sent \/ Failed \/ Flushed \/ Replied
BY CalmOrBusy, BusyKinds

LEMMA UserMoves ==
  ASSUME ChannelTypes, ChannelStep, NEW d \in Calls
  PROVE  \/ upc'[d] = upc[d]
         \/ upc[d] = "idle" /\ upc'[d] = "crashed"
         \/ upc[d] = "idle" /\ upc'[d] = "mod" /\ sendcall' = Append(sendcall, d)
         \/ upc[d] = "mod" /\ implDeleted /\ upc'[d] = "crashed"
         \/ upc[d] = "mod" /\ Asked /\ upc'[d] \in {"wait", "returned"}
         \/ upc[d] = "wait" /\ upc'[d] = "returned"
<1>u. upc \in [Calls -> {"idle", "mod", "wait", "returned", "crashed"}]
  BY DEF ChannelTypes, QueueTypes
<1>e. ASSUME NEW c \in Calls, NEW v, upc' = [upc EXCEPT ![c] = v] PROVE upc'[d] = IF d = c THEN v ELSE upc[d]
  BY <1>u, <1>e
<1>1. CASE UNCHANGED vars
  BY <1>1, StillFrame
<1>2. CASE Connects
  BY <1>2, ConnectFrame
<1>3. CASE PollSteps
  BY <1>3, PollFrame
<1>4. CASE NetSteps
  BY <1>4, NetFrame
<1>5. CASE ProcessPendingTask
  BY <1>5, RunFrame
<1>6. CASE HandlerStep
  BY <1>6, HandlerFrame
<1>7. CASE ConnectReturns \/ CloseFlag \/ CloseMod
  BY <1>7 DEF ConnectReturns, CloseFlag, CloseMod
<1>8. ASSUME NEW c \in Calls, CallPush(c)
      PROVE  upc'[d] = upc[d] \/ (upc[d] = "idle" /\ upc'[d] = "crashed")
             \/ (upc[d] = "idle" /\ upc'[d] = "mod" /\ sendcall' = Append(sendcall, d))
  BY <1>8, <1>e DEF CallPush
<1>9. ASSUME NEW c \in Calls, CallMod(c)
      PROVE  upc'[d] = upc[d] \/ (upc[d] = "mod" /\ implDeleted /\ upc'[d] = "crashed")
             \/ (upc[d] = "mod" /\ Asked /\ upc'[d] \in {"wait", "returned"})
  <2>1. tasks' = tasks \o <<"ModRW">> => Asked
    <3>1. UNCHANGED <<interest, moved>>
      BY <1>9 DEF CallMod, epollVars
    <3> QED BY <3>1, PostsOne DEF TaskNames, Asked
  <2>2. CASE implDeleted /\ upc' = [upc EXCEPT ![c] = "crashed"]
    <3>1. upc'[d] = IF d = c THEN "crashed" ELSE upc[d]
      BY <1>e, <2>2
    <3> QED BY <1>9, <2>2, <3>1 DEF CallMod
  <2>3. CASE Asked /\ upc' = [upc EXCEPT ![c] = IF c \in Sync THEN "wait" ELSE "returned"]
    <3>1. upc'[d] = IF d = c THEN (IF c \in Sync THEN "wait" ELSE "returned") ELSE upc[d]
      BY <1>e, <2>3
    <3> QED BY <1>9, <2>3, <3>1 DEF CallMod
  <2> QED BY <1>9, <2>1, <2>2, <2>3 DEF CallMod, PostTasks
<1>10. ASSUME NEW c \in Calls, CallReturns(c)
       PROVE  upc'[d] = upc[d] \/ (upc[d] = "wait" /\ upc'[d] = "returned")
  BY <1>10, <1>e DEF CallReturns
<1> QED BY <1>1, <1>2, <1>3, <1>4, <1>5, <1>6, <1>7, <1>8, <1>9, <1>10 DEF ChannelStep, UserSteps

LEMMA SetsOf ==
  ASSUME NEW q \in Seq(Calls)
  PROVE  /\ \A c \in Calls : c \in ToSet(Append(q, c)) /\ ToSet(q) \subseteq ToSet(Append(q, c))
         /\ q # <<>> => Head(q) \in Calls /\ ToSet(q) \subseteq {Head(q)} \cup ToSet(Tail(q))
<1>1. Len(q) \in Nat /\ DOMAIN q = 1..Len(q)
  BY LenProperties
<1>2. ASSUME NEW c \in Calls
      PROVE  c \in ToSet(Append(q, c)) /\ ToSet(q) \subseteq ToSet(Append(q, c))
  <2>1. /\ Append(q, c) \in Seq(Calls) /\ Len(Append(q, c)) = Len(q) + 1
        /\ Append(q, c)[Len(q) + 1] = c
        /\ \A i \in 1..Len(q) : Append(q, c)[i] = q[i]
    BY AppendProperties
  <2>2. DOMAIN Append(q, c) = 1..Len(q) + 1
    BY <2>1, LenProperties
  <2>3. Len(q) + 1 \in 1..Len(q) + 1 /\ \A i \in 1..Len(q) : i \in 1..Len(q) + 1
    BY <1>1
  <2> QED BY <1>1, <2>1, <2>2, <2>3 DEF ToSet
<1>3. ASSUME q # <<>> PROVE Head(q) \in Calls /\ ToSet(q) \subseteq {Head(q)} \cup ToSet(Tail(q))
  <2>1. /\ Head(q) \in Calls /\ Tail(q) \in Seq(Calls) /\ Len(Tail(q)) = Len(q) - 1
        /\ \A i \in 1..Len(Tail(q)) : Tail(q)[i] = q[i + 1]
    BY <1>3, HeadTailProperties
  <2>2. DOMAIN Tail(q) = 1..Len(Tail(q)) /\ Head(q) = q[1]
    BY <2>1, LenProperties
  <2>3. ASSUME NEW i \in 1..Len(q) PROVE q[i] \in {Head(q)} \cup ToSet(Tail(q))
    <3>1. CASE i = 1
      BY <2>2, <3>1
    <3>2. CASE i # 1
      <4>1. i - 1 \in 1..Len(Tail(q)) /\ (i - 1) + 1 = i
        BY <1>1, <2>1, <3>2
      <4>2. Tail(q)[i - 1] = q[i]
        BY <2>1, <4>1
      <4> QED BY <2>2, <4>1, <4>2 DEF ToSet
    <3> QED BY <3>1, <3>2
  <2> QED BY <1>1, <2>1, <2>3 DEF ToSet
<1> QED BY <1>2, <1>3

LEMMA StepPlaced ==
  ASSUME ChannelTypes, InStep, Places, Placed, [Next]_vars
  PROVE  Placed'
<1> DEFINE Q == ToSet(sendcall) \cup ToSet(waitcall) \cup ToSet(donecall)
<1> SUFFICES ASSUME NEW d \in Calls, upc'[d] \in {"mod", "wait", "returned"}, status'[d] = "unset"
             PROVE  d \in Q'
  BY DEF Placed
<1>q. sendcall \in Seq(Calls) /\ waitcall \in Seq(Calls) /\ donecall \in Seq(Calls) /\ status \in [Calls -> Codes]
  BY DEF ChannelTypes, QueueTypes
<1>1. CASE upc[d] = "idle" /\ upc'[d] = "mod" /\ sendcall' = Append(sendcall, d)
  BY <1>1, <1>q, SetsOf
<1>2. CASE upc[d] \in {"mod", "wait", "returned"}
  <2>0. status[d] = "unset" => d \in Q
    BY <1>2 DEF Placed
  <2>1. CASE Calm \/ ReadIn \/ Stray \/ Replied
    <3>1. UNCHANGED <<status, sendcall, waitcall, donecall>>
      BY <2>1 DEF Calm, ReadIn, Stray, Replied
    <3> QED BY <2>0, <3>1
  <2>2. CASE Pushed
    <3>1. PICK c \in Calls : sendcall' = Append(sendcall, c)
      BY <2>2 DEF Pushed
    <3>2. UNCHANGED <<status, waitcall, donecall>>
      BY <2>2 DEF Pushed
    <3> QED BY <2>0, <3>1, <3>2, <1>q, SetsOf
  <2>3. CASE Received
    <3>1. /\ donecall # <<>> /\ donecall' = Tail(donecall) /\ UNCHANGED <<sendcall, waitcall>>
          /\ status' = [status EXCEPT ![Head(donecall)] = "OK"]
      BY <2>3 DEF Received
    <3>2. d # Head(donecall) /\ status[d] = "unset"
      BY <3>1, <1>q, SetsOf
    <3>3. ToSet(donecall) \subseteq {Head(donecall)} \cup ToSet(donecall')
      BY <3>1, <1>q, SetsOf
    <3> QED BY <2>0, <3>1, <3>2, <3>3
  <2>4. CASE Sent
    <3>1. /\ sendcall # <<>> /\ sendcall' = Tail(sendcall)
          /\ waitcall' = Append(waitcall, Head(sendcall)) /\ UNCHANGED <<donecall, status>>
      BY <2>4 DEF Sent
    <3>2. Head(sendcall) \in Calls /\ ToSet(sendcall) \subseteq {Head(sendcall)} \cup ToSet(sendcall')
      BY <3>1, <1>q, SetsOf
    <3>3. Head(sendcall) \in ToSet(waitcall') /\ ToSet(waitcall) \subseteq ToSet(waitcall')
      BY <3>1, <3>2, <1>q, SetsOf
    <3> QED BY <2>0, <3>1, <3>2, <3>3
  <2>5. CASE Failed
    <3>1. IF d \in Q THEN status'[d] # "unset" ELSE status'[d] = status[d]
      BY <2>5 DEF Failed
    <3> QED BY <2>0, <3>1
  <2>6. CASE Flushed
    <3>1. CASE UNCHANGED <<waitcall, donecall>>
      BY <2>0, <2>6, <3>1 DEF Flushed
    <3>2. CASE waitcall # <<>> /\ waitcall' = Tail(waitcall) /\ donecall' = Append(donecall, Head(waitcall))
      <4>1. Head(waitcall) \in Calls /\ ToSet(waitcall) \subseteq {Head(waitcall)} \cup ToSet(waitcall')
        BY <3>2, <1>q, SetsOf
      <4>2. Head(waitcall) \in ToSet(donecall') /\ ToSet(donecall) \subseteq ToSet(donecall')
        BY <3>2, <4>1, <1>q, SetsOf
      <4>3. UNCHANGED <<sendcall, status>>
        BY <2>6 DEF Flushed
      <4> QED BY <2>0, <4>1, <4>2, <4>3
    <3> QED BY <2>6, <3>1, <3>2 DEF Flushed
  <2> QED BY <2>1, <2>2, <2>3, <2>4, <2>5, <2>6, Kinds DEF ChannelTypes
<1> QED BY <1>1, <1>2, UserMoves, StepIs
-----------------------------------------------------------------------------
(* Requests and responses on their way are those of the calls in flight.   *)

LEMMA IdleAfter ==
  ASSUME ChannelTypes, Places, HandlerStep, ~isClosed', hpc' = "idle"
  PROVE  OnEventTail /\ (Asked \/ ~closeWhenEmpty')
<1>s. ChannelStep
  BY DEF ChannelStep
<1>o. ~isClosed
  BY <1>s, StaysOpen
<1>1. ~ OnEvent
  BY <1>o, EventGoes DEF Late
<1>2. ~ OnReadable /\ ~ OnMessageRecived /\ ~ SendNext
  BY ReadGoes DEF After1, Late
<1>3. ~ OnWriteable /\ ~ HandlerWriteable /\ ~ FlushAll /\ ~ FlushSome /\ ~ FlushFails
  BY WriteGoes DEF Late
<1>4. ~ OnReadTimeOut /\ ~ OnWriteTimeOut /\ ~ OnCloseCancel
  BY EndGoes DEF Late
<1>5. ~ OnCloseDelete
  BY <1>o, EndGoes DEF Places
<1>6. OnEventTail
  BY <1>1, <1>2, <1>3, <1>4, <1>5 DEF HandlerStep
<1>7. tasks' = tasks \o <<"ModRW">> /\ UNCHANGED <<interest, moved>> => Asked
  BY PostsOne DEF TaskNames, Asked
<1> QED BY <1>6, <1>7, EndGoes

LEMMA NormalBefore ==
  ASSUME ChannelTypes, Early, Places, TaskList, Closing, ChannelStep, Normal'
  PROVE  \/ Normal /\ (HandlerStep => ~closeWhenEmpty /\ ~closeWhenEmpty')
         \/ /\ Blank /\ UNCHANGED <<sendcall, waitcall, donecall, writebuf, readbuf, garbled, peerq, inbox>>
<1>n. /\ link' = "up" /\ ~isClosed'
      /\ ~closeWhenEmpty' \/ (opc' = "closing" /\ hpc' = "idle" /\ ~WantsWrite')
  BY DEF Normal
<1>o. /\ ~isClosed /\ ~implDeleted
      /\ closeWhenEmpty => closeWhenEmpty'
  BY <1>n, StaysOpen DEF Places
<1>1. CASE Connects
  <2>1. Blank
    BY <1>1, ConnectFrame DEF Early
  <2> QED BY <1>1, <2>1, ConnectFrame
<1>2. CASE link = "connecting" /\ NetSteps
  <2>1. Blank
    BY <1>2 DEF Early
  <2>2. UNCHANGED <<sendcall, waitcall, donecall, writebuf, readbuf, garbled, peerq, inbox>>
    BY <1>2, NetFrame
  <2> QED BY <2>1, <2>2
<1>3. CASE link = "up" /\ ~closeWhenEmpty'
  BY <1>3, <1>o DEF Normal
<1>4. CASE link = "up" /\ opc' = "closing" /\ hpc' = "idle" /\ ~WantsWrite' /\ closeWhenEmpty'
  <2>1. ~ HandlerStep
    <3>1. Asked => WantsWrite'
      BY WishAfterPost
    <3> QED BY <1>n, <1>4, <3>1, IdleAfter
  <2>2. hpc = "idle"
    BY <1>4, <2>1, Outside
  <2>3. ~WantsWrite
    <3>1. ~ OnWriteable /\ ~ FlushAll
      BY <2>2, WriteGoes
    <3> QED BY <1>n, <1>4, <3>1, WishStays
  <2>4. closeWhenEmpty => opc = "closing"
    BY <1>o, <2>2, <2>3 DEF Closing
  <2> QED BY <1>o, <1>4, <2>1, <2>2, <2>3, <2>4 DEF Normal
<1> QED BY <1>n, <1>1, <1>2, <1>3, <1>4, LinkMoves

\* Steps outside the handler.
LEMMA OutsideNet ==
  ASSUME ChannelTypes, ChannelStep, ~ HandlerStep
  PROVE  (peerq' = peerq /\ inbox' = inbox) \/ PeerReplies
<1>1. CASE UNCHANGED vars
  BY <1>1, StillFrame
<1>2. CASE UserSteps
  BY <1>2, UserFrame
<1>3. CASE Connects
  BY <1>3, ConnectFrame
<1>4. CASE PollSteps
  BY <1>4, PollFrame
<1>5. CASE NetSteps
  BY <1>5, NetFrame
<1>6. CASE ProcessPendingTask
  BY <1>6, RunFrame
<1> QED BY <1>1, <1>2, <1>3, <1>4, <1>5, <1>6 DEF ChannelStep

LEMMA OutsideSend ==
  ASSUME ChannelTypes, ChannelStep, ~ HandlerStep
  PROVE  \/ sendcall' = sendcall
         \/ \E c \in Calls : sendcall' = Append(sendcall, c) /\ upc'[c] = "mod"
<1>u. upc \in [Calls -> {"idle", "mod", "wait", "returned", "crashed"}]
  BY DEF ChannelTypes, QueueTypes
<1>1. CASE UNCHANGED vars
  BY <1>1, StillFrame
<1>2. CASE ConnectReturns \/ CloseFlag \/ CloseMod
  BY <1>2 DEF ConnectReturns, CloseFlag, CloseMod, callVars
<1>3. CASE Connects
  BY <1>3, ConnectFrame
<1>4. CASE PollSteps
  BY <1>4, PollFrame
<1>5. CASE NetSteps
  BY <1>5, NetFrame
<1>6. CASE ProcessPendingTask
  BY <1>6, RunFrame
<1>7. ASSUME NEW c \in Calls, CallPush(c)
      PROVE  sendcall' = sendcall \/ (sendcall' = Append(sendcall, c) /\ upc'[c] = "mod")
  BY <1>7, <1>u DEF CallPush
<1>8. ASSUME NEW c \in Calls, CallMod(c) \/ CallReturns(c) PROVE sendcall' = sendcall
  BY <1>8 DEF CallMod, CallReturns, callVars
<1> QED BY <1>1, <1>2, <1>3, <1>4, <1>5, <1>6, <1>7, <1>8 DEF ChannelStep, UserSteps

\* Lengths now and after a step.
LEMMA LengthsNow ==
  ASSUME ChannelTypes
  PROVE  /\ Len(sendcall) \in Nat /\ Len(waitcall) \in Nat /\ Len(donecall) \in Nat /\ Len(writebuf) \in Nat
         /\ Len(readbuf) \in Nat /\ Len(peerq) \in Nat /\ Len(inbox) \in Nat
         /\ waitcall = <<>> <=> Len(waitcall) = 0
         /\ donecall = <<>> <=> Len(donecall) = 0
         /\ readbuf = <<>> <=> Len(readbuf) = 0
         /\ writebuf = <<>> <=> Len(writebuf) = 0
         /\ sendcall = <<>> <=> Len(sendcall) = 0
         /\ inbox = <<>> <=> Len(inbox) = 0
         /\ peerq = <<>> <=> Len(peerq) = 0
         /\ Len(<<>>) = 0
<1>1. /\ sendcall \in Seq(Calls) /\ waitcall \in Seq(Calls) /\ donecall \in Seq(Calls)
      /\ writebuf \in Seq(Calls) /\ readbuf \in Seq(Calls) /\ peerq \in Seq(Calls) /\ inbox \in Seq(Calls)
  BY DEF ChannelTypes, QueueTypes
<1> QED BY <1>1, Lengths, EmptySeq

LEMMA BalancedOutside ==
  ASSUME ChannelTypes, ChannelStep, ~ HandlerStep, Balanced
  PROVE  Balanced'
<1>1. UNCHANGED <<waitcall, donecall, readbuf, writebuf>>
  BY Outside
<1>2. CASE peerq' = peerq /\ inbox' = inbox
  BY <1>1, <1>2 DEF Balanced
<1>3. CASE PeerReplies
  <2>1. peerq \in Seq(Calls) /\ inbox \in Seq(Calls)
    BY DEF ChannelTypes, QueueTypes
  <2>2. peerq # <<>> /\ peerq' = Tail(peerq) /\ inbox' = Append(inbox, Head(peerq))
    BY <1>3 DEF PeerReplies
  <2>3. Len(peerq') = Len(peerq) - 1 /\ Len(inbox') = Len(inbox) + 1
    BY <2>1, <2>2, Lengths
  <2>4. Len(readbuf) + (Len(inbox) + 1) + (Len(peerq) - 1) + Len(writebuf) = Len(readbuf) + Len(inbox) + Len(peerq) + Len(writebuf)
    BY LengthsNow
  <2> QED BY <1>1, <2>3, <2>4 DEF Balanced
<1> QED BY <1>2, <1>3, OutsideNet

\* What is read is more than nothing only if a call waits for it.
LEMMA ReadForCall ==
  ASSUME ChannelTypes, InStep, ~closeWhenEmpty
  PROVE  Len(readbuf) <= Len(donecall) /\ Len(donecall) <= 1 /\ (hpc = "recv" => donecall # <<>>)
<1>1. /\ Len(waitcall) + Len(donecall) <= 1
      /\ Len(readbuf) + Len(inbox) + Len(peerq) <= Len(donecall)
      /\ hpc = "recv" => readbuf # <<>>
  BY DEF InStep, OneInFlight, Awaited
<1> QED BY <1>1, LengthsNow

LEMMA BalancedHandler ==
  ASSUME ChannelTypes, InStep, [Next]_vars, ~closeWhenEmpty, ~closeWhenEmpty', link = "up", ~garbled, Balanced
  PROVE  Balanced'
<1>q. /\ sendcall \in Seq(Calls) /\ waitcall \in Seq(Calls) /\ donecall \in Seq(Calls)
      /\ writebuf \in Seq(Calls) /\ readbuf \in Seq(Calls) /\ peerq \in Seq(Calls) /\ inbox \in Seq(Calls)
  BY DEF ChannelTypes, QueueTypes
<1>n. /\ Len(waitcall) \in Nat /\ Len(donecall) \in Nat /\ Len(writebuf) \in Nat
      /\ Len(readbuf) \in Nat /\ Len(peerq) \in Nat /\ Len(inbox) \in Nat /\ Len(<<>>) = 0
  BY LengthsNow
<1>b. Len(readbuf) + Len(inbox) + Len(peerq) + Len(writebuf) = Len(donecall) + Len(waitcall)
  BY DEF Balanced
<1> SUFFICES Len(readbuf') + Len(inbox') + Len(peerq') + Len(writebuf') = Len(donecall') + Len(waitcall')
  BY DEF Balanced
<1>1. CASE Calm
  BY <1>1, <1>b DEF Calm
<1>2. CASE Pushed
  BY <1>2, <1>b DEF Pushed
<1>3. CASE ReadIn
  <2>1. Len(inbox') = 0 /\ Len(readbuf') = Len(readbuf) + Len(inbox)
    BY <1>3, <1>n DEF ReadIn
  <2>2. UNCHANGED <<waitcall, donecall, writebuf, peerq>>
    BY <1>3 DEF ReadIn
  <2> QED BY <1>n, <1>b, <2>1, <2>2
<1>4. CASE Received
  <2>1. Len(donecall') = Len(donecall) - 1 /\ Len(readbuf') = Len(readbuf) - 1
    BY <1>4, <1>q, Lengths DEF Received
  <2>2. UNCHANGED <<waitcall, writebuf, peerq, inbox>>
    BY <1>4 DEF Received
  <2> QED BY <1>n, <1>b, <2>1, <2>2
<1>5. CASE Stray
  BY <1>5, ReadForCall DEF Stray
<1>6. CASE Sent
  <2>0. Head(sendcall) \in Calls
    BY <1>6, <1>q, Lengths DEF Sent
  <2>1. Len(waitcall') = Len(waitcall) + 1 /\ Len(writebuf') = Len(writebuf) + 1
    BY <1>6, <1>q, <2>0, Lengths DEF Sent
  <2>2. UNCHANGED <<donecall, readbuf, peerq, inbox>>
    BY <1>6 DEF Sent
  <2> QED BY <1>n, <1>b, <2>1, <2>2
<1>7. CASE Failed
  BY <1>7 DEF Failed
<1>8. CASE Flushed
  <2>1. /\ UNCHANGED <<readbuf, inbox>>
        /\ Len(peerq') + Len(writebuf') = Len(peerq) + Len(writebuf)
        /\ peerq' \in Seq(Calls) /\ writebuf' \in Seq(Calls)
    BY <1>8 DEF Flushed
  <2>2. Len(peerq') \in Nat /\ Len(writebuf') \in Nat
    BY <2>1, Lengths
  <2>3. CASE waitcall = <<>> /\ UNCHANGED <<waitcall, donecall>>
    BY <1>n, <1>b, <2>1, <2>2, <2>3
  <2>4. CASE waitcall # <<>> /\ waitcall' = Tail(waitcall) /\ donecall' = Append(donecall, Head(waitcall))
    <3>0. Head(waitcall) \in Calls
      BY <2>4, <1>q, Lengths
    <3>1. Len(waitcall') = Len(waitcall) - 1 /\ Len(donecall') = Len(donecall) + 1
      BY <2>4, <3>0, <1>q, Lengths
    <3> DEFINE r == Len(readbuf)
               i == Len(inbox)
               p == Len(peerq)
               w == Len(writebuf)
               v == Len(peerq')
               x == Len(writebuf')
               d == Len(donecall)
               t == Len(waitcall)
    <3>2. /\ r \in Nat /\ i \in Nat /\ p \in Nat /\ w \in Nat /\ v \in Nat /\ x \in Nat /\ d \in Nat /\ t \in Nat
          /\ r + i + p + w = d + t /\ v + x = p + w
      BY <1>n, <1>b, <2>1, <2>2
    <3>3. r + i + v + x = (d + 1) + (t - 1)
      <4> HIDE DEF r, i, p, w, v, x, d, t
      <4> QED BY <3>2
    <3> QED BY <2>1, <3>1, <3>3, Zenon
  <2> QED BY <1>8, <2>3, <2>4 DEF Flushed
<1>9. CASE Replied
  <2>1. Len(peerq') = Len(peerq) - 1 /\ Len(inbox') = Len(inbox) + 1
    BY <1>9, <1>q, Lengths DEF Replied
  <2>2. UNCHANGED <<waitcall, donecall, writebuf, readbuf>>
    BY <1>9 DEF Replied
  <2> QED BY <1>n, <1>b, <2>1, <2>2
<1> QED BY <1>1, <1>2, <1>3, <1>4, <1>5, <1>6, <1>7, <1>8, <1>9, Kinds DEF ChannelTypes

\* The handler leaves nothing behind in readbuf.
LEMMA ReadHandler ==
  ASSUME ChannelTypes, InStep, Places, HandlerStep, ~closeWhenEmpty, ~closeWhenEmpty', link = "up", ~garbled,
         ~isClosed', readbuf # <<>> => hpc = "recv"
  PROVE  ~garbled' /\ (readbuf' # <<>> => hpc' = "recv")
<1>q. readbuf \in Seq(Calls) /\ inbox \in Seq(Calls)
  BY DEF ChannelTypes, QueueTypes
<1>1. CASE OnReadable
  <2>1. readbuf = <<>>
    BY <1>1, ReadGoes
  <2>2. garbled' = garbled /\ readbuf' = readbuf \o inbox
    BY <1>1 DEF OnReadable
  <2>3. readbuf' = inbox
    BY <1>q, <2>1, <2>2, ConcatEmptySeq
  <2> QED BY <1>1, <2>2, <2>3, ReadGoes
<1>2. CASE OnMessageRecived
  <2>1. donecall # <<>>
    BY <1>2, ReadForCall, ReadGoes
  <2>2. garbled' = garbled /\ readbuf' = Tail(readbuf)
    BY <1>2, <2>1 DEF OnMessageRecived, OnMessageError
  <2>3. readbuf # <<>>
    BY <1>2, ReadGoes DEF InStep
  <2>4. Len(Tail(readbuf)) = Len(readbuf) - 1 /\ Tail(readbuf) \in Seq(Calls)
    BY <1>q, <2>3, HeadTailProperties
  <2>5. Len(readbuf) = 1
    <3>1. Len(readbuf) \in Nat /\ Len(donecall) \in Nat /\ Len(readbuf) # 0
      BY <2>3, LengthsNow
    <3>2. Len(readbuf) <= Len(donecall) /\ Len(donecall) <= 1
      BY ReadForCall
    <3>3. \A a, b \in Nat : a # 0 /\ a <= b /\ b <= 1 => a = 1
      OBVIOUS
    <3> QED BY <3>1, <3>2, <3>3, Zenon
  <2>6. Len(Tail(readbuf)) = 0
    BY <2>4, <2>5
  <2>7. Tail(readbuf) = <<>>
    BY <2>4, <2>6, Lengths
  <2> QED BY <2>2, <2>7
<1>3. CASE OnEvent \/ SendNext \/ OnWriteable \/ HandlerWriteable \/ FlushAll \/ FlushSome \/ FlushFails
  <2>1. hpc # "recv"
    BY <1>3, EventGoes, ReadGoes, WriteGoes
  <2>2. readbuf' = readbuf /\ garbled' = garbled
    BY <1>3 DEF OnEvent, SendNext, OnWriteable, HandlerWriteable, FlushAll, FlushSome, FlushFails, bufVars
  <2> QED BY <2>1, <2>2
<1>4. CASE OnReadTimeOut \/ OnWriteTimeOut
  BY <1>4, HandlerPosts
<1>5. CASE OnEventTail
  BY <1>5, EndGoes DEF OnEventTail, bufVars
<1>6. CASE OnCloseCancel \/ OnCloseDelete
  <2>1. ~isClosed
    BY StaysOpen DEF ChannelStep
  <2> QED BY <1>6, <2>1, EndGoes DEF Places
<1> QED BY <1>1, <1>2, <1>3, <1>4, <1>5, <1>6 DEF HandlerStep

\* Sending a call puts it into waitcall, or has the stream closed.
LEMMA SendsOne ==
  ASSUME ChannelTypes, NEW more, SendToServer(more), sendcall # <<>>, ~closeWhenEmpty'
  PROVE  waitcall' # <<>>
<1>1. Head(sendcall) \in Calls /\ waitcall \in Seq(Calls)
  BY HeadTailProperties DEF ChannelTypes, QueueTypes
<1>2. waitcall' = Append(waitcall, Head(sendcall))
  BY DEF SendToServer
<1>3. Len(Append(waitcall, Head(sendcall))) = Len(waitcall) + 1 /\ Len(waitcall) \in Nat /\ Len(<<>>) = 0
  BY <1>1, AppendProperties, LenProperties, EmptySeq
<1> QED BY <1>2, <1>3

\* A flush is for a call in flight, and leaves it in flight.
LEMMA FlushesOne ==
  ASSUME ChannelTypes, Places, Balanced, FlushAll \/ FlushSome
  PROVE  waitcall' # <<>> \/ donecall' # <<>>
<1>1. waitcall # <<>> \/ donecall # <<>>
  <2>1. writebuf # <<>>
    BY WriteGoes DEF Places
  <2>2. Len(writebuf) # 0
    BY <2>1, LengthsNow
  <2>3. Len(donecall) # 0 \/ Len(waitcall) # 0
    BY <2>2, LengthsNow DEF Balanced
  <2> QED BY <2>3, LengthsNow
<1>2. CASE UNCHANGED <<waitcall, donecall>>
  BY <1>1, <1>2
<1>3. CASE waitcall # <<>> /\ donecall' = Append(donecall, Head(waitcall))
  <2>1. donecall \in Seq(Calls) /\ Head(waitcall) \in Calls
    BY <1>3, HeadTailProperties DEF ChannelTypes, QueueTypes
  <2>2. Len(Append(donecall, Head(waitcall))) = Len(donecall) + 1 /\ Len(donecall) \in Nat /\ Len(<<>>) = 0
    BY <2>1, AppendProperties, LenProperties, EmptySeq
  <2> QED BY <1>3, <2>2
<1> QED BY <1>2, <1>3 DEF FlushAll, FlushSome, OnMessageSended

\* A call in sendcall is never forgotten: by the steps outside the handler ...
LEMMA ServedOutside ==
  ASSUME ChannelTypes, Early, Places, TaskList, ChannelStep, ~ HandlerStep, link = "up", ~isClosed',
         Serving
  PROVE  Serving'
<1> DEFINE After(c) == \/ upc'[c] = "mod" \/ WantsWrite' \/ hpc' \in {"able", "next"}
                       \/ waitcall' # <<>> \/ donecall' # <<>>
<1>1. UNCHANGED <<hpc, waitcall, donecall>>
  BY Outside
<1>2. WantsWrite => WantsWrite'
  BY WishStays DEF HandlerStep
<1>3. ~implDeleted
  BY StaysOpen DEF Places
<1>4. ASSUME NEW c \in Calls, upc[c] = "mod" PROVE After(c)
  BY <1>3, <1>4, UserMoves, WishAfterPost
<1>5. ASSUME NEW c \in Calls, Served(c) PROVE After(c)
  <2>1. CASE upc[c] = "mod"
    BY <1>4, <2>1
  <2>2. CASE upc[c] # "mod"
    BY <1>1, <1>2, <1>5, <2>2 DEF Served
  <2> QED BY <2>1, <2>2
<1>q. sendcall \in Seq(Calls) /\ Len(sendcall) \in Nat /\ \A i \in 1..Len(sendcall) : sendcall[i] \in Calls
  BY LengthsNow, ElementOfSeq DEF ChannelTypes, QueueTypes
<1> SUFFICES ASSUME NEW i \in 1..Len(sendcall') PROVE After(sendcall'[i])
  BY DEF Serving, Served
<1> HIDE DEF After
<1>6. CASE sendcall' = sendcall
  BY <1>5, <1>6, <1>q DEF Serving
<1>7. ASSUME NEW c \in Calls, sendcall' = Append(sendcall, c), upc'[c] = "mod"
      PROVE  After(sendcall'[i])
  <2>1. /\ Len(sendcall') = Len(sendcall) + 1 /\ sendcall'[Len(sendcall) + 1] = c
        /\ \A j \in 1..Len(sendcall) : sendcall'[j] = sendcall[j]
    BY <1>7, <1>q, AppendProperties
  <2>2. i \in 1..Len(sendcall) \/ i = Len(sendcall) + 1
    BY <2>1, <1>q
  <2>3. CASE i \in 1..Len(sendcall)
    BY <1>5, <1>q, <2>1, <2>3 DEF Serving
  <2>4. CASE i = Len(sendcall) + 1
    BY <1>7, <2>1, <2>4 DEF After
  <2> QED BY <2>2, <2>3, <2>4
<1> QED BY <1>6, <1>7, OutsideSend

\* ... and by the handler, which has its mind on sendcall until it is empty or
\* a call is in flight.
LEMMA ServedHandler ==
  ASSUME ChannelTypes, InStep, Places, HandlerStep, ~closeWhenEmpty', link = "up", ~isClosed', Balanced,
         Serving
  PROVE  Serving'
<1>u. upc' = upc
  BY HandlerFrame
<1>w. Unposted \/ Quiet => (WantsWrite => WantsWrite')
  BY Nothing, WishAfterPost
<1>q. sendcall = <<>> <=> Len(sendcall) = 0
  BY LengthsNow
<1>e. Len(<<>>) = 0 /\ 1..0 = {}
  BY EmptySeq
<1>1. CASE OnEvent \/ OnReadable
  <2>1. UNCHANGED <<sendcall, waitcall, donecall>> /\ hpc \notin {"able", "next"}
    BY <1>1, EventGoes, ReadGoes DEF OnReadable, callVars
  <2>2. WantsWrite => WantsWrite'
    BY <1>1, <1>w, HandlerPosts
  <2> QED BY <1>u, <2>1, <2>2 DEF Serving, Served
<1>2. CASE OnMessageRecived
  <2>1. CASE donecall # <<>>
    <3>1. hpc' = "next"
      BY <1>2, <2>1, ReadGoes DEF OnMessageRecived, OnMessageError, HGoto
    <3> QED BY <3>1 DEF Serving, Served
  <2>2. CASE donecall = <<>>
    <3>1. UNCHANGED <<sendcall, waitcall, donecall>> /\ hpc = "recv"
      BY <1>2, <2>2 DEF OnMessageRecived, callVars
    <3>2. WantsWrite => WantsWrite'
      BY <1>2, <1>w, HandlerPosts
    <3> QED BY <1>u, <3>1, <3>2 DEF Serving, Served
  <2> QED BY <2>1, <2>2
<1>3. CASE SendNext
  <2>1. CASE sendcall = <<>>
    <3>1. sendcall' = <<>>
      BY <1>3, <2>1 DEF SendNext
    <3> QED BY <1>e, <3>1 DEF Serving
  <2>2. CASE sendcall # <<>>
    <3>1. waitcall' # <<>>
      BY <1>3, <2>2, SendsOne DEF SendNext
    <3> QED BY <3>1 DEF Serving, Served
  <2> QED BY <2>1, <2>2
<1>4. CASE OnWriteable
  BY <1>4, WriteGoes DEF Serving, Served
<1>5. CASE HandlerWriteable
  <2>1. CASE MaySend
    <3>1. SendToServer(<<>>) /\ sendcall # <<>>
      BY <1>5, <2>1 DEF HandlerWriteable, MaySend
    <3>2. waitcall' # <<>>
      BY <3>1, SendsOne
    <3> QED BY <3>2 DEF Serving, Served
  <2>2. CASE ~MaySend
    <3>1. UNCHANGED <<sendcall, waitcall, donecall>>
      BY <1>5, <2>2 DEF HandlerWriteable
    <3> QED BY <1>e, <2>2, <3>1 DEF MaySend, Serving, Served
  <2> QED BY <2>1, <2>2
<1>6. CASE FlushAll \/ FlushSome
  BY <1>6, FlushesOne DEF Serving, Served
<1>7. CASE FlushFails
  BY <1>7, WriteGoes
<1>8. CASE OnReadTimeOut \/ OnWriteTimeOut
  BY <1>8, HandlerPosts
<1>9. CASE OnEventTail
  <2>1. UNCHANGED <<sendcall, waitcall, donecall>> /\ hpc = "tail"
    BY <1>9 DEF OnEventTail, callVars
  <2>2. WantsWrite => WantsWrite'
    BY <1>9, <1>w, HandlerPosts
  <2> QED BY <1>u, <2>1, <2>2 DEF Serving, Served
<1>10. CASE OnCloseCancel \/ OnCloseDelete
  <2>1. ~isClosed
    BY StaysOpen DEF ChannelStep
  <2> QED BY <1>10, <2>1, EndGoes DEF Places
<1> QED BY <1>1, <1>2, <1>3, <1>4, <1>5, <1>6, <1>7, <1>8, <1>9, <1>10 DEF HandlerStep

LEMMA StepFlow ==
  ASSUME ChannelTypes, InStep, Early, Places, TaskList, Closing, Flow, [Next]_vars
  PROVE  Flow'
<1>s. ChannelStep
  BY StepIs
<1> SUFFICES ASSUME Normal'
             PROVE  /\ Balanced' /\ (readbuf' # <<>> => hpc' = "recv") /\ ~garbled'
                    /\ Serving'
  BY DEF Flow
<1>c. ~isClosed'
  BY DEF Normal
<1>1. CASE Blank /\ UNCHANGED <<sendcall, waitcall, donecall, writebuf, readbuf, garbled, peerq, inbox>>
  <2>1. /\ sendcall' = <<>> /\ waitcall' = <<>> /\ donecall' = <<>> /\ writebuf' = <<>>
        /\ readbuf' = <<>> /\ peerq' = <<>> /\ inbox' = <<>> /\ ~garbled'
    BY <1>1 DEF Blank
  <2>2. Len(<<>>) = 0 /\ 1..0 = {} /\ 0 + 0 + 0 + 0 = 0 + 0
    BY EmptySeq
  <2>3. Balanced'
    BY <2>1, <2>2 DEF Balanced
  <2>4. Serving'
    BY <2>1, <2>2 DEF Serving
  <2> QED BY <2>1, <2>3, <2>4
<1>2. CASE Normal /\ (HandlerStep => ~closeWhenEmpty /\ ~closeWhenEmpty')
  <2>1. /\ link = "up" /\ Balanced /\ (readbuf # <<>> => hpc = "recv") /\ ~garbled
        /\ Serving
    BY <1>2 DEF Flow, Normal
  <2>2. CASE HandlerStep
    <3>1. Balanced'
      BY <1>2, <2>1, <2>2, BalancedHandler
    <3>2. (readbuf' # <<>> => hpc' = "recv") /\ ~garbled'
      BY <1>2, <1>c, <2>1, <2>2, ReadHandler
    <3>3. Serving'
      BY <1>2, <1>c, <2>1, <2>2, ServedHandler
    <3> QED BY <3>1, <3>2, <3>3
  <2>3. CASE ~ HandlerStep
    <3>1. Balanced'
      BY <1>s, <2>1, <2>3, BalancedOutside
    <3>2. UNCHANGED <<readbuf, garbled, hpc>>
      BY <1>s, <2>3, Outside
    <3>3. Serving'
      BY <1>s, <1>c, <2>1, <2>3, ServedOutside
    <3> QED BY <2>1, <3>1, <3>2, <3>3
  <2> QED BY <2>2, <2>3
<1> QED BY <1>s, <1>1, <1>2, NormalBefore
-----------------------------------------------------------------------------
(* The invariant of the channel, and what it says of a channel at rest.    *)

StreamInv == /\ ChannelInv /\ ChannelTypes
             /\ Early /\ Places /\ TaskList /\ Edges /\ Unwritten /\ Closing /\ Flow /\ Placed

LEMMA InitStream == Init => StreamInv
<1> SUFFICES ASSUME Init PROVE StreamInv
  OBVIOUS
<1>c. ChannelInv
  BY InitChannel
<1>e. <<>> \in Seq(TaskNames) /\ Len(<<>>) = 0 /\ 1..0 = {} /\ 0 \in 0..0
  BY EmptySeq
<1>1. ChannelTypes
  <2>1. QueueTypes
    BY <1>c DEF ChannelInv
  <2>2. moved \in 0..Len(tasks)
    BY <1>e DEF Init
  <2> QED BY <1>e, <2>1, <2>2 DEF Init, ChannelTypes
<1>2. /\ link = "none" /\ hpc = "idle" /\ isClosed = FALSE /\ closeWhenEmpty = FALSE /\ implDeleted = FALSE
      /\ opc = "start" /\ raised = {} /\ hmask = {} /\ interest = "none" /\ writebuf = <<>>
      /\ \A c \in Calls : upc[c] = "idle"
  BY DEF Init
<1>3. Blank
  <2>1. \A i \in 1..Len(tasks) : tasks[i] \in {"AddRW", "Del"}
    BY <1>e DEF Init
  <2> QED BY <1>2, <2>1 DEF Init, Blank
<1>4. Early
  BY <1>2, <1>3 DEF Init, Early
<1>5. Places
  BY <1>2 DEF Places
<1>6. TaskList /\ Edges /\ Unwritten /\ Closing
  BY <1>2 DEF TaskList, Edges, Unwritten, Closing
<1>7. Flow /\ Placed
  BY <1>2 DEF Flow, Normal, Placed
<1> QED BY <1>c, <1>1, <1>4, <1>5, <1>6, <1>7 DEF StreamInv

LEMMA StreamInvariant == Spec => []StreamInv
<1>1. ASSUME StreamInv, [Next]_vars PROVE StreamInv'
  <2>1. /\ QueueTypes /\ InStep /\ ChannelTypes /\ Early /\ Places /\ TaskList /\ Edges /\ Unwritten /\ Closing
        /\ Flow /\ Placed /\ Paired /\ Pending
    BY <1>1 DEF StreamInv, ChannelInv
  <2>2. ChannelStep
    BY <1>1, StepIs
  <2>3. ChannelInv'
    BY <1>1, <2>1, StepQueueTypes, StepInStep, StepPaired, StepPending DEF ChannelInv
  <2>4. ChannelTypes'
    BY <1>1, <2>1, StepTypes
  <2>5. Early' /\ Places' /\ TaskList'
    BY <2>1, <2>2, StepEarly, StepPlaces, StepTaskList
  <2>6. Edges'
    BY <2>1, <2>2, StepEdges
  <2>7. Unwritten' /\ Closing'
    BY <2>1, <2>2, StepUnwritten, StepClosing
  <2>8. Flow'
    BY <1>1, <2>1, StepFlow
  <2>9. Placed'
    BY <1>1, <2>1, StepPlaced
  <2> QED BY <2>3, <2>4, <2>5, <2>6, <2>7, <2>8, <2>9 DEF StreamInv
<1>2. StreamInv /\ [Next]_vars => StreamInv'
  BY <1>1
<1> QED BY <1>2, InitStream, PTL DEF Spec

\* At rest an open stream wishes to write nothing, and what was read, written
\* or sent for a call that is in flight is nowhere to be found.
LEMMA RestIsEmpty ==
  ASSUME StreamInv, AtRest, ~isClosed, link \in {"up", "fin"}
  PROVE  link = "up" /\ ~WantsWrite /\ inbox = <<>> /\ peerq = <<>> /\ writebuf = <<>>
<1>i. ChannelTypes /\ TaskList /\ Edges /\ Unwritten
  BY DEF StreamInv
<1>r. /\ tasks = <<>> /\ ~armed /\ raised = {} /\ hpc = "idle" /\ room
      /\ link = "up" => peerq = <<>>
  BY DEF AtRest
<1>t. 1..Len(tasks) = {}
  <2>1. Len(<<>>) = 0
    BY EmptySeq
  <2>2. Len(tasks) = 0
    BY <1>r, <2>1
  <2> QED BY <2>2
<1>1. interest # "none"
  BY <1>i, <1>r DEF TaskList, Joining, Joined
<1>2. /\ link = "up" /\ inbox # <<>> => ReadEdge
      /\ link = "fin" => EndEdge
      /\ interest = "RW" => WriteEdge
  BY <1>i, <1>r, <1>1 DEF Edges
<1>3. ~ReadEdge /\ ~WriteEdge
  BY <1>r, <1>t DEF ReadEdge, WriteEdge, GivingUp
<1>4. ~WantsWrite
  BY <1>2, <1>3, <1>t DEF WantsWrite
<1>5. ~EndEdge
  BY <1>r, <1>3, <1>4 DEF EndEdge, Draining
<1>6. link = "up" /\ inbox = <<>>
  BY <1>2, <1>3, <1>5
<1>7. writebuf = <<>>
  BY <1>i, <1>4 DEF Unwritten
<1> QED BY <1>4, <1>6, <1>7, <1>r

LEMMA NoCallStuck == StreamInv => NoStuckCall
<1> SUFFICES ASSUME StreamInv, AtRest, link # "rst",
                    NEW c \in Calls, upc[c] \in {"wait", "returned"}, status[c] = "unset"
             PROVE  implDeleted /\ c \in ToSet(sendcall)
  BY DEF NoStuckCall
<1>i. ChannelTypes /\ Early /\ Places /\ Closing /\ Flow /\ Placed
  BY DEF StreamInv
<1>q. c \in ToSet(sendcall) \cup ToSet(waitcall) \cup ToSet(donecall)
  BY <1>i DEF Placed
<1>h. hpc = "idle"
  BY DEF AtRest
<1>e. ToSet(<<>>) = {}
  <2>1. DOMAIN <<>> = {}
    BY EmptySeq
  <2> QED BY <2>1 DEF ToSet
<1>l. link \in {"up", "fin"}
  <2>1. link \in {"none", "connecting", "refused", "up", "fin", "rst"}
    BY <1>i DEF Places
  <2>2. link \notin {"none", "connecting", "refused"}
    BY <1>i DEF Early, Blank
  <2> QED BY <2>1, <2>2
<1>1. CASE isClosed
  <2>1. implDeleted /\ waitcall = <<>> /\ donecall = <<>>
    BY <1>i, <1>h, <1>1 DEF Places
  <2> QED BY <1>q, <1>e, <2>1
<1>2. CASE ~isClosed
  <2>1. link = "up" /\ ~WantsWrite /\ inbox = <<>> /\ peerq = <<>> /\ writebuf = <<>>
    BY <1>l, <1>2, RestIsEmpty
  <2>2. Normal
    BY <1>i, <1>h, <1>2, <2>1 DEF Closing, Normal
  <2>3. Balanced /\ readbuf = <<>> /\ Serving
    BY <1>i, <1>h, <2>2 DEF Flow
  <2>4. Len(donecall) + Len(waitcall) = 0
    <3>1. Len(readbuf) = 0 /\ Len(inbox) = 0 /\ Len(peerq) = 0 /\ Len(writebuf) = 0
      BY <1>i, <2>1, <2>3, LengthsNow
    <3>2. 0 + 0 + 0 + 0 = 0
      OBVIOUS
    <3> QED BY <2>3, <3>1, <3>2 DEF Balanced
  <2>5. donecall = <<>> /\ waitcall = <<>>
    BY <1>i, <2>4, LengthsNow
  <2>6. PICK i \in 1..Len(sendcall) : sendcall[i] = c
    <3>1. c \in ToSet(sendcall)
      BY <1>q, <1>e, <2>5
    <3>2. DOMAIN sendcall = 1..Len(sendcall)
      BY <1>i, LenProperties DEF ChannelTypes, QueueTypes
    <3> QED BY <3>1, <3>2 DEF ToSet
  <2>7. Served(c)
    BY <2>3, <2>6 DEF Serving
  <2> QED BY <1>h, <2>1, <2>5, <2>7 DEF Served
<1> QED BY <1>1, <1>2, <1>i DEF ChannelTypes

LEMMA ReleasedDeleted == StreamInv => ReleasedIsDeleted
<1> SUFFICES ASSUME StreamInv, AtRest, link # "rst", opc = "released" PROVE implDeleted
  BY DEF ReleasedIsDeleted
<1>i. ChannelTypes /\ Early /\ Places /\ Closing
  BY DEF StreamInv
<1>h. hpc = "idle"
  BY DEF AtRest
<1>1. CASE isClosed
  BY <1>i, <1>h, <1>1 DEF Places
<1>2. CASE ~isClosed
  <2>1. closeWhenEmpty
    BY <1>i, <1>2 DEF Places
  <2>2. WantsWrite
    BY <1>i, <1>h, <1>2, <2>1 DEF Closing
  <2>3. link \in {"up", "fin"}
    <3>1. link \in {"none", "connecting", "refused", "up", "fin", "rst"}
      BY <1>i DEF Places
    <3>2. link \notin {"none", "connecting", "refused"}
      BY <1>i DEF Early
    <3> QED BY <3>1, <3>2
  <2> QED BY <1>2, <2>2, <2>3, RestIsEmpty
<1> QED BY <1>1, <1>2, <1>i DEF ChannelTypes

\* With every kind of fault, any number of users and any number of full send
\* buffers, nothing is left behind at rest.  Every call handed to CallMethod
\* has its status: the ModEvent tasks that users, handler and owner post, the
\* edges of epoll and the one call in flight never leave one in sendcall,
\* waitcall or donecall.  And a channel that was released is deleted.
THEOREM NobodyStranded == Spec => []NothingStranded
<1>1. StreamInv => NothingStranded
  <2>1. StreamInv => TypeOK
    BY TypedChannel DEF StreamInv
  <2> QED BY <2>1, NoCallStuck, ReleasedDeleted DEF NothingStranded
<1> QED BY <1>1, StreamInvariant, PTL
=============================================================================
