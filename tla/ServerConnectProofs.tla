------------------------- MODULE ServerConnectProofs -------------------------
(***************************************************************************)
(* Proofs about ServerConnect for any number of requests, pipelined or     *)
(* not, and any number of full send buffers.                               *)
(*                                                                         *)
(* Three arguments.  The halves of requests that are still to be read are  *)
(* the last ones sent, in order, so a request is served once and later     *)
(* than those before it (Incoming, Controllers, Outgoing).  A peer that    *)
(* does not pipeline keeps the connection in one of a few phases (Lockstep,*)
(* Failing).  And whatever is left to do has its edge: what is unread is   *)
(* on epoll's ready list or under way to the handler, what is unwritten is *)
(* so as soon as the interest includes writing (Edges).                    *)
(***************************************************************************)
EXTENDS ServerConnect, FiniteSetTheorems, SequenceTheorems, TLAPS

\* How many halves of requests the peer has sent, and how many of them have
\* left readbuf.
Total == 2 * sent - (IF begun THEN 1 ELSE 0)
Taken == Total - (Len(readbuf) + Len(inbox))

\* The position of a half in what the peer sends.
Place(h) == 2 * (h[1] - 1) + h[2]

\* What is unread is the end of what was sent.
Incoming ==
  /\ begun => sent >= 1
  /\ Taken >= 0
  /\ \A i \in 1..Len(readbuf) : Place(readbuf[i]) = Taken + i
  /\ \A i \in 1..Len(inbox) : Place(inbox[i]) = Taken + Len(readbuf) + i

\* Controllers exist for requests that have been taken; the live ones are
\* pending.
Controllers ==
  /\ \A r \in Requests : ctl[r] # "none" => 2 * r - 1 <= Taken
  /\ \A i \in 1..Len(pending) : ctl[pending[i]] # "none"
  /\ \A r \in Requests : ctl[r] = "live" => \E i \in 1..Len(pending) : pending[i] = r
  /\ \A r \in Requests : ctl[r] = "none" => sendsize[r] = 0

\* Unless the peer pipelines or a response does not fit, pending holds live
\* controllers, each once.
Sound ==
  /\ undefined => piped \/ full
  /\ ~piped /\ ~full =>
       /\ \A i, j \in 1..Len(pending) : pending[i] = pending[j] => i = j
       /\ \A i \in 1..Len(pending) : ctl[pending[i]] = "live"

\* What was and what will be written.
Out == received \o writebuf

Outgoing ==
  /\ \A i \in 1..Len(Out) :
       /\ Out[i][2] = "ERR" => closeWhenEmpty
       /\ Out[i][2] = "OK" => 2 * Out[i][1] - 1 <= Taken
       /\ Out[i][3] = 2 => i > 1 /\ Out[i - 1][3] = 1
  /\ \A i, j \in 1..Len(Out) :
       i < j /\ IsAnswer(Out[i]) /\ IsAnswer(Out[j]) => Out[i][1] < Out[j][1]

\* The interest once the posted tasks are run.
Wanted == IF tasks = <<>> THEN interest
          ELSE IF tasks[Len(tasks)] = "ModRW" THEN "RW" ELSE "R"

\* Of an open connection: a request is under way and nothing else is, ...
Asking ==
  /\ sent >= 1 /\ Len(readbuf) + Len(inbox) = (IF begun THEN 1 ELSE 2)
  /\ writebuf = <<>> /\ pending = <<>> /\ Len(received) = 2 * (sent - 1)
  /\ link = "up" /\ Len(readbuf) = 2 => hpc = "recv"

\* ... or all requests are served and the last response is being written.
Answering ==
  /\ ~begun /\ readbuf = <<>> /\ inbox = <<>>
  /\ Len(received) + Len(writebuf) = 2 * sent
  /\ \A i \in 1..Len(writebuf) : writebuf[i][1] = sent
  /\ pending = <<>> \/ (pending = <<sent>> /\ writebuf # <<>>)
  /\ writebuf # <<>> /\ kind[sent] # "list" =>
       pending = <<sent>> /\ sendsize[sent] + Len(writebuf) = 2 /\ Wanted = "RW"

Lockstep == ~piped /\ ~isClosed /\ ~closeWhenEmpty => Asking \/ Answering

EndsInError(s) == s # <<>> /\ s[Len(s)][2] = "ERR"

\* After an error: the bad header stays in front, ...
StuckOnBad == /\ ~isClosed /\ EndsInError(writebuf)
              /\ readbuf # <<>> /\ readbuf[1][2] = 1 /\ kind[readbuf[1][1]] = "bad"

\* ... or no more than the rest of the last request is left to read, ...
LastError == /\ ~isClosed /\ EndsInError(writebuf)
             /\ ~begun /\ Len(readbuf) + Len(inbox) <= 1
             /\ Len(received) + Len(writebuf) = 2 * sent

\* ... or the error has been written and the stream is closed next.
ErrorWritten == /\ writebuf = <<>> /\ EndsInError(received)
                /\ isClosed \/ hpc \in {"tail", "close"}

Failing == ~piped /\ link = "up" /\ (isClosed \/ closeWhenEmpty) =>
             closeWhenEmpty /\ (StuckOnBad \/ LastError \/ ErrorWritten)

\* Where the handler is.
Handler ==
  /\ hpc \in {"idle", "READ", "recv", "WRITE", "tail", "close"}
  /\ isClosed => hpc = "idle"
  /\ link # "rst" => raised \cap {"CLOSE", "ERR"} = {}
  /\ "CLOSE" \in hmask => link \in {"fin", "rst"}
  /\ hpc = "close" /\ link = "up" => closeWhenEmpty /\ writebuf = <<>>

\* The tasks of an open connection.
Tasks ==
  ~isClosed =>
    \/ /\ interest = "none" /\ tasks = <<"AddR">> /\ ~armed /\ raised = {} /\ hpc = "idle"
       /\ ~closeWhenEmpty /\ writebuf = <<>>
    \/ /\ interest # "none" /\ \A i \in 1..Len(tasks) : tasks[i] \in {"ModR", "ModRW"}

\* No edge is lost.
Edges ==
  ~isClosed /\ interest # "none" =>
    /\ inbox # <<>> /\ link = "up" => armed \/ "READ" \in raised \/ hpc = "READ"
    /\ link = "fin" => \/ armed \/ "READ" \in raised \/ hpc = "READ"
                       \/ hpc # "idle" /\ "CLOSE" \in hmask
                       \/ hpc = "close" \/ closeWhenEmpty
    /\ interest = "RW" /\ room /\ link # "rst" =>
         \/ armed \/ "WRITE" \in raised
         \/ hpc \in {"READ", "recv", "WRITE"} /\ "WRITE" \in hmask
         \/ \E i \in 1..Len(tasks) : tasks[i] = "ModR"

\* A stream that is to be closed has something to write and asks to.
Closing == closeWhenEmpty /\ ~isClosed /\ hpc = "idle" => writebuf # <<>> /\ Wanted = "RW"

ConnInv == /\ TypeOK /\ Incoming /\ Controllers /\ NoLeak /\ Sound /\ Outgoing
           /\ Lockstep /\ Failing /\ Handler /\ Tasks /\ Edges /\ Closing
-----------------------------------------------------------------------------
(* Sequences.                                                              *)

LEMMA Members ==
  ASSUME NEW S, NEW s \in Seq(S)
  PROVE  /\ Len(s) \in Nat /\ DOMAIN s = 1..Len(s)
         /\ \A i \in 1..Len(s) : s[i] \in S
         /\ s = <<>> <=> Len(s) = 0
<1>1. Len(s) \in Nat /\ s \in [1..Len(s) -> S] /\ DOMAIN s = 1..Len(s)
  BY LenProperties
<1>2. s = <<>> <=> Len(s) = 0
  BY EmptySeq
<1> QED BY <1>1, <1>2

\* What is appended to a buffer or a list.
LEMMA Joined ==
  ASSUME NEW S, NEW s \in Seq(S), NEW t \in Seq(S)
  PROVE  /\ s \o t \in Seq(S) /\ Len(s \o t) = Len(s) + Len(t)
         /\ \A i \in 1..Len(s) : (s \o t)[i] = s[i]
         /\ \A i \in 1..Len(t) : (s \o t)[Len(s) + i] = t[i]
         /\ \A i \in 1..Len(s \o t) : i \in 1..Len(s) \/ (i - Len(s) \in 1..Len(t) /\ (s \o t)[i] = t[i - Len(s)])
<1>1. /\ s \o t \in Seq(S) /\ Len(s \o t) = Len(s) + Len(t)
      /\ \A i \in 1..Len(s) + Len(t) : (s \o t)[i] = IF i <= Len(s) THEN s[i] ELSE t[i - Len(s)]
  BY ConcatProperties
<1>2. Len(s) \in Nat /\ Len(t) \in Nat
  BY Members
<1>3. ASSUME NEW m \in Nat, NEW n \in Nat
      PROVE  /\ \A i \in 1..m : i \in 1..m + n /\ i <= m
             /\ \A i \in 1..n : m + i \in 1..m + n /\ ~ (m + i <= m) /\ (m + i) - m = i
             /\ \A i \in 1..m + n : i \in 1..m \/ (i - m \in 1..n /\ ~ (i <= m))
  OBVIOUS
<1> QED BY <1>1, <1>2, <1>3

\* What is taken from the front of a buffer, and what is left.
LEMMA Parted ==
  ASSUME NEW S, NEW s \in Seq(S), NEW k \in 0..Len(s)
  PROVE  LET a == SubSeq(s, 1, k)
             b == SubSeq(s, k + 1, Len(s))
         IN  /\ a \in Seq(S) /\ Len(a) = k /\ \A i \in 1..k : a[i] = s[i]
             /\ b \in Seq(S) /\ Len(b) = Len(s) - k /\ \A i \in 1..Len(s) - k : b[i] = s[k + i]
<1>1. Len(s) \in Nat /\ \A i \in 1..Len(s) : s[i] \in S
  BY Members
<1>2. k \in Nat /\ k <= Len(s)
  BY <1>1
<1>3. \A i \in 1..k : s[i] \in S
  BY <1>1, <1>2
<1>4. \A i \in (k + 1)..Len(s) : s[i] \in S
  BY <1>1, <1>2
<1>5. /\ SubSeq(s, 1, k) \in Seq(S) /\ Len(SubSeq(s, 1, k)) = IF 1 <= k THEN k - 1 + 1 ELSE 0
      /\ \A i \in 1..k - 1 + 1 : SubSeq(s, 1, k)[i] = s[1 + i - 1]
  BY <1>2, <1>3, SubSeqProperties
<1>6. /\ SubSeq(s, k + 1, Len(s)) \in Seq(S)
      /\ Len(SubSeq(s, k + 1, Len(s))) = IF k + 1 <= Len(s) THEN Len(s) - (k + 1) + 1 ELSE 0
      /\ \A i \in 1..Len(s) - (k + 1) + 1 : SubSeq(s, k + 1, Len(s))[i] = s[(k + 1) + i - 1]
  <2>1. k + 1 \in Int /\ Len(s) \in Int
    BY <1>1, <1>2
  <2> QED BY <2>1, <1>4, SubSeqProperties
<1>7. ASSUME NEW m \in Nat, k <= m
      PROVE  /\ (IF 1 <= k THEN k - 1 + 1 ELSE 0) = k /\ k - 1 + 1 = k /\ m - (k + 1) + 1 = m - k
             /\ (IF k + 1 <= m THEN m - (k + 1) + 1 ELSE 0) = m - k
             /\ \A i \in 1..k : 1 + i - 1 = i
             /\ \A i \in 1..m - k : (k + 1) + i - 1 = k + i
  BY <1>2, <1>7
<1>8. /\ (IF 1 <= k THEN k - 1 + 1 ELSE 0) = k /\ k - 1 + 1 = k /\ Len(s) - (k + 1) + 1 = Len(s) - k
      /\ (IF k + 1 <= Len(s) THEN Len(s) - (k + 1) + 1 ELSE 0) = Len(s) - k
      /\ \A i \in 1..k : 1 + i - 1 = i
      /\ \A i \in 1..Len(s) - k : (k + 1) + i - 1 = k + i
  BY <1>1, <1>2, <1>7
<1> QED BY <1>5, <1>6, <1>8

\* Where the handler goes on.
LEMMA Phase ==
  ASSUME NEW mask, "tail" \notin mask, NEW i \in 0..4, NEW j \in (i + 1)..5,
         Phases[j] \in mask \cup {"tail"}, \A k \in (i + 1)..(j - 1) : Phases[k] \notin mask
  PROVE  PhaseAfter(i, mask) = Phases[j]
<1>1. /\ Phases[1] = "READ" /\ Phases[2] = "WRITE" /\ Phases[3] = "RTIME" /\ Phases[4] = "WTIME"
      /\ Phases[5] = "tail"
  BY DEF Phases
<1> DEFINE P(l) == Phases[l] \in mask \cup {"tail"} /\ \A k \in (i + 1)..(l - 1) : Phases[k] \notin mask
<1>2. ASSUME NEW l \in (i + 1)..5, P(l) PROVE l = j
  <2>1. CASE l < j
    <3>1. l \in (i + 1)..(j - 1) /\ l \in {1, 2, 3, 4}
      BY <2>1
    <3> QED BY <3>1, <1>2, <1>1
  <2>2. CASE l > j
    <3>1. j \in (i + 1)..(l - 1) /\ j \in {1, 2, 3, 4}
      BY <2>2
    <3> QED BY <3>1, <1>2, <1>1
  <2> QED BY <2>1, <2>2
<1>3. P(j)
  OBVIOUS
<1> HIDE DEF P
<1>4. (CHOOSE l \in (i + 1)..5 : P(l)) = j
  BY <1>2, <1>3
<1> QED BY <1>4 DEF PhaseAfter, P

Bits == {"READ", "WRITE", "CLOSE", "ERR"}

LEMMA NextPhase ==
  ASSUME NEW mask \in SUBSET Bits
  PROVE  /\ PhaseAfter(0, mask) = IF "READ" \in mask THEN "READ" ELSE IF "WRITE" \in mask THEN "WRITE" ELSE "tail"
         /\ PhaseAfter(1, mask) = IF "WRITE" \in mask THEN "WRITE" ELSE "tail"
         /\ PhaseAfter(2, mask) = "tail"
<1>1. /\ Phases[1] = "READ" /\ Phases[2] = "WRITE" /\ Phases[3] = "RTIME" /\ Phases[4] = "WTIME"
      /\ Phases[5] = "tail"
  BY DEF Phases
<1>2. "tail" \notin mask /\ "RTIME" \notin mask /\ "WTIME" \notin mask
  BY DEF Bits
<1>3. PhaseAfter(2, mask) = Phases[5]
  <2>1. \A k \in (2 + 1)..(5 - 1) : k \in {3, 4}
    OBVIOUS
  <2>2. \A k \in (2 + 1)..(5 - 1) : Phases[k] \notin mask
    BY <1>1, <1>2, <2>1
  <2> QED BY <1>1, <1>2, <2>2, Phase
<1>4. CASE "WRITE" \in mask
  <2>1. PhaseAfter(1, mask) = Phases[2]
    <3>1. \A k \in (1 + 1)..(2 - 1) : Phases[k] \notin mask
      OBVIOUS
    <3> QED BY <1>1, <1>2, <3>1, <1>4, Phase
  <2>2. "READ" \notin mask => PhaseAfter(0, mask) = Phases[2]
    <3> SUFFICES ASSUME "READ" \notin mask PROVE PhaseAfter(0, mask) = Phases[2]
      OBVIOUS
    <3>1. \A k \in (0 + 1)..(2 - 1) : k = 1
      OBVIOUS
    <3>2. \A k \in (0 + 1)..(2 - 1) : Phases[k] \notin mask
      BY <1>1, <3>1
    <3> QED BY <1>1, <1>2, <3>2, <1>4, Phase
  <2>3. "READ" \in mask => PhaseAfter(0, mask) = Phases[1]
    <3> SUFFICES ASSUME "READ" \in mask PROVE PhaseAfter(0, mask) = Phases[1]
      OBVIOUS
    <3>1. \A k \in (0 + 1)..(1 - 1) : Phases[k] \notin mask
      OBVIOUS
    <3> QED BY <1>1, <1>2, <3>1, Phase
  <2> QED BY <1>1, <1>3, <1>4, <2>1, <2>2, <2>3
<1>5. CASE "WRITE" \notin mask
  <2>1. PhaseAfter(1, mask) = Phases[5]
    <3>1. \A k \in (1 + 1)..(5 - 1) : k \in {2, 3, 4}
      OBVIOUS
    <3>2. \A k \in (1 + 1)..(5 - 1) : Phases[k] \notin mask
      BY <1>1, <1>2, <3>1, <1>5
    <3> QED BY <1>1, <1>2, <3>2, Phase
  <2>2. "READ" \notin mask => PhaseAfter(0, mask) = Phases[5]
    <3> SUFFICES ASSUME "READ" \notin mask PROVE PhaseAfter(0, mask) = Phases[5]
      OBVIOUS
    <3>1. \A k \in (0 + 1)..(5 - 1) : k \in {1, 2, 3, 4}
      OBVIOUS
    <3>2. \A k \in (0 + 1)..(5 - 1) : Phases[k] \notin mask
      BY <1>1, <1>2, <3>1, <1>5
    <3> QED BY <1>1, <1>2, <3>2, Phase
  <2>3. "READ" \in mask => PhaseAfter(0, mask) = Phases[1]
    <3> SUFFICES ASSUME "READ" \in mask PROVE PhaseAfter(0, mask) = Phases[1]
      OBVIOUS
    <3>1. \A k \in (0 + 1)..(1 - 1) : Phases[k] \notin mask
      OBVIOUS
    <3> QED BY <1>1, <1>2, <3>1, Phase
  <2> QED BY <1>1, <1>3, <1>5, <2>1, <2>2, <2>3
<1> QED BY <1>4, <1>5

\* No more than every second half that the peer has ends a response.
LEMMA ResponsesBound ==
  ASSUME NEW S, received \in Seq(S),
         \A i \in 1..Len(received) : received[i][3] = 2 => i > 1 /\ received[i - 1][3] = 1
  PROVE  Responses \in Nat /\ 2 * Responses <= Len(received)
<1> DEFINE n == Len(received)
           E == {i \in 1..n : received[i][3] = 2}
           f == [i \in E |-> i - 1]
<1>1. n \in Nat /\ DOMAIN received = 1..n
  BY Members
<1>2. Responses = Cardinality(E)
  BY <1>1 DEF Responses
<1>3. /\ IsFiniteSet(1..n) /\ Cardinality(1..n) = n
  <2>1. Cardinality(1..n) = (IF 1 > n THEN 0 ELSE n - 1 + 1) /\ IsFiniteSet(1..n)
    BY <1>1, FS_Interval
  <2> QED BY <1>1, <2>1
<1>4. /\ IsFiniteSet((1..n) \ E)
      /\ Cardinality((1..n) \ E) = Cardinality(1..n) - Cardinality((1..n) \cap E)
  BY <1>3, FS_Difference
<1>5. (1..n) \cap E = E
  OBVIOUS
<1>6. f \in Injection(E, (1..n) \ E)
  <2>1. ASSUME NEW i \in E PROVE i - 1 \in (1..n) \ E
    <3>1. i > 1 /\ received[i - 1][3] = 1 /\ i \in 1..n
      OBVIOUS
    <3>2. i - 1 \in 1..n
      BY <1>1, <3>1
    <3> QED BY <3>1, <3>2
  <2>2. f \in [E -> (1..n) \ E]
    BY <2>1
  <2>3. ASSUME NEW a \in E, NEW b \in E, a - 1 = b - 1 PROVE a = b
    BY <1>1, <2>3
  <2>4. IsInjective(f)
    BY <2>3 DEF IsInjective
  <2> HIDE DEF f
  <2> QED BY <2>2, <2>4 DEF Injection
<1>7. Cardinality(E) <= Cardinality((1..n) \ E)
  BY <1>4, <1>6, FS_Injection
<1>8. Cardinality(E) \in Nat
  <2>1. IsFiniteSet(E)
    BY <1>3, FS_Subset
  <2> QED BY <2>1, FS_CardinalityType
<1>9. Cardinality(E) <= n - Cardinality(E)
  BY <1>3, <1>4, <1>5, <1>7, Zenon
<1>10. \A c \in Nat : c <= n - c => 2 * c <= n
  BY <1>1
<1>11. 2 * Cardinality(E) <= n
  BY <1>8, <1>9, <1>10, Zenon
<1>12. Responses \in Nat /\ 2 * Responses <= n
  BY <1>2, <1>8, <1>11, Zenon
<1> QED BY <1>12
-----------------------------------------------------------------------------
(* What OnRecived does to readbuf.                                         *)

\* The rest of the rest of a buffer.
LEMMA RestOfRest ==
  ASSUME NEW S, NEW s \in Seq(S), NEW k \in 0..Len(s), NEW m \in 0..Len(s) - k
  PROVE  SubSeq(SubSeq(s, k + 1, Len(s)), m + 1, Len(s) - k) = SubSeq(s, (k + m) + 1, Len(s))
<1> DEFINE b == SubSeq(s, k + 1, Len(s))
           c == SubSeq(b, m + 1, Len(b))
           d == SubSeq(s, (k + m) + 1, Len(s))
<1>1. Len(s) \in Nat /\ k + m \in 0..Len(s) /\ k \in Nat /\ m \in Nat
  BY Members
<1>2. b \in Seq(S) /\ Len(b) = Len(s) - k /\ \A i \in 1..Len(s) - k : b[i] = s[k + i]
  BY Parted
<1>3. d \in Seq(S) /\ Len(d) = Len(s) - (k + m) /\ \A i \in 1..Len(s) - (k + m) : d[i] = s[(k + m) + i]
  BY <1>1, Parted
<1> HIDE DEF b
<1>4. m \in 0..Len(b)
  BY <1>2
<1>5. c \in Seq(S) /\ Len(c) = Len(b) - m /\ \A i \in 1..Len(b) - m : c[i] = b[m + i]
  BY <1>2, <1>4, Parted
<1> HIDE DEF c, d
<1>6. Len(c) = Len(d)
  BY <1>1, <1>2, <1>3, <1>5
<1>7. ASSUME NEW i \in 1..Len(c) PROVE c[i] = d[i]
  <2>1. i \in 1..Len(b) - m /\ i \in 1..Len(s) - (k + m) /\ m + i \in 1..Len(s) - k
    BY <1>1, <1>2, <1>5
  <2>2. k + (m + i) = (k + m) + i
    BY <1>1, <2>1
  <2> QED BY <1>2, <1>3, <1>5, <2>1, <2>2
<1>8. c = d
  BY <1>3, <1>5, <1>6, <1>7, SeqEqual
<1> QED BY <1>2, <1>8 DEF b, c, d

\* The first k halves leave readbuf.
Dropped(k) == k \in 0..Len(readbuf) /\ readbuf' = SubSeq(readbuf, k + 1, Len(readbuf))

Skipped == IF readbuf # <<>> /\ readbuf[1][2] = 2 THEN 1 ELSE 0

\* The types of the buffers, and what SMT needs to know of the halves in them.
LEMMA Buffers ==
  ASSUME TypeOK
  PROVE  /\ readbuf \in Seq(Requests \X {1, 2}) /\ Len(readbuf) \in Nat
         /\ inbox \in Seq(Requests \X {1, 2}) /\ Len(inbox) \in Nat
         /\ \A i \in 1..Len(readbuf) : readbuf[i][1] \in Requests /\ readbuf[i][2] \in {1, 2}
         /\ \A i \in 1..Len(inbox) : inbox[i][1] \in Requests /\ inbox[i][2] \in {1, 2}
         /\ readbuf = <<>> <=> Len(readbuf) = 0
         /\ inbox = <<>> <=> Len(inbox) = 0
<1>1. readbuf \in Seq(Requests \X {1, 2}) /\ inbox \in Seq(Requests \X {1, 2})
  BY DEF TypeOK
<1>2. /\ Len(readbuf) \in Nat /\ \A i \in 1..Len(readbuf) : readbuf[i] \in Requests \X {1, 2}
      /\ readbuf = <<>> <=> Len(readbuf) = 0
  BY <1>1, Members
<1>3. /\ Len(inbox) \in Nat /\ \A i \in 1..Len(inbox) : inbox[i] \in Requests \X {1, 2}
      /\ inbox = <<>> <=> Len(inbox) = 0
  BY <1>1, Members
<1>4. \A h \in Requests \X {1, 2} : h[1] \in Requests /\ h[2] \in {1, 2}
  OBVIOUS
<1> QED BY <1>1, <1>2, <1>3, <1>4

LEMMA Counters ==
  ASSUME TypeOK
  PROVE  /\ N \in Nat /\ sent \in Nat /\ sent <= N /\ begun \in BOOLEAN
         /\ Total \in Int /\ Taken \in Int /\ \A r \in Requests : r \in Nat /\ r >= 1 /\ r <= N
<1>1. N \in Nat /\ sent \in 0..N /\ begun \in BOOLEAN
  BY ServerAssumption DEF TypeOK
<1>2. Len(readbuf) \in Nat /\ Len(inbox) \in Nat
  BY Buffers
<1>3. Total \in Int
  BY <1>1 DEF Total
<1> QED BY <1>1, <1>2, <1>3 DEF Taken, Requests

LEMMA Skip ==
  ASSUME TypeOK
  PROVE  /\ Skipped \in 0..Len(readbuf) /\ Skipped \in {0, 1}
         /\ Unskipped = SubSeq(readbuf, Skipped + 1, Len(readbuf))
         /\ Unskipped \in Seq(Requests \X {1, 2})
         /\ Len(Unskipped) = Len(readbuf) - Skipped
         /\ \A i \in 1..Len(readbuf) - Skipped : Unskipped[i] = readbuf[Skipped + i]
<1>1. readbuf \in Seq(Requests \X {1, 2}) /\ Len(readbuf) \in Nat /\ (readbuf = <<>> <=> Len(readbuf) = 0)
  BY Buffers
<1>2. Skipped \in 0..Len(readbuf) /\ Skipped \in {0, 1}
  BY <1>1 DEF Skipped
<1>3. CASE readbuf # <<>> /\ readbuf[1][2] = 2
  <2>1. Unskipped = SubSeq(readbuf, 2, Len(readbuf)) /\ Skipped = 1
    <3>1. Head(readbuf) = readbuf[1]
      BY <1>1
    <3>2. Tail(readbuf) = SubSeq(readbuf, 2, Len(readbuf))
      BY <1>1, <1>3, TailIsSubSeq
    <3> QED BY <1>3, <3>1, <3>2 DEF Unskipped, Skipped
  <2>2. Unskipped = SubSeq(readbuf, Skipped + 1, Len(readbuf))
    BY <2>1
  <2> QED BY <1>1, <1>2, <2>2, Parted
<1>4. CASE ~ (readbuf # <<>> /\ readbuf[1][2] = 2)
  <2>1. Unskipped = readbuf /\ Skipped = 0
    <3>1. Head(readbuf) = readbuf[1]
      BY <1>1
    <3> QED BY <1>4, <3>1 DEF Unskipped, Skipped
  <2>2. SubSeq(readbuf, 1, Len(readbuf)) = readbuf
    BY <1>1, SubSeqFull
  <2>3. Unskipped = SubSeq(readbuf, Skipped + 1, Len(readbuf))
    BY <2>1, <2>2
  <2> QED BY <1>1, <1>2, <2>3, Parted
<1> QED BY <1>3, <1>4

\* What stands first after the skipped half is the first half of a request
\* that has no controller yet.
LEMMA FirstHalf ==
  ASSUME TypeOK, Incoming, Unskipped # <<>>
  PROVE  /\ Skipped + 1 <= Len(readbuf)
         /\ Unskipped[1] = readbuf[Skipped + 1]
         /\ Unskipped[1][1] \in Requests /\ Unskipped[1][2] = 1
         /\ 2 * Unskipped[1][1] - 1 = Taken + Skipped + 1
<1>1. Len(readbuf) \in Nat /\ Skipped \in 0..Len(readbuf) /\ Skipped \in {0, 1}
  BY Buffers, Skip
<1>2. Len(Unskipped) \in Nat /\ Len(Unskipped) # 0
  BY Skip, Members
<1>3. Skipped + 1 <= Len(readbuf) /\ 1 \in 1..Len(readbuf) - Skipped
  BY <1>1, <1>2, Skip
<1>4. Unskipped[1] = readbuf[Skipped + 1]
  BY <1>3, Skip
<1> DEFINE h == readbuf[Skipped + 1]
<1>5. Skipped + 1 \in 1..Len(readbuf) /\ 1 \in 1..Len(readbuf)
  BY <1>1, <1>3
<1>6. h[1] \in Requests /\ h[2] \in {1, 2} /\ readbuf[1][1] \in Requests
  BY <1>5, Buffers
<1>7. 2 * (h[1] - 1) + h[2] = Taken + (Skipped + 1) /\ 2 * (readbuf[1][1] - 1) + readbuf[1][2] = Taken + 1
  BY <1>5 DEF Incoming, Place
<1>8. Skipped = 1 => readbuf[1][2] = 2
  BY DEF Skipped
<1>9. Skipped = 0 => h[2] = 1
  <2> SUFFICES ASSUME Skipped = 0 PROVE h[2] = 1
    OBVIOUS
  <2>1. readbuf # <<>>
    BY <1>1, <1>3, Buffers
  <2>2. readbuf[1][2] # 2
    BY <2>1 DEF Skipped
  <2> QED BY <1>6, <2>2
<1>10. Taken \in Int /\ h[1] \in Nat /\ readbuf[1][1] \in Nat
  BY <1>6, Counters
<1> HIDE DEF h
<1>11. Skipped = 1 => h[2] = 1
  <2> SUFFICES ASSUME Skipped = 1, h[2] = 2 PROVE FALSE
    BY <1>6
  <2>1. \A a, b \in Nat, t \in Int : ~ (2 * (a - 1) + 2 = t + 1 /\ 2 * (b - 1) + 2 = t + 2)
    OBVIOUS
  <2>2. 2 * (readbuf[1][1] - 1) + 2 = Taken + 1
    BY <1>7, <1>8
  <2>3. 2 * (h[1] - 1) + 2 = Taken + 2
    BY <1>7, <1>10
  <2> QED BY <1>10, <2>1, <2>2, <2>3
<1>12. h[2] = 1
  BY <1>1, <1>9, <1>11
<1>13. 2 * h[1] - 1 = Taken + Skipped + 1
  BY <1>1, <1>7, <1>10, <1>12
<1> QED BY <1>3, <1>4, <1>6, <1>12, <1>13 DEF h
-----------------------------------------------------------------------------
(* The kinds of steps that OnRecived takes.                                *)

RecvFrame == UNCHANGED <<peerVars, inbox, netVars, sendsize, flagVars, epollVars, hmask>>

\* The response is queued behind others, written, or does not fit; or an error
\* header is written.
Queued(r) ==
  /\ pending # <<>> /\ pending' = Append(pending, r)
  /\ ctl' = [ctl EXCEPT ![r] = "live"]
  /\ UNCHANGED <<writebuf, closeWhenEmpty, full, undefined>>

Written(r) ==
  /\ pending = <<>> /\ pending' = Append(pending, r)
  /\ ctl' = [ctl EXCEPT ![r] = "live"]
  /\ writebuf' = writebuf \o Response(r, "OK")
  /\ UNCHANGED <<closeWhenEmpty, full, undefined>>

Unfit(r) ==
  /\ pending = <<>> /\ pending' = Append(pending, r)
  /\ ctl' = [ctl EXCEPT ![r] = "deleted"]
  /\ writebuf' = writebuf \o Response(r, "ERR") /\ closeWhenEmpty' = TRUE
  /\ full' = TRUE /\ undefined' = undefined

ErrorSent ==
  /\ UNCHANGED <<pending, full>>
  /\ writebuf' = writebuf \o Response(FrontSeq, "ERR") /\ closeWhenEmpty' = TRUE
  /\ undefined' = (pending # <<>> /\ ctl[FrontSeq] = "deleted")

\* Request r is served and k halves leave readbuf.
Serve(r, k) ==
  /\ hpc = "recv" /\ RecvFrame /\ tasks' = tasks \o <<"ModRW">>
  /\ hpc' = IF readbuf' = <<>> \/ closeWhenEmpty' THEN PhaseAfter(1, hmask) ELSE "recv"
  /\ Dropped(k) /\ k >= 1 /\ Len(readbuf) >= 2
  /\ Taken < 2 * r - 1 /\ 2 * r - 1 <= Taken + k
  /\ readbuf[1][2] = 1 => kind[readbuf[1][1]] # "bad"
  /\ \/ k >= 2 /\ (Queued(r) \/ Written(r) \/ Unfit(r))
     \/ ErrorSent /\ (ctl' = ctl \/ ctl' = [ctl EXCEPT ![r] = "deleted"])

\* A bad header is met.
Spoil ==
  /\ hpc = "recv" /\ RecvFrame /\ tasks' = tasks \o <<"ModRW">>
  /\ hpc' = PhaseAfter(1, hmask)
  /\ Dropped(Skipped) /\ readbuf' # <<>> /\ readbuf'[1][2] = 1 /\ kind[readbuf'[1][1]] = "bad"
  /\ ErrorSent /\ ctl' = ctl

\* More has to be read.
Await ==
  /\ hpc = "recv" /\ RecvFrame /\ hpc' = PhaseAfter(1, hmask)
  /\ Dropped(Skipped) /\ (readbuf' = <<>> \/ Len(readbuf') = 1)
  /\ UNCHANGED <<writebuf, pending, ctl, undefined, full, closeWhenEmpty, tasks>>

LEMMA SpoilKind == TypeOK /\ Incoming /\ RecvBad => Spoil
<1> SUFFICES ASSUME TypeOK, Incoming, RecvBad PROVE Spoil
  OBVIOUS
<1>1. Unskipped # <<>> /\ kind[Unskipped[1][1]] = "bad" /\ readbuf' = Unskipped
  BY DEF RecvBad
<1>2. Unskipped[1][2] = 1
  BY <1>1, FirstHalf
<1>3. Dropped(Skipped)
  BY <1>1, Skip DEF Dropped
<1>4. /\ hpc = "recv" /\ UNCHANGED hmask /\ hpc' = PhaseAfter(1, hmask)
      /\ tasks' = tasks \o <<"ModRW">> /\ ErrorSent /\ ctl' = ctl
  BY DEF RecvBad, OnMessageError, PostTasks, HContinue, HGoto, ErrorSent
<1>5. RecvFrame
  BY <1>4 DEF RecvBad, RecvFrame, connVars
<1> QED BY <1>1, <1>2, <1>3, <1>4, <1>5 DEF Spoil

LEMMA AwaitKind == TypeOK /\ RecvHalf => Await
<1> SUFFICES ASSUME TypeOK, RecvHalf PROVE Await
  OBVIOUS
<1>1. /\ hpc = "recv" /\ UNCHANGED hmask /\ hpc' = PhaseAfter(1, hmask) /\ readbuf' = Unskipped
      /\ Unskipped = <<>> \/ Len(Unskipped) = 1
  BY DEF RecvHalf, HContinue, HGoto
<1>2. Dropped(Skipped)
  BY <1>1, Skip DEF Dropped
<1>3. RecvFrame /\ UNCHANGED <<writebuf, pending, ctl, undefined, full, closeWhenEmpty, tasks>>
  BY <1>1 DEF RecvHalf, RecvFrame, connVars
<1> QED BY <1>1, <1>2, <1>3 DEF Await

\* What rest(m + 1) leaves.
LEMMA RestDropped ==
  ASSUME TypeOK, NEW m \in Nat, m <= Len(Unskipped),
         readbuf' = SubSeq(Unskipped, m + 1, Len(Unskipped))
  PROVE  Dropped(Skipped + m)
<1>1. readbuf \in Seq(Requests \X {1, 2}) /\ Len(readbuf) \in Nat
  BY Buffers
<1>2. /\ Skipped \in 0..Len(readbuf) /\ Len(Unskipped) = Len(readbuf) - Skipped
      /\ Unskipped = SubSeq(readbuf, Skipped + 1, Len(readbuf))
  BY Skip
<1>3. m \in 0..Len(readbuf) - Skipped /\ Skipped + m \in 0..Len(readbuf)
  BY <1>1, <1>2
<1>4. SubSeq(SubSeq(readbuf, Skipped + 1, Len(readbuf)), m + 1, Len(readbuf) - Skipped)
        = SubSeq(readbuf, (Skipped + m) + 1, Len(readbuf))
  BY <1>1, <1>2, <1>3, RestOfRest
<1>5. readbuf' = SubSeq(readbuf, (Skipped + m) + 1, Len(readbuf))
  BY <1>2, <1>4
<1> QED BY <1>3, <1>5 DEF Dropped

LEMMA NothingLeft ==
  ASSUME TypeOK, readbuf' = <<>>
  PROVE  Dropped(Len(readbuf))
<1>1. Len(readbuf) \in Nat /\ Len(readbuf) \in 0..Len(readbuf)
  BY Buffers
<1>2. Len(readbuf) + 1 \in Int /\ Len(readbuf) \in Int /\ Len(readbuf) < Len(readbuf) + 1
  BY <1>1
<1>3. SubSeq(readbuf, Len(readbuf) + 1, Len(readbuf)) = <<>>
  BY <1>2, SubSeqEmpty
<1> QED BY <1>1, <1>3 DEF Dropped

LEMMA ServeKind ==
  ASSUME TypeOK, Incoming, OnMessageRecived
  PROVE  \E r \in Requests, k \in Nat : Serve(r, k)
<1> DEFINE b == Unskipped
           r == b[1][1]
<1>1. /\ hpc = "recv" /\ Len(b) >= 2 /\ kind[r] # "bad"
      /\ hmask' = hmask
      /\ hpc' = IF readbuf' = <<>> \/ closeWhenEmpty' THEN PhaseAfter(1, hmask) ELSE "recv"
      /\ UNCHANGED <<peerVars, inbox, netVars, sendsize, flagVars, epollVars>>
  BY DEF OnMessageRecived, HContinue, HGoto
<1>2. /\ Len(readbuf) \in Nat /\ Skipped \in {0, 1} /\ Skipped <= Len(readbuf)
      /\ Len(b) = Len(readbuf) - Skipped
  BY Skip, Buffers
<1>3. b # <<>>
  BY <1>1, Skip, Members
<1>4. /\ r \in Requests /\ 2 * r - 1 = Taken + Skipped + 1 /\ b[1] = readbuf[Skipped + 1]
  BY <1>3, FirstHalf
<1>5. Taken \in Int /\ r \in Nat
  BY <1>4, Counters
<1>6. readbuf[1][2] = 1 => kind[readbuf[1][1]] # "bad"
  <2> SUFFICES ASSUME readbuf[1][2] = 1 PROVE kind[readbuf[1][1]] # "bad"
    OBVIOUS
  <2>1. Skipped = 0
    BY DEF Skipped
  <2> QED BY <1>1, <1>4, <2>1
<1> DEFINE Rest(m) == readbuf' = SubSeq(b, m + 1, Len(b))
<1>7. \/ /\ Rest(2) \/ readbuf' = <<>>
         /\ SendMessage(r) /\ undefined' = undefined
      \/ /\ Rest(1) \/ readbuf' = <<>> \/ (Rest(3) /\ Len(b) # 2)
         /\ OnMessageError(FrontSeq) /\ undefined' = (pending # <<>> /\ ctl[FrontSeq] = "deleted")
         /\ ctl' = ctl \/ ctl' = [ctl EXCEPT ![r] = "deleted"]
         /\ UNCHANGED <<pending, full>>
  BY DEF OnMessageRecived
<1> HIDE DEF b, r
<1>8. ASSUME SendMessage(r), undefined' = undefined
      PROVE  (Queued(r) \/ Written(r) \/ Unfit(r)) /\ tasks' = tasks \o <<"ModRW">>
  BY <1>8 DEF SendMessage, OnMessageError, PostTasks, Queued, Written, Unfit
<1>9. ASSUME OnMessageError(FrontSeq), undefined' = (pending # <<>> /\ ctl[FrontSeq] = "deleted"),
             UNCHANGED <<pending, full>>
      PROVE  ErrorSent /\ tasks' = tasks \o <<"ModRW">>
  BY <1>9 DEF OnMessageError, PostTasks, ErrorSent
<1>10. RecvFrame
  BY <1>1 DEF RecvFrame
<1>11. ASSUME NEW k \in Nat, Dropped(k), k >= Skipped + 1, tasks' = tasks \o <<"ModRW">>,
              \/ k >= 2 /\ (Queued(r) \/ Written(r) \/ Unfit(r))
              \/ ErrorSent /\ (ctl' = ctl \/ ctl' = [ctl EXCEPT ![r] = "deleted"])
       PROVE  Serve(r, k)
  <2>1. k >= 1 /\ Len(readbuf) >= 2 /\ Taken < 2 * r - 1 /\ 2 * r - 1 <= Taken + k
    BY <1>1, <1>2, <1>4, <1>5, <1>11
  <2> QED BY <1>1, <1>6, <1>10, <1>11, <2>1 DEF Serve
<1>12. readbuf' = <<>> => Dropped(Len(readbuf)) /\ Len(readbuf) >= Skipped + 2
  BY <1>1, <1>2, NothingLeft
<1>13. ASSUME NEW m \in 1..3, readbuf' = SubSeq(b, m + 1, Len(b)), m <= Len(b)
       PROVE  Dropped(Skipped + m) /\ Skipped + m >= m /\ Skipped + m \in Nat
  BY <1>2, <1>13, RestDropped DEF b
<1>14. Rest(3) /\ Len(b) # 2 => 3 <= Len(b)
  BY <1>1, <1>2
<1>15. CASE /\ Rest(2) \/ readbuf' = <<>>
            /\ SendMessage(r) /\ undefined' = undefined
  <2>1. CASE Rest(2)
    <3>1. Dropped(Skipped + 2) /\ Skipped + 2 \in Nat /\ Skipped + 2 >= Skipped + 1 /\ Skipped + 2 >= 2
      BY <1>1, <1>2, <1>13, <2>1
    <3>2. Serve(r, Skipped + 2)
      BY <1>8, <1>11, <1>15, <3>1
    <3> QED BY <1>4, <3>1, <3>2
  <2>2. CASE readbuf' = <<>>
    <3>1. Dropped(Len(readbuf)) /\ Len(readbuf) >= Skipped + 1 /\ Len(readbuf) >= 2
      BY <1>2, <1>12, <2>2
    <3>2. Serve(r, Len(readbuf))
      BY <1>2, <1>8, <1>11, <1>15, <3>1
    <3> QED BY <1>2, <1>4, <3>2
  <2> QED BY <1>15, <2>1, <2>2
<1>16. CASE /\ Rest(1) \/ readbuf' = <<>> \/ (Rest(3) /\ Len(b) # 2)
            /\ OnMessageError(FrontSeq) /\ undefined' = (pending # <<>> /\ ctl[FrontSeq] = "deleted")
            /\ ctl' = ctl \/ ctl' = [ctl EXCEPT ![r] = "deleted"]
            /\ UNCHANGED <<pending, full>>
  <2>0. /\ ErrorSent /\ (ctl' = ctl \/ ctl' = [ctl EXCEPT ![r] = "deleted"])
        /\ tasks' = tasks \o <<"ModRW">>
    BY <1>9, <1>16
  <2>1. CASE Rest(1)
    <3>1. Dropped(Skipped + 1) /\ Skipped + 1 \in Nat /\ Skipped + 1 >= Skipped + 1
      BY <1>1, <1>2, <1>13, <2>1
    <3>2. Serve(r, Skipped + 1)
      BY <1>11, <2>0, <3>1
    <3> QED BY <1>4, <3>1, <3>2
  <2>2. CASE readbuf' = <<>>
    <3>1. Dropped(Len(readbuf)) /\ Len(readbuf) >= Skipped + 1
      BY <1>2, <1>12, <2>2
    <3>2. Serve(r, Len(readbuf))
      BY <1>2, <1>11, <2>0, <3>1
    <3> QED BY <1>2, <1>4, <3>2
  <2>3. CASE Rest(3) /\ Len(b) # 2
    <3>1. Dropped(Skipped + 3) /\ Skipped + 3 \in Nat /\ Skipped + 3 >= Skipped + 1
      BY <1>2, <1>13, <1>14, <2>3
    <3>2. Serve(r, Skipped + 3)
      BY <1>11, <2>0, <3>1
    <3> QED BY <1>4, <3>1, <3>2
  <2> QED BY <1>16, <2>1, <2>2, <2>3
<1> QED BY <1>7, <1>15, <1>16 DEF b, r
-----------------------------------------------------------------------------
(* The kinds of steps that OnWriteable takes.                              *)

WriteFrame == UNCHANGED <<sent, kind, begun, piped, inbox, link, readbuf, flagVars, closeWhenEmpty, epollVars>>

NoWrite ==
  /\ hpc = "WRITE" /\ hpc' = "tail" /\ WriteFrame
  /\ UNCHANGED <<received, room, eagain, writebuf, connVars>>
  /\ \/ writebuf = <<>> /\ tasks' = tasks \o <<"ModR">> /\ hmask' = hmask
     \/ writebuf # <<>> /\ link = "rst" /\ tasks' = tasks /\ hmask' = hmask \cup {"CLOSE"}
     \/ writebuf # <<>> /\ ~room /\ tasks' = tasks /\ hmask' = hmask

After(n) == IF n = Len(writebuf) THEN <<"ModR">> ELSE <<>>

\* n halves are written.
Wrote(n) ==
  /\ hpc = "WRITE" /\ hpc' = "tail" /\ hmask' = hmask /\ WriteFrame
  /\ link # "rst" /\ room /\ n \in 1..Len(writebuf)
  /\ room' = (n = Len(writebuf))
  /\ received' = received \o SubSeq(writebuf, 1, n)
  /\ writebuf' = SubSeq(writebuf, n + 1, Len(writebuf))

\* What OnMessageSended does then: nothing, ...
NonePending(n) ==
  /\ pending = <<>> /\ UNCHANGED connVars /\ tasks' = tasks \o (<<"ModR">> \o After(n))

ClosingSoon(n) ==
  /\ pending # <<>> /\ closeWhenEmpty /\ UNCHANGED connVars /\ tasks' = tasks \o After(n)

\* ... or count what was written for the first in pending, ...
Counted(n) ==
  /\ pending # <<>> /\ ~closeWhenEmpty /\ UNCHANGED full
  /\ sendsize' = [sendsize EXCEPT ![Head(pending)] = sendsize[Head(pending)] + n]
  /\ undefined' = (ctl[Head(pending)] = "deleted")

\* ... and go on to the next if that is finished.
Finished(n) ==
  /\ Counted(n) /\ AllSent(Head(pending), sendsize[Head(pending)] + n)
  /\ ctl' = [ctl EXCEPT ![Head(pending)] = "deleted"]
  /\ pending' = Tail(pending) \o (IF Len(pending) > 1 THEN <<pending[2]>> ELSE <<>>)
  /\ tasks' = tasks \o ((IF Len(pending) > 1 THEN <<"ModRW">> ELSE <<"ModR">>) \o After(n))

Partly(n) ==
  /\ Counted(n) /\ ~AllSent(Head(pending), sendsize[Head(pending)] + n)
  /\ UNCHANGED <<pending, ctl>>
  /\ tasks' = tasks \o After(n)

LEMMA WriteKinds ==
  ASSUME hmask \in SUBSET Bits, OnWriteable
  PROVE  \/ NoWrite
         \/ \E n \in 1..Len(writebuf) :
               /\ Wrote(n) /\ (NonePending(n) \/ ClosingSoon(n) \/ Finished(n) \/ Partly(n))
               /\ eagain' \in {eagain, eagain + 1} /\ (eagain' = eagain \/ eagain < MaxEagain)
<1>1. PhaseAfter(2, hmask) = "tail"
  BY NextPhase
<1>2. hpc = "WRITE" /\ WriteFrame
  BY DEF OnWriteable, WriteFrame
<1>3. CASE writebuf = <<>>
  <2>1. /\ PostTasks(<<"ModR">>) /\ HContinue(2)
        /\ UNCHANGED <<received, room, eagain, writebuf, connVars>>
    BY <1>3 DEF OnWriteable
  <2> QED BY <1>1, <1>2, <1>3, <2>1 DEF NoWrite, PostTasks, HContinue, HGoto
<1>4. CASE writebuf # <<>> /\ link = "rst"
  <2>1. /\ hmask' = hmask \cup {"CLOSE"} /\ hpc' = PhaseAfter(2, hmask)
        /\ UNCHANGED <<received, room, eagain, writebuf, connVars, tasks>>
    BY <1>4 DEF OnWriteable
  <2> QED BY <1>1, <1>2, <1>4, <2>1 DEF NoWrite
<1>5. CASE writebuf # <<>> /\ link # "rst" /\ ~room
  <2>1. HContinue(2) /\ UNCHANGED <<received, room, eagain, writebuf, connVars, tasks>>
    BY <1>5 DEF OnWriteable
  <2> QED BY <1>1, <1>2, <1>5, <2>1 DEF NoWrite, HContinue, HGoto
<1>6. CASE writebuf # <<>> /\ link # "rst" /\ room
  <2>0. HContinue(2)
    BY <1>6 DEF OnWriteable
  <2>1. PICK n \in 1..Len(writebuf) :
              /\ n < Len(writebuf) => eagain < MaxEagain
              /\ room' = (n = Len(writebuf))
              /\ eagain' = IF n < Len(writebuf) THEN eagain + 1 ELSE eagain
              /\ received' = received \o SubSeq(writebuf, 1, n)
              /\ writebuf' = Unsent(n)
              /\ OnMessageSended(n, After(n))
    BY <1>6 DEF OnWriteable, After
  <2>2. Wrote(n)
    BY <1>1, <1>2, <1>6, <2>0, <2>1 DEF Wrote, Unsent, HContinue, HGoto
  <2>3. eagain' \in {eagain, eagain + 1} /\ (eagain' = eagain \/ eagain < MaxEagain)
    BY <2>1
  <2>4. NonePending(n) \/ ClosingSoon(n) \/ Finished(n) \/ Partly(n)
    <3>1. CASE pending = <<>>
      BY <2>1, <3>1 DEF OnMessageSended, PostTasks, NonePending
    <3>2. CASE pending # <<>> /\ closeWhenEmpty
      BY <2>1, <3>2 DEF OnMessageSended, PostTasks, ClosingSoon
    <3>3. CASE pending # <<>> /\ ~closeWhenEmpty
      <4>1. CASE AllSent(Head(pending), sendsize[Head(pending)] + n)
        BY <2>1, <3>3, <4>1 DEF OnMessageSended, PostTasks, PendingRest, Finished, Counted
      <4>2. CASE ~AllSent(Head(pending), sendsize[Head(pending)] + n)
        BY <2>1, <3>3, <4>2 DEF OnMessageSended, PostTasks, Partly, Counted
      <4> QED BY <4>1, <4>2
    <3> QED BY <3>1, <3>2, <3>3
  <2> QED BY <2>2, <2>3, <2>4
<1> QED BY <1>3, <1>4, <1>5, <1>6
-----------------------------------------------------------------------------
(* Types, and what is unread.                                              *)

Halves == Requests \X {1, 2}
Answers == (0..N) \X {"OK", "ERR"} \X {1, 2}
TaskNames == {"AddR", "ModR", "ModRW", "Del"}

\* TypeOK without sets of variables.
Types ==
  /\ sent \in 0..N /\ kind \in [Requests -> Kinds \cup {"none"}]
  /\ inbox \in Seq(Halves) /\ readbuf \in Seq(Halves)
  /\ received \in Seq(Answers) /\ writebuf \in Seq(Answers)
  /\ link \in {"up", "fin", "rst"} /\ eagain \in 0..MaxEagain
  /\ pending \in Seq(Requests) /\ sendsize \in [Requests -> Nat]
  /\ ctl \in [Requests -> {"none", "live", "deleted"}]
  /\ begun \in BOOLEAN /\ piped \in BOOLEAN /\ full \in BOOLEAN /\ undefined \in BOOLEAN
  /\ room \in BOOLEAN /\ armed \in BOOLEAN /\ isConnected \in BOOLEAN /\ isClosed \in BOOLEAN
  /\ closeWhenEmpty \in BOOLEAN
  /\ tasks \in Seq(TaskNames) /\ moved \in 0..Len(tasks) /\ interest \in {"none", "R", "RW"}
  /\ raised \in SUBSET Bits /\ hmask \in SUBSET Bits

LEMMA Typed == (TypeOK <=> Types) /\ (TypeOK <=> Types)'
<1>1. \A S, x, y : {x, y} \subseteq S <=> x \in S /\ y \in S
  OBVIOUS
<1>2. \A a, b, c, d, e, f, g, h, i, B : {a, b, c, d, e, f, g, h, i} \subseteq B <=>
        /\ a \in B /\ b \in B /\ c \in B /\ d \in B /\ e \in B /\ f \in B /\ g \in B /\ h \in B /\ i \in B
  OBVIOUS
<1>3. \A S, x, y : x \cup y \subseteq S <=> x \in SUBSET S /\ y \in SUBSET S
  OBVIOUS
<1>4. TypeOK <=> Types
  BY <1>1, <1>2, <1>3, Zenon DEF TypeOK, Types, Halves, Answers, TaskNames, Bits
<1>5. (TypeOK <=> Types)'
  BY <1>1, <1>2, <1>3, Zenon DEF TypeOK, Types, Halves, Answers, TaskNames, Bits
<1> QED BY <1>4, <1>5

\* What running a task does.
LEMMA Runs ==
  ASSUME Types, ProcessPendingTask
  PROVE  /\ tasks # <<>> /\ Len(tasks) >= 1 /\ tasks[1] \in TaskNames
         /\ tasks' \in Seq(TaskNames) /\ Len(tasks') = Len(tasks) - 1 /\ moved' \in 0..Len(tasks')
         /\ \A i \in 1..Len(tasks) - 1 : tasks'[i] = tasks[i + 1]
         /\ tasks[1] = "AddR" => interest' = "R" /\ armed' = TRUE
         /\ tasks[1] = "Del" => interest' = "none" /\ armed' = FALSE
         /\ tasks[1] = "ModR" => IF interest = "RW" THEN interest' = "R" /\ armed' = TRUE
                                 ELSE interest' = interest /\ armed' = armed
         /\ tasks[1] = "ModRW" => IF interest = "R" THEN interest' = "RW" /\ armed' = TRUE
                                  ELSE interest' = interest /\ armed' = armed
<1>1. tasks \in Seq(TaskNames) /\ moved \in 0..Len(tasks) /\ interest \in {"none", "R", "RW"}
  BY DEF Types
<1>2. tasks # <<>> /\ tasks' = Tail(tasks) /\ moved' = InTmp(tasks, moved) - 1
  BY DEF ProcessPendingTask
<1>3. Len(tasks) \in Nat /\ Len(tasks) >= 1 /\ tasks[1] \in TaskNames
  <2>1. Len(tasks) \in Nat /\ Len(tasks) # 0 /\ \A i \in 1..Len(tasks) : tasks[i] \in TaskNames
    BY <1>1, <1>2, Members
  <2>2. 1 \in 1..Len(tasks)
    BY <2>1
  <2> QED BY <2>1, <2>2
<1>4. Tail(tasks) = SubSeq(tasks, 2, Len(tasks))
  BY <1>1, <1>2, TailIsSubSeq
<1>5. /\ tasks' \in Seq(TaskNames) /\ Len(tasks') = Len(tasks) - 1
      /\ \A i \in 1..Len(tasks) - 1 : tasks'[i] = tasks[i + 1]
  <2>1. 1 \in 0..Len(tasks)
    BY <1>3
  <2>2. tasks' = SubSeq(tasks, 1 + 1, Len(tasks))
    BY <1>2, <1>4
  <2>3. /\ tasks' \in Seq(TaskNames) /\ Len(tasks') = Len(tasks) - 1
        /\ \A i \in 1..Len(tasks) - 1 : tasks'[i] = tasks[1 + i]
    BY <1>1, <2>1, <2>2, Parted
  <2>4. \A i \in 1..Len(tasks) - 1 : 1 + i = i + 1
    BY <1>3
  <2> QED BY <2>3, <2>4
<1>6. moved' \in 0..Len(tasks')
  BY <1>1, <1>2, <1>3, <1>5 DEF InTmp
<1> DEFINE p == [interest |-> interest, armed |-> armed, rtimer |-> FALSE, wtimer |-> FALSE]
<1>7. interest' = Execute(p, tasks[1]).interest /\ armed' = Execute(p, tasks[1]).armed
  <2>1. Head(tasks) = tasks[1]
    BY <1>2
  <2> QED BY <2>1 DEF ProcessPendingTask
<1>8. p.interest = interest /\ p.armed = armed
  OBVIOUS
<1>9. /\ tasks[1] = "AddR" => interest' = "R" /\ armed' = TRUE
      /\ tasks[1] = "Del" => interest' = "none" /\ armed' = FALSE
  BY <1>7 DEF Execute
<1>10. ASSUME tasks[1] = "ModR"
       PROVE  IF interest = "RW" THEN interest' = "R" /\ armed' = TRUE
              ELSE interest' = interest /\ armed' = armed
  BY <1>1, <1>7, <1>10 DEF Execute, ModEvent
<1>11. ASSUME tasks[1] = "ModRW"
       PROVE  IF interest = "R" THEN interest' = "RW" /\ armed' = TRUE
              ELSE interest' = interest /\ armed' = armed
  BY <1>1, <1>7, <1>11 DEF Execute, ModEvent
<1> QED BY <1>2, <1>3, <1>5, <1>6, <1>9, <1>10, <1>11

LEMMA Posted ==
  ASSUME Types, NEW ts \in Seq(TaskNames), tasks' = tasks \o ts, moved' = moved
  PROVE  /\ tasks' \in Seq(TaskNames) /\ moved' \in 0..Len(tasks') /\ Len(tasks') = Len(tasks) + Len(ts)
         /\ \A i \in 1..Len(tasks) : tasks'[i] = tasks[i]
         /\ \A i \in 1..Len(ts) : tasks'[Len(tasks) + i] = ts[i]
         /\ \A i \in 1..Len(tasks') :
               i \in 1..Len(tasks) \/ (i - Len(tasks) \in 1..Len(ts) /\ tasks'[i] = ts[i - Len(tasks)])
<1>1. tasks \in Seq(TaskNames) /\ moved \in 0..Len(tasks)
  BY DEF Types
<1>2. Len(tasks) \in Nat /\ Len(ts) \in Nat
  BY <1>1, Members
<1>3. /\ tasks' \in Seq(TaskNames) /\ Len(tasks') = Len(tasks) + Len(ts)
      /\ \A i \in 1..Len(tasks) : tasks'[i] = tasks[i]
      /\ \A i \in 1..Len(ts) : tasks'[Len(tasks) + i] = ts[i]
      /\ \A i \in 1..Len(tasks') :
            i \in 1..Len(tasks) \/ (i - Len(tasks) \in 1..Len(ts) /\ tasks'[i] = ts[i - Len(tasks)])
  BY <1>1, Joined
<1>4. moved' \in 0..Len(tasks')
  BY <1>1, <1>2, <1>3
<1> QED BY <1>3, <1>4
-----------------------------------------------------------------------------
(* The kinds of steps.                                                     *)

Receives == Await \/ Spoil \/ \E r \in Requests, k \in Nat : Serve(r, k)

Writes(n) ==
  /\ Wrote(n) /\ (NonePending(n) \/ ClosingSoon(n) \/ Finished(n) \/ Partly(n))
  /\ eagain' \in {eagain, eagain + 1} /\ (eagain' = eagain \/ eagain < MaxEagain)

Step ==
  \/ UNCHANGED vars \/ ProcessPendingTask \/ Report
  \/ OnEvent \/ OnReadable \/ Receives
  \/ NoWrite \/ (\E n \in 1..Len(writebuf) : Writes(n))
  \/ OnEventTail \/ OnClose
  \/ (\E k \in Kinds : PeerBegins(k)) \/ PeerFinishes
  \/ Drain \/ (\E how \in {"fin", "rst"} : PeerEnds(how))

LEMMA StepKinds ==
  ASSUME TypeOK, Incoming, [Next]_vars
  PROVE  Step
<1>1. CASE UNCHANGED vars
  BY <1>1 DEF Step
<1>2. CASE RecvHalf
  BY <1>2, AwaitKind DEF Step, Receives
<1>3. CASE RecvBad
  BY <1>3, SpoilKind DEF Step, Receives
<1>4. CASE OnMessageRecived
  BY <1>4, ServeKind DEF Step, Receives
<1>5. CASE OnWriteable
  <2>1. hmask \in SUBSET Bits
    BY Typed DEF Types
  <2> QED BY <1>5, <2>1, WriteKinds DEF Step, Writes
<1>6. CASE ProcessPendingTask \/ Report \/ OnEvent \/ OnReadable \/ OnEventTail \/ OnClose
  BY <1>6 DEF Step
<1>7. CASE PeerStep
  BY <1>7 DEF Step, PeerStep
<1> QED BY <1>1, <1>2, <1>3, <1>4, <1>5, <1>6, <1>7 DEF Next, HandlerStep

\* A response and the Seq of an error header.
LEMMA TypesOfResponse ==
  ASSUME NEW seq \in 0..N, NEW st \in {"OK", "ERR"}
  PROVE  /\ Response(seq, st) \in Seq(Answers) /\ Len(Response(seq, st)) = 2
         /\ Response(seq, st)[1] = <<seq, st, 1>> /\ Response(seq, st)[2] = <<seq, st, 2>>
<1>1. <<seq, st, 1>> \in Answers /\ <<seq, st, 2>> \in Answers
  BY DEF Answers
<1> QED BY <1>1 DEF Response

LEMMA FrontType ==
  ASSUME Types
  PROVE  /\ N \in Nat /\ Requests \subseteq 0..N /\ FrontSeq \in 0..N
         /\ pending # <<>> => FrontSeq = pending[1] /\ pending[1] \in Requests /\ Len(pending) >= 1
<1>1. N \in Nat /\ Requests \subseteq 0..N /\ 0 \in 0..N
  BY ServerAssumption DEF Requests
<1>2. /\ pending \in Seq(Requests) /\ Len(pending) \in Nat
      /\ \A i \in 1..Len(pending) : pending[i] \in Requests
      /\ pending = <<>> <=> Len(pending) = 0
  BY Members DEF Types
<1>3. CASE pending = <<>>
  BY <1>1, <1>3 DEF FrontSeq
<1>4. CASE pending # <<>>
  <2>1. Len(pending) >= 1 /\ 1 \in 1..Len(pending)
    BY <1>2, <1>4
  <2>2. FrontSeq = pending[1]
    BY <1>4 DEF FrontSeq
  <2> QED BY <1>1, <1>2, <2>1, <2>2
<1> QED BY <1>1, <1>3, <1>4
-----------------------------------------------------------------------------
(* Type correctness.                                                       *)

LEMMA DroppedType ==
  ASSUME Types, NEW k, Dropped(k)
  PROVE  /\ k \in Nat /\ k <= Len(readbuf) /\ readbuf' \in Seq(Halves)
         /\ Len(readbuf') = Len(readbuf) - k /\ Len(readbuf) \in Nat
         /\ \A i \in 1..Len(readbuf) - k : readbuf'[i] = readbuf[k + i]
<1>1. readbuf \in Seq(Halves) /\ Len(readbuf) \in Nat
  BY Members DEF Types
<1>2. k \in 0..Len(readbuf) /\ readbuf' = SubSeq(readbuf, k + 1, Len(readbuf))
  BY DEF Dropped
<1>3. /\ readbuf' \in Seq(Halves) /\ Len(readbuf') = Len(readbuf) - k
      /\ \A i \in 1..Len(readbuf) - k : readbuf'[i] = readbuf[k + i]
  BY <1>1, <1>2, Parted
<1> QED BY <1>1, <1>2, <1>3

LEMMA ReceivesTypes ==
  ASSUME Types, Receives
  PROVE  Types'
<1>1. RecvFrame /\ hmask' = hmask
  BY DEF Receives, Await, Spoil, Serve, RecvFrame
<1>2. readbuf' \in Seq(Halves)
  BY DroppedType DEF Receives, Await, Spoil, Serve
<1>3. <<"ModRW">> \in Seq(TaskNames)
  BY DEF TaskNames
<1>4. tasks' \in Seq(TaskNames) /\ moved' \in 0..Len(tasks')
  <2>1. moved' = moved
    BY <1>1 DEF RecvFrame, epollVars
  <2>2. CASE tasks' = tasks
    BY <2>1, <2>2 DEF Types
  <2>3. CASE tasks' = tasks \o <<"ModRW">>
    BY <1>3, <2>1, <2>3, Posted
  <2> QED BY <2>2, <2>3 DEF Receives, Await, Spoil, Serve
<1>5. ASSUME NEW seq \in 0..N, NEW st \in {"OK", "ERR"}
      PROVE  writebuf \o Response(seq, st) \in Seq(Answers)
  BY TypesOfResponse, Joined DEF Types
<1>6. CASE Await
  BY <1>1, <1>2, <1>4, <1>6 DEF Await, Types, RecvFrame, peerVars, netVars, flagVars, epollVars
<1>7. ASSUME ErrorSent PROVE /\ writebuf' \in Seq(Answers) /\ closeWhenEmpty' \in BOOLEAN
                             /\ undefined' \in BOOLEAN /\ UNCHANGED <<pending, full>>
  BY <1>5, <1>7, FrontType DEF ErrorSent
<1>8. ASSUME NEW r \in Requests, ctl' = ctl \/ \E s \in {"live", "deleted"} : ctl' = [ctl EXCEPT ![r] = s]
      PROVE  ctl' \in [Requests -> {"none", "live", "deleted"}]
  BY <1>8 DEF Types
<1>9. CASE Spoil
  <2>1. ErrorSent /\ ctl' = ctl
    BY <1>9 DEF Spoil
  <2> QED BY <1>1, <1>2, <1>4, <1>7, <2>1 DEF Types, RecvFrame, peerVars, netVars, flagVars, epollVars
<1>10. ASSUME NEW r \in Requests, NEW k \in Nat, Serve(r, k) PROVE Types'
  <2>1. ctl' \in [Requests -> {"none", "live", "deleted"}]
    BY <1>8, <1>10 DEF Serve, Queued, Written, Unfit
  <2>2. /\ writebuf' \in Seq(Answers) /\ closeWhenEmpty' \in BOOLEAN /\ undefined' \in BOOLEAN
        /\ full' \in BOOLEAN /\ pending' \in Seq(Requests)
    <3>1. r \in 0..N /\ Append(pending, r) \in Seq(Requests)
      <4>1. pending \in Seq(Requests)
        BY DEF Types
      <4> QED BY <4>1, FrontType
    <3>2. CASE Queued(r)
      BY <3>1, <3>2 DEF Queued, Types
    <3>3. CASE Written(r)
      BY <1>5, <3>1, <3>3 DEF Written, Types
    <3>4. CASE Unfit(r)
      BY <1>5, <3>1, <3>4 DEF Unfit, Types
    <3>5. CASE ErrorSent
      BY <1>7, <3>5 DEF Types
    <3> QED BY <1>10, <3>2, <3>3, <3>4, <3>5 DEF Serve
  <2> QED BY <1>1, <1>2, <1>4, <2>1, <2>2 DEF Types, RecvFrame, peerVars, netVars, flagVars, epollVars
<1> QED BY <1>6, <1>9, <1>10 DEF Receives

\* What is pending, and its first controller.
LEMMA PendingType ==
  ASSUME Types
  PROVE  /\ pending \in Seq(Requests) /\ Len(pending) \in Nat
         /\ \A i \in 1..Len(pending) : pending[i] \in Requests
         /\ pending = <<>> <=> Len(pending) = 0
         /\ pending # <<>> => Head(pending) = pending[1] /\ pending[1] \in Requests /\ Len(pending) >= 1
<1>1. /\ pending \in Seq(Requests) /\ Len(pending) \in Nat
      /\ \A i \in 1..Len(pending) : pending[i] \in Requests
      /\ pending = <<>> <=> Len(pending) = 0
  BY Members DEF Types
<1> QED BY <1>1

\* What Finished leaves pending: the second once more, and the rest.
LEMMA PendingAfter ==
  ASSUME Types, NEW n, Finished(n)
  PROVE  /\ pending' \in Seq(Requests)
         /\ Len(pending) = 1 => pending' = <<>>
         /\ Len(pending) > 1 => /\ Len(pending') = Len(pending)
                                /\ \A i \in 1..Len(pending) - 1 : pending'[i] = pending[i + 1]
                                /\ pending'[Len(pending)] = pending[2]
<1>1. /\ pending \in Seq(Requests) /\ Len(pending) \in Nat /\ Len(pending) >= 1 /\ pending # <<>>
      /\ \A i \in 1..Len(pending) : pending[i] \in Requests
  BY PendingType DEF Finished, Counted
<1> DEFINE t == Tail(pending)
<1>2. /\ t \in Seq(Requests) /\ Len(t) = Len(pending) - 1 /\ \A i \in 1..Len(pending) - 1 : t[i] = pending[1 + i]
  <2>1. Tail(pending) = SubSeq(pending, 1 + 1, Len(pending))
    BY <1>1, TailIsSubSeq
  <2>2. 1 \in 0..Len(pending)
    BY <1>1
  <2> QED BY <1>1, <2>1, <2>2, Parted
<1> HIDE DEF t
<1>3. CASE Len(pending) = 1
  <2>1. pending' = t \o <<>>
    BY <1>3 DEF Finished, t
  <2>2. t = <<>>
    BY <1>2, <1>3, Members
  <2>3. pending' = <<>>
    BY <2>1, <2>2
  <2>4. pending' \in Seq(Requests)
    BY <2>3
  <2> QED BY <1>3, <2>3, <2>4
<1>4. CASE Len(pending) > 1
  <2>1. pending' = t \o <<pending[2]>>
    BY <1>4 DEF Finished, t
  <2>2. <<pending[2]>> \in Seq(Requests) /\ Len(<<pending[2]>>) = 1 /\ <<pending[2]>>[1] = pending[2]
    <3>1. 2 \in 1..Len(pending)
      BY <1>1, <1>4
    <3>2. pending[2] \in Requests
      BY <1>1, <3>1
    <3> QED BY <3>2
  <2>3. /\ pending' \in Seq(Requests) /\ Len(pending') = Len(t) + 1
        /\ \A i \in 1..Len(t) : pending'[i] = t[i]
        /\ pending'[Len(t) + 1] = pending[2]
    <3>1. 1 \in 1..Len(<<pending[2]>>)
      BY <2>2
    <3> QED BY <1>2, <2>1, <2>2, <3>1, Joined
  <2>4. Len(t) + 1 = Len(pending) /\ \A i \in 1..Len(pending) - 1 : 1 + i = i + 1
    BY <1>1, <1>2
  <2>5. ~ (Len(pending) = 1)
    BY <1>1, <1>4
  <2> QED BY <1>2, <1>4, <2>3, <2>4, <2>5
<1>5. Len(pending) = 1 \/ Len(pending) > 1
  <2>1. \A l \in Nat : l >= 1 => l = 1 \/ l > 1
    OBVIOUS
  <2> QED BY <1>1, <2>1, Zenon
<1> QED BY <1>3, <1>4, <1>5

\* The halves that are written move from writebuf to the peer.
LEMMA WroteType ==
  ASSUME Types, NEW n, Wrote(n)
  PROVE  /\ n \in Nat /\ n >= 1 /\ n <= Len(writebuf)
         /\ received \in Seq(Answers) /\ writebuf \in Seq(Answers)
         /\ Len(writebuf) \in Nat /\ Len(received) \in Nat
         /\ received' \in Seq(Answers) /\ writebuf' \in Seq(Answers)
         /\ Len(writebuf') = Len(writebuf) - n /\ Len(received') = Len(received) + n
         /\ \A i \in 1..Len(received) : received'[i] = received[i]
         /\ \A i \in 1..n : received'[Len(received) + i] = writebuf[i]
         /\ \A i \in 1..Len(writebuf) - n : writebuf'[i] = writebuf[n + i]
<1>1. /\ received \in Seq(Answers) /\ writebuf \in Seq(Answers)
      /\ Len(writebuf) \in Nat /\ Len(received) \in Nat
  BY Members DEF Types
<1>2. n \in Nat /\ n >= 1 /\ n <= Len(writebuf) /\ n \in 0..Len(writebuf)
  BY <1>1 DEF Wrote
<1> DEFINE a == SubSeq(writebuf, 1, n)
<1>3. /\ a \in Seq(Answers) /\ Len(a) = n /\ \A i \in 1..n : a[i] = writebuf[i]
      /\ writebuf' \in Seq(Answers) /\ Len(writebuf') = Len(writebuf) - n
      /\ \A i \in 1..Len(writebuf) - n : writebuf'[i] = writebuf[n + i]
  <2>1. writebuf' = SubSeq(writebuf, n + 1, Len(writebuf))
    BY DEF Wrote
  <2> QED BY <1>1, <1>2, <2>1, Parted
<1> HIDE DEF a
<1>4. /\ received' \in Seq(Answers) /\ Len(received') = Len(received) + Len(a)
      /\ \A i \in 1..Len(received) : received'[i] = received[i]
      /\ \A i \in 1..Len(a) : received'[Len(received) + i] = a[i]
  <2>1. received' = received \o a
    BY DEF Wrote, a
  <2>2. received \in Seq(Answers) /\ a \in Seq(Answers)
    BY <1>1, <1>3
  <2>3. /\ received \o a \in Seq(Answers) /\ Len(received \o a) = Len(received) + Len(a)
        /\ \A i \in 1..Len(received) : (received \o a)[i] = received[i]
        /\ \A i \in 1..Len(a) : (received \o a)[Len(received) + i] = a[i]
    BY <2>2, Joined
  <2> QED BY <2>1, <2>3, Zenon
<1> QED BY <1>1, <1>2, <1>3, <1>4

\* What a write posts: at most two changes of the interest, the last of them
\* to give up writing if everything is written.
GivesUp(ts, n) ==
  /\ ts \in Seq(TaskNames) /\ Len(ts) \in 0..2
  /\ \A i \in 1..Len(ts) : ts[i] \in {"ModR", "ModRW"}
  /\ n = Len(writebuf) => Len(ts) >= 1 /\ ts[Len(ts)] = "ModR"
  /\ n # Len(writebuf) /\ Partly(n) => ts = <<>>

LEMMA WritesPost ==
  ASSUME Types, NEW n \in 1..Len(writebuf), Writes(n)
  PROVE  \E ts : GivesUp(ts, n) /\ tasks' = tasks \o ts
<1> DEFINE u == After(n)
<1>1. /\ u \in Seq(TaskNames)
      /\ n = Len(writebuf) => Len(u) = 1 /\ u[1] = "ModR"
      /\ n # Len(writebuf) => Len(u) = 0 /\ u = <<>>
  <2>1. <<"ModR">> \in Seq(TaskNames) /\ Len(<<"ModR">>) = 1 /\ <<"ModR">>[1] = "ModR"
    BY DEF TaskNames
  <2>2. <<>> \in Seq(TaskNames) /\ Len(<<>>) = 0
    OBVIOUS
  <2>3. u = IF n = Len(writebuf) THEN <<"ModR">> ELSE <<>>
    BY DEF After
  <2> QED BY <2>1, <2>2, <2>3
<1> HIDE DEF u
<1>2. \A i \in 1..Len(u) : i = 1 /\ u[1] = "ModR"
  <2>1. CASE n = Len(writebuf)
    <3>1. \A i \in 1..1 : i = 1
      OBVIOUS
    <3> QED BY <1>1, <2>1, <3>1
  <2>2. CASE n # Len(writebuf)
    <3>1. \A i \in 1..0 : FALSE
      OBVIOUS
    <3> QED BY <1>1, <2>2, <3>1
  <2> QED BY <2>1, <2>2
<1>3. Len(u) \in 0..1
  BY <1>1
<1>4. GivesUp(u, n)
  <2>1. /\ n = Len(writebuf) => Len(u) >= 1 /\ u[Len(u)] = "ModR"
        /\ n # Len(writebuf) /\ Partly(n) => u = <<>>
    BY <1>1
  <2>2. Len(u) \in 0..2 /\ \A i \in 1..Len(u) : u[i] \in {"ModR", "ModRW"}
    BY <1>2, <1>3
  <2> QED BY <1>1, <2>1, <2>2 DEF GivesUp
<1>5. ASSUME NEW t \in {"ModR", "ModRW"}, ~Partly(n) PROVE GivesUp(<<t>> \o u, n)
  <2>1. <<t>> \in Seq(TaskNames) /\ Len(<<t>>) = 1 /\ <<t>>[1] = t
    BY DEF TaskNames
  <2>2. /\ <<t>> \o u \in Seq(TaskNames) /\ Len(<<t>> \o u) = 1 + Len(u)
        /\ \A i \in 1..1 : (<<t>> \o u)[i] = <<t>>[i]
        /\ \A i \in 1..Len(u) : (<<t>> \o u)[1 + i] = u[i]
    BY <1>1, <2>1, Joined
  <2> DEFINE v == <<t>> \o u
  <2>3. v \in Seq(TaskNames) /\ Len(v) = 1 + Len(u) /\ v[1] = t /\ \A i \in 1..Len(u) : v[1 + i] = u[i]
    <3>1. 1 \in 1..1
      OBVIOUS
    <3> QED BY <2>1, <2>2, <3>1
  <2> HIDE DEF v
  <2>4. ASSUME n = Len(writebuf) PROVE GivesUp(v, n)
    <3>1. Len(v) = 2 /\ v[1] = t /\ v[2] = "ModR"
      <4>1. Len(u) = 1 /\ 1 \in 1..1 /\ 1 + 1 = 2
        BY <1>1, <2>4
      <4>2. Len(v) = 2
        BY <2>3, <4>1
      <4>3. v[2] = "ModR"
        BY <1>2, <2>3, <4>1
      <4> QED BY <2>3, <4>2, <4>3
    <3>2. \A i \in 1..2 : i = 1 \/ i = 2
      OBVIOUS
    <3>3. \A i \in 1..Len(v) : v[i] \in {"ModR", "ModRW"}
      BY <3>1, <3>2
    <3>4. Len(v) \in 0..2 /\ Len(v) >= 1
      BY <3>1
    <3>5. v[Len(v)] = "ModR"
      BY <3>1
    <3> QED BY <1>5, <2>3, <2>4, <3>3, <3>4, <3>5, Zenon DEF GivesUp
  <2>5. ASSUME n # Len(writebuf) PROVE GivesUp(v, n)
    <3>1. Len(v) = 1 /\ v[1] = t
      BY <1>1, <2>3, <2>5
    <3>2. \A i \in 1..Len(v) : v[i] \in {"ModR", "ModRW"}
      BY <3>1
    <3>3. Len(v) \in 0..2
      BY <3>1
    <3> QED BY <1>5, <2>3, <2>5, <3>2, <3>3, Zenon DEF GivesUp
  <2> QED BY <2>4, <2>5 DEF v
<1>6. CASE NonePending(n)
  <2>1. tasks' = tasks \o (<<"ModR">> \o u) /\ ~Partly(n)
    BY <1>6 DEF NonePending, Partly, Counted, u
  <2> QED BY <1>5, <2>1
<1>7. CASE ClosingSoon(n) \/ Partly(n)
  <2>1. tasks' = tasks \o u
    BY <1>7 DEF ClosingSoon, Partly, u
  <2> QED BY <1>4, <2>1
<1>8. CASE Finished(n)
  <2>1. ~Partly(n)
    BY <1>8 DEF Finished, Partly
  <2>2. CASE Len(pending) > 1
    <3>1. tasks' = tasks \o (<<"ModRW">> \o u)
      BY <1>8, <2>2 DEF Finished, u
    <3> QED BY <1>5, <2>1, <3>1
  <2>3. CASE ~(Len(pending) > 1)
    <3>1. tasks' = tasks \o (<<"ModR">> \o u)
      BY <1>8, <2>3 DEF Finished, u
    <3> QED BY <1>5, <2>1, <3>1
  <2> QED BY <2>2, <2>3
<1> QED BY <1>6, <1>7, <1>8 DEF Writes

LEMMA WritesTypes ==
  ASSUME Types, NEW n \in 1..Len(writebuf), Writes(n)
  PROVE  Types'
<1>1. /\ sent' = sent /\ kind' = kind /\ begun' = begun /\ piped' = piped /\ inbox' = inbox /\ link' = link
      /\ readbuf' = readbuf /\ isConnected' = isConnected /\ isClosed' = isClosed
      /\ closeWhenEmpty' = closeWhenEmpty /\ moved' = moved /\ interest' = interest
      /\ armed' = armed /\ raised' = raised /\ hmask' = hmask
  BY DEF Writes, Wrote, WriteFrame, flagVars, epollVars
<1>2. received' \in Seq(Answers) /\ writebuf' \in Seq(Answers) /\ n \in Nat
  BY WroteType DEF Writes
<1>3. tasks' \in Seq(TaskNames) /\ moved' \in 0..Len(tasks')
  <2>1. PICK ts : GivesUp(ts, n) /\ tasks' = tasks \o ts
    BY WritesPost
  <2> QED BY <1>1, <2>1, Posted DEF GivesUp
<1>4. eagain' \in 0..MaxEagain
  <2>1. MaxEagain \in Nat /\ eagain \in 0..MaxEagain
    BY ServerAssumption DEF Types
  <2>2. eagain' \in {eagain, eagain + 1} /\ (eagain' = eagain \/ eagain < MaxEagain)
    BY DEF Writes
  <2> QED BY <2>1, <2>2
<1>5. room' \in BOOLEAN
  BY DEF Writes, Wrote
<1>6. /\ pending' \in Seq(Requests) /\ sendsize' \in [Requests -> Nat] /\ full' \in BOOLEAN
      /\ ctl' \in [Requests -> {"none", "live", "deleted"}] /\ undefined' \in BOOLEAN
  <2>1. CASE NonePending(n) \/ ClosingSoon(n)
    <3>1. UNCHANGED connVars
      BY <2>1 DEF NonePending, ClosingSoon
    <3> QED BY <3>1 DEF Types, connVars
  <2>2. ASSUME Counted(n)
        PROVE  sendsize' \in [Requests -> Nat] /\ full' \in BOOLEAN /\ undefined' \in BOOLEAN
    <3>1. Head(pending) \in Requests
      BY <2>2, PendingType DEF Counted
    <3>2. sendsize[Head(pending)] + n \in Nat
      <4>1. sendsize[Head(pending)] \in Nat
        BY <3>1 DEF Types
      <4> QED BY <1>2, <4>1
    <3> QED BY <2>2, <3>1, <3>2 DEF Counted, Types
  <2>3. CASE Finished(n)
    <3>1. pending # <<>> /\ Counted(n)
      BY <2>3 DEF Finished, Counted
    <3>2. Head(pending) \in Requests
      BY <3>1, PendingType
    <3>3. pending' \in Seq(Requests)
      BY <2>3, PendingAfter
    <3>4. ctl' \in [Requests -> {"none", "live", "deleted"}]
      BY <2>3, <3>2 DEF Finished, Types
    <3> QED BY <2>2, <3>1, <3>3, <3>4
  <2>4. CASE Partly(n)
    <3>1. Counted(n) /\ UNCHANGED <<pending, ctl>>
      BY <2>4 DEF Partly
    <3> QED BY <2>2, <3>1 DEF Types
  <2> QED BY <2>1, <2>3, <2>4 DEF Writes
<1> QED BY <1>1, <1>2, <1>3, <1>4, <1>5, <1>6 DEF Types

LEMMA OnEventTypes ==
  ASSUME Types, OnEvent
  PROVE  Types'
<1>1. raised' = {} /\ hmask' \in SUBSET Bits /\ isConnected' \in BOOLEAN
  <2>1. raised \in SUBSET Bits /\ hmask \in SUBSET Bits /\ {"CLOSE"} \in SUBSET Bits /\ isConnected \in BOOLEAN
    BY DEF Types, Bits
  <2>2. hmask' \in {hmask, {"CLOSE"}, raised} /\ isConnected' \in {isConnected, TRUE} /\ raised' = {}
    BY DEF OnEvent
  <2> QED BY <2>1, <2>2
<1> QED BY <1>1 DEF Types, OnEvent, peerVars, netVars, connVars

LEMMA OnReadableTypes ==
  ASSUME Types, OnReadable
  PROVE  /\ Types'
         /\ Len(readbuf') = Len(readbuf) + Len(inbox) /\ Len(inbox') = 0 /\ inbox' = <<>>
         /\ \A i \in 1..Len(readbuf) : readbuf'[i] = readbuf[i]
         /\ \A i \in 1..Len(inbox) : readbuf'[Len(readbuf) + i] = inbox[i]
         /\ \A i \in 1..Len(readbuf') :
               i \in 1..Len(readbuf) \/ (i - Len(readbuf) \in 1..Len(inbox) /\ readbuf'[i] = inbox[i - Len(readbuf)])
<1>1. readbuf \in Seq(Halves) /\ inbox \in Seq(Halves)
  BY DEF Types
<1>2. inbox' = <<>> /\ readbuf' = readbuf \o inbox
  BY DEF OnReadable
<1>3. /\ readbuf' \in Seq(Halves) /\ Len(readbuf') = Len(readbuf) + Len(inbox)
      /\ \A i \in 1..Len(readbuf) : readbuf'[i] = readbuf[i]
      /\ \A i \in 1..Len(inbox) : readbuf'[Len(readbuf) + i] = inbox[i]
      /\ \A i \in 1..Len(readbuf') :
            i \in 1..Len(readbuf) \/ (i - Len(readbuf) \in 1..Len(inbox) /\ readbuf'[i] = inbox[i - Len(readbuf)])
  BY <1>1, <1>2, Joined
<1>4. inbox' \in Seq(Halves) /\ Len(inbox') = 0
  BY <1>2
<1>5. hmask' \in SUBSET Bits
  <2>1. hmask \in SUBSET Bits /\ hmask \cup {"CLOSE"} \in SUBSET Bits
    BY DEF Types, Bits
  <2> QED BY <2>1 DEF OnReadable, HContinue, HGoto
<1>6. UNCHANGED <<peerVars, netVars, writebuf, connVars, flagVars, closeWhenEmpty, tasks, epollVars>>
  BY DEF OnReadable
<1>7. Types'
  BY <1>3, <1>4, <1>5, <1>6 DEF Types, peerVars, netVars, connVars, flagVars, epollVars
<1> QED BY <1>2, <1>3, <1>4, <1>7

LEMMA OnEventTailTypes ==
  ASSUME Types, OnEventTail
  PROVE  Types'
<1>1. tasks' \in Seq(TaskNames) /\ moved' \in 0..Len(tasks')
  <2>1. moved' = moved
    BY DEF OnEventTail, epollVars
  <2>2. tasks' = tasks \/ tasks' = tasks \o <<"ModRW">>
    BY DEF OnEventTail, PostTasks
  <2>3. <<"ModRW">> \in Seq(TaskNames)
    BY DEF TaskNames
  <2>4. CASE tasks' = tasks
    BY <2>1, <2>4 DEF Types
  <2> QED BY <2>1, <2>2, <2>3, <2>4, Posted
<1>2. hmask' \in SUBSET Bits
  <2>1. hmask' \in {hmask, {}}
    BY DEF OnEventTail, HEnd, HGoto
  <2> QED BY <2>1 DEF Types
<1>3. closeWhenEmpty' \in BOOLEAN
  BY DEF OnEventTail, Types
<1>4. UNCHANGED <<peerVars, inbox, netVars, readbuf, writebuf, connVars, flagVars, epollVars>>
  BY DEF OnEventTail
<1> QED BY <1>1, <1>2, <1>3, <1>4 DEF Types, peerVars, netVars, connVars, flagVars, epollVars

\* Who is released by OnClose.
LEMMA ReleasedIs ==
  ASSUME Types
  PROVE  /\ Released = {pending[i] : i \in 1..Len(pending)}
         /\ IsInjective(pending) <=> \A i, j \in 1..Len(pending) : pending[i] = pending[j] => i = j
<1>1. DOMAIN pending = 1..Len(pending)
  BY PendingType, Members
<1>2. Released = {pending[i] : i \in 1..Len(pending)}
  BY <1>1 DEF Released, ToSet
<1>3. IsInjective(pending) <=> \A i, j \in 1..Len(pending) : pending[i] = pending[j] => i = j
  BY <1>1 DEF IsInjective
<1> QED BY <1>2, <1>3

LEMMA OnCloseTypes ==
  ASSUME Types, OnClose
  PROVE  Types'
<1>1. tasks' \in Seq(TaskNames) /\ moved' \in 0..Len(tasks')
  <2>1. moved' = moved
    BY DEF OnClose, epollVars
  <2>2. tasks' = tasks \o <<"Del">>
    BY DEF OnClose, PostTasks
  <2>3. <<"Del">> \in Seq(TaskNames)
    BY DEF TaskNames
  <2> QED BY <2>1, <2>2, <2>3, Posted
<1>2. /\ hmask' = {} /\ isClosed' = TRUE /\ isConnected' = FALSE /\ pending' = <<>>
      /\ ctl' = [r \in Requests |-> IF r \in Released THEN "deleted" ELSE ctl[r]]
      /\ undefined' = (~IsInjective(pending) \/ \E r \in ToSet(pending) : ctl[r] = "deleted")
  BY DEF OnClose, HEnd
<1>3. ctl' \in [Requests -> {"none", "live", "deleted"}]
  BY <1>2 DEF Types
<1>4. undefined' \in BOOLEAN /\ pending' \in Seq(Requests)
  BY <1>2
<1>5. UNCHANGED <<peerVars, inbox, netVars, readbuf, writebuf, sendsize, full, closeWhenEmpty, epollVars>>
  BY DEF OnClose
<1> QED BY <1>1, <1>2, <1>3, <1>4, <1>5 DEF Types, peerVars, netVars, epollVars

LEMMA ReportTypes ==
  ASSUME Types, Report
  PROVE  Types'
<1>1. raised' \in SUBSET Bits
  <2>1. ReadyMask \in SUBSET Bits
    BY DEF ReadyMask, Bits
  <2> QED BY <2>1 DEF Report, Types
<1> QED BY <1>1 DEF Types, Report, peerVars, netVars, connVars, flagVars, handlerVars

\* Half h of the request that is being sent, behind what is in the socket.
LEMMA Arrives ==
  ASSUME Types, NEW r \in Requests, NEW h \in {1, 2}, inbox' = Append(inbox, <<r, h>>)
  PROVE  /\ inbox' \in Seq(Halves) /\ Len(inbox') = Len(inbox) + 1 /\ Len(inbox) \in Nat
         /\ inbox'[Len(inbox) + 1] = <<r, h>> /\ \A i \in 1..Len(inbox) : inbox'[i] = inbox[i]
         /\ inbox' # <<>>
<1>1. inbox \in Seq(Halves) /\ Len(inbox) \in Nat /\ <<r, h>> \in Halves
  BY Members DEF Types, Halves
<1>2. /\ inbox' \in Seq(Halves) /\ Len(inbox') = Len(inbox) + 1
      /\ inbox'[Len(inbox) + 1] = <<r, h>> /\ \A i \in 1..Len(inbox) : inbox'[i] = inbox[i]
  BY <1>1, AppendProperties
<1>3. inbox' # <<>>
  BY <1>1, <1>2
<1> QED BY <1>1, <1>2, <1>3

LEMMA PeerBeginsTypes ==
  ASSUME Types, NEW k \in Kinds, PeerBegins(k)
  PROVE  Types' /\ sent + 1 \in Requests
<1>1. N \in Nat /\ sent \in Nat /\ sent + 1 \in Requests /\ sent' \in 0..N
  BY ServerAssumption DEF Types, PeerBegins, Requests
<1>2. inbox' \in Seq(Halves)
  BY <1>1, Arrives DEF PeerBegins
<1>3. kind' \in [Requests -> Kinds \cup {"none"}]
  BY <1>1 DEF Types, PeerBegins
<1>4. piped' \in BOOLEAN /\ begun' \in BOOLEAN /\ armed' \in BOOLEAN
  BY DEF PeerBegins, Wake
<1> QED BY <1>1, <1>2, <1>3, <1>4 DEF Types, PeerBegins, netVars, connVars, flagVars, handlerVars

LEMMA PeerFinishesTypes ==
  ASSUME Types, PeerFinishes, sent >= 1
  PROVE  Types' /\ sent \in Requests
<1>1. N \in Nat /\ sent \in Nat /\ sent \in Requests
  BY ServerAssumption DEF Types, Requests
<1>2. inbox' \in Seq(Halves)
  BY <1>1, Arrives DEF PeerFinishes
<1>3. begun' \in BOOLEAN /\ armed' \in BOOLEAN
  BY DEF PeerFinishes, Wake
<1> QED BY <1>1, <1>2, <1>3 DEF Types, PeerFinishes, netVars, connVars, flagVars, handlerVars

LEMMA NoWriteTypes ==
  ASSUME Types, NoWrite
  PROVE  Types'
<1>1. tasks' \in Seq(TaskNames) /\ moved' \in 0..Len(tasks')
  <2>1. moved' = moved
    BY DEF NoWrite, WriteFrame, epollVars
  <2>2. tasks' = tasks \/ tasks' = tasks \o <<"ModR">>
    BY DEF NoWrite
  <2>3. <<"ModR">> \in Seq(TaskNames)
    BY DEF TaskNames
  <2>4. CASE tasks' = tasks
    BY <2>1, <2>4 DEF Types
  <2> QED BY <2>1, <2>2, <2>3, <2>4, Posted
<1>2. hmask' \in SUBSET Bits
  <2>1. hmask' \in {hmask, hmask \cup {"CLOSE"}}
    BY DEF NoWrite
  <2> QED BY <2>1 DEF Types, Bits
<1>3. /\ WriteFrame /\ UNCHANGED <<received, room, eagain, writebuf, connVars>>
  BY DEF NoWrite
<1> QED BY <1>1, <1>2, <1>3 DEF Types, WriteFrame, connVars, flagVars, epollVars

LEMMA StepTypes ==
  ASSUME Types, Incoming, Step
  PROVE  Types'
<1>1. CASE UNCHANGED vars
  BY <1>1 DEF Types, vars, peerVars, netVars, connVars, flagVars, epollVars, handlerVars
<1>2. CASE ProcessPendingTask
  <2>1. tasks' \in Seq(TaskNames) /\ moved' \in 0..Len(tasks')
    BY <1>2, Runs
  <2>2. interest' \in {"none", "R", "RW"} /\ armed' \in BOOLEAN
    <3>1. tasks[1] \in {"AddR", "ModR", "ModRW", "Del"}
      BY <1>2, Runs DEF TaskNames
    <3>2. interest \in {"none", "R", "RW"} /\ armed \in BOOLEAN
      BY DEF Types
    <3> QED BY <1>2, <3>1, <3>2, Runs
  <2> QED BY <1>2, <2>1, <2>2
          DEF Types, ProcessPendingTask, peerVars, netVars, connVars, flagVars, handlerVars
<1>3. CASE Report
  BY <1>3, ReportTypes
<1>4. CASE OnEvent
  BY <1>4, OnEventTypes
<1>5. CASE OnReadable
  BY <1>5, OnReadableTypes
<1>6. CASE Receives
  BY <1>6, ReceivesTypes
<1>7. CASE NoWrite
  BY <1>7, NoWriteTypes
<1>8. CASE \E n \in 1..Len(writebuf) : Writes(n)
  BY <1>8, WritesTypes
<1>9. CASE OnEventTail
  BY <1>9, OnEventTailTypes
<1>10. CASE OnClose
  BY <1>10, OnCloseTypes
<1>11. CASE \E k \in Kinds : PeerBegins(k)
  BY <1>11, PeerBeginsTypes
<1>12. CASE PeerFinishes
  BY <1>12, PeerFinishesTypes DEF Incoming, PeerFinishes
<1>13. CASE Drain
  BY <1>13 DEF Types, Drain, Wake, peerVars, connVars, flagVars, handlerVars
<1>14. CASE \E how \in {"fin", "rst"} : PeerEnds(how)
  BY <1>14 DEF Types, PeerEnds, Wake, peerVars, connVars, flagVars, handlerVars
<1> QED BY <1>1, <1>2, <1>3, <1>4, <1>5, <1>6, <1>7, <1>8, <1>9, <1>10, <1>11, <1>12, <1>13, <1>14 DEF Step
-----------------------------------------------------------------------------
(* What is unread.                                                         *)

ReadFrame == UNCHANGED <<sent, begun, readbuf, inbox>>

LEMMA ReadKinds ==
  ASSUME Step
  PROVE  ReadFrame \/ OnReadable \/ Receives \/ (\E k \in Kinds : PeerBegins(k)) \/ PeerFinishes
<1>1. CASE UNCHANGED vars
  BY <1>1 DEF ReadFrame, vars, peerVars
<1>2. CASE ProcessPendingTask
  BY <1>2 DEF ReadFrame, ProcessPendingTask, peerVars
<1>3. CASE Report
  BY <1>3 DEF ReadFrame, Report, peerVars
<1>4. CASE OnEvent
  BY <1>4 DEF ReadFrame, OnEvent, peerVars
<1>5. CASE NoWrite
  BY <1>5 DEF ReadFrame, NoWrite, WriteFrame
<1>6. CASE \E n \in 1..Len(writebuf) : Writes(n)
  BY <1>6 DEF ReadFrame, Writes, Wrote, WriteFrame
<1>7. CASE OnEventTail
  BY <1>7 DEF ReadFrame, OnEventTail, peerVars
<1>8. CASE OnClose
  BY <1>8 DEF ReadFrame, OnClose, peerVars
<1>9. CASE Drain
  BY <1>9 DEF ReadFrame, Drain, peerVars
<1>10. CASE \E how \in {"fin", "rst"} : PeerEnds(how)
  BY <1>10 DEF ReadFrame, PeerEnds, peerVars
<1> QED BY <1>1, <1>2, <1>3, <1>4, <1>5, <1>6, <1>7, <1>8, <1>9, <1>10 DEF Step

\* What is taken when halves leave readbuf.
LEMMA Takes ==
  ASSUME Types, NEW k, Dropped(k), UNCHANGED <<sent, begun, inbox>>
  PROVE  Taken' = Taken + k /\ k \in Nat /\ Taken \in Int
<1>1. Len(readbuf') = Len(readbuf) - k /\ k \in Nat /\ Len(readbuf) \in Nat
  BY DroppedType
<1>2. Total' = Total /\ Len(inbox') = Len(inbox)
  BY DEF Total
<1>3. Total \in Int /\ Len(inbox) \in Nat /\ Taken \in Int
  BY Typed, Counters, Buffers
<1> QED BY <1>1, <1>2, <1>3 DEF Taken

LEMMA ReceivesDrop ==
  ASSUME Receives
  PROVE  (\E k : Dropped(k)) /\ UNCHANGED <<sent, begun, inbox>>
BY DEF Receives, Await, Spoil, Serve, RecvFrame, peerVars

LEMMA IncomingDropped ==
  ASSUME Types, Incoming, NEW k, Dropped(k), UNCHANGED <<sent, begun, inbox>>
  PROVE  Incoming'
<1>1. Taken' = Taken + k /\ k \in Nat /\ Taken \in Int
  BY Takes
<1>2. /\ Len(readbuf') = Len(readbuf) - k /\ Len(readbuf) \in Nat /\ k <= Len(readbuf)
      /\ \A i \in 1..Len(readbuf) - k : readbuf'[i] = readbuf[k + i]
  BY DroppedType
<1>3. ASSUME NEW i \in 1..Len(readbuf') PROVE Place(readbuf'[i]) = Taken' + i
  <2>1. i \in 1..Len(readbuf) - k /\ k + i \in 1..Len(readbuf)
    BY <1>1, <1>2
  <2>2. readbuf'[i] = readbuf[k + i] /\ Place(readbuf[k + i]) = Taken + (k + i)
    BY <1>2, <2>1 DEF Incoming
  <2> QED BY <1>1, <2>1, <2>2
<1>4. ASSUME NEW i \in 1..Len(inbox') PROVE Place(inbox'[i]) = Taken' + Len(readbuf') + i
  <2>1. i \in 1..Len(inbox) /\ inbox'[i] = inbox[i]
    OBVIOUS
  <2>2. Place(inbox[i]) = Taken + Len(readbuf) + i
    BY <2>1 DEF Incoming
  <2>3. Len(inbox) \in Nat /\ i \in Int
    BY Typed, Buffers, <2>1
  <2> QED BY <1>1, <1>2, <2>1, <2>2, <2>3
<1>5. (begun => sent >= 1)' /\ Taken' >= 0
  BY <1>1 DEF Incoming
<1> QED BY <1>3, <1>4, <1>5 DEF Incoming

LEMMA IncomingRead ==
  ASSUME Types, Incoming, OnReadable
  PROVE  Incoming' /\ Taken' = Taken
<1>1. /\ Len(readbuf') = Len(readbuf) + Len(inbox) /\ Len(inbox') = 0
      /\ \A i \in 1..Len(readbuf) : readbuf'[i] = readbuf[i]
      /\ \A i \in 1..Len(readbuf') :
            i \in 1..Len(readbuf) \/ (i - Len(readbuf) \in 1..Len(inbox) /\ readbuf'[i] = inbox[i - Len(readbuf)])
  BY OnReadableTypes
<1>2. sent' = sent /\ begun' = begun
  BY DEF OnReadable, peerVars
<1>3. Len(readbuf) \in Nat /\ Len(inbox) \in Nat /\ Total \in Int /\ Taken \in Int
  BY Typed, Buffers, Counters
<1>4. Taken' = Taken
  <2>1. Total' = Total
    BY <1>2 DEF Total
  <2> QED BY <1>1, <1>3, <2>1 DEF Taken
<1>5. ASSUME NEW i \in 1..Len(readbuf') PROVE Place(readbuf'[i]) = Taken' + i
  <2>1. CASE i \in 1..Len(readbuf)
    <3>1. readbuf'[i] = readbuf[i]
      BY <1>1, <2>1
    <3>2. Place(readbuf[i]) = Taken + i
      BY <2>1 DEF Incoming
    <3> QED BY <1>4, <3>1, <3>2
  <2>2. CASE i - Len(readbuf) \in 1..Len(inbox) /\ readbuf'[i] = inbox[i - Len(readbuf)]
    <3>1. Place(inbox[i - Len(readbuf)]) = Taken + Len(readbuf) + (i - Len(readbuf))
      BY <2>2 DEF Incoming
    <3>2. Taken + Len(readbuf) + (i - Len(readbuf)) = Taken + i
      BY <1>3
    <3> QED BY <1>4, <2>2, <3>1, <3>2
  <2> QED BY <1>1, <2>1, <2>2
<1>6. ASSUME NEW i \in 1..Len(inbox') PROVE FALSE
  BY <1>1
<1>7. (begun => sent >= 1)' /\ Taken' >= 0
  BY <1>2, <1>4 DEF Incoming
<1> QED BY <1>4, <1>5, <1>6, <1>7 DEF Incoming

\* What the peer sends comes behind.
LEMMA IncomingArrives ==
  ASSUME Types, Incoming, NEW r \in Requests, NEW h \in {1, 2}, inbox' = Append(inbox, <<r, h>>),
         readbuf' = readbuf, Total' = Total + 1, 2 * (r - 1) + h = Total + 1, (begun => sent >= 1)'
  PROVE  Incoming' /\ Taken' = Taken
<1>1. /\ Len(inbox') = Len(inbox) + 1 /\ inbox'[Len(inbox) + 1] = <<r, h>>
      /\ \A i \in 1..Len(inbox) : inbox'[i] = inbox[i]
  BY Arrives
<1>2. Len(readbuf) \in Nat /\ Len(inbox) \in Nat /\ Total \in Int /\ Taken \in Int
  BY Typed, Buffers, Counters
<1>3. Taken' = Taken
  BY <1>1, <1>2 DEF Taken
<1>4. ASSUME NEW i \in 1..Len(inbox') PROVE Place(inbox'[i]) = Taken' + Len(readbuf') + i
  <2>1. CASE i \in 1..Len(inbox)
    <3>1. inbox'[i] = inbox[i]
      BY <1>1, <2>1
    <3>2. Place(inbox[i]) = Taken + Len(readbuf) + i
      BY <2>1 DEF Incoming
    <3> QED BY <1>3, <3>1, <3>2
  <2>2. CASE i = Len(inbox) + 1
    <3>1. Place(inbox'[i]) = Total + 1
      BY <1>1, <2>2 DEF Place
    <3>2. Total + 1 = Taken + Len(readbuf) + i
      BY <1>2, <2>2 DEF Taken
    <3> QED BY <1>3, <3>1, <3>2
  <2> QED BY <1>1, <1>2, <2>1, <2>2
<1>5. \A i \in 1..Len(readbuf') : Place(readbuf'[i]) = Taken' + i
  BY <1>3 DEF Incoming
<1>6. Taken' >= 0
  BY <1>3 DEF Incoming
<1> QED BY <1>3, <1>4, <1>5, <1>6 DEF Incoming

LEMMA StepIncoming ==
  ASSUME Types, Incoming, Step
  PROVE  /\ Incoming' /\ Taken \in Int /\ Taken' \in Int /\ Taken' >= Taken
         /\ ~Receives => Taken' = Taken
<1>0. Taken \in Int
  BY Typed, Counters
<1>1. CASE ReadFrame
  <2>1. Taken' = Taken
    BY <1>1 DEF ReadFrame, Taken, Total
  <2>2. Incoming'
    BY <1>1, <2>1 DEF ReadFrame, Incoming
  <2> QED BY <1>0, <2>1, <2>2
<1>2. CASE OnReadable
  BY <1>0, <1>2, IncomingRead
<1>3. CASE Receives
  <2>1. PICK k : Dropped(k)
    BY <1>3, ReceivesDrop
  <2>2. UNCHANGED <<sent, begun, inbox>>
    BY <1>3, ReceivesDrop
  <2>3. Taken' = Taken + k /\ k \in Nat
    BY <2>1, <2>2, Takes
  <2>4. Incoming'
    BY <2>1, <2>2, IncomingDropped
  <2> QED BY <1>0, <1>3, <2>3, <2>4
<1>4. ASSUME NEW k \in Kinds, PeerBegins(k) PROVE Incoming' /\ Taken' = Taken
  <2>1. /\ sent \in Nat /\ ~begun /\ begun' = TRUE /\ sent' = sent + 1 /\ readbuf' = readbuf
        /\ inbox' = Append(inbox, <<sent + 1, 1>>)
    BY <1>4, Typed, Counters DEF PeerBegins
  <2>2. sent + 1 \in Requests
    BY <1>4, PeerBeginsTypes
  <2>3. Total' = Total + 1 /\ 2 * ((sent + 1) - 1) + 1 = Total + 1 /\ (begun => sent >= 1)'
    BY <2>1 DEF Total
  <2> QED BY <2>1, <2>2, <2>3, IncomingArrives
<1>5. CASE PeerFinishes
  <2>1. /\ sent \in Nat /\ begun /\ begun' = FALSE /\ sent' = sent /\ readbuf' = readbuf
        /\ inbox' = Append(inbox, <<sent, 2>>) /\ sent >= 1
    BY <1>5, Typed, Counters DEF PeerFinishes, Incoming
  <2>2. sent \in Requests
    BY <1>5, <2>1, PeerFinishesTypes
  <2>3. Total' = Total + 1 /\ 2 * (sent - 1) + 2 = Total + 1 /\ (begun => sent >= 1)'
    BY <2>1 DEF Total
  <2>4. Incoming' /\ Taken' = Taken
    BY <2>1, <2>2, <2>3, IncomingArrives
  <2> QED BY <1>0, <2>4
<1> QED BY <1>0, <1>1, <1>2, <1>3, <1>4, <1>5, ReadKinds
-----------------------------------------------------------------------------
(* The controllers.                                                        *)

CtlFrame == UNCHANGED <<pending, ctl, sendsize, undefined, full, isClosed>>

LEMMA CtlKinds ==
  ASSUME Step
  PROVE  CtlFrame \/ Receives \/ (\E n \in 1..Len(writebuf) : Writes(n)) \/ OnClose
<1>1. CASE UNCHANGED vars
  BY <1>1 DEF CtlFrame, vars, connVars, flagVars
<1>2. CASE ProcessPendingTask
  BY <1>2 DEF CtlFrame, ProcessPendingTask, connVars, flagVars
<1>3. CASE Report
  BY <1>3 DEF CtlFrame, Report, connVars, flagVars
<1>4. CASE OnEvent
  BY <1>4 DEF CtlFrame, OnEvent, connVars
<1>5. CASE OnReadable
  BY <1>5 DEF CtlFrame, OnReadable, connVars, flagVars
<1>6. CASE NoWrite
  BY <1>6 DEF CtlFrame, NoWrite, WriteFrame, connVars, flagVars
<1>7. CASE OnEventTail
  BY <1>7 DEF CtlFrame, OnEventTail, connVars, flagVars
<1>8. CASE Drain
  BY <1>8 DEF CtlFrame, Drain, connVars, flagVars
<1>9. CASE \E how \in {"fin", "rst"} : PeerEnds(how)
  BY <1>9 DEF CtlFrame, PeerEnds, connVars, flagVars
<1>10. CASE PeerFinishes
  BY <1>10 DEF CtlFrame, PeerFinishes, connVars, flagVars
<1>11. CASE \E k \in Kinds : PeerBegins(k)
  BY <1>11 DEF CtlFrame, PeerBegins, connVars, flagVars
<1> QED BY <1>1, <1>2, <1>3, <1>4, <1>5, <1>6, <1>7, <1>8, <1>9, <1>10, <1>11 DEF Step

\* A request that is served has no controller yet.
LEMMA Fresh ==
  ASSUME Types, Incoming, Controllers, NEW r \in Requests, NEW k \in Nat, Serve(r, k)
  PROVE  /\ ctl[r] = "none" /\ sendsize[r] = 0 /\ r \in Nat /\ r >= 1
         /\ Taken' = Taken + k /\ 2 * r - 1 <= Taken' /\ Taken < 2 * r - 1
         /\ \A i \in 1..Len(pending) : pending[i] # r
<1>1. Taken' = Taken + k
  <2>1. Dropped(k) /\ UNCHANGED <<sent, begun, inbox>>
    BY DEF Serve, RecvFrame, peerVars
  <2> QED BY <2>1, Takes
<1>2. Taken < 2 * r - 1 /\ 2 * r - 1 <= Taken + k
  BY DEF Serve
<1>3. Taken \in Int /\ r \in Nat /\ r >= 1
  BY Typed, Counters
<1>4. ctl[r] = "none"
  <2>1. ctl[r] # "none" => 2 * r - 1 <= Taken
    BY DEF Controllers
  <2> QED BY <1>2, <1>3, <2>1
<1>5. sendsize[r] = 0 /\ \A i \in 1..Len(pending) : pending[i] # r
  BY <1>4 DEF Controllers
<1> QED BY <1>1, <1>2, <1>3, <1>4, <1>5

\* A request is queued.
LEMMA Queues ==
  ASSUME Types, NEW r \in Requests, pending' = Append(pending, r)
  PROVE  /\ Len(pending') = Len(pending) + 1 /\ Len(pending) \in Nat
         /\ \A i \in 1..Len(pending) : pending'[i] = pending[i]
         /\ pending'[Len(pending) + 1] = r /\ pending' # <<>>
<1>1. pending \in Seq(Requests) /\ Len(pending) \in Nat
  BY PendingType
<1>2. /\ Len(pending') = Len(pending) + 1
      /\ \A i \in 1..Len(pending) : pending'[i] = pending[i]
      /\ pending'[Len(pending) + 1] = r
  BY <1>1, AppendProperties
<1> QED BY <1>1, <1>2

LEMMA ControllersServe ==
  ASSUME Types, Incoming, Controllers, NEW r \in Requests, NEW k \in Nat, Serve(r, k)
  PROVE  Controllers'
<1>1. ctl[r] = "none" /\ Taken' = Taken + k /\ 2 * r - 1 <= Taken'
  BY Fresh
<1>2. sendsize' = sendsize
  BY DEF Serve, RecvFrame
<1>3. ASSUME NEW x \in Requests PROVE 2 * x - 1 <= Taken => 2 * x - 1 <= Taken'
  <2>1. Taken \in Int /\ x \in Nat
    BY Typed, Counters
  <2> QED BY <1>1, <2>1
<1>4. ASSUME NEW s \in {"live", "deleted"}, ctl' = [ctl EXCEPT ![r] = s]
      PROVE  ctl'[r] = s /\ \A x \in Requests : x # r => ctl'[x] = ctl[x]
  BY <1>4 DEF Types
<1>5. CASE Queued(r) \/ Written(r) \/ Unfit(r)
  <2>1. pending' = Append(pending, r)
    BY <1>5 DEF Queued, Written, Unfit
  <2>2. /\ Len(pending') = Len(pending) + 1 /\ Len(pending) \in Nat
        /\ \A i \in 1..Len(pending) : pending'[i] = pending[i] /\ pending[i] \in Requests
        /\ pending'[Len(pending) + 1] = r
    BY <2>1, Queues, PendingType
  <2>3. PICK s \in {"live", "deleted"} : ctl' = [ctl EXCEPT ![r] = s]
    BY <1>5 DEF Queued, Written, Unfit
  <2>4. ctl'[r] = s /\ \A x \in Requests : x # r => ctl'[x] = ctl[x]
    BY <1>4, <2>3
  <2>5. \A x \in Requests : ctl'[x] # "none" => 2 * x - 1 <= Taken'
    BY <1>1, <1>3, <2>4 DEF Controllers
  <2>6. \A i \in 1..Len(pending') : i \in 1..Len(pending) \/ i = Len(pending) + 1
    BY <2>2
  <2>7. ASSUME NEW i \in 1..Len(pending') PROVE ctl'[pending'[i]] # "none"
    <3>1. CASE i \in 1..Len(pending)
      BY <2>2, <2>4, <3>1 DEF Controllers
    <3>2. CASE i = Len(pending) + 1
      BY <2>2, <2>4, <3>2
    <3> QED BY <2>6, <3>1, <3>2
  <2>8. ASSUME NEW x \in Requests, ctl'[x] = "live" PROVE \E i \in 1..Len(pending') : pending'[i] = x
    <3>1. CASE x = r
      <4>1. Len(pending) + 1 \in 1..Len(pending')
        BY <2>2
      <4> QED BY <2>2, <3>1, <4>1
    <3>2. CASE x # r
      <4>1. PICK i \in 1..Len(pending) : pending[i] = x
        BY <2>4, <2>8, <3>2 DEF Controllers
      <4>2. i \in 1..Len(pending')
        BY <2>2
      <4> QED BY <2>2, <4>1, <4>2
    <3> QED BY <3>1, <3>2
  <2>9. \A x \in Requests : ctl'[x] = "none" => sendsize'[x] = 0
    BY <1>2, <2>4 DEF Controllers
  <2> QED BY <2>5, <2>7, <2>8, <2>9 DEF Controllers
<1>6. CASE ErrorSent /\ (ctl' = ctl \/ ctl' = [ctl EXCEPT ![r] = "deleted"])
  <2>1. pending' = pending
    BY <1>6 DEF ErrorSent
  <2>2. \A x \in Requests : ctl'[x] = ctl[x] \/ (x = r /\ ctl'[x] = "deleted")
    BY <1>4, <1>6
  <2>3. \A x \in Requests : ctl'[x] # "none" => 2 * x - 1 <= Taken'
    BY <1>1, <1>3, <2>2 DEF Controllers
  <2>4. \A i \in 1..Len(pending) : ctl'[pending[i]] # "none"
    BY <2>2, PendingType DEF Controllers
  <2>5. \A x \in Requests : ctl'[x] = "live" => \E i \in 1..Len(pending) : pending[i] = x
    BY <2>2 DEF Controllers
  <2>6. \A x \in Requests : ctl'[x] = "none" => sendsize'[x] = 0
    BY <1>2, <2>2 DEF Controllers
  <2> QED BY <2>1, <2>3, <2>4, <2>5, <2>6 DEF Controllers
<1> QED BY <1>5, <1>6 DEF Serve

LEMMA ControllersWrite ==
  ASSUME Types, Controllers, Taken' = Taken, NEW n \in 1..Len(writebuf), Writes(n)
  PROVE  Controllers'
<1>1. CASE NonePending(n) \/ ClosingSoon(n)
  BY <1>1 DEF Controllers, NonePending, ClosingSoon, connVars
<1>2. ASSUME Counted(n)
      PROVE  /\ pending[1] \in Requests /\ Head(pending) = pending[1] /\ Len(pending) >= 1
             /\ \A x \in Requests : x # pending[1] => sendsize'[x] = sendsize[x]
  <2>1. pending[1] \in Requests /\ Head(pending) = pending[1] /\ Len(pending) >= 1
    BY <1>2, PendingType DEF Counted
  <2> QED BY <1>2, <2>1 DEF Counted, Types
<1>3. CASE Partly(n)
  <2>1. Counted(n) /\ pending' = pending /\ ctl' = ctl
    BY <1>3 DEF Partly
  <2>2. ctl[pending[1]] # "none"
    <3>1. 1 \in 1..Len(pending)
      BY <1>2, <2>1, PendingType
    <3> QED BY <3>1 DEF Controllers
  <2>3. \A x \in Requests : ctl[x] = "none" => sendsize'[x] = 0
    BY <1>2, <2>1, <2>2 DEF Controllers
  <2> QED BY <2>1, <2>3 DEF Controllers
<1>4. CASE Finished(n)
  <2>1. /\ Counted(n) /\ ctl' = [ctl EXCEPT ![Head(pending)] = "deleted"] /\ Len(pending) \in Nat
        /\ pending[1] \in Requests /\ Head(pending) = pending[1] /\ Len(pending) >= 1
    BY <1>2, <1>4, PendingType DEF Finished
  <2>2. ctl'[pending[1]] = "deleted" /\ \A x \in Requests : x # pending[1] => ctl'[x] = ctl[x]
    BY <2>1 DEF Types
  <2>3. /\ Len(pending) = 1 => pending' = <<>>
        /\ Len(pending) > 1 => /\ Len(pending') = Len(pending)
                               /\ \A i \in 1..Len(pending) - 1 : pending'[i] = pending[i + 1]
                               /\ pending'[Len(pending)] = pending[2]
    BY <1>4, PendingAfter
  <2>4. ASSUME NEW i \in 1..Len(pending') PROVE \E j \in 1..Len(pending) : pending'[i] = pending[j]
    <3>1. Len(pending) > 1 /\ Len(pending') = Len(pending)
      <4>1. CASE Len(pending) = 1
        <5>1. Len(pending') = 0
          BY <2>3, <4>1
        <5> QED BY <5>1
      <4>2. \A l \in Nat : l >= 1 => l = 1 \/ l > 1
        OBVIOUS
      <4>3. Len(pending) = 1 \/ Len(pending) > 1
        BY <2>1, <4>2, Zenon
      <4> QED BY <2>3, <4>1, <4>3
    <3>2. CASE i = Len(pending)
      <4>1. 2 \in 1..Len(pending)
        BY <2>1, <3>1
      <4> QED BY <2>3, <3>1, <3>2, <4>1
    <3>3. CASE i # Len(pending)
      <4>1. i \in 1..Len(pending) - 1 /\ i + 1 \in 1..Len(pending)
        BY <2>1, <3>1, <3>3
      <4> QED BY <2>3, <3>1, <4>1
    <3> QED BY <3>2, <3>3
  <2>5. \A x \in Requests : ctl'[x] # "none" => 2 * x - 1 <= Taken'
    <3>1. 1 \in 1..Len(pending)
      BY <2>1
    <3>2. ctl[pending[1]] # "none"
      BY <3>1 DEF Controllers
    <3> QED BY <2>2, <3>2 DEF Controllers
  <2>6. ASSUME NEW i \in 1..Len(pending') PROVE ctl'[pending'[i]] # "none"
    <3>1. PICK j \in 1..Len(pending) : pending'[i] = pending[j]
      BY <2>4
    <3>2. ctl[pending[j]] # "none" /\ pending[j] \in Requests
      BY PendingType DEF Controllers
    <3> QED BY <2>2, <3>1, <3>2
  <2>7. ASSUME NEW x \in Requests, ctl'[x] = "live" PROVE \E i \in 1..Len(pending') : pending'[i] = x
    <3>1. x # pending[1] /\ ctl[x] = "live"
      BY <2>2, <2>7
    <3>2. PICK j \in 1..Len(pending) : pending[j] = x
      BY <3>1 DEF Controllers
    <3>3. j # 1 /\ Len(pending) > 1 /\ j - 1 \in 1..Len(pending) - 1 /\ (j - 1) + 1 = j
      BY <2>1, <3>1, <3>2
    <3>4. Len(pending') = Len(pending) /\ pending'[j - 1] = x
      BY <2>3, <3>2, <3>3
    <3>5. j - 1 \in 1..Len(pending')
      BY <2>1, <3>3, <3>4
    <3> QED BY <3>4, <3>5
  <2>8. \A x \in Requests : ctl'[x] = "none" => sendsize'[x] = 0
    BY <1>2, <2>1, <2>2 DEF Controllers
  <2> QED BY <2>5, <2>6, <2>7, <2>8 DEF Controllers
<1> QED BY <1>1, <1>3, <1>4 DEF Writes

LEMMA ControllersClose ==
  ASSUME Types, Controllers, Taken' = Taken, OnClose
  PROVE  Controllers' /\ \A r \in Requests : ctl'[r] # "live"
<1>1. /\ ctl' = [r \in Requests |-> IF r \in Released THEN "deleted" ELSE ctl[r]]
      /\ pending' = <<>> /\ sendsize' = sendsize
  BY DEF OnClose
<1>2. \A r \in Requests : ctl'[r] = IF r \in Released THEN "deleted" ELSE ctl[r]
  BY <1>1
<1>3. Released = {pending[i] : i \in 1..Len(pending)}
  BY ReleasedIs
<1>4. \A r \in Requests : ctl'[r] # "live"
  BY <1>2, <1>3 DEF Controllers
<1>5. \A r \in Requests : ctl'[r] # "none" => 2 * r - 1 <= Taken'
  <2>1. \A r \in Requests : r \in Released => ctl[r] # "none"
    BY <1>3 DEF Controllers
  <2> QED BY <1>2, <2>1 DEF Controllers
<1>6. \A r \in Requests : ctl'[r] = "none" => sendsize'[r] = 0
  BY <1>1, <1>2 DEF Controllers
<1>7. \A i \in 1..Len(pending') : FALSE
  BY <1>1
<1> QED BY <1>4, <1>5, <1>6, <1>7 DEF Controllers

LEMMA StepControllers ==
  ASSUME Types, Incoming, Controllers, NoLeak, isClosed => hpc = "idle", Step
  PROVE  Controllers' /\ NoLeak'
<1>1. Taken \in Int /\ Taken' \in Int /\ Taken' >= Taken /\ (~Receives => Taken' = Taken)
  BY StepIncoming
<1>2. CASE CtlFrame
  <2>1. \A r \in Requests : 2 * r - 1 <= Taken => 2 * r - 1 <= Taken'
    <3>1. \A r \in Requests : r \in Nat
      BY Typed, Counters
    <3> QED BY <1>1, <3>1
  <2>2. pending' = pending /\ ctl' = ctl /\ sendsize' = sendsize /\ isClosed' = isClosed
    BY <1>2 DEF CtlFrame
  <2>3. Controllers'
    BY <2>1, <2>2 DEF Controllers
  <2>4. NoLeak'
    BY <2>2 DEF NoLeak
  <2> QED BY <2>3, <2>4
<1>3. CASE Receives
  <2>1. hpc = "recv" /\ isClosed' = isClosed
    BY <1>3 DEF Receives, Await, Spoil, Serve, RecvFrame, flagVars
  <2>2. NoLeak'
    BY <2>1 DEF NoLeak
  <2>3. CASE Await \/ Spoil
    <3>1. pending' = pending /\ ctl' = ctl /\ sendsize' = sendsize
      BY <2>3 DEF Await, Spoil, RecvFrame, ErrorSent
    <3>2. \A r \in Requests : 2 * r - 1 <= Taken => 2 * r - 1 <= Taken'
      <4>1. \A r \in Requests : r \in Nat
        BY Typed, Counters
      <4> QED BY <1>1, <4>1
    <3> QED BY <2>2, <3>1, <3>2 DEF Controllers
  <2> QED BY <1>3, <2>2, <2>3, ControllersServe DEF Receives
<1>4. ASSUME NEW n \in 1..Len(writebuf), Writes(n) PROVE Controllers' /\ NoLeak'
  <2>1. hpc = "WRITE" /\ isClosed' = isClosed /\ ~Receives
    BY <1>4 DEF Writes, Wrote, WriteFrame, flagVars, Receives, Await, Spoil, Serve
  <2>2. NoLeak'
    BY <2>1 DEF NoLeak
  <2> QED BY <1>1, <1>4, <2>1, <2>2, ControllersWrite
<1>5. CASE OnClose
  <2>1. ~Receives
    BY <1>5 DEF OnClose, Receives, Await, Spoil, Serve
  <2> QED BY <1>1, <1>5, <2>1, ControllersClose DEF NoLeak
<1> QED BY <1>2, <1>3, <1>4, <1>5, CtlKinds
-----------------------------------------------------------------------------
(* Each controller is released once.                                       *)

\* A peer that has pipelined has done so for good.
LEMMA PipedStays ==
  ASSUME Step
  PROVE  piped => piped'
<1>1. CASE Receives
  BY <1>1 DEF Receives, Await, Spoil, Serve, RecvFrame, peerVars
<1>2. CASE \E n \in 1..Len(writebuf) : Writes(n)
  BY <1>2 DEF Writes, Wrote, WriteFrame
<1>3. CASE NoWrite
  BY <1>3 DEF NoWrite, WriteFrame
<1>4. CASE \E k \in Kinds : PeerBegins(k)
  BY <1>4 DEF PeerBegins
<1>5. CASE PeerFinishes
  BY <1>5 DEF PeerFinishes
<1>6. CASE UNCHANGED vars
  BY <1>6 DEF vars, peerVars
<1>7. CASE ProcessPendingTask
  BY <1>7 DEF ProcessPendingTask, peerVars
<1>8. CASE Report
  BY <1>8 DEF Report, peerVars
<1>9. CASE OnEvent
  BY <1>9 DEF OnEvent, peerVars
<1>10. CASE OnReadable
  BY <1>10 DEF OnReadable, peerVars
<1>11. CASE OnEventTail
  BY <1>11 DEF OnEventTail, peerVars
<1>12. CASE OnClose
  BY <1>12 DEF OnClose, peerVars
<1>13. CASE Drain
  BY <1>13 DEF Drain, peerVars
<1>14. CASE \E how \in {"fin", "rst"} : PeerEnds(how)
  BY <1>14 DEF PeerEnds, peerVars
<1> QED BY <1>1, <1>2, <1>3, <1>4, <1>5, <1>6, <1>7, <1>8, <1>9, <1>10, <1>11, <1>12, <1>13, <1>14 DEF Step

LEMMA FrontIsLive ==
  ASSUME Types, Sound, ~piped, ~full, pending # <<>>
  PROVE  ctl[FrontSeq] = "live" /\ ctl[Head(pending)] = "live"
<1>1. 1 \in 1..Len(pending) /\ FrontSeq = pending[1] /\ Head(pending) = pending[1]
  BY FrontType, PendingType
<1> QED BY <1>1 DEF Sound

LEMMA SoundReceives ==
  ASSUME Types, Incoming, Controllers, Sound, Receives
  PROVE  Sound'
<1>1. piped' = piped
  BY DEF Receives, Await, Spoil, Serve, RecvFrame, peerVars
<1>2. CASE Await
  <2>1. undefined' = undefined /\ full' = full /\ pending' = pending /\ ctl' = ctl
    BY <1>2 DEF Await
  <2> QED BY <1>1, <2>1 DEF Sound
<1>3. ASSUME ErrorSent PROVE (undefined => piped \/ full)' /\ pending' = pending /\ full' = full
  <2>1. full' = full /\ pending' = pending /\ undefined' = (pending # <<>> /\ ctl[FrontSeq] = "deleted")
    BY <1>3 DEF ErrorSent
  <2>2. undefined' => piped \/ full
    BY <2>1, FrontIsLive
  <2> QED BY <1>1, <2>1, <2>2
<1>4. CASE Spoil
  <2>1. ErrorSent /\ ctl' = ctl
    BY <1>4 DEF Spoil
  <2> QED BY <1>1, <1>3, <2>1 DEF Sound
<1>5. ASSUME NEW r \in Requests, NEW k \in Nat, Serve(r, k) PROVE Sound'
  <2>1. \A i \in 1..Len(pending) : pending[i] # r /\ pending[i] \in Requests
    BY <1>5, Fresh, PendingType
  <2>2. ASSUME NEW s, ctl' = [ctl EXCEPT ![r] = s]
        PROVE  ctl'[r] = s /\ \A x \in Requests : x # r => ctl'[x] = ctl[x]
    BY <2>2 DEF Types
  <2>3. CASE Queued(r) \/ Written(r)
    <3>1. /\ undefined' = undefined /\ full' = full /\ pending' = Append(pending, r)
          /\ ctl' = [ctl EXCEPT ![r] = "live"]
      BY <2>3 DEF Queued, Written
    <3>2. /\ Len(pending') = Len(pending) + 1 /\ Len(pending) \in Nat
          /\ \A i \in 1..Len(pending) : pending'[i] = pending[i]
          /\ pending'[Len(pending) + 1] = r
      BY <3>1, Queues
    <3>3. ctl'[r] = "live" /\ \A x \in Requests : x # r => ctl'[x] = ctl[x]
      BY <2>2, <3>1
    <3>4. \A i \in 1..Len(pending') : i \in 1..Len(pending) \/ i = Len(pending) + 1
      BY <3>2
    <3>5. ASSUME ~piped, ~full, NEW i \in 1..Len(pending') PROVE ctl'[pending'[i]] = "live"
      BY <2>1, <3>2, <3>3, <3>4, <3>5 DEF Sound
    <3>6. ASSUME ~piped, ~full, NEW i \in 1..Len(pending'), NEW j \in 1..Len(pending'), pending'[i] = pending'[j]
          PROVE  i = j
      BY <2>1, <3>2, <3>4, <3>6 DEF Sound
    <3> QED BY <1>1, <3>1, <3>5, <3>6 DEF Sound
  <2>4. CASE Unfit(r)
    <3>1. full' = TRUE
      BY <2>4 DEF Unfit
    <3> QED BY <3>1 DEF Sound
  <2>5. CASE ErrorSent /\ (ctl' = ctl \/ ctl' = [ctl EXCEPT ![r] = "deleted"])
    <3>1. \A i \in 1..Len(pending) : ctl'[pending[i]] = ctl[pending[i]]
      BY <2>1, <2>2, <2>5
    <3> QED BY <1>1, <1>3, <2>5, <3>1 DEF Sound
  <2> QED BY <1>5, <2>3, <2>4, <2>5 DEF Serve
<1> QED BY <1>2, <1>4, <1>5 DEF Receives

LEMMA SoundWrites ==
  ASSUME Types, Sound, Lockstep, ~isClosed, NEW n \in 1..Len(writebuf), Writes(n)
  PROVE  Sound'
<1>1. piped' = piped
  BY DEF Writes, Wrote, WriteFrame
<1>2. CASE NonePending(n) \/ ClosingSoon(n)
  <2>1. undefined' = undefined /\ full' = full /\ pending' = pending /\ ctl' = ctl
    BY <1>2 DEF NonePending, ClosingSoon, connVars
  <2> QED BY <1>1, <2>1 DEF Sound
<1>3. ASSUME Counted(n) PROVE full' = full /\ (undefined => piped \/ full)'
  <2>1. full' = full /\ undefined' = (ctl[Head(pending)] = "deleted") /\ pending # <<>>
    BY <1>3 DEF Counted
  <2>2. undefined' => piped \/ full
    BY <2>1, FrontIsLive
  <2> QED BY <1>1, <2>1, <2>2
<1>4. CASE Partly(n)
  <2>1. Counted(n) /\ pending' = pending /\ ctl' = ctl
    BY <1>4 DEF Partly
  <2> QED BY <1>1, <1>3, <2>1 DEF Sound
<1>5. CASE Finished(n)
  <2>1. Counted(n) /\ ~closeWhenEmpty /\ pending # <<>>
    BY <1>5 DEF Finished, Counted
  <2>2. ASSUME ~piped PROVE pending' = <<>>
    <3>1. pending = <<sent>>
      BY <2>1, <2>2 DEF Lockstep, Asking, Answering
    <3>2. Len(pending) = 1
      BY <3>1
    <3> QED BY <1>5, <3>2, PendingAfter
  <2>3. ASSUME ~piped PROVE \A i \in 1..Len(pending') : FALSE
    <3>1. Len(pending') = 0
      BY <2>2, <2>3
    <3> QED BY <3>1
  <2> QED BY <1>1, <1>3, <2>1, <2>3 DEF Sound
<1> QED BY <1>2, <1>4, <1>5 DEF Writes

LEMMA SoundClose ==
  ASSUME Types, Sound, OnClose
  PROVE  Sound'
<1>1. /\ undefined' = (~IsInjective(pending) \/ \E r \in ToSet(pending) : ctl[r] = "deleted")
      /\ piped' = piped /\ full' = full /\ pending' = <<>>
  BY DEF OnClose, peerVars
<1>2. /\ ToSet(pending) = {pending[i] : i \in 1..Len(pending)}
      /\ IsInjective(pending) <=> \A i, j \in 1..Len(pending) : pending[i] = pending[j] => i = j
  BY ReleasedIs DEF Released
<1>3. undefined' => piped \/ full
  BY <1>1, <1>2 DEF Sound
<1>4. \A i \in 1..Len(pending') : FALSE
  <2>1. Len(pending') = 0
    BY <1>1
  <2> QED BY <2>1
<1> QED BY <1>1, <1>3, <1>4 DEF Sound

LEMMA StepSound ==
  ASSUME Types, Incoming, Controllers, Sound, Lockstep, isClosed => hpc = "idle", Step
  PROVE  Sound'
<1>1. CASE CtlFrame
  <2>1. pending' = pending /\ ctl' = ctl /\ undefined' = undefined /\ full' = full /\ (piped => piped')
    BY <1>1, PipedStays DEF CtlFrame
  <2> QED BY <2>1 DEF Sound
<1>2. CASE Receives
  BY <1>2, SoundReceives
<1>3. CASE \E n \in 1..Len(writebuf) : Writes(n)
  <2>1. PICK n \in 1..Len(writebuf) : Writes(n)
    BY <1>3
  <2>2. ~isClosed
    BY <2>1 DEF Writes, Wrote
  <2> QED BY <2>1, <2>2, SoundWrites
<1>4. CASE OnClose
  BY <1>4, SoundClose
<1> QED BY <1>1, <1>2, <1>3, <1>4, CtlKinds
-----------------------------------------------------------------------------
(* The order of the answers.                                               *)

\* A stream that is to be closed stays so.
LEMMA ClosingStays ==
  ASSUME Step
  PROVE  closeWhenEmpty => closeWhenEmpty'
<1>1. CASE Receives
  BY <1>1 DEF Receives, Await, Spoil, Serve, Queued, Written, Unfit, ErrorSent
<1>2. CASE \E n \in 1..Len(writebuf) : Writes(n)
  BY <1>2 DEF Writes, Wrote, WriteFrame
<1>3. CASE NoWrite
  BY <1>3 DEF NoWrite, WriteFrame
<1>4. CASE \E k \in Kinds : PeerBegins(k)
  BY <1>4 DEF PeerBegins
<1>5. CASE PeerFinishes
  BY <1>5 DEF PeerFinishes
<1>6. CASE UNCHANGED vars
  BY <1>6 DEF vars
<1>7. CASE ProcessPendingTask
  BY <1>7 DEF ProcessPendingTask
<1>8. CASE Report
  BY <1>8 DEF Report
<1>9. CASE OnEvent
  BY <1>9 DEF OnEvent
<1>10. CASE OnReadable
  BY <1>10 DEF OnReadable
<1>11. CASE OnEventTail
  BY <1>11 DEF OnEventTail
<1>12. CASE OnClose
  BY <1>12 DEF OnClose
<1>13. CASE Drain
  BY <1>13 DEF Drain
<1>14. CASE \E how \in {"fin", "rst"} : PeerEnds(how)
  BY <1>14 DEF PeerEnds
<1> QED BY <1>1, <1>2, <1>3, <1>4, <1>5, <1>6, <1>7, <1>8, <1>9, <1>10, <1>11, <1>12, <1>13, <1>14 DEF Step

LEMMA OutIs ==
  ASSUME Types
  PROVE  /\ Len(received) \in Nat /\ Len(writebuf) \in Nat
         /\ received \in Seq(Answers) /\ writebuf \in Seq(Answers) /\ Out \in Seq(Answers)
         /\ Len(Out) = Len(received) + Len(writebuf)
         /\ \A i \in 1..Len(received) : Out[i] = received[i]
         /\ \A i \in 1..Len(writebuf) : Out[Len(received) + i] = writebuf[i]
<1>1. received \in Seq(Answers) /\ writebuf \in Seq(Answers)
  BY DEF Types
<1>2. Len(received) \in Nat /\ Len(writebuf) \in Nat
  BY <1>1, Members
<1>3. /\ Out \in Seq(Answers) /\ Len(Out) = Len(received) + Len(writebuf)
      /\ \A i \in 1..Len(received) : Out[i] = received[i]
      /\ \A i \in 1..Len(writebuf) : Out[Len(received) + i] = writebuf[i]
  BY <1>1, Joined DEF Out
<1> QED BY <1>1, <1>2, <1>3

\* What the halves in Out are.
LEMMA AnswersAre ==
  ASSUME NEW s \in Seq(Answers), NEW i \in 1..Len(s)
  PROVE  s[i][1] \in 0..N /\ s[i][2] \in {"OK", "ERR"} /\ s[i][3] \in {1, 2}
<1>1. s[i] \in Answers
  BY Members
<1> QED BY <1>1 DEF Answers

\* Writing moves halves from writebuf to the peer.
LEMMA OutKept ==
  ASSUME Types, Types', NEW n, Wrote(n)
  PROVE  Len(Out') = Len(Out) /\ \A i \in 1..Len(Out) : Out'[i] = Out[i]
<1>1. /\ n \in Nat /\ n >= 1 /\ n <= Len(writebuf) /\ Len(writebuf) \in Nat /\ Len(received) \in Nat
      /\ received' \in Seq(Answers) /\ writebuf' \in Seq(Answers)
      /\ Len(writebuf') = Len(writebuf) - n /\ Len(received') = Len(received) + n
      /\ \A i \in 1..Len(received) : received'[i] = received[i]
      /\ \A i \in 1..n : received'[Len(received) + i] = writebuf[i]
      /\ \A i \in 1..Len(writebuf) - n : writebuf'[i] = writebuf[n + i]
  BY WroteType
<1>2. /\ Len(Out) = Len(received) + Len(writebuf)
      /\ \A i \in 1..Len(received) : Out[i] = received[i]
      /\ \A i \in 1..Len(writebuf) : Out[Len(received) + i] = writebuf[i]
  BY OutIs
<1>3. /\ Len(Out') = Len(received') + Len(writebuf')
      /\ \A i \in 1..Len(received') : Out'[i] = received'[i]
      /\ \A i \in 1..Len(writebuf') : Out'[Len(received') + i] = writebuf'[i]
  <2>1. received' \in Seq(Answers) /\ writebuf' \in Seq(Answers)
    BY <1>1
  <2> QED BY <2>1, Joined DEF Out
<1>4. Len(Out') = Len(Out)
  BY <1>1, <1>2, <1>3
<1>5. ASSUME NEW i \in 1..Len(Out) PROVE Out'[i] = Out[i]
  <2>0. i \in Int /\ 1 <= i /\ i <= Len(received) + Len(writebuf)
    BY <1>2
  <2>1. CASE i <= Len(received)
    <3>1. i \in 1..Len(received) /\ i \in 1..Len(received')
      BY <1>1, <2>0, <2>1
    <3> QED BY <1>1, <1>2, <1>3, <3>1
  <2>2. CASE Len(received) < i /\ i <= Len(received) + n
    <3> DEFINE j == i - Len(received)
    <3>1. j \in 1..n /\ j \in 1..Len(writebuf) /\ i \in 1..Len(received') /\ i = Len(received) + j
      BY <1>1, <2>0, <2>2
    <3> HIDE DEF j
    <3>2. Out[i] = writebuf[j] /\ received'[i] = writebuf[j] /\ Out'[i] = received'[i]
      BY <1>1, <1>2, <1>3, <3>1
    <3> QED BY <3>2
  <2>3. CASE Len(received) + n < i
    <3> DEFINE j == i - (Len(received) + n)
    <3>1. /\ j \in 1..Len(writebuf) - n /\ n + j \in 1..Len(writebuf) /\ j \in 1..Len(writebuf')
          /\ i = Len(received') + j /\ i = Len(received) + (n + j)
      BY <1>1, <2>0, <2>3
    <3> HIDE DEF j
    <3>2. Out[i] = writebuf[n + j]
      BY <1>2, <3>1
    <3>3. Out'[i] = writebuf'[j]
      BY <1>3, <3>1
    <3>4. writebuf'[j] = writebuf[n + j]
      BY <1>1, <3>1
    <3> QED BY <3>2, <3>3, <3>4
  <2> QED BY <1>1, <2>0, <2>1, <2>2, <2>3
<1> QED BY <1>4, <1>5

\* A response is put behind what is in writebuf.
LEMMA OutGrown ==
  ASSUME Types, NEW seq \in 0..N, NEW st \in {"OK", "ERR"},
         received' = received, writebuf' = writebuf \o Response(seq, st)
  PROVE  /\ Len(Out') = Len(Out) + 2 /\ Len(Out) \in Nat /\ Len(writebuf') = Len(writebuf) + 2
         /\ writebuf' \in Seq(Answers)
         /\ \A i \in 1..Len(Out) : Out'[i] = Out[i]
         /\ Out'[Len(Out) + 1] = <<seq, st, 1>> /\ Out'[Len(Out) + 2] = <<seq, st, 2>>
         /\ \A i \in 1..Len(writebuf) : writebuf'[i] = writebuf[i]
         /\ writebuf'[Len(writebuf) + 1] = <<seq, st, 1>> /\ writebuf'[Len(writebuf) + 2] = <<seq, st, 2>>
<1> DEFINE R == Response(seq, st)
<1>1. R \in Seq(Answers) /\ Len(R) = 2 /\ R[1] = <<seq, st, 1>> /\ R[2] = <<seq, st, 2>>
  BY TypesOfResponse
<1>2. /\ received \in Seq(Answers) /\ writebuf \in Seq(Answers) /\ Out \in Seq(Answers)
      /\ Len(Out) \in Nat
  BY OutIs, Members
<1>3. Out' = Out \o R
  <2>1. received \in Seq(Answers) /\ writebuf \in Seq(Answers) /\ R \in Seq(Answers)
    BY <1>1, <1>2
  <2> HIDE DEF R
  <2>2. (received \o writebuf) \o R = received \o (writebuf \o R)
    BY <2>1, ConcatAssociative
  <2> QED BY <2>2 DEF Out, R
<1> HIDE DEF R
<1>10. R \in Seq(Answers) /\ Out \in Seq(Answers) /\ writebuf \in Seq(Answers)
  BY <1>1, <1>2
<1>4. 1 \in 1..Len(R) /\ 2 \in 1..Len(R)
  BY <1>1
<1>5. /\ Len(Out \o R) = Len(Out) + Len(R) /\ \A i \in 1..Len(Out) : (Out \o R)[i] = Out[i]
      /\ \A i \in 1..Len(R) : (Out \o R)[Len(Out) + i] = R[i]
  BY <1>10, Joined
<1>6. /\ writebuf \o R \in Seq(Answers) /\ Len(writebuf \o R) = Len(writebuf) + Len(R)
      /\ \A i \in 1..Len(writebuf) : (writebuf \o R)[i] = writebuf[i]
      /\ \A i \in 1..Len(R) : (writebuf \o R)[Len(writebuf) + i] = R[i]
  BY <1>10, Joined
<1>7. writebuf' = writebuf \o R
  BY DEF R
<1>8. /\ Len(Out') = Len(Out) + 2 /\ \A i \in 1..Len(Out) : Out'[i] = Out[i]
      /\ Out'[Len(Out) + 1] = <<seq, st, 1>> /\ Out'[Len(Out) + 2] = <<seq, st, 2>>
  BY <1>1, <1>3, <1>4, <1>5, Zenon
<1>9. /\ writebuf' \in Seq(Answers) /\ Len(writebuf') = Len(writebuf) + 2
      /\ \A i \in 1..Len(writebuf) : writebuf'[i] = writebuf[i]
      /\ writebuf'[Len(writebuf) + 1] = <<seq, st, 1>> /\ writebuf'[Len(writebuf) + 2] = <<seq, st, 2>>
  BY <1>1, <1>4, <1>6, <1>7, Zenon
<1> QED BY <1>2, <1>8, <1>9

OutFrame == UNCHANGED <<received, writebuf>>

LEMMA OutKinds ==
  ASSUME Step
  PROVE  OutFrame \/ Receives \/ (\E n \in 1..Len(writebuf) : Writes(n))
<1>3. CASE NoWrite
  BY <1>3 DEF OutFrame, NoWrite, WriteFrame
<1>4. CASE \E k \in Kinds : PeerBegins(k)
  BY <1>4 DEF OutFrame, PeerBegins
<1>5. CASE PeerFinishes
  BY <1>5 DEF OutFrame, PeerFinishes
<1>6. CASE UNCHANGED vars
  BY <1>6 DEF OutFrame, vars, peerVars
<1>7. CASE ProcessPendingTask
  BY <1>7 DEF OutFrame, ProcessPendingTask, peerVars
<1>8. CASE Report
  BY <1>8 DEF OutFrame, Report, peerVars
<1>9. CASE OnEvent
  BY <1>9 DEF OutFrame, OnEvent, peerVars
<1>10. CASE OnReadable
  BY <1>10 DEF OutFrame, OnReadable, peerVars
<1>11. CASE OnEventTail
  BY <1>11 DEF OutFrame, OnEventTail, peerVars
<1>12. CASE OnClose
  BY <1>12 DEF OutFrame, OnClose, peerVars
<1>13. CASE Drain
  BY <1>13 DEF OutFrame, Drain, peerVars
<1>14. CASE \E how \in {"fin", "rst"} : PeerEnds(how)
  BY <1>14 DEF OutFrame, PeerEnds, peerVars
<1> QED BY <1>3, <1>4, <1>5, <1>6, <1>7, <1>8, <1>9, <1>10, <1>11, <1>12, <1>13, <1>14 DEF Step

\* Nothing is put out.
LEMMA OutgoingKept ==
  ASSUME Types, Incoming, Outgoing, Step, Len(Out') = Len(Out), \A i \in 1..Len(Out) : Out'[i] = Out[i]
  PROVE  Outgoing'
<1>1. Taken \in Int /\ Taken' \in Int /\ Taken' >= Taken /\ (closeWhenEmpty => closeWhenEmpty')
  BY StepIncoming, ClosingStays
<1>2. ASSUME NEW i \in 1..Len(Out') 
      PROVE  /\ Out'[i][2] = "ERR" => closeWhenEmpty'
             /\ Out'[i][2] = "OK" => 2 * Out'[i][1] - 1 <= Taken'
             /\ Out'[i][3] = 2 => i > 1 /\ Out'[i - 1][3] = 1
  <2>1. i \in 1..Len(Out) /\ Out'[i] = Out[i]
    OBVIOUS
  <2>2. Out[i][2] = "ERR" => closeWhenEmpty'
    BY <1>1, <2>1 DEF Outgoing
  <2>3. Out[i][2] = "OK" => 2 * Out[i][1] - 1 <= Taken'
    <3>1. Out[i][2] = "OK" => 2 * Out[i][1] - 1 <= Taken
      BY <2>1 DEF Outgoing
    <3>2. Out[i][1] \in Nat
      <4>1. Out[i][1] \in 0..N
        BY <2>1, OutIs, AnswersAre
      <4> QED BY <4>1
    <3> QED BY <1>1, <3>1, <3>2
  <2>4. Out[i][3] = 2 => i > 1 /\ Out[i - 1][3] = 1
    BY <2>1 DEF Outgoing
  <2>5. i > 1 => Out'[i - 1] = Out[i - 1]
    <3>1. i > 1 => i - 1 \in 1..Len(Out)
      <4>1. Len(Out) \in Nat
        BY OutIs
      <4> QED BY <2>1, <4>1
    <3> QED BY <3>1
  <2> QED BY <2>1, <2>2, <2>3, <2>4, <2>5
<1>3. ASSUME NEW i \in 1..Len(Out'), NEW j \in 1..Len(Out'), i < j, IsAnswer(Out'[i]), IsAnswer(Out'[j])
      PROVE  Out'[i][1] < Out'[j][1]
  <2>1. i \in 1..Len(Out) /\ Out'[i] = Out[i] /\ j \in 1..Len(Out) /\ Out'[j] = Out[j]
    OBVIOUS
  <2>2. IsAnswer(Out[i]) /\ IsAnswer(Out[j])
    BY <1>3, <2>1 DEF IsAnswer
  <2>3. Out[i][1] < Out[j][1]
    BY <1>3, <2>1, <2>2 DEF Outgoing
  <2> QED BY <2>1, <2>3
<1> QED BY <1>2, <1>3 DEF Outgoing

\* A response to a later request is put out, or an error header.
LEMMA OutgoingGrown ==
  ASSUME Types, Incoming, Outgoing, Step, NEW seq \in 0..N, NEW st \in {"OK", "ERR"},
         received' = received, writebuf' = writebuf \o Response(seq, st),
         st = "ERR" => closeWhenEmpty',
         st = "OK" => Taken < 2 * seq - 1 /\ 2 * seq - 1 <= Taken'
  PROVE  Outgoing'
<1>1. Taken \in Int /\ Taken' \in Int /\ Taken' >= Taken /\ (closeWhenEmpty => closeWhenEmpty')
  BY StepIncoming, ClosingStays
<1>2. /\ Len(Out') = Len(Out) + 2 /\ Len(Out) \in Nat
      /\ \A i \in 1..Len(Out) : Out'[i] = Out[i]
      /\ Out'[Len(Out) + 1] = <<seq, st, 1>> /\ Out'[Len(Out) + 2] = <<seq, st, 2>>
  BY OutGrown
<1>3. \A i \in 1..Len(Out') : i \in 1..Len(Out) \/ i = Len(Out) + 1 \/ i = Len(Out) + 2
  BY <1>2
<1>4. ASSUME NEW i \in 1..Len(Out)
      PROVE  /\ Out[i][2] = "ERR" => closeWhenEmpty
             /\ Out[i][2] = "OK" => 2 * Out[i][1] - 1 <= Taken
             /\ Out[i][3] = 2 => i > 1 /\ Out[i - 1][3] = 1
             /\ Out[i][1] \in Nat /\ Out'[i] = Out[i]
  <2>1. Out[i][1] \in Nat
    <3>1. Out[i][1] \in 0..N
      BY OutIs, AnswersAre
    <3> QED BY <3>1
  <2> QED BY <1>2, <2>1 DEF Outgoing
<1>5. seq \in Nat
  OBVIOUS
<1>6. ASSUME NEW i \in 1..Len(Out')
      PROVE  /\ Out'[i][2] = "ERR" => closeWhenEmpty'
             /\ Out'[i][2] = "OK" => 2 * Out'[i][1] - 1 <= Taken'
             /\ Out'[i][3] = 2 => i > 1 /\ Out'[i - 1][3] = 1
  <2>1. CASE i \in 1..Len(Out)
    <3>1. i > 1 => Out'[i - 1] = Out[i - 1]
      <4>1. i > 1 => i - 1 \in 1..Len(Out)
        BY <1>2, <2>1
      <4> QED BY <1>2, <4>1
    <3>2. Out'[i][2] = "OK" => 2 * Out'[i][1] - 1 <= Taken'
      BY <1>1, <1>4, <2>1
    <3>3. Out'[i][2] = "ERR" => closeWhenEmpty'
      BY <1>1, <1>4, <2>1
    <3>4. Out'[i][3] = 2 => i > 1 /\ Out'[i - 1][3] = 1
      BY <1>4, <2>1, <3>1
    <3> QED BY <3>2, <3>3, <3>4
  <2>2. CASE i = Len(Out) + 1
    <3>1. Out'[i][1] = seq /\ Out'[i][2] = st /\ Out'[i][3] = 1
      BY <1>2, <2>2
    <3> QED BY <3>1
  <2>3. CASE i = Len(Out) + 2
    <3>1. Out'[i][1] = seq /\ Out'[i][2] = st /\ Out'[i][3] = 2
      BY <1>2, <2>3
    <3>2. i > 1 /\ i - 1 = Len(Out) + 1
      BY <1>2, <2>3
    <3>3. Out'[i - 1][3] = 1
      BY <1>2, <3>2
    <3> QED BY <3>1, <3>2, <3>3
  <2> QED BY <1>3, <2>1, <2>2, <2>3
<1>7. ASSUME NEW i \in 1..Len(Out'), NEW j \in 1..Len(Out'), i < j, IsAnswer(Out'[i]), IsAnswer(Out'[j])
      PROVE  Out'[i][1] < Out'[j][1]
  <2>1. ~ IsAnswer(Out'[Len(Out) + 1])
    BY <1>2 DEF IsAnswer
  <2>2. i \in 1..Len(Out)
    BY <1>2, <1>3, <1>7, <2>1
  <2>3. j \in 1..Len(Out) \/ j = Len(Out) + 2
    BY <1>2, <1>3, <1>7, <2>1
  <2>4. IsAnswer(Out[i]) /\ Out'[i] = Out[i]
    BY <1>4, <1>7, <2>2 DEF IsAnswer
  <2>5. CASE j \in 1..Len(Out)
    <3>1. IsAnswer(Out[j]) /\ Out'[j] = Out[j]
      BY <1>4, <1>7, <2>5 DEF IsAnswer
    <3>2. Out[i][1] < Out[j][1]
      BY <1>7, <2>2, <2>4, <2>5, <3>1 DEF Outgoing
    <3> QED BY <2>4, <3>1, <3>2
  <2>6. CASE j = Len(Out) + 2
    <3>1. Out'[j][1] = seq /\ Out'[j][2] = st
      BY <1>2, <2>6
    <3>2. st = "OK"
      BY <1>7, <3>1 DEF IsAnswer
    <3>3. 2 * Out[i][1] - 1 <= Taken /\ Out[i][1] \in Nat
      BY <1>4, <2>2, <2>4 DEF IsAnswer
    <3>4. Out[i][1] < seq
      BY <1>1, <1>5, <3>2, <3>3
    <3> QED BY <2>4, <3>1, <3>4
  <2> QED BY <2>3, <2>5, <2>6
<1> QED BY <1>6, <1>7 DEF Outgoing

LEMMA StepOutgoing ==
  ASSUME Types, Incoming, Outgoing, Controllers, Step
  PROVE  Outgoing'
<1>0. Types'
  BY StepTypes
<1>1. CASE OutFrame
  <2>1. Out' = Out
    BY <1>1 DEF OutFrame, Out
  <2> QED BY <2>1, OutgoingKept
<1>2. CASE \E n \in 1..Len(writebuf) : Writes(n)
  <2>1. PICK n \in 1..Len(writebuf) : Wrote(n)
    BY <1>2 DEF Writes
  <2> QED BY <1>0, <2>1, OutKept, OutgoingKept
<1>3. CASE Receives
  <2>1. received' = received
    BY <1>3 DEF Receives, Await, Spoil, Serve, RecvFrame, peerVars
  <2>2. CASE ErrorSent
    <3>1. writebuf' = writebuf \o Response(FrontSeq, "ERR") /\ closeWhenEmpty' = TRUE /\ FrontSeq \in 0..N
      BY <2>2, FrontType DEF ErrorSent
    <3> QED BY <2>1, <3>1, OutgoingGrown
  <2>3. CASE Await
    <3>1. Out' = Out
      BY <2>1, <2>3 DEF Out, Await
    <3> QED BY <3>1, OutgoingKept
  <2>4. ASSUME NEW r \in Requests, NEW k \in Nat, Serve(r, k) PROVE Outgoing'
    <3>1. 2 * r - 1 <= Taken' /\ Taken < 2 * r - 1 /\ r \in 0..N
      BY <2>4, Fresh, FrontType
    <3>2. CASE Queued(r)
      <4>1. Out' = Out
        BY <2>1, <3>2 DEF Out, Queued
      <4> QED BY <4>1, OutgoingKept
    <3>3. CASE Written(r)
      <4>1. writebuf' = writebuf \o Response(r, "OK")
        BY <3>3 DEF Written
      <4> QED BY <2>1, <3>1, <4>1, OutgoingGrown
    <3>4. CASE Unfit(r)
      <4>1. writebuf' = writebuf \o Response(r, "ERR") /\ closeWhenEmpty' = TRUE
        BY <3>4 DEF Unfit
      <4> QED BY <2>1, <3>1, <4>1, OutgoingGrown
    <3> QED BY <2>2, <2>4, <3>2, <3>3, <3>4 DEF Serve
  <2> QED BY <1>3, <2>2, <2>3, <2>4 DEF Receives, Spoil
<1> QED BY <1>1, <1>2, <1>3, OutKinds
-----------------------------------------------------------------------------
(* The handler.                                                            *)

\* Where OnRecived goes on.
LEMMA ReceivesPhase ==
  ASSUME Types, Receives
  PROVE  /\ hpc = "recv" /\ hpc' \in {"recv", "WRITE", "tail"} /\ hmask' = hmask
         /\ hpc' = "WRITE" \/ hpc' = "recv" \/ "WRITE" \notin hmask
         /\ hpc' = "recv" => ~closeWhenEmpty'
         /\ UNCHANGED <<netVars, isClosed, isConnected, raised, interest, armed, moved>>
<1>1. PhaseAfter(1, hmask) = IF "WRITE" \in hmask THEN "WRITE" ELSE "tail"
  <2>1. hmask \in SUBSET Bits
    BY DEF Types
  <2> QED BY <2>1, NextPhase
<1>2. hpc = "recv" /\ RecvFrame
  BY DEF Receives, Await, Spoil, Serve
<1>3. hpc' = PhaseAfter(1, hmask) \/ (hpc' = "recv" /\ ~closeWhenEmpty')
  BY DEF Receives, Await, Spoil, Serve
<1> QED BY <1>1, <1>2, <1>3 DEF RecvFrame, flagVars, epollVars

\* Where OnReadable goes on.
LEMMA ReadablePhase ==
  ASSUME Types, OnReadable
  PROVE  /\ hpc = "READ" /\ hpc' \in {"recv", "WRITE", "tail"}
         /\ hpc' = "WRITE" \/ hpc' = "recv" \/ "WRITE" \notin hmask
         /\ link = "up" => hmask' = hmask /\ (hpc' = "recv" \/ inbox = <<>>) /\ (hpc' = "recv" => inbox # <<>>)
         /\ link # "up" => hmask' = hmask \cup {"CLOSE"} /\ hpc' # "recv"
<1>1. PhaseAfter(1, hmask) = IF "WRITE" \in hmask THEN "WRITE" ELSE "tail"
  <2>1. hmask \in SUBSET Bits
    BY DEF Types
  <2> QED BY <2>1, NextPhase
<1>2. link \in {"up", "fin", "rst"}
  BY DEF Types
<1> QED BY <1>1, <1>2 DEF OnReadable, HContinue, HGoto

\* Where OnEvent begins.
LEMMA EventPhase ==
  ASSUME Types, Handler, OnEvent
  PROVE  /\ hpc = "idle" /\ raised # {} /\ raised' = {} /\ isClosed' = isClosed
         /\ isClosed => UNCHANGED <<hpc, hmask>>
         /\ ~isClosed /\ link = "rst" => hpc' \in {"READ", "WRITE", "tail", "close"}
         /\ ~isClosed /\ link # "rst" =>
              /\ hmask' = raised /\ "CLOSE" \notin raised
              /\ hpc' = IF "READ" \in raised THEN "READ" ELSE IF "WRITE" \in raised THEN "WRITE" ELSE "tail"
<1>1. PhaseAfter(0, raised) = IF "READ" \in raised THEN "READ" ELSE IF "WRITE" \in raised THEN "WRITE" ELSE "tail"
  <2>1. raised \in SUBSET Bits
    BY DEF Types
  <2> QED BY <2>1, NextPhase
<1>2. hpc = "idle" /\ raised # {} /\ raised' = {} /\ isClosed' = isClosed
  BY DEF OnEvent
<1>3. link # "rst" => raised \cap {"CLOSE", "ERR"} = {} /\ "CLOSE" \notin raised
  BY DEF Handler
<1>4. isClosed => UNCHANGED <<hpc, hmask>>
  BY DEF OnEvent
<1>5. ~isClosed /\ link # "rst" => hpc' = PhaseAfter(0, raised) /\ hmask' = raised
  BY <1>3 DEF OnEvent
<1>6. ~isClosed => hpc' \in {"tail", "close", PhaseAfter(0, raised)}
  BY DEF OnEvent
<1>7. ~isClosed => hpc' \in {"READ", "WRITE", "tail", "close"}
  BY <1>1, <1>6
<1> QED BY <1>1, <1>2, <1>3, <1>4, <1>5, <1>7

HandlerFrame ==
  UNCHANGED <<hpc, hmask, isClosed, isConnected, readbuf, writebuf, closeWhenEmpty, sendsize,
              pending, ctl, undefined, full>>

LEMMA HandlerFrames ==
  ASSUME \/ UNCHANGED vars \/ ProcessPendingTask \/ Report
         \/ (\E k \in Kinds : PeerBegins(k)) \/ PeerFinishes
         \/ Drain \/ (\E how \in {"fin", "rst"} : PeerEnds(how))
  PROVE  HandlerFrame
<1>4. CASE \E k \in Kinds : PeerBegins(k)
  BY <1>4 DEF HandlerFrame, PeerBegins, connVars, flagVars, handlerVars
<1>5. CASE PeerFinishes
  BY <1>5 DEF HandlerFrame, PeerFinishes, connVars, flagVars, handlerVars
<1>6. CASE UNCHANGED vars
  BY <1>6 DEF HandlerFrame, vars, connVars, flagVars, handlerVars
<1>7. CASE ProcessPendingTask
  BY <1>7 DEF HandlerFrame, ProcessPendingTask, connVars, flagVars, handlerVars
<1>8. CASE Report
  BY <1>8 DEF HandlerFrame, Report, connVars, flagVars, handlerVars
<1>13. CASE Drain
  BY <1>13 DEF HandlerFrame, Drain, connVars, flagVars, handlerVars
<1>14. CASE \E how \in {"fin", "rst"} : PeerEnds(how)
  BY <1>14 DEF HandlerFrame, PeerEnds, connVars, flagVars, handlerVars
<1> QED BY <1>4, <1>5, <1>6, <1>7, <1>8, <1>13, <1>14

\* What epoll and the link do in the steps that are not the handler's.
LEMMA LinkFrames ==
  ASSUME \/ UNCHANGED vars \/ ProcessPendingTask \/ Report
         \/ (\E k \in Kinds : PeerBegins(k)) \/ PeerFinishes
         \/ Drain \/ (\E how \in {"fin", "rst"} : PeerEnds(how))
  PROVE  /\ link' = link \/ (link' = "fin" /\ link = "up") \/ link' = "rst"
         /\ raised' = raised \/ (raised' = raised \cup ReadyMask /\ link' = link)
<1>4. CASE \E k \in Kinds : PeerBegins(k)
  BY <1>4 DEF PeerBegins, netVars
<1>5. CASE PeerFinishes
  BY <1>5 DEF PeerFinishes, netVars
<1>6. CASE UNCHANGED vars
  BY <1>6 DEF vars, netVars, epollVars
<1>7. CASE ProcessPendingTask
  BY <1>7 DEF ProcessPendingTask, netVars
<1>8. CASE Report
  BY <1>8 DEF Report, netVars
<1>13. CASE Drain
  BY <1>13 DEF Drain
<1>14. CASE \E how \in {"fin", "rst"} : PeerEnds(how)
  BY <1>14 DEF PeerEnds
<1> QED BY <1>4, <1>5, <1>6, <1>7, <1>8, <1>13, <1>14

LEMMA StepHandler ==
  ASSUME Types, Handler, Step
  PROVE  Handler'
<1>0. link \in {"up", "fin", "rst"}
  BY DEF Types
<1>1. CASE \/ UNCHANGED vars \/ ProcessPendingTask \/ Report
           \/ (\E k \in Kinds : PeerBegins(k)) \/ PeerFinishes
           \/ Drain \/ (\E how \in {"fin", "rst"} : PeerEnds(how))
  <2>1. HandlerFrame
    BY <1>1, HandlerFrames
  <2>2. /\ link' = link \/ (link' = "fin" /\ link = "up") \/ link' = "rst"
        /\ raised' = raised \/ (raised' = raised \cup ReadyMask /\ link' = link)
    BY <1>1, LinkFrames
  <2>3. link # "rst" => ReadyMask \cap {"CLOSE", "ERR"} = {}
    BY DEF ReadyMask
  <2>4. link' # "rst" => raised' \cap {"CLOSE", "ERR"} = {}
    BY <2>2, <2>3 DEF Handler
  <2>5. "CLOSE" \in hmask => link' \in {"fin", "rst"}
    BY <2>2 DEF Handler
  <2>6. hpc = "close" /\ link' = "up" => closeWhenEmpty /\ writebuf = <<>>
    BY <2>2 DEF Handler
  <2> QED BY <2>1, <2>4, <2>5, <2>6 DEF HandlerFrame, Handler
<1>2. CASE OnEvent
  <2>1. UNCHANGED <<link, writebuf, closeWhenEmpty>> /\ raised' = {} /\ hpc = "idle" /\ isClosed' = isClosed
    BY <1>2 DEF OnEvent, netVars
  <2>2. CASE isClosed
    <3>1. hpc' = hpc /\ hmask' = hmask
      BY <1>2, <2>2, EventPhase
    <3> QED BY <2>1, <3>1 DEF Handler
  <2>3. CASE ~isClosed /\ link = "rst"
    <3>1. hpc' \in {"READ", "WRITE", "tail", "close"}
      BY <1>2, <2>3, EventPhase
    <3> QED BY <2>1, <2>3, <3>1 DEF Handler
  <2>4. CASE ~isClosed /\ link # "rst"
    <3>1. "CLOSE" \notin hmask' /\ hpc' \in {"READ", "WRITE", "tail"}
      BY <1>2, <2>4, EventPhase
    <3> QED BY <2>1, <2>4, <3>1 DEF Handler
  <2> QED BY <2>2, <2>3, <2>4
<1>3. CASE OnReadable
  <2>1. UNCHANGED <<link, isClosed, raised>> /\ hpc = "READ"
    BY <1>3 DEF OnReadable, netVars, flagVars, epollVars
  <2>2. hpc' \in {"recv", "WRITE", "tail"} /\ (link = "up" => hmask' = hmask)
    BY <1>3, ReadablePhase
  <2>3. ~isClosed
    BY <2>1 DEF Handler
  <2> QED BY <1>0, <2>1, <2>2, <2>3 DEF Handler
<1>4. CASE Receives
  <2>1. /\ hpc = "recv" /\ hpc' \in {"recv", "WRITE", "tail"} /\ hmask' = hmask
        /\ UNCHANGED <<link, isClosed, raised>>
    BY <1>4, ReceivesPhase DEF netVars
  <2>2. ~isClosed
    BY <2>1 DEF Handler
  <2> QED BY <2>1, <2>2 DEF Handler
<1>5. CASE NoWrite \/ \E n \in 1..Len(writebuf) : Writes(n)
  <2>1. /\ hpc = "WRITE" /\ hpc' = "tail" /\ UNCHANGED <<link, isClosed, raised>>
        /\ hmask' = hmask \/ link = "rst"
    BY <1>5 DEF NoWrite, Writes, Wrote, WriteFrame, flagVars, epollVars
  <2>2. ~isClosed
    BY <2>1 DEF Handler
  <2> QED BY <2>1, <2>2 DEF Handler
<1>6. CASE OnEventTail
  <2>1. /\ hpc = "tail" /\ UNCHANGED <<link, isClosed, raised, writebuf>>
        /\ \/ hpc' = "idle" /\ hmask' = {}
           \/ hpc' = "close" /\ hmask' = hmask /\ writebuf = <<>> /\ closeWhenEmpty' = closeWhenEmpty
              /\ ("CLOSE" \in hmask \/ closeWhenEmpty)
    BY <1>6 DEF OnEventTail, netVars, flagVars, epollVars, HEnd, HGoto
  <2>2. ~isClosed
    BY <2>1 DEF Handler
  <2> QED BY <2>1, <2>2 DEF Handler
<1>7. CASE OnClose
  <2>1. hpc' = "idle" /\ hmask' = {} /\ UNCHANGED <<link, raised>>
    BY <1>7 DEF OnClose, HEnd, netVars, epollVars
  <2> QED BY <2>1 DEF Handler
<1> QED BY <1>1, <1>2, <1>3, <1>4, <1>5, <1>6, <1>7 DEF Step
-----------------------------------------------------------------------------
(* The tasks of the stream.                                                *)

LEMMA OneTask ==
  ASSUME NEW t \in TaskNames
  PROVE  <<t>> \in Seq(TaskNames) /\ Len(<<t>>) = 1 /\ <<t>>[1] = t /\ \A i \in 1..Len(<<t>>) : <<t>>[i] = t
OBVIOUS

\* Changes of the interest are all that an open stream posts.
Changes(ts) == ts \in Seq(TaskNames) /\ \A i \in 1..Len(ts) : ts[i] \in {"ModR", "ModRW"}

LEMMA TaskSteps ==
  ASSUME Types, Step, ~OnClose, ~ProcessPendingTask
  PROVE  /\ interest' = interest /\ moved' = moved /\ isClosed' = isClosed
         /\ tasks' = tasks \/ (hpc # "idle" /\ \E ts : Changes(ts) /\ tasks' = tasks \o ts)
<1>0. ASSUME NEW t \in {"ModR", "ModRW"} PROVE Changes(<<t>>)
  BY OneTask DEF Changes, TaskNames
<1>1. CASE Receives
  <2>1. tasks' = tasks \/ tasks' = tasks \o <<"ModRW">>
    BY <1>1 DEF Receives, Await, Spoil, Serve
  <2> QED BY <1>0, <1>1, <2>1, ReceivesPhase
<1>2. CASE \E n \in 1..Len(writebuf) : Writes(n)
  <2>1. PICK n \in 1..Len(writebuf) : Writes(n)
    BY <1>2
  <2>2. PICK ts : GivesUp(ts, n) /\ tasks' = tasks \o ts
    BY <2>1, WritesPost
  <2>3. hpc = "WRITE" /\ interest' = interest /\ moved' = moved /\ isClosed' = isClosed
    BY <2>1 DEF Writes, Wrote, WriteFrame, epollVars, flagVars
  <2> QED BY <2>2, <2>3 DEF GivesUp, Changes
<1>3. CASE NoWrite
  <2>1. tasks' = tasks \/ tasks' = tasks \o <<"ModR">>
    BY <1>3 DEF NoWrite
  <2>2. hpc = "WRITE" /\ interest' = interest /\ moved' = moved /\ isClosed' = isClosed
    BY <1>3 DEF NoWrite, WriteFrame, epollVars, flagVars
  <2> QED BY <1>0, <2>1, <2>2
<1>4. CASE OnEventTail
  <2>1. tasks' = tasks \/ tasks' = tasks \o <<"ModRW">>
    BY <1>4 DEF OnEventTail, PostTasks
  <2>2. hpc = "tail" /\ interest' = interest /\ moved' = moved /\ isClosed' = isClosed
    BY <1>4 DEF OnEventTail, epollVars, flagVars
  <2> QED BY <1>0, <2>1, <2>2
<1>5. CASE \E k \in Kinds : PeerBegins(k)
  BY <1>5 DEF PeerBegins, flagVars
<1>6. CASE PeerFinishes
  BY <1>6 DEF PeerFinishes, flagVars
<1>7. CASE UNCHANGED vars
  BY <1>7 DEF vars, epollVars, flagVars
<1>8. CASE Report
  BY <1>8 DEF Report, flagVars
<1>9. CASE OnEvent
  BY <1>9 DEF OnEvent
<1>10. CASE OnReadable
  BY <1>10 DEF OnReadable, epollVars, flagVars
<1>11. CASE Drain
  BY <1>11 DEF Drain, flagVars
<1>12. CASE \E how \in {"fin", "rst"} : PeerEnds(how)
  BY <1>12 DEF PeerEnds, flagVars
<1> QED BY <1>1, <1>2, <1>3, <1>4, <1>5, <1>6, <1>7, <1>8, <1>9, <1>10, <1>11, <1>12 DEF Step

\* A stream that is not in epoll yet has not been heard of.
Pristine == /\ interest = "none" /\ tasks = <<"AddR">> /\ ~armed /\ raised = {} /\ hpc = "idle"
            /\ ~closeWhenEmpty /\ writebuf = <<>>

LEMMA PristineSteps ==
  ASSUME Types, Pristine, Step, ~ProcessPendingTask
  PROVE  Pristine'
<1>1. CASE UNCHANGED vars
  BY <1>1 DEF Pristine, vars, epollVars, handlerVars
<1>2. ASSUME NEW k \in Kinds, PeerBegins(k) PROVE Pristine'
  <2>1. ~armed'
    BY <1>2 DEF Pristine, PeerBegins, Wake
  <2>2. UNCHANGED <<interest, tasks, raised, hpc, closeWhenEmpty, writebuf>>
    BY <1>2 DEF PeerBegins, handlerVars
  <2> QED BY <2>1, <2>2 DEF Pristine
<1>3. CASE PeerFinishes
  BY <1>3 DEF Pristine, PeerFinishes, Wake, handlerVars
<1>4. CASE Drain
  BY <1>4 DEF Pristine, Drain, Wake, handlerVars
<1>5. ASSUME NEW how \in {"fin", "rst"}, PeerEnds(how) PROVE Pristine'
  <2>1. ~armed'
    BY <1>5 DEF Pristine, PeerEnds, Wake
  <2>2. UNCHANGED <<interest, tasks, raised, hpc, closeWhenEmpty, writebuf>>
    BY <1>5 DEF PeerEnds, handlerVars
  <2> QED BY <2>1, <2>2 DEF Pristine
<1>6. ~Report /\ ~OnEvent /\ ~OnReadable /\ ~OnEventTail /\ ~OnClose
  BY DEF Pristine, Report, OnEvent, OnReadable, OnEventTail, OnClose
<1>7. ~Receives /\ ~NoWrite /\ ~ \E n \in 1..Len(writebuf) : Writes(n)
  BY DEF Pristine, Receives, Await, Spoil, Serve, NoWrite, Writes, Wrote
<1> QED BY <1>1, <1>2, <1>3, <1>4, <1>5, <1>6, <1>7 DEF Step

LEMMA StepTasks ==
  ASSUME Types, Tasks, Handler, Step
  PROVE  Tasks'
<1> SUFFICES ASSUME ~isClosed'
             PROVE  Pristine' \/ (interest' # "none" /\ \A i \in 1..Len(tasks') : tasks'[i] \in {"ModR", "ModRW"})
  BY DEF Tasks, Pristine
<1>1. ~OnClose
  BY DEF OnClose
<1>2. isClosed' = isClosed
  BY <1>1, TaskSteps DEF ProcessPendingTask, flagVars
<1>3. Pristine \/ (interest # "none" /\ \A i \in 1..Len(tasks) : tasks[i] \in {"ModR", "ModRW"})
  BY <1>2 DEF Tasks, Pristine
<1>4. CASE ProcessPendingTask
  <2>1. /\ tasks # <<>> /\ Len(tasks) >= 1 /\ Len(tasks') = Len(tasks) - 1
        /\ \A i \in 1..Len(tasks) - 1 : tasks'[i] = tasks[i + 1]
        /\ tasks[1] = "AddR" => interest' = "R" /\ armed' = TRUE
        /\ tasks[1] = "ModR" => IF interest = "RW" THEN interest' = "R" /\ armed' = TRUE
                                ELSE interest' = interest /\ armed' = armed
        /\ tasks[1] = "ModRW" => IF interest = "R" THEN interest' = "RW" /\ armed' = TRUE
                                 ELSE interest' = interest /\ armed' = armed
    BY <1>4, Runs
  <2>2. Len(tasks) \in Nat
    BY Members DEF Types
  <2>3. CASE Pristine
    <3>1. tasks[1] = "AddR" /\ Len(tasks) = 1
      BY <2>3 DEF Pristine
    <3>2. interest' = "R" /\ Len(tasks') = 0
      BY <2>1, <3>1
    <3> QED BY <3>2
  <2>4. CASE interest # "none" /\ \A i \in 1..Len(tasks) : tasks[i] \in {"ModR", "ModRW"}
    <3>1. 1 \in 1..Len(tasks)
      BY <2>1, <2>2
    <3>2. interest' # "none"
      BY <2>1, <2>4, <3>1
    <3>3. ASSUME NEW i \in 1..Len(tasks') PROVE tasks'[i] \in {"ModR", "ModRW"}
      <4>1. i \in 1..Len(tasks) - 1 /\ i + 1 \in 1..Len(tasks)
        BY <2>1, <2>2
      <4> QED BY <2>1, <2>4, <4>1
    <3> QED BY <3>2, <3>3
  <2> QED BY <1>3, <2>3, <2>4
<1>5. CASE ~ProcessPendingTask
  <2>1. CASE Pristine
    BY <1>5, <2>1, PristineSteps
  <2>2. CASE interest # "none" /\ \A i \in 1..Len(tasks) : tasks[i] \in {"ModR", "ModRW"}
    <3>1. interest' = interest /\ moved' = moved /\ (tasks' = tasks \/ \E ts : Changes(ts) /\ tasks' = tasks \o ts)
      BY <1>1, <1>5, TaskSteps
    <3>2. CASE tasks' = tasks
      BY <2>2, <3>1, <3>2
    <3>3. ASSUME NEW ts, Changes(ts), tasks' = tasks \o ts
          PROVE  \A i \in 1..Len(tasks') : tasks'[i] \in {"ModR", "ModRW"}
      <4>1. \A i \in 1..Len(tasks) : tasks'[i] = tasks[i]
        BY <3>1, <3>3, Posted DEF Changes
      <4>2. \A i \in 1..Len(tasks') :
               i \in 1..Len(tasks) \/ (i - Len(tasks) \in 1..Len(ts) /\ tasks'[i] = ts[i - Len(tasks)])
        BY <3>1, <3>3, Posted DEF Changes
      <4> QED BY <2>2, <3>3, <4>1, <4>2 DEF Changes
    <3> QED BY <2>2, <3>1, <3>2, <3>3
  <2> QED BY <1>3, <2>1, <2>2
<1> QED BY <1>4, <1>5

\* What is posted last is what is wanted, ...
LEMMA WantedPosted ==
  ASSUME Types, NEW ts \in Seq(TaskNames), Len(ts) >= 1, tasks' = tasks \o ts, moved' = moved
  PROVE  Wanted' = IF ts[Len(ts)] = "ModRW" THEN "RW" ELSE "R"
<1>1. /\ Len(tasks') = Len(tasks) + Len(ts) /\ \A i \in 1..Len(ts) : tasks'[Len(tasks) + i] = ts[i]
  BY Posted
<1>2. Len(ts) \in Nat /\ Len(tasks) \in Nat
  BY Members DEF Types
<1>3. Len(ts) \in 1..Len(ts)
  BY <1>2
<1>4. tasks'[Len(tasks')] = ts[Len(ts)]
  BY <1>1, <1>3
<1>5. tasks' # <<>>
  <2>1. Len(tasks') # 0
    BY <1>1, <1>2
  <2> QED BY <2>1
<1> QED BY <1>4, <1>5 DEF Wanted

LEMMA WantedOne ==
  ASSUME Types, NEW t \in TaskNames, tasks' = tasks \o <<t>>, moved' = moved
  PROVE  Wanted' = IF t = "ModRW" THEN "RW" ELSE "R"
<1> DEFINE ts == <<t>>
<1>1. ts \in Seq(TaskNames) /\ Len(ts) = 1 /\ ts[1] = t
  OBVIOUS
<1>2. tasks' = tasks \o ts
  OBVIOUS
<1> HIDE DEF ts
<1>3. Len(ts) >= 1 /\ ts[Len(ts)] = t
  BY <1>1
<1> QED BY <1>1, <1>2, <1>3, WantedPosted

\* ... and running a task leaves it.
LEMMA WantedRun ==
  ASSUME Types, ProcessPendingTask, interest # "none",
         \A i \in 1..Len(tasks) : tasks[i] \in {"ModR", "ModRW"}
  PROVE  Wanted' = Wanted
<1>1. /\ tasks # <<>> /\ Len(tasks) >= 1 /\ Len(tasks') = Len(tasks) - 1 /\ tasks' \in Seq(TaskNames)
      /\ \A i \in 1..Len(tasks) - 1 : tasks'[i] = tasks[i + 1]
      /\ tasks[1] = "ModR" => IF interest = "RW" THEN interest' = "R" /\ armed' = TRUE
                              ELSE interest' = interest /\ armed' = armed
      /\ tasks[1] = "ModRW" => IF interest = "R" THEN interest' = "RW" /\ armed' = TRUE
                               ELSE interest' = interest /\ armed' = armed
  BY Runs
<1>2. Len(tasks) \in Nat /\ interest \in {"R", "RW"}
  BY Members DEF Types
<1>3. tasks' = <<>> <=> Len(tasks') = 0
  BY <1>1, Members
<1>4. CASE Len(tasks) = 1
  <2>1. 1 \in 1..Len(tasks) /\ tasks[Len(tasks)] = tasks[1] /\ tasks' = <<>>
    BY <1>1, <1>3, <1>4
  <2>2. tasks[1] \in {"ModR", "ModRW"}
    BY <2>1
  <2>3. interest' = IF tasks[1] = "ModRW" THEN "RW" ELSE "R"
    BY <1>1, <1>2, <2>2
  <2> QED BY <1>1, <2>1, <2>3 DEF Wanted
<1>5. CASE Len(tasks) > 1
  <2>1. Len(tasks) - 1 \in 1..Len(tasks) - 1 /\ (Len(tasks) - 1) + 1 = Len(tasks) /\ Len(tasks') # 0
    BY <1>1, <1>2, <1>5
  <2>2. tasks'[Len(tasks')] = tasks[Len(tasks)] /\ tasks' # <<>>
    BY <1>1, <1>3, <2>1
  <2> QED BY <1>1, <2>2 DEF Wanted
<1>6. \A l \in Nat : l >= 1 => l = 1 \/ l > 1
  OBVIOUS
<1>7. Len(tasks) = 1 \/ Len(tasks) > 1
  BY <1>1, <1>2, <1>6, Zenon
<1> QED BY <1>4, <1>5, <1>7

\* In the steps that are not the handler's, the last wish stays.
LEMMA WantedStays ==
  ASSUME Types, Tasks, ~isClosed, ~Pristine,
         \/ UNCHANGED vars \/ ProcessPendingTask \/ Report
         \/ (\E k \in Kinds : PeerBegins(k)) \/ PeerFinishes
         \/ Drain \/ (\E how \in {"fin", "rst"} : PeerEnds(how))
  PROVE  Wanted' = Wanted
<1>1. interest # "none" /\ \A i \in 1..Len(tasks) : tasks[i] \in {"ModR", "ModRW"}
  BY DEF Tasks, Pristine
<1>2. CASE ProcessPendingTask
  BY <1>1, <1>2, WantedRun
<1>3. ASSUME UNCHANGED <<tasks, interest>> PROVE Wanted' = Wanted
  BY <1>3 DEF Wanted
<1>4. CASE UNCHANGED vars
  BY <1>3, <1>4 DEF vars, epollVars
<1>5. CASE Report
  BY <1>3, <1>5 DEF Report
<1>6. CASE \E k \in Kinds : PeerBegins(k)
  BY <1>3, <1>6 DEF PeerBegins
<1>7. CASE PeerFinishes
  BY <1>3, <1>7 DEF PeerFinishes
<1>8. CASE Drain
  BY <1>3, <1>8 DEF Drain
<1>9. CASE \E how \in {"fin", "rst"} : PeerEnds(how)
  BY <1>3, <1>9 DEF PeerEnds
<1> QED BY <1>2, <1>4, <1>5, <1>6, <1>7, <1>8, <1>9

LEMMA StepClosing ==
  ASSUME Types, Handler, Tasks, Closing, Step
  PROVE  Closing'
<1> SUFFICES ASSUME closeWhenEmpty', ~isClosed', hpc' = "idle"
             PROVE  writebuf' # <<>> /\ Wanted' = "RW"
  BY DEF Closing
<1>1. CASE \/ UNCHANGED vars \/ ProcessPendingTask \/ Report
           \/ (\E k \in Kinds : PeerBegins(k)) \/ PeerFinishes
           \/ Drain \/ (\E how \in {"fin", "rst"} : PeerEnds(how))
  <2>1. HandlerFrame
    BY <1>1, HandlerFrames
  <2>2. closeWhenEmpty /\ ~isClosed /\ hpc = "idle" /\ writebuf' = writebuf
    BY <2>1 DEF HandlerFrame
  <2>3. ~Pristine
    BY <2>2 DEF Pristine
  <2>4. Wanted' = Wanted
    BY <1>1, <2>2, <2>3, WantedStays
  <2> QED BY <2>2, <2>4 DEF Closing
<1>2. CASE OnEvent
  <2>1. isClosed' = isClosed /\ link \in {"up", "fin", "rst"}
    BY <1>2, EventPhase DEF Types
  <2>2. hpc' \in {"READ", "WRITE", "tail", "close"}
    <3>1. CASE link = "rst"
      BY <1>2, <2>1, <3>1, EventPhase
    <3>2. CASE link # "rst"
      <4>1. hpc' = IF "READ" \in raised THEN "READ" ELSE IF "WRITE" \in raised THEN "WRITE" ELSE "tail"
        BY <1>2, <2>1, <3>2, EventPhase
      <4> QED BY <4>1
    <3> QED BY <3>1, <3>2
  <2> QED BY <2>2
<1>3. ~OnReadable /\ ~Receives
  BY ReadablePhase, ReceivesPhase
<1>4. ~NoWrite /\ ~ \E n \in 1..Len(writebuf) : Writes(n)
  BY DEF NoWrite, Writes, Wrote
<1>5. ~OnClose
  BY DEF OnClose
<1>6. CASE OnEventTail
  <2>1. /\ writebuf' = writebuf /\ moved' = moved
        /\ writebuf # <<>> /\ tasks' = tasks \o <<"ModRW">>
    BY <1>6 DEF OnEventTail, PostTasks, HGoto, epollVars
  <2>2. Wanted' = "RW"
    <3>1. "ModRW" \in TaskNames
      BY DEF TaskNames
    <3> QED BY <2>1, <3>1, WantedOne
  <2> QED BY <2>1, <2>2
<1> QED BY <1>1, <1>2, <1>3, <1>4, <1>5, <1>6 DEF Step
-----------------------------------------------------------------------------
(* The edges.                                                              *)

\* A task that is posted is not lost before it is run.
GivingUp == \E i \in 1..Len(tasks) : tasks[i] = "ModR"

LEMMA GivingUpStays ==
  ASSUME Types, Step, ~OnClose, ~ProcessPendingTask, GivingUp
  PROVE  GivingUp'
<1>1. PICK i \in 1..Len(tasks) : tasks[i] = "ModR"
  BY DEF GivingUp
<1>2. CASE tasks' = tasks
  BY <1>1, <1>2 DEF GivingUp
<1>3. ASSUME NEW ts, Changes(ts), tasks' = tasks \o ts PROVE GivingUp'
  <2>1. moved' = moved
    BY TaskSteps
  <2>2. Len(tasks') = Len(tasks) + Len(ts) /\ tasks'[i] = tasks[i]
    BY <1>3, <2>1, Posted DEF Changes
  <2>3. Len(tasks) \in Nat /\ Len(ts) \in Nat
    BY <1>3, Members DEF Types, Changes
  <2>4. i \in 1..Len(tasks')
    BY <2>2, <2>3
  <2> QED BY <1>1, <2>2, <2>4 DEF GivingUp
<1> QED BY <1>2, <1>3, TaskSteps

LEMMA GivesUpPosted ==
  ASSUME Types, NEW ts \in Seq(TaskNames), tasks' = tasks \o ts, moved' = moved,
         Len(ts) >= 1, ts[Len(ts)] = "ModR"
  PROVE  GivingUp'
<1>1. /\ Len(tasks') = Len(tasks) + Len(ts) /\ \A i \in 1..Len(ts) : tasks'[Len(tasks) + i] = ts[i]
  BY Posted
<1>2. Len(ts) \in Nat /\ Len(tasks) \in Nat
  BY Members DEF Types
<1>3. Len(ts) \in 1..Len(ts) /\ Len(tasks) + Len(ts) \in 1..Len(tasks')
  BY <1>1, <1>2
<1> QED BY <1>1, <1>3 DEF GivingUp

\* The three edges of an open stream that is in epoll.
ReadEdge == armed \/ "READ" \in raised \/ hpc = "READ"
EndEdge == \/ ReadEdge \/ (hpc # "idle" /\ "CLOSE" \in hmask) \/ hpc = "close" \/ closeWhenEmpty
WriteEdge == \/ armed \/ "WRITE" \in raised
             \/ (hpc \in {"READ", "recv", "WRITE"} /\ "WRITE" \in hmask) \/ GivingUp

LEMMA EdgesAre ==
  /\ Edges <=> (~isClosed /\ interest # "none" =>
                  /\ inbox # <<>> /\ link = "up" => ReadEdge
                  /\ link = "fin" => EndEdge
                  /\ interest = "RW" /\ room /\ link # "rst" => WriteEdge)
  /\ Edges' <=> (~isClosed /\ interest # "none" =>
                  /\ inbox # <<>> /\ link = "up" => ReadEdge
                  /\ link = "fin" => EndEdge
                  /\ interest = "RW" /\ room /\ link # "rst" => WriteEdge)'
BY DEF Edges, ReadEdge, EndEdge, WriteEdge, GivingUp

LEMMA EdgesPoller ==
  ASSUME Types, Edges, ProcessPendingTask \/ Report
  PROVE  Edges'
<1> SUFFICES ASSUME ~isClosed', interest' # "none"
             PROVE  (/\ inbox # <<>> /\ link = "up" => ReadEdge
                     /\ link = "fin" => EndEdge
                     /\ interest = "RW" /\ room /\ link # "rst" => WriteEdge)'
  BY EdgesAre
<1>1. CASE Report
  <2>1. /\ raised' = raised \cup ReadyMask
        /\ UNCHANGED <<inbox, link, room, interest, hpc, hmask, closeWhenEmpty, tasks>>
    BY <1>1 DEF Report, netVars, handlerVars
  <2>2. inbox # <<>> \/ link = "fin" => "READ" \in raised'
    BY <2>1 DEF ReadyMask
  <2>3. interest = "RW" /\ room => "WRITE" \in raised'
    BY <2>1 DEF ReadyMask
  <2> QED BY <2>1, <2>2, <2>3 DEF ReadEdge, EndEdge, WriteEdge
<1>2. CASE ProcessPendingTask
  <2>1. CASE armed'
    BY <2>1 DEF ReadEdge, EndEdge, WriteEdge
  <2>2. CASE ~armed'
    <3>1. UNCHANGED <<inbox, link, room, isClosed, hpc, hmask, closeWhenEmpty, raised>>
      BY <1>2 DEF ProcessPendingTask, netVars, handlerVars, flagVars
    <3>2. tasks[1] \in {"AddR", "ModR", "ModRW", "Del"} /\ Len(tasks) >= 1 /\ Len(tasks) \in Nat
      BY <1>2, Runs, Members DEF TaskNames, Types
    <3>3. tasks[1] \in {"ModR", "ModRW"}
      BY <1>2, <2>2, <3>2, Runs
    <3>4. interest' = interest /\ armed' = armed /\ (tasks[1] = "ModR" => interest # "RW")
      BY <1>2, <2>2, <3>3, Runs
    <3>5. GivingUp /\ interest = "RW" => GivingUp'
      <4> SUFFICES ASSUME GivingUp, interest = "RW" PROVE GivingUp'
        OBVIOUS
      <4>1. PICK i \in 1..Len(tasks) : tasks[i] = "ModR"
        BY DEF GivingUp
      <4>2. i # 1
        BY <3>4, <4>1
      <4>3. i - 1 \in 1..Len(tasks) - 1 /\ (i - 1) + 1 = i
        BY <3>2, <4>2
      <4>4. Len(tasks') = Len(tasks) - 1 /\ tasks'[i - 1] = tasks[i]
        BY <1>2, <4>3, Runs
      <4> QED BY <4>1, <4>3, <4>4 DEF GivingUp
    <3>6. /\ inbox # <<>> /\ link = "up" => ReadEdge
          /\ link = "fin" => EndEdge
          /\ interest = "RW" /\ room /\ link # "rst" => WriteEdge
      BY <3>1, <3>4, EdgesAre
    <3>7. (inbox # <<>> /\ link = "up" => ReadEdge)'
      BY <3>1, <3>4, <3>6 DEF ReadEdge
    <3>8. (link = "fin" => EndEdge)'
      BY <3>1, <3>4, <3>6 DEF EndEdge, ReadEdge
    <3>9. (interest = "RW" /\ room /\ link # "rst" => WriteEdge)'
      BY <3>1, <3>4, <3>5, <3>6 DEF WriteEdge
    <3> QED BY <3>7, <3>8, <3>9
  <2> QED BY <2>1, <2>2
<1> QED BY <1>1, <1>2

\* Whatever the peer does puts the stream on epoll's ready list.
LEMMA EdgesPeer ==
  ASSUME \/ (\E k \in Kinds : PeerBegins(k)) \/ PeerFinishes
         \/ Drain \/ (\E how \in {"fin", "rst"} : PeerEnds(how))
  PROVE  Edges'
<1>1. interest' = interest /\ (armed' <=> interest # "none")
  <2>1. CASE \E k \in Kinds : PeerBegins(k)
    BY <2>1 DEF PeerBegins, Wake
  <2>2. CASE PeerFinishes
    BY <2>2 DEF PeerFinishes, Wake
  <2>3. CASE Drain
    BY <2>3 DEF Drain, Wake
  <2>4. CASE \E how \in {"fin", "rst"} : PeerEnds(how)
    BY <2>4 DEF PeerEnds, Wake
  <2> QED BY <2>1, <2>2, <2>3, <2>4
<1> QED BY <1>1, EdgesAre DEF ReadEdge, EndEdge, WriteEdge

LEMMA EdgesHandler ==
  ASSUME Types, Handler, Edges, Step, ~ProcessPendingTask,
         OnEvent \/ OnReadable \/ Receives \/ NoWrite \/ (\E n \in 1..Len(writebuf) : Writes(n)) \/ OnEventTail
  PROVE  Edges'
<1> SUFFICES ASSUME ~isClosed', interest' # "none"
             PROVE  (/\ inbox # <<>> /\ link = "up" => ReadEdge
                     /\ link = "fin" => EndEdge
                     /\ interest = "RW" /\ room /\ link # "rst" => WriteEdge)'
  BY EdgesAre
<1>0. ~OnClose
  BY DEF OnClose
<1>1. interest' = interest /\ isClosed' = isClosed /\ (GivingUp => GivingUp')
  BY <1>0, TaskSteps, GivingUpStays
<1>2. /\ inbox # <<>> /\ link = "up" => ReadEdge
      /\ link = "fin" => EndEdge
      /\ interest = "RW" /\ room /\ link # "rst" => WriteEdge
  BY <1>1, EdgesAre
<1>3. closeWhenEmpty => closeWhenEmpty'
  BY ClosingStays
<1>4. CASE OnEvent
  <2>1. UNCHANGED <<inbox, link, room, armed>> /\ hpc = "idle"
    BY <1>4 DEF OnEvent, netVars
  <2>2. CASE link = "rst"
    BY <2>1, <2>2
  <2>3. CASE link # "rst"
    <3>1. /\ hmask' = raised
          /\ hpc' = IF "READ" \in raised THEN "READ" ELSE IF "WRITE" \in raised THEN "WRITE" ELSE "tail"
      BY <1>1, <1>4, <2>3, EventPhase
    <3>2. ReadEdge => ReadEdge'
      BY <2>1, <3>1 DEF ReadEdge
    <3>3. EndEdge => EndEdge'
      BY <1>3, <2>1, <3>2 DEF EndEdge
    <3>4. WriteEdge => WriteEdge'
      BY <1>1, <2>1, <3>1 DEF WriteEdge
    <3> QED BY <1>1, <1>2, <2>1, <3>2, <3>3, <3>4
  <2> QED BY <2>2, <2>3
<1>5. CASE OnReadable
  <2>1. UNCHANGED <<link, room, armed, raised>> /\ inbox' = <<>> /\ hpc = "READ"
    BY <1>5 DEF OnReadable, netVars, epollVars
  <2>2. /\ hpc' \in {"recv", "WRITE", "tail"} /\ (hpc' = "WRITE" \/ hpc' = "recv" \/ "WRITE" \notin hmask)
        /\ link = "up" => hmask' = hmask
        /\ link # "up" => hmask' = hmask \cup {"CLOSE"}
    BY <1>5, ReadablePhase
  <2>3. link = "fin" => EndEdge'
    BY <2>2 DEF EndEdge
  <2>4. WriteEdge => WriteEdge'
    BY <1>1, <2>1, <2>2 DEF WriteEdge
  <2> QED BY <1>1, <1>2, <2>1, <2>3, <2>4
<1>6. CASE Receives
  <2>1. /\ UNCHANGED <<link, room, inbox, armed, raised, hmask>> /\ hpc = "recv"
        /\ hpc' \in {"recv", "WRITE", "tail"} /\ (hpc' = "WRITE" \/ hpc' = "recv" \/ "WRITE" \notin hmask)
    BY <1>6, ReceivesPhase, ReceivesDrop DEF netVars
  <2>2. ReadEdge => ReadEdge'
    BY <2>1 DEF ReadEdge
  <2>3. EndEdge => EndEdge'
    BY <1>3, <2>1, <2>2 DEF EndEdge
  <2>4. WriteEdge => WriteEdge'
    BY <1>1, <2>1 DEF WriteEdge
  <2> QED BY <1>1, <1>2, <2>1, <2>2, <2>3, <2>4
<1>7. CASE NoWrite \/ \E n \in 1..Len(writebuf) : Writes(n)
  <2>1. /\ UNCHANGED <<link, inbox, armed, raised>> /\ hpc = "WRITE" /\ hpc' = "tail"
        /\ hmask' = hmask \/ hmask' = hmask \cup {"CLOSE"}
    BY <1>7 DEF NoWrite, Writes, Wrote, WriteFrame, epollVars
  <2>2. ReadEdge => ReadEdge'
    BY <2>1 DEF ReadEdge
  <2>3. EndEdge => EndEdge'
    BY <1>3, <2>1, <2>2 DEF EndEdge
  <2>4. interest = "RW" /\ room' /\ link # "rst" => WriteEdge'
    <3>1. CASE NoWrite
      <4>1. room' = room /\ moved' = moved
        BY <3>1 DEF NoWrite, WriteFrame, epollVars
      <4>2. CASE tasks' = tasks \o <<"ModR">>
        <5>1. "ModR" \in TaskNames
          BY DEF TaskNames
        <5> DEFINE ts == <<"ModR">>
        <5>2. ts \in Seq(TaskNames) /\ Len(ts) = 1 /\ ts[1] = "ModR" /\ tasks' = tasks \o ts
          BY <4>2, <5>1
        <5> HIDE DEF ts
        <5>3. Len(ts) >= 1 /\ ts[Len(ts)] = "ModR"
          BY <5>2
        <5>4. GivingUp'
          BY <4>1, <5>2, <5>3, GivesUpPosted
        <5> QED BY <5>4 DEF WriteEdge
      <4>3. CASE link = "rst" \/ ~room
        BY <4>1, <4>3
      <4> QED BY <3>1, <4>2, <4>3 DEF NoWrite
    <3>2. ASSUME NEW n \in 1..Len(writebuf), Writes(n), room' PROVE WriteEdge'
      <4>1. n = Len(writebuf) /\ moved' = moved
        BY <3>2 DEF Writes, Wrote, WriteFrame, epollVars
      <4>2. PICK ts : GivesUp(ts, n) /\ tasks' = tasks \o ts
        BY <3>2, WritesPost
      <4>3. ts \in Seq(TaskNames) /\ Len(ts) >= 1 /\ ts[Len(ts)] = "ModR"
        BY <4>1, <4>2 DEF GivesUp
      <4>4. GivingUp'
        BY <4>1, <4>2, <4>3, GivesUpPosted
      <4> QED BY <4>4 DEF WriteEdge
    <3> QED BY <1>7, <3>1, <3>2
  <2> QED BY <1>1, <1>2, <2>1, <2>2, <2>3, <2>4
<1>8. CASE OnEventTail
  <2>1. /\ UNCHANGED <<link, room, inbox, armed, raised>> /\ hpc = "tail"
        /\ "CLOSE" \in hmask => hpc' = "close" \/ closeWhenEmpty'
    BY <1>8 DEF OnEventTail, netVars, epollVars, HGoto
  <2>2. ReadEdge => ReadEdge'
    BY <2>1 DEF ReadEdge
  <2>3. EndEdge => EndEdge'
    BY <1>3, <2>1, <2>2 DEF EndEdge
  <2>4. WriteEdge => WriteEdge'
    BY <1>1, <2>1 DEF WriteEdge
  <2> QED BY <1>1, <1>2, <2>1, <2>2, <2>3, <2>4
<1> QED BY <1>4, <1>5, <1>6, <1>7, <1>8

LEMMA StepEdges ==
  ASSUME Types, Handler, Edges, Step
  PROVE  Edges'
<1>1. CASE UNCHANGED vars
  <2>1. UNCHANGED <<isClosed, interest, inbox, link, room, armed, raised, hpc, hmask, closeWhenEmpty, tasks>>
    BY <1>1 DEF vars, flagVars, epollVars, netVars, handlerVars
  <2> QED BY <2>1 DEF Edges
<1>2. CASE OnClose
  <2>1. isClosed'
    BY <1>2 DEF OnClose
  <2> QED BY <2>1 DEF Edges
<1>3. CASE ProcessPendingTask \/ Report
  BY <1>3, EdgesPoller
<1>4. CASE ~ProcessPendingTask
  BY <1>1, <1>2, <1>3, <1>4, EdgesPeer, EdgesHandler DEF Step
<1> QED BY <1>3, <1>4
-----------------------------------------------------------------------------
(* A peer that does not pipeline.                                          *)

\* What SMT needs to know of the sequences.
LEMMA Lengths ==
  ASSUME Types
  PROVE  /\ Len(readbuf) \in Nat /\ Len(inbox) \in Nat /\ Len(writebuf) \in Nat /\ Len(received) \in Nat
         /\ Len(pending) \in Nat /\ Len(tasks) \in Nat /\ sent \in Nat /\ N \in Nat
         /\ readbuf = <<>> <=> Len(readbuf) = 0
         /\ inbox = <<>> <=> Len(inbox) = 0
         /\ writebuf = <<>> <=> Len(writebuf) = 0
         /\ received = <<>> <=> Len(received) = 0
         /\ pending = <<>> <=> Len(pending) = 0
         /\ tasks = <<>> <=> Len(tasks) = 0
<1>1. /\ readbuf \in Seq(Halves) /\ inbox \in Seq(Halves) /\ writebuf \in Seq(Answers)
      /\ received \in Seq(Answers) /\ pending \in Seq(Requests) /\ tasks \in Seq(TaskNames)
      /\ sent \in 0..N
  BY DEF Types
<1>2. sent \in Nat /\ N \in Nat
  BY <1>1, ServerAssumption
<1> QED BY <1>1, <1>2, Members

\* While a request is under way, it is the first thing in readbuf.
LEMMA AskingTaken ==
  ASSUME Types, Incoming, Asking
  PROVE  Taken = 2 * sent - 2 /\ Skipped = 0
<1>1. sent >= 1 /\ Len(readbuf) + Len(inbox) = (IF begun THEN 1 ELSE 2)
  BY DEF Asking
<1>2. Len(readbuf) \in Nat /\ Len(inbox) \in Nat /\ sent \in Nat
  BY Lengths
<1>3. Taken = 2 * sent - 2
  BY <1>1, <1>2 DEF Taken, Total
<1>4. Skipped = 0
  <2> SUFFICES ASSUME readbuf # <<>>, readbuf[1][2] = 2 PROVE FALSE
    BY DEF Skipped
  <2>1. 1 \in 1..Len(readbuf)
    BY Lengths
  <2>2. Place(readbuf[1]) = Taken + 1 /\ readbuf[1][1] \in Nat
    <3>1. readbuf[1][1] \in Requests
      BY <2>1, Typed, Buffers
    <3> QED BY <2>1, <3>1, Typed, Counters DEF Incoming
  <2>3. 2 * (readbuf[1][1] - 1) + 2 = (2 * sent - 2) + 1
    BY <1>3, <2>2 DEF Place
  <2>4. \A a, b \in Nat : ~ (2 * (a - 1) + 2 = (2 * b - 2) + 1)
    OBVIOUS
  <2> QED BY <1>2, <2>2, <2>3, <2>4
<1> QED BY <1>3, <1>4

LEMMA NothingSkipped ==
  ASSUME Types, Dropped(0)
  PROVE  readbuf' = readbuf
<1>1. Len(readbuf') = Len(readbuf) - 0 /\ \A i \in 1..Len(readbuf) - 0 : readbuf'[i] = readbuf[0 + i]
  BY DroppedType
<1>2. readbuf' \in Seq(Halves) /\ readbuf \in Seq(Halves) /\ Len(readbuf) \in Nat
  BY DroppedType DEF Types
<1>3. Len(readbuf') = Len(readbuf) /\ \A i \in 1..Len(readbuf') : readbuf'[i] = readbuf[i]
  BY <1>1, <1>2
<1> QED BY <1>2, <1>3, SeqEqual

\* A request that is served while one is under way is that one, and nothing is
\* left of it to read.
LEMMA ServesSent ==
  ASSUME Types, Incoming, Controllers, Asking, NEW r \in Requests, NEW k \in Nat, Serve(r, k)
  PROVE  /\ r = sent /\ ~begun /\ inbox = <<>> /\ inbox' = <<>> /\ k \in {1, 2}
         /\ Len(readbuf') = 2 - k /\ sendsize[sent] = 0
<1>1. Len(readbuf) >= 2 /\ k >= 1 /\ Taken < 2 * r - 1 /\ 2 * r - 1 <= Taken + k /\ inbox' = inbox
  BY DEF Serve, RecvFrame
<1>2. Len(readbuf) + Len(inbox) = (IF begun THEN 1 ELSE 2)
  BY DEF Asking
<1>3. ~begun /\ Len(readbuf) = 2 /\ Len(inbox) = 0
  <2>1. Len(readbuf) + Len(inbox) \in {1, 2} /\ (begun => Len(readbuf) + Len(inbox) = 1)
    BY <1>2
  <2>2. Len(readbuf) \in Nat /\ Len(inbox) \in Nat
    BY Lengths
  <2>3. \A a, b \in Nat : a >= 2 /\ a + b \in {1, 2} => a = 2 /\ b = 0 /\ a + b # 1
    OBVIOUS
  <2> QED BY <1>1, <2>1, <2>2, <2>3, Zenon
<1>4. Taken = 2 * sent - 2 /\ sent \in Nat /\ r \in Nat
  BY AskingTaken, Fresh, Lengths
<1>5. k \in Nat /\ k <= Len(readbuf) /\ Len(readbuf') = Len(readbuf) - k
  BY DroppedType DEF Serve
<1>6. r = sent
  <2>1. \A a, b, c \in Nat : 2 * b - 2 < 2 * a - 1 /\ 2 * a - 1 <= (2 * b - 2) + c /\ c <= 2 => a = b
    OBVIOUS
  <2>2. k <= 2
    BY <1>3, <1>5
  <2> QED BY <1>1, <1>4, <1>5, <2>1, <2>2
<1> QED BY <1>1, <1>3, <1>5, <1>6, Fresh, Lengths

AnsweringLast ==
  writebuf # <<>> /\ kind[sent] # "list" =>
    pending = <<sent>> /\ sendsize[sent] + Len(writebuf) = 2 /\ Wanted = "RW"

LEMMA AnsweringIs ==
  Answering' <=> /\ ~begun' /\ readbuf' = <<>> /\ inbox' = <<>>
                 /\ Len(received') + Len(writebuf') = 2 * sent'
                 /\ \A i \in 1..Len(writebuf') : writebuf'[i][1] = sent'
                 /\ pending' = <<>> \/ (pending' = <<sent'>> /\ writebuf' # <<>>)
                 /\ AnsweringLast'
BY DEF Answering, AnsweringLast

\* Steps in which no half moves and no controller is made.
Still == UNCHANGED <<sent, kind, begun, received, readbuf, inbox, writebuf, pending, sendsize>>

LEMMA LockstepStill ==
  ASSUME Types, Asking \/ Answering, Still, writebuf # <<>> => Wanted' = Wanted,
         link' = "up" /\ hpc = "recv" => link = "up" /\ hpc' = "recv",
         link' = "up" => link = "up"
  PROVE  Asking' \/ Answering'
<1>1. CASE Asking
  BY <1>1 DEF Asking, Still
<1>2. CASE Answering
  <2>1. AnsweringLast'
    BY <1>2 DEF Answering, AnsweringLast, Still
  <2> QED BY <1>2, <2>1, AnsweringIs DEF Answering, Still
<1> QED BY <1>1, <1>2

LEMMA LockstepOthers ==
  ASSUME Types, Tasks, ~isClosed, Asking \/ Answering,
         \/ UNCHANGED vars \/ ProcessPendingTask \/ Report
         \/ Drain \/ (\E how \in {"fin", "rst"} : PeerEnds(how))
  PROVE  Asking' \/ Answering'
<1>1. HandlerFrame /\ (link' = "up" => link = "up")
  BY HandlerFrames, LinkFrames
<1>2. UNCHANGED <<sent, kind, begun, received, inbox>>
  <2>1. CASE UNCHANGED vars
    BY <2>1 DEF vars, peerVars
  <2>2. CASE ProcessPendingTask
    BY <2>2 DEF ProcessPendingTask, peerVars
  <2>3. CASE Report
    BY <2>3 DEF Report, peerVars
  <2>4. CASE Drain
    BY <2>4 DEF Drain, peerVars
  <2>5. CASE \E how \in {"fin", "rst"} : PeerEnds(how)
    BY <2>5 DEF PeerEnds, peerVars
  <2> QED BY <2>1, <2>2, <2>3, <2>4, <2>5
<1>3. Still
  BY <1>1, <1>2 DEF Still, HandlerFrame
<1>4. writebuf # <<>> => Wanted' = Wanted
  <2>1. writebuf # <<>> => ~Pristine
    BY DEF Pristine
  <2> QED BY <2>1, WantedStays
<1> QED BY <1>1, <1>3, <1>4, LockstepStill DEF HandlerFrame

LEMMA LockstepHandler ==
  ASSUME Types, Handler, ~isClosed, Asking \/ Answering, ~isClosed', ~closeWhenEmpty',
         OnEvent \/ OnReadable \/ OnEventTail
  PROVE  Asking' \/ Answering'
<1>1. CASE OnEvent
  <2>1. Still /\ hpc = "idle" /\ UNCHANGED <<link, tasks, interest>>
    BY <1>1 DEF OnEvent, Still, peerVars, connVars, netVars
  <2>2. Wanted' = Wanted
    BY <2>1 DEF Wanted
  <2> QED BY <2>1, <2>2, LockstepStill
<1>2. CASE OnEventTail
  <2>1. Still /\ hpc = "tail" /\ UNCHANGED <<link, tasks, interest>>
    BY <1>2 DEF OnEventTail, Still, peerVars, connVars, netVars, epollVars
  <2>2. Wanted' = Wanted
    BY <2>1 DEF Wanted
  <2> QED BY <2>1, <2>2, LockstepStill
<1>3. CASE OnReadable
  <2>1. /\ UNCHANGED <<sent, kind, begun, received, writebuf, pending, sendsize, link, tasks, interest>>
        /\ hpc = "READ"
    BY <1>3 DEF OnReadable, peerVars, connVars, netVars, epollVars
  <2>2. /\ Types' /\ Len(readbuf') = Len(readbuf) + Len(inbox) /\ Len(inbox') = 0 /\ inbox' = <<>>
    BY <1>3, OnReadableTypes
  <2>3. /\ Len(readbuf) \in Nat /\ Len(inbox) \in Nat /\ (inbox = <<>> <=> Len(inbox) = 0)
        /\ readbuf = <<>> <=> Len(readbuf) = 0
    BY Lengths
  <2>4. CASE Asking
    <3>1. Len(readbuf') + Len(inbox') = Len(readbuf) + Len(inbox)
      BY <2>2, <2>3
    <3>2. link = "up" /\ Len(readbuf') = 2 => hpc' = "recv"
      <4> SUFFICES ASSUME link = "up", Len(readbuf') = 2, hpc' # "recv" PROVE FALSE
        OBVIOUS
      <4>1. inbox = <<>>
        BY <1>3, ReadablePhase
      <4>2. Len(readbuf) = 2
        BY <2>2, <2>3, <4>1
      <4> QED BY <2>1, <2>4, <4>2 DEF Asking
    <3> QED BY <2>1, <2>4, <3>1, <3>2 DEF Asking
  <2>5. CASE Answering
    <3>1. Len(readbuf') = 0
      BY <2>2, <2>3, <2>5 DEF Answering
    <3>2. readbuf' = <<>>
      BY <2>2, <3>1, Members DEF Types
    <3>3. AnsweringLast'
      BY <2>1, <2>5 DEF Answering, AnsweringLast, Wanted
    <3> QED BY <2>1, <2>2, <2>5, <3>2, <3>3, AnsweringIs DEF Answering
  <2> QED BY <2>4, <2>5
<1> QED BY <1>1, <1>2, <1>3

\* The request under way is answered, or more of it is to come.
LEMMA LockstepReceives ==
  ASSUME Types, Incoming, Controllers, Asking \/ Answering, ~closeWhenEmpty', Receives
  PROVE  Asking' \/ Answering'
<1>1. ~Spoil /\ ~ErrorSent /\ \A r \in Requests : ~Unfit(r)
  BY DEF Spoil, ErrorSent, Unfit
<1>2. UNCHANGED <<sent, kind, begun, received, inbox, sendsize, link>> /\ hpc = "recv" /\ moved' = moved
  BY DEF Receives, Await, Spoil, Serve, RecvFrame, peerVars, netVars, epollVars
<1>3. CASE Await
  <2>1. UNCHANGED <<writebuf, pending, tasks, interest>> /\ Dropped(Skipped)
    BY <1>3 DEF Await, RecvFrame, epollVars
  <2>2. Skipped = 0
    <3>1. CASE Asking
      BY <3>1, AskingTaken
    <3>2. CASE Answering
      BY <3>2 DEF Answering, Skipped
    <3> QED BY <3>1, <3>2
  <2>3. readbuf' = readbuf
    BY <2>1, <2>2, NothingSkipped
  <2>4. CASE Asking
    <3>1. Len(readbuf') # 2
      <4>1. readbuf' = <<>> \/ Len(readbuf') = 1
        BY <1>3 DEF Await
      <4>2. readbuf = <<>> => Len(readbuf) = 0
        BY Lengths
      <4> QED BY <2>3, <4>1, <4>2
    <3> QED BY <1>2, <2>1, <2>3, <2>4, <3>1 DEF Asking
  <2>5. CASE Answering
    <3>1. AnsweringLast'
      BY <1>2, <2>1, <2>5 DEF Answering, AnsweringLast, Wanted
    <3> QED BY <1>2, <2>1, <2>3, <2>5, <3>1, AnsweringIs DEF Answering
  <2> QED BY <2>4, <2>5
<1>4. ASSUME NEW r \in Requests, NEW k \in Nat, Serve(r, k) PROVE Asking' \/ Answering'
  <2>1. Len(readbuf) >= 2 /\ k >= 2 /\ (Queued(r) \/ Written(r)) /\ tasks' = tasks \o <<"ModRW">>
    BY <1>1, <1>4 DEF Serve
  <2>2. Asking
    <3>1. readbuf # <<>>
      BY <2>1, Lengths
    <3> QED BY <3>1 DEF Answering
  <2>3. /\ r = sent /\ ~begun /\ inbox = <<>> /\ k \in {1, 2} /\ Len(readbuf') = 2 - k /\ sendsize[sent] = 0
    BY <1>4, <2>2, ServesSent
  <2>4. Len(readbuf') = 0
    BY <2>1, <2>3
  <2>5. readbuf' = <<>>
    <3>1. readbuf' \in Seq(Halves)
      BY <1>4, DroppedType DEF Serve
    <3> QED BY <2>4, <3>1, Members
  <2>6. Written(r) /\ writebuf = <<>> /\ pending = <<>> /\ Len(received) = 2 * (sent - 1)
    BY <2>1, <2>2 DEF Queued, Asking
  <2>7. r \in 0..N
    BY FrontType
  <2>8. /\ Len(writebuf') = Len(writebuf) + 2 /\ writebuf' \in Seq(Answers)
        /\ writebuf'[Len(writebuf) + 1] = <<r, "OK", 1>> /\ writebuf'[Len(writebuf) + 2] = <<r, "OK", 2>>
    BY <1>2, <2>6, <2>7, OutGrown DEF Written
  <2>9. Len(writebuf') = 2 /\ writebuf'[1] = <<r, "OK", 1>> /\ writebuf'[2] = <<r, "OK", 2>>
    <3>1. Len(writebuf) = 0
      BY <2>6, Lengths
    <3> QED BY <2>8, <3>1
  <2>10. \A i \in 1..Len(writebuf') : writebuf'[i][1] = sent'
    <3>1. \A i \in 1..2 : i = 1 \/ i = 2
      OBVIOUS
    <3>2. writebuf'[1][1] = r /\ writebuf'[2][1] = r
      BY <2>9
    <3> QED BY <1>2, <2>3, <2>9, <3>1, <3>2
  <2>11. pending' = <<sent>> /\ writebuf' # <<>>
    <3>1. pending' = Append(<<>>, r)
      BY <2>6 DEF Written
    <3>2. writebuf' # <<>>
      BY <2>8, <2>9, Members
    <3> QED BY <2>3, <3>1, <3>2
  <2>12. Wanted' = "RW"
    <3>1. "ModRW" \in TaskNames
      BY DEF TaskNames
    <3> QED BY <1>2, <2>1, <3>1, WantedOne
  <2>13. Len(received') + Len(writebuf') = 2 * sent'
    <3>1. sent \in Nat
      BY Lengths
    <3> QED BY <1>2, <2>6, <2>9, <3>1
  <2>14. AnsweringLast'
    <3>1. sendsize'[sent'] + Len(writebuf') = 2
      BY <1>2, <2>3, <2>9
    <3> QED BY <1>2, <2>11, <2>12, <3>1 DEF AnsweringLast
  <2> QED BY <1>2, <2>3, <2>5, <2>10, <2>11, <2>13, <2>14, AnsweringIs
<1> QED BY <1>1, <1>3, <1>4 DEF Receives

\* The response is written, in part or to its end.
LEMMA LockstepWrites ==
  ASSUME Types, Asking \/ Answering, ~closeWhenEmpty', NEW n \in 1..Len(writebuf), Writes(n)
  PROVE  Answering'
<1>1. /\ UNCHANGED <<sent, kind, begun, inbox, readbuf, interest>> /\ moved' = moved /\ closeWhenEmpty' = closeWhenEmpty
  BY DEF Writes, Wrote, WriteFrame, epollVars
<1>2. /\ n \in Nat /\ n >= 1 /\ n <= Len(writebuf) /\ writebuf' \in Seq(Answers)
      /\ Len(writebuf') = Len(writebuf) - n /\ Len(received') = Len(received) + n
      /\ \A i \in 1..Len(writebuf) - n : writebuf'[i] = writebuf[n + i]
  BY WroteType DEF Writes
<1>3. /\ Len(writebuf) \in Nat /\ Len(received) \in Nat /\ sent \in Nat
      /\ writebuf = <<>> <=> Len(writebuf) = 0
  BY Lengths
<1>4. writebuf # <<>>
  BY <1>2, <1>3
<1>5. Answering
  BY <1>4 DEF Asking
<1>6. Len(received') + Len(writebuf') = 2 * sent'
  <2>1. Len(received) + Len(writebuf) = 2 * sent
    BY <1>5 DEF Answering
  <2>2. \A a, b, c \in Nat : (a + c) + (b - c) = a + b
    OBVIOUS
  <2>3. (Len(received) + n) + (Len(writebuf) - n) = Len(received) + Len(writebuf)
    BY <1>2, <1>3, <2>2
  <2>4. Len(received') = Len(received) + n /\ Len(writebuf') = Len(writebuf) - n /\ sent' = sent
    BY <1>1, <1>2
  <2> QED BY <2>1, <2>3, <2>4
<1>7. \A i \in 1..Len(writebuf') : writebuf'[i][1] = sent'
  <2>1. ASSUME NEW i \in 1..Len(writebuf') PROVE writebuf'[i] = writebuf[n + i] /\ n + i \in 1..Len(writebuf)
    BY <1>2, <1>3
  <2> QED BY <1>1, <1>5, <2>1 DEF Answering
<1>8. writebuf' = <<>> <=> Len(writebuf') = 0
  BY <1>2, Members
<1>9. (pending' = <<>> \/ (pending' = <<sent'>> /\ writebuf' # <<>>)) /\ AnsweringLast'
  <2>1. ~ClosingSoon(n)
    BY <1>1 DEF ClosingSoon
  <2>2. CASE NonePending(n)
    <3>1. pending = <<>> /\ pending' = <<>>
      BY <2>2 DEF NonePending, connVars
    <3>2. <<sent>> # <<>>
      OBVIOUS
    <3>3. kind[sent] = "list"
      BY <1>4, <1>5, <3>1, <3>2 DEF Answering
    <3> QED BY <1>1, <3>1, <3>3 DEF AnsweringLast
  <2>3. ASSUME Counted(n) PROVE /\ pending = <<sent>> /\ Head(pending) = sent /\ Len(pending) = 1 /\ sent \in Requests
                                /\ sendsize[sent] \in Nat /\ sendsize'[sent] = sendsize[sent] + n
    <3>1. pending = <<sent>>
      BY <1>5, <2>3 DEF Answering, Counted
    <3>2. Head(pending) = sent /\ Len(pending) = 1
      BY <3>1
    <3>3. sent \in Requests
      BY <2>3, <3>2, PendingType DEF Counted
    <3> QED BY <2>3, <3>1, <3>2, <3>3 DEF Counted, Types
  <2>4. CASE Finished(n)
    <3>1. pending' = <<>>
      BY <2>3, <2>4, PendingAfter DEF Finished
    <3>2. kind[sent] # "list" => writebuf' = <<>>
      <4> SUFFICES ASSUME kind[sent] # "list" PROVE writebuf' = <<>>
        OBVIOUS
      <4>1. sendsize[sent] + Len(writebuf) = 2
        BY <1>4, <1>5 DEF Answering
      <4>2. sendsize[sent] + n >= 2
        BY <2>3, <2>4 DEF Finished, AllSent, PackSize
      <4>3. sendsize[sent] \in Nat
        BY <2>3, <2>4 DEF Finished
      <4>4. Len(writebuf') = 0
        BY <1>2, <1>3, <4>1, <4>2, <4>3
      <4> QED BY <1>8, <4>4
    <3> QED BY <1>1, <3>1, <3>2 DEF AnsweringLast
  <2>5. CASE Partly(n)
    <3>1. Counted(n) /\ pending' = pending
      BY <2>5 DEF Partly
    <3>2. /\ sent \in Requests /\ sendsize[sent] \in Nat /\ sendsize'[sent] = sendsize[sent] + n
          /\ Head(pending) = sent /\ pending' = <<sent>>
      BY <2>3, <3>1
    <3>3. ~ (sendsize[sent] + n >= PackSize(sent))
      BY <2>5, <3>2 DEF Partly, AllSent
    <3>4. kind[sent] # "list"
      <4>1. sendsize[sent] + n >= 0
        BY <1>2, <3>2
      <4> QED BY <3>3, <4>1 DEF PackSize
    <3>5. sendsize[sent] + Len(writebuf) = 2 /\ Wanted = "RW"
      BY <1>4, <1>5, <3>4 DEF Answering
    <3>6. ~ (sendsize[sent] + n >= 2)
      BY <3>3, <3>4 DEF PackSize
    <3>7. n # Len(writebuf) /\ Len(writebuf') # 0 /\ sendsize'[sent] + Len(writebuf') = 2
      BY <1>2, <1>3, <3>2, <3>5, <3>6
    <3>8. tasks' = tasks
      <4>1. tasks' = tasks \o After(n)
        BY <2>5 DEF Partly
      <4>2. After(n) = <<>>
        BY <3>7 DEF After
      <4>3. tasks \in Seq(TaskNames)
        BY DEF Types
      <4>4. tasks' = tasks \o <<>>
        BY <4>1, <4>2
      <4>5. tasks \o <<>> = tasks
        BY <4>3, ConcatEmptySeq
      <4> QED BY <4>4, <4>5
    <3>9. Wanted' = "RW"
      BY <1>1, <3>5, <3>8 DEF Wanted
    <3> QED BY <1>1, <1>8, <3>2, <3>7, <3>9 DEF AnsweringLast
  <2> QED BY <2>1, <2>2, <2>4, <2>5 DEF Writes
<1> QED BY <1>1, <1>5, <1>6, <1>7, <1>9, AnsweringIs DEF Answering

\* No more responses than pairs of halves that the peer has.
LEMMA FewResponses ==
  ASSUME Types, Outgoing
  PROVE  Responses \in Nat /\ 2 * Responses <= Len(received)
<1>1. received \in Seq(Answers)
  BY DEF Types
<1>2. ASSUME NEW i \in 1..Len(received), received[i][3] = 2
      PROVE  i > 1 /\ received[i - 1][3] = 1
  <2>1. i \in 1..Len(Out) /\ Out[i] = received[i]
    <3>1. Len(received) \in Nat /\ Len(writebuf) \in Nat /\ Len(Out) = Len(received) + Len(writebuf)
      BY OutIs
    <3>2. i \in 1..Len(Out)
      BY <3>1
    <3> QED BY <3>2, OutIs
  <2>2. i > 1 /\ Out[i - 1][3] = 1
    BY <1>2, <2>1 DEF Outgoing
  <2>3. i - 1 \in 1..Len(received)
    <3>1. Len(received) \in Nat
      BY OutIs
    <3> QED BY <2>2, <3>1
  <2>4. Out[i - 1] = received[i - 1]
    BY <2>3, OutIs
  <2> QED BY <2>2, <2>4
<1> QED BY <1>1, <1>2, ResponsesBound

\* A peer that begins a request without pipelining has all responses.
LEMMA BeginsAnswered ==
  ASSUME Types, Outgoing, NEW k \in Kinds, PeerBegins(k), ~piped'
  PROVE  /\ 2 * sent <= Len(received) /\ ~begun /\ ~isClosed /\ link = "up"
         /\ sent' = sent + 1 /\ begun' = TRUE /\ Len(inbox') = Len(inbox) + 1
         /\ kind' = [kind EXCEPT ![sent + 1] = k]
         /\ UNCHANGED <<received, readbuf, writebuf, pending, closeWhenEmpty, isClosed, hpc, link>>
<1>1. ~(Responses < sent) /\ Responses \in Nat /\ 2 * Responses <= Len(received)
  BY FewResponses DEF PeerBegins
<1>2. sent \in Nat /\ Len(received) \in Nat
  BY Lengths
<1>3. 2 * sent <= Len(received)
  BY <1>1, <1>2
<1>4. Len(inbox') = Len(inbox) + 1
  <2>1. sent + 1 \in Requests /\ inbox' = Append(inbox, <<sent + 1, 1>>)
    BY PeerBeginsTypes DEF PeerBegins
  <2> QED BY <2>1, Arrives
<1> QED BY <1>3, <1>4 DEF PeerBegins, Wake, netVars, connVars, flagVars, handlerVars

LEMMA LockstepPeer ==
  ASSUME Types, Incoming, Outgoing, Asking \/ Answering, ~piped',
         (\E k \in Kinds : PeerBegins(k)) \/ PeerFinishes
  PROVE  Asking' \/ Answering'
<1>1. /\ sent \in Nat /\ Len(received) \in Nat /\ Len(writebuf) \in Nat /\ Len(readbuf) \in Nat
      /\ Len(inbox) \in Nat /\ (writebuf = <<>> <=> Len(writebuf) = 0)
      /\ (inbox = <<>> <=> Len(inbox) = 0) /\ (readbuf = <<>> <=> Len(readbuf) = 0)
  BY Lengths
<1>2. ASSUME NEW k \in Kinds, PeerBegins(k) PROVE Asking'
  <2>1. /\ 2 * sent <= Len(received) /\ ~begun /\ sent' = sent + 1 /\ begun' = TRUE
        /\ Len(inbox') = Len(inbox) + 1
        /\ UNCHANGED <<received, readbuf, writebuf, pending, hpc, link>>
    BY <1>2, BeginsAnswered
  <2>2. Answering
    <3>1. Asking => Len(received) = 2 * (sent - 1)
      BY DEF Asking
    <3> QED BY <1>1, <2>1, <3>1
  <2>3. Len(received) + Len(writebuf) = 2 * sent /\ readbuf = <<>> /\ inbox = <<>>
    BY <2>2 DEF Answering
  <2>4. Len(writebuf) = 0 /\ Len(received) = 2 * sent
    BY <1>1, <2>1, <2>3
  <2>5. writebuf = <<>> /\ pending = <<>>
    BY <1>1, <2>2, <2>4 DEF Answering
  <2>6. Len(readbuf') + Len(inbox') = 1 /\ Len(readbuf') = 0
    BY <1>1, <2>1, <2>3
  <2>7. sent' >= 1 /\ Len(received') = 2 * (sent' - 1)
    BY <1>1, <2>1, <2>4
  <2> QED BY <2>1, <2>5, <2>6, <2>7 DEF Asking
<1>3. CASE PeerFinishes
  <2>1. /\ begun /\ begun' = FALSE
        /\ UNCHANGED <<sent, received, readbuf, writebuf, pending, hpc, link>>
    BY <1>3 DEF PeerFinishes, connVars, netVars, handlerVars
  <2>2. Asking
    BY <2>1 DEF Answering
  <2>3. Len(inbox') = Len(inbox) + 1
    <3>1. sent \in Requests /\ inbox' = Append(inbox, <<sent, 2>>)
      BY <1>3, <2>2, PeerFinishesTypes DEF PeerFinishes, Asking
    <3> QED BY <3>1, Arrives
  <2>4. Len(readbuf) + Len(inbox) = 1
    BY <2>1, <2>2 DEF Asking
  <2>5. Len(readbuf') + Len(inbox') = 2 /\ Len(readbuf') # 2
    BY <1>1, <2>1, <2>3, <2>4
  <2> QED BY <2>1, <2>2, <2>5 DEF Asking
<1> QED BY <1>2, <1>3

LEMMA LockstepNoWrite ==
  ASSUME Types, Asking \/ Answering, NoWrite
  PROVE  Asking' \/ Answering'
<1>1. Still /\ hpc = "WRITE" /\ UNCHANGED <<link, interest>>
  BY DEF NoWrite, WriteFrame, Still, connVars, epollVars
<1>2. writebuf # <<>> => Wanted' = Wanted
  BY <1>1 DEF NoWrite, Wanted
<1> QED BY <1>1, <1>2, LockstepStill

LEMMA StepLockstep ==
  ASSUME Types, Incoming, Controllers, Outgoing, Handler, Tasks, Lockstep, Step
  PROVE  Lockstep'
<1> SUFFICES ASSUME ~piped', ~isClosed', ~closeWhenEmpty' PROVE Asking' \/ Answering'
  BY DEF Lockstep
<1>1. ~OnClose
  BY DEF OnClose
<1>2. isClosed' = isClosed
  BY <1>1, TaskSteps DEF ProcessPendingTask, flagVars
<1>3. ~piped /\ ~isClosed /\ ~closeWhenEmpty
  BY <1>2, PipedStays, ClosingStays
<1>4. Asking \/ Answering
  BY <1>3 DEF Lockstep
<1>5. CASE UNCHANGED vars \/ ProcessPendingTask \/ Report \/ Drain \/ (\E how \in {"fin", "rst"} : PeerEnds(how))
  BY <1>3, <1>4, <1>5, LockstepOthers
<1>6. CASE OnEvent \/ OnReadable \/ OnEventTail
  BY <1>3, <1>4, <1>6, LockstepHandler
<1>7. CASE Receives
  BY <1>4, <1>7, LockstepReceives
<1>8. CASE NoWrite
  BY <1>4, <1>8, LockstepNoWrite
<1>9. CASE \E n \in 1..Len(writebuf) : Writes(n)
  BY <1>4, <1>9, LockstepWrites
<1>10. CASE (\E k \in Kinds : PeerBegins(k)) \/ PeerFinishes
  BY <1>4, <1>10, LockstepPeer
<1> QED BY <1>1, <1>5, <1>6, <1>7, <1>8, <1>9, <1>10 DEF Step
-----------------------------------------------------------------------------
(* After an error header.                                                  *)

LEMMA FailingOthers ==
  ASSUME Types, StuckOnBad \/ LastError \/ ErrorWritten,
         \/ UNCHANGED vars \/ ProcessPendingTask \/ Report
         \/ Drain \/ (\E how \in {"fin", "rst"} : PeerEnds(how))
  PROVE  (StuckOnBad \/ LastError \/ ErrorWritten)'
<1>1. HandlerFrame
  BY HandlerFrames
<1>2. UNCHANGED <<sent, kind, begun, received, inbox>>
  <2>1. CASE UNCHANGED vars
    BY <2>1 DEF vars, peerVars
  <2>2. CASE ProcessPendingTask
    BY <2>2 DEF ProcessPendingTask, peerVars
  <2>3. CASE Report
    BY <2>3 DEF Report, peerVars
  <2>4. CASE Drain
    BY <2>4 DEF Drain, peerVars
  <2>5. CASE \E how \in {"fin", "rst"} : PeerEnds(how)
    BY <2>5 DEF PeerEnds, peerVars
  <2> QED BY <2>1, <2>2, <2>3, <2>4, <2>5
<1> QED BY <1>1, <1>2 DEF HandlerFrame, StuckOnBad, LastError, ErrorWritten, EndsInError

LEMMA FailingHandler ==
  ASSUME Types, Handler, link = "up", closeWhenEmpty, StuckOnBad \/ LastError \/ ErrorWritten,
         OnEvent \/ OnReadable \/ OnEventTail \/ OnClose \/ NoWrite
  PROVE  (StuckOnBad \/ LastError \/ ErrorWritten)'
<1>1. CASE OnEvent
  <2>1. UNCHANGED <<sent, kind, begun, received, readbuf, inbox, writebuf, isClosed>> /\ hpc = "idle"
    BY <1>1, EventPhase DEF OnEvent, peerVars
  <2> QED BY <2>1 DEF StuckOnBad, LastError, ErrorWritten, EndsInError
<1>2. CASE OnReadable
  <2>1. UNCHANGED <<sent, kind, begun, received, writebuf, isClosed>> /\ hpc = "READ"
    BY <1>2 DEF OnReadable, peerVars, flagVars
  <2>2. ~ErrorWritten
    BY <2>1 DEF ErrorWritten, Handler
  <2>3. /\ Types' /\ Len(readbuf') = Len(readbuf) + Len(inbox) /\ Len(inbox') = 0
        /\ \A i \in 1..Len(readbuf) : readbuf'[i] = readbuf[i]
    BY <1>2, OnReadableTypes
  <2>4. Len(readbuf) \in Nat /\ Len(inbox) \in Nat /\ (readbuf = <<>> <=> Len(readbuf) = 0)
    BY Lengths
  <2>5. readbuf' = <<>> <=> Len(readbuf') = 0
    BY <2>3, Members DEF Types
  <2>6. CASE StuckOnBad
    <3>1. Len(readbuf) # 0 /\ 1 \in 1..Len(readbuf) /\ Len(readbuf') # 0
      BY <2>3, <2>4, <2>6 DEF StuckOnBad
    <3>2. readbuf'[1] = readbuf[1] /\ readbuf' # <<>>
      BY <2>3, <2>5, <3>1
    <3> QED BY <2>1, <2>6, <3>2 DEF StuckOnBad, EndsInError
  <2>7. CASE LastError
    <3>1. Len(readbuf') + Len(inbox') <= 1
      <4>1. Len(readbuf) + Len(inbox) <= 1
        BY <2>7 DEF LastError
      <4> QED BY <2>3, <2>4, <4>1
    <3> QED BY <2>1, <2>7, <3>1 DEF LastError, EndsInError
  <2> QED BY <2>2, <2>6, <2>7
<1>3. CASE OnEventTail
  <2>1. /\ UNCHANGED <<sent, kind, begun, received, readbuf, inbox, writebuf, isClosed>> /\ hpc = "tail"
        /\ writebuf = <<>> /\ closeWhenEmpty => hpc' = "close"
    BY <1>3 DEF OnEventTail, peerVars, flagVars, HGoto
  <2> QED BY <2>1 DEF StuckOnBad, LastError, ErrorWritten, EndsInError
<1>4. CASE OnClose
  <2>1. UNCHANGED <<received, writebuf>> /\ isClosed' /\ hpc = "close"
    BY <1>4 DEF OnClose, peerVars
  <2>2. writebuf = <<>>
    BY <2>1 DEF Handler
  <2> QED BY <2>1, <2>2 DEF StuckOnBad, LastError, ErrorWritten, EndsInError
<1>5. CASE NoWrite
  <2>1. UNCHANGED <<sent, kind, begun, received, readbuf, inbox, writebuf, isClosed>> /\ hpc = "WRITE"
    BY <1>5 DEF NoWrite, WriteFrame, flagVars
  <2> QED BY <2>1 DEF StuckOnBad, LastError, ErrorWritten, EndsInError, Handler
<1> QED BY <1>1, <1>2, <1>3, <1>4, <1>5

LEMMA FailingWrites ==
  ASSUME Types, Handler, StuckOnBad \/ LastError \/ ErrorWritten,
         NEW n \in 1..Len(writebuf), Writes(n)
  PROVE  (StuckOnBad \/ LastError \/ ErrorWritten)'
<1>1. UNCHANGED <<sent, kind, begun, inbox, readbuf, isClosed>> /\ hpc = "WRITE" /\ hpc' = "tail"
  BY DEF Writes, Wrote, WriteFrame, flagVars
<1>2. /\ n \in Nat /\ n >= 1 /\ n <= Len(writebuf) /\ Len(writebuf) \in Nat /\ Len(received) \in Nat
      /\ writebuf' \in Seq(Answers) /\ received' \in Seq(Answers)
      /\ Len(writebuf') = Len(writebuf) - n /\ Len(received') = Len(received) + n
      /\ \A i \in 1..n : received'[Len(received) + i] = writebuf[i]
      /\ \A i \in 1..Len(writebuf) - n : writebuf'[i] = writebuf[n + i]
  BY WroteType DEF Writes
<1>3. ~isClosed /\ EndsInError(writebuf) /\ ~ErrorWritten
  <2>1. ~isClosed /\ ~ErrorWritten
    BY <1>1 DEF Handler, ErrorWritten
  <2> QED BY <2>1 DEF StuckOnBad, LastError
<1>4. (writebuf' = <<>> <=> Len(writebuf') = 0) /\ (received' = <<>> <=> Len(received') = 0)
  BY <1>2, Members
<1>5. CASE n = Len(writebuf)
  <2>1. writebuf' = <<>>
    BY <1>2, <1>4, <1>5
  <2>2. received'[Len(received')] = writebuf[Len(writebuf)]
    BY <1>2, <1>5
  <2>3. received' # <<>>
    BY <1>2, <1>4
  <2> QED BY <1>1, <1>3, <2>1, <2>2, <2>3 DEF ErrorWritten, EndsInError
<1>6. CASE n # Len(writebuf)
  <2>1. Len(writebuf') \in 1..Len(writebuf) - n /\ n + Len(writebuf') = Len(writebuf) /\ Len(writebuf') # 0
    BY <1>2, <1>6
  <2>2. EndsInError(writebuf')
    BY <1>2, <1>3, <1>4, <2>1 DEF EndsInError
  <2>3. StuckOnBad => StuckOnBad'
    BY <1>1, <2>2 DEF StuckOnBad
  <2>4. LastError => LastError'
    <3> SUFFICES ASSUME LastError PROVE LastError'
      OBVIOUS
    <3>1. Len(received) + Len(writebuf) = 2 * sent
      BY DEF LastError
    <3>2. Len(received') + Len(writebuf') = Len(received) + Len(writebuf)
      BY <1>2
    <3> QED BY <1>1, <2>2, <3>1, <3>2 DEF LastError
  <2> QED BY <1>3, <2>3, <2>4
<1> QED BY <1>5, <1>6

LEMMA FailingPeer ==
  ASSUME Types, Incoming, Outgoing, StuckOnBad \/ LastError \/ ErrorWritten, ~piped',
         (\E k \in Kinds : PeerBegins(k)) \/ PeerFinishes
  PROVE  (StuckOnBad \/ LastError \/ ErrorWritten)'
<1>0. /\ sent \in Nat /\ Len(received) \in Nat /\ Len(writebuf) \in Nat /\ Len(readbuf) \in Nat
      /\ Len(inbox) \in Nat /\ (writebuf = <<>> <=> Len(writebuf) = 0) /\ (readbuf = <<>> <=> Len(readbuf) = 0)
  BY Lengths
<1>1. ASSUME NEW k \in Kinds, PeerBegins(k) PROVE (StuckOnBad \/ LastError \/ ErrorWritten)'
  <2>1. /\ 2 * sent <= Len(received) /\ ~begun /\ ~isClosed /\ kind' = [kind EXCEPT ![sent + 1] = k]
        /\ UNCHANGED <<received, readbuf, writebuf, isClosed, hpc>>
    BY <1>1, BeginsAnswered
  <2>2. ~LastError
    <3> SUFFICES ASSUME LastError PROVE FALSE
      OBVIOUS
    <3>1. Len(received) + Len(writebuf) = 2 * sent /\ writebuf # <<>>
      BY DEF LastError, EndsInError
    <3> QED BY <1>0, <2>1, <3>1
  <2>3. StuckOnBad => StuckOnBad'
    <3> SUFFICES ASSUME StuckOnBad PROVE StuckOnBad'
      OBVIOUS
    <3>1. 1 \in 1..Len(readbuf)
      BY <1>0 DEF StuckOnBad
    <3>2. readbuf[1][1] \in Requests /\ readbuf[1][1] \in Nat /\ readbuf[1][2] = 1
      BY <3>1, Typed, Buffers, Counters DEF StuckOnBad
    <3>3. 2 * (readbuf[1][1] - 1) + 1 = Taken + 1
      BY <3>1, <3>2 DEF Incoming, Place
    <3>4. Taken + Len(readbuf) <= 2 * sent
      BY <1>0, <2>1 DEF Taken, Total
    <3>5. readbuf[1][1] # sent + 1
      <4>1. Taken \in Int
        BY Typed, Counters
      <4> QED BY <1>0, <3>1, <3>2, <3>3, <3>4, <4>1
    <3>6. kind'[readbuf[1][1]] = kind[readbuf[1][1]]
      BY <2>1, <3>2, <3>5 DEF Types
    <3> QED BY <2>1, <3>6 DEF StuckOnBad, EndsInError
  <2>4. ErrorWritten => ErrorWritten'
    BY <2>1 DEF ErrorWritten, EndsInError
  <2> QED BY <2>2, <2>3, <2>4
<1>2. CASE PeerFinishes
  <2>1. begun /\ UNCHANGED <<sent, kind, received, readbuf, writebuf, isClosed, hpc>>
    BY <1>2 DEF PeerFinishes, flagVars, handlerVars
  <2>2. ~LastError
    BY <2>1 DEF LastError
  <2> QED BY <2>1, <2>2 DEF StuckOnBad, ErrorWritten, EndsInError
<1> QED BY <1>1, <1>2

\* An error header is put out: for the bad header that stays in front, or for
\* the request that was under way.
LEMMA ErrorEnds ==
  ASSUME Types, NEW seq \in 0..N, received' = received, writebuf' = writebuf \o Response(seq, "ERR")
  PROVE  EndsInError(writebuf')
<1>1. /\ Len(writebuf') = Len(writebuf) + 2 /\ writebuf' \in Seq(Answers)
      /\ writebuf'[Len(writebuf) + 2] = <<seq, "ERR", 2>>
  BY OutGrown
<1>2. writebuf' # <<>>
  <2>1. Len(writebuf) \in Nat
    BY Lengths
  <2> QED BY <1>1, <2>1
<1> QED BY <1>1, <1>2 DEF EndsInError

LEMMA FailingReceives ==
  ASSUME Types, Incoming, Controllers, Handler, Receives, closeWhenEmpty',
         closeWhenEmpty => StuckOnBad \/ LastError \/ ErrorWritten,
         ~closeWhenEmpty => Asking \/ Answering
  PROVE  (StuckOnBad \/ LastError \/ ErrorWritten)'
<1>1. UNCHANGED <<sent, kind, begun, received, inbox, isClosed>> /\ hpc = "recv" /\ ~isClosed
  <2>1. UNCHANGED <<sent, kind, begun, received, inbox, isClosed>> /\ hpc = "recv"
    BY DEF Receives, Await, Spoil, Serve, RecvFrame, peerVars, flagVars
  <2> QED BY <2>1 DEF Handler
<1>2. ~ErrorWritten
  BY <1>1 DEF ErrorWritten
<1>3. CASE Await
  <2>1. UNCHANGED <<writebuf, closeWhenEmpty>> /\ Dropped(Skipped)
    BY <1>3 DEF Await
  <2>2. CASE StuckOnBad
    <3>1. Skipped = 0
      BY <2>2 DEF StuckOnBad, Skipped
    <3>2. readbuf' = readbuf
      BY <2>1, <3>1, NothingSkipped
    <3> QED BY <1>1, <2>1, <2>2, <3>2 DEF StuckOnBad, EndsInError
  <2>3. CASE LastError
    <3>1. Len(readbuf') <= Len(readbuf) /\ Len(readbuf') \in Nat
      <4>1. Skipped \in Nat /\ Len(readbuf) \in Nat /\ Len(readbuf') = Len(readbuf) - Skipped /\ Skipped <= Len(readbuf)
        BY <2>1, DroppedType
      <4> QED BY <4>1
    <3>2. Len(readbuf) + Len(inbox) <= 1
      BY <2>3 DEF LastError
    <3>3. Len(readbuf') + Len(inbox') <= 1
      BY <1>1, <3>1, <3>2, Lengths
    <3> QED BY <1>1, <2>1, <2>3, <3>3 DEF LastError, EndsInError
  <2> QED BY <1>2, <2>1, <2>2, <2>3
<1>4. CASE Spoil
  <2>1. /\ writebuf' = writebuf \o Response(FrontSeq, "ERR") /\ FrontSeq \in 0..N
        /\ readbuf' # <<>> /\ readbuf'[1][2] = 1 /\ kind[readbuf'[1][1]] = "bad"
    BY <1>4, FrontType DEF Spoil, ErrorSent
  <2>2. EndsInError(writebuf')
    BY <1>1, <2>1, ErrorEnds
  <2> QED BY <1>1, <2>1, <2>2 DEF StuckOnBad
<1>5. ASSUME NEW r \in Requests, NEW k \in Nat, Serve(r, k) PROVE LastError'
  <2>1. Len(readbuf) >= 2 /\ (readbuf[1][2] = 1 => kind[readbuf[1][1]] # "bad")
    BY <1>5 DEF Serve
  <2>2. ~StuckOnBad /\ ~LastError
    <3>1. Len(inbox) \in Nat /\ Len(readbuf) \in Nat
      BY Lengths
    <3>2. LastError => Len(readbuf) + Len(inbox) <= 1
      BY DEF LastError
    <3> QED BY <2>1, <3>1, <3>2 DEF StuckOnBad
  <2>3. ~closeWhenEmpty
    BY <1>2, <2>2
  <2>4. Asking
    <3>1. readbuf # <<>>
      BY <2>1, Lengths
    <3> QED BY <2>3, <3>1 DEF Answering
  <2>5. ~begun /\ inbox' = <<>> /\ Len(readbuf') = 2 - k /\ k \in {1, 2}
    BY <1>5, <2>4, ServesSent
  <2>6. PICK seq \in 0..N : writebuf' = writebuf \o Response(seq, "ERR")
    <3>1. Unfit(r) \/ ErrorSent
      BY <1>5, <2>3 DEF Serve, Queued, Written
    <3>2. r \in 0..N /\ FrontSeq \in 0..N
      BY FrontType
    <3> QED BY <3>1, <3>2 DEF Unfit, ErrorSent
  <2>7. EndsInError(writebuf')
    BY <1>1, <2>6, ErrorEnds
  <2>8. Len(writebuf') = Len(writebuf) + 2
    BY <1>1, <2>6, OutGrown
  <2>9. Len(received') + Len(writebuf') = 2 * sent'
    <3>1. Len(received) = 2 * (sent - 1) /\ writebuf = <<>>
      BY <2>4 DEF Asking
    <3>2. Len(writebuf) = 0 /\ sent \in Nat
      BY <3>1, Lengths
    <3> QED BY <1>1, <2>8, <3>1, <3>2
  <2>10. Len(readbuf') + Len(inbox') <= 1
    <3>1. Len(inbox') = 0
      BY <2>5
    <3> QED BY <2>5, <3>1
  <2> QED BY <1>1, <2>5, <2>7, <2>9, <2>10 DEF LastError
<1> QED BY <1>3, <1>4, <1>5 DEF Receives

LEMMA StepFailing ==
  ASSUME Types, Incoming, Controllers, Outgoing, Handler, Lockstep, Failing, Step
  PROVE  Failing'
<1> SUFFICES ASSUME ~piped', link' = "up", isClosed' \/ closeWhenEmpty'
             PROVE  closeWhenEmpty' /\ (StuckOnBad \/ LastError \/ ErrorWritten)'
  BY DEF Failing
<1>1. link = "up"
  <2>1. CASE \/ UNCHANGED vars \/ ProcessPendingTask \/ Report
             \/ (\E k \in Kinds : PeerBegins(k)) \/ PeerFinishes
             \/ Drain \/ (\E how \in {"fin", "rst"} : PeerEnds(how))
    BY <2>1, LinkFrames
  <2>2. CASE OnEvent \/ OnReadable \/ OnEventTail \/ OnClose
    BY <2>2 DEF OnEvent, OnReadable, OnEventTail, OnClose, netVars
  <2>3. CASE Receives
    BY <2>3, ReceivesPhase DEF netVars
  <2>4. CASE NoWrite \/ \E n \in 1..Len(writebuf) : Writes(n)
    BY <2>4 DEF NoWrite, Writes, Wrote, WriteFrame
  <2> QED BY <2>1, <2>2, <2>3, <2>4 DEF Step
<1>2. ~piped
  BY PipedStays
<1>3. CASE isClosed \/ closeWhenEmpty
  <2>1. closeWhenEmpty /\ (StuckOnBad \/ LastError \/ ErrorWritten)
    BY <1>1, <1>2, <1>3 DEF Failing
  <2>2. closeWhenEmpty'
    BY <2>1, ClosingStays
  <2>3. CASE UNCHANGED vars \/ ProcessPendingTask \/ Report \/ Drain \/ (\E how \in {"fin", "rst"} : PeerEnds(how))
    BY <2>1, <2>2, <2>3, FailingOthers
  <2>4. CASE OnEvent \/ OnReadable \/ OnEventTail \/ OnClose \/ NoWrite
    BY <1>1, <2>1, <2>2, <2>4, FailingHandler
  <2>5. CASE Receives
    BY <2>1, <2>2, <2>5, FailingReceives
  <2>6. CASE \E n \in 1..Len(writebuf) : Writes(n)
    BY <2>1, <2>2, <2>6, FailingWrites
  <2>7. CASE (\E k \in Kinds : PeerBegins(k)) \/ PeerFinishes
    BY <2>1, <2>2, <2>7, FailingPeer
  <2> QED BY <2>3, <2>4, <2>5, <2>6, <2>7 DEF Step
<1>4. CASE ~isClosed /\ ~closeWhenEmpty
  <2>1. Asking \/ Answering
    BY <1>2, <1>4 DEF Lockstep
  <2>2. CASE Receives
    <3>1. closeWhenEmpty'
      BY <1>4, <2>2, ReceivesPhase
    <3> QED BY <1>4, <2>1, <2>2, <3>1, FailingReceives
  <2>3. CASE OnClose
    <3>1. hpc = "close"
      BY <2>3 DEF OnClose
    <3> QED BY <1>1, <1>4, <3>1 DEF Handler
  <2>4. CASE OnEventTail
    <3>1. isClosed' = isClosed /\ (closeWhenEmpty' => closeWhenEmpty \/ "CLOSE" \in hmask)
      BY <2>4 DEF OnEventTail, flagVars
    <3> QED BY <1>1, <1>4, <3>1 DEF Handler
  <2>5. CASE \/ UNCHANGED vars \/ ProcessPendingTask \/ Report
             \/ (\E k \in Kinds : PeerBegins(k)) \/ PeerFinishes
             \/ Drain \/ (\E how \in {"fin", "rst"} : PeerEnds(how))
    BY <1>4, <2>5, HandlerFrames DEF HandlerFrame
  <2>6. CASE OnEvent \/ OnReadable \/ NoWrite
    BY <1>4, <2>6 DEF OnEvent, OnReadable, NoWrite, WriteFrame, flagVars
  <2>7. CASE \E n \in 1..Len(writebuf) : Writes(n)
    BY <1>4, <2>7 DEF Writes, Wrote, WriteFrame, flagVars
  <2> QED BY <2>2, <2>3, <2>4, <2>5, <2>6, <2>7 DEF Step
<1> QED BY <1>3, <1>4
-----------------------------------------------------------------------------
(* The inductive invariant, and the properties.                            *)

LEMMA ConnInit == Init => ConnInv
<1> SUFFICES ASSUME Init PROVE ConnInv
  OBVIOUS
<1>0. /\ kind = [r \in Requests |-> "none"] /\ sendsize = [r \in Requests |-> 0]
      /\ ctl = [r \in Requests |-> "none"]
  BY DEF Init
<1>1. N \in Nat /\ MaxEagain \in Nat /\ Len(<<>>) = 0
  BY ServerAssumption
<1>2. TypeOK
  <2>1. tasks \in Seq(TaskNames) /\ Len(tasks) = 1
    BY DEF Init, TaskNames
  <2>2. Types
    <3>1. sent \in 0..N /\ eagain \in 0..MaxEagain /\ moved \in 0..Len(tasks)
      BY <1>1, <2>1 DEF Init
    <3>2. raised \in SUBSET Bits /\ hmask \in SUBSET Bits
      BY DEF Init
    <3>3. /\ kind \in [Requests -> Kinds \cup {"none"}] /\ sendsize \in [Requests -> Nat]
          /\ ctl \in [Requests -> {"none", "live", "deleted"}]
      <4>1. \A S, v : v \in S => [r \in Requests |-> v] \in [Requests -> S]
        OBVIOUS
      <4>2. "none" \in Kinds \cup {"none"} /\ 0 \in Nat /\ "none" \in {"none", "live", "deleted"}
        OBVIOUS
      <4> QED BY <1>0, <4>1, <4>2, Zenon
    <3>4. /\ inbox \in Seq(Halves) /\ readbuf \in Seq(Halves)
          /\ received \in Seq(Answers) /\ writebuf \in Seq(Answers) /\ pending \in Seq(Requests)
      BY DEF Init
    <3>5. /\ begun \in BOOLEAN /\ piped \in BOOLEAN /\ full \in BOOLEAN /\ undefined \in BOOLEAN
          /\ room \in BOOLEAN /\ armed \in BOOLEAN /\ isConnected \in BOOLEAN /\ isClosed \in BOOLEAN
          /\ closeWhenEmpty \in BOOLEAN
      BY DEF Init
    <3>6. link \in {"up", "fin", "rst"} /\ interest \in {"none", "R", "RW"}
      BY DEF Init
    <3> QED BY <2>1, <3>1, <3>2, <3>3, <3>4, <3>5, <3>6, Zenon DEF Types
  <2> QED BY <2>2, Typed
<1>3. Taken = 0
  <2>1. sent = 0 /\ begun = FALSE /\ Len(readbuf) = 0 /\ Len(inbox) = 0
    BY <1>1 DEF Init
  <2>2. Total = 0
    <3>1. 2 * 0 - 0 = 0
      OBVIOUS
    <3>2. (IF begun THEN 1 ELSE 0) = 0
      BY <2>1, Zenon
    <3> QED BY <2>1, <3>1, <3>2, Zenon DEF Total
  <2>3. \A t, a, b \in Nat : t = 0 /\ a = 0 /\ b = 0 => t - (a + b) = 0
    OBVIOUS
  <2>4. Total \in Nat /\ Len(readbuf) \in Nat /\ Len(inbox) \in Nat
    BY <2>1, <2>2
  <2> QED BY <2>1, <2>2, <2>3, <2>4, Zenon DEF Taken
<1>4. Incoming
  BY <1>1, <1>3 DEF Init, Incoming
<1>5. Controllers /\ NoLeak /\ Sound
  BY <1>0, <1>1 DEF Init, Controllers, NoLeak, Sound
<1>6. Outgoing
  <2>1. Len(Out) = 0
    BY <1>1 DEF Init, Out
  <2> QED BY <2>1 DEF Outgoing
<1>7. Lockstep /\ Failing
  BY <1>1 DEF Init, Lockstep, Answering, Failing
<1>8. Handler /\ Tasks /\ Edges /\ Closing
  BY DEF Init, Handler, Tasks, Edges, Closing
<1> QED BY <1>2, <1>4, <1>5, <1>6, <1>7, <1>8 DEF ConnInv

LEMMA ConnStep == ConnInv /\ [Next]_vars => ConnInv'
<1> SUFFICES ASSUME ConnInv, [Next]_vars PROVE ConnInv'
  OBVIOUS
<1>1. /\ Types /\ Incoming /\ Controllers /\ NoLeak /\ Sound /\ Outgoing
      /\ Lockstep /\ Failing /\ Handler /\ Tasks /\ Edges /\ Closing
  BY Typed DEF ConnInv
<1>2. Step
  BY StepKinds DEF ConnInv
<1>3. isClosed => hpc = "idle"
  BY <1>1 DEF Handler
<1>4. TypeOK'
  BY <1>1, <1>2, StepTypes, Typed
<1>5. Incoming'
  BY <1>1, <1>2, StepIncoming
<1>6. Controllers' /\ NoLeak'
  BY <1>1, <1>2, <1>3, StepControllers
<1>7. Sound'
  BY <1>1, <1>2, <1>3, StepSound
<1>8. Outgoing'
  BY <1>1, <1>2, StepOutgoing
<1>9. Lockstep'
  BY <1>1, <1>2, StepLockstep
<1>10. Failing'
  BY <1>1, <1>2, StepFailing
<1>11. Handler' /\ Tasks'
  BY <1>1, <1>2, StepHandler, StepTasks
<1>12. Edges' /\ Closing'
  BY <1>1, <1>2, StepEdges, StepClosing
<1> QED BY <1>4, <1>5, <1>6, <1>7, <1>8, <1>9, <1>10, <1>11, <1>12 DEF ConnInv

LEMMA ConnInvariant == Spec => []ConnInv
<1> QED BY ConnInit, ConnStep, PTL DEF Spec

\* OnMessageSended, SendMessage and OnClose share the controllers that
\* OnMessageRecived makes, and each is deleted once and none forgotten: for
\* any number of requests, unless the peer pipelines or a response does not
\* fit.
THEOREM NoControllerTwice == Spec => []ControllersReleased
<1>1. ConnInv => ControllersReleased
  BY DEF ConnInv, Sound, ReleasedOnce, ControllersReleased
<1> QED BY <1>1, ConnInvariant, PTL

\* Answers reach the peer in the order of their requests and each of them
\* once, pipelined or not, however OnWriteable cuts them.
THEOREM InOrderOnce == Spec => []AnswersInOrder
<1>1. ConnInv => AnswersInOrder
  <2> SUFFICES ASSUME ConnInv, NEW i \in DOMAIN received, NEW j \in DOMAIN received, i < j,
                      IsAnswer(received[i]), IsAnswer(received[j])
               PROVE  received[i][1] < received[j][1]
    BY DEF AnswersInOrder
  <2>1. Types /\ Outgoing
    BY Typed DEF ConnInv
  <2>2. /\ Len(received) \in Nat /\ Len(writebuf) \in Nat
        /\ Len(Out) = Len(received) + Len(writebuf)
        /\ \A l \in 1..Len(received) : Out[l] = received[l]
    BY <2>1, OutIs
  <2>3. i \in 1..Len(received) /\ j \in 1..Len(received)
    <3>1. received \in Seq(Answers)
      BY <2>1 DEF Types
    <3> QED BY <3>1, Members
  <2>4. i \in 1..Len(Out) /\ j \in 1..Len(Out)
    BY <2>2, <2>3
  <2>5. Out[i] = received[i] /\ Out[j] = received[j]
    BY <2>2, <2>3
  <2> QED BY <2>1, <2>4, <2>5 DEF Outgoing
<1> QED BY <1>1, ConnInvariant, PTL

\* At rest an open stream has run its tasks and waits for no edge.
LEMMA Waits ==
  ASSUME ConnInv, AtRest, ~isClosed
  PROVE  /\ interest # "none" /\ Wanted = interest
         /\ ~ReadEdge /\ (EndEdge => closeWhenEmpty) /\ ~WriteEdge
<1>1. tasks = <<>> /\ ~armed /\ raised = {} /\ hpc = "idle"
  BY DEF AtRest
<1>2. tasks # <<"AddR">>
  BY <1>1
<1>3. interest # "none"
  BY <1>2 DEF ConnInv, Tasks
<1>4. Wanted = interest
  BY <1>1 DEF Wanted
<1>5. ~ReadEdge /\ (EndEdge => closeWhenEmpty)
  BY <1>1 DEF ReadEdge, EndEdge
<1>6. ~GivingUp
  <2>1. Len(tasks) = 0
    BY <1>1
  <2> QED BY <2>1 DEF GivingUp
<1>7. ~WriteEdge
  BY <1>1, <1>6 DEF WriteEdge
<1> QED BY <1>3, <1>4, <1>5, <1>7

LEMMA ClosedAtRest == ConnInv => ErrorCloses
<1> SUFFICES ASSUME ConnInv, AtRest, link # "rst", ~isClosed,
                    link = "fin" \/ closeWhenEmpty \/ \E i \in DOMAIN received : received[i][2] = "ERR"
             PROVE  FALSE
  BY DEF ErrorCloses
<1>1. Types /\ Outgoing /\ Edges /\ Closing
  BY Typed DEF ConnInv
<1>2. hpc = "idle" /\ room
  BY DEF AtRest
<1>3. CASE closeWhenEmpty
  <2>1. interest = "RW"
    BY <1>1, <1>2, <1>3, Waits DEF Closing
  <2> QED BY <1>1, <1>2, <2>1, Waits, EdgesAre
<1>4. CASE link = "fin"
  BY <1>1, <1>3, <1>4, Waits, EdgesAre
<1>5. ASSUME NEW i \in DOMAIN received, received[i][2] = "ERR" PROVE FALSE
  <2>1. received \in Seq(Answers)
    BY <1>1 DEF Types
  <2>2. i \in 1..Len(received)
    BY <2>1, Members
  <2>3. /\ Len(received) \in Nat /\ Len(writebuf) \in Nat /\ Out[i] = received[i]
        /\ Len(Out) = Len(received) + Len(writebuf)
    BY <1>1, <2>2, OutIs
  <2>4. i \in 1..Len(Out)
    BY <2>2, <2>3
  <2> QED BY <1>1, <1>3, <1>5, <2>3, <2>4 DEF Outgoing
<1> QED BY <1>3, <1>4, <1>5

\* After an error header or an end of file the stream is closed, at the latest
\* when nothing but the peer can move: OnMessageError and OnEvent keep the
\* write interest until writebuf is empty.
THEOREM ClosesAfterError == Spec => []ErrorCloses
<1> QED BY ClosedAtRest, ConnInvariant, PTL

\* A peer that waits for each answer gets it, for any number of requests and
\* however reads and writes are cut, apart from the list page written in part.
THEOREM NobodyWaits == Spec => []LockstepAnswered
<1>1. ConnInv => LockstepAnswered
  <2> SUFFICES ASSUME ConnInv, AtRest, link = "up", ~piped, ~begun
               PROVE  \/ Len(received) = 2 * sent
                      \/ isClosed /\ received # <<>> /\ Last(received)[2] = "ERR"
                      \/ writebuf # <<>> /\ kind[writebuf[1][1]] = "list"
    BY DEF LockstepAnswered
  <2>1. Types /\ Lockstep /\ Failing /\ Edges
    BY Typed DEF ConnInv
  <2>2. hpc = "idle" /\ room
    BY DEF AtRest
  <2>3. CASE isClosed
    <3>1. EndsInError(received)
      BY <2>1, <2>3 DEF Failing, StuckOnBad, LastError, ErrorWritten
    <3> QED BY <2>3, <3>1 DEF EndsInError, Last
  <2>4. CASE ~isClosed /\ closeWhenEmpty
    BY <2>4, ClosedAtRest DEF ErrorCloses
  <2>5. CASE ~isClosed /\ ~closeWhenEmpty
    <3>1. CASE Asking
      <4>1. Len(readbuf) + Len(inbox) = 2 /\ Len(readbuf) # 2
        <5>1. begun = FALSE /\ hpc # "recv"
          BY <2>1, <2>2 DEF Types
        <5> QED BY <3>1, <5>1 DEF Asking
      <4>2. inbox # <<>>
        <5>1. Len(readbuf) \in Nat /\ Len(inbox) \in Nat /\ (inbox = <<>> <=> Len(inbox) = 0)
          BY <2>1, Lengths
        <5>2. \A a, b \in Nat : a + b = 2 /\ a # 2 => b # 0
          OBVIOUS
        <5>3. Len(inbox) # 0
          BY <4>1, <5>1, <5>2, Zenon
        <5> QED BY <5>1, <5>3
      <4> QED BY <2>1, <2>5, <4>2, Waits, EdgesAre
    <3>2. CASE Answering /\ writebuf = <<>>
      <4>1. Len(received) + Len(writebuf) = 2 * sent
        BY <3>2 DEF Answering
      <4> QED BY <2>1, <3>2, <4>1, Lengths
    <3>3. CASE Answering /\ writebuf # <<>>
      <4>1. 1 \in 1..Len(writebuf)
        BY <2>1, <3>3, Lengths
      <4>2. writebuf[1][1] = sent
        BY <3>3, <4>1 DEF Answering
      <4>3. kind[sent] = "list"
        <5> SUFFICES ASSUME kind[sent] # "list" PROVE FALSE
          OBVIOUS
        <5>1. interest = "RW"
          BY <2>5, <3>3, Waits DEF Answering
        <5> QED BY <2>1, <2>2, <2>5, <5>1, Waits, EdgesAre
      <4> QED BY <3>3, <4>2, <4>3
    <3> QED BY <2>1, <2>5, <3>1, <3>2, <3>3 DEF Lockstep
  <2> QED BY <2>3, <2>4, <2>5
<1> QED BY <1>1, ConnInvariant, PTL
=============================================================================
