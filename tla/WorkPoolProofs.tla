---------------------------- MODULE WorkPoolProofs ----------------------------
(***************************************************************************)
(* Proofs about WorkPool for any number of workers, posters and tasks.     *)
(*                                                                         *)
(* Tasks: each exchange, push and pop moves one task between slots, hands  *)
(* and queue, all of which stay disjoint.  Workers: as long as no wait was *)
(* interrupted, a worker that goes idle puts one token for itself into     *)
(* idleWorker; posters move the token to their pworker and their towake,   *)
(* and the notification that consumes it is the one that ends the wait.    *)
(***************************************************************************)
EXTENDS WorkPool, FiniteSetTheorems, SequenceTheorems, TLAPS
-----------------------------------------------------------------------------
(* Sequences without repetition.                                           *)

Distinct(s) == \A i, j \in 1..Len(s) : s[i] = s[j] => i = j

LEMMA MembersOfSeq ==
  ASSUME NEW S, NEW s \in Seq(S)
  PROVE  /\ \A i \in 1..Len(s) : s[i] \in Range(s)
         /\ \A x \in Range(s) : x \in S /\ \E i \in 1..Len(s) : s[i] = x
<1>1. DOMAIN s = 1..Len(s) /\ \A i \in 1..Len(s) : s[i] \in S
  BY LenProperties
<1>2. Range(s) = {s[i] : i \in 1..Len(s)}
  BY <1>1 DEF Range
<1> QED BY <1>1, <1>2

\* What push does to a list.
LEMMA Appended ==
  ASSUME NEW S, NEW s \in Seq(S), NEW e \in S
  PROVE  /\ Append(s, e) \in Seq(S)
         /\ Range(Append(s, e)) = Range(s) \cup {e}
         /\ Distinct(s) /\ e \notin Range(s) => Distinct(Append(s, e))
<1> DEFINE a == Append(s, e)
<1>1. /\ a \in Seq(S) /\ Len(a) = Len(s) + 1 /\ Len(s) \in Nat
      /\ a[Len(s) + 1] = e /\ \A i \in 1..Len(s) : a[i] = s[i]
  BY AppendProperties, LenProperties
<1>2. \A i \in 1..Len(a) : i \in 1..Len(s) \/ i = Len(s) + 1
  BY <1>1
<1>3. Len(s) + 1 \in 1..Len(a) /\ \A i \in 1..Len(s) : i \in 1..Len(a)
  BY <1>1
<1>4. /\ (\A i \in 1..Len(s) : s[i] \in Range(s)) /\ \A x \in Range(s) : \E i \in 1..Len(s) : s[i] = x
      /\ (\A i \in 1..Len(a) : a[i] \in Range(a)) /\ \A x \in Range(a) : \E i \in 1..Len(a) : a[i] = x
  BY <1>1, MembersOfSeq
<1> HIDE DEF a
<1>5. Range(a) = Range(s) \cup {e}
  BY <1>1, <1>2, <1>3, <1>4
<1>6. Distinct(s) /\ e \notin Range(s) => Distinct(a)
  BY <1>1, <1>2, <1>4 DEF Distinct
<1> QED BY <1>1, <1>5, <1>6 DEF a

\* What pop does to a list.
LEMMA Popped ==
  ASSUME NEW S, NEW s \in Seq(S), s # <<>>
  PROVE  /\ Tail(s) \in Seq(S) /\ Head(s) \in S
         /\ Range(s) = Range(Tail(s)) \cup {Head(s)}
         /\ Distinct(s) => Distinct(Tail(s)) /\ Head(s) \notin Range(Tail(s))
<1> DEFINE t == Tail(s)
<1>1. /\ t \in Seq(S) /\ Head(s) \in S /\ Len(t) = Len(s) - 1 /\ Len(s) \in Nat /\ Len(s) # 0
      /\ \A i \in 1..Len(t) : t[i] = s[i + 1]
  BY HeadTailProperties, LenProperties, EmptySeq
<1>2. Head(s) = s[1]
  OBVIOUS
<1>3. /\ 1 \in 1..Len(s) /\ \A i \in 1..Len(s) : i = 1 \/ (i - 1 \in 1..Len(t) /\ (i - 1) + 1 = i)
      /\ \A i \in 1..Len(t) : i + 1 \in 1..Len(s) /\ i + 1 # 1
      /\ \A i, j \in 1..Len(t) : i + 1 = j + 1 => i = j
  BY <1>1
<1>4. /\ (\A i \in 1..Len(s) : s[i] \in Range(s)) /\ \A x \in Range(s) : \E i \in 1..Len(s) : s[i] = x
      /\ (\A i \in 1..Len(t) : t[i] \in Range(t)) /\ \A x \in Range(t) : \E i \in 1..Len(t) : t[i] = x
  BY <1>1, MembersOfSeq
<1> HIDE DEF t
<1>5. Range(s) = Range(t) \cup {s[1]}
  <2>1. \A i \in 1..Len(s) : i = 1 \/ s[i] = t[i - 1]
    BY <1>1, <1>3
  <2>2. \A x \in Range(s) : x \in Range(t) \/ x = s[1]
    BY <1>3, <1>4, <2>1
  <2>3. s[1] \in Range(s) /\ \A x \in Range(t) : x \in Range(s)
    BY <1>1, <1>3, <1>4
  <2> QED BY <2>2, <2>3
<1>6. Distinct(s) => Distinct(t) /\ s[1] \notin Range(t)
  <2> SUFFICES ASSUME Distinct(s) PROVE Distinct(t) /\ s[1] \notin Range(t)
    OBVIOUS
  <2>1. ASSUME NEW i \in 1..Len(t), NEW j \in 1..Len(t), t[i] = t[j] PROVE i = j
    <3>1. i + 1 = j + 1
      BY <2>1, <1>1, <1>3 DEF Distinct
    <3> QED BY <3>1, <1>3
  <2>2. s[1] \notin Range(t)
    BY <1>1, <1>3, <1>4 DEF Distinct
  <2> QED BY <2>1, <2>2 DEF Distinct
<1> QED BY <1>1, <1>2, <1>5, <1>6 DEF t

\* What a nested RunTask does to the list of workers to notify.
LEMMA Prepended ==
  ASSUME NEW S, NEW s \in Seq(S), NEW e \in S
  PROVE  /\ <<e>> \o s \in Seq(S) /\ <<e>> \o s # <<>>
         /\ Range(<<e>> \o s) = Range(s) \cup {e}
         /\ Distinct(s) /\ e \notin Range(s) => Distinct(<<e>> \o s)
<1> DEFINE c == <<e>> \o s
<1>1. <<e>> \in Seq(S) /\ Len(<<e>>) = 1 /\ <<e>>[1] = e
  OBVIOUS
<1>2. /\ c \in Seq(S) /\ Len(c) = 1 + Len(s) /\ Len(s) \in Nat
      /\ \A i \in 1..(1 + Len(s)) : c[i] = IF i <= 1 THEN <<e>>[i] ELSE s[i - 1]
  BY <1>1, ConcatProperties, LenProperties
<1>3. /\ 1 \in 1..Len(c) /\ \A i \in 1..Len(c) : i = 1 \/ (i - 1 \in 1..Len(s) /\ (i - 1) + 1 = i /\ ~ (i <= 1))
      /\ \A i \in 1..Len(s) : i + 1 \in 1..Len(c) /\ (i + 1) - 1 = i /\ ~ (i + 1 <= 1)
  <2> DEFINE n == Len(s)
  <2>1. n \in Nat /\ Len(c) = 1 + n
    BY <1>2
  <2> HIDE DEF n, c
  <2>2. 1 \in 1..Len(c) /\ \A i \in 1..n : i + 1 \in 1..Len(c) /\ (i + 1) - 1 = i /\ ~ (i + 1 <= 1)
    BY <2>1
  <2>3. \A i \in 1..Len(c) : i = 1 \/ (i - 1 \in 1..n /\ (i - 1) + 1 = i /\ ~ (i <= 1))
    BY <2>1
  <2> QED BY <2>2, <2>3 DEF n
<1>4. /\ (\A i \in 1..Len(s) : s[i] \in Range(s)) /\ \A x \in Range(s) : \E i \in 1..Len(s) : s[i] = x
      /\ (\A i \in 1..Len(c) : c[i] \in Range(c)) /\ \A x \in Range(c) : \E i \in 1..Len(c) : c[i] = x
  BY <1>2, MembersOfSeq
<1> HIDE DEF c
<1>5. c[1] = e /\ (\A i \in 1..Len(c) : i = 1 \/ c[i] = s[i - 1]) /\ \A i \in 1..Len(s) : c[i + 1] = s[i]
  BY <1>1, <1>2, <1>3
<1>6. Range(c) = Range(s) \cup {e}
  <2>1. ASSUME NEW x \in Range(c) PROVE x \in Range(s) \/ x = e
    <3>1. PICK i \in 1..Len(c) : c[i] = x
      BY <1>4
    <3>2. CASE i = 1
      BY <3>1, <3>2, <1>5
    <3>3. CASE i # 1
      <4>1. c[i] = s[i - 1] /\ i - 1 \in 1..Len(s)
        BY <3>3, <1>3, <1>5
      <4> QED BY <3>1, <4>1, <1>4
    <3> QED BY <3>2, <3>3
  <2>2. e \in Range(c)
    BY <1>3, <1>4, <1>5
  <2>3. ASSUME NEW x \in Range(s) PROVE x \in Range(c)
    <3>1. PICK i \in 1..Len(s) : s[i] = x
      BY <1>4
    <3>2. c[i + 1] = x /\ i + 1 \in 1..Len(c)
      BY <3>1, <1>3, <1>5
    <3> QED BY <3>2, <1>4
  <2> QED BY <2>1, <2>2, <2>3
<1>7. Distinct(s) /\ e \notin Range(s) => Distinct(c)
  <2> SUFFICES ASSUME Distinct(s), e \notin Range(s), NEW i \in 1..Len(c), NEW j \in 1..Len(c), c[i] = c[j]
               PROVE i = j
    BY DEF Distinct
  <2>0. ASSUME NEW k \in 1..Len(c), k # 1 PROVE c[k] # e
    <3>1. k - 1 \in 1..Len(s) /\ c[k] = s[k - 1]
      BY <2>0, <1>3, <1>5
    <3>2. s[k - 1] \in Range(s)
      BY <3>1, <1>4
    <3> QED BY <3>1, <3>2
  <2>1. CASE i = 1 \/ j = 1
    BY <2>0, <2>1, <1>5
  <2>2. CASE i # 1 /\ j # 1
    <3>1. i - 1 = j - 1
      BY <2>2, <1>3, <1>5 DEF Distinct
    <3> QED BY <3>1, <2>2, <1>3
  <2> QED BY <2>1, <2>2
<1>8. c # <<>>
  BY <1>2
<1> QED BY <1>2, <1>6, <1>7, <1>8 DEF c

\* A sequence without repetition has each of its members at one index.
LEMMA IndexOfDistinct ==
  ASSUME NEW S, NEW s \in Seq(S), Distinct(s), NEW e
  PROVE  /\ e \in Range(s) => \E k \in 1..Len(s) : {i \in 1..Len(s) : s[i] = e} = {k}
         /\ e \notin Range(s) => {i \in 1..Len(s) : s[i] = e} = {}
<1>1. (\A i \in 1..Len(s) : s[i] \in Range(s)) /\ \A x \in Range(s) : \E i \in 1..Len(s) : s[i] = x
  BY MembersOfSeq
<1>2. ASSUME e \in Range(s) PROVE \E k \in 1..Len(s) : {i \in 1..Len(s) : s[i] = e} = {k}
  <2>1. PICK k \in 1..Len(s) : s[k] = e
    BY <1>1, <1>2
  <2>2. {i \in 1..Len(s) : s[i] = e} = {k}
    BY <2>1 DEF Distinct
  <2> QED BY <2>2
<1> QED BY <1>1, <1>2
-----------------------------------------------------------------------------
(* The inductive invariant.                                                *)

\* What a poster holds at each point of Post and RunTask.
Posting ==
  \A p \in Posters :
    /\ ptask[p] # NoTask <=> ppc[p] \in {"pop", "slot", "push"}
    /\ pworker[p] # NoWorker <=> ppc[p] \in {"slot", "drainwake"}
    /\ ppc[p] = "wake" => towake[p] # <<>>

\* No task is in two places.
PlacedOnce ==
  /\ Distinct(taskQueue)
  /\ \A w, x \in Workers : task[w] = task[x] /\ task[w] # NoTask => w = x
  /\ \A p, q \in Posters : ptask[p] = ptask[q] /\ ptask[p] # NoTask => p = q
  /\ \A w \in Workers, p \in Posters : task[w] = ptask[p] => task[w] = NoTask
  /\ \A w \in Workers : task[w] \notin Range(taskQueue)
  /\ \A p \in Posters : ptask[p] \notin Range(taskQueue)

InPlace(t) == \/ \E w \in Workers : task[w] = t
              \/ \E p \in Posters : ptask[p] = t
              \/ t \in Range(taskQueue)

\* A task is in some place from the call of Post until it runs.
PlacedTillRun ==
  \A t \in Tasks : /\ InPlace(t) <=> t \in posted /\ ran[t] = 0
                   /\ ran[t] \in {0, 1} /\ (ran[t] = 1 => t \in posted)

\* An entry of idleWorker, pworker or towake for w.
Token(w) == w \in Range(idleWorker) \/ \E p \in Posters : pworker[p] = w \/ w \in Range(towake[p])

\* No worker has two tokens.
TokensOnce ==
  /\ Distinct(idleWorker)
  /\ \A p \in Posters : /\ Distinct(towake[p])
                        /\ pworker[p] \notin Range(idleWorker)
                        /\ \A w \in Range(towake[p]) : w \notin Range(idleWorker)
  /\ \A p, q \in Posters : /\ pworker[p] = pworker[q] /\ pworker[p] # NoWorker => p = q
                           /\ pworker[p] \notin Range(towake[q])
                           /\ \A w \in Range(towake[p]) : w \in Range(towake[q]) => p = q

\* A worker has a token exactly as long as it sleeps, unless it was stopped,
\* and a slot is filled only when its token has gone to towake.
TokenMeans ==
  \A w \in Workers :
    /\ Token(w) => \/ wpc[w] \in {"towait", "waiting"}
                   \/ ~isruning[w] /\ wpc[w] \in {"top", "exit"}
    /\ wpc[w] \in {"towait", "waiting"} /\ isruning[w] => Token(w)
    /\ wpc[w] \in {"pop", "lock", "run"} => task[w] = NoTask
    /\ task[w] # NoTask => w \notin Range(idleWorker) /\ \A p \in Posters : pworker[p] # w

Calm == interrupts = 0 => TokensOnce /\ TokenMeans
-----------------------------------------------------------------------------
(* Types.                                                                  *)

TInv == TypeOK /\ Posting

LEMMA InitTInv == Init => TInv
<1> SUFFICES ASSUME Init PROVE TInv
  OBVIOUS
<1> QED BY PoolAssumption DEF Init, TInv, TypeOK, Posting, WorkerPC, PosterPC

LEMMA StepTInv == TInv /\ [Next]_vars => TInv'
<1> SUFFICES ASSUME TInv, [Next]_vars PROVE TInv'
  OBVIOUS
<1> USE PoolAssumption DEF TInv, TypeOK, WorkerPC, PosterPC, poolVars, postVars, Notify, NotifyTarget
<1>1. ASSUME NEW w \in Workers, LoopExit(w) PROVE TInv'
  BY <1>1 DEF LoopExit, Posting
<1>2. ASSUME NEW w \in Workers, TakeSlot(w) PROVE TInv'
  <2>1. CASE task[w] = NoTask
    BY <1>2, <2>1 DEF TakeSlot, Posting
  <2>2. CASE task[w] # NoTask
    <3>1. task[w] \in Tasks
      BY <2>2
    <3>2. ran' = [ran EXCEPT ![task[w]] = ran[task[w]] + 1]
      BY <1>2, <2>2 DEF TakeSlot, StartRun
    <3>3. ran' \in [Tasks -> Nat]
      BY <3>1, <3>2
    <3>4. TypeOK'
      BY <1>2, <2>2, <3>1, <3>3 DEF TakeSlot, StartRun
    <3>5. Posting'
      BY <1>2 DEF TakeSlot, Posting
    <3> QED BY <3>4, <3>5
  <2> QED BY <2>1, <2>2
<1>3. ASSUME NEW w \in Workers, PopQueue(w) PROVE TInv'
  <2>1. CASE taskQueue = <<>>
    BY <1>3, <2>1 DEF PopQueue, Posting
  <2>2. CASE taskQueue # <<>>
    <3>1. Head(taskQueue) \in Tasks /\ Tail(taskQueue) \in Seq(Tasks)
      BY <2>2, Popped
    <3>2. ran' = [ran EXCEPT ![Head(taskQueue)] = ran[Head(taskQueue)] + 1]
      BY <1>3, <2>2 DEF PopQueue, StartRun
    <3>3. ran' \in [Tasks -> Nat]
      BY <3>1, <3>2
    <3>4. TypeOK'
      <4>1. taskQueue' \in Seq(Tasks)
        BY <1>3, <2>2, <3>1 DEF PopQueue, AfterPop
      <4>2. /\ wtask' = [wtask EXCEPT ![w] = Head(taskQueue)] /\ wpc' = [wpc EXCEPT ![w] = "run"]
            /\ UNCHANGED <<idleWorker, task, isruning, ppc, ptask, pworker, towake, stopping, interrupts, posted>>
        BY <1>3, <2>2 DEF PopQueue, StartRun
      <4> QED BY <4>1, <4>2, <3>1, <3>3
    <3>5. Posting'
      BY <1>3 DEF PopQueue, Posting
    <3> QED BY <3>4, <3>5
  <2> QED BY <2>1, <2>2
<1>4. ASSUME NEW w \in Workers, RunReturns(w) PROVE TInv'
  BY <1>4 DEF RunReturns, AfterRun, Posting
<1>5. ASSUME NEW w \in Workers, GoIdle(w) PROVE TInv'
  <2>1. Append(idleWorker, w) \in Seq(Workers)
    BY Appended
  <2> QED BY <1>5, <2>1 DEF GoIdle, StillRuning, Posting
<1>6. ASSUME NEW w \in Workers, Wait(w) PROVE TInv'
  BY <1>6 DEF Wait, Posting
<1>7. ASSUME NEW w \in Workers, Interrupt(w) PROVE TInv'
  BY <1>7 DEF Interrupt, Posting
<1>8. ASSUME NEW w \in Workers, StopWorker(w) PROVE TInv'
  BY <1>8 DEF StopWorker, Posting
<1>9. ASSUME NEW p \in Posters, NEW t \in Tasks, PostCall(p, t) PROVE TInv'
  <2>1. TypeOK'
    BY <1>9 DEF PostCall
  <2>2. Posting'
    BY <1>9 DEF PostCall, Posting
  <2> QED BY <2>1, <2>2
<1>10. ASSUME NEW p \in Posters, PostPop(p) PROVE TInv'
  <2>1. TypeOK'
    <3>1. CASE idleWorker = <<>>
      BY <1>10, <3>1 DEF PostPop
    <3>2. CASE idleWorker # <<>>
      <4>1. Head(idleWorker) \in Workers /\ Tail(idleWorker) \in Seq(Workers)
        BY <3>2, Popped
      <4>2. /\ pworker' = [pworker EXCEPT ![p] = Head(idleWorker)]
            /\ ppc' = [ppc EXCEPT ![p] = "slot"]
            /\ idleWorker' = Tail(idleWorker)
        BY <1>10, <3>2 DEF PostPop, IdleRest
      <4>3. /\ pworker' \in [Posters -> Workers \cup {NoWorker}]
            /\ ppc' \in [Posters -> PosterPC] /\ idleWorker' \in Seq(Workers)
        BY <4>1, <4>2
      <4> QED BY <1>10, <4>3 DEF PostPop
    <3> QED BY <3>1, <3>2
  <2>2. Posting'
    BY <1>10 DEF PostPop, Posting
  <2> QED BY <2>1, <2>2
<1>11. ASSUME NEW p \in Posters, RunTask(p) PROVE TInv'
  <2>0. pworker[p] \in Workers /\ ptask[p] \in Tasks
    BY <1>11 DEF RunTask, Posting
  <2>1. <<pworker[p]>> \o towake[p] \in Seq(Workers) /\ <<pworker[p]>> \o towake[p] # <<>>
    BY <2>0, Prepended
  <2>2. TypeOK'
    BY <1>11, <2>0, <2>1 DEF RunTask, AfterExchange
  <2>3. Posting'
    BY <1>11, <2>0, <2>1 DEF RunTask, AfterExchange, Posting
  <2> QED BY <2>2, <2>3
<1>12. ASSUME NEW p \in Posters, RunTaskNotify(p) PROVE TInv'
  <2>0. towake[p] # <<>>
    BY <1>12 DEF RunTaskNotify, Posting
  <2>1. TypeOK'
    BY <1>12, <2>0 DEF RunTaskNotify, ReturnTo
  <2>2. Posting'
    BY <1>12, <2>0 DEF RunTaskNotify, ReturnTo, Posting
  <2> QED BY <2>1, <2>2
<1>13. ASSUME NEW p \in Posters, PostPush(p) PROVE TInv'
  <2>1. TypeOK'
    BY <1>13 DEF PostPush, Posting
  <2>2. Posting'
    BY <1>13 DEF PostPush, Posting
  <2> QED BY <2>1, <2>2
<1>14. ASSUME NEW p \in Posters, DrainPop(p) PROVE TInv'
  <2>1. TypeOK'
    <3>1. CASE idleWorker = <<>>
      BY <1>14, <3>1 DEF DrainPop, ReturnTo
    <3>2. CASE idleWorker # <<>>
      <4>1. Head(idleWorker) \in Workers /\ Tail(idleWorker) \in Seq(Workers)
        BY <3>2, Popped
      <4>2. /\ pworker' = [pworker EXCEPT ![p] = Head(idleWorker)]
            /\ ppc' = [ppc EXCEPT ![p] = "drainwake"]
            /\ idleWorker' = Tail(idleWorker)
        BY <1>14, <3>2 DEF DrainPop, IdleRest
      <4>3. /\ pworker' \in [Posters -> Workers \cup {NoWorker}]
            /\ ppc' \in [Posters -> PosterPC] /\ idleWorker' \in Seq(Workers)
        BY <4>1, <4>2
      <4> QED BY <1>14, <4>3 DEF DrainPop
    <3> QED BY <3>1, <3>2
  <2>2. Posting'
    BY <1>14 DEF DrainPop, ReturnTo, Posting
  <2> QED BY <2>1, <2>2
<1>15. ASSUME NEW p \in Posters, DrainNotify(p) PROVE TInv'
  <2>1. TypeOK'
    BY <1>15 DEF DrainNotify
  <2>2. Posting'
    BY <1>15 DEF DrainNotify, Posting
  <2> QED BY <2>1, <2>2
<1>16. CASE UNCHANGED vars
  BY <1>16 DEF vars, Posting
<1> QED
  BY <1>1, <1>2, <1>3, <1>4, <1>5, <1>6, <1>7, <1>8, <1>9, <1>10, <1>11, <1>12,
     <1>13, <1>14, <1>15, <1>16 DEF Next, WorkerStep, PosterStep
-----------------------------------------------------------------------------
(* Tasks.                                                                  *)

LEMMA InitPlaced == Init => PlacedOnce /\ PlacedTillRun
<1> SUFFICES ASSUME Init PROVE PlacedOnce /\ PlacedTillRun
  OBVIOUS
<1>1. Range(<<>>) = {} /\ Distinct(<<>>)
  BY DEF Range, Distinct
<1> QED BY <1>1, PoolAssumption DEF Init, PlacedOnce, PlacedTillRun, InPlace

\* A step that starts task t, which has left its only place.
LEMMA StartPlaced ==
  ASSUME TInv, PlacedOnce, PlacedTillRun, NEW t \in Tasks,
         InPlace(t), ~ InPlace(t)', \A u \in Tasks \ {t} : InPlace(u)' <=> InPlace(u),
         ran' = [ran EXCEPT ![t] = @ + 1], posted' = posted
  PROVE  PlacedTillRun'
<1>1. ran[t] = 0 /\ t \in posted
  BY DEF PlacedTillRun
<1>2. ran'[t] = 1 /\ \A u \in Tasks \ {t} : ran'[u] = ran[u]
  BY <1>1 DEF TInv, TypeOK
<1> QED BY <1>1, <1>2 DEF PlacedTillRun

LEMMA StepPlaced ==
  TInv /\ PlacedOnce /\ PlacedTillRun /\ [Next]_vars => PlacedOnce' /\ PlacedTillRun'
<1> SUFFICES ASSUME TInv, PlacedOnce, PlacedTillRun, [Next]_vars
             PROVE PlacedOnce' /\ PlacedTillRun'
  OBVIOUS
<1>y. /\ taskQueue \in Seq(Tasks) /\ task \in [Workers -> Tasks \cup {NoTask}]
      /\ ptask \in [Posters -> Tasks \cup {NoTask}] /\ ran \in [Tasks -> Nat]
      /\ NoTask \notin Tasks
  BY PoolAssumption DEF TInv, TypeOK
<1>z. Range(taskQueue) \subseteq Tasks
  BY <1>y, MembersOfSeq
<1>1. ASSUME NEW w \in Workers, TakeSlot(w) PROVE PlacedOnce' /\ PlacedTillRun'
  <2>1. /\ UNCHANGED <<taskQueue, ptask, posted>>
        /\ task'[w] = NoTask /\ \A x \in Workers \ {w} : task'[x] = task[x]
    BY <1>1, <1>y DEF TakeSlot, postVars
  <2>2. PlacedOnce'
    BY <2>1, <1>y, <1>z DEF PlacedOnce
  <2>3. CASE task[w] = NoTask
    <3>1. UNCHANGED ran /\ \A t \in Tasks : InPlace(t)' <=> InPlace(t)
      BY <1>1, <2>1, <2>3, <1>y DEF TakeSlot, InPlace
    <3> QED BY <2>1, <2>2, <3>1 DEF PlacedTillRun
  <2>4. CASE task[w] # NoTask
    <3>1. task[w] \in Tasks /\ ran' = [ran EXCEPT ![task[w]] = @ + 1]
      BY <1>1, <2>4, <1>y DEF TakeSlot, StartRun
    <3>2. InPlace(task[w])
      BY DEF InPlace
    <3>3. ~ \E x \in Workers : task'[x] = task[w]
      BY <2>1, <2>4, <3>1, <1>y DEF PlacedOnce
    <3>4. task[w] \notin Range(taskQueue) /\ \A p \in Posters : ptask[p] # task[w]
      BY <2>4 DEF PlacedOnce
    <3>5. PICK t \in Tasks : t = task[w]
      BY <3>1
    <3>6. ~ InPlace(t)'
      BY <2>1, <3>3, <3>4, <3>5 DEF InPlace
    <3>7. \A u \in Tasks \ {t} : InPlace(u)' <=> InPlace(u)
      BY <2>1, <3>5, <1>y DEF InPlace
    <3> QED BY <2>1, <2>2, <3>1, <3>2, <3>5, <3>6, <3>7, StartPlaced
  <2> QED BY <2>3, <2>4
<1>2. ASSUME NEW w \in Workers, PopQueue(w) PROVE PlacedOnce' /\ PlacedTillRun'
  <2>1. UNCHANGED <<task, ptask, posted>>
    BY <1>2 DEF PopQueue, postVars
  <2>2. CASE taskQueue = <<>>
    <3>1. UNCHANGED <<taskQueue, ran>>
      BY <1>2, <2>2 DEF PopQueue
    <3> QED BY <2>1, <3>1 DEF PlacedOnce, PlacedTillRun, InPlace
  <2>3. CASE taskQueue # <<>>
    <3>1. PICK t \in Tasks : t = Head(taskQueue)
      BY <2>3, <1>y, Popped
    <3>2. /\ Distinct(taskQueue') /\ t \notin Range(taskQueue')
          /\ Range(taskQueue) = Range(taskQueue') \cup {t}
      <4>1. taskQueue' = Tail(taskQueue) /\ Distinct(taskQueue)
        BY <1>2, <2>3 DEF PopQueue, AfterPop, PlacedOnce
      <4> QED BY <4>1, <2>3, <3>1, <1>y, Popped
    <3>3. ran' = [ran EXCEPT ![t] = @ + 1]
      BY <1>2, <2>3, <3>1 DEF PopQueue, StartRun
    <3>4. PlacedOnce'
      BY <2>1, <3>2 DEF PlacedOnce
    <3>5. InPlace(t)
      BY <3>2 DEF InPlace
    <3>6. ~ InPlace(t)'
      BY <2>1, <3>2 DEF InPlace, PlacedOnce
    <3>7. \A u \in Tasks \ {t} : InPlace(u)' <=> InPlace(u)
      BY <2>1, <3>2 DEF InPlace
    <3> QED BY <2>1, <3>3, <3>4, <3>5, <3>6, <3>7, StartPlaced
  <2> QED BY <2>2, <2>3
<1>3. ASSUME NEW p \in Posters, NEW t \in Tasks, PostCall(p, t) PROVE PlacedOnce' /\ PlacedTillRun'
  <2>1. /\ UNCHANGED <<taskQueue, task, ran>> /\ t \notin posted /\ posted' = posted \cup {t}
        /\ ptask'[p] = t /\ (\A q \in Posters \ {p} : ptask'[q] = ptask[q])
    BY <1>3, <1>y DEF PostCall, poolVars
  <2>2. ptask[p] = NoTask
    BY <1>3 DEF PostCall, TInv, Posting
  <2>3. ~ InPlace(t) /\ ran[t] = 0
    BY <2>1 DEF PlacedTillRun
  <2>4. PlacedOnce'
    BY <2>1, <2>3, <1>y DEF PlacedOnce, InPlace
  <2>5. InPlace(t)'
    BY <2>1 DEF InPlace
  <2>6. \A u \in Tasks \ {t} : InPlace(u)' <=> InPlace(u)
    BY <2>1, <2>2, <1>y DEF InPlace
  <2> QED BY <2>1, <2>3, <2>4, <2>5, <2>6 DEF PlacedTillRun
<1>4. ASSUME NEW p \in Posters, RunTask(p) PROVE PlacedOnce' /\ PlacedTillRun'
  <2>0. PICK w \in Workers : w = pworker[p]
    BY <1>4 DEF RunTask, TInv, TypeOK, Posting
  <2>1. /\ UNCHANGED <<taskQueue, posted, ran>>
        /\ task'[w] = ptask[p] /\ \A x \in Workers \ {w} : task'[x] = task[x]
        /\ ptask'[p] = task[w] /\ \A q \in Posters \ {p} : ptask'[q] = ptask[q]
    BY <1>4, <2>0, <1>y DEF RunTask
  <2>2. PlacedOnce'
    <3>1. \A x, z \in Workers : task'[x] = task'[z] /\ task'[x] # NoTask => x = z
      BY <2>1, <1>y DEF PlacedOnce
    <3>2. \A q, z \in Posters : ptask'[q] = ptask'[z] /\ ptask'[q] # NoTask => q = z
      BY <2>1, <1>y DEF PlacedOnce
    <3>3. \A x \in Workers, q \in Posters : task'[x] = ptask'[q] => task'[x] = NoTask
      <4> TAKE x \in Workers, q \in Posters
      <4> HAVE task'[x] = ptask'[q]
      <4>1. CASE x = w /\ q = p
        BY <4>1, <2>1 DEF PlacedOnce
      <4>2. CASE x # w /\ q = p
        BY <4>2, <2>1 DEF PlacedOnce
      <4>3. CASE x = w /\ q # p
        BY <4>3, <2>1 DEF PlacedOnce
      <4>4. CASE x # w /\ q # p
        BY <4>4, <2>1 DEF PlacedOnce
      <4> QED BY <4>1, <4>2, <4>3, <4>4
    <3>4. (\A x \in Workers : task'[x] \notin Range(taskQueue)) /\ \A q \in Posters : ptask'[q] \notin Range(taskQueue)
      BY <2>1 DEF PlacedOnce
    <3> QED BY <2>1, <3>1, <3>2, <3>3, <3>4 DEF PlacedOnce
  <2>3. \A u \in Tasks : InPlace(u)' <=> InPlace(u)
    <3> TAKE u \in Tasks
    <3>1. InPlace(u) => InPlace(u)'
      BY <2>1, <1>y DEF InPlace
    <3>2. InPlace(u)' => InPlace(u)
      BY <2>1, <1>y DEF InPlace
    <3> QED BY <3>1, <3>2
  <2> QED BY <2>1, <2>2, <2>3 DEF PlacedTillRun
<1>5. ASSUME NEW p \in Posters, PostPush(p) PROVE PlacedOnce' /\ PlacedTillRun'
  <2>0. PICK t \in Tasks : t = ptask[p]
    BY <1>5 DEF PostPush, TInv, TypeOK, Posting
  <2>1. /\ UNCHANGED <<task, posted, ran>>
        /\ ptask'[p] = NoTask /\ \A q \in Posters \ {p} : ptask'[q] = ptask[q]
    BY <1>5, <2>0, <1>y DEF PostPush
  <2>2. Range(taskQueue') = Range(taskQueue) \cup {t} /\ Distinct(taskQueue')
    BY <1>5, <2>0, <1>y, Appended DEF PostPush, PlacedOnce
  <2>3. PlacedOnce'
    <3>1. \A x \in Workers : task[x] # t
      BY <2>0, <1>y DEF PlacedOnce
    <3>2. NoTask \notin Range(taskQueue')
      BY <2>2, <1>z, <1>y
    <3>3. \A q, z \in Posters : ptask'[q] = ptask'[z] /\ ptask'[q] # NoTask => q = z
      BY <2>1, <1>y DEF PlacedOnce
    <3>4. \A x \in Workers, q \in Posters : task'[x] = ptask'[q] => task'[x] = NoTask
      BY <2>1, <1>y DEF PlacedOnce
    <3>5. \A q \in Posters : ptask'[q] \notin Range(taskQueue')
      BY <2>0, <2>1, <2>2, <3>2, <1>y DEF PlacedOnce
    <3> QED BY <2>1, <2>2, <3>1, <3>3, <3>4, <3>5 DEF PlacedOnce
  <2>4. \A u \in Tasks : InPlace(u)' <=> InPlace(u)
    BY <2>0, <2>1, <2>2, <1>y DEF InPlace
  <2> QED BY <2>1, <2>3, <2>4 DEF PlacedTillRun
<1>6. CASE UNCHANGED <<taskQueue, task, ptask, posted, ran>>
  BY <1>6 DEF PlacedOnce, PlacedTillRun, InPlace
<1>7. CASE UNCHANGED vars
  BY <1>6, <1>7 DEF vars, poolVars, postVars
<1>8. ASSUME NEW w \in Workers,
             LoopExit(w) \/ RunReturns(w) \/ GoIdle(w) \/ Wait(w) \/ Interrupt(w) \/ StopWorker(w)
      PROVE  UNCHANGED <<taskQueue, task, ptask, posted, ran>>
  BY <1>8 DEF LoopExit, RunReturns, GoIdle, Wait, Interrupt, StopWorker, postVars
<1>9. ASSUME NEW p \in Posters, PostPop(p) \/ RunTaskNotify(p) \/ DrainPop(p) \/ DrainNotify(p)
      PROVE  UNCHANGED <<taskQueue, task, ptask, posted, ran>>
  BY <1>9 DEF PostPop, RunTaskNotify, DrainPop, DrainNotify
<1> QED
  BY <1>1, <1>2, <1>3, <1>4, <1>5, <1>6, <1>7, <1>8, <1>9 DEF Next, WorkerStep, PosterStep
-----------------------------------------------------------------------------
(* Workers.                                                                *)

LEMMA InitCalm == Init => Calm
<1> SUFFICES ASSUME Init PROVE Calm
  OBVIOUS
<1>1. Range(<<>>) = {} /\ Distinct(<<>>)
  BY DEF Range, Distinct
<1>2. TokensOnce
  BY <1>1 DEF Init, TokensOnce
<1>3. \A w \in Workers : ~ Token(w)
  BY <1>1, PoolAssumption DEF Init, Token
<1>4. TokenMeans
  BY <1>1, <1>3, PoolAssumption DEF Init, TokenMeans
<1> QED BY <1>2, <1>4 DEF Calm

\* A step of worker w that leaves all tokens alone.
LEMMA WorkerCalm ==
  ASSUME Calm, UNCHANGED <<idleWorker, pworker, towake, interrupts>>, NEW w \in Workers,
         \A x \in Workers \ {w} : wpc'[x] = wpc[x] /\ task'[x] = task[x] /\ isruning'[x] = isruning[x],
         TokenMeans =>
           /\ Token(w) => \/ wpc'[w] \in {"towait", "waiting"}
                          \/ ~isruning'[w] /\ wpc'[w] \in {"top", "exit"}
           /\ wpc'[w] \in {"towait", "waiting"} /\ isruning'[w] => Token(w)
           /\ wpc'[w] \in {"pop", "lock", "run"} => task'[w] = NoTask
           /\ task'[w] # NoTask => task[w] # NoTask
  PROVE  Calm'
<1> SUFFICES ASSUME TokensOnce, TokenMeans PROVE TokensOnce' /\ TokenMeans'
  BY DEF Calm
<1>1. TokensOnce'
  BY DEF TokensOnce
<1>2. \A x : Token(x)' <=> Token(x)
  BY DEF Token
<1>3. TokenMeans'
  BY <1>2 DEF TokenMeans
<1> QED BY <1>1, <1>3

\* A step that leaves everything that Calm speaks of alone.
LEMMA QuietCalm ==
  ASSUME Calm, UNCHANGED <<idleWorker, pworker, towake, interrupts, wpc, task, isruning>>
  PROVE  Calm'
BY DEF Calm, TokensOnce, TokenMeans, Token

\* A poster pops a worker from idleWorker.
LEMMA TakenCalm ==
  ASSUME TInv, Calm, NEW p \in Posters, pworker[p] = NoWorker, idleWorker # <<>>,
         pworker' = [pworker EXCEPT ![p] = Head(idleWorker)], idleWorker' = Tail(idleWorker),
         UNCHANGED <<towake, interrupts, wpc, task, isruning>>
  PROVE  Calm'
<1> SUFFICES ASSUME TokensOnce, TokenMeans PROVE TokensOnce' /\ TokenMeans'
  BY DEF Calm
<1>1. PICK w : w = Head(idleWorker)
  OBVIOUS
<1>2. idleWorker \in Seq(Workers) /\ pworker \in [Posters -> Workers \cup {NoWorker}]
  BY DEF TInv, TypeOK
<1>3. /\ w \in Workers /\ Range(idleWorker) = Range(idleWorker') \cup {w}
      /\ Distinct(idleWorker') /\ w \notin Range(idleWorker')
  BY <1>1, <1>2, Popped DEF TokensOnce
<1>4. pworker'[p] = w /\ \A q \in Posters \ {p} : pworker'[q] = pworker[q]
  BY <1>1, <1>2
<1>5. \A q \in Posters : pworker[q] # w /\ w \notin Range(towake[q])
  BY <1>3 DEF TokensOnce
<1>6. TokensOnce'
  <2>1. \A q \in Posters : /\ Distinct(towake'[q]) /\ pworker'[q] \notin Range(idleWorker')
                           /\ \A x \in Range(towake'[q]) : x \notin Range(idleWorker')
    BY <1>3, <1>4 DEF TokensOnce
  <2>2. \A q, o \in Posters : /\ pworker'[q] = pworker'[o] /\ pworker'[q] # NoWorker => q = o
                              /\ pworker'[q] \notin Range(towake'[o])
                              /\ \A x \in Range(towake'[q]) : x \in Range(towake'[o]) => q = o
    BY <1>4, <1>5 DEF TokensOnce
  <2> QED BY <1>3, <2>1, <2>2 DEF TokensOnce
<1>7. \A x \in Workers : Token(x)' <=> Token(x)
  <2> TAKE x \in Workers
  <2>1. CASE x = w
    BY <2>1, <1>3, <1>4 DEF Token
  <2>2. CASE x # w
    BY <2>2, <1>3, <1>4, PoolAssumption DEF Token
  <2> QED BY <2>1, <2>2
<1>8. \A x \in Workers : task[x] # NoTask => x # w
  BY <1>3 DEF TokenMeans
<1>9. TokenMeans'
  BY <1>3, <1>4, <1>7, <1>8 DEF TokenMeans
<1> QED BY <1>6, <1>9

\* A poster notifies worker w: the token it holds for w goes.
LEMMA NotifiedCalm ==
  ASSUME TInv, Calm, NEW w \in Workers, wpc[w] # "towait",
         UNCHANGED <<idleWorker, interrupts, task, isruning>>, Notify(w),
         \A q \in Posters : pworker'[q] \in {pworker[q], NoWorker},
         TokensOnce => TokensOnce' /\ ~ Token(w)' /\ \A x \in Workers \ {w} : Token(x)' <=> Token(x)
  PROVE  Calm'
<1> SUFFICES ASSUME TokensOnce, TokenMeans PROVE TokensOnce' /\ TokenMeans'
  BY DEF Calm
<1>1. /\ wpc'[w] = (IF wpc[w] = "waiting" THEN "top" ELSE wpc[w])
      /\ \A x \in Workers \ {w} : wpc'[x] = wpc[x]
  BY DEF Notify, TInv, TypeOK
<1>2. \A x \in Workers, q \in Posters : pworker'[q] = x => pworker[q] = x
  BY PoolAssumption
<1>3. ASSUME NEW x \in Workers
      PROVE  /\ Token(x)' => \/ wpc'[x] \in {"towait", "waiting"}
                             \/ ~isruning[x] /\ wpc'[x] \in {"top", "exit"}
             /\ wpc'[x] \in {"towait", "waiting"} /\ isruning[x] => Token(x)'
             /\ wpc'[x] \in {"pop", "lock", "run"} => task[x] = NoTask
             /\ task[x] # NoTask => x \notin Range(idleWorker) /\ \A p \in Posters : pworker'[p] # x
  <2>1. CASE x = w
    BY <2>1, <1>1, <1>2 DEF TokenMeans
  <2>2. CASE x # w
    BY <2>2, <1>1, <1>2 DEF TokenMeans
  <2> QED BY <2>1, <2>2
<1> QED BY <1>3 DEF TokenMeans

LEMMA StepCalm == TInv /\ Calm /\ [Next]_vars => Calm'
<1> SUFFICES ASSUME TInv, Calm, [Next]_vars PROVE Calm'
  OBVIOUS
<1>y. /\ idleWorker \in Seq(Workers) /\ task \in [Workers -> Tasks \cup {NoTask}]
      /\ wpc \in [Workers -> WorkerPC] /\ isruning \in [Workers -> BOOLEAN]
      /\ pworker \in [Posters -> Workers \cup {NoWorker}] /\ towake \in [Posters -> Seq(Workers)]
      /\ ppc \in [Posters -> PosterPC]
      /\ interrupts \in Nat /\ NoWorker \notin Workers /\ NoTask \notin Tasks
  BY PoolAssumption DEF TInv, TypeOK
<1>z. Range(idleWorker) \subseteq Workers /\ \A p \in Posters : Range(towake[p]) \subseteq Workers
  BY <1>y, MembersOfSeq
<1>1. ASSUME NEW w \in Workers, LoopExit(w) PROVE Calm'
  <2>1. /\ UNCHANGED <<idleWorker, pworker, towake, interrupts, task, isruning>>
        /\ wpc[w] = "top" /\ ~isruning[w]
        /\ wpc'[w] = "exit" /\ \A x \in Workers \ {w} : wpc'[x] = wpc[x]
    BY <1>1, <1>y DEF LoopExit, postVars
  <2> QED BY <2>1, WorkerCalm DEF TokenMeans
<1>2. ASSUME NEW w \in Workers, TakeSlot(w) PROVE Calm'
  <2>1. /\ UNCHANGED <<idleWorker, pworker, towake, interrupts, isruning>>
        /\ wpc[w] = "top" /\ isruning[w]
        /\ wpc'[w] \in {"run", "pop"} /\ \A x \in Workers \ {w} : wpc'[x] = wpc[x] /\ task'[x] = task[x]
        /\ task'[w] = NoTask
    BY <1>2, <1>y DEF TakeSlot, StartRun, postVars
  <2> QED BY <2>1, WorkerCalm DEF TokenMeans
<1>3. ASSUME NEW w \in Workers, PopQueue(w) PROVE Calm'
  <2>1. /\ UNCHANGED <<idleWorker, pworker, towake, interrupts, task, isruning>>
        /\ wpc[w] = "pop"
        /\ wpc'[w] \in {"run", "lock"} /\ \A x \in Workers \ {w} : wpc'[x] = wpc[x]
    BY <1>3, <1>y DEF PopQueue, StartRun, postVars
  <2> QED BY <2>1, WorkerCalm DEF TokenMeans
<1>4. ASSUME NEW w \in Workers, RunReturns(w) PROVE Calm'
  <2>1. /\ UNCHANGED <<idleWorker, pworker, towake, interrupts, task, isruning>>
        /\ wpc[w] = "run"
        /\ wpc'[w] = "top" /\ \A x \in Workers \ {w} : wpc'[x] = wpc[x]
    BY <1>4, <1>y DEF RunReturns, AfterRun, postVars
  <2> QED BY <2>1, WorkerCalm DEF TokenMeans
<1>5. ASSUME NEW w \in Workers, GoIdle(w) PROVE Calm'
  <2>1. /\ UNCHANGED <<pworker, towake, interrupts, task, isruning>>
        /\ wpc[w] = "lock" /\ \A x \in Workers \ {w} : wpc'[x] = wpc[x]
    BY <1>5, <1>y DEF GoIdle, postVars
  <2>2. CASE ~isruning[w]
    <3>1. wpc'[w] = "exit" /\ UNCHANGED idleWorker
      BY <1>5, <2>2, <1>y DEF GoIdle, StillRuning
    <3> QED BY <2>1, <2>2, <3>1, WorkerCalm DEF TokenMeans
  <2>3. CASE isruning[w]
    <3> SUFFICES ASSUME TokensOnce, TokenMeans PROVE TokensOnce' /\ TokenMeans'
      BY <2>1 DEF Calm
    <3>1. wpc'[w] = "towait" /\ idleWorker' = Append(idleWorker, w)
      BY <1>5, <2>3, <1>y DEF GoIdle, StillRuning
    <3>2. ~ Token(w) /\ task[w] = NoTask
      BY <2>1 DEF TokenMeans
    <3>3. Range(idleWorker') = Range(idleWorker) \cup {w}
      BY <3>1, <1>y, Appended
    <3>4. Distinct(idleWorker')
      BY <3>1, <3>2, <1>y, Appended DEF TokensOnce, Token
    <3>5. TokensOnce'
      BY <2>1, <3>2, <3>3, <3>4 DEF TokensOnce, Token
    <3>6. \A x : Token(x)' <=> Token(x) \/ x = w
      BY <2>1, <3>3 DEF Token
    <3>7. TokenMeans'
      <4> SUFFICES ASSUME NEW x \in Workers
                   PROVE /\ Token(x)' => \/ wpc'[x] \in {"towait", "waiting"}
                                         \/ ~isruning'[x] /\ wpc'[x] \in {"top", "exit"}
                         /\ wpc'[x] \in {"towait", "waiting"} /\ isruning'[x] => Token(x)'
                         /\ wpc'[x] \in {"pop", "lock", "run"} => task'[x] = NoTask
                         /\ task'[x] # NoTask => x \notin Range(idleWorker') /\ \A p \in Posters : pworker'[p] # x
        BY DEF TokenMeans
      <4>1. CASE x = w
        BY <4>1, <2>1, <3>1, <3>2, <3>6
      <4>2. CASE x # w
        BY <4>2, <2>1, <3>3, <3>6 DEF TokenMeans
      <4> QED BY <4>1, <4>2
    <3> QED BY <3>5, <3>7
  <2> QED BY <2>2, <2>3
<1>6. ASSUME NEW w \in Workers, Wait(w) PROVE Calm'
  <2>1. /\ UNCHANGED <<idleWorker, pworker, towake, interrupts, task, isruning>>
        /\ wpc[w] = "towait"
        /\ wpc'[w] = "waiting" /\ \A x \in Workers \ {w} : wpc'[x] = wpc[x]
    BY <1>6, <1>y DEF Wait, postVars
  <2> QED BY <2>1, WorkerCalm DEF TokenMeans
<1>7. ASSUME NEW w \in Workers, Interrupt(w) PROVE Calm'
  <2>1. interrupts' # 0
    BY <1>7, <1>y DEF Interrupt
  <2> QED BY <2>1 DEF Calm
<1>8. ASSUME NEW w \in Workers, StopWorker(w) PROVE Calm'
  <2>1. /\ UNCHANGED <<idleWorker, pworker, towake, interrupts, task>>
        /\ ~isruning'[w] /\ wpc[w] # "towait"
        /\ wpc'[w] = (IF wpc[w] = "waiting" THEN "top" ELSE wpc[w])
        /\ \A x \in Workers \ {w} : wpc'[x] = wpc[x] /\ isruning'[x] = isruning[x]
    BY <1>8, <1>y DEF StopWorker, MutexFree, Notify, postVars
  <2> QED BY <2>1, WorkerCalm DEF TokenMeans
<1>9. ASSUME NEW p \in Posters, NEW t \in Tasks, PostCall(p, t) PROVE Calm'
  BY <1>9, QuietCalm DEF PostCall, poolVars
<1>10. ASSUME NEW p \in Posters, PostPop(p) PROVE Calm'
  <2>1. UNCHANGED <<towake, interrupts, wpc, task, isruning>>
    BY <1>10 DEF PostPop
  <2>2. pworker[p] = NoWorker
    BY <1>10 DEF PostPop, TInv, Posting
  <2>3. CASE idleWorker = <<>>
    BY <1>10, <2>1, <2>3, QuietCalm DEF PostPop
  <2>4. CASE idleWorker # <<>>
    BY <1>10, <2>1, <2>2, <2>4, TakenCalm DEF PostPop, IdleRest
  <2> QED BY <2>3, <2>4
<1>11. ASSUME NEW p \in Posters, RunTask(p) PROVE Calm'
  <2> SUFFICES ASSUME TokensOnce, TokenMeans PROVE TokensOnce' /\ TokenMeans'
    BY <1>11 DEF Calm, RunTask
  <2>0. PICK w \in Workers : w = pworker[p]
    BY <1>11 DEF RunTask, TInv, TypeOK, Posting
  <2>1. /\ UNCHANGED <<idleWorker, wpc, isruning>>
        /\ pworker'[p] = NoWorker /\ \A q \in Posters \ {p} : pworker'[q] = pworker[q] /\ towake'[q] = towake[q]
        /\ towake'[p] = <<w>> \o towake[p] /\ \A x \in Workers \ {w} : task'[x] = task[x]
    BY <1>11, <2>0, <1>y DEF RunTask
  <2>2. Range(towake'[p]) = Range(towake[p]) \cup {w}
    BY <2>1, <1>y, Prepended
  <2>3. /\ w \notin Range(idleWorker) /\ \A q \in Posters : w \notin Range(towake[q])
        /\ \A q \in Posters \ {p} : pworker[q] # w
    BY <2>0, <1>y DEF TokensOnce
  <2>4. Distinct(towake'[p])
    BY <2>1, <2>3, <1>y, Prepended DEF TokensOnce
  <2>5. TokensOnce'
    <3>1. \A q \in Posters : /\ Distinct(towake'[q]) /\ pworker'[q] \notin Range(idleWorker')
                             /\ \A x \in Range(towake'[q]) : x \notin Range(idleWorker')
      <4> TAKE q \in Posters
      <4>1. CASE q = p
        BY <4>1, <2>1, <2>2, <2>3, <2>4, <1>y, <1>z DEF TokensOnce
      <4>2. CASE q # p
        BY <4>2, <2>1 DEF TokensOnce
      <4> QED BY <4>1, <4>2
    <3>2. \A q, o \in Posters : pworker'[q] = pworker'[o] /\ pworker'[q] # NoWorker => q = o
      BY <2>1 DEF TokensOnce
    <3>3. \A q, o \in Posters : pworker'[q] \notin Range(towake'[o])
      <4>1. NoWorker \notin Range(towake'[p]) /\ \A o \in Posters : NoWorker \notin Range(towake[o])
        BY <2>2, <1>y, <1>z
      <4> TAKE q, o \in Posters
      <4>2. CASE q = p
        BY <4>1, <4>2, <2>1
      <4>3. CASE q # p
        <5>1. pworker'[q] = pworker[q] /\ pworker[q] # w
          BY <4>3, <2>1, <2>3
        <5>2. pworker[q] \notin Range(towake[o])
          BY DEF TokensOnce
        <5>3. CASE o = p
          BY <5>1, <5>2, <5>3, <2>2
        <5>4. CASE o # p
          BY <5>1, <5>2, <5>4, <2>1
        <5> QED BY <5>3, <5>4
      <4> QED BY <4>2, <4>3
    <3>4. ASSUME NEW q \in Posters, NEW o \in Posters, NEW x \in Range(towake'[q]), x \in Range(towake'[o])
          PROVE q = o
      <4>1. CASE q = p /\ o # p
        BY <4>1, <3>4, <2>1, <2>2, <2>3 DEF TokensOnce
      <4>2. CASE q # p /\ o = p
        BY <4>2, <3>4, <2>1, <2>2, <2>3 DEF TokensOnce
      <4>3. CASE q # p /\ o # p
        BY <4>3, <3>4, <2>1 DEF TokensOnce
      <4> QED BY <4>1, <4>2, <4>3
    <3> QED BY <2>1, <3>1, <3>2, <3>3, <3>4 DEF TokensOnce
  <2>6. ASSUME NEW x \in Workers PROVE Token(x)' <=> Token(x)
    <3>1. CASE x = w
      BY <3>1, <2>0, <2>2 DEF Token
    <3>2. CASE x # w
      BY <3>2, <2>0, <2>1, <2>2, <1>y DEF Token
    <3> QED BY <3>1, <3>2
  <2>7. Token(w)
    BY <2>0 DEF Token
  <2>8. ASSUME NEW x \in Workers
        PROVE  /\ wpc[x] \in {"pop", "lock", "run"} => task'[x] = NoTask
               /\ task'[x] # NoTask => x \notin Range(idleWorker) /\ \A q \in Posters : pworker'[q] # x
    <3>1. CASE x = w
      <4>1. wpc[w] \notin {"pop", "lock", "run"}
        BY <2>7 DEF TokenMeans
      <4>2. \A q \in Posters : pworker'[q] # w
        BY <2>1, <2>3, <1>y
      <4> QED BY <3>1, <4>1, <4>2, <2>3
    <3>2. CASE x # w
      BY <3>2, <2>1, <1>y DEF TokenMeans
    <3> QED BY <3>1, <3>2
  <2>9. TokenMeans'
    BY <2>1, <2>6, <2>8 DEF TokenMeans
  <2> QED BY <2>5, <2>9
<1>12. ASSUME NEW p \in Posters, RunTaskNotify(p) PROVE Calm'
  <2>0. towake[p] # <<>>
    BY <1>12 DEF RunTaskNotify, TInv, Posting
  <2>1. PICK w \in Workers : w = Head(towake[p])
    BY <2>0, <1>y, Popped
  <2>2. /\ wpc[w] # "towait" /\ UNCHANGED <<idleWorker, pworker, interrupts, task, isruning>> /\ Notify(w)
        /\ towake'[p] = Tail(towake[p]) /\ \A q \in Posters \ {p} : towake'[q] = towake[q]
    BY <1>12, <2>1, <1>y DEF RunTaskNotify, MutexFree, NotifyTarget
  <2>3. ASSUME TokensOnce
        PROVE  TokensOnce' /\ ~ Token(w)' /\ \A x \in Workers \ {w} : Token(x)' <=> Token(x)
    <3>1. /\ Range(towake[p]) = Range(towake'[p]) \cup {w}
          /\ Distinct(towake'[p]) /\ w \notin Range(towake'[p])
      BY <2>0, <2>1, <2>2, <2>3, <1>y, Popped DEF TokensOnce
    <3>2. TokensOnce'
      BY <2>2, <2>3, <3>1 DEF TokensOnce
    <3>3. /\ w \notin Range(idleWorker) /\ \A q \in Posters : pworker[q] # w
          /\ \A q \in Posters \ {p} : w \notin Range(towake[q])
      BY <2>3, <3>1 DEF TokensOnce
    <3>4. ~ Token(w)'
      BY <2>2, <3>1, <3>3 DEF Token
    <3>5. \A x \in Workers \ {w} : Token(x)' <=> Token(x)
      BY <2>2, <3>1 DEF Token
    <3> QED BY <3>2, <3>4, <3>5
  <2> QED BY <2>2, <2>3, NotifiedCalm
<1>13. ASSUME NEW p \in Posters, PostPush(p) PROVE Calm'
  BY <1>13, QuietCalm DEF PostPush
<1>14. ASSUME NEW p \in Posters, DrainPop(p) PROVE Calm'
  <2>1. UNCHANGED <<towake, interrupts, wpc, task, isruning>>
    BY <1>14 DEF DrainPop
  <2>2. pworker[p] = NoWorker
    BY <1>14 DEF DrainPop, TInv, Posting
  <2>3. CASE idleWorker = <<>>
    BY <1>14, <2>1, <2>3, QuietCalm DEF DrainPop
  <2>4. CASE idleWorker # <<>>
    BY <1>14, <2>1, <2>2, <2>4, TakenCalm DEF DrainPop, IdleRest
  <2> QED BY <2>3, <2>4
<1>15. ASSUME NEW p \in Posters, DrainNotify(p) PROVE Calm'
  <2>1. PICK w \in Workers : w = pworker[p]
    BY <1>15 DEF DrainNotify, TInv, TypeOK, Posting
  <2>2. /\ wpc[w] # "towait" /\ UNCHANGED <<idleWorker, towake, interrupts, task, isruning>> /\ Notify(w)
        /\ pworker'[p] = NoWorker /\ \A q \in Posters \ {p} : pworker'[q] = pworker[q]
    BY <1>15, <2>1, <1>y DEF DrainNotify, MutexFree, NotifyTarget
  <2>3. ASSUME TokensOnce
        PROVE  TokensOnce' /\ ~ Token(w)' /\ \A x \in Workers \ {w} : Token(x)' <=> Token(x)
    <3>1. NoWorker \notin Range(idleWorker) /\ \A q \in Posters : NoWorker \notin Range(towake[q])
      BY <1>y, <1>z
    <3>2. TokensOnce'
      BY <2>2, <2>3, <3>1 DEF TokensOnce
    <3>3. /\ w \notin Range(idleWorker) /\ \A q \in Posters : w \notin Range(towake[q])
          /\ \A q \in Posters \ {p} : pworker[q] # w
      BY <2>1, <2>3, <1>y DEF TokensOnce
    <3>4. ~ Token(w)'
      BY <2>2, <3>3, <1>y DEF Token
    <3>5. \A x \in Workers \ {w} : Token(x)' <=> Token(x)
      BY <2>1, <2>2, <1>y DEF Token
    <3> QED BY <3>2, <3>4, <3>5
  <2>4. \A q \in Posters : pworker'[q] \in {pworker[q], NoWorker}
    BY <2>2
  <2> QED BY <2>2, <2>3, <2>4, NotifiedCalm
<1>16. CASE UNCHANGED vars
  BY <1>16, QuietCalm DEF vars, poolVars, postVars
<1> QED
  BY <1>1, <1>2, <1>3, <1>4, <1>5, <1>6, <1>7, <1>8, <1>9, <1>10, <1>11, <1>12,
     <1>13, <1>14, <1>15, <1>16 DEF Next, WorkerStep, PosterStep
-----------------------------------------------------------------------------
(* The theorems.                                                           *)

PoolInv == TInv /\ PlacedOnce /\ PlacedTillRun /\ Calm

LEMMA PoolInvariant == Spec => []PoolInv
<1>1. Init => PoolInv
  BY InitTInv, InitPlaced, InitCalm DEF PoolInv
<1>2. PoolInv /\ [Next]_vars => PoolInv'
  BY StepTInv, StepPlaced, StepCalm DEF PoolInv
<1> QED BY <1>1, <1>2, PTL DEF Spec

\* However many threads post, and whatever races between Post, the exchange in
\* RunTask, the workers, Stop and interrupted waits: no task is lost, doubled
\* or run twice.
THEOREM TasksPlacedOnce == Spec => []TaskInOnePlace
<1>1. PoolInv => TaskInOnePlace
  <2> SUFFICES ASSUME PoolInv, NEW t \in posted PROVE Cardinality(Places(t)) + ran[t] = 1
    BY DEF TaskInOnePlace
  <2>y. t \in Tasks /\ t # NoTask /\ taskQueue \in Seq(Tasks)
    BY PoolAssumption DEF PoolInv, TInv, TypeOK
  <2> DEFINE I == {j \in 1..Len(taskQueue) : taskQueue[j] = t}
             W == {x \in Workers : task[x] = t}
             P == {x \in Posters : ptask[x] = t /\ ppc[x] \in {"pop", "slot", "push"}}
  <2>p. P = {x \in Posters : ptask[x] = t}
    BY <2>y DEF PoolInv, TInv, Posting
  <2>i. /\ t \in Range(taskQueue) => \E k \in 1..Len(taskQueue) : I = {k}
        /\ t \notin Range(taskQueue) => I = {}
    BY <2>y, IndexOfDistinct DEF PoolInv, PlacedOnce
  <2>d. Places(t) = {<<"slot", w>> : w \in W} \cup {<<"hand", p>> : p \in P} \cup {<<"queue", i>> : i \in I}
    BY DEF Places
  <2>1. CASE ~ InPlace(t)
    <3>1. W = {} /\ P = {} /\ I = {}
      BY <2>1, <2>i, <2>p DEF InPlace
    <3>2. Places(t) = {}
      BY <3>1, <2>d
    <3>3. ran[t] = 1
      BY <2>1, <2>y DEF PoolInv, PlacedTillRun
    <3> QED BY <3>2, <3>3, FS_EmptySet
  <2>2. CASE InPlace(t)
    <3>1. \E x : Places(t) = {x}
      <4>1. ASSUME NEW w \in Workers, task[w] = t PROVE \E x : Places(t) = {x}
        <5>1. W = {w} /\ P = {} /\ t \notin Range(taskQueue)
          BY <4>1, <2>y, <2>p DEF PoolInv, PlacedOnce
        <5>2. Places(t) = {<<"slot", w>>}
          BY <5>1, <2>i, <2>d
        <5> QED BY <5>2
      <4>2. ASSUME NEW p \in Posters, ptask[p] = t PROVE \E x : Places(t) = {x}
        <5>1. W = {} /\ P = {p} /\ t \notin Range(taskQueue)
          BY <4>2, <2>y, <2>p DEF PoolInv, PlacedOnce
        <5>2. Places(t) = {<<"hand", p>>}
          BY <5>1, <2>i, <2>d
        <5> QED BY <5>2
      <4>3. ASSUME t \in Range(taskQueue) PROVE \E x : Places(t) = {x}
        <5>1. W = {} /\ P = {}
          BY <4>3, <2>p DEF PoolInv, PlacedOnce
        <5>2. PICK k \in 1..Len(taskQueue) : I = {k}
          BY <4>3, <2>i
        <5>3. Places(t) = {<<"queue", k>>}
          BY <5>1, <5>2, <2>d
        <5> QED BY <5>3
      <4> QED BY <2>2, <4>1, <4>2, <4>3 DEF InPlace
    <3>2. ran[t] = 0
      BY <2>2, <2>y DEF PoolInv, PlacedTillRun
    <3> QED BY <3>1, <3>2, FS_Singleton
  <2> QED BY <2>1, <2>2
<1> QED BY <1>1, PoolInvariant, PTL

\* As long as no wait was interrupted, a sleeping worker is in idleWorker or in
\* the hands of exactly one poster, and a worker taken from idleWorker has no
\* undone task in its slot.
THEOREM SleepersReachable == Spec => []NobodyForgotten
<1>1. PoolInv => NobodyForgotten
  <2> SUFFICES ASSUME PoolInv PROVE NobodyForgotten
    OBVIOUS
  <2>y. TypeOK /\ idleWorker \in Seq(Workers) /\ NoWorker \notin Workers
    BY PoolAssumption DEF PoolInv, TInv, TypeOK
  <2>1. SleeperReachable
    <3> SUFFICES ASSUME NEW w \in Workers, wpc[w] \in {"towait", "waiting"}, isruning[w], interrupts = 0
                 PROVE  Cardinality({i \in 1..Len(idleWorker) : idleWorker[i] = w})
                          + Cardinality(Wakers(w)) = 1
      BY DEF SleeperReachable
    <3> DEFINE I == {i \in 1..Len(idleWorker) : idleWorker[i] = w}
    <3>1. TokensOnce /\ TokenMeans
      BY DEF PoolInv, Calm
    <3>2. Token(w)
      BY <3>1 DEF TokenMeans
    <3>3. /\ w \in Range(idleWorker) => \E k \in 1..Len(idleWorker) : I = {k}
          /\ w \notin Range(idleWorker) => I = {}
      BY <3>1, <2>y, IndexOfDistinct DEF TokensOnce
    <3>4. CASE w \in Range(idleWorker)
      <4>1. Wakers(w) = {}
        BY <3>1, <3>4 DEF Wakers, TokensOnce
      <4>2. PICK k \in 1..Len(idleWorker) : I = {k}
        BY <3>3, <3>4
      <4>3. Cardinality(I) = 1
        BY <4>2, FS_Singleton
      <4>4. Cardinality(Wakers(w)) = 0
        BY <4>1, FS_EmptySet
      <4> QED BY <4>3, <4>4
    <3>5. CASE w \notin Range(idleWorker)
      <4>1. PICK p \in Posters : pworker[p] = w \/ w \in Range(towake[p])
        BY <3>2, <3>5 DEF Token
      <4>2. \A q \in Posters : pworker[q] = w \/ w \in Range(towake[q]) => q = p
        BY <3>1, <4>1, <2>y DEF TokensOnce
      <4>3. Wakers(w) = {p}
        BY <4>1, <4>2 DEF Wakers
      <4>4. I = {} /\ Cardinality(I) = 0 /\ Cardinality(Wakers(w)) = 1
        BY <3>3, <3>5, <4>3, FS_EmptySet, FS_Singleton
      <4> QED BY <4>4
    <3> QED BY <3>4, <3>5
  <2>2. NoUndoneTask
    BY DEF NoUndoneTask, PoolInv, TInv, TypeOK, Posting, Calm, TokenMeans
  <2> QED BY <2>y, <2>1, <2>2 DEF NobodyForgotten
<1> QED BY <1>1, PoolInvariant, PTL
=============================================================================
