---------------------------- MODULE EpollerProofs ----------------------------
(***************************************************************************)
(* Proofs about Epoller for any set of events, any bounds of the clock and *)
(* any number of posted tasks.                                             *)
(*                                                                         *)
(* That no plain pointer of the loop dangles rests on two facts.  The tasks*)
(* of an event are queued in the order Add, others, Del, so none is left   *)
(* when DelEvent gives back the reference of the registration.  And every  *)
(* reference is held by somebody: ref_count is at least the number of the  *)
(* holders that Holders lists (more if a timeout bit is raised twice or    *)
(* its handler returns early).                                             *)
(***************************************************************************)
EXTENDS Epoller, FiniteSetTheorems, SequenceTheorems, WellFoundedInduction, TLAPS

\* What is still to run, in this order.
Todo == batch \o tasklist

\* The types of everything but the counts of references.
Types ==
  /\ isruning \in {"unset", "yes", "no"}
  /\ ppc \in {"before", "top", "wtimers", "wout", "rtimers", "rout", "wait",
              "dispatch", "pending", "run", "returned"}
  /\ nowsec \in Nat /\ until \in Nat \cup {Forever}
  /\ arr \in SUBSET Events
  /\ tasklist \in Seq(Task) /\ batch \in Seq(Task)
  /\ notified \in BOOLEAN
  /\ rkey \in [Events -> Nat] /\ wkey \in [Events -> Nat]
  /\ registered \in SUBSET Events /\ ready \in SUBSET registered
  /\ deleted \in SUBSET Events
  /\ life \in [Events -> {"new", "adding", "open", "closed"}]
  /\ raised \in [Events -> SUBSET {"IO", "RTIME", "WTIME"}]
  /\ hpc \in [Events -> {"idle", "run", "notify"}]
  /\ hmask \in [Events -> SUBSET {"IO", "RTIME", "WTIME"}]
  /\ opc \in [Events -> {"out", "notify"}]
  /\ stop \in {"no", "early", "notify", "done"}
  /\ nposted \in Nat /\ nrun \in Nat /\ clock \in Nat
  /\ nowsec <= clock
  /\ ref_count \in [Events -> Int]

\* tmp is empty whenever ProcessPendingTask is not running its tasks.
BatchDone == ppc # "run" => batch = <<>>

\* The tasks of e and the life of e: Add is alone and first, Del is last.
TasksOf(e) ==
  \A i \in 1..Len(Todo) : Todo[i].ev = e =>
    /\ life[e] = "adding" \/ e \in registered
    /\ Todo[i].op = "Add" <=> life[e] = "adding"
    /\ Todo[i].op = "Del" => life[e] = "closed"
    /\ \A j \in 1..Len(Todo) : Todo[j].ev = e => /\ Todo[i].op = "Add" => i = j
                                                 /\ Todo[i].op = "Del" => j <= i

\* What is registered: open events, and closed ones that DelEvent has not met.
Registered(e) ==
  /\ e \in registered => life[e] \in {"open", "closed"}
  /\ life[e] = "open" => e \in registered
  /\ rkey[e] # 0 \/ wkey[e] # 0 => e \in registered

\* What ev_arr holds is registered, and it is empty while tasks run.
Arrived ==
  /\ arr \subseteq registered
  /\ arr # {} => ppc \in {"dispatch", "wout", "rout"}
  /\ ppc \in {"wout", "rout"} => \A e, f \in arr : e = f

One(b) == IF b THEN 1 ELSE 0

\* The references to e: of its owner, its registration, its timers (until
\* they expire), the timeout bits raised or with the handler, and the wrapper
\* that is posted or running.
OwnerRef(e) == One(life[e] \in {"new", "adding", "open"})
RegRef(e)   == One(life[e] = "adding" \/ e \in registered)
ReadRef(e)  == One(rkey[e] # 0 /\ ~ (ppc = "rout" /\ e \in arr))
WriteRef(e) == One(wkey[e] # 0 /\ ~ (ppc = "wout" /\ e \in arr))
BitRefs(S)  == One("RTIME" \in S) + One("WTIME" \in S)
WrapRef(e)  == One(raised[e] # {} \/ hpc[e] # "idle")

Holders(e) == OwnerRef(e) + RegRef(e) + ReadRef(e) + WriteRef(e)
                + BitRefs(raised[e]) + BitRefs(hmask[e]) + WrapRef(e)

\* Every holder has its reference, and what is deleted has none left.
Counted == \A e \in Events : ref_count[e] >= Holders(e) /\ (e \in deleted => ref_count[e] = 0)

PInv == /\ Types /\ BatchDone /\ TasksInOrder
        /\ \A e \in Events : TasksOf(e) /\ Registered(e)
        /\ Arrived /\ Counted
-----------------------------------------------------------------------------
(* Types.                                                                  *)

\* A set of naturals that is not empty has a least member.
LEMMA LeastKey ==
  ASSUME NEW T \in SUBSET Nat, T # {}
  PROVE  Earliest(T) \in T
<1>1. PICK n \in T : \A m \in T : ~ (<<m, n>> \in OpToRel(<, Nat))
  BY WFMin, NatLessThanWellFounded, Zenon
<1>2. \A m \in T : ~ (m < n)
  <2> TAKE m \in T
  <2>1. <<m, n>> \in Nat \X Nat
    OBVIOUS
  <2>2. <<m, n>>[1] = m /\ <<m, n>>[2] = n
    OBVIOUS
  <2> QED BY <1>1, <2>1, <2>2 DEF OpToRel
<1>3. \E k \in T : \A l \in T : k <= l
  BY <1>2
<1> QED BY <1>3 DEF Earliest

\* How many timeout bits a mask has, and how many timers of an event are set.
LEMMA TwoCounted ==
  ASSUME NEW a, NEW b, a # b, NEW S
  PROVE  Cardinality(S \cap {a, b}) = One(a \in S) + One(b \in S)
<1>1. CASE a \in S /\ b \in S
  <2>1. S \cap {a, b} = {a} \cup {b}
    BY <1>1
  <2>2. IsFiniteSet({a}) /\ Cardinality({a}) = 1 /\ b \notin {a}
    BY FS_Singleton
  <2>3. Cardinality({a} \cup {b}) = 2
    BY <2>2, FS_AddElement
  <2> QED BY <1>1, <2>1, <2>3 DEF One
<1>2. CASE a \in S /\ b \notin S
  <2>1. S \cap {a, b} = {a}
    BY <1>2
  <2> QED BY <1>2, <2>1, FS_Singleton DEF One
<1>3. CASE a \notin S /\ b \in S
  <2>1. S \cap {a, b} = {b}
    BY <1>3
  <2> QED BY <1>3, <2>1, FS_Singleton DEF One
<1>4. CASE a \notin S /\ b \notin S
  <2>1. S \cap {a, b} = {}
    BY <1>4
  <2> QED BY <1>4, <2>1, FS_EmptySet DEF One
<1> QED BY <1>1, <1>2, <1>3, <1>4

LEMMA BitsCounted ==
  \A S : Cardinality(S \cap {"RTIME", "WTIME"}) = One("RTIME" \in S) + One("WTIME" \in S)
<1>1. "RTIME" # "WTIME"
  OBVIOUS
<1> QED BY <1>1, TwoCounted

LEMMA TimersCounted ==
  \A e : Cardinality({k \in {"r", "w"} : IF k = "r" THEN rkey[e] # 0 ELSE wkey[e] # 0})
           = One(rkey[e] # 0) + One(wkey[e] # 0)
<1> TAKE e
<1> DEFINE T == {k \in {"r", "w"} : IF k = "r" THEN rkey[e] # 0 ELSE wkey[e] # 0}
<1>1. "r" # "w"
  OBVIOUS
<1>2. T \cap {"r", "w"} = T /\ ("r" \in T <=> rkey[e] # 0) /\ ("w" \in T <=> wkey[e] # 0)
  BY <1>1
<1>3. Cardinality(T \cap {"r", "w"}) = One("r" \in T) + One("w" \in T)
  BY <1>1, TwoCounted
<1> QED BY <1>2, <1>3 DEF One

\* The steps of the poller's thread that run a task of event e.
LEMMA TaskAtHead ==
  ASSUME Types, NEW op, NextTask(op)
  PROVE  /\ Head(batch) \in Task /\ Tail(batch) \in Seq(Task) /\ Head(batch).op = op
         /\ Head(batch).ev \in Events /\ Head(batch).n \in Nat /\ op \in Ops
<1>1. batch \in Seq(Task) /\ batch # <<>> /\ Head(batch).op = op
  BY DEF Types, NextTask
<1>2. Head(batch) \in Task /\ Tail(batch) \in Seq(Task)
  BY <1>1, HeadTailProperties
<1> QED BY <1>1, <1>2 DEF Task

LEMMA StepTypes == Types /\ [Next]_vars => Types'
<1> SUFFICES ASSUME Types, [Next]_vars PROVE Types'
  OBVIOUS
<1> USE PollerAssumption
    DEF Types, loopVars, taskVars, timerVars, eventVars, handlerVars, Goto, LoopTest, Forever,
        Release, Require, NotifyEdge
<1>a. ASSUME NEW e \in Events, AddEventASync(e) PROVE Types'
  <2>1. tasklist' \in Seq(Task)
    <3>1. [op |-> "Add", ev |-> e, n |-> nposted + 1] \in Task
      BY DEF Task, Ops
    <3> QED BY <1>a, <3>1, AppendProperties DEF AddEventASync, Push
  <2> QED BY <1>a, <2>1 DEF AddEventASync, Push
<1>b. ASSUME NEW e \in Events, NEW op \in Ops, HandlerPost(e, op) PROVE Types'
  <2>1. tasklist' \in Seq(Task)
    <3>1. [op |-> op, ev |-> e, n |-> nposted + 1] \in Task
      BY DEF Task
    <3> QED BY <1>b, <3>1, AppendProperties DEF HandlerPost, Push
  <2> QED BY <1>b, <2>1 DEF HandlerPost, Push
<1>c. ASSUME NEW e \in Events, HandlerClose(e) PROVE Types'
  <2>1. tasklist' \in Seq(Task)
    <3>1. [op |-> "Del", ev |-> e, n |-> nposted + 1] \in Task
      BY DEF Task, Ops
    <3> QED BY <1>c, <3>1, AppendProperties DEF HandlerClose, Push
  <2> QED BY <1>c, <2>1 DEF HandlerClose, Push
<1>d. ASSUME NEW e \in Events, HandlerEnd(e) PROVE Types'
  <2>1. Cardinality(hmask[e] \cap {"RTIME", "WTIME"}) \in Int
    <3>1. Cardinality(hmask[e] \cap {"RTIME", "WTIME"}) = One("RTIME" \in hmask[e]) + One("WTIME" \in hmask[e])
      BY BitsCounted
    <3> QED BY <3>1 DEF One
  <2>2. \E k \in Int : Release(e, k)
    <3>1. PICK k \in {Cardinality(hmask[e] \cap {"RTIME", "WTIME"})} \cup (IF "IO" \in hmask[e] THEN {0} ELSE {}) :
             Release(e, k + (IF raised[e] = {} THEN 1 ELSE 0))
      BY <1>d DEF HandlerEnd
    <3>2. k + (IF raised[e] = {} THEN 1 ELSE 0) \in Int
      BY <2>1, <3>1
    <3> QED BY <3>1, <3>2
  <2> QED BY <1>d, <2>2, SMTT(30) DEF HandlerEnd
<1>e. ASSUME NEW e \in Events, OwnerNotify(e) \/ HandlerNotify(e) PROVE Types'
  BY <1>e DEF OwnerNotify, HandlerNotify
<1>f. ASSUME NEW e \in Events, HandlerBegin(e) PROVE Types'
  <2>1. hmask' \in [Events -> SUBSET {"IO", "RTIME", "WTIME"}]
    BY <1>f DEF HandlerBegin
  <2> QED BY <1>f, <2>1 DEF HandlerBegin
<1>g. ASSUME NEW e \in Events, Edge(e) PROVE Types'
  BY <1>g DEF Edge
<1>r. CASE Stop \/ StopNotify
  BY <1>r DEF Stop, StopNotify
<1>s. CASE Tick
  BY <1>s DEF Tick
<1>t. CASE PollBegins \/ WriteTimersDone
  BY <1>t DEF PollBegins, WriteTimersDone
<1>u. CASE ReadClock
  BY <1>u DEF ReadClock
<1>v. CASE WaitReturns
  BY <1>v DEF WaitReturns
<1>w. CASE WaitTimesOut \/ WaitInterrupted \/ DispatchDone
  BY <1>w DEF WaitTimesOut, WaitInterrupted, DispatchDone
<1>h. CASE EnterWait
  <2>1. until' \in Nat \cup {Forever}
    <3> DEFINE K == {wkey[e] : e \in InTree(wkey)} \cup {rkey[e] : e \in InTree(rkey)}
    <3>1. CASE K = {}
      BY <1>h, <3>1 DEF EnterWait, WaitTime
    <3>2. CASE K # {}
      <4>1. K \in SUBSET Nat
        BY DEF InTree
      <4>2. Earliest(K) \in Nat
        <5> HIDE DEF K
        <5> QED BY <4>1, <3>2, LeastKey
      <4>3. WaitTime = Earliest(K) - nowsec
        BY <3>2 DEF WaitTime
      <4>4. until' = Forever \/ until' = clock + (Earliest(K) - nowsec)
        BY <1>h, <4>3 DEF EnterWait
      <4> QED BY <4>2, <4>4
    <3> QED BY <3>1, <3>2
  <2> QED BY <1>h, <2>1 DEF EnterWait
<1>i. ASSUME NEW e \in Events, ExpireWrite(e) \/ ExpireRead(e) \/ Dispatch(e) PROVE Types'
  <2>1. \E bit \in {"IO", "RTIME", "WTIME"} : OnEventAsync(e, bit)
    BY <1>i DEF ExpireWrite, ExpireRead, Dispatch
  <2>2. raised' \in [Events -> SUBSET {"IO", "RTIME", "WTIME"}] /\ ref_count' \in [Events -> Int] /\ deleted' = deleted
    BY <2>1 DEF OnEventAsync
  <2> QED BY <1>i, <2>2 DEF ExpireWrite, ExpireRead, Dispatch
<1>j. ASSUME NEW e \in Events, RemoveWrite(e) PROVE Types'
  BY <1>j DEF RemoveWrite
<1>x. ASSUME NEW e \in Events, RemoveRead(e) PROVE Types'
  BY <1>x DEF RemoveRead
<1>k. CASE MoveTasks
  BY <1>k DEF MoveTasks
<1>l. ASSUME NEW op, NextTask(op),
             rkey' \in [Events -> Nat] /\ wkey' \in [Events -> Nat] /\ registered' \in SUBSET Events
             /\ ready' \in SUBSET registered' /\ deleted' \in SUBSET Events
             /\ ref_count' \in [Events -> Int] /\ life' \in [Events -> {"new", "adding", "open", "closed"}]
      PROVE  Types'
  BY <1>l, TaskAtHead DEF NextTask
<1>m. CASE RunTasks
  <2>1. PICK op : NextTask(op)
    BY <1>m DEF RunTasks, AddEvent, ModEvent, DelEvent, SetReadTimeOut, SetWriteTimeOut,
                DelReadTimeOut, DelWriteTimeOut
  <2>2. PICK e \in Events : e = Head(batch).ev
    BY <2>1, TaskAtHead
  <2>3. KeyDeadline \in Nat
    BY DEF KeyDeadline
  <2>4. CASE AddEvent
    BY <1>l, <2>1, <2>2, <2>4 DEF AddEvent
  <2>5. CASE ModEvent
    BY <1>l, <2>1, <2>5 DEF ModEvent
  <2>6. CASE SetReadTimeOut
    <3>1. rkey' \in [Events -> Nat] /\ wkey' = wkey
      BY <2>2, <2>3, <2>6 DEF SetReadTimeOut
    <3>2. ref_count' \in [Events -> Int] /\ deleted' \in SUBSET Events
      BY <2>2, <2>6 DEF SetReadTimeOut
    <3>3. registered' = registered /\ ready' = ready /\ life' = life
      BY <2>6 DEF SetReadTimeOut
    <3> QED BY <1>l, <2>1, <3>1, <3>2, <3>3
  <2>7. CASE SetWriteTimeOut
    <3>1. wkey' \in [Events -> Nat] /\ rkey' = rkey
      BY <2>2, <2>3, <2>7 DEF SetWriteTimeOut
    <3>2. ref_count' \in [Events -> Int] /\ deleted' \in SUBSET Events
      BY <2>2, <2>7 DEF SetWriteTimeOut
    <3>3. registered' = registered /\ ready' = ready /\ life' = life
      BY <2>7 DEF SetWriteTimeOut
    <3> QED BY <1>l, <2>1, <3>1, <3>2, <3>3
  <2>8. CASE DelReadTimeOut
    <3>1. rkey' \in [Events -> Nat] /\ wkey' = wkey
      BY <2>2, <2>3, <2>8 DEF DelReadTimeOut
    <3>2. ref_count' \in [Events -> Int] /\ deleted' \in SUBSET Events
      BY <2>2, <2>8 DEF DelReadTimeOut
    <3>3. registered' = registered /\ ready' = ready /\ life' = life
      BY <2>8 DEF DelReadTimeOut
    <3> QED BY <1>l, <2>1, <3>1, <3>2, <3>3
  <2>9. CASE DelWriteTimeOut
    <3>1. wkey' \in [Events -> Nat] /\ rkey' = rkey
      BY <2>2, <2>3, <2>9 DEF DelWriteTimeOut
    <3>2. ref_count' \in [Events -> Int] /\ deleted' \in SUBSET Events
      BY <2>2, <2>9 DEF DelWriteTimeOut
    <3>3. registered' = registered /\ ready' = ready /\ life' = life
      BY <2>9 DEF DelWriteTimeOut
    <3> QED BY <1>l, <2>1, <3>1, <3>2, <3>3
  <2>10. CASE DelEvent
    <3>1. PICK k \in Int : Release(e, k)
      <4> DEFINE c == Cardinality({k \in {"r", "w"} : IF k = "r" THEN rkey[e] # 0 ELSE wkey[e] # 0})
      <4>1. c = One(rkey[e] # 0) + One(wkey[e] # 0)
        BY TimersCounted
      <4>2. 1 + c \in Int
        BY <4>1 DEF One
      <4>3. Release(e, 1 + c)
        BY <2>2, <2>10 DEF DelEvent, CancelTimers
      <4> HIDE DEF c
      <4> QED BY <4>2, <4>3
    <3>2. ref_count' \in [Events -> Int] /\ deleted' \in SUBSET Events
      BY <3>1, <2>2
    <3>3. rkey' \in [Events -> Nat] /\ wkey' \in [Events -> Nat]
      BY <2>2, <2>10 DEF DelEvent, CancelTimers
    <3>4. registered' \in SUBSET Events /\ ready' \in SUBSET registered' /\ life' = life
      BY <2>10 DEF DelEvent
    <3> QED BY <1>l, <2>1, <3>2, <3>3, <3>4
  <2> QED BY <1>m, <2>4, <2>5, <2>6, <2>7, <2>8, <2>9, <2>10 DEF RunTasks
<1>q. CASE UNCHANGED vars
  BY <1>q DEF vars
<1> QED
  BY <1>a, <1>b, <1>c, <1>d, <1>e, <1>f, <1>g, <1>h, <1>i, <1>j, <1>k, <1>m, <1>q,
     <1>r, <1>s, <1>t, <1>u, <1>v, <1>w, <1>x
  DEF Next, PollStep, HandlerStep
-----------------------------------------------------------------------------
(* The tasks still to run.                                                 *)

LEMMA TodoIsSeq == Types => Todo \in Seq(Task) /\ Len(Todo) \in Nat /\ \A i \in 1..Len(Todo) : Todo[i] \in Task
<1> SUFFICES ASSUME Types PROVE Todo \in Seq(Task)
  BY ElementOfSeq, LenProperties
<1>1. batch \in Seq(Task) /\ tasklist \in Seq(Task)
  BY DEF Types
<1> QED BY <1>1, ConcatProperties DEF Todo

\* PostTask's push puts its task behind all others ...
LEMMA TodoPushed ==
  ASSUME Types, NEW op \in Ops, NEW e \in Events, Push(op, e), batch' = batch
  PROVE  /\ Len(Todo') = Len(Todo) + 1
         /\ \A i \in 1..Len(Todo) : Todo'[i] = Todo[i]
         /\ LET t == Todo'[Len(Todo) + 1] IN t.op = op /\ t.ev = e /\ t.n = nposted + 1
<1> DEFINE t == [op |-> op, ev |-> e, n |-> nposted + 1]
<1>1. batch \in Seq(Task) /\ tasklist \in Seq(Task) /\ t \in Task
  BY DEF Types, Task
<1>2. tasklist' = Append(tasklist, t)
  BY DEF Push
<1>3. /\ tasklist' \in Seq(Task) /\ Len(tasklist') = Len(tasklist) + 1
      /\ \A i \in 1..Len(tasklist) : tasklist'[i] = tasklist[i]
      /\ tasklist'[Len(tasklist) + 1] = t
  BY <1>1, <1>2, AppendProperties
<1>4. Len(batch) \in Nat /\ Len(tasklist) \in Nat
  BY <1>1, LenProperties
<1>5. /\ Len(Todo) = Len(batch) + Len(tasklist)
      /\ \A i \in 1..Len(batch) + Len(tasklist) :
            Todo[i] = IF i <= Len(batch) THEN batch[i] ELSE tasklist[i - Len(batch)]
  BY <1>1, ConcatProperties DEF Todo
<1>6. /\ Len(Todo') = Len(batch) + Len(tasklist')
      /\ \A i \in 1..Len(batch) + Len(tasklist') :
            Todo'[i] = IF i <= Len(batch) THEN batch[i] ELSE tasklist'[i - Len(batch)]
  BY <1>1, <1>3, ConcatProperties DEF Todo
<1> HIDE DEF t
<1>7. ASSUME NEW i \in 1..Len(Todo) PROVE Todo'[i] = Todo[i]
  <2>1. i \in 1..Len(batch) + Len(tasklist) /\ i \in 1..Len(batch) + Len(tasklist')
    BY <1>3, <1>4, <1>5
  <2>2. CASE i <= Len(batch)
    BY <2>1, <2>2, <1>5, <1>6
  <2>3. CASE ~ (i <= Len(batch))
    <3>1. i - Len(batch) \in 1..Len(tasklist)
      BY <2>1, <2>3, <1>4
    <3> QED BY <2>1, <2>3, <3>1, <1>3, <1>5, <1>6
  <2> QED BY <2>2, <2>3
<1>8. Todo'[Len(Todo) + 1] = t
  <2> DEFINE k == Len(batch) + Len(tasklist) + 1
  <2>1. k \in 1..Len(batch) + Len(tasklist') /\ ~ (k <= Len(batch)) /\ k - Len(batch) = Len(tasklist) + 1
    BY <1>3, <1>4
  <2>2. Todo'[k] = tasklist'[k - Len(batch)]
    BY <2>1, <1>6
  <2> QED BY <2>1, <2>2, <1>3, <1>4, <1>5
<1>9. Len(Todo') = Len(Todo) + 1
  BY <1>3, <1>4, <1>5, <1>6
<1> QED BY <1>7, <1>8, <1>9 DEF t

\* ... ProcessPendingTask takes the first ...
LEMMA TodoPopped ==
  ASSUME Types, NEW op, NextTask(op)
  PROVE  /\ Len(Todo) >= 1 /\ Todo[1] = Head(batch)
         /\ Len(Todo') = Len(Todo) - 1
         /\ \A i \in 1..Len(Todo) - 1 : Todo'[i] = Todo[i + 1]
<1>1. batch \in Seq(Task) /\ tasklist \in Seq(Task) /\ batch # <<>> /\ tasklist' = tasklist /\ batch' = Tail(batch)
  BY DEF Types, NextTask
<1>2. /\ Tail(batch) \in Seq(Task) /\ Len(Tail(batch)) = Len(batch) - 1 /\ Head(batch) = batch[1]
      /\ \A i \in 1..Len(Tail(batch)) : Tail(batch)[i] = batch[i + 1]
  BY <1>1, HeadTailProperties
<1>4. Len(batch) \in Nat /\ Len(tasklist) \in Nat /\ Len(batch) >= 1
  BY <1>1, LenProperties, EmptySeq
<1>5. /\ Len(Todo) = Len(batch) + Len(tasklist)
      /\ \A i \in 1..Len(batch) + Len(tasklist) :
            Todo[i] = IF i <= Len(batch) THEN batch[i] ELSE tasklist[i - Len(batch)]
  BY <1>1, ConcatProperties DEF Todo
<1>6. /\ Len(Todo') = Len(batch') + Len(tasklist)
      /\ \A i \in 1..Len(batch') + Len(tasklist) :
            Todo'[i] = IF i <= Len(batch') THEN batch'[i] ELSE tasklist[i - Len(batch')]
  BY <1>1, <1>2, ConcatProperties DEF Todo
<1>7. ASSUME NEW i \in 1..Len(Todo) - 1 PROVE Todo'[i] = Todo[i + 1]
  <2>1. Len(batch') = Len(batch) - 1 /\ i \in 1..Len(batch') + Len(tasklist) /\ i + 1 \in 1..Len(batch) + Len(tasklist)
    BY <1>1, <1>2, <1>4, <1>5
  <2>2. CASE i <= Len(batch')
    BY <2>1, <2>2, <1>1, <1>2, <1>4, <1>5, <1>6
  <2>3. CASE ~ (i <= Len(batch'))
    <3>1. i - Len(batch') = (i + 1) - Len(batch)
      BY <2>1, <1>4
    <3> QED BY <2>1, <2>3, <3>1, <1>4, <1>5, <1>6
  <2> QED BY <2>2, <2>3
<1> QED BY <1>1, <1>2, <1>4, <1>5, <1>6, <1>7

\* ... and MoveTo moves all of them into tmp, which is empty.
LEMMA TodoMoved ==
  ASSUME Types, BatchDone, MoveTasks
  PROVE  Todo' = Todo
<1>1. batch = <<>> /\ tasklist \in Seq(Task) /\ batch' = tasklist /\ tasklist' = <<>>
  BY DEF Types, BatchDone, MoveTasks
<1> QED BY <1>1, ConcatEmptySeq DEF Todo

\* Most steps touch neither the tasks nor the registration of an event.
Quiet ==
  /\ UNCHANGED <<tasklist, batch, nposted, nrun, life, registered>>
  /\ ppc' = "run" <=> ppc = "run"
  /\ \A e \in Events : (rkey'[e] # 0 => rkey[e] # 0) /\ (wkey'[e] # 0 => wkey[e] # 0)

LEMMA StepKinds ==
  Types /\ [Next]_vars => \/ Quiet \/ MoveTasks \/ RunTasks
                          \/ \E e \in Events : \/ AddEventASync(e) \/ HandlerClose(e)
                                               \/ \E op \in Ops : HandlerPost(e, op)
<1> SUFFICES ASSUME Types, [Next]_vars,
                    ~ MoveTasks, ~ RunTasks,
                    \A e \in Events : /\ ~ AddEventASync(e) /\ ~ HandlerClose(e)
                                      /\ \A op \in Ops : ~ HandlerPost(e, op)
             PROVE  Quiet
  OBVIOUS
<1> USE DEF Quiet, loopVars, taskVars, timerVars, eventVars, handlerVars, Goto, LoopTest
<1>1. ASSUME NEW e \in Events, OwnerNotify(e) \/ HandlerStep(e) \/ Edge(e) PROVE Quiet
  BY <1>1 DEF OwnerNotify, HandlerStep, HandlerBegin, HandlerNotify, HandlerEnd, Edge
<1>2. CASE Stop \/ StopNotify \/ Tick \/ PollBegins \/ WriteTimersDone \/ ReadClock
  BY <1>2 DEF Stop, StopNotify, Tick, PollBegins, WriteTimersDone, ReadClock
<1>3. CASE WaitReturns \/ WaitTimesOut \/ WaitInterrupted \/ DispatchDone \/ EnterWait
  BY <1>3 DEF WaitReturns, WaitTimesOut, WaitInterrupted, DispatchDone, EnterWait
<1>4. ASSUME NEW e \in Events, ExpireWrite(e) \/ ExpireRead(e) \/ Dispatch(e) PROVE Quiet
  BY <1>4 DEF ExpireWrite, ExpireRead, Dispatch
<1>5. ASSUME NEW e \in Events, RemoveWrite(e) \/ RemoveRead(e) PROVE Quiet
  BY <1>5 DEF RemoveWrite, RemoveRead, Types
<1>6. CASE UNCHANGED vars
  BY <1>6 DEF vars
<1> QED BY <1>1, <1>2, <1>3, <1>4, <1>5, <1>6 DEF Next, PollStep

\* tmp is run to its end, and the tasks in the order of posting.
LEMMA StepInOrder ==
  ASSUME Types, BatchDone, TasksInOrder, [Next]_vars
  PROVE  BatchDone' /\ TasksInOrder'
<1>t. nposted \in Nat /\ nrun \in Nat /\ Len(Todo) \in Nat
  BY TodoIsSeq DEF Types
<1>o. Len(Todo) = nposted - nrun /\ \A i \in 1..Len(Todo) : Todo[i].n = nrun + i
  BY DEF TasksInOrder, Todo
<1>g. Len(Todo') = nposted' - nrun' /\ (\A i \in 1..Len(Todo') : Todo'[i].n = nrun' + i) => TasksInOrder'
  BY DEF TasksInOrder, Todo
<1>1. CASE Quiet
  <2>1. Todo' = Todo
    BY <1>1 DEF Quiet, Todo
  <2> QED BY <1>1, <1>o, <1>g, <2>1 DEF Quiet, BatchDone
<1>2. CASE MoveTasks
  <2>1. Todo' = Todo
    BY <1>2, TodoMoved
  <2>2. nposted' = nposted /\ nrun' = nrun
    BY <1>2 DEF MoveTasks
  <2>3. BatchDone'
    BY <1>2 DEF MoveTasks, Goto, BatchDone
  <2> QED BY <1>o, <1>g, <2>1, <2>2, <2>3
<1>3. CASE RunTasks
  <2>1. PICK op : NextTask(op)
    BY <1>3 DEF RunTasks, AddEvent, ModEvent, DelEvent, SetReadTimeOut, SetWriteTimeOut,
                DelReadTimeOut, DelWriteTimeOut
  <2>2. /\ Len(Todo) >= 1 /\ Todo[1] = Head(batch)
        /\ Len(Todo') = Len(Todo) - 1
        /\ \A i \in 1..Len(Todo) - 1 : Todo'[i] = Todo[i + 1]
    BY <2>1, TodoPopped
  <2>3. nposted' = nposted /\ nrun' = nrun + 1
    <3>1. nposted' = nposted /\ nrun' = Todo[1].n
      BY <2>1, <2>2 DEF NextTask
    <3> QED BY <3>1, <2>2, <1>o, <1>t
  <2>4. BatchDone'
    BY <2>1 DEF NextTask, Goto, BatchDone
  <2>5. ASSUME NEW i \in 1..Len(Todo') PROVE Todo'[i].n = nrun' + i
    <3>1. i \in 1..Len(Todo) - 1 /\ i + 1 \in 1..Len(Todo)
      BY <2>2, <1>t
    <3> QED BY <3>1, <2>2, <2>3, <1>o, <1>t, SMTT(30)
  <2>6. Len(Todo') = nposted' - nrun'
    BY <2>2, <2>3, <1>o, <1>t
  <2> QED BY <1>g, <2>4, <2>5, <2>6
<1>4. ASSUME NEW e \in Events, NEW op \in Ops, Push(op, e), batch' = batch, ppc' = ppc, nrun' = nrun
      PROVE  BatchDone' /\ TasksInOrder'
  <2>1. /\ Len(Todo') = Len(Todo) + 1
        /\ \A i \in 1..Len(Todo) : Todo'[i] = Todo[i]
        /\ Todo'[Len(Todo) + 1].n = nposted + 1
    BY <1>4, TodoPushed
  <2>2. nposted' = nposted + 1
    BY <1>4 DEF Push
  <2>3. ASSUME NEW i \in 1..Len(Todo') PROVE Todo'[i].n = nrun' + i
    <3>1. i \in 1..Len(Todo) \/ i = Len(Todo) + 1
      BY <2>1, <1>t
    <3> QED BY <3>1, <2>1, <1>o, <1>t, <1>4
  <2>4. Len(Todo') = nposted' - nrun'
    BY <2>1, <2>2, <1>o, <1>t, <1>4
  <2> QED BY <1>g, <1>4, <2>3, <2>4 DEF BatchDone
<1>5. ASSUME NEW e \in Events, AddEventASync(e) \/ HandlerClose(e) \/ \E op \in Ops : HandlerPost(e, op)
      PROVE  \E op \in Ops : Push(op, e) /\ batch' = batch /\ ppc' = ppc /\ nrun' = nrun
  BY <1>5 DEF AddEventASync, HandlerClose, HandlerPost, Ops, loopVars
<1> QED BY <1>1, <1>2, <1>3, <1>4, <1>5, StepKinds

\* The tasks of an event keep pace with its life.
LEMMA StepTasksOf ==
  ASSUME Types, BatchDone, \A e \in Events : TasksOf(e) /\ Registered(e), [Next]_vars
  PROVE  \A f \in Events : TasksOf(f)' /\ Registered(f)'
<1> TAKE f \in Events
<1>t. /\ life \in [Events -> {"new", "adding", "open", "closed"}] /\ registered \in SUBSET Events
      /\ rkey \in [Events -> Nat] /\ wkey \in [Events -> Nat]
      /\ Len(Todo) \in Nat
  BY TodoIsSeq DEF Types
<1>f. TasksOf(f) /\ Registered(f)
  OBVIOUS
<1>1. CASE Quiet
  <2>1. Todo' = Todo
    BY <1>1 DEF Quiet, Todo
  <2> QED BY <1>1, <1>f, <2>1 DEF Quiet, TasksOf, Registered
<1>2. CASE MoveTasks
  <2>1. Todo' = Todo
    BY <1>2, TodoMoved
  <2>2. life' = life /\ registered' = registered /\ rkey' = rkey /\ wkey' = wkey
    BY <1>2 DEF MoveTasks, timerVars, eventVars
  <2> QED BY <1>f, <2>1, <2>2 DEF TasksOf, Registered
<1>3. CASE RunTasks
  <2>1. PICK op : NextTask(op)
    BY <1>3 DEF RunTasks, AddEvent, ModEvent, DelEvent, SetReadTimeOut, SetWriteTimeOut,
                DelReadTimeOut, DelWriteTimeOut
  <2>2. PICK e \in Events : e = Head(batch).ev
    BY <2>1, TaskAtHead
  <2>3. Head(batch).op = op
    BY <2>1 DEF NextTask
  <2>4. /\ Len(Todo) >= 1 /\ Todo[1].ev = e /\ Todo[1].op = op
        /\ Len(Todo') = Len(Todo) - 1
        /\ \A i \in 1..Len(Todo) - 1 : Todo'[i] = Todo[i + 1]
    BY <2>1, <2>2, <2>3, TodoPopped
  <2>5. ASSUME NEW i \in 1..Len(Todo') PROVE i \in 1..Len(Todo) - 1 /\ i + 1 \in 1..Len(Todo) /\ Todo'[i] = Todo[i + 1]
    BY <2>4, <1>t
  <2>6. 1 \in 1..Len(Todo)
    BY <2>4, <1>t
  <2>7. /\ life[e] = "adding" \/ e \in registered
        /\ op = "Add" <=> life[e] = "adding"
        /\ op = "Del" => life[e] = "closed"
        /\ \A j \in 1..Len(Todo) : Todo[j].ev = e => (op = "Add" => 1 = j) /\ (op = "Del" => j <= 1)
    BY <2>4, <2>6 DEF TasksOf
  <2>8. ASSUME op \in {"Add", "Del"}, NEW i \in 1..Len(Todo') PROVE Todo'[i].ev # e
    <3>1. i + 1 \in 1..Len(Todo) /\ Todo'[i] = Todo[i + 1] /\ 1 # i + 1 /\ ~ (i + 1 <= 1)
      BY <2>5, <2>4, <1>t
    <3> QED BY <2>7, <2>8, <3>1
  <2>9. ASSUME life'[f] = life[f] /\ (f \in registered' <=> f \in registered)
        PROVE  TasksOf(f)'
    <3> SUFFICES ASSUME NEW i \in 1..Len(Todo'), Todo'[i].ev = f,
                        NEW j \in 1..Len(Todo'), Todo'[j].ev = f
                 PROVE  /\ life[f] = "adding" \/ f \in registered
                        /\ Todo'[i].op = "Add" <=> life[f] = "adding"
                        /\ Todo'[i].op = "Del" => life[f] = "closed"
                        /\ Todo'[i].op = "Add" => i = j
                        /\ Todo'[i].op = "Del" => j <= i
      BY <2>9 DEF TasksOf
    <3>1. i \in Int /\ j \in Int
      BY <2>4, <1>t
    <3>2. /\ i + 1 \in 1..Len(Todo) /\ Todo'[i] = Todo[i + 1]
          /\ j + 1 \in 1..Len(Todo) /\ Todo'[j] = Todo[j + 1]
      BY <2>5
    <3>3. /\ life[f] = "adding" \/ f \in registered
          /\ Todo'[i].op = "Add" <=> life[f] = "adding"
          /\ Todo'[i].op = "Del" => life[f] = "closed"
          /\ Todo'[i].op = "Add" => i + 1 = j + 1
          /\ Todo'[i].op = "Del" => j + 1 <= i + 1
      BY <3>2, <1>f DEF TasksOf
    <3> QED BY <3>1, <3>3
  <2>a. CASE AddEvent
    <3>1. /\ op = "Add" /\ registered' = registered \cup {e}
          /\ life' = [life EXCEPT ![e] = "open"] /\ rkey' = rkey /\ wkey' = wkey
      BY <2>a, <2>2, <2>3 DEF AddEvent, NextTask, timerVars
    <3>2. CASE f = e
      <4>1. TasksOf(f)'
        BY <3>1, <3>2, <2>8 DEF TasksOf
      <4>2. life'[f] = "open" /\ f \in registered'
        BY <3>1, <3>2, <1>t
      <4> QED BY <4>1, <4>2 DEF Registered
    <3>3. CASE f # e
      <4>1. life'[f] = life[f] /\ (f \in registered' <=> f \in registered)
        BY <3>1, <3>3, <1>t
      <4> QED BY <4>1, <2>9, <3>1, <1>f DEF Registered
    <3> QED BY <3>2, <3>3
  <2>b. CASE DelEvent
    <3>1. /\ op = "Del" /\ registered' = registered \ {e} /\ life' = life
          /\ rkey' = [rkey EXCEPT ![e] = 0] /\ wkey' = [wkey EXCEPT ![e] = 0]
      BY <2>b, <2>2, <2>3 DEF DelEvent, NextTask, CancelTimers
    <3>2. CASE f = e
      <4>1. TasksOf(f)'
        BY <3>1, <3>2, <2>8 DEF TasksOf
      <4>2. life'[f] = "closed" /\ f \notin registered' /\ rkey'[f] = 0 /\ wkey'[f] = 0
        BY <3>1, <3>2, <2>7, <1>t
      <4> QED BY <4>1, <4>2 DEF Registered
    <3>3. CASE f # e
      <4>1. /\ life'[f] = life[f] /\ (f \in registered' <=> f \in registered)
            /\ rkey'[f] = rkey[f] /\ wkey'[f] = wkey[f]
        BY <3>1, <3>3, <1>t
      <4> QED BY <4>1, <2>9, <1>f DEF Registered
    <3> QED BY <3>2, <3>3
  <2>c. ASSUME life' = life, registered' = registered, op \notin {"Add", "Del"},
               \A g \in Events \ {e} : rkey'[g] = rkey[g] /\ wkey'[g] = wkey[g]
        PROVE  TasksOf(f)' /\ Registered(f)'
    <3>1. e \in registered
      BY <2>c, <2>7
    <3>2. rkey'[f] # 0 \/ wkey'[f] # 0 => f \in registered
      BY <2>c, <3>1, <1>f DEF Registered
    <3> QED BY <2>c, <2>9, <3>2, <1>f DEF Registered
  <2>d. CASE ModEvent
    <3>1. op \notin {"Add", "Del"}
      BY <2>d, <2>3 DEF ModEvent, NextTask
    <3>2. life' = life /\ registered' = registered /\ rkey' = rkey /\ wkey' = wkey
      BY <2>d DEF ModEvent, timerVars
    <3> QED BY <3>1, <3>2, <2>c
  <2>e. CASE SetReadTimeOut
    <3>1. op \notin {"Add", "Del"}
      BY <2>e, <2>3 DEF SetReadTimeOut, NextTask
    <3>2. life' = life /\ registered' = registered /\ wkey' = wkey
      BY <2>e DEF SetReadTimeOut
    <3>3. \A g \in Events \ {e} : rkey'[g] = rkey[g]
      BY <2>e, <2>2, <1>t DEF SetReadTimeOut
    <3> QED BY <3>1, <3>2, <3>3, <2>c
  <2>f. CASE SetWriteTimeOut
    <3>1. op \notin {"Add", "Del"}
      BY <2>f, <2>3 DEF SetWriteTimeOut, NextTask
    <3>2. life' = life /\ registered' = registered /\ rkey' = rkey
      BY <2>f DEF SetWriteTimeOut
    <3>3. \A g \in Events \ {e} : wkey'[g] = wkey[g]
      BY <2>f, <2>2, <1>t DEF SetWriteTimeOut
    <3> QED BY <3>1, <3>2, <3>3, <2>c
  <2>g. CASE DelReadTimeOut
    <3>1. op \notin {"Add", "Del"}
      BY <2>g, <2>3 DEF DelReadTimeOut, NextTask
    <3>2. life' = life /\ registered' = registered /\ wkey' = wkey
      BY <2>g DEF DelReadTimeOut
    <3>3. \A g \in Events \ {e} : rkey'[g] = rkey[g]
      BY <2>g, <2>2, <1>t DEF DelReadTimeOut
    <3> QED BY <3>1, <3>2, <3>3, <2>c
  <2>h. CASE DelWriteTimeOut
    <3>1. op \notin {"Add", "Del"}
      BY <2>h, <2>3 DEF DelWriteTimeOut, NextTask
    <3>2. life' = life /\ registered' = registered /\ rkey' = rkey
      BY <2>h DEF DelWriteTimeOut
    <3>3. \A g \in Events \ {e} : wkey'[g] = wkey[g]
      BY <2>h, <2>2, <1>t DEF DelWriteTimeOut
    <3> QED BY <3>1, <3>2, <3>3, <2>c
  <2> QED BY <1>3, <2>a, <2>b, <2>d, <2>e, <2>f, <2>g, <2>h DEF RunTasks
<1>4. ASSUME NEW e \in Events, NEW op \in Ops, Push(op, e), batch' = batch,
             registered' = registered, rkey' = rkey, wkey' = wkey,
             \A g \in Events \ {e} : life'[g] = life[g],
             \/ op = "Add" /\ life[e] = "new" /\ life'[e] = "adding"
             \/ op = "Del" /\ life[e] = "open" /\ life'[e] = "closed"
             \/ op \notin {"Add", "Del"} /\ life[e] = "open" /\ life'[e] = "open"
      PROVE  TasksOf(f)' /\ Registered(f)'
  <2>1. /\ Len(Todo') = Len(Todo) + 1
        /\ \A i \in 1..Len(Todo) : Todo'[i] = Todo[i]
        /\ Todo'[Len(Todo) + 1].ev = e /\ Todo'[Len(Todo) + 1].op = op
    BY <1>4, TodoPushed
  <2>2. ASSUME NEW i \in 1..Len(Todo')
        PROVE  i \in Int /\ (i = Len(Todo) + 1 \/ (i \in 1..Len(Todo) /\ Todo'[i] = Todo[i] /\ i <= Len(Todo)))
    BY <2>1, <1>t
  <2>3. CASE f # e
    <3>1. life'[f] = life[f]
      BY <1>4, <2>3
    <3>2. ASSUME NEW i \in 1..Len(Todo'), Todo'[i].ev = f PROVE i \in 1..Len(Todo) /\ Todo'[i] = Todo[i]
      BY <2>1, <2>2, <2>3, <3>2
    <3>3. TasksOf(f)'
      BY <3>1, <3>2, <1>4, <1>f DEF TasksOf
    <3> QED BY <3>1, <3>3, <1>4, <1>f DEF Registered
  <2>4. CASE f = e
    <3>1. ASSUME NEW i \in 1..Len(Todo), Todo[i].ev = f
          PROVE  op # "Add" /\ Todo[i].op \notin {"Add", "Del"}
      BY <1>4, <2>4, <3>1, <1>f DEF TasksOf, Registered
    <3>2. op # "Add" => f \in registered
      BY <1>4, <2>4, <1>f DEF Registered
    <3>3. TasksOf(f)'
      <4> SUFFICES ASSUME NEW i \in 1..Len(Todo'), Todo'[i].ev = f,
                          NEW j \in 1..Len(Todo'), Todo'[j].ev = f
                   PROVE  /\ life'[f] = "adding" \/ f \in registered
                          /\ Todo'[i].op = "Add" <=> life'[f] = "adding"
                          /\ Todo'[i].op = "Del" => life'[f] = "closed"
                          /\ Todo'[i].op = "Add" => i = j
                          /\ Todo'[i].op = "Del" => j <= i
        BY <1>4 DEF TasksOf
      <4>1. /\ i = Len(Todo) + 1 \/ (op # "Add" /\ Todo'[i].op \notin {"Add", "Del"})
            /\ j = Len(Todo) + 1 \/ (op # "Add" /\ j <= Len(Todo))
            /\ i = Len(Todo) + 1 => Todo'[i].op = op
        BY <2>1, <2>2, <3>1
      <4>2. j <= Len(Todo) + 1 /\ j \in Int
        BY <2>1, <1>t
      <4>3. Todo'[i].op = "Add" <=> life'[f] = "adding"
        BY <4>1, <1>4, <2>4
      <4>4. Todo'[i].op = "Del" => life'[f] = "closed"
        BY <4>1, <1>4, <2>4
      <4>5. Todo'[i].op = "Add" => i = j
        BY <4>1
      <4>6. Todo'[i].op = "Del" => j <= i
        BY <4>1, <4>2
      <4>7. life'[f] = "adding" \/ f \in registered
        BY <3>2, <1>4, <2>4
      <4> QED BY <4>3, <4>4, <4>5, <4>6, <4>7
    <3>4. Registered(f)'
      BY <3>2, <1>4, <2>4, <1>f DEF Registered
    <3> QED BY <3>3, <3>4
  <2> QED BY <2>3, <2>4
<1>5. ASSUME NEW e \in Events, AddEventASync(e) PROVE TasksOf(f)' /\ Registered(f)'
  <2>1. /\ Push("Add", e) /\ batch' = batch /\ registered' = registered /\ rkey' = rkey /\ wkey' = wkey
        /\ \A g \in Events \ {e} : life'[g] = life[g]
        /\ life[e] = "new" /\ life'[e] = "adding" /\ "Add" \in Ops
    BY <1>5, <1>t DEF AddEventASync, timerVars, Ops
  <2> QED BY <2>1, <1>4
<1>6. ASSUME NEW e \in Events, HandlerClose(e) PROVE TasksOf(f)' /\ Registered(f)'
  <2>1. /\ Push("Del", e) /\ batch' = batch /\ registered' = registered /\ rkey' = rkey /\ wkey' = wkey
        /\ \A g \in Events \ {e} : life'[g] = life[g]
        /\ life[e] = "open" /\ life'[e] = "closed" /\ "Del" \in Ops
    BY <1>6, <1>t DEF HandlerClose, timerVars, Ops
  <2> QED BY <2>1, <1>4
<1>7. ASSUME NEW e \in Events, NEW op \in Ops, HandlerPost(e, op) PROVE TasksOf(f)' /\ Registered(f)'
  <2>1. /\ Push(op, e) /\ batch' = batch /\ registered' = registered /\ rkey' = rkey /\ wkey' = wkey
        /\ life' = life /\ life[e] = "open" /\ op \notin {"Add", "Del"}
    BY <1>7 DEF HandlerPost, timerVars, eventVars, TimerOps
  <2> QED BY <2>1, <1>4
<1> QED BY <1>1, <1>2, <1>3, <1>5, <1>6, <1>7, StepKinds

LEMMA StepArrived ==
  ASSUME Types, Arrived, \A e \in Events : Registered(e), [Next]_vars
  PROVE  Arrived'
<1> USE DEF Arrived, loopVars, taskVars, timerVars, eventVars, handlerVars, Goto, LoopTest
<1>t. ready \in SUBSET registered /\ registered \in SUBSET Events /\ arr \in SUBSET Events
  BY DEF Types
<1>1. ASSUME NEW e \in Events, OwnerNotify(e) \/ HandlerStep(e) \/ Edge(e) \/ AddEventASync(e)
                               \/ HandlerClose(e) \/ \E op \in Ops : HandlerPost(e, op)
      PROVE  Arrived'
  BY <1>1 DEF OwnerNotify, HandlerStep, HandlerBegin, HandlerNotify, HandlerEnd, Edge,
              AddEventASync, HandlerClose, HandlerPost
<1>2. CASE Stop \/ StopNotify \/ Tick \/ PollBegins \/ WriteTimersDone \/ ReadClock
  BY <1>2 DEF Stop, StopNotify, Tick, PollBegins, WriteTimersDone, ReadClock
<1>3. CASE WaitReturns \/ WaitTimesOut \/ WaitInterrupted \/ DispatchDone \/ EnterWait \/ MoveTasks
  BY <1>3, <1>t DEF WaitReturns, WaitTimesOut, WaitInterrupted, DispatchDone, EnterWait, MoveTasks
<1>4. ASSUME NEW e \in Events, ExpireWrite(e) \/ ExpireRead(e) PROVE Arrived'
  <2>1. wkey[e] # 0 \/ rkey[e] # 0
    BY <1>4 DEF ExpireWrite, ExpireRead, Expired, Leftmost, InTree
  <2>2. e \in registered
    BY <2>1 DEF Registered
  <2> QED BY <1>4, <2>2 DEF ExpireWrite, ExpireRead
<1>5. ASSUME NEW e \in Events, RemoveWrite(e) \/ RemoveRead(e) \/ Dispatch(e) PROVE Arrived'
  BY <1>5 DEF RemoveWrite, RemoveRead, Dispatch
<1>7. CASE RunTasks
  <2>1. \E op : NextTask(op)
    BY <1>7 DEF RunTasks, AddEvent, ModEvent, DelEvent, SetReadTimeOut, SetWriteTimeOut,
                DelReadTimeOut, DelWriteTimeOut
  <2> QED BY <2>1 DEF NextTask
<1>6. CASE UNCHANGED vars
  BY <1>6 DEF vars
<1> QED BY <1>1, <1>2, <1>3, <1>4, <1>5, <1>6, <1>7 DEF Next, PollStep
-----------------------------------------------------------------------------
(* References.                                                             *)

LEMMA HoldersNat == \A e : Holders(e) \in Nat /\ Holders(e)' \in Nat
BY DEF Holders, OwnerRef, RegRef, ReadRef, WriteRef, BitRefs, WrapRef, One

\* The parts of the state that say who holds a reference to f.
SameView(f) ==
  /\ life'[f] = life[f] /\ (f \in registered' <=> f \in registered)
  /\ rkey'[f] = rkey[f] /\ wkey'[f] = wkey[f]
  /\ raised'[f] = raised[f] /\ hmask'[f] = hmask[f] /\ (hpc'[f] # "idle" <=> hpc[f] # "idle")
  /\ (ppc' = "rout" /\ f \in arr') <=> (ppc = "rout" /\ f \in arr)
  /\ (ppc' = "wout" /\ f \in arr') <=> (ppc = "wout" /\ f \in arr)

LEMMA SameHolders == ASSUME NEW f, SameView(f) PROVE Holders(f)' = Holders(f)
<1>1. OwnerRef(f)' = OwnerRef(f) /\ RegRef(f)' = RegRef(f)
  BY DEF SameView, OwnerRef, RegRef, One
<1>2. ReadRef(f)' = ReadRef(f) /\ WriteRef(f)' = WriteRef(f)
  BY DEF SameView, ReadRef, WriteRef, One
<1>3. BitRefs(raised'[f]) = BitRefs(raised[f]) /\ BitRefs(hmask'[f]) = BitRefs(hmask[f])
  BY DEF SameView
<1>4. WrapRef(f)' = WrapRef(f)
  BY DEF SameView, WrapRef
<1> QED BY <1>1, <1>2, <1>3, <1>4 DEF Holders

\* k references are given back by k holders who had them.
LEMMA Released ==
  ASSUME Types, Counted, NEW e \in Events, NEW k \in Nat, Release(e, k),
         Holders(e)' + k <= Holders(e),
         \A f \in Events \ {e} : SameView(f)
  PROVE  Counted'
<1> SUFFICES ASSUME NEW f \in Events PROVE ref_count'[f] >= Holders(f)' /\ (f \in deleted' => ref_count'[f] = 0)
  BY DEF Counted
<1>1. ref_count[f] \in Int /\ Holders(f) \in Nat /\ Holders(f)' \in Nat
  BY HoldersNat DEF Types
<1>2. ref_count[f] >= Holders(f) /\ (f \in deleted => ref_count[f] = 0)
  BY DEF Counted
<1>3. CASE f # e
  <2>1. Holders(f)' = Holders(f)
    BY <1>3, SameHolders
  <2>2. ref_count'[f] = ref_count[f] /\ (f \in deleted' => f \in deleted)
    BY <1>3 DEF Release, Types
  <2> QED BY <1>2, <2>1, <2>2
<1>4. CASE f = e
  <2>1. ref_count'[f] = ref_count[f] - k
    BY <1>4 DEF Release, Types
  <2>2. f \in deleted' => f \in deleted \/ ref_count[f] - k = 0
    BY <1>4 DEF Release
  <2>3. Holders(f)' + k <= Holders(f)
    BY <1>4
  <2> QED BY <1>1, <1>2, <2>1, <2>2, <2>3
<1> QED BY <1>3, <1>4

\* A reference is taken for a new holder while somebody else has one.
LEMMA Required ==
  ASSUME Types, Counted, NEW e \in Events, Require(e),
         Holders(e) >= 1, Holders(e)' <= Holders(e) + 1,
         \A f \in Events \ {e} : SameView(f)
  PROVE  Counted'
<1> SUFFICES ASSUME NEW f \in Events PROVE ref_count'[f] >= Holders(f)' /\ (f \in deleted' => ref_count'[f] = 0)
  BY DEF Counted
<1>1. ref_count[f] \in Int /\ Holders(f) \in Nat /\ Holders(f)' \in Nat
  BY HoldersNat DEF Types
<1>2. ref_count[f] >= Holders(f) /\ (f \in deleted => ref_count[f] = 0)
  BY DEF Counted
<1>3. CASE f # e
  <2>1. Holders(f)' = Holders(f)
    BY <1>3, SameHolders
  <2>2. ref_count'[f] = ref_count[f] /\ (f \in deleted' => f \in deleted)
    BY <1>3 DEF Require, Types
  <2> QED BY <1>2, <2>1, <2>2
<1>4. CASE f = e
  <2>1. ref_count'[f] = ref_count[f] + 1 /\ (f \in deleted' => f \in deleted)
    BY <1>4 DEF Require, Types
  <2>2. Holders(f)' <= Holders(f) + 1 /\ Holders(f) >= 1
    BY <1>4
  <2> QED BY <1>1, <1>2, <2>1, <2>2
<1> QED BY <1>3, <1>4

\* References change hands, or none does.
LEMMA Kept ==
  ASSUME Types, Counted, UNCHANGED <<ref_count, deleted>>,
         \A f \in Events : SameView(f) \/ Holders(f)' <= Holders(f)
  PROVE  Counted'
<1> SUFFICES ASSUME NEW f \in Events PROVE ref_count'[f] >= Holders(f)' /\ (f \in deleted' => ref_count'[f] = 0)
  BY DEF Counted
<1>1. ref_count[f] \in Int /\ Holders(f) \in Nat /\ Holders(f)' \in Nat
  BY HoldersNat DEF Types
<1>2. ref_count[f] >= Holders(f) /\ (f \in deleted => ref_count[f] = 0)
  BY DEF Counted
<1>3. Holders(f)' <= Holders(f)
  BY <1>1, SameHolders
<1> QED BY <1>1, <1>2, <1>3

\* Steps that leave all holders and counts alone.
Idle == UNCHANGED <<ref_count, deleted, life, registered, rkey, wkey, raised, hmask>>

LEMMA IdleKept ==
  ASSUME Types, Counted, Idle, UNCHANGED hpc,
         (ppc' = ppc /\ arr' = arr) \/ {ppc, ppc'} \cap {"rout", "wout"} = {}
  PROVE  Counted'
<1>1. \A f \in Events : SameView(f)
  BY DEF SameView, Idle
<1> QED BY <1>1, Kept DEF Idle

\* OnEventAsync takes a reference for the wrapper it posts; a timer that
\* expires hands its reference to the bit.
LEMMA Raised ==
  ASSUME Types, Counted, NEW e \in Events, NEW bit \in {"IO", "RTIME", "WTIME"}, OnEventAsync(e, bit),
         UNCHANGED <<life, registered, rkey, wkey, hmask, hpc>>,
         Holders(e) >= 1,
         \A f \in Events \ {e} : /\ (ppc' = "rout" /\ f \in arr') <=> (ppc = "rout" /\ f \in arr)
                                 /\ (ppc' = "wout" /\ f \in arr') <=> (ppc = "wout" /\ f \in arr),
         ReadRef(e)' + One(bit = "RTIME") <= ReadRef(e),
         WriteRef(e)' + One(bit = "WTIME") <= WriteRef(e)
  PROVE  Counted'
<1>t. raised \in [Events -> SUBSET {"IO", "RTIME", "WTIME"}]
  BY DEF Types
<1>1. raised'[e] = raised[e] \cup {bit} /\ \A f \in Events \ {e} : raised'[f] = raised[f]
  BY <1>t DEF OnEventAsync
<1>2. \A f \in Events \ {e} : SameView(f)
  BY <1>1 DEF SameView
<1>3. BitRefs(raised'[e]) <= BitRefs(raised[e]) + One(bit = "RTIME") + One(bit = "WTIME")
  <2>1. /\ "RTIME" \in raised'[e] <=> "RTIME" \in raised[e] \/ bit = "RTIME"
        /\ "WTIME" \in raised'[e] <=> "WTIME" \in raised[e] \/ bit = "WTIME"
    BY <1>1
  <2> QED BY <2>1 DEF BitRefs, One
<1>4. OwnerRef(e)' = OwnerRef(e) /\ RegRef(e)' = RegRef(e) /\ BitRefs(hmask'[e]) = BitRefs(hmask[e])
  BY DEF OwnerRef, RegRef
<1>n. /\ OwnerRef(e) \in Int /\ RegRef(e) \in Int /\ ReadRef(e) \in Int /\ WriteRef(e) \in Int
      /\ ReadRef(e)' \in Int /\ WriteRef(e)' \in Int /\ WrapRef(e) \in Int /\ WrapRef(e)' \in Int
  BY DEF OwnerRef, RegRef, ReadRef, WriteRef, WrapRef, One
<1>o. /\ BitRefs(raised[e]) \in Int /\ BitRefs(raised'[e]) \in Int /\ BitRefs(hmask[e]) \in Int
      /\ One(bit = "RTIME") \in Int /\ One(bit = "WTIME") \in Int
  BY DEF BitRefs, One
<1>5. Holders(e)' <= Holders(e) - WrapRef(e) + WrapRef(e)'
  BY <1>3, <1>4, <1>n, <1>o DEF Holders
<1>h. Holders(e) \in Nat /\ Holders(e)' \in Nat
  BY HoldersNat
<1>6. CASE raised[e] = {} /\ hpc[e] = "idle"
  <2>1. Require(e)
    BY <1>6 DEF OnEventAsync
  <2>2. WrapRef(e) = 0 /\ WrapRef(e)' <= 1
    BY <1>6 DEF WrapRef, One
  <2>3. Holders(e)' <= Holders(e) + 1
    BY <1>5, <2>2, <1>n, <1>h
  <2> QED BY <1>2, <2>1, <2>3, Required
<1>7. CASE ~ (raised[e] = {} /\ hpc[e] = "idle")
  <2>1. UNCHANGED <<ref_count, deleted>>
    BY <1>7 DEF OnEventAsync
  <2>2. WrapRef(e) = 1 /\ WrapRef(e)' <= 1
    BY <1>7 DEF WrapRef, One
  <2>3. Holders(e)' <= Holders(e)
    BY <1>5, <2>2, <1>n, <1>h
  <2> QED BY <1>2, <2>1, <2>3, Kept
<1> QED BY <1>6, <1>7

\* Every holder keeps its reference.
LEMMA StepCounted ==
  ASSUME Types, Arrived, Counted, \A e \in Events : TasksOf(e) /\ Registered(e), [Next]_vars
  PROVE  Counted'
<1> USE DEF loopVars, taskVars, timerVars, eventVars, handlerVars
<1>t. /\ life \in [Events -> {"new", "adding", "open", "closed"}] /\ registered \in SUBSET Events
      /\ rkey \in [Events -> Nat] /\ wkey \in [Events -> Nat]
      /\ raised \in [Events -> SUBSET {"IO", "RTIME", "WTIME"}]
      /\ hpc \in [Events -> {"idle", "run", "notify"}]
      /\ hmask \in [Events -> SUBSET {"IO", "RTIME", "WTIME"}]
  BY DEF Types
<1>n. ASSUME NEW e PROVE /\ OwnerRef(e) \in {0, 1} /\ RegRef(e) \in {0, 1} /\ ReadRef(e) \in {0, 1}
                         /\ WriteRef(e) \in {0, 1} /\ WrapRef(e) \in {0, 1}
  BY DEF OwnerRef, RegRef, ReadRef, WriteRef, WrapRef, One
<1>b. ASSUME NEW S PROVE BitRefs(S) \in {0, 1, 2}
  BY DEF BitRefs, One
<1>1. ASSUME NEW e \in Events, AddEventASync(e) PROVE Counted'
  <2>1. /\ life[e] = "new" /\ life' = [life EXCEPT ![e] = "adding"] /\ Require(e)
        /\ UNCHANGED <<registered, rkey, wkey, raised, hmask, hpc, ppc, arr>>
    BY <1>1 DEF AddEventASync
  <2>2. \A f \in Events \ {e} : SameView(f)
    BY <2>1, <1>t DEF SameView
  <2>3. life'[e] = "adding"
    BY <2>1, <1>t
  <2>4. OwnerRef(e)' = 1 /\ OwnerRef(e) = 1 /\ RegRef(e)' <= RegRef(e) + 1
    BY <2>1, <2>3 DEF OwnerRef, RegRef, One
  <2>5. /\ ReadRef(e)' = ReadRef(e) /\ WriteRef(e)' = WriteRef(e) /\ WrapRef(e)' = WrapRef(e)
        /\ BitRefs(raised'[e]) = BitRefs(raised[e]) /\ BitRefs(hmask'[e]) = BitRefs(hmask[e])
    BY <2>1 DEF ReadRef, WriteRef, WrapRef
  <2>6. RegRef(e)' \in {0, 1}
    BY DEF RegRef, One
  <2>7. Holders(e) >= 1 /\ Holders(e)' <= Holders(e) + 1
    BY <2>4, <2>5, <2>6, <1>n, <1>b DEF Holders
  <2> QED BY <2>1, <2>2, <2>7, Required
<1>2. ASSUME NEW e \in Events, HandlerClose(e) PROVE Counted'
  <2>1. /\ life[e] = "open" /\ life' = [life EXCEPT ![e] = "closed"] /\ Release(e, 1)
        /\ hpc[e] = "run" /\ hpc' = [hpc EXCEPT ![e] = "notify"]
        /\ UNCHANGED <<registered, rkey, wkey, raised, hmask, ppc, arr>>
    BY <1>2 DEF HandlerClose
  <2>2. \A f \in Events \ {e} : SameView(f)
    BY <2>1, <1>t DEF SameView
  <2>3. life'[e] = "closed" /\ hpc'[e] = "notify"
    BY <2>1, <1>t
  <2>4. OwnerRef(e)' = 0 /\ OwnerRef(e) = 1 /\ RegRef(e)' = RegRef(e)
    BY <2>1, <2>3 DEF OwnerRef, RegRef, One
  <2>5. /\ ReadRef(e)' = ReadRef(e) /\ WriteRef(e)' = WriteRef(e) /\ WrapRef(e)' = WrapRef(e)
        /\ BitRefs(raised'[e]) = BitRefs(raised[e]) /\ BitRefs(hmask'[e]) = BitRefs(hmask[e])
    BY <2>1, <2>3 DEF ReadRef, WriteRef, WrapRef, One
  <2>6. Holders(e)' + 1 <= Holders(e)
    BY <2>4, <2>5, <1>n, <1>b DEF Holders
  <2> QED BY <2>1, <2>2, <2>6, Released
<1>3. ASSUME NEW e \in Events, (\E op \in Ops : HandlerPost(e, op)) \/ HandlerNotify(e) PROVE Counted'
  <2>1. /\ hpc[e] # "idle" /\ (hpc' = [hpc EXCEPT ![e] = "notify"] \/ hpc' = [hpc EXCEPT ![e] = "run"])
        /\ UNCHANGED <<ref_count, deleted, life, registered, rkey, wkey, raised, hmask, ppc, arr>>
    BY <1>3 DEF HandlerPost, HandlerNotify
  <2>2. \A f \in Events : SameView(f)
    BY <2>1, <1>t DEF SameView
  <2> QED BY <2>1, <2>2, Kept
<1>4. ASSUME NEW e \in Events, HandlerBegin(e) PROVE Counted'
  <2>1. /\ hpc[e] = "idle" /\ raised[e] # {} /\ hpc' = [hpc EXCEPT ![e] = "run"]
        /\ hmask' = [hmask EXCEPT ![e] = IF life[e] = "closed" THEN {} ELSE raised[e]]
        /\ raised' = [raised EXCEPT ![e] = {}]
        /\ UNCHANGED <<ref_count, deleted, life, registered, rkey, wkey, ppc, arr>>
    BY <1>4 DEF HandlerBegin
  <2>2. \A f \in Events \ {e} : SameView(f)
    BY <2>1, <1>t DEF SameView
  <2>3. hpc'[e] = "run" /\ raised'[e] = {} /\ hmask'[e] = IF life[e] = "closed" THEN {} ELSE raised[e]
    BY <2>1, <1>t
  <2>4. BitRefs({}) = 0
    BY DEF BitRefs, One
  <2>5. BitRefs(raised'[e]) = 0 /\ (BitRefs(hmask'[e]) = 0 \/ BitRefs(hmask'[e]) = BitRefs(raised[e]))
    BY <2>3, <2>4
  <2>6. WrapRef(e)' = 1 /\ WrapRef(e) = 1
    BY <2>1, <2>3 DEF WrapRef, One
  <2>7. /\ OwnerRef(e)' = OwnerRef(e) /\ RegRef(e)' = RegRef(e)
        /\ ReadRef(e)' = ReadRef(e) /\ WriteRef(e)' = WriteRef(e)
    BY <2>1 DEF OwnerRef, RegRef, ReadRef, WriteRef
  <2>8. Holders(e)' <= Holders(e)
    BY <2>5, <2>6, <2>7, <1>n, <1>b DEF Holders
  <2> QED BY <2>1, <2>2, <2>8, Kept
<1>5. ASSUME NEW e \in Events, HandlerEnd(e) PROVE Counted'
  <2>1. /\ hpc[e] = "run" /\ hpc' = [hpc EXCEPT ![e] = "idle"] /\ hmask' = [hmask EXCEPT ![e] = {}]
        /\ UNCHANGED <<raised, life, registered, rkey, wkey, ppc, arr>>
    BY <1>5 DEF HandlerEnd
  <2>2. \A f \in Events \ {e} : SameView(f)
    BY <2>1, <1>t DEF SameView
  <2> DEFINE c == Cardinality(hmask[e] \cap {"RTIME", "WTIME"})
             own == IF raised[e] = {} THEN 1 ELSE 0
  <2>3. PICK k \in {c} \cup (IF "IO" \in hmask[e] THEN {0} ELSE {}) : Release(e, k + own)
    BY <1>5 DEF HandlerEnd
  <2>4. c = BitRefs(hmask[e])
    BY BitsCounted DEF BitRefs
  <2>5. k \in Nat /\ k <= BitRefs(hmask[e])
    <3>1. k = c \/ k = 0
      BY <2>3
    <3> QED BY <3>1, <2>4, <1>b
  <2>6. hpc'[e] = "idle" /\ hmask'[e] = {}
    BY <2>1, <1>t
  <2>7. BitRefs(hmask'[e]) = 0 /\ BitRefs(raised'[e]) = BitRefs(raised[e])
    BY <2>1, <2>6 DEF BitRefs, One
  <2>8. WrapRef(e) = 1 /\ WrapRef(e)' = 1 - own /\ own \in {0, 1}
    BY <2>1, <2>6 DEF WrapRef, One
  <2>9. /\ OwnerRef(e)' = OwnerRef(e) /\ RegRef(e)' = RegRef(e)
        /\ ReadRef(e)' = ReadRef(e) /\ WriteRef(e)' = WriteRef(e)
    BY <2>1 DEF OwnerRef, RegRef, ReadRef, WriteRef
  <2> HIDE DEF own, c
  <2>10. Holders(e)' + (k + own) <= Holders(e) /\ k + own \in Nat
    BY <2>5, <2>7, <2>8, <2>9, <1>n, <1>b DEF Holders
  <2> QED BY <2>2, <2>3, <2>10, Released
<1>6. ASSUME NEW e \in Events, ExpireWrite(e) PROVE Counted'
  <2>1. /\ ppc = "wtimers" /\ ppc' = "wout" /\ arr' = {e} /\ OnEventAsync(e, "WTIME")
        /\ UNCHANGED <<life, registered, rkey, wkey, hmask, hpc>>
    BY <1>6 DEF ExpireWrite
  <2>2. wkey[e] # 0
    BY <1>6 DEF ExpireWrite, Expired, Leftmost, InTree
  <2>3. WriteRef(e) = 1 /\ WriteRef(e)' = 0 /\ ReadRef(e)' = ReadRef(e)
    BY <2>1, <2>2 DEF WriteRef, ReadRef, One
  <2>4. One("WTIME" = "RTIME") = 0 /\ One("WTIME" = "WTIME") = 1
    BY DEF One
  <2>5. ReadRef(e)' + One("WTIME" = "RTIME") <= ReadRef(e) /\ WriteRef(e)' + One("WTIME" = "WTIME") <= WriteRef(e)
    BY <2>3, <2>4, <1>n
  <2>6. Holders(e) >= 1
    BY <2>3, <1>n, <1>b DEF Holders
  <2>7. \A f \in Events \ {e} : /\ (ppc' = "rout" /\ f \in arr') <=> (ppc = "rout" /\ f \in arr)
                                /\ (ppc' = "wout" /\ f \in arr') <=> (ppc = "wout" /\ f \in arr)
    BY <2>1
  <2> QED BY <2>1, <2>5, <2>6, <2>7, Raised
<1>7. ASSUME NEW e \in Events, ExpireRead(e) PROVE Counted'
  <2>1. /\ ppc = "rtimers" /\ ppc' = "rout" /\ arr' = {e} /\ OnEventAsync(e, "RTIME")
        /\ UNCHANGED <<life, registered, rkey, wkey, hmask, hpc>>
    BY <1>7 DEF ExpireRead
  <2>2. rkey[e] # 0
    BY <1>7 DEF ExpireRead, Expired, Leftmost, InTree
  <2>3. ReadRef(e) = 1 /\ ReadRef(e)' = 0 /\ WriteRef(e)' = WriteRef(e)
    BY <2>1, <2>2 DEF WriteRef, ReadRef, One
  <2>4. One("RTIME" = "RTIME") = 1 /\ One("RTIME" = "WTIME") = 0
    BY DEF One
  <2>5. ReadRef(e)' + One("RTIME" = "RTIME") <= ReadRef(e) /\ WriteRef(e)' + One("RTIME" = "WTIME") <= WriteRef(e)
    BY <2>3, <2>4, <1>n
  <2>6. Holders(e) >= 1
    BY <2>3, <1>n, <1>b DEF Holders
  <2>7. \A f \in Events \ {e} : /\ (ppc' = "rout" /\ f \in arr') <=> (ppc = "rout" /\ f \in arr)
                                /\ (ppc' = "wout" /\ f \in arr') <=> (ppc = "wout" /\ f \in arr)
    BY <2>1
  <2> QED BY <2>1, <2>5, <2>6, <2>7, Raised
<1>8. ASSUME NEW e \in Events, Dispatch(e) PROVE Counted'
  <2>1. /\ ppc = "dispatch" /\ ppc' = "dispatch" /\ e \in arr /\ OnEventAsync(e, "IO")
        /\ UNCHANGED <<life, registered, rkey, wkey, hmask, hpc>>
    BY <1>8 DEF Dispatch
  <2>2. RegRef(e) = 1
    BY <2>1 DEF Arrived, RegRef, One
  <2>3. ReadRef(e)' = ReadRef(e) /\ WriteRef(e)' = WriteRef(e)
    BY <2>1 DEF WriteRef, ReadRef, One
  <2>4. One("IO" = "RTIME") = 0 /\ One("IO" = "WTIME") = 0
    BY DEF One
  <2>5. ReadRef(e)' + One("IO" = "RTIME") <= ReadRef(e) /\ WriteRef(e)' + One("IO" = "WTIME") <= WriteRef(e)
    BY <2>3, <2>4, <1>n
  <2>6. Holders(e) >= 1
    BY <2>2, <1>n, <1>b DEF Holders
  <2>7. \A f \in Events \ {e} : /\ (ppc' = "rout" /\ f \in arr') <=> (ppc = "rout" /\ f \in arr)
                                /\ (ppc' = "wout" /\ f \in arr') <=> (ppc = "wout" /\ f \in arr)
    BY <2>1
  <2> QED BY <2>1, <2>5, <2>6, <2>7, Raised
<1>9. ASSUME NEW e \in Events, RemoveWrite(e) \/ RemoveRead(e) PROVE Counted'
  <2>1. /\ ppc \in {"wout", "rout"} /\ e \in arr /\ ppc' \notin {"wout", "rout"}
        /\ UNCHANGED <<ref_count, deleted, life, registered, raised, hmask, hpc>>
    BY <1>9 DEF RemoveWrite, RemoveRead
  <2>2. /\ ppc = "wout" => rkey' = rkey /\ wkey' = [wkey EXCEPT ![e] = 0]
        /\ ppc = "rout" => wkey' = wkey /\ rkey' = [rkey EXCEPT ![e] = 0]
    BY <1>9 DEF RemoveWrite, RemoveRead
  <2>3. \A f \in Events \ {e} : f \notin arr
    BY <2>1 DEF Arrived
  <2>4. \A f \in Events \ {e} : SameView(f)
    BY <2>1, <2>2, <2>3, <1>t DEF SameView
  <2>5. ReadRef(e)' <= ReadRef(e) /\ WriteRef(e)' <= WriteRef(e) /\ ReadRef(e)' \in {0, 1} /\ WriteRef(e)' \in {0, 1}
    <3>1. CASE ppc = "wout"
      <4>1. wkey'[e] = 0 /\ rkey'[e] = rkey[e]
        BY <3>1, <2>2, <1>t
      <4> QED BY <3>1, <4>1, <2>1 DEF ReadRef, WriteRef, One
    <3>2. CASE ppc = "rout"
      <4>1. rkey'[e] = 0 /\ wkey'[e] = wkey[e]
        BY <3>2, <2>2, <1>t
      <4> QED BY <3>2, <4>1, <2>1 DEF ReadRef, WriteRef, One
    <3> QED BY <2>1, <3>1, <3>2
  <2>6. /\ OwnerRef(e)' = OwnerRef(e) /\ RegRef(e)' = RegRef(e) /\ WrapRef(e)' = WrapRef(e)
        /\ BitRefs(raised'[e]) = BitRefs(raised[e]) /\ BitRefs(hmask'[e]) = BitRefs(hmask[e])
    BY <2>1 DEF OwnerRef, RegRef, WrapRef
  <2>7. Holders(e)' <= Holders(e)
    BY <2>5, <2>6, <1>n, <1>b DEF Holders
  <2> QED BY <2>1, <2>4, <2>7, Kept
<1>10. CASE RunTasks
  <2>1. PICK op : NextTask(op)
    BY <1>10 DEF RunTasks, AddEvent, ModEvent, DelEvent, SetReadTimeOut, SetWriteTimeOut,
                 DelReadTimeOut, DelWriteTimeOut
  <2>2. PICK e \in Events : e = Head(batch).ev
    BY <2>1, TaskAtHead
  <2>3. Head(batch).op = op
    BY <2>1 DEF NextTask
  <2>4. /\ ppc = "run" /\ ppc' \notin {"rout", "wout"}
        /\ UNCHANGED <<raised, hmask, hpc>>
    BY <2>1 DEF NextTask, Goto, LoopTest
  <2>5. /\ life[e] = "adding" \/ e \in registered
        /\ op = "Add" <=> life[e] = "adding"
        /\ op = "Del" => life[e] = "closed"
    <3>1. Len(Todo) \in Nat /\ Len(Todo) >= 1 /\ Todo[1].ev = e /\ Todo[1].op = op
      BY <2>1, <2>2, <2>3, TodoPopped, TodoIsSeq
    <3>2. 1 \in 1..Len(Todo)
      BY <3>1
    <3> QED BY <3>1, <3>2 DEF TasksOf
  <2>6. /\ BitRefs(raised'[e]) = BitRefs(raised[e]) /\ BitRefs(hmask'[e]) = BitRefs(hmask[e])
        /\ WrapRef(e)' = WrapRef(e)
    BY <2>4 DEF WrapRef
  <2>a. CASE AddEvent
    <3>1. /\ op = "Add" /\ registered' = registered \cup {e} /\ life' = [life EXCEPT ![e] = "open"]
          /\ UNCHANGED <<rkey, wkey, ref_count, deleted>>
      BY <2>a, <2>2, <2>3 DEF AddEvent, NextTask
    <3>2. \A f \in Events \ {e} : SameView(f)
      BY <2>4, <3>1, <1>t DEF SameView
    <3>3. life[e] = "adding" /\ life'[e] = "open" /\ e \in registered'
      BY <2>5, <3>1, <1>t
    <3>4. OwnerRef(e)' = OwnerRef(e) /\ RegRef(e)' = RegRef(e) /\ ReadRef(e)' = ReadRef(e) /\ WriteRef(e)' = WriteRef(e)
      BY <2>4, <3>1, <3>3 DEF OwnerRef, RegRef, ReadRef, WriteRef, One
    <3>5. Holders(e)' <= Holders(e)
      BY <2>6, <3>4, <1>n, <1>b DEF Holders
    <3> QED BY <3>1, <3>2, <3>5, Kept
  <2>b. CASE ModEvent
    <3>1. UNCHANGED <<rkey, wkey, ref_count, deleted, registered, life>>
      BY <2>b DEF ModEvent
    <3>2. \A f \in Events : SameView(f)
      BY <2>4, <3>1 DEF SameView
    <3> QED BY <3>1, <3>2, Kept
  <2>c. CASE DelEvent
    <3> DEFINE c == Cardinality({k \in {"r", "w"} : IF k = "r" THEN rkey[e] # 0 ELSE wkey[e] # 0})
    <3>1. /\ op = "Del" /\ registered' = registered \ {e} /\ life' = life
          /\ rkey' = [rkey EXCEPT ![e] = 0] /\ wkey' = [wkey EXCEPT ![e] = 0]
          /\ Release(e, 1 + c)
      BY <2>c, <2>2, <2>3 DEF DelEvent, CancelTimers, NextTask
    <3>2. \A f \in Events \ {e} : SameView(f)
      BY <2>4, <3>1, <1>t DEF SameView
    <3>3. life[e] = "closed" /\ e \in registered /\ e \notin registered' /\ rkey'[e] = 0 /\ wkey'[e] = 0
      BY <2>5, <3>1, <1>t
    <3>4. OwnerRef(e)' = OwnerRef(e) /\ RegRef(e) = 1 /\ RegRef(e)' = 0
      BY <3>1, <3>3 DEF OwnerRef, RegRef, One
    <3>5. ReadRef(e)' = 0 /\ WriteRef(e)' = 0 /\ ReadRef(e) = One(rkey[e] # 0) /\ WriteRef(e) = One(wkey[e] # 0)
      BY <2>4, <3>3 DEF ReadRef, WriteRef, One
    <3>6. c = ReadRef(e) + WriteRef(e)
      BY <3>5, TimersCounted
    <3> HIDE DEF c
    <3>7. Holders(e)' + (1 + c) <= Holders(e) /\ 1 + c \in Nat
      BY <2>6, <3>4, <3>5, <3>6, <1>n, <1>b DEF Holders
    <3> QED BY <3>1, <3>2, <3>7, Released
  <2>d. CASE SetReadTimeOut
    <3>1. /\ op \notin {"Add", "Del"} /\ UNCHANGED <<wkey, registered, life>>
          /\ rkey' = [rkey EXCEPT ![e] = KeyDeadline]
          /\ IF rkey[e] # 0 THEN UNCHANGED <<ref_count, deleted>> ELSE Require(e)
      BY <2>d, <2>2, <2>3 DEF SetReadTimeOut, NextTask
    <3>2. \A f \in Events \ {e} : SameView(f)
      BY <2>4, <3>1, <1>t DEF SameView
    <3>3. RegRef(e) = 1 /\ OwnerRef(e)' = OwnerRef(e) /\ RegRef(e)' = RegRef(e) /\ WriteRef(e)' = WriteRef(e)
      BY <2>4, <2>5, <3>1 DEF RegRef, OwnerRef, WriteRef, One
    <3>4. rkey[e] # 0 => ReadRef(e) = 1
      BY <2>4 DEF ReadRef, One
    <3>5. ReadRef(e)' \in {0, 1}
      BY DEF ReadRef, One
    <3>6. Holders(e) >= 1
      BY <3>3, <1>n, <1>b DEF Holders
    <3>7. Holders(e)' = Holders(e) - ReadRef(e) + ReadRef(e)'
      BY <2>6, <3>3, <3>5, <1>n, <1>b DEF Holders
    <3>h. Holders(e) \in Nat /\ Holders(e)' \in Nat
      BY HoldersNat
    <3>8. CASE rkey[e] # 0
      <4>1. Holders(e)' <= Holders(e)
        BY <3>4, <3>5, <3>7, <3>8, <3>h
      <4> QED BY <3>1, <3>2, <3>8, <4>1, Kept
    <3>9. CASE rkey[e] = 0
      <4>1. Holders(e)' <= Holders(e) + 1
        BY <3>5, <3>7, <3>h, <1>n
      <4> QED BY <3>1, <3>2, <3>6, <3>9, <4>1, Required
    <3> QED BY <3>8, <3>9
  <2>e. CASE SetWriteTimeOut
    <3>1. /\ op \notin {"Add", "Del"} /\ UNCHANGED <<rkey, registered, life>>
          /\ wkey' = [wkey EXCEPT ![e] = KeyDeadline]
          /\ IF wkey[e] # 0 THEN UNCHANGED <<ref_count, deleted>> ELSE Require(e)
      BY <2>e, <2>2, <2>3 DEF SetWriteTimeOut, NextTask
    <3>2. \A f \in Events \ {e} : SameView(f)
      BY <2>4, <3>1, <1>t DEF SameView
    <3>3. RegRef(e) = 1 /\ OwnerRef(e)' = OwnerRef(e) /\ RegRef(e)' = RegRef(e) /\ ReadRef(e)' = ReadRef(e)
      BY <2>4, <2>5, <3>1 DEF RegRef, OwnerRef, ReadRef, One
    <3>4. wkey[e] # 0 => WriteRef(e) = 1
      BY <2>4 DEF WriteRef, One
    <3>5. WriteRef(e)' \in {0, 1}
      BY DEF WriteRef, One
    <3>6. Holders(e) >= 1
      BY <3>3, <1>n, <1>b DEF Holders
    <3>7. Holders(e)' = Holders(e) - WriteRef(e) + WriteRef(e)'
      BY <2>6, <3>3, <3>5, <1>n, <1>b DEF Holders
    <3>h. Holders(e) \in Nat /\ Holders(e)' \in Nat
      BY HoldersNat
    <3>8. CASE wkey[e] # 0
      <4>1. Holders(e)' <= Holders(e)
        BY <3>4, <3>5, <3>7, <3>8, <3>h
      <4> QED BY <3>1, <3>2, <3>8, <4>1, Kept
    <3>9. CASE wkey[e] = 0
      <4>1. Holders(e)' <= Holders(e) + 1
        BY <3>5, <3>7, <3>h, <1>n
      <4> QED BY <3>1, <3>2, <3>6, <3>9, <4>1, Required
    <3> QED BY <3>8, <3>9
  <2>f. CASE DelReadTimeOut
    <3>1. /\ op \notin {"Add", "Del"} /\ UNCHANGED <<wkey, registered, life>>
          /\ rkey' = [rkey EXCEPT ![e] = 0] /\ Release(e, IF rkey[e] # 0 THEN 1 ELSE 0)
      BY <2>f, <2>2, <2>3 DEF DelReadTimeOut, NextTask
    <3>2. \A f \in Events \ {e} : SameView(f)
      BY <2>4, <3>1, <1>t DEF SameView
    <3>3. OwnerRef(e)' = OwnerRef(e) /\ RegRef(e)' = RegRef(e) /\ WriteRef(e)' = WriteRef(e)
      BY <2>4, <3>1 DEF RegRef, OwnerRef, WriteRef, One
    <3>4. rkey'[e] = 0
      BY <3>1, <1>t
    <3>5. ReadRef(e)' = 0 /\ ReadRef(e) = IF rkey[e] # 0 THEN 1 ELSE 0
      BY <2>4, <3>4 DEF ReadRef, One
    <3>6. Holders(e)' + ReadRef(e) <= Holders(e) /\ ReadRef(e) \in Nat
      BY <2>6, <3>3, <3>5, <1>n, <1>b DEF Holders
    <3>7. Release(e, ReadRef(e))
      BY <3>1, <3>5
    <3> QED BY <3>2, <3>6, <3>7, Released
  <2>g. CASE DelWriteTimeOut
    <3>1. /\ op \notin {"Add", "Del"} /\ UNCHANGED <<rkey, registered, life>>
          /\ wkey' = [wkey EXCEPT ![e] = 0] /\ Release(e, IF wkey[e] # 0 THEN 1 ELSE 0)
      BY <2>g, <2>2, <2>3 DEF DelWriteTimeOut, NextTask
    <3>2. \A f \in Events \ {e} : SameView(f)
      BY <2>4, <3>1, <1>t DEF SameView
    <3>3. OwnerRef(e)' = OwnerRef(e) /\ RegRef(e)' = RegRef(e) /\ ReadRef(e)' = ReadRef(e)
      BY <2>4, <3>1 DEF RegRef, OwnerRef, ReadRef, One
    <3>4. wkey'[e] = 0
      BY <3>1, <1>t
    <3>5. WriteRef(e)' = 0 /\ WriteRef(e) = IF wkey[e] # 0 THEN 1 ELSE 0
      BY <2>4, <3>4 DEF WriteRef, One
    <3>6. Holders(e)' + WriteRef(e) <= Holders(e) /\ WriteRef(e) \in Nat
      BY <2>6, <3>3, <3>5, <1>n, <1>b DEF Holders
    <3>7. Release(e, WriteRef(e))
      BY <3>1, <3>5
    <3> QED BY <3>2, <3>6, <3>7, Released
  <2> QED BY <1>10, <2>a, <2>b, <2>c, <2>d, <2>e, <2>f, <2>g DEF RunTasks
<1>11. ASSUME NEW e \in Events, OwnerNotify(e) \/ Edge(e) PROVE Counted'
  BY <1>11, IdleKept DEF OwnerNotify, Edge, Idle
<1>12. CASE Stop \/ StopNotify \/ Tick \/ UNCHANGED vars
  BY <1>12, IdleKept DEF Stop, StopNotify, Tick, vars, Idle
<1>13. CASE PollBegins \/ WriteTimersDone \/ ReadClock \/ EnterWait \/ WaitReturns
  BY <1>13, IdleKept DEF PollBegins, WriteTimersDone, ReadClock, EnterWait, WaitReturns, Goto, Idle
<1>14. CASE WaitTimesOut \/ WaitInterrupted \/ DispatchDone \/ MoveTasks
  BY <1>14, IdleKept DEF WaitTimesOut, WaitInterrupted, DispatchDone, MoveTasks, Goto, LoopTest, Idle
<1> QED
  BY <1>1, <1>2, <1>3, <1>4, <1>5, <1>6, <1>7, <1>8, <1>9, <1>10, <1>11, <1>12, <1>13, <1>14
  DEF Next, PollStep, HandlerStep
-----------------------------------------------------------------------------
LEMMA InitPInv == Init => PInv
<1> SUFFICES ASSUME Init PROVE PInv
  OBVIOUS
<1>1. Types
  <2>1. tasklist \in Seq(Task) /\ batch \in Seq(Task)
    BY EmptySeq DEF Init
  <2>2. /\ rkey \in [Events -> Nat] /\ wkey \in [Events -> Nat] /\ ref_count \in [Events -> Int]
        /\ life \in [Events -> {"new", "adding", "open", "closed"}]
        /\ hpc \in [Events -> {"idle", "run", "notify"}] /\ opc \in [Events -> {"out", "notify"}]
    BY DEF Init
  <2>3. /\ raised \in [Events -> SUBSET {"IO", "RTIME", "WTIME"}]
        /\ hmask \in [Events -> SUBSET {"IO", "RTIME", "WTIME"}]
    BY DEF Init
  <2>4. /\ nowsec \in Nat /\ until \in Nat \cup {Forever} /\ clock \in Nat /\ nowsec <= clock
        /\ nposted \in Nat /\ nrun \in Nat
    BY DEF Init
  <2>6. notified \in BOOLEAN
    BY DEF Init
  <2>5. arr = {} /\ registered = {} /\ ready = {} /\ deleted = {} /\ isruning = "unset" /\ ppc = "before" /\ stop = "no"
    BY DEF Init
  <2> QED BY <2>1, <2>2, <2>3, <2>4, <2>5, <2>6 DEF Types
<1>2. Todo = <<>> /\ Len(Todo) = 0
  <2>1. <<>> \in Seq(Task) /\ Len(<<>>) = 0
    BY EmptySeq
  <2> QED BY <2>1, ConcatEmptySeq DEF Init, Todo
<1>3. BatchDone /\ TasksInOrder
  <2>1. BatchDone
    BY DEF Init, BatchDone
  <2>2. Len(Todo) = nposted - nrun /\ \A i \in 1..Len(Todo) : Todo[i].n = nrun + i
    BY <1>2 DEF Init
  <2> QED BY <2>1, <2>2 DEF TasksInOrder, Todo
<1>4. ASSUME NEW e \in Events PROVE TasksOf(e) /\ Registered(e)
  BY <1>2 DEF Init, TasksOf, Registered
<1>5. Arrived
  BY DEF Init, Arrived
<1>6. ASSUME NEW e \in Events PROVE ref_count[e] >= Holders(e) /\ (e \in deleted => ref_count[e] = 0)
  <2>1. OwnerRef(e) = 1 /\ RegRef(e) = 0 /\ ReadRef(e) = 0 /\ WriteRef(e) = 0 /\ WrapRef(e) = 0
    BY DEF Init, OwnerRef, RegRef, ReadRef, WriteRef, WrapRef, One
  <2>2. BitRefs(raised[e]) = 0 /\ BitRefs(hmask[e]) = 0
    BY DEF Init, BitRefs, One
  <2>3. ref_count[e] = 1 /\ e \notin deleted
    BY DEF Init
  <2> QED BY <2>1, <2>2, <2>3 DEF Holders
<1> QED BY <1>1, <1>3, <1>4, <1>5, <1>6 DEF PInv, Counted

LEMMA StepPInv == PInv /\ [Next]_vars => PInv'
BY StepTypes, StepInOrder, StepTasksOf, StepArrived, StepCounted DEF PInv

LEMMA PollerInvariant == Spec => []PInv
BY InitPInv, StepPInv, PTL DEF Spec

\* Every task posted to the poller, by any thread and at any moment, is run
\* once and in the order of posting (PostTask, ProcessPendingTask).
THEOREM PostedInOrder == Spec => []TasksInOrder
<1>1. PInv => TasksInOrder
  BY DEF PInv
<1> QED BY <1>1, PollerInvariant, PTL

LEMMA NobodyLeft ==
  ASSUME PInv, NEW e \in deleted
  PROVE  /\ e \notin registered /\ e \notin arr /\ rkey[e] = 0 /\ wkey[e] = 0
         /\ raised[e] = {} /\ hpc[e] = "idle" /\ \A i \in 1..Len(Todo) : Todo[i].ev # e
<1>1. e \in Events /\ Types /\ Arrived /\ Counted /\ TasksOf(e) /\ Registered(e)
  BY DEF PInv, Types
<1>2. ref_count[e] = 0 /\ ref_count[e] >= Holders(e) /\ Holders(e) \in Nat
  BY <1>1, HoldersNat DEF Counted
<1>3. Holders(e) = 0
  BY <1>2
<1>4. RegRef(e) = 0 /\ WrapRef(e) = 0
  <2>1. /\ OwnerRef(e) \in {0, 1} /\ RegRef(e) \in {0, 1} /\ ReadRef(e) \in {0, 1}
        /\ WriteRef(e) \in {0, 1} /\ WrapRef(e) \in {0, 1}
    BY DEF OwnerRef, RegRef, ReadRef, WriteRef, WrapRef, One
  <2>2. BitRefs(raised[e]) \in {0, 1, 2} /\ BitRefs(hmask[e]) \in {0, 1, 2}
    BY DEF BitRefs, One
  <2> QED BY <1>3, <2>1, <2>2 DEF Holders
<1>5. life[e] # "adding" /\ e \notin registered /\ raised[e] = {} /\ hpc[e] = "idle"
  BY <1>4 DEF RegRef, WrapRef, One
<1> QED BY <1>1, <1>5 DEF Arrived, Registered, TasksOf

\* The loop's plain pointers are good: an event that the last ReleaseRef
\* deletes is in no timer tree, no task and no ev_arr and with no handler, no
\* timer outlives the registration, and no count ever falls below zero.
THEOREM NoPointerDangles == Spec => []PointersAlive
<1>1. PInv => PointersAlive
  <2> SUFFICES ASSUME PInv PROVE PointersAlive
    OBVIOUS
  <2>1. TypeOK
    <3>1. ref_count \in [Events -> Nat]
      <4>1. ref_count \in [Events -> Int] /\ \A e \in Events : ref_count[e] >= Holders(e) /\ Holders(e) \in Nat
        BY HoldersNat DEF PInv, Types, Counted
      <4>2. \A e \in Events : ref_count[e] \in Nat
        BY <4>1
      <4> QED BY <4>1, <4>2
    <3> QED BY <3>1 DEF PInv, Types, TypeOK
  <2>2. DeletedIsForgotten
    BY NobodyLeft DEF DeletedIsForgotten, Todo
  <2>3. TimersOfRegistered
    <3> SUFFICES ASSUME NEW e \in Events, rkey[e] + wkey[e] > 0 PROVE e \in registered
      BY DEF TimersOfRegistered
    <3>1. rkey[e] # 0 \/ wkey[e] # 0
      BY DEF PInv, Types
    <3> QED BY <3>1 DEF PInv, Registered
  <2> QED BY <2>1, <2>2, <2>3 DEF PointersAlive
<1> QED BY <1>1, PollerInvariant, PTL
=============================================================================
