--------------------------- MODULE NoLockWorkPool ---------------------------
(***************************************************************************)
(* NoLockWorkGroup, NoLockWorker and NoLockQueue (nolock_workpool.h and    *)
(* .cpp in thread/): a ring of entries with one index for the posters and  *)
(* one for the workers.  A worker that comes to an entry before its task   *)
(* leaves itself there and waits; Put then hands it the task.  Each atomic *)
(* instruction is a step.  The asserts of RunTask are compiled out in the  *)
(* release build, so a task found in a worker's slot is posted again.      *)
(***************************************************************************)
EXTENDS Integers, Sequences, FiniteSets

CONSTANTS NLWorkers, NLTasks,  \* the workers; the tasks, each with a thread that posts it
          Capacity,            \* entries of the ring
          MaxInterrupts,       \* bound: how many waits return without a signal
          MaxPosts, MaxGets,   \* bounds: how often a poster, a worker turns to the ring
          NoTask, NoWorker

ASSUME NoLockWorkPoolAssumption ==
  /\ Capacity \in Nat \ {0} /\ MaxInterrupts \in Nat /\ MaxGets \in Nat /\ MaxPosts \in Nat
  /\ NoTask \notin NLTasks /\ NoWorker \notin NLWorkers

VARIABLES task_list,               \* the entries: [_task, worker]
          producer_id, cusume_id,
          slot,                    \* each worker's task
          isruning,
          lpc, ltask, lidx,        \* each worker, the task it runs, the entry it is at
          ppc, ptask, pidx, pwake, \* each poster: step, task in hand, entry, workers to notify
          runs,                    \* how often each task was run
          interrupts

nlpost == <<ppc, ptask, pidx, pwake>>
nlvars == <<task_list, producer_id, cusume_id, slot, isruning, lpc, ltask, lidx, nlpost, runs, interrupts>>

Entries == 0..(Capacity - 1)

NLInit ==
  /\ task_list = [i \in Entries |-> [_task |-> NoTask, worker |-> NoWorker]]
  /\ producer_id = 0 /\ cusume_id = 0
  /\ slot = [w \in NLWorkers |-> NoTask]
  /\ isruning = [w \in NLWorkers |-> TRUE]
  /\ lpc = [w \in NLWorkers |-> "loop"]
  /\ ltask = [w \in NLWorkers |-> NoTask]
  /\ lidx = [w \in NLWorkers |-> 0]
  /\ ppc = [t \in NLTasks |-> "post"]
  /\ ptask = [t \in NLTasks |-> t]
  /\ pidx = [t \in NLTasks |-> 0]
  /\ pwake = [t \in NLTasks |-> <<>>]
  /\ runs = [t \in NLTasks |-> 0]
  /\ interrupts = 0
-----------------------------------------------------------------------------
(* Post: NoLockQueue::Put, TaskEntry::Put, RunTask.                        *)

NLPost(p) ==
  /\ ppc[p] = "post" /\ producer_id < MaxPosts
  /\ pidx' = [pidx EXCEPT ![p] = producer_id % Capacity]
  /\ producer_id' = producer_id + 1
  /\ ppc' = [ppc EXCEPT ![p] = "put"]
  /\ UNCHANGED <<task_list, cusume_id, slot, isruning, lpc, ltask, ptask, pwake, runs, interrupts, lidx>>

\* The exchange forgets a task that nobody has taken from the entry.
PutTask(p) ==
  /\ ppc[p] = "put"
  /\ task_list' = [task_list EXCEPT ![pidx[p]]._task = ptask[p]]
  /\ ptask' = [ptask EXCEPT ![p] = NoTask]
  /\ ppc' = [ppc EXCEPT ![p] = "readworker"]
  /\ UNCHANGED <<producer_id, cusume_id, slot, isruning, lpc, ltask, pidx, pwake, runs, interrupts, lidx>>

Registered_Any(i) == CHOOSE w \in NLWorkers : TRUE

Registered(i) == task_list[i].worker

ReadWorker(p) ==
  /\ ppc[p] = "readworker"
  /\ IF Registered(pidx[p]) = NoWorker
     THEN UNCHANGED pwake /\ ppc' = [ppc EXCEPT ![p] = "notify"]
     ELSE /\ pwake' = [pwake EXCEPT ![p] = <<Registered(pidx[p])>> \o @]
          /\ ppc' = [ppc EXCEPT ![p] = "readtask"]
  /\ UNCHANGED <<task_list, producer_id, cusume_id, slot, isruning, lpc, ltask, ptask, pidx, runs, interrupts, lidx>>

\* The argument of RunTask(_task): what the entry holds now.  The entry keeps
\* it, and the worker stays registered there.
ReadTask(p) ==
  /\ ppc[p] = "readtask"
  /\ ptask' = [ptask EXCEPT ![p] = task_list[pidx[p]]._task]
  /\ ppc' = [ppc EXCEPT ![p] = "exchange"]
  /\ UNCHANGED <<task_list, producer_id, cusume_id, slot, isruning, lpc, ltask, pidx, pwake, runs, interrupts, lidx>>

\* A task found in the worker's slot is posted again, before the worker is
\* notified.
ExchangeSlot(p) ==
  /\ ppc[p] = "exchange"
  /\ LET w == Head(pwake[p]) IN
       /\ slot' = [slot EXCEPT ![w] = ptask[p]]
       /\ ptask' = [ptask EXCEPT ![p] = slot[w]]
       /\ ppc' = [ppc EXCEPT ![p] = IF slot[w] = NoTask THEN "notify" ELSE "post"]
  /\ UNCHANGED <<task_list, producer_id, cusume_id, isruning, lpc, ltask, pidx, pwake, runs, interrupts, lidx>>

\* cv.notifyOne under the worker's mutex: lost unless it waits already.
WokenBy(w) == IF lpc[w] = "wait" THEN "loop" ELSE lpc[w]

Notify(p) ==
  /\ ppc[p] = "notify"
  /\ IF pwake[p] = <<>>
     THEN ppc' = [ppc EXCEPT ![p] = "done"] /\ UNCHANGED <<lpc, pwake>>
     ELSE /\ lpc' = [lpc EXCEPT ![Head(pwake[p])] = WokenBy(Head(pwake[p]))]
          /\ pwake' = [pwake EXCEPT ![p] = Tail(@)]
          /\ UNCHANGED ppc
  /\ UNCHANGED <<task_list, producer_id, cusume_id, slot, isruning, ltask, ptask, pidx, runs, interrupts, lidx>>
-----------------------------------------------------------------------------
(* NoLockWorker::loop.                                                     *)

\* for(;isruning;), and the exchange with the own slot.
TakeOwn(w) ==
  /\ lpc[w] = "loop"
  /\ IF ~isruning[w] THEN lpc' = [lpc EXCEPT ![w] = "ended"] /\ UNCHANGED <<slot, ltask>>
     ELSE /\ ltask' = [ltask EXCEPT ![w] = slot[w]]
          /\ slot' = [slot EXCEPT ![w] = NoTask]
          /\ lpc' = [lpc EXCEPT ![w] = IF slot[w] = NoTask THEN "pop" ELSE "run"]
  /\ UNCHANGED <<task_list, producer_id, cusume_id, isruning, nlpost, runs, interrupts, lidx>>

\* _group->Pop(tmp, this) && tmp.
GotTask(t) == t # NoTask

\* NoLockQueue::Get: the index, ...
PopIndex(w) ==
  /\ lpc[w] = "pop" /\ cusume_id < MaxGets
  /\ lidx' = [lidx EXCEPT ![w] = cusume_id % Capacity]
  /\ cusume_id' = cusume_id + 1
  /\ lpc' = [lpc EXCEPT ![w] = "entry"]
  /\ UNCHANGED <<task_list, producer_id, slot, isruning, ltask, nlpost, runs, interrupts>>

\* ... then the exchange with the task of that entry.
PopEntry(w) ==
  /\ lpc[w] = "entry"
  /\ LET t == task_list[lidx[w]]._task IN
       /\ ltask' = [ltask EXCEPT ![w] = t]
       /\ lpc' = [lpc EXCEPT ![w] = IF GotTask(t) THEN "run" ELSE "register"]
       /\ lidx' = [lidx EXCEPT ![w] = IF GotTask(t) THEN 0 ELSE @]
  /\ task_list' = [task_list EXCEPT ![lidx[w]]._task = NoTask]
  /\ UNCHANGED <<producer_id, cusume_id, slot, isruning, nlpost, runs, interrupts>>

\* TaskEntry::Get leaves the worker in an entry that had no task.
Register(w) ==
  /\ lpc[w] = "register"
  /\ task_list' = [task_list EXCEPT ![lidx[w]].worker = w]
  /\ lidx' = [lidx EXCEPT ![w] = 0]
  /\ lpc' = [lpc EXCEPT ![w] = "lock"]
  /\ UNCHANGED <<producer_id, cusume_id, slot, isruning, ltask, nlpost, runs, interrupts>>

\* cv.wait, without a look at the slot or at isruning.
Wait(w) ==
  /\ lpc[w] = "lock"
  /\ lpc' = [lpc EXCEPT ![w] = "wait"]
  /\ UNCHANGED <<task_list, producer_id, cusume_id, slot, isruning, ltask, nlpost, runs, interrupts, lidx>>

InterruptedWait(w) ==
  /\ lpc[w] = "wait" /\ interrupts < MaxInterrupts
  /\ interrupts' = interrupts + 1
  /\ lpc' = [lpc EXCEPT ![w] = "loop"]
  /\ UNCHANGED <<task_list, producer_id, cusume_id, slot, isruning, ltask, nlpost, runs, lidx>>

Run(w) ==
  /\ lpc[w] = "run"
  /\ runs' = [runs EXCEPT ![ltask[w]] = @ + 1]
  /\ ltask' = [ltask EXCEPT ![w] = NoTask]
  /\ lpc' = [lpc EXCEPT ![w] = "loop"]
  /\ UNCHANGED <<task_list, producer_id, cusume_id, slot, isruning, nlpost, interrupts, lidx>>

\* NoLockWorker::Stop.
Stop(w) ==
  /\ isruning[w]
  /\ isruning' = [isruning EXCEPT ![w] = FALSE]
  /\ lpc' = [lpc EXCEPT ![w] = WokenBy(w)]
  /\ UNCHANGED <<task_list, producer_id, cusume_id, slot, ltask, nlpost, runs, interrupts, lidx>>
-----------------------------------------------------------------------------
PosterStep(p) == NLPost(p) \/ PutTask(p) \/ ReadWorker(p) \/ ReadTask(p) \/ ExchangeSlot(p) \/ Notify(p)
WorkerStep(w) == TakeOwn(w) \/ PopIndex(w) \/ PopEntry(w) \/ Register(w) \/ Wait(w) \/ Run(w)

NLNext == \/ \E p \in NLTasks : PosterStep(p)
          \/ \E w \in NLWorkers : WorkerStep(w) \/ InterruptedWait(w) \/ Stop(w)

NLSpec == NLInit /\ [][NLNext]_nlvars
-----------------------------------------------------------------------------
(* Properties.                                                             *)

\* The types of the pool's state; a worker that runs a task has one.
NLTypeOK ==
  /\ task_list \in [Entries -> [_task : NLTasks \cup {NoTask}, worker : NLWorkers \cup {NoWorker}]]
  /\ slot \in [NLWorkers -> NLTasks \cup {NoTask}]
  /\ ltask \in [NLWorkers -> NLTasks \cup {NoTask}]
  /\ ptask \in [NLTasks -> NLTasks \cup {NoTask}]
  /\ producer_id \in Nat /\ cusume_id \in Nat
  /\ \A w \in NLWorkers : lpc[w] = "run" => ltask[w] # NoTask

\* Neither index has gone round the ring.
FirstRound == producer_id <= Capacity /\ cusume_id <= Capacity

\* Until an index goes round the ring a task runs at most once, although Put
\* leaves a task that it has handed to a worker in the entry as well.
FirstRoundRunsOnce == FirstRound => \A t \in NLTasks : runs[t] <= 1

\* "this should be never happen": until an index goes round, RunTask finds the
\* slot of the worker empty unless a wait was interrupted.
FirstRoundSlotEmpty ==
  \A p \in NLTasks :
     FirstRound /\ interrupts = 0 /\ ppc[p] = "exchange" => slot[Head(pwake[p])] = NoTask

\* In the first round of the ring a task is neither run twice nor put over
\* another that its worker has not taken.
FirstRoundSafe == NLTypeOK /\ FirstRoundRunsOnce /\ FirstRoundSlotEmpty
=============================================================================
