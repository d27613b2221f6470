------------------------------ MODULE WorkPool ------------------------------
(***************************************************************************)
(* The work group (thread/workpool.cpp): workers with a one-task slot, the *)
(* shared task queue, the list of idle workers, and the threads that Post. *)
(*                                                                         *)
(* Steps are the accesses to shared state: the atomic exchange of a slot,  *)
(* one call of a SpinList (each holds its lock throughout), and a section  *)
(* under Worker::mutex.  A worker holds its mutex from idleWorker->push to *)
(* cv.wait (wpc = "towait"); all other sections under a mutex are a single *)
(* step that needs it free.                                                *)
(***************************************************************************)
EXTENDS Integers, Sequences, FiniteSets, Functions

CONSTANTS Workers,    \* WorkGroup::workerlist
          Posters,    \* threads that call WorkGroup::Post
          Tasks,      \* MioTask objects; each is posted at most once (bound)
          NoTask,     \* the NULL task
          NoWorker,   \* the NULL worker
          MaxInterrupts, \* how often pthread_cond_wait may return unsignalled (bound)
          MayStop     \* whether somebody calls WorkGroup::Stop

ASSUME PoolAssumption == /\ NoTask \notin Tasks
                         /\ NoWorker \notin Workers
                         /\ IsFiniteSet(Workers) /\ Workers # {}
                         /\ MaxInterrupts \in Nat
                         /\ MayStop \in BOOLEAN

VARIABLES
  taskQueue,   \* WorkGroup::taskQueue, oldest task first
  idleWorker,  \* WorkGroup::idleWorker, oldest entry first
  task,        \* Worker::task, the slot of each worker
  isruning,    \* Worker::isruning
  wpc,         \* where each worker is in Worker::loop
  wtask,       \* the task a worker runs
  ppc,         \* where each poster is in WorkGroup::Post
  ptask,       \* the task a poster holds
  pworker,     \* the worker a poster has popped from idleWorker
  towake,      \* workers a poster still has to notify in RunTask, innermost first
  stopping,    \* the workers WorkGroup::Stop has still to stop; all before Stop
  interrupts,  \* unsignalled returns of cv.wait so far
  posted,      \* tasks given to Post
  ran          \* how often each task was run

poolVars == <<taskQueue, idleWorker, task, isruning, wpc, wtask>>
postVars == <<ppc, ptask, pworker, towake>>
vars == <<poolVars, postVars, stopping, interrupts, posted, ran>>

Init ==
  /\ taskQueue = <<>> /\ idleWorker = <<>>
  /\ task = [w \in Workers |-> NoTask]
  /\ isruning = [w \in Workers |-> TRUE]
  /\ wpc = [w \in Workers |-> "top"]
  /\ wtask = [w \in Workers |-> NoTask]
  /\ ppc = [p \in Posters |-> "out"]
  /\ ptask = [p \in Posters |-> NoTask]
  /\ pworker = [p \in Posters |-> NoWorker]
  /\ towake = [p \in Posters |-> <<>>]
  /\ stopping = Workers
  /\ interrupts = 0
  /\ posted = {}
  /\ ran = [t \in Tasks |-> 0]

MutexFree(w) == wpc[w] # "towait"

\* cv.notifyOne: a worker in cv.wait goes on, any other does not notice.
Notify(w) == wpc' = [wpc EXCEPT ![w] = IF @ = "waiting" THEN "top" ELSE @]
-----------------------------------------------------------------------------
(* Worker::loop.                                                           *)

StartRun(w, t) ==
  /\ wtask' = [wtask EXCEPT ![w] = t]
  /\ ran' = [ran EXCEPT ![t] = @ + 1]
  /\ wpc' = [wpc EXCEPT ![w] = "run"]

\* for(;isruning;) fails: the worker leaves the loop.
LoopExit(w) ==
  /\ wpc[w] = "top" /\ ~isruning[w]
  /\ wpc' = [wpc EXCEPT ![w] = "exit"]
  /\ UNCHANGED <<taskQueue, idleWorker, task, isruning, wtask, postVars, stopping, interrupts, posted, ran>>

\* __sync_lock_test_and_set(&task, NULL) and Run.
TakeSlot(w) ==
  /\ wpc[w] = "top" /\ isruning[w]
  /\ task' = [task EXCEPT ![w] = NoTask]
  /\ IF task[w] # NoTask
     THEN StartRun(w, task[w])
     ELSE wpc' = [wpc EXCEPT ![w] = "pop"] /\ UNCHANGED <<wtask, ran>>
  /\ UNCHANGED <<taskQueue, idleWorker, isruning, postVars, stopping, interrupts, posted>>

\* What is left in taskQueue once its oldest task is popped.
AfterPop == Tail(taskQueue)

\* taskqueue->pop(tmp) and Run.
PopQueue(w) ==
  /\ wpc[w] = "pop"
  /\ IF taskQueue # <<>>
     THEN StartRun(w, Head(taskQueue)) /\ taskQueue' = AfterPop
     ELSE wpc' = [wpc EXCEPT ![w] = "lock"] /\ UNCHANGED <<taskQueue, wtask, ran>>
  /\ UNCHANGED <<idleWorker, task, isruning, postVars, stopping, interrupts, posted>>

AfterRun_Sleep == "lock"

\* "continue": the loop starts again.
AfterRun == "top"

\* tmp->Run() returns; the closure deletes itself.
RunReturns(w) ==
  /\ wpc[w] = "run"
  /\ wtask' = [wtask EXCEPT ![w] = NoTask]
  /\ wpc' = [wpc EXCEPT ![w] = AfterRun]
  /\ UNCHANGED <<taskQueue, idleWorker, task, isruning, postVars, stopping, interrupts, posted, ran>>

StillRuning_Unchecked(w) == TRUE

StillRuning(w) == isruning[w]

\* WriteLock wl(mutex): isruning is tested again under the lock.
GoIdle(w) ==
  /\ wpc[w] = "lock"
  /\ IF StillRuning(w)
     THEN /\ idleWorker' = Append(idleWorker, w)
          /\ wpc' = [wpc EXCEPT ![w] = "towait"]
     ELSE /\ wpc' = [wpc EXCEPT ![w] = "exit"]
          /\ UNCHANGED idleWorker
  /\ UNCHANGED <<taskQueue, task, isruning, wtask, postVars, stopping, interrupts, posted, ran>>

\* cv.wait releases the mutex.
Wait(w) ==
  /\ wpc[w] = "towait"
  /\ wpc' = [wpc EXCEPT ![w] = "waiting"]
  /\ UNCHANGED <<taskQueue, idleWorker, task, isruning, wtask, postVars, stopping, interrupts, posted, ran>>

\* cv.wait "may be interrupt" (common/rwlock.h): it returns unsignalled.
Interrupt(w) ==
  /\ interrupts < MaxInterrupts
  /\ wpc[w] = "waiting"
  /\ interrupts' = interrupts + 1
  /\ Notify(w)
  /\ UNCHANGED <<taskQueue, idleWorker, task, isruning, wtask, postVars, stopping, posted, ran>>
-----------------------------------------------------------------------------
(* WorkGroup::Post and Worker::RunTask.                                    *)

\* Post(t) is called.
PostCall(p, t) ==
  /\ ppc[p] = "out" /\ t \notin posted
  /\ posted' = posted \cup {t}
  /\ ptask' = [ptask EXCEPT ![p] = t]
  /\ ppc' = [ppc EXCEPT ![p] = "pop"]
  /\ UNCHANGED <<poolVars, pworker, towake, stopping, interrupts, ran>>

\* What is left in idleWorker once its oldest entry is popped.
IdleRest == Tail(idleWorker)

\* The first idleWorker.pop(w).
PostPop(p) ==
  /\ ppc[p] = "pop"
  /\ IF idleWorker # <<>>
     THEN /\ pworker' = [pworker EXCEPT ![p] = Head(idleWorker)]
          /\ idleWorker' = IdleRest
          /\ ppc' = [ppc EXCEPT ![p] = "slot"]
     ELSE /\ ppc' = [ppc EXCEPT ![p] = "push"]
          /\ UNCHANGED <<pworker, idleWorker>>
  /\ UNCHANGED <<taskQueue, task, isruning, wpc, wtask, ptask, towake, stopping, interrupts, posted, ran>>

AfterExchange_Dropped(tmp) == "wake"

\* RunTask continues with the lock, or reposts the undone task it displaced.
AfterExchange(tmp) == IF tmp = NoTask THEN "wake" ELSE "pop"

\* RunTask: __sync_lock_test_and_set(&task, t).
RunTask(p) ==
  /\ ppc[p] = "slot"
  /\ LET w == pworker[p]
         tmp == task[w]
     IN  /\ task' = [task EXCEPT ![w] = ptask[p]]
         /\ towake' = [towake EXCEPT ![p] = <<w>> \o @]
         /\ ptask' = [ptask EXCEPT ![p] = tmp]
         /\ ppc' = [ppc EXCEPT ![p] = AfterExchange(tmp)]
  /\ pworker' = [pworker EXCEPT ![p] = NoWorker]
  /\ UNCHANGED <<taskQueue, idleWorker, isruning, wpc, wtask, stopping, interrupts, posted, ran>>

\* Where Post or RunTask returns to when s is what is left to notify.
ReturnTo(s) == IF s = <<>> THEN "out" ELSE "wake"

NotifyTarget_None(w) == UNCHANGED wpc

NotifyTarget(w) == Notify(w)

\* RunTask: cv.notifyOne under the worker's mutex.
RunTaskNotify(p) ==
  /\ ppc[p] = "wake"
  /\ LET w == Head(towake[p])
     IN  MutexFree(w) /\ NotifyTarget(w)
  /\ towake' = [towake EXCEPT ![p] = Tail(@)]
  /\ ppc' = [ppc EXCEPT ![p] = ReturnTo(Tail(towake[p]))]
  /\ UNCHANGED <<taskQueue, idleWorker, task, isruning, wtask, ptask, pworker, stopping, interrupts, posted, ran>>

\* taskQueue.push(task).
PostPush(p) ==
  /\ ppc[p] = "push"
  /\ taskQueue' = Append(taskQueue, ptask[p])
  /\ ptask' = [ptask EXCEPT ![p] = NoTask]
  /\ ppc' = [ppc EXCEPT ![p] = "drain"]
  /\ UNCHANGED <<idleWorker, task, isruning, wpc, wtask, pworker, towake, stopping, interrupts, posted, ran>>

\* while(idleWorker.pop(w)).
DrainPop(p) ==
  /\ ppc[p] = "drain"
  /\ IF idleWorker # <<>>
     THEN /\ pworker' = [pworker EXCEPT ![p] = Head(idleWorker)]
          /\ idleWorker' = IdleRest
          /\ ppc' = [ppc EXCEPT ![p] = "drainwake"]
     ELSE /\ ppc' = [ppc EXCEPT ![p] = ReturnTo(towake[p])]
          /\ UNCHANGED <<pworker, idleWorker>>
  /\ UNCHANGED <<taskQueue, task, isruning, wpc, wtask, ptask, towake, stopping, interrupts, posted, ran>>

\* w->cv.notifyOne() under the worker's mutex.
DrainNotify(p) ==
  /\ ppc[p] = "drainwake"
  /\ MutexFree(pworker[p])
  /\ NotifyTarget(pworker[p])
  /\ pworker' = [pworker EXCEPT ![p] = NoWorker]
  /\ ppc' = [ppc EXCEPT ![p] = "drain"]
  /\ UNCHANGED <<taskQueue, idleWorker, task, isruning, wtask, ptask, towake, stopping, interrupts, posted, ran>>
-----------------------------------------------------------------------------
(* WorkGroup::Stop walks workerlist; Worker::Stop is one locked section.   *)

StopWorker(w) ==
  /\ MayStop
  /\ w \in stopping
  /\ MutexFree(w)
  /\ isruning' = [isruning EXCEPT ![w] = FALSE]
  /\ Notify(w)
  /\ stopping' = stopping \ {w}
  /\ UNCHANGED <<taskQueue, idleWorker, task, wtask, postVars, interrupts, posted, ran>>

Stopped == stopping # Workers
-----------------------------------------------------------------------------
WorkerStep(w) == \/ LoopExit(w) \/ TakeSlot(w) \/ PopQueue(w) \/ RunReturns(w)
                 \/ GoIdle(w) \/ Wait(w)

PosterStep(p) == \/ PostPop(p) \/ RunTask(p) \/ RunTaskNotify(p)
                 \/ PostPush(p) \/ DrainPop(p) \/ DrainNotify(p)

Next == \/ \E w \in Workers : WorkerStep(w) \/ Interrupt(w) \/ StopWorker(w)
        \/ \E p \in Posters : PosterStep(p) \/ \E t \in Tasks : PostCall(p, t)

Spec == Init /\ [][Next]_vars

\* Threads run, tasks return, a Post and a Stop once begun go on.  Nothing
\* obliges anybody to call Post or Stop, or cv.wait to be interrupted.  Stop
\* needs strong fairness: it takes a mutex that the worker takes and releases
\* again and again, and pthread_mutex_lock gets it in the end.
FairSpec == /\ Spec
            /\ \A w \in Workers : WF_vars(WorkerStep(w))
            /\ \A p \in Posters : WF_vars(PosterStep(p))
            /\ \A w \in Workers : SF_vars(Stopped /\ StopWorker(w))
-----------------------------------------------------------------------------
(* Properties.                                                             *)

WorkerPC == {"top", "pop", "lock", "towait", "waiting", "run", "exit"}
PosterPC == {"out", "pop", "slot", "wake", "push", "drain", "drainwake"}

\* The types of WorkGroup's state.
TypeOK ==
  /\ taskQueue \in Seq(Tasks)
  /\ idleWorker \in Seq(Workers)
  /\ task \in [Workers -> Tasks \cup {NoTask}]
  /\ isruning \in [Workers -> BOOLEAN]
  /\ wpc \in [Workers -> WorkerPC]
  /\ wtask \in [Workers -> Tasks \cup {NoTask}]
  /\ ppc \in [Posters -> PosterPC]
  /\ ptask \in [Posters -> Tasks \cup {NoTask}]
  /\ pworker \in [Posters -> Workers \cup {NoWorker}]
  /\ towake \in [Posters -> Seq(Workers)]
  /\ stopping \in SUBSET Workers
  /\ interrupts \in Nat
  /\ posted \in SUBSET Tasks
  /\ ran \in [Tasks -> Nat]

\* The places a task that has not run yet may be in.
Places(t) == {<<"slot", w>> : w \in {x \in Workers : task[x] = t}}
               \cup {<<"hand", p>> : p \in {x \in Posters : /\ ptask[x] = t
                                                          /\ ppc[x] \in {"pop", "slot", "push"}}}
               \cup {<<"queue", i>> : i \in {j \in 1..Len(taskQueue) : taskQueue[j] = t}}

\* No task is dropped, doubled or run twice, whatever races between Post,
\* RunTask's exchange and the workers, interrupted waits included: until it
\* runs a posted task is in exactly one place, afterwards in none.
TaskInOnePlace ==
  \A t \in posted : Cardinality(Places(t)) + ran[t] = 1

\* The threads that have to notify w and have not yet.
Wakers(w) == {p \in Posters : \/ pworker[p] = w
                              \/ w \in Range(towake[p])}

\* As long as no wait was interrupted, a worker that waits, or is about to, is
\* in idleWorker or in the hands of exactly one poster that will notify it: it
\* can be found and woken.
SleeperReachable ==
  \A w \in Workers :
     wpc[w] \in {"towait", "waiting"} /\ isruning[w] /\ interrupts = 0 =>
        Cardinality({i \in 1..Len(idleWorker) : idleWorker[i] = w})
          + Cardinality(Wakers(w)) = 1

\* "this should be never happen" (RunTask): as long as no wait was interrupted,
\* a worker taken from idleWorker has an empty slot.
NoUndoneTask ==
  \A p \in Posters : ppc[p] = "slot" /\ interrupts = 0 => task[pworker[p]] = NoTask

\* Nobody is forgotten while no wait was interrupted: a sleeping worker can be
\* found and woken by exactly one, and one that is found has no undone task.
NobodyForgotten == TypeOK /\ SleeperReachable /\ NoUndoneTask

\* What ends the promise to run a task: Stop, or an interrupted wait.
Excused == Stopped \/ interrupts > 0

\* A task handed to an idle worker is run.
HandedTaskRuns ==
  \A t \in Tasks : (\E w \in Workers : task[w] = t) ~> (ran[t] > 0 \/ Excused)

\* A task that is in the queue while some worker is busy is run: the queue is
\* drained before a worker sleeps.
QueuedTaskRunsAfterBusy ==
  \A t \in Tasks :
     (t \in Range(taskQueue) /\ \E w \in Workers : wpc[w] = "run")
        ~> (ran[t] > 0 \/ Excused)

\* Every task that a worker was given, or that a busy worker will meet in the
\* queue, is run, unless Stop or an interrupted wait comes first.
GivenTasksRun == HandedTaskRuns /\ QueuedTaskRunsAfterBusy

\* WorkGroup::Stop ends every worker, whatever it was doing, so that join
\* returns: the second test of isruning closes the race with going idle.
StopEndsWorkers == Stopped ~> \A w \in Workers : wpc[w] = "exit"

\* What the users of the pool rely on: a posted task is run.
PostedTaskRuns == \A t \in Tasks : (t \in posted) ~> (ran[t] > 0 \/ Excused)
=============================================================================
