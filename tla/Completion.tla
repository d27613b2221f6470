----------------------------- MODULE Completion -----------------------------
(***************************************************************************)
(* Waiting for a result: the one idiom behind Reply::Run / Reply::Wait     *)
(* (thread/workpool.h), RpcClientController::SetStatus / Wait / Wait(ms)   *)
(* (rpc/rpc_controller_impl.cpp) and ConnectStream::OnConnect / OnClose /  *)
(* Wait (mio/mio_connect_stream.cpp).  One thread sets a flag and signals a*)
(* condition variable under a mutex; the others test the flag WITHOUT the  *)
(* mutex and take it only to call pthread_cond_wait.  The names are those  *)
(* of Reply; in the other two isdone and ret are one word (_status,        *)
(* _ConnectStatus).                                                        *)
(***************************************************************************)
EXTENDS FiniteSets

CONSTANTS Waiters,   \* threads that call Wait
          Timed,     \* those of them that call Wait(ms)
          Setter,    \* the thread that completes the call
          Results,   \* what a call can end with
          NoResult   \* ret before the task has run

ASSUME CompletionAssumption == /\ IsFiniteSet(Waiters) /\ Timed \subseteq Waiters
                               /\ Setter \notin Waiters
                               /\ NoResult \notin Results

VARIABLES isdone, ret,
          holder,    \* who holds _mutex, {} when it is free
          spc,       \* the setter
          wpc, got   \* each waiter, and what its Wait returned

cvars == <<isdone, ret, holder, spc, wpc, got>>

Sleepers == {w \in Waiters : wpc[w] = "sleep"}

CInit ==
  /\ isdone = FALSE /\ ret = NoResult /\ holder = {}
  /\ spc = "task"
  /\ wpc = [w \in Waiters |-> "test"]
  /\ got = [w \in Waiters |-> NoResult]
-----------------------------------------------------------------------------
(* The setter: Reply::Run, SetStatus, OnConnect and OnClose.               *)

Store_FlagFirst(r) == isdone' = TRUE /\ UNCHANGED ret

\* ret = _task->Run(), before the flag.
Store(r) == ret' = r /\ UNCHANGED isdone

RunTask(r) ==
  /\ spc = "task"
  /\ Store(r)
  /\ spc' = "lock"
  /\ UNCHANGED <<holder, wpc, got>>

SetterLock ==
  /\ spc = "lock" /\ holder = {}
  /\ holder' = {Setter}
  /\ spc' = "set"
  /\ UNCHANGED <<isdone, ret, wpc, got>>

SetDone ==
  /\ spc = "set"
  /\ isdone' = TRUE
  /\ spc' = "signal"
  /\ UNCHANGED <<ret, holder, wpc, got>>

Woken_None(sleepers) == {{}}

\* pthread_cond_signal: one sleeper if there is any.
Woken(sleepers) == IF sleepers = {} THEN {{}} ELSE {{w} : w \in sleepers}

NotifyOne ==
  /\ spc = "signal"
  /\ \E woken \in Woken(Sleepers) :
        wpc' = [w \in Waiters |-> IF w \in woken THEN "relock" ELSE wpc[w]]
  /\ spc' = "unlock"
  /\ UNCHANGED <<isdone, ret, holder, got>>

SetterUnlock ==
  /\ spc = "unlock"
  /\ holder' = {}
  /\ spc' = "done"
  /\ UNCHANGED <<isdone, ret, wpc, got>>
-----------------------------------------------------------------------------
(* A waiter: Wait and Wait(ms).                                            *)

\* while(!isdone), outside the mutex.
TestDone(w) ==
  /\ wpc[w] = "test"
  /\ wpc' = [wpc EXCEPT ![w] = IF isdone THEN "return" ELSE "lock"]
  /\ UNCHANGED <<isdone, ret, holder, spc, got>>

\* The mutex is taken and given up again at once by pthread_cond_wait.
LockAndSleep(w) ==
  /\ wpc[w] = "lock" /\ holder = {}
  /\ wpc' = [wpc EXCEPT ![w] = "sleep"]
  /\ UNCHANGED <<isdone, ret, holder, spc, got>>

\* "this function may be interrupt": a wake-up nobody signalled.
SpuriousWakeup(w) ==
  /\ wpc[w] = "sleep"
  /\ wpc' = [wpc EXCEPT ![w] = "relock"]
  /\ UNCHANGED <<isdone, ret, holder, spc, got>>

\* pthread_cond_timedwait gives up: ETIMEDOUT.
TimesOut(w) ==
  /\ w \in Timed /\ wpc[w] = "sleep"
  /\ wpc' = [wpc EXCEPT ![w] = "expired"]
  /\ UNCHANGED <<isdone, ret, holder, spc, got>>

\* ETIMEDOUT breaks the loop of Wait(ms).
AfterTimeout == "return"

\* The wait returns with the mutex, which the end of the block releases.
Reacquire(w) ==
  /\ wpc[w] \in {"relock", "expired"} /\ holder = {}
  /\ wpc' = [wpc EXCEPT ![w] = IF @ = "expired" THEN AfterTimeout ELSE "test"]
  /\ UNCHANGED <<isdone, ret, holder, spc, got>>

Return(w) ==
  /\ wpc[w] = "return"
  /\ got' = [got EXCEPT ![w] = ret]
  /\ wpc' = [wpc EXCEPT ![w] = "returned"]
  /\ UNCHANGED <<isdone, ret, holder, spc>>
-----------------------------------------------------------------------------
SetterFinish == SetterLock \/ SetDone \/ NotifyOne \/ SetterUnlock
WaiterStep(w) == TestDone(w) \/ LockAndSleep(w) \/ Reacquire(w) \/ Return(w)

CNext == \/ \E r \in Results : RunTask(r)
        \/ SetterFinish
        \/ \E w \in Waiters : WaiterStep(w) \/ SpuriousWakeup(w) \/ TimesOut(w)

CSpec == CInit /\ [][CNext]_cvars

\* A setter whose task is over finishes and waiters run.  The task itself may
\* never end, and nobody counts on spurious wake-ups.  Strong fairness: the
\* mutex is not denied to the setter for ever, and spurious wake-ups, after
\* which Wait(ms) waits the full time again, do not come faster than ms for ever.
CFairness == /\ SF_cvars(SetterLock) /\ WF_cvars(SetDone \/ NotifyOne \/ SetterUnlock)
             /\ \A w \in Waiters : WF_cvars(WaiterStep(w)) /\ SF_cvars(TimesOut(w))

CFairSpec == CSpec /\ CFairness
-----------------------------------------------------------------------------
(* Properties.                                                             *)

\* The types of the state of Reply: the caller of Wait never keeps the mutex, and
\* what it is given is a result or nothing.
CTypeOK ==
  /\ isdone \in BOOLEAN /\ ret \in Results \cup {NoResult}
  /\ holder \in {{}, {Setter}}
  /\ spc \in {"task", "lock", "set", "signal", "unlock", "done"}
  /\ wpc \in [Waiters -> {"test", "lock", "sleep", "relock", "expired", "return", "returned"}]
  /\ got \in [Waiters -> Results \cup {NoResult}]

\* A Wait without a timeout hands its caller the result of the task, although
\* it looks at the flag without the mutex: ret is stored before the flag.
WaitReturnsResult ==
  /\ CTypeOK
  /\ \A w \in Waiters \ Timed : wpc[w] = "returned" => got[w] = ret /\ ret # NoResult

\* A Wait(ms) that found no result comes back whether or not the call is ever
\* completed.
TimedWaitReturns == \A w \in Timed : (wpc[w] = "lock") ~> (wpc[w] = "returned")

\* A lone waiter that sleeps when the result is signalled comes back.
SleeperIsWoken ==
  \A w \in Waiters :
     (spc = "signal" /\ Sleepers = {w}) ~> (wpc[w] = "returned")

\* A synchronous call comes back once its result is there (Wait).
CompletedWaitReturns == \A w \in Waiters : (spc = "done") ~> (wpc[w] = "returned")

\* A wait comes to an end: a timed one always, another when the one who sleeps
\* is signalled.
WaitEnds == TimedWaitReturns /\ SleeperIsWoken
=============================================================================
