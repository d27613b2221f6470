--------------------------- MODULE CompletionProofs ---------------------------
(***************************************************************************)
(* Proofs about Completion for any number of waiters and any results.      *)
(*                                                                         *)
(* The argument: the flag is only set by a setter that has stored its      *)
(* result, and the result is never stored again, so a waiter that has seen *)
(* the flag, even without the mutex, reads the one result there will be.   *)
(***************************************************************************)
EXTENDS Completion, TLAPS

\* What the setter has done so far shows in ret and isdone.
SetterOrder ==
  /\ spc # "task" => ret \in Results
  /\ isdone => spc \in {"signal", "unlock", "done"}
  /\ holder = {Setter} <=> spc \in {"set", "signal", "unlock"}

\* Only a timeout brings a waiter out of its loop without the flag.
LeftForCause ==
  \A w \in Waiters \ Timed :
     /\ wpc[w] # "expired"
     /\ wpc[w] \in {"return", "returned"} => isdone
     /\ wpc[w] = "returned" => got[w] = ret

CInv == CTypeOK /\ SetterOrder /\ LeftForCause

LEMMA InitCInv == CInit => CInv
<1> SUFFICES ASSUME CInit PROVE CInv
  OBVIOUS
<1>1. CTypeOK
  BY DEF CInit, CTypeOK
<1>2. SetterOrder
  BY DEF CInit, SetterOrder
<1>3. LeftForCause
  BY DEF CInit, LeftForCause
<1> QED BY <1>1, <1>2, <1>3 DEF CInv

LEMMA StepCInv == CInv /\ [CNext]_cvars => CInv'
<1> SUFFICES ASSUME CInv, [CNext]_cvars PROVE CInv'
  OBVIOUS
<1> USE CompletionAssumption DEF CInv, CTypeOK, SetterOrder, LeftForCause
<1>1. ASSUME NEW r \in Results, RunTask(r) PROVE CInv'
  BY <1>1 DEF RunTask, Store
<1>2. CASE SetterLock
  BY <1>2 DEF SetterLock
<1>3. CASE SetDone
  BY <1>3 DEF SetDone
<1>4. CASE NotifyOne
  BY <1>4 DEF NotifyOne
<1>5. CASE SetterUnlock
  BY <1>5 DEF SetterUnlock
<1>6. ASSUME NEW w \in Waiters, TestDone(w) PROVE CInv'
  BY <1>6 DEF TestDone
<1>7. ASSUME NEW w \in Waiters, LockAndSleep(w) PROVE CInv'
  BY <1>7 DEF LockAndSleep
<1>8. ASSUME NEW w \in Waiters, SpuriousWakeup(w) PROVE CInv'
  BY <1>8 DEF SpuriousWakeup
<1>9. ASSUME NEW w \in Waiters, TimesOut(w) PROVE CInv'
  BY <1>9 DEF TimesOut
<1>10. ASSUME NEW w \in Waiters, Reacquire(w) PROVE CInv'
  BY <1>10 DEF Reacquire, AfterTimeout
<1>11. ASSUME NEW w \in Waiters, Return(w) PROVE CInv'
  BY <1>11 DEF Return
<1>12. CASE UNCHANGED cvars
  BY <1>12 DEF cvars
<1> QED
  BY <1>1, <1>2, <1>3, <1>4, <1>5, <1>6, <1>7, <1>8, <1>9, <1>10, <1>11, <1>12
     DEF CNext, SetterFinish, WaiterStep

LEMMA CInvariant == CSpec => []CInv
BY InitCInv, StepCInv, PTL DEF CSpec

\* A Wait without a timeout (Reply::Wait, RpcClientController::Wait) hands its
\* caller the result of the task, for any number of waiters: the test of the
\* flag outside the mutex is harmless to the value returned.
THEOREM WaitersGetResult == CSpec => []WaitReturnsResult
<1>1. CInv => WaitReturnsResult
  BY CompletionAssumption DEF CInv, CTypeOK, SetterOrder, LeftForCause, WaitReturnsResult
<1> QED BY <1>1, CInvariant, PTL
===============================================================================
