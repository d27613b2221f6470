------------------------------- MODULE Epoller -------------------------------
(***************************************************************************)
(* The poller (mio/mio_poller.cpp, mio/mio_notify.h): the Poll loop, the   *)
(* list of posted tasks with its eventfd, the read and write timers, the   *)
(* registration of events and the references that registration, timers and *)
(* running handlers hold on an event.                                      *)
(*                                                                         *)
(* Every event is handled by a worker thread, one handler at a time: what  *)
(* IOEvent.tla establishes is used here in the form of SerialHandler (bits *)
(* raised while the handler runs wait for its next pass).  The handler is  *)
(* any handler that obeys the contract of SocketStream::OnEvent: it gives  *)
(* back the reference of a timeout bit (or leaks it, see HandlerEnd), posts *)
(* operations on its own event while the event is open, and DelEvent last. *)
(***************************************************************************)
EXTENDS Integers, Sequences, FiniteSets

CONSTANTS Events,     \* the IOEvents of this poller (its own _notify left out)
          Timeout,    \* seconds after which a timer that is set expires
          MaxTime,    \* bound: the last second of the clock
          MaxPosts    \* bound: how many tasks are posted

ASSUME PollerAssumption == /\ IsFiniteSet(Events)
                           /\ Timeout \in Nat \ {0}
                           /\ MaxTime \in Nat
                           /\ MaxPosts \in Nat

Forever == -1                            \* epoll_wait's infinite timeout
TimerOps == {"SetR", "SetW", "DelR", "DelW"}
Ops == TimerOps \cup {"Add", "Mod", "Del"}

VARIABLES
  isruning,    \* Epoller::isruning; "unset" before Poll (no constructor sets it)
  ppc,         \* where the poller's thread is in Poll
  nowsec,      \* ProcessTimeOut's nowsec
  until,       \* when epoll_wait times out
  arr,         \* events in ev_arr that are not dispatched yet, or the one
               \* whose timer ProcessTimeOut is taking out of its tree
  tasklist,    \* Epoller::tasklist, oldest first
  batch,       \* ProcessPendingTask's tmp
  notified,    \* _notify's eventfd has an edge that epoll_wait has not reported
  rkey, wkey,  \* rtimernode.key and wtimernode.key, 0 when not in the tree
  registered,  \* events in the epoll set
  ready,       \* events with an edge that epoll_wait has not reported
  ref_count, deleted,
  life,        \* "new", "adding", "open" or "closed" (DelEvent is posted)
  raised,      \* bits raised and not yet given to the handler
  hpc, hmask,  \* the handler: "idle", "run" or "notify" (inside PostTask); its bits
  opc,         \* the owner's thread inside AddEventASync: "out" or "notify"
  stop,        \* Stop: "no", "notify", "done", and "early" if before Poll
  nposted, nrun,  \* tasks pushed, tasks run
  clock

loopVars == <<isruning, ppc, nowsec, until, arr>>
taskVars == <<tasklist, batch, notified, nposted, nrun>>
timerVars == <<rkey, wkey>>
eventVars == <<registered, ready, ref_count, deleted, life>>
handlerVars == <<raised, hpc, hmask, opc>>
vars == <<loopVars, taskVars, timerVars, eventVars, handlerVars, stop, clock>>

Init ==
  /\ isruning = "unset" /\ ppc = "before"
  /\ nowsec = 0 /\ until = Forever /\ arr = {}
  /\ tasklist = <<>> /\ batch = <<>> /\ notified = FALSE
  /\ nposted = 0 /\ nrun = 0
  /\ rkey = [e \in Events |-> 0] /\ wkey = [e \in Events |-> 0]
  /\ registered = {} /\ ready = {}
  /\ ref_count = [e \in Events |-> 1]      \* the owner's RequireRef
  /\ deleted = {}
  /\ life = [e \in Events |-> "new"]
  /\ raised = [e \in Events |-> {}]
  /\ hpc = [e \in Events |-> "idle"] /\ hmask = [e \in Events |-> {}]
  /\ opc = [e \in Events |-> "out"]
  /\ stop = "no"
  /\ clock = 1
-----------------------------------------------------------------------------
(* Helpers: references, OnEventAsync, PostTask.                            *)

\* ReleaseRef k times on e.
Release(e, k) ==
  /\ ref_count' = [ref_count EXCEPT ![e] = @ - k]
  /\ deleted' = IF k > 0 /\ ref_count[e] - k = 0 THEN deleted \cup {e} ELSE deleted

Require(e) == ref_count' = [ref_count EXCEPT ![e] = @ + 1] /\ UNCHANGED deleted

\* OnEventAsync: the wrapper posted for an idle event holds a reference.
OnEventAsync(e, bit) ==
  /\ raised' = [raised EXCEPT ![e] = @ \cup {bit}]
  /\ IF raised[e] = {} /\ hpc[e] = "idle"
     THEN Require(e)
     ELSE UNCHANGED <<ref_count, deleted>>

\* tasklist.push(t); the notification is a step of its own.
Push(op, e) ==
  /\ nposted < MaxPosts
  /\ nposted' = nposted + 1
  /\ tasklist' = Append(tasklist, [op |-> op, ev |-> e, n |-> nposted + 1])

NotifyEdge_None == UNCHANGED notified

\* Notify: every write to the edge-triggered eventfd is an edge.
NotifyEdge == notified' = TRUE
-----------------------------------------------------------------------------
(* Threads that post.                                                      *)

\* AddEventASync by the owner of a new event: RequireRef, push.
AddEventASync(e) ==
  /\ life[e] = "new"
  /\ life' = [life EXCEPT ![e] = "adding"]
  /\ Require(e)
  /\ Push("Add", e)
  /\ opc' = [opc EXCEPT ![e] = "notify"]
  /\ UNCHANGED <<loopVars, batch, notified, nrun, timerVars, registered, ready,
                 raised, hpc, hmask, stop, clock>>

\* The owner's PostTask notifies.
OwnerNotify(e) ==
  /\ opc[e] = "notify"
  /\ NotifyEdge
  /\ opc' = [opc EXCEPT ![e] = "out"]
  /\ UNCHANGED <<loopVars, tasklist, batch, nposted, nrun, timerVars, eventVars,
                 raised, hpc, hmask, stop, clock>>

\* OnEventWrapper gives the raised bits to the handler, which ignores them
\* all once the stream is closed.
HandlerBegin(e) ==
  /\ hpc[e] = "idle" /\ raised[e] # {}
  /\ hpc' = [hpc EXCEPT ![e] = "run"]
  /\ hmask' = [hmask EXCEPT ![e] = IF life[e] = "closed" THEN {} ELSE raised[e]]
  /\ raised' = [raised EXCEPT ![e] = {}]
  /\ UNCHANGED <<loopVars, taskVars, timerVars, eventVars, opc, stop, clock>>

\* ModEventAsync, SetReadTimeOutAsync ... of the handler: push without a reference.
HandlerPost(e, op) ==
  /\ hpc[e] = "run" /\ life[e] = "open"
  /\ op \in TimerOps \cup {"Mod"}
  /\ Push(op, e)
  /\ hpc' = [hpc EXCEPT ![e] = "notify"]
  /\ UNCHANGED <<loopVars, batch, notified, nrun, timerVars, eventVars, raised,
                 hmask, opc, stop, clock>>

\* OnClose: the owner's reference is released, then DelEventAsync.
HandlerClose(e) ==
  /\ hpc[e] = "run" /\ life[e] = "open"
  /\ life' = [life EXCEPT ![e] = "closed"]
  /\ Release(e, 1)
  /\ Push("Del", e)
  /\ hpc' = [hpc EXCEPT ![e] = "notify"]
  /\ UNCHANGED <<loopVars, batch, notified, nrun, timerVars, registered, ready,
                 raised, hmask, opc, stop, clock>>

\* The handler's PostTask notifies.
HandlerNotify(e) ==
  /\ hpc[e] = "notify"
  /\ NotifyEdge
  /\ hpc' = [hpc EXCEPT ![e] = "run"]
  /\ UNCHANGED <<loopVars, tasklist, batch, nposted, nrun, timerVars, eventVars,
                 raised, hmask, opc, stop, clock>>

\* OnEvent returns.  It has released the reference of each timeout bit it was
\* given, unless EVENT_CLOSE or EVENT_ERR came with them and made it return
\* early: those references are never released.  If nothing was raised
\* meanwhile, the wrapper releases its own.
HandlerEnd(e) ==
  /\ hpc[e] = "run"
  /\ LET timeouts == Cardinality(hmask[e] \cap {"RTIME", "WTIME"})
         own == IF raised[e] = {} THEN 1 ELSE 0
     IN  \E k \in {timeouts} \cup (IF "IO" \in hmask[e] THEN {0} ELSE {}) :
            Release(e, k + own)
  /\ hpc' = [hpc EXCEPT ![e] = "idle"]
  /\ hmask' = [hmask EXCEPT ![e] = {}]
  /\ UNCHANGED <<loopVars, taskVars, timerVars, registered, ready, life, raised,
                 opc, stop, clock>>

\* Stop, first half: isruning = false.
Stop ==
  /\ stop = "no"
  /\ isruning' = "no"
  /\ stop' = IF ppc = "before" THEN "early" ELSE "notify"
  /\ UNCHANGED <<ppc, nowsec, until, arr, taskVars, timerVars, eventVars, handlerVars, clock>>

\* Stop, second half: Notify.
StopNotify ==
  /\ stop = "notify"
  /\ NotifyEdge
  /\ stop' = "done"
  /\ UNCHANGED <<loopVars, tasklist, batch, nposted, nrun, timerVars, eventVars,
                 handlerVars, clock>>
-----------------------------------------------------------------------------
(* Poll.                                                                   *)

Goto(pc) == ppc' = pc /\ UNCHANGED <<isruning, nowsec, until, arr>>

PollBegins ==
  /\ ppc = "before"
  /\ isruning' = "yes"
  /\ ppc' = "top"
  /\ UNCHANGED <<nowsec, until, arr, taskVars, timerVars, eventVars, handlerVars, stop, clock>>

\* while(isruning).
LoopTest == IF isruning = "yes" THEN "top" ELSE "returned"

\* ProcessTimeOut reads the clock once.
ReadClock ==
  /\ ppc = "top"
  /\ ppc' = "wtimers"
  /\ nowsec' = clock
  /\ UNCHANGED <<isruning, until, arr, taskVars, timerVars, eventVars, handlerVars, stop, clock>>

InTree(key) == {e \in Events : key[e] # 0}
Leftmost(key) == {e \in InTree(key) : \A f \in InTree(key) : key[e] <= key[f]}
Expired(key) == {e \in Leftmost(key) : key[e] <= nowsec}

\* The leftmost write timer has expired: raise WRITE_TIME_OUT ...
ExpireWrite(e) ==
  /\ ppc = "wtimers" /\ e \in Expired(wkey)
  /\ OnEventAsync(e, "WTIME")
  /\ ppc' = "wout" /\ arr' = {e}
  /\ UNCHANGED <<isruning, nowsec, until, taskVars, timerVars, registered, ready,
                 life, hpc, hmask, opc, stop, clock>>

\* ... then take it out of the tree, which clears its key (ngx_rbtree_delete).
RemoveWrite(e) ==
  /\ ppc = "wout" /\ e \in arr
  /\ wkey' = [wkey EXCEPT ![e] = 0]
  /\ ppc' = "wtimers" /\ arr' = {}
  /\ UNCHANGED <<isruning, nowsec, until, taskVars, rkey, eventVars, handlerVars, stop, clock>>

WriteTimersDone ==
  /\ ppc = "wtimers" /\ Expired(wkey) = {}
  /\ Goto("rtimers")
  /\ UNCHANGED <<taskVars, timerVars, eventVars, handlerVars, stop, clock>>

\* The leftmost read timer has expired: raise READ_TIME_OUT, then remove it.
ExpireRead(e) ==
  /\ ppc = "rtimers" /\ e \in Expired(rkey)
  /\ OnEventAsync(e, "RTIME")
  /\ ppc' = "rout" /\ arr' = {e}
  /\ UNCHANGED <<isruning, nowsec, until, taskVars, timerVars, registered, ready,
                 life, hpc, hmask, opc, stop, clock>>

RemoveRead(e) ==
  /\ ppc = "rout" /\ e \in arr
  /\ rkey' = [rkey EXCEPT ![e] = 0]
  /\ ppc' = "rtimers" /\ arr' = {}
  /\ UNCHANGED <<isruning, nowsec, until, taskVars, wkey, eventVars, handlerVars, stop, clock>>

Earliest(keys) == CHOOSE k \in keys : \A l \in keys : k <= l

WaitTime_WriteOnly ==
  LET keys == {wkey[e] : e \in InTree(wkey)}
  IN  IF keys = {} THEN Forever ELSE Earliest(keys) - nowsec

\* ProcessTimeOut's result: to the earliest deadline of either tree.
WaitTime ==
  LET keys == {wkey[e] : e \in InTree(wkey)} \cup {rkey[e] : e \in InTree(rkey)}
  IN  IF keys = {} THEN Forever ELSE Earliest(keys) - nowsec

\* ProcessTimeOut returns and epoll_wait is called.
EnterWait ==
  /\ ppc = "rtimers" /\ Expired(rkey) = {}
  /\ ppc' = "wait"
  /\ until' = IF WaitTime = Forever THEN Forever ELSE clock + WaitTime
  /\ UNCHANGED <<isruning, nowsec, arr, taskVars, timerVars, eventVars, handlerVars, stop, clock>>

\* epoll_wait reports edges; the one of _notify is skipped in the dispatch loop.
WaitReturns ==
  /\ ppc = "wait" /\ (notified \/ ready # {})
  /\ ppc' = "dispatch"
  /\ arr' = ready
  /\ ready' = {}
  /\ notified' = FALSE
  /\ UNCHANGED <<isruning, nowsec, until, tasklist, batch, nposted, nrun, timerVars,
                 registered, ref_count, deleted, life, handlerVars, stop, clock>>

\* epoll_wait times out: nfds = 0 and "continue" skips the pending tasks.
\* MaxTime stands for every later second as well.
WaitTimesOut ==
  /\ ppc = "wait" /\ until # Forever /\ (clock >= until \/ clock = MaxTime)
  /\ ~notified /\ ready = {}
  /\ Goto(LoopTest)
  /\ UNCHANGED <<taskVars, timerVars, eventVars, handlerVars, stop, clock>>

\* A signal interrupts an epoll_wait that has nothing to report: nfds = -1.
WaitInterrupted ==
  /\ ppc = "wait" /\ ~notified /\ ready = {}
  /\ Goto(LoopTest)
  /\ UNCHANGED <<taskVars, timerVars, eventVars, handlerVars, stop, clock>>

Dispatch(e) ==
  /\ ppc = "dispatch" /\ e \in arr
  /\ OnEventAsync(e, "IO")
  /\ arr' = arr \ {e}
  /\ UNCHANGED <<isruning, ppc, nowsec, until, taskVars, timerVars, registered, ready,
                 life, hpc, hmask, opc, stop, clock>>

DispatchDone ==
  /\ ppc = "dispatch" /\ arr = {}
  /\ Goto("pending")
  /\ UNCHANGED <<taskVars, timerVars, eventVars, handlerVars, stop, clock>>

MoveTasks_Copy ==
  /\ ppc = "pending"
  /\ batch' = tasklist
  /\ Goto(IF tasklist = <<>> THEN LoopTest ELSE "run")
  /\ UNCHANGED <<tasklist, notified, nposted, nrun, timerVars, eventVars, handlerVars, stop, clock>>

\* ProcessPendingTask: the empty test, and MoveTo under the list's lock.
MoveTasks ==
  /\ ppc = "pending"
  /\ batch' = tasklist
  /\ tasklist' = <<>>
  /\ Goto(IF tasklist = <<>> THEN LoopTest ELSE "run")
  /\ UNCHANGED <<notified, nposted, nrun, timerVars, eventVars, handlerVars, stop, clock>>

\* The head of tmp is run: what is left and the count of tasks run.
NextTask(op) ==
  /\ ppc = "run" /\ batch # <<>> /\ Head(batch).op = op
  /\ batch' = Tail(batch)
  /\ nrun' = Head(batch).n
  /\ Goto(IF Tail(batch) = <<>> THEN LoopTest ELSE "run")
  /\ UNCHANGED <<tasklist, notified, nposted, raised, hpc, hmask, opc, stop, clock>>

AddEvent ==
  /\ NextTask("Add")
  /\ LET e == Head(batch).ev
     IN  /\ registered' = registered \cup {e}
         /\ life' = [life EXCEPT ![e] = "open"]
  /\ UNCHANGED <<timerVars, ready, ref_count, deleted>>

\* epoll_ctl only changes the interest: what it makes ready is an Edge.
ModEvent ==
  /\ NextTask("Mod")
  /\ UNCHANGED <<timerVars, registered, ready, life, ref_count, deleted>>

KeyDeadline == clock + Timeout

SetReadTimeOut ==
  /\ NextTask("SetR")
  /\ LET e == Head(batch).ev
     IN  /\ rkey' = [rkey EXCEPT ![e] = KeyDeadline]
         /\ IF rkey[e] # 0 THEN UNCHANGED <<ref_count, deleted>> ELSE Require(e)
  /\ UNCHANGED <<wkey, registered, life, ready>>

SetWriteTimeOut ==
  /\ NextTask("SetW")
  /\ LET e == Head(batch).ev
     IN  /\ wkey' = [wkey EXCEPT ![e] = KeyDeadline]
         /\ IF wkey[e] # 0 THEN UNCHANGED <<ref_count, deleted>> ELSE Require(e)
  /\ UNCHANGED <<rkey, registered, life, ready>>

DelReadTimeOut_Unchecked ==
  /\ NextTask("DelR")
  /\ LET e == Head(batch).ev
     IN  rkey' = [rkey EXCEPT ![e] = 0] /\ Release(e, 1)
  /\ UNCHANGED <<wkey, registered, life, ready>>

DelReadTimeOut ==
  /\ NextTask("DelR")
  /\ LET e == Head(batch).ev
     IN  /\ rkey' = [rkey EXCEPT ![e] = 0]
         /\ Release(e, IF rkey[e] # 0 THEN 1 ELSE 0)
  /\ UNCHANGED <<wkey, registered, life, ready>>

DelWriteTimeOut ==
  /\ NextTask("DelW")
  /\ LET e == Head(batch).ev
     IN  /\ wkey' = [wkey EXCEPT ![e] = 0]
         /\ Release(e, IF wkey[e] # 0 THEN 1 ELSE 0)
  /\ UNCHANGED <<rkey, registered, life, ready>>

\* DelEvent's references: each timer still set, and the registration.
CancelTimers(e) ==
  /\ rkey' = [rkey EXCEPT ![e] = 0]
  /\ wkey' = [wkey EXCEPT ![e] = 0]
  /\ Release(e, 1 + Cardinality({k \in {"r", "w"} :
                      IF k = "r" THEN rkey[e] # 0 ELSE wkey[e] # 0}))

DelEvent ==
  /\ NextTask("Del")
  /\ LET e == Head(batch).ev
     IN  /\ CancelTimers(e)
         /\ registered' = registered \ {e}
         /\ ready' = ready \ {e}
  /\ UNCHANGED life
-----------------------------------------------------------------------------
(* Environment: the kernel and the clock.                                  *)

Edge(e) ==
  /\ e \in registered /\ e \notin ready
  /\ ready' = ready \cup {e}
  /\ UNCHANGED <<loopVars, taskVars, timerVars, registered, ref_count, deleted, life,
                 handlerVars, stop, clock>>

Tick ==
  /\ clock < MaxTime
  /\ clock' = clock + 1
  /\ UNCHANGED <<loopVars, taskVars, timerVars, eventVars, handlerVars, stop>>
-----------------------------------------------------------------------------
RunTasks == \/ AddEvent \/ ModEvent \/ DelEvent \/ SetReadTimeOut \/ SetWriteTimeOut
            \/ DelReadTimeOut \/ DelWriteTimeOut

PollStep == \/ PollBegins \/ ReadClock \/ WriteTimersDone \/ EnterWait \/ WaitTimesOut
            \/ DispatchDone \/ MoveTasks \/ RunTasks
            \/ WaitReturns
            \/ \E e \in Events : \/ ExpireWrite(e) \/ RemoveWrite(e)
                                 \/ ExpireRead(e) \/ RemoveRead(e)
                                 \/ Dispatch(e)

HandlerStep(e) == HandlerBegin(e) \/ HandlerNotify(e) \/ HandlerEnd(e)

Next == \/ PollStep \/ WaitInterrupted
        \/ Stop \/ StopNotify
        \/ \E e \in Events : \/ AddEventASync(e) \/ OwnerNotify(e)
                             \/ HandlerStep(e) \/ HandlerClose(e)
                             \/ \E op \in Ops : HandlerPost(e, op)
                             \/ Edge(e)
        \/ Tick

Spec == Init /\ [][Next]_vars

\* Threads run, a PostTask or Stop once begun is finished, and time passes.
FairSpec == /\ Spec
            /\ WF_vars(PollStep)
            /\ WF_vars(StopNotify)
            /\ \A e \in Events : WF_vars(OwnerNotify(e)) /\ WF_vars(HandlerStep(e))
            /\ WF_vars(Tick)
-----------------------------------------------------------------------------
(* Properties.                                                             *)

Task == [op : Ops, ev : Events, n : Nat]

\* The types of Epoller's state; a ready descriptor is registered with epoll.
TypeOK ==
  /\ isruning \in {"unset", "yes", "no"}
  /\ ppc \in {"before", "top", "wtimers", "wout", "rtimers", "rout", "wait",
              "dispatch", "pending", "run", "returned"}
  /\ nowsec \in Nat /\ until \in Nat \cup {Forever}
  /\ arr \in SUBSET Events
  /\ tasklist \in Seq(Task) /\ batch \in Seq(Task)
  /\ notified \in BOOLEAN
  /\ rkey \in [Events -> Nat] /\ wkey \in [Events -> Nat]
  /\ registered \in SUBSET Events /\ ready \in SUBSET registered
  /\ ref_count \in [Events -> Nat] /\ deleted \in SUBSET Events
  /\ life \in [Events -> {"new", "adding", "open", "closed"}]
  /\ raised \in [Events -> SUBSET {"IO", "RTIME", "WTIME"}]
  /\ hpc \in [Events -> {"idle", "run", "notify"}]
  /\ hmask \in [Events -> SUBSET {"IO", "RTIME", "WTIME"}]
  /\ opc \in [Events -> {"out", "notify"}]
  /\ stop \in {"no", "early", "notify", "done"}
  /\ nposted \in Nat /\ nrun \in Nat /\ clock \in Nat

\* Posted tasks are run once each and in the order of posting: what is still
\* to run, tmp before tasklist, is exactly the tasks after the last one run.
TasksInOrder ==
  LET todo == batch \o tasklist
  IN  /\ Len(todo) = nposted - nrun
      /\ \A i \in 1..Len(todo) : todo[i].n = nrun + i

\* An event is deleted only when the poller and the workers are done with it:
\* it is in no tree, in no task, not in ev_arr, and no handler has it.
DeletedIsForgotten ==
  \A e \in deleted :
     /\ e \notin registered /\ e \notin arr
     /\ rkey[e] = 0 /\ wkey[e] = 0
     /\ raised[e] = {} /\ hpc[e] = "idle"
     /\ \A i \in 1..Len(batch \o tasklist) : (batch \o tasklist)[i].ev # e

\* A timer in a tree belongs to an event that is still registered: DelEvent
\* leaves no timer behind and no later task sets one again.
TimersOfRegistered == \A e \in Events : rkey[e] + wkey[e] > 0 => e \in registered

\* What the loop holds by plain pointers is alive: the trees, the tasks and
\* ev_arr name no deleted event, and the trees none that was unregistered.
PointersAlive == TypeOK /\ DeletedIsForgotten /\ TimersOfRegistered

\* PostTask's push-then-notify is never missed by the loop: every task posted
\* is run, unless the poller is stopped or Poll has not begun.
PostedTasksRun ==
  \A k \in 1..MaxPosts : (nposted >= k) ~> (nrun >= k \/ stop # "no")

\* A timer that is set goes off, is cancelled or is set anew: epoll_wait never
\* sleeps past the earliest deadline for good.
ReadTimersExpire ==
  \A e \in Events, k \in 1..MaxTime :
     (rkey[e] = k) ~> (rkey[e] # k \/ stop # "no")

\* Stop makes a Poll that has begun return, wherever the loop is.
StopEndsPoll == (stop \in {"notify", "done"}) ~> (ppc = "returned")
=============================================================================
