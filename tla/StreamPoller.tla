---------------------------- MODULE StreamPoller ----------------------------
(***************************************************************************)
(* What a client stream and a server stream share: the poller's record of  *)
(* a stream, which posted tasks change one by one (mio/mio_poller.cpp),    *)
(* and the order of the parts of SocketStream::OnEvent.                    *)
(***************************************************************************)
EXTENDS Integers, Sequences

\* SetEvent reports a change only if the interest differs, and only then
\* epoll_ctl puts the stream on the ready list again.
ModEvent(p, i) == IF p.interest \in {"none", i} THEN p
                  ELSE [p EXCEPT !.interest = i, !.armed = TRUE]

\* What a posted task does to the poller's record p of the stream: its
\* interest, whether it is on epoll's ready list, and its two timers.
Execute(p, t) ==
  CASE t = "AddR"  -> [p EXCEPT !.interest = "R", !.armed = TRUE]
    [] t = "AddRW" -> [p EXCEPT !.interest = "RW", !.armed = TRUE]
    [] t = "ModR"  -> ModEvent(p, "R")
    [] t = "ModRW" -> ModEvent(p, "RW")
    [] t = "SetR"  -> [p EXCEPT !.rtimer = TRUE]
    [] t = "DelR"  -> [p EXCEPT !.rtimer = FALSE]
    [] t = "SetW"  -> [p EXCEPT !.wtimer = TRUE]
    [] t = "Del"   -> [interest |-> "none", armed |-> FALSE, rtimer |-> FALSE, wtimer |-> FALSE]

\* ProcessPendingTask moves the list to tmp and runs it to the end before the
\* poller looks at epoll or the timers again.  Of the tasks that were posted
\* and not run, the first `moved' are in tmp; how many are once it is filled.
InTmp(tasks, moved) == IF moved = 0 THEN Len(tasks) ELSE moved

\* The parts of OnEvent, each run if its bit is in the mask, and the one that
\* follows part i.
Phases == <<"READ", "WRITE", "RTIME", "WTIME", "tail">>
PhaseAfter(i, mask) ==
  Phases[CHOOSE j \in (i + 1)..5 :
           /\ Phases[j] \in mask \cup {"tail"}
           /\ \A k \in (i + 1)..(j - 1) : Phases[k] \notin mask]
=============================================================================
