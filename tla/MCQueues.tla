------------------------------ MODULE MCQueues ------------------------------
(***************************************************************************)
(* The queues and the hand-over of a result, checked side by side: `part`  *)
(* says which of them a behaviour is about.                                *)
(***************************************************************************)
EXTENDS LockFreeQueue, WorkQueue, SpinList, Completion

VARIABLE part

allvars == <<part, qvars, wvars, lvars, cvars>>

Init ==
  /\ part \in {"LockFreeQueue", "WorkQueue", "SpinList", "Completion"}
  /\ QInit /\ WInit /\ LInit /\ CInit
  /\ part # "LockFreeQueue" => single = FALSE
  /\ part # "SpinList" => usage = "pop"

QueueStep == /\ part = "LockFreeQueue" /\ QNext
             /\ UNCHANGED <<part, wvars, lvars, cvars>>

WorkQueueStep == /\ part = "WorkQueue" /\ WNext
                 /\ UNCHANGED <<part, qvars, lvars, cvars>>

SpinListStep == /\ part = "SpinList" /\ LNext
                /\ UNCHANGED <<part, qvars, wvars, cvars>>

CompletionStep == /\ part = "Completion" /\ CNext
                  /\ UNCHANGED <<part, qvars, wvars, lvars>>

Next == QueueStep \/ WorkQueueStep \/ SpinListStep \/ CompletionStep

\* The fairness of LockFreeQueue and Completion, each where it is the part.
Fairness ==
  /\ part = "LockFreeQueue" => QFairness
  /\ part = "Completion" => CFairness

Spec == Init /\ [][Next]_allvars /\ Fairness
=============================================================================
