-------------------------------- MODULE Fifo --------------------------------
(***************************************************************************)
(* What a queue between threads promises: elements leave one at a time, in *)
(* the order in which they came.  LockFreeQueue, WorkQueue and SpinList    *)
(* implement it.                                                           *)
(***************************************************************************)
EXTENDS Sequences

CONSTANTS Elements,  \* what can be queued
          Nothing    \* what was taken before the first pop

VARIABLES contents,  \* the queue, oldest element first
          taken      \* what the last successful pop returned

vars == <<contents, taken>>

Init == contents = <<>> /\ taken = Nothing

Enqueue(e) == contents' = Append(contents, e) /\ UNCHANGED taken

Dequeue == /\ contents # <<>>
           /\ taken' = Head(contents)
           /\ contents' = Tail(contents)

Spec == Init /\ [][Dequeue \/ \E e \in Elements : Enqueue(e)]_vars
=============================================================================
