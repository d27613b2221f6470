------------------------------ MODULE WorkQueue ------------------------------
(***************************************************************************)
(* WorkQueue (thread/workqueue.h): a linked queue with a sentinel node, one*)
(* lock for push and another for pop, so a push and a pop run side by side.*)
(* Every access of a node is a step.  Nodes are numbered in the order in   *)
(* which they are allocated; node 0 is the sentinel.                       *)
(***************************************************************************)
EXTENDS Integers, Sequences, FiniteSets

CONSTANTS WProducers, WConsumers,  \* threads that push, threads that pop
          MaxNodes                 \* bound: how many pushes there are

ASSUME WorkQueueAssumption ==
  /\ MaxNodes \in Nat \ {0} /\ WProducers \cap WConsumers = {}

VARIABLES next,                  \* the next field of each node, NULL if none
          head, tail,
          pushlock, poplock,     \* the holder of each lock, {} when free
          allocated, deleted,    \* how many nodes exist, and the ones given back
          pc, node, newhead,     \* each thread, its n or node, its new_head
          result                 \* what the last pop that returned true handed out

wshared == <<next, head, tail, pushlock, poplock>>
wvars == <<wshared, allocated, deleted, pc, node, newhead, result>>

NULL == 0 - 1
Nodes == 0..MaxNodes
Threads == WProducers \cup WConsumers

WInit ==
  /\ next = [n \in Nodes |-> NULL]
  /\ head = 0 /\ tail = 0
  /\ pushlock = {} /\ poplock = {}
  /\ allocated = 0 /\ deleted = {}
  /\ pc = [t \in Threads |-> "idle"]
  /\ node = [t \in Threads |-> NULL]
  /\ newhead = [t \in Threads |-> NULL]
  /\ result = NULL

At(t, from, to) == pc[t] = from /\ pc' = [pc EXCEPT ![t] = to]
-----------------------------------------------------------------------------
(* push.  The value of node n is n itself.                                 *)

NewNode(p) ==
  /\ At(p, "idle", "pushlock") /\ p \in WProducers
  /\ allocated < MaxNodes
  /\ allocated' = allocated + 1
  /\ node' = [node EXCEPT ![p] = allocated + 1]
  /\ UNCHANGED <<wshared, deleted, newhead, result>>

PushFree_Always == TRUE

PushFree == pushlock = {}

PushLock(p) ==
  /\ At(p, "pushlock", "link") /\ PushFree
  /\ pushlock' = {p}
  /\ UNCHANGED <<next, head, tail, poplock, allocated, deleted, node, newhead, result>>

\* tail->next = n.
Link(p) ==
  /\ At(p, "link", "settail")
  /\ next' = [next EXCEPT ![tail] = node[p]]
  /\ UNCHANGED <<head, tail, pushlock, poplock, allocated, deleted, node, newhead, result>>

\* tail = n, and the lock goes.
SetTail(p) ==
  /\ At(p, "settail", "idle")
  /\ tail' = node[p]
  /\ pushlock' = {}
  /\ node' = [node EXCEPT ![p] = NULL]
  /\ UNCHANGED <<next, head, poplock, allocated, deleted, newhead, result>>
-----------------------------------------------------------------------------
(* pop                                                                     *)

\* poplock, and node = head.
PopLock(c) ==
  /\ At(c, "idle", "readnext") /\ c \in WConsumers
  /\ poplock = {}
  /\ poplock' = {c}
  /\ node' = [node EXCEPT ![c] = head]
  /\ UNCHANGED <<next, head, tail, pushlock, allocated, deleted, newhead, result>>

IsLast(c) == next[node[c]] = NULL

\* new_head = node->next; NULL returns false.
ReadNext(c) ==
  /\ pc[c] = "readnext"
  /\ IF IsLast(c)
     THEN /\ poplock' = {}
          /\ pc' = [pc EXCEPT ![c] = "idle"]
          /\ node' = [node EXCEPT ![c] = NULL]
          /\ UNCHANGED newhead
     ELSE /\ newhead' = [newhead EXCEPT ![c] = next[node[c]]]
          /\ pc' = [pc EXCEPT ![c] = "advance"]
          /\ UNCHANGED <<poplock, node>>
  /\ UNCHANGED <<next, head, tail, pushlock, allocated, deleted, result>>

PoppedValue_Old(c) == node[c]

\* t = new_head->_t.
PoppedValue(c) == newhead[c]

\* head = new_head, and the lock goes.
Advance(c) ==
  /\ At(c, "advance", "delete")
  /\ result' = PoppedValue(c)
  /\ head' = newhead[c]
  /\ newhead' = [newhead EXCEPT ![c] = NULL]
  /\ poplock' = {}
  /\ UNCHANGED <<next, tail, pushlock, allocated, deleted, node>>

\* delete node, outside the lock.
Delete(c) ==
  /\ At(c, "delete", "idle")
  /\ deleted' = deleted \cup {node[c]}
  /\ node' = [node EXCEPT ![c] = NULL]
  /\ UNCHANGED <<wshared, allocated, newhead, result>>
-----------------------------------------------------------------------------
WNext == \/ \E p \in WProducers : NewNode(p) \/ PushLock(p) \/ Link(p) \/ SetTail(p)
         \/ \E c \in WConsumers : PopLock(c) \/ ReadNext(c) \/ Advance(c) \/ Delete(c)

WSpec == WInit /\ [][WNext]_wvars
-----------------------------------------------------------------------------
(* Properties.                                                             *)

\* The types of WorkQueue's state: head and tail always point to a node, so a pop
\* never advances head to the NULL it may read from a last node.
WTypeOK ==
  /\ next \in [Nodes -> Nodes \cup {NULL}]
  /\ {head, tail} \subseteq Nodes
  /\ pushlock \in {{}} \cup {{p} : p \in WProducers}
  /\ poplock \in {{}} \cup {{c} : c \in WConsumers}
  /\ allocated \in Nodes /\ deleted \subseteq Nodes
  /\ pc \in [Threads -> {"idle", "pushlock", "link", "settail",
                         "readnext", "advance", "delete"}]
  /\ node \in [Threads -> Nodes \cup {NULL}] /\ newhead \in [Threads -> Nodes \cup {NULL}]

\* The node that each thread is about to read or write.
Accesses == {tail : p \in {q \in WProducers : pc[q] = "link"}}
              \cup {node[c] : c \in {d \in WConsumers : pc[d] \in {"readnext", "delete"}}}
              \cup {newhead[c] : c \in {d \in WConsumers : pc[d] = "advance"}}

\* A pop frees a node outside its lock while a push may still hold that node
\* as tail: nobody reads, writes or frees a node that is gone, because tail is
\* dangling only between the two assignments of push and is not followed then.
NoFreedNodeUsed == WTypeOK /\ Accesses \cap deleted = {}

After(n) == IF n = NULL THEN NULL ELSE next[n]

\* The node k links behind head, NULL past the end of the list.
Behind[k \in 0..MaxNodes] == IF k = 0 THEN head ELSE After(Behind[k - 1])

\* The nodes behind head, which is a node already popped.
Contents == [k \in 1..Cardinality({j \in 1..MaxNodes : Behind[j] # NULL}) |-> Behind[k]]

WFifo == INSTANCE Fifo WITH Elements <- Nodes, Nothing <- NULL,
                            contents <- Contents, taken <- result

\* push and pop under their separate locks are those of a queue: values leave
\* once, in the order in which their nodes were linked.
WorkQueueIsFifo == WFifo!Spec
=============================================================================
