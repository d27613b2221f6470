----------------------------- MODULE QueueProofs -----------------------------
(***************************************************************************)
(* Proofs about WorkQueue, SpinList and LockFreeQueue for any number of    *)
(* threads and pushes: what they do with their nodes or slots, and that    *)
(* they implement Fifo; and about IOBuffer as a readbuf, a queue of bytes, *)
(* for pieces of any number and size.                                      *)
(*                                                                         *)
(* WorkQueue: a node is linked once, so next is injective and a popped     *)
(* node, whose next is set, is never the tail that a push follows.  The    *)
(* popped nodes are closed under predecessors, so what a pop finds behind  *)
(* head is not one of them.                                                *)
(*                                                                         *)
(* LockFreeQueue: every counter and every index that a thread holds is the *)
(* remainder of a position in a ring without end.  Positions are compared  *)
(* where the code compares remainders: they differ by less than the width, *)
(* and by less than Q_SIZE where slots are compared.                       *)
(*                                                                         *)
(* IOBuffer: readpos and writepos are places in a ring without end of      *)
(* bytes, less than a round apart, so that no two bytes share a cell.      *)
(***************************************************************************)
EXTENDS WorkQueue, SpinList, LockFreeQueue, IOBuffer, FiniteSetTheorems, FunctionTheorems,
        SequenceTheorems, WellFoundedInduction, TLAPS

\* Who holds which lock, as the steps of push and pop say.
LocksHeld ==
  /\ \A p \in WProducers : /\ pc[p] \in {"idle", "pushlock", "link", "settail"}
                           /\ p \in pushlock <=> pc[p] \in {"link", "settail"}
                           /\ \A q \in WProducers : {p, q} \subseteq pushlock => p = q
  /\ \A c \in WConsumers : /\ pc[c] \in {"idle", "readnext", "advance", "delete"}
                           /\ c \in poplock <=> pc[c] \in {"readnext", "advance"}
                           /\ \A d \in WConsumers : {c, d} \subseteq poplock => c = d

\* The nodes that a pop has taken off the list.
Popped == deleted \cup {node[c] : c \in {d \in WConsumers : pc[d] = "delete"}}

\* Nobody has linked or seen node n.
Unlinked(n) ==
  /\ next[n] = NULL /\ n # head /\ n # tail /\ n \notin Popped
  /\ \A m \in Nodes : next[m] # n

\* The nodes still to be allocated, and the new node of a push.
NewNodes ==
  /\ \A n \in Nodes : n > allocated => Unlinked(n)
  /\ \A p \in WProducers : pc[p] \in {"pushlock", "link"} =>
        /\ node[p] \in 1..allocated
        /\ Unlinked(node[p])
        /\ \A q \in WProducers : pc[q] \in {"pushlock", "link"} /\ node[q] = node[p] => q = p

\* Where the list ends: at tail, or one node behind it during a push.
ListEnd ==
  /\ \A p \in WProducers : pc[p] = "settail" =>
        node[p] \in Nodes /\ next[tail] = node[p] /\ next[node[p]] = NULL
  /\ (\A p \in WProducers : pc[p] # "settail") => next[tail] = NULL

\* No node follows two others, and none is followed by the sentinel.
LinkedOnce ==
  /\ \A m, n \in Nodes : next[m] = next[n] /\ next[m] # NULL => m = n
  /\ \A n \in Nodes : next[n] # 0

\* What is popped: everything before head, and nothing else.
PoppedBefore ==
  /\ Popped \subseteq Nodes /\ head \notin Popped
  /\ \A n \in Popped : next[n] # NULL
  /\ \A n \in Nodes : next[n] \in Popped \cup {head} => n \in Popped

\* What a pop holds.
Popping ==
  \A c \in WConsumers :
    /\ pc[c] \in {"readnext", "advance"} => node[c] = head
    /\ pc[c] = "advance" => newhead[c] = next[head] /\ newhead[c] # NULL
    /\ pc[c] = "delete" => /\ node[c] \in Nodes \ deleted
                           /\ \A d \in WConsumers : pc[d] = "delete" /\ node[d] = node[c] => d = c

WInv == /\ WTypeOK /\ LocksHeld /\ NewNodes /\ ListEnd /\ LinkedOnce
        /\ PoppedBefore /\ Popping

LEMMA InitWInv == WInit => WInv
<1> SUFFICES ASSUME WInit PROVE WInv
  OBVIOUS
<1> USE WorkQueueAssumption DEF WInit, Nodes, NULL, Threads
<1>1. WTypeOK
  BY DEF WTypeOK
<1>2. Popped = {}
  BY DEF Popped
<1>3. LocksHeld
  BY DEF LocksHeld
<1>4. NewNodes
  BY <1>2 DEF NewNodes, Unlinked
<1>5. ListEnd /\ LinkedOnce
  BY DEF ListEnd, LinkedOnce
<1>6. PoppedBefore /\ Popping
  BY <1>2 DEF PoppedBefore, Popping
<1> QED BY <1>1, <1>3, <1>4, <1>5, <1>6 DEF WInv

LEMMA TypeStep == WInv /\ [WNext]_wvars => WTypeOK'
<1> SUFFICES ASSUME WInv, [WNext]_wvars PROVE WTypeOK'
  OBVIOUS
<1> USE WorkQueueAssumption DEF WInv, WTypeOK, Nodes, NULL, Threads, At, wshared
<1>1. ASSUME NEW p \in WProducers, NewNode(p) PROVE WTypeOK'
  BY <1>1 DEF NewNode
<1>2. ASSUME NEW p \in WProducers, PushLock(p) PROVE WTypeOK'
  BY <1>2 DEF PushLock
<1>3. ASSUME NEW p \in WProducers, Link(p) PROVE WTypeOK'
  BY <1>3 DEF Link
<1>4. ASSUME NEW p \in WProducers, SetTail(p) PROVE WTypeOK'
  BY <1>4 DEF SetTail, ListEnd
<1>5. ASSUME NEW c \in WConsumers, PopLock(c) PROVE WTypeOK'
  BY <1>5 DEF PopLock
<1>6. ASSUME NEW c \in WConsumers, ReadNext(c) PROVE WTypeOK'
  BY <1>6, next[node[c]] \in Nodes \cup {NULL} DEF ReadNext, IsLast, Popping
<1>7. ASSUME NEW c \in WConsumers, Advance(c) PROVE WTypeOK'
  BY <1>7 DEF Advance, Popping
<1>8. ASSUME NEW c \in WConsumers, Delete(c) PROVE WTypeOK'
  BY <1>8 DEF Delete, Popping
<1>9. CASE UNCHANGED wvars
  BY <1>9 DEF wvars
<1> QED
  BY <1>1, <1>2, <1>3, <1>4, <1>5, <1>6, <1>7, <1>8, <1>9 DEF WNext

LEMMA StepWInv == WInv /\ [WNext]_wvars => WInv'
<1> SUFFICES ASSUME WInv, [WNext]_wvars PROVE WInv'
  OBVIOUS
<1>t. WTypeOK'
  BY TypeStep
<1>d. /\ \A p \in WProducers : p \in Threads /\ p \notin WConsumers
      /\ \A c \in WConsumers : c \in Threads /\ c \notin WProducers
  BY WorkQueueAssumption DEF Threads
<1>n. NULL \notin Nodes /\ \A n \in Nodes : n \in Nat
  BY WorkQueueAssumption DEF NULL, Nodes
<1>y. /\ DOMAIN pc = Threads /\ node \in [Threads -> Nodes \cup {NULL}]
      /\ newhead \in [Threads -> Nodes \cup {NULL}]
      /\ next \in [Nodes -> Nodes \cup {NULL}] /\ head \in Nodes /\ tail \in Nodes
      /\ allocated \in Nodes
  BY DEF WInv, WTypeOK
<1>a. \A n \in 1..allocated : n \in Nodes /\ n # 0
  BY <1>y, WorkQueueAssumption DEF Nodes
<1> USE DEF WInv, At
<1>1. ASSUME NEW p \in WProducers, NewNode(p) PROVE WInv'
  <2>1. /\ UNCHANGED <<next, head, tail, pushlock, poplock, deleted, newhead>>
        /\ pc[p] = "idle" /\ \A t \in Threads : pc'[t] = IF t = p THEN "pushlock" ELSE pc[t]
        /\ \A t \in Threads : node'[t] = IF t = p THEN allocated + 1 ELSE node[t]
        /\ allocated' = allocated + 1 /\ allocated < MaxNodes
    BY <1>1, <1>d, <1>y DEF NewNode, wshared
  <2>b. allocated + 1 \in Nodes /\ allocated + 1 > allocated /\ allocated \in Nat
    BY <2>1, <1>y, WorkQueueAssumption DEF Nodes
  <2>c. allocated + 1 \in 1..(allocated + 1) /\ \A n \in 1..allocated : n # allocated + 1 /\ n \in 1..(allocated + 1)
    BY <2>b
  <2>e. \A n \in Nodes : n > allocated + 1 => n > allocated
    BY <2>b DEF Nodes
  <2>2. Popped' = Popped
    BY <2>1, <1>d, <1>y DEF Popped
  <2>3. LocksHeld'
    BY <2>1, <1>d, <1>y DEF LocksHeld
  <2>4. NewNodes'
    <3>1. Unlinked(allocated + 1)
      BY <2>b DEF NewNodes
    <3>2. \A n : Unlinked(n)' <=> Unlinked(n)
      BY <2>1, <2>2 DEF Unlinked
    <3>3. \A n \in Nodes : n > allocated' => Unlinked(n)'
      BY <2>1, <2>e, <3>2 DEF NewNodes
    <3>4. ASSUME NEW q \in WProducers, pc'[q] \in {"pushlock", "link"}
          PROVE node'[q] \in 1..allocated' /\ Unlinked(node[q])'
      <4>1. CASE q = p
        BY <4>1, <2>1, <2>c, <3>1, <3>2, <1>d
      <4>2. CASE q # p
        BY <4>2, <3>4, <2>1, <2>c, <3>2, <1>d DEF NewNodes
      <4> QED BY <4>1, <4>2
    <3>5. ASSUME NEW q \in WProducers, NEW o \in WProducers, pc'[q] \in {"pushlock", "link"},
                 pc'[o] \in {"pushlock", "link"}, node'[q] = node'[o]
          PROVE q = o
      BY <3>5, <2>1, <2>c, <1>d DEF NewNodes
    <3> QED BY <3>3, <3>4, <3>5 DEF NewNodes
  <2>5. ListEnd' /\ LinkedOnce'
    BY <2>1, <1>d, <1>y DEF ListEnd, LinkedOnce
  <2>6. PoppedBefore' /\ Popping'
    BY <2>1, <2>2, <1>d, <1>y DEF PoppedBefore, Popping
  <2> QED BY <1>t, <2>3, <2>4, <2>5, <2>6
<1>2. ASSUME NEW p \in WProducers, PushLock(p) PROVE WInv'
  <2>1. /\ UNCHANGED <<next, head, tail, poplock, deleted, newhead, node, allocated>>
        /\ pc[p] = "pushlock" /\ \A t \in Threads : pc'[t] = IF t = p THEN "link" ELSE pc[t]
        /\ pushlock = {} /\ pushlock' = {p}
    BY <1>2, <1>d, <1>y DEF PushLock, PushFree
  <2>2. Popped' = Popped
    BY <2>1, <1>d, <1>y DEF Popped
  <2>3. LocksHeld'
    BY <2>1, <1>d, <1>y DEF LocksHeld
  <2>4. NewNodes'
    <3>1. \A n : Unlinked(n)' <=> Unlinked(n)
      BY <2>1, <2>2 DEF Unlinked
    <3> QED BY <2>1, <3>1, <1>d, <1>y DEF NewNodes
  <2>5. ListEnd' /\ LinkedOnce'
    BY <2>1, <1>d, <1>y DEF ListEnd, LinkedOnce
  <2>6. PoppedBefore' /\ Popping'
    BY <2>1, <2>2, <1>d, <1>y DEF PoppedBefore, Popping
  <2> QED BY <1>t, <2>3, <2>4, <2>5, <2>6
<1>3. ASSUME NEW p \in WProducers, Link(p) PROVE WInv'
  <2>1. /\ UNCHANGED <<head, tail, pushlock, poplock, deleted, newhead, node, allocated>>
        /\ pc[p] = "link" /\ \A t \in Threads : pc'[t] = IF t = p THEN "settail" ELSE pc[t]
        /\ next' = [next EXCEPT ![tail] = node[p]]
    BY <1>3, <1>d, <1>y DEF Link
  <2>2. Popped' = Popped
    BY <2>1, <1>d, <1>y DEF Popped
  <2>a. \A q \in WProducers : pc[q] \in {"link", "settail"} => q = p
    BY <2>1 DEF LocksHeld
  <2>b. next[tail] = NULL /\ tail \in Nodes
    BY <2>1, <2>a, <1>y DEF ListEnd
  <2>c. node[p] \in Nodes /\ node[p] # 0 /\ Unlinked(node[p])
    BY <2>1, <1>a DEF NewNodes
  <2>3. LocksHeld'
    BY <2>1, <1>d, <1>y DEF LocksHeld
  <2>4. NewNodes'
    <3>1. \A n \in Nodes \ {node[p]} : Unlinked(n) => Unlinked(n)'
      BY <2>1, <2>2, <1>y DEF Unlinked
    <3>2. node[p] \in 1..allocated
      BY <2>1 DEF NewNodes
    <3>3. \A n \in Nodes : n > allocated => n # node[p]
      BY <3>2, <1>n, <1>y DEF Nodes
    <3>4. \A n \in Nodes : n > allocated' => Unlinked(n)'
      BY <2>1, <3>1, <3>3 DEF NewNodes
    <3>5. ASSUME NEW q \in WProducers, pc'[q] \in {"pushlock", "link"}
          PROVE q # p /\ node[q] # node[p] /\ node'[q] \in 1..allocated' /\ Unlinked(node[q])'
      BY <2>1, <2>a, <3>1, <3>5, <1>a, <1>d DEF NewNodes
    <3> QED BY <2>1, <3>4, <3>5, <1>d DEF NewNodes
  <2>5. ListEnd'
    <3>1. next'[tail'] = node'[p] /\ next'[node'[p]] = NULL /\ pc'[p] = "settail"
      BY <2>1, <2>b, <2>c, <1>d, <1>y DEF Unlinked
    <3>2. \A q \in WProducers : pc'[q] = "settail" => q = p
      BY <2>1, <2>a, <1>d
    <3> QED BY <2>1, <2>c, <3>1, <3>2 DEF ListEnd
  <2>6. LinkedOnce'
    BY <2>1, <2>b, <2>c, <1>y DEF LinkedOnce, Unlinked
  <2>7. PoppedBefore'
    BY <2>1, <2>2, <2>b, <2>c, <1>y DEF PoppedBefore, Unlinked
  <2>8. Popping'
    BY <2>1, <2>b, <1>d, <1>y DEF Popping
  <2> QED BY <1>t, <2>3, <2>4, <2>5, <2>6, <2>7, <2>8
<1>4. ASSUME NEW p \in WProducers, SetTail(p) PROVE WInv'
  <2>1. /\ UNCHANGED <<next, head, poplock, deleted, newhead, allocated>>
        /\ pc[p] = "settail" /\ \A t \in Threads : pc'[t] = IF t = p THEN "idle" ELSE pc[t]
        /\ tail' = node[p] /\ pushlock' = {} /\ \A t \in Threads : node'[t] = IF t = p THEN NULL ELSE node[t]
    BY <1>4, <1>d, <1>y DEF SetTail
  <2>2. Popped' = Popped
    BY <2>1, <1>d, <1>y DEF Popped
  <2>a. \A q \in WProducers : pc[q] \in {"link", "settail"} => q = p
    BY <2>1 DEF LocksHeld
  <2>b. node[p] \in Nodes /\ next[tail] = node[p] /\ next[node[p]] = NULL /\ tail \in Nodes
    BY <2>1, <1>y DEF ListEnd
  <2>3. LocksHeld'
    BY <2>1, <2>a, <1>d, <1>y DEF LocksHeld
  <2>4. NewNodes'
    <3>1. \A n : Unlinked(n) => Unlinked(n)'
      BY <2>1, <2>2, <2>b DEF Unlinked
    <3> QED BY <2>1, <2>a, <3>1, <1>d, <1>y DEF NewNodes
  <2>5. ListEnd' /\ LinkedOnce'
    <3>1. \A q \in WProducers : pc'[q] # "settail"
      BY <2>1, <2>a, <1>d
    <3> QED BY <2>1, <2>b, <3>1 DEF ListEnd, LinkedOnce
  <2>6. PoppedBefore' /\ Popping'
    BY <2>1, <2>2, <1>d, <1>y DEF PoppedBefore, Popping
  <2> QED BY <1>t, <2>3, <2>4, <2>5, <2>6
<1>5. ASSUME NEW c \in WConsumers, PopLock(c) PROVE WInv'
  <2>1. /\ UNCHANGED <<next, head, tail, pushlock, deleted, newhead, allocated>>
        /\ pc[c] = "idle" /\ \A t \in Threads : pc'[t] = IF t = c THEN "readnext" ELSE pc[t]
        /\ poplock = {} /\ poplock' = {c} /\ \A t \in Threads : node'[t] = IF t = c THEN head ELSE node[t]
    BY <1>5, <1>d, <1>y DEF PopLock
  <2>2. Popped' = Popped
    BY <2>1, <1>d, <1>y DEF Popped
  <2>3. LocksHeld'
    BY <2>1, <1>d, <1>y DEF LocksHeld
  <2>4. NewNodes'
    <3>1. \A n : Unlinked(n)' <=> Unlinked(n)
      BY <2>1, <2>2 DEF Unlinked
    <3> QED BY <2>1, <3>1, <1>d, <1>y DEF NewNodes
  <2>5. ListEnd' /\ LinkedOnce'
    BY <2>1, <1>d, <1>y DEF ListEnd, LinkedOnce
  <2>6. PoppedBefore' /\ Popping'
    BY <2>1, <2>2, <1>d, <1>y DEF PoppedBefore, Popping
  <2> QED BY <1>t, <2>3, <2>4, <2>5, <2>6
<1>6. ASSUME NEW c \in WConsumers, ReadNext(c) PROVE WInv'
  <2>1. /\ UNCHANGED <<next, head, tail, pushlock, deleted, allocated>>
        /\ pc[c] = "readnext" /\ node[c] = head
        /\ \A t \in Threads \ {c} : pc'[t] = pc[t] /\ node'[t] = node[t] /\ newhead'[t] = newhead[t]
        /\ IF next[head] = NULL
           THEN pc'[c] = "idle" /\ poplock' = {} /\ newhead' = newhead
           ELSE pc'[c] = "advance" /\ poplock' = poplock /\ node'[c] = head /\ newhead'[c] = next[head]
    BY <1>6, <1>d, <1>y DEF ReadNext, IsLast, Popping
  <2>2. Popped' = Popped
    BY <2>1, <1>d, <1>y DEF Popped
  <2>a. \A d \in WConsumers : pc[d] \in {"readnext", "advance"} => d = c
    BY <2>1 DEF LocksHeld
  <2>3. LocksHeld'
    BY <2>1, <2>a, <1>d, <1>y DEF LocksHeld
  <2>4. NewNodes'
    <3>1. \A n : Unlinked(n)' <=> Unlinked(n)
      BY <2>1, <2>2 DEF Unlinked
    <3> QED BY <2>1, <3>1, <1>d, <1>y DEF NewNodes
  <2>5. ListEnd' /\ LinkedOnce'
    BY <2>1, <1>d, <1>y DEF ListEnd, LinkedOnce
  <2>6. PoppedBefore' /\ Popping'
    BY <2>1, <2>2, <1>d, <1>y DEF PoppedBefore, Popping
  <2> QED BY <1>t, <2>3, <2>4, <2>5, <2>6
<1>7. ASSUME NEW c \in WConsumers, Advance(c) PROVE WInv'
  <2>1. /\ UNCHANGED <<next, tail, pushlock, deleted, allocated, node>>
        /\ pc[c] = "advance" /\ \A t \in Threads : pc'[t] = IF t = c THEN "delete" ELSE pc[t]
        /\ node[c] = head /\ head \in Nodes
        /\ head' = next[head] /\ next[head] # NULL /\ next[head] \in Nodes
        /\ poplock' = {} /\ \A t \in Threads \ {c} : newhead'[t] = newhead[t]
    BY <1>7, <1>y DEF Advance, Popping
  <2>2. Popped' = Popped \cup {head}
    <3>1. \A d \in WConsumers : pc'[d] = "delete" <=> d = c \/ pc[d] = "delete"
      BY <2>1, <1>d
    <3> QED BY <2>1, <3>1 DEF Popped
  <2>a. \A d \in WConsumers : pc[d] \in {"readnext", "advance"} => d = c
    BY <2>1 DEF LocksHeld
  <2>3. LocksHeld'
    BY <2>1, <2>a, <1>d, <1>y DEF LocksHeld
  <2>4. NewNodes'
    <3>1. \A n : Unlinked(n) => Unlinked(n)'
      BY <2>1, <2>2 DEF Unlinked
    <3> QED BY <2>1, <3>1, <1>d, <1>y DEF NewNodes
  <2>5. ListEnd' /\ LinkedOnce'
    BY <2>1, <1>d, <1>y DEF ListEnd, LinkedOnce
  <2>6. PoppedBefore'
    BY <2>1, <2>2 DEF PoppedBefore, LinkedOnce
  <2>7. Popping'
    <3>1. \A d \in WConsumers : pc[d] = "delete" => node[d] \in Popped
      BY DEF Popped
    <3>2. head \notin Popped /\ head \notin deleted
      BY DEF PoppedBefore, Popped
    <3>3. \A d \in WConsumers : pc'[d] \notin {"readnext", "advance"}
      BY <2>1, <2>a, <1>d
    <3>4. \A d \in WConsumers : pc'[d] = "delete" <=> d = c \/ pc[d] = "delete"
      BY <2>1, <1>d
    <3> QED BY <2>1, <3>1, <3>2, <3>3, <3>4 DEF Popping
  <2> QED BY <1>t, <2>3, <2>4, <2>5, <2>6, <2>7
<1>8. ASSUME NEW c \in WConsumers, Delete(c) PROVE WInv'
  <2>1. /\ UNCHANGED <<next, head, tail, pushlock, poplock, allocated, newhead>>
        /\ pc[c] = "delete" /\ \A t \in Threads : pc'[t] = IF t = c THEN "idle" ELSE pc[t]
        /\ deleted' = deleted \cup {node[c]} /\ \A t \in Threads : node'[t] = IF t = c THEN NULL ELSE node[t]
    BY <1>8, <1>d, <1>y DEF Delete, wshared
  <2>2. Popped' = Popped
    BY <2>1, <1>d, <1>y DEF Popped
  <2>3. LocksHeld'
    BY <2>1, <1>d, <1>y DEF LocksHeld
  <2>4. NewNodes'
    <3>1. \A n : Unlinked(n)' <=> Unlinked(n)
      BY <2>1, <2>2 DEF Unlinked
    <3> QED BY <2>1, <3>1, <1>d, <1>y DEF NewNodes
  <2>5. ListEnd' /\ LinkedOnce'
    BY <2>1, <1>d, <1>y DEF ListEnd, LinkedOnce
  <2>6. PoppedBefore'
    BY <2>1, <2>2 DEF PoppedBefore
  <2>7. Popping'
    BY <2>1, <1>d, <1>y DEF Popping
  <2> QED BY <1>t, <2>3, <2>4, <2>5, <2>6, <2>7
<1>9. CASE UNCHANGED wvars
  BY <1>t, <1>9 DEF wvars, wshared, LocksHeld, NewNodes, Unlinked, ListEnd, LinkedOnce,
                    PoppedBefore, Popping, Popped
<1> QED
  BY <1>1, <1>2, <1>3, <1>4, <1>5, <1>6, <1>7, <1>8, <1>9 DEF WNext

LEMMA WInvariant == WSpec => []WInv
BY InitWInv, StepWInv, PTL DEF WSpec

\* However pushes and pops interleave under their separate locks, no thread
\* reads, writes or frees a node that a pop has given back: tail is followed
\* only while its next is NULL, and popped nodes have a successor.
THEOREM FreedNodesUntouched == WSpec => []NoFreedNodeUsed
<1>1. WInv => NoFreedNodeUsed
  <2> SUFFICES ASSUME WInv PROVE NoFreedNodeUsed
    OBVIOUS
  <2> USE DEF WInv
  <2>1. ASSUME NEW p \in WProducers, pc[p] = "link" PROVE tail \notin deleted
    <3>1. \A q \in WProducers : pc[q] # "settail"
      BY <2>1 DEF LocksHeld
    <3> QED BY <3>1 DEF ListEnd, PoppedBefore, Popped
  <2>2. ASSUME NEW c \in WConsumers, pc[c] \in {"readnext", "delete"} PROVE node[c] \notin deleted
    BY <2>2 DEF Popping, PoppedBefore, Popped
  <2>3. ASSUME NEW c \in WConsumers, pc[c] = "advance" PROVE newhead[c] \notin deleted
    BY <2>3 DEF Popping, PoppedBefore, Popped, WTypeOK
  <2> QED BY <2>1, <2>2, <2>3 DEF NoFreedNodeUsed, Accesses
<1> QED BY <1>1, WInvariant, PTL
-----------------------------------------------------------------------------
(* The refinement of Fifo.  The list from head on is l[0], l[1], ..., l[n];*)
(* its first node is already popped, so Contents is l[1], ..., l[n].       *)

\* A set of naturals that is not empty has a least member.
LEMMA LeastNat ==
  ASSUME NEW T \in SUBSET Nat, T # {}
  PROVE  \E n \in T : \A m \in T : n <= m
<1>1. PICK n \in T : \A m \in T : ~ (<<m, n>> \in OpToRel(<, Nat))
  BY WFMin, NatLessThanWellFounded, Zenon
<1>2. \A m \in T : ~ (m < n)
  <2> TAKE m \in T
  <2>1. <<m, n>> \in Nat \X Nat
    OBVIOUS
  <2>2. <<m, n>>[1] = m /\ <<m, n>>[2] = n
    OBVIOUS
  <2> QED BY <1>1, <2>1, <2>2 DEF OpToRel
<1> QED BY <1>2

\* l[0], ..., l[n] is the list that starts at head and ends with the last node linked.
IsList(n, l) ==
  /\ n \in Nat /\ l \in [0..n -> Nodes]
  /\ l[0] = head /\ \A i \in 1..n : next[l[i - 1]] = l[i]
  /\ next[l[n]] = NULL /\ l[n] = IF next[tail] = NULL THEN tail ELSE next[tail]
  /\ \A i, j \in 0..n : l[i] = l[j] => i = j

\* Such a list there always is.
HasList == \E n, l : IsList(n, l)

LEMMA ListBounded ==
  ASSUME NEW n, NEW l, IsList(n, l)
  PROVE  n <= MaxNodes
<1> DEFINE f == [i \in 1..(n + 1) |-> l[i - 1] + 1]
<1>1. n \in Nat /\ n + 1 \in Nat /\ MaxNodes + 1 \in Nat
  BY WorkQueueAssumption DEF IsList
<1>2. \A i \in 1..(n + 1) : i - 1 \in 0..n /\ l[i - 1] \in 0..MaxNodes
  BY <1>1 DEF IsList, Nodes
<1>3. f \in [1..(n + 1) -> 1..(MaxNodes + 1)]
  BY <1>1, <1>2, WorkQueueAssumption
<1>4. \A i, j \in 1..(n + 1) : f[i] = f[j] => i = j
  <2> TAKE i, j \in 1..(n + 1)
  <2> HAVE f[i] = f[j]
  <2>1. l[i - 1] = l[j - 1]
    BY <1>2, WorkQueueAssumption
  <2>2. i - 1 = j - 1
    BY <2>1, <1>2 DEF IsList
  <2> QED BY <2>2, <1>1
<1>5. f \in Injection(1..(n + 1), 1..(MaxNodes + 1))
  BY <1>3, <1>4 DEF Injection, IsInjective
<1>6. n + 1 <= MaxNodes + 1
  BY <1>1, <1>5, Fun_NatInjLeq DEF ExistsInjection
<1> QED BY <1>1, <1>6, WorkQueueAssumption

\* Behind follows the list, and Contents is all of it but its first node.
ContentsFollow == \A n, l : IsList(n, l) => Contents = [k \in 1..n |-> l[k]]

LEMMA ContentsOfList == ContentsFollow
<1> SUFFICES ASSUME NEW n, NEW l, IsList(n, l) PROVE Contents = [k \in 1..n |-> l[k]]
  BY DEF ContentsFollow
<1> DEFINE G == [k \in 0..MaxNodes |-> IF k <= n THEN l[k] ELSE NULL]
<1>n. n \in Nat /\ MaxNodes \in Nat /\ n <= MaxNodes /\ NULL \notin Nodes
  <2>1. n <= MaxNodes
    BY ListBounded
  <2> QED BY <2>1, WorkQueueAssumption DEF IsList, Nodes, NULL
<1>l. \A k \in 0..n : l[k] \in Nodes /\ l[k] # NULL
  BY <1>n DEF IsList
<1>1. G = [k \in 0..MaxNodes |-> IF k = 0 THEN head ELSE After(G[k - 1])]
  <2> SUFFICES ASSUME NEW k \in 0..MaxNodes
               PROVE G[k] = IF k = 0 THEN head ELSE After(G[k - 1])
    OBVIOUS
  <2>1. CASE k = 0
    BY <2>1, <1>n DEF IsList
  <2>2. CASE k # 0 /\ k <= n
    <3>1. k \in 1..n /\ k - 1 \in 0..n /\ k - 1 \in 0..MaxNodes /\ k - 1 <= n
      BY <2>2, <1>n
    <3>2. G[k] = l[k] /\ G[k - 1] = l[k - 1]
      BY <3>1, <2>2
    <3>3. next[l[k - 1]] = l[k] /\ l[k - 1] # NULL
      BY <3>1, <1>l DEF IsList
    <3> QED BY <2>2, <3>2, <3>3 DEF After
  <2>3. CASE k # 0 /\ ~ (k <= n) /\ k - 1 = n
    <3>1. k - 1 \in 0..n /\ k - 1 \in 0..MaxNodes /\ k - 1 <= n
      BY <2>3, <1>n
    <3>2. G[k] = NULL /\ G[k - 1] = l[n]
      BY <3>1, <2>3
    <3> QED BY <2>3, <3>2, <1>l, <1>n DEF After, IsList
  <2>4. CASE k # 0 /\ ~ (k <= n) /\ k - 1 # n
    <3>1. k - 1 \in 0..MaxNodes /\ ~ (k - 1 <= n)
      BY <2>4, <1>n
    <3>2. G[k] = NULL /\ G[k - 1] = NULL
      BY <3>1, <2>4
    <3> QED BY <2>4, <3>2 DEF After
  <2> QED BY <2>1, <2>2, <2>3, <2>4
<1>2. Behind = [k \in 0..MaxNodes |-> IF k = 0 THEN head ELSE After(Behind[k - 1])]
  <2> DEFINE Rec(g) == g = [k \in 0..MaxNodes |-> IF k = 0 THEN head ELSE After(g[k - 1])]
  <2>1. Rec(G)
    BY <1>1
  <2>2. Behind = CHOOSE g : Rec(g)
    BY DEF Behind
  <2> HIDE DEF Rec, G
  <2>3. Rec(Behind)
    BY <2>1, <2>2
  <2> QED BY <2>3 DEF Rec
<1> HIDE DEF G
<1>3. \A k \in 0..MaxNodes : Behind[k] = G[k]
  <2> DEFINE Bad == {k \in 0..MaxNodes : Behind[k] # G[k]}
  <2> SUFFICES ASSUME Bad # {} PROVE FALSE
    OBVIOUS
  <2>1. PICK k \in Bad : \A m \in Bad : k <= m
    <3>1. Bad \in SUBSET Nat
      OBVIOUS
    <3> HIDE DEF Bad
    <3> QED BY <3>1, LeastNat
  <2>2. k # 0
    BY <1>1, <1>2, <1>n
  <2>3. k - 1 \in 0..MaxNodes /\ k - 1 \notin Bad
    BY <2>1, <2>2, <1>n
  <2>4. Behind[k - 1] = G[k - 1]
    BY <2>3
  <2> QED BY <2>2, <2>4, <1>1, <1>2
<1>4. {j \in 1..MaxNodes : Behind[j] # NULL} = 1..n
  <2>1. \A j \in 1..MaxNodes : Behind[j] = IF j <= n THEN l[j] ELSE NULL
    BY <1>3, <1>n DEF G
  <2>2. \A j \in 1..MaxNodes : j <= n <=> j \in 1..n
    BY <1>n
  <2>3. \A j \in 1..n : j \in 1..MaxNodes /\ l[j] # NULL
    BY <1>l, <1>n
  <2> QED BY <2>1, <2>2, <2>3
<1>5. Cardinality(1..n) = n
  BY FS_Interval, <1>n
<1>6. \A k \in 1..n : Behind[k] = l[k]
  BY <1>3, <1>n DEF G
<1> QED BY <1>4, <1>5, <1>6 DEF Contents

\* A step of Fifo, or one that it does not see.
FifoStep == [WFifo!Dequeue \/ \E e \in Nodes : WFifo!Enqueue(e)]_(WFifo!vars)

LEMMA InitList == WInit => HasList /\ WFifo!Init
<1> SUFFICES ASSUME WInit PROVE HasList /\ WFifo!Init
  OBVIOUS
<1>1. IsList(0, [i \in 0..0 |-> 0])
  BY WorkQueueAssumption DEF IsList, WInit, Nodes, NULL
<1>2. Contents = [k \in 1..0 |-> [i \in 0..0 |-> 0][k]]
  BY <1>1, ContentsOfList DEF ContentsFollow
<1>3. Contents = <<>>
  BY <1>2
<1> QED BY <1>1, <1>3 DEF HasList, WFifo!Init, WInit

\* What the list is after a step that leaves next, head and the end of the list alone.
LEMMA SameList ==
  ASSUME HasList, UNCHANGED <<next, head, result>>,
         (IF next[tail] = NULL THEN tail ELSE next[tail])'
            = IF next[tail] = NULL THEN tail ELSE next[tail]
  PROVE  HasList' /\ FifoStep
<1>1. PICK n, l : IsList(n, l)
  BY DEF HasList
<1>2. IsList(n, l)'
  BY <1>1 DEF IsList
<1>3. ContentsFollow /\ ContentsFollow'
  BY ContentsOfList, PTL
<1>4. Contents' = Contents
  <2>1. Contents = [k \in 1..n |-> l[k]]
    BY <1>1, <1>3 DEF ContentsFollow
  <2>2. Contents' = [k \in 1..n |-> l[k]]
    BY <1>2, <1>3 DEF ContentsFollow
  <2> QED BY <2>1, <2>2
<1> QED BY <1>2, <1>4 DEF HasList, FifoStep, WFifo!vars

\* Link appends the new node to the contents, Advance takes the first node off,
\* and no other step of a push or a pop is seen.
LEMMA StepList == WInv /\ WInv' /\ HasList /\ [WNext]_wvars => HasList' /\ FifoStep
<1> SUFFICES ASSUME WInv, WInv', HasList, [WNext]_wvars PROVE HasList' /\ FifoStep
  OBVIOUS
<1>c. ContentsFollow /\ ContentsFollow'
  BY ContentsOfList, PTL
<1>n. NULL \notin Nodes /\ \A n \in Nodes : n \in Nat
  BY WorkQueueAssumption DEF NULL, Nodes
<1>y. /\ next \in [Nodes -> Nodes \cup {NULL}] /\ head \in Nodes /\ tail \in Nodes
  BY DEF WInv, WTypeOK
<1>p. PICK n, l : IsList(n, l)
  BY DEF HasList
<1>q. /\ n \in Nat /\ l \in [0..n -> Nodes] /\ n \in 0..n /\ 0 \in 0..n
      /\ n + 1 \in 0..(n + 1) /\ \A i \in 0..n : i \in 0..(n + 1) /\ i # n + 1
  BY <1>p DEF IsList
<1>s. Contents = [k \in 1..n |-> l[k]]
  BY <1>p, <1>c DEF ContentsFollow
<1>1. ASSUME NEW p \in WProducers, Link(p) PROVE HasList' /\ FifoStep
  <2>e. PICK e : e = node[p]
    OBVIOUS
  <2> DEFINE m == [i \in 0..(n + 1) |-> IF i = n + 1 THEN e ELSE l[i]]
  <2>1. pc[p] = "link" /\ UNCHANGED <<head, tail, result>> /\ next' = [next EXCEPT ![tail] = e]
    BY <1>1, <2>e DEF Link, At
  <2>2. next[tail] = NULL
    BY <2>1 DEF WInv, LocksHeld, ListEnd
  <2>3. e \in Nodes /\ Unlinked(e)
    <3>1. e \in 1..allocated /\ Unlinked(e)
      BY <2>1, <2>e DEF WInv, NewNodes
    <3>2. allocated \in Nodes
      BY DEF WInv, WTypeOK
    <3> QED BY <3>1, <3>2, WorkQueueAssumption DEF Nodes
  <2>4. l[n] = tail
    BY <2>2, <1>p DEF IsList
  <2>5. \A i \in 0..n : l[i] \in Nodes /\ l[i] # e /\ (i # n => l[i] # tail)
    <3> TAKE i \in 0..n
    <3>1. l[i] \in Nodes /\ (i # n => l[i] # tail)
      BY <2>4, <1>p, <1>q DEF IsList
    <3>2. CASE i = 0
      BY <3>1, <3>2, <2>3, <1>p DEF IsList, Unlinked
    <3>3. CASE i # 0
      <4>1. i \in 1..n /\ i - 1 \in 0..n
        BY <3>3, <1>q
      <4> QED BY <4>1, <3>1, <2>3, <1>p, <1>q DEF IsList, Unlinked
    <3> QED BY <3>2, <3>3
  <2>6. m \in [0..(n + 1) -> Nodes] /\ m[n + 1] = e /\ \A i \in 0..n : m[i] = l[i]
    BY <2>3, <1>q
  <2> HIDE DEF m
  <2>7. m[0] = head'
    BY <2>1, <2>6, <1>p, <1>q DEF IsList
  <2>8. ASSUME NEW i \in 1..(n + 1) PROVE next'[m[i - 1]] = m[i]
    <3>1. CASE i = n + 1
      <4>1. i - 1 = n
        BY <3>1, <1>q
      <4> QED BY <3>1, <4>1, <2>1, <2>4, <2>6, <1>q, <1>y
    <3>2. CASE i # n + 1
      <4>1. i \in 1..n /\ i \in 0..n /\ i - 1 \in 0..n /\ i - 1 # n
        BY <3>2, <1>q
      <4>2. next[l[i - 1]] = l[i] /\ l[i - 1] # tail /\ l[i - 1] \in Nodes
        BY <4>1, <2>5, <1>p DEF IsList
      <4> QED BY <4>1, <4>2, <2>1, <2>6, <1>y
    <3> QED BY <3>1, <3>2
  <2>9. next'[e] = NULL /\ e # tail /\ next'[tail] = e /\ e # NULL
    BY <2>1, <2>3, <1>n, <1>y DEF Unlinked
  <2>10. \A i, j \in 0..(n + 1) : m[i] = m[j] => i = j
    <3>1. \A i \in 0..(n + 1) : i = n + 1 \/ i \in 0..n
      BY <1>q
    <3> QED BY <3>1, <2>5, <2>6, <1>p DEF IsList
  <2>11. IsList(n + 1, m)'
    <3>1. n + 1 \in Nat
      BY <1>q
    <3> QED BY <3>1, <2>1, <2>6, <2>7, <2>8, <2>9, <2>10 DEF IsList
  <2>12. Contents' = [i \in 1..(n + 1) |-> m[i]]
    BY <2>11, <1>c DEF ContentsFollow
  <2>13. Contents' = Append(Contents, e)
    <3>1. Contents \in Seq(Nodes) /\ Len(Contents) = n /\ \A i \in 1..n : Contents[i] = l[i]
      BY <1>s, <1>q
    <3>2. \A i \in 1..n : i \in 0..n
      BY <1>q
    <3>3. /\ Append(Contents, e) \in Seq(Nodes) /\ Len(Append(Contents, e)) = n + 1
          /\ Append(Contents, e)[n + 1] = e /\ \A i \in 1..n : Append(Contents, e)[i] = l[i]
      BY <3>1, <2>3, AppendProperties
    <3>4. Contents' \in Seq(Nodes) /\ Len(Contents') = n + 1
      BY <2>6, <2>12, <1>q
    <3>5. \A i \in 1..(n + 1) : Contents'[i] = Append(Contents, e)[i]
      <4>1. \A i \in 1..(n + 1) : i = n + 1 \/ i \in 1..n
        BY <1>q
      <4> QED BY <4>1, <3>2, <3>3, <2>6, <2>12
    <3> QED BY <3>3, <3>4, <3>5, SeqEqual
  <2> QED BY <2>1, <2>3, <2>11, <2>13 DEF HasList, FifoStep, WFifo!Enqueue
<1>2. ASSUME NEW c \in WConsumers, Advance(c) PROVE HasList' /\ FifoStep
  <2> DEFINE m == [i \in 0..(n - 1) |-> l[i + 1]]
  <2>1. /\ UNCHANGED <<next, tail>> /\ head' = next[head] /\ next[head] # NULL
        /\ result' = next[head]
    BY <1>2 DEF Advance, PoppedValue, At, WInv, Popping
  <2>2. n # 0
    BY <2>1, <1>p DEF IsList
  <2>3. /\ n - 1 \in Nat /\ \A i \in 0..(n - 1) : i + 1 \in 0..n /\ i + 1 \in 1..n /\ (i + 1) - 1 = i
        /\ n - 1 \in 0..(n - 1) /\ 0 \in 0..(n - 1) /\ (n - 1) + 1 = n /\ 1 \in 1..n
    BY <2>2, <1>q
  <2>4. m \in [0..(n - 1) -> Nodes] /\ \A i \in 0..(n - 1) : m[i] = l[i + 1]
    BY <2>3, <1>q
  <2> HIDE DEF m
  <2>5. next[head] = l[1] /\ m[0] = l[1]
    BY <2>3, <2>4, <1>p DEF IsList
  <2>6. ASSUME NEW i \in 1..(n - 1) PROVE next[m[i - 1]] = m[i]
    <3>1. i \in 0..(n - 1) /\ i - 1 \in 0..(n - 1) /\ i + 1 \in 1..n /\ (i + 1) - 1 = i /\ (i - 1) + 1 = i
      BY <2>3, <1>q
    <3> QED BY <3>1, <2>4, <1>p DEF IsList
  <2>7. m[n - 1] = l[n]
    BY <2>3, <2>4
  <2>8. \A i, j \in 0..(n - 1) : m[i] = m[j] => i = j
    <3> TAKE i, j \in 0..(n - 1)
    <3> HAVE m[i] = m[j]
    <3>1. i + 1 \in 0..n /\ j + 1 \in 0..n /\ l[i + 1] = l[j + 1]
      BY <2>3, <2>4
    <3>2. i + 1 = j + 1
      BY <3>1, <1>p DEF IsList
    <3> QED BY <3>2
  <2>9. IsList(n - 1, m)'
    BY <2>1, <2>3, <2>4, <2>5, <2>6, <2>7, <2>8, <1>p DEF IsList
  <2>10. Contents' = [i \in 1..(n - 1) |-> m[i]]
    BY <2>9, <1>c DEF ContentsFollow
  <2>11. Contents \in Seq(Nodes) /\ Len(Contents) = n /\ \A i \in 1..n : Contents[i] = l[i]
    BY <1>s, <1>q
  <2>12. Contents # <<>> /\ Head(Contents) = l[1]
    BY <2>11, <2>2, <2>3
  <2>13. Contents' = Tail(Contents)
    <3>1. \A i \in 1..(n - 1) : m[i] = Contents[i + 1]
      BY <2>3, <2>4, <2>11
    <3>2. /\ Tail(Contents) \in Seq(Nodes) /\ Len(Tail(Contents)) = n - 1
          /\ \A i \in 1..(n - 1) : Tail(Contents)[i] = Contents[i + 1]
      BY <2>11, <2>12, HeadTailProperties
    <3>3. Contents' \in Seq(Nodes) /\ Len(Contents') = n - 1
      BY <2>3, <2>4, <2>10
    <3> QED BY <3>1, <3>2, <3>3, <2>10, SeqEqual
  <2> QED BY <2>1, <2>5, <2>9, <2>12, <2>13 DEF HasList, FifoStep, WFifo!Dequeue
<1>3. ASSUME NEW p \in WProducers, SetTail(p) PROVE HasList' /\ FifoStep
  <2>1. pc[p] = "settail" /\ UNCHANGED <<next, head, result>> /\ tail' = node[p]
    BY <1>3 DEF SetTail, At
  <2>2. node[p] \in Nodes /\ next[tail] = node[p] /\ next[node[p]] = NULL
    BY <2>1 DEF WInv, ListEnd
  <2> QED BY <2>1, <2>2, <1>n, SameList
<1>4. CASE UNCHANGED <<next, head, tail, result>>
  BY <1>4, SameList
<1>5. CASE UNCHANGED wvars
  BY <1>4, <1>5 DEF wvars, wshared
<1> QED
  BY <1>1, <1>2, <1>3, <1>4, <1>5
  DEF WNext, NewNode, PushLock, PopLock, ReadNext, Delete, wshared

\* WorkQueue implements a FIFO: whatever the threads do under the two locks,
\* values leave once, in the order in which their nodes were linked.
THEOREM WorkQueueRefinesFifo == WSpec => WorkQueueIsFifo
<1>1. WInv /\ HasList /\ [WNext]_wvars => (WInv /\ HasList)' /\ FifoStep
  BY StepWInv, StepList
<1>2. WInit => WInv /\ HasList /\ WFifo!Init
  BY InitWInv, InitList
<1>3. FifoStep => [WFifo!Dequeue \/ \E e \in Nodes : WFifo!Enqueue(e)]_(WFifo!vars)
  BY DEF FifoStep
<1> QED BY <1>1, <1>2, <1>3, PTL DEF WSpec, WorkQueueIsFifo, WFifo!Spec
-----------------------------------------------------------------------------
(* SpinList.  Nodes are linked in the order of their allocation and taken  *)
(* in that order, so that the two lists are two intervals of numbers: from *)
(* popped + 1 to m the mover's own, from m + 1 to Linked the shared one.   *)

\* The node that is allocated but not yet linked does not count.
Linked == IF \E t \in LThreads : stpc[t] = "link" THEN fresh - 1 ELSE fresh

\* The types; who is inside push or pop holds the lock.
LTypes ==
  /\ lnext \in [{None} \cup LNodes -> {None} \cup LNodes] /\ lpre \in [{None} \cup LNodes -> {None} \cup LNodes]
  /\ lhead \in [Lists -> {None} \cup LNodes] /\ ltail \in [Lists -> {None} \cup LNodes]
  /\ stpc \in [LThreads -> {"idle", "link", "head", "unlink"}] /\ stnode \in [LThreads -> {None} \cup LNodes]
  /\ fresh \in 0 .. LMaxNodes /\ popped \in {None} \cup LNodes /\ freed = 1 .. popped
  /\ lock \in SUBSET LThreads /\ \A t, u \in lock : t = u
  /\ \A t \in LThreads : t \in lock <=> stpc[t] # "idle"
  /\ usage \in {"pop", "move"}

\* Where the two lists begin and end, the second at m.  Between its two steps
\* push has set the tail or the links, and not yet the head.
Ends(m) ==
  /\ m \in Nat /\ popped <= m /\ m <= Linked /\ Linked \in 0 .. LMaxNodes
  /\ usage = "pop" => m = popped
  /\ ltail["own"] = IF popped < m THEN popped + 1 ELSE None
  /\ lhead["own"] = IF popped < m THEN m ELSE None
  /\ ltail["shared"] = IF m < Linked THEN m + 1 ELSE None
  /\ (\A t \in LThreads : stpc[t] # "head") => lhead["shared"] = IF m < Linked THEN Linked ELSE None
  /\ \A t \in LThreads : stpc[t] = "head" =>
       m < Linked /\ lhead["shared"] = IF m < Linked - 1 THEN Linked - 1 ELSE None

\* The links of the two lists and of the nodes that are not yet linked.
Links(m) ==
  /\ \A n \in popped + 1 .. Linked : lpre[n] = IF n = m \/ n = Linked THEN None ELSE n + 1
  /\ \A n \in popped + 1 .. Linked : lnext[n] = IF n = popped + 1 \/ n = m + 1 THEN None ELSE n - 1
  /\ \A n \in Linked + 1 .. LMaxNodes : lpre[n] = None /\ lnext[n] = None

\* The node that a push or a pop holds.
InHand(m) ==
  /\ \A t \in LThreads : stpc[t] = "link" => stnode[t] = fresh /\ fresh = Linked + 1
  /\ \A t \in LThreads : stpc[t] = "head" => stnode[t] = Linked
  /\ \A t \in LThreads : stpc[t] = "unlink" =>
       usage = "pop" /\ m < Linked /\ stnode[t] = IF m + 1 = Linked THEN None ELSE m + 2

LInv == LTypes /\ \E m \in 0 .. LMaxNodes : Ends(m) /\ Links(m) /\ InHand(m)

\* A thread that is inside push or pop is alone there.
LEMMA AloneInside ==
  ASSUME LTypes, NEW t \in LThreads, stpc[t] # "idle"
  PROVE  lock = {t} /\ \A u \in LThreads \ {t} : stpc[u] = "idle"
  BY DEF LTypes

\* The thread t goes on, the others stay idle.
Alone(t, from, to) ==
  /\ stpc[t] = from /\ stpc'[t] = to
  /\ \A u \in LThreads \ {t} : stpc[u] = "idle" /\ stpc'[u] = "idle"
  /\ stpc' \in [LThreads -> {"idle", "link", "head", "unlink"}]
  /\ lock' \in SUBSET LThreads /\ \A u, v \in lock' : u = v
  /\ \A u \in LThreads : u \in lock' <=> stpc'[u] # "idle"

LEMMA AloneMoves ==
  ASSUME LTypes, NEW t \in LThreads, NEW from, NEW to \in {"idle", "link", "head", "unlink"},
         Moves(t, from, to), from = "idle" => LockFree,
         lock' = IF to = "idle" THEN {} ELSE {t}
  PROVE  Alone(t, from, to)
<1>1. /\ stpc \in [LThreads -> {"idle", "link", "head", "unlink"}]
      /\ \A u \in LThreads : u \in lock <=> stpc[u] # "idle"
      /\ \A u, v \in lock : u = v
  BY DEF LTypes
<1>2. stpc[t] = from /\ stpc'[t] = to /\ \A u \in LThreads \ {t} : stpc'[u] = stpc[u]
  BY <1>1 DEF Moves
<1>3. \A u \in LThreads \ {t} : stpc[u] = "idle"
  BY <1>1, <1>2 DEF LockFree
<1>4. stpc' \in [LThreads -> {"idle", "link", "head", "unlink"}]
  BY <1>1 DEF Moves
<1> QED BY <1>2, <1>3, <1>4 DEF Alone

LEMMA LinkedIs ==
  ASSUME NEW t \in LThreads, NEW from, NEW to, Alone(t, from, to)
  PROVE  /\ Linked = IF from = "link" THEN fresh - 1 ELSE fresh
         /\ Linked' = IF to = "link" THEN fresh' - 1 ELSE fresh'
<1>1. (\E u \in LThreads : stpc[u] = "link") <=> from = "link"
  BY DEF Alone
<1>2. (\E u \in LThreads : stpc'[u] = "link") <=> to = "link"
  BY DEF Alone
<1> QED BY <1>1, <1>2 DEF Linked

\* The parts of the invariant that a step of push or pop has to be looked at for.
SpinFacts ==
  /\ lnext \in [{None} \cup LNodes -> {None} \cup LNodes] /\ lpre \in [{None} \cup LNodes -> {None} \cup LNodes]
  /\ lhead \in [Lists -> {None} \cup LNodes] /\ ltail \in [Lists -> {None} \cup LNodes]
  /\ stnode \in [LThreads -> {None} \cup LNodes]
  /\ fresh \in 0 .. LMaxNodes /\ popped \in {None} \cup LNodes /\ popped \in Nat /\ freed = 1 .. popped
  /\ usage \in {"pop", "move"} /\ LMaxNodes \in Nat

LEMMA SpinFactsHold == LTypes => SpinFacts
  BY SpinListAssumption DEF LTypes, SpinFacts, None, LNodes

LEMMA BeginLInv ==
  ASSUME LInv, NEW t \in LThreads, PushBegin(t)
  PROVE  LInv' /\ Linked' = Linked /\ popped' = popped
<1>1. LTypes
  BY DEF LInv
<1>2. Alone(t, "idle", "link")
  BY <1>1, AloneMoves DEF PushBegin
<1>3. Linked = fresh /\ Linked' = fresh' - 1 /\ fresh' = fresh + 1
  BY <1>2, LinkedIs DEF PushBegin
<1>4. SpinFacts
  BY <1>1, SpinFactsHold
<1>5. Linked' = Linked /\ fresh' = Linked' + 1 /\ fresh' \in 0 .. LMaxNodes /\ fresh' \in LNodes
  BY <1>3, <1>4 DEF SpinFacts, PushBegin, LNodes
<1>6. stnode' \in [LThreads -> {None} \cup LNodes] /\ stnode'[t] = fresh'
  BY <1>4, <1>3, <1>5 DEF PushBegin, SpinFacts
<1>7. UNCHANGED <<links, freed, popped, usage>>
  BY DEF PushBegin
<1>8. LTypes'
  BY <1>2, <1>4, <1>5, <1>6, <1>7 DEF LTypes, Alone, SpinFacts, links
<1>9. PICK m \in 0 .. LMaxNodes : Ends(m) /\ Links(m) /\ InHand(m)
  BY DEF LInv
<1>10. Ends(m)'
  <2>1. \A u \in LThreads : stpc[u] # "head" /\ stpc'[u] # "head"
    BY <1>2 DEF Alone
  <2> QED BY <1>5, <1>7, <1>9, <2>1 DEF Ends, links
<1>11. Links(m)'
  BY <1>5, <1>7, <1>9 DEF Links, links
<1>12. InHand(m)'
  BY <1>2, <1>5, <1>6 DEF InHand, Alone
<1> QED BY <1>5, <1>7, <1>8, <1>9, <1>10, <1>11, <1>12 DEF LInv

LEMMA LinkLInv ==
  ASSUME LInv, NEW t \in LThreads, PushLink(t)
  PROVE  LInv' /\ popped' = popped /\ Linked' = Linked + 1
<1>1. LTypes
  BY DEF LInv
<1>2. Alone(t, "link", "head")
  <2>1. lock' = {t}
    BY <1>1, AloneInside DEF PushLink, Moves
  <2> QED BY <1>1, <2>1, AloneMoves DEF PushLink
<1>3. Linked = fresh - 1 /\ Linked' = fresh' /\ fresh' = fresh
  BY <1>2, LinkedIs DEF PushLink
<1>4. SpinFacts
  BY <1>1, SpinFactsHold
<1>5. PICK m \in 0 .. LMaxNodes : Ends(m) /\ Links(m) /\ InHand(m)
  BY DEF LInv
<1>6. stnode[t] = fresh /\ fresh = Linked + 1 /\ Linked' = fresh /\ Linked \in 0 .. LMaxNodes
      /\ fresh \in 1 .. LMaxNodes /\ fresh \in LNodes
  BY <1>2, <1>3, <1>4, <1>5 DEF Alone, InHand, Ends, SpinFacts, LNodes
<1>7. UNCHANGED <<lhead, stnode, fresh, freed, popped, usage>> /\ \A u \in LThreads : stpc[u] # "head"
  BY <1>2 DEF PushLink, Alone
<1>8. lhead["shared"] = IF m < Linked THEN Linked ELSE None
  BY <1>5, <1>7 DEF Ends
<1>9. m \in Nat /\ popped <= m /\ m <= Linked /\ popped \in Nat
  BY <1>4, <1>5 DEF Ends, SpinFacts
<1> DEFINE q == Linked
<1>10. CASE m = Linked
  <2>1. lhead["shared"] = None
    BY <1>8, <1>9, <1>10
  <2>2. UNCHANGED <<lnext, lpre>> /\ ltail' = [ltail EXCEPT !["shared"] = fresh]
    BY <1>6, <2>1 DEF PushLink
  <2>3. ltail' \in [Lists -> {None} \cup LNodes] /\ ltail'["shared"] = fresh /\ ltail'["own"] = ltail["own"]
    BY <1>4, <1>6, <2>2 DEF SpinFacts, Lists
  <2>4. LTypes'
    BY <1>2, <1>4, <1>7, <2>2, <2>3 DEF LTypes, Alone, SpinFacts
  <2>5. Ends(m)'
    <3>1. m < Linked' /\ ~ (m < Linked' - 1) /\ m + 1 = fresh /\ m <= Linked' /\ Linked' \in 0 .. LMaxNodes
      BY <1>6, <1>9, <1>10
    <3>2. stpc'[t] = "head"
      BY <1>2 DEF Alone
    <3> QED BY <1>5, <1>7, <1>9, <2>1, <2>3, <3>1, <3>2 DEF Ends
  <2>6. Links(m)'
    <3>1. \A n \in popped + 1 .. Linked' : lpre[n] = IF n = m \/ n = Linked' THEN None ELSE n + 1
      BY <1>5, <1>6, <1>9, <1>10 DEF Links
    <3>2. \A n \in popped + 1 .. Linked' : lnext[n] = IF n = popped + 1 \/ n = m + 1 THEN None ELSE n - 1
      BY <1>5, <1>6, <1>9, <1>10 DEF Links
    <3>3. \A n \in Linked' + 1 .. LMaxNodes : lpre[n] = None /\ lnext[n] = None
      BY <1>5, <1>6, <1>9, <1>10 DEF Links
    <3> QED BY <1>7, <2>2, <3>1, <3>2, <3>3 DEF Links
  <2>7. InHand(m)'
    BY <1>2, <1>6, <1>7 DEF InHand, Alone
  <2> QED BY <1>5, <1>6, <1>7, <2>4, <2>5, <2>6, <2>7 DEF LInv
<1>11. CASE m < Linked
  <2>1. lhead["shared"] = Linked /\ lhead["shared"] # None
    BY <1>8, <1>9, <1>11 DEF None
  <2>2. lnext' = [lnext EXCEPT ![fresh] = Linked] /\ lpre' = [lpre EXCEPT ![Linked] = fresh] /\ ltail' = ltail
    BY <1>6, <2>1 DEF PushLink, LinkedTo
  <2>3. Linked \in LNodes
    BY <1>6, <1>9, <1>11 DEF LNodes
  <2>4. /\ lnext' \in [{None} \cup LNodes -> {None} \cup LNodes] /\ lpre' \in [{None} \cup LNodes -> {None} \cup LNodes]
        /\ lnext'[fresh] = Linked /\ \A n \in LNodes : n # fresh => lnext'[n] = lnext[n]
        /\ lpre'[Linked] = fresh /\ \A n \in LNodes : n # Linked => lpre'[n] = lpre[n]
    BY <1>4, <1>6, <2>2, <2>3 DEF SpinFacts
  <2>5. LTypes'
    BY <1>2, <1>4, <1>7, <2>2, <2>4 DEF LTypes, Alone, SpinFacts
  <2>6. Ends(m)'
    <3>1. /\ m < Linked' /\ m < Linked' - 1 /\ m <= Linked' /\ Linked' \in 0 .. LMaxNodes
          /\ Linked' - 1 = Linked
      BY <1>6, <1>9, <1>11
    <3>2. stpc'[t] = "head"
      BY <1>2 DEF Alone
    <3> QED BY <1>5, <1>7, <1>9, <1>11, <2>1, <2>2, <3>1, <3>2 DEF Ends
  <2>7. Links(m)'
    <3>1. \A n \in popped + 1 .. Linked' : lpre'[n] = IF n = m \/ n = Linked' THEN None ELSE n + 1
      <4> TAKE n \in popped + 1 .. Linked'
      <4>0. n \in LNodes
        BY <1>4, <1>6, <1>9 DEF LNodes, SpinFacts
      <4>1. CASE n = Linked
        BY <1>6, <1>9, <1>11, <2>4, <4>1
      <4>2. CASE n = Linked'
        <5>1. lpre[n] = None /\ n # Linked
          BY <1>4, <1>5, <1>6, <4>2 DEF Links, SpinFacts
        <5> QED BY <2>4, <4>0, <4>2, <5>1
      <4>3. CASE n # Linked /\ n # Linked'
        <5>1. n \in popped + 1 .. Linked
          BY <1>6, <1>9, <4>3
        <5>2. lpre[n] = IF n = m THEN None ELSE n + 1
          BY <1>5, <4>3, <5>1 DEF Links
        <5> QED BY <2>4, <4>0, <4>3, <5>2
      <4> QED BY <4>1, <4>2, <4>3
    <3>2. \A n \in popped + 1 .. Linked' : lnext'[n] = IF n = popped + 1 \/ n = m + 1 THEN None ELSE n - 1
      <4> TAKE n \in popped + 1 .. Linked'
      <4>0. n \in LNodes
        BY <1>4, <1>6, <1>9 DEF LNodes, SpinFacts
      <4>1. CASE n = fresh
        BY <1>6, <1>9, <1>11, <2>4, <4>1
      <4>2. CASE n # fresh
        <5>1. n \in popped + 1 .. Linked
          BY <1>6, <1>9, <4>2
        <5> QED BY <1>5, <2>4, <4>0, <4>2, <5>1 DEF Links
      <4> QED BY <4>1, <4>2
    <3>3. \A n \in Linked' + 1 .. LMaxNodes : lpre'[n] = None /\ lnext'[n] = None
      <4> TAKE n \in Linked' + 1 .. LMaxNodes
      <4>1. n \in Linked + 1 .. LMaxNodes /\ n \in LNodes /\ n # fresh /\ n # Linked
        BY <1>6, <1>9 DEF LNodes
      <4> QED BY <1>5, <2>4, <4>1 DEF Links
    <3> QED BY <1>7, <3>1, <3>2, <3>3 DEF Links
  <2>8. InHand(m)'
    BY <1>2, <1>6, <1>7 DEF InHand, Alone
  <2> QED BY <1>5, <1>6, <1>7, <2>5, <2>6, <2>7, <2>8 DEF LInv
<1> QED BY <1>6, <1>7, <1>9, <1>10, <1>11

LEMMA EndLInv ==
  ASSUME LInv, NEW t \in LThreads, PushEnd(t)
  PROVE  LInv' /\ Linked' = Linked /\ popped' = popped
<1>1. LTypes
  BY DEF LInv
<1>2. Alone(t, "head", "idle")
  BY <1>1, AloneMoves DEF PushEnd
<1>3. Linked = fresh /\ Linked' = fresh' /\ fresh' = fresh
  BY <1>2, LinkedIs DEF PushEnd
<1>4. SpinFacts
  BY <1>1, SpinFactsHold
<1>5. PICK m \in 0 .. LMaxNodes : Ends(m) /\ Links(m) /\ InHand(m)
  BY DEF LInv
<1>6. UNCHANGED <<lnext, lpre, ltail, fresh, freed, popped, usage>>
  BY DEF PushEnd
<1>7. stnode[t] = Linked /\ m < Linked /\ Linked' = Linked
  BY <1>2, <1>3, <1>5 DEF Alone, InHand, Ends
<1>8. /\ lhead' \in [Lists -> {None} \cup LNodes] /\ lhead'["shared"] = Linked /\ lhead'["own"] = lhead["own"]
      /\ stnode' \in [LThreads -> {None} \cup LNodes]
  BY <1>4, <1>7 DEF PushEnd, SpinFacts, Lists
<1>9. LTypes'
  BY <1>2, <1>4, <1>6, <1>8 DEF LTypes, Alone, SpinFacts
<1>10. Ends(m)'
  <2>1. \A u \in LThreads : stpc'[u] # "head"
    BY <1>2 DEF Alone
  <2> QED BY <1>5, <1>6, <1>7, <1>8, <2>1 DEF Ends
<1>11. Links(m)'
  BY <1>5, <1>6, <1>7 DEF Links
<1>12. InHand(m)'
  BY <1>2 DEF InHand, Alone
<1> QED BY <1>5, <1>6, <1>7, <1>9, <1>10, <1>11, <1>12 DEF LInv

LEMMA PopBeginLInv ==
  ASSUME LInv, NEW t \in LThreads, PopBegin(t)
  PROVE  LInv' /\ Linked' = Linked /\ popped' = popped
<1>1. LTypes
  BY DEF LInv
<1>2. Alone(t, "idle", "unlink")
  BY <1>1, AloneMoves DEF PopBegin
<1>3. Linked = fresh /\ Linked' = fresh' /\ fresh' = fresh
  BY <1>2, LinkedIs DEF PopBegin
<1>4. SpinFacts
  BY <1>1, SpinFactsHold
<1>5. PICK m \in 0 .. LMaxNodes : Ends(m) /\ Links(m) /\ InHand(m)
  BY DEF LInv
<1>6. UNCHANGED <<links, fresh, freed, popped, usage>> /\ usage = "pop" /\ Linked' = Linked
  BY <1>3 DEF PopBegin
<1>7. m < Linked /\ ltail["shared"] = m + 1 /\ m = popped /\ Linked \in 0 .. LMaxNodes
  BY <1>5, <1>6 DEF Ends, PopBegin
<1>8. m + 1 \in LNodes /\ m + 1 \in popped + 1 .. Linked /\ m + 1 # m
  BY <1>4, <1>5, <1>7 DEF LNodes, SpinFacts
<1>9. lpre[m + 1] = IF m + 1 = Linked THEN None ELSE (m + 1) + 1
  BY <1>5, <1>8 DEF Links
<1>10. stnode' \in [LThreads -> {None} \cup LNodes] /\ stnode'[t] = IF m + 1 = Linked THEN None ELSE m + 2
  <2>1. stnode' = [stnode EXCEPT ![t] = lpre[m + 1]] /\ lpre[m + 1] \in {None} \cup LNodes
    BY <1>4, <1>7, <1>8 DEF PopBegin, SpinFacts
  <2>2. (m + 1) + 1 = m + 2
    BY <1>5
  <2> QED BY <1>4, <1>9, <2>1, <2>2 DEF SpinFacts
<1>11. LTypes'
  BY <1>2, <1>4, <1>6, <1>10 DEF LTypes, Alone, SpinFacts, links
<1>12. Ends(m)'
  <2>1. \A u \in LThreads : stpc[u] # "head" /\ stpc'[u] # "head"
    BY <1>2 DEF Alone
  <2> QED BY <1>5, <1>6, <2>1 DEF Ends, links
<1>13. Links(m)'
  BY <1>5, <1>6 DEF Links, links
<1>14. InHand(m)'
  BY <1>2, <1>6, <1>7, <1>10 DEF InHand, Alone
<1> QED BY <1>5, <1>6, <1>11, <1>12, <1>13, <1>14 DEF LInv

LEMMA PopEndLInv ==
  ASSUME LInv, NEW t \in LThreads, PopEnd(t)
  PROVE  LInv' /\ Linked' = Linked /\ popped' = popped + 1 /\ popped < Linked
<1>1. LTypes
  BY DEF LInv
<1>2. Alone(t, "unlink", "idle")
  BY <1>1, AloneMoves DEF PopEnd
<1>3. Linked = fresh /\ Linked' = fresh' /\ fresh' = fresh
  BY <1>2, LinkedIs DEF PopEnd, TakeTail
<1>4. SpinFacts
  BY <1>1, SpinFactsHold
<1>5. PICK m \in 0 .. LMaxNodes : Ends(m) /\ Links(m) /\ InHand(m)
  BY DEF LInv
<1>6. /\ usage = "pop" /\ m < Linked /\ m = popped /\ Linked \in 0 .. LMaxNodes
      /\ stnode[t] = IF m + 1 = Linked THEN None ELSE m + 2
  BY <1>2, <1>5 DEF InHand, Ends, Alone
<1> DEFINE k == m + 1
           pre == stnode[t]
<1>7. k \in 0 .. LMaxNodes /\ k \in LNodes /\ k \in Nat /\ k <= Linked /\ k # None /\ k # 0
  BY <1>4, <1>5, <1>6 DEF LNodes, None, SpinFacts
<1>8. ltail["shared"] = k /\ ltail["own"] = None /\ lhead["own"] = None
      /\ lhead["shared"] = Linked
  <2>1. \A u \in LThreads : stpc[u] # "head"
    BY <1>2 DEF Alone
  <2>2. ~ (popped < m)
    BY <1>5, <1>6
  <2> QED BY <1>5, <1>6, <2>1, <2>2 DEF Ends
<1>9. /\ lnext' = IF pre = None THEN lnext ELSE [lnext EXCEPT ![pre] = None]
      /\ lhead' = IF pre = None THEN [lhead EXCEPT !["shared"] = None] ELSE lhead
      /\ ltail' = [ltail EXCEPT !["shared"] = pre]
      /\ freed' = freed \cup {k} /\ popped' = k /\ UNCHANGED <<lpre, fresh, usage>>
  BY <1>8 DEF PopEnd, TakeTail, HeadAfterPop
<1>10. /\ pre \in {None} \cup LNodes
       /\ pre = None => k = Linked
       /\ pre # None => pre = k + 1 /\ k < Linked
  BY <1>4, <1>5, <1>6 DEF SpinFacts, None
<1>11. freed' = 1 .. popped'
  <2>1. freed = 1 .. m
    BY <1>4, <1>6 DEF SpinFacts
  <2> QED BY <1>5, <1>9, <2>1
<1> HIDE DEF pre, k
<1>12. /\ ltail' \in [Lists -> {None} \cup LNodes] /\ ltail'["shared"] = pre /\ ltail'["own"] = None
       /\ lhead' \in [Lists -> {None} \cup LNodes] /\ lhead'["own"] = None
       /\ lhead'["shared"] = IF pre = None THEN None ELSE Linked
  BY <1>4, <1>8, <1>9, <1>10 DEF SpinFacts, Lists
<1>13. /\ lnext' \in [{None} \cup LNodes -> {None} \cup LNodes]
       /\ pre # None => lnext'[pre] = None
       /\ \A n \in LNodes : n # pre => lnext'[n] = lnext[n]
  BY <1>4, <1>9, <1>10 DEF SpinFacts
<1>14. stnode' \in [LThreads -> {None} \cup LNodes]
  BY <1>4 DEF SpinFacts, PopEnd
<1>15. LTypes'
  BY <1>2, <1>4, <1>7, <1>9, <1>11, <1>12, <1>13, <1>14 DEF LTypes, Alone, SpinFacts
<1>16. Linked' = Linked /\ k = popped + 1 /\ popped \in Nat
  BY <1>3, <1>4, <1>6 DEF k, SpinFacts
<1>17. Ends(k)'
  <2>1. \A u \in LThreads : stpc'[u] # "head"
    BY <1>2 DEF Alone
  <2>2. ~ (k < k)
    BY <1>7
  <2>3. (k < Linked) <=> pre # None
    BY <1>6, <1>7, <1>10
  <2> QED BY <1>5, <1>6, <1>7, <1>9, <1>10, <1>12, <1>16, <2>1, <2>2, <2>3 DEF Ends
<1>18. Links(k)'
  <2>1. \A n \in k + 1 .. Linked : n \in LNodes /\ n \in popped + 1 .. Linked /\ n # k /\ n # m /\ n # popped + 1
    BY <1>4, <1>6, <1>16 DEF LNodes, SpinFacts
  <2>2. \A n \in k + 1 .. Linked : lpre[n] = IF n = k \/ n = Linked THEN None ELSE n + 1
    BY <1>5, <2>1 DEF Links
  <2>3. \A n \in k + 1 .. Linked : lnext'[n] = IF n = k + 1 \/ n = k + 1 THEN None ELSE n - 1
    <3> TAKE n \in k + 1 .. Linked
    <3>1. CASE n = k + 1
      <4>1. pre = n /\ pre # None
        BY <1>6, <1>7, <1>10, <3>1
      <4> QED BY <1>13, <3>1, <4>1
    <3>2. CASE n # k + 1
      <4>1. n # pre
        <5>1. n # None
          BY <2>1 DEF LNodes, None
        <5> QED BY <1>10, <3>2, <5>1
      <4>2. lnext[n] = IF n = popped + 1 \/ n = m + 1 THEN None ELSE n - 1
        BY <1>5, <2>1 DEF Links
      <4>3. n # m + 1
        BY <1>6, <1>16, <2>1
      <4> QED BY <1>13, <2>1, <3>2, <4>1, <4>2, <4>3
    <3> QED BY <3>1, <3>2
  <2>4. \A n \in Linked + 1 .. LMaxNodes : lpre[n] = None /\ lnext'[n] = None
    <3> TAKE n \in Linked + 1 .. LMaxNodes
    <3>1. n \in LNodes /\ lpre[n] = None /\ lnext[n] = None
      BY <1>4, <1>5, <1>6 DEF Links, LNodes, SpinFacts
    <3>2. n # pre
      <4>1. n # None /\ ~ (n <= Linked)
        BY <1>6, <3>1 DEF LNodes, None
      <4>2. pre # None => pre <= Linked
        BY <1>6, <1>7, <1>10
      <4> QED BY <4>1, <4>2
    <3> QED BY <1>13, <3>1, <3>2
  <2> QED BY <1>9, <1>16, <2>2, <2>3, <2>4 DEF Links
<1>19. InHand(k)'
  BY <1>2 DEF InHand, Alone
<1> QED BY <1>6, <1>7, <1>9, <1>15, <1>16, <1>17, <1>18, <1>19 DEF LInv

LEMMA PopOwnLInv ==
  ASSUME LInv, PopOwn
  PROVE  LInv' /\ Linked' = Linked /\ popped' = popped + 1 /\ popped < Linked
<1>1. LTypes
  BY DEF LInv
<1>2. UNCHANGED <<lock, stpc, stnode, lpre, fresh, usage>> /\ Linked' = Linked
  BY DEF PopOwn, TakeTail, Linked
<1>4. SpinFacts
  BY <1>1, SpinFactsHold
<1>5. PICK m \in 0 .. LMaxNodes : Ends(m) /\ Links(m) /\ InHand(m)
  BY DEF LInv
<1>6. popped < m /\ m \in Nat /\ m <= Linked /\ Linked \in 0 .. LMaxNodes /\ popped \in Nat
  BY <1>4, <1>5 DEF PopOwn, Ends, SpinFacts
<1>7. PICK k \in Nat : k = popped + 1
  BY <1>6
<1>8. k \in LNodes /\ k <= m /\ k <= Linked /\ k # None /\ k \in popped + 1 .. Linked
  BY <1>4, <1>6, <1>7 DEF LNodes, None, SpinFacts
<1>9. ltail["own"] = k /\ lhead["own"] = m
  BY <1>5, <1>6, <1>7 DEF Ends
<1>10. PICK pre \in {None} \cup LNodes : pre = lpre[k]
  BY <1>4, <1>8 DEF SpinFacts
<1>11. pre = IF k = m THEN None ELSE k + 1
  <2>1. pre = IF k = m \/ k = Linked THEN None ELSE k + 1
    BY <1>5, <1>8, <1>10 DEF Links
  <2>2. k = Linked => k = m
    BY <1>6, <1>8
  <2> QED BY <2>1, <2>2
<1>12. (pre = None <=> k = m) /\ (pre # None => pre = k + 1 /\ k < m)
  BY <1>6, <1>8, <1>11 DEF None
<1>13. /\ lnext' = IF pre = None THEN lnext ELSE [lnext EXCEPT ![pre] = None]
       /\ lhead' = IF pre = None THEN [lhead EXCEPT !["own"] = None] ELSE lhead
       /\ ltail' = [ltail EXCEPT !["own"] = pre]
       /\ freed' = freed \cup {k} /\ popped' = k
  BY <1>9, <1>10 DEF PopOwn, TakeTail, HeadAfterPop
<1>14. freed' = 1 .. popped'
  <2>1. freed = 1 .. popped
    BY <1>4 DEF SpinFacts
  <2> QED BY <1>6, <1>7, <1>13, <2>1
<1>15. /\ ltail' \in [Lists -> {None} \cup LNodes] /\ ltail'["own"] = pre /\ ltail'["shared"] = ltail["shared"]
       /\ lhead' \in [Lists -> {None} \cup LNodes] /\ lhead'["shared"] = lhead["shared"]
       /\ lhead'["own"] = IF pre = None THEN None ELSE m
  BY <1>4, <1>9, <1>13 DEF SpinFacts, Lists
<1>16. /\ lnext' \in [{None} \cup LNodes -> {None} \cup LNodes]
       /\ pre # None => lnext'[pre] = None
       /\ \A n \in LNodes : n # pre => lnext'[n] = lnext[n]
  BY <1>4, <1>13 DEF SpinFacts
<1>17. LTypes'
  BY <1>1, <1>2, <1>4, <1>8, <1>13, <1>14, <1>15, <1>16 DEF LTypes, SpinFacts
<1>18. Ends(m)'
  <2>1. usage # "pop"
    BY <1>5, <1>6 DEF Ends
  <2>2. ltail'["own"] = IF k < m THEN k + 1 ELSE None
    BY <1>6, <1>8, <1>12, <1>15
  <2>3. lhead'["own"] = IF k < m THEN m ELSE None
    BY <1>6, <1>8, <1>12, <1>15
  <2> QED BY <1>2, <1>5, <1>6, <1>8, <1>13, <1>15, <2>1, <2>2, <2>3 DEF Ends
<1>19. Links(m)'
  <2>1. \A n \in k + 1 .. Linked : n \in LNodes /\ n \in popped + 1 .. Linked /\ n # None /\ n # popped + 1
    BY <1>4, <1>6, <1>7 DEF LNodes, None, SpinFacts
  <2>2. \A n \in k + 1 .. Linked : lpre[n] = IF n = m \/ n = Linked THEN None ELSE n + 1
    BY <1>5, <2>1 DEF Links
  <2>3. \A n \in k + 1 .. Linked : lnext'[n] = IF n = k + 1 \/ n = m + 1 THEN None ELSE n - 1
    <3> TAKE n \in k + 1 .. Linked
    <3>1. lnext[n] = IF n = m + 1 THEN None ELSE n - 1
      BY <1>5, <2>1 DEF Links
    <3>2. CASE n = pre
      BY <1>12, <1>16, <2>1, <3>2
    <3>3. CASE n # pre
      <4>1. n = k + 1 => n = m + 1
        BY <1>12, <3>3
      <4> QED BY <1>16, <2>1, <3>1, <3>3, <4>1
    <3> QED BY <3>2, <3>3
  <2>4. \A n \in Linked + 1 .. LMaxNodes : lpre[n] = None /\ lnext'[n] = None
    <3> TAKE n \in Linked + 1 .. LMaxNodes
    <3>1. n \in LNodes /\ lpre[n] = None /\ lnext[n] = None
      BY <1>4, <1>5, <1>6 DEF Links, LNodes, SpinFacts
    <3>2. n # pre
      <4>1. n # None /\ ~ (n <= Linked)
        BY <1>6, <3>1 DEF LNodes, None
      <4>2. pre # None => pre <= Linked
        BY <1>6, <1>8, <1>12
      <4> QED BY <4>1, <4>2
    <3> QED BY <1>16, <3>1, <3>2
  <2> QED BY <1>2, <1>13, <2>2, <2>3, <2>4 DEF Links
<1>20. InHand(m)'
  BY <1>2, <1>5 DEF InHand
<1> QED BY <1>2, <1>5, <1>6, <1>7, <1>13, <1>17, <1>18, <1>19, <1>20 DEF LInv

\* The mover's list becomes the whole queue, the shared one is empty.
LEMMA MovedLInv ==
  ASSUME LInv, LockFree, usage = "move",
         NEW m \in 0 .. LMaxNodes, Ends(m), Links(m), InHand(m),
         UNCHANGED <<lock, stpc, stnode, fresh, freed, popped, usage>>,
         lhead'["shared"] = None, ltail'["shared"] = None,
         lhead'["own"] = IF popped < Linked THEN Linked ELSE None,
         ltail'["own"] = IF popped < Linked THEN popped + 1 ELSE None,
         lhead' \in [Lists -> {None} \cup LNodes], ltail' \in [Lists -> {None} \cup LNodes],
         lnext' \in [{None} \cup LNodes -> {None} \cup LNodes], lpre' \in [{None} \cup LNodes -> {None} \cup LNodes],
         \A n \in popped + 1 .. Linked : lpre'[n] = IF n = Linked THEN None ELSE n + 1,
         \A n \in popped + 1 .. Linked : lnext'[n] = IF n = popped + 1 THEN None ELSE n - 1,
         \A n \in Linked + 1 .. LMaxNodes : lpre'[n] = None /\ lnext'[n] = None
  PROVE  LInv' /\ Linked' = Linked
<1>1. Linked' = Linked
  BY DEF Linked
<1>2. LTypes
  BY DEF LInv
<1>3. LTypes'
  BY <1>2 DEF LTypes
<1>4. \A t \in LThreads : stpc[t] = "idle"
  BY <1>2 DEF LTypes, LockFree
<1>5. SpinFacts
  BY <1>2, SpinFactsHold
<1>6. /\ Linked \in Nat /\ popped \in Nat /\ popped <= Linked /\ Linked <= Linked /\ Linked \in 0 .. LMaxNodes
      /\ ~ (Linked < Linked)
  BY <1>5 DEF Ends, SpinFacts
<1>7. Ends(Linked)'
  BY <1>1, <1>4, <1>6 DEF Ends
<1>8. Links(Linked)'
  <2>1. \A n \in popped + 1 .. Linked : n # Linked + 1
    BY <1>6
  <2> QED BY <1>1, <2>1 DEF Links
<1>9. InHand(Linked)'
  BY <1>4 DEF InHand
<1> QED BY <1>1, <1>3, <1>6, <1>7, <1>8, <1>9 DEF LInv

LEMMA MoverLInv ==
  ASSUME LInv, MoveTo \/ Merge
  PROVE  LInv' /\ Linked' = Linked /\ popped' = popped
<1>1. LTypes
  BY DEF LInv
<1>4. SpinFacts
  BY <1>1, SpinFactsHold
<1>5. PICK m \in 0 .. LMaxNodes : Ends(m) /\ Links(m) /\ InHand(m)
  BY DEF LInv
<1>6. /\ usage = "move" /\ LockFree /\ UNCHANGED <<lock, stpc, stnode, fresh, freed, popped, usage>>
  BY DEF MoveTo, Merge
<1>7. \A t \in LThreads : stpc[t] = "idle"
  BY <1>1, <1>6 DEF LTypes, LockFree
<1>8. /\ ltail["own"] = IF popped < m THEN popped + 1 ELSE None
      /\ lhead["own"] = IF popped < m THEN m ELSE None
      /\ ltail["shared"] = IF m < Linked THEN m + 1 ELSE None
      /\ lhead["shared"] = IF m < Linked THEN Linked ELSE None
      /\ popped <= m /\ m <= Linked /\ Linked \in 0 .. LMaxNodes /\ popped \in Nat /\ m \in Nat
  BY <1>4, <1>5, <1>7 DEF Ends, SpinFacts
<1>9. CASE lhead["own"] = None
  <2>1. m = popped
    BY <1>8, <1>9 DEF None
  <2>2. /\ lhead' = [shared |-> None, own |-> lhead["shared"]] /\ ltail' = [shared |-> None, own |-> ltail["shared"]]
        /\ lnext' = lnext /\ lpre' = lpre
    BY <1>9 DEF MoveTo, Merge
  <2>3. /\ lhead' \in [Lists -> {None} \cup LNodes] /\ lhead'["shared"] = None /\ lhead'["own"] = lhead["shared"]
        /\ ltail' \in [Lists -> {None} \cup LNodes] /\ ltail'["shared"] = None /\ ltail'["own"] = ltail["shared"]
    <3>1. lhead["shared"] \in {None} \cup LNodes /\ ltail["shared"] \in {None} \cup LNodes
      BY <1>4 DEF SpinFacts, Lists
    <3> QED BY <2>2, <3>1 DEF Lists
  <2>4. \A n \in popped + 1 .. Linked : n # m /\ n \in popped + 1 .. Linked
    BY <1>8, <2>1
  <2>5. \A n \in popped + 1 .. Linked : lpre'[n] = IF n = Linked THEN None ELSE n + 1
    BY <1>5, <2>2, <2>4 DEF Links
  <2>6. \A n \in popped + 1 .. Linked : lnext'[n] = IF n = popped + 1 THEN None ELSE n - 1
    BY <1>5, <2>1, <2>2 DEF Links
  <2>7. \A n \in Linked + 1 .. LMaxNodes : lpre'[n] = None /\ lnext'[n] = None
    BY <1>5, <2>2 DEF Links
  <2>8. /\ lnext' \in [{None} \cup LNodes -> {None} \cup LNodes] /\ lpre' \in [{None} \cup LNodes -> {None} \cup LNodes]
    BY <1>4, <2>2 DEF SpinFacts
  <2>9. /\ lhead'["own"] = IF popped < Linked THEN Linked ELSE None
        /\ ltail'["own"] = IF popped < Linked THEN popped + 1 ELSE None
    BY <1>8, <2>1, <2>3
  <2> QED BY <1>5, <1>6, <2>3, <2>5, <2>6, <2>7, <2>8, <2>9, MovedLInv
<1>10. CASE lhead["own"] # None
  <2>1. popped < m /\ m < Linked
    BY <1>8, <1>10 DEF MoveTo, Merge
  <2>2. lhead["own"] = m /\ ltail["own"] = popped + 1 /\ lhead["shared"] = Linked /\ ltail["shared"] = m + 1
    BY <1>8, <2>1
  <2>3. /\ lhead' = [shared |-> None, own |-> Linked] /\ ltail' = [ltail EXCEPT !["shared"] = None]
        /\ lnext' = [lnext EXCEPT ![m + 1] = m] /\ lpre' = [lpre EXCEPT ![m] = m + 1]
    BY <1>10, <2>2 DEF MoveTo, Merge, Joined
  <2>4. m \in LNodes /\ m + 1 \in LNodes /\ Linked \in LNodes
    BY <1>4, <1>8, <2>1 DEF LNodes, SpinFacts
  <2>5. /\ lhead' \in [Lists -> {None} \cup LNodes] /\ lhead'["shared"] = None /\ lhead'["own"] = Linked
        /\ ltail' \in [Lists -> {None} \cup LNodes] /\ ltail'["shared"] = None /\ ltail'["own"] = ltail["own"]
    BY <1>4, <2>3, <2>4 DEF SpinFacts, Lists
  <2>6. /\ lnext' \in [{None} \cup LNodes -> {None} \cup LNodes] /\ lpre' \in [{None} \cup LNodes -> {None} \cup LNodes]
        /\ lnext'[m + 1] = m /\ \A n \in LNodes : n # m + 1 => lnext'[n] = lnext[n]
        /\ lpre'[m] = m + 1 /\ \A n \in LNodes : n # m => lpre'[n] = lpre[n]
    BY <1>4, <2>3, <2>4 DEF SpinFacts
  <2>7. \A n \in popped + 1 .. Linked : n \in LNodes
    BY <1>4, <1>8 DEF LNodes, SpinFacts
  <2>8. \A n \in popped + 1 .. Linked : lpre'[n] = IF n = Linked THEN None ELSE n + 1
    BY <1>5, <2>1, <2>6, <2>7 DEF Links
  <2>9. \A n \in popped + 1 .. Linked : lnext'[n] = IF n = popped + 1 THEN None ELSE n - 1
    <3> TAKE n \in popped + 1 .. Linked
    <3>1. lnext[n] = IF n = popped + 1 \/ n = m + 1 THEN None ELSE n - 1
      BY <1>5 DEF Links
    <3>2. CASE n = m + 1
      <4>1. n # popped + 1 /\ m = n - 1
        BY <1>8, <2>1, <3>2
      <4> QED BY <2>6, <3>2, <4>1
    <3>3. CASE n # m + 1
      BY <2>6, <2>7, <3>1, <3>3
    <3> QED BY <3>2, <3>3
  <2>10. \A n \in Linked + 1 .. LMaxNodes : lpre'[n] = None /\ lnext'[n] = None
    <3> TAKE n \in Linked + 1 .. LMaxNodes
    <3>1. n \in LNodes /\ n # m /\ n # m + 1
      BY <1>4, <1>8, <2>1 DEF LNodes, SpinFacts
    <3> QED BY <1>5, <2>6, <3>1 DEF Links
  <2>11. /\ lhead'["own"] = IF popped < Linked THEN Linked ELSE None
         /\ ltail'["own"] = IF popped < Linked THEN popped + 1 ELSE None
    <3>1. popped < Linked
      BY <1>8, <2>1
    <3> QED BY <2>2, <2>5, <3>1
  <2> QED BY <1>5, <1>6, <2>5, <2>6, <2>8, <2>9, <2>10, <2>11, MovedLInv
<1>11. popped' = popped
  BY <1>6
<1> QED BY <1>9, <1>10, <1>11

\* The numbers after lo, up to hi.
Span(lo, hi) == [i \in 1 .. hi - lo |-> lo + i]

LEMMA IsSpan ==
  ASSUME NEW lo \in Nat, NEW hi \in Nat, lo <= hi,
         NEW s \in Seq(Nat), Len(s) = hi - lo, \A i \in 1 .. hi - lo : s[i] = lo + i
  PROVE  s = Span(lo, hi)
<1>1. s = [i \in 1 .. hi - lo |-> s[i]]
  OBVIOUS
<1> QED BY <1>1 DEF Span

LEMMA Spans ==
  ASSUME NEW lo \in Nat, NEW hi \in Nat, lo <= hi
  PROVE  /\ Span(lo, hi) \in Seq(Nat) /\ Len(Span(lo, hi)) = hi - lo /\ DOMAIN Span(lo, hi) = 1 .. hi - lo
         /\ \A i \in 1 .. hi - lo : Span(lo, hi)[i] = lo + i
         /\ lo = hi => Span(lo, hi) = <<>>
         /\ lo < hi => Head(Span(lo, hi)) = lo + 1 /\ Tail(Span(lo, hi)) = Span(lo + 1, hi)
         /\ Append(Span(lo, hi), hi + 1) = Span(lo, hi + 1)
<1>1. hi - lo \in Nat
  OBVIOUS
<1>2. /\ Span(lo, hi) \in Seq(Nat) /\ Len(Span(lo, hi)) = hi - lo /\ DOMAIN Span(lo, hi) = 1 .. hi - lo
      /\ \A i \in 1 .. hi - lo : Span(lo, hi)[i] = lo + i
  <2>1. Span(lo, hi) \in [1 .. hi - lo -> Nat]
    BY <1>1 DEF Span
  <2> QED BY <1>1, <2>1 DEF Span
<1>3. ASSUME lo = hi PROVE Span(lo, hi) = <<>>
  BY <1>2, <1>3, EmptySeq
<1>4. ASSUME lo < hi PROVE Head(Span(lo, hi)) = lo + 1 /\ Tail(Span(lo, hi)) = Span(lo + 1, hi)
  <2>1. hi - (lo + 1) \in Nat /\ hi - (lo + 1) = (hi - lo) - 1 /\ 1 \in 1 .. hi - lo /\ hi - lo # 0
    BY <1>4
  <2>2. Head(Span(lo, hi)) = lo + 1
    BY <1>2, <2>1
  <2>3. Span(lo, hi) # <<>>
    <3>1. Len(<<>>) = 0
      OBVIOUS
    <3> QED BY <1>2, <2>1, <3>1
  <2>4. /\ Tail(Span(lo, hi)) \in Seq(Nat) /\ Len(Tail(Span(lo, hi))) = Len(Span(lo, hi)) - 1
        /\ \A i \in 1 .. Len(Tail(Span(lo, hi))) : Tail(Span(lo, hi))[i] = Span(lo, hi)[i + 1]
    BY <1>2, <2>3, HeadTailProperties
  <2> DEFINE s == Tail(Span(lo, hi))
  <2>5. \A i \in 1 .. hi - (lo + 1) : Span(lo, hi)[i + 1] = (lo + 1) + i
    BY <1>2, <2>1
  <2>6. s \in Seq(Nat) /\ Len(s) = hi - (lo + 1) /\ \A i \in 1 .. hi - (lo + 1) : s[i] = (lo + 1) + i
    BY <1>2, <2>1, <2>4, <2>5
  <2> HIDE DEF s
  <2>7. s = Span(lo + 1, hi)
    BY <1>4, <2>6, IsSpan
  <2> QED BY <2>2, <2>7 DEF s
<1>5. Append(Span(lo, hi), hi + 1) = Span(lo, hi + 1)
  <2>1. (hi + 1) - lo = (hi - lo) + 1 /\ hi + 1 = lo + ((hi - lo) + 1)
    OBVIOUS
  <2>2. Append(Span(lo, hi), hi + 1)
        = [i \in 1 .. (hi - lo) + 1 |-> IF i = (hi - lo) + 1 THEN hi + 1 ELSE Span(lo, hi)[i]]
    BY <1>2
  <2>3. \A i \in 1 .. (hi - lo) + 1 : (IF i = (hi - lo) + 1 THEN hi + 1 ELSE Span(lo, hi)[i]) = lo + i
    BY <1>1, <1>2, <2>1
  <2> QED BY <2>1, <2>2, <2>3 DEF Span
<1> QED BY <1>2, <1>3, <1>4, <1>5

LEMMA SpansJoin ==
  ASSUME NEW lo \in Nat, NEW m \in Nat, NEW hi \in Nat, lo <= m, m <= hi
  PROVE  Span(lo, m) \o Span(m, hi) = Span(lo, hi)
<1>1. /\ Span(lo, m) \in Seq(Nat) /\ Len(Span(lo, m)) = m - lo
      /\ Span(m, hi) \in Seq(Nat) /\ Len(Span(m, hi)) = hi - m
      /\ \A i \in 1 .. m - lo : Span(lo, m)[i] = lo + i
      /\ \A i \in 1 .. hi - m : Span(m, hi)[i] = m + i
  BY Spans
<1> DEFINE s == Span(lo, m)
           t == Span(m, hi)
           st == s \o t
<1>2. st \in Seq(Nat) /\ Len(st) = Len(s) + Len(t)
      /\ \A i \in 1 .. Len(s) + Len(t) : st[i] = IF i <= Len(s) THEN s[i] ELSE t[i - Len(s)]
  <2>1. s \in Seq(Nat) /\ t \in Seq(Nat)
    BY <1>1
  <2> HIDE DEF s, t
  <2> QED BY <2>1, ConcatProperties
<1>3. Len(s) + Len(t) = hi - lo /\ Len(s) = m - lo
  BY <1>1
<1>4. \A i \in 1 .. hi - lo : st[i] = lo + i
  <2> TAKE i \in 1 .. hi - lo
  <2>0. st[i] = IF i <= m - lo THEN s[i] ELSE t[i - (m - lo)]
    BY <1>2, <1>3
  <2>1. CASE i <= m - lo
    <3>1. i \in 1 .. m - lo /\ s[i] = lo + i
      BY <1>1, <2>1
    <3> QED BY <2>0, <2>1, <3>1
  <2>2. CASE ~ (i <= m - lo)
    <3>1. i - (m - lo) \in 1 .. hi - m /\ m + (i - (m - lo)) = lo + i
      BY <2>2
    <3>2. t[i - (m - lo)] = lo + i
      BY <1>1, <3>1
    <3> QED BY <2>0, <2>2, <3>2
  <2> QED BY <2>1, <2>2
<1>5. st \in Seq(Nat) /\ Len(st) = hi - lo /\ lo <= hi
  BY <1>2, <1>3
<1> HIDE DEF st
<1>6. st = Span(lo, hi)
  BY <1>4, <1>5, IsSpan
<1> QED BY <1>6 DEF st

\* A node and those before it, at most k of them, by the function f for k - 1.
Before(f, k) ==
  [n \in {None} \cup LNodes |-> IF n = None \/ k = 0 THEN <<>> ELSE <<n>> \o f[k - 1][lpre[n]]]

\* The definition of the function in ChainOf, for up to m nodes.
Follows(f, m) == f = [k \in 0 .. m |-> Before(f, k)]

LEMMA SameBefore ==
  ASSUME NEW k, NEW f, NEW g, k # 0 => f[k - 1] = g[k - 1]
  PROVE  Before(f, k) = Before(g, k)
  BY DEF Before

LEMMA FollowsExists == \A m \in Nat : \E f : Follows(f, m)
<1> DEFINE Bad == {m \in Nat : ~ \E f : Follows(f, m)}
<1> SUFFICES ASSUME Bad # {} PROVE FALSE
  OBVIOUS
<1>1. PICK m \in Bad : \A j \in Bad : m <= j
  <2>1. Bad \in SUBSET Nat
    OBVIOUS
  <2> QED BY <2>1, LeastNat
<1>2. m \in Nat /\ \A f : ~ Follows(f, m)
  BY <1>1
<1>3. CASE m = 0
  <2> DEFINE g == [k \in 0 .. 0 |-> Before([j \in {} |-> {}], k)]
  <2>1. \A k \in 0 .. 0 : Before(g, k) = Before([j \in {} |-> {}], k)
    BY DEF Before
  <2>2. Follows(g, 0)
    BY <2>1 DEF Follows
  <2> QED BY <1>2, <1>3, <2>2
<1>4. CASE m # 0
  <2>1. m - 1 \in Nat /\ m - 1 \notin Bad
    BY <1>1, <1>2, <1>4
  <2>2. PICK f : Follows(f, m - 1)
    BY <2>1
  <2> DEFINE g == [k \in 0 .. m |-> Before(f, k)]
  <2>3. \A k \in 0 .. m - 1 : g[k] = f[k]
    <3>1. \A k \in 0 .. m - 1 : k \in 0 .. m
      BY <1>2, <2>1
    <3>2. f = [k \in 0 .. m - 1 |-> Before(f, k)]
      BY <2>2 DEF Follows
    <3>3. \A k \in 0 .. m - 1 : f[k] = Before(f, k)
      <4> HIDE DEF g
      <4> QED BY <3>2
    <3> QED BY <3>1, <3>3
  <2>4. \A k \in 0 .. m : Before(f, k) = Before(g, k)
    <3> TAKE k \in 0 .. m
    <3>1. k # 0 => k - 1 \in 0 .. m - 1
      BY <1>2
    <3>2. k # 0 => f[k - 1] = g[k - 1]
      BY <2>3, <3>1
    <3> HIDE DEF g
    <3> QED BY <3>2, SameBefore
  <2>5. Follows(g, m)
    BY <2>4 DEF Follows
  <2> QED BY <1>2, <2>5
<1> QED BY <1>3, <1>4

LEMMA FollowAlong ==
  ASSUME NEW M \in Nat, NEW f, Follows(f, M), M = LMaxNodes,
         NEW lo \in Nat, NEW hi \in Nat, lo < hi, hi <= M,
         \A n \in lo + 1 .. hi : lpre[n] = IF n = hi THEN None ELSE n + 1
  PROVE  f[M][lo + 1] = Span(lo, hi)
<1> DEFINE Right(j) == \A k \in j .. M : f[k][(hi - j) + 1] = Span(hi - j, hi)
           Bad == {j \in 1 .. hi - lo : ~ Right(j)}
<1>f. \A k \in 0 .. M : \A n \in {None} \cup LNodes :
        f[k][n] = IF n = None \/ k = 0 THEN <<>> ELSE <<n>> \o f[k - 1][lpre[n]]
  <2> TAKE k \in 0 .. M
  <2> TAKE n \in {None} \cup LNodes
  <2>1. f[k] = Before(f, k)
    BY DEF Follows
  <2>2. Before(f, k)[n] = IF n = None \/ k = 0 THEN <<>> ELSE <<n>> \o f[k - 1][lpre[n]]
    BY Zenon DEF Before
  <2> QED BY <2>1, <2>2
<1>1. Bad = {}
  <2> SUFFICES ASSUME Bad # {} PROVE FALSE
    OBVIOUS
  <2>1. PICK j \in Bad : \A i \in Bad : j <= i
    <3>1. Bad \in SUBSET Nat
      OBVIOUS
    <3> QED BY <3>1, LeastNat
  <2>2. j \in 1 .. hi - lo /\ ~ Right(j)
    BY <2>1
  <2>3. PICK k \in j .. M : f[k][(hi - j) + 1] # Span(hi - j, hi)
    BY <2>2
  <2>4. PICK n \in lo + 1 .. hi : n = (hi - j) + 1
    BY <2>2
  <2>5. n \in LNodes /\ n # None /\ n \in Nat /\ n - 1 \in Nat /\ n - 1 = hi - j /\ n <= hi
        /\ k \in 0 .. M /\ k # 0 /\ k - 1 \in 0 .. M /\ n - 1 <= n /\ n - (n - 1) = 1
    BY <2>2, <2>3, <2>4 DEF LNodes, None
  <2>6. f[k][n] = <<n>> \o f[k - 1][lpre[n]]
    <3>1. f[k][n] = IF n = None \/ k = 0 THEN <<>> ELSE <<n>> \o f[k - 1][lpre[n]]
      BY <1>f, <2>5, Zenon
    <3> QED BY <2>5, <3>1, Zenon
  <2>7. f[k - 1][lpre[n]] = Span(n, hi)
    <3>1. CASE n = hi
      <4>1. f[k - 1][None] = <<>>
        BY <1>f, <2>5, Zenon
      <4>2. Span(n, hi) = <<>>
        BY <2>5, <3>1, Spans
      <4>3. lpre[n] = None
        BY <2>4, <3>1
      <4> QED BY <4>1, <4>2, <4>3
    <3>2. CASE n # hi
      <4>1. j - 1 \in 1 .. hi - lo /\ ~ (j <= j - 1) /\ n = hi - (j - 1) /\ k - 1 \in j - 1 .. M
        BY <2>2, <2>3, <2>4, <3>2
      <4>2. Right(j - 1)
        BY <2>1, <4>1
      <4>3. f[k - 1][n + 1] = Span(n, hi)
        BY <4>1, <4>2
      <4>4. lpre[n] = n + 1
        BY <2>4, <3>2
      <4> QED BY <4>3, <4>4
    <3> QED BY <3>1, <3>2
  <2>8. <<n>> = Span(n - 1, n)
    <3>1. <<n>> \in Seq(Nat) /\ Len(<<n>>) = n - (n - 1) /\ \A i \in 1 .. n - (n - 1) : <<n>>[i] = (n - 1) + i
      BY <2>5
    <3>2. \A s \in Seq(Nat) : Len(s) = n - (n - 1) /\ (\A i \in 1 .. n - (n - 1) : s[i] = (n - 1) + i)
            => s = Span(n - 1, n)
      BY <2>5, IsSpan
    <3> QED BY <3>1, <3>2, Zenon
  <2>9. Span(n - 1, n) \o Span(n, hi) = Span(n - 1, hi)
    BY <2>5, SpansJoin
  <2>10. f[k][n] = Span(n - 1, hi)
    BY <2>6, <2>7, <2>8, <2>9, Zenon
  <2> QED BY <2>3, <2>4, <2>5, <2>10
<1>2. Right(hi - lo)
  <2>1. hi - lo \in 1 .. hi - lo
    OBVIOUS
  <2> QED BY <1>1, <2>1
<1>3. M \in (hi - lo) .. M /\ (hi - (hi - lo)) + 1 = lo + 1 /\ hi - (hi - lo) = lo
  OBVIOUS
<1> HIDE DEF Right
<1>4. f[M][(hi - (hi - lo)) + 1] = Span(hi - (hi - lo), hi)
  BY <1>2, <1>3 DEF Right
<1> QED BY <1>3, <1>4

LEMMA ChainIsSpan ==
  ASSUME NEW l, NEW lo \in Nat, NEW hi \in Nat, lo <= hi, hi <= LMaxNodes,
         ltail[l] = IF lo < hi THEN lo + 1 ELSE None,
         \A n \in lo + 1 .. hi : lpre[n] = IF n = hi THEN None ELSE n + 1
  PROVE  ChainOf(l) = Span(lo, hi)
<1>1. PICK M \in Nat : M = LMaxNodes
  BY SpinListAssumption
<1>2. PICK f : f = (CHOOSE g : Follows(g, M)) /\ ChainOf(l) = f[M][ltail[l]]
  BY <1>1 DEF ChainOf, Follows, Before
<1>3. Follows(f, M)
  BY <1>1, <1>2, FollowsExists
<1>4. CASE lo < hi
  <2>1. f[M][lo + 1] = Span(lo, hi)
    BY <1>1, <1>3, <1>4, FollowAlong
  <2> QED BY <1>2, <1>4, <2>1
<1>5. CASE lo = hi
  <2>1. ltail[l] = None /\ Span(lo, hi) = <<>>
    BY <1>5, Spans
  <2>2. f[M] = Before(f, M)
    <3>1. M \in 0 .. M
      OBVIOUS
    <3> QED BY <1>3, <3>1 DEF Follows
  <2>3. f[M][None] = <<>>
    BY <2>2 DEF Before
  <2> QED BY <1>2, <2>1, <2>3
<1> QED BY <1>4, <1>5

LEMMA LInitInv == LInit => LInv /\ popped = 0 /\ Linked = 0
<1> SUFFICES ASSUME LInit PROVE LInv /\ popped = 0 /\ Linked = 0
  OBVIOUS
<1>1. Linked = 0 /\ popped = 0 /\ 0 \in 0 .. LMaxNodes /\ LMaxNodes \in Nat
  BY SpinListAssumption DEF LInit, Linked, None
<1>2. LTypes
  <2>1. freed = 1 .. popped
    BY <1>1 DEF LInit
  <2> QED BY <1>1, <2>1 DEF LInit, LTypes, None
<1>3. Ends(0)
  BY <1>1 DEF LInit, Ends, Lists
<1>4. Links(0)
  BY <1>1 DEF LInit, Links, LNodes
<1>5. InHand(0)
  BY DEF LInit, InHand
<1> QED BY <1>1, <1>2, <1>3, <1>4, <1>5 DEF LInv

\* What a step does to the queue: nothing, or it links one more node behind the
\* others, or takes the first.
SpinMoves ==
  \/ popped' = popped /\ Linked' = Linked
  \/ popped' = popped /\ Linked' = Linked + 1
  \/ popped' = popped + 1 /\ Linked' = Linked /\ popped < Linked

LEMMA LStepInv == LInv /\ [LNext]_lvars => LInv' /\ SpinMoves
<1> SUFFICES ASSUME LInv, [LNext]_lvars PROVE LInv' /\ SpinMoves
  OBVIOUS
<1>1. ASSUME NEW t \in LThreads, PushBegin(t) PROVE LInv' /\ SpinMoves
  BY <1>1, BeginLInv DEF SpinMoves
<1>2. ASSUME NEW t \in LThreads, PushLink(t) PROVE LInv' /\ SpinMoves
  BY <1>2, LinkLInv DEF SpinMoves
<1>3. ASSUME NEW t \in LThreads, PushEnd(t) PROVE LInv' /\ SpinMoves
  BY <1>3, EndLInv DEF SpinMoves
<1>4. ASSUME NEW t \in LThreads, PopBegin(t) PROVE LInv' /\ SpinMoves
  BY <1>4, PopBeginLInv DEF SpinMoves
<1>5. ASSUME NEW t \in LThreads, PopEnd(t) PROVE LInv' /\ SpinMoves
  BY <1>5, PopEndLInv DEF SpinMoves
<1>6. CASE MoveTo \/ Merge
  BY <1>6, MoverLInv DEF SpinMoves
<1>7. CASE PopOwn
  BY <1>7, PopOwnLInv DEF SpinMoves
<1>8. CASE UNCHANGED lvars
  <2> USE <1>8 DEF lvars, links
  <2>1. Linked' = Linked
    BY DEF Linked
  <2>2. LTypes'
    BY DEF LInv, LTypes
  <2>3. PICK m \in 0 .. LMaxNodes : Ends(m) /\ Links(m) /\ InHand(m)
    BY DEF LInv
  <2>4. Ends(m)' /\ Links(m)' /\ InHand(m)'
    BY <2>1, <2>3 DEF Ends, Links, InHand
  <2> QED BY <2>1, <2>2, <2>3, <2>4 DEF LInv, SpinMoves
<1> QED BY <1>1, <1>2, <1>3, <1>4, <1>5, <1>6, <1>7, <1>8 DEF LNext

\* The two lists are what was linked and not yet taken.
SpinContents ==
  /\ popped \in Nat /\ Linked \in Nat /\ popped <= Linked /\ Linked <= LMaxNodes
  /\ ChainOf("own") \o ChainOf("shared") = Span(popped, Linked)

LEMMA ListsAre ==
  ASSUME LTypes, NEW m \in 0 .. LMaxNodes, Ends(m), Links(m)
  PROVE  ChainOf("own") = Span(popped, m) /\ ChainOf("shared") = Span(m, Linked)
<1>1. SpinFacts
  BY SpinFactsHold
<1>2. /\ m \in Nat /\ popped \in Nat /\ Linked \in Nat /\ popped <= m /\ m <= Linked /\ Linked <= LMaxNodes
      /\ m <= LMaxNodes
  BY <1>1 DEF Ends, SpinFacts
<1>3. \A n \in popped + 1 .. m : lpre[n] = IF n = m THEN None ELSE n + 1
  <2> TAKE n \in popped + 1 .. m
  <2>1. n \in popped + 1 .. Linked /\ (n = Linked => n = m)
    BY <1>2
  <2> QED BY <2>1 DEF Links
<1>4. \A n \in m + 1 .. Linked : lpre[n] = IF n = Linked THEN None ELSE n + 1
  <2> TAKE n \in m + 1 .. Linked
  <2>1. n \in popped + 1 .. Linked /\ n # m
    BY <1>2
  <2> QED BY <2>1 DEF Links
<1>5. ltail["own"] = IF popped < m THEN popped + 1 ELSE None
  BY DEF Ends
<1>6. ltail["shared"] = IF m < Linked THEN m + 1 ELSE None
  BY DEF Ends
<1>7. ChainOf("own") = Span(popped, m)
  BY <1>2, <1>3, <1>5, ChainIsSpan
<1>8. ChainOf("shared") = Span(m, Linked)
  BY <1>2, <1>4, <1>6, ChainIsSpan
<1> QED BY <1>7, <1>8

LEMMA SpinContentsAre == LInv => SpinContents
<1> SUFFICES ASSUME LInv PROVE SpinContents
  OBVIOUS
<1>1. PICK m \in 0 .. LMaxNodes : LTypes /\ Ends(m) /\ Links(m)
  BY DEF LInv
<1>2. ChainOf("own") = Span(popped, m) /\ ChainOf("shared") = Span(m, Linked)
  BY <1>1, ListsAre
<1>3. SpinFacts
  BY <1>1, SpinFactsHold
<1>4. /\ m \in Nat /\ popped \in Nat /\ Linked \in Nat /\ popped <= m /\ m <= Linked /\ Linked <= LMaxNodes
      /\ popped <= Linked
  BY <1>1, <1>3 DEF Ends, SpinFacts
<1>5. Span(popped, m) \o Span(m, Linked) = Span(popped, Linked)
  BY <1>4, SpansJoin
<1> QED BY <1>2, <1>4, <1>5 DEF SpinContents

LEMMA LinkedWell == LInv => WellLinked
<1> SUFFICES ASSUME LInv, lock = {}, NEW l \in Lists
             PROVE  /\ (lhead[l] = None) = (ltail[l] = None)
                    /\ ChainOf(l) # <<>> => ChainOf(l)[Len(ChainOf(l))] = lhead[l] /\ lnext[ChainOf(l)[1]] = None
                    /\ \A k \in 2 .. Len(ChainOf(l)) : lnext[ChainOf(l)[k]] = ChainOf(l)[k - 1]
                    /\ \A k \in DOMAIN ChainOf(l) : ChainOf(l)[k] \notin freed
  BY DEF WellLinked
<1>1. PICK m \in 0 .. LMaxNodes : LTypes /\ Ends(m) /\ Links(m)
  BY DEF LInv
<1>2. ChainOf("own") = Span(popped, m) /\ ChainOf("shared") = Span(m, Linked)
  BY <1>1, ListsAre
<1>3. SpinFacts
  BY <1>1, SpinFactsHold
<1>4. /\ m \in Nat /\ popped \in Nat /\ Linked \in Nat /\ popped <= m /\ m <= Linked
  BY <1>1, <1>3 DEF Ends, SpinFacts
<1>5. \A t \in LThreads : stpc[t] # "head"
  BY <1>1 DEF LTypes
<1>6. /\ ltail["own"] = IF popped < m THEN popped + 1 ELSE None
      /\ lhead["own"] = IF popped < m THEN m ELSE None
      /\ ltail["shared"] = IF m < Linked THEN m + 1 ELSE None
      /\ lhead["shared"] = IF m < Linked THEN Linked ELSE None
  BY <1>1, <1>5 DEF Ends
<1>7. PICK lo \in Nat, hi \in Nat :
        /\ popped <= lo /\ lo <= hi /\ hi <= Linked /\ ChainOf(l) = Span(lo, hi)
        /\ lo = popped \/ lo = m
        /\ ltail[l] = IF lo < hi THEN lo + 1 ELSE None
        /\ lhead[l] = IF lo < hi THEN hi ELSE None
        /\ hi = m \/ hi = Linked
        /\ lo # m => hi = m
  <2>1. CASE l = "own"
    BY <1>2, <1>4, <1>6, <2>1
  <2>2. CASE l = "shared"
    BY <1>2, <1>4, <1>6, <2>2
  <2> QED BY <2>1, <2>2 DEF Lists
<1>8. (lhead[l] = None) = (ltail[l] = None)
  BY <1>7 DEF None
<1> DEFINE c == ChainOf(l)
<1>9. /\ Len(c) = hi - lo /\ DOMAIN c = 1 .. hi - lo /\ \A k \in 1 .. hi - lo : c[k] = lo + k
      /\ lo = hi => c = <<>>
  BY <1>7, Spans
<1> HIDE DEF c
<1>10. \A n \in lo + 1 .. hi : lnext[n] = IF n = lo + 1 THEN None ELSE n - 1
  <2> TAKE n \in lo + 1 .. hi
  <2>1. n \in popped + 1 .. Linked
    BY <1>4, <1>7
  <2>2. lnext[n] = IF n = popped + 1 \/ n = m + 1 THEN None ELSE n - 1
    BY <1>1, <2>1 DEF Links
  <2>3. (n = popped + 1 \/ n = m + 1) <=> n = lo + 1
    BY <1>4, <1>7, <2>1
  <2> QED BY <2>2, <2>3
<1>11. c # <<>> => c[Len(c)] = lhead[l] /\ lnext[c[1]] = None
  <2> SUFFICES ASSUME c # <<>> PROVE c[Len(c)] = lhead[l] /\ lnext[c[1]] = None
    OBVIOUS
  <2>1. lo < hi /\ hi - lo \in 1 .. hi - lo /\ 1 \in 1 .. hi - lo /\ lo + (hi - lo) = hi /\ lo + 1 \in lo + 1 .. hi
    BY <1>7, <1>9
  <2>2. c[Len(c)] = hi /\ c[1] = lo + 1
    BY <1>9, <2>1
  <2> QED BY <1>7, <1>10, <2>1, <2>2
<1>12. \A k \in 2 .. Len(c) : lnext[c[k]] = c[k - 1]
  <2> TAKE k \in 2 .. Len(c)
  <2>1. k \in 1 .. hi - lo /\ k - 1 \in 1 .. hi - lo /\ lo + k \in lo + 1 .. hi /\ lo + k # lo + 1
        /\ (lo + k) - 1 = lo + (k - 1)
    BY <1>9
  <2> QED BY <1>9, <1>10, <2>1
<1>13. \A k \in DOMAIN c : c[k] \notin freed
  <2> TAKE k \in DOMAIN c
  <2>1. k \in 1 .. hi - lo /\ c[k] = lo + k
    BY <1>9
  <2>2. ~ (lo + k <= popped)
    BY <1>4, <1>7, <2>1
  <2> QED BY <1>3, <2>1, <2>2 DEF SpinFacts
<1> QED BY <1>8, <1>11, <1>12, <1>13 DEF c

\* The steps of SpinList are those of Fifo: pushing puts an element behind the
\* others when the new node is linked, popping takes the first one, from either
\* list, and the mover's splicing changes nothing.
SpinFifoStep ==
  \/ UNCHANGED LFifo!vars
  \/ \E e \in LNodes : LFifo!Enqueue(e)
  \/ LFifo!Dequeue

LEMMA SpinStepIsFifo == SpinContents /\ SpinContents' /\ SpinMoves => SpinFifoStep
<1> SUFFICES ASSUME SpinContents, SpinContents', SpinMoves PROVE SpinFifoStep
  OBVIOUS
<1> DEFINE before == ChainOf("own") \o ChainOf("shared")
           after == (ChainOf("own") \o ChainOf("shared"))'
<1>1. /\ popped \in Nat /\ Linked \in Nat /\ popped <= Linked /\ before = Span(popped, Linked)
      /\ after = Span(popped', Linked') /\ Linked' <= LMaxNodes
  BY DEF SpinContents
<1>2. CASE popped' = popped /\ Linked' = Linked
  <2>1. after = before
    BY <1>1, <1>2
  <2> QED BY <1>2, <2>1 DEF SpinFifoStep, LFifo!vars
<1>3. CASE popped' = popped /\ Linked' = Linked + 1
  <2>1. after = Append(before, Linked + 1)
    BY <1>1, <1>3, Spans
  <2>2. Linked + 1 \in LNodes
    BY <1>1, <1>3, SpinListAssumption DEF LNodes
  <2>3. LFifo!Enqueue(Linked + 1)
    BY <1>3, <2>1 DEF LFifo!Enqueue
  <2> QED BY <2>2, <2>3 DEF SpinFifoStep
<1>4. CASE popped' = popped + 1 /\ Linked' = Linked /\ popped < Linked
  <2>1. Head(before) = popped + 1 /\ Tail(before) = Span(popped + 1, Linked) /\ Len(before) = Linked - popped
    BY <1>1, <1>4, Spans
  <2>2. before # <<>>
    <3>1. Linked - popped # 0 /\ Len(<<>>) = 0
      BY <1>1, <1>4
    <3> QED BY <2>1, <3>1
  <2>3. after = Tail(before) /\ popped' = Head(before)
    BY <1>1, <1>4, <2>1
  <2>4. LFifo!Dequeue
    BY <2>2, <2>3 DEF LFifo!Dequeue
  <2> QED BY <2>4 DEF SpinFifoStep
<1> QED BY <1>2, <1>3, <1>4 DEF SpinMoves

\* The list that carries the tasks of Epoller and WorkGroup is a queue: for any
\* number of threads and pushes, what is pushed is taken once and in order, from
\* the list itself or from the one its consumer moves or merges it into, and
\* with the lock free both lists are linked the same way in both directions.
THEOREM SpinListRefinesFifo == LSpec => SpinListIsFifo
<1>1. LInit => LInv /\ LFifo!Init
  <2> SUFFICES ASSUME LInit PROVE LInv /\ LFifo!Init
    OBVIOUS
  <2>1. LInv /\ popped = 0 /\ Linked = 0
    BY LInitInv
  <2>2. ChainOf("own") \o ChainOf("shared") = Span(0, 0)
    BY <2>1, SpinContentsAre DEF SpinContents
  <2>3. Span(0, 0) = <<>>
    BY Spans
  <2> QED BY <2>1, <2>2, <2>3 DEF LFifo!Init, None
<1>2. LInv /\ [LNext]_lvars => LInv' /\ SpinMoves
  BY LStepInv
<1>3. SpinFifoStep => [LFifo!Dequeue \/ \E e \in LNodes : LFifo!Enqueue(e)]_(LFifo!vars)
  BY DEF SpinFifoStep
<1>4. WellLinked' => [WellLinked']_lvars
  OBVIOUS
<1> QED BY <1>1, <1>2, <1>3, <1>4, SpinContentsAre, LinkedWell, SpinStepIsFifo, PTL
        DEF LSpec, SpinListIsFifo, LFifo!Spec
-----------------------------------------------------------------------------
(* LockFreeQueue: arithmetic of the counters.                              *)

LEMMA Divided ==
  ASSUME NEW x \in Int, NEW n \in Nat, n > 0
  PROVE  x = (n * (x \div n)) + (x % n) /\ x % n \in 0..(n - 1) /\ x \div n \in Int
  OBVIOUS

LEMMA DividedOnce ==
  ASSUME NEW x \in Int, NEW n \in Nat, n > 0, NEW q \in Int, NEW r \in 0..(n - 1), x = (n * q) + r
  PROVE  x % n = r /\ x \div n = q
<1>1. x % n = r
  OBVIOUS
<1>2. /\ x = (n * (x \div n)) + (x % n) /\ x \div n \in Int
  BY Divided
<1>3. n * (x \div n) = n * q
  BY <1>1, <1>2
<1> QED BY <1>1, <1>2, <1>3

\* The definition of Pow2, for numbers up to m.
Doubles(f, m) == f = [k \in 0..m |-> IF k = 0 THEN 1 ELSE 2 * f[k - 1]]

LEMMA DoublesExists == \A m \in Nat : \E f : Doubles(f, m)
<1> DEFINE Bad == {m \in Nat : ~ \E f : Doubles(f, m)}
<1> SUFFICES ASSUME Bad # {} PROVE FALSE
  OBVIOUS
<1>1. PICK m \in Bad : \A j \in Bad : m <= j
  <2>1. Bad \in SUBSET Nat
    OBVIOUS
  <2> QED BY <2>1, LeastNat
<1>2. m \in Nat /\ \A f : ~ Doubles(f, m)
  BY <1>1
<1>3. CASE m = 0
  <2>1. Doubles([k \in 0..0 |-> 1], 0)
    BY DEF Doubles
  <2> QED BY <1>2, <1>3, <2>1
<1>4. CASE m # 0
  <2>1. m - 1 \in Nat /\ m - 1 \notin Bad
    BY <1>1, <1>2, <1>4
  <2>2. PICK f : Doubles(f, m - 1)
    BY <2>1
  <2> DEFINE g == [k \in 0..m |-> IF k = 0 THEN 1 ELSE 2 * f[k - 1]]
  <2>3. \A k \in 0..m - 1 : g[k] = f[k]
    <3>1. \A k \in 0..m - 1 : k \in 0..m
      BY <1>2, <2>1
    <3>2. \A k \in 0..m - 1 : f[k] = IF k = 0 THEN 1 ELSE 2 * f[k - 1]
      BY <2>2 DEF Doubles
    <3> QED BY <3>1, <3>2
  <2>4. \A k \in 0..m : k # 0 => g[k - 1] = f[k - 1]
    <3>1. \A k \in 0..m : k # 0 => k - 1 \in 0..m - 1
      BY <1>2
    <3> HIDE DEF g
    <3> QED BY <2>3, <3>1
  <2>5. Doubles(g, m)
    <3>1. g = [k \in 0..m |-> IF k = 0 THEN 1 ELSE 2 * f[k - 1]]
      OBVIOUS
    <3> HIDE DEF g
    <3> QED BY <2>4, <3>1 DEF Doubles
  <2> QED BY <1>2, <2>5
<1> QED BY <1>3, <1>4

LEMMA Pow2Is == /\ Pow2[0] = 1
                /\ \A k \in 1..CounterBits : Pow2[k] = 2 * Pow2[k - 1]
<1>1. CounterBits \in Nat
  BY LockFreeQueueAssumption
<1>2. Doubles(Pow2, CounterBits)
  <2>1. PICK f : Doubles(f, CounterBits)
    BY <1>1, DoublesExists
  <2> QED BY <2>1 DEF Pow2, Doubles
<1>3. \A k \in 0..CounterBits : Pow2[k] = IF k = 0 THEN 1 ELSE 2 * Pow2[k - 1]
  BY <1>2 DEF Doubles
<1> QED BY <1>1, <1>3

LEMMA Pow2Positive == \A k \in 0..CounterBits : Pow2[k] \in Nat /\ Pow2[k] > 0
<1> DEFINE Bad == {k \in 0..CounterBits : ~ (Pow2[k] \in Nat /\ Pow2[k] > 0)}
<1> SUFFICES ASSUME Bad # {} PROVE FALSE
  OBVIOUS
<1>0. CounterBits \in Nat
  BY LockFreeQueueAssumption
<1>1. PICK k \in Bad : \A j \in Bad : k <= j
  <2>1. Bad \in SUBSET Nat
    BY <1>0
  <2> QED BY <2>1, LeastNat
<1>2. k \in 0..CounterBits /\ ~ (Pow2[k] \in Nat /\ Pow2[k] > 0)
  BY <1>1
<1>3. k # 0
  BY <1>2, Pow2Is
<1>4. k - 1 \in 0..CounterBits /\ k - 1 \notin Bad /\ k \in 1..CounterBits
  BY <1>0, <1>1, <1>2, <1>3
<1>5. Pow2[k - 1] \in Nat /\ Pow2[k - 1] > 0 /\ Pow2[k] = 2 * Pow2[k - 1]
  BY <1>4, Pow2Is
<1> QED BY <1>2, <1>5

\* A smaller power divides a larger one.
LEMMA Pow2Divides ==
  ASSUME NEW k \in 0..CounterBits
  PROVE  \A j \in k..CounterBits : \E d \in Nat : d > 0 /\ Pow2[j] = Pow2[k] * d
<1> DEFINE Bad == {j \in k..CounterBits : ~ \E d \in Nat : d > 0 /\ Pow2[j] = Pow2[k] * d}
<1> SUFFICES ASSUME Bad # {} PROVE FALSE
  OBVIOUS
<1>0. CounterBits \in Nat
  BY LockFreeQueueAssumption
<1>1. PICK j \in Bad : \A i \in Bad : j <= i
  <2>1. Bad \in SUBSET Nat
    BY <1>0
  <2> QED BY <2>1, LeastNat
<1>2. j \in k..CounterBits /\ \A d \in Nat : ~ (d > 0 /\ Pow2[j] = Pow2[k] * d)
  BY <1>1
<1>3. Pow2[k] \in Nat
  BY Pow2Positive
<1>4. j # k
  <2>1. Pow2[k] = Pow2[k] * 1
    BY <1>3
  <2> QED BY <1>2, <2>1
<1>5. j - 1 \in k..CounterBits /\ j - 1 \notin Bad /\ j \in 1..CounterBits
  BY <1>0, <1>1, <1>2, <1>4
<1>6. PICK d \in Nat : d > 0 /\ Pow2[j - 1] = Pow2[k] * d
  BY <1>5
<1>7. Pow2[j] = 2 * Pow2[j - 1]
  BY <1>5, Pow2Is
<1>8. Pow2[j] = Pow2[k] * (2 * d)
  BY <1>3, <1>6, <1>7
<1>9. 2 * d \in Nat /\ 2 * d > 0
  BY <1>6
<1> QED BY <1>2, <1>8, <1>9

\* What the comments of both classes ask of Q_SIZE: a power of 2.
PowerOf2 == \E k \in 0..CounterBits : Q_SIZE = Pow2[k]

\* The bit of weight n in x.
LEMMA BitOf ==
  ASSUME NEW x \in Nat, NEW k \in 0..CounterBits - 1
  PROVE  /\ Bit(x, k) \in {0, 1}
         /\ x % Pow2[k + 1] = (x % Pow2[k]) + (Pow2[k] * Bit(x, k))
<1> DEFINE n == Pow2[k]  q == x \div n
<1>1. k \in 0..CounterBits /\ k + 1 \in 1..CounterBits
  BY LockFreeQueueAssumption
<1>2. n \in Nat /\ n > 0 /\ Pow2[k + 1] = 2 * n
  BY <1>1, Pow2Positive, Pow2Is
<1> HIDE DEF n
<1>3. x = (n * q) + (x % n) /\ x % n \in 0..(n - 1) /\ q \in Int
  BY <1>2, Divided
<1> HIDE DEF q
<1>4. q = (2 * (q \div 2)) + (q % 2) /\ q % 2 \in {0, 1} /\ q \div 2 \in Int
  BY <1>3
<1>5. x = ((2 * n) * (q \div 2)) + ((x % n) + (n * (q % 2)))
  <2>1. n * q = ((2 * n) * (q \div 2)) + (n * (q % 2))
    <3>1. n * q = n * ((2 * (q \div 2)) + (q % 2))
      BY <1>4
    <3>2. n * ((2 * (q \div 2)) + (q % 2)) = ((2 * n) * (q \div 2)) + (n * (q % 2))
      BY <1>2, <1>4
    <3> QED BY <3>1, <3>2
  <2>2. n * (q % 2) \in Int /\ (2 * n) * (q \div 2) \in Int
    BY <1>2, <1>4
  <2> QED BY <1>3, <2>1, <2>2
<1>6. (x % n) + (n * (q % 2)) \in 0..((2 * n) - 1)
  <2>1. CASE q % 2 = 0
    BY <1>2, <1>3, <2>1
  <2>2. CASE q % 2 = 1
    BY <1>2, <1>3, <2>2
  <2> QED BY <1>4, <2>1, <2>2
<1>7. x % (2 * n) = (x % n) + (n * (q % 2))
  <2>1. 2 * n \in Nat /\ 2 * n > 0 /\ x \in Int /\ q \div 2 \in Int
    BY <1>2, <1>4
  <2> QED BY <1>5, <1>6, <2>1, DividedOnce
<1>8. Bit(x, k) = q % 2
  BY DEF Bit, q, n
<1> QED BY <1>2, <1>4, <1>7, <1>8 DEF n

\* A counter is known by its bits.
LEMMA SameBits ==
  ASSUME NEW x \in Counters, NEW y \in Counters,
         \A k \in 0..CounterBits - 1 : Bit(x, k) = Bit(y, k)
  PROVE  x = y
<1> DEFINE Bad == {k \in 0..CounterBits : x % Pow2[k] # y % Pow2[k]}
<1>0. CounterBits \in Nat /\ \A k \in 0..CounterBits : Pow2[k] \in Nat /\ Pow2[k] > 0
  BY LockFreeQueueAssumption, Pow2Positive
<1>1. x \in Nat /\ y \in Nat
  BY <1>0 DEF Counters
<1>2. Bad = {}
  <2> SUFFICES ASSUME Bad # {} PROVE FALSE
    OBVIOUS
  <2>1. PICK k \in Bad : \A j \in Bad : k <= j
    <3>1. Bad \in SUBSET Nat
      BY <1>0
    <3> QED BY <3>1, LeastNat
  <2>2. k \in 0..CounterBits /\ x % Pow2[k] # y % Pow2[k]
    BY <2>1
  <2>3. k # 0
    <3>1. \A z \in Nat : z % 1 = 0
      OBVIOUS
    <3> QED BY <1>1, <2>2, <3>1, Pow2Is
  <2>4. k - 1 \in 0..CounterBits - 1 /\ k - 1 \in 0..CounterBits /\ k - 1 \notin Bad
    BY <1>0, <2>1, <2>2, <2>3
  <2>5. x % Pow2[k - 1] = y % Pow2[k - 1] /\ Bit(x, k - 1) = Bit(y, k - 1)
    BY <2>4
  <2>6. (k - 1) + 1 = k
    BY <2>2
  <2> QED BY <1>1, <2>2, <2>4, <2>5, <2>6, BitOf
<1>3. x % Pow2[CounterBits] = y % Pow2[CounterBits]
  BY <1>0, <1>2
<1>4. \A z \in Counters : z % Pow2[CounterBits] = z
  <2> TAKE z \in Counters
  <2>1. Pow2[CounterBits] \in Nat /\ Pow2[CounterBits] > 0
    BY <1>0
  <2>2. z \in 0..(Pow2[CounterBits] - 1) /\ z = (Pow2[CounterBits] * 0) + z
    BY <2>1 DEF Counters
  <2> QED BY <2>1, <2>2, DividedOnce
<1> QED BY <1>3, <1>4

\* The bits of x % Pow2[k] are the lower ones of x; those of Pow2[k] - 1 are the
\* lower ones.
LEMMA LowerBits ==
  ASSUME NEW k \in 0..CounterBits, NEW j \in 0..CounterBits - 1, NEW x \in Nat
  PROVE  /\ Bit(Pow2[k] - 1, j) = IF j < k THEN 1 ELSE 0
         /\ Bit(x % Pow2[k], j) = IF j < k THEN Bit(x, j) ELSE 0
<1> DEFINE n == Pow2[j]  K == Pow2[k]
<1>1. j \in 0..CounterBits /\ j + 1 \in 1..CounterBits /\ CounterBits \in Nat
  BY LockFreeQueueAssumption
<1>2. n \in Nat /\ n > 0 /\ K \in Nat /\ K > 0 /\ Pow2[j + 1] = 2 * n
  BY <1>1, Pow2Positive, Pow2Is
<1>3. \A y : Bit(y, j) = (y \div n) % 2
  BY DEF Bit
<1>4. CASE j < k
  <2>1. j + 1 \in 0..CounterBits /\ k \in j + 1..CounterBits
    BY <1>1, <1>4
  <2>2. PICK d \in Nat : d > 0 /\ K = (2 * n) * d
    BY <1>2, <2>1, Pow2Divides
  <2> HIDE DEF n, K
  <2>3. (K - 1) \div n = (2 * d) - 1
    <3>1. K - 1 = (n * ((2 * d) - 1)) + (n - 1)
      BY <1>2, <2>2
    <3>2. K - 1 \in Int /\ (2 * d) - 1 \in Int /\ n - 1 \in 0..(n - 1)
      BY <1>2, <2>2
    <3> QED BY <1>2, <3>1, <3>2, DividedOnce
  <2>4. ((2 * d) - 1) % 2 = 1
    BY <2>2
  <2>5. PICK q \in Int, r \in 0..(K - 1) : x = (K * q) + r /\ x % K = r
    <3>1. x = (K * (x \div K)) + (x % K) /\ x % K \in 0..(K - 1) /\ x \div K \in Int
      BY <1>2, Divided
    <3> QED BY <3>1
  <2>6. r = (n * (r \div n)) + (r % n) /\ r % n \in 0..(n - 1) /\ r \div n \in Int
    BY <1>2, <2>5, Divided
  <2>7. x \div n = (2 * (d * q)) + (r \div n)
    <3>1. K * q = n * (2 * (d * q))
      <4>1. ((2 * n) * d) * q = n * (2 * (d * q))
        BY <1>2, <2>2, <2>5
      <4> QED BY <2>2, <4>1
    <3>2. 2 * (d * q) \in Int /\ d * q \in Int
      BY <2>2, <2>5
    <3>3. n * ((2 * (d * q)) + (r \div n)) = (n * (2 * (d * q))) + (n * (r \div n))
      BY <1>2, <2>6, <3>2
    <3>4. /\ K * q \in Int /\ n * (r \div n) \in Int /\ r \in Int
          /\ r % n \in Int
      BY <1>2, <2>5, <2>6
    <3>5. x = (n * ((2 * (d * q)) + (r \div n))) + (r % n)
      BY <2>5, <2>6, <3>1, <3>3, <3>4
    <3> QED BY <1>2, <2>6, <3>2, <3>5, DividedOnce
  <2>8. ((2 * (d * q)) + (r \div n)) % 2 = (r \div n) % 2
    <3>1. d * q \in Int
      BY <2>2, <2>5
    <3> QED BY <2>6, <3>1
  <2> QED BY <1>3, <1>4, <2>3, <2>4, <2>5, <2>7, <2>8 DEF K
<1>5. CASE ~ j < k
  <2>1. j \in k..CounterBits
    BY <1>1, <1>5
  <2>2. PICK d \in Nat : d > 0 /\ n = K * d
    BY <2>1, Pow2Divides
  <2> HIDE DEF n, K
  <2>3. K <= n
    BY <1>2, <2>2
  <2>4. ASSUME NEW y \in 0..(K - 1)  PROVE y \div n = 0
    <3>1. y \in 0..(n - 1) /\ y = (n * 0) + y
      BY <1>2, <2>3
    <3> QED BY <1>2, <3>1, DividedOnce
  <2>5. K - 1 \in 0..(K - 1) /\ x % K \in 0..(K - 1)
    BY <1>2, Divided
  <2>6. (K - 1) \div n = 0 /\ (x % K) \div n = 0
    BY <2>4, <2>5
  <2> QED BY <1>3, <1>5, <2>6 DEF K
<1> QED BY <1>4, <1>5

LEMMA MaskIsRemainder ==
  ASSUME PowerOf2
  PROVE  \A c \in Counters : Masked[c] = c % Q_SIZE
<1> SUFFICES ASSUME NEW c \in Counters  PROVE Masked[c] = c % Q_SIZE
  OBVIOUS
<1>1. PICK k \in 0..CounterBits : Q_SIZE = Pow2[k]
  BY DEF PowerOf2
<1>2. Q_SIZE \in Nat /\ Q_SIZE > 0 /\ Pow2[CounterBits] \in Nat /\ CounterBits \in Nat
  <2>1. CounterBits \in Nat
    BY LockFreeQueueAssumption
  <2> QED BY <1>1, <2>1, Pow2Positive
<1>3. c \in Nat /\ c < Pow2[CounterBits]
  BY <1>2 DEF Counters
<1>4. c % Q_SIZE \in Counters
  <2>1. PICK q \in Int, r \in 0..(Q_SIZE - 1) : c = (Q_SIZE * q) + r /\ c % Q_SIZE = r
    <3>1. c \in Int
      BY <1>3
    <3>2. /\ c = (Q_SIZE * (c \div Q_SIZE)) + (c % Q_SIZE)
          /\ c % Q_SIZE \in 0..(Q_SIZE - 1) /\ c \div Q_SIZE \in Int
      BY <1>2, <3>1, Divided
    <3> QED BY <3>2
  <2>2. q >= 0
    <3> SUFFICES ASSUME q <= -1 PROVE FALSE
      BY <2>1
    <3>1. Q_SIZE * q <= - Q_SIZE
      BY <1>2, <2>1
    <3>2. Q_SIZE * q \in Int
      BY <1>2, <2>1
    <3> QED BY <1>2, <1>3, <2>1, <3>1, <3>2
  <2>3. Q_SIZE * q >= 0 /\ Q_SIZE * q \in Int
    BY <1>2, <2>1, <2>2
  <2>4. r <= c
    BY <1>3, <2>1, <2>3
  <2> QED BY <1>2, <1>3, <2>1, <2>4 DEF Counters
<1> DEFINE Right(x) == \A j \in 0..(CounterBits - 1) : Bit(x, j) = Bit(c, j) * Bit(Q_SIZE - 1, j)
<1>5. Right(c % Q_SIZE)
  <2> SUFFICES ASSUME NEW j \in 0..(CounterBits - 1)
               PROVE  Bit(c % Q_SIZE, j) = Bit(c, j) * Bit(Q_SIZE - 1, j)
    OBVIOUS
  <2>1. /\ Bit(Q_SIZE - 1, j) = IF j < k THEN 1 ELSE 0
        /\ Bit(c % Q_SIZE, j) = IF j < k THEN Bit(c, j) ELSE 0
    BY <1>1, <1>3, LowerBits
  <2>2. Bit(c, j) \in {0, 1}
    BY <1>3, BitOf
  <2> QED BY <2>1, <2>2
<1>6. Masked[c] = CHOOSE x \in Counters : Right(x)
  BY DEF Masked
<1>7. Masked[c] \in Counters /\ Right(Masked[c])
  <2> HIDE DEF Right
  <2> QED BY <1>4, <1>5, <1>6
<1>8. \A j \in 0..CounterBits - 1 : Bit(Masked[c], j) = Bit(c % Q_SIZE, j)
  BY <1>5, <1>7
<1> QED BY <1>4, <1>7, <1>8, SameBits

\* The counter and the slot at an absolute position of the queue.
CounterOf(x) == x % Pow2[CounterBits]
QSlot(x) == x % Q_SIZE

LEMMA SameRemainder ==
  ASSUME NEW n \in Nat, n > 0, NEW x \in Nat, NEW y \in Nat, x <= y, y < x + n, x % n = y % n
  PROVE  x = y
<1>1. /\ x = (n * (x \div n)) + (x % n) /\ x \div n \in Int /\ x % n \in 0..(n - 1)
      /\ y = (n * (y \div n)) + (y % n) /\ y \div n \in Int
  BY Divided
<1> DEFINE p == x \div n  q == y \div n
<1> HIDE DEF p, q
<1>2. p \in Int /\ q \in Int /\ n * p \in Int /\ n * q \in Int /\ y - x = (n * q) - (n * p)
  BY <1>1 DEF p, q
<1>3. ~ q > p
  <2> SUFFICES ASSUME q > p PROVE FALSE
    OBVIOUS
  <2>1. n * q >= (n * p) + n
    BY <1>2
  <2> QED BY <1>2, <2>1
<1>4. ~ p > q
  <2> SUFFICES ASSUME p > q PROVE FALSE
    OBVIOUS
  <2>1. n * p >= (n * q) + n
    BY <1>2
  <2> QED BY <1>2, <2>1
<1>5. p = q
  BY <1>2, <1>3, <1>4
<1> QED BY <1>2, <1>5

LEMMA NextRemainder ==
  ASSUME NEW n \in Nat, n > 0, NEW x \in Int
  PROVE  ((x % n) + 1) % n = (x + 1) % n
<1>1. x = (n * (x \div n)) + (x % n) /\ x \div n \in Int /\ x % n \in 0..(n - 1)
  BY Divided
<1> DEFINE q == x \div n  r == x % n
<1> HIDE DEF q, r
<1>2. q \in Int /\ r \in 0..(n - 1) /\ x = (n * q) + r /\ n * q \in Int
  BY <1>1 DEF q, r
<1>3. CASE r + 1 < n
  <2>1. r + 1 \in 0..(n - 1) /\ x + 1 = (n * q) + (r + 1) /\ r + 1 = (n * 0) + (r + 1)
    BY <1>2, <1>3
  <2>2. (x + 1) % n = r + 1 /\ (r + 1) % n = r + 1
    <3>1. x + 1 \in Int /\ r + 1 \in Int
      BY <1>2
    <3> QED BY <1>2, <2>1, <3>1, DividedOnce
  <2> QED BY <2>2 DEF r
<1>4. CASE r + 1 = n
  <2>1. n * (q + 1) = (n * q) + n
    BY <1>2
  <2>2. 0 \in 0..(n - 1) /\ x + 1 = (n * (q + 1)) + 0 /\ r + 1 = (n * 1) + 0
    BY <1>2, <1>4, <2>1
  <2>3. x + 1 \in Int /\ r + 1 \in Int /\ q + 1 \in Int
    BY <1>2
  <2>4. (x + 1) % n = 0
    BY <2>2, <2>3, DividedOnce
  <2>5. (r + 1) % n = 0
    BY <2>2, <2>3, DividedOnce
  <2> QED BY <2>4, <2>5 DEF r
<1> QED BY <1>2, <1>3, <1>4

Values == Pow2[CounterBits]

LEMMA ValuesIs == /\ Values \in Nat /\ Values > 0 /\ Q_SIZE \in Nat /\ Q_SIZE > 0
                  /\ Q_SIZE < Values /\ Counters = 0..(Values - 1)
<1>1. CounterBits \in Nat
  BY LockFreeQueueAssumption
<1>2. Values \in Nat /\ Values > 0
  BY <1>1, Pow2Positive DEF Values
<1>3. Counters = 0..(Values - 1)
  BY DEF Values, Counters
<1> QED BY <1>2, <1>3, LockFreeQueueAssumption

LEMMA CounterRange ==
  /\ \A x \in Nat : CounterOf(x) \in Counters /\ QSlot(x) \in 0..(Q_SIZE - 1)
  /\ \A c \in Counters : c \in Nat /\ CounterOf(c) = c
<1>1. ASSUME NEW x \in Nat  PROVE CounterOf(x) \in Counters /\ QSlot(x) \in 0..(Q_SIZE - 1)
  <2>1. x % Values \in 0..(Values - 1) /\ x % Q_SIZE \in 0..(Q_SIZE - 1)
    BY ValuesIs, Divided
  <2> QED BY <2>1, ValuesIs DEF CounterOf, QSlot, Values
<1>2. ASSUME NEW c \in Counters  PROVE c \in Nat /\ CounterOf(c) = c
  <2>1. c \in 0..(Values - 1) /\ c = (Values * 0) + c
    BY ValuesIs
  <2>2. c % Values = c
    BY <2>1, ValuesIs, DividedOnce
  <2> QED BY <2>1, <2>2, ValuesIs DEF CounterOf, Values
<1> QED BY <1>1, <1>2

LEMMA CounterSteps ==
  /\ \A x \in Nat : Plus1(CounterOf(x)) = CounterOf(x + 1)
  /\ \A x, y \in Nat : y <= x /\ x < y + Values
       => Distance(CounterOf(x), CounterOf(y)) = x - y
  /\ \A x, y \in Nat : y <= x /\ x < y + Values /\ CounterOf(x) = CounterOf(y) => x = y
  /\ \A x, y \in Nat : y <= x /\ x < y + Q_SIZE /\ QSlot(x) = QSlot(y) => x = y
<1>1. ASSUME NEW x \in Nat  PROVE Plus1(CounterOf(x)) = CounterOf(x + 1)
  <2>1. ((x % Values) + 1) % Values = (x + 1) % Values
    <3>1. x \in Int
      OBVIOUS
    <3> QED BY <3>1, ValuesIs, NextRemainder
  <2> QED BY <2>1 DEF Plus1, CounterOf, Values
<1>2. ASSUME NEW x \in Nat, NEW y \in Nat, y <= x, x < y + Values
      PROVE  Distance(CounterOf(x), CounterOf(y)) = x - y
  <2>1. /\ x = (Values * (x \div Values)) + (x % Values) /\ x \div Values \in Int
        /\ y = (Values * (y \div Values)) + (y % Values) /\ y \div Values \in Int
        /\ x % Values \in 0..(Values - 1) /\ y % Values \in 0..(Values - 1)
    BY ValuesIs, Divided
  <2> DEFINE p == x \div Values  q == y \div Values  n == Values
  <2> HIDE DEF p, q, n
  <2>2. p \in Int /\ q \in Int /\ n * p \in Int /\ n * q \in Int /\ n * (q - p) \in Int
        /\ n * (q - p) = (n * q) - (n * p) /\ n \in Nat /\ n > 0
    BY <2>1, ValuesIs DEF p, q, n
  <2>3. /\ x = (n * p) + (x % Values) /\ x % Values \in Int
        /\ y = (n * q) + (y % Values) /\ y % Values \in Int
    BY <2>1, ValuesIs DEF p, q, n
  <2>4. (x % Values) - (y % Values) = (n * (q - p)) + (x - y)
    <3>1. PICK u \in Int, v \in Int, z \in Int : u = n * p /\ v = n * q /\ z = n * (q - p) /\ z = v - u
      BY <2>2
    <3>2. PICK g \in Int, h \in Int : g = x % Values /\ h = y % Values
      BY <2>3
    <3>3. x = u + g /\ y = v + h
      BY <2>3, <3>1, <3>2
    <3>4. g - h = z + (x - y)
      BY <3>1, <3>2, <3>3
    <3> QED BY <3>1, <3>2, <3>4
  <2>5. x - y \in 0..(n - 1) /\ q - p \in Int /\ (x % Values) - (y % Values) \in Int
    BY <1>2, <2>2, <2>3, ValuesIs DEF n
  <2>6. ((x % Values) - (y % Values)) % n = x - y
    BY <2>2, <2>4, <2>5, DividedOnce
  <2> QED BY <2>6 DEF Distance, CounterOf, Values, n
<1>3. ASSUME NEW x \in Nat, NEW y \in Nat, y <= x, x < y + Values, CounterOf(x) = CounterOf(y)
      PROVE  x = y
  <2>1. y % Values = x % Values
    BY <1>3 DEF CounterOf, Values
  <2> QED BY <1>3, <2>1, ValuesIs, SameRemainder
<1>4. ASSUME NEW x \in Nat, NEW y \in Nat, y <= x, x < y + Q_SIZE, QSlot(x) = QSlot(y)
      PROVE  x = y
  <2>1. y % Q_SIZE = x % Q_SIZE
    BY <1>4 DEF QSlot
  <2> QED BY <1>4, <2>1, ValuesIs, SameRemainder
<1> HIDE DEF CounterOf, QSlot
<1> QED BY <1>1, <1>2, <1>3, <1>4

LEMMA IndexOf ==
  ASSUME PowerOf2
  PROVE  \A x \in Nat : /\ CounterOf(x) % Q_SIZE = QSlot(x)
                        /\ Masked[CounterOf(x)] = QSlot(x)
<1> SUFFICES ASSUME NEW x \in Nat  PROVE CounterOf(x) % Q_SIZE = QSlot(x)
  <2>1. \A x \in Nat : Masked[CounterOf(x)] = CounterOf(x) % Q_SIZE
    BY CounterRange, MaskIsRemainder
  <2> QED BY <2>1
<1>1. PICK k \in 0..CounterBits : Q_SIZE = Pow2[k]
  BY DEF PowerOf2
<1>2. PICK d \in Nat : d > 0 /\ Values = Q_SIZE * d
  <2>1. CounterBits \in k..CounterBits
    BY <1>1, LockFreeQueueAssumption
  <2> QED BY <1>1, <2>1, Pow2Divides DEF Values
<1>3. /\ x = (Values * (x \div Values)) + (x % Values) /\ x \div Values \in Int
      /\ x % Values \in 0..(Values - 1)
  BY ValuesIs, Divided
<1> DEFINE q == x \div Values  r == x % Values  K == Q_SIZE
<1> HIDE DEF q, r, K
<1>4. /\ x = ((K * d) * q) + r /\ q \in Int /\ r \in Nat /\ K \in Nat /\ K > 0
  BY <1>2, <1>3, ValuesIs DEF q, r, K
<1>5. r = (K * (r \div K)) + (r % K) /\ r \div K \in Int /\ r % K \in 0..(K - 1)
  BY <1>4, Divided
<1>6. x = (K * ((d * q) + (r \div K))) + (r % K)
  <2>1. (K * d) * q = K * (d * q) /\ d * q \in Int
    BY <1>2, <1>4
  <2>2. K * ((d * q) + (r \div K)) = (K * (d * q)) + (K * (r \div K))
    BY <1>4, <1>5, <2>1
  <2>3. K * (d * q) \in Int /\ K * (r \div K) \in Int
    BY <1>4, <1>5, <2>1
  <2> QED BY <1>4, <1>5, <2>1, <2>2, <2>3
<1>7. x % K = r % K
  <2>1. (d * q) + (r \div K) \in Int /\ x \in Int
    BY <1>2, <1>4, <1>5
  <2>2. PICK g \in Int, h \in 0..(K - 1) : g = (d * q) + (r \div K) /\ h = r % K
    BY <1>5, <2>1
  <2>3. x = (K * g) + h
    BY <1>6, <2>2
  <2>4. x % K = h
    <3>1. K \in Nat /\ K > 0 /\ x \in Int /\ g \in Int /\ h \in 0..(K - 1)
      BY <1>4, <2>1, <2>2
    <3> QED BY <2>3, <3>1, DividedOnce
  <2> QED BY <2>2, <2>4
<1> QED BY <1>7 DEF CounterOf, QSlot, Values, r, K

-----------------------------------------------------------------------------
(* The positions of a ring that was endless: it began at s, r positions are*)
(* read, m committed, w reserved; thread t is at position f[t].            *)

\* A push that has an element and no position of its own yet.
HasNoSlot(p) == qpc[p] \in IF single THEN {"pushr", "store", "commit"}
                           ELSE {"pushw", "pushr", "reserve"}

\* The elements that have left qleft for a position.
UsedElements == QElements \ (qleft \cup {qdata[p] : p \in {q \in QProducers : HasNoSlot(q)}})

HandsOK ==
  /\ \A p \in QProducers : HasNoSlot(p) => qdata[p] \notin qleft
  /\ \A p, q \in QProducers : HasNoSlot(p) /\ HasNoSlot(q) /\ qdata[p] = qdata[q] => p = q

RingOK(s, w, m, r) ==
  /\ s <= r /\ r <= m /\ m <= w /\ w < r + Q_SIZE
  /\ w <= s + Cardinality(UsedElements)
  /\ m_writeIndex = CounterOf(w) /\ m_readIndex = CounterOf(r)
  /\ single => m = w /\ m_maximumReadIndex = 0
  /\ ~ single => m_maximumReadIndex = CounterOf(m)

PushOK(p, s, w, m, r, x) ==
  /\ qpc[p] \in {"idle", "pushw", "pushr", "reserve", "store", "commit"}
  /\ qpc[p] # "idle" =>
       /\ qidx[p] = CounterOf(x) /\ s <= x /\ x <= w
       /\ qdata[p] \in QElements
       /\ single => x = w /\ p \in Producers /\ qpc[p] \in {"pushr", "store", "commit"}
  /\ qpc[p] = "reserve" /\ x = w => w + 1 < r + Q_SIZE
  /\ qpc[p] \in {"store", "commit"} => m <= x /\ x + 1 < r + Q_SIZE /\ (single \/ x < w)
  /\ qpc[p] = "commit" => m_theQueue[QSlot(x)] = qdata[p]

PopOK(c, s, m, r, x) ==
  /\ qpc[c] \in {"idle", "popr", "popmax", "load", "take"}
  /\ qpc[c] # "idle" => qidx[c] = CounterOf(x) /\ s <= x /\ x <= r
  /\ qpc[c] \in {"load", "take"} /\ x = r => r < m
  /\ qpc[c] = "take" /\ x = r => qdata[c] = m_theQueue[QSlot(r)]

\* No two pushes have the same position.
SlotsOK(f) ==
  \A p, q \in QProducers :
    qpc[p] \in {"store", "commit"} /\ qpc[q] \in {"store", "commit"} /\ f[p] = f[q] => p = q

QPositions(s, w, m, r, f) ==
  /\ RingOK(s, w, m, r) /\ HandsOK /\ SlotsOK(f)
  /\ \A p \in QProducers : PushOK(p, s, w, m, r, f[p])
  /\ \A c \in QConsumers : PopOK(c, s, m, r, f[c])

HasPositions ==
  \E s \in Nat, w \in Nat, m \in Nat, r \in Nat, f \in [QProducers \cup QConsumers -> Nat] :
    QPositions(s, w, m, r, f)

QInv == QTypeOK /\ HasPositions

LEMMA UsedIsFinite ==
  /\ IsFiniteSet(UsedElements) /\ Cardinality(UsedElements) \in Nat
  /\ Cardinality(UsedElements) < Values
<1>1. /\ IsFiniteSet(QElements) /\ UsedElements \in SUBSET QElements
      /\ Cardinality(QElements) < Values
  BY LockFreeQueueAssumption DEF UsedElements, Values
<1>2. /\ IsFiniteSet(UsedElements) /\ Cardinality(UsedElements) <= Cardinality(QElements)
  BY <1>1, FS_Subset
<1>3. Cardinality(UsedElements) \in Nat /\ Cardinality(QElements) \in Nat
  BY <1>1, <1>2, FS_CardinalityType
<1> QED BY <1>1, <1>2, <1>3, ValuesIs

\* No counter has come round.
LEMMA NotRound ==
  ASSUME NEW s \in Nat, NEW w \in Nat, NEW m \in Nat, NEW r \in Nat, RingOK(s, w, m, r)
  PROVE  w < s + Values
  BY UsedIsFinite, ValuesIs DEF RingOK

\* What a pop may read is committed.
LEMMA MaximumIs ==
  ASSUME NEW s, NEW w, NEW m, NEW r, RingOK(s, w, m, r)
  PROVE  MaximumReadIndex = CounterOf(m)
  BY DEF RingOK, MaximumReadIndex

LEMMA IndexIs ==
  ASSUME PowerOf2
  PROVE  \A x \in Nat : countToIndex(CounterOf(x)) = QSlot(x)
  BY IndexOf DEF countToIndex

\* The slots of a queue q from position r up to m.
RingFrom(q, m, r) == [i \in 1..(m - r) |-> q[QSlot(r + i - 1)]]

ContentsRight ==
  \A s, w, m, r \in Nat : RingOK(s, w, m, r) => QContents = RingFrom(m_theQueue, m, r)

LEMMA ContentsAre == PowerOf2 => ContentsRight
<1> SUFFICES ASSUME PowerOf2, NEW s \in Nat, NEW w \in Nat, NEW m \in Nat, NEW r \in Nat,
                    RingOK(s, w, m, r)
             PROVE  QContents = RingFrom(m_theQueue, m, r)
  BY DEF ContentsRight
<1>1. /\ r <= m /\ m < r + Values /\ m_readIndex = CounterOf(r)
  BY ValuesIs DEF RingOK
<1>2. Distance(MaximumReadIndex, m_readIndex) = m - r
  BY <1>1, CounterSteps, MaximumIs
<1>3. ASSUME NEW i \in 1..(m - r)
      PROVE  countToIndex((m_readIndex + i - 1) % Pow2[CounterBits]) = QSlot(r + i - 1)
  <2>1. (CounterOf(r) + (i - 1)) % Values = CounterOf(r + (i - 1))
    <3> DEFINE Right(j) == (CounterOf(r) + j) % Values = CounterOf(r + j)
               Bad == {j \in Nat : ~ Right(j)}
    <3>0. CounterOf(r) \in Nat /\ Values \in Nat /\ Values > 0
      BY CounterRange, ValuesIs
    <3>1. Bad = {}
      <4> SUFFICES ASSUME Bad # {} PROVE FALSE
        OBVIOUS
      <4>1. PICK j \in Bad : \A k \in Bad : j <= k
        <5>1. Bad \in SUBSET Nat
          OBVIOUS
        <5> QED BY <5>1, LeastNat
      <4>2. j \in Nat /\ ~ Right(j)
        BY <4>1
      <4>3. j # 0
        <5>1. (CounterOf(r) + 0) % Values = CounterOf(r)
          <6>1. CounterOf(r) \in Counters /\ CounterOf(r) + 0 = CounterOf(r)
            BY <3>0, CounterRange
          <6>2. CounterOf(CounterOf(r)) = CounterOf(r)
            BY <6>1, CounterRange
          <6> QED BY <6>1, <6>2 DEF CounterOf, Values
        <5>2. r + 0 = r
          OBVIOUS
        <5> QED BY <4>2, <5>1, <5>2
      <4>4. j - 1 \in Nat /\ j - 1 \notin Bad
        BY <4>1, <4>2, <4>3
      <4>5. (CounterOf(r) + (j - 1)) % Values = CounterOf(r + (j - 1))
        BY <4>4
      <4>6. Plus1(CounterOf(r + (j - 1))) = CounterOf(r + j)
        <5>1. r + (j - 1) \in Nat /\ (r + (j - 1)) + 1 = r + j
          BY <4>4
        <5> QED BY <5>1, CounterSteps
      <4>7. (((CounterOf(r) + (j - 1)) % Values) + 1) % Values = (CounterOf(r) + j) % Values
        <5>1. CounterOf(r) + (j - 1) \in Int /\ (CounterOf(r) + (j - 1)) + 1 = CounterOf(r) + j
          BY <3>0, <4>2
        <5>2. (((CounterOf(r) + (j - 1)) % Values) + 1) % Values
                = ((CounterOf(r) + (j - 1)) + 1) % Values
          BY <3>0, <5>1, NextRemainder
        <5> QED BY <5>1, <5>2
      <4>8. Right(j)
        BY <4>5, <4>6, <4>7 DEF Plus1, Values
      <4> QED BY <4>2, <4>8
    <3>2. i - 1 \in Nat
      OBVIOUS
    <3> QED BY <3>1, <3>2
  <2>2. m_readIndex + i - 1 = CounterOf(r) + (i - 1) /\ r + i - 1 = r + (i - 1) /\ r + (i - 1) \in Nat
    <3>1. CounterOf(r) \in Nat
      BY CounterRange
    <3> QED BY <1>1, <3>1
  <2>3. (m_readIndex + i - 1) % Pow2[CounterBits] = CounterOf(r + (i - 1))
    BY <2>1, <2>2 DEF Values
  <2>4. countToIndex(CounterOf(r + (i - 1))) = QSlot(r + (i - 1))
    BY <2>2, IndexIs
  <2> QED BY <2>2, <2>3, <2>4
<1> QED BY <1>2, <1>3 DEF QContents, RingFrom

\* How a step moves the ring, in the terms of Fifo.
QMoved(m, r, m2, r2) ==
  \/ /\ m2 = m /\ r2 = r /\ UNCHANGED qtaken
     /\ \A x \in Nat : r <= x /\ x < m => m_theQueue'[QSlot(x)] = m_theQueue[QSlot(x)]
  \/ /\ m2 = m + 1 /\ r2 = r /\ UNCHANGED <<qtaken, m_theQueue>>
     /\ m_theQueue[QSlot(m)] \in QElements
  \/ /\ m2 = m /\ r2 = r + 1 /\ r < m /\ UNCHANGED m_theQueue
     /\ qtaken' = m_theQueue[QSlot(r)]

QFifoStep ==
  \/ QContents # <<>> /\ qtaken' = Head(QContents) /\ QContents' = Tail(QContents)
  \/ \E e \in QElements : QContents' = Append(QContents, e) /\ UNCHANGED qtaken
  \/ QContents' = QContents /\ UNCHANGED qtaken

LEMMA MovedIsFifo ==
  ASSUME QTypeOK, NEW m \in Nat, NEW r \in Nat, NEW m2 \in Nat, NEW r2 \in Nat, r <= m,
         QContents = RingFrom(m_theQueue, m, r), QContents' = RingFrom(m_theQueue', m2, r2),
         QMoved(m, r, m2, r2)
  PROVE  QFifoStep
<1> DEFINE S == QElements \cup {NoElement}
<1>1. \A x \in Nat : m_theQueue[QSlot(x)] \in S
  BY CounterRange DEF QTypeOK
<1> HIDE DEF S
<1>2. /\ m - r \in Nat
      /\ \A i \in 1..(m - r) : r + i - 1 \in Nat /\ r <= r + i - 1 /\ r + i - 1 < m
  OBVIOUS
<1>3. /\ QContents \in Seq(S) /\ Len(QContents) = m - r
      /\ \A i \in 1..(m - r) : QContents[i] = m_theQueue[QSlot(r + i - 1)]
  <2>1. \A i \in 1..(m - r) : m_theQueue[QSlot(r + i - 1)] \in S
    BY <1>1, <1>2
  <2>2. PICK n \in Nat : n = m - r
    BY <1>2
  <2>3. QContents = [i \in 1..n |-> m_theQueue[QSlot(r + i - 1)]]
    BY <2>2 DEF RingFrom
  <2> HIDE DEF QContents
  <2>4. QContents \in [1..n -> S]
    BY <2>1, <2>2, <2>3
  <2>5. QContents \in Seq(S) /\ Len(QContents) = n
    BY <2>4, <2>2
  <2>6. \A i \in 1..n : QContents[i] = m_theQueue[QSlot(r + i - 1)]
    BY <2>3
  <2> QED BY <2>2, <2>5, <2>6
<1>4. CASE /\ m2 = m /\ r2 = r /\ UNCHANGED qtaken
           /\ \A x \in Nat : r <= x /\ x < m => m_theQueue'[QSlot(x)] = m_theQueue[QSlot(x)]
  <2>1. QContents' = QContents
    BY <1>2, <1>4 DEF RingFrom
  <2> QED BY <1>4, <2>1 DEF QFifoStep
<1>5. CASE /\ m2 = m + 1 /\ r2 = r /\ UNCHANGED <<qtaken, m_theQueue>>
           /\ m_theQueue[QSlot(m)] \in QElements
  <2>1. PICK e \in QElements : e = m_theQueue[QSlot(m)]
    BY <1>5
  <2>2. e \in S
    BY DEF S
  <2>3. /\ Append(QContents, e) \in Seq(S) /\ Len(Append(QContents, e)) = (m - r) + 1
        /\ Append(QContents, e)[(m - r) + 1] = e
        /\ \A i \in 1..(m - r) : Append(QContents, e)[i] = m_theQueue[QSlot(r + i - 1)]
    BY <1>3, <2>2, AppendProperties
  <2>4. QContents' = [i \in 1..((m - r) + 1) |-> m_theQueue[QSlot(r + i - 1)]]
    <3>1. (m + 1) - r = (m - r) + 1
      OBVIOUS
    <3> QED BY <1>5, <3>1 DEF RingFrom
  <2>5. \A i \in 1..((m - r) + 1) : r + i - 1 \in Nat /\ (i \in 1..(m - r) \/ i = (m - r) + 1)
    BY <1>2
  <2>6. QContents' \in Seq(S) /\ Len(QContents') = (m - r) + 1
    BY <1>1, <1>2, <2>4, <2>5
  <2>7. \A i \in 1..((m - r) + 1) : QContents'[i] = Append(QContents, e)[i]
    <3>1. r + ((m - r) + 1) - 1 = m
      OBVIOUS
    <3> QED BY <2>1, <2>3, <2>4, <2>5, <3>1
  <2>8. QContents' = Append(QContents, e)
    BY <2>3, <2>6, <2>7, SeqEqual
  <2> QED BY <1>5, <2>8 DEF QFifoStep
<1>6. CASE /\ m2 = m /\ r2 = r + 1 /\ r < m /\ UNCHANGED m_theQueue
           /\ qtaken' = m_theQueue[QSlot(r)]
  <2>1. m - r # 0 /\ (m - r) - 1 \in Nat /\ r + 1 - 1 = r /\ 1 \in 1..(m - r)
    BY <1>6
  <2>2. QContents # <<>>
    <3>1. Len(<<>>) = 0
      OBVIOUS
    <3> QED BY <1>3, <2>1, <3>1
  <2>3. Head(QContents) = QContents[1] /\ QContents[1] = m_theQueue[QSlot(r)]
    BY <1>3, <2>1, <2>2
  <2>4. /\ Tail(QContents) \in Seq(S) /\ Len(Tail(QContents)) = (m - r) - 1
        /\ \A i \in 1..((m - r) - 1) : Tail(QContents)[i] = QContents[i + 1]
    BY <1>3, <2>2, HeadTailProperties
  <2>5. QContents' = [i \in 1..((m - r) - 1) |-> m_theQueue[QSlot((r + 1) + i - 1)]]
    <3>1. m - (r + 1) = (m - r) - 1
      OBVIOUS
    <3> QED BY <1>6, <3>1 DEF RingFrom
  <2>6. \A i \in 1..((m - r) - 1) : /\ i + 1 \in 1..(m - r) /\ (r + 1) + i - 1 \in Nat
                                    /\ (r + 1) + i - 1 = r + (i + 1) - 1
    BY <2>1
  <2>7. QContents' \in Seq(S) /\ Len(QContents') = (m - r) - 1
    BY <1>1, <2>1, <2>5, <2>6
  <2>8. \A i \in 1..((m - r) - 1) : QContents'[i] = Tail(QContents)[i]
    BY <1>3, <2>4, <2>5, <2>6
  <2>9. QContents' = Tail(QContents)
    BY <2>4, <2>7, <2>8, SeqEqual
  <2> QED BY <1>6, <2>2, <2>3, <2>9 DEF QFifoStep
<1> QED BY <1>4, <1>5, <1>6 DEF QMoved


QThreads == QProducers \cup QConsumers

\* The locals of every thread but t are as they were.
OthersWait(t) ==
  \A u \in QThreads \ {t} : qpc'[u] = qpc[u] /\ qidx'[u] = qidx[u] /\ qdata'[u] = qdata[u]

LEMMA PushKept ==
  ASSUME NEW p \in QThreads, NEW s \in Nat, NEW w \in Nat, NEW m \in Nat, NEW r \in Nat, NEW x \in Nat,
         NEW w2 \in Nat, NEW m2 \in Nat, NEW r2 \in Nat,
         PushOK(p, s, w, m, r, x), UNCHANGED single,
         qpc'[p] = qpc[p], qidx'[p] = qidx[p], qdata'[p] = qdata[p],
         w <= w2, r <= r2, single /\ qpc[p] # "idle" => w2 = w,
         qpc[p] \in {"store", "commit"} => m2 <= x,
         qpc[p] = "commit" => m_theQueue'[QSlot(x)] = m_theQueue[QSlot(x)]
  PROVE  PushOK(p, s, w2, m2, r2, x)'
<1>1. Producers' = Producers
  BY DEF Producers
<1>2. Q_SIZE \in Nat
  BY ValuesIs
<1> QED BY <1>1, <1>2 DEF PushOK

LEMMA PopKept ==
  ASSUME NEW c \in QThreads, NEW s \in Nat, NEW m \in Nat, NEW r \in Nat, NEW x \in Nat,
         NEW m2 \in Nat, NEW r2 \in Nat, PopOK(c, s, m, r, x),
         qpc'[c] = qpc[c], qidx'[c] = qidx[c], qdata'[c] = qdata[c], m <= m2, r <= r2,
         r < m => m_theQueue'[QSlot(r)] = m_theQueue[QSlot(r)]
  PROVE  PopOK(c, s, m2, r2, x)'
<1>1. x = r2 /\ qpc[c] \in {"load", "take"} => r2 = r /\ x = r /\ r < m
  BY DEF PopOK
<1> QED BY <1>1 DEF PopOK

\* What is left to show of a step by thread t.
LEMMA StepKeeps ==
  ASSUME NEW s \in Nat, NEW w \in Nat, NEW m \in Nat, NEW r \in Nat, NEW f \in [QThreads -> Nat],
         NEW w2 \in Nat, NEW m2 \in Nat, NEW r2 \in Nat, NEW f2 \in [QThreads -> Nat],
         NEW t \in QThreads, NEW x \in Nat, f2[t] = x,
         QPositions(s, w, m, r, f), OthersWait(t), UNCHANGED single,
         \A u \in QThreads \ {t} : f2[u] = f[u],
         RingOK(s, w2, m2, r2)', HandsOK', SlotsOK(f2)',
         t \in QProducers => PushOK(t, s, w2, m2, r2, x)',
         t \in QConsumers => PopOK(t, s, m2, r2, x)',
         w <= w2, m <= m2, r <= r2,
         \A q \in QProducers \ {t} :
           /\ single /\ qpc[q] # "idle" => w2 = w
           /\ qpc[q] \in {"store", "commit"} => m2 <= f[q]
           /\ qpc[q] = "commit" => m_theQueue'[QSlot(f[q])] = m_theQueue[QSlot(f[q])],
         r < m => m_theQueue'[QSlot(r)] = m_theQueue[QSlot(r)]
  PROVE  QPositions(s, w2, m2, r2, f2)'
<1>1. ASSUME NEW q \in QProducers, q # t  PROVE PushOK(q, s, w2, m2, r2, f2[q])'
  <2>1. q \in QThreads /\ f2[q] = f[q] /\ f[q] \in Nat /\ PushOK(q, s, w, m, r, f[q])
    BY <1>1 DEF QThreads, QPositions
  <2>2. PICK y \in Nat : y = f[q]
    BY <2>1
  <2>3. PushOK(q, s, w2, m2, r2, y)'
    <3>1. qpc'[q] = qpc[q] /\ qidx'[q] = qidx[q] /\ qdata'[q] = qdata[q]
      BY <1>1, <2>1 DEF OthersWait
    <3> QED BY <1>1, <2>1, <2>2, <3>1, PushKept
  <2> QED BY <2>1, <2>2, <2>3
<1>2. ASSUME NEW c \in QConsumers, c # t  PROVE PopOK(c, s, m2, r2, f2[c])'
  <2>1. c \in QThreads /\ f2[c] = f[c] /\ f[c] \in Nat /\ PopOK(c, s, m, r, f[c])
    BY <1>2 DEF QThreads, QPositions
  <2>2. PICK y \in Nat : y = f[c]
    BY <2>1
  <2>3. PopOK(c, s, m2, r2, y)'
    <3>1. qpc'[c] = qpc[c] /\ qidx'[c] = qidx[c] /\ qdata'[c] = qdata[c]
      BY <1>2, <2>1 DEF OthersWait
    <3> QED BY <1>2, <2>1, <2>2, <3>1, PopKept
  <2> QED BY <2>1, <2>2, <2>3
<1>3. \A q \in QProducers : PushOK(q, s, w2, m2, r2, f2[q])'
  <2>1. t \in QProducers => PushOK(t, s, w2, m2, r2, f2[t])'
    OBVIOUS
  <2> QED BY <1>1, <2>1
<1>4. \A c \in QConsumers : PopOK(c, s, m2, r2, f2[c])'
  <2>1. t \in QConsumers => PopOK(t, s, m2, r2, f2[t])'
    OBVIOUS
  <2> QED BY <1>2, <2>1
<1> QED BY <1>3, <1>4 DEF QPositions

\* Nobody's element gets a position, or is given back.
LEMMA HandsKept ==
  ASSUME HandsOK, UNCHANGED qleft,
         \A q \in QProducers : HasNoSlot(q)' = HasNoSlot(q) /\ (HasNoSlot(q) => qdata'[q] = qdata[q])
  PROVE  HandsOK' /\ UsedElements' = UsedElements
<1>1. HandsOK'
  BY DEF HandsOK
<1>2. {qdata[p] : p \in {q \in QProducers : HasNoSlot(q)}}'
        = {qdata[p] : p \in {q \in QProducers : HasNoSlot(q)}}
  OBVIOUS
<1> QED BY <1>1, <1>2 DEF UsedElements

\* The element of thread p gets its position.
LEMMA HandUsed ==
  ASSUME NEW p \in QProducers, HandsOK, HasNoSlot(p), qdata[p] \in QElements, UNCHANGED qleft,
         HasNoSlot(p)' = FALSE,
         \A q \in QProducers \ {p} :
           HasNoSlot(q)' = HasNoSlot(q) /\ (HasNoSlot(q) => qdata'[q] = qdata[q])
  PROVE  HandsOK' /\ Cardinality(UsedElements)' = Cardinality(UsedElements) + 1
<1>1. HandsOK'
  BY DEF HandsOK
<1>2. UsedElements' = UsedElements \cup {qdata[p]} /\ qdata[p] \notin UsedElements
  <2>1. {qdata[q] : q \in {u \in QProducers : HasNoSlot(u)}}
          = {qdata[q] : q \in {u \in QProducers : HasNoSlot(u)}}' \cup {qdata[p]}
    OBVIOUS
  <2>2. qdata[p] \notin {qdata[q] : q \in {u \in QProducers : HasNoSlot(u)}}' /\ qdata[p] \notin qleft
    BY DEF HandsOK
  <2> QED BY <2>1, <2>2 DEF UsedElements
<1>3. Cardinality(UsedElements \cup {qdata[p]}) = Cardinality(UsedElements) + 1
  BY <1>2, UsedIsFinite, FS_AddElement
<1> QED BY <1>1, <1>2, <1>3

\* The step leaves the ring with positions, and moves it as Fifo may.
MovesOn(s, m, r) ==
  \E w2 \in Nat, m2 \in Nat, r2 \in Nat, f2 \in [QThreads -> Nat] :
    QPositions(s, w2, m2, r2, f2)' /\ QMoved(m, r, m2, r2)

LocalsTyped ==
  /\ qpc \in [QThreads -> {"idle", "pushw", "pushr", "reserve", "store", "commit",
                          "popr", "popmax", "load", "take"}]
  /\ qidx \in [QThreads -> Counters] /\ qdata \in [QThreads -> QElements \cup {NoElement}]

SharedTyped ==
  /\ m_theQueue \in [0..(Q_SIZE - 1) -> QElements \cup {NoElement}]
  /\ m_writeIndex \in Counters /\ m_maximumReadIndex \in Counters /\ m_readIndex \in Counters
  /\ qleft \subseteq QElements

LEMMA TypedNow == QTypeOK => SharedTyped /\ LocalsTyped
BY DEF QTypeOK, SharedTyped, LocalsTyped, QThreads

LEMMA TypedNext == SharedTyped' /\ LocalsTyped' => QTypeOK'
BY DEF QTypeOK, SharedTyped, LocalsTyped, QThreads

LEMMA GotoIs ==
  ASSUME LocalsTyped, NEW t \in QThreads, NEW l, Goto(t, l)
  PROVE  qpc'[t] = l /\ \A u \in QThreads \ {t} : qpc'[u] = qpc[u]
BY DEF LocalsTyped, Goto

LEMMA QReturnIs ==
  ASSUME LocalsTyped, NEW t \in QThreads, QReturn(t)
  PROVE  qpc'[t] = "idle" /\ OthersWait(t) /\ LocalsTyped'
<1>1. 0 \in Counters
  BY ValuesIs
<1> QED BY <1>1 DEF LocalsTyped, QReturn, Goto, OthersWait

\* A push at position w for an element that is no longer in qleft.
LEMMA PushStarts ==
  ASSUME PowerOf2, QTypeOK, NEW s \in Nat, NEW w \in Nat, NEW m \in Nat, NEW r \in Nat,
         NEW f \in [QThreads -> Nat], QPositions(s, w, m, r, f), NEW p \in QProducers,
         UNCHANGED <<qshared, single, qtaken>>, OthersWait(p),
         qpc'[p] = "pushr", qidx'[p] = m_writeIndex, qdata'[p] \in QElements,
         single => p \in Producers, HandsOK', UsedElements' = UsedElements
  PROVE  MovesOn(s, m, r)
<1>1. p \in QThreads
  BY DEF QThreads
<1>2. PICK f2 \in [QThreads -> Nat] : f2[p] = w /\ \A u \in QThreads \ {p} : f2[u] = f[u]
  <2>1. [f EXCEPT ![p] = w] \in [QThreads -> Nat]
    OBVIOUS
  <2> QED BY <1>1, <2>1
<1>3. RingOK(s, w, m, r)'
  BY DEF QPositions, RingOK, qshared
<1>4. SlotsOK(f2)'
  BY <1>1, <1>2 DEF QPositions, SlotsOK, OthersWait, QThreads
<1>5. PushOK(p, s, w, m, r, w)'
  <2>1. m_writeIndex = CounterOf(w) /\ s <= w
    BY DEF QPositions, RingOK
  <2>2. Producers' = Producers
    BY DEF Producers
  <2> QED BY <1>2, <2>1, <2>2 DEF PushOK
<1>6. p \notin QConsumers
  BY LockFreeQueueAssumption
<1>7. \A q \in QProducers \ {p} : qpc[q] \in {"store", "commit"} => m <= f[q]
  BY DEF QPositions, PushOK
<1>8. m_theQueue' = m_theQueue /\ qtaken' = qtaken
  BY DEF qshared
<1>9. QPositions(s, w, m, r, f2)'
  <2>1. w <= w /\ m <= m /\ r <= r /\ single' = single
    OBVIOUS
  <2>2. QPositions(s, w, m, r, f) /\ OthersWait(p) /\ p \in QProducers
    OBVIOUS
  <2> QED BY <1>1, <1>2, <1>3, <1>4, <1>5, <1>6, <1>7, <1>8, <2>1, <2>2, StepKeeps
<1>10. QMoved(m, r, m, r)
  BY <1>8 DEF QMoved
<1> QED BY <1>9, <1>10 DEF MovesOn

LEMMA MinIs ==
  ASSUME NEW A, A # {}, A \subseteq Nat
  PROVE  Min(A) \in A
<1>1. \E e \in A : \A j \in A : e <= j
  BY LeastNat
<1> QED BY <1>1 DEF Min

LEMMA PushCallMoves ==
  ASSUME PowerOf2, QTypeOK, NEW s \in Nat, NEW w \in Nat, NEW m \in Nat, NEW r \in Nat,
         NEW f \in [QThreads -> Nat], QPositions(s, w, m, r, f), NEW p \in QProducers, PushCall(p)
  PROVE  QTypeOK' /\ MovesOn(s, m, r)
<1>1. PICK e \in qleft : e = Min(qleft)
  <2>1. qleft # {} /\ qleft \subseteq Nat
    BY LockFreeQueueAssumption DEF PushCall, QTypeOK
  <2> QED BY <2>1, MinIs
<1>2. /\ p \in QThreads /\ LocalsTyped /\ e \in QElements /\ SharedTyped
      /\ m_writeIndex \in Counters
  BY TypedNow DEF QThreads, SharedTyped
<1>3. /\ OthersWait(p) /\ LocalsTyped' /\ qpc'[p] = "pushr" /\ qidx'[p] = m_writeIndex
      /\ qdata'[p] = e
  <2>1. qdata' = [qdata EXCEPT ![p] = e] /\ qidx' = [qidx EXCEPT ![p] = m_writeIndex]
        /\ qpc' = [qpc EXCEPT ![p] = "pushr"]
    BY <1>1 DEF PushCall, Goto
  <2> QED BY <1>2, <2>1 DEF LocalsTyped, OthersWait
<1>4. QTypeOK'
  <2>1. qleft' \subseteq qleft /\ UNCHANGED qshared
    BY DEF PushCall
  <2> QED BY <1>2, <1>3, <2>1, TypedNext DEF qshared, SharedTyped
<1>5. /\ qleft' = qleft \ {e} /\ qpc[p] = "idle" /\ p \in Producers
      /\ UNCHANGED <<qshared, single, qtaken>>
  BY <1>1 DEF PushCall
<1>6. HasNoSlot(p)' /\ ~ HasNoSlot(p)
  BY <1>3, <1>5 DEF HasNoSlot
<1>7. \A q \in QProducers \ {p} : HasNoSlot(q)' = HasNoSlot(q) /\ qdata'[q] = qdata[q]
  BY <1>3, <1>5 DEF HasNoSlot, OthersWait, QThreads
<1>8. HandsOK
  BY DEF QPositions
<1>9. HandsOK'
  <2>1. \A q \in QProducers \ {p} : HasNoSlot(q) => qdata[q] # e /\ qdata[q] \notin qleft
    BY <1>8 DEF HandsOK
  <2> QED BY <1>3, <1>5, <1>6, <1>7, <1>8, <2>1 DEF HandsOK
<1>10. UsedElements' = UsedElements
  <2>1. {qdata[q] : q \in {u \in QProducers : HasNoSlot(u)}}'
          = {qdata[q] : q \in {u \in QProducers : HasNoSlot(u)}} \cup {e}
    BY <1>3, <1>6, <1>7
  <2> QED BY <1>1, <1>5, <2>1 DEF UsedElements
<1> QED BY <1>2, <1>3, <1>4, <1>5, <1>9, <1>10, PushStarts

LEMMA PushAgainMoves ==
  ASSUME PowerOf2, QTypeOK, NEW s \in Nat, NEW w \in Nat, NEW m \in Nat, NEW r \in Nat,
         NEW f \in [QThreads -> Nat], QPositions(s, w, m, r, f), NEW p \in QProducers, PushAgain(p)
  PROVE  QTypeOK' /\ MovesOn(s, m, r)
<1>1. p \in QThreads /\ LocalsTyped /\ SharedTyped /\ m_writeIndex \in Counters
  BY TypedNow DEF QThreads, SharedTyped
<1>2. /\ qpc[p] = "pushw" /\ UNCHANGED <<qshared, single, qdata, qtaken, qleft>>
      /\ qidx' = [qidx EXCEPT ![p] = m_writeIndex] /\ qpc' = [qpc EXCEPT ![p] = "pushr"]
  BY DEF PushAgain, Goto
<1>3. /\ OthersWait(p) /\ LocalsTyped' /\ qpc'[p] = "pushr" /\ qidx'[p] = m_writeIndex
      /\ qdata'[p] = qdata[p]
  BY <1>1, <1>2 DEF LocalsTyped, OthersWait
<1>4. QTypeOK'
  BY <1>1, <1>2, <1>3, TypedNext DEF qshared, SharedTyped
<1>5. PushOK(p, s, w, m, r, f[p]) /\ HandsOK
  BY DEF QPositions
<1>6. ~ single /\ qdata[p] \in QElements
  BY <1>2, <1>5 DEF PushOK
<1>7. \A q \in QProducers : HasNoSlot(q)' = HasNoSlot(q) /\ qdata'[q] = qdata[q]
  BY <1>2, <1>3, <1>6 DEF HasNoSlot, OthersWait, QThreads
<1>8. HandsOK' /\ UsedElements' = UsedElements
  BY <1>2, <1>5, <1>7, HandsKept
<1> QED BY <1>2, <1>3, <1>4, <1>6, <1>8, PushStarts

LEMMA SlotRound == \A x \in Nat : QSlot(x + Q_SIZE) = QSlot(x)
<1> SUFFICES ASSUME NEW x \in Nat  PROVE (x + Q_SIZE) % Q_SIZE = x % Q_SIZE
  BY DEF QSlot
<1> DEFINE n == Q_SIZE
<1>1. n \in Nat /\ n > 0
  BY ValuesIs
<1> HIDE DEF n
<1>2. x = (n * (x \div n)) + (x % n) /\ x % n \in 0..(n - 1) /\ x \div n \in Int
  BY <1>1, Divided
<1>3. n * ((x \div n) + 1) = (n * (x \div n)) + n
  BY <1>1, <1>2
<1>4. x + n = (n * ((x \div n) + 1)) + (x % n)
  BY <1>1, <1>2, <1>3
<1>5. x + n \in Int /\ (x \div n) + 1 \in Int
  BY <1>1, <1>2
<1>6. (x + n) % n = x % n
  BY <1>1, <1>2, <1>4, <1>5, DividedOnce
<1> QED BY <1>6 DEF n

\* A step that leaves the shared words alone.
LEMMA LocalStep ==
  ASSUME NEW s \in Nat, NEW w \in Nat, NEW m \in Nat, NEW r \in Nat, NEW f \in [QThreads -> Nat],
         QPositions(s, w, m, r, f), NEW t \in QThreads, OthersWait(t), NEW x \in Nat, f[t] = x,
         UNCHANGED <<qshared, single, qtaken>>,
         HandsOK', UsedElements' = UsedElements, SlotsOK(f)',
         t \in QProducers => PushOK(t, s, w, m, r, x)',
         t \in QConsumers => PopOK(t, s, m, r, x)'
  PROVE  MovesOn(s, m, r)
<1>1. RingOK(s, w, m, r)'
  BY DEF QPositions, RingOK, qshared
<1>2. m_theQueue' = m_theQueue /\ qtaken' = qtaken /\ UNCHANGED single
  BY DEF qshared
<1>3. \A q \in QProducers \ {t} : qpc[q] \in {"store", "commit"} => m <= f[q]
  BY DEF QPositions, PushOK
<1>4. w <= w /\ m <= m /\ r <= r /\ \A u \in QThreads \ {t} : f[u] = f[u]
  OBVIOUS
<1>5. QPositions(s, w, m, r, f)'
  BY <1>1, <1>2, <1>3, <1>4, StepKeeps
<1>6. QMoved(m, r, m, r)
  BY <1>2 DEF QMoved
<1> QED BY <1>5, <1>6 DEF MovesOn

LEMMA PushTestMoves ==
  ASSUME PowerOf2, QTypeOK, NEW s \in Nat, NEW w \in Nat, NEW m \in Nat, NEW r \in Nat,
         NEW f \in [QThreads -> Nat], QPositions(s, w, m, r, f), NEW p \in QProducers, PushTest(p)
  PROVE  QTypeOK' /\ MovesOn(s, m, r)
<1>1. p \in QThreads /\ LocalsTyped /\ SharedTyped /\ p \notin QConsumers
  BY TypedNow, LockFreeQueueAssumption DEF QThreads
<1>2. PICK x \in Nat : x = f[p]
  BY <1>1
<1>3. /\ qpc[p] = "pushr" /\ UNCHANGED <<qshared, single, qtaken>>
  BY DEF PushTest
<1>4. /\ qidx[p] = CounterOf(x) /\ s <= x /\ x <= w /\ qdata[p] \in QElements
      /\ single => x = w /\ p \in Producers
  BY <1>2, <1>3 DEF QPositions, PushOK
<1>5. HandsOK /\ SlotsOK(f) /\ r <= m /\ m <= w /\ w < r + Q_SIZE /\ m_readIndex = CounterOf(r)
      /\ (single => m = w)
  BY DEF QPositions, RingOK
<1>6. HasNoSlot(p) /\ Q_SIZE \in Nat
  BY <1>3, ValuesIs DEF HasNoSlot
<1>7. CASE QueueFull(qidx[p], m_readIndex)
  <2>1. QReturn(p) /\ qleft' = qleft \cup {qdata[p]}
    BY <1>7 DEF PushTest
  <2>2. qpc'[p] = "idle" /\ OthersWait(p) /\ LocalsTyped'
    BY <1>1, <2>1, QReturnIs
  <2>3. QTypeOK'
    BY <1>1, <1>3, <1>4, <2>1, <2>2, TypedNext DEF SharedTyped, qshared
  <2>4. ~ HasNoSlot(p)'
    BY <2>2 DEF HasNoSlot
  <2>5. \A q \in QProducers \ {p} : HasNoSlot(q)' = HasNoSlot(q) /\ qdata'[q] = qdata[q]
    BY <1>3, <2>2 DEF HasNoSlot, OthersWait, QThreads
  <2>6. HandsOK'
    <3>1. \A q \in QProducers \ {p} : HasNoSlot(q) => qdata[q] # qdata[p] /\ qdata[q] \notin qleft
      BY <1>5, <1>6 DEF HandsOK
    <3> QED BY <1>5, <2>1, <2>4, <2>5, <3>1 DEF HandsOK
  <2>7. UsedElements' = UsedElements
    <3>1. {qdata[q] : q \in {u \in QProducers : HasNoSlot(u)}}
            = {qdata[q] : q \in {u \in QProducers : HasNoSlot(u)}}' \cup {qdata[p]}
      BY <1>6, <2>4, <2>5
    <3> QED BY <2>1, <3>1 DEF UsedElements
  <2>8. SlotsOK(f)'
    BY <1>5, <2>2 DEF SlotsOK, OthersWait, QThreads
  <2>9. PushOK(p, s, w, m, r, x)'
    BY <2>2 DEF PushOK
  <2> QED BY <1>1, <1>2, <1>3, <2>2, <2>3, <2>6, <2>7, <2>8, <2>9, LocalStep
<1>8. CASE ~ QueueFull(qidx[p], m_readIndex)
  <2>1. /\ qpc' = [qpc EXCEPT ![p] = IF single THEN "store" ELSE "reserve"]
        /\ qidx' = qidx /\ qdata' = qdata /\ qleft' = qleft
    BY <1>8 DEF PushTest, Goto
  <2>2. /\ qpc'[p] = (IF single THEN "store" ELSE "reserve")
        /\ OthersWait(p) /\ LocalsTyped'
    BY <1>1, <2>1 DEF OthersWait, LocalsTyped
  <2>3. QTypeOK'
    BY <1>1, <1>3, <2>1, <2>2, TypedNext DEF SharedTyped, qshared
  <2>4. \A q \in QProducers : HasNoSlot(q)' = HasNoSlot(q) /\ qdata'[q] = qdata[q]
    <3>1. HasNoSlot(p)' = TRUE
      BY <1>3, <2>2 DEF HasNoSlot
    <3> QED BY <1>3, <1>6, <2>1, <2>2, <3>1 DEF HasNoSlot, OthersWait, QThreads
  <2>5. HandsOK' /\ UsedElements' = UsedElements
    BY <1>5, <2>1, <2>4, HandsKept
  <2>6. SlotsOK(f)'
    <3>1. CASE single
      <4>1. \A q \in QProducers : qpc[q] # "idle" => q \in Producers
        BY <3>1 DEF QPositions, PushOK
      <4>2. \A q \in QProducers : q \in Producers => q = p
        BY <1>4, <3>1 DEF Producers
      <4>3. \A q \in QProducers : qpc'[q] \in {"store", "commit"} => q = p
        BY <2>2, <4>1, <4>2 DEF OthersWait, QThreads
      <4> QED BY <4>3 DEF SlotsOK
    <3>2. CASE ~ single
      BY <1>5, <2>2, <3>2 DEF SlotsOK, OthersWait, QThreads
    <3> QED BY <3>1, <3>2
  <2>7. x = w => w + 1 < r + Q_SIZE
    <3>1. QSlot(x + 1) # QSlot(r)
      <4>1. countToIndex(Plus1(CounterOf(x))) # countToIndex(CounterOf(r))
        BY <1>4, <1>5, <1>8 DEF QueueFull
      <4>2. Plus1(CounterOf(x)) = CounterOf(x + 1)
        BY CounterSteps
      <4>3. countToIndex(CounterOf(x + 1)) = QSlot(x + 1) /\ countToIndex(CounterOf(r)) = QSlot(r)
        BY IndexIs
      <4> QED BY <4>1, <4>2, <4>3
    <3>2. w + 1 = r + Q_SIZE => QSlot(w + 1) = QSlot(r)
      BY SlotRound
    <3> QED BY <1>5, <1>6, <3>1, <3>2
  <2>8. PushOK(p, s, w, m, r, x)'
    <3>1. Producers' = Producers
      BY <1>3 DEF Producers
    <3>2. qidx'[p] = CounterOf(x) /\ qdata'[p] \in QElements /\ single' = single
      BY <1>3, <1>4, <2>1
    <3> QED BY <1>4, <1>5, <2>2, <2>7, <3>1, <3>2 DEF PushOK
  <2> QED BY <1>1, <1>2, <1>3, <2>2, <2>3, <2>5, <2>6, <2>8, LocalStep
<1> QED BY <1>7, <1>8

LEMMA PushReserveMoves ==
  ASSUME PowerOf2, QTypeOK, NEW s \in Nat, NEW w \in Nat, NEW m \in Nat, NEW r \in Nat,
         NEW f \in [QThreads -> Nat], QPositions(s, w, m, r, f), NEW p \in QProducers, PushReserve(p)
  PROVE  QTypeOK' /\ MovesOn(s, m, r)
<1>1. p \in QThreads /\ LocalsTyped /\ SharedTyped /\ p \notin QConsumers
  BY TypedNow, LockFreeQueueAssumption DEF QThreads
<1>2. PICK x \in Nat : x = f[p]
  BY <1>1
<1>3. /\ qpc[p] = "reserve"
      /\ UNCHANGED <<m_theQueue, m_maximumReadIndex, m_readIndex, single, qidx, qdata, qtaken, qleft>>
  BY DEF PushReserve
<1>4. /\ qidx[p] = CounterOf(x) /\ s <= x /\ x <= w /\ qdata[p] \in QElements
      /\ ~ single /\ (x = w => w + 1 < r + Q_SIZE)
  BY <1>2, <1>3 DEF QPositions, PushOK
<1>5. /\ HandsOK /\ SlotsOK(f) /\ s <= r /\ r <= m /\ m <= w /\ w < r + Q_SIZE
      /\ m_writeIndex = CounterOf(w) /\ m_readIndex = CounterOf(r)
      /\ m_maximumReadIndex = CounterOf(m)
      /\ w <= s + Cardinality(UsedElements)
  BY <1>4 DEF QPositions, RingOK
<1>6. HasNoSlot(p) /\ Q_SIZE \in Nat
  BY <1>3, <1>4, ValuesIs DEF HasNoSlot
<1>7. CASE m_writeIndex = qidx[p]
  <2>1. /\ qpc' = [qpc EXCEPT ![p] = "store"] /\ m_writeIndex' = Plus1(CounterOf(x))
    BY <1>4, <1>7 DEF PushReserve, Goto
  <2>2. qpc'[p] = "store" /\ OthersWait(p) /\ LocalsTyped'
    BY <1>1, <1>3, <2>1 DEF OthersWait, LocalsTyped
  <2>3. x = w
    <3>1. w < s + Values
      BY NotRound DEF QPositions
    <3>2. Values \in Nat
      BY ValuesIs
    <3>3. w < x + Values
      BY <1>4, <3>1, <3>2
    <3> QED BY <1>4, <1>5, <1>7, <3>3, CounterSteps
  <2>4. PICK w2 \in Nat : w2 = w + 1
    OBVIOUS
  <2>5. m_writeIndex' = CounterOf(w2)
    BY <2>1, <2>3, <2>4, CounterSteps
  <2>6. QTypeOK'
    <3>1. CounterOf(w2) \in Counters
      BY CounterRange
    <3> QED BY <1>1, <1>3, <2>2, <2>5, <3>1, TypedNext DEF SharedTyped
  <2>7. \A q \in QProducers \ {p} : HasNoSlot(q)' = HasNoSlot(q) /\ qdata'[q] = qdata[q]
    BY <1>3, <2>2 DEF HasNoSlot, OthersWait, QThreads
  <2>8. HasNoSlot(p)' = FALSE
    BY <1>3, <1>4, <2>2 DEF HasNoSlot
  <2>9. HandsOK' /\ Cardinality(UsedElements)' = Cardinality(UsedElements) + 1
    BY <1>3, <1>4, <1>5, <1>6, <2>7, <2>8, HandUsed
  <2>10. RingOK(s, w2, m, r)'
    <3>1. w2 <= s + Cardinality(UsedElements)' /\ m <= w2 /\ w2 < r + Q_SIZE
      BY <1>4, <1>5, <1>6, <2>3, <2>4, <2>9, UsedIsFinite
    <3>2. ~ single' /\ m_maximumReadIndex' = CounterOf(m) /\ m_readIndex' = CounterOf(r)
      BY <1>3, <1>4, <1>5
    <3> QED BY <1>5, <2>5, <3>1, <3>2 DEF RingOK
  <2>11. \A q \in QProducers \ {p} : qpc[q] \in {"store", "commit"} => m <= f[q] /\ f[q] < w
    BY <1>4 DEF QPositions, PushOK
  <2>12. SlotsOK(f)'
    <3>1. f[p] = w
      BY <1>2, <2>3
    <3>2. \A q \in QProducers \ {p} : qpc'[q] \in {"store", "commit"} => f[q] \in Nat /\ f[q] # w
      BY <2>2, <2>11 DEF OthersWait, QThreads
    <3> QED BY <1>5, <2>2, <3>1, <3>2 DEF SlotsOK, OthersWait, QThreads
  <2>13. PushOK(p, s, w2, m, r, x)'
    <3>1. qidx'[p] = CounterOf(x) /\ qdata'[p] \in QElements /\ ~ single'
      BY <1>3, <1>4
    <3> QED BY <1>4, <1>5, <2>2, <2>3, <2>4, <3>1 DEF PushOK
  <2>14. QPositions(s, w2, m, r, f)'
    <3>1. w <= w2 /\ m <= m /\ r <= r /\ \A u \in QThreads \ {p} : f[u] = f[u]
      BY <2>4
    <3>2. m_theQueue' = m_theQueue /\ UNCHANGED single
      BY <1>3
    <3>3. QPositions(s, w, m, r, f) /\ p \in QProducers
      OBVIOUS
    <3> QED BY <1>1, <1>2, <1>4, <2>2, <2>9, <2>10, <2>11, <2>12, <2>13, <3>1, <3>2, <3>3, StepKeeps
  <2>15. QMoved(m, r, m, r)
    BY <1>3 DEF QMoved
  <2> QED BY <2>6, <2>14, <2>15 DEF MovesOn
<1>8. CASE m_writeIndex # qidx[p]
  <2>1. /\ qpc' = [qpc EXCEPT ![p] = "pushw"] /\ m_writeIndex' = m_writeIndex
    BY <1>8 DEF PushReserve, Goto
  <2>2. qpc'[p] = "pushw" /\ OthersWait(p) /\ LocalsTyped'
    BY <1>1, <1>3, <2>1 DEF OthersWait, LocalsTyped
  <2>3. QTypeOK'
    BY <1>1, <1>3, <2>1, <2>2, TypedNext DEF SharedTyped
  <2>4. \A q \in QProducers : HasNoSlot(q)' = HasNoSlot(q) /\ qdata'[q] = qdata[q]
    <3>1. HasNoSlot(p)' = TRUE
      BY <1>3, <1>4, <2>2 DEF HasNoSlot
    <3> QED BY <1>3, <1>6, <2>2, <3>1 DEF HasNoSlot, OthersWait, QThreads
  <2>5. HandsOK' /\ UsedElements' = UsedElements
    BY <1>3, <1>5, <2>4, HandsKept
  <2>6. SlotsOK(f)'
    BY <1>5, <2>2 DEF SlotsOK, OthersWait, QThreads
  <2>7. PushOK(p, s, w, m, r, x)'
    <3>1. qidx'[p] = CounterOf(x) /\ qdata'[p] \in QElements /\ ~ single'
      BY <1>3, <1>4
    <3> QED BY <1>4, <2>2, <3>1 DEF PushOK
  <2>8. UNCHANGED <<qshared, single, qtaken>>
    BY <1>3, <2>1 DEF qshared
  <2> QED BY <1>1, <1>2, <2>2, <2>3, <2>5, <2>6, <2>7, <2>8, LocalStep
<1> QED BY <1>7, <1>8

LEMMA PushStoreMoves ==
  ASSUME PowerOf2, QTypeOK, NEW s \in Nat, NEW w \in Nat, NEW m \in Nat, NEW r \in Nat,
         NEW f \in [QThreads -> Nat], QPositions(s, w, m, r, f), NEW p \in QProducers, PushStore(p)
  PROVE  QTypeOK' /\ MovesOn(s, m, r)
<1>1. p \in QThreads /\ LocalsTyped /\ SharedTyped /\ p \notin QConsumers
  BY TypedNow, LockFreeQueueAssumption DEF QThreads
<1>2. PICK x \in Nat : x = f[p]
  BY <1>1
<1>3. /\ qpc[p] = "store" /\ qpc' = [qpc EXCEPT ![p] = "commit"]
      /\ UNCHANGED <<m_writeIndex, m_maximumReadIndex, m_readIndex, single, qidx, qdata, qtaken, qleft>>
  BY DEF PushStore, Goto
<1>4. /\ qidx[p] = CounterOf(x) /\ s <= x /\ x <= w /\ qdata[p] \in QElements
      /\ m <= x /\ x + 1 < r + Q_SIZE /\ (single \/ x < w)
      /\ (single => x = w /\ p \in Producers)
  BY <1>2, <1>3 DEF QPositions, PushOK
<1>5. HandsOK /\ SlotsOK(f) /\ RingOK(s, w, m, r) /\ r <= m /\ m <= w /\ w < r + Q_SIZE
  BY DEF QPositions, RingOK
<1>6. Q_SIZE \in Nat
  BY ValuesIs
<1>7. qpc'[p] = "commit" /\ OthersWait(p) /\ LocalsTyped'
  BY <1>1, <1>3 DEF OthersWait, LocalsTyped
<1>8. m_theQueue' = [m_theQueue EXCEPT ![QSlot(x)] = qdata[p]]
  <2>1. countToIndex(qidx[p]) = QSlot(x)
    BY <1>4, IndexIs
  <2> QED BY <2>1 DEF PushStore
<1>9. /\ m_theQueue'[QSlot(x)] = qdata[p]
      /\ \A y \in Nat : QSlot(y) # QSlot(x) => m_theQueue'[QSlot(y)] = m_theQueue[QSlot(y)]
      /\ m_theQueue' \in [0..(Q_SIZE - 1) -> QElements \cup {NoElement}]
  <2>1. m_theQueue \in [0..(Q_SIZE - 1) -> QElements \cup {NoElement}]
    BY <1>1 DEF SharedTyped
  <2>2. \A y \in Nat : QSlot(y) \in 0..(Q_SIZE - 1)
    BY CounterRange
  <2> HIDE DEF QSlot
  <2> QED BY <1>4, <1>8, <2>1, <2>2
<1>10. QTypeOK'
  BY <1>1, <1>3, <1>7, <1>9, TypedNext DEF SharedTyped
<1>11. \A q \in QProducers : HasNoSlot(q)' = HasNoSlot(q) /\ qdata'[q] = qdata[q]
  <2>1. HasNoSlot(p)' = HasNoSlot(p)
    BY <1>3, <1>7 DEF HasNoSlot
  <2> QED BY <1>3, <1>7, <2>1 DEF HasNoSlot, OthersWait, QThreads
<1>12. HandsOK' /\ UsedElements' = UsedElements
  BY <1>3, <1>5, <1>11, HandsKept
<1>13. RingOK(s, w, m, r)'
  BY <1>3, <1>5, <1>12 DEF RingOK
<1>14. SlotsOK(f)'
  BY <1>3, <1>5, <1>7 DEF SlotsOK, OthersWait, QThreads
<1>15. PushOK(p, s, w, m, r, x)'
  <2>1. Producers' = Producers
    BY <1>3 DEF Producers
  <2>2. /\ qidx'[p] = CounterOf(x) /\ qdata'[p] = qdata[p] /\ single' = single
    BY <1>3, <1>4
  <2> QED BY <1>4, <1>7, <1>9, <2>1, <2>2 DEF PushOK
<1>16. \A y \in Nat : r <= y /\ y < m => m_theQueue'[QSlot(y)] = m_theQueue[QSlot(y)]
  <2> SUFFICES ASSUME NEW y \in Nat, r <= y, y < m
               PROVE  m_theQueue'[QSlot(y)] = m_theQueue[QSlot(y)]
    OBVIOUS
  <2>1. y <= x /\ x < y + Q_SIZE /\ y # x
    BY <1>4, <1>6
  <2> QED BY <1>9, <2>1, CounterSteps
<1>17. \A q \in QProducers \ {p} :
         /\ qpc[q] \in {"store", "commit"} => m <= f[q]
         /\ qpc[q] = "commit" => m_theQueue'[QSlot(f[q])] = m_theQueue[QSlot(f[q])]
  <2> SUFFICES ASSUME NEW q \in QProducers \ {p}, qpc[q] \in {"store", "commit"}
               PROVE  /\ m <= f[q]
                      /\ m_theQueue'[QSlot(f[q])] = m_theQueue[QSlot(f[q])]
    OBVIOUS
  <2>1. PICK y \in Nat : y = f[q]
    BY DEF QThreads
  <2>2. m <= y /\ y + 1 < r + Q_SIZE
    BY <2>1 DEF QPositions, PushOK
  <2>3. y # x
    BY <1>2, <1>3, <1>5, <2>1 DEF SlotsOK
  <2>4. x < y + Q_SIZE /\ y < x + Q_SIZE
    BY <1>4, <1>5, <1>6, <2>2
  <2>5. QSlot(y) # QSlot(x)
    BY <2>3, <2>4, CounterSteps
  <2> QED BY <1>9, <2>1, <2>2, <2>5
<1>18. QPositions(s, w, m, r, f)'
  <2>1. w <= w /\ m <= m /\ r <= r /\ \A u \in QThreads \ {p} : f[u] = f[u]
    OBVIOUS
  <2>2. UNCHANGED single
    BY <1>3
  <2>3. QPositions(s, w, m, r, f) /\ p \in QProducers
    OBVIOUS
  <2>4. r < m => m_theQueue'[QSlot(r)] = m_theQueue[QSlot(r)]
    BY <1>16
  <2> QED BY <1>1, <1>2, <1>7, <1>12, <1>13, <1>14, <1>15, <1>17, <2>1, <2>2, <2>3, <2>4, StepKeeps
<1>19. QMoved(m, r, m, r)
  BY <1>3, <1>16 DEF QMoved
<1> QED BY <1>10, <1>18, <1>19 DEF MovesOn

LEMMA PushCommitMoves ==
  ASSUME PowerOf2, QTypeOK, NEW s \in Nat, NEW w \in Nat, NEW m \in Nat, NEW r \in Nat,
         NEW f \in [QThreads -> Nat], QPositions(s, w, m, r, f), NEW p \in QProducers, PushCommit(p)
  PROVE  QTypeOK' /\ MovesOn(s, m, r)
<1>1. p \in QThreads /\ LocalsTyped /\ SharedTyped /\ p \notin QConsumers
  BY TypedNow, LockFreeQueueAssumption DEF QThreads
<1>2. PICK x \in Nat : x = f[p]
  BY <1>1
<1>3. /\ qpc[p] = "commit" /\ QReturn(p) /\ (single \/ m_maximumReadIndex = qidx[p])
      /\ UNCHANGED <<m_theQueue, m_readIndex, single, qtaken, qleft>>
  BY DEF PushCommit, CommitReady
<1>4. /\ qidx[p] = CounterOf(x) /\ s <= x /\ x <= w /\ qdata[p] \in QElements
      /\ m <= x /\ x + 1 < r + Q_SIZE /\ (single \/ x < w)
      /\ (single => x = w /\ p \in Producers) /\ m_theQueue[QSlot(x)] = qdata[p]
  BY <1>2, <1>3 DEF QPositions, PushOK
<1>5. /\ HandsOK /\ SlotsOK(f) /\ s <= r /\ r <= m /\ m <= w /\ w < r + Q_SIZE
      /\ m_writeIndex = CounterOf(w) /\ m_readIndex = CounterOf(r)
      /\ (single => m = w /\ m_maximumReadIndex = 0)
      /\ (~ single => m_maximumReadIndex = CounterOf(m))
      /\ w <= s + Cardinality(UsedElements)
  BY DEF QPositions, RingOK
<1>6. Q_SIZE \in Nat
  BY ValuesIs
<1>7. qpc'[p] = "idle" /\ OthersWait(p) /\ LocalsTyped'
  BY <1>1, <1>3, QReturnIs
<1>9. SlotsOK(f)'
  BY <1>5, <1>7 DEF SlotsOK, OthersWait, QThreads
<1>10. HasNoSlot(p)' = FALSE
  BY <1>7 DEF HasNoSlot
<1>11. \A q \in QProducers \ {p} : HasNoSlot(q)' = HasNoSlot(q) /\ qdata'[q] = qdata[q]
  BY <1>3, <1>7 DEF HasNoSlot, OthersWait, QThreads
<1>12. PICK m2 \in Nat : m2 = m + 1
  OBVIOUS
<1>13. CASE single
  <2>1. m_writeIndex' = Plus1(CounterOf(w)) /\ m_maximumReadIndex' = m_maximumReadIndex
    BY <1>5, <1>13 DEF PushCommit
  <2>2. m = w /\ x = w
    BY <1>4, <1>5, <1>13
  <2>3. m_writeIndex' = CounterOf(m2)
    BY <1>12, <2>1, <2>2, CounterSteps
  <2>4. QTypeOK'
    <3>1. CounterOf(m2) \in Counters
      BY CounterRange
    <3> QED BY <1>1, <1>3, <1>7, <2>1, <2>3, <3>1, TypedNext DEF SharedTyped
  <2>5. HasNoSlot(p)
    BY <1>3, <1>13 DEF HasNoSlot
  <2>6. HandsOK' /\ Cardinality(UsedElements)' = Cardinality(UsedElements) + 1
    BY <1>3, <1>4, <1>5, <1>10, <1>11, <2>5, HandUsed
  <2>7. RingOK(s, m2, m2, r)'
    <3>1. m2 <= s + Cardinality(UsedElements)' /\ r <= m2 /\ m2 < r + Q_SIZE
      BY <1>4, <1>5, <1>6, <1>12, <2>2, <2>6, UsedIsFinite
    <3>2. single' /\ m_maximumReadIndex' = 0 /\ m_readIndex' = CounterOf(r)
      BY <1>3, <1>5, <1>13, <2>1
    <3> QED BY <1>5, <2>3, <3>1, <3>2 DEF RingOK
  <2>8. \A q \in QProducers \ {p} : qpc[q] = "idle"
    <3>1. \A q \in QProducers : qpc[q] # "idle" => q \in Producers
      BY <1>13 DEF QPositions, PushOK
    <3>2. \A q \in QProducers : q \in Producers => q = p
      BY <1>4, <1>13 DEF Producers
    <3> QED BY <3>1, <3>2
  <2>9. QPositions(s, m2, m2, r, f)'
    <3>1. w <= m2 /\ m <= m2 /\ r <= r /\ \A u \in QThreads \ {p} : f[u] = f[u]
      BY <1>12, <2>2
    <3>2. m_theQueue' = m_theQueue /\ UNCHANGED single
      BY <1>3
    <3>3. QPositions(s, w, m, r, f) /\ p \in QProducers
      OBVIOUS
    <3>4. PushOK(p, s, m2, m2, r, x)'
      BY <1>7 DEF PushOK
    <3> QED BY <1>1, <1>2, <1>7, <1>9, <2>6, <2>7, <2>8, <3>1, <3>2, <3>3, <3>4, StepKeeps
  <2>10. QMoved(m, r, m2, r)
    BY <1>3, <1>4, <1>12, <2>2 DEF QMoved
  <2> QED BY <2>4, <2>9, <2>10 DEF MovesOn
<1>14. CASE ~ single
  <2>1. m_maximumReadIndex' = Plus1(CounterOf(m)) /\ m_writeIndex' = m_writeIndex
    BY <1>5, <1>14 DEF PushCommit
  <2>2. x = m
    <3>1. w < s + Values /\ Values \in Nat
      BY NotRound, ValuesIs DEF QPositions
    <3>2. x < m + Values
      BY <1>4, <1>5, <3>1
    <3> QED BY <1>3, <1>4, <1>5, <1>14, <3>2, CounterSteps
  <2>3. m_maximumReadIndex' = CounterOf(m2)
    BY <1>12, <2>1, CounterSteps
  <2>4. QTypeOK'
    <3>1. CounterOf(m2) \in Counters
      BY CounterRange
    <3> QED BY <1>1, <1>3, <1>7, <2>1, <2>3, <3>1, TypedNext DEF SharedTyped
  <2>5. HandsOK' /\ UsedElements' = UsedElements
    <3>1. HasNoSlot(p) = FALSE
      BY <1>3, <1>14 DEF HasNoSlot
    <3>2. \A q \in QProducers : HasNoSlot(q)' = HasNoSlot(q) /\ (HasNoSlot(q) => qdata'[q] = qdata[q])
      BY <1>10, <1>11, <3>1
    <3> QED BY <1>3, <1>5, <3>2, HandsKept
  <2>6. RingOK(s, w, m2, r)'
    <3>1. ~ single' /\ m_readIndex' = CounterOf(r) /\ m_writeIndex' = CounterOf(w)
      BY <1>3, <1>5, <1>14, <2>1
    <3>2. m2 <= w /\ r <= m2
      BY <1>4, <1>5, <1>12, <1>14, <2>2
    <3> QED BY <1>5, <2>3, <2>5, <3>1, <3>2 DEF RingOK
  <2>7. \A q \in QProducers \ {p} : qpc[q] \in {"store", "commit"} => m2 <= f[q]
    <3> SUFFICES ASSUME NEW q \in QProducers \ {p}, qpc[q] \in {"store", "commit"}
                 PROVE  m2 <= f[q]
      OBVIOUS
    <3>1. m <= f[q] /\ f[q] \in Nat
      BY DEF QPositions, PushOK, QThreads
    <3>2. f[q] # m
      BY <1>2, <1>3, <1>5, <2>2 DEF SlotsOK
    <3> QED BY <1>12, <3>1, <3>2
  <2>8. QPositions(s, w, m2, r, f)'
    <3>1. w <= w /\ m <= m2 /\ r <= r /\ \A u \in QThreads \ {p} : f[u] = f[u]
      BY <1>12
    <3>2. m_theQueue' = m_theQueue /\ UNCHANGED single
      BY <1>3
    <3>3. QPositions(s, w, m, r, f) /\ p \in QProducers
      OBVIOUS
    <3>4. PushOK(p, s, w, m2, r, x)'
      BY <1>7 DEF PushOK
    <3> QED BY <1>1, <1>2, <1>7, <1>9, <1>14, <2>5, <2>6, <2>7, <3>1, <3>2, <3>3, <3>4, StepKeeps
  <2>9. QMoved(m, r, m2, r)
    BY <1>3, <1>4, <1>12, <2>2 DEF QMoved
  <2> QED BY <2>4, <2>8, <2>9 DEF MovesOn
<1> QED BY <1>13, <1>14

\* The producers' locals are untouched by a step of consumer c.
LEMMA PopLeavesPush ==
  ASSUME NEW s \in Nat, NEW w \in Nat, NEW m \in Nat, NEW r \in Nat, NEW f \in [QThreads -> Nat],
         QPositions(s, w, m, r, f), NEW c \in QConsumers, OthersWait(c), UNCHANGED <<single, qleft>>
  PROVE  /\ HandsOK' /\ UsedElements' = UsedElements
         /\ \A q \in QProducers \ {c} : qpc[q] \in {"store", "commit"} => m <= f[q]
         /\ \A g \in [QThreads -> Nat] : (\A u \in QThreads \ {c} : g[u] = f[u]) => SlotsOK(g)'
<1>1. c \notin QProducers /\ HandsOK /\ SlotsOK(f)
  BY LockFreeQueueAssumption DEF QPositions
<1>2. \A q \in QProducers : qpc'[q] = qpc[q] /\ qdata'[q] = qdata[q] /\ q \in QThreads \ {c}
  BY <1>1 DEF OthersWait, QThreads
<1>3. HandsOK' /\ UsedElements' = UsedElements
  BY <1>1, <1>2, HandsKept DEF HasNoSlot
<1>4. \A q \in QProducers \ {c} : qpc[q] \in {"store", "commit"} => m <= f[q]
  BY DEF QPositions, PushOK
<1>5. \A g \in [QThreads -> Nat] : (\A u \in QThreads \ {c} : g[u] = f[u]) => SlotsOK(g)'
  BY <1>1, <1>2 DEF SlotsOK
<1> QED BY <1>3, <1>4, <1>5

LEMMA PopCallMoves ==
  ASSUME PowerOf2, QTypeOK, NEW s \in Nat, NEW w \in Nat, NEW m \in Nat, NEW r \in Nat,
         NEW f \in [QThreads -> Nat], QPositions(s, w, m, r, f), NEW c \in QConsumers, PopCall(c)
  PROVE  QTypeOK' /\ MovesOn(s, m, r)
<1>1. c \in QThreads /\ LocalsTyped /\ SharedTyped /\ c \notin QProducers
  BY TypedNow, LockFreeQueueAssumption DEF QThreads
<1>2. /\ qidx' = [qidx EXCEPT ![c] = m_readIndex] /\ qpc' = [qpc EXCEPT ![c] = "popmax"]
      /\ UNCHANGED <<qshared, single, qdata, qtaken, qleft>>
  BY DEF PopCall, Goto
<1>3. qpc'[c] = "popmax" /\ qidx'[c] = m_readIndex /\ OthersWait(c) /\ LocalsTyped'
  BY <1>1, <1>2 DEF OthersWait, LocalsTyped, SharedTyped
<1>4. QTypeOK'
  BY <1>1, <1>2, <1>3, TypedNext DEF SharedTyped, qshared
<1>5. PICK f2 \in [QThreads -> Nat] : f2[c] = r /\ \A u \in QThreads \ {c} : f2[u] = f[u]
  <2>1. [f EXCEPT ![c] = r] \in [QThreads -> Nat]
    OBVIOUS
  <2> QED BY <1>1, <2>1
<1>6. /\ HandsOK' /\ UsedElements' = UsedElements /\ SlotsOK(f2)'
      /\ \A q \in QProducers \ {c} : qpc[q] \in {"store", "commit"} => m <= f[q]
  BY <1>2, <1>3, <1>5, PopLeavesPush
<1>7. RingOK(s, w, m, r)'
  BY <1>2, <1>6 DEF QPositions, RingOK, qshared
<1>8. PopOK(c, s, m, r, r)'
  <2>1. m_readIndex = CounterOf(r) /\ s <= r
    BY DEF QPositions, RingOK
  <2> QED BY <1>3, <2>1 DEF PopOK
<1>9. QPositions(s, w, m, r, f2)'
  <2>1. w <= w /\ m <= m /\ r <= r
    OBVIOUS
  <2>2. m_theQueue' = m_theQueue /\ UNCHANGED single
    BY <1>2 DEF qshared
  <2>3. QPositions(s, w, m, r, f) /\ c \in QConsumers
    OBVIOUS
  <2> QED BY <1>1, <1>3, <1>5, <1>6, <1>7, <1>8, <2>1, <2>2, <2>3, StepKeeps
<1>10. QMoved(m, r, m, r)
  BY <1>2 DEF QMoved, qshared
<1> QED BY <1>4, <1>9, <1>10 DEF MovesOn

LEMMA PopTestMoves ==
  ASSUME PowerOf2, QTypeOK, NEW s \in Nat, NEW w \in Nat, NEW m \in Nat, NEW r \in Nat,
         NEW f \in [QThreads -> Nat], QPositions(s, w, m, r, f), NEW c \in QConsumers, PopTest(c)
  PROVE  QTypeOK' /\ MovesOn(s, m, r)
<1>1. c \in QThreads /\ LocalsTyped /\ SharedTyped /\ c \notin QProducers
  BY TypedNow, LockFreeQueueAssumption DEF QThreads
<1>2. PICK x \in Nat : x = f[c]
  BY <1>1
<1>3. qpc[c] = "popmax" /\ UNCHANGED <<qshared, single, qtaken, qleft>>
  BY DEF PopTest
<1>4. qidx[c] = CounterOf(x) /\ s <= x /\ x <= r
  BY <1>2, <1>3 DEF QPositions, PopOK
<1>5. /\ OthersWait(c) /\ LocalsTyped' /\ PopOK(c, s, m, r, x)'
  <2>1. CASE QueueEmpty(qidx[c], MaximumReadIndex)
    <3>1. qpc'[c] = "idle" /\ OthersWait(c) /\ LocalsTyped'
      BY <1>1, <2>1, QReturnIs DEF PopTest
    <3> QED BY <3>1 DEF PopOK
  <2>2. CASE ~ QueueEmpty(qidx[c], MaximumReadIndex)
    <3>1. qpc' = [qpc EXCEPT ![c] = "load"] /\ qidx' = qidx /\ qdata' = qdata
      BY <2>2 DEF PopTest, Goto
    <3>2. qpc'[c] = "load" /\ OthersWait(c) /\ LocalsTyped'
      BY <1>1, <3>1 DEF OthersWait, LocalsTyped
    <3>3. QSlot(x) # QSlot(m)
      <4>1. MaximumReadIndex = CounterOf(m)
        BY MaximumIs DEF QPositions
      <4>2. countToIndex(CounterOf(x)) # countToIndex(CounterOf(m))
        BY <1>4, <2>2, <4>1 DEF QueueEmpty
      <4> QED BY <4>2, IndexIs
    <3>4. x = r => r < m
      <4>1. r <= m
        BY DEF QPositions, RingOK
      <4> QED BY <3>3, <4>1
    <3> QED BY <1>4, <3>1, <3>2, <3>4 DEF PopOK
  <2> QED BY <2>1, <2>2
<1>6. QTypeOK'
  BY <1>1, <1>3, <1>5, TypedNext DEF SharedTyped, qshared
<1>7. HandsOK' /\ UsedElements' = UsedElements /\ SlotsOK(f)'
  BY <1>3, <1>5, PopLeavesPush
<1> QED BY <1>1, <1>2, <1>3, <1>5, <1>6, <1>7, LocalStep

LEMMA PopLoadMoves ==
  ASSUME PowerOf2, QTypeOK, NEW s \in Nat, NEW w \in Nat, NEW m \in Nat, NEW r \in Nat,
         NEW f \in [QThreads -> Nat], QPositions(s, w, m, r, f), NEW c \in QConsumers, PopLoad(c)
  PROVE  QTypeOK' /\ MovesOn(s, m, r)
<1>1. c \in QThreads /\ LocalsTyped /\ SharedTyped /\ c \notin QProducers
  BY TypedNow, LockFreeQueueAssumption DEF QThreads
<1>2. PICK x \in Nat : x = f[c]
  BY <1>1
<1>3. /\ qpc[c] = "load" /\ UNCHANGED <<qshared, single, qidx, qtaken, qleft>>
      /\ qpc' = [qpc EXCEPT ![c] = "take"]
  BY DEF PopLoad, Goto
<1>4. qidx[c] = CounterOf(x) /\ s <= x /\ x <= r /\ (x = r => r < m)
  BY <1>2, <1>3 DEF QPositions, PopOK
<1>5. qdata' = [qdata EXCEPT ![c] = m_theQueue[QSlot(x)]]
  <2>1. countToIndex(qidx[c]) = QSlot(x)
    BY <1>4, IndexIs
  <2> QED BY <2>1 DEF PopLoad
<1>6. m_theQueue[QSlot(x)] \in QElements \cup {NoElement}
  <2>1. m_theQueue \in [0..(Q_SIZE - 1) -> QElements \cup {NoElement}] /\ QSlot(x) \in 0..(Q_SIZE - 1)
    BY <1>1, CounterRange DEF SharedTyped
  <2> QED BY <2>1
<1>7. /\ OthersWait(c) /\ LocalsTyped' /\ qpc'[c] = "take" /\ qdata'[c] = m_theQueue[QSlot(x)]
      /\ qidx' = qidx
  BY <1>1, <1>3, <1>5, <1>6 DEF OthersWait, LocalsTyped
<1>8. PopOK(c, s, m, r, x)'
  BY <1>3, <1>4, <1>7 DEF PopOK, qshared
<1>9. QTypeOK'
  BY <1>1, <1>3, <1>7, TypedNext DEF SharedTyped, qshared
<1>10. HandsOK' /\ UsedElements' = UsedElements /\ SlotsOK(f)'
  BY <1>3, <1>7, PopLeavesPush
<1> QED BY <1>1, <1>2, <1>3, <1>7, <1>8, <1>9, <1>10, LocalStep

LEMMA PopTakeMoves ==
  ASSUME PowerOf2, QTypeOK, NEW s \in Nat, NEW w \in Nat, NEW m \in Nat, NEW r \in Nat,
         NEW f \in [QThreads -> Nat], QPositions(s, w, m, r, f), NEW c \in QConsumers, PopTake(c)
  PROVE  QTypeOK' /\ MovesOn(s, m, r)
<1>1. c \in QThreads /\ LocalsTyped /\ SharedTyped /\ c \notin QProducers
  BY TypedNow, LockFreeQueueAssumption DEF QThreads
<1>2. PICK x \in Nat : x = f[c]
  BY <1>1
<1>3. qpc[c] = "take" /\ UNCHANGED <<m_theQueue, m_writeIndex, m_maximumReadIndex, single, qleft>>
  BY DEF PopTake
<1>4. /\ qidx[c] = CounterOf(x) /\ s <= x /\ x <= r
      /\ (x = r => r < m /\ qdata[c] = m_theQueue[QSlot(r)])
  BY <1>2, <1>3 DEF QPositions, PopOK
<1>5. CASE m_readIndex = qidx[c]
  <2>1. m_readIndex' = Plus1(CounterOf(x)) /\ qtaken' = qdata[c] /\ QReturn(c)
    BY <1>4, <1>5 DEF PopTake
  <2>2. qpc'[c] = "idle" /\ OthersWait(c) /\ LocalsTyped'
    BY <1>1, <2>1, QReturnIs
  <2>3. /\ RingOK(s, w, m, r) /\ m_readIndex = CounterOf(r) /\ s <= r /\ r <= m /\ m <= w
        /\ w < r + Q_SIZE
    BY DEF QPositions, RingOK
  <2>4. x = r
    <3>1. w < s + Values /\ Values \in Nat
      BY <2>3, NotRound, ValuesIs
    <3>2. r < x + Values
      BY <1>4, <2>3, <3>1
    <3> QED BY <1>4, <1>5, <2>3, <3>2, CounterSteps
  <2>5. PICK r2 \in Nat : r2 = r + 1
    OBVIOUS
  <2>6. m_readIndex' = CounterOf(r2)
    BY <2>1, <2>4, <2>5, CounterSteps
  <2>7. QTypeOK'
    <3>1. CounterOf(r2) \in Counters
      BY CounterRange
    <3> QED BY <1>1, <1>3, <2>2, <2>6, <3>1, TypedNext DEF SharedTyped
  <2>8. /\ HandsOK' /\ UsedElements' = UsedElements /\ SlotsOK(f)'
        /\ \A q \in QProducers \ {c} : qpc[q] \in {"store", "commit"} => m <= f[q]
    BY <1>3, <2>2, PopLeavesPush
  <2>9. RingOK(s, w, m, r2)'
    <3>1. s <= r2 /\ r2 <= m /\ w < r2 + Q_SIZE
      <4>1. Q_SIZE \in Nat
        BY ValuesIs
      <4> QED BY <1>4, <2>3, <2>4, <2>5, <4>1
    <3> QED BY <1>3, <2>3, <2>6, <2>8, <3>1 DEF RingOK
  <2>10. PopOK(c, s, m, r2, x)'
    BY <2>2 DEF PopOK
  <2>11. QPositions(s, w, m, r2, f)'
    <3>1. w <= w /\ m <= m /\ r <= r2 /\ \A u \in QThreads \ {c} : f[u] = f[u]
      BY <2>5
    <3>2. m_theQueue' = m_theQueue /\ UNCHANGED single
      BY <1>3
    <3>3. QPositions(s, w, m, r, f) /\ c \in QConsumers
      OBVIOUS
    <3> QED BY <1>1, <1>2, <2>2, <2>8, <2>9, <2>10, <3>1, <3>2, <3>3, StepKeeps
  <2>12. QMoved(m, r, m, r2)
    BY <1>3, <1>4, <2>1, <2>4, <2>5 DEF QMoved
  <2> QED BY <2>7, <2>11, <2>12 DEF MovesOn
<1>6. CASE m_readIndex # qidx[c]
  <2>1. UNCHANGED <<m_readIndex, qtaken, qidx, qdata>> /\ qpc' = [qpc EXCEPT ![c] = "popr"]
    BY <1>6 DEF PopTake, Goto
  <2>2. qpc'[c] = "popr" /\ OthersWait(c) /\ LocalsTyped' /\ UNCHANGED <<qshared, single, qtaken>>
    BY <1>1, <1>3, <2>1 DEF OthersWait, LocalsTyped, qshared
  <2>3. QTypeOK'
    BY <1>1, <1>3, <2>1, <2>2, TypedNext DEF SharedTyped
  <2>4. PopOK(c, s, m, r, x)'
    BY <1>4, <2>1, <2>2 DEF PopOK
  <2>5. HandsOK' /\ UsedElements' = UsedElements /\ SlotsOK(f)'
    BY <1>3, <2>2, PopLeavesPush
  <2> QED BY <1>1, <1>2, <2>2, <2>3, <2>4, <2>5, LocalStep
<1> QED BY <1>5, <1>6

LEMMA QInitInv == QInit => QInv /\ m_readIndex = MaximumReadIndex /\ qtaken = NoElement
<1> SUFFICES ASSUME QInit PROVE QInv /\ m_readIndex = MaximumReadIndex /\ qtaken = NoElement
  OBVIOUS
<1>1. PICK s \in Counters : m_writeIndex = s /\ m_readIndex = s /\ s \in Nat /\ CounterOf(s) = s
  BY LockFreeQueueAssumption, CounterRange DEF QInit
<1>2. /\ m_maximumReadIndex = (IF single THEN 0 ELSE s) /\ qleft = QElements /\ qtaken = NoElement
      /\ qpc = [t \in QThreads |-> "idle"] /\ qidx = [t \in QThreads |-> 0]
      /\ qdata = [t \in QThreads |-> NoElement]
      /\ m_theQueue = [i \in 0..(Q_SIZE - 1) |-> NoElement]
  BY <1>1 DEF QInit, QThreads
<1>3. 0 \in Counters /\ Q_SIZE \in Nat /\ Q_SIZE > 0
  BY ValuesIs
<1>4. SharedTyped
  BY <1>1, <1>2, <1>3 DEF SharedTyped
<1>5. LocalsTyped
  BY <1>2, <1>3 DEF LocalsTyped
<1>6. QTypeOK
  BY <1>4, <1>5 DEF QTypeOK, SharedTyped, LocalsTyped, QThreads
<1>7. \A p \in QProducers : qpc[p] = "idle" /\ ~ HasNoSlot(p)
  BY <1>2 DEF HasNoSlot, QThreads
<1>8. \A c \in QConsumers : qpc[c] = "idle"
  BY <1>2 DEF QThreads
<1>9. HandsOK
  BY <1>7 DEF HandsOK
<1>10. RingOK(s, s, s, s)
  <2>1. s <= s + Cardinality(UsedElements) /\ s < s + Q_SIZE
    BY <1>1, <1>3, UsedIsFinite
  <2> QED BY <1>1, <1>2, <2>1 DEF RingOK
<1>11. PICK f \in [QThreads -> Nat] : \A t \in QThreads : f[t] = 0
  <2>1. [t \in QThreads |-> 0] \in [QThreads -> Nat]
    OBVIOUS
  <2> QED BY <2>1
<1>12. QPositions(s, s, s, s, f)
  BY <1>7, <1>8, <1>9, <1>10 DEF QPositions, SlotsOK, PushOK, PopOK
<1>13. HasPositions
  BY <1>1, <1>11, <1>12 DEF HasPositions, QThreads
<1> QED BY <1>1, <1>2, <1>6, <1>13 DEF QInv, MaximumReadIndex

LEMMA QNextMoves ==
  ASSUME PowerOf2, QTypeOK, NEW s \in Nat, NEW w \in Nat, NEW m \in Nat, NEW r \in Nat,
         NEW f \in [QThreads -> Nat], QPositions(s, w, m, r, f), QNext
  PROVE  QTypeOK' /\ MovesOn(s, m, r)
<1>1. CASE \E p \in QProducers : PushCall(p) \/ PushStep(p)
  BY <1>1, PushCallMoves, PushAgainMoves, PushTestMoves, PushReserveMoves, PushStoreMoves,
     PushCommitMoves DEF PushStep
<1>2. CASE \E c \in QConsumers : PopCall(c) \/ PopStep(c)
  BY <1>2, PopCallMoves, PopTestMoves, PopLoadMoves, PopTakeMoves DEF PopStep
<1> QED BY <1>1, <1>2 DEF QNext

LEMMA QStepInv ==
  ASSUME PowerOf2, QInv, ContentsRight, ContentsRight', [QNext]_qvars
  PROVE  QInv' /\ QFifoStep
<1>1. CASE QNext
  <2>1. PICK s \in Nat, w \in Nat, m \in Nat, r \in Nat, f \in [QThreads -> Nat] :
          QPositions(s, w, m, r, f)
    BY DEF QInv, HasPositions, QThreads
  <2>2. QTypeOK' /\ MovesOn(s, m, r)
    BY <1>1, <2>1, QNextMoves DEF QInv
  <2>3. PICK w2 \in Nat, m2 \in Nat, r2 \in Nat, f2 \in [QThreads -> Nat] :
          QPositions(s, w2, m2, r2, f2)' /\ QMoved(m, r, m2, r2)
    BY <2>2 DEF MovesOn
  <2>4. HasPositions'
    BY <2>3 DEF HasPositions, QThreads
  <2>5. r <= m /\ QContents = RingFrom(m_theQueue, m, r)
    BY <2>1 DEF ContentsRight, QPositions, RingOK
  <2>6. QContents' = RingFrom(m_theQueue', m2, r2)
    <3>1. RingOK(s, w2, m2, r2)'
      BY <2>3 DEF QPositions
    <3>2. QContents' = RingFrom(m_theQueue, m2, r2)'
      BY <3>1 DEF ContentsRight
    <3> QED BY <3>2 DEF RingFrom
  <2>7. QFifoStep
    BY <2>3, <2>5, <2>6, MovedIsFifo DEF QInv
  <2> QED BY <2>2, <2>4, <2>7 DEF QInv
<1>2. CASE UNCHANGED qvars
  <2>0. UNCHANGED <<m_theQueue, m_writeIndex, m_maximumReadIndex, m_readIndex, single, qpc, qidx,
                    qdata, qtaken, qleft>>
    BY <1>2 DEF qvars, qshared
  <2>1. QTypeOK' /\ HasPositions'
    <3>1. QTypeOK'
      BY <2>0 DEF QInv, QTypeOK
    <3>2. PICK s \in Nat, w \in Nat, m \in Nat, r \in Nat, f \in [QThreads -> Nat] :
            QPositions(s, w, m, r, f)
      BY DEF QInv, HasPositions, QThreads
    <3>3. Producers' = Producers /\ \A q \in QProducers : HasNoSlot(q)' = HasNoSlot(q)
      BY <2>0 DEF Producers, HasNoSlot
    <3>4. HandsOK' /\ UsedElements' = UsedElements
      BY <2>0, <3>2, <3>3, HandsKept DEF QPositions
    <3>5. RingOK(s, w, m, r)' /\ SlotsOK(f)'
      BY <2>0, <3>2, <3>4 DEF QPositions, RingOK, SlotsOK
    <3>6. \A p \in QProducers : PushOK(p, s, w, m, r, f[p])'
      BY <2>0, <3>2, <3>3 DEF QPositions, PushOK
    <3>7. \A c \in QConsumers : PopOK(c, s, m, r, f[c])'
      BY <2>0, <3>2 DEF QPositions, PopOK
    <3>8. QPositions(s, w, m, r, f)'
      BY <3>4, <3>5, <3>6, <3>7 DEF QPositions
    <3> QED BY <3>1, <3>8 DEF HasPositions, QThreads
  <2>2. QContents' = QContents /\ qtaken' = qtaken
    BY <2>0 DEF QContents, MaximumReadIndex, Distance, countToIndex
  <2> QED BY <2>1, <2>2 DEF QInv, QFifoStep
<1> QED BY <1>1, <1>2

\* For a ring whose size is a power of two the lock-free queues implement Fifo,
\* for any number of threads and slots and from wherever the counters stand
\* (array_lock_free_queue_impl.h, array_lock_free_queue_single_producer_impl.h).
THEOREM LockFreeQueueRefinesFifo == PowerOf2 => (QSpec => LockFreeQueueIsFifo)
<1> SUFFICES ASSUME PowerOf2 PROVE QSpec => LockFreeQueueIsFifo
  OBVIOUS
<1>1. QInit => QInv /\ QFifo!Init
  <2> SUFFICES ASSUME QInit PROVE QInv /\ QFifo!Init
    OBVIOUS
  <2>1. QInv /\ m_readIndex = MaximumReadIndex /\ qtaken = NoElement
    BY QInitInv
  <2>2. PICK c \in Counters : c = m_readIndex /\ c \in Nat /\ CounterOf(c) = c
    BY <2>1, CounterRange DEF QInv, QTypeOK
  <2>3. Distance(c, c) = 0
    BY <2>2, CounterSteps, ValuesIs
  <2>4. Distance(MaximumReadIndex, m_readIndex) = 0
    BY <2>1, <2>2, <2>3
  <2>5. QContents = <<>>
    BY <2>4 DEF QContents
  <2> QED BY <2>1, <2>5 DEF QFifo!Init
<1>2. QInv /\ ContentsRight /\ ContentsRight' /\ [QNext]_qvars => QInv' /\ QFifoStep
  BY QStepInv
<1>3. QFifoStep => [QFifo!Dequeue \/ \E e \in QElements : QFifo!Enqueue(e)]_(QFifo!vars)
  BY DEF QFifoStep, QFifo!Dequeue, QFifo!Enqueue, QFifo!vars
<1>4. QInv => QTypeOK
  BY DEF QInv
<1>5. ContentsRight
  BY ContentsAre
<1> QED BY <1>1, <1>2, <1>3, <1>4, <1>5, PTL DEF QSpec, LockFreeQueueIsFifo, QFifo!Spec

\* A thread leaves "pushr" and "popmax" only by its own test.
LEMMA TestsDecide ==
  ASSUME QTypeOK, QNext, NEW u \in QThreads, qpc[u] \in {"pushr", "popmax"}, qpc'[u] # qpc[u]
  PROVE  /\ qpc[u] = "pushr" => PushTest(u)
         /\ qpc[u] = "popmax" => PopTest(u)
<1>1. \A t \in QThreads : \A l : Goto(t, l) => t = u
  BY DEF QTypeOK, Goto, QThreads
<1>2. \A t \in QThreads : QReturn(t) => t = u
  BY <1>1 DEF QReturn
<1>3. QProducers \subseteq QThreads /\ QConsumers \subseteq QThreads
  BY DEF QThreads
<1>4. CASE \E p \in QProducers : PushCall(p) \/ PushStep(p)
  <2>1. PICK p \in QProducers : PushCall(p) \/ PushStep(p)
    BY <1>4
  <2>2. p = u
    BY <1>1, <1>2, <1>3, <2>1
       DEF PushCall, PushStep, PushAgain, PushTest, PushReserve, PushStore, PushCommit
  <2> QED BY <2>1, <2>2 DEF PushCall, PushStep, PushAgain, PushTest, PushReserve, PushStore, PushCommit
<1>5. CASE \E c \in QConsumers : PopCall(c) \/ PopStep(c)
  <2>1. PICK c \in QConsumers : PopCall(c) \/ PopStep(c)
    BY <1>5
  <2>2. c = u
    BY <1>1, <1>2, <1>3, <2>1 DEF PopCall, PopStep, PopTest, PopLoad, PopTake
  <2> QED BY <2>1, <2>2 DEF PopCall, PopStep, PopTest, PopLoad, PopTake
<1> QED BY <1>4, <1>5 DEF QNext

LEMMA RefusedRight ==
  ASSUME PowerOf2, QInv, QNext, NEW p \in QProducers, qpc[p] = "pushr", qpc'[p] = "idle",
         m_writeIndex = qidx[p]
  PROVE  Distance(m_writeIndex, m_readIndex) = Q_SIZE - 1
<1>1. p \in QThreads /\ LocalsTyped
  BY TypedNow DEF QInv, QThreads
<1>2. PushTest(p)
  BY <1>1, TestsDecide DEF QInv
<1>3. QueueFull(qidx[p], m_readIndex)
  <2> SUFFICES ASSUME ~ QueueFull(qidx[p], m_readIndex) PROVE FALSE
    OBVIOUS
  <2>1. Goto(p, IF single THEN "store" ELSE "reserve")
    BY <1>2 DEF PushTest
  <2>2. qpc'[p] = IF single THEN "store" ELSE "reserve"
    BY <1>1, <2>1, GotoIs
  <2> QED BY <2>2
<1>4. PICK s \in Nat, w \in Nat, m \in Nat, r \in Nat, f \in [QThreads -> Nat] :
        QPositions(s, w, m, r, f)
  BY DEF QInv, HasPositions, QThreads
<1>5. m_writeIndex = CounterOf(w) /\ m_readIndex = CounterOf(r) /\ r <= w /\ w < r + Q_SIZE
  BY <1>4 DEF QPositions, RingOK
<1>6. Q_SIZE \in Nat /\ Values \in Nat /\ Q_SIZE < Values
  BY ValuesIs
<1>7. QSlot(w + 1) = QSlot(r)
  <2>1. countToIndex(Plus1(CounterOf(w))) = countToIndex(CounterOf(r))
    BY <1>3, <1>5 DEF QueueFull
  <2>2. Plus1(CounterOf(w)) = CounterOf(w + 1)
    BY CounterSteps
  <2>3. countToIndex(CounterOf(w + 1)) = QSlot(w + 1) /\ countToIndex(CounterOf(r)) = QSlot(r)
    BY IndexIs
  <2> QED BY <2>1, <2>2, <2>3
<1>8. w + 1 = r + Q_SIZE
  <2> SUFFICES ASSUME w + 1 < r + Q_SIZE PROVE FALSE
    BY <1>5, <1>6
  <2>1. w + 1 \in Nat /\ r <= w + 1 /\ w + 1 # r
    BY <1>5
  <2> QED BY <1>7, <2>1, CounterSteps
<1>9. Distance(CounterOf(w), CounterOf(r)) = w - r
  <2>1. w < r + Values
    BY <1>5, <1>6
  <2> QED BY <1>5, <2>1, CounterSteps
<1>10. w - r = Q_SIZE - 1
  BY <1>6, <1>8
<1> QED BY <1>5, <1>9, <1>10

LEMMA EmptyRight ==
  ASSUME PowerOf2, QInv, ContentsRight, QNext, NEW c \in QConsumers, qpc[c] = "popmax",
         qpc'[c] = "idle", m_readIndex = qidx[c]
  PROVE  QContents = <<>>
<1>1. c \in QThreads /\ LocalsTyped
  BY TypedNow DEF QInv, QThreads
<1>2. PopTest(c)
  BY <1>1, TestsDecide DEF QInv
<1>3. QueueEmpty(qidx[c], MaximumReadIndex)
  <2> SUFFICES ASSUME ~ QueueEmpty(qidx[c], MaximumReadIndex) PROVE FALSE
    OBVIOUS
  <2>1. qpc'[c] = "load"
    BY <1>1, <1>2, GotoIs DEF PopTest
  <2> QED BY <2>1
<1>4. PICK s \in Nat, w \in Nat, m \in Nat, r \in Nat, f \in [QThreads -> Nat] :
        QPositions(s, w, m, r, f)
  BY DEF QInv, HasPositions, QThreads
<1>5. /\ RingOK(s, w, m, r) /\ m_readIndex = CounterOf(r) /\ r <= m /\ m <= w /\ w < r + Q_SIZE
  BY <1>4 DEF QPositions, RingOK
<1>6. QSlot(r) = QSlot(m)
  <2>1. countToIndex(CounterOf(r)) = countToIndex(CounterOf(m))
    BY <1>3, <1>5, MaximumIs DEF QueueEmpty
  <2> QED BY <2>1, IndexIs
<1>7. m = r
  <2>1. m < r + Q_SIZE
    BY <1>5, ValuesIs
  <2> QED BY <1>5, <1>6, <2>1, CounterSteps
<1>8. QContents = RingFrom(m_theQueue, m, r)
  BY <1>5 DEF ContentsRight
<1> QED BY <1>7, <1>8 DEF RingFrom

\* push finds the ring full and pop finds it empty only when it is, or when
\* they were overtaken between their two reads.
THEOREM FalseOnlyForCause == PowerOf2 => (QSpec => FalseForCause)
<1> SUFFICES ASSUME PowerOf2 PROVE QSpec => FalseForCause
  OBVIOUS
<1> DEFINE Refused == \A p \in QProducers :
                        qpc[p] = "pushr" /\ qpc'[p] = "idle" =>
                          \/ Distance(m_writeIndex, m_readIndex) = Q_SIZE - 1
                          \/ m_writeIndex # qidx[p]
           Emptied == \A c \in QConsumers :
                        qpc[c] = "popmax" /\ qpc'[c] = "idle" =>
                          QContents = <<>> \/ m_readIndex # qidx[c]
<1>1. QInit => QInv
  BY QInitInv
<1>2. QInv /\ ContentsRight /\ ContentsRight' /\ [QNext]_qvars => QInv'
  BY QStepInv
<1>3. QInv /\ ContentsRight /\ [QNext]_qvars => [Refused]_qvars /\ [Emptied]_qvars
  BY RefusedRight, EmptyRight
<1>4. ContentsRight
  BY ContentsAre
<1> QED BY <1>1, <1>2, <1>3, <1>4, PTL
        DEF QSpec, FalseForCause, RefusedOnlyWhenFull, EmptyOnlyWhenEmpty

-----------------------------------------------------------------------------
(* IOBuffer as a readbuf.                                                 *)

\* The position and the cell of byte x of a ring without end.
PieceOf(x) == (x \div DEFAULT_BUFFER_SIZE) % MAX_BUFFER_PIECES
PlaceOf(x) == x % DEFAULT_BUFFER_SIZE
PosOf(x) == Iterator(PieceOf(x), PlaceOf(x))
CellOf(x) == <<PieceOf(x), PlaceOf(x)>>

BufferSize == MAX_BUFFER_PIECES * DEFAULT_BUFFER_SIZE
FullSizes == [i \in Pieces |-> DEFAULT_BUFFER_SIZE]

\* What is assumed of the constants of a buffer.
LEMMA BufferBounds ==
  /\ MAX_BUFFER_PIECES \in Nat /\ MAX_BUFFER_PIECES > 1
  /\ DEFAULT_BUFFER_SIZE \in Nat /\ DEFAULT_BUFFER_SIZE > 0
  /\ BufferSize \in Nat /\ BufferSize > DEFAULT_BUFFER_SIZE
  /\ ByteIds \in Nat /\ ByteIds > BufferSize
<1>1. \A m, d \in Nat : m > 1 /\ d > 0 => m * d \in Nat /\ m * d > d
  OBVIOUS
<1> QED BY <1>1, IOBufferAssumption DEF BufferSize

\* A byte's piece, counted without end, and its place in the piece.
LEMMA SplitPos ==
  ASSUME NEW x \in Nat
  PROVE  \E q \in Nat, p \in 0 .. DEFAULT_BUFFER_SIZE - 1 : x = (DEFAULT_BUFFER_SIZE * q) + p
<1>1. \A d \in Nat : d > 0 => x \div d \in Nat /\ x % d \in 0 .. d - 1 /\ x = (d * (x \div d)) + (x % d)
  OBVIOUS
<1> QED BY <1>1, BufferBounds

\* ... are the position and the cell of the byte.
LEMMA SplitIs ==
  ASSUME NEW q \in Nat, NEW p \in 0 .. DEFAULT_BUFFER_SIZE - 1
  PROVE  /\ (DEFAULT_BUFFER_SIZE * q) + p \in Nat
         /\ PieceOf((DEFAULT_BUFFER_SIZE * q) + p) = q % MAX_BUFFER_PIECES
         /\ PlaceOf((DEFAULT_BUFFER_SIZE * q) + p) = p
         /\ PosOf((DEFAULT_BUFFER_SIZE * q) + p) = Iterator(q % MAX_BUFFER_PIECES, p)
         /\ CellOf((DEFAULT_BUFFER_SIZE * q) + p) = <<q % MAX_BUFFER_PIECES, p>>
<1>1. DEFAULT_BUFFER_SIZE * q \in Nat /\ p \in Nat
  BY BufferBounds
<1> DEFINE x == (DEFAULT_BUFFER_SIZE * q) + p
<1>2. x \in Int /\ q \in Int
  BY <1>1
<1>3. x % DEFAULT_BUFFER_SIZE = p /\ x \div DEFAULT_BUFFER_SIZE = q
  <2> HIDE DEF x
  <2> QED BY <1>2, BufferBounds, DividedOnce DEF x
<1> QED BY <1>1, <1>3 DEF PieceOf, PlaceOf, PosOf, CellOf

\* The ring of the pieces.
LEMMA InPieces ==
  ASSUME NEW q \in Int
  PROVE  q % MAX_BUFFER_PIECES \in Pieces
<1>1. \A m \in Nat : m > 0 => q % m \in 0 .. m - 1
  OBVIOUS
<1> QED BY <1>1, BufferBounds DEF Pieces

\* The piece after another, counted without end.
LEMMA NextOf ==
  ASSUME NEW q \in Nat
  PROVE  MOD_PIECES((q % MAX_BUFFER_PIECES) + 1) = (q + 1) % MAX_BUFFER_PIECES
<1>1. MAX_BUFFER_PIECES \in Nat /\ MAX_BUFFER_PIECES > 0 /\ q \in Int
  BY BufferBounds
<1> QED BY <1>1, NextRemainder DEF MOD_PIECES

\* Where a walk forward from byte x, of which n bytes are asked, stands when j
\* pieces are still to be crossed to the piece t.
Walking(t, s, j) == Iterator((t - j) % MAX_BUFFER_PIECES, (DEFAULT_BUFFER_SIZE * j) + s)

\* One turn of its loop crosses one of them.
LEMMA WalkStep ==
  ASSUME NEW t \in Nat, NEW s \in 0 .. DEFAULT_BUFFER_SIZE - 1, NEW j \in 0 .. t
  PROVE  LET w == Walking(t, s, j)
             y == IF w.pos >= FullSizes[w.idx]
                  THEN Iterator(MOD_PIECES(w.idx + 1), w.pos - FullSizes[w.idx]) ELSE w
         IN y = Walking(t, s, IF j = 0 THEN 0 ELSE j - 1)
<1> DEFINE d == DEFAULT_BUFFER_SIZE
<1>0. d \in Nat /\ d > 0 /\ s \in Nat /\ s < d /\ t - j \in Nat
  BY BufferBounds
<1>1. (t - j) % MAX_BUFFER_PIECES \in Pieces
  BY <1>0, InPieces
<1>2. FullSizes[(t - j) % MAX_BUFFER_PIECES] = d
  BY <1>1 DEF FullSizes
<1>3. CASE j = 0
  <2>1. (d * j) + s = s
    BY <1>0, <1>3
  <2> QED BY <1>0, <1>2, <1>3, <2>1 DEF Walking, Iterator
<1>4. CASE j # 0
  <2> DEFINE i == j - 1
  <2>1. i \in Nat /\ j = i + 1
    BY <1>4
  <2> HIDE DEF d, i
  <2>2. d * j = (d * i) + d /\ d * i \in Nat
    BY <1>0, <2>1
  <2>3. (d * j) + s >= d /\ ((d * j) + s) - d = (d * i) + s
    BY <1>0, <2>2
  <2>4. MOD_PIECES(((t - j) % MAX_BUFFER_PIECES) + 1) = (t - i) % MAX_BUFFER_PIECES
    <3>1. (t - j) + 1 = t - i
      BY <2>1
    <3> QED BY <1>0, <3>1, NextOf
  <2>5. Walking(t, s, j).idx = (t - j) % MAX_BUFFER_PIECES /\ Walking(t, s, j).pos = (d * j) + s
    BY DEF Walking, Iterator, d
  <2>6. Iterator((t - i) % MAX_BUFFER_PIECES, (d * i) + s) = Walking(t, s, i)
    BY DEF Walking, d
  <2> QED BY <1>2, <1>4, <2>3, <2>4, <2>5, <2>6 DEF i
<1> QED BY <1>3, <1>4

\* operator+= with full pieces: n bytes on.
LEMMA PlusIs ==
  ASSUME NEW x \in Nat, NEW n \in 0 .. BufferSize
  PROVE  Plus(FullSizes, PosOf(x), n) = PosOf(x + n)
<1> DEFINE d == DEFAULT_BUFFER_SIZE
           m == MAX_BUFFER_PIECES
<1>1. PICK q \in Nat, p \in 0 .. d - 1 : x = (d * q) + p
  BY SplitPos
<1>2. PICK t \in Nat, s \in 0 .. d - 1 : x + n = (d * t) + s
  <2>1. x + n \in Nat
    OBVIOUS
  <2> QED BY <2>1, SplitPos
<1>3. d \in Nat /\ d > 0 /\ m \in Nat /\ m > 1 /\ n \in Nat /\ n <= m * d
  BY BufferBounds DEF BufferSize
<1> HIDE DEF d, m
<1>4. t - q \in 0 .. m
  <2>1. (d * t) + s = ((d * q) + p) + n /\ d * t \in Nat /\ d * q \in Nat /\ p \in Nat /\ s \in Nat /\ p < d /\ s < d
    BY <1>1, <1>2, <1>3
  <2>2. ~ (t < q)
    <3> SUFFICES ASSUME t < q PROVE FALSE
      OBVIOUS
    <3>1. d * q >= (d * t) + d
      BY <1>3
    <3> QED BY <1>3, <2>1, <3>1
  <2>3. ~ (t > q + m)
    <3> SUFFICES ASSUME t > q + m PROVE FALSE
      OBVIOUS
    <3>1. d * t >= ((d * q) + (m * d)) + d
      BY <1>3
    <3> QED BY <1>3, <2>1, <3>1
  <2> QED BY <1>3, <2>2, <2>3
<1>5. PICK e \in 0 .. m : e = t - q /\ e \in 0 .. t
  BY <1>3, <1>4
<1>6. (d * e) + s = p + n
  <2>1. d * e = (d * t) - (d * q)
    BY <1>3, <1>5
  <2> QED BY <1>1, <1>2, <1>3, <2>1
<1> DEFINE Left(k) == IF k <= e THEN e - k ELSE 0
           Steps(f) == [k \in Nat |->
                          IF k = 0 THEN Iterator(PosOf(x).idx, PosOf(x).pos + n)
                          ELSE LET w == f[k - 1]
                               IN IF w.pos >= FullSizes[w.idx]
                                  THEN Iterator(MOD_PIECES(w.idx + 1), w.pos - FullSizes[w.idx]) ELSE w]
           g == [k \in Nat |-> Walking(t, s, Left(k))]
<1>7. g = Steps(g)
  <2>1. g[0] = Iterator(PosOf(x).idx, PosOf(x).pos + n)
    <3>1. PosOf(x) = Iterator(q % m, p)
      BY <1>1, SplitIs DEF d, m
    <3>2. Left(0) = e /\ t - e = q
      BY <1>5
    <3> QED BY <1>6, <3>1, <3>2 DEF Walking, Iterator, d, m
  <2>2. ASSUME NEW k \in Nat, k # 0 PROVE g[k] = Steps(g)[k]
    <3>1. k - 1 \in Nat /\ Left(k - 1) \in 0 .. t
      BY <1>5, <2>2
    <3>2. Left(k) = IF Left(k - 1) = 0 THEN 0 ELSE Left(k - 1) - 1
      BY <1>5, <3>1
    <3>3. g[k - 1] = Walking(t, s, Left(k - 1)) /\ g[k] = Walking(t, s, Left(k))
      BY <3>1
    <3> HIDE DEF Left, g
    <3>4. s \in 0 .. DEFAULT_BUFFER_SIZE - 1
      BY DEF d
    <3> QED BY <2>2, <3>1, <3>2, <3>3, <3>4, WalkStep
  <2>3. g = [k \in Nat |-> g[k]] /\ Steps(g) = [k \in Nat |-> Steps(g)[k]]
    OBVIOUS
  <2>4. Steps(g)[0] = Iterator(PosOf(x).idx, PosOf(x).pos + n)
    OBVIOUS
  <2> HIDE DEF Steps, g
  <2> QED BY <2>1, <2>2, <2>3, <2>4
<1>8. PICK f : f = (CHOOSE h : h = Steps(h)) /\ Plus(FullSizes, PosOf(x), n) = f[2 * m]
  BY DEF Plus, m
<1>9. f = Steps(f)
  <2> HIDE DEF Steps, g
  <2> QED BY <1>7, <1>8
<1>10. \A k \in Nat : f[k] = g[k]
  <2> DEFINE Bad == {k \in Nat : f[k] # g[k]}
  <2> SUFFICES ASSUME Bad # {} PROVE FALSE
    OBVIOUS
  <2>1. PICK k \in Bad : \A l \in Bad : k <= l
    <3>1. Bad \in SUBSET Nat
      OBVIOUS
    <3> HIDE DEF Bad
    <3> QED BY <3>1, LeastNat
  <2>2. k \in Nat /\ f[k] # g[k]
    OBVIOUS
  <2>3. k = 0 \/ (k - 1 \in Nat /\ f[k - 1] = g[k - 1])
    <3>1. k = 0 \/ (k - 1 \in Nat /\ ~ (k <= k - 1))
      BY <2>2
    <3> QED BY <2>1, <3>1
  <2>4. f[k] = Steps(f)[k] /\ g[k] = Steps(g)[k]
    <3> HIDE DEF Steps, g
    <3> QED BY <1>7, <1>9
  <2>5. Steps(f)[k] = Steps(g)[k]
    <3> HIDE DEF g, Bad
    <3> QED BY <2>2, <2>3
  <2> HIDE DEF Steps, g, Bad
  <2> QED BY <2>2, <2>4, <2>5
<1>11. Left(2 * m) = 0 /\ 2 * m \in Nat
  BY <1>3, <1>5
<1>12. f[2 * m] = Walking(t, s, 0)
  BY <1>10, <1>11
<1>13. Walking(t, s, 0) = Iterator(t % m, s)
  BY <1>3 DEF Walking, m, d
<1> QED BY <1>2, <1>8, <1>12, <1>13, SplitIs DEF d, m

\* operator-= with full pieces: n bytes back, at most a piece.
LEMMA MinusIs ==
  ASSUME NEW x \in Nat, NEW n \in 0 .. DEFAULT_BUFFER_SIZE, n <= x
  PROVE  Minus(FullSizes, PosOf(x), n) = PosOf(x - n)
<1> DEFINE d == DEFAULT_BUFFER_SIZE
           m == MAX_BUFFER_PIECES
<1>1. PICK q \in Nat, p \in 0 .. d - 1 : x = (d * q) + p
  BY SplitPos
<1>2. PICK t \in Nat, s \in 0 .. d - 1 : x - n = (d * t) + s
  <2>1. x - n \in Nat
    OBVIOUS
  <2> QED BY <2>1, SplitPos
<1>3. d \in Nat /\ d > 0 /\ m \in Nat /\ m > 1 /\ n \in Nat /\ n <= d
  BY BufferBounds
<1>4. PosOf(x) = Iterator(q % m, p) /\ PosOf(x - n) = Iterator(t % m, s)
  BY <1>1, <1>2, SplitIs DEF d, m
<1> HIDE DEF d, m
<1>5. (t = q /\ p - n = s) \/ (q = t + 1 /\ p - n = s - d)
  <2>1. (d * q) + p = ((d * t) + s) + n /\ d * t \in Nat /\ d * q \in Nat /\ p \in Nat /\ s \in Nat /\ p < d /\ s < d
    BY <1>1, <1>2, <1>3
  <2>2. ~ (q < t)
    <3> SUFFICES ASSUME q < t PROVE FALSE
      OBVIOUS
    <3>1. d * t >= (d * q) + d
      BY <1>3
    <3> QED BY <1>3, <2>1, <3>1
  <2>3. ~ (q > t + 1)
    <3> SUFFICES ASSUME q > t + 1 PROVE FALSE
      OBVIOUS
    <3>1. d * q >= ((d * t) + d) + d
      BY <1>3
    <3> QED BY <1>3, <2>1, <3>1
  <2>4. CASE q = t
    BY <1>3, <2>1, <2>4
  <2>5. CASE q = t + 1
    <3>1. d * q = (d * t) + d
      BY <1>3, <2>5
    <3> QED BY <1>3, <2>1, <2>5, <3>1
  <2> QED BY <2>2, <2>3, <2>4, <2>5
<1> DEFINE Steps(f) == [k \in Nat |->
                          IF k = 0 THEN Iterator(PosOf(x).idx, PosOf(x).pos - n)
                          ELSE LET w == f[k - 1]
                               IN IF w.pos < 0
                                  THEN Iterator(MOD_PIECES(w.idx - 1 + MAX_BUFFER_PIECES),
                                          w.pos + FullSizes[w.idx]) ELSE w]
           g == [k \in Nat |-> IF k = 0 THEN Iterator(q % m, p - n) ELSE Iterator(t % m, s)]
<1>6. g = Steps(g)
  <2>1. Steps(g)[0] = g[0]
    BY <1>4 DEF Iterator
  <2>2. ASSUME NEW k \in Nat, k # 0 PROVE g[k] = Steps(g)[k]
    <3>1. k - 1 \in Nat /\ g[k] = Iterator(t % m, s)
      BY <2>2
    <3>2. g[k - 1] = IF k = 1 THEN Iterator(q % m, p - n) ELSE Iterator(t % m, s)
      BY <3>1
    <3>3. s >= 0 /\ s \in Int /\ s < d
      BY <1>3
    <3>4. CASE k # 1 \/ t = q
      <4>1. g[k - 1] = Iterator(t % m, s)
        BY <1>5, <3>2, <3>4
      <4> HIDE DEF g
      <4> QED BY <2>2, <3>1, <3>3, <4>1 DEF Iterator
    <3>5. CASE k = 1 /\ q = t + 1
      <4>1. g[k - 1] = Iterator(q % m, s - d)
        BY <1>5, <3>2, <3>5
      <4>2. s - d < 0 /\ (s - d) + d = s
        BY <1>3, <3>3
      <4>3. q % m \in Pieces /\ FullSizes[q % m] = d
        <5>1. q % m \in Pieces
          BY InPieces DEF m
        <5> QED BY <5>1 DEF FullSizes, d
      <4>4. MOD_PIECES((q % m) - 1 + MAX_BUFFER_PIECES) = t % m
        <5>1. \A a, b \in Nat : b > 1 => ((a + 1) % b) - 1 + b \in Int
          OBVIOUS
        <5>2. \A b \in Nat, a \in Nat : b > 1 =>
                /\ a = (b * (a \div b)) + (a % b) /\ a \div b \in Int /\ a % b \in 0 .. b - 1
          OBVIOUS
        <5>3. t = (m * (t \div m)) + (t % m) /\ t \div m \in Int /\ t % m \in 0 .. m - 1
          BY <1>3, <5>2
        <5>4. q = (m * (q \div m)) + (q % m) /\ q \div m \in Int /\ q % m \in 0 .. m - 1
          BY <1>3, <5>2
        <5> DEFINE a == t \div m  b == q \div m  u == t % m  v == q % m
        <5>5. a \in Int /\ b \in Int /\ u \in 0 .. m - 1 /\ v \in 0 .. m - 1
          BY <5>3, <5>4
        <5>6. (m * b) + v = ((m * a) + u) + 1
          BY <3>5, <5>3, <5>4
        <5> HIDE DEF a, b, u, v
        <5>7. (v - 1) + m = (m * ((a - b) + 1)) + u
          BY <1>3, <5>5, <5>6
        <5>8. (v - 1) + m \in Int /\ (a - b) + 1 \in Int
          BY <1>3, <5>5
        <5>9. ((v - 1) + m) % m = u
          BY <1>3, <5>5, <5>7, <5>8, DividedOnce
        <5> QED BY <5>9 DEF MOD_PIECES, m, u, v
      <4> HIDE DEF g
      <4>5. Steps(g)[k] = Iterator(MOD_PIECES((q % m) - 1 + MAX_BUFFER_PIECES), (s - d) + FullSizes[q % m])
        BY <2>2, <4>1, <4>2 DEF Iterator
      <4> QED BY <3>1, <4>2, <4>3, <4>4, <4>5
    <3> QED BY <1>5, <3>4, <3>5
  <2>3. g = [k \in Nat |-> g[k]] /\ Steps(g) = [k \in Nat |-> Steps(g)[k]]
    OBVIOUS
  <2> HIDE DEF Steps, g
  <2> QED BY <2>1, <2>2, <2>3
<1>7. PICK f : f = (CHOOSE h : h = Steps(h)) /\ Minus(FullSizes, PosOf(x), n) = f[2 * m]
  BY DEF Minus, m
<1>8. f = Steps(f)
  <2> HIDE DEF Steps, g
  <2> QED BY <1>6, <1>7
<1>9. \A k \in Nat : f[k] = g[k]
  <2> DEFINE Bad == {k \in Nat : f[k] # g[k]}
  <2> SUFFICES ASSUME Bad # {} PROVE FALSE
    OBVIOUS
  <2>1. PICK k \in Bad : \A l \in Bad : k <= l
    <3>1. Bad \in SUBSET Nat
      OBVIOUS
    <3> HIDE DEF Bad
    <3> QED BY <3>1, LeastNat
  <2>2. k \in Nat /\ f[k] # g[k]
    OBVIOUS
  <2>3. k = 0 \/ (k - 1 \in Nat /\ f[k - 1] = g[k - 1])
    <3>1. k = 0 \/ (k - 1 \in Nat /\ ~ (k <= k - 1))
      BY <2>2
    <3> QED BY <2>1, <3>1
  <2>4. f[k] = Steps(f)[k] /\ g[k] = Steps(g)[k]
    <3> HIDE DEF Steps, g
    <3> QED BY <1>6, <1>8
  <2>5. Steps(f)[k] = Steps(g)[k]
    <3> HIDE DEF g, Bad
    <3> QED BY <2>2, <2>3
  <2> HIDE DEF Steps, g, Bad
  <2> QED BY <2>2, <2>4, <2>5
<1>10. 2 * m \in Nat /\ 2 * m # 0
  BY <1>3
<1> QED BY <1>4, <1>7, <1>9, <1>10

\* The cells of n bytes from x on.
CellsFrom(x, n) == [k \in 1 .. n |-> CellOf(x + k - 1)]

\* The cell of a byte is one of the buffer's.
LEMMA CellIn ==
  ASSUME NEW x \in Nat
  PROVE  CellOf(x) \in Cells
<1>1. x \div DEFAULT_BUFFER_SIZE \in Int /\ x % DEFAULT_BUFFER_SIZE \in 0 .. DEFAULT_BUFFER_SIZE - 1
  BY BufferBounds, Divided
<1> QED BY <1>1, InPieces DEF CellOf, PieceOf, PlaceOf, Cells

\* Members x, x + 1, ..., x + n - 1 of an endless sequence.
Part(f, x, n) == [k \in 1 .. n |-> f[x + k - 1]]

\* Such a part is a sequence.
LEMMA PartIs ==
  ASSUME NEW S, NEW f \in [Nat -> S], NEW x \in Nat, NEW n \in Nat
  PROVE  /\ Part(f, x, n) \in Seq(S) /\ Len(Part(f, x, n)) = n
         /\ \A k \in 1 .. n : Part(f, x, n)[k] = f[x + k - 1]
<1>1. \A k \in 1 .. n : x + k - 1 \in Nat
  OBVIOUS
<1>2. Part(f, x, n) \in [1 .. n -> S]
  BY <1>1 DEF Part
<1>3. PICK g \in [1 .. n -> S] : g = Part(f, x, n)
  BY <1>2
<1>4. g \in Seq(S) /\ Len(g) = n
  OBVIOUS
<1> QED BY <1>3, <1>4 DEF Part

\* Two adjacent parts make one.
LEMMA PartsJoin ==
  ASSUME NEW S, NEW f \in [Nat -> S], NEW x \in Nat, NEW n \in Nat, NEW l \in Nat
  PROVE  Part(f, x, n) \o Part(f, x + n, l) = Part(f, x, n + l)
<1>0. \A y, u \in Nat : /\ Part(f, y, u) \in Seq(S) /\ Len(Part(f, y, u)) = u
                       /\ \A k \in 1 .. u : Part(f, y, u)[k] = f[y + k - 1]
  BY PartIs
<1>1. PICK a \in Seq(S) : a = Part(f, x, n) /\ Len(a) = n /\ \A k \in 1 .. n : a[k] = f[x + k - 1]
  BY <1>0
<1>2. PICK b \in Seq(S) : b = Part(f, x + n, l) /\ Len(b) = l
                          /\ \A k \in 1 .. l : b[k] = f[(x + n) + k - 1]
  <2>1. PICK y \in Nat : y = x + n
    OBVIOUS
  <2> QED BY <1>0, <2>1
<1>3. PICK c \in Seq(S) : c = Part(f, x, n + l) /\ Len(c) = n + l
                          /\ \A k \in 1 .. n + l : c[k] = f[x + k - 1]
  <2>1. PICK u \in Nat : u = n + l
    OBVIOUS
  <2> QED BY <1>0, <2>1
<1>4. /\ a \o b \in Seq(S) /\ Len(a \o b) = n + l
      /\ \A k \in 1 .. n + l : (a \o b)[k] = IF k <= n THEN a[k] ELSE b[k - n]
  <2>1. /\ a \o b \in Seq(S) /\ Len(a \o b) = Len(a) + Len(b)
        /\ \A k \in 1 .. Len(a) + Len(b) : (a \o b)[k] = IF k <= Len(a) THEN a[k] ELSE b[k - Len(a)]
    BY ConcatProperties
  <2>2. Len(a) = n /\ Len(b) = l
    BY <1>1, <1>2
  <2> QED BY <2>1, <2>2, Zenon
<1>5. ASSUME NEW k \in 1 .. n + l PROVE (a \o b)[k] = c[k]
  <2>1. CASE k <= n
    <3>1. k \in 1 .. n
      BY <2>1
    <3> QED BY <1>1, <1>3, <1>4, <2>1, <3>1
  <2>2. CASE ~ (k <= n)
    <3>1. k - n \in 1 .. l /\ (x + n) + (k - n) - 1 = x + k - 1
      BY <2>2
    <3> QED BY <1>2, <1>3, <1>4, <2>2, <3>1
  <2> QED BY <2>1, <2>2
<1>6. PICK e \in Seq(S) : e = a \o b /\ Len(e) = n + l /\ \A k \in 1 .. n + l : e[k] = c[k]
  BY <1>4, <1>5
<1>7. e = c
  BY <1>3, <1>6, SeqEqual
<1> QED BY <1>1, <1>2, <1>3, <1>6, <1>7

\* A part of a part is a part, ...
LEMMA SubPart ==
  ASSUME NEW S, NEW f \in [Nat -> S], NEW x \in Nat, NEW n \in Nat, NEW i \in 0 .. n, NEW j \in i .. n
  PROVE  SubSeq(Part(f, x, n), i + 1, j) = Part(f, x + i, j - i)
<1>0. \A y, u \in Nat : /\ Part(f, y, u) \in Seq(S) /\ Len(Part(f, y, u)) = u
                       /\ \A k \in 1 .. u : Part(f, y, u)[k] = f[y + k - 1]
  BY PartIs
<1>1. PICK a \in Seq(S) : a = Part(f, x, n) /\ Len(a) = n /\ \A k \in 1 .. n : a[k] = f[x + k - 1]
  BY <1>0
<1>2. PICK c \in Seq(S) : c = Part(f, x + i, j - i) /\ Len(c) = j - i
                          /\ \A k \in 1 .. j - i : c[k] = f[(x + i) + k - 1]
  <2>1. PICK y \in Nat, u \in Nat : y = x + i /\ u = j - i
    OBVIOUS
  <2> QED BY <1>0, <2>1
<1>3. i + 1 \in Int /\ j \in Int /\ \A k \in i + 1 .. j : a[k] \in S
  BY <1>1
<1>4. /\ SubSeq(a, i + 1, j) \in Seq(S)
      /\ Len(SubSeq(a, i + 1, j)) = IF i + 1 <= j THEN j - (i + 1) + 1 ELSE 0
      /\ \A k \in 1 .. j - (i + 1) + 1 : SubSeq(a, i + 1, j)[k] = a[(i + 1) + k - 1]
  BY <1>3, SubSeqProperties
<1>5. PICK e \in Seq(S) : e = SubSeq(a, i + 1, j) /\ Len(e) = j - i
                          /\ \A k \in 1 .. j - i : e[k] = a[i + k]
  <2>1. PICK e \in Seq(S) : e = SubSeq(a, i + 1, j)
    BY <1>4
  <2>2. Len(e) = j - i
    BY <1>4, <2>1
  <2>3. \A k \in 1 .. j - i : e[k] = a[(i + 1) + k - 1]
    BY <1>4, <2>1
  <2>4. \A k \in 1 .. j - i : (i + 1) + k - 1 = i + k
    OBVIOUS
  <2> QED BY <2>1, <2>2, <2>3, <2>4
<1>6. \A k \in 1 .. j - i : e[k] = c[k]
  <2> TAKE k \in 1 .. j - i
  <2>1. i + k \in 1 .. n /\ x + (i + k) - 1 = (x + i) + k - 1
    OBVIOUS
  <2> QED BY <1>1, <1>2, <1>5, <2>1
<1> QED BY <1>1, <1>2, <1>5, <1>6, SeqEqual

\* ... and so is its beginning.
LEMMA FirstPart ==
  ASSUME NEW S, NEW f \in [Nat -> S], NEW x \in Nat, NEW n \in Nat, NEW j \in 0 .. n
  PROVE  SubSeq(Part(f, x, n), 1, j) = Part(f, x, j)
<1>1. 0 \in 0 .. n /\ j \in 0 .. n
  OBVIOUS
<1>2. PICK i \in 0 .. n : i = 0 /\ j \in i .. n
  BY <1>1
<1>3. SubSeq(Part(f, x, n), i + 1, j) = Part(f, x + i, j - i)
  BY <1>2, SubPart
<1>4. i + 1 = 1 /\ x + i = x /\ j - i = j
  BY <1>2
<1> QED BY <1>3, <1>4, Zenon

CellOfAll == [x \in Nat |-> CellOf(x)]

\* The cells of adjacent bytes are a part of those of all, ...
LEMMA CellsPart ==
  /\ CellOfAll \in [Nat -> Cells]
  /\ \A x, n \in Nat : CellsFrom(x, n) = Part(CellOfAll, x, n)
<1>1. CellOfAll \in [Nat -> Cells]
  BY CellIn DEF CellOfAll
<1>2. ASSUME NEW x \in Nat, NEW n \in Nat PROVE CellsFrom(x, n) = Part(CellOfAll, x, n)
  <2>1. \A k \in 1 .. n : x + k - 1 \in Nat
    OBVIOUS
  <2> QED BY <2>1 DEF CellsFrom, Part, CellOfAll
<1> QED BY <1>1, <1>2

\* ... each the cell of its byte; ...
LEMMA CellsAre ==
  ASSUME NEW x \in Nat, NEW n \in Nat
  PROVE  /\ CellsFrom(x, n) \in Seq(Cells) /\ Len(CellsFrom(x, n)) = n
         /\ \A k \in 1 .. n : CellsFrom(x, n)[k] = CellOf(x + k - 1)
<1>1. CellOfAll \in [Nat -> Cells] /\ CellsFrom(x, n) = Part(CellOfAll, x, n)
  BY CellsPart
<1>2. /\ Part(CellOfAll, x, n) \in Seq(Cells) /\ Len(Part(CellOfAll, x, n)) = n
  BY <1>1, PartIs
<1> QED BY <1>1, <1>2 DEF CellsFrom

\* ... adjacent ones make one.
LEMMA CellsJoin ==
  ASSUME NEW x \in Nat, NEW n \in Nat, NEW l \in Nat
  PROVE  CellsFrom(x, n) \o CellsFrom(x + n, l) = CellsFrom(x, n + l)
<1>1. CellOfAll \in [Nat -> Cells] /\ x + n \in Nat /\ n + l \in Nat
  BY CellsPart
<1>2. /\ CellsFrom(x, n) = Part(CellOfAll, x, n) /\ CellsFrom(x + n, l) = Part(CellOfAll, x + n, l)
      /\ CellsFrom(x, n + l) = Part(CellOfAll, x, n + l)
  BY <1>1, CellsPart
<1>3. Part(CellOfAll, x, n) \o Part(CellOfAll, x + n, l) = Part(CellOfAll, x, n + l)
  BY <1>1, PartsJoin
<1> QED BY <1>2, <1>3

\* A stretch of a full piece.
LEMMA StretchIs ==
  ASSUME NEW q \in Nat, NEW p \in 0 .. DEFAULT_BUFFER_SIZE, NEW u \in p .. DEFAULT_BUFFER_SIZE
  PROVE  Stretch(q % MAX_BUFFER_PIECES, p, u) = CellsFrom((DEFAULT_BUFFER_SIZE * q) + p, u - p)
<1> DEFINE d == DEFAULT_BUFFER_SIZE
<1>1. d \in Nat /\ d * q \in Nat /\ p \in Nat /\ u \in Nat /\ u <= d
  BY BufferBounds
<1>2. ASSUME NEW k \in 1 .. u - p
      PROVE  CellOf(((d * q) + p) + k - 1) = <<q % MAX_BUFFER_PIECES, p + k - 1>>
  <2>1. p + k - 1 \in 0 .. d - 1
    BY <1>1
  <2>2. CellOf((d * q) + (p + k - 1)) = <<q % MAX_BUFFER_PIECES, p + k - 1>>
    BY <2>1, SplitIs
  <2>3. ((d * q) + p) + k - 1 = (d * q) + (p + k - 1)
    <3> HIDE DEF d
    <3>1. \A y \in Nat : (y + p) + k - 1 = y + (p + k - 1)
      BY <1>1
    <3> QED BY <1>1, <3>1
  <2> QED BY <2>2, <2>3
<1> QED BY <1>2 DEF Stretch, CellsFrom

\* Whole pieces, one after the other.
LEMMA FlattenIs ==
  ASSUME NEW q \in Nat, NEW n \in Nat
  PROVE  FlattenSeq([k \in 1 .. n |-> Stretch((q + k) % MAX_BUFFER_PIECES, 0, DEFAULT_BUFFER_SIZE)])
           = CellsFrom(DEFAULT_BUFFER_SIZE * (q + 1), DEFAULT_BUFFER_SIZE * n)
<1> DEFINE d == DEFAULT_BUFFER_SIZE
           seqs == [k \in 1 .. n |-> Stretch((q + k) % MAX_BUFFER_PIECES, 0, DEFAULT_BUFFER_SIZE)]
<1>1. d \in Nat /\ d > 0
  BY BufferBounds
<1>2. ASSUME NEW k \in 1 .. n PROVE seqs[k] = CellsFrom(d * (q + k), d)
  <2>1. q + k \in Nat /\ 0 \in 0 .. d /\ d \in 0 .. d
    BY <1>1
  <2>2. Stretch((q + k) % MAX_BUFFER_PIECES, 0, d) = CellsFrom((d * (q + k)) + 0, d - 0)
    BY <2>1, StretchIs
  <2>3. (d * (q + k)) + 0 = d * (q + k) /\ d - 0 = d
    BY <1>1, <2>1
  <2> QED BY <2>2, <2>3
<1>3. Len(seqs) = n /\ DOMAIN seqs = 1 .. n
  OBVIOUS
<1> HIDE DEF d
<1>4. CASE n = 0
  <2>1. seqs = <<>> /\ d * n = 0
    BY <1>1, <1>4
  <2>2. CellsFrom(d * (q + 1), 0) = <<>>
    BY DEF CellsFrom
  <2> HIDE DEF seqs
  <2>3. FlattenSeq(seqs) = seqs
    BY <1>3, <1>4 DEF FlattenSeq
  <2> QED BY <2>1, <2>2, <2>3 DEF d, seqs
<1>5. CASE n # 0
  <2> DEFINE Steps(f) == [k \in 1 .. n |-> IF k = 1 THEN seqs[k] ELSE f[k - 1] \o seqs[k]]
             g == [k \in 1 .. n |-> CellsFrom(d * (q + 1), d * k)]
  <2>1. g = Steps(g)
    <3>1. ASSUME NEW k \in 1 .. n PROVE g[k] = Steps(g)[k]
      <4>1. CASE k = 1
        <5>1. d * 1 = d
          BY <1>1
        <5>2. g[1] = CellsFrom(d * (q + 1), d)
          BY <4>1, <5>1
        <5>3. seqs[1] = CellsFrom(d * (q + 1), d)
          BY <1>2, <4>1
        <5> HIDE DEF g, seqs
        <5> QED BY <4>1, <5>2, <5>3
      <4>2. CASE k # 1
        <5>1. k - 1 \in 1 .. n
          BY <4>2
        <5>2. g[k] = CellsFrom(d * (q + 1), d * k) /\ g[k - 1] = CellsFrom(d * (q + 1), d * (k - 1))
          BY <5>1
        <5>3. /\ d * (q + 1) \in Nat /\ d * (k - 1) \in Nat
              /\ (d * (q + 1)) + (d * (k - 1)) = d * (q + k) /\ (d * (k - 1)) + d = d * k
          BY <1>1, <5>1
        <5>4. CellsFrom(d * (q + 1), d * (k - 1)) \o CellsFrom(d * (q + k), d) = CellsFrom(d * (q + 1), d * k)
          <6>1. CellsFrom(d * (q + 1), d * (k - 1)) \o CellsFrom((d * (q + 1)) + (d * (k - 1)), d)
                  = CellsFrom(d * (q + 1), (d * (k - 1)) + d)
            BY <1>1, <5>3, CellsJoin
          <6> QED BY <5>3, <6>1, Zenon
        <5>5. seqs[k] = CellsFrom(d * (q + k), d)
          BY <1>2
        <5> HIDE DEF g, seqs
        <5>6. g[k] = g[k - 1] \o seqs[k]
          BY <5>2, <5>4, <5>5
        <5>7. Steps(g)[k] = g[k - 1] \o seqs[k]
          BY <4>2
        <5> QED BY <5>6, <5>7
      <4> QED BY <4>1, <4>2
    <3>2. g = [k \in 1 .. n |-> g[k]] /\ Steps(g) = [k \in 1 .. n |-> Steps(g)[k]]
      OBVIOUS
    <3> HIDE DEF Steps, g
    <3> QED BY <3>1, <3>2
  <2>2. PICK f : f = (CHOOSE h : h = Steps(h)) /\ FlattenSeq(seqs) = f[n]
    <3> HIDE DEF g
    <3>1. seqs = [k \in 1 .. n |-> seqs[k]]
      OBVIOUS
    <3>2. FlattenSeq(seqs) = (CHOOSE h : h = Steps(h))[n]
      <4> HIDE DEF seqs
      <4> QED BY <1>3, <1>5 DEF FlattenSeq
    <3> QED BY <3>2
  <2>3. f = Steps(f)
    <3> HIDE DEF Steps, g
    <3> QED BY <2>1, <2>2
  <2>4. \A k \in 1 .. n : f[k] = g[k]
    <3> DEFINE Bad == {k \in 1 .. n : f[k] # g[k]}
    <3> SUFFICES ASSUME Bad # {} PROVE FALSE
      OBVIOUS
    <3>1. PICK k \in Bad : \A l \in Bad : k <= l
      <4>1. Bad \in SUBSET Nat
        OBVIOUS
      <4> HIDE DEF Bad
      <4> QED BY <4>1, LeastNat
    <3>2. k \in 1 .. n /\ f[k] # g[k]
      OBVIOUS
    <3>3. k = 1 \/ (k - 1 \in 1 .. n /\ f[k - 1] = g[k - 1])
      <4>1. k = 1 \/ (k - 1 \in 1 .. n /\ ~ (k <= k - 1))
        BY <3>2
      <4> QED BY <3>1, <4>1
    <3>4. f[k] = Steps(f)[k] /\ g[k] = Steps(g)[k]
      <4> HIDE DEF Steps, g
      <4> QED BY <2>1, <2>3
    <3>5. Steps(f)[k] = Steps(g)[k]
      <4> HIDE DEF g, Bad, seqs
      <4> QED BY <3>2, <3>3
    <3> HIDE DEF Steps, g, Bad
    <3> QED BY <3>2, <3>4, <3>5
  <2>5. n \in 1 .. n
    BY <1>5
  <2>6. f[n] = CellsFrom(d * (q + 1), d * n)
    BY <2>4, <2>5
  <2> HIDE DEF seqs
  <2> QED BY <2>2, <2>6 DEF d, seqs
<1> QED BY <1>4, <1>5

\* A remainder may be taken early.
LEMMA RemainderAdds ==
  ASSUME NEW m \in Nat, m > 0, NEW q \in Nat, NEW k \in Nat
  PROVE  ((q % m) + k) % m = (q + k) % m
<1>1. m \in Nat /\ m > 0
  OBVIOUS
<1>2. q = (m * (q \div m)) + (q % m) /\ q \div m \in Int /\ q % m \in 0 .. m - 1
  BY <1>1, Divided
<1> DEFINE a == q \div m  u == q % m
<1>3. a \in Int /\ u \in 0 .. m - 1 /\ q = (m * a) + u
  BY <1>2
<1> HIDE DEF a, u
<1>4. u + k = (m * ((u + k) \div m)) + ((u + k) % m) /\ (u + k) \div m \in Int /\ (u + k) % m \in 0 .. m - 1
  <2>1. u + k \in Int
    BY <1>1, <1>3
  <2> QED BY <1>1, <2>1, Divided
<1> DEFINE b == (u + k) \div m  v == (u + k) % m
<1>5. b \in Int /\ v \in 0 .. m - 1 /\ u + k = (m * b) + v
  BY <1>4
<1> HIDE DEF b, v
<1>6. q + k = (m * (a + b)) + v /\ q + k \in Int /\ a + b \in Int
  <2>1. m * (a + b) = (m * a) + (m * b) /\ m * a \in Int /\ m * b \in Int
    BY <1>1, <1>3, <1>5
  <2> QED BY <1>1, <1>3, <1>5, <2>1
<1>7. (q + k) % m = v
  BY <1>1, <1>5, <1>6, DividedOnce
<1> QED BY <1>7 DEF u, v

\* The piece k pieces on.
LEMMA AddRemainder ==
  ASSUME NEW q \in Nat, NEW k \in Nat
  PROVE  MOD_PIECES((q % MAX_BUFFER_PIECES) + k) = (q + k) % MAX_BUFFER_PIECES
<1>1. MAX_BUFFER_PIECES \in Nat /\ MAX_BUFFER_PIECES > 0
  BY BufferBounds
<1>2. ((q % MAX_BUFFER_PIECES) + k) % MAX_BUFFER_PIECES = (q + k) % MAX_BUFFER_PIECES
  BY <1>1, RemainderAdds
<1> QED BY <1>2 DEF MOD_PIECES

\* The pieces between two that are at most a round apart.
LEMMA BetweenIs ==
  ASSUME NEW q \in Nat, NEW n \in 0 .. MAX_BUFFER_PIECES - 1
  PROVE  Between(q % MAX_BUFFER_PIECES, (q + n + 1) % MAX_BUFFER_PIECES)
           = [k \in 1 .. n |-> (q + k) % MAX_BUFFER_PIECES]
<1> DEFINE m == MAX_BUFFER_PIECES
<1>1. m \in Nat /\ m > 0
  BY BufferBounds
<1>2. q = (m * (q \div m)) + (q % m) /\ q \div m \in Int /\ q % m \in 0 .. m - 1
  BY <1>1, Divided
<1>3. (q + n + 1) = (m * ((q + n + 1) \div m)) + ((q + n + 1) % m) /\ (q + n + 1) \div m \in Int
      /\ (q + n + 1) % m \in 0 .. m - 1
  <2>1. q + n + 1 \in Int
    OBVIOUS
  <2> QED BY <1>1, <2>1, Divided
<1> DEFINE a == q \div m  i == q % m  b == (q + n + 1) \div m  j == (q + n + 1) % m
<1>4. a \in Int /\ b \in Int /\ i \in 0 .. m - 1 /\ j \in 0 .. m - 1
  BY <1>2, <1>3
<1>5. ((m * a) + i) + n + 1 = (m * b) + j
  BY <1>2, <1>3
<1>6. \A k \in 1 .. n : MOD_PIECES(i + k) = (q + k) % m
  BY AddRemainder
<1> HIDE DEF m, a, b, i, j
<1>7. (j - i - 1) + m = (m * ((a - b) + 1)) + n
  <2>1. m * ((a - b) + 1) = ((m * a) - (m * b)) + m /\ m * a \in Int /\ m * b \in Int
    BY <1>1, <1>4
  <2> QED BY <1>1, <1>4, <1>5, <2>1
<1>8. (j - i - 1) + m \in Int /\ (a - b) + 1 \in Int /\ n \in 0 .. m - 1
  BY <1>1, <1>4 DEF m
<1>9. ((j - i - 1) + m) % m = n
  <2>1. PICK x \in Int : x = (j - i - 1) + m
    BY <1>8
  <2>2. PICK c \in Int : c = (a - b) + 1
    BY <1>8
  <2>3. x = (m * c) + n
    BY <1>7, <2>1, <2>2
  <2>4. x % m = n
    BY <1>1, <1>8, <2>3, DividedOnce
  <2> QED BY <2>1, <2>4
<1> QED BY <1>6, <1>9 DEF Between, i, j, m

\* Bytes x and y, y later by at most a round, are in one piece or in two.
LEMMA Apart ==
  ASSUME NEW q \in Nat, NEW p \in 0 .. DEFAULT_BUFFER_SIZE - 1,
         NEW t \in Nat, NEW s \in 0 .. DEFAULT_BUFFER_SIZE - 1,
         NEW x \in Nat, NEW y \in Nat,
         x = (DEFAULT_BUFFER_SIZE * q) + p, y = (DEFAULT_BUFFER_SIZE * t) + s,
         x < y, y <= x + BufferSize
  PROVE  \/ t = q /\ p < s /\ y - x = s - p
         \/ \E n \in 0 .. MAX_BUFFER_PIECES - 1 :
              /\ t = q + n + 1
              /\ q % MAX_BUFFER_PIECES = t % MAX_BUFFER_PIECES =>
                   s <= p /\ (y < x + BufferSize => s < p)
<1> DEFINE d == DEFAULT_BUFFER_SIZE
           m == MAX_BUFFER_PIECES
<1>1. d \in Nat /\ d > 0 /\ m \in Nat /\ m > 0 /\ BufferSize = m * d /\ m * d \in Nat
  BY BufferBounds DEF BufferSize
<1>2. x = (d * q) + p /\ y = (d * t) + s /\ p \in Nat /\ s \in Nat /\ p < d /\ s < d
  BY <1>1
<1> HIDE DEF d, m
<1>3. d * q \in Nat /\ d * t \in Nat
  BY <1>1
<1>4. ~ (t < q)
  <2> SUFFICES ASSUME t < q PROVE FALSE
    OBVIOUS
  <2>1. d * q >= (d * t) + d
    BY <1>1
  <2> QED BY <1>1, <1>2, <1>3, <2>1
<1>5. ~ (t > q + m)
  <2> SUFFICES ASSUME t > q + m PROVE FALSE
    OBVIOUS
  <2>1. d * t >= ((d * q) + (m * d)) + d
    BY <1>1
  <2> QED BY <1>1, <1>2, <1>3, <2>1
<1>6. CASE t = q
  <2>1. x = (d * q) + p /\ y = (d * q) + s
    BY <1>2, <1>6
  <2> QED BY <1>1, <1>2, <1>3, <1>6, <2>1
<1>7. CASE t # q
  <2>1. PICK n \in 0 .. m - 1 : t = q + n + 1
    <3>1. t - q - 1 \in 0 .. m - 1 /\ t = q + (t - q - 1) + 1
      BY <1>1, <1>4, <1>5, <1>7
    <3> QED BY <3>1
  <2>2. ASSUME q % m = t % m PROVE s <= p /\ (y < x + BufferSize => s < p)
    <3>1. ~ (t < q + m)
      <4> SUFFICES ASSUME t < q + m PROVE FALSE
        OBVIOUS
      <4>1. q <= t
        BY <1>4
      <4> QED BY <1>1, <1>7, <2>2, <4>1, SameRemainder
    <3>2. t = q + m
      BY <1>1, <1>4, <1>5, <3>1
    <3>3. d * t = (d * q) + (m * d)
      BY <1>1, <3>2
    <3> QED BY <1>1, <1>2, <1>3, <3>3
  <2> QED BY <2>1, <2>2 DEF m
<1> QED BY <1>6, <1>7

\* In a readbuf no piece is ever truncated.
LEMMA FullPiece == \A q \in Nat : FullSizes[q % MAX_BUFFER_PIECES] = DEFAULT_BUFFER_SIZE
  BY InPieces DEF FullSizes

\* The iovecs between two positions of full pieces cover the cells between.
LEMMA VectorsAre ==
  ASSUME NEW x \in Nat, NEW y \in Nat, x < y, y <= x + BufferSize
  PROVE  Vectors(FullSizes, PosOf(x), PosOf(y)) = CellsFrom(x, y - x)
<1> DEFINE d == DEFAULT_BUFFER_SIZE
           m == MAX_BUFFER_PIECES
<1>1. d \in Nat /\ d > 0 /\ m \in Nat /\ m > 0
  BY BufferBounds
<1>2. PICK q \in Nat, p \in 0 .. d - 1 : x = (d * q) + p
  BY SplitPos
<1>3. PICK t \in Nat, s \in 0 .. d - 1 : y = (d * t) + s
  BY SplitPos
<1>4. PosOf(x) = Iterator(q % m, p) /\ PosOf(y) = Iterator(t % m, s)
  BY <1>2, <1>3, SplitIs
<1>5. /\ PosOf(x).idx = q % m /\ PosOf(x).pos = p
      /\ PosOf(y).idx = t % m /\ PosOf(y).pos = s
  BY <1>4 DEF Iterator
<1>6. \/ t = q /\ p < s /\ y - x = s - p
      \/ \E n \in 0 .. m - 1 : t = q + n + 1 /\ (q % m = t % m => s <= p)
  BY <1>2, <1>3, Apart
<1>7. CASE t = q /\ p < s /\ y - x = s - p
  <2>1. s \in p .. d /\ p \in 0 .. d
    BY <1>1, <1>7
  <2>2. Stretch(q % m, p, s) = CellsFrom((d * q) + p, s - p)
    BY <2>1, StretchIs
  <2> QED BY <1>2, <1>5, <1>7, <2>2 DEF Vectors
<1>8. CASE \E n \in 0 .. m - 1 : t = q + n + 1 /\ (q % m = t % m => s <= p)
  <2>1. PICK n \in 0 .. m - 1 : t = q + n + 1 /\ (q % m = t % m => s <= p)
    BY <1>8
  <2>2. ~ (q % m = t % m /\ p < s)
    BY <1>1, <2>1
  <2>3. Stretch(q % m, p, d) = CellsFrom(x, d - p)
    <3>1. d \in p .. d /\ p \in 0 .. d
      BY <1>1
    <3> QED BY <1>2, <3>1, StretchIs
  <2>4. Stretch(t % m, 0, s) = CellsFrom(d * t, s)
    <3>1. s \in 0 .. d /\ 0 \in 0 .. d /\ (d * t) + 0 = d * t /\ s - 0 = s
      BY <1>1
    <3>2. Stretch(t % m, 0, s) = CellsFrom((d * t) + 0, s - 0)
      BY <3>1, StretchIs
    <3> QED BY <3>1, <3>2
  <2> DEFINE between == Between(q % m, t % m)
  <2>5. between = [k \in 1 .. n |-> (q + k) % m]
    BY <2>1, BetweenIs
  <2>6. [k \in DOMAIN between |-> Stretch(between[k], 0, FullSizes[between[k]])]
          = [k \in 1 .. n |-> Stretch((q + k) % m, 0, d)]
    <3>1. DOMAIN between = 1 .. n /\ \A k \in 1 .. n : between[k] = (q + k) % m
      BY <2>5
    <3>2. \A k \in 1 .. n : FullSizes[(q + k) % m] = d
      BY FullPiece
    <3> HIDE DEF between, d, m
    <3> QED BY <3>1, <3>2
  <2>7. FlattenSeq([k \in 1 .. n |-> Stretch((q + k) % m, 0, d)]) = CellsFrom(d * (q + 1), d * n)
    <3>1. n \in Nat
      OBVIOUS
    <3> QED BY <3>1, FlattenIs
  <2>8. Vectors(FullSizes, PosOf(x), PosOf(y))
          = Stretch(q % m, p, d) \o FlattenSeq([k \in 1 .. n |-> Stretch((q + k) % m, 0, d)]) \o Stretch(t % m, 0, s)
    <3>1. FullSizes[q % m] = d
      BY FullPiece
    <3> HIDE DEF d, m
    <3> QED BY <1>5, <2>2, <2>6, <3>1 DEF Vectors
  <2> HIDE DEF d, m, between
  <2>9. /\ d * (q + 1) = x + (d - p) /\ d * n \in Nat /\ d - p \in Nat /\ d * t \in Nat /\ s \in Nat
        /\ x + ((d - p) + (d * n)) = d * t /\ ((d - p) + (d * n)) + s = y - x
    <3>1. d * (q + 1) = (d * q) + d /\ d * t = ((d * q) + (d * n)) + d /\ d * q \in Nat /\ d * n \in Nat
      BY <1>1, <2>1
    <3> QED BY <1>1, <1>2, <1>3, <3>1
  <2>10. CellsFrom(x, d - p) \o CellsFrom(d * (q + 1), d * n) = CellsFrom(x, (d - p) + (d * n))
    <3>1. CellsFrom(x, d - p) \o CellsFrom(x + (d - p), d * n) = CellsFrom(x, (d - p) + (d * n))
      BY <2>9, CellsJoin
    <3> QED BY <2>9, <3>1, Zenon
  <2>11. CellsFrom(x, (d - p) + (d * n)) \o CellsFrom(d * t, s) = CellsFrom(x, y - x)
    <3>1. PICK u \in Nat : u = (d - p) + (d * n)
      BY <2>9
    <3>2. CellsFrom(x, u) \o CellsFrom(x + u, s) = CellsFrom(x, u + s)
      <4>1. s \in Nat
        BY <2>9
      <4> QED BY <4>1, CellsJoin
    <3> QED BY <2>9, <3>1, <3>2, Zenon
  <2> QED BY <2>3, <2>4, <2>7, <2>8, <2>10, <2>11, Zenon
<1> QED BY <1>6, <1>7, <1>8

\* The bytes in n pieces of d.
LEMMA TotalIs ==
  ASSUME NEW n \in Nat, NEW d \in Nat
  PROVE  Total([k \in 1 .. n |-> d]) = d * n
<1>0. PICK fun : fun = [k \in 1 .. n |-> d] /\ DOMAIN fun = 1 .. n /\ \A k \in 1 .. n : fun[k] = d
  <2>1. PICK f : f = [k \in 1 .. n |-> d]
    OBVIOUS
  <2>2. DOMAIN f = 1 .. n /\ \A k \in 1 .. n : f[k] = d
    BY <2>1
  <2> QED BY <2>1, <2>2
<1> DEFINE S == DOMAIN fun
           One(s) == CHOOSE i \in s : TRUE
           Steps(f) == [s \in SUBSET S |-> IF s = {} THEN 0 ELSE fun[One(s)] + f[s \ {One(s)}]]
           g == [s \in SUBSET S |-> d * Cardinality(s)]
<1>1. IsFiniteSet(S) /\ Cardinality(S) = n
  BY <1>0, FS_Interval
<1>2. \A s \in SUBSET S : IsFiniteSet(s) /\ Cardinality(s) \in Nat
  BY <1>1, FS_Subset, FS_CardinalityType
<1>3. \A s \in SUBSET S : s # {} => One(s) \in s /\ s \ {One(s)} \in SUBSET S
                                    /\ Cardinality(s \ {One(s)}) = Cardinality(s) - 1
  BY <1>2, FS_RemoveElement
<1>4. g = Steps(g)
  <2>1. ASSUME NEW s \in SUBSET S PROVE g[s] = Steps(g)[s]
    <3>1. CASE s = {}
      <4>1. Cardinality(s) = 0
        BY <3>1, FS_EmptySet
      <4> QED BY <3>1, <4>1
    <3>2. CASE s # {}
      <4>1. s \ {One(s)} \in SUBSET S
        BY <1>3, <3>2
      <4>2. g[s] = d * Cardinality(s) /\ g[s \ {One(s)}] = d * Cardinality(s \ {One(s)})
        BY <4>1
      <4>3. PICK c \in Nat : c = Cardinality(s \ {One(s)}) /\ Cardinality(s) = c + 1
        <5> HIDE DEF One, S
        <5>1. Cardinality(s \ {One(s)}) \in Nat /\ Cardinality(s) \in Nat
          BY <1>2, <4>1
        <5>2. Cardinality(s \ {One(s)}) = Cardinality(s) - 1
          BY <1>3, <3>2
        <5> QED BY <5>1, <5>2
      <4>4. d * (c + 1) = d + (d * c)
        OBVIOUS
      <4>5. Steps(g)[s] = d + g[s \ {One(s)}]
        <5>1. One(s) \in 1 .. n
          BY <1>0, <1>3, <3>2
        <5> HIDE DEF g, One
        <5> QED BY <1>0, <3>2, <5>1
      <4> HIDE DEF g, One, Steps
      <4> QED BY <4>2, <4>3, <4>4, <4>5
    <3> QED BY <3>1, <3>2
  <2>2. g = [s \in SUBSET S |-> g[s]] /\ Steps(g) = [s \in SUBSET S |-> Steps(g)[s]]
    OBVIOUS
  <2> HIDE DEF Steps, g
  <2> QED BY <2>1, <2>2
<1>5. PICK f : f = (CHOOSE h : h = Steps(h)) /\ Total(fun) = f[S]
  BY DEF Total, FoldSeq, FoldFunction, FoldFunctionOnSet, MapThenFoldSet
<1>6. f = Steps(f)
  <2> HIDE DEF Steps, g
  <2> QED BY <1>4, <1>5
<1> DEFINE Bad == {s \in SUBSET S : f[s] # g[s]}
<1>7. ASSUME Bad # {} PROVE FALSE
  <2>1. \A s \in Bad : IsFiniteSet(s)
    BY <1>2
  <2>2. PICK s \in Bad : \A r \in Bad : Cardinality(s) <= Cardinality(r)
    <3> DEFINE N == {Cardinality(r) : r \in Bad}
    <3>1. N \in SUBSET Nat
      BY <1>2
    <3>2. N # {}
      BY <1>7
    <3> HIDE DEF N
    <3>3. PICK c \in N : \A b \in N : c <= b
      BY <3>1, <3>2, LeastNat
    <3> HIDE DEF Bad
    <3> QED BY <3>3 DEF N
  <2>3. s \in SUBSET S /\ f[s] # g[s]
    OBVIOUS
  <2> HIDE DEF Bad
  <2>4. s # {}
    BY <1>4, <1>6, <2>3
  <2>5. /\ s \ {One(s)} \in SUBSET S
        /\ ~ (Cardinality(s) <= Cardinality(s \ {One(s)}))
    BY <1>2, <1>3, <2>3, <2>4
  <2>6. f[s \ {One(s)}] = g[s \ {One(s)}]
    BY <2>2, <2>5 DEF Bad
  <2>7. f[s] = Steps(f)[s] /\ g[s] = Steps(g)[s]
    <3> HIDE DEF Steps, g
    <3> QED BY <1>4, <1>6
  <2>8. Steps(f)[s] = Steps(g)[s]
    <3> HIDE DEF g, One
    <3> QED BY <2>3, <2>4, <2>6
  <2> HIDE DEF Steps, g
  <2> QED BY <2>3, <2>7, <2>8
<1>8. f[S] = g[S]
  BY <1>7
<1>9. g[S] = d * n
  BY <1>1
<1> QED BY <1>0, <1>5, <1>8, <1>9

\* operator- with full pieces.
LEMMA DifferenceIs ==
  ASSUME NEW x \in Nat, NEW y \in Nat, x <= y, y < x + BufferSize
  PROVE  Difference(FullSizes, PosOf(y), PosOf(x)) = y - x
<1> DEFINE d == DEFAULT_BUFFER_SIZE
           m == MAX_BUFFER_PIECES
<1>1. d \in Nat /\ d > 0 /\ m \in Nat /\ m > 0 /\ BufferSize \in Nat
  BY BufferBounds
<1>2. PICK q \in Nat, p \in 0 .. d - 1 : x = (d * q) + p
  BY SplitPos
<1>3. PICK t \in Nat, s \in 0 .. d - 1 : y = (d * t) + s
  BY SplitPos
<1>4. PosOf(x) = Iterator(q % m, p) /\ PosOf(y) = Iterator(t % m, s)
  BY <1>2, <1>3, SplitIs
<1>5. /\ PosOf(x).idx = q % m /\ PosOf(x).pos = p
      /\ PosOf(y).idx = t % m /\ PosOf(y).pos = s
  BY <1>4 DEF Iterator
<1>6. CASE x = y
  BY <1>5, <1>6 DEF Difference
<1>7. CASE x # y
  <2>1. \/ t = q /\ p < s /\ y - x = s - p
        \/ \E n \in 0 .. m - 1 : t = q + n + 1 /\ (q % m = t % m => s < p)
    <3>1. x < y /\ y <= x + BufferSize
      BY <1>1, <1>7
    <3> HIDE DEF PosOf
    <3> QED BY <1>2, <1>3, <3>1, Apart
  <2>2. CASE t = q /\ p < s /\ y - x = s - p
    BY <1>5, <2>2 DEF Difference
  <2>3. CASE \E n \in 0 .. m - 1 : t = q + n + 1 /\ (q % m = t % m => s < p)
    <3>1. PICK n \in 0 .. m - 1 : t = q + n + 1 /\ (q % m = t % m => s < p)
      BY <2>3
    <3>2. ~ (q % m = t % m /\ p <= s)
      BY <1>1, <3>1
    <3> DEFINE between == Between(q % m, t % m)
    <3>3. between = [k \in 1 .. n |-> (q + k) % m]
      BY <3>1, BetweenIs
    <3>4. [k \in DOMAIN between |-> FullSizes[between[k]]] = [k \in 1 .. n |-> d]
      <4>1. DOMAIN between = 1 .. n /\ \A k \in 1 .. n : between[k] = (q + k) % m
        BY <3>3
      <4>2. \A k \in 1 .. n : FullSizes[(q + k) % m] = d
        BY FullPiece
      <4> HIDE DEF between, d, m
      <4> QED BY <4>1, <4>2
    <3>5. Total([k \in 1 .. n |-> d]) = d * n
      <4>1. n \in Nat
        OBVIOUS
      <4> QED BY <1>1, <4>1, TotalIs
    <3>6. Difference(FullSizes, PosOf(y), PosOf(x)) = d - p + s + (d * n)
      <4>1. FullSizes[q % m] = d
        BY FullPiece
      <4> HIDE DEF d, m
      <4> QED BY <1>5, <3>2, <3>4, <3>5, <4>1 DEF Difference
    <3> HIDE DEF d, m, between
    <3>7. d * t = ((d * q) + (d * n)) + d /\ d * q \in Nat /\ d * n \in Nat
      BY <1>1, <3>1
    <3> QED BY <1>1, <1>2, <1>3, <3>6, <3>7
  <2> QED BY <2>1, <2>2, <2>3
<1> QED BY <1>6, <1>7

\* A round on, the position and the cell are the same.
LEMMA PosRound == \A x \in Nat : PosOf(x + BufferSize) = PosOf(x) /\ CellOf(x + BufferSize) = CellOf(x)
<1> TAKE x \in Nat
<1>1. PICK q \in Nat, p \in 0 .. DEFAULT_BUFFER_SIZE - 1 : x = (DEFAULT_BUFFER_SIZE * q) + p
  BY SplitPos
<1>2. /\ q + MAX_BUFFER_PIECES \in Nat
      /\ x + BufferSize = (DEFAULT_BUFFER_SIZE * (q + MAX_BUFFER_PIECES)) + p
  <2>1. \A d, m \in Nat : d * (q + m) = (d * q) + (m * d) /\ d * q \in Nat /\ m * d \in Nat
    OBVIOUS
  <2> QED BY <1>1, <2>1, BufferBounds DEF BufferSize
<1>3. (q + MAX_BUFFER_PIECES) % MAX_BUFFER_PIECES = q % MAX_BUFFER_PIECES
  <2>1. \A m \in Nat : m > 0 => (m % m = 0 /\ (0 + q) % m = q % m)
    OBVIOUS
  <2>2. \A m \in Nat : m > 0 => (q + m) % m = q % m
    <3> SUFFICES ASSUME NEW m \in Nat, m > 0 PROVE (q + m) % m = q % m
      OBVIOUS
    <3>1. ((m % m) + q) % m = (m + q) % m
      BY RemainderAdds
    <3>2. m % m = 0 /\ 0 + q = q /\ m + q = q + m
      BY <2>1
    <3> QED BY <3>1, <3>2
  <2> QED BY <2>2, BufferBounds
<1> QED BY <1>1, <1>2, <1>3, SplitIs

\* Less than a round apart, no cell and no position comes twice.
LEMMA CellOnce ==
  ASSUME NEW x \in Nat, NEW y \in Nat, x <= y, y < x + BufferSize,
         CellOf(x) = CellOf(y) \/ PosOf(x) = PosOf(y)
  PROVE  x = y
<1> SUFFICES ASSUME x # y PROVE FALSE
  OBVIOUS
<1>1. PICK q \in Nat, p \in 0 .. DEFAULT_BUFFER_SIZE - 1 : x = (DEFAULT_BUFFER_SIZE * q) + p
  BY SplitPos
<1>2. PICK t \in Nat, s \in 0 .. DEFAULT_BUFFER_SIZE - 1 : y = (DEFAULT_BUFFER_SIZE * t) + s
  BY SplitPos
<1>3. q % MAX_BUFFER_PIECES = t % MAX_BUFFER_PIECES /\ p = s
  <2>1. /\ CellOf(x) = <<q % MAX_BUFFER_PIECES, p>> /\ PosOf(x) = Iterator(q % MAX_BUFFER_PIECES, p)
        /\ CellOf(y) = <<t % MAX_BUFFER_PIECES, s>> /\ PosOf(y) = Iterator(t % MAX_BUFFER_PIECES, s)
    BY <1>1, <1>2, SplitIs
  <2>2. CASE CellOf(x) = CellOf(y)
    BY <2>1, <2>2
  <2>3. CASE PosOf(x) = PosOf(y)
    <3>1. Iterator(q % MAX_BUFFER_PIECES, p) = Iterator(t % MAX_BUFFER_PIECES, s)
      BY <2>1, <2>3
    <3>2. Iterator(q % MAX_BUFFER_PIECES, p).idx = q % MAX_BUFFER_PIECES /\ Iterator(q % MAX_BUFFER_PIECES, p).pos = p
      BY DEF Iterator
    <3>3. Iterator(t % MAX_BUFFER_PIECES, s).idx = t % MAX_BUFFER_PIECES /\ Iterator(t % MAX_BUFFER_PIECES, s).pos = s
      BY DEF Iterator
    <3> QED BY <3>1, <3>2, <3>3
  <2> QED BY <2>2, <2>3
<1>4. x < y /\ y <= x + BufferSize /\ ~ (p < s) /\ ~ (s < p)
  BY <1>3, BufferBounds
<1> QED BY <1>1, <1>2, <1>3, <1>4, Apart

\* Two of the cells that one round covers.
LEMMA CellsDiffer ==
  ASSUME NEW x \in Nat, NEW y \in Nat, x # y, y < x + BufferSize, x < y + BufferSize
  PROVE  CellOf(x) # CellOf(y)
  BY CellOnce

\* ++ of a position.
LEMMA NextPosIs ==
  ASSUME NEW x \in Nat
  PROVE  /\ PosOf(x).pos + 1 < DEFAULT_BUFFER_SIZE => Iterator(PosOf(x).idx, PosOf(x).pos + 1) = PosOf(x + 1)
         /\ ~ (PosOf(x).pos + 1 < DEFAULT_BUFFER_SIZE) => NextPiece(PosOf(x)) = PosOf(x + 1)
         /\ NextPiece(PosOf(x)) = PosOf(x + (DEFAULT_BUFFER_SIZE - PosOf(x).pos))
         /\ PosOf(x).pos \in 0 .. DEFAULT_BUFFER_SIZE - 1 /\ PosOf(x).idx \in Pieces
<1> DEFINE d == DEFAULT_BUFFER_SIZE
<1>1. PICK q \in Nat, p \in 0 .. d - 1 : x = (d * q) + p
  BY SplitPos
<1>2. d \in Nat /\ d > 0 /\ d * q \in Nat
  BY BufferBounds
<1>3. PosOf(x) = Iterator(q % MAX_BUFFER_PIECES, p)
  BY <1>1, SplitIs
<1>4. PosOf(x).idx = q % MAX_BUFFER_PIECES /\ PosOf(x).pos = p
  BY <1>3 DEF Iterator
<1>5. ASSUME p + 1 < d PROVE Iterator(q % MAX_BUFFER_PIECES, p + 1) = PosOf(x + 1)
  <2>1. p + 1 \in 0 .. d - 1
    BY <1>2, <1>5
  <2>2. x + 1 = (d * q) + (p + 1)
    <3> HIDE DEF d
    <3> QED BY <1>1, <1>2
  <2> QED BY <2>1, <2>2, SplitIs
<1>6. NextPiece(PosOf(x)) = PosOf(x + (d - p))
  <2>1. x + (d - p) = (d * (q + 1)) + 0 /\ q + 1 \in Nat /\ 0 \in 0 .. d - 1
    <3>1. d * (q + 1) = (d * q) + d
      BY <1>2
    <3> HIDE DEF d
    <3> QED BY <1>1, <1>2, <3>1
  <2>2. PosOf((d * (q + 1)) + 0) = Iterator((q + 1) % MAX_BUFFER_PIECES, 0)
    BY <2>1, SplitIs
  <2>3. NextPiece(PosOf(x)) = Iterator((q + 1) % MAX_BUFFER_PIECES, 0)
    BY <1>4, NextOf DEF NextPiece
  <2> QED BY <2>1, <2>2, <2>3
<1>7. ~ (p + 1 < d) => d - p = 1
  BY <1>2
<1>8. q % MAX_BUFFER_PIECES \in Pieces
  BY InPieces
<1> QED BY <1>4, <1>5, <1>6, <1>7, <1>8

\* The numbers of n bytes from byte x on.
NumbersFrom(x, n) == [k \in 1 .. n |-> (x + k - 1) % ByteIds]
NumberOfAll == [x \in Nat |-> x % ByteIds]

\* The numbers of bytes.
LEMMA NumberIn == \A x \in Nat : x % ByteIds \in 0 .. ByteIds - 1
<1>1. \A b \in Nat : b > 0 => \A x \in Nat : x % b \in 0 .. b - 1
  OBVIOUS
<1> QED BY <1>1, BufferBounds

\* The numbers of adjacent bytes are a part of those of all.
LEMMA NumbersPart ==
  /\ NumberOfAll \in [Nat -> 0 .. ByteIds - 1]
  /\ \A x, n \in Nat : NumbersFrom(x, n) = Part(NumberOfAll, x, n)
<1>1. NumberOfAll \in [Nat -> 0 .. ByteIds - 1]
  BY NumberIn DEF NumberOfAll
<1>2. ASSUME NEW x \in Nat, NEW n \in Nat PROVE NumbersFrom(x, n) = Part(NumberOfAll, x, n)
  <2>1. \A k \in 1 .. n : x + k - 1 \in Nat
    OBVIOUS
  <2> QED BY <2>1 DEF NumbersFrom, Part, NumberOfAll
<1> QED BY <1>1, <1>2

\* Bytes put in and bytes taken out.
LEMMA NumbersMove ==
  ASSUME NEW x \in Nat, NEW n \in Nat
  PROVE  /\ \A l \in Nat : NumbersFrom(x, n) \o [k \in 1 .. l |-> (((x + n) % ByteIds) + k - 1) % ByteIds]
                             = NumbersFrom(x, n + l)
         /\ \A i \in 0 .. n : SubSeq(NumbersFrom(x, n), i + 1, Len(NumbersFrom(x, n)))
                             = NumbersFrom(x + i, n - i)
         /\ Len(NumbersFrom(x, n)) = n
<1>1. NumbersFrom(x, n) = Part(NumberOfAll, x, n) /\ NumberOfAll \in [Nat -> 0 .. ByteIds - 1]
  BY NumbersPart
<1>2. Len(Part(NumberOfAll, x, n)) = n
  BY <1>1, PartIs
<1>3. ASSUME NEW l \in Nat
      PROVE NumbersFrom(x, n) \o [k \in 1 .. l |-> (((x + n) % ByteIds) + k - 1) % ByteIds] = NumbersFrom(x, n + l)
  <2>1. \A k \in 1 .. l : (((x + n) % ByteIds) + k - 1) % ByteIds = ((x + n) + k - 1) % ByteIds
    <3> TAKE k \in 1 .. l
    <3>1. PICK y \in Nat, j \in Nat : y = x + n /\ k = j + 1
      BY k - 1 \in Nat
    <3>2. ((y % ByteIds) + j) % ByteIds = (y + j) % ByteIds
      <4>1. ByteIds \in Nat /\ ByteIds > 0
        BY BufferBounds
      <4> QED BY <4>1, RemainderAdds
    <3>3. y % ByteIds \in Nat
      BY NumberIn
    <3>4. (y % ByteIds) + k - 1 = (y % ByteIds) + j /\ y + k - 1 = y + j
      BY <3>1, <3>3
    <3> QED BY <3>1, <3>2, <3>4
  <2>2. [k \in 1 .. l |-> (((x + n) % ByteIds) + k - 1) % ByteIds] = NumbersFrom(x + n, l)
    BY <2>1 DEF NumbersFrom
  <2>3. x + n \in Nat /\ n + l \in Nat
    OBVIOUS
  <2>4. Part(NumberOfAll, x, n) \o Part(NumberOfAll, x + n, l) = Part(NumberOfAll, x, n + l)
    BY <1>1, <2>3, PartsJoin
  <2>5. NumbersFrom(x + n, l) = Part(NumberOfAll, x + n, l) /\ NumbersFrom(x, n + l) = Part(NumberOfAll, x, n + l)
    BY <2>3, NumbersPart
  <2> QED BY <1>1, <2>2, <2>4, <2>5
<1>4. ASSUME NEW i \in 0 .. n
      PROVE SubSeq(NumbersFrom(x, n), i + 1, Len(NumbersFrom(x, n))) = NumbersFrom(x + i, n - i)
  <2>1. n \in i .. n /\ x + i \in Nat /\ n - i \in Nat
    OBVIOUS
  <2>2. SubSeq(Part(NumberOfAll, x, n), i + 1, n) = Part(NumberOfAll, x + i, n - i)
    <3>1. PICK S : NumberOfAll \in [Nat -> S]
      BY <1>1
    <3> QED BY <2>1, <3>1, SubPart
  <2>3. NumbersFrom(x + i, n - i) = Part(NumberOfAll, x + i, n - i)
    BY <2>1, NumbersPart
  <2> QED BY <1>1, <1>2, <2>2, <2>3
<1> QED BY <1>1, <1>2, <1>3, <1>4

\* readbuf after r bytes were taken and w put in.
RecvAt(r, w) ==
  /\ size = FullSizes /\ content_length = <<0, 0>>
  /\ r <= w /\ w <= r + BufferSize /\ (sound => w < r + BufferSize)
  /\ readpos = PosOf(r) /\ writepos = PosOf(w)
  /\ count = w % ByteIds
  /\ owed = NumbersFrom(r, w - r)
  /\ buffer \in [Cells -> 0 .. ByteIds]
  /\ \A x \in r .. w - 1 : buffer[CellOf(x)] = x % ByteIds

RecvInv == role = "recv" => \E r, w \in Nat : RecvAt(r, w)

\* The cells that readv fills, and the others.
LEMMA FilledIs ==
  ASSUME NEW b \in [Cells -> 0 .. ByteIds], NEW w \in Nat, NEW n \in 0 .. BufferSize
  PROVE  LET f == Filled(b, CellsFrom(w, n), w % ByteIds)
         IN /\ f \in [Cells -> 0 .. ByteIds]
            /\ \A x \in w .. w + n - 1 : f[CellOf(x)] = x % ByteIds
            /\ \A c \in Cells : (\A x \in w .. w + n - 1 : CellOf(x) # c) => f[c] = b[c]
<1> DEFINE s == CellsFrom(w, n)
           i == w % ByteIds
           f == Filled(b, s, i)
<1>0. n \in Nat /\ n <= BufferSize /\ BufferSize \in Nat /\ ByteIds \in Nat /\ ByteIds > 0
  BY BufferBounds
<1>1. DOMAIN s = 1 .. n /\ \A k \in 1 .. n : s[k] = CellOf(w + k - 1)
  BY DEF CellsFrom
<1>2. i \in 0 .. ByteIds - 1
  BY NumberIn
<1> HIDE DEF s, i
<1>3. \A c \in Cells : f[c] = IF \E k \in 1 .. n : s[k] = c
                              THEN (i + (CHOOSE k \in 1 .. n : s[k] = c) - 1) % ByteIds ELSE b[c]
  BY <1>1 DEF Filled
<1>4. f \in [Cells -> 0 .. ByteIds]
  <2>1. ASSUME NEW c \in Cells PROVE f[c] \in 0 .. ByteIds
    <3>1. CASE \E k \in 1 .. n : s[k] = c
      <4>1. PICK k \in 1 .. n : k = CHOOSE j \in 1 .. n : s[j] = c
        BY <3>1
      <4>2. f[c] = (i + k - 1) % ByteIds
        BY <1>3, <3>1, <4>1
      <4>3. i + k - 1 \in Nat
        BY <1>0, <1>2
      <4>4. (i + k - 1) % ByteIds \in 0 .. ByteIds - 1
        BY <4>3, NumberIn
      <4> QED BY <1>0, <4>2, <4>4
    <3>2. CASE ~ \E k \in 1 .. n : s[k] = c
      BY <1>3, <3>2
    <3> QED BY <3>1, <3>2
  <2>2. f = [c \in Cells |-> f[c]]
    BY DEF Filled
  <2> HIDE DEF f
  <2> QED BY <2>1, <2>2
<1>5. ASSUME NEW x \in w .. w + n - 1 PROVE f[CellOf(x)] = x % ByteIds
  <2>1. PICK k \in 1 .. n : x = w + k - 1 /\ k = x - w + 1 /\ x \in Nat
    <3>1. x - w + 1 \in 1 .. n /\ x = w + (x - w + 1) - 1 /\ x \in Nat
      BY <1>0
    <3> QED BY <3>1
  <2>2. s[k] = CellOf(x) /\ CellOf(x) \in Cells
    BY <1>1, <2>1, CellIn
  <2>3. \A j \in 1 .. n : s[j] = CellOf(x) => j = k
    <3> SUFFICES ASSUME NEW j \in 1 .. n, s[j] = CellOf(x), j # k PROVE FALSE
      OBVIOUS
    <3>1. PICK y \in Nat : y = w + j - 1
      OBVIOUS
    <3>2. y # x /\ x < y + BufferSize /\ y < x + BufferSize
      BY <1>0, <2>1, <3>1
    <3>3. CellOf(y) = CellOf(x)
      BY <1>1, <3>1
    <3> QED BY <2>1, <3>2, <3>3, CellsDiffer
  <2>4. (CHOOSE j \in 1 .. n : s[j] = CellOf(x)) = k
    BY <2>2, <2>3
  <2>5. f[CellOf(x)] = (i + k - 1) % ByteIds
    BY <1>3, <2>2, <2>4
  <2>6. (i + k - 1) % ByteIds = x % ByteIds
    <3>1. PICK j \in Nat : k = j + 1
      BY k - 1 \in Nat
    <3>2. ((w % ByteIds) + j) % ByteIds = (w + j) % ByteIds
      BY <1>0, RemainderAdds
    <3>3. i + k - 1 = i + j /\ x = w + j
      BY <1>2, <2>1, <3>1
    <3> QED BY <3>2, <3>3 DEF i
  <2> QED BY <2>5, <2>6
<1>6. ASSUME NEW c \in Cells, \A x \in w .. w + n - 1 : CellOf(x) # c PROVE f[c] = b[c]
  <2>1. ASSUME NEW k \in 1 .. n PROVE s[k] # c
    <3>1. w + k - 1 \in w .. w + n - 1
      OBVIOUS
    <3> QED BY <1>1, <1>6, <3>1
  <2> QED BY <1>3, <2>1
<1> QED BY <1>4, <1>5, <1>6 DEF s, i

\* The invariant of a readbuf holds in an empty one, ...
LEMMA InitRecvInv == BInit => RecvInv
<1> SUFFICES ASSUME BInit PROVE RecvAt(0, 0)
  BY DEF RecvInv
<1>1. PosOf(0) = Iterator(0, 0)
  <2>1. 0 \in 0 .. DEFAULT_BUFFER_SIZE - 1 /\ (DEFAULT_BUFFER_SIZE * 0) + 0 = 0 /\ 0 % MAX_BUFFER_PIECES = 0
    <3>1. \A m \in Nat : m > 0 => 0 % m = 0 /\ 0 \in 0 .. m - 1 /\ (m * 0) + 0 = 0
      OBVIOUS
    <3> QED BY <3>1, BufferBounds
  <2>2. PosOf((DEFAULT_BUFFER_SIZE * 0) + 0) = Iterator(0 % MAX_BUFFER_PIECES, 0)
    BY <2>1, SplitIs
  <2> QED BY <2>1, <2>2
<1>2. 0 % ByteIds = 0 /\ NumbersFrom(0, 0 - 0) = <<>>
  <2>1. \A m \in Nat : m > 0 => 0 % m = 0
    OBVIOUS
  <2> QED BY <2>1, BufferBounds DEF NumbersFrom
<1>3. buffer \in [Cells -> 0 .. ByteIds]
  BY BufferBounds DEF BInit, Stale
<1>4. BufferSize > 0 /\ BufferSize \in Nat
  BY BufferBounds
<1> QED BY <1>1, <1>2, <1>3, <1>4 DEF BInit, RecvAt, FullSizes

\* ... after a readv, ...
LEMMA ReadvInv ==
  ASSUME NEW r \in Nat, NEW w \in Nat, RecvAt(r, w), NEW n \in Counts, Readv(n)
  PROVE  \E v \in Nat : RecvAt(r, v)'
<1>1. n \in Nat /\ n > 0 /\ BufferSize \in Nat
  BY BufferBounds DEF Counts, BufferSize
<1>2. w < r + BufferSize /\ r <= w /\ size = FullSizes /\ readpos = PosOf(r) /\ writepos = PosOf(w)
  BY DEF Readv, RecvAt
<1>3. PICK l \in Nat : l = (r + BufferSize) - w /\ l <= BufferSize
  BY <1>1, <1>2
<1>4. Room = CellsFrom(w, l)
  <2>1. Room # <<>>
    BY <1>1 DEF Readv
  <2>2. Room = Vectors(FullSizes, PosOf(w), PosOf(r))
    BY <1>2, <2>1 DEF Room
  <2>3. PICK y \in Nat : y = r + BufferSize
    BY <1>1
  <2>4. PosOf(r) = PosOf(y) /\ w < y /\ y <= w + BufferSize
    BY <1>1, <1>2, <2>3, PosRound
  <2>5. Vectors(FullSizes, PosOf(w), PosOf(y)) = CellsFrom(w, y - w)
    BY <2>4, VectorsAre
  <2> QED BY <1>3, <2>2, <2>3, <2>4, <2>5
<1>5. Len(Room) = l /\ n <= l
  BY <1>3, <1>4, CellsAre DEF Readv
<1>6. SubSeq(Room, 1, n) = CellsFrom(w, n)
  <2>1. CellOfAll \in [Nat -> Cells] /\ CellsFrom(w, l) = Part(CellOfAll, w, l) /\ CellsFrom(w, n) = Part(CellOfAll, w, n)
    BY <1>1, <1>3, CellsPart
  <2>2. n \in 0 .. l
    BY <1>1, <1>5
  <2>3. SubSeq(Part(CellOfAll, w, l), 1, n) = Part(CellOfAll, w, n)
    BY <2>1, <2>2, FirstPart
  <2> QED BY <1>4, <2>1, <2>3
<1>7. PICK v \in Nat : v = w + n
  BY <1>1
<1>8. n \in 0 .. BufferSize
  BY <1>1, <1>3, <1>5
<1>9. /\ buffer' \in [Cells -> 0 .. ByteIds]
      /\ \A x \in w .. v - 1 : buffer'[CellOf(x)] = x % ByteIds
      /\ \A c \in Cells : (\A x \in w .. v - 1 : CellOf(x) # c) => buffer'[c] = buffer[c]
  <2>1. buffer' = Filled(buffer, CellsFrom(w, n), w % ByteIds) /\ buffer \in [Cells -> 0 .. ByteIds]
    BY <1>6 DEF Readv, RecvAt
  <2> DEFINE f == Filled(buffer, CellsFrom(w, n), w % ByteIds)
  <2>2. /\ f \in [Cells -> 0 .. ByteIds]
        /\ \A x \in w .. w + n - 1 : f[CellOf(x)] = x % ByteIds
        /\ \A c \in Cells : (\A x \in w .. w + n - 1 : CellOf(x) # c) => f[c] = buffer[c]
    BY <1>8, <2>1, FilledIs
  <2>3. buffer' = f
    BY <2>1
  <2>4. w + n - 1 = v - 1
    BY <1>1, <1>7
  <2> HIDE DEF f
  <2> QED BY <2>2, <2>3, <2>4
<1>10. ASSUME NEW x \in r .. v - 1 PROVE buffer'[CellOf(x)] = x % ByteIds
  <2>1. CASE x \in w .. v - 1
    BY <1>9, <2>1
  <2>2. CASE x \in r .. w - 1
    <3>1. x \in Nat /\ CellOf(x) \in Cells
      BY <2>2, CellIn
    <3>2. ASSUME NEW y \in w .. v - 1 PROVE CellOf(y) # CellOf(x)
      <4>1. y \in Nat /\ y # x /\ y < x + BufferSize /\ x < y + BufferSize
        BY <1>1, <1>3, <1>5, <1>7, <2>2
      <4> QED BY <3>1, <4>1, CellsDiffer
    <3>3. buffer'[CellOf(x)] = buffer[CellOf(x)]
      BY <1>9, <3>1, <3>2
    <3> QED BY <2>2, <3>3 DEF RecvAt
  <2> QED BY <1>7, <2>1, <2>2
<1>11. owed' = NumbersFrom(r, v - r)
  <2>1. PICK u \in Nat : u = w - r
    BY <1>2
  <2>2. owed = NumbersFrom(r, u) /\ count = (r + u) % ByteIds
    BY <2>1 DEF RecvAt
  <2>3. owed' = NumbersFrom(r, u) \o [k \in 1 .. n |-> (((r + u) % ByteIds) + k - 1) % ByteIds]
    BY <2>2 DEF Readv
  <2>4. owed' = NumbersFrom(r, u + n)
    BY <1>1, <2>3, NumbersMove
  <2>5. v - r = u + n
    BY <1>1, <1>7, <2>1
  <2> QED BY <2>4, <2>5, Zenon
<1>12. count' = v % ByteIds
  <2>1. ((w % ByteIds) + n) % ByteIds = (w + n) % ByteIds
    <3>1. ByteIds \in Nat /\ ByteIds > 0
      BY BufferBounds
    <3> QED BY <1>1, <3>1, RemainderAdds
  <2> QED BY <1>7, <2>1 DEF Readv, RecvAt
<1>13. writepos' = PosOf(v)
  <2>1. writepos' = Plus(FullSizes, PosOf(w), n)
    BY <1>2 DEF Readv
  <2> QED BY <1>7, <1>8, <2>1, PlusIs
<1>14. r <= v /\ v <= r + BufferSize /\ (sound' => v < r + BufferSize)
  <2>1. sound' = (n < l)
    BY <1>5 DEF Readv
  <2>2. r <= v /\ v <= r + BufferSize /\ (n < l => v < r + BufferSize)
    BY <1>1, <1>2, <1>3, <1>5, <1>7
  <2> QED BY <2>1, <2>2, Zenon
<1>15. size' = FullSizes /\ readpos' = PosOf(r) /\ content_length' = <<0, 0>>
  BY <1>2 DEF Readv, RecvAt
<1>16. RecvAt(r, v)'
  BY <1>9, <1>10, <1>11, <1>12, <1>13, <1>14, <1>15 DEF RecvAt
<1> QED BY <1>16

\* n bytes leave the buffer, whoever takes them.
LEMMA TakenInv ==
  ASSUME NEW r \in Nat, NEW w \in Nat, RecvAt(r, w), sound, NEW n \in 1 .. w - r, Consume(n),
         readpos' = PosOf(r + n), UNCHANGED <<size, writepos, count, content_length, sound>>
  PROVE  \E v \in Nat : RecvAt(v, w)'
<1>1. n \in Nat /\ n > 0 /\ r < w /\ n <= w - r /\ BufferSize \in Nat
  BY BufferBounds
<1>2. w < r + BufferSize /\ size = FullSizes /\ readpos = PosOf(r) /\ writepos = PosOf(w)
  BY DEF RecvAt
<1>3. PICK v \in Nat : v = r + n
  BY <1>1
<1>4. Vectors(size, readpos, writepos) = CellsFrom(r, w - r)
  <2>1. w <= r + BufferSize
    BY <1>1, <1>2
  <2> QED BY <1>1, <1>2, <2>1, VectorsAre
<1>5. \A k \in 1 .. n : Vectors(size, readpos, writepos)[k] = CellOf(r + k - 1)
  <2>1. \A k \in 1 .. n : k \in 1 .. w - r
    BY <1>1
  <2> QED BY <1>4, <2>1 DEF CellsFrom
<1>6. buffer' = [c \in Cells |-> IF \E k \in 1 .. n : CellOf(r + k - 1) = c THEN Stale ELSE buffer[c]]
  BY <1>5 DEF Consume
<1>7. buffer' \in [Cells -> 0 .. ByteIds]
  BY <1>6, BufferBounds DEF RecvAt, Stale
<1>8. ASSUME NEW x \in v .. w - 1 PROVE buffer'[CellOf(x)] = x % ByteIds
  <2>1. x \in Nat /\ x \in r .. w - 1
    BY <1>1, <1>3
  <2>2. ASSUME NEW k \in 1 .. n PROVE CellOf(r + k - 1) # CellOf(x)
    <3>1. PICK y \in Nat : y = r + k - 1
      OBVIOUS
    <3>2. y # x /\ y < x + BufferSize /\ x < y + BufferSize
      BY <1>1, <1>2, <1>3, <3>1
    <3> QED BY <2>1, <3>1, <3>2, CellsDiffer
  <2>3. CellOf(x) \in Cells
    BY <2>1, CellIn
  <2>4. buffer'[CellOf(x)] = buffer[CellOf(x)]
    BY <1>6, <2>2, <2>3
  <2> QED BY <2>1, <2>4 DEF RecvAt
<1>9. owed' = NumbersFrom(v, w - v)
  <2>1. PICK u \in Nat : u = w - r
    BY <1>1
  <2>2. owed = NumbersFrom(r, u) /\ n \in 0 .. u
    BY <1>1, <2>1 DEF RecvAt
  <2>3. owed' = SubSeq(NumbersFrom(r, u), n + 1, Len(NumbersFrom(r, u)))
    BY <2>2 DEF Consume
  <2>4. owed' = NumbersFrom(r + n, u - n)
    BY <2>2, <2>3, NumbersMove
  <2> QED BY <1>3, <2>1, <2>4
<1>10. v <= w /\ w <= v + BufferSize /\ w < v + BufferSize
  BY <1>1, <1>2, <1>3
<1>11. RecvAt(v, w)'
  BY <1>3, <1>7, <1>8, <1>9, <1>10 DEF RecvAt
<1> QED BY <1>11

\* ... after a byte of a header, ...
LEMMA TakeByteInv ==
  ASSUME NEW r \in Nat, NEW w \in Nat, RecvAt(r, w), TakeByte
  PROVE  \E v \in Nat : RecvAt(v, w)'
<1>1. size = FullSizes /\ readpos = PosOf(r) /\ writepos = PosOf(w) /\ r <= w
  BY DEF RecvAt
<1>2. r # w
  BY <1>1 DEF TakeByte, isEmpty
<1>3. 1 \in 1 .. w - r
  BY <1>1, <1>2
<1>4. size[readpos.idx] = DEFAULT_BUFFER_SIZE
  BY <1>1, NextPosIs DEF FullSizes
<1>5. readpos' = PosOf(r + 1)
  BY <1>1, <1>4, NextPosIs DEF TakeByte
<1> QED BY <1>3, <1>5, TakenInv DEF TakeByte

\* ... after a skipped field, ...
LEMMA TakeSkipInv ==
  ASSUME NEW r \in Nat, NEW w \in Nat, RecvAt(r, w), NEW n \in Counts, TakeSkip(n)
  PROVE  \E v \in Nat : RecvAt(v, w)'
<1>1. n \in Nat /\ n > 0 /\ n <= BufferSize /\ BufferSize \in Nat
  BY BufferBounds DEF Counts, BufferSize
<1>2. Len(owed) = w - r
  <2>1. PICK u \in Nat : u = w - r
    BY DEF RecvAt
  <2> QED BY <2>1, NumbersMove DEF RecvAt
<1>3. n \in 1 .. w - r
  BY <1>1, <1>2 DEF TakeSkip
<1>4. readpos' = PosOf(r + n)
  <2>1. readpos' = Plus(FullSizes, PosOf(r), n)
    BY DEF TakeSkip, RecvAt
  <2>2. n \in 0 .. BufferSize
    BY <1>1
  <2> QED BY <2>1, <2>2, PlusIs
<1> QED BY <1>3, <1>4, TakenInv DEF TakeSkip

\* ... after a stretch of which the message left k bytes, ...
LEMMA TakeNextInv ==
  ASSUME NEW r \in Nat, NEW w \in Nat, RecvAt(r, w), NEW k \in 0 .. DEFAULT_BUFFER_SIZE, TakeNext(k)
  PROVE  \E v \in Nat : RecvAt(v, w)'
<1> DEFINE d == DEFAULT_BUFFER_SIZE
           m == MAX_BUFFER_PIECES
<1>1. size = FullSizes /\ readpos = PosOf(r) /\ writepos = PosOf(w) /\ r <= w /\ sound /\ w < r + BufferSize
  BY DEF RecvAt, TakeNext
<1>2. r < w
  BY <1>1 DEF TakeNext, isEmpty
<1>3. d \in Nat /\ d > 0 /\ BufferSize \in Nat
  BY BufferBounds
<1>4. PICK q \in Nat, p \in 0 .. d - 1 : r = (d * q) + p
  BY SplitPos
<1>5. PICK t \in Nat, s \in 0 .. d - 1 : w = (d * t) + s
  BY SplitPos
<1>6. /\ PosOf(r).idx = q % m /\ PosOf(r).pos = p
      /\ PosOf(w).idx = t % m /\ PosOf(w).pos = s
  <2>1. PosOf(r) = Iterator(q % m, p) /\ PosOf(w) = Iterator(t % m, s)
    BY <1>4, <1>5, SplitIs
  <2> QED BY <2>1 DEF Iterator
<1>7. size[readpos.idx] = d
  BY <1>1, NextPosIs DEF FullSizes
<1>8. \/ t = q /\ p < s /\ w - r = s - p
      \/ \E n \in 0 .. m - 1 : t = q + n + 1 /\ (q % m = t % m => s < p)
  <2>1. w <= r + BufferSize
    BY <1>1, <1>3
  <2> QED BY <1>1, <1>2, <1>4, <1>5, <2>1, Apart
<1>9. PICK n \in 1 .. w - r :
        /\ k < n /\ n <= d /\ Consume(n - k) /\ readpos' = Minus(size, PosOf(r + n), k)
        /\ UNCHANGED <<size, writepos, count, content_length, sound>>
  <2>1. CASE t = q /\ p < s /\ w - r = s - p
    <3>1. readpos.idx = writepos.idx /\ readpos.pos < writepos.pos
      BY <1>1, <1>6, <2>1
    <3>2. s - p \in 1 .. w - r /\ s - p <= d /\ r + (s - p) = w
      BY <1>3, <2>1
    <3>3. writepos.pos - readpos.pos = s - p /\ Iterator(readpos.idx, writepos.pos) = PosOf(w)
      BY <1>1, <1>4, <1>5, <1>6, <2>1, SplitIs
    <3> QED BY <3>1, <3>2, <3>3 DEF TakeNext
  <2>2. CASE \E n \in 0 .. m - 1 : t = q + n + 1 /\ (q % m = t % m => s < p)
    <3>1. PICK n \in 0 .. m - 1 : t = q + n + 1 /\ (q % m = t % m => s < p)
      BY <2>2
    <3>2. ~ (readpos.idx = writepos.idx /\ readpos.pos < writepos.pos)
      BY <1>1, <1>3, <1>6, <3>1
    <3>3. d - p \in 1 .. w - r /\ d - p <= d
      <4> HIDE DEF d
      <4>1. d * t = ((d * q) + (d * n)) + d /\ d * q \in Nat /\ d * n \in Nat
        BY <1>3, <3>1
      <4> QED BY <1>3, <1>4, <1>5, <4>1
    <3>4. size[readpos.idx] - readpos.pos = d - p /\ NextPiece(readpos) = PosOf(r + (d - p))
      BY <1>1, <1>6, <1>7, NextPosIs
    <3> QED BY <3>2, <3>3, <3>4 DEF TakeNext
  <2> QED BY <1>8, <2>1, <2>2
<1>10. n - k \in 1 .. w - r /\ r + n \in Nat /\ k <= r + n /\ (r + n) - k = r + (n - k)
  BY <1>9
<1>11. readpos' = PosOf(r + (n - k))
  <2>1. Minus(FullSizes, PosOf(r + n), k) = PosOf((r + n) - k)
    BY <1>10, MinusIs
  <2> QED BY <1>1, <1>9, <1>10, <2>1
<1> QED BY <1>1, <1>9, <1>10, <1>11, TakenInv

\* ... and after any step.
LEMMA StepRecvInv == RecvInv /\ [BNext]_bvars => RecvInv'
<1> SUFFICES ASSUME RecvInv, [BNext]_bvars, role' = "recv" PROVE \E r, w \in Nat : RecvAt(r, w)'
  BY DEF RecvInv
<1>1. role' = role
  BY DEF bvars, BNext, SendPacket, SendPacketFails, SendError, Writev, Readv, TakeByte, TakeNext, TakeSkip
<1>2. PICK r \in Nat, w \in Nat : RecvAt(r, w)
  BY <1>1 DEF RecvInv
<1>3. CASE \E n \in Counts : Readv(n)
  BY <1>2, <1>3, ReadvInv
<1>4. CASE TakeByte
  BY <1>2, <1>4, TakeByteInv
<1>5. CASE \E k \in 0 .. DEFAULT_BUFFER_SIZE : TakeNext(k)
  BY <1>2, <1>5, TakeNextInv
<1>6. CASE \E n \in Counts : TakeSkip(n)
  BY <1>2, <1>6, TakeSkipInv
<1>7. CASE UNCHANGED bvars
  BY <1>2, <1>7 DEF bvars, RecvAt
<1>8. CASE role \in {"client", "server"}
  BY <1>1, <1>8
<1> QED BY <1>1, <1>3, <1>4, <1>5, <1>6, <1>7, <1>8
        DEF BNext, SendPacket, SendPacketFails, MayWrite, SendError, Writev

\* What the parsers are to find is what readv put in.
LEMMA RecvDelivers == RecvInv /\ role = "recv" => BufferDelivers
<1> SUFFICES ASSUME RecvInv, role = "recv" PROVE BufferDelivers
  OBVIOUS
<1>1. PICK r \in Nat, w \in Nat : RecvAt(r, w)
  BY DEF RecvInv
<1>2. size = FullSizes /\ readpos = PosOf(r) /\ writepos = PosOf(w) /\ r <= w
  BY <1>1 DEF RecvAt
<1>3. BTypeOK
  <2>1. readpos \in Positions /\ writepos \in Positions
    <3>1. ASSUME NEW x \in Nat PROVE PosOf(x) \in Positions
      <4>1. PosOf(x).pos \in 0 .. DEFAULT_BUFFER_SIZE /\ PosOf(x).idx \in Pieces
        BY NextPosIs, BufferBounds
      <4> QED BY <4>1 DEF PosOf, Iterator, Positions
    <3> QED BY <1>2, <3>1
  <2>2. size \in [Pieces -> 0 .. DEFAULT_BUFFER_SIZE]
    BY <1>2, BufferBounds DEF FullSizes
  <2>3. count \in 0 .. ByteIds - 1
    BY <1>1, NumberIn DEF RecvAt
  <2> QED BY <1>1, <2>1, <2>2, <2>3 DEF BTypeOK, RecvAt
<1>4. ContentLengthIsBody
  BY <1>1 DEF ContentLengthIsBody, RecvAt
<1>5. ASSUME sound
      PROVE  LET out == IF isEmpty THEN <<>> ELSE Vectors(size, readpos, writepos)
             IN /\ [k \in DOMAIN out |-> buffer[out[k]]] = owed
                /\ Difference(size, writepos, readpos) = Len(owed)
  <2>1. w < r + BufferSize
    BY <1>1, <1>5 DEF RecvAt
  <2>2. PICK u \in Nat : u = w - r
    BY <1>2
  <2>3. owed = NumbersFrom(r, u) /\ Len(owed) = u
    BY <1>1, <2>2, NumbersMove DEF RecvAt
  <2>4. Difference(size, writepos, readpos) = u
    BY <1>2, <2>1, <2>2, DifferenceIs
  <2>5. CASE r = w
    <3>1. isEmpty /\ u = 0
      BY <1>2, <2>2, <2>5 DEF isEmpty
    <3>2. owed = [k \in DOMAIN <<>> |-> buffer[<<>>[k]]]
      BY <2>3, <3>1 DEF NumbersFrom
    <3> QED BY <2>3, <2>4, <3>1, <3>2
  <2>6. CASE r # w
    <3>1. ~ isEmpty
      BY <1>2, <2>1, <2>6, CellOnce DEF isEmpty
    <3>2. Vectors(size, readpos, writepos) = CellsFrom(r, u)
      <4>1. r < w /\ w <= r + BufferSize
        BY <1>2, <2>1, <2>6, BufferBounds
      <4> QED BY <1>2, <2>2, <4>1, VectorsAre
    <3>3. [k \in DOMAIN CellsFrom(r, u) |-> buffer[CellsFrom(r, u)[k]]] = NumbersFrom(r, u)
      <4>1. DOMAIN CellsFrom(r, u) = 1 .. u
        BY DEF CellsFrom
      <4>2. ASSUME NEW k \in 1 .. u PROVE buffer[CellsFrom(r, u)[k]] = (r + k - 1) % ByteIds
        <5>1. CellsFrom(r, u)[k] = CellOf(r + k - 1)
          BY DEF CellsFrom
        <5>2. r + k - 1 \in r .. w - 1
          BY <2>2
        <5> QED BY <1>1, <5>1, <5>2 DEF RecvAt
      <4> QED BY <4>1, <4>2 DEF NumbersFrom
    <3> QED BY <2>3, <2>4, <3>1, <3>2, <3>3
  <2> QED BY <2>5, <2>6
<1> QED BY <1>3, <1>4, <1>5 DEF BufferDelivers, BufferIsFifo

\* readbuf delivers the bytes that readv put in, in order, for any number and
\* size of pieces and any cuts by readv and the parsers (mio_buffer.cpp,
\* MoveRecivePtr, GetReciveBuffer, ReadBuffer).
THEOREM ReadBufferDelivers == BSpec => [](role = "recv" => BufferDelivers)
<1>1. BInit => RecvInv
  BY InitRecvInv
<1>2. RecvInv /\ [BNext]_bvars => RecvInv'
  BY StepRecvInv
<1>3. RecvInv => (role = "recv" => BufferDelivers)
  BY RecvDelivers
<1> QED BY <1>1, <1>2, <1>3, PTL DEF BSpec
=============================================================================
