------------------------------ MODULE SpinList ------------------------------
(***************************************************************************)
(* SpinList (common/spinlist.h): the doubly linked list under one lock that*)
(* carries the tasks of Epoller and WorkGroup, the idle workers, the calls *)
(* of a channel and the lines of the logger.  push adds at the head, pop   *)
(* takes from the tail; its consumers pop it, or one of them moves or      *)
(* merges the whole list into one of its own and pops that                 *)
(* (Epoller::ProcessPendingTask, LogBacker::DumperLogger); no list is used *)
(* in both ways.  Nodes are numbered as they are allocated; None is the    *)
(* null pointer.  The cache of nodes stays empty: the code that would fill *)
(* it is commented out.                                                    *)
(***************************************************************************)
EXTENDS Integers, Sequences

CONSTANTS LPushers, LPoppers,   \* threads that push; that pop the shared list
          LMover,               \* the thread with a list of its own
          LMaxNodes             \* bound: how many pushes there are

ASSUME SpinListAssumption == LMaxNodes \in Nat /\ LPushers \cap (LPoppers \cup {LMover}) = {}

VARIABLES lnext, lpre,          \* the links of each node
          lhead, ltail,         \* of the "shared" list and of the mover's "own"
          lock,                 \* who holds the shared list's lock, {} if free
          stpc, stnode,           \* each thread, and its tmp or pre
          fresh, freed,         \* nodes allocated so far, nodes deleted
          popped,               \* what the last pop handed out
          usage                 \* how the list is consumed, the same for ever

links == <<lnext, lpre, lhead, ltail>>
lvars == <<links, lock, stpc, stnode, fresh, freed, popped, usage>>

None == 0
LNodes == 1 .. LMaxNodes
LThreads == LPushers \cup LPoppers \cup {LMover}
Lists == {"shared", "own"}

LInit ==
  /\ lnext = [n \in {None} \cup LNodes |-> None] /\ lpre = lnext
  /\ lhead = [l \in Lists |-> None] /\ ltail = lhead
  /\ lock = {}
  /\ stpc = [t \in LThreads |-> "idle"] /\ stnode = [t \in LThreads |-> None]
  /\ fresh = 0 /\ freed = {} /\ popped = None
  /\ usage \in {"pop", "move"}

Moves(t, from, to) == stpc[t] = from /\ stpc' = [stpc EXCEPT ![t] = to]

\* WriteLock<LOCK> l(sl).
LockFree == lock = {}
-----------------------------------------------------------------------------
(* push(T), by a thread of LPushers.                                       *)

PushBegin(t) ==
  /\ t \in LPushers /\ Moves(t, "idle", "link")
  /\ LockFree /\ lock' = {t}
  /\ fresh < LMaxNodes /\ fresh' = fresh + 1
  /\ stnode' = [stnode EXCEPT ![t] = fresh + 1]
  /\ UNCHANGED <<links, freed, popped, usage>>

\* head->pre = tmp.
LinkedTo(n) == [lpre EXCEPT ![lhead["shared"]] = n]

\* The first node is head and tail; another one is linked before head.
PushLink(t) ==
  /\ Moves(t, "link", "head")
  /\ IF lhead["shared"] = None
     THEN ltail' = [ltail EXCEPT !["shared"] = stnode[t]] /\ UNCHANGED <<lnext, lpre>>
     ELSE /\ lnext' = [lnext EXCEPT ![stnode[t]] = lhead["shared"]]
          /\ lpre' = LinkedTo(stnode[t])
          /\ UNCHANGED ltail
  /\ UNCHANGED <<lhead, lock, stnode, fresh, freed, popped, usage>>

\* head = tmp, and the lock goes.
PushEnd(t) ==
  /\ Moves(t, "head", "idle")
  /\ lhead' = [lhead EXCEPT !["shared"] = stnode[t]]
  /\ lock' = {} /\ stnode' = [stnode EXCEPT ![t] = None]
  /\ UNCHANGED <<lnext, lpre, ltail, fresh, freed, popped, usage>>
-----------------------------------------------------------------------------
(* pop(T&) of the shared list.                                             *)

\* pre = tail->pre, and t = tail->_t; an empty list returns false.
PopBegin(t) ==
  /\ usage = "pop" /\ t \in LPoppers /\ Moves(t, "idle", "unlink")
  /\ LockFree /\ lock' = {t}
  /\ ltail["shared"] # None
  /\ stnode' = [stnode EXCEPT ![t] = lpre[ltail["shared"]]]
  /\ UNCHANGED <<links, fresh, freed, popped, usage>>

\* The last node gone, head is reset too.
HeadAfterPop(l, pre) == IF pre = None THEN [lhead EXCEPT ![l] = None] ELSE lhead

\* pre->next or head = NULL, delete tail, tail = pre.
TakeTail(l, pre) ==
  /\ lnext' = IF pre = None THEN lnext ELSE [lnext EXCEPT ![pre] = None]
  /\ lhead' = HeadAfterPop(l, pre)
  /\ ltail' = [ltail EXCEPT ![l] = pre]
  /\ freed' = freed \cup {ltail[l]}
  /\ popped' = ltail[l]
  /\ UNCHANGED <<lpre, fresh, usage>>

PopEnd(t) ==
  /\ Moves(t, "unlink", "idle")
  /\ TakeTail("shared", stnode[t])
  /\ lock' = {} /\ stnode' = [stnode EXCEPT ![t] = None]
-----------------------------------------------------------------------------
(* The mover.                                                              *)

\* MoveTo(tmp), of a list that is empty (Epoller::ProcessPendingTask).
MoveTo ==
  /\ usage = "move" /\ LockFree /\ lhead["own"] = None
  /\ lhead' = [shared |-> None, own |-> lhead["shared"]]
  /\ ltail' = [shared |-> None, own |-> ltail["shared"]]
  /\ UNCHANGED <<lnext, lpre, lock, stpc, stnode, fresh, freed, popped, usage>>

Joined_Behind == [lpre EXCEPT ![lhead["shared"]] = ltail["own"]]

\* head->pre = list.tail.
Joined == [lpre EXCEPT ![lhead["own"]] = ltail["shared"]]

\* own.Merge(shared), of a list its caller found not empty: the newer nodes go
\* before the older ones.
Merge ==
  /\ usage = "move" /\ LockFree /\ lhead["shared"] # None
  /\ IF lhead["own"] = None
     THEN ltail' = [shared |-> None, own |-> ltail["shared"]] /\ UNCHANGED <<lnext, lpre>>
     ELSE /\ lnext' = [lnext EXCEPT ![ltail["shared"]] = lhead["own"]]
          /\ lpre' = Joined
          /\ ltail' = [ltail EXCEPT !["shared"] = None]
  /\ lhead' = [shared |-> None, own |-> lhead["shared"]]
  /\ UNCHANGED <<lock, stpc, stnode, fresh, freed, popped, usage>>

PopOwn ==
  /\ ltail["own"] # None
  /\ TakeTail("own", lpre[ltail["own"]])
  /\ UNCHANGED <<lock, stpc, stnode>>
-----------------------------------------------------------------------------
LNext == \/ \E t \in LThreads : PushBegin(t) \/ PushLink(t) \/ PushEnd(t) \/ PopBegin(t) \/ PopEnd(t)
         \/ MoveTo \/ Merge \/ PopOwn

LSpec == LInit /\ [][LNext]_lvars
-----------------------------------------------------------------------------
(* Properties.                                                             *)

\* The list from its tail on.
ChainOf(l) ==
  LET chain[k \in 0 .. LMaxNodes] ==
        [n \in {None} \cup LNodes |->
           IF n = None \/ k = 0 THEN <<>> ELSE <<n>> \o chain[k - 1][lpre[n]]]
  IN chain[LMaxNodes][ltail[l]]

\* With its lock free, a list is linked the same way in both directions, ends
\* where head says, and holds no deleted node: what push, pop, MoveTo and Merge
\* each rely on.
WellLinked ==
  lock = {} => \A l \in Lists :
    LET c == ChainOf(l)
    IN /\ (lhead[l] = None) = (ltail[l] = None)
       /\ c # <<>> => c[Len(c)] = lhead[l] /\ lnext[c[1]] = None
       /\ \A k \in 2 .. Len(c) : lnext[c[k]] = c[k - 1]
       /\ \A k \in DOMAIN c : c[k] \notin freed

LFifo == INSTANCE Fifo WITH Elements <- LNodes, Nothing <- None,
                            contents <- ChainOf("own") \o ChainOf("shared"), taken <- popped

\* The shared list and the one its consumer emptied it into are one queue:
\* moving and merging neither lose nor reorder what was pushed, and leave both
\* lists well linked.
SpinListIsFifo == LFifo!Spec /\ [][WellLinked']_lvars
=============================================================================
