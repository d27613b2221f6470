------------------------------- MODULE IOEvent -------------------------------
(***************************************************************************)
(* The dispatch of one IOEvent (mio/mio_event.cpp).  Threads that hold a   *)
(* reference raise event bits with OnEventAsync; the word _events, changed *)
(* only by atomic instructions, decides who posts an OnEventWrapper task   *)
(* to the work group; the wrapper runs OnEvent until a pass leaves _events *)
(* with nothing but PROCESSING, and then drops its reference.  The object  *)
(* is deleted when ref_count falls to 0.                                   *)
(*                                                                         *)
(* Every atomic instruction is a step of its own, so the steps of any      *)
(* number of raisers and wrappers interleave.  The work group is reduced   *)
(* to what IOEvent needs of it: a posted task is run once.                 *)
(***************************************************************************)
EXTENDS Integers, FiniteSets

CONSTANTS Callers,   \* threads that call OnEventAsync
          Tasks,     \* identities of OnEventWrapper closures (bounds the live ones)
          Poller,    \* the caller that is the poller's thread
          Masks      \* the event bits READ, WRITE, CLOSE, timeouts and ERR

ASSUME CallersAssumption == Poller \in Callers /\ IsFiniteSet(Callers)
ASSUME TasksAssumption == IsFiniteSet(Tasks)
ASSUME MasksAssumption == Masks \cap {"PENDING", "PROCESSING"} = {}

VARIABLES
  group,      \* IOEvent::group is set (before the event is first used)
  _events,    \* IOEvent::_events, as the set of bits that are on
  ref_count,  \* IOEvent::ref_count
  deleted,    \* "delete this" has run
  holds,      \* callers that own a reference (registration, timer or owner)
  cpc,        \* where a caller is in OnEventAsync
  cmask,      \* the bits a caller handles inline
  wpc,        \* where a wrapper task is in OnEventWrapper
  wmask       \* the wrapper's pre_mask

vars == <<group, _events, ref_count, deleted, holds, cpc, cmask, wpc, wmask>>

MaskSets == {m \in SUBSET Masks : m # {}}    \* what one event_mask may hold
Status == {"PENDING", "PROCESSING"}
CallerPC == {"out", "ref", "post", "inline"}
TaskPC == {"none", "swap", "handler", "cas", "release"}

Init ==
  /\ group \in BOOLEAN
  /\ _events = {}
  /\ ref_count = 0
  /\ deleted = FALSE
  /\ holds = {}
  /\ cpc = [c \in Callers |-> "out"]
  /\ cmask = [c \in Callers |-> {}]
  /\ wpc = [w \in Tasks |-> "none"]
  /\ wmask = [w \in Tasks |-> {}]
-----------------------------------------------------------------------------
(* References.                                                             *)

AddRef == ref_count' = ref_count + 1 /\ UNCHANGED deleted

DropRef == ref_count' = ref_count - 1 /\ deleted' = (ref_count' = 0)

\* AddEventASync, SetReadTimeOut and the stream's owner take a reference.
RequireRef(c) ==
  /\ ~deleted
  /\ cpc[c] = "out" /\ c \notin holds
  /\ holds' = holds \cup {c}
  /\ AddRef
  /\ UNCHANGED <<group, _events, cpc, cmask, wpc, wmask>>

\* DelEvent, DelReadTimeOut and the stream's owner give it back.
ReleaseRef(c) ==
  /\ cpc[c] = "out" /\ c \in holds
  /\ holds' = holds \ {c}
  /\ DropRef
  /\ UNCHANGED <<group, _events, cpc, cmask, wpc, wmask>>
-----------------------------------------------------------------------------
(* OnEventAsync.                                                           *)

AlreadyScheduled_PendingOnly(pre) == "PENDING" \in pre

\* The two early returns: a wrapper is posted, or it runs and will loop.
AlreadyScheduled(pre) == "PENDING" \in pre \/ "PROCESSING" \in pre

RaisedBits_NoPending(m) == _events \cup m

RaisedBits(m) == _events \cup m \cup {"PENDING"}

\* __sync_fetch_and_or and the tests of pre_mask.
FetchAndOr(c, m) ==
  /\ group
  /\ cpc[c] = "out" /\ c \in holds
  /\ _events' = RaisedBits(m)
  /\ cpc' = [cpc EXCEPT ![c] = IF AlreadyScheduled(_events) THEN "out" ELSE "ref"]
  /\ UNCHANGED <<group, ref_count, deleted, holds, cmask, wpc, wmask>>

PostRef_Missing(c) == UNCHANGED <<ref_count, deleted>>

PostRef(c) == AddRef

\* RequireRef on behalf of the wrapper.
WrapperRef(c) ==
  /\ cpc[c] = "ref"
  /\ PostRef(c)
  /\ cpc' = [cpc EXCEPT ![c] = "post"]
  /\ UNCHANGED <<group, _events, holds, cmask, wpc, wmask>>

\* group->Post(closure).
Post(c, w) ==
  /\ cpc[c] = "post" /\ wpc[w] = "none"
  /\ cpc' = [cpc EXCEPT ![c] = "out"]
  /\ wpc' = [wpc EXCEPT ![w] = "swap"]
  /\ UNCHANGED <<group, _events, ref_count, deleted, holds, cmask, wmask>>

\* group is NULL: OnEvent runs in the calling thread ...
InlineBegin(c, m) ==
  /\ ~group /\ c = Poller
  /\ cpc[c] = "out" /\ c \in holds
  /\ cpc' = [cpc EXCEPT ![c] = "inline"]
  /\ cmask' = [cmask EXCEPT ![c] = m]
  /\ UNCHANGED <<group, _events, ref_count, deleted, holds, wpc, wmask>>

\* ... and returns.
InlineEnd(c) ==
  /\ cpc[c] = "inline"
  /\ cpc' = [cpc EXCEPT ![c] = "out"]
  /\ cmask' = [cmask EXCEPT ![c] = {}]
  /\ UNCHANGED <<group, _events, ref_count, deleted, holds, wpc, wmask>>
-----------------------------------------------------------------------------
(* OnEventWrapper.                                                         *)

\* __sync_lock_test_and_set(&_events, EVENT_PROCESSING), then OnEvent begins.
Swap(w) ==
  /\ wpc[w] = "swap"
  /\ wmask' = [wmask EXCEPT ![w] = _events]
  /\ _events' = {"PROCESSING"}
  /\ wpc' = [wpc EXCEPT ![w] = "handler"]
  /\ UNCHANGED <<group, ref_count, deleted, holds, cpc, cmask>>

\* OnEvent(p, pre_mask) returns.
HandlerReturns(w) ==
  /\ wpc[w] = "handler"
  /\ wpc' = [wpc EXCEPT ![w] = "cas"]
  /\ wmask' = [wmask EXCEPT ![w] = {}]
  /\ UNCHANGED <<group, _events, ref_count, deleted, holds, cpc, cmask>>

CasSucceeds_Unconditional == TRUE

CasSucceeds == _events = {"PROCESSING"}

\* __sync_bool_compare_and_swap(&_events, EVENT_PROCESSING, 0).
CompareAndSwap(w) ==
  /\ wpc[w] = "cas"
  /\ IF CasSucceeds
     THEN /\ _events' = {}
          /\ wpc' = [wpc EXCEPT ![w] = "release"]
     ELSE /\ wpc' = [wpc EXCEPT ![w] = "swap"]
          /\ UNCHANGED _events
  /\ UNCHANGED <<group, ref_count, deleted, holds, cpc, cmask, wmask>>

\* The wrapper's ReleaseRef; the closure is gone.
WrapperRelease(w) ==
  /\ wpc[w] = "release"
  /\ DropRef
  /\ wpc' = [wpc EXCEPT ![w] = "none"]
  /\ UNCHANGED <<group, _events, holds, cpc, cmask, wmask>>
-----------------------------------------------------------------------------
CallerStep(c) == \/ WrapperRef(c)
                 \/ \E w \in Tasks : Post(c, w)
                 \/ InlineEnd(c)

TaskStep(w) == Swap(w) \/ HandlerReturns(w) \/ CompareAndSwap(w) \/ WrapperRelease(w)

Next ==
  \/ \E c \in Callers :
       \/ RequireRef(c)
       \/ ReleaseRef(c)
       \/ \E m \in MaskSets : FetchAndOr(c, m) \/ InlineBegin(c, m)
       \/ CallerStep(c)
  \/ \E w \in Tasks : TaskStep(w)

Spec == Init /\ [][Next]_vars

\* A thread inside OnEventAsync or OnEventWrapper keeps running and OnEvent
\* returns.  Nothing obliges a caller to raise an event or drop a reference.
FairSpec == /\ Spec
            /\ \A c \in Callers : WF_vars(CallerStep(c))
            /\ \A w \in Tasks : WF_vars(TaskStep(w))
-----------------------------------------------------------------------------
(* Properties.                                                             *)

\* The types of IOEvent's state; ReleaseRef never takes ref_count below zero.
TypeOK ==
  /\ group \in BOOLEAN
  /\ _events \in SUBSET (Masks \cup Status)
  /\ ref_count \in Nat
  /\ deleted \in BOOLEAN
  /\ holds \in SUBSET Callers
  /\ cpc \in [Callers -> CallerPC]
  /\ cmask \in [Callers -> SUBSET Masks]
  /\ wpc \in [Tasks -> TaskPC]
  /\ wmask \in [Tasks -> SUBSET (Masks \cup Status)]

InHandler == {w \in Tasks : wpc[w] = "handler"} \cup {c \in Callers : cpc[c] = "inline"}

\* OnEvent is never entered twice at the same time, by whichever threads:
\* what test/test_ioevent.cpp asserts with its counter (assert b.get() == 1).
OneHandler == \A x, y \in InHandler : x = y

\* The assert(pre_mask & EVENT_PENDING) of OnEventWrapper: a wrapper never
\* runs OnEvent for nothing, neither on its first pass nor on a later one.
PendingAsserted == \A w \in Tasks : wpc[w] = "handler" => "PENDING" \in wmask[w]

\* Whoever is inside OnEventAsync or OnEventWrapper still has the object:
\* ReleaseRef deletes it under nobody.
NoUseAfterDelete ==
  deleted => /\ holds = {}
             /\ \A c \in Callers : cpc[c] = "out"
             /\ \A w \in Tasks : wpc[w] = "none"

\* Bits raised while a handler runs, or while the wrapper is between two
\* passes, reach a later pass of OnEvent.
RaisedReachHandler ==
  \A m \in Masks :
     (m \in _events) ~> (\E w \in Tasks : wpc[w] = "handler" /\ m \in wmask[w])

HandlerMasks == {wmask[w] \cap Masks : w \in {x \in Tasks : wpc[x] = "handler"}}
                  \cup {cmask[c] : c \in {x \in Callers : cpc[x] = "inline"}}

Serial == INSTANCE SerialHandler WITH owed <- _events \cap Masks,
                                      running <- HandlerMasks

\* The safety part of the next property, proved for every instance.
ImplementsSerialSafety == Serial!SerialSafety

\* The dispatch implements SerialHandler: no raised bit is dropped, no bit is
\* handled twice, handlers do not overlap, and owed bits are handled.
ImplementsSerialHandler == Serial!SerialSpec
=============================================================================
