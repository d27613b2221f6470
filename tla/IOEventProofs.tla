---------------------------- MODULE IOEventProofs ----------------------------
(***************************************************************************)
(* Proofs about IOEvent for any number of threads, closures and bits.      *)
(*                                                                         *)
(* The argument: whoever is between a fetch_or that found no status bit    *)
(* and the end of the wrapper's last pass owns the event.  Dispatch says   *)
(* that there is at most one owner and what _events looks like while the   *)
(* owner is at each point; RefsCounted says what every unit of ref_count   *)
(* stands for.                                                             *)
(***************************************************************************)
EXTENDS IOEvent, FiniteSetTheorems, TLAPS

Scheduling == {c \in Callers : cpc[c] \in {"ref", "post"}}
Live == {w \in Tasks : wpc[w] \in {"swap", "handler", "cas"}}

\* The event has at most one owner, and _events shows where the owner is.
Dispatch ==
  /\ \A c, d \in Scheduling : c = d
  /\ \A v, w \in Live : v = w
  /\ Scheduling # {} => Live = {} /\ "PENDING" \in _events /\ "PROCESSING" \notin _events
  /\ \A w \in Tasks : wpc[w] = "swap" => "PENDING" \in _events
  /\ \A w \in Tasks : wpc[w] \in {"handler", "cas"} => "PROCESSING" \in _events
  /\ _events # {} => "PENDING" \in _events \/ _events = {"PROCESSING"}
  /\ "PENDING" \in _events => _events \cap Masks # {}
  /\ PendingAsserted

\* An event uses one of the two ways of running its handler, not both.
OneWay ==
  /\ group => \A c \in Callers : cpc[c] # "inline"
  /\ ~group => /\ _events = {}
               /\ \A c \in Callers : cpc[c] \in {"out", "inline"}
               /\ \A w \in Tasks : wpc[w] = "none"
  /\ \A c \in Callers : cpc[c] = "inline" => c = Poller

\* TypeOK without the claim that ref_count is not negative.
Types ==
  /\ group \in BOOLEAN
  /\ _events \in SUBSET (Masks \cup Status)
  /\ ref_count \in Int
  /\ deleted \in BOOLEAN
  /\ holds \in SUBSET Callers
  /\ cpc \in [Callers -> CallerPC]
  /\ cmask \in [Callers -> SUBSET Masks]
  /\ wpc \in [Tasks -> TaskPC]
  /\ wmask \in [Tasks -> SUBSET (Masks \cup Status)]

DispatchInv == Types /\ Dispatch /\ OneWay

LEMMA InitDispatch == Init => DispatchInv
<1> SUFFICES ASSUME Init PROVE DispatchInv
  OBVIOUS
<1> USE DEF Init
<1>1. Types
  <2>1. group \in BOOLEAN /\ deleted \in BOOLEAN
    BY Zenon
  <2>2. cmask \in [Callers -> SUBSET Masks] /\ wmask \in [Tasks -> SUBSET (Masks \cup Status)]
    BY Zenon
  <2>3. cpc \in [Callers -> CallerPC] /\ wpc \in [Tasks -> TaskPC]
    BY DEF CallerPC, TaskPC
  <2> QED BY <2>1, <2>2, <2>3 DEF Types
<1>2. Scheduling = {} /\ Live = {}
  BY DEF Scheduling, Live
<1>3. Dispatch
  BY <1>2 DEF Dispatch, PendingAsserted
<1>4. OneWay
  BY DEF OneWay
<1> QED BY <1>1, <1>3, <1>4 DEF DispatchInv

LEMMA TypesStep == Types /\ [Next]_vars => Types'
<1> SUFFICES ASSUME Types, [Next]_vars PROVE Types'
  OBVIOUS
<1> USE DEF MaskSets, Types, Status, CallerPC, TaskPC
<1>1. ASSUME NEW c \in Callers, RequireRef(c) PROVE Types'
  BY <1>1 DEF RequireRef, AddRef
<1>2. ASSUME NEW c \in Callers, ReleaseRef(c) PROVE Types'
  BY <1>2 DEF ReleaseRef, DropRef
<1>3. ASSUME NEW c \in Callers, NEW m \in MaskSets, FetchAndOr(c, m)
      PROVE  Types'
  BY <1>3 DEF FetchAndOr, RaisedBits, AlreadyScheduled
<1>4. ASSUME NEW c \in Callers, NEW m \in MaskSets, InlineBegin(c, m)
      PROVE  Types'
  BY <1>4 DEF InlineBegin
<1>5. ASSUME NEW c \in Callers, WrapperRef(c) PROVE Types'
  BY <1>5 DEF WrapperRef, PostRef, AddRef
<1>6. ASSUME NEW c \in Callers, NEW w \in Tasks, Post(c, w) PROVE Types'
  BY <1>6 DEF Post
<1>7. ASSUME NEW c \in Callers, InlineEnd(c) PROVE Types'
  BY <1>7 DEF InlineEnd
<1>8. ASSUME NEW w \in Tasks, Swap(w) PROVE Types'
  BY <1>8 DEF Swap
<1>9. ASSUME NEW w \in Tasks, HandlerReturns(w) PROVE Types'
  BY <1>9 DEF HandlerReturns
<1>10. ASSUME NEW w \in Tasks, CompareAndSwap(w) PROVE Types'
  BY <1>10 DEF CompareAndSwap, CasSucceeds
<1>11. ASSUME NEW w \in Tasks, WrapperRelease(w) PROVE Types'
  BY <1>11 DEF WrapperRelease, DropRef
<1>12. CASE UNCHANGED vars
  BY <1>12 DEF vars
<1> QED
  BY <1>1, <1>2, <1>3, <1>4, <1>5, <1>6, <1>7, <1>8, <1>9, <1>10, <1>11, <1>12
     DEF Next, CallerStep, TaskStep

LEMMA DispatchStep == DispatchInv /\ [Next]_vars => DispatchInv'
<1> SUFFICES ASSUME DispatchInv, [Next]_vars PROVE DispatchInv'
  OBVIOUS
<1> USE DEF DispatchInv
<1>0. Types' BY TypesStep
<1>a. Types /\ Dispatch /\ OneWay OBVIOUS
<1> HIDE DEF DispatchInv
<1> USE MasksAssumption DEF MaskSets, Dispatch, OneWay, PendingAsserted, Scheduling, Live
<1>1. ASSUME NEW c \in Callers, RequireRef(c) PROVE Dispatch' /\ OneWay'
  BY <1>1, <1>a DEF RequireRef, AddRef
<1>2. ASSUME NEW c \in Callers, ReleaseRef(c) PROVE Dispatch' /\ OneWay'
  BY <1>2, <1>a DEF ReleaseRef, DropRef
<1>3. ASSUME NEW c \in Callers, NEW m \in MaskSets, FetchAndOr(c, m)
      PROVE  Dispatch' /\ OneWay'
  <2>1. CASE AlreadyScheduled(_events)
    <3>1. cpc' = cpc
      BY <1>3, <1>a, <2>1 DEF FetchAndOr, Types
    <3>2. /\ wpc' = wpc /\ wmask' = wmask /\ group' = group /\ group
          /\ _events' = _events \cup m \cup {"PENDING"}
      BY <1>3 DEF FetchAndOr, RaisedBits
    <3>3. m # {} /\ m \subseteq Masks /\ "PROCESSING" \notin m
      BY MasksAssumption, "PROCESSING" \in {"PENDING", "PROCESSING"}
    <3>4. Scheduling' = Scheduling /\ Live' = Live
      BY <3>1, <3>2
    <3>5. Dispatch'
      BY <1>a, <3>2, <3>3, <3>4
    <3>6. OneWay'
      BY <1>a, <3>1, <3>2
    <3> QED BY <3>5, <3>6
  <2>2. CASE ~AlreadyScheduled(_events)
    <3>1. Scheduling = {} /\ Live = {}
      BY <1>a, <2>2 DEF AlreadyScheduled, Types
    <3>2. cpc' = [cpc EXCEPT ![c] = "ref"] /\ wpc' = wpc /\ wmask' = wmask
          /\ group' = group /\ group /\ _events' = _events \cup m \cup {"PENDING"}
      BY <1>3, <2>2 DEF FetchAndOr, RaisedBits
    <3>3. m # {} /\ m \subseteq Masks /\ "PROCESSING" \notin m
      BY MasksAssumption, "PROCESSING" \in {"PENDING", "PROCESSING"}
    <3>4. Scheduling' = {c} /\ Live' = {}
      BY <1>a, <3>1, <3>2 DEF Types
    <3>5. Dispatch'
      <4>1. "PROCESSING" \notin _events'
        BY <2>2, <3>2, <3>3 DEF AlreadyScheduled
      <4> QED BY <1>a, <3>2, <3>3, <3>4, <4>1
    <3>6. OneWay'
      BY <1>a, <3>2 DEF Types
    <3> QED BY <3>5, <3>6
  <2> QED BY <2>1, <2>2
<1>4. ASSUME NEW c \in Callers, NEW m \in MaskSets, InlineBegin(c, m)
      PROVE  Dispatch' /\ OneWay'
  BY <1>4, <1>a DEF InlineBegin, Types
<1>5. ASSUME NEW c \in Callers, WrapperRef(c) PROVE Dispatch' /\ OneWay'
  BY <1>5, <1>a DEF WrapperRef, PostRef, AddRef, Types
<1>6. ASSUME NEW c \in Callers, NEW w \in Tasks, Post(c, w) PROVE Dispatch' /\ OneWay'
  BY <1>6, <1>a DEF Post, Types
<1>7. ASSUME NEW c \in Callers, InlineEnd(c) PROVE Dispatch' /\ OneWay'
  BY <1>7, <1>a DEF InlineEnd, Types
<1>8. ASSUME NEW w \in Tasks, Swap(w) PROVE Dispatch' /\ OneWay'
  BY <1>8, <1>a DEF Swap, Types
<1>9. ASSUME NEW w \in Tasks, HandlerReturns(w) PROVE Dispatch' /\ OneWay'
  <2>1. /\ wpc' = [wpc EXCEPT ![w] = "cas"] /\ wpc[w] = "handler"
        /\ wmask' = [wmask EXCEPT ![w] = {}]
        /\ UNCHANGED <<group, _events, cpc>>
    BY <1>9 DEF HandlerReturns
  <2>2. Scheduling' = Scheduling /\ Live' = Live
    BY <1>a, <2>1 DEF Types
  <2>3. Dispatch'
    BY <1>a, <2>1, <2>2 DEF Types
  <2>4. OneWay'
    BY <1>a, <2>1 DEF Types
  <2> QED BY <2>3, <2>4
<1>10. ASSUME NEW w \in Tasks, CompareAndSwap(w) PROVE Dispatch' /\ OneWay'
  <2>1. wpc[w] = "cas" /\ UNCHANGED <<group, cpc, wmask>>
    BY <1>10 DEF CompareAndSwap
  <2>2. CASE CasSucceeds
    <3>1. _events' = {} /\ wpc' = [wpc EXCEPT ![w] = "release"]
      BY <1>10, <2>2 DEF CompareAndSwap
    <3>2. Scheduling' = {} /\ Live' = {}
      BY <1>a, <2>1, <3>1 DEF Types
    <3> QED BY <1>a, <2>1, <3>1, <3>2 DEF Types
  <2>3. CASE ~CasSucceeds
    <3>1. _events' = _events /\ wpc' = [wpc EXCEPT ![w] = "swap"]
      BY <1>10, <2>3 DEF CompareAndSwap
    <3>2. Scheduling' = {} /\ Scheduling = {} /\ Live' = Live
      BY <1>a, <2>1, <3>1 DEF Types
    <3>3. "PENDING" \in _events
      BY <1>a, <2>1, <2>3 DEF CasSucceeds
    <3>4. Dispatch'
      BY <1>a, <2>1, <3>1, <3>2, <3>3 DEF Types
    <3>5. OneWay'
      BY <1>a, <2>1, <3>1 DEF Types
    <3> QED BY <3>4, <3>5
  <2> QED BY <2>2, <2>3
<1>11. ASSUME NEW w \in Tasks, WrapperRelease(w) PROVE Dispatch' /\ OneWay'
  BY <1>11, <1>a DEF WrapperRelease, DropRef, Types
<1>12. ASSUME UNCHANGED vars PROVE Dispatch' /\ OneWay'
  BY <1>12, <1>a DEF vars
<1> HIDE DEF Dispatch, OneWay, PendingAsserted, Scheduling, Live
<1>13. Dispatch' /\ OneWay'
  BY <1>1, <1>2, <1>3, <1>4, <1>5, <1>6, <1>7, <1>8, <1>9, <1>10, <1>11, <1>12
     DEF Next, CallerStep, TaskStep
<1> QED
  BY <1>0, <1>13 DEF DispatchInv

LEMMA DispatchInvariant == Spec => []DispatchInv
  BY InitDispatch, DispatchStep, PTL DEF Spec

\* OnEvent is never entered twice at the same time: any number of raising
\* threads and wrapper tasks, grouped or not.
THEOREM OnlyOneHandler == Spec => []OneHandler
<1>1. DispatchInv => OneHandler
  BY DEF DispatchInv, Types, Dispatch, OneWay, OneHandler, InHandler, Live
<1> QED BY <1>1, DispatchInvariant, PTL

\* The assertion in OnEventWrapper never fails.
THEOREM PendingAssertionHolds == Spec => []PendingAsserted
<1>1. DispatchInv => PendingAsserted
  BY DEF DispatchInv, Dispatch
<1> QED BY <1>1, DispatchInvariant, PTL
-----------------------------------------------------------------------------
(* Reference counting.                                                     *)

Promised == {c \in Callers : cpc[c] = "post"}
Wrapped == {w \in Tasks : wpc[w] # "none"}

\* Every unit of ref_count belongs to a holder, to a caller about to post a
\* wrapper or to a posted wrapper, and a caller inside OnEventAsync is a holder.
RefsCounted ==
  /\ ref_count = Cardinality(holds) + Cardinality(Promised) + Cardinality(Wrapped)
  /\ deleted => ref_count = 0
  /\ \A c \in Callers : cpc[c] # "out" => c \in holds

LEMMA Counts ==
  ASSUME Types
  PROVE  /\ IsFiniteSet(holds) /\ IsFiniteSet(Promised) /\ IsFiniteSet(Wrapped)
         /\ Cardinality(holds) \in Nat
         /\ Cardinality(Promised) \in Nat
         /\ Cardinality(Wrapped) \in Nat
         /\ Cardinality(holds) = 0 <=> holds = {}
         /\ Cardinality(Promised) = 0 <=> Promised = {}
         /\ Cardinality(Wrapped) = 0 <=> Wrapped = {}
<1>1. holds \subseteq Callers /\ Promised \subseteq Callers /\ Wrapped \subseteq Tasks
  BY DEF Types, Promised, Wrapped
<1>2. IsFiniteSet(holds) /\ IsFiniteSet(Promised) /\ IsFiniteSet(Wrapped)
  BY <1>1, CallersAssumption, TasksAssumption, FS_Subset
<1> QED
  BY <1>2, FS_CardinalityType, FS_EmptySet

LEMMA InitRefs == Init => RefsCounted
<1> SUFFICES ASSUME Init PROVE RefsCounted
  OBVIOUS
<1>1. holds = {} /\ Promised = {} /\ Wrapped = {}
  BY DEF Init, Promised, Wrapped
<1> QED
  BY <1>1, FS_EmptySet DEF Init, RefsCounted

LEMMA RefsStep == Types /\ RefsCounted /\ [Next]_vars => RefsCounted'
<1> SUFFICES ASSUME Types, RefsCounted, [Next]_vars PROVE RefsCounted'
  OBVIOUS
<1>0. Types' BY TypesStep
<1> USE Counts
<1>1. ASSUME NEW c \in Callers, RequireRef(c) PROVE RefsCounted'
  <2>1. Promised' = Promised /\ Wrapped' = Wrapped
    BY <1>1 DEF RequireRef, Promised, Wrapped
  <2>2. Cardinality(holds') = Cardinality(holds) + 1
    BY <1>1, FS_AddElement DEF RequireRef
  <2> QED
    BY <1>1, <2>1, <2>2 DEF RequireRef, AddRef, RefsCounted, Types
<1>2. ASSUME NEW c \in Callers, ReleaseRef(c) PROVE RefsCounted'
  <2>1. Promised' = Promised /\ Wrapped' = Wrapped
    BY <1>2 DEF ReleaseRef, Promised, Wrapped
  <2>2. Cardinality(holds') = Cardinality(holds) - 1
    BY <1>2, FS_RemoveElement DEF ReleaseRef
  <2> QED
    BY <1>2, <2>1, <2>2 DEF ReleaseRef, DropRef, RefsCounted, Types
<1>3. ASSUME NEW c \in Callers, NEW m \in MaskSets, FetchAndOr(c, m) PROVE RefsCounted'
  <2>1. Promised' = Promised /\ Wrapped' = Wrapped
    BY <1>3 DEF FetchAndOr, Promised, Wrapped, Types
  <2> QED
    BY <1>3, <2>1 DEF FetchAndOr, RefsCounted, Types
<1>4. ASSUME NEW c \in Callers, NEW m \in MaskSets, InlineBegin(c, m) PROVE RefsCounted'
  <2>1. Promised' = Promised /\ Wrapped' = Wrapped
    BY <1>4 DEF InlineBegin, Promised, Wrapped, Types
  <2> QED
    BY <1>4, <2>1 DEF InlineBegin, RefsCounted, Types
<1>5. ASSUME NEW c \in Callers, WrapperRef(c) PROVE RefsCounted'
  <2>1. Promised' = Promised \cup {c} /\ c \notin Promised /\ Wrapped' = Wrapped
    BY <1>5 DEF WrapperRef, Promised, Wrapped, Types
  <2>2. Cardinality(Promised') = Cardinality(Promised) + 1
    BY <2>1, FS_AddElement
  <2>3. ~deleted
    <3>1. c \in holds
      BY <1>5 DEF WrapperRef, RefsCounted
    <3> QED BY <3>1 DEF RefsCounted
  <2> QED
    BY <1>5, <2>1, <2>2, <2>3 DEF WrapperRef, PostRef, AddRef, RefsCounted, Types
<1>6. ASSUME NEW c \in Callers, NEW w \in Tasks, Post(c, w) PROVE RefsCounted'
  <2>1. Promised' = Promised \ {c} /\ c \in Promised
    BY <1>6 DEF Post, Promised, Types
  <2>2. Wrapped' = Wrapped \cup {w} /\ w \notin Wrapped
    BY <1>6 DEF Post, Wrapped, Types
  <2>3. Cardinality(Promised') = Cardinality(Promised) - 1
    BY <2>1, FS_RemoveElement
  <2>4. Cardinality(Wrapped') = Cardinality(Wrapped) + 1
    BY <2>2, FS_AddElement
  <2> QED
    BY <1>6, <2>3, <2>4 DEF Post, RefsCounted, Types
<1>7. ASSUME NEW c \in Callers, InlineEnd(c) PROVE RefsCounted'
  <2>1. Promised' = Promised /\ Wrapped' = Wrapped
    BY <1>7 DEF InlineEnd, Promised, Wrapped, Types
  <2> QED
    BY <1>7, <2>1 DEF InlineEnd, RefsCounted, Types
<1>8. ASSUME NEW w \in Tasks, Swap(w) \/ HandlerReturns(w) \/ CompareAndSwap(w)
      PROVE  RefsCounted'
  <2>1. /\ UNCHANGED <<ref_count, deleted, holds, cpc>>
        /\ wpc[w] # "none"
        /\ \E p \in TaskPC \ {"none"} : wpc' = [wpc EXCEPT ![w] = p]
    BY <1>8 DEF Swap, HandlerReturns, CompareAndSwap, TaskPC
  <2>2. Promised' = Promised /\ Wrapped' = Wrapped
    BY <2>1 DEF Promised, Wrapped, Types
  <2> QED
    BY <2>1, <2>2 DEF RefsCounted
<1>9. ASSUME NEW w \in Tasks, WrapperRelease(w) PROVE RefsCounted'
  <2>1. Wrapped' = Wrapped \ {w} /\ w \in Wrapped /\ Promised' = Promised
    BY <1>9 DEF WrapperRelease, Wrapped, Promised, Types
  <2>2. Cardinality(Wrapped') = Cardinality(Wrapped) - 1
    BY <2>1, FS_RemoveElement
  <2> QED
    BY <1>9, <2>1, <2>2 DEF WrapperRelease, DropRef, RefsCounted, Types
<1>10. CASE UNCHANGED vars
  BY <1>10 DEF vars, RefsCounted, Promised, Wrapped
<1> QED
  BY <1>1, <1>2, <1>3, <1>4, <1>5, <1>6, <1>7, <1>8, <1>9, <1>10
     DEF Next, CallerStep, TaskStep

LEMMA RefsInvariant == Spec => [](Types /\ RefsCounted)
<1>1. Init => Types
  BY InitDispatch DEF DispatchInv
<1> QED BY <1>1, InitRefs, TypesStep, RefsStep, PTL DEF Spec

\* Every variable keeps its type; in particular ref_count never falls below 0,
\* so the object is deleted at most once.
THEOREM TypeCorrect == Spec => []TypeOK
<1>1. Types /\ RefsCounted => TypeOK
  BY Counts DEF Types, TypeOK, RefsCounted
<1> QED BY <1>1, RefsInvariant, PTL

\* "delete this" in ReleaseRef never happens under a thread that is inside
\* OnEventAsync or OnEventWrapper, or that still owns a reference.
THEOREM DeletedUnderNobody == Spec => []NoUseAfterDelete
<1>1. Types /\ RefsCounted => NoUseAfterDelete
  <2> SUFFICES ASSUME Types, RefsCounted, deleted PROVE NoUseAfterDelete
    BY DEF NoUseAfterDelete
  <2>1. ref_count = 0 /\ ref_count = Cardinality(holds) + Cardinality(Promised) + Cardinality(Wrapped)
    BY DEF RefsCounted
  <2>2. Cardinality(holds) = 0 /\ Cardinality(Wrapped) = 0
    BY <2>1, Counts
  <2>3. holds = {} /\ Wrapped = {}
    BY <2>2, Counts
  <2> QED
    BY <2>3 DEF NoUseAfterDelete, RefsCounted, Wrapped
<1> QED BY <1>1, RefsInvariant, PTL
-----------------------------------------------------------------------------
(* Refinement of SerialHandler.                                            *)

LEMMA SerialInitial == Init => Serial!SerialInit
<1> SUFFICES ASSUME Init PROVE Serial!SerialInit
  OBVIOUS
<1>1. HandlerMasks = {}
  BY DEF Init, HandlerMasks
<1> QED BY <1>1 DEF Init, Serial!SerialInit

\* A step that leaves the handlers and their bits alone.
LEMMA HandlersUnchanged ==
  ASSUME Types, Types',
         \A w \in Tasks : wpc'[w] = "handler" <=> wpc[w] = "handler",
         \A w \in Tasks : wpc[w] = "handler" => wmask'[w] = wmask[w],
         \A c \in Callers : cpc'[c] = "inline" <=> cpc[c] = "inline",
         \A c \in Callers : cpc[c] = "inline" => cmask'[c] = cmask[c]
  PROVE  HandlerMasks' = HandlerMasks
  BY DEF HandlerMasks

LEMMA SerialStep == DispatchInv /\ DispatchInv' /\ [Next]_vars
                      => [Serial!SerialNext]_Serial!serialVars
<1> SUFFICES ASSUME DispatchInv, DispatchInv', [Next]_vars
             PROVE  [Serial!SerialNext]_Serial!serialVars
  OBVIOUS
<1>a. Types /\ Types' BY DEF DispatchInv
<1>b. Dispatch /\ OneWay /\ Dispatch' BY DEF DispatchInv
<1> DEFINE Stutter == _events' \cap Masks = _events \cap Masks /\ HandlerMasks' = HandlerMasks
<1>c. Stutter => [Serial!SerialNext]_Serial!serialVars
  BY DEF Serial!serialVars
<1> HIDE DEF Stutter
<1>1. ASSUME NEW c \in Callers, RequireRef(c) \/ ReleaseRef(c) \/ WrapperRef(c)
      PROVE  Stutter
  <2>1. HandlerMasks' = HandlerMasks
    BY <1>1, <1>a, HandlersUnchanged DEF RequireRef, ReleaseRef, WrapperRef, Types
  <2> QED BY <1>1, <2>1 DEF RequireRef, ReleaseRef, WrapperRef, Stutter
<1>2. ASSUME NEW c \in Callers, NEW w \in Tasks, Post(c, w) PROVE Stutter
  <2>1. HandlerMasks' = HandlerMasks
    BY <1>2, <1>a, HandlersUnchanged DEF Post, Types
  <2> QED BY <1>2, <2>1 DEF Post, Stutter
<1>3. ASSUME NEW c \in Callers, NEW m \in MaskSets, FetchAndOr(c, m)
      PROVE  Serial!Raise(m)
  <2>1. HandlerMasks' = HandlerMasks
    BY <1>3, <1>a, HandlersUnchanged DEF FetchAndOr, Types
  <2>2. _events' \cap Masks = (_events \cap Masks) \cup m
    BY <1>3, MasksAssumption DEF FetchAndOr, RaisedBits, MaskSets
  <2> QED BY <2>1, <2>2 DEF Serial!Raise
<1>4. ASSUME NEW c \in Callers, NEW m \in MaskSets, InlineBegin(c, m)
      PROVE  Serial!RunInline(m)
  <2>1. _events = {} /\ c = Poller /\ cpc[c] = "out"
    BY <1>4, <1>b DEF InlineBegin, OneWay
  <2>2. HandlerMasks = {}
    BY <1>4, <1>b, <2>1 DEF HandlerMasks, InlineBegin, OneWay
  <2>3. HandlerMasks' = {m}
    BY <1>4, <1>a, <1>b, <2>1 DEF HandlerMasks, InlineBegin, OneWay, Types
  <2> QED BY <1>4, <2>1, <2>2, <2>3 DEF Serial!RunInline, InlineBegin
<1>5. ASSUME NEW c \in Callers, InlineEnd(c) PROVE Serial!End
  <2>1. ~group
    BY <1>5, <1>a, <1>b DEF InlineEnd, OneWay, Types
  <2>2. cmask[c] \in HandlerMasks
    BY <1>5 DEF HandlerMasks, InlineEnd
  <2>3. HandlerMasks' = {}
    BY <1>5, <1>a, <1>b, <2>1 DEF HandlerMasks, InlineEnd, OneWay, Types
  <2> QED BY <1>5, <2>2, <2>3 DEF Serial!End, InlineEnd
<1>6. ASSUME NEW w \in Tasks, Swap(w) PROVE Serial!Begin
  <2>1. group /\ \A c \in Callers : cpc[c] # "inline"
    BY <1>6, <1>a, <1>b DEF Swap, OneWay, Types
  <2>2. \A v \in Tasks : wpc[v] # "handler"
    BY <1>6, <1>a, <1>b DEF Swap, Dispatch, Live, Types
  <2>3. HandlerMasks = {}
    BY <2>1, <2>2 DEF HandlerMasks
  <2>4. HandlerMasks' = {_events \cap Masks}
    BY <1>6, <1>a, <2>1, <2>2 DEF HandlerMasks, Swap, Types
  <2>5. _events \cap Masks # {}
    BY <1>6, <1>b DEF Swap, Dispatch
  <2>6. _events' \cap Masks = {}
    BY <1>6, MasksAssumption DEF Swap
  <2> QED BY <2>3, <2>4, <2>5, <2>6 DEF Serial!Begin
<1>7. ASSUME NEW w \in Tasks, HandlerReturns(w) PROVE Serial!End
  <2>1. group /\ \A c \in Callers : cpc[c] # "inline"
    BY <1>7, <1>a, <1>b DEF HandlerReturns, OneWay, Types
  <2>2. wmask[w] \cap Masks \in HandlerMasks
    BY <1>7 DEF HandlerMasks, HandlerReturns
  <2>3. \A v \in Tasks : wpc'[v] # "handler"
    BY <1>7, <1>a, <1>b DEF HandlerReturns, Dispatch, Live, Types
  <2>4. HandlerMasks' = {}
    BY <1>7, <2>1, <2>3 DEF HandlerMasks, HandlerReturns
  <2> QED BY <1>7, <2>2, <2>4 DEF Serial!End, HandlerReturns
<1>8. ASSUME NEW w \in Tasks, CompareAndSwap(w) PROVE Stutter
  <2>1. HandlerMasks' = HandlerMasks
    BY <1>8, <1>a, HandlersUnchanged DEF CompareAndSwap, Types
  <2>2. _events' \cap Masks = _events \cap Masks
    BY <1>8, MasksAssumption DEF CompareAndSwap, CasSucceeds
  <2> QED BY <2>1, <2>2 DEF Stutter
<1>9. ASSUME NEW w \in Tasks, WrapperRelease(w) PROVE Stutter
  <2>1. HandlerMasks' = HandlerMasks
    BY <1>9, <1>a, HandlersUnchanged DEF WrapperRelease, Types
  <2> QED BY <1>9, <2>1 DEF WrapperRelease, Stutter
<1>10. ASSUME UNCHANGED vars PROVE Stutter
  BY <1>10 DEF vars, HandlerMasks, Stutter
<1>11. MaskSets = Serial!MaskSets
  BY DEF MaskSets, Serial!MaskSets
<1> QED
  BY <1>c, <1>1, <1>2, <1>3, <1>4, <1>5, <1>6, <1>7, <1>8, <1>9, <1>10, <1>11
     DEF Next, CallerStep, TaskStep, Serial!SerialNext

\* Every behaviour of the dispatch is a behaviour of the serial handler: no
\* raised bit is lost or delivered twice whatever the interleaving of fetch_or,
\* swap and compare-and-swap.
THEOREM RefinesSerialHandler == Spec => ImplementsSerialSafety
  BY SerialInitial, SerialStep, DispatchInvariant, PTL
     DEF Spec, ImplementsSerialSafety, Serial!SerialSafety
=============================================================================
