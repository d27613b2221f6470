--------------------------- MODULE ComponentProofs ---------------------------
(***************************************************************************)
(* Proofs about five of the parts that MCComponents checks side by side:   *)
(* SharedCount for any number of handles, the first round of the ring of   *)
(* NoLockWorkPool for any number of workers, tasks and entries,            *)
(* ServerState for any number of calls, ServicePool for any number of      *)
(* services and finders, and Logger for any number of threads and lines.   *)
(*                                                                         *)
(* SharedCount: each unit of the two counts stands for a handle, except    *)
(* one unit of weak_count_, which stands for all the shared handles and    *)
(* then for the one handle that disposes of the object.  Stages says in    *)
(* which order the object and the block go.                                *)
(***************************************************************************)
EXTENDS SharedCount, NoLockWorkPool, ServerState, ServicePool, Logger,
        FiniteSetTheorems, SequenceTheorems, WellFoundedInduction, TLAPS

\* The handle that has released the object and still owes the weak reference.
Owing == {h \in Handles : hold[h] \in {"dispose", "weakrelease"}}

\* The handle that frees the block.
Destroying == {h \in Handles : hold[h] = "destroy"}

\* First the shared handles, then one handle that disposes and gives up the
\* weak reference, then, when no weak handle is left, one that destroys.
Stages ==
  /\ Shared # {} => Owing = {} /\ Destroying = {}
  /\ \A g, h \in Owing : g = h
  /\ \A g, h \in Destroying : g = h
  /\ Destroying # {} => Owing = {} /\ Weak = {}
  /\ disposed = IF Shared # {} \/ \E h \in Handles : hold[h] = "dispose" THEN 0 ELSE 1
  /\ destroyed = IF Shared # {} \/ Owing # {} \/ Weak # {} \/ Destroying # {} THEN 0 ELSE 1

\* CountsMatch in terms of the sets above.
Counted ==
  /\ use_count_ = Cardinality(Shared)
  /\ weak_count_ = Cardinality(Weak) + (IF Shared # {} \/ Owing # {} THEN 1 ELSE 0)

SInv == STypeOK /\ Counted /\ Stages

\* Cardinalities of sets of handles.
LEMMA HandleSets ==
  ASSUME NEW A \in SUBSET Handles
  PROVE  /\ Cardinality(A) \in Nat
         /\ Cardinality(A) = 0 <=> A = {}
         /\ \A h \in Handles \ A : Cardinality(A \cup {h}) = Cardinality(A) + 1
         /\ \A h \in A : Cardinality(A \ {h}) = Cardinality(A) - 1
         /\ \A h \in A : Cardinality(A) = 1 => A = {h}
<1>1. IsFiniteSet(A)
  BY FS_Subset, SharedCountAssumption
<1>2. Cardinality(A) \in Nat /\ (Cardinality(A) = 0 <=> A = {})
  BY <1>1, FS_CardinalityType, FS_EmptySet
<1>3. \A h \in Handles \ A : Cardinality(A \cup {h}) = Cardinality(A) + 1
  BY <1>1, FS_AddElement
<1>4. \A h \in A : Cardinality(A \ {h}) = Cardinality(A) - 1
  BY <1>1, FS_RemoveElement
<1>5. ASSUME NEW h \in A, Cardinality(A) = 1 PROVE A = {h}
  <2>1. IsFiniteSet(A \ {h}) /\ Cardinality(A \ {h}) = 0
    BY <1>1, <1>5, FS_RemoveElement
  <2> QED BY <2>1, FS_EmptySet
<1> QED BY <1>2, <1>3, <1>4, <1>5

LEMMA InitSInv == SInit => SInv
<1> SUFFICES ASSUME SInit PROVE SInv
  OBVIOUS
<1>1. PICK first \in Handles : hold = [h \in Handles |-> IF h = first THEN "shared" ELSE "empty"]
  BY DEF SInit
<1>2. Shared = {first} /\ Weak = {} /\ Owing = {} /\ Destroying = {}
  BY <1>1 DEF Shared, Weak, Owing, Destroying
<1>3. Cardinality({first}) = 1 /\ Cardinality({}) = 0
  BY FS_Singleton, FS_EmptySet
<1>4. STypeOK
  BY <1>1 DEF SInit, STypeOK
<1>5. Counted
  BY <1>2, <1>3 DEF Counted, SInit
<1>6. Stages
  BY <1>2 DEF Stages, SInit
<1> QED BY <1>4, <1>5, <1>6 DEF SInv

LEMMA StepSInv == SInv /\ [SNext]_svars => SInv'
<1> SUFFICES ASSUME SInv, [SNext]_svars PROVE SInv'
  OBVIOUS
<1> USE DEF SInv
<1>s. /\ Shared \in SUBSET Handles /\ Weak \in SUBSET Handles
      /\ Owing \in SUBSET Handles /\ Destroying \in SUBSET Handles
  BY DEF Shared, Weak, Owing, Destroying
<1>c. /\ Cardinality(Shared) \in Nat /\ Cardinality(Weak) \in Nat
      /\ Cardinality(Shared) = 0 <=> Shared = {}
      /\ Cardinality(Weak) = 0 <=> Weak = {}
      /\ \A h \in Handles \ Shared : Cardinality(Shared \cup {h}) = Cardinality(Shared) + 1
      /\ \A h \in Shared : Cardinality(Shared \ {h}) = Cardinality(Shared) - 1
      /\ \A h \in Shared : Cardinality(Shared) = 1 => Shared = {h}
      /\ \A h \in Handles \ Weak : Cardinality(Weak \cup {h}) = Cardinality(Weak) + 1
      /\ \A h \in Weak : Cardinality(Weak \ {h}) = Cardinality(Weak) - 1
      /\ \A h \in Weak : Cardinality(Weak) = 1 => Weak = {h}
  BY <1>s, HandleSets
<1>1. ASSUME NEW h \in Handles, NEW g \in Handles, CopyShared(h, g) PROVE SInv'
  <2>1. STypeOK'
    BY <1>1 DEF CopyShared, Become, Is, STypeOK
  <2>2. /\ Shared' = Shared \cup {h} /\ h \notin Shared /\ g \in Shared
        /\ Weak' = Weak /\ Owing' = Owing /\ Destroying' = Destroying
    BY <1>1 DEF CopyShared, Become, Is, STypeOK, Shared, Weak, Owing, Destroying
  <2>3. Counted'
    BY <1>1, <1>c, <2>2 DEF CopyShared, Counted
  <2>4. Stages'
    BY <1>1, <2>2 DEF CopyShared, Stages
  <2> QED BY <2>1, <2>3, <2>4
<1>2. ASSUME NEW h \in Handles, NEW g \in Handles, CopyWeak(h, g) PROVE SInv'
  <2>1. STypeOK'
    BY <1>2 DEF CopyWeak, Become, Is, STypeOK
  <2>2. /\ Weak' = Weak \cup {h} /\ h \notin Weak /\ (g \in Shared \/ g \in Weak)
        /\ Shared' = Shared /\ Owing' = Owing /\ Destroying' = Destroying
        /\ \A k \in Handles : hold'[k] = "dispose" <=> hold[k] = "dispose"
    BY <1>2 DEF CopyWeak, Become, Is, STypeOK, Shared, Weak, Owing, Destroying
  <2>3. Counted'
    BY <1>2, <1>c, <2>2 DEF CopyWeak, Counted
  <2>4. Stages'
    BY <1>2, <2>2 DEF CopyWeak, Stages
  <2> QED BY <2>1, <2>3, <2>4
<1>3. ASSUME NEW h \in Handles, Release(h) PROVE SInv'
  <2>0. h \in Shared /\ use_count_ \in Nat \ {0}
    BY <1>3, <1>c DEF Release, Is, Shared, Counted
  <2>1. STypeOK'
    BY <1>3, <2>0 DEF Release, Become, Is, STypeOK
  <2>2. Shared' = Shared \ {h} /\ Weak' = Weak /\ Destroying' = Destroying
    BY <1>3 DEF Release, Become, Is, STypeOK, Shared, Weak, Destroying
  <2>3. CASE use_count_ = 1
    <3>1. Shared = {h} /\ Owing = {} /\ Owing' = {h} /\ hold'[h] = "dispose"
      <4>1. Shared = {h} /\ Owing = {}
        BY <2>0, <2>3, <1>c DEF Counted, Stages
      <4>2. hold' = [hold EXCEPT ![h] = "dispose"]
        BY <1>3, <2>3 DEF Release, Become, LastUse
      <4> QED BY <4>1, <4>2 DEF STypeOK, Owing
    <3>2. Counted'
      BY <1>3, <1>c, <2>0, <2>2, <3>1 DEF Release, Counted
    <3>3. Stages'
      BY <1>3, <2>0, <2>2, <3>1 DEF Release, Stages
    <3> QED BY <2>1, <3>2, <3>3
  <2>4. CASE use_count_ # 1
    <3>1. Shared' # {} /\ Owing' = Owing /\ \A k \in Handles : hold'[k] # "dispose"
      <4>1. Shared # {h}
        BY <2>4, FS_Singleton DEF Counted
      <4>2. hold' = [hold EXCEPT ![h] = "empty"] /\ hold[h] = "shared"
        BY <1>3, <2>4 DEF Release, Become, LastUse, Is
      <4>3. Owing' = Owing
        BY <4>2 DEF STypeOK, Owing
      <4>4. \A k \in Handles : hold'[k] # "dispose"
        BY <2>0, <4>2, <4>3 DEF STypeOK, Owing, Stages
      <4> QED BY <2>0, <2>2, <4>1, <4>3, <4>4
    <3>2. Counted'
      BY <1>3, <1>c, <2>0, <2>2, <3>1 DEF Release, Counted
    <3>3. Stages'
      BY <1>3, <2>0, <2>2, <3>1 DEF Release, Stages
    <3> QED BY <2>1, <3>2, <3>3
  <2> QED BY <2>3, <2>4
<1>4. ASSUME NEW h \in Handles, Dispose(h) PROVE SInv'
  <2>1. STypeOK'
    BY <1>4 DEF Dispose, Become, Is, STypeOK, AfterDispose
  <2>2. /\ Shared' = Shared /\ Weak' = Weak /\ Owing' = Owing /\ Destroying' = Destroying
        /\ h \in Owing
    BY <1>4 DEF Dispose, Become, Is, STypeOK, AfterDispose, Shared, Weak, Owing, Destroying
  <2>3. \A k \in Handles : hold'[k] # "dispose"
    BY <1>4, <2>2 DEF Dispose, Become, Is, STypeOK, AfterDispose, Owing, Stages
  <2>4. Counted'
    BY <1>4, <2>2 DEF Dispose, Counted
  <2>5. Stages'
    BY <1>4, <2>2, <2>3 DEF Dispose, Is, Stages
  <2> QED BY <2>1, <2>4, <2>5
<1>5. ASSUME NEW h \in Handles, WeakRelease(h) PROVE SInv'
  <2>0. h \in Weak \/ h \in Owing
    BY <1>5 DEF WeakRelease, Is, Weak, Owing
  <2>1. weak_count_ \in Nat \ {0}
    BY <2>0, <1>c DEF Counted
  <2>2. STypeOK'
    BY <1>5, <2>1 DEF WeakRelease, Become, Is, STypeOK
  <2>3. /\ Shared' = Shared /\ Weak' = Weak \ {h} /\ Owing' = Owing \ {h}
        /\ \A k \in Handles : hold'[k] = "dispose" <=> hold[k] = "dispose"
        /\ Destroying' = IF weak_count_ = 1 THEN Destroying \cup {h} ELSE Destroying
    BY <1>5 DEF WeakRelease, Become, Is, STypeOK, Shared, Weak, Owing, Destroying
  <2>4. CASE hold[h] = "weak"
    <3>1. h \in Weak /\ h \notin Owing /\ Owing' = Owing
      BY <1>5, <2>3, <2>4 DEF Weak, Owing
    <3>2. Counted'
      BY <1>5, <1>c, <2>3, <3>1 DEF WeakRelease, Counted
    <3>3. weak_count_ = 1 => Shared = {} /\ Owing = {} /\ Weak = {h}
      BY <1>c, <3>1 DEF Counted
    <3>4. weak_count_ # 1 => Shared # {} \/ Owing # {} \/ Weak' # {}
      BY <1>c, <2>1, <2>3, <3>1 DEF Counted
    <3>5. Stages'
      BY <1>5, <2>3, <3>1, <3>3, <3>4 DEF WeakRelease, Stages
    <3> QED BY <2>2, <3>2, <3>5
  <2>5. CASE hold[h] = "weakrelease"
    <3>1. /\ h \notin Weak /\ Weak' = Weak /\ Owing = {h} /\ Owing' = {}
          /\ Shared = {} /\ Destroying = {}
      BY <2>0, <2>3, <2>5, <1>s DEF Weak, Owing, Stages
    <3>2. Counted'
      <4>1. weak_count_ = Cardinality(Weak) + 1
        BY <3>1 DEF Counted
      <4>2. Shared' = {} /\ Owing' = {} /\ Weak' = Weak /\ Shared' = Shared
        BY <2>3, <3>1
      <4>3. use_count_' = use_count_ /\ weak_count_' = Cardinality(Weak) + 0
        BY <1>5, <1>c, <4>1 DEF WeakRelease
      <4> QED BY <4>2, <4>3 DEF Counted
    <3>3. weak_count_ = 1 <=> Weak = {}
      BY <1>c, <3>1 DEF Counted
    <3>4. Stages'
      BY <1>5, <2>3, <3>1, <3>3 DEF WeakRelease, Stages
    <3> QED BY <2>2, <3>2, <3>4
  <2> QED BY <1>5, <2>4, <2>5 DEF WeakRelease, Is
<1>6. ASSUME NEW h \in Handles, Destroy(h) PROVE SInv'
  <2>1. STypeOK'
    BY <1>6 DEF Destroy, Become, Is, STypeOK
  <2>2. /\ Shared' = Shared /\ Weak' = Weak /\ Owing' = Owing /\ Destroying' = Destroying \ {h}
        /\ h \in Destroying
        /\ \A k \in Handles : hold'[k] = "dispose" <=> hold[k] = "dispose"
    BY <1>6 DEF Destroy, Become, Is, STypeOK, Shared, Weak, Owing, Destroying
  <2>3. Counted'
    BY <1>6, <2>2 DEF Destroy, Counted
  <2>4. Stages'
    BY <1>6, <2>2 DEF Destroy, Stages
  <2> QED BY <2>1, <2>3, <2>4
<1>7. ASSUME NEW h \in Handles, LockRead(h) \/ LockFails(h) PROVE SInv'
  <2>1. STypeOK'
    BY <1>7 DEF LockRead, LockFails, Become, Is, STypeOK
  <2>2. /\ Shared' = Shared /\ Weak' = Weak /\ Owing' = Owing /\ Destroying' = Destroying
        /\ \A k \in Handles : hold'[k] = "dispose" <=> hold[k] = "dispose"
    BY <1>7 DEF LockRead, LockFails, Become, Is, STypeOK, Shared, Weak, Owing, Destroying
  <2>3. Counted' /\ Stages'
    BY <1>7, <2>2 DEF LockRead, LockFails, Counted, Stages
  <2> QED BY <2>1, <2>3
<1>8. ASSUME NEW h \in Handles, NEW g \in Handles, LockCas(h, g) PROVE SInv'
  <2>1. STypeOK'
    BY <1>8 DEF LockCas, CasMatches, Is, STypeOK
  <2>2. CASE CasMatches(h)
    <3>1. /\ Shared' = Shared \cup {g} /\ g \notin Shared
          /\ Weak' = Weak /\ Owing' = Owing /\ Destroying' = Destroying
          /\ \A k \in Handles : hold'[k] = "dispose" <=> hold[k] = "dispose"
      BY <1>8, <2>2 DEF LockCas, Is, STypeOK, Shared, Weak, Owing, Destroying
    <3>2. Shared # {} /\ use_count_' = use_count_ + 1
      BY <1>8, <2>2, <1>c DEF LockCas, GiveUp, CasMatches, Counted
    <3>3. Counted'
      BY <1>8, <1>c, <3>1, <3>2 DEF LockCas, Counted
    <3>4. Stages'
      BY <1>8, <3>1, <3>2 DEF LockCas, Stages
    <3> QED BY <2>1, <3>3, <3>4
  <2>3. CASE ~CasMatches(h)
    <3>1. UNCHANGED <<use_count_, weak_count_, disposed, destroyed, hold>>
      BY <1>8, <2>3 DEF LockCas
    <3>2. Counted' /\ Stages'
      BY <3>1 DEF Counted, Stages, Shared, Weak, Owing, Destroying
    <3> QED BY <2>1, <3>2
  <2> QED BY <2>2, <2>3
<1>9. CASE UNCHANGED svars
  BY <1>9 DEF svars, STypeOK, Counted, Stages, Shared, Weak, Owing, Destroying
<1> QED
  BY <1>1, <1>2, <1>3, <1>4, <1>5, <1>6, <1>7, <1>8, <1>9 DEF SNext

LEMMA SInvariant == SSpec => []SInv
BY InitSInv, StepSInv, PTL DEF SSpec

\* For any number of handles and any interleaving of their copies, releases
\* and locks: both counts are right, the object is disposed of once and never
\* while a shared_ptr exists, the count block goes once, last, and both go.
THEOREM CountsAndLives == SSpec => []HandlesCounted
<1>1. SInv => HandlesCounted
  <2> SUFFICES ASSUME SInv PROVE HandlesCounted
    OBVIOUS
  <2> USE DEF SInv
  <2>1. CountsMatch
    BY DEF Counted, CountsMatch, Owing
  <2>2. NoResurrection
    BY DEF Stages, NoResurrection
  <2>3. BlockOutlivesHandles
    <3>1. ASSUME destroyed = 1, NEW h \in Handles PROVE hold[h] = "empty"
      BY <3>1 DEF Stages, STypeOK, Shared, Weak, Owing, Destroying
    <3>2. destroyed <= 1
      BY DEF Stages
    <3>3. destroyed = 1 => disposed = 1
      BY DEF Stages, Owing
    <3> QED BY <3>1, <3>2, <3>3 DEF BlockOutlivesHandles
  <2>4. NothingLeaks
    BY DEF NothingLeaks, Stages, Shared, Weak, Owing, Destroying
  <2> QED BY <2>1, <2>2, <2>3, <2>4 DEF HandlesCounted
<1> QED BY <1>1, SInvariant, PTL
-----------------------------------------------------------------------------
(* NoLockWorkPool.  In the first round of the ring an entry has one poster *)
(* and one worker.  A task is in one place where somebody can still take it*)
(* (OncePlaced): the copy that Put leaves in the entry is out of reach.  A *)
(* worker that registered is owed one exchange with its slot and one       *)
(* notification (Owed): until then it waits, so its slot is empty.         *)

PosterPlaces == {"post", "put", "readworker", "readtask", "exchange", "notify", "done"}
WorkerPlaces == {"loop", "ended", "pop", "run", "entry", "register", "lock", "wait"}
TaskEntries == [_task : NLTasks \cup {NoTask}, worker : NLWorkers \cup {NoWorker}]
USE DEF PosterPlaces, WorkerPlaces, TaskEntries

\* The types, always.
NLTypes ==
  /\ NLTypeOK
  /\ lpc \in [NLWorkers -> WorkerPlaces]
  /\ isruning \in [NLWorkers -> BOOLEAN]
  /\ lidx \in [NLWorkers -> Entries] /\ pidx \in [NLTasks -> Entries]
  /\ ppc \in [NLTasks -> PosterPlaces]
  /\ pwake \in [NLTasks -> Seq(NLWorkers)]
  /\ runs \in [NLTasks -> Nat] /\ interrupts \in Nat
  /\ \A p \in NLTasks : ppc[p] \in {"readtask", "exchange"} => pwake[p] # <<>>

\* In the first round an index is given out once.
AtEntry(p) == ppc[p] \in {"put", "readworker", "readtask"}
OwnPoster ==
  /\ \A p \in NLTasks : AtEntry(p) => pidx[p] < producer_id
  /\ \A p, q \in NLTasks : AtEntry(p) /\ AtEntry(q) /\ pidx[p] = pidx[q] => p = q

Popping(w) == lpc[w] \in {"entry", "register"}
OwnWorker ==
  /\ \A w \in NLWorkers : Popping(w) => lidx[w] < cusume_id
  /\ \A v, w \in NLWorkers : Popping(v) /\ Popping(w) /\ lidx[v] = lidx[w] => v = w

\* No worker has been at the entry i; then none is registered there.
Unpopped(i) == i >= cusume_id \/ \E w \in NLWorkers : lpc[w] = "entry" /\ lidx[w] = i
Reading(i) == \E p \in NLTasks : ppc[p] \in {"readworker", "readtask"} /\ pidx[p] = i

WorkerAfterPop ==
  /\ \A i \in Entries : Unpopped(i) => task_list[i].worker = NoWorker
  /\ \A p \in NLTasks : ppc[p] = "readtask" => ~Unpopped(pidx[p])

\* Where a task is and can be taken from.
Kinds == {"poster", "entry", "slot", "worker", "done"}
Has(kind, x, t) ==
  \/ kind = "poster" /\ x \in NLTasks /\ ppc[x] \in {"post", "put", "exchange"} /\ ptask[x] = t
  \/ kind = "entry" /\ x \in Entries /\ task_list[x]._task = t /\ (Unpopped(x) \/ Reading(x))
  \/ kind = "slot" /\ x \in NLWorkers /\ slot[x] = t
  \/ kind = "worker" /\ x \in NLWorkers /\ ltask[x] = t
  \/ kind = "done" /\ x = 0 /\ runs[t] # 0

OncePlaced ==
  \A t \in NLTasks :
    /\ \A k, l \in Kinds : \A x, y : Has(k, x, t) /\ Has(l, y, t) => k = l /\ x = y
    /\ runs[t] <= 1

\* No invariant once an index has gone round: then two posters may be at one entry.
FirstRoundInv == FirstRound => OwnPoster /\ OwnWorker /\ WorkerAfterPop /\ OncePlaced

\* An entry that its poster has not looked at, or that poster until it has
\* notified, owes the registered worker.
Unread(i) == i >= producer_id \/ \E p \in NLTasks : ppc[p] \in {"put", "readworker"} /\ pidx[p] = i
Owes(kind, x, w) ==
  \/ kind = "entry" /\ x \in Entries /\ Unread(x) /\ task_list[x].worker = w
  \/ kind = "poster" /\ x \in NLTasks /\ pwake[x] # <<>> /\ Head(pwake[x]) = w

OwedTo(w) ==
  /\ \A k, l \in {"entry", "poster"} : \A x, y : Owes(k, x, w) /\ Owes(l, y, w) => k = l /\ x = y
  /\ \A k \in {"entry", "poster"} : \A x : Owes(k, x, w) =>
       /\ lpc[w] \in {"lock", "wait", "ended"} \/ (lpc[w] = "loop" /\ ~isruning[w])
       /\ (k = "poster" /\ ppc[x] = "notify") \/ slot[w] = NoTask
  /\ lpc[w] \in {"pop", "entry", "register"} => slot[w] = NoTask

\* What holds of each worker as long as no wait was interrupted.
Owed == \A w \in NLWorkers : OwedTo(w)

\* A poster has a worker to wake only between the entry and the notification.
OneToWake ==
  \A p \in NLTasks : /\ ppc[p] \in {"post", "put", "readworker", "done"} => pwake[p] = <<>>
                     /\ Len(pwake[p]) <= 1

NotInterruptedInv == FirstRound /\ interrupts = 0 => Owed /\ OneToWake

NLInv == NLTypes /\ FirstRoundInv /\ NotInterruptedInv
-----------------------------------------------------------------------------
(* What the steps change.                                                  *)

LEMMA RingIndex == \A n \in Nat : /\ n % Capacity \in Entries
                                  /\ n < Capacity => n % Capacity = n /\ n \in Entries
<1> SUFFICES ASSUME NEW n \in Nat
             PROVE  n % Capacity \in Entries /\ (n < Capacity => n % Capacity = n /\ n \in Entries)
  OBVIOUS
<1>1. Capacity \in Nat \ {0}
  BY NoLockWorkPoolAssumption
<1> HIDE NoLockWorkPoolAssumption
<1>2. n % Capacity \in 0..(Capacity - 1)
  BY <1>1
<1>3. ASSUME n < Capacity PROVE n % Capacity = n /\ n \in 0..(Capacity - 1)
  <2>1. n \in 0..(Capacity - 1)
    BY <1>1, <1>3
  <2> QED BY <1>1, <2>1
<1> QED BY <1>2, <1>3 DEF Entries

\* The first round is over for good.
LEMMA StillFirstRound ==
  NLTypes /\ [NLNext]_nlvars =>
    /\ FirstRound' => FirstRound
    /\ interrupts' = 0 => interrupts = 0
<1> SUFFICES ASSUME NLTypes, [NLNext]_nlvars
             PROVE  (FirstRound' => FirstRound) /\ (interrupts' = 0 => interrupts = 0)
  OBVIOUS
<1>1. producer_id \in Nat /\ cusume_id \in Nat /\ interrupts \in Nat /\ Capacity \in Nat
  BY NoLockWorkPoolAssumption DEF NLTypes, NLTypeOK
<1>2. /\ producer_id' = producer_id \/ producer_id' = producer_id + 1
      /\ cusume_id' = cusume_id \/ cusume_id' = cusume_id + 1
      /\ interrupts' = interrupts \/ interrupts' = interrupts + 1
  <2>1. ASSUME NEW p \in NLTasks, PosterStep(p) PROVE <1>2!:
    BY <2>1 DEF PosterStep, NLPost, PutTask, ReadWorker, ReadTask, ExchangeSlot, Notify
  <2>2. ASSUME NEW w \in NLWorkers, WorkerStep(w) \/ InterruptedWait(w) \/ Stop(w) PROVE <1>2!:
    BY <2>2 DEF WorkerStep, TakeOwn, PopIndex, PopEntry, Register, Wait, Run, InterruptedWait, Stop
  <2>3. CASE UNCHANGED nlvars
    BY <2>3 DEF nlvars
  <2> QED BY <2>1, <2>2, <2>3 DEF NLNext
<1> QED BY <1>1, <1>2 DEF FirstRound

LEMMA PostFacts ==
  ASSUME NLTypes, NEW p \in NLTasks, NLPost(p)
  PROVE  /\ ppc[p] = "post" /\ ppc'[p] = "put" /\ producer_id' = producer_id + 1
         /\ pidx'[p] \in Entries
         /\ FirstRound' => pidx'[p] = producer_id /\ producer_id \in Entries
         /\ \A q \in NLTasks \ {p} : ppc'[q] = ppc[q] /\ pidx'[q] = pidx[q]
         /\ ppc' \in [NLTasks -> PosterPlaces]
         /\ pidx' \in [NLTasks -> Entries]
         /\ UNCHANGED <<task_list, cusume_id, slot, isruning, lpc, ltask, lidx, ptask, pwake, runs, interrupts>>
<1>1. ppc \in [NLTasks -> PosterPlaces]
      /\ pidx \in [NLTasks -> Entries] /\ producer_id \in Nat
  BY DEF NLTypes, NLTypeOK
<1>2. pidx' = [pidx EXCEPT ![p] = producer_id % Capacity] /\ ppc' = [ppc EXCEPT ![p] = "put"]
      /\ ppc[p] = "post" /\ producer_id' = producer_id + 1
      /\ UNCHANGED <<task_list, cusume_id, slot, isruning, lpc, ltask, lidx, ptask, pwake, runs, interrupts>>
  BY DEF NLPost
<1>3. producer_id % Capacity \in Entries
  BY <1>1, RingIndex
<1>4. FirstRound' => producer_id % Capacity = producer_id /\ producer_id \in Entries
  <2>1. Capacity \in Nat
    BY NoLockWorkPoolAssumption
  <2>2. FirstRound' => producer_id < Capacity
    BY <1>1, <1>2, <2>1 DEF FirstRound
  <2> QED BY <1>1, <2>2, RingIndex
<1> QED BY <1>1, <1>2, <1>3, <1>4

LEMMA PutFacts ==
  ASSUME NLTypes, NEW p \in NLTasks, PutTask(p)
  PROVE  /\ ppc[p] = "put" /\ ppc'[p] = "readworker" /\ ptask'[p] = NoTask
         /\ task_list'[pidx[p]]._task = ptask[p]
         /\ \A i \in Entries \ {pidx[p]} : task_list'[i]._task = task_list[i]._task
         /\ \A i \in Entries : task_list'[i].worker = task_list[i].worker
         /\ \A q \in NLTasks \ {p} : ppc'[q] = ppc[q] /\ ptask'[q] = ptask[q]
         /\ task_list' \in [Entries -> TaskEntries]
         /\ ppc' \in [NLTasks -> PosterPlaces]
         /\ ptask' \in [NLTasks -> NLTasks \cup {NoTask}]
         /\ UNCHANGED <<producer_id, cusume_id, slot, isruning, lpc, ltask, lidx, pidx, pwake, runs, interrupts>>
<1>1. /\ ppc \in [NLTasks -> PosterPlaces]
      /\ pidx \in [NLTasks -> Entries] /\ ptask \in [NLTasks -> NLTasks \cup {NoTask}]
      /\ task_list \in [Entries -> TaskEntries]
  BY DEF NLTypes, NLTypeOK
<1>2. /\ task_list' = [task_list EXCEPT ![pidx[p]]._task = ptask[p]]
      /\ ppc' = [ppc EXCEPT ![p] = "readworker"] /\ ppc[p] = "put"
      /\ ptask' = [ptask EXCEPT ![p] = NoTask]
      /\ UNCHANGED <<producer_id, cusume_id, slot, isruning, lpc, ltask, lidx, pidx, pwake, runs, interrupts>>
  BY DEF PutTask
<1> QED BY <1>1, <1>2

LEMMA ReadWorkerFacts ==
  ASSUME NLTypes, NEW p \in NLTasks, ReadWorker(p)
  PROVE  /\ ppc[p] = "readworker"
         /\ \/ task_list[pidx[p]].worker = NoWorker /\ ppc'[p] = "notify" /\ pwake' = pwake
            \/ /\ task_list[pidx[p]].worker # NoWorker /\ ppc'[p] = "readtask"
               /\ task_list[pidx[p]].worker \in NLWorkers
               /\ pwake'[p] = <<task_list[pidx[p]].worker>> \o pwake[p]
               /\ pwake'[p] # <<>> /\ Head(pwake'[p]) = task_list[pidx[p]].worker
         /\ \A q \in NLTasks \ {p} : ppc'[q] = ppc[q] /\ pwake'[q] = pwake[q]
         /\ ppc' \in [NLTasks -> PosterPlaces]
         /\ pwake' \in [NLTasks -> Seq(NLWorkers)]
         /\ UNCHANGED <<task_list, producer_id, cusume_id, slot, isruning, lpc, ltask, lidx, ptask, pidx, runs, interrupts>>
<1>1. /\ ppc \in [NLTasks -> PosterPlaces]
      /\ pidx \in [NLTasks -> Entries] /\ pwake \in [NLTasks -> Seq(NLWorkers)]
      /\ task_list \in [Entries -> TaskEntries]
  BY DEF NLTypes, NLTypeOK
<1> DEFINE w == task_list[pidx[p]].worker
<1>2. ppc[p] = "readworker"
      /\ UNCHANGED <<task_list, producer_id, cusume_id, slot, isruning, lpc, ltask, lidx, ptask, pidx, runs, interrupts>>
  BY DEF ReadWorker
<1>3. w \in NLWorkers \cup {NoWorker}
  BY <1>1
<1>4. CASE w = NoWorker
  <2>1. pwake' = pwake /\ ppc' = [ppc EXCEPT ![p] = "notify"]
    BY <1>4 DEF ReadWorker, Registered
  <2> QED BY <1>1, <1>2, <1>4, <2>1
<1>5. CASE w # NoWorker
  <2>1. pwake' = [pwake EXCEPT ![p] = <<w>> \o @] /\ ppc' = [ppc EXCEPT ![p] = "readtask"]
    BY <1>5 DEF ReadWorker, Registered
  <2>2. w \in NLWorkers /\ pwake[p] \in Seq(NLWorkers)
    BY <1>1, <1>3, <1>5
  <2> HIDE DEF w
  <2>3. <<w>> \o pwake[p] \in Seq(NLWorkers) /\ <<w>> \o pwake[p] # <<>> /\ Head(<<w>> \o pwake[p]) = w
    <3>1. <<w>> \in Seq(NLWorkers) /\ Len(<<w>>) = 1 /\ <<w>>[1] = w
      BY <2>2
    <3>2. /\ <<w>> \o pwake[p] \in Seq(NLWorkers)
          /\ Len(<<w>> \o pwake[p]) = Len(<<w>>) + Len(pwake[p])
          /\ \A i \in 1..Len(<<w>>) + Len(pwake[p]) :
               (<<w>> \o pwake[p])[i] = IF i <= Len(<<w>>) THEN <<w>>[i] ELSE pwake[p][i - Len(<<w>>)]
      BY <2>2, <3>1, ConcatProperties
    <3>3. Len(pwake[p]) \in Nat
      BY <2>2, LenProperties
    <3>4. Len(<<w>> \o pwake[p]) # 0 /\ (<<w>> \o pwake[p])[1] = w
      <4>1. 1 \in 1..Len(<<w>>) + Len(pwake[p]) /\ 1 <= Len(<<w>>) /\ 1 + Len(pwake[p]) # 0
        BY <3>1, <3>3
      <4> QED BY <3>1, <3>2, <4>1
    <3>5. <<w>> \o pwake[p] # <<>>
      BY <3>4, EmptySeq
    <3> QED BY <3>2, <3>4, <3>5, HeadTailProperties
  <2>4. pwake' \in [NLTasks -> Seq(NLWorkers)] /\ pwake'[p] = <<w>> \o pwake[p]
        /\ \A q \in NLTasks \ {p} : pwake'[q] = pwake[q]
    BY <1>1, <2>1, <2>3
  <2>5. /\ ppc' \in [NLTasks -> PosterPlaces]
        /\ ppc'[p] = "readtask" /\ \A q \in NLTasks \ {p} : ppc'[q] = ppc[q]
    BY <1>1, <2>1
  <2> QED BY <1>2, <1>5, <2>2, <2>3, <2>4, <2>5 DEF w
<1> QED BY <1>4, <1>5

LEMMA ReadTaskFacts ==
  ASSUME NLTypes, NEW p \in NLTasks, ReadTask(p)
  PROVE  /\ ppc[p] = "readtask" /\ ppc'[p] = "exchange" /\ ptask'[p] = task_list[pidx[p]]._task
         /\ \A q \in NLTasks \ {p} : ppc'[q] = ppc[q] /\ ptask'[q] = ptask[q]
         /\ ppc' \in [NLTasks -> PosterPlaces]
         /\ ptask' \in [NLTasks -> NLTasks \cup {NoTask}]
         /\ UNCHANGED <<task_list, producer_id, cusume_id, slot, isruning, lpc, ltask, lidx, pidx, pwake, runs, interrupts>>
<1>1. /\ ppc \in [NLTasks -> PosterPlaces]
      /\ pidx \in [NLTasks -> Entries] /\ ptask \in [NLTasks -> NLTasks \cup {NoTask}]
      /\ task_list \in [Entries -> TaskEntries]
  BY DEF NLTypes, NLTypeOK
<1>2. task_list[pidx[p]]._task \in NLTasks \cup {NoTask}
  BY <1>1
<1>3. /\ ppc' = [ppc EXCEPT ![p] = "exchange"] /\ ppc[p] = "readtask"
      /\ ptask' = [ptask EXCEPT ![p] = task_list[pidx[p]]._task]
      /\ UNCHANGED <<task_list, producer_id, cusume_id, slot, isruning, lpc, ltask, lidx, pidx, pwake, runs, interrupts>>
  BY DEF ReadTask
<1> QED BY <1>1, <1>2, <1>3

LEMMA ExchangeFacts ==
  ASSUME NLTypes, NEW p \in NLTasks, ExchangeSlot(p)
  PROVE  LET w == Head(pwake[p])
         IN  /\ w \in NLWorkers /\ pwake[p] # <<>> /\ ppc[p] = "exchange"
             /\ slot'[w] = ptask[p] /\ ptask'[p] = slot[w]
             /\ ppc'[p] = IF slot[w] = NoTask THEN "notify" ELSE "post"
             /\ \A v \in NLWorkers \ {w} : slot'[v] = slot[v]
             /\ \A q \in NLTasks \ {p} : ppc'[q] = ppc[q] /\ ptask'[q] = ptask[q]
             /\ slot' \in [NLWorkers -> NLTasks \cup {NoTask}]
             /\ ppc' \in [NLTasks -> PosterPlaces]
             /\ ptask' \in [NLTasks -> NLTasks \cup {NoTask}]
             /\ UNCHANGED <<task_list, producer_id, cusume_id, isruning, lpc, ltask, lidx, pidx, pwake, runs, interrupts>>
<1> DEFINE w == Head(pwake[p])
<1>1. /\ ppc \in [NLTasks -> PosterPlaces]
      /\ ptask \in [NLTasks -> NLTasks \cup {NoTask}] /\ slot \in [NLWorkers -> NLTasks \cup {NoTask}]
      /\ pwake[p] \in Seq(NLWorkers)
  BY DEF NLTypes, NLTypeOK
<1>2. /\ slot' = [slot EXCEPT ![w] = ptask[p]] /\ ptask' = [ptask EXCEPT ![p] = slot[w]]
      /\ ppc' = [ppc EXCEPT ![p] = IF slot[w] = NoTask THEN "notify" ELSE "post"] /\ ppc[p] = "exchange"
      /\ UNCHANGED <<task_list, producer_id, cusume_id, isruning, lpc, ltask, lidx, pidx, pwake, runs, interrupts>>
  BY DEF ExchangeSlot
<1>3. pwake[p] # <<>>
  BY <1>2 DEF NLTypes
<1>4. w \in NLWorkers
  BY <1>1, <1>3, HeadTailProperties
<1> HIDE DEF w
<1>5. /\ slot' \in [NLWorkers -> NLTasks \cup {NoTask}] /\ slot'[w] = ptask[p]
      /\ \A v \in NLWorkers \ {w} : slot'[v] = slot[v]
  BY <1>1, <1>2, <1>4
<1>6. /\ ptask' \in [NLTasks -> NLTasks \cup {NoTask}] /\ ptask'[p] = slot[w]
      /\ \A q \in NLTasks \ {p} : ptask'[q] = ptask[q]
  BY <1>1, <1>2, <1>4
<1>7. /\ ppc' \in [NLTasks -> PosterPlaces]
      /\ ppc'[p] = IF slot[w] = NoTask THEN "notify" ELSE "post"
      /\ \A q \in NLTasks \ {p} : ppc'[q] = ppc[q]
  BY <1>1, <1>2
<1> QED BY <1>2, <1>3, <1>4, <1>5, <1>6, <1>7 DEF w

LEMMA NotifyFacts ==
  ASSUME NLTypes, NEW p \in NLTasks, Notify(p)
  PROVE  /\ ppc[p] = "notify" /\ ppc' \in [NLTasks -> PosterPlaces]
         /\ \/ pwake[p] = <<>> /\ ppc'[p] = "done" /\ UNCHANGED <<lpc, pwake>>
            \/ /\ pwake[p] # <<>> /\ Head(pwake[p]) \in NLWorkers /\ ppc' = ppc
               /\ \A w \in NLWorkers : \/ lpc'[w] = lpc[w]
                                       \/ w = Head(pwake[p]) /\ lpc[w] = "wait" /\ lpc'[w] = "loop"
               /\ pwake'[p] = Tail(pwake[p]) /\ Len(pwake'[p]) = Len(pwake[p]) - 1
         /\ \A q \in NLTasks \ {p} : ppc'[q] = ppc[q] /\ pwake'[q] = pwake[q]
         /\ pwake' \in [NLTasks -> Seq(NLWorkers)]
         /\ lpc' \in [NLWorkers -> WorkerPlaces]
         /\ UNCHANGED <<task_list, producer_id, cusume_id, slot, isruning, ltask, lidx, ptask, pidx, runs, interrupts>>
<1>1. /\ ppc \in [NLTasks -> PosterPlaces]
      /\ lpc \in [NLWorkers -> WorkerPlaces]
      /\ pwake \in [NLTasks -> Seq(NLWorkers)]
  BY DEF NLTypes
<1>2. ppc[p] = "notify" /\ UNCHANGED <<task_list, producer_id, cusume_id, slot, isruning, ltask, lidx, ptask, pidx, runs, interrupts>>
  BY DEF Notify
<1>3. CASE pwake[p] = <<>>
  <2>1. ppc' = [ppc EXCEPT ![p] = "done"] /\ UNCHANGED <<lpc, pwake>>
    BY <1>3 DEF Notify
  <2> QED BY <1>1, <1>2, <1>3, <2>1
<1>4. CASE pwake[p] # <<>>
  <2>1. /\ lpc' = [lpc EXCEPT ![Head(pwake[p])] = WokenBy(Head(pwake[p]))]
        /\ pwake' = [pwake EXCEPT ![p] = Tail(@)] /\ ppc' = ppc
    BY <1>4 DEF Notify
  <2>2. /\ Head(pwake[p]) \in NLWorkers /\ Tail(pwake[p]) \in Seq(NLWorkers)
        /\ Len(Tail(pwake[p])) = Len(pwake[p]) - 1
    BY <1>1, <1>4, HeadTailProperties
  <2>3. /\ pwake' \in [NLTasks -> Seq(NLWorkers)] /\ pwake'[p] = Tail(pwake[p])
        /\ \A q \in NLTasks \ {p} : pwake'[q] = pwake[q]
    BY <1>1, <2>1, <2>2
  <2> DEFINE v == Head(pwake[p])
  <2>4. v \in NLWorkers /\ lpc' = [lpc EXCEPT ![v] = IF lpc[v] = "wait" THEN "loop" ELSE lpc[v]]
    BY <2>1, <2>2 DEF WokenBy
  <2> HIDE DEF v
  <2>5. /\ lpc' \in [NLWorkers -> WorkerPlaces]
        /\ \A w \in NLWorkers : lpc'[w] = lpc[w] \/ (w = v /\ lpc[w] = "wait" /\ lpc'[w] = "loop")
    BY <1>1, <2>4
  <2> QED BY <1>1, <1>2, <1>4, <2>1, <2>2, <2>3, <2>5 DEF v
<1> QED BY <1>3, <1>4

LEMMA TakeOwnFacts ==
  ASSUME NLTypes, NEW w \in NLWorkers, TakeOwn(w)
  PROVE  /\ lpc[w] = "loop"
         /\ \/ ~isruning[w] /\ lpc'[w] = "ended" /\ UNCHANGED <<slot, ltask>>
            \/ /\ isruning[w] /\ ltask'[w] = slot[w] /\ slot'[w] = NoTask
               /\ lpc'[w] = IF slot[w] = NoTask THEN "pop" ELSE "run"
         /\ \A v \in NLWorkers \ {w} : lpc'[v] = lpc[v] /\ slot'[v] = slot[v] /\ ltask'[v] = ltask[v]
         /\ lpc' \in [NLWorkers -> WorkerPlaces]
         /\ slot' \in [NLWorkers -> NLTasks \cup {NoTask}] /\ ltask' \in [NLWorkers -> NLTasks \cup {NoTask}]
         /\ UNCHANGED <<task_list, producer_id, cusume_id, isruning, lidx, ppc, ptask, pidx, pwake, runs, interrupts>>
<1>1. /\ lpc \in [NLWorkers -> WorkerPlaces]
      /\ slot \in [NLWorkers -> NLTasks \cup {NoTask}] /\ ltask \in [NLWorkers -> NLTasks \cup {NoTask}]
  BY DEF NLTypes, NLTypeOK
<1>2. lpc[w] = "loop" /\ UNCHANGED <<task_list, producer_id, cusume_id, isruning, lidx, ppc, ptask, pidx, pwake, runs, interrupts>>
  BY DEF TakeOwn, nlpost
<1>3. CASE ~isruning[w]
  <2>1. lpc' = [lpc EXCEPT ![w] = "ended"] /\ UNCHANGED <<slot, ltask>>
    BY <1>3 DEF TakeOwn
  <2> QED BY <1>1, <1>2, <1>3, <2>1
<1>4. CASE isruning[w]
  <2>1. /\ ltask' = [ltask EXCEPT ![w] = slot[w]] /\ slot' = [slot EXCEPT ![w] = NoTask]
        /\ lpc' = [lpc EXCEPT ![w] = IF slot[w] = NoTask THEN "pop" ELSE "run"]
    BY <1>4 DEF TakeOwn
  <2> QED BY <1>1, <1>2, <1>4, <2>1
<1> QED BY <1>3, <1>4

LEMMA PopIndexFacts ==
  ASSUME NLTypes, NEW w \in NLWorkers, PopIndex(w)
  PROVE  /\ lpc[w] = "pop" /\ lpc'[w] = "entry" /\ cusume_id' = cusume_id + 1
         /\ FirstRound' => lidx'[w] = cusume_id /\ cusume_id \in Entries
         /\ \A v \in NLWorkers \ {w} : lpc'[v] = lpc[v] /\ lidx'[v] = lidx[v]
         /\ lpc' \in [NLWorkers -> WorkerPlaces]
         /\ lidx' \in [NLWorkers -> Entries]
         /\ UNCHANGED <<task_list, producer_id, slot, isruning, ltask, ppc, ptask, pidx, pwake, runs, interrupts>>
<1>1. /\ lpc \in [NLWorkers -> WorkerPlaces]
      /\ lidx \in [NLWorkers -> Entries] /\ cusume_id \in Nat
  BY DEF NLTypes, NLTypeOK
<1>2. /\ lidx' = [lidx EXCEPT ![w] = cusume_id % Capacity] /\ lpc' = [lpc EXCEPT ![w] = "entry"]
      /\ lpc[w] = "pop" /\ cusume_id' = cusume_id + 1
      /\ UNCHANGED <<task_list, producer_id, slot, isruning, ltask, ppc, ptask, pidx, pwake, runs, interrupts>>
  BY DEF PopIndex, nlpost
<1>3. cusume_id % Capacity \in Entries
  BY <1>1, RingIndex
<1>4. FirstRound' => cusume_id % Capacity = cusume_id /\ cusume_id \in Entries
  <2>1. Capacity \in Nat
    BY NoLockWorkPoolAssumption
  <2>2. FirstRound' => cusume_id < Capacity
    BY <1>1, <1>2, <2>1 DEF FirstRound
  <2> QED BY <1>1, <2>2, RingIndex
<1> QED BY <1>1, <1>2, <1>3, <1>4

LEMMA PopEntryFacts ==
  ASSUME NLTypes, NEW w \in NLWorkers, PopEntry(w)
  PROVE  LET t == task_list[lidx[w]]._task
         IN  /\ lpc[w] = "entry" /\ ltask'[w] = t
             /\ \/ t = NoTask /\ lpc'[w] = "register" /\ lidx' = lidx
                \/ t # NoTask /\ lpc'[w] = "run"
             /\ \A v \in NLWorkers \ {w} : lpc'[v] = lpc[v] /\ lidx'[v] = lidx[v] /\ ltask'[v] = ltask[v]
             /\ task_list'[lidx[w]]._task = NoTask
             /\ \A i \in Entries \ {lidx[w]} : task_list'[i]._task = task_list[i]._task
             /\ \A i \in Entries : task_list'[i].worker = task_list[i].worker
             /\ lpc' \in [NLWorkers -> WorkerPlaces]
             /\ lidx' \in [NLWorkers -> Entries] /\ ltask' \in [NLWorkers -> NLTasks \cup {NoTask}]
             /\ task_list' \in [Entries -> TaskEntries]
             /\ UNCHANGED <<producer_id, cusume_id, slot, isruning, ppc, ptask, pidx, pwake, runs, interrupts>>
<1> DEFINE t == task_list[lidx[w]]._task
<1>1. /\ lpc \in [NLWorkers -> WorkerPlaces]
      /\ lidx \in [NLWorkers -> Entries] /\ ltask \in [NLWorkers -> NLTasks \cup {NoTask}]
      /\ task_list \in [Entries -> TaskEntries]
  BY DEF NLTypes, NLTypeOK
<1>2. /\ ltask' = [ltask EXCEPT ![w] = t] /\ lpc[w] = "entry"
      /\ lpc' = [lpc EXCEPT ![w] = IF t # NoTask THEN "run" ELSE "register"]
      /\ lidx' = [lidx EXCEPT ![w] = IF t # NoTask THEN 0 ELSE @]
      /\ task_list' = [task_list EXCEPT ![lidx[w]]._task = NoTask]
      /\ UNCHANGED <<producer_id, cusume_id, slot, isruning, ppc, ptask, pidx, pwake, runs, interrupts>>
  BY DEF PopEntry, GotTask, nlpost
<1>3. t \in NLTasks \cup {NoTask}
  BY <1>1
<1>4. /\ task_list'[lidx[w]]._task = NoTask
      /\ \A i \in Entries \ {lidx[w]} : task_list'[i]._task = task_list[i]._task
      /\ \A i \in Entries : task_list'[i].worker = task_list[i].worker
      /\ task_list' \in [Entries -> TaskEntries]
  BY <1>1, <1>2
<1> HIDE DEF t
<1>5. 0 \in Entries
  BY NoLockWorkPoolAssumption DEF Entries
<1>6. /\ lidx' \in [NLWorkers -> Entries] /\ (t = NoTask => lidx' = lidx)
      /\ \A v \in NLWorkers \ {w} : lidx'[v] = lidx[v]
  <2>1. CASE t = NoTask
    <3>1. lidx' = [lidx EXCEPT ![w] = lidx[w]]
      BY <1>2, <2>1
    <3> QED BY <1>1, <2>1, <3>1
  <2>2. CASE t # NoTask
    BY <1>1, <1>2, <1>5, <2>2
  <2> QED BY <2>1, <2>2
<1>7. /\ ltask' \in [NLWorkers -> NLTasks \cup {NoTask}] /\ ltask'[w] = t
      /\ \A v \in NLWorkers \ {w} : ltask'[v] = ltask[v]
  BY <1>1, <1>2, <1>3
<1>8. /\ lpc' \in [NLWorkers -> WorkerPlaces]
      /\ (t = NoTask /\ lpc'[w] = "register") \/ (t # NoTask /\ lpc'[w] = "run")
      /\ \A v \in NLWorkers \ {w} : lpc'[v] = lpc[v]
  BY <1>1, <1>2
<1> QED BY <1>2, <1>4, <1>6, <1>7, <1>8 DEF t

LEMMA RegisterFacts ==
  ASSUME NLTypes, NEW w \in NLWorkers, Register(w)
  PROVE  /\ lpc[w] = "register" /\ lpc'[w] = "lock"
         /\ task_list'[lidx[w]].worker = w
         /\ \A i \in Entries \ {lidx[w]} : task_list'[i].worker = task_list[i].worker
         /\ \A i \in Entries : task_list'[i]._task = task_list[i]._task
         /\ \A v \in NLWorkers \ {w} : lpc'[v] = lpc[v] /\ lidx'[v] = lidx[v]
         /\ lpc' \in [NLWorkers -> WorkerPlaces]
         /\ lidx' \in [NLWorkers -> Entries]
         /\ task_list' \in [Entries -> TaskEntries]
         /\ UNCHANGED <<producer_id, cusume_id, slot, isruning, ltask, ppc, ptask, pidx, pwake, runs, interrupts>>
<1>1. /\ lpc \in [NLWorkers -> WorkerPlaces]
      /\ lidx \in [NLWorkers -> Entries]
      /\ task_list \in [Entries -> TaskEntries]
  BY DEF NLTypes, NLTypeOK
<1>2. /\ task_list' = [task_list EXCEPT ![lidx[w]].worker = w] /\ lpc[w] = "register"
      /\ lidx' = [lidx EXCEPT ![w] = 0] /\ lpc' = [lpc EXCEPT ![w] = "lock"]
      /\ UNCHANGED <<producer_id, cusume_id, slot, isruning, ltask, ppc, ptask, pidx, pwake, runs, interrupts>>
  BY DEF Register, nlpost
<1>3. 0 \in Entries
  BY NoLockWorkPoolAssumption DEF Entries
<1> QED BY <1>1, <1>2, <1>3

\* The other steps of a worker.
LEMMA WorkerFacts ==
  ASSUME NLTypes, NEW w \in NLWorkers, Wait(w) \/ InterruptedWait(w) \/ Stop(w)
  PROVE  /\ \/ lpc[w] = "lock" /\ lpc'[w] = "wait" /\ UNCHANGED <<isruning, interrupts>>
            \/ lpc[w] = "wait" /\ lpc'[w] = "loop" /\ isruning' = isruning /\ interrupts' = interrupts + 1
            \/ /\ isruning[w] /\ ~isruning'[w] /\ interrupts' = interrupts
               /\ lpc'[w] = IF lpc[w] = "wait" THEN "loop" ELSE lpc[w]
         /\ \A v \in NLWorkers \ {w} : lpc'[v] = lpc[v] /\ isruning'[v] = isruning[v]
         /\ lpc' \in [NLWorkers -> WorkerPlaces]
         /\ isruning' \in [NLWorkers -> BOOLEAN]
         /\ UNCHANGED <<task_list, producer_id, cusume_id, slot, lidx, ltask, ppc, ptask, pidx, pwake, runs>>
<1>1. /\ lpc \in [NLWorkers -> WorkerPlaces]
      /\ isruning \in [NLWorkers -> BOOLEAN]
  BY DEF NLTypes
<1>2. CASE Wait(w)
  BY <1>1, <1>2 DEF Wait, nlpost
<1>3. CASE InterruptedWait(w)
  BY <1>1, <1>3 DEF InterruptedWait, nlpost
<1>4. CASE Stop(w)
  BY <1>1, <1>4 DEF Stop, WokenBy, nlpost
<1> QED BY <1>2, <1>3, <1>4

LEMMA RunFacts ==
  ASSUME NLTypes, NEW w \in NLWorkers, Run(w)
  PROVE  /\ lpc[w] = "run" /\ lpc'[w] = "loop" /\ ltask[w] \in NLTasks /\ ltask'[w] = NoTask
         /\ runs'[ltask[w]] = runs[ltask[w]] + 1
         /\ \A t \in NLTasks \ {ltask[w]} : runs'[t] = runs[t]
         /\ \A v \in NLWorkers \ {w} : lpc'[v] = lpc[v] /\ ltask'[v] = ltask[v]
         /\ lpc' \in [NLWorkers -> WorkerPlaces]
         /\ ltask' \in [NLWorkers -> NLTasks \cup {NoTask}] /\ runs' \in [NLTasks -> Nat]
         /\ UNCHANGED <<task_list, producer_id, cusume_id, slot, isruning, lidx, ppc, ptask, pidx, pwake, interrupts>>
<1>1. /\ lpc \in [NLWorkers -> WorkerPlaces]
      /\ ltask \in [NLWorkers -> NLTasks \cup {NoTask}] /\ runs \in [NLTasks -> Nat]
  BY DEF NLTypes, NLTypeOK
<1>2. /\ lpc[w] = "run" /\ lpc' = [lpc EXCEPT ![w] = "loop"] /\ ltask' = [ltask EXCEPT ![w] = NoTask]
      /\ runs' = [runs EXCEPT ![ltask[w]] = @ + 1]
      /\ UNCHANGED <<task_list, producer_id, cusume_id, slot, isruning, lidx, ppc, ptask, pidx, pwake, interrupts>>
  BY DEF Run, nlpost
<1>3. ltask[w] \in NLTasks
  BY <1>1, <1>2 DEF NLTypes, NLTypeOK
<1> QED BY <1>1, <1>2, <1>3

\* What an action leaves of the types.
LEMMA StepNLTypes == NLTypes /\ [NLNext]_nlvars => NLTypes'
<1> SUFFICES ASSUME NLTypes, [NLNext]_nlvars PROVE NLTypes'
  OBVIOUS
<1>t. /\ task_list \in [Entries -> TaskEntries]
      /\ slot \in [NLWorkers -> NLTasks \cup {NoTask}] /\ ltask \in [NLWorkers -> NLTasks \cup {NoTask}]
      /\ ptask \in [NLTasks -> NLTasks \cup {NoTask}]
      /\ producer_id \in Nat /\ cusume_id \in Nat
      /\ \A w \in NLWorkers : lpc[w] = "run" => ltask[w] # NoTask
      /\ lpc \in [NLWorkers -> WorkerPlaces]
      /\ isruning \in [NLWorkers -> BOOLEAN]
      /\ lidx \in [NLWorkers -> Entries] /\ pidx \in [NLTasks -> Entries]
      /\ ppc \in [NLTasks -> PosterPlaces]
      /\ pwake \in [NLTasks -> Seq(NLWorkers)]
      /\ runs \in [NLTasks -> Nat] /\ interrupts \in Nat
      /\ \A p \in NLTasks : ppc[p] \in {"readtask", "exchange"} => pwake[p] # <<>>
  BY DEF NLTypes, NLTypeOK
<1> DEFINE Runners == \A w \in NLWorkers : lpc[w] = "run" => ltask[w] # NoTask
           Wakers == \A p \in NLTasks : ppc[p] \in {"readtask", "exchange"} => pwake[p] # <<>>
           Indices == producer_id \in Nat /\ cusume_id \in Nat /\ interrupts \in Nat
           Posters == /\ ptask \in [NLTasks -> NLTasks \cup {NoTask}] /\ pidx \in [NLTasks -> Entries]
                      /\ ppc \in [NLTasks -> PosterPlaces]
                      /\ pwake \in [NLTasks -> Seq(NLWorkers)]
           Workers == /\ slot \in [NLWorkers -> NLTasks \cup {NoTask}] /\ ltask \in [NLWorkers -> NLTasks \cup {NoTask}]
                      /\ lpc \in [NLWorkers -> WorkerPlaces]
                      /\ isruning \in [NLWorkers -> BOOLEAN] /\ lidx \in [NLWorkers -> Entries]
           Ring == task_list \in [Entries -> TaskEntries]
                   /\ runs \in [NLTasks -> Nat]
           All == Runners /\ Wakers /\ Indices /\ Posters /\ Workers /\ Ring
<1>a. All
  BY <1>t
<1> SUFFICES All'
  BY DEF NLTypes, NLTypeOK
<1>1. ASSUME NEW p \in NLTasks, NLPost(p) PROVE All'
  <2>1. Wakers' /\ Indices' /\ Posters'
    BY <1>1, <1>t, PostFacts
  <2>2. Runners' /\ Workers' /\ Ring'
    BY <1>1, <1>t, PostFacts
  <2> QED BY <2>1, <2>2
<1>2. ASSUME NEW p \in NLTasks, PutTask(p) PROVE All'
  <2>1. Wakers' /\ Indices' /\ Posters'
    BY <1>2, <1>t, PutFacts
  <2>2. Runners' /\ Workers' /\ Ring'
    BY <1>2, <1>t, PutFacts
  <2> QED BY <2>1, <2>2
<1>3. ASSUME NEW p \in NLTasks, ReadWorker(p) PROVE All'
  <2>1. Wakers'
    <3>1. /\ ppc'[p] = "notify" \/ (ppc'[p] = "readtask" /\ pwake'[p] # <<>>)
          /\ \A q \in NLTasks \ {p} : ppc'[q] = ppc[q] /\ pwake'[q] = pwake[q]
      BY <1>3, ReadWorkerFacts
    <3> QED BY <1>a, <3>1
  <2>2. Indices' /\ Posters'
    BY <1>3, <1>a, ReadWorkerFacts
  <2>3. UNCHANGED <<task_list, slot, isruning, lpc, ltask, lidx, runs>>
    BY <1>3, ReadWorkerFacts
  <2> QED BY <1>a, <2>1, <2>2, <2>3
<1>4. ASSUME NEW p \in NLTasks, ReadTask(p) PROVE All'
  <2>1. Wakers' /\ Indices' /\ Posters'
    BY <1>4, <1>t, ReadTaskFacts
  <2>2. Runners' /\ Workers' /\ Ring'
    BY <1>4, <1>t, ReadTaskFacts
  <2> QED BY <2>1, <2>2
<1>5. ASSUME NEW p \in NLTasks, ExchangeSlot(p) PROVE All'
  <2>1. Wakers'
    <3>1. /\ ppc'[p] = "notify" \/ ppc'[p] = "post"
          /\ \A q \in NLTasks \ {p} : ppc'[q] = ppc[q]
          /\ pwake' = pwake
      BY <1>5, ExchangeFacts
    <3> QED BY <1>a, <3>1
  <2>2. Indices' /\ Posters'
    BY <1>5, <1>a, ExchangeFacts
  <2>3. Runners' /\ Workers' /\ Ring'
    BY <1>5, <1>a, ExchangeFacts
  <2> QED BY <2>1, <2>2, <2>3
<1>6. ASSUME NEW p \in NLTasks, Notify(p) PROVE All'
  <2>1. Wakers'
    <3>1. /\ ppc'[p] = "notify" \/ ppc'[p] = "done"
          /\ \A q \in NLTasks \ {p} : ppc'[q] = ppc[q] /\ pwake'[q] = pwake[q]
      BY <1>6, NotifyFacts
    <3> QED BY <1>a, <3>1
  <2>2. Runners'
    <3>1. \A w \in NLWorkers : lpc'[w] = lpc[w] \/ lpc'[w] = "loop"
      BY <1>6, NotifyFacts
    <3>2. ltask' = ltask
      BY <1>6, NotifyFacts
    <3> QED BY <1>a, <3>1, <3>2
  <2>3. Indices' /\ Posters'
    BY <1>6, <1>a, NotifyFacts
  <2>4. Workers' /\ Ring'
    BY <1>6, <1>a, NotifyFacts
  <2> QED BY <2>1, <2>2, <2>3, <2>4
<1>7. ASSUME NEW w \in NLWorkers, TakeOwn(w) PROVE All'
  <2>1. Runners'
    <3>1. /\ lpc'[w] \in {"ended", "pop"} \/ (lpc'[w] = "run" /\ ltask'[w] # NoTask)
          /\ \A v \in NLWorkers \ {w} : lpc'[v] = lpc[v] /\ ltask'[v] = ltask[v]
      BY <1>7, TakeOwnFacts
    <3> QED BY <1>a, <3>1
  <2>2. Workers' /\ Ring'
    BY <1>7, <1>a, TakeOwnFacts
  <2>3. Wakers' /\ Indices' /\ Posters'
    BY <1>7, <1>a, TakeOwnFacts
  <2> QED BY <2>1, <2>2, <2>3
<1>8. ASSUME NEW w \in NLWorkers, PopIndex(w) PROVE All'
  <2>1. Runners' /\ Workers' /\ Ring'
    BY <1>8, <1>t, PopIndexFacts
  <2>2. Wakers' /\ Indices' /\ Posters'
    BY <1>8, <1>t, PopIndexFacts
  <2> QED BY <2>1, <2>2
<1>9. ASSUME NEW w \in NLWorkers, PopEntry(w) PROVE All'
  <2>1. Runners'
    <3>1. /\ lpc'[w] = "register" \/ (lpc'[w] = "run" /\ ltask'[w] # NoTask)
          /\ \A v \in NLWorkers \ {w} : lpc'[v] = lpc[v] /\ ltask'[v] = ltask[v]
      BY <1>9, PopEntryFacts
    <3> QED BY <1>a, <3>1
  <2>2. Workers' /\ Ring'
    BY <1>9, <1>a, PopEntryFacts
  <2>3. Wakers' /\ Indices' /\ Posters'
    BY <1>9, <1>a, PopEntryFacts
  <2> QED BY <2>1, <2>2, <2>3
<1>10. ASSUME NEW w \in NLWorkers, Register(w) PROVE All'
  <2>1. Runners' /\ Workers' /\ Ring'
    BY <1>10, <1>t, RegisterFacts
  <2>2. Wakers' /\ Indices' /\ Posters'
    BY <1>10, <1>t, RegisterFacts
  <2> QED BY <2>1, <2>2
<1>11. ASSUME NEW w \in NLWorkers, Wait(w) \/ InterruptedWait(w) \/ Stop(w) PROVE All'
  <2>1. Runners'
    <3>1. \A v \in NLWorkers : lpc'[v] = "run" => lpc[v] = "run"
      BY <1>11, WorkerFacts
    <3>2. ltask' = ltask
      BY <1>11, WorkerFacts
    <3> QED BY <1>a, <3>1, <3>2
  <2>2. Workers' /\ Ring'
    BY <1>11, <1>a, WorkerFacts
  <2>3. /\ UNCHANGED <<producer_id, cusume_id, ppc, ptask, pidx, pwake>>
        /\ interrupts' = interrupts \/ interrupts' = interrupts + 1
    BY <1>11, WorkerFacts
  <2>4. Indices'
    BY <1>t, <2>3
  <2>5. Wakers' /\ Posters'
    BY <1>a, <2>3
  <2> QED BY <2>1, <2>2, <2>4, <2>5
<1>12. ASSUME NEW w \in NLWorkers, Run(w) PROVE All'
  <2>1. Runners' /\ Workers' /\ Ring'
    BY <1>12, <1>t, RunFacts
  <2>2. Wakers' /\ Indices' /\ Posters'
    BY <1>12, <1>t, RunFacts
  <2> QED BY <2>1, <2>2
<1>13. CASE UNCHANGED nlvars
  BY <1>13, <1>a DEF nlvars, nlpost
<1> HIDE DEF All
<1> QED BY <1>1, <1>2, <1>3, <1>4, <1>5, <1>6, <1>7, <1>8, <1>9, <1>10, <1>11, <1>12, <1>13
        DEF NLNext, PosterStep, WorkerStep

\* Where each thread may go in a step.
LEMMA WhoMoves ==
  ASSUME NLTypes, [NLNext]_nlvars
  PROVE  /\ \/ \E p \in NLTasks : NLPost(p)
            \/ /\ producer_id' = producer_id /\ pidx' = pidx
               /\ \A p \in NLTasks : AtEntry(p)' => AtEntry(p)
         /\ \/ \E w \in NLWorkers : PopIndex(w)
            \/ /\ cusume_id' = cusume_id
               /\ \A w \in NLWorkers : Popping(w)' => Popping(w) /\ lidx'[w] = lidx[w]
               /\ \A w \in NLWorkers : lpc'[w] = "entry" => lpc[w] = "entry"
<1> DEFINE P == \/ \E p \in NLTasks : NLPost(p)
                \/ /\ producer_id' = producer_id /\ pidx' = pidx
                   /\ \A p \in NLTasks : AtEntry(p)' => AtEntry(p)
           W == \/ \E w \in NLWorkers : PopIndex(w)
                \/ /\ cusume_id' = cusume_id
                   /\ \A w \in NLWorkers : Popping(w)' => Popping(w) /\ lidx'[w] = lidx[w]
                   /\ \A w \in NLWorkers : lpc'[w] = "entry" => lpc[w] = "entry"
<1>1. ASSUME NEW p \in NLTasks, NLPost(p) PROVE P /\ W
  BY <1>1, PostFacts DEF Popping
<1>2. ASSUME NEW p \in NLTasks, PutTask(p) PROVE P /\ W
  <2>1. W
    BY <1>2, PutFacts DEF Popping
  <2>2. P
    BY <1>2, PutFacts DEF AtEntry
  <2> QED BY <2>1, <2>2
<1>3. ASSUME NEW p \in NLTasks, ReadWorker(p) PROVE P /\ W
  <2>1. W
    BY <1>3, ReadWorkerFacts DEF Popping
  <2>2. /\ producer_id' = producer_id /\ pidx' = pidx
        /\ \A q \in NLTasks : ppc'[q] = ppc[q] \/ ppc[q] = "readworker"
    BY <1>3, ReadWorkerFacts
  <2> QED BY <2>1, <2>2 DEF AtEntry
<1>4. ASSUME NEW p \in NLTasks, ReadTask(p) PROVE P /\ W
  BY <1>4, ReadTaskFacts DEF Popping, AtEntry
<1>5. ASSUME NEW p \in NLTasks, ExchangeSlot(p) PROVE P /\ W
  <2>1. W
    BY <1>5, ExchangeFacts DEF Popping
  <2>2. /\ producer_id' = producer_id /\ pidx' = pidx
        /\ \A q \in NLTasks : ppc'[q] = ppc[q] \/ ppc'[q] \in {"notify", "post"}
    BY <1>5, ExchangeFacts
  <2> QED BY <2>1, <2>2 DEF AtEntry
<1>6. ASSUME NEW p \in NLTasks, Notify(p) PROVE P /\ W
  <2>1. /\ producer_id' = producer_id /\ pidx' = pidx /\ cusume_id' = cusume_id /\ lidx' = lidx
        /\ \A q \in NLTasks : ppc'[q] = ppc[q] \/ ppc'[q] = "done"
        /\ \A w \in NLWorkers : lpc'[w] = lpc[w] \/ lpc'[w] = "loop"
    BY <1>6, NotifyFacts
  <2> QED BY <2>1 DEF AtEntry, Popping
<1>7. ASSUME NEW w \in NLWorkers, TakeOwn(w) PROVE P /\ W
  <2>1. /\ producer_id' = producer_id /\ pidx' = pidx /\ cusume_id' = cusume_id /\ lidx' = lidx /\ ppc' = ppc
        /\ \A v \in NLWorkers : lpc'[v] = lpc[v] \/ lpc'[v] \in {"ended", "pop", "run"}
    BY <1>7, TakeOwnFacts
  <2> QED BY <2>1 DEF AtEntry, Popping
<1>8. ASSUME NEW w \in NLWorkers, PopIndex(w) PROVE P /\ W
  BY <1>8, PopIndexFacts DEF AtEntry
<1>9. ASSUME NEW w \in NLWorkers, PopEntry(w) PROVE P /\ W
  <2>1. /\ producer_id' = producer_id /\ pidx' = pidx /\ cusume_id' = cusume_id /\ ppc' = ppc
        /\ lpc[w] = "entry" /\ (lpc'[w] = "run" \/ (lpc'[w] = "register" /\ lidx' = lidx))
        /\ \A v \in NLWorkers \ {w} : lpc'[v] = lpc[v] /\ lidx'[v] = lidx[v]
    BY <1>9, PopEntryFacts
  <2> QED BY <2>1 DEF AtEntry, Popping
<1>10. ASSUME NEW w \in NLWorkers, Register(w) PROVE P /\ W
  <2>1. /\ producer_id' = producer_id /\ pidx' = pidx /\ cusume_id' = cusume_id /\ ppc' = ppc
        /\ lpc'[w] = "lock" /\ \A v \in NLWorkers \ {w} : lpc'[v] = lpc[v] /\ lidx'[v] = lidx[v]
    BY <1>10, RegisterFacts
  <2> QED BY <2>1 DEF AtEntry, Popping
<1>11. ASSUME NEW w \in NLWorkers, Wait(w) \/ InterruptedWait(w) \/ Stop(w) PROVE P /\ W
  <2>1. /\ producer_id' = producer_id /\ pidx' = pidx /\ cusume_id' = cusume_id /\ lidx' = lidx /\ ppc' = ppc
        /\ \A v \in NLWorkers : lpc'[v] = lpc[v] \/ lpc'[v] \in {"wait", "loop"}
    BY <1>11, WorkerFacts
  <2> QED BY <2>1 DEF AtEntry, Popping
<1>12. ASSUME NEW w \in NLWorkers, Run(w) PROVE P /\ W
  <2>1. /\ producer_id' = producer_id /\ pidx' = pidx /\ cusume_id' = cusume_id /\ lidx' = lidx /\ ppc' = ppc
        /\ \A v \in NLWorkers : lpc'[v] = lpc[v] \/ lpc'[v] = "loop"
    BY <1>12, RunFacts
  <2> QED BY <2>1 DEF AtEntry, Popping
<1>13. ASSUME UNCHANGED nlvars PROVE P /\ W
  BY <1>13 DEF nlvars, nlpost, AtEntry, Popping
<1> HIDE DEF P, W
<1>14. ASSUME NEW p \in NLTasks, PosterStep(p) PROVE P /\ W
  BY <1>1, <1>2, <1>3, <1>4, <1>5, <1>6, <1>14 DEF PosterStep
<1>15. ASSUME NEW w \in NLWorkers, WorkerStep(w) \/ InterruptedWait(w) \/ Stop(w) PROVE P /\ W
  BY <1>7, <1>8, <1>9, <1>10, <1>11, <1>12, <1>15 DEF WorkerStep
<1>16. P /\ W
  BY <1>13, <1>14, <1>15 DEF NLNext
<1> QED BY <1>16 DEF P, W

LEMMA StepOwnPoster ==
  ASSUME NLTypes, OwnPoster, [NLNext]_nlvars, FirstRound'
  PROVE  OwnPoster'
<1>n. producer_id \in Nat /\ \A p \in NLTasks : pidx[p] \in Int
  <2>1. pidx \in [NLTasks -> Entries] /\ Entries \subseteq Int
    BY NoLockWorkPoolAssumption DEF NLTypes, Entries
  <2> QED BY <2>1 DEF NLTypes, NLTypeOK
<1>1. ASSUME NEW p \in NLTasks, NLPost(p) PROVE OwnPoster'
  <2>1. /\ producer_id' = producer_id + 1 /\ pidx'[p] = producer_id
        /\ \A q \in NLTasks \ {p} : ppc'[q] = ppc[q] /\ pidx'[q] = pidx[q]
    BY <1>1, PostFacts
  <2>2. \A q \in NLTasks \ {p} : AtEntry(q)' => AtEntry(q)
    BY <2>1 DEF AtEntry
  <2>3. \A q \in NLTasks \ {p} : AtEntry(q) => pidx[q] < producer_id
    BY DEF OwnPoster
  <2>4. \A q \in NLTasks : AtEntry(q)' => pidx'[q] < producer_id'
    BY <1>n, <2>1, <2>2, <2>3
  <2>5. ASSUME NEW q \in NLTasks, NEW r \in NLTasks, AtEntry(q)', AtEntry(r)', pidx'[q] = pidx'[r], q # r PROVE FALSE
    <3>1. CASE q = p
      <4>1. AtEntry(r) /\ pidx'[r] = pidx[r] /\ pidx[r] < producer_id
        BY <2>1, <2>2, <2>3, <2>5, <3>1
      <4> QED BY <1>n, <2>1, <2>5, <3>1, <4>1
    <3>2. CASE r = p
      <4>1. AtEntry(q) /\ pidx'[q] = pidx[q] /\ pidx[q] < producer_id
        BY <2>1, <2>2, <2>3, <2>5, <3>2
      <4> QED BY <1>n, <2>1, <2>5, <3>2, <4>1
    <3>3. CASE q # p /\ r # p
      BY <2>1, <2>2, <2>5, <3>3 DEF OwnPoster
    <3> QED BY <3>1, <3>2, <3>3
  <2> QED BY <2>4, <2>5 DEF OwnPoster
<1>2. CASE /\ producer_id' = producer_id /\ pidx' = pidx
           /\ \A p \in NLTasks : AtEntry(p)' => AtEntry(p)
  BY <1>2 DEF OwnPoster
<1> QED BY <1>1, <1>2, WhoMoves

LEMMA StepOwnWorker ==
  ASSUME NLTypes, OwnWorker, [NLNext]_nlvars, FirstRound'
  PROVE  OwnWorker'
<1>n. cusume_id \in Nat /\ \A w \in NLWorkers : lidx[w] \in Int
  <2>1. lidx \in [NLWorkers -> Entries] /\ Entries \subseteq Int
    BY NoLockWorkPoolAssumption DEF NLTypes, Entries
  <2> QED BY <2>1 DEF NLTypes, NLTypeOK
<1>1. ASSUME NEW p \in NLWorkers, PopIndex(p) PROVE OwnWorker'
  <2>1. /\ cusume_id' = cusume_id + 1 /\ lidx'[p] = cusume_id
        /\ \A q \in NLWorkers \ {p} : lpc'[q] = lpc[q] /\ lidx'[q] = lidx[q]
    BY <1>1, PopIndexFacts
  <2>2. \A q \in NLWorkers \ {p} : Popping(q)' => Popping(q)
    BY <2>1 DEF Popping
  <2>3. \A q \in NLWorkers \ {p} : Popping(q) => lidx[q] < cusume_id
    BY DEF OwnWorker
  <2>4. \A q \in NLWorkers : Popping(q)' => lidx'[q] < cusume_id'
    BY <1>n, <2>1, <2>2, <2>3
  <2>5. ASSUME NEW q \in NLWorkers, NEW r \in NLWorkers, Popping(q)', Popping(r)', lidx'[q] = lidx'[r], q # r PROVE FALSE
    <3>1. CASE q = p
      <4>1. Popping(r) /\ lidx'[r] = lidx[r] /\ lidx[r] < cusume_id
        BY <2>1, <2>2, <2>3, <2>5, <3>1
      <4> QED BY <1>n, <2>1, <2>5, <3>1, <4>1
    <3>2. CASE r = p
      <4>1. Popping(q) /\ lidx'[q] = lidx[q] /\ lidx[q] < cusume_id
        BY <2>1, <2>2, <2>3, <2>5, <3>2
      <4> QED BY <1>n, <2>1, <2>5, <3>2, <4>1
    <3>3. CASE q # p /\ r # p
      BY <2>1, <2>2, <2>5, <3>3 DEF OwnWorker
    <3> QED BY <3>1, <3>2, <3>3
  <2> QED BY <2>4, <2>5 DEF OwnWorker
<1>2. CASE /\ cusume_id' = cusume_id
           /\ \A w \in NLWorkers : Popping(w)' => Popping(w) /\ lidx'[w] = lidx[w]
  BY <1>2 DEF OwnWorker
<1> QED BY <1>1, <1>2, WhoMoves

\* An entry does not become one where no worker has been.
LEMMA UnpoppedBefore ==
  ASSUME NLTypes, [NLNext]_nlvars, FirstRound', NEW i \in Entries, Unpopped(i)'
  PROVE  Unpopped(i)
<1>n. cusume_id \in Nat /\ i \in Int
  BY NoLockWorkPoolAssumption DEF NLTypes, NLTypeOK, Entries
<1>1. ASSUME NEW w \in NLWorkers, PopIndex(w) PROVE Unpopped(i)
  <2>1. /\ cusume_id' = cusume_id + 1 /\ lidx'[w] = cusume_id
        /\ \A q \in NLWorkers \ {w} : lpc'[q] = lpc[q] /\ lidx'[q] = lidx[q]
    BY <1>1, PopIndexFacts
  <2> QED BY <1>n, <2>1 DEF Unpopped
<1>2. CASE /\ cusume_id' = cusume_id
           /\ \A w \in NLWorkers : Popping(w)' => Popping(w) /\ lidx'[w] = lidx[w]
           /\ \A w \in NLWorkers : lpc'[w] = "entry" => lpc[w] = "entry"
  BY <1>2 DEF Unpopped, Popping
<1> QED BY <1>1, <1>2, WhoMoves

LEMMA StepWorkerAfterPop ==
  ASSUME NLTypes, OwnWorker, WorkerAfterPop, [NLNext]_nlvars, FirstRound'
  PROVE  WorkerAfterPop'
<1>i. /\ \A w \in NLWorkers : lidx[w] \in Entries
      /\ \A p \in NLTasks : pidx[p] \in Entries
      /\ \A p \in NLTasks : pidx'[p] \in Entries
  BY StepNLTypes DEF NLTypes
<1>w. \A i \in Entries : Unpopped(i)' => task_list'[i].worker = NoWorker
  <2> SUFFICES ASSUME NEW i \in Entries, Unpopped(i)' PROVE task_list'[i].worker = NoWorker
    OBVIOUS
  <2>1. task_list[i].worker = NoWorker
    BY UnpoppedBefore DEF WorkerAfterPop
  <2>2. CASE \E w \in NLWorkers : Register(w)
    <3>1. PICK w \in NLWorkers : Register(w)
      BY <2>2
    <3>2. /\ lpc[w] = "register" /\ cusume_id' = cusume_id /\ lpc'[w] = "lock"
          /\ \A j \in Entries \ {lidx[w]} : task_list'[j].worker = task_list[j].worker
          /\ \A v \in NLWorkers \ {w} : lpc'[v] = lpc[v] /\ lidx'[v] = lidx[v]
      BY <3>1, RegisterFacts
    <3>3. i # lidx[w]
      <4> SUFFICES ASSUME i = lidx[w] PROVE FALSE
        OBVIOUS
      <4>1. ~ (i >= cusume_id')
        <5>1. lidx[w] < cusume_id
          BY <3>2 DEF OwnWorker, Popping
        <5>2. cusume_id \in Nat /\ i \in Int
          BY NoLockWorkPoolAssumption DEF NLTypes, NLTypeOK, Entries
        <5> QED BY <3>2, <5>1, <5>2
      <4>2. PICK v \in NLWorkers : lpc'[v] = "entry" /\ lidx'[v] = i
        BY <4>1 DEF Unpopped
      <4>3. v # w /\ lpc[v] = "entry" /\ lidx[v] = i
        BY <3>2, <4>2
      <4> QED BY <3>2, <4>3 DEF OwnWorker, Popping
    <3> QED BY <2>1, <3>2, <3>3
  <2>3. CASE ~ \E w \in NLWorkers : Register(w)
    <3>1. ASSUME NEW p \in NLTasks, PosterStep(p) PROVE task_list'[i].worker = task_list[i].worker
      BY <3>1, PutFacts DEF PosterStep, NLPost, ReadWorker, ReadTask, ExchangeSlot, Notify
    <3>2. ASSUME NEW w \in NLWorkers, WorkerStep(w) \/ InterruptedWait(w) \/ Stop(w)
          PROVE  task_list'[i].worker = task_list[i].worker
      BY <2>3, <3>2, PopEntryFacts DEF WorkerStep, TakeOwn, PopIndex, Wait, Run, InterruptedWait, Stop
    <3>3. CASE UNCHANGED nlvars
      BY <2>1, <3>3 DEF nlvars
    <3> QED BY <2>1, <3>1, <3>2, <3>3 DEF NLNext
  <2> QED BY <2>2, <2>3
<1>r. \A p \in NLTasks : ppc'[p] = "readtask" => ~Unpopped(pidx[p])' /\ pidx'[p] = pidx[p]
  <2> SUFFICES ASSUME NEW p \in NLTasks, ppc'[p] = "readtask"
               PROVE  ~Unpopped(pidx[p])' /\ pidx'[p] = pidx[p]
    OBVIOUS
  <2>1. \/ ppc[p] = "readtask" /\ pidx'[p] = pidx[p]
        \/ ReadWorker(p)
    <3>1. ASSUME NEW q \in NLTasks, PosterStep(q), ~ReadWorker(p) PROVE ppc[p] = "readtask" /\ pidx'[p] = pidx[p]
      <4>1. CASE NLPost(q)
        BY <4>1, PostFacts
      <4>2. CASE PutTask(q)
        BY <4>2, PutFacts
      <4>3. CASE ReadWorker(q)
        <5>1. q # p
          BY <3>1, <4>3
        <5> QED BY <4>3, <5>1, ReadWorkerFacts
      <4>4. CASE ReadTask(q)
        BY <4>4, ReadTaskFacts
      <4>5. CASE ExchangeSlot(q)
        <5>1. ppc'[q] # "readtask" /\ pidx' = pidx /\ \A r \in NLTasks \ {q} : ppc'[r] = ppc[r]
          BY <4>5, ExchangeFacts
        <5> QED BY <5>1
      <4>6. CASE Notify(q)
        <5>1. ppc'[q] # "readtask" /\ pidx' = pidx /\ \A r \in NLTasks \ {q} : ppc'[r] = ppc[r]
          BY <4>6, NotifyFacts
        <5> QED BY <5>1
      <4> QED BY <3>1, <4>1, <4>2, <4>3, <4>4, <4>5, <4>6 DEF PosterStep
    <3>2. ASSUME NEW w \in NLWorkers, WorkerStep(w) \/ InterruptedWait(w) \/ Stop(w)
          PROVE  ppc[p] = "readtask" /\ pidx'[p] = pidx[p]
      BY <3>2 DEF WorkerStep, TakeOwn, PopIndex, PopEntry, Register, Wait, Run, InterruptedWait, Stop, nlpost
    <3>3. CASE UNCHANGED nlvars
      BY <3>3 DEF nlvars, nlpost
    <3> QED BY <3>1, <3>2, <3>3 DEF NLNext
  <2>2. ~Unpopped(pidx[p])
    <3>1. CASE ppc[p] = "readtask"
      BY <3>1 DEF WorkerAfterPop
    <3>2. CASE ReadWorker(p)
      <4>1. task_list[pidx[p]].worker # NoWorker
        BY <3>2, ReadWorkerFacts
      <4> QED BY <1>i, <4>1 DEF WorkerAfterPop
    <3> QED BY <2>1, <3>1, <3>2
  <2>3. pidx'[p] = pidx[p]
    BY <2>1, ReadWorkerFacts
  <2>4. ~Unpopped(pidx[p])'
    <3> DEFINE j == pidx[p]
    <3>1. \A i \in Entries : Unpopped(i)' => Unpopped(i)
      BY UnpoppedBefore
    <3> QED BY <1>i, <2>2, <2>3, <3>1
  <2> QED BY <2>3, <2>4
<1> QED BY <1>w, <1>r DEF WorkerAfterPop

\* A place of a task after a step was its place before the step, unless the
\* step has moved the task there from (k0, x0).
Moves(k0, x0, k1, x1, t) ==
  \A k \in Kinds : \A x : Has(k, x, t)' =>
     \/ k = k1 /\ x = x1 /\ Has(k0, x0, t)
     \/ ~(k = k0 /\ x = x0) /\ Has(k, x, t)

LEMMA MovesOnce ==
  ASSUME OncePlaced, NEW t \in NLTasks, NEW k0, NEW x0, NEW k1, NEW x1, k0 \in Kinds, Moves(k0, x0, k1, x1, t)
  PROVE  \A k, l \in Kinds : \A x, y : Has(k, x, t)' /\ Has(l, y, t)' => k = l /\ x = y
<1>1. \A k, l \in Kinds : \A x, y : Has(k, x, t) /\ Has(l, y, t) => k = l /\ x = y
  BY DEF OncePlaced
<1>2. \A k \in Kinds : \A x : Has(k, x, t)' =>
         \/ k = k1 /\ x = x1 /\ Has(k0, x0, t)
         \/ ~(k = k0 /\ x = x0) /\ Has(k, x, t)
  BY DEF Moves
<1> QED BY <1>1, <1>2

LEMMA KeepsOnce ==
  ASSUME OncePlaced, NEW t \in NLTasks, \A k \in Kinds : \A x : Has(k, x, t)' => Has(k, x, t)
  PROVE  \A k, l \in Kinds : \A x, y : Has(k, x, t)' /\ Has(l, y, t)' => k = l /\ x = y
BY DEF OncePlaced

\* Has, kind by kind.
LEMMA Places ==
  ASSUME NEW t \in NLTasks, NEW x
  PROVE  /\ Has("poster", x, t) <=> x \in NLTasks /\ ppc[x] \in {"post", "put", "exchange"} /\ ptask[x] = t
         /\ Has("entry", x, t) <=> x \in Entries /\ task_list[x]._task = t /\ (Unpopped(x) \/ Reading(x))
         /\ Has("slot", x, t) <=> x \in NLWorkers /\ slot[x] = t
         /\ Has("worker", x, t) <=> x \in NLWorkers /\ ltask[x] = t
         /\ Has("done", x, t) <=> x = 0 /\ runs[t] # 0
         /\ Has("poster", x, t)' <=> x \in NLTasks /\ ppc'[x] \in {"post", "put", "exchange"} /\ ptask'[x] = t
         /\ Has("entry", x, t)' <=> x \in Entries /\ task_list'[x]._task = t /\ (Unpopped(x)' \/ Reading(x)')
         /\ Has("slot", x, t)' <=> x \in NLWorkers /\ slot'[x] = t
         /\ Has("worker", x, t)' <=> x \in NLWorkers /\ ltask'[x] = t
         /\ Has("done", x, t)' <=> x = 0 /\ runs'[t] # 0
BY DEF Has

LEMMA PutPlaces ==
  ASSUME NLTypes, [NLNext]_nlvars, FirstRound', NEW p \in NLTasks, PutTask(p), NEW t \in NLTasks
  PROVE  Moves("poster", p, "entry", pidx[p], t)
<1>1. /\ ppc[p] = "put" /\ ppc'[p] = "readworker"
      /\ task_list'[pidx[p]]._task = ptask[p]
      /\ \A i \in Entries \ {pidx[p]} : task_list'[i]._task = task_list[i]._task
      /\ \A q \in NLTasks \ {p} : ppc'[q] = ppc[q] /\ ptask'[q] = ptask[q]
      /\ slot' = slot /\ ltask' = ltask /\ runs' = runs /\ pidx' = pidx
  BY PutFacts
<1> SUFFICES ASSUME NEW k \in Kinds, NEW x, Has(k, x, t)'
             PROVE  \/ k = "entry" /\ x = pidx[p] /\ Has("poster", p, t)
                    \/ ~(k = "poster" /\ x = p) /\ Has(k, x, t)
  BY DEF Moves
<1>2. CASE k = "poster"
  <2>1. x \in NLTasks /\ ppc'[x] \in {"post", "put", "exchange"} /\ ptask'[x] = t
    BY <1>2, Places
  <2>2. x # p /\ ppc[x] \in {"post", "put", "exchange"} /\ ptask[x] = t
    BY <1>1, <2>1
  <2> QED BY <1>2, <2>1, <2>2, Places
<1>3. CASE k = "entry"
  <2>1. x \in Entries /\ task_list'[x]._task = t /\ (Unpopped(x)' \/ Reading(x)')
    BY <1>3, Places
  <2>2. CASE x = pidx[p]
    <3>1. ptask[p] = t
      BY <1>1, <2>1, <2>2
    <3>2. Has("poster", p, t)
      BY <1>1, <3>1, Places
    <3> QED BY <1>3, <2>2, <3>2
  <2>3. CASE x # pidx[p]
    <3>1. task_list[x]._task = t
      BY <1>1, <2>1, <2>3
    <3>2. Reading(x)' => Reading(x)
      BY <1>1, <2>3 DEF Reading
    <3>3. Unpopped(x)' => Unpopped(x)
      BY <2>1, UnpoppedBefore
    <3> QED BY <1>3, <2>1, <3>1, <3>2, <3>3, Places
  <2> QED BY <2>2, <2>3
<1>4. CASE k \in {"slot", "worker", "done"}
  BY <1>1, <1>4, Places
<1> QED BY <1>2, <1>3, <1>4 DEF Kinds

LEMMA ReadTaskPlaces ==
  ASSUME NLTypes, OwnPoster, WorkerAfterPop, [NLNext]_nlvars, FirstRound',
         NEW p \in NLTasks, ReadTask(p), NEW t \in NLTasks
  PROVE  Moves("entry", pidx[p], "poster", p, t)
<1>1. /\ ppc[p] = "readtask" /\ ppc'[p] = "exchange" /\ ptask'[p] = task_list[pidx[p]]._task
      /\ \A q \in NLTasks \ {p} : ppc'[q] = ppc[q] /\ ptask'[q] = ptask[q]
      /\ slot' = slot /\ ltask' = ltask /\ runs' = runs /\ pidx' = pidx /\ task_list' = task_list
  BY ReadTaskFacts
<1>0. pidx[p] \in Entries
  BY DEF NLTypes
<1> SUFFICES ASSUME NEW k \in Kinds, NEW x, Has(k, x, t)'
             PROVE  \/ k = "poster" /\ x = p /\ Has("entry", pidx[p], t)
                    \/ ~(k = "entry" /\ x = pidx[p]) /\ Has(k, x, t)
  BY DEF Moves
<1>2. CASE k = "poster"
  <2>1. x \in NLTasks /\ ppc'[x] \in {"post", "put", "exchange"} /\ ptask'[x] = t
    BY <1>2, Places
  <2>2. CASE x = p
    <3>1. Reading(pidx[p]) /\ task_list[pidx[p]]._task = t
      BY <1>1, <2>1, <2>2 DEF Reading
    <3>2. Has("entry", pidx[p], t)
      BY <1>0, <3>1 DEF Has
    <3> QED BY <1>2, <2>2, <3>2
  <2>3. CASE x # p
    BY <1>1, <1>2, <2>1, <2>3, Places
  <2> QED BY <2>2, <2>3
<1>3. CASE k = "entry"
  <2>1. x \in Entries /\ task_list'[x]._task = t /\ (Unpopped(x)' \/ Reading(x)')
    BY <1>3, Places
  <2>2. Unpopped(x)' => Unpopped(x)
    BY <2>1, UnpoppedBefore
  <2>3. Reading(x)' => Reading(x) /\ x # pidx[p]
    <3> SUFFICES ASSUME Reading(x)' PROVE Reading(x) /\ x # pidx[p]
      OBVIOUS
    <3>1. PICK q \in NLTasks : ppc'[q] \in {"readworker", "readtask"} /\ pidx'[q] = x
      BY DEF Reading
    <3>2. q # p /\ ppc[q] \in {"readworker", "readtask"} /\ pidx[q] = x
      BY <1>1, <3>1
    <3>3. pidx[q] # pidx[p]
      BY <1>1, <3>2 DEF OwnPoster, AtEntry
    <3> QED BY <3>2, <3>3 DEF Reading
  <2>4. Unpopped(x) => x # pidx[p]
    <3>1. ~Unpopped(pidx[p])
      BY <1>1 DEF WorkerAfterPop
    <3> QED BY <3>1
  <2>5. Has("entry", x, t)
    BY <1>1, <2>1, <2>2, <2>3, Places
  <2> QED BY <1>3, <2>1, <2>2, <2>3, <2>4, <2>5
<1>4. CASE k \in {"slot", "worker", "done"}
  BY <1>1, <1>4, Places
<1> QED BY <1>2, <1>3, <1>4 DEF Kinds

LEMMA TakeOwnPlaces ==
  ASSUME NLTypes, [NLNext]_nlvars, FirstRound', NEW w \in NLWorkers, TakeOwn(w), NEW t \in NLTasks
  PROVE  Moves("slot", w, "worker", w, t) \/ \A k \in Kinds : \A x : Has(k, x, t)' => Has(k, x, t)
<1>1. /\ \A v \in NLWorkers \ {w} : slot'[v] = slot[v] /\ ltask'[v] = ltask[v]
      /\ ppc' = ppc /\ ptask' = ptask /\ runs' = runs /\ pidx' = pidx /\ task_list' = task_list
      /\ (slot' = slot /\ ltask' = ltask) \/ (ltask'[w] = slot[w] /\ slot'[w] = NoTask)
  BY TakeOwnFacts
<1>2. \A x : Has("entry", x, t)' => Has("entry", x, t)
  <2>1. \A x \in Entries : Unpopped(x)' => Unpopped(x)
    BY UnpoppedBefore
  <2> QED BY <1>1, <2>1 DEF Has, Reading
<1>3. \A k \in {"poster", "done"} : \A x : Has(k, x, t)' => Has(k, x, t)
  BY <1>1 DEF Has
<1>4. CASE slot' = slot /\ ltask' = ltask
  <2>1. \A k \in {"slot", "worker"} : \A x : Has(k, x, t)' => Has(k, x, t)
    BY <1>4 DEF Has
  <2> QED BY <1>2, <1>3, <2>1 DEF Kinds
<1>5. CASE ltask'[w] = slot[w] /\ slot'[w] = NoTask
  <2>0. t # NoTask
    BY NoLockWorkPoolAssumption
  <2>1. \A x : Has("slot", x, t)' => x # w /\ Has("slot", x, t)
    BY <1>1, <1>5, <2>0 DEF Has
  <2>2. \A x : Has("worker", x, t)' => (x = w /\ Has("slot", w, t)) \/ Has("worker", x, t)
    BY <1>1, <1>5 DEF Has
  <2> QED BY <1>2, <1>3, <2>1, <2>2 DEF Kinds, Moves
<1> QED BY <1>1, <1>4, <1>5

LEMMA PopEntryPlaces ==
  ASSUME NLTypes, [NLNext]_nlvars, FirstRound', NEW w \in NLWorkers, PopEntry(w), NEW t \in NLTasks
  PROVE  Moves("entry", lidx[w], "worker", w, t)
<1>0. t # NoTask /\ lidx[w] \in Entries
  BY NoLockWorkPoolAssumption DEF NLTypes
<1>1. /\ lpc[w] = "entry" /\ ltask'[w] = task_list[lidx[w]]._task
      /\ \A v \in NLWorkers \ {w} : ltask'[v] = ltask[v]
      /\ task_list'[lidx[w]]._task = NoTask
      /\ \A i \in Entries \ {lidx[w]} : task_list'[i]._task = task_list[i]._task
      /\ ppc' = ppc /\ ptask' = ptask /\ runs' = runs /\ pidx' = pidx /\ slot' = slot
  BY PopEntryFacts
<1>2. \A x : Has("entry", x, t)' => x # lidx[w] /\ Has("entry", x, t)
  <2>1. \A x \in Entries : Unpopped(x)' => Unpopped(x)
    BY UnpoppedBefore
  <2>2. \A x : Reading(x)' => Reading(x)
    BY <1>1 DEF Reading
  <2> QED BY <1>0, <1>1, <2>1, <2>2 DEF Has
<1>3. \A k \in {"poster", "done", "slot"} : \A x : Has(k, x, t)' => Has(k, x, t)
  BY <1>1 DEF Has
<1>4. \A x : Has("worker", x, t)' => (x = w /\ Has("entry", lidx[w], t)) \/ Has("worker", x, t)
  <2>1. Unpopped(lidx[w])
    BY <1>1 DEF Unpopped
  <2> QED BY <1>0, <1>1, <2>1 DEF Has
<1> QED BY <1>2, <1>3, <1>4 DEF Kinds, Moves

LEMMA RunPlaces ==
  ASSUME NLTypes, [NLNext]_nlvars, FirstRound', NEW w \in NLWorkers, Run(w), NEW t \in NLTasks
  PROVE  Moves("worker", w, "done", 0, t)
<1>0. t # NoTask
  BY NoLockWorkPoolAssumption
<1>1. /\ ltask[w] \in NLTasks /\ ltask'[w] = NoTask
      /\ \A u \in NLTasks \ {ltask[w]} : runs'[u] = runs[u]
      /\ \A v \in NLWorkers \ {w} : ltask'[v] = ltask[v]
      /\ ppc' = ppc /\ ptask' = ptask /\ pidx' = pidx /\ slot' = slot /\ task_list' = task_list
  BY RunFacts
<1>2. \A x : Has("entry", x, t)' => Has("entry", x, t)
  <2>1. \A x \in Entries : Unpopped(x)' => Unpopped(x)
    BY UnpoppedBefore
  <2> QED BY <1>1, <2>1 DEF Has, Reading
<1>3. \A k \in {"poster", "slot"} : \A x : Has(k, x, t)' => Has(k, x, t)
  BY <1>1 DEF Has
<1>4. \A x : Has("worker", x, t)' => x # w /\ Has("worker", x, t)
  BY <1>0, <1>1 DEF Has
<1>5. \A x : Has("done", x, t)' => (x = 0 /\ Has("worker", w, t)) \/ Has("done", x, t)
  <2>1. CASE t = ltask[w]
    BY <2>1 DEF Has
  <2>2. CASE t # ltask[w]
    BY <1>1, <2>2 DEF Has
  <2> QED BY <2>1, <2>2
<1> QED BY <1>2, <1>3, <1>4, <1>5 DEF Kinds, Moves

\* RunTask swaps the task in hand with the one in the worker's slot.
LEMMA ExchangeOnce ==
  ASSUME NLTypes, OncePlaced, [NLNext]_nlvars, FirstRound', NEW p \in NLTasks, ExchangeSlot(p), NEW t \in NLTasks
  PROVE  \A k, l \in Kinds : \A x, y : Has(k, x, t)' /\ Has(l, y, t)' => k = l /\ x = y
<1> DEFINE w == Head(pwake[p])
<1>1. /\ w \in NLWorkers /\ ppc[p] = "exchange"
      /\ slot'[w] = ptask[p] /\ ptask'[p] = slot[w]
      /\ \A v \in NLWorkers \ {w} : slot'[v] = slot[v]
      /\ \A q \in NLTasks \ {p} : ppc'[q] = ppc[q] /\ ptask'[q] = ptask[q]
      /\ task_list' = task_list /\ ltask' = ltask /\ pidx' = pidx /\ runs' = runs
      /\ ppc'[p] \in {"notify", "post"}
  BY ExchangeFacts
<1> HIDE DEF w
<1>2. \A x : Has("entry", x, t)' => Has("entry", x, t)
  <2>1. \A x \in Entries : Unpopped(x)' => Unpopped(x)
    BY UnpoppedBefore
  <2>2. \A x : Reading(x)' => Reading(x)
    <3>1. \A q \in NLTasks : ppc'[q] \in {"readworker", "readtask"} => ppc[q] \in {"readworker", "readtask"}
      BY <1>1
    <3> QED BY <1>1, <3>1 DEF Reading
  <2> QED BY <1>1, <2>1, <2>2 DEF Has
<1>3. \A k \in {"worker", "done"} : \A x : Has(k, x, t)' => Has(k, x, t)
  BY <1>1 DEF Has
<1>4. \A x : Has("poster", x, t)' => (x = p /\ Has("slot", w, t)) \/ (x # p /\ Has("poster", x, t))
  BY <1>1 DEF Has
<1>5. \A x : Has("slot", x, t)' => (x = w /\ Has("poster", p, t)) \/ (x # w /\ Has("slot", x, t))
  BY <1>1 DEF Has
<1>6. \A k, l \in Kinds : \A x, y : Has(k, x, t) /\ Has(l, y, t) => k = l /\ x = y
  BY DEF OncePlaced
<1>7. \A k \in Kinds : \A x : Has(k, x, t)' =>
         \/ k = "slot" /\ x = w /\ Has("poster", p, t)
         \/ k = "poster" /\ x = p /\ Has("slot", w, t)
         \/ ~(k = "poster" /\ x = p) /\ ~(k = "slot" /\ x = w) /\ Has(k, x, t)
  BY <1>2, <1>3, <1>4, <1>5 DEF Kinds
<1> QED BY <1>6, <1>7 DEF Kinds

\* The steps that move no task.
LEMMA OthersKeep ==
  ASSUME NLTypes, [NLNext]_nlvars, FirstRound', NEW t \in NLTasks,
         \/ \E p \in NLTasks : NLPost(p) \/ ReadWorker(p) \/ Notify(p)
         \/ \E w \in NLWorkers : PopIndex(w) \/ Register(w) \/ Wait(w) \/ InterruptedWait(w) \/ Stop(w)
         \/ UNCHANGED nlvars
  PROVE  \A k \in Kinds : \A x : Has(k, x, t)' => Has(k, x, t)
<1>1. ptask' = ptask /\ slot' = slot /\ ltask' = ltask /\ runs' = runs
  BY DEF NLPost, ReadWorker, Notify, PopIndex, Register, Wait, InterruptedWait, Stop, nlvars, nlpost
<1>2. \A p \in NLTasks : /\ ppc'[p] \in {"post", "put", "exchange"} => ppc[p] \in {"post", "put", "exchange"}
                         /\ ppc'[p] \in {"readworker", "readtask"} =>
                              ppc[p] \in {"readworker", "readtask"} /\ pidx'[p] = pidx[p]
  <2> DEFINE G == \A p \in NLTasks :
                    /\ ppc'[p] \in {"post", "put", "exchange"} => ppc[p] \in {"post", "put", "exchange"}
                    /\ ppc'[p] \in {"readworker", "readtask"} =>
                         ppc[p] \in {"readworker", "readtask"} /\ pidx'[p] = pidx[p]
  <2>1. ASSUME NEW p \in NLTasks, NLPost(p) PROVE G
    BY <2>1, PostFacts
  <2>2. ASSUME NEW p \in NLTasks, ReadWorker(p) PROVE G
    BY <2>2, ReadWorkerFacts
  <2>3. ASSUME NEW p \in NLTasks, Notify(p) PROVE G
    <3>1. pidx' = pidx /\ \A q \in NLTasks : ppc'[q] = ppc[q] \/ ppc'[q] = "done"
      BY <2>3, NotifyFacts
    <3> QED BY <3>1
  <2>4. ASSUME ppc' = ppc, pidx' = pidx PROVE G
    BY <2>4
  <2>5. ASSUME NEW w \in NLWorkers, PopIndex(w) \/ Register(w) \/ Wait(w) \/ InterruptedWait(w) \/ Stop(w)
        PROVE  ppc' = ppc /\ pidx' = pidx
    BY <2>5 DEF PopIndex, Register, Wait, InterruptedWait, Stop, nlpost
  <2>6. UNCHANGED nlvars => ppc' = ppc /\ pidx' = pidx
    BY DEF nlvars, nlpost
  <2> HIDE DEF G
  <2>7. G
    BY <2>1, <2>2, <2>3, <2>4, <2>5, <2>6
  <2> QED BY <2>7 DEF G
<1>3. \A i \in Entries : task_list'[i]._task = task_list[i]._task
  <2>1. ASSUME NEW w \in NLWorkers, Register(w) PROVE <1>3!:
    BY <2>1, RegisterFacts
  <2>2. ASSUME NEW p \in NLTasks, NLPost(p) \/ ReadWorker(p) \/ Notify(p) PROVE task_list' = task_list
    BY <2>2 DEF NLPost, ReadWorker, Notify
  <2>3. ASSUME NEW w \in NLWorkers, PopIndex(w) \/ Wait(w) \/ InterruptedWait(w) \/ Stop(w) PROVE task_list' = task_list
    BY <2>3 DEF PopIndex, Wait, InterruptedWait, Stop
  <2>4. UNCHANGED nlvars => task_list' = task_list
    BY DEF nlvars
  <2> QED BY <2>1, <2>2, <2>3, <2>4
<1>4. \A x : Has("entry", x, t)' => Has("entry", x, t)
  <2>1. \A x \in Entries : Unpopped(x)' => Unpopped(x)
    BY UnpoppedBefore
  <2>2. \A x : Reading(x)' => Reading(x)
    BY <1>2 DEF Reading
  <2> QED BY <1>3, <2>1, <2>2 DEF Has
<1>5. \A k \in {"poster", "slot", "worker", "done"} : \A x : Has(k, x, t)' => Has(k, x, t)
  BY <1>1, <1>2 DEF Has
<1> QED BY <1>4, <1>5 DEF Kinds

LEMMA StepOncePlaced ==
  ASSUME NLTypes, OwnPoster, WorkerAfterPop, OncePlaced, [NLNext]_nlvars, FirstRound'
  PROVE  OncePlaced'
<1> SUFFICES ASSUME NEW t \in NLTasks
             PROVE  /\ \A k, l \in Kinds : \A x, y : Has(k, x, t)' /\ Has(l, y, t)' => k = l /\ x = y
                    /\ runs'[t] <= 1
  BY DEF OncePlaced
<1> DEFINE Once == \A k, l \in Kinds : \A x, y : Has(k, x, t)' /\ Has(l, y, t)' => k = l /\ x = y
<1>k. {"poster", "entry", "slot", "worker"} \subseteq Kinds
  BY DEF Kinds
<1>1. Once
  <2>1. ASSUME NEW p \in NLTasks, PutTask(p) PROVE Once
    <3>1. Moves("poster", p, "entry", pidx[p], t)
      BY <2>1, PutPlaces
    <3> QED BY <1>k, <3>1, MovesOnce
  <2>2. ASSUME NEW p \in NLTasks, ReadTask(p) PROVE Once
    <3>1. Moves("entry", pidx[p], "poster", p, t)
      BY <2>2, ReadTaskPlaces
    <3> QED BY <1>k, <3>1, MovesOnce
  <2>3. ASSUME NEW p \in NLTasks, ExchangeSlot(p) PROVE Once
    BY <2>3, ExchangeOnce
  <2>4. ASSUME NEW w \in NLWorkers, TakeOwn(w) PROVE Once
    <3>1. Moves("slot", w, "worker", w, t) \/ \A k \in Kinds : \A x : Has(k, x, t)' => Has(k, x, t)
      BY <2>4, TakeOwnPlaces
    <3>2. CASE Moves("slot", w, "worker", w, t)
      BY <1>k, <3>2, MovesOnce
    <3>3. CASE \A k \in Kinds : \A x : Has(k, x, t)' => Has(k, x, t)
      BY <3>3, KeepsOnce
    <3> QED BY <3>1, <3>2, <3>3
  <2>5. ASSUME NEW w \in NLWorkers, PopEntry(w) PROVE Once
    <3>1. Moves("entry", lidx[w], "worker", w, t)
      BY <2>5, PopEntryPlaces
    <3> QED BY <1>k, <3>1, MovesOnce
  <2>6. ASSUME NEW w \in NLWorkers, Run(w) PROVE Once
    <3>1. Moves("worker", w, "done", 0, t)
      BY <2>6, RunPlaces
    <3> QED BY <1>k, <3>1, MovesOnce
  <2>7. ASSUME \/ \E p \in NLTasks : NLPost(p) \/ ReadWorker(p) \/ Notify(p)
               \/ \E w \in NLWorkers : PopIndex(w) \/ Register(w) \/ Wait(w) \/ InterruptedWait(w) \/ Stop(w)
               \/ UNCHANGED nlvars
        PROVE  Once
    <3>1. \A k \in Kinds : \A x : Has(k, x, t)' => Has(k, x, t)
      BY <2>7, OthersKeep
    <3> QED BY <3>1, KeepsOnce
  <2> HIDE DEF Once
  <2>8. ASSUME NEW p \in NLTasks, PosterStep(p) PROVE Once
    BY <2>1, <2>2, <2>3, <2>7, <2>8 DEF PosterStep
  <2>9. ASSUME NEW w \in NLWorkers, WorkerStep(w) \/ InterruptedWait(w) \/ Stop(w) PROVE Once
    BY <2>4, <2>5, <2>6, <2>7, <2>9 DEF WorkerStep
  <2>10. Once
    BY <2>7, <2>8, <2>9 DEF NLNext
  <2> QED BY <2>10 DEF Once
<1>2. runs'[t] <= 1
  <2>n. runs[t] \in Nat /\ runs[t] <= 1
    BY DEF NLTypes, OncePlaced
  <2>1. ASSUME NEW w \in NLWorkers, Run(w) PROVE runs'[t] <= 1
    <3>1. ltask[w] \in NLTasks /\ runs'[ltask[w]] = runs[ltask[w]] + 1
          /\ \A u \in NLTasks \ {ltask[w]} : runs'[u] = runs[u]
      BY <2>1, RunFacts
    <3>2. CASE t = ltask[w]
      <4>1. Has("worker", w, t)
        BY <3>2 DEF Has
      <4>2. ~Has("done", 0, t)
        BY <4>1 DEF OncePlaced, Kinds
      <4>3. runs[t] = 0
        BY <4>2, Places
      <4> QED BY <3>1, <3>2, <4>3
    <3>3. CASE t # ltask[w]
      BY <2>n, <3>1, <3>3
    <3> QED BY <3>2, <3>3
  <2>2. ASSUME NEW p \in NLTasks, PosterStep(p) PROVE runs' = runs
    BY <2>2 DEF PosterStep, NLPost, PutTask, ReadWorker, ReadTask, ExchangeSlot, Notify
  <2>3. ASSUME NEW w \in NLWorkers, WorkerStep(w) \/ InterruptedWait(w) \/ Stop(w), ~Run(w) PROVE runs' = runs
    BY <2>3 DEF WorkerStep, TakeOwn, PopIndex, PopEntry, Register, Wait, InterruptedWait, Stop
  <2>4. UNCHANGED nlvars => runs' = runs
    BY DEF nlvars
  <2> QED BY <2>n, <2>1, <2>2, <2>3, <2>4 DEF NLNext
<1> QED BY <1>1, <1>2

\* An entry does not become unread again.
LEMMA UnreadBefore ==
  ASSUME NLTypes, [NLNext]_nlvars, FirstRound', NEW i \in Entries, Unread(i)'
  PROVE  Unread(i)
<1>n. producer_id \in Nat /\ i \in Int
  BY NoLockWorkPoolAssumption DEF NLTypes, NLTypeOK, Entries
<1>1. ASSUME NEW p \in NLTasks, NLPost(p) PROVE Unread(i)
  <2>1. /\ producer_id' = producer_id + 1 /\ pidx'[p] = producer_id
        /\ \A q \in NLTasks \ {p} : ppc'[q] = ppc[q] /\ pidx'[q] = pidx[q]
    BY <1>1, PostFacts
  <2>2. i >= producer_id' \/ \E q \in NLTasks : ppc'[q] \in {"put", "readworker"} /\ pidx'[q] = i
    BY DEF Unread
  <2>3. CASE i >= producer_id'
    BY <1>n, <2>1, <2>3 DEF Unread
  <2>4. ASSUME NEW q \in NLTasks, ppc'[q] \in {"put", "readworker"}, pidx'[q] = i PROVE Unread(i)
    <3>1. CASE q = p
      BY <1>n, <2>1, <2>4, <3>1 DEF Unread
    <3>2. CASE q # p
      BY <2>1, <2>4, <3>2 DEF Unread
    <3> QED BY <3>1, <3>2
  <2> QED BY <2>2, <2>3, <2>4
<1>2. CASE /\ producer_id' = producer_id /\ pidx' = pidx
           /\ \A p \in NLTasks : ppc'[p] \in {"put", "readworker"} => ppc[p] \in {"put", "readworker"}
  BY <1>2 DEF Unread
<1>3. ASSUME ~ \E p \in NLTasks : NLPost(p)
      PROVE  \A p \in NLTasks : ppc'[p] \in {"put", "readworker"} => ppc[p] \in {"put", "readworker"}
  <2> DEFINE G == \A p \in NLTasks : ppc'[p] \in {"put", "readworker"} => ppc[p] \in {"put", "readworker"}
  <2>1. ASSUME NEW p \in NLTasks, PutTask(p) PROVE G
    BY <2>1, PutFacts
  <2>2. ASSUME NEW p \in NLTasks, ReadWorker(p) PROVE G
    BY <2>2, ReadWorkerFacts
  <2>3. ASSUME NEW p \in NLTasks, ReadTask(p) PROVE G
    BY <2>3, ReadTaskFacts
  <2>4. ASSUME NEW p \in NLTasks, ExchangeSlot(p) PROVE G
    <3>1. ppc'[p] \in {"notify", "post"} /\ \A q \in NLTasks \ {p} : ppc'[q] = ppc[q]
      BY <2>4, ExchangeFacts
    <3> QED BY <3>1
  <2>5. ASSUME NEW p \in NLTasks, Notify(p) PROVE G
    <3>1. \A q \in NLTasks : ppc'[q] = ppc[q] \/ ppc'[q] = "done"
      BY <2>5, NotifyFacts
    <3> QED BY <3>1
  <2>6. ASSUME NEW w \in NLWorkers, WorkerStep(w) \/ InterruptedWait(w) \/ Stop(w) PROVE G
    BY <2>6 DEF WorkerStep, TakeOwn, PopIndex, PopEntry, Register, Wait, Run, InterruptedWait, Stop, nlpost
  <2>7. ASSUME UNCHANGED nlvars PROVE G
    BY <2>7 DEF nlvars, nlpost
  <2> HIDE DEF G
  <2>8. ASSUME NEW p \in NLTasks, PosterStep(p) PROVE G
    BY <1>3, <2>1, <2>2, <2>3, <2>4, <2>5, <2>8 DEF PosterStep
  <2>9. G
    BY <2>6, <2>7, <2>8 DEF NLNext
  <2> QED BY <2>9 DEF G
<1> QED BY <1>1, <1>2, <1>3, WhoMoves

LEMMA TokensKept ==
  ASSUME NLTypes, [NLNext]_nlvars, FirstRound', pwake' = pwake, NEW w \in NLWorkers,
         \A i \in Entries : task_list'[i].worker = w => task_list[i].worker = w
  PROVE  \A k \in {"entry", "poster"} : \A x : Owes(k, x, w)' => Owes(k, x, w)
<1>1. \A i \in Entries : Unread(i)' => Unread(i)
  BY UnreadBefore
<1> QED BY <1>1 DEF Owes

\* A worker that waits keeps waiting, with an empty slot until a poster fills it.
LEMMA StillOwed ==
  ASSUME NEW w \in NLWorkers, OwedTo(w),
         \A k \in {"entry", "poster"} : \A x : Owes(k, x, w)' => Owes(k, x, w),
         \/ lpc'[w] = lpc[w]
         \/ lpc[w] = "lock" /\ lpc'[w] = "wait"
         \/ lpc[w] = "loop" /\ ~isruning[w] /\ lpc'[w] = "ended",
         isruning'[w] = isruning[w], slot'[w] = slot[w],
         \A x \in NLTasks : ppc[x] = "notify" /\ pwake'[x] # <<>> => ppc'[x] = "notify"
  PROVE  OwedTo(w)'
<1>1. \A k, l \in {"entry", "poster"} : \A x, y : Owes(k, x, w)' /\ Owes(l, y, w)' => k = l /\ x = y
  BY DEF OwedTo
<1>2. lpc'[w] \in {"pop", "entry", "register"} => slot'[w] = NoTask
  BY DEF OwedTo
<1>3. ASSUME NEW k \in {"entry", "poster"}, NEW x, Owes(k, x, w)'
      PROVE  /\ lpc'[w] \in {"lock", "wait", "ended"} \/ (lpc'[w] = "loop" /\ ~isruning'[w])
             /\ (k = "poster" /\ ppc'[x] = "notify") \/ slot'[w] = NoTask
  <2>1. /\ lpc[w] \in {"lock", "wait", "ended"} \/ (lpc[w] = "loop" /\ ~isruning[w])
        /\ (k = "poster" /\ ppc[x] = "notify") \/ slot[w] = NoTask
    BY <1>3 DEF OwedTo
  <2>2. k = "poster" => x \in NLTasks /\ pwake'[x] # <<>>
    BY <1>3 DEF Owes
  <2> QED BY <2>1, <2>2
<1> QED BY <1>1, <1>2, <1>3 DEF OwedTo

\* A worker on its way to an entry or with a task to run is owed nothing.
LEMMA NotOwed ==
  ASSUME NEW w \in NLWorkers, OwedTo(w),
         lpc[w] \in {"pop", "entry", "register", "run"} \/ (lpc[w] = "loop" /\ isruning[w])
  PROVE  \A k \in {"entry", "poster"} : \A x : ~Owes(k, x, w)
BY DEF OwedTo

LEMMA NothingOwed ==
  ASSUME NEW w \in NLWorkers, \A k \in {"entry", "poster"} : \A x : ~Owes(k, x, w)',
         lpc'[w] \in {"pop", "entry", "register"} => slot'[w] = NoTask
  PROVE  OwedTo(w)'
BY DEF OwedTo

LEMMA ReadWorkerOwed ==
  ASSUME NLTypes, OwnPoster, Owed, OneToWake, [NLNext]_nlvars, FirstRound', NEW p \in NLTasks, ReadWorker(p)
  PROVE  Owed' /\ OneToWake'
<1>1. /\ ppc[p] = "readworker" /\ ppc'[p] \in {"notify", "readtask"}
      /\ \A q \in NLTasks \ {p} : ppc'[q] = ppc[q] /\ pwake'[q] = pwake[q]
      /\ task_list' = task_list /\ slot' = slot /\ lpc' = lpc /\ isruning' = isruning /\ pidx' = pidx
      /\ producer_id' = producer_id
  BY ReadWorkerFacts
<1>2. pwake[p] = <<>>
  BY <1>1 DEF OneToWake
<1>p. pidx[p] \in Entries
  BY DEF NLTypes
<1>3. CASE task_list[pidx[p]].worker = NoWorker
  <2>1. pwake' = pwake /\ ppc'[p] = "notify"
    BY <1>3, ReadWorkerFacts
  <2>2. OneToWake'
    BY <1>1, <2>1 DEF OneToWake
  <2>3. ASSUME NEW w \in NLWorkers PROVE OwedTo(w)'
    <3>1. \A k \in {"entry", "poster"} : \A x : Owes(k, x, w)' => Owes(k, x, w)
      BY <1>1, <2>1, TokensKept
    <3>2. OwedTo(w) /\ \A x \in NLTasks : ppc[x] = "notify" => ppc'[x] = "notify"
      BY <1>1, <2>1 DEF Owed
    <3> QED BY <1>1, <3>1, <3>2, StillOwed
  <2> QED BY <2>2, <2>3 DEF Owed
<1>4. CASE task_list[pidx[p]].worker # NoWorker
  <2>1. PICK v \in NLWorkers : v = task_list[pidx[p]].worker
    BY <1>4, ReadWorkerFacts
  <2>2. ppc'[p] = "readtask" /\ pwake'[p] = <<v>> \o <<>> /\ Head(pwake'[p]) = v
    BY <1>2, <1>4, <2>1, ReadWorkerFacts
  <2>3. Len(pwake'[p]) = 1
    <3>1. <<v>> \in Seq(NLWorkers) /\ <<>> \in Seq(NLWorkers) /\ Len(<<v>>) = 1 /\ Len(<<>>) = 0
      BY <2>1
    <3>2. Len(<<v>> \o <<>>) = Len(<<v>>) + Len(<<>>)
      BY <3>1, ConcatProperties
    <3> QED BY <2>2, <3>1, <3>2
  <2>4. ASSUME NEW q \in NLTasks
        PROVE  (ppc'[q] \in {"post", "put", "readworker", "done"} => pwake'[q] = <<>>) /\ Len(pwake'[q]) <= 1
    <3>1. CASE q = p
      <4>1. ppc'[p] = "readtask"
        BY <2>2
      <4>2. ppc'[q] \notin {"post", "put", "readworker", "done"}
        BY <3>1, <4>1
      <4>3. 1 <= 1
        OBVIOUS
      <4>4. Len(pwake'[q]) <= 1
        BY <2>3, <3>1, <4>3, Zenon
      <4> QED BY <4>2, <4>4
    <3>2. CASE q # p
      <4>1. ppc'[q] = ppc[q] /\ pwake'[q] = pwake[q]
        BY <1>1, <3>2
      <4> QED BY <4>1 DEF OneToWake
    <3> QED BY <3>1, <3>2
  <2>5. ~Unread(pidx[p])'
    <3>1. pidx[p] < producer_id
      BY <1>1 DEF OwnPoster, AtEntry
    <3>2. ~(pidx[p] >= producer_id)
      <4>1. producer_id \in Nat /\ pidx[p] \in Int
        BY <1>p, NoLockWorkPoolAssumption DEF NLTypes, NLTypeOK, Entries
      <4> QED BY <3>1, <4>1
    <3>3. ASSUME NEW q \in NLTasks, ppc'[q] \in {"put", "readworker"}, pidx[q] = pidx[p] PROVE FALSE
      <4>1. q # p /\ ppc[q] \in {"put", "readworker"}
        BY <1>1, <2>2, <3>3
      <4> QED BY <1>1, <3>3, <4>1 DEF OwnPoster, AtEntry
    <3> QED BY <1>1, <3>2, <3>3 DEF Unread
  <2>6. Owes("entry", pidx[p], v)
    BY <1>1, <1>p, <2>1 DEF Owes, Unread
  <2>7. \A w \in NLWorkers : \A x : Owes("entry", x, w)' => Owes("entry", x, w) /\ x # pidx[p]
    <3>1. \A i \in Entries : Unread(i)' => Unread(i)
      BY UnreadBefore
    <3> QED BY <1>1, <2>5, <3>1 DEF Owes
  <2>8. \A w \in NLWorkers : \A x : Owes("poster", x, w)' => (x = p /\ w = v) \/ Owes("poster", x, w)
    BY <1>1, <2>2 DEF Owes
  <2>9. ASSUME NEW w \in NLWorkers, w # v PROVE OwedTo(w)'
    <3>1. \A k \in {"entry", "poster"} : \A x : Owes(k, x, w)' => Owes(k, x, w)
      BY <2>7, <2>8, <2>9
    <3>2. OwedTo(w) /\ \A x \in NLTasks : ppc[x] = "notify" => ppc'[x] = "notify"
      BY <1>1 DEF Owed
    <3> QED BY <1>1, <3>1, <3>2, StillOwed
  <2>10. OwedTo(v)'
    <3>0. OwedTo(v)
      BY DEF Owed
    <3>1. \A k \in {"entry", "poster"} : \A x : Owes(k, x, v)' => k = "poster" /\ x = p
      <4>1. \A x : ~Owes("poster", x, v)
        BY <2>6, <3>0 DEF OwedTo
      <4>2. \A x : Owes("entry", x, v) => x = pidx[p]
        BY <2>6, <3>0 DEF OwedTo
      <4> QED BY <2>7, <2>8, <4>1, <4>2
    <3>2. /\ lpc[v] \in {"lock", "wait", "ended"} \/ (lpc[v] = "loop" /\ ~isruning[v])
          /\ slot[v] = NoTask
      BY <2>6, <3>0 DEF OwedTo
    <3> QED BY <1>1, <3>1, <3>2 DEF OwedTo
  <2> QED BY <2>4, <2>9, <2>10 DEF Owed, OneToWake
<1> QED BY <1>3, <1>4

LEMMA ExchangeOwed ==
  ASSUME NLTypes, Owed, OneToWake, [NLNext]_nlvars, FirstRound', NEW p \in NLTasks, ExchangeSlot(p)
  PROVE  Owed' /\ OneToWake'
<1>0. PICK w \in NLWorkers : w = Head(pwake[p])
  BY ExchangeFacts
<1>1. /\ w \in NLWorkers /\ ppc[p] = "exchange" /\ pwake[p] # <<>>
      /\ ppc'[p] = IF slot[w] = NoTask THEN "notify" ELSE "post"
      /\ \A v \in NLWorkers \ {w} : slot'[v] = slot[v]
      /\ \A q \in NLTasks \ {p} : ppc'[q] = ppc[q]
      /\ task_list' = task_list /\ lpc' = lpc /\ isruning' = isruning /\ pwake' = pwake
  BY <1>0, ExchangeFacts
<1>u. lpc' = lpc /\ isruning' = isruning
  BY <1>1
<1>2. Owes("poster", p, w)
  BY <1>0, <1>1 DEF Owes
<1>o. OwedTo(w)
  BY <1>1 DEF Owed
<1>3. slot[w] = NoTask /\ (lpc[w] \in {"lock", "wait", "ended"} \/ (lpc[w] = "loop" /\ ~isruning[w]))
  BY <1>o, <1>1, <1>2 DEF OwedTo
<1>4. ppc'[p] = "notify"
  BY <1>1, <1>3
<1>5. OneToWake'
  BY <1>1, <1>4 DEF OneToWake
<1>6. \A v \in NLWorkers : \A k \in {"entry", "poster"} : \A x : Owes(k, x, v)' => Owes(k, x, v)
  BY <1>1, TokensKept
<1>7. ASSUME NEW v \in NLWorkers, v # w PROVE OwedTo(v)'
  <2>1. OwedTo(v) /\ \A x \in NLTasks : ppc[x] = "notify" => ppc'[x] = "notify"
    BY <1>1, <1>4 DEF Owed
  <2> QED BY <1>1, <1>6, <1>7, <2>1, StillOwed
<1>8. OwedTo(w)'
  <2>1. \A k \in {"entry", "poster"} : \A x : Owes(k, x, w) => k = "poster" /\ x = p
    BY <1>o, <1>2 DEF OwedTo
  <2>2. \A k \in {"entry", "poster"} : \A x : Owes(k, x, w)' => k = "poster" /\ x = p
    BY <1>6, <2>1
  <2>3. lpc'[w] \in {"lock", "wait", "ended"} \/ (lpc'[w] = "loop" /\ ~isruning'[w])
    BY <1>3, <1>u
  <2> QED BY <1>4, <2>2, <2>3 DEF OwedTo
<1> QED BY <1>5, <1>7, <1>8 DEF Owed

LEMMA NotifyOwed ==
  ASSUME NLTypes, Owed, OneToWake, [NLNext]_nlvars, FirstRound', NEW p \in NLTasks, Notify(p)
  PROVE  Owed' /\ OneToWake'
<1>1. /\ ppc[p] = "notify" /\ slot' = slot /\ isruning' = isruning /\ task_list' = task_list
      /\ \A q \in NLTasks \ {p} : ppc'[q] = ppc[q] /\ pwake'[q] = pwake[q]
  BY NotifyFacts
<1>e. \A w \in NLWorkers : \A x : Owes("entry", x, w)' => Owes("entry", x, w)
  <2>1. \A i \in Entries : Unread(i)' => Unread(i)
    BY UnreadBefore
  <2> QED BY <1>1, <2>1 DEF Owes
<1>2. CASE pwake[p] = <<>>
  <2>1. ppc'[p] = "done" /\ lpc' = lpc /\ pwake' = pwake
    BY <1>2, NotifyFacts
  <2>2. OneToWake'
    BY <1>1, <1>2, <2>1 DEF OneToWake
  <2>3. ASSUME NEW w \in NLWorkers PROVE OwedTo(w)'
    <3>1. \A k \in {"entry", "poster"} : \A x : Owes(k, x, w)' => Owes(k, x, w)
      BY <1>1, <2>1, TokensKept
    <3>2. OwedTo(w) /\ \A x \in NLTasks : ppc[x] = "notify" /\ pwake'[x] # <<>> => ppc'[x] = "notify"
      BY <1>1, <1>2, <2>1 DEF Owed
    <3> QED BY <1>1, <2>1, <3>1, <3>2, StillOwed
  <2> QED BY <2>2, <2>3 DEF Owed
<1>3. CASE pwake[p] # <<>>
  <2>1. PICK v \in NLWorkers : v = Head(pwake[p])
    BY <1>3, NotifyFacts
  <2>2. /\ ppc' = ppc
        /\ \A w \in NLWorkers : lpc'[w] = lpc[w] \/ (w = v /\ lpc[w] = "wait" /\ lpc'[w] = "loop")
        /\ Len(pwake'[p]) = Len(pwake[p]) - 1
    BY <1>3, <2>1, NotifyFacts
  <2>3. pwake'[p] = <<>> /\ Len(pwake'[p]) = 0
    <3>1. pwake[p] \in Seq(NLWorkers) /\ pwake'[p] \in Seq(NLWorkers)
      BY StepNLTypes DEF NLTypes
    <3>2. Len(pwake[p]) \in Nat /\ Len(pwake[p]) <= 1 /\ Len(pwake'[p]) \in Nat
      BY <3>1, LenProperties DEF OneToWake
    <3>3. \A k, m \in Nat : k <= 1 /\ m = k - 1 => m = 0
      OBVIOUS
    <3>4. Len(pwake'[p]) = 0
      BY <2>2, <3>2, <3>3, Zenon
    <3> QED BY <3>1, <3>4, EmptySeq
  <2>4. OneToWake'
    BY <1>1, <2>2, <2>3 DEF OneToWake
  <2>5. \A w \in NLWorkers : \A x : Owes("poster", x, w)' => x # p /\ Owes("poster", x, w)
    BY <1>1, <2>3 DEF Owes
  <2>6. Owes("poster", p, v)
    BY <1>3, <2>1 DEF Owes
  <2>7. ASSUME NEW w \in NLWorkers, w # v PROVE OwedTo(w)'
    <3>1. \A k \in {"entry", "poster"} : \A x : Owes(k, x, w)' => Owes(k, x, w)
      BY <1>e, <2>5
    <3>2. OwedTo(w) /\ lpc'[w] = lpc[w]
      BY <2>2, <2>7 DEF Owed
    <3> QED BY <1>1, <2>2, <3>1, <3>2, StillOwed
  <2>8. OwedTo(v)'
    <3>0. OwedTo(v)
      BY DEF Owed
    <3>1. \A k \in {"entry", "poster"} : \A x : ~Owes(k, x, v)'
      <4>1. \A k \in {"entry", "poster"} : \A x : Owes(k, x, v) => k = "poster" /\ x = p
        BY <2>6, <3>0 DEF OwedTo
      <4> QED BY <1>e, <2>5, <4>1
    <3>2. lpc'[v] \in {"pop", "entry", "register"} => slot'[v] = NoTask
      BY <1>1, <2>2, <3>0 DEF OwedTo
    <3> QED BY <3>1, <3>2, NothingOwed
  <2> QED BY <2>4, <2>7, <2>8 DEF Owed
<1> QED BY <1>2, <1>3

\* The other steps of a poster.
LEMMA PosterOwed ==
  ASSUME NLTypes, Owed, OneToWake, [NLNext]_nlvars, FirstRound',
         NEW p \in NLTasks, NLPost(p) \/ PutTask(p) \/ ReadTask(p)
  PROVE  Owed' /\ OneToWake'
<1>1. /\ pwake' = pwake /\ slot' = slot /\ lpc' = lpc /\ isruning' = isruning
      /\ \A i \in Entries : task_list'[i].worker = task_list[i].worker
      /\ \A q \in NLTasks \ {p} : ppc'[q] = ppc[q]
      /\ \/ ppc[p] = "post" /\ ppc'[p] = "put"
         \/ ppc[p] = "put" /\ ppc'[p] = "readworker"
         \/ ppc[p] = "readtask" /\ ppc'[p] = "exchange"
  <2>1. CASE NLPost(p)
    BY <2>1, PostFacts
  <2>2. CASE PutTask(p)
    BY <2>2, PutFacts
  <2>3. CASE ReadTask(p)
    BY <2>3, ReadTaskFacts
  <2> QED BY <2>1, <2>2, <2>3
<1>2. OneToWake'
  BY <1>1 DEF OneToWake
<1>3. ASSUME NEW w \in NLWorkers PROVE OwedTo(w)'
  <2>1. \A k \in {"entry", "poster"} : \A x : Owes(k, x, w)' => Owes(k, x, w)
    BY <1>1, TokensKept
  <2>2. OwedTo(w) /\ \A x \in NLTasks : ppc[x] = "notify" => ppc'[x] = "notify"
    BY <1>1 DEF Owed
  <2> QED BY <1>1, <2>1, <2>2, StillOwed
<1> QED BY <1>2, <1>3 DEF Owed

LEMMA RegisterOwed ==
  ASSUME NLTypes, Owed, [NLNext]_nlvars, FirstRound', NEW w \in NLWorkers, Register(w)
  PROVE  Owed'
<1>p. PICK i \in Entries : i = lidx[w]
  BY DEF NLTypes
<1>1. /\ lpc[w] = "register" /\ lpc'[w] = "lock"
      /\ \A j \in Entries \ {i} : task_list'[j].worker = task_list[j].worker
      /\ task_list'[i].worker = w
      /\ \A v \in NLWorkers \ {w} : lpc'[v] = lpc[v]
      /\ slot' = slot /\ isruning' = isruning /\ ppc' = ppc /\ pwake' = pwake
  BY <1>p, RegisterFacts
<1>2. ASSUME NEW v \in NLWorkers, v # w PROVE OwedTo(v)'
  <2>1. \A j \in Entries : task_list'[j].worker = v => task_list[j].worker = v
    BY <1>1, <1>2
  <2>2. \A k \in {"entry", "poster"} : \A x : Owes(k, x, v)' => Owes(k, x, v)
    BY <1>1, <2>1, TokensKept
  <2>3. OwedTo(v)
    BY DEF Owed
  <2> QED BY <1>1, <1>2, <2>2, <2>3, StillOwed
<1>3. OwedTo(w)'
  <2>1. OwedTo(w)
    BY DEF Owed
  <2>2. \A k \in {"entry", "poster"} : \A x : ~Owes(k, x, w)
    BY <1>1, <2>1, NotOwed
  <2>3. slot'[w] = NoTask
    BY <1>1, <2>1 DEF OwedTo
  <2>4. \A x : Owes("poster", x, w)' => Owes("poster", x, w)
    BY <1>1 DEF Owes
  <2>5. \A x : Owes("entry", x, w)' => x = i
    <3>1. \A j \in Entries : Unread(j)' => Unread(j)
      BY UnreadBefore
    <3>2. \A x : Owes("entry", x, w)' /\ x # i => Owes("entry", x, w)
      BY <1>1, <3>1 DEF Owes
    <3> QED BY <2>2, <3>2
  <2>6. \A k \in {"entry", "poster"} : \A x : Owes(k, x, w)' => k = "entry" /\ x = i
    BY <2>2, <2>4, <2>5
  <2> QED BY <1>1, <2>3, <2>6 DEF OwedTo
<1> QED BY <1>2, <1>3 DEF Owed

\* A step of a worker that leaves the entries' workers and all other workers
\* alone.
LEMMA OthersOwed ==
  ASSUME NLTypes, Owed, [NLNext]_nlvars, FirstRound', NEW w \in NLWorkers,
         \A v \in NLWorkers \ {w} : lpc'[v] = lpc[v] /\ slot'[v] = slot[v] /\ isruning'[v] = isruning[v],
         \A i \in Entries : task_list'[i].worker = task_list[i].worker, pwake' = pwake, ppc' = ppc
  PROVE  /\ \A v \in NLWorkers \ {w} : OwedTo(v)'
         /\ \A k \in {"entry", "poster"} : \A x : Owes(k, x, w)' => Owes(k, x, w)
<1>1. \A v \in NLWorkers : \A k \in {"entry", "poster"} : \A x : Owes(k, x, v)' => Owes(k, x, v)
  BY TokensKept
<1>2. \A v \in NLWorkers : OwedTo(v)
  BY DEF Owed
<1> QED BY <1>1, <1>2, StillOwed

LEMMA WorkerOwed ==
  ASSUME NLTypes, Owed, [NLNext]_nlvars, FirstRound', interrupts' = 0, NEW w \in NLWorkers,
         WorkerStep(w) \/ InterruptedWait(w) \/ Stop(w)
  PROVE  Owed'
<1>o. OwedTo(w)
  BY DEF Owed
<1>1. CASE TakeOwn(w)
  <2>1. /\ lpc[w] = "loop"
        /\ \A v \in NLWorkers \ {w} : lpc'[v] = lpc[v] /\ slot'[v] = slot[v]
        /\ isruning' = isruning /\ task_list' = task_list /\ pwake' = pwake /\ ppc' = ppc
        /\ \/ ~isruning[w] /\ lpc'[w] = "ended" /\ slot' = slot
           \/ isruning[w] /\ slot'[w] = NoTask
    BY <1>1, TakeOwnFacts
  <2>2. /\ \A v \in NLWorkers \ {w} : OwedTo(v)'
        /\ \A k \in {"entry", "poster"} : \A x : Owes(k, x, w)' => Owes(k, x, w)
    BY <2>1, OthersOwed
  <2>3. OwedTo(w)'
    <3>1. CASE ~isruning[w] /\ lpc'[w] = "ended" /\ slot' = slot
      BY <1>o, <2>1, <2>2, <3>1, StillOwed
    <3>2. CASE isruning[w] /\ slot'[w] = NoTask
      <4>1. \A k \in {"entry", "poster"} : \A x : ~Owes(k, x, w)'
        BY <1>o, <2>1, <2>2, <3>2, NotOwed
      <4> QED BY <3>2, <4>1, NothingOwed
    <3> QED BY <2>1, <3>1, <3>2
  <2> QED BY <2>2, <2>3 DEF Owed
<1>2. CASE PopIndex(w) \/ PopEntry(w)
  <2>1. /\ \A v \in NLWorkers \ {w} : lpc'[v] = lpc[v]
        /\ \A i \in Entries : task_list'[i].worker = task_list[i].worker
        /\ slot' = slot /\ isruning' = isruning /\ pwake' = pwake /\ ppc' = ppc
        /\ lpc[w] \in {"pop", "entry"}
    <3>1. CASE PopIndex(w)
      BY <3>1, PopIndexFacts
    <3>2. CASE PopEntry(w)
      BY <3>2, PopEntryFacts
    <3> QED BY <1>2, <3>1, <3>2
  <2>2. /\ \A v \in NLWorkers \ {w} : OwedTo(v)'
        /\ \A k \in {"entry", "poster"} : \A x : Owes(k, x, w)' => Owes(k, x, w)
    BY <2>1, OthersOwed
  <2>3. \A k \in {"entry", "poster"} : \A x : ~Owes(k, x, w)'
    BY <1>o, <2>1, <2>2, NotOwed
  <2>4. slot'[w] = NoTask
    BY <1>o, <2>1 DEF OwedTo
  <2>5. OwedTo(w)'
    BY <2>3, <2>4, NothingOwed
  <2> QED BY <2>2, <2>5 DEF Owed
<1>3. CASE Register(w)
  BY <1>3, RegisterOwed
<1>4. CASE Run(w)
  <2>1. /\ \A v \in NLWorkers \ {w} : lpc'[v] = lpc[v]
        /\ task_list' = task_list /\ slot' = slot /\ isruning' = isruning /\ pwake' = pwake /\ ppc' = ppc
        /\ lpc[w] = "run" /\ lpc'[w] = "loop"
    BY <1>4, RunFacts
  <2>2. /\ \A v \in NLWorkers \ {w} : OwedTo(v)'
        /\ \A k \in {"entry", "poster"} : \A x : Owes(k, x, w)' => Owes(k, x, w)
    BY <2>1, OthersOwed
  <2>3. \A k \in {"entry", "poster"} : \A x : ~Owes(k, x, w)'
    BY <1>o, <2>1, <2>2, NotOwed
  <2>4. OwedTo(w)'
    BY <2>1, <2>3, NothingOwed
  <2> QED BY <2>2, <2>4 DEF Owed
<1>5. CASE Wait(w) \/ InterruptedWait(w) \/ Stop(w)
  <2>n. interrupts \in Nat
    BY DEF NLTypes
  <2>1. /\ \A v \in NLWorkers \ {w} : lpc'[v] = lpc[v] /\ isruning'[v] = isruning[v]
        /\ task_list' = task_list /\ slot' = slot /\ pwake' = pwake /\ ppc' = ppc
        /\ \/ lpc[w] = "lock" /\ lpc'[w] = "wait" /\ isruning' = isruning
           \/ interrupts' = interrupts + 1
           \/ ~isruning'[w] /\ lpc'[w] = IF lpc[w] = "wait" THEN "loop" ELSE lpc[w]
    BY <1>5, WorkerFacts
  <2>2. /\ \A v \in NLWorkers \ {w} : OwedTo(v)'
        /\ \A k \in {"entry", "poster"} : \A x : Owes(k, x, w)' => Owes(k, x, w)
    BY <2>1, OthersOwed
  <2>3. OwedTo(w)'
    <3>1. CASE lpc[w] = "lock" /\ lpc'[w] = "wait" /\ isruning' = isruning
      BY <1>o, <2>1, <2>2, <3>1, StillOwed
    <3>2. interrupts' # interrupts + 1
      BY <2>n
    <3>3. CASE ~isruning'[w] /\ lpc'[w] = IF lpc[w] = "wait" THEN "loop" ELSE lpc[w]
      <4>1. \A k, l \in {"entry", "poster"} : \A x, y : Owes(k, x, w)' /\ Owes(l, y, w)' => k = l /\ x = y
        BY <1>o, <2>2 DEF OwedTo
      <4>2. lpc'[w] \in {"pop", "entry", "register"} => slot'[w] = NoTask
        BY <1>o, <2>1, <3>3 DEF OwedTo
      <4>3. ASSUME NEW k \in {"entry", "poster"}, NEW x, Owes(k, x, w)'
            PROVE  /\ lpc'[w] \in {"lock", "wait", "ended"} \/ (lpc'[w] = "loop" /\ ~isruning'[w])
                   /\ (k = "poster" /\ ppc'[x] = "notify") \/ slot'[w] = NoTask
        <5>1. /\ lpc[w] \in {"lock", "wait", "ended", "loop"}
              /\ (k = "poster" /\ ppc[x] = "notify") \/ slot[w] = NoTask
          BY <1>o, <2>2, <4>3 DEF OwedTo
        <5> QED BY <2>1, <3>3, <5>1
      <4> QED BY <4>1, <4>2, <4>3 DEF OwedTo
    <3> QED BY <2>1, <3>1, <3>2, <3>3
  <2> QED BY <2>2, <2>3 DEF Owed
<1> QED BY <1>1, <1>2, <1>3, <1>4, <1>5 DEF WorkerStep

LEMMA StepOwed ==
  ASSUME NLTypes, OwnPoster, Owed, OneToWake, [NLNext]_nlvars, FirstRound', interrupts' = 0
  PROVE  Owed' /\ OneToWake'
<1>1. ASSUME NEW p \in NLTasks, PosterStep(p) PROVE Owed' /\ OneToWake'
  BY <1>1, PosterOwed, ReadWorkerOwed, ExchangeOwed, NotifyOwed DEF PosterStep
<1>2. ASSUME NEW w \in NLWorkers, WorkerStep(w) \/ InterruptedWait(w) \/ Stop(w) PROVE Owed' /\ OneToWake'
  <2>1. Owed'
    BY <1>2, WorkerOwed
  <2>2. ppc' = ppc /\ pwake' = pwake
    BY <1>2 DEF WorkerStep, TakeOwn, PopIndex, PopEntry, Register, Wait, Run, InterruptedWait, Stop, nlpost
  <2> QED BY <2>1, <2>2 DEF OneToWake
<1>3. CASE UNCHANGED nlvars
  BY <1>3 DEF nlvars, nlpost, Owed, OwedTo, Owes, Unread, OneToWake
<1> QED BY <1>1, <1>2, <1>3 DEF NLNext

LEMMA NLInitInv == NLInit => NLInv
<1> SUFFICES ASSUME NLInit PROVE NLInv
  OBVIOUS
<1>0. Capacity \in Nat \ {0} /\ 0 \in Entries /\ NoTask \notin NLTasks
  BY NoLockWorkPoolAssumption DEF Entries
<1>1. /\ \A i \in Entries : task_list[i]._task = NoTask /\ task_list[i].worker = NoWorker
      /\ \A w \in NLWorkers : slot[w] = NoTask /\ ltask[w] = NoTask /\ lpc[w] = "loop" /\ isruning[w]
      /\ \A t \in NLTasks : ppc[t] = "post" /\ ptask[t] = t /\ pwake[t] = <<>> /\ runs[t] = 0
      /\ producer_id = 0 /\ cusume_id = 0 /\ interrupts = 0
  BY DEF NLInit
<1>2. NLTypes
  BY <1>0 DEF NLInit, NLTypes, NLTypeOK
<1>3. OwnPoster /\ OwnWorker /\ WorkerAfterPop
  BY <1>1 DEF OwnPoster, OwnWorker, WorkerAfterPop, AtEntry, Popping
<1>4. OncePlaced
  <2> SUFFICES ASSUME NEW t \in NLTasks
               PROVE  /\ \A k \in Kinds : \A x : Has(k, x, t) => k = "poster" /\ x = t
                      /\ runs[t] <= 1
    BY DEF OncePlaced
  <2>1. \A k \in Kinds : \A x : Has(k, x, t) => k = "poster" /\ x = t
    BY <1>0, <1>1 DEF Has, Kinds
  <2>2. runs[t] = 0 /\ 0 <= 1
    BY <1>1
  <2> QED BY <2>1, <2>2
<1>5. Owed /\ OneToWake
  <2>1. \A w \in NLWorkers : \A k \in {"entry", "poster"} : \A x : ~Owes(k, x, w)
    BY <1>1, NoLockWorkPoolAssumption DEF Owes
  <2>2. Owed
    BY <1>1, <2>1 DEF Owed, OwedTo
  <2>3. \A t \in NLTasks : pwake[t] = <<>> /\ Len(pwake[t]) <= 1
    BY <1>1
  <2> QED BY <2>2, <2>3 DEF OneToWake
<1> QED BY <1>2, <1>3, <1>4, <1>5 DEF NLInv, FirstRoundInv, NotInterruptedInv

LEMMA NLStepInv == NLInv /\ [NLNext]_nlvars => NLInv'
<1> SUFFICES ASSUME NLInv, [NLNext]_nlvars PROVE NLInv'
  OBVIOUS
<1>1. NLTypes /\ NLTypes'
  BY StepNLTypes DEF NLInv
<1>2. FirstRoundInv'
  <2> SUFFICES ASSUME FirstRound' PROVE (OwnPoster /\ OwnWorker /\ WorkerAfterPop /\ OncePlaced)'
    BY DEF FirstRoundInv
  <2>1. OwnPoster /\ OwnWorker /\ WorkerAfterPop /\ OncePlaced
    BY <1>1, StillFirstRound DEF NLInv, FirstRoundInv
  <2> QED BY <1>1, <2>1, StepOwnPoster, StepOwnWorker, StepWorkerAfterPop, StepOncePlaced
<1>3. NotInterruptedInv'
  <2> SUFFICES ASSUME FirstRound', interrupts' = 0 PROVE (Owed /\ OneToWake)'
    BY DEF NotInterruptedInv
  <2>1. OwnPoster /\ Owed /\ OneToWake
    BY <1>1, StillFirstRound DEF NLInv, FirstRoundInv, NotInterruptedInv
  <2> QED BY <1>1, <2>1, StepOwed
<1> QED BY <1>1, <1>2, <1>3 DEF NLInv

\* In the first round of the ring no task runs twice, although Put leaves a
\* task that it hands to a worker in the entry as well, and RunTask finds the
\* worker's slot empty unless a wait was interrupted, as the code's comment
\* "this should be never happen" expects.
THEOREM FirstRoundIsSafe == NLSpec => []FirstRoundSafe
<1>1. NLInv => FirstRoundSafe
  <2> SUFFICES ASSUME NLInv PROVE FirstRoundSafe
    OBVIOUS
  <2>1. NLTypeOK
    BY DEF NLInv, NLTypes
  <2>2. FirstRoundRunsOnce
    BY DEF FirstRoundRunsOnce, NLInv, FirstRoundInv, OncePlaced
  <2>3. FirstRoundSlotEmpty
    <3> SUFFICES ASSUME NEW p \in NLTasks, FirstRound, interrupts = 0, ppc[p] = "exchange"
                 PROVE  slot[Head(pwake[p])] = NoTask
      BY DEF FirstRoundSlotEmpty
    <3>1. pwake[p] # <<>> /\ pwake[p] \in Seq(NLWorkers)
      BY DEF NLInv, NLTypes
    <3>2. PICK w \in NLWorkers : w = Head(pwake[p])
      BY <3>1, HeadTailProperties
    <3>3. Owes("poster", p, w)
      BY <3>1, <3>2 DEF Owes
    <3>4. OwedTo(w)
      BY DEF NLInv, NotInterruptedInv, Owed
    <3> QED BY <3>2, <3>3, <3>4 DEF OwedTo
  <2> QED BY <2>1, <2>2, <2>3 DEF FirstRoundSafe
<1> QED BY <1>1, NLInitInv, NLStepInv, PTL DEF NLSpec
-----------------------------------------------------------------------------
(* ServerState.  MapThenSumSet adds up TimeOf over a finite set in an order*)
(* of its own.  Sums says what the sums of the subsets are; there is no    *)
(* smallest set without such sums, and none where MapThenSumSet differs.   *)

Total(S) == MapThenSumSet(LAMBDA c : TimeOf[c], S)

Sums(g, S) ==
  /\ g \in [SUBSET S -> Nat] /\ g[{}] = 0
  /\ \A s \in SUBSET S : \A x \in s : g[s] = TimeOf[x] + g[s \ {x}]

\* A set of numbers that is not empty has a least one.
LEMMA LeastOf ==
  ASSUME NEW N \in SUBSET Nat, N # {}
  PROVE  \E k \in N : \A j \in N : k <= j
<1>1. PICK k \in N : \A j \in N : <<j, k>> \notin OpToRel(<, Nat)
  BY NatLessThanWellFounded, WFMin
<1>2. \A j \in N : ~ (j < k)
  BY <1>1 DEF OpToRel
<1> QED BY <1>2

\* A set of finite sets that is not empty has a smallest member.
LEMMA SmallestSet ==
  ASSUME NEW T, T # {}, \A s \in T : IsFiniteSet(s)
  PROVE  \E s \in T : \A t \in T : Cardinality(s) <= Cardinality(t)
<1> DEFINE N == {Cardinality(s) : s \in T}
<1>1. N \in SUBSET Nat
  BY FS_CardinalityType
<1>2. N # {}
  OBVIOUS
<1> HIDE DEF N
<1>3. PICK n \in N : \A m \in N : n <= m
  BY <1>1, <1>2, LeastOf
<1> QED BY <1>3 DEF N

LEMMA OneLess ==
  ASSUME NEW s, IsFiniteSet(s), NEW x \in s
  PROVE  /\ IsFiniteSet(s \ {x}) /\ Cardinality(s \ {x}) \in Nat /\ Cardinality(s) \in Nat
         /\ ~ (Cardinality(s) <= Cardinality(s \ {x}))
<1>1. IsFiniteSet(s \ {x}) /\ Cardinality(s \ {x}) = Cardinality(s) - 1
  BY FS_RemoveElement
<1>2. Cardinality(s \ {x}) \in Nat /\ Cardinality(s) \in Nat
  BY <1>1, FS_CardinalityType
<1> QED BY <1>1, <1>2

LEMMA SumsAdd ==
  ASSUME NEW S \in SUBSET Calls, NEW c \in Calls \ S, NEW g, Sums(g, S)
  PROVE  \E h : Sums(h, S \cup {c}) /\ h[S \cup {c}] = g[S] + TimeOf[c]
<1> DEFINE h == [s \in SUBSET (S \cup {c}) |-> IF c \in s THEN TimeOf[c] + g[s \ {c}] ELSE g[s]]
<1>1. \A x \in Calls : TimeOf[x] \in Nat
  BY ServerStateAssumption
<1>2. g \in [SUBSET S -> Nat] /\ g[{}] = 0
  BY DEF Sums
<1>3. \A s \in SUBSET (S \cup {c}) : (c \in s => s \ {c} \in SUBSET S) /\ (c \notin s => s \in SUBSET S)
  OBVIOUS
<1>4. h \in [SUBSET (S \cup {c}) -> Nat] /\ h[{}] = 0
  BY <1>1, <1>2, <1>3
<1>5. ASSUME NEW s \in SUBSET (S \cup {c}), NEW x \in s PROVE h[s] = TimeOf[x] + h[s \ {x}]
  <2>0. s \ {x} \in SUBSET (S \cup {c}) /\ x \in Calls
    OBVIOUS
  <2>1. CASE x = c
    <3>1. h[s] = TimeOf[c] + g[s \ {c}] /\ h[s \ {c}] = g[s \ {c}]
      BY <2>0, <2>1
    <3> QED BY <2>1, <3>1
  <2>2. CASE x # c /\ c \in s
    <3>1. h[s] = TimeOf[c] + g[s \ {c}] /\ h[s \ {x}] = TimeOf[c] + g[(s \ {x}) \ {c}]
      BY <2>0, <2>2
    <3>2. g[s \ {c}] = TimeOf[x] + g[(s \ {c}) \ {x}]
      BY <1>3, <2>2 DEF Sums
    <3>3. (s \ {x}) \ {c} = (s \ {c}) \ {x} /\ (s \ {c}) \ {x} \in SUBSET S
      BY <1>3, <2>2
    <3>4. g[(s \ {c}) \ {x}] \in Nat /\ TimeOf[x] \in Nat /\ TimeOf[c] \in Nat
      BY <1>1, <1>2, <2>0, <3>3
    <3> HIDE DEF h
    <3>5. \A k, l, m \in Nat : k + (l + m) = l + (k + m)
      OBVIOUS
    <3>6. h[s] = TimeOf[c] + (TimeOf[x] + g[(s \ {c}) \ {x}])
      BY <3>1, <3>2, Zenon
    <3>7. TimeOf[x] + h[s \ {x}] = TimeOf[x] + (TimeOf[c] + g[(s \ {c}) \ {x}])
      BY <3>1, <3>3, Zenon
    <3> QED BY <3>4, <3>5, <3>6, <3>7, Zenon
  <2>3. CASE c \notin s
    <3>1. h[s] = g[s] /\ h[s \ {x}] = g[s \ {x}]
      BY <2>0, <2>3
    <3>2. g[s] = TimeOf[x] + g[s \ {x}]
      BY <1>3, <2>3 DEF Sums
    <3> QED BY <3>1, <3>2
  <2> QED BY <2>1, <2>2, <2>3
<1>6. h[S \cup {c}] = g[S] + TimeOf[c]
  <2>1. (S \cup {c}) \ {c} = S /\ S \cup {c} \in SUBSET (S \cup {c})
    OBVIOUS
  <2>2. h[S \cup {c}] = TimeOf[c] + g[S]
    BY <2>1
  <2>3. TimeOf[c] \in Nat /\ g[S] \in Nat
    BY <1>1, <1>2
  <2> HIDE DEF h
  <2> QED BY <2>2, <2>3
<1>7. Sums(h, S \cup {c})
  BY <1>4, <1>5 DEF Sums
<1> QED BY <1>6, <1>7

LEMMA SumsExist ==
  ASSUME NEW S \in SUBSET Calls, IsFiniteSet(S)
  PROVE  \E g : Sums(g, S)
<1> DEFINE Bad == {s \in SUBSET S : ~ \E g : Sums(g, s)}
<1> SUFFICES ASSUME Bad # {} PROVE FALSE
  OBVIOUS
<1>1. \A s \in Bad : IsFiniteSet(s)
  BY FS_Subset
<1> HIDE DEF Bad
<1>2. PICK s \in Bad : \A t \in Bad : Cardinality(s) <= Cardinality(t)
  BY <1>1, SmallestSet
<1>3. s \in SUBSET S /\ ~ \E g : Sums(g, s)
  BY DEF Bad
<1>4. s # {}
  <2> SUFFICES ASSUME s = {} PROVE FALSE
    OBVIOUS
  <2>1. Sums([t \in SUBSET {} |-> 0], {})
    BY DEF Sums
  <2> QED BY <1>3, <2>1
<1>5. PICK x \in s : TRUE
  BY <1>4
<1>6. ~ (Cardinality(s) <= Cardinality(s \ {x}))
  BY <1>1, OneLess
<1>7. s \ {x} \notin Bad
  BY <1>2, <1>6
<1>8. PICK g : Sums(g, s \ {x})
  BY <1>3, <1>7 DEF Bad
<1>9. s \ {x} \in SUBSET Calls /\ x \in Calls \ (s \ {x}) /\ (s \ {x}) \cup {x} = s
  BY <1>3
<1> QED BY <1>3, <1>8, <1>9, SumsAdd

LEMMA TotalIsSum ==
  ASSUME NEW S \in SUBSET Calls, IsFiniteSet(S), NEW g, Sums(g, S)
  PROVE  Total(S) = g[S]
<1> DEFINE One(s) == CHOOSE x \in s : TRUE
           Rec(f) == f = [s \in SUBSET S |-> IF s = {} THEN 0 ELSE TimeOf[One(s)] + f[s \ {One(s)}]]
<1>1. Rec(g)
  BY DEF Sums
<1>2. PICK f : f = (CHOOSE h : Rec(h)) /\ Total(S) = f[S]
  BY DEF Total, MapThenSumSet, MapThenFoldSet
<1>3. Rec(f)
  <2> HIDE DEF Rec
  <2> QED BY <1>1, <1>2
<1> DEFINE Bad == {s \in SUBSET S : f[s] # g[s]}
<1>4. ASSUME Bad # {} PROVE FALSE
  <2>1. \A s \in Bad : IsFiniteSet(s)
    BY FS_Subset
  <2>2. PICK s \in Bad : \A t \in Bad : Cardinality(s) <= Cardinality(t)
    <3> HIDE DEF Bad
    <3> QED BY <1>4, <2>1, SmallestSet
  <2>3. s \in SUBSET S /\ f[s] # g[s]
    OBVIOUS
  <2>4. s # {}
    BY <1>1, <1>3, <2>3
  <2>5. One(s) \in s
    BY <2>4
  <2>6. ~ (Cardinality(s) <= Cardinality(s \ {One(s)}))
    <3> HIDE DEF Bad, One
    <3> QED BY <2>1, <2>5, OneLess
  <2>7. s \ {One(s)} \notin Bad
    <3> HIDE DEF Bad, One
    <3> QED BY <2>2, <2>6
  <2>8. f[s \ {One(s)}] = g[s \ {One(s)}]
    BY <2>3, <2>7
  <2> HIDE DEF Bad, One
  <2> QED BY <1>1, <1>3, <2>3, <2>4, <2>8
<1> QED BY <1>2, <1>4

\* What the average's word counts on: one more call adds its time.
LEMMA TotalAdds ==
  ASSUME NEW S \in SUBSET Calls, IsFiniteSet(S), NEW c \in Calls \ S
  PROVE  Total(S) \in Nat /\ Total(S \cup {c}) = Total(S) + TimeOf[c]
<1>1. PICK g : Sums(g, S)
  BY SumsExist
<1>2. PICK h : Sums(h, S \cup {c}) /\ h[S \cup {c}] = g[S] + TimeOf[c]
  BY <1>1, SumsAdd
<1>3. IsFiniteSet(S \cup {c}) /\ S \cup {c} \in SUBSET Calls
  BY FS_AddElement
<1>4. Total(S) = g[S]
  BY <1>1, TotalIsSum
<1>5. Total(S \cup {c}) = h[S \cup {c}]
  BY <1>2, <1>3, TotalIsSum
<1>6. g[S] \in Nat
  BY <1>1 DEF Sums
<1> QED BY <1>2, <1>4, <1>5, <1>6

LEMMA TotalEmpty == Total({}) = 0
<1>1. Sums([t \in SUBSET {} |-> 0], {})
  BY DEF Sums
<1> QED BY <1>1, TotalIsSum, FS_EmptySet

\* The largest of a set of numbers.
LEMMA MaxIs ==
  ASSUME NEW S \in SUBSET Nat, NEW m \in S, \A x \in S : x <= m
  PROVE  Max(S) = m
<1>1. \A x \in S : m >= x
  OBVIOUS
<1>2. Max(S) \in S /\ \A x \in S : Max(S) >= x
  BY <1>1 DEF Max
<1>3. Max(S) \in Nat /\ m \in Nat /\ Max(S) >= m /\ m >= Max(S)
  BY <1>1, <1>2
<1> QED BY <1>3

Times(S) == {TimeOf[c] : c \in S} \cup {0}

SumOf == [S \in SUBSET Calls |-> Total(S)]

Words == [min : Nat, max : Nat] \cup [sum : Nat, num : Nat]

\* Types; who has read a word holds the one word it read.
STTypes ==
  /\ a \in [min : Nat, max : Nat] /\ b \in [sum : Nat, num : Nat]
  /\ call \in [Calls \cup {dumper} -> {"idle", "a", "between", "b", "done"}]
  /\ old \in [Calls \cup {dumper} -> SUBSET Words]
  /\ \A c \in Calls \cup {dumper} : \A v, w \in old[c] : v = w
  /\ inA \in SUBSET Calls /\ IsFiniteSet(inA) /\ inB \in SUBSET Calls /\ IsFiniteSet(inB)
  /\ clears \in Nat

\* WordsMatchCalls, with the maximum said without Max.
InWords ==
  /\ a.min = 0 /\ a.max \in Times(inA) /\ \A n \in Times(inA) : n <= a.max
  /\ b.sum = SumOf[inB] /\ b.num = Cardinality(inB)

\* How far the calls in each word have come; a call is added to a word once.
Adding ==
  /\ \A c \in Calls : call[c] \in {"a", "between", "b"} => TimeOf[c] <= MAX_NUM
  /\ \A c \in inA : call[c] \in {"between", "b", "done"}
  /\ \A c \in inB : call[c] = "done" /\ TimeOf[c] <= MAX_NUM

\* As long as nothing was cleared.
NotCleared ==
  clears = 0 =>
    /\ call[dumper] = "idle"
    /\ \A c \in Calls : call[c] \in {"between", "b"} => c \in inA
    /\ \A c \in Calls : call[c] = "done" /\ TimeOf[c] <= MAX_NUM => c \in inB
    /\ inB \subseteq inA
    /\ b.sum <= a.max * b.num

STInv == STTypes /\ InWords /\ Adding /\ NotCleared

\* What a call or the dumper does, seen from its place.
CallMoves(c, from, to) ==
  /\ call[c] = from /\ call'[c] = to /\ \A d \in (Calls \cup {dumper}) \ {c} : call'[d] = call[d]
  /\ call' \in [Calls \cup {dumper} -> {"idle", "a", "between", "b", "done"}]
  /\ old' \in [Calls \cup {dumper} -> SUBSET Words]
  /\ \A d \in Calls \cup {dumper} : \A v, w \in old'[d] : v = w

\* A step of c, a call or the dumper: it goes on, and what it has read is the
\* word or forgotten.
LEMMA PassFacts ==
  ASSUME STTypes, NEW c \in Calls \cup {dumper}, NEW from, NEW to \in {"idle", "a", "between", "b", "done"},
         Passes(c, from, to), old' = [old EXCEPT ![c] = {}] \/ Reads(c, a) \/ Reads(c, b) \/ old' = old
  PROVE  CallMoves(c, from, to)
<1>1. /\ call \in [Calls \cup {dumper} -> {"idle", "a", "between", "b", "done"}]
      /\ old \in [Calls \cup {dumper} -> SUBSET Words]
      /\ \A d \in Calls \cup {dumper} : \A v, w \in old[d] : v = w
  BY DEF STTypes, Words
<1>2. a \in Words /\ b \in Words
  BY DEF STTypes, Words
<1>3. /\ call[c] = from /\ call'[c] = to /\ \A d \in (Calls \cup {dumper}) \ {c} : call'[d] = call[d]
      /\ call' \in [Calls \cup {dumper} -> {"idle", "a", "between", "b", "done"}]
  BY <1>1 DEF Passes
<1>4. ASSUME NEW s \in SUBSET Words, \A v, w \in s : v = w, old' = [old EXCEPT ![c] = s]
      PROVE  /\ old' \in [Calls \cup {dumper} -> SUBSET Words]
             /\ \A d \in Calls \cup {dumper} : \A v, w \in old'[d] : v = w
  BY <1>1, <1>4
<1>5. /\ old' \in [Calls \cup {dumper} -> SUBSET Words]
      /\ \A d \in Calls \cup {dumper} : \A v, w \in old'[d] : v = w
  <2>1. CASE old' = [old EXCEPT ![c] = {}]
    <3>1. {} \in SUBSET Words /\ \A v, w \in {} : v = w
      OBVIOUS
    <3> QED BY <1>4, <2>1, <3>1
  <2>2. CASE Reads(c, a)
    <3>1. old' = [old EXCEPT ![c] = {a}] /\ {a} \in SUBSET Words
      BY <1>2, <2>2 DEF Reads
    <3>2. \A v, w \in {a} : v = w
      OBVIOUS
    <3> QED BY <1>4, <3>1, <3>2
  <2>3. CASE Reads(c, b)
    <3>1. old' = [old EXCEPT ![c] = {b}] /\ {b} \in SUBSET Words
      BY <1>2, <2>3 DEF Reads
    <3>2. \A v, w \in {b} : v = w
      OBVIOUS
    <3> QED BY <1>4, <3>1, <3>2
  <2>4. CASE old' = old
    BY <1>1, <2>4
  <2> QED BY <2>1, <2>2, <2>3, <2>4
<1> QED BY <1>3, <1>5 DEF CallMoves

\* A compare-and-swap that succeeds works on the word as it is.
LEMMA SwapsIt ==
  ASSUME STTypes, NEW c \in Calls \cup {dumper}, NEW word, Swaps(c, word)
  PROVE  (CHOOSE w \in old[c] : TRUE) = word
<1>1. word \in old[c] /\ \A v, w \in old[c] : v = w
  BY DEF STTypes, Swaps
<1> QED BY <1>1

\* The steps of a call that change no word.
CallOnly(c) ==
  /\ UNCHANGED <<a, b, inA, inB, clears>>
  /\ \/ CallMoves(c, "idle", "a") /\ TimeOf[c] <= MAX_NUM
     \/ CallMoves(c, "a", "idle")
     \/ CallMoves(c, "between", "b")
     \/ CallMoves(c, "b", "between")
     \/ CallMoves(c, "idle", "done") /\ TimeOf[c] > MAX_NUM

ToA(c) ==
  /\ CallMoves(c, "a", "between") /\ a' = Extended(a, TimeOf[c]) /\ inA' = inA \cup {c}
  /\ UNCHANGED <<b, inB, clears>>

ToB(c) ==
  /\ CallMoves(c, "b", "done") /\ b' = Added(b, TimeOf[c]) /\ inB' = inB \cup {c}
  /\ UNCHANGED <<a, inA, clears>>

\* The steps of the dumper.
DumperOnly ==
  /\ UNCHANGED <<a, b, inA, inB>>
  /\ \/ CallMoves(dumper, "idle", "a") /\ clears' = clears + 1
     \/ \E from \in {"a", "between", "b"}, to \in {"a", "b"} : CallMoves(dumper, from, to) /\ clears' = clears

ZeroA == /\ CallMoves(dumper, "a", "between") /\ a' = [min |-> 0, max |-> 0] /\ inA' = {}
         /\ UNCHANGED <<b, inB, clears>>
ZeroB == /\ CallMoves(dumper, "b", "idle") /\ b' = [sum |-> 0, num |-> 0] /\ inB' = {}
         /\ UNCHANGED <<a, inA, clears>>

LEMMA STKinds ==
  ASSUME STTypes, STNext
  PROVE  \/ \E c \in Calls : CallOnly(c) \/ ToA(c) \/ ToB(c)
         \/ DumperOnly \/ ZeroA \/ ZeroB
<1>1. ASSUME NEW c \in Calls, ReadA(c) \/ ReadB(c) \/ Refused(c) PROVE CallOnly(c)
  <2>1. CASE ReadA(c)
    <3>1. CallMoves(c, "idle", "a")
      BY <2>1, PassFacts DEF ReadA
    <3> QED BY <2>1, <3>1 DEF ReadA, CallOnly
  <2>2. CASE ReadB(c)
    <3>1. CallMoves(c, "between", "b")
      BY <2>2, PassFacts DEF ReadB
    <3> QED BY <2>2, <3>1 DEF ReadB, CallOnly
  <2>3. CASE Refused(c)
    <3>1. CallMoves(c, "idle", "done")
      BY <2>3, PassFacts DEF Refused
    <3> QED BY <2>3, <3>1 DEF Refused, CallOnly
  <2> QED BY <1>1, <2>1, <2>2, <2>3
<1>2. ASSUME NEW c \in Calls, SwapA(c) PROVE CallOnly(c) \/ ToA(c)
  <2>1. CASE Swaps(c, a)
    <3>1. CallMoves(c, "a", "between")
      BY <1>2, <2>1, PassFacts DEF SwapA
    <3>2. (CHOOSE w \in old[c] : TRUE) = a
      BY <2>1, SwapsIt
    <3> QED BY <1>2, <2>1, <3>1, <3>2 DEF SwapA, ToA
  <2>2. CASE ~Swaps(c, a)
    <3>1. CallMoves(c, "a", "idle")
      BY <1>2, <2>2, PassFacts DEF SwapA
    <3> QED BY <1>2, <2>2, <3>1 DEF SwapA, CallOnly
  <2> QED BY <2>1, <2>2
<1>3. ASSUME NEW c \in Calls, SwapB(c) PROVE CallOnly(c) \/ ToB(c)
  <2>1. CASE Swaps(c, b)
    <3>1. CallMoves(c, "b", "done")
      BY <1>3, <2>1, PassFacts DEF SwapB
    <3>2. (CHOOSE w \in old[c] : TRUE) = b
      BY <2>1, SwapsIt
    <3> QED BY <1>3, <2>1, <3>1, <3>2 DEF SwapB, ToB
  <2>2. CASE ~Swaps(c, b)
    <3>1. CallMoves(c, "b", "between")
      BY <1>3, <2>2, PassFacts DEF SwapB
    <3> QED BY <1>3, <2>2, <3>1 DEF SwapB, CallOnly
  <2> QED BY <2>1, <2>2
<1>4. ASSUME ClearReadA \/ ClearReadB PROVE DumperOnly
  <2>1. CASE ClearReadA
    <3>1. CallMoves(dumper, "idle", "a")
      BY <2>1, PassFacts DEF ClearReadA, ClearRead
    <3> QED BY <2>1, <3>1 DEF ClearReadA, ClearRead, DumperOnly
  <2>2. CASE ClearReadB
    <3>1. CallMoves(dumper, "between", "b")
      BY <2>2, PassFacts DEF ClearReadB, ClearRead
    <3> QED BY <2>2, <3>1 DEF ClearReadB, ClearRead, DumperOnly
  <2> QED BY <1>4, <2>1, <2>2
<1>5. ASSUME ClearSwapA PROVE DumperOnly \/ ZeroA
  <2>1. CASE Swaps(dumper, a)
    <3>1. CallMoves(dumper, "a", "between")
      BY <1>5, <2>1, PassFacts DEF ClearSwapA
    <3> QED BY <1>5, <2>1, <3>1 DEF ClearSwapA, ZeroA
  <2>2. CASE ~Swaps(dumper, a)
    <3>1. CallMoves(dumper, "a", "a")
      BY <1>5, <2>2, PassFacts DEF ClearSwapA
    <3> QED BY <1>5, <2>2, <3>1 DEF ClearSwapA, DumperOnly
  <2> QED BY <2>1, <2>2
<1>6. ASSUME ClearSwapB PROVE DumperOnly \/ ZeroB
  <2>1. CASE Swaps(dumper, b)
    <3>1. CallMoves(dumper, "b", "idle")
      BY <1>6, <2>1, PassFacts DEF ClearSwapB
    <3> QED BY <1>6, <2>1, <3>1 DEF ClearSwapB, ZeroB
  <2>2. CASE ~Swaps(dumper, b)
    <3>1. CallMoves(dumper, "b", "b")
      BY <1>6, <2>2, PassFacts DEF ClearSwapB
    <3> QED BY <1>6, <2>2, <3>1 DEF ClearSwapB, DumperOnly
  <2> QED BY <2>1, <2>2
<1> QED BY <1>1, <1>2, <1>3, <1>4, <1>5, <1>6 DEF STNext

\* Every kind of step but ToB leaves the sum alone, as ToB leaves the maximum.
LEMMA ExtendedIs ==
  ASSUME STTypes, InWords, NEW c \in Calls
  PROVE  /\ Extended(a, TimeOf[c]) \in [min : Nat, max : Nat]
         /\ Extended(a, TimeOf[c]).min = 0
         /\ Extended(a, TimeOf[c]).max = IF a.max < TimeOf[c] THEN TimeOf[c] ELSE a.max
<1>1. a.min = 0 /\ a.max \in Nat /\ TimeOf[c] \in Nat
  BY ServerStateAssumption DEF STTypes, InWords
<1>2. Min({0, TimeOf[c]}) = 0
  <2>1. 0 \in {0, TimeOf[c]} /\ \A y \in {0, TimeOf[c]} : 0 =< y
    BY <1>1
  <2>2. Min({0, TimeOf[c]}) \in {0, TimeOf[c]} /\ \A y \in {0, TimeOf[c]} : Min({0, TimeOf[c]}) =< y
    BY <2>1 DEF Min
  <2> QED BY <1>1, <2>2
<1>3. CASE a.max < TimeOf[c]
  <2>1. Max({a.max, TimeOf[c]}) = TimeOf[c]
    <3>1. {a.max, TimeOf[c]} \in SUBSET Nat /\ TimeOf[c] \in {a.max, TimeOf[c]}
          /\ \A x \in {a.max, TimeOf[c]} : x <= TimeOf[c]
      BY <1>1, <1>3
    <3> QED BY <3>1, MaxIs
  <2> QED BY <1>1, <1>2, <1>3, <2>1 DEF Extended
<1>4. CASE ~(a.max < TimeOf[c])
  <2>1. Max({a.max, TimeOf[c]}) = a.max
    <3>1. {a.max, TimeOf[c]} \in SUBSET Nat /\ a.max \in {a.max, TimeOf[c]}
          /\ \A x \in {a.max, TimeOf[c]} : x <= a.max
      BY <1>1, <1>4
    <3> QED BY <3>1, MaxIs
  <2> QED BY <1>1, <1>2, <1>4, <2>1 DEF Extended
<1> QED BY <1>3, <1>4

LEMMA StepSTTypes ==
  ASSUME STTypes, InWords, STNext
  PROVE  STTypes'
<1>t. /\ a \in [min : Nat, max : Nat] /\ b \in [sum : Nat, num : Nat] /\ clears \in Nat
      /\ inA \in SUBSET Calls /\ IsFiniteSet(inA) /\ inB \in SUBSET Calls /\ IsFiniteSet(inB)
  BY DEF STTypes
<1> DEFINE Moved == /\ call' \in [Calls \cup {dumper} -> {"idle", "a", "between", "b", "done"}]
                    /\ old' \in [Calls \cup {dumper} -> SUBSET Words]
                    /\ \A d \in Calls \cup {dumper} : \A v, w \in old'[d] : v = w
<1>m. \A c, from, to : CallMoves(c, from, to) => Moved
  BY DEF CallMoves
<1> HIDE DEF Moved
<1>1. ASSUME NEW c \in Calls, CallOnly(c) PROVE STTypes'
  <2>1. Moved /\ UNCHANGED <<a, b, inA, inB, clears>>
    BY <1>1, <1>m DEF CallOnly
  <2> QED BY <1>t, <2>1 DEF STTypes, Moved
<1>2. ASSUME NEW c \in Calls, ToA(c) PROVE STTypes'
  <2>1. Moved /\ UNCHANGED <<b, inB, clears>>
    BY <1>2, <1>m DEF ToA
  <2>2. a' \in [min : Nat, max : Nat]
    BY <1>2, ExtendedIs DEF ToA
  <2>3. inA' \in SUBSET Calls /\ IsFiniteSet(inA')
    BY <1>2, <1>t, FS_AddElement DEF ToA
  <2> QED BY <1>t, <2>1, <2>2, <2>3 DEF STTypes, Moved
<1>3. ASSUME NEW c \in Calls, ToB(c) PROVE STTypes'
  <2>1. Moved /\ UNCHANGED <<a, inA, clears>>
    BY <1>3, <1>m DEF ToB
  <2>2. b' \in [sum : Nat, num : Nat]
    BY <1>3, <1>t, ServerStateAssumption DEF ToB, Added
  <2>3. inB' \in SUBSET Calls /\ IsFiniteSet(inB')
    BY <1>3, <1>t, FS_AddElement DEF ToB
  <2> QED BY <1>t, <2>1, <2>2, <2>3 DEF STTypes, Moved
<1>4. ASSUME DumperOnly PROVE STTypes'
  <2>1. Moved /\ UNCHANGED <<a, b, inA, inB>> /\ clears' \in {clears, clears + 1}
    BY <1>4, <1>m DEF DumperOnly
  <2>2. clears' \in Nat
    BY <1>t, <2>1
  <2> QED BY <1>t, <2>1, <2>2 DEF STTypes, Moved
<1>5. ASSUME ZeroA PROVE STTypes'
  <2>1. Moved /\ UNCHANGED <<b, inB, clears>>
    BY <1>5, <1>m DEF ZeroA
  <2>2. a' \in [min : Nat, max : Nat] /\ inA' \in SUBSET Calls /\ IsFiniteSet(inA')
    BY <1>5, FS_EmptySet DEF ZeroA
  <2> QED BY <1>t, <2>1, <2>2 DEF STTypes, Moved
<1>6. ASSUME ZeroB PROVE STTypes'
  <2>1. Moved /\ UNCHANGED <<a, inA, clears>>
    BY <1>6, <1>m DEF ZeroB
  <2>2. b' \in [sum : Nat, num : Nat] /\ inB' \in SUBSET Calls /\ IsFiniteSet(inB')
    BY <1>6, FS_EmptySet DEF ZeroB
  <2> QED BY <1>t, <2>1, <2>2 DEF STTypes, Moved
<1> QED BY <1>1, <1>2, <1>3, <1>4, <1>5, <1>6, STKinds

LEMMA StepInWords ==
  ASSUME STTypes, InWords, Adding, STNext
  PROVE  InWords'
<1> DEFINE InA == a.min = 0 /\ a.max \in Times(inA) /\ \A n \in Times(inA) : n <= a.max
           InB == b.sum = SumOf[inB] /\ b.num = Cardinality(inB)
<1>i. InA /\ InB
  BY DEF InWords
<1>w. InA' /\ InB' => InWords'
  BY DEF InWords
<1>a. UNCHANGED <<a, inA>> => InA'
  BY <1>i DEF Times
<1>b. UNCHANGED <<b, inB>> => InB'
  BY <1>i
<1>1. ASSUME NEW c \in Calls, ToA(c) PROVE InA'
  <2>1. a' = Extended(a, TimeOf[c]) /\ inA' = inA \cup {c}
    BY <1>1 DEF ToA
  <2>2. Times(inA') = Times(inA) \cup {TimeOf[c]}
    BY <2>1 DEF Times
  <2>3. a'.min = 0 /\ a'.max = IF a.max < TimeOf[c] THEN TimeOf[c] ELSE a.max
    BY <2>1, ExtendedIs
  <2>4. a.max \in Nat /\ TimeOf[c] \in Nat /\ Times(inA) \in SUBSET Nat
    BY ServerStateAssumption DEF STTypes, Times
  <2>5. \A x, y, z \in Nat : z = (IF x < y THEN y ELSE x) => z \in {x, y} /\ x <= z /\ y <= z
    OBVIOUS
  <2>6. \A x, y, z \in Nat : x <= y /\ y <= z => x <= z
    OBVIOUS
  <2>7. a'.max \in {a.max, TimeOf[c]} /\ a.max <= a'.max /\ TimeOf[c] <= a'.max /\ a'.max \in Nat
    BY <2>3, <2>4, <2>5
  <2>8. \A n \in Times(inA') : n <= a'.max
    <3> TAKE n \in Times(inA')
    <3>1. CASE n = TimeOf[c]
      BY <2>7, <3>1
    <3>2. CASE n \in Times(inA)
      <4>1. n <= a.max /\ n \in Nat
        BY <1>i, <2>4, <3>2
      <4> QED BY <2>4, <2>6, <2>7, <4>1
    <3> QED BY <2>2, <3>1, <3>2
  <2>9. a'.max \in Times(inA')
    BY <1>i, <2>2, <2>7
  <2> QED BY <2>3, <2>8, <2>9 DEF Times
<1>2. ASSUME NEW c \in Calls, ToB(c) PROVE InB'
  <2>1. b' = Added(b, TimeOf[c]) /\ inB' = inB \cup {c} /\ call[c] = "b"
    BY <1>2 DEF ToB, CallMoves
  <2>2. c \notin inB
    BY <2>1 DEF Adding
  <2>3. inB \in SUBSET Calls /\ IsFiniteSet(inB)
    BY DEF STTypes
  <2>4. Total(inB \cup {c}) = Total(inB) + TimeOf[c]
    BY <2>2, <2>3, TotalAdds
  <2>5. Cardinality(inB \cup {c}) = Cardinality(inB) + 1
    BY <2>2, <2>3, FS_AddElement
  <2>6. b'.sum = b.sum + TimeOf[c] /\ b'.num = b.num + 1
    BY <2>1 DEF Added
  <2>7. SumOf[inB \cup {c}] = Total(inB \cup {c}) /\ SumOf[inB] = Total(inB)
    BY <2>3 DEF SumOf
  <2> QED BY <1>i, <2>1, <2>4, <2>5, <2>6, <2>7
<1>3. ASSUME ZeroA PROVE InA'
  BY <1>3 DEF ZeroA, Times
<1>4. ASSUME ZeroB PROVE InB'
  <2>1. b' = [sum |-> 0, num |-> 0] /\ inB' = {}
    BY <1>4 DEF ZeroB
  <2>2. SumOf[{}] = 0
    BY TotalEmpty DEF SumOf
  <2> QED BY <2>1, <2>2, FS_EmptySet
<1> HIDE DEF InA, InB
<1>5. ASSUME \E c \in Calls : CallOnly(c) PROVE InWords'
  BY <1>5, <1>a, <1>b, <1>w DEF CallOnly
<1>6. ASSUME DumperOnly PROVE InWords'
  BY <1>6, <1>a, <1>b, <1>w DEF DumperOnly
<1>7. ASSUME ZeroA PROVE InWords'
  BY <1>7, <1>b, <1>3, <1>w DEF ZeroA
<1>8. ASSUME ZeroB PROVE InWords'
  BY <1>8, <1>a, <1>4, <1>w DEF ZeroB
<1>9. ASSUME NEW c \in Calls, ToA(c) PROVE InWords'
  BY <1>9, <1>b, <1>1, <1>w DEF ToA
<1>10. ASSUME NEW c \in Calls, ToB(c) PROVE InWords'
  BY <1>10, <1>a, <1>2, <1>w DEF ToB
<1> QED BY <1>5, <1>6, <1>7, <1>8, <1>9, <1>10, STKinds

LEMMA StepAdding ==
  ASSUME STTypes, Adding, STNext
  PROVE  Adding'
<1>d. dumper \notin Calls
  BY ServerStateAssumption DEF dumper
<1>t. inA \in SUBSET Calls /\ inB \in SUBSET Calls
  BY DEF STTypes
<1> DEFINE Small(c) == call[c] \in {"a", "between", "b"} => TimeOf[c] <= MAX_NUM
           GoneA(c) == c \in inA => call[c] \in {"between", "b", "done"}
           GoneB(c) == c \in inB => call[c] = "done" /\ TimeOf[c] <= MAX_NUM
           All(c) == Small(c) /\ GoneA(c) /\ GoneB(c)
<1>i. \A c \in Calls : All(c)
  BY DEF Adding
<1>a. inA' \in SUBSET Calls /\ inB' \in SUBSET Calls /\ (\A c \in Calls : All(c)') => Adding'
  BY DEF Adding
<1>1. ASSUME NEW c \in Calls, CallOnly(c) \/ ToA(c) \/ ToB(c) PROVE Adding'
  <2>1. /\ \A d \in Calls \ {c} : call'[d] = call[d]
        /\ inA' \in SUBSET Calls /\ inB' \in SUBSET Calls
        /\ \A d \in Calls \ {c} : (d \in inA' => d \in inA) /\ (d \in inB' => d \in inB)
    <3>1. CASE CallOnly(c)
      BY <1>t, <3>1 DEF CallOnly, CallMoves
    <3>2. CASE ToA(c)
      BY <1>t, <3>2 DEF ToA, CallMoves
    <3>3. CASE ToB(c)
      BY <1>t, <3>3 DEF ToB, CallMoves
    <3> QED BY <1>1, <3>1, <3>2, <3>3
  <2>2. \A d \in Calls \ {c} : All(d)'
    BY <1>i, <2>1
  <2>3. All(c)
    BY <1>i
  <2>4. All(c)'
    <3>1. CASE CallOnly(c)
      <4>1. inA' = inA /\ inB' = inB
        BY <3>1 DEF CallOnly
      <4>2. \/ call[c] = "idle" /\ call'[c] = "a" /\ TimeOf[c] <= MAX_NUM
            \/ call[c] = "a" /\ call'[c] = "idle"
            \/ call[c] = "between" /\ call'[c] = "b"
            \/ call[c] = "b" /\ call'[c] = "between"
            \/ call[c] = "idle" /\ call'[c] = "done"
        BY <3>1 DEF CallOnly, CallMoves
      <4> QED BY <2>3, <4>1, <4>2
    <3>2. CASE ToA(c)
      <4>1. call[c] = "a" /\ call'[c] = "between" /\ inB' = inB
        BY <3>2 DEF ToA, CallMoves
      <4> QED BY <2>3, <4>1
    <3>3. CASE ToB(c)
      <4>1. call[c] = "b" /\ call'[c] = "done"
        BY <3>3 DEF ToB, CallMoves
      <4> QED BY <2>3, <4>1
    <3> QED BY <1>1, <3>1, <3>2, <3>3
  <2> HIDE DEF All
  <2>5. \A d \in Calls : All(d)'
    BY <2>2, <2>4
  <2> QED BY <1>a, <2>1, <2>5
<1>2. ASSUME DumperOnly \/ ZeroA \/ ZeroB PROVE Adding'
  <2>1. \A c \in Calls : call'[c] = call[c]
    BY <1>2, <1>d DEF DumperOnly, ZeroA, ZeroB, CallMoves
  <2>2. inA' \subseteq inA /\ inB' \subseteq inB
    BY <1>2 DEF DumperOnly, ZeroA, ZeroB
  <2> QED BY <1>t, <2>1, <2>2 DEF Adding
<1> QED BY <1>1, <1>2, STKinds

LEMMA StepNotCleared ==
  ASSUME STTypes, InWords, Adding, NotCleared, STNext
  PROVE  NotCleared'
<1> SUFFICES ASSUME clears' = 0
             PROVE  /\ call'[dumper] = "idle"
                    /\ \A c \in Calls : call'[c] \in {"between", "b"} => c \in inA'
                    /\ \A c \in Calls : call'[c] = "done" /\ TimeOf[c] <= MAX_NUM => c \in inB'
                    /\ inB' \subseteq inA'
                    /\ b'.sum <= a'.max * b'.num
  BY DEF NotCleared
<1>n. /\ clears \in Nat /\ a.max \in Nat /\ b.sum \in Nat /\ b.num \in Nat /\ inA \in SUBSET Calls
      /\ \A c \in Calls : TimeOf[c] \in Nat
  BY ServerStateAssumption DEF STTypes
<1>m. MAX_NUM \in Nat
  BY ServerStateAssumption
<1>d. dumper \notin Calls
  BY ServerStateAssumption DEF dumper
<1> DEFINE Done == /\ call[dumper] = "idle"
                   /\ \A c \in Calls : call[c] \in {"between", "b"} => c \in inA
                   /\ \A c \in Calls : call[c] = "done" /\ TimeOf[c] <= MAX_NUM => c \in inB
                   /\ inB \subseteq inA
           Less == b.sum <= a.max * b.num
<1>i. clears = 0 => Done /\ Less
  BY DEF NotCleared
<1>1. ASSUME NEW c \in Calls, CallOnly(c) PROVE Done' /\ Less'
  <2>1. Done /\ Less /\ UNCHANGED <<a, b, inA, inB>>
    BY <1>1, <1>i DEF CallOnly
  <2>2. Less'
    BY <2>1
  <2>3. /\ call'[dumper] = call[dumper] /\ \A d \in Calls \ {c} : call'[d] = call[d]
        /\ \/ call'[c] \in {"a", "idle"}
           \/ call'[c] = "b" /\ call[c] = "between"
           \/ call'[c] = "between" /\ call[c] = "b"
           \/ call'[c] = "done" /\ ~(TimeOf[c] <= MAX_NUM)
    BY <1>1, <1>d, <1>n, <1>m DEF CallOnly, CallMoves
  <2> QED BY <2>1, <2>2, <2>3
<1>2. ASSUME NEW c \in Calls, ToA(c) PROVE Done' /\ Less'
  <2>1. /\ Done /\ Less /\ UNCHANGED <<b, inB>> /\ inA' = inA \cup {c}
        /\ call'[c] = "between" /\ \A d \in (Calls \cup {dumper}) \ {c} : call'[d] = call[d]
        /\ a' = Extended(a, TimeOf[c])
    BY <1>2, <1>i DEF ToA, CallMoves
  <2>2. Done'
    BY <1>d, <2>1
  <2>3. a'.max \in Nat /\ a.max <= a'.max
    <3>1. a'.max = IF a.max < TimeOf[c] THEN TimeOf[c] ELSE a.max
      BY <2>1, ExtendedIs
    <3> QED BY <1>n, <3>1
  <2>4. \A s, m, k, n \in Nat : s <= m * n /\ m <= k => s <= k * n
    <3> TAKE s, m, k, n \in Nat
    <3> HAVE s <= m * n /\ m <= k
    <3>1. PICK e \in Nat : k = m + e
      <4>1. k - m \in Nat /\ k = m + (k - m)
        OBVIOUS
      <4> QED BY <4>1
    <3>2. k * n = m * n + e * n /\ e * n \in Nat /\ m * n \in Nat
      BY <3>1
    <3> QED BY <3>2
  <2>5. Less'
    BY <1>n, <2>1, <2>3, <2>4
  <2> QED BY <2>2, <2>5
<1>3. ASSUME NEW c \in Calls, ToB(c) PROVE Done' /\ Less'
  <2>1. /\ Done /\ Less /\ UNCHANGED <<a, inA>> /\ inB' = inB \cup {c}
        /\ call[c] = "b" /\ call'[c] = "done" /\ \A d \in (Calls \cup {dumper}) \ {c} : call'[d] = call[d]
        /\ b' = Added(b, TimeOf[c])
    BY <1>3, <1>i DEF ToB, CallMoves
  <2>2. Done'
    BY <1>d, <2>1
  <2>3. TimeOf[c] <= a.max
    <3>1. TimeOf[c] \in Times(inA)
      BY <2>1 DEF Times
    <3> QED BY <3>1 DEF InWords
  <2>4. b'.sum = b.sum + TimeOf[c] /\ b'.num = b.num + 1
    BY <2>1 DEF Added
  <2>5. \A s, m, n, t \in Nat : s <= m * n /\ t <= m => s + t <= m * (n + 1)
    <3> TAKE s, m, n, t \in Nat
    <3>1. m * (n + 1) = m * n + m /\ m * n \in Nat
      OBVIOUS
    <3> QED BY <3>1
  <2>6. Less'
    BY <1>n, <2>1, <2>3, <2>4, <2>5
  <2> QED BY <2>2, <2>6
<1>4. ASSUME DumperOnly \/ ZeroA \/ ZeroB PROVE FALSE
  <2>1. (call[dumper] = "idle" /\ clears' = clears + 1) \/ (call[dumper] # "idle" /\ clears' = clears)
    BY <1>4 DEF DumperOnly, ZeroA, ZeroB, CallMoves
  <2> QED BY <1>i, <1>n, <2>1
<1> HIDE DEF Done, Less
<1>5. Done' /\ Less'
  BY <1>1, <1>2, <1>3, <1>4, STKinds
<1> QED BY <1>5 DEF Done, Less

LEMMA STInitInv == STInit => STInv
<1> SUFFICES ASSUME STInit PROVE STInv
  OBVIOUS
<1>1. STTypes
  BY FS_EmptySet DEF STInit, STTypes
<1>2. InWords
  <2>1. SumOf[{}] = 0
    BY TotalEmpty DEF SumOf
  <2> QED BY <2>1, FS_EmptySet DEF STInit, InWords, Times
<1>3. Adding /\ NotCleared
  BY DEF STInit, Adding, NotCleared, dumper
<1> QED BY <1>1, <1>2, <1>3 DEF STInv

LEMMA STStepInv == STInv /\ [STNext]_stvars => STInv'
<1> SUFFICES ASSUME STInv, [STNext]_stvars PROVE STInv'
  OBVIOUS
<1>1. CASE STNext
  BY <1>1, StepSTTypes, StepInWords, StepAdding, StepNotCleared DEF STInv
<1>2. CASE UNCHANGED stvars
  BY <1>2 DEF stvars, STInv, STTypes, InWords, Adding, NotCleared, Times
<1> QED BY <1>1, <1>2

\* No sample is lost to, or counted twice by, a concurrent call of state() or a
\* Clear: each word accounts for the calls added to it since it was cleared,
\* and until something is cleared both words for every call that has returned.
THEOREM EverySampleCounted == STSpec => []StatusCountsCalls
<1>1. STInv => StatusCountsCalls
  <2> SUFFICES ASSUME STInv PROVE StatusCountsCalls
    OBVIOUS
  <2>t. a \in [min : Nat, max : Nat] /\ b \in [sum : Nat, num : Nat] /\ inB \in SUBSET Calls
    BY DEF STInv, STTypes
  <2>1. Max({TimeOf[c] : c \in inA} \cup {0}) = a.max
    <3>1. Times(inA) \in SUBSET Nat
      BY ServerStateAssumption DEF STInv, STTypes, Times
    <3>2. Max(Times(inA)) = a.max
      BY <3>1, MaxIs DEF STInv, InWords
    <3> QED BY <3>2 DEF Times
  <2>2. a = [min |-> 0, max |-> a.max] /\ b = [sum |-> b.sum, num |-> b.num]
    BY <2>t DEF STInv, InWords
  <2>3. WordsMatchCalls
    <3>1. b.sum = Total(inB) /\ b.num = Cardinality(inB)
      BY <2>t DEF STInv, InWords, SumOf
    <3> QED BY <2>1, <2>2, <3>1 DEF WordsMatchCalls, Total
  <2>4. BothWordsCounted
    <3> SUFFICES ASSUME clears = 0
                 PROVE  /\ {c \in Calls : call[c] = "done" /\ TimeOf[c] <= MAX_NUM} = inB
                        /\ inB \subseteq inA /\ b.sum <= a.max * b.num
      BY DEF BothWordsCounted
    <3> QED BY <2>t DEF STInv, NotCleared, Adding
  <2> QED BY <2>3, <2>4 DEF StatusCountsCalls
<1> QED BY <1>1, STInitInv, STStepInv, PTL DEF STSpec
-----------------------------------------------------------------------------
(* ServicePool.  ChainFrom is a recursive function; that there is one is   *)
(* shown for any bound of its recursion, that it walks along a list for any*)
(* length of the list, each from a least number where it would fail.       *)

Boards == Services \cup {NoBoard}

\* A board and those behind it, at most k of them, by the function f for k - 1.
BoardsBehind(f, k) == [t \in Boards |-> IF t = NoBoard \/ k = 0 THEN {} ELSE {t} \cup f[k - 1][_next[t]]]

\* The definition of the function in ChainFrom, for up to m boards.
Walks(f, m) == f = [k \in 0 .. m |-> BoardsBehind(f, k)]

LEMMA SameBehind ==
  ASSUME _next \in [Services -> Boards], NEW k, NEW f, NEW g, k # 0 => f[k - 1] = g[k - 1]
  PROVE  BoardsBehind(f, k) = BoardsBehind(g, k)
  BY DEF BoardsBehind

LEMMA WalkExists ==
  ASSUME _next \in [Services -> Boards]
  PROVE  \A m \in Nat : \E f : Walks(f, m)
<1> DEFINE Bad == {m \in Nat : ~ \E f : Walks(f, m)}
<1> SUFFICES ASSUME Bad # {} PROVE FALSE
  OBVIOUS
<1>1. PICK m \in Bad : \A j \in Bad : m <= j
  <2>1. Bad \in SUBSET Nat
    OBVIOUS
  <2> QED BY <2>1, LeastOf
<1>2. m \in Nat /\ \A f : ~ Walks(f, m)
  BY <1>1
<1>3. CASE m = 0
  <2> DEFINE g == [k \in 0 .. 0 |-> BoardsBehind([j \in {} |-> {}], k)]
  <2>1. \A k \in 0 .. 0 : BoardsBehind(g, k) = BoardsBehind([j \in {} |-> {}], k)
    BY DEF BoardsBehind
  <2>2. Walks(g, 0)
    BY <2>1 DEF Walks
  <2> QED BY <1>2, <1>3, <2>2
<1>4. CASE m # 0
  <2>1. m - 1 \in Nat /\ m - 1 \notin Bad
    BY <1>1, <1>2, <1>4
  <2>2. PICK f : Walks(f, m - 1)
    BY <2>1
  <2> DEFINE g == [k \in 0 .. m |-> BoardsBehind(f, k)]
  <2>3. \A k \in 0 .. m - 1 : g[k] = f[k]
    <3>1. \A k \in 0 .. m - 1 : k \in 0 .. m
      BY <1>2, <2>1
    <3>2. f = [k \in 0 .. m - 1 |-> BoardsBehind(f, k)]
      BY <2>2 DEF Walks
    <3>3. \A k \in 0 .. m - 1 : f[k] = BoardsBehind(f, k)
      <4> HIDE DEF g
      <4> QED BY <3>2
    <3> QED BY <3>1, <3>3
  <2>4. \A k \in 0 .. m : BoardsBehind(f, k) = BoardsBehind(g, k)
    <3> TAKE k \in 0 .. m
    <3>1. k # 0 => k - 1 \in 0 .. m - 1
      BY <1>2
    <3>2. k # 0 => f[k - 1] = g[k - 1]
      BY <2>3, <3>1
    <3> HIDE DEF g
    <3> QED BY <3>2, SameBehind
  <2>5. Walks(g, m)
    BY <2>4 DEF Walks
  <2> QED BY <1>2, <2>5
<1> QED BY <1>3, <1>4

\* A list of n boards, each linked to the one before, the oldest to none.
BoardList(l, n) ==
  /\ l \in [0 .. n -> Boards] /\ l[0] = NoBoard
  /\ \A i \in 1 .. n : l[i] \in Services /\ _next[l[i]] = l[i - 1]

LEMMA WalkAlong ==
  ASSUME _next \in [Services -> Boards], NEW m \in Nat, NEW f, Walks(f, m),
         NEW n \in Nat, n <= m, NEW l, BoardList(l, n)
  PROVE  f[m][l[n]] = {l[j] : j \in 1 .. n}
<1> DEFINE Right(i) == \A k \in i .. m : f[k][l[i]] = {l[j] : j \in 1 .. i}
           Bad == {i \in 0 .. n : ~ Right(i)}
<1>f. \A k \in 0 .. m : \A t \in Boards :
        f[k][t] = IF t = NoBoard \/ k = 0 THEN {} ELSE {t} \cup f[k - 1][_next[t]]
  <2>1. \A k \in 0 .. m : f[k] = BoardsBehind(f, k)
    BY DEF Walks
  <2> QED BY <2>1 DEF BoardsBehind
<1>1. Bad = {}
  <2> SUFFICES ASSUME Bad # {} PROVE FALSE
    OBVIOUS
  <2>1. PICK i \in Bad : \A j \in Bad : i <= j
    <3>1. Bad \in SUBSET Nat
      OBVIOUS
    <3> QED BY <3>1, LeastOf
  <2>2. i \in 0 .. n /\ ~ Right(i)
    BY <2>1
  <2>3. PICK k \in i .. m : f[k][l[i]] # {l[j] : j \in 1 .. i}
    BY <2>2
  <2>4. k \in 0 .. m /\ l[i] \in Boards
    BY <2>2, <2>3 DEF BoardList
  <2>5. CASE i = 0
    <3>1. {l[j] : j \in 1 .. 0} = {}
      OBVIOUS
    <3>2. f[k][NoBoard] = {}
      BY <1>f, <2>4, Zenon DEF Boards
    <3> QED BY <2>3, <2>5, <3>1, <3>2 DEF BoardList
  <2>6. CASE i # 0
    <3>1. i \in 1 .. n /\ i - 1 \in 0 .. n /\ k # 0 /\ k - 1 \in (i - 1) .. m /\ ~ (i <= i - 1)
      BY <2>2, <2>3, <2>6
    <3>2. Right(i - 1)
      BY <2>1, <3>1
    <3>3. f[k - 1][l[i - 1]] = {l[j] : j \in 1 .. i - 1}
      BY <3>1, <3>2
    <3>4. l[i] \in Services /\ l[i] # NoBoard /\ _next[l[i]] = l[i - 1]
      BY <3>1, ServicePoolAssumption DEF BoardList
    <3>5. f[k][l[i]] = {l[i]} \cup f[k - 1][l[i - 1]]
      <4>1. f[k][l[i]] = IF l[i] = NoBoard \/ k = 0 THEN {} ELSE {l[i]} \cup f[k - 1][_next[l[i]]]
        BY <1>f, <2>4, Zenon
      <4> QED BY <3>1, <3>4, <4>1, Zenon
    <3>6. 1 .. i = (1 .. i - 1) \cup {i}
      BY <3>1
    <3>7. {l[j] : j \in 1 .. i} = {l[i]} \cup {l[j] : j \in 1 .. i - 1}
      BY <3>6
    <3> QED BY <2>3, <3>3, <3>5, <3>7
  <2> QED BY <2>5, <2>6
<1>2. Right(n) /\ m \in n .. m
  BY <1>1
<1> QED BY <1>2

LEMMA ChainIs ==
  ASSUME _next \in [Services -> Boards], NEW n \in Nat, n <= Cardinality(Services),
         NEW l, BoardList(l, n)
  PROVE  ChainFrom(l[n]) = {l[j] : j \in 1 .. n}
<1> DEFINE m == Cardinality(Services)
<1>1. m \in Nat
  BY ServicePoolAssumption, FS_CardinalityType
<1>2. PICK f : f = (CHOOSE g : Walks(g, m)) /\ ChainFrom(l[n]) = f[m][l[n]]
  BY DEF ChainFrom, Walks, BoardsBehind, Boards
<1>3. Walks(f, m)
  BY <1>1, <1>2, WalkExists
<1> HIDE DEF m
<1> QED BY <1>1, <1>2, <1>3, WalkAlong DEF m

\* The boards that have a registration, and those linked behind _head.
Mapped == {s \in Services : registrar[s] \in {"map", "head", "done"}}
Chained == {s \in Services : registrar[s] \in {"head", "done"}}

\* The types of the state.
PoolTypes ==
  /\ _service_map \in [Names -> Boards] /\ _service_map_lock \in SUBSET Services
  /\ _head \in Boards /\ _next \in [Services -> Boards] /\ _cache \in [Slots -> Boards]
  /\ registrar \in [Services -> {"start", "refused", "map", "head", "done"}]
  /\ finder \in [Finders -> Names \cup {"idle"}]
  /\ answer \in [Finders -> SUBSET Services] /\ known \in [Finders -> SUBSET Services]

\* One registrar at a time, whose board is linked to _head before it becomes that.
OneRegistrar ==
  /\ \A s, t \in _service_map_lock : s = t
  /\ \A s \in Services : s \in _service_map_lock <=> registrar[s] \in {"map", "head"}
  /\ \A s \in Services : registrar[s] = "map" => _next[s] = _head

\* The map has the boards that are registered, each under its name.
MapAgrees ==
  /\ \A s \in Mapped : _service_map[NameOf[s]] = s
  /\ \A n \in Names : _service_map[n] # NoBoard => _service_map[n] \in Mapped /\ NameOf[_service_map[n]] = n

\* The boards behind _head.
ChainAgrees ==
  /\ _count = Cardinality(Chained)
  /\ \E n \in Nat : \E l \in [0 .. n -> Boards] :
       BoardList(l, n) /\ n = _count /\ l[n] = _head /\ Chained = {l[j] : j \in 1 .. n}

\* The cache holds boards whose registration is over.
CacheAgrees == \A i \in Slots : _cache[i] # NoBoard => registrar[_cache[i]] = "done"

\* What a finder knows and was answered.
FindersRight ==
  /\ \A f \in Finders : known[f] \subseteq RegisteredBoards
  /\ \A f \in Finders : finder[f] # "idle" => \A s \in known[f] : NameOf[s] = finder[f]
  /\ RegisteredIsFound

SPInv == PoolTypes /\ OneRegistrar /\ MapAgrees /\ ChainAgrees /\ CacheAgrees /\ FindersRight

LEMMA NamesSlots ==
  /\ \A s \in Services : NameOf[s] \in Names
  /\ \A n \in Names : SlotOf[n] \in Slots
  BY DEF Names, Slots

LEMMA ChainIsChained ==
  ASSUME PoolTypes, ChainAgrees
  PROVE  ChainFrom(_head) = Chained
<1>n. PICK n \in Nat : \E l : BoardList(l, n) /\ n = _count /\ l[n] = _head /\ Chained = {l[j] : j \in 1 .. n}
  BY DEF ChainAgrees
<1>1. PICK l : BoardList(l, n) /\ n = _count /\ l[n] = _head /\ Chained = {l[j] : j \in 1 .. n}
  BY <1>n
<1>2. n = Cardinality(Chained) /\ n <= Cardinality(Services)
  <2>1. Chained \in SUBSET Services /\ IsFiniteSet(Services)
    BY ServicePoolAssumption DEF Chained
  <2>2. Cardinality(Chained) <= Cardinality(Services)
    BY <2>1, FS_Subset
  <2> QED BY <1>1, <2>2 DEF ChainAgrees
<1>3. ChainFrom(l[n]) = {l[j] : j \in 1 .. n}
  BY <1>1, <1>2, ChainIs DEF PoolTypes
<1> QED BY <1>1, <1>3

\* A registrar goes on, the others stay.
Goes(s, from, to) ==
  /\ registrar[s] = from /\ registrar'[s] = to
  /\ \A t \in Services \ {s} : registrar'[t] = registrar[t]
  /\ registrar' \in [Services -> {"start", "refused", "map", "head", "done"}]

LEMMA GoesOn ==
  ASSUME PoolTypes, NEW s \in Services, NEW from, NEW to \in {"refused", "map", "head", "done"},
         Registers(s, from, to)
  PROVE  Goes(s, from, to)
  BY DEF PoolTypes, Registers, Goes

\* A step of a registrar, or one of a finder, which only changes what is its own.
Finds(f) ==
  /\ UNCHANGED <<pool, _service_map_lock, registrar>>
  /\ (\E n \in Names : FindInCache(f, n)) \/ FindInMap(f) \/ ListService(f)

LEMMA PoolSteps ==
  ASSUME SPNext
  PROVE  \/ \E s \in Services : RegisterRefused(s) \/ RegisterMap(s) \/ RegisterHead(s) \/ RegisterCache(s)
         \/ \E f \in Finders : Finds(f)
<1>1. ASSUME NEW f \in Finders, (\E n \in Names : FindInCache(f, n)) \/ FindInMap(f) \/ ListService(f)
      PROVE  Finds(f)
  BY <1>1 DEF Finds, FindInCache, FindInMap, ListService
<1> QED BY <1>1 DEF SPNext

LEMMA StepPoolTypes ==
  ASSUME PoolTypes, ChainAgrees, SPNext
  PROVE  PoolTypes'
<1> DEFINE Own == /\ finder' \in [Finders -> Names \cup {"idle"}]
                  /\ answer' \in [Finders -> SUBSET Services] /\ known' \in [Finders -> SUBSET Services]
           Pool == /\ _service_map' \in [Names -> Boards] /\ _service_map_lock' \in SUBSET Services
                   /\ _head' \in Boards /\ _next' \in [Services -> Boards] /\ _cache' \in [Slots -> Boards]
<1>r. registrar' \in [Services -> {"start", "refused", "map", "head", "done"}] /\ Own /\ Pool => PoolTypes'
  BY DEF PoolTypes
<1>t. /\ _service_map \in [Names -> Boards] /\ _service_map_lock \in SUBSET Services
      /\ _head \in Boards /\ _next \in [Services -> Boards] /\ _cache \in [Slots -> Boards]
      /\ registrar \in [Services -> {"start", "refused", "map", "head", "done"}]
      /\ finder \in [Finders -> Names \cup {"idle"}]
      /\ answer \in [Finders -> SUBSET Services] /\ known \in [Finders -> SUBSET Services]
  BY DEF PoolTypes
<1>1. ASSUME NEW s \in Services, RegisterRefused(s) PROVE PoolTypes'
  <2>1. registrar' \in [Services -> {"start", "refused", "map", "head", "done"}]
    BY <1>1, GoesOn DEF RegisterRefused, Goes
  <2>2. Own /\ Pool
    BY <1>1, <1>t DEF RegisterRefused, pool
  <2> QED BY <1>r, <2>1, <2>2
<1>2. ASSUME NEW s \in Services, RegisterMap(s) PROVE PoolTypes'
  <2>1. registrar' \in [Services -> {"start", "refused", "map", "head", "done"}]
    BY <1>2, GoesOn DEF RegisterMap, Goes
  <2>2. Own
    BY <1>2, <1>t DEF RegisterMap
  <2>3. Pool
    BY <1>2, <1>t, NamesSlots DEF RegisterMap, Boards
  <2> QED BY <1>r, <2>1, <2>2, <2>3
<1>3. ASSUME NEW s \in Services, RegisterHead(s) PROVE PoolTypes'
  <2>1. registrar' \in [Services -> {"start", "refused", "map", "head", "done"}]
    BY <1>3, GoesOn DEF RegisterHead, Goes
  <2>2. Own
    BY <1>3, <1>t DEF RegisterHead
  <2>3. Pool
    BY <1>3, <1>t DEF RegisterHead, Boards
  <2> QED BY <1>r, <2>1, <2>2, <2>3
<1>4. ASSUME NEW s \in Services, RegisterCache(s) PROVE PoolTypes'
  <2>1. registrar' \in [Services -> {"start", "refused", "map", "head", "done"}]
    BY <1>4, GoesOn DEF RegisterCache, Goes
  <2>2. Own
    BY <1>4, <1>t DEF RegisterCache
  <2>3. _cache' \in [Slots -> Boards]
    BY <1>4, <1>t, NamesSlots DEF RegisterCache, Boards
  <2>4. Pool
    BY <1>4, <1>t, <2>3 DEF RegisterCache
  <2> QED BY <1>r, <2>1, <2>2, <2>4
<1>5. ASSUME NEW f \in Finders, Finds(f) PROVE PoolTypes'
  <2>1. Pool /\ registrar' = registrar
    BY <1>5, <1>t DEF Finds, pool
  <2>2. \A boards \in SUBSET Services : Answers(f, boards) =>
          finder' \in [Finders -> Names \cup {"idle"}] /\ answer' \in [Finders -> SUBSET Services]
    BY <1>t DEF Answers
  <2>3. ASSUME NEW n \in Names, FindInCache(f, n) PROVE Own
    <3>1. known' \in [Finders -> SUBSET Services]
      BY <1>t, <2>3 DEF FindInCache, RegisteredBoards
    <3>2. CASE InCache(n)
      <4>1. _cache[SlotOf[n]] \in Services
        BY <1>t, <3>2, NamesSlots DEF InCache, Boards
      <4> QED BY <2>2, <2>3, <3>1, <3>2, <4>1 DEF FindInCache
    <3>3. CASE ~ InCache(n)
      BY <1>t, <2>3, <3>1, <3>3 DEF FindInCache
    <3> QED BY <3>2, <3>3
  <2>4. ASSUME FindInMap(f) PROVE Own
    <3>1. {_service_map[finder[f]]} \ {NoBoard} \in SUBSET Services
      BY <1>t, <2>4 DEF FindInMap, Boards
    <3> QED BY <1>t, <2>2, <2>4, <3>1 DEF FindInMap
  <2>5. ASSUME ListService(f) PROVE Own
    <3>1. ChainFrom(_head) \in SUBSET Services
      BY ChainIsChained DEF Chained
    <3>2. known' \in [Finders -> SUBSET Services]
      BY <1>t, <2>5 DEF ListService, RegisteredBoards
    <3> QED BY <2>2, <2>5, <3>1, <3>2 DEF ListService
  <2>6. Own
    BY <1>5, <2>3, <2>4, <2>5 DEF Finds
  <2> QED BY <1>r, <1>t, <2>1, <2>6
<1> QED BY <1>1, <1>2, <1>3, <1>4, <1>5, PoolSteps

LEMMA StepOneRegistrar ==
  ASSUME PoolTypes, OneRegistrar, SPNext
  PROVE  OneRegistrar'
<1>i. /\ \A s, t \in _service_map_lock : s = t
      /\ \A s \in Services : s \in _service_map_lock <=> registrar[s] \in {"map", "head"}
      /\ \A s \in Services : registrar[s] = "map" => _next[s] = _head
      /\ _service_map_lock \in SUBSET Services /\ _next \in [Services -> Boards]
  BY DEF OneRegistrar, PoolTypes
<1>1. ASSUME NEW s \in Services, RegisterRefused(s) PROVE OneRegistrar'
  <2>1. Goes(s, "start", "refused") /\ UNCHANGED <<_service_map_lock, _next, _head>>
    BY <1>1, GoesOn DEF RegisterRefused, pool
  <2> QED BY <1>i, <2>1 DEF OneRegistrar, Goes
<1>2. ASSUME NEW s \in Services, RegisterMap(s) PROVE OneRegistrar'
  <2>1. Goes(s, "start", "map")
    BY <1>2, GoesOn DEF RegisterMap
  <2>2. /\ _service_map_lock = {} /\ _service_map_lock' = {s} /\ _head' = _head
        /\ _next'[s] = _head /\ \A t \in Services \ {s} : _next'[t] = _next[t]
    BY <1>2, <1>i DEF RegisterMap, MapLockFree
  <2>3. \A t \in Services \ {s} : registrar[t] \notin {"map", "head"}
    BY <1>i, <2>2
  <2> QED BY <2>1, <2>2, <2>3 DEF OneRegistrar, Goes
<1>3. ASSUME NEW s \in Services, RegisterHead(s) PROVE OneRegistrar'
  <2>1. Goes(s, "map", "head") /\ UNCHANGED <<_service_map_lock, _next>>
    BY <1>3, GoesOn DEF RegisterHead
  <2>2. \A t \in Services \ {s} : registrar[t] \notin {"map", "head"}
    BY <1>i, <2>1 DEF Goes
  <2> QED BY <1>i, <2>1, <2>2 DEF OneRegistrar, Goes
<1>4. ASSUME NEW s \in Services, RegisterCache(s) PROVE OneRegistrar'
  <2>1. Goes(s, "head", "done") /\ _service_map_lock' = {} /\ UNCHANGED <<_head, _next>>
    BY <1>4, GoesOn DEF RegisterCache
  <2>2. \A t \in Services \ {s} : registrar[t] \notin {"map", "head"}
    BY <1>i, <2>1 DEF Goes
  <2> QED BY <2>1, <2>2 DEF OneRegistrar, Goes
<1>5. ASSUME NEW f \in Finders, Finds(f) PROVE OneRegistrar'
  BY <1>5, <1>i DEF Finds, pool, OneRegistrar
<1> QED BY <1>1, <1>2, <1>3, <1>4, <1>5, PoolSteps

LEMMA StepMapAgrees ==
  ASSUME PoolTypes, MapAgrees, SPNext
  PROVE  MapAgrees'
<1>i. /\ \A s \in Mapped : _service_map[NameOf[s]] = s
      /\ \A n \in Names : _service_map[n] # NoBoard => _service_map[n] \in Mapped /\ NameOf[_service_map[n]] = n
      /\ _service_map \in [Names -> Boards]
  BY DEF MapAgrees, PoolTypes
<1>s. ASSUME Mapped' = Mapped, _service_map' = _service_map PROVE MapAgrees'
  BY <1>i, <1>s DEF MapAgrees
<1>1. ASSUME NEW s \in Services, RegisterRefused(s) PROVE MapAgrees'
  <2>1. Goes(s, "start", "refused")
    BY <1>1, GoesOn DEF RegisterRefused
  <2>2. Mapped' = Mapped
    BY <2>1 DEF Goes, Mapped
  <2> QED BY <1>1, <1>s, <2>2 DEF RegisterRefused, pool
<1>2. ASSUME NEW s \in Services, RegisterMap(s) PROVE MapAgrees'
  <2>1. Goes(s, "start", "map")
    BY <1>2, GoesOn DEF RegisterMap
  <2>2. Mapped' = Mapped \cup {s}
    BY <2>1 DEF Goes, Mapped
  <2>3. /\ _service_map[NameOf[s]] = NoBoard /\ _service_map'[NameOf[s]] = s
        /\ \A n \in Names \ {NameOf[s]} : _service_map'[n] = _service_map[n]
    BY <1>2, <1>i, NamesSlots DEF RegisterMap, AlreadyThere
  <2>4. \A t \in Mapped : NameOf[t] \in Names \ {NameOf[s]}
    <3>1. \A t \in Mapped : t \in Services /\ t # NoBoard
      BY ServicePoolAssumption DEF Mapped
    <3> QED BY <1>i, <2>3, <3>1, NamesSlots
  <2>5. \A t \in Mapped' : _service_map'[NameOf[t]] = t
    BY <1>i, <2>2, <2>3, <2>4
  <2>6. \A n \in Names : _service_map'[n] # NoBoard =>
          _service_map'[n] \in Mapped' /\ NameOf[_service_map'[n]] = n
    BY <1>i, <2>2, <2>3
  <2> QED BY <2>5, <2>6 DEF MapAgrees
<1>3. ASSUME NEW s \in Services, RegisterHead(s) PROVE MapAgrees'
  <2>1. Goes(s, "map", "head")
    BY <1>3, GoesOn DEF RegisterHead
  <2>2. Mapped' = Mapped
    BY <2>1 DEF Goes, Mapped
  <2> QED BY <1>3, <1>s, <2>2 DEF RegisterHead
<1>4. ASSUME NEW s \in Services, RegisterCache(s) PROVE MapAgrees'
  <2>1. Goes(s, "head", "done")
    BY <1>4, GoesOn DEF RegisterCache
  <2>2. Mapped' = Mapped
    BY <2>1 DEF Goes, Mapped
  <2> QED BY <1>4, <1>s, <2>2 DEF RegisterCache
<1>5. ASSUME NEW f \in Finders, Finds(f) PROVE MapAgrees'
  <2>1. Mapped' = Mapped /\ _service_map' = _service_map
    BY <1>5 DEF Finds, pool, Mapped
  <2> QED BY <1>s, <2>1
<1> QED BY <1>1, <1>2, <1>3, <1>4, <1>5, PoolSteps

LEMMA StepChainAgrees ==
  ASSUME PoolTypes, OneRegistrar, ChainAgrees, SPNext
  PROVE  ChainAgrees'
<1>n. PICK n \in Nat : \E l : BoardList(l, n) /\ n = _count /\ l[n] = _head /\ Chained = {l[j] : j \in 1 .. n}
  BY DEF ChainAgrees
<1>1. PICK l : BoardList(l, n) /\ n = _count /\ l[n] = _head /\ Chained = {l[j] : j \in 1 .. n}
  BY <1>n
<1>2. /\ l \in [0 .. n -> Boards] /\ l[0] = NoBoard
      /\ \A i \in 1 .. n : l[i] \in Services /\ l[i] \in Chained /\ _next[l[i]] = l[i - 1]
  BY <1>1 DEF BoardList
<1>s. ASSUME Chained' = Chained, UNCHANGED <<_head, _count>>, \A t \in Chained : _next'[t] = _next[t]
      PROVE  ChainAgrees'
  <2>1. /\ l \in [0 .. n -> Boards] /\ l[0] = NoBoard
        /\ \A i \in 1 .. n : l[i] \in Services /\ _next'[l[i]] = l[i - 1]
    BY <1>2, <1>s
  <2>2. n = _count' /\ l[n] = _head' /\ Chained' = {l[j] : j \in 1 .. n} /\ _count' = Cardinality(Chained')
    BY <1>1, <1>s DEF ChainAgrees
  <2> QED BY <2>1, <2>2 DEF ChainAgrees, BoardList
<1>3. ASSUME NEW s \in Services, RegisterRefused(s) PROVE ChainAgrees'
  <2>1. Goes(s, "start", "refused")
    BY <1>3, GoesOn DEF RegisterRefused
  <2>2. Chained' = Chained
    BY <2>1 DEF Goes, Chained
  <2> QED BY <1>3, <1>s, <2>2 DEF RegisterRefused, pool
<1>4. ASSUME NEW s \in Services, RegisterMap(s) PROVE ChainAgrees'
  <2>1. Goes(s, "start", "map")
    BY <1>4, GoesOn DEF RegisterMap
  <2>2. Chained' = Chained /\ s \notin Chained
    BY <2>1 DEF Goes, Chained
  <2>3. \A t \in Chained : _next'[t] = _next[t]
    BY <1>4, <2>2 DEF RegisterMap, PoolTypes, Chained
  <2> QED BY <1>4, <1>s, <2>2, <2>3 DEF RegisterMap
<1>5. ASSUME NEW s \in Services, RegisterHead(s) PROVE ChainAgrees'
  <2>1. Goes(s, "map", "head")
    BY <1>5, GoesOn DEF RegisterHead
  <2>2. Chained' = Chained \cup {s} /\ s \notin Chained
    BY <2>1 DEF Goes, Chained
  <2>3. _head' = s /\ _count' = _count + 1 /\ _next' = _next /\ _next[s] = l[n]
    BY <1>1, <1>5, <2>1 DEF RegisterHead, Goes, OneRegistrar
  <2>4. PICK m \in Nat : m = n + 1
    OBVIOUS
  <2> DEFINE k == [i \in 0 .. m |-> IF i = m THEN s ELSE l[i]]
  <2>5. 0 .. m = (0 .. n) \cup {m} /\ 1 .. m = (1 .. n) \cup {m} /\ m # 0 /\ m - 1 = n /\ m \notin 0 .. n
    BY <2>4
  <2>6. \A i \in 0 .. n : k[i] = l[i] /\ i # m
    BY <2>5
  <2>7. k[m] = s
    BY <2>5
  <2>8. \A i \in 1 .. n : i \in 0 .. n /\ i - 1 \in 0 .. n
    OBVIOUS
  <2>9. k \in [0 .. m -> Boards]
    BY <1>2, <2>5 DEF Boards
  <2> HIDE DEF k
  <2>10. k[0] = NoBoard
    BY <1>2, <2>6
  <2>11. \A i \in 1 .. m : k[i] \in Services /\ _next'[k[i]] = k[i - 1]
    <3> TAKE i \in 1 .. m
    <3>1. CASE i = m
      BY <2>3, <2>5, <2>6, <2>7, <3>1
    <3>2. CASE i \in 1 .. n
      BY <1>2, <2>3, <2>6, <2>8, <3>2
    <3> QED BY <2>5, <3>1, <3>2
  <2>12. Chained' = {k[j] : j \in 1 .. m}
    <3>1. \A j \in 1 .. n : k[j] = l[j]
      BY <2>6, <2>8
    <3> QED BY <1>1, <2>2, <2>5, <2>7, <3>1
  <2>13. m = _count' /\ _count' = Cardinality(Chained')
    <3>1. IsFiniteSet(Chained)
      BY ServicePoolAssumption, FS_Subset DEF Chained
    <3>2. Cardinality(Chained \cup {s}) = Cardinality(Chained) + 1
      BY <2>2, <3>1, FS_AddElement
    <3> QED BY <1>1, <2>2, <2>3, <2>4, <3>2 DEF ChainAgrees
  <2> QED BY <2>3, <2>7, <2>9, <2>10, <2>11, <2>12, <2>13 DEF ChainAgrees, BoardList
<1>6. ASSUME NEW s \in Services, RegisterCache(s) PROVE ChainAgrees'
  <2>1. Goes(s, "head", "done")
    BY <1>6, GoesOn DEF RegisterCache
  <2>2. Chained' = Chained
    BY <2>1 DEF Goes, Chained
  <2> QED BY <1>6, <1>s, <2>2 DEF RegisterCache
<1>7. ASSUME NEW f \in Finders, Finds(f) PROVE ChainAgrees'
  <2>1. Chained' = Chained /\ UNCHANGED <<_head, _count, _next>>
    BY <1>7 DEF Finds, pool, Chained
  <2> QED BY <1>s, <2>1
<1> QED BY <1>3, <1>4, <1>5, <1>6, <1>7, PoolSteps

LEMMA StepCacheAgrees ==
  ASSUME PoolTypes, CacheAgrees, SPNext
  PROVE  CacheAgrees'
<1>i. /\ \A i \in Slots : _cache[i] # NoBoard => registrar[_cache[i]] = "done"
      /\ _cache \in [Slots -> Boards]
  BY DEF CacheAgrees, PoolTypes
<1>s. ASSUME _cache' = _cache, \A s \in Services : registrar[s] = "done" => registrar'[s] = "done"
      PROVE  CacheAgrees'
  <2>1. \A i \in Slots : _cache[i] # NoBoard => _cache[i] \in Services
    BY <1>i DEF Boards
  <2> QED BY <1>i, <1>s, <2>1 DEF CacheAgrees
<1>1. ASSUME NEW s \in Services, RegisterRefused(s) PROVE CacheAgrees'
  <2>1. Goes(s, "start", "refused")
    BY <1>1, GoesOn DEF RegisterRefused
  <2> QED BY <1>1, <1>s, <2>1 DEF RegisterRefused, pool, Goes
<1>2. ASSUME NEW s \in Services, RegisterMap(s) PROVE CacheAgrees'
  <2>1. Goes(s, "start", "map")
    BY <1>2, GoesOn DEF RegisterMap
  <2> QED BY <1>2, <1>s, <2>1 DEF RegisterMap, Goes
<1>3. ASSUME NEW s \in Services, RegisterHead(s) PROVE CacheAgrees'
  <2>1. Goes(s, "map", "head")
    BY <1>3, GoesOn DEF RegisterHead
  <2> QED BY <1>3, <1>s, <2>1 DEF RegisterHead, Goes
<1>4. ASSUME NEW s \in Services, RegisterCache(s) PROVE CacheAgrees'
  <2>1. Goes(s, "head", "done")
    BY <1>4, GoesOn DEF RegisterCache
  <2>2. \A i \in Slots : _cache'[i] # NoBoard => _cache'[i] = s \/ _cache'[i] = _cache[i]
    BY <1>4, <1>i DEF RegisterCache
  <2>3. \A i \in Slots : _cache[i] # NoBoard => _cache[i] \in Services
    BY <1>i DEF Boards
  <2>4. registrar'[s] = "done" /\ \A t \in Services : registrar[t] = "done" => registrar'[t] = "done"
    BY <2>1 DEF Goes
  <2> QED BY <1>i, <2>2, <2>3, <2>4 DEF CacheAgrees
<1>5. ASSUME NEW f \in Finders, Finds(f) PROVE CacheAgrees'
  BY <1>5, <1>s DEF Finds, pool
<1> QED BY <1>1, <1>2, <1>3, <1>4, <1>5, PoolSteps

\* What a finder is answered from the cache, from the map and by a listing.
LEMMA AnswersRight ==
  ASSUME PoolTypes, MapAgrees, ChainAgrees, CacheAgrees
  PROVE  /\ \A n \in Names : InCache(n) =>
              /\ _service_map[n] = _cache[SlotOf[n]] /\ NameOf[_cache[SlotOf[n]]] = n
              /\ \A s \in RegisteredBoards : NameOf[s] = n => s = _cache[SlotOf[n]]
         /\ \A n \in Names : \A s \in RegisteredBoards : NameOf[s] = n => s \in {_service_map[n]} \ {NoBoard}
         /\ \A n \in Names : \A s \in {_service_map[n]} \ {NoBoard} : NameOf[s] = n
         /\ RegisteredBoards \subseteq ChainFrom(_head)
         /\ \A s, t \in ChainFrom(_head) : NameOf[s] = NameOf[t] => s = t
<1>1. \A s \in RegisteredBoards : s \in Mapped /\ s # NoBoard
  BY ServicePoolAssumption DEF RegisteredBoards, Mapped
<1>2. \A s \in Mapped : _service_map[NameOf[s]] = s
  BY DEF MapAgrees
<1>3. \A s \in RegisteredBoards : \A n \in Names : NameOf[s] = n => s = _service_map[n] /\ s # NoBoard
  BY <1>1, <1>2
<1>4. ASSUME NEW n \in Names, InCache(n)
      PROVE  _service_map[n] = _cache[SlotOf[n]] /\ NameOf[_cache[SlotOf[n]]] = n
  <2>1. _cache[SlotOf[n]] \in Services /\ registrar[_cache[SlotOf[n]]] = "done" /\ NameOf[_cache[SlotOf[n]]] = n
    BY <1>4, NamesSlots DEF InCache, PoolTypes, CacheAgrees, Boards
  <2> QED BY <1>3, <2>1 DEF RegisteredBoards
<1>5. \A n \in Names : \A s \in {_service_map[n]} \ {NoBoard} : NameOf[s] = n
  BY DEF MapAgrees
<1>6. ChainFrom(_head) = Chained
  BY ChainIsChained
<1>7. RegisteredBoards \subseteq Chained /\ Chained \subseteq Mapped
  BY DEF RegisteredBoards, Chained, Mapped
<1>8. \A s, t \in Mapped : NameOf[s] = NameOf[t] => s = t
  BY <1>2
<1> QED BY <1>3, <1>4, <1>5, <1>6, <1>7, <1>8

LEMMA StepFindersRight ==
  ASSUME SPInv, SPNext
  PROVE  FindersRight'
<1> USE DEF SPInv
<1> DEFINE Right(f) == /\ known[f] \subseteq RegisteredBoards
                       /\ finder[f] # "idle" => \A s \in known[f] : NameOf[s] = finder[f]
                       /\ finder[f] = "idle" => /\ known[f] \subseteq answer[f]
                                                /\ \A s, t \in answer[f] : NameOf[s] = NameOf[t] => s = t
<1>i. \A f \in Finders : Right(f)
  BY DEF FindersRight, RegisteredIsFound
<1>r. (\A f \in Finders : Right(f)') => FindersRight'
  BY DEF FindersRight, RegisteredIsFound
<1>s. ASSUME UNCHANGED <<finder, answer, known>>, \A s \in Services : registrar[s] = "done" => registrar'[s] = "done"
      PROVE  FindersRight'
  <2>1. RegisteredBoards \subseteq RegisteredBoards'
    BY <1>s DEF RegisteredBoards
  <2>2. \A f \in Finders : Right(f)'
    BY <1>i, <1>s, <2>1
  <2> QED BY <1>r, <2>2
<1>1. ASSUME NEW s \in Services, RegisterRefused(s) PROVE FindersRight'
  BY <1>1, <1>s, GoesOn DEF RegisterRefused, Goes
<1>2. ASSUME NEW s \in Services, RegisterMap(s) PROVE FindersRight'
  BY <1>2, <1>s, GoesOn DEF RegisterMap, Goes
<1>3. ASSUME NEW s \in Services, RegisterHead(s) PROVE FindersRight'
  BY <1>3, <1>s, GoesOn DEF RegisterHead, Goes
<1>4. ASSUME NEW s \in Services, RegisterCache(s) PROVE FindersRight'
  BY <1>4, <1>s, GoesOn DEF RegisterCache, Goes
<1>5. ASSUME NEW f \in Finders, Finds(f) PROVE FindersRight'
  <2>t. /\ finder \in [Finders -> Names \cup {"idle"}] /\ "idle" \notin Names
        /\ answer \in [Finders -> SUBSET Services] /\ known \in [Finders -> SUBSET Services]
    BY ServicePoolAssumption DEF PoolTypes
  <2>1. RegisteredBoards' = RegisteredBoards
    BY <1>5 DEF Finds, RegisteredBoards
  <2> DEFINE Others == \A g \in Finders \ {f} :
                         finder'[g] = finder[g] /\ answer'[g] = answer[g] /\ known'[g] = known[g]
             Known(k) == known'[f] = k /\ k \subseteq RegisteredBoards
             Given(a2) == finder'[f] = "idle" /\ answer'[f] = a2
  <2>2. ASSUME Others, Right(f)' PROVE FindersRight'
    <3>1. \A g \in Finders \ {f} : Right(g)'
      BY <1>i, <2>1, <2>2
    <3>2. \A g \in Finders : Right(g)'
      <4> HIDE DEF Right
      <4> QED BY <2>2, <3>1
    <3> QED BY <1>r, <3>2
  <2>3. \A boards \in SUBSET Services : Answers(f, boards) =>
          /\ Given(boards)
          /\ \A g \in Finders \ {f} : finder'[g] = finder[g] /\ answer'[g] = answer[g]
    BY <2>t DEF Answers
  <2>4. ASSUME NEW n \in Names, FindInCache(f, n) PROVE Others /\ Right(f)'
    <3> DEFINE K == {s \in RegisteredBoards : NameOf[s] = n}
    <3>1. Known(K) /\ \A g \in Finders \ {f} : known'[g] = known[g]
      BY <2>t, <2>4 DEF FindInCache
    <3>2. CASE InCache(n)
      <4>1. _cache[SlotOf[n]] \in Services
        BY <3>2, NamesSlots DEF InCache, PoolTypes, Boards
      <4>2. Given({_cache[SlotOf[n]]}) /\ Others
        BY <2>3, <2>4, <3>1, <3>2, <4>1 DEF FindInCache
      <4>3. K \subseteq {_cache[SlotOf[n]]}
        BY <3>2, AnswersRight
      <4> QED BY <2>1, <3>1, <4>2, <4>3
    <3>3. CASE ~ InCache(n)
      <4>1. /\ finder'[f] = n /\ n # "idle" /\ answer' = answer
            /\ \A g \in Finders \ {f} : finder'[g] = finder[g]
        BY <2>t, <2>4, <3>3 DEF FindInCache
      <4> QED BY <2>1, <3>1, <4>1
    <3> QED BY <3>2, <3>3
  <2>5. ASSUME FindInMap(f) PROVE Others /\ Right(f)'
    <3> DEFINE n == finder[f]
               A == {_service_map[n]} \ {NoBoard}
    <3>1. n \in Names /\ A \in SUBSET Services /\ known' = known
      BY <2>5 DEF FindInMap, PoolTypes, Boards
    <3>2. Given(A) /\ Others
      BY <2>3, <2>5, <3>1 DEF FindInMap
    <3>3. known[f] \subseteq A
      <4>1. \A s \in known[f] : s \in RegisteredBoards /\ NameOf[s] = n
        BY <1>i, <2>t, <3>1
      <4> QED BY <3>1, <4>1, AnswersRight
    <3>4. \A s, t \in A : s = t
      OBVIOUS
    <3> HIDE DEF A, n
    <3> QED BY <1>i, <2>1, <3>1, <3>2, <3>3, <3>4
  <2>6. ASSUME ListService(f) PROVE Others /\ Right(f)'
    <3>1. Known(RegisteredBoards) /\ \A g \in Finders \ {f} : known'[g] = known[g]
      BY <2>t, <2>6 DEF ListService
    <3>2. ChainFrom(_head) \in SUBSET Services
      BY ChainIsChained DEF Chained
    <3>3. Given(ChainFrom(_head)) /\ Others
      BY <2>3, <2>6, <3>1, <3>2 DEF ListService
    <3> QED BY <2>1, <3>1, <3>3, AnswersRight
  <2>7. Others /\ Right(f)'
    <3> HIDE DEF Others, Right
    <3> QED BY <1>5, <2>4, <2>5, <2>6 DEF Finds
  <2> HIDE DEF Others, Right
  <2> QED BY <2>2, <2>7
<1> QED BY <1>1, <1>2, <1>3, <1>4, <1>5, PoolSteps

LEMMA SPInitInv == SPInit => SPInv
<1> SUFFICES ASSUME SPInit PROVE SPInv
  OBVIOUS
<1>1. PoolTypes /\ OneRegistrar /\ MapAgrees /\ CacheAgrees
  BY DEF SPInit, PoolTypes, OneRegistrar, MapAgrees, CacheAgrees, Mapped, Boards
<1>2. ChainAgrees
  <2>1. Chained = {}
    BY DEF SPInit, Chained
  <2> DEFINE l == [i \in 0 .. 0 |-> NoBoard]
  <2>2. BoardList(l, 0) /\ l[0] = NoBoard
    BY DEF BoardList, Boards
  <2>3. {l[j] : j \in 1 .. 0} = {}
    OBVIOUS
  <2> HIDE DEF l
  <2>4. l \in [0 .. 0 -> Boards]
    BY <2>2 DEF BoardList
  <2>5. _count = 0 /\ _head = NoBoard /\ Cardinality(Chained) = 0
    BY <2>1, FS_EmptySet DEF SPInit
  <2>6. \E k \in [0 .. 0 -> Boards] : BoardList(k, 0) /\ k[0] = _head /\ Chained = {k[j] : j \in 1 .. 0}
    BY <2>1, <2>2, <2>3, <2>4, <2>5
  <2>7. 0 \in Nat
    OBVIOUS
  <2> QED BY <2>5, <2>6, <2>7, Zenon DEF ChainAgrees
<1>3. FindersRight
  BY DEF SPInit, FindersRight, RegisteredIsFound
<1> QED BY <1>1, <1>2, <1>3 DEF SPInv

LEMMA SPStepInv == SPInv /\ [SPNext]_spvars => SPInv'
<1> SUFFICES ASSUME SPInv, [SPNext]_spvars PROVE SPInv'
  OBVIOUS
<1>1. CASE SPNext
  BY <1>1, StepPoolTypes, StepOneRegistrar, StepMapAgrees, StepChainAgrees, StepCacheAgrees,
     StepFindersRight DEF SPInv
<1>2. CASE UNCHANGED spvars
  <2> USE <1>2 DEF spvars, pool, SPInv
  <2>1. PoolTypes' /\ OneRegistrar' /\ CacheAgrees'
    BY DEF PoolTypes, OneRegistrar, CacheAgrees
  <2>2. MapAgrees'
    BY DEF MapAgrees, Mapped
  <2>3. ChainAgrees'
    BY DEF ChainAgrees, Chained, BoardList
  <2>4. FindersRight'
    BY DEF FindersRight, RegisteredIsFound, RegisteredBoards
  <2> QED BY <2>1, <2>2, <2>3, <2>4
<1> QED BY <1>1, <1>2

\* With the lock free, every registration that was begun is over.
LEMMA ConsistentPool == SPInv => PoolConsistent
<1> SUFFICES ASSUME SPInv, _service_map_lock = {}
             PROVE  /\ {_service_map[n] : n \in Names} \ {NoBoard} = ChainFrom(_head)
                    /\ RegisteredBoards = ChainFrom(_head) /\ _count = Cardinality(RegisteredBoards)
                    /\ \A i \in Slots : _cache[i] # NoBoard => _cache[i] \in ChainFrom(_head)
  BY DEF PoolConsistent
<1> USE DEF SPInv
<1>1. \A s \in Services : registrar[s] \notin {"map", "head"}
  BY DEF OneRegistrar
<1>2. Mapped = RegisteredBoards /\ Chained = RegisteredBoards
  BY <1>1 DEF Mapped, Chained, RegisteredBoards
<1>3. ChainFrom(_head) = RegisteredBoards
  BY <1>2, ChainIsChained
<1>4. {_service_map[n] : n \in Names} \ {NoBoard} = Mapped
  <2>1. \A s \in Mapped : NameOf[s] \in Names /\ _service_map[NameOf[s]] = s /\ s # NoBoard
    BY NamesSlots, ServicePoolAssumption DEF MapAgrees, Mapped
  <2>2. \A n \in Names : _service_map[n] # NoBoard => _service_map[n] \in Mapped
    BY DEF MapAgrees
  <2> QED BY <2>1, <2>2
<1>5. \A i \in Slots : _cache[i] # NoBoard => _cache[i] \in RegisteredBoards
  BY DEF PoolTypes, CacheAgrees, RegisteredBoards, Boards
<1> QED BY <1>2, <1>3, <1>4, <1>5 DEF ChainAgrees

\* What FoundByName says of a step.
LEMMA FoundIsNamed ==
  ASSUME SPInv, SPNext, NEW f \in Finders, NEW n \in Names,
         FindInCache(f, n) \/ (finder[f] = n /\ finder'[f] = "idle"),
         NEW s \in answer'[f], finder'[f] = "idle"
  PROVE  NameOf[s] = n /\ _service_map[n] = s
<1> USE DEF SPInv
<1>t. /\ finder \in [Finders -> Names \cup {"idle"}] /\ "idle" \notin Names
      /\ answer \in [Finders -> SUBSET Services]
  BY ServicePoolAssumption DEF PoolTypes
<1>1. CASE FindInCache(f, n)
  <2>1. InCache(n)
    BY <1>1, <1>t DEF FindInCache
  <2>2. answer'[f] = {_cache[SlotOf[n]]}
    BY <1>1, <1>t, <2>1 DEF FindInCache, Answers
  <2> QED BY <2>1, <2>2, AnswersRight
<1>2. CASE ~ FindInCache(f, n)
  <2>1. finder[f] = n /\ finder[f] # "idle"
    BY <1>2, <1>t
  <2>2. ASSUME NEW g \in Finders, g # f, Finds(g) PROVE FALSE
    <3>1. finder'[f] = finder[f]
      BY <1>t, <2>2 DEF Finds, FindInCache, FindInMap, ListService, Answers
    <3> QED BY <2>1, <3>1
  <2>3. ASSUME NEW t \in Services, RegisterRefused(t) \/ RegisterMap(t) \/ RegisterHead(t) \/ RegisterCache(t)
        PROVE  FALSE
    BY <2>1, <2>3 DEF RegisterRefused, RegisterMap, RegisterHead, RegisterCache
  <2>4. Finds(f)
    BY <2>2, <2>3, PoolSteps
  <2>5. FindInMap(f)
    BY <2>1, <2>4 DEF Finds, FindInCache, ListService
  <2>6. answer'[f] = {_service_map[n]} \ {NoBoard}
    BY <1>t, <2>1, <2>5 DEF FindInMap, Answers
  <2> QED BY <2>6, AnswersRight
<1> QED BY <1>1, <1>2

\* For any number of services, names, slots and finders: what was registered is
\* found, under its own name and the same board each time, and with the lock
\* free the map, the chain of boards, _count and the cache agree.
THEOREM LookupsFind == SPSpec => ServicesFound
<1>1. SPInv => RegisteredIsFound /\ PoolConsistent
  BY ConsistentPool DEF SPInv, FindersRight
<1>2. SPInv /\ [SPNext]_spvars =>
        [\A f \in Finders, n \in Names :
           FindInCache(f, n) \/ (finder[f] = n /\ finder'[f] = "idle")
             => \A s \in answer'[f] :
                  finder'[f] = "idle" => NameOf[s] = n /\ _service_map[n] = s]_spvars
  <2> SUFFICES ASSUME SPInv, SPNext
               PROVE  \A f \in Finders, n \in Names :
                        FindInCache(f, n) \/ (finder[f] = n /\ finder'[f] = "idle")
                          => \A s \in answer'[f] :
                               finder'[f] = "idle" => NameOf[s] = n /\ _service_map[n] = s
    OBVIOUS
  <2> QED BY FoundIsNamed
<1> QED BY <1>1, <1>2, SPInitInv, SPStepInv, PTL DEF SPSpec, ServicesFound, FoundByName
-----------------------------------------------------------------------------
(* Logger: what each thread has in hand, what it has pushed and what of it *)
(* has been written agree on the numbers of its lines; fd is at most       *)
(* MaxDelay older than the last file any thread made.                      *)

Line == [by : LogThreads, no : Nat, at : Nat]
Record == [line : Line, file : Nat]

LGTypeOK ==
  /\ is_sync \in BOOLEAN /\ log_isruning \in BOOLEAN /\ clock \in Nat /\ fd \in Nat
  /\ time \in [LogThreads -> Nat] /\ last_create \in [LogThreads -> Nat]
  /\ logged \in [LogThreads -> Nat]
  /\ entry \in [LogThreads -> Seq(Line)] /\ _loglist \in [LogThreads -> Seq(Line)]
  /\ written \in Seq(Record)

\* How many lines of t are written.
LinesDone(t) == IF is_sync THEN logged[t] - Len(entry[t])
                ELSE IF t = Closer /\ ~ log_isruning THEN logged[t] ELSE 0

\* A line in hand is its thread's last, and no older than MaxDelay.
LineInHand ==
  \A t \in LogThreads : entry[t] # <<>> =>
    /\ is_sync /\ Len(entry[t]) = 1 /\ logged[t] > 0
    /\ entry[t][1] = [by |-> t, no |-> logged[t], at |-> time[t]]
    /\ clock <= time[t] + MaxDelay

\* The list of a thread holds all its lines after Init(conf), until Close.
LinesPushed ==
  \A t \in LogThreads :
    /\ is_sync => _loglist[t] = <<>> /\ log_isruning
    /\ \A i \in 1..Len(_loglist[t]) : _loglist[t][i].by = t /\ _loglist[t][i].no = i
    /\ ~ is_sync /\ (t # Closer \/ log_isruning) => Len(_loglist[t]) = logged[t]

\* The lines written of a thread are its first LinesDone, in order.
LinesNumbered ==
  /\ \A i, j \in 1..Len(written) :
       i < j /\ written[i].line.by = written[j].line.by
         => written[i].line.no < written[j].line.no
  /\ \A t \in LogThreads : \A i \in 1..Len(written) :
       written[i].line.by = t => written[i].line.no \in 1..LinesDone(t)
  /\ \A t \in LogThreads : \A n \in 1..LinesDone(t) :
       \E i \in 1..Len(written) : written[i].line.by = t /\ written[i].line.no = n

\* No thread made a file much later than the one that is open.
OpenFile ==
  /\ \A t \in LogThreads : time[t] <= clock /\ last_create[t] <= time[t]
  /\ is_sync => \A t \in LogThreads : last_create[t] <= fd + MaxDelay

LGInv == LGTypeOK /\ LineInHand /\ LinesPushed /\ LinesNumbered /\ OpenFile /\ FileIsRecent

\* The elements of a concatenation.
LEMMA ConcatParts ==
  ASSUME NEW S, NEW u \in Seq(S), NEW v \in Seq(S)
  PROVE  /\ u \o v \in Seq(S) /\ Len(u \o v) = Len(u) + Len(v)
         /\ \A i \in 1..Len(u) : (u \o v)[i] = u[i]
         /\ \A i \in 1..Len(v) : (u \o v)[Len(u) + i] = v[i]
<1>1. Len(u) \in Nat /\ Len(v) \in Nat
  BY LenProperties
<1>2. /\ u \o v \in Seq(S) /\ Len(u \o v) = Len(u) + Len(v)
      /\ \A i \in 1..Len(u) + Len(v) :
           (u \o v)[i] = IF i <= Len(u) THEN u[i] ELSE v[i - Len(u)]
  BY ConcatProperties
<1>3. ASSUME NEW i \in 1..Len(u)  PROVE (u \o v)[i] = u[i]
  BY <1>1, <1>2
<1>4. ASSUME NEW i \in 1..Len(v)  PROVE (u \o v)[Len(u) + i] = v[i]
  <2>1. Len(u) + i \in 1..Len(u) + Len(v) /\ ~ Len(u) + i <= Len(u) /\ Len(u) + i - Len(u) = i
    BY <1>1
  <2> QED BY <1>2, <2>1
<1> QED BY <1>2, <1>3, <1>4

\* What OutPut appends to the file.
LEMMA AppendedLines ==
  ASSUME NEW w \in Seq(Record), NEW l \in Seq(Line), NEW f \in Nat, NEW r,
         r = [i \in DOMAIN l |-> [line |-> l[i], file |-> f]]
  PROVE  /\ w \o r \in Seq(Record) /\ Len(w \o r) = Len(w) + Len(l)
         /\ \A i \in 1..Len(w) : (w \o r)[i] = w[i]
         /\ \A i \in 1..Len(l) : (w \o r)[Len(w) + i] = [line |-> l[i], file |-> f]
<1>1. Len(l) \in Nat /\ DOMAIN l = 1..Len(l) /\ \A i \in 1..Len(l) : l[i] \in Line
  BY ElementOfSeq, LenProperties
<1>2. r \in [1..Len(l) -> Record]
  BY <1>1 DEF Record
<1>3. r \in Seq(Record) /\ Len(r) = Len(l)
  <2>1. r \in Seq(Record)
    BY <1>1, <1>2, IsASeq
  <2>2. DOMAIN r = 1..Len(r) /\ Len(r) \in Nat
    BY <2>1, LenProperties
  <2>3. DOMAIN r = 1..Len(l)
    BY <1>1
  <2> QED BY <1>1, <2>1, <2>2, <2>3
<1>4. \A i \in 1..Len(l) : r[i] = [line |-> l[i], file |-> f]
  BY <1>1
<1>5. /\ w \o r \in Seq(Record) /\ Len(w \o r) = Len(w) + Len(r)
      /\ \A i \in 1..Len(w) : (w \o r)[i] = w[i]
      /\ \A i \in 1..Len(r) : (w \o r)[Len(w) + i] = r[i]
  BY <1>3, ConcatParts
<1> QED BY <1>3, <1>4, <1>5

\* A step that writes nothing and leaves LinesDone alone keeps the numbers.
LEMMA NothingWritten ==
  ASSUME LGInv, LGTypeOK', UNCHANGED written,
         \A t \in LogThreads : LinesDone(t)' = LinesDone(t)
  PROVE  LinesNumbered'
<1>2. LinesNumbered /\ written' = written
  BY DEF LGInv
<1>3. Len(written') = Len(written)
  BY <1>2
<1> HIDE DEF LinesDone
<1>4. ASSUME NEW t \in LogThreads, NEW i \in 1..Len(written'), written'[i].line.by = t
      PROVE  written'[i].line.no \in 1..LinesDone(t)'
  BY <1>2, <1>3, <1>4 DEF LinesNumbered
<1>5. ASSUME NEW t \in LogThreads, NEW n \in 1..LinesDone(t)'
      PROVE  \E i \in 1..Len(written') : written'[i].line.by = t /\ written'[i].line.no = n
  BY <1>2, <1>3 DEF LinesNumbered
<1>6. \A i, j \in 1..Len(written') :
        i < j /\ written'[i].line.by = written'[j].line.by
          => written'[i].line.no < written'[j].line.no
  BY <1>2, <1>3 DEF LinesNumbered
<1> QED BY <1>4, <1>5, <1>6 DEF LinesNumbered

LEMMA LinesDoneIsNat ==
  ASSUME LGTypeOK, LineInHand
  PROVE  \A t \in LogThreads : LinesDone(t) \in Nat
<1> SUFFICES ASSUME NEW t \in LogThreads  PROVE LinesDone(t) \in Nat
  OBVIOUS
<1>1. logged[t] \in Nat /\ entry[t] \in Seq(Line)
  BY DEF LGTypeOK
<1>2. CASE entry[t] = <<>>
  <2>1. Len(entry[t]) = 0
    BY <1>2
  <2> QED BY <1>1, <2>1 DEF LinesDone
<1>3. CASE entry[t] # <<>>
  <2>1. Len(entry[t]) = 1 /\ logged[t] > 0
    BY <1>3 DEF LineInHand
  <2> QED BY <1>1, <2>1 DEF LinesDone
<1> QED BY <1>2, <1>3

\* The lines l are appended to what was written, into the file f.
Appended(l, f) ==
  /\ written' \in Seq(Record) /\ Len(written') = Len(written) + Len(l)
  /\ \A i \in 1..Len(written) : written'[i] = written[i]
  /\ \A i \in 1..Len(l) : written'[Len(written) + i] = [line |-> l[i], file |-> f]

\* One OutPut: the lines are appended, into a file that is t's last one, or
\* not an hour younger than its stamp.
LEMMA OutPutAppends ==
  ASSUME LGTypeOK, NEW t \in LogThreads, NEW l \in Seq(Line), OutPut(t, l)
  PROVE  /\ Appended(l, fd')
         /\ fd' \in Nat /\ last_create' \in [LogThreads -> Nat]
         /\ \A u \in LogThreads : u # t => last_create'[u] = last_create[u]
         /\ \/ last_create'[t] = time[t] /\ fd' = time[t]
            \/ /\ last_create' = last_create /\ fd' = fd
               /\ time[t] <= last_create[t] + Hour
<1>1. /\ time[t] \in Nat /\ last_create[t] \in Nat /\ Hour \in Nat
      /\ last_create \in [LogThreads -> Nat] /\ fd \in Nat /\ written \in Seq(Record)
  BY LoggerAssumption DEF LGTypeOK
<1>2. /\ fd' \in Nat /\ last_create' \in [LogThreads -> Nat]
      /\ \A u \in LogThreads : u # t => last_create'[u] = last_create[u]
      /\ \/ last_create'[t] = time[t] /\ fd' = time[t]
         \/ /\ last_create' = last_create /\ fd' = fd
            /\ time[t] <= last_create[t] + Hour
  <2>1. CASE NewFileDue(t)
    <3>1. last_create' = [last_create EXCEPT ![t] = time[t]] /\ fd' = time[t]
      BY <2>1 DEF OutPut
    <3> QED BY <1>1, <3>1
  <2>2. CASE ~ NewFileDue(t)
    <3>1. last_create' = last_create /\ fd' = fd
      BY <2>2 DEF OutPut
    <3>2. time[t] <= last_create[t] + Hour
      BY <1>1, <2>2 DEF NewFileDue
    <3> QED BY <1>1, <3>1, <3>2
  <2> QED BY <2>1, <2>2
<1>3. written' = written \o [i \in DOMAIN l |-> [line |-> l[i], file |-> fd']]
  BY DEF OutPut
<1>4. Appended(l, fd')
  <2>1. PICK f : f = fd'
    OBVIOUS
  <2>2. PICK r : r = [i \in DOMAIN l |-> [line |-> l[i], file |-> f]]
    OBVIOUS
  <2>3. written' = written \o r /\ f \in Nat
    BY <1>2, <1>3, <2>1, <2>2
  <2> DEFINE x == written \o r
  <2>4. /\ x \in Seq(Record) /\ Len(x) = Len(written) + Len(l)
        /\ \A i \in 1..Len(written) : x[i] = written[i]
        /\ \A i \in 1..Len(l) : x[Len(written) + i] = [line |-> l[i], file |-> f]
    BY <1>1, <2>2, <2>3, AppendedLines
  <2> QED BY <2>1, <2>3, <2>4 DEF Appended
<1> QED BY <1>2, <1>4

\* The next lines of t, in order, are appended.
LEMMA NumbersGrow ==
  ASSUME LGInv, NEW t \in LogThreads, NEW l \in Seq(Line), NEW f, Appended(l, f),
         \A i \in 1..Len(l) : l[i].by = t /\ l[i].no = LinesDone(t) + i,
         LinesDone(t)' = LinesDone(t) + Len(l),
         \A u \in LogThreads : u # t => LinesDone(u)' = LinesDone(u)
  PROVE  LinesNumbered'
<1>1. \A u \in LogThreads : LinesDone(u) \in Nat
  BY LinesDoneIsNat DEF LGInv
<1>2. Len(written) \in Nat /\ Len(l) \in Nat /\ written \in Seq(Record)
  <2>1. written \in Seq(Record)
    BY DEF LGInv, LGTypeOK
  <2> QED BY <2>1, LenProperties
<1>3. \A i \in 1..Len(written) : written[i] \in Record
  BY <1>2, ElementOfSeq
<1>4. \A i \in 1..Len(written) : written[i].line.by \in LogThreads /\ written[i].line.no \in Nat
  BY <1>3 DEF Record, Line
<1>5. Len(written') = Len(written) + Len(l)
  BY DEF Appended
<1>6. \A i \in 1..Len(written) : written'[i].line = written[i].line
  BY DEF Appended
<1>7. ASSUME NEW i \in 1..Len(written'), i \notin 1..Len(written)
      PROVE  /\ i - Len(written) \in 1..Len(l)
             /\ written'[i].line.by = t
             /\ written'[i].line.no = LinesDone(t) + (i - Len(written))
  <2>1. i - Len(written) \in 1..Len(l) /\ Len(written) + (i - Len(written)) = i
    BY <1>2, <1>5, <1>7
  <2>2. written'[i] = [line |-> l[i - Len(written)], file |-> f]
    BY <2>1 DEF Appended
  <2> QED BY <2>1, <2>2
<1>8. LinesNumbered
  BY DEF LGInv
<1>9. ASSUME NEW i \in 1..Len(written'), NEW j \in 1..Len(written'), i < j,
             written'[i].line.by = written'[j].line.by
      PROVE  written'[i].line.no < written'[j].line.no
  <2>1. CASE j \in 1..Len(written)
    <3>1. i \in 1..Len(written)
      BY <1>2, <1>5, <1>9, <2>1
    <3> QED BY <1>6, <1>8, <1>9, <2>1, <3>1 DEF LinesNumbered
  <2>2. CASE j \notin 1..Len(written) /\ i \in 1..Len(written)
    <3>1. written[i].line.by = t
      BY <1>6, <1>7, <1>9, <2>2
    <3>2. written[i].line.no \in 1..LinesDone(t)
      BY <1>8, <2>2, <3>1 DEF LinesNumbered
    <3>3. written'[i].line.no \in 1..LinesDone(t)
      BY <1>6, <2>2, <3>2
    <3>4. j - Len(written) >= 1 /\ written'[j].line.no = LinesDone(t) + (j - Len(written))
      BY <1>2, <1>7, <2>2
    <3> QED BY <1>1, <1>2, <3>3, <3>4
  <2>3. CASE j \notin 1..Len(written) /\ i \notin 1..Len(written)
    <3>1. /\ written'[i].line.no = LinesDone(t) + (i - Len(written))
          /\ written'[j].line.no = LinesDone(t) + (j - Len(written))
      BY <1>7, <2>3
    <3>2. i \in Int /\ j \in Int /\ LinesDone(t) \in Nat
      BY <1>1
    <3> QED BY <1>2, <1>9, <3>1, <3>2
  <2> QED BY <2>1, <2>2, <2>3
<1>10. ASSUME NEW u \in LogThreads, NEW i \in 1..Len(written'), written'[i].line.by = u
       PROVE  written'[i].line.no \in 1..LinesDone(u)'
  <2>1. CASE i \in 1..Len(written)
    <3>1. written[i].line.no \in 1..LinesDone(u)
      BY <1>6, <1>8, <1>10, <2>1 DEF LinesNumbered
    <3>2. LinesDone(u) \in Nat /\ LinesDone(u)' >= LinesDone(u) /\ LinesDone(u)' \in Nat
      BY <1>1, <1>2
    <3>3. written[i].line.no \in 1..LinesDone(u)'
      BY <3>1, <3>2
    <3> QED BY <1>6, <2>1, <3>3
  <2>2. CASE i \notin 1..Len(written)
    <3>1. /\ i - Len(written) \in 1..Len(l) /\ u = t
          /\ written'[i].line.no = LinesDone(t) + (i - Len(written))
      BY <1>7, <1>10, <2>2
    <3>2. LinesDone(t) + (i - Len(written)) \in 1..LinesDone(t) + Len(l)
      BY <1>1, <1>2, <3>1
    <3> QED BY <3>1, <3>2
  <2> QED BY <2>1, <2>2
<1>11. ASSUME NEW u \in LogThreads, NEW n \in 1..LinesDone(u)'
       PROVE  \E i \in 1..Len(written') : written'[i].line.by = u /\ written'[i].line.no = n
  <2>1. CASE n \in 1..LinesDone(u)
    <3>1. PICK i \in 1..Len(written) : written[i].line.by = u /\ written[i].line.no = n
      BY <1>8, <2>1 DEF LinesNumbered
    <3>2. i \in 1..Len(written')
      BY <1>2, <1>5
    <3> QED BY <1>6, <3>1, <3>2
  <2>2. CASE n \notin 1..LinesDone(u)
    <3>1. u = t /\ n - LinesDone(t) \in 1..Len(l)
      BY <1>1, <1>2, <2>2
    <3>2. PICK k \in 1..Len(l) : k = n - LinesDone(t)
      BY <3>1
    <3>3. Len(written) + k \in 1..Len(written') /\ LinesDone(t) + k = n
      BY <1>1, <1>2, <1>5, <3>2
    <3>4. written'[Len(written) + k] = [line |-> l[k], file |-> f]
      BY DEF Appended
    <3>5. written'[Len(written) + k].line.by = t /\ written'[Len(written) + k].line.no = n
      BY <3>3, <3>4
    <3> QED BY <3>1, <3>3, <3>5
  <2> QED BY <2>1, <2>2
<1> QED BY <1>9, <1>10, <1>11 DEF LinesNumbered

LEMMA RecentGrows ==
  ASSUME LGInv, NEW l \in Seq(Line), NEW f \in Nat, Appended(l, f), UNCHANGED is_sync,
         is_sync => \A i \in 1..Len(l) : l[i].at - f <= Hour + MaxDelay
  PROVE  FileIsRecent'
<1> SUFFICES ASSUME is_sync', NEW i \in DOMAIN written'
             PROVE  written'[i].line.at - written'[i].file <= Hour + MaxDelay
  BY DEF FileIsRecent
<1>1. written \in Seq(Record) /\ FileIsRecent /\ is_sync
  BY DEF LGInv, LGTypeOK
<1>2. Len(written) \in Nat /\ Len(l) \in Nat /\ DOMAIN written = 1..Len(written)
  BY <1>1, LenProperties
<1>3. written' \in Seq(Record) /\ Len(written') = Len(written) + Len(l)
  BY DEF Appended
<1>4. i \in 1..Len(written')
  BY <1>3, LenProperties
<1>5. CASE i \in 1..Len(written)
  <2>1. written'[i] = written[i]
    BY <1>5 DEF Appended
  <2> QED BY <1>1, <1>2, <1>5, <2>1 DEF FileIsRecent
<1>6. CASE i \notin 1..Len(written)
  <2>1. i - Len(written) \in 1..Len(l) /\ Len(written) + (i - Len(written)) = i
    BY <1>2, <1>3, <1>4, <1>6
  <2>2. written'[i] = [line |-> l[i - Len(written)], file |-> f]
    BY <2>1 DEF Appended
  <2>3. l[i - Len(written)].at - f <= Hour + MaxDelay
    BY <1>1, <2>1
  <2> QED BY <2>2, <2>3
<1> QED BY <1>5, <1>6

LEMMA LGInitInv == LGInit => LGInv
<1> SUFFICES ASSUME LGInit  PROVE LGInv
  OBVIOUS
<1>1. Start \in Nat /\ MaxDelay \in Nat
  BY LoggerAssumption
<1>2. <<>> \in Seq(Line) /\ <<>> \in Seq(Record)
  BY EmptySeq
<1>3. LGTypeOK
  BY <1>1, <1>2 DEF LGInit, LGTypeOK
<1>4. LineInHand
  BY DEF LGInit, LineInHand
<1>5. written = <<>> /\ Len(written) = 0
  BY DEF LGInit
<1>6. \A t \in LogThreads : /\ entry[t] = <<>> /\ _loglist[t] = <<>> /\ Len(entry[t]) = 0
                            /\ Len(_loglist[t]) = 0 /\ logged[t] = 0
  BY DEF LGInit
<1> HIDE DEF LGInit
<1>12. log_isruning = TRUE
  BY DEF LGInit
<1>7. LinesPushed
  <2> SUFFICES ASSUME NEW t \in LogThreads
               PROVE  /\ _loglist[t] = <<>> /\ log_isruning /\ Len(_loglist[t]) = logged[t]
                      /\ 1..Len(_loglist[t]) = {}
    BY DEF LinesPushed
  <2>1. Len(_loglist[t]) = 0 /\ logged[t] = 0 /\ _loglist[t] = <<>>
    BY <1>6
  <2> QED BY <1>12, <2>1
<1>8. \A t \in LogThreads : LinesDone(t) = 0
  <2> SUFFICES ASSUME NEW t \in LogThreads  PROVE LinesDone(t) = 0
    OBVIOUS
  <2>1. Len(entry[t]) = 0 /\ logged[t] = 0
    BY <1>6
  <2> QED BY <1>12, <2>1 DEF LinesDone
<1>9. LinesNumbered
  BY <1>5, <1>8 DEF LinesNumbered
<1>10. OpenFile
  BY <1>1 DEF LGInit, OpenFile
<1>11. FileIsRecent
  BY <1>5 DEF FileIsRecent
<1> QED BY <1>3, <1>4, <1>7, <1>9, <1>10, <1>11 DEF LGInv

LEMMA TickInv == LGInv /\ Tick => LGInv'
<1> SUFFICES ASSUME LGInv, Tick  PROVE LGInv'
  OBVIOUS
<1>1. /\ clock' = clock + 1
      /\ UNCHANGED <<is_sync, log_isruning, time, last_create, fd, entry, _loglist, logged, written>>
      /\ \A t \in LogThreads : \A i \in DOMAIN entry[t] : clock - entry[t][i].at < MaxDelay
  BY DEF Tick
<1>2. LGTypeOK /\ MaxDelay \in Nat
  BY LoggerAssumption DEF LGInv
<1>3. LGTypeOK'
  BY <1>1, <1>2 DEF LGTypeOK
<1>4. LineInHand'
  <2> SUFFICES ASSUME NEW t \in LogThreads, entry[t] # <<>>
               PROVE  clock + 1 <= time[t] + MaxDelay
    BY <1>1 DEF LGInv, LineInHand
  <2>0. LineInHand
    BY DEF LGInv
  <2>1. Len(entry[t]) = 1 /\ entry[t][1].at = time[t]
    <3>1. Len(entry[t]) = 1 /\ entry[t][1] = [by |-> t, no |-> logged[t], at |-> time[t]]
      BY <2>0 DEF LineInHand
    <3> QED BY <3>1
  <2>2. entry[t] \in Seq(Line) /\ time[t] \in Nat /\ clock \in Nat
    BY <1>2 DEF LGTypeOK
  <2>3. 1 \in DOMAIN entry[t]
    BY <2>1, <2>2, LenProperties
  <2>4. clock - time[t] < MaxDelay
    BY <1>1, <2>1, <2>3
  <2> QED BY <1>2, <2>2, <2>4
<1>5. LinesPushed'
  BY <1>1 DEF LGInv, LinesPushed
<1>6. LinesNumbered'
  <2>1. \A t \in LogThreads : LinesDone(t)' = LinesDone(t)
    BY <1>1 DEF LinesDone
  <2> QED BY <1>1, <1>3, <2>1, NothingWritten
<1>7. OpenFile'
  <2>1. \A t \in LogThreads : time[t] \in Nat /\ last_create[t] \in Nat /\ clock \in Nat
    BY <1>2 DEF LGTypeOK
  <2> QED BY <1>1, <2>1 DEF LGInv, OpenFile
<1>8. FileIsRecent'
  BY <1>1 DEF LGInv, FileIsRecent
<1> QED BY <1>3, <1>4, <1>5, <1>6, <1>7, <1>8 DEF LGInv

LEMMA StampInv == ASSUME LGInv, NEW t \in LogThreads, Stamp(t)  PROVE LGInv'
<1> DEFINE e == [by |-> t, no |-> logged[t] + 1, at |-> clock]
<1>1. LGTypeOK /\ LineInHand /\ LinesPushed /\ OpenFile /\ MaxDelay \in Nat
  BY LoggerAssumption DEF LGInv
<1>2. /\ entry[t] = <<>> /\ (log_isruning \/ t # Closer)
      /\ UNCHANGED <<is_sync, log_isruning, clock, last_create, fd, written>>
  BY DEF Stamp
<1>3. /\ logged' \in [LogThreads -> Nat] /\ time' \in [LogThreads -> Nat]
      /\ logged'[t] = logged[t] + 1 /\ time'[t] = clock
      /\ \A u \in LogThreads : u # t => logged'[u] = logged[u] /\ time'[u] = time[u]
      /\ logged[t] \in Nat /\ clock \in Nat
  BY <1>1 DEF Stamp, LGTypeOK
<1>4. /\ is_sync => entry' = [entry EXCEPT ![t] = <<e>>] /\ _loglist' = _loglist
      /\ ~ is_sync => _loglist' = [_loglist EXCEPT ![t] = Append(@, e)] /\ entry' = entry
  BY DEF Stamp
<1>5. e \in Line /\ e.by = t /\ e.no = logged[t] + 1 /\ e.at = clock
  BY <1>3 DEF Line
<1>6. e = [by |-> t, no |-> logged'[t], at |-> time'[t]]
  BY <1>3
<1> HIDE DEF e
<1>7. /\ <<e>> \in Seq(Line) /\ Len(<<e>>) = 1 /\ <<e>>[1] = e /\ Len(<<>>) = 0
      /\ _loglist[t] \in Seq(Line) /\ Append(_loglist[t], e) \in Seq(Line)
  <2>1. _loglist[t] \in Seq(Line)
    BY <1>1 DEF LGTypeOK
  <2>2. Append(_loglist[t], e) \in Seq(Line)
    BY <1>5, <2>1, AppendProperties
  <2> QED BY <1>5, <2>1, <2>2
<1>8. /\ entry' \in [LogThreads -> Seq(Line)] /\ _loglist' \in [LogThreads -> Seq(Line)]
      /\ \A u \in LogThreads : u # t => entry'[u] = entry[u] /\ _loglist'[u] = _loglist[u]
      /\ is_sync => entry'[t] = <<e>> /\ _loglist'[t] = _loglist[t]
      /\ ~ is_sync => entry'[t] = <<>> /\ _loglist'[t] = Append(_loglist[t], e)
  <2>1. entry \in [LogThreads -> Seq(Line)] /\ _loglist \in [LogThreads -> Seq(Line)]
    BY <1>1 DEF LGTypeOK
  <2>2. CASE is_sync
    BY <1>4, <1>7, <2>1, <2>2
  <2>3. CASE ~ is_sync
    BY <1>2, <1>4, <1>7, <2>1, <2>3
  <2> QED BY <2>2, <2>3
<1>9. LGTypeOK'
  BY <1>1, <1>2, <1>3, <1>8 DEF LGTypeOK
<1>10. LineInHand'
  <2> SUFFICES ASSUME NEW u \in LogThreads, entry'[u] # <<>>
               PROVE  /\ is_sync' /\ Len(entry'[u]) = 1 /\ logged'[u] > 0
                      /\ entry'[u][1] = [by |-> u, no |-> logged'[u], at |-> time'[u]]
                      /\ clock' <= time'[u] + MaxDelay
    BY DEF LineInHand
  <2>1. CASE u = t
    <3>1. is_sync /\ entry'[t] = <<e>>
      BY <1>8, <2>1
    <3>2. logged'[t] > 0 /\ clock <= time'[t] + MaxDelay
      BY <1>1, <1>3
    <3> QED BY <1>2, <1>6, <1>7, <2>1, <3>1, <3>2
  <2>2. CASE u # t
    <3>1. entry'[u] = entry[u] /\ logged'[u] = logged[u] /\ time'[u] = time[u]
      BY <1>3, <1>8, <2>2
    <3>2. /\ is_sync /\ Len(entry[u]) = 1 /\ logged[u] > 0
          /\ entry[u][1] = [by |-> u, no |-> logged[u], at |-> time[u]]
          /\ clock <= time[u] + MaxDelay
      BY <1>1, <3>1 DEF LineInHand
    <3> QED BY <1>2, <3>1, <3>2
  <2> QED BY <2>1, <2>2
<1>11. LinesPushed'
  <2> SUFFICES ASSUME NEW u \in LogThreads
               PROVE  /\ is_sync' => _loglist'[u] = <<>> /\ log_isruning'
                      /\ \A i \in 1..Len(_loglist'[u]) :
                           _loglist'[u][i].by = u /\ _loglist'[u][i].no = i
                      /\ ~ is_sync' /\ (u # Closer \/ log_isruning')
                           => Len(_loglist'[u]) = logged'[u]
    BY DEF LinesPushed
  <2>1. /\ is_sync => _loglist[u] = <<>> /\ log_isruning
        /\ \A i \in 1..Len(_loglist[u]) : _loglist[u][i].by = u /\ _loglist[u][i].no = i
        /\ ~ is_sync /\ (u # Closer \/ log_isruning) => Len(_loglist[u]) = logged[u]
    BY <1>1 DEF LinesPushed
  <2>2. CASE u # t \/ is_sync
    <3>1. _loglist'[u] = _loglist[u] /\ (is_sync \/ logged'[u] = logged[u])
      BY <1>3, <1>8, <2>2
    <3> QED BY <1>2, <2>1, <3>1
  <2>3. CASE u = t /\ ~ is_sync
    <3>1. _loglist'[t] = Append(_loglist[t], e) /\ Len(_loglist[t]) = logged[t]
      BY <1>2, <1>8, <2>1, <2>3
    <3>2. /\ Len(_loglist'[t]) = Len(_loglist[t]) + 1
          /\ \A i \in 1..Len(_loglist[t]) : _loglist'[t][i] = _loglist[t][i]
          /\ _loglist'[t][Len(_loglist[t]) + 1] = e
      BY <1>5, <1>7, <3>1, AppendProperties
    <3>3. ASSUME NEW i \in 1..Len(_loglist'[t])
          PROVE  _loglist'[t][i].by = t /\ _loglist'[t][i].no = i
      <4>1. CASE i \in 1..Len(_loglist[t])
        BY <2>1, <2>3, <3>2, <4>1
      <4>2. CASE i \notin 1..Len(_loglist[t])
        <5>1. i = Len(_loglist[t]) + 1 /\ i = logged[t] + 1
          BY <1>3, <3>1, <3>2, <4>2
        <5> QED BY <1>5, <3>2, <5>1
      <4> QED BY <4>1, <4>2
    <3>4. Len(_loglist'[t]) = logged'[t]
      BY <1>3, <3>1, <3>2
    <3> QED BY <1>2, <2>3, <3>3, <3>4
  <2> QED BY <2>2, <2>3
<1>12. LinesNumbered'
  <2>1. ASSUME NEW u \in LogThreads  PROVE LinesDone(u)' = LinesDone(u)
    <3>1. CASE u # t
      BY <1>2, <1>3, <1>8, <3>1 DEF LinesDone
    <3>2. CASE u = t /\ is_sync
      <4>1. Len(entry'[t]) = 1 /\ Len(entry[t]) = 0
        BY <1>2, <1>7, <1>8, <3>2
      <4>2. logged'[t] - Len(entry'[t]) = logged[t] - Len(entry[t])
        BY <1>3, <4>1
      <4> QED BY <1>2, <3>2, <4>2 DEF LinesDone
    <3>3. CASE u = t /\ ~ is_sync
      BY <1>2, <3>3 DEF LinesDone
    <3> QED BY <3>1, <3>2, <3>3
  <2> QED BY <1>2, <1>9, <2>1, NothingWritten
<1>13. OpenFile'
  <2>1. \A u \in LogThreads : last_create[u] \in Nat /\ time[u] \in Nat
    BY <1>1 DEF LGTypeOK
  <2>2. \A u \in LogThreads : time[u] <= clock /\ last_create[u] <= time[u]
    BY <1>1 DEF OpenFile
  <2>3. ASSUME NEW u \in LogThreads  PROVE time'[u] <= clock /\ last_create[u] <= time'[u]
    BY <1>3, <2>1, <2>2
  <2> QED BY <1>1, <1>2, <2>3 DEF OpenFile
<1>14. FileIsRecent'
  BY <1>2 DEF LGInv, FileIsRecent
<1> QED BY <1>9, <1>10, <1>11, <1>12, <1>13, <1>14 DEF LGInv

LEMMA WriteEntryInv == ASSUME LGInv, NEW t \in LogThreads, WriteEntry(t)  PROVE LGInv'
<1>1. LGTypeOK /\ LineInHand /\ LinesPushed /\ OpenFile /\ MaxDelay \in Nat /\ Hour \in Nat
  BY LoggerAssumption DEF LGInv
<1>2. /\ entry[t] # <<>> /\ OutPut(t, entry[t]) /\ entry' = [entry EXCEPT ![t] = <<>>]
      /\ UNCHANGED <<is_sync, log_isruning, clock, time, _loglist, logged>>
  BY DEF WriteEntry
<1>3. /\ entry[t] \in Seq(Line) /\ time[t] \in Nat /\ logged[t] \in Nat /\ clock \in Nat
      /\ fd \in Nat /\ \A u \in LogThreads : last_create[u] \in Nat /\ time[u] \in Nat
  BY <1>1 DEF LGTypeOK
<1>4. /\ is_sync /\ Len(entry[t]) = 1 /\ logged[t] > 0
      /\ entry[t][1] = [by |-> t, no |-> logged[t], at |-> time[t]]
      /\ clock <= time[t] + MaxDelay
  BY <1>1, <1>2 DEF LineInHand
<1>5. /\ entry[t][1].by = t /\ entry[t][1].no = logged[t] /\ entry[t][1].at = time[t]
  BY <1>4
<1>6. /\ Appended(entry[t], fd')
      /\ fd' \in Nat /\ last_create' \in [LogThreads -> Nat]
      /\ \A u \in LogThreads : u # t => last_create'[u] = last_create[u]
      /\ \/ last_create'[t] = time[t] /\ fd' = time[t]
         \/ /\ last_create' = last_create /\ fd' = fd
            /\ time[t] <= last_create[t] + Hour
  BY <1>1, <1>2, <1>3, OutPutAppends
<1>7. /\ entry' \in [LogThreads -> Seq(Line)] /\ entry'[t] = <<>>
      /\ \A u \in LogThreads : u # t => entry'[u] = entry[u]
  <2>1. entry \in [LogThreads -> Seq(Line)] /\ <<>> \in Seq(Line)
    BY <1>1, EmptySeq DEF LGTypeOK
  <2> QED BY <1>2, <2>1
<1>8. LGTypeOK'
  BY <1>1, <1>2, <1>6, <1>7 DEF LGTypeOK, Appended
<1>9. LineInHand'
  BY <1>1, <1>2, <1>7 DEF LineInHand
<1>10. LinesPushed'
  BY <1>1, <1>2 DEF LinesPushed
<1>11. LinesNumbered'
  <2>1. LinesDone(t) = logged[t] - 1
    BY <1>4 DEF LinesDone
  <2>2. LinesDone(t)' = logged[t]
    <3>1. Len(entry'[t]) = 0
      BY <1>7
    <3>2. LinesDone(t)' = logged'[t] - Len(entry'[t])
      BY <1>2, <1>4 DEF LinesDone
    <3> QED BY <1>2, <1>3, <3>1, <3>2
  <2>3. ASSUME NEW u \in LogThreads, u # t  PROVE LinesDone(u)' = LinesDone(u)
    BY <1>2, <1>7, <2>3 DEF LinesDone
  <2>4. LinesDone(t)' = LinesDone(t) + Len(entry[t])
    BY <1>3, <1>4, <2>1, <2>2
  <2>5. \A i \in 1..Len(entry[t]) : entry[t][i].by = t /\ entry[t][i].no = LinesDone(t) + i
    BY <1>3, <1>4, <1>5, <2>1
  <2>6. PICK f : f = fd'
    OBVIOUS
  <2> QED BY <1>3, <1>6, <2>3, <2>4, <2>5, <2>6, NumbersGrow
<1>12. \A u \in LogThreads : time[u] <= clock /\ last_create[u] <= time[u] /\ last_create[u] <= fd + MaxDelay
  BY <1>1, <1>4 DEF OpenFile
<1>13. ASSUME NEW u \in LogThreads
       PROVE  last_create'[u] <= time[u] /\ last_create'[u] <= fd' + MaxDelay
  <2>1. CASE last_create'[t] = time[t] /\ fd' = time[t]
    <3>1. CASE u = t
      BY <1>1, <1>3, <2>1, <3>1
    <3>2. CASE u # t
      <4>1. last_create'[u] = last_create[u] /\ last_create[u] <= clock
        BY <1>3, <1>6, <1>12, <3>2
      <4> QED BY <1>1, <1>3, <1>4, <1>12, <2>1, <4>1
    <3> QED BY <3>1, <3>2
  <2>2. CASE last_create' = last_create /\ fd' = fd
    BY <1>12, <2>2
  <2> QED BY <1>6, <2>1, <2>2
<1>14. OpenFile'
  BY <1>2, <1>12, <1>13 DEF OpenFile
<1>15. FileIsRecent'
  <2>1. time[t] - fd' <= Hour + MaxDelay
    <3>1. CASE fd' = time[t]
      BY <1>1, <1>3, <3>1
    <3>2. CASE fd' = fd /\ time[t] <= last_create[t] + Hour
      BY <1>1, <1>3, <1>12, <3>2
    <3> QED BY <1>6, <3>1, <3>2
  <2>2. \A i \in 1..Len(entry[t]) : entry[t][i].at - fd' <= Hour + MaxDelay
    BY <1>4, <1>5, <2>1
  <2>3. PICK f \in Nat : f = fd'
    BY <1>6
  <2>4. /\ Appended(entry[t], f) /\ UNCHANGED is_sync
        /\ \A i \in 1..Len(entry[t]) : entry[t][i].at - f <= Hour + MaxDelay
    BY <1>2, <1>6, <2>2, <2>3
  <2> QED BY <1>3, <2>4, RecentGrows
<1> QED BY <1>8, <1>9, <1>10, <1>11, <1>14, <1>15 DEF LGInv

LEMMA CloseInv == LGInv /\ Close => LGInv'
<1> SUFFICES ASSUME LGInv, Close  PROVE LGInv'
  OBVIOUS
<1>1. LGTypeOK /\ LineInHand /\ LinesPushed /\ OpenFile /\ Closer \in LogThreads
  BY LoggerAssumption DEF LGInv
<1>2. /\ ~ is_sync /\ log_isruning /\ log_isruning' = FALSE
      /\ _loglist' = [_loglist EXCEPT ![Closer] = <<>>]
      /\ UNCHANGED <<is_sync, clock, time, entry, logged>>
  BY DEF Close
<1>3. /\ _loglist[Closer] \in Seq(Line) /\ time[Closer] \in Nat /\ logged[Closer] \in Nat
      /\ last_create \in [LogThreads -> Nat] /\ fd \in Nat /\ written \in Seq(Record)
  BY <1>1 DEF LGTypeOK
<1>4. /\ _loglist' \in [LogThreads -> Seq(Line)] /\ _loglist'[Closer] = <<>>
      /\ \A u \in LogThreads : u # Closer => _loglist'[u] = _loglist[u]
  <2>1. _loglist \in [LogThreads -> Seq(Line)] /\ <<>> \in Seq(Line)
    BY <1>1, EmptySeq DEF LGTypeOK
  <2> QED BY <1>1, <1>2, <2>1
<1>5. /\ Len(_loglist[Closer]) = logged[Closer]
      /\ \A i \in 1..Len(_loglist[Closer]) :
           _loglist[Closer][i].by = Closer /\ _loglist[Closer][i].no = i
  BY <1>1, <1>2 DEF LinesPushed
<1>6. /\ LinesDone(Closer) = 0 /\ LinesDone(Closer)' = logged[Closer]
      /\ \A u \in LogThreads : u # Closer => LinesDone(u)' = LinesDone(u)
  BY <1>1, <1>2 DEF LinesDone
<1>7. LineInHand'
  BY <1>1, <1>2 DEF LineInHand
<1>8. LinesPushed'
  <2> SUFFICES ASSUME NEW u \in LogThreads
               PROVE  /\ \A i \in 1..Len(_loglist'[u]) :
                           _loglist'[u][i].by = u /\ _loglist'[u][i].no = i
                      /\ u # Closer => Len(_loglist'[u]) = logged[u]
    BY <1>2 DEF LinesPushed
  <2>1. CASE u = Closer
    <3>1. Len(_loglist'[u]) = 0
      BY <1>4, <2>1
    <3> QED BY <2>1, <3>1
  <2>2. CASE u # Closer
    BY <1>1, <1>2, <1>4, <2>2 DEF LinesPushed
  <2> QED BY <2>1, <2>2
<1>9. CASE _loglist[Closer] = <<>>
  <2>1. UNCHANGED <<last_create, fd, written>>
    BY <1>9 DEF Close, Flushed
  <2>2. LGTypeOK'
    BY <1>1, <1>2, <1>4, <2>1 DEF LGTypeOK
  <2>3. logged[Closer] = 0
    <3>1. Len(_loglist[Closer]) = 0
      BY <1>9
    <3> QED BY <1>5, <3>1
  <2>4. \A u \in LogThreads : LinesDone(u)' = LinesDone(u)
    BY <1>6, <2>3
  <2>5. LinesNumbered'
    BY <2>1, <2>2, <2>4, NothingWritten
  <2>6. OpenFile' /\ FileIsRecent'
    BY <1>1, <1>2, <2>1 DEF OpenFile, FileIsRecent
  <2> QED BY <1>7, <1>8, <2>2, <2>5, <2>6 DEF LGInv
<1>10. CASE _loglist[Closer] # <<>>
  <2>1. OutPut(Closer, _loglist[Closer])
    BY <1>10 DEF Close, Flushed
  <2>2. /\ Appended(_loglist[Closer], fd')
        /\ fd' \in Nat /\ last_create' \in [LogThreads -> Nat]
        /\ \A u \in LogThreads : u # Closer => last_create'[u] = last_create[u]
        /\ last_create'[Closer] = time[Closer] \/ last_create' = last_create
    BY <1>1, <1>3, <2>1, OutPutAppends
  <2>3. LGTypeOK'
    BY <1>1, <1>2, <1>4, <2>2 DEF LGTypeOK, Appended
  <2>4. LinesNumbered'
    <3>1. LinesDone(Closer)' = LinesDone(Closer) + Len(_loglist[Closer])
      BY <1>3, <1>5, <1>6
    <3>2. \A i \in 1..Len(_loglist[Closer]) :
            /\ _loglist[Closer][i].by = Closer
            /\ _loglist[Closer][i].no = LinesDone(Closer) + i
      BY <1>5, <1>6
    <3>3. PICK f : f = fd'
      OBVIOUS
    <3> QED BY <1>1, <1>3, <1>6, <2>2, <3>1, <3>2, <3>3, NumbersGrow
  <2>5. OpenFile' /\ FileIsRecent'
    <3>1. \A u \in LogThreads : time[u] <= clock /\ last_create[u] <= time[u]
      BY <1>1 DEF OpenFile
    <3>2. \A u \in LogThreads : last_create'[u] <= time[u]
      BY <1>3, <2>2, <3>1
    <3> QED BY <1>2, <3>1, <3>2 DEF OpenFile, FileIsRecent
  <2> QED BY <1>7, <1>8, <2>3, <2>4, <2>5 DEF LGInv
<1> QED BY <1>9, <1>10

LEMMA LGInvWrites == LGInv => LinesWritten
<1> SUFFICES ASSUME LGInv, NEW t \in LogThreads
             PROVE  /\ \A i, j \in WrittenBy(t) : i < j => written[i].line.no < written[j].line.no
                    /\ \E n \in 0..logged[t] :
                         /\ {written[i].line.no : i \in WrittenBy(t)} = 1..n
                         /\ is_sync => n = logged[t] - Len(entry[t])
                         /\ t = Closer /\ ~ is_sync /\ ~ log_isruning => n = logged[t]
  BY DEF LGInv, LinesWritten, LinesInOrder
<1>1. LGTypeOK /\ LineInHand /\ LinesNumbered
  BY DEF LGInv
<1>2. WrittenBy(t) = {i \in 1..Len(written) : written[i].line.by = t}
  <2>1. written \in Seq(Record)
    BY <1>1 DEF LGTypeOK
  <2>2. DOMAIN written = 1..Len(written)
    BY <2>1, LenProperties
  <2> QED BY <2>2 DEF WrittenBy
<1>3. \A i, j \in WrittenBy(t) : i < j => written[i].line.no < written[j].line.no
  BY <1>1, <1>2 DEF LinesNumbered
<1>4. LinesDone(t) \in 0..logged[t]
  <2>1. LinesDone(t) \in Nat /\ logged[t] \in Nat
    BY <1>1, LinesDoneIsNat DEF LGTypeOK
  <2>2. Len(entry[t]) \in Nat
    <3>1. entry[t] \in Seq(Line)
      BY <1>1 DEF LGTypeOK
    <3> QED BY <3>1, LenProperties
  <2>3. LinesDone(t) <= logged[t]
    BY <2>1, <2>2 DEF LinesDone
  <2> QED BY <2>1, <2>3
<1>5. {written[i].line.no : i \in WrittenBy(t)} = 1..LinesDone(t)
  BY <1>1, <1>2 DEF LinesNumbered
<1>6. /\ is_sync => LinesDone(t) = logged[t] - Len(entry[t])
      /\ t = Closer /\ ~ is_sync /\ ~ log_isruning => LinesDone(t) = logged[t]
  BY DEF LinesDone
<1> QED BY <1>3, <1>4, <1>5, <1>6

\* Each thread's lines are written once each, in its order and up to the one
\* it holds (those of the closing thread at Close), and before Init(conf) into
\* a file made at most an hour and MaxDelay before the line, although each
\* thread judges the common file by its own clock (LogBacker::OutPut).
THEOREM LinesKeepOrder == LGSpec => []LinesWritten
<1>1. LGInv /\ [LGNext]_lgvars => LGInv'
  <2> SUFFICES ASSUME LGInv, [LGNext]_lgvars  PROVE LGInv'
    OBVIOUS
  <2>1. ASSUME NEW t \in LogThreads, Stamp(t)  PROVE LGInv'
    BY <2>1, StampInv
  <2>2. ASSUME NEW t \in LogThreads, WriteEntry(t)  PROVE LGInv'
    BY <2>2, WriteEntryInv
  <2>3. CASE Close
    BY <2>3, CloseInv
  <2>4. CASE Tick
    BY <2>4, TickInv
  <2>5. CASE UNCHANGED lgvars
    <3>1. LGTypeOK' /\ LineInHand' /\ LinesPushed' /\ OpenFile' /\ FileIsRecent'
      BY <2>5 DEF lgvars, LGInv, LGTypeOK, LineInHand, LinesPushed, OpenFile, FileIsRecent
    <3>2. LinesNumbered'
      <4>1. \A t \in LogThreads : LinesDone(t)' = LinesDone(t)
        BY <2>5 DEF lgvars, LinesDone
      <4> QED BY <2>5, <3>1, <4>1, NothingWritten DEF lgvars
    <3> QED BY <3>1, <3>2 DEF LGInv
  <2> QED BY <2>1, <2>2, <2>3, <2>4, <2>5 DEF LGNext
<1> QED BY <1>1, LGInitInv, LGInvWrites, PTL DEF LGSpec
=============================================================================
