----------------------------- MODULE SharedCount -----------------------------
(***************************************************************************)
(* The reference counts behind shared_ptr and weak_ptr                     *)
(* (smart_ptr/detail/sp_counted_base_gcc_x86.hpp and shared_count.hpp).    *)
(* The state is the count block of one object and the handles (shared_count*)
(* and weak_count objects) that point to it.  A handle is used by one      *)
(* thread at a time, different handles by different threads: every atomic  *)
(* instruction is a step of the handle it is executed for.                 *)
(***************************************************************************)
EXTENDS Integers, FiniteSets

CONSTANT Handles

ASSUME SharedCountAssumption == IsFiniteSet(Handles) /\ Handles # {}

VARIABLES use_count_,   \* #shared
          weak_count_,  \* #weak + (#shared # 0)
          disposed,     \* how often dispose() ran
          destroyed,    \* how often destroy() ran
          hold,         \* what each handle is, or is doing
          seen          \* a weak handle inside add_ref_lock: the value it read

svars == <<use_count_, weak_count_, disposed, destroyed, hold, seen>>

Is(h, states) == hold[h] \in states
Become(h, s) == hold' = [hold EXCEPT ![h] = s]

\* The first shared_ptr: sp_counted_base() has both counts at 1.
SInit ==
  /\ use_count_ = 1 /\ weak_count_ = 1
  /\ disposed = 0 /\ destroyed = 0
  /\ \E first \in Handles : hold = [h \in Handles |-> IF h = first THEN "shared" ELSE "empty"]
  /\ seen = [h \in Handles |-> 0]
-----------------------------------------------------------------------------
\* shared_count(shared_count const&): add_ref_copy.
CopyShared(h, from) ==
  /\ Is(from, {"shared"}) /\ Is(h, {"empty"})
  /\ use_count_' = use_count_ + 1
  /\ Become(h, "shared")
  /\ UNCHANGED <<weak_count_, disposed, destroyed, seen>>

\* weak_count(shared_count const&) and weak_count(weak_count const&).
CopyWeak(h, from) ==
  /\ Is(from, {"shared", "weak"}) /\ Is(h, {"empty"})
  /\ weak_count_' = weak_count_ + 1
  /\ Become(h, "weak")
  /\ UNCHANGED <<use_count_, disposed, destroyed, seen>>

\* atomic_exchange_and_add(&use_count_, -1) == 1.
LastUse(h) == use_count_ = 1

\* ~shared_count: release.
Release(h) ==
  /\ Is(h, {"shared"})
  /\ use_count_' = use_count_ - 1
  /\ Become(h, IF LastUse(h) THEN "dispose" ELSE "empty")
  /\ UNCHANGED <<weak_count_, disposed, destroyed, seen>>

\* The shared handles together own one weak reference.
AfterDispose == "weakrelease"

Dispose(h) ==
  /\ Is(h, {"dispose"})
  /\ disposed' = disposed + 1
  /\ Become(h, AfterDispose)
  /\ UNCHANGED <<use_count_, weak_count_, destroyed, seen>>

\* ~weak_count, or the end of release: weak_release.
WeakRelease(h) ==
  /\ Is(h, {"weak", "weakrelease"})
  /\ weak_count_' = weak_count_ - 1
  /\ Become(h, IF weak_count_ = 1 THEN "destroy" ELSE "empty")
  /\ UNCHANGED <<use_count_, disposed, destroyed, seen>>

Destroy(h) ==
  /\ Is(h, {"destroy"})
  /\ destroyed' = destroyed + 1
  /\ Become(h, "empty")
  /\ UNCHANGED <<use_count_, weak_count_, disposed, seen>>
-----------------------------------------------------------------------------
(* weak_ptr::lock: add_ref_lock, the loop of atomic_conditional_increment. *)

\* movl: the first read.
LockRead(h) ==
  /\ Is(h, {"weak"})
  /\ seen' = [seen EXCEPT ![h] = use_count_]
  /\ Become(h, "locking")
  /\ UNCHANGED <<use_count_, weak_count_, disposed, destroyed>>

GiveUp_Never(h) == FALSE

GiveUp(h) == seen[h] = 0

\* test, je: the object is gone and the new shared_ptr is empty.
LockFails(h) ==
  /\ Is(h, {"locking"}) /\ GiveUp(h)
  /\ Become(h, "weak")
  /\ UNCHANGED <<use_count_, weak_count_, disposed, destroyed, seen>>

CasMatches(h) == use_count_ = seen[h]

\* cmpxchgl: on success the new handle is shared, otherwise the value found is
\* tried in its turn.
LockCas(h, new) ==
  /\ Is(h, {"locking"}) /\ ~GiveUp(h) /\ Is(new, {"empty"})
  /\ IF CasMatches(h)
     THEN /\ use_count_' = seen[h] + 1
          /\ hold' = [hold EXCEPT ![h] = "weak", ![new] = "shared"]
          /\ seen' = [seen EXCEPT ![h] = 0]
     ELSE seen' = [seen EXCEPT ![h] = use_count_] /\ UNCHANGED <<use_count_, hold>>
  /\ UNCHANGED <<weak_count_, disposed, destroyed>>
-----------------------------------------------------------------------------
SNext == \E h \in Handles :
            \/ Release(h) \/ Dispose(h) \/ WeakRelease(h) \/ Destroy(h)
            \/ LockRead(h) \/ LockFails(h)
            \/ \E g \in Handles : CopyShared(h, g) \/ CopyWeak(h, g) \/ LockCas(h, g)

SSpec == SInit /\ [][SNext]_svars
-----------------------------------------------------------------------------
(* Properties.                                                             *)

\* The types of sp_counted_base's state; neither counter goes below zero.
STypeOK ==
  /\ use_count_ \in Nat /\ weak_count_ \in Nat
  /\ disposed \in Nat /\ destroyed \in Nat
  /\ hold \in [Handles -> {"empty", "shared", "weak", "locking",
                           "dispose", "weakrelease", "destroy"}]
  /\ seen \in [Handles -> Nat]

Shared == {h \in Handles : hold[h] = "shared"}
Weak == {h \in Handles : hold[h] \in {"weak", "locking"}}

\* The comment on the two fields: use_count_ is the number of shared handles
\* and weak_count_ the number of weak ones, plus one until the thread that
\* released the last shared handle has given up the weak reference they own.
CountsMatch ==
  /\ use_count_ = Cardinality(Shared)
  /\ weak_count_ = Cardinality(Weak) +
       (IF Shared # {} \/ \E h \in Handles : hold[h] \in {"dispose", "weakrelease"} THEN 1 ELSE 0)

\* A lock that raced with the last release does not bring the object back:
\* dispose runs at most once and never while a shared handle exists.
NoResurrection == disposed <= 1 /\ (disposed = 1 => Shared = {})

\* The count block goes last and once: nobody is left to touch it, and the
\* object it counted for has been disposed of.
BlockOutlivesHandles ==
  /\ destroyed <= 1
  /\ destroyed = 1 => disposed = 1 /\ \A h \in Handles : hold[h] = "empty"

\* When no handle is left both are gone.
NothingLeaks ==
  (\A h \in Handles : hold[h] = "empty") => disposed = 1 /\ destroyed = 1

\* The life of an object and of its count block under shared_ptr and weak_ptr:
\* the counts are right, the object goes once and first, the block once and
\* last, and neither stays.
HandlesCounted ==
  /\ STypeOK /\ CountsMatch
  /\ NoResurrection /\ BlockOutlivesHandles /\ NothingLeaks
=============================================================================
