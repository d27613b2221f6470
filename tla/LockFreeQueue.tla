---------------------------- MODULE LockFreeQueue ----------------------------
(***************************************************************************)
(* ArrayLockFreeQueue and ArrayLockFreeQueueSingleProducer (thread/): a    *)
(* ring of Q_SIZE slots and free-running 32-bit counters.  Every access of *)
(* a shared word is a step; the counters are m_writeIndex (next slot to    *)
(* reserve), m_maximumReadIndex (slots before it hold data) and m_readIndex*)
(* (next slot to take).  The single-producer class has no                  *)
(* m_maximumReadIndex: its store comes before the one increment.           *)
(***************************************************************************)
EXTENDS Integers, Sequences, FiniteSets, FiniteSetsExt

CONSTANTS QProducers, QConsumers,  \* threads that push, threads that pop
          QElements,   \* the numbers they push, each once, the smallest first
          Q_SIZE,      \* slots of the ring
          CounterBits, \* width of the counters (32 in the code)
          QStarts,     \* where the counters may stand at the start
          NoElement    \* a slot never written

\* The powers of two.
Pow2[k \in 0..CounterBits] == IF k = 0 THEN 1 ELSE 2 * Pow2[k - 1]

\* uint32_t.
Counters == 0..(Pow2[CounterBits] - 1)

\* Fewer pushes than the counters have values: no counter comes round to an
\* earlier value during one call.
ASSUME LockFreeQueueAssumption ==
  /\ CounterBits \in Nat /\ Q_SIZE \in Counters \ {0}
  /\ QProducers # {} /\ QProducers \cap QConsumers = {}
  /\ QElements \subseteq Nat /\ NoElement \notin QElements
  /\ IsFiniteSet(QElements) /\ Cardinality(QElements) < Pow2[CounterBits]
  /\ QStarts \subseteq Counters

VARIABLES m_theQueue, m_writeIndex, m_maximumReadIndex, m_readIndex,
          single,    \* which of the two classes this is
          qpc,       \* where each thread is in push or pop
          qidx,      \* its currentWriteIndex (in push) or currentReadIndex (in pop)
          qdata,     \* a_data
          qtaken,    \* what the last pop that returned true handed out
          qleft      \* elements that are still to be pushed

qshared == <<m_theQueue, m_writeIndex, m_maximumReadIndex, m_readIndex>>
qvars == <<qshared, single, qpc, qidx, qdata, qtaken, qleft>>

\* uint32_t arithmetic.
Plus1(c) == (c + 1) % Pow2[CounterBits]

Distance(a, b) == (a - b) % Pow2[CounterBits]

Bit(n, k) == (n \div Pow2[k]) % 2

\* c & (Q_SIZE - 1).
Masked == [c \in Counters |->
             CHOOSE x \in Counters :
               \A k \in 0..(CounterBits - 1) : Bit(x, k) = Bit(c, k) * Bit(Q_SIZE - 1, k)]

\* a_count & (Q_SIZE - 1) for many producers, a_count % Q_SIZE for a single one.
countToIndex(c) == IF single THEN c % Q_SIZE ELSE Masked[c]

\* How far a pop may read.
MaximumReadIndex == IF single THEN m_writeIndex ELSE m_maximumReadIndex

Producers == IF single THEN {CHOOSE p \in QProducers : TRUE} ELSE QProducers

\* A queue on which as many elements as the counters say came and went.
QInit ==
  /\ single \in BOOLEAN
  /\ m_theQueue = [i \in 0..(Q_SIZE - 1) |-> NoElement]
  /\ m_writeIndex \in QStarts
  /\ m_maximumReadIndex = (IF single THEN 0 ELSE m_writeIndex)
  /\ m_readIndex = m_writeIndex
  /\ qpc = [t \in QProducers \cup QConsumers |-> "idle"]
  /\ qidx = [t \in QProducers \cup QConsumers |-> 0]
  /\ qdata = [t \in QProducers \cup QConsumers |-> NoElement]
  /\ qtaken = NoElement
  /\ qleft = QElements

Goto(t, l) == qpc' = [qpc EXCEPT ![t] = l]

\* The return of push or pop: the locals die.
QReturn(t) == /\ Goto(t, "idle")
              /\ qidx' = [qidx EXCEPT ![t] = 0]
              /\ qdata' = [qdata EXCEPT ![t] = NoElement]
-----------------------------------------------------------------------------
(* push                                                                    *)

\* The call, and currentWriteIndex = m_writeIndex.
PushCall(p) ==
  /\ qpc[p] = "idle" /\ p \in Producers /\ qleft # {}
  /\ qleft' = qleft \ {Min(qleft)}
  /\ qdata' = [qdata EXCEPT ![p] = Min(qleft)]
  /\ qidx' = [qidx EXCEPT ![p] = m_writeIndex]
  /\ Goto(p, "pushr")
  /\ UNCHANGED <<qshared, single, qtaken>>

\* Once more after a failed CAS.
PushAgain(p) ==
  /\ qpc[p] = "pushw"
  /\ qidx' = [qidx EXCEPT ![p] = m_writeIndex]
  /\ Goto(p, "pushr")
  /\ UNCHANGED <<qshared, single, qdata, qtaken, qleft>>

QueueFull(w, r) == countToIndex(Plus1(w)) = countToIndex(r)

\* currentReadIndex = m_readIndex, and the test for a full queue.
PushTest(p) ==
  /\ qpc[p] = "pushr"
  /\ IF QueueFull(qidx[p], m_readIndex)
     THEN /\ QReturn(p)
          /\ qleft' = qleft \cup {qdata[p]}
     ELSE /\ Goto(p, IF single THEN "store" ELSE "reserve")
          /\ UNCHANGED <<qidx, qdata, qleft>>
  /\ UNCHANGED <<qshared, single, qtaken>>

\* CAS(&m_writeIndex, currentWriteIndex, currentWriteIndex + 1).
PushReserve(p) ==
  /\ qpc[p] = "reserve"
  /\ IF m_writeIndex = qidx[p]
     THEN m_writeIndex' = Plus1(qidx[p]) /\ Goto(p, "store")
     ELSE UNCHANGED m_writeIndex /\ Goto(p, "pushw")
  /\ UNCHANGED <<m_theQueue, m_maximumReadIndex, m_readIndex, single, qidx, qdata, qtaken, qleft>>

PushStore(p) ==
  /\ qpc[p] = "store"
  /\ m_theQueue' = [m_theQueue EXCEPT ![countToIndex(qidx[p])] = qdata[p]]
  /\ Goto(p, "commit")
  /\ UNCHANGED <<m_writeIndex, m_maximumReadIndex, m_readIndex, single, qidx, qdata, qtaken, qleft>>

CommitReady_Any(p) == TRUE

CommitReady_Next(p) == m_maximumReadIndex = Plus1(qidx[p])

\* The CAS on m_maximumReadIndex succeeds once the producers of the slots
\* before this one have committed; until then the loop yields and tries again.
CommitReady(p) == single \/ m_maximumReadIndex = qidx[p]

PushCommit(p) ==
  /\ qpc[p] = "commit" /\ CommitReady(p)
  /\ IF single
     THEN m_writeIndex' = Plus1(m_writeIndex) /\ UNCHANGED m_maximumReadIndex
     ELSE m_maximumReadIndex' = Plus1(m_maximumReadIndex) /\ UNCHANGED m_writeIndex
  /\ QReturn(p)
  /\ UNCHANGED <<m_theQueue, m_readIndex, single, qtaken, qleft>>
-----------------------------------------------------------------------------
(* pop                                                                     *)

PopCall(c) ==
  /\ qpc[c] \in {"idle", "popr"} /\ c \in QConsumers
  /\ qidx' = [qidx EXCEPT ![c] = m_readIndex]
  /\ Goto(c, "popmax")
  /\ UNCHANGED <<qshared, single, qdata, qtaken, qleft>>

QueueEmpty_Early(r, max) == countToIndex(Plus1(r)) = countToIndex(max)

QueueEmpty(r, max) == countToIndex(r) = countToIndex(max)

PopTest(c) ==
  /\ qpc[c] = "popmax"
  /\ IF QueueEmpty(qidx[c], MaximumReadIndex) THEN QReturn(c)
     ELSE Goto(c, "load") /\ UNCHANGED <<qidx, qdata>>
  /\ UNCHANGED <<qshared, single, qtaken, qleft>>

PopLoad(c) ==
  /\ qpc[c] = "load"
  /\ qdata' = [qdata EXCEPT ![c] = m_theQueue[countToIndex(qidx[c])]]
  /\ Goto(c, "take")
  /\ UNCHANGED <<qshared, single, qidx, qtaken, qleft>>

\* CAS(&m_readIndex, currentReadIndex, currentReadIndex + 1).
PopTake(c) ==
  /\ qpc[c] = "take"
  /\ IF m_readIndex = qidx[c]
     THEN /\ m_readIndex' = Plus1(qidx[c])
          /\ qtaken' = qdata[c]
          /\ QReturn(c)
     ELSE /\ UNCHANGED <<m_readIndex, qtaken, qidx, qdata>>
          /\ Goto(c, "popr")
  /\ UNCHANGED <<m_theQueue, m_writeIndex, m_maximumReadIndex, single, qleft>>
-----------------------------------------------------------------------------
PushStep(p) == PushAgain(p) \/ PushTest(p) \/ PushReserve(p) \/ PushStore(p) \/ PushCommit(p)
PopStep(c) == PopTest(c) \/ PopLoad(c) \/ PopTake(c)

QNext == \/ \E p \in QProducers : PushCall(p) \/ PushStep(p)
         \/ \E c \in QConsumers : PopCall(c) \/ PopStep(c)

QSpec == QInit /\ [][QNext]_qvars

\* A thread that is inside push goes on (sched_yield gives up the processor
\* only for a moment).
QFairness == \A p \in QProducers : WF_qvars(PushStep(p))
-----------------------------------------------------------------------------
(* Properties.                                                             *)

\* The types of the queue's state; the three indices stay within their width,
\* past the point where they wrap.
QTypeOK ==
  /\ m_theQueue \in [0..(Q_SIZE - 1) -> QElements \cup {NoElement}]
  /\ {m_writeIndex, m_maximumReadIndex, m_readIndex} \subseteq Counters
  /\ qpc \in [QProducers \cup QConsumers ->
                {"idle", "pushw", "pushr", "reserve", "store", "commit",
                 "popr", "popmax", "load", "take"}]
  /\ qidx \in [QProducers \cup QConsumers -> Counters]
  /\ qdata \in [QProducers \cup QConsumers -> QElements \cup {NoElement}]
  /\ qleft \subseteq QElements

\* The committed slots, oldest first.
QContents == [i \in 1..Distance(MaximumReadIndex, m_readIndex) |->
                m_theQueue[countToIndex((m_readIndex + i - 1) % Pow2[CounterBits])]]

QFifo == INSTANCE Fifo WITH Elements <- QElements, Nothing <- NoElement,
                            contents <- QContents, taken <- qtaken

\* push and pop are those of a queue, whatever the threads do between two
\* accesses and where the counters roll over: what is pushed is taken once,
\* in order, and a slot is not written again before it is taken.
LockFreeQueueIsFifo == QFifo!Spec /\ []QTypeOK

\* push returns false only if the queue is full when it reads m_readIndex, or
\* if others have pushed since it read m_writeIndex: with a stale write index
\* and a fresh read index an empty queue can look full.
RefusedOnlyWhenFull ==
  [][\A p \in QProducers :
       qpc[p] = "pushr" /\ qpc'[p] = "idle" =>
         \/ Distance(m_writeIndex, m_readIndex) = Q_SIZE - 1
         \/ m_writeIndex # qidx[p]]_qvars

\* pop returns false only if nothing is committed, or if others have popped
\* since it read m_readIndex.
EmptyOnlyWhenEmpty ==
  [][\A c \in QConsumers :
       qpc[c] = "popmax" /\ qpc'[c] = "idle" =>
         QContents = <<>> \/ m_readIndex # qidx[c]]_qvars

\* push and pop return false only when the queue is full or empty, or when they
\* were overtaken between their two reads.
FalseForCause == RefusedOnlyWhenFull /\ EmptyOnlyWhenEmpty

\* A producer that has reserved its slot gets to commit it: the producers
\* before it do not wait for it.
ReservedIsCommitted ==
  \A p \in QProducers : (qpc[p] \in {"store", "commit"}) ~> (qpc[p] = "idle")
=============================================================================
