---------------------------- MODULE ServerState ----------------------------
(***************************************************************************)
(* ServerState (common/serverstat.cpp): the times of a method's calls.     *)
(* The worker of each call adds its sample with state(), the dumper prints *)
(* the record and clears it.  A Status is two 64-bit words, each changed by*)
(* a compare-and-swap loop of its own: a holds the minimum and the maximum,*)
(* b the average and the number of samples.  The average is kept here as   *)
(* the sum it stands for (average times number), without rounding.         *)
(***************************************************************************)
EXTENDS FiniteSets, FiniteSetsExt, Integers

CONSTANTS Calls,        \* the calls of the method, each run by a worker
          TimeOf,       \* the milliseconds each one took
          MAX_NUM,      \* larger values are refused
          MaxClears     \* bound: how often the dumper clears

ASSUME ServerStateAssumption ==
  TimeOf \in [Calls -> Nat] /\ MAX_NUM \in Nat /\ MaxClears \in Nat /\ "dumper" \notin Calls

VARIABLES a, b,         \* the two words of the Status
          call,         \* the step of each call's state(), and of Clear
          old,          \* the word each of them read
          inA, inB,     \* the calls in a and in b since each was cleared
          clears

stvars == <<a, b, call, old, inA, inB, clears>>

dumper == "dumper"

\* registerStatus.
STInit ==
  /\ a = [min |-> 0, max |-> 0] /\ b = [sum |-> 0, num |-> 0]
  /\ call = [c \in Calls \cup {dumper} |-> "idle"]
  /\ old = [c \in Calls \cup {dumper} |-> {}]
  /\ inA = {} /\ inB = {} /\ clears = 0

Passes(c, from, to) == call[c] = from /\ call' = [call EXCEPT ![c] = to]

Reads(c, word) == old' = [old EXCEPT ![c] = {word}]

Swaps_Always(c, word) == TRUE

\* __sync_bool_compare_and_swap(p, old, new) finds the word as it was read; a
\* word that only came back to that value counts too.
Swaps(c, word) == word \in old[c]
-----------------------------------------------------------------------------
(* state(key, value), by the worker of a call.                             *)

ReadA(c) ==
  /\ Passes(c, "idle", "a") /\ TimeOf[c] <= MAX_NUM
  /\ Reads(c, a)
  /\ UNCHANGED <<a, b, inA, inB, clears>>

\* The new minimum and maximum, computed from the word that was read.
Extended(w, value) == [min |-> Min({w.min, value}), max |-> Max({w.max, value})]

SwapA(c) ==
  /\ IF Swaps(c, a)
     THEN /\ Passes(c, "a", "between")
          /\ a' = Extended(CHOOSE w \in old[c] : TRUE, TimeOf[c])
          /\ inA' = inA \cup {c}
     ELSE Passes(c, "a", "idle") /\ UNCHANGED <<a, inA>>
  /\ old' = [old EXCEPT ![c] = {}]
  /\ UNCHANGED <<b, inB, clears>>

ReadB(c) ==
  /\ Passes(c, "between", "b")
  /\ Reads(c, b)
  /\ UNCHANGED <<a, b, inA, inB, clears>>

Added(w, value) == [sum |-> w.sum + value, num |-> w.num + 1]

SwapB(c) ==
  /\ IF Swaps(c, b)
     THEN /\ Passes(c, "b", "done")
          /\ b' = Added(CHOOSE w \in old[c] : TRUE, TimeOf[c])
          /\ inB' = inB \cup {c}
     ELSE Passes(c, "b", "between") /\ UNCHANGED <<b, inB>>
  /\ old' = [old EXCEPT ![c] = {}]
  /\ UNCHANGED <<a, inA, clears>>

\* A value above MAX_NUM is only logged.
Refused(c) ==
  /\ Passes(c, "idle", "done") /\ TimeOf[c] > MAX_NUM
  /\ UNCHANGED <<a, b, old, inA, inB, clears>>
-----------------------------------------------------------------------------
(* Clear, by the dumper: each word's loop reads it, then swaps in zeros.   *)

ClearRead(from, to, word) ==
  /\ Passes(dumper, from, to)
  /\ Reads(dumper, word)
  /\ UNCHANGED <<a, b, inA, inB>>

ClearReadA == ClearRead("idle", "a", a) /\ clears < MaxClears /\ clears' = clears + 1

ClearReadB == ClearRead("between", "b", b) /\ UNCHANGED clears

ClearSwapA ==
  /\ IF Swaps(dumper, a)
     THEN Passes(dumper, "a", "between") /\ a' = [min |-> 0, max |-> 0] /\ inA' = {}
          /\ old' = [old EXCEPT ![dumper] = {}]
     ELSE Passes(dumper, "a", "a") /\ Reads(dumper, a) /\ UNCHANGED <<a, inA>>
  /\ UNCHANGED <<b, inB, clears>>

ClearSwapB ==
  /\ IF Swaps(dumper, b)
     THEN Passes(dumper, "b", "idle") /\ b' = [sum |-> 0, num |-> 0] /\ inB' = {}
          /\ old' = [old EXCEPT ![dumper] = {}]
     ELSE Passes(dumper, "b", "b") /\ Reads(dumper, b) /\ UNCHANGED <<b, inB>>
  /\ UNCHANGED <<a, inA, clears>>
-----------------------------------------------------------------------------
STNext == \/ \E c \in Calls : ReadA(c) \/ SwapA(c) \/ ReadB(c) \/ SwapB(c) \/ Refused(c)
          \/ ClearReadA \/ ClearReadB \/ ClearSwapA \/ ClearSwapB

STSpec == STInit /\ [][STNext]_stvars
-----------------------------------------------------------------------------
(* Properties.                                                             *)

\* Each word accounts for exactly the calls added to it since it was cleared:
\* no sample is lost to, or counted twice by, a concurrent one or a Clear.
\* (The minimum starts at 0 and so stays there.)
WordsMatchCalls ==
  /\ a = [min |-> 0, max |-> Max({TimeOf[c] : c \in inA} \cup {0})]
  /\ b = [sum |-> MapThenSumSet(LAMBDA c : TimeOf[c], inB), num |-> Cardinality(inB)]

\* Until the dumper clears, a call that has returned is in both words, and one
\* in b is in a: the average is never above the maximum.  A Clear between a
\* call's two loops breaks this until the next Clear.
BothWordsCounted ==
  clears = 0 =>
    /\ {c \in Calls : call[c] = "done" /\ TimeOf[c] <= MAX_NUM} = inB
    /\ inB \subseteq inA /\ b.sum <= a.max * b.num

\* Each word of a status counts what was added to it since it was cleared, and
\* until the first Clear the two count the same calls, each of them every call;
\* after a Clear that fell between a call's two loops they may differ.
StatusCountsCalls == WordsMatchCalls /\ BothWordsCounted
=============================================================================
