---------------------------- MODULE SerialHandler ----------------------------
(***************************************************************************)
(* What an IOEvent promises the code that raises events on it and the code *)
(* that handles them: raised bits are collected in owed, the handler is    *)
(* given every owed bit at once, and the handler never runs twice at the   *)
(* same time.  IOEvent.tla implements this specification.                  *)
(***************************************************************************)
CONSTANT Masks        \* the event bits other than PENDING and PROCESSING

VARIABLES owed,       \* bits raised and not yet given to a handler
          running     \* the sets of bits of the handlers now running

serialVars == <<owed, running>>

MaskSets == {m \in SUBSET Masks : m # {}}

SerialInit == owed = {} /\ running = {}

\* Somebody raises the bits m.
Raise(m) == owed' = owed \cup m /\ UNCHANGED running

\* The handler starts on everything owed.
Begin == /\ running = {}
         /\ owed # {}
         /\ running' = {owed}
         /\ owed' = {}

\* Without a work group the raiser runs the handler itself, on its own bits.
RunInline(m) == /\ running = {}
                /\ owed = {}
                /\ running' = {m}
                /\ UNCHANGED owed

\* The handler returns.
End == running # {} /\ running' = {} /\ UNCHANGED owed

SerialNext == \/ \E m \in MaskSets : Raise(m) \/ RunInline(m)
              \/ Begin
              \/ End

\* Safety part of the promise.
SerialSafety == SerialInit /\ [][SerialNext]_serialVars

\* The promise: raised bits reach a handler and a handler returns.
SerialSpec == /\ SerialSafety
              /\ WF_serialVars(Begin)
              /\ WF_serialVars(End)
=============================================================================
