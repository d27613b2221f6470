---------------------------- MODULE MCCompletion ----------------------------
(* Completion with one plain waiter.                                        *)
EXTENDS Completion
=============================================================================
