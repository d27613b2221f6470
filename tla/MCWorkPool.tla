----------------------------- MODULE MCWorkPool -----------------------------
(* WorkPool on small groups.                                                *)
EXTENDS WorkPool
=============================================================================
