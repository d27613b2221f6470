------------------------------ MODULE MCEpoller ------------------------------
(* Epoller with one event and a few posted tasks.                           *)
EXTENDS Epoller
=============================================================================
