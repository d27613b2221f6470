--------------------------- MODULE MCServerConnect ---------------------------
(* ServerConnect with a peer that sends a few requests, pipelined or not.   *)
EXTENDS ServerConnect
=============================================================================
