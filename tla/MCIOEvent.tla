------------------------------ MODULE MCIOEvent ------------------------------
(* IOEvent with two raisers, as in test/test_ioevent.cpp (the main thread   *)
(* and the poller's thread), two live wrapper closures and two event bits.  *)
EXTENDS IOEvent
=============================================================================
