---------------------------- MODULE MCComponents ----------------------------
(***************************************************************************)
(* The parts that work without one another, checked side by side: `part`   *)
(* says which of them a behaviour is about, the others stay as they began. *)
(***************************************************************************)
EXTENDS SharedCount, RbTree, IOBuffer, HttpHeader, ServicePool, ServerState,
        Logger, NoLockWorkPool, TLC

CONSTANTS s1, s2, s3, s4, k1, k2, k3, k4

VARIABLE part

-----------------------------------------------------------------------------
(* Timers 1 .. 10 wait for reads and 11, 12 for writes; 2 and 3 share a    *)
(* time.  Five timers of a tree set and cancelled in any order; both trees,*)
(* with their one sentinel; ten in order, then cancelled in any order.     *)
MCTreeOf == [n \in 1..12 |-> IF n <= 10 THEN "r" ELSE "w"]
MCPollerOf == [t \in {"r", "w"} |-> "p1"]
MCKeyOf == <<1, 2, 2, 3, 4, 5, 6, 7, 8, 9, 1, 2>>
MCTimings == {[first |-> <<>>, sets |-> 1..5],
              [first |-> <<>>, sets |-> {1, 2, 3, 11, 12}],
              [first |-> <<1, 2, 3, 4, 5, 6, 7, 8, 9, 10>>, sets |-> {}]}

(* Two services of one name; "a" and "b" share a slot of the cache.        *)
MCNameOf == (s1 :> "a") @@ (s2 :> "a") @@ (s3 :> "b") @@ (s4 :> "c")
MCSlotOf == [n \in {"a", "b", "c"} |-> IF n = "c" THEN 1 ELSE 0]

(* Two calls of the same length, one beyond MAX_NUM.                       *)
MCTimeOf == (k1 :> 1) @@ (k2 :> 2) @@ (k3 :> 2) @@ (k4 :> 9)

(* Requests and responses: alone and pipelined, with and without a body,   *)
(* with junk before the method, a path longer than MAX_KEY_LEN, a header   *)
(* that does not parse.                                                    *)
Sent(before, to, length, number, broken) ==
  [junk |-> before, path |-> to, cl |-> length, seq |-> number, bad |-> broken]

MCScripts == {
  [dir |-> "request", msgs |-> <<Sent(<<>>, <<"/">>, 2, 1, FALSE),
                                 Sent(<<>>, <<"/", "m">>, 2, 2, FALSE)>>],
  [dir |-> "request", msgs |-> <<Sent(<<" ", "x", "P", "x", "x", "x", "x", "x", "x", "x">>,
                                      <<"/", "m">>, 1, 3, FALSE)>>],
  [dir |-> "request", msgs |-> <<Sent(<<>>, <<"/", "m">>, 1, 1, TRUE)>>],
  [dir |-> "request", msgs |-> <<Sent(<<>>, <<"/", "m", "m", "m", "m", "m", "m", "m", "m">>,
                                      1, 1, FALSE)>>],
  [dir |-> "response", msgs |-> <<Sent(<<>>, <<>>, 1, 1, FALSE), Sent(<<>>, <<>>, 0, 2, FALSE),
                                  Sent(<<>>, <<>>, 2, 3, FALSE)>>],
  [dir |-> "response", msgs |-> <<Sent(<<>>, <<>>, 1, 1, TRUE)>>]}
-----------------------------------------------------------------------------
allvars == <<part, svars, rvars, bvars, hvars, spvars, stvars, lgvars, nlvars>>

Parts == {"SharedCount", "RbTree", "IOBuffer", "HttpHeader", "ServicePool",
          "ServerState", "Logger", "NoLockWorkPool"}

Init ==
  /\ part \in Parts
  /\ SInit /\ RInit /\ BInit /\ HInit /\ SPInit /\ STInit /\ LGInit /\ NLInit
  /\ hold[CHOOSE h \in Handles : TRUE] = "shared"
  /\ part # "RbTree" => 4 \in timing.sets
  /\ part # "IOBuffer" => role = "client"
  /\ part # "HttpHeader" => script = CHOOSE s \in Scripts : TRUE
  /\ part # "Logger" => is_sync

SharedCountStep ==
  /\ part = "SharedCount" /\ SNext
  /\ UNCHANGED <<part, rvars, bvars, hvars, spvars, stvars, lgvars, nlvars>>

RbTreeStep ==
  /\ part = "RbTree" /\ RNext
  /\ UNCHANGED <<part, svars, bvars, hvars, spvars, stvars, lgvars, nlvars>>

IOBufferStep ==
  /\ part = "IOBuffer" /\ BNext
  /\ UNCHANGED <<part, svars, rvars, hvars, spvars, stvars, lgvars, nlvars>>

HttpHeaderStep ==
  /\ part = "HttpHeader" /\ HNext
  /\ UNCHANGED <<part, svars, rvars, bvars, spvars, stvars, lgvars, nlvars>>

ServicePoolStep ==
  /\ part = "ServicePool" /\ SPNext
  /\ UNCHANGED <<part, svars, rvars, bvars, hvars, stvars, lgvars, nlvars>>

ServerStateStep ==
  /\ part = "ServerState" /\ STNext
  /\ UNCHANGED <<part, svars, rvars, bvars, hvars, spvars, lgvars, nlvars>>

LoggerStep ==
  /\ part = "Logger" /\ LGNext
  /\ UNCHANGED <<part, svars, rvars, bvars, hvars, spvars, stvars, nlvars>>

NoLockWorkPoolStep ==
  /\ part = "NoLockWorkPool" /\ NLNext
  /\ UNCHANGED <<part, svars, rvars, bvars, hvars, spvars, stvars, lgvars>>

Next == \/ SharedCountStep \/ RbTreeStep \/ IOBufferStep \/ HttpHeaderStep
        \/ ServicePoolStep \/ ServerStateStep \/ LoggerStep \/ NoLockWorkPoolStep

\* The fairness of HttpHeader, where it is the part.
Spec == Init /\ [][Next]_allvars /\ (part = "HttpHeader" => HFairness)
=============================================================================
