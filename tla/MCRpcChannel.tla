---------------------------- MODULE MCRpcChannel ----------------------------
(* RpcChannel with one or two calls and a choice of faults.                 *)
EXTENDS RpcChannel

CONSTANTS c1, c2

Setup(who, may, eagains) == [calls |-> who, faults |-> may, owner |-> OwnerKinds, eagain |-> eagains]
Unreleased(s) == [s EXCEPT !.owner = {}]

\* Two calls, one synchronous, over a slow connection; one call over a failing
\* connection; two calls that outlive their timeouts in a channel nobody
\* releases, so that an answer finds the wrong call or none.
SlowOrFailing ==
  {Setup({c1, c2}, {"wtimeout", "seria"}, 1),
   Setup({c2}, {"refused", "fin", "rst", "rtimeout", "parse"}, 1),
   Unreleased(Setup({c1, c2}, {"rtimeout"}, 2))}

\* An asynchronous call that may not be answered in time.
AsyncTimeout == {Setup({c2}, {"rtimeout"}, 0)}

\* A synchronous call and nothing that fails.
SyncOnly == {Setup({c1}, {}, 0)}

\* Two calls, of which the first may not be answered in time.
TwoTimeout == {Setup({c1, c2}, {"rtimeout"}, 2)}
=============================================================================
