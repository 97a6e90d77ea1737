---------------------------- MODULE MCMiddleware ----------------------------
(* Instantiates Middleware for TLC: two clients at their own addresses,   *)
(* one configured token, and header values that are either absent or name *)
(* the other client's address.                                             *)
EXTENDS Middleware, TLC

CONSTANTS r1, r2, r3, r4, a1, a2, t1

\* RATE_LIMIT_TOKENS="t1:1:1".
MCTokenRateLimits == t1 :> [RPS |-> 1, BlockTime |-> 1]

MCRequests3 == {r1, r2, r3}
MCRequests4 == {r1, r2, r3, r4}

\* Callers send no X-Forwarded-For, or one naming address a2.
MCNoXFF == {<<>>}
MCSpoofXFF == {<<>>, <<a2>>}
=============================================================================
