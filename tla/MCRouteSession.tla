--------------------------- MODULE MCRouteSession ---------------------------
(* Values for model-checking RouteSession.                                 *)
EXTENDS RouteSession, TLC

CONSTANTS d1, d2, t1, t2, r1, r2, h1, h2, k1, k2

HandlerSymmetry == Permutations({h1, h2})
=============================================================================
