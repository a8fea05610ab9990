--------------------------- MODULE MCRouteArchive ---------------------------
(* Values for model-checking RouteArchive.                                 *)
EXTENDS RouteArchive, TLC

CONSTANTS d1, d2, t1, f1, f2, f3, i1, i2

InstanceSymmetry == Permutations({i1, i2})
=============================================================================
