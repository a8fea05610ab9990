------------------------------ MODULE MCFleet ------------------------------
(* Values for model-checking Fleet.                                        *)
EXTENDS Fleet, TLC

CONSTANTS h1, h2, ann, north, south, monday, tuesday

Symmetry == Permutations(Requests) \cup Permutations(Routes) \cup Permutations(Days)
=============================================================================
