----------------------------- MODULE MCAssignment -----------------------------
(* Values for model-checking Assignment: two requests at a time.             *)
EXTENDS Assignment, TLC

CONSTANTS h1, h2

RequestSymmetry == Permutations(Requests)
=============================================================================
