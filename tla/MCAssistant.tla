----------------------------- MODULE MCAssistant -----------------------------
(* Values for model-checking Assistant.                                      *)
EXTENDS Assistant, TLC

CONSTANTS h1, h2, ann, bob

Symmetry == Permutations(Requests) \cup Permutations(Admins)
=============================================================================
