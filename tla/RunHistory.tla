----------------------------- MODULE RunHistory -----------------------------
(***************************************************************************)
(* What the route history promises to whoever reads it: a run collects its *)
(* fixes, one day it is archived, and archiving changes nothing of what is *)
(* shown ("a run looks the same before and after it is archived"; a failed *)
(* pass "leaves the run live and untouched ..., never half-moved").  After *)
(* that the run is history: nothing is added, and nothing ever goes.       *)
(***************************************************************************)
CONSTANTS Runs, Fixes

VARIABLES
  shown,     \* of every run: the fixes a reader is shown
  archived   \* the runs that are history

vars == <<shown, archived>>

TypeOK == shown \in [Runs -> SUBSET Fixes] /\ archived \subseteq Runs

Init ==
  /\ shown = [r \in Runs |-> {}]
  /\ archived = {}

Record(r, f) ==
  /\ r \notin archived
  /\ \A q \in Runs : f \notin shown[q]
  /\ shown' = [shown EXCEPT ![r] = @ \cup {f}]
  /\ UNCHANGED archived

Archive(r) ==
  /\ r \notin archived
  /\ archived' = archived \cup {r}
  /\ UNCHANGED shown

Next ==
  \/ \E r \in Runs, f \in Fixes : Record(r, f)
  \/ \E r \in Runs : Archive(r)

Spec == Init /\ [][Next]_vars
=============================================================================
