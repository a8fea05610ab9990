----------------------------- MODULE DriverRuns -----------------------------
(***************************************************************************)
(* What route_sessions promises of a driver's runs, whatever rows,         *)
(* handlers and sweeps are behind it: a driver begins a run only when the  *)
(* previous one has ended, a run ends at some moment between its beginning *)
(* and the present, and an end, once written, can only be corrected to an  *)
(* earlier moment of the same run.                                         *)
(***************************************************************************)
EXTENDS Integers

CONSTANTS
  Drivers,  \* who drives
  Id,       \* names of runs
  Moments,  \* readings of the clock
  NONE      \* no driver yet, no end yet

\* What is assumed of them where it matters: NONE is no datum, and time starts at 0.
DataAssumption ==
  /\ NONE \notin Drivers /\ NONE \notin Moments
  /\ Moments \subseteq Nat /\ 0 \in Moments

VARIABLES
  now,      \* the present
  runs      \* of every name: driver, beginning and end of the run

vars == <<now, runs>>

Run == [driver: Drivers \cup {NONE}, from: Moments, to: Moments \cup {NONE}]
TypeOK == now \in Moments /\ runs \in [Id -> Run]

Begun(i) == runs[i].driver # NONE
Going(i) == Begun(i) /\ runs[i].to = NONE

Init ==
  /\ now = 0
  /\ runs = [i \in Id |-> [driver |-> NONE, from |-> 0, to |-> NONE]]

Begin(d, i) ==
  /\ ~Begun(i)
  /\ \A j \in Id : Going(j) => runs[j].driver # d
  /\ runs' = [runs EXCEPT ![i] = [driver |-> d, from |-> now, to |-> NONE]]
  /\ UNCHANGED now

\* Ends run i at moment m, or corrects its end to m.
CanEnd(i, m) ==
  /\ Begun(i)
  /\ runs[i].from <= m /\ m <= now
  /\ runs[i].to # NONE => m <= runs[i].to

\* One statement may end several runs.
End(S) ==
  /\ \E end \in [S -> Moments] :
       /\ \A i \in S : CanEnd(i, end[i])
       /\ runs' = [i \in Id |-> IF i \in S THEN [runs[i] EXCEPT !.to = end[i]] ELSE runs[i]]
  /\ UNCHANGED now

Pass == now' \in Moments /\ now < now' /\ UNCHANGED runs

Next ==
  \/ \E d \in Drivers, i \in Id : Begin(d, i)
  \/ \E S \in SUBSET Id : End(S)
  \/ Pass

Spec == Init /\ [][Next]_vars

-----------------------------------------------------------------------------
(* Two runs of one driver never overlap: one of them has ended by the time *)
(* the other begins (getSummaries adds up their durations).                *)
Disjoint(a, b) == runs[a].to # NONE /\ runs[a].to <= runs[b].from

NoOverlap ==
  \A a, b \in Id :
    a # b /\ Begun(a) /\ Begun(b) /\ runs[a].driver = runs[b].driver
      => Disjoint(a, b) \/ Disjoint(b, a)
=============================================================================
