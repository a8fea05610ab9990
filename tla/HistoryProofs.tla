---------------------------- MODULE HistoryProofs ----------------------------
(***************************************************************************)
(* The history of the runs, for any drivers, runs, moments and fixes: the  *)
(* runs of a driver are disjoint (DriverRuns); what is shown and kept of a *)
(* run accounts for every fix there was of it, and its measures are those  *)
(* of the points shown (RouteHistory).                                     *)
(*                                                                         *)
(* The library's induction theorems and its theorems on recursive          *)
(* functions take an operator; here a property of numbers, or of subsets,  *)
(* is the set of those that have it, and a fold is followed value by value.*)
(***************************************************************************)
EXTENDS RouteHistory, FiniteSetTheorems, SequenceTheorems, WellFoundedInduction, TLAPS

CONSTANTS Drivers, Id, Moments
VARIABLES now, runs
Runs == INSTANCE DriverRuns

-----------------------------------------------------------------------------
(* The runs of a driver                                                    *)

RunStarted(i) == Runs!Begun(i) => runs[i].driver \in Drivers /\ runs[i].from <= now
RunEnded(i) ==
  runs[i].to # NONE =>
    Runs!Begun(i) /\ runs[i].from <= runs[i].to /\ runs[i].to <= now

RunsInv ==
  /\ Runs!TypeOK
  /\ \A i \in Id : RunStarted(i) /\ RunEnded(i)
  /\ Runs!NoOverlap

LEMMA InitRunsInv ==
  ASSUME Runs!DataAssumption, Runs!Init PROVE RunsInv
<1>1. Runs!TypeOK
  BY DEF Runs!DataAssumption, Runs!Init, Runs!TypeOK, Runs!Run
<1>2. \A i \in Id : ~Runs!Begun(i) /\ runs[i].to = NONE
  BY DEF Runs!Init, Runs!Begun
<1> QED
  BY <1>1, <1>2 DEF RunsInv, RunStarted, RunEnded, Runs!NoOverlap

LEMMA BeginRunsInv ==
  ASSUME Runs!DataAssumption, RunsInv, NEW d \in Drivers, NEW i \in Id, Runs!Begin(d, i)
  PROVE  RunsInv'
<1> DEFINE row == [driver |-> d, from |-> now, to |-> NONE]
<1>1. /\ runs \in [Id -> Runs!Run] /\ now \in Moments /\ now' = now
      /\ runs' = [runs EXCEPT ![i] = row]
  BY DEF RunsInv, Runs!TypeOK, Runs!Begin
<1>2. row \in Runs!Run
  BY <1>1 DEF Runs!Run
<1>3. runs' \in [Id -> Runs!Run] /\ runs'[i] = row /\ \A j \in Id \ {i} : runs'[j] = runs[j]
  BY <1>1, <1>2
<1>4. now \in Nat
  BY <1>1 DEF Runs!DataAssumption
<1>5. Runs!TypeOK'
  BY <1>1, <1>3 DEF Runs!TypeOK
<1>6. \A j \in Id : RunStarted(j)' /\ RunEnded(j)'
  BY <1>1, <1>3, <1>4 DEF RunsInv, RunStarted, RunEnded, Runs!Begun
<1>7. ASSUME NEW j \in Id, j # i, Runs!Begun(j)', runs'[j].driver = d PROVE Runs!Disjoint(j, i)'
  <2>1. runs'[j] = runs[j] /\ Runs!Begun(j)
    BY <1>3, <1>7 DEF Runs!Begun
  <2>2. runs[j].to # NONE
    BY <1>7, <2>1 DEF Runs!Begin, Runs!Going
  <2>3. runs[j].to <= now
    BY <2>2 DEF RunsInv, RunEnded
  <2> QED
    BY <1>3, <2>1, <2>2, <2>3 DEF Runs!Disjoint
<1>8. Runs!NoOverlap'
  <2> SUFFICES ASSUME NEW a \in Id, NEW b \in Id, a # b, Runs!Begun(a)', Runs!Begun(b)',
                      runs'[a].driver = runs'[b].driver
               PROVE  Runs!Disjoint(a, b)' \/ Runs!Disjoint(b, a)'
    BY DEF Runs!NoOverlap
  <2>1. CASE a = i
    BY <1>3, <1>7, <2>1
  <2>2. CASE b = i
    BY <1>3, <1>7, <2>2
  <2>3. CASE a # i /\ b # i
    BY <1>3, <2>3 DEF RunsInv, Runs!NoOverlap, Runs!Begun, Runs!Disjoint
  <2> QED
    BY <2>1, <2>2, <2>3
<1> QED
  BY <1>5, <1>6, <1>8 DEF RunsInv

LEMMA EndRunsInv ==
  ASSUME Runs!DataAssumption, RunsInv, NEW S \in SUBSET Id, Runs!End(S)
  PROVE  RunsInv'
<1>1. PICK end \in [S -> Moments] :
        /\ \A i \in S : Runs!CanEnd(i, end[i])
        /\ runs' = [i \in Id |-> IF i \in S THEN [runs[i] EXCEPT !.to = end[i]] ELSE runs[i]]
  BY DEF Runs!End
<1>2. runs \in [Id -> Runs!Run] /\ now \in Moments /\ now' = now /\ now \in Nat
  BY DEF Runs!DataAssumption, RunsInv, Runs!TypeOK, Runs!End
<1>3. ASSUME NEW i \in Id
      PROVE  /\ runs'[i] \in Runs!Run
             /\ runs'[i].driver = runs[i].driver /\ runs'[i].from = runs[i].from
             /\ i \notin S => runs'[i].to = runs[i].to
             /\ i \in S => runs'[i].to = end[i] /\ end[i] \in Moments /\ Runs!CanEnd(i, end[i])
  <2>1. i \in S => end[i] \in Moments /\ Runs!CanEnd(i, end[i])
    BY <1>1
  <2> QED
    BY <1>1, <1>2, <2>1 DEF Runs!Run
<1>4. Runs!TypeOK'
  BY <1>1, <1>2, <1>3 DEF Runs!TypeOK
<1>5. \A i \in Id : runs[i].from \in Nat /\ runs[i].to \in Nat \cup {NONE}
                    /\ runs'[i].to \in Nat \cup {NONE}
  BY <1>2, <1>3 DEF Runs!DataAssumption, Runs!Run
<1>6. \A i \in Id : runs[i].to # NONE =>
        runs'[i].to # NONE /\ runs'[i].to <= runs[i].to
  <2> SUFFICES ASSUME NEW i \in Id, runs[i].to # NONE
               PROVE  runs'[i].to # NONE /\ runs'[i].to <= runs[i].to
    OBVIOUS
  <2>1. CASE i \in S
    <3>1. runs'[i].to = end[i] /\ end[i] \in Moments /\ end[i] <= runs[i].to
      BY <1>3, <2>1 DEF Runs!CanEnd
    <3> QED
      BY <3>1, <1>2 DEF Runs!DataAssumption
  <2>2. CASE i \notin S
    BY <1>3, <1>5, <2>2
  <2> QED
    BY <2>1, <2>2
<1>7. \A i \in Id : RunStarted(i)' /\ RunEnded(i)'
  <2> SUFFICES ASSUME NEW i \in Id PROVE RunStarted(i)' /\ RunEnded(i)'
    OBVIOUS
  <2>1. RunStarted(i) /\ RunEnded(i)
    BY DEF RunsInv
  <2>2. CASE i \in S
    <3>1. /\ runs'[i].to = end[i] /\ runs'[i].from = runs[i].from
          /\ runs'[i].driver = runs[i].driver
          /\ Runs!Begun(i) /\ runs[i].from <= end[i] /\ end[i] <= now
      BY <1>3, <2>2 DEF Runs!CanEnd
    <3> QED
      BY <1>2, <2>1, <3>1 DEF RunStarted, RunEnded, Runs!Begun
  <2>3. CASE i \notin S
    BY <1>2, <1>3, <2>1, <2>3 DEF RunStarted, RunEnded, Runs!Begun
  <2> QED
    BY <2>2, <2>3
<1>8. ASSUME NEW a \in Id, NEW b \in Id, Runs!Disjoint(a, b) PROVE Runs!Disjoint(a, b)'
  <2>1. /\ runs[a].to # NONE /\ runs'[a].to # NONE
        /\ runs'[a].to <= runs[a].to /\ runs[a].to <= runs[b].from
    BY <1>6, <1>8 DEF Runs!Disjoint
  <2>2. runs'[b].from = runs[b].from
    BY <1>3
  <2> QED
    BY <1>5, <2>1, <2>2 DEF Runs!Disjoint
<1>9. Runs!NoOverlap'
  BY <1>3, <1>8 DEF RunsInv, Runs!NoOverlap, Runs!Begun
<1> QED
  BY <1>4, <1>7, <1>9 DEF RunsInv

LEMMA PassRunsInv ==
  ASSUME Runs!DataAssumption, RunsInv, Runs!Pass
  PROVE  RunsInv'
<1>1. runs' = runs /\ now' \in Moments /\ now < now' /\ now \in Nat /\ now' \in Nat
  BY DEF Runs!DataAssumption, Runs!Pass, RunsInv, Runs!TypeOK
<1>2. \A i \in Id : runs[i].from \in Nat /\ runs[i].to \in Nat \cup {NONE}
  BY DEF Runs!DataAssumption, RunsInv, Runs!TypeOK, Runs!Run
<1>3. Runs!TypeOK' /\ Runs!NoOverlap'
  BY <1>1 DEF RunsInv, Runs!TypeOK, Runs!NoOverlap, Runs!Begun, Runs!Disjoint
<1>4. \A i \in Id : RunStarted(i)' /\ RunEnded(i)'
  BY <1>1, <1>2 DEF RunsInv, RunStarted, RunEnded, Runs!Begun
<1> QED
  BY <1>3, <1>4 DEF RunsInv

LEMMA NextRunsInv ==
  ASSUME Runs!DataAssumption, RunsInv, [Runs!Next]_(Runs!vars)
  PROVE  RunsInv'
<1>1. CASE UNCHANGED Runs!vars
  BY <1>1 DEF Runs!vars, RunsInv, Runs!TypeOK, RunStarted, RunEnded, Runs!NoOverlap, Runs!Begun,
              Runs!Disjoint
<1> QED
  BY <1>1, BeginRunsInv, EndRunsInv, PassRunsInv DEF Runs!Next

(* The runs of one driver never overlap, which is what makes the sum of    *)
(* their durations in getSummaries the time the driver has been driving.   *)
THEOREM RunsNeverOverlap == Runs!DataAssumption => (Runs!Spec => []Runs!NoOverlap)
<1> SUFFICES ASSUME Runs!DataAssumption PROVE Runs!Spec => []Runs!NoOverlap
  OBVIOUS
<1>1. RunsInv => Runs!NoOverlap
  BY DEF RunsInv
<1>2. Runs!Init => RunsInv
  BY InitRunsInv
<1>3. RunsInv /\ [Runs!Next]_(Runs!vars) => RunsInv'
  BY NextRunsInv
<1> QED
  BY <1>1, <1>2, <1>3, PTL DEF Runs!Spec

-----------------------------------------------------------------------------
(* Numbers                                                                 *)

LEMMA SmallestNumber ==
  ASSUME NEW S \in SUBSET Nat, S # {}
  PROVE  \E x \in S : \A y \in S : x <= y
<1> DEFINE less == OpToRel(<, Nat)
<1>1. PICK x \in S : \A y \in S : ~(<<y, x>> \in less)
  BY NatLessThanWellFounded, WFMin, Zenon
<1>2. \A y \in S : y < x => <<y, x>> \in less
  BY DEF OpToRel
<1> HIDE DEF less
<1>3. \A y \in S : ~(y < x)
  BY <1>1, <1>2
<1> QED
  BY <1>3

(* Induction up to n, for the set of the numbers that have the property.   *)
LEMMA Climb ==
  ASSUME NEW n \in Nat, NEW S, 0 \in S,
         \A k \in 0..n - 1 : k \in S => k + 1 \in S
  PROVE  0..n \subseteq S
<1> DEFINE left == (0..n) \ S
<1> SUFFICES ASSUME left # {} PROVE FALSE
  OBVIOUS
<1>0. left \in SUBSET Nat
  OBVIOUS
<1>1. PICK x \in left : \A y \in left : x <= y
  <2> HIDE DEF left
  <2> QED
    BY <1>0, SmallestNumber
<1>2. x \in 1..n /\ x - 1 \in 0..n - 1
  BY <1>1
<1>3. x - 1 \in S
  BY <1>1, <1>2
<1>4. x \in S
  BY <1>2, <1>3
<1> QED
  BY <1>1, <1>4

LEMMA MaxUpTo ==
  ASSUME NEW n \in Nat \ {0}, NEW S \in SUBSET (1..n), n \in S
  PROVE  Max(S) = n
<1>1. \A y \in S : n >= y
  OBVIOUS
<1>2. \A x \in S : (\A y \in S : x >= y) => x = n
  BY <1>1
<1> QED
  BY <1>1, <1>2 DEF Max

LEMMA MaxExists ==
  ASSUME NEW n \in Nat, NEW S \in SUBSET (1..n), S # {}
  PROVE  Max(S) \in S
<1> DEFINE back == {n - x : x \in S}
<1>1. back \in SUBSET Nat /\ back # {}
  <2>1. \A x \in S : x \in 1..n /\ n - x \in Nat
    OBVIOUS
  <2>2. \E x \in S : n - x \in back
    OBVIOUS
  <2> QED
    BY <2>1, <2>2
<1>2. PICK b \in back : \A y \in back : b <= y
  BY <1>1, SmallestNumber
<1>3. PICK m \in S : b = n - m
  BY <1>2
<1>4. ASSUME NEW y \in S PROVE m >= y
  <2>1. b <= n - y
    BY <1>2
  <2> QED
    BY <1>3, <2>1
<1> HIDE DEF back
<1> QED
  BY <1>4 DEF Max

-----------------------------------------------------------------------------
(* Folding                                                                 *)

(* FoldLeft is the value, for all the indices, of a function on sets of    *)
(* indices that takes the largest index away: there is such a function.    *)
FoldsTo(g, A, base, step, n) ==
  /\ g \in [SUBSET (1..n) -> A]
  /\ \A s \in SUBSET (1..n) :
       g[s] = IF s = {} THEN base ELSE step[Max(s)][g[s \ {Max(s)}]]

LEMMA FoldExists ==
  ASSUME NEW n \in Nat, NEW A, NEW base \in A, NEW step \in [1..n -> [A -> A]]
  PROVE  \E g : FoldsTo(g, A, base, step, n)
<1> DEFINE Folds(g, k) == FoldsTo(g, A, base, step, k)
           done == {k \in 0..n : \E g : Folds(g, k)}
<1>1. 0 \in done
  <2> DEFINE g == [s \in SUBSET (1..0) |-> base]
  <2>1. \A s \in SUBSET (1..0) : s = {}
    OBVIOUS
  <2>2. Folds(g, 0)
    BY <2>1 DEF FoldsTo
  <2> HIDE DEF Folds
  <2> QED
    BY <2>2
<1>2. ASSUME NEW k \in 0..n - 1, k \in done PROVE k + 1 \in done
  <2>1. PICK g : Folds(g, k)
    BY <1>2
  <2> DEFINE h == [s \in SUBSET (1..k + 1) |->
                     IF k + 1 \in s THEN step[k + 1][g[s \ {k + 1}]] ELSE g[s]]
  <2>2. \A s \in SUBSET (1..k + 1) :
          /\ s \ {k + 1} \in SUBSET (1..k) /\ g[s \ {k + 1}] \in A
          /\ k + 1 \notin s => s \in SUBSET (1..k) /\ g[s] \in A
    BY <2>1 DEF FoldsTo
  <2>3. step[k + 1] \in [A -> A] /\ k + 1 \in Nat \ {0} /\ k + 1 \in 1..k + 1
    OBVIOUS
  <2>4. h \in [SUBSET (1..k + 1) -> A]
    BY <2>2, <2>3
  <2>5. \A s \in SUBSET (1..k + 1) :
          h[s] = IF k + 1 \in s THEN step[k + 1][g[s \ {k + 1}]] ELSE g[s]
    OBVIOUS
  <2> HIDE DEF h
  <2>6. ASSUME NEW s \in SUBSET (1..k + 1)
        PROVE  h[s] = IF s = {} THEN base ELSE step[Max(s)][h[s \ {Max(s)}]]
    <3>1. CASE k + 1 \in s
      <4>1. Max(s) = k + 1 /\ s # {}
        BY <2>3, <3>1, MaxUpTo
      <4>2. s \ {k + 1} \in SUBSET (1..k + 1) /\ k + 1 \notin s \ {k + 1}
        OBVIOUS
      <4>3. h[s \ {k + 1}] = g[s \ {k + 1}]
        BY <2>5, <4>2
      <4> QED
        BY <2>5, <3>1, <4>1, <4>3
    <3>2. CASE k + 1 \notin s
      <4>1. s \in SUBSET (1..k) /\ h[s] = g[s]
        BY <2>2, <2>5, <3>2
      <4>2. CASE s = {}
        BY <2>1, <4>1, <4>2 DEF FoldsTo
      <4>3. CASE s # {}
        <5>1. Max(s) \in s
          <6>1. k \in Nat
            OBVIOUS
          <6> QED
            BY <4>1, <4>3, <6>1, MaxExists
        <5>2. s \ {Max(s)} \in SUBSET (1..k + 1) /\ k + 1 \notin s \ {Max(s)}
          BY <3>2
        <5>3. h[s \ {Max(s)}] = g[s \ {Max(s)}]
          BY <2>5, <5>2
        <5>4. g[s] = step[Max(s)][g[s \ {Max(s)}]]
          BY <2>1, <4>1, <4>3 DEF FoldsTo
        <5> QED
          BY <4>1, <4>3, <5>3, <5>4
      <4> QED
        BY <4>2, <4>3
    <3> QED
      BY <3>1, <3>2
  <2>7. Folds(h, k + 1)
    BY <2>4, <2>6 DEF FoldsTo
  <2>8. k + 1 \in 0..n
    OBVIOUS
  <2> HIDE DEF Folds
  <2> QED
    BY <2>7, <2>8
<1> HIDE DEF done, Folds
<1>3. 0..n \subseteq done /\ n \in 0..n
  <2>1. \A k \in 0..n - 1 : k \in done => k + 1 \in done
    BY <1>2
  <2>2. 0..n \subseteq done
    BY <1>1, <2>1, Climb
  <2> QED
    BY <2>2
<1>4. \E g : Folds(g, n)
  BY <1>3 DEF done
<1> USE DEF Folds
<1> QED
  BY <1>4

LEMMA PrefixMax ==
  ASSUME NEW n \in Nat, NEW k \in 1..n
  PROVE  /\ 1..k \in SUBSET (1..n) /\ 1..k # {} /\ Max(1..k) = k
         /\ (1..k) \ {Max(1..k)} = 1..k - 1
<1>1. k \in Nat \ {0} /\ 1..k \in SUBSET (1..n) /\ k \in 1..k
  OBVIOUS
<1>2. 1..k \in SUBSET (1..k)
  OBVIOUS
<1>3. Max(1..k) = k
  BY <1>1, <1>2, MaxUpTo
<1>4. (1..k) \ {k} = 1..k - 1
  OBVIOUS
<1> QED
  BY <1>1, <1>3, <1>4

-----------------------------------------------------------------------------
(* Sorting                                                                 *)

Before(raw, i, j) == raw[i].at < raw[j].at \/ (raw[i].at = raw[j].at /\ i < j)
Earlier(raw, i) == {j \in DOMAIN raw : Before(raw, j, i)}
Place(raw, i) == 1 + Cardinality(Earlier(raw, i))

LEMMA Times ==
  ASSUME NEW raw \in Seq(Fix)
  PROVE  /\ Len(raw) \in Nat /\ DOMAIN raw = 1..Len(raw)
         /\ \A i \in 1..Len(raw) : raw[i] \in Fix /\ raw[i].at \in Nat
<1>1. \A f \in Fix : f.at \in Nat
  BY DEF Fix
<1>2. Len(raw) \in Nat /\ DOMAIN raw = 1..Len(raw)
  OBVIOUS
<1>3. \A i \in 1..Len(raw) : raw[i] \in Fix
  OBVIOUS
<1> QED
  BY <1>1, <1>2, <1>3

LEMMA EarlierFinite ==
  ASSUME NEW raw \in Seq(Fix), NEW i \in 1..Len(raw)
  PROVE  IsFiniteSet(Earlier(raw, i)) /\ Cardinality(Earlier(raw, i)) \in 0..Len(raw) - 1
<1> DEFINE others == (1..Len(raw)) \ {i}
<1>1. Len(raw) \in Nat /\ IsFiniteSet(1..Len(raw)) /\ Cardinality(1..Len(raw)) = Len(raw)
  <2>1. Len(raw) \in Nat
    BY Times
  <2>2. IsFiniteSet(1..Len(raw)) /\ Cardinality(1..Len(raw)) =
          IF 1 > Len(raw) THEN 0 ELSE Len(raw) - 1 + 1
    BY <2>1, FS_Interval
  <2> QED
    BY <2>1, <2>2
<1>2. IsFiniteSet(others) /\ Cardinality(others) = Len(raw) - 1
  BY <1>1, FS_RemoveElement
<1>3. Earlier(raw, i) \subseteq others
  BY Times DEF Earlier, Before
<1> HIDE DEF others
<1>4. /\ IsFiniteSet(Earlier(raw, i))
      /\ Cardinality(Earlier(raw, i)) <= Cardinality(others)
  BY <1>2, <1>3, FS_Subset
<1>5. Cardinality(Earlier(raw, i)) \in Nat
  BY <1>4, FS_CardinalityType
<1> QED
  BY <1>1, <1>2, <1>4, <1>5

LEMMA PlacesRise ==
  ASSUME NEW raw \in Seq(Fix), NEW i \in 1..Len(raw), NEW j \in 1..Len(raw), Before(raw, i, j)
  PROVE  Place(raw, i) < Place(raw, j)
<1> DEFINE upto == Earlier(raw, i) \cup {i}
<1>1. i \notin Earlier(raw, i)
  BY Times DEF Earlier, Before
<1>2. IsFiniteSet(upto) /\ Cardinality(upto) = Cardinality(Earlier(raw, i)) + 1
  BY <1>1, EarlierFinite, FS_AddElement
<1>3. upto \subseteq Earlier(raw, j)
  <2> SUFFICES ASSUME NEW k \in upto PROVE k \in DOMAIN raw /\ Before(raw, k, j)
    BY DEF Earlier
  <2>1. CASE k = i
    BY <2>1, Times
  <2>2. CASE k # i
    <3>1. k \in 1..Len(raw) /\ Before(raw, k, i)
      BY <2>2, Times DEF Earlier
    <3> QED
      BY <3>1, Times DEF Before
  <2> QED
    BY <2>1, <2>2
<1> HIDE DEF upto
<1>4. Cardinality(upto) <= Cardinality(Earlier(raw, j))
  BY <1>3, EarlierFinite, FS_Subset
<1> QED
  BY <1>2, <1>4, EarlierFinite DEF Place

(* Every place is somebody's. *)
LEMMA PlacesTaken ==
  ASSUME NEW raw \in Seq(Fix), NEW n \in 1..Len(raw)
  PROVE  \E i \in 1..Len(raw) : Place(raw, i) = n
<1> DEFINE all == 1..Len(raw)
           place == [i \in all |-> Place(raw, i)]
<1>1. \A i \in all : Place(raw, i) \in all
  BY Times, EarlierFinite DEF Place
<1>2. ASSUME NEW i \in all, NEW j \in all, i # j PROVE Place(raw, i) # Place(raw, j)
  <2>1. Before(raw, i, j) \/ Before(raw, j, i)
    BY <1>2, Times DEF Before
  <2>2. Place(raw, i) < Place(raw, j) \/ Place(raw, j) < Place(raw, i)
    BY <2>1, PlacesRise
  <2> QED
    BY <1>1, <2>2, Times
<1>3. place \in Injection(all, all)
  <2>1. place \in [all -> all] /\ \A i \in all : place[i] = Place(raw, i)
    BY <1>1
  <2> HIDE DEF place
  <2> QED
    BY <1>2, <2>1 DEF Injection, IsInjective
<1>4. IsFiniteSet(all)
  BY Times, FS_Interval
<1>5. place \in Surjection(all, all)
  <2> HIDE DEF place, all
  <2> QED
    BY <1>3, <1>4, FS_Injection
<1> QED
  BY <1>5 DEF Surjection

LEMMA Sorting ==
  ASSUME NEW raw \in Seq(Fix)
  PROVE  LET s == SortedByTime(raw)
         IN  /\ s \in Seq(Fix) /\ Len(s) = Len(raw)
             /\ \A i, j \in 1..Len(raw) : i < j => s[i].at <= s[j].at
             /\ \A i \in 1..Len(raw) : \E n \in 1..Len(raw) : s[n] = raw[i]
<1> DEFINE s == SortedByTime(raw)
           order == [n \in DOMAIN raw |-> CHOOSE i \in DOMAIN raw : Place(raw, i) = n]
<1>1. s = [n \in DOMAIN raw |-> raw[CHOOSE i \in DOMAIN raw : Place(raw, i) = n]]
  BY DEF SortedByTime, Place, Earlier, Before
<1>2. \A n \in 1..Len(raw) : s[n] = raw[order[n]]
  BY <1>1, Times
<1>3. \A n \in 1..Len(raw) : order[n] \in 1..Len(raw) /\ Place(raw, order[n]) = n
  BY PlacesTaken, Times
<1>4. Len(raw) \in Nat /\ s = [n \in 1..Len(raw) |-> s[n]]
  BY <1>1, Times
<1> HIDE DEF s, order
<1>5. \A n \in 1..Len(raw) : s[n] \in Fix
  BY <1>2, <1>3, Times
<1>6. s \in Seq(Fix) /\ Len(s) = Len(raw)
  BY <1>4, <1>5
<1>7. ASSUME NEW i \in 1..Len(raw), NEW j \in 1..Len(raw), i < j
      PROVE  s[i].at <= s[j].at
  <2>1. ~Before(raw, order[j], order[i])
    <3> SUFFICES ASSUME Before(raw, order[j], order[i]) PROVE FALSE
      OBVIOUS
    <3>1. j < i
      BY <1>3, PlacesRise
    <3> QED
      BY <1>7, <3>1, Times
  <2> QED
    BY <1>2, <1>3, <2>1, Times DEF Before
<1>8. ASSUME NEW i \in 1..Len(raw) PROVE \E n \in 1..Len(raw) : s[n] = raw[i]
  <2> DEFINE n == Place(raw, i)
  <2>1. n \in 1..Len(raw)
    BY Times, EarlierFinite DEF Place
  <2>2. order[n] = i
    <3> SUFFICES ASSUME order[n] # i PROVE FALSE
      OBVIOUS
    <3>1. order[n] \in 1..Len(raw) /\ Place(raw, order[n]) = n
      BY <1>3, <2>1
    <3>2. Before(raw, i, order[n]) \/ Before(raw, order[n], i)
      BY <3>1, Times DEF Before
    <3>3. n < n
      BY <3>1, <3>2, PlacesRise
    <3> QED
      BY <2>1, <3>3, Times
  <2> QED
    BY <1>2, <2>1, <2>2
<1> QED
  BY <1>6, <1>7, <1>8 DEF s

-----------------------------------------------------------------------------
(* Cleaning                                                                *)

Sorted(fixes) ==
  /\ fixes \in Seq(Fix)
  /\ \A i, j \in 1..Len(fixes) : i < j => fixes[i].at <= fixes[j].at

Rises(points) == \A i, j \in DOMAIN points : i < j => points[i].at < points[j].at

(* What cleanFixes has after k of the sorted fixes. *)
Clean(points, fixes, k) ==
  /\ points \in Seq(Fix) /\ Rises(points) /\ InOrder(points)
  /\ \A i \in 1..k : Accounted(fixes[i], points)
  /\ points = <<>> <=> k = 0
  /\ k > 0 => Last(points).at <= Rounded(fixes[k]).at

LEMMA DistanceInt ==
  ASSUME NEW p \in Fix, NEW q \in Fix
  PROVE  Distance(p, q) \in Int
<1>1. p.x \in Int /\ q.x \in Int
  BY DEF Fix
<1> QED
  BY <1>1 DEF Distance, Abs

LEMMA ReachInt ==
  ASSUME NEW s \in Int
  PROVE  MaxPlausibleSpeed * s \in Int
BY MetricsAssumption

LEMMA RoundedType ==
  ASSUME NEW f \in Fix
  PROVE  Rounded(f) \in Fix /\ Rounded(f).at = (f.at + 500) \div 1000 /\ Rounded(f).at \in Nat
<1>1. f.at \in Nat /\ (f.at + 500) \div 1000 \in Nat
  BY DEF Fix
<1> QED
  BY <1>1 DEF Rounded, Fix

LEMMA RoundedRises ==
  ASSUME NEW f \in Fix, NEW g \in Fix, f.at <= g.at
  PROVE  Rounded(f).at <= Rounded(g).at
<1>1. f.at \in Nat /\ g.at \in Nat
  BY DEF Fix
<1>2. (f.at + 500) \div 1000 <= (g.at + 500) \div 1000
  BY <1>1
<1> QED
  BY <1>2, RoundedType

LEMMA PointTypes ==
  ASSUME NEW points \in Seq(Fix)
  PROVE  /\ Len(points) \in Nat /\ DOMAIN points = 1..Len(points)
         /\ \A i \in 1..Len(points) : points[i] \in Fix /\ points[i].at \in Nat
BY Times

LEMMA LastPoint ==
  ASSUME NEW points \in Seq(Fix), points # <<>>
  PROVE  /\ Len(points) \in 1..Len(points) /\ Last(points) = points[Len(points)]
         /\ Last(points) \in Fix /\ Last(points).at \in Nat
<1>1. Len(points) \in Nat /\ Len(points) # 0
  BY EmptySeq
<1> QED
  BY <1>1, PointTypes DEF Last

(* The point before a fix is the last one, if that is not after the fix.   *)
LEMMA LastAccounts ==
  ASSUME NEW points \in Seq(Fix), points # <<>>, NEW f \in Fix,
         Last(points).at <= Rounded(f).at,
         \/ Last(points).at = Rounded(f).at
         \/ Distance(Last(points), Rounded(f))
              > MaxPlausibleSpeed * (Rounded(f).at - Last(points).at)
  PROVE  Accounted(f, points)
<1> DEFINE n == Len(points)
           before == {i \in DOMAIN points : points[i].at <= Rounded(f).at}
<1>1. n \in before /\ Last(points) = points[n]
  BY LastPoint, PointTypes
<1>2. \A j \in before : j <= n
  BY PointTypes
<1> QED
  BY <1>1, <1>2 DEF Accounted

LEMMA FirstStep ==
  ASSUME NEW fixes, Sorted(fixes), 1 \in 1..Len(fixes)
  PROVE  Clean(Keep(<<>>, fixes[1]), fixes, 1)
<1> DEFINE p == Rounded(fixes[1])
           points == <<p>>
<1>1. fixes[1] \in Fix /\ p \in Fix /\ p.at \in Nat
  BY RoundedType DEF Sorted
<1>2. Keep(<<>>, fixes[1]) = points
  BY DEF Keep
<1>3. points \in Seq(Fix) /\ Len(points) = 1 /\ points[1] = p /\ points # <<>>
  BY <1>1
<1> HIDE DEF points
<1>4. Last(points) = p
  BY <1>3 DEF Last
<1>5. Rises(points) /\ InOrder(points)
  BY <1>3, PointTypes DEF Rises, InOrder
<1>6. Accounted(fixes[1], points)
  BY <1>1, <1>3, <1>4, LastAccounts
<1> HIDE DEF p
<1> QED
  BY <1>1, <1>2, <1>3, <1>4, <1>5, <1>6 DEF Clean, p

LEMMA DropStep ==
  ASSUME NEW fixes, Sorted(fixes), NEW k \in 2..Len(fixes), NEW points,
         Clean(points, fixes, k - 1), Keep(points, fixes[k]) = points
  PROVE  Clean(points, fixes, k)
<1> DEFINE p == Rounded(fixes[k])
           q == Last(points)
<1>1. fixes[k] \in Fix /\ fixes[k - 1] \in Fix /\ fixes[k - 1].at <= fixes[k].at
  BY DEF Sorted
<1>2. points \in Seq(Fix) /\ points # <<>> /\ q.at <= Rounded(fixes[k - 1]).at
  BY DEF Clean
<1>3. /\ p \in Fix /\ p.at \in Nat /\ q \in Fix /\ q.at \in Nat
      /\ Rounded(fixes[k - 1]).at \in Nat /\ Rounded(fixes[k - 1]).at <= p.at
  BY <1>1, <1>2, RoundedType, RoundedRises, LastPoint
<1>4. q.at <= p.at
  BY <1>2, <1>3
<1>5. q.at = p.at \/ Distance(q, p) > MaxPlausibleSpeed * (p.at - q.at)
  <2> SUFFICES ASSUME q.at # p.at, ~(Distance(q, p) > MaxPlausibleSpeed * (p.at - q.at))
               PROVE  FALSE
    OBVIOUS
  <2>1. ~(p.at <= q.at)
    BY <1>3, <1>4
  <2>2. Append(points, p) = points
    BY <2>1 DEF Keep
  <2>3. Len(Append(points, p)) = Len(points) + 1
    BY <1>2, <1>3
  <2> QED
    BY <1>2, <2>2, <2>3, PointTypes
<1>6. Accounted(fixes[k], points)
  BY <1>1, <1>2, <1>4, <1>5, LastAccounts
<1>7. \A i \in 1..k : Accounted(fixes[i], points)
  BY <1>6 DEF Clean
<1> QED
  BY <1>2, <1>4, <1>7 DEF Clean

LEMMA AddStep ==
  ASSUME NEW fixes, Sorted(fixes), NEW k \in 2..Len(fixes), NEW points,
         Clean(points, fixes, k - 1), Keep(points, fixes[k]) # points
  PROVE  Clean(Keep(points, fixes[k]), fixes, k)
<1> DEFINE p == Rounded(fixes[k])
           q == Last(points)
           n == Len(points)
           more == Append(points, p)
<1>1. fixes[k] \in Fix /\ p \in Fix /\ p.at \in Nat
  BY RoundedType DEF Sorted
<1>2. /\ points \in Seq(Fix) /\ points # <<>> /\ Rises(points) /\ InOrder(points)
      /\ n \in 1..n /\ q = points[n] /\ q \in Fix /\ q.at \in Nat
  BY LastPoint DEF Clean
<1>3. /\ Keep(points, fixes[k]) = more
      /\ ~(p.at <= q.at) /\ ~(Distance(q, p) > MaxPlausibleSpeed * (p.at - q.at))
  BY <1>2 DEF Keep
<1>4. q.at < p.at /\ Distance(q, p) <= MaxPlausibleSpeed * (p.at - q.at)
  <2>1. Distance(q, p) \in Int /\ MaxPlausibleSpeed * (p.at - q.at) \in Int
    <3>1. p \in Fix /\ q \in Fix /\ p.at - q.at \in Int
      BY <1>1, <1>2
    <3> HIDE DEF p, q
    <3> QED
      BY <3>1, DistanceInt, ReachInt
  <2> QED
    BY <1>1, <1>2, <1>3, <2>1
<1>5. /\ more \in Seq(Fix) /\ Len(more) = n + 1 /\ more[n + 1] = p /\ more # <<>>
      /\ \A i \in 1..n : more[i] = points[i]
  BY <1>1, <1>2
<1>6. DOMAIN more = 1..n + 1 /\ DOMAIN points = 1..n /\ n \in Nat
      /\ \A i \in 1..n : points[i].at \in Nat
  BY <1>2, <1>5, PointTypes
<1> HIDE DEF more, p, q, n
<1>7. \A i \in 1..n : points[i].at <= q.at
  <2> SUFFICES ASSUME NEW i \in 1..n PROVE points[i].at <= q.at
    OBVIOUS
  <2>1. CASE i = n
    BY <1>2, <2>1
  <2>2. CASE i # n
    <3>1. i < n
      BY <1>6, <2>2
    <3>2. i \in DOMAIN points /\ n \in DOMAIN points
      BY <1>2, <1>6
    <3>3. points[i].at < points[n].at
      BY <1>2, <3>1, <3>2 DEF Rises
    <3>4. points[i].at \in Nat
      BY <1>6
    <3> QED
      BY <1>2, <3>3, <3>4
  <2> QED
    BY <2>1, <2>2
<1>8. Rises(more)
  <2> SUFFICES ASSUME NEW i \in 1..n + 1, NEW j \in 1..n + 1, i < j
               PROVE  more[i].at < more[j].at
    BY <1>6 DEF Rises
  <2>1. i \in 1..n /\ more[i] = points[i]
    BY <1>5, <1>6
  <2>2. CASE j = n + 1
    <3>1. points[i].at <= q.at /\ points[i].at \in Nat
      BY <1>6, <1>7, <2>1
    <3> QED
      <4>1. q.at < p.at /\ q.at \in Nat /\ p.at \in Nat
        BY <1>1, <1>2, <1>4
      <4>2. more[j] = p
        BY <1>5, <2>2
      <4> QED
        BY <2>1, <3>1, <4>1, <4>2
  <2>3. CASE j # n + 1
    <3>1. j \in 1..n /\ more[j] = points[j]
      BY <1>5, <1>6, <2>3
    <3>2. i \in DOMAIN points /\ j \in DOMAIN points /\ i < j
      BY <1>6, <2>1, <3>1
    <3>3. points[i].at < points[j].at
      BY <1>2, <3>2 DEF Rises
    <3> QED
      BY <2>1, <3>1, <3>3
  <2> QED
    BY <2>2, <2>3
<1> USE DEF p, q, n
<1>9. InOrder(more)
  <2> SUFFICES ASSUME NEW i \in 2..n + 1
               PROVE  /\ more[i - 1].at < more[i].at
                      /\ Distance(more[i - 1], more[i])
                           <= MaxPlausibleSpeed * (more[i].at - more[i - 1].at)
    BY <1>5 DEF InOrder
  <2>1. CASE i = n + 1
    <3>1. more[i] = p /\ more[i - 1] = q
      BY <1>2, <1>5, <1>6, <2>1
    <3> QED
      BY <1>4, <3>1
  <2>2. CASE i # n + 1
    <3>1. i \in 2..n /\ more[i] = points[i] /\ more[i - 1] = points[i - 1]
      BY <1>5, <1>6, <2>2
    <3> QED
      BY <1>2, <3>1 DEF InOrder
  <2> QED
    BY <2>1, <2>2
<1>10. Last(more) = p
  BY <1>5 DEF Last
<1>11. Accounted(fixes[k], more)
  BY <1>1, <1>5, <1>10, LastAccounts
<1>12. ASSUME NEW i \in 1..k - 1 PROVE Accounted(fixes[i], more)
  <2> DEFINE r == Rounded(fixes[i])
             before == {j \in DOMAIN points : points[j].at <= r.at}
  <2>1. fixes[i] \in Fix /\ fixes[i].at <= fixes[k].at /\ r \in Fix /\ r.at \in Nat
    <3>1. Len(fixes) \in Nat /\ fixes \in Seq(Fix)
      BY PointTypes DEF Sorted
    <3>2. i \in 1..Len(fixes) /\ k \in 1..Len(fixes) /\ i < k
      BY <3>1
    <3>3. fixes[i] \in Fix /\ fixes[i].at <= fixes[k].at
      BY <3>1, <3>2 DEF Sorted
    <3> QED
      BY <3>3, RoundedType
  <2>2. r.at <= p.at
    BY <1>1, <2>1, RoundedRises
  <2>3. CASE r.at = p.at
    BY <1>5, <1>10, <2>1, <2>2, <2>3, LastAccounts
  <2>4. CASE r.at # p.at
    <3> DEFINE Answers(j) ==
                 /\ \A m \in before : m <= j
                 /\ \/ points[j].at = r.at
                    \/ Distance(points[j], r) > MaxPlausibleSpeed * (r.at - points[j].at)
    <3>1. PICK j \in before : Answers(j)
      <4>1. Accounted(fixes[i], points)
        BY DEF Clean
      <4> QED
        BY <4>1, Zenon DEF Accounted
    <3>2. before = {m \in DOMAIN more : more[m].at <= r.at}
      BY <1>1, <1>5, <1>6, <2>1, <2>2, <2>4
    <3>3. more[j] = points[j]
      BY <1>5, <1>6
    <3> QED
      BY <3>1, <3>2, <3>3 DEF Accounted
  <2> QED
    BY <2>3, <2>4
<1>13. \A i \in 1..k : Accounted(fixes[i], more)
  BY <1>11, <1>12
<1> QED
  BY <1>1, <1>3, <1>5, <1>8, <1>9, <1>10, <1>13 DEF Clean

LEMMA KeepType ==
  ASSUME NEW points \in Seq(Fix), NEW fix \in Fix
  PROVE  Keep(points, fix) \in Seq(Fix)
<1>1. Rounded(fix) \in Fix
  BY RoundedType
<1>2. Append(points, Rounded(fix)) \in Seq(Fix)
  BY <1>1
<1> QED
  BY <1>2 DEF Keep

(* The points are the last of the values that begin with none and take one *)
(* fix at a time.                                                          *)
LEMMA KeepFolds ==
  ASSUME NEW fixes \in Seq(Fix), NEW n \in Nat, DOMAIN fixes = 1..n
  PROVE  \E acc : /\ acc[0] = <<>>
                  /\ \A k \in 1..n : acc[k] = Keep(acc[k - 1], fixes[k])
                  /\ FoldLeft(Keep, <<>>, fixes) = acc[n]
<1> DEFINE Folds(g) == g = [s \in SUBSET (1..n) |->
                              IF s = {} THEN <<>>
                              ELSE Keep(g[s \ {Max(s)}], fixes[Max(s)])]
           g == CHOOSE f : Folds(f)
           acc == [k \in 0..n |-> g[1..k]]
<1>1. \E f : Folds(f)
  <2> DEFINE A == Seq(Fix)
             step == [i \in 1..n |-> [a \in A |-> Keep(a, fixes[i])]]
  <2>1. \A i \in 1..n : fixes[i] \in Fix
    OBVIOUS
  <2>2. <<>> \in A /\ step \in [1..n -> [A -> A]]
    BY <2>1, KeepType
  <2>3. \A i \in 1..n : \A a \in A : step[i][a] = Keep(a, fixes[i])
    OBVIOUS
  <2> HIDE DEF step, A
  <2>4. PICK f : FoldsTo(f, A, <<>>, step, n)
    BY <2>2, FoldExists
  <2>5. ASSUME NEW s \in SUBSET (1..n), s # {}
        PROVE  f[s] = Keep(f[s \ {Max(s)}], fixes[Max(s)])
    <3>1. Max(s) \in 1..n /\ s \ {Max(s)} \in SUBSET (1..n)
      BY <2>5, MaxExists
    <3> QED
      BY <2>3, <2>4, <2>5, <3>1 DEF FoldsTo
  <2>6. Folds(f)
    BY <2>4, <2>5 DEF FoldsTo
  <2> QED
    BY <2>6
<1>2. Folds(g)
  BY <1>1
<1>3. FoldLeft(Keep, <<>>, fixes) = g[1..n]
  BY DEF FoldLeft, MapThenFoldSet
<1> HIDE DEF g
<1>4. g[{}] = <<>> /\ \A s \in SUBSET (1..n) :
        s # {} => g[s] = Keep(g[s \ {Max(s)}], fixes[Max(s)])
  BY <1>2
<1>5. acc[0] = <<>> /\ acc[n] = g[1..n]
  <2>1. 1..0 = {}
    OBVIOUS
  <2> QED
    BY <1>4, <2>1
<1>6. ASSUME NEW k \in 1..n PROVE acc[k] = Keep(acc[k - 1], fixes[k])
  <2>1. acc[k] = g[1..k] /\ acc[k - 1] = g[1..k - 1]
    OBVIOUS
  <2>2. /\ 1..k \in SUBSET (1..n) /\ 1..k # {} /\ Max(1..k) = k
        /\ (1..k) \ {Max(1..k)} = 1..k - 1
    BY PrefixMax
  <2>3. g[1..k] = Keep(g[1..k - 1], fixes[k])
    BY <1>4, <2>2
  <2> HIDE DEF acc
  <2> QED
    BY <2>1, <2>3
<1> HIDE DEF acc
<1> QED
  BY <1>3, <1>5, <1>6

(* What cleanFixes returns: points in order and within reach, which        *)
(* account for every fix.                                                  *)
LEMMA CleanFixesAccounts ==
  ASSUME NEW raw \in Seq(Fix)
  PROVE  LET points == CleanFixes(raw)
         IN  /\ points \in Seq(Fix) /\ Rises(points) /\ InOrder(points)
             /\ \A fix \in ToSet(raw) : Accounted(fix, points)
<1> DEFINE fixes == SortedByTime(raw)
           n == Len(raw)
           points == CleanFixes(raw)
<1>1. n \in Nat /\ fixes \in Seq(Fix) /\ Len(fixes) = n /\ Sorted(fixes)
  BY Sorting, Times DEF Sorted
<1>2. DOMAIN fixes = 1..n
  BY <1>1, Times
<1>3. points = FoldLeft(Keep, <<>>, fixes)
  BY DEF CleanFixes
<1> HIDE DEF fixes, points, n
<1>4. PICK acc : /\ acc[0] = <<>>
                 /\ \A k \in 1..n : acc[k] = Keep(acc[k - 1], fixes[k])
                 /\ points = acc[n]
  BY <1>1, <1>2, <1>3, KeepFolds
<1> DEFINE good == {k \in 0..n : Clean(acc[k], fixes, k)}
<1>5. 0 \in good
  <2>1. <<>> \in Seq(Fix) /\ Len(<<>>) = 0 /\ DOMAIN <<>> = {}
    OBVIOUS
  <2>2. Clean(<<>>, fixes, 0)
    BY <2>1 DEF Clean, Rises, InOrder
  <2> QED
    BY <1>1, <1>4, <2>2
<1>6. ASSUME NEW k \in 0..n - 1, k \in good PROVE k + 1 \in good
  <2>1. k + 1 \in 1..n /\ acc[k + 1] = Keep(acc[k], fixes[k + 1])
    <3>1. k + 1 \in 1..n /\ (k + 1) - 1 = k
      BY <1>1
    <3> QED
      BY <1>4, <3>1
  <2>2. CASE k = 0
    BY <1>1, <1>4, <2>1, <2>2, FirstStep
  <2>3. CASE k # 0
    <3>1. k + 1 \in 2..Len(fixes) /\ Clean(acc[k], fixes, (k + 1) - 1)
      BY <1>1, <1>6, <2>3
    <3>2. Clean(Keep(acc[k], fixes[k + 1]), fixes, k + 1)
      BY <1>1, <3>1, DropStep, AddStep
    <3> QED
      BY <2>1, <3>2
  <2> QED
    BY <2>2, <2>3
<1> HIDE DEF good
<1>7. n \in good
  BY <1>1, <1>5, <1>6, Climb
<1>8. Clean(points, fixes, n)
  BY <1>4, <1>7 DEF good
<1>9. ASSUME NEW fix \in ToSet(raw) PROVE Accounted(fix, points)
  <2>1. PICK i \in 1..n : fix = raw[i]
    BY Times DEF ToSet, n
  <2>2. PICK k \in 1..n : fixes[k] = raw[i]
    BY Sorting DEF fixes, n
  <2> QED
    BY <1>8, <2>1, <2>2 DEF Clean
<1> QED
  BY <1>8, <1>9 DEF Clean, points

(* The span of a run holds all its points, and its first and last moments  *)
(* are times.                                                              *)
LEMMA RunSpanHolds ==
  ASSUME NEW points \in Seq(Fix), Rises(points),
         NEW row, row.from \in Nat, row.to \in OrNone(Nat)
  PROVE  Spans(RunSpan(row, points), points)
<1> SUFFICES ASSUME NEW i \in DOMAIN points
             PROVE  LET span == RunSpan(row, points)
                    IN  /\ span.startedAt <= points[i].at
                        /\ span.endedAt # NONE => points[i].at <= span.endedAt
  BY DEF Spans
<1> DEFINE n == Len(points)
<1>1. /\ n \in Nat /\ i \in 1..n /\ points # <<>> /\ 1 \in 1..n /\ n \in 1..n
      /\ DOMAIN points = 1..n /\ \A j \in 1..n : points[j].at \in Nat
  BY PointTypes
<1>2. Head(points) = points[1] /\ Last(points) = points[n]
  BY <1>1 DEF Last
<1>3. points[1].at <= points[i].at /\ points[i].at <= points[n].at
  BY <1>1 DEF Rises
<1>4. RunSpan(row, points).startedAt <= points[i].at
  BY <1>1, <1>2, <1>3 DEF RunSpan, Least
<1>5. ASSUME RunSpan(row, points).endedAt # NONE
      PROVE  points[i].at <= RunSpan(row, points).endedAt
  <2>1. row.to # NONE /\ row.to \in Nat
    BY <1>1, <1>5 DEF RunSpan, OrNone
  <2>2. RunSpan(row, points).endedAt = Greatest(row.to, points[n].at)
    BY <1>1, <1>2, <2>1 DEF RunSpan
  <2> QED
    BY <1>1, <1>3, <2>1, <2>2 DEF Greatest
<1> QED
  BY <1>4, <1>5

-----------------------------------------------------------------------------
(* What is shown of a run                                                  *)

\* null is not a run that was rebuilt.
NoneIsNoRun == \A p, s, m : [points |-> p, span |-> s, metrics |-> m] # NONE

IsRow(row) == row.from \in Nat /\ row.to \in OrNone(Nat)

\* A record with the fields of NoReader.
IsRequest(r) ==
  r = [kind |-> r.kind, at |-> r.at, row |-> r.row, seen |-> r.seen, built |-> r.built,
       planned |-> r.planned]

TypeOK ==
  /\ positions \in Seq(Fix)
  /\ session \in [from: Nat, to: OrNone(Nat)]
  /\ IsRequest(reader)
  /\ reader.at \in {"idle", "archived", "session", "points", "path", "done"}

(* While a request is served nothing is archived, so what it is to account *)
(* for is still there; what it has built accounts for it.                  *)
Served ==
  /\ reader.at \in {"archived", "session", "points"} => reader.seen \subseteq ToSet(positions)
  /\ reader.at = "session" /\ reader.kind # "live" => track = NONE
  /\ reader.at = "points" => IsRow(reader.row)
  /\ reader.at = "path" =>
       reader.built # NONE /\ PathIsSound(reader.built, reader.seen)

PathInv == TypeOK /\ Served

LEMMA ToSetAppend ==
  ASSUME NEW seq \in Seq(Fix), NEW fix \in Fix
  PROVE  ToSet(seq) \subseteq ToSet(Append(seq, fix))
<1> DEFINE more == Append(seq, fix)
<1>1. Len(seq) \in Nat /\ DOMAIN seq = 1..Len(seq) /\ DOMAIN more = 1..Len(seq) + 1
      /\ \A i \in 1..Len(seq) : more[i] = seq[i]
  OBVIOUS
<1> HIDE DEF more
<1>2. \A i \in DOMAIN seq : i \in DOMAIN more /\ more[i] = seq[i]
  BY <1>1
<1> QED
  BY <1>2 DEF ToSet, more

LEMMA BuildIsSound ==
  ASSUME positions \in Seq(Fix), NEW row, IsRow(row), NEW S \in SUBSET ToSet(positions)
  PROVE  PathIsSound(Build(row), S) /\ (NoneIsNoRun => Build(row) # NONE)
<1> DEFINE points == CleanFixes(positions)
           span == RunSpan(row, points)
           metrics == ComputeTrackMetrics(points, row.length)
<1>1. Build(row) = [points |-> points, span |-> span, metrics |-> metrics]
  BY DEF Build
<1>2. /\ points \in Seq(Fix) /\ Rises(points) /\ InOrder(points)
      /\ \A fix \in ToSet(positions) : Accounted(fix, points)
  BY CleanFixesAccounts
<1> HIDE DEF points
<1>3. Spans(span, points)
  BY <1>2, RunSpanHolds DEF IsRow
<1> HIDE DEF span, metrics
<1>4. NoneIsNoRun => Build(row) # NONE
  BY <1>1 DEF NoneIsNoRun
<1>5. Build(row).points = points /\ Build(row).span = span
  BY <1>1
<1> QED
  BY <1>2, <1>3, <1>4, <1>5 DEF PathIsSound

LEMMA RowNow ==
  ASSUME TypeOK PROVE IsRow(Row)
BY DEF TypeOK, IsRow, Row

LEMMA PathInit ==
  ASSUME Init PROVE PathInv
<1>1. positions \in Seq(Fix)
  BY DEF Init
<1>2. session \in [from: Nat, to: OrNone(Nat)]
  BY HistoryAssumption DEF Init, OrNone
<1> QED
  BY <1>1, <1>2 DEF Init, PathInv, TypeOK, Served, NoReader, IsRequest

LEMMA GotoType ==
  ASSUME NEW rec, NEW at, Goto(at, rec),
         IsRequest(rec),
         at \in {"idle", "archived", "session", "points", "path", "done"}
  PROVE  /\ reader' = [kind |-> rec.kind, at |-> at, row |-> rec.row, seen |-> rec.seen,
                       built |-> rec.built, planned |-> rec.planned]
         /\ reader'.at = at /\ reader'.kind = rec.kind /\ reader'.row = rec.row
         /\ reader'.seen = rec.seen /\ reader'.built = rec.built
         /\ IsRequest(reader')
<1>1. reader' = [kind |-> rec.kind, at |-> at, row |-> rec.row, seen |-> rec.seen,
                 built |-> rec.built, planned |-> rec.planned]
  BY DEF Goto, IsRequest
<1> QED
  BY <1>1 DEF IsRequest

\* What the invariant needs of a step that leaves the reader alone.
LEMMA ReaderKeeps ==
  ASSUME PathInv, reader' = reader, ToSet(positions) \subseteq ToSet(positions'),
         positions' \in Seq(Fix), track' = track,
         session' \in [from: Nat, to: OrNone(Nat)]
  PROVE  PathInv'
BY DEF PathInv, TypeOK, Served

LEMMA StoreFixKeeps ==
  ASSUME PathInv, NEW fix \in Fixes, StoreFix(fix) PROVE PathInv'
<1>1. positions \in Seq(Fix) /\ fix \in Fix
  BY HistoryAssumption DEF PathInv, TypeOK
<1>2. positions' \in Seq(Fix) /\ positions' = Append(positions, fix)
  BY <1>1 DEF StoreFix
<1>3. ToSet(positions) \subseteq ToSet(positions')
  BY <1>1, <1>2, ToSetAppend
<1> QED
  BY <1>2, <1>3, ReaderKeeps DEF StoreFix, PathInv, TypeOK

LEMMA EndRunKeeps ==
  ASSUME PathInv, NEW t \in Ends, EndRun(t) PROVE PathInv'
<1>1. t \in Nat
  BY HistoryAssumption
<1>2. session' \in [from: Nat, to: OrNone(Nat)]
  BY <1>1 DEF EndRun, PathInv, TypeOK, OrNone
<1> QED
  BY <1>2, ReaderKeeps DEF EndRun, PathInv, TypeOK

LEMMA RedrawKeeps ==
  ASSUME PathInv, NEW l \in Lengths, Redraw(l) PROVE PathInv'
BY ReaderKeeps DEF Redraw, PathInv, TypeOK

LEMMA ArchiveKeeps ==
  ASSUME Undisturbed, PathInv, Archive PROVE PathInv'
<1>1. reader.at \in {"idle", "done"} /\ reader' = reader
  BY DEF Archive
<1>2. positions' = <<>> /\ positions' \in Seq(Fix) /\ session' = session
  BY DEF Archive
<1> QED
  BY <1>1, <1>2 DEF PathInv, TypeOK, Served

LEMMA AskKeeps ==
  ASSUME PathInv, NEW kind \in {"detail", "list", "live"}, Ask(kind) PROVE PathInv'
<1> DEFINE new == [NoReader EXCEPT !.kind = kind]
           rec == [NoReader EXCEPT !.kind = kind, !.seen = ToSet(positions)]
           at == IF kind = "live" THEN "session" ELSE "archived"
<1>1. IsRequest(new) /\ new.kind = kind
  BY DEF NoReader, IsRequest
<1>2. Goto(at, rec) /\ UNCHANGED <<positions, session, length, track>>
  BY DEF Ask
<1>3. rec = [new EXCEPT !.seen = ToSet(positions)]
  OBVIOUS
<1> HIDE DEF new, rec
<1>4. IsRequest(rec) /\ rec.kind = kind /\ rec.seen = ToSet(positions)
  <2> DEFINE there == ToSet(positions)
  <2>1. rec = [new EXCEPT !.seen = there]
    BY <1>3
  <2> HIDE DEF there
  <2>2. IsRequest(rec) /\ rec.kind = kind /\ rec.seen = there
    BY <1>1, <2>1 DEF IsRequest
  <2> QED
    BY <2>2 DEF there
<1>5. at \in {"archived", "session"} /\ (at = "session" => kind = "live")
  OBVIOUS
<1> HIDE DEF at
<1>6. /\ reader'.at = at /\ reader'.kind = kind /\ reader'.seen = ToSet(positions)
      /\ IsRequest(reader')
  BY <1>2, <1>4, <1>5, GotoType
<1> QED
  BY <1>2, <1>5, <1>6 DEF PathInv, TypeOK, Served

LEMMA FindArchivedKeeps ==
  ASSUME PathInv, FindArchived PROVE PathInv'
<1>1. UNCHANGED <<positions, session, length, track>>
  BY DEF FindArchived
<1>2. CASE track = NONE
  <2>1. Goto("session", reader) /\ reader.at = "archived"
    BY <1>2 DEF FindArchived
  <2>2. /\ reader'.at = "session" /\ reader'.seen = reader.seen
        /\ IsRequest(reader')
    BY <2>1, GotoType DEF PathInv, TypeOK
  <2> QED
    BY <1>1, <1>2, <2>1, <2>2 DEF PathInv, TypeOK, Served
<1>3. CASE track # NONE
  <2> DEFINE rec == [reader EXCEPT !.built = track.built, !.planned = track.planned]
  <2>1. Goto("done", rec)
    BY <1>3 DEF FindArchived
  <2>2. IsRequest(rec)
    <3> DEFINE read == [reader EXCEPT !.built = track.built]
    <3>1. IsRequest(read)
      BY DEF PathInv, TypeOK, IsRequest
    <3>2. rec = [read EXCEPT !.planned = track.planned]
      OBVIOUS
    <3> HIDE DEF read, rec
    <3> QED
      BY <3>1, <3>2 DEF IsRequest
  <2> HIDE DEF rec
  <2>3. reader'.at = "done" /\ IsRequest(reader')
    BY <2>1, <2>2, GotoType
  <2> QED
    BY <1>1, <2>3 DEF PathInv, TypeOK, Served
<1> QED
  BY <1>2, <1>3

LEMMA FindSessionKeeps ==
  ASSUME PathInv, FindSession PROVE PathInv'
<1>1. UNCHANGED <<positions, session, length, track>> /\ reader.at = "session"
  BY DEF FindSession
<1>2. CASE reader.kind # "detail" /\ track # NONE
  <2>1. Goto("done", reader)
    BY <1>2 DEF FindSession
  <2>2. reader'.at = "done" /\ IsRequest(reader')
    BY <2>1, GotoType DEF PathInv, TypeOK
  <2> QED
    BY <1>1, <2>2 DEF PathInv, TypeOK, Served
<1>3. CASE ~(reader.kind # "detail" /\ track # NONE)
  <2> DEFINE rec == [reader EXCEPT !.row = Row]
  <2>1. Goto("points", rec)
    BY <1>3 DEF FindSession
  <2>2. IsRequest(rec) /\ rec.row = Row /\ rec.seen = reader.seen
    BY DEF PathInv, TypeOK, IsRequest
  <2> HIDE DEF rec
  <2>3. /\ reader'.at = "points" /\ reader'.row = Row /\ reader'.seen = reader.seen
        /\ IsRequest(reader')
    BY <2>1, <2>2, GotoType
  <2>4. IsRow(Row)
    BY RowNow DEF PathInv
  <2> QED
    BY <1>1, <2>3, <2>4 DEF PathInv, TypeOK, Served
<1> QED
  BY <1>2, <1>3

\* What is built of a run accounts for what was asked for.
LEMMA LoadPointsShows ==
  ASSUME NoneIsNoRun, PathInv, LoadPoints
  PROVE  /\ UNCHANGED <<positions, session, length, track>>
         /\ reader'.at \in {"path", "done"} /\ reader'.seen = reader.seen
         /\ reader'.built # NONE /\ PathIsSound(reader'.built, reader.seen)
         /\ IsRequest(reader')
<1> DEFINE built == Build(reader.row)
           rec == [reader EXCEPT !.built = built]
           at == IF reader.kind = "detail" THEN "path" ELSE "done"
<1>1. Goto(at, rec) /\ UNCHANGED <<positions, session, length, track>>
  BY DEF LoadPoints
<1>2. built # NONE /\ PathIsSound(built, reader.seen)
  BY BuildIsSound DEF LoadPoints, PathInv, TypeOK, Served
<1> HIDE DEF built
<1>3. IsRequest(rec) /\ rec.built = built /\ rec.seen = reader.seen
  BY DEF PathInv, TypeOK, IsRequest
<1>4. at \in {"path", "done"}
  OBVIOUS
<1> HIDE DEF rec, at
<1> QED
  BY <1>1, <1>2, <1>3, <1>4, GotoType

LEMMA LoadPointsKeeps ==
  ASSUME NoneIsNoRun, PathInv, LoadPoints PROVE PathInv'
BY LoadPointsShows DEF PathInv, TypeOK, Served

LEMMA LoadRoutePathShows ==
  ASSUME PathInv, LoadRoutePath
  PROVE  /\ UNCHANGED <<positions, session, length, track>>
         /\ reader'.at = "done" /\ reader'.built = reader.built
         /\ IsRequest(reader')
<1> DEFINE rec == [reader EXCEPT !.planned = length]
<1>1. Goto("done", rec) /\ UNCHANGED <<positions, session, length, track>>
  BY DEF LoadRoutePath
<1>2. IsRequest(rec) /\ rec.built = reader.built
  BY DEF PathInv, TypeOK, IsRequest
<1> HIDE DEF rec
<1> QED
  BY <1>1, <1>2, GotoType

LEMMA LoadRoutePathKeeps ==
  ASSUME PathInv, LoadRoutePath PROVE PathInv'
BY LoadRoutePathShows DEF PathInv, TypeOK, Served

LEMMA AnswerKeeps ==
  ASSUME PathInv, Answer PROVE PathInv'
BY DEF Answer, NoReader, PathInv, TypeOK, Served, IsRequest

LEMMA NextKeeps ==
  ASSUME NoneIsNoRun, Undisturbed, PathInv, [Next]_vars PROVE PathInv'
<1>1. CASE UNCHANGED vars
  BY <1>1, ReaderKeeps DEF vars, PathInv, TypeOK
<1>2. CASE Next
  BY <1>2, StoreFixKeeps, EndRunKeeps, RedrawKeeps, ArchiveKeeps, AskKeeps, FindArchivedKeeps,
     FindSessionKeeps, LoadPointsKeeps, LoadRoutePathKeeps, AnswerKeeps DEF Next
<1> QED
  BY <1>1, <1>2

\* What PathIsComplete says of a step.
ShowsAll ==
  /\ track = NONE /\ track' # NONE => PathIsSound(track'.built, ToSet(positions))
  /\ reader.at \in {"session", "points", "path"} /\ reader'.at = "done"
       /\ reader.kind # "live" =>
       reader'.built # NONE /\ PathIsSound(reader'.built, reader.seen)

LEMMA ArchiveShows ==
  ASSUME NoneIsNoRun, PathInv, Archive PROVE ShowsAll
<1>1. track'.built = Build(Row) /\ reader' = reader
  BY DEF Archive
<1>2. PathIsSound(Build(Row), ToSet(positions))
  BY BuildIsSound, RowNow DEF PathInv, TypeOK
<1> QED
  BY <1>1, <1>2 DEF ShowsAll

LEMMA StepShows ==
  ASSUME NoneIsNoRun, PathInv, [Next]_vars PROVE ShowsAll
<1>1. CASE \/ UNCHANGED vars
           \/ \E fix \in Fixes : StoreFix(fix)
           \/ \E t \in Ends : EndRun(t)
           \/ \E l \in Lengths : Redraw(l)
  BY <1>1 DEF vars, StoreFix, EndRun, Redraw, ShowsAll
<1>2. CASE Archive
  BY <1>2, ArchiveShows
<1>3. CASE \/ \E kind \in {"detail", "list", "live"} : Ask(kind)
           \/ FindArchived \/ Answer
  BY <1>3 DEF Ask, FindArchived, Answer, NoReader, ShowsAll
<1>4. CASE FindSession
  <2>1. reader.at = "session" /\ track' = track
    BY <1>4 DEF FindSession
  <2>2. CASE reader.kind # "detail" /\ track # NONE
    BY <2>1, <2>2 DEF PathInv, Served, ShowsAll
  <2>3. CASE ~(reader.kind # "detail" /\ track # NONE)
    <3>1. reader'.at = "points"
      BY <1>4, <2>3 DEF FindSession, Goto, PathInv, TypeOK, IsRequest
    <3> QED
      BY <2>1, <3>1 DEF ShowsAll
  <2> QED
    BY <2>2, <2>3
<1>5. CASE LoadPoints
  BY <1>5, LoadPointsShows DEF ShowsAll
<1>6. CASE LoadRoutePath
  BY <1>6, LoadRoutePathShows DEF LoadRoutePath, PathInv, Served, ShowsAll
<1> QED
  BY <1>1, <1>2, <1>3, <1>4, <1>5, <1>6 DEF Next

(* Everything that is archived of a run, and everything a reader is shown  *)
(* of it from the live tables, accounts for every fix there was.           *)
THEOREM PathsAreComplete ==
  NoneIsNoRun /\ Undisturbed => (Spec => PathIsComplete)
<1> SUFFICES ASSUME NoneIsNoRun, Undisturbed PROVE Spec => PathIsComplete
  OBVIOUS
<1>1. Init => PathInv
  BY PathInit
<1>2. PathInv /\ [Next]_vars => PathInv'
  BY NextKeeps
<1>3. PathInv /\ [Next]_vars => [ShowsAll]_vars
  BY StepShows
<1>4. [][ShowsAll]_vars => PathIsComplete
  BY DEF ShowsAll, PathIsComplete
<1> QED
  BY <1>1, <1>2, <1>3, <1>4, PTL DEF Spec

-----------------------------------------------------------------------------
(* Sums                                                                    *)

Picked(s) == CHOOSE x \in s : TRUE

\* What g is to be for Total(f) to be g at the domain S of f.
Adds(g, f, S) ==
  \A s \in SUBSET S : g[s] = IF s = {} THEN 0 ELSE f[Picked(s)] + g[s \ {Picked(s)}]

Summing(g, f, S) ==
  /\ IsFiniteSet(S) /\ f \in [S -> Int] /\ g \in [SUBSET S -> Int]
  /\ Adds(g, f, S)

LEMMA Rest ==
  ASSUME NEW s, s # {}, IsFiniteSet(s)
  PROVE  /\ Picked(s) \in s /\ IsFiniteSet(s \ {Picked(s)})
         /\ Cardinality(s) \in Nat \ {0}
         /\ Cardinality(s \ {Picked(s)}) = Cardinality(s) - 1
<1>1. Picked(s) \in s
  BY DEF Picked
<1>2. IsFiniteSet(s \ {Picked(s)}) /\ Cardinality(s \ {Picked(s)}) = Cardinality(s) - 1
  BY <1>1, FS_RemoveElement
<1>3. Cardinality(s) \in Nat
  BY FS_CardinalityType
<1>4. Cardinality(s) # 0
  BY FS_EmptySet
<1> QED
  BY <1>1, <1>2, <1>3, <1>4

LEMMA AddsExists ==
  ASSUME NEW S, IsFiniteSet(S), NEW f \in [S -> Int]
  PROVE  \E g \in [SUBSET S -> Int] : Adds(g, f, S)
<1> DEFINE n == Cardinality(S)
           AddsTo(g, k) ==
             /\ g \in [SUBSET S -> Int]
             /\ \A s \in SUBSET S : Cardinality(s) <= k =>
                  g[s] = IF s = {} THEN 0 ELSE f[Picked(s)] + g[s \ {Picked(s)}]
           done == {k \in 0..n : \E g : AddsTo(g, k)}
<1>1. n \in Nat
  BY FS_CardinalityType
<1>2. \A s \in SUBSET S : IsFiniteSet(s) /\ Cardinality(s) \in 0..n
  <2> SUFFICES ASSUME NEW s \in SUBSET S PROVE IsFiniteSet(s) /\ Cardinality(s) \in 0..n
    OBVIOUS
  <2>1. IsFiniteSet(s) /\ Cardinality(s) <= n
    BY FS_Subset
  <2>2. Cardinality(s) \in Nat
    BY <2>1, FS_CardinalityType
  <2> QED
    BY <1>1, <2>1, <2>2
<1>3. \A s \in SUBSET S : s # {} =>
        /\ Picked(s) \in s /\ s \ {Picked(s)} \in SUBSET S
        /\ Cardinality(s) # 0 /\ Cardinality(s \ {Picked(s)}) = Cardinality(s) - 1
  BY <1>2, Rest
<1> HIDE DEF n
<1>4. 0 \in done
  <2> DEFINE g == [s \in SUBSET S |-> 0]
  <2>1. AddsTo(g, 0)
    <3>1. \A s \in SUBSET S : Cardinality(s) <= 0 => s = {}
      <4>1. \A s \in SUBSET S : Cardinality(s) <= 0 => Cardinality(s) = 0
        BY <1>1, <1>2
      <4> QED
        BY <1>3, <4>1
    <3> QED
      BY <3>1
  <2>2. 0 \in 0..n
    BY <1>1
  <2> HIDE DEF AddsTo
  <2> QED
    BY <2>1, <2>2
<1>5. ASSUME NEW k \in 0..n - 1, k \in done PROVE k + 1 \in done
  <2>1. PICK g : AddsTo(g, k)
    BY <1>5
  <2> DEFINE h == [s \in SUBSET S |->
                     IF Cardinality(s) <= k THEN g[s]
                     ELSE f[Picked(s)] + g[s \ {Picked(s)}]]
  <2>2. \A s \in SUBSET S : ~(Cardinality(s) <= k) => s # {}
    <3>1. Cardinality({}) <= k
      BY FS_EmptySet
    <3> QED
      BY <3>1
  <2>3. h \in [SUBSET S -> Int]
    <3> SUFFICES ASSUME NEW s \in SUBSET S, ~(Cardinality(s) <= k)
                 PROVE  f[Picked(s)] + g[s \ {Picked(s)}] \in Int
      BY <2>1
    <3>1. Picked(s) \in S /\ s \ {Picked(s)} \in SUBSET S
      BY <1>3, <2>2
    <3>2. f[Picked(s)] \in Int /\ g[s \ {Picked(s)}] \in Int
      BY <2>1, <3>1
    <3> QED
      BY <3>2
  <2>4. \A s \in SUBSET S :
          h[s] = IF Cardinality(s) <= k THEN g[s] ELSE f[Picked(s)] + g[s \ {Picked(s)}]
    OBVIOUS
  <2> HIDE DEF h
  <2>5. ASSUME NEW s \in SUBSET S, Cardinality(s) <= k + 1, s # {}
        PROVE  h[s] = f[Picked(s)] + h[s \ {Picked(s)}]
    <3>1. s \ {Picked(s)} \in SUBSET S /\ Cardinality(s \ {Picked(s)}) <= k
      BY <1>1, <1>2, <1>3, <2>5
    <3>2. h[s \ {Picked(s)}] = g[s \ {Picked(s)}]
      BY <2>4, <3>1
    <3>3. CASE Cardinality(s) <= k
      BY <2>1, <2>4, <2>5, <3>2, <3>3
    <3>4. CASE ~(Cardinality(s) <= k)
      BY <2>4, <3>2, <3>4
    <3> QED
      BY <3>3, <3>4
  <2>6. h[{}] = 0
    <3>1. {} \in SUBSET S /\ Cardinality({}) <= k
      BY FS_EmptySet
    <3> QED
      BY <2>1, <2>4, <3>1
  <2>7. AddsTo(h, k + 1)
    BY <2>3, <2>5, <2>6
  <2>8. k + 1 \in 0..n
    BY <1>1
  <2> HIDE DEF AddsTo
  <2> QED
    BY <2>7, <2>8
<1> HIDE DEF done, AddsTo
<1>6. n \in done
  <2>1. \A k \in 0..n - 1 : k \in done => k + 1 \in done
    BY <1>5
  <2>2. 0..n \subseteq done
    BY <1>1, <1>4, <2>1, Climb
  <2> QED
    BY <1>1, <2>2
<1>7. PICK g : AddsTo(g, n)
  BY <1>6 DEF done
<1> QED
  BY <1>2, <1>7 DEF AddsTo, Adds

(* Induction on the number of elements: if a property of the subsets of a  *)
(* finite set holds of each when it holds of all the smaller ones, it      *)
(* holds of the set.                                                       *)
LEMMA Smaller ==
  ASSUME NEW S, IsFiniteSet(S), NEW Q \in SUBSET (SUBSET S),
         \A s \in SUBSET S :
           (\A t \in SUBSET S : Cardinality(t) < Cardinality(s) => t \in Q) => s \in Q
  PROVE  SUBSET S = Q
<1> DEFINE left == {Cardinality(s) : s \in (SUBSET S) \ Q}
<1> SUFFICES ASSUME (SUBSET S) \ Q # {} PROVE FALSE
  OBVIOUS
<1>1. \A s \in SUBSET S : Cardinality(s) \in Nat
  BY FS_Subset, FS_CardinalityType
<1>2. left \in SUBSET Nat /\ left # {}
  BY <1>1
<1>3. PICK c \in left : \A d \in left : c <= d
  BY <1>2, SmallestNumber
<1>4. PICK s \in (SUBSET S) \ Q : c = Cardinality(s)
  BY <1>3
<1>5. ASSUME NEW t \in SUBSET S, Cardinality(t) < Cardinality(s) PROVE t \in Q
  <2> SUFFICES ASSUME t \notin Q PROVE FALSE
    OBVIOUS
  <2>1. Cardinality(s) <= Cardinality(t)
    BY <1>3, <1>4
  <2> QED
    BY <1>1, <1>4, <1>5, <2>1
<1> QED
  BY <1>4, <1>5

LEMMA SameSum ==
  ASSUME NEW T, IsFiniteSet(T), NEW S, NEW R, T \subseteq S, T \subseteq R,
         NEW f, NEW g, NEW h, NEW k, Adds(g, f, S), Adds(k, h, R),
         \A x \in T : f[x] = h[x]
  PROVE  g[T] = k[T]
<1> DEFINE Q == {s \in SUBSET T : g[s] = k[s]}
<1>1. ASSUME NEW s \in SUBSET T,
             \A t \in SUBSET T : Cardinality(t) < Cardinality(s) => t \in Q
      PROVE  s \in Q
  <2>1. CASE s = {}
    BY <2>1 DEF Adds
  <2>2. CASE s # {}
    <3>1. IsFiniteSet(s)
      BY FS_Subset
    <3>2. /\ Picked(s) \in T /\ s \ {Picked(s)} \in SUBSET T
          /\ Cardinality(s \ {Picked(s)}) < Cardinality(s)
      BY <2>2, <3>1, Rest
    <3>3. g[s \ {Picked(s)}] = k[s \ {Picked(s)}]
      BY <1>1, <3>2
    <3>4. g[s] = f[Picked(s)] + g[s \ {Picked(s)}] /\ k[s] = h[Picked(s)] + k[s \ {Picked(s)}]
      BY <2>2 DEF Adds
    <3> QED
      BY <3>2, <3>3, <3>4
  <2> QED
    BY <2>1, <2>2
<1> HIDE DEF Q
<1>2. Q \in SUBSET (SUBSET T)
  BY DEF Q
<1>3. SUBSET T = Q
  BY <1>1, <1>2, Smaller
<1> QED
  BY <1>3 DEF Q

(* Any element may be the first one added. *)
LEMMA TakeAny ==
  ASSUME NEW S, NEW f, NEW g, Summing(g, f, S), NEW y \in S
  PROVE  g[S] = f[y] + g[S \ {y}]
<1> USE DEF Summing
<1> DEFINE Q == {s \in SUBSET S : \A x \in s : g[s] = f[x] + g[s \ {x}]}
<1>1. ASSUME NEW s \in SUBSET S,
             \A t \in SUBSET S : Cardinality(t) < Cardinality(s) => t \in Q,
             NEW x \in s
      PROVE  g[s] = f[x] + g[s \ {x}]
  <2> DEFINE c == Picked(s)
  <2>1. IsFiniteSet(s) /\ s # {}
    BY FS_Subset
  <2>2. c \in s /\ Cardinality(s \ {c}) < Cardinality(s)
    <3>1. c \in s /\ Cardinality(s) \in Nat /\ Cardinality(s \ {c}) = Cardinality(s) - 1
      BY <2>1, Rest
    <3> QED
      BY <3>1
  <2>3. g[s] = f[c] + g[s \ {c}]
    BY <2>1 DEF Adds
  <2>4. CASE x = c
    BY <2>3, <2>4
  <2>5. CASE x # c
    <3>1. Cardinality(s \ {x}) < Cardinality(s)
      <4>1. Cardinality(s \ {x}) = Cardinality(s) - 1
        BY <2>1, FS_RemoveElement
      <4>2. Cardinality(s) \in Nat
        BY <2>1, FS_CardinalityType
      <4> QED
        BY <4>1, <4>2
    <3> HIDE DEF c
    <3>2. s \ {c} \in Q /\ x \in s \ {c} /\ s \ {x} \in Q /\ c \in s \ {x}
      BY <1>1, <2>2, <2>5, <3>1
    <3>3. (s \ {c}) \ {x} = (s \ {x}) \ {c} /\ (s \ {x}) \ {c} \in SUBSET S
      OBVIOUS
    <3>4. g[s \ {c}] = f[x] + g[(s \ {x}) \ {c}]
      BY <3>2, <3>3
    <3>5. g[s \ {x}] = f[c] + g[(s \ {x}) \ {c}]
      BY <3>2
    <3>6. f[x] \in Int /\ f[c] \in Int /\ g[(s \ {x}) \ {c}] \in Int
      BY <2>2, <3>3
    <3> QED
      BY <2>3, <3>4, <3>5, <3>6
  <2> QED
    BY <2>4, <2>5
<1>2. \A s \in SUBSET S :
        (\A t \in SUBSET S : Cardinality(t) < Cardinality(s) => t \in Q) => s \in Q
  BY <1>1
<1> HIDE DEF Q
<1>3. Q \in SUBSET (SUBSET S)
  BY DEF Q
<1>4. SUBSET S = Q
  BY <1>2, <1>3, Smaller
<1> QED
  BY <1>4 DEF Q

LEMMA TotalAdds ==
  ASSUME NEW S, IsFiniteSet(S), NEW f \in [S -> Int]
  PROVE  \E g \in [SUBSET S -> Int] : Adds(g, f, S) /\ Total(f) = g[S]
<1> DEFINE Sums(g) == g = [s \in SUBSET S |->
                             IF s = {} THEN 0 ELSE f[Picked(s)] + g[s \ {Picked(s)}]]
           k == CHOOSE g : Sums(g)
<1>1. PICK g \in [SUBSET S -> Int] : Adds(g, f, S)
  BY AddsExists
<1>2. Sums(g)
  <2>1. g = [s \in SUBSET S |-> g[s]]
    OBVIOUS
  <2> QED
    BY <1>1, <2>1 DEF Adds
<1>3. Sums(k)
  BY <1>2
<1>4. Total(f) = k[S]
  BY DEF Total, FoldFunction, FoldFunctionOnSet, MapThenFoldSet, Picked
<1> HIDE DEF k
<1>5. Adds(k, f, S)
  BY <1>3 DEF Adds
<1>6. g[S] = k[S]
  BY <1>1, <1>5, SameSum
<1> QED
  BY <1>1, <1>4, <1>6

LEMMA TotalNothing ==
  ASSUME NEW f \in [{} -> Int]
  PROVE  Total(f) = 0
<1>1. PICK g \in [SUBSET {} -> Int] : Adds(g, f, {}) /\ Total(f) = g[{}]
  BY TotalAdds, FS_EmptySet
<1> QED
  BY <1>1 DEF Adds

LEMMA TotalInt ==
  ASSUME NEW S, IsFiniteSet(S), NEW f \in [S -> Int]
  PROVE  Total(f) \in Int
<1>1. PICK g \in [SUBSET S -> Int] : Adds(g, f, S) /\ Total(f) = g[S]
  BY TotalAdds
<1> QED
  BY <1>1

\* h has one more value than f, at x.
Extends(h, f, S, x) ==
  /\ IsFiniteSet(S) /\ x \notin S
  /\ f \in [S -> Int] /\ h \in [S \cup {x} -> Int]
  /\ \A y \in S : h[y] = f[y]

LEMMA TotalMore ==
  ASSUME NEW S, NEW x, NEW f, NEW h, Extends(h, f, S, x)
  PROVE  Total(h) = Total(f) + h[x]
<1> USE DEF Extends
<1> DEFINE R == S \cup {x}
<1>1. IsFiniteSet(R)
  BY FS_AddElement
<1>2. PICK g \in [SUBSET S -> Int] : Adds(g, f, S) /\ Total(f) = g[S]
  BY TotalAdds
<1>3. PICK k \in [SUBSET R -> Int] : Adds(k, h, R) /\ Total(h) = k[R]
  BY <1>1, TotalAdds
<1>4. k[R] = h[x] + k[R \ {x}]
  <2>1. h \in [R -> Int] /\ k \in [SUBSET R -> Int] /\ R \in SUBSET R /\ x \in R
    OBVIOUS
  <2> HIDE DEF R
  <2>2. Summing(k, h, R)
    BY <1>1, <1>3, <2>1 DEF Summing
  <2> QED
    BY <2>1, <2>2, TakeAny
<1>5. R \ {x} = S
  OBVIOUS
<1>6. S \subseteq S /\ S \subseteq R
  OBVIOUS
<1> HIDE DEF R
<1>7. k[S] = g[S]
  BY <1>2, <1>3, <1>6, SameSum
<1>8. k[R] = h[x] + k[S]
  BY <1>4, <1>5
<1>9. h[x] \in Int /\ g[S] \in Int
  BY DEF R
<1> QED
  BY <1>2, <1>3, <1>7, <1>8, <1>9

-----------------------------------------------------------------------------
(* Distances                                                               *)

LEMMA LengthInt ==
  ASSUME NEW points \in Seq(Fix), NEW i \in Nat \ {0}, NEW j \in Nat, j <= Len(points)
  PROVE  /\ Length(points, i, j) \in Int
         /\ j <= i => Length(points, i, j) = 0
         /\ i <= j /\ j < Len(points) =>
              Length(points, i, j + 1)
                = Length(points, i, j) + Distance(points[j], points[j + 1])
<1> DEFINE S == i + 1..j
           f == [k \in S |-> Distance(points[k - 1], points[k])]
<1>1. IsFiniteSet(S)
  BY FS_Interval
<1>2. \A k \in i + 1..Len(points) : Distance(points[k - 1], points[k]) \in Int
  <2> SUFFICES ASSUME NEW k \in i + 1..Len(points)
               PROVE  Distance(points[k - 1], points[k]) \in Int
    OBVIOUS
  <2>1. Len(points) \in Nat
    BY PointTypes
  <2>2. k \in 1..Len(points) /\ k - 1 \in 1..Len(points)
    BY <2>1
  <2>3. points[k] \in Fix /\ points[k - 1] \in Fix
    BY <2>2, PointTypes
  <2> QED
    BY <2>3, DistanceInt
<1>3. Len(points) \in Nat
  BY PointTypes
<1>4. f \in [S -> Int]
  BY <1>2, <1>3
<1>5. Length(points, i, j) = Total(f)
  BY DEF Length
<1>6. Total(f) \in Int
  <2> HIDE DEF f, S
  <2> QED
    BY <1>1, <1>4, TotalInt
<1>7. ASSUME j <= i PROVE Total(f) = 0
  <2>1. S = {}
    BY <1>7
  <2> HIDE DEF f, S
  <2>2. f \in [{} -> Int]
    BY <1>4, <2>1
  <2> QED
    BY <2>2, TotalNothing
<1>8. ASSUME i <= j, j < Len(points)
      PROVE  Length(points, i, j + 1) = Total(f) + Distance(points[j], points[j + 1])
  <2> DEFINE h == [k \in i + 1..j + 1 |-> Distance(points[k - 1], points[k])]
             x == j + 1
  <2>1. i + 1..j + 1 = S \cup {x} /\ x \notin S
    BY <1>8
  <2>2. h \in [i + 1..j + 1 -> Int] /\ \A y \in S : h[y] = f[y]
    BY <1>2, <1>3, <1>8
  <2>3. h[x] = Distance(points[j], points[j + 1])
    <3>1. x \in i + 1..j + 1 /\ x - 1 = j
      BY <1>8
    <3> QED
      BY <3>1
  <2>4. Length(points, i, j + 1) = Total(h)
    BY DEF Length
  <2> HIDE DEF f, h, S, x
  <2>5. h \in [S \cup {x} -> Int]
    BY <2>1, <2>2
  <2>6. Total(h) = Total(f) + h[x]
    <3>1. Extends(h, f, S, x)
      BY <1>1, <1>4, <2>1, <2>2, <2>5 DEF Extends
    <3> QED
      BY <3>1, TotalMore
  <2> QED
    BY <2>3, <2>4, <2>6
<1> HIDE DEF f, S
<1> QED
  BY <1>5, <1>6, <1>7, <1>8

-----------------------------------------------------------------------------
(* Stretches off the route                                                 *)

OffStretch == [startedAt: Nat, endedAt: Nat, distance: Int, max: Nat]
Measured == [distance: Int, offRouteDistance: Int, stretches: Seq(OffStretch),
             open: OrNone(OffStretch), prev: OrNone(Fix)]

Step(m, p) == IF m.prev = NONE THEN 0 ELSE Distance(m.prev, p)
Driven(m, p) == [m EXCEPT !.distance = @ + Step(m, p), !.prev = p]
Further(m, p) ==
  [m.open EXCEPT !.endedAt = p.at, !.distance = @ + Step(m, p), !.max = Greatest(@, p.off)]
Longer(m, p) ==
  [Driven(m, p) EXCEPT !.offRouteDistance = @ + Step(m, p), !.open = Further(m, p)]

LEMMA MeasureIs ==
  ASSUME NEW m, NEW p
  PROVE  Measure(m, p) =
           IF ~OffRoute(p) THEN Closed(Driven(m, p))
           ELSE IF m.open # NONE /\ CloseInTime(m.prev, p) THEN Longer(m, p)
           ELSE [Closed(Driven(m, p)) EXCEPT !.open = Stretch(p)]
BY DEF Measure, Step, Driven, Further, Longer

LEMMA MeasuredFields ==
  ASSUME NEW m \in Measured
  PROVE  /\ m.distance \in Int /\ m.offRouteDistance \in Int
         /\ m.stretches \in Seq(OffStretch)
         /\ m.open # NONE => m.open \in OffStretch
         /\ m.prev # NONE => m.prev \in Fix
BY DEF Measured, OrNone

LEMMA StepInt ==
  ASSUME NEW m \in Measured, NEW p \in Fix
  PROVE  Step(m, p) \in Int
BY MeasuredFields, DistanceInt DEF Step

LEMMA DrivenIs ==
  ASSUME NEW m \in Measured, NEW p \in Fix
  PROVE  LET d == Driven(m, p)
         IN  /\ d \in Measured
             /\ d.distance = m.distance + Step(m, p) /\ d.prev = p
             /\ d.offRouteDistance = m.offRouteDistance
             /\ d.stretches = m.stretches /\ d.open = m.open
<1> DEFINE sum == m.distance + Step(m, p)
           a == [m EXCEPT !.distance = sum]
           b == [a EXCEPT !.prev = p]
<1>1. Driven(m, p) = b
  BY DEF Driven
<1>2. sum \in Int
  BY StepInt, MeasuredFields
<1> HIDE DEF sum
<1>3. /\ a \in Measured /\ a.distance = sum
      /\ a.offRouteDistance = m.offRouteDistance
      /\ a.stretches = m.stretches /\ a.open = m.open
  BY <1>2 DEF Measured
<1> HIDE DEF a
<1>4. /\ b \in Measured /\ b.distance = sum /\ b.prev = p
      /\ b.offRouteDistance = m.offRouteDistance
      /\ b.stretches = m.stretches /\ b.open = m.open
  BY <1>3 DEF Measured, OrNone
<1> QED
  BY <1>1, <1>4 DEF sum

LEMMA FurtherIs ==
  ASSUME NEW m \in Measured, NEW p \in Fix, m.open # NONE, p.off \in Nat
  PROVE  LET d == Further(m, p)
         IN  /\ d \in OffStretch
             /\ d = [startedAt |-> m.open.startedAt, endedAt |-> p.at,
                     distance |-> m.open.distance + Step(m, p),
                     max |-> Greatest(m.open.max, p.off)]
<1> DEFINE o == m.open
           sum == o.distance + Step(m, p)
           top == Greatest(o.max, p.off)
           a == [o EXCEPT !.endedAt = p.at]
           b == [a EXCEPT !.distance = sum]
           c == [b EXCEPT !.max = top]
<1>1. o \in OffStretch /\ p.at \in Nat /\ Step(m, p) \in Int
  BY MeasuredFields, StepInt DEF Fix
<1>2. sum \in Int /\ top \in Nat
  BY <1>1 DEF OffStretch, Greatest
<1>3. a \in OffStretch /\ a.startedAt = o.startedAt /\ a.endedAt = p.at
      /\ a.distance = o.distance /\ a.max = o.max
  BY <1>1 DEF OffStretch
<1>4. Further(m, p) = c
  <2>1. Further(m, p) = [[[o EXCEPT !.endedAt = p.at] EXCEPT !.distance = @ + Step(m, p)]
                           EXCEPT !.max = Greatest(@, p.off)]
    BY DEF Further
  <2>2. a.distance + Step(m, p) = sum
    BY <1>3
  <2>3. Further(m, p) = [b EXCEPT !.max = Greatest(@, p.off)]
    BY <2>1, <2>2
  <2> HIDE DEF a
  <2>4. b.max = o.max
    BY <1>3, <1>2 DEF OffStretch
  <2> QED
    BY <2>3, <2>4
<1> HIDE DEF a, sum, top, o
<1>5. b \in OffStretch /\ b.startedAt = o.startedAt /\ b.endedAt = p.at
      /\ b.distance = sum
  BY <1>2, <1>3 DEF OffStretch
<1> HIDE DEF b
<1>6. c \in OffStretch
      /\ c = [startedAt |-> o.startedAt, endedAt |-> p.at, distance |-> sum, max |-> top]
  BY <1>2, <1>5 DEF OffStretch
<1> QED
  BY <1>4, <1>6 DEF o, sum, top

LEMMA LongerIs ==
  ASSUME NEW m \in Measured, NEW p \in Fix, m.open # NONE, p.off \in Nat
  PROVE  LET d == Longer(m, p)
         IN  /\ d \in Measured
             /\ d.distance = m.distance + Step(m, p) /\ d.prev = p
             /\ d.offRouteDistance = m.offRouteDistance + Step(m, p)
             /\ d.stretches = m.stretches /\ d.open = Further(m, p)
<1> DEFINE d == Driven(m, p)
           sum == m.offRouteDistance + Step(m, p)
           a == [d EXCEPT !.offRouteDistance = sum]
           f == Further(m, p)
           b == [a EXCEPT !.open = f]
<1>1. /\ d \in Measured
      /\ d.distance = m.distance + Step(m, p) /\ d.prev = p
      /\ d.offRouteDistance = m.offRouteDistance
      /\ d.stretches = m.stretches
  BY DrivenIs
<1>2. Longer(m, p) = b
  BY <1>1 DEF Longer
<1>3. sum \in Int /\ f \in OffStretch
  BY StepInt, MeasuredFields, FurtherIs
<1> HIDE DEF sum, d, f
<1>4. /\ a \in Measured /\ a.distance = d.distance /\ a.prev = d.prev
      /\ a.offRouteDistance = sum /\ a.stretches = d.stretches
  BY <1>1, <1>3 DEF Measured
<1> HIDE DEF a
<1>5. /\ b \in Measured /\ b.distance = d.distance /\ b.prev = d.prev
      /\ b.offRouteDistance = sum /\ b.stretches = d.stretches /\ b.open = f
  BY <1>3, <1>4 DEF Measured, OrNone
<1> HIDE DEF b
<1> QED
  BY <1>1, <1>2, <1>5 DEF sum, f

LEMMA ClosedIs ==
  ASSUME NEW m \in Measured
  PROVE  LET d == Closed(m)
         IN  /\ d \in Measured /\ d.open = NONE
             /\ d.distance = m.distance /\ d.prev = m.prev
             /\ d.offRouteDistance = m.offRouteDistance
             /\ d.stretches = IF m.open = NONE THEN m.stretches
                              ELSE Append(m.stretches, m.open)
<1>1. CASE m.open = NONE
  BY <1>1 DEF Closed
<1>2. CASE m.open # NONE
  <2> DEFINE more == Append(m.stretches, m.open)
             a == [m EXCEPT !.stretches = more]
             b == [a EXCEPT !.open = NONE]
  <2>1. Closed(m) = b
    BY <1>2 DEF Closed
  <2>2. more \in Seq(OffStretch)
    BY <1>2, MeasuredFields
  <2> HIDE DEF more
  <2>3. /\ a \in Measured /\ a.distance = m.distance /\ a.prev = m.prev
        /\ a.offRouteDistance = m.offRouteDistance /\ a.stretches = more
    BY <2>2 DEF Measured
  <2> HIDE DEF a
  <2>4. /\ b \in Measured /\ b.open = NONE
        /\ b.distance = m.distance /\ b.prev = m.prev
        /\ b.offRouteDistance = m.offRouteDistance /\ b.stretches = more
    BY <2>3 DEF Measured, OrNone
  <2> QED
    BY <1>2, <2>1, <2>4 DEF more
<1> QED
  BY <1>1, <1>2

LEMMA BegunIs ==
  ASSUME NEW m \in Measured, NEW p \in Fix, p.off \in Nat
  PROVE  LET d == [m EXCEPT !.open = Stretch(p)]
         IN  /\ Stretch(p) \in OffStretch /\ d \in Measured /\ d.open = Stretch(p)
             /\ d.distance = m.distance /\ d.prev = m.prev
             /\ d.offRouteDistance = m.offRouteDistance /\ d.stretches = m.stretches
<1>1. Stretch(p) \in OffStretch
  BY DEF Stretch, OffStretch, Fix
<1> QED
  BY <1>1 DEF Measured, OrNone

LEMMA MeasureType ==
  ASSUME NEW m \in Measured, NEW p \in Fix
  PROVE  Measure(m, p) \in Measured
<1>1. Closed(Driven(m, p)) \in Measured
  BY DrivenIs, ClosedIs
<1>2. OffRoute(p) => p.off \in Nat
  BY DEF OffRoute, Fix, OrNone
<1>3. CASE ~OffRoute(p)
  BY <1>1, <1>3, MeasureIs
<1>4. CASE OffRoute(p) /\ m.open # NONE /\ CloseInTime(m.prev, p)
  BY <1>2, <1>4, LongerIs, MeasureIs
<1>5. CASE OffRoute(p) /\ ~(m.open # NONE /\ CloseInTime(m.prev, p))
  BY <1>1, <1>2, <1>5, BegunIs, MeasureIs
<1> QED
  BY <1>3, <1>4, <1>5

-----------------------------------------------------------------------------
\* Where the loop of computeTrackMetrics begins.
NothingMeasured == [distance |-> 0, offRouteDistance |-> 0, stretches |-> <<>>,
                    open |-> NONE, prev |-> NONE]

(* What is measured is the last of the values that begin with nothing and  *)
(* take one point at a time.                                               *)
LEMMA MeasureFolds ==
  ASSUME NEW points \in Seq(Fix), NEW n \in Nat, DOMAIN points = 1..n
  PROVE  \E acc : /\ acc[0] = NothingMeasured
                  /\ \A k \in 1..n : acc[k] = Measure(acc[k - 1], points[k])
                  /\ FoldLeft(Measure, NothingMeasured, points) = acc[n]
<1> DEFINE Folds(g) == g = [s \in SUBSET (1..n) |->
                              IF s = {} THEN NothingMeasured
                              ELSE Measure(g[s \ {Max(s)}], points[Max(s)])]
           g == CHOOSE f : Folds(f)
           acc == [k \in 0..n |-> g[1..k]]
<1>1. \E f : Folds(f)
  <2> DEFINE step == [i \in 1..n |-> [a \in Measured |-> Measure(a, points[i])]]
  <2>1. \A i \in 1..n : points[i] \in Fix
    OBVIOUS
  <2>2. NothingMeasured \in Measured
    BY DEF NothingMeasured, Measured, OrNone
  <2>3. step \in [1..n -> [Measured -> Measured]]
    BY <2>1, MeasureType
  <2>4. \A i \in 1..n : \A a \in Measured : step[i][a] = Measure(a, points[i])
    OBVIOUS
  <2> HIDE DEF step
  <2>5. PICK f : FoldsTo(f, Measured, NothingMeasured, step, n)
    BY <2>2, <2>3, FoldExists
  <2>6. ASSUME NEW s \in SUBSET (1..n), s # {}
        PROVE  f[s] = Measure(f[s \ {Max(s)}], points[Max(s)])
    <3>1. Max(s) \in 1..n /\ s \ {Max(s)} \in SUBSET (1..n)
      BY <2>6, MaxExists
    <3> QED
      BY <2>4, <2>5, <2>6, <3>1 DEF FoldsTo
  <2>7. Folds(f)
    BY <2>5, <2>6 DEF FoldsTo
  <2> QED
    BY <2>7
<1>2. Folds(g)
  BY <1>1
<1>3. FoldLeft(Measure, NothingMeasured, points) = g[1..n]
  BY DEF FoldLeft, MapThenFoldSet
<1> HIDE DEF g
<1>4. g[{}] = NothingMeasured /\ \A s \in SUBSET (1..n) :
        s # {} => g[s] = Measure(g[s \ {Max(s)}], points[Max(s)])
  BY <1>2
<1>5. acc[0] = NothingMeasured /\ acc[n] = g[1..n]
  <2>1. 1..0 = {}
    OBVIOUS
  <2> QED
    BY <1>4, <2>1
<1>6. ASSUME NEW k \in 1..n PROVE acc[k] = Measure(acc[k - 1], points[k])
  <2>1. acc[k] = g[1..k] /\ acc[k - 1] = g[1..k - 1]
    OBVIOUS
  <2>2. /\ 1..k \in SUBSET (1..n) /\ 1..k # {} /\ Max(1..k) = k
        /\ (1..k) \ {Max(1..k)} = 1..k - 1
    BY PrefixMax
  <2>3. g[1..k] = Measure(g[1..k - 1], points[k])
    BY <1>4, <2>2
  <2> HIDE DEF acc
  <2> QED
    BY <2>1, <2>3
<1> HIDE DEF acc
<1> QED
  BY <1>3, <1>5, <1>6


(* Off the route and connected from i to j, and not connected to the point *)
(* before i.                                                               *)
IsRun(points, i, j) ==
  i <= j /\ OffRoute(points[i]) /\ ~Joined(points, i) /\ \A k \in i + 1..j : Joined(points, k)

\* The stretches of the first k points; those that are over when the next one is seen.
Pieces(points, k) ==
  {s \in (1..k) \X (1..k) :
     IsRun(points, s[1], s[2]) /\ (s[2] = k \/ ~Joined(points, s[2] + 1))}
Over(points, k) ==
  {s \in (1..k) \X (1..k) :
     IsRun(points, s[1], s[2]) /\ s[2] < k /\ ~Joined(points, s[2] + 1)}

IsTop(points, i, j, n) ==
  n \in {points[k].off : k \in i..j} /\ \A k \in i..j : points[k].off <= n
TopOff(points, i, j) ==
  CHOOSE n \in {points[k].off : k \in i..j} : \A k \in i..j : points[k].off <= n

\* What the history says of the stretch from i to j.
Said(points, i, j) ==
  [startedAt |-> points[i].at, endedAt |-> points[j].at,
   distance |-> Length(points, i, j), max |-> TopOff(points, i, j)]

LengthOf(points, S) == Total([s \in S |-> Length(points, s[1], s[2])])

LEMMA RunIsOff ==
  ASSUME NEW points \in Seq(Fix), NEW i \in 1..Len(points), NEW j \in 1..Len(points),
         IsRun(points, i, j)
  PROVE  \A k \in i..j : OffRoute(points[k]) /\ points[k].off \in Nat
<1> SUFFICES ASSUME NEW k \in i..j
             PROVE  OffRoute(points[k]) /\ points[k].off \in Nat
  OBVIOUS
<1>1. Len(points) \in Nat /\ k \in 1..Len(points) /\ points[k] \in Fix
  BY PointTypes
<1>2. OffRoute(points[k])
  <2>1. CASE k = i
    BY <2>1 DEF IsRun
  <2>2. CASE k # i
    <3>1. k \in i + 1..j
      BY <2>2
    <3> QED
      BY <3>1 DEF IsRun, Joined
  <2> QED
    BY <2>1, <2>2
<1> QED
  BY <1>1, <1>2 DEF OffRoute, Fix, OrNone

LEMMA OneStart ==
  ASSUME NEW points \in Seq(Fix), NEW h \in 1..Len(points), NEW i \in 1..Len(points),
         NEW j \in 1..Len(points), IsRun(points, h, j), IsRun(points, i, j)
  PROVE  h = i
<1>1. Len(points) \in Nat
  BY PointTypes
<1>2. CASE h < i
  <2>1. i \in h + 1..j
    BY <1>2 DEF IsRun
  <2> QED
    BY <2>1 DEF IsRun
<1>3. CASE i < h
  <2>1. h \in i + 1..j
    BY <1>3 DEF IsRun
  <2> QED
    BY <2>1 DEF IsRun
<1> QED
  BY <1>2, <1>3

LEMMA TopIs ==
  ASSUME NEW points, NEW i, NEW j, NEW n \in Nat, IsTop(points, i, j, n),
         \A k \in i..j : points[k].off \in Nat
  PROVE  TopOff(points, i, j) = n
<1> DEFINE offs == {points[k].off : k \in i..j}
<1>1. n \in offs /\ \A m \in offs : m <= n /\ m \in Nat
  BY DEF IsTop
<1>2. TopOff(points, i, j) = CHOOSE m \in offs : \A k \in i..j : points[k].off <= m
  BY DEF TopOff
<1>3. \A m \in offs : (\A k \in i..j : points[k].off <= m) => m = n
  <2> SUFFICES ASSUME NEW m \in offs, \A k \in i..j : points[k].off <= m PROVE m = n
    OBVIOUS
  <2>1. n <= m
    BY <1>1
  <2> QED
    BY <1>1, <2>1
<1>4. \A k \in i..j : points[k].off <= n
  BY DEF IsTop
<1> QED
  BY <1>1, <1>2, <1>3, <1>4

LEMMA PiecesFinite ==
  ASSUME NEW points \in Seq(Fix), NEW k \in 0..Len(points)
  PROVE  /\ IsFiniteSet(Pieces(points, k)) /\ IsFiniteSet(Over(points, k))
         /\ [s \in Pieces(points, k) |-> Length(points, s[1], s[2])]
              \in [Pieces(points, k) -> Int]
         /\ [s \in Over(points, k) |-> Length(points, s[1], s[2])] \in [Over(points, k) -> Int]
<1>1. Len(points) \in Nat /\ k \in Nat
  BY PointTypes
<1>2. IsFiniteSet((1..k) \X (1..k))
  <2>1. IsFiniteSet(1..k)
    BY <1>1, FS_Interval
  <2> QED
    BY <2>1, FS_Product
<1>3. Pieces(points, k) \subseteq (1..k) \X (1..k) /\ Over(points, k) \subseteq (1..k) \X (1..k)
  BY DEF Pieces, Over
<1>4. \A s \in (1..k) \X (1..k) : Length(points, s[1], s[2]) \in Int
  <2> SUFFICES ASSUME NEW i \in 1..k, NEW j \in 1..k PROVE Length(points, i, j) \in Int
    OBVIOUS
  <2>1. i \in Nat \ {0} /\ j \in Nat /\ j <= Len(points)
    BY <1>1
  <2> QED
    BY <2>1, LengthInt
<1>5. IsFiniteSet(Pieces(points, k)) /\ IsFiniteSet(Over(points, k))
  BY <1>2, <1>3, FS_Subset
<1> QED
  BY <1>3, <1>4, <1>5

LEMMA LengthOfInt ==
  ASSUME NEW points \in Seq(Fix), NEW k \in 0..Len(points)
  PROVE  LengthOf(points, Pieces(points, k)) \in Int /\ LengthOf(points, Over(points, k)) \in Int
<1> DEFINE f == [s \in Pieces(points, k) |-> Length(points, s[1], s[2])]
           g == [s \in Over(points, k) |-> Length(points, s[1], s[2])]
<1>1. /\ IsFiniteSet(Pieces(points, k)) /\ IsFiniteSet(Over(points, k))
      /\ f \in [Pieces(points, k) -> Int] /\ g \in [Over(points, k) -> Int]
  BY PiecesFinite
<1>2. LengthOf(points, Pieces(points, k)) = Total(f)
      /\ LengthOf(points, Over(points, k)) = Total(g)
  BY DEF LengthOf
<1> HIDE DEF f, g
<1> QED
  BY <1>1, <1>2, TotalInt

AlikeOn(A, B, R) ==
  /\ A \subseteq R \X R /\ B \subseteq R \X R
  /\ \A i, j \in R : <<i, j>> \in A <=> <<i, j>> \in B

LEMMA SamePairs ==
  ASSUME NEW R, NEW A, NEW B, AlikeOn(A, B, R)
  PROVE  A = B
<1> USE DEF AlikeOn
<1>1. \A s \in R \X R : s[1] \in R /\ s[2] \in R /\ s = <<s[1], s[2]>>
  OBVIOUS
<1>2. \A s \in R \X R : s \in A <=> s \in B
  BY <1>1
<1> QED
  BY <1>2

(* What is over when the next point is seen: all the stretches so far, or  *)
(* all but the one that goes on.                                           *)
LEMMA OverNext ==
  ASSUME NEW points \in Seq(Fix), NEW k \in Nat, k < Len(points)
  PROVE  /\ ~Joined(points, k + 1) => Over(points, k + 1) = Pieces(points, k)
         /\ Joined(points, k + 1) => Over(points, k + 1) = Over(points, k)
<1>1. Len(points) \in Nat
  BY PointTypes
<1>2. ASSUME ~Joined(points, k + 1)
      PROVE  Over(points, k + 1) = Pieces(points, k)
  <2>1. ASSUME NEW i \in 1..k + 1, NEW j \in 1..k + 1
        PROVE  <<i, j>> \in Over(points, k + 1) <=> <<i, j>> \in Pieces(points, k)
    <3>1. <<i, j>> \in Over(points, k + 1) <=>
            IsRun(points, i, j) /\ j < k + 1 /\ ~Joined(points, j + 1)
      BY DEF Over
    <3>2. <<i, j>> \in Pieces(points, k) <=>
            i <= k /\ j <= k /\ IsRun(points, i, j) /\ (j = k \/ ~Joined(points, j + 1))
      BY DEF Pieces
    <3>3. IsRun(points, i, j) => i <= j
      BY DEF IsRun
    <3> QED
      BY <1>2, <3>1, <3>2, <3>3
  <2>2. Over(points, k + 1) \subseteq (1..k + 1) \X (1..k + 1)
        /\ Pieces(points, k) \subseteq (1..k + 1) \X (1..k + 1)
    BY DEF Over, Pieces
  <2>3. AlikeOn(Over(points, k + 1), Pieces(points, k), 1..k + 1)
    BY <2>1, <2>2 DEF AlikeOn
  <2> QED
    BY <2>3, SamePairs
<1>3. ASSUME Joined(points, k + 1)
      PROVE  Over(points, k + 1) = Over(points, k)
  <2>1. ASSUME NEW i \in 1..k + 1, NEW j \in 1..k + 1
        PROVE  <<i, j>> \in Over(points, k + 1) <=> <<i, j>> \in Over(points, k)
    <3>1. <<i, j>> \in Over(points, k + 1) <=>
            IsRun(points, i, j) /\ j < k + 1 /\ ~Joined(points, j + 1)
      BY DEF Over
    <3>2. <<i, j>> \in Over(points, k) <=>
            i <= k /\ j <= k /\ IsRun(points, i, j) /\ j < k /\ ~Joined(points, j + 1)
      BY DEF Over
    <3>3. IsRun(points, i, j) => i <= j
      BY DEF IsRun
    <3> QED
      BY <1>3, <3>1, <3>2, <3>3
  <2>2. Over(points, k + 1) \subseteq (1..k + 1) \X (1..k + 1)
        /\ Over(points, k) \subseteq (1..k + 1) \X (1..k + 1)
    BY DEF Over
  <2>3. AlikeOn(Over(points, k + 1), Over(points, k), 1..k + 1)
    BY <2>1, <2>2 DEF AlikeOn
  <2> QED
    BY <2>3, SamePairs
<1> QED
  BY <1>2, <1>3

\* null is neither a point nor a stretch.
NoneIsNull == NONE \notin Fix /\ NONE \notin OffStretch

LEMMA AppendSet ==
  ASSUME NEW T, NEW seq \in Seq(T), NEW e \in T
  PROVE  ToSet(Append(seq, e)) = ToSet(seq) \cup {e}
<1> DEFINE more == Append(seq, e)
           n == Len(seq)
<1>1. n \in Nat /\ DOMAIN seq = 1..n /\ DOMAIN more = 1..n + 1
      /\ (\A i \in 1..n : more[i] = seq[i]) /\ more[n + 1] = e
  OBVIOUS
<1> HIDE DEF more, n
<1>2. \A i \in DOMAIN more : (i \in DOMAIN seq /\ more[i] = seq[i]) \/ more[i] = e
  BY <1>1
<1>3. n + 1 \in DOMAIN more /\ \A i \in DOMAIN seq : i \in DOMAIN more /\ more[i] = seq[i]
  BY <1>1
<1> QED
  BY <1>1, <1>2, <1>3 DEF ToSet, more

(* A stretch is open when the last point is off the route.                 *)
LEMMA PiecesOpen ==
  ASSUME NEW points \in Seq(Fix), NEW k \in 0..Len(points)
  PROVE  /\ k = 0 \/ ~OffRoute(points[k]) => Pieces(points, k) = Over(points, k)
         /\ \A i \in 1..k : IsRun(points, i, k) =>
              /\ Pieces(points, k) = Over(points, k) \cup {<<i, k>>}
              /\ <<i, k>> \notin Over(points, k)
<1>1. Len(points) \in Nat /\ k \in Nat
  BY PointTypes
<1>2. ASSUME NEW h \in 1..k, NEW j \in 1..k
      PROVE  /\ <<h, j>> \in Pieces(points, k) <=>
                  IsRun(points, h, j) /\ (j = k \/ ~Joined(points, j + 1))
             /\ <<h, j>> \in Over(points, k) <=>
                  IsRun(points, h, j) /\ j < k /\ ~Joined(points, j + 1)
  BY DEF Pieces, Over
<1>3. Pieces(points, k) \subseteq (1..k) \X (1..k) /\ Over(points, k) \subseteq (1..k) \X (1..k)
  BY DEF Pieces, Over
<1>4. ASSUME k = 0 \/ ~OffRoute(points[k]) PROVE Pieces(points, k) = Over(points, k)
  <2>1. ASSUME NEW h \in 1..k, NEW j \in 1..k, IsRun(points, h, j) PROVE j < k
    <3>1. h \in 1..Len(points) /\ j \in 1..Len(points)
      BY <1>1
    <3>2. j \in h..j
      BY <2>1 DEF IsRun
    <3>3. OffRoute(points[j])
      BY <2>1, <3>1, <3>2, RunIsOff
    <3> QED
      BY <1>1, <1>4, <3>3
  <2>2. AlikeOn(Pieces(points, k), Over(points, k), 1..k)
    BY <1>1, <1>2, <1>3, <2>1 DEF AlikeOn
  <2> QED
    BY <2>2, SamePairs
<1>5. ASSUME NEW i \in 1..k, IsRun(points, i, k)
      PROVE  /\ Pieces(points, k) = Over(points, k) \cup {<<i, k>>}
             /\ <<i, k>> \notin Over(points, k)
  <2>1. k \in 1..k /\ k \in 1..Len(points) /\ 1..k \subseteq 1..Len(points)
    BY <1>1
  <2>2. \A h \in 1..k : IsRun(points, h, k) => h = i
    BY <1>5, <2>1, OneStart
  <2>3. ASSUME NEW h \in 1..k, NEW j \in 1..k
        PROVE  <<h, j>> \in Pieces(points, k) <=>
                 <<h, j>> \in Over(points, k) \/ (h = i /\ j = k)
    <3>1. CASE j = k
      <4>1. <<h, j>> \in Pieces(points, k) <=> IsRun(points, h, k)
        BY <1>2, <3>1
      <4>2. <<h, j>> \notin Over(points, k)
        BY <1>1, <1>2, <3>1
      <4>3. IsRun(points, h, k) <=> h = i
        BY <1>5, <2>2
      <4> QED
        BY <3>1, <4>1, <4>2, <4>3
    <3>2. CASE j # k
      <4>1. j < k
        BY <3>2
      <4> QED
        BY <1>2, <3>2, <4>1
    <3> QED
      BY <3>1, <3>2
  <2>4. \A h, j \in 1..k : <<h, j>> \in {<<i, k>>} <=> h = i /\ j = k
    OBVIOUS
  <2>5. AlikeOn(Pieces(points, k), Over(points, k) \cup {<<i, k>>}, 1..k)
    BY <1>3, <2>1, <2>3, <2>4 DEF AlikeOn
  <2>6. Pieces(points, k) = Over(points, k) \cup {<<i, k>>}
    BY <2>5, SamePairs
  <2>7. <<i, k>> \notin Over(points, k)
    BY <1>1, <1>2, <2>1
  <2> QED
    BY <2>6, <2>7
<1> QED
  BY <1>4, <1>5

SaidOf(points, S) == {Said(points, s[1], s[2]) : s \in S}

(* What has been said of the stretches after k points.                     *)
Stretched(points, k, m) ==
  /\ m \in Measured
  /\ ToSet(m.stretches) = SaidOf(points, Over(points, k))
  /\ m.open = NONE <=> k = 0 \/ ~OffRoute(points[k])
  /\ m.open # NONE => \E i \in 1..k : /\ IsRun(points, i, k)
                                      /\ IsTop(points, i, k, m.open.max)
                                      /\ m.open = Said(points, i, k)
  /\ m.offRouteDistance = LengthOf(points, Over(points, k))
                            + (IF m.open = NONE THEN 0 ELSE m.open.distance)

LEMMA ClosedSays ==
  ASSUME NEW points \in Seq(Fix), NEW k \in 0..Len(points), NEW m, Stretched(points, k, m)
  PROVE  LET d == Closed(m)
         IN  /\ d \in Measured /\ d.open = NONE
             /\ d.distance = m.distance /\ d.prev = m.prev
             /\ ToSet(d.stretches) = SaidOf(points, Pieces(points, k))
             /\ d.offRouteDistance = LengthOf(points, Pieces(points, k))
<1> DEFINE d == Closed(m)
<1>1. /\ d \in Measured /\ d.open = NONE
      /\ d.distance = m.distance /\ d.prev = m.prev
      /\ d.offRouteDistance = m.offRouteDistance
      /\ d.stretches = IF m.open = NONE THEN m.stretches ELSE Append(m.stretches, m.open)
  BY ClosedIs DEF Stretched
<1> HIDE DEF d
<1>2. LengthOf(points, Over(points, k)) \in Int
  BY LengthOfInt
<1>3. CASE m.open = NONE
  <2>1. Pieces(points, k) = Over(points, k)
    BY <1>3, PiecesOpen DEF Stretched
  <2> QED
    BY <1>1, <1>2, <1>3, <2>1 DEF Stretched, d
<1>4. CASE m.open # NONE
  <2>1. PICK i \in 1..k : IsRun(points, i, k) /\ m.open = Said(points, i, k)
    BY <1>4 DEF Stretched
  <2>2. /\ Pieces(points, k) = Over(points, k) \cup {<<i, k>>}
        /\ <<i, k>> \notin Over(points, k)
    BY <2>1, PiecesOpen
  <2>3. ToSet(d.stretches) = ToSet(m.stretches) \cup {Said(points, i, k)}
    <3>1. m.stretches \in Seq(OffStretch) /\ m.open \in OffStretch
      BY <1>4, MeasuredFields DEF Stretched
    <3> QED
      BY <1>1, <1>4, <2>1, <3>1, AppendSet
  <2>4. ToSet(d.stretches) = SaidOf(points, Pieces(points, k))
    BY <2>2, <2>3 DEF Stretched, SaidOf
  <2>5. LengthOf(points, Pieces(points, k))
          = LengthOf(points, Over(points, k)) + Length(points, i, k)
    <3> DEFINE f == [s \in Over(points, k) |-> Length(points, s[1], s[2])]
               h == [s \in Pieces(points, k) |-> Length(points, s[1], s[2])]
               x == <<i, k>>
    <3>1. IsFiniteSet(Over(points, k)) /\ f \in [Over(points, k) -> Int]
          /\ h \in [Pieces(points, k) -> Int]
      BY PiecesFinite
    <3>2. h[x] = Length(points, i, k) /\ \A y \in Over(points, k) : h[y] = f[y]
      BY <2>2
    <3>3. LengthOf(points, Pieces(points, k)) = Total(h)
          /\ LengthOf(points, Over(points, k)) = Total(f)
      BY DEF LengthOf
    <3> HIDE DEF f, h, x
    <3>4. Extends(h, f, Over(points, k), x)
      BY <2>2, <3>1, <3>2 DEF Extends, x
    <3>5. Total(h) = Total(f) + h[x]
      BY <3>4, TotalMore
    <3> QED
      BY <3>2, <3>3, <3>5
  <2>6. m.open.distance = Length(points, i, k)
    BY <2>1 DEF Said
  <2> QED
    BY <1>1, <1>4, <2>4, <2>5, <2>6 DEF Stretched, d
<1> QED
  BY <1>3, <1>4

MeasuredTo(points, k, m) ==
  /\ Stretched(points, k, m)
  /\ m.prev = IF k = 0 THEN NONE ELSE points[k]
  /\ m.distance = Length(points, 1, k)

LEMMA MeasureStart ==
  ASSUME NEW points \in Seq(Fix)
  PROVE  MeasuredTo(points, 0, NothingMeasured)
<1>1. NothingMeasured \in Measured
  BY DEF NothingMeasured, Measured, OrNone
<1>2. Over(points, 0) = {} /\ LengthOf(points, Over(points, 0)) = 0
  <2> DEFINE S == Over(points, 0)
             f == [s \in S |-> Length(points, s[1], s[2])]
  <2>1. S = {}
    BY DEF Over
  <2>2. LengthOf(points, S) = Total(f)
    BY DEF LengthOf
  <2>3. f \in [{} -> Int]
    BY <2>1
  <2> HIDE DEF f
  <2> QED
    BY <2>1, <2>2, <2>3, TotalNothing
<1>3. Length(points, 1, 0) = 0
  <2>1. 0 <= Len(points)
    BY PointTypes
  <2> QED
    BY <2>1, LengthInt
<1>4. ToSet(<<>>) = {} /\ SaidOf(points, {}) = {}
  BY DEF ToSet, SaidOf
<1>5. /\ NothingMeasured.distance = 0 /\ NothingMeasured.offRouteDistance = 0
      /\ NothingMeasured.stretches = <<>>
      /\ NothingMeasured.open = NONE /\ NothingMeasured.prev = NONE
  BY DEF NothingMeasured
<1>6. Stretched(points, 0, NothingMeasured)
  <2> DEFINE m == NothingMeasured
  <2>1. m \in Measured /\ m.open = NONE /\ m.stretches = <<>> /\ m.offRouteDistance = 0
    BY <1>1, <1>5
  <2> HIDE DEF m
  <2>2. ToSet(m.stretches) = SaidOf(points, Over(points, 0))
    BY <1>2, <1>4, <2>1
  <2>3. m.offRouteDistance = LengthOf(points, Over(points, 0))
                               + (IF m.open = NONE THEN 0 ELSE m.open.distance)
    BY <1>2, <2>1
  <2>4. Stretched(points, 0, m)
    BY <2>1, <2>2, <2>3, Zenon DEF Stretched
  <2> QED
    BY <2>4 DEF m
<1> QED
  BY <1>3, <1>5, <1>6 DEF MeasuredTo

LEMMA DrivenSays ==
  ASSUME NEW points \in Seq(Fix), NEW k \in Nat, NEW m, NoneIsNull,
         k < Len(points), MeasuredTo(points, k, m)
  PROVE  LET p == points[k + 1]
             d == Driven(m, p)
         IN  /\ Stretched(points, k, d)
             /\ d.prev = p /\ d.distance = Length(points, 1, k + 1)
             /\ k > 0 => m.prev # NONE /\ Step(m, p) = Distance(points[k], p)
<1> DEFINE p == points[k + 1]
           d == Driven(m, p)
<1>1. Len(points) \in Nat /\ k + 1 \in 1..Len(points) /\ p \in Fix
  BY PointTypes
<1>2. /\ d \in Measured /\ d.distance = m.distance + Step(m, p) /\ d.prev = p
      /\ d.offRouteDistance = m.offRouteDistance
      /\ d.stretches = m.stretches /\ d.open = m.open
  BY <1>1, DrivenIs DEF MeasuredTo, Stretched
<1> HIDE DEF d
<1>3. Stretched(points, k, d)
  BY <1>2 DEF MeasuredTo, Stretched
<1>4. ASSUME k > 0 PROVE m.prev # NONE /\ Step(m, p) = Distance(points[k], p)
  <2>1. m.prev = points[k] /\ points[k] \in Fix
    BY <1>1, <1>4, PointTypes DEF MeasuredTo
  <2> QED
    BY <2>1 DEF NoneIsNull, Step
<1>5. d.distance = Length(points, 1, k + 1)
  <2>1. CASE k = 0
    <3>1. Step(m, p) = 0 /\ m.distance = Length(points, 1, 0)
      BY <2>1 DEF Step, MeasuredTo
    <3>2. 1 \in Nat \ {0} /\ 0 \in Nat /\ 1 \in Nat /\ 0 <= Len(points) /\ 1 <= Len(points)
      BY <1>1
    <3>3. Length(points, 1, 0) = 0 /\ Length(points, 1, 1) = 0
      BY <3>2, LengthInt
    <3> QED
      BY <1>2, <2>1, <3>1, <3>3
  <2>2. CASE k # 0
    <3>1. k > 0 /\ 1 <= k /\ k <= Len(points) /\ 1 \in Nat \ {0}
      BY <1>1, <2>2
    <3>2. Length(points, 1, k + 1) = Length(points, 1, k) + Distance(points[k], p)
      BY <3>1, LengthInt
    <3> QED
      BY <1>2, <1>4, <3>1, <3>2 DEF MeasuredTo
  <2> QED
    BY <2>1, <2>2
<1> QED
  BY <1>2, <1>3, <1>4, <1>5 DEF d

(* One more point, on the route or of an unknown distance from it: the     *)
(* stretch that was open is over.                                          *)
LEMMA MeasureOn ==
  ASSUME NEW points \in Seq(Fix), NEW k \in Nat, NEW m, NoneIsNull,
         k < Len(points), MeasuredTo(points, k, m), ~OffRoute(points[k + 1])
  PROVE  MeasuredTo(points, k + 1, Measure(m, points[k + 1]))
<1> DEFINE p == points[k + 1]
           d == Driven(m, p)
           c == Closed(d)
<1>1. Len(points) \in Nat /\ k \in 0..Len(points)
  BY PointTypes
<1>2. Stretched(points, k, d) /\ d.prev = p /\ d.distance = Length(points, 1, k + 1)
  BY DrivenSays
<1>3. Measure(m, p) = c
  BY MeasureIs
<1> HIDE DEF d, c
<1>4. /\ c \in Measured /\ c.open = NONE
      /\ c.distance = d.distance /\ c.prev = d.prev
      /\ ToSet(c.stretches) = SaidOf(points, Pieces(points, k))
      /\ c.offRouteDistance = LengthOf(points, Pieces(points, k))
  BY <1>1, <1>2, ClosedSays DEF c
<1>5. Over(points, k + 1) = Pieces(points, k)
  <2>1. ~Joined(points, k + 1)
    BY DEF Joined
  <2> QED
    BY <2>1, OverNext
<1>6. c.offRouteDistance = LengthOf(points, Over(points, k + 1)) + 0
  <2>1. LengthOf(points, Pieces(points, k)) \in Int
    BY <1>1, LengthOfInt
  <2> QED
    BY <1>4, <1>5, <2>1
<1>7. Stretched(points, k + 1, c)
  BY <1>4, <1>5, <1>6, Zenon DEF Stretched
<1>8. k + 1 # 0
  OBVIOUS
<1> QED
  BY <1>2, <1>3, <1>4, <1>7, <1>8, Zenon DEF MeasuredTo

(* One more point off the route, soon after the last: the stretch goes on. *)
LEMMA MeasureFurther ==
  ASSUME NEW points \in Seq(Fix), NEW k \in Nat, NEW m, NoneIsNull,
         k < Len(points), MeasuredTo(points, k, m), OffRoute(points[k + 1]),
         m.open # NONE, CloseInTime(m.prev, points[k + 1])
  PROVE  MeasuredTo(points, k + 1, Measure(m, points[k + 1]))
<1> DEFINE p == points[k + 1]
           d == Driven(m, p)
           c == Longer(m, p)
           o == Further(m, p)
           step == Step(m, p)
<1>1. Len(points) \in Nat /\ k + 1 \in 1..Len(points) /\ p \in Fix
  BY PointTypes
<1>2. m \in Measured /\ (k = 0 \/ ~OffRoute(points[k]) <=> m.open = NONE)
  BY DEF MeasuredTo, Stretched
<1>3. k > 0 /\ OffRoute(points[k]) /\ k \in 1..Len(points) /\ points[k] \in Fix
  <2>1. k # 0 /\ OffRoute(points[k])
    BY <1>2
  <2>2. k > 0 /\ k \in 1..Len(points)
    BY <1>1, <2>1
  <2> QED
    BY <2>1, <2>2, PointTypes
<1>4. d.prev = p /\ d.distance = Length(points, 1, k + 1) /\ step = Distance(points[k], p)
  BY <1>3, DrivenSays
<1>5. p.off \in Nat
  BY <1>1 DEF OffRoute, Fix, OrNone
<1>6. Measure(m, p) = c
  BY MeasureIs
<1>7. /\ d \in Measured /\ d.distance = m.distance + step /\ d.prev = p
  BY <1>1, <1>2, DrivenIs
<1>8. /\ c \in Measured
      /\ c.distance = m.distance + step /\ c.prev = p
      /\ c.offRouteDistance = m.offRouteDistance + step
      /\ c.stretches = m.stretches /\ c.open = o
  BY <1>1, <1>2, <1>5, LongerIs
<1>9. /\ o \in OffStretch
      /\ o = [startedAt |-> m.open.startedAt, endedAt |-> p.at,
              distance |-> m.open.distance + step, max |-> Greatest(m.open.max, p.off)]
  BY <1>1, <1>2, <1>5, FurtherIs
<1>10. step \in Int /\ m.open \in OffStretch /\ m.offRouteDistance \in Int
  BY <1>1, <1>2, StepInt, MeasuredFields
<1> HIDE DEF d, c, o, step
<1>11. Joined(points, k + 1)
  <2>1. m.prev = points[k]
    BY <1>3 DEF MeasuredTo
  <2>2. p.at - points[k].at <= TrackGap
    BY <2>1 DEF CloseInTime
  <2>3. k + 1 > 1 /\ k + 1 - 1 = k
    BY <1>3
  <2> QED
    BY <1>3, <2>2, <2>3 DEF Joined
<1>12. Over(points, k + 1) = Over(points, k)
  BY <1>11, OverNext
<1>13. PICK i \in 1..k : /\ IsRun(points, i, k)
                         /\ IsTop(points, i, k, m.open.max)
                         /\ m.open = Said(points, i, k)
  BY DEF MeasuredTo, Stretched
<1>14. i \in 1..k + 1 /\ i \in 1..Len(points) /\ i \in Nat \ {0} /\ i <= k
       /\ i..k + 1 = (i..k) \cup {k + 1}
  BY <1>1, <1>3
<1>15. IsRun(points, i, k + 1)
  <2>1. i + 1..k + 1 = (i + 1..k) \cup {k + 1}
    BY <1>14
  <2> QED
    BY <1>11, <1>13, <1>14, <2>1 DEF IsRun
<1>16. \A h \in i..k + 1 : points[h].off \in Nat
  BY <1>1, <1>14, <1>15, RunIsOff
<1>17. m.open.max \in Nat /\ m.open.distance \in Int
  BY <1>10 DEF OffStretch
<1>18. IsTop(points, i, k + 1, o.max)
  <2>1. o.max = Greatest(m.open.max, p.off)
    BY <1>9
  <2>2. o.max \in Nat /\ m.open.max <= o.max /\ p.off <= o.max
        /\ (o.max = m.open.max \/ o.max = p.off)
    BY <1>5, <1>17, <2>1 DEF Greatest
  <2>3. o.max \in {points[h].off : h \in i..k + 1}
    <3>1. m.open.max \in {points[h].off : h \in i..k}
      BY <1>13 DEF IsTop
    <3> QED
      BY <1>14, <2>2, <3>1
  <2>4. ASSUME NEW h \in i..k + 1 PROVE points[h].off <= o.max
    <3>1. CASE h \in i..k
      <4>1. points[h].off <= m.open.max
        BY <1>13, <3>1 DEF IsTop
      <4>2. points[h].off \in Nat
        BY <1>16
      <4> QED
        BY <1>17, <2>2, <4>1, <4>2
    <3>2. CASE h = k + 1
      BY <2>2, <3>2
    <3> QED
      BY <1>14, <3>1, <3>2
  <2> QED
    BY <2>3, <2>4 DEF IsTop
<1>19. o = Said(points, i, k + 1)
  <2>1. TopOff(points, i, k + 1) = o.max
    <3>1. o.max \in Nat
      BY <1>9 DEF OffStretch
    <3> QED
      BY <1>16, <1>18, <3>1, TopIs
  <2>2. Length(points, i, k + 1) = Length(points, i, k) + step
    BY <1>3, <1>4, <1>14, LengthInt
  <2>3. m.open.startedAt = points[i].at /\ m.open.distance = Length(points, i, k)
    BY <1>13 DEF Said
  <2>4. Said(points, i, k + 1)
          = [startedAt |-> points[i].at, endedAt |-> p.at,
             distance |-> Length(points, i, k) + step, max |-> o.max]
    BY <2>1, <2>2 DEF Said
  <2>5. o = [startedAt |-> points[i].at, endedAt |-> p.at,
             distance |-> Length(points, i, k) + step, max |-> o.max]
    BY <1>9, <2>3
  <2> QED
    BY <2>4, <2>5
<1>20. c.open # NONE
  BY <1>8, <1>9 DEF NoneIsNull
<1>21. c.offRouteDistance = LengthOf(points, Over(points, k + 1))
                              + (IF c.open = NONE THEN 0 ELSE c.open.distance)
  <2>1. m.offRouteDistance = LengthOf(points, Over(points, k)) + m.open.distance
    BY DEF MeasuredTo, Stretched
  <2>2. c.open.distance = m.open.distance + step
    BY <1>8, <1>9
  <2>3. LengthOf(points, Over(points, k)) \in Int
    <3>1. k \in 0..Len(points)
      BY <1>1
    <3> QED
      BY <3>1, LengthOfInt
  <2>4. c.offRouteDistance = LengthOf(points, Over(points, k)) + c.open.distance
    BY <1>8, <1>10, <1>17, <2>1, <2>2, <2>3
  <2> QED
    BY <1>12, <1>20, <2>4
<1>22. ToSet(c.stretches) = SaidOf(points, Over(points, k + 1))
  BY <1>8, <1>12 DEF MeasuredTo, Stretched
<1>23. k + 1 # 0
  OBVIOUS
<1>24. c.open = NONE <=> k + 1 = 0 \/ ~OffRoute(p)
  BY <1>20, <1>23
<1>25. Stretched(points, k + 1, c)
  BY <1>8, <1>14, <1>15, <1>18, <1>19, <1>21, <1>22, <1>24, Zenon DEF Stretched
<1>26. c.prev = (IF k + 1 = 0 THEN NONE ELSE points[k + 1])
  BY <1>8, <1>23
<1>27. c.distance = Length(points, 1, k + 1)
  BY <1>4, <1>7, <1>8
<1> QED
  BY <1>6, <1>25, <1>26, <1>27, Zenon DEF MeasuredTo

(* One more point off the route, the first or after a gap in the signal: a *)
(* stretch begins.                                                         *)
LEMMA MeasureBegun ==
  ASSUME NEW points \in Seq(Fix), NEW k \in Nat, NEW m, NoneIsNull,
         k < Len(points), MeasuredTo(points, k, m), OffRoute(points[k + 1]),
         ~(m.open # NONE /\ CloseInTime(m.prev, points[k + 1]))
  PROVE  MeasuredTo(points, k + 1, Measure(m, points[k + 1]))
<1> DEFINE p == points[k + 1]
           d == Driven(m, p)
           c == Closed(d)
           b == [c EXCEPT !.open = Stretch(p)]
<1>1. Len(points) \in Nat /\ k \in 0..Len(points) /\ k + 1 \in 1..Len(points) /\ p \in Fix
  BY PointTypes
<1>2. /\ Stretched(points, k, d)
      /\ d.prev = p /\ d.distance = Length(points, 1, k + 1)
      /\ k > 0 => m.prev # NONE
  BY DrivenSays
<1>3. Measure(m, p) = b
  BY MeasureIs
<1>4. p.off \in Nat
  BY <1>1 DEF OffRoute, Fix, OrNone
<1> HIDE DEF d
<1>5. /\ c \in Measured /\ c.open = NONE
      /\ c.distance = d.distance /\ c.prev = d.prev
      /\ ToSet(c.stretches) = SaidOf(points, Pieces(points, k))
      /\ c.offRouteDistance = LengthOf(points, Pieces(points, k))
  BY <1>1, <1>2, ClosedSays
<1> HIDE DEF c
<1>6. /\ Stretch(p) \in OffStretch /\ b \in Measured /\ b.open = Stretch(p)
      /\ b.distance = c.distance /\ b.prev = c.prev
      /\ b.offRouteDistance = c.offRouteDistance /\ b.stretches = c.stretches
  BY <1>1, <1>4, <1>5, BegunIs
<1> HIDE DEF b
<1>7. ~Joined(points, k + 1)
  <2>1. CASE k = 0
    BY <2>1 DEF Joined
  <2>2. CASE k # 0
    <3>1. k > 0 /\ k + 1 - 1 = k
      BY <2>2
    <3>2. m.prev = points[k] /\ m.prev # NONE
      BY <1>2, <3>1 DEF MeasuredTo
    <3>3. CASE m.open = NONE
      <4>1. ~OffRoute(points[k])
        BY <2>2, <3>3 DEF MeasuredTo, Stretched
      <4> QED
        BY <3>1, <4>1 DEF Joined
    <3>4. CASE m.open # NONE
      <4>1. ~(p.at - points[k].at <= TrackGap)
        BY <3>2, <3>4 DEF CloseInTime
      <4> QED
        BY <3>1, <4>1 DEF Joined
    <3> QED
      BY <3>3, <3>4
  <2> QED
    BY <2>1, <2>2
<1>8. Over(points, k + 1) = Pieces(points, k)
  BY <1>7, OverNext
<1> DEFINE n == k + 1
<1>9. n \in 1..n /\ n # 0 /\ n..n = {n} /\ n + 1..n = {} /\ n \in Nat \ {0} /\ n \in Nat
      /\ n <= Len(points) /\ n <= n
  BY <1>1
<1>10. points[n] = p /\ OffRoute(points[n]) /\ ~Joined(points, n)
  BY <1>7
<1>11. Over(points, n) = Pieces(points, k)
  BY <1>8
<1>12. d.distance = Length(points, 1, n)
  BY <1>2
<1> HIDE DEF n, p
<1>13. IsRun(points, n, n)
  BY <1>9, <1>10 DEF IsRun
<1>14. IsTop(points, n, n, p.off)
  BY <1>4, <1>9, <1>10 DEF IsTop
<1>15. Said(points, n, n) = Stretch(p)
  <2>1. \A h \in n..n : points[h].off \in Nat
    BY <1>4, <1>9, <1>10
  <2>2. TopOff(points, n, n) = p.off
    BY <1>4, <1>14, <2>1, TopIs
  <2>3. Length(points, n, n) = 0
    BY <1>9, LengthInt
  <2> QED
    BY <1>10, <2>2, <2>3 DEF Said, Stretch
<1>16. Stretch(p).max = p.off /\ Stretch(p).distance = 0 /\ Stretch(p) # NONE
  BY <1>6 DEF Stretch, NoneIsNull
<1>17. b.offRouteDistance = LengthOf(points, Over(points, n))
                              + (IF b.open = NONE THEN 0 ELSE b.open.distance)
  <2>1. LengthOf(points, Pieces(points, k)) \in Int
    BY <1>1, LengthOfInt
  <2>2. b.offRouteDistance = LengthOf(points, Over(points, n))
    BY <1>5, <1>6, <1>11
  <2>3. b.open # NONE /\ b.open.distance = 0
    BY <1>6, <1>16
  <2> QED
    BY <1>11, <2>1, <2>2, <2>3
<1>18. ToSet(b.stretches) = SaidOf(points, Over(points, n))
  BY <1>5, <1>6, <1>11
<1>19. b.open = NONE <=> n = 0 \/ ~OffRoute(points[n])
  BY <1>6, <1>9, <1>10, <1>16
<1>20. IsTop(points, n, n, b.open.max) /\ b.open = Said(points, n, n)
  BY <1>6, <1>14, <1>15, <1>16
<1>21. Stretched(points, n, b)
  BY <1>6, <1>9, <1>13, <1>17, <1>18, <1>19, <1>20, Zenon DEF Stretched
<1>22. b.prev = (IF n = 0 THEN NONE ELSE points[n]) /\ b.distance = Length(points, 1, n)
  BY <1>2, <1>5, <1>6, <1>9, <1>10, <1>12
<1>23. MeasuredTo(points, n, b)
  BY <1>21, <1>22, Zenon DEF MeasuredTo
<1> QED
  BY <1>3, <1>23 DEF n, p

LEMMA MeasureStep ==
  ASSUME NEW points \in Seq(Fix), NEW k \in Nat, NEW m, NoneIsNull,
         k < Len(points), MeasuredTo(points, k, m)
  PROVE  MeasuredTo(points, k + 1, Measure(m, points[k + 1]))
BY MeasureOn, MeasureFurther, MeasureBegun

LEMMA MeasuresAreRight ==
  ASSUME NEW points \in Seq(Fix), NoneIsNull
  PROVE  LET m == Closed(FoldLeft(Measure, NothingMeasured, points))
         IN  /\ m.distance = Length(points, 1, Len(points))
             /\ ToSet(m.stretches) = SaidOf(points, Stretches(points))
             /\ m.offRouteDistance = LengthOf(points, Stretches(points))
<1> DEFINE n == Len(points)
<1>1. n \in Nat /\ DOMAIN points = 1..n /\ n \in 0..n /\ n <= n
  BY PointTypes
<1>2. PICK acc : /\ acc[0] = NothingMeasured
                 /\ \A k \in 1..n : acc[k] = Measure(acc[k - 1], points[k])
                 /\ FoldLeft(Measure, NothingMeasured, points) = acc[n]
  BY <1>1, MeasureFolds
<1> DEFINE done == {k \in 0..n : MeasuredTo(points, k, acc[k])}
<1>3. 0 \in done
  BY <1>1, <1>2, MeasureStart
<1>4. ASSUME NEW k \in 0..n - 1, k \in done PROVE k + 1 \in done
  <2>1. k \in Nat /\ k < Len(points) /\ k + 1 \in 1..n /\ k + 1 \in 0..n /\ k + 1 - 1 = k
    BY <1>1
  <2>2. MeasuredTo(points, k + 1, Measure(acc[k], points[k + 1]))
    BY <1>4, <2>1, MeasureStep
  <2>3. acc[k + 1] = Measure(acc[k], points[k + 1])
    BY <1>2, <2>1
  <2> QED
    BY <2>1, <2>2, <2>3
<1> HIDE DEF done, n
<1>5. n \in done
  <2>1. \A k \in 0..n - 1 : k \in done => k + 1 \in done
    BY <1>4
  <2>2. 0..n \subseteq done
    BY <1>1, <1>3, <2>1, Climb
  <2> QED
    BY <1>1, <2>2
<1>6. MeasuredTo(points, n, acc[n])
  BY <1>5 DEF done
<1>7. Pieces(points, n) = Stretches(points)
  <2>1. ASSUME NEW i \in 1..n, NEW j \in 1..n
        PROVE  <<i, j>> \in Pieces(points, n) <=> <<i, j>> \in Stretches(points)
    BY <1>1 DEF Pieces, Stretches, IsRun, n
  <2>2. Pieces(points, n) \subseteq (1..n) \X (1..n)
        /\ Stretches(points) \subseteq (1..n) \X (1..n)
    BY <1>1 DEF Pieces, Stretches
  <2>3. AlikeOn(Pieces(points, n), Stretches(points), 1..n)
    BY <2>1, <2>2 DEF AlikeOn
  <2> QED
    BY <2>3, SamePairs
<1> DEFINE d == Closed(acc[n])
<1>8. /\ d.distance = acc[n].distance
      /\ ToSet(d.stretches) = SaidOf(points, Pieces(points, n))
      /\ d.offRouteDistance = LengthOf(points, Pieces(points, n))
  <2>1. n \in 0..Len(points) /\ Stretched(points, n, acc[n])
    BY <1>1, <1>6 DEF MeasuredTo, n
  <2> QED
    BY <2>1, ClosedSays
<1>9. acc[n].distance = Length(points, 1, n)
  BY <1>6 DEF MeasuredTo
<1>10. Closed(FoldLeft(Measure, NothingMeasured, points)) = d
  BY <1>2
<1> HIDE DEF d
<1> QED
  BY <1>7, <1>8, <1>9, <1>10 DEF n

-----------------------------------------------------------------------------
(* Coverage                                                                *)

LEMMA Buckets ==
  ASSUME NEW len \in Nat \ {0}, NEW a \in Int, NEW b \in Int
  PROVE  /\ BucketCount(len) \in Nat \ {0}
         /\ BucketOf(len, a) \in 0..BucketCount(len) - 1
         /\ a <= b => BucketOf(len, a) <= BucketOf(len, b)
<1>1. CoverageBucket \in Nat \ {0}
  BY MetricsAssumption
<1>2. (len + CoverageBucket - 1) \div CoverageBucket \in Int
      /\ a \div CoverageBucket \in Int /\ b \div CoverageBucket \in Int
  BY <1>1
<1>3. a <= b => a \div CoverageBucket <= b \div CoverageBucket
  BY <1>1
<1>4. BucketCount(len) \in Nat \ {0}
  BY <1>2 DEF BucketCount, Greatest
<1> QED
  BY <1>2, <1>3, <1>4 DEF BucketOf, Least, Greatest

Placed == {p \in Fix : p.offset # NONE}
Covered == [covered: SUBSET Int, prev: OrNone(Placed)]
NothingCovered == [covered |-> {}, prev |-> NONE]

LEMMA PlacedIs ==
  ASSUME NEW p \in Fix, OnRoute(p)
  PROVE  p \in Placed /\ p.offset \in Int /\ p.at \in Nat
BY DEF OnRoute, Placed, Fix, OrNone

LEMMA CoverType ==
  ASSUME NEW len \in Nat \ {0}, NEW c \in Covered, NEW p \in Fix
  PROVE  Cover(len, c, p) \in Covered
<1>1. c.covered \in SUBSET Int
  BY DEF Covered
<1>2. CASE ~OnRoute(p)
  <2>1. Cover(len, c, p) = [c EXCEPT !.prev = NONE]
    BY <1>2 DEF Cover
  <2> QED
    BY <2>1 DEF Covered, OrNone
<1>3. CASE OnRoute(p)
  <2>1. PICK f, u : Cover(len, c, p) = [covered |-> c.covered \cup f..u, prev |-> p]
    BY <1>3 DEF Cover
  <2>2. c.covered \cup f..u \in SUBSET Int
    BY <1>1
  <2> QED
    BY <1>3, <2>1, <2>2, PlacedIs DEF Covered, OrNone
<1> QED
  BY <1>2, <1>3

LEMMA CoverFolds ==
  ASSUME NEW points \in Seq(Fix), NEW n \in Nat, DOMAIN points = 1..n,
         NEW len \in Nat \ {0}
  PROVE  \E acc : /\ acc[0] = NothingCovered
                  /\ \A k \in 1..n : acc[k] = Cover(len, acc[k - 1], points[k])
                  /\ ComputeCoverage(points, len) = acc[n].covered
<1> DEFINE Folds(g) == g = [s \in SUBSET (1..n) |->
                              IF s = {} THEN NothingCovered
                              ELSE Cover(len, g[s \ {Max(s)}], points[Max(s)])]
           g == CHOOSE f : Folds(f)
           acc == [k \in 0..n |-> g[1..k]]
<1>1. \E f : Folds(f)
  <2> DEFINE step == [i \in 1..n |-> [a \in Covered |-> Cover(len, a, points[i])]]
  <2>1. \A i \in 1..n : points[i] \in Fix
    OBVIOUS
  <2>2. NothingCovered \in Covered
    BY DEF NothingCovered, Covered, OrNone
  <2>3. step \in [1..n -> [Covered -> Covered]]
    BY <2>1, CoverType
  <2>4. \A i \in 1..n : \A a \in Covered : step[i][a] = Cover(len, a, points[i])
    OBVIOUS
  <2> HIDE DEF step
  <2>5. PICK f : FoldsTo(f, Covered, NothingCovered, step, n)
    BY <2>2, <2>3, FoldExists
  <2>6. ASSUME NEW s \in SUBSET (1..n), s # {}
        PROVE  f[s] = Cover(len, f[s \ {Max(s)}], points[Max(s)])
    <3>1. Max(s) \in 1..n /\ s \ {Max(s)} \in SUBSET (1..n)
      BY <2>6, MaxExists
    <3> QED
      BY <2>4, <2>5, <2>6, <3>1 DEF FoldsTo
  <2>7. Folds(f)
    BY <2>5, <2>6 DEF FoldsTo
  <2> QED
    BY <2>7
<1>2. Folds(g)
  BY <1>1
<1>3. ComputeCoverage(points, len) = g[1..n].covered
  <2>1. ~(len = NONE \/ len <= 0)
    BY MetricsAssumption
  <2> QED
    BY <2>1 DEF ComputeCoverage, NothingCovered, FoldLeft, MapThenFoldSet
<1> HIDE DEF g
<1>4. g[{}] = NothingCovered /\ \A s \in SUBSET (1..n) :
        s # {} => g[s] = Cover(len, g[s \ {Max(s)}], points[Max(s)])
  BY <1>2
<1>5. acc[0] = NothingCovered /\ acc[n] = g[1..n]
  <2>1. 1..0 = {}
    OBVIOUS
  <2> QED
    BY <1>4, <2>1
<1>6. ASSUME NEW k \in 1..n PROVE acc[k] = Cover(len, acc[k - 1], points[k])
  <2>1. acc[k] = g[1..k] /\ acc[k - 1] = g[1..k - 1]
    OBVIOUS
  <2>2. /\ 1..k \in SUBSET (1..n) /\ 1..k # {} /\ Max(1..k) = k
        /\ (1..k) \ {Max(1..k)} = 1..k - 1
    BY PrefixMax
  <2>3. g[1..k] = Cover(len, g[1..k - 1], points[k])
    BY <1>4, <2>2
  <2> HIDE DEF acc
  <2> QED
    BY <2>1, <2>3
<1> HIDE DEF acc
<1> QED
  BY <1>3, <1>5, <1>6

\* Two points on the route that are close in time and along it.
Near(p, q) ==
  /\ OnRoute(p) /\ OnRoute(q)
  /\ q.at - p.at <= TrackGap /\ Abs(q.offset - p.offset) <= CoverageMaxStep

\* The buckets between two points.
Between(len, p, q) ==
  {b \in Int : LET ends == {BucketOf(len, p.offset), BucketOf(len, q.offset)}
               IN  \E low, high \in ends : low <= b /\ b <= high}

\* What the j-th point covers, by itself and with the one before it.
CoversAt(points, j, len) ==
  {b \in Int : \E i \in {j, j - 1} : /\ i > 0 /\ Near(points[i], points[j])
                                     /\ b \in Between(len, points[i], points[j])}

LEMMA CoversByPoint ==
  ASSUME NEW points \in Seq(Fix), NEW len \in Nat \ {0}
  PROVE  {b \in 0..BucketCount(len) - 1 : Covers(points, b, len)}
           = {b \in Int : \E j \in 1..Len(points) : b \in CoversAt(points, j, len)}
<1> DEFINE n == Len(points)
<1>1. n \in Nat /\ DOMAIN points = 1..n
  BY PointTypes
<1>2. ASSUME NEW b \in Int
      PROVE  Covers(points, b, len) <=> \E j \in 1..n : b \in CoversAt(points, j, len)
  <2>1. Covers(points, b, len) <=>
          \E i, j \in 1..n : /\ i \in {j, j - 1} /\ Near(points[i], points[j])
                             /\ b \in Between(len, points[i], points[j])
    BY <1>1 DEF Covers, Near, Between
  <2>2. \A i, j : j \in 1..n /\ i \in {j, j - 1} => (i \in 1..n <=> i > 0)
    BY <1>1
  <2>3. (\E i, j \in 1..n : /\ i \in {j, j - 1} /\ Near(points[i], points[j])
                            /\ b \in Between(len, points[i], points[j]))
          <=> \E j \in 1..n : \E i \in {j, j - 1} :
                /\ i > 0 /\ Near(points[i], points[j])
                /\ b \in Between(len, points[i], points[j])
    BY <2>2
  <2> QED
    BY <2>1, <2>3 DEF CoversAt
<1>3. ASSUME NEW b \in Int, NEW j \in 1..n, b \in CoversAt(points, j, len)
      PROVE  b \in 0..BucketCount(len) - 1
  <2>1. PICK i \in {j, j - 1} : /\ i > 0 /\ Near(points[i], points[j])
                                /\ b \in Between(len, points[i], points[j])
    BY <1>3 DEF CoversAt
  <2>2. i \in 1..n
    BY <1>1, <2>1
  <2>3. points[i] \in Fix /\ points[j] \in Fix
    BY <2>2, PointTypes
  <2>4. points[i].offset \in Int /\ points[j].offset \in Int
    BY <2>1, <2>3, PlacedIs DEF Near
  <2>5. /\ BucketOf(len, points[i].offset) \in 0..BucketCount(len) - 1
        /\ BucketOf(len, points[j].offset) \in 0..BucketCount(len) - 1
        /\ BucketCount(len) \in Nat \ {0}
    BY <2>4, Buckets
  <2> DEFINE ends == {BucketOf(len, points[i].offset), BucketOf(len, points[j].offset)}
  <2>6. \E low, high \in ends : low <= b /\ b <= high
    BY <2>1 DEF Between
  <2>7. ends \subseteq 0..BucketCount(len) - 1
    BY <2>5
  <2> HIDE DEF ends
  <2> QED
    BY <2>5, <2>6, <2>7
<1>4. 0..BucketCount(len) - 1 \subseteq Int
  OBVIOUS
<1> HIDE DEF n
<1> QED
  BY <1>2, <1>3, <1>4 DEF n

(* The loop marks from the bucket of the smaller offset to the bucket of   *)
(* the greater one.                                                        *)
LEMMA BetweenIs ==
  ASSUME NEW p \in Fix, NEW q \in Fix, OnRoute(p), OnRoute(q), NEW len \in Nat \ {0}
  PROVE  /\ Between(len, p, q) = BucketOf(len, Least(q.offset, p.offset))
                                   ..BucketOf(len, Greatest(q.offset, p.offset))
         /\ Between(len, q, q) \subseteq Between(len, p, q)
         /\ Between(len, q, q) = BucketOf(len, q.offset)..BucketOf(len, q.offset)
<1> DEFINE x == BucketOf(len, p.offset)
           y == BucketOf(len, q.offset)
<1>1. p.offset \in Int /\ q.offset \in Int
  BY PlacedIs
<1>2. x \in Int /\ y \in Int
  <2>1. x \in 0..BucketCount(len) - 1 /\ y \in 0..BucketCount(len) - 1
    BY <1>1, Buckets
  <2> QED
    BY <2>1
<1>3. /\ p.offset <= q.offset => x <= y
      /\ q.offset <= p.offset => y <= x
  BY <1>1, Buckets
<1>4. /\ Between(len, p, q) = {b \in Int : \E low, high \in {x, y} : low <= b /\ b <= high}
      /\ Between(len, q, q) = {b \in Int : \E low, high \in {y} : low <= b /\ b <= high}
  BY DEF Between
<1>5. \/ /\ BucketOf(len, Least(q.offset, p.offset)) = x
         /\ BucketOf(len, Greatest(q.offset, p.offset)) = y
         /\ x <= y
      \/ /\ BucketOf(len, Least(q.offset, p.offset)) = y
         /\ BucketOf(len, Greatest(q.offset, p.offset)) = x
         /\ y <= x
  <2>1. CASE q.offset < p.offset
    BY <1>1, <1>3, <2>1 DEF Least, Greatest
  <2>2. CASE ~(q.offset < p.offset)
    BY <1>1, <1>3, <2>2 DEF Least, Greatest
  <2> QED
    BY <2>1, <2>2
<1> HIDE DEF x, y
<1>6. Between(len, q, q) = y..y /\ Between(len, q, q) \subseteq Between(len, p, q)
  BY <1>2, <1>4
<1>7. /\ x <= y => Between(len, p, q) = x..y
      /\ y <= x => Between(len, p, q) = y..x
  BY <1>2, <1>4
<1> QED
  BY <1>5, <1>6, <1>7 DEF y

CoveredTo(points, k, len, c) ==
  /\ c.covered = {b \in Int : \E j \in 1..k : b \in CoversAt(points, j, len)}
  /\ c.prev = IF k > 0 /\ OnRoute(points[k]) THEN points[k] ELSE NONE

LEMMA CoverStep ==
  ASSUME NEW points \in Seq(Fix), NEW k \in Nat, NEW len \in Nat \ {0}, NEW c,
         NoneIsNull, k < Len(points), c \in Covered, CoveredTo(points, k, len, c)
  PROVE  CoveredTo(points, k + 1, len, Cover(len, c, points[k + 1]))
<1> DEFINE n == k + 1
           p == points[n]
           d == Cover(len, c, p)
<1>1. /\ Len(points) \in Nat /\ n \in 1..Len(points) /\ p \in Fix /\ n \in Nat
      /\ n > 0 /\ n - 1 = k /\ 1..n = (1..k) \cup {n} /\ c.covered \subseteq Int
  BY PointTypes DEF Covered
<1>2. ASSUME /\ d.covered = c.covered \cup CoversAt(points, n, len)
             /\ d.prev = IF OnRoute(p) THEN p ELSE NONE
      PROVE  CoveredTo(points, n, len, d)
  <2>1. {b \in Int : \E j \in 1..n : b \in CoversAt(points, j, len)}
          = {b \in Int : \E j \in 1..k : b \in CoversAt(points, j, len)}
              \cup CoversAt(points, n, len)
    <3>1. CoversAt(points, n, len) \subseteq Int
      BY DEF CoversAt
    <3> HIDE DEF n
    <3> QED
      BY <1>1, <3>1
  <2>2. d.covered = {b \in Int : \E j \in 1..n : b \in CoversAt(points, j, len)}
    <3> HIDE DEF d, n
    <3> QED
      BY <1>2, <2>1 DEF CoveredTo
  <2> HIDE DEF d
  <2> QED
    BY <1>1, <1>2, <2>2 DEF CoveredTo
<1>3. CASE ~OnRoute(p)
  <2>1. d = [c EXCEPT !.prev = NONE]
    BY <1>3 DEF Cover
  <2>2. d.covered = c.covered /\ d.prev = NONE
    BY <2>1 DEF Covered
  <2>3. CoversAt(points, n, len) = {}
    BY <1>3 DEF CoversAt, Near
  <2> QED
    BY <1>2, <1>3, <2>2, <2>3
<1>4. CASE OnRoute(p)
  <2>1. p.offset \in Int /\ p.at \in Nat /\ Near(p, p)
    <3>1. p.offset \in Int /\ p.at \in Nat
      BY <1>1, <1>4, PlacedIs
    <3>2. Abs(p.offset - p.offset) = 0 /\ p.at - p.at = 0
      BY <3>1 DEF Abs
    <3>3. 0 <= TrackGap /\ 0 <= CoverageMaxStep
      BY MetricsAssumption
    <3> QED
      BY <1>4, <3>1, <3>2, <3>3 DEF Near
  <2>2. CASE c.prev # NONE /\ CloseInTime(c.prev, p)
             /\ Abs(p.offset - c.prev.offset) <= CoverageMaxStep
    <3> DEFINE q == points[k]
    <3>1. k > 0 /\ OnRoute(q) /\ c.prev = q /\ q \in Fix
      <4>1. k > 0 /\ OnRoute(q) /\ c.prev = q
        BY <2>2 DEF CoveredTo
      <4>2. k \in 1..Len(points)
        BY <1>1, <4>1
      <4> QED
        BY <4>1, <4>2, PointTypes
    <3>2. Near(q, p)
      BY <1>4, <2>2, <3>1 DEF Near, CloseInTime
    <3>3. d = [covered |-> c.covered \cup BucketOf(len, Least(p.offset, q.offset))
                                            ..BucketOf(len, Greatest(p.offset, q.offset)),
               prev |-> p]
      BY <1>4, <2>2, <3>1 DEF Cover
    <3>4. d.covered = c.covered \cup Between(len, q, p) /\ d.prev = p
      <4>1. Between(len, q, p) = BucketOf(len, Least(p.offset, q.offset))
                                   ..BucketOf(len, Greatest(p.offset, q.offset))
        BY <1>1, <1>4, <3>1, BetweenIs
      <4> QED
        BY <3>3, <4>1
    <3>5. CoversAt(points, n, len) = Between(len, q, p)
      <4>1. Between(len, p, p) \subseteq Between(len, q, p) /\ Between(len, q, p) \subseteq Int
        BY <1>1, <1>4, <3>1, BetweenIs DEF Between
      <4>2. CoversAt(points, n, len)
              = {b \in Int : \/ n > 0 /\ Near(p, p) /\ b \in Between(len, p, p)
                             \/ k > 0 /\ Near(q, p) /\ b \in Between(len, q, p)}
        BY <1>1 DEF CoversAt
      <4> QED
        BY <1>1, <2>1, <3>1, <3>2, <4>1, <4>2
    <3> QED
      BY <1>2, <1>4, <3>4, <3>5
  <2>3. CASE ~(c.prev # NONE /\ CloseInTime(c.prev, p)
               /\ Abs(p.offset - c.prev.offset) <= CoverageMaxStep)
    <3> DEFINE q == points[k]
    <3>1. d = [covered |-> c.covered \cup BucketOf(len, p.offset)..BucketOf(len, p.offset),
               prev |-> p]
      BY <1>4, <2>3 DEF Cover
    <3>2. d.covered = c.covered \cup Between(len, p, p) /\ d.prev = p
      BY <1>1, <1>4, <3>1, BetweenIs
    <3>3. ~(k > 0 /\ Near(q, p))
      <4> SUFFICES ASSUME k > 0, Near(q, p) PROVE FALSE
        OBVIOUS
      <4>1. c.prev = q
        BY DEF CoveredTo, Near
      <4>2. k \in 1..Len(points) /\ q \in Fix
        <5>1. k \in 1..Len(points)
          BY <1>1
        <5> QED
          BY <5>1, PointTypes
      <4>3. c.prev # NONE
        BY <4>1, <4>2 DEF NoneIsNull
      <4> QED
        BY <2>3, <4>1, <4>3 DEF Near, CloseInTime
    <3>4. CoversAt(points, n, len) = Between(len, p, p)
      <4>1. Between(len, p, p) \subseteq Int
        BY DEF Between
      <4>2. CoversAt(points, n, len)
              = {b \in Int : \/ n > 0 /\ Near(p, p) /\ b \in Between(len, p, p)
                             \/ k > 0 /\ Near(q, p) /\ b \in Between(len, q, p)}
        BY <1>1 DEF CoversAt
      <4> QED
        BY <1>1, <2>1, <3>3, <4>1, <4>2
    <3> QED
      BY <1>2, <1>4, <3>2, <3>4
  <2> QED
    BY <2>2, <2>3
<1> QED
  BY <1>3, <1>4

LEMMA CoverageIsRight ==
  ASSUME NEW points \in Seq(Fix), NEW len \in OrNone(Nat), NoneIsNull
  PROVE  ComputeCoverage(points, len)
           = IF len \in {NONE, 0} THEN NONE
             ELSE {b \in 0..BucketCount(len) - 1 : Covers(points, b, len)}
<1>1. CASE len \in {NONE, 0}
  <2>1. len = NONE \/ len <= 0
    BY <1>1
  <2>2. ComputeCoverage(points, len) = NONE
    BY <2>1, Zenon DEF ComputeCoverage
  <2> QED
    BY <1>1, <2>2
<1>2. CASE len \notin {NONE, 0}
  <2> DEFINE n == Len(points)
  <2>1. n \in Nat /\ DOMAIN points = 1..n /\ len \in Nat \ {0}
    BY <1>2, PointTypes DEF OrNone
  <2>2. PICK acc : /\ acc[0] = NothingCovered
                   /\ \A k \in 1..n : acc[k] = Cover(len, acc[k - 1], points[k])
                   /\ ComputeCoverage(points, len) = acc[n].covered
    BY <2>1, CoverFolds
  <2> DEFINE done == {k \in 0..n : acc[k] \in Covered /\ CoveredTo(points, k, len, acc[k])}
  <2>3. 0 \in done
    <3>1. NothingCovered \in Covered
      BY DEF NothingCovered, Covered, OrNone
    <3>2. CoveredTo(points, 0, len, NothingCovered)
      BY DEF CoveredTo, NothingCovered
    <3> QED
      BY <2>1, <2>2, <3>1, <3>2
  <2>4. ASSUME NEW k \in 0..n - 1, k \in done PROVE k + 1 \in done
    <3>1. /\ k \in Nat /\ k < Len(points) /\ k + 1 \in 1..n /\ k + 1 \in 0..n
          /\ k + 1 - 1 = k /\ points[k + 1] \in Fix
      BY <2>1
    <3>2. /\ CoveredTo(points, k + 1, len, Cover(len, acc[k], points[k + 1]))
          /\ Cover(len, acc[k], points[k + 1]) \in Covered
      BY <2>1, <2>4, <3>1, CoverStep, CoverType
    <3>3. acc[k + 1] = Cover(len, acc[k], points[k + 1])
      BY <2>2, <3>1
    <3> QED
      BY <3>1, <3>2, <3>3
  <2> HIDE DEF done, n
  <2>5. n \in done
    <3>1. \A k \in 0..n - 1 : k \in done => k + 1 \in done
      BY <2>4
    <3>2. 0..n \subseteq done
      BY <2>1, <2>3, <3>1, Climb
    <3> QED
      BY <2>1, <3>2
  <2>6. ComputeCoverage(points, len)
          = {b \in Int : \E j \in 1..n : b \in CoversAt(points, j, len)}
    BY <2>2, <2>5 DEF done, CoveredTo
  <2>7. ComputeCoverage(points, len)
          = {b \in 0..BucketCount(len) - 1 : Covers(points, b, len)}
    BY <2>1, <2>6, CoversByPoint DEF n
  <2> QED
    BY <1>2, <2>7
<1> QED
  BY <1>1, <1>2

LEMMA MetricsAreRight ==
  ASSUME NEW points \in Seq(Fix), NEW len \in OrNone(Nat), NoneIsNull
  PROVE  MetricsAreSound(points, len, ComputeTrackMetrics(points, len))
<1> DEFINE m == Closed(FoldLeft(Measure, NothingMeasured, points))
           c == ComputeCoverage(points, len)
           t == ComputeTrackMetrics(points, len)
<1>1. t = [pointCount |-> Len(points), distance |-> m.distance, coverage |-> c,
           offRouteDistance |-> m.offRouteDistance, stretches |-> m.stretches]
  BY DEF ComputeTrackMetrics, NothingMeasured
<1>2. /\ m.distance = Length(points, 1, Len(points))
      /\ ToSet(m.stretches) = SaidOf(points, Stretches(points))
      /\ m.offRouteDistance = LengthOf(points, Stretches(points))
  BY MeasuresAreRight
<1>3. c = IF len \in {NONE, 0} THEN NONE
          ELSE {b \in 0..BucketCount(len) - 1 : Covers(points, b, len)}
  BY CoverageIsRight
<1> HIDE DEF m, c, t
<1>4. /\ t.distance = m.distance /\ t.coverage = c
      /\ t.offRouteDistance = m.offRouteDistance /\ t.stretches = m.stretches
  BY <1>1
<1>5. SaidOf(points, Stretches(points))
        = {[startedAt |-> points[s[1]].at, endedAt |-> points[s[2]].at,
            distance |-> Length(points, s[1], s[2]),
            max |-> CHOOSE n \in {points[k].off : k \in s[1]..s[2]} :
                      \A k \in s[1]..s[2] : points[k].off <= n] : s \in Stretches(points)}
  BY Zenon DEF SaidOf, Said, TopOff
<1>6. LengthOf(points, Stretches(points))
        = Total([s \in Stretches(points) |-> Length(points, s[1], s[2])])
  BY DEF LengthOf
<1> QED
  BY <1>2, <1>3, <1>4, <1>5, <1>6, Zenon DEF MetricsAreSound, t

-----------------------------------------------------------------------------

RowsInv ==
  /\ positions \in Seq(Fix)
  /\ session \in [from: Nat, to: OrNone(Nat)]
  /\ length \in OrNone(Nat)
  /\ IsRequest(reader)
  /\ reader.at \in {"idle", "archived", "session", "points", "path", "done"}
  /\ reader.at = "points" => reader.row.length \in OrNone(Nat)

LEMMA RowsInit ==
  ASSUME Init PROVE RowsInv
<1>1. session \in [from: Nat, to: OrNone(Nat)]
  BY HistoryAssumption DEF Init, OrNone
<1>2. positions \in Seq(Fix)
  BY DEF Init
<1> QED
  BY <1>1, <1>2, HistoryAssumption DEF Init, RowsInv, NoReader, IsRequest

LEMMA GotoRows ==
  ASSUME RowsInv, NEW rec, NEW at, Goto(at, rec), IsRequest(rec),
         at \in {"archived", "session", "points", "path", "done"},
         at = "points" => rec.row.length \in OrNone(Nat),
         UNCHANGED <<positions, session, length, track>>
  PROVE  RowsInv'
<1>1. reader'.at = at /\ reader'.row = rec.row /\ IsRequest(reader')
  BY GotoType
<1> QED
  BY <1>1 DEF RowsInv

LEMMA RequestWith ==
  ASSUME NEW r, IsRequest(r), NEW a, NEW b
  PROVE  /\ IsRequest([r EXCEPT !.row = a]) /\ [r EXCEPT !.row = a].row = a
         /\ IsRequest([r EXCEPT !.kind = a, !.seen = b])
         /\ IsRequest([r EXCEPT !.built = a]) /\ [r EXCEPT !.built = a].built = a
         /\ IsRequest([r EXCEPT !.planned = a])
         /\ IsRequest([r EXCEPT !.built = a, !.planned = b])
<1>1. IsRequest([r EXCEPT !.row = a]) /\ [r EXCEPT !.row = a].row = a
  BY DEF IsRequest
<1>2. /\ IsRequest([r EXCEPT !.built = a]) /\ [r EXCEPT !.built = a].built = a
      /\ IsRequest([r EXCEPT !.planned = a])
  BY DEF IsRequest
<1>3. IsRequest([r EXCEPT !.kind = a, !.seen = b])
  <2> DEFINE q == [r EXCEPT !.kind = a]
  <2>1. IsRequest(q) /\ [r EXCEPT !.kind = a, !.seen = b] = [q EXCEPT !.seen = b]
    BY DEF IsRequest
  <2> HIDE DEF q
  <2>2. IsRequest([q EXCEPT !.seen = b])
    BY <2>1 DEF IsRequest
  <2> QED
    BY <2>1, <2>2
<1>4. IsRequest([r EXCEPT !.built = a, !.planned = b])
  <2> DEFINE q == [r EXCEPT !.built = a]
  <2>1. IsRequest(q) /\ [r EXCEPT !.built = a, !.planned = b] = [q EXCEPT !.planned = b]
    BY DEF IsRequest
  <2> HIDE DEF q
  <2>2. IsRequest([q EXCEPT !.planned = b])
    BY <2>1 DEF IsRequest
  <2> QED
    BY <2>1, <2>2
<1> QED
  BY <1>1, <1>2, <1>3, <1>4

LEMMA RowsKeep ==
  ASSUME RowsInv, [Next]_vars PROVE RowsInv'
<1>1. CASE UNCHANGED vars
  BY <1>1 DEF vars, RowsInv
<1>2. ASSUME NEW fix \in Fixes, StoreFix(fix) PROVE RowsInv'
  <2>1. positions' \in Seq(Fix)
    BY <1>2, HistoryAssumption DEF StoreFix, RowsInv
  <2> QED
    BY <1>2, <2>1 DEF StoreFix, RowsInv
<1>3. ASSUME NEW t \in Ends, EndRun(t) PROVE RowsInv'
  <2>1. session' \in [from: Nat, to: OrNone(Nat)]
    BY <1>3, HistoryAssumption DEF EndRun, RowsInv, OrNone
  <2> QED
    BY <1>3, <2>1 DEF EndRun, RowsInv
<1>4. ASSUME NEW l \in Lengths, Redraw(l) PROVE RowsInv'
  BY <1>4, HistoryAssumption DEF Redraw, RowsInv
<1>5. CASE Archive
  BY <1>5 DEF Archive, RowsInv
<1>6. ASSUME NEW kind \in {"detail", "list", "live"}, Ask(kind) PROVE RowsInv'
  <2> DEFINE rec == [NoReader EXCEPT !.kind = kind, !.seen = ToSet(positions)]
             at == IF kind = "live" THEN "session" ELSE "archived"
  <2>1. IsRequest(NoReader)
    BY DEF NoReader, IsRequest
  <2>2. IsRequest(rec)
    BY <2>1, RequestWith, Zenon
  <2>3. Goto(at, rec) /\ UNCHANGED <<positions, session, length, track>>
    BY <1>6 DEF Ask
  <2> HIDE DEF rec
  <2> QED
    BY <2>2, <2>3, GotoRows
<1>7. CASE FindArchived
  <2>1. UNCHANGED <<positions, session, length, track>>
    BY <1>7 DEF FindArchived
  <2>2. IsRequest([reader EXCEPT !.built = track.built, !.planned = track.planned])
        /\ IsRequest(reader)
    BY RequestWith, Zenon DEF RowsInv
  <2>3. \/ Goto("session", reader)
        \/ Goto("done", [reader EXCEPT !.built = track.built, !.planned = track.planned])
    BY <1>7 DEF FindArchived
  <2> QED
    BY <2>1, <2>2, <2>3, GotoRows
<1>8. CASE FindSession
  <2>1. UNCHANGED <<positions, session, length, track>>
    BY <1>8 DEF FindSession
  <2> DEFINE rec == [reader EXCEPT !.row = Row]
  <2>2. IsRequest(rec) /\ rec.row = Row /\ IsRequest(reader)
    BY RequestWith, Zenon DEF RowsInv
  <2>3. Row.length \in OrNone(Nat)
    BY DEF Row, RowsInv
  <2>4. Goto("done", reader) \/ Goto("points", rec)
    BY <1>8 DEF FindSession
  <2> HIDE DEF rec
  <2> QED
    BY <2>1, <2>2, <2>3, <2>4, GotoRows
<1>9. CASE LoadPoints
  <2> DEFINE rec == [reader EXCEPT !.built = Build(reader.row)]
             at == IF reader.kind = "detail" THEN "path" ELSE "done"
  <2>1. IsRequest(rec)
    BY RequestWith, Zenon DEF RowsInv
  <2>2. Goto(at, rec) /\ UNCHANGED <<positions, session, length, track>>
    BY <1>9 DEF LoadPoints
  <2> HIDE DEF rec
  <2> QED
    BY <2>1, <2>2, GotoRows
<1>10. CASE LoadRoutePath
  <2> DEFINE rec == [reader EXCEPT !.planned = length]
  <2>1. IsRequest(rec)
    BY RequestWith, Zenon DEF RowsInv
  <2>2. Goto("done", rec) /\ UNCHANGED <<positions, session, length, track>>
    BY <1>10 DEF LoadRoutePath
  <2> HIDE DEF rec
  <2> QED
    BY <2>1, <2>2, GotoRows
<1>11. CASE Answer
  BY <1>11 DEF Answer, NoReader, IsRequest, RowsInv
<1> QED
  BY <1>1, <1>2, <1>3, <1>4, <1>5, <1>6, <1>7, <1>8, <1>9, <1>10, <1>11 DEF Next

\* What MeasuresAreTrue says of a step.
MeasuresShown ==
  /\ track = NONE /\ track' # NONE =>
       MetricsAreSound(track'.built.points, length, track'.built.metrics)
  /\ reader.at = "points" /\ reader'.at # "points" =>
       MetricsAreSound(reader'.built.points, reader.row.length, reader'.built.metrics)

LEMMA BuiltMeasures ==
  ASSUME NoneIsNull, positions \in Seq(Fix), NEW row, row.length \in OrNone(Nat)
  PROVE  MetricsAreSound(Build(row).points, row.length, Build(row).metrics)
<1> DEFINE points == CleanFixes(positions)
           span == RunSpan(row, points)
           metrics == ComputeTrackMetrics(points, row.length)
<1>1. Build(row) = [points |-> points, span |-> span, metrics |-> metrics]
  BY DEF Build
<1>2. points \in Seq(Fix)
  BY CleanFixesAccounts
<1> HIDE DEF points
<1>3. MetricsAreSound(points, row.length, metrics)
  BY <1>2, MetricsAreRight
<1> HIDE DEF span, metrics
<1> QED
  BY <1>1, <1>3

LEMMA StepMeasures ==
  ASSUME NoneIsNull, RowsInv, [Next]_vars PROVE MeasuresShown
<1>1. CASE \/ UNCHANGED vars
           \/ \E fix \in Fixes : StoreFix(fix)
           \/ \E t \in Ends : EndRun(t)
           \/ \E l \in Lengths : Redraw(l)
  BY <1>1 DEF vars, StoreFix, EndRun, Redraw, MeasuresShown
<1>2. CASE Archive
  <2>1. track'.built = Build(Row) /\ reader' = reader
    BY <1>2 DEF Archive
  <2>2. Row.length = length /\ length \in OrNone(Nat)
    BY DEF Row, RowsInv
  <2>3. MetricsAreSound(Build(Row).points, Row.length, Build(Row).metrics)
    BY <2>2, BuiltMeasures DEF RowsInv
  <2> QED
    BY <2>1, <2>2, <2>3 DEF MeasuresShown
<1>3. CASE \/ \E kind \in {"detail", "list", "live"} : Ask(kind)
           \/ FindArchived \/ FindSession \/ LoadRoutePath \/ Answer
  BY <1>3 DEF Ask, FindArchived, FindSession, LoadRoutePath, Answer, NoReader, MeasuresShown
<1>4. CASE LoadPoints
  <2> DEFINE built == Build(reader.row)
             rec == [reader EXCEPT !.built = built]
             at == IF reader.kind = "detail" THEN "path" ELSE "done"
  <2>1. Goto(at, rec) /\ track' = track /\ reader.at = "points"
    BY <1>4 DEF LoadPoints
  <2>2. MetricsAreSound(built.points, reader.row.length, built.metrics)
    BY <2>1, BuiltMeasures DEF RowsInv
  <2> HIDE DEF built
  <2>3. IsRequest(rec) /\ rec.built = built
    BY RequestWith, Zenon DEF RowsInv
  <2>4. at \in {"path", "done"}
    OBVIOUS
  <2> HIDE DEF rec, at
  <2>5. reader'.built = built
    BY <2>1, <2>3, <2>4, GotoType
  <2> QED
    BY <2>1, <2>2, <2>5 DEF MeasuresShown
<1> QED
  BY <1>1, <1>2, <1>3, <1>4 DEF Next

(* Of whatever is archived, and whatever a reader is shown from the live   *)
(* tables: the distance is the length of the path, the stretches are the   *)
(* longest pieces off the route without a gap in the signal, with their    *)
(* lengths and their maxima, and the buckets covered are those with        *)
(* a point in them or between two points close in time and along the route.*)
THEOREM MeasuresAreAlwaysTrue ==
  NoneIsNull => (Spec => MeasuresAreTrue)
<1> SUFFICES ASSUME NoneIsNull PROVE Spec => MeasuresAreTrue
  OBVIOUS
<1>1. Init => RowsInv
  BY RowsInit
<1>2. RowsInv /\ [Next]_vars => RowsInv'
  BY RowsKeep
<1>3. RowsInv /\ [Next]_vars => [MeasuresShown]_vars
  BY StepMeasures
<1>4. [][MeasuresShown]_vars => MeasuresAreTrue
  BY DEF MeasuresShown, MeasuresAreTrue
<1> QED
  BY <1>1, <1>2, <1>3, <1>4, PTL DEF Spec

(* Whatever readers do meanwhile: what is archived of a run accounts for   *)
(* every fix that the archiver takes from the live table.                  *)
THEOREM TracksAreComplete ==
  Spec => [][track = NONE /\ track' # NONE =>
               PathIsSound(track'.built, ToSet(positions))]_vars
<1> DEFINE Kept == track = NONE /\ track' # NONE =>
                     PathIsSound(track'.built, ToSet(positions))
<1>1. Init => RowsInv
  BY RowsInit
<1>2. RowsInv /\ [Next]_vars => RowsInv'
  BY RowsKeep
<1>3. ASSUME RowsInv, [Next]_vars PROVE Kept
  <2>1. track' = track \/ Archive
    BY <1>3 DEF Next, vars, StoreFix, EndRun, Redraw, Ask, FindArchived, FindSession, LoadPoints,
       LoadRoutePath, Answer
  <2>2. CASE Archive
    <3>1. track'.built = Build(Row)
      BY <2>2 DEF Archive
    <3>2. positions \in Seq(Fix) /\ IsRow(Row)
      BY <1>3 DEF RowsInv, IsRow, Row
    <3> QED
      BY <3>1, <3>2, BuildIsSound
  <2> QED
    BY <2>1, <2>2
<1>4. RowsInv /\ [Next]_vars => [Kept]_vars
  BY <1>3
<1> QED
  BY <1>1, <1>2, <1>4, PTL DEF Spec
=============================================================================
