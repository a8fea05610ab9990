------------------------- MODULE RouteArchiveProofs -------------------------
(***************************************************************************)
(* Proofs about RouteArchive, for any number of instances, runs, fixes and *)
(* batches, and failures and crashes at any statement: the type invariant, *)
(* ListedOnce and, as long as no fix comes late and no driver is deleted,  *)
(* ClaimedFixesAreKept and the refinement of RunHistory.                   *)
(***************************************************************************)
EXTENDS RouteArchive, TLAPS

-----------------------------------------------------------------------------
(* Types                                                                   *)

LEMMA DayType == ASSUME NEW t \in Nat PROVE Day(t) \in Nat
  BY BoundsAssumption DEF Day

LEMMA RestingType == Resting \in Pass /\ PassOk(Resting) /\ Resting.at = "pending"
  BY DEF Resting, Pass, PassOk, OrNone

LEMMA Firsts ==
  ASSUME NEW S \in SUBSET Runs, NEW r \in First(S)
  PROVE  r \in OrNone(Runs) /\ (r = NONE <=> S = {}) /\ (r # NONE => r \in S)
<1>1. NONE \notin Runs
  BY NoneAssumption, BoundsAssumption DEF Runs
<1>2. CASE S = {}
  BY <1>2 DEF First, OrNone
<1>3. CASE S # {}
  BY <1>1, <1>3 DEF First, OrNone
<1> QED
  BY <1>2, <1>3

LEMMA SetType ==
  ASSUME TypeOK, NEW i \in Instances, NEW rec \in Pass, PassOk(rec), Set(i, rec)
  PROVE  pass' \in [Instances -> Pass] /\ \A j \in Instances : PassOk(pass'[j])
  BY DEF TypeOK, Set

\* Between two runs of a batch, and at its end, an archiver holds no row.
LEMMA AdvanceType ==
  ASSUME TypeOK, NEW i \in Instances, NEW failed \in SUBSET Runs, Advance(i, failed)
  PROVE  \E rec \in Pass :
           /\ PassOk(rec) /\ Set(i, rec)
           /\ rec.at \in {"session", "pending", "orphans"}
<1> DEFINE rest == pass[i].todo \ {pass[i].run}
           rec(r) == [Resting EXCEPT !.at = IF r # NONE THEN "session"
                                            ELSE IF pass[i].full THEN "pending" ELSE "orphans",
                                     !.failed = failed, !.todo = rest, !.run = r,
                                     !.full = pass[i].full]
<1>1. PICK r \in First(rest) : Set(i, rec(r))
  BY Zenon DEF Advance
<1>2. rest \in SUBSET Runs /\ pass[i].full \in BOOLEAN
  BY DEF TypeOK, Pass
<1>3. r \in OrNone(Runs)
  BY <1>1, <1>2, Firsts
<1> HIDE DEF rest
<1>4. /\ rec(r).at = IF r # NONE THEN "session" ELSE IF pass[i].full THEN "pending" ELSE "orphans"
      /\ rec(r).run = r /\ rec(r).row = NONE
  BY DEF Resting
<1>5. rec(r) \in Pass
  BY <1>2, <1>3, RestingType DEF Pass, OrNone
<1>6. PassOk(rec(r)) /\ rec(r).at \in {"session", "pending", "orphans"}
  BY <1>2, <1>4 DEF PassOk
<1> QED
  BY <1>1, <1>5, <1>6

LEMMA TypeStep == TypeOK /\ [Next]_vars => TypeOK'
<1> SUFFICES ASSUME TypeOK, [Next]_vars PROVE TypeOK'
  OBVIOUS
<1> USE DEF world
<1>1. ASSUME NEW i \in Instances, NEW rec \in Pass, PassOk(rec), Set(i, rec),
             upsets' \in Nat, UNCHANGED <<now, world, positions, tracks, listing>>
      PROVE  TypeOK'
  BY <1>1, SetType DEF TypeOK
<1>2. ASSUME NEW i \in Instances, NEW failed \in SUBSET Runs, Advance(i, failed),
             upsets' \in Nat, UNCHANGED <<now, world, positions, tracks, listing>>
      PROVE  TypeOK'
  BY <1>1, <1>2, AdvanceType
<1>3. ASSUME NEW S PROVE Erase(S) => positions' \in [Fixes -> OrNone(Position)]
  BY DEF TypeOK, Erase, OrNone
<1>4. ASSUME NEW kind, Upset(kind) PROVE upsets' \in Nat
  BY <1>4 DEF Upset, TypeOK
<1>5. ASSUME NEW i \in Instances, FindPending(i) PROVE TypeOK'
  <2> DEFINE found == Batch(Pending(pass[i].failed))
             rec(r) == [pass[i] EXCEPT !.at = IF r = NONE THEN "orphans" ELSE "session",
                                       !.todo = found, !.run = r,
                                       !.full = Cardinality(found) = BatchSize]
  <2>1. PICK r \in First(found) : Set(i, rec(r))
    BY <1>5, Zenon DEF FindPending
  <2>2. found \in SUBSET Runs
    BY DEF Batch, Pending
  <2>3. r \in OrNone(Runs)
    BY <2>1, <2>2, Firsts
  <2>4. pass[i] \in Pass /\ PassOk(pass[i]) /\ pass[i].at = "pending"
    BY <1>5 DEF TypeOK, FindPending
  <2>5. (Cardinality(found) = BatchSize) \in BOOLEAN
    OBVIOUS
  <2> HIDE DEF found
  <2>6. rec(r) \in Pass /\ PassOk(rec(r))
    <3>1. rec(r) \in Pass
      BY <2>2, <2>3, <2>4, <2>5 DEF Pass
    <3>2. /\ rec(r).at = IF r = NONE THEN "orphans" ELSE "session"
          /\ rec(r).run = r /\ rec(r).row = pass[i].row
      BY <2>4 DEF Pass
    <3> QED
      BY <2>4, <3>1, <3>2 DEF PassOk
  <2>7. upsets' \in Nat /\ UNCHANGED <<now, world, positions, tracks, listing>>
    BY <1>5 DEF FindPending, TypeOK
  <2> QED
    BY <1>1, <2>1, <2>6, <2>7
<1>6. ASSUME NEW i \in Instances, LoadSession(i) PROVE TypeOK'
  <2>1. pass[i] \in Pass /\ pass[i].run \in Runs /\ PassOk(pass[i]) /\ pass[i].at = "session"
    BY <1>6 DEF TypeOK, LoadSession, Pass, PassOk, OrNone
  <2>2. upsets' \in Nat /\ UNCHANGED <<now, world, positions, tracks, listing>>
    BY <1>6 DEF LoadSession, TypeOK
  <2>3. CASE ~HasEnded(pass[i].run)
    <3>1. Advance(i, pass[i].failed) /\ pass[i].failed \in SUBSET Runs
      BY <1>6, <2>1, <2>3 DEF LoadSession, Pass
    <3> QED
      BY <1>2, <2>2, <3>1
  <2>4. CASE HasEnded(pass[i].run)
    <3> DEFINE rec == [pass[i] EXCEPT !.at = "points", !.row = sessions[pass[i].run]]
    <3>1. sessions[pass[i].run] \in Session /\ sessions[pass[i].run] # NONE
      BY <2>1, <2>4 DEF TypeOK, HasEnded, OrNone
    <3>2. rec \in Pass /\ PassOk(rec)
      BY <2>1, <3>1 DEF Pass, PassOk, OrNone
    <3>3. Set(i, rec)
      BY <1>6, <2>4 DEF LoadSession
    <3> QED
      BY <1>1, <2>2, <3>2, <3>3
  <2> QED
    BY <2>3, <2>4
<1>7. ASSUME NEW i \in Instances, LoadPoints(i) PROVE TypeOK'
  <2> DEFINE rec == [pass[i] EXCEPT !.at = "insert", !.points = Selected(pass[i].run, pass[i].row)]
  <2>1. pass[i] \in Pass /\ PassOk(pass[i]) /\ pass[i].at = "points"
    BY <1>7 DEF TypeOK, LoadPoints
  <2>2. Selected(pass[i].run, pass[i].row) \in SUBSET Fixes
    BY DEF Selected
  <2>3. rec \in Pass /\ PassOk(rec)
    BY <2>1, <2>2 DEF Pass, PassOk
  <2>4. Set(i, rec) /\ upsets' \in Nat /\ UNCHANGED <<now, world, positions, tracks, listing>>
    BY <1>7 DEF LoadPoints, TypeOK
  <2> QED
    BY <1>1, <2>3, <2>4
<1>8. ASSUME NEW i \in Instances, InsertTrack(i) PROVE TypeOK'
  <2> DEFINE rec == [pass[i] EXCEPT !.at = "delete", !.inserted = ~Archived(pass[i].run)]
  <2>1. pass[i] \in Pass /\ PassOk(pass[i]) /\ pass[i].at = "insert"
    BY <1>8 DEF TypeOK, InsertTrack
  <2>2. (~Archived(pass[i].run)) \in BOOLEAN
    BY DEF Archived
  <2>3. rec \in Pass /\ PassOk(rec)
    BY <2>1, <2>2 DEF Pass, PassOk
  <2>4. Set(i, rec) /\ upsets' \in Nat /\ UNCHANGED <<now, world, positions, tracks, listing>>
    BY <1>8 DEF InsertTrack, TypeOK
  <2> QED
    BY <1>1, <2>3, <2>4
<1>9. ASSUME NEW i \in Instances, DeleteAndCommit(i) PROVE TypeOK'
  <2>1. pass[i] \in Pass /\ PassOk(pass[i]) /\ pass[i].at = "delete"
    BY <1>9 DEF TypeOK, DeleteAndCommit
  <2>2. pass[i].row \in Session /\ pass[i].points \in SUBSET Fixes /\ pass[i].failed \in SUBSET Runs
    BY <2>1 DEF Pass, PassOk, OrNone
  <2>3. NewTrack(i) \in Track
    BY <2>2, DayType DEF NewTrack, Track, Session
  <2>4. tracks' \in [Runs -> OrNone(Track)]
    BY <1>9, <2>3 DEF DeleteAndCommit, NewTracks, TypeOK, OrNone
  <2>5. PICK rec \in Pass : PassOk(rec) /\ Set(i, rec)
    BY <1>9, <2>2, AdvanceType DEF DeleteAndCommit
  <2>6. positions' \in [Fixes -> OrNone(Position)]
    BY <1>3, <1>9 DEF DeleteAndCommit
  <2> QED
    BY <1>9, <2>4, <2>5, <2>6, SetType DEF DeleteAndCommit, TypeOK
<1>10. ASSUME NEW i \in Instances, ArchiveFails(i) PROVE TypeOK'
  <2>1. pass[i].failed \cup {pass[i].run} \in SUBSET Runs
    BY <1>10 DEF TypeOK, ArchiveFails, Pass, PassOk, OrNone
  <2>2. upsets' \in Nat
    BY <1>4, <1>10 DEF ArchiveFails, TypeOK
  <2>3. /\ Advance(i, pass[i].failed \cup {pass[i].run})
        /\ UNCHANGED <<now, world, positions, tracks, listing>>
    BY <1>10 DEF ArchiveFails
  <2> QED
    BY <1>2, <2>1, <2>2, <2>3
<1>11. ASSUME NEW i \in Instances, DeleteOrphanFixes(i) \/ PassEnds(i) PROVE TypeOK'
  <2>1. Set(i, Resting) /\ upsets' \in Nat /\ UNCHANGED <<now, world, tracks, listing>>
    BY <1>4, <1>11 DEF DeleteOrphanFixes, PassEnds, TypeOK
  <2>2. positions' \in [Fixes -> OrNone(Position)]
    BY <1>3, <1>11 DEF DeleteOrphanFixes, PassEnds, TypeOK
  <2> QED
    BY <2>1, <2>2, RestingType, SetType DEF TypeOK
<1>12. ASSUME NEW day \in ListDays, ListArchived(day) PROVE TypeOK'
  BY <1>12, BoundsAssumption DEF ListArchived, TypeOK, Listing
<1>13. CASE ListLive
  BY <1>13, Zenon DEF ListLive, LiveOn, TypeOK, Listing
<1>14. ASSUME NEW d \in Drivers, NEW t \in Trucks, StartRun(d, t) PROVE TypeOK'
  <2>1. [driver |-> d, truck |-> t, from |-> now, to |-> NONE] \in Session
    BY DEF Session, TypeOK, OrNone
  <2>2. nextRun' \in 1..(MaxRuns + 1)
    BY <1>14, BoundsAssumption DEF StartRun, TypeOK, Runs
  <2> QED
    BY <1>14, <2>1, <2>2 DEF StartRun, TypeOK, OrNone
<1>15. ASSUME NEW r \in Runs, NEW t \in 0..MaxTime, EndRun(r, t) PROVE TypeOK'
  <2>1. sessions[r] \in Session
    BY <1>15 DEF EndRun, TypeOK, OrNone
  <2>2. [sessions[r] EXCEPT !.to = t] \in Session
    BY <2>1 DEF Session, OrNone
  <2> QED
    BY <1>15, <2>2 DEF EndRun, TypeOK, OrNone
<1>16. ASSUME NEW r \in Runs, NEW f \in Fixes, NEW t \in 0..MaxTime, StoreFix(r, f, t)
       PROVE  TypeOK'
  <2>1. sessions[r] \in Session
    BY <1>16 DEF StoreFix, TypeOK, OrNone
  <2>2. [run |-> r, truck |-> sessions[r].truck, at |-> t] \in Position
    BY <2>1 DEF Session, Position, OrNone
  <2>3. upsets' \in Nat
    BY <1>4, <1>16 DEF StoreFix, TypeOK
  <2> QED
    BY <1>16, <2>2, <2>3 DEF StoreFix, TypeOK, OrNone
<1>17. ASSUME NEW d \in Drivers, RemoveDriver(d) PROVE TypeOK'
  <2>1. upsets' \in Nat
    BY <1>4, <1>17 DEF RemoveDriver
  <2>2. \A f \in Fixes : Stored(f) => [positions[f] EXCEPT !.run = NONE] \in Position
    BY DEF TypeOK, Stored, Position, OrNone
  <2>3. positions' \in [Fixes -> OrNone(Position)]
    BY <1>17, <2>2 DEF RemoveDriver, TypeOK, OrNone
  <2>4. sessions' \in [Runs -> OrNone(Session)]
    BY <1>17 DEF RemoveDriver, TypeOK, OrNone
  <2> QED
    BY <1>17, <2>1, <2>3, <2>4 DEF RemoveDriver, TypeOK
<1>18. CASE Tick
  BY <1>18 DEF Tick, TypeOK
<1>19. CASE UNCHANGED vars
  BY <1>19 DEF vars, TypeOK
<1> QED
  BY <1>5, <1>6, <1>7, <1>8, <1>9, <1>10, <1>11, <1>12, <1>13, <1>14, <1>15, <1>16, <1>17,
     <1>18, <1>19 DEF Next, Archiver

(* Type correctness, for every value of the constants and with every kind  *)
(* of upset.                                                               *)
THEOREM TypesKept == Spec => []TypeOK
<1>1. Init => TypeOK
  BY RestingType, BoundsAssumption
     DEF Init, TypeOK, Stored, Position, OrNone, NoListing, Listing, Runs
<1> QED
  BY <1>1, TypeStep, PTL DEF Spec

-----------------------------------------------------------------------------
(* A listing                                                               *)

ListingInv ==
  /\ listing.archived \subseteq {r \in Runs : Archived(r)}
  /\ listing.live \cap listing.archived = {}

\* route_tracks only grows.
LEMMA TracksStay ==
  ASSUME TypeOK, [Next]_vars, NEW r \in Runs, Archived(r)
  PROVE  Archived(r)'
<1>1. ASSUME UNCHANGED tracks PROVE Archived(r)'
  BY <1>1 DEF Archived
<1>2. ASSUME NEW i \in Instances, DeleteAndCommit(i) PROVE Archived(r)'
  <2>1. pass[i] \in Pass /\ PassOk(pass[i]) /\ pass[i].at = "delete"
    BY <1>2 DEF TypeOK, DeleteAndCommit
  <2>2. pass[i].row \in Session /\ pass[i].points \in SUBSET Fixes
    BY <2>1 DEF Pass, PassOk, OrNone
  <2>3. NewTrack(i) \in Track
    BY <2>2, DayType DEF NewTrack, Track, Session
  <2>4. NewTrack(i) # NONE
    BY <2>3, RowAssumption
  <2> QED
    BY <1>2, <2>4 DEF DeleteAndCommit, NewTracks, Archived, TypeOK
<1>3. ASSUME NEW i \in Instances, Archiver(i) PROVE Archived(r)'
  BY <1>1, <1>2, <1>3, Zenon DEF Archiver, FindPending, LoadSession, LoadPoints, InsertTrack,
     ArchiveFails, DeleteOrphanFixes, PassEnds
<1>4. CASE UNCHANGED vars
  BY <1>1, <1>4 DEF vars
<1> QED
  BY <1>1, <1>3, <1>4 DEF Next, ListArchived, ListLive, StartRun, EndRun, StoreFix,
     RemoveDriver, Tick

LEMMA ListingStep == TypeOK /\ ListingInv /\ [Next]_vars => ListingInv'
<1> SUFFICES ASSUME TypeOK, ListingInv, [Next]_vars PROVE ListingInv'
  OBVIOUS
<1>1. \A r \in Runs : Archived(r) => Archived(r)'
  BY TracksStay
<1>2. ASSUME UNCHANGED listing PROVE ListingInv'
  BY <1>1, <1>2 DEF ListingInv
<1>3. ASSUME NEW day \in ListDays, ListArchived(day) PROVE ListingInv'
  BY <1>1, <1>3 DEF ListArchived, ListingInv
<1>4. CASE ListLive
  <2>1. listing'.archived = listing.archived /\ listing'.live = LiveOn(listing.day)
    BY <1>4 DEF ListLive, TypeOK, Listing
  <2> QED
    BY <1>1, <2>1 DEF ListingInv, LiveOn
<1>5. ASSUME NEW i \in Instances, Archiver(i) PROVE UNCHANGED listing
  BY <1>5, Zenon DEF Archiver, FindPending, LoadSession, LoadPoints, InsertTrack, DeleteAndCommit,
     ArchiveFails, DeleteOrphanFixes, PassEnds
<1>6. CASE UNCHANGED vars
  BY <1>2, <1>6 DEF vars
<1> QED
  BY <1>2, <1>3, <1>4, <1>5, <1>6 DEF Next, StartRun, EndRun, StoreFix, RemoveDriver, Tick

(* listByDate never shows a run twice, whatever the archivers commit       *)
(* between its two queries.                                                *)
THEOREM RunsListedOnce == Spec => []ListedOnce
<1>1. Init => TypeOK /\ ListingInv
  BY RestingType, BoundsAssumption
     DEF Init, TypeOK, Stored, Position, OrNone, NoListing, Listing, Runs, ListingInv
<1>2. ListingInv => ListedOnce
  BY DEF ListingInv, ListedOnce
<1> QED
  BY <1>1, <1>2, TypeStep, ListingStep, PTL DEF Spec

-----------------------------------------------------------------------------
(* The invariant behind ClaimedFixesAreKept and ImplementsRunHistory       *)

\* Fixes are stored under open runs only, and drivers stay.
Orderly == "late" \notin Upsets /\ "remove" \notin Upsets

FiledUnder(r, f) == Stored(f) /\ positions[f].run = r

\* Rows are created in order, and a fix is where it was filed.
WorldInv ==
  /\ \A r \in Runs : r >= nextRun => sessions[r] = NONE
  /\ \A f \in Fixes : Stored(f) =>
       IF positions[f].run = NONE THEN f \in Legacy
       ELSE filed[f] = positions[f].run /\ sessions[filed[f]] # NONE
  /\ \A f \in Legacy : filed[f] = NONE

\* An archived run has ended and has left nothing behind.
ArchivedInv ==
  \A r \in Runs : Archived(r) => HasEnded(r) /\ Selected(r, sessions[r]) = {}

\* What a transaction of archiveOne has read is still true of what it will delete.
LoadedOk(p) ==
  /\ p.at \in {"points", "insert", "delete"} => HasEnded(p.run) /\ p.row = sessions[p.run]
  /\ p.at \in {"insert", "delete"} =>
       /\ Selected(p.run, p.row) \subseteq p.points
       /\ ~Archived(p.run) =>
            \A f \in Fixes : f \in p.points /\ filed[f] = p.run <=> FiledUnder(p.run, f)
  /\ p.at = "delete" => (p.inserted <=> ~Archived(p.run))

\* The unique key lets one transaction at a time insert the track of a run.
LockInv ==
  \A i, j \in Instances :
    /\ i # j /\ pass[i].at = "delete" /\ pass[j].at = "delete"
    /\ pass[i].inserted /\ pass[j].inserted
    => pass[i].run # pass[j].run

IInv ==
  /\ TypeOK /\ WorldInv /\ ArchivedInv /\ LockInv
  /\ \A i \in Instances : LoadedOk(pass[i])

LEMMA NoneNotRun == NONE \notin Runs
  BY NoneAssumption, BoundsAssumption DEF Runs

\* What an archiver's step may change, and whose pass it is.
LEMMA ArchiverFrame ==
  ASSUME NEW i \in Instances, Archiver(i)
  PROVE  /\ UNCHANGED <<now, sessions, nextRun, filed, listing>>
         /\ DeleteAndCommit(i) \/ UNCHANGED tracks
         /\ DeleteAndCommit(i) \/ Erase(Orphans) \/ UNCHANGED positions
         /\ \E rec : Set(i, rec)
  BY Zenon DEF Archiver, FindPending, LoadSession, LoadPoints, InsertTrack, DeleteAndCommit,
     ArchiveFails, DeleteOrphanFixes, PassEnds, Advance, world

\* Everything that happens outside the archivers, as long as it is orderly.
LEMMA OtherSteps ==
  ASSUME Orderly, [Next]_vars, ~\E i \in Instances : Archiver(i)
  PROVE  /\ UNCHANGED <<tracks, pass>>
         /\ \/ \E r \in Runs, f \in Fixes, t \in 0..MaxTime : ~HasEnded(r) /\ StoreFix(r, f, t)
            \/ UNCHANGED <<positions, filed>>
         /\ \/ \E d \in Drivers, t \in Trucks : StartRun(d, t)
            \/ \E r \in Runs, t \in 0..MaxTime : EndRun(r, t)
            \/ UNCHANGED <<sessions, nextRun>>
<1>1. \A d \in Drivers : ~RemoveDriver(d)
  BY DEF Orderly, RemoveDriver, Upset
<1>2. ASSUME NEW r \in Runs, NEW f \in Fixes, NEW t \in 0..MaxTime, StoreFix(r, f, t)
      PROVE  ~HasEnded(r)
  BY <1>2 DEF StoreFix, Orderly, Upset
<1> QED
  BY <1>1, <1>2 DEF Next, ListArchived, ListLive, StartRun, EndRun, StoreFix, Tick, vars, world

\* Sessions are never dropped, and one that has ended is never touched.
LEMMA EndedStay ==
  ASSUME TypeOK, WorldInv, Orderly, [Next]_vars, NEW r \in Runs
  PROVE  /\ sessions[r] # NONE => sessions'[r] # NONE
         /\ HasEnded(r) => sessions'[r] = sessions[r] /\ HasEnded(r)'
<1>1. ASSUME UNCHANGED sessions PROVE sessions'[r] = sessions[r]
  BY <1>1
<1>2. ASSUME NEW d \in Drivers, NEW t \in Trucks, StartRun(d, t), sessions[r] # NONE
      PROVE  sessions'[r] = sessions[r]
  <2>1. sessions[nextRun] = NONE
    BY <1>2 DEF StartRun, WorldInv, Runs
  <2> QED
    BY <1>2, <2>1 DEF StartRun, TypeOK
<1>3. ASSUME NEW q \in Runs, NEW t \in 0..MaxTime, EndRun(q, t)
      PROVE  /\ sessions[r] # NONE => sessions'[r] # NONE
             /\ HasEnded(r) => sessions'[r] = sessions[r]
  <2>1. sessions[q] \in Session /\ t \in Nat
    BY <1>3 DEF EndRun, TypeOK, OrNone
  <2>2. [sessions[q] EXCEPT !.to = t] \in Session
    BY <2>1 DEF Session, OrNone
  <2>3. [sessions[q] EXCEPT !.to = t] # NONE
    BY <2>2, RowAssumption
  <2> QED
    BY <1>3, <2>3 DEF EndRun, TypeOK
<1>4. CASE \E i \in Instances : Archiver(i)
  BY <1>4, ArchiverFrame DEF HasEnded
<1>5. CASE ~\E i \in Instances : Archiver(i)
  BY <1>1, <1>2, <1>3, <1>5, OtherSteps DEF HasEnded
<1> QED
  BY <1>4, <1>5

\* What a step may do to one fix: nothing, erase it, or store it for the first time.
Left(f) == positions'[f] = positions[f] /\ filed'[f] = filed[f]
Erased(f) == positions'[f] = NONE /\ filed'[f] = filed[f]
Received(f) ==
  /\ filed[f] = NONE /\ f \notin Legacy /\ positions'[f] # NONE
  /\ \E r \in Runs : /\ sessions[r] # NONE /\ ~HasEnded(r)
                     /\ filed'[f] = r /\ positions'[f].run = r

LEMMA FixStep ==
  ASSUME TypeOK, Orderly, [Next]_vars, NEW f \in Fixes
  PROVE  Left(f) \/ Received(f) \/ (Erased(f) /\ \E i \in Instances : Archiver(i))
<1>1. ASSUME NEW i \in Instances, Archiver(i) PROVE Left(f) \/ Erased(f)
  <2>1. UNCHANGED filed
    BY <1>1, ArchiverFrame
  <2>2. (\E S : Erase(S)) \/ UNCHANGED positions
    BY <1>1, ArchiverFrame DEF DeleteAndCommit
  <2> QED
    BY <2>1, <2>2 DEF Left, Erased, Erase
<1>2. ASSUME NEW r \in Runs, NEW g \in Fixes, NEW t \in 0..MaxTime, ~HasEnded(r), StoreFix(r, g, t)
      PROVE  Left(f) \/ Received(f)
  <2> DEFINE p == [run |-> r, truck |-> sessions[r].truck, at |-> t]
  <2>1. sessions[r] \in Session /\ t \in Nat
    BY <1>2 DEF StoreFix, TypeOK, OrNone
  <2>2. p \in Position
    BY <2>1 DEF Position, Session, OrNone
  <2>3. p # NONE
    BY <2>2, RowAssumption
  <2>4. p.run = r
    OBVIOUS
  <2>5. positions' = [positions EXCEPT ![g] = p] /\ filed' = [filed EXCEPT ![g] = r]
    BY <1>2 DEF StoreFix
  <2>6. CASE f = g
    <3>1. positions'[f] = p /\ filed'[f] = r
      BY <2>5, <2>6 DEF TypeOK
    <3> QED
      BY <1>2, <2>3, <2>4, <2>6, <3>1 DEF Received, StoreFix
  <2>7. CASE f # g
    BY <2>5, <2>7 DEF Left, TypeOK
  <2> QED
    BY <2>6, <2>7
<1>3. CASE \E i \in Instances : Archiver(i)
  BY <1>1, <1>3
<1>4. CASE ~\E i \in Instances : Archiver(i)
  BY <1>2, <1>4, OtherSteps DEF Left
<1> QED
  BY <1>3, <1>4

\* The selection of a run that has ended only shrinks.
LEMMA SelectionShrinks ==
  ASSUME TypeOK, Orderly, [Next]_vars, NEW r \in Runs, HasEnded(r), NEW row, row.to # NONE
  PROVE  Selected(r, row)' \subseteq Selected(r, row)
<1> SUFFICES ASSUME NEW f \in Fixes, f \in Selected(r, row)' PROVE f \in Selected(r, row)
  BY DEF Selected
<1>1. positions'[f] # NONE
  BY DEF Selected, Stored
<1>2. \/ positions'[f].run = r
      \/ /\ positions'[f].run = NONE /\ positions'[f].truck = row.truck
         /\ row.from <= positions'[f].at /\ positions'[f].at <= row.to
  BY DEF Selected, InWindow, Upto
<1>3. CASE positions'[f] = positions[f]
  BY <1>1, <1>2, <1>3 DEF Selected, Stored, InWindow, Upto
<1>4. ~Received(f)
  BY <1>2, NoneNotRun DEF Received
<1> QED
  BY <1>1, <1>3, <1>4, FixStep DEF Left, Erased

\* Only an instance that has inserted the track of a run makes it history.
LEMMA ArchivedStep ==
  ASSUME TypeOK, Orderly, [Next]_vars, NEW r \in Runs, Archived(r)', ~Archived(r)
  PROVE  \E i \in Instances : DeleteAndCommit(i) /\ pass[i].inserted /\ pass[i].run = r
<1>1. tracks' # tracks
  BY DEF Archived
<1>2. PICK i \in Instances : DeleteAndCommit(i)
  BY <1>1, ArchiverFrame, OtherSteps
<1> QED
  BY <1>2 DEF DeleteAndCommit, NewTracks, Archived, TypeOK

\* What an archiver has loaded, by the types.
LEMMA LoadedType ==
  ASSUME TypeOK, NEW i \in Instances, pass[i].at \in {"points", "insert", "delete"}
  PROVE  pass[i].run \in Runs /\ pass[i].row \in Session /\ pass[i].points \in SUBSET Fixes
  BY DEF TypeOK, Pass, PassOk, OrNone

\* A run that has ended and is not history keeps the fixes filed under it.
LEMMA FiledStay ==
  ASSUME IInv, Orderly, [Next]_vars, NEW r \in Runs, HasEnded(r), ~Archived(r)', NEW f \in Fixes
  PROVE  FiledUnder(r, f)' <=> FiledUnder(r, f)
<1> USE DEF IInv
<1>1. ~Archived(r)
  BY TracksStay
<1>2. ASSUME positions'[f] # positions[f], NEW i \in Instances, Archiver(i)
      PROVE  ~FiledUnder(r, f)
  <2>1. CASE DeleteAndCommit(i)
    <3>1. pass[i].at = "delete" /\ f \in Selected(pass[i].run, pass[i].row)
      BY <1>2, <2>1 DEF DeleteAndCommit, Erase, Selected
    <3>2. positions[f].run # r \/ pass[i].run = r
      BY <3>1, NoneNotRun DEF Selected, InWindow
    <3>3. ASSUME pass[i].run = r PROVE FALSE
      <4>1. pass[i].inserted
        BY <1>1, <3>1, <3>3 DEF LoadedOk
      <4>2. pass[i].row \in Session /\ pass[i].points \in SUBSET Fixes
        BY <3>1, LoadedType
      <4>3. NewTrack(i) # NONE
        BY <4>2, DayType, RowAssumption DEF NewTrack, Track, Session
      <4> QED
        BY <2>1, <3>3, <4>1, <4>3 DEF DeleteAndCommit, NewTracks, Archived, TypeOK
    <3> QED
      BY <3>2, <3>3 DEF FiledUnder
  <2>2. CASE ~DeleteAndCommit(i)
    <3>1. f \in Orphans
      BY <1>2, <2>2, ArchiverFrame DEF Erase
    <3> QED
      BY <1>1, <3>1, NoneNotRun DEF Orphans, FiledUnder
  <2> QED
    BY <2>1, <2>2
<1>3. CASE positions'[f] = positions[f]
  BY <1>3 DEF FiledUnder, Stored
<1>4. CASE Received(f)
  <2>1. positions'[f].run # r
    BY <1>4 DEF Received
  <2>2. ~FiledUnder(r, f)
    BY <1>4, NoneNotRun DEF Received, WorldInv, FiledUnder
  <2> QED
    BY <2>1, <2>2 DEF FiledUnder
<1>5. ASSUME positions'[f] # positions[f], Erased(f), NEW i \in Instances, Archiver(i)
      PROVE  FiledUnder(r, f)' <=> FiledUnder(r, f)
  BY <1>2, <1>5 DEF FiledUnder, Stored, Erased
<1> QED
  BY <1>3, <1>4, <1>5, FixStep DEF Left

LEMMA WorldStep == IInv /\ Orderly /\ [Next]_vars => WorldInv'
<1> SUFFICES ASSUME IInv, Orderly, [Next]_vars PROVE WorldInv'
  OBVIOUS
<1> USE DEF IInv
<1>1. ASSUME NEW r \in Runs, r >= nextRun' PROVE sessions'[r] = NONE
  <2>1. CASE UNCHANGED <<sessions, nextRun>>
    BY <1>1, <2>1 DEF WorldInv
  <2>2. ASSUME NEW d \in Drivers, NEW t \in Trucks, StartRun(d, t) PROVE sessions'[r] = NONE
    <3>1. r # nextRun /\ r >= nextRun
      BY <1>1, <2>2 DEF StartRun, TypeOK, Runs
    <3> QED
      BY <2>2, <3>1 DEF StartRun, TypeOK, WorldInv
  <2>3. ASSUME NEW q \in Runs, NEW t \in 0..MaxTime, EndRun(q, t) PROVE sessions'[r] = NONE
    BY <1>1, <2>3 DEF EndRun, TypeOK, WorldInv
  <2> QED
    BY <2>1, <2>2, <2>3, ArchiverFrame, OtherSteps
<1>2. ASSUME NEW f \in Fixes, Stored(f)'
      PROVE  IF positions'[f].run = NONE THEN f \in Legacy
             ELSE filed'[f] = positions'[f].run /\ sessions'[filed'[f]] # NONE
  <2>1. CASE Left(f)
    <3>1. Stored(f)
      BY <1>2, <2>1 DEF Left, Stored
    <3>2. CASE positions[f].run = NONE
      BY <2>1, <3>1, <3>2 DEF Left, WorldInv
    <3>3. CASE positions[f].run # NONE
      <4>1. filed[f] = positions[f].run /\ sessions[filed[f]] # NONE
        BY <3>1, <3>3 DEF WorldInv
      <4>2. filed[f] \in Runs
        BY <3>3, <4>1 DEF TypeOK, OrNone
      <4> QED
        BY <2>1, <3>3, <4>1, <4>2, EndedStay DEF Left
    <3> QED
      BY <3>2, <3>3
  <2>2. CASE Received(f)
    BY <2>2, NoneNotRun, EndedStay DEF Received
  <2>3. ~Erased(f)
    BY <1>2 DEF Erased, Stored
  <2> QED
    BY <2>1, <2>2, <2>3, FixStep
<1>3. ASSUME NEW f \in Legacy PROVE filed'[f] = NONE
  <2>1. f \in Fixes /\ filed[f] = NONE
    BY BoundsAssumption DEF WorldInv
  <2> QED
    BY <2>1, FixStep DEF Left, Erased, Received
<1> QED
  BY <1>1, <1>2, <1>3 DEF WorldInv

LEMMA ArchivedInvStep == IInv /\ Orderly /\ [Next]_vars => ArchivedInv'
<1> SUFFICES ASSUME IInv, Orderly, [Next]_vars, NEW r \in Runs, Archived(r)'
             PROVE  HasEnded(r)' /\ Selected(r, sessions[r])' = {}
  BY DEF ArchivedInv
<1> USE DEF IInv
<1>1. HasEnded(r) => HasEnded(r)' /\ sessions'[r] = sessions[r] /\ sessions[r].to # NONE
  BY EndedStay DEF HasEnded
<1>2. ASSUME NEW row, sessions'[r] = row, Selected(r, row)' = {}
      PROVE  Selected(r, sessions[r])' = {}
  BY <1>2 DEF Selected, InWindow, Upto
<1>3. CASE Archived(r)
  <2> DEFINE row == sessions[r]
  <2>1. HasEnded(r) /\ Selected(r, row) = {} /\ row.to # NONE
    BY <1>3 DEF ArchivedInv, HasEnded
  <2>2. ASSUME NEW w, w = row PROVE Selected(r, w)' = {}
    BY <2>1, <2>2, SelectionShrinks
  <2> QED
    BY <1>1, <1>2, <2>1, <2>2
<1>4. CASE ~Archived(r)
  <2>1. PICK i \in Instances : DeleteAndCommit(i) /\ pass[i].inserted /\ pass[i].run = r
    BY <1>4, ArchivedStep
  <2>2. HasEnded(r) /\ pass[i].row = sessions[r]
    BY <2>1 DEF DeleteAndCommit, LoadedOk
  <2>3. ASSUME NEW w, w = sessions[r] PROVE Selected(r, w)' = {}
    <3>1. w.to # NONE /\ pass[i].row = w
      BY <2>2, <2>3 DEF HasEnded
    <3> SUFFICES ASSUME NEW f \in Fixes, f \in Selected(r, w)' PROVE FALSE
      BY DEF Selected
    <3> QED
      BY <2>1, <3>1 DEF DeleteAndCommit, Erase, Selected, Stored, InWindow, Upto
  <2> QED
    BY <1>1, <1>2, <2>2, <2>3
<1> QED
  BY <1>3, <1>4

\* What an archiver's step makes of its pass.
Between(rec) == rec.at \in {"pending", "session", "orphans"}
HasLoaded(i, rec) ==
  /\ LoadSession(i) /\ HasEnded(pass[i].run)
  /\ rec.at = "points" /\ rec.run = pass[i].run /\ rec.row = sessions[pass[i].run]
HasPoints(i, rec) ==
  /\ LoadPoints(i)
  /\ rec.at = "insert" /\ rec.run = pass[i].run /\ rec.row = pass[i].row
  /\ rec.points = Selected(pass[i].run, pass[i].row)
HasTrack(i, rec) ==
  /\ InsertTrack(i)
  /\ rec.at = "delete" /\ rec.run = pass[i].run /\ rec.row = pass[i].row
  /\ rec.points = pass[i].points /\ (rec.inserted <=> ~Archived(pass[i].run))

LEMMA PassStep ==
  ASSUME TypeOK, NEW i \in Instances, Archiver(i)
  PROVE  \E rec : /\ Set(i, rec)
                  /\ Between(rec) \/ HasLoaded(i, rec) \/ HasPoints(i, rec) \/ HasTrack(i, rec)
<1> DEFINE Goal == \E rec : /\ Set(i, rec)
                            /\ \/ Between(rec) \/ HasLoaded(i, rec)
                               \/ HasPoints(i, rec) \/ HasTrack(i, rec)
<1>1. pass[i] \in Pass /\ PassOk(pass[i]) /\ pass[i].failed \in SUBSET Runs
  BY DEF TypeOK, Pass
<1>2. ASSUME NEW failed \in SUBSET Runs, Advance(i, failed) PROVE Goal
  BY <1>2, AdvanceType DEF Between
<1>3. CASE FindPending(i)
  <2> DEFINE found == Batch(Pending(pass[i].failed))
             rec(r) == [pass[i] EXCEPT !.at = IF r = NONE THEN "orphans" ELSE "session",
                                       !.todo = found, !.run = r,
                                       !.full = Cardinality(found) = BatchSize]
  <2>1. PICK r \in First(found) : Set(i, rec(r))
    BY <1>3, Zenon DEF FindPending
  <2>2. Between(rec(r))
    BY <1>1 DEF Pass, Between
  <2> QED
    BY <2>1, <2>2
<1>4. CASE LoadSession(i) /\ ~HasEnded(pass[i].run)
  BY <1>1, <1>2, <1>4 DEF LoadSession
<1>5. CASE LoadSession(i) /\ HasEnded(pass[i].run)
  <2> DEFINE rec == [pass[i] EXCEPT !.at = "points", !.row = sessions[pass[i].run]]
  <2>1. Set(i, rec)
    BY <1>5 DEF LoadSession
  <2>2. HasLoaded(i, rec)
    BY <1>1, <1>5 DEF Pass, HasLoaded
  <2> QED
    BY <2>1, <2>2
<1>6. CASE LoadPoints(i)
  <2> DEFINE rec == [pass[i] EXCEPT !.at = "insert",
                                    !.points = Selected(pass[i].run, pass[i].row)]
  <2>1. Set(i, rec)
    BY <1>6 DEF LoadPoints
  <2>2. HasPoints(i, rec)
    BY <1>1, <1>6 DEF Pass, HasPoints
  <2> QED
    BY <2>1, <2>2
<1>7. CASE InsertTrack(i)
  <2> DEFINE rec == [pass[i] EXCEPT !.at = "delete", !.inserted = ~Archived(pass[i].run)]
  <2>1. Set(i, rec)
    BY <1>7 DEF InsertTrack
  <2>2. HasTrack(i, rec)
    BY <1>1, <1>7 DEF Pass, HasTrack
  <2> QED
    BY <2>1, <2>2
<1>8. CASE DeleteAndCommit(i)
  BY <1>1, <1>2, <1>8 DEF DeleteAndCommit
<1>9. CASE ArchiveFails(i)
  <2>1. pass[i].failed \cup {pass[i].run} \in SUBSET Runs
    BY <1>1, <1>9 DEF ArchiveFails, Pass, PassOk, OrNone
  <2> QED
    BY <1>2, <1>9, <2>1 DEF ArchiveFails
<1>10. CASE DeleteOrphanFixes(i) \/ PassEnds(i)
  BY <1>10, RestingType DEF DeleteOrphanFixes, PassEnds, Between
<1> QED
  BY <1>3, <1>4, <1>5, <1>6, <1>7, <1>8, <1>9, <1>10 DEF Archiver

LEMMA LockStep == IInv /\ [Next]_vars => LockInv'
<1> SUFFICES ASSUME IInv, [Next]_vars, NEW j \in Instances, NEW k \in Instances, j # k,
                    pass'[j].at = "delete", pass'[k].at = "delete",
                    pass'[j].inserted, pass'[k].inserted
             PROVE  pass'[j].run # pass'[k].run
  BY DEF LockInv
<1> USE DEF IInv
<1>1. CASE UNCHANGED pass
  BY <1>1 DEF LockInv
<1>2. ASSUME NEW i \in Instances, Archiver(i) PROVE pass'[j].run # pass'[k].run
  <2>1. PICK rec : /\ Set(i, rec)
                   /\ \/ Between(rec) \/ HasLoaded(i, rec)
                      \/ HasPoints(i, rec) \/ HasTrack(i, rec)
    BY <1>2, PassStep
  <2>2. CASE rec.at # "delete"
    BY <2>1, <2>2 DEF LockInv, Set, TypeOK
  <2>3. CASE HasTrack(i, rec)
    <3>1. \A q \in Instances :
            pass[q].at = "delete" /\ pass[q].inserted => pass[q].run # rec.run
      BY <2>3 DEF HasTrack, InsertTrack
    <3> QED
      BY <2>1, <3>1 DEF LockInv, Set, TypeOK
  <2> QED
    BY <2>1, <2>2, <2>3 DEF Between, HasLoaded, HasPoints
<1> QED
  BY <1>1, <1>2 DEF Next, ListArchived, ListLive, StartRun, EndRun, StoreFix, RemoveDriver,
     Tick, vars

\* What an instance has loaded stays true while others work.
LEMMA LoadedStays ==
  ASSUME IInv, Orderly, [Next]_vars, NEW j \in Instances, ~DeleteAndCommit(j),
         NEW p, p = pass[j]
  PROVE  LoadedOk(p)'
<1> USE DEF IInv
<1>1. LoadedOk(p)
  OBVIOUS
<1>2. CASE p.at \notin {"points", "insert", "delete"}
  BY <1>2 DEF LoadedOk
<1>3. CASE p.at \in {"points", "insert", "delete"}
  <2>1. p.run \in Runs /\ p.points \in SUBSET Fixes
    BY <1>3, LoadedType
  <2>2. HasEnded(p.run) /\ p.row = sessions[p.run] /\ p.row.to # NONE
    BY <1>1, <1>3 DEF LoadedOk, HasEnded
  <2>3. HasEnded(p.run)' /\ p.row = sessions'[p.run]
    BY <2>1, <2>2, EndedStay
  <2>4. Selected(p.run, p.row)' \subseteq Selected(p.run, p.row)
    BY <2>1, <2>2, SelectionShrinks
  <2>5. Archived(p.run) => Archived(p.run)'
    BY <2>1, TracksStay
  <2>6. ASSUME ~Archived(p.run)', NEW f \in Fixes
        PROVE  /\ FiledUnder(p.run, f)' <=> FiledUnder(p.run, f)
               /\ filed'[f] = p.run <=> filed[f] = p.run
    <3>1. FiledUnder(p.run, f)' <=> FiledUnder(p.run, f)
      BY <2>1, <2>2, <2>6, FiledStay
    <3>2. filed'[f] = p.run <=> filed[f] = p.run
      BY <2>1, <2>2, NoneNotRun, FixStep DEF Left, Erased, Received
    <3> QED
      BY <3>1, <3>2
  <2>7. ASSUME p.at = "delete", ~Archived(p.run), Archived(p.run)' PROVE FALSE
    <3>1. PICK i \in Instances : DeleteAndCommit(i) /\ pass[i].inserted /\ pass[i].run = p.run
      BY <2>1, <2>7, ArchivedStep
    <3>2. i # j /\ pass[i].at = "delete" /\ p.inserted
      BY <1>1, <2>7, <3>1 DEF DeleteAndCommit, LoadedOk
    <3> QED
      BY <2>7, <3>1, <3>2 DEF LockInv
  <2> QED
    BY <1>1, <2>1, <2>2, <2>3, <2>4, <2>5, <2>6, <2>7 DEF LoadedOk
<1> QED
  BY <1>2, <1>3

LEMMA LoadedStep ==
  IInv /\ Orderly /\ [Next]_vars => \A j \in Instances : LoadedOk(pass[j])'
<1> SUFFICES ASSUME IInv, Orderly, [Next]_vars, NEW j \in Instances PROVE LoadedOk(pass[j])'
  OBVIOUS
<1> USE DEF IInv
<1>1. CASE pass'[j] = pass[j] /\ ~DeleteAndCommit(j)
  <2> DEFINE p == pass[j]
  <2>1. ASSUME NEW q, q = p PROVE LoadedOk(q)'
    BY <1>1, <2>1, LoadedStays
  <2> QED
    BY <1>1, <2>1 DEF LoadedOk
<1>2. ASSUME Archiver(j) PROVE LoadedOk(pass[j])'
  <2>1. PICK rec : /\ Set(j, rec)
                   /\ \/ Between(rec) \/ HasLoaded(j, rec)
                      \/ HasPoints(j, rec) \/ HasTrack(j, rec)
    BY <1>2, PassStep
  <2>2. pass'[j] = rec
    BY <2>1 DEF Set, TypeOK
  <2>3. UNCHANGED <<sessions, filed>>
    BY <1>2, ArchiverFrame
  <2>4. CASE Between(rec)
    BY <2>2, <2>4 DEF Between, LoadedOk
  <2>5. CASE HasLoaded(j, rec)
    BY <2>2, <2>3, <2>5 DEF HasLoaded, LoadedOk, HasEnded
  <2>6. ASSUME UNCHANGED <<now, positions, tracks>>, ~Between(rec), rec.at # "points"
        PROVE  /\ HasEnded(rec.run)' <=> HasEnded(rec.run)
               /\ Selected(rec.run, rec.row)' = Selected(rec.run, rec.row)
               /\ Archived(rec.run)' <=> Archived(rec.run)
               /\ \A f \in Fixes : FiledUnder(rec.run, f)' <=> FiledUnder(rec.run, f)
    BY <2>3, <2>6 DEF HasEnded, Selected, Stored, InWindow, Upto, Archived, FiledUnder
  <2>7. CASE HasPoints(j, rec)
    <3>1. pass[j].at = "points" /\ UNCHANGED <<now, positions, tracks>>
      BY <2>7 DEF HasPoints, LoadPoints
    <3>2. rec.run \in Runs /\ HasEnded(rec.run) /\ rec.row = sessions[rec.run]
      BY <2>7, <3>1, LoadedType DEF HasPoints, LoadedOk
    <3>3. \A f \in Fixes :
            f \in Selected(rec.run, rec.row) /\ filed[f] = rec.run <=> FiledUnder(rec.run, f)
      BY <3>2, NoneNotRun DEF Selected, InWindow, FiledUnder, WorldInv
    <3> QED
      BY <2>2, <2>3, <2>6, <2>7, <3>1, <3>2, <3>3 DEF HasPoints, LoadedOk, Between
  <2>8. CASE HasTrack(j, rec)
    <3>1. pass[j].at = "insert" /\ UNCHANGED <<now, positions, tracks>>
      BY <2>8 DEF HasTrack, InsertTrack
    <3> QED
      BY <2>2, <2>3, <2>6, <2>8, <3>1 DEF HasTrack, LoadedOk, Between
  <2> QED
    BY <2>1, <2>4, <2>5, <2>7, <2>8
<1>3. CASE ~Archiver(j)
  <2>1. pass'[j] = pass[j]
    BY <1>3, ArchiverFrame, OtherSteps DEF Set, TypeOK
  <2> QED
    BY <1>1, <1>3, <2>1 DEF Archiver
<1> QED
  BY <1>2, <1>3

LEMMA IInvStep == Orderly /\ IInv /\ [Next]_vars => IInv'
  BY TypeStep, WorldStep, ArchivedInvStep, LockStep, LoadedStep DEF IInv

LEMMA IInvInit == Init => IInv
<1> SUFFICES ASSUME Init PROVE IInv
  OBVIOUS
<1>1. TypeOK
  BY RestingType, BoundsAssumption
     DEF Init, TypeOK, Stored, Position, OrNone, NoListing, Listing, Runs
<1>2. WorldInv
  <2>1. \A f \in Fixes : Stored(f) => positions[f].run = NONE
    BY DEF Init, OrNone, Stored
  <2> QED
    BY <2>1, BoundsAssumption DEF Init, WorldInv, Stored
<1>3. ArchivedInv
  BY DEF Init, ArchivedInv, Archived
<1>4. \A i \in Instances : pass[i].at = "pending"
  BY RestingType DEF Init
<1> QED
  BY <1>1, <1>2, <1>3, <1>4 DEF IInv, LockInv, LoadedOk

(* The invariant holds as long as no fix comes late and no driver is       *)
(* deleted, whatever fails and however many instances archive.             *)
THEOREM Invariance == ASSUME Orderly PROVE Spec => []IInv
  BY IInvInit, IInvStep, PTL DEF Spec

-----------------------------------------------------------------------------
(* ClaimedFixesAreKept                                                     *)

LEMMA ErasedIsKept ==
  ASSUME IInv, Orderly, [Next]_vars, NEW f \in Fixes, Stored(f), positions'[f] = NONE,
         NEW r \in Runs, Claims(r, f)
  PROVE  \E q \in Runs : tracks'[q] # NONE /\ f \in tracks'[q].points
<1> USE DEF IInv
<1>1. PICK i \in Instances : Archiver(i)
  BY FixStep DEF Left, Received, Stored
<1>2. CASE DeleteAndCommit(i)
  <2> DEFINE q == pass[i].run
  <2>1. pass[i].at = "delete" /\ f \in Selected(q, pass[i].row)
    BY <1>2 DEF DeleteAndCommit, Erase, Stored
  <2>2. q \in Runs /\ pass[i].row \in Session /\ pass[i].points \in SUBSET Fixes
    BY <2>1, LoadedType
  <2>3. pass[i].row = sessions[q] /\ f \in pass[i].points /\ (pass[i].inserted <=> ~Archived(q))
    BY <2>1 DEF LoadedOk
  <2>4. pass[i].inserted
    BY <2>1, <2>2, <2>3 DEF ArchivedInv
  <2>5. NewTrack(i) # NONE /\ NewTrack(i).points = pass[i].points
    BY <2>2, DayType, RowAssumption DEF NewTrack, Track, Session
  <2> QED
    BY <1>2, <2>2, <2>3, <2>4, <2>5 DEF DeleteAndCommit, NewTracks, TypeOK
<1>3. CASE ~DeleteAndCommit(i)
  <2>1. f \in Orphans
    BY <1>1, <1>3, ArchiverFrame DEF Erase, Stored
  <2> QED
    BY <2>1, NoneNotRun DEF Orphans, Claims, Selected
<1> QED
  BY <1>2, <1>3

(* No fix that belongs to a run not yet archived is erased without being   *)
(* in a track, for any number of instances and whatever fails: a clause    *)
(* lost from deleteOrphanFixes, or an archiver deleting more than it has   *)
(* loaded, would break it.                                                 *)
THEOREM KeepsClaimedFixes == ASSUME Orderly PROVE Spec => ClaimedFixesAreKept
<1> DEFINE Kept == \A f \in Fixes :
             Stored(f) /\ positions'[f] = NONE /\ (\E r \in Runs : Claims(r, f))
               => \E r \in Runs : tracks'[r] # NONE /\ f \in tracks'[r].points
<1>1. IInv /\ [Next]_vars => [Kept]_vars
  BY ErasedIsKept
<1> QED
  BY <1>1, Invariance, PTL DEF Spec, ClaimedFixesAreKept

-----------------------------------------------------------------------------
(* ImplementsRunHistory                                                    *)

\* A fix that no step stores or erases is shown as before.
LEMMA ShownStays ==
  ASSUME IInv, NEW r \in Runs, UNCHANGED filed, tracks'[r] = tracks[r],
         Archived(r) \/ \A f \in Fixes : FiledUnder(r, f)' <=> FiledUnder(r, f)
  PROVE  Shown(r)' = Shown(r)
<1>1. Archived(r)' <=> Archived(r)
  BY DEF Archived
<1>2. CASE Archived(r)
  BY <1>1, <1>2 DEF Shown
<1>3. CASE ~Archived(r)
  BY <1>1, <1>3 DEF Shown, FiledUnder
<1> QED
  BY <1>2, <1>3

\* The commit of a track is what makes a run history, and shows the same.
LEMMA CommitArchives ==
  ASSUME IInv, Orderly, NEW i \in Instances, DeleteAndCommit(i)
  PROVE  [History!Next]_(History!vars)
<1> USE DEF IInv
<1>1. pass[i].at = "delete" /\ Archiver(i) /\ [Next]_vars
  BY DEF DeleteAndCommit, Archiver, Next
<1>2. /\ pass[i].run \in Runs
      /\ pass[i].row \in Session /\ pass[i].points \in SUBSET Fixes
  BY <1>1, LoadedType
<1> PICK q \in Runs : q = pass[i].run
  BY <1>2
<1>3. HasEnded(q) /\ pass[i].row = sessions[q] /\ (pass[i].inserted <=> ~Archived(q))
  BY <1>1 DEF LoadedOk
<1>4. UNCHANGED filed
  BY <1>1, ArchiverFrame
<1>5. ASSUME NEW r \in Runs, r # q PROVE Shown(r)' = Shown(r) /\ (Archived(r)' <=> Archived(r))
  <2>1. tracks'[r] = tracks[r]
    BY <1>5 DEF DeleteAndCommit, NewTracks
  <2>2. ASSUME NEW f \in Fixes PROVE FiledUnder(r, f)' <=> FiledUnder(r, f)
    <3>1. CASE f \in Selected(q, pass[i].row)
      BY <1>5, <3>1, NoneNotRun
         DEF DeleteAndCommit, Erase, Selected, InWindow, FiledUnder, Stored
    <3>2. CASE f \notin Selected(q, pass[i].row)
      BY <3>2 DEF DeleteAndCommit, Erase, FiledUnder, Stored
    <3> QED
      BY <3>1, <3>2
  <2> QED
    BY <1>4, <2>1, <2>2, ShownStays DEF Archived
<1>6. CASE pass[i].inserted
  <2>1. ~Archived(q) /\ NewTrack(i) # NONE /\ NewTrack(i).points = pass[i].points
    BY <1>2, <1>3, <1>6, DayType, RowAssumption DEF NewTrack, Track, Session
  <2>2. tracks'[q] = NewTrack(i)
    BY <1>2, <1>6 DEF DeleteAndCommit, NewTracks, TypeOK
  <2>3. Archived(q)'
    BY <2>1, <2>2 DEF Archived
  <2>4. \A f \in Fixes : f \in pass[i].points /\ filed[f] = q <=> FiledUnder(q, f)
    BY <1>1, <2>1 DEF LoadedOk
  <2>5. Shown(q)' = {f \in pass[i].points : filed[f] = q}
    BY <1>4, <2>1, <2>2, <2>3 DEF Shown
  <2>6. Shown(q) = {f \in Fixes : FiledUnder(q, f)}
    BY <2>1 DEF Shown, FiledUnder
  <2>7. Shown(q)' = Shown(q)
    BY <1>2, <2>4, <2>5, <2>6
  <2>8. [r \in Runs |-> Shown(r)]' = [r \in Runs |-> Shown(r)]
    BY <1>5, <2>7
  <2>9. {r \in Runs : Archived(r)}' = {r \in Runs : Archived(r)} \cup {q}
    BY <1>2, <1>5, <2>3
  <2>10. History!Archive(q)
    BY <2>1, <2>8, <2>9 DEF History!Archive
  <2> QED
    BY <1>2, <2>10 DEF History!Next
<1>7. CASE ~pass[i].inserted
  <2>1. Archived(q) /\ tracks'[q] = tracks[q]
    BY <1>3, <1>7 DEF DeleteAndCommit, NewTracks
  <2>2. Shown(q)' = Shown(q) /\ (Archived(q)' <=> Archived(q))
    BY <1>2, <1>4, <2>1, ShownStays DEF Archived
  <2> QED
    BY <1>5, <2>2 DEF History!vars
<1> QED
  BY <1>6, <1>7

\* A fix that is stored joins what its run shows.
LEMMA StoringRecords ==
  ASSUME IInv, NEW r \in Runs, NEW f \in Fixes, NEW t \in 0..MaxTime,
         ~HasEnded(r), StoreFix(r, f, t)
  PROVE  History!Record(r, f)
<1> USE DEF IInv
<1>1. UNCHANGED tracks /\ filed[f] = NONE /\ f \notin Legacy
  BY DEF StoreFix
<1>2. ~Archived(r)
  BY DEF ArchivedInv
<1>3. ~Stored(f)
  BY <1>1, NoneNotRun DEF WorldInv, TypeOK, OrNone
<1>4. \A q \in Runs : f \notin Shown(q)
  BY <1>1, <1>3, NoneNotRun DEF Shown
<1>5. \A q \in Runs : Archived(q)' <=> Archived(q)
  BY <1>1 DEF Archived
<1>6. filed' = [filed EXCEPT ![f] = r]
  BY DEF StoreFix
<1>7. positions'[f].run = r /\ positions'[f] # NONE
  <2> DEFINE p == [run |-> r, truck |-> sessions[r].truck, at |-> t]
  <2>1. sessions[r] \in Session /\ t \in Nat
    BY DEF StoreFix, TypeOK, OrNone
  <2>2. p \in Position
    BY <2>1 DEF Position, Session, OrNone
  <2>3. p # NONE /\ p.run = r
    BY <2>2, RowAssumption
  <2> QED
    BY <2>3 DEF StoreFix, TypeOK
<1>8. \A g \in Fixes : g # f => positions'[g] = positions[g] /\ filed'[g] = filed[g]
  BY DEF StoreFix, TypeOK
<1>9. Shown(r)' = Shown(r) \cup {f}
  BY <1>2, <1>5, <1>7, <1>8 DEF Shown, Stored
<1>10. ASSUME NEW q \in Runs, q # r PROVE Shown(q)' = Shown(q)
  <2>1. CASE Archived(q)
    <3>1. \A g : filed'[g] = q <=> filed[g] = q
      BY <1>1, <1>6, <1>10, NoneNotRun DEF TypeOK
    <3> QED
      BY <1>1, <1>5, <2>1, <3>1 DEF Shown
  <2>2. CASE ~Archived(q)
    BY <1>3, <1>5, <1>7, <1>8, <1>10, <2>2 DEF Shown, Stored
  <2> QED
    BY <2>1, <2>2
<1>11. [q \in Runs |-> Shown(q)]' = [[q \in Runs |-> Shown(q)] EXCEPT ![r] = @ \cup {f}]
  BY <1>9, <1>10
<1>12. {q \in Runs : Archived(q)}' = {q \in Runs : Archived(q)}
  BY <1>5
<1> QED
  BY <1>2, <1>4, <1>11, <1>12 DEF History!Record

LEMMA HistoryStep == IInv /\ Orderly /\ [Next]_vars => [History!Next]_(History!vars)
<1> SUFFICES ASSUME IInv, Orderly, [Next]_vars PROVE [History!Next]_(History!vars)
  OBVIOUS
<1> USE DEF IInv
<1>1. ASSUME UNCHANGED <<tracks, filed>>,
             \A r \in Runs : Archived(r) \/ \A f \in Fixes : FiledUnder(r, f)' <=> FiledUnder(r, f)
      PROVE  UNCHANGED History!vars
  <2>1. \A r \in Runs : Shown(r)' = Shown(r) /\ (Archived(r)' <=> Archived(r))
    BY <1>1, ShownStays DEF Archived
  <2> QED
    BY <2>1 DEF History!vars
<1>2. ASSUME NEW i \in Instances, Archiver(i) PROVE [History!Next]_(History!vars)
  <2>1. CASE DeleteAndCommit(i)
    BY <2>1, CommitArchives
  <2>2. CASE ~DeleteAndCommit(i)
    <3>1. UNCHANGED <<tracks, filed>> /\ (Erase(Orphans) \/ UNCHANGED positions)
      BY <1>2, <2>2, ArchiverFrame
    <3>2. ASSUME NEW r \in Runs, ~Archived(r), NEW f \in Fixes
          PROVE  FiledUnder(r, f)' <=> FiledUnder(r, f)
      <4>1. FiledUnder(r, f) => f \notin Orphans
        BY <3>2, NoneNotRun DEF FiledUnder, Orphans
      <4> QED
        BY <3>1, <4>1 DEF FiledUnder, Stored, Erase
    <3> QED
      BY <1>1, <3>1, <3>2
  <2> QED
    BY <2>1, <2>2
<1>3. CASE ~\E i \in Instances : Archiver(i)
  <2>1. CASE UNCHANGED <<tracks, positions, filed>>
    BY <1>1, <2>1 DEF FiledUnder, Stored
  <2>2. ASSUME NEW r \in Runs, NEW f \in Fixes, NEW t \in 0..MaxTime,
               ~HasEnded(r), StoreFix(r, f, t)
        PROVE  History!Next
    BY <2>2, StoringRecords DEF History!Next
  <2> QED
    BY <1>3, <2>1, <2>2, OtherSteps
<1> QED
  BY <1>2, <1>3

(* The tables implement the history a reader is promised: archiving a run  *)
(* changes nothing of what is shown, at no moment is a run half moved, and *)
(* what is history neither grows nor goes.                                 *)
THEOREM Refinement == ASSUME Orderly PROVE Spec => ImplementsRunHistory
<1>1. Init => History!Init
  <2> SUFFICES ASSUME Init PROVE History!Init
    OBVIOUS
  <2>1. \A r \in Runs : ~Archived(r)
    BY DEF Init, Archived
  <2>2. \A f \in Fixes : Stored(f) => positions[f].run = NONE
    BY DEF Init, OrNone, Stored
  <2>3. \A r \in Runs : Shown(r) = {}
    BY <2>1, <2>2, NoneNotRun DEF Shown
  <2> QED
    BY <2>1, <2>3 DEF History!Init
<1> QED
  BY <1>1, HistoryStep, Invariance, PTL DEF Spec, ImplementsRunHistory, History!Spec

=============================================================================
