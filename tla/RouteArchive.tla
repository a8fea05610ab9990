---------------------------- MODULE RouteArchive ----------------------------
(***************************************************************************)
(* Route history: the archiver that moves the fixes of finished runs from  *)
(* truck_positions into route_tracks, the writers of the tables it works   *)
(* on, and the listing that reads both sides.                              *)
(*                                                                         *)
(* One action is one SQL statement (READ COMMITTED, so each sees what is   *)
(* committed when it starts).  In archiveOne the DELETE and the COMMIT are *)
(* one action: the rows of the transaction show at the COMMIT, and a row   *)
(* inserted between the two survives as one inserted after both would.     *)
(***************************************************************************)
EXTENDS Integers, FiniteSets

CONSTANTS
  Fixes,       \* ids of truck_positions
  Legacy,      \* fixes from before rows carried a session id
  Drivers, Trucks,
  Instances,   \* server processes, each with its own archiver
  NONE,        \* SQL NULL, no row
  BatchSize,   \* BATCH_SIZE
  MaxFixAge,   \* MAX_FIX_AGE_MS, in clock units
  DayLength,   \* clock units of a day
  MaxTime,     \* bound: the last value of the clock
  MaxRuns,     \* bound: rows of route_sessions
  ListDays,    \* bound: the days whose runs are listed
  Broken,      \* runs whose archiving always fails
  Upsets,      \* kinds of upsets that may happen
  MaxUpsets    \* bound: how many of them happen

Runs == 1..MaxRuns  \* ids of route_sessions

ASSUME NoneAssumption ==
  /\ NONE \notin Drivers \cup Trucks
  /\ NONE \notin Nat
ASSUME BoundsAssumption ==
  /\ Legacy \subseteq Fixes
  /\ Broken \subseteq Runs
  /\ BatchSize \in Nat \ {0}
  /\ DayLength \in Nat \ {0}
  /\ ListDays \subseteq Nat
  /\ MaxFixAge \in Nat /\ MaxTime \in Nat /\ MaxRuns \in Nat /\ MaxUpsets \in Nat
  /\ Upsets \subseteq {"fault", "crash", "late", "remove"}

VARIABLES
  now,        \* now()
  sessions,   \* route_sessions
  nextRun,    \* the next value of its id sequence
  positions,  \* truck_positions
  tracks,     \* route_tracks, by route_session_id: the fixes in `points`
  pass,       \* what every instance's archiver is doing
  listing,    \* one GET of the runs of a day
  filed,      \* history: the run every fix was sent under
  upsets      \* how many upsets have happened

world == <<sessions, nextRun, filed>>
vars == <<now, sessions, nextRun, positions, tracks, pass, listing, filed, upsets>>

-----------------------------------------------------------------------------
(* Types                                                                   *)

OrNone(S) == S \cup {NONE}

Session == [driver: Drivers, truck: Trucks, from: Nat, to: OrNone(Nat)]
\* `at` is COALESCE(recorded_at, timestamp).
Position == [run: OrNone(Runs), truck: Trucks, at: Nat]
Track == [day: Nat, points: SUBSET Fixes]

\* `todo` and `full`: what is left of the batch, and whether it was as large as the
\* limit; `run`, `row`, `points` and `inserted`: the transaction of archiveOne.
Pass == [at: {"pending", "session", "points", "insert", "delete", "orphans"},
         failed: SUBSET Runs, todo: SUBSET Runs, full: BOOLEAN,
         run: OrNone(Runs), row: OrNone(Session), points: SUBSET Fixes, inserted: BOOLEAN]
Resting == [at |-> "pending", failed |-> {}, todo |-> {}, full |-> FALSE,
            run |-> NONE, row |-> NONE, points |-> {}, inserted |-> FALSE]

Listing == [at: {"archived", "live", "done"}, day: Nat,
            archived: SUBSET Runs, live: SUBSET Runs]
NoListing == [at |-> "archived", day |-> 0, archived |-> {}, live |-> {}]

\* NONE is not a row.
ASSUME RowAssumption == NONE \notin Session \cup Position \cup Track

PassOk(p) ==
  /\ p.run = NONE <=> p.at \in {"pending", "orphans"}
  /\ p.row = NONE <=> p.at \in {"pending", "session", "orphans"}

TypeOK ==
  /\ now \in Nat
  /\ sessions \in [Runs -> OrNone(Session)]
  /\ nextRun \in 1..(MaxRuns + 1)
  /\ positions \in [Fixes -> OrNone(Position)]
  /\ tracks \in [Runs -> OrNone(Track)]
  /\ pass \in [Instances -> Pass]
  /\ \A i \in Instances : PassOk(pass[i])
  /\ listing \in Listing
  /\ filed \in [Fixes -> OrNone(Runs)]
  /\ upsets \in Nat

-----------------------------------------------------------------------------
(* What the statements select                                              *)

Midnight == now - (now % DayLength)
Day(t) == t \div DayLength
Upto(t) == IF t = NONE THEN now ELSE t

Stored(f) == positions[f] # NONE
Archived(r) == tracks[r] # NONE
HasEnded(r) == sessions[r] # NONE /\ sessions[r].to # NONE

\* The fallback for a row without a session id: the truck in the run's time window.
InWindow(row, f) ==
  /\ positions[f].run = NONE
  /\ positions[f].truck = row.truck
  /\ row.from <= positions[f].at /\ positions[f].at <= Upto(row.to)

\* The WHERE clause that loadPoints and the DELETE of archiveOne share.
Selected(r, row) ==
  {f \in Fixes : Stored(f) /\ (positions[f].run = r \/ InWindow(row, f))}

\* Mutant: a run that failed is asked for again in the same pass.
Pending_AgainAndAgain(failed) ==
  {r \in Runs : HasEnded(r) /\ sessions[r].to < Midnight /\ ~Archived(r)}
Pending(failed) ==
  {r \in Runs \ failed : HasEnded(r) /\ sessions[r].to < Midnight /\ ~Archived(r)}

\* ORDER BY rs.id LIMIT BATCH_SIZE, and the row the loop takes first
Batch(S) == {r \in S : Cardinality({q \in S : q < r}) < BatchSize}
First(S) == IF S = {} THEN {NONE} ELSE {r \in S : \A q \in S : r <= q}

\* Mutant: the fixes of a run not yet archived are not spared.
Orphans_Yesterdays == {f \in Fixes : Stored(f) /\ positions[f].at < Midnight}
\* Mutant: only fixes without a session id are looked at.
Orphans_Unclaimed ==
  {f \in Fixes :
     /\ Stored(f)
     /\ positions[f].at < Midnight
     /\ positions[f].run = NONE
     /\ ~\E r \in Runs : sessions[r] # NONE /\ ~Archived(r) /\ InWindow(sessions[r], f)}
Orphans ==
  {f \in Fixes :
     /\ Stored(f)
     /\ positions[f].at < Midnight
     /\ positions[f].run = NONE \/ Archived(positions[f].run)
     /\ ~\E r \in Runs : sessions[r] # NONE /\ ~Archived(r) /\ InWindow(sessions[r], f)}

Erase(S) == positions' = [f \in Fixes |-> IF f \in S THEN NONE ELSE positions[f]]

Upset(kind) ==
  /\ kind \in Upsets
  /\ upsets < MaxUpsets
  /\ upsets' = upsets + 1

-----------------------------------------------------------------------------
(* RouteTrackArchiverService                                               *)

Set(i, rec) == pass' = [pass EXCEPT ![i] = rec]

\* The timer calls a resting archiver; a full batch sends it here again.
FindPending(i) ==
  LET found == Batch(Pending(pass[i].failed))
  IN  /\ pass[i].at = "pending"
      /\ \E r \in First(found) :
           Set(i, [pass[i] EXCEPT !.at = IF r = NONE THEN "orphans" ELSE "session",
                                  !.todo = found, !.run = r,
                                  !.full = Cardinality(found) = BatchSize])
      /\ UNCHANGED <<now, world, positions, tracks, listing, upsets>>

\* Mutant: a full batch is not followed by the next query.
Advance_SameBatch(i, failed) ==
  LET rest == pass[i].todo \ {pass[i].run}
  IN  \E r \in First(rest) :
        Set(i, [Resting EXCEPT !.at = IF r # NONE \/ pass[i].full THEN "session" ELSE "orphans",
                               !.failed = failed, !.todo = rest, !.run = r,
                               !.full = pass[i].full])
\* The next run of the batch, the next batch, or the end of the loop.
Advance(i, failed) ==
  LET rest == pass[i].todo \ {pass[i].run}
  IN  \E r \in First(rest) :
        Set(i, [Resting EXCEPT !.at = IF r # NONE THEN "session"
                                      ELSE IF pass[i].full THEN "pending" ELSE "orphans",
                               !.failed = failed, !.todo = rest, !.run = r,
                               !.full = pass[i].full])

LoadSession(i) ==
  /\ pass[i].at = "session"
  /\ IF ~HasEnded(pass[i].run) THEN Advance(i, pass[i].failed)
     ELSE Set(i, [pass[i] EXCEPT !.at = "points", !.row = sessions[pass[i].run]])
  /\ UNCHANGED <<now, world, positions, tracks, listing, upsets>>

LoadPoints(i) ==
  /\ pass[i].at = "points"
  /\ pass[i].run \notin Broken
  /\ Set(i, [pass[i] EXCEPT !.at = "insert", !.points = Selected(pass[i].run, pass[i].row)])
  /\ UNCHANGED <<now, world, positions, tracks, listing, upsets>>

\* INSERT ... ON CONFLICT DO NOTHING waits for a transaction that has the same key.
InsertTrack(i) ==
  /\ pass[i].at = "insert"
  /\ \A j \in Instances : pass[j].at = "delete" /\ pass[j].inserted => pass[j].run # pass[i].run
  /\ Set(i, [pass[i] EXCEPT !.at = "delete", !.inserted = ~Archived(pass[i].run)])
  /\ UNCHANGED <<now, world, positions, tracks, listing, upsets>>

NewTrack(i) == [day |-> Day(pass[i].row.from), points |-> pass[i].points]

\* Mutant: ON CONFLICT DO UPDATE.
NewTracks_Update(i) == [tracks EXCEPT ![pass[i].run] = NewTrack(i)]
NewTracks(i) ==
  IF pass[i].inserted THEN [tracks EXCEPT ![pass[i].run] = NewTrack(i)] ELSE tracks

DeleteAndCommit(i) ==
  /\ pass[i].at = "delete"
  /\ Erase(Selected(pass[i].run, pass[i].row))
  /\ tracks' = NewTracks(i)
  /\ Advance(i, pass[i].failed)
  /\ UNCHANGED <<now, world, listing, upsets>>

\* A statement of archiveOne fails: rolled back, and not tried again in this pass.
ArchiveFails(i) ==
  /\ \/ pass[i].at \in {"session", "points", "insert", "delete"} /\ Upset("fault")
     \/ pass[i].at = "points" /\ pass[i].run \in Broken /\ UNCHANGED upsets
  /\ Advance(i, pass[i].failed \cup {pass[i].run})
  /\ UNCHANGED <<now, world, positions, tracks, listing>>

DeleteOrphanFixes(i) ==
  /\ pass[i].at = "orphans"
  /\ Erase(Orphans)
  /\ Set(i, Resting)
  /\ UNCHANGED <<now, world, tracks, listing, upsets>>

\* The process dies, or a statement outside archiveOne fails and ends the pass.
PassEnds(i) ==
  /\ \/ Upset("crash")
     \/ pass[i].at \in {"pending", "orphans"} /\ Upset("fault")
  /\ pass[i] # Resting
  /\ Set(i, Resting)
  /\ UNCHANGED <<now, world, positions, tracks, listing>>

-----------------------------------------------------------------------------
(* RouteHistoryService.listByDate                                          *)

ListArchived(day) ==
  /\ listing' = [at |-> "live", day |-> day, live |-> {},
                 archived |-> {r \in Runs : Archived(r) /\ tracks[r].day = day}]
  /\ UNCHANGED <<now, world, positions, tracks, pass, upsets>>

\* Mutant: the live runs are not asked whether they are archived.
LiveOn_Any(day) == {r \in Runs : sessions[r] # NONE /\ Day(sessions[r].from) = day}
LiveOn(day) ==
  {r \in Runs : sessions[r] # NONE /\ Day(sessions[r].from) = day /\ ~Archived(r)}

ListLive ==
  /\ listing.at = "live"
  /\ listing' = [listing EXCEPT !.at = "done", !.live = LiveOn(listing.day)]
  /\ UNCHANGED <<now, world, positions, tracks, pass, upsets>>

-----------------------------------------------------------------------------
(* The writers of the live tables, and the clock                           *)

StartRun(d, t) ==
  /\ nextRun \in Runs
  /\ \A r \in Runs : sessions[r] # NONE /\ sessions[r].driver = d => HasEnded(r)
  /\ sessions' = [sessions EXCEPT ![nextRun] =
                    [driver |-> d, truck |-> t, from |-> now, to |-> NONE]]
  /\ nextRun' = nextRun + 1
  /\ UNCHANGED <<now, positions, tracks, pass, listing, filed, upsets>>

\* A stop ends the run now, the sweep at its last activity.
EndRun(r, t) ==
  /\ sessions[r] # NONE /\ ~HasEnded(r)
  /\ sessions[r].from <= t /\ t <= now
  /\ sessions' = [sessions EXCEPT ![r].to = t]
  /\ UNCHANGED <<now, nextRun, positions, tracks, pass, listing, filed, upsets>>

\* A fix is filed under the run its sender has; a socket may still have one that has ended.
StoreFix(r, f, t) ==
  /\ filed[f] = NONE /\ f \notin Legacy
  /\ sessions[r] # NONE
  /\ IF HasEnded(r) THEN Upset("late") ELSE UNCHANGED upsets
  /\ now - MaxFixAge <= t /\ t <= now
  /\ positions' = [positions EXCEPT ![f] = [run |-> r, truck |-> sessions[r].truck, at |-> t]]
  /\ filed' = [filed EXCEPT ![f] = r]
  /\ UNCHANGED <<now, sessions, nextRun, tracks, pass, listing>>

\* DELETE FROM drivers: their sessions go, the fixes filed under those lose the id.
RemoveDriver(d) ==
  LET gone == {r \in Runs : sessions[r] # NONE /\ sessions[r].driver = d}
  IN  /\ Upset("remove")
      /\ gone # {}
      /\ sessions' = [r \in Runs |-> IF r \in gone THEN NONE ELSE sessions[r]]
      /\ positions' = [f \in Fixes |->
           IF Stored(f) /\ positions[f].run \in gone
           THEN [positions[f] EXCEPT !.run = NONE] ELSE positions[f]]
      /\ UNCHANGED <<now, nextRun, tracks, pass, listing, filed>>

Tick ==
  /\ now < MaxTime
  /\ now' = now + 1
  /\ UNCHANGED <<world, positions, tracks, pass, listing, upsets>>

-----------------------------------------------------------------------------
(* The specification                                                       *)

Init ==
  /\ now = 0
  /\ sessions = [r \in Runs |-> NONE]
  /\ nextRun = 1
  /\ positions \in [Fixes -> OrNone([run: {NONE}, truck: Trucks, at: {0}])]
  /\ \A f \in Fixes : Stored(f) <=> f \in Legacy
  /\ tracks = [r \in Runs |-> NONE]
  /\ pass = [i \in Instances |-> Resting]
  /\ listing = NoListing
  /\ filed = [f \in Fixes |-> NONE]
  /\ upsets = 0

Archiver(i) ==
  \/ FindPending(i) \/ LoadSession(i) \/ LoadPoints(i) \/ InsertTrack(i)
  \/ DeleteAndCommit(i) \/ ArchiveFails(i) \/ DeleteOrphanFixes(i) \/ PassEnds(i)

Next ==
  \/ \E i \in Instances : Archiver(i)
  \/ \E day \in ListDays : ListArchived(day)
  \/ ListLive
  \/ \E d \in Drivers, t \in Trucks : StartRun(d, t)
  \/ \E r \in Runs, t \in 0..MaxTime : EndRun(r, t)
  \/ \E r \in Runs, f \in Fixes, t \in 0..MaxTime : StoreFix(r, f, t)
  \/ \E d \in Drivers : RemoveDriver(d)
  \/ Tick

Spec == Init /\ [][Next]_vars

(* Every instance's timer keeps calling the archiver, its statements are   *)
(* answered, and time passes.  Drivers, readers and upsets owe nothing.    *)
Fairness ==
  /\ WF_vars(Tick)
  /\ \A i \in Instances :
       /\ WF_vars(FindPending(i) \/ LoadSession(i) \/ LoadPoints(i)
                    \/ InsertTrack(i) \/ DeleteAndCommit(i)
                    \/ ArchiveFails(i) \/ DeleteOrphanFixes(i))

FairSpec == Spec /\ Fairness

-----------------------------------------------------------------------------
(* Properties                                                              *)

Claims(r, f) == sessions[r] # NONE /\ ~Archived(r) /\ f \in Selected(r, sessions[r])

(* No fix that belongs, by id or by time window, to a run not yet archived *)
(* leaves truck_positions without being in a track: deleteOrphanFixes      *)
(* spares it ("deleting it would lose that run's path for good"), and      *)
(* archiveOne deletes with the selection it has loaded ("so exactly the    *)
(* archived fixes go"), whatever the other instances do meanwhile and      *)
(* wherever a statement or a process fails.                                *)
ClaimedFixesAreKept ==
  [][\A f \in Fixes :
       Stored(f) /\ positions'[f] = NONE /\ (\E r \in Runs : Claims(r, f))
         => \E r \in Runs : tracks'[r] # NONE /\ f \in tracks'[r].points]_vars

(* A fix filed under a run is kept until it is in a track, also when its   *)
(* driver is deleted: SET NULL on its session id is there because "that    *)
(* must not erase fixes the archiver has not moved into history yet".      *)
FiledFixesSurvive ==
  \A f \in Fixes :
    filed[f] # NONE => Stored(f) \/ \E r \in Runs : Archived(r) /\ f \in tracks[r].points

(* A listing never shows a run twice, once from route_tracks and once from *)
(* the live tables, although it reads them one after the other and the     *)
(* archiver may commit in between.                                         *)
ListedOnce == listing.at = "done" => listing.archived \cap listing.live = {}

(* One run that cannot be archived does not keep the others waiting: every *)
(* other run that has ended is archived once its day is over (or gone with *)
(* its driver), also when batches are full and the process restarts.       *)
LastMidnight == MaxTime - (MaxTime % DayLength)

EveryRunIsArchived ==
  \A r \in Runs \ Broken :
    HasEnded(r) /\ sessions[r].to < LastMidnight ~> Archived(r) \/ sessions[r] = NONE

(* Yesterday's fixes leave the live map: any fix is archived or discarded  *)
(* once its day is over, late ones and those of a removed driver included, *)
(* unless it belongs to a run that is still open, ended too late for the   *)
(* clock, or cannot be archived.                                           *)
Waits(f) ==
  \E r \in Runs :
    /\ Claims(r, f)
    /\ r \in Broken \/ sessions[r].to = NONE \/ sessions[r].to >= LastMidnight

OldFixesLeave ==
  \A f \in Fixes :
    Stored(f) /\ positions[f].at < LastMidnight ~> ~Stored(f) \/ Waits(f)

(* The tables implement the history a reader is promised, seen through the *)
(* fixes filed under each run.                                             *)
Shown(r) ==
  IF Archived(r) THEN {f \in tracks[r].points : filed[f] = r}
  ELSE {f \in Fixes : Stored(f) /\ positions[f].run = r}

History == INSTANCE RunHistory WITH
  shown <- [r \in Runs |-> Shown(r)],
  archived <- {r \in Runs : Archived(r)}

ImplementsRunHistory == History!Spec
=============================================================================
