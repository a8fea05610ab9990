------------------------- MODULE RouteSessionProofs -------------------------
(***************************************************************************)
(* Proofs about RouteSession, for any number of drivers, sockets, handlers *)
(* in flight and rows, and with every kind of upset: the type invariant,   *)
(* TimesOrdered, FixOwner and ClosedIsFinal.  The argument is one          *)
(* inductive invariant, which says what a handler, a connection and a      *)
(* sweep still know to be true of the rows they read some awaits ago.      *)
(*                                                                         *)
(* A second part is about drivers whose requests are answered one at a     *)
(* time: NoOverlap, AtMostOneOpen and ImplementsDriverRuns.  A third is    *)
(* about drivers who use the app only and handlers that are quick:         *)
(* ClosesAtLastActivity, HttpFixInOpenSession, FreshStopTellsResidents.    *)
(***************************************************************************)
EXTENDS RouteSession, FiniteSetTheorems, TLAPS

\* The session s exists and was created by driver d.
Owned(s, d) == s \in Rows /\ sessions[s].driver = d

\* Ids are handed out in order; an unused row is blank.
RowsInv ==
  \A s \in SessionId :
    /\ s \in Rows => sessions[s].driver \in Drivers
    /\ s \notin Rows => sessions[s] = NoSession

\* A row the sweep has loaded has only moved forward since.
SweepInv ==
  \A s \in SessionId : sweep[s] # NONE =>
    /\ s \in Rows
    /\ sessions[s].started <= sweep[s] /\ sweep[s] <= sessions[s].last
    /\ sessions[s].ended # NONE => sweep[s] <= sessions[s].ended

\* A connection has all of its route context or none of it.
ClientOk(c) ==
  /\ c.up => c.driver # NONE
  /\ c.truck # NONE => c.session # NONE
  /\ c.session # NONE =>
       /\ c.driver # NONE /\ c.truck # NONE /\ c.route # NONE
       /\ Owned(c.session, c.driver)

ClientInv == \A k \in Sockets : ClientOk(client[k])

\* What a handler holds at each of its awaits.
TaskOk(t) ==
  /\ t.at # "idle" => t.driver # NONE
  /\ t.at # "idle" /\ t.socket # NONE => client[t.socket].driver = t.driver
  /\ t.at \in {"verify", "resumeFind", "resumeTruck", "resumeSchedule", "socketStop"}
       => t.socket # NONE
  /\ t.at \in {"resumeTruck", "resumeSchedule"}
       => t.session # NONE /\ Owned(t.session, t.driver)
  /\ t.at \in {"resumeSchedule", "startSchedule", "startFind", "startClose", "startInsert"}
       => t.truck # NONE
  /\ t.at \in {"startFind", "startClose", "startInsert"} => t.route # NONE
  /\ t.at \in {"activity", "store", "emit"} =>
       /\ t.truck # NONE /\ t.route # NONE
       /\ t.session # NONE /\ Owned(t.session, t.driver)
       /\ t.socket = NONE => /\ sessions[t.session].truck = t.truck
                             /\ sessions[t.session].route \in {t.route, NONE}
  /\ t.at = "positionFind" => t.session # NONE /\ t.socket = NONE

TaskInv == \A h \in Handlers : TaskOk(task[h])

FixInv == lastFix # NONE => lastFix.session \in Rows

IInv ==
  /\ TypeOK /\ RowsInv /\ TimesOrdered /\ SweepInv
  /\ ClientInv /\ TaskInv /\ FixInv /\ FixOwner

-----------------------------------------------------------------------------
(* Typing of the records that actions build                                *)

LEMMA RowIds ==
  ASSUME TypeOK PROVE Rows \subseteq SessionId
  BY BoundsAssumption DEF TypeOK, Rows, SessionId

LEMMA PointNames ==
  /\ StartPoints \subseteq Points
  /\ {"startTruck", "startSchedule", "startFind", "startClose", "startInsert",
      "idle", "verify", "resumeFind", "resumeTruck", "resumeSchedule",
      "positionFind", "activity", "store", "emit",
      "stopFind", "stopUpdate", "socketStop"} \subseteq Points
  BY DEF Points, StartPoints

LEMMA IdleType ==
  /\ Idle \in Task
  /\ Idle.at = "idle" /\ Idle.driver = NONE /\ Idle.socket = NONE
  /\ Idle.session = NONE /\ Idle.truck = NONE /\ Idle.route = NONE
  BY PointNames DEF Idle, Task, OrNone

\* What a handler remembers next, after reading something more.
LEMMA TaskUpdate ==
  \A r \in Task, p \in Points :
    /\ [r EXCEPT !.at = p] \in Task
    /\ \A s \in OrNone(SessionId) : [r EXCEPT !.at = p, !.session = s] \in Task
    /\ \A t \in OrNone(Trucks) : [r EXCEPT !.at = p, !.truck = t] \in Task
    /\ \A q \in OrNone(Routes) : [r EXCEPT !.at = p, !.route = q] \in Task
    /\ \A t \in OrNone(Trucks), q \in OrNone(Routes) :
         [r EXCEPT !.at = p, !.truck = t, !.route = q] \in Task
    /\ \A s \in OrNone(SessionId), t \in OrNone(Trucks), q \in OrNone(Routes) :
         [r EXCEPT !.at = p, !.session = s, !.truck = t, !.route = q] \in Task
  BY Zenon DEF Task

\* What a handler remembers when it begins.
LEMMA TaskBegin ==
  \A p \in Points, d \in Drivers :
    /\ [Idle EXCEPT !.at = p, !.driver = d] \in Task
    /\ \A k \in OrNone(Sockets) : [Idle EXCEPT !.at = p, !.driver = d, !.socket = k] \in Task
    /\ \A s \in OrNone(SessionId) : [Idle EXCEPT !.at = p, !.driver = d, !.session = s] \in Task
  BY Zenon DEF Task, Idle, OrNone

\* The queries return what their names say, or NONE.
LEMMA Queries ==
  ASSUME TypeOK, NEW d \in Drivers
  PROVE  /\ \A s \in FindOpenForDriver(d) :
              s = NONE \/ (s \in SessionId /\ Open(s) /\ Owned(s, d))
         /\ \A t \in FindByDriverId(d) : t \in OrNone(Trucks)
  BY DEF FindOpenForDriver, FindByDriverId, Newest, OpenOf, Open, Owned, OrNone

-----------------------------------------------------------------------------
(* Steps that change no row and no connection                              *)

LEMMA HoldStep ==
  ASSUME IInv, NEW h \in Handlers, NEW rec \in Task, TaskOk(rec), Hold(h, rec),
         UNCHANGED <<now, tables, catalog, client, sweep>>,
         onMap' \subseteq Trucks,
         watch' \in [Routes -> {"blank", "moving", "ended"}],
         upsets' \in Nat
  PROVE  IInv'
<1> USE DEF tables, catalog
<1>1. TypeOK'
  BY DEF IInv, TypeOK, Hold
<1>2. TaskInv'
  <2>1. task \in [Handlers -> Task]
    BY DEF IInv, TypeOK
  <2>2. \A g \in Handlers : TaskOk(task[g])
    BY DEF IInv, TaskInv
  <2>3. \A g \in Handlers : task'[g] = IF g = h THEN rec ELSE task[g]
    BY <2>1 DEF Hold
  <2> QED
    BY <2>2, <2>3 DEF TaskInv, TaskOk, Owned, Rows
<1>3. ClientInv' /\ FixInv'
  BY DEF IInv, ClientInv, ClientOk, FixInv, Owned, Rows
<1>4. RowsInv' /\ TimesOrdered' /\ SweepInv' /\ FixOwner'
  BY DEF IInv, RowsInv, TimesOrdered, SweepInv, FixOwner, Rows
<1> QED
  BY <1>1, <1>2, <1>3, <1>4 DEF IInv

\* Read-only steps of one handler.
LEMMA ReadStep ==
  ASSUME IInv, NEW h \in Handlers, NEW rec \in Task, TaskOk(rec), Hold(h, rec),
         UNCHANGED <<now, tables, catalog, client, sweep, screens, upsets>>
  PROVE  IInv'
<1>1. upsets' \in Nat /\ onMap' \subseteq Trucks
       /\ watch' \in [Routes -> {"blank", "moving", "ended"}]
  BY DEF IInv, TypeOK, screens
<1> QED
  BY <1>1, HoldStep, Zenon

LEMMA FinishOk == TaskOk(Idle)
  BY IdleType DEF TaskOk

LEMMA VerifyActiveInv ==
  ASSUME IInv, NEW h \in Handlers, VerifyActive(h) PROVE IInv'
<1> DEFINE rec == [task[h] EXCEPT !.at = "resumeFind"]
<1>1. task[h] \in Task /\ TaskOk(task[h]) /\ task[h].at = "verify"
  BY DEF IInv, TypeOK, TaskInv, VerifyActive
<1>2. rec \in Task /\ TaskOk(rec)
  BY <1>1, TaskUpdate, PointNames, Zenon DEF TaskOk, Task
<1>3. Hold(h, rec) /\ UNCHANGED <<now, tables, catalog, client, sweep, screens, upsets>>
  BY DEF VerifyActive, Await
<1> QED
  BY <1>2, <1>3, ReadStep

LEMMA ResumeFindInv ==
  ASSUME IInv, NEW h \in Handlers, ResumeFind(h) PROVE IInv'
<1>1. task[h] \in Task /\ TaskOk(task[h]) /\ task[h].at = "resumeFind"
  BY DEF IInv, TypeOK, TaskInv, ResumeFind
<1>2. task[h].driver \in Drivers
  BY <1>1 DEF TaskOk, Task, OrNone
<1>3. PICK s \in FindOpenForDriver(task[h].driver) :
        IF s = NONE THEN Finish(h)
        ELSE Hold(h, [task[h] EXCEPT !.at = "resumeTruck", !.session = s])
  BY Zenon DEF ResumeFind
<1>4. UNCHANGED <<now, tables, catalog, client, sweep, screens, upsets>>
  BY DEF ResumeFind
<1>5. CASE s = NONE
  BY <1>3, <1>4, <1>5, ReadStep, IdleType, FinishOk DEF Finish
<1>6. CASE ~(s = NONE)
  <2> DEFINE rec == [task[h] EXCEPT !.at = "resumeTruck", !.session = s]
  <2>1. s \in SessionId /\ Owned(s, task[h].driver)
    BY <1>1, <1>2, <1>3, <1>6, Queries DEF IInv, OrNone
  <2>2. rec \in Task
    BY <1>1, <2>1, TaskUpdate, PointNames, Zenon DEF OrNone
  <2>3. TaskOk(rec)
    BY <1>1, <1>2, <1>6, <2>1 DEF TaskOk, Task
  <2> QED
    BY <1>3, <1>4, <1>6, <2>2, <2>3, ReadStep
<1> QED
  BY <1>5, <1>6

LEMMA ResumeTruckInv ==
  ASSUME IInv, NEW h \in Handlers, ResumeTruck(h) PROVE IInv'
<1>1. task[h] \in Task /\ TaskOk(task[h]) /\ task[h].at = "resumeTruck"
  BY DEF IInv, TypeOK, TaskInv, ResumeTruck
<1>2. task[h].driver \in Drivers
  BY <1>1 DEF TaskOk, Task, OrNone
<1>3. PICK t \in FindByDriverId(task[h].driver) :
        IF t = NONE THEN Finish(h)
        ELSE Hold(h, [task[h] EXCEPT !.at = "resumeSchedule", !.truck = t])
  BY Zenon DEF ResumeTruck
<1>4. UNCHANGED <<now, tables, catalog, client, sweep, screens, upsets>>
  BY DEF ResumeTruck
<1>5. CASE t = NONE
  BY <1>3, <1>4, <1>5, ReadStep, IdleType, FinishOk DEF Finish
<1>6. CASE ~(t = NONE)
  <2> DEFINE rec == [task[h] EXCEPT !.at = "resumeSchedule", !.truck = t]
  <2>1. t \in Trucks
    BY <1>1, <1>2, <1>3, <1>6, Queries DEF IInv, OrNone
  <2>2. rec \in Task
    BY <1>1, <2>1, TaskUpdate, PointNames, Zenon DEF OrNone
  <2>3. TaskOk(rec)
    BY <1>1, <1>2, <1>6, <2>1 DEF TaskOk, Task
  <2> QED
    BY <1>3, <1>4, <1>6, <2>2, <2>3, ReadStep
<1> QED
  BY <1>5, <1>6

LEMMA StartTruckInv ==
  ASSUME IInv, NEW h \in Handlers, StartTruck(h) PROVE IInv'
<1>1. task[h] \in Task /\ TaskOk(task[h]) /\ task[h].at = "startTruck"
  BY DEF IInv, TypeOK, TaskInv, StartTruck
<1>2. task[h].driver \in Drivers
  BY <1>1 DEF TaskOk, Task, OrNone
<1>3. PICK t \in FindByDriverId(task[h].driver) :
        IF t = NONE THEN Finish(h)
        ELSE Hold(h, [task[h] EXCEPT !.at = "startSchedule", !.truck = t])
  BY Zenon DEF StartTruck
<1>4. UNCHANGED <<now, tables, catalog, client, sweep, screens, upsets>>
  BY DEF StartTruck
<1>5. CASE t = NONE
  BY <1>3, <1>4, <1>5, ReadStep, IdleType, FinishOk DEF Finish
<1>6. CASE ~(t = NONE)
  <2> DEFINE rec == [task[h] EXCEPT !.at = "startSchedule", !.truck = t]
  <2>1. t \in Trucks
    BY <1>1, <1>2, <1>3, <1>6, Queries DEF IInv, OrNone
  <2>2. rec \in Task
    BY <1>1, <2>1, TaskUpdate, PointNames, Zenon DEF OrNone
  <2>3. TaskOk(rec)
    BY <1>1, <1>2, <1>6, <2>1 DEF TaskOk, Task
  <2> QED
    BY <1>3, <1>4, <1>6, <2>2, <2>3, ReadStep
<1> QED
  BY <1>5, <1>6

LEMMA PositionFindInv ==
  ASSUME IInv, NEW h \in Handlers, PositionFind(h) PROVE IInv'
<1>1. task[h] \in Task /\ TaskOk(task[h]) /\ task[h].at = "positionFind"
  BY DEF IInv, TypeOK, TaskInv, PositionFind
<1>2. task[h].driver \in Drivers
  BY <1>1 DEF TaskOk, Task, OrNone
<1>3. PICK s \in FindOpenForDriver(task[h].driver) :
        IF ~Accepted(s, task[h].session) THEN Finish(h)
        ELSE Hold(h, [task[h] EXCEPT !.at = "activity",
                                     !.truck = sessions[s].truck,
                                     !.route = sessions[s].route])
  BY Zenon DEF PositionFind
<1>4. UNCHANGED <<now, tables, catalog, client, sweep, screens, upsets>>
  BY DEF PositionFind
<1>5. CASE ~Accepted(s, task[h].session)
  BY <1>3, <1>4, <1>5, ReadStep, IdleType, FinishOk DEF Finish
<1>6. CASE ~(~Accepted(s, task[h].session))
  <2> DEFINE rec == [task[h] EXCEPT !.at = "activity",
                                !.truck = sessions[s].truck,
                                !.route = sessions[s].route]
  <2>1. s \in SessionId /\ Owned(s, task[h].driver) /\ s = task[h].session
        /\ sessions[s].truck \in Trucks /\ sessions[s].route \in Routes
    BY <1>1, <1>2, <1>3, <1>6, Queries DEF IInv, OrNone, TypeOK, Session, Accepted
  <2>2. rec \in Task
    BY <1>1, <2>1, TaskUpdate, PointNames, Zenon DEF OrNone
  <2>3. TaskOk(rec)
    <3>1. rec.at = "activity" /\ rec.session = s /\ rec.driver = task[h].driver
          /\ rec.socket = NONE /\ rec.truck = sessions[s].truck
          /\ rec.route = sessions[s].route
      BY <1>1, <2>1 DEF TaskOk, Task
    <3> QED
      BY <1>1, <1>2, <2>1, <3>1, NoneAssumption DEF TaskOk, OrNone, SessionId
  <2> QED
    BY <1>3, <1>4, <1>6, <2>2, <2>3, ReadStep
<1> QED
  BY <1>5, <1>6

LEMMA StopFindInv ==
  ASSUME IInv, NEW h \in Handlers, StopFind(h) PROVE IInv'
<1>1. task[h] \in Task /\ TaskOk(task[h]) /\ task[h].at = "stopFind"
  BY DEF IInv, TypeOK, TaskInv, StopFind
<1>2. task[h].driver \in Drivers
  BY <1>1 DEF TaskOk, Task, OrNone
<1>3. PICK s \in FindOpenForDriver(task[h].driver) :
        IF s = NONE THEN Await(h, "stopUpdate")
        ELSE Hold(h, [task[h] EXCEPT !.at = "stopUpdate", !.session = s,
                                     !.truck = sessions[s].truck,
                                     !.route = sessions[s].route])
  BY Zenon DEF StopFind
<1>4. UNCHANGED <<now, tables, catalog, client, sweep, screens, upsets>>
  BY DEF StopFind
<1>5. CASE s = NONE
  <2> DEFINE rec == [task[h] EXCEPT !.at = "stopUpdate"]
  <2>1. rec \in Task /\ TaskOk(rec)
    BY <1>1, TaskUpdate, PointNames, Zenon DEF TaskOk, Task
  <2> QED
    BY <1>3, <1>4, <1>5, <2>1, ReadStep DEF Await
<1>6. CASE ~(s = NONE)
  <2> DEFINE rec == [task[h] EXCEPT !.at = "stopUpdate", !.session = s,
                                !.truck = sessions[s].truck,
                                !.route = sessions[s].route]
  <2>1. s \in SessionId /\ sessions[s].truck \in OrNone(Trucks)
        /\ sessions[s].route \in OrNone(Routes)
    BY <1>1, <1>2, <1>3, <1>6, Queries DEF IInv, TypeOK, Session
  <2>2. rec \in Task
    BY <1>1, <2>1, TaskUpdate, PointNames, ZenonT(40) DEF OrNone
  <2>3. TaskOk(rec)
    BY <1>1, <1>2, <1>6, <2>1 DEF TaskOk, Task
  <2> QED
    BY <1>3, <1>4, <1>6, <2>2, <2>3, ReadStep
<1> QED
  BY <1>5, <1>6

LEMMA StartScheduleInv ==
  ASSUME IInv, NEW h \in Handlers, StartSchedule(h) PROVE IInv'
<1>1. task[h] \in Task /\ TaskOk(task[h]) /\ task[h].at = "startSchedule"
  BY DEF IInv, TypeOK, TaskInv, StartSchedule
<1> DEFINE r == schedule[task[h].truck]
           rec == [task[h] EXCEPT !.at = "startFind", !.route = r]
<1>2. UNCHANGED <<now, tables, catalog, client, sweep, screens, upsets>>
  BY DEF StartSchedule
<1>3. CASE ~Startable(r)
  BY <1>2, <1>3, ReadStep, IdleType, FinishOk DEF StartSchedule, Finish
<1>4. CASE Startable(r)
  <2>1. r \in Routes
    BY <1>1, <1>4 DEF IInv, TypeOK, TaskOk, Task, OrNone, Startable
  <2>2. rec \in Task
    BY <1>1, <2>1, TaskUpdate, PointNames, Zenon DEF OrNone
  <2>3. TaskOk(rec)
    BY <1>1, <2>1, NoneAssumption DEF TaskOk, Task
  <2>4. Hold(h, rec)
    BY <1>4 DEF StartSchedule
  <2> QED
    BY <1>2, <2>2, <2>3, <2>4, ReadStep
<1> QED
  BY <1>3, <1>4

LEMMA StartRefusedInv ==
  ASSUME IInv, NEW h \in Handlers, StartRefused(h) PROVE IInv'
<1>1. task[h] \in Task /\ TaskOk(task[h]) /\ task[h].at = "startInsert"
  BY DEF IInv, TypeOK, TaskInv, StartRefused
<1> QED
  BY ReadStep, IdleType, FinishOk DEF StartRefused, Finish

LEMMA EmitFixInv ==
  ASSUME IInv, NEW h \in Handlers, EmitFix(h) PROVE IInv'
<1>1. task[h] \in Task /\ TaskOk(task[h]) /\ task[h].at = "emit"
  BY DEF IInv, TypeOK, TaskInv, EmitFix
<1>2. task[h].truck \in Trucks /\ task[h].route \in Routes
  BY <1>1 DEF TaskOk, Task, OrNone
<1>3. onMap' \subseteq Trucks /\ watch' \in [Routes -> {"blank", "moving", "ended"}]
  BY <1>2 DEF IInv, TypeOK, EmitFix, ShowTruck
<1>4. upsets' \in Nat
  BY DEF IInv, TypeOK, EmitFix
<1> QED
  BY <1>3, <1>4, HoldStep, IdleType, FinishOk DEF EmitFix, Finish

LEMMA FixFaultInv ==
  ASSUME IInv, NEW h \in Handlers, FixFault(h) PROVE IInv'
<1>1. task[h] \in Task /\ TaskOk(task[h]) /\ task[h].at \in {"activity", "store"}
  BY DEF IInv, TypeOK, TaskInv, FixFault
<1> DEFINE rec == [task[h] EXCEPT !.at = IF task[h].at = "activity" THEN "store" ELSE "emit"]
<1>2. upsets' \in Nat /\ onMap' \subseteq Trucks
       /\ watch' \in [Routes -> {"blank", "moving", "ended"}]
  BY DEF IInv, TypeOK, FixFault, Upset, screens
<1>3. UNCHANGED <<now, tables, catalog, client, sweep>>
  BY DEF FixFault
<1>4. CASE task[h].socket = NONE
  BY <1>2, <1>3, <1>4, HoldStep, IdleType, FinishOk DEF FixFault, Finish
<1>5. CASE task[h].socket # NONE
  <2>1. rec \in Task
    BY TaskUpdate, PointNames, <1>1, Zenon
  <2>2. TaskOk(rec)
    BY <1>1 DEF TaskOk, Task
  <2>3. Hold(h, rec)
    BY <1>5 DEF FixFault, Await
  <2> QED
    BY <1>2, <1>3, <2>1, <2>2, <2>3, HoldStep
<1> QED
  BY <1>4, <1>5

-----------------------------------------------------------------------------
(* Requests                                                                *)

LEMMA StartRequestInv ==
  ASSUME IInv, NEW h \in Handlers, NEW d \in Drivers, NEW k \in OrNone(Sockets),
         StartRequest(h, d, k)
  PROVE  IInv'
<1> DEFINE rec == [Idle EXCEPT !.at = "startTruck", !.driver = d, !.socket = k]
<1>1. rec \in Task
  BY TaskBegin, PointNames, Zenon
<1>2. TaskOk(rec)
  BY NoneAssumption DEF TaskOk, Idle, StartRequest
<1> QED
  BY <1>1, <1>2, ReadStep DEF StartRequest

LEMMA GpsUpdateInv ==
  ASSUME IInv, NEW h \in Handlers, NEW k \in Sockets, GpsUpdate(h, k)
  PROVE  IInv'
<1> DEFINE c == client[k]
           rec == [at |-> "activity", driver |-> c.driver, socket |-> k,
                   session |-> c.session, truck |-> c.truck, route |-> c.route]
<1>1. c \in Client /\ ClientOk(c) /\ c.truck # NONE
  BY DEF IInv, TypeOK, ClientInv, GpsUpdate
<1>2. rec \in Task
  BY <1>1, PointNames DEF ClientOk, Client, Task, OrNone
<1>3. TaskOk(rec)
  BY <1>1, NoneAssumption DEF TaskOk, ClientOk
<1> QED
  BY <1>2, <1>3, ReadStep DEF GpsUpdate

LEMMA PositionRequestInv ==
  ASSUME IInv, NEW h \in Handlers, NEW d \in Drivers, NEW s \in SessionId,
         PositionRequest(h, d, s)
  PROVE  IInv'
<1> DEFINE rec == [Idle EXCEPT !.at = "positionFind", !.driver = d, !.session = s]
<1>1. rec \in Task
  BY TaskBegin, PointNames, Zenon DEF OrNone
<1>2. TaskOk(rec)
  BY NoneAssumption DEF TaskOk, Idle, SessionId
<1> QED
  BY <1>1, <1>2, ReadStep DEF PositionRequest

LEMMA HttpStopInv ==
  ASSUME IInv, NEW h \in Handlers, NEW d \in Drivers, HttpStop(h, d)
  PROVE  IInv'
<1> DEFINE rec == [Idle EXCEPT !.at = "stopFind", !.driver = d]
<1>1. rec \in Task /\ TaskOk(rec)
  BY TaskBegin, PointNames, NoneAssumption, Zenon DEF TaskOk, Idle
<1> QED
  BY <1>1, ReadStep DEF HttpStop

LEMMA SocketStopInv ==
  ASSUME IInv, NEW h \in Handlers, NEW k \in Sockets, SocketStop(h, k)
  PROVE  IInv'
<1> DEFINE rec == [Idle EXCEPT !.at = "socketStop", !.driver = client[k].driver, !.socket = k]
<1>1. client[k].driver \in Drivers
  BY DEF IInv, TypeOK, ClientInv, ClientOk, Client, OrNone, SocketStop
<1>2. rec \in Task
  BY <1>1, TaskBegin, PointNames, Zenon DEF OrNone
<1>3. TaskOk(rec)
  BY <1>1, NoneAssumption DEF TaskOk, Idle
<1>4. onMap' \subseteq Trucks /\ watch' \in [Routes -> {"blank", "moving", "ended"}]
       /\ upsets' \in Nat
  BY DEF IInv, TypeOK, SocketStop, EndRoute, HideTruck, screens
<1> QED
  BY <1>2, <1>3, <1>4, HoldStep DEF SocketStop

-----------------------------------------------------------------------------
(* Steps that change rows or connections                                   *)

\* What no step does to a row that somebody may have read.
RowsKept ==
  \A s \in Rows :
    /\ s \in Rows'
    /\ sessions'[s].driver = sessions[s].driver
    /\ sessions'[s].truck = sessions[s].truck
    /\ sessions'[s].route \in {sessions[s].route, NONE}

\* A connection never changes hands.
DriversKept ==
  \A k \in Sockets : client[k].driver # NONE => client'[k].driver = client[k].driver

\* A row that is written stays within its bounds and within the sweep's copy.
RowMoved(s) ==
  /\ sessions'[s] \in Session
  /\ sessions'[s].driver = sessions[s].driver
  /\ sessions'[s].truck = sessions[s].truck
  /\ sessions'[s].route \in {sessions[s].route, NONE}
  /\ sessions'[s].started = sessions[s].started
  /\ sessions'[s].started <= sessions'[s].last /\ sessions'[s].last <= now
  /\ sessions'[s].ended # NONE =>
       sessions'[s].started <= sessions'[s].ended /\ sessions'[s].ended <= now
  /\ sweep'[s] # NONE =>
       /\ sweep'[s] = sweep[s]
       /\ sweep[s] <= sessions'[s].last
       /\ sessions'[s].ended # NONE => sweep[s] <= sessions'[s].ended

RowsMoved ==
  /\ DOMAIN sessions' = SessionId
  /\ sessions' = [s \in DOMAIN sessions' |-> sessions'[s]]
  /\ \A s \in Rows : RowMoved(s)
  /\ \A s \in SessionId \ Rows : sessions'[s] = sessions[s] /\ sweep'[s] \in {sweep[s], NONE}
  /\ UNCHANGED <<now, nextId>>

LEMMA MovedRows ==
  ASSUME IInv, RowsMoved
  PROVE  /\ sessions' \in [SessionId -> Session]
         /\ nextId' \in 1..(MaxSessions + 1)
         /\ RowsKept /\ RowsInv' /\ TimesOrdered' /\ SweepInv'
<1> USE DEF IInv, TypeOK
<1>1. Rows' = Rows /\ Rows \subseteq SessionId
  BY BoundsAssumption DEF RowsMoved, Rows, SessionId
<1>2. \A s \in SessionId : sessions'[s] \in Session
  BY <1>1 DEF RowsMoved, RowMoved
<1>3. sessions' \in [SessionId -> Session]
  BY <1>2 DEF RowsMoved
<1>4. RowsKept
  BY <1>1 DEF RowsMoved, RowMoved, RowsKept
<1>5. RowsInv'
  BY <1>1 DEF RowsMoved, RowMoved, RowsInv
<1>6. TimesOrdered'
  BY <1>1 DEF RowsMoved, RowMoved, TimesOrdered
<1>7. SweepInv'
  <2> SUFFICES ASSUME NEW s \in SessionId, sweep'[s] # NONE
               PROVE  /\ s \in Rows
                      /\ sessions'[s].started <= sweep'[s] /\ sweep'[s] <= sessions'[s].last
                      /\ sessions'[s].ended # NONE => sweep'[s] <= sessions'[s].ended
    BY <1>1 DEF SweepInv
  <2>1. s \in Rows
    BY DEF RowsMoved, SweepInv
  <2> QED
    BY <2>1 DEF RowsMoved, RowMoved, SweepInv
<1>8. nextId' \in 1..(MaxSessions + 1)
  BY DEF RowsMoved
<1> QED
  BY <1>3, <1>4, <1>5, <1>6, <1>7, <1>8

\* Rows kept and connections kept: what was read remains true.
LEMMA Kept ==
  ASSUME IInv, RowsKept, DriversKept
  PROVE  /\ \A g \in Handlers : task'[g] = task[g] => TaskOk(task[g])'
         /\ \A k \in Sockets : client'[k] = client[k] => ClientOk(client[k])'
         /\ UNCHANGED lastFix => FixInv' /\ FixOwner'
<1>1. ASSUME NEW g \in Handlers, task'[g] = task[g] PROVE TaskOk(task[g])'
  <2>1. TaskOk(task[g]) /\ task[g] \in Task
    BY DEF IInv, TaskInv, TypeOK
  <2>2. task[g].socket # NONE => task[g].socket \in Sockets
    BY <2>1 DEF Task, OrNone
  <2> QED
    BY <1>1, <2>1, <2>2 DEF TaskOk, Owned, RowsKept, DriversKept
<1>2. ASSUME NEW k \in Sockets, client'[k] = client[k] PROVE ClientOk(client[k])'
  <2>1. ClientOk(client[k])
    BY DEF IInv, ClientInv
  <2> QED
    BY <1>2, <2>1 DEF ClientOk, Owned, RowsKept
<1>3. ASSUME UNCHANGED lastFix PROVE FixInv' /\ FixOwner'
  BY <1>3 DEF IInv, FixInv, FixOwner, RowsKept
<1> QED
  BY <1>1, <1>2, <1>3

CatalogOK ==
  /\ driverOf \in [Trucks -> OrNone(Drivers)]
  /\ schedule \in [Trucks -> OrNone(Routes)]
  /\ routeState \in [Routes -> {"ready", "unready", "removed"}]

LEMMA Step ==
  ASSUME IInv, RowsKept, DriversKept,
         now' \in Nat,
         sessions' \in [SessionId -> Session], nextId' \in 1..(MaxSessions + 1),
         RowsInv', TimesOrdered', SweepInv',
         lastFix' = lastFix \/ (lastFix' \in OrNone(Fix) /\ FixInv' /\ FixOwner'),
         CatalogOK',
         sweep' \in [SessionId -> OrNone(Nat)],
         client' \in [Sockets -> Client],
         \A k \in Sockets : client'[k] = client[k] \/ ClientOk(client[k])',
         task' \in [Handlers -> Task],
         \A g \in Handlers : task'[g] = task[g] \/ TaskOk(task[g])',
         onMap' \subseteq Trucks,
         watch' \in [Routes -> {"blank", "moving", "ended"}],
         upsets' \in Nat
  PROVE  IInv'
<1>1. TypeOK'
  BY DEF IInv, TypeOK, CatalogOK
<1>2. TaskInv'
  BY Kept DEF TaskInv
<1>3. ClientInv'
  BY Kept DEF ClientInv
<1>4. FixInv' /\ FixOwner'
  BY Kept
<1> QED
  BY <1>1, <1>2, <1>3, <1>4 DEF IInv

-----------------------------------------------------------------------------
(* Steps that change a connection                                          *)

\* Steps of one handler and the connections that change no row.
LEMMA ContextStep ==
  ASSUME IInv, NEW h \in Handlers, NEW rec \in Task, Hold(h, rec), TaskOk(task[h])',
         DriversKept, client' \in [Sockets -> Client],
         \A k \in Sockets : client'[k] = client[k] \/ ClientOk(client[k])',
         UNCHANGED <<now, tables, catalog, sweep>>,
         onMap' \subseteq Trucks, watch' \in [Routes -> {"blank", "moving", "ended"}],
         upsets' \in Nat
  PROVE  IInv'
<1>1. task' \in [Handlers -> Task] /\ \A g \in Handlers : task'[g] = task[g] \/ TaskOk(task[g])'
  BY DEF IInv, TypeOK, Hold
<1>2. RowsKept /\ RowsInv' /\ TimesOrdered' /\ SweepInv'
  <2>1. Rows' = Rows
    BY DEF Rows, tables
  <2> QED
    BY <2>1 DEF IInv, RowsKept, RowsInv, TimesOrdered, SweepInv, tables
<1>3. /\ now' \in Nat /\ sessions' \in [SessionId -> Session]
      /\ nextId' \in 1..(MaxSessions + 1) /\ sweep' \in [SessionId -> OrNone(Nat)]
      /\ UNCHANGED lastFix /\ CatalogOK'
  BY DEF IInv, TypeOK, tables, catalog, CatalogOK
<1> QED
  BY <1>1, <1>2, <1>3, Step

\* Giving a connection a route context.
LEMMA GiveContext ==
  ASSUME IInv, NEW k \in Sockets, NEW t \in Trucks, NEW r \in Routes, NEW s \in SessionId,
         SetContext(k, t, r, s), client[k].driver # NONE
  PROVE  /\ client' \in [Sockets -> Client]
         /\ DriversKept
         /\ \A q \in Sockets \ {k} : client'[q] = client[q]
         /\ client'[k].up = client[k].up /\ client'[k].driver = client[k].driver
         /\ client'[k].session = s /\ client'[k].truck = t /\ client'[k].route = r
<1>1. client \in [Sockets -> Client]
  BY DEF IInv, TypeOK
<1> QED
  BY <1>1 DEF SetContext, DriversKept, Client, OrNone

LEMMA ClearContext ==
  ASSUME IInv, NEW k \in Sockets, SetContext(k, NONE, NONE, NONE)
  PROVE  /\ client' \in [Sockets -> Client]
         /\ DriversKept
         /\ \A q \in Sockets : client'[q] = client[q] \/ ClientOk(client[q])'
<1>1. client \in [Sockets -> Client] /\ \A q \in Sockets : ClientOk(client[q])
  BY DEF IInv, TypeOK, ClientInv
<1>2. client' \in [Sockets -> Client] /\ DriversKept
  BY <1>1 DEF SetContext, DriversKept, Client, OrNone
<1>3. /\ \A q \in Sockets \ {k} : client'[q] = client[q]
      /\ client'[k].up = client[k].up /\ client'[k].driver = client[k].driver
      /\ client'[k].session = NONE /\ client'[k].truck = NONE
  BY <1>1 DEF SetContext, Client
<1>4. ClientOk(client[k])'
  BY <1>1, <1>3 DEF ClientOk
<1> QED
  BY <1>2, <1>3, <1>4

LEMMA HangupStep ==
  ASSUME IInv, NEW k \in Sockets, Hangup(k)
  PROVE  /\ client' \in [Sockets -> Client]
         /\ DriversKept
         /\ \A q \in Sockets : client'[q] = client[q] \/ ClientOk(client[q])
         /\ \A q \in Sockets :
              /\ client'[q].up => client[q].up
              /\ client'[q].driver = client[q].driver /\ client'[q].session = client[q].session
              /\ client'[q].truck = client[q].truck /\ client'[q].route = client[q].route
         /\ onMap' \subseteq Trucks /\ watch' = watch
<1>1. client \in [Sockets -> Client] /\ \A q \in Sockets : ClientOk(client[q])
  BY DEF IInv, TypeOK, ClientInv
<1>2. onMap' \subseteq Trucks /\ watch' = watch
  BY DEF Hangup, HideTruck, IInv, TypeOK
<1>3. client' = [client EXCEPT ![k] = [client[k] EXCEPT !.up = FALSE]]
  BY DEF Hangup
<1>4. [client[k] EXCEPT !.up = FALSE] \in Client
  BY <1>1 DEF Client
<1>5. client' \in [Sockets -> Client]
  BY <1>1, <1>3, <1>4
<1>6. \A q \in Sockets :
        /\ client'[q].up => client[q].up
        /\ client'[q].driver = client[q].driver /\ client'[q].session = client[q].session
        /\ client'[q].truck = client[q].truck /\ client'[q].route = client[q].route
  BY <1>1, <1>3 DEF Client
<1> QED
  BY <1>1, <1>2, <1>5, <1>6 DEF DriversKept

LEMMA ConnectInv ==
  ASSUME IInv, NEW h \in Handlers, NEW k \in Sockets, NEW d \in Drivers, Connect(h, k, d)
  PROVE  IInv'
<1> DEFINE rec == [Idle EXCEPT !.at = "verify", !.driver = d, !.socket = k]
           c == [NoClient EXCEPT !.up = TRUE, !.driver = d]
<1>1. rec \in Task /\ rec.at = "verify" /\ rec.driver = d /\ rec.socket = k
  BY TaskBegin, PointNames, IdleType, Zenon DEF OrNone, Idle
<1>2. c \in Client /\ c.driver = d /\ c.session = NONE /\ c.truck = NONE
  BY DEF NoClient, Client, OrNone
<1>3. client' = [client EXCEPT ![k] = c] /\ Hold(h, rec) /\ client[k].driver = NONE
       /\ client \in [Sockets -> Client] /\ task \in [Handlers -> Task]
  BY DEF Connect, IInv, TypeOK
<1>4. client' \in [Sockets -> Client] /\ client'[k] = c
       /\ \A q \in Sockets \ {k} : client'[q] = client[q]
  BY <1>2, <1>3
<1>5. DriversKept /\ \A q \in Sockets : client'[q] = client[q] \/ ClientOk(client[q])'
  BY <1>2, <1>3, <1>4, NoneAssumption DEF DriversKept, ClientOk
<1>6. TaskOk(task[h])'
  <2>1. task'[h] = rec
    BY <1>3 DEF Hold
  <2>2. task'[h].at = "verify" /\ task'[h].driver = d /\ task'[h].socket = k
         /\ client'[k].driver = d
    BY <1>1, <1>2, <1>4, <2>1
  <2> HIDE DEF rec, c
  <2> QED
    BY <2>2, NoneAssumption DEF TaskOk
<1>7. onMap' \subseteq Trucks /\ watch' \in [Routes -> {"blank", "moving", "ended"}]
       /\ upsets' \in Nat
  BY DEF Connect, screens, IInv, TypeOK
<1>8. UNCHANGED <<now, tables, catalog, sweep>>
  BY DEF Connect
<1> QED
  BY <1>1, <1>3, <1>4, <1>5, <1>6, <1>7, <1>8, ContextStep

LEMMA FinishedOk ==
  ASSUME IInv, NEW h \in Handlers, Finish(h)
  PROVE  TaskOk(task[h])'
<1>1. task'[h] = Idle
  BY DEF IInv, TypeOK, Finish, Hold
<1> QED
  BY <1>1, IdleType DEF TaskOk

LEMMA RejectInactiveInv ==
  ASSUME IInv, NEW h \in Handlers, RejectInactive(h) PROVE IInv'
<1>1. task[h] \in Task /\ TaskOk(task[h]) /\ task[h].at = "verify"
  BY DEF IInv, TypeOK, TaskInv, RejectInactive
<1>2. task[h].socket \in Sockets
  BY <1>1 DEF TaskOk, Task, OrNone
<1>3. Finish(h) /\ UNCHANGED <<now, tables, catalog, sweep, upsets>>
  BY DEF RejectInactive
<1>4. TaskOk(task[h])' /\ upsets' \in Nat
  BY <1>3, FinishedOk DEF IInv, TypeOK
<1>5. CASE client[task[h].socket].up
  <2>1. Hangup(task[h].socket)
    BY <1>5 DEF RejectInactive
  <2>2. \A q \in Sockets : ClientOk(client[q])'
    <3>1. \A q \in Sockets : ClientOk(client[q])
      BY DEF IInv, ClientInv
    <3> QED
      BY <1>2, <1>3, <2>1, <3>1, HangupStep DEF ClientOk, Owned, Rows, tables
  <2>3. onMap' \subseteq Trucks /\ watch' \in [Routes -> {"blank", "moving", "ended"}]
    BY <1>2, <2>1, HangupStep DEF IInv, TypeOK
  <2> QED
    BY <1>2, <1>3, <1>4, <2>1, <2>2, <2>3, HangupStep, ContextStep, IdleType DEF Finish
<1>6. CASE ~client[task[h].socket].up
  BY <1>3, <1>6, ReadStep, IdleType, FinishOk DEF RejectInactive, Finish
<1> QED
  BY <1>5, <1>6

LEMMA DisconnectInv ==
  ASSUME IInv, NEW k \in Sockets, Disconnect(k) PROVE IInv'
<1>1. Hangup(k) /\ UNCHANGED <<now, tables, catalog, task, sweep, upsets>>
  BY DEF Disconnect
<1>2. \A q \in Sockets : ClientOk(client[q])'
  <2>1. \A q \in Sockets : ClientOk(client[q])
    BY DEF IInv, ClientInv
  <2> QED
    BY <1>1, <2>1, HangupStep DEF ClientOk, Owned, Rows, tables
<1>3. RowsKept /\ RowsInv' /\ TimesOrdered' /\ SweepInv'
  <2>1. Rows' = Rows
    BY <1>1 DEF Rows, tables
  <2> QED
    BY <1>1, <2>1 DEF IInv, RowsKept, RowsInv, TimesOrdered, SweepInv, tables
<1>4. /\ now' \in Nat /\ sessions' \in [SessionId -> Session]
      /\ nextId' \in 1..(MaxSessions + 1) /\ sweep' \in [SessionId -> OrNone(Nat)]
      /\ task' \in [Handlers -> Task] /\ \A g \in Handlers : task'[g] = task[g]
      /\ upsets' \in Nat /\ UNCHANGED lastFix /\ CatalogOK'
      /\ watch \in [Routes -> {"blank", "moving", "ended"}]
  BY <1>1 DEF IInv, TypeOK, tables, catalog, CatalogOK
<1> QED
  BY <1>1, <1>2, <1>3, <1>4, HangupStep, Step

LEMMA ResumeScheduleInv ==
  ASSUME IInv, NEW h \in Handlers, ResumeSchedule(h) PROVE IInv'
<1> DEFINE r == schedule[task[h].truck]
<1>1. task[h] \in Task /\ TaskOk(task[h]) /\ task[h].at = "resumeSchedule"
  BY DEF IInv, TypeOK, TaskInv, ResumeSchedule
<1>2. /\ task[h].socket \in Sockets /\ task[h].truck \in Trucks
      /\ task[h].session \in SessionId /\ Owned(task[h].session, task[h].driver)
      /\ client[task[h].socket].driver = task[h].driver /\ task[h].driver # NONE
  BY <1>1 DEF TaskOk, Task, OrNone
<1>3. Finish(h) /\ UNCHANGED <<now, tables, catalog, sweep, screens, upsets>>
  BY DEF ResumeSchedule
<1>4. CASE r = NONE
  BY <1>3, <1>4, ReadStep, IdleType, FinishOk DEF ResumeSchedule, Finish
<1>5. CASE r # NONE
  <2>1. r \in Routes
    BY <1>2, <1>5 DEF IInv, TypeOK, OrNone
  <2>2. SetContext(task[h].socket, task[h].truck, r, task[h].session)
    BY <1>5 DEF ResumeSchedule
  <2>3. /\ client' \in [Sockets -> Client] /\ DriversKept
        /\ \A q \in Sockets \ {task[h].socket} : client'[q] = client[q]
        /\ client'[task[h].socket].driver = task[h].driver
        /\ client'[task[h].socket].session = task[h].session
        /\ client'[task[h].socket].truck = task[h].truck
        /\ client'[task[h].socket].route = r
    BY <1>2, <2>1, <2>2, GiveContext
  <2>5. \A q \in Sockets : client'[q] = client[q] \/ ClientOk(client[q])'
    BY <1>2, <1>3, <2>1, <2>3, NoneAssumption DEF ClientOk, Owned, Rows, tables, SessionId
  <2>6. onMap' \subseteq Trucks /\ watch' \in [Routes -> {"blank", "moving", "ended"}]
         /\ upsets' \in Nat
    BY <1>3 DEF screens, IInv, TypeOK
  <2>7. TaskOk(task[h])'
    BY <1>3, FinishedOk
  <2> QED
    BY <1>3, <2>3, <2>5, <2>6, <2>7, ContextStep, IdleType DEF Finish
<1> QED
  BY <1>4, <1>5

LEMMA StartedStep ==
  ASSUME IInv, NEW h \in Handlers, NEW s \in SessionId, Started(h, s),
         task[h].at \in {"startFind", "startInsert"},
         s \in Rows', sessions'[s].driver = task[h].driver
  PROVE  /\ client' \in [Sockets -> Client]
         /\ DriversKept
         /\ \A q \in Sockets : client'[q] = client[q] \/ ClientOk(client[q])'
<1>1. task[h] \in Task /\ TaskOk(task[h]) /\ client \in [Sockets -> Client]
  BY DEF IInv, TypeOK, TaskInv
<1>2. task[h].truck \in Trucks /\ task[h].route \in Routes /\ task[h].driver \in Drivers
  BY <1>1 DEF TaskOk, Task, OrNone
<1>3. CASE task[h].socket = NONE
  BY <1>1, <1>3 DEF Started, DriversKept
<1>4. CASE task[h].socket # NONE
  <2>1. /\ task[h].socket \in Sockets
        /\ client[task[h].socket].driver = task[h].driver
        /\ SetContext(task[h].socket, task[h].truck, task[h].route, s)
    BY <1>1, <1>4 DEF TaskOk, Task, OrNone, Started
  <2>2. task[h].driver # NONE
    BY <1>2, NoneAssumption
  <2>3. /\ client' \in [Sockets -> Client] /\ DriversKept
        /\ \A q \in Sockets \ {task[h].socket} : client'[q] = client[q]
        /\ client'[task[h].socket].driver = task[h].driver
        /\ client'[task[h].socket].session = s
        /\ client'[task[h].socket].truck = task[h].truck
        /\ client'[task[h].socket].route = task[h].route
    BY <1>2, <2>1, <2>2, GiveContext
  <2> QED
    BY <1>2, <2>1, <2>2, <2>3, NoneAssumption DEF ClientOk, Owned, SessionId
<1> QED
  BY <1>3, <1>4

LEMMA StartFindInv ==
  ASSUME IInv, NEW h \in Handlers, StartFind(h) PROVE IInv'
<1>1. task[h] \in Task /\ TaskOk(task[h]) /\ task[h].at = "startFind"
  BY DEF IInv, TypeOK, TaskInv, StartFind
<1>2. task[h].driver \in Drivers
  BY <1>1 DEF TaskOk, Task, OrNone
<1>3. UNCHANGED <<now, tables, catalog, sweep, screens, upsets>>
  BY DEF StartFind
<1>4. PICK s \in FindOpenForDriver(task[h].driver) :
        IF s = NONE THEN Await(h, "startClose") /\ UNCHANGED client ELSE Started(h, s)
  BY DEF StartFind
<1>5. CASE s = NONE
  <2> DEFINE rec == [task[h] EXCEPT !.at = "startClose"]
  <2>1. rec \in Task /\ TaskOk(rec)
    BY <1>1, TaskUpdate, PointNames, Zenon DEF TaskOk, Task
  <2> QED
    BY <1>3, <1>4, <1>5, <2>1, ReadStep DEF Await
<1>6. CASE s # NONE
  <2>1. s \in SessionId /\ Owned(s, task[h].driver)
    BY <1>2, <1>4, <1>6, Queries DEF IInv
  <2>2. s \in Rows' /\ sessions'[s].driver = task[h].driver
    BY <1>3, <2>1 DEF Owned, Rows, tables
  <2>3. /\ client' \in [Sockets -> Client] /\ DriversKept
        /\ \A q \in Sockets : client'[q] = client[q] \/ ClientOk(client[q])'
    BY <1>1, <1>4, <1>6, <2>1, <2>2, StartedStep
  <2>4. Finish(h) /\ TaskOk(task[h])'
    BY <1>4, <1>6, FinishedOk DEF Started
  <2>5. onMap' \subseteq Trucks /\ watch' \in [Routes -> {"blank", "moving", "ended"}]
         /\ upsets' \in Nat
    BY <1>3 DEF screens, IInv, TypeOK
  <2> QED
    BY <1>3, <2>3, <2>4, <2>5, ContextStep, IdleType DEF Finish
<1> QED
  BY <1>5, <1>6

LEMMA StopFaultInv ==
  ASSUME IInv, NEW h \in Handlers, StopFault(h) PROVE IInv'
<1>1. task[h] \in Task /\ TaskOk(task[h])
  BY DEF IInv, TypeOK, TaskInv
<1>2. Finish(h) /\ TaskOk(task[h])' /\ UNCHANGED <<now, tables, catalog, sweep, screens>>
  BY FinishedOk DEF StopFault
<1>3. onMap' \subseteq Trucks /\ watch' \in [Routes -> {"blank", "moving", "ended"}]
       /\ upsets' \in Nat
  BY DEF StopFault, Upset, screens, IInv, TypeOK
<1>4. CASE task[h].at = "socketStop"
  <2>1. task[h].socket \in Sockets /\ SetContext(task[h].socket, NONE, NONE, NONE)
    BY <1>1, <1>4 DEF StopFault, TaskOk, Task, OrNone
  <2> QED
    BY <1>2, <1>3, <2>1, ClearContext, ContextStep, IdleType DEF Finish
<1>5. CASE task[h].at # "socketStop"
  <2>1. UNCHANGED client
    BY <1>5 DEF StopFault
  <2> QED
    BY <1>2, <1>3, <2>1, HoldStep, IdleType, FinishOk DEF Finish
<1> QED
  BY <1>4, <1>5

-----------------------------------------------------------------------------
(* Steps that change rows                                                  *)

\* Steps of one handler that move rows and leave connections as ClearContext does.
LEMMA RowStep ==
  ASSUME IInv, NEW h \in Handlers, NEW rec \in Task, Hold(h, rec), TaskOk(task[h])',
         RowsMoved, DriversKept, client' \in [Sockets -> Client],
         \A k \in Sockets : client'[k] = client[k] \/ ClientOk(client[k])',
         UNCHANGED <<lastFix, catalog, sweep, upsets>>,
         onMap' \subseteq Trucks, watch' \in [Routes -> {"blank", "moving", "ended"}]
  PROVE  IInv'
<1>1. task' \in [Handlers -> Task] /\ \A g \in Handlers : task'[g] = task[g] \/ TaskOk(task[g])'
  BY DEF IInv, TypeOK, Hold
<1>2. /\ now' \in Nat /\ sweep' \in [SessionId -> OrNone(Nat)] /\ upsets' \in Nat
      /\ CatalogOK'
  BY DEF IInv, TypeOK, RowsMoved, CatalogOK, catalog
<1> QED
  BY <1>1, <1>2, MovedRows, Step

\* Ending open rows, now or at their last activity.
LEMMA EndRows ==
  ASSUME IInv, NEW S \in SUBSET SessionId, \A s \in S : Open(s),
         EndAtNow(S) \/ EndAtLastActivity(S), UNCHANGED <<now, nextId, sweep>>
  PROVE  RowsMoved
<1>1. \A s \in SessionId \ S : sessions'[s] = sessions[s]
  BY DEF EndAtNow, EndAtLastActivity
<1>2. \A s \in S : \E e \in {now, sessions[s].last} :
        sessions'[s] = [sessions[s] EXCEPT !.ended = e]
  BY DEF EndAtNow, EndAtLastActivity
<1>3. Rows \subseteq SessionId /\ S \subseteq Rows
  BY RowIds DEF Open, IInv
<1>4. ASSUME NEW s \in Rows PROVE RowMoved(s)
  <2>1. sessions[s] \in Session /\ now \in Nat
    BY <1>3 DEF IInv, TypeOK
  <2>2. /\ sessions[s].started <= sessions[s].last /\ sessions[s].last <= now
        /\ sessions[s].ended # NONE =>
             sessions[s].started <= sessions[s].ended /\ sessions[s].ended <= now
        /\ sweep[s] # NONE =>
             /\ sweep[s] <= sessions[s].last
             /\ sessions[s].ended # NONE => sweep[s] <= sessions[s].ended
    BY <1>3 DEF IInv, TimesOrdered, SweepInv
  <2>3. ASSUME s \in S PROVE RowMoved(s)
    <3>1. PICK e \in {now, sessions[s].last} : sessions'[s] = [sessions[s] EXCEPT !.ended = e]
      BY <1>2, <2>3
    <3>2. e \in Nat /\ sessions[s].last <= e /\ e <= now
      BY <2>1, <2>2 DEF Session
    <3>3. /\ sessions'[s] \in Session
          /\ sessions'[s].driver = sessions[s].driver /\ sessions'[s].truck = sessions[s].truck
          /\ sessions'[s].route = sessions[s].route /\ sessions'[s].started = sessions[s].started
          /\ sessions'[s].last = sessions[s].last /\ sessions'[s].ended = e
      BY <2>1, <3>1, <3>2 DEF Session, OrNone
    <3>4. sweep[s] # NONE => sweep[s] \in Nat
      BY <1>3 DEF IInv, TypeOK, OrNone
    <3> QED
      BY <2>1, <2>2, <3>2, <3>3, <3>4 DEF RowMoved, Session
  <2>4. ASSUME s \notin S PROVE RowMoved(s)
    BY <1>1, <1>3, <2>1, <2>2, <2>4 DEF RowMoved
  <2> QED
    BY <2>3, <2>4
<1>5. DOMAIN sessions' = SessionId /\ sessions' = [s \in DOMAIN sessions' |-> sessions'[s]]
  BY DEF EndAtNow, EndAtLastActivity
<1> QED
  BY <1>1, <1>3, <1>4, <1>5 DEF RowsMoved

LEMMA RecordActivityInv ==
  ASSUME IInv, NEW h \in Handlers, RecordActivity(h) PROVE IInv'
<1> DEFINE s == task[h].session
           rec == [task[h] EXCEPT !.at = "store"]
<1>1. task[h] \in Task /\ TaskOk(task[h]) /\ task[h].at = "activity"
  BY DEF IInv, TypeOK, TaskInv, RecordActivity
<1>2. s \in Rows /\ s \in SessionId
  BY <1>1 DEF TaskOk, Owned, Task, OrNone
<1>3. sessions' = [sessions EXCEPT ![s] = [sessions[s] EXCEPT !.last = now]]
       /\ Hold(h, rec)
       /\ UNCHANGED <<now, nextId, lastFix, catalog, client, sweep, screens, upsets>>
  BY DEF RecordActivity, Touch, Await
<1>4. RowsMoved
  <2>1. sessions \in [SessionId -> Session] /\ now \in Nat /\ Rows \subseteq SessionId
    BY RowIds DEF IInv, TypeOK
  <2>2. ASSUME NEW q \in Rows PROVE RowMoved(q)
    <3>1. /\ sessions[q].started <= sessions[q].last /\ sessions[q].last <= now
          /\ sessions[q].ended # NONE =>
               sessions[q].started <= sessions[q].ended /\ sessions[q].ended <= now
          /\ sweep[q] # NONE =>
               /\ sweep[q] \in Nat /\ sweep[q] <= sessions[q].last
               /\ sessions[q].ended # NONE => sweep[q] <= sessions[q].ended
      BY <2>1 DEF IInv, TypeOK, TimesOrdered, SweepInv, OrNone
    <3>2. sessions[q] \in Session
      BY <2>1
    <3>3. /\ sessions'[q] \in Session
          /\ sessions'[q].driver = sessions[q].driver /\ sessions'[q].truck = sessions[q].truck
          /\ sessions'[q].route = sessions[q].route /\ sessions'[q].started = sessions[q].started
          /\ sessions'[q].last \in {sessions[q].last, now}
          /\ sessions'[q].ended = sessions[q].ended
      BY <1>3, <2>1, <3>2 DEF Session
    <3> QED
      BY <1>3, <2>1, <3>1, <3>2, <3>3 DEF RowMoved, Session
  <2> QED
    BY <1>2, <1>3, <2>1, <2>2 DEF RowsMoved
<1>5. \A k \in Sockets : client'[k] = client[k]
  BY <1>3
<1>6. rec \in Task
  BY <1>1, TaskUpdate, PointNames, Zenon
<1>7. TaskOk(task[h])'
  <2>1. RowsKept
    BY <1>4, MovedRows
  <2>2. /\ task'[h].at = "store" /\ task'[h].driver = task[h].driver
        /\ task'[h].socket = task[h].socket /\ task'[h].session = task[h].session
        /\ task'[h].truck = task[h].truck /\ task'[h].route = task[h].route
    BY <1>1, <1>3 DEF Hold, Task, IInv, TypeOK
  <2> QED
    BY <1>1, <1>2, <1>3, <2>1, <2>2 DEF TaskOk, Owned, RowsKept
<1>8. DriversKept /\ client' \in [Sockets -> Client] /\ onMap' \subseteq Trucks
       /\ watch' \in [Routes -> {"blank", "moving", "ended"}]
  BY <1>3 DEF DriversKept, IInv, TypeOK, screens
<1> QED
  BY <1>3, <1>4, <1>5, <1>6, <1>7, <1>8, RowStep

LEMMA StartCloseInv ==
  ASSUME IInv, NEW h \in Handlers, StartClose(h) PROVE IInv'
<1> DEFINE rec == [task[h] EXCEPT !.at = "startInsert"]
<1>1. task[h] \in Task /\ TaskOk(task[h]) /\ task[h].at = "startClose"
  BY DEF IInv, TypeOK, TaskInv, StartClose
<1>2. Hold(h, rec) /\ UNCHANGED <<now, nextId, lastFix, catalog, client, sweep, screens, upsets>>
  BY DEF StartClose, Await
<1>3. RowsMoved
  BY <1>2, EndRows DEF StartClose, CloseStaleForDriver, OpenOf
<1>4. rec \in Task
  BY <1>1, TaskUpdate, PointNames, Zenon
<1>5. TaskOk(task[h])'
  <2>1. /\ task'[h].at = "startInsert" /\ task'[h].driver = task[h].driver
        /\ task'[h].socket = task[h].socket /\ task'[h].session = task[h].session
        /\ task'[h].truck = task[h].truck /\ task'[h].route = task[h].route
    BY <1>1, <1>2 DEF Hold, Task, IInv, TypeOK
  <2> QED
    BY <1>1, <1>2, <2>1 DEF TaskOk
<1>6. /\ DriversKept /\ client' \in [Sockets -> Client] /\ onMap' \subseteq Trucks
      /\ watch' \in [Routes -> {"blank", "moving", "ended"}]
      /\ \A k \in Sockets : client'[k] = client[k]
  BY <1>2 DEF DriversKept, IInv, TypeOK, screens
<1> QED
  BY <1>2, <1>3, <1>4, <1>5, <1>6, RowStep

LEMMA StopUpdateInv ==
  ASSUME IInv, NEW h \in Handlers, StopUpdate(h) PROVE IInv'
<1>1. Finish(h) /\ UNCHANGED <<now, nextId, lastFix, catalog, client, sweep, upsets>>
       /\ Stop(task[h].driver)
  BY DEF StopUpdate
<1>2. RowsMoved
  BY <1>1, EndRows DEF Stop, OpenOf
<1>3. /\ DriversKept /\ client' \in [Sockets -> Client] /\ \A k \in Sockets : client'[k] = client[k]
  BY <1>1 DEF DriversKept, IInv, TypeOK
<1>4. onMap' \subseteq Trucks /\ watch' \in [Routes -> {"blank", "moving", "ended"}]
  BY DEF StopUpdate, EndRoute, HideTruck, screens, IInv, TypeOK
<1> QED
  BY <1>1, <1>2, <1>3, <1>4, FinishedOk, RowStep, IdleType DEF Finish

LEMMA SocketStopUpdateInv ==
  ASSUME IInv, NEW h \in Handlers, SocketStopUpdate(h) PROVE IInv'
<1>1. Finish(h) /\ UNCHANGED <<now, nextId, lastFix, catalog, sweep, screens, upsets>>
       /\ Stop(task[h].driver) /\ SetContext(task[h].socket, NONE, NONE, NONE)
  BY DEF SocketStopUpdate
<1>2. task[h].socket \in Sockets
  BY DEF SocketStopUpdate, IInv, TypeOK, TaskInv, TaskOk, Task, OrNone
<1>3. RowsMoved
  BY <1>1, EndRows DEF Stop, OpenOf
<1>4. /\ DriversKept /\ client' \in [Sockets -> Client]
      /\ \A k \in Sockets : client'[k] = client[k] \/ ClientOk(client[k])'
  BY <1>1, <1>2, ClearContext
<1>5. onMap' \subseteq Trucks /\ watch' \in [Routes -> {"blank", "moving", "ended"}]
  BY <1>1 DEF screens, IInv, TypeOK
<1> QED
  BY <1>1, <1>3, <1>4, <1>5, FinishedOk, RowStep, IdleType DEF Finish

LEMMA StartInsertInv ==
  ASSUME IInv, NEW h \in Handlers, StartInsert(h) PROVE IInv'
<1> DEFINE d == task[h].driver
           row == [driver |-> d, truck |-> task[h].truck, route |-> task[h].route,
                   started |-> now, last |-> now, ended |-> NONE]
<1>1. task[h] \in Task /\ TaskOk(task[h]) /\ task[h].at = "startInsert"
  BY DEF IInv, TypeOK, TaskInv, StartInsert
<1>2. d \in Drivers /\ nextId \in SessionId /\ nextId \notin Rows /\ now \in Nat
       /\ sessions \in [SessionId -> Session]
  BY <1>1, BoundsAssumption
     DEF IInv, TypeOK, TaskOk, Task, OrNone, StartInsert, CreateSession, SessionId, Rows
<1>3. /\ sessions' = [sessions EXCEPT ![nextId] = row] /\ nextId' = nextId + 1
      /\ Started(h, nextId) /\ UNCHANGED <<now, lastFix, catalog, sweep, screens, upsets>>
  BY DEF StartInsert, CreateSession
<1>4. row \in Session
  BY <1>1, <1>2 DEF Task, Session, OrNone
<1>5. sessions' \in [SessionId -> Session] /\ nextId' \in 1..(MaxSessions + 1)
  BY <1>2, <1>3, <1>4, BoundsAssumption DEF SessionId
<1>6. Rows' = Rows \cup {nextId}
  BY <1>3 DEF Rows, IInv, TypeOK
<1>7. sessions'[nextId] = row /\ \A s \in SessionId \ {nextId} : sessions'[s] = sessions[s]
  BY <1>2, <1>3
<1>8. Rows \subseteq SessionId
  BY RowIds DEF IInv
<1>9. RowsKept /\ RowsInv'
  BY <1>2, <1>6, <1>7, <1>8 DEF IInv, RowsKept, RowsInv
<1>10. TimesOrdered'
  BY <1>2, <1>3, <1>6, <1>7, <1>8 DEF IInv, TimesOrdered
<1>11. SweepInv'
  BY <1>2, <1>3, <1>6, <1>7, <1>8 DEF IInv, SweepInv
<1>12. /\ client' \in [Sockets -> Client] /\ DriversKept
       /\ \A q \in Sockets : client'[q] = client[q] \/ ClientOk(client[q])'
  BY <1>1, <1>2, <1>3, <1>6, <1>7, StartedStep
<1>13. Finish(h)
  BY <1>3 DEF Started
<1>14. task' \in [Handlers -> Task] /\ \A g \in Handlers : task'[g] = task[g] \/ TaskOk(task[g])'
  BY <1>13, FinishedOk, IdleType DEF Finish, Hold, IInv, TypeOK
<1>15. /\ now' \in Nat /\ sweep' \in [SessionId -> OrNone(Nat)] /\ upsets' \in Nat
       /\ CatalogOK' /\ UNCHANGED lastFix
       /\ onMap' \subseteq Trucks /\ watch' \in [Routes -> {"blank", "moving", "ended"}]
  BY <1>3 DEF IInv, TypeOK, CatalogOK, catalog, screens
<1> QED
  BY <1>5, <1>9, <1>10, <1>11, <1>12, <1>14, <1>15, Step

LEMMA StoreFixInv ==
  ASSUME IInv, NEW h \in Handlers, StoreFix(h) PROVE IInv'
<1> DEFINE rec == [task[h] EXCEPT !.at = "emit"]
           t == task[h]
<1>1. t \in Task /\ TaskOk(t) /\ t.at = "store"
  BY DEF IInv, TypeOK, TaskInv, StoreFix
<1>2. /\ t.session \in SessionId /\ Owned(t.session, t.driver) /\ t.driver \in Drivers
      /\ t.truck \in Trucks /\ t.route \in Routes /\ t.socket \in OrNone(Sockets)
      /\ t.socket = NONE => sessions[t.session].truck = t.truck
                            /\ sessions[t.session].route \in {t.route, NONE}
  BY <1>1 DEF TaskOk, Task, OrNone
<1>3. /\ lastFix' = [session |-> t.session, driver |-> t.driver, truck |-> t.truck,
                     route |-> t.route, socket |-> t.socket, inOpen |-> Open(t.session)]
      /\ Hold(h, rec)
      /\ UNCHANGED <<now, sessions, nextId, catalog, client, sweep, screens, upsets>>
  BY DEF StoreFix, Await
<1>4. lastFix' \in OrNone(Fix)
  <2>1. Open(t.session) \in BOOLEAN
    BY DEF Open
  <2> QED
    BY <1>2, <1>3, <2>1 DEF Fix, OrNone
<1>5. Rows' = Rows
  BY <1>3 DEF Rows
<1>6. FixInv' /\ FixOwner'
  BY <1>2, <1>3, <1>5 DEF FixInv, FixOwner, Owned
<1>7. RowsKept /\ DriversKept /\ RowsInv' /\ TimesOrdered' /\ SweepInv'
  BY <1>3, <1>5 DEF IInv, RowsKept, DriversKept, RowsInv, TimesOrdered, SweepInv
<1>8. rec \in Task
  BY <1>1, TaskUpdate, PointNames, Zenon
<1>9. TaskOk(task[h])'
  <2>1. /\ task'[h].at = "emit" /\ task'[h].driver = t.driver
        /\ task'[h].socket = t.socket /\ task'[h].session = t.session
        /\ task'[h].truck = t.truck /\ task'[h].route = t.route
    BY <1>1, <1>3 DEF Hold, Task, IInv, TypeOK
  <2> QED
    BY <1>1, <1>3, <1>5, <2>1 DEF TaskOk, Owned
<1>10. task' \in [Handlers -> Task] /\ \A g \in Handlers : task'[g] = task[g] \/ TaskOk(task[g])'
  BY <1>3, <1>8, <1>9 DEF Hold, IInv, TypeOK
<1>11. /\ now' \in Nat /\ sessions' \in [SessionId -> Session] /\ nextId' \in 1..(MaxSessions + 1)
       /\ sweep' \in [SessionId -> OrNone(Nat)] /\ client' \in [Sockets -> Client]
       /\ \A k \in Sockets : client'[k] = client[k]
       /\ CatalogOK' /\ upsets' \in Nat
       /\ onMap' \subseteq Trucks /\ watch' \in [Routes -> {"blank", "moving", "ended"}]
  BY <1>3 DEF IInv, TypeOK, CatalogOK, catalog, screens
<1> QED
  BY <1>4, <1>6, <1>7, <1>10, <1>11, Step

\* Steps that leave every handler, every connection and the last fix alone.
LEMMA WorldStep ==
  ASSUME IInv, UNCHANGED <<lastFix, client, task, screens>>,
         RowsKept, RowsInv', TimesOrdered', SweepInv', CatalogOK',
         now' \in Nat, sessions' \in [SessionId -> Session], nextId' \in 1..(MaxSessions + 1),
         sweep' \in [SessionId -> OrNone(Nat)], upsets' \in Nat
  PROVE  IInv'
<1>1. /\ DriversKept /\ client' \in [Sockets -> Client] /\ task' \in [Handlers -> Task]
      /\ \A k \in Sockets : client'[k] = client[k]
      /\ \A g \in Handlers : task'[g] = task[g]
      /\ onMap' \subseteq Trucks /\ watch' \in [Routes -> {"blank", "moving", "ended"}]
      /\ UNCHANGED lastFix
  BY DEF DriversKept, IInv, TypeOK, screens
<1> QED
  BY <1>1, Step

\* What is true of rows that a step leaves alone while time may pass.
LEMMA QuietRows ==
  ASSUME IInv, UNCHANGED <<sessions, nextId>>, now' \in Nat, now <= now'
  PROVE  /\ RowsKept /\ RowsInv' /\ TimesOrdered'
         /\ sessions' \in [SessionId -> Session] /\ nextId' \in 1..(MaxSessions + 1)
<1>1. Rows' = Rows /\ Rows \subseteq SessionId
  BY RowIds DEF Rows, IInv
<1>2. TimesOrdered'
  <2>1. \A s \in Rows : sessions[s].last \in Nat /\ sessions[s].ended \in OrNone(Nat) /\ now \in Nat
    BY <1>1 DEF IInv, TypeOK, Session
  <2> QED
    BY <1>1, <2>1 DEF IInv, TimesOrdered, OrNone
<1>3. RowsKept /\ RowsInv'
  BY <1>1 DEF IInv, RowsKept, RowsInv
<1>4. sessions' \in [SessionId -> Session] /\ nextId' \in 1..(MaxSessions + 1)
  BY DEF IInv, TypeOK
<1> QED
  BY <1>2, <1>3, <1>4

LEMMA SweepFindInv ==
  ASSUME IInv, SweepFind PROVE IInv'
<1>1. UNCHANGED <<now, tables, catalog, client, task, screens, upsets>>
       /\ sweep' = [s \in SessionId |-> IF s \in Abandoned THEN sessions[s].last ELSE NONE]
  BY DEF SweepFind
<1>2. now' \in Nat /\ now <= now' /\ upsets' \in Nat /\ CatalogOK'
       /\ UNCHANGED lastFix /\ UNCHANGED <<sessions, nextId>>
  BY <1>1 DEF IInv, TypeOK, CatalogOK, catalog, tables
<1>3. sweep' \in [SessionId -> OrNone(Nat)]
  BY <1>1 DEF IInv, TypeOK, Session, OrNone
<1>4. SweepInv'
  <2> SUFFICES ASSUME NEW s \in SessionId, sweep'[s] # NONE
               PROVE  /\ s \in Rows'
                      /\ sessions'[s].started <= sweep'[s] /\ sweep'[s] <= sessions'[s].last
                      /\ sessions'[s].ended # NONE => sweep'[s] <= sessions'[s].ended
    BY DEF SweepInv
  <2>1. s \in Abandoned /\ sweep'[s] = sessions[s].last
    BY <1>1
  <2>2. s \in Rows /\ sessions[s].ended = NONE
    BY <2>1 DEF Abandoned, Open
  <2>3. sessions[s].last \in Nat /\ sessions[s].started <= sessions[s].last
    BY <2>2 DEF IInv, TypeOK, Session, TimesOrdered
  <2> QED
    BY <1>2, <2>1, <2>2, <2>3 DEF Rows
<1> QED
  BY <1>1, <1>2, <1>3, <1>4, QuietRows, WorldStep

LEMMA SweepSaveInv ==
  ASSUME IInv, SweepSave PROVE IInv'
<1>1. UNCHANGED <<now, nextId, lastFix, catalog, client, task, screens, upsets>>
       /\ sweep' = NoSweep
  BY Zenon DEF SweepSave
<1>2. PICK changed \in SUBSET SessionId :
        sessions' = [s \in SessionId |->
          IF sweep[s] = NONE THEN sessions[s]
          ELSE [sessions[s] EXCEPT !.ended = sweep[s],
                                   !.last = IF s \in changed THEN sweep[s] ELSE sessions[s].last]]
  BY Zenon DEF SweepSave
<1>3. sessions \in [SessionId -> Session] /\ Rows \subseteq SessionId /\ now \in Nat
       /\ sweep \in [SessionId -> OrNone(Nat)]
  BY RowIds DEF IInv, TypeOK
<1>4. ASSUME NEW s \in Rows PROVE RowMoved(s)
  <2>1. sweep'[s] = NONE
    BY <1>1, <1>3 DEF NoSweep
  <2>2. /\ sessions[s].started <= sessions[s].last /\ sessions[s].last <= now
        /\ sessions[s].ended # NONE =>
             sessions[s].started <= sessions[s].ended /\ sessions[s].ended <= now
    BY DEF IInv, TimesOrdered
  <2>3. ASSUME sweep[s] = NONE PROVE RowMoved(s)
    BY <1>2, <1>3, <2>1, <2>2, <2>3, Zenon DEF RowMoved
  <2>4. ASSUME sweep[s] # NONE PROVE RowMoved(s)
    <3>1. sweep[s] \in Nat /\ sessions[s] \in Session
      BY <1>3, <2>4 DEF OrNone
    <3>2. sessions[s].started <= sweep[s] /\ sweep[s] <= sessions[s].last
      BY <1>3, <2>4 DEF IInv, SweepInv
    <3>3. PICK e \in {sweep[s], sessions[s].last} :
            sessions'[s] = [sessions[s] EXCEPT !.ended = sweep[s], !.last = e]
      BY <1>2, <1>3, <2>4, Zenon
    <3>4. e \in Nat /\ sessions[s].started <= e /\ e <= now
      BY <1>3, <2>2, <3>1, <3>2 DEF Session
    <3>5. /\ sessions'[s] \in Session
          /\ sessions'[s].driver = sessions[s].driver /\ sessions'[s].truck = sessions[s].truck
          /\ sessions'[s].route = sessions[s].route /\ sessions'[s].started = sessions[s].started
          /\ sessions'[s].last = e /\ sessions'[s].ended = sweep[s]
      BY <3>1, <3>3, <3>4 DEF Session, OrNone
    <3> QED
      BY <1>3, <2>1, <2>2, <3>1, <3>2, <3>4, <3>5 DEF RowMoved, Session
  <2> QED
    BY <2>3, <2>4
<1>5. RowsMoved
  <2>1. \A s \in SessionId \ Rows : sessions'[s] = sessions[s] /\ sweep'[s] = NONE
    BY <1>1, <1>2, Zenon DEF IInv, SweepInv, NoSweep
  <2> QED
    BY <1>1, <1>2, <1>4, <2>1, Zenon DEF RowsMoved
<1>6. now' \in Nat /\ sweep' \in [SessionId -> OrNone(Nat)] /\ upsets' \in Nat /\ CatalogOK'
  BY <1>1 DEF IInv, TypeOK, CatalogOK, catalog, NoSweep, OrNone
<1>7. UNCHANGED <<lastFix, client, task, screens>>
  BY <1>1
<1> QED
  BY <1>5, <1>6, <1>7, MovedRows, WorldStep

LEMMA RemoveRouteInv ==
  ASSUME IInv, NEW r \in Routes, RemoveRoute(r) PROVE IInv'
<1>1. /\ UNCHANGED <<now, nextId, lastFix, driverOf, client, task, sweep, screens>>
      /\ sessions' = [s \in SessionId |->
           IF sessions[s].route = r THEN [sessions[s] EXCEPT !.route = NONE] ELSE sessions[s]]
  BY DEF RemoveRoute
<1>2. sessions \in [SessionId -> Session] /\ Rows \subseteq SessionId /\ now \in Nat
       /\ sweep \in [SessionId -> OrNone(Nat)]
  BY RowIds DEF IInv, TypeOK
<1>3. ASSUME NEW s \in Rows PROVE RowMoved(s)
  <2>1. /\ sessions[s].started <= sessions[s].last /\ sessions[s].last <= now
        /\ sessions[s].ended # NONE =>
             sessions[s].started <= sessions[s].ended /\ sessions[s].ended <= now
        /\ sweep[s] # NONE =>
             /\ sweep[s] <= sessions[s].last
             /\ sessions[s].ended # NONE => sweep[s] <= sessions[s].ended
    BY <1>2 DEF IInv, TimesOrdered, SweepInv
  <2>2. /\ sessions'[s] \in Session
        /\ sessions'[s].driver = sessions[s].driver /\ sessions'[s].truck = sessions[s].truck
        /\ sessions'[s].route \in {sessions[s].route, NONE}
        /\ sessions'[s].started = sessions[s].started
        /\ sessions'[s].last = sessions[s].last /\ sessions'[s].ended = sessions[s].ended
    BY <1>1, <1>2 DEF Session, OrNone
  <2> QED
    BY <1>1, <2>1, <2>2 DEF RowMoved
<1>4. RowsMoved
  <2>1. \A s \in SessionId \ Rows : sessions'[s] = sessions[s]
    BY <1>1, NoneAssumption DEF IInv, RowsInv, NoSession
  <2> QED
    BY <1>1, <1>3, <2>1 DEF RowsMoved
<1>5. now' \in Nat /\ sweep' \in [SessionId -> OrNone(Nat)] /\ upsets' \in Nat /\ CatalogOK'
  BY <1>1 DEF IInv, TypeOK, CatalogOK, RemoveRoute, Upset, OrNone
<1>6. UNCHANGED <<lastFix, client, task, screens>>
  BY <1>1
<1> QED
  BY <1>4, <1>5, <1>6, MovedRows, WorldStep

LEMMA TickInv ==
  ASSUME IInv, Tick PROVE IInv'
<1>1. now' = now + 1 /\ UNCHANGED <<tables, catalog, client, task, sweep, screens, upsets>>
  BY DEF Tick
<1>2. now' \in Nat /\ now <= now' /\ upsets' \in Nat /\ CatalogOK'
       /\ sweep' \in [SessionId -> OrNone(Nat)]
       /\ UNCHANGED lastFix /\ UNCHANGED <<sessions, nextId>>
  BY <1>1 DEF IInv, TypeOK, CatalogOK, catalog, tables
<1>3. SweepInv'
  BY <1>1 DEF IInv, SweepInv, Rows, tables
<1> QED
  BY <1>1, <1>2, <1>3, QuietRows, WorldStep

LEMMA EditInv ==
  ASSUME IInv, Edit PROVE IInv'
<1>1. ASSUME UNCHANGED <<now, tables, client, task, sweep, screens>>, upsets' \in Nat, CatalogOK'
      PROVE  IInv'
  <2>1. now' \in Nat /\ now <= now' /\ sweep' \in [SessionId -> OrNone(Nat)]
         /\ UNCHANGED lastFix /\ UNCHANGED <<sessions, nextId>>
    BY <1>1 DEF IInv, TypeOK, tables
  <2>2. SweepInv'
    BY <1>1 DEF IInv, SweepInv, Rows, tables
  <2> QED
    BY <1>1, <2>1, <2>2, QuietRows, WorldStep
<1>2. ASSUME NEW t \in Trucks, NEW d \in OrNone(Drivers), AssignTruck(t, d) PROVE IInv'
  BY <1>1, <1>2 DEF AssignTruck, Upset, IInv, TypeOK, CatalogOK
<1>3. ASSUME NEW t \in Trucks, NEW r \in OrNone(Routes), Reschedule(t, r) PROVE IInv'
  BY <1>1, <1>3 DEF Reschedule, Upset, IInv, TypeOK, CatalogOK
<1>4. ASSUME NEW r \in Routes, ToggleRoute(r) PROVE IInv'
  BY <1>1, <1>4 DEF ToggleRoute, Upset, IInv, TypeOK, CatalogOK
<1> QED
  BY <1>2, <1>3, <1>4, RemoveRouteInv DEF Edit

LEMMA RestartInv ==
  ASSUME IInv, Restart PROVE IInv'
<1>1. /\ UNCHANGED <<now, tables, catalog, screens>>
      /\ task' = [h \in Handlers |-> Idle]
      /\ client' = [k \in Sockets |-> [client[k] EXCEPT !.up = FALSE]]
      /\ sweep' = NoSweep
  BY DEF Restart
<1>2. /\ now' \in Nat /\ now <= now' /\ upsets' \in Nat /\ CatalogOK'
      /\ UNCHANGED lastFix /\ UNCHANGED <<sessions, nextId>>
      /\ onMap' \subseteq Trucks /\ watch' \in [Routes -> {"blank", "moving", "ended"}]
  BY <1>1 DEF Restart, Upset, IInv, TypeOK, CatalogOK, catalog, tables, screens
<1>3. sweep' \in [SessionId -> OrNone(Nat)] /\ SweepInv'
  BY <1>1 DEF NoSweep, SweepInv, OrNone
<1>4. client \in [Sockets -> Client] /\ \A k \in Sockets : ClientOk(client[k])
  BY DEF IInv, TypeOK, ClientInv
<1>5. client' \in [Sockets -> Client]
  BY <1>1, <1>4 DEF Client
<1>6. \A k \in Sockets :
        /\ ~client'[k].up
        /\ client'[k].driver = client[k].driver /\ client'[k].session = client[k].session
        /\ client'[k].truck = client[k].truck /\ client'[k].route = client[k].route
  BY <1>1, <1>4 DEF Client
<1>7. DriversKept /\ \A k \in Sockets : ClientOk(client[k])'
  BY <1>2, <1>4, <1>6 DEF DriversKept, ClientOk, Owned, Rows
<1>8. task' \in [Handlers -> Task] /\ \A g \in Handlers : TaskOk(task[g])'
  BY <1>1, IdleType DEF TaskOk
<1> QED
  BY <1>2, <1>3, <1>5, <1>7, <1>8, QuietRows, Step

-----------------------------------------------------------------------------
(* The invariant                                                           *)

LEMMA InitInv == Init => IInv
<1> SUFFICES ASSUME Init PROVE IInv
  OBVIOUS
<1>1. NoSession \in Session /\ NoClient \in Client
  BY DEF NoSession, NoClient, Session, Client, OrNone
<1>2. TypeOK
  BY <1>1, IdleType, BoundsAssumption DEF Init, TypeOK, OrNone, NoSweep
<1>3. Rows = {}
  BY DEF Init, Rows
<1>4. RowsInv /\ TimesOrdered /\ SweepInv /\ FixInv /\ FixOwner
  BY <1>3 DEF Init, RowsInv, TimesOrdered, SweepInv, FixInv, FixOwner, NoSweep
<1>5. ClientInv /\ TaskInv
  BY IdleType DEF Init, ClientInv, ClientOk, NoClient, TaskInv, TaskOk
<1> QED
  BY <1>2, <1>4, <1>5 DEF IInv

LEMMA StutterInv ==
  ASSUME IInv, UNCHANGED vars PROVE IInv'
<1>1. UNCHANGED <<lastFix, client, task, screens>> /\ UNCHANGED <<sessions, nextId>>
       /\ UNCHANGED lastFix /\ now' \in Nat /\ now <= now' /\ upsets' \in Nat /\ CatalogOK'
       /\ sweep' \in [SessionId -> OrNone(Nat)]
  BY DEF vars, screens, IInv, TypeOK, CatalogOK
<1>2. SweepInv'
  BY DEF vars, IInv, SweepInv, Rows
<1> QED
  BY <1>1, <1>2, QuietRows, WorldStep

LEMMA NextInv == IInv /\ [Next]_vars => IInv'
<1> SUFFICES ASSUME IInv, [Next]_vars PROVE IInv'
  OBVIOUS
<1>1. ASSUME NEW h \in Handlers, Request(h) PROVE IInv'
  BY <1>1, ConnectInv, StartRequestInv, GpsUpdateInv, PositionRequestInv, HttpStopInv,
     SocketStopInv DEF Request
<1>2. ASSUME NEW h \in Handlers, Proceed(h) PROVE IInv'
  BY <1>2, VerifyActiveInv, RejectInactiveInv, ResumeFindInv, ResumeTruckInv,
     ResumeScheduleInv, StartTruckInv, StartScheduleInv, StartFindInv, StartCloseInv,
     StartInsertInv, StartRefusedInv, PositionFindInv, RecordActivityInv, StoreFixInv,
     EmitFixInv, StopFindInv, StopUpdateInv, SocketStopUpdateInv DEF Proceed
<1>3. ASSUME NEW h \in Handlers, Fault(h) PROVE IInv'
  BY <1>3, FixFaultInv, StopFaultInv DEF Fault
<1>4. ASSUME NEW k \in Sockets, Disconnect(k) PROVE IInv'
  BY <1>4, DisconnectInv
<1>5. CASE SweepFind \/ SweepSave \/ Tick \/ Edit \/ Restart
  BY <1>5, SweepFindInv, SweepSaveInv, TickInv, EditInv, RestartInv
<1>6. CASE UNCHANGED vars
  BY <1>6, StutterInv
<1> QED
  BY <1>1, <1>2, <1>3, <1>4, <1>5, <1>6 DEF Next

(* The inductive invariant holds: whatever a handler, a connection or a    *)
(* sweep has read, this much of it is still true when it is used.          *)
THEOREM Invariance == Spec => []IInv
  BY InitInv, NextInv, PTL DEF Spec

(* Every variable keeps its type, for any number of sockets, handlers in   *)
(* flight and rows.                                                        *)
THEOREM TypesKept == Spec => []TypeOK
<1>1. IInv => TypeOK
  BY DEF IInv
<1> QED
  BY <1>1, Invariance, PTL

(* A session starts, is active and ends in that order and never in the     *)
(* future, whichever pings, stops, starts and sweeps write to its row.     *)
THEOREM TimesStayOrdered == Spec => []TimesOrdered
<1>1. IInv => TimesOrdered
  BY DEF IInv
<1> QED
  BY <1>1, Invariance, PTL

(* A fix is always filed under a session of the driver who sent it, and    *)
(* over HTTP with the truck and route of that session.                     *)
THEOREM FixesHaveTheirOwner == Spec => []FixOwner
<1>1. IInv => FixOwner
  BY DEF IInv
<1> QED
  BY <1>1, Invariance, PTL

\* What one step may do to a session that has ended.
FinalStep ==
  \A s \in SessionId :
    sessions[s].ended # NONE =>
      sessions'[s].ended # NONE /\ sessions'[s].ended <= sessions[s].ended

LEMMA FinalOfStep == IInv /\ [Next]_vars => FinalStep
<1> SUFFICES ASSUME IInv, [Next]_vars, NEW s \in SessionId, sessions[s].ended # NONE
             PROVE  sessions'[s].ended # NONE /\ sessions'[s].ended <= sessions[s].ended
  BY DEF FinalStep
<1> DEFINE final == sessions'[s].ended # NONE /\ sessions'[s].ended <= sessions[s].ended
<1>1. sessions \in [SessionId -> Session] /\ sessions[s].ended \in Nat /\ now \in Nat
  BY DEF IInv, TypeOK, Session, OrNone
<1>2. s \in Rows
  BY DEF IInv, RowsInv, NoSession
<1>3. ASSUME sessions'[s].ended = sessions[s].ended PROVE final
  BY <1>1, <1>3
<1>4. ASSUME UNCHANGED sessions PROVE final
  BY <1>3, <1>4
<1>5. ASSUME NEW d, Stop(d) \/ CloseStaleForDriver(d) PROVE final
  <2>1. s \notin OpenOf(d)
    BY DEF OpenOf, Open
  <2>2. sessions'[s] = sessions[s]
    BY <1>5, <2>1 DEF Stop, CloseStaleForDriver, EndAtNow, EndAtLastActivity
  <2> QED
    BY <1>3, <2>2
<1>6. ASSUME NEW h \in Handlers, Request(h) PROVE final
  BY <1>4, <1>6, Zenon DEF Request, Connect, StartRequest, GpsUpdate, PositionRequest, HttpStop,
     SocketStop, tables
<1>7. ASSUME NEW h \in Handlers, RecordActivity(h) PROVE final
  BY <1>1, <1>3, <1>7 DEF RecordActivity, Touch, Session
<1>8. ASSUME NEW h \in Handlers, StartInsert(h) PROVE final
  <2>1. nextId # s
    BY <1>2 DEF Rows, IInv, TypeOK
  <2>2. sessions'[s] = sessions[s]
    BY <1>1, <1>8, <2>1 DEF StartInsert, CreateSession
  <2> QED
    BY <1>3, <2>2
<1>9. ASSUME NEW h \in Handlers, Proceed(h) PROVE final
  BY <1>4, <1>5, <1>7, <1>8, <1>9, Zenon DEF Proceed, VerifyActive, RejectInactive, ResumeFind,
     ResumeTruck, ResumeSchedule, StartTruck, StartSchedule, StartFind, StartClose,
     StartRefused, PositionFind, StoreFix, EmitFix, StopFind, StopUpdate, SocketStopUpdate,
     tables
<1>10. ASSUME NEW h \in Handlers, Fault(h) PROVE final
  BY <1>4, <1>10 DEF Fault, FixFault, StopFault, tables
<1>11. CASE SweepSave
  <2>1. CASE sweep[s] = NONE
    BY <1>1, <1>3, <1>11, <2>1, Zenon DEF SweepSave
  <2>2. CASE sweep[s] # NONE
    <3>1. sweep[s] \in Nat /\ sweep[s] <= sessions[s].ended
      BY <1>2, <2>2 DEF IInv, TypeOK, SweepInv, OrNone
    <3>2. sessions'[s].ended = sweep[s]
      BY <1>1, <1>11, <2>2, Zenon DEF SweepSave, Session
    <3> QED
      BY <3>1, <3>2, NoneAssumption
  <2> QED
    BY <2>1, <2>2
<1>12. CASE Edit
  <2>1. ASSUME NEW r \in Routes, RemoveRoute(r) PROVE final
    BY <1>1, <1>3, <2>1 DEF RemoveRoute, Session
  <2> QED
    BY <1>4, <1>12, <2>1 DEF Edit, AssignTruck, Reschedule, ToggleRoute, tables
<1>13. CASE (\E k \in Sockets : Disconnect(k)) \/ SweepFind \/ Tick \/ Restart \/ UNCHANGED vars
  BY <1>4, <1>13 DEF Disconnect, SweepFind, Tick, Restart, tables, vars
<1> QED
  BY <1>6, <1>9, <1>10, <1>11, <1>12, <1>13 DEF Next

(* A session that has ended is never reopened and its end never moves      *)
(* later, although pings and sweeps that loaded the row before still write *)
(* to it.                                                                  *)
THEOREM ClosedStaysClosed == Spec => ClosedIsFinal
<1>1. IInv /\ [Next]_vars => [FinalStep]_vars
  BY FinalOfStep
<1> QED
  BY <1>1, Invariance, PTL DEF Spec, ClosedIsFinal, FinalStep

-----------------------------------------------------------------------------
(* One request of a driver at a time                                       *)

(* What the apps do, though nothing in the server makes them: a driver's   *)
(* next request leaves when the last one has been answered.                *)
OneAtATime == MaxInFlight = 1 /\ IsFiniteSet(Handlers)

OneEach == \A g, h \in Handlers : g # h /\ task[g].driver # NONE => task[g].driver # task[h].driver

\* What a start has found out is still true when it inserts.
StartOk(t) ==
  /\ t.at = "startClose" => \A s \in OpenOf(t.driver) : Silent(s)
  /\ t.at = "startInsert" => OpenOf(t.driver) = {}

\* What a stop has found out is still true when it tells the screens.
StopOk(t) ==
  t.at = "stopUpdate" =>
    \A s \in OpenOf(t.driver) :
      Silent(s) \/ (t.truck # NONE /\ sessions[s].route \in {t.route, NONE})

SerialTask(t) == StartOk(t) /\ StopOk(t)

TrucksKnown == \A s \in Rows : sessions[s].truck # NONE

SerialInv ==
  /\ NoOverlap /\ TrucksKnown
  /\ OneEach /\ \A h \in Handlers : SerialTask(task[h])

LEMMA FreeIsAlone ==
  ASSUME OneAtATime, NEW h \in Handlers, NEW d, Free(h, d)
  PROVE  \A g \in Handlers : task[g].driver # d
<1>1. IsFiniteSet(InFlight(d))
  BY FS_Subset DEF OneAtATime, InFlight
<1>2. Cardinality(InFlight(d)) \in Nat /\ Cardinality(InFlight(d)) < 1
  BY <1>1, FS_CardinalityType DEF OneAtATime, Free
<1>3. Cardinality(InFlight(d)) = 0
  BY <1>2
<1>4. InFlight(d) = {}
  BY <1>1, <1>3, FS_EmptySet
<1> QED
  BY <1>4 DEF InFlight

\* Of one driver at most one session is open.
LEMMA OnlyOneOpen ==
  ASSUME TypeOK, NoOverlap, NEW d, NEW s \in OpenOf(d), NEW q \in OpenOf(d)
  PROVE  s = q
<1>1. s \in Rows /\ q \in Rows /\ sessions[s].driver = sessions[q].driver
       /\ sessions[s].ended = NONE /\ sessions[q].ended = NONE
  BY DEF OpenOf, Open
<1>2. s \in Int /\ q \in Int
  BY <1>1, RowIds DEF SessionId
<1> QED
  BY <1>1, <1>2 DEF NoOverlap

\* Looking up finds the driver's open session unless it has gone silent.
LEMMA LookupIsExact ==
  ASSUME TypeOK, NoOverlap, NEW d, NEW a \in FindOpenForDriver(d)
  PROVE  /\ a = NONE => \A s \in OpenOf(d) : Silent(s)
         /\ a # NONE => a \in OpenOf(d) /\ ~Silent(a) /\ OpenOf(d) = {a}
<1>1. CASE OpenOf(d) = {}
  BY <1>1 DEF FindOpenForDriver
<1>2. CASE OpenOf(d) # {}
  <2>1. PICK s \in OpenOf(d) : a = IF Silent(s) THEN NONE ELSE s
    BY <1>2 DEF FindOpenForDriver, Newest
  <2>2. OpenOf(d) = {s}
    BY OnlyOneOpen
  <2>3. s # NONE
    BY NoneAssumption DEF OpenOf, SessionId
  <2> QED
    BY <2>1, <2>2, <2>3
<1> QED
  BY <1>1, <1>2

\* A step opens no session of this driver and makes none of them less silent.
Undisturbed(e) ==
  \A s \in OpenOf(e)' :
    /\ s \in OpenOf(e)
    /\ Silent(s) => Silent(s)'
    /\ sessions'[s].route \in {sessions[s].route, NONE}

LEMMA UndisturbedTask ==
  ASSUME NEW t, SerialTask(t), Undisturbed(t.driver)
  PROVE  SerialTask(t)'
<1> DEFINE d == t.driver
<1>1. \A s \in OpenOf(d)' : s \in OpenOf(d) /\ (Silent(s) => Silent(s)')
                            /\ sessions'[s].route \in {sessions[s].route, NONE}
  BY DEF Undisturbed
<1>2. StartOk(t)'
  BY <1>1 DEF StartOk, SerialTask
<1>3. StopOk(t)'
  BY <1>1 DEF StopOk, SerialTask
<1> QED
  BY <1>2, <1>3 DEF SerialTask

LEMMA QuietUndisturbed ==
  ASSUME UNCHANGED <<now, sessions, nextId>>, NEW e
  PROVE  Undisturbed(e)
  BY DEF Undisturbed, OpenOf, Open, Rows, Silent

\* A step of one handler, which may change the rows of its driver only.
LEMMA SerialStep ==
  ASSUME IInv, SerialInv, OneAtATime, NEW h \in Handlers, NEW rec \in Task, Hold(h, rec),
         \/ rec.driver \in {task[h].driver, NONE}
         \/ Free(h, rec.driver),
         \A e \in Drivers : e # task[h].driver => Undisturbed(e),
         SerialTask(rec)', NoOverlap', TrucksKnown'
  PROVE  SerialInv'
<1>1. /\ task \in [Handlers -> Task] /\ OneEach
      /\ \A g \in Handlers : SerialTask(task[g]) /\ TaskOk(task[g])
  BY DEF IInv, TypeOK, TaskInv, SerialInv
<1>2. task'[h] = rec /\ \A g \in Handlers \ {h} : task'[g] = task[g]
  BY <1>1 DEF Hold
<1>3. OneEach'
  <2>1. CASE rec.driver \in {task[h].driver, NONE}
    BY <1>1, <1>2, <2>1 DEF OneEach
  <2>2. CASE Free(h, rec.driver)
    <3>1. \A g \in Handlers : task[g].driver # rec.driver
      BY <2>2, FreeIsAlone
    <3> QED
      BY <1>1, <1>2, <3>1 DEF OneEach
  <2> QED
    BY <2>1, <2>2
<1>4. ASSUME NEW g \in Handlers PROVE SerialTask(task[g])'
  <2>1. CASE g = h
    BY <1>2, <2>1 DEF SerialTask, StartOk, StopOk
  <2>2. CASE g # h /\ task[g].at = "idle"
    BY <1>2, <2>2 DEF SerialTask, StartOk, StopOk
  <2>3. CASE g # h /\ task[g].at # "idle"
    <3>1. task[g].driver \in Drivers /\ task[g].driver # task[h].driver
      BY <1>1, <2>3 DEF TaskOk, Task, OrNone, OneEach
    <3>2. PICK t : t = task[g]
      OBVIOUS
    <3>3. SerialTask(t)'
      BY <1>1, <3>1, <3>2, UndisturbedTask
    <3>4. task'[g] = t
      BY <1>2, <2>3, <3>2
    <3> QED
      BY <3>3, <3>4 DEF SerialTask, StartOk, StopOk
  <2> QED
    BY <2>1, <2>2, <2>3
<1> QED
  BY <1>3, <1>4 DEF SerialInv

\* A step that leaves all rows alone.
LEMMA SerialRead ==
  ASSUME IInv, SerialInv, OneAtATime, NEW h \in Handlers, NEW rec \in Task, Hold(h, rec),
         \/ rec.driver \in {task[h].driver, NONE}
         \/ Free(h, rec.driver),
         UNCHANGED <<now, sessions, nextId>>, SerialTask(rec)
  PROVE  SerialInv'
<1>1. NoOverlap' /\ TrucksKnown'
  BY DEF SerialInv, NoOverlap, TrucksKnown, Rows
<1>2. SerialTask(rec)'
  BY QuietUndisturbed, UndisturbedTask
<1> QED
  BY <1>1, <1>2, QuietUndisturbed, SerialStep

\* A step of the sweep, the clock, an administrator or a crash.
LEMMA SerialWorld ==
  ASSUME IInv, SerialInv,
         \/ UNCHANGED task
         \/ \A h \in Handlers : task'[h] = Idle,
         \A e \in Drivers : Undisturbed(e),
         NoOverlap', TrucksKnown'
  PROVE  SerialInv'
<1>1. /\ task \in [Handlers -> Task] /\ OneEach
      /\ \A g \in Handlers : SerialTask(task[g]) /\ TaskOk(task[g])
  BY DEF IInv, TypeOK, TaskInv, SerialInv
<1>2. CASE UNCHANGED task
  <2>1. OneEach'
    BY <1>1, <1>2 DEF OneEach
  <2>2. ASSUME NEW g \in Handlers PROVE SerialTask(task[g])'
    <3>1. CASE task[g].at = "idle"
      BY <1>2, <3>1 DEF SerialTask, StartOk, StopOk
    <3>2. CASE task[g].at # "idle"
      <4>1. task[g].driver \in Drivers
        BY <1>1, <3>2 DEF TaskOk, Task, OrNone
      <4>2. PICK t : t = task[g]
        OBVIOUS
      <4>3. SerialTask(t)'
        BY <1>1, <4>1, <4>2, UndisturbedTask
      <4>4. task'[g] = t
        BY <1>2, <4>2
      <4> QED
        BY <4>3, <4>4 DEF SerialTask, StartOk, StopOk
    <3> QED
      BY <3>1, <3>2
  <2> QED
    BY <2>1, <2>2 DEF SerialInv
<1>3. CASE \A h \in Handlers : task'[h] = Idle
  BY <1>3, IdleType DEF SerialInv, OneEach, SerialTask, StartOk, StopOk
<1> QED
  BY <1>2, <1>3

-----------------------------------------------------------------------------
(* Requests, and awaits that only read                                     *)

LEMMA SerialRequest ==
  ASSUME IInv, SerialInv, OneAtATime, NEW h \in Handlers, Request(h)
  PROVE  SerialInv'
<1>1. UNCHANGED <<now, sessions, nextId>>
  BY Zenon DEF Request, Connect, StartRequest, GpsUpdate, PositionRequest, HttpStop, SocketStop,
         tables
<1>2. PICK rec \in Task :
        /\ Hold(h, rec) /\ Free(h, rec.driver)
        /\ rec.at \in {"verify", "startTruck", "activity", "positionFind", "stopFind",
                       "socketStop"}
  <2>1. ASSUME NEW k \in Sockets, NEW d \in Drivers, Connect(h, k, d)
        PROVE  \E rec \in Task :
                 /\ Hold(h, rec) /\ Free(h, rec.driver)
                 /\ rec.at = "verify"
    <3> DEFINE rec == [Idle EXCEPT !.at = "verify", !.driver = d, !.socket = k]
    <3>1. rec \in Task /\ rec.at = "verify" /\ rec.driver = d
      BY TaskBegin, PointNames, IdleType, Zenon DEF OrNone, Idle
    <3> QED
      BY <2>1, <3>1 DEF Connect
  <2>2. ASSUME NEW k \in OrNone(Sockets), NEW d \in Drivers, StartRequest(h, d, k)
        PROVE  \E rec \in Task :
                 /\ Hold(h, rec) /\ Free(h, rec.driver)
                 /\ rec.at = "startTruck"
    <3> DEFINE rec == [Idle EXCEPT !.at = "startTruck", !.driver = d, !.socket = k]
    <3>1. rec \in Task /\ rec.at = "startTruck" /\ rec.driver = d
      BY TaskBegin, PointNames, IdleType, Zenon DEF Idle
    <3> QED
      BY <2>2, <3>1 DEF StartRequest
  <2>3. ASSUME NEW k \in Sockets, GpsUpdate(h, k)
        PROVE  \E rec \in Task :
                 /\ Hold(h, rec) /\ Free(h, rec.driver)
                 /\ rec.at = "activity"
    <3> DEFINE c == client[k]
               rec == [at |-> "activity", driver |-> c.driver, socket |-> k,
                       session |-> c.session, truck |-> c.truck, route |-> c.route]
    <3>1. c \in Client /\ ClientOk(c)
      BY DEF IInv, TypeOK, ClientInv
    <3>2. rec \in Task /\ rec.at = "activity" /\ rec.driver = c.driver
      BY <3>1, PointNames DEF Client, Task, OrNone
    <3> QED
      BY <2>3, <3>2 DEF GpsUpdate
  <2>4. ASSUME NEW d \in Drivers, NEW s \in SessionId, PositionRequest(h, d, s)
        PROVE  \E rec \in Task :
                 /\ Hold(h, rec) /\ Free(h, rec.driver)
                 /\ rec.at = "positionFind"
    <3> DEFINE rec == [Idle EXCEPT !.at = "positionFind", !.driver = d, !.session = s]
    <3>1. rec \in Task /\ rec.at = "positionFind" /\ rec.driver = d
      BY TaskBegin, PointNames, IdleType, Zenon DEF OrNone, Idle
    <3> QED
      BY <2>4, <3>1 DEF PositionRequest
  <2>5. ASSUME NEW d \in Drivers, HttpStop(h, d)
        PROVE  \E rec \in Task :
                 /\ Hold(h, rec) /\ Free(h, rec.driver)
                 /\ rec.at = "stopFind"
    <3> DEFINE rec == [Idle EXCEPT !.at = "stopFind", !.driver = d]
    <3>1. rec \in Task /\ rec.at = "stopFind" /\ rec.driver = d
      BY TaskBegin, PointNames, IdleType, Zenon DEF Idle
    <3> QED
      BY <2>5, <3>1 DEF HttpStop
  <2>6. ASSUME NEW k \in Sockets, SocketStop(h, k)
        PROVE  \E rec \in Task :
                 /\ Hold(h, rec) /\ Free(h, rec.driver)
                 /\ rec.at = "socketStop"
    <3> DEFINE rec == [Idle EXCEPT !.at = "socketStop", !.driver = client[k].driver,
                               !.socket = k]
    <3>1. client[k].driver \in Drivers
      BY <2>6 DEF IInv, TypeOK, ClientInv, ClientOk, Client, OrNone, SocketStop
    <3>2. rec \in Task /\ rec.at = "socketStop" /\ rec.driver = client[k].driver
      BY <3>1, TaskBegin, PointNames, IdleType, Zenon DEF OrNone, Idle
    <3> QED
      BY <2>6, <3>2 DEF SocketStop
  <2> QED
    BY <2>1, <2>2, <2>3, <2>4, <2>5, <2>6 DEF Request
<1>3. SerialTask(rec)
  BY <1>2 DEF SerialTask, StartOk, StopOk
<1> QED
  BY <1>1, <1>2, <1>3, SerialRead

\* A handler that finishes, or passes on what it was given, has nothing to keep.
LEMMA SerialFinish ==
  ASSUME IInv, SerialInv, OneAtATime, NEW h \in Handlers, Finish(h),
         UNCHANGED <<now, sessions, nextId>>
  PROVE  SerialInv'
<1>1. SerialTask(Idle)
  BY IdleType DEF SerialTask, StartOk, StopOk
<1> QED
  BY <1>1, IdleType, SerialRead DEF Finish

LEMMA SerialPass ==
  ASSUME IInv, SerialInv, OneAtATime, NEW h \in Handlers, NEW rec \in Task, Hold(h, rec),
         rec.driver = task[h].driver,
         rec.at \notin {"startClose", "startInsert", "stopUpdate"},
         UNCHANGED <<now, sessions, nextId>>
  PROVE  SerialInv'
<1>1. SerialTask(rec)
  BY DEF SerialTask, StartOk, StopOk
<1> QED
  BY <1>1, SerialRead

LEMMA SerialResume ==
  ASSUME IInv, SerialInv, OneAtATime, NEW h \in Handlers,
         VerifyActive(h) \/ RejectInactive(h) \/ ResumeFind(h) \/ ResumeTruck(h)
           \/ ResumeSchedule(h)
  PROVE  SerialInv'
<1>1. task[h] \in Task /\ UNCHANGED <<now, sessions, nextId>>
  BY Zenon DEF IInv, TypeOK, VerifyActive, RejectInactive, ResumeFind, ResumeTruck,
     ResumeSchedule, tables
<1>2. CASE Finish(h)
  BY <1>1, <1>2, SerialFinish
<1>3. CASE ~Finish(h)
  <2>1. CASE VerifyActive(h)
    <3> DEFINE rec == [task[h] EXCEPT !.at = "resumeFind"]
    <3>1. rec \in Task /\ rec.at = "resumeFind" /\ rec.driver = task[h].driver
      BY <1>1, TaskUpdate, PointNames, Zenon DEF Task
    <3> QED
      BY <1>1, <2>1, <3>1, SerialPass DEF VerifyActive, Await
  <2>2. CASE ResumeFind(h)
    <3>1. PICK s \in FindOpenForDriver(task[h].driver) :
            /\ s # NONE
            /\ Hold(h, [task[h] EXCEPT !.at = "resumeTruck", !.session = s])
      BY <1>3, <2>2, Zenon DEF ResumeFind
    <3>2. s \in SessionId
      BY <3>1, LookupIsExact DEF IInv, SerialInv, OpenOf
    <3> DEFINE rec == [task[h] EXCEPT !.at = "resumeTruck", !.session = s]
    <3>3. rec \in Task /\ rec.at = "resumeTruck" /\ rec.driver = task[h].driver
      BY <1>1, <3>2, TaskUpdate, PointNames, Zenon DEF Task, OrNone
    <3> QED
      BY <1>1, <3>1, <3>3, SerialPass
  <2>3. CASE ResumeTruck(h)
    <3>1. PICK t \in FindByDriverId(task[h].driver) :
            Hold(h, [task[h] EXCEPT !.at = "resumeSchedule", !.truck = t])
      BY <1>3, <2>3, Zenon DEF ResumeTruck
    <3>2. t \in OrNone(Trucks)
      BY DEF FindByDriverId, OrNone
    <3> DEFINE rec == [task[h] EXCEPT !.at = "resumeSchedule", !.truck = t]
    <3>3. rec \in Task /\ rec.at = "resumeSchedule" /\ rec.driver = task[h].driver
      BY <1>1, <3>2, TaskUpdate, PointNames, Zenon DEF Task
    <3> QED
      BY <1>1, <3>1, <3>3, SerialPass
  <2> QED
    BY <1>3, <2>1, <2>2, <2>3 DEF RejectInactive, ResumeSchedule
<1> QED
  BY <1>2, <1>3

LEMMA SerialStart ==
  ASSUME IInv, SerialInv, OneAtATime, NEW h \in Handlers,
         StartTruck(h) \/ StartSchedule(h) \/ StartFind(h) \/ StartRefused(h)
  PROVE  SerialInv'
<1>1. task[h] \in Task /\ TaskOk(task[h]) /\ UNCHANGED <<now, sessions, nextId>>
  BY Zenon DEF IInv, TypeOK, TaskInv, StartTruck, StartSchedule, StartFind, StartRefused, tables
<1>2. CASE Finish(h)
  BY <1>1, <1>2, SerialFinish
<1>3. CASE ~Finish(h)
  <2>1. CASE StartTruck(h)
    <3>1. PICK t \in FindByDriverId(task[h].driver) :
            Hold(h, [task[h] EXCEPT !.at = "startSchedule", !.truck = t])
      BY <1>3, <2>1, Zenon DEF StartTruck
    <3>2. t \in OrNone(Trucks)
      BY DEF FindByDriverId, OrNone
    <3> DEFINE rec == [task[h] EXCEPT !.at = "startSchedule", !.truck = t]
    <3>3. rec \in Task /\ rec.at = "startSchedule" /\ rec.driver = task[h].driver
      BY <1>1, <3>2, TaskUpdate, PointNames, Zenon DEF Task
    <3> QED
      BY <1>1, <3>1, <3>3, SerialPass
  <2>2. CASE StartSchedule(h)
    <3> DEFINE r == schedule[task[h].truck]
               rec == [task[h] EXCEPT !.at = "startFind", !.route = r]
    <3>1. Hold(h, rec)
      BY <1>3, <2>2 DEF StartSchedule
    <3>2. r \in OrNone(Routes)
      BY <1>1, <2>2 DEF StartSchedule, TaskOk, Task, OrNone, IInv, TypeOK
    <3>3. rec \in Task /\ rec.at = "startFind" /\ rec.driver = task[h].driver
      BY <1>1, <3>2, TaskUpdate, PointNames, Zenon DEF Task
    <3> QED
      BY <1>1, <3>1, <3>3, SerialPass
  <2>3. CASE StartFind(h)
    <3>1. PICK s \in FindOpenForDriver(task[h].driver) :
            IF s = NONE THEN Await(h, "startClose") /\ UNCHANGED client ELSE Started(h, s)
      BY <2>3 DEF StartFind
    <3>2. s = NONE /\ Await(h, "startClose")
      BY <1>3, <3>1 DEF Started
    <3> DEFINE rec == [task[h] EXCEPT !.at = "startClose"]
    <3>3. rec \in Task /\ rec.at = "startClose" /\ rec.driver = task[h].driver
      BY <1>1, TaskUpdate, PointNames, Zenon DEF Task
    <3>4. \A q \in OpenOf(task[h].driver) : Silent(q)
      BY <3>1, <3>2, LookupIsExact DEF IInv, SerialInv
    <3>5. SerialTask(rec)
      BY <3>3, <3>4 DEF SerialTask, StartOk, StopOk
    <3> QED
      BY <1>1, <3>2, <3>3, <3>5, SerialRead DEF Await
  <2> QED
    BY <1>3, <2>1, <2>2, <2>3 DEF StartRefused
<1> QED
  BY <1>2, <1>3

LEMMA SerialPosition ==
  ASSUME IInv, SerialInv, OneAtATime, NEW h \in Handlers,
         PositionFind(h) \/ StoreFix(h) \/ EmitFix(h) \/ Fault(h)
  PROVE  SerialInv'
<1>1. task[h] \in Task /\ TaskOk(task[h]) /\ UNCHANGED <<now, sessions, nextId>>
  BY Zenon DEF IInv, TypeOK, TaskInv, PositionFind, StoreFix, EmitFix, Fault, FixFault, StopFault,
         tables
<1>2. CASE Finish(h)
  BY <1>1, <1>2, SerialFinish
<1>3. CASE ~Finish(h)
  <2>1. CASE PositionFind(h)
    <3>1. PICK s \in FindOpenForDriver(task[h].driver) :
            /\ Accepted(s, task[h].session)
            /\ Hold(h, [task[h] EXCEPT !.at = "activity", !.truck = sessions[s].truck,
                                       !.route = sessions[s].route])
      BY <1>3, <2>1, Zenon DEF PositionFind
    <3>2. s \in SessionId
      BY <3>1, LookupIsExact DEF IInv, SerialInv, OpenOf, Accepted
    <3>3. sessions[s].truck \in OrNone(Trucks) /\ sessions[s].route \in OrNone(Routes)
      BY <3>2 DEF IInv, TypeOK, Session
    <3> DEFINE rec == [task[h] EXCEPT !.at = "activity", !.truck = sessions[s].truck,
                                      !.route = sessions[s].route]
    <3>4. rec \in Task /\ rec.at = "activity" /\ rec.driver = task[h].driver
      BY <1>1, <3>3, TaskUpdate, PointNames, Zenon DEF Task
    <3> QED
      BY <1>1, <3>1, <3>4, SerialPass
  <2>2. ASSUME NEW p \in {"store", "emit"}, Await(h, p) PROVE SerialInv'
    <3> DEFINE rec == [task[h] EXCEPT !.at = p]
    <3>1. rec \in Task /\ rec.at = p /\ rec.driver = task[h].driver
      BY <1>1, TaskUpdate, PointNames, Zenon DEF Task
    <3> QED
      BY <1>1, <2>2, <3>1, SerialPass DEF Await
  <2> QED
    BY <1>3, <2>1, <2>2 DEF StoreFix, EmitFix, Fault, FixFault, StopFault
<1> QED
  BY <1>2, <1>3

LEMMA SerialStopFind ==
  ASSUME IInv, SerialInv, OneAtATime, NEW h \in Handlers, StopFind(h)
  PROVE  SerialInv'
<1>1. task[h] \in Task /\ UNCHANGED <<now, sessions, nextId>>
  BY DEF IInv, TypeOK, StopFind, tables
<1>2. PICK s \in FindOpenForDriver(task[h].driver) :
        IF s = NONE THEN Await(h, "stopUpdate")
        ELSE Hold(h, [task[h] EXCEPT !.at = "stopUpdate", !.session = s,
                                     !.truck = sessions[s].truck,
                                     !.route = sessions[s].route])
  BY Zenon DEF StopFind
<1>3. CASE s = NONE
  <2> DEFINE rec == [task[h] EXCEPT !.at = "stopUpdate"]
  <2>1. rec \in Task /\ rec.at = "stopUpdate" /\ rec.driver = task[h].driver
    BY <1>1, TaskUpdate, PointNames, Zenon DEF Task
  <2>2. \A q \in OpenOf(task[h].driver) : Silent(q)
    BY <1>2, <1>3, LookupIsExact DEF IInv, SerialInv
  <2>3. SerialTask(rec)
    BY <2>1, <2>2 DEF SerialTask, StartOk, StopOk
  <2> QED
    BY <1>1, <1>2, <1>3, <2>1, <2>3, SerialRead DEF Await
<1>4. CASE s # NONE
  <2> DEFINE rec == [task[h] EXCEPT !.at = "stopUpdate", !.session = s,
                                !.truck = sessions[s].truck,
                                !.route = sessions[s].route]
  <2>1. OpenOf(task[h].driver) = {s} /\ s \in SessionId /\ s \in Rows
    BY <1>2, <1>4, LookupIsExact DEF IInv, SerialInv, OpenOf, Open
  <2>2. sessions[s].truck \in OrNone(Trucks) /\ sessions[s].route \in OrNone(Routes)
         /\ sessions[s].truck # NONE
    BY <2>1 DEF IInv, TypeOK, Session, SerialInv, TrucksKnown
  <2>3. /\ rec \in Task /\ rec.at = "stopUpdate" /\ rec.driver = task[h].driver
        /\ rec.truck = sessions[s].truck /\ rec.route = sessions[s].route
    BY <1>1, <2>1, <2>2, TaskUpdate, PointNames, ZenonT(40) DEF Task, OrNone
  <2>4. SerialTask(rec)
    BY <2>1, <2>2, <2>3 DEF SerialTask, StartOk, StopOk
  <2> QED
    BY <1>1, <1>2, <1>4, <2>3, <2>4, SerialRead
<1> QED
  BY <1>3, <1>4

-----------------------------------------------------------------------------
(* Steps that change rows                                                  *)

\* What every step but an insertion leaves of a row.
RowEffect(s) ==
  /\ sessions'[s].driver = sessions[s].driver
  /\ sessions'[s].truck = sessions[s].truck
  /\ sessions'[s].route \in {sessions[s].route, NONE}
  /\ sessions'[s].started = sessions[s].started
  /\ \/ sessions'[s].last = sessions[s].last
     \/ sweep[s] # NONE /\ sessions'[s].last = sweep[s]
     \/ /\ sessions'[s].last = now
        /\ \E h \in Handlers : RecordActivity(h) /\ task[h].session = s
  /\ \/ sessions'[s].ended = sessions[s].ended
     \/ sweep[s] # NONE /\ sessions'[s].ended = sweep[s]
     \/ /\ Open(s) /\ sessions'[s].ended = now
        /\ \E h \in Handlers :
             (StopUpdate(h) \/ SocketStopUpdate(h)) /\ task[h].driver = sessions[s].driver
     \/ /\ Open(s) /\ Silent(s) /\ sessions'[s].ended = sessions[s].last
        /\ \E h \in Handlers : StartClose(h) /\ task[h].driver = sessions[s].driver

LEMMA RowEffects ==
  ASSUME IInv, [Next]_vars, \A h \in Handlers : ~StartInsert(h)
  PROVE  /\ nextId' = nextId /\ now <= now' /\ (Tick \/ now' = now)
         /\ \A s \in SessionId : RowEffect(s)
<1>1. nextId' = nextId /\ now <= now' /\ (Tick \/ now' = now)
  <2>1. now \in Nat
    BY DEF IInv, TypeOK
  <2>2. ASSUME NEW h \in Handlers, Request(h) \/ Proceed(h) \/ Fault(h)
        PROVE  nextId' = nextId /\ now' = now
    BY <2>2, Zenon DEF Request, Connect, StartRequest, GpsUpdate, PositionRequest, HttpStop,
       SocketStop, Proceed, VerifyActive, RejectInactive, ResumeFind, ResumeTruck,
       ResumeSchedule, StartTruck, StartSchedule, StartFind, StartClose, StartRefused,
       PositionFind, RecordActivity, StoreFix, EmitFix, StopFind, StopUpdate,
       SocketStopUpdate, Fault, FixFault, StopFault, tables
  <2>3. CASE Tick
    BY <2>1, <2>3 DEF Tick, tables
  <2>4. CASE \/ \E k \in Sockets : Disconnect(k)
             \/ SweepFind \/ SweepSave \/ Edit \/ Restart \/ UNCHANGED vars
    <3>1. nextId' = nextId /\ now' = now
      BY <2>4, Zenon DEF Disconnect, SweepFind, SweepSave, Edit, AssignTruck, Reschedule,
         ToggleRoute, RemoveRoute, Restart, tables, vars
    <3> QED
      BY <2>1, <3>1
  <2>5. CASE \E h \in Handlers : Request(h) \/ Proceed(h) \/ Fault(h)
    BY <2>1, <2>2, <2>5
  <2> QED
    BY <2>3, <2>4, <2>5 DEF Next
<1> SUFFICES ASSUME NEW s \in SessionId PROVE RowEffect(s)
  BY <1>1
<1>2. /\ sessions \in [SessionId -> Session] /\ sessions[s] \in Session /\ now \in Nat
      /\ sessions[s].last \in Nat
  BY DEF IInv, TypeOK, Session
<1>3. ASSUME sessions'[s] = sessions[s] PROVE RowEffect(s)
  BY <1>2, <1>3 DEF RowEffect
<1>4. ASSUME NEW h \in Handlers, StopUpdate(h) \/ SocketStopUpdate(h) \/ StartClose(h)
      PROVE  RowEffect(s)
  <2> DEFINE d == task[h].driver
  <2>1. CASE StopUpdate(h) \/ SocketStopUpdate(h)
    <3>1. sessions'[s] = IF s \in OpenOf(d) THEN [sessions[s] EXCEPT !.ended = now]
                         ELSE sessions[s]
      BY <2>1 DEF StopUpdate, SocketStopUpdate, Stop, EndAtNow
    <3>2. CASE s \in OpenOf(d)
      <4>1. /\ sessions'[s].driver = sessions[s].driver
            /\ sessions'[s].truck = sessions[s].truck
            /\ sessions'[s].route = sessions[s].route
            /\ sessions'[s].started = sessions[s].started
            /\ sessions'[s].last = sessions[s].last /\ sessions'[s].ended = now
        BY <1>2, <3>1, <3>2 DEF Session
      <4>2. Open(s) /\ d = sessions[s].driver
        BY <3>2 DEF OpenOf
      <4> QED
        BY <2>1, <4>1, <4>2 DEF RowEffect
    <3> QED
      BY <1>3, <3>1, <3>2
  <2>2. CASE StartClose(h)
    <3>1. sessions'[s] = IF s \in OpenOf(d) /\ Silent(s)
                         THEN [sessions[s] EXCEPT !.ended = sessions[s].last]
                         ELSE sessions[s]
      BY <2>2 DEF StartClose, CloseStaleForDriver, EndAtLastActivity
    <3>2. CASE s \in OpenOf(d) /\ Silent(s)
      <4>1. /\ sessions'[s].driver = sessions[s].driver
            /\ sessions'[s].truck = sessions[s].truck
            /\ sessions'[s].route = sessions[s].route
            /\ sessions'[s].started = sessions[s].started
            /\ sessions'[s].last = sessions[s].last
            /\ sessions'[s].ended = sessions[s].last
        BY <1>2, <3>1, <3>2 DEF Session
      <4>2. Open(s) /\ d = sessions[s].driver
        BY <3>2 DEF OpenOf
      <4> QED
        BY <2>2, <3>2, <4>1, <4>2 DEF RowEffect
    <3> QED
      BY <1>3, <3>1, <3>2
  <2> QED
    BY <1>4, <2>1, <2>2
<1>5. ASSUME NEW h \in Handlers, RecordActivity(h) PROVE RowEffect(s)
  <2>1. /\ sessions'[s].driver = sessions[s].driver /\ sessions'[s].truck = sessions[s].truck
        /\ sessions'[s].route = sessions[s].route
        /\ sessions'[s].started = sessions[s].started
        /\ sessions'[s].ended = sessions[s].ended
        /\ task[h].session # s => sessions'[s] = sessions[s]
        /\ task[h].session = s => sessions'[s].last = now
    BY <1>2, <1>5 DEF RecordActivity, Touch, Session
  <2>2. CASE task[h].session = s
    BY <1>5, <2>1, <2>2 DEF RowEffect
  <2>3. CASE task[h].session # s
    BY <1>3, <2>1, <2>3
  <2> QED
    BY <2>2, <2>3
<1>6. ASSUME NEW h \in Handlers, Request(h) \/ Fault(h) PROVE RowEffect(s)
  BY <1>3, <1>6, Zenon DEF Request, Connect, StartRequest, GpsUpdate, PositionRequest, HttpStop,
     SocketStop, Fault, FixFault, StopFault, tables
<1>7. ASSUME NEW h \in Handlers, Proceed(h) PROVE RowEffect(s)
  BY <1>3, <1>4, <1>5, <1>7, Zenon DEF Proceed, VerifyActive, RejectInactive, ResumeFind,
     ResumeTruck, ResumeSchedule, StartTruck, StartSchedule, StartFind,
     StartRefused, PositionFind, StoreFix, EmitFix, StopFind, tables
<1>8. CASE SweepSave
  <2>1. CASE sweep[s] = NONE
    BY <1>2, <1>3, <1>8, <2>1, Zenon DEF SweepSave
  <2>2. CASE sweep[s] # NONE
    <3>1. PICK e \in {sweep[s], sessions[s].last} :
            sessions'[s] = [sessions[s] EXCEPT !.ended = sweep[s], !.last = e]
      BY <1>2, <1>8, <2>2, Zenon DEF SweepSave
    <3>2. /\ sessions'[s].driver = sessions[s].driver
          /\ sessions'[s].truck = sessions[s].truck
          /\ sessions'[s].route = sessions[s].route
          /\ sessions'[s].started = sessions[s].started
          /\ sessions'[s].last = e /\ sessions'[s].ended = sweep[s]
      BY <1>2, <3>1 DEF Session
    <3> QED
      BY <2>2, <3>2 DEF RowEffect
  <2> QED
    BY <2>1, <2>2
<1>9. CASE Edit
  <2>1. ASSUME NEW r \in Routes, RemoveRoute(r) PROVE RowEffect(s)
    <3>1. /\ sessions'[s].driver = sessions[s].driver
          /\ sessions'[s].truck = sessions[s].truck
          /\ sessions'[s].route \in {sessions[s].route, NONE}
          /\ sessions'[s].started = sessions[s].started
          /\ sessions'[s].last = sessions[s].last
          /\ sessions'[s].ended = sessions[s].ended
      BY <1>2, <2>1 DEF RemoveRoute, Session
    <3> QED
      BY <3>1 DEF RowEffect
  <2> QED
    BY <1>3, <1>9, <2>1 DEF Edit, AssignTruck, Reschedule, ToggleRoute, tables
<1>10. CASE (\E k \in Sockets : Disconnect(k)) \/ SweepFind \/ Tick \/ Restart \/ UNCHANGED vars
  BY <1>3, <1>10 DEF Disconnect, SweepFind, Tick, Restart, tables, vars
<1> QED
  BY <1>6, <1>7, <1>8, <1>9, <1>10 DEF Next

\* Without an insertion the intervals stay apart: an end is final or moves earlier.
LEMMA StillApart ==
  ASSUME IInv, SerialInv, [Next]_vars, \A h \in Handlers : ~StartInsert(h)
  PROVE  NoOverlap' /\ TrucksKnown'
<1>1. Rows' = Rows /\ Rows \subseteq SessionId
  BY RowEffects, RowIds DEF IInv, Rows
<1>2. TrucksKnown'
  BY <1>1, RowEffects DEF SerialInv, TrucksKnown, RowEffect
<1>3. sessions' \in [SessionId -> Session]
  BY NextInv DEF IInv, TypeOK
<1>4. NoOverlap'
  <2> SUFFICES ASSUME NEW s \in Rows, NEW q \in Rows, s < q,
                      sessions'[s].driver = sessions'[q].driver
               PROVE  sessions'[s].ended # NONE /\ sessions'[s].ended <= sessions'[q].started
    BY <1>1 DEF NoOverlap
  <2>1. sessions[s].ended # NONE /\ sessions[s].ended <= sessions[q].started
         /\ sessions'[q].started = sessions[q].started
    BY <1>1, RowEffects DEF SerialInv, NoOverlap, RowEffect
  <2>2. sessions'[s].ended # NONE /\ sessions'[s].ended <= sessions[s].ended
    BY <1>1, <2>1, FinalOfStep DEF FinalStep
  <2>3. sessions[s].ended \in Nat /\ sessions'[s].ended \in Nat /\ sessions[q].started \in Nat
    BY <1>1, <1>3, <2>1, <2>2 DEF IInv, TypeOK, Session, OrNone
  <2> QED
    BY <2>1, <2>2, <2>3
<1> QED
  BY <1>2, <1>4

\* Only an insertion or a fix disturbs a driver, and no other than its own.
LEMMA StillUndisturbed ==
  ASSUME IInv, [Next]_vars, \A h \in Handlers : ~StartInsert(h), NEW e \in Drivers,
         \A h \in Handlers : RecordActivity(h) => task[h].driver # e
  PROVE  Undisturbed(e)
<1> SUFFICES ASSUME NEW s \in OpenOf(e)'
             PROVE  /\ s \in OpenOf(e)
                    /\ Silent(s) => Silent(s)'
                    /\ sessions'[s].route \in {sessions[s].route, NONE}
  BY DEF Undisturbed
<1>1. s \in SessionId /\ s \in Rows' /\ sessions'[s].ended = NONE /\ sessions'[s].driver = e
  BY DEF OpenOf, Open, SessionId
<1>2. RowEffect(s) /\ nextId' = nextId /\ now <= now'
  BY <1>1, RowEffects
<1>3. s \in Rows /\ sessions[s].driver = e /\ sessions[s].ended = NONE
  BY <1>1, <1>2, FinalOfStep DEF RowEffect, Rows, FinalStep
<1>4. \A h \in Handlers : RecordActivity(h) => task[h].session # s
  BY <1>3 DEF IInv, TaskInv, TaskOk, Owned, RecordActivity
<1>5. sessions'[s].last <= sessions[s].last
  <2>1. sessions[s].last \in Nat
    BY <1>1 DEF IInv, TypeOK, Session
  <2>2. sweep[s] # NONE => sweep[s] <= sessions[s].last
    BY <1>1 DEF IInv, SweepInv
  <2> QED
    BY <1>2, <1>4, <2>1, <2>2 DEF RowEffect
<1>6. now \in Nat /\ now' \in Nat /\ sessions[s].last \in Nat /\ sessions'[s].last \in Nat
  BY <1>1, NextInv DEF IInv, TypeOK, Session
<1>7. Silent(s) => Silent(s)'
  BY <1>2, <1>5, <1>6, BoundsAssumption DEF Silent
<1> QED
  BY <1>1, <1>2, <1>3, <1>7 DEF OpenOf, Open, RowEffect

LEMMA SerialActivity ==
  ASSUME IInv, SerialInv, OneAtATime, NEW h \in Handlers, RecordActivity(h)
  PROVE  SerialInv'
<1>1. [Next]_vars /\ \A g \in Handlers : ~StartInsert(g)
  BY DEF Next, Proceed, RecordActivity, StartInsert, CreateSession, IInv, TypeOK
<1>2. NoOverlap' /\ TrucksKnown'
  BY <1>1, StillApart
<1>3. task[h] \in Task /\ TaskOk(task[h]) /\ task \in [Handlers -> Task]
  BY DEF IInv, TypeOK, TaskInv
<1> DEFINE rec == [task[h] EXCEPT !.at = "store"]
<1>4. rec \in Task /\ rec.at = "store" /\ rec.driver = task[h].driver /\ Hold(h, rec)
  BY <1>3, TaskUpdate, PointNames, Zenon DEF Task, RecordActivity, Await
<1> PICK r \in Task : r = rec
  BY <1>4
<1>5. SerialTask(r)'
  BY <1>4 DEF SerialTask, StartOk, StopOk
<1>6. \A g \in Handlers : RecordActivity(g) => task[g].driver = task[h].driver
  <2> SUFFICES ASSUME NEW g \in Handlers, RecordActivity(g), g # h PROVE FALSE
    OBVIOUS
  <2>1. task'[h].at = "store" /\ task'[h] = task[h] /\ task[h].at = "activity"
    BY <1>3, <1>4 DEF RecordActivity, Await, Hold
  <2> QED
    BY <2>1
<1>7. \A e \in Drivers : e # task[h].driver => Undisturbed(e)
  BY <1>1, <1>6, StillUndisturbed
<1> QED
  BY <1>2, <1>4, <1>5, <1>7, SerialStep

\* Ending rows undoes nothing that was found out about open ones.
LEMMA SerialEnd ==
  ASSUME IInv, SerialInv, OneAtATime, NEW h \in Handlers,
         StartClose(h) \/ StopUpdate(h) \/ SocketStopUpdate(h)
  PROVE  SerialInv'
<1>1. [Next]_vars /\ UNCHANGED nextId
  BY DEF Next, Proceed, StartClose, StopUpdate, SocketStopUpdate
<1>2. \A g \in Handlers : ~StartInsert(g) /\ ~RecordActivity(g)
  <2>1. \A g \in Handlers : ~StartInsert(g)
    BY <1>1 DEF StartInsert, CreateSession, IInv, TypeOK
  <2>2. ASSUME NEW g \in Handlers, RecordActivity(g) PROVE FALSE
    <3>1. task'[g].at = "store" /\ task[g].at = "activity"
      BY <2>2 DEF RecordActivity, Await, Hold, IInv, TypeOK, Task
    <3>2. task'[h].at \in {"startInsert", "idle"}
           /\ task[h].at \in {"startClose", "stopUpdate", "socketStop"}
      BY IdleType DEF StartClose, StopUpdate, SocketStopUpdate, Await, Finish, Hold, IInv,
         TypeOK, Task
    <3>3. task'[h] = task[h]
      BY <2>2, <3>1, <3>2 DEF RecordActivity, Await, Hold, IInv, TypeOK
    <3> QED
      BY <3>2, <3>3
  <2> QED
    BY <2>1, <2>2
<1>3. NoOverlap' /\ TrucksKnown' /\ \A e \in Drivers : Undisturbed(e)
  BY <1>1, <1>2, StillApart, StillUndisturbed
<1>4. task[h] \in Task /\ TaskOk(task[h]) /\ SerialTask(task[h])
  BY DEF IInv, TypeOK, TaskInv, SerialInv
<1>5. CASE Finish(h)
  <2>1. SerialTask(Idle)'
    BY IdleType DEF SerialTask, StartOk, StopOk
  <2> QED
    BY <1>3, <1>5, <2>1, IdleType, SerialStep DEF Finish
<1>6. CASE ~Finish(h)
  <2>1. StartClose(h)
    BY <1>6 DEF StopUpdate, SocketStopUpdate
  <2> DEFINE d == task[h].driver
             rec == [task[h] EXCEPT !.at = "startInsert"]
  <2>2. rec \in Task /\ rec.at = "startInsert" /\ rec.driver = d /\ Hold(h, rec)
    BY <1>4, <2>1, TaskUpdate, PointNames, Zenon DEF Task, StartClose, Await
  <2>3. d \in Drivers
    BY <1>4, <2>1 DEF StartClose, TaskOk, Task, OrNone
  <2>4. PICK c \in Drivers : c = d
    BY <2>3
  <2>5. \A s \in OpenOf(c) : Silent(s)
    BY <1>4, <2>1, <2>4 DEF SerialTask, StartOk, StartClose
  <2>6. \A s \in OpenOf(c) : sessions'[s].ended # NONE
    <3> SUFFICES ASSUME NEW s \in OpenOf(c) PROVE sessions'[s].ended # NONE
      OBVIOUS
    <3>1. s \in SessionId /\ sessions[s] \in Session /\ sessions[s].last \in Nat
      BY DEF OpenOf, IInv, TypeOK, Session
    <3>2. sessions'[s] = [sessions[s] EXCEPT !.ended = sessions[s].last]
      BY <2>1, <2>4, <2>5, <3>1 DEF StartClose, CloseStaleForDriver, EndAtLastActivity
    <3> QED
      BY <3>1, <3>2, NoneAssumption DEF Session
  <2>7. OpenOf(c)' = {}
    BY <1>3, <2>6 DEF Undisturbed, OpenOf, Open
  <2>8. rec.driver = c
    BY <2>2, <2>4
  <2>9. PICK r \in Task : r = rec
    BY <2>2
  <2>10. SerialTask(r)'
    BY <2>2, <2>7, <2>8, <2>9 DEF SerialTask, StartOk, StopOk
  <2> QED
    BY <1>3, <2>2, <2>9, <2>10, SerialStep
<1> QED
  BY <1>5, <1>6

\* The new session begins when all earlier ones of its driver have ended.
LEMMA SerialInsert ==
  ASSUME IInv, SerialInv, OneAtATime, NEW h \in Handlers, StartInsert(h)
  PROVE  SerialInv'
<1> DEFINE d == task[h].driver
           row == [driver |-> d, truck |-> task[h].truck, route |-> task[h].route,
                   started |-> now, last |-> now, ended |-> NONE]
<1>1. task[h] \in Task /\ TaskOk(task[h]) /\ SerialTask(task[h]) /\ task[h].at = "startInsert"
  BY DEF IInv, TypeOK, TaskInv, SerialInv, StartInsert
<1>2. /\ d \in Drivers /\ task[h].truck # NONE
      /\ nextId \in SessionId /\ nextId \notin Rows /\ now \in Nat
      /\ sessions \in [SessionId -> Session]
  BY <1>1, BoundsAssumption
     DEF IInv, TypeOK, TaskOk, Task, OrNone, StartInsert, CreateSession, SessionId, Rows
<1>3. sessions' = [sessions EXCEPT ![nextId] = row] /\ nextId' = nextId + 1 /\ Finish(h)
       /\ now' = now
  BY DEF StartInsert, CreateSession, Started
<1>4. Rows' = Rows \cup {nextId} /\ Rows \subseteq SessionId
  BY <1>3, RowIds DEF Rows, IInv, TypeOK
<1>5. sessions'[nextId] = row /\ \A s \in SessionId \ {nextId} : sessions'[s] = sessions[s]
  BY <1>2, <1>3
<1>6. OpenOf(d) = {}
  BY <1>1 DEF SerialTask, StartOk
<1>7. ASSUME NEW s \in Rows, sessions[s].driver = d
      PROVE  sessions[s].ended # NONE /\ sessions[s].ended <= now
  <2>1. sessions[s].ended # NONE
    BY <1>4, <1>6, <1>7 DEF OpenOf, Open
  <2> QED
    BY <2>1 DEF IInv, TimesOrdered
<1>8. TrucksKnown'
  BY <1>2, <1>4, <1>5 DEF SerialInv, TrucksKnown
<1>9. NoOverlap'
  <2> SUFFICES ASSUME NEW s \in Rows', NEW q \in Rows', s < q,
                      sessions'[s].driver = sessions'[q].driver
               PROVE  sessions'[s].ended # NONE /\ sessions'[s].ended <= sessions'[q].started
    BY DEF NoOverlap
  <2>1. s \in Rows
    <3>1. s # nextId
      BY <1>2, <1>4 DEF IInv, TypeOK, Rows
    <3> QED
      BY <1>4, <3>1
  <2>2. sessions'[s] = sessions[s]
    BY <1>2, <1>4, <1>5, <2>1
  <2>3. CASE q = nextId
    BY <1>5, <1>7, <2>1, <2>2, <2>3
  <2>4. CASE q # nextId
    <3>1. q \in Rows /\ sessions'[q] = sessions[q]
      BY <1>4, <1>5, <2>4
    <3> QED
      BY <2>1, <2>2, <3>1 DEF SerialInv, NoOverlap
  <2> QED
    BY <2>3, <2>4
<1>10. ASSUME NEW e \in Drivers, e # d PROVE Undisturbed(e)
  <2> SUFFICES ASSUME NEW s \in OpenOf(e)'
               PROVE  /\ s \in OpenOf(e)
                      /\ Silent(s) => Silent(s)'
                      /\ sessions'[s].route \in {sessions[s].route, NONE}
    BY DEF Undisturbed
  <2>1. s \in SessionId /\ s \in Rows' /\ sessions'[s].ended = NONE /\ sessions'[s].driver = e
    BY DEF OpenOf, Open, SessionId
  <2>2. s # nextId
    BY <1>5, <1>10, <2>1
  <2>3. s \in Rows /\ sessions'[s] = sessions[s]
    BY <1>4, <1>5, <2>1, <2>2
  <2> QED
    BY <1>3, <2>1, <2>3 DEF OpenOf, Open, Silent
<1>11. SerialTask(Idle)'
  BY IdleType DEF SerialTask, StartOk, StopOk
<1> HIDE DEF row
<1> QED
  BY <1>3, <1>8, <1>9, <1>10, <1>11, IdleType, SerialStep DEF Finish

\* The sweep, the clock, administrators, lost connections and crashes.
LEMMA SerialRest ==
  ASSUME IInv, SerialInv,
         \/ \E k \in Sockets : Disconnect(k)
         \/ SweepFind \/ SweepSave \/ Tick \/ Edit \/ Restart \/ UNCHANGED vars
  PROVE  SerialInv'
<1>1. [Next]_vars /\ UNCHANGED nextId
  BY Zenon DEF Next, Disconnect, SweepFind, SweepSave, Tick, Edit, AssignTruck, Reschedule,
     ToggleRoute, RemoveRoute, Restart, tables, vars
<1>2. UNCHANGED task \/ \A h \in Handlers : task'[h] = Idle
  BY Zenon DEF Disconnect, SweepFind, SweepSave, Tick, Edit, AssignTruck, Reschedule, ToggleRoute,
     RemoveRoute, Restart, vars
<1>3. \A g \in Handlers : ~StartInsert(g)
  BY <1>1 DEF StartInsert, CreateSession, IInv, TypeOK
<1>4. \A g \in Handlers : ~RecordActivity(g)
  <2> SUFFICES ASSUME NEW g \in Handlers, RecordActivity(g) PROVE FALSE
    OBVIOUS
  <2>1. task'[g].at = "store" /\ task[g].at = "activity"
    BY DEF RecordActivity, Await, Hold, IInv, TypeOK, Task
  <2> QED
    BY <1>2, <2>1, IdleType
<1>5. NoOverlap' /\ TrucksKnown' /\ \A e \in Drivers : Undisturbed(e)
  BY <1>1, <1>3, <1>4, StillApart, StillUndisturbed
<1> QED
  BY <1>2, <1>5, SerialWorld

LEMMA SerialNext ==
  ASSUME OneAtATime PROVE IInv /\ SerialInv /\ [Next]_vars => SerialInv'
<1> SUFFICES ASSUME IInv, SerialInv, [Next]_vars PROVE SerialInv'
  OBVIOUS
<1>1. ASSUME NEW h \in Handlers, Proceed(h) PROVE SerialInv'
  BY <1>1, SerialResume, SerialStart, SerialEnd, SerialInsert, SerialPosition,
     SerialActivity, SerialStopFind DEF Proceed
<1> QED
  BY <1>1, SerialRequest, SerialPosition, SerialRest DEF Next

LEMMA SerialStays ==
  ASSUME OneAtATime PROVE Spec => []SerialInv
<1>1. Init => SerialInv
  BY IdleType DEF Init, SerialInv, NoOverlap, TrucksKnown, OneEach, SerialTask, StartOk,
     StopOk, Rows
<1> QED
  BY <1>1, SerialNext, Invariance, PTL DEF Spec

(* When a driver's requests are answered one at a time, the sessions of a  *)
(* driver are disjoint intervals in the order of their ids, whatever       *)
(* administrators, crashes and the sweep do between two awaits of a start: *)
(* getSummaries may add up their durations.                                *)
THEOREM SessionsNeverOverlap == OneAtATime => (Spec => []NoOverlap)
<1> SUFFICES ASSUME OneAtATime PROVE Spec => []NoOverlap
  OBVIOUS
<1>1. SerialInv => NoOverlap
  BY DEF SerialInv
<1> QED
  BY <1>1, SerialStays, PTL

(* Then a driver never has two open sessions, which is what the queries    *)
(* that take the newest open one rely on ("the driver's open session").    *)
THEOREM OneOpenSession == OneAtATime => (Spec => []AtMostOneOpen)
<1> SUFFICES ASSUME OneAtATime PROVE Spec => []AtMostOneOpen
  OBVIOUS
<1>1. IInv /\ SerialInv => AtMostOneOpen
  <2> SUFFICES ASSUME IInv, SerialInv, NEW d \in Drivers PROVE Cardinality(OpenOf(d)) <= 1
    BY DEF AtMostOneOpen
  <2>1. CASE OpenOf(d) = {}
    BY <2>1, FS_EmptySet
  <2>2. CASE OpenOf(d) # {}
    <3>1. PICK s : OpenOf(d) = {s}
      BY <2>2, OnlyOneOpen DEF IInv, SerialInv
    <3> QED
      BY <3>1, FS_Singleton
  <2> QED
    BY <2>1, <2>2
<1> QED
  BY <1>1, SerialStays, Invariance, PTL

-----------------------------------------------------------------------------
(* ImplementsDriverRuns                                                    *)

ClockInv == now <= MaxTime

LEMMA ClockStays == Spec => []ClockInv
<1>1. Init => ClockInv
  BY BoundsAssumption DEF Init, ClockInv
<1>2. IInv /\ ClockInv /\ [Next]_vars => ClockInv'
  <2> SUFFICES ASSUME IInv, ClockInv, [Next]_vars PROVE ClockInv'
    OBVIOUS
  <2>1. CASE \E h \in Handlers : StartInsert(h)
    BY <2>1 DEF StartInsert, ClockInv
  <2>2. CASE \A h \in Handlers : ~StartInsert(h)
    <3>1. Tick \/ now' = now
      BY <2>2, RowEffects
    <3> QED
      BY <3>1, BoundsAssumption DEF Tick, ClockInv, IInv, TypeOK
  <2> QED
    BY <2>1, <2>2
<1> QED
  BY <1>1, <1>2, Invariance, PTL DEF Spec

\* The run a row stands for.
RunOf(s) == [driver |-> sessions[s].driver, from |-> sessions[s].started,
             to |-> sessions[s].ended]

\* Inserting a session begins a run.
LEMMA InsertBegins ==
  ASSUME IInv, SerialInv, NEW h \in Handlers, StartInsert(h)
  PROVE  DriversRuns!Next
<1> DEFINE d == task[h].driver
           row == [driver |-> d, truck |-> task[h].truck, route |-> task[h].route,
                   started |-> now, last |-> now, ended |-> NONE]
<1>1. task[h] \in Task /\ TaskOk(task[h]) /\ SerialTask(task[h]) /\ task[h].at = "startInsert"
  BY DEF IInv, TypeOK, TaskInv, SerialInv, StartInsert
<1>2. d \in Drivers /\ nextId \in SessionId /\ nextId \notin Rows
       /\ sessions \in [SessionId -> Session] /\ d # NONE
  BY <1>1, BoundsAssumption
     DEF IInv, TypeOK, TaskOk, Task, OrNone, StartInsert, CreateSession, SessionId, Rows
<1> PICK c \in Drivers, n \in SessionId : c = d /\ n = nextId
  BY <1>2
<1>3. sessions' = [sessions EXCEPT ![n] = row] /\ now' = now
  BY DEF StartInsert, CreateSession
<1>4. sessions[n].driver = NONE
  BY <1>2 DEF IInv, RowsInv, NoSession
<1>5. ASSUME NEW j \in SessionId, sessions[j].driver # NONE, sessions[j].ended = NONE
      PROVE  sessions[j].driver # c
  <2>1. j \in Rows
    BY <1>5 DEF IInv, RowsInv, NoSession
  <2> QED
    BY <1>1, <1>5, <2>1 DEF SerialTask, StartOk, OpenOf, Open
<1>6. RunOf(n)' = [driver |-> c, from |-> now, to |-> NONE]
  BY <1>2, <1>3 DEF RunOf
<1>7. \A s \in SessionId : s # n => RunOf(s)' = RunOf(s)
  BY <1>2, <1>3 DEF RunOf
<1>8. [s \in SessionId |-> RunOf(s)]'
        = [[s \in SessionId |-> RunOf(s)] EXCEPT ![n] = [driver |-> c, from |-> now,
                                                             to |-> NONE]]
  BY <1>2, <1>6, <1>7
<1>9. DriversRuns!Begin(c, n)
  BY <1>2, <1>3, <1>4, <1>5, <1>8
     DEF DriversRuns!Begin, DriversRuns!Begun, DriversRuns!Going, RunOf
<1> QED
  BY <1>2, <1>9 DEF DriversRuns!Next

\* Every other step but a tick ends some runs, or none.
LEMMA OthersEnd ==
  ASSUME IInv, ClockInv, [Next]_vars, \A h \in Handlers : ~StartInsert(h), ~Tick
  PROVE  DriversRuns!Next
<1> DEFINE S == {s \in SessionId : sessions'[s].ended # sessions[s].ended}
           end == [s \in S |-> sessions'[s].ended]
<1>1. /\ now' = now /\ Rows' = Rows /\ Rows \subseteq SessionId
      /\ \A s \in SessionId : RowEffect(s)
  BY RowEffects, RowIds DEF IInv, Rows
<1>2. IInv' /\ now \in Nat
  BY NextInv DEF IInv, TypeOK
<1>3. ASSUME NEW s \in S
      PROVE  /\ sessions'[s].ended \in 0..MaxTime
             /\ sessions[s].driver # NONE
             /\ sessions[s].started <= sessions'[s].ended /\ sessions'[s].ended <= now
             /\ sessions[s].ended # NONE => sessions'[s].ended <= sessions[s].ended
  <2>1. s \in Rows
    BY <1>1, <1>2 DEF IInv, RowsInv
  <2>2. sessions'[s].ended # NONE
        /\ (sessions[s].ended # NONE => sessions'[s].ended <= sessions[s].ended)
    BY FinalOfStep DEF FinalStep
  <2>3. sessions'[s].ended \in Nat
    BY <1>2, <2>2 DEF IInv, TypeOK, Session, OrNone
  <2>4. sessions'[s].started <= sessions'[s].ended /\ sessions'[s].ended <= now
         /\ sessions'[s].started = sessions[s].started
    BY <1>1, <1>2, <2>1, <2>2 DEF IInv, TimesOrdered, RowEffect
  <2>5. sessions[s].driver \in Drivers
    BY <2>1, <1>1 DEF IInv, RowsInv
  <2> QED
    BY <1>2, <2>2, <2>3, <2>4, <2>5, NoneAssumption, BoundsAssumption DEF ClockInv
<1>4. end \in [S -> 0..MaxTime]
  BY <1>3
<1>5. \A s \in S : DriversRuns!CanEnd(s, end[s])
  BY <1>3 DEF DriversRuns!CanEnd, DriversRuns!Begun
<1>6. ASSUME NEW s \in SessionId
      PROVE  RunOf(s)' = IF s \in S THEN [RunOf(s) EXCEPT !.to = end[s]] ELSE RunOf(s)
  BY <1>1 DEF RunOf, RowEffect
<1>7. [s \in SessionId |-> RunOf(s)]' =
        [s \in SessionId |->
           IF s \in S THEN [[q \in SessionId |-> RunOf(q)][s] EXCEPT !.to = end[s]]
           ELSE [q \in SessionId |-> RunOf(q)][s]]
  BY <1>6
<1> PICK T \in SUBSET SessionId : T = S
  OBVIOUS
<1> HIDE DEF end
<1>8. DriversRuns!End(T)
  BY <1>1, <1>4, <1>5, <1>7 DEF DriversRuns!End, RunOf
<1> QED
  BY <1>8 DEF DriversRuns!Next

LEMMA DriverRunsStep ==
  ASSUME IInv, SerialInv, ClockInv, [Next]_vars
  PROVE  DriversRuns!Next
<1>1. CASE \E h \in Handlers : StartInsert(h)
  BY <1>1, InsertBegins
<1>2. CASE Tick
  <2>1. now' = now + 1 /\ now < MaxTime /\ now \in Nat /\ UNCHANGED sessions
    BY <1>2 DEF Tick, tables, IInv, TypeOK
  <2>2. DriversRuns!Pass
    BY <2>1, BoundsAssumption DEF DriversRuns!Pass
  <2> QED
    BY <2>2 DEF DriversRuns!Next
<1> QED
  BY <1>1, <1>2, OthersEnd

(* With one request of a driver at a time the table implements the         *)
(* abstract account of the runs: an insertion begins a run when no other   *)
(* of the driver is going, a tick lets time pass, and every other step of  *)
(* a handler, a sweep or an administrator ends runs at a possible moment,  *)
(* corrects an end to an earlier one, or changes nothing of them.          *)
THEOREM Refinement == OneAtATime => (Spec => ImplementsDriverRuns)
<1> SUFFICES ASSUME OneAtATime PROVE Spec => ImplementsDriverRuns
  OBVIOUS
<1>1. Init => DriversRuns!Init
  BY DEF Init, DriversRuns!Init, NoSession
<1>2. IInv /\ SerialInv /\ ClockInv /\ [Next]_vars => [DriversRuns!Next]_(DriversRuns!vars)
  BY DriverRunsStep
<1> QED
  BY <1>1, <1>2, Invariance, SerialStays, ClockStays, PTL
     DEF Spec, ImplementsDriverRuns, DriversRuns!Spec

-----------------------------------------------------------------------------
(* Drivers with the app: HTTP only, and answered within a clock unit       *)

(* The app keeps no socket, and a handler or a sweep takes milliseconds    *)
(* where the clock counts in fractions of half an hour.                    *)
AppOnly == Sockets = {} /\ Timely

\* A sweep under way has the current last activity of sessions that are silent.
SweepFresh ==
  \A s \in SessionId : sweep[s] # NONE => Silent(s) /\ sweep[s] = sessions[s].last

\* The session a fix is being recorded in has not gone silent meanwhile.
FixTimely(t) == t.at \in {"activity", "store"} => ~Silent(t.session)

TimelyInv == SweepFresh /\ \A h \in Handlers : FixTimely(task[h])

\* Where a handler that records a fix comes from.
LEMMA FixComesFrom ==
  ASSUME IInv, AppOnly, [Next]_vars, NEW g \in Handlers, task'[g] # task[g],
         task'[g].at \in {"activity", "store"}
  PROVE  \/ PositionFind(g) /\ task'[g].session \in FindOpenForDriver(task[g].driver)
            /\ task'[g].session # NONE
         \/ RecordActivity(g) /\ task'[g].session = task[g].session
<1>1. task \in [Handlers -> Task] /\ task[g] \in Task /\ TaskOk(task[g])
       /\ task[g].socket = NONE
  BY DEF IInv, TypeOK, TaskInv, AppOnly, Task, OrNone
<1> DEFINE goal == \/ PositionFind(g) /\ task'[g].session \in FindOpenForDriver(task[g].driver)
                      /\ task'[g].session # NONE
                   \/ RecordActivity(g) /\ task'[g].session = task[g].session
<1>2. ASSUME NEW h \in Handlers, NEW rec, Hold(h, rec)
      PROVE  g = h /\ rec = task'[g]
  BY <1>1, <1>2 DEF Hold
<1>3. ASSUME NEW h \in Handlers, Finish(h) PROVE goal
  BY <1>2, <1>3, IdleType DEF Finish
<1>4. ASSUME NEW h \in Handlers, NEW p \in Points, Await(h, p)
      PROVE  p = task'[g].at /\ g = h /\ task'[g].session = task[g].session
  BY <1>1, <1>2, <1>4 DEF Await, Task
<1>5. ASSUME NEW h \in Handlers, Request(h) PROVE goal
  <2>1. ASSUME NEW k \in OrNone(Sockets), NEW d \in Drivers, StartRequest(h, d, k) PROVE goal
    <3> DEFINE rec == [Idle EXCEPT !.at = "startTruck", !.driver = d, !.socket = k]
    <3>1. rec.at = "startTruck"
      BY DEF Idle
    <3>2. Hold(h, rec)
      BY <2>1 DEF StartRequest
    <3> HIDE DEF rec
    <3> QED
      BY <1>2, <3>1, <3>2
  <2>2. ASSUME NEW d \in Drivers, NEW s \in SessionId, PositionRequest(h, d, s) PROVE goal
    <3> DEFINE rec == [Idle EXCEPT !.at = "positionFind", !.driver = d, !.session = s]
    <3>1. rec.at = "positionFind"
      BY DEF Idle
    <3>2. Hold(h, rec)
      BY <2>2 DEF PositionRequest
    <3> HIDE DEF rec
    <3> QED
      BY <1>2, <3>1, <3>2
  <2>3. ASSUME NEW d \in Drivers, HttpStop(h, d) PROVE goal
    <3> DEFINE rec == [Idle EXCEPT !.at = "stopFind", !.driver = d]
    <3>1. rec.at = "stopFind"
      BY DEF Idle
    <3>2. Hold(h, rec)
      BY <2>3 DEF HttpStop
    <3> HIDE DEF rec
    <3> QED
      BY <1>2, <3>1, <3>2
  <2> QED
    BY <1>5, <2>1, <2>2, <2>3 DEF Request, AppOnly
<1>6. ASSUME NEW h \in Handlers, Proceed(h) PROVE goal
  <2>1. task[h] \in Task /\ task[h].socket = NONE /\ TaskOk(task[h])
    BY DEF IInv, TypeOK, TaskInv, AppOnly, Task, OrNone
  <2>2. ASSUME NEW p \in Points, Await(h, p), p \notin {"activity", "store"} PROVE goal
    BY <1>4, <2>2
  <2>3. ~(VerifyActive(h) \/ RejectInactive(h) \/ ResumeFind(h) \/ ResumeTruck(h)
           \/ ResumeSchedule(h) \/ SocketStopUpdate(h))
    BY <2>1, Zenon DEF VerifyActive, RejectInactive, ResumeFind, ResumeTruck, ResumeSchedule,
       SocketStopUpdate, TaskOk
  <2>4. CASE StartTruck(h)
    <3>1. PICK t \in FindByDriverId(task[h].driver) :
            IF t = NONE THEN Finish(h)
            ELSE Hold(h, [task[h] EXCEPT !.at = "startSchedule", !.truck = t])
      BY <2>4, Zenon DEF StartTruck
    <3>2. [task[h] EXCEPT !.at = "startSchedule", !.truck = t].at = "startSchedule"
      BY <2>1 DEF Task
    <3> QED
      BY <1>2, <1>3, <3>1, <3>2
  <2>5. CASE StartSchedule(h)
    <3> DEFINE rec == [task[h] EXCEPT !.at = "startFind", !.route = schedule[task[h].truck]]
    <3>1. Finish(h) \/ Hold(h, rec)
      BY <2>5 DEF StartSchedule
    <3>2. rec.at = "startFind"
      BY <2>1 DEF Task
    <3> HIDE DEF rec
    <3> QED
      BY <1>2, <1>3, <3>1, <3>2
  <2>6. CASE StartFind(h)
    BY <1>3, <2>2, <2>6, PointNames DEF StartFind, Started
  <2>7. CASE StartClose(h) \/ EmitFix(h)
    BY <1>3, <2>2, <2>7, PointNames DEF StartClose, EmitFix
  <2>8. CASE StartInsert(h) \/ StartRefused(h) \/ StopUpdate(h)
    BY <1>3, <2>8 DEF StartInsert, StartRefused, Started, StopUpdate
  <2>9. CASE PositionFind(h)
    <3>1. PICK s \in FindOpenForDriver(task[h].driver) :
            IF ~Accepted(s, task[h].session) THEN Finish(h)
            ELSE Hold(h, [task[h] EXCEPT !.at = "activity",
                                         !.truck = sessions[s].truck,
                                         !.route = sessions[s].route])
      BY <2>9, Zenon DEF PositionFind
    <3>2. CASE ~Accepted(s, task[h].session)
      BY <1>3, <3>1, <3>2
    <3>3. CASE Accepted(s, task[h].session)
      <4> DEFINE rec == [task[h] EXCEPT !.at = "activity",
                                        !.truck = sessions[s].truck,
                                        !.route = sessions[s].route]
      <4>1. g = h /\ rec = task'[g]
        BY <1>2, <3>1, <3>3
      <4>2. rec.session = s /\ s # NONE
        BY <2>1, <3>3 DEF Accepted, Task
      <4> QED
        BY <2>9, <4>1, <4>2
    <3> QED
      BY <3>2, <3>3
  <2>10. CASE RecordActivity(h)
    BY <1>4, <2>10, PointNames DEF RecordActivity
  <2>11. CASE StoreFix(h)
    BY <2>2, <2>11, PointNames DEF StoreFix
  <2>12. CASE StopFind(h)
    <3>1. PICK s \in FindOpenForDriver(task[h].driver) :
            IF s = NONE THEN Await(h, "stopUpdate")
            ELSE Hold(h, [task[h] EXCEPT !.at = "stopUpdate", !.session = s,
                                         !.truck = sessions[s].truck,
                                         !.route = sessions[s].route])
      BY <2>12, Zenon DEF StopFind
    <3>2. CASE s = NONE
      BY <2>2, <3>1, <3>2, PointNames
    <3>3. CASE s # NONE
      <4> DEFINE rec == [task[h] EXCEPT !.at = "stopUpdate", !.session = s,
                                        !.truck = sessions[s].truck,
                                        !.route = sessions[s].route]
      <4>1. g = h /\ rec = task'[g]
        BY <1>2, <3>1, <3>3
      <4>2. rec.at = "stopUpdate"
        BY <2>1 DEF Task
      <4> QED
        BY <4>1, <4>2
    <3> QED
      BY <3>2, <3>3
  <2> QED
    BY <1>6, <2>3, <2>4, <2>5, <2>6, <2>7, <2>8, <2>9, <2>10, <2>11, <2>12 DEF Proceed
<1>7. ASSUME NEW h \in Handlers, Fault(h) PROVE goal
  <2>1. task[h].socket = NONE
    BY DEF IInv, TypeOK, AppOnly, Task, OrNone
  <2> QED
    BY <1>3, <1>7, <2>1 DEF Fault, FixFault, StopFault
<1>8. CASE Restart
  BY <1>8, IdleType DEF Restart
<1>9. CASE (\E k \in Sockets : Disconnect(k)) \/ SweepFind \/ SweepSave \/ Tick \/ Edit
             \/ UNCHANGED vars
  BY <1>9, Zenon DEF Disconnect, SweepFind, SweepSave, Tick, Edit, AssignTruck, Reschedule,
     ToggleRoute, RemoveRoute, vars
<1> QED
  BY <1>5, <1>6, <1>7, <1>8, <1>9 DEF Next

\* What the sweep holds comes from this step's reading or from an earlier one.
LEMMA SweepEffect ==
  ASSUME IInv, AppOnly, [Next]_vars
  PROVE  \/ SweepFind
         \/ \A s \in SessionId : sweep'[s] \in {sweep[s], NONE}
<1>1. ASSUME UNCHANGED sweep \/ sweep' = NoSweep
      PROVE  \A s \in SessionId : sweep'[s] \in {sweep[s], NONE}
  BY <1>1 DEF NoSweep
<1>2. ASSUME NEW h \in Handlers, Request(h) \/ Proceed(h) \/ Fault(h) PROVE UNCHANGED sweep
  BY <1>2, Zenon DEF Request, Connect, StartRequest, GpsUpdate, PositionRequest, HttpStop,
     SocketStop, Proceed, VerifyActive, RejectInactive, ResumeFind, ResumeTruck,
     ResumeSchedule, StartTruck, StartSchedule, StartFind, StartClose, StartInsert,
     StartRefused, PositionFind, RecordActivity, StoreFix, EmitFix, StopFind, StopUpdate,
     SocketStopUpdate, Fault, FixFault, StopFault
<1>3. CASE Edit \/ Tick \/ Restart \/ SweepSave \/ UNCHANGED vars
           \/ \E k \in Sockets : Disconnect(k)
  BY <1>1, <1>3, Zenon DEF Edit, AssignTruck, Reschedule, ToggleRoute, RemoveRoute, Tick, Restart,
     SweepSave, vars, Disconnect
<1> QED
  BY <1>1, <1>2, <1>3 DEF Next

LEMMA InsertEffect ==
  ASSUME IInv, NEW h \in Handlers, StartInsert(h)
  PROVE  /\ UNCHANGED <<now, sweep>> /\ Rows \subseteq Rows'
         /\ \A s \in Rows : s \in SessionId /\ sessions'[s] = sessions[s]
<1>1. Rows \subseteq SessionId /\ nextId \notin Rows /\ nextId' = nextId + 1
  BY RowIds DEF IInv, TypeOK, StartInsert, CreateSession, Rows
<1> QED
  BY <1>1 DEF IInv, TypeOK, StartInsert, CreateSession, Rows

LEMMA TimelyNext ==
  ASSUME AppOnly PROVE IInv /\ TimelyInv /\ [Next]_vars => TimelyInv'
<1> SUFFICES ASSUME IInv, TimelyInv, [Next]_vars PROVE TimelyInv'
  OBVIOUS
<1>1. /\ IInv' /\ now \in Nat /\ Rows \subseteq SessionId
      /\ \A s \in SessionId : sessions[s].last \in Nat
  BY NextInv, RowIds DEF IInv, TypeOK, Session
<1>2. CASE Tick
  <2>1. sweep' = NoSweep /\ \A h \in Handlers : task'[h].at = "idle"
    BY <1>2 DEF Tick, AppOnly
  <2> QED
    BY <2>1 DEF TimelyInv, SweepFresh, FixTimely, NoSweep
<1>3. CASE ~Tick
  <2>1. now' = now
    BY <1>3, RowEffects, InsertEffect
  <2>2. ASSUME NEW s \in Rows
        PROVE  \/ sessions'[s].last = sessions[s].last
               \/ /\ sessions'[s].last = now
                  /\ \E h \in Handlers : RecordActivity(h) /\ task[h].session = s
    <3>1. CASE \E h \in Handlers : StartInsert(h)
      BY <3>1, InsertEffect
    <3>2. CASE \A h \in Handlers : ~StartInsert(h)
      BY <1>1, <3>2, RowEffects DEF RowEffect, TimelyInv, SweepFresh
    <3> QED
      BY <3>1, <3>2
  <2>3. SweepFresh'
    <3> SUFFICES ASSUME NEW s \in SessionId, sweep'[s] # NONE
                 PROVE  Silent(s)' /\ sweep'[s] = sessions'[s].last
      BY DEF SweepFresh
    <3>1. CASE SweepFind
      <4>1. s \in Abandoned /\ sweep'[s] = sessions[s].last /\ UNCHANGED <<now, sessions>>
        BY <3>1 DEF SweepFind, tables
      <4> QED
        BY <4>1 DEF Abandoned, Silent
    <3>2. CASE ~SweepFind
      <4>1. sweep[s] # NONE /\ sweep'[s] = sweep[s]
        BY <3>2, SweepEffect
      <4>2. s \in Rows /\ Silent(s) /\ sweep[s] = sessions[s].last
        BY <4>1 DEF IInv, SweepInv, TimelyInv, SweepFresh
      <4>3. \A h \in Handlers : RecordActivity(h) => task[h].session # s
        BY <4>2 DEF RecordActivity, TimelyInv, FixTimely
      <4>4. sessions'[s].last = sessions[s].last
        BY <2>2, <4>2, <4>3
      <4> QED
        BY <2>1, <4>1, <4>2, <4>4 DEF Silent
    <3> QED
      BY <3>1, <3>2
  <2>4. ASSUME NEW g \in Handlers PROVE FixTimely(task[g])'
    <3> SUFFICES ASSUME task'[g].at \in {"activity", "store"} PROVE ~Silent(task[g].session)'
      BY DEF FixTimely
    <3>1. TaskOk(task[g]) /\ TaskOk(task[g])' /\ task[g] \in Task
      BY <1>1 DEF IInv, TypeOK, TaskInv
    <3>2. PICK s : s = task'[g].session
      OBVIOUS
    <3>3. s \in Rows /\ (~Silent(s) \/ sessions'[s].last = now)
      <4>1. CASE task'[g] = task[g]
        BY <3>1, <3>2, <4>1 DEF TaskOk, Owned, TimelyInv, FixTimely
      <4>2. CASE task'[g] # task[g]
        <5>1. \/ PositionFind(g) /\ s \in FindOpenForDriver(task[g].driver) /\ s # NONE
              \/ RecordActivity(g) /\ s = task[g].session
          BY <3>2, <4>2, FixComesFrom
        <5>2. CASE PositionFind(g) /\ s \in FindOpenForDriver(task[g].driver) /\ s # NONE
          BY <5>2 DEF FindOpenForDriver, Newest, OpenOf, Open
        <5>3. CASE RecordActivity(g) /\ s = task[g].session
          BY <1>1, <3>1, <5>3 DEF RecordActivity, Touch, TaskOk, Owned, IInv, TypeOK, Session
        <5> QED
          BY <5>1, <5>2, <5>3
      <4> QED
        BY <4>1, <4>2
    <3>4. sessions'[s].last \in {sessions[s].last, now} /\ sessions[s].last \in Nat
      BY <1>1, <2>2, <3>3
    <3>5. ~Silent(s)'
      BY <1>1, <2>1, <3>3, <3>4, BoundsAssumption DEF Silent
    <3> QED
      BY <3>2, <3>5 DEF Silent
  <2> QED
    BY <2>3, <2>4 DEF TimelyInv
<1> QED
  BY <1>2, <1>3

LEMMA TimelyStays ==
  ASSUME AppOnly PROVE Spec => []TimelyInv
<1>1. Init => TimelyInv
  BY IdleType DEF Init, TimelyInv, SweepFresh, FixTimely, NoSweep
<1> QED
  BY <1>1, TimelyNext, Invariance, PTL DEF Spec

\* Whatever ends a session ends it no earlier than its last activity.
EndsLate ==
  \A s \in Rows :
    Open(s) /\ sessions'[s].ended # NONE => sessions[s].last <= sessions'[s].ended

LEMMA EndsLateStep ==
  ASSUME AppOnly PROVE IInv /\ TimelyInv /\ [Next]_vars => EndsLate
<1> SUFFICES ASSUME IInv, TimelyInv, [Next]_vars, NEW s \in Rows, Open(s),
                    sessions'[s].ended # NONE
             PROVE  sessions[s].last <= sessions'[s].ended
  BY DEF EndsLate
<1>1. s \in SessionId /\ sessions[s].last \in Nat /\ sessions[s].last <= now
       /\ sessions[s].ended = NONE
  BY RowIds DEF IInv, TypeOK, Session, TimesOrdered, Open
<1>2. \A h \in Handlers : ~StartInsert(h)
  BY <1>1, InsertEffect
<1>3. sessions'[s].ended \in {now, sessions[s].last}
  BY <1>1, <1>2, RowEffects DEF RowEffect, TimelyInv, SweepFresh
<1> QED
  BY <1>1, <1>3

(* When requests and sweeps are quick and drivers use the app, no session  *)
(* is ended before the last activity recorded in it, although the sweep    *)
(* writes back times it loaded earlier while pings come in.                *)
THEOREM SessionsEndLate == AppOnly => (Spec => ClosesAtLastActivity)
<1> SUFFICES ASSUME AppOnly PROVE Spec => ClosesAtLastActivity
  OBVIOUS
<1>1. IInv /\ TimelyInv /\ [Next]_vars => [EndsLate]_vars
  BY EndsLateStep
<1> QED
  BY <1>1, Invariance, TimelyStays, PTL DEF Spec, ClosesAtLastActivity, EndsLate

\* The session a fix is being recorded in is still open.
FixOpen(t) == t.at \in {"activity", "store"} => Open(t.session)

HttpInv == HttpFixInOpenSession /\ \A h \in Handlers : FixOpen(task[h])

LEMMA HttpNext ==
  ASSUME AppOnly, OneAtATime
  PROVE  IInv /\ SerialInv /\ TimelyInv /\ HttpInv /\ [Next]_vars => HttpInv'
<1> SUFFICES ASSUME IInv, SerialInv, TimelyInv, HttpInv, [Next]_vars PROVE HttpInv'
  OBVIOUS
<1>1. IInv' /\ Rows \subseteq SessionId /\ task \in [Handlers -> Task] /\ OneEach
  BY NextInv, RowIds DEF IInv, TypeOK, SerialInv
<1>2. HttpFixInOpenSession'
  <2>1. CASE UNCHANGED lastFix
    BY <2>1 DEF HttpInv, HttpFixInOpenSession
  <2>2. ASSUME NEW h \in Handlers, StoreFix(h) PROVE lastFix'.inOpen
    <3>1. Open(task[h].session)
      BY <2>2 DEF StoreFix, HttpInv, FixOpen
    <3>2. lastFix'.inOpen = Open(task[h].session)
      BY <2>2 DEF StoreFix
    <3> QED
      BY <3>1, <3>2
  <2>3. UNCHANGED lastFix \/ \E h \in Handlers : StoreFix(h)
    BY Zenon DEF Next, Request, Connect, StartRequest, GpsUpdate, PositionRequest, HttpStop,
       SocketStop, Proceed, VerifyActive, RejectInactive, ResumeFind, ResumeTruck,
       ResumeSchedule, StartTruck, StartSchedule, StartFind, StartClose, StartInsert,
       StartRefused, PositionFind, RecordActivity, EmitFix, StopFind, StopUpdate,
       SocketStopUpdate, Fault, FixFault, StopFault, Disconnect, SweepFind, SweepSave, Tick,
       Edit, AssignTruck, Reschedule, ToggleRoute, RemoveRoute, Restart, tables, vars
  <2> QED
    BY <2>1, <2>2, <2>3 DEF HttpFixInOpenSession
<1>3. ASSUME NEW g \in Handlers PROVE FixOpen(task[g])'
  <2> SUFFICES ASSUME task'[g].at \in {"activity", "store"} PROVE Open(task[g].session)'
    BY DEF FixOpen
  <2>1. TaskOk(task[g]) /\ task[g] \in Task
    BY DEF IInv, TypeOK, TaskInv
  <2>2. PICK s : s = task'[g].session
    OBVIOUS
  <2>3. /\ Open(s) /\ ~Silent(s) /\ task[g].at # "idle"
        /\ sessions[s].driver = task[g].driver
        /\ task[g].at \in {"positionFind", "activity", "store"}
    <3>1. CASE task'[g] = task[g]
      BY <2>1, <2>2, <3>1 DEF TaskOk, Owned, HttpInv, FixOpen, TimelyInv, FixTimely
    <3>2. CASE task'[g] # task[g]
      <4>1. \/ PositionFind(g) /\ s \in FindOpenForDriver(task[g].driver) /\ s # NONE
            \/ RecordActivity(g) /\ s = task[g].session
        BY <2>2, <3>2, FixComesFrom
      <4>2. CASE PositionFind(g) /\ s \in FindOpenForDriver(task[g].driver) /\ s # NONE
        BY <4>2, LookupIsExact DEF IInv, SerialInv, PositionFind, OpenOf
      <4>3. CASE RecordActivity(g) /\ s = task[g].session
        BY <2>1, <4>3 DEF TaskOk, Owned, HttpInv, FixOpen, TimelyInv, FixTimely,
           RecordActivity
      <4> QED
        BY <4>1, <4>2, <4>3
    <3> QED
      BY <3>1, <3>2
  <2>4. s \in SessionId /\ s \in Rows /\ sessions[s].ended = NONE
         /\ task[g].driver \in Drivers
    BY <1>1, <2>1, <2>3 DEF Open, TaskOk, Task, OrNone
  <2>5. CASE \E h \in Handlers : StartInsert(h)
    <3>1. s \in Rows' /\ sessions'[s] = sessions[s]
      BY <2>4, <2>5, InsertEffect
    <3> QED
      BY <2>2, <2>4, <3>1 DEF Open
  <2>6. CASE \A h \in Handlers : ~StartInsert(h)
    <3>1. RowEffect(s) /\ nextId' = nextId
      BY <2>4, <2>6, RowEffects
    <3>2. sweep[s] = NONE
      BY <2>3, <2>4 DEF TimelyInv, SweepFresh
    <3>3. ASSUME NEW h \in Handlers, StopUpdate(h) \/ SocketStopUpdate(h)
          PROVE  task[h].driver # task[g].driver
      <4>1. h # g
        BY <2>3, <3>3 DEF StopUpdate, SocketStopUpdate
      <4> QED
        BY <1>1, <2>4, <4>1, NoneAssumption DEF OneEach
    <3>4. sessions'[s].ended = sessions[s].ended
      BY <2>3, <3>1, <3>2, <3>3 DEF RowEffect
    <3> QED
      BY <2>2, <2>4, <3>1, <3>4 DEF Open, Rows
  <2> QED
    BY <2>5, <2>6
<1> QED
  BY <1>2, <1>3 DEF HttpInv

(* A fix sent over HTTP is filed under a session that is open, although    *)
(* the handler has awaited twice since it looked the session up: with one  *)
(* request of a driver at a time and quick handlers neither a stop nor the *)
(* sweep comes in between.                                                 *)
THEOREM HttpFixesAreInOpenSessions ==
  AppOnly /\ OneAtATime => (Spec => []HttpFixInOpenSession)
<1> SUFFICES ASSUME AppOnly, OneAtATime PROVE Spec => []HttpFixInOpenSession
  OBVIOUS
<1>1. Init => HttpInv
  BY IdleType DEF Init, HttpInv, HttpFixInOpenSession, FixOpen
<1>2. HttpInv => HttpFixInOpenSession
  BY DEF HttpInv
<1> QED
  BY <1>1, <1>2, HttpNext, Invariance, SerialStays, TimelyStays, PTL DEF Spec

\* A stop that ends a fresh session takes its route off the screens.
TellsResidents ==
  \A s \in Rows, h \in Handlers :
    StopEnds(h, s) /\ sessions[s].route # NONE /\ ~Silent(s)
      => watch'[sessions[s].route] # "moving"

LEMMA TellsResidentsStep ==
  ASSUME AppOnly
  PROVE  IInv /\ SerialInv /\ TimelyInv /\ [Next]_vars => TellsResidents
<1> SUFFICES ASSUME IInv, SerialInv, TimelyInv, [Next]_vars, NEW s \in Rows,
                    Open(s), sessions'[s].ended # NONE, sessions[s].route # NONE, ~Silent(s)
             PROVE  watch'[sessions[s].route] # "moving"
  BY DEF TellsResidents, StopEnds
<1>1. s \in SessionId /\ sessions[s].ended = NONE /\ sessions[s].route \in Routes
       /\ sweep[s] = NONE
  BY RowIds DEF IInv, TypeOK, Session, OrNone, Open, TimelyInv, SweepFresh
<1>2. \A h \in Handlers : ~StartInsert(h)
  BY <1>1, InsertEffect
<1>3. PICK h \in Handlers :
        (StopUpdate(h) \/ SocketStopUpdate(h)) /\ task[h].driver = sessions[s].driver
  BY <1>1, <1>2, RowEffects DEF RowEffect
<1>4. task[h] \in Task /\ TaskOk(task[h]) /\ SerialTask(task[h])
  BY DEF IInv, TypeOK, TaskInv, SerialInv
<1>5. StopUpdate(h)
  BY <1>3, <1>4 DEF SocketStopUpdate, TaskOk, Task, AppOnly, OrNone
<1>6. s \in OpenOf(task[h].driver)
  BY <1>1, <1>3 DEF OpenOf
<1>7. task[h].truck # NONE /\ task[h].route = sessions[s].route
  BY <1>1, <1>4, <1>5, <1>6 DEF SerialTask, StopOk, StopUpdate
<1>8. watch' = [q \in Routes |-> IF q = task[h].route THEN "ended" ELSE watch[q]]
  BY <1>5, <1>7 DEF StopUpdate, EndRoute
<1> QED
  BY <1>1, <1>7, <1>8

(* Over HTTP, whoever stops while the session is fresh tells the residents *)
(* of its route, although the route may be edited or deleted between the   *)
(* lookup and the update: their map does not keep a frozen truck.          *)
THEOREM FreshStopsAreTold ==
  AppOnly /\ OneAtATime => (Spec => FreshStopTellsResidents)
<1> SUFFICES ASSUME AppOnly, OneAtATime PROVE Spec => FreshStopTellsResidents
  OBVIOUS
<1>1. IInv /\ SerialInv /\ TimelyInv /\ [Next]_vars => [TellsResidents]_vars
  BY TellsResidentsStep
<1> QED
  BY <1>1, Invariance, SerialStays, TimelyStays, PTL
     DEF Spec, FreshStopTellsResidents, TellsResidents
=============================================================================
