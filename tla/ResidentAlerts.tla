--------------------------- MODULE ResidentAlerts ---------------------------
(***************************************************************************)
(* Residents and their alerts: registration and unregistration of devices, *)
(* the proximity engine that decides from a truck's fix who is warned, and *)
(* the delivery of the warnings as Web Push messages, once per stage and   *)
(* day.  One route of one municipality.                                    *)
(*                                                                         *)
(* A handler runs without interruption between two awaits and a statement  *)
(* is atomic, so a request and the evaluation of a fix are slots with a    *)
(* program counter and what they have read so far; reads of what does not  *)
(* change here (tenant, configuration, centerline) are no steps.           *)
(***************************************************************************)
EXTENDS Integers

CONSTANTS
  Devices,          \* browsers, each with its push endpoint
  Requests,         \* slots for requests being handled
  Evaluations,      \* slots for fixes being evaluated
  NONE,             \* SQL NULL, no row
  MaxResidents,     \* bound: rows of residents
  Homes,            \* bound: collection points residents are given, NONE: out of reach of the route
  Offsets,          \* points of the route where trucks are
  Ages,             \* bound: how long a fix has waited when it is evaluated
  Gaps,             \* bound: how much older the previous fix is
  Lead,             \* notify_lead_minutes
  ArrivalDistance,  \* arrival_distance_m
  AvgSpeed,         \* avg_truck_speed_kmh
  MinSpeed,         \* MIN_MEASURABLE_SPEED_MPS
  MotionWindow,     \* MOTION_WINDOW_MS
  MaxDay,           \* bound: the last day
  MaxFixes,         \* bound: fixes that somebody is to be alerted for
  Patient,          \* TRUE: a device awaits the answer to its last request
  Upsets,           \* kinds of upsets that may happen
  MaxUpsets         \* bound: how many of them happen

ResidentId == 1..MaxResidents
Days == 0..MaxDay
Stages == {"prepare", "arriving"}

ASSUME NoneAssumption ==
  /\ NONE \notin Devices \cup Stages
  /\ NONE \notin Nat
ASSUME BoundsAssumption ==
  /\ MaxResidents \in Nat /\ MaxDay \in Nat /\ MaxFixes \in Nat /\ MaxUpsets \in Nat
  /\ Homes \subseteq Nat \cup {NONE} /\ Offsets \subseteq Nat /\ Ages \subseteq Nat
  /\ Gaps \subseteq Nat \ {0}
  /\ Lead \in Nat /\ ArrivalDistance \in Nat /\ AvgSpeed \in Nat \ {0}
  /\ MinSpeed \in Nat \ {0} /\ MotionWindow \in Nat
  /\ Patient \in BOOLEAN
  /\ Upsets \subseteq {"request", "alert", "push", "restart"}

VARIABLES
  day,           \* localDateString()
  residents,     \* residents
  nextResident,  \* the next value of its id sequence
  subs,          \* push_subscriptions, by endpoint
  log,           \* notification_logs
  gone,          \* endpoints the push service no longer knows
  holds,         \* of every device: the registration it has the owner token of
  request,       \* the requests in flight
  evaluation,    \* the fixes being evaluated
  fixes,         \* how many have been
  alerts,        \* history: how often an alert was pushed
  upsets         \* how many upsets have happened

people == <<residents, nextResident>>
history == <<fixes, alerts>>
vars == <<day, people, subs, log, gone, holds, request, evaluation, history, upsets>>

-----------------------------------------------------------------------------
(* Types                                                                   *)

OrNone(S) == S \cup {NONE}

Resident == [active: BOOLEAN, offset: Homes, token: BOOLEAN]
Subscription == [owner: ResidentId, active: BOOLEAN]
Alert == ResidentId \X Stages \X Days

ASSUME RowAssumption == NONE \notin Resident \cup Subscription

Request == [at: {"idle", "token", "find", "save", "deactivate", "silence"},
            device: OrNone(Devices), resident: OrNone(ResidentId), found: BOOLEAN]
NoRequest == [at |-> "idle", device |-> NONE, resident |-> NONE, found |-> FALSE]

\* `todo`: the stage every candidate still to be alerted is due.
Evaluation == [at: {"idle", "log", "subs", "push", "prune", "save"},
               todo: [ResidentId -> OrNone(Stages)], resident: OrNone(ResidentId),
               stage: OrNone(Stages), day: Days, targets: SUBSET Devices, sent: BOOLEAN]
NoEvaluation == [at |-> "idle", todo |-> [r \in ResidentId |-> NONE], resident |-> NONE,
                 stage |-> NONE, day |-> 0, targets |-> {}, sent |-> FALSE]

TypeOK ==
  /\ day \in Days
  /\ residents \in [ResidentId -> OrNone(Resident)]
  /\ nextResident \in 1..(MaxResidents + 1)
  /\ subs \in [Devices -> OrNone(Subscription)]
  /\ log \subseteq Alert \X {"sent", "failed"}
  /\ gone \subseteq Devices
  /\ holds \in [Devices -> OrNone(ResidentId)]
  /\ request \in [Requests -> Request]
  /\ evaluation \in [Evaluations -> Evaluation]
  /\ fixes \in 0..MaxFixes
  /\ alerts \in [Alert -> Nat]
  /\ upsets \in Nat

-----------------------------------------------------------------------------
(* ProximityService: who is due which alert                                *)

\* A fix on the route, with the truck's previous fix if there is one.
Progress == [offset: Offsets, age: Ages, previous: OrNone([offset: Offsets, gap: Gaps])]

Abs(n) == IF n < 0 THEN -n ELSE n
Sign(n) == IF n > 0 THEN 1 ELSE IF n < 0 THEN -1 ELSE 0

\* Pace is `metres` in `time`.
Motion(p) ==
  LET metres == p.offset - p.previous.offset
  IN  IF p.previous = NONE \/ p.previous.gap > MotionWindow
      THEN [direction |-> 0, metres |-> AvgSpeed, time |-> 1]
      ELSE IF Abs(metres) < MinSpeed * p.previous.gap
      THEN [direction |-> Sign(metres), metres |-> AvgSpeed, time |-> 1]
      ELSE [direction |-> Sign(metres), metres |-> Abs(metres), time |-> p.previous.gap]

\* Mutant: the stretch looked at does not turn with the truck.
Candidate_OneWay(x, p) ==
  LET m == Motion(p)
      distance == (x - p.offset) * m.time
  IN  -ArrivalDistance * m.time <= distance /\ distance <= Lead * m.metres
\* The stretch of the route whose residents are looked at.
Candidate(x, p) ==
  LET m == Motion(p)
      lead == Lead * m.metres
      arrival == ArrivalDistance * m.time
      distance == (x - p.offset) * m.time
  IN  IF m.direction >= 0 THEN -arrival <= distance /\ distance <= lead
      ELSE -lead <= distance /\ distance <= arrival

\* Mutant: whom a stale fix has the truck past already is told nothing.
Stage_PassedIsNobody(x, p) ==
  LET m == Motion(p)
      ahead == (IF m.direction = -1 THEN p.offset - x ELSE x - p.offset) * m.time
  IN  IF Abs(x - p.offset) <= ArrivalDistance THEN "arriving"
      ELSE IF m.direction # 0 /\ ahead > p.age * m.metres /\ ahead <= (Lead + p.age) * m.metres
      THEN "prepare" ELSE NONE
\* The truck reaches whoever is `ahead` after ahead / pace, less the age of the fix.
Stage(x, p) ==
  LET m == Motion(p)
      ahead == (IF m.direction = -1 THEN p.offset - x ELSE x - p.offset) * m.time
  IN  IF Abs(x - p.offset) <= ArrivalDistance THEN "arriving"
      ELSE IF m.direction # 0 /\ ahead > 0 /\ ahead <= (Lead + p.age) * m.metres
      THEN IF ahead <= p.age * m.metres THEN "arriving" ELSE "prepare"
      ELSE NONE

Due(r, p) ==
  IF residents[r] # NONE /\ residents[r].active /\ residents[r].offset # NONE
       /\ Candidate(residents[r].offset, p)
  THEN Stage(residents[r].offset, p) ELSE NONE

\* A statement fails, a push service does not answer, or the process restarts.
Upset(kind) ==
  /\ kind \in Upsets
  /\ upsets < MaxUpsets
  /\ upsets' = upsets + 1

-----------------------------------------------------------------------------
(* ResidentRegistrationService                                             *)

Answer(h, rec) == request' = [request EXCEPT ![h] = rec]
Asks(h, d) ==
  /\ request[h] = NoRequest
  /\ Patient => \A g \in Requests : request[g].device # d

\* POST register, up to the INSERT of the resident; NONE: no route within walking distance.
Register(h, d, x) ==
  /\ Asks(h, d) /\ d \notin gone
  /\ nextResident \in ResidentId
  /\ residents' = [residents EXCEPT ![nextResident] =
                     [active |-> TRUE, offset |-> x, token |-> FALSE]]
  /\ nextResident' = nextResident + 1
  /\ Answer(h, [NoRequest EXCEPT !.at = "token", !.device = d, !.resident = nextResident])
  /\ UNCHANGED <<day, subs, log, gone, holds, evaluation, history, upsets>>

IssueToken(h) ==
  /\ request[h].at = "token"
  /\ residents' = [residents EXCEPT ![request[h].resident].token = TRUE]
  /\ Answer(h, [request[h] EXCEPT !.at = "find"])
  /\ UNCHANGED <<day, nextResident, subs, log, gone, holds, evaluation, history, upsets>>

FindSubscription(h) ==
  /\ request[h].at = "find"
  /\ Answer(h, [request[h] EXCEPT !.at = "save", !.found = subs[request[h].device] # NONE])
  /\ UNCHANGED <<day, people, subs, log, gone, holds, evaluation, history, upsets>>

\* Mutant: a row that was there keeps its resident.
Upsert_KeepsOwner(d, r) ==
  [owner |-> IF subs[d] = NONE THEN r ELSE subs[d].owner, active |-> TRUE]
Upsert(d, r) == [owner |-> r, active |-> TRUE]

\* An INSERT of an endpoint that is there by now is refused, and with it the request;
\* otherwise the device has its answer.
SaveSubscription(h) ==
  LET d == request[h].device
      refused == ~request[h].found /\ subs[d] # NONE
  IN  /\ request[h].at = "save"
      /\ subs' = IF refused THEN subs ELSE [subs EXCEPT ![d] = Upsert(d, request[h].resident)]
      /\ holds' = IF refused THEN holds ELSE [holds EXCEPT ![d] = request[h].resident]
      /\ Answer(h, NoRequest)
      /\ UNCHANGED <<day, people, log, gone, evaluation, history, upsets>>

\* POST unsubscribe, with the token of the registration the device has.
Unregister(h, d) ==
  /\ Asks(h, d)
  /\ holds[d] # NONE /\ residents[holds[d]].token
  /\ Answer(h, [NoRequest EXCEPT !.at = "deactivate", !.device = d, !.resident = holds[d]])
  /\ UNCHANGED <<day, people, subs, log, gone, holds, evaluation, history, upsets>>

Deactivate(h) ==
  /\ request[h].at = "deactivate"
  /\ residents' = [residents EXCEPT ![request[h].resident].active = FALSE]
  /\ Answer(h, [request[h] EXCEPT !.at = "silence"])
  /\ UNCHANGED <<day, nextResident, subs, log, gone, holds, evaluation, history, upsets>>

Silence(h) ==
  LET r == request[h].resident
  IN  /\ request[h].at = "silence"
      /\ subs' = [d \in Devices |->
           IF subs[d] # NONE /\ subs[d].owner = r THEN [subs[d] EXCEPT !.active = FALSE]
           ELSE subs[d]]
      /\ holds' = [holds EXCEPT ![request[h].device] = NONE]
      /\ Answer(h, NoRequest)
      /\ UNCHANGED <<day, people, log, gone, evaluation, history, upsets>>

RequestFault(h) ==
  /\ request[h] # NoRequest
  /\ Upset("request")
  /\ Answer(h, NoRequest)
  /\ UNCHANGED <<day, people, subs, log, gone, holds, evaluation, history>>

-----------------------------------------------------------------------------
(* ProximityService.evaluate and NotificationsService.sendStageAlert       *)

Goto(e, rec) == evaluation' = [evaluation EXCEPT ![e] = rec]

\* The next candidate, or the end of the loop.
Skip(e, todo) ==
  Goto(e, IF \A r \in ResidentId : todo[r] = NONE THEN NoEvaluation
          ELSE [NoEvaluation EXCEPT !.at = "log", !.todo = todo])

\* A fix that is on the route; without anybody to alert it comes to nothing.
FindCandidates(e, p) ==
  /\ evaluation[e].at = "idle" /\ fixes < MaxFixes
  /\ \E r \in ResidentId : Due(r, p) # NONE
  /\ Skip(e, [r \in ResidentId |-> Due(r, p)])
  /\ fixes' = fixes + 1
  /\ UNCHANGED <<day, people, subs, log, gone, holds, request, alerts, upsets>>

Key(e) == <<evaluation[e].resident, evaluation[e].stage, evaluation[e].day>>

\* Mutant: the arrival alert is sent whenever the truck is there.
Logged_PrepareOnly(k) ==
  k[2] = "prepare" /\ \E status \in {"sent", "failed"} : <<k, status>> \in log
\* Mutant: the other stage of the day counts too.
Logged_AnyStage(k) ==
  \E s \in Stages, status \in {"sent", "failed"} : <<<<k[1], s, k[3]>>, status>> \in log
Logged(k) == \E status \in {"sent", "failed"} : <<k, status>> \in log

FindLog(e, r) ==
  LET rest == [evaluation[e].todo EXCEPT ![r] = NONE]
  IN  /\ evaluation[e].at = "log"
      /\ evaluation[e].todo[r] # NONE
      /\ IF Logged(<<r, evaluation[e].todo[r], day>>) THEN Skip(e, rest)
         ELSE Goto(e, [evaluation[e] EXCEPT !.at = "subs", !.todo = rest, !.resident = r,
                                            !.stage = evaluation[e].todo[r], !.day = day])
      /\ UNCHANGED <<day, people, subs, log, gone, holds, request, history, upsets>>

ActiveSubscriptions(r) == {d \in Devices : subs[d] # NONE /\ subs[d].owner = r /\ subs[d].active}

FindSubscriptions(e) ==
  LET found == ActiveSubscriptions(evaluation[e].resident)
  IN  /\ evaluation[e].at = "subs"
      /\ IF found = {} THEN Skip(e, evaluation[e].todo)
         ELSE Goto(e, [evaluation[e] EXCEPT !.at = "push", !.targets = found])
      /\ UNCHANGED <<day, people, subs, log, gone, holds, request, history, upsets>>

\* Mutant: any failure counts as the end of a subscription.
Dead_Any(targets, reached) == targets \ reached
\* Those whose push service answers 404 or 410.
Dead(targets, reached) == targets \cap gone

Push(e) ==
  /\ evaluation[e].at = "push"
  /\ \E reached \in SUBSET (evaluation[e].targets \ gone) :
       LET dead == Dead(evaluation[e].targets, reached)
       IN  /\ IF reached = evaluation[e].targets \ gone THEN UNCHANGED upsets ELSE Upset("push")
           /\ Goto(e, [evaluation[e] EXCEPT !.at = IF dead = {} THEN "save" ELSE "prune",
                                            !.targets = dead, !.sent = reached # {}])
  /\ alerts' = [alerts EXCEPT ![Key(e)] = @ + 1]
  /\ UNCHANGED <<day, people, subs, log, gone, holds, request, fixes>>

\* The UPDATEs run side by side; they touch nothing that another statement between them reads.
Prune(e) ==
  /\ evaluation[e].at = "prune"
  /\ subs' = [d \in Devices |->
       IF d \in evaluation[e].targets THEN [subs[d] EXCEPT !.active = FALSE] ELSE subs[d]]
  /\ Goto(e, [evaluation[e] EXCEPT !.at = "save", !.targets = {}])
  /\ UNCHANGED <<day, people, log, gone, holds, request, history, upsets>>

\* Mutant: what the push service was asked, not what came of it.
Status_Queued(e) == "queued"
Status(e) == IF evaluation[e].sent THEN "sent" ELSE "failed"

SaveLog(e) ==
  /\ evaluation[e].at = "save"
  /\ log' = log \cup {<<Key(e), Status(e)>>}
  /\ Skip(e, evaluation[e].todo)
  /\ UNCHANGED <<day, people, subs, gone, holds, request, history, upsets>>

\* A statement fails: processGpsUpdate logs it, and the rest of the loop is not done.
AlertFault(e) ==
  /\ evaluation[e].at # "idle"
  /\ Upset("alert")
  /\ Goto(e, NoEvaluation)
  /\ UNCHANGED <<day, people, subs, log, gone, holds, request, history>>

-----------------------------------------------------------------------------
(* What else happens                                                       *)

\* A browser's endpoint ends: permission revoked, data cleared, PWA removed.
Revoke(d) ==
  /\ d \notin gone /\ subs[d] # NONE
  /\ gone' = gone \cup {d}
  /\ UNCHANGED <<day, people, subs, log, holds, request, evaluation, history, upsets>>

\* An administrator takes a resident off the list.
DeactivateById(r) ==
  /\ residents[r] # NONE /\ residents[r].active
  /\ residents' = [residents EXCEPT ![r].active = FALSE]
  /\ UNCHANGED <<day, nextResident, subs, log, gone, holds, request, evaluation, history, upsets>>

Midnight ==
  /\ day < MaxDay
  /\ day' = day + 1
  /\ UNCHANGED <<people, subs, log, gone, holds, request, evaluation, history, upsets>>

Restart ==
  /\ Upset("restart")
  /\ request' = [h \in Requests |-> NoRequest]
  /\ evaluation' = [e \in Evaluations |-> NoEvaluation]
  /\ UNCHANGED <<day, people, subs, log, gone, holds, history>>

-----------------------------------------------------------------------------
(* The specification                                                       *)

Init ==
  /\ day = 0
  /\ residents = [r \in ResidentId |-> NONE]
  /\ nextResident = 1
  /\ subs = [d \in Devices |-> NONE]
  /\ log = {}
  /\ gone = {}
  /\ holds = [d \in Devices |-> NONE]
  /\ request = [h \in Requests |-> NoRequest]
  /\ evaluation = [e \in Evaluations |-> NoEvaluation]
  /\ fixes = 0
  /\ alerts = [k \in Alert |-> 0]
  /\ upsets = 0

Serve(h) ==
  \/ \E d \in Devices, x \in Homes : Register(h, d, x)
  \/ \E d \in Devices : Unregister(h, d)
  \/ IssueToken(h) \/ FindSubscription(h) \/ SaveSubscription(h)
  \/ Deactivate(h) \/ Silence(h) \/ RequestFault(h)

Deliver(e) ==
  \/ \E r \in ResidentId : FindLog(e, r)
  \/ FindSubscriptions(e) \/ Push(e) \/ Prune(e) \/ SaveLog(e)

Evaluate(e) == (\E p \in Progress : FindCandidates(e, p)) \/ Deliver(e) \/ AlertFault(e)

Next ==
  \/ \E h \in Requests : Serve(h)
  \/ \E e \in Evaluations : Evaluate(e)
  \/ \E d \in Devices : Revoke(d)
  \/ \E r \in ResidentId : DeactivateById(r)
  \/ Midnight
  \/ Restart

Spec == Init /\ [][Next]_vars

(* A statement the server has sent and a push are answered, one way or the *)
(* other.  Drivers, residents, administrators and upsets owe nothing.      *)
Fairness == \A e \in Evaluations : WF_vars(Deliver(e))

FairSpec == Spec /\ Fairness

-----------------------------------------------------------------------------
(* Properties                                                              *)

(* "Two alerts per resident per day at most", one of each stage: an alert  *)
(* is not pushed again that day, also when the push failed or midnight     *)
(* came in between.  Each failure or restart between a push and its log    *)
(* may cost one repetition.                                                *)
OncePerDay == \A k \in Alert : alerts[k] <= 1 + upsets

(* A device that was told "registered" is one the alerts of its resident   *)
(* go to, whatever registrations and unregistrations came before, were cut *)
(* off or overlap, until its endpoint is gone or the resident is taken off *)
(* the list: transient failures of the push service do not silence it.     *)
RegisteredIsReachable ==
  \A d \in Devices \ gone :
    holds[d] # NONE /\ residents[holds[d]].active
      => subs[d] # NONE /\ subs[d] = [owner |-> holds[d], active |-> TRUE]

(* Whoever is alerted can stop it: the device holds the token of exactly   *)
(* the resident whose alerts it gets ("Authorized ONLY by the device's     *)
(* owner token").                                                          *)
WhoIsAlertedCanLeave ==
  \A d \in Devices :
    subs[d] # NONE /\ subs[d].active /\ residents[subs[d].owner].active
      => holds[d] = subs[d].owner /\ residents[holds[d]].token

(* Nobody lives where the truck comes before it comes to another, who is   *)
(* told more: if the farther of two homes ahead is due an alert then so is *)
(* the nearer, and one of at least that urgency, whatever the age of the   *)
(* fix, the pace and the direction.                                        *)
Told(x, p) == IF Candidate(x, p) THEN Stage(x, p) ELSE NONE

ToldLess ==
  {near \in Homes \ {NONE} : \E p \in Progress, far \in Offsets :
     LET ahead(x) == IF Motion(p).direction = -1 THEN p.offset - x ELSE x - p.offset
     IN  /\ 0 < ahead(near) /\ ahead(near) < ahead(far)
         /\ Told(far, p) # NONE
         /\ Told(near, p) \notin {"arriving", Told(far, p)}}

NearerIsMoreUrgent ==
  \A r \in ResidentId : residents[r] # NONE => residents[r].offset \notin ToldLess

(* Nobody lives where the loop would alert for a fresh fix but the query   *)
(* does not look: the stretch it asks for turns with the truck and is long *)
(* enough (unless the lead distance is shorter than the arrival distance). *)
Overlooked ==
  {x \in Homes \ {NONE} : \E p \in Progress :
     /\ p.age = 0 /\ ArrivalDistance * Motion(p).time <= Lead * Motion(p).metres
     /\ Stage(x, p) # NONE /\ ~Candidate(x, p)}

FreshFixMissesNobody ==
  \A r \in ResidentId : residents[r] # NONE => residents[r].offset \notin Overlooked

(* Whoever is due an alert and has a device gets it once nothing fails any *)
(* more: it is logged, in its own stage, for the day of the fix or the     *)
(* next, whatever was sent the day before or in the other stage.           *)
HasLog(r, s, d) == \E status \in {"sent", "failed"} : <<<<r, s, d>>, status>> \in log

DueIsLogged ==
  \A e \in Evaluations, r \in ResidentId, s \in Stages, d \in Days :
    evaluation[e].todo[r] = s /\ day = d /\ upsets = MaxUpsets /\ ActiveSubscriptions(r) # {}
      ~> (\E today \in d..MaxDay : HasLog(r, s, today)) \/ ActiveSubscriptions(r) = {}
=============================================================================
