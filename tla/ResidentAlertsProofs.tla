------------------------ MODULE ResidentAlertsProofs ------------------------
(***************************************************************************)
(* Types, who owns which subscription, how often an alert is pushed, and   *)
(* who is told how much, for any number of devices, residents, requests,   *)
(* fixes and days, and any route, pace and distances.                      *)
(***************************************************************************)
EXTENDS ResidentAlerts, TLAPS

-----------------------------------------------------------------------------
(* The rows and slots that other rows and slots point to exist.            *)

Exists(r) == r \in ResidentId /\ residents[r] # NONE

RequestOk(h) ==
  /\ request[h].at = "idle" => request[h] = NoRequest
  /\ request[h].at # "idle" => request[h].device \in Devices /\ Exists(request[h].resident)

EvaluationOk(e) ==
  /\ evaluation[e].at \in {"subs", "push", "prune", "save"} =>
       evaluation[e].resident \in ResidentId /\ evaluation[e].stage \in Stages
  /\ evaluation[e].at \in {"push", "prune"} => \A d \in evaluation[e].targets : subs[d] # NONE
  /\ evaluation[e].at = "prune" => evaluation[e].targets \subseteq gone

RowsInv ==
  /\ \A r \in ResidentId : residents[r] # NONE <=> r < nextResident
  /\ \A d \in Devices : holds[d] # NONE => Exists(holds[d])

RefInv ==
  /\ TypeOK
  /\ RowsInv
  /\ \A h \in Requests : RequestOk(h)
  /\ \A e \in Evaluations : EvaluationOk(e)

LEMMA NoneIsNoRow ==
  /\ NONE \notin Devices /\ NONE \notin ResidentId /\ NONE \notin Stages
  /\ NONE \notin Resident /\ NONE \notin Subscription
<1>1. ResidentId \subseteq Nat
  BY BoundsAssumption DEF ResidentId
<1> QED
  BY <1>1, NoneAssumption, RowAssumption

(* A slot gets a new record; the other slots keep theirs. *)
LEMMA AnswerFrame ==
  ASSUME TypeOK, NEW h \in Requests, NEW rec \in Request, Answer(h, rec)
  PROVE  /\ request' \in [Requests -> Request]
         /\ request'[h] = rec
         /\ \A g \in Requests \ {h} : request'[g] = request[g]
BY DEF TypeOK, Answer

LEMMA GotoFrame ==
  ASSUME TypeOK, NEW e \in Evaluations, NEW rec \in Evaluation, Goto(e, rec)
  PROVE  /\ evaluation' \in [Evaluations -> Evaluation]
         /\ evaluation'[e] = rec
         /\ \A f \in Evaluations \ {e} : evaluation'[f] = evaluation[f]
BY DEF TypeOK, Goto

LEMMA Resting == NoRequest \in Request /\ NoEvaluation \in Evaluation
<1>1. 0 \in Days
  BY BoundsAssumption DEF Days
<1> QED
  BY <1>1 DEF NoRequest, Request, NoEvaluation, Evaluation, OrNone

LEMMA SkipFrame ==
  ASSUME TypeOK, NEW e \in Evaluations,
         NEW todo \in [ResidentId -> OrNone(Stages)], Skip(e, todo)
  PROVE  /\ evaluation' \in [Evaluations -> Evaluation]
         /\ evaluation'[e].at \in {"idle", "log"}
         /\ \A f \in Evaluations \ {e} : evaluation'[f] = evaluation[f]
<1> DEFINE next == IF \A r \in ResidentId : todo[r] = NONE THEN NoEvaluation
                   ELSE [NoEvaluation EXCEPT !.at = "log", !.todo = todo]
<1>1. next \in Evaluation /\ next.at \in {"idle", "log"}
  BY Resting DEF Evaluation, NoEvaluation
<1>2. Goto(e, next)
  BY DEF Skip
<1> HIDE DEF next
<1> QED
  BY <1>1, <1>2, GotoFrame

LEMMA DueType ==
  ASSUME NEW r, NEW p PROVE Due(r, p) \in OrNone(Stages)
<1>1. \A x : Stage(x, p) \in OrNone(Stages)
  BY DEF Stage, OrNone, Stages
<1> QED
  BY <1>1 DEF Due, OrNone

(* Rows are never deleted and endpoints never come back, so what a slot    *)
(* refers to stays there.                                                  *)
Stays ==
  /\ \A r \in ResidentId : residents[r] # NONE => residents'[r] # NONE
  /\ \A d \in Devices : subs[d] # NONE => subs'[d] # NONE
  /\ gone \subseteq gone'

LEMMA NothingGoesAway ==
  ASSUME RefInv, [Next]_vars PROVE Stays
<1> USE NoneIsNoRow
<1>1. /\ residents \in [ResidentId -> OrNone(Resident)]
      /\ subs \in [Devices -> OrNone(Subscription)]
  BY DEF RefInv, TypeOK
<1>2. \A r \in ResidentId : residents[r] # NONE => residents[r] \in Resident
  BY <1>1 DEF OrNone
<1>3. \A d \in Devices : subs[d] # NONE => subs[d] \in Subscription
  BY <1>1 DEF OrNone
<1>4. ASSUME NEW h \in Requests, NEW d \in Devices, NEW x \in Homes, Register(h, d, x)
      PROVE  Stays
  <2>1. [active |-> TRUE, offset |-> x, token |-> FALSE] \in Resident
    BY DEF Resident
  <2> QED
    BY <1>1, <1>4, <2>1 DEF Register, Stays
<1>5. ASSUME NEW r \in ResidentId, residents[r] # NONE
      PROVE  /\ [residents[r] EXCEPT !.active = FALSE] # NONE
             /\ [residents[r] EXCEPT !.token = TRUE] # NONE
  <2>1. /\ [residents[r] EXCEPT !.active = FALSE] \in Resident
        /\ [residents[r] EXCEPT !.token = TRUE] \in Resident
    BY <1>2, <1>5 DEF Resident
  <2> QED
    BY <2>1
<1>6. ASSUME NEW d \in Devices, subs[d] # NONE
      PROVE  [subs[d] EXCEPT !.active = FALSE] # NONE
  <2>1. [subs[d] EXCEPT !.active = FALSE] \in Subscription
    BY <1>3, <1>6 DEF Subscription
  <2> QED
    BY <2>1
<1>7. ASSUME NEW h \in Requests, IssueToken(h) \/ Deactivate(h) PROVE Stays
  BY <1>1, <1>5, <1>7 DEF IssueToken, Deactivate, Stays
<1>8. ASSUME NEW h \in Requests, SaveSubscription(h) PROVE Stays
  <2> DEFINE d == request[h].device
             r == request[h].resident
  <2>1. Upsert(d, r) \in Subscription
    BY <1>8 DEF SaveSubscription, RefInv, RequestOk, Exists, Upsert, Subscription
  <2>2. subs' = subs \/ subs' = [subs EXCEPT ![d] = Upsert(d, r)]
    BY <1>8 DEF SaveSubscription
  <2>3. residents' = residents /\ gone' = gone
    BY <1>8 DEF SaveSubscription, people
  <2> HIDE DEF d, r
  <2> QED
    BY <1>1, <2>1, <2>2, <2>3 DEF Stays
<1>9. ASSUME NEW h \in Requests, Silence(h) PROVE Stays
  BY <1>6, <1>9 DEF Silence, people, Stays
<1>10. ASSUME NEW h \in Requests,
              FindSubscription(h) \/ RequestFault(h) \/ \E d \in Devices : Unregister(h, d)
       PROVE  Stays
  BY <1>10, Zenon DEF FindSubscription, RequestFault, Unregister, people, Stays
<1>11. ASSUME NEW e \in Evaluations, Prune(e) PROVE Stays
  BY <1>6, <1>11 DEF Prune, people, Stays
<1>12. ASSUME NEW e \in Evaluations,
              \/ \E q \in Progress : FindCandidates(e, q)
              \/ \E r \in ResidentId : FindLog(e, r)
              \/ FindSubscriptions(e) \/ Push(e) \/ SaveLog(e) \/ AlertFault(e)
       PROVE  Stays
  BY <1>12, Zenon DEF FindCandidates, FindLog, FindSubscriptions, Push, SaveLog, AlertFault,
     people, Stays
<1>13. ASSUME NEW d \in Devices, Revoke(d) PROVE Stays
  BY <1>13 DEF Revoke, people, Stays
<1>14. ASSUME NEW r \in ResidentId, DeactivateById(r) PROVE Stays
  BY <1>1, <1>5, <1>14 DEF DeactivateById, Stays
<1>15. CASE Midnight \/ Restart \/ UNCHANGED vars
  BY <1>15 DEF Midnight, Restart, vars, people, Stays
<1>16. CASE Next
  BY <1>4, <1>7, <1>8, <1>9, <1>10, <1>11, <1>12, <1>13, <1>14, <1>15, <1>16
  DEF Next, Serve, Evaluate, Deliver
<1> QED
  BY <1>15, <1>16

-----------------------------------------------------------------------------
(* Requests                                                                *)

SlotServed(h) ==
  /\ request' \in [Requests -> Request]
  /\ \A g \in Requests \ {h} : request'[g] = request[g]
  /\ RequestOk(h)'

LEMMA RequestSlot ==
  ASSUME RefInv, NEW h \in Requests, Serve(h) PROVE SlotServed(h)
<1> USE NoneIsNoRow
<1> DEFINE q == request[h]
<1>1. TypeOK /\ q \in Request /\ RowsInv /\ RequestOk(h)
  BY DEF RefInv, TypeOK
<1>2. /\ q.at # "idle" => /\ q.device \in Devices /\ q.resident \in ResidentId
                          /\ residents[q.resident] # NONE
      /\ \A r \in ResidentId : residents[r] # NONE => residents'[r] # NONE
  BY <1>1, NothingGoesAway DEF RequestOk, Exists, Next, Stays
<1>3. ASSUME NEW rec \in Request, Answer(h, rec),
             rec.at = "idle" => rec = NoRequest,
             rec.at # "idle" => /\ rec.device \in Devices
                                /\ rec.resident \in ResidentId /\ residents'[rec.resident] # NONE
      PROVE  SlotServed(h)
  BY <1>1, <1>3, AnswerFrame DEF RequestOk, Exists, SlotServed
<1>4. ASSUME NEW d \in Devices, NEW x \in Homes, Register(h, d, x) PROVE SlotServed(h)
  <2> DEFINE rec == [NoRequest EXCEPT !.at = "token", !.device = d, !.resident = nextResident]
  <2>1. nextResident \in ResidentId /\ Answer(h, rec)
    BY <1>4 DEF Register
  <2>2. rec \in Request /\ rec.at = "token" /\ rec.device = d /\ rec.resident = nextResident
    BY <2>1 DEF Request, NoRequest, OrNone
  <2>3. residents'[nextResident] = [active |-> TRUE, offset |-> x, token |-> FALSE]
    BY <1>1, <1>4, <2>1 DEF Register, TypeOK
  <2>4. residents'[nextResident] \in Resident
    BY <2>3 DEF Resident
  <2> HIDE DEF rec
  <2> QED
    BY <1>3, <2>1, <2>2, <2>4
<1>5. ASSUME NEW d \in Devices, Unregister(h, d) PROVE SlotServed(h)
  <2> DEFINE rec == [NoRequest EXCEPT !.at = "deactivate", !.device = d, !.resident = holds[d]]
  <2>1. holds[d] # NONE /\ Answer(h, rec)
    BY <1>5 DEF Unregister
  <2>2. holds[d] \in ResidentId /\ residents[holds[d]] # NONE
    BY <1>1, <2>1 DEF RowsInv, Exists
  <2>3. rec \in Request /\ rec.at = "deactivate" /\ rec.device = d /\ rec.resident = holds[d]
    BY <2>2 DEF Request, NoRequest, OrNone
  <2> HIDE DEF rec
  <2> QED
    BY <1>2, <1>3, <2>1, <2>2, <2>3
<1>6. ASSUME NEW at \in {"find", "save", "silence"}, NEW found \in BOOLEAN, q.at # "idle",
             Answer(h, [[q EXCEPT !.at = at] EXCEPT !.found = found])
      PROVE  SlotServed(h)
  <2> DEFINE rec == [[q EXCEPT !.at = at] EXCEPT !.found = found]
  <2>1. /\ rec \in Request /\ rec.at = at /\ at # "idle"
        /\ rec.device = q.device /\ rec.resident = q.resident
    BY <1>1 DEF Request
  <2>2. Answer(h, rec)
    BY <1>6
  <2> HIDE DEF rec, q
  <2> QED
    BY <1>2, <1>3, <1>6, <2>1, <2>2
<1>7. CASE IssueToken(h) \/ Deactivate(h)
  <2>1. \A at \in {"find", "silence"} :
          [q EXCEPT !.at = at] = [[q EXCEPT !.at = at] EXCEPT !.found = q.found]
    BY <1>1 DEF Request
  <2> QED
    BY <1>1, <1>6, <1>7, <2>1, Zenon DEF IssueToken, Deactivate, Request
<1>8. CASE FindSubscription(h)
  <2>1. [q EXCEPT !.at = "save", !.found = subs[q.device] # NONE]
          = [[q EXCEPT !.at = "save"] EXCEPT !.found = (subs[q.device] # NONE)]
    BY <1>1 DEF Request
  <2> QED
    BY <1>6, <1>8, <2>1, Zenon DEF FindSubscription
<1>9. CASE SaveSubscription(h) \/ Silence(h) \/ RequestFault(h)
  <2>1. Answer(h, NoRequest)
    BY <1>9 DEF SaveSubscription, Silence, RequestFault
  <2> QED
    BY <1>3, <2>1, Resting DEF NoRequest
<1> QED
  BY <1>4, <1>5, <1>7, <1>8, <1>9 DEF Serve

(* Slots that are not touched stay in order. *)
LEMMA OtherRequests ==
  ASSUME RefInv, Stays, NEW h \in Requests, request'[h] = request[h]
  PROVE  RequestOk(h)'
BY DEF RefInv, RequestOk, Exists, Stays

LEMMA OtherEvaluations ==
  ASSUME RefInv, Stays, NEW e \in Evaluations, evaluation'[e] = evaluation[e]
  PROVE  EvaluationOk(e)'
<1>1. EvaluationOk(e) /\ evaluation[e].targets \subseteq Devices
  BY DEF RefInv, TypeOK, Evaluation
<1> QED
  BY <1>1 DEF EvaluationOk, Stays

LEMMA ServeRows ==
  ASSUME RefInv, NEW h \in Requests, Serve(h)
  PROVE  /\ residents' \in [ResidentId -> OrNone(Resident)]
         /\ nextResident' \in 1..(MaxResidents + 1)
         /\ \A r \in ResidentId : residents'[r] # NONE <=> r < nextResident'
<1> USE NoneIsNoRow
<1>1. /\ residents \in [ResidentId -> OrNone(Resident)]
      /\ nextResident \in 1..(MaxResidents + 1)
      /\ \A r \in ResidentId : residents[r] # NONE <=> r < nextResident
      /\ RequestOk(h)
  BY DEF RefInv, TypeOK, RowsInv
<1>2. ASSUME NEW d \in Devices, NEW x \in Homes, Register(h, d, x)
      PROVE  /\ residents' \in [ResidentId -> OrNone(Resident)]
             /\ nextResident' \in 1..(MaxResidents + 1)
             /\ \A r \in ResidentId : residents'[r] # NONE <=> r < nextResident'
  <2> DEFINE row == [active |-> TRUE, offset |-> x, token |-> FALSE]
  <2>1. row \in Resident
    BY DEF Resident
  <2>2. /\ nextResident \in 1..MaxResidents /\ nextResident' = nextResident + 1
        /\ residents' = [residents EXCEPT ![nextResident] = row]
    BY <1>2 DEF Register, ResidentId
  <2> HIDE DEF row
  <2>3. residents' \in [ResidentId -> OrNone(Resident)]
    BY <1>1, <2>1, <2>2 DEF OrNone
  <2>4. \A r \in ResidentId : residents'[r] = IF r = nextResident THEN row ELSE residents[r]
    BY <1>1, <2>2
  <2>5. MaxResidents \in Nat /\ ResidentId \subseteq Nat
    BY BoundsAssumption DEF ResidentId
  <2>6. nextResident' \in 1..(MaxResidents + 1)
    BY <2>2, <2>5
  <2>7. \A r \in ResidentId : residents'[r] # NONE <=> r < nextResident'
    BY <1>1, <2>1, <2>2, <2>4, <2>5
  <2> QED
    BY <2>3, <2>6, <2>7
<1>3. ASSUME IssueToken(h) \/ Deactivate(h)
      PROVE  /\ residents' \in [ResidentId -> OrNone(Resident)]
             /\ nextResident' = nextResident
             /\ \A r \in ResidentId : residents'[r] # NONE <=> residents[r] # NONE
  <2> DEFINE k == request[h].resident
  <2>1. k \in ResidentId /\ residents[k] # NONE
    BY <1>1, <1>3 DEF IssueToken, Deactivate, RequestOk, Exists
  <2>2. residents[k] \in Resident
    BY <1>1, <2>1 DEF OrNone
  <2>3. /\ [residents[k] EXCEPT !.active = FALSE] \in Resident
        /\ [residents[k] EXCEPT !.token = TRUE] \in Resident
    BY <2>2 DEF Resident
  <2>4. PICK row \in Resident : residents' = [residents EXCEPT ![k] = row]
    BY <1>3, <2>3 DEF IssueToken, Deactivate
  <2>5. nextResident' = nextResident
    BY <1>3 DEF IssueToken, Deactivate
  <2> HIDE DEF k
  <2> QED
    BY <1>1, <2>1, <2>4, <2>5 DEF OrNone
<1>4. ASSUME ~(IssueToken(h) \/ Deactivate(h)),
             ~(\E d \in Devices, x \in Homes : Register(h, d, x))
      PROVE  residents' = residents /\ nextResident' = nextResident
  BY <1>4, Zenon DEF Serve, Unregister, FindSubscription, SaveSubscription, Silence,
     RequestFault, people
<1> QED
  BY <1>1, <1>2, <1>3, <1>4

LEMMA ServeDevices ==
  ASSUME RefInv, NEW h \in Requests, Serve(h)
  PROVE  /\ subs' \in [Devices -> OrNone(Subscription)]
         /\ holds' \in [Devices -> OrNone(ResidentId)]
         /\ \A d \in Devices : holds'[d] # NONE =>
              holds'[d] \in ResidentId /\ residents'[holds'[d]] # NONE
<1> USE NoneIsNoRow
<1>1. /\ subs \in [Devices -> OrNone(Subscription)]
      /\ holds \in [Devices -> OrNone(ResidentId)]
      /\ \A d \in Devices : holds[d] # NONE => Exists(holds[d])
      /\ RequestOk(h)
      /\ \A r \in ResidentId : residents[r] # NONE => residents'[r] # NONE
  BY NothingGoesAway DEF RefInv, TypeOK, RowsInv, Next, Stays
<1>2. \A d \in Devices : holds[d] # NONE =>
        holds[d] \in ResidentId /\ residents'[holds[d]] # NONE
  BY <1>1 DEF Exists
<1>3. CASE SaveSubscription(h)
  <2> DEFINE d == request[h].device
             r == request[h].resident
  <2>1. d \in Devices /\ r \in ResidentId /\ residents'[r] # NONE
    BY <1>1, <1>3 DEF SaveSubscription, RequestOk, Exists
  <2>2. Upsert(d, r) \in Subscription
    BY <2>1 DEF Upsert, Subscription
  <2>3. /\ subs' = subs \/ subs' = [subs EXCEPT ![d] = Upsert(d, r)]
        /\ holds' = holds \/ holds' = [holds EXCEPT ![d] = r]
    BY <1>3 DEF SaveSubscription
  <2> HIDE DEF d, r
  <2> QED
    BY <1>1, <1>2, <2>1, <2>2, <2>3 DEF OrNone
<1>4. CASE Silence(h)
  <2> DEFINE d == request[h].device
  <2>1. d \in Devices /\ holds' = [holds EXCEPT ![d] = NONE]
    BY <1>1, <1>4 DEF Silence, RequestOk
  <2>2. \A c \in Devices : subs[c] # NONE => [subs[c] EXCEPT !.active = FALSE] \in Subscription
    BY <1>1 DEF OrNone, Subscription
  <2>3. subs' \in [Devices -> OrNone(Subscription)]
    BY <1>1, <1>4, <2>2 DEF Silence, OrNone
  <2> HIDE DEF d
  <2> QED
    BY <1>1, <1>2, <2>1, <2>3 DEF OrNone
<1>5. CASE ~(SaveSubscription(h) \/ Silence(h))
  <2>1. subs' = subs /\ holds' = holds
    BY <1>5, Zenon DEF Serve, Register, Unregister, IssueToken, FindSubscription, Deactivate,
       RequestFault
  <2> QED
    BY <1>1, <1>2, <2>1
<1> QED
  BY <1>3, <1>4, <1>5

LEMMA ServeRef ==
  ASSUME RefInv, NEW h \in Requests, Serve(h) PROVE RefInv'
<1>1. /\ day' = day /\ log' = log /\ gone' = gone /\ evaluation' = evaluation
      /\ fixes' = fixes /\ alerts' = alerts /\ upsets' \in Nat
  <2>1. upsets \in Nat
    BY DEF RefInv, TypeOK
  <2>2. CASE \E d \in Devices, x \in Homes : Register(h, d, x)
    BY <2>1, <2>2 DEF Register, history
  <2>3. CASE \E d \in Devices : Unregister(h, d)
    BY <2>1, <2>3 DEF Unregister, history
  <2>4. CASE IssueToken(h) \/ FindSubscription(h) \/ Deactivate(h)
    BY <2>1, <2>4 DEF IssueToken, FindSubscription, Deactivate, history
  <2>5. CASE SaveSubscription(h) \/ Silence(h)
    BY <2>1, <2>5 DEF SaveSubscription, Silence, history
  <2>6. CASE RequestFault(h)
    BY <2>1, <2>6 DEF RequestFault, Upset, history
  <2> QED
    BY <2>2, <2>3, <2>4, <2>5, <2>6 DEF Serve
<1>2. SlotServed(h) /\ Stays
  BY RequestSlot, NothingGoesAway DEF Next
<1>3. TypeOK'
  BY <1>1, <1>2, ServeRows, ServeDevices DEF SlotServed, RefInv, TypeOK
<1>4. RowsInv'
  BY ServeRows, ServeDevices DEF RowsInv, Exists
<1>5. \A g \in Requests : RequestOk(g)'
  BY <1>2, OtherRequests DEF SlotServed
<1>6. \A e \in Evaluations : EvaluationOk(e)'
  BY <1>1, <1>2, OtherEvaluations
<1> QED
  BY <1>3, <1>4, <1>5, <1>6 DEF RefInv

-----------------------------------------------------------------------------
(* Evaluations                                                             *)

SlotMoved(e) ==
  /\ evaluation' \in [Evaluations -> Evaluation]
  /\ \A f \in Evaluations \ {e} : evaluation'[f] = evaluation[f]
  /\ EvaluationOk(e)'

LEMMA SkipMoves ==
  ASSUME RefInv, NEW e \in Evaluations,
         NEW todo \in [ResidentId -> OrNone(Stages)], Skip(e, todo)
  PROVE  SlotMoved(e)
BY SkipFrame DEF RefInv, SlotMoved, EvaluationOk

LEMMA EvaluationSlot ==
  ASSUME RefInv, NEW e \in Evaluations, Evaluate(e) PROVE SlotMoved(e)
<1> USE NoneIsNoRow
<1> DEFINE v == evaluation[e]
<1>1. TypeOK /\ v \in Evaluation /\ EvaluationOk(e) /\ v.todo \in [ResidentId -> OrNone(Stages)]
  BY DEF RefInv, TypeOK, Evaluation
<1>2. CASE \E p \in Progress : FindCandidates(e, p)
  <2>1. PICK p \in Progress : FindCandidates(e, p)
    BY <1>2
  <2>2. [r \in ResidentId |-> Due(r, p)] \in [ResidentId -> OrNone(Stages)]
    BY DueType
  <2> QED
    BY <2>1, <2>2, SkipMoves DEF FindCandidates
<1>3. ASSUME NEW r \in ResidentId, FindLog(e, r) PROVE SlotMoved(e)
  <2> DEFINE rest == [v.todo EXCEPT ![r] = NONE]
             rec == [v EXCEPT !.at = "subs", !.todo = rest, !.resident = r,
                              !.stage = v.todo[r], !.day = day]
  <2>1. rest \in [ResidentId -> OrNone(Stages)]
    BY <1>1 DEF OrNone
  <2>2. Skip(e, rest) \/ Goto(e, rec)
    BY <1>3 DEF FindLog
  <2>3. v.todo[r] \in Stages /\ day \in Days
    BY <1>1, <1>3 DEF FindLog, OrNone, TypeOK
  <2>4. rec \in Evaluation /\ rec.at = "subs" /\ rec.resident = r /\ rec.stage \in Stages
    BY <1>1, <2>1, <2>3 DEF Evaluation, OrNone
  <2> HIDE DEF rest, rec
  <2>5. CASE Goto(e, rec)
    BY <1>1, <2>4, <2>5, GotoFrame DEF SlotMoved, EvaluationOk
  <2> QED
    BY <2>1, <2>2, <2>5, SkipMoves
<1>4. CASE FindSubscriptions(e)
  <2> DEFINE found == ActiveSubscriptions(v.resident)
             rec == [v EXCEPT !.at = "push", !.targets = found]
  <2>1. Skip(e, v.todo) \/ Goto(e, rec)
    BY <1>4 DEF FindSubscriptions
  <2>2. found \subseteq Devices /\ (\A d \in found : subs[d] # NONE) /\ subs' = subs
    BY <1>4 DEF ActiveSubscriptions, FindSubscriptions
  <2>3. v.resident \in ResidentId /\ v.stage \in Stages
    BY <1>1, <1>4 DEF FindSubscriptions, EvaluationOk
  <2>4. /\ rec \in Evaluation /\ rec.at = "push" /\ rec.targets = found
        /\ rec.resident = v.resident /\ rec.stage = v.stage
    BY <1>1, <2>2 DEF Evaluation
  <2> HIDE DEF found, rec, v
  <2>5. CASE Goto(e, rec)
    BY <1>1, <2>2, <2>3, <2>4, <2>5, GotoFrame DEF SlotMoved, EvaluationOk
  <2> QED
    BY <1>1, <2>1, <2>5, SkipMoves
<1>5. CASE Push(e)
  <2>1. PICK reached \in SUBSET (v.targets \ gone) :
          Goto(e, [v EXCEPT !.at = IF Dead(v.targets, reached) = {} THEN "save" ELSE "prune",
                            !.targets = Dead(v.targets, reached), !.sent = reached # {}])
    BY <1>5, Zenon DEF Push
  <2> DEFINE dead == Dead(v.targets, reached)
             rec == [v EXCEPT !.at = IF dead = {} THEN "save" ELSE "prune",
                              !.targets = dead, !.sent = reached # {}]
  <2>2. dead \subseteq v.targets /\ dead \subseteq gone /\ dead \subseteq Devices
    BY <1>1 DEF Dead, Evaluation
  <2>3. /\ v.resident \in ResidentId /\ v.stage \in Stages
        /\ \A d \in v.targets : subs[d] # NONE
        /\ subs' = subs /\ gone' = gone
    BY <1>1, <1>5 DEF Push, EvaluationOk
  <2>4. /\ rec \in Evaluation /\ rec.at \in {"save", "prune"} /\ rec.targets = dead
        /\ rec.resident = v.resident /\ rec.stage = v.stage
    BY <1>1, <2>2, Zenon DEF Evaluation
  <2>5. Goto(e, rec)
    BY <2>1
  <2> HIDE DEF dead, rec, v
  <2> QED
    BY <1>1, <2>2, <2>3, <2>4, <2>5, GotoFrame DEF SlotMoved, EvaluationOk
<1>6. CASE Prune(e)
  <2> DEFINE rec == [v EXCEPT !.at = "save", !.targets = {}]
  <2>1. v.resident \in ResidentId /\ v.stage \in Stages /\ Goto(e, rec)
    BY <1>1, <1>6 DEF Prune, EvaluationOk
  <2>2. rec \in Evaluation /\ rec.at = "save" /\ rec.resident = v.resident /\ rec.stage = v.stage
    BY <1>1 DEF Evaluation
  <2> HIDE DEF rec, v
  <2> QED
    BY <1>1, <2>1, <2>2, GotoFrame DEF SlotMoved, EvaluationOk
<1>7. CASE SaveLog(e)
  BY <1>1, <1>7, SkipMoves DEF SaveLog
<1>8. CASE AlertFault(e)
  <2>1. Goto(e, NoEvaluation) /\ NoEvaluation \in Evaluation /\ NoEvaluation.at = "idle"
    BY <1>8, Resting DEF AlertFault, NoEvaluation
  <2> QED
    BY <1>1, <2>1, GotoFrame DEF SlotMoved, EvaluationOk
<1> QED
  BY <1>2, <1>3, <1>4, <1>5, <1>6, <1>7, <1>8 DEF Evaluate, Deliver

LEMMA EvaluateRef ==
  ASSUME RefInv, NEW e \in Evaluations, Evaluate(e) PROVE RefInv'
<1> USE NoneIsNoRow
<1> DEFINE v == evaluation[e]
<1>1. /\ TypeOK /\ v \in Evaluation /\ EvaluationOk(e)
      /\ SlotMoved(e) /\ Stays
  BY EvaluationSlot, NothingGoesAway DEF RefInv, TypeOK, Next
<1>2. /\ day' = day /\ residents' = residents /\ nextResident' = nextResident
      /\ gone' = gone /\ holds' = holds /\ request' = request
  <2>1. CASE \E p \in Progress : FindCandidates(e, p)
    BY <2>1 DEF FindCandidates, people
  <2>2. CASE \E r \in ResidentId : FindLog(e, r)
    BY <2>2 DEF FindLog, people
  <2>3. CASE FindSubscriptions(e) \/ Push(e) \/ Prune(e) \/ SaveLog(e) \/ AlertFault(e)
    BY <2>3, Zenon DEF FindSubscriptions, Push, Prune, SaveLog, AlertFault, people
  <2> QED
    BY <2>1, <2>2, <2>3 DEF Evaluate, Deliver
<1>3. subs' \in [Devices -> OrNone(Subscription)]
  <2>1. CASE Prune(e)
    <3>1. \A d \in Devices : subs[d] # NONE => [subs[d] EXCEPT !.active = FALSE] \in Subscription
      BY <1>1 DEF TypeOK, OrNone, Subscription
    <3>2. \A d \in v.targets : subs[d] # NONE
      BY <1>1, <2>1 DEF Prune, EvaluationOk
    <3> QED
      BY <1>1, <2>1, <3>1, <3>2 DEF Prune, TypeOK, OrNone
  <2>2. CASE ~Prune(e)
    <3>1. subs' = subs
      BY <2>2, Zenon DEF Evaluate, Deliver, FindCandidates, FindLog, FindSubscriptions, Push,
         SaveLog, AlertFault
    <3> QED
      BY <1>1, <3>1 DEF TypeOK
  <2> QED
    BY <2>1, <2>2
<1>4. log' \subseteq Alert \X {"sent", "failed"} /\ alerts' \in [Alert -> Nat]
  <2>1. v.at \in {"push", "save"} => Key(e) \in Alert
    BY <1>1 DEF Key, Alert, EvaluationOk, Evaluation
  <2>2. CASE SaveLog(e)
    <3>1. Status(e) \in {"sent", "failed"}
      BY DEF Status
    <3> QED
      BY <1>1, <2>1, <2>2, <3>1 DEF SaveLog, history, TypeOK
  <2>3. CASE Push(e)
    BY <1>1, <2>1, <2>3 DEF Push, TypeOK
  <2>4. CASE ~(SaveLog(e) \/ Push(e))
    <3>1. log' = log /\ alerts' = alerts
      BY <2>4, Zenon DEF Evaluate, Deliver, FindCandidates, FindLog, FindSubscriptions, Prune,
         AlertFault, history
    <3> QED
      BY <1>1, <3>1 DEF TypeOK
  <2> QED
    BY <2>2, <2>3, <2>4
<1>5. fixes' \in 0..MaxFixes /\ upsets' \in Nat
  <2>1. fixes \in 0..MaxFixes /\ MaxFixes \in Nat /\ upsets \in Nat
    BY <1>1, BoundsAssumption DEF TypeOK
  <2>2. CASE \E p \in Progress : FindCandidates(e, p)
    BY <2>1, <2>2 DEF FindCandidates
  <2>3. CASE \E r \in ResidentId : FindLog(e, r)
    BY <2>1, <2>3 DEF FindLog, history
  <2>4. CASE FindSubscriptions(e) \/ Prune(e) \/ SaveLog(e)
    BY <2>1, <2>4 DEF FindSubscriptions, Prune, SaveLog, history
  <2>5. CASE Push(e)
    <3>1. fixes' = fixes /\ (upsets' = upsets \/ upsets' = upsets + 1)
      BY <2>5 DEF Push, Upset
    <3> QED
      BY <2>1, <3>1
  <2>6. CASE AlertFault(e)
    BY <2>1, <2>6 DEF AlertFault, Upset, history
  <2> QED
    BY <2>2, <2>3, <2>4, <2>5, <2>6 DEF Evaluate, Deliver
<1>6. TypeOK'
  BY <1>1, <1>2, <1>3, <1>4, <1>5 DEF TypeOK, SlotMoved
<1>7. RowsInv'
  BY <1>2 DEF RefInv, RowsInv, Exists
<1>8. \A h \in Requests : RequestOk(h)'
  BY <1>1, <1>2, OtherRequests
<1>9. \A f \in Evaluations : EvaluationOk(f)'
  BY <1>1, OtherEvaluations DEF SlotMoved
<1> QED
  BY <1>6, <1>7, <1>8, <1>9 DEF RefInv

-----------------------------------------------------------------------------
(* Everything else, and the invariant                                      *)

LEMMA InitRef == Init => RefInv
<1> SUFFICES ASSUME Init PROVE RefInv
  OBVIOUS
<1> USE NoneIsNoRow
<1>1. 0 \in Days /\ 1 \in 1..(MaxResidents + 1) /\ 0 \in 0..MaxFixes
      /\ \A r \in ResidentId : ~(r < 1)
  BY BoundsAssumption DEF Days, ResidentId
<1>2. TypeOK
  BY <1>1, Resting DEF Init, TypeOK, OrNone
<1>3. RowsInv
  BY <1>1 DEF Init, RowsInv
<1>4. \A h \in Requests : RequestOk(h)
  BY DEF Init, RequestOk, NoRequest
<1>5. \A e \in Evaluations : EvaluationOk(e)
  BY DEF Init, EvaluationOk, NoEvaluation
<1> QED
  BY <1>2, <1>3, <1>4, <1>5 DEF RefInv

LEMMA NextRef == RefInv /\ [Next]_vars => RefInv'
<1> SUFFICES ASSUME RefInv, [Next]_vars PROVE RefInv'
  OBVIOUS
<1> USE NoneIsNoRow
<1>1. TypeOK /\ RowsInv /\ Stays
  BY NothingGoesAway DEF RefInv
<1>2. ASSUME NEW d \in Devices, Revoke(d) PROVE RefInv'
  <2>1. /\ day' = day /\ residents' = residents /\ nextResident' = nextResident
        /\ subs' = subs /\ log' = log /\ holds' = holds /\ request' = request
        /\ evaluation' = evaluation /\ fixes' = fixes /\ alerts' = alerts /\ upsets' = upsets
        /\ gone' = gone \cup {d}
    BY <1>2 DEF Revoke, people, history
  <2> QED
    BY <1>1, <2>1, OtherRequests, OtherEvaluations DEF RefInv, TypeOK, RowsInv, Exists
<1>3. ASSUME NEW r \in ResidentId, DeactivateById(r) PROVE RefInv'
  <2>1. /\ day' = day /\ nextResident' = nextResident /\ gone' = gone
        /\ subs' = subs /\ log' = log /\ holds' = holds /\ request' = request
        /\ evaluation' = evaluation /\ fixes' = fixes /\ alerts' = alerts /\ upsets' = upsets
    BY <1>3 DEF DeactivateById, history
  <2>2. residents[r] \in Resident
    BY <1>1, <1>3 DEF DeactivateById, TypeOK, OrNone
  <2>3. [residents[r] EXCEPT !.active = FALSE] \in Resident
    BY <2>2 DEF Resident
  <2>4. /\ residents' \in [ResidentId -> OrNone(Resident)]
        /\ \A k \in ResidentId : residents'[k] # NONE <=> residents[k] # NONE
    BY <1>1, <1>3, <2>2, <2>3 DEF DeactivateById, TypeOK, OrNone
  <2>5. TypeOK' /\ RowsInv'
    BY <1>1, <2>1, <2>4 DEF TypeOK, RowsInv, Exists
  <2> QED
    BY <1>1, <2>1, <2>5, OtherRequests, OtherEvaluations DEF RefInv
<1>4. CASE Midnight
  <2>1. /\ residents' = residents /\ nextResident' = nextResident /\ gone' = gone
        /\ subs' = subs /\ log' = log /\ holds' = holds /\ request' = request
        /\ evaluation' = evaluation /\ fixes' = fixes /\ alerts' = alerts /\ upsets' = upsets
    BY <1>4 DEF Midnight, people, history
  <2>2. day' \in Days
    BY <1>1, <1>4, BoundsAssumption DEF Midnight, TypeOK, Days
  <2>3. TypeOK' /\ RowsInv'
    BY <1>1, <2>1, <2>2 DEF TypeOK, RowsInv, Exists
  <2> QED
    BY <1>1, <2>1, <2>3, OtherRequests, OtherEvaluations DEF RefInv
<1>5. CASE Restart
  <2>1. /\ day' = day /\ residents' = residents /\ nextResident' = nextResident /\ gone' = gone
        /\ subs' = subs /\ log' = log /\ holds' = holds
        /\ fixes' = fixes /\ alerts' = alerts /\ upsets' = upsets + 1
        /\ request' = [h \in Requests |-> NoRequest]
        /\ evaluation' = [e \in Evaluations |-> NoEvaluation]
    BY <1>5 DEF Restart, Upset, people, history
  <2>2. TypeOK' /\ RowsInv'
    BY <1>1, <2>1, Resting DEF TypeOK, RowsInv, Exists
  <2>3. \A h \in Requests : RequestOk(h)'
    BY <2>1 DEF RequestOk, NoRequest
  <2>4. \A e \in Evaluations : EvaluationOk(e)'
    BY <2>1 DEF EvaluationOk, NoEvaluation
  <2> QED
    BY <2>2, <2>3, <2>4 DEF RefInv
<1>6. CASE UNCHANGED vars
  BY <1>6 DEF vars, people, history, RefInv, TypeOK, RowsInv, RequestOk, EvaluationOk, Exists
<1> QED
  BY <1>2, <1>3, <1>4, <1>5, <1>6, ServeRef, EvaluateRef DEF Next

(* Types, and that what requests, fixes and devices refer to is there: the *)
(* resident of a request, the subscriptions that are pushed to or pruned.  *)
THEOREM References == Spec => []RefInv
BY InitRef, NextRef, PTL DEF Spec

(* Type correctness, for any number of devices, residents and fixes.       *)
THEOREM TypesKept == Spec => []TypeOK
<1>1. RefInv => TypeOK
  BY DEF RefInv
<1> QED
  BY <1>1, References, PTL

-----------------------------------------------------------------------------
(* Whose subscription it is.  A device that has a token has the            *)
(* subscription of that resident, one that has none has no active          *)
(* subscription, and no two devices have the same resident.  This needs    *)
(* that a request's resident is nobody else's until its last step, and     *)
(* that a device's requests do not overlap.                                *)

Registering == {"token", "find", "save"}

OwnRequest(h) ==
  /\ request[h].at \in Registering => \A d \in Devices : holds[d] # request[h].resident
  /\ request[h].at \in {"find", "save"} => residents[request[h].resident].token
  /\ request[h].at = "save" => request[h].found = (subs[request[h].device] # NONE)
  /\ request[h].at \in {"deactivate", "silence"} =>
       holds[request[h].device] = request[h].resident
  /\ request[h].at = "silence" => ~residents[request[h].resident].active

Apart(g, h) ==
  request[g].at # "idle" /\ request[h].at # "idle" =>
    /\ request[g].device # request[h].device
    /\ request[g].at \in Registering /\ request[h].at \in Registering =>
         request[g].resident # request[h].resident

OwnDevice(d) ==
  /\ holds[d] # NONE => /\ residents[holds[d]].token
                        /\ subs[d] # NONE /\ subs[d].owner = holds[d]
                        /\ residents[holds[d]].active /\ d \notin gone => subs[d].active
  /\ holds[d] = NONE /\ subs[d] # NONE => ~subs[d].active
  /\ \A c \in Devices \ {d} : holds[d] # NONE => holds[c] # holds[d]

Own ==
  /\ \A h \in Requests : OwnRequest(h)
  /\ \A g, h \in Requests : g # h => Apart(g, h)
  /\ \A d \in Devices : OwnDevice(d)

LEMMA OwnImplies == RefInv /\ Own => RegisteredIsReachable /\ WhoIsAlertedCanLeave
<1> SUFFICES ASSUME RefInv, Own PROVE RegisteredIsReachable /\ WhoIsAlertedCanLeave
  OBVIOUS
<1>1. \A d \in Devices : OwnDevice(d) /\ (subs[d] # NONE => subs[d] \in Subscription)
  BY NoneIsNoRow, Zenon DEF Own, RefInv, TypeOK, OrNone
<1>2. RegisteredIsReachable
  BY <1>1 DEF RegisteredIsReachable, OwnDevice, Subscription
<1>3. WhoIsAlertedCanLeave
  BY <1>1 DEF WhoIsAlertedCanLeave, OwnDevice
<1> QED
  BY <1>2, <1>3

(* Steps that change neither requests nor devices' registrations. *)
LEMMA OwnFrame ==
  ASSUME RefInv, Own, request' = request, holds' = holds, gone \subseteq gone',
         \A r \in ResidentId : residents[r] # NONE =>
           /\ residents'[r].token = residents[r].token
           /\ residents'[r].active => residents[r].active,
         \A d \in Devices :
           /\ subs'[d] # NONE <=> subs[d] # NONE
           /\ subs[d] # NONE => /\ subs'[d].owner = subs[d].owner
                                /\ subs'[d].active => subs[d].active
                                /\ d \notin gone => subs'[d].active = subs[d].active
  PROVE  Own'
<1> USE NoneIsNoRow
<1>1. ASSUME NEW h \in Requests PROVE OwnRequest(h)'
  <2>1. RequestOk(h) /\ OwnRequest(h)
    BY DEF RefInv, Own
  <2> QED
    BY <2>1 DEF RequestOk, OwnRequest, Exists, Registering
<1>2. \A g, h \in Requests : g # h => Apart(g, h)'
  BY DEF Own, Apart
<1>3. ASSUME NEW d \in Devices PROVE OwnDevice(d)'
  <2>1. OwnDevice(d) /\ (holds[d] # NONE => Exists(holds[d]))
    BY DEF RefInv, RowsInv, Own
  <2> QED
    BY <2>1 DEF OwnDevice, Exists
<1> QED
  BY <1>1, <1>2, <1>3 DEF Own

(* A request that goes on or ends is as far from the others as it was. *)
LEMMA ApartStays ==
  ASSUME RefInv, Own, NEW h \in Requests,
         \A g \in Requests \ {h} : request'[g] = request[g],
         \/ request'[h].at = "idle"
         \/ /\ request[h].at # "idle"
            /\ request'[h].device = request[h].device
            /\ request'[h].resident = request[h].resident
            /\ request'[h].at \in Registering => request[h].at \in Registering
  PROVE  \A f, g \in Requests : f # g => Apart(f, g)'
BY DEF Own, Apart

(* The step of one request, if devices are patient.  The other requests    *)
(* are of other devices and other new residents.                           *)
LEMMA ServeOwn ==
  ASSUME Patient, RefInv, Own, NEW h \in Requests, Serve(h) PROVE Own'
<1> USE NoneIsNoRow
<1> DEFINE q == request[h]
<1>1. /\ TypeOK /\ RowsInv /\ q \in Request /\ RequestOk(h) /\ OwnRequest(h)
      /\ \A g \in Requests : RequestOk(g) /\ OwnRequest(g)
      /\ \A f, g \in Requests : f # g => Apart(f, g)
      /\ \A d \in Devices : OwnDevice(d)
      /\ residents \in [ResidentId -> OrNone(Resident)]
      /\ subs \in [Devices -> OrNone(Subscription)]
      /\ holds \in [Devices -> OrNone(ResidentId)]
      /\ request \in [Requests -> Request]
  BY DEF RefInv, TypeOK, Own
<1>2. /\ \A g \in Requests \ {h} : request'[g] = request[g]
      /\ \A d \in Devices : holds[d] # NONE =>
           holds[d] \in ResidentId /\ residents[holds[d]] # NONE
      /\ \A g \in Requests : request[g].at # "idle" =>
           /\ request[g].device \in Devices
           /\ request[g].resident \in ResidentId /\ residents[request[g].resident] # NONE
  BY <1>1, RequestSlot DEF SlotServed, RowsInv, RequestOk, Exists
<1>3. CASE FindSubscription(h)
  <2> DEFINE rec == [q EXCEPT !.at = "save", !.found = subs[q.device] # NONE]
  <2>1. /\ q.at = "find" /\ request' = [request EXCEPT ![h] = rec]
        /\ residents' = residents /\ subs' = subs /\ holds' = holds /\ gone' = gone
    BY <1>3 DEF FindSubscription, Answer, people
  <2>2. /\ request'[h] = rec /\ rec.at = "save" /\ rec.found = (subs[q.device] # NONE)
        /\ rec.device = q.device /\ rec.resident = q.resident
    BY <1>1, <2>1 DEF Request
  <2> HIDE DEF rec
  <2>3. OwnRequest(h)'
    BY <1>1, <2>1, <2>2 DEF OwnRequest, Registering
  <2>4. \A g \in Requests \ {h} : OwnRequest(g)'
    BY <1>1, <1>2, <2>1 DEF OwnRequest
  <2>5. \A f, g \in Requests : f # g => Apart(f, g)'
    BY <1>2, <2>1, <2>2, ApartStays DEF Registering
  <2>6. \A d \in Devices : OwnDevice(d)'
    BY <1>1, <2>1 DEF OwnDevice
  <2> QED
    BY <2>3, <2>4, <2>5, <2>6 DEF Own
<1>4. CASE RequestFault(h)
  <2>1. /\ request' = [request EXCEPT ![h] = NoRequest]
        /\ residents' = residents /\ subs' = subs /\ holds' = holds /\ gone' = gone
    BY <1>4 DEF RequestFault, Answer, people
  <2>2. request'[h].at = "idle"
    BY <1>1, <2>1 DEF NoRequest
  <2>3. \A g \in Requests : OwnRequest(g)'
    BY <1>1, <1>2, <2>1, <2>2 DEF OwnRequest, Registering
  <2>4. \A d \in Devices : OwnDevice(d)'
    BY <1>1, <2>1 DEF OwnDevice
  <2> QED
    BY <1>2, <2>2, <2>3, <2>4, ApartStays DEF Own
<1>5. ASSUME NEW d \in Devices, NEW x \in Homes, Register(h, d, x) PROVE Own'
  <2> DEFINE n == nextResident
             row == [active |-> TRUE, offset |-> x, token |-> FALSE]
             rec == [NoRequest EXCEPT !.at = "token", !.device = d, !.resident = n]
  <2>1. /\ n \in ResidentId /\ residents' = [residents EXCEPT ![n] = row]
        /\ request' = [request EXCEPT ![h] = rec]
        /\ subs' = subs /\ holds' = holds /\ gone' = gone
        /\ \A g \in Requests : request[g].device # d
    BY <1>5 DEF Register, Answer, Asks
  <2>2. request'[h] = rec /\ rec.at = "token" /\ rec.device = d /\ rec.resident = n
    BY <1>1, <2>1 DEF NoRequest
  <2>3. residents[n] = NONE /\ \A r \in ResidentId \ {n} : residents'[r] = residents[r]
    <3>1. ~(n < n)
      BY <1>1, BoundsAssumption DEF TypeOK
    <3> QED
      BY <1>1, <2>1, <3>1 DEF RowsInv
  <2> HIDE DEF rec, row, n
  <2>4. OwnRequest(h)'
    BY <1>1, <1>2, <2>1, <2>2, <2>3 DEF OwnRequest, Registering
  <2>5. ASSUME NEW g \in Requests \ {h} PROVE OwnRequest(g)' /\ Apart(g, h)' /\ Apart(h, g)'
    BY <1>1, <1>2, <2>1, <2>2, <2>3 DEF OwnRequest, Apart, Registering
  <2>6. \A f, g \in Requests : f # g => Apart(f, g)'
    BY <1>1, <1>2, <2>5 DEF Apart
  <2>7. \A c \in Devices : OwnDevice(c)'
    BY <1>1, <1>2, <2>1, <2>3 DEF OwnDevice
  <2> QED
    BY <2>4, <2>5, <2>6, <2>7 DEF Own
<1>6. ASSUME NEW d \in Devices, Unregister(h, d) PROVE Own'
  <2> DEFINE rec == [NoRequest EXCEPT !.at = "deactivate", !.device = d, !.resident = holds[d]]
  <2>1. /\ holds[d] # NONE /\ request' = [request EXCEPT ![h] = rec]
        /\ residents' = residents /\ subs' = subs /\ holds' = holds /\ gone' = gone
        /\ \A g \in Requests : request[g].device # d
    BY <1>6 DEF Unregister, Answer, Asks, people
  <2>2. request'[h] = rec /\ rec.at = "deactivate" /\ rec.device = d /\ rec.resident = holds[d]
    BY <1>1, <2>1 DEF NoRequest
  <2> HIDE DEF rec
  <2>3. OwnRequest(h)'
    BY <2>1, <2>2 DEF OwnRequest, Registering
  <2>4. ASSUME NEW g \in Requests \ {h} PROVE OwnRequest(g)' /\ Apart(g, h)' /\ Apart(h, g)'
    BY <1>1, <1>2, <2>1, <2>2 DEF OwnRequest, Apart, Registering
  <2>5. \A f, g \in Requests : f # g => Apart(f, g)'
    BY <1>1, <1>2, <2>4 DEF Apart
  <2>6. \A c \in Devices : OwnDevice(c)'
    BY <1>1, <2>1 DEF OwnDevice
  <2> QED
    BY <2>3, <2>4, <2>5, <2>6 DEF Own
<1>7. CASE IssueToken(h) \/ Deactivate(h)
  <2> DEFINE r == q.resident
  <2>1. /\ subs' = subs /\ holds' = holds /\ gone' = gone
        /\ \/ /\ q.at = "token"
              /\ residents' = [residents EXCEPT ![r] = [residents[r] EXCEPT !.token = TRUE]]
              /\ request' = [request EXCEPT ![h] = [q EXCEPT !.at = "find"]]
           \/ /\ q.at = "deactivate"
              /\ residents' = [residents EXCEPT ![r] = [residents[r] EXCEPT !.active = FALSE]]
              /\ request' = [request EXCEPT ![h] = [q EXCEPT !.at = "silence"]]
    BY <1>7 DEF IssueToken, Deactivate, Answer
  <2>2. r \in ResidentId /\ residents[r] \in Resident
    BY <1>1, <1>2, <2>1 DEF OrNone
  <2>3. /\ request'[h].device = q.device /\ request'[h].resident = r
        /\ \/ /\ q.at = "token" /\ request'[h].at = "find"
              /\ residents'[r].token /\ residents'[r].active = residents[r].active
           \/ /\ q.at = "deactivate" /\ request'[h].at = "silence"
              /\ ~residents'[r].active /\ residents'[r].token = residents[r].token
        /\ \A k \in ResidentId \ {r} : residents'[k] = residents[k]
    BY <1>1, <2>1, <2>2 DEF Request, Resident
  <2> HIDE DEF r
  <2>4. OwnRequest(h)'
    <3>1. CASE q.at = "token"
      <4>1. request'[h].at = "find" /\ request'[h].resident = r /\ residents'[r].token
        BY <2>3, <3>1
      <4>2. \A c \in Devices : holds'[c] # r
        BY <1>1, <2>1, <3>1 DEF OwnRequest, Registering, r
      <4> QED
        BY <4>1, <4>2 DEF OwnRequest
    <3>2. CASE q.at = "deactivate"
      <4>1. /\ request'[h].at = "silence" /\ request'[h].resident = r
            /\ request'[h].device = q.device /\ ~residents'[r].active
        BY <2>3, <3>2
      <4>2. holds'[q.device] = r
        BY <1>1, <2>1, <3>2 DEF OwnRequest, r
      <4> QED
        BY <4>1, <4>2 DEF OwnRequest, Registering
    <3> QED
      BY <2>1, <3>1, <3>2
  <2>5. ASSUME NEW g \in Requests \ {h} PROVE OwnRequest(g)'
    BY <1>1, <1>2, <2>1, <2>3 DEF OwnRequest, Registering
  <2>6. \A f, g \in Requests : f # g => Apart(f, g)'
    BY <1>2, <2>3, ApartStays DEF Registering, r
  <2>7. \A d \in Devices : OwnDevice(d)'
    BY <1>1, <1>2, <2>1, <2>3 DEF OwnDevice
  <2> QED
    BY <2>4, <2>5, <2>6, <2>7 DEF Own
<1>8. CASE SaveSubscription(h)
  <2> DEFINE d == q.device
             r == q.resident
  <2>1. /\ q.at = "save" /\ d \in Devices /\ r \in ResidentId
        /\ \A c \in Devices : holds[c] # r
        /\ residents[r].token /\ q.found = (subs[d] # NONE)
    BY <1>1, <1>2, <1>8 DEF SaveSubscription, OwnRequest, Registering
  <2>2. /\ subs' = [subs EXCEPT ![d] = [owner |-> r, active |-> TRUE]]
        /\ holds' = [holds EXCEPT ![d] = r]
        /\ request' = [request EXCEPT ![h] = NoRequest]
        /\ residents' = residents /\ gone' = gone
    BY <1>8, <2>1 DEF SaveSubscription, Upsert, Answer, people
  <2>3. /\ request'[h].at = "idle"
        /\ subs'[d] # NONE /\ subs'[d].owner = r /\ subs'[d].active /\ holds'[d] = r
        /\ \A c \in Devices \ {d} : subs'[c] = subs[c] /\ holds'[c] = holds[c]
    <3>1. [owner |-> r, active |-> TRUE] \in Subscription
      BY <2>1 DEF Subscription
    <3> HIDE DEF d, r
    <3> QED
      BY <1>1, <2>1, <2>2, <3>1 DEF NoRequest
  <2>4. ASSUME NEW g \in Requests \ {h} PROVE OwnRequest(g)'
    <3>1. /\ request[g].at # "idle" => request[g].device # d
          /\ request[g].at \in Registering => request[g].resident # r
      BY <1>1, <2>1 DEF Apart, Registering
    <3> HIDE DEF d, r
    <3> QED
      BY <1>1, <1>2, <2>2, <2>3, <3>1 DEF OwnRequest, Registering
  <2>5. OwnRequest(h)'
    BY <2>3 DEF OwnRequest, Registering
  <2>6. \A f, g \in Requests : f # g => Apart(f, g)'
    BY <1>2, <2>3, ApartStays
  <2> HIDE DEF d, r
  <2>7. ASSUME NEW c \in Devices PROVE OwnDevice(c)'
    BY <1>1, <2>1, <2>2, <2>3 DEF OwnDevice
  <2> QED
    BY <2>4, <2>5, <2>6, <2>7 DEF Own
<1>9. CASE Silence(h)
  <2> DEFINE d == q.device
             r == q.resident
  <2>1. /\ q.at = "silence" /\ d \in Devices /\ r \in ResidentId
        /\ holds[d] = r /\ ~residents[r].active
    BY <1>1, <1>2, <1>9 DEF Silence, OwnRequest
  <2>2. /\ subs' = [c \in Devices |->
             IF subs[c] # NONE /\ subs[c].owner = r THEN [subs[c] EXCEPT !.active = FALSE]
             ELSE subs[c]]
        /\ holds' = [holds EXCEPT ![d] = NONE]
        /\ request' = [request EXCEPT ![h] = NoRequest]
        /\ residents' = residents /\ gone' = gone
    BY <1>9 DEF Silence, Answer, people
  <2>3. /\ request'[h].at = "idle" /\ holds'[d] = NONE
        /\ \A c \in Devices \ {d} : holds'[c] = holds[c]
    BY <1>1, <2>1, <2>2 DEF NoRequest
  <2>4. ASSUME NEW c \in Devices
        PROVE  /\ subs'[c] # NONE <=> subs[c] # NONE
               /\ subs[c] # NONE /\ subs[c].owner = r => ~subs'[c].active
               /\ ~(subs[c] # NONE /\ subs[c].owner = r) => subs'[c] = subs[c]
    <3>1. subs[c] # NONE =>
            /\ [subs[c] EXCEPT !.active = FALSE] \in Subscription
            /\ ~[subs[c] EXCEPT !.active = FALSE].active
      BY <1>1 DEF OrNone, Subscription
    <3> QED
      BY <2>2, <3>1
  <2>5. ASSUME NEW g \in Requests \ {h} PROVE OwnRequest(g)'
    <3>1. request[g].at # "idle" => request[g].device # d
      BY <1>1, <2>1 DEF Apart
    <3> HIDE DEF d, r
    <3> QED
      BY <1>1, <1>2, <2>2, <2>3, <2>4, <3>1 DEF OwnRequest, Registering
  <2>6. OwnRequest(h)'
    BY <2>3 DEF OwnRequest, Registering
  <2>7. \A f, g \in Requests : f # g => Apart(f, g)'
    BY <1>2, <2>3, ApartStays
  <2> HIDE DEF d, r
  <2>8. ASSUME NEW c \in Devices PROVE OwnDevice(c)'
    <3>1. CASE c = d
      BY <1>1, <2>1, <2>3, <2>4, <3>1 DEF OwnDevice
    <3>2. CASE c # d /\ holds[c] # NONE
      <4>1. subs[c].owner = holds[c] /\ holds[c] # r
        BY <1>1, <2>1, <3>2 DEF OwnDevice
      <4>2. subs'[c] = subs[c] /\ holds'[c] = holds[c]
        BY <2>3, <2>4, <3>2, <4>1
      <4> QED
        BY <1>1, <2>2, <2>3, <3>2, <4>2 DEF OwnDevice
    <3>3. CASE c # d /\ holds[c] = NONE
      BY <1>1, <2>2, <2>3, <2>4, <3>3 DEF OwnDevice
    <3> QED
      BY <3>1, <3>2, <3>3
  <2> QED
    BY <2>5, <2>6, <2>7, <2>8 DEF Own
<1> QED
  BY <1>3, <1>4, <1>5, <1>6, <1>7, <1>8, <1>9 DEF Serve

(* The step of an evaluation: only subscriptions whose endpoint is gone are *)
(* pruned, and it changes nothing else of requests and devices.            *)
LEMMA EvaluateOwn == ASSUME RefInv, Own, NEW e \in Evaluations, Evaluate(e) PROVE Own'
<1> USE NoneIsNoRow
<1>1. /\ TypeOK /\ EvaluationOk(e)
      /\ subs \in [Devices -> OrNone(Subscription)]
  BY DEF RefInv, TypeOK
<1>2. CASE Prune(e)
  <2>1. /\ evaluation[e].at = "prune"
        /\ subs' = [d \in Devices |-> IF d \in evaluation[e].targets
                                      THEN [subs[d] EXCEPT !.active = FALSE] ELSE subs[d]]
        /\ request' = request /\ holds' = holds /\ gone' = gone /\ residents' = residents
    BY <1>2 DEF Prune, people
  <2>2. ASSUME NEW d \in Devices
        PROVE  /\ subs'[d] # NONE <=> subs[d] # NONE
               /\ subs[d] # NONE => /\ subs'[d].owner = subs[d].owner
                                    /\ subs'[d].active => subs[d].active
                                    /\ d \notin gone => subs'[d].active = subs[d].active
    <3>1. d \in evaluation[e].targets => subs[d] \in Subscription /\ d \in gone
      BY <1>1, <2>1 DEF EvaluationOk, OrNone
    <3>2. subs[d] \in Subscription =>
            /\ [subs[d] EXCEPT !.active = FALSE] \in Subscription
            /\ [subs[d] EXCEPT !.active = FALSE].owner = subs[d].owner
            /\ ~[subs[d] EXCEPT !.active = FALSE].active
      BY DEF Subscription
    <3> QED
      BY <2>1, <3>1, <3>2
  <2> QED
    BY <2>1, <2>2, OwnFrame
<1>3. CASE ~Prune(e)
  <2>1. /\ subs' = subs /\ request' = request /\ holds' = holds /\ gone' = gone
        /\ residents' = residents
    BY <1>3, Zenon DEF Evaluate, Deliver, FindCandidates, FindLog, FindSubscriptions, Push, SaveLog,
                AlertFault, people
  <2> QED
    BY <2>1, OwnFrame
<1> QED
  BY <1>2, <1>3

LEMMA InitOwn == Init => Own
BY DEF Init, Own, OwnRequest, Apart, OwnDevice, NoRequest, Registering

LEMMA NextOwn == ASSUME Patient, RefInv, Own, [Next]_vars PROVE Own'
<1> USE NoneIsNoRow
<1>1. ASSUME NEW d \in Devices, Revoke(d) PROVE Own'
  BY <1>1, OwnFrame DEF Revoke, people
<1>2. ASSUME NEW r \in ResidentId, DeactivateById(r) PROVE Own'
  <2>1. /\ request' = request /\ holds' = holds /\ gone' = gone /\ subs' = subs
        /\ residents[r] # NONE /\ residents[r].active
        /\ residents' = [residents EXCEPT ![r] = [residents[r] EXCEPT !.active = FALSE]]
    BY <1>2 DEF DeactivateById
  <2>2. residents[r] \in Resident /\ residents \in [ResidentId -> OrNone(Resident)]
    BY <2>1 DEF RefInv, TypeOK, OrNone
  <2>3. ASSUME NEW k \in ResidentId
        PROVE  /\ residents'[k].token = residents[k].token
               /\ residents'[k].active => residents[k].active
    BY <2>1, <2>2 DEF Resident
  <2> QED
    BY <2>1, <2>3, OwnFrame
<1>3. CASE Midnight
  BY <1>3, OwnFrame DEF Midnight, people
<1>4. CASE Restart
  <2>1. /\ request' = [h \in Requests |-> NoRequest]
        /\ residents' = residents /\ subs' = subs /\ holds' = holds /\ gone' = gone
    BY <1>4 DEF Restart, people
  <2>2. \A h \in Requests : request'[h].at = "idle"
    BY <2>1 DEF NoRequest
  <2>3. \A h \in Requests : OwnRequest(h)'
    BY <2>2 DEF OwnRequest, Registering
  <2>4. \A g, h \in Requests : Apart(g, h)'
    BY <2>2 DEF Apart
  <2>5. \A d \in Devices : OwnDevice(d)'
    BY <2>1 DEF Own, OwnDevice
  <2> QED
    BY <2>3, <2>4, <2>5 DEF Own
<1>5. CASE UNCHANGED vars
  BY <1>5, OwnFrame DEF vars, people
<1> QED
  BY <1>1, <1>2, <1>3, <1>4, <1>5, ServeOwn, EvaluateOwn DEF Next

(* If devices await their answers, a device that was told "registered"     *)
(* stays reachable, and whoever is alerted holds the token to leave,       *)
(* whatever requests, pushes, failures and restarts come in between, for   *)
(* any number of devices, requests, fixes and residents.                   *)
LEMMA OwnAlways == ASSUME Patient PROVE Spec => [](RefInv /\ Own)
<1>1. Init => RefInv /\ Own
  BY InitRef, InitOwn
<1>2. RefInv /\ Own /\ [Next]_vars => (RefInv /\ Own)'
  BY NextRef, NextOwn
<1> QED
  BY <1>1, <1>2, PTL DEF Spec

THEOREM RegisteredStaysReachable == Patient => (Spec => []RegisteredIsReachable)
<1> SUFFICES ASSUME Patient PROVE Spec => []RegisteredIsReachable
  OBVIOUS
<1>1. RefInv /\ Own => RegisteredIsReachable
  BY OwnImplies
<1> QED
  BY <1>1, OwnAlways, PTL

THEOREM AlertedCanLeave == Patient => (Spec => []WhoIsAlertedCanLeave)
<1> SUFFICES ASSUME Patient PROVE Spec => []WhoIsAlertedCanLeave
  OBVIOUS
<1>1. RefInv /\ Own => WhoIsAlertedCanLeave
  BY OwnImplies
<1> QED
  BY <1>1, OwnAlways, PTL

-----------------------------------------------------------------------------
(* How often an alert is pushed.  An alert has been pushed once more than  *)
(* something went wrong only if its log is there or about to be saved, and *)
(* an alert about to be pushed has no log.  This needs that the route's    *)
(* fixes are evaluated one after the other.                                *)

Uttered(k) ==
  \/ Logged(k)
  \/ \E e \in Evaluations : evaluation[e].at \in {"prune", "save"} /\ Key(e) = k

PushInv ==
  /\ \A k \in Alert : /\ alerts[k] <= 1 + upsets
                      /\ ~Uttered(k) => alerts[k] <= upsets
  /\ \A e \in Evaluations : evaluation[e].at \in {"subs", "push"} => ~Logged(Key(e))

OneAtATime == \A e, f \in Evaluations : e = f

(* Steps that push nothing and save no log. *)
LEMMA PushFrame ==
  ASSUME RefInv, PushInv, log' = log, alerts' = alerts,
         \/ upsets' = upsets + 1
         \/ upsets' = upsets /\ \A k \in Alert : Uttered(k) => Uttered(k)',
         \A e \in Evaluations :
           evaluation'[e].at \in {"subs", "push"} => ~Logged(Key(e)')
  PROVE  PushInv'
<1>1. upsets \in Nat /\ alerts \in [Alert -> Nat]
  BY DEF RefInv, TypeOK
<1>2. \A k : Logged(k)' <=> Logged(k)
  BY DEF Logged
<1>3. ASSUME NEW k \in Alert
      PROVE  alerts'[k] <= 1 + upsets' /\ (~Uttered(k)' => alerts'[k] <= upsets')
  <2>1. alerts[k] \in Nat /\ alerts[k] <= 1 + upsets /\ (~Uttered(k) => alerts[k] <= upsets)
    BY <1>1 DEF PushInv
  <2> QED
    BY <1>1, <2>1
<1> QED
  BY <1>2, <1>3 DEF PushInv

(* What the step of an evaluation does to the alert it is about. *)
LEMMA KeyMoves ==
  ASSUME RefInv, NEW e \in Evaluations, Deliver(e)
  PROVE  /\ \/ evaluation'[e].at \in {"idle", "log"}
            \/ /\ evaluation[e].at = "log" /\ evaluation'[e].at = "subs"
               /\ ~Logged(Key(e)')
            \/ /\ evaluation[e].at = "subs" /\ evaluation'[e].at = "push"
               /\ Key(e)' = Key(e)
            \/ /\ evaluation[e].at \in {"push", "prune"} /\ evaluation'[e].at \in {"prune", "save"}
               /\ Key(e)' = Key(e)
         /\ Push(e) => evaluation'[e].at \in {"prune", "save"} /\ Key(e)' = Key(e)
<1> DEFINE v == evaluation[e]
<1>1. TypeOK /\ v \in Evaluation /\ v.todo \in [ResidentId -> OrNone(Stages)]
      /\ evaluation \in [Evaluations -> Evaluation]
  BY DEF RefInv, TypeOK, Evaluation
<1>2. ASSUME NEW r \in ResidentId, FindLog(e, r)
      PROVE  \/ evaluation'[e].at \in {"idle", "log"}
             \/ v.at = "log" /\ evaluation'[e].at = "subs" /\ ~Logged(Key(e)')
  <2> DEFINE rest == [v.todo EXCEPT ![r] = NONE]
             rec == [v EXCEPT !.at = "subs", !.todo = rest, !.resident = r,
                              !.stage = v.todo[r], !.day = day]
  <2>1. rest \in [ResidentId -> OrNone(Stages)]
    BY <1>1 DEF OrNone
  <2>2. Skip(e, rest) \/ (Goto(e, rec) /\ ~Logged(<<r, v.todo[r], day>>) /\ v.at = "log")
    BY <1>2 DEF FindLog
  <2>3. CASE Skip(e, rest)
    BY <1>1, <2>1, <2>3, SkipFrame
  <2>4. CASE Goto(e, rec) /\ ~Logged(<<r, v.todo[r], day>>) /\ v.at = "log"
    <3>1. evaluation'[e] = rec
      BY <1>1, <2>4 DEF Goto
    <3>2. rec.at = "subs" /\ rec.resident = r /\ rec.stage = v.todo[r] /\ rec.day = day
      BY <1>1 DEF Evaluation
    <3>3. Key(e)' = <<r, v.todo[r], day>>
      BY <3>1, <3>2 DEF Key
    <3> QED
      BY <2>4, <3>1, <3>2, <3>3
  <2> QED
    BY <2>2, <2>3, <2>4
<1>3. CASE FindSubscriptions(e)
  <2> DEFINE rec == [v EXCEPT !.at = "push", !.targets = ActiveSubscriptions(v.resident)]
  <2>1. v.at = "subs" /\ (Skip(e, v.todo) \/ Goto(e, rec))
    BY <1>3 DEF FindSubscriptions
  <2>2. CASE Goto(e, rec)
    <3>1. evaluation'[e] = rec
      BY <1>1, <2>2 DEF Goto
    <3>2. /\ rec.at = "push" /\ rec.resident = v.resident /\ rec.stage = v.stage
          /\ rec.day = v.day
      BY <1>1 DEF Evaluation
    <3> QED
      BY <1>3, <2>1, <3>1, <3>2 DEF Key, Push
  <2> QED
    BY <1>1, <1>3, <2>1, <2>2, SkipFrame DEF Push
<1>4. CASE Push(e)
  <2>1. PICK reached \in SUBSET (v.targets \ gone) :
          Goto(e, [v EXCEPT !.at = IF Dead(v.targets, reached) = {} THEN "save" ELSE "prune",
                            !.targets = Dead(v.targets, reached), !.sent = reached # {}])
    BY <1>4, Zenon DEF Push
  <2> DEFINE rec == [v EXCEPT !.at = IF Dead(v.targets, reached) = {} THEN "save" ELSE "prune",
                              !.targets = Dead(v.targets, reached), !.sent = reached # {}]
  <2>2. evaluation'[e] = rec /\ v.at = "push"
    BY <1>1, <1>4, <2>1 DEF Goto, Push
  <2>3. /\ rec.at \in {"prune", "save"} /\ rec.resident = v.resident /\ rec.stage = v.stage
        /\ rec.day = v.day
    BY <1>1 DEF Evaluation
  <2> QED
    BY <2>2, <2>3 DEF Key
<1>5. CASE Prune(e)
  <2> DEFINE rec == [v EXCEPT !.at = "save", !.targets = {}]
  <2>1. evaluation'[e] = rec /\ v.at = "prune"
    BY <1>1, <1>5 DEF Goto, Prune
  <2>2. /\ rec.at = "save" /\ rec.resident = v.resident /\ rec.stage = v.stage
        /\ rec.day = v.day
    BY <1>1 DEF Evaluation
  <2> QED
    BY <2>1, <2>2 DEF Key, Push
<1>6. CASE SaveLog(e)
  <2>1. Skip(e, v.todo) /\ v.at = "save"
    BY <1>6 DEF SaveLog
  <2> QED
    BY <1>1, <2>1, SkipFrame DEF Push
<1>7. ASSUME NEW r \in ResidentId, FindLog(e, r) PROVE ~Push(e)
  BY <1>7 DEF FindLog, Push
<1> QED
  BY <1>2, <1>3, <1>4, <1>5, <1>6, <1>7 DEF Deliver

LEMMA DeliverPush ==
  ASSUME OneAtATime, RefInv, PushInv, NEW e \in Evaluations, Deliver(e) PROVE PushInv'
<1>1. /\ \A f \in Evaluations : f = e
      /\ upsets \in Nat /\ alerts \in [Alert -> Nat] /\ evaluation[e] \in Evaluation
      /\ EvaluationOk(e)
  BY DEF OneAtATime, RefInv, TypeOK
<1>2. evaluation[e].at \in {"push", "prune", "save"} => Key(e) \in Alert
  BY <1>1 DEF EvaluationOk, Key, Alert, Evaluation
<1>3. CASE Push(e)
  <2>1. /\ log' = log /\ evaluation[e].at = "push"
        /\ alerts' = [alerts EXCEPT ![Key(e)] = alerts[Key(e)] + 1]
        /\ upsets' = upsets \/ upsets' = upsets + 1
    BY <1>3 DEF Push, Upset
  <2>2. /\ evaluation'[e].at \in {"prune", "save"} /\ Key(e)' = Key(e)
        /\ \A k : Logged(k)' <=> Logged(k)
    BY <1>3, <2>1, KeyMoves DEF Logged
  <2>3. ~Uttered(Key(e)) /\ Uttered(Key(e))'
    BY <1>1, <2>1, <2>2 DEF Uttered, PushInv
  <2>4. ASSUME NEW k \in Alert
        PROVE  alerts'[k] <= 1 + upsets' /\ (~Uttered(k)' => alerts'[k] <= upsets')
    <3>1. alerts[k] \in Nat /\ alerts[k] <= 1 + upsets /\ (~Uttered(k) => alerts[k] <= upsets)
      BY <1>1 DEF PushInv
    <3>2. CASE k = Key(e)
      <4>1. alerts'[k] = alerts[k] + 1
        BY <1>1, <2>1, <3>2
      <4>2. alerts[k] <= upsets
        BY <2>3, <3>1, <3>2
      <4>3. Uttered(k)'
        BY <1>1, <2>2, <3>2 DEF Uttered
      <4> QED
        BY <1>1, <2>1, <3>1, <4>1, <4>2, <4>3
    <3>3. CASE k # Key(e)
      <4>1. alerts'[k] = alerts[k]
        BY <1>1, <2>1, <3>3
      <4>2. Uttered(k) => Uttered(k)'
        BY <1>1, <2>1, <2>2 DEF Uttered
      <4> QED
        BY <1>1, <2>1, <3>1, <4>1, <4>2
    <3> QED
      BY <3>2, <3>3
  <2> QED
    BY <1>1, <2>2, <2>4 DEF PushInv
<1>4. CASE SaveLog(e)
  <2>1. /\ alerts' = alerts /\ upsets' = upsets
        /\ log' = log \cup {<<Key(e), Status(e)>>}
    BY <1>4 DEF SaveLog, history
  <2>2. evaluation[e].at = "save" /\ evaluation'[e].at \in {"idle", "log"}
    <3>1. Skip(e, evaluation[e].todo) /\ evaluation[e].at = "save"
      BY <1>4 DEF SaveLog
    <3>2. evaluation[e].todo \in [ResidentId -> OrNone(Stages)] /\ TypeOK
      BY <1>1 DEF Evaluation, RefInv
    <3> QED
      BY <3>1, <3>2, SkipFrame
  <2>3. \A k : Logged(k)' <=> Logged(k) \/ k = Key(e)
    BY <2>1 DEF Logged, Status
  <2>4. \A k \in Alert : Uttered(k) => Uttered(k)'
    BY <1>1, <2>3 DEF Uttered
  <2>5. ASSUME NEW k \in Alert
        PROVE  alerts'[k] <= 1 + upsets' /\ (~Uttered(k)' => alerts'[k] <= upsets')
    BY <2>1, <2>4 DEF PushInv
  <2> QED
    BY <1>1, <2>2, <2>5 DEF PushInv
<1>5. CASE ~Push(e) /\ ~SaveLog(e)
  <2>1. log' = log /\ alerts' = alerts /\ upsets' = upsets
    BY <1>5, Zenon DEF Deliver, FindLog, FindSubscriptions, Prune, history
  <2>2. evaluation[e].at \notin {"push", "save"}
    <3>1. \/ evaluation[e].at = "log" \/ evaluation[e].at = "subs" \/ evaluation[e].at = "prune"
      BY <1>5, Zenon DEF Deliver, FindLog, FindSubscriptions, Prune
    <3> QED
      BY <3>1
  <2>3. evaluation'[e].at \in {"subs", "push"} => ~Logged(Key(e)')
    BY <2>2, KeyMoves DEF PushInv
  <2>4. evaluation[e].at = "prune" => evaluation'[e].at = "save" /\ Key(e)' = Key(e)
    <3>1. CASE Prune(e)
      <4>1. /\ evaluation' = [evaluation EXCEPT ![e] =
                 [evaluation[e] EXCEPT !.at = "save", !.targets = {}]]
            /\ evaluation \in [Evaluations -> Evaluation]
        BY <3>1 DEF Prune, Goto, RefInv, TypeOK
      <4> QED
        BY <1>1, <4>1 DEF Key, Evaluation
    <3>2. CASE ~Prune(e)
      BY <1>5, <3>2 DEF Deliver, FindLog, FindSubscriptions
    <3> QED
      BY <3>1, <3>2
  <2>5. \A k \in Alert : Uttered(k) => Uttered(k)'
    BY <1>1, <2>1, <2>2, <2>4 DEF Uttered, Logged
  <2> QED
    BY <1>1, <2>1, <2>3, <2>5, PushFrame
<1> QED
  BY <1>3, <1>4, <1>5

LEMMA NextPush == ASSUME OneAtATime, RefInv, PushInv, [Next]_vars PROVE PushInv'
<1>1. ASSUME NEW e \in Evaluations, NEW p \in Progress, FindCandidates(e, p) PROVE PushInv'
  <2>1. [r \in ResidentId |-> Due(r, p)] \in [ResidentId -> OrNone(Stages)] /\ TypeOK
    BY DueType DEF RefInv
  <2>2. /\ evaluation[e].at = "idle" /\ evaluation'[e].at \in {"idle", "log"}
        /\ log' = log /\ alerts' = alerts /\ upsets' = upsets
    BY <1>1, <2>1, SkipFrame DEF FindCandidates
  <2>3. \A k \in Alert : Uttered(k) => Uttered(k)'
    BY <2>2 DEF Uttered, Logged, OneAtATime
  <2> QED
    BY <2>2, <2>3, PushFrame DEF OneAtATime
<1>2. ASSUME NEW e \in Evaluations, AlertFault(e) PROVE PushInv'
  <2>1. /\ log' = log /\ alerts' = alerts /\ upsets' = upsets + 1
        /\ evaluation'[e].at = "idle"
    BY <1>2 DEF AlertFault, Upset, Goto, NoEvaluation, RefInv, TypeOK, history
  <2> QED
    BY <2>1, PushFrame DEF OneAtATime
<1>3. CASE Restart
  <2>1. /\ log' = log /\ alerts' = alerts /\ upsets' = upsets + 1
        /\ \A e \in Evaluations : evaluation'[e].at = "idle"
    BY <1>3 DEF Restart, Upset, NoEvaluation, history
  <2> QED
    BY <2>1, PushFrame
<1>4. ASSUME log' = log, alerts' = alerts, evaluation' = evaluation,
             upsets' = upsets \/ upsets' = upsets + 1
      PROVE  PushInv'
  <2>1. \A k \in Alert : Uttered(k) => Uttered(k)'
    BY <1>4 DEF Uttered, Logged, Key
  <2>2. \A e \in Evaluations :
          evaluation'[e].at \in {"subs", "push"} => ~Logged(Key(e)')
    BY <1>4 DEF PushInv, Key
  <2> QED
    BY <1>4, <2>1, <2>2, PushFrame
<1>5. ASSUME NEW h \in Requests, Serve(h)
      PROVE  /\ log' = log /\ alerts' = alerts /\ evaluation' = evaluation
             /\ upsets' = upsets \/ upsets' = upsets + 1
  BY <1>5, Zenon DEF Serve, Register, Unregister, IssueToken, FindSubscription, SaveSubscription,
              Deactivate, Silence, RequestFault, Upset, history
<1>6. ASSUME \/ \E d \in Devices : Revoke(d)
             \/ \E r \in ResidentId : DeactivateById(r)
             \/ Midnight
             \/ UNCHANGED vars
      PROVE  /\ log' = log /\ alerts' = alerts /\ evaluation' = evaluation
             /\ upsets' = upsets
  BY <1>6 DEF Revoke, DeactivateById, Midnight, vars, history
<1> QED
  BY <1>1, <1>2, <1>3, <1>4, <1>5, <1>6, DeliverPush DEF Next, Evaluate

(* If a route's fixes are evaluated one after the other, an alert is       *)
(* pushed at most once a day and stage, and once more at most for every    *)
(* failure or restart, for any number of residents, devices and days: the  *)
(* repetition that overlapping evaluations show has no other cause.        *)
THEOREM OneEvaluationAlertsOnce == OneAtATime => (Spec => []OncePerDay)
<1> SUFFICES ASSUME OneAtATime PROVE Spec => []OncePerDay
  OBVIOUS
<1>1. Init => PushInv
  <2> SUFFICES ASSUME Init PROVE PushInv
    OBVIOUS
  <2>1. upsets = 0 /\ log = {} /\ \A k \in Alert : alerts[k] = 0
    BY DEF Init
  <2>2. \A e \in Evaluations : evaluation[e].at = "idle"
    BY DEF Init, NoEvaluation
  <2> QED
    BY <2>1, <2>2 DEF PushInv
<1>2. RefInv /\ PushInv /\ [Next]_vars => PushInv'
  BY NextPush
<1>3. RefInv /\ PushInv => OncePerDay
  BY DEF PushInv, OncePerDay
<1> QED
  BY <1>1, <1>2, <1>3, References, PTL DEF Spec

-----------------------------------------------------------------------------
(* Who is looked at and who is told.  Distances times the time of the pace *)
(* are compared with metres times minutes, so the products are what the    *)
(* lemmas speak of.                                                        *)

LEMMA LessTimes ==
  ASSUME NEW a \in Int, NEW b \in Int, NEW t \in Nat \ {0}, a < b
  PROVE  a * t < b * t
OBVIOUS

LEMMA TimesInt == ASSUME NEW a \in Int, NEW b \in Int PROVE a * b \in Int
OBVIOUS

LEMMA TimesNat == ASSUME NEW a \in Nat, NEW b \in Nat PROVE a * b \in Nat
OBVIOUS

LEMMA TimesMinus == ASSUME NEW a \in Int, NEW b \in Int PROVE (-a) * b = -(a * b)
OBVIOUS

LEMMA MotionType ==
  ASSUME NEW p \in Progress
  PROVE  /\ Motion(p).direction \in {-1, 0, 1}
         /\ Motion(p).metres \in Nat
         /\ Motion(p).time \in Nat \ {0}
<1>1. p.offset \in Nat
  BY BoundsAssumption DEF Progress
<1>2. CASE p.previous = NONE \/ p.previous.gap > MotionWindow
  BY <1>2, BoundsAssumption DEF Motion
<1>3. CASE ~(p.previous = NONE \/ p.previous.gap > MotionWindow)
  <2>1. p.previous \in [offset: Offsets, gap: Gaps]
    BY <1>3 DEF Progress, OrNone
  <2>2. PICK metres \in Int : metres = p.offset - p.previous.offset
    <3>1. p.previous.offset \in Nat
      BY <2>1, BoundsAssumption
    <3>2. p.offset - p.previous.offset \in Int
      BY <1>1, <3>1
    <3> QED
      BY <3>2
  <2>3. p.previous.gap \in Nat \ {0}
    BY <2>1, BoundsAssumption
  <2>4. Abs(metres) \in Nat /\ Sign(metres) \in {-1, 0, 1}
    BY DEF Abs, Sign
  <2> QED
    BY <1>3, <2>2, <2>3, <2>4, BoundsAssumption DEF Motion
<1> QED
  BY <1>2, <1>3

(* How far ahead of the truck a point of the route is, as far as its       *)
(* direction is known.                                                     *)
Ahead(x, p) == IF Motion(p).direction = -1 THEN p.offset - x ELSE x - p.offset

(* Candidate and Stage, by how far ahead a point is. *)
LEMMA ByAhead ==
  ASSUME NEW p \in Progress, NEW x \in Nat
  PROVE  LET m == Motion(p)
             a == Ahead(x, p)
         IN  /\ a \in Int /\ a * m.time \in Int
             /\ Candidate(x, p) <=>
                  /\ -(ArrivalDistance * m.time) <= a * m.time
                  /\ a * m.time <= Lead * m.metres
             /\ Stage(x, p) =
                  IF -ArrivalDistance <= a /\ a <= ArrivalDistance THEN "arriving"
                  ELSE IF m.direction # 0 /\ a * m.time > 0
                            /\ a * m.time <= (Lead + p.age) * m.metres
                  THEN IF a * m.time <= p.age * m.metres THEN "arriving" ELSE "prepare"
                  ELSE NONE
<1> DEFINE m == Motion(p)
           a == Ahead(x, p)
           lead == Lead * m.metres
           arrival == ArrivalDistance * m.time
<1>1. m.direction \in {-1, 0, 1} /\ m.metres \in Nat /\ m.time \in Nat \ {0}
  BY MotionType
<1>2. p.offset \in Nat /\ p.age \in Nat
  BY BoundsAssumption DEF Progress
<1>3. lead \in Nat /\ arrival \in Nat
  BY <1>1, BoundsAssumption, TimesNat
<1>4. a \in Int /\ a * m.time \in Int
  BY <1>1, <1>2, TimesInt DEF Ahead
<1>5. Abs(x - p.offset) <= ArrivalDistance <=> -ArrivalDistance <= a /\ a <= ArrivalDistance
  BY <1>2, BoundsAssumption DEF Abs, Ahead
<1>6. CASE m.direction = -1
  <2>1. a = p.offset - x /\ x - p.offset = -a
    BY <1>2, <1>6 DEF Ahead
  <2>2. (x - p.offset) * m.time = -(a * m.time)
    BY <1>1, <1>4, <2>1, TimesMinus
  <2>3. Candidate(x, p) <=> -lead <= (x - p.offset) * m.time /\ (x - p.offset) * m.time <= arrival
    BY <1>6 DEF Candidate
  <2>4. Candidate(x, p) <=> -arrival <= a * m.time /\ a * m.time <= lead
    <3> HIDE DEF lead, arrival, a
    <3> QED
      BY <1>3, <1>4, <2>2, <2>3
  <2> QED
    BY <1>4, <1>5, <1>6, <2>1, <2>4 DEF Stage
<1>7. CASE m.direction # -1
  <2>1. a = x - p.offset /\ m.direction >= 0
    BY <1>1, <1>7 DEF Ahead
  <2>2. Candidate(x, p) <=> -arrival <= a * m.time /\ a * m.time <= lead
    BY <2>1 DEF Candidate
  <2> QED
    BY <1>4, <1>5, <1>7, <2>1, <2>2 DEF Stage
<1> QED
  BY <1>6, <1>7

(* The nearer of two homes ahead is told as much as the farther, or more. *)
LEMMA NobodyToldLess == ToldLess = {}
<1> SUFFICES ASSUME NEW near \in Homes \ {NONE}, NEW p \in Progress, NEW far \in Offsets,
                    0 < Ahead(near, p), Ahead(near, p) < Ahead(far, p),
                    Told(far, p) # NONE
             PROVE  Told(near, p) \in {"arriving", Told(far, p)}
  BY DEF ToldLess, Ahead
<1> DEFINE m == Motion(p)
<1>1. near \in Nat /\ far \in Nat
  BY BoundsAssumption
<1>2. PICK a \in Int : a = Ahead(near, p)
  BY <1>1, ByAhead
<1>3. PICK b \in Int : b = Ahead(far, p)
  BY <1>1, ByAhead
<1>4. 0 < a /\ a < b
  BY <1>2, <1>3
<1>5. m.time \in Nat \ {0} /\ m.metres \in Nat /\ p.age \in Nat
  BY MotionType, BoundsAssumption DEF Progress
<1>6. PICK at \in Int : at = a * m.time
  BY <1>5, TimesInt
<1>7. PICK bt \in Int : bt = b * m.time
  BY <1>5, TimesInt
<1>8. 0 < at /\ at < bt
  <2>1. 0 * m.time < a * m.time
    BY <1>4, <1>5, LessTimes
  <2>2. 0 * m.time = 0
    BY <1>5
  <2>3. a * m.time < b * m.time
    BY <1>4, <1>5, LessTimes
  <2> QED
    BY <1>6, <1>7, <2>1, <2>2, <2>3
<1>9. PICK arrival \in Nat : arrival = ArrivalDistance * m.time
  BY <1>5, BoundsAssumption, TimesNat
<1>10. PICK lead \in Nat : lead = Lead * m.metres
  BY <1>5, BoundsAssumption, TimesNat
<1>11. PICK reach \in Nat : reach = (Lead + p.age) * m.metres
  <2>1. Lead + p.age \in Nat
    BY <1>5, BoundsAssumption
  <2> QED
    BY <1>5, <2>1, TimesNat
<1>12. PICK past \in Nat : past = p.age * m.metres
  BY <1>5, TimesNat
<1>13. Candidate(far, p) /\ Told(far, p) = Stage(far, p)
  BY DEF Told
<1>14. -arrival <= bt /\ bt <= lead
  BY <1>1, <1>3, <1>7, <1>9, <1>10, <1>13, ByAhead
<1>15. Candidate(near, p)
  <2>1. -arrival <= at /\ at <= lead
    BY <1>8, <1>14
  <2> QED
    BY <1>1, <1>2, <1>6, <1>9, <1>10, <2>1, ByAhead
<1>16. Stage(near, p) =
         IF -ArrivalDistance <= a /\ a <= ArrivalDistance THEN "arriving"
         ELSE IF m.direction # 0 /\ at > 0 /\ at <= reach
         THEN IF at <= past THEN "arriving" ELSE "prepare"
         ELSE NONE
  BY <1>1, <1>2, <1>6, <1>11, <1>12, ByAhead
<1>17. Stage(far, p) =
         IF -ArrivalDistance <= b /\ b <= ArrivalDistance THEN "arriving"
         ELSE IF m.direction # 0 /\ bt > 0 /\ bt <= reach
         THEN IF bt <= past THEN "arriving" ELSE "prepare"
         ELSE NONE
  BY <1>1, <1>3, <1>7, <1>11, <1>12, ByAhead
<1>18. Told(near, p) = Stage(near, p) /\ Stage(far, p) # NONE
  BY <1>13, <1>15 DEF Told
<1> HIDE DEF m
<1>19. CASE b <= ArrivalDistance
  <2>1. -ArrivalDistance <= a /\ a <= ArrivalDistance
    BY <1>4, <1>19, BoundsAssumption
  <2> QED
    BY <1>16, <1>18, <2>1
<1>20. CASE ~(b <= ArrivalDistance)
  <2>1. m.direction # 0 /\ bt <= reach
    BY <1>17, <1>18, <1>20
  <2>2. at <= reach
    BY <1>8, <2>1
  <2>3. Stage(near, p) = "arriving" \/ (Stage(near, p) = "prepare" /\ ~(at <= past))
    BY <1>8, <1>16, <2>1, <2>2
  <2>4. ASSUME ~(at <= past) PROVE Stage(far, p) = "prepare"
    <3>1. ~(bt <= past) /\ bt > 0
      BY <1>8, <2>4
    <3> QED
      BY <1>17, <1>20, <2>1, <3>1
  <2> QED
    BY <1>13, <1>18, <2>3, <2>4
<1> QED
  BY <1>19, <1>20

(* The stretch of the query holds whoever a fresh fix is an alert for. *)
LEMMA NobodyOverlooked == Overlooked = {}
<1> SUFFICES ASSUME NEW x \in Homes \ {NONE}, NEW p \in Progress, p.age = 0,
                    ArrivalDistance * Motion(p).time <= Lead * Motion(p).metres,
                    Stage(x, p) # NONE
             PROVE  Candidate(x, p)
  BY DEF Overlooked
<1> DEFINE m == Motion(p)
<1>1. x \in Nat
  BY BoundsAssumption
<1>2. PICK a \in Int : a = Ahead(x, p)
  BY <1>1, ByAhead
<1>3. m.time \in Nat \ {0} /\ m.metres \in Nat
  BY MotionType
<1>4. PICK at \in Int : at = a * m.time
  BY <1>3, TimesInt
<1>5. PICK arrival \in Nat : arrival = ArrivalDistance * m.time
  BY <1>3, BoundsAssumption, TimesNat
<1>6. PICK lead \in Nat : lead = Lead * m.metres
  BY <1>3, BoundsAssumption, TimesNat
<1>7. Candidate(x, p) <=> -arrival <= at /\ at <= lead
  BY <1>1, <1>2, <1>4, <1>5, <1>6, ByAhead
<1>8. (Lead + p.age) * m.metres = lead
  <2>1. Lead + p.age = Lead
    BY BoundsAssumption
  <2> QED
    BY <1>6, <2>1
<1>9. arrival <= lead
  BY <1>5, <1>6
<1>10. CASE -ArrivalDistance <= a /\ a <= ArrivalDistance
  <2>1. at <= arrival
    <3>1. a = ArrivalDistance \/ a < ArrivalDistance
      BY <1>10, BoundsAssumption
    <3> QED
      BY <1>3, <1>4, <1>5, <3>1, LessTimes, BoundsAssumption
  <2>2. (-ArrivalDistance) * m.time = -arrival
    BY <1>3, <1>5, TimesMinus, BoundsAssumption
  <2>3. -arrival <= at
    <3>1. a = -ArrivalDistance \/ -ArrivalDistance < a
      BY <1>10, BoundsAssumption
    <3>2. CASE a = -ArrivalDistance
      BY <1>4, <2>2, <3>2
    <3>3. CASE -ArrivalDistance < a
      <4>1. (-ArrivalDistance) * m.time < at
        BY <1>3, <1>4, <3>3, LessTimes, BoundsAssumption
      <4> QED
        BY <2>2, <4>1
    <3> QED
      BY <3>1, <3>2, <3>3
  <2> QED
    BY <1>7, <1>9, <2>1, <2>3
<1>11. CASE ~(-ArrivalDistance <= a /\ a <= ArrivalDistance)
  <2>1. at > 0 /\ at <= (Lead + p.age) * m.metres
    BY <1>1, <1>2, <1>4, <1>11, ByAhead
  <2> QED
    BY <1>7, <1>8, <2>1
<1> QED
  BY <1>10, <1>11

(* Whoever lives nearer ahead of the truck is told as much as whoever      *)
(* lives farther, or more, for any route, lead time, distance, pace,       *)
(* direction and age of the fix.                                           *)
THEOREM NearerIsAlwaysMoreUrgent == Spec => []NearerIsMoreUrgent
<1>1. NearerIsMoreUrgent
  BY NobodyToldLess DEF NearerIsMoreUrgent
<1> QED
  BY <1>1, PTL

(* Whoever a fresh fix is an alert for is in the stretch that the query    *)
(* asks for, on any route, at any pace and in both directions, wherever    *)
(* the lead distance is not shorter than the arrival distance.             *)
THEOREM FreshFixAlwaysMissesNobody == Spec => []FreshFixMissesNobody
<1>1. FreshFixMissesNobody
  BY NobodyOverlooked DEF FreshFixMissesNobody
<1> QED
  BY <1>1, PTL
=============================================================================
