---------------------------- MODULE AccountsProofs ----------------------------
(***************************************************************************)
(* Accounts change only by the staff's requests, and, where one request of *)
(* a kind is handled at a time, nobody is locked out, nobody comes back    *)
(* and no username names two: for any number of municipalities, accounts,  *)
(* tokens and requests in flight.                                          *)
(***************************************************************************)
EXTENDS Accounts, TLAPS

-----------------------------------------------------------------------------
(* What a request in flight has read and was allowed.                      *)

Creating(q) == q.at \in {"check", "insert"}
Changing(q) == q.at \in {"load", "count", "save", "delete"}
Loaded(q) == q.at \in {"count", "save", "delete"}

\* Of a request, while `handed` are the tokens and ids from `next` on are free.
RecordOk(q, handed, next) ==
  /\ Creating(q) \/ Changing(q) => q.by \in handed /\ q.by.role \in Staff
  /\ Creating(q) =>
       /\ q.copy \in Account
       /\ q.by.role = "SUPER_ADMIN" \/ (q.copy.role = "DRIVER" /\ q.by.tenant = q.copy.tenant)
  /\ Changing(q) =>
       /\ q.tenant \in Tenants
       /\ q.self => q.by.id = q.account /\ q.by.tenant = q.tenant
       /\ q.by.role = "SUPER_ADMIN" \/ q.by.tenant = q.tenant
  /\ Changing(q) \/ q.at = "sign" => q.account \in AccountId /\ q.account < next
  /\ Loaded(q) \/ q.at = "sign" => q.copy \in Account
  /\ q.at \in {"find", "store"} => q.tenant \in Tenants
  /\ q.at = "store" => q.was \in Tenant

RecordsOk == \A h \in Requests : RecordOk(request[h], tokens, nextAccount)
TokensOk == \A token \in tokens : token.id < nextAccount
RowsInv == TypeOK /\ RecordsOk /\ TokensOk

LEMMA Ids == AccountId \subseteq Nat /\ NONE \notin AccountId
BY BoundsAssumption DEF AccountId

LEMMA NextIsNumber == ASSUME TypeOK PROVE nextAccount \in Nat
BY BoundsAssumption DEF TypeOK

LEMMA NoRequestOk ==
  ASSUME NEW handed, NEW next
  PROVE  NoRequest \in Request /\ RecordOk(NoRequest, handed, next)
BY DEF NoRequest, Request, OrNone, RecordOk, Creating, Changing, Loaded

(* Handing out a token or an id takes nothing from a request. *)
LEMMA RecordStaysOk ==
  ASSUME NEW q, NEW handed, NEW next \in Nat, NEW handed2, NEW next2 \in Nat,
         handed \subseteq handed2, next <= next2, RecordOk(q, handed, next)
  PROVE  RecordOk(q, handed2, next2)
<1>1. Changing(q) \/ q.at = "sign" => q.account < next2
  <2> SUFFICES ASSUME Changing(q) \/ q.at = "sign" PROVE q.account < next2
    OBVIOUS
  <2>1. q.account \in Nat /\ q.account < next
    BY Ids DEF RecordOk
  <2> QED
    BY <2>1
<1>2. Creating(q) \/ Changing(q) => q.by \in handed2
  BY DEF RecordOk
<1> HIDE DEF Creating, Changing, Loaded
<1> QED
  BY <1>1, <1>2 DEF RecordOk

LEMMA SlotFrame ==
  ASSUME TypeOK, NEW h \in Requests, NEW rec, Goto(h, rec)
  PROVE  /\ request'[h] = rec
         /\ \A g \in Requests \ {h} : request'[g] = request[g]
         /\ rec \in Request => request' \in [Requests -> Request]
BY DEF TypeOK, Goto

(* One request moves on; ids and tokens may be handed out. *)
LEMMA SlotStep ==
  ASSUME RowsInv, NEW h \in Requests, NEW rec \in Request, Goto(h, rec),
         RecordOk(rec, tokens, nextAccount) \/ RecordOk(rec, tokens', nextAccount'),
         tenants' \in [Tenants -> OrNone(Tenant)],
         accounts' \in [AccountId -> OrNone(Account)],
         nextAccount' \in 1..(MaxAccounts + 1), nextAccount <= nextAccount',
         \A a \in AccountId : accounts'[a] # NONE => a < nextAccount',
         tokens \subseteq tokens', tokens' \subseteq Token,
         \A token \in tokens' : token.id < nextAccount',
         edits' \in 0..MaxEdits
  PROVE  RowsInv'
<1>1. /\ request'[h] = rec
      /\ \A g \in Requests \ {h} : request'[g] = request[g]
      /\ request' \in [Requests -> Request]
  BY SlotFrame DEF RowsInv
<1>2. TypeOK'
  BY <1>1 DEF TypeOK
<1>3. nextAccount \in Nat /\ nextAccount' \in Nat
  BY NextIsNumber, BoundsAssumption DEF RowsInv
<1>4. RecordsOk'
  <2>1. \A q : RecordOk(q, tokens, nextAccount) => RecordOk(q, tokens', nextAccount')
    BY <1>3, RecordStaysOk
  <2> QED
    BY <1>1, <2>1 DEF RowsInv, RecordsOk
<1> QED
  BY <1>2, <1>4 DEF RowsInv, TokensOk

(* Only a request moves on. *)
LEMMA MoveOn ==
  ASSUME RowsInv, NEW h \in Requests, NEW rec \in Request, Goto(h, rec),
         RecordOk(rec, tokens, nextAccount),
         UNCHANGED <<tenants, accounts, nextAccount, tokens>>, edits' \in 0..MaxEdits
  PROVE  RowsInv'
<1>1. nextAccount <= nextAccount'
  BY NextIsNumber DEF RowsInv
<1> QED
  BY <1>1, SlotStep DEF RowsInv, TypeOK, TokensOk

LEMMA EditsType ==
  ASSUME TypeOK, Counted \/ UNCHANGED edits
  PROVE  edits' \in 0..MaxEdits
BY BoundsAssumption DEF TypeOK, Counted

LEMMA AnsweredRows ==
  ASSUME RowsInv, NEW h \in Requests, Finish(h),
         UNCHANGED <<tenants, accounts, nextAccount, tokens, edits>>
  PROVE  RowsInv'
BY NoRequestOk, MoveOn, EditsType DEF Finish, RowsInv

-----------------------------------------------------------------------------
(* How a request starts                                                    *)

(* The guards let a member of the staff through, into its own tenant or,   *)
(* for the operator, into any.                                             *)
LEMMA Guards ==
  ASSUME RowsInv, NEW h \in Requests, NEW token, NEW required \in Staff, NEW rec,
         Call(h, token, required, rec)
  PROVE  /\ token \in tokens /\ token \in Token /\ token.role \in Staff
         /\ required = "SUPER_ADMIN" => token.role = "SUPER_ADMIN"
         /\ Goto(h, [rec EXCEPT !.by = token])
BY DEF Call, Permits, Staff, RowsInv, TypeOK

LEMMA InContext ==
  ASSUME NEW token \in Token, NEW t \in Contexts(token)
  PROVE  t \in Tenants /\ (token.role = "SUPER_ADMIN" \/ token.tenant = t)
BY DEF Contexts, ActingTenants, Token

\* A request to make an account, as its controller lets it start.
CreationBegins(rec) ==
  /\ rec.at = "check"
  /\ Exclusive => \A g \in Requests : ~Creates(g)

\* A request to change one.
ChangeBegins(rec) ==
  /\ rec.at = "load" /\ Exists(rec.account)
  /\ \/ rec.by.role = "SUPER_ADMIN" \/ rec.self
     \/ accounts[rec.account].role = "DRIVER"
  /\ Exclusive => \A g \in Requests : ~Changes(g, rec.tenant)

\* A request starts, and changes nothing else.
Begins(h, rec) ==
  /\ rec \in Request /\ RecordOk(rec, tokens, nextAccount)
  /\ CreationBegins(rec) \/ ChangeBegins(rec) \/ rec.at \in {"find", "slug", "admin"}
  /\ Goto(h, rec)
  /\ UNCHANGED <<tenants, accounts, nextAccount, tokens>>
  /\ edits' \in 0..MaxEdits

LEMMA CreateBegins ==
  ASSUME RowsInv, NEW h \in Requests, NEW token, NEW required \in Staff,
         NEW role \in {"ADMIN", "DRIVER"}, NEW t \in Tenants, NEW username \in Usernames,
         Create(h, token, required, role, t, username),
         token.role = "SUPER_ADMIN" \/ (role = "DRIVER" /\ token.tenant = t)
  PROVE  \E rec : Begins(h, rec)
<1> DEFINE row == [role |-> role, tenant |-> t, username |-> username, active |-> TRUE]
           start == [NoRequest EXCEPT !.at = "check", !.tenant = t, !.copy = row]
           rec == [start EXCEPT !.by = token]
<1>1. Call(h, token, required, start)
  BY DEF Create
<1>2. token \in tokens /\ token \in Token /\ token.role \in Staff /\ Goto(h, rec)
  BY <1>1, Guards
<1>3. row \in Account
  BY DEF Account, Roles
<1>4. /\ rec.at = "check" /\ rec.by = token /\ rec.copy = row
      /\ rec.copy.role = role /\ rec.copy.tenant = t
  BY DEF NoRequest
<1>5. rec \in Request
  BY <1>2, <1>3 DEF NoRequest, Request, OrNone
<1>6. RecordOk(rec, tokens, nextAccount)
  <2> HIDE DEF rec
  <2> QED
    BY <1>2, <1>3, <1>4 DEF RecordOk, Creating, Changing, Loaded
<1>7. /\ UNCHANGED <<tenants, accounts, nextAccount, tokens>> /\ edits' \in 0..MaxEdits
      /\ Exclusive => \A g \in Requests : ~Creates(g)
  BY EditsType DEF Create, RowsInv
<1> HIDE DEF rec
<1> QED
  BY <1>2, <1>4, <1>5, <1>6, <1>7 DEF Begins, CreationBegins

LEMMA ChangesBegin ==
  ASSUME RowsInv, NEW h \in Requests, NEW token, NEW required \in Staff, NEW t \in Tenants,
         NEW start \in Request, Change(h, token, required, t, start),
         start.account \in AccountId,
         start.self => start.account = token.id /\ token.tenant = t,
         token.role = "SUPER_ADMIN" \/ token.tenant = t,
         \/ token.role = "SUPER_ADMIN" \/ start.self
         \/ accounts[start.account].role = "DRIVER"
  PROVE  \E rec : Begins(h, rec)
<1> DEFINE rec == [[start EXCEPT !.at = "load", !.tenant = t] EXCEPT !.by = token]
<1>1. Exists(start.account) /\ Call(h, token, required, [start EXCEPT !.at = "load", !.tenant = t])
  BY DEF Change
<1>2. token \in tokens /\ token \in Token /\ token.role \in Staff /\ Goto(h, rec)
  BY <1>1, Guards
<1>3. rec \in Request
  BY <1>2 DEF Request, OrNone
<1>4. /\ rec.at = "load" /\ rec.by = token /\ rec.tenant = t
      /\ rec.account = start.account /\ rec.self = start.self
  BY DEF Request
<1>5. start.account < nextAccount
  BY <1>1 DEF Exists, RowsInv, TypeOK
<1>6. RecordOk(rec, tokens, nextAccount)
  <2> HIDE DEF rec
  <2> QED
    BY <1>2, <1>4, <1>5 DEF RecordOk, Creating, Changing, Loaded
<1>7. /\ UNCHANGED <<tenants, accounts, nextAccount, tokens>> /\ edits' \in 0..MaxEdits
      /\ Exclusive => \A g \in Requests : ~Changes(g, t)
  BY EditsType DEF Change, RowsInv
<1> HIDE DEF rec
<1> QED
  BY <1>1, <1>2, <1>3, <1>4, <1>6, <1>7 DEF Begins, ChangeBegins

LEMMA UpdateTenantBegins ==
  ASSUME RowsInv, NEW h \in Requests, NEW token, NEW t \in Tenants,
         NEW active \in {"on", "off", "same"}, UpdateTenant(h, token, t, active)
  PROVE  \E rec : Begins(h, rec)
<1> DEFINE start == [NoRequest EXCEPT !.at = "find", !.tenant = t, !.active = active]
           rec == [start EXCEPT !.by = token]
<1>1. Call(h, token, "SUPER_ADMIN", start)
  BY DEF UpdateTenant
<1>2. token \in Token /\ Goto(h, rec)
  BY <1>1, Guards DEF Staff
<1>3. rec \in Request /\ rec.at = "find" /\ rec.tenant = t
  BY <1>2 DEF NoRequest, Request, OrNone
<1>4. RecordOk(rec, tokens, nextAccount)
  <2> HIDE DEF rec
  <2> QED
    BY <1>3 DEF RecordOk, Creating, Changing, Loaded
<1>5. UNCHANGED <<tenants, accounts, nextAccount, tokens>> /\ edits' \in 0..MaxEdits
  BY EditsType DEF UpdateTenant, RowsInv
<1> HIDE DEF rec
<1> QED
  BY <1>2, <1>3, <1>4, <1>5 DEF Begins

LEMMA LoginBegins ==
  ASSUME RowsInv, NEW h \in Requests, NEW t \in OrNone(Tenants), NEW username \in Usernames,
         Login(h, t, username)
  PROVE  \E rec : Begins(h, rec)
<1> DEFINE rec == [NoRequest EXCEPT !.at = IF t = NONE THEN "admin" ELSE "slug", !.tenant = t,
                                    !.username = username]
<1>1. rec \in Request /\ rec.at \in {"slug", "admin"}
  BY DEF NoRequest, Request, OrNone
<1>2. RecordOk(rec, tokens, nextAccount)
  <2> HIDE DEF rec
  <2> QED
    BY <1>1 DEF RecordOk, Creating, Changing, Loaded
<1>3. Goto(h, rec) /\ UNCHANGED <<tenants, accounts, nextAccount, tokens>>
  BY DEF Login
<1>4. edits' \in 0..MaxEdits
  BY EditsType DEF Login, RowsInv
<1> HIDE DEF rec
<1> QED
  BY <1>1, <1>2, <1>3, <1>4 DEF Begins

(* Every request that an account of the token's holder may make. *)
LEMMA AskBegins ==
  ASSUME RowsInv, NEW h \in Requests, NEW token \in tokens, Ask(h, token)
  PROVE  \E rec : Begins(h, rec)
<1>1. token \in Token /\ token.id \in AccountId /\ token.tenant \in Tenants
  BY DEF RowsInv, TypeOK, Token
<1>2. CASE UpdateSelf(h, token)
  <2> DEFINE start == [NoRequest EXCEPT !.account = token.id, !.self = TRUE]
  <2>1. start \in Request /\ start.account = token.id /\ start.self
    BY <1>1 DEF NoRequest, Request, OrNone
  <2> HIDE DEF start
  <2>2. Change(h, token, "ADMIN", token.tenant, start)
    BY <1>2 DEF UpdateSelf, start
  <2> QED
    BY <1>1, <2>1, <2>2, ChangesBegin DEF Staff
<1>3. ASSUME NEW t \in Tenants, NEW username \in Usernames,
             \/ CreateAdmin(h, token, t, username)
             \/ CreateTenantAdmin(h, token, t, username)
      PROVE  \E rec : Begins(h, rec)
  <2>1. Create(h, token, "SUPER_ADMIN", "ADMIN", t, username)
    BY <1>3 DEF CreateAdmin, CreateTenantAdmin
  <2>2. token.role = "SUPER_ADMIN"
    BY <2>1, Guards DEF Create, Staff
  <2> QED
    BY <2>1, <2>2, CreateBegins DEF Staff
<1>4. ASSUME NEW t \in Tenants, NEW username \in Usernames, CreateDriver(h, token, t, username)
      PROVE  \E rec : Begins(h, rec)
  BY <1>1, <1>4, InContext, CreateBegins DEF CreateDriver, Staff
<1>5. ASSUME NEW t \in Tenants, NEW a \in AccountId, NEW start \in Request,
             start.account = a, ~start.self,
             t \in Contexts(token), Change(h, token, Manager(a), t, start)
      PROVE  \E rec : Begins(h, rec)
  <2>1. Manager(a) \in Staff
    BY DEF Manager, Staff
  <2>2. Call(h, token, Manager(a), [start EXCEPT !.at = "load", !.tenant = t]) /\ Exists(a)
    BY <1>5 DEF Change
  <2>3. accounts[a].role \in Roles
    BY <2>2 DEF Exists, RowsInv, TypeOK, OrNone, Account
  <2>4. token.role = "SUPER_ADMIN" \/ accounts[a].role = "DRIVER"
    BY <2>1, <2>2, <2>3, Guards DEF Manager, Staff, Roles
  <2> QED
    BY <1>1, <1>5, <2>1, <2>4, InContext, ChangesBegin
<1>6. ASSUME NEW t \in Tenants, NEW a \in AccountId, NEW active \in {"on", "off", "same"},
             Update(h, token, t, a, active)
      PROVE  \E rec : Begins(h, rec)
  <2> DEFINE start == [NoRequest EXCEPT !.account = a, !.active = active]
  <2>1. start \in Request /\ start.account = a /\ ~start.self
    BY DEF NoRequest, Request, OrNone
  <2> HIDE DEF start
  <2> QED
    BY <1>5, <1>6, <2>1 DEF Update, start
<1>7. ASSUME NEW t \in Tenants, NEW a \in AccountId, Remove(h, token, t, a)
      PROVE  \E rec : Begins(h, rec)
  <2> DEFINE start == [NoRequest EXCEPT !.account = a, !.remove = TRUE]
  <2>1. start \in Request /\ start.account = a /\ ~start.self
    BY DEF NoRequest, Request, OrNone
  <2> HIDE DEF start
  <2> QED
    BY <1>5, <1>7, <2>1 DEF Remove, start
<1> QED
  BY <1>2, <1>3, <1>4, <1>6, <1>7, UpdateTenantBegins DEF Ask

LEMMA BeginRows ==
  ASSUME RowsInv, NEW h \in Requests, NEW rec, Begins(h, rec)
  PROVE  RowsInv'
BY MoveOn DEF Begins

-----------------------------------------------------------------------------
(* How it proceeds                                                         *)

(* It awaits something else, with what it has read already. *)
LEMMA StepRows ==
  ASSUME RowsInv, NEW h \in Requests, NEW at, Step(h, at),
         \/ request[h].at = "check" /\ at = "insert"
         \/ request[h].at = "count" /\ at \in {"save", "delete"}
         \/ at \in {"admin", "driver"},
         UNCHANGED <<tenants, accounts, nextAccount, tokens, edits>>
  PROVE  RowsInv'
<1> DEFINE q == request[h]
           rec == [q EXCEPT !.at = at]
<1>1. q \in Request /\ RecordOk(q, tokens, nextAccount)
  BY DEF RowsInv, TypeOK, RecordsOk
<1>2. /\ rec \in Request /\ rec.at = at /\ rec.by = q.by /\ rec.copy = q.copy
      /\ rec.tenant = q.tenant /\ rec.self = q.self /\ rec.account = q.account
  BY <1>1 DEF Request
<1>3. RecordOk(rec, tokens, nextAccount)
  <2> HIDE DEF rec
  <2> QED
    BY <1>1, <1>2 DEF RecordOk, Creating, Changing, Loaded
<1>4. Goto(h, rec)
  BY DEF Step
<1> HIDE DEF rec
<1> QED
  BY <1>2, <1>3, <1>4, MoveOn, EditsType DEF RowsInv

LEMMA LoadRows ==
  ASSUME RowsInv, NEW h \in Requests, Load(h)
  PROVE  RowsInv'
<1> DEFINE q == request[h]
           a == q.account
           row == Changed(h, accounts[a])
           at == IF Revokes(h, accounts[a]) THEN "count"
                 ELSE IF q.remove THEN "delete" ELSE "save"
           rec == [q EXCEPT !.copy = row, !.at = at]
<1>1. q \in Request /\ RecordOk(q, tokens, nextAccount) /\ q.at = "load"
  BY DEF Load, RowsInv, TypeOK, RecordsOk
<1>2. a \in AccountId
  BY <1>1 DEF RecordOk, Changing
<1>3. CASE Finish(h)
  BY <1>3, AnsweredRows DEF Load
<1>4. CASE ~Finish(h)
  <2>1. Exists(a) /\ Goto(h, rec)
    BY <1>4 DEF Load, Found
  <2>2. accounts[a] \in Account
    BY <1>2, <2>1 DEF Exists, RowsInv, TypeOK, OrNone
  <2>3. row \in Account /\ at \in {"count", "delete", "save"}
    BY <2>2 DEF Changed, Account
  <2> HIDE DEF row, at
  <2>4. /\ rec \in Request /\ Loaded(rec) /\ rec.by = q.by /\ rec.copy \in Account
        /\ rec.tenant = q.tenant /\ rec.self = q.self /\ rec.account = q.account
    BY <1>1, <2>3 DEF Request, OrNone, Loaded
  <2>5. RecordOk(rec, tokens, nextAccount)
    <3> HIDE DEF rec
    <3> QED
      BY <1>1, <2>4 DEF RecordOk, Creating, Changing, Loaded
  <2> HIDE DEF rec
  <2> QED
    BY <2>1, <2>4, <2>5, MoveOn, EditsType DEF RowsInv, Load
<1> QED
  BY <1>3, <1>4

(* A new row takes the next id. *)
LEMMA Inserted ==
  ASSUME RowsInv, NEW h \in Requests, InsertAccount(h)
  PROVE  /\ request[h].copy \in Account
         /\ nextAccount \in AccountId /\ accounts[nextAccount] = NONE
         /\ \A a \in AccountId \ {nextAccount} : accounts'[a] = accounts[a]
         /\ accounts'[nextAccount] \in {NONE, request[h].copy}
         /\ accounts' \in [AccountId -> OrNone(Account)]
         /\ nextAccount' = nextAccount + 1 /\ nextAccount' \in 1..(MaxAccounts + 1)
<1>1. request[h].copy \in Account
  BY DEF InsertAccount, RowsInv, RecordsOk, RecordOk, Creating
<1>2. nextAccount \in AccountId /\ nextAccount' = nextAccount + 1
  BY DEF InsertAccount
<1>3. nextAccount \in 1..MaxAccounts
  BY <1>2 DEF AccountId
<1>4. accounts[nextAccount] = NONE
  BY <1>2, NextIsNumber DEF RowsInv, TypeOK
<1>5. accounts' \in {accounts, [accounts EXCEPT ![nextAccount] = request[h].copy]}
  BY DEF InsertAccount
<1> QED
  BY <1>1, <1>2, <1>3, <1>4, <1>5, BoundsAssumption DEF RowsInv, TypeOK, OrNone

LEMMA InsertRows ==
  ASSUME RowsInv, NEW h \in Requests, InsertAccount(h)
  PROVE  RowsInv'
<1>1. nextAccount \in Nat /\ nextAccount' = nextAccount + 1
  BY Inserted, NextIsNumber DEF RowsInv
<1>2. \A a \in AccountId : accounts'[a] # NONE => a < nextAccount'
  BY <1>1, Inserted, Ids DEF RowsInv, TypeOK
<1>3. \A token \in tokens : token.id < nextAccount'
  <2> SUFFICES ASSUME NEW token \in tokens PROVE token.id < nextAccount'
    OBVIOUS
  <2>1. token.id \in Nat
    BY Ids DEF RowsInv, TypeOK, Token
  <2>2. token.id < nextAccount
    BY DEF RowsInv, TokensOk
  <2> QED
    BY <1>1, <2>1, <2>2
<1>4. Goto(h, NoRequest) /\ UNCHANGED <<tenants, tokens, edits>>
  BY DEF InsertAccount, Finish
<1> QED
  BY <1>1, <1>2, <1>3, <1>4, Inserted, NoRequestOk, SlotStep DEF RowsInv, TypeOK

(* What a save or a deletion does to the rows. *)
LEMMA Written ==
  ASSUME RowsInv, NEW h \in Requests, Save(h) \/ Delete(h)
  PROVE  /\ request[h].account \in AccountId /\ request[h].account < nextAccount
         /\ request[h].copy \in Account
         /\ Loaded(request[h]) /\ request' = [request EXCEPT ![h] = NoRequest]
         /\ \A a \in AccountId \ {request[h].account} : accounts'[a] = accounts[a]
         /\ Delete(h) => accounts'[request[h].account] = NONE
         /\ Save(h) => \/ accounts' = accounts
                       \/ accounts'[request[h].account] = request[h].copy
         /\ accounts' \in [AccountId -> OrNone(Account)]
         /\ UNCHANGED <<tenants, nextAccount, tokens, edits>>
<1>1. request[h].at \in {"save", "delete"}
  BY DEF Save, Delete
<1>2. /\ request[h].account \in AccountId /\ request[h].account < nextAccount
      /\ request[h].copy \in Account
  BY <1>1 DEF RowsInv, RecordsOk, RecordOk, Changing, Loaded
<1>3. CASE Save(h)
  <2>1. accounts' \in {accounts, [accounts EXCEPT ![request[h].account] = request[h].copy]}
    BY <1>3 DEF Save
  <2>2. ~Delete(h)
    BY <1>3 DEF Save, Delete
  <2> QED
    BY <1>1, <1>2, <1>3, <2>1, <2>2 DEF Save, Finish, Goto, RowsInv, TypeOK, OrNone, Loaded
<1>4. CASE Delete(h)
  <2>1. ~Save(h)
    BY <1>4 DEF Save, Delete
  <2> QED
    BY <1>1, <1>2, <1>4, <2>1 DEF Delete, Finish, Goto, RowsInv, TypeOK, OrNone, Loaded
<1> QED
  BY <1>3, <1>4

LEMMA WriteRows ==
  ASSUME RowsInv, NEW h \in Requests, Save(h) \/ Delete(h)
  PROVE  RowsInv'
<1>1. Goto(h, NoRequest) /\ UNCHANGED <<tenants, nextAccount, tokens, edits>>
  BY Written DEF Goto
<1>2. nextAccount <= nextAccount'
  BY <1>1, NextIsNumber DEF RowsInv
<1>3. \A a \in AccountId : accounts'[a] # NONE => a < nextAccount'
  BY <1>1, Written DEF RowsInv, TypeOK
<1> QED
  BY <1>1, <1>2, <1>3, Written, NoRequestOk, SlotStep DEF RowsInv, TypeOK, TokensOk

LEMMA FindTenantRows ==
  ASSUME RowsInv, NEW h \in Requests, FindTenant(h)
  PROVE  RowsInv'
<1> DEFINE q == request[h]
           row == tenants[q.tenant]
           rec == [q EXCEPT !.at = "store",
                     !.was = IF q.active = "same" THEN row ELSE [active |-> q.active = "on"]]
<1>1. q \in Request /\ q.tenant \in Tenants
  BY DEF FindTenant, RowsInv, TypeOK, RecordsOk, RecordOk
<1>2. CASE row = NONE
  BY <1>2, AnsweredRows DEF FindTenant
<1>3. CASE row # NONE
  <2>1. row \in Tenant
    BY <1>1, <1>3 DEF RowsInv, TypeOK, OrNone
  <2>2. rec \in Request /\ rec.at = "store" /\ rec.was \in Tenant /\ rec.tenant \in Tenants
    <3> DEFINE was == IF q.active = "same" THEN row ELSE [active |-> q.active = "on"]
               to == [q EXCEPT !.at = "store"]
    <3>1. was \in Tenant
      BY <2>1 DEF Tenant
    <3>2. rec = [to EXCEPT !.was = was]
      OBVIOUS
    <3>3. to \in Request /\ to.at = "store" /\ to.tenant \in Tenants
      BY <1>1 DEF Request
    <3> HIDE DEF rec, to, was, q
    <3> QED
      BY <3>1, <3>2, <3>3 DEF Request, OrNone
  <2>3. RecordOk(rec, tokens, nextAccount)
    <3> HIDE DEF rec
    <3> QED
      BY <2>2 DEF RecordOk, Creating, Changing, Loaded
  <2>4. Goto(h, rec) /\ UNCHANGED <<tenants, accounts, nextAccount, tokens, edits>>
    BY <1>3 DEF FindTenant
  <2> HIDE DEF rec
  <2> QED
    BY <2>2, <2>3, <2>4, MoveOn, EditsType DEF RowsInv
<1> QED
  BY <1>2, <1>3

LEMMA StoreTenantRows ==
  ASSUME RowsInv, NEW h \in Requests, StoreTenant(h)
  PROVE  RowsInv'
<1>1. request[h].was \in Tenant /\ request[h].tenant \in Tenants
  BY DEF StoreTenant, RowsInv, RecordsOk, RecordOk
<1>2. tenants' \in [Tenants -> OrNone(Tenant)]
  BY <1>1 DEF StoreTenant, RowsInv, TypeOK, OrNone
<1>3. Goto(h, NoRequest) /\ UNCHANGED <<accounts, nextAccount, tokens, edits>>
  BY DEF StoreTenant, Finish
<1>4. nextAccount <= nextAccount'
  BY <1>3, NextIsNumber DEF RowsInv
<1> QED
  BY <1>2, <1>3, <1>4, NoRequestOk, SlotStep DEF RowsInv, TypeOK, TokensOk

(* A login goes on to the token of an account that is there, to the other  *)
(* table, or nowhere.                                                       *)
LEMMA Validated ==
  ASSUME RowsInv, NEW h \in Requests, ValidateAdmin(h) \/ ValidateDriver(h)
  PROVE  \E rec :
           /\ rec \in Request /\ RecordOk(rec, tokens, nextAccount)
           /\ \/ rec.at \in {"driver", "idle"}
              \/ /\ rec.at = "sign" /\ rec.account \in AccountId /\ Exists(rec.account)
                 /\ rec.copy = accounts[rec.account]
           /\ Goto(h, rec) /\ UNCHANGED <<tenants, accounts, nextAccount, tokens, edits>>
<1> DEFINE q == request[h]
<1>1. q \in Request
  BY DEF RowsInv, TypeOK
<1>2. UNCHANGED <<tenants, accounts, nextAccount, tokens, edits>>
  BY DEF ValidateAdmin, ValidateDriver
<1>3. CASE Goto(h, NoRequest)
  BY <1>2, <1>3, NoRequestOk DEF NoRequest
<1>4. CASE Goto(h, [q EXCEPT !.at = "driver"])
  <2> DEFINE rec == [q EXCEPT !.at = "driver"]
  <2>1. rec \in Request /\ rec.at = "driver"
    BY <1>1 DEF Request
  <2> HIDE DEF rec
  <2>2. RecordOk(rec, tokens, nextAccount)
    BY <2>1 DEF RecordOk, Creating, Changing, Loaded
  <2> QED
    BY <1>2, <1>4, <2>1, <2>2 DEF rec
<1>5. ASSUME NEW a \in AccountId, Active(a),
             Goto(h, [q EXCEPT !.at = "sign", !.account = a, !.copy = accounts[a]])
      PROVE  \E rec :
           /\ rec \in Request /\ RecordOk(rec, tokens, nextAccount)
           /\ \/ rec.at \in {"driver", "idle"}
              \/ /\ rec.at = "sign" /\ rec.account \in AccountId /\ Exists(rec.account)
                 /\ rec.copy = accounts[rec.account]
           /\ Goto(h, rec) /\ UNCHANGED <<tenants, accounts, nextAccount, tokens, edits>>
  <2> DEFINE rec == [q EXCEPT !.at = "sign", !.account = a, !.copy = accounts[a]]
  <2>1. Exists(a) /\ accounts[a] \in Account /\ a < nextAccount
    BY <1>5 DEF Active, Exists, RowsInv, TypeOK, OrNone
  <2>2. /\ rec \in Request /\ rec.at = "sign" /\ rec.account = a
        /\ rec.copy = accounts[a] /\ rec.copy \in Account
    BY <1>1, <2>1 DEF Request, OrNone
  <2>3. Goto(h, rec)
    BY <1>5
  <2> HIDE DEF rec
  <2>4. RecordOk(rec, tokens, nextAccount)
    BY <2>1, <2>2 DEF RecordOk, Creating, Changing, Loaded
  <2> QED
    BY <1>2, <2>1, <2>2, <2>3, <2>4
<1>6. \A roles, username, t : Named(roles, username, t) \subseteq AccountId
  BY DEF Named
<1> QED
  BY <1>3, <1>4, <1>5, <1>6, Zenon DEF ValidateAdmin, ValidateDriver, Validate

LEMMA ValidateRows ==
  ASSUME RowsInv, NEW h \in Requests, ValidateAdmin(h) \/ ValidateDriver(h)
  PROVE  RowsInv'
BY Validated, MoveOn, EditsType DEF RowsInv

LEMMA SignRows ==
  ASSUME RowsInv, NEW h \in Requests, Sign(h)
  PROVE  RowsInv'
<1> DEFINE q == request[h]
           token == [id |-> q.account, role |-> q.copy.role, tenant |-> q.copy.tenant]
<1>1. q.account \in AccountId /\ q.account < nextAccount /\ q.copy \in Account
  BY DEF Sign, RowsInv, RecordsOk, RecordOk
<1>2. token \in Token /\ token.id < nextAccount
  BY <1>1 DEF Token, Account
<1>3. tokens' \in {tokens, tokens \cup {token}}
  BY DEF Sign
<1>4. Goto(h, NoRequest) /\ UNCHANGED <<tenants, accounts, nextAccount, edits>>
  BY DEF Sign, Finish
<1>5. nextAccount <= nextAccount'
  BY <1>4, NextIsNumber DEF RowsInv
<1>6. tokens \subseteq tokens' /\ tokens' \subseteq Token
  BY <1>2, <1>3 DEF RowsInv, TypeOK
<1>7. \A one \in tokens' : one.id < nextAccount'
  BY <1>2, <1>3, <1>4 DEF RowsInv, TokensOk
<1> QED
  BY <1>4, <1>5, <1>6, <1>7, NoRequestOk, SlotStep DEF RowsInv, TypeOK

-----------------------------------------------------------------------------
(* Types                                                                   *)

\* What the steps of a request that change no row of accounts are.
Reads(h) ==
  \/ CheckUsername(h) \/ Load(h) \/ AssertNotLastActiveAdmin(h)
  \/ FindTenant(h) \/ StoreTenant(h)
  \/ FindSlug(h) \/ ValidateAdmin(h) \/ ValidateDriver(h) \/ Sign(h) \/ Fail(h)

LEMMA StepKinds ==
  ASSUME RowsInv, Next
  PROVE  \/ \E h \in Requests : \E rec : Begins(h, rec)
         \/ \E h \in Requests : Reads(h) \/ InsertAccount(h) \/ Save(h) \/ Delete(h)
         \/ \E token \in tokens, t \in Tenants : CreateTenant(token, t)
BY AskBegins, LoginBegins DEF Next, Proceed, Reads

LEMMA ReadsRows ==
  ASSUME RowsInv, NEW h \in Requests, Reads(h)
  PROVE  RowsInv'
<1>1. CASE CheckUsername(h)
  BY <1>1, StepRows, AnsweredRows DEF CheckUsername
<1>2. CASE AssertNotLastActiveAdmin(h)
  BY <1>2, StepRows, AnsweredRows DEF AssertNotLastActiveAdmin
<1>3. CASE FindSlug(h)
  BY <1>3, StepRows, AnsweredRows DEF FindSlug
<1>4. CASE Fail(h)
  BY <1>4, AnsweredRows DEF Fail
<1> QED
  BY <1>1, <1>2, <1>3, <1>4, LoadRows, FindTenantRows, StoreTenantRows, ValidateRows, SignRows
     DEF Reads

LEMMA CreateTenantRows ==
  ASSUME RowsInv, NEW token \in tokens, NEW t \in Tenants, CreateTenant(token, t)
  PROVE  RowsInv'
<1>1. tenants' \in [Tenants -> OrNone(Tenant)]
  BY DEF CreateTenant, RowsInv, TypeOK, OrNone, Tenant
<1> QED
  BY <1>1 DEF CreateTenant, RowsInv, TypeOK, RecordsOk, TokensOk

LEMMA RowsStutter == ASSUME RowsInv, UNCHANGED vars PROVE RowsInv'
BY DEF vars, RowsInv, TypeOK, RecordsOk, TokensOk

LEMMA RowsInit == Init => RowsInv
<1> SUFFICES ASSUME Init PROVE RowsInv
  OBVIOUS
<1>1. PICK username \in Usernames :
        accounts = [a \in AccountId |->
          IF a = 1 THEN [role |-> "SUPER_ADMIN", tenant |-> Platform, username |-> username,
                         active |-> TRUE]
          ELSE NONE]
  BY DEF Init
<1>2. accounts \in [AccountId -> OrNone(Account)]
  BY <1>1 DEF OrNone, Account, Roles, Tenants
<1>3. nextAccount \in 1..(MaxAccounts + 1) /\ \A a \in AccountId : accounts[a] # NONE => a < 2
  BY <1>1, BoundsAssumption DEF Init
<1>4. TypeOK
  <2>1. tenants \in [Tenants -> OrNone(Tenant)]
    BY DEF Init, OrNone, Tenant
  <2>2. request \in [Requests -> Request]
    <3>1. NoRequest \in Request
      BY NoRequestOk
    <3> QED
      BY <3>1 DEF Init
  <2>3. edits \in 0..MaxEdits /\ tokens \subseteq Token /\ nextAccount = 2
    BY BoundsAssumption DEF Init
  <2> QED
    BY <1>2, <1>3, <2>1, <2>2, <2>3 DEF TypeOK
<1> QED
  BY <1>4, NoRequestOk DEF Init, RowsInv, RecordsOk, TokensOk

LEMMA RowsStep == RowsInv /\ [Next]_vars => RowsInv'
BY StepKinds, BeginRows, ReadsRows, InsertRows, WriteRows, CreateTenantRows, RowsStutter

(* Every account has an id of the sequence and every request the record of *)
(* the statement it awaits, whatever requests overlap and fail.            *)
THEOREM TypesKept == Spec => []TypeOK
<1>1. RowsInv => TypeOK
  BY DEF RowsInv
<1> QED
  BY RowsInit, RowsStep, <1>1, PTL DEF Spec

-----------------------------------------------------------------------------
(* Who an id is of                                                         *)

Holder == [role: Roles, tenant: Tenants]

Is(holder, row) == row.role = holder.role /\ row.tenant = holder.tenant

\* Whatever names an account agrees on its role and its tenant: the row, the copies that
\* requests have loaded (a save brings back a row that is gone), and the tokens.
Agrees(who) ==
  /\ \A a \in AccountId : Exists(a) => Is(who[a], accounts[a])
  /\ \A token \in tokens : Is(who[token.id], token)
  /\ \A h \in Requests :
       LET q == request[h]
       IN  /\ Loaded(q) \/ q.at = "sign" => Is(who[q.account], q.copy)
           /\ Loaded(q) => who[q.account].tenant = q.tenant
           /\ Changing(q) =>
                q.by.role = "SUPER_ADMIN" \/ q.self \/ who[q.account].role = "DRIVER"

IdInv == \E who \in [AccountId -> Holder] : Agrees(who)

\* What Agrees says of one request.
Consistent(who, q) ==
  /\ Loaded(q) \/ q.at = "sign" => Is(who[q.account], q.copy)
  /\ Loaded(q) => who[q.account].tenant = q.tenant
  /\ Changing(q) =>
       q.by.role = "SUPER_ADMIN" \/ q.self \/ who[q.account].role = "DRIVER"

LEMMA NoRequestConsistent == ASSUME NEW who PROVE Consistent(who, NoRequest)
BY DEF Consistent, NoRequest, Loaded, Changing

(* Nobody's identity changes where one request moves on. *)
LEMMA SameIdentities ==
  ASSUME RowsInv, NEW who \in [AccountId -> Holder], Agrees(who),
         NEW h \in Requests, NEW rec, Goto(h, rec), Consistent(who, rec),
         \A a \in AccountId : Exists(a)' => Is(who[a], accounts'[a]),
         \A token \in tokens' : Is(who[token.id], token)
  PROVE  IdInv'
<1>1. /\ request'[h] = rec
      /\ \A g \in Requests \ {h} : request'[g] = request[g]
  BY SlotFrame DEF RowsInv
<1>2. \A g \in Requests : Consistent(who, request'[g])
  BY <1>1 DEF Agrees, Consistent
<1>3. Agrees(who)'
  <2> HIDE DEF Loaded, Changing
  <2> QED
    BY <1>2 DEF Agrees, Consistent, Exists
<1> QED
  BY <1>3 DEF IdInv

LEMMA RequestMoves ==
  ASSUME RowsInv, NEW who \in [AccountId -> Holder], Agrees(who),
         NEW h \in Requests, NEW rec, Goto(h, rec), Consistent(who, rec),
         UNCHANGED <<accounts, tokens>>
  PROVE  IdInv'
<1>1. \A a \in AccountId : Exists(a)' => Is(who[a], accounts'[a])
  BY DEF Agrees, Exists
<1>2. \A token \in tokens' : Is(who[token.id], token)
  BY DEF Agrees
<1> QED
  BY <1>1, <1>2, SameIdentities

LEMMA BeginIds ==
  ASSUME RowsInv, NEW who \in [AccountId -> Holder], Agrees(who),
         NEW h \in Requests, NEW rec, Begins(h, rec)
  PROVE  IdInv'
<1>1. Consistent(who, rec)
  <2>1. CASE ChangeBegins(rec)
    <3>1. rec.account \in AccountId
      BY <2>1 DEF Begins, ChangeBegins, RecordOk, Changing
    <3>2. accounts[rec.account].role = who[rec.account].role
      BY <2>1, <3>1 DEF Agrees, ChangeBegins, Is
    <3> QED
      BY <2>1, <3>2 DEF ChangeBegins, Consistent, Loaded, Changing
  <2>2. CASE ~ChangeBegins(rec)
    BY <2>2 DEF Begins, CreationBegins, Consistent, Loaded, Changing
  <2> QED
    BY <2>1, <2>2
<1>2. Goto(h, rec) /\ UNCHANGED <<accounts, tokens>>
  BY DEF Begins
<1> QED
  BY <1>1, <1>2, RequestMoves

LEMMA AnsweredIds ==
  ASSUME RowsInv, NEW who \in [AccountId -> Holder], Agrees(who),
         NEW h \in Requests, Finish(h), UNCHANGED <<accounts, tokens>>
  PROVE  IdInv'
BY NoRequestConsistent, RequestMoves DEF Finish

LEMMA StepIds ==
  ASSUME RowsInv, NEW who \in [AccountId -> Holder], Agrees(who),
         NEW h \in Requests, NEW at, Step(h, at),
         \/ request[h].at = "check" /\ at = "insert"
         \/ request[h].at = "count" /\ at \in {"save", "delete"}
         \/ at \in {"admin", "driver"},
         UNCHANGED <<accounts, tokens>>
  PROVE  IdInv'
<1> DEFINE q == request[h]
           rec == [q EXCEPT !.at = at]
<1>1. q \in Request /\ Consistent(who, q)
  BY DEF RowsInv, TypeOK, Agrees, Consistent
<1>2. /\ rec.at = at /\ rec.by = q.by /\ rec.copy = q.copy
      /\ rec.tenant = q.tenant /\ rec.self = q.self /\ rec.account = q.account
  BY <1>1 DEF Request
<1>3. Goto(h, rec)
  BY DEF Step
<1> HIDE DEF rec
<1>4. Consistent(who, rec)
  BY <1>1, <1>2 DEF Consistent, Loaded, Changing
<1> QED
  BY <1>3, <1>4, RequestMoves

LEMMA LoadIds ==
  ASSUME RowsInv, NEW who \in [AccountId -> Holder], Agrees(who),
         NEW h \in Requests, Load(h)
  PROVE  IdInv'
<1> DEFINE q == request[h]
           a == q.account
           row == Changed(h, accounts[a])
           at == IF Revokes(h, accounts[a]) THEN "count"
                 ELSE IF q.remove THEN "delete" ELSE "save"
           rec == [q EXCEPT !.copy = row, !.at = at]
<1>1. /\ q \in Request /\ q.at = "load" /\ a \in AccountId
      /\ q.by \in tokens
      /\ q.self => q.by.id = a /\ q.by.tenant = q.tenant
  BY DEF Load, RowsInv, TypeOK, RecordsOk, RecordOk, Changing
<1>2. CASE Finish(h)
  BY <1>2, AnsweredIds DEF Load
<1>3. CASE ~Finish(h)
  <2>1. Found(h) /\ Exists(a) /\ Goto(h, rec)
    BY <1>3 DEF Load, Found
  <2>2. accounts[a] \in Account
    BY <1>1, <2>1 DEF Exists, RowsInv, TypeOK, OrNone
  <2>3. row.role = accounts[a].role /\ row.tenant = accounts[a].tenant
    BY <2>2 DEF Changed, Account
  <2>4. Is(who[a], accounts[a])
    BY <1>1, <2>1 DEF Agrees
  <2>5. who[a].tenant = q.tenant
    <3>1. CASE q.self
      BY <1>1, <3>1 DEF Agrees, Is
    <3>2. CASE ~q.self
      BY <2>1, <2>4, <3>2 DEF Found, Is
    <3> QED
      BY <3>1, <3>2
  <2>6. q.by.role = "SUPER_ADMIN" \/ q.self \/ who[a].role = "DRIVER"
    BY <1>1 DEF Agrees, Changing
  <2>7. at \in {"count", "delete", "save"}
    OBVIOUS
  <2> HIDE DEF row, at
  <2>8. /\ rec.copy = row /\ rec.by = q.by /\ rec.at = at
        /\ rec.tenant = q.tenant /\ rec.self = q.self /\ rec.account = a
    BY <1>1 DEF Request
  <2> HIDE DEF rec
  <2>9. Consistent(who, rec)
    BY <2>3, <2>4, <2>5, <2>6, <2>7, <2>8 DEF Consistent, Is, Loaded, Changing
  <2> QED
    BY <2>1, <2>9, RequestMoves DEF Load
<1> QED
  BY <1>2, <1>3

(* The id of a new row is nobody's yet. *)
LEMMA InsertIds ==
  ASSUME RowsInv, NEW who \in [AccountId -> Holder], Agrees(who),
         NEW h \in Requests, InsertAccount(h)
  PROVE  IdInv'
<1> DEFINE row == request[h].copy
           new == [who EXCEPT ![nextAccount] = [role |-> row.role, tenant |-> row.tenant]]
<1>1. /\ row \in Account /\ nextAccount \in AccountId
      /\ accounts'[nextAccount] \in {NONE, row}
      /\ \A a \in AccountId \ {nextAccount} : accounts'[a] = accounts[a]
  BY Inserted
<1>2. new \in [AccountId -> Holder]
  BY <1>1 DEF Holder, Account
<1>3. PICK now \in [AccountId -> Holder] :
        /\ now[nextAccount].role = row.role /\ now[nextAccount].tenant = row.tenant
        /\ \A a \in AccountId \ {nextAccount} : now[a] = who[a]
  BY <1>1, <1>2
<1>4. nextAccount \in Nat /\ AccountId \subseteq Nat
  BY NextIsNumber, Ids DEF RowsInv
<1>5. ASSUME NEW a \in AccountId, Exists(a)' PROVE Is(now[a], accounts'[a])
  BY <1>1, <1>3, <1>5 DEF Agrees, Exists, Is
<1>6. ASSUME NEW token \in tokens' PROVE Is(now[token.id], token)
  <2>1. token \in tokens
    BY DEF InsertAccount
  <2>2. token.id \in AccountId /\ token.id < nextAccount
    BY <2>1 DEF RowsInv, TypeOK, TokensOk, Token
  <2>3. token.id # nextAccount
    BY <1>4, <2>2
  <2> QED
    BY <1>3, <2>1, <2>2, <2>3 DEF Agrees
<1>7. ASSUME NEW g \in Requests PROVE Consistent(now, request'[g])
  <2>1. request'[g] = NoRequest \/ request'[g] = request[g]
    BY SlotFrame DEF InsertAccount, Finish, RowsInv
  <2>2. CASE request'[g] = NoRequest
    BY <2>2, NoRequestConsistent
  <2>3. CASE request'[g] = request[g]
    <3>1. Consistent(who, request[g]) /\ RecordOk(request[g], tokens, nextAccount)
      BY DEF Agrees, Consistent, RowsInv, RecordsOk
    <3>2. ASSUME Changing(request[g]) \/ request[g].at = "sign"
          PROVE  now[request[g].account] = who[request[g].account]
      <4>1. request[g].account \in AccountId /\ request[g].account < nextAccount
        BY <3>1, <3>2 DEF RecordOk
      <4>2. request[g].account # nextAccount
        BY <1>4, <4>1
      <4> QED
        BY <1>3, <4>1, <4>2
    <3> QED
      BY <2>3, <3>1, <3>2 DEF Consistent, Loaded, Changing
  <2> QED
    BY <2>1, <2>2, <2>3
<1>8. Agrees(now)'
  <2> HIDE DEF Loaded, Changing
  <2> QED
    BY <1>5, <1>6, <1>7 DEF Agrees, Consistent, Exists
<1> QED
  BY <1>8 DEF IdInv

(* What is saved is of whom the id always was. *)
LEMMA WriteIds ==
  ASSUME RowsInv, NEW who \in [AccountId -> Holder], Agrees(who),
         NEW h \in Requests, Save(h) \/ Delete(h)
  PROVE  IdInv'
<1>1. Is(who[request[h].account], request[h].copy)
  BY Written DEF Agrees
<1>2. Goto(h, NoRequest) /\ UNCHANGED tokens
  BY Written DEF Goto
<1>3. ASSUME NEW a \in AccountId, Exists(a)' PROVE Is(who[a], accounts'[a])
  <2>1. CASE a = request[h].account
    BY <1>1, <1>3, <2>1, Written DEF Agrees, Exists
  <2>2. CASE a # request[h].account
    BY <1>3, <2>2, Written DEF Agrees, Exists
  <2> QED
    BY <2>1, <2>2
<1>4. \A token \in tokens' : Is(who[token.id], token)
  BY <1>2 DEF Agrees
<1> QED
  BY <1>2, <1>3, <1>4, NoRequestConsistent, SameIdentities

LEMMA ValidateIds ==
  ASSUME RowsInv, NEW who \in [AccountId -> Holder], Agrees(who),
         NEW h \in Requests, ValidateAdmin(h) \/ ValidateDriver(h)
  PROVE  IdInv'
<1>1. PICK rec :
        /\ rec \in Request /\ RecordOk(rec, tokens, nextAccount)
        /\ \/ rec.at \in {"driver", "idle"}
           \/ /\ rec.at = "sign" /\ rec.account \in AccountId /\ Exists(rec.account)
              /\ rec.copy = accounts[rec.account]
        /\ Goto(h, rec) /\ UNCHANGED <<tenants, accounts, nextAccount, tokens, edits>>
  BY Validated
<1>2. Consistent(who, rec)
  BY <1>1 DEF Agrees, Consistent, Loaded, Changing
<1> QED
  BY <1>1, <1>2, RequestMoves

LEMMA SignIds ==
  ASSUME RowsInv, NEW who \in [AccountId -> Holder], Agrees(who),
         NEW h \in Requests, Sign(h)
  PROVE  IdInv'
<1> DEFINE q == request[h]
           token == [id |-> q.account, role |-> q.copy.role, tenant |-> q.copy.tenant]
<1>1. tokens' \in {tokens, tokens \cup {token}} /\ q.at = "sign"
  BY DEF Sign
<1>2. Is(who[token.id], token)
  BY <1>1 DEF Agrees, Is
<1>3. Goto(h, NoRequest) /\ UNCHANGED accounts
  BY DEF Sign, Finish
<1>4. \A one \in tokens' : Is(who[one.id], one)
  BY <1>1, <1>2 DEF Agrees
<1>5. \A a \in AccountId : Exists(a)' => Is(who[a], accounts'[a])
  BY <1>3 DEF Agrees, Exists
<1> QED
  BY <1>3, <1>4, <1>5, NoRequestConsistent, SameIdentities

LEMMA FindTenantIds ==
  ASSUME RowsInv, NEW who \in [AccountId -> Holder], Agrees(who),
         NEW h \in Requests, FindTenant(h)
  PROVE  IdInv'
<1> DEFINE q == request[h]
           rec == [q EXCEPT !.at = "store",
                     !.was = IF q.active = "same" THEN tenants[q.tenant]
                             ELSE [active |-> q.active = "on"]]
<1>1. rec.at = "store"
  BY DEF RowsInv, TypeOK, Request
<1>2. UNCHANGED <<accounts, tokens>> /\ (Finish(h) \/ Goto(h, rec))
  BY DEF FindTenant
<1> HIDE DEF rec
<1>3. Consistent(who, rec)
  BY <1>1 DEF Consistent, Loaded, Changing
<1> QED
  BY <1>2, <1>3, RequestMoves, AnsweredIds

LEMMA IdStep == RowsInv /\ IdInv /\ [Next]_vars => IdInv'
<1> SUFFICES ASSUME RowsInv, IdInv, [Next]_vars PROVE IdInv'
  OBVIOUS
<1>1. PICK who \in [AccountId -> Holder] : Agrees(who)
  BY DEF IdInv
<1>2. ASSUME UNCHANGED <<accounts, tokens, request>> PROVE IdInv'
  <2>1. Agrees(who)'
    BY <1>1, <1>2 DEF Agrees, Exists
  <2> QED
    BY <2>1 DEF IdInv
<1>3. ASSUME NEW h \in Requests, Reads(h) PROVE IdInv'
  <2>1. CASE CheckUsername(h)
    BY <1>1, <2>1, StepIds, AnsweredIds DEF CheckUsername
  <2>2. CASE AssertNotLastActiveAdmin(h)
    BY <1>1, <2>2, StepIds, AnsweredIds DEF AssertNotLastActiveAdmin
  <2>3. CASE FindSlug(h)
    BY <1>1, <2>3, StepIds, AnsweredIds DEF FindSlug
  <2>4. CASE Fail(h) \/ StoreTenant(h)
    BY <1>1, <2>4, AnsweredIds DEF Fail, StoreTenant
  <2> QED
    BY <1>1, <1>3, <2>1, <2>2, <2>3, <2>4, LoadIds, ValidateIds, SignIds, FindTenantIds DEF Reads
<1>4. CASE UNCHANGED vars
  BY <1>2, <1>4 DEF vars
<1>5. ASSUME NEW token, NEW t, CreateTenant(token, t) PROVE IdInv'
  BY <1>2, <1>5 DEF CreateTenant
<1> QED
  BY <1>1, <1>3, <1>4, <1>5, StepKinds, BeginIds, InsertIds, WriteIds

LEMMA IdInit == Init => IdInv
<1> SUFFICES ASSUME Init PROVE IdInv
  OBVIOUS
<1> DEFINE who == [a \in AccountId |-> [role |-> "SUPER_ADMIN", tenant |-> Platform]]
<1>1. who \in [AccountId -> Holder]
  BY DEF Holder, Roles, Tenants
<1>2. \A a \in AccountId : Exists(a) => Is(who[a], accounts[a])
  BY DEF Init, Exists, Is
<1>3. tokens = {} /\ \A h \in Requests : request[h] = NoRequest
  BY DEF Init
<1> HIDE DEF who
<1>4. \A h \in Requests : Consistent(who, request[h])
  BY <1>3, NoRequestConsistent
<1>5. Agrees(who)
  <2> HIDE DEF Loaded, Changing
  <2> QED
    BY <1>2, <1>3, <1>4 DEF Agrees, Consistent
<1> QED
  BY <1>1, <1>5 DEF IdInv

-----------------------------------------------------------------------------
(* Accounts change by the staff's requests                                 *)

\* What OnlyByStaff says of one account.
ByStaff(a) ==
  accounts'[a] # accounts[a] =>
    LET row == IF Exists(a) THEN accounts[a] ELSE accounts'[a]
    IN  \E h \in Requests :
          LET by == request[h].by
          IN  /\ request'[h] = NoRequest /\ by # NONE
              /\ by.role \in Staff
              /\ by.role = "SUPER_ADMIN" \/ by.tenant = row.tenant
              /\ row.role \in Staff => by.role = "SUPER_ADMIN" \/ by.id = a

LEMMA InsertByStaff ==
  ASSUME RowsInv, NEW h \in Requests, InsertAccount(h), NEW a \in AccountId
  PROVE  ByStaff(a)
<1> DEFINE q == request[h]
<1>1. /\ accounts[nextAccount] = NONE /\ accounts'[nextAccount] \in {NONE, q.copy}
      /\ \A b \in AccountId \ {nextAccount} : accounts'[b] = accounts[b]
  BY Inserted
<1>2. /\ q.by \in tokens /\ q.by.role \in Staff
      /\ q.by.role = "SUPER_ADMIN" \/ (q.copy.role = "DRIVER" /\ q.by.tenant = q.copy.tenant)
  BY DEF InsertAccount, RowsInv, RecordsOk, RecordOk, Creating
<1>3. q.by # NONE
  BY <1>2, RowAssumption DEF RowsInv, TypeOK
<1>4. request'[h] = NoRequest
  BY SlotFrame DEF InsertAccount, Finish, RowsInv
<1>5. "DRIVER" \notin Staff
  BY DEF Staff
<1> QED
  BY <1>1, <1>2, <1>3, <1>4, <1>5 DEF ByStaff, Exists

LEMMA WriteByStaff ==
  ASSUME RowsInv, IdInv, NEW h \in Requests, Save(h) \/ Delete(h), NEW a \in AccountId
  PROVE  ByStaff(a)
<1> DEFINE q == request[h]
<1>1. PICK who \in [AccountId -> Holder] : Agrees(who)
  BY DEF IdInv
<1>2. Loaded(q) /\ Changing(q)
  BY Written DEF Loaded, Changing
<1>3. /\ q.by \in tokens /\ q.by.role \in Staff
      /\ q.by.role = "SUPER_ADMIN" \/ q.by.tenant = q.tenant
      /\ q.self => q.by.id = q.account
  BY <1>2 DEF RowsInv, RecordsOk, RecordOk
<1>4. q.by # NONE
  BY <1>3, RowAssumption DEF RowsInv, TypeOK
<1>5. request'[h] = NoRequest
  BY Written DEF RowsInv, TypeOK
<1>6. /\ who[q.account].tenant = q.tenant
      /\ q.by.role = "SUPER_ADMIN" \/ q.self \/ who[q.account].role = "DRIVER"
  BY <1>1, <1>2 DEF Agrees
<1>7. ASSUME accounts'[a] # accounts[a]
      PROVE  /\ a = q.account
             /\ Is(who[a], IF Exists(a) THEN accounts[a] ELSE accounts'[a])
  <2>1. a = q.account
    BY <1>7, Written
  <2>2. CASE Exists(a)
    BY <1>1, <2>1, <2>2 DEF Agrees
  <2>3. CASE ~Exists(a)
    <3>1. accounts'[a] = q.copy
      BY <1>7, <2>1, <2>3, Written DEF Exists
    <3> QED
      BY <1>1, <1>2, <2>1, <2>3, <3>1 DEF Agrees
  <2> QED
    BY <2>1, <2>2, <2>3
<1>8. "DRIVER" \notin Staff
  BY DEF Staff
<1> HIDE DEF q
<1> QED
  BY <1>3, <1>4, <1>5, <1>6, <1>7, <1>8 DEF ByStaff, Is, q

(* Three statements write accounts. *)
LEMMA AccountsStay ==
  ASSUME RowsInv, [Next]_vars, ~UNCHANGED accounts
  PROVE  \E h \in Requests : InsertAccount(h) \/ Save(h) \/ Delete(h)
<1>1. ASSUME NEW h \in Requests, Reads(h) PROVE UNCHANGED accounts
  BY <1>1 DEF Reads, CheckUsername, Load, AssertNotLastActiveAdmin, FindTenant, StoreTenant,
     FindSlug, ValidateAdmin, ValidateDriver, Sign, Fail
<1>2. ASSUME NEW h \in Requests, NEW rec, Begins(h, rec) PROVE UNCHANGED accounts
  BY <1>2 DEF Begins
<1>3. ~UNCHANGED vars
  BY DEF vars
<1>4. ASSUME NEW token, NEW t, CreateTenant(token, t) PROVE UNCHANGED accounts
  BY <1>4 DEF CreateTenant
<1> QED
  BY <1>1, <1>2, <1>3, <1>4, StepKinds

LEMMA StepByStaff ==
  ASSUME RowsInv, IdInv, [Next]_vars, NEW a \in AccountId
  PROVE  ByStaff(a)
<1>1. ASSUME UNCHANGED accounts PROVE ByStaff(a)
  BY <1>1 DEF ByStaff
<1> QED
  BY <1>1, AccountsStay, InsertByStaff, WriteByStaff

(* An account is made, changed, removed or brought back only by a request   *)
(* of the staff of its municipality or of the operator, an administrator's  *)
(* only by the operator's or the own: whatever requests overlap and          *)
(* whatever tenant they ask to act in.                                        *)
THEOREM OnlyStaffChanges == Spec => OnlyByStaff
<1>1. RowsInv /\ IdInv /\ [Next]_vars => [\A a \in AccountId : ByStaff(a)]_vars
  BY StepByStaff
<1>2. Spec => [][\A a \in AccountId : ByStaff(a)]_vars
  BY RowsInit, RowsStep, IdInit, IdStep, <1>1, PTL DEF Spec
<1> QED
  BY <1>2 DEF OnlyByStaff, ByStaff

-----------------------------------------------------------------------------
(* One request of a kind at a time                                         *)

ChangedBy(q, row) == [row EXCEPT !.active = IF q.active = "same" THEN @ ELSE q.active = "on"]
RevokedBy(q, row) == row.role \in Staff /\ (q.remove \/ q.active = "off")
Others(rows, t, id) ==
  {a \in AccountId \ {id} :
     rows[a] # NONE /\ rows[a].active /\ rows[a].role \in Staff /\ rows[a].tenant = t}

\* What a request that changes an account has read is still so.
StillAs(q, rows) ==
  Loaded(q) =>
    /\ rows[q.account] # NONE /\ rows[q.account].tenant = q.tenant
    /\ q.copy = ChangedBy(q, rows[q.account])
    /\ q.at = "save" => ~q.remove
    /\ q.at = "delete" => q.remove
    /\ q.at \in {"save", "delete"} /\ RevokedBy(q, rows[q.account]) =>
         Others(rows, q.tenant, q.account) # {}

\* The username a request is about to take is still free.
StillFree(q, rows) ==
  q.at = "insert" =>
    \A a \in AccountId : rows[a] # NONE => rows[a].username # q.copy.username

OneCreation ==
  \A g, h \in Requests : Creating(request[g]) /\ Creating(request[h]) => g = h
OneChange ==
  \A g, h \in Requests :
    /\ Changing(request[g]) /\ Changing(request[h])
    /\ request[g].tenant = request[h].tenant
    => g = h

SerialInv ==
  /\ OneCreation /\ OneChange /\ UsernamesAreUnique
  /\ \A h \in Requests : StillAs(request[h], accounts) /\ StillFree(request[h], accounts)

(* Only a request moves on, and it is the only one of its kind. *)
LEMMA SerialMove ==
  ASSUME RowsInv, SerialInv, NEW h \in Requests, NEW rec, Goto(h, rec), UNCHANGED accounts,
         StillAs(rec, accounts), StillFree(rec, accounts),
         Creating(rec) =>
           Creating(request[h]) \/ \A g \in Requests : ~Creating(request[g]),
         Changing(rec) =>
           \/ Changing(request[h]) /\ request[h].tenant = rec.tenant
           \/ \A g \in Requests : ~(Changing(request[g]) /\ request[g].tenant = rec.tenant)
  PROVE  SerialInv'
<1> USE DEF SerialInv
<1> HIDE DEF Creating, Changing, Loaded
<1>1. /\ request'[h] = rec
      /\ \A g \in Requests \ {h} : request'[g] = request[g]
  BY SlotFrame DEF RowsInv
<1>2. OneCreation'
  BY <1>1 DEF OneCreation
<1>3. OneChange'
  BY <1>1 DEF OneChange
<1>4. UsernamesAreUnique'
  BY DEF UsernamesAreUnique, Exists
<1>5. \A g \in Requests : StillAs(request'[g], accounts) /\ StillFree(request'[g], accounts)
  BY <1>1
<1>6. \A g \in Requests : StillAs(request'[g], accounts') /\ StillFree(request'[g], accounts')
  BY <1>5
<1> QED
  BY <1>2, <1>3, <1>4, <1>6

LEMMA NoRequestStill ==
  ASSUME NEW rows
  PROVE  /\ StillAs(NoRequest, rows) /\ StillFree(NoRequest, rows)
         /\ ~Creating(NoRequest) /\ ~Changing(NoRequest)
BY DEF NoRequest, StillAs, StillFree, Loaded, Creating, Changing

LEMMA AnsweredSerial ==
  ASSUME RowsInv, SerialInv, NEW h \in Requests, Finish(h), UNCHANGED accounts
  PROVE  SerialInv'
BY NoRequestStill, SerialMove DEF Finish

LEMMA BeginSerial ==
  ASSUME Exclusive = TRUE, RowsInv, SerialInv, NEW h \in Requests, NEW rec, Begins(h, rec)
  PROVE  SerialInv'
<1>1. StillAs(rec, accounts) /\ StillFree(rec, accounts)
  BY DEF Begins, CreationBegins, ChangeBegins, StillAs, StillFree, Loaded
<1>2. Creating(rec) => \A g \in Requests : ~Creating(request[g])
  BY DEF Begins, CreationBegins, ChangeBegins, Creating, Creates
<1>3. Changing(rec) =>
        \A g \in Requests : ~(Changing(request[g]) /\ request[g].tenant = rec.tenant)
  BY DEF Begins, CreationBegins, ChangeBegins, Changing, Changes
<1>4. Goto(h, rec) /\ UNCHANGED accounts
  BY DEF Begins
<1> QED
  BY <1>1, <1>2, <1>3, <1>4, SerialMove

LEMMA LoginSerial ==
  ASSUME RowsInv, SerialInv, NEW h \in Requests, NEW rec, Goto(h, rec), UNCHANGED accounts,
         rec.at \in {"idle", "slug", "admin", "driver", "sign", "store"}
  PROVE  SerialInv'
<1>1. StillAs(rec, accounts) /\ StillFree(rec, accounts) /\ ~Creating(rec) /\ ~Changing(rec)
  BY DEF StillAs, StillFree, Loaded, Creating, Changing
<1> QED
  BY <1>1, SerialMove

LEMMA CheckSerial ==
  ASSUME RowsInv, SerialInv, NEW h \in Requests, CheckUsername(h)
  PROVE  SerialInv'
<1> DEFINE q == request[h]
           rec == [q EXCEPT !.at = "insert"]
<1>1. q \in Request /\ q.at = "check"
  BY DEF CheckUsername, RowsInv, TypeOK
<1>2. CASE IsTaken(q.copy)
  BY <1>2, AnsweredSerial DEF CheckUsername
<1>3. CASE ~IsTaken(q.copy)
  <2>1. rec.at = "insert" /\ rec.copy = q.copy
    BY <1>1 DEF Request
  <2>2. Goto(h, rec) /\ UNCHANGED accounts
    BY <1>3 DEF CheckUsername, Step
  <2> HIDE DEF rec
  <2>3. StillFree(rec, accounts) /\ StillAs(rec, accounts)
    BY <1>3, <2>1 DEF StillFree, StillAs, Loaded, IsTaken, Exists
  <2>4. Creating(q) /\ ~Changing(rec)
    BY <1>1, <2>1 DEF Creating, Changing
  <2> QED
    BY <2>2, <2>3, <2>4, SerialMove
<1> QED
  BY <1>2, <1>3

LEMMA LoadSerial ==
  ASSUME RowsInv, IdInv, SerialInv, NEW h \in Requests, Load(h)
  PROVE  SerialInv'
<1> DEFINE q == request[h]
           a == q.account
           row == Changed(h, accounts[a])
           at == IF Revokes(h, accounts[a]) THEN "count"
                 ELSE IF q.remove THEN "delete" ELSE "save"
           rec == [q EXCEPT !.copy = row, !.at = at]
<1>1. /\ q \in Request /\ q.at = "load" /\ a \in AccountId
      /\ q.by \in tokens
      /\ q.self => q.by.id = a /\ q.by.tenant = q.tenant
  BY DEF Load, RowsInv, TypeOK, RecordsOk, RecordOk, Changing
<1>2. CASE Finish(h)
  BY <1>2, AnsweredSerial DEF Load
<1>3. CASE ~Finish(h)
  <2>1. Found(h) /\ Exists(a) /\ Goto(h, rec) /\ UNCHANGED accounts
    BY <1>3 DEF Load, Found
  <2>2. accounts[a].tenant = q.tenant
    <3>1. PICK who \in [AccountId -> Holder] : Agrees(who)
      BY DEF IdInv
    <3> QED
      BY <1>1, <2>1, <3>1 DEF Agrees, Is, Found
  <2>3. row = ChangedBy(q, accounts[a])
    BY DEF Changed, ChangedBy
  <2>4. /\ at \in {"count", "delete", "save"}
        /\ at # "count" => ~RevokedBy(q, accounts[a])
        /\ at = "save" => ~q.remove
        /\ at = "delete" => q.remove
    BY DEF Revokes, RevokedBy
  <2> HIDE DEF row, at
  <2>5. /\ rec.copy = row /\ rec.at = at /\ rec.tenant = q.tenant /\ rec.account = a
        /\ rec.active = q.active /\ rec.remove = q.remove
    BY <1>1 DEF Request
  <2> HIDE DEF rec
  <2>6. StillAs(rec, accounts)
    BY <2>1, <2>2, <2>3, <2>4, <2>5 DEF StillAs, ChangedBy, RevokedBy, Exists
  <2>7. StillFree(rec, accounts) /\ ~Creating(rec) /\ Changing(q)
    BY <1>1, <2>4, <2>5 DEF StillFree, Creating, Changing
  <2> QED
    BY <2>1, <2>5, <2>6, <2>7, SerialMove
<1> QED
  BY <1>2, <1>3

LEMMA CountSerial ==
  ASSUME RowsInv, SerialInv, NEW h \in Requests, AssertNotLastActiveAdmin(h)
  PROVE  SerialInv'
<1> DEFINE q == request[h]
           at == IF q.remove THEN "delete" ELSE "save"
           rec == [q EXCEPT !.at = at]
<1>1. q \in Request /\ q.at = "count" /\ StillAs(q, accounts)
  BY DEF AssertNotLastActiveAdmin, RowsInv, TypeOK, SerialInv
<1>2. CASE Finish(h)
  BY <1>2, AnsweredSerial DEF AssertNotLastActiveAdmin
<1>3. CASE ~Finish(h)
  <2>1. OtherActiveAdmins(q.tenant, q.account) # {} /\ Goto(h, rec) /\ UNCHANGED accounts
    BY <1>3 DEF AssertNotLastActiveAdmin, Step
  <2>2. Others(accounts, q.tenant, q.account) # {}
    BY <2>1 DEF OtherActiveAdmins, Others, Active, Exists
  <2>3. at \in {"delete", "save"} /\ (at = "save" => ~q.remove) /\ (at = "delete" => q.remove)
    OBVIOUS
  <2> HIDE DEF at
  <2>4. /\ rec.copy = q.copy /\ rec.at = at /\ rec.tenant = q.tenant
        /\ rec.account = q.account /\ rec.active = q.active /\ rec.remove = q.remove
    BY <1>1 DEF Request
  <2> HIDE DEF rec
  <2>5. StillAs(rec, accounts)
    BY <1>1, <2>2, <2>3, <2>4 DEF StillAs, ChangedBy, Loaded
  <2>6. StillFree(rec, accounts) /\ ~Creating(rec) /\ Changing(q)
    BY <1>1, <2>3, <2>4 DEF StillFree, Creating, Changing
  <2> QED
    BY <2>1, <2>4, <2>5, <2>6, SerialMove
<1> QED
  BY <1>2, <1>3

LEMMA OthersSerial ==
  ASSUME RowsInv, SerialInv, NEW h \in Requests,
         FindTenant(h) \/ StoreTenant(h) \/ FindSlug(h) \/ Sign(h) \/ Fail(h)
           \/ ValidateAdmin(h) \/ ValidateDriver(h)
  PROVE  SerialInv'
<1> DEFINE q == request[h]
<1>1. q \in Request
  BY DEF RowsInv, TypeOK
<1>2. CASE FindTenant(h)
  <2> DEFINE rec == [q EXCEPT !.at = "store",
                       !.was = IF q.active = "same" THEN tenants[q.tenant]
                               ELSE [active |-> q.active = "on"]]
  <2>1. rec.at = "store"
    BY <1>1 DEF Request
  <2>2. UNCHANGED accounts /\ (Finish(h) \/ Goto(h, rec))
    BY <1>2 DEF FindTenant
  <2> HIDE DEF rec
  <2> QED
    BY <2>1, <2>2, LoginSerial, AnsweredSerial
<1>3. CASE FindSlug(h)
  <2> DEFINE rec == [q EXCEPT !.at = "admin"]
  <2>1. rec.at = "admin"
    BY <1>1 DEF Request
  <2>2. UNCHANGED accounts /\ (Finish(h) \/ Goto(h, rec))
    BY <1>3 DEF FindSlug, Step
  <2> HIDE DEF rec
  <2> QED
    BY <2>1, <2>2, LoginSerial, AnsweredSerial
<1>4. CASE ValidateAdmin(h) \/ ValidateDriver(h)
  <2>1. \E rec : /\ rec.at \in {"driver", "idle", "sign"}
                 /\ Goto(h, rec) /\ UNCHANGED accounts
    BY <1>4, Validated
  <2> QED
    BY <2>1, LoginSerial
<1>5. CASE StoreTenant(h) \/ Sign(h) \/ Fail(h)
  BY <1>5, AnsweredSerial DEF StoreTenant, Sign, Fail
<1> QED
  BY <1>2, <1>3, <1>4, <1>5

(* The new row has a name nobody has, and takes nothing from the others. *)
LEMMA InsertSerial ==
  ASSUME RowsInv, SerialInv, NEW h \in Requests, InsertAccount(h)
  PROVE  SerialInv'
<1> DEFINE q == request[h]
<1>1. /\ accounts[nextAccount] = NONE /\ nextAccount \in AccountId
      /\ accounts'[nextAccount] \in {NONE, q.copy}
      /\ \A a \in AccountId \ {nextAccount} : accounts'[a] = accounts[a]
  BY Inserted
<1>2. Creating(q) /\ StillFree(q, accounts) /\ q.at = "insert"
  BY DEF InsertAccount, SerialInv, Creating
<1>3. /\ request'[h] = NoRequest
      /\ \A g \in Requests \ {h} : request'[g] = request[g]
  BY SlotFrame DEF InsertAccount, Finish, RowsInv
<1>4. OneCreation' /\ OneChange'
  BY <1>3, NoRequestStill DEF SerialInv, OneCreation, OneChange
<1>5. UsernamesAreUnique'
  BY <1>1, <1>2 DEF SerialInv, UsernamesAreUnique, Exists, StillFree
<1>6. ASSUME NEW g \in Requests \ {h}
      PROVE  StillAs(request[g], accounts') /\ StillFree(request[g], accounts')
  <2>1. ~Creating(request[g])
    BY <1>2 DEF SerialInv, OneCreation
  <2>2. StillFree(request[g], accounts')
    BY <2>1 DEF StillFree, Creating
  <2>3. ASSUME Loaded(request[g]) PROVE StillAs(request[g], accounts')
    <3> DEFINE a == request[g].account
    <3>1. StillAs(request[g], accounts) /\ a \in AccountId
      BY <2>3 DEF SerialInv, RowsInv, RecordsOk, RecordOk, Changing, Loaded
    <3>2. accounts'[a] = accounts[a]
      BY <1>1, <2>3, <3>1 DEF StillAs
    <3>3. Others(accounts, request[g].tenant, a) \subseteq Others(accounts', request[g].tenant, a)
      BY <1>1 DEF Others
    <3> QED
      BY <3>1, <3>2, <3>3 DEF StillAs
  <2> QED
    BY <2>2, <2>3 DEF StillAs
<1>7. \A g \in Requests : StillAs(request'[g], accounts') /\ StillFree(request'[g], accounts')
  BY <1>3, <1>6, NoRequestStill
<1> QED
  BY <1>4, <1>5, <1>7 DEF SerialInv

(* A save or a deletion, where nobody else changes accounts of the tenant. *)
LEMMA WrittenSerially ==
  ASSUME RowsInv, SerialInv, NEW h \in Requests, Save(h) \/ Delete(h)
  PROVE  LET q == request[h]
             a == q.account
         IN  /\ a \in AccountId /\ accounts[a] # NONE /\ accounts[a].tenant = q.tenant
             /\ \A b \in AccountId \ {a} : accounts'[b] = accounts[b]
             /\ \/ accounts'[a] = accounts[a]
                \/ Delete(h) /\ q.remove /\ accounts'[a] = NONE
                \/ Save(h) /\ ~q.remove /\ accounts'[a] = ChangedBy(q, accounts[a])
             /\ RevokedBy(q, accounts[a]) => Others(accounts, q.tenant, a) # {}
<1> DEFINE q == request[h]
           a == q.account
<1>1. Loaded(q) /\ a \in AccountId /\ \A b \in AccountId \ {a} : accounts'[b] = accounts[b]
  BY Written
<1>2. /\ q.at \in {"save", "delete"}
      /\ (Save(h) => q.at = "save") /\ (Delete(h) => q.at = "delete")
  BY DEF Save, Delete
<1>3. StillAs(q, accounts)
  BY DEF SerialInv
<1>4. \/ accounts'[a] = accounts[a]
      \/ Delete(h) /\ accounts'[a] = NONE
      \/ Save(h) /\ accounts'[a] = q.copy
  BY Written
<1> QED
  BY <1>1, <1>2, <1>3, <1>4 DEF StillAs

LEMMA ChangedKeeps ==
  ASSUME NEW q, NEW row \in Account
  PROVE  LET new == ChangedBy(q, row)
         IN  /\ new \in Account /\ new # NONE /\ new.role = row.role /\ new.tenant = row.tenant
             /\ new.username = row.username
BY RowAssumption DEF ChangedBy, Account

LEMMA WriteSerial ==
  ASSUME RowsInv, SerialInv, NEW h \in Requests, Save(h) \/ Delete(h)
  PROVE  SerialInv'
<1> DEFINE q == request[h]
           a == q.account
<1>1. /\ a \in AccountId /\ accounts[a] # NONE /\ accounts[a].tenant = q.tenant
      /\ \A b \in AccountId \ {a} : accounts'[b] = accounts[b]
      /\ \/ accounts'[a] = accounts[a] \/ accounts'[a] = NONE
         \/ accounts'[a] = ChangedBy(q, accounts[a])
  BY WrittenSerially
<1>2. accounts[a] \in Account
  BY <1>1 DEF RowsInv, TypeOK, OrNone
<1>3. accounts'[a] = NONE \/ accounts'[a].username = accounts[a].username
  BY <1>1, <1>2, ChangedKeeps
<1>4. /\ request'[h] = NoRequest
      /\ \A g \in Requests \ {h} : request'[g] = request[g]
  BY Written DEF RowsInv, TypeOK
<1>5. OneCreation' /\ OneChange'
  BY <1>4, NoRequestStill DEF SerialInv, OneCreation, OneChange
<1>6. UsernamesAreUnique'
  BY <1>1, <1>3 DEF SerialInv, UsernamesAreUnique, Exists
<1>7. Changing(q)
  BY Written DEF Loaded, Changing
<1>8. ASSUME NEW g \in Requests \ {h}
      PROVE  StillAs(request[g], accounts') /\ StillFree(request[g], accounts')
  <2>1. StillAs(request[g], accounts) /\ StillFree(request[g], accounts)
    BY DEF SerialInv
  <2>2. StillFree(request[g], accounts')
    BY <1>1, <1>3, <2>1 DEF StillFree
  <2>3. ASSUME Loaded(request[g]) PROVE StillAs(request[g], accounts')
    <3> DEFINE p == request[g]
               b == p.account
    <3>1. Changing(p) /\ b \in AccountId /\ accounts[b].tenant = p.tenant
      BY <2>1, <2>3 DEF StillAs, RowsInv, RecordsOk, RecordOk, Changing, Loaded
    <3>2. p.tenant # q.tenant
      BY <1>7, <3>1 DEF SerialInv, OneChange
    <3>3. accounts'[b] = accounts[b]
      BY <1>1, <3>1, <3>2
    <3>4. Others(accounts, p.tenant, b) \subseteq Others(accounts', p.tenant, b)
      BY <1>1, <3>2 DEF Others
    <3> QED
      BY <2>1, <3>3, <3>4 DEF StillAs
  <2> QED
    BY <2>2, <2>3 DEF StillAs
<1>9. \A g \in Requests : StillAs(request'[g], accounts') /\ StillFree(request'[g], accounts')
  BY <1>4, <1>8, NoRequestStill
<1> QED
  BY <1>5, <1>6, <1>9 DEF SerialInv

LEMMA SerialInit == Init => SerialInv
<1> SUFFICES ASSUME Init PROVE SerialInv
  OBVIOUS
<1>1. \A a \in AccountId : Exists(a) => a = 1
  BY DEF Init, Exists
<1>2. \A h \in Requests : request[h] = NoRequest
  BY DEF Init
<1> QED
  BY <1>1, <1>2, NoRequestStill DEF SerialInv, OneCreation, OneChange, UsernamesAreUnique

LEMMA SerialStep ==
  ASSUME Exclusive = TRUE, RowsInv, IdInv, SerialInv, [Next]_vars
  PROVE  SerialInv'
<1>1. ASSUME UNCHANGED <<accounts, request>> PROVE SerialInv'
  BY <1>1 DEF SerialInv, OneCreation, OneChange, UsernamesAreUnique, Exists
<1>2. ASSUME NEW h \in Requests, Reads(h) PROVE SerialInv'
  BY <1>2, CheckSerial, LoadSerial, CountSerial, OthersSerial DEF Reads
<1>3. ASSUME NEW token, NEW t, CreateTenant(token, t) PROVE SerialInv'
  BY <1>1, <1>3 DEF CreateTenant
<1>4. CASE UNCHANGED vars
  BY <1>1, <1>4 DEF vars
<1> QED
  BY <1>2, <1>3, <1>4, StepKinds, BeginSerial, InsertSerial, WriteSerial

(* A username names one account, in both tables and every municipality:     *)
(* what the registry found free is free when the row is inserted, where one *)
(* account at a time is created and one at a time changed in a tenant.      *)
THEOREM UsernamesStayUnique ==
  ASSUME Exclusive = TRUE
  PROVE  Spec => []UsernamesAreUnique
<1>1. SerialInv => UsernamesAreUnique
  BY DEF SerialInv
<1>2. RowsInv /\ IdInv /\ SerialInv /\ [Next]_vars => SerialInv'
  BY SerialStep
<1> QED
  BY RowsInit, RowsStep, IdInit, IdStep, SerialInit, <1>1, <1>2, PTL DEF Spec

-----------------------------------------------------------------------------
(* Nobody is locked out, nobody comes back                                 *)

LEMMA OneAdminStays ==
  ASSUME RowsInv, SerialInv, [Next]_vars, NEW t \in Tenants, ActiveAdmins(t) # {}
  PROVE  ActiveAdmins(t)' # {}
<1>1. ASSUME UNCHANGED accounts PROVE ActiveAdmins(t)' # {}
  BY <1>1 DEF ActiveAdmins, Active, Exists
<1>2. ASSUME NEW h \in Requests, InsertAccount(h) PROVE ActiveAdmins(t)' # {}
  <2>1. /\ accounts[nextAccount] = NONE
        /\ \A a \in AccountId \ {nextAccount} : accounts'[a] = accounts[a]
    BY <1>2, Inserted
  <2>2. ActiveAdmins(t) \subseteq ActiveAdmins(t)'
    BY <2>1 DEF ActiveAdmins, Active, Exists
  <2> QED
    BY <2>2
<1>3. ASSUME NEW h \in Requests, Save(h) \/ Delete(h) PROVE ActiveAdmins(t)' # {}
  <2> DEFINE q == request[h]
             a == q.account
  <2>1. /\ a \in AccountId /\ accounts[a] # NONE /\ accounts[a].tenant = q.tenant
        /\ \A b \in AccountId \ {a} : accounts'[b] = accounts[b]
        /\ \/ accounts'[a] = accounts[a]
           \/ Delete(h) /\ q.remove /\ accounts'[a] = NONE
           \/ Save(h) /\ ~q.remove /\ accounts'[a] = ChangedBy(q, accounts[a])
        /\ RevokedBy(q, accounts[a]) => Others(accounts, q.tenant, a) # {}
    BY <1>3, WrittenSerially
  <2>2. CASE \E b \in ActiveAdmins(t) : b # a
    BY <2>1, <2>2 DEF ActiveAdmins, Active, Exists
  <2>3. CASE ~\E b \in ActiveAdmins(t) : b # a
    <3>1. a \in ActiveAdmins(t) /\ t = q.tenant
      BY <2>1, <2>3 DEF ActiveAdmins
    <3>2. Others(accounts, q.tenant, a) = {}
      BY <2>3, <3>1 DEF Others, ActiveAdmins, Active, Exists
    <3>3. ~RevokedBy(q, accounts[a]) /\ accounts[a].role \in Staff /\ accounts[a].active
      BY <2>1, <3>1, <3>2 DEF ActiveAdmins, Active
    <3>4. ~q.remove /\ q.active # "off"
      BY <3>3 DEF RevokedBy
    <3>5. q.active \in {"on", "same"}
      BY <3>4 DEF RowsInv, TypeOK, Request
    <3>6. CASE accounts'[a] = accounts[a]
      BY <2>1, <3>1, <3>6 DEF ActiveAdmins, Active, Exists
    <3>7. CASE Save(h) /\ accounts'[a] = ChangedBy(q, accounts[a])
      <4>1. accounts[a] \in Account
        BY <2>1 DEF RowsInv, TypeOK, OrNone
      <4>2. /\ accounts'[a] # NONE
            /\ accounts'[a].role = accounts[a].role /\ accounts'[a].tenant = accounts[a].tenant
        BY <3>7, <4>1, ChangedKeeps
      <4>3. accounts'[a].active
        BY <3>3, <3>5, <3>7, <4>1 DEF ChangedBy, Account
      <4> QED
        BY <3>1, <4>2, <4>3 DEF ActiveAdmins, Active, Exists
    <3> QED
      BY <2>1, <3>4, <3>6, <3>7
  <2> QED
    BY <2>2, <2>3
<1> QED
  BY <1>1, <1>2, <1>3, AccountsStay

(* "The last one standing is not removable": a municipality that has an     *)
(* active administrator keeps one, where one change of an account at a time *)
(* is made in it; changes in other tenants, creations and failures overlap. *)
THEOREM OneAdminRemains ==
  ASSUME Exclusive = TRUE
  PROVE  Spec => LastAdminStays
<1> DEFINE Keeps(t) == ActiveAdmins(t) # {} => ActiveAdmins(t)' # {}
<1>1. RowsInv /\ SerialInv /\ [Next]_vars => [\A t \in Tenants : Keeps(t)]_vars
  BY OneAdminStays
<1>2. RowsInv /\ IdInv /\ SerialInv /\ [Next]_vars => SerialInv'
  BY SerialStep
<1>3. Spec => [][\A t \in Tenants : Keeps(t)]_vars
  BY RowsInit, RowsStep, IdInit, IdStep, SerialInit, <1>1, <1>2, PTL DEF Spec
<1> QED
  BY <1>3 DEF LastAdminStays

\* What RevokedStaysRevoked says of one account.
ByActivation(a) ==
  a < nextAccount /\ ~Active(a) /\ Active(a)' =>
    \E h \in Requests :
      request[h].at = "save" /\ request[h].account = a /\ request[h].active = "on"

LEMMA OnlyActivated ==
  ASSUME RowsInv, SerialInv, [Next]_vars, NEW a \in AccountId
  PROVE  ByActivation(a)
<1> SUFFICES ASSUME a < nextAccount, ~Active(a), Active(a)'
             PROVE  \E h \in Requests :
                      /\ request[h].at = "save" /\ request[h].account = a
                      /\ request[h].active = "on"
  BY DEF ByActivation
<1>1. accounts'[a] # accounts[a]
  BY DEF Active, Exists
<1>2. a # nextAccount
  BY NextIsNumber DEF RowsInv
<1>3. ASSUME NEW h \in Requests, InsertAccount(h) PROVE FALSE
  BY <1>1, <1>2, <1>3, Inserted
<1>4. PICK h \in Requests : Save(h) \/ Delete(h)
  BY <1>1, <1>3, AccountsStay
<1> DEFINE q == request[h]
<1>5. a = q.account
  BY <1>1, <1>4, Written
<1>6. accounts'[a] # NONE /\ accounts'[a].active
  BY DEF Active, Exists
<1>7. Save(h) /\ accounts'[a] = ChangedBy(q, accounts[a]) /\ accounts[a] # NONE
  BY <1>1, <1>4, <1>5, <1>6, WrittenSerially
<1>8. accounts[a] \in Account /\ ~accounts[a].active
  BY <1>7 DEF Active, Exists, RowsInv, TypeOK, OrNone
<1>9. q.active = "on"
  BY <1>6, <1>7, <1>8 DEF ChangedBy, Account
<1> QED
  BY <1>5, <1>7, <1>9 DEF Save

(* An account that was deactivated or removed comes back only by a request  *)
(* to activate it: no rename, password change or self-service does, where   *)
(* one change of an account at a time is made in a tenant.                  *)
THEOREM NobodyComesBack ==
  ASSUME Exclusive = TRUE
  PROVE  Spec => RevokedStaysRevoked
<1>1. RowsInv /\ SerialInv /\ [Next]_vars => [\A a \in AccountId : ByActivation(a)]_vars
  BY OnlyActivated
<1>2. RowsInv /\ IdInv /\ SerialInv /\ [Next]_vars => SerialInv'
  BY SerialStep
<1>3. Spec => [][\A a \in AccountId : ByActivation(a)]_vars
  BY RowsInit, RowsStep, IdInit, IdStep, SerialInit, <1>1, <1>2, PTL DEF Spec
<1> QED
  BY <1>3 DEF RevokedStaysRevoked, ByActivation
=============================================================================
