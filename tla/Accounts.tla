------------------------------ MODULE Accounts ------------------------------
(***************************************************************************)
(* Who may do what: municipalities, the accounts of their administrators   *)
(* and drivers, logins, and the requests that change accounts.             *)
(*                                                                         *)
(* Administrators and drivers are two tables with one sequence of ids.     *)
(* The slug of a municipality is its identity.  A request runs without     *)
(* interruption between two awaits; a statement is atomic, and so are the  *)
(* lookups of the guards in front of a handler.  save() writes the whole   *)
(* row as it was loaded and changed, and inserts it where it is gone.      *)
(* Names and passwords are left out: a login may have the password wrong.  *)
(***************************************************************************)
EXTENDS Integers, FiniteSets

CONSTANTS
  Requests,        \* slots for requests being handled
  NONE,            \* SQL NULL, no row
  Municipalities,  \* slugs a municipality may have
  Platform,        \* the slug of the bootstrap tenant
  Usernames,
  MaxAccounts,     \* bound: rows of admins and drivers
  MaxEdits,        \* bound: requests that change what there is
  MaxTokens,       \* bound: tokens handed out before the last login starts
  Exclusive        \* TRUE: one creation at a time, and one change at a time per tenant

AccountId == 1..MaxAccounts
Tenants == Municipalities \cup {Platform}

ASSUME BoundsAssumption ==
  /\ MaxAccounts \in Nat \ {0} /\ MaxEdits \in Nat /\ MaxTokens \in Nat
  /\ Exclusive \in BOOLEAN
  /\ NONE \notin Nat /\ NONE \notin Tenants

VARIABLES
  tenants,      \* tenants, by slug
  accounts,     \* admins and drivers
  nextAccount,  \* the next value of the id sequence
  tokens,       \* the JWTs that have been handed out
  request,      \* the requests in flight
  edits         \* how many changes have been asked for

vars == <<tenants, accounts, nextAccount, tokens, request, edits>>

-----------------------------------------------------------------------------
(* Types                                                                   *)

OrNone(S) == S \cup {NONE}

Roles == {"SUPER_ADMIN", "ADMIN", "DRIVER"}
Staff == {"SUPER_ADMIN", "ADMIN"}

Tenant == [active: BOOLEAN]
Account == [role: Roles, tenant: Tenants, username: Usernames, active: BOOLEAN]
Token == [id: AccountId, role: Roles, tenant: Tenants]

ASSUME RowAssumption == NONE \notin Tenant \cup Account \cup Token

\* `by`: the token it came with; `tenant`: the tenant it is about; `account`: the row;
\* `active`: what isActive is to be; `copy`: the entity, as loaded and changed.
Request == [at: {"idle", "check", "insert", "load", "count", "save", "delete", "find", "store",
                 "slug", "admin", "driver", "sign"},
            by: OrNone(Token), tenant: OrNone(Tenants), account: OrNone(AccountId),
            self: BOOLEAN, remove: BOOLEAN, active: {"on", "off", "same"},
            username: OrNone(Usernames), copy: OrNone(Account), was: OrNone(Tenant)]
NoRequest == [at |-> "idle", by |-> NONE, tenant |-> NONE, account |-> NONE,
              self |-> FALSE, remove |-> FALSE, active |-> "same",
              username |-> NONE, copy |-> NONE, was |-> NONE]

TypeOK ==
  /\ tenants \in [Tenants -> OrNone(Tenant)]
  /\ accounts \in [AccountId -> OrNone(Account)]
  /\ nextAccount \in 1..(MaxAccounts + 1)
  /\ \A a \in AccountId : accounts[a] # NONE => a < nextAccount
  /\ tokens \subseteq Token
  /\ request \in [Requests -> Request]
  /\ edits \in 0..MaxEdits

-----------------------------------------------------------------------------
(* What the statements select                                              *)

Exists(a) == accounts[a] # NONE
Active(a) == Exists(a) /\ accounts[a].active
ActiveTenant(t) == tenants[t] # NONE /\ tenants[t].active

\* Mutant: only the table of the new account is looked at.
IsTaken_OwnTable(row) ==
  \E a \in AccountId : /\ Exists(a) /\ accounts[a].username = row.username
                       /\ accounts[a].role \in Staff <=> row.role \in Staff
\* UsernameRegistryService: across both tables and every tenant.
IsTaken(row) == \E a \in AccountId : Exists(a) /\ accounts[a].username = row.username

\* UNIQUE (tenant_id, username) of either table.
Collides(id, row) ==
  \E a \in AccountId \ {id} :
    /\ Exists(a)
    /\ accounts[a].username = row.username /\ accounts[a].tenant = row.tenant
    /\ accounts[a].role \in Staff <=> row.role \in Staff

\* Mutant: the administrators of every tenant are counted.
OtherActiveAdmins_Everywhere(t, id) ==
  {a \in AccountId \ {id} : Active(a) /\ accounts[a].role \in Staff}
OtherActiveAdmins(t, id) ==
  {a \in AccountId \ {id} : Active(a) /\ accounts[a].role \in Staff /\ accounts[a].tenant = t}

\* findByUsername, in a tenant or in all of them: any of these.
Named(roles, username, t) ==
  {a \in AccountId : /\ Exists(a)
                     /\ accounts[a].role \in roles
                     /\ accounts[a].username = username
                     /\ t # NONE => accounts[a].tenant = t}

-----------------------------------------------------------------------------
(* Requests                                                                *)

Goto(h, rec) == request' = [request EXCEPT ![h] = rec]
Finish(h) == Goto(h, NoRequest)
Step(h, at) == Goto(h, [request[h] EXCEPT !.at = at])

\* The account of the token's holder and its tenant are still active.
VerifyActiveUser(token) == Active(token.id) /\ ActiveTenant(token.tenant)

\* Mutant: the header is taken at its word.
Contexts_AnyRole(token) == {token.tenant} \cup {t \in Tenants : ActiveTenant(t)}
\* resolveActingTenantId: whom the operator may act for.
ActingTenants(token) == {t \in Tenants : token.role = "SUPER_ADMIN" /\ ActiveTenant(t)}
\* The tenants a request may run in, by its X-Acting-Tenant-Id.
Contexts(token) == {token.tenant} \cup ActingTenants(token)

\* @Roles(required).
Permits(token, required) == token.role \in {"SUPER_ADMIN", required}

\* What comes through the guards of a controller.
Call(h, token, required, rec) ==
  /\ request[h] = NoRequest
  /\ token \in tokens /\ VerifyActiveUser(token) /\ Permits(token, required)
  /\ Goto(h, [rec EXCEPT !.by = token])

Changes(g, t) == request[g].at \in {"load", "count", "save", "delete"} /\ request[g].tenant = t
Creates(g) == request[g].at \in {"check", "insert"}
Stores(g, t) == request[g].at \in {"find", "store"} /\ request[g].tenant = t

Counted == edits < MaxEdits /\ edits' = edits + 1

(* AdminsService.create, DriversService.create                             *)

Create(h, token, required, role, t, username) ==
  /\ Exclusive => \A g \in Requests : ~Creates(g)
  /\ Call(h, token, required,
          [NoRequest EXCEPT !.at = "check", !.tenant = t,
             !.copy = [role |-> role, tenant |-> t, username |-> username,
                       active |-> TRUE]])
  /\ UNCHANGED <<tenants, accounts, nextAccount, tokens, edits>>

\* POST admins, in the tenant of the request.
CreateAdmin(h, token, t, username) ==
  /\ t \in Contexts(token)
  /\ Create(h, token, "SUPER_ADMIN", "ADMIN", t, username)

\* POST tenants/:id/admins: any tenant there is.
CreateTenantAdmin(h, token, t, username) ==
  /\ tenants[t] # NONE
  /\ Create(h, token, "SUPER_ADMIN", "ADMIN", t, username)

CreateDriver(h, token, t, username) ==
  /\ t \in Contexts(token)
  /\ Create(h, token, "ADMIN", "DRIVER", t, username)

CheckUsername(h) ==
  /\ request[h].at = "check"
  /\ IF IsTaken(request[h].copy) THEN Finish(h) ELSE Step(h, "insert")
  /\ UNCHANGED <<tenants, accounts, nextAccount, tokens, edits>>

\* Mutant: rows keep getting the same id.
InsertAccount_SameId(h) ==
  /\ request[h].at = "insert"
  /\ nextAccount \in AccountId
  /\ accounts' = IF Collides(nextAccount, request[h].copy) THEN accounts
                 ELSE [accounts EXCEPT ![nextAccount] = request[h].copy]
  /\ nextAccount' = nextAccount
  /\ Finish(h)
  /\ UNCHANGED <<tenants, tokens, edits>>
InsertAccount(h) ==
  /\ request[h].at = "insert"
  /\ nextAccount \in AccountId
  /\ accounts' = IF Collides(nextAccount, request[h].copy) THEN accounts
                 ELSE [accounts EXCEPT ![nextAccount] = request[h].copy]
  /\ nextAccount' = nextAccount + 1
  /\ Finish(h)
  /\ UNCHANGED <<tenants, tokens, edits>>

(* Their update, updateSelf and remove                                     *)

Change(h, token, required, t, rec) ==
  /\ Counted
  /\ Exclusive => \A g \in Requests : ~Changes(g, t)
  /\ Exists(rec.account)
  /\ Call(h, token, required, [rec EXCEPT !.at = "load", !.tenant = t])
  /\ UNCHANGED <<tenants, accounts, nextAccount, tokens>>

\* Administrators are for the platform operator to change, drivers for any of the staff.
Manager(a) == IF accounts[a].role \in Staff THEN "SUPER_ADMIN" ELSE "ADMIN"

\* A name or a password ("same"), or whether the account is in use.
Update(h, token, t, a, active) ==
  /\ t \in Contexts(token)
  /\ Change(h, token, Manager(a), t, [NoRequest EXCEPT !.account = a, !.active = active])

\* The row of the token's holder, whatever tenant the request is in.
UpdateSelf(h, token) ==
  Change(h, token, "ADMIN", token.tenant, [NoRequest EXCEPT !.account = token.id, !.self = TRUE])

Remove(h, token, t, a) ==
  /\ t \in Contexts(token)
  /\ Change(h, token, Manager(a), t, [NoRequest EXCEPT !.account = a, !.remove = TRUE])

Found(h) ==
  /\ Exists(request[h].account)
  /\ request[h].self \/ accounts[request[h].account].tenant = request[h].tenant

\* Mutant: whoever is updated is active again.
Changed_Activates(h, row) == [row EXCEPT !.active = request[h].active # "off"]
Changed(h, row) ==
  [row EXCEPT !.active = IF request[h].active = "same" THEN @ ELSE request[h].active = "on"]

\* An administrator is to lose access.
Revokes(h, row) == row.role \in Staff /\ (request[h].remove \/ request[h].active = "off")

Load(h) ==
  LET a == request[h].account
  IN  /\ request[h].at = "load"
      /\ IF ~Found(h) \/ (Revokes(h, accounts[a]) /\ a = request[h].by.id) THEN Finish(h)
         ELSE Goto(h, [request[h] EXCEPT
                !.copy = Changed(h, accounts[a]),
                !.at = IF Revokes(h, accounts[a]) THEN "count"
                       ELSE IF request[h].remove THEN "delete" ELSE "save"])
      /\ UNCHANGED <<tenants, accounts, nextAccount, tokens, edits>>

AssertNotLastActiveAdmin(h) ==
  /\ request[h].at = "count"
  /\ IF OtherActiveAdmins(request[h].tenant, request[h].account) = {} THEN Finish(h)
     ELSE Step(h, IF request[h].remove THEN "delete" ELSE "save")
  /\ UNCHANGED <<tenants, accounts, nextAccount, tokens, edits>>

Save(h) ==
  LET a == request[h].account
  IN  /\ request[h].at = "save"
      /\ accounts' = IF Collides(a, request[h].copy) THEN accounts
                     ELSE [accounts EXCEPT ![a] = request[h].copy]
      /\ Finish(h)
      /\ UNCHANGED <<tenants, nextAccount, tokens, edits>>

Delete(h) ==
  /\ request[h].at = "delete"
  /\ accounts' = [accounts EXCEPT ![request[h].account] = NONE]
  /\ Finish(h)
  /\ UNCHANGED <<tenants, nextAccount, tokens, edits>>

(* TenantsService                                                          *)

\* The slug is UNIQUE, and the platform's is reserved.
CreateTenant(token, t) ==
  /\ token \in tokens /\ VerifyActiveUser(token) /\ Permits(token, "SUPER_ADMIN")
  /\ t # Platform /\ tenants[t] = NONE
  /\ tenants' = [tenants EXCEPT ![t] = [active |-> TRUE]]
  /\ UNCHANGED <<accounts, nextAccount, tokens, request, edits>>

\* Its name, or whether it is in service.
UpdateTenant(h, token, t, active) ==
  /\ Counted
  /\ Exclusive => \A g \in Requests : ~Stores(g, t)
  /\ Call(h, token, "SUPER_ADMIN", [NoRequest EXCEPT !.at = "find", !.tenant = t,
                                                       !.active = active])
  /\ UNCHANGED <<tenants, accounts, nextAccount, tokens>>

FindTenant(h) ==
  LET row == tenants[request[h].tenant]
  IN  /\ request[h].at = "find"
      /\ IF row = NONE THEN Finish(h)
         ELSE Goto(h, [request[h] EXCEPT !.at = "store",
                !.was = IF request[h].active = "same" THEN row
                        ELSE [active |-> request[h].active = "on"]])
      /\ UNCHANGED <<tenants, accounts, nextAccount, tokens, edits>>

StoreTenant(h) ==
  /\ request[h].at = "store"
  /\ tenants' = [tenants EXCEPT ![request[h].tenant] = request[h].was]
  /\ Finish(h)
  /\ UNCHANGED <<accounts, nextAccount, tokens, edits>>

(* AuthService                                                             *)

\* On a municipality's subdomain (t), or on the bare apex (NONE).
Login(h, t, username) ==
  /\ Cardinality(tokens) < MaxTokens
  /\ request[h] = NoRequest
  /\ Goto(h, [NoRequest EXCEPT !.at = IF t = NONE THEN "admin" ELSE "slug", !.tenant = t,
                               !.username = username])
  /\ UNCHANGED <<tenants, accounts, nextAccount, tokens, edits>>

FindSlug(h) ==
  /\ request[h].at = "slug"
  /\ IF ActiveTenant(request[h].tenant) THEN Step(h, "admin") ELSE Finish(h)
  /\ UNCHANGED <<tenants, accounts, nextAccount, tokens, edits>>

\* The account is active and the password its own: on to the token, else to `next`.
Validate(h, roles, next) ==
  \/ Goto(h, next)
  \/ \E a \in Named(roles, request[h].username, request[h].tenant) :
       /\ Active(a)
       /\ Goto(h, [request[h] EXCEPT !.at = "sign", !.account = a, !.copy = accounts[a]])

ValidateAdmin(h) ==
  /\ request[h].at = "admin"
  /\ Validate(h, Staff, [request[h] EXCEPT !.at = "driver"])
  /\ UNCHANGED <<tenants, accounts, nextAccount, tokens, edits>>

ValidateDriver(h) ==
  /\ request[h].at = "driver"
  /\ Validate(h, {"DRIVER"}, NoRequest)
  /\ UNCHANGED <<tenants, accounts, nextAccount, tokens, edits>>

\* A suspended municipality blocks the login of all of its users.
Sign(h) ==
  LET row == request[h].copy
  IN  /\ request[h].at = "sign"
      /\ tokens' = IF ~ActiveTenant(row.tenant) THEN tokens
                   ELSE tokens \cup {[id |-> request[h].account, role |-> row.role,
                                      tenant |-> row.tenant]}
      /\ Finish(h)
      /\ UNCHANGED <<tenants, accounts, nextAccount, edits>>

\* A statement fails, or the process restarts.
Fail(h) ==
  /\ request[h] # NoRequest
  /\ Finish(h)
  /\ UNCHANGED <<tenants, accounts, nextAccount, tokens, edits>>

-----------------------------------------------------------------------------

\* As the seed leaves it: the platform and its operator.
Init ==
  /\ tenants = [t \in Tenants |-> IF t = Platform THEN [active |-> TRUE] ELSE NONE]
  /\ \E username \in Usernames :
       accounts = [a \in AccountId |->
         IF a = 1 THEN [role |-> "SUPER_ADMIN", tenant |-> Platform, username |-> username,
                        active |-> TRUE]
         ELSE NONE]
  /\ nextAccount = 2
  /\ tokens = {}
  /\ request = [h \in Requests |-> NoRequest]
  /\ edits = 0

Ask(h, token) ==
  /\ request[h] = NoRequest
  /\ \/ UpdateSelf(h, token)
     \/ \E t \in Tenants, username \in Usernames :
          \/ CreateAdmin(h, token, t, username)
          \/ CreateTenantAdmin(h, token, t, username)
          \/ CreateDriver(h, token, t, username)
     \/ \E t \in Tenants, a \in AccountId :
          \/ \E active \in {"on", "off", "same"} : Update(h, token, t, a, active)
          \/ Remove(h, token, t, a)
     \/ \E t \in Tenants, active \in {"on", "off", "same"} :
          UpdateTenant(h, token, t, active)

Proceed(h) ==
  \/ CheckUsername(h) \/ InsertAccount(h)
  \/ Load(h) \/ AssertNotLastActiveAdmin(h) \/ Save(h) \/ Delete(h)
  \/ FindTenant(h) \/ StoreTenant(h)
  \/ FindSlug(h) \/ ValidateAdmin(h) \/ ValidateDriver(h) \/ Sign(h)
  \/ Fail(h)

Next ==
  \/ \E token \in tokens, t \in Tenants : CreateTenant(token, t)
  \/ \E h \in Requests :
       \/ \E t \in OrNone(Tenants), username \in Usernames : Login(h, t, username)
       \/ \E token \in tokens : Ask(h, token)
       \/ Proceed(h)

Spec == Init /\ [][Next]_vars

-----------------------------------------------------------------------------
(* Properties                                                              *)

(* A municipality that has an active administrator keeps one, whatever     *)
(* else goes on: deactivations, removals, renames and password changes     *)
(* there and in other tenants, and the platform operator's own.  "The last *)
(* one standing is not removable, even deliberately."                      *)
ActiveAdmins(t) ==
  {a \in AccountId : Active(a) /\ accounts[a].role \in Staff /\ accounts[a].tenant = t}
LastAdminStays == [][\A t \in Tenants : ActiveAdmins(t) # {} => ActiveAdmins(t)' # {}]_vars

(* A username names one account, in both tables and all municipalities: a  *)
(* login on the bare apex, which looks in all of them, is never ambiguous. *)
UsernamesAreUnique ==
  \A a, b \in AccountId :
    Exists(a) /\ Exists(b) /\ accounts[a].username = accounts[b].username => a = b

(* Whoever was deactivated or removed stays so until a request to activate *)
(* that very account is carried out: no rename, no password change and no  *)
(* self-service ("never touches isActive") brings an account back.         *)
RevokedStaysRevoked ==
  [][\A a \in AccountId :
       a < nextAccount /\ ~Active(a) /\ Active(a)' =>
         \E h \in Requests :
           request[h].at = "save" /\ request[h].account = a /\ request[h].active = "on"]_vars

(* An account changes only by a request of the staff of its municipality   *)
(* or of the platform operator, whatever tenant the request asks to act    *)
(* in; and administrators only by the operator's, or their own.            *)
OnlyByStaff ==
  [][\A a \in AccountId :
       accounts'[a] # accounts[a] =>
         LET row == IF Exists(a) THEN accounts[a] ELSE accounts'[a]
         IN  \E h \in Requests :
               LET by == request[h].by
               IN  /\ request'[h] = NoRequest /\ by # NONE
                   /\ by.role \in Staff
                   /\ by.role = "SUPER_ADMIN" \/ by.tenant = row.tenant
                   /\ row.role \in Staff => by.role = "SUPER_ADMIN" \/ by.id = a]_vars
=============================================================================
