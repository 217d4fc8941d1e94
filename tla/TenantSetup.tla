----------------------------- MODULE TenantSetup ------------------------------
(***************************************************************************)
(* Setting up tenants with their roles, users and members (TenantsService, *)
(* UsersService), and the sessions users are given for what they are       *)
(* members of (AuthService, TenantContextInterceptor).                     *)
(*                                                                         *)
(* Creating a tenant is one request that inserts the tenant, then role     *)
(* after role with its permissions, then the owner's account and           *)
(* membership, without a transaction: it may stop after any of them, and   *)
(* other requests for the tenant run in between.  Nothing is ever deleted. *)
(*                                                                         *)
(* There is one app.  A role is named by its tenant, or "app" if it is of  *)
(* no tenant, and by its key; keys are numbered in the order of            *)
(* TENANT_ROLE_TEMPLATES, 1 being tenant_owner.  Roles of no tenant are    *)
(* there from the beginning.  Users are named by the address they are      *)
(* looked up by, which is taken never to change.  Left out are platform    *)
(* users, who are let through everywhere, the other columns of a tenant,   *)
(* and requests that are refused before they change anything.              *)
(***************************************************************************)
EXTENDS Naturals, FiniteSets

CONSTANTS
  Tenants,      \* tenants that may be created
  Users,        \* email addresses of users
  MemberIds,    \* ids of memberships
  LastKey,      \* the number of role templates
  Permissions,  \* permissions in the database
  Template,     \* the permissions of a template
  Requests,     \* handlers of administrators' requests
  Visits,       \* handlers of logins and context switches
  Bodies,       \* what administrators may ask for
  NoUser,       \* no owner in the body
  Keep,         \* a field the body does not have
  MaxInFlight   \* bound: requests and visits at once

Keys     == 1..LastKey
Owner    == 1
Own      == Tenants \X Keys
Roles    == (Tenants \cup {"app"}) \X Keys

(* "disabled" stands for every CommonStatus but active.                    *)
Statuses == {"active", "disabled"}

CreateBodies == [op : {"create"}, tenant : Tenants, init : BOOLEAN,
                 owner : Users \cup {NoUser}]
InitBodies   == [op : {"init"}, tenant : Tenants]
AddBodies    == [op : {"add"}, tenant : Tenants, user : Users, role : Roles]
UpdateBodies == [op : {"update"}, tenant : Tenants, id : MemberIds,
                 role : Roles \cup {Keep}, status : Statuses \cup {Keep}]

ASSUME SetupAssumption ==
  /\ LastKey \in Nat \ {0}
  /\ Template \in [Keys -> SUBSET Permissions]
  /\ "app" \notin Tenants
  /\ "none" \notin Tenants
  /\ NoUser \notin Users
  /\ Users # {}
  /\ Keep \notin Roles \cup Statuses
  /\ Bodies # {}
  /\ Bodies \subseteq CreateBodies \cup InitBodies \cup AddBodies \cup UpdateBodies
  /\ Requests \cap Visits = {}
  /\ MaxInFlight \in Nat

VARIABLES
  tenant,       \* whether a tenant exists
  role,         \* the roles of tenants that exist
  grant,        \* the permissions of a tenant's role
  user,         \* the status of the account of an address
  member,       \* a membership: status, user, tenant and role
  pc,           \* where the handler of a request or a visit stands
  body,         \* what a request asks for
  at,           \* the template a request has got to, 0 if none
  visit,        \* a visit's user, its context, and its session's memberships
  overtaken,    \* history: a membership was written during the visit
  initialized,  \* history: tenants for which initializeRoles has returned
  asked,        \* history: the body a tenant was created with
  broken,       \* history: tenants whose creation has failed half-way
  touched       \* history: memberships an administrator has updated

vars == <<tenant, role, grant, user, member, pc, body, at, visit, overtaken,
          initialized, asked, broken, touched>>

Handlers == Requests \cup Visits
InFlight == {h \in Handlers : pc[h] # "idle"}

NoBody   == CHOOSE b \in Bodies : TRUE
NoMember == [status |-> "absent", user |-> CHOOSE u \in Users : TRUE,
             tenant |-> "app", role |-> <<"app", Owner>>]
NoVisit  == [user |-> CHOOSE u \in Users : TRUE, context |-> "none", members |-> {}]

Goto(h, l) == pc' = [pc EXCEPT ![h] = l]

(* The handler of a request returns.                                       *)
Leave(r) ==
  /\ Goto(r, "idle")
  /\ body' = [body EXCEPT ![r] = NoBody]
  /\ at' = [at EXCEPT ![r] = 0]

Database == <<tenant, role, grant, user, member>>
Told     == <<initialized, asked, broken, touched>>

-----------------------------------------------------------------------------
Exists(ro) == ro[1] = "app" \/ ro \in role

(* create: the tenant, then its roles if not told otherwise, then its      *)
(* owner if there is one in the body.                                      *)
AfterInsert(b) ==
  IF b.init THEN "find" ELSE IF b.owner # NoUser THEN "ownerRole" ELSE "idle"

Create(r, b) ==
  /\ b.op = "create" /\ ~tenant[b.tenant]
  /\ tenant' = [tenant EXCEPT ![b.tenant] = TRUE]
  /\ asked' = [asked EXCEPT ![b.tenant] = b]
  /\ Goto(r, AfterInsert(b))
  /\ IF AfterInsert(b) = "idle" THEN UNCHANGED <<body, at>>
     ELSE /\ body' = [body EXCEPT ![r] = b]
          /\ at' = [at EXCEPT ![r] = IF b.init THEN 1 ELSE 0]
  /\ UNCHANGED <<role, grant, user, member, initialized, broken, touched>>

(* initializeRoles, addMember and updateMember, which looks for its        *)
(* membership.                                                             *)
Ask(r, b) ==
  /\ b.op # "create" /\ tenant[b.tenant]
  /\ b.op = "update" => /\ member[b.id].status # "absent"
                        /\ member[b.id].tenant = b.tenant
  /\ body' = [body EXCEPT ![r] = b]
  /\ at' = [at EXCEPT ![r] = IF b.op = "init" THEN 1 ELSE 0]
  /\ Goto(r, CASE b.op = "init"   -> "find"
               [] b.op = "add"    -> "role"
               [] b.op = "update" -> IF b.role = Keep THEN "write" ELSE "role")
  /\ UNCHANGED <<Database, Told>>

Begin(r) ==
  /\ pc[r] = "idle"
  /\ Cardinality(InFlight) < MaxInFlight
  /\ \E b \in Bodies : Create(r, b) \/ Ask(r, b)
  /\ UNCHANGED <<visit, overtaken>>

(* The handler throws: a check fails, a unique key refuses a row, or any   *)
(* database operation.  What it has written stays.                         *)
Fail(r) ==
  /\ pc[r] # "idle"
  /\ broken' = IF body[r].op = "create" THEN broken \cup {body[r].tenant} ELSE broken
  /\ Leave(r)
  /\ UNCHANGED <<Database, visit, overtaken, initialized, asked, touched>>

-----------------------------------------------------------------------------
(* initializeRoles looks for the role of each template ...                 *)
RoleAt(r) == <<body[r].tenant, at[r]>>

FindRole(r) ==
  /\ pc[r] = "find"
  /\ Goto(r, IF RoleAt(r) \in role THEN "grant" ELSE "create")
  /\ UNCHANGED <<Database, body, at, visit, overtaken, Told>>

(* ... creates it, unless its unique key is taken by now (Fail) ...        *)
CreateTemplateRole(r) ==
  /\ pc[r] = "create"
  /\ RoleAt(r) \notin role
  /\ role' = role \cup {RoleAt(r)}
  /\ Goto(r, "grant")
  /\ UNCHANGED <<tenant, grant, user, member, body, at, visit, overtaken, Told>>

SlipIsLast(r)  == at[r] + 1 >= LastKey
SlipNeverLast(r) == at[r] > LastKey

IsLast(r) == at[r] = LastKey

SlipOwnerRole(t) == <<t, LastKey>>

OwnerRole(t) == <<t, Owner>>

(* The role a request makes somebody a member with.                        *)
RoleOf(r) == IF body[r].op = "create" THEN OwnerRole(body[r].tenant) ELSE body[r].role

UserOf(r) == IF body[r].op = "create" THEN body[r].owner ELSE body[r].user

(* ... and gives it the permissions it does not have yet.                  *)
Grant(r) ==
  /\ pc[r] = "grant"
  /\ grant' = [grant EXCEPT ![RoleAt(r)] = @ \cup Template[at[r]]]
  /\ \/ /\ ~IsLast(r)
        /\ at' = [at EXCEPT ![r] = @ + 1]
        /\ Goto(r, "find")
        /\ UNCHANGED <<body, initialized>>
     \/ /\ IsLast(r)
        /\ initialized' = initialized \cup {body[r].tenant}
        /\ IF body[r].op = "create" /\ body[r].owner # NoUser
           THEN at' = [at EXCEPT ![r] = 0] /\ Goto(r, "role") /\ UNCHANGED body
           ELSE Leave(r)
  /\ UNCHANGED <<tenant, role, user, member, visit, overtaken, asked, broken, touched>>

(* create without initializeRoles looks for the owner's role.              *)
FindOwnerRole(r) ==
  /\ pc[r] = "ownerRole"
  /\ OwnerRole(body[r].tenant) \in role
  /\ Goto(r, "role")
  /\ UNCHANGED <<Database, body, at, visit, overtaken, Told>>

SlipRoleFits(ro, t) == Exists(ro)

(* addMember, updateMember: the role is of the tenant or of none.          *)
RoleFits(ro, t) == Exists(ro) /\ ro[1] \in {"app", t}

CheckRole(r) ==
  /\ pc[r] = "role"
  /\ RoleFits(RoleOf(r), body[r].tenant)
  /\ Goto(r, IF body[r].op = "update" THEN "write" ELSE "user")
  /\ UNCHANGED <<Database, body, at, visit, overtaken, Told>>

(* resolveMemberUser: by email address.                                    *)
FindUser(r) ==
  /\ pc[r] = "user"
  /\ Goto(r, IF user[UserOf(r)] = "absent" THEN "account" ELSE "upsert")
  /\ UNCHANGED <<Database, body, at, visit, overtaken, Told>>

CreateMemberUser(r) ==
  /\ pc[r] = "account"
  /\ user[UserOf(r)] = "absent"
  /\ user' = [user EXCEPT ![UserOf(r)] = "active"]
  /\ Goto(r, "upsert")
  /\ UNCHANGED <<tenant, role, grant, member, body, at, visit, overtaken, Told>>

Overtake == overtaken' = [c \in Visits |-> pc[c] # "idle"]

(* The unique key of memberships.                                          *)
SameKey(x, y) == x.user = y.user /\ x.tenant = y.tenant /\ x.role = y.role

Rows == {m \in MemberIds : member[m].status # "absent"}

Upsert(r) ==
  LET new == [status |-> "active", user |-> UserOf(r), tenant |-> body[r].tenant,
              role |-> RoleOf(r)]
      old == {m \in Rows : SameKey(member[m], new)} IN
  /\ pc[r] = "upsert"
  /\ \E m \in IF old # {} THEN old ELSE MemberIds \ Rows :
        member' = [member EXCEPT ![m] = new]
  /\ Leave(r)
  /\ Overtake
  /\ UNCHANGED <<tenant, role, grant, user, visit, Told>>

(* updateMember, unless another row has the key (Fail).                    *)
WriteMember(r) ==
  LET m   == body[r].id
      new == [member[m] EXCEPT
                !.role   = IF body[r].role = Keep THEN @ ELSE body[r].role,
                !.status = IF body[r].status = Keep THEN @ ELSE body[r].status] IN
  /\ pc[r] = "write"
  /\ \A n \in Rows \ {m} : ~SameKey(member[n], new)
  /\ member' = [member EXCEPT ![m] = new]
  /\ touched' = touched \cup {m}
  /\ Leave(r)
  /\ Overtake
  /\ UNCHANGED <<tenant, role, grant, user, visit, initialized, asked, broken>>

(* PermissionService.createRole, with a key of a template.                 *)
CreateRole(ro) ==
  /\ tenant[ro[1]] /\ ro \notin role
  /\ role' = role \cup {ro}
  /\ UNCHANGED <<tenant, grant, user, member, pc, body, at, visit, overtaken, Told>>

(* PermissionService.grantPermissions.                                     *)
GrantPermission(ro, p) ==
  /\ ro \in role
  /\ grant' = [grant EXCEPT ![ro] = @ \cup {p}]
  /\ UNCHANGED <<tenant, role, user, member, pc, body, at, visit, overtaken, Told>>

(* UsersService.create and update.                                         *)
SetUser(u, s) ==
  /\ user[u] = "absent" => s = "active"
  /\ user' = [user EXCEPT ![u] = s]
  /\ UNCHANGED <<tenant, role, grant, member, pc, body, at, visit, overtaken, Told>>

-----------------------------------------------------------------------------
(* The tenants in which a user has an active membership.                   *)
ActiveIn(u) == {member[m].tenant : m \in {n \in Rows : member[n].user = u
                                                       /\ member[n].status = "active"}}

SlipCandidates(u) == {member[m].tenant : m \in {n \in Rows : member[n].user = u}}

(* The memberships login and switchContext choose from.                    *)
Candidates(u) == ActiveIn(u)

Unchanged == <<Database, body, at, Told>>

(* login: an active user ...                                               *)
Login(c, u) ==
  /\ pc[c] = "idle"
  /\ Cardinality(InFlight) < MaxInFlight
  /\ user[u] = "active"
  /\ visit' = [visit EXCEPT ![c] = [NoVisit EXCEPT !.user = u]]
  /\ Goto(c, "context")
  /\ UNCHANGED <<Unchanged, overtaken>>

(* ... gets the context of any of its memberships.                         *)
ChooseContext(c) ==
  /\ pc[c] = "context"
  /\ LET found == Candidates(visit[c].user) IN
     \E t \in IF found = {} THEN {"none"} ELSE found :
        visit' = [visit EXCEPT ![c].context = t]
  /\ Goto(c, "issue")
  /\ UNCHANGED <<Unchanged, overtaken>>

(* switchContext: to a tenant the user is a member of, or to the app.      *)
Switch(c, u, t) ==
  /\ pc[c] = "idle"
  /\ Cardinality(InFlight) < MaxInFlight
  /\ \/ t \in Candidates(u)
     \/ t = "app" /\ Candidates(u) # {}
  /\ visit' = [visit EXCEPT ![c] = [NoVisit EXCEPT !.user = u, !.context = t]]
  /\ Goto(c, "issue")
  /\ UNCHANGED <<Unchanged, overtaken>>

(* issueSession reads the memberships again.                               *)
Issue(c) ==
  /\ pc[c] = "issue"
  /\ visit' = [visit EXCEPT ![c].members = ActiveIn(visit[c].user)]
  /\ Goto(c, "issued")
  /\ UNCHANGED <<Unchanged, overtaken>>

EndVisit(c) ==
  /\ pc[c] \in {"context", "issue", "issued"}
  /\ visit' = [visit EXCEPT ![c] = NoVisit]
  /\ overtaken' = [overtaken EXCEPT ![c] = FALSE]
  /\ Goto(c, "idle")
  /\ UNCHANGED Unchanged

(* TenantContextInterceptor: whether a request with this session and no    *)
(* other context is let through.                                           *)
Accepted(v) ==
  IF v.context \in Tenants THEN v.context \in v.members ELSE v.members # {}

-----------------------------------------------------------------------------
Init ==
  /\ tenant = [t \in Tenants |-> FALSE]
  /\ role = {}
  /\ grant = [ro \in Own |-> {}]
  /\ user = [u \in Users |-> "absent"]
  /\ member = [m \in MemberIds |-> NoMember]
  /\ pc = [h \in Handlers |-> "idle"]
  /\ body = [r \in Requests |-> NoBody]
  /\ at = [r \in Requests |-> 0]
  /\ visit = [c \in Visits |-> NoVisit]
  /\ overtaken = [c \in Visits |-> FALSE]
  /\ initialized = {}
  /\ asked = [t \in Tenants |-> NoBody]
  /\ broken = {}
  /\ touched = {}

Handle(r) ==
  \/ Begin(r)
  \/ Fail(r)
  \/ FindRole(r)
  \/ CreateTemplateRole(r)
  \/ Grant(r)
  \/ FindOwnerRole(r)
  \/ CheckRole(r)
  \/ FindUser(r)
  \/ CreateMemberUser(r)
  \/ Upsert(r)
  \/ WriteMember(r)

Visited(c) ==
  \/ \E u \in Users : Login(c, u)
  \/ ChooseContext(c)
  \/ \E u \in Users, t \in Tenants \cup {"app"} : Switch(c, u, t)
  \/ Issue(c)
  \/ EndVisit(c)

Next ==
  \/ \E r \in Requests : Handle(r)
  \/ \E c \in Visits : Visited(c)
  \/ \E ro \in Own : CreateRole(ro)
  \/ \E ro \in Own, p \in Permissions : GrantPermission(ro, p)
  \/ \E u \in Users, s \in Statuses : SetUser(u, s)

Spec == Init /\ [][Next]_vars

-----------------------------------------------------------------------------
Stages == {"idle", "find", "create", "grant", "ownerRole", "role", "user", "account",
           "upsert", "write", "context", "issue", "issued"}

TypeOK ==
  /\ tenant \in [Tenants -> BOOLEAN]
  /\ role \subseteq Own
  /\ grant \in [Own -> SUBSET Permissions]
  /\ user \in [Users -> Statuses \cup {"absent"}]
  /\ member \in [MemberIds -> [status : Statuses \cup {"absent"}, user : Users,
                               tenant : Tenants \cup {"app"}, role : Roles]]
  /\ pc \in [Handlers -> Stages]
  /\ body \in [Requests -> Bodies]
  /\ at \in [Requests -> 0..LastKey]
  /\ visit \in [Visits -> [user : Users, context : Tenants \cup {"app", "none"},
                           members : SUBSET Tenants]]
  /\ overtaken \in [Visits -> BOOLEAN]
  /\ initialized \subseteq Tenants
  /\ asked \in [Tenants -> Bodies]
  /\ broken \subseteq Tenants
  /\ touched \subseteq MemberIds

(* Once initializeRoles has returned for a tenant every role of the        *)
(* templates is there with all its permissions, whatever was there before, *)
(* failed before, or ran at the same time.                                 *)
RolesComplete ==
  \A t \in initialized : \A k \in Keys :
    <<t, k>> \in role /\ Template[k] \subseteq grant[<<t, k>>]

(* A membership is of an existing tenant and user and has an existing role *)
(* that is the tenant's own or of no tenant.                               *)
MembersFit ==
  \A m \in Rows :
    /\ member[m].tenant \in Tenants /\ tenant[member[m].tenant]
    /\ user[member[m].user] # "absent"
    /\ Exists(member[m].role)
    /\ member[m].role[1] \in {"app", member[m].tenant}

BeingCreated(t) ==
  \E r \in Requests : pc[r] # "idle" /\ body[r].op = "create" /\ body[r].tenant = t

(* The owner's membership, as it was made or updated by an administrator.  *)
HasOwner(t, u) ==
  \E m \in Rows :
    /\ member[m].user = u /\ member[m].tenant = t
    /\ m \in touched \/ (member[m].status = "active" /\ member[m].role = <<t, Owner>>)

(* A tenant whose creation has ended, and not failed, has the roles and    *)
(* the owner that were asked for.                                          *)
CreatedIsReady ==
  \A t \in Tenants :
    (tenant[t] /\ ~BeingCreated(t) /\ t \notin broken) =>
      /\ asked[t].init => t \in initialized
      /\ asked[t].owner # NoUser => HasOwner(t, asked[t].owner)

(* Neither initialisation nor creation returns with a tenant half set up.  *)
SetupIsWhole == RolesComplete /\ CreatedIsReady

(* A session issued while no membership was written is let through with    *)
(* its own context, if its user is an active member of any tenant.         *)
UndisturbedSessionsWork ==
  \A c \in Visits :
    (pc[c] = "issued" /\ ~overtaken[c]) =>
      (Accepted(visit[c]) <=> ActiveIn(visit[c].user) # {})
===============================================================================
