-------------------------- MODULE TenantSetupProofs ---------------------------
(***************************************************************************)
(* Proofs about TenantSetup, for any tenants, users, templates and bodies. *)
(*                                                                         *)
(* The argument: what a request has found out or done so far (Facts) stays *)
(* true because rows are only added and permissions only granted (Grows),  *)
(* whatever other requests do in between.                                  *)
(***************************************************************************)
EXTENDS TenantSetup, TLAPS

Complete(t, k) == <<t, k>> \in role /\ Template[k] \subseteq grant[<<t, k>>]

(* Which bodies the handler of a request may have at its stages.           *)
Stage(r) ==
  /\ pc[r] \in {"idle", "find", "create", "grant", "ownerRole", "role", "user",
                "account", "upsert", "write"}
  /\ pc[r] \in {"find", "create", "grant"} =>
       /\ body[r].op \in {"create", "init"}
       /\ body[r].op = "create" => body[r].init
       /\ at[r] \in Keys
  /\ pc[r] = "ownerRole" => body[r].op = "create" /\ ~body[r].init
  /\ pc[r] = "role" =>
       /\ body[r].op \in {"create", "add", "update"}
       /\ body[r].op = "update" => body[r].role # Keep
  /\ pc[r] \in {"user", "account", "upsert"} => body[r].op \in {"create", "add"}
  /\ pc[r] = "write" => body[r].op = "update"
  /\ (pc[r] \in {"ownerRole", "role", "user", "account", "upsert"}
      /\ body[r].op = "create") => body[r].owner # NoUser

(* The tenant of a request exists, and was created as asked.               *)
Owned(r) ==
  pc[r] # "idle" =>
    /\ tenant[body[r].tenant]
    /\ body[r].op = "create" => asked[body[r].tenant] = body[r]

(* initializeRoles has got to a template, or is through.                   *)
Progress(r) ==
  /\ pc[r] = "grant" => RoleAt(r) \in role
  /\ pc[r] \in {"find", "create", "grant"} =>
       \A k \in Keys : k < at[r] => Complete(body[r].tenant, k)

Through(r) ==
  (pc[r] \in {"role", "user", "account", "upsert"} /\ body[r].op = "create"
   /\ body[r].init) => body[r].tenant \in initialized

(* The role and the user of a membership about to be written have been     *)
(* looked up, and so has a membership to update.                           *)
Checked(r) ==
  /\ pc[r] \in {"user", "account", "upsert"} => RoleFits(RoleOf(r), body[r].tenant)
  /\ (pc[r] = "write" /\ body[r].role # Keep) => RoleFits(body[r].role, body[r].tenant)

Known(r) == pc[r] = "upsert" => user[UserOf(r)] # "absent"

Target(r) ==
  (pc[r] \in {"role", "write"} /\ body[r].op = "update") =>
     /\ member[body[r].id].status # "absent"
     /\ member[body[r].id].tenant = body[r].tenant

(* What the handler of a request has found out or done.                    *)
Facts(r) == Owned(r) /\ Progress(r) /\ Through(r) /\ Checked(r) /\ Known(r) /\ Target(r)

StageInv == \A r \in Requests : Stage(r)
FactsInv == \A r \in Requests : Facts(r)

(* What a visit has read, unless a membership was written since.           *)
Seen(c) ==
  /\ pc[c] \in {"idle", "context", "issue", "issued"}
  /\ (pc[c] \in {"issue", "issued"} /\ ~overtaken[c]) =>
       IF ActiveIn(visit[c].user) = {} THEN visit[c].context = "none"
       ELSE visit[c].context \in ActiveIn(visit[c].user) \cup {"app"}
  /\ (pc[c] = "issued" /\ ~overtaken[c]) => visit[c].members = ActiveIn(visit[c].user)

SeenInv == \A c \in Visits : Seen(c)

SetupInv == TypeOK /\ StageInv /\ FactsInv /\ RolesComplete /\ MembersFit

-----------------------------------------------------------------------------
(* The fields of a body.                                                   *)
LEMMA BodyFields ==
  ASSUME NEW b \in Bodies
  PROVE  /\ b.tenant \in Tenants
         /\ b.op \in {"create", "init", "add", "update"}
         /\ b.op = "create" => b.init \in BOOLEAN /\ b.owner \in Users \cup {NoUser}
         /\ b.op = "add" => b.user \in Users /\ b.role \in Roles
         /\ b.op = "update" => /\ b.id \in MemberIds
                               /\ b.role \in Roles \cup {Keep}
                               /\ b.status \in Statuses \cup {Keep}
<1>1. CASE b \in CreateBodies BY <1>1 DEF CreateBodies
<1>2. CASE b \in InitBodies BY <1>2 DEF InitBodies
<1>3. CASE b \in AddBodies BY <1>3 DEF AddBodies
<1>4. CASE b \in UpdateBodies BY <1>4 DEF UpdateBodies
<1> QED BY <1>1, <1>2, <1>3, <1>4, SetupAssumption

(* The record a membership has before it is made, and a visit's.           *)
LEMMA Defaults ==
  /\ NoBody \in Bodies
  /\ NoMember \in [status : {"absent"}, user : Users, tenant : {"app"}, role : Roles]
  /\ NoVisit \in [user : Users, context : {"none"}, members : {{}}]
<1>1. NoBody \in Bodies BY SetupAssumption DEF NoBody
<1>2. (CHOOSE u \in Users : TRUE) \in Users BY SetupAssumption
<1>3. <<"app", Owner>> \in Roles
  BY SetupAssumption DEF Roles, Keys, Owner
<1> QED BY <1>1, <1>2, <1>3 DEF NoMember, NoVisit

(* The user and the role of a request that makes somebody a member.        *)
LEMMA MemberFields ==
  ASSUME TypeOK, StageInv, NEW r \in Requests
  PROVE  /\ body[r] \in Bodies /\ body[r].tenant \in Tenants
         /\ pc[r] \in {"role", "user", "account", "upsert"} => RoleOf(r) \in Roles
         /\ pc[r] \in {"user", "account", "upsert"} => UserOf(r) \in Users
<1>1. body[r] \in Bodies BY DEF TypeOK
<1>2. OwnerRole(body[r].tenant) \in Roles
  BY <1>1, BodyFields, SetupAssumption DEF OwnerRole, Roles, Keys, Owner
<1>3. Stage(r) BY DEF StageInv
<1> QED BY <1>1, <1>2, <1>3, BodyFields DEF RoleOf, UserOf, Stage

(* The tenants a user is active in are tenants.                            *)
LEMMA ActiveInTenants ==
  ASSUME MembersFit, NEW u
  PROVE  ActiveIn(u) \subseteq Tenants
BY DEF MembersFit, ActiveIn, Rows

(* While no membership is written everybody is active where they were.     *)
LEMMA ActiveInKept ==
  ASSUME member' = member, NEW u
  PROVE  ActiveIn(u)' = ActiveIn(u)
BY DEF ActiveIn, Rows

-----------------------------------------------------------------------------
(* The invariant holds at the beginning.                                   *)
LEMMA SetupInit == Init => SetupInv /\ SeenInv /\ CreatedIsReady
<1> SUFFICES ASSUME Init PROVE SetupInv /\ SeenInv /\ CreatedIsReady
  OBVIOUS
<1>1. TypeOK
  BY Defaults, SetupAssumption DEF Init, TypeOK, Handlers, Stages, Own
<1>2. StageInv BY DEF Init, StageInv, Stage, Handlers
<1>3. FactsInv BY DEF Init, FactsInv, Facts, Handlers, Owned, Progress, Through, Checked, Known, Target
<1>4. RolesComplete BY DEF Init, RolesComplete
<1>5. MembersFit BY Defaults DEF Init, MembersFit, Rows
<1>6. SeenInv BY DEF Init, SeenInv, Seen, Handlers
<1>7. CreatedIsReady BY DEF Init, CreatedIsReady
<1> QED BY <1>1, <1>2, <1>3, <1>4, <1>5, <1>6, <1>7 DEF SetupInv

(* No step undoes what was done.                                           *)
Grows ==
  /\ \A t \in Tenants : tenant[t] => tenant'[t] /\ asked'[t] = asked[t]
  /\ role \subseteq role'
  /\ \A ro \in Own : grant[ro] \subseteq grant'[ro]
  /\ \A u \in Users : user[u] # "absent" => user'[u] # "absent"
  /\ \A m \in MemberIds : member[m].status # "absent" =>
       /\ member'[m].status # "absent"
       /\ member'[m].user = member[m].user
       /\ member'[m].tenant = member[m].tenant
  /\ initialized \subseteq initialized'

(* Rows are added or overwritten with the same key, and permissions are    *)
(* added.                                                                  *)
LEMMA StepGrows ==
  ASSUME SetupInv, Next
  PROVE  Grows
<1> USE DEF SetupInv, TypeOK, Grows
<1>1. ASSUME NEW r \in Requests, Begin(r) PROVE Grows
  BY <1>1, BodyFields DEF Begin, Create, Ask, Database, Told
<1>2. ASSUME NEW r \in Requests,
             Fail(r) \/ FindRole(r) \/ FindOwnerRole(r) \/ CheckRole(r) \/ FindUser(r)
      PROVE  Grows
  BY <1>2 DEF Fail, FindRole, FindOwnerRole, CheckRole, FindUser, Database, Told
<1>3. ASSUME NEW r \in Requests, CreateTemplateRole(r) PROVE Grows
  BY <1>3 DEF CreateTemplateRole, Told
<1>4. ASSUME NEW r \in Requests, Grant(r) PROVE Grows
  BY <1>4 DEF Grant
<1>5. ASSUME NEW r \in Requests, CreateMemberUser(r) PROVE Grows
  BY <1>5, MemberFields DEF CreateMemberUser, Told
<1>6. ASSUME NEW r \in Requests, Upsert(r) PROVE Grows
  BY <1>6 DEF Upsert, Told, Rows, SameKey
<1>7. ASSUME NEW r \in Requests, WriteMember(r) PROVE Grows
  <2> DEFINE old == member[body[r].id]
             new == [old EXCEPT
                       !.role   = IF body[r].role = Keep THEN @ ELSE body[r].role,
                       !.status = IF body[r].status = Keep THEN @ ELSE body[r].status]
  <2>1. body[r].op = "update" BY <1>7 DEF WriteMember, StageInv, Stage
  <2>4. body[r].id \in MemberIds /\ body[r].status \in Statuses \cup {Keep}
    BY <2>1, BodyFields
  <2>5. new.user = old.user /\ new.tenant = old.tenant
        /\ (old.status # "absent" => new.status # "absent")
    BY <2>4 DEF Statuses
  <2>6. member' = [member EXCEPT ![body[r].id] = new] BY <1>7 DEF WriteMember
  <2> HIDE DEF new
  <2>2. UNCHANGED <<tenant, role, grant, user, initialized, asked>>
    BY <1>7 DEF WriteMember
  <2>3. ASSUME NEW m \in MemberIds, member[m].status # "absent"
        PROVE  /\ member'[m].status # "absent"
               /\ member'[m].user = member[m].user
               /\ member'[m].tenant = member[m].tenant
    BY <2>3, <2>4, <2>5, <2>6
  <2> QED BY <2>2, <2>3
<1>8. ASSUME NEW c \in Visits, Visited(c) PROVE Grows
  BY <1>8 DEF Visited, Login, ChooseContext, Switch, Issue, EndVisit, Unchanged,
              Database, Told
<1>9. ASSUME NEW ro \in Own, CreateRole(ro) PROVE Grows
  BY <1>9 DEF CreateRole, Told
<1>10. ASSUME NEW ro \in Own, NEW p \in Permissions, GrantPermission(ro, p) PROVE Grows
  BY <1>10 DEF GrantPermission, Told
<1>11. ASSUME NEW u \in Users, NEW s \in Statuses, SetUser(u, s) PROVE Grows
  BY <1>11 DEF SetUser, Statuses, Told
<1> QED
  BY <1>1, <1>2, <1>3, <1>4, <1>5, <1>6, <1>7, <1>8, <1>9, <1>10, <1>11
  DEF Next, Handle

(* The types, action by action.                                            *)
LEMMA StepTypes ==
  ASSUME SetupInv, Next
  PROVE  TypeOK'
<1> USE DEF SetupInv, TypeOK, Handlers, Stages, Goto, Leave
<1>1. ASSUME NEW r \in Requests, Begin(r) PROVE TypeOK'
  <2>1. PICK b \in Bodies : Create(r, b) \/ Ask(r, b) BY <1>1 DEF Begin
  <2>2. CASE Create(r, b)
    <3>1. tenant' \in [Tenants -> BOOLEAN] /\ asked' \in [Tenants -> Bodies]
      BY <2>1, <2>2, BodyFields DEF Create
    <3>2. pc' \in [Handlers -> Stages] BY <2>2 DEF Create, AfterInsert
    <3>3. body' \in [Requests -> Bodies] BY <2>1, <2>2 DEF Create
    <3>4. at' \in [Requests -> 0..LastKey] BY <2>2, SetupAssumption DEF Create
    <3> QED BY <1>1, <2>2, <3>1, <3>2, <3>3, <3>4 DEF Begin, Create
  <2>3. CASE Ask(r, b)
    <3>1. pc' \in [Handlers -> Stages]
      BY <2>1, <2>3, BodyFields DEF Ask
    <3>2. body' \in [Requests -> Bodies] BY <2>1, <2>3 DEF Ask
    <3>3. at' \in [Requests -> 0..LastKey] BY <2>3, SetupAssumption DEF Ask
    <3> QED BY <1>1, <2>3, <3>1, <3>2, <3>3 DEF Begin, Ask, Database, Told
  <2> QED BY <2>1, <2>2, <2>3
<1>2. ASSUME NEW r \in Requests, Fail(r) PROVE TypeOK'
  BY <1>2, Defaults, BodyFields, SetupAssumption DEF Fail, Database
<1>3. ASSUME NEW r \in Requests,
             FindRole(r) \/ FindOwnerRole(r) \/ CheckRole(r) \/ FindUser(r)
      PROVE  TypeOK'
  BY <1>3 DEF FindRole, FindOwnerRole, CheckRole, FindUser, Database, Told
<1>4. ASSUME NEW r \in Requests, CreateTemplateRole(r) PROVE TypeOK'
  <2>1. Stage(r) BY <1>4 DEF StageInv
  <2>2. RoleAt(r) \in Own
    BY <1>4, <2>1, BodyFields DEF CreateTemplateRole, Stage, RoleAt, Own
  <2> QED BY <1>4, <2>2 DEF CreateTemplateRole, Told
<1>5. ASSUME NEW r \in Requests, Grant(r) PROVE TypeOK'
  <2>1. Stage(r) BY <1>5 DEF StageInv
  <2>2. at[r] \in Keys /\ body[r].tenant \in Tenants
    BY <1>5, <2>1, BodyFields DEF Grant, Stage
  <2>3. grant' \in [Own -> SUBSET Permissions]
    BY <1>5, <2>2, SetupAssumption DEF Grant, RoleAt, Own
  <2>4. at' \in [Requests -> 0..LastKey]
    <3>1. CASE ~IsLast(r)
      <4>1. at[r] + 1 \in 0..LastKey BY <2>2, <3>1, SetupAssumption DEF IsLast, Keys
      <4>2. at' = [at EXCEPT ![r] = at[r] + 1] BY <1>5, <3>1 DEF Grant
      <4> QED BY <4>1, <4>2
    <3>2. CASE IsLast(r) BY <1>5, <3>2, SetupAssumption DEF Grant
    <3> QED BY <3>1, <3>2
  <2>5. body' \in [Requests -> Bodies] BY <1>5, Defaults DEF Grant
  <2>6. pc' \in [Handlers -> Stages]
    <3>1. PICK l \in Stages : pc' = [pc EXCEPT ![r] = l] BY <1>5 DEF Grant
    <3> QED BY <3>1
  <2>7. initialized' \subseteq Tenants BY <1>5, <2>2 DEF Grant
  <2> QED BY <1>5, <2>3, <2>4, <2>5, <2>6, <2>7 DEF Grant
<1>6. ASSUME NEW r \in Requests, CreateMemberUser(r) PROVE TypeOK'
  BY <1>6, MemberFields DEF CreateMemberUser, Told, Statuses
<1>7. ASSUME NEW r \in Requests, Upsert(r) PROVE TypeOK'
  <2> DEFINE new == [status |-> "active", user |-> UserOf(r), tenant |-> body[r].tenant,
                     role |-> RoleOf(r)]
  <2>1. new \in [status : Statuses \cup {"absent"}, user : Users,
                 tenant : Tenants \cup {"app"}, role : Roles]
    BY <1>7, MemberFields DEF Upsert, Statuses
  <2>2. PICK m \in MemberIds : member' = [member EXCEPT ![m] = new]
    BY <1>7 DEF Upsert, Rows
  <2> HIDE DEF new
  <2>3. member' \in [MemberIds -> [status : Statuses \cup {"absent"}, user : Users,
                                   tenant : Tenants \cup {"app"}, role : Roles]]
    BY <2>1, <2>2
  <2>4. pc' \in [Handlers -> Stages] BY <1>7 DEF Upsert
  <2>5. body' \in [Requests -> Bodies] BY <1>7, Defaults DEF Upsert
  <2>6. at' \in [Requests -> 0..LastKey] BY <1>7, SetupAssumption DEF Upsert
  <2>7. overtaken' \in [Visits -> BOOLEAN] BY <1>7 DEF Upsert, Overtake
  <2> QED BY <1>7, <2>3, <2>4, <2>5, <2>6, <2>7 DEF Upsert, Told
<1>8. ASSUME NEW r \in Requests, WriteMember(r) PROVE TypeOK'
  <2>1. Stage(r) BY <1>8 DEF StageInv
  <2>2. body[r].op = "update" BY <1>8, <2>1 DEF WriteMember, Stage
  <2>3. /\ body[r].id \in MemberIds /\ body[r].role \in Roles \cup {Keep}
        /\ body[r].status \in Statuses \cup {Keep}
    BY <2>2, BodyFields
  <2>4. member' \in [MemberIds -> [status : Statuses \cup {"absent"}, user : Users,
                                   tenant : Tenants \cup {"app"}, role : Roles]]
    <3> DEFINE old == member[body[r].id]
               new == [old EXCEPT
                         !.role   = IF body[r].role = Keep THEN @ ELSE body[r].role,
                         !.status = IF body[r].status = Keep THEN @ ELSE body[r].status]
    <3>1. member' = [member EXCEPT ![body[r].id] = new] BY <1>8 DEF WriteMember
    <3>2. old \in [status : Statuses \cup {"absent"}, user : Users,
                   tenant : Tenants \cup {"app"}, role : Roles]
      BY <2>3
    <3> HIDE DEF old
    <3>3. new \in [status : Statuses \cup {"absent"}, user : Users,
                   tenant : Tenants \cup {"app"}, role : Roles]
      BY <2>3, <3>2
    <3> HIDE DEF new
    <3> QED BY <2>3, <3>1, <3>3
  <2>5. pc' \in [Handlers -> Stages] BY <1>8 DEF WriteMember
  <2>6. body' \in [Requests -> Bodies] BY <1>8, Defaults DEF WriteMember
  <2>7. at' \in [Requests -> 0..LastKey] BY <1>8, SetupAssumption DEF WriteMember
  <2>8. overtaken' \in [Visits -> BOOLEAN] BY <1>8 DEF WriteMember, Overtake
  <2>9. touched' \subseteq MemberIds BY <1>8, <2>3 DEF WriteMember
  <2> QED BY <1>8, <2>4, <2>5, <2>6, <2>7, <2>8, <2>9 DEF WriteMember
<1>9. ASSUME NEW c \in Visits, Visited(c) PROVE TypeOK'
  <2>1. \A u : ActiveIn(u) \subseteq Tenants BY ActiveInTenants
  <2> USE DEF Unchanged, Database, Told
  <2>2. ASSUME NEW u \in Users, Login(c, u) PROVE TypeOK'
    BY <2>2, Defaults DEF Login
  <2>3. CASE ChooseContext(c) BY <2>1, <2>3 DEF ChooseContext, Candidates
  <2>4. ASSUME NEW u \in Users, NEW t \in Tenants \cup {"app"}, Switch(c, u, t)
        PROVE  TypeOK'
    BY <2>4, Defaults DEF Switch
  <2>5. CASE Issue(c) BY <2>1, <2>5 DEF Issue
  <2>6. CASE EndVisit(c) BY <2>6, Defaults DEF EndVisit
  <2> QED BY <1>9, <2>2, <2>3, <2>4, <2>5, <2>6 DEF Visited
<1>10. ASSUME NEW ro \in Own, CreateRole(ro) PROVE TypeOK'
  BY <1>10 DEF CreateRole, Told
<1>11. ASSUME NEW ro \in Own, NEW p \in Permissions, GrantPermission(ro, p) PROVE TypeOK'
  BY <1>11 DEF GrantPermission, Told
<1>12. ASSUME NEW u \in Users, NEW s \in Statuses, SetUser(u, s) PROVE TypeOK'
  BY <1>12 DEF SetUser, Told
<1> QED
  BY <1>1, <1>2, <1>3, <1>4, <1>5, <1>6, <1>7, <1>8, <1>9, <1>10, <1>11, <1>12
  DEF Next, Handle

-----------------------------------------------------------------------------
Quiet(r) == pc'[r] = pc[r] /\ body'[r] = body[r] /\ at'[r] = at[r]

(* A step is the request's own or leaves it where it is.                   *)
LEMMA RequestSteps ==
  ASSUME TypeOK, Next, NEW r \in Requests
  PROVE  Quiet(r) \/ Handle(r)
<1> USE DEF Quiet, TypeOK, Handlers, Goto
<1>1. ASSUME NEW q \in Requests, Handle(q) PROVE Quiet(r) \/ Handle(r)
  <2>1. CASE q = r BY <1>1, <2>1
  <2>2. CASE q # r
    BY <1>1, <2>2
    DEF Handle, Begin, Create, Ask, Fail, FindRole, CreateTemplateRole, Grant,
        FindOwnerRole, CheckRole, FindUser, CreateMemberUser, Upsert, WriteMember,
        Leave, Database, Told
  <2> QED BY <2>1, <2>2
<1>2. ASSUME NEW c \in Visits, Visited(c) PROVE Quiet(r)
  BY <1>2, SetupAssumption DEF Visited, Login, ChooseContext, Switch, Issue, EndVisit, Unchanged
<1>3. ASSUME NEW ro \in Own, CreateRole(ro) PROVE Quiet(r)
  BY <1>3 DEF CreateRole
<1>4. ASSUME NEW ro \in Own, NEW p \in Permissions, GrantPermission(ro, p) PROVE Quiet(r)
  BY <1>4 DEF GrantPermission
<1>5. ASSUME NEW u \in Users, NEW s \in Statuses, SetUser(u, s) PROVE Quiet(r)
  BY <1>5 DEF SetUser
<1> QED BY <1>1, <1>2, <1>3, <1>4, <1>5 DEF Next

(* The stages follow each other as the bodies ask.                         *)
LEMMA StepStage ==
  ASSUME SetupInv, Next
  PROVE  StageInv'
<1> SUFFICES ASSUME NEW r \in Requests PROVE Stage(r)' BY DEF StageInv
<1> USE DEF SetupInv
<1>0. Stage(r) /\ body[r] \in Bodies BY DEF StageInv, TypeOK
<1>1. CASE Quiet(r) BY <1>0, <1>1 DEF Stage, Quiet
<1> USE DEF TypeOK, Handlers, Goto, Leave
<1>2. CASE Begin(r)
  <2>1. PICK b \in Bodies : Create(r, b) \/ Ask(r, b) BY <1>2 DEF Begin
  <2>2. CASE Create(r, b)
    BY <1>2, <2>1, <2>2, BodyFields, SetupAssumption
    DEF Stage, Begin, Create, AfterInsert, Keys
  <2>3. CASE Ask(r, b)
    BY <1>2, <2>1, <2>3, BodyFields, SetupAssumption DEF Stage, Ask, Keys
  <2> QED BY <2>1, <2>2, <2>3
<1>3. CASE Fail(r) BY <1>3 DEF Stage, Fail
<1>4. CASE FindRole(r) BY <1>0, <1>4 DEF Stage, FindRole
<1>5. CASE CreateTemplateRole(r) BY <1>0, <1>5 DEF Stage, CreateTemplateRole
<1>6. CASE Grant(r)
  <2>1. CASE IsLast(r) BY <1>0, <1>6, <2>1 DEF Stage, Grant
  <2>2. CASE ~IsLast(r)
    <3>1. /\ at[r] + 1 \in Keys /\ pc[r] = "grant"
          /\ at'[r] = at[r] + 1 /\ body'[r] = body[r] /\ pc'[r] = "find"
      BY <1>0, <1>6, <2>2, SetupAssumption DEF Grant, Stage, IsLast, Keys
    <3> QED BY <1>0, <3>1 DEF Stage
  <2> QED BY <2>1, <2>2
<1>7. CASE FindOwnerRole(r) BY <1>0, <1>7 DEF Stage, FindOwnerRole
<1>8. CASE CheckRole(r) BY <1>0, <1>8 DEF Stage, CheckRole
<1>9. CASE FindUser(r) BY <1>0, <1>9 DEF Stage, FindUser
<1>10. CASE CreateMemberUser(r) BY <1>0, <1>10 DEF Stage, CreateMemberUser
<1>11. CASE Upsert(r) BY <1>11 DEF Stage, Upsert
<1>12. CASE WriteMember(r) BY <1>12 DEF Stage, WriteMember
<1> QED
  BY RequestSteps, <1>1, <1>2, <1>3, <1>4, <1>5, <1>6, <1>7, <1>8, <1>9, <1>10, <1>11, <1>12
  DEF Handle

-----------------------------------------------------------------------------
(* A role that is complete stays so.                                       *)
LEMMA CompleteStays ==
  ASSUME Grows, NEW t \in Tenants, NEW k \in Keys, Complete(t, k)
  PROVE  Complete(t, k)'
<1>1. <<t, k>> \in Own BY DEF Own
<1> QED BY <1>1 DEF Grows, Complete

(* What Grant has done: the templates so far are complete.                 *)
LEMMA GrantCompletes ==
  ASSUME SetupInv, NEW r \in Requests, Grant(r), Grows,
         NEW t \in Tenants, t = body[r].tenant, NEW k \in Keys, k <= at[r]
  PROVE  Complete(t, k)'
<1>1. Stage(r) /\ Facts(r) BY DEF SetupInv, StageInv, FactsInv
<1>2. /\ at[r] \in Keys /\ RoleAt(r) \in role
      /\ k < at[r] => Complete(t, k)
  BY <1>1 DEF Grant, Stage, Facts, Progress
<1>3. CASE k = at[r]
  <2>1. RoleAt(r) = <<t, k>> /\ <<t, k>> \in Own BY <1>3 DEF RoleAt, Own
  <2>2. role' = role /\ Template[k] \subseteq grant'[<<t, k>>]
    BY <1>3, <2>1 DEF Grant, SetupInv, TypeOK
  <2> QED BY <1>2, <2>1, <2>2 DEF Complete
<1>4. CASE k < at[r] BY <1>2, <1>4, CompleteStays
<1> QED BY <1>2, <1>3, <1>4, SetupAssumption DEF Keys

(* What a request has found out or done stays true.                        *)
LEMMA StepFacts ==
  ASSUME SetupInv, Next
  PROVE  FactsInv'
<1> SUFFICES ASSUME NEW r \in Requests PROVE Facts(r)' BY DEF FactsInv
<1> DEFINE t == body[r].tenant
<1>1. /\ Stage(r) /\ Facts(r) /\ body[r] \in Bodies /\ t \in Tenants
      /\ TypeOK /\ Grows
      /\ pc[r] \in {"user", "account", "upsert"} => UserOf(r) \in Users
  BY MemberFields, StepGrows DEF SetupInv, StageInv, FactsInv, TypeOK
<1> USE DEF Handlers, Goto, Leave
<1>2. CASE pc'[r] = "idle"
  BY <1>2 DEF Facts, Owned, Progress, Through, Checked, Known, Target
<1>3. CASE Begin(r)
  <2>1. PICK b \in Bodies : Create(r, b) \/ Ask(r, b) BY <1>3 DEF Begin
  <2>2. Progress(r)'
    <3>1. pc'[r] \notin {"create", "grant"} /\ (pc'[r] = "find" => at'[r] = 1)
      <4>1. CASE Create(r, b) BY <1>1, <4>1 DEF Create, AfterInsert, TypeOK
      <4>2. CASE Ask(r, b) BY <1>1, <2>1, <4>2, BodyFields DEF Ask, TypeOK
      <4> QED BY <2>1, <4>1, <4>2
    <3> QED BY <3>1, SetupAssumption DEF Progress, Keys
  <2>3. CASE Create(r, b)
    BY <1>1, <2>1, <2>2, <2>3, BodyFields
    DEF Facts, Create, AfterInsert, TypeOK, Owned, Through, Checked, Known, Target
  <2>4. CASE Ask(r, b)
    BY <1>1, <2>1, <2>2, <2>4, BodyFields
    DEF Facts, Ask, TypeOK, Owned, Through, Checked, Known, Target, Database, Told
  <2> QED BY <2>1, <2>3, <2>4
<1>4. ASSUME Quiet(r) \/ Handle(r), pc'[r] # "idle", ~Begin(r)
      PROVE  Facts(r)'
  <2>1. body'[r] = body[r] /\ pc[r] # "idle"
    BY <1>1, <1>4
    DEF Quiet, Handle, Fail, FindRole, CreateTemplateRole, Grant, FindOwnerRole,
        CheckRole, FindUser, CreateMemberUser, Upsert, WriteMember, Database, TypeOK
  <2>2. Owned(r)' BY <1>1, <2>1 DEF Facts, Owned, Grows
  <2>3. Progress(r)'
    <3>1. CASE Grant(r)
      <4>1. at[r] \in Keys BY <1>1, <3>1 DEF Grant, Stage
      <4>2. pc'[r] # "grant" /\ at'[r] \in {0, at[r] + 1}
        BY <1>1, <3>1 DEF Grant, TypeOK
      <4>3. ASSUME NEW k \in Keys, k < at'[r] PROVE Complete(t, k)'
        BY <1>1, <2>1, <3>1, <4>1, <4>2, <4>3, GrantCompletes, SetupAssumption DEF Keys
      <4> QED BY <2>1, <4>2, <4>3 DEF Progress
    <3>2. CASE ~Grant(r)
      <4>1. at'[r] = at[r]
        BY <1>1, <1>4, <3>2
        DEF Quiet, Handle, Fail, FindRole, CreateTemplateRole, FindOwnerRole,
            CheckRole, FindUser, CreateMemberUser, Upsert, WriteMember, TypeOK
      <4>2. /\ pc'[r] \in {"find", "create", "grant"} => pc[r] \in {"find", "create", "grant"}
            /\ pc'[r] = "grant" => RoleAt(r) \in role'
        BY <1>1, <1>4, <3>2
        DEF Quiet, Handle, Fail, FindRole, CreateTemplateRole, FindOwnerRole, Progress,
            CheckRole, FindUser, CreateMemberUser, Upsert, WriteMember, TypeOK, Facts,
            Grows
      <4>3. ASSUME NEW k \in Keys, k < at'[r], pc'[r] \in {"find", "create", "grant"}
            PROVE  Complete(t, k)'
        BY <1>1, <2>1, <4>1, <4>2, <4>3, CompleteStays DEF Facts, Progress
      <4> QED BY <2>1, <4>1, <4>2, <4>3 DEF Progress, RoleAt
    <3> QED BY <3>1, <3>2
  <2>4. Through(r)'
    BY <1>1, <1>4, <2>1
    DEF Facts, Through, Quiet, Handle, Fail, FindRole, CreateTemplateRole, Grant,
        FindOwnerRole, CheckRole, FindUser, CreateMemberUser, Upsert, WriteMember,
        TypeOK, Grows, Stage
  <2>5. Checked(r)'
    <3>1. RoleOf(r)' = RoleOf(r) BY <2>1 DEF RoleOf, OwnerRole
    <3>2. \A ro : RoleFits(ro, t) => RoleFits(ro, t)' BY <1>1, <2>1 DEF RoleFits, Exists, Grows
    <3>3. /\ pc'[r] \in {"user", "account", "upsert"} => RoleFits(RoleOf(r), t)
          /\ pc'[r] = "write" => RoleFits(RoleOf(r), t) \/ pc[r] = "write"
          /\ pc'[r] = "write" => body[r].op = "update"
      BY <1>1, <1>4
      DEF Facts, Checked, Quiet, Handle, Fail, FindRole, CreateTemplateRole, Grant, Stage,
          FindOwnerRole, CheckRole, FindUser, CreateMemberUser, Upsert, WriteMember, TypeOK
    <3> QED BY <1>1, <2>1, <3>1, <3>2, <3>3 DEF Facts, Checked, RoleOf
  <2>6. Known(r)'
    <3>1. UserOf(r)' = UserOf(r) BY <2>1 DEF UserOf
    <3>2. pc'[r] = "upsert" => user'[UserOf(r)] # "absent"
      BY <1>1, <1>4
      DEF Facts, Known, Quiet, Handle, Fail, FindRole, CreateTemplateRole, Grant,
          FindOwnerRole, CheckRole, FindUser, CreateMemberUser, Upsert, WriteMember,
          TypeOK, Grows, Database
    <3> QED BY <3>1, <3>2 DEF Known
  <2>7. Target(r)'
    <3>1. (pc'[r] \in {"role", "write"} /\ body[r].op = "update") => pc[r] \in {"role", "write"}
      BY <1>1, <1>4
      DEF Quiet, Handle, Fail, FindRole, CreateTemplateRole, Grant, FindOwnerRole,
          CheckRole, FindUser, CreateMemberUser, Upsert, WriteMember, TypeOK, Stage
    <3> QED BY <1>1, <2>1, <3>1, BodyFields DEF Facts, Target, Grows
  <2> QED BY <2>2, <2>3, <2>4, <2>5, <2>6, <2>7 DEF Facts
<1> QED BY RequestSteps, <1>1, <1>2, <1>3, <1>4

-----------------------------------------------------------------------------
(* The handler that returns from initializeRoles has completed every role, *)
(* and complete roles stay so.                                             *)
LEMMA StepComplete ==
  ASSUME SetupInv, Next
  PROVE  RolesComplete'
<1>0. Grows /\ initialized \subseteq Tenants BY StepGrows DEF SetupInv, TypeOK
<1>1. \A t \in initialized, k \in Keys : Complete(t, k)'
  BY <1>0, CompleteStays DEF SetupInv, RolesComplete, Complete
<1>2. CASE initialized' = initialized BY <1>1, <1>2 DEF RolesComplete, Complete
<1>3. CASE initialized' # initialized
  <2>1. PICK r \in Requests : Grant(r) /\ IsLast(r)
    BY <1>3
    DEF Next, Handle, Begin, Create, Ask, Fail, FindRole, CreateTemplateRole, Grant,
        FindOwnerRole, CheckRole, FindUser, CreateMemberUser, Upsert, WriteMember,
        Visited, Login, ChooseContext, Switch, Issue, EndVisit, Unchanged, Told,
        CreateRole, GrantPermission, SetUser
  <2>2. initialized' = initialized \cup {body[r].tenant} BY <2>1 DEF Grant
  <2>3. body[r].tenant \in Tenants BY MemberFields DEF SetupInv
  <2>4. \A k \in Keys : k <= at[r] BY <2>1, SetupAssumption DEF IsLast, Keys
  <2>5. ASSUME NEW t \in initialized', NEW k \in Keys PROVE Complete(t, k)'
    BY <1>0, <1>1, <2>1, <2>2, <2>3, <2>4, <2>5, GrantCompletes
  <2> QED BY <2>5 DEF RolesComplete, Complete
<1> QED BY <1>2, <1>3

(* A membership is written with what its handler has found out.            *)
LEMMA StepMembers ==
  ASSUME SetupInv, Next
  PROVE  MembersFit'
<1> DEFINE Fit(x) == /\ x.tenant \in Tenants /\ tenant[x.tenant]
                     /\ user[x.user] # "absent"
                     /\ Exists(x.role)
                     /\ x.role[1] \in {"app", x.tenant}
<1>0. Grows /\ TypeOK /\ StageInv /\ FactsInv /\ MembersFit BY StepGrows DEF SetupInv
<1>1. ASSUME NEW m \in MemberIds, member'[m].status # "absent", member'[m] = member[m]
      PROVE  /\ member'[m].tenant \in Tenants /\ tenant'[member'[m].tenant]
             /\ user'[member'[m].user] # "absent"
             /\ member'[m].role[1] = "app" \/ member'[m].role \in role'
             /\ member'[m].role[1] \in {"app", member'[m].tenant}
  <2>1. Fit(member[m]) BY <1>0, <1>1 DEF MembersFit, Rows
  <2>2. member[m].user \in Users BY <1>0 DEF TypeOK
  <2> QED BY <1>0, <1>1, <2>1, <2>2 DEF Grows, Exists
<1>2. CASE member' = member BY <1>1, <1>2 DEF MembersFit, Rows, Exists
<1>3. ASSUME NEW r \in Requests, Upsert(r) PROVE MembersFit'
  <2> DEFINE new == [status |-> "active", user |-> UserOf(r), tenant |-> body[r].tenant,
                     role |-> RoleOf(r)]
  <2>1. /\ Stage(r) /\ Facts(r) /\ pc[r] = "upsert" /\ body[r].tenant \in Tenants
        /\ UNCHANGED <<tenant, role, user>>
    BY <1>0, <1>3, MemberFields DEF StageInv, FactsInv, Upsert
  <2>2. Fit(new) BY <2>1 DEF Facts, Owned, Checked, Known, RoleFits
  <2>3. PICK n \in MemberIds : member' = [member EXCEPT ![n] = new]
    BY <1>3 DEF Upsert, Rows
  <2> HIDE DEF new
  <2>4. \A m \in MemberIds : member'[m] = member[m] \/ member'[m] = new
    BY <1>0, <2>3 DEF TypeOK
  <2> QED BY <1>1, <2>1, <2>2, <2>4 DEF MembersFit, Rows, Exists
<1>4. ASSUME NEW r \in Requests, WriteMember(r) PROVE MembersFit'
  <2> DEFINE old == member[body[r].id]
             new == [old EXCEPT
                       !.role   = IF body[r].role = Keep THEN @ ELSE body[r].role,
                       !.status = IF body[r].status = Keep THEN @ ELSE body[r].status]
  <2>1. /\ Stage(r) /\ Facts(r) /\ pc[r] = "write" /\ body[r].op = "update"
        /\ body[r].id \in MemberIds
        /\ UNCHANGED <<tenant, role, user>>
    BY <1>0, <1>4, MemberFields, BodyFields DEF StageInv, FactsInv, WriteMember, Stage
  <2>2. /\ old.status # "absent" /\ old.tenant = body[r].tenant
        /\ body[r].role # Keep => RoleFits(body[r].role, body[r].tenant)
    BY <2>1 DEF Facts, Target, Checked
  <2>3. Fit(old) BY <1>0, <2>1, <2>2 DEF MembersFit, Rows
  <2>4. /\ new.tenant = old.tenant /\ new.user = old.user
        /\ new.role = (IF body[r].role = Keep THEN old.role ELSE body[r].role)
    BY <1>0, <2>1 DEF TypeOK
  <2>5. member' = [member EXCEPT ![body[r].id] = new] BY <1>4 DEF WriteMember
  <2> HIDE DEF new, old
  <2>6. Fit(new) BY <2>2, <2>3, <2>4 DEF RoleFits
  <2>7. \A m \in MemberIds : member'[m] = member[m] \/ member'[m] = new
    BY <1>0, <2>5 DEF TypeOK
  <2> QED BY <1>1, <2>1, <2>6, <2>7 DEF MembersFit, Rows, Exists
<1> QED
  BY <1>2, <1>3, <1>4
  DEF Next, Handle, Begin, Create, Ask, Fail, FindRole, CreateTemplateRole, Grant,
      FindOwnerRole, CheckRole, FindUser, CreateMemberUser, Visited, Login,
      ChooseContext, Switch, Issue, EndVisit, Unchanged, Database, CreateRole,
      GrantPermission, SetUser

(* A visit that was not overtaken still sees what it has read.             *)
LEMMA StepSeen ==
  ASSUME SetupInv, SeenInv, Next
  PROVE  SeenInv'
<1> SUFFICES ASSUME NEW c \in Visits PROVE Seen(c)' BY DEF SeenInv
<1>0. Seen(c) /\ TypeOK /\ c \notin Requests BY SetupAssumption DEF SeenInv, SetupInv
<1> USE DEF Handlers, Goto, Leave
<1>1. ASSUME pc'[c] = pc[c], visit' = visit, overtaken' = overtaken, member' = member
      PROVE  Seen(c)'
  BY <1>0, <1>1, ActiveInKept DEF Seen
<1>2. ASSUME NEW r \in Requests, Handle(r) PROVE Seen(c)'
  <2>1. pc'[c] = pc[c] /\ visit' = visit
    BY <1>0, <1>2
    DEF TypeOK, Handle, Begin, Create, Ask, Fail, FindRole, CreateTemplateRole, Grant,
        FindOwnerRole, CheckRole, FindUser, CreateMemberUser, Upsert, WriteMember
  <2>2. CASE Upsert(r) \/ WriteMember(r)
    <3>1. overtaken'[c] = (pc[c] # "idle") BY <2>2 DEF Upsert, WriteMember, Overtake
    <3> QED BY <1>0, <2>1, <3>1 DEF Seen
  <2>3. CASE ~Upsert(r) /\ ~WriteMember(r)
    BY <1>1, <1>2, <2>1, <2>3
    DEF Handle, Begin, Create, Ask, Fail, FindRole, CreateTemplateRole, Grant,
        FindOwnerRole, CheckRole, FindUser, CreateMemberUser, Database
  <2> QED BY <2>2, <2>3
<1>3. ASSUME NEW v \in Visits, Visited(v) PROVE Seen(c)'
  <2>1. /\ member' = member
        /\ v # c => pc'[c] = pc[c] /\ visit'[c] = visit[c] /\ overtaken'[c] = overtaken[c]
    BY <1>0, <1>3
    DEF TypeOK, Visited, Login, ChooseContext, Switch, Issue, EndVisit, Unchanged, Database
  <2>2. \A u : ActiveIn(u)' = ActiveIn(u) BY <2>1, ActiveInKept
  <2>3. CASE v # c BY <1>0, <2>1, <2>2, <2>3 DEF Seen
  <2>4. ASSUME NEW u \in Users, Login(c, u) PROVE Seen(c)'
    BY <1>0, <2>4 DEF Login, Seen, TypeOK
  <2>5. CASE ChooseContext(c)
    <3>1. /\ pc'[c] = "issue" /\ visit'[c].user = visit[c].user
          /\ visit'[c].context \in IF ActiveIn(visit[c].user) = {} THEN {"none"}
                                   ELSE ActiveIn(visit[c].user)
      BY <1>0, <2>5 DEF ChooseContext, Candidates, TypeOK
    <3> QED BY <1>0, <2>2, <3>1 DEF Seen
  <2>6. ASSUME NEW u \in Users, NEW t \in Tenants \cup {"app"}, Switch(c, u, t)
        PROVE  Seen(c)'
    <3>1. pc'[c] = "issue" /\ visit'[c].user = u /\ visit'[c].context = t
      BY <1>0, <2>6, Defaults DEF Switch, TypeOK
    <3>2. t \in ActiveIn(u) \/ (t = "app" /\ ActiveIn(u) # {}) BY <2>6 DEF Switch, Candidates
    <3> QED BY <1>0, <2>2, <3>1, <3>2 DEF Seen
  <2>7. CASE Issue(c)
    <3>1. /\ pc[c] = "issue" /\ pc'[c] = "issued" /\ overtaken' = overtaken
          /\ visit'[c].user = visit[c].user /\ visit'[c].context = visit[c].context
          /\ visit'[c].members = ActiveIn(visit[c].user)
      BY <1>0, <2>7 DEF Issue, TypeOK
    <3> QED BY <1>0, <2>2, <3>1 DEF Seen
  <2>8. CASE EndVisit(c) BY <1>0, <2>8 DEF EndVisit, Seen, TypeOK
  <2> QED BY <1>3, <2>3, <2>4, <2>5, <2>6, <2>7, <2>8 DEF Visited
<1>4. CASE (\E ro \in Own : CreateRole(ro))
           \/ (\E ro \in Own, p \in Permissions : GrantPermission(ro, p))
           \/ (\E u \in Users, s \in Statuses : SetUser(u, s))
  BY <1>1, <1>4 DEF CreateRole, GrantPermission, SetUser
<1> QED BY <1>2, <1>3, <1>4 DEF Next

(* A tenant's creation ends with the roles and the owner it was asked for, *)
(* or by failing.                                                          *)
LEMMA StepReady ==
  ASSUME SetupInv, CreatedIsReady, Next
  PROVE  CreatedIsReady'
<1>0. Grows /\ TypeOK /\ StageInv /\ FactsInv BY StepGrows DEF SetupInv
<1> SUFFICES ASSUME NEW t \in Tenants, tenant'[t], ~BeingCreated(t)', t \notin broken',
                    NEW o, o = asked'[t].owner
             PROVE  /\ asked'[t].init => t \in initialized'
                    /\ o # NoUser => HasOwner(t, o)'
  BY DEF CreatedIsReady, HasOwner
<1> USE DEF Handlers, Goto, Leave
<1>1. ASSUME NEW u, HasOwner(t, u) PROVE HasOwner(t, u)'
  <2>1. PICK m \in Rows : /\ member[m].user = u /\ member[m].tenant = t
                          /\ m \in touched \/ (member[m].status = "active"
                                               /\ member[m].role = <<t, Owner>>)
    BY <1>1 DEF HasOwner
  <2>2. m \in MemberIds /\ m \in Rows' /\ member'[m].user = u /\ member'[m].tenant = t
    BY <1>0, <2>1 DEF Grows, Rows
  <2>3. touched \subseteq touched'
    BY DEF Next, Handle, Begin, Create, Ask, Fail, FindRole, CreateTemplateRole, Grant,
           FindOwnerRole, CheckRole, FindUser, CreateMemberUser, Upsert, WriteMember,
           Visited, Login, ChooseContext, Switch, Issue, EndVisit, Unchanged, Told,
           CreateRole, GrantPermission, SetUser
  <2>4. CASE member'[m] = member[m] BY <2>1, <2>2, <2>3, <2>4 DEF HasOwner
  <2>5. CASE member'[m] # member[m]
    <3>1. PICK r \in Requests : Upsert(r) \/ WriteMember(r)
      BY <2>5
      DEF Next, Handle, Begin, Create, Ask, Fail, FindRole, CreateTemplateRole, Grant,
          FindOwnerRole, CheckRole, FindUser, CreateMemberUser, Visited, Login,
          ChooseContext, Switch, Issue, EndVisit, Unchanged, Database, CreateRole,
          GrantPermission, SetUser
    <3>2. CASE Upsert(r)
      <4>1. member'[m].status = "active" /\ member'[m].role = member[m].role
        BY <1>0, <2>1, <2>2, <2>5, <3>2 DEF Upsert, Rows, SameKey, TypeOK
      <4> QED BY <2>1, <2>2, <2>3, <4>1 DEF HasOwner
    <3>3. CASE WriteMember(r)
      <4>1. m = body[r].id BY <1>0, <2>2, <2>5, <3>3 DEF WriteMember, TypeOK
      <4>2. m \in touched' BY <3>3, <4>1 DEF WriteMember
      <4> QED BY <2>2, <4>2 DEF HasOwner
    <3> QED BY <3>1, <3>2, <3>3
  <2> QED BY <2>4, <2>5
<1>2. broken \subseteq broken'
  BY DEF Next, Handle, Begin, Create, Ask, Fail, FindRole, CreateTemplateRole, Grant,
         FindOwnerRole, CheckRole, FindUser, CreateMemberUser, Upsert, WriteMember,
         Visited, Login, ChooseContext, Switch, Issue, EndVisit, Unchanged, Told,
         CreateRole, GrantPermission, SetUser
<1>3. CASE tenant[t] /\ ~BeingCreated(t)
  <2>1. /\ asked'[t] = asked[t] /\ t \notin broken /\ initialized \subseteq initialized'
    BY <1>0, <1>2, <1>3 DEF Grows
  <2>2. /\ asked[t].init => t \in initialized
        /\ o # NoUser => HasOwner(t, o)
    BY <1>3, <2>1 DEF CreatedIsReady
  <2> QED BY <1>1, <2>1, <2>2
<1>4. CASE ~tenant[t]
  <2>1. PICK r \in Requests, b \in Bodies : Begin(r) /\ Create(r, b) /\ b.tenant = t
    <3>1. tenant' # tenant BY <1>4
    <3>2. PICK r \in Requests : Begin(r)
      BY <3>1
      DEF Next, Handle, Fail, FindRole, CreateTemplateRole, Grant, FindOwnerRole,
          CheckRole, FindUser, CreateMemberUser, Upsert, WriteMember, Visited, Login,
          ChooseContext, Switch, Issue, EndVisit, Unchanged, Database, CreateRole,
          GrantPermission, SetUser
    <3>3. PICK b \in Bodies : Create(r, b) \/ Ask(r, b) BY <3>2 DEF Begin
    <3>4. Create(r, b) BY <3>1, <3>3 DEF Ask, Database
    <3>5. b.tenant = t BY <1>0, <1>4, <3>4 DEF Create, TypeOK
    <3> QED BY <3>2, <3>4, <3>5
  <2>2. asked'[t] = b BY <1>0, <2>1 DEF Create, TypeOK
  <2>3. AfterInsert(b) = "idle"
    <3>1. b.op = "create" BY <2>1 DEF Create
    <3>2. CASE AfterInsert(b) # "idle"
      <4>1. pc'[r] # "idle" /\ body'[r] = b BY <1>0, <2>1, <3>2 DEF Create, TypeOK
      <4> QED BY <2>1, <3>1, <4>1 DEF BeingCreated
    <3> QED BY <3>2
  <2> QED BY <2>2, <2>3 DEF AfterInsert
<1>5. CASE tenant[t] /\ BeingCreated(t)
  <2>1. PICK r \in Requests : pc[r] # "idle" /\ body[r].op = "create" /\ body[r].tenant = t
    BY <1>5 DEF BeingCreated
  <2>2. Stage(r) /\ Facts(r) /\ asked'[t] = body[r] /\ body[r] \in Bodies
    BY <1>0, <1>5, <2>1 DEF StageInv, FactsInv, Facts, Owned, Grows, TypeOK
  <2>3. Fail(r) \/ Grant(r) \/ Upsert(r)
    <3>1. ~(pc'[r] # "idle" /\ body'[r] = body[r])
      BY <2>1 DEF BeingCreated
    <3>2. ~Quiet(r) BY <2>1, <3>1 DEF Quiet
    <3>3. Handle(r) BY <1>0, <3>2, RequestSteps
    <3> QED BY <1>0, <2>1, <2>2, <3>1, <3>3
            DEF Handle, Begin, FindRole, CreateTemplateRole, FindOwnerRole, CheckRole,
                FindUser, CreateMemberUser, WriteMember, TypeOK, Stage
  <2>4. ~Fail(r) BY <2>1 DEF Fail
  <2>5. CASE Grant(r)
    <3>1. pc[r] = "grant" /\ IsLast(r) /\ body[r].owner = NoUser
      <4>1. ~(pc'[r] # "idle" /\ body'[r] = body[r]) BY <2>1 DEF BeingCreated
      <4> QED BY <1>0, <2>1, <2>5, <4>1 DEF Grant, TypeOK
    <3>2. t \in initialized' BY <2>1, <2>5, <3>1 DEF Grant
    <3> QED BY <2>2, <3>1, <3>2
  <2>6. CASE Upsert(r)
    <3> DEFINE new == [status |-> "active", user |-> UserOf(r), tenant |-> body[r].tenant,
                       role |-> RoleOf(r)]
    <3>1. PICK m \in MemberIds : member' = [member EXCEPT ![m] = new]
      BY <2>6 DEF Upsert, Rows
    <3>2. member'[m] = new BY <1>0, <3>1 DEF TypeOK
    <3>3. /\ new.status = "active" /\ new.user = body[r].owner /\ new.tenant = t
          /\ new.role = <<t, Owner>>
      BY <2>1 DEF UserOf, RoleOf, OwnerRole
    <3> HIDE DEF new
    <3>4. HasOwner(t, o)'
      BY <2>2, <3>2, <3>3 DEF HasOwner, Rows
    <3>5. body[r].init => t \in initialized'
      BY <1>0, <2>1, <2>2, <2>6 DEF Facts, Through, Upsert, Grows
    <3> QED BY <2>2, <3>4, <3>5
  <2> QED BY <2>3, <2>4, <2>5, <2>6
<1> QED BY <1>3, <1>4, <1>5

-----------------------------------------------------------------------------
LEMMA SetupStep ==
  ASSUME SetupInv, SeenInv, CreatedIsReady, [Next]_vars
  PROVE  SetupInv' /\ SeenInv' /\ CreatedIsReady'
<1>1. CASE Next
  BY <1>1, StepTypes, StepStage, StepFacts, StepComplete, StepMembers, StepSeen, StepReady
  DEF SetupInv
<1>2. CASE UNCHANGED vars
  <2> USE <1>2 DEF vars
  <2>1. TypeOK' BY DEF SetupInv, TypeOK
  <2>2. StageInv' BY DEF SetupInv, StageInv, Stage
  <2>3. FactsInv'
    BY DEF SetupInv, FactsInv, Facts, Owned, Progress, Through, Checked, Known, Target,
           RoleAt, Complete, RoleFits, RoleOf, UserOf, OwnerRole, Exists
  <2>4. RolesComplete' /\ MembersFit'
    BY DEF SetupInv, RolesComplete, MembersFit, Rows, Exists
  <2>5. SeenInv'
    <3>1. ASSUME NEW c \in Visits PROVE Seen(c)' BY ActiveInKept DEF SeenInv, Seen
    <3> QED BY <3>1 DEF SeenInv
  <2>6. CreatedIsReady' BY DEF CreatedIsReady, BeingCreated, HasOwner, Rows
  <2> QED BY <2>1, <2>2, <2>3, <2>4, <2>5, <2>6 DEF SetupInv
<1> QED BY <1>1, <1>2

(* The inductive invariant, from which everything below follows.           *)
THEOREM SetupInvariant == Spec => [](SetupInv /\ SeenInv /\ CreatedIsReady)
BY SetupInit, SetupStep, PTL DEF Spec

(* The state always has its types, for any tenants, users and templates.   *)
THEOREM TypeCorrect == Spec => []TypeOK
<1>1. SetupInv => TypeOK BY DEF SetupInv
<1> QED BY <1>1, SetupInvariant, PTL

(* initializeRoles, once it has returned, has given the tenant every role  *)
(* of the templates with all its permissions, and they stay.               *)
THEOREM RolesAreComplete == Spec => []RolesComplete
<1>1. SetupInv => RolesComplete BY DEF SetupInv
<1> QED BY <1>1, SetupInvariant, PTL

(* addMember and updateMember write no membership without its tenant, user *)
(* and role, or with another tenant's role.                                *)
THEOREM MembersAlwaysFit == Spec => []MembersFit
<1>1. SetupInv => MembersFit BY DEF SetupInv
<1> QED BY <1>1, SetupInvariant, PTL

(* TenantsService.create has, unless it threw, made the roles and the      *)
(* owner's membership that were asked for.                                 *)
THEOREM CreatedTenantsReady == Spec => []CreatedIsReady
BY SetupInvariant, PTL

(* No request that returned left the tenant half set up.                   *)
THEOREM SetupsAreWhole == Spec => []SetupIsWhole
BY RolesAreComplete, CreatedTenantsReady, PTL DEF SetupIsWhole

(* The interceptor lets a session through with the context AuthService put *)
(* in it exactly if its user is an active member somewhere, if memberships *)
(* stood still while the session was issued.                               *)
THEOREM SessionsWork == Spec => []UndisturbedSessionsWork
<1>1. SetupInv /\ SeenInv => UndisturbedSessionsWork
  <2> SUFFICES ASSUME SetupInv, SeenInv, NEW c \in Visits, pc[c] = "issued", ~overtaken[c]
               PROVE  Accepted(visit[c]) <=> ActiveIn(visit[c].user) # {}
    BY DEF UndisturbedSessionsWork
  <2>1. Seen(c) BY DEF SeenInv
  <2>2. "none" \notin Tenants /\ "app" \notin Tenants BY SetupAssumption
  <2> QED BY <2>1, <2>2 DEF Seen, Accepted
<1> QED BY <1>1, SetupInvariant, PTL
===============================================================================
