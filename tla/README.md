# OpenMole: a formal model of its backend and admin console

OpenMole is a multi-tenant AI SaaS: NestJS handlers over PostgreSQL
(Prisma, READ COMMITTED), a BullMQ queue on Redis, HTTP calls to AI
providers, file servers and customers' webhook endpoints, and a React console
for administrators. This directory holds
TLA+ models of the parts whose correctness depends on what happens *between*
awaits, answers and clicks, the TLC configurations that check them on small instances, and TLAPS
proofs of their safety properties for every value of the constants.

Paths below are relative to `src/modules/` of the repository unless they start
with `src/`, `prisma/`, `docs/` or `README.md`.

## 1. Inventory

| Component | State | Operations | What is hard about it |
|---|---|---|---|
| Orders and payment webhook (`billing/billing.service.ts`) | `orders`, `payment_transactions` | create order, provider callback | duplicated, reordered, concurrent callbacks; the subscription is opened after the payment transaction, in another one |
| Subscriptions and quota (`billing`, `usage/usage.service.ts`) | `subscriptions`, `quota_buckets`, `usage_ledger`, tenant's current plan | open, create, check entitlement, record usage | check and record are far apart; buckets are selected by time, twice |
| Open AI call (`ai-center/ai-center.service.ts`, `ai-provider.adapter.ts`) | `ai_call_logs`; calls usage, provider, webhooks | chat, generate | a provider call between check and record; crash between log and record |
| AI catalogue (`ai-center`) | providers, models, routes, prompts, prompt versions | create, update, disable, publish, resolve | check-then-act on references, `max + 1` versions, unique keys with NULL columns |
| Knowledge ingest (`knowledge/knowledge.service.ts`, `knowledge.processor.ts`) | `knowledge_files`, `knowledge_chunks`, `tasks`, the BullMQ queue | add a file inline or queued, rebuild the index, worker runs | statements without a transaction, retries, crashes, lost locks, two writers of the same rows |
| RAG query and embeddings (`knowledge`) | vectors of chunks, which embedding made them; `rag_query_logs` (one insert) | embed by route or locally, store, refresh, query by vector or text | a route that changes between two chunks, a silent fallback to another embedding, a search of a file that is half replaced |
| Webhook delivery (`developer/webhook-delivery.service.ts`) | `webhooks`, `webhook_deliveries` | dispatch, retry | concurrent senders of one row; endpoints that do not answer; runs inside the business request |
| Developer API keys (`developer/developer.service.ts`) | `api_keys` | create, disable, authenticate, scopes | a call that was let in goes on with a key that is disabled or expired meanwhile |
| Tenancy (`tenancy/tenants.service.ts`) | tenants, roles, role grants, memberships | create a tenant, initialise roles, members | several inserts without a transaction, find-then-create |
| Authentication (`auth/auth.service.ts`, `jwt*.ts`) | users; tokens live with the client | login, contexts, switch context, change password | what a token says against what the database says later |
| Request context and permissions (`src/common/guards/permission.guard.ts`, `interceptors/tenant-context.interceptor.ts`, `tenant-scope.ts`) | none; reads memberships and roles | every request | agreement of three checks made at different times |
| Rate limiter (`src/common/guards/rate-limit.guard.ts`) | counters in process memory | every limited request | window boundary, sweep |
| Users, roles, menus (`identity`, `permission`) | users, roles, role grants | CRUD, granting permissions (which only adds) | grants that are added while others write the same role |
| Apps, settings, dictionaries (`app-center`, `system`) | single rows | CRUD | find-then-create of a setting |
| Tasks, dashboard, health | none (reads) | list, count, probe | nothing |
| Audit (`audit`, `src/common/interceptors/audit.interceptor.ts`) | `audit_logs` (one insert) | after each request | its failure is swallowed |
| Bootstrap, logging, error filter, middleware (`src/main.ts`, `src/common`) | none | wiring | nothing |
| Schema, migrations, seeds (`prisma/`) | all tables | constraints | which unique keys really bind |
| Admin web console (`apps/admin-web/src/`) | token in `localStorage`, session, page, form, panel, the query cache | sign in and out, walk, choose a context, save, fetch, retry | a cache that outlives a session, a form that outlives its page, a POST repeated on the next base URL, a save that renews another list |
| End-to-end scripts (`scripts/`) | none | drive the API | nothing |

How they interact. The payment webhook calls the opening of a subscription;
that and the open AI call end in `webhookDelivery.dispatch`, awaited inside the
request. The open AI call uses the quota that subscriptions opened. Knowledge
requests talk to their workers through the `tasks` table and the queue; RAG
queries read the rows that workers write, and both embed by the routes of the
catalogue. The console is a client of the admin endpoints. All
other components meet only in the database.

What makes each correct: a payment settles its order as some recorded callback
says and grants its plan once; a quota is not overrun beyond what is in flight
and no usage is metered twice; statuses of files, tasks, jobs and deliveries say
what really happened, whoever died on the way; every queued thing ends; a search
compares what can be compared; the console shows what its own saves did, sends a
form where it was opened, and shows nobody the rows of another user.

## 2. Modules

| Module | Models |
|---|---|
| `PaymentCallback` | the payment webhook, one action per await, with concurrent and dying requests |
| `PaymentPromise` | what it promises, abstractly: settle, overturn, one grant per payment |
| `MCPaymentCallback` | instances; the two claims of the documents that do not hold |
| `PaymentCallbackProofs` | theorems about both, the refinement among them |
| `QuotaMetering`, `MCQuotaMetering`, `QuotaMeteringProofs` | subscriptions, quota buckets, admission and metering of open AI calls over a clock |
| `KnowledgeIngest`, `MCKnowledgeIngest`, `KnowledgeIngestProofs` | files, chunks, tasks, the queue and its workers |
| `RagQuery`, `MCRagQuery` (theorems in `KnowledgeIngestProofs`) | the same composed with API keys, embeddings and RAG queries; refines `KnowledgeIngest` |
| `WebhookDelivery`, `MCWebhookDelivery`, `WebhookDeliveryProofs` | dispatch and retry of outgoing webhooks |
| `DeliveryPromise` | the log of deliveries they keep, abstractly: open in order, accept, settle |
| `ModelRouting`, `MCModelRouting`, `ModelRoutingProofs` | AI providers, models and routes under concurrent administrators, and how a call finds its model |
| `AtomicCatalogue` | the same requests, each with its checks and its write in one step |
| `PromptPublishing`, `MCPromptPublishing`, `PromptPublishingProofs` | prompts, versions, publishing, and the version a call is given |
| `TenantSetup`, `MCTenantSetup`, `TenantSetupProofs` | creation of tenants with roles and owner, members, and the sessions issued for memberships |
| `AdminConsole`, `MCAdminConsole`, `AdminConsoleProofs` | one tab of the console: session, pages, forms, panels, saves and the query cache |

Definitions named `Slip...` stand before the definition they are a variant of
and have a bug a programmer could make there (a dropped guard, a stale value).
No specification uses them; replacing the definition by its slip makes TLC
report the property the definition is there for.

### PaymentCallback

`pc[d]` is the await at which the handler of request `d` stands
(`billing.service.ts:364-456`). `Receive` and `Refuse` are the order lookup and
the comparison of amounts, `Lookup` the idempotency check, `TxRead`, `TxInsert`
and `TxCommit` the payment transaction, `OpenSubscription` and `Dispatch` the
two halves of `openSubscriptionForPlan`. `snap[d]` is the order as read inside
the transaction: `NewStatus` and `NewPaidAt` write from it, as the code does,
with no lock in between. In READ COMMITTED a row is seen by others only after
the commit, hence `row = "uncommitted"`. The commit action writes the order and
commits at once: the update waits for a concurrent writer of the order anyway
and overwrites it unconditionally. `made` orders transaction rows by their
insert, which is what `orderBy: createdAt desc` sorts by. `Crash` stands for a
process that stops and for any exception.

Provider and trade number are one value. A callback's date, the payload and the
months are left out. Starting a payment by hand
(`createPendingPaymentTransaction`) inserts a row with no trade number, which no
code reads: it is left out. Orders are never deleted and nothing else writes
their status.

### QuotaMetering

One tenant, one metered feature. An opening reads the clock
(`PrepareOpening`), then inserts subscription and bucket in one transaction
(`CommitOpening`; `PeriodTaken` is the unique key with `skipDuplicates`).
`createSubscription` inserts a subscription of any period without a bucket. A
slot is one open AI call: `Ask` (subscription, with the clock read at the start),
`Check` (bucket, compared with the same clock value), `CallFails` or
`CallSucceeds` (provider), `Record` (ledger row and every covering bucket in one
transaction, with a clock value read before it). `Tick` moves time between any
two of these. `RecordManually` is `POST usage/ledger`. The catalogue of plans is
constant while the model runs; a feature that is not metered never gets a quota
check and is left out. `logged`, `ledger`, `charged` and `manual` are history.
The equality of two moments stands for the same millisecond.

### KnowledgeIngest

`parse`, `task`, `rows` and `vectors` are the tables, `job`, `left`, `stalled`
and `holder` the queue, `pc[w]` the statement a worker stands at.
Parsing: `MarkRunning`, `Load`, `DeleteChunks`, then `CreateChunk` and
`SetVector` per chunk, `MarkFileSucceeded`, `MarkTaskSucceeded`; every call may
`Fail` into the catch block, whose own calls may fail again (`FailUncaught`).
Rebuilding: `ReadChunks`, `UpdateChunk` per row. A chunk is identified by the
run that created it and its index, which is what its generated id does.
`UpdateChunk` joins the update of the embedding, which throws when the row is
gone, and the raw `UPDATE` of the vector, which then changes nothing.

BullMQ is external and is modelled from how the code uses it: a thrown error
uses up one of `Attempts`; an active job whose lock expired is handed out again
once and fails the second time (`maxStalledCount` 1, the default); a worker that
lost its lock (`LoseLock`) runs on, and its result is not heard. Text extraction
and size limits are one `Load` that succeeds or fails. The embedding call has no
timeout of its own; the HTTP client's default (five minutes) ends it, so it too
ends in success or failure.

### RagQuery

Extends `KnowledgeIngest`: every action conjoins one of that module's or leaves its
variables alone, which is the theorem `RagIsIngest`. `route[s]` is what the embedding
route of a scope leads to, and `Embedding` what `resolveEmbeddingRoute` makes of the
three: the narrowest scope with a route decides, and if its model or provider is not
active the text is embedded by `localEmbed`, without a look at a wider route. `Embed` is
`embedForScope`, which answers with the local embedding too when the provider fails.
`held` is an embedding that has been made and not stored: of one chunk for a worker
(`EmbedChunk`, then `StoreChunk` and `StoreVector`), of all chunks for a file added with
its content (`EmbedInline`, `StoreInline`). `space[r]` is which embedding made the
vector of a row. A rebuild remembers in `reading` how many changes and fallbacks there
were when it read the chunks, and which rows were then in other hands (`InHand`); this
is history.

A query checks its key once (`ragQuery`), then searches by vector and, if that finds
nothing or throws, by text. The table's filter by tenant means that the chunks of a
shared base, whose tenant is NULL, are never found by the key of a tenant; so the rows
of the model are those of one tenant. `topK` and the ranking are left out: what matters is
which rows the search sees, and `lacks` keeps the files that are marked as succeeded and
of which it does not see all.

### WebhookDelivery

A sender is a dispatch or a manual retry; both run `deliver`: `Post`, then
`Answer` (any status) and `ReadBody`, or `Abort` (connection error, or the timer of five
seconds), then `Save`, the one update that counts the attempt. `place` is the
loop's position. A webhook is its rank by `createdAt`; no code changes or
deletes one. `Fail` is a create or update that throws: `return update(...)`
inside the `try` is not awaited there, so the `catch` does not see it, and the
business request that dispatched fails. The timer is cleared
once the status is there (`webhook-delivery.service.ts:93`), so nothing in this code bounds
`ReadBody`: an endpoint that answers and stalls is given up by the HTTP client only, which is
an assumption of `DispatchEnds`. That reading the body breaks off is caught.
`DeliveryPromise` is the same with nothing but the log in sight: a delivery is opened in
order, accepted, settled. `nextRetryAt` is stored but nothing reads it: a retry happens only by
hand. Event types outside the supported list are dropped before they get here.

### ModelRouting

One app, one route key. Each administrator's request is `Begin` (the row it is
about), then its checks, one await each (`CheckProvider`, `Count`,
`CheckPrimary`, `CheckFallback`, `Find`), then one `Write`. Nothing is locked in
between, so any other request may write first; `overtaken[h]` is history and
records that somebody did since `h` began. `createRoute` looks and writes in one
transaction, but READ COMMITTED locks nothing that is not there, so `Find` and
the write stay two steps. `Taken` is the unique key on app, tenant and route key,
which PostgreSQL does not apply to rows whose tenant is NULL. `updateRoute`
writes all columns, also those it only read (`seen`). A scope that means the same
as what the code computes from `appId` and `tenantId` is one value: a tenant,
`"app"` or `"global"`. A call reads route, model and provider one after the other.

`AtomicCatalogue` has one action per kind of request, guarded by all the checks the code
makes, on the rows as they are at that moment. `CatalogueKept` says that a write of a request
which nobody overtook is such an action; what overtaken ones do is the race.

An administrator acts as the platform, in the context of a tenant, or in that of the
whole app. The last is a context without a tenant: `switchContext` gives it to every
member of one of the app's tenants (`auth/auth.service.ts:213`, `238-244`), the
interceptor lets it through, and the permission guard admits them with the roles they
have in their tenants. There `resolveAdminScope` falls back to the tenant of the body, or
to none (`ai-center/ai-center.service.ts:557-559`: `NamesTenant`, `NewScope`,
`MovedScope`), and `assertRouteAccess` admits the app's own routes (`RouteAccess`).

`TenantsApart` compares what calls of each tenant may be served with before and
after a route request that is not the platform's. In a tenant's context it changes that
for this tenant only. In the context of the app it changes it for a tenant the body names,
and for tenants without an active route of their own, who are served by the app's. So the
administrator of one tenant can replace the route of another, with no race at all; the
documents say otherwise (`docs/API_CONTRACT.md:183-187`, `README.md:279-285`: request
bodies cannot select another tenant), and the property names it as its exception.

`StaleFallback` is about the fallback model of a route. It is checked when a body names
it, but `createRoute` on a row that exists keeps the row's own without a look, which
`StaleFallbackOnlyByRace` names as its exception; no call uses a fallback yet.
`README.md:224-226` says that disabling a provider is refused while models that are not
archived refer to it, where the code counts active and inactive ones, so disabled models
do not stop it.

### PromptPublishing

One app, one prompt key. A publication is `FindVersion`, then a transaction: the
updateMany that archives begins with a snapshot of the versions (`BeginArchive`),
waits for the locks another publication holds (`Archive`), and `Publish` is the
rest of the transaction with its commit, when its changes become visible at once.
A version that is inserted after the snapshot is not archived. `createPromptVersion`
reads the highest number and inserts in two steps without a lock (`NumberVersion`,
`InsertVersion`); `IsFree` is the unique key. `late` is history: versions created
as published, which a body may ask for, or while a publication of their prompt had
its snapshot. A call reads the prompt (`ResolvePrompt`) and then the version
(`ResolveVersion`).

A request for a prompt of another tenant is refused before it changes anything and
is left out.

### TenantSetup

One app. `Begin` is the start of `create`, `initializeRoles`, `addMember` or
`updateMember`; `create` inserts the tenant at once (`Create`). `initializeRoles`
is, per template, `FindRole`, `CreateTemplateRole` (the unique key may refuse it,
which is a `Fail`) and `Grant` (the `createMany` that skips what is there); `at[r]`
is the template it has got to. A membership takes `CheckRole`, `FindUser`,
`CreateMemberUser` if there is no account, and `Upsert`; an update `CheckRole` if it
names a role, and `WriteMember`. `create` goes on into the same steps with the
owner's role. `Fail` may end a request anywhere and leaves what it has written.
`CreateRole`, `GrantPermission` and `SetUser` are the requests of other services
that write the same rows.

A visit is a login or a context switch: the memberships are read once to choose the
context (`ChooseContext`, `Switch`) and again for the token (`Issue`); `Accepted` is
`TenantContextInterceptor` for a request with that token and no context headers.
`overtaken`, `initialized`, `asked`, `broken` and `touched` are history.

Roles are their tenant and key, users their address, which is taken never to
change; memberships of the app itself, platform users, passwords and the tenant's
other columns are left out. A status is active or not.

### AdminConsole

One tab of the console. A list is an endpoint the console lists; of what the server has
for it only a version is kept, which every request that changes the list raises, so that
"old" and "new" rows can be told apart. `cache[k]` and `flight[k]` are TanStack Query's
answer and fetch for a key (a list and the active context): external, modelled from how
the console configures it (`staleTime` 30 s, `retry` 1) and calls it. An answer may be
read on the server at any time between `Sent` and `Land`. `Show` is what `useQuery` does
when a key comes on the screen.

`save[s]` is a mutation: `Request` sends it to the first base URL, `CarryOut` and
`TurnDown` are a server's doing, and `apiRequest` goes on to the next URL after a
network error or a 404 (`NetworkError`, `NotFound`), also when the lost answer was to
a request that had been carried out. `BreakOff` is a refusal half-way, which `made` does not
count but `part` does: a tenant is stored and its creation is then refused
(`tenancy/tenants.service.ts:134`, `151-153`; hence `Stepwise`), or fails at a later step. An
action on a row asks `window.confirm` first; answered with no, the mutation resolves with
nothing sent, and `onSuccess` tells success and renews the list all the same (`Dismiss`,
`App.tsx:1032-1038`, and likewise at 905, 1465 and 1735). With `VITE_API_BASE_URL` set, or in
development, there is one URL (`Bases = 1`), in other builds there are three; the instance
has two, one to go on from and a last. `Succeed` is `onSuccess`: it renews the lists that
the page shows *now* (`Rendered`, because the callback is of the last render), closes
the form that is open, and fetches again what is on the screen. `mounted` says whether the
component that made the save is still there. Pages without a `resourceConfigs` entry
(audit log, knowledge, API keys and webhooks of developers) have no form and no row
actions, hence `Writable`. A fetch that failed is under an `ErrorBanner` (`Banner`), but
not on the overview and in `TenantMembersDrawer`, which have none for it (`Silent`).

`signIn` and `onLogout` leave the cache as it is; `OtherTab` is what other tabs do to the
`localStorage` they share, `Reload` the browser's reload. `old`, `missed`, `late`, `owed`,
`elsewhere` and `moved` are history.

## 3. Runs

| Run | Instance | Shows |
|---|---|---|
| `payment_concurrent` | 1 order, 3 deliveries, 2 at once, 1 crash, 6 callbacks (success, failure and refund under one trade number, a success under another and one without, a wrong amount); 560 195 states | `RecordsAreTrue`, `AnswersAreTrue`, `PaidOpens`, and `PromiseKept`: up to stale commits the handler implements `PaymentPromise` |
| `payment_double_open` | 2 copies of one success at once | violates `OpenedOnce` (`README.md:201-203`) |
| `payment_lost_open` | 2 deliveries one after the other, 1 crash | violates `AcknowledgedOpens` (`docs/API_CONTRACT.md:269-271`) |
| `quota_metering` | 2 slots, 2 openings, 3 plans (limited to 2, unlimited, without the feature), 4 answered calls of quantity 1, 3 instants; 882 273 states | `UsageIsBounded`, `PeriodsMean`, `ChargedInPeriod` |
| `knowledge_ingest` | 1 file, 1 rebuild, 2 workers, 2 chunks, 2 attempts, 1 failing call, 1 crash, 1 lost lock; 649 298 states | `StatusesAreTrue`, `RunsBounded`, `QueuedIsDecided`, `JobsEnd` |
| `rag_query` | the same without crash and lost lock, with 1 query, 1 model, 1 change of a route and 1 failed embedding; 1 325 014 states | `RebuiltIsComparable`, `AnswersAreWhole` |
| `knowledge_lost_job` | 1 file, a queue that refuses | violates `PendingHasJob` (`README.md:260-261`) |
| `webhook_delivery` | 1 event, 3 webhooks (of the tenant, of another, of the app), 2 retries, 1 failing call, 1 crash; 72 867 states | `RowsAreTrue`, `ReachedInOrder`, `DispatchEnds`, and `PromiseKept`: the senders implement `DeliveryPromise` |
| `model_routing` | 2 providers, 2 models, 2 routes, 2 tenants, 2 requests (19 bodies) and 1 call, 2 in flight; 3 208 648 states | `DamageOnlyByRace`, `TenantsApart`, `UndisturbedCallsAgree`, and `CatalogueKept`: up to overtaken requests the handlers implement `AtomicCatalogue` |
| `prompt_publishing` | a prompt of the app with 2 versions and one of a tenant with 1, 2 requests and 1 call; 353 640 states | `OnePublished`, `UndisturbedLookups`, `ChangedByPublishing` |
| `tenant_setup` | 2 tenants, 1 user, 2 memberships, 2 role templates of 1 permission, 2 requests (8 bodies) and 1 visit, 2 in flight; 582 730 states | `SetupIsWhole`, `MembersFit`, `UndisturbedSessionsWork` |
| `admin_console` | 2 users, 1 context besides none, 5 pages (2 tables, 2 tabs, the overview), 2 panels, 1 save, 2 base URLs, 4 fetches, 1 event, under two constraints (below); 760 875 states | `OwnSavesShown`, `FormFitsPage`, `CarriedOutOnce`, `OthersRowsAreOld` |

Every run with invariants also checks its module's type invariant. A property that names
several parts is their conjunction: `RecordsAreTrue` is that a settled order has a row that says
so (`StatusIsRecorded`) and a subscription a payment (`OpenedOnlyByPayment`); `UsageIsBounded`
that overruns are bounded and no call is metered twice (`OverrunBounded`, `MeteredOnce`);
`SetupIsWhole` that initialised and created tenants have what they were to have
(`RolesComplete`, `CreatedIsReady`); `AnswersAreTrue` is that an idempotent answer repeats a
recorded callback and an acknowledged success is granted; `PeriodsMean` that a call is
admitted by a bucket of a period that holds, and periods have one bucket;
`StatusesAreTrue` that the task tells the file's state and a job that is done succeeded;
`RowsAreTrue` that the columns of a delivery agree and every attempt is counted;
`ReachedInOrder` that webhooks are sent to in order and all of them are; and
`DamageOnlyByRace` that dangling and orphaned references, twin routes and stale fallbacks
take two requests that overlap.

Bounds, and why they are enough. Two concurrent requests are what every race
here takes; the third payment delivery sees what the two left behind (the
repeat, the refund in between). Every callback is for one order, which has a plan:
the wrong amount, the second and the missing trade number occur; orders that share a
trade number, and orders without a plan, are left to the proofs. The quota limit is two
calls, so that a call can fit, fill and exceed it, and four calls are more than
limit and race together let through; larger quantities multiply states without a
new case, and the proof of `OverrunBounded` covers them. Three instants let a period begin, hold and end between
any two steps of a call. Two chunks make "half replaced" a state, two attempts a
retry and a last failure (and three runs of a file, the bound of `RunsBounded`, when a job
stalls in between), two workers the overlap of rebuild and parse, or of two
runs of one file. In `rag_query` one change of a route and one failed embedding are what makes two
embeddings meet in one file; a rebuild that reads before, between or after them, or before
a parse has stored what it holds, occurs; crashes and lost locks, which its properties
exclude, are left to the proofs. Three webhooks of three owners make order and scope visible;
with two retries three senders meet on one row. Two requests and a call at once, of which two are in flight in
`model_routing` and `tenant_setup`, are every pair that can overtake each other; the bodies of
`model_routing` are the
ones that create, disable, activate, move and re-point each kind of row, as the
platform, as the owner, as a stranger and in the context of the app, which
overwrites a tenant's route with one body and changes the app's with another. Two versions of a prompt are what the
race of two publications with a creation takes, and the tenant's prompt hides the
app's. Two role templates have a first and a last, and two memberships of one user let
one be disabled while the other holds. In the console three fetches are an answer, one that
is late, and the one that a save calls for; a panel takes one of its own to come, and a
fourth, which `LastFetchRenews` leaves for it, is the one by which its list is renewed. `LostIsLast`
takes a lost answer for the one event, and follows the save whose answer it was to its end but no
further: what comes then is as if it had not been lost, and is covered without it. One event is one sign-out, other tab, reload,
change by others, failed or aged answer. Two saves at once take more states than TLC can
visit in minutes and are covered by the proofs, which bound nothing. Crashes, failing calls and lost
locks are bounded by counters (`MaxCrashes`, `MaxErrors`, `MaxLost`), the clock
by `MaxTime`, calls by `MaxLogs`, `MaxManual`, requests at once by `MaxInFlight`, changes of
routes and failed embeddings by `MaxChanges` and `MaxFallbacks`, fetches and what happens to the
tab by `MaxFetches` and `MaxEvents`.

`CHECK_DEADLOCK FALSE` is set where every request of the instance may have been
used up, which is the normal end.

Fairness. Only what the program itself drives is fair: a handler that is being
run goes on (`WF` of its next step: the event loop resumes it when the awaited
call ends, and `Crash` or `Die` may always take the step's place); a worker goes
on; BullMQ hands out waiting jobs and looks for expired locks; the timer fetch fires. The HTTP client ends the reading of a body (`ReadBody`), which no timer of this
code does: a fairness of that client, not of the endpoint. Callers, providers, endpoints and users owe nothing: no fairness on
`Receive`, `Answer`, `Retry`, `AddQueued`, on failures or on crashes, and none in
`RagQuery`, `AdminConsole`, the catalogue and the tenants, whose properties are all of safety.

## 4. What the checks found

* **A subscription can be opened twice for one payment** (`payment_double_open`).
  Two requests with one callback both pass the idempotency check and both read the
  order as pending. `PromiseKept` says that only the commit of a request which read an
  order that changed since (`StaleCommit`) goes beyond the promise, and
  `SerialKeepsPromise` that requests handled one at a time never do.
* **A paid order can stay without a subscription for good** (`payment_lost_open`).
  After a crash between the payment's commit and the opening, every repeat is
  answered as idempotent or finds the order paid. `AnswersAreTrue` says
  that this is the only way.
* **A file can stay pending without a job** (`knowledge_lost_job`). The job is
  added after the transaction and nothing adds it later.

Things that hold and are worth knowing: a quota is overrun by at most what the
other calls in flight ask for; usage recorded after a period ended is charged to
whatever bucket holds then, or to none; success, refund and the success again
grants a plan twice, even one at a time (`PaymentPromise` allows `Pay` from
`refunded`); as long as no living worker loses its lock, file and task statuses
can be trusted, through crashes and retries. A lost lock (two runs of `replaceChunks`
interleave) breaks both parts of `StatusesAreTrue`, which are stated for `lost = 0`.

After a rebuild all vectors can be compared, with two exceptions that
`RebuiltIsComparable` names: something changed since the rebuild read the chunks (a route,
or an embedding the provider failed to make, which is stored as a local one without a
trace), or a row's embedding was already made by somebody else and stored over the
refreshed one. A search sees a file that is marked as succeeded whole, although its chunks
are replaced one by one, as long as no worker died or lost its lock and at most one call
failed (`AnswersAreWhole`).

In the catalogue no reference goes wrong without two requests that overlap, with
three exceptions the properties name: activating a
disabled model does not look at its provider, moving a route does not look for one
that is there, and creating a route that exists keeps its fallback unseen. What is whose is another matter:
in the context of the app a tenant's administrator writes routes of other tenants
(`TenantsApart`, above). A call fails, or takes a row as it was,
only if somebody wrote during the call. Two versions of a prompt are published at
once only if one was created as published or while another was being published;
even then calls get the current version.

A tenant whose creation failed half-way stays, is used by other requests, and can be
completed by `initializeRoles` and `addMember`; `initializeRoles` completes whatever it
finds, in any state and next to any other request (`RolesComplete`). A login or switch
during which a membership is written can issue a session that the next request
refuses; without that it cannot (`UndisturbedSessionsWork`).

Several properties bound the damage of a race the code has, and do not rule the race out:
`UndisturbedCallsAgree`, `DamageOnlyByRace`, `CatalogueKept`, `TenantsApart`, `OnePublished`,
`UndisturbedLookups` and `UndisturbedSessionsWork` except requests that somebody overtook, each
by a condition it states, and `FormFitsPage` and `OthersRowsAreOld` except the one way in which the
console does what they speak of. They show that there is no other way.

In the console, a user who signs in after another in one tab may be shown the other's rows
until they are fetched again, because signing out keeps the query cache; rows
of others come in no other way (`OthersRowsAreOld`; another tab that changes the token
is the exception). A save that is told to have succeeded was carried out, and twice
if its answer was lost and the next base URL took it again, unless it is an action that was
not confirmed: then "done" is told of nothing. One that is told to have failed
may have been carried out if an answer was lost, or half-way if it creates a tenant
(`CarriedOutOnce`). What a save changed is
shown, unless the console showed another list when the answer came, which is then the list
it renews, or the list was just being fetched for the first time, or fetching it has failed in a component that
does not say so: the members of a tenant stay as they were, without a sign (`OwnSavesShown`). A form
stays open over another route of `ResourcePage` and another context, and is then sent there;
otherwise it fits (`FormFitsPage`).

## 5. Proofs

All theorems hold for every value of the constants that satisfies the named
assumption of the module (`PaymentAssumption`, `QuotaAssumption`,
`IngestAssumption`, `WebhookAssumption`, `RoutingAssumption`,
`PromptAssumption`, `SetupAssumption`, `RagAssumption`, `ConsoleAssumption`): finite sets of requests and workers, plans with
limits, at least one chunk, one attempt and one base URL, values that stand for "none" outside
the sets they stand beside; nothing about sizes or bounds.

| Proof module | Theorems | The argument |
|---|---|---|
| `PaymentCallbackProofs` | `TypeCorrect`, `SettledByARow`, `PaymentBeforeSubscription`, `IdempotentIsRepeated`, `AcknowledgedSuccess`, `RecordsTellTheTruth`, `AnswersCount`, `HandlerKeepsPromise`, `SerialKeepsPromise`, `SerialOpensOnce` | The properties are not inductive: they need what a request has read (`seen`, `snap`) to have been true once, and a row to stay committed. The invariant says, for each place in the handler, which row exists and what the snapshot proves about grants made so far. `HandlerKeepsPromise` is the refinement: it maps each commit whose snapshot is the order's present state to `Pay` or `Overturn`, and everything else but a stale commit to `Create` or a stutter. `SerialKeepsPromise` adds that with one request in flight no commit is stale, and `SerialOpensOnce` that then a payment of which only the success is reported has one subscription at most, however often it is repeated and wherever a request dies (`GrantedOnce`: an order that is not paid has no grant, a paid one a single one) |
| `QuotaMeteringProofs` | `TypeCorrect`, `BoundedOverrun`, `MeteredAtMostOnce`, `UsageStaysBounded`, `SerialNeverOverruns`, `AdmittedByLivePeriods`, `BucketsAreUnique`, `PeriodsCount`, `NotLostInPeriod` | `OverrunBounded` needs the calls in flight: what a bucket was charged and what its admitted calls (`HoldersOK`) still may charge stays within limit and room (`Room`), because a call is admitted only if it fits what is used so far, which is at least what was charged. The bound counts slots, so the proof works with cardinalities of the set of holders; with one slot nothing is left of it and the limit is exact (`SerialNeverOverruns`) |
| `KnowledgeIngestProofs` | `TypeCorrect`, `StatusesTellTheTruth`, `DoneMeansSucceeded`, `StatusesCount`, `RunsAreBounded`; of `RagQuery`: `RagIsIngest`, `RagTypeCorrect`, `AnswersHaveAll`, `RebuildsMakeComparable` | As long as no lock was lost an active job has at most one worker (`LocksOK`, `OrderOK`); `WorkerOK` says which chunks of the current run are stored when the worker stands at each statement, `FileOK` and `DoneOK` what the statuses mean in between. One lemma per action. `RunsAreBounded`, the safety half of `JobsEnd`, counts the turns of a file's job: the runs made and those that workers which hold it are about to make (`Ahead`, a finite set) are paid for by attempts used up, by the one stall, or are the turn it has now (`TurnsOK`), lost locks included. `RagIsIngest` is a refinement that needs no mapping: every step of `RagQuery` is one of `KnowledgeIngest` or a stutter of it, so what is proved of the one holds of the other. `AnswersHaveAll` needs that a file which is marked as succeeded is not parsed again while nobody died (`NotAgain`), so that one full run of its chunks stays (`Whole`). `RebuildsMakeComparable` needs `CompInv`: as long as a rebuild is fresh, an embedding that is held, or the vector of a row, is of the present embedding, or was in other hands when the rebuild read the chunks, or is a vector still in its `todo` |
| `WebhookDeliveryProofs` | `TypeCorrect`, `ColumnsAgree`, `EveryAttemptCounts`, `RowsTellTheTruth`, `SentInOrder`, `DispatchReachesAll`, `ReachesInOrder`, `SendersKeepPromise`, `DispatchAdvances`; of `DeliveryPromise`: `LogIsTrue` | `SendersOK` says what a sender holds at each step (an answer "ok" means the endpoint accepted), `PlacesOK` that every webhook at or before the loop's position has its row and, but for the one at hand, an outcome; `AttemptsCounted` needs the cardinality of the senders of a row to change by one. `SendersKeepPromise` is the refinement, with no exception: `Create` is `Open` because of `PlacesOK`, an answer or an abort is `Accept` or a stutter, `Save` is `Settle`, and everything else leaves the rows alone. `DispatchAdvances` is the safety half of `DispatchEnds`: a measure (`Ahead`) of at most five steps per webhook, and one, that each step of the dispatch lowers and nobody else changes |
| `ModelRoutingProofs` | `TypeCorrect`, `TenantsKeptApart`, `NoDangling`, `NoOrphans`, `NoTwins`, `NoStaleFallback`, `NoDamage`, `CallsFollowCatalogue`, `RequestsAtOnce`, `SerialCatalogue`, `SerialNeverDangles`; of `AtomicCatalogue`: `AtomicNeverDangles` | Every write marks all others in flight as overtaken, so what a request that is not overtaken has checked still holds when it writes (`ChecksHold`), and what a call has read still holds when it ends (`CallsKnow`). References never point to rows that are missing (`NothingMissing`). `TenantsKeptApart` needs that the row a request has read is still in the scope it was admitted for, so that a write reaches the scope one acts in, or the one the body names; the app's routes serve a tenant only if it has no active one (`OtherScopes`, `RouteWrites`). `RequestsAtOnce` is the refinement: what a request read of the row it is about stays as it was until somebody overtakes it (`RowsStay`), so a write that nobody overtook finds all its checks true at that moment and is one action of `AtomicCatalogue` (one lemma per kind of request). With one administrator (`OneRequest`) nobody overtakes, and what the abstract catalogue keeps, that active routes have active models, holds of the code (`SerialNeverDangles`) |
| `PromptPublishingProofs` | `TypeCorrect`, `PublishedAlone`, `PublishingOnly`, `LookupsAgree`, `SerialOnePublished` | `OnePublished` needs that the rows a publication has read are all versions but late ones (`SnapshotsAlmostComplete`), through creations and other publications. That a highest number exists (`GreatestElement`) follows from the well-foundedness of the natural numbers. `SerialOnePublished`: without overlapping requests and versions created as published nothing is late (`NothingLate`), and `OnePublished` has no exception left |
| `TenantSetupProofs` | `TypeCorrect`, `RolesAreComplete`, `MembersAlwaysFit`, `CreatedTenantsReady`, `SetupsAreWhole`, `SessionsWork` | What a request has found out or done (`Facts`: its tenant exists, the templates before `at[r]` are complete, its role fits, its user exists) stays true because rows and grants only grow (`Grows`); `Seen` says the same of a visit as long as no membership is written |
| `AdminConsoleProofs` | `TypeCorrect`, `SavesCount`, `FormFits`, `OthersAreOld`, `OwnSavesAreShown` | `SavesCount`: at every stage of a save (`CarriedRight`) what it changed, in full or in part, is at most once more than answers were lost, and an action not confirmed was never sent. `OthersAreOld`: unless another tab interfered the stored token is the session's (`TokenStored`), so what is fetched is the user's own, and the rest was there at sign-in (`RowsBy`). `OwnSavesAreShown` needs that rows from before a save are marked stale, shown or not (`CachedBefore`), that a fetch which may bring such rows is known as late (`LoadedBefore`), and that what is owed is there (`OwedIsThere`); that stale rows on the screen are being fetched or failed, loudly or not, is `ShownRight` |

Only model-checked: the liveness properties (`PaidOpens`, `QueuedIsDecided`,
`JobsEnd`, `DispatchEnds`), since the proof system has neither fairness nor
`ENABLED`. Of two of them the safety half is proved: `RunsAreBounded` for `JobsEnd` and
`DispatchAdvances` for `DispatchEnds`; what is left to fairness is that a step which can be
taken is taken. `PaidOpens` and `QueuedIsDecided` have no such half: what they wait for is the
next statement of one handler, or of the worker. Three abstract specifications
(`PaymentPromise`, `DeliveryPromise`, `AtomicCatalogue`) and one composition (`RagQuery`) are
refinements that are proved for every step. No model has a recursive definition over data.

## 6. Not modelled

* Tokens over time: what a token issued earlier still allows after its user's role,
  membership or password changed, and the permission guard. The guard and the scope helpers
  are reads without state of their own that refuse a request before it changes anything;
  `TenantSetup` has them for a fresh session only.
* The rate limiter: one synchronous function over counters in process memory, between whose
  steps nothing can come. Its fixed windows let through up to twice the limit around a
  boundary, by design, and counters are lost with the process.
* `upsertSetting` finds and then creates, and its unique key does not bind NULL scopes: the
  race of `createRoute`, which `ModelRouting` shows (`TwinsOnlyByRace`).
* Order numbers from the clock's milliseconds: the unique key refuses the second of two, and the
  caller gets an error.
* `nextRetryAt` of a delivery is stored and read by nobody: a failed delivery stays so until
  it is retried by hand.
* CRUD of single rows: apps, dictionaries, menus, plans and features, the columns of a
  tenant, a user or a model that no other code decides by.
* The order of payment, opening of the subscription and dispatch of webhooks is in
  `PaymentCallback`; what a dispatch does is in `WebhookDelivery`. They are not composed: the dispatch
  comes last and its failure only changes the answer, which is a crash in the first module.
* The arithmetic of vectors, ranking and `topK`, text extraction, rendering of prompts,
  cryptography (signatures, password and key hashes).
* In the console: columns, fields and messages, filters and paging, the options of selects.
* Dashboard, task lists and health (reads), the audit log (one insert after a request, whose
  failure is swallowed), bootstrap, logging, the error filter, seeds and end-to-end scripts.
