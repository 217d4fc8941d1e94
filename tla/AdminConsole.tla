----------------------------- MODULE AdminConsole -----------------------------
(***************************************************************************)
(* One tab of the admin console (apps/admin-web): who is signed in, which  *)
(* list is on the screen, the form open over it, the answers its query     *)
(* cache keeps, and the saves on their way to the server.                  *)
(*                                                                         *)
(* A list is an endpoint that the console lists: the tables of             *)
(* ResourcePage, the tabs of AiCenterPage, the figures of Overview, and    *)
(* the tables in the panels that open over a row (members, operations,     *)
(* features of a plan).  What the server has for a list is a version, and  *)
(* rows are known by the version they were read at.  A filter is one more  *)
(* part of a query's key, as the context is, and is left out, and so are   *)
(* the queries that only fill the options of a form, the fields of forms,  *)
(* and the wording.                                                        *)
(*                                                                         *)
(* The query cache (TanStack Query 5) is external: an answer is fresh for  *)
(* 30 seconds, a stale one is fetched again when it comes to be shown, a   *)
(* fetch that fails is tried once more, and it goes on when nobody waits   *)
(* for it any longer.  React keeps the state of a page while the routes    *)
(* before and after show the same component.                               *)
(***************************************************************************)
EXTENDS Naturals, FiniteSets

CONSTANTS
  Users,          \* users that may sign in
  Contexts,       \* contexts one can choose
  NoUser, NoContext,
  Home,           \* the context of a new session
  ResourceLists,  \* lists of ResourcePage
  AiLists,        \* tabs of AiCenterPage
  FirstTab,       \* the tab it opens with
  Overview,       \* the list of the first page
  Panels,         \* lists of panels
  PanelHome,      \* the list over whose rows a panel opens
  OwnContext,     \* panels that use the context of their row
  Writable,       \* lists with a resourceConfigs entry
  Stepwise,       \* lists to which a row is added in several steps
  Silent,         \* lists whose component does not say that a fetch failed
  Saves,          \* saves and row actions that may be made
  Bases,          \* how many base URLs apiRequest tries
  MaxFetches,     \* bound: fetches of lists
  MaxEvents       \* bound: what happens to the tab, its answers and the lists

Pages == ResourceLists \cup AiLists \cup {Overview}
Lists == Pages \cup Panels
Keys  == Lists \X (Contexts \cup {NoContext})

ASSUME ConsoleAssumption ==
  /\ NoUser \notin Users /\ NoContext \notin Contexts
  /\ Home \in [Users -> Contexts \cup {NoContext}]
  /\ ResourceLists \cap AiLists = {} /\ Overview \notin ResourceLists \cup AiLists
  /\ FirstTab \in AiLists
  /\ Panels \cap Pages = {} /\ "none" \notin Lists
  /\ PanelHome \in [Panels -> ResourceLists]
  /\ OwnContext \subseteq Panels
  /\ Writable \subseteq ResourceLists \cup AiLists
  /\ Stepwise \subseteq Lists /\ Silent \subseteq Lists
  /\ Bases \in Nat \ {0} /\ MaxFetches \in Nat /\ MaxEvents \in Nat

VARIABLES
  stored,     \* whose token is in localStorage, which all tabs share
  session,    \* the token and the active context in the state of this tab
  place,      \* the list of the page on the screen
  drawer,     \* the form over it, and what it was opened for
  panel,      \* the panel over it
  cache,      \* the answer kept for a key
  flight,     \* the fetch under way for a key
  db,         \* the server's version of a list
  save,       \* a save: its request, and what happens when it succeeds
  owed,       \* history: the newest version a save of this tab was told of
  elsewhere,  \* history: another tab has changed the token since sign-in
  fetches, events

screen == <<session, place, drawer, panel>>
vars   == <<stored, screen, cache, flight, db, save, owed, elsewhere, fetches, events>>

(* old: it was there when the user signed in; missed: a save of the list   *)
(* was told of when the page showed another; late: one was told of when    *)
(* the fetch was under way.  These three are history.                      *)
NoAnswer == [has |-> FALSE, version |-> 0, by |-> NoUser, stale |-> FALSE,
             error |-> FALSE, old |-> FALSE, missed |-> FALSE]
NoFlight == [on |-> FALSE, from |-> 0, by |-> NoUser, old |-> FALSE, late |-> FALSE]
NoDrawer == [open |-> FALSE, for |-> <<Overview, NoContext>>, moved |-> FALSE]
NoSave   == [stage |-> "unused", kind |-> "act", to |-> Overview, renews |-> {},
             mounted |-> FALSE, base |-> 1, version |-> 0, made |-> 0, part |-> 0,
             lost |-> 0, cancelled |-> FALSE]

(* Of a save that is over only how it went is of interest.                 *)
Ended(v, stage) ==
  [NoSave EXCEPT !.stage = stage, !.made = v.made, !.part = v.part, !.lost = v.lost]

NoPanel == "none"
Pending == {"sent", "made", "refused", "missing"}
InPanel == {"post", "action", "usage", "subscription"}

Happens == events < MaxEvents /\ events' = events + 1

-----------------------------------------------------------------------------
(* The key under which a list is asked for.                                *)
KeyOf(l, x) == <<l, IF l \in OwnContext THEN NoContext ELSE x>>

ShownWith(s, l, p) ==
  IF s.token = NoUser THEN {}
  ELSE {KeyOf(l, s.context)} \cup IF p = NoPanel THEN {} ELSE {KeyOf(p, s.context)}

Shown == ShownWith(session, place, panel)

Sent(k, token) == [on |-> TRUE, from |-> db[k[1]], by |-> token,
                   old |-> FALSE, late |-> FALSE]

(* useQuery fetches what comes to be shown and is not there, or is stale,  *)
(* unless it is being fetched.                                             *)
Wanted(k) == (~cache[k].has \/ cache[k].stale) /\ ~flight[k].on

Show(s, l, p) ==
  LET new == {k \in ShownWith(s, l, p) \ Shown : Wanted(k)} IN
  /\ session' = s /\ place' = l /\ panel' = p
  /\ fetches + Cardinality(new) <= MaxFetches
  /\ fetches' = fetches + Cardinality(new)
  /\ flight' = [k \in Keys |-> IF k \in new THEN Sent(k, stored) ELSE flight[k]]

-----------------------------------------------------------------------------
(* LoginView: login was answered, signIn stores the session, and the first *)
(* page is shown.  The cache is as the last session left it.               *)
NewSession(u) == [token |-> u, context |-> Home[u]]

SlipStoredBy(u) == IF stored = NoUser THEN u ELSE stored

StoredBy(u) == u

SignIn(u) ==
  LET s   == NewSession(u)
      new == {k \in ShownWith(s, Overview, NoPanel) : Wanted(k)} IN
  /\ session.token = NoUser
  /\ fetches + Cardinality(new) <= MaxFetches
  /\ stored' = StoredBy(u)
  /\ session' = s /\ place' = Overview
  /\ fetches' = fetches + Cardinality(new)
  /\ cache' = [k \in Keys |-> [cache[k] EXCEPT !.old = cache[k].has]]
  /\ flight' = [k \in Keys |-> IF k \in new THEN Sent(k, StoredBy(u))
                               ELSE [flight[k] EXCEPT !.old = flight[k].on]]
  /\ elsewhere' = FALSE
  /\ UNCHANGED <<drawer, panel, db, save, owed, events>>

(* The page of a save goes away: its state is not set any more, and what   *)
(* it does when it succeeds stays as it was last rendered.                 *)
Unmounted == [s \in Saves |-> [save[s] EXCEPT !.mounted = FALSE]]

(* onLogout: the cache stays.                                              *)
SignOut ==
  /\ session.token # NoUser
  /\ stored' = NoUser
  /\ session' = [token |-> NoUser, context |-> NoContext]
  /\ place' = Overview /\ drawer' = NoDrawer /\ panel' = NoPanel
  /\ save' = Unmounted
  /\ Happens
  /\ UNCHANGED <<cache, flight, db, owed, elsewhere, fetches>>

(* Somebody signs in or out in another tab.                                *)
OtherTab(u) ==
  /\ u # stored
  /\ stored' = u
  /\ elsewhere' = TRUE
  /\ Happens
  /\ UNCHANGED <<screen, cache, flight, db, save, owed, fetches>>

(* The tab is loaded anew: AuthProvider takes the token that is stored,    *)
(* and everything else is gone.  A request that is on its way may arrive   *)
(* all the same, which is a change by others from now on.                  *)
Reload ==
  LET s   == [token |-> stored, context |-> NoContext]
      l   == IF place \in AiLists THEN FirstTab ELSE place
      new == ShownWith(s, l, NoPanel) IN
  /\ fetches + Cardinality(new) <= MaxFetches
  /\ session' = s /\ place' = l /\ drawer' = NoDrawer /\ panel' = NoPanel
  /\ cache' = [k \in Keys |-> NoAnswer]
  /\ flight' = [k \in Keys |-> IF k \in new THEN Sent(k, stored) ELSE NoFlight]
  /\ save' = [s2 \in Saves |-> IF save[s2].stage \in Pending
                               THEN Ended(save[s2], "left")
                               ELSE save[s2]]
  /\ fetches' = fetches + Cardinality(new)
  /\ elsewhere' = FALSE
  /\ Happens
  /\ UNCHANGED <<stored, db, owed>>

-----------------------------------------------------------------------------
(* A tab of AiCenterPage: the form is closed, and a save under way is now  *)
(* of the page that shows the other tab.                                   *)
SlipDrawerAt == drawer

DrawerAt == NoDrawer

Rendered(l) ==
  [s \in Saves |-> IF save[s].mounted /\ save[s].kind \notin InPanel
                   THEN [save[s] EXCEPT !.renews = {l}] ELSE save[s]]

ChooseTab(l) ==
  /\ place \in AiLists /\ l \in AiLists \ {place}
  /\ session.token # NoUser
  /\ Show(session, l, panel)
  /\ drawer' = DrawerAt
  /\ save' = Rendered(l)
  /\ UNCHANGED <<stored, cache, db, owed, elsewhere, events>>

(* From one route of ResourcePage to another, with the links or the Back   *)
(* button: it is the same component, whose form and panel stay open.       *)
Walk(l) ==
  /\ place \in ResourceLists /\ l \in ResourceLists \ {place}
  /\ session.token # NoUser
  /\ Show(session, l, panel)
  /\ drawer' = [drawer EXCEPT !.moved = drawer.open]
  /\ save' = Rendered(l)
  /\ UNCHANGED <<stored, cache, db, owed, elsewhere, events>>

(* To a route of another component.                                        *)
Leave(l) ==
  /\ session.token # NoUser
  /\ \/ l \in ResourceLists /\ place \notin ResourceLists
     \/ l = FirstTab /\ place \notin AiLists
     \/ l = Overview /\ place # Overview
  /\ Show(session, l, NoPanel)
  /\ drawer' = NoDrawer
  /\ save' = Unmounted
  /\ UNCHANGED <<stored, cache, db, owed, elsewhere, events>>

(* ContextSelect, which a form that is open does not close.                *)
setActiveContext(x) ==
  /\ session.token # NoUser /\ session.context # x
  /\ Show([session EXCEPT !.context = x], place, panel)
  /\ drawer' = [drawer EXCEPT !.moved = drawer.open]
  /\ UNCHANGED <<stored, cache, db, save, owed, elsewhere, events>>

-----------------------------------------------------------------------------
Here == <<place, session.context>>

(* The form for a new row, or for a row of the table, which it covers as   *)
(* long as it is open.  Either is sent in the same way.                    *)
OpenDrawer ==
  /\ session.token # NoUser
  /\ place \in Writable /\ ~drawer.open
  /\ drawer' = [open |-> TRUE, for |-> Here, moved |-> FALSE]
  /\ UNCHANGED <<stored, session, place, panel, cache, flight, db, save, owed,
                 elsewhere, fetches, events>>

CloseDrawer ==
  /\ drawer.open
  /\ drawer' = NoDrawer
  /\ UNCHANGED <<stored, session, place, panel, cache, flight, db, save, owed,
                 elsewhere, fetches, events>>

(* TenantMembersDrawer, TenantOperationsDrawer, FeatureManagementDrawer    *)
(* and PlanFeaturesDrawer.                                                 *)
OpenPanel(p) ==
  /\ session.token # NoUser
  /\ panel = NoPanel /\ place = PanelHome[p]
  /\ cache[KeyOf(place, session.context)].has
  /\ Show(session, place, p)
  /\ UNCHANGED <<stored, drawer, cache, db, save, owed, elsewhere, events>>

ClosePanel ==
  /\ panel # NoPanel
  /\ panel' = NoPanel
  /\ save' = [s \in Saves |-> IF save[s].kind \in InPanel
                              THEN [save[s] EXCEPT !.mounted = FALSE] ELSE save[s]]
  /\ UNCHANGED <<stored, session, place, drawer, cache, flight, db, owed,
                 elsewhere, fetches, events>>

-----------------------------------------------------------------------------
(* A mutation is started.  The component follows its last start only.      *)
Started(s, kind, v) ==
  [o \in Saves |-> IF o = s THEN v
                   ELSE IF save[o].kind = kind THEN [save[o] EXCEPT !.mounted = FALSE]
                   ELSE save[o]]

(* Its request goes to the first base URL, and its success will renew      *)
(* these lists.                                                            *)
Request(s, kind, l, renews) ==
  /\ save[s].stage = "unused"
  /\ save' = Started(s, kind, [NoSave EXCEPT !.stage = "sent", !.kind = kind, !.to = l,
                                             !.renews = renews, !.mounted = TRUE])
  /\ UNCHANGED <<stored, screen, cache, flight, db, owed, elsewhere, fetches, events>>

SlipRenewed(ls) == {k \in Keys : k[1] \in ls} \cap Shown

(* invalidateQueries: all keys of the list that the page shows now, or     *)
(* showed when it went away, and of the panel's lists.  They are stale ... *)
Renewed(ls) == {k \in Keys : k[1] \in ls}

(* ... and those on the screen are fetched again: a fetch of theirs is     *)
(* given up if there are rows, and left to go on if there are none yet.    *)
Again(ls) == {k \in Renewed(ls) \cap Shown : cache[k].has \/ ~flight[k].on}

(* window.confirm is answered with no: mutationFn resolves with nothing    *)
(* sent, and onSuccess runs all the same.                                  *)
Dismiss(s, kind, l) ==
  /\ save[s].stage = "unused"
  /\ fetches + Cardinality(Again({l})) <= MaxFetches
  /\ fetches' = fetches + Cardinality(Again({l}))
  /\ save' = Started(s, kind, [NoSave EXCEPT !.stage = "told", !.cancelled = TRUE])
  /\ cache' = [k \in Keys |-> IF k \in Renewed({l}) THEN [cache[k] EXCEPT !.stale = TRUE]
                               ELSE cache[k]]
  /\ flight' = [k \in Keys |-> IF k \in Again({l}) THEN Sent(k, stored) ELSE flight[k]]
  /\ UNCHANGED <<stored, screen, db, owed, elsewhere, events>>

(* An action on a row asks to be confirmed.                                *)
RowAction(s, kind, l) == Request(s, kind, l, {l}) \/ Dismiss(s, kind, l)

(* The button of a form is disabled while its component has a save under   *)
(* way; that of a row is not.                                              *)
Saving(kind) ==
  \E s \in Saves : save[s].stage \in Pending /\ save[s].mounted /\ save[s].kind = kind

(* The form is submitted, to the list on the screen.                       *)
Submit(s) ==
  /\ drawer.open /\ place \in Writable
  /\ ~Saving("form")
  /\ Request(s, "form", place, {place})

(* An action on a row that is shown: approve, disable, ...                 *)
Act(s) ==
  /\ session.token # NoUser /\ place \in Writable
  /\ cache[KeyOf(place, session.context)].has
  /\ RowAction(s, "act", place)

(* A form in a panel: a feature, a feature of a plan, a member.            *)
Post(s) ==
  /\ panel \in Panels \ OwnContext
  /\ ~Saving("post")
  /\ Request(s, "post", panel, {panel})

(* An action on a row of a panel: disable a member or a feature.           *)
ActInPanel(s) ==
  /\ panel \in Panels \ OwnContext
  /\ cache[KeyOf(panel, session.context)].has
  /\ RowAction(s, "action", panel)

(* A form of TenantOperationsDrawer: usage is recorded, or a subscription  *)
(* is opened, which renews the list of tenants too.                        *)
Operate(s) ==
  /\ panel \in OwnContext
  /\ \/ ~Saving("usage") /\ Request(s, "usage", panel, {panel})
     \/ /\ ~Saving("subscription")
        /\ Request(s, "subscription", panel, {panel, PanelHome[panel]})

(* A server carries it out ...                                             *)
CarryOut(s) ==
  LET l == save[s].to IN
  /\ save[s].stage = "sent"
  /\ db' = [db EXCEPT ![l] = @ + 1]
  /\ save' = [save EXCEPT ![s].stage = "made", ![s].made = @ + 1, ![s].version = db[l] + 1]
  /\ UNCHANGED <<stored, screen, cache, flight, owed, elsewhere, fetches, events>>

(* ... or refuses it half-way: POST /admin/v1/tenants has stored the       *)
(* tenant when it turns out that its owner cannot be made a member ...     *)
BreakOff(s) ==
  LET l == save[s].to IN
  /\ save[s].stage = "sent" /\ l \in Stepwise
  /\ db' = [db EXCEPT ![l] = @ + 1]
  /\ save' = [save EXCEPT ![s].stage = "refused", ![s].part = @ + 1]
  /\ UNCHANGED <<stored, screen, cache, flight, owed, elsewhere, fetches, events>>

(* ... or refuses it at once, or does not know its URL.                    *)
TurnDown(s) ==
  /\ save[s].stage = "sent"
  /\ \E how \in {"refused", "missing"} : save' = [save EXCEPT ![s].stage = how]
  /\ UNCHANGED <<stored, screen, cache, flight, db, owed, elsewhere, fetches, events>>

SlipIsLastBase(s) == save[s].base > Bases

IsLastBase(s) == save[s].base = Bases

(* The next base URL is tried after a network error or a 404, and after    *)
(* the last one the save has failed.                                       *)
TryNext(s, lost) ==
  LET v == [save[s] EXCEPT !.lost = save[s].lost + lost] IN
  save' = [save EXCEPT ![s] =
             IF IsLastBase(s) THEN Ended(v, "failed")
             ELSE [v EXCEPT !.stage = "sent", !.base = v.base + 1]]

NotFound(s) ==
  /\ save[s].stage = "missing"
  /\ TryNext(s, 0)
  /\ UNCHANGED <<stored, screen, cache, flight, db, owed, elsewhere, fetches, events>>

(* No answer: the request was lost, or its answer.                         *)
NetworkError(s) ==
  /\ save[s].stage \in Pending
  /\ TryNext(s, 1)
  /\ UNCHANGED <<stored, screen, cache, flight, db, owed, elsewhere, fetches, events>>

Refused(s) ==
  /\ save[s].stage = "refused"
  /\ save' = [save EXCEPT ![s] = Ended(@, "failed")]
  /\ UNCHANGED <<stored, screen, cache, flight, db, owed, elsewhere, fetches, events>>

Larger(a, b) == IF a > b THEN a ELSE b

SlipAnswered(v) == IF v.base < Bases THEN [v EXCEPT !.stage = "sent", !.base = @ + 1]
                   ELSE Ended(v, "told")

(* The first answer that is good ends the tries.                           *)
Answered(v) == Ended(v, "told")

(* onSuccess: the form that is open is closed, and the lists are renewed.  *)
Succeed(s) ==
  LET v     == save[s]
      l     == v.to
      stale == Renewed(v.renews)
      again == Again(v.renews) IN
  /\ v.stage = "made"
  /\ fetches + Cardinality(again) <= MaxFetches
  /\ fetches' = fetches + Cardinality(again)
  /\ save' = [save EXCEPT ![s] = Answered(@)]
  /\ drawer' = IF v.mounted /\ v.kind = "form" THEN NoDrawer ELSE drawer
  /\ owed' = [owed EXCEPT ![l] = Larger(@, v.version)]
  /\ cache' = [k \in Keys |->
                 IF k \in stale THEN [cache[k] EXCEPT !.stale = TRUE]
                 ELSE IF k[1] = l /\ l \notin v.renews /\ cache[k].has
                      THEN [cache[k] EXCEPT !.missed = TRUE] ELSE cache[k]]
  /\ flight' = [k \in Keys |->
                 IF k \in again THEN Sent(k, stored)
                 ELSE IF k[1] = l /\ flight[k].on THEN [flight[k] EXCEPT !.late = TRUE]
                 ELSE flight[k]]
  /\ UNCHANGED <<stored, session, place, panel, db, elsewhere, events>>

-----------------------------------------------------------------------------
(* A list is changed by anybody else, or by a request of a tab that is     *)
(* gone.                                                                   *)
OthersChange(l) ==
  /\ Happens
  /\ db' = [db EXCEPT ![l] = @ + 1]
  /\ UNCHANGED <<stored, screen, cache, flight, save, owed, elsewhere, fetches>>

(* The answer to a fetch, read on the server at any time since.            *)
Land(k) ==
  /\ flight[k].on
  /\ \E v \in flight[k].from..db[k[1]] :
       cache' = [cache EXCEPT ![k] =
                   [has |-> TRUE, version |-> v, by |-> flight[k].by, stale |-> FALSE,
                    error |-> FALSE, old |-> flight[k].old, missed |-> flight[k].late]]
  /\ flight' = [flight EXCEPT ![k] = NoFlight]
  /\ UNCHANGED <<stored, screen, db, save, owed, elsewhere, fetches, events>>

(* It fails and is tried once more (retry: 1), with the token that is now  *)
(* stored.  If it is tried twice here the first time leaves no trace.      *)
FetchAgain(k) ==
  /\ flight[k].on
  /\ flight' = [flight EXCEPT ![k] = [@ EXCEPT !.by = stored, !.from = db[k[1]],
                                               !.late = FALSE]]
  /\ Happens
  /\ UNCHANGED <<stored, screen, cache, db, save, owed, elsewhere, fetches>>

(* It fails again, and the rows that were there stay.                      *)
FetchFails(k) ==
  /\ flight[k].on
  /\ flight' = [flight EXCEPT ![k] = NoFlight]
  /\ cache' = [cache EXCEPT ![k].error = TRUE]
  /\ Happens
  /\ UNCHANGED <<stored, screen, db, save, owed, elsewhere, fetches>>

(* staleTime has passed.                                                   *)
Age(k) ==
  /\ cache[k].has /\ ~cache[k].stale
  /\ cache' = [cache EXCEPT ![k].stale = TRUE]
  /\ Happens
  /\ UNCHANGED <<stored, screen, flight, db, save, owed, elsewhere, fetches>>

(* The window gets the focus again.                                        *)
Focus ==
  LET new == {k \in Shown : Wanted(k)} IN
  /\ new # {}
  /\ fetches + Cardinality(new) <= MaxFetches
  /\ fetches' = fetches + Cardinality(new)
  /\ flight' = [k \in Keys |-> IF k \in new THEN Sent(k, stored) ELSE flight[k]]
  /\ UNCHANGED <<stored, screen, cache, db, save, owed, elsewhere, events>>

(* An answer that nobody has looked at for five minutes is dropped.        *)
Evict(k) ==
  /\ cache[k].has /\ k \notin Shown /\ ~flight[k].on
  /\ cache' = [cache EXCEPT ![k] = NoAnswer]
  /\ Happens
  /\ UNCHANGED <<stored, screen, flight, db, save, owed, elsewhere, fetches>>

-----------------------------------------------------------------------------
Init ==
  /\ stored = NoUser
  /\ session = [token |-> NoUser, context |-> NoContext]
  /\ place = Overview /\ drawer = NoDrawer /\ panel = NoPanel
  /\ cache = [k \in Keys |-> NoAnswer]
  /\ flight = [k \in Keys |-> NoFlight]
  /\ db = [l \in Lists |-> 0]
  /\ save = [s \in Saves |-> NoSave]
  /\ owed = [l \in Lists |-> 0]
  /\ elsewhere = FALSE
  /\ fetches = 0 /\ events = 0

Authenticate ==
  \/ \E u \in Users : SignIn(u)
  \/ SignOut
  \/ \E u \in Users \cup {NoUser} : OtherTab(u)
  \/ Reload

Navigate ==
  \/ \E l \in AiLists : ChooseTab(l)
  \/ \E l \in ResourceLists : Walk(l)
  \/ \E l \in Pages : Leave(l)
  \/ \E x \in Contexts \cup {NoContext} : setActiveContext(x)
  \/ OpenDrawer
  \/ CloseDrawer
  \/ \E p \in Panels : OpenPanel(p)
  \/ ClosePanel

Mutate(s) ==
  \/ Submit(s) \/ Act(s) \/ Post(s) \/ ActInPanel(s) \/ Operate(s)
  \/ CarryOut(s) \/ BreakOff(s) \/ TurnDown(s)
  \/ NotFound(s) \/ NetworkError(s) \/ Refused(s) \/ Succeed(s)

Query(k) == Land(k) \/ FetchAgain(k) \/ FetchFails(k) \/ Age(k) \/ Evict(k)

Next ==
  \/ Authenticate
  \/ Navigate
  \/ \E s \in Saves : Mutate(s)
  \/ \E k \in Keys : Query(k)
  \/ Focus
  \/ \E l \in Lists : OthersChange(l)

Spec == Init /\ [][Next]_vars

-----------------------------------------------------------------------------
Answers == [has : BOOLEAN, version : Nat, by : Users \cup {NoUser}, stale : BOOLEAN,
            error : BOOLEAN, old : BOOLEAN, missed : BOOLEAN]
Flights == [on : BOOLEAN, from : Nat, by : Users \cup {NoUser},
            old : BOOLEAN, late : BOOLEAN]
SaveRecords ==
  [stage : {"unused", "told", "failed", "left"} \cup Pending,
   kind : {"form", "act"} \cup InPanel, to : Lists, renews : SUBSET Lists,
   mounted : BOOLEAN, base : 1..Bases, version : Nat, made : Nat, part : Nat,
   lost : Nat, cancelled : BOOLEAN]

TypeOK ==
  /\ stored \in Users \cup {NoUser}
  /\ session \in [token : Users \cup {NoUser}, context : Contexts \cup {NoContext}]
  /\ place \in Pages
  /\ drawer \in [open : BOOLEAN, for : Keys, moved : BOOLEAN]
  /\ panel \in Panels \cup {NoPanel}
  /\ cache \in [Keys -> Answers]
  /\ flight \in [Keys -> Flights]
  /\ db \in [Lists -> Nat]
  /\ save \in [Saves -> SaveRecords]
  /\ owed \in [Lists -> Nat]
  /\ elsewhere \in BOOLEAN
  /\ fetches \in Nat /\ events \in Nat

(* The rows are under an ErrorBanner: their last fetch failed, and the     *)
(* component has one.  Overview and TenantMembersDrawer have none.         *)
Banner(k) == cache[k].error /\ k[1] \notin Silent

FailedInSilence(k) == cache[k].error /\ k[1] \in Silent

(* After a save of this tab has succeeded, rows from before it are shown   *)
(* only while they are fetched again or under an error banner; unless the  *)
(* console showed another list when the answer came, or the rows were      *)
(* being fetched at that time, which it takes for fresh; or their fetch    *)
(* has failed since and the component has no banner.                       *)
OwnSavesShown ==
  \A k \in Shown :
    cache[k].has /\ cache[k].version < owed[k[1]] =>
      flight[k].on \/ Banner(k) \/ cache[k].missed \/ FailedInSilence(k)

(* The form that is open, and will be sent to the list and in the context  *)
(* on the screen, was opened for these, unless one walked between the      *)
(* routes of ResourcePage or chose another context since.                  *)
FormFitsPage == drawer.open /\ ~drawer.moved => drawer.for = Here

(* A save that is told to have succeeded was carried out, unless it is an  *)
(* action that was not confirmed, of which nothing was sent; one that      *)
(* failed was carried out in full only if an answer was lost.  And for     *)
(* every time but one that a save changed the server, be it in part, an    *)
(* answer was lost.                                                        *)
CarriedOutOnce ==
  \A s \in Saves :
    /\ save[s].stage = "told" => (save[s].made = 0 <=> save[s].cancelled)
    /\ save[s].stage = "failed" => save[s].made <= save[s].lost
    /\ save[s].made + save[s].part <= 1 + save[s].lost

(* Rows of another user than the one who is signed in are left from before *)
(* the sign-in, cached or on their way, unless another tab has changed the *)
(* token.                                                                  *)
OthersRowsAreOld ==
  \A k \in Shown :
    cache[k].has /\ cache[k].by # session.token => cache[k].old \/ elsewhere
===============================================================================
