-------------------------- MODULE AdminConsoleProofs --------------------------
(***************************************************************************)
(* Proofs about AdminConsole, for any users, contexts, lists, panels,      *)
(* saves and base URLs.                                                    *)
(*                                                                         *)
(* What the properties say of the rows on the screen is kept only because  *)
(* more is kept of all rows: of those in the cache that are not shown, and *)
(* of those still on their way.                                            *)
(***************************************************************************)
EXTENDS AdminConsole, FiniteSetTheorems, TLAPS

Sessions == [token : Users \cup {NoUser}, context : Contexts \cup {NoContext}]

(* A save of this tab was told of a version that the server has.           *)
OwedIsThere ==
  /\ \A l \in Lists : owed[l] <= db[l]
  /\ \A s \in Saves : save[s].stage = "made" => save[s].version <= db[save[s].to]

(* Rows from before a save are stale, or it missed them, shown or not; and *)
(* of rows on their way it is known if they may be from before.            *)
CachedBefore ==
  \A k \in Keys :
    cache[k].has /\ cache[k].version < owed[k[1]] => cache[k].stale \/ cache[k].missed

LoadedBefore ==
  \A k \in Keys : flight[k].on /\ flight[k].from < owed[k[1]] => flight[k].late

(* Unless another tab changed it, the stored token is that of the session, *)
(* and rows of others, kept or on their way, were there at sign-in.        *)
TokenStored == session.token # NoUser /\ ~elsewhere => stored = session.token

RowsBy ==
  session.token # NoUser /\ ~elsewhere =>
    \A k \in Keys :
      /\ cache[k].has /\ cache[k].by # session.token => cache[k].old
      /\ flight[k].on /\ flight[k].by # session.token => flight[k].old

SignedOutIsBare == session.token = NoUser => ~drawer.open /\ panel = NoPanel

(* How often a save was carried out, in full and in part, at every stage.  *)
CarriedRight(v) ==
  /\ v.stage \in {"sent", "missing"} => v.made + v.part <= v.lost
  /\ v.stage \in {"refused", "failed"} => v.made <= v.lost
  /\ v.stage = "made" => v.made # 0
  /\ v.stage = "told" => (v.made = 0 <=> v.cancelled)
  /\ v.made + v.part <= 1 + v.lost

Carried == \A s \in Saves : CarriedRight(save[s])

-----------------------------------------------------------------------------
(* Constants and records.                                                  *)
LEMMA KeyTyped ==
  ASSUME NEW l \in Lists, NEW x \in Contexts \cup {NoContext}
  PROVE  KeyOf(l, x) \in Keys /\ KeyOf(l, x)[1] = l
  BY DEF KeyOf, Keys

LEMMA KeyParts == \A k \in Keys : k[1] \in Lists
  BY DEF Keys

LEMMA PlacesTyped ==
  /\ Overview \in Pages /\ FirstTab \in Pages
  /\ ResourceLists \subseteq Pages /\ AiLists \subseteq Pages
  /\ Pages \subseteq Lists /\ Panels \subseteq Lists
  /\ \A p \in Panels : PanelHome[p] \in Pages
  BY ConsoleAssumption DEF Pages, Lists

LEMMA NothingTyped ==
  /\ NoAnswer \in Answers /\ NoFlight \in Flights
  /\ NoDrawer \in [open : BOOLEAN, for : Keys, moved : BOOLEAN]
  /\ NoSave \in SaveRecords
  <1>1. Overview \in Lists /\ 1 \in 1..Bases /\ <<Overview, NoContext>> \in Keys
    BY PlacesTyped, ConsoleAssumption DEF Keys
  <1>2. NoSave \in SaveRecords
    BY <1>1 DEF NoSave, SaveRecords
  <1> QED
    BY <1>1, <1>2 DEF NoAnswer, NoFlight, NoDrawer, Answers, Flights

LEMMA EndedTyped ==
  ASSUME NEW v \in SaveRecords, NEW stage \in {"told", "failed", "left"}
  PROVE  /\ Ended(v, stage) \in SaveRecords
         /\ Ended(v, stage).stage = stage
         /\ Ended(v, stage).made = v.made /\ Ended(v, stage).part = v.part
         /\ Ended(v, stage).lost = v.lost /\ Ended(v, stage).cancelled = FALSE
         /\ Ended(v, stage).version = 0
  <1>1. NoSave \in SaveRecords
    BY NothingTyped
  <1>2. v.made \in Nat /\ v.part \in Nat /\ v.lost \in Nat
    BY DEF SaveRecords
  <1> QED
    BY <1>1, <1>2 DEF Ended, SaveRecords, NoSave

(* The keys that are shown are finitely many.                              *)
LEMMA ShownFinite ==
  ASSUME NEW s \in Sessions, NEW l \in Pages, NEW p \in Panels \cup {NoPanel}
  PROVE  IsFiniteSet(ShownWith(s, l, p)) /\ ShownWith(s, l, p) \subseteq Keys
  <1>1. s.context \in Contexts \cup {NoContext}
    BY DEF Sessions
  <1>2. KeyOf(l, s.context) \in Keys
    BY <1>1, PlacesTyped, KeyTyped
  <1>3. p # NoPanel => KeyOf(p, s.context) \in Keys
    BY <1>1, PlacesTyped, KeyTyped
  <1>4. IsFiniteSet({}) /\ IsFiniteSet({KeyOf(l, s.context)})
        /\ IsFiniteSet({KeyOf(l, s.context)} \cup {KeyOf(p, s.context)})
    BY FS_EmptySet, FS_Singleton, FS_Union
  <1>5. {KeyOf(l, s.context)} \cup {} = {KeyOf(l, s.context)}
    OBVIOUS
  <1> QED
    BY <1>2, <1>3, <1>4, <1>5 DEF ShownWith

LEMMA Counted ==
  ASSUME NEW s \in Sessions, NEW l \in Pages, NEW p \in Panels \cup {NoPanel},
         NEW new, new \subseteq ShownWith(s, l, p)
  PROVE  Cardinality(new) \in Nat
  BY ShownFinite, FS_Subset, FS_CardinalityType

LEMMA SentTyped ==
  ASSUME TypeOK, NEW k \in Keys, NEW u \in Users \cup {NoUser}
  PROVE  Sent(k, u) \in Flights
  BY KeyParts DEF Sent, Flights, TypeOK
-----------------------------------------------------------------------------
(* Types.                                                                  *)
LEMMA ShowTyped ==
  ASSUME TypeOK, NEW s \in Sessions, NEW l \in Pages, NEW p \in Panels \cup {NoPanel},
         Show(s, l, p)
  PROVE  /\ session' \in Sessions /\ place' \in Pages /\ panel' \in Panels \cup {NoPanel}
         /\ fetches' \in Nat /\ flight' \in [Keys -> Flights]
  <1> DEFINE new == {k \in ShownWith(s, l, p) \ Shown : Wanted(k)}
  <1>1. Cardinality(new) \in Nat
    BY Counted
  <1>2. \A k \in Keys : Sent(k, stored) \in Flights
    BY SentTyped DEF TypeOK
  <1>3. fetches' = fetches + Cardinality(new)
    BY DEF Show
  <1>4. flight' = [k \in Keys |-> IF k \in new THEN Sent(k, stored) ELSE flight[k]]
    BY DEF Show
  <1> HIDE DEF new
  <1> QED
    BY <1>1, <1>2, <1>3, <1>4 DEF Show, TypeOK

LEMMA UnmountedTyped ==
  ASSUME TypeOK
  PROVE  /\ Unmounted \in [Saves -> SaveRecords]
         /\ \A l \in Pages : Rendered(l) \in [Saves -> SaveRecords]
  <1>1. ASSUME NEW s \in Saves
        PROVE  [save[s] EXCEPT !.mounted = FALSE] \in SaveRecords
    BY DEF TypeOK, SaveRecords
  <1>2. ASSUME NEW s \in Saves, NEW l \in Pages
        PROVE  [save[s] EXCEPT !.renews = {l}] \in SaveRecords
    <2>1. {l} \in SUBSET Lists
      BY PlacesTyped
    <2> QED
      BY <2>1 DEF TypeOK, SaveRecords
  <1> QED
    BY <1>1, <1>2 DEF Unmounted, Rendered, TypeOK

LEMMA NavigateTyped ==
  ASSUME TypeOK, Navigate
  PROVE  TypeOK'
  <1> USE DEF TypeOK
  <1>0. session \in Sessions /\ NoDrawer \in [open : BOOLEAN, for : Keys, moved : BOOLEAN]
        /\ [drawer EXCEPT !.moved = drawer.open] \in [open : BOOLEAN, for : Keys, moved : BOOLEAN]
    BY NothingTyped DEF Sessions
  <1>1. ASSUME NEW l \in AiLists, ChooseTab(l) PROVE TypeOK'
    <2>1. l \in Pages
      BY PlacesTyped
    <2>2. save' \in [Saves -> SaveRecords]
      BY <1>1, <2>1, UnmountedTyped DEF ChooseTab
    <2> QED
      BY <1>0, <1>1, <2>1, <2>2, ShowTyped DEF ChooseTab, DrawerAt, Sessions
  <1>2. ASSUME NEW l \in ResourceLists, Walk(l) PROVE TypeOK'
    <2>1. l \in Pages
      BY PlacesTyped
    <2>2. save' \in [Saves -> SaveRecords]
      BY <1>2, <2>1, UnmountedTyped DEF Walk
    <2> QED
      BY <1>0, <1>2, <2>1, <2>2, ShowTyped DEF Walk, Sessions
  <1>3. ASSUME NEW l \in Pages, Leave(l) PROVE TypeOK'
    <2>1. save' \in [Saves -> SaveRecords]
      BY <1>3, UnmountedTyped DEF Leave
    <2> QED
      BY <1>0, <1>3, <2>1, ShowTyped DEF Leave, Sessions
  <1>4. ASSUME NEW x \in Contexts \cup {NoContext}, setActiveContext(x) PROVE TypeOK'
    <2>1. [session EXCEPT !.context = x] \in Sessions
      BY DEF Sessions
    <2> QED
      BY <1>0, <1>4, <2>1, ShowTyped DEF setActiveContext, Sessions
  <1>5. CASE OpenDrawer
    <2>1. Here \in Keys
      BY PlacesTyped DEF Here, Keys
    <2> QED
      BY <1>5, <2>1 DEF OpenDrawer
  <1>6. CASE CloseDrawer
    BY <1>0, <1>6 DEF CloseDrawer
  <1>7. ASSUME NEW p \in Panels, OpenPanel(p) PROVE TypeOK'
    BY <1>0, <1>7, ShowTyped DEF OpenPanel, Sessions
  <1>8. CASE ClosePanel
    <2>1. ASSUME NEW s \in Saves
          PROVE  [save[s] EXCEPT !.mounted = FALSE] \in SaveRecords
      BY DEF SaveRecords
    <2> QED
      BY <1>8, <2>1 DEF ClosePanel
  <1> QED
    BY <1>1, <1>2, <1>3, <1>4, <1>5, <1>6, <1>7, <1>8 DEF Navigate

LEMMA AuthenticateTyped ==
  ASSUME TypeOK, Authenticate
  PROVE  TypeOK'
  <1> USE DEF TypeOK
  <1>0. NoDrawer \in [open : BOOLEAN, for : Keys, moved : BOOLEAN] /\ Overview \in Pages
        /\ NoAnswer \in Answers /\ NoFlight \in Flights
    BY NothingTyped, PlacesTyped
  <1>1. ASSUME NEW u \in Users, SignIn(u) PROVE TypeOK'
    <2> DEFINE t == NewSession(u)
               new == {k \in ShownWith(t, Overview, NoPanel) : Wanted(k)}
    <2>1. t \in Sessions
      BY ConsoleAssumption DEF NewSession, Sessions
    <2>2. Cardinality(new) \in Nat
      BY <1>0, <2>1, Counted
    <2>3. \A k \in Keys : /\ Sent(k, StoredBy(u)) \in Flights
                          /\ [flight[k] EXCEPT !.old = flight[k].on] \in Flights
                          /\ [cache[k] EXCEPT !.old = cache[k].has] \in Answers
      BY SentTyped DEF StoredBy, Flights, Answers
    <2>4. /\ fetches' = fetches + Cardinality(new)
          /\ flight' = [k \in Keys |-> IF k \in new THEN Sent(k, StoredBy(u))
                                       ELSE [flight[k] EXCEPT !.old = flight[k].on]]
          /\ session' = t
      BY <1>1 DEF SignIn
    <2>5. cache' = [k \in Keys |-> [cache[k] EXCEPT !.old = cache[k].has]]
      BY <1>1 DEF SignIn
    <2>6. session' \in Sessions /\ fetches' \in Nat
      BY <2>1, <2>2, <2>4
    <2> HIDE DEF new, t
    <2>7. flight' \in [Keys -> Flights] /\ cache' \in [Keys -> Answers]
      BY <2>3, <2>4, <2>5
    <2> QED
      BY <1>0, <1>1, <2>6, <2>7 DEF SignIn, StoredBy, Sessions
  <1>2. CASE SignOut
    BY <1>0, <1>2, UnmountedTyped DEF SignOut, Happens
  <1>3. ASSUME NEW u \in Users \cup {NoUser}, OtherTab(u) PROVE TypeOK'
    BY <1>3 DEF OtherTab, screen, Happens
  <1>4. CASE Reload
    <2> DEFINE t == [token |-> stored, context |-> NoContext]
               l == IF place \in AiLists THEN FirstTab ELSE place
               new == ShownWith(t, l, NoPanel)
    <2>1. t \in Sessions /\ l \in Pages
      BY PlacesTyped DEF Sessions
    <2>2. Cardinality(new) \in Nat
      BY <2>1, Counted
    <2>3. \A k \in Keys : Sent(k, stored) \in Flights
      BY SentTyped
    <2>4. /\ fetches' = fetches + Cardinality(new)
          /\ flight' = [k \in Keys |-> IF k \in new THEN Sent(k, stored) ELSE NoFlight]
          /\ session' = t /\ place' = l
      BY <1>4 DEF Reload
    <2>5. save' \in [Saves -> SaveRecords]
      <3>1. \A s \in Saves : Ended(save[s], "left") \in SaveRecords
        BY EndedTyped
      <3> QED
        BY <1>4, <3>1 DEF Reload
    <2>6. session' \in Sessions /\ place' \in Pages /\ fetches' \in Nat
      BY <2>1, <2>2, <2>4
    <2> HIDE DEF new, t, l
    <2>7. flight' \in [Keys -> Flights]
      BY <1>0, <2>3, <2>4
    <2>8. cache' \in [Keys -> Answers] /\ drawer' = NoDrawer
      BY <1>0, <1>4 DEF Reload
    <2>9. /\ panel' = NoPanel /\ elsewhere' = FALSE /\ events' \in Nat
          /\ stored' = stored /\ db' = db /\ owed' = owed
      BY <1>4, ConsoleAssumption DEF Reload, Happens
    <2> QED
      BY <1>0, <2>5, <2>6, <2>7, <2>8, <2>9 DEF Sessions
  <1> QED
    BY <1>1, <1>2, <1>3, <1>4 DEF Authenticate

LEMMA AnswerTyped ==
  ASSUME NEW a \in Answers, NEW b \in BOOLEAN
  PROVE  /\ [a EXCEPT !.error = b] \in Answers /\ [a EXCEPT !.stale = b] \in Answers
         /\ [a EXCEPT !.old = b] \in Answers /\ [a EXCEPT !.missed = b] \in Answers
  BY DEF Answers

LEMMA QueryTyped ==
  ASSUME TypeOK, NEW k \in Keys, Query(k)
  PROVE  TypeOK'
  <1> USE DEF TypeOK, screen
  <1>0. NoAnswer \in Answers /\ NoFlight \in Flights /\ k[1] \in Lists
    BY NothingTyped, KeyParts
  <1>1. CASE Land(k)
    <2>1. PICK v \in flight[k].from..db[k[1]] :
            cache' = [cache EXCEPT ![k] =
                   [has |-> TRUE, version |-> v, by |-> flight[k].by, stale |-> FALSE,
                    error |-> FALSE, old |-> flight[k].old, missed |-> flight[k].late]]
      BY <1>1 DEF Land
    <2>2. v \in Nat
      BY <1>0 DEF Flights
    <2>3. [has |-> TRUE, version |-> v, by |-> flight[k].by, stale |-> FALSE,
           error |-> FALSE, old |-> flight[k].old, missed |-> flight[k].late] \in Answers
      BY <2>2 DEF Answers, Flights
    <2> QED
      BY <1>0, <1>1, <2>1, <2>3 DEF Land
  <1>2. CASE FetchAgain(k)
    <2>1. [flight[k] EXCEPT !.by = stored, !.from = db[k[1]], !.late = FALSE] \in Flights
      BY <1>0 DEF Flights
    <2> QED
      BY <1>2, <2>1 DEF FetchAgain, Happens
  <1>3. CASE FetchFails(k)
    <2>1. [cache[k] EXCEPT !.error = TRUE] \in Answers
      BY AnswerTyped
    <2> QED
      BY <1>0, <1>3, <2>1 DEF FetchFails, Happens
  <1>4. CASE Age(k)
    <2>1. [cache[k] EXCEPT !.stale = TRUE] \in Answers
      BY AnswerTyped
    <2> QED
      BY <1>4, <2>1 DEF Age, Happens
  <1>5. CASE Evict(k)
    BY <1>0, <1>5 DEF Evict, Happens
  <1> QED
    BY <1>1, <1>2, <1>3, <1>4, <1>5 DEF Query

(* A save of which some fields are changed.                                *)
LEMMA MadeTyped ==
  ASSUME NEW v \in SaveRecords, NEW n \in Nat
  PROVE  [v EXCEPT !.stage = "made", !.made = v.made + 1, !.version = n] \in SaveRecords
  <1>1. v.made + 1 \in Nat /\ "made" \in Pending
    BY DEF SaveRecords, Pending
  <1> QED
    BY <1>1 DEF SaveRecords

LEMMA PartTyped ==
  ASSUME NEW v \in SaveRecords
  PROVE  [v EXCEPT !.stage = "refused", !.part = v.part + 1] \in SaveRecords
  <1>1. v.part + 1 \in Nat /\ "refused" \in Pending
    BY DEF SaveRecords, Pending
  <1> QED
    BY <1>1 DEF SaveRecords

LEMMA LostTyped ==
  ASSUME NEW v \in SaveRecords, NEW n \in Nat
  PROVE  [v EXCEPT !.lost = v.lost + n] \in SaveRecords
  <1>1. v.lost + n \in Nat
    BY DEF SaveRecords
  <1> QED
    BY <1>1 DEF SaveRecords

LEMMA SentAgainTyped ==
  ASSUME NEW v \in SaveRecords, NEW b \in 1..Bases
  PROVE  [v EXCEPT !.stage = "sent", !.base = b] \in SaveRecords
  <1>1. "sent" \in Pending
    BY DEF Pending
  <1> QED
    BY <1>1 DEF SaveRecords

LEMMA RequestTyped ==
  ASSUME TypeOK, NEW s \in Saves, NEW kind \in {"form", "act"} \cup InPanel, NEW l \in Lists,
         NEW renews \in SUBSET Lists, Request(s, kind, l, renews)
  PROVE  save' \in [Saves -> SaveRecords]
  <1>1. [NoSave EXCEPT !.stage = "sent", !.kind = kind, !.to = l,
                       !.renews = renews, !.mounted = TRUE] \in SaveRecords
    <2>1. NoSave \in SaveRecords /\ "sent" \in Pending
      BY NothingTyped DEF Pending
    <2> QED
      BY <2>1 DEF SaveRecords
  <1>2. ASSUME NEW o \in Saves PROVE [save[o] EXCEPT !.mounted = FALSE] \in SaveRecords
    BY DEF TypeOK, SaveRecords
  <1> QED
    BY <1>1, <1>2 DEF Request, Started, TypeOK

LEMMA AgainTyped ==
  ASSUME TypeOK, NEW ls
  PROVE  Again(ls) \subseteq Keys /\ Cardinality(Again(ls)) \in Nat
  <1>1. Again(ls) \subseteq Shown
    BY DEF Again
  <1> QED
    BY <1>1, Counted, ShownFinite DEF Shown, Sessions, TypeOK

(* A save that was dismissed.                                              *)
Dismissed == [NoSave EXCEPT !.stage = "told", !.cancelled = TRUE]

LEMMA DismissedTyped == Dismissed \in SaveRecords
  BY NothingTyped DEF Dismissed, NoSave, SaveRecords

LEMMA DismissTyped ==
  ASSUME TypeOK, NEW s \in Saves, NEW kind, NEW l, Dismiss(s, kind, l)
  PROVE  TypeOK'
  <1> USE DEF TypeOK
  <1>1. fetches' \in Nat
    BY AgainTyped DEF Dismiss
  <1>2. ASSUME NEW o \in Saves PROVE [save[o] EXCEPT !.mounted = FALSE] \in SaveRecords
    BY DEF SaveRecords
  <1>3. save' = [o \in Saves |-> IF o = s THEN Dismissed
                                 ELSE IF save[o].kind = kind
                                      THEN [save[o] EXCEPT !.mounted = FALSE] ELSE save[o]]
    BY DEF Dismiss, Started, Dismissed
  <1>4. save' \in [Saves -> SaveRecords]
    BY <1>2, <1>3, DismissedTyped
  <1>5. \A k \in Keys : /\ [cache[k] EXCEPT !.stale = TRUE] \in Answers
                        /\ Sent(k, stored) \in Flights
    BY AnswerTyped, SentTyped
  <1>6. cache' \in [Keys -> Answers] /\ flight' \in [Keys -> Flights]
    BY <1>5 DEF Dismiss
  <1> QED
    BY <1>1, <1>4, <1>6 DEF Dismiss, screen

LEMMA TryNextTyped ==
  ASSUME TypeOK, NEW s \in Saves, NEW n \in {0, 1}, TryNext(s, n)
  PROVE  save' \in [Saves -> SaveRecords]
  <1> DEFINE v == [save[s] EXCEPT !.lost = save[s].lost + n]
             w == [v EXCEPT !.stage = "sent", !.base = v.base + 1]
  <1>1. v \in SaveRecords /\ v.base = save[s].base /\ v.base \in 1..Bases
    <2>1. save[s] \in SaveRecords
      BY DEF TypeOK
    <2>2. v \in SaveRecords
      BY <2>1, LostTyped
    <2> QED
      BY <2>1, <2>2 DEF SaveRecords
  <1>2. Ended(v, "failed") \in SaveRecords
    BY <1>1, EndedTyped
  <1>3. ~IsLastBase(s) => w \in SaveRecords
    <2> SUFFICES ASSUME ~IsLastBase(s) PROVE w \in SaveRecords
      OBVIOUS
    <2>1. v.base + 1 \in 1..Bases
      BY <1>1, ConsoleAssumption DEF IsLastBase
    <2> HIDE DEF v
    <2> QED
      BY <1>1, <2>1, SentAgainTyped
  <1>4. save' = [save EXCEPT ![s] = IF IsLastBase(s) THEN Ended(v, "failed") ELSE w]
    BY DEF TryNext
  <1> HIDE DEF v, w
  <1> QED
    BY <1>2, <1>3, <1>4 DEF TypeOK

LEMMA SucceedTyped ==
  ASSUME TypeOK, NEW s \in Saves, Succeed(s)
  PROVE  TypeOK'
  <1> USE DEF TypeOK
  <1> DEFINE v == save[s]
             stale == Renewed(v.renews)
             again == Again(v.renews)
  <1>1. v \in SaveRecords /\ v.to \in Lists /\ v.version \in Nat
    BY DEF SaveRecords
  <1>2. Cardinality(again) \in Nat
    BY AgainTyped
  <1>3. fetches' \in Nat
    BY <1>2 DEF Succeed
  <1>4. save' \in [Saves -> SaveRecords]
    BY <1>1, EndedTyped DEF Succeed, Answered
  <1>5. owed' \in [Lists -> Nat]
    BY <1>1 DEF Succeed, Larger
  <1>6. \A k \in Keys : /\ [cache[k] EXCEPT !.stale = TRUE] \in Answers
                        /\ [cache[k] EXCEPT !.missed = TRUE] \in Answers
    BY AnswerTyped
  <1>7. cache' \in [Keys -> Answers]
    BY <1>6 DEF Succeed
  <1>8. \A k \in Keys : [flight[k] EXCEPT !.late = TRUE] \in Flights
    BY DEF Flights
  <1>9. \A k \in Keys : Sent(k, stored) \in Flights
    BY SentTyped
  <1>10. flight' \in [Keys -> Flights]
    BY <1>8, <1>9 DEF Succeed
  <1>11. drawer' \in [open : BOOLEAN, for : Keys, moved : BOOLEAN]
    BY NothingTyped DEF Succeed
  <1>12. UNCHANGED <<stored, session, place, panel, db, elsewhere, events>>
    BY DEF Succeed
  <1> QED
    BY <1>3, <1>4, <1>5, <1>7, <1>10, <1>11, <1>12

LEMMA MutateTyped ==
  ASSUME TypeOK, NEW s \in Saves, Mutate(s)
  PROVE  TypeOK'
  <1> USE DEF TypeOK, screen
  <1>1. CASE Submit(s) \/ Act(s) \/ Post(s) \/ ActInPanel(s) \/ Operate(s)
    <2> SUFFICES ASSUME ~\E kind, l : Dismiss(s, kind, l) PROVE TypeOK'
      BY DismissTyped
    <2>1. \E kind \in {"form", "act"} \cup InPanel, l \in Lists, renews \in SUBSET Lists :
            Request(s, kind, l, renews)
      <3>1. place \in Lists /\ \A p \in Panels : p \in Lists /\ PanelHome[p] \in Lists
        BY PlacesTyped
      <3>2. {place} \in SUBSET Lists
            /\ \A p \in Panels : {p} \in SUBSET Lists /\ {p, PanelHome[p]} \in SUBSET Lists
        BY <3>1
      <3>3. OwnContext \subseteq Panels
        BY ConsoleAssumption
      <3>4. CASE Submit(s) \/ Act(s)
        BY <3>1, <3>2, <3>4 DEF Submit, Act, RowAction
      <3>5. CASE Post(s) \/ ActInPanel(s)
        BY <3>1, <3>2, <3>5 DEF Post, ActInPanel, RowAction, InPanel
      <3>6. CASE Operate(s)
        BY <3>1, <3>2, <3>3, <3>6 DEF Operate, InPanel
      <3> QED
        BY <1>1, <3>4, <3>5, <3>6
    <2>2. save' \in [Saves -> SaveRecords]
      BY <2>1, RequestTyped
    <2>3. UNCHANGED <<stored, screen, cache, flight, db, owed, elsewhere, fetches, events>>
      BY <2>1 DEF Request
    <2> QED
      BY <2>2, <2>3
  <1>2. CASE CarryOut(s)
    <2>1. save[s].to \in Lists
      BY DEF SaveRecords
    <2>2. db[save[s].to] + 1 \in Nat
      BY <2>1
    <2>3. [save[s] EXCEPT !.stage = "made", !.made = save[s].made + 1,
                           !.version = db[save[s].to] + 1] \in SaveRecords
      BY <2>2, MadeTyped
    <2>4. save' = [save EXCEPT ![s] =
             [save[s] EXCEPT !.stage = "made", !.made = save[s].made + 1,
                             !.version = db[save[s].to] + 1]]
      BY <1>2 DEF CarryOut
    <2>5. db' \in [Lists -> Nat]
      BY <1>2, <2>2 DEF CarryOut
    <2> QED
      BY <1>2, <2>3, <2>4, <2>5 DEF CarryOut
  <1>3. CASE TurnDown(s)
    <2>1. PICK how \in {"refused", "missing"} : save' = [save EXCEPT ![s].stage = how]
      BY <1>3 DEF TurnDown
    <2>2. how \in Pending
      BY DEF Pending
    <2>3. [save[s] EXCEPT !.stage = how] \in SaveRecords
      BY <2>2 DEF SaveRecords
    <2> QED
      BY <1>3, <2>1, <2>3 DEF TurnDown
  <1>4. CASE NotFound(s)
    BY <1>4, TryNextTyped DEF NotFound
  <1>5. CASE NetworkError(s)
    BY <1>5, TryNextTyped DEF NetworkError
  <1>6. CASE Refused(s)
    BY <1>6, EndedTyped DEF Refused
  <1>7. CASE Succeed(s)
    BY <1>7, SucceedTyped
  <1>8. CASE BreakOff(s)
    <2>1. save[s].to \in Lists
      BY DEF SaveRecords
    <2>2. db' \in [Lists -> Nat]
      BY <1>8, <2>1 DEF BreakOff
    <2>3. [save[s] EXCEPT !.stage = "refused", !.part = save[s].part + 1] \in SaveRecords
      BY PartTyped
    <2>4. save' = [save EXCEPT ![s] =
             [save[s] EXCEPT !.stage = "refused", !.part = save[s].part + 1]]
      BY <1>8 DEF BreakOff
    <2> QED
      BY <1>8, <2>2, <2>3, <2>4 DEF BreakOff
  <1> QED
    BY <1>1, <1>2, <1>3, <1>4, <1>5, <1>6, <1>7, <1>8 DEF Mutate

LEMMA TypeStep ==
  ASSUME TypeOK, [Next]_vars
  PROVE  TypeOK'
  <1>1. CASE Focus
    <2> DEFINE new == {k \in Shown : Wanted(k)}
    <2>1. Cardinality(new) \in Nat
      BY Counted DEF Shown, Sessions, TypeOK
    <2>2. \A k \in Keys : Sent(k, stored) \in Flights
      BY SentTyped DEF TypeOK
    <2>3. /\ fetches' = fetches + Cardinality(new)
          /\ flight' = [k \in Keys |-> IF k \in new THEN Sent(k, stored) ELSE flight[k]]
      BY <1>1 DEF Focus
    <2> HIDE DEF new
    <2> QED
      BY <1>1, <2>1, <2>2, <2>3 DEF Focus, TypeOK, screen
  <1>2. ASSUME NEW l \in Lists, OthersChange(l) PROVE TypeOK'
    BY <1>2 DEF OthersChange, TypeOK, screen, Happens
  <1>3. CASE UNCHANGED vars
    BY <1>3 DEF vars, screen, TypeOK
  <1> QED
    BY <1>1, <1>2, <1>3, AuthenticateTyped, NavigateTyped, MutateTyped, QueryTyped DEF Next

LEMMA TypeInit == Init => TypeOK
  <1> SUFFICES ASSUME Init PROVE TypeOK
    OBVIOUS
  <1>1. cache \in [Keys -> Answers] /\ flight \in [Keys -> Flights]
        /\ save \in [Saves -> SaveRecords]
    BY NothingTyped DEF Init
  <1>2. drawer \in [open : BOOLEAN, for : Keys, moved : BOOLEAN] /\ place \in Pages
    BY NothingTyped, PlacesTyped DEF Init
  <1>3. session \in [token : Users \cup {NoUser}, context : Contexts \cup {NoContext}]
    BY DEF Init
  <1>4. db \in [Lists -> Nat] /\ owed \in [Lists -> Nat]
    BY DEF Init
  <1> QED
    BY <1>1, <1>2, <1>3, <1>4 DEF Init, TypeOK

(* Every variable keeps its type, whatever the constants.                  *)
THEOREM TypeCorrect == Spec => []TypeOK
  BY TypeInit, TypeStep, PTL DEF Spec

-----------------------------------------------------------------------------
(* How often a save is carried out.                                        *)
LEMMA CarriedBut ==
  ASSUME TypeOK, Carried, NEW s \in Saves, NEW w, save' = [save EXCEPT ![s] = w],
         CarriedRight(w)
  PROVE  Carried'
  BY DEF TypeOK, Carried, CarriedRight

LEMMA CarriedAlike ==
  ASSUME TypeOK, Carried,
         \A s \in Saves : /\ save'[s].stage = save[s].stage
                          /\ save'[s].made = save[s].made /\ save'[s].lost = save[s].lost
                          /\ save'[s].part = save[s].part
                          /\ save'[s].cancelled = save[s].cancelled
  PROVE  Carried'
  BY DEF Carried, CarriedRight

(* What leaves these fields of a save as they are.                         *)
LEMMA MountedAlike ==
  ASSUME TypeOK, NEW s \in Saves, NEW l
  PROVE  /\ Unmounted[s].stage = save[s].stage /\ Unmounted[s].made = save[s].made
         /\ Unmounted[s].lost = save[s].lost /\ Unmounted[s].version = save[s].version
         /\ Unmounted[s].to = save[s].to /\ Unmounted[s].part = save[s].part
         /\ Unmounted[s].cancelled = save[s].cancelled
         /\ Rendered(l)[s].stage = save[s].stage /\ Rendered(l)[s].made = save[s].made
         /\ Rendered(l)[s].lost = save[s].lost /\ Rendered(l)[s].version = save[s].version
         /\ Rendered(l)[s].to = save[s].to /\ Rendered(l)[s].part = save[s].part
         /\ Rendered(l)[s].cancelled = save[s].cancelled
  <1>1. save[s] \in SaveRecords
    BY DEF TypeOK
  <1> QED
    BY <1>1 DEF Unmounted, Rendered, SaveRecords

LEMMA CarriedTryNext ==
  ASSUME TypeOK, Carried, NEW s \in Saves, NEW n \in {0, 1}, TryNext(s, n),
         save[s].made + save[s].part <= save[s].lost + n
  PROVE  Carried'
  <1> DEFINE v == [save[s] EXCEPT !.lost = save[s].lost + n]
             w == [v EXCEPT !.stage = "sent", !.base = v.base + 1]
             u == IF IsLastBase(s) THEN Ended(v, "failed") ELSE w
  <1>1. save[s] \in SaveRecords
    BY DEF TypeOK
  <1>2. /\ v \in SaveRecords /\ v.lost = save[s].lost + n /\ v.made = save[s].made
        /\ v.part = save[s].part
    BY <1>1, LostTyped DEF SaveRecords
  <1>3. w.lost = v.lost /\ w.made = v.made /\ w.part = v.part /\ w.stage = "sent"
    BY <1>2 DEF SaveRecords
  <1>a. v.made + v.part <= v.lost /\ v.made \in Nat /\ v.part \in Nat /\ v.lost \in Nat
    BY <1>1, <1>2 DEF SaveRecords
  <1>4. CarriedRight(Ended(v, "failed"))
    <2> HIDE DEF v
    <2>1. /\ Ended(v, "failed").stage = "failed" /\ Ended(v, "failed").part = v.part
          /\ Ended(v, "failed").made = v.made /\ Ended(v, "failed").lost = v.lost
      BY <1>2, EndedTyped
    <2> QED
      BY <1>a, <2>1 DEF CarriedRight
  <1>5. CarriedRight(w)
    BY <1>a, <1>3 DEF CarriedRight
  <1>6. save' = [save EXCEPT ![s] = u]
    BY DEF TryNext
  <1>7. CarriedRight(u)
    BY <1>4, <1>5
  <1> HIDE DEF u, v, w
  <1> QED
    BY <1>6, <1>7, CarriedBut

LEMMA CarriedMutate ==
  ASSUME TypeOK, Carried, NEW s \in Saves, Mutate(s)
  PROVE  Carried'
  <1>0. save[s] \in SaveRecords /\ CarriedRight(save[s]) /\ save \in [Saves -> SaveRecords]
        /\ save[s].made \in Nat /\ save[s].part \in Nat /\ save[s].lost \in Nat
    BY DEF TypeOK, Carried, SaveRecords
  <1>1. ASSUME NEW kind, NEW n, CarriedRight(n), save' = Started(s, kind, n)
        PROVE  Carried'
    <2>1. ASSUME NEW o \in Saves
          PROVE  CarriedRight([save[o] EXCEPT !.mounted = FALSE])
      BY DEF TypeOK, Carried, CarriedRight, SaveRecords
    <2>2. \A o \in Saves : CarriedRight(save[o])
      BY DEF Carried
    <2>3. \A o \in Saves : CarriedRight(save'[o])
      BY <1>1, <2>1, <2>2 DEF Started
    <2> QED
      BY <2>3 DEF Carried, CarriedRight
  <1>a. ASSUME NEW kind, NEW l, NEW renews, Request(s, kind, l, renews)
        PROVE  Carried'
    <2> DEFINE n == [NoSave EXCEPT !.stage = "sent", !.kind = kind, !.to = l,
                                   !.renews = renews, !.mounted = TRUE]
    <2>1. CarriedRight(n)
      BY DEF CarriedRight, NoSave
    <2>2. save' = Started(s, kind, n)
      BY <1>a DEF Request
    <2> HIDE DEF n
    <2> QED
      BY <1>1, <2>1, <2>2
  <1>b. ASSUME NEW kind, NEW l, Dismiss(s, kind, l)
        PROVE  Carried'
    <2>1. CarriedRight(Dismissed)
      BY DEF CarriedRight, Dismissed, NoSave
    <2>2. save' = Started(s, kind, Dismissed)
      BY <1>b DEF Dismiss, Dismissed
    <2> QED
      BY <1>1, <2>1, <2>2
  <1>2. CASE Submit(s) \/ Act(s) \/ Post(s) \/ ActInPanel(s) \/ Operate(s)
    BY <1>a, <1>b, <1>2 DEF Submit, Act, Post, ActInPanel, Operate, RowAction
  <1>c. CASE BreakOff(s)
    <2> DEFINE w == [save[s] EXCEPT !.stage = "refused", !.part = save[s].part + 1]
    <2>1. CarriedRight(w)
      BY <1>0, <1>c DEF BreakOff, CarriedRight, SaveRecords
    <2>2. save' = [save EXCEPT ![s] = w]
      BY <1>0, <1>c DEF BreakOff
    <2> HIDE DEF w
    <2> QED
      BY <2>1, <2>2, CarriedBut
  <1>3. CASE CarryOut(s)
    <2> DEFINE w == [save[s] EXCEPT !.stage = "made", !.made = save[s].made + 1,
                                    !.version = db[save[s].to] + 1]
    <2>1. CarriedRight(w)
      BY <1>0, <1>3 DEF CarryOut, CarriedRight, SaveRecords
    <2>2. save' = [save EXCEPT ![s] = w]
      BY <1>0, <1>3 DEF CarryOut
    <2> QED
      BY <2>1, <2>2, CarriedBut
  <1>4. CASE TurnDown(s)
    <2>1. PICK how \in {"refused", "missing"} : save' = [save EXCEPT ![s].stage = how]
      BY <1>4 DEF TurnDown
    <2>2. CarriedRight([save[s] EXCEPT !.stage = how])
      BY <1>0, <1>4 DEF TurnDown, CarriedRight, SaveRecords
    <2> QED
      BY <2>1, <2>2, CarriedBut
  <1>5. CASE NotFound(s)
    BY <1>0, <1>5, CarriedTryNext DEF NotFound, CarriedRight
  <1>6. CASE NetworkError(s)
    BY <1>0, <1>6, CarriedTryNext DEF NetworkError, CarriedRight, Pending
  <1>7. CASE Refused(s)
    <2>1. CarriedRight(Ended(save[s], "failed"))
      BY <1>0, <1>7, EndedTyped DEF Refused, CarriedRight
    <2> QED
      BY <1>7, <2>1, CarriedBut DEF Refused
  <1>8. CASE Succeed(s)
    <2>1. CarriedRight(Ended(save[s], "told"))
      BY <1>0, <1>8, EndedTyped DEF Succeed, CarriedRight
    <2> QED
      BY <1>8, <2>1, CarriedBut DEF Succeed, Answered
  <1> QED
    BY <1>2, <1>3, <1>4, <1>5, <1>6, <1>7, <1>8, <1>c DEF Mutate

LEMMA CarriedStep ==
  ASSUME TypeOK, Carried, [Next]_vars
  PROVE  Carried'
  <1>1. CASE save' = save
    BY <1>1, CarriedAlike
  <1>2. CASE save' = Unmounted
    BY <1>2, MountedAlike, CarriedAlike
  <1>3. ASSUME NEW l, save' = Rendered(l) PROVE Carried'
    BY <1>3, MountedAlike, CarriedAlike
  <1>4. CASE ClosePanel
    <2>1. ASSUME NEW s \in Saves
          PROVE  LET w == [save[s] EXCEPT !.mounted = FALSE] IN
                   /\ w.stage = save[s].stage /\ w.made = save[s].made
                   /\ w.lost = save[s].lost /\ w.part = save[s].part
                   /\ w.cancelled = save[s].cancelled
      BY DEF TypeOK, SaveRecords
    <2> QED
      BY <1>4, <2>1, CarriedAlike DEF ClosePanel
  <1>5. CASE Reload
    <2>1. ASSUME NEW s \in Saves
          PROVE  CarriedRight(Ended(save[s], "left")) /\ CarriedRight(save[s])
      <3>1. save[s] \in SaveRecords
        BY DEF TypeOK
      <3> QED
        BY <3>1, EndedTyped DEF Carried, CarriedRight
    <2>2. \A s \in Saves : CarriedRight(save'[s])
      BY <1>5, <2>1 DEF Reload
    <2> QED
      BY <2>2 DEF Carried, CarriedRight
  <1>6. CASE Authenticate
    BY <1>1, <1>2, <1>5, <1>6 DEF Authenticate, SignIn, SignOut, OtherTab
  <1>7. CASE Navigate
    BY <1>1, <1>2, <1>3, <1>4, <1>7 DEF Navigate, ChooseTab, Walk, Leave, setActiveContext,
       OpenDrawer, CloseDrawer, OpenPanel
  <1>8. ASSUME NEW k \in Keys, Query(k) PROVE Carried'
    BY <1>1, <1>8 DEF Query, Land, FetchAgain, FetchFails, Age, Evict
  <1> QED
    BY <1>1, <1>6, <1>7, <1>8, CarriedMutate DEF Next, Focus, OthersChange, vars

(* A save that is told to have succeeded was carried out or not confirmed; *)
(* one that failed was carried out in full only if an answer was lost; and *)
(* each change of the server but one went with an answer that was lost.    *)
THEOREM SavesCount == Spec => []CarriedOutOnce
  <1>1. Init => Carried
    BY DEF Init, NoSave, Carried, CarriedRight
  <1>2. Carried => CarriedOutOnce
    BY DEF Carried, CarriedRight, CarriedOutOnce
  <1> QED
    BY <1>1, <1>2, CarriedStep, TypeCorrect, PTL DEF Spec

-----------------------------------------------------------------------------
(* The form over the page.                                                 *)
LEMMA FormStep ==
  ASSUME TypeOK, SignedOutIsBare, FormFitsPage, [Next]_vars
  PROVE  SignedOutIsBare' /\ FormFitsPage'
  <1> USE DEF SignedOutIsBare, FormFitsPage, Here, NoDrawer
  <1>0. drawer \in [open : BOOLEAN, for : Keys, moved : BOOLEAN]
        /\ session \in [token : Users \cup {NoUser}, context : Contexts \cup {NoContext}]
    BY DEF TypeOK
  <1>1. CASE Authenticate
    <2>1. ASSUME NEW u, SignIn(u) PROVE SignedOutIsBare' /\ FormFitsPage'
      <3>1. ~drawer.open /\ drawer' = drawer /\ panel = NoPanel /\ panel' = panel
        BY <2>1 DEF SignIn
      <3> QED
        BY <3>1
    <2>2. CASE SignOut \/ Reload
      <3>1. ~drawer'.open /\ panel' = NoPanel
        BY <2>2 DEF SignOut, Reload
      <3> QED
        BY <3>1
    <2>3. ASSUME NEW u, OtherTab(u) PROVE SignedOutIsBare' /\ FormFitsPage'
      BY <2>3 DEF OtherTab, screen
    <2> QED
      BY <1>1, <2>1, <2>2, <2>3 DEF Authenticate
  <1>2. ASSUME NEW l \in Lists, Walk(l) PROVE SignedOutIsBare' /\ FormFitsPage'
    BY <1>0, <1>2 DEF Walk, Show
  <1>3. ASSUME NEW x, setActiveContext(x) PROVE SignedOutIsBare' /\ FormFitsPage'
    BY <1>0, <1>3 DEF setActiveContext, Show
  <1>4. ASSUME NEW l \in Lists, ChooseTab(l) \/ Leave(l)
        PROVE  SignedOutIsBare' /\ FormFitsPage'
    BY <1>0, <1>4 DEF ChooseTab, Leave, DrawerAt, Show
  <1>5. CASE OpenDrawer \/ CloseDrawer \/ ClosePanel
    BY <1>0, <1>5 DEF OpenDrawer, CloseDrawer, ClosePanel
  <1>6. ASSUME NEW p, OpenPanel(p) PROVE SignedOutIsBare' /\ FormFitsPage'
    BY <1>6 DEF OpenPanel, Show
  <1>7. CASE Navigate
    BY <1>2, <1>3, <1>4, <1>5, <1>6, <1>7, PlacesTyped DEF Navigate
  <1>8. CASE UNCHANGED screen
    BY <1>8 DEF screen
  <1>9. ASSUME NEW s \in Saves, Succeed(s) PROVE SignedOutIsBare' /\ FormFitsPage'
    BY <1>9 DEF Succeed
  <1>10. ASSUME NEW s \in Saves, Mutate(s) PROVE SignedOutIsBare' /\ FormFitsPage'
    BY <1>8, <1>9, <1>10 DEF Mutate, Submit, Act, Post, ActInPanel, Operate, RowAction,
       Request, Dismiss, CarryOut, BreakOff, TurnDown, NotFound, NetworkError, Refused
  <1>11. ASSUME NEW k \in Keys, Query(k) PROVE SignedOutIsBare' /\ FormFitsPage'
    BY <1>8, <1>11 DEF Query, Land, FetchAgain, FetchFails, Age, Evict
  <1>12. CASE UNCHANGED vars \/ Focus \/ \E l \in Lists : OthersChange(l)
    BY <1>8, <1>12 DEF vars, Focus, OthersChange
  <1> QED
    BY <1>1, <1>7, <1>10, <1>11, <1>12 DEF Next

(* The form is for the list and the context on the screen, unless one      *)
(* walked or chose another context under it.                               *)
THEOREM FormFits == Spec => []FormFitsPage
  <1>1. Init => SignedOutIsBare /\ FormFitsPage
    BY DEF Init, NoDrawer, SignedOutIsBare, FormFitsPage
  <1> QED
    BY <1>1, FormStep, TypeCorrect, PTL DEF Spec

-----------------------------------------------------------------------------
(* Whose rows are shown.                                                   *)
LEMMA ShowRowsBy ==
  ASSUME TypeOK, TokenStored, RowsBy, UNCHANGED <<stored, cache, elsewhere>>,
         session'.token = session.token,
         NEW new, flight' = [k \in Keys |-> IF k \in new THEN Sent(k, stored) ELSE flight[k]]
  PROVE  TokenStored' /\ RowsBy'
  BY DEF TokenStored, RowsBy, Sent, TypeOK

LEMMA RowsByStep ==
  ASSUME TypeOK, TokenStored, RowsBy, [Next]_vars
  PROVE  TokenStored' /\ RowsBy'
  <1>0. cache \in [Keys -> Answers] /\ flight \in [Keys -> Flights]
        /\ session \in [token : Users \cup {NoUser}, context : Contexts \cup {NoContext}]
    BY DEF TypeOK
  <1>1. ASSUME NEW u \in Users, SignIn(u) PROVE TokenStored' /\ RowsBy'
    <2> DEFINE new == {k \in ShownWith(NewSession(u), Overview, NoPanel) : Wanted(k)}
    <2>1. /\ flight' = [k \in Keys |-> IF k \in new THEN Sent(k, u)
                                       ELSE [flight[k] EXCEPT !.old = flight[k].on]]
          /\ cache' = [k \in Keys |-> [cache[k] EXCEPT !.old = cache[k].has]]
          /\ stored' = u /\ session'.token = u
      BY <1>1 DEF SignIn, StoredBy, NewSession
    <2> HIDE DEF new
    <2>2. ASSUME NEW k \in Keys
          PROVE  /\ cache'[k].has => cache'[k].old
                 /\ flight'[k].on => flight'[k].by = u \/ flight'[k].old
      BY <1>0, <2>1 DEF Sent, Answers, Flights
    <2> QED
      BY <2>1, <2>2 DEF TokenStored, RowsBy
  <1>2. CASE SignOut
    BY <1>2 DEF SignOut, TokenStored, RowsBy
  <1>3. ASSUME NEW u, OtherTab(u) PROVE TokenStored' /\ RowsBy'
    BY <1>3 DEF OtherTab, TokenStored, RowsBy
  <1>4. CASE Reload
    <2> DEFINE new == ShownWith([token |-> stored, context |-> NoContext],
                                IF place \in AiLists THEN FirstTab ELSE place, NoPanel)
    <2>1. /\ flight' = [k \in Keys |-> IF k \in new THEN Sent(k, stored) ELSE NoFlight]
          /\ cache' = [k \in Keys |-> NoAnswer]
          /\ stored' = stored /\ session'.token = stored
      BY <1>4 DEF Reload
    <2> HIDE DEF new
    <2> QED
      BY <2>1 DEF TokenStored, RowsBy, Sent, NoFlight, NoAnswer
  <1>5. ASSUME NEW l, ChooseTab(l) \/ Walk(l) \/ Leave(l) PROVE TokenStored' /\ RowsBy'
    BY <1>5, ShowRowsBy DEF ChooseTab, Walk, Leave, Show
  <1>6. ASSUME NEW x, setActiveContext(x) PROVE TokenStored' /\ RowsBy'
    BY <1>0, <1>6, ShowRowsBy DEF setActiveContext, Show
  <1>7. ASSUME NEW p, OpenPanel(p) PROVE TokenStored' /\ RowsBy'
    BY <1>7, ShowRowsBy DEF OpenPanel, Show
  <1>8. CASE UNCHANGED <<stored, session, cache, flight, elsewhere>>
    BY <1>8 DEF TokenStored, RowsBy
  <1>9. ASSUME NEW s \in Saves, Succeed(s) PROVE TokenStored' /\ RowsBy'
    <2> DEFINE again == Again(save[s].renews)
    <2>1. ASSUME NEW k \in Keys
          PROVE  /\ cache'[k].has = cache[k].has /\ cache'[k].by = cache[k].by
                 /\ cache'[k].old = cache[k].old
      BY <1>0, <1>9 DEF Succeed, Answers
    <2>2. flight' = [k \in Keys |->
                 IF k \in again THEN Sent(k, stored)
                 ELSE IF k[1] = save[s].to /\ flight[k].on THEN [flight[k] EXCEPT !.late = TRUE]
                 ELSE flight[k]]
      BY <1>9 DEF Succeed
    <2> HIDE DEF again
    <2>3. ASSUME NEW k \in Keys
          PROVE  \/ flight'[k].by = stored
                 \/ /\ flight'[k].on = flight[k].on /\ flight'[k].by = flight[k].by
                    /\ flight'[k].old = flight[k].old
      BY <1>0, <2>2 DEF Sent, Flights
    <2>4. UNCHANGED <<stored, session, elsewhere>>
      BY <1>9 DEF Succeed
    <2> QED
      BY <2>1, <2>3, <2>4 DEF TokenStored, RowsBy
  <1>a. ASSUME NEW s \in Saves, NEW kind, NEW l, Dismiss(s, kind, l)
        PROVE  TokenStored' /\ RowsBy'
    <2>1. ASSUME NEW k \in Keys
          PROVE  /\ cache'[k].has = cache[k].has /\ cache'[k].by = cache[k].by
                 /\ cache'[k].old = cache[k].old
      BY <1>0, <1>a DEF Dismiss, Answers
    <2>2. \A k \in Keys : flight'[k].by = stored \/ flight'[k] = flight[k]
      BY <1>0, <1>a DEF Dismiss, Sent
    <2>3. UNCHANGED <<stored, session, elsewhere>>
      BY <1>a DEF Dismiss, screen
    <2> QED
      BY <2>1, <2>2, <2>3 DEF TokenStored, RowsBy
  <1>10. ASSUME NEW s \in Saves, Mutate(s) PROVE TokenStored' /\ RowsBy'
    BY <1>8, <1>9, <1>10, <1>a DEF Mutate, Submit, Act, Post, ActInPanel, Operate, RowAction,
       Request, CarryOut, BreakOff, TurnDown, NotFound, NetworkError, Refused, screen
  <1>11. ASSUME NEW k \in Keys, Query(k) PROVE TokenStored' /\ RowsBy'
    <2>0. UNCHANGED <<stored, session, elsewhere>>
      BY <1>11 DEF Query, Land, FetchAgain, FetchFails, Age, Evict, screen
    <2>1. ASSUME NEW o \in Keys
          PROVE  \/ ~cache'[o].has
                 \/ cache'[o].by = flight[o].by /\ cache'[o].old = flight[o].old /\ flight[o].on
                 \/ /\ cache'[o].has = cache[o].has /\ cache'[o].by = cache[o].by
                    /\ cache'[o].old = cache[o].old
      <3>1. CASE Land(k)
        <4>1. PICK v \in flight[k].from..db[k[1]] :
                cache' = [cache EXCEPT ![k] =
                   [has |-> TRUE, version |-> v, by |-> flight[k].by, stale |-> FALSE,
                    error |-> FALSE, old |-> flight[k].old, missed |-> flight[k].late]]
          BY <3>1 DEF Land
        <4> QED
          BY <1>0, <3>1, <4>1 DEF Land
      <3>2. CASE FetchAgain(k) \/ FetchFails(k) \/ Age(k)
        BY <1>0, <3>2 DEF FetchAgain, FetchFails, Age, Answers
      <3>3. CASE Evict(k)
        BY <1>0, <3>3 DEF Evict, NoAnswer
      <3> QED
        BY <1>11, <3>1, <3>2, <3>3 DEF Query
    <2>2. ASSUME NEW o \in Keys
          PROVE  \/ ~flight'[o].on
                 \/ flight'[o].by = stored
                 \/ flight'[o] = flight[o]
      <3>1. CASE Land(k) \/ FetchFails(k)
        BY <1>0, <3>1 DEF Land, FetchFails, NoFlight
      <3>2. CASE FetchAgain(k)
        BY <1>0, <3>2 DEF FetchAgain, Flights
      <3>3. CASE Age(k) \/ Evict(k)
        BY <3>3 DEF Age, Evict
      <3> QED
        BY <1>11, <3>1, <3>2, <3>3 DEF Query
    <2> QED
      BY <2>0, <2>1, <2>2 DEF TokenStored, RowsBy
  <1>12. CASE Focus
    BY <1>12, ShowRowsBy DEF Focus, screen
  <1> QED
    BY <1>1, <1>2, <1>3, <1>4, <1>5, <1>6, <1>7, <1>8, <1>10, <1>11, <1>12
       DEF Next, Authenticate, Navigate, OpenDrawer, CloseDrawer, ClosePanel, OthersChange,
       screen, vars

(* Rows of another user are on the screen only if they were there when the *)
(* user signed in, or if another tab has changed the token.                *)
THEOREM OthersAreOld == Spec => []OthersRowsAreOld
  <1>1. Init => TokenStored /\ RowsBy
    BY DEF Init, TokenStored, RowsBy
  <1>2. TypeOK /\ RowsBy => OthersRowsAreOld
    <2> SUFFICES ASSUME TypeOK, RowsBy, NEW k \in Shown, cache[k].has,
                        cache[k].by # session.token, ~elsewhere
                 PROVE  cache[k].old
      BY DEF OthersRowsAreOld
    <2>1. session.token # NoUser
      BY DEF Shown, ShownWith
    <2>2. k \in Keys
      BY ShownFinite DEF Shown, Sessions, TypeOK
    <2> QED
      BY <2>1, <2>2 DEF RowsBy
  <1> QED
    BY <1>1, <1>2, RowsByStep, TypeCorrect, PTL DEF Spec

-----------------------------------------------------------------------------
(* Rows from before a save of this tab.                                    *)
LEMMA OwedAlike ==
  ASSUME TypeOK, OwedIsThere, UNCHANGED owed, \A l \in Lists : db[l] <= db'[l] /\ db'[l] \in Nat,
         \A s \in Saves : save'[s].stage = "made" =>
            /\ save[s].stage = "made" /\ save'[s].to = save[s].to
            /\ save'[s].version = save[s].version
  PROVE  OwedIsThere'
  <1>1. \A s \in Saves : save[s].to \in Lists /\ save[s].version \in Nat
    BY DEF TypeOK, SaveRecords
  <1> QED
    BY <1>1 DEF OwedIsThere, TypeOK

LEMMA OwedTryNext ==
  ASSUME TypeOK, OwedIsThere, NEW s \in Saves, NEW n \in {0, 1}, TryNext(s, n),
         UNCHANGED <<owed, db>>
  PROVE  OwedIsThere'
  <1> DEFINE v == [save[s] EXCEPT !.lost = save[s].lost + n]
             w == [v EXCEPT !.stage = "sent", !.base = v.base + 1]
             u == IF IsLastBase(s) THEN Ended(v, "failed") ELSE w
  <1>1. save[s] \in SaveRecords /\ save \in [Saves -> SaveRecords]
    BY DEF TypeOK
  <1>2. v \in SaveRecords
    BY <1>1, LostTyped
  <1>3. w.stage = "sent"
    BY <1>1 DEF SaveRecords
  <1>4. Ended(v, "failed").stage = "failed"
    BY <1>2, EndedTyped
  <1>5. save' = [save EXCEPT ![s] = u]
    BY DEF TryNext
  <1>6. u.stage # "made"
    BY <1>3, <1>4
  <1> HIDE DEF u
  <1>7. \A l \in Lists : db[l] <= db'[l] /\ db'[l] \in Nat
    BY DEF TypeOK
  <1> QED
    BY <1>1, <1>5, <1>6, <1>7, OwedAlike

LEMMA OwedStep ==
  ASSUME TypeOK, OwedIsThere, [Next]_vars
  PROVE  OwedIsThere'
  <1>0. /\ \A l \in Lists : db[l] <= db[l] /\ db[l] \in Nat
        /\ db \in [Lists -> Nat] /\ owed \in [Lists -> Nat] /\ save \in [Saves -> SaveRecords]
        /\ \A s \in Saves : save[s].to \in Lists /\ save[s].version \in Nat
    BY DEF TypeOK, SaveRecords
  <1>1. CASE UNCHANGED <<owed, db, save>>
    BY <1>0, <1>1, OwedAlike
  <1>2. ASSUME UNCHANGED <<owed, db>>, save' = Unmounted \/ \E l \in Lists : save' = Rendered(l)
        PROVE  OwedIsThere'
    BY <1>0, <1>2, MountedAlike, OwedAlike
  <1>3. CASE Reload
    <2>1. \A s \in Saves : Ended(save[s], "left").stage = "left"
      BY <1>0, EndedTyped
    <2> QED
      BY <1>0, <1>3, <2>1, OwedAlike DEF Reload
  <1>4. CASE ClosePanel
    <2>1. ASSUME NEW s \in Saves
          PROVE  LET w == [save[s] EXCEPT !.mounted = FALSE] IN
                   w.stage = save[s].stage /\ w.to = save[s].to /\ w.version = save[s].version
      BY DEF TypeOK, SaveRecords
    <2> QED
      BY <1>0, <1>4, <2>1, OwedAlike DEF ClosePanel
  <1>5. CASE Authenticate
    BY <1>1, <1>2, <1>3, <1>5 DEF Authenticate, SignIn, SignOut, OtherTab, screen
  <1>6. CASE Navigate
    <2>1. \A l \in ResourceLists \cup AiLists : l \in Lists
      BY PlacesTyped
    <2> QED
      BY <1>1, <1>2, <1>4, <1>6, <2>1 DEF Navigate, ChooseTab, Walk, Leave, setActiveContext,
         OpenDrawer, CloseDrawer, OpenPanel
  <1>7. ASSUME NEW s \in Saves, NEW kind, NEW l, NEW renews, Request(s, kind, l, renews)
        PROVE  OwedIsThere'
    <2>1. [NoSave EXCEPT !.stage = "sent", !.kind = kind, !.to = l,
                         !.renews = renews, !.mounted = TRUE].stage = "sent"
      BY DEF NoSave
    <2>2. ASSUME NEW o \in Saves
          PROVE  LET w == [save[o] EXCEPT !.mounted = FALSE] IN
                   w.stage = save[o].stage /\ w.to = save[o].to /\ w.version = save[o].version
      BY DEF TypeOK, SaveRecords
    <2> QED
      BY <1>0, <1>7, <2>1, <2>2, OwedAlike DEF Request, Started
  <1>a. ASSUME NEW s \in Saves, NEW kind, NEW l, Dismiss(s, kind, l)
        PROVE  OwedIsThere'
    <2>1. Dismissed.stage = "told" /\ save' = Started(s, kind, Dismissed)
      BY <1>a DEF Dismiss, Dismissed, NoSave
    <2>2. ASSUME NEW o \in Saves
          PROVE  LET w == [save[o] EXCEPT !.mounted = FALSE] IN
                   w.stage = save[o].stage /\ w.to = save[o].to /\ w.version = save[o].version
      BY DEF TypeOK, SaveRecords
    <2>3. UNCHANGED <<owed, db>>
      BY <1>a DEF Dismiss
    <2> QED
      BY <1>0, <2>1, <2>2, <2>3, OwedAlike DEF Started
  <1>b. ASSUME NEW s \in Saves, BreakOff(s) PROVE OwedIsThere'
    <2>1. \A l \in Lists : db[l] <= db'[l] /\ db'[l] \in Nat
      BY <1>0, <1>b DEF BreakOff
    <2>2. save'[s].stage = "refused" /\ \A o \in Saves \ {s} : save'[o] = save[o]
      BY <1>0, <1>b DEF BreakOff, SaveRecords
    <2> QED
      BY <1>0, <1>b, <2>1, <2>2, OwedAlike DEF BreakOff
  <1>8. ASSUME NEW s \in Saves, CarryOut(s) PROVE OwedIsThere'
    <2> DEFINE m == save[s].to
    <2>1. db' = [db EXCEPT ![m] = db[m] + 1] /\ owed' = owed
      BY <1>8 DEF CarryOut
    <2>2. \A l \in Lists : db[l] <= db'[l] /\ db'[l] \in Nat
      BY <1>0, <2>1
    <2>3. /\ save'[s].to = m /\ save'[s].version = db[m] + 1
          /\ \A o \in Saves \ {s} : save'[o] = save[o]
      BY <1>0, <1>8 DEF CarryOut, SaveRecords
    <2>4. db'[m] = db[m] + 1
      BY <1>0, <2>1
    <2> HIDE DEF m
    <2>5. ASSUME NEW o \in Saves, save'[o].stage = "made"
          PROVE  save'[o].version <= db'[save'[o].to]
      <3>1. CASE o = s
        BY <1>0, <2>3, <2>4, <3>1 DEF m
      <3>2. CASE o # s
        BY <1>0, <2>2, <2>3, <2>5, <3>2 DEF OwedIsThere
      <3> QED
        BY <3>1, <3>2
    <2>6. \A l \in Lists : owed'[l] <= db'[l]
      BY <1>0, <2>1, <2>2 DEF OwedIsThere
    <2> QED
      BY <2>5, <2>6 DEF OwedIsThere
  <1>9. ASSUME NEW s \in Saves, TurnDown(s) PROVE OwedIsThere'
    <2>1. PICK how \in {"refused", "missing"} : save' = [save EXCEPT ![s].stage = how]
      BY <1>9 DEF TurnDown
    <2>2. save'[s].stage # "made" /\ \A o \in Saves \ {s} : save'[o] = save[o]
      BY <1>0, <2>1 DEF SaveRecords
    <2> QED
      BY <1>0, <1>9, <2>2, OwedAlike DEF TurnDown
  <1>10. ASSUME NEW s \in Saves, NotFound(s) \/ NetworkError(s) PROVE OwedIsThere'
    BY <1>10, OwedTryNext DEF NotFound, NetworkError
  <1>11. ASSUME NEW s \in Saves, Refused(s) PROVE OwedIsThere'
    <2>1. save'[s].stage # "made" /\ \A o \in Saves \ {s} : save'[o] = save[o]
      BY <1>0, <1>11, EndedTyped DEF Refused
    <2> QED
      BY <1>0, <1>11, <2>1, OwedAlike DEF Refused
  <1>12. ASSUME NEW s \in Saves, Succeed(s) PROVE OwedIsThere'
    <2>1. save'[s].stage # "made" /\ \A o \in Saves \ {s} : save'[o] = save[o]
      BY <1>0, <1>12, EndedTyped DEF Succeed, Answered
    <2>2. save[s].version <= db[save[s].to]
      BY <1>12 DEF Succeed, OwedIsThere
    <2>3. \A l \in Lists : owed'[l] <= db[l]
      BY <1>0, <1>12, <2>2 DEF Succeed, OwedIsThere, Larger
    <2>4. db' = db
      BY <1>12 DEF Succeed
    <2> QED
      BY <2>1, <2>3, <2>4 DEF OwedIsThere
  <1>13. ASSUME NEW s \in Saves, Mutate(s) PROVE OwedIsThere'
    BY <1>7, <1>8, <1>9, <1>10, <1>11, <1>12, <1>13, <1>a, <1>b
       DEF Mutate, Submit, Act, Post, ActInPanel, Operate, RowAction
  <1>14. ASSUME NEW l \in Lists, OthersChange(l) PROVE OwedIsThere'
    <2>1. \A m \in Lists : db[m] <= db'[m] /\ db'[m] \in Nat
      BY <1>0, <1>14 DEF OthersChange
    <2> QED
      BY <1>14, <2>1, OwedAlike DEF OthersChange
  <1> QED
    BY <1>1, <1>5, <1>6, <1>13, <1>14 DEF Next, Query, Land, FetchAgain, FetchFails, Age,
       Evict, Focus, vars

(* The two ways in which a fetch that failed leaves old rows, in one.      *)
ShownRight ==
  \A k \in Shown :
    cache[k].has /\ cache[k].version < owed[k[1]] =>
      flight[k].on \/ cache[k].error \/ cache[k].missed

(* What is on the screen follows from what is kept for its keys.           *)
RowsKept == CachedBefore /\ LoadedBefore /\ ShownRight

LEMMA ShownTyped == ASSUME TypeOK PROVE Shown \subseteq Keys
  BY ShownFinite DEF Shown, Sessions, TypeOK

(* A fetch that starts now reads everything that this tab was told of.     *)
LEMMA SentLoads ==
  ASSUME TypeOK, OwedIsThere, NEW k \in Keys, NEW u
  PROVE  Sent(k, u).from >= owed[k[1]] /\ Sent(k, u).on
  BY KeyParts DEF Sent, OwedIsThere, TypeOK

(* What comes to be shown is fetched if it is stale.                       *)
LEMMA ShowRows ==
  ASSUME TypeOK, OwedIsThere, RowsKept, UNCHANGED owed,
         \A k \in Keys : /\ cache'[k].has = cache[k].has
                         /\ cache'[k].version = cache[k].version
                         /\ cache[k].stale => cache'[k].stale
                         /\ cache'[k].error = cache[k].error
                         /\ cache'[k].missed = cache[k].missed,
         NEW new \in SUBSET Keys, NEW u,
         \A k \in new : flight'[k] = Sent(k, u),
         \A k \in Keys \ new : /\ flight'[k].on = flight[k].on
                                /\ flight'[k].from = flight[k].from
                                /\ flight'[k].late = flight[k].late,
         Shown' \subseteq Keys,
         \A k \in Shown' \ Shown : Wanted(k) => k \in new
  PROVE  RowsKept'
  <1>0. \A k \in Keys : k[1] \in Lists
    BY KeyParts
  <1>1. CachedBefore'
    BY <1>0 DEF RowsKept, CachedBefore
  <1>2. LoadedBefore'
    <2>1. ASSUME NEW k \in Keys PROVE owed[k[1]] \in Nat /\ flight[k].from \in Nat
      BY <1>0 DEF TypeOK, Flights
    <2>2. ASSUME NEW k \in Keys, k \in new PROVE ~(flight'[k].from < owed[k[1]])
      <3>1. Sent(k, u).from \in Nat
        BY <1>0 DEF Sent, TypeOK
      <3> QED
        BY <2>1, <2>2, <3>1, SentLoads
    <2> QED
      BY <2>1, <2>2 DEF RowsKept, LoadedBefore
  <1>3. ASSUME NEW k \in Shown', cache'[k].has, cache'[k].version < owed'[k[1]]
        PROVE  flight'[k].on \/ cache'[k].error \/ cache'[k].missed
    <2>1. k \in Keys /\ (k \in new => flight'[k].on)
      BY SentLoads
    <2>2. CASE k \in Shown
      BY <1>3, <2>1, <2>2 DEF RowsKept, ShownRight
    <2>3. CASE k \notin Shown
      BY <1>3, <2>1, <2>3 DEF RowsKept, CachedBefore, Wanted
    <2> QED
      BY <2>2, <2>3
  <1> QED
    BY <1>1, <1>2, <1>3 DEF RowsKept, ShownRight

LEMMA ShowKeeps ==
  ASSUME TypeOK, OwedIsThere, RowsKept, UNCHANGED <<owed, cache>>,
         NEW s \in Sessions, NEW l \in Pages, NEW p \in Panels \cup {NoPanel}, Show(s, l, p)
  PROVE  RowsKept'
  <1> DEFINE new == {k \in ShownWith(s, l, p) \ Shown : Wanted(k)}
  <1>1. ShownWith(s, l, p) \subseteq Keys
    BY ShownFinite
  <1>2. flight' = [k \in Keys |-> IF k \in new THEN Sent(k, stored) ELSE flight[k]]
    BY DEF Show
  <1>3. Shown' = ShownWith(s, l, p)
    BY DEF Shown, Show
  <1>4. new \in SUBSET Keys /\ \A k \in Shown' \ Shown : Wanted(k) => k \in new
    BY <1>1, <1>3
  <1> HIDE DEF new
  <1> QED
    BY <1>1, <1>2, <1>3, <1>4, ShowRows

(* Nothing new is shown or fetched, and the cache is as it was.            *)
LEMMA AlikeKeeps ==
  ASSUME TypeOK, OwedIsThere, RowsKept, UNCHANGED <<owed, cache, flight>>,
         Shown' \subseteq Shown
  PROVE  RowsKept'
  BY ShownTyped DEF RowsKept, CachedBefore, LoadedBefore, ShownRight

LEMMA NavigateKeeps ==
  ASSUME TypeOK, OwedIsThere, RowsKept, Navigate
  PROVE  RowsKept'
  <1>0. /\ session \in Sessions /\ panel \in Panels \cup {NoPanel} /\ place \in Pages
        /\ \A x \in Contexts \cup {NoContext} : [session EXCEPT !.context = x] \in Sessions
        /\ AiLists \subseteq Pages /\ ResourceLists \subseteq Pages
    BY PlacesTyped DEF Sessions, TypeOK
  <1>1. ASSUME NEW l \in Pages, ChooseTab(l) \/ Walk(l) \/ Leave(l) PROVE RowsKept'
    BY <1>0, <1>1, ShowKeeps DEF ChooseTab, Walk, Leave
  <1>2. ASSUME NEW x \in Contexts \cup {NoContext}, setActiveContext(x) PROVE RowsKept'
    BY <1>0, <1>2, ShowKeeps DEF setActiveContext
  <1>3. ASSUME NEW p \in Panels, OpenPanel(p) PROVE RowsKept'
    BY <1>0, <1>3, ShowKeeps DEF OpenPanel
  <1>4. CASE OpenDrawer \/ CloseDrawer
    BY <1>4, AlikeKeeps DEF OpenDrawer, CloseDrawer, Shown
  <1>5. CASE ClosePanel
    <2>1. Shown' \subseteq Shown
      BY <1>5 DEF ClosePanel, Shown, ShownWith
    <2> QED
      BY <1>5, <2>1, AlikeKeeps DEF ClosePanel
  <1> QED
    BY <1>0, <1>1, <1>2, <1>3, <1>4, <1>5 DEF Navigate

LEMMA AuthenticateKeeps ==
  ASSUME TypeOK, OwedIsThere, RowsKept, SignedOutIsBare, Authenticate
  PROVE  RowsKept'
  <1>1. ASSUME NEW u \in Users, SignIn(u) PROVE RowsKept'
    <2> DEFINE t == NewSession(u)
               new == {k \in ShownWith(t, Overview, NoPanel) : Wanted(k)}
    <2>1. ShownWith(t, Overview, NoPanel) \subseteq Keys
      BY ConsoleAssumption, PlacesTyped, ShownFinite DEF NewSession, Sessions
    <2>2. flight' = [k \in Keys |-> IF k \in new THEN Sent(k, u)
                                   ELSE [flight[k] EXCEPT !.old = flight[k].on]]
      BY <1>1 DEF SignIn, StoredBy
    <2>3. cache' = [k \in Keys |-> [cache[k] EXCEPT !.old = cache[k].has]]
      BY <1>1 DEF SignIn
    <2>4. owed' = owed
      BY <1>1 DEF SignIn
    <2>5. Shown' = ShownWith(t, Overview, NoPanel)
      BY <1>1 DEF SignIn, Shown, SignedOutIsBare
    <2>6. new \in SUBSET Keys /\ Shown' \subseteq Keys
          /\ \A k \in Shown' \ Shown : Wanted(k) => k \in new
      BY <2>1, <2>5
    <2> HIDE DEF new, t
    <2>7. \A k \in Keys : /\ cache'[k].has = cache[k].has
                          /\ cache'[k].version = cache[k].version
                          /\ cache'[k].stale = cache[k].stale
                          /\ cache'[k].error = cache[k].error
                          /\ cache'[k].missed = cache[k].missed
      BY <2>3 DEF TypeOK, Answers
    <2>8. /\ \A k \in new : flight'[k] = Sent(k, u)
          /\ \A k \in Keys \ new : /\ flight'[k].on = flight[k].on
                                   /\ flight'[k].from = flight[k].from
                                   /\ flight'[k].late = flight[k].late
      BY <2>2, <2>6 DEF TypeOK, Flights
    <2> QED
      BY <2>4, <2>6, <2>7, <2>8, ShowRows
  <1>2. CASE SignOut
    <2>1. Shown' = {}
      BY <1>2 DEF SignOut, Shown, ShownWith
    <2> QED
      BY <1>2, <2>1, AlikeKeeps DEF SignOut
  <1>3. ASSUME NEW u, OtherTab(u) PROVE RowsKept'
    BY <1>3, AlikeKeeps DEF OtherTab, screen, Shown
  <1>4. CASE Reload
    <2> DEFINE new == ShownWith([token |-> stored, context |-> NoContext],
                                IF place \in AiLists THEN FirstTab ELSE place, NoPanel)
    <2>1. /\ flight' = [k \in Keys |-> IF k \in new THEN Sent(k, stored) ELSE NoFlight]
          /\ cache' = [k \in Keys |-> NoAnswer]
          /\ owed' = owed
      BY <1>4 DEF Reload
    <2> HIDE DEF new
    <2>2. ASSUME NEW k \in Keys PROVE ~cache'[k].has
      BY <2>1 DEF NoAnswer
    <2>3. ASSUME NEW k \in Keys, flight'[k].on PROVE ~(flight'[k].from < owed[k[1]])
      <3>1. flight'[k] = Sent(k, stored)
        BY <2>1, <2>3 DEF NoFlight
      <3>2. Sent(k, stored).from \in Nat /\ owed[k[1]] \in Nat
        BY KeyParts DEF Sent, TypeOK
      <3> QED
        BY <3>1, <3>2, SentLoads
    <2>4. Shown' \subseteq Keys
      <3>1. TypeOK'
        BY AuthenticateTyped
      <3>2. session' \in Sessions /\ place' \in Pages /\ panel' \in Panels \cup {NoPanel}
        BY <3>1 DEF TypeOK, Sessions
      <3> QED
        BY <3>2, ShownFinite DEF Shown
    <2> QED
      BY <2>1, <2>2, <2>3, <2>4 DEF RowsKept, CachedBefore, LoadedBefore, ShownRight
  <1> QED
    BY <1>1, <1>2, <1>3, <1>4 DEF Authenticate

LEMMA SucceedKeeps ==
  ASSUME TypeOK, OwedIsThere, RowsKept, NEW s \in Saves, Succeed(s)
  PROVE  RowsKept'
  <1> DEFINE v == save[s]
             stale == Renewed(v.renews)
             again == Again(v.renews)
  <1>0. /\ cache \in [Keys -> Answers] /\ flight \in [Keys -> Flights]
        /\ owed \in [Lists -> Nat] /\ db \in [Lists -> Nat]
        /\ v.to \in Lists /\ v.version \in Nat /\ \A k \in Keys : k[1] \in Lists
        /\ Shown \subseteq Keys
    BY KeyParts, ShownTyped DEF TypeOK, SaveRecords
  <1>1. /\ \A l \in Lists \ {v.to} : owed'[l] = owed[l]
        /\ \A l \in Lists : owed'[l] \in Nat
    BY <1>0 DEF Succeed, Larger
  <1>2. \A l \in Lists : owed'[l] <= db[l]
    BY <1>0 DEF Succeed, Larger, OwedIsThere
  <1>3. cache' = [k \in Keys |->
                 IF k \in stale THEN [cache[k] EXCEPT !.stale = TRUE]
                 ELSE IF k[1] = v.to /\ v.to \notin v.renews /\ cache[k].has
                      THEN [cache[k] EXCEPT !.missed = TRUE] ELSE cache[k]]
    BY DEF Succeed
  <1>4. flight' = [k \in Keys |->
                 IF k \in again THEN Sent(k, stored)
                 ELSE IF k[1] = v.to /\ flight[k].on THEN [flight[k] EXCEPT !.late = TRUE]
                 ELSE flight[k]]
    BY DEF Succeed
  <1>5. Shown' = Shown
    BY DEF Succeed, Shown
  <1>6. \A k \in Keys : k \in stale <=> k[1] \in v.renews
    BY DEF Renewed
  <1>7. \A k \in Keys : Sent(k, stored).from = db[k[1]] /\ Sent(k, stored).on
    BY DEF Sent
  <1>8. \A k \in stale \cap Shown : cache[k].has => k \in again
    BY DEF Again
  <1>9. again \subseteq stale
    BY DEF Again
  <1> HIDE DEF v, stale, again
  <1>10. ASSUME NEW k \in Keys
         PROVE  /\ cache'[k].has = cache[k].has /\ cache'[k].version = cache[k].version
                /\ cache'[k].error = cache[k].error
                /\ cache[k].stale => cache'[k].stale
                /\ cache[k].missed => cache'[k].missed
                /\ k \in stale => cache'[k].stale
                /\ k \notin stale /\ k[1] = v.to /\ cache[k].has => cache'[k].missed
    BY <1>0, <1>3, <1>6 DEF Answers
  <1>11. ASSUME NEW k \in Keys
         PROVE  IF k \in again THEN flight'[k].from = db[k[1]] /\ flight'[k].on
                ELSE /\ flight'[k].on = flight[k].on /\ flight'[k].from = flight[k].from
                     /\ flight[k].late => flight'[k].late
                     /\ k[1] = v.to /\ flight[k].on => flight'[k].late
    BY <1>0, <1>4, <1>7 DEF Flights
  <1>12. CachedBefore'
    BY <1>0, <1>1, <1>6, <1>10 DEF RowsKept, CachedBefore
  <1>13. LoadedBefore'
    BY <1>0, <1>1, <1>2, <1>11 DEF RowsKept, LoadedBefore
  <1>14. ASSUME NEW k \in Shown, cache'[k].has, cache'[k].version < owed'[k[1]]
         PROVE  flight'[k].on \/ cache'[k].error \/ cache'[k].missed
    <2>1. k \in Keys
      BY <1>0
    <2>2. CASE k \in stale
      BY <1>8, <1>10, <1>11, <1>14, <2>1, <2>2
    <2>3. CASE k \notin stale /\ k[1] = v.to
      BY <1>10, <1>14, <2>1, <2>3
    <2>4. CASE k \notin stale /\ k[1] # v.to
      BY <1>0, <1>1, <1>9, <1>10, <1>11, <1>14, <2>1, <2>4 DEF RowsKept, ShownRight
    <2> QED
      BY <2>2, <2>3, <2>4
  <1> QED
    BY <1>5, <1>12, <1>13, <1>14 DEF RowsKept, ShownRight

LEMMA DismissKeeps ==
  ASSUME TypeOK, OwedIsThere, RowsKept, NEW s \in Saves, NEW kind, NEW l, Dismiss(s, kind, l)
  PROVE  RowsKept'
  <1>1. UNCHANGED owed /\ Shown' = Shown /\ Shown \subseteq Keys
    BY ShownTyped DEF Dismiss, screen, Shown
  <1>2. \A k \in Keys : /\ cache'[k].has = cache[k].has
                        /\ cache'[k].version = cache[k].version
                        /\ cache[k].stale => cache'[k].stale
                        /\ cache'[k].error = cache[k].error
                        /\ cache'[k].missed = cache[k].missed
    BY DEF Dismiss, TypeOK, Answers
  <1>3. Again({l}) \in SUBSET Keys
    BY AgainTyped
  <1>4. flight' = [k \in Keys |-> IF k \in Again({l}) THEN Sent(k, stored) ELSE flight[k]]
    BY DEF Dismiss
  <1> QED
    BY <1>1, <1>2, <1>3, <1>4, ShowRows

LEMMA QueryKeeps ==
  ASSUME TypeOK, OwedIsThere, RowsKept, NEW k \in Keys, Query(k)
  PROVE  RowsKept'
  <1>0. /\ cache \in [Keys -> Answers] /\ flight \in [Keys -> Flights]
        /\ owed \in [Lists -> Nat] /\ db \in [Lists -> Nat]
        /\ \A o \in Keys : o[1] \in Lists
        /\ Shown \subseteq Keys
    BY KeyParts, ShownTyped DEF TypeOK
  <1>1. Shown' = Shown /\ owed' = owed
    BY DEF Query, Land, FetchAgain, FetchFails, Age, Evict, screen, Shown
  <1>2. \A o \in Keys : o # k => cache'[o] = cache[o] /\ flight'[o] = flight[o]
    BY <1>0 DEF Query, Land, FetchAgain, FetchFails, Age, Evict
  <1>3. ASSUME /\ cache'[k].has /\ cache'[k].version < owed[k[1]] =>
                     /\ cache'[k].stale \/ cache'[k].missed
                     /\ k \in Shown => flight'[k].on \/ cache'[k].error \/ cache'[k].missed,
               flight'[k].on /\ flight'[k].from < owed[k[1]] => flight'[k].late
        PROVE  RowsKept'
    <2>1. CachedBefore'
      BY <1>1, <1>2, <1>3 DEF RowsKept, CachedBefore
    <2>2. LoadedBefore'
      BY <1>1, <1>2, <1>3 DEF RowsKept, LoadedBefore
    <2>3. ShownRight'
      BY <1>0, <1>1, <1>2, <1>3 DEF RowsKept, ShownRight
    <2> QED
      BY <2>1, <2>2, <2>3 DEF RowsKept
  <1>4. /\ cache[k].has /\ cache[k].version < owed[k[1]] =>
               /\ cache[k].stale \/ cache[k].missed
               /\ k \in Shown => flight[k].on \/ cache[k].error \/ cache[k].missed
        /\ flight[k].on /\ flight[k].from < owed[k[1]] => flight[k].late
    BY DEF RowsKept, CachedBefore, LoadedBefore, ShownRight
  <1>5. CASE Land(k)
    <2>1. PICK v \in flight[k].from..db[k[1]] :
            cache' = [cache EXCEPT ![k] =
                   [has |-> TRUE, version |-> v, by |-> flight[k].by, stale |-> FALSE,
                    error |-> FALSE, old |-> flight[k].old, missed |-> flight[k].late]]
      BY <1>5 DEF Land
    <2>2. cache'[k].version = v /\ cache'[k].missed = flight[k].late /\ ~flight'[k].on
      BY <1>0, <1>5, <2>1 DEF Land, NoFlight
    <2>3. flight[k].from \in Nat /\ db[k[1]] \in Nat /\ owed[k[1]] \in Nat /\ flight[k].on
      BY <1>0, <1>5 DEF Flights, Land
    <2> QED
      BY <1>3, <1>4, <2>2, <2>3
  <1>6. CASE FetchAgain(k)
    <2>1. flight'[k].on /\ flight'[k].from = db[k[1]] /\ cache' = cache
      BY <1>0, <1>6 DEF FetchAgain, Flights
    <2>2. db[k[1]] \in Nat /\ owed[k[1]] \in Nat /\ owed[k[1]] <= db[k[1]]
      BY <1>0 DEF OwedIsThere
    <2> QED
      BY <1>3, <1>4, <2>1, <2>2
  <1>7. CASE FetchFails(k)
    <2>1. /\ cache'[k].error /\ ~flight'[k].on /\ cache'[k].has = cache[k].has
          /\ cache'[k].version = cache[k].version /\ cache'[k].stale = cache[k].stale
          /\ cache'[k].missed = cache[k].missed
      BY <1>0, <1>7 DEF FetchFails, NoFlight, Answers
    <2> QED
      BY <1>3, <1>4, <2>1
  <1>8. CASE Age(k)
    <2>1. /\ cache'[k].stale /\ cache'[k].has = cache[k].has
          /\ cache'[k].version = cache[k].version /\ cache'[k].error = cache[k].error
          /\ cache'[k].missed = cache[k].missed /\ flight' = flight
      BY <1>0, <1>8 DEF Age, Answers
    <2> QED
      BY <1>3, <1>4, <2>1
  <1>9. CASE Evict(k)
    <2>1. ~cache'[k].has /\ flight' = flight
      BY <1>0, <1>9 DEF Evict, NoAnswer
    <2> QED
      BY <1>3, <1>4, <2>1
  <1> QED
    BY <1>5, <1>6, <1>7, <1>8, <1>9 DEF Query

LEMMA RowsStep ==
  ASSUME TypeOK, OwedIsThere, SignedOutIsBare, RowsKept, [Next]_vars
  PROVE  RowsKept'
  <1>1. CASE UNCHANGED <<screen, cache, flight, owed>>
    BY <1>1, AlikeKeeps DEF screen, Shown
  <1>2. ASSUME NEW s \in Saves, Mutate(s) PROVE RowsKept'
    BY <1>1, <1>2, SucceedKeeps, DismissKeeps DEF Mutate, Submit, Act, Post, ActInPanel,
       Operate, RowAction, Request, CarryOut, BreakOff, TurnDown, NotFound, NetworkError,
       Refused
  <1>3. CASE Focus
    <2> DEFINE new == {k \in Shown : Wanted(k)}
    <2>1. flight' = [k \in Keys |-> IF k \in new THEN Sent(k, stored) ELSE flight[k]]
      BY <1>3 DEF Focus
    <2>2. Shown' = Shown /\ new \in SUBSET Keys
      BY <1>3, ShownTyped DEF Focus, screen, Shown
    <2>3. UNCHANGED <<owed, cache>>
      BY <1>3 DEF Focus
    <2> HIDE DEF new
    <2> QED
      BY <2>1, <2>2, <2>3, ShownTyped, ShowRows
  <1> QED
    BY <1>1, <1>2, <1>3, AuthenticateKeeps, NavigateKeeps, QueryKeeps DEF Next, OthersChange, vars

(* Rows from before a save of this tab are not left on the screen, unless  *)
(* they are being replaced, are under a banner, the console took them for  *)
(* new, or fetching them failed and their component does not say so.       *)
THEOREM OwnSavesAreShown == Spec => []OwnSavesShown
  <1> DEFINE IInv == OwedIsThere /\ RowsKept
  <1>1. Init => IInv
    BY DEF Init, OwedIsThere, RowsKept, CachedBefore, LoadedBefore, ShownRight, NoAnswer,
       NoFlight, NoSave, Shown, ShownWith
  <1>2. TypeOK /\ SignedOutIsBare /\ IInv /\ [Next]_vars => IInv'
    BY OwedStep, RowsStep
  <1>3. IInv => OwnSavesShown
    BY DEF RowsKept, ShownRight, OwnSavesShown, Banner, FailedInSilence
  <1> HIDE DEF IInv
  <1>4. Init => SignedOutIsBare /\ FormFitsPage
    BY DEF Init, NoDrawer, SignedOutIsBare, FormFitsPage
  <1> QED
    BY <1>1, <1>2, <1>3, <1>4, FormStep, TypeCorrect, PTL DEF Spec

===============================================================================
