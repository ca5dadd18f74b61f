-------------------------- MODULE DraftWizardProofs --------------------------
(***************************************************************************)
(* Proofs about DraftWizard, for any handlers, assets, titles and exports. *)
(***************************************************************************)
EXTENDS DraftWizard, SequenceTheorems, FiniteSetTheorems, TLAPS

(* The types of what the actions build. *)

LEMMA BareType ==
  ASSUME NEW kind \in Kinds
  PROVE  Bare(kind) \in Views
BY DEF Bare, Views

LEMMA PageListed ==
  ASSUME NEW list \in ImportedLists, NEW page
  PROVE  PageAssets(list, page) \in SUBSET Listed
BY DEF PageAssets, Listed, ToSet

LEMMA AssetViewType ==
  ASSUME NEW list \in ImportedLists, NEW page \in Nat
  PROVE  AssetView(list, page) \in Views
<1>1. PageAssets(list, page) \in SUBSET Listed
  BY PageListed
<1>2. (page + 1 < PageCount(list)) \in BOOLEAN
  OBVIOUS
<1> QED BY <1>1, <1>2 DEF AssetView, Views, Kinds

LEMMA ConfirmViewType ==
  ASSUME NEW incl \in SUBSET Listed
  PROVE  ConfirmView(incl) \in Views
<1>1. Bare("confirm") \in Views
  BY BareType DEF Kinds
<1> QED BY <1>1 DEF ConfirmView, Views

LEMMA ImportedType ==
  ASSUME NEW rows \in Exports, Importable(rows)
  PROVE  /\ Deduplicated(rows) \in ImportedLists
         /\ ToSet(Deduplicated(rows)) \in SUBSET Listed
<1>1. Deduplicated(rows) \in ImportedLists
  BY DEF ImportedLists
<1> QED BY <1>1 DEF Listed

LEMMA InferType ==
  ASSUME NEW assets
  PROVE  InferGroupTitle(assets) \in Titles \cup {NoTitle}
<1>1. CASE \E t \in Titles : assets # {} /\ \A a \in assets : SeasonsIn[a] = {t}
  <2>1. \E t \in Titles : \A a \in assets : SeasonsIn[a] = {t}
    BY <1>1
  <2>2. (CHOOSE t \in Titles : \A a \in assets : SeasonsIn[a] = {t}) \in Titles
    BY <2>1
  <2> QED BY <1>1, <2>2 DEF InferGroupTitle
<1>2. CASE ~\E t \in Titles : assets # {} /\ \A a \in assets : SeasonsIn[a] = {t}
  BY <1>2 DEF InferGroupTitle
<1> QED BY <1>1, <1>2

LEMMA IdleType == Idle \in HandlerStates
<1>1. Bare("none") \in Views
  BY BareType DEF Kinds
<1> QED BY <1>1 DEF Idle, HandlerStates, Places, Presses

LEMMA OnType ==
  ASSUME TypeOK, NEW h \in Handlers, NEW pc \in Places
  PROVE  On(h, pc) \in HandlerStates
<1>1. at[h].press \in Presses /\ at[h].fresh \in BOOLEAN
  BY DEF TypeOK, HandlerStates
<1> QED BY <1>1, IdleType DEF On, HandlerStates

LEMMA ShowType ==
  ASSUME TypeOK, NEW h \in Handlers, NEW view \in Views
  PROVE  [On(h, "show") EXCEPT !.next = view] \in HandlerStates
<1>1. On(h, "show") \in HandlerStates
  BY OnType DEF Places
<1> QED BY <1>1 DEF HandlerStates

LEMMA ReadyType ==
  ASSUME TypeOK, NEW h \in Handlers, NEW view \in Views, Ready(h, view)
  PROVE  at' \in [Handlers -> HandlerStates]
BY ShowType DEF Ready, TypeOK

LEMMA GotoType ==
  ASSUME TypeOK, NEW h \in Handlers, NEW pc \in Places, Goto(h, pc)
  PROVE  at' \in [Handlers -> HandlerStates]
BY DEF Goto, TypeOK, HandlerStates

LEMMA SetType ==
  ASSUME TypeOK, NEW h \in Handlers, NEW state \in HandlerStates, at' = [at EXCEPT ![h] = state]
  PROVE  at' \in [Handlers -> HandlerStates]
BY DEF TypeOK

LEMMA ReturnType ==
  ASSUME TypeOK, NEW h \in Handlers, Return(h)
  PROVE  at' \in [Handlers -> HandlerStates]
BY SetType, IdleType DEF Return

LEMMA ReplaceType ==
  ASSUME TypeOK, NEW h \in Handlers, NEW view \in Views, NEW state \in HandlerStates,
         Replace(h, view, state)
  PROVE  screen' \in Views /\ at' \in [Handlers -> HandlerStates]
<1>1. \A g \in Handlers : [at[g] EXCEPT !.fresh = FALSE] \in HandlerStates
  BY DEF TypeOK, HandlerStates
<1> QED BY <1>1 DEF Replace

LEMMA DisturbType ==
  ASSUME TypeOK, Disturb
  PROVE  disturbed' \in 0..MaxDisturbed
BY WizardAssumption DEF Disturb, TypeOK

LEMMA AckType ==
  ASSUME TypeOK, NEW h \in Handlers, NEW view \in Views, NEW state \in HandlerStates,
         Ack(h, view, state)
  PROVE  screen' \in Views /\ at' \in [Handlers -> HandlerStates] /\ disturbed' \in 0..MaxDisturbed
<1>1. CASE Replace(h, view, state) /\ UNCHANGED disturbed
  BY <1>1, ReplaceType DEF TypeOK
<1>2. CASE at' = [at EXCEPT ![h] = state] /\ UNCHANGED screen /\ (UNCHANGED disturbed \/ Disturb)
  BY <1>2, SetType, DisturbType DEF TypeOK
<1> QED BY <1>1, <1>2 DEF Ack

LEMMA NewDraftType ==
  ASSUME NEW url \in BOOLEAN
  PROVE  NewDraft(url) \in Drafts
BY DEF NewDraft, Drafts, ImportedLists

LEMMA SavedType ==
  ASSUME TypeOK, NEW h \in Handlers, NEW page \in Nat
  PROVE  Saved(h, page) \in Drafts
<1> DEFINE incl == (draft.incl \ at[h].on.lists) \cup at[h].incl
<1>1. incl \in SUBSET Listed /\ at[h].title \in Titles \cup {NoTitle} /\ at[h].ok \in BOOLEAN /\ draft \in Drafts
  BY DEF TypeOK, Drafts, HandlerStates
<1>2. InferGroupTitle(incl) \in Titles \cup {NoTitle}
  BY InferType
<1> HIDE DEF incl
<1>3. [draft EXCEPT !.incl = incl, !.ok = at[h].ok, !.page = page,
                    !.title = IF at[h].title = NoTitle THEN InferGroupTitle(incl) ELSE at[h].title] \in Drafts
  BY <1>1, <1>2 DEF Drafts
<1> QED BY <1>3 DEF Saved, incl

LEMMA DraftImportedType ==
  ASSUME TypeOK, NEW rows \in Exports, Importable(rows)
  PROVE  Imported(rows) \in Drafts /\ [Imported(rows) EXCEPT !.members = TRUE] \in Drafts
<1> DEFINE assets == Deduplicated(rows)
<1>1. assets \in ImportedLists /\ ToSet(assets) \in SUBSET Listed /\ draft \in Drafts
  BY ImportedType DEF TypeOK
<1>2. InferGroupTitle(ToSet(assets)) \in Titles \cup {NoTitle}
  BY InferType
<1> HIDE DEF assets
<1>3. [draft EXCEPT !.assets = assets, !.incl = ToSet(assets), !.page = 0,
                    !.title = InferGroupTitle(ToSet(assets))] \in Drafts
  BY <1>1, <1>2 DEF Drafts
<1>4. Imported(rows) \in Drafts
  BY <1>3 DEF Imported, assets
<1> QED BY <1>4 DEF Drafts

LEMMA DraftFields ==
  ASSUME TypeOK
  PROVE  /\ draft.assets \in ImportedLists /\ draft.incl \in SUBSET Listed
         /\ draft.title \in Titles \cup {NoTitle} /\ draft.page \in Nat
BY DEF TypeOK, Drafts

LEMMA DraftPageType ==
  ASSUME TypeOK, NEW page \in Nat
  PROVE  [draft EXCEPT !.page = page] \in Drafts
BY DEF TypeOK, Drafts

LEMMA DraftCanvasType ==
  ASSUME TypeOK, NEW ready \in BOOLEAN
  PROVE  [draft EXCEPT !.canvas = ready] \in Drafts
BY DEF TypeOK, Drafts

LEMMA ImportOrAskType ==
  ASSUME TypeOK, NEW h \in Handlers, ImportOrAsk(h)
  PROVE  at' \in [Handlers -> HandlerStates]
<1>1. Bare("import") \in Views /\ On(h, "export") \in HandlerStates
  BY BareType, OnType DEF Kinds, Places
<1> QED BY <1>1, ReadyType, SetType DEF ImportOrAsk

LEMMA PressType ==
  ASSUME TypeOK, NEW h \in Handlers, NEW press \in Presses, Press(h, press)
  PROVE  TypeOK'
<1>1. PICK entry \in Entries(screen) :
        at' = [at EXCEPT ![h] = [Idle EXCEPT !.pc = press, !.press = press, !.on = screen,
                                 !.incl = entry.incl, !.title = entry.title, !.ok = entry.ok,
                                 !.fresh = press \in ByHash]]
  BY Zenon DEF Press
<1>2. screen.lists \in SUBSET Listed /\ screen \in Views
  BY DEF TypeOK, Views
<1>3. entry.incl \in SUBSET Listed /\ entry.title \in Titles \cup {NoTitle} /\ entry.ok \in BOOLEAN
  BY <1>2 DEF Entries
<1>4. press \in Places /\ (press \in ByHash) \in BOOLEAN
  BY DEF Presses, Places
<1>5. at' \in [Handlers -> HandlerStates]
  <2>1. [Idle EXCEPT !.pc = press, !.press = press, !.on = screen, !.incl = entry.incl,
                     !.title = entry.title, !.ok = entry.ok, !.fresh = press \in ByHash] \in HandlerStates
    BY <1>2, <1>3, <1>4, IdleType DEF HandlerStates
  <2> QED BY <1>1, <2>1, SetType
<1>6. disturbed' \in 0..MaxDisturbed
  BY DisturbType DEF Press, TypeOK
<1> QED BY <1>5, <1>6 DEF Press, TypeOK, channelVars

LEMMA NoTxnType == NoTxn \in Sessions
BY DEF NoTxn, Sessions

LEMMA DropType ==
  ASSUME TypeOK, NEW h \in Handlers, Drop(h)
  PROVE  at' \in [Handlers -> HandlerStates] /\ txn' \in Sessions
BY ReturnType DEF Drop, TypeOK, Sessions

LEMMA TypeInit == Init => TypeOK
<1> SUFFICES ASSUME Init PROVE TypeOK
  OBVIOUS
<1>1. screen \in Views /\ draft \in Drafts /\ at \in [Handlers -> HandlerStates]
  BY BareType, NewDraftType, IdleType DEF Init, Kinds
<1>2. batches \in Seq(Batches) /\ seen \in SUBSET Listed /\ groups \in SUBSET (Titles \cup {NoTitle})
  BY DEF Init
<1>3. disturbed \in 0..MaxDisturbed
  BY WizardAssumption DEF Init
<1> QED BY <1>1, <1>2, <1>3, NoTxnType DEF Init, TypeOK

LEMMA TypeStep == TypeOK /\ [Next]_vars => TypeOK'
<1> SUFFICES ASSUME TypeOK, [Next]_vars PROVE TypeOK'
  OBVIOUS
<1> USE DEF channelVars
<1>1. ASSUME NEW h \in Handlers, Preflight(h) PROVE TypeOK'
  <2>1. draft' \in Drafts
    <3>1. \A r : (r \in {"ready", "rename"}) \in BOOLEAN
      OBVIOUS
    <3>2. \A r : [draft EXCEPT !.canvas = (r \in {"ready", "rename"})] \in Drafts
      BY <3>1, DraftCanvasType
    <3> QED BY <1>1, <3>2 DEF Preflight
  <2>2. ImportOrAsk(h) \/ Ready(h, Bare("blocked")) \/ Ready(h, Bare("preflight"))
    BY <1>1 DEF Preflight
  <2>3. at' \in [Handlers -> HandlerStates]
    BY <2>2, ImportOrAskType, ReadyType, BareType DEF Kinds
  <2> QED BY <1>1, <2>1, <2>3 DEF Preflight, TypeOK
<1>2. ASSUME NEW h \in Handlers, EnsureCanvas(h) PROVE TypeOK'
  <2>1. draft' \in Drafts /\ canvas' \in CanvasStates
    <3>1. [draft EXCEPT !.canvas = TRUE] \in Drafts /\ "index" \in CanvasStates
      BY DraftCanvasType DEF CanvasStates
    <3> QED BY <1>2, <3>1 DEF EnsureCanvas, TypeOK
  <2>2. at' \in [Handlers -> HandlerStates]
    BY <1>2, ImportOrAskType, ReturnType DEF EnsureCanvas
  <2> QED BY <1>2, <2>1, <2>2 DEF EnsureCanvas, TypeOK
<1>3. ASSUME NEW h \in Handlers, Decline(h) \/ Discard(h) PROVE TypeOK'
  <2>1. at' \in [Handlers -> HandlerStates]
    BY <1>3, ReturnType DEF Decline, Discard
  <2> QED BY <1>3, <2>1 DEF Decline, Discard, TypeOK
<1>4. ASSUME NEW h \in Handlers, ImportSubmit(h) PROVE TypeOK'
  <2>1. Bare("working") \in Views /\ On(h, "export") \in HandlerStates
        /\ [On(h, "show") EXCEPT !.next = Bare("import")] \in HandlerStates
    BY BareType, OnType, ShowType DEF Kinds, Places
  <2>2. screen' \in Views /\ at' \in [Handlers -> HandlerStates] /\ disturbed' \in 0..MaxDisturbed
    BY <1>4, <2>1, AckType DEF ImportSubmit
  <2> QED BY <1>4, <2>2 DEF ImportSubmit, TypeOK
<1>5. ASSUME NEW h \in Handlers, Export(h) PROVE TypeOK'
  <2>1. CASE Ready(h, Bare("import")) /\ UNCHANGED <<inBook, draft, seen>>
    <3>1. at' \in [Handlers -> HandlerStates]
      BY <2>1, ReadyType, BareType DEF Kinds
    <3> QED BY <1>5, <2>1, <3>1 DEF Export, TypeOK
  <2>2. ASSUME NEW rows \in Exports, Importable(rows), inBook' = TRUE, seen' = {},
               \/ /\ draft' = [Imported(rows) EXCEPT !.members = TRUE]
                  /\ Ready(h, AssetView(Deduplicated(rows), 0))
               \/ /\ draft' = Imported(rows)
                  /\ Ready(h, Bare("import"))
        PROVE  TypeOK'
    <3>1. draft' \in Drafts
      BY <2>2, DraftImportedType
    <3>2. Bare("import") \in Views /\ AssetView(Deduplicated(rows), 0) \in Views
      BY <2>2, BareType, ImportedType, AssetViewType DEF Kinds
    <3>3. at' \in [Handlers -> HandlerStates]
      BY <2>2, <3>2, ReadyType
    <3> QED BY <1>5, <2>2, <3>1, <3>3 DEF Export, TypeOK
  <2> QED BY <1>5, <2>1, <2>2 DEF Export
<1>6. ASSUME NEW h \in Handlers, AssetSubmit(h) PROVE TypeOK'
  <2>1. CASE inBook
    <3>1. draft' \in Drafts
      BY <1>6, <2>1, SavedType, DraftFields DEF AssetSubmit
    <3>2. Bare("working") \in Views /\ [On(h, "open") EXCEPT !.page = draft.page] \in HandlerStates
      <4>1. Bare("working") \in Views /\ On(h, "open") \in HandlerStates
        BY BareType, OnType DEF Kinds, Places
      <4> QED BY <4>1, DraftFields DEF HandlerStates
    <3>3. screen' \in Views /\ at' \in [Handlers -> HandlerStates] /\ disturbed' \in 0..MaxDisturbed
      BY <1>6, <2>1, <3>2, AckType DEF AssetSubmit
    <3> QED BY <1>6, <3>1, <3>3 DEF AssetSubmit, TypeOK
  <2>2. CASE ~inBook
    <3>1. at' \in [Handlers -> HandlerStates]
      BY <1>6, <2>2, ReturnType DEF AssetSubmit
    <3> QED BY <1>6, <2>2, <3>1 DEF AssetSubmit, TypeOK
  <2> QED BY <2>1, <2>2
<1>7. ASSUME NEW h \in Handlers, OpenNext(h) PROVE TypeOK'
  <2>1. at[h].page \in Nat /\ at[h].page + 1 \in Nat
    BY DEF TypeOK, HandlerStates
  <2>2. draft' \in Drafts
    BY <1>7, <2>1, DraftPageType DEF OpenNext, TypeOK
  <2>3. /\ AssetView(draft.assets, at[h].page) \in Views
        /\ AssetView(draft.assets, at[h].page + 1) \in Views
        /\ ConfirmView(draft.incl) \in Views
    BY <2>1, DraftFields, AssetViewType, ConfirmViewType
  <2>4. at' \in [Handlers -> HandlerStates]
    BY <1>7, <2>3, ReadyType, ReturnType DEF OpenNext
  <2>5. disturbed' \in 0..MaxDisturbed
    BY <1>7, DisturbType DEF OpenNext, TypeOK
  <2> QED BY <1>7, <2>2, <2>4, <2>5 DEF OpenNext, TypeOK
<1>8. ASSUME NEW h \in Handlers, Navigate(h) PROVE TypeOK'
  <2> DEFINE page == IF at[h].pc = "next" THEN draft.page + 1 ELSE draft.page - 1
  <2>1. CASE Return(h) /\ (UNCHANGED draft \/ draft' = Saved(h, draft.page))
    <3>1. draft' \in Drafts
      BY <2>1, SavedType, DraftFields DEF TypeOK
    <3>2. at' \in [Handlers -> HandlerStates]
      BY <2>1, ReturnType
    <3> QED BY <1>8, <3>1, <3>2 DEF Navigate, TypeOK
  <2>2. CASE page \in Nat /\ draft' = Saved(h, page) /\ Ready(h, AssetView(draft.assets, page))
    <3> HIDE DEF page
    <3>1. draft' \in Drafts
      BY <2>2, SavedType
    <3>2. at' \in [Handlers -> HandlerStates]
      BY <2>2, ReadyType, AssetViewType, DraftFields
    <3> QED BY <1>8, <3>1, <3>2 DEF Navigate, TypeOK
  <2> QED BY <1>8, <2>1, <2>2 DEF Navigate
<1>9. ASSUME NEW h \in Handlers, Review(h) PROVE TypeOK'
  <2>1. draft' \in Drafts
    BY <1>9, SavedType, DraftFields DEF Review, TypeOK
  <2>2. draft'.incl \in SUBSET Listed
    BY <2>1 DEF Drafts
  <2>3. at' \in [Handlers -> HandlerStates]
    BY <1>9, <2>2, ReadyType, ReturnType, ConfirmViewType DEF Review
  <2> QED BY <1>9, <2>1, <2>3 DEF Review, TypeOK
<1>10. ASSUME NEW h \in Handlers, Show(h) PROVE TypeOK'
  <2>1. CASE Return(h) /\ UNCHANGED <<screen, seen>>
    <3>1. at' \in [Handlers -> HandlerStates] /\ disturbed' \in 0..MaxDisturbed
      BY <1>10, <2>1, ReturnType, DisturbType DEF Show, TypeOK
    <3> QED BY <1>10, <2>1, <3>1 DEF Show, TypeOK
  <2>2. CASE /\ Replace(h, at[h].next, Idle) /\ UNCHANGED disturbed
             /\ seen' = seen \cup (IF at[h].next.kind = "asset" THEN at[h].next.lists ELSE {})
    <3>1. at[h].next \in Views /\ at[h].next.lists \in SUBSET Listed
      BY DEF TypeOK, HandlerStates, Views
    <3>2. screen' \in Views /\ at' \in [Handlers -> HandlerStates]
      BY <2>2, <3>1, ReplaceType, IdleType
    <3>3. seen' \in SUBSET Listed
      BY <2>2, <3>1 DEF TypeOK
    <3> QED BY <1>10, <2>2, <3>2, <3>3 DEF Show, TypeOK
  <2> QED BY <1>10, <2>1, <2>2 DEF Show
<1>11. ASSUME NEW h \in Handlers, ConfirmSubmit(h) PROVE TypeOK'
  <2>1. CASE inBook
    <3>1. draft' \in Drafts
      BY <1>11, <2>1 DEF ConfirmSubmit, TypeOK, Drafts, HandlerStates
    <3>2. Bare("closed") \in Views /\ [at[h] EXCEPT !.pc = "check"] \in HandlerStates
      BY BareType DEF Kinds, TypeOK, HandlerStates, Places
    <3>3. screen' \in Views /\ at' \in [Handlers -> HandlerStates] /\ disturbed' \in 0..MaxDisturbed
      BY <1>11, <2>1, <3>2, AckType DEF ConfirmSubmit
    <3> QED BY <1>11, <3>1, <3>3 DEF ConfirmSubmit, TypeOK
  <2>2. CASE ~inBook
    <3>1. at' \in [Handlers -> HandlerStates]
      BY <1>11, <2>2, ReturnType DEF ConfirmSubmit
    <3> QED BY <1>11, <2>2, <3>1 DEF ConfirmSubmit, TypeOK
  <2> QED BY <2>1, <2>2
<1>12. ASSUME NEW h \in Handlers, Check(h) PROVE TypeOK'
  <2>1. at' \in [Handlers -> HandlerStates]
    BY <1>12, ReturnType, GotoType DEF Check, Places
  <2>2. inBook' \in BOOLEAN
    BY <1>12 DEF Check, TypeOK
  <2> QED BY <1>12, <2>1, <2>2 DEF Check, TypeOK
<1>13. ASSUME NEW h \in Handlers, Acquire(h) \/ CreateGroup(h) \/ StoreBatch(h) \/ Abandon(h) PROVE TypeOK'
  <2>1. txn \in Sessions /\ draft.title \in Titles \cup {NoTitle} /\ draft.incl \in SUBSET Listed
    BY DraftFields DEF TypeOK
  <2>2. CASE Acquire(h)
    <3>1. at' \in [Handlers -> HandlerStates] /\ txn' \in Sessions
      BY <2>1, <2>2, ReturnType, GotoType, DropType DEF Acquire, Places, Sessions
    <3> QED BY <2>2, <3>1 DEF Acquire, TypeOK
  <2>3. CASE CreateGroup(h)
    <3>1. at' \in [Handlers -> HandlerStates] /\ txn' \in Sessions
      BY <2>1, <2>3, GotoType DEF CreateGroup, Places, Sessions
    <3> QED BY <2>3, <3>1 DEF CreateGroup, TypeOK
  <2>4. CASE StoreBatch(h)
    <3>1. PICK group \in txn.groups :
            txn' = [txn EXCEPT !.batches =
                      Append(@, [group |-> group, title |-> draft.title, incl |-> draft.incl])]
      BY <2>4 DEF StoreBatch
    <3>2. [group |-> group, title |-> draft.title, incl |-> draft.incl] \in Batches
      BY <2>1 DEF Batches, Sessions
    <3>3. Append(txn.batches, [group |-> group, title |-> draft.title, incl |-> draft.incl]) \in Seq(Batches)
      BY <2>1, <3>2 DEF Sessions
    <3>4. txn' \in Sessions
      BY <2>1, <3>1, <3>3, Zenon DEF Sessions
    <3>5. at' \in [Handlers -> HandlerStates]
      BY <2>4, GotoType DEF StoreBatch, Places
    <3> QED BY <2>4, <3>4, <3>5 DEF StoreBatch, TypeOK
  <2>5. CASE Abandon(h)
    <3>1. at' \in [Handlers -> HandlerStates] /\ txn' \in Sessions
      BY <2>5, DropType DEF Abandon
    <3> QED BY <2>5, <3>1 DEF Abandon, TypeOK
  <2> QED BY <1>13, <2>2, <2>3, <2>4, <2>5
<1>19. ASSUME NEW h \in Handlers, Commit(h) PROVE TypeOK'
  <2>1. at' \in [Handlers -> HandlerStates]
    BY <1>19, GotoType, ReturnType DEF Commit, Places
  <2>2. batches' \in Seq(Batches) /\ groups' \in SUBSET (Titles \cup {NoTitle})
    BY <1>19 DEF Commit, TypeOK, Sessions
  <2> QED BY <1>19, <2>1, <2>2, NoTxnType DEF Commit, TypeOK
<1>20. CASE Collect
  BY <1>20, NoTxnType DEF Collect, TypeOK
<1>14. ASSUME NEW h \in Handlers, Command(h) PROVE TypeOK'
  <2>1. draft' \in Drafts
    BY <1>14, NewDraftType DEF Command
  <2>2. Bare("loading") \in Views /\ [Idle EXCEPT !.pc = "preflight"] \in HandlerStates
    BY BareType, IdleType DEF Kinds, HandlerStates, Places
  <2>3. screen' \in Views /\ at' \in [Handlers -> HandlerStates]
    BY <1>14, <2>2, ReplaceType DEF Command, TypeOK
  <2> QED BY <1>14, <2>1, <2>3 DEF Command, TypeOK
<1>15. CASE Close
  <2>1. Bare("closed") \in Views
    BY BareType DEF Kinds
  <2>2. \A h \in Handlers : [at[h] EXCEPT !.fresh = FALSE] \in HandlerStates
    BY DEF TypeOK, HandlerStates
  <2> QED BY <1>15, <2>1, <2>2 DEF Close, TypeOK
<1>16. CASE Restart
  <2>1. disturbed' \in 0..MaxDisturbed /\ at' \in [Handlers -> HandlerStates]
    BY <1>16, DisturbType, IdleType DEF Restart
  <2> QED BY <1>16, <2>1, NoTxnType DEF Restart, TypeOK
<1>17. CASE LeaseChanges
  BY <1>17 DEF LeaseChanges, TypeOK
<1>18. CASE UNCHANGED vars
  BY <1>18 DEF vars, TypeOK
<1> QED BY <1>1, <1>2, <1>3, <1>4, <1>5, <1>6, <1>7, <1>8, <1>9, <1>10, <1>11, <1>12, <1>13,
           <1>14, <1>15, <1>16, <1>17, <1>18, <1>19, <1>20, PressType DEF Next, Step

(* Screens, handlers and the draft keep their types: no page below the      *)
(* first, and only assets of an import.                                     *)
THEOREM WizardTypeCorrect == Spec => []TypeOK
BY TypeInit, TypeStep, PTL DEF Spec

-----------------------------------------------------------------------------

(* Why a confirmation is stored as a whole.  Whoever stores has the session *)
(* to himself, with what he wrote so far in it and nothing else; so what a  *)
(* commit finds there is the lease, one new group and one batch of it.      *)
Wrote(pc) ==
  CASE pc = "group"  -> txn.groups = {} /\ txn.batches = <<>>
    [] pc = "store"  -> \E group \in (Titles \cup {NoTitle}) \ groups : txn.groups = {group} /\ txn.batches = <<>>
    [] pc = "commit" -> \E batch \in Batches : /\ batch.group \notin groups
                                               /\ txn.groups = {batch.group} /\ txn.batches = <<batch>>

SessionInv ==
  /\ txn.by = "nobody" => txn = NoTxn
  /\ \A h \in Handlers : at[h].pc \in {"group", "store", "commit"} =>
       txn.by = h /\ txn.lease /\ Wrote(at[h].pc)

(* No handler starts to store, or goes on with it.                          *)
Quiet == \A h \in Handlers : at'[h].pc \in {"group", "store", "commit"} => at'[h].pc = at[h].pc

LEMMA SetQuiet ==
  ASSUME TypeOK, NEW h \in Handlers, NEW state, at' = [at EXCEPT ![h] = state],
         state.pc \notin {"group", "store", "commit"}
  PROVE  Quiet
BY DEF Quiet, TypeOK

LEMMA ReturnQuiet ==
  ASSUME TypeOK, NEW h \in Handlers, Return(h)
  PROVE  Quiet /\ at'[h].pc = "idle"
BY DEF Return, Quiet, Idle, TypeOK

LEMMA ReadyQuiet ==
  ASSUME TypeOK, NEW h \in Handlers, NEW view, Ready(h, view)
  PROVE  Quiet
<1>1. [On(h, "show") EXCEPT !.next = view].pc = "show"
  BY DEF On, Idle
<1> QED BY <1>1, SetQuiet DEF Ready

LEMMA GotoQuiet ==
  ASSUME TypeOK, NEW h \in Handlers, NEW pc, Goto(h, pc)
  PROVE  /\ at'[h].pc = pc
         /\ pc \notin {"group", "store", "commit"} => Quiet
         /\ \A g \in Handlers \ {h} : at'[g] = at[g]
BY DEF Goto, Quiet, TypeOK, HandlerStates

LEMMA ReplaceQuiet ==
  ASSUME TypeOK, NEW h \in Handlers, NEW view, NEW state, Replace(h, view, state),
         state.pc \notin {"group", "store", "commit"}
  PROVE  Quiet
<1>1. \A g \in Handlers : [at[g] EXCEPT !.fresh = FALSE].pc = at[g].pc
  BY DEF TypeOK, HandlerStates
<1> QED BY <1>1 DEF Replace, Quiet

LEMMA AckQuiet ==
  ASSUME TypeOK, NEW h \in Handlers, NEW view, NEW state, Ack(h, view, state),
         state.pc \notin {"group", "store", "commit"}
  PROVE  Quiet
<1>1. CASE Replace(h, view, state)
  BY <1>1, ReplaceQuiet
<1>2. CASE at' = [at EXCEPT ![h] = state]
  BY <1>2, SetQuiet
<1> QED BY <1>1, <1>2 DEF Ack

LEMMA ImportOrAskQuiet ==
  ASSUME TypeOK, NEW h \in Handlers, ImportOrAsk(h)
  PROVE  Quiet
<1>1. On(h, "export").pc = "export"
  BY DEF On, Idle
<1> QED BY <1>1, SetQuiet, ReadyQuiet DEF ImportOrAsk

LEMMA QuietStep ==
  ASSUME TypeOK, [Next]_vars
  PROVE  Quiet \/ \E h \in Handlers : Acquire(h) \/ CreateGroup(h) \/ StoreBatch(h)
<1>1. ASSUME NEW h \in Handlers, Preflight(h) \/ EnsureCanvas(h) PROVE Quiet
  <2>1. CASE Preflight(h)
    <3>1. ImportOrAsk(h) \/ Ready(h, Bare("blocked")) \/ Ready(h, Bare("preflight"))
      BY <2>1 DEF Preflight
    <3> QED BY <3>1, ImportOrAskQuiet, ReadyQuiet
  <2>2. CASE EnsureCanvas(h)
    <3>1. ImportOrAsk(h) \/ Return(h)
      BY <2>2 DEF EnsureCanvas
    <3> QED BY <3>1, ImportOrAskQuiet, ReturnQuiet
  <2> QED BY <1>1, <2>1, <2>2
<1>2. ASSUME NEW h \in Handlers, ImportSubmit(h) \/ AssetSubmit(h) \/ ConfirmSubmit(h) PROVE Quiet
  <2>1. /\ On(h, "export").pc = "export"
        /\ [On(h, "show") EXCEPT !.next = Bare("import")].pc = "show"
        /\ [On(h, "open") EXCEPT !.page = draft.page].pc = "open"
        /\ [at[h] EXCEPT !.pc = "check"].pc = "check"
    BY DEF On, Idle, TypeOK, HandlerStates
  <2>2. CASE ImportSubmit(h)
    BY <2>1, <2>2, AckQuiet DEF ImportSubmit
  <2>3. CASE AssetSubmit(h)
    <3>1. Ack(h, Bare("working"), [On(h, "open") EXCEPT !.page = draft.page]) \/ Return(h)
      BY <2>3 DEF AssetSubmit
    <3> QED BY <2>1, <3>1, AckQuiet, ReturnQuiet
  <2>4. CASE ConfirmSubmit(h)
    <3>1. Ack(h, Bare("closed"), [at[h] EXCEPT !.pc = "check"]) \/ Return(h)
      BY <2>4 DEF ConfirmSubmit
    <3> QED BY <2>1, <3>1, AckQuiet, ReturnQuiet
  <2> QED BY <1>2, <2>2, <2>3, <2>4
<1>3. ASSUME NEW h \in Handlers, Export(h) \/ OpenNext(h) \/ Navigate(h) \/ Review(h) PROVE Quiet
  <2>1. Return(h) \/ \E view : Ready(h, view)
    BY <1>3 DEF Export, OpenNext, Navigate, Review
  <2> QED BY <2>1, ReturnQuiet, ReadyQuiet
<1>4. ASSUME NEW h \in Handlers, Show(h) PROVE Quiet
  <2>1. Idle.pc = "idle"
    BY DEF Idle
  <2>2. Return(h) \/ Replace(h, at[h].next, Idle)
    BY <1>4 DEF Show
  <2> QED BY <2>1, <2>2, ReturnQuiet, ReplaceQuiet
<1>5. ASSUME NEW h \in Handlers, Decline(h) \/ Discard(h) \/ Abandon(h) PROVE Quiet
  BY <1>5, ReturnQuiet DEF Decline, Discard, Abandon, Drop
<1>6. ASSUME NEW h \in Handlers, Check(h) \/ Commit(h) PROVE Quiet
  BY <1>6, ReturnQuiet, GotoQuiet DEF Check, Commit
<1>7. ASSUME NEW h \in Handlers, Command(h) PROVE Quiet
  <2>1. [Idle EXCEPT !.pc = "preflight"].pc = "preflight"
    BY DEF Idle
  <2>2. Replace(h, Bare("loading"), [Idle EXCEPT !.pc = "preflight"]) \/ UNCHANGED at
    BY <1>7 DEF Command
  <2> QED BY <2>1, <2>2, ReplaceQuiet DEF Quiet
<1>8. ASSUME NEW h \in Handlers, NEW press \in Presses, Press(h, press) PROVE Quiet
  <2>1. PICK entry \in Entries(screen) :
          at' = [at EXCEPT ![h] = [Idle EXCEPT !.pc = press, !.press = press, !.on = screen,
                                   !.incl = entry.incl, !.title = entry.title, !.ok = entry.ok,
                                   !.fresh = press \in ByHash]]
    BY <1>8, Zenon DEF Press
  <2>2. [Idle EXCEPT !.pc = press, !.press = press, !.on = screen, !.incl = entry.incl,
                     !.title = entry.title, !.ok = entry.ok, !.fresh = press \in ByHash].pc = press
    BY DEF Idle
  <2> QED BY <2>1, <2>2, SetQuiet DEF Presses
<1>9. CASE Close \/ Restart
  <2>1. \A h \in Handlers : at'[h].pc \in {at[h].pc, "idle"}
    BY <1>9 DEF Close, Restart, Idle, TypeOK, HandlerStates
  <2> QED BY <2>1 DEF Quiet
<1>10. CASE Collect \/ LeaseChanges \/ UNCHANGED vars
  BY <1>10 DEF Collect, LeaseChanges, vars, Quiet
<1> QED BY <1>1, <1>2, <1>3, <1>4, <1>5, <1>6, <1>7, <1>8, <1>9, <1>10 DEF Next, Step

(* Which steps change the channel: those of a confirmation, the setup of    *)
(* the canvas, what the other users do with the lease, and what ends a      *)
(* session.                                                                 *)
Stores(h) == Acquire(h) \/ CreateGroup(h) \/ StoreBatch(h) \/ Abandon(h)

LEMMA ChannelSteps ==
  ASSUME [Next]_vars
  PROVE  \/ \E h \in Handlers : Commit(h)
         \/ \E h \in Handlers : Stores(h) /\ UNCHANGED <<canvas, lease, groups, batches>>
         \/ \E h \in Handlers : EnsureCanvas(h) /\ UNCHANGED <<lease, groups, batches, txn>>
         \/ LeaseChanges /\ UNCHANGED <<canvas, groups, batches, txn>>
         \/ (Collect \/ Restart) /\ txn' = NoTxn /\ UNCHANGED <<canvas, lease, groups, batches>>
         \/ UNCHANGED <<canvas, lease, groups, batches, txn>>
<1> USE DEF channelVars
<1>1. ASSUME NEW h \in Handlers, Step(h)
      PROVE  \/ Commit(h)
             \/ Stores(h) /\ UNCHANGED <<canvas, lease, groups, batches>>
             \/ EnsureCanvas(h) /\ UNCHANGED <<lease, groups, batches, txn>>
             \/ UNCHANGED <<canvas, lease, groups, batches, txn>>
  <2>1. CASE EnsureCanvas(h)
    BY <2>1 DEF EnsureCanvas
  <2>2. CASE Preflight(h) \/ Decline(h) \/ ImportSubmit(h) \/ Export(h) \/ AssetSubmit(h) \/ OpenNext(h)
    BY <2>2 DEF Preflight, Decline, ImportSubmit, Export, AssetSubmit, OpenNext
  <2>3. CASE Navigate(h) \/ Review(h) \/ Show(h) \/ ConfirmSubmit(h) \/ Check(h) \/ Discard(h)
    BY <2>3 DEF Navigate, Review, Show, ConfirmSubmit, Check, Discard
  <2>4. CASE Stores(h)
    BY <2>4 DEF Stores, Acquire, CreateGroup, StoreBatch, Abandon
  <2> QED BY <1>1, <2>1, <2>2, <2>3, <2>4 DEF Step, Stores
<1>2. ASSUME NEW h \in Handlers, NEW press \in Presses, Press(h, press)
      PROVE  UNCHANGED <<canvas, lease, groups, batches, txn>>
  BY <1>2 DEF Press
<1>3. ASSUME NEW h \in Handlers, Command(h) PROVE UNCHANGED <<canvas, lease, groups, batches, txn>>
  BY <1>3 DEF Command
<1>4. CASE Close
  BY <1>4 DEF Close
<1>5. CASE LeaseChanges
  BY <1>5 DEF LeaseChanges
<1>6. CASE Collect \/ Restart
  BY <1>6 DEF Collect, Restart
<1>7. CASE UNCHANGED vars
  BY <1>7 DEF vars
<1> QED BY <1>1, <1>2, <1>3, <1>4, <1>5, <1>6, <1>7 DEF Next

LEMMA SessionInit == Init => SessionInv
BY DEF Init, SessionInv, Idle

LEMMA SessionStep == TypeOK /\ SessionInv /\ [Next]_vars => SessionInv'
<1> SUFFICES ASSUME TypeOK, SessionInv, [Next]_vars PROVE SessionInv'
  OBVIOUS
<1>1. CASE Quiet /\ UNCHANGED <<txn, groups>>
  BY <1>1 DEF SessionInv, Wrote, Quiet
<1>2. ASSUME NEW h \in Handlers, txn.by \in {"nobody", h}
      PROVE  \A g \in Handlers \ {h} : at[g].pc \notin {"group", "store", "commit"}
  BY <1>2, WizardAssumption DEF SessionInv
<1>3. ASSUME NEW h \in Handlers, txn.by \in {"nobody", "dropped", h},
             Quiet, at'[h].pc \notin {"group", "store", "commit"}, txn'.by = "nobody" => txn' = NoTxn
      PROVE  SessionInv'
  BY <1>3, WizardAssumption DEF SessionInv, Quiet
<1>4. ASSUME NEW h \in Handlers, NEW pc \in {"group", "store", "commit"}, txn.by \in {"nobody", h},
             Goto(h, pc), txn'.by = h, txn'.lease, Wrote(pc)'
      PROVE  SessionInv'
  <2>1. at'[h].pc = pc /\ \A g \in Handlers \ {h} : at'[g] = at[g]
    BY <1>4, GotoQuiet
  <2>2. \A g \in Handlers \ {h} : at'[g].pc \notin {"group", "store", "commit"}
    BY <1>2, <1>4, <2>1
  <2>3. txn'.by # "nobody"
    BY <1>4, WizardAssumption
  <2> QED BY <1>4, <2>1, <2>2, <2>3 DEF SessionInv
<1>5. ASSUME NEW h \in Handlers, Acquire(h) PROVE SessionInv'
  <2>1. CASE txn.by = "nobody" /\ txn' = [txn EXCEPT !.by = h, !.lease = TRUE] /\ Goto(h, "group")
    <3>1. /\ txn'.by = h /\ txn'.lease /\ txn'.groups = {} /\ txn'.batches = <<>>
      BY <2>1 DEF SessionInv, NoTxn
    <3> QED BY <1>4, <2>1, <3>1 DEF Wrote
  <2>2. CASE txn.by = "nobody" /\ Drop(h)
    <3>1. txn'.by = "dropped"
      BY <2>2 DEF Drop, TypeOK, Sessions
    <3> QED BY <1>3, <2>2, <3>1, ReturnQuiet DEF Drop
  <2>3. CASE Return(h) /\ UNCHANGED txn
    <3>1. UNCHANGED groups
      BY <1>5 DEF Acquire
    <3> QED BY <1>1, <2>3, <3>1, ReturnQuiet
  <2> QED BY <1>5, <2>1, <2>2, <2>3 DEF Acquire
<1>6. ASSUME NEW h \in Handlers, CreateGroup(h) PROVE SessionInv'
  <2>1. txn.by = h /\ txn.lease /\ txn.groups = {} /\ txn.batches = <<>>
    BY <1>6 DEF CreateGroup, SessionInv, Wrote
  <2>2. /\ txn'.by = h /\ txn'.lease /\ txn'.groups = {draft.title} /\ txn'.batches = <<>>
        /\ draft.title \in (Titles \cup {NoTitle}) \ groups /\ groups' = groups
    BY <1>6, <2>1, DraftFields DEF CreateGroup, TypeOK, Sessions
  <2> QED BY <1>4, <1>6, <2>1, <2>2 DEF CreateGroup, Wrote
<1>7. ASSUME NEW h \in Handlers, StoreBatch(h) PROVE SessionInv'
  <2>1. txn.by = h /\ txn.lease /\ Wrote("store")
    BY <1>7 DEF StoreBatch, SessionInv
  <2>2. PICK group \in (Titles \cup {NoTitle}) \ groups : txn.groups = {group} /\ txn.batches = <<>>
    BY <2>1 DEF Wrote
  <2> DEFINE batch == [group |-> group, title |-> draft.title, incl |-> draft.incl]
  <2>3. batch \in Batches /\ batch.group = group
    BY <2>2, DraftFields DEF Batches
  <2>4. txn' = [txn EXCEPT !.batches = Append(@, batch)]
    BY <1>7, <2>2 DEF StoreBatch
  <2> HIDE DEF batch
  <2>5. /\ txn'.by = h /\ txn'.lease /\ txn'.groups = {group}
        /\ txn'.batches = Append(txn.batches, batch) /\ groups' = groups
    BY <1>7, <2>1, <2>2, <2>4 DEF StoreBatch, TypeOK, Sessions
  <2>6. txn'.batches = <<batch>>
    BY <2>2, <2>5
  <2>7. Wrote("commit")'
    BY <2>2, <2>3, <2>5, <2>6 DEF Wrote
  <2> QED BY <1>4, <1>7, <2>1, <2>5, <2>7 DEF StoreBatch
<1>8. ASSUME NEW h \in Handlers, Commit(h) \/ Abandon(h) PROVE SessionInv'
  <2>1. txn.by = h
    BY <1>8 DEF Commit, Abandon, SessionInv
  <2>2. CASE Commit(h)
    <3>1. txn' = NoTxn /\ (Goto(h, "discard") \/ Return(h))
      BY <2>2 DEF Commit
    <3> QED BY <1>3, <2>1, <3>1, GotoQuiet, ReturnQuiet
  <2>3. CASE Abandon(h)
    <3>1. txn'.by = "dropped" /\ Return(h)
      BY <2>3 DEF Abandon, Drop, TypeOK, Sessions
    <3> QED BY <1>3, <2>1, <3>1, ReturnQuiet
  <2> QED BY <1>8, <2>2, <2>3
<1>9. CASE Collect \/ Restart
  <2>1. \A h \in Handlers : at'[h].pc \notin {"group", "store", "commit"}
    BY <1>9, WizardAssumption DEF Collect, Restart, Idle, SessionInv
  <2>2. txn' = NoTxn
    BY <1>9 DEF Collect, Restart
  <2> QED BY <2>1, <2>2 DEF SessionInv
<1> QED BY <1>1, <1>5, <1>6, <1>7, <1>8, <1>9, QuietStep, ChannelSteps DEF Stores

(* What a commit stores.                                                    *)
LEMMA CommitStores ==
  ASSUME TypeOK, SessionInv, NEW h \in Handlers, Commit(h)
  PROVE  \E batch \in Batches :
           /\ txn.groups = {batch.group} /\ txn.batches = <<batch>>
           /\ batches' = Append(batches, batch)
           /\ Len(batches') = Len(batches) + 1 /\ Len(batches) \in Nat
           /\ batches'[Len(batches) + 1] = batch
           /\ \A i \in 1..Len(batches) : batches'[i] = batches[i]
           /\ batch.group \notin groups /\ groups' = groups \cup {batch.group}
           /\ lease' = "mine"
<1>1. txn.lease /\ Wrote("commit")
  BY DEF Commit, SessionInv
<1>2. PICK batch \in Batches : batch.group \notin groups /\ txn.groups = {batch.group} /\ txn.batches = <<batch>>
  BY <1>1 DEF Wrote
<1>3. batches' = batches \o <<batch>> /\ groups' = groups \cup {batch.group} /\ lease' = "mine"
  BY <1>1, <1>2 DEF Commit
<1>4. batches \in Seq(Batches)
  BY DEF TypeOK
<1>5. batches' = Append(batches, batch)
  BY <1>3, <1>4, AppendIsConcat
<1> QED BY <1>2, <1>3, <1>4, <1>5, AppendProperties, LenProperties

(* ConfirmedAsAWhole: the lease, the title and the batch come together.     *)
THEOREM StoredAsAWhole == Spec => ConfirmedAsAWhole
<1> DEFINE Whole == groups' # groups \/ batches' # batches \/ (lease # "mine" /\ lease' = "mine") =>
                      LET batch == batches'[Len(batches')] IN
                        /\ lease' = "mine"
                        /\ Len(batches') = Len(batches) + 1 /\ batches' = Append(batches, batch)
                        /\ batch.group \notin groups /\ groups' = groups \cup {batch.group}
<1>1. TypeOK /\ SessionInv /\ [Next]_vars => Whole
  <2> SUFFICES ASSUME TypeOK, SessionInv, [Next]_vars,
                      groups' # groups \/ batches' # batches \/ (lease # "mine" /\ lease' = "mine")
      PROVE  LET batch == batches'[Len(batches')] IN
               /\ lease' = "mine"
               /\ Len(batches') = Len(batches) + 1 /\ batches' = Append(batches, batch)
               /\ batch.group \notin groups /\ groups' = groups \cup {batch.group}
    OBVIOUS
  <2>1. PICK h \in Handlers : Commit(h)
    BY ChannelSteps DEF LeaseChanges
  <2>2. PICK batch \in Batches :
          /\ batches' = Append(batches, batch)
          /\ Len(batches') = Len(batches) + 1
          /\ batches'[Len(batches) + 1] = batch
          /\ batch.group \notin groups /\ groups' = groups \cup {batch.group}
          /\ lease' = "mine"
    BY <2>1, CommitStores
  <2> QED BY <2>2
<1> QED BY <1>1, TypeInit, TypeStep, SessionInit, SessionStep, PTL DEF Spec, ConfirmedAsAWhole

-----------------------------------------------------------------------------

(* Why nothing is confirmed twice, and nothing after a decline.  While no   *)
(* press overlaps and no answer is lost, one handler runs at a time, and    *)
(* the modal is closed from the submission of the confirmation on.          *)
Busy(h) == at[h].pc # "idle"

TitlesTaken ==
  /\ \A i \in 1..Len(batches) : batches[i].group \in groups
  /\ \A i, j \in 1..Len(batches) : batches[i].group = batches[j].group => i = j

Confirming == {"check", "confirm", "group", "store", "commit", "discard"}

OneAtATime ==
  /\ \A g, h \in Handlers : Busy(g) /\ Busy(h) => g = h
  /\ \A h \in Handlers : at[h].pc \in Confirming => screen.kind = "closed"
  /\ \A h \in Handlers : at[h].pc \in {"confirm", "group", "store", "commit"} => inBook
  /\ batches # <<>> =>
       /\ screen.kind = "closed"
       /\ \A h \in Handlers : at[h].pc \in {"idle", "discard"}
  /\ Len(batches) <= 1

SoloInv ==
  /\ screen.kind = "none" => \A h \in Handlers : ~Busy(h)
  /\ \A h \in Handlers : at[h].pc = "show" => at[h].next.kind # "none"
  /\ disturbed = 0 => OneAtATime

(* One handler takes a step ...                                             *)
OthersStay(h) == \A g \in Handlers \ {h} : at'[g].pc = at[g].pc /\ at'[g].next = at[g].next

(* ... that does not confirm.                                               *)
Moved(h) ==
  /\ OthersStay(h)
  /\ at'[h].pc \notin Confirming
  /\ at'[h].pc = "show" => at'[h].next.kind # "none"

ScreenStays == screen' = screen \/ (screen.kind # "closed" /\ screen'.kind # "none")

LEMMA ReturnMoves ==
  ASSUME TypeOK, NEW h \in Handlers, Return(h)
  PROVE  Moved(h) /\ at'[h].pc = "idle"
BY DEF Return, Moved, OthersStay, Idle, Confirming, TypeOK

LEMMA SetMoves ==
  ASSUME TypeOK, NEW h \in Handlers, NEW pc \in Places \ (Confirming \cup {"show"}),
         NEW state, state.pc = pc, at' = [at EXCEPT ![h] = state]
  PROVE  Moved(h)
BY DEF Moved, OthersStay, Confirming, TypeOK

LEMMA ReadyMoves ==
  ASSUME TypeOK, NEW h \in Handlers, NEW view \in Views, view.kind # "none", Ready(h, view)
  PROVE  Moved(h)
<1>1. [On(h, "show") EXCEPT !.next = view].pc = "show" /\ [On(h, "show") EXCEPT !.next = view].next = view
  BY DEF On, Idle
<1> QED BY <1>1 DEF Ready, Moved, OthersStay, Confirming, TypeOK

LEMMA ReplaceStays ==
  ASSUME TypeOK, NEW h \in Handlers, NEW view, NEW state, Replace(h, view, state)
  PROVE  screen' = view /\ OthersStay(h) /\ at'[h] = state
<1>1. \A g \in Handlers \ {h} : at'[g] = [at[g] EXCEPT !.fresh = FALSE]
  BY DEF Replace
<1>2. \A g \in Handlers : [at[g] EXCEPT !.fresh = FALSE].pc = at[g].pc /\ [at[g] EXCEPT !.fresh = FALSE].next = at[g].next
  BY DEF TypeOK, HandlerStates
<1> QED BY <1>1, <1>2 DEF Replace, OthersStay

LEMMA AckMoves ==
  ASSUME TypeOK, NEW h \in Handlers, NEW view, NEW state, Ack(h, view, state), view.kind # "none",
         state.pc \notin Confirming, state.pc = "show" => state.next.kind # "none"
  PROVE  Moved(h) /\ ScreenStays /\ disturbed' \in {disturbed, disturbed + 1}
<1>1. CASE screen.kind # "closed" /\ Replace(h, view, state) /\ UNCHANGED disturbed
  BY <1>1, ReplaceStays DEF Moved, ScreenStays
<1>2. CASE /\ at' = [at EXCEPT ![h] = state] /\ UNCHANGED screen
           /\ UNCHANGED disturbed \/ Disturb
  BY <1>2 DEF Disturb, Moved, OthersStay, ScreenStays, TypeOK
<1> QED BY <1>1, <1>2 DEF Ack

LEMMA ImportOrAskMoves ==
  ASSUME TypeOK, NEW h \in Handlers, ImportOrAsk(h)
  PROVE  Moved(h)
<1>1. Bare("import") \in Views /\ Bare("import").kind = "import"
  BY BareType DEF Kinds, Bare
<1>2. On(h, "export").pc = "export" /\ "export" \in Places \ (Confirming \cup {"show"})
  BY DEF On, Idle, Places, Confirming
<1> QED BY <1>1, <1>2, ReadyMoves, SetMoves DEF ImportOrAsk

LEMMA SoloInit == Init => SoloInv /\ TitlesTaken
<1> SUFFICES ASSUME Init PROVE SoloInv /\ TitlesTaken
  OBVIOUS
<1>1. batches = <<>> /\ screen = Bare("none") /\ \A h \in Handlers : at[h].pc = "idle"
  BY DEF Init, Idle
<1>2. Len(batches) = 0
  BY <1>1
<1> QED BY <1>1, <1>2 DEF SoloInv, OneAtATime, TitlesTaken, Busy, Confirming, Bare

LEMMA SoloMoved ==
  ASSUME TypeOK, SoloInv, NEW h \in Handlers, Busy(h), Moved(h), ScreenStays,
         disturbed' \in {disturbed, disturbed + 1}, batches' = batches,
         at[h].pc = "discard" => at'[h].pc = "idle"
  PROVE  SoloInv'
<1>1. screen.kind # "none" /\ screen'.kind # "none"
  BY DEF SoloInv, ScreenStays
<1>2. \A g \in Handlers : at'[g].pc = "show" => at'[g].next.kind # "none"
  BY DEF SoloInv, Moved, OthersStay
<1>3. ASSUME disturbed' = 0 PROVE OneAtATime'
  <2>1. OneAtATime
    BY <1>3 DEF SoloInv, TypeOK
  <2>2. \A g \in Handlers \ {h} : at[g].pc = "idle" /\ at'[g].pc = "idle"
    BY <2>1 DEF OneAtATime, Busy, Moved, OthersStay
  <2>3. batches # <<>> => screen.kind = "closed" /\ at[h].pc = "discard"
    BY <2>1 DEF OneAtATime, Busy
  <2>4. batches' # <<>> => screen'.kind = "closed" /\ at'[h].pc = "idle"
    BY <2>3 DEF ScreenStays
  <2> QED BY <2>1, <2>2, <2>4 DEF OneAtATime, Busy, Moved, Confirming
<1> QED BY <1>1, <1>2, <1>3 DEF SoloInv

LEMMA SoloStep == TypeOK /\ SessionInv /\ SoloInv /\ [Next]_vars => SoloInv'
<1> SUFFICES ASSUME TypeOK, SessionInv, SoloInv, [Next]_vars PROVE SoloInv'
  OBVIOUS
<1> USE DEF channelVars
<1>1. ASSUME NEW h \in Handlers, Preflight(h) PROVE SoloInv'
  <2>1. \A kind \in {"blocked", "preflight"} : Bare(kind) \in Views /\ Bare(kind).kind # "none"
    BY BareType DEF Kinds, Bare
  <2>2. ImportOrAsk(h) \/ Ready(h, Bare("blocked")) \/ Ready(h, Bare("preflight"))
    BY <1>1 DEF Preflight
  <2>3. Moved(h)
    BY <2>1, <2>2, ImportOrAskMoves, ReadyMoves
  <2> QED BY <1>1, <2>3, SoloMoved DEF Preflight, Busy, ScreenStays
<1>2. ASSUME NEW h \in Handlers, EnsureCanvas(h) PROVE SoloInv'
  <2>1. Moved(h)
    BY <1>2, ImportOrAskMoves, ReturnMoves DEF EnsureCanvas
  <2> QED BY <1>2, <2>1, SoloMoved DEF EnsureCanvas, Busy, ScreenStays
<1>3. ASSUME NEW h \in Handlers, Decline(h) \/ Abandon(h) \/ Discard(h) PROVE SoloInv'
  <2>1. Moved(h) /\ at'[h].pc = "idle"
    BY <1>3, ReturnMoves DEF Decline, Abandon, Drop, Discard
  <2>2. Busy(h) /\ batches' = batches /\ ScreenStays /\ disturbed' = disturbed
    BY <1>3 DEF Decline, Abandon, Discard, Busy, ScreenStays
  <2> QED BY <2>1, <2>2, SoloMoved
<1>4. ASSUME NEW h \in Handlers, ImportSubmit(h) PROVE SoloInv'
  <2> DEFINE state == IF inBook THEN On(h, "export") ELSE [On(h, "show") EXCEPT !.next = Bare("import")]
  <2>1. /\ state.pc \notin Confirming /\ Bare("working").kind # "none"
        /\ state.pc = "show" => state.next.kind # "none"
    BY DEF On, Idle, Confirming, Bare
  <2>2. Ack(h, Bare("working"), state)
    BY <1>4 DEF ImportSubmit
  <2> HIDE DEF state
  <2>3. Moved(h) /\ ScreenStays /\ disturbed' \in {disturbed, disturbed + 1}
    BY <2>1, <2>2, AckMoves
  <2> QED BY <1>4, <2>3, SoloMoved DEF ImportSubmit, Busy
<1>5. ASSUME NEW h \in Handlers, Export(h) PROVE SoloInv'
  <2>1. Bare("import") \in Views /\ Bare("import").kind # "none"
    BY BareType DEF Kinds, Bare
  <2>2. \A rows \in Exports : Importable(rows) =>
          /\ AssetView(Deduplicated(rows), 0) \in Views
          /\ AssetView(Deduplicated(rows), 0).kind # "none"
    BY ImportedType, AssetViewType DEF AssetView
  <2>3. Moved(h)
    BY <1>5, <2>1, <2>2, ReadyMoves DEF Export
  <2> QED BY <1>5, <2>3, SoloMoved DEF Export, Busy, ScreenStays
<1>6. ASSUME NEW h \in Handlers, AssetSubmit(h) PROVE SoloInv'
  <2>1. CASE inBook
    <3> DEFINE state == [On(h, "open") EXCEPT !.page = draft.page]
    <3>1. state.pc \notin Confirming /\ Bare("working").kind # "none" /\ state.pc # "show"
      BY DEF On, Idle, Confirming, Bare
    <3>2. Ack(h, Bare("working"), state)
      BY <1>6, <2>1 DEF AssetSubmit
    <3> HIDE DEF state
    <3>3. Moved(h) /\ ScreenStays /\ disturbed' \in {disturbed, disturbed + 1}
      BY <3>1, <3>2, AckMoves
    <3> QED BY <1>6, <3>3, SoloMoved DEF AssetSubmit, Busy
  <2>2. CASE ~inBook
    <3>1. Moved(h)
      BY <1>6, <2>2, ReturnMoves DEF AssetSubmit
    <3> QED BY <1>6, <2>2, <3>1, SoloMoved DEF AssetSubmit, Busy, ScreenStays
  <2> QED BY <2>1, <2>2
<1>7. ASSUME NEW h \in Handlers, OpenNext(h) PROVE SoloInv'
  <2>1. at[h].page \in Nat /\ at[h].page + 1 \in Nat
    BY DEF TypeOK, HandlerStates
  <2>2. \A page \in Nat : AssetView(draft.assets, page) \in Views /\ AssetView(draft.assets, page).kind # "none"
    BY DraftFields, AssetViewType DEF AssetView
  <2>3. ConfirmView(draft.incl) \in Views /\ ConfirmView(draft.incl).kind # "none"
    BY DraftFields, ConfirmViewType DEF ConfirmView, Bare
  <2>4. Moved(h)
    BY <1>7, <2>1, <2>2, <2>3, ReadyMoves, ReturnMoves DEF OpenNext
  <2> QED BY <1>7, <2>4, SoloMoved DEF OpenNext, Busy, ScreenStays, Disturb
<1>8. ASSUME NEW h \in Handlers, Navigate(h) PROVE SoloInv'
  <2>1. \A page \in Nat : AssetView(draft.assets, page) \in Views /\ AssetView(draft.assets, page).kind # "none"
    BY DraftFields, AssetViewType DEF AssetView
  <2>2. Return(h) \/ \E page \in Nat : Ready(h, AssetView(draft.assets, page))
    BY <1>8 DEF Navigate
  <2>3. Moved(h)
    BY <2>1, <2>2, ReadyMoves, ReturnMoves
  <2> QED BY <1>8, <2>3, SoloMoved DEF Navigate, Busy, ScreenStays
<1>9. ASSUME NEW h \in Handlers, Review(h) PROVE SoloInv'
  <2>1. draft'.incl \in SUBSET Listed
    BY TypeStep DEF TypeOK, Drafts
  <2>2. ConfirmView(draft'.incl) \in Views /\ ConfirmView(draft'.incl).kind # "none"
    BY <2>1, ConfirmViewType DEF ConfirmView, Bare
  <2>3. Moved(h)
    BY <1>9, <2>2, ReadyMoves, ReturnMoves DEF Review
  <2> QED BY <1>9, <2>3, SoloMoved DEF Review, Busy, ScreenStays
<1>10. ASSUME NEW h \in Handlers, Show(h) PROVE SoloInv'
  <2>1. CASE Return(h) /\ UNCHANGED screen
    <3>1. Moved(h)
      BY <2>1, ReturnMoves
    <3> QED BY <1>10, <2>1, <3>1, SoloMoved DEF Show, Busy, ScreenStays, Disturb
  <2>2. CASE screen.kind # "closed" /\ Replace(h, at[h].next, Idle) /\ UNCHANGED disturbed
    <3>1. screen' = at[h].next /\ OthersStay(h) /\ at'[h] = Idle
      BY <2>2, ReplaceStays
    <3>2. Moved(h) /\ ScreenStays
      BY <1>10, <2>2, <3>1 DEF Moved, ScreenStays, SoloInv, Show, Idle, Confirming
    <3> QED BY <1>10, <2>2, <3>2, SoloMoved DEF Show, Busy
  <2> QED BY <1>10, <2>1, <2>2 DEF Show
<1>11. ASSUME NEW h \in Handlers, ConfirmSubmit(h) PROVE SoloInv'
  <2>1. CASE ~inBook
    <3>1. Moved(h)
      BY <1>11, <2>1, ReturnMoves DEF ConfirmSubmit
    <3> QED BY <1>11, <2>1, <3>1, SoloMoved DEF ConfirmSubmit, Busy, ScreenStays
  <2>2. CASE inBook
    <3> DEFINE state == [at[h] EXCEPT !.pc = "check"]
    <3>1. at[h].pc = "post" /\ batches' = batches /\ inBook' = inBook /\ state.pc = "check"
      BY <1>11 DEF ConfirmSubmit, TypeOK, HandlerStates
    <3>2. /\ OthersStay(h) /\ at'[h] = state
          /\ screen' = Bare("closed") \/ (screen' = screen /\ screen.kind = "closed") \/ (screen' = screen /\ Disturb)
          /\ disturbed' = disturbed \/ Disturb
      <4>1. Ack(h, Bare("closed"), state)
        BY <1>11, <2>2 DEF ConfirmSubmit
      <4>2. CASE Replace(h, Bare("closed"), state) /\ UNCHANGED disturbed
        BY <4>2, ReplaceStays
      <4>3. CASE /\ at' = [at EXCEPT ![h] = state] /\ UNCHANGED screen
                 /\ IF screen.kind = "closed" THEN UNCHANGED disturbed ELSE Disturb
        BY <4>3 DEF OthersStay, TypeOK
      <4> QED BY <4>1, <4>2, <4>3 DEF Ack
    <3> HIDE DEF state
    <3>3. screen.kind # "none" /\ screen'.kind # "none"
      BY <3>1, <3>2 DEF SoloInv, Busy, Bare
    <3>4. ASSUME disturbed' = 0 PROVE OneAtATime'
      <4>1. disturbed = 0 /\ OneAtATime /\ screen'.kind = "closed"
        BY <3>2, <3>4 DEF Disturb, SoloInv, TypeOK, Bare
      <4>2. \A g \in Handlers \ {h} : at[g].pc = "idle" /\ at'[g].pc = "idle"
        BY <3>1, <3>2, <4>1 DEF OneAtATime, Busy, OthersStay
      <4>3. batches = <<>>
        BY <3>1, <4>1 DEF OneAtATime
      <4> QED BY <3>1, <3>2, <4>1, <4>2, <4>3 DEF OneAtATime, Busy, Confirming
    <3> QED BY <3>1, <3>2, <3>3, <3>4 DEF SoloInv, OthersStay
  <2> QED BY <2>1, <2>2
<1>12. ASSUME NEW h \in Handlers, Check(h) PROVE SoloInv'
  <2>1. CASE Return(h)
    <3>1. Moved(h)
      BY <2>1, ReturnMoves
    <3> QED BY <1>12, <3>1, SoloMoved DEF Check, Busy, ScreenStays
  <2>2. CASE Goto(h, "confirm") /\ inBook' = TRUE
    <3>1. at'[h].pc = "confirm" /\ OthersStay(h)
      BY <2>2 DEF Goto, OthersStay, TypeOK, HandlerStates
    <3>2. at[h].pc = "check" /\ UNCHANGED <<screen, disturbed, batches>>
      BY <1>12 DEF Check
    <3> QED BY <2>2, <3>1, <3>2 DEF SoloInv, OneAtATime, Busy, OthersStay, Confirming
  <2> QED BY <1>12, <2>1, <2>2 DEF Check
<1>13. ASSUME NEW h \in Handlers, Commit(h) PROVE SoloInv'
  <2>1. at'[h].pc \in {"idle", "discard"} /\ OthersStay(h)
    BY <1>13 DEF Commit, Goto, Return, Idle, OthersStay, TypeOK, HandlerStates
  <2>2. at[h].pc = "commit" /\ UNCHANGED <<screen, disturbed, inBook>>
    BY <1>13 DEF Commit
  <2>3. Len(batches') = Len(batches) + 1
    BY <1>13, CommitStores
  <2>4. ASSUME disturbed' = 0 PROVE OneAtATime'
    <3>1. OneAtATime /\ batches = <<>> /\ screen.kind = "closed"
      BY <2>2, <2>4 DEF SoloInv, OneAtATime, Confirming
    <3>2. Len(batches') = 1
      BY <2>3, <3>1
    <3>3. \A g \in Handlers \ {h} : at[g].pc = "idle" /\ at'[g].pc = "idle"
      BY <2>1, <2>2, <3>1 DEF OneAtATime, Busy, OthersStay
    <3> QED BY <2>1, <2>2, <3>1, <3>2, <3>3 DEF OneAtATime, Busy, Confirming
  <2>5. screen.kind # "none"
    BY <2>2 DEF SoloInv, Busy
  <2> QED BY <2>1, <2>2, <2>4, <2>5 DEF SoloInv, Busy, OthersStay
<1>19. ASSUME NEW h \in Handlers, Acquire(h) \/ CreateGroup(h) \/ StoreBatch(h) PROVE SoloInv'
  <2>1. at[h].pc \in {"confirm", "group", "store"} /\ UNCHANGED <<screen, batches, disturbed, inBook>>
    BY <1>19 DEF Acquire, CreateGroup, StoreBatch
  <2>2. CASE Return(h)
    <3>1. Moved(h)
      BY <2>2, ReturnMoves
    <3> QED BY <2>1, <3>1, SoloMoved DEF Busy, ScreenStays
  <2>3. ASSUME NEW pc \in {"group", "store", "commit"}, Goto(h, pc) PROVE SoloInv'
    <3>1. at'[h].pc = pc /\ OthersStay(h)
      BY <2>3 DEF Goto, OthersStay, TypeOK, HandlerStates
    <3> QED BY <2>1, <3>1 DEF SoloInv, OneAtATime, Busy, OthersStay, Confirming
  <2>4. Return(h) \/ \E pc \in {"group", "store", "commit"} : Goto(h, pc)
    BY <1>19 DEF Acquire, CreateGroup, StoreBatch, Drop
  <2> QED BY <2>2, <2>3, <2>4
<1>14. ASSUME NEW h \in Handlers, Command(h) PROVE SoloInv'
  <2>1. screen.kind = "none" /\ \A g \in Handlers : at[g].pc = "idle"
    BY <1>14 DEF Command, SoloInv, Busy
  <2>2. CASE Replace(h, Bare("loading"), [Idle EXCEPT !.pc = "preflight"])
    <3>1. screen' = Bare("loading") /\ OthersStay(h) /\ at'[h].pc = "preflight"
      BY <2>2, ReplaceStays DEF Idle
    <3> QED BY <1>14, <2>1, <3>1 DEF Command, SoloInv, OneAtATime, Busy, OthersStay, Confirming, Bare
  <2>3. CASE UNCHANGED <<screen, at>>
    BY <1>14, <2>1, <2>3 DEF Command, SoloInv, OneAtATime, Busy, Confirming
  <2> QED BY <1>14, <2>2, <2>3 DEF Command
<1>15. ASSUME NEW h \in Handlers, NEW press \in Presses, Press(h, press) PROVE SoloInv'
  <2>1. /\ at'[h].pc = press /\ press \notin Confirming /\ press # "show"
        /\ \A g \in Handlers \ {h} : at'[g] = at[g]
    BY <1>15 DEF Press, Presses, Confirming, TypeOK, Idle
  <2>2. screen.kind \notin {"none", "closed"} /\ UNCHANGED <<screen, batches, inBook>>
    BY <1>15 DEF Press, Buttons
  <2>3. ASSUME disturbed' = 0 PROVE disturbed = 0 /\ \A g \in Handlers : at[g].pc = "idle"
    BY <1>15, <2>3 DEF Press, Disturb, TypeOK
  <2>4. ASSUME disturbed' = 0 PROVE OneAtATime'
    <3>1. OneAtATime /\ batches' = <<>>
      BY <2>2, <2>3, <2>4 DEF SoloInv, OneAtATime
    <3>2. \A g \in Handlers : at'[g].pc \notin Confirming /\ (Busy(g)' => g = h)
      BY <2>1, <2>3, <2>4 DEF Busy, Confirming
    <3> QED BY <2>2, <3>1, <3>2 DEF OneAtATime, Confirming
  <2>5. screen'.kind # "none" /\ \A g \in Handlers : at'[g].pc = "show" => at'[g].next.kind # "none"
    BY <2>1, <2>2 DEF SoloInv
  <2> QED BY <2>4, <2>5 DEF SoloInv
<1>16. CASE Close
  <2>1. \A h \in Handlers : at'[h].pc = at[h].pc /\ at'[h].next = at[h].next
    BY <1>16 DEF Close, TypeOK, HandlerStates
  <2>2. screen' = Bare("closed") /\ UNCHANGED <<disturbed, batches, inBook>>
    BY <1>16 DEF Close
  <2> QED BY <2>1, <2>2 DEF SoloInv, OneAtATime, Busy, Bare
<1>17. CASE Restart
  <2>1. \A h \in Handlers : at'[h].pc = "idle"
    BY <1>17 DEF Restart, Idle
  <2>2. disturbed' # 0
    BY <1>17 DEF Restart, Disturb, TypeOK
  <2> QED BY <2>1, <2>2 DEF SoloInv, Busy
<1>18. CASE Collect \/ LeaseChanges \/ UNCHANGED vars
  BY <1>18 DEF Collect, LeaseChanges, vars, SoloInv, OneAtATime, Busy
<1> QED BY <1>1, <1>2, <1>3, <1>4, <1>5, <1>6, <1>7, <1>8, <1>9, <1>10, <1>11, <1>12, <1>13,
           <1>14, <1>15, <1>16, <1>17, <1>18, <1>19 DEF Next, Step

(* Every title is taken at most once: groups grow with the batches.         *)
LEMMA TitlesStep == TypeOK /\ SessionInv /\ TitlesTaken /\ [Next]_vars => TitlesTaken'
<1> SUFFICES ASSUME TypeOK, SessionInv, TitlesTaken, [Next]_vars PROVE TitlesTaken'
  OBVIOUS
<1>1. CASE UNCHANGED <<groups, batches>>
  BY <1>1 DEF TitlesTaken
<1>2. ASSUME NEW h \in Handlers, Commit(h) PROVE TitlesTaken'
  <2>1. PICK batch \in Batches :
          /\ Len(batches') = Len(batches) + 1 /\ Len(batches) \in Nat
          /\ batches'[Len(batches) + 1] = batch
          /\ \A i \in 1..Len(batches) : batches'[i] = batches[i]
          /\ batch.group \notin groups /\ groups' = groups \cup {batch.group}
    BY <1>2, CommitStores
  <2>2. \A i \in 1..Len(batches') : i = Len(batches) + 1 \/ i \in 1..Len(batches)
    BY <2>1
  <2>3. \A i \in 1..Len(batches) : batches'[i].group \in groups /\ batches'[i].group # batch.group
    BY <2>1 DEF TitlesTaken
  <2> QED BY <2>1, <2>2, <2>3 DEF TitlesTaken
<1>3. (\E h \in Handlers : Commit(h)) \/ UNCHANGED <<groups, batches>>
  BY ChannelSteps DEF LeaseChanges
<1> QED BY <1>1, <1>2, <1>3

(* NotConfirmedTwice, for any number of handlers, exports and disturbances. *)
THEOREM ConfirmedOnce == Spec => []NotConfirmedTwice
<1>1. TypeOK /\ SoloInv /\ TitlesTaken => NotConfirmedTwice
  BY LenProperties DEF NotConfirmedTwice, SoloInv, OneAtATime, TitlesTaken, TypeOK
<1> QED BY <1>1, TypeInit, TypeStep, SessionInit, SessionStep, SoloInit, SoloStep, TitlesStep, PTL DEF Spec

(* DeclineStops: without the draft, the canvas and the batches stay.        *)
THEOREM NothingAfterDecline == Spec => DeclineStops
<1> DEFINE Stays == ~inBook /\ disturbed = 0 => UNCHANGED <<canvas, batches>>
<1>1. TypeOK /\ SoloInv /\ [Next]_vars => Stays
  <2> SUFFICES ASSUME SoloInv, [Next]_vars, ~inBook, disturbed = 0
               PROVE  UNCHANGED <<canvas, batches>>
    OBVIOUS
  <2>1. \A h \in Handlers : ~Commit(h)
    BY DEF SoloInv, OneAtATime, Commit
  <2>2. \A h \in Handlers : ~EnsureCanvas(h) \/ UNCHANGED canvas
    BY DEF EnsureCanvas
  <2> QED BY <2>1, <2>2, ChannelSteps
<1> QED BY <1>1, TypeInit, TypeStep, SessionInit, SessionStep, SoloInit, SoloStep, PTL DEF Spec, DeclineStops

-----------------------------------------------------------------------------

(* An import is a sequence.                                                 *)
LEMMA ListsAreSequences ==
  ASSUME NEW list \in ImportedLists
  PROVE  list \in Seq(ToSet(list))
<1>1. CASE list = <<>>
  BY <1>1
<1>2. ASSUME NEW rows \in Exports, list = Deduplicated(rows) PROVE list \in Seq(ToSet(list))
  <2> DEFINE first == FirstRows(rows)
             n == Cardinality(first)
             row(k) == rows[CHOOSE i \in first : Cardinality(first \cap 1..i) = k]
  <2>1. rows \in Seq(Assets)
    BY WizardAssumption
  <2>2. DOMAIN rows = 1..Len(rows) /\ Len(rows) \in Nat
    BY <2>1, LenProperties
  <2>3. IsFiniteSet(first)
    <3>1. IsFiniteSet(1..Len(rows))
      BY <2>2, FS_Interval
    <3> QED BY <2>2, <3>1, FS_Subset DEF FirstRows
  <2>4. n \in Nat
    BY <2>3, FS_CardinalityType
  <2>5. list = [k \in 1..n |-> row(k)]
    BY <1>2 DEF Deduplicated
  <2> HIDE DEF n, row
  <2>6. DOMAIN list = 1..n /\ \A k \in 1..n : list[k] \in ToSet(list)
    BY <2>5 DEF ToSet
  <2>7. list \in [1..n -> ToSet(list)]
    BY <2>5, <2>6
  <2> QED BY <2>4, <2>7
<1> QED BY <1>1, <1>2 DEF ImportedLists

(* The first n pages of a list have been shown.                             *)
Covered(list, n, shown) == \A i \in DOMAIN list : i <= n * PageSize => list[i] \in shown

LEMMA CoveredPages ==
  ASSUME NEW list \in ImportedLists, NEW n \in Nat, NEW shown
  PROVE  /\ PageCount(list) \in Nat
         /\ Covered(list, 0, shown)
         /\ Covered(list, n, shown) => Covered(list, n + 1, shown \cup PageAssets(list, n))
         /\ Covered(list, n + 1, shown) => Covered(list, n, shown)
         /\ Covered(list, n + 1, shown) /\ n + 1 >= PageCount(list) => ToSet(list) \subseteq shown
<1>1. list \in Seq(ToSet(list))
  BY ListsAreSequences
<1>2. DOMAIN list = 1..Len(list) /\ Len(list) \in Nat
  BY <1>1, LenProperties
<1>3. PageSize \in Nat /\ PageSize > 0 /\ n * PageSize \in Nat /\ (n + 1) * PageSize = n * PageSize + PageSize
  BY WizardAssumption
<1>4. Covered(list, 0, shown)
  BY <1>2, <1>3 DEF Covered
<1>5. ASSUME Covered(list, n, shown) PROVE Covered(list, n + 1, shown \cup PageAssets(list, n))
  <2> SUFFICES ASSUME NEW i \in DOMAIN list, i <= (n + 1) * PageSize PROVE list[i] \in shown \cup PageAssets(list, n)
    BY DEF Covered
  <2>1. CASE i <= n * PageSize
    BY <1>5, <2>1 DEF Covered
  <2>2. CASE i > n * PageSize
    <3>1. i \in (n * PageSize + 1)..((n + 1) * PageSize)
      BY <1>2, <1>3, <2>2
    <3> QED BY <3>1 DEF PageAssets
  <2> QED BY <1>2, <1>3, <2>1, <2>2
<1>6. ASSUME Covered(list, n + 1, shown) PROVE Covered(list, n, shown)
  BY <1>2, <1>3, <1>6 DEF Covered
<1>7. ASSUME Covered(list, n + 1, shown), n + 1 >= PageCount(list) PROVE ToSet(list) \subseteq shown
  <2>1. Len(list) <= (n + 1) * PageSize
    <3>1. CASE Len(list) <= PageSize
      BY <1>2, <1>3, <3>1
    <3>2. CASE Len(list) > PageSize
      <4> DEFINE m == Len(list) + PageSize - 1
                 q == m \div PageSize
                 r == m % PageSize
      <4>1. m \in Nat /\ n + 1 >= q
        BY <1>2, <1>3, <1>7, <3>2 DEF PageCount
      <4> HIDE DEF m
      <4>2. q \in Nat /\ r \in 0..(PageSize - 1) /\ m = PageSize * q + r
        BY <1>3, <4>1
      <4> HIDE DEF q, r
      <4>3. PageSize * q <= (n + 1) * PageSize
        BY <1>3, <4>1, <4>2
      <4> QED BY <1>2, <1>3, <4>2, <4>3 DEF m
    <3> QED BY <1>2, <1>3, <3>1, <3>2
  <2>2. \A i \in DOMAIN list : i <= (n + 1) * PageSize
    BY <1>2, <1>3, <2>1
  <2> QED BY <1>7, <2>2 DEF Covered, ToSet
<1>8. PageCount(list) \in Nat
  <2> DEFINE m == Len(list) + PageSize - 1
  <2>1. m \in Nat
    BY <1>2, <1>3
  <2> HIDE DEF m
  <2>2. m \div PageSize \in Nat
    BY <1>3, <2>1
  <2> QED BY <2>2 DEF PageCount, m
<1> QED BY <1>4, <1>5, <1>6, <1>7, <1>8

-----------------------------------------------------------------------------

(* Why what is posted was reviewed.  While no press overlaps and no answer  *)
(* is lost, the page on the screen is the one the draft says is open, all   *)
(* pages up to it have been shown, and the confirmation on the screen, or   *)
(* sent by it, counts the assets that the draft includes.                   *)
AllSeen == ToSet(draft.assets) \subseteq seen

PageOpen ==
  /\ screen = AssetView(draft.assets, draft.page)
  /\ Covered(draft.assets, draft.page + 1, seen)

OnScreen ==
  /\ screen.kind = "asset" => PageOpen
  /\ screen.kind = "confirm" => screen.lists = draft.incl /\ AllSeen

(* No page is on the screen while a handler is at these places.             *)
OffPage == {"preflight", "create", "rename", "decline", "import", "export", "discard", "open",
            "check", "confirm", "group", "store", "commit"}

Reviewing(h) ==
  /\ at[h].press \in ByHash /\ ~at[h].fresh => screen.kind = "closed"
  /\ at[h].pc \in OffPage => screen.kind \notin {"asset", "confirm"}
  /\ at[h].pc \in {"submit", "next", "back", "review"} =>
       Covered(draft.assets, draft.page + 1, seen) /\ (screen.kind = "closed" \/ PageOpen)
  /\ at[h].pc = "review" => draft.page + 1 >= PageCount(draft.assets)
  /\ at[h].pc = "open" => Covered(draft.assets, draft.page + 1, seen) /\ at[h].page = draft.page
  /\ at[h].pc = "show" /\ at[h].next.kind = "asset" =>
       at[h].next = AssetView(draft.assets, draft.page) /\ Covered(draft.assets, draft.page, seen)
  /\ at[h].pc = "show" /\ at[h].next.kind = "confirm" => at[h].next.lists = draft.incl /\ AllSeen
  /\ at[h].pc = "post" => OnScreen /\ screen.kind \in {"confirm", "closed"}
  /\ at[h].pc \in {"post", "check", "confirm", "group", "store", "commit"} =>
       at[h].incl = draft.incl /\ AllSeen
  /\ at[h].pc \in {"check", "confirm", "group", "store", "commit"} /\ at[h].title # NoTitle =>
       draft.title = at[h].title
  /\ at[h].pc \in {"store", "commit"} => txn.groups = {draft.title}
  /\ at[h].pc = "commit" =>
       txn.batches = <<[group |-> draft.title, title |-> draft.title, incl |-> draft.incl]>>

ReviewInv ==
  disturbed = 0 =>
    /\ \A h \in Handlers : Busy(h) => Reviewing(h)
    /\ (\A h \in Handlers : ~Busy(h)) => OnScreen

(* The handler h takes its turn, and the others wait.                       *)
Turns(h) ==
  /\ OthersStay(h)
  /\ Busy(h)' => Reviewing(h)'
  /\ ~Busy(h)' => OnScreen'

LEMMA TurnsReview ==
  ASSUME TypeOK, SoloInv, NEW h \in Handlers, disturbed' = 0 => disturbed = 0,
         Busy(h) \/ \A g \in Handlers : ~Busy(g),
         disturbed' = 0 => Turns(h)
  PROVE  ReviewInv'
<1> SUFFICES ASSUME disturbed' = 0
    PROVE  /\ \A g \in Handlers : Busy(g)' => Reviewing(g)'
           /\ (\A g \in Handlers : ~Busy(g)') => OnScreen'
  BY DEF ReviewInv
<1>1. \A g \in Handlers \ {h} : ~Busy(g)'
  BY DEF SoloInv, OneAtATime, Busy, Turns, OthersStay
<1> QED BY <1>1 DEF Turns

(* What is known of a handler that takes its turn.                          *)
LEMMA TurnOf ==
  ASSUME TypeOK, SoloInv, ReviewInv, NEW h \in Handlers, Busy(h), disturbed = 0
  PROVE  /\ Reviewing(h)
         /\ draft.assets \in ImportedLists /\ draft.page \in Nat
         /\ at[h] \in HandlerStates
         /\ at[h].pc \in Confirming => screen.kind = "closed"
BY DraftFields DEF ReviewInv, SoloInv, OneAtATime, TypeOK

(* The handler returns.                                                     *)
LEMMA ReturnTurns ==
  ASSUME TypeOK, NEW h \in Handlers, Return(h), OnScreen'
  PROVE  Turns(h)
BY ReturnMoves DEF Turns, Moved, Busy

(* The handler has its next view ready.                                     *)
LEMMA ReadyTurns ==
  ASSUME TypeOK, NEW h \in Handlers, Reviewing(h), NEW view \in Views, view.kind # "none",
         Ready(h, view), screen' = screen,
         view.kind = "asset" => /\ view = AssetView(draft'.assets, draft'.page)
                                /\ Covered(draft'.assets, draft'.page, seen'),
         view.kind = "confirm" => view.lists = draft'.incl /\ AllSeen'
  PROVE  Turns(h)
<1> DEFINE state == [On(h, "show") EXCEPT !.next = view]
<1>1. /\ state.pc = "show" /\ state.next = view /\ state.press = at[h].press /\ state.fresh = at[h].fresh
  BY DEF On, Idle
<1>2. at'[h] = state
  BY DEF Ready, TypeOK
<1> HIDE DEF state
<1>3. OthersStay(h) /\ at'[h].pc = "show" /\ at'[h].next = view
  BY <1>1, <1>2, ReadyMoves DEF Moved
<1>4. at'[h].press \in ByHash /\ ~at'[h].fresh => screen'.kind = "closed"
  BY <1>1, <1>2 DEF Reviewing
<1> QED BY <1>3, <1>4 DEF Turns, Reviewing, Busy, OffPage

(* The import starts, or is asked for.                                      *)
LEMMA ImportOrAskTurns ==
  ASSUME TypeOK, NEW h \in Handlers, Reviewing(h), ImportOrAsk(h), screen' = screen,
         at[h].pc \in OffPage
  PROVE  Turns(h)
<1>1. CASE at' = [at EXCEPT ![h] = On(h, "export")]
  <2>1. /\ On(h, "export").pc = "export" /\ On(h, "export").press = at[h].press
        /\ On(h, "export").fresh = at[h].fresh
    BY DEF On, Idle
  <2>2. at'[h] = On(h, "export")
    BY <1>1 DEF TypeOK
  <2>3. OthersStay(h)
    BY <1>1 DEF OthersStay, TypeOK
  <2>4. at'[h].pc = "export" /\ at'[h].press = at[h].press /\ at'[h].fresh = at[h].fresh
    BY <2>1, <2>2
  <2> QED BY <2>3, <2>4 DEF Turns, Reviewing, Busy, OffPage
<1>2. CASE Ready(h, Bare("import"))
  <2>1. Bare("import") \in Views /\ Bare("import").kind = "import"
    BY BareType DEF Kinds, Bare
  <2> QED BY <1>2, <2>1, ReadyTurns
<1> QED BY <1>1, <1>2 DEF ImportOrAsk

(* The submission is answered without a disturbance: the view it came from  *)
(* is gone.                                                                 *)
LEMMA AckTurns ==
  ASSUME TypeOK, NEW h \in Handlers, NEW kind \in Kinds \ {"asset", "confirm"}, NEW state,
         Ack(h, Bare(kind), state), disturbed' = 0
  PROVE  /\ OthersStay(h) /\ at'[h] = state
         /\ disturbed = 0 /\ screen'.kind \in {kind, "closed"}
         /\ screen'.kind = "closed" \/ screen.kind # "closed"
<1>1. Bare(kind).kind = kind
  BY DEF Bare
<1>2. CASE screen.kind # "closed" /\ Replace(h, Bare(kind), state) /\ UNCHANGED disturbed
  BY <1>1, <1>2, ReplaceStays
<1>3. CASE /\ at' = [at EXCEPT ![h] = state] /\ UNCHANGED screen
           /\ IF screen.kind = "closed" THEN UNCHANGED disturbed ELSE Disturb
  <2>1. ~Disturb
    BY DEF Disturb, TypeOK
  <2> QED BY <1>3, <2>1 DEF OthersStay, TypeOK
<1> QED BY <1>2, <1>3 DEF Ack

(* What saving a page leaves of the draft.                                  *)
LEMMA SavedKeeps ==
  ASSUME TypeOK, NEW h \in Handlers, NEW page
  PROVE  Saved(h, page).assets = draft.assets /\ Saved(h, page).page = page
BY DEF Saved, TypeOK, Drafts

(* The turns that lead to the pages.                                        *)
LEMMA TurnsToPages ==
  ASSUME TypeOK, SoloInv, ReviewInv, NEW h \in Handlers,
         Preflight(h) \/ EnsureCanvas(h) \/ Decline(h) \/ ImportSubmit(h) \/ Export(h)
  PROVE  ReviewInv'
<1> USE DEF channelVars
<1>1. Busy(h) /\ (disturbed' = 0 => disturbed = 0)
  BY DEF Preflight, EnsureCanvas, Decline, ImportSubmit, Export, Ack, Disturb, Busy, TypeOK
<1> SUFFICES ASSUME disturbed' = 0, disturbed = 0 PROVE Turns(h)
  BY <1>1, TurnsReview
<1>2. Reviewing(h) /\ draft.assets \in ImportedLists
  BY <1>1, TurnOf
<1>3. \A kind \in {"blocked", "preflight", "import"} : Bare(kind) \in Views /\ Bare(kind).kind = kind
  BY BareType DEF Kinds, Bare
<1>4. CASE Preflight(h)
  <2>1. ImportOrAsk(h) \/ Ready(h, Bare("blocked")) \/ Ready(h, Bare("preflight"))
    BY <1>4 DEF Preflight
  <2>2. screen' = screen /\ at[h].pc \in OffPage
    BY <1>4 DEF Preflight, OffPage
  <2> QED BY <1>2, <1>3, <2>1, <2>2, ImportOrAskTurns, ReadyTurns
<1>5. CASE EnsureCanvas(h)
  <2>1. screen' = screen /\ at[h].pc \in OffPage
    BY <1>5 DEF EnsureCanvas, OffPage
  <2>2. OnScreen'
    BY <1>2, <2>1 DEF Reviewing, OnScreen
  <2> QED BY <1>2, <1>5, <2>1, <2>2, ImportOrAskTurns, ReturnTurns DEF EnsureCanvas
<1>6. CASE Decline(h)
  <2>1. OnScreen'
    BY <1>2, <1>6 DEF Reviewing, OnScreen, Decline, OffPage
  <2> QED BY <1>6, <2>1, ReturnTurns DEF Decline
<1>7. CASE ImportSubmit(h)
  <2> DEFINE state == IF inBook THEN On(h, "export") ELSE [On(h, "show") EXCEPT !.next = Bare("import")]
  <2>1. /\ state.press = at[h].press /\ state.fresh = at[h].fresh
        /\ state.pc = "export" \/ (state.pc = "show" /\ state.next = Bare("import"))
    BY DEF On, Idle
  <2>2. Ack(h, Bare("working"), state)
    BY <1>7 DEF ImportSubmit
  <2> HIDE DEF state
  <2>3. /\ OthersStay(h) /\ at'[h] = state /\ screen'.kind \in {"working", "closed"}
        /\ screen'.kind = "closed" \/ screen.kind # "closed"
    BY <2>2, AckTurns DEF Kinds
  <2> QED BY <1>2, <1>3, <2>1, <2>3 DEF Turns, Reviewing, Busy, OffPage
<1>8. CASE Export(h)
  <2>1. CASE Ready(h, Bare("import"))
    BY <1>2, <1>3, <1>8, <2>1, ReadyTurns DEF Export
  <2>2. ASSUME NEW rows \in Exports, Importable(rows), draft' = [Imported(rows) EXCEPT !.members = TRUE],
               Ready(h, AssetView(Deduplicated(rows), 0))
        PROVE  Turns(h)
    <3> DEFINE assets == Deduplicated(rows)
    <3>1. assets \in ImportedLists
      BY <2>2, ImportedType
    <3>2. draft'.assets = assets /\ draft'.page = 0
      BY <2>2 DEF Imported, TypeOK, Drafts
    <3>3. AssetView(assets, 0) \in Views /\ AssetView(assets, 0).kind = "asset"
      BY <3>1, AssetViewType DEF AssetView
    <3>4. Covered(assets, 0, seen')
      BY <3>1, CoveredPages
    <3>5. screen' = screen /\ Ready(h, AssetView(assets, 0))
      BY <1>8, <2>2 DEF Export
    <3> HIDE DEF assets
    <3> QED BY <1>2, <3>2, <3>3, <3>4, <3>5, ReadyTurns
  <2> QED BY <1>8, <2>1, <2>2 DEF Export
<1> QED BY <1>4, <1>5, <1>6, <1>7, <1>8

(* The turns from page to page, and to the confirmation.                    *)
LEMMA TurnsOfPages ==
  ASSUME TypeOK, SoloInv, ReviewInv, NEW h \in Handlers, TypeOK',
         AssetSubmit(h) \/ OpenNext(h) \/ Navigate(h) \/ Review(h)
  PROVE  ReviewInv'
<1> USE DEF channelVars
<1>1. Busy(h) /\ (disturbed' = 0 => disturbed = 0)
  BY DEF AssetSubmit, OpenNext, Navigate, Review, Ack, Disturb, Busy, TypeOK
<1> SUFFICES ASSUME disturbed' = 0, disturbed = 0 PROVE Turns(h)
  BY <1>1, TurnsReview
<1>2. Reviewing(h) /\ draft.assets \in ImportedLists /\ draft.page \in Nat
  BY <1>1, TurnOf
<1>3. \A page \in Nat : AssetView(draft.assets, page) \in Views /\ AssetView(draft.assets, page).kind = "asset"
  BY <1>2, AssetViewType DEF AssetView
<1>4. \A page \in Nat :
        /\ PageCount(draft.assets) \in Nat
        /\ Covered(draft.assets, page + 1, seen) => Covered(draft.assets, page, seen)
        /\ Covered(draft.assets, page + 1, seen) /\ page + 1 >= PageCount(draft.assets) => AllSeen
  BY <1>2, CoveredPages DEF AllSeen
<1>5. /\ ConfirmView(draft'.incl) \in Views /\ ConfirmView(draft'.incl).kind = "confirm"
      /\ ConfirmView(draft'.incl).lists = draft'.incl
  <2>1. draft'.incl \in SUBSET Listed
    BY DEF TypeOK, Drafts
  <2> QED BY <2>1, ConfirmViewType DEF ConfirmView, Bare
<1>6. CASE AssetSubmit(h)
  <2>1. at[h].pc = "submit" /\ seen' = seen
    BY <1>6 DEF AssetSubmit
  <2>2. CASE inBook
    <3> DEFINE state == [On(h, "open") EXCEPT !.page = draft.page]
    <3>1. state.pc = "open" /\ state.page = draft.page /\ state.press = at[h].press /\ state.fresh = at[h].fresh
      BY DEF On, Idle
    <3>2. Ack(h, Bare("working"), state) /\ draft' = Saved(h, draft.page)
      BY <1>6, <2>2 DEF AssetSubmit
    <3> HIDE DEF state
    <3>3. /\ OthersStay(h) /\ at'[h] = state /\ screen'.kind \in {"working", "closed"}
          /\ screen'.kind = "closed" \/ screen.kind # "closed"
      BY <3>2, AckTurns DEF Kinds
    <3>4. draft'.assets = draft.assets /\ draft'.page = draft.page
      BY <3>2, SavedKeeps
    <3> QED BY <1>2, <2>1, <3>1, <3>3, <3>4 DEF Turns, Reviewing, Busy, OffPage
  <2>3. CASE ~inBook
    <3>1. Return(h) /\ UNCHANGED <<screen, draft>>
      BY <1>6, <2>3 DEF AssetSubmit
    <3>2. OnScreen'
      BY <1>2, <1>3, <2>1, <3>1 DEF Reviewing, OnScreen, PageOpen
    <3> QED BY <3>1, <3>2, ReturnTurns
  <2> QED BY <2>2, <2>3
<1>7. CASE OpenNext(h)
  <2>1. at[h].pc = "open" /\ at[h].page = draft.page /\ UNCHANGED <<screen, seen>>
    BY <1>2, <1>7 DEF OpenNext, Reviewing
  <2>2. Covered(draft.assets, draft.page + 1, seen) /\ screen.kind \notin {"asset", "confirm"}
    BY <1>2, <2>1 DEF Reviewing, OffPage
  <2>3. CASE Return(h)
    BY <2>1, <2>2, <2>3, ReturnTurns DEF OnScreen
  <2>4. ASSUME NEW page \in {draft.page, draft.page + 1}, draft' = [draft EXCEPT !.page = page],
               Ready(h, AssetView(draft.assets, page))
        PROVE  Turns(h)
    <3>1. draft'.assets = draft.assets /\ draft'.page = page /\ page \in Nat
      BY <1>2, <2>4 DEF TypeOK, Drafts
    <3>2. Covered(draft.assets, page, seen)
      BY <1>2, <1>4, <2>2, <2>4
    <3> QED BY <1>2, <1>3, <2>1, <2>4, <3>1, <3>2, ReadyTurns
  <2>5. CASE /\ draft.page + 1 >= PageCount(draft.assets)
             /\ Ready(h, ConfirmView(draft.incl)) /\ UNCHANGED draft
    <3>1. AllSeen'
      BY <1>2, <1>4, <2>1, <2>2, <2>5 DEF AllSeen
    <3> QED BY <1>2, <1>5, <2>1, <2>5, <3>1, ReadyTurns
  <2> QED BY <1>7, <2>1, <2>3, <2>4, <2>5 DEF OpenNext
<1>8. CASE Navigate(h)
  <2> DEFINE page == IF at[h].pc = "next" THEN draft.page + 1 ELSE draft.page - 1
  <2>1. at[h].pc \in {"next", "back"} /\ UNCHANGED <<screen, seen>>
    BY <1>8 DEF Navigate
  <2>2. Covered(draft.assets, draft.page + 1, seen) /\ (screen.kind = "closed" \/ PageOpen)
    BY <1>2, <2>1 DEF Reviewing
  <2>3. CASE Return(h) /\ (UNCHANGED draft \/ draft' = Saved(h, draft.page))
    <3>1. draft'.assets = draft.assets /\ draft'.page = draft.page
      BY <2>3, SavedKeeps
    <3>2. OnScreen'
      BY <1>2, <1>3, <2>1, <2>2, <3>1 DEF OnScreen, PageOpen
    <3> QED BY <2>3, <3>2, ReturnTurns
  <2>4. CASE page \in Nat /\ draft' = Saved(h, page) /\ Ready(h, AssetView(draft.assets, page))
    <3>1. page + 1 = draft.page \/ page = draft.page + 1
      BY <1>2, <2>4
    <3> HIDE DEF page
    <3>2. draft'.assets = draft.assets /\ draft'.page = page
      BY <2>4, SavedKeeps
    <3>3. Covered(draft.assets, page, seen)
      BY <1>2, <1>4, <2>2, <2>4, <3>1
    <3> QED BY <1>2, <1>3, <2>1, <2>4, <3>2, <3>3, ReadyTurns
  <2> QED BY <1>8, <2>3, <2>4 DEF Navigate
<1>9. CASE Review(h)
  <2>1. at[h].pc = "review" /\ UNCHANGED <<screen, seen>>
    BY <1>9 DEF Review
  <2>2. /\ Covered(draft.assets, draft.page + 1, seen) /\ (screen.kind = "closed" \/ PageOpen)
        /\ draft.page + 1 >= PageCount(draft.assets)
    BY <1>2, <2>1 DEF Reviewing
  <2>3. draft'.assets = draft.assets /\ draft'.page = draft.page
    BY <1>9, SavedKeeps DEF Review
  <2>4. CASE Return(h)
    <3>1. OnScreen'
      BY <1>2, <1>3, <2>1, <2>2, <2>3 DEF OnScreen, PageOpen
    <3> QED BY <2>4, <3>1, ReturnTurns
  <2>5. CASE Ready(h, ConfirmView(draft'.incl))
    <3>1. AllSeen'
      BY <1>2, <1>4, <2>1, <2>2, <2>3 DEF AllSeen
    <3> QED BY <1>2, <1>5, <2>1, <2>5, <3>1, ReadyTurns
  <2> QED BY <1>9, <2>4, <2>5 DEF Review
<1> QED BY <1>6, <1>7, <1>8, <1>9

(* The turns that show a view, and those of the confirmation.               *)
LEMMA TurnsOfTheEnd ==
  ASSUME TypeOK, SessionInv, SoloInv, ReviewInv, NEW h \in Handlers,
         Show(h) \/ ConfirmSubmit(h) \/ Check(h) \/ Stores(h) \/ Commit(h) \/ Discard(h)
  PROVE  ReviewInv'
<1> USE DEF channelVars
<1>1. Busy(h) /\ (disturbed' = 0 => disturbed = 0)
  BY DEF Show, ConfirmSubmit, Check, Stores, Acquire, CreateGroup, StoreBatch, Abandon, Commit, Discard,
         Ack, Disturb, Busy, TypeOK
<1> SUFFICES ASSUME disturbed' = 0, disturbed = 0 PROVE Turns(h)
  BY <1>1, TurnsReview
<1>2. /\ Reviewing(h) /\ draft.assets \in ImportedLists /\ draft.page \in Nat
      /\ at[h].pc \in Confirming => screen.kind = "closed"
  BY <1>1, TurnOf
<1>3. CASE Show(h)
  <2>1. at[h].pc = "show" /\ UNCHANGED draft
    BY <1>3 DEF Show
  <2>2. CASE /\ Return(h) /\ UNCHANGED <<screen, seen>>
             /\ screen.kind = "closed" \/ (at[h].press \in ByHash /\ ~at[h].fresh) \/ Disturb
    <3>1. screen.kind = "closed"
      BY <1>2, <2>2 DEF Disturb, TypeOK, Reviewing
    <3>2. OnScreen'
      BY <2>2, <3>1 DEF OnScreen
    <3> QED BY <2>2, <3>2, ReturnTurns
  <2>3. CASE /\ Replace(h, at[h].next, Idle)
             /\ seen' = seen \cup (IF at[h].next.kind = "asset" THEN at[h].next.lists ELSE {})
    <3>1. screen' = at[h].next /\ OthersStay(h) /\ at'[h].pc = "idle"
      BY <2>3, ReplaceStays DEF Idle
    <3>2. screen'.kind = "asset" => PageOpen'
      <4> SUFFICES ASSUME screen'.kind = "asset" PROVE PageOpen'
        OBVIOUS
      <4>1. at[h].next = AssetView(draft.assets, draft.page) /\ Covered(draft.assets, draft.page, seen)
        BY <1>2, <2>1, <3>1 DEF Reviewing
      <4>2. seen' = seen \cup PageAssets(draft.assets, draft.page)
        BY <2>3, <4>1 DEF AssetView
      <4>3. Covered(draft.assets, draft.page + 1, seen')
        BY <1>2, <4>1, <4>2, CoveredPages
      <4> QED BY <2>1, <3>1, <4>1, <4>3 DEF PageOpen
    <3>3. screen'.kind = "confirm" => screen'.lists = draft'.incl /\ AllSeen'
      BY <1>2, <2>1, <2>3, <3>1 DEF Reviewing, AllSeen
    <3> QED BY <3>1, <3>2, <3>3 DEF Turns, Busy, OnScreen
  <2> QED BY <1>3, <2>2, <2>3 DEF Show
<1>4. CASE ConfirmSubmit(h)
  <2>1. at[h].pc = "post" /\ seen' = seen
    BY <1>4 DEF ConfirmSubmit
  <2>2. CASE inBook
    <3> DEFINE state == [at[h] EXCEPT !.pc = "check"]
    <3>1. state.pc = "check" /\ state.incl = at[h].incl /\ state.title = at[h].title
      BY DEF TypeOK, HandlerStates
    <3>2. /\ Ack(h, Bare("closed"), state)
          /\ draft' = [draft EXCEPT !.title = IF at[h].title = NoTitle THEN @ ELSE at[h].title]
      BY <1>4, <2>2 DEF ConfirmSubmit
    <3> HIDE DEF state
    <3>3. OthersStay(h) /\ at'[h] = state /\ screen'.kind = "closed"
      BY <3>2, AckTurns DEF Kinds
    <3>4. /\ draft'.assets = draft.assets /\ draft'.incl = draft.incl
          /\ at[h].title # NoTitle => draft'.title = at[h].title
      BY <3>2 DEF TypeOK, Drafts
    <3> QED BY <1>2, <2>1, <3>1, <3>3, <3>4 DEF Turns, Reviewing, Busy, OffPage, AllSeen
  <2>3. CASE ~inBook
    <3>1. Return(h) /\ UNCHANGED <<screen, draft, seen>>
      BY <1>4, <2>3 DEF ConfirmSubmit
    <3>2. OnScreen'
      BY <1>2, <2>1, <3>1 DEF Reviewing, OnScreen, PageOpen, AllSeen
    <3> QED BY <3>1, <3>2, ReturnTurns
  <2> QED BY <2>2, <2>3
<1>5. ASSUME Return(h), at[h].pc \in Confirming, UNCHANGED screen PROVE Turns(h)
  <2>1. OnScreen'
    BY <1>2, <1>5 DEF OnScreen
  <2> QED BY <1>5, <2>1, ReturnTurns
<1>6. ASSUME NEW pc \in {"confirm", "group", "store", "commit", "discard"},
             at[h].pc \in {"check", "confirm", "group", "store", "commit"},
             Goto(h, pc), UNCHANGED <<screen, draft, seen>>,
             pc \in {"store", "commit"} => txn'.groups = {draft.title},
             pc = "commit" => txn'.batches = <<[group |-> draft.title, title |-> draft.title, incl |-> draft.incl]>>
      PROVE  Turns(h)
  <2>1. /\ at'[h].pc = pc /\ at'[h].press = at[h].press /\ at'[h].fresh = at[h].fresh
        /\ at'[h].incl = at[h].incl /\ at'[h].title = at[h].title /\ OthersStay(h)
    BY <1>6 DEF Goto, OthersStay, TypeOK, HandlerStates
  <2>2. screen.kind = "closed"
    BY <1>2, <1>6 DEF Confirming
  <2> QED BY <1>2, <1>6, <2>1, <2>2 DEF Turns, Reviewing, Busy, OffPage, AllSeen
<1>7. CASE Check(h)
  BY <1>5, <1>6, <1>7 DEF Check, Confirming
<1>8. CASE Commit(h)
  BY <1>5, <1>6, <1>8 DEF Commit, Confirming
<1>9. CASE Abandon(h) \/ Discard(h)
  BY <1>5, <1>9 DEF Abandon, Drop, Discard, Confirming
<1>10. CASE Acquire(h)
  BY <1>5, <1>6, <1>10 DEF Acquire, Drop, Confirming
<1>11. CASE CreateGroup(h)
  <2>1. at[h].pc = "group" /\ txn.groups = {}
    BY <1>11 DEF CreateGroup, SessionInv, Wrote
  <2>2. txn'.groups = {draft.title}
    BY <1>11, <2>1 DEF CreateGroup, TypeOK, Sessions
  <2> QED BY <1>6, <1>11, <2>2 DEF CreateGroup
<1>12. CASE StoreBatch(h)
  <2> DEFINE batch == [group |-> draft.title, title |-> draft.title, incl |-> draft.incl]
  <2>1. at[h].pc = "store" /\ txn.groups = {draft.title} /\ txn.batches = <<>>
    BY <1>2, <1>12 DEF StoreBatch, SessionInv, Wrote, Reviewing
  <2>2. txn' = [txn EXCEPT !.batches = Append(@, batch)]
    BY <1>12, <2>1 DEF StoreBatch
  <2>3. txn'.groups = {draft.title} /\ txn'.batches = <<batch>>
    <3> HIDE DEF batch
    <3>1. txn'.groups = {draft.title} /\ txn'.batches = Append(txn.batches, batch)
      BY <2>1, <2>2 DEF TypeOK, Sessions
    <3> QED BY <2>1, <3>1
  <2> QED BY <1>6, <1>12, <2>3 DEF StoreBatch
<1> QED BY <1>3, <1>4, <1>7, <1>8, <1>9, <1>10, <1>11, <1>12 DEF Stores

(* A press finds everybody idle, and the view on the screen.                *)
LEMMA PressReview ==
  ASSUME TypeOK, SoloInv, ReviewInv, NEW h \in Handlers, NEW press \in Presses, Press(h, press)
  PROVE  ReviewInv'
<1> USE DEF channelVars
<1>1. disturbed' = 0 => disturbed = 0 /\ \A g \in Handlers : ~Busy(g)
  BY DEF Press, Disturb, Busy, TypeOK
<1> SUFFICES ASSUME disturbed' = 0, disturbed = 0, \A g \in Handlers : ~Busy(g) PROVE Turns(h)
  <2>1. disturbed' # 0 => ReviewInv'
    BY DEF ReviewInv
  <2> QED BY <1>1, <2>1, TurnsReview
<1>2. OnScreen /\ draft.assets \in ImportedLists /\ draft.page \in Nat
  BY DraftFields DEF ReviewInv
<1>3. PICK entry \in Entries(screen) :
        at' = [at EXCEPT ![h] = [Idle EXCEPT !.pc = press, !.press = press, !.on = screen,
                                 !.incl = entry.incl, !.title = entry.title, !.ok = entry.ok,
                                 !.fresh = press \in ByHash]]
  BY Zenon DEF Press
<1>4. /\ at'[h].pc = press /\ at'[h].press = press /\ at'[h].incl = entry.incl
      /\ at'[h].fresh = (press \in ByHash)
      /\ OthersStay(h)
  BY <1>3 DEF OthersStay, TypeOK, Idle
<1>5. UNCHANGED <<screen, draft, seen>> /\ press \in Buttons(screen)
  BY DEF Press
<1>6. at'[h].press \in ByHash => at'[h].fresh
  BY <1>4
<1>7. CASE press \in {"create", "rename", "decline", "import"}
  <2>1. screen.kind \in {"preflight", "import"}
    BY <1>5, <1>7 DEF Buttons
  <2> QED BY <1>4, <1>5, <1>6, <1>7, <2>1 DEF Turns, Reviewing, Busy, OffPage
<1>8. CASE press \in {"submit", "next", "back", "review"}
  <2>1. screen.kind = "asset" /\ (press = "review" => ~screen.more)
    BY <1>5, <1>8 DEF Buttons
  <2>2. PageOpen
    BY <1>2, <2>1 DEF OnScreen
  <2>3. press = "review" => ~(draft.page + 1 < PageCount(draft.assets))
    BY <2>1, <2>2 DEF PageOpen, AssetView
  <2>4. press = "review" => draft.page + 1 >= PageCount(draft.assets)
    BY <1>2, <2>3, CoveredPages
  <2> QED BY <1>4, <1>5, <1>6, <1>8, <2>2, <2>4 DEF Turns, Reviewing, Busy, OffPage, PageOpen
<1>9. CASE press = "post"
  <2>1. screen.kind = "confirm"
    BY <1>5, <1>9 DEF Buttons
  <2>2. entry.incl = screen.lists
    BY <2>1 DEF Entries
  <2>3. screen.lists = draft.incl /\ AllSeen
    BY <1>2, <2>1 DEF OnScreen
  <2>4. OnScreen'
    BY <1>5, <2>1, <2>3 DEF OnScreen, AllSeen
  <2> QED BY <1>4, <1>5, <1>6, <1>9, <2>1, <2>2, <2>3, <2>4 DEF Turns, Reviewing, Busy, OffPage, AllSeen
<1>10. press # "command"
  BY <1>5 DEF Buttons
<1> QED BY <1>7, <1>8, <1>9, <1>10 DEF Presses

(* ReviewInv is inductive.                                                  *)
LEMMA ReviewStep == TypeOK /\ SessionInv /\ SoloInv /\ ReviewInv /\ [Next]_vars => ReviewInv'
<1> SUFFICES ASSUME TypeOK, SessionInv, SoloInv, ReviewInv, [Next]_vars PROVE ReviewInv'
  OBVIOUS
<1>1. TypeOK'
  BY TypeStep
<1>2. ASSUME NEW h \in Handlers, Step(h) PROVE ReviewInv'
  BY <1>1, <1>2, TurnsToPages, TurnsOfPages, TurnsOfTheEnd DEF Step, Stores
<1>3. ASSUME NEW h \in Handlers, Command(h) PROVE ReviewInv'
  <2>1. screen.kind = "none" /\ disturbed' = disturbed /\ \A g \in Handlers : ~Busy(g)
    BY <1>3 DEF Command, SoloInv
  <2>2. CASE Replace(h, Bare("loading"), [Idle EXCEPT !.pc = "preflight"])
    <3>1. screen' = Bare("loading") /\ OthersStay(h) /\ at'[h] = [Idle EXCEPT !.pc = "preflight"]
      BY <2>2, ReplaceStays
    <3>2. /\ screen'.kind = "loading" /\ at'[h].pc = "preflight" /\ at'[h].press \notin ByHash
      BY <3>1 DEF Bare, Idle, ByHash
    <3>3. Turns(h)
      BY <3>1, <3>2 DEF Turns, Reviewing, Busy, OffPage
    <3> QED BY <2>1, <3>3, TurnsReview
  <2>3. CASE UNCHANGED <<screen, at>>
    BY <2>1, <2>3 DEF ReviewInv, Busy, OnScreen
  <2> QED BY <1>3, <2>2, <2>3 DEF Command
<1>4. CASE Close
  <2>1. /\ screen'.kind = "closed" /\ UNCHANGED <<inBook, draft, txn, seen, disturbed>>
        /\ at' = [h \in Handlers |-> [at[h] EXCEPT !.fresh = FALSE]]
    BY <1>4 DEF Close, channelVars, Bare
  <2>2. \A h \in Handlers : /\ at'[h].pc = at[h].pc /\ at'[h].next = at[h].next /\ at'[h].page = at[h].page
                            /\ at'[h].incl = at[h].incl /\ at'[h].title = at[h].title
    BY <2>1 DEF TypeOK, HandlerStates
  <2>3. OnScreen'
    BY <2>1 DEF OnScreen
  <2>4. ASSUME disturbed = 0, NEW h \in Handlers, Busy(h) PROVE Reviewing(h)'
    <3>1. Reviewing(h)
      BY <2>4 DEF ReviewInv
    <3> QED BY <2>1, <2>2, <2>3, <3>1 DEF Reviewing, AllSeen
  <2> QED BY <2>1, <2>2, <2>3, <2>4 DEF ReviewInv, Busy
<1>5. CASE Restart
  <2>1. disturbed' # 0
    BY <1>5 DEF Restart, Disturb, TypeOK
  <2> QED BY <2>1 DEF ReviewInv
<1>6. CASE LeaseChanges \/ UNCHANGED vars
  <2>1. UNCHANGED <<screen, draft, at, txn, seen, disturbed>>
    BY <1>6 DEF LeaseChanges, vars
  <2> QED BY <2>1 DEF ReviewInv, Busy, Reviewing, OnScreen, PageOpen, AllSeen
<1>7. CASE Collect
  <2>1. UNCHANGED <<screen, draft, at, seen, disturbed>> /\ txn.by = "dropped"
    BY <1>7 DEF Collect
  <2>2. \A h \in Handlers : at[h].pc \notin {"group", "store", "commit"}
    BY <2>1, WizardAssumption DEF SessionInv
  <2> QED BY <2>1, <2>2 DEF ReviewInv, Busy, Reviewing, OnScreen, PageOpen, AllSeen
<1> QED BY <1>2, <1>3, <1>4, <1>5, <1>6, <1>7, PressReview DEF Next

LEMMA ReviewInit == Init => ReviewInv
BY DEF Init, ReviewInv, Busy, Idle, OnScreen, Bare

(* ReviewedBeforePosting: whatever pages the user goes through, in whatever *)
(* order and as often as he likes, the batch has the assets that the        *)
(* confirmation counted and the title entered there, under a group of that  *)
(* title, and every imported asset was on a page that the modal has shown.  *)
THEOREM PostedAsReviewed == Spec => ReviewedBeforePosting
<1> DEFINE Posts == \A h \in Handlers :
             at[h].pc = "commit" /\ batches' # batches /\ disturbed = 0 =>
               LET batch == batches'[Len(batches')] IN
                 /\ batch.incl = at[h].incl
                 /\ at[h].title # NoTitle => batch.title = at[h].title
                 /\ batch.group = batch.title
                 /\ ToSet(draft.assets) \subseteq seen
<1>1. TypeOK /\ SessionInv /\ SoloInv /\ ReviewInv /\ [Next]_vars => Posts
  <2> SUFFICES ASSUME TypeOK, SessionInv, SoloInv, ReviewInv, [Next]_vars, NEW h \in Handlers,
                      at[h].pc = "commit", batches' # batches, disturbed = 0
      PROVE  LET batch == batches'[Len(batches')] IN
               /\ batch.incl = at[h].incl
               /\ at[h].title # NoTitle => batch.title = at[h].title
               /\ batch.group = batch.title
               /\ ToSet(draft.assets) \subseteq seen
    OBVIOUS
  <2>1. PICK g \in Handlers : Commit(g)
    BY ChannelSteps DEF LeaseChanges
  <2>2. g = h
    BY <2>1 DEF Commit, SoloInv, OneAtATime, Busy
  <2> DEFINE new == [group |-> draft.title, title |-> draft.title, incl |-> draft.incl]
  <2>3. Reviewing(h) /\ txn.batches = <<new>>
    BY DEF ReviewInv, Reviewing, Busy
  <2> HIDE DEF new
  <2>4. batches'[Len(batches')] = new
    <3>1. PICK batch \in Batches : /\ txn.batches = <<batch>>
                                   /\ Len(batches') = Len(batches) + 1 /\ batches'[Len(batches) + 1] = batch
      BY <2>1, CommitStores
    <3> QED BY <2>3, <3>1
  <2> QED BY <2>3, <2>4 DEF Reviewing, AllSeen, new
<1> QED BY <1>1, TypeInit, TypeStep, SessionInit, SessionStep, SoloInit, SoloStep, ReviewInit, ReviewStep, PTL DEF Spec, ReviewedBeforePosting

=============================================================================
