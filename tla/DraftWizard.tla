----------------------------- MODULE DraftWizard -----------------------------
(***************************************************************************)
(* The confirmation wizard (slack_app.py and workflow.py): the modal that  *)
(* leads one user from /create-prop-threads to a confirmed batch.          *)
(*                                                                         *)
(* Slack shows one screen at a time.  Every press of a button or of the    *)
(* modal's submit starts a handler in a thread of the web process; all     *)
(* handlers share the draft, which lives in the memory of that process.  A *)
(* handler works on what the press sent, and updates the screen at its     *)
(* end, when the user may already have pressed something else.             *)
(*                                                                         *)
(* Abstracted: people and links are one flag, whether they are valid, and  *)
(* are those of the group, which every page sends; the title of a season   *)
(* stands for its token in an asset's name.                                *)
(***************************************************************************)
EXTENDS CanvasIndex, Naturals, SequencesExt

CONSTANTS
  Handlers,   \* threads that serve the modal
  Assets,     \* ShotGrid assets
  Titles,     \* group titles, normalized
  NoTitle,    \* the empty title
  SeasonsIn,  \* the seasons named in each asset's name
  Exports,    \* what exporting the page may return, the asset of each row
  PageSize,   \* assets on one page of the modal (15)
  MaxRows,    \* rows an export may have (30)
  MaxDisturbed \* bound on the disturbances

ASSUME WizardAssumption ==
  /\ Handlers \cap {"nobody", "dropped"} = {}
  /\ NoTitle \notin Titles
  /\ SeasonsIn \in [Assets -> SUBSET Titles]
  /\ Exports \subseteq Seq(Assets)
  /\ PageSize \in Nat \ {0} /\ MaxRows \in Nat
  /\ MaxDisturbed \in Nat

VARIABLES
  screen,     \* the view of the modal
  inBook,     \* the draft is in the DraftBook
  draft,      \* the draft, which a handler may hold when the book does not
  at,         \* where each handler is, and the press that it serves
  canvas,     \* the canvas of the channel
  lease,      \* who holds the lease of the channel: nobody, this user, another
  groups,     \* the titles of the channel's groups
  batches,    \* the batches this draft was confirmed as
  txn,        \* the open database session of a confirmation, and what it wrote
  seen,       \* assets of the import that the modal has shown
  disturbed   \* how often presses overlapped, an answer was lost, a handler
              \* failed where nobody caught it, or the process restarted

vars == <<screen, inBook, draft, at, canvas, lease, groups, batches, txn, seen, disturbed>>
channelVars == <<canvas, lease, groups, batches, txn>>

-----------------------------------------------------------------------------

(* The import. *)

(* parse_export_csv keeps the first row of each asset, in order, and        *)
(* refuses an export without rows or with too many.                         *)
FirstRows(rows) == {i \in DOMAIN rows : \A j \in 1..(i - 1) : rows[j] # rows[i]}

Deduplicated(rows) ==
  LET first == FirstRows(rows)
  IN  [k \in 1..Cardinality(first) |-> rows[CHOOSE i \in first : Cardinality(first \cap 1..i) = k]]

Importable(rows) == rows # <<>> /\ Len(rows) <= MaxRows

(* infer_group_title: every asset names one season, and all the same.       *)
InferGroupTitle(assets) ==
  IF \E t \in Titles : assets # {} /\ \A a \in assets : SeasonsIn[a] = {t}
    THEN CHOOSE t \in Titles : \A a \in assets : SeasonsIn[a] = {t}
    ELSE NoTitle

(* Mutant: every page but the last.                                         *)
PageCountShort(assets) == IF Len(assets) > PageSize THEN (Len(assets) - 1) \div PageSize ELSE 1

PageCount(assets) == IF Len(assets) > PageSize THEN (Len(assets) + PageSize - 1) \div PageSize ELSE 1

PageAssets(assets, page) ==
  {assets[i] : i \in DOMAIN assets \cap (page * PageSize + 1)..((page + 1) * PageSize)}

-----------------------------------------------------------------------------

(* The views of the modal: on which page, which assets it lists, and        *)
(* whether pages follow.                                                    *)
Bare(kind) == [kind |-> kind, page |-> 0, lists |-> {}, more |-> FALSE]

AssetView(assets, page) ==
  [kind |-> "asset", page |-> page, lists |-> PageAssets(assets, page),
   more |-> page + 1 < PageCount(assets)]

ConfirmView(included) == [Bare("confirm") EXCEPT !.lists = included]

(* The lists an import may give, and the assets on them.                    *)
ImportedLists == {Deduplicated(rows) : rows \in {r \in Exports : Importable(r)}} \cup {<<>>}
Listed == UNION {ToSet(list) : list \in ImportedLists}

Kinds == {"none", "loading", "blocked", "preflight", "import", "asset", "working",
          "confirm", "closed"}
Views == [kind : Kinds, page : Nat, lists : SUBSET Listed, more : BOOLEAN]

Buttons(view) ==
  CASE view.kind = "preflight" -> {"create", "rename", "decline"}
    [] view.kind = "import"    -> {"import"}
    [] view.kind = "asset"     -> {"submit"} \cup (IF view.page > 0 THEN {"back"} ELSE {})
                                  \cup (IF view.more THEN {"next"} ELSE {"review"})
    [] view.kind = "confirm"   -> {"post"}
    [] OTHER                   -> {}

(* What the user can have entered on a view when it is pressed.             *)
Entries(view) ==
  CASE view.kind = "asset"   -> [incl : SUBSET view.lists, title : Titles \cup {NoTitle}, ok : BOOLEAN]
    [] view.kind = "confirm" -> [incl : {view.lists}, title : Titles \cup {NoTitle}, ok : {TRUE}]
    [] OTHER                 -> [incl : {{}}, title : {NoTitle}, ok : {TRUE}]

(* _replace_view sends the view's hash, except after an ack.                *)
ByHash == {"create", "rename", "next", "back", "review"}

Presses == {"command", "create", "rename", "decline", "import", "submit", "next", "back", "review", "post"}
Places == {"idle", "preflight", "export", "show", "open", "check", "confirm", "group", "store",
           "commit", "discard"} \cup Presses

Idle == [pc |-> "idle", press |-> "command", on |-> Bare("none"), incl |-> {}, title |-> NoTitle,
         ok |-> TRUE, page |-> 0, fresh |-> TRUE, next |-> Bare("none")]

HandlerStates ==
  [pc : Places, press : Presses, on : Views, incl : SUBSET Listed, title : Titles \cup {NoTitle},
   ok : BOOLEAN, page : Nat, fresh : BOOLEAN, next : Views]

Drafts ==
  [assets : ImportedLists, incl : SUBSET Listed, title : Titles \cup {NoTitle}, ok : BOOLEAN,
   page : Nat, canvas : BOOLEAN, members : BOOLEAN, url : BOOLEAN]

NewDraft(url) ==
  [assets |-> <<>>, incl |-> {}, title |-> NoTitle, ok |-> TRUE, page |-> 0,
   canvas |-> FALSE, members |-> FALSE, url |-> url]

(* A batch: the group it was stored under, the title and assets it posts.   *)
Batches == [group : Titles \cup {NoTitle}, title : Titles \cup {NoTitle}, incl : SUBSET Listed]

(* The session that has written, of a handler or of one that dropped it     *)
(* without a rollback, keeps the lease row from everybody else.             *)
Sessions ==
  [by : Handlers \cup {"nobody", "dropped"}, lease : BOOLEAN,
   groups : SUBSET (Titles \cup {NoTitle}), batches : Seq(Batches)]

NoTxn == [by |-> "nobody", lease |-> FALSE, groups |-> {}, batches |-> <<>>]

TypeOK ==
  /\ screen \in Views
  /\ inBook \in BOOLEAN
  /\ draft \in Drafts
  /\ at \in [Handlers -> HandlerStates]
  /\ canvas \in CanvasStates
  /\ lease \in {"free", "mine", "other"}
  /\ groups \in SUBSET (Titles \cup {NoTitle})
  /\ batches \in Seq(Batches)
  /\ txn \in Sessions
  /\ seen \in SUBSET Listed
  /\ disturbed \in 0..MaxDisturbed

Init ==
  /\ screen = Bare("none")
  /\ inBook = FALSE
  /\ draft = NewDraft(FALSE)
  /\ at = [h \in Handlers |-> Idle]
  /\ canvas \in CanvasStates
  /\ lease = "free"
  /\ groups \in SUBSET Titles
  /\ batches = <<>>
  /\ txn = NoTxn
  /\ seen = {}
  /\ disturbed = 0

-----------------------------------------------------------------------------

(* The steps of a handler. *)

Goto(h, pc) == at' = [at EXCEPT ![h].pc = pc]
Return(h) == at' = [at EXCEPT ![h] = Idle]

(* The handler goes on without what was entered ...                         *)
On(h, pc) == [Idle EXCEPT !.pc = pc, !.press = at[h].press, !.fresh = at[h].fresh]

(* ... or with its next view, to be shown.                                  *)
Ready(h, view) == at' = [at EXCEPT ![h] = [On(h, "show") EXCEPT !.next = view]]

(* Something goes wrong that the properties must allow for.                 *)
Disturb == disturbed < MaxDisturbed /\ disturbed' = disturbed + 1

(* The screen changes, and with it its hash: a handler that started from    *)
(* the old one can no longer update it by hash.                             *)
Replace(h, view, state) ==
  /\ screen' = view
  /\ at' = [g \in Handlers |-> IF g = h THEN state ELSE [at[g] EXCEPT !.fresh = FALSE]]

(* The answer to a submission replaces the view, or is lost: then the view  *)
(* stays and can be submitted again.                                        *)
Ack(h, view, state) ==
  \/ /\ screen.kind # "closed"
     /\ Replace(h, view, state)
     /\ UNCHANGED disturbed
  \/ /\ at' = [at EXCEPT ![h] = state]
     /\ IF screen.kind = "closed" THEN UNCHANGED disturbed ELSE Disturb
     /\ UNCHANGED screen

(* handle_command: the loading modal is opened at once, if it can be.       *)
Command(h) ==
  /\ screen.kind = "none" /\ at[h].pc = "idle"
  /\ inBook' = TRUE
  /\ \E url \in BOOLEAN : draft' = NewDraft(url)
  /\ \/ Replace(h, Bare("loading"), [Idle EXCEPT !.pc = "preflight"])
     \/ UNCHANGED <<screen, at>>
  /\ UNCHANGED <<channelVars, seen, disturbed>>

(* A press, with what was entered.                                          *)
Press(h, press) ==
  /\ at[h].pc = "idle" /\ press \in Buttons(screen)
  /\ \E entry \in Entries(screen) :
       at' = [at EXCEPT ![h] = [Idle EXCEPT !.pc = press, !.press = press, !.on = screen,
                                !.incl = entry.incl, !.title = entry.title, !.ok = entry.ok,
                                !.fresh = press \in ByHash]]
  /\ IF \A g \in Handlers : at[g].pc = "idle" THEN UNCHANGED disturbed ELSE Disturb
  /\ UNCHANGED <<screen, inBook, draft, channelVars, seen>>

(* _import_or_asset_view: the import starts at once if the command had a    *)
(* URL, else the user is asked for one.                                     *)
ImportOrAsk(h) == IF draft.url THEN at' = [at EXCEPT ![h] = On(h, "export")] ELSE Ready(h, Bare("import"))

Preflight(h) ==
  /\ at[h].pc = "preflight"
  /\ \E answered \in BOOLEAN :
       LET result == PreflightOf(canvas, answered) IN
         /\ draft' = [draft EXCEPT !.canvas = result \in {"ready", "rename"}]
         /\ CASE result = "ready"   -> ImportOrAsk(h)
              [] result = "blocked" -> Ready(h, Bare("blocked"))
              [] OTHER              -> Ready(h, Bare("preflight"))
  /\ UNCHANGED <<screen, inBook, channelVars, seen, disturbed>>

(* Mutant: the canvas is seen to before the draft is looked up.             *)
EnsureCanvasFirst(h) ==
  /\ at[h].pc \in {"create", "rename"}
  /\ \E answered \in BOOLEAN :
       IF Agreed(PreflightOf(canvas, answered), at[h].pc = "create", at[h].pc = "rename")
         THEN /\ canvas' = "index"
              /\ draft' = [draft EXCEPT !.canvas = TRUE]
              /\ IF inBook THEN ImportOrAsk(h) ELSE Return(h)
         ELSE Return(h) /\ UNCHANGED <<canvas, draft>>
  /\ UNCHANGED <<screen, inBook, lease, groups, batches, txn, seen, disturbed>>

(* confirm_canvas_create, confirm_canvas_rename: what fails is logged, and  *)
(* the preflight view stays.                                                *)
EnsureCanvas(h) ==
  /\ at[h].pc \in {"create", "rename"}
  /\ \E answered \in BOOLEAN :
       IF inBook /\ Agreed(PreflightOf(canvas, answered), at[h].pc = "create", at[h].pc = "rename")
         THEN /\ canvas' = "index"
              /\ draft' = [draft EXCEPT !.canvas = TRUE]
              /\ ImportOrAsk(h)
         ELSE Return(h) /\ UNCHANGED <<canvas, draft>>
  /\ UNCHANGED <<screen, inBook, lease, groups, batches, txn, seen, disturbed>>

(* decline_canvas discards the draft; the view stays on the screen.         *)
Decline(h) ==
  /\ at[h].pc = "decline"
  /\ inBook' = FALSE
  /\ Return(h)
  /\ UNCHANGED <<screen, draft, channelVars, seen, disturbed>>

(* handle_import_submit                                                     *)
ImportSubmit(h) ==
  /\ at[h].pc = "import"
  /\ Ack(h, Bare("working"), IF inBook THEN On(h, "export")
                                       ELSE [On(h, "show") EXCEPT !.next = Bare("import")])
  /\ UNCHANGED <<inBook, draft, channelVars, seen>>

Imported(rows) ==
  LET assets == Deduplicated(rows) IN
    [draft EXCEPT !.assets = assets, !.incl = ToSet(assets), !.page = 0,
                  !.title = InferGroupTitle(ToSet(assets))]

(* submit_import_url, after the export: the draft is filled and put back;   *)
(* the members of the channel are fetched for the pickers, once per draft.  *)
Export(h) ==
  /\ at[h].pc = "export"
  /\ \/ /\ Ready(h, Bare("import"))
        /\ UNCHANGED <<inBook, draft, seen>>
     \/ \E rows \in Exports :
          /\ Importable(rows)
          /\ inBook' = TRUE
          /\ seen' = {}
          /\ \/ /\ draft' = [Imported(rows) EXCEPT !.members = TRUE]
                /\ Ready(h, AssetView(Deduplicated(rows), 0))
             \/ /\ ~draft.members
                /\ draft' = Imported(rows)
                /\ Ready(h, Bare("import"))
  /\ UNCHANGED <<screen, channelVars, disturbed>>

(* save_asset_page: the page's boxes decide about the page's assets, the    *)
(* group's fields are replaced, an empty title is inferred anew.            *)
Saved(h, page) ==
  LET incl == (draft.incl \ at[h].on.lists) \cup at[h].incl IN
    [draft EXCEPT !.incl = incl, !.ok = at[h].ok, !.page = page,
                  !.title = IF at[h].title = NoTitle THEN InferGroupTitle(incl) ELSE at[h].title]

FieldErrors(d) == d.incl = {} \/ d.title = NoTitle \/ ~d.ok

(* handle_asset_page_submit saves the page the draft says is open ...       *)
AssetSubmit(h) ==
  /\ at[h].pc = "submit"
  /\ IF inBook
       THEN /\ draft' = Saved(h, draft.page)
            /\ Ack(h, Bare("working"), [On(h, "open") EXCEPT !.page = draft.page])
       ELSE Return(h) /\ UNCHANGED <<screen, draft, disturbed>>
  /\ UNCHANGED <<inBook, channelVars, seen>>

(* Mutant: fields with errors are reported, and the page not restored.      *)
OpenNextNoRestore(h) ==
  LET page == at[h].page IN
    /\ at[h].pc = "open"
    /\ \/ /\ inBook /\ page + 1 < PageCount(draft.assets)
          /\ draft' = [draft EXCEPT !.page = page + 1]
          /\ Ready(h, AssetView(draft.assets, page + 1))
       \/ /\ ~inBook \/ page + 1 >= PageCount(draft.assets)
          /\ IF ~inBook \/ FieldErrors(draft) THEN Return(h) ELSE Ready(h, ConfirmView(draft.incl))
          /\ UNCHANGED draft
    /\ UNCHANGED <<screen, inBook, channelVars, seen, disturbed>>

(* ... and shows the page after it, the page again when the fields have     *)
(* errors, or the confirmation.  Without the draft there is nothing to      *)
(* show; an error that no clause names is logged, and nothing is shown.     *)
OpenNext(h) ==
  LET page == at[h].page IN
    /\ at[h].pc = "open"
    /\ \/ /\ ~inBook
          /\ Return(h)
          /\ UNCHANGED <<draft, disturbed>>
       \/ /\ inBook
          /\ Return(h)
          /\ Disturb
          /\ UNCHANGED draft
       \/ /\ inBook /\ page + 1 < PageCount(draft.assets)
          /\ draft' = [draft EXCEPT !.page = page + 1]
          /\ Ready(h, AssetView(draft.assets, page + 1))
          /\ UNCHANGED disturbed
       \/ /\ inBook /\ page + 1 >= PageCount(draft.assets)
          /\ IF FieldErrors(draft)
               THEN /\ draft' = [draft EXCEPT !.page = page]
                    /\ Ready(h, AssetView(draft.assets, page))
               ELSE Ready(h, ConfirmView(draft.incl)) /\ UNCHANGED draft
          /\ UNCHANGED disturbed
    /\ UNCHANGED <<screen, inBook, channelVars, seen>>

(* Mutant: a page that is out of range is saved as the one that is open.    *)
NavigateUnchecked(h) ==
  LET page == IF at[h].pc = "next" THEN draft.page + 1 ELSE draft.page - 1 IN
    /\ at[h].pc \in {"next", "back"}
    /\ IF inBook THEN draft' = Saved(h, page) /\ Ready(h, AssetView(draft.assets, page))
                 ELSE Return(h) /\ UNCHANGED draft
    /\ UNCHANGED <<screen, inBook, channelVars, seen, disturbed>>

(* _navigate: past the last page, or before the first, the save stands and  *)
(* the screen stays.                                                        *)
Navigate(h) ==
  LET page == IF at[h].pc = "next" THEN draft.page + 1 ELSE draft.page - 1 IN
    /\ at[h].pc \in {"next", "back"}
    /\ \/ /\ ~inBook
          /\ Return(h)
          /\ UNCHANGED draft
       \/ /\ inBook /\ page \in 0..(PageCount(draft.assets) - 1)
          /\ draft' = Saved(h, page)
          /\ Ready(h, AssetView(draft.assets, page))
       \/ /\ inBook /\ page \notin 0..(PageCount(draft.assets) - 1)
          /\ draft' = Saved(h, draft.page)
          /\ Return(h)
    /\ UNCHANGED <<screen, inBook, channelVars, seen, disturbed>>

(* handle_nav_confirm                                                       *)
Review(h) ==
  /\ at[h].pc = "review"
  /\ IF inBook
       THEN /\ draft' = Saved(h, draft.page)
            /\ IF FieldErrors(draft') THEN Return(h) ELSE Ready(h, ConfirmView(draft'.incl))
       ELSE Return(h) /\ UNCHANGED draft
  /\ UNCHANGED <<screen, inBook, channelVars, seen, disturbed>>

(* Slack refuses an update by a hash that is no longer the view's.  A       *)
(* refusal is logged or raised, no more.                                    *)
Show(h) ==
  /\ at[h].pc = "show"
  /\ \/ /\ screen.kind # "closed"
        /\ at[h].press \in ByHash => at[h].fresh
        /\ Replace(h, at[h].next, Idle)
        /\ seen' = seen \cup (IF at[h].next.kind = "asset" THEN at[h].next.lists ELSE {})
        /\ UNCHANGED disturbed
     \/ /\ Return(h)
        /\ IF screen.kind = "closed" \/ (at[h].press \in ByHash /\ ~at[h].fresh)
             THEN UNCHANGED disturbed
             ELSE Disturb
        /\ UNCHANGED <<screen, seen>>
  /\ UNCHANGED <<inBook, draft, channelVars>>

-----------------------------------------------------------------------------

(* The confirmation. *)

(* handle_confirm_submit: the modal is closed before anything is stored.    *)
ConfirmSubmit(h) ==
  /\ at[h].pc = "post"
  /\ IF inBook
       THEN /\ draft' = [draft EXCEPT !.title = IF at[h].title = NoTitle THEN @ ELSE at[h].title]
            /\ Ack(h, Bare("closed"), [at[h] EXCEPT !.pc = "check"])
       ELSE Return(h) /\ UNCHANGED <<screen, draft, disturbed>>
  /\ UNCHANGED <<inBook, channelVars, seen>>

(* confirm_batch puts a valid draft back into the book ...                  *)
Check(h) ==
  /\ at[h].pc = "check"
  /\ IF FieldErrors(draft) THEN Return(h) /\ UNCHANGED inBook
                           ELSE Goto(h, "confirm") /\ inBook' = TRUE
  /\ UNCHANGED <<screen, draft, channelVars, seen, disturbed>>

(* ... and takes the lease, creates the group and its batch, and plans it,  *)
(* in one database session.                                                 *)

(* What the session of the handler has written is not undone when the       *)
(* handler fails, but when the session that nobody closes is collected.     *)
Drop(h) == Return(h) /\ txn' = [txn EXCEPT !.by = "dropped"]

(* Mutant: the lease is committed on its own.                               *)
AcquireCommitted(h) ==
  /\ at[h].pc = "confirm"
  /\ IF txn.by = "nobody" /\ lease # "other"
       THEN /\ lease' = "mine"
            /\ txn' = [txn EXCEPT !.by = h]
            /\ Goto(h, "group")
       ELSE Return(h) /\ UNCHANGED <<lease, txn>>
  /\ UNCHANGED <<screen, inBook, draft, canvas, groups, batches, seen, disturbed>>

(* leases.acquire: the row is free or the user's, or the channel is busy,   *)
(* or the statement fails, as it does when another session keeps the row    *)
(* for too long.                                                            *)
Acquire(h) ==
  /\ at[h].pc = "confirm"
  /\ \/ /\ txn.by = "nobody" /\ lease # "other"
        /\ txn' = [txn EXCEPT !.by = h, !.lease = TRUE]
        /\ Goto(h, "group")
     \/ /\ txn.by = "nobody" /\ lease = "other"
        /\ Drop(h)
     \/ Return(h) /\ UNCHANGED txn
  /\ UNCHANGED <<screen, inBook, draft, canvas, lease, groups, batches, seen, disturbed>>

(* Mutant: nothing keeps a title from being stored twice.                   *)
CreateGroupAgain(h) ==
  /\ at[h].pc = "group" /\ draft.canvas
  /\ txn' = [txn EXCEPT !.groups = @ \cup {draft.title}]
  /\ Goto(h, "store")
  /\ UNCHANGED <<screen, inBook, draft, canvas, lease, groups, batches, seen, disturbed>>

(* A title is used once in a channel.                                       *)
CreateGroup(h) ==
  /\ at[h].pc = "group"
  /\ draft.canvas /\ draft.title \notin groups
  /\ txn' = [txn EXCEPT !.groups = @ \cup {draft.title}]
  /\ Goto(h, "store")
  /\ UNCHANGED <<screen, inBook, draft, canvas, lease, groups, batches, seen, disturbed>>

(* The payload reads the draft, and its title, once more.                   *)
StoreBatch(h) ==
  /\ at[h].pc = "store"
  /\ \E group \in txn.groups :
       txn' = [txn EXCEPT !.batches =
                 Append(@, [group |-> group, title |-> draft.title, incl |-> draft.incl])]
  /\ Goto(h, "commit")
  /\ UNCHANGED <<screen, inBook, draft, canvas, lease, groups, batches, seen, disturbed>>

(* The commit, whose answer may be lost.                                    *)
Commit(h) ==
  /\ at[h].pc = "commit"
  /\ lease' = IF txn.lease THEN "mine" ELSE lease
  /\ groups' = groups \cup txn.groups
  /\ batches' = batches \o txn.batches
  /\ txn' = NoTxn
  /\ Goto(h, "discard") \/ Return(h)
  /\ UNCHANGED <<screen, inBook, draft, canvas, seen, disturbed>>

(* A check or a statement fails: the user is told, the session is dropped.  *)
Abandon(h) ==
  /\ at[h].pc \in {"group", "store", "commit"}
  /\ Drop(h)
  /\ UNCHANGED <<screen, inBook, draft, canvas, lease, groups, batches, seen, disturbed>>

Discard(h) ==
  /\ at[h].pc = "discard"
  /\ inBook' = FALSE
  /\ Return(h)
  /\ UNCHANGED <<screen, draft, channelVars, seen, disturbed>>

-----------------------------------------------------------------------------

(* A dropped session is collected, and rolled back.                         *)
Collect ==
  /\ txn.by = "dropped"
  /\ txn' = NoTxn
  /\ UNCHANGED <<screen, inBook, draft, at, canvas, lease, groups, batches, seen, disturbed>>

(* The user closes the modal; nobody tells the program.                     *)
Close ==
  /\ screen.kind \notin {"none", "closed"}
  /\ screen' = Bare("closed")
  /\ at' = [h \in Handlers |-> [at[h] EXCEPT !.fresh = FALSE]]
  /\ UNCHANGED <<inBook, draft, channelVars, seen, disturbed>>

(* The web process starts anew, without drafts and sessions.                *)
Restart ==
  /\ inBook
  /\ inBook' = FALSE
  /\ at' = [h \in Handlers |-> Idle]
  /\ txn' = NoTxn
  /\ Disturb
  /\ UNCHANGED <<screen, draft, canvas, lease, groups, batches, seen>>

(* The lease is taken by another user, released, or runs out, while no      *)
(* session keeps the row; that it runs out is seen by the next statement.   *)
LeaseChanges ==
  /\ txn.by = "nobody"
  /\ lease' \in {"free", "other"}
  /\ lease = "free" \/ lease' = "free"
  /\ lease' # lease
  /\ UNCHANGED <<screen, inBook, draft, at, canvas, groups, batches, txn, seen, disturbed>>

Step(h) ==
  \/ Preflight(h) \/ EnsureCanvas(h) \/ Decline(h) \/ ImportSubmit(h) \/ Export(h)
  \/ AssetSubmit(h) \/ OpenNext(h) \/ Navigate(h) \/ Review(h) \/ Show(h)
  \/ ConfirmSubmit(h) \/ Check(h)
  \/ Acquire(h) \/ CreateGroup(h) \/ StoreBatch(h) \/ Commit(h) \/ Abandon(h) \/ Discard(h)

Next ==
  \/ \E h \in Handlers :
       \/ Step(h)
       \/ Command(h)
       \/ \E press \in Presses : Press(h, press)
  \/ Collect
  \/ Close
  \/ Restart
  \/ LeaseChanges

Spec == Init /\ [][Next]_vars

(* A handler goes on where the code waits for nothing without a bound: a    *)
(* call to Slack has a timeout.  The ShotGrid client is built without one,  *)
(* and a statement may wait for a session that keeps the lease row.         *)
Unbounded == {"export", "confirm"}

FairSpec == Spec /\ \A h \in Handlers : WF_vars(Step(h) /\ at[h].pc \notin Unbounded)

-----------------------------------------------------------------------------

(* Properties. *)

(* A confirmation is stored once: no two batches of one group, and without  *)
(* overlapping presses, lost answers or restarts one batch at the most.     *)
NotConfirmedTwice ==
  /\ \A i, j \in DOMAIN batches : batches[i].group = batches[j].group => i = j
  /\ disturbed = 0 => Len(batches) <= 1

(* A confirmation is stored as a whole or not at all, wherever it fails and *)
(* whoever drops its session: the user gets the lease only together with    *)
(* one batch, whose end releases it, and a title is taken only by the group *)
(* of a batch that is stored with it, so that it can be used again after a  *)
(* failure.                                                                 *)
ConfirmedAsAWhole ==
  [][groups' # groups \/ batches' # batches \/ (lease # "mine" /\ lease' = "mine") =>
       LET batch == batches'[Len(batches')] IN
         /\ lease' = "mine"
         /\ Len(batches') = Len(batches) + 1 /\ batches' = Append(batches, batch)
         /\ batch.group \notin groups /\ groups' = groups \cup {batch.group}]_vars

(* What is posted was reviewed: the batch has the assets the confirmation   *)
(* counted and the title entered there, which is that of its group, and the *)
(* modal has shown every imported asset, if presses do not overlap and no   *)
(* answer is lost.                                                          *)
ReviewedBeforePosting ==
  [][\A h \in Handlers :
       at[h].pc = "commit" /\ batches' # batches /\ disturbed = 0 =>
         LET batch == batches'[Len(batches')] IN
           /\ batch.incl = at[h].incl
           /\ at[h].title # NoTitle => batch.title = at[h].title
           /\ batch.group = batch.title
           /\ ToSet(draft.assets) \subseteq seen]_vars

(* Whoever declines, or whose draft is gone, changes nothing in the channel *)
(* by going on with the view left on the screen.                            *)
DeclineStops ==
  [][~inBook /\ disturbed = 0 => UNCHANGED <<canvas, batches>>]_vars

(* The loading view that answers a submission is replaced, on every path of *)
(* the handlers that ends as the code foresees: provided that exports end,  *)
(* that Slack takes the updates, that no error comes which no clause names, *)
(* that presses do not overlap and the process does not restart.  The code  *)
(* itself bounds none of these: then the loading view stays.                *)
WorkingViewReplaced ==
  (\A h \in Handlers : []<>(at[h].pc # "export"))
    => (screen.kind = "working" ~> screen.kind # "working" \/ disturbed > 0)
=============================================================================
