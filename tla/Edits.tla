-------------------------------- MODULE Edits --------------------------------
(***************************************************************************)
(* Editing the people and links of what a batch posted (edits.py and the   *)
(* edit listeners of slack_app.py), while a later batch posts one of the   *)
(* assets anew.                                                            *)
(*                                                                         *)
(* An edit writes to three places that no transaction joins: messages,     *)
(* canvas and history.  The web process never commits the history of an    *)
(* edit (web.py, edit_factory): a row keeps the details its batch stored,  *)
(* and an edit renders what it does not change from there.  What an edit   *)
(* enters is named after its editor, what a batch stored after the batch.  *)
(*                                                                         *)
(* The later batch is the worker's one transaction, as BatchJobs has it;   *)
(* it belongs to another group, since titles are used once in a channel.   *)
(***************************************************************************)
EXTENDS Naturals, Sequences

CONSTANTS
  Editors,    \* users that edit
  Summary,    \* the summary of the group
  Roots,      \* the roots of the group's assets
  Renewed,    \* the root whose asset the later batch posts anew ...
  NewRoot,    \* ... as this root
  OldBatch,   \* the batch of the group
  NewBatch,   \* the later batch
  Other,      \* another group of the channel
  MaxEdits    \* bound on the editors that are opened

ASSUME EditsAssumption ==
  /\ Renewed \in Roots
  /\ Summary \notin Roots /\ NewRoot \notin Roots /\ Summary # NewRoot
  /\ OldBatch \notin Editors /\ NewBatch \notin Editors
  /\ Other \notin Editors \cup {OldBatch, NewBatch}
  /\ Editors \cap {"free", "worker", "dropped"} = {}
  /\ MaxEdits \in Nat

VARIABLES
  shown,      \* the messages, as Slack shows them
  latest,     \* rows of the history that are latest, committed
  batch,      \* where the later batch is
  sections,   \* sections of the canvas whose heading contains the group's title, bottom up
  neighbour,  \* one of them was another group's from the start
  primary,    \* the section of the group last written on the primary canvas
  lock,       \* who has written to the database and not ended the transaction
  at,         \* where each editor is
  edits,      \* editors opened so far
  overlapped  \* an edit was submitted or a batch was running during another edit

vars == <<shown, latest, batch, sections, neighbour, primary, lock, at, edits, overlapped>>

Messages == {Summary, NewRoot} \cup Roots
Values == Editors \cup {OldBatch, NewBatch}
Shown == [posted : BOOLEAN, latest : BOOLEAN, group : Values, own : Values]

(* What the row of a message stores.                                        *)
Stored(m) == IF m = NewRoot THEN NewBatch ELSE OldBatch

Places == {"idle", "form", "check", "update", "flush", "roots", "lookup", "canvas", "primary", "done", "failed"}

Idle == [pc |-> "idle", msg |-> Summary, todo |-> {}, since |-> {}, found |-> 0]
EditorStates == [pc : Places, msg : Messages, todo : SUBSET Roots, since : SUBSET Messages, found : Nat]

Running(e) == at[e].pc \notin {"idle", "form"}
BatchRunning == batch \in {"posted", "retired"}

TypeOK ==
  /\ shown \in [Messages -> Shown]
  /\ latest \in SUBSET Messages
  /\ batch \in {"none", "posted", "retired", "committed", "failed"}
  /\ sections \in Seq(Values \cup {Other})
  /\ neighbour \in BOOLEAN
  /\ primary \in Values
  /\ lock \in {"free", "worker", "dropped"} \cup Editors
  /\ at \in [Editors -> EditorStates]
  /\ edits \in 0..MaxEdits
  /\ overlapped \in BOOLEAN

(* The batch was posted; its section on the canvas may have failed, or may  *)
(* not be found because somebody changed its heading.  Another group's      *)
(* heading may contain the title ("S31 Wildcard 2" that of "S31 Wildcard"). *)
Init ==
  /\ shown = [m \in Messages |-> [posted |-> m # NewRoot, latest |-> TRUE, group |-> Stored(m), own |-> Stored(m)]]
  /\ latest = {Summary} \cup Roots
  /\ batch = "none"
  /\ neighbour \in BOOLEAN
  /\ sections \in IF neighbour THEN {<<Other>>, <<OldBatch, Other>>} ELSE {<<>>, <<OldBatch>>}
  /\ primary = OldBatch
  /\ lock = "free"
  /\ at = [e \in Editors |-> Idle]
  /\ edits = 0
  /\ overlapped = FALSE

Goto(e, pc) == at' = [at EXCEPT ![e].pc = pc]

-----------------------------------------------------------------------------

(* The user presses the button of a message.  A message that is not tracked *)
(* or not the latest is refused, and so is a user outside the channel, or   *)
(* when Slack does not answer; else the form opens and stays open.          *)
Open(e, m) ==
  /\ at[e].pc = "idle" /\ shown[m].posted
  /\ edits < MaxEdits /\ edits' = edits + 1
  /\ \/ m \in latest /\ at' = [at EXCEPT ![e].pc = "form", ![e].msg = m]
     \/ UNCHANGED at
  /\ UNCHANGED <<neighbour, shown, latest, batch, sections, primary, lock, overlapped>>

Cancel(e) ==
  /\ at[e].pc = "form"
  /\ at' = [at EXCEPT ![e] = Idle]
  /\ UNCHANGED <<neighbour, shown, latest, batch, sections, primary, lock, edits, overlapped>>

(* The form is submitted and acknowledged, which closes it.                 *)
Submit(e) ==
  /\ at[e].pc = "form"
  /\ at' = [at EXCEPT ![e].pc = "check", ![e].since = latest]
  /\ overlapped' = (overlapped \/ BatchRunning \/ \E g \in Editors : Running(g))
  /\ UNCHANGED <<neighbour, shown, latest, batch, sections, primary, lock, edits>>

(* Mutant: the form was opened for the latest message, and that is enough.  *)
CheckOnOpen(e) ==
  /\ at[e].pc = "check"
  /\ Goto(e, "update") \/ Goto(e, "failed")
  /\ UNCHANGED <<neighbour, shown, latest, batch, sections, primary, lock, edits, overlapped>>

(* _require_latest_message, and the membership of the editor and of the     *)
(* people selected.                                                         *)
Check(e) ==
  /\ at[e].pc = "check"
  /\ (at[e].msg \in latest /\ Goto(e, "update")) \/ Goto(e, "failed")
  /\ UNCHANGED <<neighbour, shown, latest, batch, sections, primary, lock, edits, overlapped>>

(* Mutant: the identity of the message for what is stored.                  *)
RenderedIdentity(e, m) ==
  [posted |-> TRUE, latest |-> TRUE, group |-> IF at[e].msg = Summary THEN e ELSE m, own |-> e]

(* What an edit renders into a message, always as Latest: a group edit the  *)
(* group's details, an asset edit the asset's, and the rest as stored.      *)
Rendered(e, m) ==
  LET group == at[e].msg = Summary IN
    [posted |-> TRUE, latest |-> TRUE,
     group |-> IF group THEN e ELSE Stored(m),
     own   |-> IF group THEN Stored(m) ELSE e]

(* A call of Slack succeeds, or fails, having had its effect or not.        *)
UpdateMessage(e) ==
  /\ at[e].pc = "update"
  /\ LET updated == [shown EXCEPT ![at[e].msg] = Rendered(e, at[e].msg)] IN
       \/ shown' = updated /\ Goto(e, IF at[e].msg = Summary THEN "flush" ELSE "done")
       \/ shown' \in {shown, updated} /\ Goto(e, "failed")
  /\ UNCHANGED <<neighbour, latest, batch, sections, primary, lock, edits, overlapped>>

(* Mutant: the query waits for the lock, however long.                      *)
ListRootsWaits(e) ==
  /\ at[e].pc = "flush" /\ lock = "free"
  /\ lock' = e
  /\ at' = [at EXCEPT ![e].pc = "roots", ![e].todo = latest \cap Roots]
  /\ UNCHANGED <<neighbour, shown, latest, batch, sections, primary, edits, overlapped>>

(* The query for the group's latest roots first writes the summary's row,   *)
(* which the edit has touched: from here on it holds SQLite's write lock.   *)
(* While another holds it, the query fails at the end of the busy timeout.  *)
ListRoots(e) ==
  /\ at[e].pc = "flush"
  /\ \/ /\ lock = "free" /\ lock' = e
        /\ at' = [at EXCEPT ![e].pc = "roots", ![e].todo = latest \cap Roots]
     \/ lock # "free" /\ Goto(e, "failed") /\ UNCHANGED lock
  /\ UNCHANGED <<neighbour, shown, latest, batch, sections, primary, edits, overlapped>>

(* Mutant: a root that cannot be updated is passed over.                    *)
UpdateRootsPassing(e) ==
  /\ at[e].pc = "roots"
  /\ \/ at[e].todo = {} /\ Goto(e, "lookup") /\ UNCHANGED shown
     \/ \E r \in at[e].todo :
          /\ shown' \in {shown, [shown EXCEPT ![r] = Rendered(e, r)]}
          /\ at' = [at EXCEPT ![e].todo = @ \ {r}]
  /\ UNCHANGED <<neighbour, latest, batch, sections, primary, lock, edits, overlapped>>

(* Mutant: the canvas is indexed before the last root.                      *)
UpdateRootsButOne(e) ==
  /\ at[e].pc = "roots"
  /\ \/ (\A r, s \in at[e].todo : r = s) /\ Goto(e, "lookup") /\ UNCHANGED shown
     \/ \E r \in at[e].todo :
          \/ shown' = [shown EXCEPT ![r] = Rendered(e, r)] /\ at' = [at EXCEPT ![e].todo = @ \ {r}]
          \/ shown' \in {shown, [shown EXCEPT ![r] = Rendered(e, r)]} /\ Goto(e, "failed")
  /\ UNCHANGED <<neighbour, latest, batch, sections, primary, lock, edits, overlapped>>

(* Every root in turn; the first that fails ends the edit.                  *)
UpdateRoots(e) ==
  /\ at[e].pc = "roots"
  /\ \/ at[e].todo = {} /\ Goto(e, "lookup") /\ UNCHANGED shown
     \/ \E r \in at[e].todo :
          \/ shown' = [shown EXCEPT ![r] = Rendered(e, r)] /\ at' = [at EXCEPT ![e].todo = @ \ {r}]
          \/ shown' \in {shown, [shown EXCEPT ![r] = Rendered(e, r)]} /\ Goto(e, "failed")
  /\ UNCHANGED <<neighbour, latest, batch, sections, primary, lock, edits, overlapped>>

(* Mutant: the group is not looked for.                                     *)
LookupNone(e) ==
  /\ at[e].pc = "lookup"
  /\ at' = [at EXCEPT ![e].pc = "canvas", ![e].found = 0] \/ Goto(e, "failed")
  /\ UNCHANGED <<neighbour, shown, latest, batch, sections, primary, lock, edits, overlapped>>

(* index_batch looks for a heading that contains the group's title, and     *)
(* takes the first that Slack returns, whose group it does not look at ...  *)
Lookup(e) ==
  /\ at[e].pc = "lookup"
  /\ \/ \E i \in DOMAIN sections : at' = [at EXCEPT ![e].pc = "canvas", ![e].found = i]
     \/ sections = <<>> /\ at' = [at EXCEPT ![e].pc = "canvas", ![e].found = 0]
     \/ Goto(e, "failed")
  /\ UNCHANGED <<neighbour, shown, latest, batch, sections, primary, lock, edits, overlapped>>

(* ... and replaces it, or inserts one at the start.                        *)
IndexCanvas(e) ==
  /\ at[e].pc = "canvas"
  /\ LET indexed == IF at[e].found = 0 THEN Append(sections, e) ELSE [sections EXCEPT ![at[e].found] = e] IN
       \/ sections' = indexed /\ Goto(e, "primary")
       \/ sections' \in {sections, indexed} /\ Goto(e, "failed")
  /\ UNCHANGED <<neighbour, shown, latest, batch, primary, lock, edits, overlapped>>

(* The primary canvas gets the section too; what fails is only logged.      *)
IndexPrimary(e) ==
  /\ at[e].pc = "primary"
  /\ primary' \in {primary, e}
  /\ Goto(e, "done")
  /\ UNCHANGED <<neighbour, shown, latest, batch, sections, lock, edits, overlapped>>

(* The handler returns.  Nobody hears of an edit that failed: the message   *)
(* about it goes to the channel that the request names, and the submission  *)
(* of a view names none.  The session is dropped, neither committed nor     *)
(* closed.                                                                  *)
Return(e) ==
  /\ at[e].pc \in {"done", "failed"}
  /\ at' = [at EXCEPT ![e] = Idle]
  /\ lock' = IF lock = e THEN "dropped" ELSE lock
  /\ UNCHANGED <<neighbour, shown, latest, batch, sections, primary, edits, overlapped>>

(* The garbage collector reaches the session: it is rolled back.            *)
Collect ==
  /\ lock = "dropped"
  /\ lock' = "free"
  /\ UNCHANGED <<neighbour, shown, latest, batch, sections, primary, at, edits, overlapped>>

-----------------------------------------------------------------------------

(* The later batch posts the new root and writes both rows ...              *)
Post ==
  /\ batch = "none" /\ lock = "free"
  /\ batch' = "posted"
  /\ lock' = "worker"
  /\ shown' = [shown EXCEPT ![NewRoot].posted = TRUE]
  /\ overlapped' = (overlapped \/ \E e \in Editors : Running(e))
  /\ UNCHANGED <<neighbour, latest, sections, primary, at, edits>>

(* ... renders the prior root anew, without Latest and with its own         *)
(* details, or fails to ...                                                 *)
Retire ==
  /\ batch = "posted"
  /\ batch' = "retired"
  /\ shown' \in {shown, [shown EXCEPT ![Renewed] = [posted |-> TRUE, latest |-> FALSE, group |-> NewBatch, own |-> NewBatch]]}
  /\ UNCHANGED <<neighbour, latest, sections, primary, lock, at, edits, overlapped>>

(* ... and commits, or rolls back.                                          *)
Finish ==
  /\ batch = "retired"
  /\ \/ batch' = "committed" /\ latest' = (latest \ {Renewed}) \cup {NewRoot}
     \/ batch' = "failed" /\ UNCHANGED latest
  /\ lock' = "free"
  /\ UNCHANGED <<neighbour, shown, sections, primary, at, edits, overlapped>>

Step(e) ==
  \/ Check(e) \/ UpdateMessage(e) \/ ListRoots(e) \/ UpdateRoots(e)
  \/ Lookup(e) \/ IndexCanvas(e) \/ IndexPrimary(e) \/ Return(e)

Next ==
  \/ \E e \in Editors :
       \/ Step(e)
       \/ Cancel(e)
       \/ Submit(e)
       \/ \E m \in Messages : Open(e, m)
  \/ Collect
  \/ Post
  \/ Retire
  \/ Finish

Spec == Init /\ [][Next]_vars

(* A submission that was acknowledged runs to its end.                      *)
FairSpec == Spec /\ \A e \in Editors : WF_vars(Step(e))

-----------------------------------------------------------------------------

(* Properties. *)

(* A form that is submitted when the message is historical, or a group edit *)
(* submitted when one of its roots is, never brings the old root back: only *)
(* an edit submitted while the row was latest touches it.                   *)
RetiredStaysRetired ==
  [][\A m \in Messages \ latest :
       shown'[m] # shown[m] /\ batch = "committed" =>
         \E e \in Editors : at'[e] # at[e] /\ m \in at[e].since]_vars

(* An edit that comes to its end without an error is complete: the message  *)
(* it is about, and for a group every latest root and a section of the      *)
(* canvas, show what was entered.  No call that failed is passed over.      *)
FinishedEditIsComplete ==
  \A e \in Editors :
    at[e].pc = "done" /\ ~overlapped =>
      IF at[e].msg = Summary
        THEN /\ \A m \in latest \cap ({Summary} \cup Roots) : shown[m].group = e /\ shown[m].latest
             /\ \E i \in DOMAIN sections : sections[i] = e
        ELSE shown[at[e].msg].own = e /\ shown[at[e].msg].latest

(* The canvas does not announce what the messages do not show: when a       *)
(* section is written, every latest root of the group shows its details.    *)
CanvasAfterRoots ==
  [][\A i \in DOMAIN sections' :
       ~overlapped /\ (i \notin DOMAIN sections \/ sections'[i] # sections[i]) =>
         \A m \in latest \cap ({Summary} \cup Roots) : shown[m].group = sections'[i]]_vars

(* The group has one section, however often an edit fails after its effect  *)
(* and is submitted again, if no other heading contains its title: else the *)
(* section of the other group is lost, and the group may have two.          *)
OneSection == ~overlapped /\ ~neighbour => Len(sections) <= 1

(* Every edit that is submitted comes to its end, also when the session of  *)
(* an earlier one, not yet collected, still holds the lock.                 *)
EveryEditEnds == \A e \in Editors : at[e].pc = "check" ~> at[e].pc = "idle"

(* An edit changes what it is about: an asset edit leaves the details of    *)
(* the group on the root alone, a group edit those of the asset.            *)
EditChangesOnlyItsOwn ==
  [][\A e \in Editors, m \in Messages :
       at'[e] # at[e] /\ shown'[m] # shown[m] /\ batch = "none" /\ ~overlapped =>
         IF at[e].msg = Summary THEN shown'[m].own = shown[m].own
                                ELSE shown'[m].group = shown[m].group]_vars
=============================================================================
