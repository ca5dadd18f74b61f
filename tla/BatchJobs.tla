------------------------------ MODULE BatchJobs ------------------------------
(***************************************************************************)
(* A confirmed submission, from the modal to Slack (workflow.confirm_batch, *)
(* jobs.py, the batch tables of repositories.py, worker.run_forever).      *)
(*                                                                         *)
(* Confirming takes the channel lease and stores a PENDING batch with its  *)
(* planned operations.  A worker claims the oldest PENDING batch and runs  *)
(* its operations; the whole run, from the claim to the final status, is   *)
(* ONE database transaction.  So there are two worlds: the committed rows  *)
(* and Slack, which remembers everything, and the transaction of each      *)
(* worker, which a crash forgets.                                          *)
(*                                                                         *)
(* All batches target one channel and carry the same assets: batches of    *)
(* other channels share none of these rows.                                *)
(***************************************************************************)
EXTENDS LeaseRules, Sequences, FiniteSets

CONSTANTS
  Workers,      \* worker processes on the same database
  Batches,      \* batches users may confirm
  NoBatch,      \* what an idle worker runs
  OwnerOf,      \* the submitter of each batch
  Containing,   \* for each batch, the batches whose group title contains its own
  NumAssets,    \* assets 1..NumAssets, in the order of the payload
  Mirrored,     \* whether the groups are mirrored on the primary canvas
  Failing,      \* the calls of Slack that may be refused or whose answer may be lost
  Escaping,     \* the calls of Slack that may fail with an error no handler expects
  Databases,    \* the databases the program may run on
  MaxTime,      \* bound on the clock
  MaxCrashes,   \* bound on the crashes of workers
  MaxRetries    \* bound on the retries of failed batches

(* The kinds of operations, the permalink asked for after a message, and    *)
(* the progress message to the submitter.                                   *)
Calls == {"post_summary", "post_asset", "index_asset", "retire_prior_latest",
          "finalize_summary", "permalink", "progress"}

ASSUME BatchAssumption ==
  /\ NoBatch \notin Batches
  /\ DOMAIN OwnerOf = Batches
  /\ Containing \in [Batches -> SUBSET Batches] /\ \A b \in Batches : b \in Containing[b]
  /\ NumAssets \in Nat \ {0}
  /\ Mirrored \in BOOLEAN
  /\ Failing \subseteq Calls /\ Escaping \subseteq Calls
  /\ Databases \subseteq {"sqlite", "postgresql"} /\ Databases # {}
  /\ MaxTime \in Nat /\ MaxCrashes \in Nat /\ MaxRetries \in Nat

VARIABLES
  now,       \* the clock
  lease,     \* committed: the channel's lease
  row,       \* committed: each batch with its operations and their results
  latest,    \* committed: the root marked latest in the history of each asset
  tx,        \* the open transaction of each worker
  messages,  \* Slack: the channel's messages, by timestamp
  canvas,    \* Slack: the sections of the channel's canvas, by age: a group and its roots
  crashes,   \* crashes so far
  retries,   \* retries so far
  database   \* the database of this deployment

vars == <<now, lease, row, latest, tx, messages, canvas, crashes, retries,
          database>>
committed == <<lease, row, latest>>
bounds    == <<crashes, retries>>

-----------------------------------------------------------------------------

(* The plan. *)

Assets == 1..NumAssets

AssetKinds ==
  IF Mirrored
    THEN <<"post_asset", "index_asset", "index_primary_asset", "retire_prior_latest">>
    ELSE <<"post_asset", "index_asset", "retire_prior_latest">>
PerAsset == IF Mirrored THEN 4 ELSE 3

(* The operations of a batch, numbered in the order they run.               *)
Last == NumAssets * PerAsset + 2
Steps == 1..Last

KindAt(s) ==
  IF s = 1 THEN "post_summary"
  ELSE IF s = Last THEN "finalize_summary"
  ELSE AssetKinds[1 + ((s - 2) % PerAsset)]
AssetAt(s) == 1 + ((s - 2) \div PerAsset)
PostStep(a) == 2 + (a - 1) * PerAsset

OpStatus == {"pending", "running", "succeeded", "failed"}
BatchStatus == {"none", "pending", "running", "succeeded", "failed"}

(* A lease token stands for the batch it was issued for and how often it    *)
(* has been renewed; a renewal issues a new token.                          *)
Tokens == (Batches \cup {NoBatch}) \X Nat
NextToken(token) == <<token[1], token[2] + 1>>

(* A batch that is not confirmed yet; timestamp 0 is no message.            *)
Blank ==
  [status  |-> "none",
   born    |-> 0,
   token   |-> <<NoBatch, 0>>,
   ops     |-> [s \in Steps |-> "pending"],
   summary |-> 0,
   root    |-> [a \in Assets |-> 0],
   prior   |-> [a \in Assets |-> 0]]

Rows ==
  [status : BatchStatus, born : Nat, token : Tokens, ops : [Steps -> OpStatus],
   summary : Nat, root : [Assets -> Nat], prior : [Assets -> Nat]]

(* A transaction: the batch it runs, its copy of the batch's row, the token *)
(* it read from the payload, the lease if it has written it, the roots it   *)
(* has recorded, and the message it has posted but not recorded.            *)
NoTx ==
  [pc |-> "idle", batch |-> NoBatch, step |-> 1, row |-> Blank, mine |-> <<NoBatch, 0>>,
   touched |-> FALSE, lease |-> NoLease, roots |-> [a \in Assets |-> 0], ts |-> 0, seen |-> 0]

Leases == [owner : {OwnerOf[b] : b \in Batches}, token : Tokens, expires : Nat] \cup {NoLease}

Shown == {"creating", "complete", "partial", "latest", "root"}
Messages == [batch : Batches, step : Steps, shown : Shown]
Sections == [group : Batches, roots : SUBSET (1..Len(messages))]

TypeOK ==
  /\ now \in 0..MaxTime
  /\ lease \in Leases
  /\ row \in [Batches -> Rows]
  /\ latest \in [Assets -> 0..Len(messages)]
  /\ tx \in [Workers -> [pc : {"idle", "claim", "start", "run", "record"},
                         batch : Batches \cup {NoBatch}, step : 1..Last + 1, row : Rows,
                         mine : Tokens, touched : BOOLEAN, lease : Leases,
                         roots : [Assets -> Nat], ts : Nat, seen : Nat]]
  /\ \A w \in Workers : tx[w].pc # "idle" => tx[w].batch \in Batches
  /\ messages \in Seq(Messages)
  /\ canvas \in Seq(Sections)
  /\ crashes \in 0..MaxCrashes /\ retries \in 0..MaxRetries
  /\ database \in Databases

-----------------------------------------------------------------------------

(* Transactions. *)

Running(w) == tx[w].pc \in {"start", "run", "record"}
Others(w) == Workers \ {w}

(* A row written by an open transaction keeps the others waiting.           *)
RowFree(w, b) == \A v \in Others(w) : Running(v) => tx[v].batch # b
(* On SQLite an open transaction locks the whole database.                  *)
OneWriter == database = "sqlite"
DatabaseFree(w) == OneWriter => \A v \in Others(w) : ~Running(v)

(* The lease as the transaction t sees it.                                  *)
LeaseIn(t) == IF t.touched THEN t.lease ELSE lease

(* _renew_lease: the new token goes to the payload in the database, the     *)
(* running executor keeps the one it read; a refused renewal is ignored.    *)
Renewed(t) ==
  IF MayRenew(LeaseIn(t), OwnerOf[t.batch], t.mine, now)
    THEN LET token == NextToken(t.mine)
         IN  [t EXCEPT !.touched = TRUE,
                       !.lease = Granted(OwnerOf[t.batch], token, now),
                       !.row.token = token]
    ELSE t

(* _update_progress: when the progress message reaches the submitter, the   *)
(* executor's own payload replaces the one in the database.                 *)
Told(t) == [t EXCEPT !.row.token = t.mine]
MayTell(t) == {Told(t)} \cup (IF "progress" \in Failing THEN {t} ELSE {})

(* Mutant: a retry runs every operation again.                              *)
EveryStep(ops, after) == after + 1

(* Operations that succeeded are skipped.                                   *)
NextStep(ops, after) ==
  CHOOSE s \in (after + 1)..(Last + 1) :
    /\ s = Last + 1 \/ ops[s] # "succeeded"
    /\ \A r \in (after + 1)..(s - 1) : ops[r] = "succeeded"

Ended(t, status) ==
  [t EXCEPT !.pc = "run", !.ts = 0, !.seen = 0,
            !.row.ops[t.step] = status, !.step = NextStep(t.row.ops, t.step)]

Succeeded(t) == Renewed(Ended(t, "succeeded"))

(* Mutant: stopping after the summary jumps past the end.                   *)
FailedTooFar(t) ==
  IF KindAt(t.step) = "post_summary"
    THEN [Ended(t, "failed") EXCEPT !.step = Last + 2]
    ELSE Ended(t, "failed")

(* A failed operation does not stop the others, unless it is the summary.   *)
Failed(t) ==
  IF KindAt(t.step) = "post_summary"
    THEN [Ended(t, "failed") EXCEPT !.step = Last + 1]
    ELSE Ended(t, "failed")

Becomes(w, t) == tx' = [tx EXCEPT ![w] = t]

At(w, pc, kind) == tx[w].pc = pc /\ tx[w].step \in Steps /\ KindAt(tx[w].step) = kind

MayFail(w) == (IF tx[w].pc = "record" THEN "permalink" ELSE KindAt(tx[w].step)) \in Failing

(* _require_succeeded_asset_op                                              *)
PostSucceeded(t) == t.row.ops[PostStep(AssetAt(t.step))] = "succeeded"

-----------------------------------------------------------------------------

Init ==
  /\ now = 0
  /\ lease = NoLease
  /\ row = [b \in Batches |-> Blank]
  /\ latest = [a \in Assets |-> 0]
  /\ tx = [w \in Workers |-> NoTx]
  /\ messages = <<>>
  /\ canvas = <<>>
  /\ crashes = 0 /\ retries = 0
  /\ database \in Databases

Tick ==
  /\ now < MaxTime
  /\ now' = now + 1
  /\ UNCHANGED <<committed, tx, messages, canvas, bounds, database>>

(* confirm_batch: the lease, the batch and its plan are committed together. *)
(* A user who does not get the lease is told so, and nothing changes.       *)
Confirm(b) ==
  /\ row[b].status = "none"
  /\ MayAcquire(lease, OwnerOf[b], now)
  /\ \A w \in Workers : ~tx[w].touched /\ (OneWriter => ~Running(w))
  /\ lease' = Granted(OwnerOf[b], <<b, 0>>, now)
  /\ row' = [row EXCEPT ![b].status = "pending", ![b].token = <<b, 0>>,
                        ![b].born = 1 + Cardinality({c \in Batches : row[c].status # "none"})]
  /\ UNCHANGED <<now, latest, tx, messages, canvas, bounds, database>>

(* Mutant: workers skip the rows that others have locked.                   *)
SelectUnlocked(w) ==
  /\ tx[w].pc = "idle"
  /\ \E b \in Batches :
       /\ row[b].status = "pending" /\ RowFree(w, b)
       /\ \A c \in Batches : row[c].status = "pending" /\ RowFree(w, c) => row[b].born <= row[c].born
       /\ Becomes(w, [NoTx EXCEPT !.pc = "claim", !.batch = b])
  /\ UNCHANGED <<now, committed, messages, canvas, bounds, database>>

(* claim_next_pending reads the oldest PENDING batch ...                    *)
Select(w) ==
  /\ tx[w].pc = "idle"
  /\ \E b \in Batches :
       /\ row[b].status = "pending"
       /\ \A c \in Batches : row[c].status = "pending" => row[b].born <= row[c].born
       /\ Becomes(w, [NoTx EXCEPT !.pc = "claim", !.batch = b])
  /\ UNCHANGED <<now, committed, messages, canvas, bounds, database>>

(* Mutant: a retry starts the batch from nothing.                           *)
BegunAfresh(b) ==
  [NoTx EXCEPT !.pc = "start", !.batch = b, !.mine = row[b].token,
               !.row = [row[b] EXCEPT !.status = "running", !.ops = Blank.ops]]

Begun(b) ==
  [NoTx EXCEPT !.pc = "start", !.batch = b, !.mine = row[b].token,
               !.row = [row[b] EXCEPT !.status = "running"]]

(* Mutant: the status selected is not compared again.                       *)
ClaimUnchecked(w) ==
  /\ tx[w].pc = "claim"
  /\ RowFree(w, tx[w].batch) /\ DatabaseFree(w)
  /\ Becomes(w, Begun(tx[w].batch))
  /\ UNCHANGED <<now, committed, messages, canvas, bounds, database>>

(* ... and makes it RUNNING if it is still PENDING.  On SQLite a worker     *)
(* that waits too long for the database gives up and starts over.           *)
Claim(w) ==
  /\ tx[w].pc = "claim"
  /\ \/ /\ RowFree(w, tx[w].batch) /\ DatabaseFree(w)
        /\ Becomes(w, IF row[tx[w].batch].status = "pending" THEN Begun(tx[w].batch) ELSE NoTx)
     \/ ~DatabaseFree(w) /\ Becomes(w, NoTx)
  /\ UNCHANGED <<now, committed, messages, canvas, bounds, database>>

(* retry_failed, in a transaction of its own.                               *)
Retry(w, b) ==
  /\ retries < MaxRetries
  /\ tx[w].pc = "idle"
  /\ row[b].status = "failed"
  /\ RowFree(w, b) /\ DatabaseFree(w)
  /\ Becomes(w, Begun(b))
  /\ retries' = retries + 1
  /\ UNCHANGED <<now, committed, messages, canvas, crashes, database>>

(* _run_batch begins: the lease is renewed and the submitter is told.       *)
Start(w) ==
  /\ tx[w].pc = "start"
  /\ \E t \in MayTell(Renewed(tx[w])) :
       Becomes(w, [t EXCEPT !.pc = "run", !.step = NextStep(t.row.ops, 0)])
  /\ UNCHANGED <<now, committed, messages, canvas, bounds, database>>

-----------------------------------------------------------------------------

(* The operations.  A call that fails may have had its effect all the same. *)

Posts(w, shown) ==
  messages' = Append(messages, [batch |-> tx[w].batch, step |-> tx[w].step, shown |-> shown])

PostSummary(w) ==
  /\ At(w, "run", "post_summary")
  /\ \/ /\ Posts(w, "creating")
        /\ Becomes(w, [tx[w] EXCEPT !.pc = "record", !.ts = Len(messages) + 1])
     \/ MayFail(w) /\ Becomes(w, Failed(tx[w])) /\ UNCHANGED messages
  /\ UNCHANGED <<now, committed, canvas, bounds, database>>

(* The permalink is asked for, then the message goes to the history.        *)
RecordSummary(w) ==
  /\ At(w, "record", "post_summary")
  /\ \/ Becomes(w, Succeeded([tx[w] EXCEPT !.row.summary = tx[w].ts]))
     \/ MayFail(w) /\ Becomes(w, Failed(tx[w]))
  /\ UNCHANGED <<now, committed, messages, canvas, bounds, database>>

(* The root that is latest now is read before the new one is posted.        *)
PostAsset(w) ==
  /\ At(w, "run", "post_asset")
  /\ \/ /\ Posts(w, "latest")
        /\ Becomes(w, [tx[w] EXCEPT !.pc = "record", !.ts = Len(messages) + 1,
                                    !.seen = latest[AssetAt(tx[w].step)]])
     \/ MayFail(w) /\ Becomes(w, Failed(tx[w])) /\ UNCHANGED messages
  /\ UNCHANGED <<now, committed, canvas, bounds, database>>

(* Mutant: the operation's result lacks the prior root.                     *)
RecordAssetForgets(w) ==
  /\ At(w, "record", "post_asset")
  /\ LET t == tx[w]
         a == AssetAt(t.step)
     IN  /\ \A v \in Others(w) : tx[v].roots[a] = 0
         /\ Becomes(w, Succeeded([t EXCEPT !.roots[a] = t.ts, !.row.root[a] = t.ts]))
  /\ UNCHANGED <<now, committed, messages, canvas, bounds, database>>

(* history.record waits for any transaction that has recorded a root of the *)
(* same asset (advisory lock, unique index).                                *)
RecordAsset(w) ==
  /\ At(w, "record", "post_asset")
  /\ LET t == tx[w]
         a == AssetAt(t.step)
     IN  \/ /\ \A v \in Others(w) : tx[v].roots[a] = 0
            /\ Becomes(w, Succeeded([t EXCEPT !.roots[a] = t.ts, !.row.root[a] = t.ts,
                                              !.row.prior[a] = t.seen]))
         \/ MayFail(w) /\ Becomes(w, Failed(t))
  /\ UNCHANGED <<now, committed, messages, canvas, bounds, database>>

(* _indexed_assets_for_group                                                *)
IndexedRoots(t) == {t.row.root[a] : a \in {a \in Assets : t.row.ops[PostStep(a)] = "succeeded"}}

(* Mutant: whatever section is found is taken for the group's.              *)
IndexesAny(t) ==
  LET section == [group |-> t.batch, roots |-> IndexedRoots(t)]
  IN  \/ \E i \in DOMAIN canvas : canvas' = [canvas EXCEPT ![i] = section]
      \/ canvas = <<>> /\ canvas' = Append(canvas, section)

(* index_batch: the group's section, with every root posted so far, takes   *)
(* the place of one whose heading contains the group's title, and this may  *)
(* be the section of another group; when there is none it is inserted.      *)
Indexes(t) ==
  LET found == {i \in DOMAIN canvas : canvas[i].group \in Containing[t.batch]}
      section == [group |-> t.batch, roots |-> IndexedRoots(t)]
  IN  \/ \E i \in found : canvas' = [canvas EXCEPT ![i] = section]
      \/ found = {} /\ canvas' = Append(canvas, section)

IndexAsset(w) ==
  /\ At(w, "run", "index_asset")
  /\ \/ /\ PostSucceeded(tx[w])
        /\ Indexes(tx[w])
        /\ \/ \E t \in MayTell(Ended(tx[w], "succeeded")) : Becomes(w, Renewed(t))
           \/ MayFail(w) /\ Becomes(w, Failed(tx[w]))
     \/ /\ ~PostSucceeded(tx[w]) \/ MayFail(w)
        /\ Becomes(w, Failed(tx[w]))
        /\ UNCHANGED canvas
  /\ UNCHANGED <<now, committed, messages, bounds, database>>

(* The mirror on the primary canvas is best effort: whatever happens to it, *)
(* the operation succeeds, and nothing ever reads it.                       *)
IndexPrimaryAsset(w) ==
  /\ At(w, "run", "index_primary_asset")
  /\ Becomes(w, Succeeded(tx[w]))
  /\ UNCHANGED <<now, committed, messages, canvas, bounds, database>>

(* Mutant: the root to retire is looked up after the new one is recorded.   *)
RetireCurrentLatest(w) ==
  /\ At(w, "run", "retire_prior_latest")
  /\ LET t == tx[w]
         prior == t.roots[AssetAt(t.step)]
     IN  IF PostSucceeded(t) /\ prior # 0
           THEN messages' = [messages EXCEPT ![prior].shown = "root"] /\ Becomes(w, Succeeded(t))
           ELSE Becomes(w, Failed(t)) /\ UNCHANGED messages
  /\ UNCHANGED <<now, committed, canvas, bounds, database>>

RetirePriorLatest(w) ==
  /\ At(w, "run", "retire_prior_latest")
  /\ LET t == tx[w]
         prior == t.row.prior[AssetAt(t.step)]
     IN  \/ PostSucceeded(t) /\ prior = 0 /\ Becomes(w, Succeeded(t)) /\ UNCHANGED messages
         \/ /\ PostSucceeded(t) /\ prior # 0
            /\ messages' = [messages EXCEPT ![prior].shown = "root"]
            /\ Becomes(w, Succeeded(t)) \/ (MayFail(w) /\ Becomes(w, Failed(t)))
         \/ /\ ~PostSucceeded(t) \/ (MayFail(w) /\ prior # 0)
            /\ Becomes(w, Failed(t))
            /\ UNCHANGED messages
  /\ UNCHANGED <<now, committed, canvas, bounds, database>>

(* The summary says whether every root was posted.                          *)
FinalizeSummary(w) ==
  /\ At(w, "run", "finalize_summary")
  /\ LET t == tx[w]
         outcome == IF \E a \in Assets : t.row.ops[PostStep(a)] = "failed" THEN "partial" ELSE "complete"
     IN  \/ /\ messages' = [messages EXCEPT ![t.row.summary].shown = outcome]
            /\ Becomes(w, Succeeded(t)) \/ (MayFail(w) /\ Becomes(w, Failed(t)))
         \/ MayFail(w) /\ Becomes(w, Failed(t)) /\ UNCHANGED messages
  /\ UNCHANGED <<now, committed, canvas, bounds, database>>

(* _run_batch ends: final status, release, last progress, commit.           *)
Finish(w) ==
  /\ tx[w].pc = "run" /\ tx[w].step = Last + 1
  /\ LET b == tx[w].batch
         final == IF \E s \in Steps : tx[w].row.ops[s] = "failed" THEN "failed" ELSE "succeeded"
         held == LeaseIn(tx[w])
     IN  /\ \E t \in MayTell(tx[w]) : row' = [row EXCEPT ![b] = [t.row EXCEPT !.status = final]]
         /\ lease' = IF MayRelease(held, OwnerOf[b], tx[w].mine) THEN NoLease ELSE held
         /\ latest' = [a \in Assets |-> IF tx[w].roots[a] = 0 THEN latest[a] ELSE tx[w].roots[a]]
  /\ Becomes(w, NoTx)
  /\ UNCHANGED <<now, messages, canvas, bounds, database>>

(* Mutant: the claim was committed before the run.                          *)
CrashStrands(w) ==
  /\ crashes < MaxCrashes
  /\ Running(w)
  /\ row' = [row EXCEPT ![tx[w].batch].status = "running"]
  /\ Becomes(w, NoTx)
  /\ crashes' = crashes + 1
  /\ UNCHANGED <<now, lease, latest, messages, canvas, retries, database>>

(* The worker dies: the transaction is rolled back, the worker starts anew. *)
Crash(w) ==
  /\ crashes < MaxCrashes
  /\ Running(w)
  /\ Becomes(w, NoTx)
  /\ crashes' = crashes + 1
  /\ UNCHANGED <<now, committed, messages, canvas, retries, database>>

(* The call of Slack that the transaction t makes next, if it makes one.    *)
NextCall(t) ==
  CASE t.pc = "start" \/ t.step = Last + 1            -> "progress"
    [] t.pc = "record"                                -> "permalink"
    [] KindAt(t.step) = "index_asset"                 -> IF PostSucceeded(t) THEN "index_asset" ELSE "none"
    [] KindAt(t.step) = "retire_prior_latest"         ->
         IF PostSucceeded(t) /\ t.row.prior[AssetAt(t.step)] # 0 THEN "retire_prior_latest" ELSE "none"
    [] OTHER                                          -> KindAt(t.step)

(* Slack does not find the channel, message, canvas or user, or will not    *)
(* have the message updated.  These errors are no ExternalServiceError, so  *)
(* no handler of the executor takes them: the worker dies of them, and will *)
(* again when it claims the same batch.  Before a run has done anything     *)
(* this may go on for ever; later, MaxCrashes bounds it.                    *)
Escape(w) ==
  /\ Running(w)
  /\ \/ NextCall(tx[w]) \in Escaping /\ UNCHANGED canvas
     \/ /\ "progress" \in Escaping
        /\ At(w, "run", "index_asset") /\ PostSucceeded(tx[w])
        /\ Indexes(tx[w])
  /\ IF tx[w].step = 1 /\ tx[w].pc # "record"
       THEN UNCHANGED crashes
       ELSE crashes < MaxCrashes /\ crashes' = crashes + 1
  /\ Becomes(w, NoTx)
  /\ UNCHANGED <<now, committed, messages, retries, database>>

-----------------------------------------------------------------------------

Operation(w) ==
  \/ PostSummary(w) \/ RecordSummary(w)
  \/ PostAsset(w) \/ RecordAsset(w)
  \/ IndexAsset(w) \/ IndexPrimaryAsset(w)
  \/ RetirePriorLatest(w) \/ FinalizeSummary(w)

Work(w) == Select(w) \/ Claim(w) \/ Start(w) \/ Operation(w) \/ Finish(w)

Next ==
  \/ Tick
  \/ \E b \in Batches : Confirm(b)
  \/ \E w \in Workers : Work(w) \/ Crash(w) \/ Escape(w)
  \/ \E w \in Workers, b \in Batches : Retry(w, b)

Spec == Init /\ [][Next]_vars

(* run_forever polls for ever and runs a claimed batch to its end.          *)
FairSpec == Spec /\ \A w \in Workers : WF_vars(Work(w))

-----------------------------------------------------------------------------

(* Properties. *)

(* A batch is run by one worker at a time, and never once it has succeeded: *)
(* two workers may have selected it before either made it RUNNING.          *)
ExclusiveRun ==
  \A w \in Workers : Running(w) =>
    RowFree(w, tx[w].batch) /\ row[tx[w].batch].status \in {"pending", "failed"}

IsMessage(ts, b, s) == ts \in 1..Len(messages) /\ messages[ts].batch = b /\ messages[ts].step = s

(* No other group has a title that is part of this one's.                   *)
Apart(b) == \A c \in Batches : b \in Containing[c] => c = b

Listed(b) == UNION {canvas[i].roots : i \in {i \in DOMAIN canvas : canvas[i].group = b}}

(* A batch that reads SUCCEEDED is what the channel shows: its summary, no  *)
(* longer "creating", and for each asset a root of this batch, whatever     *)
(* runs of it failed or died before.  The canvas lists these roots for good *)
(* only if no title is part of the group's: "S31 Wildcard", indexed later,  *)
(* takes the section of "S31 Wildcard 2".                                   *)
SucceededIsPosted ==
  \A b \in Batches : row[b].status = "succeeded" =>
    /\ IsMessage(row[b].summary, b, 1) /\ messages[row[b].summary].shown # "creating"
    /\ \A a \in Assets : /\ IsMessage(row[b].root[a], b, PostStep(a))
                         /\ Apart(b) => row[b].root[a] \in Listed(b)

(* "Retrying a failed batch never recreates successful summary or asset     *)
(* messages": nothing is posted for an operation stored as succeeded.       *)
NoRepostAfterSuccess ==
  [][\A ts \in (Len(messages) + 1)..Len(messages') :
       row[messages'[ts].batch].ops[messages'[ts].step] # "succeeded"]_vars

Quiet == \A w \in Workers : ~Running(w)

(* Unless a worker died half way, the root the history calls latest is      *)
(* shown as Latest, and was posted for that asset.                          *)
LatestShown ==
  Quiet /\ crashes = 0 => \A a \in Assets : latest[a] # 0 =>
    messages[latest[a]].step = PostStep(a) /\ messages[latest[a]].shown = "latest"

Marked(a) ==
  {ts \in 1..Len(messages) : messages[ts].step = PostStep(a) /\ messages[ts].shown = "latest"}

(* The database knows every message of the channel.                         *)
AllRecorded ==
  \A ts \in 1..Len(messages) : LET b == messages[ts].batch IN
    ts = row[b].summary \/ \E a \in Assets : ts = row[b].root[a]

(* "Duplicate runs create new roots and leave exactly one Latest marker":   *)
(* when every batch has succeeded and no message was lost on the way.       *)
OneLatest ==
  /\ Quiet
  /\ AllRecorded
  /\ \A b \in Batches : row[b].status \in {"none", "succeeded"}
  => \A a \in Assets : Marked(a) = {latest[a]} \ {0}

(* Every batch a user confirmed reaches a final status, in the end none is  *)
(* left PENDING or RUNNING, if the errors no handler expects come to an     *)
(* end.  While they go on, the oldest batch is claimed again and again and  *)
(* all the others wait.                                                     *)
EveryBatchEnds ==
  <>[][\A w \in Workers : ~Escape(w)]_vars =>
    <>[](\A b \in Batches : row[b].status \notin {"pending", "running"})

(* To the rest of the system a run is one step.                             *)
Ledger == INSTANCE BatchLedger WITH
  status <- [b \in Batches |-> row[b].status],
  done <- [b \in Batches |-> {s \in Steps : row[b].ops[s] = "succeeded"}]
ImplementsLedger == Ledger!Spec

(* "Only one batch may process in a channel at a time."                     *)
OneBatchPerChannel == \A v, w \in Workers : Running(v) /\ Running(w) => v = w

(* "Release the channel lease on terminal success or failure."              *)
LeaseReleased ==
  \A b \in Batches : row[b].status \in {"succeeded", "failed"} =>
    lease = NoLease \/ lease.token[1] # b \/ lease.expires < now
=============================================================================
