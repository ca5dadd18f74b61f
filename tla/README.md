# A TLA+ verification of RED Team Prop Threader

The program turns ShotGrid assets into Slack threads. People confirm batches of
assets in a Slack modal; a worker posts a group summary and one root message
per asset, keeps an index canvas and marks the newest root of an asset as
Latest. The same worker drains a directory of a file share in which ReviewPrep,
another program, drops jobs: replies to existing threads and whole groups of
threads to mint. Postgres or SQLite holds batches, operations, history and
leases; the share holds ledgers, receipts and season files; Slack is the third
store, and the only one that no transaction covers.

Paths below are relative to `src/red_team_prop_threader/` in the repository.

## Inventory

| Part | State | Operations | What is hard | What makes it correct |
| --- | --- | --- | --- | --- |
| Batch execution (`jobs.py`) | operations and results of a batch, its payload | plan, run, retry, six kinds of operation | one transaction around many Slack calls; stale payload copies; failure of one step of several | a succeeded batch is in the channel; success is never repeated; one Latest root |
| Tables (`repositories.py`, `tables.py`) | batches, operations, messages, drafts, groups | transitions, claim, record, purge | compare-and-set between workers; unique latest row | a batch runs once at a time; history and channel agree |
| Channel lease (`leases.py`) | one row per channel | acquire, renew, release | the clock is read before the wait for the row; two dialects | exclusive between users; no theft; every call returns |
| Worker loop (`worker.py`, `db.py`) | none | poll, claim, drain | crashes, several workers | every confirmed batch ends |
| Thread messages (`thread_message_jobs.py`, `cl_jobs.py`) | inbox, done, receipts, sent.json, failed.json | drain, claim, post, stamp, fail, move | no locks on the share; torn and refused writes; crashes; lost answers | at most one reply; truthful ledgers; no silent loss; the inbox drains |
| Mint group jobs (`mint_group_jobs.py`) | the same share, groups, history, season files | post roots, share threads, abort, index | partial abort across three stores; restart in the middle | what is left is all or nothing |
| Season spokes, adoption (`spokes.py`, `adopt.py`) | season files | upsert, adopt | compare, then write, without a lock | no entry of another asset is lost |
| Wizard (`workflow.py`, `slack_app.py`) | drafts in memory, the view on the screen | command, canvas, import, pages, confirm | handlers that overlap, an answer that is lost, a view that outlives its draft, confirming twice | a confirmation becomes one batch of what was reviewed |
| Edits (`edits.py`, `slack_app.py`, `web.py`) | snapshots in history, a session per edit | open, apply | a newer root meanwhile; calls that fail half way; sessions that nobody ends | historical roots stay; an edit that ends without an error is complete |
| Canvas (`canvas.py`) | index canvas | preflight, ensure, index | finding the right canvas and section, by a title that other headings may contain | a group keeps one section, and no other group takes it |
| Retention (`retention.py`) | drafts, payloads | purge | nothing that runs reads what it purges | - |
| Listeners, gateways, views, validation, settings | none of their own | translate and render | - | - |

Batches: the modal calls `confirm_batch`, which commits a lease, a PENDING
batch and its plan; the worker finds the batch by polling. Lease: taken by the
web process, renewed and released by the worker with the token in the payload. Edits: the web
process reads the history the worker wrote, and writes to the same messages and
the same canvas without a lock between the two.
Share: ReviewPrep and the worker meet only in files.

## Modules

| Module | Models | Runs |
| --- | --- | --- |
| `ThreadDelivery` | the drain of thread messages, one access to the share or to Slack per action | `MCThreadDelivery` |
| `ReplyLedger` | what a receipt promises: one claim, one post, one outcome | as a property of `ThreadDelivery` |
| `ThreadDeliveryProofs` | theorems about it | - |
| `LeaseRules` | when a lease may be taken, renewed, released | through the next two |
| `ChannelLease` | the lease row and the clients that call for it, on both databases | `MCChannelLease` |
| `SingleLease` | what the row promises: one lease that changes hands in single steps | as a property of `ChannelLease` |
| `ChannelLeaseProofs` | theorems about it | - |
| `BatchJobs` | confirmation, claim, run, retry and crash of batches of one channel | `MCBatchJobs` |
| `BatchJobsProofs` | who runs a batch: theorems | - |
| `BatchResultsProofs` | what a run leaves behind: theorems | - |
| `BatchLatestProofs` | which batch runs, which root is the latest: theorems | - |
| `BatchLedger` | what the tables promise: a run is one step | as a property of `BatchJobs` |
| `SeasonSpokes` | a season file and the processes that add entries to it | through the next |
| `MintGroup` | mint_group jobs and adoptions over Slack, the database, the season file and the share | `MCMintGroup` |
| `MintGroupProofs` | theorems about it | - |
| `CanvasIndex` | what is to be done about the canvas of a channel | through the next |
| `DraftWizard` | the modal that leads from the command to a batch, and its handlers | `MCDraftWizard` |
| `DraftWizardProofs` | theorems about it | - |
| `Edits` | edits of posted messages beside a later batch | `MCEdits` |
| `EditsProofs` | theorems about it | - |

### ThreadDelivery

`inbox`, `images` and `done` are the files of `slack_jobs/`; `receipt` is the
file of each content fingerprint in `delivery_receipts/`; `sent` and `failed`
are the readable job ids of the two ledgers; `posts` counts what Slack shows.
`pc`, `job`, `todo` and `view` are a worker's place in the code, its job, the
rest of its listing, and the ledger it has read and not written back. Each
function of the drain becomes the accesses it makes, in order: `CheckJob`,
`CheckSent`, `Claim` (create the receipt exclusively), `RecordClaim` (write its
text), `Post`, `FinishReceipt`, `StampRead`/`StampWrite`, `FailRead`/`FailWrite`,
`MoveJson`, `MoveImages`. A share that refuses (`ShareDenies`) makes each of
them fail the way its `except` clause does. A ledger that cannot be renamed
into place is rewritten in place, so a reader may find it torn. Slack accepts,
refuses, or accepts and loses the answer. A crash keeps the files and Slack.

Abstracted: the text of messages and mentions, the order of the listing (job
ids are random), the number of write retries (one), the records' other fields.

### ReplyLedger

The abstract specification of a delivery: a content is claimed once, posted at
most once and only between the claim and its outcome, and the outcome says "sent"
only of what was posted. `ThreadDelivery` implements it under the mapping
`Replies` (a receipt that is created and not yet written is a claim):
`ImplementsReplies`. The ledgers, the inbox and the job ids do not appear in it: they
are how a failure is reported, and the promise must hold without them.

### LeaseRules and ChannelLease

`saved` is the committed row, `row` what the transaction of `writer` has made of
it; other statements wait for `writer`, as for a row lock in PostgreSQL or the
write lock in SQLite, where they give up after the busy timeout. `Call` reads
the clock (`at`), and any time may pass before the statement. On PostgreSQL
acquiring is up to three statements (`AcquirePg`, `InsertPg`, `AgainPg`), on
SQLite one upsert. Each call is a transaction of its own here; `BatchJobs` has
the long transaction of the worker with its many renewals.

### SingleLease

The abstract specification of the lease: it is granted for at most `TTL` from the
moment of the step, passes to another owner only when it has run out, is never
shortened by its owner, and a new grant replaces the token. `ChannelLease` implements
it under the mapping `Lease` (the committed row): `ImplementsLease`. The step is the
commit; the statement, its wait and the reading of the clock come before it.

### BatchJobs

All batches are for one channel and carry the same assets. `row`, `lease` and
`latest` are committed; `tx` is each worker's open transaction: its copy of the
batch's row, the token it read (`mine`), the lease if it has written it, the
roots it has recorded. The whole run is one transaction, so `Finish` commits
everything and `Crash` forgets everything, but `messages` and `canvas` are
Slack and stay. `Failing` names the operations in which a Slack call may be
refused or its answer lost. `canvas` is the list of sections: `Indexes` takes any
section whose heading contains the group's title, and only if there is none inserts
one. Which titles contain which is the constant `Containing`; `Apart` are the groups
that no other group's title is a part of. The mirror on the primary canvas is an operation
that always succeeds; its content, which nothing reads, is left out. Operations are numbered as `BatchPlanner.plan` orders them;
`KindAt` and `AssetAt` say what an operation is. An operation that posts is two
actions, the post and what is done with its timestamp, because the permalink or
the insert between them may fail. `Renewed` and `Told` are `_renew_lease` and
`_update_progress`, which write different tokens to the same payload. `database`
says which database it is: on SQLite an open transaction locks all of it
(`OneWriter`).

`Crash` is a worker that dies, or is stopped; the watchdog starts a new process.
`Escape` is an error of Slack that no handler expects: `NotFoundError` and
`ConflictError` (`slack_gateway.py:663-666`) are no `ExternalServiceError`, so they
pass `jobs.py:325-331` and end `run_forever`, and do so again whenever the same
batch is claimed. `Escaping` names the calls that may fail like this, `NextCall` the
call that is next. At the first operation, before the run has changed anything, an
escape may happen for ever, since it leads back to the same state; later ones count
as crashes.

`Retry` is `retry_failed`, which the design describes and the tests call; the
worker has no caller for it.

### BatchLedger

The abstract specification: a batch is submitted, and run or run again in one
step that may complete more operations; a batch has succeeded exactly when all
of them have. `BatchJobs` implements it under the mapping `Ledger` (the committed
statuses): `ImplementsLedger`.

### SeasonSpokes and MintGroup

`SeasonSpokes` holds one season file, `season`: whether it is empty, broken or
JSON, and the thread it gives each asset. `upsert` is the place of each process
in `upsert_season_spoke`, whose four accesses are four actions: `ReadSeason`,
`CompareSeason` (and one more attempt), `Truncate` and `WriteSeason`, the last two
being what `write_bytes` does. Whoever reads in between finds an empty or a
broken file, which the lookups take for one without entries.

`MintGroup` extends it with the other three stores. Slack is `log` (every message
ever posted), `shown` (those not deleted) and `index` (the canvas); the database
is `db` and the open transaction `tx`; the share is `inbox`, `result`, `sent` and
`failed`. `run` is the worker's attempt at a job: the phase, the outcomes of the
assets (`made`, `lost`, `skipped`), the threads posted, and the messages an
aborted attempt must delete (`posted`). The actions follow `_Run.run` and
`process_mint_group_job` from `TakeJob` to `MoveToDone`; every call may fail and
does what its `except` clause, or the lack of one, does: `Raise` rolls back and
goes to `DiscardPosts`, and an error of the share after that leaves the job in
the inbox. `adoption` is an adoption of the web process (`AdoptIndex`,
`AdoptHistory`, `AdoptNew`, `AdoptWrite`). `kept` and `stranded` are no state of the
code: they record which messages belong to a committed attempt, and which their
author cannot know of or was refused to delete.

Abstracted: the jobs are live, for one group, channel and season, and one worker
drains the inbox, as the deployment notes ask. Assets are visited in any
order. The group is not also used by batches. People, dry-run and test modes,
wording, and the count shown in the post of the group are left out. A commit
either happens or does not; an answer lost by the database is not modelled.

### CanvasIndex and DraftWizard

`CanvasIndex` has the two rules of `CanvasService` that the wizard uses: what a
preflight says of the canvas (`PreflightOf`), and whether the user has agreed to
what is needed (`Agreed`).

`DraftWizard` is one modal. `screen` is the view Slack shows; `draft` is the
`DraftSession` and `inBook` whether the `DraftBook` still has it, which differ
because a handler goes on with the draft it holds. `at` is where each handler
is, what its press has sent (`on`, `incl`, `title`, `ok`), the page it remembers, and
the view it is about to show (`next`). A listener of `slack_app.py` is the
sequence of its accesses to the draft and to Slack: a submission, for instance, is
`AssetSubmit` (save, and acknowledge with the working view), `OpenNext` (the page
after it, the page again, or the confirmation) and `Show`. Buttons update the
view by its hash, which `fresh` tracks; submissions do not. The confirmation is
`ConfirmSubmit` (the modal closes), `Check` (the draft is put back), and then what
`confirm_batch` writes, one statement per action: `Acquire` (the lease), `CreateGroup`,
`StoreBatch` (the batch and its plan), `Commit`, `Discard`. `txn` is the open session,
whose writes nobody else sees before the commit. A handler that fails (`Abandon`), or
is refused the lease, ends without a rollback: its session is dropped (`Drop`) and
keeps what it has locked until it is collected (`Collect`). The commit may succeed
and its answer be lost. `lease`, `groups` and `batches` are the committed rows of the
channel; what becomes of a batch is `BatchJobs`, whose `Confirm` is the whole of this
transaction. The draft is read twice, for the group and for the payload, so a
batch has the title of its group (`group`) and the one it posts (`title`).

`seen` and `disturbed` are no state of the code: the assets the modal has shown
since the import, and how often presses overlapped, an answer was lost, a handler failed
where nobody caught it or the process restarted, which is bounded by `MaxDisturbed`.

Abstracted: people and links are one flag, whether they are valid; titles are
normalized, so a title that normalizes to nothing is the empty one; the channel
is the one the command was given in; one draft at a time.

### Edits

`shown` is what Slack shows of the summary and the roots: whose group details and
whose own details, and whether it says Latest. `latest` are the rows of the history
that are latest, `sections` the sections of the canvas whose heading contains the
group's title, of which `Lookup` takes any, whichever Slack returns first;
`neighbour` says that one of them was another group's (`Other`) from the start.
`primary` is the section the group last wrote on the primary canvas. `at` is where
each editor is in `_open_editor`, `apply_asset_edit` or `apply_group_edit`; a call to
Slack fails before its effect, after it, or not at all. `batch` is a later batch
that posts one of the assets anew, in the steps that matter to an edit: it posts
and records (`Post`), renders the prior root as history (`Retire`) and commits
(`Finish`); `BatchJobs` has the rest of it. `lock` is SQLite's write lock: an edit
takes it when its query for the roots flushes the touched summary, and its session,
which is neither committed nor closed, keeps it until the garbage collector
reaches it (`Collect`). An edit that fails (`failed`) tells nobody: the listeners
post the error to the channel that the request names (`slack_app.py:462`), and the
submission of a view names none.

Since sessions are not committed, no edit changes a row: what an edit does not
enter it renders as the batch stored it (`Stored`). `since` and `overlapped` are no
state of the code: which rows were latest when the form was submitted, and
whether the edit ran beside another or beside a batch.

Abstracted: people and links are one value, named after who entered it. A lock of
PostgreSQL, on which the same query waits without an end, is not modelled.

## Runs

Passing runs:

| Run | Bounds | Shows |
| --- | --- | --- |
| `ThreadDeliveryWorkers` | 2 workers, 2 jobs of one content, share refuses, a job dropped again, 1 crash | `AtMostOnce`, `SentIsTrue`, `ReceiptFinal`, `ImplementsReplies`, `TypeOK` |
| `ThreadDeliverySingle` | 1 worker, a job of every kind, 1 crash | `NoSilentLoss`, `EveryJobAnswered` |
| `BatchJobsSingle` | 1 worker, 2 batches with mirrored groups, every operation may fail, 1 crash or escaping error, 1 retry; the title of one batch is part of the other's | `SucceededIsPosted`, `OneLatest`, `NoRepostAfterSuccess`, `ImplementsLedger`, `TypeOK` |
| `BatchJobsWorkers` | 2 workers on PostgreSQL or SQLite, 2 batches of 2 users, posts, retirements and progress may fail, 1 crash, any number of escaping errors at the summary, clock to 2 | `ExclusiveRun`, `LatestShown`, `OneBatchPerChannel`, `EveryBatchEnds` |
| `ChannelLease` | 3 users on PostgreSQL or SQLite, 3 tokens, clock to 3 | `Exclusive`, `NoTheft`, `ImplementsLease`, `EveryCallReturns`, `TypeOK` |
| `MintGroup` | a tab of one asset and its resend with a second that shares its thread, every call may fail; one crash, refusal of the share, or adoption | `HistoryTrue`, `ReportTrue`, `NoPartialPost`, `OneRootEach`, `EveryMintAnswered`, `TypeOK` |
| `DraftWizard` | 2 handlers, 2 assets on 2 pages, exports with a duplicate row and with too many rows, 1 title, 1 disturbance | `NotConfirmedTwice`, `ConfirmedAsAWhole`, `ReviewedBeforePosting`, `DeclineStops`, `WorkingViewReplaced`, `TypeOK` |
| `Edits` | 2 editors, 3 edits, a summary and 2 roots, 1 later batch; every call may fail; another heading contains the title, or none | `RetiredStaysRetired`, `FinishedEditIsComplete`, `CanvasAfterRoots`, `OneSection`, `EveryEditEnds`, `TypeOK` |

Every property is checked to depend on the code: for each there is a mutant of
one definition, beside it in the module, that breaks it.

`OneBatchPerChannel` holds in `BatchJobsWorkers` for a reason the code does not
state: `claim_next_pending` neither skips locked rows nor filters by channel, so
every worker waits for the oldest PENDING row while another runs it. The mutant
that skips locked rows breaks it at once.

Some properties hold under a condition, because the code does not do better:

- `SucceededIsPosted` promises the section on the canvas only to groups that no
  other group's title is part of (`Apart`), and `OneSection` only without a
  `neighbour`.
- `EveryBatchEnds` supposes that escaping errors come to an end.
- `WorkingViewReplaced` supposes that exports end, and promises nothing after a
  disturbance, such as an update that Slack refuses or an error that no clause names.
- `ReviewedBeforePosting`, `DeclineStops` and the second half of `NotConfirmedTwice` are
  about presses that do not overlap.

`ConfirmedAsAWhole` has no condition: lease, group and batch are committed together or
not at all, whatever fails in between and whoever overlaps.

Runs that show a disagreement between the code and what its documents say:

| Run | The code | The statement |
| --- | --- | --- |
| `BatchJobsLease` | released with a token that renewals have replaced | "Release the channel lease on terminal success or failure" (`jobs.py:658`) |
| `MintGroupResend` | an abort deletes threads but leaves their season entries, so a resend skips the assets | "Re-sending the tab is safe" (Request Form design, line 216) |
| `MintGroupAdopt` | an adoption and a job lose each other's entries, or miss them in a file being rewritten | "no duplicate is posted" (Request Form design, line 261) |
| `EditsLost` | an asset edit renders the group details as the batch stored them, and so undoes an earlier group edit on its root | "**Edit details** changes asset Animator, Additional People, and supporting links" (design, line 163) |

The bounds. Two workers are enough for every race of the drain and of the claim,
since each is between one actor's read and another's write. Two batches are
enough for a prior root and its successor. One crash or one retry takes part in
every hazard that needs one, and the theorems drop these bounds where they apply.
In `BatchJobsWorkers` there is no retry, because the worker never calls
`retry_failed`; a retry of one batch while another of the channel is new would
let two run at once and leave two roots marked Latest. So `OneBatchPerChannel` is
checked without a retry and `OneLatest` with one worker, and their theorems say so
too; `LatestShown` needs neither. The clock runs one or more lease durations, so leases expire and are taken.
In `MintGroup` two jobs are a tab and its resend, the least that can post an asset
twice, join a group or share a thread across jobs; the failures of calls are not
bounded, only crashes, refusals of the share and adoptions are (`MaxEvents`). The
two violation runs take away every failure but the one they are about.
In `DraftWizard` a page has one asset, so two assets make the two pages a modal can
have; two handlers make every overlap of a pair; one disturbance is one overlap,
one lost answer or one restart, after which anything may follow undisturbed.
Properties that overlapping presses do break say `disturbed = 0`. In `Edits` three
edits are a failed one, its repetition and another beside them, and two
roots are the least that an edit can leave half done; properties that need an edit
to run alone say `~overlapped`.
`CHECK_DEADLOCK FALSE` is stated where the bounds, or an empty inbox, let the
system stop.

Fairness. Workers are weakly fair (`WF` of `Drain`, of `Work` and of `Mint`): `run_forever`
polls for ever, and the watchdog restarts it. Nothing is assumed of users,
ReviewPrep, Slack's answers, crashes or the clock. A handler of the modal
and an edit that was submitted are weakly fair (`WF` of `Step`): Bolt runs them in a
thread until they return, and calls to Slack have the timeout of slack_sdk, 30
seconds. Two steps of a
handler are not fair (`Unbounded`): the export, since the ShotGrid client is built
without a timeout (`shotgrid.py:304`), and the statement for the lease, which may
wait for a session that was dropped. The garbage collector is not assumed to come.
Calls for the lease are
strongly fair, because PostgreSQL serves those that wait for a row lock in turn.

## Proofs

`ThreadDeliveryProofs`, for every number of workers, jobs, contents, drops and
crashes:

- `TypeCorrect`, `NeverTwice`, `OutcomeStands`, `SentTruthfully`. The argument:
  a worker between the creation of a receipt and its final status is the only
  one on that content (`ClaimInv`), and a content without a receipt, or whose
  owner has not reached the post, has no post. `AtMostOnce` alone is not
  inductive, since it says nothing of a worker about to post. `SentIsTrue`
  needs in addition that a worker on its way to sent.json, and the ledger it
  has read, hold only posted content.
- `NothingLost`: `NoSilentLoss`, for one worker on a share that keeps what is
  written (`Lone`, the setting of the run `ThreadDeliverySingle`). The argument
  (`LossInv`): a job in done/ is `Accounted` and stays so, since a receipt and the
  post it stands for are final and nothing leaves failed.json; sent.json lists only
  contents whose receipt says sent; and the worker writes each ledger back as it
  read it, plus its job. With a second worker or a refused write the last part
  fails, which is why `Lone` is assumed.
- `RepliesImplemented`: `ThreadDelivery` implements `ReplyLedger`, from `ClaimInv`
  and the invariant of `SentTruthfully` (`StampInv`). `CreateClaims`, `CallPosts` and
  `FinishRecords` map the accesses that are steps of the ledger; all others leave
  receipts and Slack alone, or write the text of a receipt that is a claim already.
  It says more than the three properties above together: nothing is posted without
  an open claim.

`ChannelLeaseProofs`, for every set of clients and any clock:

- `LeaseTyped`; `LeaseNotStolen`: a transaction that has written the row was
  allowed to (`WriterMay`), clocks are never read from the future;
  `LeaseExclusive`, for users with one submission each (`OneEach`): the lease in
  force is the one its client was last granted (`HeldIsSaved`). The assumption is
  needed: a second submission of the same user replaces the token of the first
  and may release the channel while the first still counts on it.
- `LeaseImplemented`: `ChannelLease` implements `SingleLease`, again under `OneEach`.
  The argument (`TermInv`): a transaction has written an expiry of `TTL` from its
  own clock, and the committed lease of a user ends no later than `TTL` from what its
  client last read, which only moves on. Two submissions of one user break the
  second part: the one that read the clock first may commit last, and shortens the
  lease of the other.

`BatchJobsProofs`, for any workers, batches and assets:

- `RunsAreExclusive`: no two workers run one batch, and none runs a batch that
  succeeded. The invariant `RunInv` adds to `ExclusiveRun` only that a worker's
  batch exists and which fields a transaction has.

`BatchResultsProofs`, on top of it, for any workers, batches and assets, mirrored
or not, whatever calls fail and however many crashes and retries:

- `BatchTypeCorrect`, `SucceededTruthfully`, `NeverReposted`, and
  `LedgerImplemented`: every step of `BatchJobs` is a step of `BatchLedger` or leaves
  it alone. The argument (`ResultInv`): what a row, committed or in a transaction,
  says has succeeded is true in the channel and, for groups that are `Apart`, on the
  canvas (`Sound`, `Kept`: another group's index may take only sections of groups
  whose titles contain its own); a
  transaction forgets nothing of what the row it copied says (`Carries`); the
  operation it is at has not succeeded, and those before it have ended unless the
  summary failed (`OnCourse`). So a message is only posted for an operation that
  is not stored as succeeded, and a run without a failure has done everything.
  `SucceededIsPosted` alone says nothing of failed batches, whose successful
  operations a retry relies on. `NextStepLands` is the lemma that a run goes on
  with the next operation that has not succeeded, by the least element of a set of
  numbers (`LeastExists`); `Plan` and `PlanDistinct` say that the arithmetic of the
  plan gives each asset its own operations.

`BatchLatestProofs`, on top of that, under the same conditions and on either database:

- `OneBatchAtATime`: `OneBatchPerChannel`, as long as nothing was retried
  (`retries = 0`). The argument (`QueueInv`): the order of confirmation never
  repeats, whoever has selected a batch has the oldest that is still pending, and
  any other worker waits for the same row. A retry puts an old batch behind the back
  of a worker that runs a newer one, and the statement fails.
- `LatestIsShown`: `LatestShown`, whatever is retried. The argument (`LatestInv`): a
  transaction retires only a root that the committed history called latest before
  its own, and a root that has not been committed never was the latest, so
  whatever overlaps, the latest root keeps its marker. `LatestShown` alone says
  nothing of roots still in a transaction.
- `OneLatestMarker`: `OneLatest`, if nothing was retried or there is one worker
  (`Alone`). The argument (`MarkInv`): a root that still reads Latest is the
  latest one, or is the prior root of a batch that has its retirement ahead or
  failed in it, or was lost. With a retry beside another worker two batches find
  the same prior root, and one of the two new roots is never retired.

`MintGroupProofs`, for any jobs, assets, shared threads and adopters, whatever
calls fail, and any number of adoptions, crashes and refusals:

- `MintTyped`, `HistoryStands`, `ReportStands`, `NothingPartial`. The argument
  (`MintInv`): the messages of the attempt in progress are the ones it
  remembers in `posted`; before the commit none of them is kept and after it
  all of them are, so what an abort deletes was never kept and what is kept is
  never deleted. The committed history names kept messages; the transaction
  names kept messages and those of the attempt, which the commit keeps; it is
  empty outside an attempt. The outcomes in memory have a message in `posted`,
  hence those in a result file, written after the commit, one that is kept.
  `HistoryTrue` alone is not inductive, since it says nothing of a
  transaction about to be committed, nor of what an abort will delete. The
  abort deletes the newest message first: that the greatest element of a finite
  set exists (`MaxIsElement`) is proved from the well-foundedness of strict
  inclusion.
- `OneRoot`: `OneRootEach`, for any number of jobs that name the same assets and
  whatever calls fail. The argument (`RootsInv`), as long as nobody adopts, nothing
  dies and no message is stranded: the worker is the only writer of the season file
  (`OneWriter`), so an upsert finds the file as it left it and loses no entry; every
  root in the channel is the entry of its asset (`Entry`, as the upsert under way
  will leave it), or a post of the attempt that is sure to be deleted (`GivenUp`);
  and an asset that will get a root or a reply has none. `OneRootEach` alone says
  nothing of the entries, which decide whom the next job skips.

`DraftWizardProofs`, for any handlers, assets, titles, exports, page size and
disturbances:

- `WizardTypeCorrect`.
- `StoredAsAWhole`: `ConfirmedAsAWhole`, whatever overlaps or restarts. The argument
  (`SessionInv`): a handler on its way from `Acquire` to `Commit` has the session to
  itself, and `Wrote` says what is in it at each step: nothing, one group whose title
  was free, or that group and one batch of it. The title stays free because nobody
  else commits while the session holds the lease row; a dropped session is
  rolled back with all it wrote. A lease committed on its own, or a group left behind
  by a failure, breaks it.
- `ConfirmedOnce`, `NothingAfterDecline`. The
  argument (`SoloInv`): as long as nothing is disturbed at most one handler is away
  from idle, the screen is one that cannot be pressed while a submission is being
  worked on, and after a confirmation was submitted the modal stays closed and
  the draft can be stored once. `NotConfirmedTwice` alone says nothing of a second
  handler on its way to the confirmation. With disturbances, the titles of the
  batches are among the groups (`TitlesTaken`), which the unique row guards.
- `PostedAsReviewed`: `ReviewedBeforePosting`. The argument (`ReviewInv`): the page on
  the screen is the page the draft has open, and every page up to it has been
  shown (`Covered`); a submission or a press of its buttons therefore finds the
  assets it was made from; the review is offered on the last page only, where
  everything has been shown; and the confirmation, on the screen or sent, counts
  what the draft includes. `CoveredPages` is the arithmetic of the pages,
  `ListsAreSequences` that the k-th first rows of an export are a sequence.

`EditsProofs`, for any editors, roots and number of edits:

- `EditsTypeCorrect`, `HistoricalRootsStay`, `FinishedMeansComplete`,
  `GroupHasOneSection`, `CanvasFollowsRoots`. The argument: what an editor will
  still touch (`msg`, `todo`) was latest when it was submitted (`FreshInv`); and an
  edit that runs alone has updated its summary and every root it is past, so at the
  canvas none is left, and the section it has found is still there, or there is
  still none (`SoloInv`). So it writes one section (`IndexOnce`), and inserts one
  only on a canvas without any. `FinishedMeansComplete` and `CanvasFollowsRoots` hold
  whatever headings contain the title, `GroupHasOneSection` without a `neighbour`.

The assumptions of these theorems are the named ASSUMEs on the constants, which
TLC evaluates in the runs. Every invariant and every action property that a passing
run checks is proved, some under the conditions named above. Only model-checked are
the six liveness properties, since the provers do not reach liveness under fairness.

## Known divergences

Met while modelling. The modules follow the code here as far as they model the part
at all; no run of its own shows these.

- `write_failed` takes a failed.json it cannot read for an empty list
  (`cl_jobs.py:453`), so a record may be lost.
- A thread message that failed is refused when it is sent again, because its receipt
  stays (`thread_message_jobs.py:82`).
- A batch that makes Slack answer not found or conflict (a deleted channel, canvas or
  message, a submitter who is gone) kills the worker (`jobs.py:325`), which finds the
  same batch oldest again (`repositories.py:624`): all batches wait behind it, and
  what a run posts before it dies is posted once more by each run.
- An edit that fails half way tells nobody: `_post_ephemeral` (`slack_app.py:462`), the
  "ephemeral reply for a refused edit", takes the channel from a body that names none
  when a view is submitted; the channel that the view carries is not passed on.
- An export may hang with the loading view on the screen, since the ShotGrid client is
  built without a timeout (`shotgrid.py:304`); the view also stays when Slack refuses
  the update, or after an error that no clause names (`slack_app.py:228`).
- A confirmation that fails or finds the channel busy drops its session without a
  rollback (`web.py:132`): the lease row, on SQLite the database, stays locked until
  the session is collected. If the answer to the commit is lost, the user is told that
  it failed though the batch is stored.
- A crash rolls back a run whose messages Slack keeps; the next run posts them again
  (`worker.py:53`).
- Pages are counted from the draft, not from the view that was pressed
  (`slack_app.py:191`, `:479`): with overlapping presses a page is skipped, or saved
  under another index.
- Between the checks of a confirmation and its payload a late save of an asset page
  may change the draft (`workflow.py:483`, `:515`), and between the group and the
  payload, which read the title one after the other (`:497`, `:504`), so a batch may
  post another title than that of its group; only with overlapping presses.
- A confirmation that is refused because the channel is busy, or that fails, leaves
  a draft that no view leads to any more.
- A confirmation whose answer was lost can be submitted again under another title,
  which makes a second batch.
- Declining leaves its modal on the screen (`slack_app.py:148`).
- A group edit renders the summary from the snapshot of the moment it was posted
  (`edits.py:467`), so it shows the status of a batch in progress again.
- Two group edits at a time may leave the summary with the details of one and roots
  with those of the other; an edit beside a running batch may show a root as
  Latest that the batch is retiring.
- `_retire_prior_latest` renders the prior root with the details of the new batch
  (`jobs.py:537`), although the README says that historical roots remain snapshots.
- `index_batch` takes the first section whose heading contains the title
  (`canvas.py:278`), which may be another group's: indexing "S31 Wildcard" replaces the
  section of "S31 Wildcard 2" above it, whose roots leave the canvas, and editing it may
  leave two sections of its own.

## Plan

Left to do, in this order:

1. `Algorithms`: deduplication of people and links, season grouping and the choice
   of the best canvas, against reference definitions.
2. The lock waits of PostgreSQL between an edit and a batch, which need a second
   kind of lock in `Edits`.

## Not modelled

The Slack and ShotGrid gateways are one HTTP call per method and enter as
services that accept, refuse, or lose an answer. Of the views and messages only
pages, buttons and details are modelled; the rest is layout and wording. Settings
and logging have no behaviour. The HTTP routes and health probes keep no state.
Retention deletes rows of drafts, which nothing writes, and clears payloads of
finished batches, which only `retry_failed` reads again, and the program never
calls it; nothing that runs can meet it. `mint_from_job.py` is an older entry
that only the tests call. The names of people are looked up and cached for
display.
