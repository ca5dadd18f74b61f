------------------------------ MODULE MintGroup ------------------------------
(***************************************************************************)
(* mint_group jobs (mint_group_jobs.py) and adoptions (adopt.py).          *)
(*                                                                         *)
(* A mint_group job asks the worker for a whole group of threads: a post   *)
(* for the group, a root for every asset, or a reply in the thread of      *)
(* another asset.  One attempt writes to four stores in turn: Slack, the   *)
(* database (one transaction around everything), the season file, and the  *)
(* ledgers of the share.  An attempt that fails deletes what it posted and *)
(* rolls the transaction back; a crash does only the latter, and the job   *)
(* is still in the inbox.  Meanwhile the web process may adopt the threads *)
(* of the channel into the same season file.                               *)
(*                                                                         *)
(* All jobs are live jobs for one group of one channel and one season, and *)
(* one worker drains the inbox.                                            *)
(***************************************************************************)
EXTENDS SeasonSpokes, Sequences, FiniteSetsExt

CONSTANTS
  Jobs,         \* mint_group jobs
  NoJob,        \* what an idle worker processes
  AssetsOf,     \* the assets of each job
  SharedWith,   \* of each job, the asset whose thread an asset shares, or NoAsset
  Worker,       \* the worker process
  Adopters,     \* threads of the web process that adopt
  Failing,      \* the calls that may fail
  MaxEvents     \* bound on adoptions, crashes of the worker, refusals of the share

(* Calls of Slack, of the database and of the share.                        *)
Calls == {"info", "create", "post_group", "record_group", "post_root", "permalink",
          "record_root", "post_reply", "update_group", "index", "commit", "delete",
          "stamp", "result", "fail", "move", "shotgrid"}

ASSUME MintAssumption ==
  /\ NoJob \notin Jobs
  /\ AssetsOf \in [Jobs -> SUBSET Assets]
  /\ SharedWith \in [Jobs -> [Assets -> Assets \cup {NoAsset}]]
  /\ Writers = {Worker} \cup Adopters /\ Worker \notin Adopters
  /\ Failing \subseteq Calls
  /\ MaxEvents \in Nat

VARIABLES
  inbox,        \* share: jobs in slack_jobs/inbox
  result,       \* share: the result file of each job in done/
  failed,       \* share: job ids in failed.json
  sent,         \* share: assets and jobs in sent.json
  log,          \* Slack: every message ever posted, by timestamp
  shown,        \* Slack: those that have not been deleted
  index,        \* Slack: the thread listed for each asset on the index canvas
  db,           \* committed: the group and its history
  tx,           \* what the worker's transaction has made of it
  run,          \* the worker's attempt at a job
  adoption,     \* the adoption each thread of the web process is in
  kept,         \* messages posted in an attempt that was committed
  stranded,     \* messages whose author cannot know or remember them, or delete them
  faults,       \* crashes of the worker and refusals to it so far
  adoptions     \* adoptions so far

vars == <<spokeVars, inbox, result, failed, sent, log, shown, index, db, tx,
          run, adoption, kept, stranded, faults, adoptions>>

share   == <<inbox, result, failed, sent>>
channel == <<log, shown, kept, stranded>>
webVars == <<adoption, adoptions>>

Steps == {"idle", "group", "post_group", "record_group", "roots", "record_root",
          "replies", "update", "index", "commit", "stamp", "discard",
          "result", "fail", "move"}

Groups == {"", "not_needed", "created", "joined"}
Statuses == {"none", "done", "failed"}

(* A group exists when it has a post; its history holds the latest root of  *)
(* each asset and the threads that assets share.                            *)
Database == [post : Nat, root : [Assets -> Nat], shared : [Assets -> Nat]]
NoGroup == [post |-> 0, root |-> NoEntries, shared |-> NoEntries]

NoResult == [status |-> "none", made |-> {}, skipped |-> {}]

NoRun ==
  [at |-> "idle", job |-> NoJob, group |-> "", toRoot |-> {}, toShare |-> {},
   root |-> NoEntries, shared |-> NoEntries, made |-> {}, lost |-> {}, skipped |-> {},
   posted |-> {}, asset |-> NoAsset, error |-> FALSE]

NoAdoption == [at |-> "idle", found |-> NoEntries]

(* Message number n was posted for job log[n].job: the group's post, a root *)
(* of an asset, or a reply for an asset.                                    *)
Messages == [job : Jobs, kind : {"group", "root", "reply"}, asset : Assets \cup {NoAsset}]

ShareTyped ==
  /\ inbox \subseteq Jobs /\ failed \subseteq Jobs /\ sent \subseteq Assets \X Jobs
  /\ result \in [Jobs -> [status : Statuses, made : SUBSET Assets, skipped : SUBSET Assets]]

SlackTyped ==
  /\ log \in Seq(Messages) /\ shown \subseteq 1..Len(log) /\ kept \cup stranded \subseteq 1..Len(log)
  /\ index \in [Assets -> Nat]

RunStates ==
  [at : Steps, job : Jobs \cup {NoJob}, group : Groups,
   toRoot : SUBSET Assets, toShare : SUBSET Assets,
   root : [Assets -> Nat], shared : [Assets -> Nat],
   made : SUBSET Assets, lost : SUBSET Assets, skipped : SUBSET Assets,
   posted : SUBSET Nat, asset : Assets \cup {NoAsset}, error : BOOLEAN]

RunTyped ==
  /\ db \in Database /\ tx \in Database
  /\ run \in RunStates
  /\ run.at # "idle" => run.job \in Jobs
  /\ run.at = "record_root" => run.asset \in Assets
  /\ \A a \in run.toShare : SharedWith[run.job][a] \in Assets
  /\ run.posted \subseteq 1..Len(log)

WebTyped ==
  /\ adoption \in [Adopters -> [at : {"idle", "history", "occupied", "write"},
                                found : [Assets -> Nat]]]
  /\ faults \in Nat /\ adoptions \in Nat /\ faults + adoptions <= MaxEvents

TypeOK == SpokesTyped /\ ShareTyped /\ SlackTyped /\ RunTyped /\ WebTyped

-----------------------------------------------------------------------------

Init ==
  /\ SpokesInit
  /\ inbox = {} /\ failed = {} /\ sent = {}
  /\ result = [j \in Jobs |-> NoResult]
  /\ log = << >> /\ shown = {} /\ kept = {} /\ stranded = {}
  /\ index = NoEntries
  /\ db = NoGroup /\ tx = NoGroup
  /\ run = NoRun
  /\ adoption = [p \in Adopters |-> NoAdoption]
  /\ faults = 0 /\ adoptions = 0

(* Flightdeck writes a job in the inbox; sending a tab again makes another  *)
(* job of the same assets.                                                  *)
Drop(j) ==
  /\ j \notin inbox
  /\ result[j] = NoResult
  /\ run.job # j
  /\ inbox' = inbox \cup {j}
  /\ UNCHANGED <<spokeVars, result, failed, sent, channel, index, db, tx, run, webVars, faults>>

MayFail(call) == call \in Failing

(* The three outcomes of a post.  The worker cannot tell a lost answer from *)
(* a refusal.                                                               *)
Said(kind, a) ==
  /\ log' = Append(log, [job |-> run.job, kind |-> kind, asset |-> a])
  /\ shown' = shown \cup {Len(log')}
  /\ UNCHANGED kept
Accepted(kind, a) == Said(kind, a) /\ UNCHANGED stranded
AnswerLost(kind, a) == Said(kind, a) /\ stranded' = stranded \cup {Len(log')}
NotPosted(call, kind, a) == MayFail(call) /\ (AnswerLost(kind, a) \/ UNCHANGED channel)

Fault ==
  /\ faults + adoptions < MaxEvents
  /\ faults' = faults + 1

Goto(step) == run' = [run EXCEPT !.at = step]

(* An error leaves the session, which rolls the transaction back; of the    *)
(* attempt only the posts and the outcomes matter from here on.             *)
Raise ==
  /\ run' = [NoRun EXCEPT !.at = "discard", !.job = run.job, !.error = TRUE,
              !.made = run.made, !.skipped = run.skipped, !.posted = run.posted]
  /\ tx' = NoGroup

(* What none of the steps of an attempt below touches.                      *)
others == <<inbox, webVars, faults>>
records == <<result, failed, sent>>

(* A look into the season file (occupied_asset_ids, find_spoke).  One that  *)
(* the share refuses finds no entries, as in a file that is no JSON.        *)
Looks == AsRead \cup {Torn}
Look(file) ==
  \/ file \in AsRead /\ UNCHANGED faults
  \/ file = Torn /\ Fault

(* Mutant: a job with nothing to do goes to done/ at once.                  *)
TakeJobWithNews(j) ==
  /\ run.at = "idle"
  /\ j \in inbox
  /\ \E file \in AsRead :
       LET new == AssetsOf[j] \ Occupied(file)
       IN run' = [NoRun EXCEPT !.at = IF new = {} THEN "move" ELSE "group", !.job = j,
                    !.skipped = AssetsOf[j] \cap Occupied(file),
                    !.toRoot = {a \in new : SharedWith[j][a] = NoAsset},
                    !.toShare = {a \in new : SharedWith[j][a] # NoAsset}]
  /\ UNCHANGED <<spokeVars, records, channel, index, db, tx, others>>

(* The attempt begins: the bot is in the channel, and the assets that have  *)
(* a thread already are skipped.                                            *)
TakeJob(j) ==
  /\ run.at = "idle"
  /\ j \in inbox
  /\ \/ \E file \in Looks :
          LET new == AssetsOf[j] \ Occupied(file)
          IN /\ Look(file)
             /\ run' = [NoRun EXCEPT !.at = "group", !.job = j,
                          !.skipped = AssetsOf[j] \cap Occupied(file),
                          !.toRoot = {a \in new : SharedWith[j][a] = NoAsset},
                          !.toShare = {a \in new : SharedWith[j][a] # NoAsset}]
     \/ /\ MayFail("info")
        /\ run' = [NoRun EXCEPT !.at = "discard", !.job = j, !.error = TRUE]
        /\ UNCHANGED faults
  /\ UNCHANGED <<spokeVars, records, channel, index, db, tx, inbox, webVars>>

(* A file the share refuses to read counts as neither kind of job: it only  *)
(* gets a line in failed.json.                                              *)
MisreadJob(j) ==
  /\ run.at = "idle"
  /\ j \in inbox
  /\ Fault
  /\ run' = [NoRun EXCEPT !.at = "fail", !.job = j]
  /\ UNCHANGED <<spokeVars, records, channel, index, db, tx, inbox, webVars>>

(* The transaction opens and looks for the group; a group without a row is  *)
(* created if it will have roots.                                           *)
OpenGroup ==
  /\ run.at = "group"
  /\ \/ /\ db.post # 0
        /\ run' = [run EXCEPT !.at = "roots", !.group = "joined"]
        /\ tx' = db
     \/ /\ db.post = 0 /\ run.toRoot = {}
        /\ run' = [run EXCEPT !.at = "roots", !.group = "not_needed"]
        /\ tx' = db
     \/ /\ db.post = 0 /\ run.toRoot # {}
        /\ \/ run' = [run EXCEPT !.at = "post_group", !.group = "created"] /\ tx' = db
           \/ MayFail("create") /\ Raise
  /\ UNCHANGED <<spokeVars, records, channel, index, db, others>>

(* Mutant: only the posts for assets are remembered.                        *)
PostGroupUntracked ==
  /\ run.at = "post_group"
  /\ Accepted("group", NoAsset)
  /\ Goto("record_group")
  /\ UNCHANGED <<spokeVars, records, index, db, tx, others>>

PostGroup ==
  /\ run.at = "post_group"
  /\ \/ /\ Accepted("group", NoAsset)
        /\ run' = [run EXCEPT !.at = "record_group", !.posted = @ \cup {Len(log')}]
        /\ UNCHANGED tx
     \/ NotPosted("post_group", "group", NoAsset) /\ Raise
  /\ UNCHANGED <<spokeVars, records, index, db, others>>

(* The permalink of the post, and its record.                               *)
RecordGroup ==
  /\ run.at = "record_group"
  /\ \/ tx' = [tx EXCEPT !.post = Len(log)] /\ Goto("roots")
     \/ (MayFail("permalink") \/ MayFail("record_group")) /\ Raise
  /\ UNCHANGED <<spokeVars, records, channel, index, db, others>>

(* Roots, one asset after the other.  A post that fails fails its asset.    *)
PostRoot(a) ==
  /\ run.at = "roots"
  /\ ~Upserting(Worker)
  /\ a \in run.toRoot
  /\ \/ /\ Accepted("root", a)
        /\ run' = [run EXCEPT !.at = "record_root", !.toRoot = @ \ {a}, !.asset = a,
                              !.posted = @ \cup {Len(log')}]
     \/ /\ NotPosted("post_root", "root", a)
        /\ run' = [run EXCEPT !.toRoot = @ \ {a}, !.lost = @ \cup {a}]
  /\ UNCHANGED <<spokeVars, records, index, db, tx, others>>

(* So does a permalink that fails, with its post in the channel; but a      *)
(* record that fails ends the attempt.                                      *)
RecordRoot ==
  /\ run.at = "record_root"
  /\ \/ /\ tx' = [tx EXCEPT !.root[run.asset] = Len(log)]
        /\ run' = [run EXCEPT !.at = "roots", !.root[run.asset] = Len(log),
                              !.made = @ \cup {run.asset}]
        /\ StartUpsert(Worker, run.asset, Len(log))
     \/ /\ MayFail("permalink")
        /\ run' = [run EXCEPT !.at = "roots", !.lost = @ \cup {run.asset}]
        /\ UNCHANGED <<tx, upsert>>
     \/ MayFail("record_root") /\ Raise /\ UNCHANGED upsert
  /\ UNCHANGED <<season, records, channel, index, db, others>>

EndRoots ==
  /\ run.at = "roots"
  /\ ~Upserting(Worker)
  /\ run.toRoot = {}
  /\ Goto("replies")
  /\ UNCHANGED <<spokeVars, records, channel, index, db, tx, others>>

(* Shared threads: a reply in the thread of another asset, posted by this   *)
(* attempt or found in the season file.                                     *)
Reply(a) ==
  /\ run.at = "replies"
  /\ ~Upserting(Worker)
  /\ a \in run.toShare
  /\ \E file \in Looks :
       LET target == SharedWith[run.job][a]
           ts == IF run.root[target] # 0 THEN run.root[target] ELSE file.thread[target]
       IN /\ Look(file)
          /\ \/ /\ ts # 0
                /\ Accepted("reply", a)
                /\ run' = [run EXCEPT !.toShare = @ \ {a}, !.shared[a] = ts,
                                      !.made = @ \cup {a}, !.posted = @ \cup {Len(log')}]
                /\ StartUpsert(Worker, a, ts)
             \/ /\ \/ ts # 0 /\ NotPosted("post_reply", "reply", a)
                   \/ ts = 0 /\ UNCHANGED channel
                /\ run' = [run EXCEPT !.toShare = @ \ {a}, !.lost = @ \cup {a}]
                /\ UNCHANGED upsert
  /\ UNCHANGED <<season, records, index, db, tx, inbox, webVars>>

(* An attempt that posted anything and failed an asset is given up.         *)
AbortIfPartial ==
  /\ run.at = "replies"
  /\ ~Upserting(Worker)
  /\ run.toShare = {}
  /\ IF run.posted # {} /\ run.lost # {} THEN Raise ELSE Goto("update") /\ UNCHANGED tx
  /\ UNCHANGED <<spokeVars, records, channel, index, db, others>>

(* A joined group's post is updated; threads that assets share are kept     *)
(* with the group.                                                          *)
Updated ==
  \/ run.group = "joined" /\ run.made # {}
  \/ run.group = "created" /\ run.shared # NoEntries

UpdateGroup ==
  /\ run.at = "update"
  /\ \/ /\ tx' = IF run.group = "not_needed" THEN tx
                 ELSE [tx EXCEPT !.shared =
                         [a \in Assets |-> IF run.shared[a] # 0 THEN run.shared[a] ELSE @[a]]]
        /\ Goto("index")
     \/ MayFail("update_group") /\ Updated /\ Raise
  /\ UNCHANGED <<spokeVars, records, channel, index, db, others>>

(* What the index canvas will list for the group: the roots of its history, *)
(* or without them the entries of skipped assets, and the shared threads.   *)
Listing(file) ==
  LET entry(a) == IF run.made \cup run.lost = {} /\ a \in run.skipped
                  THEN file.thread[a] ELSE 0
  IN [a \in Assets |-> IF tx.shared[a] # 0 THEN tx.shared[a]
                       ELSE IF tx.root # NoEntries THEN tx.root[a] ELSE entry(a)]

(* The index is a courtesy: its errors are only reported.                   *)
UpdateIndex ==
  /\ run.at = "index"
  /\ \/ \E file \in Looks :
          /\ Look(file)
          /\ index' = IF Listing(file) = NoEntries THEN index ELSE Listing(file)
     \/ MayFail("index") /\ UNCHANGED <<index, faults>>
  /\ Goto("commit")
  /\ UNCHANGED <<spokeVars, records, channel, db, tx, inbox, webVars>>

Commit ==
  /\ run.at = "commit"
  /\ \/ db' = tx /\ tx' = NoGroup /\ kept' = kept \cup run.posted /\ Goto("stamp")
     \/ MayFail("commit") /\ Raise /\ UNCHANGED <<db, kept>>
  /\ UNCHANGED <<spokeVars, records, log, shown, stranded, index, others>>

(* Mutant: an error of sent.json fails the attempt.                         *)
StampRaises ==
  /\ run.at = "stamp"
  /\ \/ sent' = sent \cup (run.made \X {run.job}) /\ Goto("result") /\ UNCHANGED tx
     \/ MayFail("stamp") /\ Raise /\ UNCHANGED sent
  /\ UNCHANGED <<spokeVars, result, failed, channel, index, db, others>>

(* Each asset is stamped in sent.json; errors are only reported.            *)
Stamp ==
  /\ run.at = "stamp"
  /\ \/ sent' = sent \cup (run.made \X {run.job})
     \/ MayFail("stamp") /\ \E some \in SUBSET run.made : sent' = sent \cup (some \X {run.job})
  /\ Goto("result")
  /\ UNCHANGED <<spokeVars, result, failed, channel, index, db, tx, others>>

(* Mutant: the assets whose posts are deleted keep their outcome.           *)
DiscardOnly ==
  /\ run.at = "discard"
  /\ \/ /\ run.posted # {}
        /\ shown' = shown \ {Max(run.posted)}
        /\ run' = [run EXCEPT !.posted = @ \ {Max(run.posted)}]
     \/ run.posted = {} /\ Goto("result") /\ UNCHANGED shown
  /\ UNCHANGED <<spokeVars, records, log, kept, stranded, index, db, tx, others>>

(* The posts of a failed attempt are deleted, the last one first, and the   *)
(* outcomes of their assets cleared.  A deletion that fails is only logged. *)
DiscardPosts ==
  /\ run.at = "discard"
  /\ \/ /\ run.posted # {}
        /\ LET ts == Max(run.posted)
           IN /\ run' = [run EXCEPT !.posted = @ \ {ts}, !.made = @ \ {log[ts].asset}]
              /\ \/ shown' = shown \ {ts} /\ UNCHANGED stranded
                 \/ /\ MayFail("delete")
                    /\ stranded' = stranded \cup {ts}
                    /\ UNCHANGED shown
     \/ run.posted = {} /\ Goto("result") /\ UNCHANGED <<shown, stranded>>
  /\ UNCHANGED <<spokeVars, records, log, kept, index, db, tx, others>>

(* The result file, then a line in failed.json for a failed job, then the   *)
(* move to done/.  A refusal of the share leaves the job in the inbox, for  *)
(* another attempt.                                                         *)
Failed == run.error /\ run.made = {}

Forget == run' = NoRun /\ tx' = NoGroup

LeaveInInbox(call) ==
  /\ MayFail(call)
  /\ Fault
  /\ Forget
  /\ UNCHANGED <<inbox, records>>

WriteResult ==
  /\ run.at = "result"
  /\ \/ /\ result' = [result EXCEPT ![run.job] =
              [status |-> IF Failed THEN "failed" ELSE "done",
               made |-> run.made, skipped |-> run.skipped]]
        /\ Goto(IF Failed THEN "fail" ELSE "move")
        /\ UNCHANGED <<inbox, failed, sent, tx, faults>>
     \/ LeaveInInbox("result")
  /\ UNCHANGED <<spokeVars, channel, index, db, webVars>>

WriteFailed ==
  /\ run.at = "fail"
  /\ \/ failed' = failed \cup {run.job} /\ Goto("move") /\ UNCHANGED <<inbox, result, sent, tx, faults>>
     \/ LeaveInInbox("fail")
  /\ UNCHANGED <<spokeVars, channel, index, db, webVars>>

MoveToDone ==
  /\ run.at = "move"
  /\ \/ inbox' = inbox \ {run.job} /\ Forget /\ UNCHANGED <<records, faults>>
     \/ LeaveInInbox("move")
  /\ UNCHANGED <<spokeVars, channel, index, db, webVars>>

MintUpsert ==
  /\ \/ Upsert(Worker) /\ UNCHANGED faults
     \/ UpsertRefused(Worker) /\ Fault
  /\ UNCHANGED <<share, channel, index, db, tx, run, webVars>>

Mint ==
  \/ \E j \in Jobs : TakeJob(j) \/ MisreadJob(j)
  \/ OpenGroup \/ PostGroup \/ RecordGroup
  \/ \E a \in Assets : PostRoot(a) \/ Reply(a)
  \/ RecordRoot \/ EndRoots \/ AbortIfPartial
  \/ UpdateGroup \/ UpdateIndex \/ Commit \/ Stamp
  \/ DiscardPosts \/ WriteResult \/ WriteFailed \/ MoveToDone
  \/ MintUpsert

(* The worker dies: the transaction is rolled back, and nobody remembers    *)
(* the posts.                                                               *)
Committed == run.at \in {"stamp", "result", "fail", "move"}

Crash ==
  /\ run.at # "idle"
  /\ Fault
  /\ stranded' = IF Committed THEN stranded ELSE stranded \cup run.posted
  /\ AbandonUpsert(Worker)
  /\ Forget
  /\ UNCHANGED <<share, log, shown, kept, index, db, webVars>>

-----------------------------------------------------------------------------

(* Adoptions: /adopt-prop-threads in the channel, AdoptService.run.         *)

(* The roots the index canvas lists, unless it cannot be read ...           *)
AdoptIndex(p) ==
  /\ adoption[p].at = "idle"
  /\ faults + adoptions < MaxEvents
  /\ adoptions' = adoptions + 1
  /\ adoption' = [adoption EXCEPT ![p] = [at |-> "history", found |-> index]]
  /\ UNCHANGED <<spokeVars, share, channel, index, db, tx, run, faults>>

Roots(a) == {ts \in shown : log[ts].kind = "root" /\ log[ts].asset = a}
Newest(a) == IF Roots(a) = {} THEN 0 ELSE Max(Roots(a))

(* ... and for other assets the newest root in the channel's history.       *)
AdoptHistory(p) ==
  /\ adoption[p].at = "history"
  /\ adoption' = [adoption EXCEPT ![p].at = "occupied",
       ![p].found = [a \in Assets |-> IF @[a] # 0 THEN @[a] ELSE Newest(a)]]
  /\ UNCHANGED <<spokeVars, share, channel, index, db, tx, run, adoptions, faults>>

(* Assets with an entry are left out, and so is every asset whose season    *)
(* ShotGrid does not tell.                                                  *)
AdoptNew(p) ==
  /\ adoption[p].at = "occupied"
  /\ \E file \in Looks :
       \/ adoption' = [adoption EXCEPT ![p].at = "write",
            ![p].found = [a \in Assets |-> IF a \in Occupied(file) THEN 0 ELSE @[a]]]
       \/ MayFail("shotgrid") /\ adoption' = [adoption EXCEPT ![p] = NoAdoption]
  /\ UNCHANGED <<spokeVars, share, channel, index, db, tx, run, adoptions, faults>>

AdoptWrite(p) ==
  /\ adoption[p].at = "write"
  /\ ~Upserting(p)
  /\ \/ \E a \in Assets :
          /\ adoption[p].found[a] # 0
          /\ StartUpsert(p, a, adoption[p].found[a])
          /\ adoption' = [adoption EXCEPT ![p].found[a] = 0]
     \/ /\ adoption[p].found = NoEntries
        /\ adoption' = [adoption EXCEPT ![p] = NoAdoption]
        /\ UNCHANGED upsert
  /\ UNCHANGED <<season, share, channel, index, db, tx, run, adoptions, faults>>

AdoptUpsert(p) ==
  /\ Upsert(p) \/ UpsertRefused(p)
  /\ UNCHANGED <<share, channel, index, db, tx, run, webVars, faults>>

(* The web process dies.                                                    *)
AdoptCrash(p) ==
  /\ adoption[p].at # "idle"
  /\ AbandonUpsert(p)
  /\ adoption' = [adoption EXCEPT ![p] = NoAdoption]
  /\ UNCHANGED <<share, channel, index, db, tx, run, adoptions, faults>>

Adopt(p) ==
  \/ AdoptIndex(p) \/ AdoptHistory(p) \/ AdoptNew(p) \/ AdoptWrite(p)
  \/ AdoptUpsert(p) \/ AdoptCrash(p)

Next ==
  \/ \E j \in Jobs : Drop(j)
  \/ Mint \/ Crash
  \/ \E p \in Adopters : Adopt(p)

Spec == Init /\ [][Next]_vars

(* The worker polls its inbox for ever; nothing else is promised.           *)
FairSpec == Spec /\ WF_vars(Mint)

-----------------------------------------------------------------------------

(* Properties. *)

(* The history never names a message that has been deleted: transaction and *)
(* clean-up succeed or fail together, whatever call fails between a post    *)
(* and the end of the job.                                                  *)
NamesOnly(database, messages) ==
  /\ database.post # 0 => database.post \in messages
  /\ \A a \in Assets : database.root[a] # 0 => database.root[a] \in messages

HistoryTrue == NamesOnly(db, shown)

(* What a result file reports as created or shared is in the channel: the   *)
(* outcomes follow the posts through aborts, rollbacks and new attempts.    *)
ReportTrue ==
  \A j \in Jobs : \A a \in result[j].made :
    \E ts \in shown : log[ts].job = j /\ log[ts].asset = a

(* A job that fails "no longer leaves a partial post in slack" (CHANGELOG,  *)
(* 1.2.1): a message stays in the channel only with the transaction that    *)
(* records its attempt, but for those of which the worker never got the     *)
(* timestamp, forgot it in a crash, or was refused the deletion.            *)
NoPartialPost == shown \subseteq kept \cup run.posted \cup stranded

(* An asset gets one root, however often its tab is sent: as long as nobody *)
(* adopts, nothing dies, and no message is stranded, the season file keeps  *)
(* every thread that is in the channel.                                     *)
OneRootEach ==
  adoptions = 0 /\ faults = 0 /\ stranded = {} =>
    \A a \in Assets : Newest(a) # 0 => Roots(a) = {Newest(a)}

(* Every job is answered: it leaves the inbox with a result for Flightdeck, *)
(* or at least a line in failed.json.                                       *)
EveryMintAnswered ==
  \A j \in Jobs : j \in inbox ~>
    (j \notin inbox /\ (result[j].status # "none" \/ j \in failed))

(* What the design says of sending a tab again, that it "is safe because of *)
(* step 2", where assets with a thread are skipped: what is reported as     *)
(* skipped has a message in the channel.                                    *)
SkippedIsThreaded ==
  \A j \in Jobs : \A a \in result[j].skipped : \E ts \in shown : log[ts].asset = a

(* What the design says of adoptions that the sender has not seen:          *)
(* "Threader rechecks at execution, so no duplicate is posted".             *)
NoDuplicate ==
  faults = 0 /\ stranded = {} =>
    \A a \in Assets : Newest(a) # 0 => Roots(a) = {Newest(a)}
=============================================================================
