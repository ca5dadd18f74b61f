---------------------------- MODULE ThreadDelivery ----------------------------
(***************************************************************************)
(* The drain of thread_message jobs (thread_message_jobs.py, cl_jobs.py).  *)
(*                                                                         *)
(* ReviewPrep drops a job (one JSON file and its image copies) in          *)
(* slack_jobs/inbox of a file share.  A worker lists the inbox and, job by *)
(* job, replies once in an existing Slack thread and moves the job to      *)
(* done/.  The guard against a second reply is a receipt file created with *)
(* O_EXCL under the fingerprint of the content, so that it also holds for  *)
(* other job ids, other workers, and after a crash.                        *)
(*                                                                         *)
(* One action is one access to the share or to Slack: everything between   *)
(* two accesses may be interleaved with other workers, with ReviewPrep and *)
(* with a crash.                                                           *)
(***************************************************************************)
EXTENDS Naturals, FiniteSets

CONSTANTS
  Workers,      \* worker processes draining the same share
  Jobs,         \* job ids (one inbox JSON file each)
  NoJob,        \* what an idle worker holds
  Contents,     \* fingerprints: channel, thread, body and image digests
  ContentOf,    \* the fingerprint of each job
  KindOf,       \* what each job asks for, see JobKinds
  ShareDenies,  \* whether the share may refuse a write, a rename or a read
  MaxDrops,     \* bound on the jobs dropped in the inbox
  MaxCrashes    \* bound on the crashes of workers

(* "text" and "image" post a reply; "empty" has neither body nor images and *)
(* posts nothing; "no_thread" lacks the spoke ids; "unsupported" is any     *)
(* file parse_job answers None for, such as an old Post CL job.             *)
JobKinds == {"text", "image", "empty", "no_thread", "unsupported"}

ASSUME DeliveryAssumption ==
  /\ NoJob \notin Jobs
  /\ ContentOf \in [Jobs -> Contents]
  /\ KindOf \in [Jobs -> JobKinds]
  /\ \A i, j \in Jobs : ContentOf[i] = ContentOf[j] /\ KindOf[i] = "empty" => KindOf[j] = "empty"
  /\ ShareDenies \in BOOLEAN
  /\ MaxDrops \in Nat
  /\ MaxCrashes \in Nat

VARIABLES
  inbox,    \* jobs whose JSON file is in inbox/
  images,   \* jobs whose image copies are in inbox/
  done,     \* jobs whose JSON file is in done/
  receipt,  \* delivery_receipts/: the status in each content's receipt
  sent,     \* the job ids readable in sent.json
  failed,   \* the job ids readable in failed.json
  posts,    \* Slack: replies posted with each content
  pc,       \* the access each worker makes next
  job,      \* the job each worker is processing
  todo,     \* what is left of each worker's listing of the inbox
  view,     \* the ledger each worker read and has not yet written back
  drops,    \* jobs dropped so far
  crashes   \* crashes so far

vars == <<inbox, images, done, receipt, sent, failed, posts, pc, job, todo, view, drops, crashes>>
files   == <<inbox, images, done>>
ledgers == <<sent, failed>>
bounds  == <<drops, crashes>>

(* "blank" is a receipt created but not yet written: nobody can read it.   *)
ReceiptStatus == {"none", "blank", "claimed", "sent", "failed"}

Steps == {"idle", "next", "check", "sent_has", "claim", "record", "dup", "post",
          "finish_sent", "finish_failed", "stamp", "stamp_write",
          "fail", "fail_write", "move", "move_images"}

TypeOK ==
  /\ inbox \subseteq Jobs /\ images \subseteq Jobs /\ done \subseteq Jobs
  /\ receipt \in [Contents -> ReceiptStatus]
  /\ sent \subseteq Jobs /\ failed \subseteq Jobs
  /\ posts \in [Contents -> Nat]
  /\ pc \in [Workers -> Steps]
  /\ job \in [Workers -> Jobs \cup {NoJob}]
  /\ \A w \in Workers : pc[w] \notin {"idle", "next"} => job[w] \in Jobs
  /\ todo \in [Workers -> SUBSET Jobs]
  /\ view \in [Workers -> SUBSET Jobs]
  /\ drops \in 0..MaxDrops /\ crashes \in 0..MaxCrashes

HasImages(j) == KindOf[j] = "image"
Content(w) == ContentOf[job[w]]
ImagesGone(w) == HasImages(job[w]) /\ job[w] \notin images

Goto(w, step) == pc' = [pc EXCEPT ![w] = step]

(* A ledger is rewritten in place when the share denies the rename over it, *)
(* so a reader that comes in the middle finds no valid JSON, which every    *)
(* reader treats as an empty ledger.                                        *)
Torn(writing) == ShareDenies /\ \E v \in Workers : pc[v] = writing
SentAsRead == {sent} \cup (IF Torn("stamp_write") THEN {{}} ELSE {})

(* failed.json is also taken for empty when the read itself is refused.     *)
FailedAsRead == {failed} \cup (IF ShareDenies THEN {{}} ELSE {})

-----------------------------------------------------------------------------

Init ==
  /\ inbox = {} /\ images = {} /\ done = {}
  /\ receipt = [c \in Contents |-> "none"]
  /\ sent = {} /\ failed = {}
  /\ posts = [c \in Contents |-> 0]
  /\ pc = [w \in Workers |-> "idle"]
  /\ job = [w \in Workers |-> NoJob]
  /\ todo = [w \in Workers |-> {}]
  /\ view = [w \in Workers |-> {}]
  /\ drops = 0 /\ crashes = 0

(* ReviewPrep writes a job in the inbox, or an operator puts one back from  *)
(* done/; a restored JSON may come without its image copies.                *)
Drop(j, withImages) ==
  /\ drops < MaxDrops
  /\ j \notin inbox
  /\ inbox' = inbox \cup {j}
  /\ images' = IF HasImages(j) /\ withImages THEN images \cup {j} ELSE images
  /\ done' = done \ {j}
  /\ drops' = drops + 1
  /\ UNCHANGED <<receipt, ledgers, posts, pc, job, todo, view, crashes>>

(* One tick of the worker lists the inbox; an empty listing does nothing.   *)
ListInbox(w) ==
  /\ pc[w] = "idle"
  /\ inbox # {}
  /\ todo' = [todo EXCEPT ![w] = inbox]
  /\ Goto(w, "next")
  /\ UNCHANGED <<files, receipt, ledgers, posts, job, view, bounds>>

(* The next listed file is parsed.  Job ids are random, so any order of the *)
(* listing is possible.  A file that is gone, or that the share refuses to  *)
(* read, parses as unsupported.                                             *)
TakeJob(w, j) ==
  /\ pc[w] = "next"
  /\ j \in todo[w]
  /\ todo' = [todo EXCEPT ![w] = @ \ {j}]
  /\ job' = [job EXCEPT ![w] = j]
  /\ \/ j \in inbox /\ KindOf[j] # "unsupported" /\ Goto(w, "check")
     \/ /\ j \notin inbox \/ KindOf[j] = "unsupported" \/ ShareDenies
        /\ Goto(w, "fail")
  /\ UNCHANGED <<files, receipt, ledgers, posts, view, bounds>>

EndOfList(w) ==
  /\ pc[w] = "next"
  /\ todo[w] = {}
  /\ job' = [job EXCEPT ![w] = NoJob]
  /\ Goto(w, "idle")
  /\ UNCHANGED <<files, receipt, ledgers, posts, todo, view, bounds>>

(* Missing spoke ids or a missing image copy fail the job.                  *)
CheckJob(w) ==
  /\ pc[w] = "check"
  /\ Goto(w, IF KindOf[job[w]] = "no_thread" \/ ImagesGone(w) THEN "fail" ELSE "sent_has")
  /\ UNCHANGED <<files, receipt, ledgers, posts, job, todo, view, bounds>>

(* A job id already in sent.json is only moved away; a ledger that cannot   *)
(* be read counts as empty.                                                 *)
CheckSent(w) ==
  /\ pc[w] = "sent_has"
  /\ \/ \E ledger \in SentAsRead : Goto(w, IF job[w] \in ledger THEN "move" ELSE "claim")
     \/ ShareDenies /\ Goto(w, "claim")
  /\ UNCHANGED <<files, receipt, ledgers, posts, job, todo, view, bounds>>

(* The images are hashed and the receipt is created with open("x").         *)
ClaimFails(w) ==
  /\ pc[w] = "claim"
  /\ ImagesGone(w) \/ ShareDenies
  /\ Goto(w, "fail")
  /\ UNCHANGED <<files, receipt, ledgers, posts, job, todo, view, bounds>>

ClaimRefused(w) ==
  /\ pc[w] = "claim"
  /\ ~ImagesGone(w)
  /\ receipt[Content(w)] # "none"
  /\ Goto(w, "dup")
  /\ UNCHANGED <<files, receipt, ledgers, posts, job, todo, view, bounds>>

(* Mutant: the receipt is opened for writing, whether it exists or not.     *)
ClaimOverwrites(w) ==
  /\ pc[w] = "claim"
  /\ ~ImagesGone(w)
  /\ receipt' = [receipt EXCEPT ![Content(w)] = "blank"]
  /\ Goto(w, "record")
  /\ UNCHANGED <<files, ledgers, posts, job, todo, view, bounds>>

ClaimCreates(w) ==
  /\ pc[w] = "claim"
  /\ ~ImagesGone(w)
  /\ receipt[Content(w)] = "none"
  /\ receipt' = [receipt EXCEPT ![Content(w)] = "blank"]
  /\ Goto(w, "record")
  /\ UNCHANGED <<files, ledgers, posts, job, todo, view, bounds>>

Claim(w) == ClaimFails(w) \/ ClaimRefused(w) \/ ClaimCreates(w)

(* The receipt's text is written; if that fails the blank file stays.       *)
RecordClaim(w) ==
  /\ pc[w] = "record"
  /\ \/ /\ receipt' = [receipt EXCEPT ![Content(w)] = "claimed"]
        /\ Goto(w, "post")
     \/ /\ ShareDenies
        /\ Goto(w, "fail")
        /\ UNCHANGED receipt
  /\ UNCHANGED <<files, ledgers, posts, job, todo, view, bounds>>

(* Mutant: every receipt already there is taken for a delivery.             *)
SuppressSilently(w) ==
  /\ pc[w] = "dup"
  /\ Goto(w, "move")
  /\ UNCHANGED <<files, receipt, ledgers, posts, job, todo, view, bounds>>

(* Mutant: the suppressed duplicate records its own failure in the receipt. *)
SuppressAndMark(w) ==
  /\ pc[w] = "dup"
  /\ receipt' = [receipt EXCEPT ![Content(w)] = "failed"]
  /\ Goto(w, "fail")
  /\ UNCHANGED <<files, ledgers, posts, job, todo, view, bounds>>

(* Somebody else's receipt: reported unless it says the content was sent,   *)
(* and reported all the same when it cannot be read.                        *)
SuppressDuplicate(w) ==
  /\ pc[w] = "dup"
  /\ \/ Goto(w, IF receipt[Content(w)] = "sent" THEN "move" ELSE "fail")
     \/ ShareDenies /\ Goto(w, "fail")
  /\ UNCHANGED <<files, receipt, ledgers, posts, job, todo, view, bounds>>

-----------------------------------------------------------------------------

(* The Slack call.  Slack may accept the reply, refuse it, or accept it and *)
(* lose the answer, which the worker cannot tell from a refusal.  Images    *)
(* moved away meanwhile make the upload fail before Slack has them.         *)
SlackAccepts(w) ==
  /\ KindOf[job[w]] # "empty"
  /\ ~ImagesGone(w)
  /\ posts' = [posts EXCEPT ![Content(w)] = @ + 1]

(* Mutant: an error of the Slack call is swallowed.                         *)
PostAnyway(w) ==
  /\ pc[w] = "post"
  /\ Goto(w, "finish_sent")
  /\ SlackAccepts(w) \/ UNCHANGED posts
  /\ UNCHANGED <<files, receipt, ledgers, job, todo, view, bounds>>

Post(w) ==
  /\ pc[w] = "post"
  /\ \/ SlackAccepts(w) /\ Goto(w, "finish_sent")
     \/ SlackAccepts(w) /\ Goto(w, "finish_failed")
     \/ /\ KindOf[job[w]] # "empty"
        /\ Goto(w, "finish_failed")
        /\ UNCHANGED posts
     \/ /\ KindOf[job[w]] = "empty"
        /\ Goto(w, "finish_sent")
        /\ UNCHANGED posts
  /\ UNCHANGED <<files, receipt, ledgers, job, todo, view, bounds>>

(* The receipt is updated, never removed; an update that fails is logged.   *)
FinishReceipt(w, step, status, then) ==
  /\ pc[w] = step
  /\ \/ receipt' = [receipt EXCEPT ![Content(w)] = IF @ = "blank" THEN @ ELSE status]
     \/ ShareDenies /\ UNCHANGED receipt
  /\ Goto(w, then)
  /\ UNCHANGED <<files, ledgers, posts, job, todo, view, bounds>>

FinishSent(w) == FinishReceipt(w, "finish_sent", "sent", "stamp")

(* Mutant: a failed call updates the receipt but not failed.json.           *)
FinishFailedUnlisted(w) == FinishReceipt(w, "finish_failed", "failed", "move")

(* Mutant: a reply that Slack did not confirm is posted again at once.      *)
FinishFailedRetrying(w) == FinishReceipt(w, "finish_failed", "failed", "post")

FinishFailed(w) == FinishReceipt(w, "finish_failed", "failed", "fail")

(* stamp_sent reads sent.json and writes it back with the job id.  When the *)
(* share refuses, both are tried again; a second refusal is logged and the  *)
(* job leaves the inbox all the same.  That there is only one retry is left *)
(* out: a refusal may be the first or the last.                             *)
StampRead(w) ==
  /\ pc[w] = "stamp"
  /\ \/ /\ \E ledger \in SentAsRead : view' = [view EXCEPT ![w] = ledger]
        /\ Goto(w, "stamp_write")
     \/ ShareDenies /\ Goto(w, "move") /\ UNCHANGED view
  /\ UNCHANGED <<files, receipt, ledgers, posts, job, todo, bounds>>

StampWrite(w) ==
  /\ pc[w] = "stamp_write"
  /\ \/ /\ sent' = view[w] \cup {job[w]}
        /\ Goto(w, "move")
     \/ /\ ShareDenies
        /\ Goto(w, "stamp") \/ Goto(w, "move")
        /\ UNCHANGED sent
  /\ view' = [view EXCEPT ![w] = {}]
  /\ UNCHANGED <<files, receipt, failed, posts, job, todo, bounds>>

(* write_failed does the same to failed.json.                               *)
FailRead(w) ==
  /\ pc[w] = "fail"
  /\ \E ledger \in FailedAsRead : view' = [view EXCEPT ![w] = ledger]
  /\ Goto(w, "fail_write")
  /\ UNCHANGED <<files, receipt, ledgers, posts, job, todo, bounds>>

FailWrite(w) ==
  /\ pc[w] = "fail_write"
  /\ failed' = view[w] \cup {job[w]}
  /\ view' = [view EXCEPT ![w] = {}]
  /\ Goto(w, "move")
  /\ UNCHANGED <<files, receipt, sent, posts, job, todo, bounds>>

(* A refused write of failed.json ends the whole drain of this tick.        *)
FailWriteRefused(w) ==
  /\ ShareDenies
  /\ pc[w] = "fail_write"
  /\ view' = [view EXCEPT ![w] = {}]
  /\ todo' = [todo EXCEPT ![w] = {}]
  /\ job' = [job EXCEPT ![w] = NoJob]
  /\ Goto(w, "idle")
  /\ UNCHANGED <<files, receipt, ledgers, posts, bounds>>

(* move_to_done: first the JSON, then the image copies.  Nothing is moved   *)
(* when the JSON is gone already; a refused rename is ignored.              *)
MoveJson(w) ==
  /\ pc[w] = "move"
  /\ \/ /\ job[w] \in inbox
        /\ inbox' = inbox \ {job[w]}
        /\ done' = done \cup {job[w]}
        /\ Goto(w, "move_images")
     \/ /\ job[w] \in inbox
        /\ ShareDenies
        /\ Goto(w, "move_images")
        /\ UNCHANGED <<inbox, done>>
     \/ /\ job[w] \notin inbox
        /\ Goto(w, "next")
        /\ UNCHANGED <<inbox, done>>
  /\ UNCHANGED <<images, receipt, ledgers, posts, job, todo, view, bounds>>

MoveImages(w) ==
  /\ pc[w] = "move_images"
  /\ \/ images' = images \ {job[w]}
     \/ ShareDenies /\ UNCHANGED images
  /\ Goto(w, "next")
  /\ UNCHANGED <<inbox, done, receipt, ledgers, posts, job, todo, view, bounds>>

(* Mutant: a restarted worker resumes at the access it died in.             *)
CrashResumes(w) ==
  /\ crashes < MaxCrashes
  /\ pc[w] # "idle"
  /\ crashes' = crashes + 1
  /\ job' = [job EXCEPT ![w] = NoJob]
  /\ UNCHANGED <<files, receipt, ledgers, posts, pc, todo, view, drops>>

(* A worker dies and is restarted.  If it was rewriting a ledger in place,  *)
(* the ledger is left without valid JSON.                                   *)
Crash(w) ==
  /\ crashes < MaxCrashes
  /\ pc[w] # "idle"
  /\ crashes' = crashes + 1
  /\ \/ UNCHANGED ledgers
     \/ ShareDenies /\ pc[w] = "stamp_write" /\ sent' = {} /\ UNCHANGED failed
     \/ ShareDenies /\ pc[w] = "fail_write" /\ failed' = {} /\ UNCHANGED sent
  /\ Goto(w, "idle")
  /\ job' = [job EXCEPT ![w] = NoJob]
  /\ todo' = [todo EXCEPT ![w] = {}]
  /\ view' = [view EXCEPT ![w] = {}]
  /\ UNCHANGED <<files, receipt, posts, drops>>

-----------------------------------------------------------------------------

(* process_thread_message_job, from the parsed job to the move.             *)
Process(w) ==
  \/ CheckJob(w) \/ CheckSent(w)
  \/ Claim(w) \/ RecordClaim(w) \/ SuppressDuplicate(w)
  \/ Post(w) \/ FinishSent(w) \/ FinishFailed(w)
  \/ StampRead(w) \/ StampWrite(w)
  \/ FailRead(w) \/ FailWrite(w) \/ FailWriteRefused(w)
  \/ MoveJson(w) \/ MoveImages(w)

(* drain_thread_message_inbox.                                              *)
Drain(w) ==
  \/ ListInbox(w) \/ EndOfList(w)
  \/ \E j \in Jobs : TakeJob(w, j)
  \/ Process(w)

Next ==
  \/ \E j \in Jobs, withImages \in BOOLEAN : Drop(j, withImages)
  \/ \E w \in Workers : Drain(w) \/ Crash(w)

Spec == Init /\ [][Next]_vars

(* run_forever polls for ever and no step of the drain waits for another    *)
(* process; nothing obliges ReviewPrep to drop jobs or a worker to crash.   *)
FairSpec == Spec /\ \A w \in Workers : WF_vars(Drain(w))

-----------------------------------------------------------------------------

(* Properties. *)

(* "At-most-once semantics across duplicate confirms, multiple workers, and *)
(* process crashes" (_claim_delivery): Slack never shows the same content   *)
(* twice, whoever drains it, however often it is dropped, and wherever the  *)
(* workers die.                                                             *)
AtMostOnce == \A c \in Contents : posts[c] <= 1

PostedOrEmpty(c) ==
  posts[c] = 1 \/ \E j \in Jobs : ContentOf[j] = c /\ KindOf[j] = "empty"

(* Neither sent.json nor a receipt claims a delivery that did not happen:   *)
(* both are written two or three accesses after the Slack call, from what   *)
(* another worker or a dead one may have left.                              *)
SentIsTrue ==
  /\ \A j \in sent : PostedOrEmpty(ContentOf[j])
  /\ \A c \in Contents : receipt[c] = "sent" => PostedOrEmpty(c)

(* What a receipt says of a finished delivery stands: no other worker,      *)
(* restart or repeated drop changes the outcome it records.                 *)
ReceiptFinal ==
  [][\A c \in Contents : receipt[c] \in {"sent", "failed"} => receipt'[c] = receipt[c]]_vars

(* To whoever confirms a reply its delivery is three steps, whatever the    *)
(* number of jobs, workers and restarts: a claim, at most one post under    *)
(* that claim, and an outcome after which nothing is posted.                *)
Replies == INSTANCE ReplyLedger WITH
  Blank <- {ContentOf[j] : j \in {i \in Jobs : KindOf[i] = "empty"}},
  outcome <- [c \in Contents |-> IF receipt[c] = "blank" THEN "claimed" ELSE receipt[c]]
ImplementsReplies == Replies!Spec

Accounted(j) ==
  j \in failed \/ posts[ContentOf[j]] = 1 \/ receipt[ContentOf[j]] = "sent"

(* No job is lost in silence: what left the inbox, and nobody is working    *)
(* on, was posted or is listed in failed.json, wherever the worker died.    *)
NoSilentLoss ==
  \A j \in done : (\A w \in Workers : job[w] # j) => Accounted(j)

(* Every job dropped is answered: it leaves the inbox with its reply posted *)
(* or its failure listed.                                                   *)
EveryJobAnswered == \A j \in Jobs : j \in inbox ~> (j \notin inbox /\ Accounted(j))
=============================================================================
