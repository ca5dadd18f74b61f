------------------------- MODULE ThreadDeliveryProofs -------------------------
(***************************************************************************)
(* What the receipts guarantee, for every set of workers, jobs and         *)
(* contents, every number of drops and crashes, and a share that refuses   *)
(* any access: AtMostOnce, SentIsTrue and ReceiptFinal of ThreadDelivery.  *)
(*                                                                         *)
(* None of them is inductive.  ClaimInv adds why they hold: from the       *)
(* moment a worker creates a receipt until it has recorded the outcome, it *)
(* is the only one between those two accesses for that content, and it has *)
(* posted nothing before its Slack call.                                   *)
(*                                                                         *)
(* NoSilentLoss holds for one worker on a share that keeps what is         *)
(* written; LossInv says which answer every access goes on with.           *)
(***************************************************************************)
EXTENDS ThreadDelivery, TLAPS

(* The accesses of a worker that owns the receipt of its content.           *)
Claiming == {"record", "post", "finish_sent", "finish_failed"}

(* The accesses of a worker whose Slack call succeeded.                     *)
Delivered == {"finish_sent", "stamp", "stamp_write"}

ClaimInv ==
  /\ \A c \in Contents : receipt[c] = "none" => posts[c] = 0
  /\ \A w \in Workers : pc[w] \in Claiming => receipt[Content(w)] \in {"blank", "claimed"}
  /\ \A v, w \in Workers :
       pc[v] \in Claiming /\ pc[w] \in Claiming /\ Content(v) = Content(w) => v = w
  /\ \A w \in Workers : pc[w] \in {"record", "post"} => posts[Content(w)] = 0
  /\ AtMostOnce

(* What is about to be written in a ledger or a receipt is already true.    *)
StampInv ==
  /\ \A w \in Workers : pc[w] \in Delivered => PostedOrEmpty(Content(w))
  /\ \A w \in Workers : pc[w] = "stamp_write" =>
       \A j \in view[w] : PostedOrEmpty(ContentOf[j])
  /\ SentIsTrue

-----------------------------------------------------------------------------

(* The initial state has the types, and every action keeps them.            *)
THEOREM TypeCorrect == Spec => []TypeOK
<1> USE DeliveryAssumption DEF TypeOK, ReceiptStatus, Steps, files, ledgers, bounds
<1>1. Init => TypeOK
  BY DEF Init
<1>2. TypeOK /\ [Next]_vars => TypeOK'
  <2> SUFFICES ASSUME TypeOK, [Next]_vars PROVE TypeOK'
    OBVIOUS
  <2>1. ASSUME NEW j \in Jobs, NEW withImages \in BOOLEAN, Drop(j, withImages) PROVE TypeOK'
    BY <2>1 DEF Drop
  <2>2. ASSUME NEW w \in Workers, ListInbox(w) PROVE TypeOK'
    BY <2>2 DEF ListInbox, Goto
  <2>3. ASSUME NEW w \in Workers, EndOfList(w) PROVE TypeOK'
    BY <2>3 DEF EndOfList, Goto
  <2>4. ASSUME NEW w \in Workers, NEW j \in Jobs, TakeJob(w, j) PROVE TypeOK'
    BY <2>4 DEF TakeJob, Goto
  <2>5. ASSUME NEW w \in Workers, CheckJob(w) PROVE TypeOK'
    BY <2>5 DEF CheckJob, Goto
  <2>6. ASSUME NEW w \in Workers, CheckSent(w) PROVE TypeOK'
    BY <2>6 DEF CheckSent, Goto
  <2>7. ASSUME NEW w \in Workers, Claim(w) PROVE TypeOK'
    BY <2>7 DEF Claim, ClaimFails, ClaimRefused, ClaimCreates, Content, Goto
  <2>8. ASSUME NEW w \in Workers, RecordClaim(w) PROVE TypeOK'
    BY <2>8 DEF RecordClaim, Content, Goto
  <2>9. ASSUME NEW w \in Workers, SuppressDuplicate(w) PROVE TypeOK'
    BY <2>9 DEF SuppressDuplicate, Goto
  <2>10. ASSUME NEW w \in Workers, Post(w) PROVE TypeOK'
    BY <2>10 DEF Post, SlackAccepts, Content, Goto
  <2>11. ASSUME NEW w \in Workers, FinishSent(w) \/ FinishFailed(w) PROVE TypeOK'
    BY <2>11 DEF FinishSent, FinishFailed, FinishReceipt, Content, Goto
  <2>12. ASSUME NEW w \in Workers, StampRead(w) PROVE TypeOK'
    BY <2>12 DEF StampRead, SentAsRead, Goto
  <2>13. ASSUME NEW w \in Workers, StampWrite(w) PROVE TypeOK'
    BY <2>13 DEF StampWrite, Goto
  <2>14. ASSUME NEW w \in Workers, FailRead(w) PROVE TypeOK'
    BY <2>14 DEF FailRead, FailedAsRead, Goto
  <2>15. ASSUME NEW w \in Workers, FailWrite(w) PROVE TypeOK'
    BY <2>15 DEF FailWrite, Goto
  <2>16. ASSUME NEW w \in Workers, FailWriteRefused(w) PROVE TypeOK'
    BY <2>16 DEF FailWriteRefused, Goto
  <2>17. ASSUME NEW w \in Workers, MoveJson(w) PROVE TypeOK'
    BY <2>17 DEF MoveJson, Goto
  <2>18. ASSUME NEW w \in Workers, MoveImages(w) PROVE TypeOK'
    BY <2>18 DEF MoveImages, Goto
  <2>19. ASSUME NEW w \in Workers, Crash(w) PROVE TypeOK'
    BY <2>19 DEF Crash, Goto
  <2>20. CASE UNCHANGED vars
    BY <2>20 DEF vars
  <2>21. QED
    BY <2>1, <2>2, <2>3, <2>4, <2>5, <2>6, <2>7, <2>8, <2>9, <2>10, <2>11, <2>12, <2>13,
       <2>14, <2>15, <2>16, <2>17, <2>18, <2>19, <2>20 DEF Next, Drain, Process
<1>3. QED
  BY <1>1, <1>2, PTL DEF Spec

-----------------------------------------------------------------------------

(* A step that touches neither receipts nor Slack and leaves its worker     *)
(* outside the claim keeps ClaimInv.                                        *)
LEMMA QuietStep ==
  ASSUME NEW w \in Workers, NEW step \in Steps \ Claiming, TypeOK, ClaimInv,
         Goto(w, step), UNCHANGED <<receipt, posts>>,
         \A v \in Workers : v # w => job'[v] = job[v]
  PROVE  ClaimInv'
<1>1. \A v \in Workers : pc'[v] \in Claiming => v # w /\ pc[v] = pc'[v] /\ Content(v)' = Content(v)
  BY DEF TypeOK, Goto, Content, Claiming
<1>2. QED
  BY <1>1 DEF ClaimInv, AtMostOnce, Claiming

(* A claiming step: the worker stays the only owner of its content while it *)
(* moves along the claim, its job unchanged.                                *)
LEMMA ClaimStep ==
  ASSUME NEW w \in Workers, NEW step \in Steps, TypeOK, ClaimInv,
         pc[w] \in Claiming, Goto(w, step), UNCHANGED job,
         \A c \in Contents : c # Content(w) => receipt'[c] = receipt[c] /\ posts'[c] = posts[c],
         receipt'[Content(w)] # "none",
         step \in Claiming => receipt'[Content(w)] \in {"blank", "claimed"},
         step \in {"record", "post"} => posts'[Content(w)] = 0,
         posts'[Content(w)] <= 1
  PROVE  ClaimInv'
<1>1. \A v \in Workers : v # w => pc'[v] = pc[v] /\ Content(v)' = Content(v)
  BY DEF TypeOK, Goto, Content
<1>2. pc'[w] = step /\ Content(w)' = Content(w)
  BY DEF TypeOK, Goto, Content
<1>3. \A v \in Workers : pc[v] \in Claiming => Content(v) \in Contents
  BY DeliveryAssumption DEF TypeOK, Content, Claiming
<1>4. \A v \in Workers : v # w /\ pc[v] \in Claiming => Content(v) # Content(w)
  BY DEF ClaimInv
<1>5. (\A c \in Contents : receipt[c] = "none" => posts[c] = 0)'
  BY DEF ClaimInv
<1>6. (\A v \in Workers : pc[v] \in Claiming => receipt[Content(v)] \in {"blank", "claimed"})'
  BY <1>1, <1>2, <1>3, <1>4 DEF ClaimInv
<1>7. (\A u, v \in Workers : pc[u] \in Claiming /\ pc[v] \in Claiming /\ Content(u) = Content(v) => u = v)'
  BY <1>1, <1>2 DEF ClaimInv
<1>8. (\A v \in Workers : pc[v] \in {"record", "post"} => posts[Content(v)] = 0)'
  BY <1>1, <1>2, <1>3, <1>4 DEF ClaimInv, Claiming
<1>9. AtMostOnce'
  BY DEF ClaimInv, AtMostOnce
<1>10. QED
  BY <1>5, <1>6, <1>7, <1>8, <1>9 DEF ClaimInv

(* ClaimInv is inductive.                                                   *)
LEMMA ClaimInductive == TypeOK /\ ClaimInv /\ [Next]_vars => ClaimInv'
<1> SUFFICES ASSUME TypeOK, ClaimInv, [Next]_vars PROVE ClaimInv'
  OBVIOUS
<1>1. ASSUME NEW j \in Jobs, NEW withImages \in BOOLEAN, Drop(j, withImages) PROVE ClaimInv'
  BY <1>1 DEF Drop, ClaimInv, AtMostOnce, Content
<1>2. ASSUME NEW w \in Workers, ListInbox(w) PROVE ClaimInv'
  BY <1>2, QuietStep DEF ListInbox, Steps, Claiming
<1>3. ASSUME NEW w \in Workers, EndOfList(w) PROVE ClaimInv'
  <2>1. \A v \in Workers : v # w => job'[v] = job[v]
    BY <1>3 DEF EndOfList, TypeOK
  <2>2. QED
    BY <1>3, <2>1, QuietStep DEF EndOfList, Steps, Claiming
<1>4. ASSUME NEW w \in Workers, NEW j \in Jobs, TakeJob(w, j) PROVE ClaimInv'
  <2>1. \A v \in Workers : v # w => job'[v] = job[v]
    BY <1>4 DEF TakeJob, TypeOK
  <2>2. QED
    BY <1>4, <2>1, QuietStep DEF TakeJob, Steps, Claiming
<1>5. ASSUME NEW w \in Workers, CheckJob(w) PROVE ClaimInv'
  BY <1>5, QuietStep DEF CheckJob, Steps, Claiming
<1>6. ASSUME NEW w \in Workers, CheckSent(w) PROVE ClaimInv'
  BY <1>6, QuietStep DEF CheckSent, Steps, Claiming
<1>7. ASSUME NEW w \in Workers, ClaimFails(w) \/ ClaimRefused(w) PROVE ClaimInv'
  BY <1>7, QuietStep DEF ClaimFails, ClaimRefused, Steps, Claiming
<1>8. ASSUME NEW w \in Workers, ClaimCreates(w) PROVE ClaimInv'
  <2>1. Content(w) \in Contents /\ receipt[Content(w)] = "none" /\ posts[Content(w)] = 0
    BY <1>8, DeliveryAssumption DEF ClaimCreates, ClaimInv, TypeOK, Content
  <2>2. \A v \in Workers : pc[v] \in Claiming => v # w /\ Content(v) \in Contents /\ Content(v) # Content(w)
    BY <1>8, <2>1, DeliveryAssumption DEF ClaimCreates, ClaimInv, TypeOK, Content, Claiming
  <2>3. \A v \in Workers : /\ Content(v)' = Content(v)
                           /\ v # w => pc'[v] = pc[v]
    BY <1>8 DEF ClaimCreates, Content, Goto, TypeOK
  <2>4. /\ pc'[w] = "record" /\ posts' = posts /\ receipt'[Content(w)] = "blank"
        /\ \A c \in Contents : c # Content(w) => receipt'[c] = receipt[c]
    BY <1>8, <2>1 DEF ClaimCreates, Goto, TypeOK
  <2>5. (\A c \in Contents : receipt[c] = "none" => posts[c] = 0)'
    BY <2>1, <2>4 DEF ClaimInv
  <2>6. (\A v \in Workers : pc[v] \in Claiming => receipt[Content(v)] \in {"blank", "claimed"})'
    BY <2>2, <2>3, <2>4 DEF ClaimInv
  <2>7. (\A u, v \in Workers : pc[u] \in Claiming /\ pc[v] \in Claiming /\ Content(u) = Content(v) => u = v)'
    BY <2>2, <2>3 DEF ClaimInv
  <2>8. (\A v \in Workers : pc[v] \in {"record", "post"} => posts[Content(v)] = 0)'
    BY <2>1, <2>3, <2>4 DEF ClaimInv
  <2>9. QED
    BY <2>4, <2>5, <2>6, <2>7, <2>8 DEF ClaimInv, AtMostOnce
<1>9. ASSUME NEW w \in Workers, RecordClaim(w) PROVE ClaimInv'
  <2> DEFINE c == Content(w)
  <2>1. /\ pc[w] = "record" /\ c \in Contents
        /\ receipt[c] \in {"blank", "claimed"} /\ posts[c] = 0
    BY <1>9, DeliveryAssumption DEF RecordClaim, TypeOK, Content, ClaimInv, Claiming
  <2>2. CASE receipt' = [receipt EXCEPT ![c] = "claimed"] /\ Goto(w, "post")
    BY <1>9, <2>1, <2>2, ClaimStep DEF RecordClaim, TypeOK, Steps, Claiming
  <2>3. CASE UNCHANGED receipt /\ Goto(w, "fail")
    BY <1>9, <2>1, <2>3, QuietStep DEF RecordClaim, Steps, Claiming
  <2>4. QED
    BY <1>9, <2>2, <2>3 DEF RecordClaim
<1>10. ASSUME NEW w \in Workers, SuppressDuplicate(w) PROVE ClaimInv'
  BY <1>10, QuietStep DEF SuppressDuplicate, Steps, Claiming
<1>11. ASSUME NEW w \in Workers, Post(w) PROVE ClaimInv'
  <2> DEFINE c == Content(w)
  <2>1. /\ pc[w] = "post" /\ c \in Contents
        /\ receipt[c] \in {"blank", "claimed"} /\ posts[c] = 0
    BY <1>11, DeliveryAssumption DEF Post, TypeOK, Content, ClaimInv, Claiming
  <2>2. posts' = posts \/ posts' = [posts EXCEPT ![c] = @ + 1]
    BY <1>11 DEF Post, SlackAccepts
  <2>3. posts'[c] <= 1 /\ \A d \in Contents : d # c => posts'[d] = posts[d]
    BY <2>1, <2>2 DEF TypeOK
  <2>4. \E step \in {"finish_sent", "finish_failed"} : Goto(w, step)
    BY <1>11 DEF Post
  <2>5. UNCHANGED <<receipt, job>>
    BY <1>11 DEF Post
  <2>6. QED
    BY <2>1, <2>3, <2>4, <2>5, ClaimStep DEF Steps, Claiming
<1>12. ASSUME NEW w \in Workers, FinishSent(w) \/ FinishFailed(w) PROVE ClaimInv'
  <2> DEFINE c == Content(w)
  <2>1. /\ pc[w] \in {"finish_sent", "finish_failed"} /\ c \in Contents
        /\ receipt[c] \in {"blank", "claimed"} /\ posts[c] <= 1
    BY <1>12, DeliveryAssumption
       DEF FinishSent, FinishFailed, FinishReceipt, TypeOK, Content, ClaimInv, Claiming, AtMostOnce
  <2>2. receipt'[c] # "none" /\ \A d \in Contents : d # c => receipt'[d] = receipt[d]
    BY <1>12, <2>1 DEF FinishSent, FinishFailed, FinishReceipt, TypeOK
  <2>3. \E step \in {"stamp", "fail"} : Goto(w, step)
    BY <1>12 DEF FinishSent, FinishFailed, FinishReceipt
  <2>4. UNCHANGED <<posts, job>>
    BY <1>12 DEF FinishSent, FinishFailed, FinishReceipt
  <2>5. QED
    BY <2>1, <2>2, <2>3, <2>4, ClaimStep DEF Steps, Claiming
<1>13. ASSUME NEW w \in Workers, StampRead(w) PROVE ClaimInv'
  BY <1>13, QuietStep DEF StampRead, Steps, Claiming
<1>14. ASSUME NEW w \in Workers, StampWrite(w) PROVE ClaimInv'
  BY <1>14, QuietStep DEF StampWrite, Steps, Claiming
<1>15. ASSUME NEW w \in Workers, FailRead(w) \/ FailWrite(w) PROVE ClaimInv'
  BY <1>15, QuietStep DEF FailRead, FailWrite, Steps, Claiming
<1>16. ASSUME NEW w \in Workers, FailWriteRefused(w) \/ Crash(w) PROVE ClaimInv'
  <2>1. \A v \in Workers : v # w => job'[v] = job[v]
    BY <1>16 DEF FailWriteRefused, Crash, TypeOK
  <2>2. QED
    BY <1>16, <2>1, QuietStep DEF FailWriteRefused, Crash, Steps, Claiming
<1>17. ASSUME NEW w \in Workers, MoveJson(w) \/ MoveImages(w) PROVE ClaimInv'
  BY <1>17, QuietStep DEF MoveJson, MoveImages, Steps, Claiming
<1>18. CASE UNCHANGED vars
  BY <1>18 DEF vars, ClaimInv, AtMostOnce, Content
<1>19. QED
  BY <1>1, <1>2, <1>3, <1>4, <1>5, <1>6, <1>7, <1>8, <1>9, <1>10, <1>11, <1>12, <1>13,
     <1>14, <1>15, <1>16, <1>17, <1>18 DEF Next, Drain, Process, Claim

(* No content is ever shown twice in Slack.                                 *)
THEOREM NeverTwice == Spec => []AtMostOnce
<1>1. Init => ClaimInv
  BY DEF Init, ClaimInv, AtMostOnce, Claiming
<1>2. ClaimInv => AtMostOnce
  BY DEF ClaimInv
<1>3. QED
  BY <1>1, <1>2, ClaimInductive, TypeCorrect, PTL DEF Spec

(* A recorded outcome is never rewritten: whoever writes a receipt owns a   *)
(* claim on it, and then it is not final yet.                               *)
LEMMA ReceiptStands ==
  ASSUME TypeOK, ClaimInv, [Next]_vars, NEW c \in Contents, receipt[c] \in {"sent", "failed"}
  PROVE  receipt'[c] = receipt[c]
<1>1. CASE UNCHANGED receipt
  BY <1>1
<1>2. ASSUME NEW w \in Workers, ClaimCreates(w) PROVE receipt'[c] = receipt[c]
  BY <1>2 DEF ClaimCreates, TypeOK
<1>3. ASSUME NEW w \in Workers, RecordClaim(w) \/ FinishSent(w) \/ FinishFailed(w)
      PROVE  receipt'[c] = receipt[c]
  <2>1. receipt[Content(w)] \in {"blank", "claimed"}
    BY <1>3 DEF RecordClaim, FinishSent, FinishFailed, FinishReceipt, ClaimInv, Claiming
  <2>2. c # Content(w)
    BY <2>1
  <2>3. QED
    BY <1>3, <2>2 DEF RecordClaim, FinishSent, FinishFailed, FinishReceipt, TypeOK
<1>4. QED
  BY <1>1, <1>2, <1>3
     DEF Next, Drain, Process, Claim, vars, files, ledgers, bounds, Drop, ListInbox, EndOfList,
         TakeJob, CheckJob, CheckSent, ClaimFails, ClaimRefused, SuppressDuplicate, Post,
         StampRead, StampWrite, FailRead, FailWrite, FailWriteRefused, MoveJson, MoveImages, Crash

(* What a receipt says of a finished delivery stands, whatever other        *)
(* workers, restarts and repeated drops do.                                 *)
THEOREM OutcomeStands == Spec => ReceiptFinal
<1> DEFINE Final == \A c \in Contents : receipt[c] \in {"sent", "failed"} => receipt'[c] = receipt[c]
<1>1. TypeOK /\ ClaimInv /\ [Next]_vars => [Final]_vars
  BY ReceiptStands
<1>2. Init => ClaimInv
  BY DEF Init, ClaimInv, AtMostOnce, Claiming
<1>3. QED
  BY <1>1, <1>2, ClaimInductive, TypeCorrect, PTL DEF Spec, ReceiptFinal

-----------------------------------------------------------------------------

(* What was delivered stays delivered.                                      *)
LEMMA DeliveryStands ==
  ASSUME TypeOK, ClaimInv, [Next]_vars, NEW c \in Contents, PostedOrEmpty(c)
  PROVE  PostedOrEmpty(c)'
<1>1. CASE UNCHANGED posts
  BY <1>1 DEF PostedOrEmpty
<1>2. ASSUME NEW w \in Workers, Post(w) PROVE PostedOrEmpty(c)'
  <2>1. posts[Content(w)] = 0
    BY <1>2 DEF Post, ClaimInv
  <2>2. CASE c = Content(w)
    BY <2>1, <2>2 DEF PostedOrEmpty
  <2>3. CASE c # Content(w)
    BY <1>2, <2>3 DEF Post, SlackAccepts, PostedOrEmpty, TypeOK
  <2>4. QED
    BY <2>2, <2>3
<1>3. QED
  BY <1>1, <1>2
     DEF Next, Drain, Process, Claim, vars, files, ledgers, bounds, Drop, ListInbox, EndOfList,
         TakeJob, CheckJob, CheckSent, ClaimFails, ClaimRefused, ClaimCreates, RecordClaim,
         SuppressDuplicate, FinishSent, FinishFailed, FinishReceipt,
         StampRead, StampWrite, FailRead, FailWrite, FailWriteRefused, MoveJson, MoveImages, Crash

(* A step of w keeps StampInv if what w itself holds and what the ledgers   *)
(* now say is true.                                                         *)
LEMMA StampStep ==
  ASSUME NEW w \in Workers, NEW step \in Steps, TypeOK, StampInv, Goto(w, step),
         \A v \in Workers : v # w => job'[v] = job[v] /\ view'[v] = view[v],
         \A c \in Contents : PostedOrEmpty(c) => PostedOrEmpty(c)',
         step \in Delivered => PostedOrEmpty(Content(w))',
         step = "stamp_write" => \A j \in view'[w] : PostedOrEmpty(ContentOf[j])',
         SentIsTrue'
  PROVE  StampInv'
<1>1. pc'[w] = step /\ \A v \in Workers : v # w =>
        pc[v] = pc'[v] /\ Content(v)' = Content(v) /\ view'[v] = view[v]
  BY DEF TypeOK, Goto, Content
<1>2. \A v \in Workers : pc[v] \in Delivered => Content(v) \in Contents
  BY DeliveryAssumption DEF TypeOK, Content, Delivered
<1>3. ASSUME NEW v \in Workers, pc'[v] \in Delivered PROVE PostedOrEmpty(Content(v))'
  <2>1. CASE v = w
    BY <1>1, <1>3, <2>1
  <2>2. CASE v # w
    <3>1. PostedOrEmpty(Content(v)) /\ Content(v) \in Contents /\ Content(v)' = Content(v)
      BY <1>1, <1>2, <1>3, <2>2 DEF StampInv
    <3>2. QED
      BY <3>1 DEF PostedOrEmpty
  <2>3. QED
    BY <2>1, <2>2
<1>4. \A v \in Workers : pc'[v] = "stamp_write" => \A j \in view'[v] : PostedOrEmpty(ContentOf[j])'
  BY <1>1, DeliveryAssumption DEF StampInv, TypeOK
<1>5. QED
  BY <1>3, <1>4 DEF StampInv

(* A step that delivers nothing and records nothing new keeps StampInv.     *)
LEMMA UndeliveredStep ==
  ASSUME NEW w \in Workers, NEW step \in Steps \ Delivered, TypeOK, StampInv,
         Goto(w, step), sent' \subseteq sent,
         \A c \in Contents : receipt'[c] = "sent" => receipt[c] = "sent",
         \A v \in Workers : v # w => job'[v] = job[v] /\ view'[v] = view[v],
         \A c \in Contents : PostedOrEmpty(c) => PostedOrEmpty(c)'
  PROVE  StampInv'
<1>1. SentIsTrue'
  BY DeliveryAssumption DEF StampInv, SentIsTrue, TypeOK
<1>2. QED
  BY <1>1, StampStep DEF Delivered

(* StampInv is inductive, given ClaimInv.                                   *)
LEMMA StampInductive == TypeOK /\ ClaimInv /\ StampInv /\ [Next]_vars => StampInv'
<1> SUFFICES ASSUME TypeOK, ClaimInv, StampInv, [Next]_vars PROVE StampInv'
  OBVIOUS
<1>0. \A c \in Contents : PostedOrEmpty(c) => PostedOrEmpty(c)'
  BY DeliveryStands
<1> USE DEF Steps, Delivered
<1>1. ASSUME NEW j \in Jobs, NEW withImages \in BOOLEAN, Drop(j, withImages) PROVE StampInv'
  BY <1>1 DEF Drop, ledgers, StampInv, SentIsTrue, PostedOrEmpty, Content
<1>2. ASSUME NEW w \in Workers, ListInbox(w) PROVE StampInv'
  BY <1>0, <1>2, UndeliveredStep DEF ListInbox, ledgers
<1>3. ASSUME NEW w \in Workers, EndOfList(w) PROVE StampInv'
  <2>1. \A v \in Workers : v # w => job'[v] = job[v]
    BY <1>3 DEF EndOfList, TypeOK
  <2>2. QED
    BY <1>0, <1>3, <2>1, UndeliveredStep DEF EndOfList, ledgers
<1>4. ASSUME NEW w \in Workers, NEW j \in Jobs, TakeJob(w, j) PROVE StampInv'
  <2>1. \A v \in Workers : v # w => job'[v] = job[v]
    BY <1>4 DEF TakeJob, TypeOK
  <2>2. QED
    BY <1>0, <1>4, <2>1, UndeliveredStep DEF TakeJob, ledgers
<1>5. ASSUME NEW w \in Workers, CheckJob(w) \/ CheckSent(w) \/ SuppressDuplicate(w) PROVE StampInv'
  BY <1>0, <1>5, UndeliveredStep DEF CheckJob, CheckSent, SuppressDuplicate, ledgers
<1>6. ASSUME NEW w \in Workers, Claim(w) PROVE StampInv'
  <2>1. \A c \in Contents : receipt'[c] = "sent" => receipt[c] = "sent"
    BY <1>6 DEF Claim, ClaimFails, ClaimRefused, ClaimCreates, TypeOK
  <2>2. QED
    BY <1>0, <1>6, <2>1, UndeliveredStep DEF Claim, ClaimFails, ClaimRefused, ClaimCreates, ledgers
<1>7. ASSUME NEW w \in Workers, RecordClaim(w) PROVE StampInv'
  <2>1. \A c \in Contents : receipt'[c] = "sent" => receipt[c] = "sent"
    BY <1>7 DEF RecordClaim, TypeOK
  <2>2. QED
    BY <1>0, <1>7, <2>1, UndeliveredStep DEF RecordClaim, ledgers
<1>8. ASSUME NEW w \in Workers, Post(w) PROVE StampInv'
  <2>1. CASE Goto(w, "finish_failed")
    BY <1>0, <1>8, <2>1, UndeliveredStep DEF Post, ledgers
  <2>2. CASE Goto(w, "finish_sent") /\ ~Goto(w, "finish_failed")
    <3>1. Content(w) \in Contents /\ posts[Content(w)] = 0 /\ job[w] \in Jobs
      BY <1>8, DeliveryAssumption DEF Post, TypeOK, ClaimInv, Content
    <3>2. posts' = [posts EXCEPT ![Content(w)] = @ + 1] \/ KindOf[job[w]] = "empty"
      BY <1>8, <2>2 DEF Post, SlackAccepts
    <3>3. PostedOrEmpty(Content(w))'
      BY <1>8, <3>1, <3>2 DEF Post, PostedOrEmpty, Content, TypeOK
    <3>4. SentIsTrue'
      BY <1>0, <1>8, DeliveryAssumption DEF Post, StampInv, SentIsTrue, TypeOK, ledgers
    <3>5. QED
      BY <1>0, <1>8, <2>2, <3>3, <3>4, StampStep DEF Post
  <2>3. QED
    BY <1>8, <2>1, <2>2 DEF Post
<1>9. ASSUME NEW w \in Workers, FinishSent(w) PROVE StampInv'
  <2>1. Content(w) \in Contents /\ PostedOrEmpty(Content(w))
    BY <1>9, DeliveryAssumption DEF FinishSent, FinishReceipt, StampInv, TypeOK, Content
  <2>2. PostedOrEmpty(Content(w))'
    BY <1>9, <2>1 DEF FinishSent, FinishReceipt, PostedOrEmpty, Content
  <2>3. SentIsTrue'
    BY <1>0, <1>9, <2>1, DeliveryAssumption
       DEF FinishSent, FinishReceipt, StampInv, SentIsTrue, TypeOK, ledgers
  <2>4. QED
    BY <1>0, <1>9, <2>2, <2>3, StampStep DEF FinishSent, FinishReceipt
<1>10. ASSUME NEW w \in Workers, FinishFailed(w) PROVE StampInv'
  <2>1. \A c \in Contents : receipt'[c] = "sent" => receipt[c] = "sent"
    BY <1>10 DEF FinishFailed, FinishReceipt, TypeOK
  <2>2. QED
    BY <1>0, <1>10, <2>1, UndeliveredStep DEF FinishFailed, FinishReceipt, ledgers
<1>11. ASSUME NEW w \in Workers, StampRead(w) PROVE StampInv'
  <2>1. CASE Goto(w, "move")
    BY <1>0, <1>11, <2>1, UndeliveredStep DEF StampRead, ledgers, TypeOK
  <2>2. CASE Goto(w, "stamp_write") /\ ~Goto(w, "move")
    <3>1. Content(w) \in Contents /\ PostedOrEmpty(Content(w))
      BY <1>11, DeliveryAssumption DEF StampRead, StampInv, TypeOK, Content
    <3>2. PostedOrEmpty(Content(w))'
      BY <1>11, <3>1 DEF StampRead, PostedOrEmpty, Content
    <3>3. \A v \in Workers : v # w => view'[v] = view[v]
      BY <1>11 DEF StampRead, TypeOK
    <3>4. view'[w] \subseteq sent
      BY <1>11, <2>2 DEF StampRead, SentAsRead, TypeOK
    <3>5. SentIsTrue'
      BY <1>0, <1>11, DeliveryAssumption DEF StampRead, StampInv, SentIsTrue, TypeOK, ledgers
    <3>6. \A j \in view'[w] : PostedOrEmpty(ContentOf[j])'
      BY <1>11, <3>4, <3>5 DEF StampRead, SentIsTrue, ledgers
    <3>7. QED
      BY <1>0, <1>11, <2>2, <3>2, <3>3, <3>5, <3>6, StampStep DEF StampRead
  <2>3. QED
    BY <1>11, <2>1, <2>2 DEF StampRead
<1>12. ASSUME NEW w \in Workers, StampWrite(w) PROVE StampInv'
  <2>1. Content(w) \in Contents /\ PostedOrEmpty(Content(w)) /\ Content(w) = ContentOf[job[w]]
    BY <1>12, DeliveryAssumption DEF StampWrite, StampInv, TypeOK, Content
  <2>2. \A j \in view[w] \cup sent : ContentOf[j] \in Contents /\ PostedOrEmpty(ContentOf[j])
    BY <1>12, DeliveryAssumption DEF StampWrite, StampInv, SentIsTrue, TypeOK
  <2>3. SentIsTrue'
    BY <1>0, <1>12, <2>1, <2>2 DEF StampWrite, StampInv, SentIsTrue
  <2>4. \A v \in Workers : v # w => view'[v] = view[v]
    BY <1>12 DEF StampWrite, TypeOK
  <2>5. QED
    BY <1>0, <1>12, <2>1, <2>3, <2>4, StampStep DEF StampWrite, Content, PostedOrEmpty
<1>13. ASSUME NEW w \in Workers, FailRead(w) \/ FailWrite(w) PROVE StampInv'
  <2>1. \A v \in Workers : v # w => view'[v] = view[v]
    BY <1>13 DEF FailRead, FailWrite, TypeOK
  <2>2. QED
    BY <1>0, <1>13, <2>1, UndeliveredStep DEF FailRead, FailWrite, ledgers
<1>14. ASSUME NEW w \in Workers, FailWriteRefused(w) \/ Crash(w) PROVE StampInv'
  <2>1. \A v \in Workers : v # w => job'[v] = job[v] /\ view'[v] = view[v]
    BY <1>14 DEF FailWriteRefused, Crash, TypeOK
  <2>2. sent' \subseteq sent /\ UNCHANGED receipt
    BY <1>14 DEF FailWriteRefused, Crash, ledgers
  <2>3. QED
    BY <1>0, <1>14, <2>1, <2>2, UndeliveredStep DEF FailWriteRefused, Crash
<1>15. ASSUME NEW w \in Workers, MoveJson(w) \/ MoveImages(w) PROVE StampInv'
  BY <1>0, <1>15, UndeliveredStep DEF MoveJson, MoveImages, ledgers
<1>16. CASE UNCHANGED vars
  BY <1>16 DEF vars, StampInv, SentIsTrue, PostedOrEmpty, Content
<1>17. QED
  BY <1>1, <1>2, <1>3, <1>4, <1>5, <1>6, <1>7, <1>8, <1>9, <1>10, <1>11, <1>12, <1>13,
     <1>14, <1>15, <1>16 DEF Next, Drain, Process

(* No ledger and no receipt claims a delivery that did not happen.          *)
THEOREM SentTruthfully == Spec => []SentIsTrue
<1>1. Init => ClaimInv /\ StampInv
  BY DEF Init, ClaimInv, StampInv, SentIsTrue, AtMostOnce, Claiming, Delivered
<1>2. StampInv => SentIsTrue
  BY DEF StampInv
<1>3. QED
  BY <1>1, <1>2, ClaimInductive, StampInductive, TypeCorrect, PTL DEF Spec

-----------------------------------------------------------------------------

(* The two substitutions of Replies.                                        *)
BlankContents == {ContentOf[j] : j \in {i \in Jobs : KindOf[i] = "empty"}}
Outcome == [c \in Contents |-> IF receipt[c] = "blank" THEN "claimed" ELSE receipt[c]]

(* What a worker that owns a claim holds: the claim is open, and its        *)
(* content is blank only if its job is.                                     *)
LEMMA OwnedClaim ==
  ASSUME TypeOK, ClaimInv, NEW w \in Workers, pc[w] \in Claiming
  PROVE  /\ Content(w) \in Contents /\ job[w] \in Jobs
         /\ receipt[Content(w)] \in {"blank", "claimed"}
         /\ Content(w) \in BlankContents <=> KindOf[job[w]] = "empty"
  BY DeliveryAssumption DEF TypeOK, ClaimInv, Claiming, Content, BlankContents

(* Creating the receipt is the claim of the ledger.                         *)
LEMMA CreateClaims ==
  ASSUME TypeOK, NEW w \in Workers, ClaimCreates(w)
  PROVE  Replies!Next
<1> DEFINE c == Content(w)
<1>1. c \in Contents /\ receipt[c] = "none" /\ receipt' = [receipt EXCEPT ![c] = "blank"] /\ posts' = posts
  BY DeliveryAssumption DEF ClaimCreates, TypeOK, Content
<1>2. Outcome[c] = "none" /\ Outcome' = [Outcome EXCEPT ![c] = "claimed"]
  <2> HIDE DEF c
  <2> QED BY <1>1 DEF Outcome, TypeOK
<1>3. Replies!Claim(c)
  BY <1>1, <1>2 DEF Replies!Claim, Outcome
<1>4. c \in Contents
  BY <1>1
<1>5. QED
  BY <1>3, <1>4 DEF Replies!Next, Replies!Claim

(* What Slack accepts is the one post of an open claim.                     *)
LEMMA CallPosts ==
  ASSUME TypeOK, ClaimInv, NEW w \in Workers, Post(w)
  PROVE  Replies!Next \/ UNCHANGED <<receipt, posts>>
<1> DEFINE c == Content(w)
<1>1. pc[w] = "post" /\ pc[w] \in Claiming /\ posts[c] = 0 /\ receipt' = receipt
  BY DEF Post, Claiming, ClaimInv
<1>2. c \in Contents /\ receipt[c] \in {"blank", "claimed"}
  BY <1>1, OwnedClaim
<1>3. CASE SlackAccepts(w)
  <2>1. c \notin BlankContents /\ posts' = [posts EXCEPT ![c] = @ + 1]
    BY <1>1, <1>3, OwnedClaim DEF SlackAccepts
  <2>2. posts' = [posts EXCEPT ![c] = 1] /\ Outcome[c] = "claimed" /\ Outcome' = Outcome
    <3> HIDE DEF c
    <3> QED BY <1>1, <1>2, <2>1 DEF Outcome, TypeOK
  <2>3. Replies!Post(c)
    BY <1>1, <2>1, <2>2 DEF Replies!Post, Outcome, BlankContents
  <2>4. QED
    BY <1>2, <2>3 DEF Replies!Next
<1>4. CASE ~SlackAccepts(w)
  BY <1>1, <1>4 DEF Post
<1>5. QED
  BY <1>3, <1>4

(* The outcome written in a receipt is recorded of an open claim, and       *)
(* "sent" only of what was posted.                                          *)
LEMMA FinishRecords ==
  ASSUME TypeOK, ClaimInv, StampInv, NEW w \in Workers, FinishSent(w) \/ FinishFailed(w)
  PROVE  Replies!Next \/ (Outcome' = Outcome /\ posts' = posts)
<1> DEFINE c == Content(w)
<1>1. pc[w] \in {"finish_sent", "finish_failed"} /\ pc[w] \in Claiming /\ posts' = posts
  BY DEF FinishSent, FinishFailed, FinishReceipt, Claiming
<1>2. c \in Contents /\ receipt[c] \in {"blank", "claimed"}
  BY <1>1, OwnedClaim
<1>3. PICK result \in {"sent", "failed"} :
        /\ result = "sent" => pc[w] = "finish_sent"
        /\ receipt' = [receipt EXCEPT ![c] = IF @ = "blank" THEN @ ELSE result] \/ receipt' = receipt
  BY DEF FinishSent, FinishFailed, FinishReceipt
<1>4. CASE receipt' = receipt
  BY <1>1, <1>4 DEF Outcome
<1>5. CASE receipt[c] = "blank" /\ receipt' = [receipt EXCEPT ![c] = IF @ = "blank" THEN @ ELSE result]
  <2>1. receipt' = receipt
    <3> HIDE DEF c
    <3> QED BY <1>2, <1>5 DEF TypeOK
  <2>2. QED
    BY <1>1, <2>1 DEF Outcome
<1>6. CASE receipt[c] = "claimed" /\ receipt' = [receipt EXCEPT ![c] = IF @ = "blank" THEN @ ELSE result]
  <2>1. Outcome[c] = "claimed" /\ Outcome' = [Outcome EXCEPT ![c] = result]
    <3> HIDE DEF c
    <3> QED BY <1>2, <1>6 DEF Outcome, TypeOK
  <2>2. result = "sent" => PostedOrEmpty(c)
    BY <1>3 DEF StampInv, Delivered
  <2>3. result = "sent" => posts[c] = 1 \/ c \in BlankContents
    BY <2>2 DEF PostedOrEmpty, BlankContents
  <2>4. Replies!Record(c, result)
    BY <1>1, <2>1, <2>3 DEF Replies!Record, Outcome, BlankContents
  <2>5. QED
    BY <1>2, <2>4 DEF Replies!Next
<1>7. QED
  BY <1>2, <1>3, <1>4, <1>5, <1>6

(* The drain implements ReplyLedger: every access claims, posts or records  *)
(* one content as the ledger allows, or changes nothing of it.              *)
THEOREM RepliesImplemented == Spec => ImplementsReplies
<1>1. Init => Replies!Init
  BY DEF Init, Replies!Init
<1>2. TypeOK /\ ClaimInv /\ StampInv /\ [Next]_vars => [Replies!Next]_<<Outcome, posts>>
  <2> SUFFICES ASSUME TypeOK, ClaimInv, StampInv, [Next]_vars
      PROVE  [Replies!Next]_<<Outcome, posts>>
    OBVIOUS
  <2>1. CASE UNCHANGED <<receipt, posts>>
    BY <2>1 DEF Outcome
  <2>2. ASSUME NEW w \in Workers, ClaimCreates(w) PROVE Replies!Next
    BY <2>2, CreateClaims
  <2>3. ASSUME NEW w \in Workers, RecordClaim(w) PROVE UNCHANGED <<Outcome, posts>>
    <3>1. pc[w] \in Claiming /\ posts' = posts
      BY <2>3 DEF RecordClaim, Claiming
    <3>2. Content(w) \in Contents /\ receipt[Content(w)] \in {"blank", "claimed"}
      BY <3>1, OwnedClaim
    <3>3. receipt' = [receipt EXCEPT ![Content(w)] = "claimed"] \/ receipt' = receipt
      BY <2>3 DEF RecordClaim
    <3>4. QED
      BY <3>1, <3>2, <3>3 DEF Outcome, TypeOK
  <2>4. ASSUME NEW w \in Workers, Post(w) PROVE [Replies!Next]_<<Outcome, posts>>
    BY <2>1, <2>4, CallPosts
  <2>5. ASSUME NEW w \in Workers, FinishSent(w) \/ FinishFailed(w)
        PROVE  [Replies!Next]_<<Outcome, posts>>
    BY <2>5, FinishRecords
  <2>6. QED
    BY <2>1, <2>2, <2>3, <2>4, <2>5
       DEF Next, Drain, Process, Claim, vars, files, ledgers, bounds, Drop, ListInbox, EndOfList,
           TakeJob, CheckJob, CheckSent, ClaimFails, ClaimRefused, SuppressDuplicate,
           StampRead, StampWrite, FailRead, FailWrite, FailWriteRefused, MoveJson, MoveImages, Crash
<1>3. Init => ClaimInv /\ StampInv
  BY DEF Init, ClaimInv, StampInv, SentIsTrue, AtMostOnce, Claiming, Delivered
<1>4. TypeOK /\ ClaimInv /\ StampInv /\ [Next]_vars =>
        [Replies!Next]_<<[c \in Contents |-> IF receipt[c] = "blank" THEN "claimed" ELSE receipt[c]], posts>>
  BY <1>2 DEF Outcome
<1>5. QED
  BY <1>1, <1>3, <1>4, ClaimInductive, StampInductive, TypeCorrect, PTL
     DEF Spec, ImplementsReplies, Replies!Spec

-----------------------------------------------------------------------------

(* One worker, on a share that keeps what is written: no job is lost.       *)
Lone == (\A v, w \in Workers : v = w) /\ ~ShareDenies

(* A job in done/ has been posted or listed: the worker only moves a job of *)
(* which this is known, and it writes back the ledgers as it read them.     *)
LossInv ==
  /\ \A j \in done : Accounted(j)
  /\ \A j \in sent : receipt[ContentOf[j]] = "sent"
  /\ \A w \in Workers : pc[w] \in {"stamp", "stamp_write"} => receipt[Content(w)] = "sent"
  /\ \A w \in Workers : pc[w] = "stamp_write" => view[w] = sent
  /\ \A w \in Workers : pc[w] = "fail_write" => view[w] = failed
  /\ \A w \in Workers :
       pc[w] \in {"post", "finish_sent", "finish_failed"} => receipt[Content(w)] = "claimed"
  /\ \A w \in Workers : pc[w] = "move" => Accounted(job[w])

(* What is accounted for stays so.                                          *)
LEMMA AccountStands ==
  ASSUME TypeOK, ClaimInv, [Next]_vars, failed \subseteq failed', NEW j \in Jobs, Accounted(j)
  PROVE  Accounted(j)'
<1>1. ContentOf[j] \in Contents
  BY DeliveryAssumption
<1>2. receipt[ContentOf[j]] = "sent" => receipt'[ContentOf[j]] = "sent"
  BY <1>1, ReceiptStands
<1>3. posts[ContentOf[j]] = 1 => posts'[ContentOf[j]] = 1
  <2>1. CASE UNCHANGED posts
    BY <2>1
  <2>2. ASSUME NEW w \in Workers, Post(w), posts[ContentOf[j]] = 1
        PROVE  posts'[ContentOf[j]] = 1
    <3>1. Content(w) # ContentOf[j]
      BY <2>2 DEF Post, ClaimInv
    <3>2. QED
      BY <1>1, <2>2, <3>1 DEF Post, SlackAccepts, TypeOK
  <2>3. QED
    BY <2>1, <2>2
       DEF Next, Drain, Process, Claim, vars, files, ledgers, bounds, Drop, ListInbox, EndOfList,
           TakeJob, CheckJob, CheckSent, ClaimFails, ClaimRefused, ClaimCreates, RecordClaim,
           SuppressDuplicate, FinishSent, FinishFailed, FinishReceipt,
           StampRead, StampWrite, FailRead, FailWrite, FailWriteRefused, MoveJson, MoveImages, Crash
<1>4. QED
  BY <1>2, <1>3 DEF Accounted

(* A step of the worker keeps LossInv if what it goes on with is true.      *)
LEMMA LoneStep ==
  ASSUME Lone, TypeOK, LossInv, NEW w \in Workers, NEW step \in Steps, Goto(w, step),
         \A j \in Jobs : Accounted(j) => Accounted(j)',
         \A j \in done' : j \in done \/ Accounted(j)',
         \A j \in sent' : receipt'[ContentOf[j]] = "sent",
         step \in {"stamp", "stamp_write"} => receipt'[Content(w)'] = "sent",
         step = "stamp_write" => view'[w] = sent',
         step = "fail_write" => view'[w] = failed',
         step \in {"post", "finish_sent", "finish_failed"} => receipt'[Content(w)'] = "claimed",
         step = "move" => Accounted(job[w])'
  PROVE  LossInv'
<1>1. \A v \in Workers : v = w /\ pc'[v] = step
  BY DEF Lone, TypeOK, Goto
<1>2. \A j \in done' : Accounted(j)'
  BY DEF LossInv, TypeOK
<1>3. QED
  BY <1>1, <1>2 DEF LossInv

(* LossInv is inductive.                                                    *)
LEMMA LossInductive ==
  ASSUME Lone, TypeOK, ClaimInv, LossInv, [Next]_vars
  PROVE  LossInv'
<1> USE DEF Steps
<1>1. failed \subseteq failed'
  BY DEF Lone, LossInv, Next, Drain, Process, Claim, vars, files, ledgers, bounds, Drop, ListInbox,
         EndOfList, TakeJob, CheckJob, CheckSent, ClaimFails, ClaimRefused, ClaimCreates, RecordClaim,
         SuppressDuplicate, Post, FinishSent, FinishFailed, FinishReceipt,
         StampRead, StampWrite, FailRead, FailWrite, FailWriteRefused, MoveJson, MoveImages, Crash
<1>2. \A j \in Jobs : Accounted(j) => Accounted(j)'
  BY <1>1, AccountStands
<1>3. \A c \in Contents : receipt[c] = "sent" => receipt'[c] = "sent"
  BY ReceiptStands
<1>4. \A j \in sent : receipt'[ContentOf[j]] = "sent"
  BY <1>3, DeliveryAssumption DEF LossInv, TypeOK
<1>5. ASSUME NEW j \in Jobs, NEW withImages \in BOOLEAN, Drop(j, withImages) PROVE LossInv'
  <2>1. \A w \in Workers : Content(w)' = Content(w) /\ (pc[w] = "move" => job[w] \in Jobs)
    BY <1>5 DEF Drop, Content, TypeOK
  <2>2. \A i \in done' : Accounted(i)'
    BY <1>2, <1>5 DEF Drop, LossInv, TypeOK
  <2>3. QED
    BY <1>2, <1>4, <1>5, <2>1, <2>2 DEF Drop, LossInv, ledgers
<1>6. ASSUME NEW w \in Workers, ListInbox(w) \/ EndOfList(w) \/ \E j \in Jobs : TakeJob(w, j)
      PROVE  LossInv'
  <2>1. PICK step \in {"next", "idle", "check", "fail"} : Goto(w, step)
    BY <1>6 DEF ListInbox, EndOfList, TakeJob
  <2>2. UNCHANGED <<done, sent>>
    BY <1>6 DEF ListInbox, EndOfList, TakeJob, files, ledgers
  <2>3. QED
    BY <1>2, <1>4, <2>1, <2>2, LoneStep
<1>7. ASSUME NEW w \in Workers, CheckJob(w) PROVE LossInv'
  <2>1. PICK step \in {"fail", "sent_has"} : Goto(w, step)
    BY <1>7 DEF CheckJob
  <2>2. QED
    BY <1>2, <1>4, <1>7, <2>1, LoneStep DEF CheckJob, files, ledgers
<1>8. ASSUME NEW w \in Workers, CheckSent(w) PROVE LossInv'
  <2>1. job[w] \in Jobs /\ UNCHANGED <<job, done, sent>>
    BY <1>8 DEF CheckSent, TypeOK, files, ledgers
  <2>2. PICK step \in {"move", "claim"} : Goto(w, step) /\ (step = "move" => job[w] \in sent)
    BY <1>8 DEF CheckSent, SentAsRead, Torn, Lone
  <2>3. step = "move" => Accounted(job[w])'
    BY <1>4, <2>1, <2>2 DEF Accounted
  <2>4. QED
    BY <1>2, <1>4, <2>1, <2>2, <2>3, LoneStep
<1>9. ASSUME NEW w \in Workers, Claim(w) PROVE LossInv'
  <2>1. PICK step \in {"fail", "dup", "record"} : Goto(w, step)
    BY <1>9 DEF Claim, ClaimFails, ClaimRefused, ClaimCreates
  <2>2. UNCHANGED <<done, sent>>
    BY <1>9 DEF Claim, ClaimFails, ClaimRefused, ClaimCreates, files, ledgers
  <2>3. QED
    BY <1>2, <1>4, <2>1, <2>2, LoneStep
<1>10. ASSUME NEW w \in Workers, RecordClaim(w) PROVE LossInv'
  <2>1. Goto(w, "post") /\ receipt'[Content(w)'] = "claimed" /\ UNCHANGED <<done, sent>>
    <3>1. Content(w) \in Contents
      BY <1>10, DeliveryAssumption DEF RecordClaim, TypeOK, Content
    <3>2. QED
      BY <1>10, <3>1 DEF RecordClaim, Lone, TypeOK, Content, files, ledgers
  <2>2. QED
    BY <1>2, <1>4, <2>1, LoneStep
<1>11. ASSUME NEW w \in Workers, SuppressDuplicate(w) PROVE LossInv'
  <2>1. job[w] \in Jobs /\ UNCHANGED <<job, done, sent, receipt>>
    BY <1>11 DEF SuppressDuplicate, TypeOK, files, ledgers
  <2>2. PICK step \in {"move", "fail"} : Goto(w, step) /\ (step = "move" => receipt[Content(w)] = "sent")
    BY <1>11 DEF SuppressDuplicate, Lone
  <2>3. step = "move" => Accounted(job[w])'
    BY <2>1, <2>2 DEF Accounted, Content
  <2>4. QED
    BY <1>2, <1>4, <2>1, <2>2, <2>3, LoneStep
<1>12. ASSUME NEW w \in Workers, Post(w) PROVE LossInv'
  <2>1. PICK step \in {"finish_sent", "finish_failed"} : Goto(w, step)
    BY <1>12 DEF Post
  <2>2. receipt'[Content(w)'] = "claimed" /\ UNCHANGED <<done, sent>>
    BY <1>12 DEF Post, LossInv, Content, files, ledgers
  <2>3. QED
    BY <1>2, <1>4, <2>1, <2>2, LoneStep
<1>13. ASSUME NEW w \in Workers, FinishSent(w) PROVE LossInv'
  <2>1. Content(w) \in Contents /\ receipt[Content(w)] = "claimed"
    BY <1>13, DeliveryAssumption DEF FinishSent, FinishReceipt, TypeOK, Content, LossInv
  <2>2. receipt'[Content(w)'] = "sent"
    BY <1>13, <2>1 DEF FinishSent, FinishReceipt, Lone, TypeOK, Content
  <2>3. QED
    BY <1>2, <1>4, <1>13, <2>2, LoneStep DEF FinishSent, FinishReceipt, files, ledgers
<1>14. ASSUME NEW w \in Workers, FinishFailed(w) PROVE LossInv'
  BY <1>2, <1>4, <1>14, LoneStep DEF FinishFailed, FinishReceipt, files, ledgers
<1>15. ASSUME NEW w \in Workers, StampRead(w) PROVE LossInv'
  <2>1. Goto(w, "stamp_write") /\ view'[w] = sent' /\ UNCHANGED <<done, sent>>
    BY <1>15 DEF StampRead, SentAsRead, Torn, Lone, TypeOK, files, ledgers
  <2>2. receipt'[Content(w)'] = "sent"
    BY <1>15 DEF StampRead, LossInv, Content
  <2>3. QED
    BY <1>2, <1>4, <2>1, <2>2, LoneStep
<1>16. ASSUME NEW w \in Workers, StampWrite(w) PROVE LossInv'
  <2>1. /\ Goto(w, "move") /\ sent' = sent \cup {job[w]} /\ job' = job /\ done' = done
        /\ receipt' = receipt /\ job[w] \in Jobs
    BY <1>16 DEF StampWrite, Lone, LossInv, TypeOK, files
  <2>2. receipt[ContentOf[job[w]]] = "sent"
    BY <1>16 DEF StampWrite, LossInv, Content
  <2>3. Accounted(job[w])'
    BY <2>1, <2>2 DEF Accounted
  <2>4. \A j \in sent' : receipt'[ContentOf[j]] = "sent"
    BY <1>4, <2>1, <2>2
  <2>5. QED
    BY <1>2, <2>1, <2>3, <2>4, LoneStep
<1>17. ASSUME NEW w \in Workers, FailRead(w) PROVE LossInv'
  <2>1. Goto(w, "fail_write") /\ view'[w] = failed' /\ UNCHANGED <<done, sent>>
    BY <1>17 DEF FailRead, FailedAsRead, Lone, TypeOK, files, ledgers
  <2>2. QED
    BY <1>2, <1>4, <2>1, LoneStep
<1>18. ASSUME NEW w \in Workers, FailWrite(w) PROVE LossInv'
  <2>1. Accounted(job[w])'
    BY <1>18 DEF FailWrite, Accounted
  <2>2. QED
    BY <1>2, <1>4, <1>18, <2>1, LoneStep DEF FailWrite, files
<1>19. ASSUME NEW w \in Workers, FailWriteRefused(w) PROVE FALSE
  BY <1>19 DEF FailWriteRefused, Lone
<1>20. ASSUME NEW w \in Workers, MoveJson(w) \/ MoveImages(w) PROVE LossInv'
  <2>1. PICK step \in {"move_images", "next"} : Goto(w, step)
    BY <1>20 DEF MoveJson, MoveImages
  <2>2. \A j \in done' : j \in done \/ Accounted(j)'
    BY <1>2, <1>20 DEF MoveJson, MoveImages, LossInv, TypeOK
  <2>3. UNCHANGED sent
    BY <1>20 DEF MoveJson, MoveImages, ledgers
  <2>4. QED
    BY <1>2, <1>4, <2>1, <2>2, <2>3, LoneStep
<1>21. ASSUME NEW w \in Workers, Crash(w) PROVE LossInv'
  BY <1>2, <1>4, <1>21, LoneStep DEF Crash, Lone, files, ledgers
<1>22. CASE UNCHANGED vars
  BY <1>22 DEF vars, LossInv, Accounted, Content
<1>23. QED
  BY <1>5, <1>6, <1>7, <1>8, <1>9, <1>10, <1>11, <1>12, <1>13, <1>14, <1>15, <1>16, <1>17, <1>18,
     <1>19, <1>20, <1>21, <1>22 DEF Next, Drain, Process

(* One worker loses no job, wherever it dies and however often a job is     *)
(* dropped again: what has left the inbox was posted or is listed in        *)
(* failed.json. With a second worker the ledgers, which both rewrite, may.  *)
THEOREM NothingLost ==
  ASSUME Lone
  PROVE  Spec => []NoSilentLoss
<1>1. Init => ClaimInv /\ LossInv
  BY DEF Init, ClaimInv, AtMostOnce, Claiming, LossInv
<1>2. TypeOK /\ ClaimInv /\ LossInv /\ [Next]_vars => LossInv'
  BY LossInductive
<1>3. LossInv => NoSilentLoss
  BY DEF LossInv, NoSilentLoss
<1>4. QED
  BY <1>1, <1>2, <1>3, ClaimInductive, TypeCorrect, PTL DEF Spec
=============================================================================
