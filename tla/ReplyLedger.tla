------------------------------ MODULE ReplyLedger ------------------------------
(***************************************************************************)
(* What the delivery receipts promise to whoever confirms a reply: its     *)
(* content is claimed once and for all, it is posted at most once and only *)
(* between the claim and the recorded outcome, and the outcome says "sent" *)
(* only of what was posted.  A claim whose owner died, or was refused the  *)
(* share, stays open for ever.                                             *)
(***************************************************************************)
EXTENDS Naturals

CONSTANTS
  Contents,
  Blank      \* the contents with neither body nor images: nothing to post

VARIABLES
  outcome,   \* what is known of the delivery of each content
  posts      \* how often Slack shows it

Init ==
  /\ outcome = [c \in Contents |-> "none"]
  /\ posts = [c \in Contents |-> 0]

Claim(c) ==
  /\ outcome[c] = "none"
  /\ outcome' = [outcome EXCEPT ![c] = "claimed"]
  /\ UNCHANGED posts

Post(c) ==
  /\ outcome[c] = "claimed"
  /\ c \notin Blank
  /\ posts[c] = 0
  /\ posts' = [posts EXCEPT ![c] = 1]
  /\ UNCHANGED outcome

Record(c, result) ==
  /\ outcome[c] = "claimed"
  /\ result = "sent" => posts[c] = 1 \/ c \in Blank
  /\ outcome' = [outcome EXCEPT ![c] = result]
  /\ UNCHANGED posts

Next ==
  \E c \in Contents :
    Claim(c) \/ Post(c) \/ \E result \in {"sent", "failed"} : Record(c, result)

Spec == Init /\ [][Next]_<<outcome, posts>>
=============================================================================
