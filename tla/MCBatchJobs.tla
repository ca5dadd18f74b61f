----------------------------- MODULE MCBatchJobs -----------------------------
(* Instances of BatchJobs for TLC. *)
EXTENDS BatchJobs, TLC

CONSTANTS w1, w2, b1, b2, alice, bob

SameOwner == b1 :> alice @@ b2 :> alice
TwoOwners == b1 :> alice @@ b2 :> bob
OneOwner == b1 :> alice

(* The title of b1 is part of the title of b2; or no title is of another.   *)
Nested == b1 :> {b1, b2} @@ b2 :> {b2}
Distinct == b1 :> {b1} @@ b2 :> {b2}
OnlyOne == b1 :> {b1}
=============================================================================
