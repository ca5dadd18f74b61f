----------------------------- MODULE MCMintGroup -----------------------------
(* Instances of MintGroup for TLC. *)
EXTENDS MintGroup, TLC

CONSTANTS worker, web, j1, j2, a1, a2

(* A tab of one asset, sent again with another that shares its thread.      *)
Tabs == j1 :> {a1} @@ j2 :> {a1, a2}
Alone == [a \in Assets |-> NoAsset]
Sharing == j1 :> Alone @@ j2 :> [Alone EXCEPT ![a2] = a1]

(* The same tab of two assets, sent twice.                                  *)
TabTwice == [j \in Jobs |-> {a1, a2}]
NoSharing == [j \in Jobs |-> Alone]
=============================================================================
