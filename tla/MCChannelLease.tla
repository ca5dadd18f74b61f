---------------------------- MODULE MCChannelLease ----------------------------
(* Instances of ChannelLease for TLC. *)
EXTENDS ChannelLease, TLC

CONSTANTS c1, c2, c3, alice, bob, carol

EachTheirOwn == c1 :> alice @@ c2 :> bob @@ c3 :> carol
=============================================================================
