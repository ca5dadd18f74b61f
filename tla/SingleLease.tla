------------------------------ MODULE SingleLease ------------------------------
(***************************************************************************)
(* What the channel lease promises to the rest of the system: one lease    *)
(* that changes hands in single steps, judged by the clock of the moment   *)
(* it is granted, though the calls read the clock before they wait for the *)
(* row and commit later still.                                             *)
(***************************************************************************)
EXTENDS Naturals

CONSTANTS
  TTL,      \* how long a lease is granted for
  NoLease   \* nobody has the channel

VARIABLES
  now,      \* the clock
  lease     \* the lease in force or past: owner, token, expires

Init == now = 0 /\ lease = NoLease

Tick ==
  /\ now' = now + 1
  /\ UNCHANGED lease

(* A free or past lease is anybody's.  It is never granted for longer than  *)
(* TTL from now; its owner may extend it, never shorten it; and the token   *)
(* of the earlier lease is good no more.                                    *)
Take ==
  /\ lease' # NoLease
  /\ lease'.expires <= now + TTL
  /\ lease # NoLease =>
       /\ lease'.owner = lease.owner => lease'.expires >= lease.expires
       /\ lease'.owner # lease.owner => lease.expires < now
       /\ lease'.token # lease.token
  /\ UNCHANGED now

Drop ==
  /\ lease # NoLease
  /\ lease' = NoLease
  /\ UNCHANGED now

Next == Tick \/ Take \/ Drop

Spec == Init /\ [][Next]_<<now, lease>>
=============================================================================
