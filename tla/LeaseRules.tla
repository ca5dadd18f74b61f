------------------------------ MODULE LeaseRules ------------------------------
(***************************************************************************)
(* When the row of channel_leases may be taken, renewed and released       *)
(* (leases.py).  The same conditions guard the PostgreSQL and the SQLite   *)
(* statements.  A lease is good until `expires`, that instant included.    *)
(***************************************************************************)
EXTENDS Naturals

CONSTANTS
  TTL,      \* the ten minutes a lease is granted for
  NoLease   \* the channel has no row

ASSUME LeaseAssumption == TTL \in Nat \ {0}

Granted(owner, token, now) == [owner |-> owner, token |-> token, expires |-> now + TTL]

(* A free or expired lease is anybody's; the owner may always take it again. *)
MayAcquire(lease, owner, now) ==
  lease # NoLease => lease.expires < now \/ lease.owner = owner

MayRenew(lease, owner, token, now) ==
  lease # NoLease /\ lease.owner = owner /\ lease.token = token /\ lease.expires >= now

(* Releasing does not ask whether the lease has expired.                    *)
MayRelease(lease, owner, token) ==
  lease # NoLease /\ lease.owner = owner /\ lease.token = token
=============================================================================
