-------------------------- MODULE ChannelLeaseProofs --------------------------
(***************************************************************************)
(* Proofs about ChannelLease.  Everything rests on one fact: a transaction *)
(* that has written the row was allowed to, that is, the committed lease   *)
(* is absent, its user's own, or past (WriterMay).  NoTheft follows at     *)
(* once.  Exclusive needs every user to have one client: then the lease in *)
(* force is the one its client was last granted (HeldIsSaved), and the     *)
(* table implements SingleLease (TermInv).                                 *)
(***************************************************************************)
EXTENDS ChannelLease, TLAPS

(* Each user has one submission for the channel at a time.                  *)
OneEach == \A c, d \in Clients : UserOf[c] = UserOf[d] => c = d

ClocksRead == \A c \in Clients : at[c] <= now

WriterMay ==
  \A c \in Clients : writer = c =>
    /\ row # NoLease => row.owner = UserOf[c]
    /\ saved # NoLease => saved.owner = UserOf[c] \/ saved.expires < now

LeaseInv == TypeOK /\ ClocksRead /\ WriterMay

HeldIsSaved ==
  \A c \in Clients :
    /\ saved # NoLease /\ saved.owner = UserOf[c] => held[c] = saved
    /\ held[c] # NoLease /\ held[c].expires >= now => held[c] = saved
    /\ held[c] # NoLease => held[c].owner = UserOf[c]

(* The calls that take no part in writing the row leave it as it was.       *)
LEMMA CallKeeps ==
  ASSUME LeaseInv, NEW c \in Clients, NEW call \in {"acquire", "renew", "release"}, Call(c, call)
  PROVE  LeaseInv'
<1>1. TypeOK'
  BY DEF LeaseInv, TypeOK, Call, Goto, Calls
<1>2. ClocksRead' /\ WriterMay'
  BY DEF LeaseInv, TypeOK, ClocksRead, WriterMay, Call
<1> QED
  BY <1>1, <1>2 DEF LeaseInv

(* A statement that is refused, or that goes on to the next one.            *)
LEMMA ContinueKeeps ==
  ASSUME LeaseInv, NEW c \in Clients, pc[c] # "open",
         NEW call \in {"idle", "insert", "again"}, Continue(c, call)
  PROVE  LeaseInv'
<1>1. TypeOK'
  BY DEF LeaseInv, TypeOK, Continue, Goto, Calls
<1>2. ClocksRead' /\ WriterMay'
  BY DEF LeaseInv, TypeOK, ClocksRead, WriterMay, Continue
<1> QED
  BY <1>1, <1>2 DEF LeaseInv

(* A statement that writes the row does so only where the committed lease   *)
(* lets its user.                                                           *)
LEMMA WriteKeeps ==
  ASSUME LeaseInv, NEW c \in Clients, pc[c] # "open", writer = Nobody,
         NEW lease \in Leases, Write(c, lease), tokens' \in Nat,
         lease # NoLease => lease.owner = UserOf[c],
         row # NoLease => row.owner = UserOf[c] \/ row.expires < now
  PROVE  LeaseInv'
<1>1. TypeOK'
  BY ClientAssumption DEF LeaseInv, TypeOK, Write, Goto, Calls
<1>2. ClocksRead' /\ WriterMay'
  BY ClientAssumption DEF LeaseInv, TypeOK, ClocksRead, WriterMay, Write
<1> QED
  BY <1>1, <1>2 DEF LeaseInv

(* A lease is granted to the client's user.                                 *)
LEMMA GrantKeeps ==
  ASSUME LeaseInv, NEW c \in Clients, pc[c] # "open", writer = Nobody, Grant(c),
         row # NoLease => row.owner = UserOf[c] \/ row.expires < now
  PROVE  LeaseInv'
<1> DEFINE lease == Granted(UserOf[c], tokens + 1, at[c])
<1>1. lease \in Granting /\ lease.owner = UserOf[c]
  BY LeaseAssumption DEF LeaseInv, TypeOK, Granting, Users, Granted
<1>2. lease \in Leases /\ Write(c, lease) /\ tokens' \in Nat
  BY <1>1 DEF Leases, Grant, LeaseInv, TypeOK
<1> HIDE DEF lease
<1> QED
  BY <1>1, <1>2, WriteKeeps

(* The statements that acquire grant the lease only where MayAcquire holds  *)
(* of the row and the clock as it was read, which is not in the future.     *)
LEMMA AcquireKeeps ==
  ASSUME LeaseInv, NEW c \in Clients, pc[c] # "open", writer = Nobody,
         IF MayAcquire(row, UserOf[c], at[c]) THEN Grant(c) ELSE Refused(c)
  PROVE  LeaseInv'
<1>1. CASE MayAcquire(row, UserOf[c], at[c])
  <2>1. row # NoLease => row.owner = UserOf[c] \/ row.expires < now
    <3>1. ASSUME row # NoLease PROVE row.expires \in Nat /\ at[c] \in Nat /\ now \in Nat /\ at[c] <= now
      BY <3>1, ClientAssumption DEF LeaseInv, TypeOK, ClocksRead, Leases, Granting
    <3> QED
      BY <1>1, <3>1 DEF MayAcquire
  <2> QED
    BY <1>1, <2>1, GrantKeeps
<1>2. CASE ~MayAcquire(row, UserOf[c], at[c])
  BY <1>2, ContinueKeeps DEF Refused, Continue
<1> QED
  BY <1>1, <1>2

(* The end of a transaction.                                                *)
LEMMA EndKeeps ==
  ASSUME LeaseInv, NEW c \in Clients, Commit(c) \/ Rollback(c)
  PROVE  LeaseInv'
<1>1. writer = c
  BY DEF LeaseInv, TypeOK, Commit, Rollback
<1>2. TypeOK'
  BY <1>1, ClientAssumption DEF LeaseInv, TypeOK, Commit, Rollback, Goto, Calls
<1>3. ClocksRead' /\ WriterMay'
  BY <1>1, ClientAssumption DEF LeaseInv, ClocksRead, WriterMay, Commit, Rollback
<1> QED
  BY <1>2, <1>3 DEF LeaseInv

(* LeaseInv is inductive.                                                   *)
LEMMA LeaseInductive ==
  ASSUME LeaseInv, [Next]_vars
  PROVE  LeaseInv'
<1>1. ASSUME UNCHANGED vars PROVE LeaseInv'
  BY <1>1 DEF vars, LeaseInv, TypeOK, ClocksRead, WriterMay
<1>2. ASSUME Tick PROVE LeaseInv'
  <2>1. TypeOK'
    BY <1>2, ClientAssumption DEF LeaseInv, TypeOK, Tick
  <2>2. ClocksRead'
    BY <1>2 DEF LeaseInv, TypeOK, ClocksRead, Tick
  <2>3. WriterMay'
    <3>1. saved # NoLease => saved.expires \in Nat
      BY DEF LeaseInv, TypeOK, Leases, Granting
    <3> QED
      BY <1>2, <3>1, ClientAssumption DEF LeaseInv, TypeOK, WriterMay, Tick
  <2> QED
    BY <2>1, <2>2, <2>3 DEF LeaseInv
<1>3. ASSUME NEW c \in Clients, NEW call \in {"acquire", "renew", "release"}, Call(c, call)
      PROVE  LeaseInv'
  BY <1>3, CallKeeps
<1>4. ASSUME NEW c \in Clients, Statement(c) PROVE LeaseInv'
  <2>1. CASE AcquireSqlite(c)
    BY <2>1, AcquireKeeps DEF AcquireSqlite
  <2>2. CASE AcquirePg(c)
    BY <2>2, AcquireKeeps, ContinueKeeps DEF AcquirePg, ClaimLocked
  <2>3. CASE InsertPg(c)
    BY <2>3, GrantKeeps, ContinueKeeps DEF InsertPg
  <2>4. CASE AgainPg(c)
    BY <2>4, AcquireKeeps, ContinueKeeps DEF AgainPg, ClaimLocked, Refused, Continue
  <2>5. CASE Renew(c)
    BY <2>5, GrantKeeps, ContinueKeeps DEF Renew, MayRenew, Refused, Continue
  <2>6. CASE Release(c)
    <3>1. CASE MayRelease(row, UserOf[c], held[c].token)
      <4>1. tokens' \in Nat /\ NoLease \in Leases
        BY <2>6, <3>1 DEF Release, LeaseInv, TypeOK, Leases
      <4> QED
        BY <2>6, <3>1, <4>1, WriteKeeps DEF Release, MayRelease
    <3>2. CASE ~MayRelease(row, UserOf[c], held[c].token)
      BY <2>6, <3>2, ContinueKeeps DEF Release, Refused, Continue
    <3> QED
      BY <3>1, <3>2
  <2>7. CASE Busy(c)
    BY <2>7, ContinueKeeps DEF Busy, Refused, Continue
  <2>8. CASE Commit(c) \/ Rollback(c)
    BY <2>8, EndKeeps
  <2> QED
    BY <1>4, <2>1, <2>2, <2>3, <2>4, <2>5, <2>6, <2>7, <2>8 DEF Statement
<1> QED
  BY <1>1, <1>2, <1>3, <1>4 DEF Next

(* LeaseInv holds initially.                                                *)
LEMMA LeaseStarts == Init => LeaseInv
BY ClientAssumption DEF Init, LeaseInv, TypeOK, ClocksRead, WriterMay, Leases, Calls

(* The variables keep their types; a client has an open transaction exactly *)
(* when it has written the row, and without one the row is the saved one.   *)
THEOREM LeaseTyped == Spec => []TypeOK
<1>1. LeaseInv => TypeOK
  BY DEF LeaseInv
<1> QED
  BY <1>1, LeaseStarts, LeaseInductive, PTL DEF Spec

(* A lease passes to another user only after it was released or ran out:    *)
(* acquire never takes an unexpired lease, though the clock was read before *)
(* the wait for the row.                                                    *)
THEOREM LeaseNotStolen == Spec => NoTheft
<1>1. ASSUME LeaseInv, [Next]_vars,
             saved # NoLease, saved' # NoLease, saved'.owner # saved.owner
      PROVE  saved.expires < now
  <2>1. PICK c \in Clients : Commit(c)
    <3>1. saved' # saved
      BY <1>1
    <3> QED
      BY <1>1, <3>1 DEF vars, Next, Tick, Call, Statement, AcquireSqlite, AcquirePg, InsertPg, AgainPg,
         ClaimLocked, Renew, Release, Busy, Refused, Continue, Grant, Write, Rollback
  <2>2. writer = c /\ saved' = row
    BY <1>1, <2>1 DEF LeaseInv, TypeOK, Commit
  <2> QED
    BY <1>1, <2>2 DEF LeaseInv, WriterMay
<1> QED
  BY <1>1, LeaseStarts, LeaseInductive, PTL DEF Spec, NoTheft

(* With one client to a user, the committed lease is the one its client was *)
(* last granted, and a lease still in force is the committed one.           *)
LEMMA HeldInductive ==
  ASSUME OneEach, LeaseInv, HeldIsSaved, [Next]_vars
  PROVE  HeldIsSaved'
<1>1. CASE \E c \in Clients : Commit(c)
  <2>1. PICK c \in Clients : Commit(c)
    BY <1>1
  <2>2. /\ writer = c /\ saved' = row /\ now' = now
        /\ held' = [held EXCEPT ![c] = row] /\ held \in [Clients -> Leases]
    BY <2>1 DEF LeaseInv, TypeOK, Commit
  <2>3. /\ row # NoLease => row.owner = UserOf[c]
        /\ saved # NoLease => saved.owner = UserOf[c] \/ saved.expires < now
    BY <2>2 DEF LeaseInv, WriterMay
  <2>4. saved # NoLease => saved.expires \in Nat /\ now \in Nat
    BY ClientAssumption DEF LeaseInv, TypeOK, Leases, Granting
  <2> SUFFICES ASSUME NEW d \in Clients
               PROVE  /\ saved' # NoLease /\ saved'.owner = UserOf[d] => held'[d] = saved'
                      /\ held'[d] # NoLease /\ held'[d].expires >= now' => held'[d] = saved'
                      /\ held'[d] # NoLease => held'[d].owner = UserOf[d]
    BY DEF HeldIsSaved
  <2>5. CASE d = c
    BY <2>2, <2>3, <2>5
  <2>6. CASE d # c
    <3>1. UserOf[d] # UserOf[c] /\ held'[d] = held[d]
      BY <2>2, <2>6 DEF OneEach
    <3>2. saved' # NoLease => saved'.owner # UserOf[d]
      BY <2>2, <2>3, <3>1
    <3>3. held[d] # NoLease => held[d].owner = UserOf[d]
      BY DEF HeldIsSaved
    <3>4. ~(held[d] # NoLease /\ held[d].expires >= now)
      <4> SUFFICES ASSUME held[d] # NoLease, held[d].expires >= now
                   PROVE  FALSE
        OBVIOUS
      <4>1. saved = held[d]
        BY DEF HeldIsSaved
      <4> QED
        BY <2>3, <2>4, <3>1, <3>3, <4>1
    <3> QED
      BY <2>2, <3>1, <3>2, <3>3, <3>4
  <2> QED
    BY <2>5, <2>6
<1>2. CASE ~\E c \in Clients : Commit(c)
  <2>1. saved' = saved /\ held' = held
    BY <1>2 DEF vars, Next, Tick, Call, Statement, AcquireSqlite, AcquirePg, InsertPg, AgainPg,
       ClaimLocked, Renew, Release, Busy, Refused, Continue, Grant, Write, Rollback
  <2>2. now \in Nat /\ now' \in Nat /\ now <= now'
    <3>1. now' = now \/ now' = now + 1
      BY <1>2 DEF vars, Next, Tick, Call, Statement, AcquireSqlite, AcquirePg, InsertPg, AgainPg,
         ClaimLocked, Renew, Release, Busy, Refused, Continue, Grant, Write, Rollback
    <3> QED
      BY <3>1, ClientAssumption DEF LeaseInv, TypeOK
  <2>3. \A c \in Clients : held[c] # NoLease => held[c].expires \in Nat
    BY DEF LeaseInv, TypeOK, Leases, Granting
  <2> QED
    BY <2>1, <2>2, <2>3 DEF HeldIsSaved
<1> QED
  BY <1>1, <1>2

(* The lease is exclusive: when each user has one submission for the        *)
(* channel, clients of two users are never entitled to work on it at once,  *)
(* however late their statements run after they read the clock.             *)
THEOREM LeaseExclusive ==
  ASSUME OneEach
  PROVE  Spec => []Exclusive
<1>1. Init => HeldIsSaved
  BY DEF Init, HeldIsSaved
<1>2. ASSUME LeaseInv, HeldIsSaved PROVE Exclusive
  <2> SUFFICES ASSUME NEW c \in Clients, NEW d \in Clients, Entitled(c), Entitled(d)
               PROVE  UserOf[c] = UserOf[d]
    BY DEF Exclusive
  <2>1. saved # NoLease => saved.expires \in Nat /\ now \in Nat
    BY <1>2, ClientAssumption DEF LeaseInv, TypeOK, Leases, Granting
  <2>2. \A e \in Clients : held[e] # NoLease /\ held[e].expires >= now =>
          saved # NoLease /\ saved.owner = UserOf[e] /\ saved.expires >= now
    BY <1>2 DEF HeldIsSaved
  <2>3. \A e \in Clients : writer = e => (saved # NoLease => saved.owner = UserOf[e] \/ saved.expires < now)
    BY <1>2 DEF LeaseInv, WriterMay
  <2> QED
    BY <2>1, <2>2, <2>3 DEF Entitled
<1> QED
  BY <1>1, <1>2, LeaseStarts, LeaseInductive, HeldInductive, PTL DEF Spec

-----------------------------------------------------------------------------

(* What the row says of its lease: a transaction writes the expiry counted  *)
(* from its own clock and the newest token; the committed lease of a user   *)
(* ends no later than TTL after its client last read the clock.             *)
TermInv ==
  /\ \A c \in Clients : writer = c /\ row # NoLease =>
       /\ row.expires = at[c] + TTL
       /\ saved # NoLease => saved.token # row.token
  /\ \A c \in Clients : saved # NoLease /\ saved.owner = UserOf[c] => saved.expires <= at[c] + TTL
  /\ saved # NoLease => saved.token <= tokens
  /\ row # NoLease => row.token <= tokens

(* A step that commits nothing leaves the lease, and at most the clock      *)
(* ticks.                                                                   *)
LEMMA OnlyEndsCommit ==
  ASSUME LeaseInv, [Next]_vars, ~\E c \in Clients : Commit(c)
  PROVE  saved' = saved /\ now' \in {now, now + 1}
BY DEF vars, Next, Tick, Call, Statement, AcquireSqlite, AcquirePg, InsertPg, AgainPg,
   ClaimLocked, Renew, Release, Busy, Refused, Continue, Grant, Write, Rollback

(* A step that writes no row keeps the terms of the lease.                  *)
LEMMA QuietKeepsTerm ==
  ASSUME LeaseInv, TermInv, UNCHANGED <<saved, row, writer, tokens>>,
         \A c \in Clients : at'[c] \in Nat /\ at[c] <= at'[c] /\ (writer = c => at'[c] = at[c])
  PROVE  TermInv'
<1>1. \A c \in Clients : at[c] \in Nat
  BY ClientAssumption DEF LeaseInv, TypeOK
<1>2. saved # NoLease => saved.expires \in Nat
  BY DEF LeaseInv, TypeOK, Leases, Granting
<1> QED
  BY <1>1, <1>2, LeaseAssumption DEF TermInv

(* A statement keeps them: what it grants runs TTL from the clock it read,  *)
(* under a token nobody had before.                                         *)
LEMMA StatementKeepsTerm ==
  ASSUME LeaseInv, TermInv, NEW c \in Clients, writer = Nobody, pc[c] # "open",
         \/ Grant(c)
         \/ Write(c, NoLease) /\ UNCHANGED tokens
         \/ \E call \in Calls : Continue(c, call)
  PROVE  TermInv'
<1>1. CASE Grant(c)
  <2>1. /\ row' = Granted(UserOf[c], tokens + 1, at[c]) /\ tokens' = tokens + 1
        /\ writer' = c /\ saved' = saved /\ at' = at
    BY <1>1 DEF Grant, Write
  <2>2. row'.expires = at[c] + TTL /\ row'.token = tokens + 1
    BY <2>1 DEF Granted
  <2>3. row = saved /\ tokens \in Nat /\ (row # NoLease => row.token \in Nat)
    BY DEF LeaseInv, TypeOK, Leases, Granting
  <2> QED
    BY <2>1, <2>2, <2>3 DEF TermInv
<1>2. CASE Write(c, NoLease) /\ UNCHANGED tokens
  BY <1>2 DEF Write, TermInv
<1>3. CASE \E call \in Calls : Continue(c, call)
  BY <1>3 DEF Continue, TermInv
<1> QED
  BY <1>1, <1>2, <1>3

(* TermInv is inductive when each user has one client.                      *)
LEMMA TermInductive ==
  ASSUME OneEach, LeaseInv, TermInv, [Next]_vars
  PROVE  TermInv'
<1>1. \A c \in Clients : at[c] \in Nat /\ at[c] <= now /\ now \in Nat
  BY ClientAssumption DEF LeaseInv, TypeOK, ClocksRead
<1>2. CASE Tick \/ UNCHANGED vars
  BY <1>1, <1>2, QuietKeepsTerm DEF Tick, vars
<1>3. ASSUME NEW c \in Clients, NEW call \in {"acquire", "renew", "release"}, Call(c, call)
      PROVE  TermInv'
  <2>1. writer # c /\ UNCHANGED <<saved, row, writer, tokens>>
    BY <1>3 DEF Call, LeaseInv, TypeOK
  <2>2. at' = [at EXCEPT ![c] = now] /\ at \in [Clients -> 0..MaxTime]
    BY <1>3 DEF Call, LeaseInv, TypeOK
  <2> QED
    BY <1>1, <2>1, <2>2, QuietKeepsTerm
<1>4. ASSUME NEW c \in Clients, Statement(c) PROVE TermInv'
  <2>1. CASE Commit(c)
    <3>1. writer = c /\ saved' = row /\ row' = row /\ writer' = Nobody /\ UNCHANGED <<at, tokens>>
      BY <2>1 DEF LeaseInv, TypeOK, Commit
    <3>2. row # NoLease => row.owner = UserOf[c] /\ row.expires = at[c] + TTL /\ at[c] + TTL \in Nat
      BY <1>1, <3>1, LeaseAssumption DEF LeaseInv, WriterMay, TermInv
    <3>3. \A d \in Clients : UserOf[d] = UserOf[c] => d = c
      BY DEF OneEach
    <3> QED
      BY <3>1, <3>2, <3>3, ClientAssumption DEF TermInv
  <2>2. CASE Rollback(c)
    <3>1. row' = saved /\ saved' = saved /\ writer' = Nobody /\ UNCHANGED <<at, tokens>>
      BY <2>2 DEF Rollback
    <3> QED
      BY <3>1, ClientAssumption DEF TermInv
  <2>3. CASE Busy(c)
    BY <1>1, <2>3, QuietKeepsTerm DEF Busy, Refused
  <2>4. CASE AcquireSqlite(c) \/ AcquirePg(c) \/ InsertPg(c) \/ AgainPg(c) \/ Renew(c) \/ Release(c)
    <3>1. writer = Nobody /\ pc[c] # "open"
      BY <2>4 DEF AcquireSqlite, AcquirePg, InsertPg, AgainPg, Renew, Release
    <3>2. \/ Grant(c)
          \/ Write(c, NoLease) /\ UNCHANGED tokens
          \/ \E call \in Calls : Continue(c, call)
      BY <2>4 DEF AcquireSqlite, AcquirePg, InsertPg, AgainPg, Renew, Release, ClaimLocked,
                  Refused, Continue, Calls
    <3> QED
      BY <3>1, <3>2, StatementKeepsTerm
  <2> QED
    BY <1>4, <2>1, <2>2, <2>3, <2>4 DEF Statement
<1> QED
  BY <1>2, <1>3, <1>4 DEF Next

(* The end of a transaction is one step of SingleLease.                     *)
LEMMA CommitChangesHands ==
  ASSUME OneEach, LeaseInv, TermInv, NEW c \in Clients, Commit(c)
  PROVE  Lease!Take \/ Lease!Drop \/ UNCHANGED <<now, saved>>
<1>1. writer = c /\ saved' = row /\ now' = now
  BY DEF LeaseInv, TypeOK, Commit
<1>2. at[c] \in Nat /\ now \in Nat /\ at[c] <= now
  BY ClientAssumption DEF LeaseInv, TypeOK, ClocksRead
<1>3. CASE row = NoLease
  BY <1>1, <1>3 DEF Lease!Drop
<1>4. CASE row # NoLease
  <2>1. row.owner = UserOf[c] /\ row.expires = at[c] + TTL
    BY <1>1, <1>4 DEF LeaseInv, WriterMay, TermInv
  <2>2. row.expires <= now + TTL
    BY <1>2, <2>1, LeaseAssumption
  <2>3. ASSUME saved # NoLease
        PROVE  /\ row.owner = saved.owner => row.expires >= saved.expires
               /\ row.owner # saved.owner => saved.expires < now
               /\ row.token # saved.token
    <3>1. saved.owner = UserOf[c] \/ saved.expires < now
      BY <1>1, <2>3 DEF LeaseInv, WriterMay
    <3>2. saved.owner = UserOf[c] => saved.expires <= at[c] + TTL
      BY <2>3 DEF TermInv
    <3>3. saved.token # row.token /\ saved.expires \in Nat
      BY <1>1, <1>4, <2>3 DEF TermInv, LeaseInv, TypeOK, Leases, Granting
    <3> QED
      BY <1>2, <2>1, <3>1, <3>2, <3>3, LeaseAssumption
  <2> QED
    BY <1>1, <1>4, <2>2, <2>3 DEF Lease!Take
<1> QED
  BY <1>3, <1>4

(* The table implements SingleLease when each user has one submission for   *)
(* the channel: whatever waits for the row, on either database, the lease   *)
(* is one that changes hands in single steps by the clock of the commit.    *)
(* A second submission of the owner that read the clock earlier and commits *)
(* later shortens the lease, which SingleLease does not allow.              *)
THEOREM LeaseImplemented ==
  ASSUME OneEach
  PROVE  Spec => ImplementsLease
<1>1. Init => TermInv /\ Lease!Init
  BY ClientAssumption DEF Init, TermInv, Lease!Init
<1>2. ASSUME LeaseInv, TermInv, [Next]_vars PROVE [Lease!Next]_<<now, saved>>
  <2>1. ASSUME NEW c \in Clients, Commit(c) PROVE [Lease!Next]_<<now, saved>>
    BY <1>2, <2>1, CommitChangesHands DEF Lease!Next
  <2>2. CASE ~\E c \in Clients : Commit(c)
    BY <1>2, <2>2, OnlyEndsCommit DEF Lease!Next, Lease!Tick
  <2> QED
    BY <2>1, <2>2
<1> QED
  BY <1>1, <1>2, LeaseStarts, LeaseInductive, TermInductive, PTL
     DEF Spec, ImplementsLease, Lease!Spec
=============================================================================
