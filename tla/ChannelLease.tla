----------------------------- MODULE ChannelLease -----------------------------
(***************************************************************************)
(* The channel lease (leases.py, ChannelLeaseRepository): one row of        *)
(* channel_leases, and the clients that acquire, renew and release it.     *)
(*                                                                         *)
(* A client is one submission: the confirmation that acquires the lease    *)
(* and the worker run that renews and releases it with the token found in  *)
(* the payload.  Every call reads the clock first and then runs its        *)
(* statement; a statement waits while another transaction has written the  *)
(* row, and what it did is undone if its transaction is rolled back.       *)
(***************************************************************************)
EXTENDS LeaseRules, FiniteSets

CONSTANTS
  Clients,    \* submissions for the channel
  Nobody,     \* no transaction has written the row
  UserOf,     \* the user of each client
  Dialects,   \* the databases in question: "sqlite", "postgresql"
  MaxTime,    \* bound on the clock
  MaxTokens   \* bound on the tokens generated

Users == {UserOf[c] : c \in Clients}
Granting == [owner : Users, token : Nat, expires : Nat]

ASSUME ClientAssumption ==
  /\ Nobody \notin Clients
  /\ NoLease \notin Granting
  /\ Dialects \subseteq {"sqlite", "postgresql"}
  /\ MaxTime \in Nat /\ MaxTokens \in Nat

VARIABLES
  dialect, \* the database the engine was built for
  now,     \* the clock
  saved,   \* the committed row
  row,     \* the row as the transaction that has written it sees it
  writer,  \* the client of that transaction
  pc,      \* the statement each client runs next
  at,      \* the clock as each client read it for its call
  held,    \* the last lease each client was granted, as far as it knows
  tokens   \* tokens generated so far

vars == <<dialect, now, saved, row, writer, pc, at, held, tokens>>

Leases == Granting \cup {NoLease}
Calls == {"idle", "acquire", "insert", "again", "renew", "release", "open"}

TypeOK ==
  /\ dialect \in Dialects
  /\ now \in 0..MaxTime
  /\ saved \in Leases /\ row \in Leases
  /\ writer \in Clients \cup {Nobody}
  /\ pc \in [Clients -> Calls]
  /\ at \in [Clients -> 0..MaxTime]
  /\ held \in [Clients -> Leases]
  /\ tokens \in Nat
  /\ \A c \in Clients : pc[c] = "open" <=> writer = c
  /\ writer = Nobody => row = saved

Init ==
  /\ dialect \in Dialects
  /\ now = 0
  /\ saved = NoLease /\ row = NoLease
  /\ writer = Nobody
  /\ pc = [c \in Clients |-> "idle"]
  /\ at = [c \in Clients |-> 0]
  /\ held = [c \in Clients |-> NoLease]
  /\ tokens = 0

Tick ==
  /\ now < MaxTime
  /\ now' = now + 1
  /\ UNCHANGED <<dialect, saved, row, writer, pc, at, held, tokens>>

Goto(c, call) == pc' = [pc EXCEPT ![c] = call]

(* Calls under way that may take a token.                                   *)
Asking == {c \in Clients : pc[c] \in {"acquire", "insert", "again", "renew"}}

(* A call begins by reading the clock.  Bound: calls that may take a token  *)
(* are made only while tokens remain for all of them.                       *)
Call(c, call) ==
  /\ pc[c] = "idle"
  /\ IF call = "release" THEN held[c] # NoLease ELSE tokens + Cardinality(Asking) < MaxTokens
  /\ call = "renew" => held[c] # NoLease
  /\ at' = [at EXCEPT ![c] = now]
  /\ Goto(c, call)
  /\ UNCHANGED <<dialect, now, saved, row, writer, held, tokens>>

(* The statement writes the row: its transaction stays open.                *)
Write(c, lease) ==
  /\ row' = lease
  /\ writer' = c
  /\ Goto(c, "open")
  /\ UNCHANGED <<dialect, now, saved, at, held>>

(* The statement changes nothing and the call returns.                      *)
Refused(c) ==
  /\ Goto(c, "idle")
  /\ UNCHANGED <<dialect, now, saved, row, writer, at, held, tokens>>

Continue(c, call) ==
  /\ Goto(c, call)
  /\ UNCHANGED <<dialect, now, saved, row, writer, at, held, tokens>>

Grant(c) ==
  /\ tokens' = tokens + 1
  /\ Write(c, Granted(UserOf[c], tokens + 1, at[c]))

-----------------------------------------------------------------------------

(* Mutant: the upsert without its WHERE clause.                             *)
AcquireUnguarded(c) ==
  /\ dialect = "sqlite"
  /\ pc[c] = "acquire" /\ writer = Nobody
  /\ Grant(c)

(* _acquire_sqlite: one upsert whose WHERE clause guards the update.        *)
AcquireSqlite(c) ==
  /\ dialect = "sqlite"
  /\ pc[c] = "acquire" /\ writer = Nobody
  /\ IF MayAcquire(row, UserOf[c], at[c]) THEN Grant(c) ELSE Refused(c)

(* _claim_locked_pg: the row is locked FOR UPDATE, so it is the latest.     *)
ClaimLocked(c) == IF MayAcquire(row, UserOf[c], at[c]) THEN Grant(c) ELSE Refused(c)

(* _acquire_pg: lock the row if there is one ...                            *)
AcquirePg(c) ==
  /\ dialect = "postgresql"
  /\ pc[c] = "acquire" /\ writer = Nobody
  /\ IF row = NoLease THEN Continue(c, "insert") ELSE ClaimLocked(c)

(* Mutant: ON CONFLICT DO UPDATE.                                           *)
InsertOverwrites(c) ==
  /\ pc[c] = "insert" /\ writer = Nobody
  /\ Grant(c)

(* ... else insert it, ON CONFLICT DO NOTHING ...                           *)
InsertPg(c) ==
  /\ pc[c] = "insert" /\ writer = Nobody
  /\ IF row = NoLease THEN Grant(c) ELSE Continue(c, "again")

(* ... and lock the row somebody else inserted meanwhile, if it is still    *)
(* there.                                                                   *)
AgainPg(c) ==
  /\ pc[c] = "again" /\ writer = Nobody
  /\ IF row = NoLease THEN Refused(c) ELSE ClaimLocked(c)

(* Mutant: a renewal adds the ten minutes to the end of the lease.          *)
RenewFromExpiry(c) ==
  /\ pc[c] = "renew" /\ writer = Nobody
  /\ IF MayRenew(row, UserOf[c], held[c].token, at[c])
       THEN Write(c, Granted(UserOf[c], tokens + 1, row.expires)) /\ tokens' = tokens + 1
       ELSE Refused(c)

Renew(c) ==
  /\ pc[c] = "renew" /\ writer = Nobody
  /\ IF MayRenew(row, UserOf[c], held[c].token, at[c]) THEN Grant(c) ELSE Refused(c)

Release(c) ==
  /\ pc[c] = "release" /\ writer = Nobody
  /\ IF MayRelease(row, UserOf[c], held[c].token)
       THEN Write(c, NoLease) /\ UNCHANGED tokens
       ELSE Refused(c)

(* Mutant: the session is committed and not closed, its locks kept.         *)
CommitUnclosed(c) ==
  /\ pc[c] = "open"
  /\ saved' = row
  /\ held' = [held EXCEPT ![c] = row]
  /\ Goto(c, "idle")
  /\ UNCHANGED <<dialect, now, row, writer, at, tokens>>

(* SQLite waits five seconds for the lock and then raises.                  *)
Busy(c) ==
  /\ dialect = "sqlite"
  /\ pc[c] \in {"acquire", "renew", "release"} /\ writer \notin {Nobody, c}
  /\ Refused(c)

(* Mutant: the failed transaction is not rolled back.                       *)
RollbackForgotten(c) ==
  /\ pc[c] = "open"
  /\ writer' = Nobody
  /\ Goto(c, "idle")
  /\ UNCHANGED <<dialect, now, saved, row, at, held, tokens>>

Commit(c) ==
  /\ pc[c] = "open"
  /\ saved' = row
  /\ held' = [held EXCEPT ![c] = row]
  /\ writer' = Nobody
  /\ Goto(c, "idle")
  /\ UNCHANGED <<dialect, now, row, at, tokens>>

Rollback(c) ==
  /\ pc[c] = "open"
  /\ row' = saved
  /\ writer' = Nobody
  /\ Goto(c, "idle")
  /\ UNCHANGED <<dialect, now, saved, at, held, tokens>>

Statement(c) ==
  \/ AcquireSqlite(c) \/ AcquirePg(c) \/ InsertPg(c) \/ AgainPg(c)
  \/ Renew(c) \/ Release(c) \/ Busy(c)
  \/ Commit(c) \/ Rollback(c)

Next ==
  \/ Tick
  \/ \E c \in Clients : Statement(c) \/ \E call \in {"acquire", "renew", "release"} : Call(c, call)

Spec == Init /\ [][Next]_vars

(* A statement that can run runs, session_scope ends every transaction, and  *)
(* PostgreSQL serves those that wait for a row in turn: whoever waits is not *)
(* overtaken for ever (strong fairness).                                     *)
FairSpec == Spec /\ \A c \in Clients : SF_vars(Statement(c))

-----------------------------------------------------------------------------

(* Properties. *)

(* What entitles a client to work: a lease it was granted and that has not  *)
(* run out, or one it has written and not yet committed.                    *)
Entitled(c) ==
  \/ held[c] # NoLease /\ held[c].expires >= now
  \/ writer = c /\ row # NoLease /\ row.expires >= now

(* The lease is exclusive: clients of two users are never entitled at once, *)
(* though each read the clock before it waited for the row.                 *)
Exclusive ==
  \A c, d \in Clients : Entitled(c) /\ Entitled(d) => UserOf[c] = UserOf[d]

(* A lease passes to another user only after it was released or ran out.    *)
NoTheft ==
  [][saved # NoLease /\ saved' # NoLease /\ saved'.owner # saved.owner => saved.expires < now]_vars

(* To the rest of the system the lease changes hands in single steps, by    *)
(* the clock of the commit: never granted for longer than TTL from then,    *)
(* never shortened by its owner, never taken before it has run out.         *)
Lease == INSTANCE SingleLease WITH lease <- saved
ImplementsLease == Lease!Spec

(* No call waits for ever for the row.                                      *)
EveryCallReturns == \A c \in Clients : pc[c] # "idle" ~> pc[c] = "idle"
=============================================================================
