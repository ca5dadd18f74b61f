-------------------------- MODULE BatchResultsProofs --------------------------
(***************************************************************************)
(* What a run leaves behind, for any workers, batches, assets, databases   *)
(* and clock, whatever calls fail and however often workers die: TypeOK,   *)
(* NoRepostAfterSuccess, SucceededIsPosted and ImplementsLedger of         *)
(* BatchJobs.                                                              *)
(*                                                                         *)
(* None of the last three is inductive.  ResultInv adds why they hold:     *)
(* what a row says has succeeded is true in the channel and on the canvas, *)
(* committed or not; a transaction forgets nothing the committed row says; *)
(* and the operation it is at has not succeeded, the ones before have      *)
(* ended.                                                                  *)
(***************************************************************************)
EXTENDS BatchJobsProofs, FiniteSetTheorems, SequenceTheorems, WellFoundedInduction

IndexStep(a) == PostStep(a) + 1

(* In the channel m, the message ts is the one of operation s of batch b.   *)
Posted(ts, b, s, m) == ts \in 1..Len(m) /\ m[ts].batch = b /\ m[ts].step = s

(* The roots the canvas cv keeps listed for a batch: those in its sections, *)
(* unless the title of another group may cost it them.                      *)
Kept(cv, b) ==
  IF Apart(b) THEN UNION {cv[i].roots : i \in {i \in DOMAIN cv : cv[i].group = b}} ELSE Nat

(* What a row r of batch b says has succeeded is true in the channel m and  *)
(* in the roots c kept on the canvas.                                       *)
Sound(r, b, m, c) ==
  /\ r.ops[1] = "succeeded" => Posted(r.summary, b, 1, m)
  /\ \A a \in Assets : r.ops[PostStep(a)] = "succeeded" => Posted(r.root[a], b, PostStep(a), m)
  /\ \A a \in Assets : r.ops[IndexStep(a)] = "succeeded" =>
       r.ops[PostStep(a)] = "succeeded" /\ r.root[a] \in c
  /\ r.ops[Last] = "succeeded" => r.ops[1] = "succeeded" /\ m[r.summary].shown # "creating"

(* A transaction keeps what the row it copied says has succeeded.           *)
Carries(r, old) ==
  /\ \A s \in Steps : old.ops[s] = "succeeded" => r.ops[s] = "succeeded"
  /\ \A a \in Assets : old.ops[PostStep(a)] = "succeeded" => r.root[a] = old.root[a]

(* The operations before the current one have ended, and the current one    *)
(* has not succeeded yet; only a failed summary skips the rest.             *)
OnCourse(t) ==
  /\ t.step \in Steps => t.row.ops[t.step] # "succeeded"
  /\ t.step \in 2..Last => t.row.ops[1] = "succeeded"
  /\ t.step = Last + 1 /\ t.row.ops[1] # "failed" =>
       \A s \in Steps : t.row.ops[s] \in {"succeeded", "failed"}
  /\ t.step \in Steps => \A s \in 1..(t.step - 1) : t.row.ops[s] \in {"succeeded", "failed"}

(* A transaction that runs the batch with the committed row old.            *)
Honest(t, old, m, c) ==
  /\ Sound(t.row, t.batch, m, c)
  /\ Carries(t.row, old)
  /\ \A a \in Assets : t.roots[a] \in 0..Len(m) /\ (t.roots[a] # 0 => t.pc # "start" /\ t.step # 1)
  /\ t.pc \in {"run", "record"} => OnCourse(t)
  /\ t.pc = "record" => t.step \in Steps /\ Posted(t.ts, t.batch, t.step, m)

Confirmed == {b \in Batches : row[b].status # "none"}

ResultInv ==
  /\ TypeOK
  /\ RunInv
  /\ IsFiniteSet(Confirmed)
  /\ \A b \in Batches : Sound(row[b], b, messages, Kept(canvas, b))
  /\ \A b \in Batches : row[b].status = "succeeded" <=> \A s \in Steps : row[b].ops[s] = "succeeded"
  /\ \A w \in Workers : Running(w) =>
       Honest(tx[w], row[tx[w].batch], messages, Kept(canvas, tx[w].batch))

-----------------------------------------------------------------------------

(* A transaction, and the parts of it that Honest speaks of.                *)
TxRecords ==
  [pc : {"idle", "claim", "start", "run", "record"},
   batch : Batches \cup {NoBatch}, step : 1..Last + 1, row : Rows,
   mine : Tokens, touched : BOOLEAN, lease : Leases,
   roots : [Assets -> Nat], ts : Nat, seen : Nat]

Alike(t, u) ==
  /\ u.pc = t.pc /\ u.batch = t.batch /\ u.step = t.step /\ u.ts = t.ts /\ u.roots = t.roots
  /\ u.row.ops = t.row.ops /\ u.row.summary = t.row.summary /\ u.row.root = t.row.root

(* Messages are added and shown differently, but stay what they are.        *)
Grows(m, n) ==
  /\ Len(m) <= Len(n)
  /\ \A i \in 1..Len(m) : /\ n[i].batch = m[i].batch /\ n[i].step = m[i].step
                          /\ m[i].shown # "creating" => n[i].shown # "creating"

(* Where the operation s of an asset stands in the plan.                    *)
InPlan(s) ==
  /\ AssetAt(s) \in Assets
  /\ \/ KindAt(s) = "post_asset" /\ PostStep(AssetAt(s)) = s
     \/ KindAt(s) = "index_asset" /\ IndexStep(AssetAt(s)) = s
     \/ /\ KindAt(s) \in {"index_primary_asset", "retire_prior_latest"}
        /\ \A a \in Assets : s # PostStep(a) /\ s # IndexStep(a)

(* The operations of an asset follow the summary, one asset after another.  *)
LEMMA Plan ==
  /\ PerAsset \in {3, 4} /\ Last \in Nat /\ Last > 2
  /\ KindAt(1) = "post_summary" /\ KindAt(Last) = "finalize_summary"
  /\ \A s \in Steps : s # 1 /\ s # Last => InPlan(s)
<1> USE BatchAssumption
<1>1. ASSUME Mirrored
      PROVE  /\ PerAsset \in {3, 4} /\ Last \in Nat /\ Last > 2
             /\ \A s \in Steps : s # 1 /\ s # Last => InPlan(s)
  <2>1. PerAsset = 4 /\ Last = NumAssets * 4 + 2 /\ AssetKinds = <<"post_asset", "index_asset", "index_primary_asset", "retire_prior_latest">>
    BY <1>1 DEF PerAsset, Last, AssetKinds
  <2>2. \A a \in Assets : PostStep(a) = 4 * a - 2 /\ IndexStep(a) = 4 * a - 1
    BY <2>1 DEF PostStep, IndexStep, Assets
  <2>3. ASSUME NEW s \in Steps, s # 1, s # Last
        PROVE  \E d \in 0..(NumAssets - 1), r \in 0..3 :
                 s = 4 * d + r + 2 /\ AssetAt(s) = 1 + d /\ KindAt(s) = AssetKinds[1 + r]
    <3> DEFINE d == (s - 2) \div 4
               r == (s - 2) % 4
    <3>1. s \in Nat /\ s - 2 \in 0..(4 * NumAssets - 1)
      BY <2>1, <2>3 DEF Steps
    <3>2. r \in 0..3 /\ d \in Nat /\ s - 2 = 4 * d + r
      BY <3>1
    <3>3. AssetAt(s) = 1 + d /\ KindAt(s) = AssetKinds[1 + r]
      BY <2>1, <2>3 DEF AssetAt, KindAt
    <3> HIDE DEF d, r
    <3>4. d \in 0..(NumAssets - 1) /\ s = 4 * d + r + 2
      BY <3>1, <3>2
    <3> QED
      BY <3>2, <3>3, <3>4
  <2>4. ASSUME NEW s \in Steps, s # 1, s # Last
        PROVE  InPlan(s)
    <3>1. PICK d \in 0..(NumAssets - 1), r \in 0..3 :
            s = 4 * d + r + 2 /\ AssetAt(s) = 1 + d /\ KindAt(s) = AssetKinds[1 + r]
      BY <2>3, <2>4
    <3>2. 1 + d \in Assets /\ PostStep(1 + d) = 4 * d + 2 /\ IndexStep(1 + d) = 4 * d + 3
      BY <2>2 DEF Assets
    <3>3. CASE r = 0
      <4>1. KindAt(s) = "post_asset"
        BY <3>1, <2>1, <3>3
      <4> QED
        BY <3>1, <3>2, <3>3, <4>1 DEF InPlan, Assets
    <3>4. CASE r = 1
      <4>1. KindAt(s) = "index_asset"
        BY <3>1, <2>1, <3>4
      <4> QED
        BY <3>1, <3>2, <3>4, <4>1 DEF InPlan, Assets
    <3>5. CASE r = 2
      <4>1. KindAt(s) = "index_primary_asset"
        BY <3>1, <2>1, <3>5
      <4> QED
        BY <3>1, <3>2, <3>5, <4>1, <2>2 DEF InPlan, Assets
    <3>6. CASE r = 3
      <4>1. KindAt(s) = "retire_prior_latest"
        BY <3>1, <2>1, <3>6
      <4> QED
        BY <3>1, <3>2, <3>6, <4>1, <2>2 DEF InPlan, Assets
    <3> QED
      BY <3>3, <3>4, <3>5, <3>6
  <2>5. Last \in Nat /\ Last > 2
    BY <2>1
  <2> QED
    BY <2>1, <2>4, <2>5
<1>2. ASSUME ~Mirrored
      PROVE  /\ PerAsset \in {3, 4} /\ Last \in Nat /\ Last > 2
             /\ \A s \in Steps : s # 1 /\ s # Last => InPlan(s)
  <2>1. PerAsset = 3 /\ Last = NumAssets * 3 + 2 /\ AssetKinds = <<"post_asset", "index_asset", "retire_prior_latest">>
    BY <1>2 DEF PerAsset, Last, AssetKinds
  <2>2. \A a \in Assets : PostStep(a) = 3 * a - 1 /\ IndexStep(a) = 3 * a - 0
    BY <2>1 DEF PostStep, IndexStep, Assets
  <2>3. ASSUME NEW s \in Steps, s # 1, s # Last
        PROVE  \E d \in 0..(NumAssets - 1), r \in 0..2 :
                 s = 3 * d + r + 2 /\ AssetAt(s) = 1 + d /\ KindAt(s) = AssetKinds[1 + r]
    <3> DEFINE d == (s - 2) \div 3
               r == (s - 2) % 3
    <3>1. s \in Nat /\ s - 2 \in 0..(3 * NumAssets - 1)
      BY <2>1, <2>3 DEF Steps
    <3>2. r \in 0..2 /\ d \in Nat /\ s - 2 = 3 * d + r
      BY <3>1
    <3>3. AssetAt(s) = 1 + d /\ KindAt(s) = AssetKinds[1 + r]
      BY <2>1, <2>3 DEF AssetAt, KindAt
    <3> HIDE DEF d, r
    <3>4. d \in 0..(NumAssets - 1) /\ s = 3 * d + r + 2
      BY <3>1, <3>2
    <3> QED
      BY <3>2, <3>3, <3>4
  <2>4. ASSUME NEW s \in Steps, s # 1, s # Last
        PROVE  InPlan(s)
    <3>1. PICK d \in 0..(NumAssets - 1), r \in 0..2 :
            s = 3 * d + r + 2 /\ AssetAt(s) = 1 + d /\ KindAt(s) = AssetKinds[1 + r]
      BY <2>3, <2>4
    <3>2. 1 + d \in Assets /\ PostStep(1 + d) = 3 * d + 2 /\ IndexStep(1 + d) = 3 * d + 3
      BY <2>2 DEF Assets
    <3>3. CASE r = 0
      <4>1. KindAt(s) = "post_asset"
        BY <3>1, <2>1, <3>3
      <4> QED
        BY <3>1, <3>2, <3>3, <4>1 DEF InPlan, Assets
    <3>4. CASE r = 1
      <4>1. KindAt(s) = "index_asset"
        BY <3>1, <2>1, <3>4
      <4> QED
        BY <3>1, <3>2, <3>4, <4>1 DEF InPlan, Assets
    <3>5. CASE r = 2
      <4>1. KindAt(s) = "retire_prior_latest"
        BY <3>1, <2>1, <3>5
      <4> QED
        BY <3>1, <3>2, <3>5, <4>1, <2>2 DEF InPlan, Assets
    <3> QED
      BY <3>3, <3>4, <3>5
  <2>5. Last \in Nat /\ Last > 2
    BY <2>1
  <2> QED
    BY <2>1, <2>4, <2>5
<1>3. PerAsset \in {3, 4} /\ Last \in Nat /\ Last > 2 /\ \A s \in Steps : s # 1 /\ s # Last => InPlan(s)
  BY <1>1, <1>2
<1>4. KindAt(1) = "post_summary" /\ KindAt(Last) = "finalize_summary"
  BY <1>3 DEF KindAt
<1> QED
  BY <1>3, <1>4

-----------------------------------------------------------------------------

(* A set of numbers has a smallest one.                                     *)
LEMMA LeastExists ==
  ASSUME NEW n \in Nat, NEW S \in SUBSET (1..n), S # {}
  PROVE  \E x \in S : \A y \in S : x <= y
<1> DEFINE UpTo(x) == {y \in S : y <= x}
           Heads == {UpTo(x) : x \in S}
           Smaller == StrictSubsetOrdering(S)
<1>1. IsFiniteSet(S)
  <2>1. IsFiniteSet(1..n)
    BY FS_Interval
  <2> QED
    BY <2>1, FS_Subset
<1>2. Heads \subseteq FiniteSubsetsOf(S) /\ Heads # {}
  <2>1. \A x \in S : UpTo(x) \subseteq S /\ IsFiniteSet(UpTo(x))
    BY <1>1, FS_Subset
  <2> QED
    BY <2>1 DEF FiniteSubsetsOf
<1>3. \E T \in Heads : \A U \in Heads : <<U, T>> \notin Smaller
  <2> HIDE DEF Heads, Smaller
  <2>1. IsWellFoundedOn(Smaller, FiniteSubsetsOf(S))
    BY FS_StrictSubsetOrderingWellFounded DEF Smaller
  <2> QED
    BY <1>2, <2>1, WFMin
<1>4. PICK x \in S : \A z \in S : <<UpTo(z), UpTo(x)>> \notin Smaller
  BY <1>3
<1>5. ASSUME NEW z \in S, z < x PROVE FALSE
  <2>1. \A y \in S : y \in Nat
    OBVIOUS
  <2>2. UpTo(z) \subseteq UpTo(x) /\ x \in UpTo(x) /\ x \notin UpTo(z)
    <3>1. x \in Nat /\ z \in Nat /\ ~(x <= z) /\ x <= x
      BY <1>5, <2>1
    <3>2. \A y \in S : y <= z => y <= x
      BY <1>5, <2>1
    <3> QED
      BY <3>1, <3>2
  <2>3. <<UpTo(z), UpTo(x)>> \in Smaller
    BY <2>2 DEF StrictSubsetOrdering
  <2> QED
    BY <1>4, <2>3
<1> QED
  BY <1>5

(* A run goes on with the next operation that has not succeeded.            *)
LEMMA NextStepLands ==
  ASSUME NEW ops, NEW after \in 0..Last
  PROVE  /\ NextStep(ops, after) \in (after + 1)..(Last + 1)
         /\ NextStep(ops, after) = Last + 1 \/ ops[NextStep(ops, after)] # "succeeded"
         /\ \A r \in (after + 1)..(NextStep(ops, after) - 1) : ops[r] = "succeeded"
<1> DEFINE S == {s \in (after + 1)..(Last + 1) : s = Last + 1 \/ ops[s] # "succeeded"}
           Lands(s) == /\ s = Last + 1 \/ ops[s] # "succeeded"
                       /\ \A r \in (after + 1)..(s - 1) : ops[r] = "succeeded"
<1>1. Last \in Nat /\ after \in Nat
  BY Plan
<1>2. S \subseteq 1..(Last + 1) /\ Last + 1 \in S
  BY <1>1
<1>3. PICK x \in S : \A y \in S : x <= y
  <2> HIDE DEF S
  <2>1. Last + 1 \in Nat /\ S \in SUBSET (1..(Last + 1)) /\ S # {}
    BY <1>1, <1>2
  <2> QED
    BY <2>1, LeastExists
<1>4. x \in (after + 1)..(Last + 1) /\ Lands(x)
  <2>1. ASSUME NEW r \in (after + 1)..(x - 1), ops[r] # "succeeded" PROVE FALSE
    <3>1. r \in S
      BY <1>1, <2>1
    <3> QED
      BY <1>1, <1>3, <2>1, <3>1
  <2> QED
    BY <1>1, <2>1
<1>5. NextStep(ops, after) = CHOOSE s \in (after + 1)..(Last + 1) : Lands(s)
  BY DEF NextStep
<1> HIDE DEF Lands
<1>6. NextStep(ops, after) \in (after + 1)..(Last + 1) /\ Lands(NextStep(ops, after))
  BY <1>4, <1>5
<1> QED
  BY <1>6 DEF Lands

-----------------------------------------------------------------------------

(* Renewing the lease changes neither the progress nor the results.         *)
LEMMA RenewedAlike ==
  ASSUME now \in Nat, lease \in Leases, NEW t \in TxRecords, t.batch \in Batches
  PROVE  Renewed(t) \in TxRecords /\ Alike(t, Renewed(t))
<1> DEFINE token == NextToken(t.mine)
           grant == Granted(OwnerOf[t.batch], token, now)
<1>1. token \in Tokens
  BY DEF TxRecords, Tokens, NextToken
<1>2. grant \in Leases
  BY <1>1, LeaseAssumption DEF Granted, Leases
<1>3. CASE MayRenew(LeaseIn(t), OwnerOf[t.batch], t.mine, now)
  <2>1. Renewed(t) = [t EXCEPT !.touched = TRUE, !.lease = grant, !.row.token = token]
    BY <1>3 DEF Renewed
  <2> HIDE DEF token, grant
  <2>2. [t.row EXCEPT !.token = token] \in Rows
    BY <1>1 DEF TxRecords, Rows
  <2> DEFINE r == [t.row EXCEPT !.token = token]
  <2>3. Renewed(t) = [t EXCEPT !.touched = TRUE, !.lease = grant, !.row = r]
    BY <2>1
  <2>4. r.ops = t.row.ops /\ r.summary = t.row.summary /\ r.root = t.row.root
    BY DEF TxRecords, Rows
  <2> HIDE DEF r
  <2>5. Renewed(t) \in TxRecords
    BY <1>2, <2>2, <2>3 DEF TxRecords, r
  <2> QED
    BY <2>3, <2>4, <2>5 DEF TxRecords, Alike
<1>4. CASE ~MayRenew(LeaseIn(t), OwnerOf[t.batch], t.mine, now)
  BY <1>4 DEF Renewed, Alike
<1> QED
  BY <1>3, <1>4

(* Neither does telling the submitter.                                      *)
LEMMA ToldAlike ==
  ASSUME NEW t \in TxRecords, NEW u \in MayTell(t)
  PROVE  u \in TxRecords /\ Alike(t, u)
BY DEF MayTell, Told, TxRecords, Rows, Alike

LEMMA AlikeHonest ==
  ASSUME NEW t, NEW u, Alike(t, u), NEW old, NEW m, NEW c, Honest(t, old, m, c)
  PROVE  Honest(u, old, m, c)
<1>1. Sound(u.row, u.batch, m, c) /\ Carries(u.row, old)
  BY DEF Alike, Honest, Sound, Carries
<1>2. u.pc \in {"run", "record"} => OnCourse(u)
  BY DEF Alike, Honest, OnCourse
<1> QED
  BY <1>1, <1>2 DEF Alike, Honest

(* What was true of the messages and the canvas still is.                   *)
LEMMA SoundStays ==
  ASSUME NEW r, NEW b, NEW m, NEW n, Len(m) \in Nat, Len(n) \in Nat, Grows(m, n),
         NEW c, NEW d, Sound(r, b, m, c),
         \A a \in Assets : r.ops[IndexStep(a)] = "succeeded" => r.root[a] \in d
  PROVE  Sound(r, b, n, d)
<1>1. \A ts, s : Posted(ts, b, s, m) => Posted(ts, b, s, n)
  BY DEF Posted, Grows
<1>2. r.ops[Last] = "succeeded" => n[r.summary].shown # "creating"
  BY DEF Sound, Posted, Grows
<1> QED
  BY <1>1, <1>2 DEF Sound

LEMMA HonestStays ==
  ASSUME NEW t, NEW old, NEW m, NEW n, Len(m) \in Nat, Len(n) \in Nat, Grows(m, n),
         NEW c, NEW d, Honest(t, old, m, c),
         \A a \in Assets : t.row.ops[IndexStep(a)] = "succeeded" => t.row.root[a] \in d
  PROVE  Honest(t, old, n, d)
<1>1. Sound(t.row, t.batch, n, d)
  BY SoundStays DEF Honest
<1>2. \A a \in Assets : t.roots[a] \in 0..Len(n)
  BY DEF Honest, Grows
<1>3. t.pc = "record" => Posted(t.ts, t.batch, t.step, n)
  BY DEF Honest, Posted, Grows
<1> QED
  BY <1>1, <1>2, <1>3 DEF Honest

-----------------------------------------------------------------------------

(* The steps of the plan that post, index and finalize are all different.   *)
LEMMA PlanDistinct ==
  /\ 1 \in Steps /\ Last \in Steps /\ 1 # Last
  /\ \A a \in Assets : /\ PostStep(a) \in Steps /\ IndexStep(a) \in Steps
                       /\ PostStep(a) \notin {1, Last} /\ IndexStep(a) \notin {1, Last}
  /\ \A a, c \in Assets : /\ PostStep(a) # IndexStep(c)
                          /\ a # c => PostStep(a) # PostStep(c) /\ IndexStep(a) # IndexStep(c)
<1> USE BatchAssumption
<1>1. CASE PerAsset = 3
  <2>1. Last = NumAssets * 3 + 2 /\ \A a \in Assets : PostStep(a) = 3 * a - 1 /\ IndexStep(a) = 3 * a
    BY <1>1 DEF Last, PostStep, IndexStep, Assets
  <2> QED
    BY <2>1 DEF Assets, Steps
<1>2. CASE PerAsset = 4
  <2>1. Last = NumAssets * 4 + 2 /\ \A a \in Assets : PostStep(a) = 4 * a - 2 /\ IndexStep(a) = 4 * a - 1
    BY <1>2 DEF Last, PostStep, IndexStep, Assets
  <2> QED
    BY <2>1 DEF Assets, Steps
<1> QED
  BY <1>1, <1>2, Plan

(* An operation ends, and nothing else of the row changes.                  *)
LEMMA EndedTyped ==
  ASSUME NEW t \in TxRecords, t.step \in Steps, NEW status \in {"succeeded", "failed"}
  PROVE  LET u == Ended(t, status)
         IN  /\ u \in TxRecords /\ u.pc = "run" /\ u.batch = t.batch /\ u.roots = t.roots
             /\ u.step = NextStep(t.row.ops, t.step)
             /\ u.row.ops = [t.row.ops EXCEPT ![t.step] = status]
             /\ u.row.summary = t.row.summary /\ u.row.root = t.row.root
<1> DEFINE ops == [t.row.ops EXCEPT ![t.step] = status]
           r == [t.row EXCEPT !.ops = ops]
           next == NextStep(t.row.ops, t.step)
           u == Ended(t, status)
<1>1. ops \in [Steps -> OpStatus]
  BY DEF TxRecords, Rows, OpStatus
<1>2. next \in 1..Last + 1
  <2>1. t.step \in 0..Last /\ t.step \in Nat /\ Last \in Nat
    BY Plan DEF Steps
  <2>2. next \in (t.step + 1)..(Last + 1)
    BY <2>1, NextStepLands
  <2> HIDE DEF next
  <2> QED
    BY <2>1, <2>2
<1>3. u = [t EXCEPT !.pc = "run", !.ts = 0, !.seen = 0, !.row = r, !.step = next]
  BY DEF Ended
<1> HIDE DEF ops, next, u
<1>4. r \in Rows /\ r.ops = ops /\ r.summary = t.row.summary /\ r.root = t.row.root
  BY <1>1 DEF TxRecords, Rows
<1> HIDE DEF r
<1>5. u \in TxRecords
  BY <1>2, <1>3, <1>4 DEF TxRecords
<1>6. u.pc = "run" /\ u.batch = t.batch /\ u.roots = t.roots /\ u.step = next /\ u.row = r
  BY <1>3 DEF TxRecords
<1> QED
  BY <1>4, <1>5, <1>6 DEF u, next, ops

(* Ending an operation keeps a transaction honest, when the row it leaves is sound. *)
LEMMA EndedHonest ==
  ASSUME NEW t \in TxRecords, t.step \in Steps, NEW status \in {"succeeded", "failed"},
         NEW old, NEW m, NEW c, OnCourse(t), Carries(t.row, old),
         \A a \in Assets : t.roots[a] \in 0..Len(m),
         t.step = 1 => status = "succeeded",
         Sound(Ended(t, status).row, t.batch, m, c)
  PROVE  Honest(Ended(t, status), old, m, c)
<1> DEFINE u == Ended(t, status)
           next == NextStep(t.row.ops, t.step)
<1>1. /\ u \in TxRecords /\ u.pc = "run" /\ u.batch = t.batch /\ u.roots = t.roots
      /\ u.step = next /\ u.row.ops = [t.row.ops EXCEPT ![t.step] = status]
      /\ u.row.root = t.row.root
  BY EndedTyped
<1>2. /\ next \in (t.step + 1)..(Last + 1)
      /\ next = Last + 1 \/ t.row.ops[next] # "succeeded"
      /\ \A r \in (t.step + 1)..(next - 1) : t.row.ops[r] = "succeeded"
  <2>1. t.step \in 0..Last
    BY Plan DEF Steps
  <2> QED
    BY <2>1, NextStepLands
<1> HIDE DEF u, next
<1>3. /\ \A s \in Steps : u.row.ops[s] = IF s = t.step THEN status ELSE t.row.ops[s]
      /\ t.step \in 1..Last /\ Last \in Nat /\ Last > 2
  BY <1>1, Plan DEF TxRecords, Rows, Steps
<1>4. Carries(u.row, old)
  BY <1>1, <1>3, PlanDistinct DEF Carries, OnCourse
<1>5. OnCourse(u)
  <2>1. next \in Steps => u.row.ops[next] # "succeeded"
    BY <1>2, <1>3 DEF Steps
  <2>2. u.row.ops[1] = "succeeded"
    BY <1>3 DEF OnCourse, Steps
  <2>3. \A s \in 1..(next - 1) : u.row.ops[s] \in {"succeeded", "failed"}
    <3>1. ASSUME NEW s \in 1..(next - 1) PROVE u.row.ops[s] \in {"succeeded", "failed"}
      <4>1. s \in Steps /\ (s < t.step \/ s = t.step \/ s > t.step)
        BY <1>2, <1>3, <3>1 DEF Steps
      <4>2. CASE s < t.step
        BY <1>3, <4>1, <4>2 DEF OnCourse, Steps
      <4>3. CASE s = t.step
        BY <1>3, <4>1, <4>3
      <4>4. CASE s > t.step
        BY <1>2, <1>3, <3>1, <4>1, <4>4
      <4> QED
        BY <4>1, <4>2, <4>3, <4>4
    <3> QED
      BY <3>1
  <2> QED
    BY <1>1, <1>2, <1>3, <2>1, <2>2, <2>3 DEF OnCourse, Steps
<1>6. u.step # 1
  BY <1>1, <1>2, <1>3
<1> QED
  BY <1>1, <1>4, <1>5, <1>6 DEF Honest, u

(* An operation that fails takes nothing from what has succeeded.           *)
LEMMA FailedHonest ==
  ASSUME NEW t \in TxRecords, t.step \in Steps, t.pc \in {"run", "record"},
         NEW old, NEW m, NEW c, Honest(t, old, m, c)
  PROVE  Failed(t) \in TxRecords /\ Failed(t).pc = "run" /\ Failed(t).batch = t.batch
         /\ Honest(Failed(t), old, m, c)
<1> DEFINE e == Ended(t, "failed")
<1>1. /\ e \in TxRecords /\ e.pc = "run" /\ e.batch = t.batch /\ e.roots = t.roots
      /\ e.row.ops = [t.row.ops EXCEPT ![t.step] = "failed"]
      /\ e.row.summary = t.row.summary /\ e.row.root = t.row.root
  BY EndedTyped
<1>2. \A s \in Steps : e.row.ops[s] = IF s = t.step THEN "failed" ELSE t.row.ops[s]
  BY <1>1 DEF TxRecords, Rows
<1>3. OnCourse(t) /\ t.row.ops[t.step] # "succeeded"
  BY DEF Honest, OnCourse
<1>4. Sound(e.row, t.batch, m, c)
  <2> HIDE DEF e
  <2> QED
    BY <1>1, <1>2, <1>3, PlanDistinct DEF Honest, Sound
<1>5. CASE t.step = 1
  <2>1. KindAt(t.step) = "post_summary"
    BY <1>5, Plan
  <2>2. Failed(t) = [e EXCEPT !.step = Last + 1]
    BY <2>1 DEF Failed
  <2> HIDE DEF e
  <2>3. Failed(t) \in TxRecords /\ Failed(t).pc = "run" /\ Failed(t).batch = t.batch
        /\ Failed(t).step = Last + 1 /\ Failed(t).row = e.row /\ Failed(t).roots = t.roots
    <3>1. Last + 1 \in 1..Last + 1
      BY Plan
    <3> QED
      BY <1>1, <2>2, <3>1 DEF TxRecords
  <2>4. Carries(e.row, old)
    BY <1>1, <1>2, <1>3, PlanDistinct DEF Honest, Carries
  <2>5. OnCourse(Failed(t))
    <3>1. e.row.ops[1] = "failed" /\ Last + 1 \notin Steps /\ Last + 1 \notin 2..Last
      BY <1>2, <1>5, Plan DEF Steps
    <3> QED
      BY <2>3, <3>1 DEF OnCourse
  <2>6. Last + 1 # 1
    BY Plan
  <2> QED
    BY <1>4, <2>3, <2>4, <2>5, <2>6 DEF Honest
<1>6. CASE t.step # 1
  <2>1. Failed(t) = e
    <3>1. KindAt(t.step) # "post_summary"
      BY <1>6, Plan DEF InPlan
    <3> QED
      BY <3>1 DEF Failed
  <2>2. Honest(e, old, m, c)
    BY <1>3, <1>4, <1>6, EndedHonest DEF Honest
  <2> QED
    BY <1>1, <2>1, <2>2
<1> QED
  BY <1>5, <1>6

(* An operation that succeeds, when what it claims is true.                 *)
LEMMA SucceededHonest ==
  ASSUME now \in Nat, lease \in Leases,
         NEW t \in TxRecords, t.batch \in Batches, t.step \in Steps,
         NEW old, NEW m, NEW c, OnCourse(t), Carries(t.row, old),
         \A a \in Assets : t.roots[a] \in 0..Len(m),
         Sound(Ended(t, "succeeded").row, t.batch, m, c)
  PROVE  Succeeded(t) \in TxRecords /\ Succeeded(t).pc = "run" /\ Succeeded(t).batch = t.batch
         /\ Honest(Succeeded(t), old, m, c)
<1> DEFINE e == Ended(t, "succeeded")
<1>1. e \in TxRecords /\ e.pc = "run" /\ e.batch = t.batch
  BY EndedTyped
<1>2. Honest(e, old, m, c)
  BY EndedHonest
<1> HIDE DEF e
<1>3. Renewed(e) \in TxRecords /\ Alike(e, Renewed(e))
  BY <1>1, RenewedAlike
<1>4. Honest(Renewed(e), old, m, c)
  BY <1>2, <1>3, AlikeHonest
<1> QED
  BY <1>1, <1>3, <1>4 DEF Alike, Succeeded, e

-----------------------------------------------------------------------------

(* What a worker does may change, beside its transaction: Slack alone, and  *)
(* on the canvas it takes nothing from what is kept for other batches.      *)
Ahead(b) ==
  /\ UNCHANGED <<now, committed, retries, database>> /\ crashes' \in 0..MaxCrashes
  /\ messages' \in Seq(Messages) /\ Grows(messages, messages')
  /\ canvas' \in Seq(Sections')
  /\ \A c \in Batches \ {b} : Kept(canvas, c) \subseteq Kept(canvas', c)

(* A message is added at the end ...                                        *)
LEMMA AppendGrows ==
  ASSUME NEW m \in Seq(Messages), NEW e \in Messages
  PROVE  /\ Append(m, e) \in Seq(Messages) /\ Len(Append(m, e)) = Len(m) + 1
         /\ Grows(m, Append(m, e)) /\ Append(m, e)[Len(m) + 1] = e
<1>1. Len(m) \in Nat
  BY LenProperties
<1>2. \A i \in 1..Len(m) : Append(m, e)[i] = m[i]
  BY AppendProperties
<1> QED
  BY <1>1, <1>2, AppendProperties DEF Grows

(* ... or shown differently, though never as still being created.           *)
LEMMA ShowGrows ==
  ASSUME NEW m \in Seq(Messages), NEW ts, NEW shown \in Shown, shown # "creating"
  PROVE  LET n == [m EXCEPT ![ts].shown = shown]
         IN  /\ n \in Seq(Messages) /\ Len(n) = Len(m) /\ Grows(m, n)
             /\ ts \in 1..Len(m) => n[ts].shown = shown
<1> DEFINE n == [m EXCEPT ![ts].shown = shown]
<1>1. Len(m) \in Nat /\ DOMAIN m = 1..Len(m) /\ \A i \in 1..Len(m) : m[i] \in Messages
  BY LenProperties
<1>2. CASE ts \in 1..Len(m)
  <2> DEFINE e == [m[ts] EXCEPT !.shown = shown]
  <2>1. e \in Messages /\ e.batch = m[ts].batch /\ e.step = m[ts].step /\ e.shown = shown
    BY <1>1, <1>2 DEF Messages
  <2>2. n = [m EXCEPT ![ts] = e]
    OBVIOUS
  <2> HIDE DEF n, e
  <2>3. /\ n \in Seq(Messages) /\ Len(n) = Len(m)
        /\ \A i \in 1..Len(m) : n[i] = IF i = ts THEN e ELSE m[i]
    BY <1>2, <2>1, <2>2, ExceptSeq
  <2>4. Grows(m, n)
    BY <1>1, <2>1, <2>3 DEF Grows
  <2> QED
    BY <1>2, <2>1, <2>3, <2>4 DEF n
<1>3. CASE ts \notin 1..Len(m)
  <2>1. n = m
    BY <1>1, <1>3
  <2>2. Grows(m, m)
    BY <1>1 DEF Grows
  <2> HIDE DEF n
  <2>3. n \in Seq(Messages) /\ Len(n) = Len(m) /\ Grows(m, n)
    BY <2>1, <2>2
  <2> QED
    BY <1>3, <2>3 DEF n
<1> QED
  BY <1>2, <1>3

(* A sequence over a set is one over a larger set.                          *)
LEMMA SeqWider ==
  ASSUME NEW S, NEW T, S \subseteq T
  PROVE  Seq(S) \subseteq Seq(T)
<1>1. ASSUME NEW s \in Seq(S) PROVE s \in Seq(T)
  <2>1. Len(s) \in Nat /\ s \in [1..Len(s) -> S]
    BY LenProperties
  <2>2. s \in [1..Len(s) -> T]
    BY <2>1
  <2> QED
    BY <2>1, <2>2, SeqDef
<1> QED
  BY <1>1

(* Without a change on the canvas it lists messages all the same.           *)
LEMMA AheadOnChannel ==
  ASSUME TypeOK, NEW b, UNCHANGED <<now, committed, canvas, bounds, database>>,
         messages' \in Seq(Messages), Grows(messages, messages')
  PROVE  Ahead(b)
<1>1. Len(messages) \in Nat /\ Len(messages') \in Nat
  BY LenProperties DEF TypeOK
<1>2. 1..Len(messages) \subseteq 1..Len(messages')
  BY <1>1 DEF Grows
<1>3. Sections \subseteq Sections'
  BY <1>2 DEF Sections
<1>4. canvas' \in Seq(Sections')
  BY <1>3, SeqWider DEF TypeOK
<1> QED
  BY <1>4 DEF Ahead, TypeOK, bounds

LEMMA AheadInPlace ==
  ASSUME TypeOK, NEW b, UNCHANGED <<now, committed, messages, canvas, bounds, database>>
  PROVE  Ahead(b)
<1>1. Grows(messages, messages)
  BY LenProperties DEF TypeOK, Grows
<1> QED
  BY <1>1, AheadOnChannel DEF TypeOK

(* A worker that goes on honestly keeps the invariant, and so does one that *)
(* lets go of its batch and leaves on the canvas what the row speaks of.    *)
LEMMA WorksKeeps ==
  ASSUME ResultInv, RunInv', NEW w \in Workers, Running(w), Ahead(tx[w].batch),
         NEW u \in TxRecords, Becomes(w, u), u.pc # "idle" => u.batch = tx[w].batch,
         Under(u) => Honest(u, row[tx[w].batch], messages', Kept(canvas', tx[w].batch)),
         \A a \in Assets : row[tx[w].batch].ops[IndexStep(a)] = "succeeded" =>
           row[tx[w].batch].root[a] \in Kept(canvas', tx[w].batch)
  PROVE  ResultInv'
<1> DEFINE b == tx[w].batch
<1>1. b \in Batches /\ tx \in [Workers -> TxRecords] /\ tx' = [tx EXCEPT ![w] = u]
  BY DEF ResultInv, TypeOK, Running, Becomes, TxRecords
<1>2. Len(messages) \in Nat /\ Len(messages') \in Nat /\ Len(messages) <= Len(messages')
  BY LenProperties DEF ResultInv, TypeOK, Ahead, Grows
<1>3. tx' \in [Workers -> TxRecords] /\ tx'[w] = u /\ \A v \in Workers \ {w} : tx'[v] = tx[v]
  BY <1>1
<1>4. TypeOK'
  <2>1. latest' \in [Assets -> 0..Len(messages')]
    BY <1>2 DEF ResultInv, TypeOK, Ahead, committed
  <2>2. \A v \in Workers : tx'[v].pc # "idle" => tx'[v].batch \in Batches
    BY <1>1, <1>3 DEF ResultInv, TypeOK
  <2> QED
    BY <1>3, <2>1, <2>2 DEF ResultInv, TypeOK, Ahead, committed, bounds, TxRecords
<1>5. \A c \in Batches : Sound(row[c], c, messages', Kept(canvas', c))
  <2>1. ASSUME NEW c \in Batches
        PROVE  \A a \in Assets : row[c].ops[IndexStep(a)] = "succeeded" => row[c].root[a] \in Kept(canvas', c)
    <3>1. CASE c # b
      BY <3>1 DEF Ahead, ResultInv, Sound
    <3>2. CASE c = b
      BY <3>2
    <3> QED
      BY <3>1, <3>2
  <2> QED
    BY <1>2, <2>1, SoundStays DEF Ahead, ResultInv
<1>6. ASSUME NEW v \in Workers, Running(v)'
      PROVE  Honest(tx'[v], row[tx'[v].batch], messages', Kept(canvas', tx'[v].batch))
  <2>1. CASE v = w
    BY <1>3, <1>6, <2>1 DEF Running, Under
  <2>2. CASE v # w
    <3>1. Running(v) /\ tx'[v] = tx[v] /\ tx[v].batch \in Batches \ {b}
      BY <1>1, <1>3, <1>6, <2>2 DEF Running, ResultInv, RunInv, ExclusiveRun, RowFree, Others
    <3>2. Kept(canvas, tx[v].batch) \subseteq Kept(canvas', tx[v].batch)
      BY <3>1 DEF Ahead
    <3>3. Honest(tx[v], row[tx[v].batch], messages, Kept(canvas, tx[v].batch))
      BY <3>1 DEF ResultInv
    <3>4. \A a \in Assets : tx[v].row.ops[IndexStep(a)] = "succeeded" =>
            tx[v].row.root[a] \in Kept(canvas', tx[v].batch)
      BY <3>2, <3>3 DEF Honest, Sound
    <3>5. Honest(tx[v], row[tx[v].batch], messages', Kept(canvas', tx[v].batch))
      BY <1>2, <3>3, <3>4, HonestStays DEF Ahead
    <3> QED
      BY <3>1, <3>5
  <2> QED
    BY <2>1, <2>2
<1> QED
  BY <1>4, <1>5, <1>6 DEF ResultInv, Confirmed, Ahead, committed

LEMMA GoesOnKeeps ==
  ASSUME ResultInv, RunInv', NEW w \in Workers, Running(w), Ahead(tx[w].batch),
         NEW u \in TxRecords, u.batch = tx[w].batch, Under(u), Becomes(w, u),
         Honest(u, row[u.batch], messages', Kept(canvas', u.batch))
  PROVE  ResultInv'
<1> DEFINE b == tx[w].batch
<1>1. b \in Batches
  BY DEF ResultInv, TypeOK, Running
<1>2. \A a \in Assets : row[b].ops[IndexStep(a)] = "succeeded" =>
        u.row.ops[IndexStep(a)] = "succeeded" /\ u.row.root[a] = row[b].root[a]
  BY <1>1, PlanDistinct DEF Honest, Carries, ResultInv, Sound
<1>3. \A a \in Assets : row[b].ops[IndexStep(a)] = "succeeded" => row[b].root[a] \in Kept(canvas', b)
  BY <1>2 DEF Honest, Sound
<1> QED
  BY <1>3, WorksKeeps

-----------------------------------------------------------------------------

(* What the invariant says of a worker that runs a batch.                   *)
LEMMA AtWork ==
  ASSUME ResultInv, NEW w \in Workers, Running(w)
  PROVE  /\ tx[w] \in TxRecords /\ tx[w].batch \in Batches
         /\ Honest(tx[w], row[tx[w].batch], messages, Kept(canvas, tx[w].batch))
         /\ now \in Nat /\ lease \in Leases /\ messages \in Seq(Messages) /\ Len(messages) \in Nat
<1>1. tx[w] \in TxRecords /\ tx[w].batch \in Batches
  BY DEF ResultInv, TypeOK, Running, TxRecords
<1>2. now \in Nat /\ lease \in Leases /\ messages \in Seq(Messages) /\ Len(messages) \in Nat
  BY BatchAssumption, LenProperties DEF ResultInv, TypeOK
<1> QED
  BY <1>1, <1>2 DEF ResultInv

(* A message is posted for an operation that goes on to record it.          *)
LEMMA PostKeeps ==
  ASSUME ResultInv, RunInv', NEW w \in Workers, Running(w), tx[w].pc = "run", tx[w].step \in Steps,
         UNCHANGED <<now, committed, canvas, bounds, database>>,
         NEW shown \in Shown, Posts(w, shown),
         NEW u \in TxRecords, u.pc = "record", u.ts = Len(messages) + 1,
         u.batch = tx[w].batch, u.step = tx[w].step, u.row = tx[w].row, u.roots = tx[w].roots,
         Becomes(w, u)
  PROVE  ResultInv'
<1> DEFINE t == tx[w]
           e == [batch |-> t.batch, step |-> t.step, shown |-> shown]
<1>1. /\ t.batch \in Batches /\ Honest(t, row[t.batch], messages, Kept(canvas, t.batch))
      /\ messages \in Seq(Messages) /\ Len(messages) \in Nat
  BY AtWork
<1>2. e \in Messages
  BY <1>1 DEF Messages
<1>3. messages' = Append(messages, e)
  BY DEF Posts
<1>4. /\ messages' \in Seq(Messages) /\ Len(messages') = Len(messages) + 1
      /\ Grows(messages, messages') /\ messages'[Len(messages) + 1] = e
  <2> HIDE DEF e
  <2> QED
    BY <1>1, <1>2, <1>3, AppendGrows
<1>5. Honest(t, row[t.batch], messages', Kept(canvas', t.batch))
  <2>1. \A a \in Assets : t.row.ops[IndexStep(a)] = "succeeded" => t.row.root[a] \in Kept(canvas, t.batch)
    BY <1>1 DEF Honest, Sound
  <2>2. Len(messages') \in Nat
    BY <1>1, <1>4
  <2> HIDE DEF t
  <2> QED
    BY <1>1, <1>4, <2>1, <2>2, HonestStays
<1>6. Posted(u.ts, u.batch, u.step, messages')
  BY <1>1, <1>4 DEF Posted
<1>7. Honest(u, row[u.batch], messages', Kept(canvas', u.batch))
  <2>1. OnCourse(u)
    BY <1>1 DEF Honest, OnCourse
  <2> QED
    BY <1>5, <1>6, <2>1 DEF Honest
<1>8. Ahead(tx[w].batch)
  BY <1>4, AheadOnChannel DEF ResultInv
<1> QED
  BY <1>7, <1>8, GoesOnKeeps DEF Under

(* An operation fails, whatever its call has done to Slack.                 *)
LEMMA FailKeeps ==
  ASSUME ResultInv, RunInv', NEW w \in Workers, tx[w].pc \in {"run", "record"}, tx[w].step \in Steps,
         Ahead(tx[w].batch), Becomes(w, Failed(tx[w])),
         \A a \in Assets : tx[w].row.ops[IndexStep(a)] = "succeeded" =>
           tx[w].row.root[a] \in Kept(canvas', tx[w].batch)
  PROVE  ResultInv'
<1> DEFINE t == tx[w]
<1>1. Running(w)
  BY DEF Running
<1>2. t \in TxRecords /\ Honest(t, row[t.batch], messages, Kept(canvas, t.batch)) /\ Len(messages) \in Nat
  BY <1>1, AtWork
<1>3. Honest(t, row[t.batch], messages', Kept(canvas', t.batch))
  <2>1. Len(messages') \in Nat /\ Grows(messages, messages')
    BY LenProperties DEF Ahead
  <2> QED
    BY <1>2, <2>1, HonestStays
<1>4. /\ Failed(t) \in TxRecords /\ Failed(t).pc = "run" /\ Failed(t).batch = t.batch
      /\ Honest(Failed(t), row[t.batch], messages', Kept(canvas', t.batch))
  BY <1>2, <1>3, FailedHonest
<1> QED
  BY <1>1, <1>4, GoesOnKeeps DEF Under

(* The canvas as it is lists what it listed.                                *)
LEMMA FailInPlace ==
  ASSUME ResultInv, RunInv', NEW w \in Workers, tx[w].pc \in {"run", "record"}, tx[w].step \in Steps,
         UNCHANGED <<now, committed, canvas, bounds, database>>,
         messages' \in Seq(Messages), Grows(messages, messages'), Becomes(w, Failed(tx[w]))
  PROVE  ResultInv'
<1>1. Running(w)
  BY DEF Running
<1>2. \A a \in Assets : tx[w].row.ops[IndexStep(a)] = "succeeded" =>
        tx[w].row.root[a] \in Kept(canvas', tx[w].batch)
  BY <1>1, AtWork DEF Honest, Sound
<1>3. Ahead(tx[w].batch)
  BY AheadOnChannel DEF ResultInv
<1> QED
  BY <1>2, <1>3, FailKeeps

(* An operation succeeds, with its results in the row of t.                 *)
LEMMA SucceedKeeps ==
  ASSUME ResultInv, RunInv', NEW w \in Workers, Running(w), Ahead(tx[w].batch),
         NEW t \in TxRecords, t.batch = tx[w].batch, t.step \in Steps, OnCourse(t),
         Carries(t.row, row[t.batch]), \A a \in Assets : t.roots[a] \in 0..Len(messages),
         Sound(Ended(t, "succeeded").row, t.batch, messages', Kept(canvas', t.batch)),
         Becomes(w, Succeeded(t))
  PROVE  ResultInv'
<1>1. now \in Nat /\ lease \in Leases /\ t.batch \in Batches /\ Len(messages) \in Nat
  BY AtWork
<1>2. \A a \in Assets : t.roots[a] \in 0..Len(messages')
  BY <1>1, LenProperties DEF Ahead, Grows
<1>3. /\ Succeeded(t) \in TxRecords /\ Succeeded(t).pc = "run" /\ Succeeded(t).batch = t.batch
      /\ Honest(Succeeded(t), row[t.batch], messages', Kept(canvas', t.batch))
  BY <1>1, <1>2, SucceededHonest
<1> QED
  BY <1>3, GoesOnKeeps DEF Under

-----------------------------------------------------------------------------

(* The row that an operation leaves when it succeeds.                       *)
LEMMA EndedRow ==
  ASSUME NEW t \in TxRecords, t.step \in Steps
  PROVE  LET r == Ended(t, "succeeded").row
         IN  /\ r.summary = t.row.summary /\ r.root = t.row.root
             /\ \A s \in Steps : r.ops[s] = IF s = t.step THEN "succeeded" ELSE t.row.ops[s]
<1> DEFINE r == Ended(t, "succeeded").row
<1>1. /\ r.ops = [t.row.ops EXCEPT ![t.step] = "succeeded"]
      /\ r.summary = t.row.summary /\ r.root = t.row.root
  BY EndedTyped
<1> HIDE DEF r
<1>2. \A s \in Steps : r.ops[s] = IF s = t.step THEN "succeeded" ELSE t.row.ops[s]
  BY <1>1 DEF TxRecords, Rows
<1> QED
  BY <1>1, <1>2 DEF r

(* The summary is posted, and its timestamp recorded.                       *)
LEMMA PostSummaryKeeps ==
  ASSUME ResultInv, RunInv', NEW w \in Workers, PostSummary(w)
  PROVE  ResultInv'
<1> DEFINE t == tx[w]
           new == Len(messages) + 1
           u == [t EXCEPT !.pc = "record", !.ts = new]
<1>1. /\ Running(w) /\ t.pc = "run" /\ t.step \in Steps
      /\ UNCHANGED <<now, committed, canvas, bounds, database>>
  BY DEF PostSummary, At, Running
<1>2. t \in TxRecords /\ messages \in Seq(Messages) /\ Len(messages) \in Nat
  BY <1>1, AtWork
<1>3. ASSUME Posts(w, "creating"), Becomes(w, u)
      PROVE  ResultInv'
  <2>1. u \in TxRecords /\ u.pc = "record" /\ u.ts = new /\ u.batch = t.batch
        /\ u.step = t.step /\ u.row = t.row /\ u.roots = t.roots
    <3>1. new \in Nat
      BY <1>2
    <3> HIDE DEF new
    <3> QED
      BY <1>2, <3>1 DEF TxRecords
  <2> HIDE DEF u
  <2> QED
    BY <1>1, <1>3, <2>1, PostKeeps DEF Shown
<1>4. ASSUME Becomes(w, Failed(t)), UNCHANGED messages
      PROVE  ResultInv'
  <2>1. Grows(messages, messages') /\ messages' \in Seq(Messages)
    BY <1>2, <1>4 DEF Grows
  <2> QED
    BY <1>1, <1>4, <2>1, FailInPlace
<1> QED
  BY <1>3, <1>4 DEF PostSummary

LEMMA RecordSummaryKeeps ==
  ASSUME ResultInv, RunInv', NEW w \in Workers, RecordSummary(w)
  PROVE  ResultInv'
<1> DEFINE t == tx[w]
           u == [t EXCEPT !.row.summary = t.ts]
<1>1. /\ Running(w) /\ t.pc = "record" /\ t.step \in Steps /\ KindAt(t.step) = "post_summary"
      /\ UNCHANGED <<now, committed, messages, canvas, bounds, database>>
  BY DEF RecordSummary, At, Running
<1>2. /\ t \in TxRecords /\ messages \in Seq(Messages) /\ Len(messages) \in Nat
      /\ Honest(t, row[t.batch], messages, Kept(canvas, t.batch))
  BY <1>1, AtWork
<1>3. t.step = 1
  BY <1>1, Plan DEF InPlan
<1>4. CASE Becomes(w, Succeeded(u))
  <2>1. u \in TxRecords /\ u.batch = t.batch /\ u.step = t.step /\ u.roots = t.roots
        /\ u.row.ops = t.row.ops /\ u.row.root = t.row.root /\ u.row.summary = t.ts
    BY <1>2 DEF TxRecords, Rows
  <2> HIDE DEF u
  <2>2. OnCourse(u) /\ Carries(u.row, row[u.batch])
    BY <1>1, <1>2, <2>1 DEF Honest, OnCourse, Carries
  <2>3. Sound(Ended(u, "succeeded").row, u.batch, messages, Kept(canvas, u.batch))
    <3> DEFINE r == Ended(u, "succeeded").row
    <3>1. /\ r.summary = t.ts /\ r.root = t.row.root
          /\ \A s \in Steps : r.ops[s] = IF s = 1 THEN "succeeded" ELSE t.row.ops[s]
      BY <1>1, <1>3, <2>1, EndedRow
    <3>2. Posted(t.ts, t.batch, 1, messages) /\ t.row.ops[1] # "succeeded"
      BY <1>1, <1>2, <1>3 DEF Honest, OnCourse
    <3> HIDE DEF r
    <3>3. Sound(r, t.batch, messages, Kept(canvas, t.batch))
      BY <1>2, <3>1, <3>2, PlanDistinct DEF Honest, Sound
    <3> QED
      BY <2>1, <3>3 DEF r
  <2>4. Ahead(t.batch)
    BY <1>1, AheadInPlace DEF ResultInv
  <2> QED
    BY <1>1, <1>2, <1>4, <2>1, <2>2, <2>3, <2>4, SucceedKeeps DEF Honest
<1>5. CASE Becomes(w, Failed(t))
  <2>1. Grows(messages, messages') /\ messages' \in Seq(Messages)
    BY <1>1, <1>2 DEF Grows
  <2> QED
    BY <1>1, <1>5, <2>1, FailInPlace
<1> QED
  BY <1>4, <1>5 DEF RecordSummary

(* A root is posted, and recorded with the root that was latest before it.  *)
LEMMA PostAssetKeeps ==
  ASSUME ResultInv, RunInv', NEW w \in Workers, PostAsset(w)
  PROVE  ResultInv'
<1> DEFINE t == tx[w]
           a == AssetAt(t.step)
           new == Len(messages) + 1
           u == [t EXCEPT !.pc = "record", !.ts = new, !.seen = latest[a]]
<1>1. /\ Running(w) /\ t.pc = "run" /\ t.step \in Steps /\ KindAt(t.step) = "post_asset"
      /\ UNCHANGED <<now, committed, canvas, bounds, database>>
  BY DEF PostAsset, At, Running
<1>2. t \in TxRecords /\ messages \in Seq(Messages) /\ Len(messages) \in Nat
  BY <1>1, AtWork
<1>3. ASSUME Posts(w, "latest"), Becomes(w, u)
      PROVE  ResultInv'
  <2>1. a \in Assets
    BY <1>1, Plan DEF InPlan
  <2>2. latest[a] \in Nat
    BY <1>2, <2>1 DEF ResultInv, TypeOK
  <2>3. u \in TxRecords /\ u.pc = "record" /\ u.ts = new /\ u.batch = t.batch
        /\ u.step = t.step /\ u.row = t.row /\ u.roots = t.roots
    <3>1. new \in Nat
      BY <1>2
    <3> HIDE DEF new, a
    <3> QED
      BY <1>2, <2>2, <3>1 DEF TxRecords
  <2> HIDE DEF u
  <2> QED
    BY <1>1, <1>3, <2>3, PostKeeps DEF Shown
<1>4. ASSUME Becomes(w, Failed(t)), UNCHANGED messages
      PROVE  ResultInv'
  <2>1. Grows(messages, messages') /\ messages' \in Seq(Messages)
    BY <1>2, <1>4 DEF Grows
  <2> QED
    BY <1>1, <1>4, <2>1, FailInPlace
<1> QED
  BY <1>3, <1>4 DEF PostAsset

LEMMA RecordAssetKeeps ==
  ASSUME ResultInv, RunInv', NEW w \in Workers, RecordAsset(w)
  PROVE  ResultInv'
<1> DEFINE t == tx[w]
           a == AssetAt(t.step)
           u == [t EXCEPT !.roots[a] = t.ts, !.row.root[a] = t.ts, !.row.prior[a] = t.seen]
<1>1. /\ Running(w) /\ t.pc = "record" /\ t.step \in Steps /\ KindAt(t.step) = "post_asset"
      /\ UNCHANGED <<now, committed, messages, canvas, bounds, database>>
  BY DEF RecordAsset, At, Running
<1>2. /\ t \in TxRecords /\ messages \in Seq(Messages) /\ Len(messages) \in Nat
      /\ Honest(t, row[t.batch], messages, Kept(canvas, t.batch))
  BY <1>1, AtWork
<1>3. a \in Assets /\ PostStep(a) = t.step
  BY <1>1, Plan DEF InPlan
<1>4. Posted(t.ts, t.batch, t.step, messages) /\ t.row.ops[t.step] # "succeeded" /\ t.ts \in 0..Len(messages)
  BY <1>1, <1>2 DEF Honest, OnCourse, Posted
<1>5. Becomes(w, Succeeded(u)) \/ Becomes(w, Failed(t))
  BY DEF RecordAsset
<1>6. CASE Becomes(w, Succeeded(u))
  <2> DEFINE root == [t.row.root EXCEPT ![a] = t.ts]
             prior == [t.row.prior EXCEPT ![a] = t.seen]
             roots == [t.roots EXCEPT ![a] = t.ts]
             new == [t.row EXCEPT !.root = root, !.prior = prior]
  <2>1. u = [t EXCEPT !.roots = roots, !.row = new]
    BY <1>2 DEF TxRecords, Rows
  <2>2. root \in [Assets -> Nat] /\ prior \in [Assets -> Nat] /\ roots \in [Assets -> Nat]
    BY <1>2 DEF TxRecords, Rows
  <2>3. /\ \A c \in Assets : root[c] = IF c = a THEN t.ts ELSE t.row.root[c]
        /\ \A c \in Assets : roots[c] = IF c = a THEN t.ts ELSE t.roots[c]
    BY <1>2 DEF TxRecords, Rows
  <2> HIDE DEF a, u, root, prior, roots
  <2>4. new \in Rows /\ new.ops = t.row.ops /\ new.summary = t.row.summary /\ new.root = root
    BY <1>2, <2>2 DEF TxRecords, Rows
  <2> HIDE DEF new
  <2>5. u \in TxRecords /\ u.batch = t.batch /\ u.step = t.step /\ u.roots = roots /\ u.row = new
    BY <1>2, <2>1, <2>2, <2>4 DEF TxRecords
  <2>6. OnCourse(u)
    BY <1>1, <1>2, <2>4, <2>5 DEF Honest, OnCourse
  <2>7. Carries(u.row, row[u.batch])
    BY <1>2, <1>3, <1>4, <2>3, <2>4, <2>5, PlanDistinct DEF Honest, Carries
  <2>8. \A c \in Assets : u.roots[c] \in 0..Len(messages)
    BY <1>2, <1>4, <2>3, <2>5 DEF Honest
  <2>9. Sound(Ended(u, "succeeded").row, u.batch, messages, Kept(canvas, u.batch))
    <3> DEFINE r == Ended(u, "succeeded").row
    <3>1. /\ r.summary = t.row.summary /\ r.root = root
          /\ \A s \in Steps : r.ops[s] = IF s = t.step THEN "succeeded" ELSE t.row.ops[s]
      BY <1>1, <2>4, <2>5, EndedRow
    <3> HIDE DEF r
    <3>2. Sound(r, t.batch, messages, Kept(canvas, t.batch))
      BY <1>2, <1>3, <1>4, <2>3, <3>1, PlanDistinct DEF Honest, Sound
    <3> QED
      BY <2>5, <3>2 DEF r
  <2>10. Ahead(t.batch)
    BY <1>1, AheadInPlace DEF ResultInv
  <2> QED
    BY <1>1, <1>6, <2>5, <2>6, <2>7, <2>8, <2>9, <2>10, SucceedKeeps
<1>7. CASE Becomes(w, Failed(t))
  <2>1. Grows(messages, messages') /\ messages' \in Seq(Messages)
    BY <1>1, <1>2 DEF Grows
  <2> QED
    BY <1>1, <1>7, <2>1, FailInPlace
<1> QED
  BY <1>5, <1>6, <1>7

(* Indexing takes nothing from what is kept for the others, and lists every *)
(* root of its batch that has been posted.                                  *)
LEMMA IndexesKept ==
  ASSUME TypeOK, NEW t \in TxRecords, t.batch \in Batches, Indexes(t),
         IndexedRoots(t) \subseteq 1..Len(messages)
  PROVE  /\ canvas' \in Seq(Sections)
         /\ \A c \in Batches \ {t.batch} : Kept(canvas, c) \subseteq Kept(canvas', c)
         /\ \A a \in Assets : t.row.ops[PostStep(a)] = "succeeded" =>
              t.row.root[a] \in Kept(canvas', t.batch)
<1> DEFINE b == t.batch
           section == [group |-> b, roots |-> IndexedRoots(t)]
<1>1. section \in Sections /\ section.group = b /\ section.roots = IndexedRoots(t)
  <2> DEFINE roots == IndexedRoots(t)
  <2> HIDE DEF roots
  <2>1. roots \in SUBSET (1..Len(messages))
    BY DEF roots
  <2> QED
    BY <2>1 DEF Sections, roots
<1>2. /\ Len(canvas) \in Nat /\ DOMAIN canvas = 1..Len(canvas) /\ canvas \in Seq(Sections)
      /\ \A i \in DOMAIN canvas : canvas[i] \in Sections
  BY LenProperties DEF TypeOK
<1>3. \/ \E i \in DOMAIN canvas : canvas[i].group \in Containing[b] /\ canvas' = [canvas EXCEPT ![i] = section]
      \/ canvas' = Append(canvas, section)
  BY DEF Indexes
<1> HIDE DEF section
<1>4. /\ canvas' \in Seq(Sections) /\ DOMAIN canvas \subseteq DOMAIN canvas'
      /\ \E i \in DOMAIN canvas' : canvas'[i] = section
      /\ \A i \in DOMAIN canvas : canvas'[i] = canvas[i] \/ canvas[i].group \in Containing[b]
  <2>1. ASSUME NEW i \in DOMAIN canvas, canvas[i].group \in Containing[b],
               canvas' = [canvas EXCEPT ![i] = section]
        PROVE  <1>4!1
    <3>1. canvas' \in Seq(Sections) /\ \A j \in 1..Len(canvas) : canvas'[j] = IF j = i THEN section ELSE canvas[j]
      BY <1>1, <1>2, <2>1, ExceptSeq
    <3>2. DOMAIN canvas' = DOMAIN canvas
      BY <2>1
    <3> QED
      BY <1>2, <2>1, <3>1, <3>2
  <2>2. CASE canvas' = Append(canvas, section)
    <3>1. /\ canvas' \in Seq(Sections) /\ Len(canvas') = Len(canvas) + 1 /\ canvas'[Len(canvas) + 1] = section
          /\ \A j \in 1..Len(canvas) : canvas'[j] = canvas[j]
      BY <1>1, <1>2, <2>2, AppendProperties
    <3>2. DOMAIN canvas' = 1..Len(canvas) + 1
      BY <3>1, LenProperties
    <3> QED
      BY <1>2, <3>1, <3>2
  <2> QED
    BY <1>3, <2>1, <2>2
<1>5. ASSUME NEW c \in Batches \ {b} PROVE Kept(canvas, c) \subseteq Kept(canvas', c)
  BY <1>1, <1>4, <1>5 DEF Kept, Apart
<1>6. ASSUME NEW a \in Assets, t.row.ops[PostStep(a)] = "succeeded"
      PROVE  t.row.root[a] \in Kept(canvas', b)
  <2>1. t.row.root[a] \in IndexedRoots(t) /\ t.row.root[a] \in Nat
    BY <1>6 DEF IndexedRoots, TxRecords, Rows
  <2> QED
    BY <1>1, <1>4, <2>1 DEF Kept
<1> QED
  BY <1>4, <1>5, <1>6

(* The section of the group is written with the roots posted so far, which  *)
(* are among the messages and include every root it listed before.          *)
LEMMA IndexAssetKeeps ==
  ASSUME ResultInv, RunInv', NEW w \in Workers, IndexAsset(w)
  PROVE  ResultInv'
<1> DEFINE t == tx[w]
           b == t.batch
<1>1. /\ Running(w) /\ t.pc = "run" /\ t.step \in Steps /\ KindAt(t.step) = "index_asset"
      /\ UNCHANGED <<now, committed, messages, bounds, database>>
  BY DEF IndexAsset, At, Running
<1>2. /\ t \in TxRecords /\ b \in Batches /\ messages \in Seq(Messages) /\ Len(messages) \in Nat
      /\ Honest(t, row[b], messages, Kept(canvas, b)) /\ now \in Nat /\ lease \in Leases
  BY <1>1, AtWork
<1>3. AssetAt(t.step) \in Assets /\ IndexStep(AssetAt(t.step)) = t.step
  BY <1>1, Plan, PlanDistinct DEF InPlan
<1>4. CASE UNCHANGED canvas /\ Becomes(w, Failed(t))
  <2>1. Grows(messages, messages') /\ messages' \in Seq(Messages)
    BY <1>1, <1>2 DEF Grows
  <2> QED
    BY <1>1, <1>4, <2>1, FailInPlace
<1>5. CASE /\ PostSucceeded(t)
           /\ Indexes(t)
           /\ \/ \E u \in MayTell(Ended(t, "succeeded")) : Becomes(w, Renewed(u))
              \/ Becomes(w, Failed(t))
  <2>1. IndexedRoots(t) \subseteq 1..Len(messages)
    BY <1>2 DEF IndexedRoots, Honest, Sound, Posted
  <2>3. /\ canvas' \in Seq(Sections)
        /\ \A c \in Batches \ {b} : Kept(canvas, c) \subseteq Kept(canvas', c)
        /\ \A a \in Assets : t.row.ops[PostStep(a)] = "succeeded" => t.row.root[a] \in Kept(canvas', b)
    BY <1>2, <1>5, <2>1, IndexesKept DEF ResultInv
  <2>2. Ahead(b)
    <3>1. Grows(messages, messages) /\ Sections' = Sections
      BY <1>1, <1>2 DEF Grows, Sections
    <3> QED
      BY <1>1, <1>2, <2>3, <3>1 DEF Ahead, bounds, ResultInv, TypeOK
  <2>4. ASSUME Becomes(w, Failed(t)) PROVE ResultInv'
    <3>1. \A a \in Assets : t.row.ops[IndexStep(a)] = "succeeded" => t.row.root[a] \in Kept(canvas', b)
      BY <1>2, <2>3 DEF Honest, Sound
    <3> QED
      BY <1>1, <2>2, <2>4, <3>1, FailKeeps
  <2>5. ASSUME NEW u \in MayTell(Ended(t, "succeeded")), Becomes(w, Renewed(u)) PROVE ResultInv'
    <3> DEFINE e == Ended(t, "succeeded")
    <3>1. e \in TxRecords /\ e.pc = "run" /\ e.batch = b
      BY <1>1, <1>2, EndedTyped
    <3>2. Sound(e.row, b, messages, Kept(canvas', b))
      <4>1. /\ e.row.summary = t.row.summary /\ e.row.root = t.row.root
            /\ \A s \in Steps : e.row.ops[s] = IF s = t.step THEN "succeeded" ELSE t.row.ops[s]
        BY <1>1, <1>2, EndedRow
      <4>2. t.row.ops[PostStep(AssetAt(t.step))] = "succeeded"
        BY <1>5 DEF PostSucceeded
      <4> HIDE DEF e
      <4> QED
        BY <1>2, <1>3, <2>3, <4>1, <4>2, PlanDistinct DEF Honest, Sound
    <3>3. Honest(e, row[b], messages, Kept(canvas', b))
      BY <1>1, <1>2, <3>2, EndedHonest, PlanDistinct, <1>3 DEF Honest
    <3> HIDE DEF e
    <3>4. u \in TxRecords /\ Alike(e, u)
      BY <2>5, <3>1, ToldAlike DEF e
    <3>5. u.batch = b /\ u.pc = "run"
      BY <3>1, <3>4 DEF Alike
    <3>6. Renewed(u) \in TxRecords /\ Alike(u, Renewed(u))
      BY <1>2, <3>4, <3>5, RenewedAlike
    <3>7. Honest(u, row[b], messages, Kept(canvas', b))
      BY <3>3, <3>4, AlikeHonest
    <3>8. Honest(Renewed(u), row[b], messages, Kept(canvas', b))
      BY <3>6, <3>7, AlikeHonest
    <3> DEFINE v == Renewed(u)
    <3>9. v \in TxRecords /\ v.batch = b /\ v.pc = "run"
      BY <3>5, <3>6 DEF Alike
    <3> HIDE DEF v
    <3> QED
      BY <1>1, <2>2, <2>5, <3>8, <3>9, GoesOnKeeps DEF Under, v
  <2> QED
    BY <1>5, <2>4, <2>5
<1> QED
  BY <1>4, <1>5 DEF IndexAsset

(* The mirror and the retirement say nothing about roots and summary.       *)
LEMMA AsideKeeps ==
  ASSUME ResultInv, RunInv', NEW w \in Workers, tx[w].pc = "run", tx[w].step \in Steps,
         KindAt(tx[w].step) \in {"index_primary_asset", "retire_prior_latest"},
         UNCHANGED <<now, committed, canvas, bounds, database>>,
         messages' \in Seq(Messages), Grows(messages, messages'),
         Becomes(w, Succeeded(tx[w])) \/ Becomes(w, Failed(tx[w]))
  PROVE  ResultInv'
<1> DEFINE t == tx[w]
           r == Ended(t, "succeeded").row
<1>1. Running(w)
  BY DEF Running
<1>2. /\ t \in TxRecords /\ Honest(t, row[t.batch], messages, Kept(canvas, t.batch))
      /\ Len(messages) \in Nat /\ Len(messages') \in Nat
  BY <1>1, AtWork, LenProperties
<1>3. t.step \notin {1, Last} /\ \A a \in Assets : t.step # PostStep(a) /\ t.step # IndexStep(a)
  BY Plan DEF InPlan
<1>4. CASE Becomes(w, Succeeded(t))
  <2>1. /\ r.summary = t.row.summary /\ r.root = t.row.root
        /\ \A s \in Steps : r.ops[s] = IF s = t.step THEN "succeeded" ELSE t.row.ops[s]
    BY <1>2, EndedRow
  <2> HIDE DEF r
  <2>2. Sound(r, t.batch, messages, Kept(canvas, t.batch))
    BY <1>2, <1>3, <2>1, PlanDistinct DEF Honest, Sound
  <2>3. \A a \in Assets : r.ops[IndexStep(a)] = "succeeded" => r.root[a] \in Kept(canvas, t.batch)
    BY <2>2 DEF Sound
  <2>4. Sound(r, t.batch, messages', Kept(canvas', t.batch))
    BY <1>2, <2>2, <2>3, SoundStays
  <2>5. Ahead(t.batch)
    BY AheadOnChannel DEF ResultInv
  <2> QED
    BY <1>1, <1>2, <1>4, <2>4, <2>5, SucceedKeeps DEF Honest, r
<1>5. CASE Becomes(w, Failed(t))
  BY <1>5, FailInPlace
<1> QED
  BY <1>4, <1>5

LEMMA RetirePriorLatestKeeps ==
  ASSUME ResultInv, RunInv', NEW w \in Workers, RetirePriorLatest(w)
  PROVE  ResultInv'
<1> DEFINE prior == tx[w].row.prior[AssetAt(tx[w].step)]
<1>1. /\ Running(w) /\ tx[w].pc = "run" /\ tx[w].step \in Steps
      /\ KindAt(tx[w].step) = "retire_prior_latest"
      /\ UNCHANGED <<now, committed, canvas, bounds, database>>
      /\ Becomes(w, Succeeded(tx[w])) \/ Becomes(w, Failed(tx[w]))
      /\ messages' = messages \/ messages' = [messages EXCEPT ![prior].shown = "root"]
  BY DEF RetirePriorLatest, At, Running
<1>2. messages \in Seq(Messages) /\ Len(messages) \in Nat
  BY <1>1, AtWork
<1> HIDE DEF prior
<1>3. messages' \in Seq(Messages) /\ Grows(messages, messages')
  <2>1. Grows(messages, messages)
    BY <1>2 DEF Grows
  <2>2. CASE messages' = messages
    BY <1>2, <2>1, <2>2
  <2>3. CASE messages' = [messages EXCEPT ![prior].shown = "root"]
    <3>1. "root" \in Shown /\ "root" # "creating"
      BY DEF Shown
    <3> QED
      BY <1>2, <2>3, <3>1, ShowGrows
  <2> QED
    BY <1>1, <2>2, <2>3
<1> QED
  BY <1>1, <1>3, AsideKeeps

(* The summary, which has been posted, is no longer "creating".             *)
LEMMA FinalizeSummaryKeeps ==
  ASSUME ResultInv, RunInv', NEW w \in Workers, FinalizeSummary(w)
  PROVE  ResultInv'
<1> DEFINE t == tx[w]
           r == Ended(t, "succeeded").row
<1>1. /\ Running(w) /\ t.pc = "run" /\ t.step \in Steps /\ KindAt(t.step) = "finalize_summary"
      /\ UNCHANGED <<now, committed, canvas, bounds, database>>
  BY DEF FinalizeSummary, At, Running
<1>2. /\ t \in TxRecords /\ messages \in Seq(Messages) /\ Len(messages) \in Nat
      /\ Honest(t, row[t.batch], messages, Kept(canvas, t.batch))
  BY <1>1, AtWork
<1>3. t.step = Last
  BY <1>1, Plan DEF InPlan
<1>4. CASE messages' = messages /\ Becomes(w, Failed(t))
  <2>1. Grows(messages, messages')
    BY <1>2, <1>4 DEF Grows
  <2> QED
    BY <1>1, <1>2, <1>4, <2>1, FailInPlace
<1>5. ASSUME NEW outcome \in {"partial", "complete"},
             messages' = [messages EXCEPT ![t.row.summary].shown = outcome],
             Becomes(w, Succeeded(t)) \/ Becomes(w, Failed(t))
      PROVE  ResultInv'
  <2> DEFINE ts == t.row.summary
  <2>1. /\ messages' \in Seq(Messages) /\ Grows(messages, messages') /\ Len(messages') = Len(messages)
        /\ ts \in 1..Len(messages) => messages'[ts].shown = outcome
    <3>1. outcome \in Shown /\ outcome # "creating"
      BY <1>5 DEF Shown
    <3> HIDE DEF ts
    <3> QED
      BY <1>2, <1>5, <3>1, ShowGrows DEF ts
  <2>2. CASE Becomes(w, Failed(t))
    BY <1>1, <2>1, <2>2, FailInPlace
  <2>3. CASE Becomes(w, Succeeded(t))
    <3>1. /\ r.summary = ts /\ r.root = t.row.root
          /\ \A s \in Steps : r.ops[s] = IF s = Last THEN "succeeded" ELSE t.row.ops[s]
      BY <1>1, <1>2, <1>3, EndedRow
    <3>2. Sound(t.row, t.batch, messages', Kept(canvas', t.batch))
      <4>1. \A a \in Assets : t.row.ops[IndexStep(a)] = "succeeded" => t.row.root[a] \in Kept(canvas, t.batch)
        BY <1>2 DEF Honest, Sound
      <4> QED
        BY <1>1, <1>2, <2>1, <4>1, SoundStays DEF Honest
    <3>3. t.row.ops[1] = "succeeded"
      BY <1>1, <1>2, <1>3, Plan DEF Honest, OnCourse, Steps
    <3>4. messages'[ts].shown # "creating"
      BY <1>2, <1>5, <2>1, <3>3 DEF Honest, Sound, Posted
    <3> HIDE DEF r
    <3>5. Sound(r, t.batch, messages', Kept(canvas', t.batch))
      BY <3>1, <3>2, <3>3, <3>4, PlanDistinct DEF Sound
    <3>6. Ahead(t.batch)
      BY <1>1, <2>1, AheadOnChannel DEF ResultInv
    <3> QED
      BY <1>1, <1>2, <2>3, <3>5, <3>6, SucceedKeeps DEF Honest, r
  <2> QED
    BY <1>5, <2>2, <2>3
<1> QED
  BY <1>4, <1>5 DEF FinalizeSummary

(* One step per operation of a batch.                                       *)
LEMMA OperationKeepsResults ==
  ASSUME ResultInv, RunInv', NEW w \in Workers, Operation(w)
  PROVE  ResultInv'
<1>1. CASE IndexPrimaryAsset(w)
  <2>1. Running(w)
    BY <1>1 DEF IndexPrimaryAsset, At, Running
  <2>2. Grows(messages, messages) /\ messages \in Seq(Messages)
    BY <2>1, AtWork DEF Grows
  <2> QED
    BY <1>1, <2>2, AsideKeeps DEF IndexPrimaryAsset, At
<1> QED
  BY <1>1, PostSummaryKeeps, RecordSummaryKeeps, PostAssetKeeps, RecordAssetKeeps,
     IndexAssetKeeps, RetirePriorLatestKeeps, FinalizeSummaryKeeps DEF Operation

-----------------------------------------------------------------------------

(* A worker takes up a batch, begins with it, or lets go of it.             *)
LEMMA TakesKeeps ==
  ASSUME ResultInv, RunInv', NEW w \in Workers, NEW t \in TxRecords, Becomes(w, t),
         t.pc # "idle" => t.batch \in Batches,
         UNCHANGED <<now, committed, messages, canvas, database>>,
         crashes' \in 0..MaxCrashes, retries' \in 0..MaxRetries,
         Under(t) => Honest(t, row[t.batch], messages, Kept(canvas, t.batch))
  PROVE  ResultInv'
<1>1. tx \in [Workers -> TxRecords] /\ tx' = [tx EXCEPT ![w] = t]
  BY DEF ResultInv, TypeOK, Becomes, TxRecords
<1>2. tx' \in [Workers -> TxRecords] /\ tx'[w] = t /\ \A v \in Workers \ {w} : tx'[v] = tx[v]
  BY <1>1
<1>3. TypeOK'
  <2>1. \A v \in Workers : tx'[v].pc # "idle" => tx'[v].batch \in Batches
    BY <1>2 DEF ResultInv, TypeOK
  <2> QED
    BY <1>2, <2>1 DEF ResultInv, TypeOK, committed, TxRecords, Sections
<1>4. ASSUME NEW v \in Workers, Running(v)'
      PROVE  Honest(tx'[v], row[tx'[v].batch], messages, Kept(canvas, tx'[v].batch))
  BY <1>2, <1>4 DEF ResultInv, Running, Under
<1> QED
  BY <1>3, <1>4 DEF ResultInv, Confirmed, committed

LEMMA NoTxTyped == NoTx \in TxRecords /\ Blank \in Rows
<1>1. Blank \in Rows
  BY DEF Blank, Rows, BatchStatus, OpStatus, Tokens
<1>2. 1 \in 1..Last + 1
  BY Plan
<1> QED
  BY <1>1, <1>2 DEF NoTx, TxRecords, Tokens, Leases

(* A batch is taken up with the row as it was committed.                    *)
LEMMA BegunHonest ==
  ASSUME ResultInv, NEW b \in Batches
  PROVE  /\ Begun(b) \in TxRecords /\ Begun(b).batch = b
         /\ Honest(Begun(b), row[b], messages, Kept(canvas, b))
<1> DEFINE r == [row[b] EXCEPT !.status = "running"]
           t == Begun(b)
<1>1. row[b] \in Rows /\ row[b].token \in Tokens /\ Len(messages) \in Nat
  BY LenProperties DEF ResultInv, TypeOK, Rows
<1>2. /\ r \in Rows /\ r.ops = row[b].ops /\ r.summary = row[b].summary /\ r.root = row[b].root
  BY <1>1 DEF Rows, BatchStatus
<1>3. t = [NoTx EXCEPT !.pc = "start", !.batch = b, !.mine = row[b].token, !.row = r]
  BY DEF Begun
<1> HIDE DEF r, t
<1>4. t \in TxRecords /\ t.pc = "start" /\ t.batch = b /\ t.row = r /\ t.roots = NoTx.roots
  BY <1>1, <1>2, <1>3, NoTxTyped DEF TxRecords
<1>5. \A a \in Assets : t.roots[a] = 0
  BY <1>4 DEF NoTx
<1>6. Sound(r, b, messages, Kept(canvas, b)) /\ Carries(r, row[b])
  BY <1>2 DEF ResultInv, Sound, Carries
<1> QED
  BY <1>1, <1>4, <1>5, <1>6 DEF Honest, t

(* The run begins with the first operation that has not succeeded.          *)
LEMMA StartKeepsResults ==
  ASSUME ResultInv, RunInv', NEW w \in Workers, Start(w)
  PROVE  ResultInv'
<1> DEFINE b == tx[w].batch
<1>1. Running(w) /\ tx[w].pc = "start" /\ UNCHANGED <<now, committed, messages, canvas, bounds, database>>
  BY DEF Start, Running
<1>2. /\ tx[w] \in TxRecords /\ b \in Batches /\ now \in Nat /\ lease \in Leases
      /\ Honest(tx[w], row[b], messages, Kept(canvas, b))
  BY <1>1, AtWork
<1>3. PICK t \in MayTell(Renewed(tx[w])) :
        Becomes(w, [t EXCEPT !.pc = "run", !.step = NextStep(t.row.ops, 0)])
  BY DEF Start
<1>4. /\ t \in TxRecords /\ t.batch = b /\ t.pc = "start" /\ Honest(t, row[b], messages, Kept(canvas, b))
  <2>1. Renewed(tx[w]) \in TxRecords /\ Alike(tx[w], Renewed(tx[w]))
    BY <1>2, RenewedAlike
  <2>2. t \in TxRecords /\ Alike(Renewed(tx[w]), t)
    BY <2>1, ToldAlike
  <2>3. Honest(t, row[b], messages, Kept(canvas, b))
    BY <1>2, <2>1, <2>2, AlikeHonest
  <2> QED
    BY <1>1, <2>1, <2>2, <2>3 DEF Alike
<1> DEFINE next == NextStep(t.row.ops, 0)
           u == [t EXCEPT !.pc = "run", !.step = next]
<1>5. /\ next \in 1..Last + 1
      /\ next = Last + 1 \/ t.row.ops[next] # "succeeded"
      /\ \A r \in 1..(next - 1) : t.row.ops[r] = "succeeded"
  <2>1. 0 \in 0..Last
    BY Plan
  <2> QED
    BY <2>1, NextStepLands
<1> HIDE DEF next
<1>6. u \in TxRecords /\ u.pc = "run" /\ u.step = next /\ u.batch = b /\ u.row = t.row /\ u.roots = t.roots
  BY <1>4, <1>5 DEF TxRecords
<1> HIDE DEF u
<1>7. OnCourse(u)
  BY <1>5, <1>6, Plan DEF OnCourse, Steps
<1>8. Honest(u, row[b], messages, Kept(canvas, b))
  BY <1>4, <1>6, <1>7 DEF Honest
<1>9. Becomes(w, u)
  BY <1>3 DEF u, next
<1>10. Ahead(b)
  BY <1>1, AheadInPlace DEF ResultInv
<1> QED
  BY <1>1, <1>6, <1>8, <1>9, <1>10, GoesOnKeeps DEF Under

(* What a run commits: a batch has succeeded when no operation failed, and  *)
(* then all of them have.                                                   *)
LEMMA FinalStatus ==
  ASSUME ResultInv, NEW w \in Workers, tx[w].pc = "run", tx[w].step = Last + 1
  PROVE  (~\E s \in Steps : tx[w].row.ops[s] = "failed") <=>
           \A s \in Steps : tx[w].row.ops[s] = "succeeded"
<1>1. Honest(tx[w], row[tx[w].batch], messages, Kept(canvas, tx[w].batch))
  BY AtWork DEF Running
<1>2. OnCourse(tx[w])
  BY <1>1 DEF Honest
<1> QED
  BY <1>2, PlanDistinct DEF OnCourse

LEMMA FinishKeepsResults ==
  ASSUME ResultInv, RunInv', NEW w \in Workers, Finish(w)
  PROVE  ResultInv'
<1> DEFINE b == tx[w].batch
           final == IF \E s \in Steps : tx[w].row.ops[s] = "failed" THEN "failed" ELSE "succeeded"
<1>1. /\ Running(w) /\ tx[w].pc = "run" /\ tx[w].step = Last + 1
      /\ UNCHANGED <<now, messages, canvas, bounds, database>>
  BY DEF Finish, Running
<1>2. /\ tx[w] \in TxRecords /\ b \in Batches /\ Len(messages) \in Nat
      /\ Honest(tx[w], row[b], messages, Kept(canvas, b))
  BY <1>1, AtWork
<1>3. PICK t \in MayTell(tx[w]) : row' = [row EXCEPT ![b] = [t.row EXCEPT !.status = final]]
  BY DEF Finish
<1>4. t \in TxRecords /\ Alike(tx[w], t)
  BY <1>2, ToldAlike
<1> DEFINE r == [t.row EXCEPT !.status = final]
<1>5. /\ r \in Rows /\ r.status = final /\ final \in {"failed", "succeeded"}
      /\ r.ops = tx[w].row.ops /\ r.summary = tx[w].row.summary /\ r.root = tx[w].row.root
  <2>1. final \in {"failed", "succeeded"}
    OBVIOUS
  <2> HIDE DEF final
  <2> QED
    BY <1>4, <2>1 DEF TxRecords, Rows, Alike, BatchStatus
<1>6. r.status = "succeeded" <=> \A s \in Steps : r.ops[s] = "succeeded"
  BY <1>1, <1>5, FinalStatus
<1> HIDE DEF r, final
<1>7. /\ row \in [Batches -> Rows] /\ row' = [row EXCEPT ![b] = r]
  BY <1>3 DEF ResultInv, TypeOK, r, final
<1>8. row' \in [Batches -> Rows] /\ row'[b] = r /\ \A c \in Batches \ {b} : row'[c] = row[c]
  BY <1>2, <1>5, <1>7
<1>9. tx \in [Workers -> TxRecords] /\ tx' = [tx EXCEPT ![w] = NoTx]
  BY DEF ResultInv, TypeOK, TxRecords, Finish, Becomes
<1>10. tx' \in [Workers -> TxRecords] /\ tx'[w] = NoTx /\ \A v \in Workers \ {w} : tx'[v] = tx[v]
  BY <1>9, NoTxTyped
<1>11. NoTx.pc = "idle"
  BY DEF NoTx
<1>12. TypeOK'
  <2>1. lease' \in Leases
    BY <1>2 DEF Finish, LeaseIn, TxRecords, Leases, ResultInv, TypeOK
  <2>2. latest' \in [Assets -> 0..Len(messages)]
    <3>1. \A a \in Assets : tx[w].roots[a] \in 0..Len(messages) /\ latest[a] \in 0..Len(messages)
      BY <1>2 DEF Honest, ResultInv, TypeOK
    <3> QED
      BY <3>1 DEF Finish
  <2>3. \A v \in Workers : tx'[v].pc # "idle" => tx'[v].batch \in Batches
    BY <1>10, <1>11 DEF ResultInv, TypeOK
  <2> QED
    BY <1>1, <1>8, <1>10, <2>1, <2>2, <2>3 DEF ResultInv, TypeOK, bounds, TxRecords, Sections
<1>13. Sound(r, b, messages, Kept(canvas, b))
  BY <1>2, <1>5 DEF Honest, Sound
<1>14. \A c \in Batches : Sound(row'[c], c, messages, Kept(canvas, c))
  BY <1>8, <1>13 DEF ResultInv
<1>15. \A c \in Batches : row'[c].status = "succeeded" <=> \A s \in Steps : row'[c].ops[s] = "succeeded"
  BY <1>6, <1>8 DEF ResultInv
<1>16. Confirmed' = Confirmed
  <2>1. row[b].status \in {"pending", "failed"}
    BY <1>1 DEF ResultInv, RunInv, ExclusiveRun
  <2> QED
    BY <1>2, <1>5, <1>8, <2>1 DEF Confirmed
<1>17. ASSUME NEW v \in Workers, Running(v)'
       PROVE  Honest(tx'[v], row'[tx'[v].batch], messages, Kept(canvas, tx'[v].batch))
  <2>1. v # w /\ tx'[v] = tx[v] /\ Running(v)
    BY <1>10, <1>11, <1>17 DEF Running
  <2>2. tx[v].batch \in Batches \ {b}
    BY <1>1, <2>1 DEF ResultInv, RunInv, ExclusiveRun, RowFree, Others, Running
  <2> QED
    BY <1>8, <2>1, <2>2 DEF ResultInv
<1> QED
  BY <1>1, <1>12, <1>14, <1>15, <1>16, <1>17 DEF ResultInv

(* Confirming adds a batch of which nothing has been done yet.              *)
LEMMA ConfirmKeepsResults ==
  ASSUME ResultInv, RunInv', NEW b \in Batches, Confirm(b)
  PROVE  ResultInv'
<1> DEFINE token == <<b, 0>>
           born == 1 + Cardinality(Confirmed)
           r == [row[b] EXCEPT !.status = "pending", !.token = token, !.born = born]
<1>1. /\ row[b].status = "none" /\ row \in [Batches -> Rows]
      /\ UNCHANGED <<now, latest, tx, messages, canvas, bounds, database>>
  BY DEF Confirm, ResultInv, TypeOK
<1>2. token \in Tokens /\ born \in Nat
  BY FS_CardinalityType DEF ResultInv, Tokens
<1>3. row' = [row EXCEPT ![b] = r] /\ lease' = Granted(OwnerOf[b], token, now)
  BY <1>1 DEF Confirm, Confirmed
<1> HIDE DEF token, born
<1>4. /\ r \in Rows /\ r.status = "pending"
      /\ r.ops = row[b].ops /\ r.summary = row[b].summary /\ r.root = row[b].root
  BY <1>1, <1>2 DEF Rows, BatchStatus
<1> HIDE DEF r
<1>5. row' \in [Batches -> Rows] /\ row'[b] = r /\ \A c \in Batches \ {b} : row'[c] = row[c]
  BY <1>1, <1>3, <1>4
<1>6. TypeOK'
  <2>1. lease' \in Leases
    BY <1>2, <1>3, LeaseAssumption, BatchAssumption DEF Granted, Leases, ResultInv, TypeOK
  <2> QED
    BY <1>1, <1>5, <2>1 DEF ResultInv, TypeOK, bounds, Sections
<1>7. \A c \in Batches : Sound(row'[c], c, messages, Kept(canvas, c))
  BY <1>4, <1>5 DEF ResultInv, Sound
<1>8. \A c \in Batches : row'[c].status = "succeeded" <=> \A s \in Steps : row'[c].ops[s] = "succeeded"
  BY <1>1, <1>4, <1>5 DEF ResultInv
<1>9. IsFiniteSet(Confirmed')
  <2>1. Confirmed' = Confirmed \cup {b}
    BY <1>4, <1>5 DEF Confirmed
  <2> QED
    BY <2>1, FS_AddElement DEF ResultInv
<1>10. ASSUME NEW v \in Workers, Running(v)'
       PROVE  Honest(tx[v], row'[tx[v].batch], messages, Kept(canvas, tx[v].batch))
  <2>1. Running(v)
    BY <1>1, <1>10 DEF Running
  <2>2. tx[v].batch \in Batches \ {b}
    BY <1>1, <2>1 DEF ResultInv, RunInv, ExclusiveRun, Running
  <2> QED
    BY <1>5, <2>1, <2>2 DEF ResultInv
<1> QED
  BY <1>1, <1>6, <1>7, <1>8, <1>9, <1>10 DEF ResultInv

(* A worker that dies of an error has at most indexed before.               *)
LEMMA EscapeKeepsResults ==
  ASSUME ResultInv, RunInv', NEW w \in Workers, Escape(w)
  PROVE  ResultInv'
<1> DEFINE t == tx[w]
           b == t.batch
<1>1. /\ Running(w) /\ Becomes(w, NoTx) /\ UNCHANGED <<now, committed, messages, retries, database>>
      /\ crashes' \in 0..MaxCrashes
  BY BatchAssumption DEF Escape, ResultInv, TypeOK
<1>2. /\ t \in TxRecords /\ b \in Batches /\ messages \in Seq(Messages) /\ Len(messages) \in Nat
      /\ Honest(t, row[b], messages, Kept(canvas, b))
  BY <1>1, AtWork
<1>3. CASE UNCHANGED canvas
  BY <1>1, <1>3, NoTxTyped, NoTxIdle, TakesKeeps DEF ResultInv, TypeOK
<1>4. CASE Indexes(t)
  <2>1. IndexedRoots(t) \subseteq 1..Len(messages)
    BY <1>2 DEF IndexedRoots, Honest, Sound, Posted
  <2>2. /\ canvas' \in Seq(Sections)
        /\ \A c \in Batches \ {b} : Kept(canvas, c) \subseteq Kept(canvas', c)
        /\ \A a \in Assets : t.row.ops[PostStep(a)] = "succeeded" => t.row.root[a] \in Kept(canvas', b)
    BY <1>2, <1>4, <2>1, IndexesKept DEF ResultInv
  <2>3. Ahead(b)
    <3>1. Grows(messages, messages) /\ Sections' = Sections
      BY <1>1, <1>2 DEF Grows, Sections
    <3> QED
      BY <1>1, <1>2, <2>2, <3>1 DEF Ahead
  <2>4. \A a \in Assets : row[b].ops[IndexStep(a)] = "succeeded" => row[b].root[a] \in Kept(canvas', b)
    <3>1. \A a \in Assets : row[b].ops[IndexStep(a)] = "succeeded" =>
            t.row.ops[PostStep(a)] = "succeeded" /\ t.row.root[a] = row[b].root[a]
      BY <1>2, PlanDistinct DEF Honest, Carries, Sound, ResultInv
    <3> QED
      BY <2>2, <3>1
  <2> QED
    BY <1>1, <2>3, <2>4, NoTxTyped, NoTxIdle, WorksKeeps
<1> QED
  BY <1>3, <1>4 DEF Escape

(* ResultInv is inductive.                                                  *)
LEMMA ResultInductive ==
  ASSUME ResultInv, [Next]_vars
  PROVE  ResultInv'
<1>1. RunInv'
  BY RunInductive DEF ResultInv
<1>2. ASSUME now' \in 0..MaxTime, UNCHANGED <<committed, tx, messages, canvas, bounds, database>>
      PROVE  ResultInv'
  BY <1>1, <1>2 DEF ResultInv, TypeOK, Confirmed, Running, committed, bounds, Sections
<1>3. CASE Tick \/ UNCHANGED vars
  BY <1>2, <1>3, BatchAssumption DEF Tick, vars, committed, bounds, ResultInv, TypeOK
<1>4. ASSUME NEW w \in Workers, Select(w) PROVE ResultInv'
  <2>1. PICK b \in Batches : Becomes(w, [NoTx EXCEPT !.pc = "claim", !.batch = b])
    BY <1>4 DEF Select
  <2> DEFINE t == [NoTx EXCEPT !.pc = "claim", !.batch = b]
  <2>2. t \in TxRecords /\ t.batch = b /\ t.pc = "claim"
    BY NoTxTyped DEF TxRecords
  <2> HIDE DEF t
  <2> QED
    BY <1>1, <1>4, <2>1, <2>2, TakesKeeps DEF Select, Under, t, bounds, ResultInv, TypeOK
<1>5. ASSUME NEW w \in Workers, Becomes(w, NoTx), UNCHANGED <<now, committed, messages, canvas, database>>,
             crashes' \in 0..MaxCrashes, retries' \in 0..MaxRetries
      PROVE  ResultInv'
  BY <1>1, <1>5, NoTxTyped, NoTxIdle, TakesKeeps
<1>6. ASSUME NEW w \in Workers, NEW b \in Batches, Becomes(w, Begun(b)),
             UNCHANGED <<now, committed, messages, canvas, database>>,
             crashes' \in 0..MaxCrashes, retries' \in 0..MaxRetries
      PROVE  ResultInv'
  BY <1>1, <1>6, BegunHonest, TakesKeeps
<1>7. ASSUME NEW w \in Workers, Claim(w) PROVE ResultInv'
  <2>1. tx[w].batch \in Batches
    BY <1>7 DEF Claim, ResultInv, TypeOK
  <2>2. Becomes(w, NoTx) \/ Becomes(w, Begun(tx[w].batch))
    BY <1>7 DEF Claim
  <2> QED
    BY <1>5, <1>6, <1>7, <2>1, <2>2 DEF Claim, bounds, ResultInv, TypeOK
<1>8. ASSUME NEW w \in Workers, NEW b \in Batches, Retry(w, b) PROVE ResultInv'
  <2>1. retries' \in 0..MaxRetries
    BY <1>8, BatchAssumption DEF Retry, ResultInv, TypeOK
  <2> QED
    BY <1>6, <1>8, <2>1 DEF Retry, ResultInv, TypeOK
<1>9. ASSUME NEW w \in Workers, Crash(w) PROVE ResultInv'
  <2>1. crashes' \in 0..MaxCrashes
    BY <1>9, BatchAssumption DEF Crash, ResultInv, TypeOK
  <2> QED
    BY <1>5, <1>9, <2>1 DEF Crash, ResultInv, TypeOK
<1> QED
  BY <1>1, <1>3, <1>4, <1>7, <1>8, <1>9, ConfirmKeepsResults, StartKeepsResults,
     OperationKeepsResults, FinishKeepsResults, EscapeKeepsResults DEF Next, Work

(* ResultInv holds initially: nothing has been confirmed, nothing posted.   *)
LEMMA ResultStarts == Init => ResultInv
<1> SUFFICES ASSUME Init PROVE ResultInv
  OBVIOUS
<1>1. RunInv
  BY RunStarts
<1>2. Len(messages) = 0 /\ messages \in Seq(Messages)
  BY DEF Init
<1>3. TypeOK
  <2>1. NoTx.pc = "idle"
    BY DEF NoTx
  <2> QED
    BY <1>2, <2>1, NoTxTyped, BatchAssumption DEF Init, TypeOK, TxRecords, Leases
<1>4. \A b \in Batches : row[b] = Blank
  BY DEF Init
<1>5. \A s \in Steps : Blank.ops[s] = "pending"
  BY DEF Blank
<1>6. \A b \in Batches : Sound(row[b], b, messages, Kept(canvas, b))
  BY <1>4, <1>5, PlanDistinct DEF Sound
<1>7. \A b \in Batches : row[b].status = "succeeded" <=> \A s \in Steps : row[b].ops[s] = "succeeded"
  BY <1>4, <1>5, PlanDistinct DEF Blank
<1>8. Confirmed = {} /\ IsFiniteSet({})
  BY <1>4, FS_EmptySet DEF Confirmed, Blank
<1>9. \A w \in Workers : ~Running(w)
  BY DEF Init, Running, NoTx
<1> QED
  BY <1>1, <1>3, <1>6, <1>7, <1>8, <1>9 DEF ResultInv

-----------------------------------------------------------------------------

LEMMA ResultsHold == Spec => []ResultInv
BY ResultStarts, ResultInductive, PTL DEF Spec

(* The variables keep their types, for any workers, batches and assets,     *)
(* however calls fail and workers die: in particular a run never goes past  *)
(* its operations and lists on the canvas only messages that were posted.   *)
THEOREM BatchTypeCorrect == Spec => []TypeOK
<1>1. ResultInv => TypeOK
  BY DEF ResultInv
<1> QED
  BY <1>1, ResultsHold, PTL

(* A batch that reads SUCCEEDED is what the channel shows, whatever runs of *)
(* it failed or died before: what jobs.py stores as succeeded is posted,    *)
(* and a batch only succeeds when all of its operations have.               *)
THEOREM SucceededTruthfully == Spec => []SucceededIsPosted
<1>1. ResultInv => SucceededIsPosted
  <2> SUFFICES ASSUME ResultInv, NEW b \in Batches, row[b].status = "succeeded"
      PROVE  /\ IsMessage(row[b].summary, b, 1) /\ messages[row[b].summary].shown # "creating"
             /\ \A a \in Assets : /\ IsMessage(row[b].root[a], b, PostStep(a))
                                  /\ Apart(b) => row[b].root[a] \in Listed(b)
    BY DEF SucceededIsPosted
  <2>1. \A s \in Steps : row[b].ops[s] = "succeeded"
    BY DEF ResultInv
  <2>2. Sound(row[b], b, messages, Kept(canvas, b))
    BY DEF ResultInv
  <2> QED
    BY <2>1, <2>2, PlanDistinct DEF Sound, Posted, IsMessage, Kept, Listed
<1> QED
  BY <1>1, ResultsHold, PTL

(* Only an operation that the committed row does not call succeeded posts.  *)
LEMMA PostsAreNew ==
  ASSUME ResultInv, [Next]_vars, NEW ts \in (Len(messages) + 1)..Len(messages')
  PROVE  row[messages'[ts].batch].ops[messages'[ts].step] # "succeeded"
<1>1. messages \in Seq(Messages) /\ Len(messages) \in Nat
  BY LenProperties DEF ResultInv, TypeOK
<1>2. ASSUME Len(messages') = Len(messages) PROVE FALSE
  BY <1>1, <1>2
<1>3. ASSUME NEW w \in Workers, NEW shown \in Shown, Posts(w, shown),
             tx[w].pc = "run", tx[w].step \in Steps
      PROVE  row[messages'[ts].batch].ops[messages'[ts].step] # "succeeded"
  <2> DEFINE e == [batch |-> tx[w].batch, step |-> tx[w].step, shown |-> shown]
  <2>1. tx[w].batch \in Batches /\ Honest(tx[w], row[tx[w].batch], messages, Kept(canvas, tx[w].batch))
    BY <1>3, AtWork DEF Running
  <2>2. e \in Messages
    BY <1>3, <2>1 DEF Messages
  <2>3. messages' = Append(messages, e)
    BY <1>3 DEF Posts
  <2>4. ts = Len(messages) + 1 /\ messages'[ts] = e
    <3> HIDE DEF e
    <3> QED
      BY <1>1, <2>2, <2>3, AppendGrows
  <2>5. row[tx[w].batch].ops[tx[w].step] # "succeeded"
    BY <1>3, <2>1 DEF Honest, Carries, OnCourse
  <2> QED
    BY <2>4, <2>5
<1>4. ASSUME NEW w \in Workers, PostSummary(w) \/ PostAsset(w)
      PROVE  row[messages'[ts].batch].ops[messages'[ts].step] # "succeeded"
  <2>1. UNCHANGED messages \/ Posts(w, "creating") \/ Posts(w, "latest")
    BY <1>4 DEF PostSummary, PostAsset
  <2>2. tx[w].pc = "run" /\ tx[w].step \in Steps
    BY <1>4 DEF PostSummary, PostAsset, At
  <2> QED
    BY <1>2, <1>3, <2>1, <2>2 DEF Shown
<1>5. ASSUME NEW w \in Workers, RetirePriorLatest(w) \/ FinalizeSummary(w)
      PROVE  FALSE
  <2>1. \/ UNCHANGED messages
        \/ \E i, shown : shown \in Shown /\ shown # "creating" /\ messages' = [messages EXCEPT ![i].shown = shown]
    BY <1>5 DEF RetirePriorLatest, FinalizeSummary, Shown
  <2>2. Len(messages') = Len(messages)
    BY <1>1, <2>1, ShowGrows
  <2> QED
    BY <1>2, <2>2
<1>6. CASE UNCHANGED messages
  BY <1>2, <1>6
<1> QED
  BY <1>4, <1>5, <1>6 DEF Next, Work, Operation, vars, Tick, Confirm, Select, Claim, Start, Retry,
     RecordSummary, RecordAsset, IndexAsset, IndexPrimaryAsset, Finish, Crash, Escape

(* "Retrying a failed batch never recreates successful summary or asset     *)
(* messages", nor does a run after a crash: nothing is posted for an        *)
(* operation stored as succeeded, because a run skips these.                *)
THEOREM NeverReposted == Spec => NoRepostAfterSuccess
<1> DEFINE New == \A ts \in (Len(messages) + 1)..Len(messages') :
                    row[messages'[ts].batch].ops[messages'[ts].step] # "succeeded"
<1>1. ResultInv /\ [Next]_vars => [New]_vars
  BY PostsAreNew
<1> HIDE DEF New
<1>2. Spec => [][New]_vars
  BY <1>1, ResultsHold, PTL DEF Spec
<1> QED
  BY <1>2 DEF NoRepostAfterSuccess, New

-----------------------------------------------------------------------------

(* The operations of a batch that the tables call succeeded.                *)
DoneIn(b) == {s \in Steps : row[b].ops[s] = "succeeded"}

(* The end of a run is one step of the ledger: it keeps what was done, and  *)
(* the batch has succeeded exactly when everything is.                      *)
LEMMA FinishRuns ==
  ASSUME ResultInv, ResultInv', NEW w \in Workers, Finish(w), NEW b \in Batches, b = tx[w].batch
  PROVE  Ledger!Run(b)
<1> DEFINE status == [c \in Batches |-> row[c].status]
           done == [c \in Batches |-> DoneIn(c)]
<1>1. Running(w) /\ b \in Batches /\ row[b].status \in {"pending", "failed"}
  BY DEF Finish, Running, ResultInv, TypeOK, RunInv, ExclusiveRun
<1>2. tx[w] \in TxRecords /\ Carries(tx[w].row, row[b])
  BY <1>1, AtWork DEF Honest
<1>3. PICK t \in MayTell(tx[w]), final \in {"failed", "succeeded"} :
        row' = [row EXCEPT ![b] = [t.row EXCEPT !.status = final]]
  BY DEF Finish
<1>4. t \in TxRecords /\ t.row.ops = tx[w].row.ops
  BY <1>2, ToldAlike DEF Alike
<1>5. /\ row'[b].status = final /\ row'[b].ops = tx[w].row.ops
      /\ \A c \in Batches \ {b} : row'[c] = row[c]
  <2> DEFINE r == [t.row EXCEPT !.status = final]
  <2>1. r.status = final /\ r.ops = tx[w].row.ops
    BY <1>4 DEF TxRecords, Rows
  <2> HIDE DEF r
  <2>2. row \in [Batches -> Rows] /\ row' = [row EXCEPT ![b] = r]
    BY <1>3 DEF ResultInv, TypeOK, r
  <2> QED
    BY <2>1, <2>2
<1>6. DoneIn(b) \subseteq DoneIn(b)' /\ DoneIn(b)' \subseteq Steps
  BY <1>2, <1>5 DEF DoneIn, Carries
<1>7. final = "succeeded" <=> DoneIn(b)' = Steps
  BY <1>1, <1>5 DEF ResultInv, DoneIn
<1>8. \A c \in Batches \ {b} : DoneIn(c)' = DoneIn(c)
  BY <1>5 DEF DoneIn
<1>9. status' = [status EXCEPT ![b] = IF DoneIn(b)' = Steps THEN "succeeded" ELSE "failed"]
  BY <1>5, <1>7
<1>10. done' = [done EXCEPT ![b] = DoneIn(b)']
  BY <1>1, <1>8
<1>11. status[b] \in {"pending", "failed"} /\ done[b] = DoneIn(b) /\ done'[b] = DoneIn(b)'
  BY <1>1
<1> QED
  BY <1>1, <1>6, <1>9, <1>10, <1>11 DEF Ledger!Run, DoneIn

(* Confirming a batch submits it.                                           *)
LEMMA ConfirmSubmits ==
  ASSUME ResultInv, NEW b \in Batches, Confirm(b)
  PROVE  Ledger!Submit(b)
<1> DEFINE status == [c \in Batches |-> row[c].status]
           done == [c \in Batches |-> DoneIn(c)]
<1>1. /\ row[b].status = "none" /\ row'[b].status = "pending" /\ row'[b].ops = row[b].ops
      /\ \A c \in Batches \ {b} : row'[c] = row[c]
  BY DEF Confirm, ResultInv, TypeOK, Rows
<1>2. status' = [status EXCEPT ![b] = "pending"] /\ status[b] = "none"
  BY <1>1
<1>3. done' = done
  BY <1>1 DEF DoneIn
<1> QED
  BY <1>2, <1>3 DEF Ledger!Submit, DoneIn

(* The tables implement BatchLedger: whatever happens in transactions, in   *)
(* Slack and in crashes, the committed rows only move by single steps that  *)
(* undo no work and call a batch succeeded when all of its operations are.  *)
THEOREM LedgerImplemented == Spec => ImplementsLedger
<1>1. Init => Ledger!Init
  BY DEF Init, Ledger!Init, Blank
<1>2. ResultInv /\ [Next]_vars => [Ledger!Next]_<<[b \in Batches |-> row[b].status], [b \in Batches |-> {s \in Steps : row[b].ops[s] = "succeeded"}]>>
  <2> SUFFICES ASSUME ResultInv, [Next]_vars
      PROVE  [Ledger!Next]_<<[b \in Batches |-> row[b].status], [b \in Batches |-> {s \in Steps : row[b].ops[s] = "succeeded"}]>>
    OBVIOUS
  <2>1. ResultInv'
    BY ResultInductive
  <2>2. CASE UNCHANGED row
    BY <2>2
  <2>3. ASSUME NEW b \in Batches, Confirm(b) PROVE Ledger!Next
    BY <2>3, ConfirmSubmits DEF Ledger!Next
  <2>4. ASSUME NEW w \in Workers, Finish(w) PROVE Ledger!Next
    <3>1. PICK b \in Batches : b = tx[w].batch
      BY <2>4 DEF Finish, ResultInv, TypeOK
    <3> QED
      BY <2>1, <2>4, <3>1, FinishRuns DEF Ledger!Next
  <2> QED
    BY <2>2, <2>3, <2>4 DEF Next, Work, Operation, vars, committed, Tick, Select, Claim, Start, Retry,
       PostSummary, RecordSummary, PostAsset, RecordAsset, IndexAsset, IndexPrimaryAsset,
       RetirePriorLatest, FinalizeSummary, Crash, Escape
<1> QED
  BY <1>1, <1>2, ResultsHold, PTL DEF Spec, ImplementsLedger, Ledger!Spec
=============================================================================
