-------------------------- MODULE BatchLatestProofs ---------------------------
(***************************************************************************)
(* Which batch runs, and which root is the latest, for any workers,        *)
(* batches, assets, databases and clock, whatever calls fail and however   *)
(* often workers die: OneBatchPerChannel, LatestShown and OneLatest of     *)
(* BatchJobs.                                                              *)
(*                                                                         *)
(* Three invariants on top of ResultInv say why.  QueueInv: the order in   *)
(* which batches were confirmed never repeats, and until a batch is        *)
(* retried whoever has selected one has the oldest still pending.          *)
(* LatestInv: a root not yet committed as latest never was the latest, so  *)
(* no retirement of a prior root can hit it.  MarkInv: a root still shown  *)
(* as Latest is the latest, or is about to be retired, or was lost.        *)
(***************************************************************************)
EXTENDS BatchResultsProofs

RetireStep(a) == PostStep(a) + (PerAsset - 1)

(* The operation that retires the prior root of an asset is the last of its *)
(* own, and the one that posts the root is the one called so.               *)
LEMMA PlanRetires ==
  \A a \in Assets :
    /\ RetireStep(a) \in Steps /\ RetireStep(a) \notin {1, Last}
    /\ KindAt(RetireStep(a)) = "retire_prior_latest" /\ AssetAt(RetireStep(a)) = a
    /\ KindAt(PostStep(a)) = "post_asset" /\ AssetAt(PostStep(a)) = a
    /\ \A c \in Assets : RetireStep(a) # PostStep(c) /\ RetireStep(a) # IndexStep(c)
<1> USE BatchAssumption
<1> SUFFICES ASSUME NEW a \in Assets
    PROVE  /\ RetireStep(a) \in Steps /\ RetireStep(a) \notin {1, Last}
           /\ KindAt(RetireStep(a)) = "retire_prior_latest" /\ AssetAt(RetireStep(a)) = a
           /\ KindAt(PostStep(a)) = "post_asset" /\ AssetAt(PostStep(a)) = a
           /\ \A c \in Assets : RetireStep(a) # PostStep(c) /\ RetireStep(a) # IndexStep(c)
  OBVIOUS
<1>1. /\ RetireStep(a) \in Steps /\ RetireStep(a) \notin {1, Last}
      /\ KindAt(RetireStep(a)) = "retire_prior_latest" /\ AssetAt(RetireStep(a)) = a
  <2>1. CASE Mirrored
    <3>1. /\ PerAsset = 4 /\ Last = NumAssets * 4 + 2 /\ AssetKinds[4] = "retire_prior_latest"
          /\ a \in Nat /\ a >= 1 /\ a <= NumAssets
      BY <2>1 DEF PerAsset, Last, AssetKinds, Assets
    <3>2. RetireStep(a) = 4 * a + 1 /\ RetireStep(a) - 2 = 4 * (a - 1) + 3
      BY <3>1 DEF RetireStep, PostStep
    <3>3. (RetireStep(a) - 2) % 4 = 3 /\ (RetireStep(a) - 2) \div 4 = a - 1
      BY <3>1, <3>2
    <3>4. RetireStep(a) \in Steps /\ RetireStep(a) \notin {1, Last}
      BY <3>1, <3>2 DEF Steps
    <3>5. AssetAt(RetireStep(a)) = a
      BY <3>1, <3>3 DEF AssetAt
    <3>6. KindAt(RetireStep(a)) = AssetKinds[4]
      BY <3>1, <3>3, <3>4 DEF KindAt
    <3> QED
      BY <3>1, <3>4, <3>5, <3>6
  <2>2. CASE ~Mirrored
    <3>1. /\ PerAsset = 3 /\ Last = NumAssets * 3 + 2 /\ AssetKinds[3] = "retire_prior_latest"
          /\ a \in Nat /\ a >= 1 /\ a <= NumAssets
      BY <2>2 DEF PerAsset, Last, AssetKinds, Assets
    <3>2. RetireStep(a) = 3 * a + 1 /\ RetireStep(a) - 2 = 3 * (a - 1) + 2
      BY <3>1 DEF RetireStep, PostStep
    <3>3. (RetireStep(a) - 2) % 3 = 2 /\ (RetireStep(a) - 2) \div 3 = a - 1
      BY <3>1, <3>2
    <3>4. RetireStep(a) \in Steps /\ RetireStep(a) \notin {1, Last}
      BY <3>1, <3>2 DEF Steps
    <3>5. AssetAt(RetireStep(a)) = a
      BY <3>1, <3>3 DEF AssetAt
    <3>6. KindAt(RetireStep(a)) = AssetKinds[3]
      BY <3>1, <3>3, <3>4 DEF KindAt
    <3> QED
      BY <3>1, <3>4, <3>5, <3>6
  <2> QED
    BY <2>1, <2>2
<1>2. KindAt(PostStep(a)) = "post_asset" /\ AssetAt(PostStep(a)) = a
  BY Plan, PlanDistinct DEF InPlan
<1>3. \A c \in Assets : RetireStep(a) # PostStep(c) /\ RetireStep(a) # IndexStep(c)
  BY <1>1, Plan DEF InPlan
<1> QED
  BY <1>1, <1>2, <1>3

(* No other operation retires the prior root of an asset.                   *)
LEMMA RetiresInPlan ==
  ASSUME NEW s \in Steps, KindAt(s) = "retire_prior_latest"
  PROVE  AssetAt(s) \in Assets /\ s = RetireStep(AssetAt(s))
<1> USE BatchAssumption
<1>1. s # 1 /\ s # Last /\ AssetAt(s) \in Assets /\ s \in Nat
  BY Plan DEF InPlan, Steps
<1>2. KindAt(s) = AssetKinds[1 + ((s - 2) % PerAsset)] /\ AssetAt(s) = 1 + ((s - 2) \div PerAsset)
  BY <1>1 DEF KindAt, AssetAt
<1>3. CASE Mirrored
  <2> DEFINE d == (s - 2) \div 4
             r == (s - 2) % 4
  <2>1. PerAsset = 4 /\ AssetKinds = <<"post_asset", "index_asset", "index_primary_asset", "retire_prior_latest">>
    BY <1>3 DEF PerAsset, AssetKinds
  <2>2. s - 2 \in Nat
    BY <1>1 DEF Steps
  <2>3. r \in 0..3 /\ d \in Nat /\ s - 2 = 4 * d + r
    BY <1>1, <2>2
  <2>4. KindAt(s) = AssetKinds[1 + r] /\ AssetAt(s) = 1 + d
    BY <1>2, <2>1
  <2> HIDE DEF d, r
  <2>5. r = 3
    BY <2>1, <2>3, <2>4
  <2> QED
    BY <1>1, <2>1, <2>3, <2>4, <2>5 DEF RetireStep, PostStep
<1>4. CASE ~Mirrored
  <2> DEFINE d == (s - 2) \div 3
             r == (s - 2) % 3
  <2>1. PerAsset = 3 /\ AssetKinds = <<"post_asset", "index_asset", "retire_prior_latest">>
    BY <1>4 DEF PerAsset, AssetKinds
  <2>2. s - 2 \in Nat
    BY <1>1 DEF Steps
  <2>3. r \in 0..2 /\ d \in Nat /\ s - 2 = 3 * d + r
    BY <1>1, <2>2
  <2>4. KindAt(s) = AssetKinds[1 + r] /\ AssetAt(s) = 1 + d
    BY <1>2, <2>1
  <2> HIDE DEF d, r
  <2>5. r = 2
    BY <2>1, <2>3, <2>4
  <2> QED
    BY <1>1, <2>1, <2>3, <2>4, <2>5 DEF RetireStep, PostStep
<1> QED
  BY <1>3, <1>4

-----------------------------------------------------------------------------

(* What neither renewing the lease, nor telling the submitter, nor the end  *)
(* of an operation touches.                                                 *)
Constant(t, u) == u.row.prior = t.row.prior /\ u.row.born = t.row.born

LEMMA RenewedConstant ==
  ASSUME now \in Nat, lease \in Leases, NEW t \in TxRecords, t.batch \in Batches
  PROVE  Constant(t, Renewed(t)) /\ Renewed(t).seen = t.seen
BY DEF Renewed, TxRecords, Rows, Constant

LEMMA ToldConstant ==
  ASSUME NEW t \in TxRecords, NEW u \in MayTell(t)
  PROVE  Constant(t, u)
BY DEF MayTell, Told, TxRecords, Rows, Constant

LEMMA EndedConstant ==
  ASSUME NEW t \in TxRecords, NEW status
  PROVE  Constant(t, Ended(t, status))
BY DEF Ended, TxRecords, Rows, Constant

(* Of the transaction t, u has ended the current operation with a status.   *)
Ends(t, u, status) ==
  /\ u \in TxRecords /\ u.pc = "run" /\ u.batch = t.batch /\ u.roots = t.roots
  /\ u.row.ops = [t.row.ops EXCEPT ![t.step] = status]
  /\ u.row.root = t.row.root
  /\ Constant(t, u)

LEMMA EndedEnds ==
  ASSUME NEW t \in TxRecords, t.step \in Steps, NEW status \in {"succeeded", "failed"}
  PROVE  Ends(t, Ended(t, status), status)
BY EndedTyped, EndedConstant DEF Ends

LEMMA SucceededEnds ==
  ASSUME now \in Nat, lease \in Leases, NEW t \in TxRecords, t.batch \in Batches, t.step \in Steps
  PROVE  Ends(t, Succeeded(t), "succeeded")
<1> DEFINE e == Ended(t, "succeeded")
<1>1. Ends(t, e, "succeeded")
  BY EndedEnds
<1> HIDE DEF e
<1>2. e \in TxRecords /\ e.batch \in Batches
  BY <1>1 DEF Ends
<1>3. Renewed(e) \in TxRecords /\ Alike(e, Renewed(e)) /\ Constant(e, Renewed(e))
  BY <1>2, RenewedAlike, RenewedConstant
<1>4. Ends(t, Renewed(e), "succeeded")
  BY <1>1, <1>3 DEF Ends, Alike, Constant
<1> QED
  BY <1>4 DEF Succeeded, e

LEMMA FailedEnds ==
  ASSUME NEW t \in TxRecords, t.step \in Steps
  PROVE  Ends(t, Failed(t), "failed")
<1> DEFINE e == Ended(t, "failed")
<1>1. Ends(t, e, "failed")
  BY EndedEnds
<1>2. Failed(t) = e \/ Failed(t) = [e EXCEPT !.step = Last + 1]
  BY DEF Failed
<1> HIDE DEF e
<1>3. Last + 1 \in 1..Last + 1
  BY Plan
<1>4. Ends(t, [e EXCEPT !.step = Last + 1], "failed")
  BY <1>1, <1>3 DEF Ends, TxRecords, Constant
<1> QED
  BY <1>1, <1>2, <1>4

-----------------------------------------------------------------------------

(* The message ts is a root of the asset a.                                 *)
IsRoot(ts, a) == ts \in 1..Len(messages) /\ messages[ts].step = PostStep(a)

(* No message is added, and those in X are not shown as Latest any more.    *)
Fades(X) ==
  /\ Len(messages') = Len(messages)
  /\ \A i \in 1..Len(messages) :
       /\ messages'[i].batch = messages[i].batch /\ messages'[i].step = messages[i].step
       /\ messages'[i].shown = "latest" <=> messages[i].shown = "latest" /\ i \notin X

(* A message of the transaction t is added.                                 *)
Adds(t, shown) ==
  /\ Len(messages') = Len(messages) + 1
  /\ \A i \in 1..Len(messages) : messages'[i] = messages[i]
  /\ messages'[Len(messages) + 1] = [batch |-> t.batch, step |-> t.step, shown |-> shown]

(* What an operation of worker w may do, as it goes on with u: post the     *)
(* summary or a root; record the root it has posted, with the latest root   *)
(* it has seen; or end, which may retire the prior root of its asset.       *)
PostsMessage(t, u) ==
  /\ t.pc = "run" /\ u.pc = "record" /\ u.batch = t.batch /\ u.step = t.step
  /\ u.row = t.row /\ u.roots = t.roots /\ u.ts = Len(messages) + 1
  /\ \/ t.step = 1 /\ Adds(t, "creating")
     \/ \E a \in Assets : t.step = PostStep(a) /\ u.seen = latest[a] /\ Adds(t, "latest")

RecordsRoot(t, u) ==
  \E a \in Assets :
    /\ t.pc = "record" /\ t.step = PostStep(a)
    /\ u.pc = "run" /\ u.batch = t.batch /\ u.row.born = t.row.born
    /\ u.roots = [t.roots EXCEPT ![a] = t.ts]
    /\ u.row.root = [t.row.root EXCEPT ![a] = t.ts]
    /\ u.row.prior = [t.row.prior EXCEPT ![a] = t.seen]
    /\ u.row.ops = [t.row.ops EXCEPT ![t.step] = "succeeded"]
    /\ UNCHANGED messages

EndsOperation(t, u) ==
  \E status \in {"succeeded", "failed"}, X \in SUBSET Nat :
    /\ Ends(t, u, status)
    /\ Fades(X)
    /\ \A i \in X :
         \/ i \in 1..Len(messages) => messages[i].step = 1
         \/ \E a \in Assets : t.step = RetireStep(a) /\ i = t.row.prior[a] /\ i # 0
    /\ status = "succeeded" => \A a \in Assets :
         /\ t.step # PostStep(a)
         /\ t.step = RetireStep(a) =>
              t.row.ops[PostStep(a)] = "succeeded" /\ (t.row.prior[a] = 0 \/ t.row.prior[a] \in X)

(* A step of worker w in its batch: it goes on with u.                      *)
Proceeds(w, u) ==
  /\ Running(w) /\ tx[w].pc \in {"run", "record"} /\ tx[w].step \in Steps
  /\ u \in TxRecords /\ Becomes(w, u)
  /\ UNCHANGED <<now, committed, bounds, database>>
  /\ PostsMessage(tx[w], u) \/ RecordsRoot(tx[w], u) \/ EndsOperation(tx[w], u)

(* An operation that ends without a message has shown nothing differently.  *)
LEMMA EndsInPlace ==
  ASSUME ResultInv, NEW w \in Workers, Running(w), tx[w].pc \in {"run", "record"}, tx[w].step \in Steps,
         NEW u, NEW status \in {"succeeded", "failed"}, Ends(tx[w], u, status), Becomes(w, u),
         UNCHANGED <<now, committed, messages, bounds, database>>,
         status = "succeeded" => \A a \in Assets :
           /\ tx[w].step # PostStep(a)
           /\ tx[w].step = RetireStep(a) =>
                tx[w].row.ops[PostStep(a)] = "succeeded" /\ tx[w].row.prior[a] = 0
  PROVE  Proceeds(w, u)
<1>1. Fades({})
  BY DEF Fades
<1>2. EndsOperation(tx[w], u)
  BY <1>1 DEF EndsOperation
<1> QED
  BY <1>2 DEF Proceeds, Ends

(* A message that is there and shown differently fades.                     *)
LEMMA ShownFades ==
  ASSUME messages \in Seq(Messages), NEW ts, NEW shown \in Shown, shown # "latest", shown # "creating",
         messages' = [messages EXCEPT ![ts].shown = shown]
  PROVE  Fades({ts})
<1>1. DOMAIN messages = 1..Len(messages) /\ \A i \in 1..Len(messages) : messages[i] \in Messages
  BY LenProperties
<1>2. Len(messages') = Len(messages)
  BY ShowGrows
<1>3. \A i \in 1..Len(messages) : messages'[i] = IF i = ts THEN [messages[i] EXCEPT !.shown = shown] ELSE messages[i]
  BY <1>1
<1> QED
  BY <1>1, <1>2, <1>3 DEF Fades, Messages

(* A message that is posted is added.                                       *)
LEMMA PostsAdds ==
  ASSUME ResultInv, NEW w \in Workers, Running(w), tx[w].step \in Steps,
         NEW shown \in Shown, Posts(w, shown)
  PROVE  Adds(tx[w], shown)
<1> DEFINE e == [batch |-> tx[w].batch, step |-> tx[w].step, shown |-> shown]
<1>1. tx[w].batch \in Batches /\ messages \in Seq(Messages)
  BY AtWork
<1>2. e \in Messages
  BY <1>1 DEF Messages
<1>3. messages' = Append(messages, e)
  BY DEF Posts
<1> HIDE DEF e
<1>4. /\ Len(messages') = Len(messages) + 1 /\ messages'[Len(messages) + 1] = e
      /\ \A i \in 1..Len(messages) : messages'[i] = messages[i]
  BY <1>1, <1>2, <1>3, AppendProperties
<1> QED
  BY <1>4 DEF Adds, e

(* Every operation is one of these steps.                                   *)
LEMMA OperationProceeds ==
  ASSUME ResultInv, NEW w \in Workers, Operation(w)
  PROVE  \E u : Proceeds(w, u)
<1> DEFINE t == tx[w]
           s == t.step
<1>1. /\ Running(w) /\ s \in Steps /\ UNCHANGED <<now, committed, bounds, database>>
      /\ t.pc \in {"run", "record"}
  BY DEF Operation, PostSummary, RecordSummary, PostAsset, RecordAsset, IndexAsset,
     IndexPrimaryAsset, RetirePriorLatest, FinalizeSummary, At, Running
<1>2. /\ t \in TxRecords /\ t.batch \in Batches /\ now \in Nat /\ lease \in Leases
      /\ messages \in Seq(Messages) /\ Len(messages) \in Nat
      /\ Honest(t, row[t.batch], messages, Kept(canvas, t.batch))
  BY <1>1, AtWork
<1>3. Ends(t, Succeeded(t), "succeeded") /\ Ends(t, Failed(t), "failed")
  BY <1>1, <1>2, SucceededEnds, FailedEnds
<1>4. ASSUME Becomes(w, Failed(t)), UNCHANGED messages PROVE \E u : Proceeds(w, u)
  BY <1>1, <1>3, <1>4, EndsInPlace
<1>5. \A a \in Assets :
        /\ s = PostStep(a) => KindAt(s) = "post_asset" /\ AssetAt(s) = a
        /\ s = RetireStep(a) => KindAt(s) = "retire_prior_latest" /\ AssetAt(s) = a
  BY PlanRetires
<1>6. KindAt(s) = "post_summary" => s = 1
  BY <1>1, Plan DEF InPlan
<1>7. KindAt(s) = "post_asset" => AssetAt(s) \in Assets /\ s = PostStep(AssetAt(s))
  BY <1>1, Plan DEF InPlan
<1>8. ASSUME PostSummary(w) PROVE \E u : Proceeds(w, u)
  <2> DEFINE new == Len(messages) + 1
             u == [t EXCEPT !.pc = "record", !.ts = new]
  <2>1. t.pc = "run" /\ s = 1
    BY <1>6, <1>8 DEF PostSummary, At
  <2>2. CASE Posts(w, "creating") /\ Becomes(w, u)
    <3>1. /\ u \in TxRecords /\ u.pc = "record" /\ u.batch = t.batch /\ u.step = s /\ u.row = t.row
          /\ u.roots = t.roots /\ u.ts = new
      <4>1. new \in Nat
        BY <1>2
      <4> HIDE DEF new
      <4> QED
        BY <1>2, <4>1 DEF TxRecords
    <3>2. Adds(t, "creating")
      BY <1>1, <2>2, PostsAdds DEF Shown
    <3> HIDE DEF u
    <3> QED
      BY <1>1, <2>1, <2>2, <3>1, <3>2 DEF Proceeds, PostsMessage
  <2> QED
    BY <1>4, <1>8, <2>2 DEF PostSummary
<1>9. ASSUME RecordSummary(w) PROVE \E u : Proceeds(w, u)
  <2> DEFINE v == [t EXCEPT !.row.summary = t.ts]
  <2>1. CASE Becomes(w, Succeeded(v))
    <3>1. v \in TxRecords /\ v.batch = t.batch /\ v.step = s /\ v.roots = t.roots /\ v.row.ops = t.row.ops
          /\ v.row.root = t.row.root /\ v.row.prior = t.row.prior /\ v.row.born = t.row.born
      BY <1>2 DEF TxRecords, Rows
    <3> HIDE DEF v
    <3>2. Ends(v, Succeeded(v), "succeeded")
      BY <1>1, <1>2, <3>1, SucceededEnds
    <3>3. Ends(t, Succeeded(v), "succeeded")
      BY <3>1, <3>2 DEF Ends, Constant
    <3>4. s = 1
      BY <1>6, <1>9 DEF RecordSummary, At
    <3>5. \A a \in Assets : s # PostStep(a) /\ s # RetireStep(a)
      BY <3>4, PlanDistinct, PlanRetires
    <3> QED
      BY <1>1, <1>9, <2>1, <3>3, <3>5, EndsInPlace DEF RecordSummary
  <2> HIDE DEF v
  <2> QED
    BY <1>4, <1>9, <2>1 DEF RecordSummary, v
<1>10. ASSUME PostAsset(w) PROVE \E u : Proceeds(w, u)
  <2> DEFINE a == AssetAt(s)
             new == Len(messages) + 1
             u == [t EXCEPT !.pc = "record", !.ts = new, !.seen = latest[a]]
  <2>1. t.pc = "run" /\ a \in Assets /\ s = PostStep(a)
    BY <1>7, <1>10 DEF PostAsset, At
  <2>2. latest[a] \in Nat
    BY <1>2, <2>1 DEF ResultInv, TypeOK
  <2>3. CASE Posts(w, "latest") /\ Becomes(w, u)
    <3> HIDE DEF a
    <3>1. /\ u \in TxRecords /\ u.pc = "record" /\ u.batch = t.batch /\ u.step = s /\ u.row = t.row
          /\ u.roots = t.roots /\ u.ts = new /\ u.seen = latest[a]
      <4>1. new \in Nat
        BY <1>2
      <4> HIDE DEF new
      <4> QED
        BY <1>2, <2>2, <4>1 DEF TxRecords
    <3>2. Adds(t, "latest")
      BY <1>1, <2>3, PostsAdds DEF Shown
    <3> HIDE DEF u
    <3>3. PostsMessage(t, u)
      BY <2>1, <3>1, <3>2 DEF PostsMessage
    <3> QED
      BY <1>1, <2>3, <3>1, <3>3 DEF Proceeds
  <2> QED
    BY <1>4, <1>10, <2>3 DEF PostAsset
<1>11. ASSUME RecordAsset(w) PROVE \E u : Proceeds(w, u)
  <2> DEFINE a == AssetAt(s)
             v == [t EXCEPT !.roots[a] = t.ts, !.row.root[a] = t.ts, !.row.prior[a] = t.seen]
  <2>1. t.pc = "record" /\ a \in Assets /\ s = PostStep(a) /\ UNCHANGED messages
    BY <1>7, <1>11 DEF RecordAsset, At
  <2>2. Becomes(w, Succeeded(v)) \/ Becomes(w, Failed(t))
    BY <1>11 DEF RecordAsset
  <2>3. CASE Becomes(w, Succeeded(v))
    <3> DEFINE root == [t.row.root EXCEPT ![a] = t.ts]
               prior == [t.row.prior EXCEPT ![a] = t.seen]
               roots == [t.roots EXCEPT ![a] = t.ts]
               new == [t.row EXCEPT !.root = root, !.prior = prior]
    <3>1. v = [t EXCEPT !.roots = roots, !.row = new]
      BY <1>2 DEF TxRecords, Rows
    <3>2. root \in [Assets -> Nat] /\ prior \in [Assets -> Nat] /\ roots \in [Assets -> Nat]
      BY <1>2 DEF TxRecords, Rows
    <3> HIDE DEF a, v, root, prior, roots
    <3>3. new \in Rows /\ new.ops = t.row.ops /\ new.root = root /\ new.prior = prior /\ new.born = t.row.born
      BY <1>2, <3>2 DEF TxRecords, Rows
    <3> HIDE DEF new
    <3>4. v \in TxRecords /\ v.batch = t.batch /\ v.step = s /\ v.roots = roots /\ v.row = new
      BY <1>2, <3>1, <3>2, <3>3 DEF TxRecords
    <3>5. Ends(v, Succeeded(v), "succeeded")
      BY <1>1, <1>2, <3>4, SucceededEnds
    <3>6. RecordsRoot(t, Succeeded(v))
      <4> DEFINE q == Succeeded(v)
      <4>1. /\ q.pc = "run" /\ q.batch = t.batch /\ q.row.born = t.row.born
            /\ q.roots = [t.roots EXCEPT ![a] = t.ts]
            /\ q.row.root = [t.row.root EXCEPT ![a] = t.ts]
            /\ q.row.prior = [t.row.prior EXCEPT ![a] = t.seen]
            /\ q.row.ops = [t.row.ops EXCEPT ![t.step] = "succeeded"]
        BY <3>3, <3>4, <3>5 DEF Ends, Constant, root, prior, roots
      <4> HIDE DEF q
      <4>2. RecordsRoot(t, q)
        BY <2>1, <4>1 DEF RecordsRoot
      <4> QED
        BY <4>2 DEF q
    <3>7. Succeeded(v) \in TxRecords
      BY <3>5 DEF Ends
    <3> QED
      BY <1>1, <2>3, <3>6, <3>7 DEF Proceeds
  <2> HIDE DEF v
  <2> QED
    BY <1>4, <2>1, <2>2, <2>3
<1>12. ASSUME IndexAsset(w) PROVE \E u : Proceeds(w, u)
  <2>1. \A a \in Assets : s # PostStep(a) /\ s # RetireStep(a)
    <3>1. KindAt(s) = "index_asset"
      BY <1>12 DEF IndexAsset, At
    <3> HIDE DEF s
    <3> QED
      BY <1>5, <3>1
  <2>2. ASSUME NEW u \in MayTell(Ended(t, "succeeded")), Becomes(w, Renewed(u))
        PROVE  \E v : Proceeds(w, v)
    <3> DEFINE e == Ended(t, "succeeded")
    <3>1. Ends(t, e, "succeeded")
      BY <1>1, <1>2, EndedEnds
    <3>2. u \in TxRecords /\ Alike(e, u) /\ Constant(e, u)
      BY <2>2, <3>1, ToldAlike, ToldConstant DEF Ends
    <3> HIDE DEF e
    <3>3. u.batch \in Batches
      BY <1>2, <3>1, <3>2 DEF Alike, Ends
    <3>4. Renewed(u) \in TxRecords /\ Alike(u, Renewed(u)) /\ Constant(u, Renewed(u))
      BY <1>2, <3>2, <3>3, RenewedAlike, RenewedConstant
    <3>5. Ends(t, Renewed(u), "succeeded")
      BY <3>1, <3>2, <3>4 DEF Ends, Alike, Constant
    <3> QED
      BY <1>1, <1>12, <2>1, <2>2, <3>5, EndsInPlace DEF IndexAsset
  <2> QED
    BY <1>4, <1>12, <2>2 DEF IndexAsset
<1>13. ASSUME IndexPrimaryAsset(w) PROVE \E u : Proceeds(w, u)
  <2>1. \A a \in Assets : s # PostStep(a) /\ s # RetireStep(a)
    <3>1. KindAt(s) = "index_primary_asset"
      BY <1>13 DEF IndexPrimaryAsset, At
    <3> HIDE DEF s
    <3> QED
      BY <1>5, <3>1
  <2> QED
    BY <1>1, <1>3, <1>13, <2>1, EndsInPlace DEF IndexPrimaryAsset
<1>14. ASSUME RetirePriorLatest(w) PROVE \E u : Proceeds(w, u)
  <2> DEFINE a == AssetAt(s)
             prior == t.row.prior[a]
  <2>1. a \in Assets /\ s = RetireStep(a) /\ \A c \in Assets : s # PostStep(c) /\ (s = RetireStep(c) => c = a)
    BY <1>1, <1>5, <1>14, RetiresInPlan, PlanRetires DEF RetirePriorLatest, At
  <2>2. CASE PostSucceeded(t) /\ prior = 0 /\ Becomes(w, Succeeded(t)) /\ UNCHANGED messages
    <3>1. t.row.ops[PostStep(a)] = "succeeded"
      BY <2>2 DEF PostSucceeded
    <3> QED
      BY <1>1, <1>3, <2>1, <2>2, <3>1, EndsInPlace
  <2>3. CASE /\ PostSucceeded(t) /\ prior # 0
             /\ messages' = [messages EXCEPT ![prior].shown = "root"]
             /\ Becomes(w, Succeeded(t)) \/ Becomes(w, Failed(t))
    <3>1. t.row.ops[PostStep(a)] = "succeeded"
      BY <2>3 DEF PostSucceeded
    <3>2. prior \in Nat
      BY <1>2, <2>1 DEF TxRecords, Rows
    <3> HIDE DEF prior
    <3>3. Fades({prior})
      BY <1>2, <2>3, ShownFades DEF Shown
    <3>4. ASSUME NEW u, NEW status \in {"succeeded", "failed"}, Ends(t, u, status), Becomes(w, u)
          PROVE  Proceeds(w, u)
      <4>1. EndsOperation(t, u)
        <5> DEFINE X == {prior}
        <5>1. X \in SUBSET Nat
          BY <3>2
        <5>2. \A i \in X : \E c \in Assets : s = RetireStep(c) /\ i = t.row.prior[c] /\ i # 0
          BY <2>1, <2>3 DEF prior
        <5>3. \A c \in Assets : s # PostStep(c) /\ (s = RetireStep(c) => t.row.ops[PostStep(c)] = "succeeded" /\ t.row.prior[c] \in X)
          BY <2>1, <3>1 DEF prior
        <5>4. Fades(X)
          BY <3>3
        <5> HIDE DEF X, a, t, s
        <5> QED
          BY <3>4, <5>1, <5>2, <5>3, <5>4 DEF EndsOperation, s
      <4> QED
        BY <1>1, <3>4, <4>1 DEF Proceeds, Ends
    <3> QED
      BY <1>3, <2>3, <3>4
  <2> QED
    BY <1>4, <1>14, <2>2, <2>3 DEF RetirePriorLatest
<1>15. ASSUME FinalizeSummary(w) PROVE \E u : Proceeds(w, u)
  <2> DEFINE ts == t.row.summary
  <2>1. s = Last /\ \A a \in Assets : s # PostStep(a) /\ s # RetireStep(a)
    <3>1. KindAt(s) = "finalize_summary"
      BY <1>15 DEF FinalizeSummary, At
    <3> HIDE DEF s
    <3> QED
      BY <1>1, <1>5, <3>1, Plan DEF InPlan
  <2>2. Posted(ts, t.batch, 1, messages)
    <3>1. t.row.ops[1] = "succeeded"
      BY <1>2, <1>15, <2>1, Plan DEF FinalizeSummary, At, Honest, OnCourse
    <3> QED
      BY <1>2, <3>1 DEF Honest, Sound
  <2>3. ASSUME NEW outcome \in {"partial", "complete"},
               messages' = [messages EXCEPT ![ts].shown = outcome],
               Becomes(w, Succeeded(t)) \/ Becomes(w, Failed(t))
        PROVE  \E u : Proceeds(w, u)
    <3> HIDE DEF ts
    <3>1. Fades({ts})
      BY <1>2, <2>3, ShownFades DEF Shown
    <3>2. ASSUME NEW u, NEW status \in {"succeeded", "failed"}, Ends(t, u, status), Becomes(w, u)
          PROVE  Proceeds(w, u)
      <4>1. EndsOperation(t, u)
        <5> DEFINE X == {ts}
        <5>1. X \in SUBSET Nat /\ \A i \in X : messages[i].step = 1
          BY <2>2 DEF Posted
        <5>2. Fades(X)
          BY <3>1
        <5> HIDE DEF X, t, s
        <5> QED
          BY <2>1, <3>2, <5>1, <5>2 DEF EndsOperation, s
      <4> QED
        BY <1>1, <3>2, <4>1 DEF Proceeds, Ends
    <3> QED
      BY <1>3, <2>3, <3>2
  <2> QED
    BY <1>4, <1>15, <2>3 DEF FinalizeSummary
<1> QED
  BY <1>8, <1>9, <1>10, <1>11, <1>12, <1>13, <1>14, <1>15 DEF Operation

(* A run begins with nothing but the progress changed.                      *)
Launches(w, u) ==
  /\ tx[w].pc = "start" /\ u \in TxRecords /\ Becomes(w, u) /\ u.pc = "run"
  /\ u.batch = tx[w].batch /\ u.roots = tx[w].roots
  /\ u.row.ops = tx[w].row.ops /\ u.row.root = tx[w].row.root /\ Constant(tx[w], u)
  /\ UNCHANGED <<now, committed, messages, canvas, bounds, database>>

LEMMA StartLaunches ==
  ASSUME ResultInv, NEW w \in Workers, Start(w)
  PROVE  \E u : Launches(w, u)
<1>1. Running(w) /\ tx[w].pc = "start" /\ UNCHANGED <<now, committed, messages, canvas, bounds, database>>
  BY DEF Start, Running
<1>2. tx[w] \in TxRecords /\ tx[w].batch \in Batches /\ now \in Nat /\ lease \in Leases
  BY <1>1, AtWork
<1>3. PICK t \in MayTell(Renewed(tx[w])) :
        Becomes(w, [t EXCEPT !.pc = "run", !.step = NextStep(t.row.ops, 0)])
  BY Zenon DEF Start
<1>4. Renewed(tx[w]) \in TxRecords /\ Alike(tx[w], Renewed(tx[w])) /\ Constant(tx[w], Renewed(tx[w]))
  BY <1>2, RenewedAlike, RenewedConstant
<1>5. t \in TxRecords /\ Alike(Renewed(tx[w]), t) /\ Constant(Renewed(tx[w]), t)
  BY <1>4, ToldAlike, ToldConstant
<1> DEFINE next == NextStep(t.row.ops, 0)
           u == [t EXCEPT !.pc = "run", !.step = next]
<1>6. next \in 1..Last + 1
  <2>1. 0 \in 0..Last
    BY Plan
  <2> QED
    BY <2>1, NextStepLands
<1> HIDE DEF next
<1>7. u \in TxRecords /\ u.pc = "run" /\ u.batch = t.batch /\ u.row = t.row /\ u.roots = t.roots
  BY <1>5, <1>6 DEF TxRecords
<1>8. Becomes(w, u)
  BY <1>3 DEF next
<1> HIDE DEF u
<1>9. Launches(w, u)
  BY <1>1, <1>4, <1>5, <1>7, <1>8 DEF Launches, Alike, Constant
<1> QED
  BY <1>9

(* A run ends: the batch's row is the transaction's, with a final status,   *)
(* and the roots it has recorded are the latest.                            *)
Lands(w) ==
  LET t == tx[w]
      r == row'[t.batch]
  IN  /\ Running(w) /\ Becomes(w, NoTx) /\ UNCHANGED <<now, messages, canvas, bounds, database>>
      /\ r.status \in {"succeeded", "failed"} /\ r.ops = t.row.ops
      /\ r.born = t.row.born /\ r.root = t.row.root /\ r.prior = t.row.prior
      /\ \A c \in Batches \ {t.batch} : row'[c] = row[c]
      /\ \A a \in Assets : latest'[a] = IF t.roots[a] = 0 THEN latest[a] ELSE t.roots[a]

LEMMA FinishLands ==
  ASSUME ResultInv, NEW w \in Workers, Finish(w)
  PROVE  Lands(w)
<1> DEFINE b == tx[w].batch
<1>1. Running(w) /\ UNCHANGED <<now, messages, canvas, bounds, database>> /\ Becomes(w, NoTx)
  BY DEF Finish, Running
<1>2. tx[w] \in TxRecords /\ b \in Batches
  BY <1>1, AtWork
<1>3. PICK t \in MayTell(tx[w]), final \in {"failed", "succeeded"} :
        row' = [row EXCEPT ![b] = [t.row EXCEPT !.status = final]]
  BY DEF Finish
<1>4. t \in TxRecords /\ Alike(tx[w], t) /\ Constant(tx[w], t)
  BY <1>2, ToldAlike, ToldConstant
<1> DEFINE r == [t.row EXCEPT !.status = final]
<1>5. /\ r.status = final /\ r.ops = t.row.ops /\ r.born = t.row.born
      /\ r.root = t.row.root /\ r.prior = t.row.prior
  BY <1>4 DEF TxRecords, Rows
<1> HIDE DEF r
<1>6. row \in [Batches -> Rows] /\ row' = [row EXCEPT ![b] = r]
  BY <1>3 DEF ResultInv, TypeOK, r
<1>7. row'[b] = r /\ \A c \in Batches \ {b} : row'[c] = row[c]
  BY <1>2, <1>6
<1>8. \A a \in Assets : latest'[a] = IF tx[w].roots[a] = 0 THEN latest[a] ELSE tx[w].roots[a]
  BY DEF Finish
<1> QED
  BY <1>1, <1>3, <1>4, <1>5, <1>7, <1>8 DEF Lands, Alike, Constant

(* A transaction of worker w is replaced, and those of the others are not.  *)
LEMMA Replaced ==
  ASSUME ResultInv, NEW w \in Workers, NEW t, Becomes(w, t)
  PROVE  tx'[w] = t /\ \A v \in Workers \ {w} : tx'[v] = tx[v]
BY DEF ResultInv, TypeOK, Becomes

-----------------------------------------------------------------------------

(* The queue of confirmed batches. *)

(* In the table r, the batch b was confirmed before any other still pending. *)
Oldest(b, r) == \A c \in Batches : r[c].status = "pending" => r[b].born <= r[c].born

(* A worker past its claim runs a batch still pending in the database, and  *)
(* whoever has selected a batch has the oldest one, unless it is taken.     *)
Queues(t, r) ==
  /\ t.batch \in Batches /\ r[t.batch].status # "none"
  /\ Under(t) => r[t.batch].status = "pending"
  /\ r[t.batch].status = "pending" => Oldest(t.batch, r)

QueueInv ==
  /\ \A b \in Batches : row[b].status = "none" => row[b] = Blank
  /\ \A b \in Confirmed : row[b].born \in 1..Cardinality(Confirmed)
  /\ \A b, c \in Confirmed : row[b].born = row[c].born => b = c
  /\ \A w \in Workers : Running(w) => tx[w].row.born = row[tx[w].batch].born
  /\ retries = 0 => \A w \in Workers : tx[w].pc # "idle" => Queues(tx[w], row)

(* A worker goes on with t, and the tables stay as they are.                *)
LEMMA QueueTakes ==
  ASSUME ResultInv, QueueInv, NEW w \in Workers, NEW t, Becomes(w, t), UNCHANGED row,
         retries' = 0 => retries = 0,
         Under(t) => t.row.born = row[t.batch].born,
         retries' = 0 /\ t.pc # "idle" => Queues(t, row)
  PROVE  QueueInv'
<1>1. tx'[w] = t /\ \A v \in Workers \ {w} : tx'[v] = tx[v]
  BY Replaced
<1>2. Confirmed' = Confirmed
  BY DEF Confirmed
<1>3. \A v \in Workers : Running(v)' => tx'[v].row.born = row[tx'[v].batch].born
  BY <1>1 DEF QueueInv, Running, Under
<1>4. retries' = 0 => \A v \in Workers : tx'[v].pc # "idle" => Queues(tx'[v], row')
  BY <1>1 DEF QueueInv
<1> QED
  BY <1>2, <1>3, <1>4 DEF QueueInv

(* A batch is confirmed, behind all the others.                             *)
LEMMA QueueConfirm ==
  ASSUME ResultInv, QueueInv, NEW b \in Batches, Confirm(b)
  PROVE  QueueInv'
<1> DEFINE n == Cardinality(Confirmed)
<1>1. /\ row[b].status = "none" /\ b \notin Confirmed /\ tx' = tx /\ retries' = retries
      /\ row \in [Batches -> Rows]
  BY DEF Confirm, Confirmed, bounds, ResultInv, TypeOK
<1>2. n \in Nat
  BY FS_CardinalityType DEF ResultInv
<1>3. /\ row'[b].status = "pending" /\ row'[b].born = n + 1
      /\ \A c \in Batches \ {b} : row'[c] = row[c]
  <2>1. row' = [row EXCEPT ![b].status = "pending", ![b].token = <<b, 0>>, ![b].born = 1 + n]
    BY DEF Confirm, Confirmed
  <2> HIDE DEF n
  <2> QED
    BY <1>1, <1>2, <2>1 DEF Rows
<1>4. Confirmed' = Confirmed \cup {b}
  BY <1>1, <1>3 DEF Confirmed
<1>5. Cardinality(Confirmed') = n + 1
  BY <1>1, <1>4, FS_AddElement DEF ResultInv
<1> HIDE DEF n
<1>6. \A c \in Batches : row'[c].status = "none" => row'[c] = Blank
  BY <1>3 DEF QueueInv
<1>7. \A c \in Confirmed : c \in Batches \ {b} /\ row'[c] = row[c] /\ row[c].born \in 1..n
  BY <1>1, <1>3 DEF QueueInv, n, Confirmed
<1>8. \A c \in Confirmed' : row'[c].born \in 1..Cardinality(Confirmed')
  BY <1>2, <1>3, <1>4, <1>5, <1>7
<1>9. \A c, d \in Confirmed' : row'[c].born = row'[d].born => c = d
  <2>1. \A c \in Confirmed : row'[c].born # row'[b].born
    BY <1>2, <1>3, <1>7
  <2> QED
    BY <1>4, <1>7, <2>1 DEF QueueInv
<1>10. \A w \in Workers : Running(w) => tx[w].batch \in Batches \ {b}
  BY <1>1 DEF ResultInv, RunInv, ExclusiveRun, Running
<1>11. \A w \in Workers : Running(w)' => tx'[w].row.born = row'[tx'[w].batch].born
  BY <1>1, <1>3, <1>10 DEF QueueInv, Running
<1>12. ASSUME NEW t, Queues(t, row) PROVE Queues(t, row')
  <2>1. t.batch \in Confirmed /\ row'[t.batch] = row[t.batch]
    BY <1>7, <1>12 DEF Queues, Confirmed
  <2>2. ASSUME Oldest(t.batch, row) PROVE Oldest(t.batch, row')
    BY <1>2, <1>3, <1>7, <2>1, <2>2 DEF Oldest
  <2> QED
    BY <1>4, <1>12, <2>1, <2>2 DEF Queues
<1>13. retries' = 0 => \A w \in Workers : tx'[w].pc # "idle" => Queues(tx'[w], row')
  BY <1>1, <1>12 DEF QueueInv
<1> QED
  BY <1>6, <1>8, <1>9, <1>11, <1>13 DEF QueueInv

(* A batch ends, and keeps its place in the order.                          *)
LEMMA QueueLands ==
  ASSUME ResultInv, QueueInv, NEW w \in Workers, Lands(w)
  PROVE  QueueInv'
<1> DEFINE b == tx[w].batch
<1>1. /\ Running(w) /\ retries' = retries
      /\ row'[b].status \in {"succeeded", "failed"} /\ row'[b].born = tx[w].row.born
      /\ \A c \in Batches \ {b} : row'[c] = row[c]
  BY DEF Lands, bounds
<1>2. b \in Confirmed /\ b \in Batches
  BY <1>1 DEF ResultInv, RunInv, ExclusiveRun, Confirmed, Running
<1>3. \A c \in Batches : row'[c].born = row[c].born
  BY <1>1, <1>2 DEF QueueInv
<1>4. tx'[w] = NoTx /\ \A v \in Workers \ {w} : tx'[v] = tx[v]
  BY Replaced DEF Lands
<1>5. NoTx.pc = "idle"
  BY DEF NoTx
<1>6. Confirmed' = Confirmed
  BY <1>1, <1>2 DEF Confirmed
<1>7. \A c \in Batches : row'[c].status = "none" => row'[c] = Blank
  BY <1>1, <1>2 DEF QueueInv
<1>8. /\ \A c \in Confirmed : row'[c].born \in 1..Cardinality(Confirmed)
      /\ \A c, d \in Confirmed : row'[c].born = row'[d].born => c = d
  BY <1>3 DEF QueueInv, Confirmed
<1>9. \A v \in Workers \ {w} : Running(v) => tx[v].batch \in Batches \ {b}
  BY <1>1 DEF ResultInv, RunInv, ExclusiveRun, RowFree, Others, Running
<1>10. \A v \in Workers : Running(v)' => tx'[v].row.born = row'[tx'[v].batch].born
  BY <1>1, <1>4, <1>5, <1>9 DEF QueueInv, Running
<1>11. ASSUME NEW v \in Workers \ {w}, Queues(tx[v], row) PROVE Queues(tx[v], row')
  <2>1. tx[v].batch \in Batches
    BY <1>11 DEF Queues, Confirmed
  <2>2. row'[tx[v].batch].status = "pending" => row[tx[v].batch].status = "pending"
    BY <1>1, <2>1
  <2>3. Oldest(tx[v].batch, row) => Oldest(tx[v].batch, row')
    BY <1>1, <1>2, <1>3, <2>1 DEF Oldest
  <2>4. Under(tx[v]) => row'[tx[v].batch].status = "pending"
    BY <1>1, <1>9, <1>11 DEF Queues, Under, Running
  <2> QED
    BY <1>1, <1>2, <1>11, <2>1, <2>2, <2>3, <2>4 DEF Queues
<1>12. retries' = 0 => \A v \in Workers : tx'[v].pc # "idle" => Queues(tx'[v], row')
  BY <1>1, <1>4, <1>5, <1>11 DEF QueueInv
<1> QED
  BY <1>6, <1>7, <1>8, <1>10, <1>12 DEF QueueInv

(* QueueInv is inductive.                                                   *)
LEMMA QueueInductive ==
  ASSUME ResultInv, QueueInv, [Next]_vars
  PROVE  QueueInv'
<1>1. ASSUME UNCHANGED <<row, tx, retries>> PROVE QueueInv'
  BY <1>1 DEF QueueInv, Queues, Oldest, Confirmed, Running
<1>2. ASSUME NEW w \in Workers, Select(w) PROVE QueueInv'
  <2>1. PICK b \in Batches :
          /\ row[b].status = "pending"
          /\ \A c \in Batches : row[c].status = "pending" => row[b].born <= row[c].born
          /\ Becomes(w, [NoTx EXCEPT !.pc = "claim", !.batch = b])
    BY <1>2, Zenon DEF Select
  <2> DEFINE t == [NoTx EXCEPT !.pc = "claim", !.batch = b]
  <2>2. t.batch = b /\ t.pc = "claim" /\ ~Under(t)
    BY DEF NoTx, Under
  <2> HIDE DEF t
  <2>3. Queues(t, row)
    BY <2>1, <2>2 DEF Queues, Oldest
  <2> QED
    BY <1>2, <2>1, <2>2, <2>3, QueueTakes DEF Select, committed, bounds, t
<1>3. ASSUME NEW w \in Workers, Becomes(w, NoTx), UNCHANGED <<row, retries>> PROVE QueueInv'
  BY <1>3, NoTxIdle, QueueTakes
<1>4. ASSUME NEW w \in Workers, NEW b \in Batches, Becomes(w, Begun(b)), UNCHANGED row,
             retries' = 0 => retries = 0,
             retries' = 0 => row[b].status = "pending" /\ Oldest(b, row)
      PROVE  QueueInv'
  <2>1. row[b] \in Rows
    BY DEF ResultInv, TypeOK
  <2>2. Begun(b).batch = b /\ Begun(b).row.born = row[b].born
    BY <2>1 DEF Begun, NoTx, Rows
  <2>3. retries' = 0 => Queues(Begun(b), row)
    BY <1>4, <2>2 DEF Queues, Confirmed
  <2> QED
    BY <1>4, <2>2, <2>3, QueueTakes
<1>5. ASSUME NEW w \in Workers, Claim(w) PROVE QueueInv'
  <2>1. tx[w].batch \in Batches /\ tx[w].pc = "claim" /\ UNCHANGED <<row, retries>>
    BY <1>5 DEF Claim, ResultInv, TypeOK, committed, bounds
  <2>2. \/ Becomes(w, NoTx)
        \/ row[tx[w].batch].status = "pending" /\ Becomes(w, Begun(tx[w].batch))
    BY <1>5 DEF Claim
  <2>3. retries = 0 => Queues(tx[w], row)
    BY <2>1 DEF QueueInv
  <2> QED
    BY <1>3, <1>4, <2>1, <2>2, <2>3 DEF Queues
<1>6. ASSUME NEW w \in Workers, NEW b \in Batches, Retry(w, b) PROVE QueueInv'
  <2>1. retries' # 0
    BY <1>6 DEF Retry, ResultInv, TypeOK
  <2> QED
    BY <1>4, <1>6, <2>1 DEF Retry, committed
<1>7. ASSUME NEW w \in Workers, NEW u, Running(w), Becomes(w, u), UNCHANGED <<row, retries>>,
             u.batch = tx[w].batch, u.row.born = tx[w].row.born
      PROVE  QueueInv'
  <2>1. retries = 0 => Queues(u, row)
    BY <1>7 DEF QueueInv, Queues, Running, Under
  <2> QED
    BY <1>7, <2>1, QueueTakes DEF QueueInv
<1>8. ASSUME NEW w \in Workers, Start(w) PROVE QueueInv'
  BY <1>7, <1>8, StartLaunches DEF Launches, Constant, Running, committed, bounds
<1>9. ASSUME NEW w \in Workers, Operation(w) PROVE QueueInv'
  <2>1. PICK u : Proceeds(w, u)
    BY <1>9, OperationProceeds
  <2>2. u.batch = tx[w].batch /\ u.row.born = tx[w].row.born
    BY <2>1 DEF Proceeds, PostsMessage, RecordsRoot, EndsOperation, Ends, Constant
  <2> QED
    BY <1>7, <2>1, <2>2 DEF Proceeds, committed, bounds
<1>10. ASSUME NEW w \in Workers, Finish(w) PROVE QueueInv'
  BY <1>10, FinishLands, QueueLands
<1>11. ASSUME NEW w \in Workers, Crash(w) PROVE QueueInv'
  BY <1>3, <1>11 DEF Crash, committed
<1>13. ASSUME NEW w \in Workers, Escape(w) PROVE QueueInv'
  BY <1>3, <1>13 DEF Escape, committed
<1>12. CASE Tick \/ UNCHANGED vars
  BY <1>1, <1>12 DEF Tick, vars, committed, bounds
<1> QED
  BY <1>2, <1>5, <1>6, <1>8, <1>9, <1>10, <1>11, <1>12, <1>13, QueueConfirm DEF Next, Work

LEMMA QueueStarts == Init => QueueInv
<1> SUFFICES ASSUME Init PROVE QueueInv
  OBVIOUS
<1>1. Confirmed = {} /\ \A b \in Batches : row[b] = Blank
  BY DEF Init, Confirmed, Blank
<1>2. \A w \in Workers : ~Running(w) /\ tx[w].pc = "idle"
  BY DEF Init, Running, NoTx
<1> QED
  BY <1>1, <1>2 DEF QueueInv

(* Until a batch is retried, two workers at work are the same one.          *)
LEMMA OldestAlone ==
  ASSUME ResultInv, QueueInv, retries = 0
  PROVE  OneBatchPerChannel
<1> SUFFICES ASSUME NEW v \in Workers, NEW w \in Workers, Running(v), Running(w) PROVE v = w
  BY DEF OneBatchPerChannel
<1> DEFINE b == tx[v].batch
           c == tx[w].batch
<1>1. Queues(tx[v], row) /\ Queues(tx[w], row) /\ Under(tx[v]) /\ Under(tx[w])
  BY DEF QueueInv, Running, Under
<1>2. b \in Confirmed /\ c \in Confirmed /\ b \in Batches /\ c \in Batches
  BY <1>1 DEF Queues, Confirmed
<1>3. row[b].born \in Nat /\ row[c].born \in Nat
  BY <1>2 DEF ResultInv, TypeOK, Rows
<1>4. row[b].born <= row[c].born /\ row[c].born <= row[b].born
  BY <1>1, <1>2 DEF Queues, Oldest
<1>5. b = c
  BY <1>2, <1>3, <1>4 DEF QueueInv
<1> QED
  BY <1>5 DEF ResultInv, RunInv, ExclusiveRun, RowFree, Others

LEMMA QueueHolds == Spec => [](ResultInv /\ QueueInv)
<1>1. ResultInv /\ QueueInv /\ [Next]_vars => QueueInv'
  BY QueueInductive
<1> QED
  BY <1>1, QueueStarts, ResultsHold, PTL DEF Spec

(* "Only one batch may process in a channel at a time": as long as no       *)
(* failed batch has been retried, no two workers are ever at work, because  *)
(* every worker goes for the oldest pending batch and finds it taken.       *)
THEOREM OneBatchAtATime == Spec => [](retries = 0 => OneBatchPerChannel)
<1>1. ResultInv /\ QueueInv => (retries = 0 => OneBatchPerChannel)
  BY OldestAlone
<1> QED
  BY <1>1, QueueHolds, PTL

-----------------------------------------------------------------------------

(* The latest root. *)

(* A transaction has posted a root that it has not recorded.                *)
Posting(t, a) == t.pc = "record" /\ t.step = PostStep(a)

(* The root ts is or was the latest as far as anybody knows.                *)
Remembers(t, ts, a) == ts = t.row.prior[a] \/ (Posting(t, a) /\ ts = t.seen)

WasLatest(ts, a) ==
  \/ ts = latest[a]
  \/ \E b \in Batches : ts = row[b].prior[a]
  \/ \E w \in Workers : Running(w) /\ Remembers(tx[w], ts, a)

(* A transaction has posted the root ts, which nobody else has heard of.    *)
Holds(t, ts, a) == ts # 0 /\ (t.roots[a] = ts \/ (Posting(t, a) /\ t.ts = ts))

Fresh(ts, a) ==
  /\ IsRoot(ts, a) /\ messages[ts].shown = "latest"
  /\ row[messages[ts].batch].root[a] # ts
  /\ ~WasLatest(ts, a)

(* What a transaction says of an asset is either its own or what it copied. *)
Copies(t, a, r) ==
  /\ t.roots[a] # 0 => t.row.root[a] = t.roots[a]
  /\ t.roots[a] = 0 => t.row.root[a] = r[t.batch].root[a] /\ t.row.prior[a] = r[t.batch].prior[a]

(* A root of the asset that its batch does not know of.                     *)
Lost(a) == \E ts \in 1..Len(messages) : IsRoot(ts, a) /\ ts # row[messages[ts].batch].root[a]

LatestInv ==
  /\ \A b \in Batches, a \in Assets : row[b].root[a] \in 0..Len(messages)
  /\ \A a \in Assets, ts \in Nat \ {0} : WasLatest(ts, a) => IsRoot(ts, a)
  /\ \A b \in Batches, a \in Assets : row[b].prior[a] # 0 => row[b].prior[a] # latest[a]
  /\ \A w \in Workers, a \in Assets : Running(w) => Copies(tx[w], a, row)
  /\ \A w \in Workers, a \in Assets, ts \in Nat :
       Running(w) /\ Holds(tx[w], ts, a) => Fresh(ts, a) /\ messages[ts].batch = tx[w].batch
  /\ \A a \in Assets : latest[a] # 0 /\ messages[latest[a]].shown # "latest" =>
       Lost(a) /\ (crashes = 0 => \E w \in Workers : Running(w) /\ tx[w].roots[a] # 0)

(* A worker goes on with t, while messages may be shown differently.        *)
LEMMA LatestGoes ==
  ASSUME ResultInv, LatestInv, NEW w \in Workers, NEW t, Becomes(w, t), UNCHANGED <<row, latest>>,
         NEW X, Fades(X),
         \A i \in X, a \in Assets : IsRoot(i, a) =>
           WasLatest(i, a) /\ (i = latest[a] => Under(t) /\ t.roots[a] # 0),
         Under(t) => t \in TxRecords /\ \A a \in Assets :
           /\ Copies(t, a, row)
           /\ \A ts \in Nat : Remembers(t, ts, a) => WasLatest(ts, a)
           /\ \A ts \in Nat : Holds(t, ts, a) => Fresh(ts, a) /\ messages[ts].batch = t.batch,
         crashes' = 0 => crashes = 0,
         crashes' = 0 /\ Running(w) => \A a \in Assets : tx[w].roots[a] # 0 => Under(t) /\ t.roots[a] # 0
  PROVE  LatestInv'
<1>1. tx'[w] = t /\ \A v \in Workers \ {w} : tx'[v] = tx[v]
  BY Replaced
<1>2. Len(messages) \in Nat /\ Len(messages') = Len(messages)
  BY LenProperties DEF ResultInv, TypeOK, Fades
<1>3. \A v \in Workers \ {w} : Running(v)' <=> Running(v)
  BY <1>1 DEF Running
<1>4. Running(w)' <=> Under(t)
  BY <1>1 DEF Running, Under
<1>5. ASSUME NEW ts \in Nat, NEW a \in Assets PROVE IsRoot(ts, a)' <=> IsRoot(ts, a)
  BY <1>2 DEF IsRoot, Fades
<1>6. ASSUME NEW ts \in Nat, NEW a \in Assets, WasLatest(ts, a)' PROVE WasLatest(ts, a)
  BY <1>1, <1>3, <1>4, <1>6 DEF WasLatest
<1>7. ASSUME NEW ts \in Nat, NEW a \in Assets, Fresh(ts, a) PROVE Fresh(ts, a)'
  <2>1. IsRoot(ts, a) /\ ts \in 1..Len(messages) /\ ts \notin X
    BY <1>7 DEF Fresh, IsRoot
  <2> QED
    BY <1>5, <1>6, <1>7, <2>1 DEF Fresh, Fades
<1>8. \A b \in Batches, a \in Assets : row'[b].root[a] \in 0..Len(messages')
  BY <1>2 DEF LatestInv
<1>9. \A a \in Assets, ts \in Nat \ {0} : WasLatest(ts, a)' => IsRoot(ts, a)'
  BY <1>5, <1>6 DEF LatestInv
<1>10. \A v \in Workers, a \in Assets : Running(v)' => Copies(tx'[v], a, row')
  BY <1>1, <1>3, <1>4 DEF LatestInv
<1>11. ASSUME NEW v \in Workers, NEW a \in Assets, NEW ts \in Nat, Running(v)', Holds(tx'[v], ts, a)
       PROVE  Fresh(ts, a)' /\ messages'[ts].batch = tx'[v].batch
  <2>1. Fresh(ts, a) /\ messages[ts].batch = tx'[v].batch
    BY <1>1, <1>3, <1>4, <1>11 DEF LatestInv
  <2>2. messages'[ts].batch = messages[ts].batch
    BY <2>1 DEF Fresh, IsRoot, Fades
  <2> QED
    BY <1>7, <2>1, <2>2
<1>12. ASSUME NEW a \in Assets, Lost(a) PROVE Lost(a)'
  BY <1>2, <1>5, <1>12 DEF Lost, Fades
<1>13. ASSUME NEW a \in Assets, latest'[a] # 0, messages'[latest'[a]].shown # "latest"
       PROVE  Lost(a)' /\ (crashes' = 0 => \E v \in Workers : Running(v)' /\ tx'[v].roots[a] # 0)
  <2>1. IsRoot(latest[a], a) /\ latest[a] \in 1..Len(messages)
    <3>1. latest[a] \in Nat \ {0} /\ WasLatest(latest[a], a)
      BY <1>13 DEF ResultInv, TypeOK, WasLatest
    <3> QED
      BY <3>1 DEF LatestInv, IsRoot
  <2>2. CASE messages[latest[a]].shown # "latest"
    <3>1. Lost(a) /\ (crashes = 0 => \E v \in Workers : Running(v) /\ tx[v].roots[a] # 0)
      BY <1>13, <2>2 DEF LatestInv
    <3> QED
      BY <1>1, <1>3, <1>4, <1>12, <3>1
  <2>3. CASE latest[a] \in X
    <3>1. Under(t) /\ t.roots[a] # 0 /\ t.roots[a] \in Nat
      BY <2>1, <2>3 DEF TxRecords
    <3>2. PICK ts \in Nat : ts = t.roots[a]
      BY <3>1
    <3>3. Fresh(ts, a)
      BY <3>1, <3>2 DEF Holds
    <3>4. Lost(a)
      BY <3>3 DEF Fresh, IsRoot, Lost
    <3> QED
      BY <1>1, <1>4, <1>12, <3>1, <3>4
  <2> QED
    BY <1>13, <2>1, <2>2, <2>3 DEF Fades
<1> QED
  BY <1>8, <1>9, <1>10, <1>11, <1>13 DEF LatestInv

(* A message is posted: if it is a root, nobody has heard of it yet.        *)
LEMMA LatestPosts ==
  ASSUME ResultInv, LatestInv, NEW w \in Workers, NEW u, Proceeds(w, u), PostsMessage(tx[w], u)
  PROVE  LatestInv'
<1> DEFINE t == tx[w]
           new == Len(messages) + 1
<1>1. /\ tx'[w] = u /\ (\A v \in Workers \ {w} : tx'[v] = tx[v])
      /\ Running(w) /\ UNCHANGED <<row, latest, crashes>> /\ u \in TxRecords
      /\ t.pc = "run" /\ u.pc = "record" /\ u.batch = t.batch /\ u.step = t.step
      /\ u.row = t.row /\ u.roots = t.roots /\ u.ts = new
  BY Replaced DEF Proceeds, PostsMessage, committed, bounds
<1>2. Len(messages) \in Nat /\ t \in TxRecords /\ t.batch \in Batches
  BY <1>1, AtWork
<1>3. PICK shown : Adds(t, shown) /\ \A a \in Assets : Posting(u, a) => shown = "latest" /\ u.seen = latest[a]
  <2>1. CASE t.step = 1 /\ Adds(t, "creating")
    BY <1>1, <2>1, PlanDistinct DEF Posting
  <2>2. ASSUME NEW c \in Assets, t.step = PostStep(c), u.seen = latest[c], Adds(t, "latest")
        PROVE  \A a \in Assets : Posting(u, a) => u.seen = latest[a]
    BY <1>1, <2>2, PlanDistinct DEF Posting
  <2> QED
    BY <2>1, <2>2 DEF PostsMessage
<1>4. /\ Len(messages') = new
      /\ \A i \in 1..Len(messages) : messages'[i] = messages[i]
      /\ messages'[new].batch = t.batch /\ messages'[new].step = t.step /\ messages'[new].shown = shown
  BY <1>3 DEF Adds
<1>5. new \in Nat \ {0} /\ new \notin 1..Len(messages) /\ new \in 1..Len(messages') /\ Len(messages) <= Len(messages')
  BY <1>2, <1>4
<1>6. \A i \in 1..Len(messages) : i \in 1..Len(messages')
  BY <1>2, <1>4
<1> HIDE DEF t, new
<1>7. \A v \in Workers : Running(v)' <=> Running(v)
  BY <1>1 DEF Running
<1>8. ASSUME NEW ts \in Nat, NEW a \in Assets, IsRoot(ts, a) PROVE IsRoot(ts, a)'
  BY <1>4, <1>6, <1>8 DEF IsRoot
<1>9. ASSUME NEW ts \in Nat, NEW a \in Assets, WasLatest(ts, a)' PROVE WasLatest(ts, a)
  <2>1. Remembers(u, ts, a) => Remembers(t, ts, a) \/ ts = latest[a]
    BY <1>1, <1>3 DEF Remembers
  <2>2. CASE \E v \in Workers : Running(v)' /\ Remembers(tx'[v], ts, a)
    BY <1>1, <1>7, <2>1, <2>2 DEF WasLatest, t
  <2> QED
    BY <1>1, <1>9, <2>2 DEF WasLatest
<1>10. ASSUME NEW ts \in Nat, NEW a \in Assets, Fresh(ts, a) PROVE Fresh(ts, a)'
  <2>1. ts \in 1..Len(messages) /\ messages'[ts] = messages[ts]
    BY <1>4, <1>10 DEF Fresh, IsRoot
  <2> QED
    BY <1>1, <1>8, <1>9, <1>10, <2>1 DEF Fresh
<1>11. \A b \in Batches, a \in Assets : row'[b].root[a] \in 0..Len(messages')
  <2>1. \A b \in Batches, a \in Assets : row[b].root[a] \in 0..Len(messages)
    BY DEF LatestInv
  <2> QED
    BY <1>1, <1>2, <1>4, <2>1 DEF new
<1>12. \A a \in Assets, ts \in Nat \ {0} : WasLatest(ts, a)' => IsRoot(ts, a)'
  BY <1>8, <1>9 DEF LatestInv
<1>13. \A v \in Workers, a \in Assets : Running(v)' => Copies(tx'[v], a, row')
  <2>1. \A a \in Assets : Copies(t, a, row) => Copies(u, a, row)
    BY <1>1 DEF Copies
  <2> QED
    BY <1>1, <1>7, <2>1 DEF LatestInv, t
<1>14. ASSUME NEW v \in Workers, NEW a \in Assets, NEW ts \in Nat, Running(v)', Holds(tx'[v], ts, a)
       PROVE  Fresh(ts, a)' /\ messages'[ts].batch = tx'[v].batch
  <2>1. CASE Holds(tx[v], ts, a)
    <3>1. Fresh(ts, a) /\ messages[ts].batch = tx[v].batch
      BY <1>7, <1>14, <2>1 DEF LatestInv
    <3>2. messages'[ts].batch = messages[ts].batch
      BY <1>4, <3>1 DEF Fresh, IsRoot
    <3> QED
      BY <1>1, <1>10, <3>1, <3>2 DEF t
  <2>2. CASE ~Holds(tx[v], ts, a)
    <3>1. v = w /\ ts = new /\ Posting(u, a)
      BY <1>1, <1>14, <2>2 DEF Holds, t
    <3>2. shown = "latest" /\ t.step = PostStep(a)
      BY <1>1, <1>3, <3>1 DEF Posting
    <3>3. IsRoot(ts, a)' /\ messages'[ts].shown = "latest" /\ messages'[ts].batch = t.batch
      BY <1>4, <1>5, <3>1, <3>2 DEF IsRoot
    <3>4. row'[t.batch].root[a] # ts
      BY <1>1, <1>2, <1>5, <3>1 DEF LatestInv
    <3>5. ~IsRoot(ts, a)
      BY <1>5, <3>1 DEF IsRoot
    <3>6. ~WasLatest(ts, a)'
      BY <1>5, <1>9, <3>1, <3>5 DEF LatestInv
    <3> QED
      BY <1>1, <3>1, <3>3, <3>4, <3>6 DEF Fresh
  <2> QED
    BY <2>1, <2>2
<1>15. ASSUME NEW a \in Assets, latest'[a] # 0, messages'[latest'[a]].shown # "latest"
       PROVE  Lost(a)' /\ (crashes' = 0 => \E v \in Workers : Running(v)' /\ tx'[v].roots[a] # 0)
  <2>1. IsRoot(latest[a], a) /\ latest[a] \in 1..Len(messages)
    <3>1. latest[a] \in Nat \ {0} /\ WasLatest(latest[a], a)
      BY <1>1, <1>15 DEF ResultInv, TypeOK, WasLatest
    <3> QED
      BY <3>1 DEF LatestInv, IsRoot
  <2>2. Lost(a) /\ (crashes = 0 => \E v \in Workers : Running(v) /\ tx[v].roots[a] # 0)
    BY <1>1, <1>4, <1>15, <2>1 DEF LatestInv
  <2>3. Lost(a)'
    <3>1. PICK ts \in 1..Len(messages) : IsRoot(ts, a) /\ ts # row[messages[ts].batch].root[a]
      BY <2>2 DEF Lost
    <3>2. ts \in Nat /\ ts \in 1..Len(messages') /\ messages'[ts] = messages[ts]
      BY <1>4, <1>6
    <3> QED
      BY <1>1, <1>8, <3>1, <3>2 DEF Lost
  <2> QED
    BY <1>1, <1>7, <2>2, <2>3 DEF t
<1>16. \A b \in Batches, a \in Assets : row'[b].prior[a] # 0 => row'[b].prior[a] # latest'[a]
  BY <1>1 DEF LatestInv
<1> QED
  BY <1>11, <1>12, <1>13, <1>14, <1>15, <1>16 DEF LatestInv

(* A run ends: the roots it has recorded become the latest.                 *)
LEMMA LatestLands ==
  ASSUME ResultInv, LatestInv, NEW w \in Workers, Lands(w)
  PROVE  LatestInv'
<1> DEFINE t == tx[w]
           b == t.batch
<1>1. /\ Running(w) /\ UNCHANGED <<messages, crashes>>
      /\ row'[b].root = t.row.root /\ row'[b].prior = t.row.prior
      /\ \A c \in Batches \ {b} : row'[c] = row[c]
      /\ \A a \in Assets : latest'[a] = IF t.roots[a] = 0 THEN latest[a] ELSE t.roots[a]
  BY DEF Lands, bounds
<1>2. t \in TxRecords /\ b \in Batches /\ Len(messages) \in Nat /\ \A a \in Assets : t.roots[a] \in 0..Len(messages)
  BY <1>1, AtWork DEF Honest
<1>3. tx'[w] = NoTx /\ NoTx.pc = "idle" /\ \A v \in Workers \ {w} : tx'[v] = tx[v]
  BY Replaced DEF Lands, NoTx
<1>4. ~Running(w)' /\ \A v \in Workers \ {w} : Running(v)' <=> Running(v)
  BY <1>3 DEF Running
<1>5. \A v \in Workers \ {w} : Running(v) => tx[v].batch \in Batches \ {b}
  BY <1>1 DEF ResultInv, RunInv, ExclusiveRun, RowFree, Others, Running
<1> HIDE DEF t, b
<1>6. \A a \in Assets : Copies(t, a, row)
  BY <1>1 DEF LatestInv, t
<1>7. \A a \in Assets, ts \in Nat : Holds(t, ts, a) => Fresh(ts, a) /\ messages[ts].batch = b
  BY <1>1 DEF LatestInv, t, b
<1>8. ASSUME NEW a \in Assets, t.roots[a] # 0
      PROVE  Fresh(t.roots[a], a) /\ messages[t.roots[a]].batch = b
  <2>1. PICK ts \in Nat : ts = t.roots[a]
    BY <1>2, <1>8
  <2>2. Holds(t, ts, a)
    BY <1>8, <2>1 DEF Holds
  <2> QED
    BY <1>7, <2>1, <2>2
<1>9. ASSUME NEW ts \in Nat, NEW a \in Assets, WasLatest(ts, a)'
      PROVE  WasLatest(ts, a) \/ (ts = t.roots[a] /\ ts # 0)
  <2>1. CASE ts = latest'[a]
    BY <1>1, <2>1 DEF WasLatest
  <2>2. CASE \E c \in Batches : ts = row'[c].prior[a]
    <3>1. PICK c \in Batches : ts = row'[c].prior[a]
      BY <2>2
    <3>2. CASE c = b
      BY <1>1, <3>1, <3>2 DEF WasLatest, Remembers, t
    <3>3. CASE c # b
      BY <1>1, <3>1, <3>3 DEF WasLatest
    <3> QED
      BY <3>2, <3>3
  <2>3. CASE \E v \in Workers : Running(v)' /\ Remembers(tx'[v], ts, a)
    BY <1>3, <1>4, <2>3 DEF WasLatest
  <2> QED
    BY <1>9, <2>1, <2>2, <2>3 DEF WasLatest
<1>10. \A ts \in Nat, a \in Assets : IsRoot(ts, a)' <=> IsRoot(ts, a)
  BY <1>1 DEF IsRoot
<1>11. \A c \in Batches, a \in Assets : row'[c].root[a] \in 0..Len(messages')
  <2>1. ASSUME NEW a \in Assets PROVE t.row.root[a] \in 0..Len(messages)
    BY <1>2, <1>6 DEF Copies, LatestInv, b
  <2> QED
    BY <1>1, <2>1 DEF LatestInv
<1>12. ASSUME NEW a \in Assets, NEW ts \in Nat \ {0}, WasLatest(ts, a)' PROVE IsRoot(ts, a)'
  <2>1. CASE WasLatest(ts, a)
    BY <1>10, <2>1 DEF LatestInv
  <2>2. CASE ts = t.roots[a]
    BY <1>8, <1>10, <2>2 DEF Fresh
  <2> QED
    BY <1>9, <1>12, <2>1, <2>2
<1>13. ASSUME NEW c \in Batches, NEW a \in Assets, row'[c].prior[a] # 0
       PROVE  row'[c].prior[a] # latest'[a]
  <2>1. CASE t.roots[a] = 0
    <3>1. row'[c].prior[a] = row[c].prior[a] /\ latest'[a] = latest[a]
      BY <1>1, <1>2, <1>6, <2>1 DEF Copies, b
    <3> QED
      BY <1>13, <3>1 DEF LatestInv
  <2>2. CASE t.roots[a] # 0
    <3>1. WasLatest(row'[c].prior[a], a)
      BY <1>1 DEF WasLatest, Remembers, t
    <3>2. ~WasLatest(t.roots[a], a)
      BY <1>8, <2>2 DEF Fresh
    <3> QED
      BY <1>1, <2>2, <3>1, <3>2
  <2> QED
    BY <2>1, <2>2
<1>14. ASSUME NEW v \in Workers, NEW a \in Assets, Running(v)'
       PROVE  Copies(tx'[v], a, row')
  <2>1. v # w /\ tx'[v] = tx[v] /\ row'[tx[v].batch] = row[tx[v].batch]
    BY <1>1, <1>3, <1>4, <1>5, <1>14
  <2>2. Copies(tx[v], a, row)
    BY <1>4, <1>14, <2>1 DEF LatestInv
  <2> QED
    BY <2>1, <2>2 DEF Copies
<1>15. ASSUME NEW v \in Workers, NEW a \in Assets, NEW ts \in Nat, Running(v)', Holds(tx'[v], ts, a)
       PROVE  Fresh(ts, a)' /\ messages'[ts].batch = tx'[v].batch
  <2>1. v # w /\ tx'[v] = tx[v] /\ Fresh(ts, a) /\ messages[ts].batch = tx[v].batch /\ tx[v].batch \in Batches \ {b}
    BY <1>3, <1>4, <1>5, <1>15 DEF LatestInv
  <2>2. ~WasLatest(ts, a)'
    BY <1>8, <1>9, <2>1 DEF Fresh
  <2> QED
    BY <1>1, <1>10, <2>1, <2>2 DEF Fresh
<1>16. ASSUME NEW a \in Assets, latest'[a] # 0, messages'[latest'[a]].shown # "latest"
       PROVE  Lost(a)' /\ (crashes' = 0 => \E v \in Workers : Running(v)' /\ tx'[v].roots[a] # 0)
  <2>1. t.roots[a] = 0
    <3>1. SUFFICES ASSUME t.roots[a] # 0 PROVE FALSE
      OBVIOUS
    <3> QED
      BY <1>1, <1>8, <1>16, <3>1 DEF Fresh
  <2>2. Lost(a) /\ (crashes = 0 => \E v \in Workers : Running(v) /\ tx[v].roots[a] # 0)
    BY <1>1, <1>16, <2>1 DEF LatestInv
  <2>3. \A c \in Batches : row'[c].root[a] = row[c].root[a]
    BY <1>1, <1>6, <2>1 DEF Copies, b
  <2>4. Lost(a)'
    <3>1. PICK ts \in 1..Len(messages) : IsRoot(ts, a) /\ ts # row[messages[ts].batch].root[a]
      BY <2>2 DEF Lost
    <3>2. messages[ts].batch \in Batches
      <4>1. messages \in Seq(Messages)
        BY DEF ResultInv, TypeOK
      <4>2. messages[ts] \in Messages
        BY <4>1, ElementOfSeq
      <4> QED
        BY <4>2 DEF Messages
    <3> QED
      BY <1>1, <1>10, <2>3, <3>1, <3>2 DEF Lost
  <2>5. \A v \in Workers : Running(v) /\ tx[v].roots[a] # 0 => Running(v)' /\ tx'[v].roots[a] # 0
    BY <1>3, <1>4, <2>1 DEF t
  <2> QED
    BY <1>1, <2>2, <2>4, <2>5
<1> QED
  BY <1>11, <1>12, <1>13, <1>14, <1>15, <1>16 DEF LatestInv

(* A batch is confirmed: none of its roots is known yet.                    *)
LEMMA LatestConfirm ==
  ASSUME ResultInv, LatestInv, NEW b \in Batches, Confirm(b)
  PROVE  LatestInv'
<1>1. /\ UNCHANGED <<latest, tx, messages, crashes>>
      /\ \A c \in Batches : row'[c].root = row[c].root /\ row'[c].prior = row[c].prior
  BY DEF Confirm, ResultInv, TypeOK, Rows, bounds
<1>2. \A w \in Workers : Running(w)' <=> Running(w)
  BY <1>1 DEF Running
<1>3. \A ts \in Nat, a \in Assets : (IsRoot(ts, a)' <=> IsRoot(ts, a)) /\ (WasLatest(ts, a)' <=> WasLatest(ts, a))
  BY <1>1, <1>2 DEF IsRoot, WasLatest
<1>4. \A i \in 1..Len(messages) : messages[i].batch \in Batches
  <2>1. ASSUME NEW i \in 1..Len(messages) PROVE messages[i].batch \in Batches
    <3>1. messages \in Seq(Messages)
      BY DEF ResultInv, TypeOK
    <3>2. messages[i] \in Messages
      BY <3>1, ElementOfSeq
    <3> QED
      BY <3>2 DEF Messages
  <2> QED
    BY <2>1
<1>5. ASSUME NEW ts \in Nat, NEW a \in Assets, Fresh(ts, a) PROVE Fresh(ts, a)'
  <2>1. messages[ts].batch \in Batches
    BY <1>4, <1>5 DEF Fresh, IsRoot
  <2> QED
    BY <1>1, <1>3, <1>5, <2>1 DEF Fresh
<1>6. ASSUME NEW a \in Assets, Lost(a) PROVE Lost(a)'
  <2>1. PICK ts \in 1..Len(messages) : IsRoot(ts, a) /\ ts # row[messages[ts].batch].root[a]
    BY <1>6 DEF Lost
  <2>2. ts \in Nat /\ messages[ts].batch \in Batches
    BY <1>4
  <2> QED
    BY <1>1, <1>3, <2>1, <2>2 DEF Lost
<1>7. \A w \in Workers : Running(w) => tx[w].batch \in Batches
  BY DEF ResultInv, TypeOK, Running
<1>8. \A w \in Workers, a \in Assets : Running(w)' => Copies(tx'[w], a, row')
  BY <1>1, <1>2, <1>7 DEF LatestInv, Copies
<1>9. \A w \in Workers, a \in Assets, ts \in Nat :
        Running(w)' /\ Holds(tx'[w], ts, a) => Fresh(ts, a)' /\ messages'[ts].batch = tx'[w].batch
  BY <1>1, <1>2, <1>5 DEF LatestInv
<1>10. \A a \in Assets, ts \in Nat \ {0} : WasLatest(ts, a)' => IsRoot(ts, a)'
  BY <1>3 DEF LatestInv
<1>11. /\ \A c \in Batches, a \in Assets : row'[c].root[a] \in 0..Len(messages')
       /\ \A c \in Batches, a \in Assets : row'[c].prior[a] # 0 => row'[c].prior[a] # latest'[a]
  BY <1>1 DEF LatestInv
<1>12. \A a \in Assets : latest'[a] # 0 /\ messages'[latest'[a]].shown # "latest" =>
         Lost(a)' /\ (crashes' = 0 => \E w \in Workers : Running(w)' /\ tx'[w].roots[a] # 0)
  BY <1>1, <1>2, <1>6 DEF LatestInv
<1> QED
  BY <1>8, <1>9, <1>10, <1>11, <1>12 DEF LatestInv

(* A worker takes up a batch with what the tables say of it.                *)
LEMMA LatestBegins ==
  ASSUME ResultInv, LatestInv, NEW w \in Workers, ~Running(w), NEW b \in Batches,
         Becomes(w, Begun(b)), UNCHANGED <<row, latest, messages, crashes>>
  PROVE  LatestInv'
<1> DEFINE t == Begun(b)
<1>1. t \in TxRecords /\ t.batch = b
  BY BegunHonest
<1>2. row[b] \in Rows
  BY DEF ResultInv, TypeOK
<1>3. t.pc = "start" /\ (\A a \in Assets : t.roots[a] = 0) /\ t.row.root = row[b].root /\ t.row.prior = row[b].prior
  BY <1>2 DEF Begun, NoTx, Rows
<1> HIDE DEF t
<1>4. ASSUME NEW a \in Assets
      PROVE  /\ Copies(t, a, row)
             /\ \A ts \in Nat : Remembers(t, ts, a) => WasLatest(ts, a)
             /\ \A ts \in Nat : ~Holds(t, ts, a)
  BY <1>1, <1>3 DEF Copies, Remembers, WasLatest, Holds, Posting
<1>5. Fades({})
  BY DEF Fades
<1>6. Becomes(w, t)
  BY DEF t
<1> QED
  BY <1>1, <1>4, <1>5, <1>6, LatestGoes

(* A worker goes on with what it knows, or ends an operation.               *)
LEMMA LatestEnds ==
  ASSUME ResultInv, LatestInv, NEW w \in Workers, Running(w), NEW u \in TxRecords, Becomes(w, u),
         UNCHANGED <<row, latest, crashes>>, NEW X, Fades(X),
         \A i \in X, a \in Assets : IsRoot(i, a) =>
           WasLatest(i, a) /\ (i = latest[a] => tx[w].roots[a] # 0),
         u.pc = "run", u.batch = tx[w].batch, u.roots = tx[w].roots,
         u.row.root = tx[w].row.root, u.row.prior = tx[w].row.prior
  PROVE  LatestInv'
<1>1. ASSUME NEW a \in Assets
      PROVE  /\ Copies(u, a, row)
             /\ \A ts \in Nat : Remembers(u, ts, a) => WasLatest(ts, a)
             /\ \A ts \in Nat : Holds(u, ts, a) => Fresh(ts, a) /\ messages[ts].batch = u.batch
  <2>1. Copies(u, a, row)
    BY DEF LatestInv, Copies
  <2>2. \A ts \in Nat : Remembers(u, ts, a) => WasLatest(ts, a)
    BY DEF Remembers, WasLatest, Posting
  <2>3. \A ts \in Nat : Holds(u, ts, a) => Holds(tx[w], ts, a)
    BY DEF Holds, Posting
  <2> QED
    BY <2>1, <2>2, <2>3 DEF LatestInv
<1>2. Under(u)
  BY DEF Under
<1> QED
  BY <1>1, <1>2, LatestGoes

(* A worker records the root it has posted: what was fresh is still so.     *)
LEMMA LatestRecords ==
  ASSUME ResultInv, LatestInv, NEW w \in Workers, Running(w), NEW u \in TxRecords, Becomes(w, u),
         UNCHANGED <<row, latest, crashes>>, RecordsRoot(tx[w], u)
  PROVE  LatestInv'
<1> DEFINE t == tx[w]
<1>1. PICK c \in Assets :
        /\ t.pc = "record" /\ t.step = PostStep(c) /\ u.pc = "run" /\ u.batch = t.batch
        /\ u.roots = [t.roots EXCEPT ![c] = t.ts]
        /\ u.row.root = [t.row.root EXCEPT ![c] = t.ts]
        /\ u.row.prior = [t.row.prior EXCEPT ![c] = t.seen]
        /\ UNCHANGED messages
  BY DEF RecordsRoot
<1>2. t \in TxRecords /\ t.pc = "record" => Posted(t.ts, t.batch, t.step, messages)
  BY AtWork DEF Honest
<1>3. t \in TxRecords /\ t.ts \in Nat /\ t.ts # 0
  BY <1>1, <1>2, AtWork DEF TxRecords, Posted
<1>4. \A a \in Assets :
        /\ u.roots[a] = IF a = c THEN t.ts ELSE t.roots[a]
        /\ u.row.root[a] = IF a = c THEN t.ts ELSE t.row.root[a]
        /\ u.row.prior[a] = IF a = c THEN t.seen ELSE t.row.prior[a]
  BY <1>1, <1>3 DEF TxRecords, Rows
<1>5. \A a \in Assets : Copies(t, a, row)
  BY DEF LatestInv
<1>6. \A a \in Assets, ts \in Nat : Holds(t, ts, a) => Fresh(ts, a) /\ messages[ts].batch = t.batch
  BY DEF LatestInv
<1>7. \A a \in Assets, ts \in Nat : Remembers(t, ts, a) => WasLatest(ts, a)
  BY DEF WasLatest
<1>8. Becomes(w, u) /\ Running(w) /\ Fades({})
  BY <1>1 DEF Fades
<1>9. \A a \in Assets : t.roots[a] # 0 => u.roots[a] # 0
  BY <1>3, <1>4
<1>10. ASSUME NEW a \in Assets
       PROVE  /\ Copies(u, a, row)
              /\ \A ts \in Nat : Remembers(u, ts, a) => WasLatest(ts, a)
              /\ \A ts \in Nat : Holds(u, ts, a) => Fresh(ts, a) /\ messages[ts].batch = u.batch
  <2> HIDE DEF t
  <2>1. Copies(u, a, row)
    BY <1>1, <1>3, <1>4, <1>5 DEF Copies
  <2>2. \A ts \in Nat : Remembers(u, ts, a) => Remembers(t, ts, a)
    BY <1>1, <1>4 DEF Remembers, Posting
  <2>3. \A ts \in Nat : Holds(u, ts, a) => Holds(t, ts, a)
    BY <1>1, <1>4 DEF Holds, Posting
  <2> QED
    BY <1>1, <1>6, <1>7, <2>1, <2>2, <2>3
<1>11. Under(u)
  BY <1>1 DEF Under
<1> QED
  BY <1>8, <1>9, <1>10, <1>11, LatestGoes

(* LatestInv is inductive.                                                  *)
LEMMA LatestInductive ==
  ASSUME ResultInv, LatestInv, [Next]_vars
  PROVE  LatestInv'
<1>1. ASSUME NEW w \in Workers, NEW t, Becomes(w, t), ~Under(t), UNCHANGED <<row, latest, messages>>,
             crashes' = 0 => crashes = 0 /\ (Running(w) => \A a \in Assets : tx[w].roots[a] = 0)
      PROVE  LatestInv'
  <2>1. Fades({})
    BY <1>1 DEF Fades
  <2> QED
    BY <1>1, <2>1, LatestGoes
<1>2. ASSUME NEW w \in Workers, Select(w) PROVE LatestInv'
  <2>1. PICK b \in Batches : Becomes(w, [NoTx EXCEPT !.pc = "claim", !.batch = b])
    BY <1>2, Zenon DEF Select
  <2> DEFINE t == [NoTx EXCEPT !.pc = "claim", !.batch = b]
  <2>2. ~Under(t) /\ Becomes(w, t)
    BY <2>1 DEF NoTx, Under
  <2> HIDE DEF t
  <2> QED
    BY <1>1, <1>2, <2>2 DEF Select, committed, bounds, Running
<1>3. ASSUME NEW w \in Workers, Claim(w) PROVE LatestInv'
  <2>1. tx[w].batch \in Batches /\ ~Running(w) /\ UNCHANGED <<row, latest, messages, crashes>>
    BY <1>3 DEF Claim, ResultInv, TypeOK, committed, bounds, Running
  <2>2. Becomes(w, NoTx) \/ Becomes(w, Begun(tx[w].batch))
    BY <1>3 DEF Claim
  <2> QED
    BY <1>1, <2>1, <2>2, NoTxIdle, LatestBegins
<1>4. ASSUME NEW w \in Workers, NEW b \in Batches, Retry(w, b) PROVE LatestInv'
  BY <1>4, LatestBegins DEF Retry, committed, Running
<1>5. ASSUME NEW w \in Workers, Start(w) PROVE LatestInv'
  <2>1. PICK u : Launches(w, u)
    BY <1>5, StartLaunches
  <2>2. Fades({}) /\ Running(w)
    BY <2>1 DEF Fades, Launches, Running
  <2> QED
    BY <2>1, <2>2, LatestEnds DEF Launches, Constant, committed, bounds
<1>6. ASSUME NEW w \in Workers, Operation(w) PROVE LatestInv'
  <2>1. PICK u : Proceeds(w, u)
    BY <1>6, OperationProceeds
  <2>2. Running(w) /\ u \in TxRecords /\ Becomes(w, u) /\ UNCHANGED <<row, latest, crashes>>
    BY <2>1 DEF Proceeds, committed, bounds
  <2>3. CASE EndsOperation(tx[w], u)
    <3>1. PICK status \in {"succeeded", "failed"}, X \in SUBSET Nat :
            /\ Ends(tx[w], u, status) /\ Fades(X)
            /\ \A i \in X :
                 \/ i \in 1..Len(messages) => messages[i].step = 1
                 \/ \E a \in Assets : tx[w].step = RetireStep(a) /\ i = tx[w].row.prior[a] /\ i # 0
      BY <2>3 DEF EndsOperation
    <3>2. ASSUME NEW i \in X, NEW a \in Assets, IsRoot(i, a)
          PROVE  WasLatest(i, a) /\ (i = latest[a] => tx[w].roots[a] # 0)
      <4>1. messages[i].step # 1 /\ i \in 1..Len(messages)
        BY <3>2, PlanDistinct DEF IsRoot
      <4>2. PICK c \in Assets : i = tx[w].row.prior[c] /\ i # 0
        BY <3>1, <4>1
      <4>3. i \in Nat \ {0} /\ WasLatest(i, c)
        BY <2>2, <4>2 DEF WasLatest, Remembers
      <4>4. c = a
        BY <3>2, <4>3, PlanDistinct DEF LatestInv, IsRoot
      <4>5. tx[w].batch \in Batches /\ Copies(tx[w], a, row)
        BY <2>2, AtWork DEF LatestInv
      <4>6. tx[w].roots[a] = 0 => i # latest[a]
        BY <4>2, <4>4, <4>5 DEF Copies, LatestInv
      <4> QED
        BY <4>3, <4>4, <4>6
    <3> QED
      BY <2>2, <3>1, <3>2, LatestEnds DEF Ends, Constant
  <2> QED
    BY <2>1, <2>2, <2>3, LatestPosts, LatestRecords DEF Proceeds
<1>7. ASSUME NEW w \in Workers, Crash(w) PROVE LatestInv'
  <2>1. crashes' # 0
    BY <1>7 DEF Crash, ResultInv, TypeOK
  <2> QED
    BY <1>1, <1>7, <2>1, NoTxIdle DEF Crash, committed
<1>9. ASSUME NEW w \in Workers, Escape(w) PROVE LatestInv'
  <2>1. /\ Running(w) /\ Becomes(w, NoTx) /\ UNCHANGED <<row, latest, messages>>
        /\ (tx[w].step = 1 /\ UNCHANGED crashes) \/ crashes' = crashes + 1
    BY <1>9 DEF Escape, committed
  <2>2. tx[w].step = 1 => \A a \in Assets : tx[w].roots[a] = 0
    BY <2>1, AtWork DEF Honest
  <2>3. crashes \in Nat
    BY BatchAssumption DEF ResultInv, TypeOK
  <2> QED
    BY <1>1, <2>1, <2>2, <2>3, NoTxIdle
<1>8. CASE Tick \/ UNCHANGED vars
  <2>1. UNCHANGED <<row, latest, tx, messages, crashes>>
    BY <1>8 DEF Tick, vars, committed, bounds
  <2>2. LatestInv' <=> LatestInv
    BY <2>1 DEF LatestInv, IsRoot, WasLatest, Fresh, Lost, Running
  <2> QED
    BY <2>2
<1> QED
  BY <1>2, <1>3, <1>4, <1>5, <1>6, <1>7, <1>8, <1>9, FinishLands, LatestLands, LatestConfirm DEF Next, Work

LEMMA LatestStarts == Init => LatestInv
<1> SUFFICES ASSUME Init PROVE LatestInv
  OBVIOUS
<1>1. /\ \A b \in Batches, a \in Assets : row[b].root[a] = 0 /\ row[b].prior[a] = 0
      /\ \A a \in Assets : latest[a] = 0
      /\ \A w \in Workers : ~Running(w)
  BY DEF Init, Blank, Running, NoTx
<1>2. \A a \in Assets, ts \in Nat \ {0} : ~WasLatest(ts, a)
  BY <1>1 DEF WasLatest
<1>3. Len(messages) = 0
  BY DEF Init
<1> QED
  BY <1>1, <1>2, <1>3 DEF LatestInv

LEMMA LatestHolds == Spec => [](ResultInv /\ QueueInv /\ LatestInv)
<1>1. ResultInv /\ LatestInv /\ [Next]_vars => LatestInv'
  BY LatestInductive
<1> QED
  BY <1>1, LatestStarts, QueueHolds, PTL DEF Spec

(* Whatever fails, however workers interleave and batches are retried: when *)
(* nobody is at work and no worker has died, the root the history calls     *)
(* latest is shown as Latest, because only prior roots are ever retired and *)
(* the root of a run becomes the latest when the run is committed.          *)
THEOREM LatestIsShown == Spec => []LatestShown
<1>1. ResultInv /\ LatestInv => LatestShown
  <2> SUFFICES ASSUME ResultInv, LatestInv, Quiet, crashes = 0, NEW a \in Assets, latest[a] # 0
      PROVE  messages[latest[a]].step = PostStep(a) /\ messages[latest[a]].shown = "latest"
    BY DEF LatestShown
  <2>1. latest[a] \in Nat \ {0} /\ WasLatest(latest[a], a)
    BY DEF ResultInv, TypeOK, WasLatest
  <2>2. IsRoot(latest[a], a)
    BY <2>1 DEF LatestInv
  <2>3. messages[latest[a]].shown = "latest"
    BY DEF LatestInv, Quiet
  <2> QED
    BY <2>2, <2>3 DEF IsRoot
<1> QED
  BY <1>1, LatestHolds, PTL

-----------------------------------------------------------------------------

(* The marks. *)

(* Workers are alone as long as no batch is retried, or there is just one.  *)
Alone == retries = 0 \/ \A v, w \in Workers : v = w

(* A row with a prior root has posted its own, and a prior root that it     *)
(* says has been retired is not shown as Latest in the channel m.           *)
Retires(r, m) ==
  \A a \in Assets :
    /\ r.prior[a] # 0 => r.ops[PostStep(a)] = "succeeded"
    /\ r.ops[RetireStep(a)] = "succeeded" =>
         r.ops[PostStep(a)] = "succeeded" /\ (r.prior[a] # 0 => m[r.prior[a]].shown # "latest")

(* A transaction has seen the root that is still the latest.                *)
SeesLatest(t, a, now_latest) ==
  /\ t.roots[a] # 0 => t.row.prior[a] = now_latest[a]
  /\ Posting(t, a) => t.seen = now_latest[a]

(* A root that is marked is the latest, is to be retired, or was lost.      *)
Explained(ts, a) ==
  \/ ts = latest[a]
  \/ \E b \in Batches : row[b].prior[a] = ts /\ row[b].ops[RetireStep(a)] # "succeeded"
  \/ ts # row[messages[ts].batch].root[a]

MarkInv ==
  /\ \A b \in Batches : Retires(row[b], messages)
  /\ \A w \in Workers : Running(w) => Retires(tx[w].row, messages)
  /\ Alone =>
       /\ \A w \in Workers, a \in Assets : Running(w) => SeesLatest(tx[w], a, latest)
       /\ \A a \in Assets, ts \in 1..Len(messages) :
            IsRoot(ts, a) /\ messages[ts].shown = "latest" => Explained(ts, a)

(* No message comes back as Latest.                                         *)
Dims(m, n) ==
  /\ Len(m) <= Len(n)
  /\ \A i \in 1..Len(m) : /\ n[i].batch = m[i].batch /\ n[i].step = m[i].step
                          /\ n[i].shown = "latest" => m[i].shown = "latest"

(* The roots that rows and transactions call prior are messages.            *)
LEMMA PriorsPosted ==
  ASSUME ResultInv, LatestInv, NEW a \in Assets
  PROVE  /\ \A b \in Batches : row[b].prior[a] # 0 => row[b].prior[a] \in 1..Len(messages)
         /\ \A w \in Workers : Running(w) /\ tx[w].row.prior[a] # 0 => tx[w].row.prior[a] \in 1..Len(messages)
         /\ \A w \in Workers : Running(w) /\ Posting(tx[w], a) /\ tx[w].seen # 0 => tx[w].seen \in 1..Len(messages)
<1>1. ASSUME NEW ts \in Nat, WasLatest(ts, a), ts # 0 PROVE ts \in 1..Len(messages)
  BY <1>1 DEF LatestInv, IsRoot
<1>2. ASSUME NEW b \in Batches, row[b].prior[a] # 0 PROVE row[b].prior[a] \in 1..Len(messages)
  BY <1>1, <1>2 DEF WasLatest, ResultInv, TypeOK, Rows
<1>3. ASSUME NEW w \in Workers, Running(w), NEW ts, Remembers(tx[w], ts, a), ts # 0, ts \in Nat
      PROVE  ts \in 1..Len(messages)
  BY <1>1, <1>3 DEF WasLatest
<1>4. ASSUME NEW w \in Workers, Running(w)
      PROVE  tx[w].row.prior[a] \in Nat /\ tx[w].seen \in Nat
  BY <1>4, AtWork DEF TxRecords, Rows
<1> QED
  BY <1>2, <1>3, <1>4 DEF Remembers

LEMMA RetiresStays ==
  ASSUME NEW r, NEW m, NEW n, Dims(m, n), Retires(r, m),
         \A a \in Assets : r.prior[a] # 0 => r.prior[a] \in 1..Len(m)
  PROVE  Retires(r, n)
BY DEF Retires, Dims

(* A root that is explained stays so when a worker goes on, and a new one   *)
(* is not the one its batch has committed.                                  *)
LEMMA MarkGoes ==
  ASSUME ResultInv, LatestInv, MarkInv, NEW w \in Workers, NEW t, Becomes(w, t),
         UNCHANGED <<row, latest>>, retries' = 0 => retries = 0, Len(messages') \in Nat,
         Dims(messages, messages'),
         \A i \in (Len(messages) + 1)..Len(messages') : messages'[i].batch \in Batches,
         Under(t) => Retires(t.row, messages'),
         Under(t) /\ Alone => \A a \in Assets : SeesLatest(t, a, latest)
  PROVE  MarkInv'
<1>1. tx'[w] = t /\ \A v \in Workers \ {w} : tx'[v] = tx[v]
  BY Replaced
<1>2. Len(messages) \in Nat
  BY LenProperties DEF ResultInv, TypeOK
<1>3. (\A v \in Workers \ {w} : Running(v)' <=> Running(v)) /\ (Running(w)' <=> Under(t))
  BY <1>1 DEF Running, Under
<1>4. \A b \in Batches : Retires(row'[b], messages')
  BY PriorsPosted, RetiresStays DEF MarkInv
<1>5. \A v \in Workers : Running(v)' => Retires(tx'[v].row, messages')
  BY <1>1, <1>3, PriorsPosted, RetiresStays DEF MarkInv
<1>6. ASSUME Alone', NEW v \in Workers, NEW a \in Assets, Running(v)'
      PROVE  SeesLatest(tx'[v], a, latest')
  BY <1>1, <1>3, <1>6 DEF MarkInv, Alone
<1>7. ASSUME Alone', NEW a \in Assets, NEW ts \in 1..Len(messages'),
             IsRoot(ts, a)', messages'[ts].shown = "latest"
      PROVE  Explained(ts, a)'
  <2>1. CASE ts \in 1..Len(messages)
    <3>1. IsRoot(ts, a) /\ messages[ts].shown = "latest" /\ messages'[ts].batch = messages[ts].batch
      BY <1>7, <2>1 DEF IsRoot, Dims
    <3>2. Explained(ts, a)
      BY <1>7, <2>1, <3>1 DEF MarkInv, Alone
    <3> QED
      BY <3>1, <3>2 DEF Explained
  <2>2. CASE ts \notin 1..Len(messages)
    <3>1. ts \in (Len(messages) + 1)..Len(messages')
      BY <1>2, <2>2
    <3>2. messages'[ts].batch \in Batches
      BY <3>1
    <3>3. row[messages'[ts].batch].root[a] # ts
      BY <1>2, <3>1, <3>2 DEF LatestInv
    <3> QED
      BY <3>3 DEF Explained
  <2> QED
    BY <2>1, <2>2
<1> QED
  BY <1>4, <1>5, <1>6, <1>7 DEF MarkInv

LEMMA FadesDims ==
  ASSUME NEW X, Fades(X), Len(messages) \in Nat
  PROVE  Dims(messages, messages') /\ Len(messages') \in Nat
BY DEF Fades, Dims

(* What an operation leaves of the marks.                                   *)
LEMMA MarkProceeds ==
  ASSUME ResultInv, LatestInv, MarkInv, NEW w \in Workers, NEW u, Proceeds(w, u)
  PROVE  MarkInv'
<1> DEFINE t == tx[w]
<1>1. /\ Running(w) /\ t.step \in Steps /\ u \in TxRecords /\ Becomes(w, u)
      /\ UNCHANGED <<row, latest, retries>>
  BY DEF Proceeds, committed, bounds
<1>2. /\ t \in TxRecords /\ t.batch \in Batches /\ Len(messages) \in Nat
      /\ Honest(t, row[t.batch], messages, Kept(canvas, t.batch))
  BY <1>1, AtWork
<1>3. Retires(t.row, messages) /\ (Alone => \A a \in Assets : SeesLatest(t, a, latest))
  BY <1>1 DEF MarkInv
<1>4. \A a \in Assets : t.row.prior[a] # 0 => t.row.prior[a] \in 1..Len(messages)
  BY <1>1, PriorsPosted
<1>5. Under(t) /\ (t.pc \in {"run", "record"} => t.row.ops[t.step] # "succeeded")
  BY <1>1, <1>2 DEF Honest, OnCourse, Running, Under
<1>6. CASE PostsMessage(t, u)
  <2>1. /\ u.pc = "record" /\ u.step = t.step /\ u.row = t.row /\ u.roots = t.roots
        /\ \E shown : Adds(t, shown)
    BY <1>6 DEF PostsMessage
  <2>2. Dims(messages, messages') /\ Len(messages') = Len(messages) + 1 /\ messages'[Len(messages) + 1].batch = t.batch
    BY <1>2, <2>1 DEF Adds, Dims
  <2>3. \A i \in (Len(messages) + 1)..Len(messages') : i = Len(messages) + 1
    BY <1>2, <2>2
  <2>4. Retires(u.row, messages')
    BY <1>3, <1>4, <2>1, <2>2, RetiresStays
  <2>5. ASSUME Alone, NEW a \in Assets PROVE SeesLatest(u, a, latest)
    <3>1. Posting(u, a) => u.seen = latest[a]
      <4>1. CASE t.step = 1
        BY <2>1, <4>1, PlanDistinct DEF Posting
      <4>2. CASE \E c \in Assets : t.step = PostStep(c) /\ u.seen = latest[c]
        BY <2>1, <4>2, PlanDistinct DEF Posting
      <4> QED
        BY <1>6, <4>1, <4>2 DEF PostsMessage
    <3> QED
      BY <1>3, <2>1, <2>5, <3>1 DEF SeesLatest
  <2>6. Len(messages') \in Nat
    BY <1>2, <2>2
  <2> HIDE DEF t
  <2> QED
    BY <1>1, <1>2, <2>2, <2>3, <2>4, <2>5, <2>6, MarkGoes
<1>7. CASE RecordsRoot(t, u)
  <2> HIDE DEF t
  <2>1. PICK c \in Assets :
          /\ t.pc = "record" /\ t.step = PostStep(c) /\ u.pc = "run"
          /\ u.roots = [t.roots EXCEPT ![c] = t.ts]
          /\ u.row.prior = [t.row.prior EXCEPT ![c] = t.seen]
          /\ u.row.ops = [t.row.ops EXCEPT ![t.step] = "succeeded"]
          /\ UNCHANGED messages
    BY <1>7 DEF RecordsRoot
  <2>2. /\ \A a \in Assets : u.roots[a] = IF a = c THEN t.ts ELSE t.roots[a]
        /\ \A a \in Assets : u.row.prior[a] = IF a = c THEN t.seen ELSE t.row.prior[a]
        /\ \A s \in Steps : u.row.ops[s] = IF s = PostStep(c) THEN "succeeded" ELSE t.row.ops[s]
    BY <1>2, <2>1 DEF TxRecords, Rows
  <2>3. Retires(u.row, messages)
    BY <1>3, <1>5, <2>1, <2>2, PlanDistinct, PlanRetires DEF Retires
  <2>4. ASSUME Alone, NEW a \in Assets PROVE SeesLatest(u, a, latest)
    BY <1>3, <2>1, <2>2, <2>4 DEF SeesLatest, Posting
  <2>5. Dims(messages, messages') /\ \A i \in (Len(messages) + 1)..Len(messages') : FALSE
    BY <1>2, <2>1 DEF Dims
  <2> QED
    BY <1>1, <1>2, <2>1, <2>3, <2>4, <2>5, MarkGoes
<1>8. CASE EndsOperation(t, u)
  <2>1. PICK status \in {"succeeded", "failed"}, X \in SUBSET Nat :
          /\ Ends(t, u, status) /\ Fades(X)
          /\ status = "succeeded" => \A a \in Assets : t.step = RetireStep(a) =>
                t.row.ops[PostStep(a)] = "succeeded" /\ (t.row.prior[a] = 0 \/ t.row.prior[a] \in X)
    BY <1>8 DEF EndsOperation
  <2> HIDE DEF t
  <2>2. /\ u.pc = "run" /\ u.roots = t.roots /\ u.row.prior = t.row.prior
        /\ \A s \in Steps : u.row.ops[s] = IF s = t.step THEN status ELSE t.row.ops[s]
    BY <1>2, <2>1 DEF Ends, Constant, TxRecords, Rows
  <2>3. Dims(messages, messages') /\ Len(messages') = Len(messages)
    BY <1>2, <2>1, FadesDims DEF Fades
  <2>4. Retires(t.row, messages')
    BY <1>3, <1>4, <2>3, RetiresStays
  <2>5. t.row.ops[t.step] # "succeeded"
    <3>1. t.pc \in {"run", "record"}
      BY DEF Proceeds, t
    <3> QED
      BY <1>5, <3>1
  <2>6. Retires(u.row, messages')
    <3> SUFFICES ASSUME NEW a \in Assets
        PROVE  /\ u.row.prior[a] # 0 => u.row.ops[PostStep(a)] = "succeeded"
               /\ u.row.ops[RetireStep(a)] = "succeeded" =>
                    /\ u.row.ops[PostStep(a)] = "succeeded"
                    /\ u.row.prior[a] # 0 => messages'[u.row.prior[a]].shown # "latest"
      BY DEF Retires
    <3>1. PostStep(a) \in Steps /\ RetireStep(a) \in Steps /\ PostStep(a) # RetireStep(a)
      BY PlanDistinct, PlanRetires
    <3>2. t.row.ops[PostStep(a)] = "succeeded" => u.row.ops[PostStep(a)] = "succeeded"
      BY <2>2, <2>5, <3>1
    <3>3. CASE t.step = RetireStep(a)
      <4>1. u.row.ops[RetireStep(a)] = status
        BY <2>2, <3>1, <3>3
      <4>2. t.row.prior[a] \in X /\ t.row.prior[a] # 0 => messages'[t.row.prior[a]].shown # "latest"
        BY <1>4, <2>1 DEF Fades
      <4> QED
        BY <2>1, <2>2, <2>4, <3>2, <3>3, <4>1, <4>2 DEF Retires
    <3>4. CASE t.step # RetireStep(a)
      BY <2>2, <2>4, <3>1, <3>2, <3>4 DEF Retires
    <3> QED
      BY <3>3, <3>4
  <2>7. ASSUME Alone, NEW a \in Assets PROVE SeesLatest(u, a, latest)
    BY <1>3, <2>2, <2>7 DEF SeesLatest, Posting
  <2>8. Len(messages') \in Nat /\ \A i \in (Len(messages) + 1)..Len(messages') : FALSE
    BY <1>2, <2>3
  <2> QED
    BY <1>1, <2>3, <2>6, <2>7, <2>8, MarkGoes
<1> QED
  BY <1>6, <1>7, <1>8 DEF Proceeds

(* A run ends: the root it saw as the latest is its prior root, so it is    *)
(* retired or left to be retired by a retry.                                *)
LEMMA MarkLands ==
  ASSUME ResultInv, QueueInv, LatestInv, MarkInv, NEW w \in Workers, Lands(w)
  PROVE  MarkInv'
<1> DEFINE t == tx[w]
           b == t.batch
<1>1. /\ Running(w) /\ UNCHANGED <<messages, retries>>
      /\ row'[b].ops = t.row.ops /\ row'[b].root = t.row.root /\ row'[b].prior = t.row.prior
      /\ \A c \in Batches \ {b} : row'[c] = row[c]
      /\ \A a \in Assets : latest'[a] = IF t.roots[a] = 0 THEN latest[a] ELSE t.roots[a]
  BY DEF Lands, bounds
<1>2. /\ t \in TxRecords /\ b \in Batches /\ Len(messages) \in Nat
      /\ Carries(t.row, row[b])
  BY <1>1, AtWork DEF Honest
<1>3. tx'[w] = NoTx /\ NoTx.pc = "idle" /\ \A v \in Workers \ {w} : tx'[v] = tx[v]
  BY Replaced DEF Lands, NoTx
<1>4. ~Running(w)' /\ \A v \in Workers \ {w} : Running(v)' <=> Running(v)
  BY <1>3 DEF Running
<1>5. Alone' <=> Alone
  BY <1>1 DEF Alone
<1>6. ASSUME Alone, NEW v \in Workers, Running(v)' PROVE FALSE
  <2>1. Running(v) /\ v # w
    BY <1>4, <1>6
  <2>2. OneBatchPerChannel \/ \A x, y \in Workers : x = y
    BY <1>6, OldestAlone DEF Alone
  <2> QED
    BY <1>1, <2>1, <2>2 DEF OneBatchPerChannel
<1>7. Retires(t.row, messages) /\ (Alone => \A a \in Assets : SeesLatest(t, a, latest))
  BY <1>1 DEF MarkInv
<1> HIDE DEF t, b
<1>8. \A c \in Batches : Retires(row'[c], messages')
  BY <1>1, <1>7 DEF MarkInv, Retires
<1>9. \A v \in Workers : Running(v)' => Retires(tx'[v].row, messages')
  BY <1>1, <1>3, <1>4 DEF MarkInv
<1>10. ASSUME Alone', NEW a \in Assets, NEW ts \in 1..Len(messages'),
              IsRoot(ts, a)', messages'[ts].shown = "latest"
       PROVE  Explained(ts, a)'
  <2>1. ts \in 1..Len(messages) /\ IsRoot(ts, a) /\ messages[ts].shown = "latest" /\ ts \in Nat \ {0}
    BY <1>1, <1>10 DEF IsRoot
  <2>2. Explained(ts, a)
    BY <1>5, <1>10, <2>1 DEF MarkInv
  <2>3. Copies(t, a, row)
    BY <1>1 DEF LatestInv, t
  <2>4. t.roots[a] # 0 => t.row.prior[a] = latest[a]
    BY <1>5, <1>7, <1>10 DEF SeesLatest
  <2>5. ASSUME t.row.prior[a] = ts PROVE Explained(ts, a)'
    <3>1. t.row.ops[RetireStep(a)] # "succeeded"
      BY <1>7, <2>1, <2>5 DEF Retires
    <3> QED
      BY <1>1, <1>2, <2>5, <3>1 DEF Explained
  <2>6. CASE ts = latest[a]
    <3>1. CASE t.roots[a] = 0
      BY <1>1, <2>6, <3>1 DEF Explained
    <3>2. CASE t.roots[a] # 0
      BY <2>4, <2>5, <2>6, <3>2
    <3> QED
      BY <3>1, <3>2
  <2>7. ASSUME NEW c \in Batches, row[c].prior[a] = ts, row[c].ops[RetireStep(a)] # "succeeded"
        PROVE  Explained(ts, a)'
    <3>1. CASE c # b
      BY <1>1, <2>7, <3>1 DEF Explained
    <3>2. CASE c = b /\ t.roots[a] = 0
      BY <2>3, <2>5, <2>7, <3>2 DEF Copies, b
    <3>3. CASE c = b /\ t.roots[a] # 0
      <4>1. row[b].ops[PostStep(a)] = "succeeded"
        BY <1>2, <2>1, <2>7, <3>3 DEF MarkInv, Retires
      <4>2. t.row.root[a] = row[b].root[a] /\ t.row.root[a] = t.roots[a]
        BY <1>2, <2>3, <3>3, <4>1 DEF Carries, Copies
      <4>3. PICK r \in Nat : r = t.roots[a]
        BY <1>2 DEF TxRecords
      <4>4. Fresh(r, a) /\ messages[r].batch = b
        <5>1. Holds(t, r, a)
          BY <3>3, <4>3 DEF Holds
        <5> QED
          BY <1>1, <5>1 DEF LatestInv, t, b
      <4> QED
        BY <4>2, <4>3, <4>4 DEF Fresh
    <3> QED
      BY <3>1, <3>2, <3>3
  <2>8. CASE ts # row[messages[ts].batch].root[a]
    <3>1. CASE messages[ts].batch # b
      <4>1. messages[ts].batch \in Batches
        <5>1. messages \in Seq(Messages)
          BY DEF ResultInv, TypeOK
        <5>2. messages[ts] \in Messages
          BY <2>1, <5>1, ElementOfSeq
        <5> QED
          BY <5>2 DEF Messages
      <4> QED
        BY <1>1, <2>8, <3>1, <4>1 DEF Explained
    <3>2. CASE messages[ts].batch = b /\ t.roots[a] = 0
      BY <1>1, <2>3, <2>8, <3>2 DEF Explained, Copies, b
    <3>3. CASE messages[ts].batch = b /\ t.roots[a] # 0
      <4>1. row'[b].root[a] = latest'[a] /\ messages'[ts].batch = b
        BY <1>1, <2>3, <3>3 DEF Copies
      <4>2. ts = latest'[a] \/ ts # row'[messages'[ts].batch].root[a]
        BY <4>1
      <4> QED
        BY <4>2 DEF Explained
    <3> QED
      BY <3>1, <3>2, <3>3
  <2> QED
    BY <2>2, <2>6, <2>7, <2>8 DEF Explained
<1> QED
  BY <1>5, <1>6, <1>8, <1>9, <1>10 DEF MarkInv

(* MarkInv is inductive.                                                    *)
LEMMA MarkInductive ==
  ASSUME ResultInv, QueueInv, LatestInv, MarkInv, [Next]_vars
  PROVE  MarkInv'
<1>1. Len(messages) \in Nat
  BY LenProperties DEF ResultInv, TypeOK
<1>2. ASSUME NEW w \in Workers, NEW t, Becomes(w, t), UNCHANGED <<row, latest, messages>>,
             retries' = 0 => retries = 0,
             Under(t) => Retires(t.row, messages) /\ \A a \in Assets : t.roots[a] = 0 /\ ~Posting(t, a)
      PROVE  MarkInv'
  <2>1. Dims(messages, messages') /\ Len(messages') \in Nat
    BY <1>1, <1>2 DEF Dims
  <2>2. \A i \in (Len(messages) + 1)..Len(messages') : FALSE
    BY <1>1, <1>2
  <2>3. Under(t) => Retires(t.row, messages') /\ \A a \in Assets : SeesLatest(t, a, latest)
    BY <1>2 DEF SeesLatest
  <2> QED
    BY <1>2, <2>1, <2>2, <2>3, MarkGoes
<1>3. ASSUME NEW w \in Workers, Select(w) PROVE MarkInv'
  <2>1. PICK b \in Batches : Becomes(w, [NoTx EXCEPT !.pc = "claim", !.batch = b])
    BY <1>3, Zenon DEF Select
  <2> DEFINE t == [NoTx EXCEPT !.pc = "claim", !.batch = b]
  <2>2. ~Under(t) /\ Becomes(w, t)
    BY <2>1 DEF NoTx, Under
  <2> HIDE DEF t
  <2> QED
    BY <1>2, <1>3, <2>2 DEF Select, committed, bounds
<1>4. ASSUME NEW w \in Workers, NEW b \in Batches, Becomes(w, Begun(b)),
             UNCHANGED <<row, latest, messages>>, retries' = 0 => retries = 0
      PROVE  MarkInv'
  <2>1. row[b] \in Rows
    BY DEF ResultInv, TypeOK
  <2>2. /\ Begun(b).pc = "start" /\ \A a \in Assets : Begun(b).roots[a] = 0
        /\ Begun(b).row.ops = row[b].ops /\ Begun(b).row.prior = row[b].prior
    BY <2>1 DEF Begun, NoTx, Rows
  <2>3. Retires(Begun(b).row, messages)
    BY <2>2 DEF MarkInv, Retires
  <2>4. \A a \in Assets : ~Posting(Begun(b), a)
    BY <2>2 DEF Posting
  <2> QED
    BY <1>2, <1>4, <2>2, <2>3, <2>4
<1>5. ASSUME NEW w \in Workers, Claim(w) PROVE MarkInv'
  <2>1. tx[w].batch \in Batches /\ UNCHANGED <<row, latest, messages, retries>>
    BY <1>5 DEF Claim, ResultInv, TypeOK, committed, bounds
  <2>2. Becomes(w, NoTx) \/ Becomes(w, Begun(tx[w].batch))
    BY <1>5 DEF Claim
  <2> QED
    BY <1>2, <1>4, <2>1, <2>2, NoTxIdle
<1>6. ASSUME NEW w \in Workers, NEW b \in Batches, Retry(w, b) PROVE MarkInv'
  <2>1. retries' # 0
    BY <1>6 DEF Retry, ResultInv, TypeOK
  <2> QED
    BY <1>4, <1>6, <2>1 DEF Retry, committed
<1>7. ASSUME NEW w \in Workers, Start(w) PROVE MarkInv'
  <2>1. PICK u : Launches(w, u)
    BY <1>7, StartLaunches
  <2>2. /\ Running(w) /\ Becomes(w, u) /\ UNCHANGED <<row, latest, messages, retries>> /\ u.pc = "run"
        /\ u.roots = tx[w].roots /\ u.row.ops = tx[w].row.ops /\ u.row.prior = tx[w].row.prior
    BY <2>1 DEF Launches, Constant, Running, committed, bounds
  <2>3. Dims(messages, messages') /\ Len(messages') \in Nat
    BY <1>1, <2>2 DEF Dims
  <2>4. \A i \in (Len(messages) + 1)..Len(messages') : FALSE
    BY <1>1, <2>2
  <2>5. Retires(u.row, messages')
    BY <2>2 DEF MarkInv, Retires
  <2>6. Alone => \A a \in Assets : SeesLatest(u, a, latest)
    BY <2>2 DEF MarkInv, SeesLatest, Posting
  <2> QED
    BY <2>2, <2>3, <2>4, <2>5, <2>6, MarkGoes
<1>8. ASSUME NEW w \in Workers, Operation(w) PROVE MarkInv'
  BY <1>8, OperationProceeds, MarkProceeds
<1>9. ASSUME NEW w \in Workers, Finish(w) PROVE MarkInv'
  BY <1>9, FinishLands, MarkLands
<1>10. ASSUME NEW w \in Workers, Crash(w) PROVE MarkInv'
  BY <1>2, <1>10, NoTxIdle DEF Crash, committed
<1>14. ASSUME NEW w \in Workers, Escape(w) PROVE MarkInv'
  BY <1>2, <1>14, NoTxIdle DEF Escape, committed
<1>11. ASSUME UNCHANGED <<latest, tx, messages, retries>>,
              \A b \in Batches : /\ row'[b].ops = row[b].ops /\ row'[b].root = row[b].root
                                 /\ row'[b].prior = row[b].prior
       PROVE  MarkInv'
  <2>1. \A ts \in 1..Len(messages) : messages[ts].batch \in Batches
    <3>1. messages \in Seq(Messages)
      BY DEF ResultInv, TypeOK
    <3>2. \A ts \in 1..Len(messages) : messages[ts] \in Messages
      BY <3>1, ElementOfSeq
    <3> QED
      BY <3>2 DEF Messages
  <2>2. \A b \in Batches : Retires(row'[b], messages')
    BY <1>11 DEF MarkInv, Retires
  <2>3. (Alone' <=> Alone) /\ \A w \in Workers : Running(w)' <=> Running(w)
    BY <1>11 DEF Alone, Running
  <2>4. \A a \in Assets, ts \in 1..Len(messages) : Explained(ts, a) => Explained(ts, a)'
    BY <1>11, <2>1 DEF Explained
  <2>5. \A w \in Workers : Running(w)' => Retires(tx'[w].row, messages')
    BY <1>11, <2>3 DEF MarkInv
  <2>6. Alone' => \A w \in Workers, a \in Assets : Running(w)' => SeesLatest(tx'[w], a, latest')
    BY <1>11, <2>3 DEF MarkInv
  <2>7. Alone' => \A a \in Assets, ts \in 1..Len(messages') :
          IsRoot(ts, a)' /\ messages'[ts].shown = "latest" => Explained(ts, a)'
    BY <1>11, <2>3, <2>4 DEF MarkInv, IsRoot
  <2> QED
    BY <2>2, <2>5, <2>6, <2>7 DEF MarkInv
<1>12. ASSUME NEW b \in Batches, Confirm(b) PROVE MarkInv'
  BY <1>11, <1>12 DEF Confirm, ResultInv, TypeOK, Rows, bounds
<1>13. CASE Tick \/ UNCHANGED vars
  BY <1>11, <1>13 DEF Tick, vars, committed, bounds
<1> QED
  BY <1>3, <1>5, <1>6, <1>7, <1>8, <1>9, <1>10, <1>12, <1>13, <1>14 DEF Next, Work

LEMMA MarkStarts == Init => MarkInv
<1> SUFFICES ASSUME Init PROVE MarkInv
  OBVIOUS
<1>1. /\ \A b \in Batches, a \in Assets : row[b].prior[a] = 0
      /\ \A b \in Batches, s \in Steps : row[b].ops[s] = "pending"
      /\ \A w \in Workers : ~Running(w)
      /\ Len(messages) = 0
  BY DEF Init, Blank, Running, NoTx
<1>2. \A b \in Batches : Retires(row[b], messages)
  BY <1>1, PlanRetires DEF Retires
<1> QED
  BY <1>1, <1>2 DEF MarkInv

LEMMA MarkHolds == Spec => [](ResultInv /\ QueueInv /\ LatestInv /\ MarkInv)
<1>1. ResultInv /\ QueueInv /\ LatestInv /\ MarkInv /\ [Next]_vars => MarkInv'
  BY MarkInductive
<1> QED
  BY <1>1, MarkStarts, LatestHolds, PTL DEF Spec

(* What is known of a channel in which everything has succeeded and every   *)
(* message is recorded: a root is the one its batch has committed.          *)
LEMMA RecordedRoots ==
  ASSUME ResultInv, QueueInv, LatestInv, AllRecorded,
         \A b \in Batches : row[b].status \in {"none", "succeeded"},
         NEW a \in Assets, NEW ts, IsRoot(ts, a)
  PROVE  ts = row[messages[ts].batch].root[a]
<1> DEFINE b == messages[ts].batch
<1>1. ts \in 1..Len(messages) /\ messages[ts].step = PostStep(a) /\ ts # 0
  BY DEF IsRoot
<1>2. b \in Batches
  <2>1. messages \in Seq(Messages)
    BY DEF ResultInv, TypeOK
  <2>2. messages[ts] \in Messages
    BY <1>1, <2>1, ElementOfSeq
  <2> QED
    BY <2>2 DEF Messages
<1>3. ts = row[b].summary \/ \E c \in Assets : ts = row[b].root[c]
  BY <1>1 DEF AllRecorded
<1> HIDE DEF b
<1>4. CASE row[b].status = "none"
  <2>1. row[b].summary = 0 /\ \A c \in Assets : row[b].root[c] = 0
    BY <1>2, <1>4 DEF QueueInv, Blank
  <2> QED
    BY <1>1, <1>3, <2>1
<1>5. CASE row[b].status = "succeeded"
  <2>1. Sound(row[b], b, messages, Kept(canvas, b)) /\ \A s \in Steps : row[b].ops[s] = "succeeded"
    BY <1>2, <1>5 DEF ResultInv
  <2>2. messages[row[b].summary].step = 1
    BY <2>1, PlanDistinct DEF Sound, Posted
  <2>3. \A c \in Assets : messages[row[b].root[c]].step = PostStep(c)
    BY <2>1, PlanDistinct DEF Sound, Posted
  <2>4. ts # row[b].summary
    BY <1>1, <2>2, PlanDistinct
  <2>5. \A c \in Assets : ts = row[b].root[c] => c = a
    BY <1>1, <2>3, PlanDistinct
  <2>6. ts = row[b].root[a]
    BY <1>3, <2>4, <2>5
  <2> QED
    BY <2>6 DEF b
<1> QED
  BY <1>2, <1>4, <1>5

(* "Duplicate runs create new roots and leave exactly one Latest marker":   *)
(* when all that was confirmed has succeeded and no message was lost, the   *)
(* roots shown as Latest are those the history calls so, whatever calls     *)
(* failed and however often the worker died; with several workers, as long  *)
(* as no failed batch is retried beside the batch of another.               *)
THEOREM OneLatestMarker == Spec => [](Alone => OneLatest)
<1>1. ASSUME ResultInv, QueueInv, LatestInv, MarkInv, Alone PROVE OneLatest
  <2> SUFFICES ASSUME Quiet, AllRecorded, \A b \in Batches : row[b].status \in {"none", "succeeded"},
                      NEW a \in Assets
      PROVE  Marked(a) = {latest[a]} \ {0}
    BY DEF OneLatest
  <2>1. ASSUME NEW ts \in Marked(a) PROVE ts \in {latest[a]} \ {0}
    <3>1. IsRoot(ts, a) /\ messages[ts].shown = "latest" /\ ts \in 1..Len(messages) /\ ts # 0
      BY DEF Marked, IsRoot
    <3>2. Explained(ts, a)
      BY <1>1, <3>1 DEF MarkInv
    <3>3. ASSUME NEW b \in Batches, row[b].prior[a] = ts, row[b].ops[RetireStep(a)] # "succeeded" PROVE FALSE
      <4>1. row[b].ops[PostStep(a)] = "succeeded"
        BY <1>1, <3>1, <3>3 DEF MarkInv, Retires
      <4>2. row[b].status # "none"
        BY <1>1, <3>1, <3>3 DEF QueueInv, Blank
      <4>3. \A s \in Steps : row[b].ops[s] = "succeeded"
        BY <1>1, <4>2 DEF ResultInv
      <4> QED
        BY <3>3, <4>3, PlanRetires
    <3>4. ts = row[messages[ts].batch].root[a]
      BY <1>1, <3>1, RecordedRoots
    <3> QED
      BY <3>1, <3>2, <3>3, <3>4 DEF Explained
  <2>2. ASSUME latest[a] # 0 PROVE latest[a] \in Marked(a)
    <3>1. latest[a] \in Nat \ {0} /\ WasLatest(latest[a], a)
      BY <1>1, <2>2 DEF ResultInv, TypeOK, WasLatest
    <3>2. IsRoot(latest[a], a)
      BY <1>1, <3>1 DEF LatestInv
    <3>3. ~Lost(a)
      BY <1>1, RecordedRoots DEF Lost
    <3>4. messages[latest[a]].shown = "latest"
      BY <1>1, <2>2, <3>3 DEF LatestInv
    <3> QED
      BY <3>2, <3>4 DEF Marked, IsRoot
  <2> QED
    BY <2>1, <2>2
<1>2. ResultInv /\ QueueInv /\ LatestInv /\ MarkInv => (Alone => OneLatest)
  BY <1>1
<1> QED
  BY <1>2, MarkHolds, PTL
=============================================================================
