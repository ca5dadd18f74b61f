--------------------------- MODULE BatchJobsProofs ----------------------------
(***************************************************************************)
(* Proofs about BatchJobs: no two workers ever run one batch, whatever the *)
(* number of workers and batches, and a batch that has succeeded is never  *)
(* run again.  Only what a transaction says of its batch and its progress  *)
(* matters, so the invariant carries no more typing than these fields.     *)
(***************************************************************************)
EXTENDS BatchJobs, TLAPS

Shaped(t) == {"pc", "batch", "row"} \subseteq DOMAIN t /\ "status" \in DOMAIN t.row

Under(t) == t.pc \in {"start", "run", "record"}

RunInv ==
  /\ DOMAIN tx = Workers /\ DOMAIN row = Batches
  /\ \A w \in Workers : Shaped(tx[w])
  /\ \A b \in Batches : "status" \in DOMAIN row[b]
  /\ \A w \in Workers : tx[w].pc # "idle" => tx[w].batch \in Batches
  /\ ExclusiveRun

(* u is t a step further: the same batch, still under way.                  *)
Further(t, u) == Shaped(u) /\ u.batch = t.batch /\ Under(u)

(* The steps of a run go on with the batch that was claimed.                *)
LEMMA EndedFurther ==
  ASSUME NEW t, Shaped(t), NEW status
  PROVE  Further(t, Ended(t, status))
BY DEF Shaped, Further, Under, Ended

(* Renewing the lease, whether it is granted or not.                        *)
LEMMA RenewedFurther ==
  ASSUME NEW t, Shaped(t), Under(t)
  PROVE  Further(t, Renewed(t)) /\ Renewed(t).pc = t.pc
BY DEF Shaped, Further, Under, Renewed

(* Telling the submitter about the progress.                                *)
LEMMA ToldFurther ==
  ASSUME NEW t, Shaped(t), Under(t), NEW u \in MayTell(t)
  PROVE  Further(t, u) /\ u.pc = t.pc
BY DEF Shaped, Further, Under, MayTell, Told

(* Recording that the operation succeeded.                                  *)
LEMMA SucceededFurther ==
  ASSUME NEW t, Shaped(t)
  PROVE  Further(t, Succeeded(t))
<1>1. Further(t, Ended(t, "succeeded"))
  BY EndedFurther
<1>2. Further(Ended(t, "succeeded"), Renewed(Ended(t, "succeeded")))
  BY <1>1, RenewedFurther DEF Further
<1> QED
  BY <1>1, <1>2 DEF Further, Succeeded

(* Recording that the operation failed.                                     *)
LEMMA FailedFurther ==
  ASSUME NEW t, Shaped(t)
  PROVE  Further(t, Failed(t))
<1>1. Further(t, Ended(t, "failed"))
  BY EndedFurther
<1>2. Further(t, [Ended(t, "failed") EXCEPT !.step = Last + 1])
  BY <1>1 DEF Further, Shaped, Under
<1> QED
  BY <1>1, <1>2 DEF Failed

(* A worker that goes on with its batch disturbs no other.                  *)
LEMMA FurtherKeeps ==
  ASSUME RunInv, NEW w \in Workers, Running(w),
         NEW t, Further(tx[w], t), Becomes(w, t), UNCHANGED row
  PROVE  RunInv'
<1>1. tx' = [tx EXCEPT ![w] = t] /\ tx'[w] = t /\ \A v \in Workers \ {w} : tx'[v] = tx[v]
  BY DEF RunInv, Becomes
<1>2. \A v \in Workers : Running(v)' <=> Running(v)
  BY <1>1 DEF Running, Further, Under
<1>3. \A v \in Workers : tx'[v].batch = tx[v].batch /\ Shaped(tx'[v])
  BY <1>1 DEF Further, RunInv
<1>4. ExclusiveRun'
  BY <1>2, <1>3 DEF RunInv, ExclusiveRun, RowFree, Others
<1>5. \A v \in Workers : tx'[v].pc # "idle" => tx'[v].batch \in Batches
  BY <1>1 DEF RunInv, Further, Running
<1> QED
  BY <1>1, <1>3, <1>4, <1>5 DEF RunInv

(* A worker that lets go of its batch disturbs no other, and may select one.*)
LEMMA LetGoKeeps ==
  ASSUME RunInv, NEW w \in Workers, NEW t, Shaped(t), ~Under(t),
         t.pc # "idle" => t.batch \in Batches, Becomes(w, t), UNCHANGED row
  PROVE  RunInv'
<1>1. tx' = [tx EXCEPT ![w] = t] /\ tx'[w] = t /\ \A v \in Workers \ {w} : tx'[v] = tx[v]
  BY DEF RunInv, Becomes
<1>2. ~Running(w)' /\ \A v \in Workers \ {w} : Running(v)' <=> Running(v)
  BY <1>1 DEF Running, Under
<1>3. ExclusiveRun'
  BY <1>1, <1>2 DEF RunInv, ExclusiveRun, RowFree, Others
<1> QED
  BY <1>1, <1>3 DEF RunInv

(* A worker that takes up a batch nobody runs, still to be run or failed.   *)
LEMMA BegunKeeps ==
  ASSUME RunInv, NEW w \in Workers, NEW b \in Batches, ~Running(w), RowFree(w, b),
         row[b].status \in {"pending", "failed"}, Becomes(w, Begun(b)), UNCHANGED row
  PROVE  RunInv'
<1>1. tx' = [tx EXCEPT ![w] = Begun(b)] /\ tx'[w] = Begun(b) /\ \A v \in Workers \ {w} : tx'[v] = tx[v]
  BY DEF RunInv, Becomes
<1>2. Shaped(Begun(b)) /\ Begun(b).batch = b /\ Begun(b).pc = "start"
  BY DEF RunInv, Shaped, Begun, NoTx
<1> HIDE DEF Begun
<1>3. Running(w)' /\ \A v \in Workers \ {w} : Running(v)' <=> Running(v)
  BY <1>1, <1>2 DEF Running
<1>4. ExclusiveRun'
  BY <1>1, <1>2, <1>3 DEF RunInv, ExclusiveRun, RowFree, Others
<1> QED
  BY <1>1, <1>2, <1>4 DEF RunInv

(* The transaction of an idle worker.                                       *)
LEMMA NoTxIdle == Shaped(NoTx) /\ ~Under(NoTx) /\ NoTx.pc = "idle"
BY DEF Shaped, Under, NoTx, Blank

(* One step per operation of a batch.                                       *)
LEMMA OperationKeeps ==
  ASSUME RunInv, NEW w \in Workers, Operation(w)
  PROVE  RunInv'
<1> DEFINE t == tx[w]
<1>1. Shaped(t) /\ Under(t) /\ Running(w) /\ row' = row
  BY DEF RunInv, Operation, PostSummary, RecordSummary, PostAsset, RecordAsset, IndexAsset,
     IndexPrimaryAsset, RetirePriorLatest, FinalizeSummary, At, Running, Under, committed
<1>2. Further(t, Succeeded(t)) /\ Further(t, Failed(t))
  BY <1>1, SucceededFurther, FailedFurther
<1>3. ASSUME Becomes(w, Succeeded(t)) \/ Becomes(w, Failed(t))
      PROVE  RunInv'
  BY <1>1, <1>2, <1>3, FurtherKeeps
<1>4. CASE PostSummary(w)
  <2>1. Further(t, [t EXCEPT !.pc = "record", !.ts = Len(messages) + 1])
    BY <1>1 DEF Further, Shaped, Under
  <2> QED
    BY <1>1, <1>3, <1>4, <2>1, FurtherKeeps DEF PostSummary
<1>5. CASE RecordSummary(w)
  <2>1. Further(t, Succeeded([t EXCEPT !.row.summary = t.ts]))
    <3>1. Further(t, [t EXCEPT !.row.summary = t.ts])
      BY <1>1 DEF Further, Shaped, Under
    <3> QED
      BY <3>1, SucceededFurther DEF Further
  <2> QED
    BY <1>1, <1>3, <1>5, <2>1, FurtherKeeps DEF RecordSummary
<1>6. CASE PostAsset(w)
  <2>1. Further(t, [t EXCEPT !.pc = "record", !.ts = Len(messages) + 1, !.seen = latest[AssetAt(t.step)]])
    BY <1>1 DEF Further, Shaped, Under
  <2> QED
    BY <1>1, <1>3, <1>6, <2>1, FurtherKeeps DEF PostAsset
<1>7. CASE RecordAsset(w)
  <2> DEFINE a == AssetAt(t.step)
             u == [t EXCEPT !.roots[a] = t.ts, !.row.root[a] = t.ts, !.row.prior[a] = t.seen]
  <2>1. Further(t, Succeeded(u))
    <3>1. Further(t, u)
      BY <1>1 DEF Further, Shaped, Under
    <3> HIDE DEF u
    <3> QED
      BY <3>1, SucceededFurther DEF Further
  <2>2. Becomes(w, Succeeded(u)) \/ Becomes(w, Failed(t))
    BY <1>7 DEF RecordAsset
  <2> HIDE DEF u
  <2> QED
    BY <1>1, <1>3, <2>1, <2>2, FurtherKeeps
<1>8. CASE IndexAsset(w)
  <2>1. ASSUME NEW u \in MayTell(Ended(t, "succeeded")), Becomes(w, Renewed(u))
        PROVE  RunInv'
    <3>1. Further(t, Ended(t, "succeeded"))
      BY <1>1, EndedFurther
    <3>2. Further(t, u)
      BY <3>1, <2>1, ToldFurther DEF Further
    <3>3. Further(t, Renewed(u))
      BY <3>2, RenewedFurther DEF Further
    <3> QED
      BY <1>1, <2>1, <3>3, FurtherKeeps
  <2> QED
    BY <1>3, <1>8, <2>1 DEF IndexAsset
<1>9. CASE IndexPrimaryAsset(w)
  BY <1>3, <1>9 DEF IndexPrimaryAsset
<1>10. CASE RetirePriorLatest(w)
  BY <1>3, <1>10 DEF RetirePriorLatest
<1>11. CASE FinalizeSummary(w)
  BY <1>3, <1>11 DEF FinalizeSummary
<1> QED
  BY <1>4, <1>5, <1>6, <1>7, <1>8, <1>9, <1>10, <1>11 DEF Operation

(* The end of a run gives its batch a final status: nobody else runs it.    *)
LEMMA FinishKeeps ==
  ASSUME RunInv, NEW w \in Workers, Finish(w)
  PROVE  RunInv'
<1> DEFINE b == tx[w].batch
<1>1. Running(w) /\ b \in Batches
  BY DEF Finish, Running, RunInv
<1>2. PICK t \in MayTell(tx[w]), final \in {"failed", "succeeded"} :
        row' = [row EXCEPT ![b] = [t.row EXCEPT !.status = final]]
  BY DEF Finish
<1>3. "status" \in DOMAIN t.row
  BY <1>1, <1>2, ToldFurther DEF RunInv, Running, Under, Further, Shaped
<1>4. /\ DOMAIN row' = Batches
      /\ \A c \in Batches : "status" \in DOMAIN row'[c] /\ (c # b => row'[c] = row[c])
  BY <1>1, <1>2, <1>3 DEF RunInv
<1>5. tx' = [tx EXCEPT ![w] = NoTx] /\ tx'[w] = NoTx /\ \A v \in Workers \ {w} : tx'[v] = tx[v]
  BY DEF RunInv, Finish, Becomes
<1>6. ~Running(w)' /\ \A v \in Workers \ {w} : Running(v)' <=> Running(v)
  BY <1>5, NoTxIdle DEF Running
<1>7. \A v \in Workers \ {w} : Running(v) => tx[v].batch # b
  BY <1>1 DEF RunInv, ExclusiveRun, RowFree, Others
<1>8. ExclusiveRun'
  BY <1>4, <1>5, <1>6, <1>7 DEF RunInv, ExclusiveRun, RowFree, Others, Running
<1> QED
  BY <1>4, <1>5, <1>8, NoTxIdle DEF RunInv

(* Confirming concerns a batch that does not exist yet, so nobody runs it.  *)
LEMMA ConfirmKeeps ==
  ASSUME RunInv, NEW b \in Batches, Confirm(b)
  PROVE  RunInv'
<1>1. row[b].status = "none" /\ tx' = tx
  BY DEF Confirm
<1>2. /\ DOMAIN row' = Batches
      /\ \A c \in Batches : "status" \in DOMAIN row'[c] /\ (c # b => row'[c] = row[c])
  BY DEF RunInv, Confirm
<1>3. \A w \in Workers : Running(w) => tx[w].batch \in Batches /\ tx[w].batch # b
  BY <1>1 DEF RunInv, ExclusiveRun, Running
<1>4. ExclusiveRun'
  BY <1>1, <1>2, <1>3 DEF RunInv, ExclusiveRun, RowFree, Others, Running
<1> QED
  BY <1>1, <1>2, <1>4 DEF RunInv

(* RunInv is inductive.                                                     *)
LEMMA RunInductive ==
  ASSUME RunInv, [Next]_vars
  PROVE  RunInv'
<1>1. ASSUME tx' = tx, row' = row PROVE RunInv'
  BY <1>1 DEF RunInv, ExclusiveRun, RowFree, Others, Running
<1>2. ASSUME NEW b \in Batches, Confirm(b) PROVE RunInv'
  BY <1>2, ConfirmKeeps
<1>3. ASSUME NEW w \in Workers, Select(w) PROVE RunInv'
  <2>1. PICK b \in Batches : Becomes(w, [NoTx EXCEPT !.pc = "claim", !.batch = b])
    BY <1>3 DEF Select
  <2> DEFINE t == [NoTx EXCEPT !.pc = "claim", !.batch = b]
  <2>2. Shaped(t) /\ ~Under(t) /\ t.batch \in Batches
    BY DEF Shaped, Under, NoTx, Blank
  <2>3. row' = row
    BY <1>3 DEF Select, committed
  <2> HIDE DEF t
  <2> QED
    BY <2>1, <2>2, <2>3, LetGoKeeps DEF t
<1>4. ASSUME NEW w \in Workers, Claim(w) PROVE RunInv'
  <2> DEFINE b == tx[w].batch
  <2>1. b \in Batches /\ ~Running(w) /\ row' = row
    BY <1>4 DEF RunInv, Claim, Running, committed
  <2>2. \/ RowFree(w, b) /\ row[b].status = "pending" /\ Becomes(w, Begun(b))
        \/ Becomes(w, NoTx)
    BY <1>4 DEF Claim
  <2> QED
    BY <2>1, <2>2, BegunKeeps, LetGoKeeps, NoTxIdle
<1>5. ASSUME NEW w \in Workers, NEW b \in Batches, Retry(w, b) PROVE RunInv'
  BY <1>5, BegunKeeps DEF Retry, Running, committed
<1>6. ASSUME NEW w \in Workers, Start(w) PROVE RunInv'
  <2>1. PICK t \in MayTell(Renewed(tx[w])) :
          Becomes(w, [t EXCEPT !.pc = "run", !.step = NextStep(t.row.ops, 0)])
    BY <1>6 DEF Start
  <2>2. Shaped(tx[w]) /\ Under(tx[w]) /\ Running(w) /\ row' = row
    BY <1>6 DEF RunInv, Start, Under, Running, committed
  <2>3. Further(tx[w], t)
    BY <2>1, <2>2, RenewedFurther, ToldFurther DEF Further
  <2>4. Further(tx[w], [t EXCEPT !.pc = "run", !.step = NextStep(t.row.ops, 0)])
    BY <2>3 DEF Further, Shaped, Under
  <2> QED
    BY <2>1, <2>2, <2>4, FurtherKeeps
<1>7. ASSUME NEW w \in Workers, Operation(w) PROVE RunInv'
  BY <1>7, OperationKeeps
<1>8. ASSUME NEW w \in Workers, Finish(w) PROVE RunInv'
  BY <1>8, FinishKeeps
<1>9. ASSUME NEW w \in Workers, Crash(w) PROVE RunInv'
  BY <1>9, LetGoKeeps, NoTxIdle DEF Crash, committed
<1>10. ASSUME NEW w \in Workers, Escape(w) PROVE RunInv'
  BY <1>10, LetGoKeeps, NoTxIdle DEF Escape, committed
<1> QED
  <2>1. CASE Tick \/ UNCHANGED vars
    BY <1>1, <2>1 DEF Tick, vars, committed
  <2>2. CASE Next /\ ~Tick
    BY <1>2, <1>3, <1>4, <1>5, <1>6, <1>7, <1>8, <1>9, <1>10, <2>2 DEF Next, Work
  <2> QED
    BY <2>1, <2>2

(* RunInv holds initially.                                                  *)
LEMMA RunStarts == Init => RunInv
BY DEF Init, RunInv, ExclusiveRun, Running, Shaped, NoTx, Blank

(* A batch is run by one worker at a time, and only while it is PENDING or  *)
(* FAILED in the database: a worker that selected it before another made it *)
(* RUNNING finds it taken, and a batch that succeeded is never run again.   *)
THEOREM RunsAreExclusive == Spec => []ExclusiveRun
<1>1. RunInv => ExclusiveRun
  BY DEF RunInv
<1> QED
  BY <1>1, RunStarts, RunInductive, PTL DEF Spec
=============================================================================
