---------------------------- MODULE MintGroupProofs ----------------------------
(***************************************************************************)
(* What an attempt at a mint_group job guarantees, for every set of jobs,  *)
(* assets and adopters, whatever calls fail and however often the worker   *)
(* dies: HistoryTrue, ReportTrue, NoPartialPost and OneRootEach of         *)
(* MintGroup.                                                              *)
(*                                                                         *)
(* None of them is inductive.  MintInv adds why they hold: the messages of *)
(* an attempt are exactly those it remembers, and none of them is kept     *)
(* before the commit, so that what an aborted attempt deletes was never    *)
(* kept; the transaction names only messages that are kept or of the       *)
(* attempt, and the commit keeps these.                                    *)
(*                                                                         *)
(* OneRootEach rests on RootsInv: every root in the channel is the entry of*)
(* its asset in the season file, as the upsert under way will leave it, or *)
(* a post that the attempt is going to delete.                             *)
(***************************************************************************)
EXTENDS MintGroup, FiniteSetTheorems, WellFoundedInduction, TLAPS

(* A finite set of numbers has a greatest one: the elements from x on are  *)
(* fewest when x is the greatest.                                          *)
LEMMA MaxIsElement ==
  ASSUME NEW n \in Nat, NEW S \in SUBSET (1..n), S # {}
  PROVE  Max(S) \in S
<1> DEFINE From(x) == {y \in S : y >= x}
           Tails == {From(x) : x \in S}
           Smaller == StrictSubsetOrdering(S)
<1>1. IsFiniteSet(S)
  <2>1. IsFiniteSet(1..n)
    BY FS_Interval
  <2> QED
    BY <2>1, FS_Subset
<1>2. Tails \subseteq FiniteSubsetsOf(S) /\ Tails # {}
  <2>1. \A x \in S : From(x) \subseteq S /\ IsFiniteSet(From(x))
    BY <1>1, FS_Subset
  <2> QED
    BY <2>1 DEF FiniteSubsetsOf
<1>3. \E T \in Tails : \A U \in Tails : <<U, T>> \notin Smaller
  <2> HIDE DEF Tails, Smaller
  <2>1. IsWellFoundedOn(Smaller, FiniteSubsetsOf(S))
    BY FS_StrictSubsetOrderingWellFounded DEF Smaller
  <2> QED
    BY <1>2, <2>1, WFMin
<1>4. PICK x \in S : \A z \in S : <<From(z), From(x)>> \notin Smaller
  BY <1>3
<1>5. ASSUME NEW z \in S, z > x PROVE FALSE
  <2>1. \A y \in S : y \in Nat
    OBVIOUS
  <2>2. \A y \in S : y >= z => y >= x
    BY <1>5, <2>1
  <2>3. From(z) \subseteq From(x)
    BY <2>2
  <2>6. x \in From(x)
    BY <2>1
  <2>4. x \notin From(z)
    BY <1>5, <2>1
  <2>5. <<From(z), From(x)>> \in Smaller
    BY <2>3, <2>4, <2>6 DEF StrictSubsetOrdering
  <2> QED
    BY <2>5, <1>4
<1>6. \A y \in S : x >= y
  BY <1>5
<1> QED
  BY <1>6 DEF Max

-----------------------------------------------------------------------------

(* Types *)

(* The season file of missing, torn and written text and an idle upsert     *)
(* have their types.                                                        *)
LEMMA SeasonTypes ==
  /\ Empty \in SeasonFiles /\ Torn \in SeasonFiles
  /\ NoUpsert \in UpsertStates
BY DEF SeasonFiles, UpsertStates, UpsertSteps, Texts, Empty, Torn, NoEntries, NoUpsert

(* Every access of an upsert (upsert_spoke_after_post) keeps the types of   *)
(* the season file and of the upserts.                                      *)
LEMMA UpsertTyped ==
  ASSUME SpokesTyped, NEW p \in Writers, Upsert(p) \/ UpsertRefused(p) \/ AbandonUpsert(p)
  PROVE  SpokesTyped'
<1> USE SpokesAssumption, SeasonTypes DEF SpokesTyped, EndUpsert
<1>1. \A file \in AsRead : file \in SeasonFiles
  BY DEF AsRead
<1>2. upsert[p] \in UpsertStates
  OBVIOUS
<1>3. CASE ReadSeason(p)
  <2>1. PICK file \in AsRead :
          \/ EndUpsert(p)
          \/ upsert' = [upsert EXCEPT ![p].at = "compare", ![p].before = file]
    BY <1>3 DEF ReadSeason
  <2>2. [upsert[p] EXCEPT !.at = "compare", !.before = file] \in UpsertStates
    BY <1>1, <1>2 DEF UpsertStates, UpsertSteps
  <2>3. season' = season
    BY <1>3 DEF ReadSeason
  <2> QED
    BY <2>1, <2>2, <2>3
<1>4. CASE CompareSeason(p)
  <2>1. [upsert[p] EXCEPT !.at = "truncate"] \in UpsertStates
    BY <1>2 DEF UpsertStates, UpsertSteps
  <2>2. [upsert[p] EXCEPT !.at = "read", !.attempt = 2] \in UpsertStates
    BY <1>2 DEF UpsertStates, UpsertSteps
  <2> QED
    BY <1>4, <2>1, <2>2 DEF CompareSeason
<1>5. CASE Truncate(p)
  <2>1. [upsert[p] EXCEPT !.at = "write"] \in UpsertStates
    BY <1>2 DEF UpsertStates, UpsertSteps
  <2> QED
    BY <1>5, <2>1 DEF Truncate
<1>6. CASE WriteSeason(p)
  <2>1. [text |-> "json",
         thread |-> [upsert[p].before.thread EXCEPT ![upsert[p].asset] = upsert[p].ts]]
           \in SeasonFiles
    BY <1>2 DEF UpsertStates, SeasonFiles, Texts
  <2> QED
    BY <1>6, <2>1 DEF WriteSeason
<1>7. CASE UpsertRefused(p)
  BY <1>7 DEF UpsertRefused
<1>8. CASE AbandonUpsert(p)
  BY <1>8 DEF AbandonUpsert
<1> QED
  BY <1>3, <1>4, <1>5, <1>6, <1>7, <1>8 DEF Upsert

(* So does the start of an upsert.                                          *)
LEMMA StartTyped ==
  ASSUME SpokesTyped, NEW p \in Writers, NEW a \in Assets, NEW ts \in Nat,
         StartUpsert(p, a, ts), UNCHANGED season
  PROVE  SpokesTyped'
<1>1. [NoUpsert EXCEPT !.at = "read", !.asset = a, !.ts = ts] \in UpsertStates
  BY SeasonTypes DEF UpsertStates, UpsertSteps
<1> QED
  BY <1>1 DEF SpokesTyped, StartUpsert

-----------------------------------------------------------------------------

(* The values of an idle worker, an idle adoption and an empty database     *)
(* have their types.                                                        *)
LEMMA Constants ==
  /\ Worker \in Writers
  /\ \A p \in Adopters : p \in Writers
  /\ NoRun \in RunStates
  /\ NoGroup \in Database
  /\ NoEntries \in [Assets -> Nat]
BY MintAssumption DEF NoRun, NoGroup, RunStates, Steps, Groups, Database, NoEntries

(* A message said is the last of the log.                                    *)
LEMMA SaidLog ==
  ASSUME SlackTyped, NEW kind \in {"group", "root", "reply"},
         NEW a \in Assets \cup {NoAsset}, run.job \in Jobs, Said(kind, a)
  PROVE  /\ Len(log) \in Nat /\ Len(log') = Len(log) + 1
         /\ log' \in Seq(Messages)
         /\ log'[Len(log')] = [job |-> run.job, kind |-> kind, asset |-> a]
         /\ \A ts \in 1..Len(log) : log'[ts] = log[ts]
         /\ 1..Len(log') = (1..Len(log)) \cup {Len(log')}
<1>1. [job |-> run.job, kind |-> kind, asset |-> a] \in Messages
  BY DEF Messages
<1>2. log' \in Seq(Messages) /\ Len(log') = Len(log) + 1 /\ Len(log) \in Nat
  BY <1>1 DEF SlackTyped, Said
<1>3. \A ts \in 1..Len(log) : log'[ts] = log[ts]
  BY <1>1 DEF SlackTyped, Said
<1>4. log'[Len(log')] = [job |-> run.job, kind |-> kind, asset |-> a]
  BY <1>1, <1>2 DEF SlackTyped, Said
<1> QED
  BY <1>2, <1>3, <1>4

(* A call of Slack that posts, whether its answer arrives or not, keeps the *)
(* types of the channel.                                                    *)
LEMMA PostTyped ==
  ASSUME SlackTyped, NEW call, NEW kind \in {"group", "root", "reply"},
         NEW a \in Assets \cup {NoAsset}, run.job \in Jobs,
         Accepted(kind, a) \/ NotPosted(call, kind, a), UNCHANGED index
  PROVE  SlackTyped' /\ 1..Len(log) \subseteq 1..Len(log')
<1>1. CASE Accepted(kind, a) \/ AnswerLost(kind, a)
  <2>1. Said(kind, a) /\ stranded' \subseteq stranded \cup {Len(log')}
    BY <1>1 DEF Accepted, AnswerLost
  <2>2. shown' = shown \cup {Len(log')} /\ kept' = kept
    BY <2>1 DEF Said
  <2> QED
    BY <2>1, <2>2, SaidLog DEF SlackTyped
<1>2. CASE UNCHANGED channel
  BY <1>2 DEF channel, SlackTyped
<1> QED
  BY <1>1, <1>2 DEF NotPosted

(* An attempt that goes on to another step has the types of an attempt.     *)
LEMMA GotoTyped ==
  ASSUME RunTyped, NEW step \in Steps \ {"idle", "record_root"}, Goto(step),
  run.job \in Jobs,
         tx' \in Database, UNCHANGED <<log, db>>
  PROVE  RunTyped'
BY DEF RunTyped, RunStates, Goto

(* So does an attempt that raises an error.                                 *)
LEMMA RaiseTyped ==
  ASSUME RunTyped, Raise, run.job \in Jobs, 1..Len(log) \subseteq 1..Len(log'), UNCHANGED db
  PROVE  RunTyped'
<1>1. run' \in RunStates
  BY Constants DEF RunTyped, RunStates, Raise, NoRun, Steps
<1>2. /\ run'.at = "discard" /\ run'.job = run.job
      /\ run'.posted = run.posted /\ run'.toShare = {}
  BY DEF Raise, NoRun
<1>3. tx' \in Database
  BY Constants DEF Raise
<1> QED
  BY <1>1, <1>2, <1>3 DEF RunTyped

(* So does a worker that forgets its attempt, with the transaction.         *)
LEMMA ForgetTyped ==
  ASSUME RunTyped, Forget, UNCHANGED <<log, db>>
  PROVE  RunTyped'
<1>1. run'.at = "idle" /\ run'.posted = {} /\ run'.toShare = {}
  BY DEF Forget, NoRun
<1> QED
  BY <1>1, Constants DEF RunTyped, Forget

(* A fault is counted.                                                      *)
LEMMA FaultTyped ==
  ASSUME WebTyped, Fault \/ UNCHANGED faults, UNCHANGED webVars
  PROVE  WebTyped'
BY MintAssumption DEF WebTyped, Fault, webVars

(* What a post remembered by the attempt makes of the run.                  *)
LEMMA PostedTyped ==
  ASSUME SlackTyped, RunTyped, run.job \in Jobs, NEW kind \in {"group", "root", "reply"},
         NEW a \in Assets \cup {NoAsset}, Accepted(kind, a), UNCHANGED <<db, tx>>,
         run' \in RunStates, run'.job = run.job, run'.posted = run.posted \cup {Len(log')},
         run'.at = "record_root" => run'.asset \in Assets,
         run'.toShare \subseteq run.toShare
  PROVE  RunTyped'
<1>1. 1..Len(log') = (1..Len(log)) \cup {Len(log')}
  BY SaidLog DEF Accepted
<1> QED
  BY <1>1 DEF RunTyped

(* An attempt that does not know of its post has the types of an attempt.   *)
LEMMA NotYetPosted ==
  ASSUME RunTyped, run.job \in Jobs, UNCHANGED db, tx' \in Database,
         1..Len(log) \subseteq 1..Len(log'),
         run' \in RunStates, run'.job = run.job, run'.posted \subseteq run.posted,
         run'.at # "record_root", run'.toShare \subseteq run.toShare
  PROVE  RunTyped'
BY DEF RunTyped

(* A look into the season file sees a file.                                 *)
LEMMA LooksTyped ==
  ASSUME SpokesTyped
  PROVE  \A file \in Looks : file \in SeasonFiles
BY SeasonTypes DEF Looks, AsRead, SpokesTyped

(* The initial state has the types, and every action keeps them.            *)
THEOREM MintTyped == Spec => []TypeOK
<1>1. Init => TypeOK
  <2> SUFFICES ASSUME Init PROVE TypeOK
    OBVIOUS
  <2>1. SpokesTyped
    BY SeasonTypes DEF Init, SpokesInit, SpokesTyped
  <2>2. ShareTyped
    BY DEF Init, ShareTyped, NoResult, Statuses
  <2>3. SlackTyped
    BY Constants DEF Init, SlackTyped
  <2>4. RunTyped
    BY Constants DEF Init, RunTyped, NoRun
  <2>5. WebTyped
    BY Constants, MintAssumption DEF Init, WebTyped, NoAdoption
  <2> QED
    BY <2>1, <2>2, <2>3, <2>4, <2>5 DEF TypeOK
<1>2. TypeOK /\ [Next]_vars => TypeOK'
  <2> SUFFICES ASSUME TypeOK, [Next]_vars PROVE TypeOK'
    OBVIOUS
  <2> USE DEF TypeOK
  <2>1. ASSUME NEW j \in Jobs, Drop(j) PROVE TypeOK'
    <3>1. SpokesTyped' /\ SlackTyped' /\ RunTyped' /\ WebTyped'
      BY <2>1 DEF Drop, SpokesTyped, SlackTyped, RunTyped, WebTyped, spokeVars, share,
                  records, channel, webVars, others
    <3>2. ShareTyped'
      BY <2>1 DEF Drop, ShareTyped
    <3> QED
      BY <3>1, <3>2
  <2>2. ASSUME NEW j \in Jobs, TakeJob(j) PROVE TypeOK'
    <3>1. SpokesTyped' /\ ShareTyped' /\ SlackTyped'
      BY <2>2 DEF TakeJob, SpokesTyped, ShareTyped, SlackTyped, spokeVars, share, records,
                  channel, webVars, others
    <3>2. WebTyped'
      BY <2>2, FaultTyped DEF TakeJob, Look, webVars
    <3>3. /\ run' \in RunStates /\ run'.job \in Jobs
          /\ run'.posted = {} /\ run'.at # "record_root"
          /\ \A a \in run'.toShare : SharedWith[run'.job][a] \in Assets
      <4>1. CASE run' = [NoRun EXCEPT !.at = "discard", !.job = j, !.error = TRUE]
        BY <4>1, Constants DEF NoRun, RunStates, Steps
      <4>2. ASSUME NEW skip \in SUBSET Assets, NEW toRoot \in SUBSET Assets,
                   NEW toShare \in SUBSET {a \in Assets : SharedWith[j][a] # NoAsset},
                   run' = [NoRun EXCEPT !.at = "group", !.job = j, !.skipped = skip,
                             !.toRoot = toRoot, !.toShare = toShare]
            PROVE  /\ run' \in RunStates /\ run'.job = j /\ run'.posted = {}
                   /\ run'.at = "group" /\ run'.toShare = toShare
        BY <4>2, Constants DEF NoRun, RunStates, Steps
      <4>3. CASE \E file \in Looks :
                   LET new == AssetsOf[j] \ Occupied(file)
                   IN  run' = [NoRun EXCEPT !.at = "group", !.job = j,
                                 !.skipped = AssetsOf[j] \cap Occupied(file),
                                 !.toRoot = {a \in new : SharedWith[j][a] = NoAsset},
                                 !.toShare = {a \in new : SharedWith[j][a] # NoAsset}]
        <5>1. PICK file \in Looks :
                LET new == AssetsOf[j] \ Occupied(file)
                IN  run' = [NoRun EXCEPT !.at = "group", !.job = j,
                              !.skipped = AssetsOf[j] \cap Occupied(file),
                              !.toRoot = {a \in new : SharedWith[j][a] = NoAsset},
                              !.toShare = {a \in new : SharedWith[j][a] # NoAsset}]
          BY <4>3
        <5> DEFINE new == AssetsOf[j] \ Occupied(file)
                   toShare == {a \in new : SharedWith[j][a] # NoAsset}
        <5>2. new \subseteq Assets /\ AssetsOf[j] \cap Occupied(file) \subseteq Assets
          BY MintAssumption
        <5>3. toShare \subseteq {a \in Assets : SharedWith[j][a] # NoAsset}
          BY <5>2
        <5>4. \A a \in toShare : SharedWith[j][a] \in Assets
          BY <5>2, MintAssumption
        <5>5. {a \in new : SharedWith[j][a] = NoAsset} \subseteq Assets
          BY <5>2
        <5>6. run' = [NoRun EXCEPT !.at = "group", !.job = j,
                              !.skipped = AssetsOf[j] \cap Occupied(file),
                              !.toRoot = {a \in new : SharedWith[j][a] = NoAsset},
                              !.toShare = toShare]
          BY <5>1
        <5> HIDE DEF new, toShare
        <5>7. /\ run' \in RunStates /\ run'.job = j /\ run'.posted = {}
              /\ run'.at = "group" /\ run'.toShare = toShare
          BY <4>2, <5>2, <5>3, <5>5, <5>6
        <5> QED
          BY <5>4, <5>7
      <4> QED
        BY <2>2, <4>1, <4>3 DEF TakeJob
    <3>4. RunTyped'
      BY <2>2, <3>3 DEF TakeJob, RunTyped, channel
    <3> QED
      BY <3>1, <3>2, <3>3, <3>4
  <2>3. ASSUME NEW j \in Jobs, MisreadJob(j) PROVE TypeOK'
    <3>1. SpokesTyped' /\ ShareTyped' /\ SlackTyped'
      BY <2>3 DEF MisreadJob, SpokesTyped, ShareTyped, SlackTyped, spokeVars, share,
                  records, channel, webVars, others
    <3>2. WebTyped'
      BY <2>3, FaultTyped DEF MisreadJob, webVars
    <3>3. /\ run' \in RunStates /\ run'.job \in Jobs
          /\ run'.posted = {} /\ run'.at # "record_root"
          /\ \A a \in run'.toShare : SharedWith[run'.job][a] \in Assets
      BY <2>3, Constants DEF MisreadJob, NoRun, RunStates, Steps
    <3>4. RunTyped'
      BY <2>3, <3>3 DEF MisreadJob, RunTyped, channel
    <3> QED
      BY <3>1, <3>2, <3>3, <3>4
  <2>4. ASSUME OpenGroup PROVE TypeOK'
    <3>1. SpokesTyped' /\ ShareTyped' /\ SlackTyped' /\ WebTyped'
      BY <2>4 DEF OpenGroup, SpokesTyped, ShareTyped, SlackTyped, WebTyped, spokeVars,
                  share, records, channel, webVars, others
    <3>2. run.job \in Jobs
      BY <2>4 DEF OpenGroup, RunTyped
    <3>3. RunTyped'
      <4>1. CASE Raise
        BY <2>4, <4>1, <3>2, RaiseTyped DEF OpenGroup, channel
      <4>2. CASE ~Raise
        <5>1. tx' = db /\ log' = log /\ db' = db
          BY <2>4, <4>2 DEF OpenGroup, channel
        <5>2. /\ run.at = "group" /\ run \in RunStates
              /\ \E at \in {"roots", "post_group"}, group \in Groups :
                   run' = [run EXCEPT !.at = at, !.group = group]
          <6>1. \/ run' = [run EXCEPT !.at = "roots", !.group = "joined"]
                \/ run' = [run EXCEPT !.at = "roots", !.group = "not_needed"]
                \/ run' = [run EXCEPT !.at = "post_group", !.group = "created"]
            BY <2>4, <4>2 DEF OpenGroup
          <6> QED
            BY <2>4, <6>1 DEF OpenGroup, RunTyped, Groups
        <5>3. /\ run' \in RunStates /\ run'.job = run.job /\ run'.posted = run.posted
              /\ run'.at # "record_root" /\ run'.toShare = run.toShare
          BY <5>2 DEF RunStates, Steps
        <5> QED
          BY <5>1, <5>3, <3>2 DEF RunTyped
      <4> QED
        BY <4>1, <4>2
    <3> QED
      BY <3>1, <3>2, <3>3
  <2>5. ASSUME PostGroup PROVE TypeOK'
    <3>1. SpokesTyped' /\ ShareTyped' /\ WebTyped'
      BY <2>5 DEF PostGroup, SpokesTyped, ShareTyped, WebTyped, spokeVars, share, records,
                  channel, webVars, others
    <3>2. run.job \in Jobs
      BY <2>5 DEF PostGroup, RunTyped
    <3>3. SlackTyped' /\ 1..Len(log) \subseteq 1..Len(log')
      BY <2>5, <3>2, PostTyped DEF PostGroup
    <3>4. RunTyped'
      <4>1. CASE Raise
        BY <2>5, <4>1, <3>2, <3>3, RaiseTyped DEF PostGroup
      <4>2. CASE /\ Accepted("group", NoAsset)
                  /\ run' = [run EXCEPT !.at = "record_group", !.posted = @ \cup {Len(log')}]
                  /\ UNCHANGED tx
        <5>1. Len(log') \in Nat
          BY <3>3 DEF SlackTyped
        <5>2. run' \in RunStates /\ run'.job = run.job /\ run'.posted = run.posted \cup {Len(log')}
               /\ (run'.at = "record_root" => run'.asset \in Assets) /\ run'.toShare \subseteq run.toShare
          BY <5>1, <4>2 DEF RunTyped, RunStates, Steps
        <5> QED
          BY <2>5, <5>2, <4>2, <3>2, PostedTyped DEF PostGroup
      <4> QED
        BY <2>5, <4>1, <4>2 DEF PostGroup
    <3> QED
      BY <3>1, <3>2, <3>3, <3>4
  <2>6. ASSUME RecordGroup PROVE TypeOK'
    <3>1. SpokesTyped' /\ ShareTyped' /\ SlackTyped' /\ WebTyped'
      BY <2>6 DEF RecordGroup, SpokesTyped, ShareTyped, SlackTyped, WebTyped, spokeVars,
                  share, records, channel, webVars, others
    <3>2. run.job \in Jobs
      BY <2>6 DEF RecordGroup, RunTyped
    <3>3. RunTyped'
      <4>1. CASE Raise
        BY <2>6, <4>1, <3>2, RaiseTyped DEF RecordGroup, channel
      <4>2. CASE ~Raise
        <5>1. Len(log) \in Nat
          BY DEF SlackTyped
        <5>2. [tx EXCEPT !.post = Len(log)] \in Database
          BY <5>1 DEF RunTyped, Database
        <5> QED
          BY <2>6, <4>2, <3>2, <5>2, GotoTyped DEF RecordGroup, channel, Steps
      <4> QED
        BY <4>1, <4>2
    <3> QED
      BY <3>1, <3>2, <3>3
  <2>7. ASSUME NEW a \in Assets, PostRoot(a) PROVE TypeOK'
    <3>1. SpokesTyped' /\ ShareTyped' /\ WebTyped'
      BY <2>7 DEF PostRoot, SpokesTyped, ShareTyped, WebTyped, spokeVars, share, records,
                  channel, webVars, others
    <3>2. run.job \in Jobs
      BY <2>7 DEF PostRoot, RunTyped
    <3>3. SlackTyped' /\ 1..Len(log) \subseteq 1..Len(log')
      BY <2>7, <3>2, PostTyped DEF PostRoot
    <3>4. tx' = tx /\ db' = db
      BY <2>7 DEF PostRoot
    <3>5. RunTyped'
      <4>1. CASE /\ Accepted("root", a)
                  /\ run' = [run EXCEPT !.at = "record_root", !.toRoot = @ \ {a}, !.asset = a,
                                        !.posted = @ \cup {Len(log')}]
        <5>1. Len(log') \in Nat
          BY <3>3 DEF SlackTyped
        <5>2. run' \in RunStates /\ run'.job = run.job /\ run'.posted = run.posted \cup {Len(log')}
               /\ (run'.at = "record_root" => run'.asset \in Assets) /\ run'.toShare \subseteq run.toShare
          BY <5>1, <4>1 DEF RunTyped, RunStates, Steps
        <5> QED
          BY <5>2, <4>1, <3>2, <3>4, PostedTyped
      <4>2. CASE run' = [run EXCEPT !.toRoot = @ \ {a}, !.lost = @ \cup {a}]
        <5>1. run' \in RunStates /\ run'.job = run.job /\ run'.posted = run.posted
               /\ run'.at # "record_root" /\ run'.toShare \subseteq run.toShare
          BY <2>7, <4>2 DEF PostRoot, RunTyped, RunStates
        <5> QED
          BY <5>1, <3>2, <3>3, <3>4, NotYetPosted DEF RunTyped
      <4> QED
        BY <2>7, <4>1, <4>2 DEF PostRoot
    <3> QED
      BY <3>1, <3>2, <3>3, <3>4, <3>5
  <2>8. ASSUME RecordRoot PROVE TypeOK'
    <3>1. ShareTyped' /\ SlackTyped' /\ WebTyped'
      BY <2>8 DEF RecordRoot, ShareTyped, SlackTyped, WebTyped, spokeVars, share, records,
                  channel, webVars, others
    <3>2. run.job \in Jobs /\ run.asset \in Assets
      BY <2>8 DEF RecordRoot, RunTyped
    <3>3. Len(log) \in Nat
      BY DEF SlackTyped
    <3>4. log' = log /\ db' = db
      BY <2>8 DEF RecordRoot, channel
    <3>5. SpokesTyped' /\ RunTyped'
      <4>1. CASE /\ StartUpsert(Worker, run.asset, Len(log))
                  /\ tx' = [tx EXCEPT !.root[run.asset] = Len(log)]
                  /\ run' = [run EXCEPT !.at = "roots", !.root[run.asset] = Len(log),
                                        !.made = @ \cup {run.asset}]
        <5>1. SpokesTyped'
          BY <2>8, <4>1, <3>2, <3>3, Constants, StartTyped DEF RecordRoot
        <5>2. tx' \in Database
          BY <4>1, <3>2, <3>3 DEF RunTyped, Database
        <5>3. run' \in RunStates /\ run'.job = run.job /\ run'.posted = run.posted
               /\ run'.at # "record_root" /\ run'.toShare \subseteq run.toShare
          BY <4>1, <3>2, <3>3 DEF RunTyped, RunStates, Steps
        <5> QED
          BY <5>1, <5>2, <5>3, <3>2, <3>4, NotYetPosted
      <4>2. CASE /\ run' = [run EXCEPT !.at = "roots", !.lost = @ \cup {run.asset}]
                  /\ UNCHANGED <<tx, upsert>>
        <5>1. run' \in RunStates /\ run'.job = run.job /\ run'.posted = run.posted
               /\ run'.at # "record_root" /\ run'.toShare \subseteq run.toShare
          BY <4>2, <3>2 DEF RunTyped, RunStates, Steps
        <5> QED
          BY <2>8, <4>2, <5>1, <3>2, <3>4, NotYetPosted DEF RecordRoot, RunTyped,
             SpokesTyped
      <4>3. CASE Raise /\ UNCHANGED upsert
        BY <2>8, <4>3, <3>2, <3>4, RaiseTyped DEF RecordRoot, SpokesTyped
      <4> QED
        BY <2>8, <4>1, <4>2, <4>3 DEF RecordRoot
    <3> QED
      BY <3>1, <3>2, <3>3, <3>4, <3>5
  <2>9. ASSUME EndRoots PROVE TypeOK'
    <3>1. SpokesTyped' /\ ShareTyped' /\ SlackTyped' /\ WebTyped'
      BY <2>9 DEF EndRoots, SpokesTyped, ShareTyped, SlackTyped, WebTyped, spokeVars,
                  share, records, channel, webVars, others
    <3>2. run.job \in Jobs
      BY <2>9 DEF EndRoots, RunTyped
    <3>3. RunTyped'
      BY <2>9, <3>2, GotoTyped DEF EndRoots, channel, RunTyped, Steps
    <3> QED
      BY <3>1, <3>2, <3>3
  <2>10. ASSUME NEW a \in Assets, Reply(a) PROVE TypeOK'
    <3>1. ShareTyped'
      BY <2>10 DEF Reply, ShareTyped, spokeVars, share, records, channel, webVars, others
    <3>2. run.job \in Jobs
      BY <2>10 DEF Reply, RunTyped
    <3>3. WebTyped'
      BY <2>10, FaultTyped DEF Reply, Look, webVars
    <3>4. index' = index /\ db' = db /\ tx' = tx /\ season' = season
      BY <2>10 DEF Reply
    <3>5. SlackTyped' /\ 1..Len(log) \subseteq 1..Len(log')
      <4>1. CASE UNCHANGED channel
        BY <2>10, <4>1 DEF Reply, SlackTyped, channel
      <4>2. CASE Accepted("reply", a) \/ NotPosted("post_reply", "reply", a)
        BY <4>2, <3>2, <3>4, PostTyped
      <4> QED
        BY <2>10, <4>1, <4>2 DEF Reply
    <3>6. SpokesTyped' /\ RunTyped'
      <4> DEFINE target == SharedWith[run.job][a]
                 Thread(file) == IF run.root[target] # 0 THEN run.root[target] ELSE file.thread[target]
      <4>1. target \in Assets
        BY <2>10 DEF Reply, RunTyped
      <4>2. \A file \in Looks : Thread(file) \in Nat
        BY <4>1, LooksTyped DEF RunTyped, RunStates, SeasonFiles
      <4>3. ASSUME NEW ts \in Nat, Accepted("reply", a), StartUpsert(Worker, a, ts),
                   run' = [run EXCEPT !.toShare = @ \ {a}, !.shared[a] = ts,
                                      !.made = @ \cup {a}, !.posted = @ \cup {Len(log')}]
            PROVE  SpokesTyped' /\ RunTyped'
        <5>1. Len(log') \in Nat /\ run \in RunStates /\ run.at = "replies"
          BY <2>10, <3>4 DEF Reply, SlackTyped, RunTyped
        <5>2. run' \in RunStates /\ run'.job = run.job /\ run'.posted = run.posted \cup {Len(log')}
               /\ (run'.at = "record_root" => run'.asset \in Assets) /\ run'.toShare \subseteq run.toShare
          BY <5>1, <4>3 DEF RunStates
        <5>3. SpokesTyped'
          BY <4>3, <3>4, Constants, StartTyped
        <5> QED
          BY <5>2, <5>3, <4>3, <3>2, <3>4, PostedTyped
      <4>4. CASE run' = [run EXCEPT !.toShare = @ \ {a}, !.lost = @ \cup {a}] /\ UNCHANGED upsert
        <5>1. run' \in RunStates /\ run'.job = run.job /\ run'.posted = run.posted
               /\ run'.at # "record_root" /\ run'.toShare \subseteq run.toShare
          BY <2>10, <4>4 DEF Reply, RunTyped, RunStates
        <5> QED
          BY <5>1, <4>4, <3>2, <3>4, <3>5, NotYetPosted DEF RunTyped, SpokesTyped
      <4>5. \E file \in Looks :
              \/ /\ Accepted("reply", a) /\ StartUpsert(Worker, a, Thread(file))
                 /\ run' = [run EXCEPT !.toShare = @ \ {a}, !.shared[a] = Thread(file),
                                      !.made = @ \cup {a}, !.posted = @ \cup {Len(log')}]
              \/ run' = [run EXCEPT !.toShare = @ \ {a}, !.lost = @ \cup {a}] /\ UNCHANGED upsert
        BY <2>10 DEF Reply
      <4> HIDE DEF Thread
      <4> QED
        BY <4>2, <4>3, <4>4, <4>5
    <3> QED
      BY <3>1, <3>2, <3>3, <3>4, <3>5, <3>6
  <2>11. ASSUME AbortIfPartial PROVE TypeOK'
    <3>1. SpokesTyped' /\ ShareTyped' /\ SlackTyped' /\ WebTyped'
      BY <2>11 DEF AbortIfPartial, SpokesTyped, ShareTyped, SlackTyped, WebTyped,
                   spokeVars, share, records, channel, webVars, others
    <3>2. run.job \in Jobs
      BY <2>11 DEF AbortIfPartial, RunTyped
    <3>3. RunTyped'
      <4>1. CASE Raise
        BY <2>11, <4>1, <3>2, RaiseTyped DEF AbortIfPartial, channel
      <4>2. CASE Goto("update") /\ UNCHANGED tx
        BY <2>11, <4>2, <3>2, GotoTyped DEF AbortIfPartial, channel, RunTyped, Steps
      <4> QED
        BY <2>11, <4>1, <4>2 DEF AbortIfPartial
    <3> QED
      BY <3>1, <3>2, <3>3
  <2>12. ASSUME UpdateGroup PROVE TypeOK'
    <3>1. SpokesTyped' /\ ShareTyped' /\ SlackTyped' /\ WebTyped'
      BY <2>12 DEF UpdateGroup, SpokesTyped, ShareTyped, SlackTyped, WebTyped, spokeVars,
                   share, records, channel, webVars, others
    <3>2. run.job \in Jobs
      BY <2>12 DEF UpdateGroup, RunTyped
    <3>3. RunTyped'
      <4>1. CASE Raise
        BY <2>12, <4>1, <3>2, RaiseTyped DEF UpdateGroup, channel
      <4>2. CASE Goto("index") /\ tx' \in Database
        BY <2>12, <4>2, <3>2, GotoTyped DEF UpdateGroup, channel, RunTyped, Steps
      <4>3. [a \in Assets |-> IF run.shared[a] # 0 THEN run.shared[a] ELSE tx.shared[a]]
              \in [Assets -> Nat]
        BY DEF RunTyped, RunStates, Database
      <4>4. [tx EXCEPT !.shared = [a \in Assets |->
               IF run.shared[a] # 0 THEN run.shared[a] ELSE @[a]]] \in Database
        BY <4>3 DEF RunTyped, Database
      <4> QED
        BY <2>12, <4>1, <4>2, <4>4 DEF UpdateGroup, RunTyped
    <3> QED
      BY <3>1, <3>2, <3>3
  <2>13. ASSUME UpdateIndex PROVE TypeOK'
    <3>1. SpokesTyped' /\ ShareTyped'
      BY <2>13 DEF UpdateIndex, SpokesTyped, ShareTyped, spokeVars, share, records,
                   channel, webVars, others
    <3>2. run.job \in Jobs
      BY <2>13 DEF UpdateIndex, RunTyped
    <3>3. WebTyped'
      BY <2>13, FaultTyped DEF UpdateIndex, Look, webVars
    <3>4. RunTyped'
      BY <2>13, <3>2, GotoTyped DEF UpdateIndex, channel, RunTyped, Steps
    <3>5. SlackTyped'
      <4>1. \A file \in Looks : Listing(file) \in [Assets -> Nat]
        BY LooksTyped DEF Listing, RunTyped, Database, SeasonFiles
      <4>2. index' \in [Assets -> Nat]
        BY <2>13, <4>1 DEF UpdateIndex, SlackTyped
      <4> QED
        BY <2>13, <4>2 DEF UpdateIndex, channel, SlackTyped
    <3> QED
      BY <3>1, <3>2, <3>3, <3>4, <3>5
  <2>14. ASSUME Commit PROVE TypeOK'
    <3>1. SpokesTyped' /\ ShareTyped' /\ WebTyped'
      BY <2>14 DEF Commit, SpokesTyped, ShareTyped, WebTyped, spokeVars, share, records,
                   channel, webVars, others
    <3>2. run.job \in Jobs
      BY <2>14 DEF Commit, RunTyped
    <3>3. SlackTyped'
      BY <2>14 DEF Commit, SlackTyped, RunTyped
    <3>4. RunTyped'
      <4>1. CASE Raise /\ UNCHANGED db
        BY <2>14, <4>1, <3>2, RaiseTyped DEF Commit
      <4>2. CASE Goto("stamp") /\ db' = tx /\ tx' = NoGroup
        <5>1. run' \in RunStates /\ run'.job = run.job /\ run'.posted = run.posted
               /\ run'.at # "record_root" /\ run'.toShare \subseteq run.toShare
          BY <4>2 DEF RunTyped, RunStates, Steps, Goto
        <5> QED
          BY <2>14, <5>1, <4>2, <3>2, Constants DEF Commit, RunTyped
      <4> QED
        BY <2>14, <4>1, <4>2 DEF Commit
    <3> QED
      BY <3>1, <3>2, <3>3, <3>4
  <2>15. ASSUME Stamp PROVE TypeOK'
    <3>1. SpokesTyped' /\ SlackTyped' /\ WebTyped'
      BY <2>15 DEF Stamp, SpokesTyped, SlackTyped, WebTyped, spokeVars, share, records,
                   channel, webVars, others
    <3>2. run.job \in Jobs
      BY <2>15 DEF Stamp, RunTyped
    <3>3. ShareTyped'
      BY <2>15 DEF Stamp, ShareTyped, RunTyped, RunStates, others
    <3>4. RunTyped'
      BY <2>15, <3>2, GotoTyped DEF Stamp, channel, RunTyped, Steps
    <3> QED
      BY <3>1, <3>2, <3>3, <3>4
  <2>16. ASSUME DiscardPosts PROVE TypeOK'
    <3>1. SpokesTyped' /\ ShareTyped' /\ WebTyped'
      BY <2>16 DEF DiscardPosts, SpokesTyped, ShareTyped, WebTyped, spokeVars, share,
                   records, channel, webVars, others
    <3>2. run.job \in Jobs
      BY <2>16 DEF DiscardPosts, RunTyped
    <3>3. log' = log /\ kept' = kept /\ index' = index /\ db' = db /\ tx' = tx
      BY <2>16 DEF DiscardPosts
    <3>4. SlackTyped' /\ RunTyped'
      <4>1. CASE run.posted = {}
        BY <2>16, <4>1, <3>2, <3>3, GotoTyped DEF DiscardPosts, RunTyped, SlackTyped, Steps
      <4>2. CASE run.posted # {}
        <5> DEFINE ts == Max(run.posted)
        <5>1. Len(log) \in Nat
          BY DEF SlackTyped
        <5>2. ts \in run.posted
          BY <4>2, <5>1, MaxIsElement DEF RunTyped
        <5>3. run' = [run EXCEPT !.posted = @ \ {ts}, !.made = @ \ {log[ts].asset}]
          BY <2>16, <4>2 DEF DiscardPosts
        <5>4. \/ shown' = shown \ {ts} /\ stranded' = stranded
              \/ stranded' = stranded \cup {ts} /\ shown' = shown
          BY <2>16, <4>2 DEF DiscardPosts
        <5> HIDE DEF ts
        <5>5. SlackTyped'
          BY <5>2, <5>4, <3>3 DEF SlackTyped, RunTyped
        <5>6. run' \in RunStates /\ run'.job = run.job /\ run'.posted \subseteq run.posted
               /\ run'.at # "record_root" /\ run'.toShare \subseteq run.toShare
          BY <2>16, <5>3 DEF DiscardPosts, RunTyped, RunStates
        <5> QED
          BY <5>5, <5>6, <3>2, <3>3, NotYetPosted DEF RunTyped
      <4> QED
        BY <4>1, <4>2
    <3> QED
      BY <3>1, <3>2, <3>3, <3>4
  <2>17. ASSUME WriteResult PROVE TypeOK'
    <3>1. SpokesTyped' /\ SlackTyped'
      BY <2>17 DEF WriteResult, SpokesTyped, SlackTyped, spokeVars, share, records,
                   channel, webVars, others
    <3>2. run.job \in Jobs
      BY <2>17 DEF WriteResult, RunTyped
    <3>3. ShareTyped'
      <4>1. CASE result' = [result EXCEPT ![run.job] =
                  [status |-> IF Failed THEN "failed" ELSE "done",
                   made |-> run.made, skipped |-> run.skipped]] /\ UNCHANGED <<inbox, failed, sent>>
        <5>1. [status |-> IF Failed THEN "failed" ELSE "done", made |-> run.made,
        skipped |-> run.skipped]
                \in [status : Statuses, made : SUBSET Assets, skipped : SUBSET Assets]
          BY DEF RunTyped, RunStates, Statuses
        <5> QED
          BY <4>1, <5>1 DEF ShareTyped
      <4> QED
        BY <2>17, <4>1 DEF WriteResult, ShareTyped, LeaveInInbox, records
    <3>4. WebTyped'
      BY <2>17, FaultTyped DEF WriteResult, LeaveInInbox, webVars
    <3>5. RunTyped'
      BY <2>17, <3>2, GotoTyped, ForgetTyped DEF WriteResult, LeaveInInbox, channel,
         RunTyped, Steps
    <3> QED
      BY <3>1, <3>2, <3>3, <3>4, <3>5
  <2>18. ASSUME WriteFailed PROVE TypeOK'
    <3>1. SpokesTyped' /\ SlackTyped'
      BY <2>18 DEF WriteFailed, SpokesTyped, SlackTyped, spokeVars, share, records,
                   channel, webVars, others
    <3>2. run.job \in Jobs
      BY <2>18 DEF WriteFailed, RunTyped
    <3>3. ShareTyped'
      BY <2>18, <3>2 DEF WriteFailed, ShareTyped, LeaveInInbox, records
    <3>4. WebTyped'
      BY <2>18, FaultTyped DEF WriteFailed, LeaveInInbox, webVars
    <3>5. RunTyped'
      BY <2>18, <3>2, GotoTyped, ForgetTyped DEF WriteFailed, LeaveInInbox, channel,
         RunTyped, Steps
    <3> QED
      BY <3>1, <3>2, <3>3, <3>4, <3>5
  <2>19. ASSUME MoveToDone PROVE TypeOK'
    <3>1. SpokesTyped' /\ SlackTyped'
      BY <2>19 DEF MoveToDone, SpokesTyped, SlackTyped, spokeVars, share, records, channel,
                   webVars, others
    <3>2. run.job \in Jobs
      BY <2>19 DEF MoveToDone, RunTyped
    <3>3. ShareTyped'
      BY <2>19 DEF MoveToDone, ShareTyped, LeaveInInbox, records
    <3>4. WebTyped'
      BY <2>19, FaultTyped DEF MoveToDone, LeaveInInbox, webVars
    <3>5. RunTyped'
      BY <2>19, ForgetTyped DEF MoveToDone, LeaveInInbox, channel
    <3> QED
      BY <3>1, <3>2, <3>3, <3>4, <3>5
  <2>20. ASSUME MintUpsert PROVE TypeOK'
    <3>1. ShareTyped' /\ SlackTyped' /\ RunTyped'
      BY <2>20 DEF MintUpsert, ShareTyped, SlackTyped, RunTyped, spokeVars, share, records,
                   channel, webVars, others
    <3>2. SpokesTyped'
      BY <2>20, Constants, UpsertTyped DEF MintUpsert
    <3>3. WebTyped'
      BY <2>20, FaultTyped DEF MintUpsert, webVars
    <3> QED
      BY <3>1, <3>2, <3>3
  <2>21. ASSUME Crash PROVE TypeOK'
    <3>1. ShareTyped'
      BY <2>21 DEF Crash, ShareTyped, spokeVars, share, records, channel, webVars, others
    <3>2. SpokesTyped'
      BY <2>21, Constants, UpsertTyped DEF Crash
    <3>3. ShareTyped' /\ SlackTyped'
      BY <2>21 DEF Crash, ShareTyped, SlackTyped, RunTyped, share
    <3>4. RunTyped'
      BY <2>21, ForgetTyped DEF Crash
    <3>5. WebTyped'
      BY <2>21, FaultTyped DEF Crash
    <3> QED
      BY <3>1, <3>2, <3>3, <3>4, <3>5
  <2>22. ASSUME NEW p \in Adopters, AdoptIndex(p) PROVE TypeOK'
    <3>1. SpokesTyped' /\ ShareTyped' /\ SlackTyped' /\ RunTyped'
      BY <2>22 DEF AdoptIndex, SpokesTyped, ShareTyped, SlackTyped, RunTyped, spokeVars,
                   share, records, channel, webVars, others
    <3>2. WebTyped'
      <4>1. index \in [Assets -> Nat]
        BY DEF SlackTyped
      <4> QED
        BY <2>22, <4>1, MintAssumption DEF AdoptIndex, WebTyped
    <3> QED
      BY <3>1, <3>2
  <2>23. ASSUME NEW p \in Adopters, AdoptHistory(p) PROVE TypeOK'
    <3>1. SpokesTyped' /\ ShareTyped' /\ SlackTyped' /\ RunTyped'
      BY <2>23 DEF AdoptHistory, SpokesTyped, ShareTyped, SlackTyped, RunTyped, spokeVars,
                   share, records, channel, webVars, others
    <3>2. \A a \in Assets : Newest(a) \in Nat
      <4>1. \A a \in Assets : Roots(a) \in SUBSET (1..Len(log))
        BY DEF Roots, SlackTyped
      <4>2. Len(log) \in Nat
        BY DEF SlackTyped
      <4> QED
        BY <4>1, <4>2, MaxIsElement DEF Newest
    <3>3. WebTyped'
      <4>1. adoption[p].found \in [Assets -> Nat]
        BY <2>23 DEF WebTyped
      <4>2. [a \in Assets |-> IF adoption[p].found[a] # 0 THEN adoption[p].found[a] ELSE Newest(a)]
              \in [Assets -> Nat]
        BY <4>1, <3>2
      <4> HIDE DEF Newest
      <4> QED
        BY <2>23, <4>2 DEF AdoptHistory, WebTyped
    <3> QED
      BY <3>1, <3>2, <3>3
  <2>24. ASSUME NEW p \in Adopters, AdoptNew(p) PROVE TypeOK'
    <3>1. SpokesTyped' /\ ShareTyped' /\ SlackTyped' /\ RunTyped'
      BY <2>24 DEF AdoptNew, SpokesTyped, ShareTyped, SlackTyped, RunTyped, spokeVars,
                   share, records, channel, webVars, others
    <3>2. WebTyped'
      <4>1. PICK file \in Looks :
              \/ adoption' = [adoption EXCEPT ![p].at = "write",
                   ![p].found = [a \in Assets |-> IF a \in Occupied(file) THEN 0 ELSE @[a]]]
              \/ adoption' = [adoption EXCEPT ![p] = NoAdoption]
        BY <2>24 DEF AdoptNew
      <4>2. [a \in Assets |-> IF a \in Occupied(file) THEN 0 ELSE adoption[p].found[a]]
              \in [Assets -> Nat]
        BY DEF WebTyped
      <4> QED
        BY <2>24, <4>1, <4>2, Constants DEF AdoptNew, WebTyped, NoAdoption
    <3> QED
      BY <3>1, <3>2
  <2>25. ASSUME NEW p \in Adopters, AdoptWrite(p) PROVE TypeOK'
    <3>1. ShareTyped' /\ SlackTyped' /\ RunTyped'
      BY <2>25 DEF AdoptWrite, ShareTyped, SlackTyped, RunTyped, spokeVars, share, records,
                   channel, webVars, others
    <3>2. SpokesTyped'
      <4>1. \A a \in Assets : adoption[p].found[a] \in Nat
        BY DEF WebTyped
      <4> QED
        BY <2>25, <4>1, Constants, StartTyped DEF AdoptWrite, SpokesTyped
    <3>3. WebTyped'
      <4>1. \A a \in Assets : [adoption[p].found EXCEPT ![a] = 0] \in [Assets -> Nat]
        BY DEF WebTyped
      <4> QED
        BY <2>25, <4>1, Constants DEF AdoptWrite, WebTyped, NoAdoption
    <3> QED
      BY <3>1, <3>2, <3>3
  <2>26. ASSUME NEW p \in Adopters, AdoptUpsert(p) PROVE TypeOK'
    <3>1. ShareTyped' /\ SlackTyped' /\ RunTyped' /\ WebTyped'
      BY <2>26 DEF AdoptUpsert, ShareTyped, SlackTyped, RunTyped, WebTyped, spokeVars,
                   share, records, channel, webVars, others
    <3>2. SpokesTyped'
      BY <2>26, Constants, UpsertTyped DEF AdoptUpsert
    <3> QED
      BY <3>1, <3>2
  <2>27. ASSUME NEW p \in Adopters, AdoptCrash(p) PROVE TypeOK'
    <3>1. ShareTyped' /\ SlackTyped' /\ RunTyped'
      BY <2>27 DEF AdoptCrash, ShareTyped, SlackTyped, RunTyped, spokeVars, share, records,
                   channel, webVars, others
    <3>2. SpokesTyped'
      BY <2>27, Constants, UpsertTyped DEF AdoptCrash
    <3>3. WebTyped'
      BY <2>27, Constants DEF AdoptCrash, WebTyped, NoAdoption
    <3> QED
      BY <3>1, <3>2, <3>3
  <2>28. CASE UNCHANGED vars
    BY <2>28 DEF vars, SpokesTyped, ShareTyped, SlackTyped, RunTyped, WebTyped, spokeVars,
                 share, records, channel, webVars, others
  <2> QED
    BY <2>1, <2>2, <2>3, <2>4, <2>5, <2>6, <2>7, <2>8, <2>9, <2>10, <2>11, <2>12, <2>13,
       <2>14, <2>15, <2>16, <2>17, <2>18, <2>19, <2>20, <2>21, <2>22, <2>23, <2>24, <2>25,
       <2>26, <2>27, <2>28 DEF Next, Mint, Adopt
<1> QED
  BY <1>1, <1>2, PTL DEF Spec

-----------------------------------------------------------------------------

(* The messages of an attempt are known: those in posted, and no other, are *)
(* deleted if it fails and kept if it is committed.                         *)
PostsInv ==
  /\ kept \subseteq shown /\ run.posted \subseteq shown
  /\ NoPartialPost
  /\ IF Committed THEN run.posted \subseteq kept ELSE run.posted \cap kept = {}
  /\ run.at \in {"idle", "group"} => run.posted = {}

(* Databases name messages that are kept, or will be by the commit.         *)
Transacting ==
  {"post_group", "record_group", "roots", "record_root", "replies", "update", "index",
  "commit"}

NamesInv ==
  /\ NamesOnly(db, kept)
  /\ NamesOnly(tx, kept \cup run.posted)
  /\ run.at \notin Transacting => tx = NoGroup
  /\ run.at \in {"record_group", "record_root"} => Len(log) \in run.posted

(* What the attempt will report is posted, what is reported is kept.        *)
PostedFor(j, a, messages) == \E ts \in messages : log[ts].job = j /\ log[ts].asset = a

ReportInv ==
  /\ run.at = "record_root" => log[Len(log)].job = run.job /\ log[Len(log)].asset = run.asset
  /\ \A a \in run.made : PostedFor(run.job, a, run.posted)
  /\ \A j \in Jobs : \A a \in result[j].made : PostedFor(j, a, kept)

MintInv == PostsInv /\ NamesInv /\ ReportInv

-----------------------------------------------------------------------------

(* Nothing the invariant speaks of changes.                                 *)
LEMMA MintInvKept ==
  ASSUME MintInv, UNCHANGED <<log, shown, kept, stranded, db, tx, run, result>>
  PROVE  MintInv'
BY DEF MintInv, PostsInv, NamesInv, ReportInv, NoPartialPost, Committed, NamesOnly,
       PostedFor

(* The attempt goes on; it posts nothing and forgets no post.               *)
LEMMA GoesOn ==
  ASSUME MintInv, UNCHANGED <<log, shown, kept, stranded, db, result>>,
         run'.posted = run.posted, run'.job = run.job,
         run'.made \subseteq run.made,
         run'.at \notin {"idle", "group", "record_group", "record_root"},
         ~Committed => ~Committed', Committed => Committed',
         NamesOnly(tx', kept \cup run.posted), run'.at \notin Transacting => tx' = NoGroup
  PROVE  MintInv'
BY DEF MintInv, PostsInv, NamesInv, ReportInv, NoPartialPost, Committed, NamesOnly,
       PostedFor

(* The attempt has posted a message, which it remembers.                    *)
LEMMA Remembers ==
  ASSUME TypeOK, MintInv, NEW kind \in {"group", "root", "reply"},
         NEW a \in Assets \cup {NoAsset}, run.job \in Jobs, Accepted(kind, a),
         UNCHANGED <<db, tx, result>>, run.at \in Transacting, run'.at \in Transacting,
         run'.job = run.job, run'.posted = run.posted \cup {Len(log')},
         run'.made \subseteq run.made \cup {a}, run'.at = "record_root" => run'.asset = a
  PROVE  MintInv'
<1>1. Said(kind, a) /\ stranded' = stranded
  BY DEF Accepted
<1>2. shown' = shown \cup {Len(log')} /\ kept' = kept
  BY <1>1 DEF Said
<1>3. /\ Len(log') \notin 1..Len(log)
      /\ log'[Len(log')].job = run.job /\ log'[Len(log')].asset = a
      /\ \A ts \in 1..Len(log) : log'[ts] = log[ts]
  <2>1. /\ Len(log) \in Nat /\ Len(log') = Len(log) + 1
        /\ log'[Len(log')] = [job |-> run.job, kind |-> kind, asset |-> a]
        /\ \A ts \in 1..Len(log) : log'[ts] = log[ts]
    BY <1>1, SaidLog DEF TypeOK
  <2>2. Len(log') \notin 1..Len(log)
    BY <2>1
  <2> QED
    BY <2>1, <2>2
<1>4. ~Committed /\ ~Committed'
  BY DEF Committed, Transacting
<1>5. PostsInv'
  BY <1>1, <1>2, <1>3, <1>4 DEF MintInv, PostsInv, NoPartialPost, TypeOK, SlackTyped,
                                Transacting
<1>6. NamesInv'
  BY <1>2 DEF MintInv, NamesInv, NamesOnly
<1>7. ReportInv'
  <2>1. \A j \in Jobs : \A b \in result'[j].made : PostedFor(j, b, kept)'
    <3>1. \A ts \in kept : log'[ts] = log[ts]
      BY <1>3 DEF TypeOK, SlackTyped
    <3> QED
      BY <1>2, <3>1 DEF MintInv, ReportInv, PostedFor
  <2>2. \A b \in run.made : PostedFor(run.job, b, run.posted)'
    BY <1>3 DEF MintInv, ReportInv, PostedFor, TypeOK, RunTyped
  <2>3. PostedFor(run.job, a, run.posted)'
    BY <1>3 DEF PostedFor
  <2> QED
    BY <1>3, <2>1, <2>2, <2>3 DEF ReportInv
<1> QED
  BY <1>5, <1>6, <1>7 DEF MintInv

(* The attempt goes on after a post of which it does not know.              *)
LEMMA Unheard ==
  ASSUME TypeOK, MintInv, NEW call, NEW kind \in {"group", "root", "reply"},
         NEW a \in Assets \cup {NoAsset}, run.job \in Jobs, NotPosted(call, kind, a),
         UNCHANGED <<db, result>>, run'.posted = run.posted, run'.job = run.job,
         run'.made \subseteq run.made,
         run'.at \notin {"idle", "group", "record_group", "record_root"},
         ~Committed, ~Committed',
         NamesOnly(tx', kept \cup run.posted), run'.at \notin Transacting => tx' = NoGroup
  PROVE  MintInv'
<1>1. CASE AnswerLost(kind, a)
  <2>1. Said(kind, a) /\ stranded' = stranded \cup {Len(log')}
    BY <1>1 DEF AnswerLost
  <2>2. shown' = shown \cup {Len(log')} /\ kept' = kept
    BY <2>1 DEF Said
  <2>3. \A ts \in 1..Len(log) : log'[ts] = log[ts]
    BY <2>1, SaidLog DEF TypeOK
  <2>4. PostsInv'
    BY <2>1, <2>2 DEF MintInv, PostsInv, NoPartialPost
  <2>5. NamesInv'
    BY <2>2 DEF MintInv, NamesInv, NamesOnly
  <2>6. ReportInv'
    <3>1. \A ts \in kept \cup run.posted : log'[ts] = log[ts]
      BY <2>3 DEF TypeOK, SlackTyped, RunTyped
    <3> QED
      BY <2>2, <3>1 DEF MintInv, ReportInv, PostedFor
  <2> QED
    BY <2>4, <2>5, <2>6 DEF MintInv
<1>2. CASE UNCHANGED channel
  BY <1>2, GoesOn DEF channel
<1> QED
  BY <1>1, <1>2 DEF NotPosted

(* An error: the transaction is gone, the messages of the attempt are not.  *)
LEMMA Raises ==
  ASSUME MintInv, Raise, run.at \in Transacting \cup {"group"}
  PROVE  /\ run'.posted = run.posted /\ run'.job = run.job
         /\ run'.made = run.made /\ run'.at = "discard"
         /\ ~Committed /\ ~Committed' /\ NamesOnly(tx', kept \cup run.posted)
         /\ run'.at \notin Transacting => tx' = NoGroup
<1>1. /\ run'.at = "discard" /\ run'.job = run.job /\ run'.made = run.made
      /\ run'.posted = run.posted /\ tx' = NoGroup
  BY DEF Raise, NoRun
<1>2. NamesOnly(NoGroup, kept \cup run.posted)
  BY DEF NamesOnly, NoGroup, NoEntries
<1>3. ~Committed /\ ~Committed'
  BY <1>1 DEF Committed, Transacting
<1> QED
  BY <1>1, <1>2, <1>3

(* The worker forgets an attempt that is committed, or has posted nothing.  *)
LEMMA Forgets ==
  ASSUME TypeOK, MintInv, Forget, UNCHANGED <<log, shown, kept, db, result>>,
         stranded' = stranded \cup (IF Committed THEN {} ELSE run.posted)
  PROVE  MintInv'
<1>1. /\ run'.at = "idle" /\ run'.made = {} /\ run'.posted = {} /\ tx' = NoGroup
  BY DEF Forget, NoRun
<1>2. NamesOnly(NoGroup, kept)
  BY DEF NamesOnly, NoGroup, NoEntries
<1> QED
  BY <1>1, <1>2 DEF MintInv, PostsInv, NamesInv, ReportInv, NoPartialPost, Committed,
                    NamesOnly, PostedFor, Transacting

(* An attempt of which nothing is posted yet begins.                        *)
LEMMA Begins ==
  ASSUME MintInv, run.at = "idle", UNCHANGED <<log, shown, kept, stranded, db, tx, result>>,
         run'.at \in {"group", "discard", "fail"}, run'.posted = {}, run'.made = {}
  PROVE  MintInv'
BY DEF MintInv, PostsInv, NamesInv, ReportInv, NoPartialPost, Committed, NamesOnly,
       PostedFor, Transacting

(* The initial state satisfies the invariant, and every action keeps it.    *)
LEMMA MintStep ==
  ASSUME TypeOK, TypeOK', MintInv, [Next]_vars
  PROVE  MintInv'
<1> USE DEF others, records, channel, webVars, share
<1>1. ASSUME NEW j \in Jobs, Drop(j) PROVE MintInv'
  BY <1>1, MintInvKept DEF Drop
<1>2. ASSUME NEW j \in Jobs, TakeJob(j) PROVE MintInv'
  <2>1. run'.at \in {"group", "discard"} /\ run'.posted = {} /\ run'.made = {}
    BY <1>2 DEF TakeJob, NoRun
  <2> QED
    BY <1>2, <2>1, Begins DEF TakeJob
<1>3. ASSUME NEW j \in Jobs, MisreadJob(j) PROVE MintInv'
  <2>1. run'.at = "fail" /\ run'.posted = {} /\ run'.made = {}
    BY <1>3 DEF MisreadJob, NoRun
  <2> QED
    BY <1>3, <2>1, Begins DEF MisreadJob
<1>4. ASSUME OpenGroup PROVE MintInv'
  <2>1. CASE Raise
    BY <1>4, <2>1, Raises, GoesOn DEF OpenGroup
  <2>2. CASE ~Raise
    <3>1. /\ run'.at \in {"roots", "post_group"} /\ run'.posted = run.posted
          /\ run'.job = run.job /\ run'.made = run.made /\ tx' = db
      BY <1>4, <2>2 DEF OpenGroup, TypeOK, RunTyped, RunStates
    <3>2. ~Committed /\ ~Committed'
      BY <1>4, <3>1 DEF OpenGroup, Committed
    <3>3. NamesOnly(db, kept \cup run.posted)
      BY DEF MintInv, NamesInv, NamesOnly
    <3> QED
      BY <1>4, <3>1, <3>2, <3>3, GoesOn DEF OpenGroup, Transacting
  <2> QED
    BY <2>1, <2>2
<1>5. ASSUME PostGroup PROVE MintInv'
  <2>1. run.job \in Jobs
    BY <1>5 DEF PostGroup, TypeOK, RunTyped
  <2>2. CASE /\ Accepted("group", NoAsset)
             /\ run' = [run EXCEPT !.at = "record_group", !.posted = @ \cup {Len(log')}]
             /\ UNCHANGED tx
    <3>1. /\ run'.at = "record_group" /\ run'.job = run.job /\ run'.made = run.made
          /\ run'.posted = run.posted \cup {Len(log')}
      BY <2>2 DEF TypeOK, RunTyped, RunStates
    <3> QED
      BY <1>5, <2>1, <2>2, <3>1, Remembers DEF PostGroup, Transacting
  <2>3. CASE NotPosted("post_group", "group", NoAsset) /\ Raise
    BY <1>5, <2>1, <2>3, Unheard, Raises DEF PostGroup, Transacting
  <2> QED
    BY <1>5, <2>2, <2>3 DEF PostGroup
<1>6. ASSUME RecordGroup PROVE MintInv'
  <2>1. CASE Raise
    BY <1>6, <2>1, Raises, GoesOn DEF RecordGroup, Transacting
  <2>2. CASE tx' = [tx EXCEPT !.post = Len(log)] /\ Goto("roots")
    <3>1. /\ run'.at = "roots" /\ run'.posted = run.posted
          /\ run'.job = run.job /\ run'.made = run.made
      BY <2>2 DEF Goto, TypeOK, RunTyped, RunStates
    <3>2. tx'.post = Len(log) /\ tx'.root = tx.root
      BY <2>2 DEF TypeOK, RunTyped, Database
    <3>3. NamesOnly(tx', kept \cup run.posted)
      BY <1>6, <3>2 DEF RecordGroup, MintInv, NamesInv, NamesOnly
    <3>4. ~Committed /\ ~Committed'
      BY <1>6, <3>1 DEF RecordGroup, Committed
    <3> QED
      BY <1>6, <3>1, <3>3, <3>4, GoesOn DEF RecordGroup, Transacting
  <2> QED
    BY <1>6, <2>1, <2>2 DEF RecordGroup
<1>7. ASSUME NEW a \in Assets, PostRoot(a) PROVE MintInv'
  <2>1. run.job \in Jobs
    BY <1>7 DEF PostRoot, TypeOK, RunTyped
  <2>2. CASE /\ Accepted("root", a)
             /\ run' = [run EXCEPT !.at = "record_root", !.toRoot = @ \ {a}, !.asset = a,
                                   !.posted = @ \cup {Len(log')}]
    <3>1. /\ run'.at = "record_root" /\ run'.job = run.job /\ run'.made = run.made
          /\ run'.posted = run.posted \cup {Len(log')} /\ run'.asset = a
      BY <2>2 DEF TypeOK, RunTyped, RunStates
    <3> QED
      BY <1>7, <2>1, <2>2, <3>1, Remembers DEF PostRoot, Transacting
  <2>3. CASE /\ NotPosted("post_root", "root", a)
             /\ run' = [run EXCEPT !.toRoot = @ \ {a}, !.lost = @ \cup {a}]
    <3>1. /\ run'.at = "roots" /\ run'.job = run.job /\ run'.made = run.made
          /\ run'.posted = run.posted
      BY <1>7, <2>3 DEF PostRoot, TypeOK, RunTyped, RunStates
    <3>2. ~Committed /\ ~Committed'
      BY <1>7, <3>1 DEF PostRoot, Committed
    <3>3. NamesOnly(tx', kept \cup run.posted)
      BY <1>7 DEF PostRoot, MintInv, NamesInv, NamesOnly
    <3> QED
      BY <1>7, <2>1, <2>3, <3>1, <3>2, <3>3, Unheard DEF PostRoot, Transacting
  <2> QED
    BY <1>7, <2>2, <2>3 DEF PostRoot
<1>8. ASSUME RecordRoot PROVE MintInv'
  <2>1. log' = log /\ shown' = shown /\ kept' = kept /\ stranded' = stranded /\ db' = db /\ result' = result
    BY <1>8 DEF RecordRoot
  <2>2. CASE Raise
    BY <1>8, <2>1, <2>2, Raises, GoesOn DEF RecordRoot, Transacting
  <2>3. CASE /\ tx' = [tx EXCEPT !.root[run.asset] = Len(log)]
             /\ run' = [run EXCEPT !.at = "roots", !.root[run.asset] = Len(log),
                                   !.made = @ \cup {run.asset}]
    <3>1. /\ run'.at = "roots" /\ run'.posted = run.posted
          /\ run'.job = run.job /\ run'.made = run.made \cup {run.asset}
      BY <2>3 DEF TypeOK, RunTyped, RunStates
    <3>2. /\ tx'.post = tx.post
          /\ \A b \in Assets : tx'.root[b] = IF b = run.asset THEN Len(log) ELSE tx.root[b]
      BY <2>3 DEF TypeOK, RunTyped, Database
    <3>3. Len(log) \in run.posted /\ log[Len(log)].job = run.job /\ log[Len(log)].asset = run.asset
      BY <1>8 DEF RecordRoot, MintInv, NamesInv, ReportInv
    <3>4. ~Committed /\ ~Committed'
      BY <1>8, <3>1 DEF RecordRoot, Committed
    <3>5. PostsInv'
      BY <2>1, <3>1, <3>4 DEF MintInv, PostsInv, NoPartialPost
    <3>6. NamesInv'
      BY <2>1, <3>1, <3>2, <3>3 DEF MintInv, NamesInv, NamesOnly, Transacting
    <3>7. ReportInv'
      BY <2>1, <3>1, <3>3 DEF MintInv, ReportInv, PostedFor
    <3> QED
      BY <3>5, <3>6, <3>7 DEF MintInv
  <2>4. CASE run' = [run EXCEPT !.at = "roots", !.lost = @ \cup {run.asset}] /\ UNCHANGED tx
    <3>1. /\ run'.at = "roots" /\ run'.posted = run.posted
          /\ run'.job = run.job /\ run'.made = run.made
      BY <2>4 DEF TypeOK, RunTyped, RunStates
    <3>2. ~Committed /\ ~Committed' /\ NamesOnly(tx', kept \cup run.posted)
      BY <1>8, <2>4, <3>1 DEF RecordRoot, Committed, MintInv, NamesInv, NamesOnly
    <3> QED
      BY <2>1, <2>4, <3>1, <3>2, GoesOn DEF Transacting
  <2> QED
    BY <1>8, <2>2, <2>3, <2>4 DEF RecordRoot
<1>9. ASSUME EndRoots PROVE MintInv'
  <2>1. /\ run'.at = "replies" /\ run'.posted = run.posted
        /\ run'.job = run.job /\ run'.made = run.made
    BY <1>9 DEF EndRoots, Goto, TypeOK, RunTyped, RunStates
  <2>2. ~Committed /\ ~Committed' /\ NamesOnly(tx', kept \cup run.posted)
    BY <1>9, <2>1 DEF EndRoots, Committed, MintInv, NamesInv, NamesOnly
  <2> QED
    BY <1>9, <2>1, <2>2, GoesOn DEF EndRoots, Transacting
<1>10. ASSUME NEW a \in Assets, Reply(a) PROVE MintInv'
  <2>1. run.job \in Jobs /\ run.at = "replies"
    BY <1>10 DEF Reply, TypeOK, RunTyped
  <2>2. db' = db /\ tx' = tx /\ result' = result
    BY <1>10 DEF Reply
  <2>3. ASSUME NEW ts, Accepted("reply", a),
               run' = [run EXCEPT !.toShare = @ \ {a}, !.shared[a] = ts,
                                  !.made = @ \cup {a}, !.posted = @ \cup {Len(log')}]
        PROVE  MintInv'
    <3>1. /\ run'.at = "replies" /\ run'.job = run.job /\ run'.made = run.made \cup {a}
          /\ run'.posted = run.posted \cup {Len(log')}
      BY <2>1, <2>3 DEF TypeOK, RunTyped, RunStates
    <3> QED
      BY <2>1, <2>2, <2>3, <3>1, Remembers DEF Transacting
  <2>4. CASE /\ NotPosted("post_reply", "reply", a) \/ UNCHANGED channel
             /\ run' = [run EXCEPT !.toShare = @ \ {a}, !.lost = @ \cup {a}]
    <3>1. /\ run'.at = "replies" /\ run'.job = run.job /\ run'.made = run.made
          /\ run'.posted = run.posted
      BY <2>1, <2>4 DEF TypeOK, RunTyped, RunStates
    <3>2. ~Committed /\ ~Committed' /\ NamesOnly(tx', kept \cup run.posted)
      BY <2>1, <2>2, <3>1 DEF Committed, MintInv, NamesInv, NamesOnly
    <3>3. CASE NotPosted("post_reply", "reply", a)
      BY <2>1, <2>2, <3>1, <3>2, <3>3, Unheard DEF Transacting
    <3>4. CASE UNCHANGED channel
      BY <2>1, <2>2, <3>1, <3>2, <3>4, GoesOn DEF Transacting
    <3> QED
      BY <2>4, <3>3, <3>4
  <2> QED
    BY <1>10, <2>3, <2>4 DEF Reply
<1>11. ASSUME AbortIfPartial PROVE MintInv'
  <2>1. CASE Raise
    BY <1>11, <2>1, Raises, GoesOn DEF AbortIfPartial, Transacting
  <2>2. CASE Goto("update") /\ UNCHANGED tx
    <3>1. /\ run'.at = "update" /\ run'.posted = run.posted
          /\ run'.job = run.job /\ run'.made = run.made
      BY <2>2 DEF Goto, TypeOK, RunTyped, RunStates
    <3>2. ~Committed /\ ~Committed' /\ NamesOnly(tx', kept \cup run.posted)
      BY <1>11, <2>2, <3>1 DEF AbortIfPartial, Committed, MintInv, NamesInv, NamesOnly
    <3> QED
      BY <1>11, <2>2, <3>1, <3>2, GoesOn DEF AbortIfPartial, Transacting
  <2> QED
    BY <1>11, <2>1, <2>2 DEF AbortIfPartial
<1>12. ASSUME UpdateGroup PROVE MintInv'
  <2>1. CASE Raise
    BY <1>12, <2>1, Raises, GoesOn DEF UpdateGroup, Transacting
  <2>2. CASE Goto("index") /\ tx'.post = tx.post /\ tx'.root = tx.root
    <3>1. /\ run'.at = "index" /\ run'.posted = run.posted
          /\ run'.job = run.job /\ run'.made = run.made
      BY <2>2 DEF Goto, TypeOK, RunTyped, RunStates
    <3>2. ~Committed /\ ~Committed' /\ NamesOnly(tx', kept \cup run.posted)
      BY <1>12, <2>2, <3>1 DEF UpdateGroup, Committed, MintInv, NamesInv, NamesOnly
    <3> QED
      BY <1>12, <2>2, <3>1, <3>2, GoesOn DEF UpdateGroup, Transacting
  <2> QED
    BY <1>12, <2>1, <2>2 DEF UpdateGroup, TypeOK, RunTyped, Database
<1>13. ASSUME UpdateIndex PROVE MintInv'
  <2>1. /\ run'.at = "commit" /\ run'.posted = run.posted
        /\ run'.job = run.job /\ run'.made = run.made
    BY <1>13 DEF UpdateIndex, Goto, TypeOK, RunTyped, RunStates
  <2>2. ~Committed /\ ~Committed' /\ NamesOnly(tx', kept \cup run.posted)
    BY <1>13, <2>1 DEF UpdateIndex, Committed, MintInv, NamesInv, NamesOnly
  <2> QED
    BY <1>13, <2>1, <2>2, GoesOn DEF UpdateIndex, Transacting
<1>14. ASSUME Commit PROVE MintInv'
  <2>1. CASE Raise /\ UNCHANGED <<db, kept>>
    BY <1>14, <2>1, Raises, GoesOn DEF Commit, Transacting
  <2>2. CASE db' = tx /\ tx' = NoGroup /\ kept' = kept \cup run.posted /\ Goto("stamp")
    <3>1. /\ run'.at = "stamp" /\ run'.posted = run.posted
          /\ run'.job = run.job /\ run'.made = run.made
      BY <2>2 DEF Goto, TypeOK, RunTyped, RunStates
    <3>2. ~Committed /\ Committed'
      BY <1>14, <3>1 DEF Commit, Committed
    <3>3. PostsInv'
      BY <1>14, <2>2, <3>1, <3>2 DEF Commit, MintInv, PostsInv, NoPartialPost
    <3>4. NamesInv'
      BY <2>2, <3>1 DEF MintInv, NamesInv, NamesOnly, NoGroup, NoEntries
    <3>5. ReportInv'
      BY <1>14, <2>2, <3>1 DEF Commit, MintInv, ReportInv, PostedFor
    <3> QED
      BY <3>3, <3>4, <3>5 DEF MintInv
  <2> QED
    BY <1>14, <2>1, <2>2 DEF Commit
<1>15. ASSUME Stamp PROVE MintInv'
  <2>1. /\ run'.at = "result" /\ run'.posted = run.posted
        /\ run'.job = run.job /\ run'.made = run.made
    BY <1>15 DEF Stamp, Goto, TypeOK, RunTyped, RunStates
  <2>2. Committed /\ Committed' /\ NamesOnly(tx', kept \cup run.posted) /\ tx' = NoGroup
    BY <1>15, <2>1 DEF Stamp, Committed, MintInv, NamesInv, NamesOnly, Transacting
  <2> QED
    BY <1>15, <2>1, <2>2, GoesOn DEF Stamp
<1>16. ASSUME DiscardPosts PROVE MintInv'
  <2>1. log' = log /\ kept' = kept /\ db' = db /\ tx' = tx /\ result' = result
    BY <1>16 DEF DiscardPosts
  <2>2. tx = NoGroup
    BY <1>16 DEF DiscardPosts, MintInv, NamesInv, Transacting
  <2>3. CASE run.posted = {}
    <3>1. /\ run'.at = "result" /\ run'.posted = {} /\ run'.job = run.job /\ run'.made = run.made
      BY <1>16, <2>3 DEF DiscardPosts, Goto, TypeOK, RunTyped, RunStates
    <3>2. shown' = shown /\ stranded' = stranded
      BY <1>16, <2>3 DEF DiscardPosts
    <3>3. Committed'
      BY <3>1 DEF Committed
    <3> QED
      BY <2>1, <2>2, <2>3, <3>1, <3>2, <3>3
         DEF MintInv, PostsInv, NamesInv, ReportInv, NoPartialPost, NamesOnly, PostedFor
  <2>4. CASE run.posted # {}
    <3> DEFINE ts == Max(run.posted)
    <3>1. ts \in run.posted
      <4>1. Len(log) \in Nat
        BY DEF TypeOK, SlackTyped
      <4> QED
        BY <2>4, <4>1, MaxIsElement DEF TypeOK, RunTyped
    <3>2. run' = [run EXCEPT !.posted = @ \ {ts}, !.made = @ \ {log[ts].asset}]
      BY <1>16, <2>4 DEF DiscardPosts
    <3>3. \/ shown' = shown \ {ts} /\ stranded' = stranded
          \/ stranded' = stranded \cup {ts} /\ shown' = shown
      BY <1>16, <2>4 DEF DiscardPosts
    <3> HIDE DEF ts
    <3>4. /\ run'.at = "discard" /\ run'.job = run.job
          /\ run'.posted = run.posted \ {ts} /\ run'.made = run.made \ {log[ts].asset}
      BY <1>16, <3>2 DEF DiscardPosts, TypeOK, RunTyped, RunStates
    <3>5. ~Committed /\ ~Committed'
      BY <1>16, <3>4 DEF DiscardPosts, Committed
    <3>6. PostsInv'
      BY <2>1, <3>1, <3>3, <3>4, <3>5 DEF MintInv, PostsInv, NoPartialPost
    <3>7. NamesInv'
      BY <2>1, <2>2, <3>4 DEF MintInv, NamesInv, NamesOnly, NoGroup, NoEntries
    <3>8. ReportInv'
      BY <2>1, <3>4 DEF MintInv, ReportInv, PostedFor
    <3> QED
      BY <3>6, <3>7, <3>8 DEF MintInv
  <2> QED
    BY <2>3, <2>4
<1>17. ASSUME WriteResult PROVE MintInv'
  <2>1. Committed /\ run.job \in Jobs /\ run.posted \subseteq kept /\ tx = NoGroup
    BY <1>17 DEF WriteResult, Committed, TypeOK, RunTyped, MintInv, PostsInv, NamesInv,
                 Transacting
  <2>2. CASE LeaveInInbox("result")
    BY <1>17, <2>1, <2>2, Forgets DEF WriteResult, LeaveInInbox
  <2>3. CASE /\ result' = [result EXCEPT ![run.job] =
                  [status |-> IF Failed THEN "failed" ELSE "done",
                   made |-> run.made, skipped |-> run.skipped]]
             /\ Goto(IF Failed THEN "fail" ELSE "move")
             /\ tx' = tx
    <3>1. /\ run'.at \in {"fail", "move"} /\ run'.posted = run.posted
          /\ run'.job = run.job /\ run'.made = run.made
      BY <2>3 DEF Goto, TypeOK, RunTyped, RunStates
    <3>2. \A j \in Jobs : result'[j].made = IF j = run.job THEN run.made ELSE result[j].made
      BY <2>1, <2>3 DEF TypeOK, ShareTyped
    <3>3. Committed'
      BY <3>1 DEF Committed
    <3>4. log' = log /\ shown' = shown /\ kept' = kept /\ stranded' = stranded /\ db' = db
      BY <1>17 DEF WriteResult
    <3>5. PostsInv' /\ NamesInv'
      BY <2>1, <2>3, <3>1, <3>3, <3>4 DEF MintInv, PostsInv, NamesInv, NoPartialPost,
                                          NamesOnly
    <3>6. ReportInv'
      <4>1. \A a \in run.made : PostedFor(run.job, a, kept)
        BY <2>1 DEF MintInv, ReportInv, PostedFor
      <4> QED
        BY <3>1, <3>2, <3>4, <4>1 DEF MintInv, ReportInv, PostedFor
    <3> QED
      BY <3>5, <3>6 DEF MintInv
  <2> QED
    BY <1>17, <2>2, <2>3 DEF WriteResult
<1>18. ASSUME WriteFailed PROVE MintInv'
  <2>1. Committed /\ tx = NoGroup
    BY <1>18 DEF WriteFailed, Committed, MintInv, NamesInv, Transacting
  <2>2. CASE LeaveInInbox("fail")
    BY <1>18, <2>1, <2>2, Forgets DEF WriteFailed, LeaveInInbox
  <2>3. CASE Goto("move") /\ UNCHANGED <<result, tx>>
    <3>1. /\ run'.at = "move" /\ run'.posted = run.posted
          /\ run'.job = run.job /\ run'.made = run.made
      BY <2>3 DEF Goto, TypeOK, RunTyped, RunStates
    <3>2. Committed' /\ NamesOnly(tx', kept \cup run.posted) /\ tx' = NoGroup
      BY <2>1, <2>3, <3>1 DEF Committed, MintInv, NamesInv, NamesOnly
    <3> QED
      BY <1>18, <2>1, <2>3, <3>1, <3>2, GoesOn DEF WriteFailed
  <2> QED
    BY <1>18, <2>2, <2>3 DEF WriteFailed
<1>19. ASSUME MoveToDone PROVE MintInv'
  <2>1. Committed
    BY <1>19 DEF MoveToDone, Committed
  <2> QED
    BY <1>19, <2>1, Forgets DEF MoveToDone, LeaveInInbox
<1>20. ASSUME MintUpsert PROVE MintInv'
  BY <1>20, MintInvKept DEF MintUpsert
<1>21. ASSUME Crash PROVE MintInv'
  BY <1>21, Forgets DEF Crash
<1>22. ASSUME NEW p \in Adopters, Adopt(p) PROVE MintInv'
  BY <1>22, MintInvKept DEF Adopt, AdoptIndex, AdoptHistory, AdoptNew, AdoptWrite,
                            AdoptUpsert, AdoptCrash
<1>23. CASE UNCHANGED vars
  BY <1>23, MintInvKept DEF vars
<1> QED
  BY <1>1, <1>2, <1>3, <1>4, <1>5, <1>6, <1>7, <1>8, <1>9, <1>10, <1>11, <1>12, <1>13,
     <1>14,
     <1>15, <1>16, <1>17, <1>18, <1>19, <1>20, <1>21, <1>22, <1>23 DEF Next, Mint

(* MintInv holds in every reachable state.                                  *)
LEMMA MintInvariant == Spec => []MintInv
<1>1. Init => MintInv
  <2> SUFFICES ASSUME Init PROVE MintInv
    OBVIOUS
  <2>1. run = NoRun /\ db = NoGroup /\ tx = NoGroup /\ kept = {} /\ shown = {} /\ stranded = {}
        /\ log = << >> /\ \A j \in Jobs : result[j] = NoResult
    BY DEF Init
  <2>2. run.at = "idle" /\ run.posted = {} /\ run.made = {}
    BY <2>1 DEF NoRun
  <2>3. \A j \in Jobs : result[j].made = {}
    BY <2>1 DEF NoResult
  <2>4. PostsInv
    <3>1. ~Committed
      BY <2>2 DEF Committed
    <3>2. NoPartialPost
      BY <2>1, <2>2 DEF NoPartialPost
    <3> QED
      BY <2>1, <2>2, <3>1, <3>2 DEF PostsInv
  <2>5. NamesInv
    <3>1. NamesOnly(NoGroup, {})
      BY DEF NamesOnly, NoGroup, NoEntries
    <3> QED
      BY <2>1, <2>2, <3>1 DEF NamesInv
  <2>6. ReportInv
    BY <2>2, <2>3 DEF ReportInv
  <2> QED
    BY <2>4, <2>5, <2>6 DEF MintInv
<1>2. TypeOK /\ TypeOK' /\ MintInv /\ [Next]_vars => MintInv'
  BY MintStep
<1> QED
  BY <1>1, <1>2, MintTyped, PTL DEF Spec

(* HistoryTrue holds for every set of jobs, assets and adopters, and        *)
(* whatever calls fail: the committed history names only messages that are  *)
(* kept, and no message that is kept is ever deleted.                       *)
THEOREM HistoryStands == Spec => []HistoryTrue
<1>1. MintInv => HistoryTrue
  BY DEF MintInv, PostsInv, NamesInv, HistoryTrue, NamesOnly
<1> QED
  BY <1>1, MintInvariant, PTL

(* ReportTrue: an outcome reported in a result file has a message that is   *)
(* kept, and so is in the channel.                                          *)
THEOREM ReportStands == Spec => []ReportTrue
<1>1. MintInv => ReportTrue
  BY DEF MintInv, PostsInv, ReportInv, ReportTrue, PostedFor
<1> QED
  BY <1>1, MintInvariant, PTL

(* NoPartialPost: whatever an attempt posted, it deletes, commits, or       *)
(* cannot know of.                                                          *)
THEOREM NothingPartial == Spec => []NoPartialPost
<1>1. MintInv => NoPartialPost
  BY DEF MintInv, PostsInv
<1> QED
  BY <1>1, MintInvariant, PTL

-----------------------------------------------------------------------------

(* Why an asset gets one root while nobody adopts, nothing dies and no      *)
(* message is stranded.  The worker is the only writer of the season file,  *)
(* so that an upsert loses no entry, and every root in the channel is the   *)
(* entry of its asset, or one that the attempt is going to delete.          *)
Calm == adoptions = 0 /\ faults = 0 /\ stranded = {}

(* The entry of an asset when the upsert under way is done.                 *)
Entry(a) ==
  IF upsert[Worker].asset = a THEN upsert[Worker].ts
  ELSE IF upsert[Worker].at = "write" THEN upsert[Worker].before.thread[a]
  ELSE season.thread[a]

OneWriter ==
  /\ \A p \in Adopters : adoption[p].at = "idle" /\ ~Upserting(p)
  /\ Upserting(Worker) => run.at \in {"roots", "replies"}
  /\ ~Upserting(Worker) => upsert[Worker] = NoUpsert
  /\ season.text # "torn"
  /\ upsert[Worker].at \in {"compare", "truncate"} => upsert[Worker].before = season
  /\ upsert[Worker].at = "write" => season = Empty

GivenUp(a, ts) ==
  /\ ts \in run.posted
  /\ \/ run.at = "discard"
     \/ run.at = "record_root" /\ run.asset = a
     \/ run.at \in {"roots", "record_root", "replies"} /\ a \in run.lost

RootKept(a) ==
  /\ \A ts \in Roots(a) : Entry(a) = ts \/ GivenUp(a, ts)
  /\ \A s, t \in Roots(a) : s = t
  /\ a \in run.toRoot \cup run.toShare => Roots(a) = {}
  /\ run.at = "record_root" /\ run.asset = a => Roots(a) \subseteq {Len(log)}

RootsKept == OneWriter /\ run.toRoot \cap run.toShare = {} /\ \A a \in Assets : RootKept(a)

RootsInv == Calm => RootsKept

(* A disturbance is never over.                                             *)
LEMMA FaultNotCalm == ASSUME TypeOK, Fault PROVE ~Calm'
BY DEF TypeOK, WebTyped, Fault, Calm

LEMMA CalmBefore == ASSUME TypeOK, [Next]_vars, Calm' PROVE Calm
<1> USE DEF others, records, channel, webVars, share
<1>1. ~Fault
  BY FaultNotCalm
<1>2. \A call, kind, a : NotPosted(call, kind, a) => stranded \subseteq stranded'
  BY DEF NotPosted, AnswerLost
<1>3. \A file : Look(file) => UNCHANGED faults
  BY <1>1 DEF Look
<1>4. ASSUME NEW j \in Jobs, Drop(j) \/ TakeJob(j) \/ MisreadJob(j) PROVE Calm
  <2>1. CASE Drop(j)
    BY <2>1 DEF Drop, Calm
  <2>2. CASE TakeJob(j)
    <3>1. UNCHANGED faults
      BY <1>3, <2>2, Zenon DEF TakeJob
    <3>2. UNCHANGED <<adoptions, stranded>>
      BY <2>2, Zenon DEF TakeJob
    <3> QED BY <3>1, <3>2 DEF Calm
  <2> QED BY <1>1, <1>4, <2>1, <2>2 DEF MisreadJob
<1>5. CASE OpenGroup \/ RecordGroup \/ RecordRoot \/ EndRoots \/ AbortIfPartial \/ UpdateGroup
  BY <1>5 DEF OpenGroup, RecordGroup, RecordRoot, EndRoots, AbortIfPartial, UpdateGroup, Calm
<1>6. CASE UpdateIndex \/ Commit \/ Stamp \/ WriteResult \/ WriteFailed \/ MoveToDone \/ MintUpsert
  BY <1>1, <1>6
  DEF UpdateIndex, Commit, Stamp, WriteResult, WriteFailed, MoveToDone, MintUpsert, LeaveInInbox, Look, Calm
<1>7. CASE PostGroup
  BY <1>2, <1>7 DEF PostGroup, Accepted, Calm
<1>8. ASSUME NEW a \in Assets, PostRoot(a) \/ Reply(a) PROVE Calm
  <2>1. CASE PostRoot(a)
    BY <1>2, <2>1 DEF PostRoot, Accepted, Calm
  <2>2. CASE Reply(a)
    <3>1. UNCHANGED <<faults, adoptions>>
      BY <1>3, <2>2 DEF Reply
    <3>2. stranded \subseteq stranded'
      BY <1>2, <2>2 DEF Reply, Accepted
    <3> QED BY <3>1, <3>2 DEF Calm
  <2> QED BY <1>8, <2>1, <2>2
<1>9. CASE DiscardPosts
  BY <1>9 DEF DiscardPosts, Calm
<1>10. CASE Crash
  BY <1>1, <1>10 DEF Crash
<1>11. ASSUME NEW p \in Adopters, Adopt(p) PROVE Calm
  BY <1>11
  DEF Adopt, AdoptIndex, AdoptHistory, AdoptNew, AdoptWrite, AdoptUpsert, AdoptCrash, Calm, TypeOK, WebTyped
<1>12. CASE UNCHANGED vars
  BY <1>12 DEF vars, Calm
<1> QED BY <1>4, <1>5, <1>6, <1>7, <1>8, <1>9, <1>10, <1>11, <1>12 DEF Next, Mint

(* A message that is no root adds none.                                     *)
LEMMA SaidRoots ==
  ASSUME SlackTyped, NEW kind \in {"group", "root", "reply"}, NEW a \in Assets \cup {NoAsset},
         run.job \in Jobs, Said(kind, a), NEW b \in Assets, NEW ts \in Roots(b)'
  PROVE  ts \in Roots(b) \/ (kind = "root" /\ a = b /\ ts = Len(log'))
<1>1. ts \in shown' /\ log'[ts].kind = "root" /\ log'[ts].asset = b
  BY DEF Roots
<1>2. CASE ts = Len(log')
  <2>1. log'[Len(log')] = [job |-> run.job, kind |-> kind, asset |-> a]
    BY SaidLog
  <2> QED BY <1>1, <1>2, <2>1
<1>3. CASE ts \in shown
  <2>1. log'[ts] = log[ts]
    BY <1>3, SaidLog DEF SlackTyped
  <2> QED BY <1>1, <1>3, <2>1 DEF Roots
<1> QED BY <1>1, <1>2, <1>3 DEF Said

(* A step that adds no root keeps the invariant, if the roots that are      *)
(* deleted are not entries, and those that are given up stay so.            *)
LEMMA RootsGoOn ==
  ASSUME RootsKept, OneWriter', run'.at # "record_root",
         run'.toRoot \subseteq run.toRoot, run'.toShare \subseteq run.toShare,
         \A a \in Assets : /\ Roots(a)' \subseteq Roots(a)
                           /\ \A ts \in Roots(a)' :
                                Entry(a) = ts \/ GivenUp(a, ts) => Entry(a)' = ts \/ GivenUp(a, ts)'
  PROVE  RootsKept'
BY DEF RootsKept, RootKept

(* So does one that leaves the season file alone.                           *)
LEMMA AttemptGoesOn ==
  ASSUME RootsKept, UNCHANGED <<spokeVars, adoption>>, run'.at # "record_root",
         Upserting(Worker) => run'.at \in {"roots", "replies"},
         run'.toRoot \subseteq run.toRoot, run'.toShare \subseteq run.toShare,
         \A a \in Assets : /\ Roots(a)' \subseteq Roots(a)
                           /\ \A ts \in Roots(a)' : GivenUp(a, ts) => GivenUp(a, ts)'
  PROVE  RootsKept'
<1>1. OneWriter'
  BY DEF RootsKept, OneWriter, Upserting, spokeVars
<1>2. \A a \in Assets : Entry(a)' = Entry(a)
  BY DEF Entry, spokeVars
<1> QED BY <1>1, <1>2, RootsGoOn

(* An error gives all posts of the attempt up.                              *)
LEMMA RaiseGivesUp ==
  ASSUME RootsKept, UNCHANGED <<spokeVars, adoption>>, ~Upserting(Worker), Raise,
         \A a \in Assets : Roots(a)' \subseteq Roots(a)
  PROVE  RootsKept'
<1>1. /\ run'.at = "discard" /\ run'.posted = run.posted
      /\ run'.toRoot = {} /\ run'.toShare = {}
  BY DEF Raise, NoRun
<1>2. \A a \in Assets, ts \in run.posted : GivenUp(a, ts)'
  BY <1>1 DEF GivenUp
<1>3. \A a \in Assets : \A ts \in Roots(a)' : GivenUp(a, ts) => GivenUp(a, ts)'
  BY <1>2 DEF GivenUp
<1> QED BY <1>1, <1>3, AttemptGoesOn

(* The worker's upsert, undisturbed, keeps every entry.                     *)
LEMMA UpsertKeepsEntries ==
  ASSUME TypeOK, RootsKept, Upsert(Worker), UNCHANGED <<run, log, shown, adoption>>
  PROVE  RootsKept'
<1> USE DEF EndUpsert
<1> DEFINE u == upsert[Worker]
<1>1. /\ Upserting(Worker) /\ run.at \in {"roots", "replies"}
      /\ \A p \in Writers : upsert[p].at # "none" => p = Worker
  <2>1. Upserting(Worker)
    BY DEF Upsert, ReadSeason, CompareSeason, Truncate, WriteSeason, Upserting
  <2> QED BY <2>1, MintAssumption DEF RootsKept, OneWriter, Upserting
<1>2. /\ upsert \in [Writers -> UpsertStates] /\ Worker \in Writers
      /\ u \in UpsertStates /\ season \in SeasonFiles /\ season.text # "torn"
  BY Constants DEF TypeOK, SpokesTyped, RootsKept, OneWriter
<1>3. u.at # "write" => AsRead = {season}
  BY <1>1 DEF AsRead
<1>4. /\ \A p \in Adopters : upsert'[p] = upsert[p]
      /\ \A a \in Assets : Entry(a)' = Entry(a)
      /\ upsert'[Worker].at = "none" => upsert'[Worker] = NoUpsert
      /\ season'.text # "torn"
      /\ upsert'[Worker].at \in {"compare", "truncate"} => upsert'[Worker].before = season'
      /\ upsert'[Worker].at = "write" => season' = Empty
  <2>1. CASE ReadSeason(Worker)
    <3>1. season' = season /\ u.at = "read"
          /\ upsert' = [upsert EXCEPT ![Worker].at = "compare", ![Worker].before = season]
      BY <1>2, <1>3, <2>1 DEF ReadSeason
    <3>2. /\ upsert'[Worker] = [u EXCEPT !.at = "compare", !.before = season]
          /\ \A p \in Adopters : upsert'[p] = upsert[p]
      BY <1>2, <3>1, MintAssumption
    <3>3. /\ upsert'[Worker].at = "compare" /\ upsert'[Worker].before = season
          /\ upsert'[Worker].asset = u.asset /\ upsert'[Worker].ts = u.ts
      BY <1>2, <3>2 DEF UpsertStates
    <3> QED BY <1>2, <3>1, <3>2, <3>3 DEF Entry
  <2>2. CASE CompareSeason(Worker)
    <3>1. season' = season /\ u.at = "compare" /\ u.before = season
          /\ upsert' = [upsert EXCEPT ![Worker].at = "truncate"]
      BY <1>3, <2>2 DEF CompareSeason, RootsKept, OneWriter
    <3>2. /\ upsert'[Worker] = [u EXCEPT !.at = "truncate"]
          /\ \A p \in Adopters : upsert'[p] = upsert[p]
      BY <1>2, <3>1, MintAssumption
    <3>3. /\ upsert'[Worker].at = "truncate" /\ upsert'[Worker].before = season
          /\ upsert'[Worker].asset = u.asset /\ upsert'[Worker].ts = u.ts
      BY <1>2, <3>1, <3>2 DEF UpsertStates
    <3> QED BY <1>2, <3>1, <3>2, <3>3 DEF Entry
  <2>3. CASE Truncate(Worker)
    <3>1. season' = Empty /\ u.at = "truncate" /\ u.before = season
          /\ upsert' = [upsert EXCEPT ![Worker].at = "write"]
      BY <2>3 DEF Truncate, RootsKept, OneWriter
    <3>2. /\ upsert'[Worker] = [u EXCEPT !.at = "write"]
          /\ \A p \in Adopters : upsert'[p] = upsert[p]
      BY <1>2, <3>1, MintAssumption
    <3>3. /\ upsert'[Worker].at = "write" /\ upsert'[Worker].before = season
          /\ upsert'[Worker].asset = u.asset /\ upsert'[Worker].ts = u.ts
      BY <1>2, <3>1, <3>2 DEF UpsertStates
    <3> QED BY <3>1, <3>2, <3>3 DEF Entry, Empty
  <2>4. CASE WriteSeason(Worker)
    <3>1. /\ u.at = "write" /\ season = Empty
          /\ season' = [text |-> "json", thread |-> [u.before.thread EXCEPT ![u.asset] = u.ts]]
          /\ upsert' = [upsert EXCEPT ![Worker] = NoUpsert]
      BY <2>4 DEF WriteSeason, RootsKept, OneWriter, Empty
    <3>2. upsert'[Worker] = NoUpsert /\ \A p \in Adopters : upsert'[p] = upsert[p]
      BY <1>2, <3>1, MintAssumption
    <3>3. u.before.thread \in [Assets -> Nat]
      BY <1>2 DEF UpsertStates, SeasonFiles
    <3>4. /\ season'.text = "json"
          /\ \A a \in Assets : season'.thread[a] = IF u.asset = a THEN u.ts ELSE u.before.thread[a]
      BY <3>1, <3>3
    <3>5. \A a \in Assets : Entry(a)' = season'.thread[a]
      BY <3>2, SpokesAssumption DEF Entry, NoUpsert
    <3>6. \A a \in Assets : Entry(a) = IF u.asset = a THEN u.ts ELSE u.before.thread[a]
      BY <3>1 DEF Entry
    <3> QED BY <3>2, <3>4, <3>5, <3>6 DEF NoUpsert
  <2> QED BY <2>1, <2>2, <2>3, <2>4 DEF Upsert
<1>5. OneWriter'
  BY <1>1, <1>4 DEF RootsKept, OneWriter, Upserting
<1>6. \A a \in Assets : Roots(a)' = Roots(a) /\ \A ts : GivenUp(a, ts)' = GivenUp(a, ts)
  BY DEF Roots, GivenUp
<1> QED BY <1>1, <1>4, <1>5, <1>6, RootsGoOn

(* An upsert starts while none is under way: it changes one entry.          *)
LEMMA StartsEntry ==
  ASSUME TypeOK, RootsKept, ~Upserting(Worker), NEW a \in Assets, NEW ts,
         StartUpsert(Worker, a, ts), UNCHANGED <<season, adoption>>,
         run'.at \in {"roots", "replies"}
  PROVE  /\ OneWriter'
         /\ \A b \in Assets : Entry(b)' = IF b = a THEN ts ELSE Entry(b)
<1>1. upsert'[Worker] = [NoUpsert EXCEPT !.at = "read", !.asset = a, !.ts = ts]
      /\ \A p \in Adopters : upsert'[p] = upsert[p]
  BY Constants, MintAssumption DEF StartUpsert, TypeOK, SpokesTyped
<1>2. upsert'[Worker].at = "read" /\ upsert'[Worker].asset = a /\ upsert'[Worker].ts = ts
  BY <1>1 DEF NoUpsert
<1>3. upsert[Worker] = NoUpsert
  BY DEF RootsKept, OneWriter
<1>4. OneWriter'
  BY <1>1, <1>2 DEF RootsKept, OneWriter, Upserting
<1>5. \A b \in Assets : Entry(b) = season.thread[b]
  BY <1>3, SpokesAssumption DEF Entry, NoUpsert
<1> QED BY <1>2, <1>4, <1>5 DEF Entry

(* An attempt begins: the assets that get a root have none, for the season  *)
(* file has no entry of theirs.                                             *)
LEMMA TakeKeepsRoots ==
  ASSUME TypeOK, RootsKept, NEW j \in Jobs, TakeJob(j), ~Fault
  PROVE  RootsKept'
<1> USE DEF channel, webVars
<1>1. /\ ~Upserting(Worker) /\ run.at = "idle"
      /\ UNCHANGED <<spokeVars, adoption, log, shown>>
  BY Zenon DEF TakeJob, RootsKept, OneWriter
<1>2. \A a \in Assets : Roots(a)' = Roots(a)
  BY <1>1 DEF Roots
<1>3. \A a \in Assets, ts \in Nat : ~GivenUp(a, ts)
  BY <1>1 DEF GivenUp
<1>4. \A a \in Assets : season.thread[a] = 0 => Roots(a) = {}
  <2>1. \A a \in Assets : Entry(a) = season.thread[a]
    BY <1>1, SpokesAssumption DEF Entry, RootsKept, OneWriter, NoUpsert
  <2>2. \A ts \in shown : ts \in Nat /\ ts # 0
    BY DEF TypeOK, SlackTyped
  <2> QED BY <1>3, <2>1, <2>2 DEF RootsKept, RootKept, Roots
<1>5. AsRead = {season}
  BY <1>1, MintAssumption DEF RootsKept, OneWriter, Upserting, AsRead
<1>6. CASE run' = [NoRun EXCEPT !.at = "discard", !.job = j, !.error = TRUE]
  <2>1. /\ run'.at = "discard" /\ run'.toRoot = {} /\ run'.toShare = {}
    BY <1>6 DEF NoRun
  <2>2. \A a \in Assets : \A ts \in Roots(a) : ts \in Nat
    BY DEF Roots, TypeOK, SlackTyped
  <2>3. \A a \in Assets : \A ts \in Roots(a)' : ts \in Roots(a)
    BY <1>2
  <2> QED BY <1>1, <1>2, <1>3, <2>1, <2>2, <2>3, AttemptGoesOn
<1>7. ASSUME NEW file \in Looks, Look(file),
             run' = [NoRun EXCEPT !.at = "group", !.job = j,
                       !.skipped = AssetsOf[j] \cap Occupied(file),
                       !.toRoot = {a \in AssetsOf[j] \ Occupied(file) : SharedWith[j][a] = NoAsset},
                       !.toShare = {a \in AssetsOf[j] \ Occupied(file) : SharedWith[j][a] # NoAsset}]
      PROVE  RootsKept'
  <2>1. file = season
    BY <1>5, <1>7 DEF Look
  <2>2. /\ run'.at = "group"
        /\ run'.toRoot = {a \in AssetsOf[j] \ Occupied(file) : SharedWith[j][a] = NoAsset}
        /\ run'.toShare = {a \in AssetsOf[j] \ Occupied(file) : SharedWith[j][a] # NoAsset}
    BY <1>7 DEF NoRun
  <2>3. run'.toRoot \cap run'.toShare = {}
    BY <2>2
  <2>4. \A a \in Assets : a \in run'.toRoot \cup run'.toShare => Roots(a) = {}
    BY <1>4, <2>1, <2>2 DEF Occupied
  <2>5. OneWriter'
    BY <1>1, <2>2 DEF RootsKept, OneWriter, Upserting, spokeVars
  <2>6. \A a \in Assets : Entry(a)' = Entry(a)
    BY <1>1 DEF Entry, spokeVars
  <2>7. \A a \in Assets : \A ts \in Roots(a) : ts \in Nat
    BY DEF Roots, TypeOK, SlackTyped
  <2>8. \A a \in Assets : \A ts \in Roots(a) : Entry(a) = ts
    BY <1>3, <2>7 DEF RootsKept, RootKept
  <2> QED BY <1>2, <2>2, <2>3, <2>4, <2>5, <2>6, <2>8 DEF RootsKept, RootKept
<1> QED BY <1>6, <1>7, Zenon DEF TakeJob

(* A root is posted for an asset that has none.                             *)
LEMMA PostKeepsRoots ==
  ASSUME TypeOK, RootsKept, NEW a \in Assets, PostRoot(a), stranded' = {}
  PROVE  RootsKept'
<1> USE DEF others, records, channel, webVars
<1>1. /\ run.at = "roots" /\ ~Upserting(Worker) /\ a \in run.toRoot /\ run.job \in Jobs
      /\ UNCHANGED <<spokeVars, adoption>>
  BY DEF PostRoot, TypeOK, RunTyped
<1>2. CASE NotPosted("post_root", "root", a) /\ run' = [run EXCEPT !.toRoot = @ \ {a}, !.lost = @ \cup {a}]
  <2>1. /\ run'.at = "roots" /\ run'.posted = run.posted /\ run'.lost = run.lost \cup {a}
        /\ run'.toRoot \subseteq run.toRoot /\ run'.toShare = run.toShare
    BY <1>1, <1>2 DEF TypeOK, RunTyped, RunStates
  <2>2. UNCHANGED channel
    BY <1>2 DEF NotPosted, AnswerLost
  <2>3. \A b \in Assets : Roots(b)' = Roots(b)
    BY <2>2 DEF Roots
  <2>4. \A b \in Assets : \A ts \in Roots(b)' : GivenUp(b, ts) => GivenUp(b, ts)'
    BY <1>1, <2>1 DEF GivenUp
  <2> QED BY <1>1, <2>1, <2>3, <2>4, AttemptGoesOn
<1>3. CASE /\ Accepted("root", a)
           /\ run' = [run EXCEPT !.at = "record_root", !.toRoot = @ \ {a}, !.asset = a,
                                 !.posted = @ \cup {Len(log')}]
  <2>1. /\ run'.at = "record_root" /\ run'.asset = a /\ run'.posted = run.posted \cup {Len(log')}
        /\ run'.lost = run.lost /\ run'.toRoot = run.toRoot \ {a} /\ run'.toShare = run.toShare
    BY <1>3 DEF TypeOK, RunTyped, RunStates
  <2>2. \A b \in Assets : \A ts \in Roots(b)' : ts \in Roots(b) \/ (a = b /\ ts = Len(log'))
    BY <1>1, <1>3, SaidRoots DEF Accepted, TypeOK
  <2>3. Roots(a) = {} /\ a \notin run.toShare
    BY <1>1 DEF RootsKept, RootKept
  <2>4. OneWriter'
    BY <1>1 DEF RootsKept, OneWriter, Upserting, spokeVars
  <2>5. \A b \in Assets : Entry(b)' = Entry(b)
    BY <1>1 DEF Entry, spokeVars
  <2>6. RootKept(a)'
    <3>1. \A ts \in Roots(a)' : ts = Len(log')
      BY <2>2, <2>3
    <3>2. \A ts \in Roots(a)' : GivenUp(a, ts)'
      BY <2>1, <3>1 DEF GivenUp
    <3> QED BY <2>1, <2>3, <3>1, <3>2 DEF RootKept
  <2>7. ASSUME NEW b \in Assets, b # a PROVE RootKept(b)'
    <3>1. Roots(b)' \subseteq Roots(b)
      BY <2>2, <2>7
    <3>2. \A ts \in Roots(b) : GivenUp(b, ts) => GivenUp(b, ts)'
      BY <1>1, <2>1 DEF GivenUp
    <3> QED BY <1>1, <2>1, <2>5, <2>7, <3>1, <3>2 DEF RootKept, RootsKept
  <2> QED BY <2>1, <2>4, <2>6, <2>7 DEF RootsKept
<1> QED BY <1>2, <1>3 DEF PostRoot

(* A root that was posted is given its entry, or given up.                  *)
LEMMA RecordKeepsRoots ==
  ASSUME TypeOK, RootsKept, RecordRoot
  PROVE  RootsKept'
<1> USE DEF others, records, channel, webVars
<1>1. /\ run.at = "record_root" /\ ~Upserting(Worker) /\ run.asset \in Assets
      /\ UNCHANGED <<season, adoption, log, shown>>
  BY DEF RecordRoot, TypeOK, RunTyped, RootsKept, OneWriter
<1>2. \A a \in Assets : Roots(a)' = Roots(a)
  BY <1>1 DEF Roots
<1>3. CASE Raise /\ UNCHANGED upsert
  BY <1>1, <1>2, <1>3, RaiseGivesUp DEF spokeVars
<1>4. CASE run' = [run EXCEPT !.at = "roots", !.lost = @ \cup {run.asset}] /\ UNCHANGED upsert
  <2>1. /\ run'.at = "roots" /\ run'.posted = run.posted /\ run'.lost = run.lost \cup {run.asset}
        /\ run'.toRoot = run.toRoot /\ run'.toShare = run.toShare
    BY <1>4 DEF TypeOK, RunTyped, RunStates
  <2>2. \A a \in Assets : \A ts \in Roots(a)' : GivenUp(a, ts) => GivenUp(a, ts)'
    BY <1>1, <2>1 DEF GivenUp
  <2> QED BY <1>1, <1>2, <1>4, <2>1, <2>2, AttemptGoesOn DEF spokeVars
<1>5. CASE /\ run' = [run EXCEPT !.at = "roots", !.root[run.asset] = Len(log),
                                 !.made = @ \cup {run.asset}]
           /\ StartUpsert(Worker, run.asset, Len(log))
  <2>1. /\ run'.at = "roots" /\ run'.posted = run.posted /\ run'.lost = run.lost
        /\ run'.toRoot = run.toRoot /\ run'.toShare = run.toShare
    BY <1>5 DEF TypeOK, RunTyped, RunStates
  <2>2. /\ OneWriter'
        /\ \A a \in Assets : Entry(a)' = IF a = run.asset THEN Len(log) ELSE Entry(a)
    BY <1>1, <1>5, <2>1, StartsEntry
  <2>3. \A a \in Assets \ {run.asset} : \A ts : GivenUp(a, ts) => GivenUp(a, ts)'
    BY <1>1, <2>1 DEF GivenUp
  <2>4. \A a \in Assets : \A ts \in Roots(a)' :
          Entry(a) = ts \/ GivenUp(a, ts) => Entry(a)' = ts \/ GivenUp(a, ts)'
    <3> SUFFICES ASSUME NEW a \in Assets, NEW ts \in Roots(a)', Entry(a) = ts \/ GivenUp(a, ts)
                 PROVE  Entry(a)' = ts \/ GivenUp(a, ts)'
      OBVIOUS
    <3>1. CASE a = run.asset
      <4>1. Entry(a)' = Len(log)
        BY <2>2, <3>1
      <4>2. ts = Len(log)
        BY <1>1, <1>2, <3>1 DEF RootsKept, RootKept
      <4> QED BY <4>1, <4>2
    <3>2. CASE a # run.asset
      BY <2>2, <2>3, <3>2
    <3> QED BY <3>1, <3>2
  <2> QED BY <1>2, <2>1, <2>2, <2>4, RootsGoOn
<1> QED BY <1>3, <1>4, <1>5 DEF RecordRoot

(* A reply is posted for an asset without a root, and no root is.           *)
LEMMA ReplyKeepsRoots ==
  ASSUME TypeOK, RootsKept, NEW a \in Assets, Reply(a), stranded' = {}
  PROVE  RootsKept'
<1> USE DEF others, records, channel, webVars
<1>1. /\ run.at = "replies" /\ ~Upserting(Worker) /\ a \in run.toShare /\ run.job \in Jobs
      /\ UNCHANGED <<season, adoption>>
  BY DEF Reply, TypeOK, RunTyped
<1>2. PICK file \in Looks :
        LET target == SharedWith[run.job][a]
            ts == IF run.root[target] # 0 THEN run.root[target] ELSE file.thread[target]
        IN \/ /\ Accepted("reply", a)
              /\ run' = [run EXCEPT !.toShare = @ \ {a}, !.shared[a] = ts,
                                    !.made = @ \cup {a}, !.posted = @ \cup {Len(log')}]
              /\ StartUpsert(Worker, a, ts)
           \/ /\ NotPosted("post_reply", "reply", a) \/ UNCHANGED channel
              /\ run' = [run EXCEPT !.toShare = @ \ {a}, !.lost = @ \cup {a}]
              /\ UNCHANGED upsert
  BY Zenon DEF Reply
<1> DEFINE target == SharedWith[run.job][a]
           ts == IF run.root[target] # 0 THEN run.root[target] ELSE file.thread[target]
<1>3. CASE /\ Accepted("reply", a)
           /\ run' = [run EXCEPT !.toShare = @ \ {a}, !.shared[a] = ts,
                                 !.made = @ \cup {a}, !.posted = @ \cup {Len(log')}]
           /\ StartUpsert(Worker, a, ts)
  <2> HIDE DEF ts
  <2>1. /\ run'.at = "replies" /\ run'.posted = run.posted \cup {Len(log')} /\ run'.lost = run.lost
        /\ run'.toRoot = run.toRoot /\ run'.toShare \subseteq run.toShare
    BY <1>1, <1>3 DEF TypeOK, RunTyped, RunStates
  <2>2. \A b \in Assets : Roots(b)' \subseteq Roots(b)
    BY <1>1, <1>3, SaidRoots DEF Accepted, TypeOK
  <2>3. OneWriter' /\ \A b \in Assets : Entry(b)' = IF b = a THEN ts ELSE Entry(b)
    BY <1>1, <1>3, <2>1, StartsEntry
  <2>4. Roots(a) = {}
    BY <1>1 DEF RootsKept, RootKept
  <2>5. \A b \in Assets : \A root : GivenUp(b, root) => GivenUp(b, root)'
    BY <1>1, <2>1 DEF GivenUp
  <2>6. \A b \in Assets : \A root \in Roots(b)' :
          Entry(b) = root \/ GivenUp(b, root) => Entry(b)' = root \/ GivenUp(b, root)'
    BY <2>2, <2>3, <2>4, <2>5
  <2> QED BY <2>1, <2>2, <2>3, <2>6, RootsGoOn
<1>4. CASE /\ NotPosted("post_reply", "reply", a) \/ UNCHANGED channel
           /\ run' = [run EXCEPT !.toShare = @ \ {a}, !.lost = @ \cup {a}]
           /\ UNCHANGED upsert
  <2>1. /\ run'.at = "replies" /\ run'.posted = run.posted /\ run.lost \subseteq run'.lost
        /\ run'.toRoot = run.toRoot /\ run'.toShare \subseteq run.toShare
    BY <1>1, <1>4 DEF TypeOK, RunTyped, RunStates
  <2>2. UNCHANGED channel
    BY <1>4 DEF NotPosted, AnswerLost
  <2>3. \A b \in Assets : Roots(b)' = Roots(b)
    BY <2>2 DEF Roots
  <2>4. \A b \in Assets : \A root \in Roots(b)' : GivenUp(b, root) => GivenUp(b, root)'
    BY <1>1, <2>1 DEF GivenUp
  <2> QED BY <1>1, <1>4, <2>1, <2>3, <2>4, AttemptGoesOn DEF spokeVars
<1> HIDE DEF ts
<1> QED BY <1>2, <1>3, <1>4 DEF ts

(* A deleted post is not an entry, or one that never gets another root.     *)
LEMMA DiscardKeepsRoots ==
  ASSUME TypeOK, RootsKept, DiscardPosts, stranded' = {}
  PROVE  RootsKept'
<1> USE DEF others, records, webVars
<1>1. run.at = "discard" /\ ~Upserting(Worker) /\ UNCHANGED <<spokeVars, adoption, log>>
  BY DEF DiscardPosts, RootsKept, OneWriter
<1>2. CASE run.posted = {} /\ Goto("result") /\ UNCHANGED <<shown, stranded>>
  <2>1. run'.at = "result" /\ run'.toRoot = run.toRoot /\ run'.toShare = run.toShare
    BY <1>2 DEF Goto, TypeOK, RunTyped, RunStates
  <2>2. \A a \in Assets : Roots(a)' = Roots(a) /\ \A ts : ~GivenUp(a, ts)
    BY <1>1, <1>2 DEF Roots, GivenUp
  <2> QED BY <1>1, <2>1, <2>2, AttemptGoesOn
<1>3. ASSUME NEW ts, run' = [run EXCEPT !.posted = @ \ {ts}, !.made = @ \ {log[ts].asset}],
             shown' = shown \ {ts}
      PROVE  RootsKept'
  <2>1. /\ run'.at = "discard" /\ run'.posted = run.posted \ {ts}
        /\ run'.toRoot = run.toRoot /\ run'.toShare = run.toShare
    BY <1>1, <1>3 DEF TypeOK, RunTyped, RunStates
  <2>2. \A a \in Assets : \A root \in Roots(a)' : root \in Roots(a) /\ root # ts
    BY <1>1, <1>3 DEF Roots
  <2>3. \A a \in Assets : \A root \in Roots(a)' : GivenUp(a, root) => GivenUp(a, root)'
    BY <2>1, <2>2 DEF GivenUp
  <2> QED BY <1>1, <2>1, <2>2, <2>3, AttemptGoesOn
<1> DEFINE latest == Max(run.posted)
<1>4. \/ run.posted = {} /\ Goto("result") /\ UNCHANGED <<shown, stranded>>
      \/ /\ run' = [run EXCEPT !.posted = @ \ {latest}, !.made = @ \ {log[latest].asset}]
         /\ shown' = shown \ {latest} \/ stranded' = stranded \cup {latest}
  BY Zenon DEF DiscardPosts
<1> HIDE DEF latest
<1>5. stranded' # stranded \cup {latest}
  OBVIOUS
<1>6. CASE /\ run' = [run EXCEPT !.posted = @ \ {latest}, !.made = @ \ {log[latest].asset}]
           /\ shown' = shown \ {latest}
  BY <1>3, <1>6, Zenon
<1> QED BY <1>2, <1>4, <1>5, <1>6, Zenon

LEMMA IdleRun == NoRun.at = "idle" /\ NoRun.toRoot = {} /\ NoRun.toShare = {}
BY DEF NoRun

(* RootsInv is inductive.                                                   *)
LEMMA RootsStep == ASSUME TypeOK, RootsInv, [Next]_vars PROVE RootsInv'
<1> SUFFICES ASSUME Calm' PROVE RootsKept'
  BY DEF RootsInv
<1> USE DEF others, records, channel, webVars, share
<1>1. Calm /\ RootsKept /\ ~Fault /\ stranded' = {}
  BY CalmBefore, FaultNotCalm DEF RootsInv, Calm
<1>2. /\ run \in RunStates /\ adoption \in [Adopters -> [at : {"idle", "history", "occupied", "write"},
                                                     found : [Assets -> Nat]]]
      /\ ~Upserting(Worker) \/ run.at \in {"roots", "replies"}
  BY <1>1 DEF TypeOK, RunTyped, WebTyped, RootsKept, OneWriter
<1>3. ASSUME UNCHANGED <<spokeVars, run, log, shown, adoption>> PROVE RootsKept'
  <2>1. OneWriter'
    BY <1>1, <1>3 DEF RootsKept, OneWriter, Upserting, spokeVars
  <2>2. \A a \in Assets : /\ Roots(a)' = Roots(a) /\ Entry(a)' = Entry(a)
                          /\ \A ts : GivenUp(a, ts)' = GivenUp(a, ts)
    BY <1>3 DEF Roots, Entry, GivenUp, spokeVars
  <2> QED BY <1>1, <1>3, <2>1, <2>2 DEF RootsKept, RootKept
<1>4. (* A step in which the attempt gives nothing up. *)
      ASSUME NEW step \in Steps \ {"record_root"}, UNCHANGED <<spokeVars, adoption>>,
             ~Upserting(Worker) \/ step \in {"roots", "replies"},
             run'.at = step, run'.toRoot \subseteq run.toRoot, run'.toShare \subseteq run.toShare,
             \A a \in Assets : Roots(a)' \subseteq Roots(a) /\ \A ts : ~GivenUp(a, ts)
      PROVE  RootsKept'
  BY <1>1, <1>4, AttemptGoesOn
<1>5. UNCHANGED <<log, shown>> => \A a \in Assets : Roots(a)' \subseteq Roots(a)
  BY DEF Roots
<1>6. \A step \in Steps : Goto(step) => /\ run'.at = step /\ run'.toRoot = run.toRoot
                                        /\ run'.toShare = run.toShare
  BY <1>2 DEF Goto, RunStates
<1>7. run.at \notin {"discard", "record_root", "roots", "replies"} =>
        ~Upserting(Worker) /\ \A a \in Assets : \A ts : ~GivenUp(a, ts)
  BY <1>2 DEF GivenUp
<1>8. ASSUME NEW j \in Jobs, Drop(j) \/ TakeJob(j) \/ MisreadJob(j) PROVE RootsKept'
  BY <1>1, <1>3, <1>8, TakeKeepsRoots DEF Drop, MisreadJob
<1>9. CASE OpenGroup
  <2>1. run.at = "group" /\ UNCHANGED <<spokeVars, adoption, log, shown>>
    BY <1>9 DEF OpenGroup
  <2>2. CASE Raise
    BY <1>1, <1>5, <1>7, <2>1, <2>2, RaiseGivesUp
  <2>3. CASE ~Raise
    <3>1. /\ run'.at \in {"roots", "post_group"} /\ run'.toRoot = run.toRoot
          /\ run'.toShare = run.toShare
      BY <1>2, <1>9, <2>3 DEF OpenGroup, RunStates
    <3> QED BY <1>4, <1>5, <1>7, <2>1, <3>1 DEF Steps
  <2> QED BY <2>2, <2>3
<1>10. CASE PostGroup
  <2>1. run.at = "post_group" /\ run.job \in Jobs /\ UNCHANGED <<spokeVars, adoption>>
    BY <1>10 DEF PostGroup, TypeOK, RunTyped
  <2>2. CASE NotPosted("post_group", "group", NoAsset) /\ Raise
    <3>1. UNCHANGED channel
      BY <1>1, <2>2 DEF NotPosted, AnswerLost
    <3> QED BY <1>1, <1>5, <1>7, <2>1, <2>2, <3>1, RaiseGivesUp
  <2>3. CASE /\ Accepted("group", NoAsset)
             /\ run' = [run EXCEPT !.at = "record_group", !.posted = @ \cup {Len(log')}]
    <3>1. run'.at = "record_group" /\ run'.toRoot = run.toRoot /\ run'.toShare = run.toShare
      BY <1>2, <2>3 DEF RunStates
    <3>2. \A a \in Assets : Roots(a)' \subseteq Roots(a)
      BY <2>1, <2>3, SaidRoots DEF Accepted, TypeOK
    <3> QED BY <1>4, <1>7, <2>1, <3>1, <3>2 DEF Steps
  <2> QED BY <1>10, <2>2, <2>3 DEF PostGroup
<1>11. CASE RecordGroup
  <2>1. run.at = "record_group" /\ UNCHANGED <<spokeVars, adoption, log, shown>>
    BY <1>11 DEF RecordGroup
  <2>2. CASE Raise
    BY <1>1, <1>5, <1>7, <2>1, <2>2, RaiseGivesUp
  <2>3. CASE Goto("roots")
    BY <1>4, <1>5, <1>6, <1>7, <2>1, <2>3 DEF Steps
  <2> QED BY <1>11, <2>2, <2>3 DEF RecordGroup
<1>12. ASSUME NEW a \in Assets, PostRoot(a) \/ Reply(a) PROVE RootsKept'
  BY <1>1, <1>12, PostKeepsRoots, ReplyKeepsRoots
<1>13. CASE RecordRoot
  BY <1>1, <1>13, RecordKeepsRoots
<1>14. CASE EndRoots
  <2>1. /\ run.at = "roots" /\ ~Upserting(Worker) /\ Goto("replies")
        /\ UNCHANGED <<spokeVars, adoption, log, shown>>
    BY <1>14 DEF EndRoots
  <2>2. run'.posted = run.posted /\ run'.lost = run.lost
    BY <1>2, <2>1 DEF Goto, RunStates
  <2>3. run'.at = "replies" /\ run'.toRoot = run.toRoot /\ run'.toShare = run.toShare
    BY <1>6, <2>1 DEF Steps
  <2>4. \A a \in Assets : \A ts : GivenUp(a, ts) => GivenUp(a, ts)'
    BY <2>1, <2>2, <2>3 DEF GivenUp
  <2> QED BY <1>1, <1>5, <2>1, <2>3, <2>4, AttemptGoesOn
<1>15. CASE AbortIfPartial
  <2>1. run.at = "replies" /\ ~Upserting(Worker) /\ UNCHANGED <<spokeVars, adoption, log, shown>>
    BY <1>15 DEF AbortIfPartial
  <2>2. CASE Raise
    BY <1>1, <1>5, <2>1, <2>2, RaiseGivesUp
  <2>3. CASE ~(run.posted # {} /\ run.lost # {}) /\ Goto("update")
    <3>1. \A a \in Assets : \A ts : ~GivenUp(a, ts)
      BY <2>1, <2>3 DEF GivenUp
    <3> QED BY <1>4, <1>5, <1>6, <2>1, <2>3, <3>1 DEF Steps
  <2> QED BY <1>15, <2>2, <2>3 DEF AbortIfPartial
<1>16. CASE UpdateGroup \/ Commit
  <2>1. run.at \in {"update", "commit"} /\ UNCHANGED <<spokeVars, adoption, log, shown>>
    BY <1>16 DEF UpdateGroup, Commit
  <2>2. CASE Raise
    BY <1>1, <1>5, <1>7, <2>1, <2>2, RaiseGivesUp
  <2>3. CASE Goto("index") \/ Goto("stamp")
    BY <1>4, <1>5, <1>6, <1>7, <2>1, <2>3 DEF Steps
  <2> QED BY <1>16, <2>2, <2>3 DEF UpdateGroup, Commit
<1>17. CASE UpdateIndex \/ Stamp
  <2>1. /\ run.at \in {"index", "stamp"} /\ UNCHANGED <<spokeVars, adoption, log, shown>>
        /\ Goto("commit") \/ Goto("result")
    BY <1>17 DEF UpdateIndex, Stamp
  <2> QED BY <1>4, <1>5, <1>6, <1>7, <2>1 DEF Steps
<1>18. CASE DiscardPosts
  BY <1>1, <1>18, DiscardKeepsRoots
<1>19. CASE WriteResult \/ WriteFailed \/ MoveToDone
  <2>1. /\ run.at \in {"result", "fail", "move"} /\ UNCHANGED <<spokeVars, adoption, log, shown>>
        /\ Goto("fail") \/ Goto("move") \/ Forget
    BY <1>1, <1>19 DEF WriteResult, WriteFailed, MoveToDone, LeaveInInbox
  <2>2. CASE Goto("fail") \/ Goto("move")
    BY <1>4, <1>5, <1>6, <1>7, <2>1, <2>2 DEF Steps
  <2>3. CASE Forget
    <3>1. run'.at = "idle" /\ run'.toRoot = {} /\ run'.toShare = {}
      BY <2>3, IdleRun DEF Forget
    <3> QED BY <1>4, <1>5, <1>7, <2>1, <3>1 DEF Steps
  <2> QED BY <2>1, <2>2, <2>3
<1>20. CASE MintUpsert
  BY <1>1, <1>20, UpsertKeepsEntries DEF MintUpsert
<1>21. CASE Crash
  BY <1>1, <1>21 DEF Crash
<1>22. ASSUME NEW p \in Adopters, Adopt(p) PROVE RootsKept'
  <2>1. adoption[p].at = "idle" /\ ~Upserting(p)
    BY <1>1 DEF RootsKept, OneWriter
  <2>2. ~AdoptIndex(p)
    BY DEF AdoptIndex, Calm, TypeOK, WebTyped
  <2>3. ~Upsert(p) /\ ~UpsertRefused(p)
    BY <2>1 DEF Upsert, ReadSeason, CompareSeason, Truncate, WriteSeason, UpsertRefused, Upserting
  <2> QED BY <1>22, <2>1, <2>2, <2>3 DEF Adopt, AdoptHistory, AdoptNew, AdoptWrite, AdoptUpsert, AdoptCrash
<1>23. CASE UNCHANGED vars
  BY <1>3, <1>23 DEF vars
<1> QED BY <1>8, <1>9, <1>10, <1>11, <1>12, <1>13, <1>14, <1>15, <1>16, <1>17, <1>18, <1>19,
           <1>20, <1>21, <1>22, <1>23 DEF Next, Mint

LEMMA RootsInit == Init => RootsInv
<1> SUFFICES ASSUME Init PROVE RootsKept
  BY DEF RootsInv
<1>1. OneWriter
  BY Constants DEF Init, SpokesInit, OneWriter, NoAdoption, NoUpsert, Upserting, Empty
<1>2. \A a \in Assets : Roots(a) = {}
  BY DEF Init, Roots
<1>3. run.toRoot = {} /\ run.at = "idle"
  BY IdleRun DEF Init
<1> QED BY <1>1, <1>2, <1>3 DEF RootsKept, RootKept

(* OneRootEach, for any number of jobs that name the same assets, whatever  *)
(* calls fail.                                                              *)
THEOREM OneRoot == Spec => []OneRootEach
<1>1. TypeOK /\ RootsInv => OneRootEach
  <2> SUFFICES ASSUME TypeOK, RootsInv, Calm, NEW a \in Assets, Newest(a) # 0
               PROVE  Roots(a) = {Newest(a)}
    BY DEF OneRootEach, Calm
  <2>1. Roots(a) # {} /\ Newest(a) = Max(Roots(a))
    BY DEF Newest
  <2>2. Roots(a) \in SUBSET (1..Len(log)) /\ Len(log) \in Nat
    <3>1. Roots(a) \subseteq shown
      BY DEF Roots
    <3>2. log \in Seq(Messages) /\ shown \subseteq 1..Len(log)
      BY DEF TypeOK, SlackTyped
    <3>3. Len(log) \in Nat
      BY <3>2
    <3> QED BY <3>1, <3>2, <3>3
  <2>3. Newest(a) \in Roots(a)
    BY <2>1, <2>2, MaxIsElement
  <2>4. \A s, t \in Roots(a) : s = t
    BY DEF RootsInv, RootsKept, RootKept
  <2> QED BY <2>3, <2>4
<1> QED BY <1>1, MintTyped, RootsInit, RootsStep, PTL DEF Spec

=============================================================================
