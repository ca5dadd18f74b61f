----------------------------- MODULE SeasonSpokes -----------------------------
(***************************************************************************)
(* A season file of ReviewPrep, slack_threads/{season}.json (spokes.py).   *)
(*                                                                         *)
(* The file says which Slack thread belongs to each asset.  The worker     *)
(* (minting) and the web process (adoptions) both add entries to it.       *)
(* upsert_season_spoke reads the file, adds one entry to what it read,     *)
(* reads the file again, and rewrites it in place if nothing has changed;  *)
(* nothing is locked, so the four accesses of one writer interleave with   *)
(* those of another.  A thread is named by its timestamp; 0 is no entry.   *)
(***************************************************************************)
EXTENDS Naturals

CONSTANTS
  Assets,       \* ShotGrid assets of one season
  NoAsset,      \* what a process that upserts nothing upserts
  Writers       \* processes that upsert entries

ASSUME SpokesAssumption == NoAsset \notin Assets

VARIABLES
  season,       \* the season file
  upsert        \* the upsert each writer is in

spokeVars == <<season, upsert>>

NoEntries == [a \in Assets |-> 0]

(* A file that is missing or empty, and one that is not valid JSON; what a  *)
(* reader can take from either is no entry at all.                          *)
Empty == [text |-> "empty", thread |-> NoEntries]
Torn  == [text |-> "torn", thread |-> NoEntries]
Texts == {"empty", "torn", "json"}

NoUpsert == [at |-> "none", asset |-> NoAsset, ts |-> 0, before |-> Empty, attempt |-> 1]

UpsertSteps == {"none", "read", "compare", "truncate", "write"}

SeasonFiles == [text : Texts, thread : [Assets -> Nat]]
UpsertStates ==
  [at : UpsertSteps, asset : Assets \cup {NoAsset}, ts : Nat,
   before : SeasonFiles, attempt : {1, 2}]

SpokesTyped ==
  /\ season \in SeasonFiles
  /\ upsert \in [Writers -> UpsertStates]

SpokesInit ==
  /\ season = Empty
  /\ upsert = [p \in Writers |-> NoUpsert]

-----------------------------------------------------------------------------

(* A reader that comes while the text is being written may find a part of   *)
(* it, which is no JSON.                                                    *)
AsRead == {season} \cup (IF \E p \in Writers : upsert[p].at = "write" THEN {Torn} ELSE {})

(* Assets with an entry; a file that cannot be read has none.               *)
Occupied(file) == {a \in Assets : file.thread[a] # 0}

Upserting(p) == upsert[p].at # "none"

StartUpsert(p, a, ts) ==
  upsert' = [upsert EXCEPT ![p] = [NoUpsert EXCEPT !.at = "read", !.asset = a, !.ts = ts]]

EndUpsert(p) == upsert' = [upsert EXCEPT ![p] = NoUpsert]

(* A corrupt file is left alone.                                            *)
ReadSeason(p) ==
  /\ upsert[p].at = "read"
  /\ \E file \in AsRead :
       IF file.text = "torn"
         THEN EndUpsert(p)
         ELSE upsert' = [upsert EXCEPT ![p].at = "compare", ![p].before = file]
  /\ UNCHANGED season

(* Mutant: a file that has changed is read anew as often as it takes.       *)
CompareForEver(p) ==
  /\ upsert[p].at = "compare"
  /\ \E file \in AsRead :
       upsert' = IF file = upsert[p].before
                   THEN [upsert EXCEPT ![p].at = "truncate"]
                   ELSE [upsert EXCEPT ![p].at = "read", ![p].attempt = @ + 1]
  /\ UNCHANGED season

(* A file that has changed is read anew, once.                              *)
CompareSeason(p) ==
  /\ upsert[p].at = "compare"
  /\ \E file \in AsRead :
       \/ /\ file = upsert[p].before
          /\ upsert' = [upsert EXCEPT ![p].at = "truncate"]
       \/ /\ file # upsert[p].before
          /\ IF upsert[p].attempt = 1
               THEN upsert' = [upsert EXCEPT ![p].at = "read", ![p].attempt = 2]
               ELSE EndUpsert(p)
  /\ UNCHANGED season

(* The file is opened for writing, which empties it ...                     *)
Truncate(p) ==
  /\ upsert[p].at = "truncate"
  /\ season' = Empty
  /\ upsert' = [upsert EXCEPT ![p].at = "write"]

(* Mutant: the text is made of the new entry alone.                         *)
WriteEntryOnly(p) ==
  /\ upsert[p].at = "write"
  /\ season' = [text |-> "json", thread |-> [NoEntries EXCEPT ![upsert[p].asset] = upsert[p].ts]]
  /\ EndUpsert(p)

(* ... and written from its beginning.  If another writer has written since *)
(* the file was emptied, its longer text shows at the end of this one.      *)
WriteSeason(p) ==
  /\ upsert[p].at = "write"
  /\ \/ season' = [text |-> "json",
                   thread |-> [upsert[p].before.thread EXCEPT ![upsert[p].asset] = upsert[p].ts]]
     \/ season.text # "empty" /\ season' = Torn
  /\ EndUpsert(p)

(* The share refuses an access: upsert_season_spoke returns False, and      *)
(* leaves an emptied file as it is.                                         *)
UpsertRefused(p) ==
  /\ Upserting(p)
  /\ EndUpsert(p)
  /\ UNCHANGED season

Upsert(p) == ReadSeason(p) \/ CompareSeason(p) \/ Truncate(p) \/ WriteSeason(p)

(* A writer dies, perhaps between emptying the file and closing it.         *)
AbandonUpsert(p) ==
  /\ EndUpsert(p)
  /\ season' \in IF upsert[p].at = "write" THEN {season, Torn} ELSE {season}
=============================================================================
