---------------------------- MODULE RateHarvest -----------------------------
(***************************************************************************)
(* The class-average harvester, src/src/data_builders/harvest_handybulk.py *)
(* : the pages of the source, the CSV of everything ever harvested and the *)
(* master table every consumer reads.  The server's refresh loop runs it   *)
(* once a day, and anybody may run the module's main() beside it.          *)
(*                                                                         *)
(* One of the nine series stands for all.  The CSV has a row for each day, *)
(* in which this series' cell may be empty, when the page named the day    *)
(* without this figure; the master table has a row for each series and day *)
(* with a figure.  Both files are written to a temporary file and moved    *)
(* into place, so a write is one step.                                     *)
(***************************************************************************)
EXTENDS Integers, Sequences, FiniteSets

CONSTANTS
  Harvesters,   \* processes that run the harvester
  LastDay,      \* bound: the days the model lasts
  DaysPerMonth,
  Limit,        \* MAX_BACKFILL_MONTHS
  MaxFailures,  \* bound: archive pages that cannot be fetched
  MaxRestated,  \* bound: printed figures the source changes
  MaxCrashes    \* bound: times a harvester is killed

ASSUME HarvestAssumption ==
  /\ LastDay \in Nat \ {0} /\ DaysPerMonth \in Nat \ {0} /\ Limit \in Nat
  /\ MaxFailures \in Nat /\ MaxRestated \in Nat /\ MaxCrashes \in Nat

Days    == 1 .. LastDay
Nothing == 0                          \* no row for that day
Blank   == 1                          \* a row without this series' figure
Figures == [Days -> Nat]              \* a page, the CSV or the master

VARIABLES
  source,      \* what the source publishes today
  csv,         \* handybulk_index_levels.csv
  master,      \* the harvested series of master_long.parquet
  run,         \* run[h]: where harvester h stands
  failures, restated, crashes,  \* what the bounds count
  late,        \* history: the days first printed without the figure
  outrun       \* history: a run had more months to close than it may fetch

vars  == <<source, csv, master, run, failures, restated, crashes, late, outrun>>
notes == <<late, outrun>>

Present(f)   == {d \in Days : f[d] # Nothing}
Figured(f)   == [d \in Days |-> IF f[d] = Blank THEN Nothing ELSE f[d]]
Newest(f)    == CHOOSE d \in Present(f) : \A x \in Present(f) : x <= d
Month(d)     == (d - 1) \div DaysPerMonth

(* f where it has a row, g elsewhere. *)
Else(f, g) == [d \in Days |-> IF f[d] # Nothing THEN f[d] ELSE g[d]]

Idle == [phase |-> "idle"]

(* Long ago the first day was harvested. *)
Init ==
  /\ source = [d \in Days |-> IF d = 1 THEN 2 ELSE Nothing]
  /\ csv = source
  /\ master = source
  /\ run = [h \in Harvesters |-> Idle]
  /\ failures = 0 /\ restated = 0 /\ crashes = 0
  /\ late = {} /\ outrun = FALSE

-----------------------------------------------------------------------------
(* The source: it publishes a day, with the figure or without, and may     *)
(* print the missing figure, or another one, for a day it has published.   *)

Publish ==
  /\ \E d \in Days \ Present(source), entry \in {Blank, 2} :
       /\ d = Newest(source) + 1
       /\ source' = [source EXCEPT ![d] = entry]
       /\ late' = IF entry = Blank THEN late \cup {d} ELSE late
  /\ UNCHANGED <<csv, master, run, failures, restated, crashes, outrun>>

Restate ==
  /\ restated < MaxRestated
  /\ \E d \in Present(source) : source' = [source EXCEPT ![d] = @ + 1]
  /\ restated' = restated + 1
  /\ UNCHANGED <<csv, master, run, failures, crashes, notes>>

-----------------------------------------------------------------------------
(* _months_to_backfill: the months from the newest day seen back to the    *)
(* newest day stored, newest first, at most Limit of them.                 *)
BadMonths(stored, seen) ==        \* mutant: the newest month only
  IF stored >= seen THEN <<>> ELSE <<Month(seen)>>

Gap(stored, seen) == IF stored >= seen THEN 0 ELSE Month(seen) - Month(stored) + 1

MonthsToBackfill(stored, seen) ==
  LET gap == Gap(stored, seen)
  IN  [i \in 1 .. (IF gap < Limit THEN gap ELSE Limit) |-> Month(seen) - i + 1]

(* The front page carries the most recent entry, and sometimes a run of    *)
(* recent ones.  If it cannot be fetched the run ends and nothing changes. *)
FetchFront(h) ==
  /\ run[h] = Idle
  /\ \E first \in Present(source) :
       LET page == [d \in Days |-> IF d >= first THEN source[d] ELSE Nothing]
       IN run' = [run EXCEPT ![h] =
            [phase |-> "archives", parsed |-> page,
             months |-> MonthsToBackfill(Newest(csv), Newest(page))]]
  /\ outrun' = (outrun \/ Gap(Newest(csv), Newest(source)) > Limit)
  /\ UNCHANGED <<source, csv, master, failures, restated, crashes, late>>

(* The front page wins on a date both carry, with its whole entry. *)
FetchArchive(h) ==
  /\ run[h].phase = "archives" /\ run[h].months # <<>>
  /\ LET month == Head(run[h].months)
         page  == [d \in Days |-> IF Month(d) = month THEN source[d] ELSE Nothing]
     IN run' = [run EXCEPT ![h] =
          [phase |-> "archives", parsed |-> Else(run[h].parsed, page),
           months |-> Tail(run[h].months)]]
  /\ UNCHANGED <<source, csv, master, failures, restated, crashes, notes>>

ArchiveFails(h) ==
  /\ run[h].phase = "archives" /\ run[h].months # <<>>
  /\ failures < MaxFailures
  /\ failures' = failures + 1
  /\ run' = [run EXCEPT ![h].months = Tail(@)]
  /\ UNCHANGED <<source, csv, master, restated, crashes, notes>>

(* merge_rows: dates that are missing are added, a date already stored is  *)
(* left exactly as it is, with an empty cell too.                          *)
BadMerge(parsed, existing) == Else(parsed, existing)   \* mutant: the page wins
BadMergeOnly(parsed, existing) == parsed               \* mutant: the page only
Merge(parsed, existing) == Else(existing, parsed)

BadReadCsv(h) ==                  \* mutant: one new day is not worth a write
  /\ run[h].phase = "archives" /\ run[h].months = <<>>
  /\ LET rows == Merge(run[h].parsed, csv) IN
       run' = [run EXCEPT ![h] =
         IF Cardinality(Present(rows)) <= Cardinality(Present(csv)) + 1
           THEN [phase |-> "harvested", parsed |-> run[h].parsed]
           ELSE [phase |-> "csv", parsed |-> run[h].parsed, rows |-> rows]]
  /\ UNCHANGED <<source, csv, master, failures, restated, crashes, notes>>

(* Nothing added: the file is not written. *)
ReadCsv(h) ==
  /\ run[h].phase = "archives" /\ run[h].months = <<>>
  /\ LET rows == Merge(run[h].parsed, csv) IN
       run' = [run EXCEPT ![h] =
         IF Present(rows) = Present(csv)
           THEN [phase |-> "harvested", parsed |-> run[h].parsed]
           ELSE [phase |-> "csv", parsed |-> run[h].parsed, rows |-> rows]]
  /\ UNCHANGED <<source, csv, master, failures, restated, crashes, notes>>

WriteCsv(h) ==
  /\ run[h].phase = "csv"
  /\ csv' = run[h].rows
  /\ run' = [run EXCEPT ![h] = [phase |-> "harvested", parsed |-> run[h].parsed]]
  /\ UNCHANGED <<source, master, failures, restated, crashes, notes>>

(* update_master adds the parsed figures whose date the master lacks.      *)
BadFold(parsed, stored) == Else(Figured(parsed), stored)   \* mutant: the page wins
Fold(parsed, stored) == Else(stored, Figured(parsed))

ReadMaster(h) ==
  /\ run[h].phase = "harvested"
  /\ LET rows == Fold(run[h].parsed, master) IN
       run' = [run EXCEPT ![h] =
         IF Present(rows) = Present(master) THEN Idle ELSE [phase |-> "master", rows |-> rows]]
  /\ UNCHANGED <<source, csv, master, failures, restated, crashes, notes>>

WriteMaster(h) ==
  /\ run[h].phase = "master"
  /\ master' = run[h].rows
  /\ run' = [run EXCEPT ![h] = Idle]
  /\ UNCHANGED <<source, csv, failures, restated, crashes, notes>>

Crash(h) ==
  /\ run[h] # Idle
  /\ crashes < MaxCrashes
  /\ crashes' = crashes + 1
  /\ run' = [run EXCEPT ![h] = Idle]
  /\ UNCHANGED <<source, csv, master, failures, restated, notes>>

Step(h) ==
  \/ FetchFront(h)
  \/ FetchArchive(h)
  \/ ReadCsv(h)
  \/ WriteCsv(h)
  \/ ReadMaster(h)
  \/ WriteMaster(h)

Next ==
  \/ Publish
  \/ Restate
  \/ \E h \in Harvesters : Step(h) \/ ArchiveFails(h) \/ Crash(h)

Spec == Init /\ [][Next]_vars

(* _rate_refresh_loop harvests again after every sleep, and a run that has *)
(* begun goes on.  Failures and crashes are few: MaxFailures, MaxCrashes.  *)
LoopSpec == Spec /\ \A h \in Harvesters : WF_vars(Step(h))

-----------------------------------------------------------------------------
(* Properties.                                                             *)

Run ==
  {Idle}
  \cup [phase: {"archives"}, parsed: Figures, months: Seq(Nat)]
  \cup [phase: {"csv"}, parsed: Figures, rows: Figures]
  \cup [phase: {"harvested"}, parsed: Figures]
  \cup [phase: {"master"}, rows: Figures]

(* The files and the runs hold figures, and there is always a newest one.  *)
TypeOK ==
  /\ source \in Figures /\ csv \in Figures /\ master \in Figures
  /\ 1 \in Present(source) \cap Present(csv) \cap Present(master)
  /\ run \in [Harvesters -> Run]
  /\ failures \in Nat /\ restated \in Nat /\ crashes \in Nat
  /\ late \subseteq Days /\ outrun \in BOOLEAN

(* "Never rewrite a date already stored": no step changes or loses what    *)
(* a past recommendation was priced against, in either file, whatever      *)
(* the source prints later and wherever a run is killed.                   *)
Keeps(f, g) == \A d \in Days : f[d] # Nothing => g[d] = f[d]
StoredFiguresStay == [][Keeps(csv, csv') /\ Keeps(master, master')]_vars

(* As long as no run was killed, every figure of the CSV that the master   *)
(* has a figure for as well is the same one, whatever the source printed   *)
(* between two runs.                                                       *)
SameFigures ==
  crashes = 0 =>
    \A d \in Present(Figured(csv)) \cap Present(master) : csv[d] = master[d]

(* The CSV, which a rebuild of the master reads, has every day the master  *)
(* has, and its figure too unless the source first printed that day        *)
(* without one: a kill loses a day of the master to the next run, never to *)
(* a rebuild.  A figure printed late is in the master alone, for the CSV   *)
(* keeps the empty cell it has.                                            *)
MasterIsRebuildable ==
  /\ Present(master) \subseteq Present(csv)
  /\ Present(master) \ Present(Figured(csv)) \subseteq late

(* The two files, in form, with each other, and for a rebuild.             *)
FilesAgree == TypeOK /\ SameFigures /\ MasterIsRebuildable

(* A published day is stored when it has its row in the CSV and its figure *)
(* in the master, if it was printed with one.                              *)
Published(d) == source[d] # Nothing
Stored(d)    == csv[d] # Nothing /\ (master[d] # Nothing \/ d \in late)

(* "A cap on politeness, not on correctness: a longer outage is closed by  *)
(* running the harvester again": every published day gets into the files,  *)
(* however long no run took place.  It does not.                           *)
GapsAreClosed == \A d \in Days : Published(d) ~> Stored(d)

(* "Silently loses every day of a gap ... is the failure mode a backfill   *)
(* exists to prevent": a published day gets into the files when every page *)
(* asked for came, no run was killed, and no run had more months to close  *)
(* than one may fetch.  The run after such a one sees the newest day       *)
(* stored and asks for nothing, so what was left out stays out.            *)
Disturbed == failures + crashes > 0 \/ outrun
CatchesUpUndisturbed == \A d \in Days : Published(d) ~> Stored(d) \/ Disturbed

=============================================================================
