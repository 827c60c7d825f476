---------------------------- MODULE SceneHarvest ----------------------------
(***************************************************************************)
(* The satellite scenes, src/src/data_builders/harvest_sentinel1.py: the   *)
(* paged search over each anchorage box, the sign-in, the resumable        *)
(* download of one scene and the notes of the pull.  The process may be    *)
(* killed at any point and run again, by hand.                             *)
(*                                                                         *)
(* A scene is its day of acquisition, and a file is so many chunks; sound  *)
(* says that each is the product's chunk of that place.                    *)
(***************************************************************************)
EXTENDS Integers, SequencesExt

CONSTANTS
  Boxes,       \* ANCHORAGE_BOXES, in order: for each, the scenes over it, by day
  Chunks,      \* chunks of a product
  MaxPages,    \* bound: pages of one search
  MaxRuns      \* bound: runs of the harvester

ASSUME ScenesAssumption ==
  /\ Boxes \in Seq(SUBSET Nat) /\ Boxes # <<>> /\ \A i \in DOMAIN Boxes : IsFiniteSet(Boxes[i])
  /\ Chunks \in Nat \ {0} /\ MaxPages \in Nat \ {0} /\ MaxRuns \in Nat

VARIABLES
  harvester,   \* what the run in progress is doing
  file,        \* file[s]: the product of scene s on disk
  notes,       \* PULL_NOTES.md, by the last run that wrote it
  spoilt,      \* history: scenes whose server sent the whole for a Range
  runs

sceneVars == <<harvester, file, notes, spoilt, runs>>

Scenes == UNION {Boxes[i] : i \in DOMAIN Boxes}
NoFile == [size |-> 0, sound |-> TRUE]
Whole == [size |-> Chunks, sound |-> TRUE]
NoNotes == [registered |-> FALSE, verified |-> FALSE, scene |-> -1]
AtRest == [op |-> "rest"]

ScenesInit ==
  /\ harvester = AtRest
  /\ file = [s \in Scenes |-> NoFile]
  /\ notes = NoNotes
  /\ spoilt = {}
  /\ runs = 0

-----------------------------------------------------------------------------
(* The search: page after page of a box, until one has no next link.  A    *)
(* page may repeat what an earlier one listed; a feature without a product *)
(* or a date is skipped.  Nothing asks for the order of a page, so a page  *)
(* is the set of what it lists.                                            *)

Start ==
  /\ harvester = AtRest /\ runs < MaxRuns
  /\ runs' = runs + 1
  /\ harvester' = [op |-> "search", box |-> 1, pages |-> 0, listed |-> {}, scenes |-> <<>>, pick |-> <<>>]
  /\ UNCHANGED <<file, notes, spoilt>>

BadNew(scenes, page) == SetToSeq(page)   \* mutant: pages are simply appended
New(scenes, page) == SetToSeq(page \ Range(scenes))

Latest(all, taken) == IF taken = <<>> /\ all # <<>> THEN <<Max(Range(all))>> ELSE taken

search_scenes ==
  /\ harvester.op = "search"
  /\ \E page \in SUBSET Boxes[harvester.box], more \in BOOLEAN :
       /\ more => harvester.pages + 1 < MaxPages
       /\ LET all == harvester.scenes \o New(harvester.scenes, page)
              listed == harvester.listed \cup page
              pick == Latest(all, harvester.pick) IN
            harvester' =
              IF more THEN [harvester EXCEPT !.pages = @ + 1, !.scenes = all, !.listed = listed]
              ELSE IF harvester.box < Len(Boxes)
              THEN [op |-> "search", box |-> harvester.box + 1, pages |-> 0, listed |-> {},
                    scenes |-> <<>>, pick |-> pick]
              ELSE [op |-> "sign_in", pick |-> pick]
  /\ UNCHANGED <<file, notes, spoilt, runs>>

-----------------------------------------------------------------------------
(* The sign-in, and the download of the latest scene of the first box that *)
(* has one.  Only missing and rejected credentials lead on to the notes:   *)
(* any other error ends the run without them.                              *)

Note(registered, verified, scene) ==
  /\ notes' = [registered |-> registered, verified |-> verified, scene |-> scene]
  /\ harvester' = AtRest

_get_access_token ==
  /\ harvester.op = "sign_in"
  /\ \/ Note(FALSE, FALSE, -1)                     \* no credentials, or they are rejected
     \/ harvester.pick = <<>> /\ Note(TRUE, FALSE, -1)
     \/ /\ harvester.pick # <<>>
        /\ harvester' = [op |-> "fetch", scene |-> harvester.pick[1]]
        /\ UNCHANGED notes
  /\ UNCHANGED <<file, spoilt, runs>>

Complete(size, known) == known /\ size >= Chunks

BadPlace(existing) == 0                            \* mutant: "wb", for a file that is resumed
Place(existing) == existing

(* known: whether the catalogue gave the product's size.  The token is     *)
(* asked for again before the transfer; from is where the answer starts.   *)
fetch_scene ==
  /\ harvester.op = "fetch"
  /\ \E known \in BOOLEAN :
       LET s == harvester.scene  existing == file[s].size IN
       \/ /\ Complete(existing, known)
          /\ Note(TRUE, TRUE, s)
          /\ UNCHANGED <<file, spoilt>>
       \/ /\ ~Complete(existing, known)
          /\ Note(TRUE, FALSE, -1)                 \* the second token is refused
          /\ UNCHANGED <<file, spoilt>>
       \/ /\ ~Complete(existing, known)
          /\ \E from \in {existing, 0} :
               /\ existing < Chunks \/ from = 0    \* a Range past the end is a 416
               /\ harvester' = [op |-> "receive", scene |-> s, from |-> from]
               /\ file' = [file EXCEPT ![s] = IF Place(existing) = 0 THEN NoFile ELSE @]
               /\ spoilt' = IF from # existing THEN spoilt \cup {s} ELSE spoilt
          /\ UNCHANGED notes
  /\ UNCHANGED runs

Receive ==
  /\ harvester.op = "receive"
  /\ LET s == harvester.scene IN
       IF harvester.from < Chunks
         THEN /\ file' = [file EXCEPT ![s] =
                   [size |-> @.size + 1, sound |-> @.sound /\ @.size = harvester.from]]
              /\ harvester' = [harvester EXCEPT !.from = @ + 1]
              /\ UNCHANGED notes
         ELSE Note(TRUE, TRUE, s) /\ UNCHANGED file
  /\ UNCHANGED <<spoilt, runs>>

(* The site fails, the connection is cut, or the process is killed: what   *)
(* has been received stays.                                                *)
Stop ==
  /\ harvester # AtRest
  /\ harvester' = AtRest
  /\ UNCHANGED <<file, notes, spoilt, runs>>

Stopped ==
  /\ harvester = AtRest /\ runs = MaxRuns
  /\ UNCHANGED sceneVars

ScenesNext ==
  \/ Start \/ search_scenes \/ _get_access_token \/ fetch_scene \/ Receive \/ Stop \/ Stopped

-----------------------------------------------------------------------------
(* Properties.                                                             *)

(* The pages of a box together give each usable scene once, and nothing    *)
(* else: the notes count them.                                             *)
ScenesFoundOnce ==
  harvester.op = "search" =>
    /\ Len(harvester.scenes) = Cardinality(harvester.listed)
    /\ Range(harvester.scenes) = harvester.listed

(* "A partial file smaller than the expected size is resumed": across      *)
(* kills, cuts and runs what is on disk is the beginning of the product,   *)
(* and a download the notes call verified has left all of it there, as     *)
(* long as the server answers a Range with the range.                      *)
ResumedFilesAreWhole ==
  /\ \A s \in Scenes \ spoilt : file[s].sound /\ file[s].size <= Chunks
  /\ notes.verified /\ notes.scene \notin spoilt => file[notes.scene] = Whole

(* What a harvest leaves behind is of the scenes found: each once, and of  *)
(* each the beginning of its file or all of it.                            *)
ScenesAreWhole == ScenesFoundOnce /\ ResumedFilesAreWhole

(* Whatever the server answers with. *)
FilesAreTheirProducts == \A s \in Scenes : file[s].sound

=============================================================================
