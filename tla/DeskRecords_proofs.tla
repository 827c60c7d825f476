------------------------- MODULE DeskRecords_proofs -------------------------
(***************************************************************************)
(* Proofs about what the desk keeps, one record after the other: the       *)
(* archive of schedule pages; accounts behind the roles of the routes; the *)
(* radar scenes and their censuses; the vintages of the series.            *)
(***************************************************************************)
EXTENDS PortArchive, PortCalls, DeskRoutes, SceneHarvest, VintageStore, AnchorageCensus,
        BerthRegister_proofs

(***************************************************************************)
(* The archive of pages (PortArchive), for every set of ports and          *)
(* contents, passes of any number and kills at any step.                   *)
(***************************************************************************)

Busy == {"fill", "parse", "save", "log"}       \* the steps that have a page in hand
Line == [port : SitePorts, content : Contents, new : BOOLEAN]
KeyOf(line) == <<line.port, line.content>>

Passes == [step : {"idle", "killed", "fetch"} \cup Busy, todo : Seq(SitePorts),
           content : Contents \cup {NoPage}, new : BOOLEAN]

ArchiveTypeOK ==
  /\ raw \in [Contents -> {"none", "half", "whole"}]
  /\ snaps \in [SitePorts \X Contents -> {"none", "torn", "half", "whole"}]
  /\ log \in Seq(Line)
  /\ pass \in Passes
  /\ pass.step \in {"fetch"} \cup Busy => pass.todo # <<>>
  /\ pass.step \in Busy => pass.content \in Contents

(* What a pass in progress knows of the disk, and the disk of the log.     *)
PageInHand == pass.step \in Busy => raw[pass.content] # "none"
Saving == pass.step = "save" => pass.new /\ snaps[Key] = "torn"
Saved == pass.step = "log" =>
           snaps[Key] # "none" /\ (pass.new => snaps[Key] # "torn")
FirstOfItsKey ==
  pass.step \in {"save", "log"} /\ pass.new => \A i \in DOMAIN log : KeyOf(log[i]) # Key

ArchiveInv == ArchiveTypeOK /\ PageInHand /\ Saving /\ Saved /\ FirstOfItsKey /\ LogMatchesDisk

(* archive_all goes through a list of the ports. *)
LEMMA PortsInOrder == SetToSeq(SitePorts) \in Seq(SitePorts) /\ SetToSeq(SitePorts) # <<>>
<1> DEFINE n == Cardinality(SitePorts)
<1>1. n \in Nat /\ n # 0
  BY ArchiveAssumption, FS_CardinalityType, FS_EmptySet
<1>2. PICK f : f \in Bijection(1 .. n, SitePorts)
  BY ArchiveAssumption, FS_CardinalityType DEF ExistsBijection
<1>3. f \in [1 .. n -> SitePorts] /\ IsInjective(f)
  BY <1>2 DEF Bijection, Injection, Surjection
<1>4. SetToSeq(SitePorts) \in [1 .. n -> SitePorts]
  BY <1>3, Zenon DEF SetToSeq
<1>5. SetToSeq(SitePorts) \in Seq(SitePorts) /\ Len(SetToSeq(SitePorts)) = n
  <2> HIDE DEF n
  <2> QED BY <1>1, <1>4
<1> QED BY <1>1, <1>5

(* A pass set on a list of ports, over it or ended by a kill. *)
LEMMA PassWithoutPage ==
  ASSUME NEW step \in {"idle", "killed", "fetch"}, NEW todo \in Seq(SitePorts)
  PROVE  LET p == [NoPass EXCEPT !.step = step, !.todo = todo]
         IN  p \in Passes /\ p.step = step /\ p.todo = todo
BY DEF NoPass, Passes

(* The pass over the ports that are left. *)
LEMMA PassGoesOn ==
  ASSUME NEW rest \in Seq(SitePorts)
  PROVE  /\ NextPort(rest) \in Passes
         /\ NextPort(rest).step \in {"idle", "fetch"}
         /\ NextPort(rest).step = "fetch" => NextPort(rest).todo # <<>>
<1>1. CASE rest = <<>>
  <2>1. NextPort(rest) = [NoPass EXCEPT !.step = "idle", !.todo = rest]
    BY <1>1 DEF NextPort
  <2>2. NextPort(rest) =
          [step |-> "idle", todo |-> rest, content |-> NoPage, new |-> FALSE]
    BY <2>1 DEF NoPass
  <2> QED BY <2>2 DEF Passes
<1>2. CASE rest # <<>>
  <2>1. NextPort(rest) = [NoPass EXCEPT !.step = "fetch", !.todo = rest]
    BY <1>2 DEF NextPort
  <2>2. NextPort(rest) =
          [step |-> "fetch", todo |-> rest, content |-> NoPage, new |-> FALSE]
    BY <2>1 DEF NoPass
  <2> QED BY <1>2, <2>2 DEF Passes
<1> QED BY <1>1, <1>2

(* A run of the archiver keeps its state in its ranges. *)
LEMMA ArchiveTypes ==
  ASSUME ArchiveTypeOK, [ArchiveNext]_archiveVars
  PROVE  ArchiveTypeOK'
<1> USE DEF ArchiveTypeOK, Busy
<1>1. CASE StartPass
  <2>1. PICK todo \in {<<port>> : port \in SitePorts} \cup {SetToSeq(SitePorts)} :
          pass' = [NoPass EXCEPT !.step = "fetch", !.todo = todo]
    BY <1>1 DEF StartPass
  <2>2. todo \in Seq(SitePorts) /\ todo # <<>>
    <3>1. CASE todo = SetToSeq(SitePorts)
      BY <3>1, PortsInOrder
    <3>2. ASSUME NEW port \in SitePorts, todo = <<port>>
          PROVE  todo \in Seq(SitePorts) /\ todo # <<>>
      BY <3>2
    <3> QED BY <3>1, <3>2
  <2>3. pass' \in Passes /\ pass'.step = "fetch" /\ pass'.todo = todo
    BY <2>1, <2>2, PassWithoutPage
  <2> QED BY <1>1, <2>2, <2>3 DEF StartPass
<1>2. CASE FetchFails
  <2>1. Tail(pass.todo) \in Seq(SitePorts)
    BY <1>2 DEF FetchFails, Passes
  <2> QED BY <1>2, <2>1, PassGoesOn DEF FetchFails, AfterFailure
<1>3. CASE Fetch
  <2>1. PICK c \in Contents :
          IF raw[c] = "none"
          THEN /\ raw' = [raw EXCEPT ![c] = "half"]
               /\ pass' = [pass EXCEPT !.step = "fill", !.content = c]
          ELSE /\ pass' = [pass EXCEPT !.step = "parse", !.content = c]
               /\ UNCHANGED raw
    BY <1>3 DEF Fetch
  <2>2. raw' \in [Contents -> {"none", "half", "whole"}]
    BY <2>1
  <2>3. /\ pass' \in Passes /\ pass'.content = c /\ pass'.todo = pass.todo
        /\ pass'.step \in {"fill", "parse"}
    BY <2>1 DEF Passes
  <2> QED BY <1>3, <2>2, <2>3 DEF Fetch
<1>4. CASE FillPage
  <2>1. pass' \in Passes /\ pass'.content = pass.content /\ pass'.todo = pass.todo
    BY <1>4 DEF FillPage, Passes
  <2> QED BY <1>4, <2>1 DEF FillPage
<1>5. CASE ParsePage
  <2>1. pass' \in Passes /\ pass'.content = pass.content /\ pass'.todo = pass.todo
    <3>1. CASE IsNew(Key)
      BY <1>5, <3>1 DEF ParsePage, Passes
    <3>2. CASE ~IsNew(Key)
      BY <1>5, <3>2 DEF ParsePage, Passes, IsNew
    <3> QED BY <3>1, <3>2
  <2>2. snaps' \in [SitePorts \X Contents -> {"none", "torn", "half", "whole"}]
    BY <1>5 DEF ParsePage
  <2> QED BY <1>5, <2>1, <2>2 DEF ParsePage
<1>6. CASE SaveSnapshot
  <2>1. pass' \in Passes /\ pass'.content = pass.content /\ pass'.todo = pass.todo
    BY <1>6 DEF SaveSnapshot, Passes
  <2>2. snaps' \in [SitePorts \X Contents -> {"none", "torn", "half", "whole"}]
    BY <1>6 DEF SaveSnapshot
  <2> QED BY <1>6, <2>1, <2>2 DEF SaveSnapshot
<1>7. CASE Observe
  <2>1. Tail(pass.todo) \in Seq(SitePorts) /\ Port \in SitePorts
    BY <1>7 DEF Observe, Port, Passes
  <2>2. [port |-> Port, content |-> pass.content, new |-> pass.new] \in Line
    BY <1>7, <2>1 DEF Observe, Line, Passes
  <2>3. log' \in Seq(Line)
    BY <1>7, <2>2 DEF Observe
  <2>4. pass' \in Passes /\ pass'.step \in {"idle", "fetch"}
        /\ (pass'.step = "fetch" => pass'.todo # <<>>)
    BY <1>7, <2>1, PassGoesOn DEF Observe
  <2> QED BY <1>7, <2>3, <2>4 DEF Observe
<1>8. CASE KillPass
  <2>1. pass' = [step |-> "killed", todo |-> <<>>, content |-> NoPage, new |-> FALSE]
    BY <1>8 DEF KillPass, NoPass
  <2>2. pass' \in Passes /\ pass'.step = "killed"
    BY <2>1, EmptySeq DEF Passes
  <2> QED BY <1>8, <2>2 DEF KillPass
<1>9. CASE UNCHANGED archiveVars
  BY <1>9 DEF archiveVars
<1> QED
  BY <1>1, <1>2, <1>3, <1>4, <1>5, <1>6, <1>7, <1>8, <1>9 DEF ArchiveNext, LogFull

-----------------------------------------------------------------------------

(* A pass with nothing in hand, idle, killed or at a fetch, owes nothing.   *)
LEMMA NothingInHand ==
  ASSUME pass'.step \notin Busy
  PROVE  PageInHand' /\ Saving' /\ Saved' /\ FirstOfItsKey'
BY DEF Busy, PageInHand, Saving, Saved, FirstOfItsKey

(* What the log says of the disk stays true while pages and snapshots are  *)
(* only added, and no snapshot that was there is torn again.                *)
LEMMA LogKept ==
  ASSUME ArchiveTypeOK, LogMatchesDisk, UNCHANGED log,
         \A c \in Contents : raw[c] # "none" => raw'[c] # "none",
         \A key \in SitePorts \X Contents :
           snaps[key] # "none" =>
             snaps'[key] # "none" /\ (snaps[key] # "torn" => snaps'[key] # "torn")
  PROVE  LogMatchesDisk'
<1> SUFFICES ASSUME NEW i \in DOMAIN log
             PROVE  /\ raw'[log[i].content] # "none" /\ snaps'[KeyOf(log[i])] # "none"
                    /\ log[i].new =>
                         /\ snaps'[KeyOf(log[i])] # "torn"
                         /\ \A j \in 1 .. (i - 1) : KeyOf(log[i]) # KeyOf(log[j])
  BY DEF LogMatchesDisk, KeyOf
<1>1. log[i] \in Line
  BY DEF ArchiveTypeOK
<1>2. log[i].content \in Contents /\ KeyOf(log[i]) \in SitePorts \X Contents
  BY <1>1 DEF Line, KeyOf
<1>3. /\ raw[log[i].content] # "none" /\ snaps[KeyOf(log[i])] # "none"
      /\ log[i].new =>
           /\ snaps[KeyOf(log[i])] # "torn"
           /\ \A j \in 1 .. (i - 1) : KeyOf(log[i]) # KeyOf(log[j])
  BY DEF LogMatchesDisk, KeyOf
<1> QED BY <1>2, <1>3

(* A line appended that is true of the disk leaves the log true of it.      *)
LEMMA LogExtended ==
  ASSUME ArchiveTypeOK, LogMatchesDisk, UNCHANGED <<raw, snaps>>,
         NEW line \in Line, log' = Append(log, line),
         raw[line.content] # "none", snaps[KeyOf(line)] # "none",
         line.new => /\ snaps[KeyOf(line)] # "torn"
                     /\ \A j \in DOMAIN log : KeyOf(line) # KeyOf(log[j])
  PROVE  LogMatchesDisk'
<1>1. /\ log \in Seq(Line) /\ DOMAIN log' = 1 .. (Len(log) + 1) /\ DOMAIN log = 1 .. Len(log)
      /\ \A j \in DOMAIN log : log'[j] = log[j]
      /\ log'[Len(log) + 1] = line /\ Len(log) \in Nat
  BY DEF ArchiveTypeOK
<1> SUFFICES ASSUME NEW i \in DOMAIN log'
             PROVE  /\ raw[log'[i].content] # "none" /\ snaps[KeyOf(log'[i])] # "none"
                    /\ log'[i].new =>
                         /\ snaps[KeyOf(log'[i])] # "torn"
                         /\ \A j \in 1 .. (i - 1) : KeyOf(log'[i]) # KeyOf(log'[j])
  BY DEF LogMatchesDisk, KeyOf
<1>2. CASE i \in DOMAIN log
  <2>1. /\ raw[log[i].content] # "none" /\ snaps[KeyOf(log[i])] # "none"
        /\ log[i].new =>
             /\ snaps[KeyOf(log[i])] # "torn"
             /\ \A j \in 1 .. (i - 1) : KeyOf(log[i]) # KeyOf(log[j])
    BY <1>2 DEF LogMatchesDisk, KeyOf
  <2>2. \A j \in 1 .. (i - 1) : j \in DOMAIN log
    BY <1>1, <1>2
  <2> QED BY <1>1, <1>2, <2>1, <2>2
<1>3. CASE i = Len(log) + 1
  <2>1. \A j \in 1 .. (i - 1) : j \in DOMAIN log
    BY <1>1, <1>3
  <2> QED BY <1>1, <1>3, <2>1
<1> QED BY <1>1, <1>2, <1>3

(* One step of a run keeps the invariant: parsing finds the log free of a   *)
(* key that has no snapshot, and saving ends the tear before the line is    *)
(* written.                                                                *)
LEMMA ArchiveStep ==
  ASSUME ArchiveInv, [ArchiveNext]_archiveVars
  PROVE  ArchiveInv'
<1>1. ArchiveTypeOK /\ ArchiveTypeOK' /\ LogMatchesDisk
  BY ArchiveTypes DEF ArchiveInv
<1> SUFFICES PageInHand' /\ Saving' /\ Saved' /\ FirstOfItsKey' /\ LogMatchesDisk'
  BY <1>1 DEF ArchiveInv
<1>2. CASE StartPass
  <2>1. pass'.step = "fetch"
    BY <1>2, <1>1 DEF StartPass, NoPass
  <2>2. PageInHand' /\ Saving' /\ Saved' /\ FirstOfItsKey'
    BY <2>1, NothingInHand DEF Busy
  <2> QED BY <1>1, <1>2, <2>2, LogKept DEF StartPass
<1>3. CASE FetchFails
  <2>1. pass'.step \in {"idle", "fetch"}
    <3>1. Tail(pass.todo) \in Seq(SitePorts)
      BY <1>1, <1>3 DEF FetchFails, ArchiveTypeOK, Passes
    <3> QED BY <1>3, <3>1, PassGoesOn DEF FetchFails, AfterFailure
  <2>2. PageInHand' /\ Saving' /\ Saved' /\ FirstOfItsKey'
    BY <2>1, NothingInHand DEF Busy
  <2> QED BY <1>1, <1>3, <2>2, LogKept DEF FetchFails
<1>4. CASE Fetch
  <2>1. PICK c \in Contents :
          IF raw[c] = "none"
          THEN /\ raw' = [raw EXCEPT ![c] = "half"]
               /\ pass' = [pass EXCEPT !.step = "fill", !.content = c]
          ELSE /\ pass' = [pass EXCEPT !.step = "parse", !.content = c]
               /\ UNCHANGED raw
    BY <1>4 DEF Fetch
  <2>2. pass'.content = c /\ pass'.step \in {"fill", "parse"}
    BY <1>1, <2>1 DEF ArchiveTypeOK, Passes
  <2>3. /\ raw'[c] # "none"
        /\ \A d \in Contents : raw[d] # "none" => raw'[d] # "none"
    BY <1>1, <2>1 DEF ArchiveTypeOK
  <2>4. PageInHand' /\ Saving' /\ Saved' /\ FirstOfItsKey'
    BY <2>2, <2>3 DEF PageInHand, Saving, Saved, FirstOfItsKey
  <2> QED BY <1>1, <1>4, <2>3, <2>4, LogKept DEF Fetch
<1>5. CASE FillPage
  <2>1. pass'.content = pass.content /\ pass'.step = "parse" /\ pass.content \in Contents
    BY <1>1, <1>5 DEF FillPage, ArchiveTypeOK, Passes, Busy
  <2>2. /\ raw'[pass.content] # "none"
        /\ \A d \in Contents : raw[d] # "none" => raw'[d] # "none"
    BY <1>1, <1>5, <2>1 DEF FillPage, ArchiveTypeOK
  <2>3. PageInHand' /\ Saving' /\ Saved' /\ FirstOfItsKey'
    BY <2>1, <2>2 DEF PageInHand, Saving, Saved, FirstOfItsKey
  <2> QED BY <1>1, <1>5, <2>2, <2>3, LogKept DEF FillPage
<1>6. CASE ParsePage
  <2>1. /\ Key \in SitePorts \X Contents /\ pass.step = "parse" /\ UNCHANGED <<raw, log>>
        /\ pass.content \in Contents /\ raw[pass.content] # "none"
    <3>1. pass.step \in Busy /\ pass.content \in Contents /\ pass.todo \in Seq(SitePorts)
          /\ pass.todo # <<>>
      BY <1>1, <1>6 DEF ParsePage, ArchiveTypeOK, Passes, Busy
    <3>2. Head(pass.todo) \in SitePorts
      BY <3>1
    <3> QED BY <1>6, <3>1, <3>2 DEF ParsePage, Key, Port, ArchiveInv, PageInHand
  <2>2. CASE IsNew(Key)
    <3>1. /\ snaps' = [snaps EXCEPT ![Key] = "torn"]
          /\ pass' = [pass EXCEPT !.step = "save", !.new = TRUE]
      BY <1>6, <2>2 DEF ParsePage
    <3>2. /\ pass'.step = "save" /\ pass'.new = TRUE
          /\ pass'.content = pass.content /\ pass'.todo = pass.todo
      BY <1>1, <3>1 DEF ArchiveTypeOK, Passes
    <3>3. Key' = Key /\ snaps'[Key] = "torn"
      BY <1>1, <2>1, <3>1, <3>2 DEF Key, Port, ArchiveTypeOK
    <3>4. \A i \in DOMAIN log : KeyOf(log[i]) # Key
      BY <1>1, <2>2 DEF LogMatchesDisk, KeyOf, IsNew
    <3>5. PageInHand' /\ Saving' /\ Saved' /\ FirstOfItsKey'
      BY <2>1, <3>2, <3>3, <3>4 DEF PageInHand, Saving, Saved, FirstOfItsKey
    <3>6. \A key \in SitePorts \X Contents :
            snaps[key] # "none" =>
              snaps'[key] # "none" /\ (snaps[key] # "torn" => snaps'[key] # "torn")
      BY <1>1, <2>1, <2>2, <3>1 DEF IsNew, ArchiveTypeOK
    <3> QED BY <1>1, <2>1, <3>5, <3>6, LogKept
  <2>3. CASE ~IsNew(Key)
    <3>1. snaps' = snaps /\ pass' = [pass EXCEPT !.step = "log", !.new = FALSE]
      BY <1>6, <2>3 DEF ParsePage, IsNew
    <3>2. /\ pass'.step = "log" /\ pass'.new = FALSE
          /\ pass'.content = pass.content /\ pass'.todo = pass.todo
      BY <1>1, <3>1 DEF ArchiveTypeOK, Passes
    <3>3. Key' = Key
      BY <3>2 DEF Key, Port
    <3>4. PageInHand' /\ Saving' /\ Saved' /\ FirstOfItsKey'
      BY <2>1, <2>3, <3>1, <3>2, <3>3
         DEF PageInHand, Saving, Saved, FirstOfItsKey, IsNew
    <3> QED BY <1>1, <2>1, <3>1, <3>4, LogKept
  <2> QED BY <2>2, <2>3
<1>7. CASE SaveSnapshot
  <2>1. /\ Key \in SitePorts \X Contents /\ pass.step = "save" /\ UNCHANGED <<raw, log>>
        /\ pass.content \in Contents /\ raw[pass.content] # "none"
    <3>1. pass.step \in Busy /\ pass.content \in Contents /\ pass.todo \in Seq(SitePorts)
          /\ pass.todo # <<>>
      BY <1>1, <1>7 DEF SaveSnapshot, ArchiveTypeOK, Passes, Busy
    <3>2. Head(pass.todo) \in SitePorts
      BY <3>1
    <3> QED BY <1>7, <3>1, <3>2 DEF SaveSnapshot, Key, Port, ArchiveInv, PageInHand
  <2>2. /\ pass'.step = "log" /\ pass'.new = pass.new
        /\ pass'.content = pass.content /\ pass'.todo = pass.todo
    BY <1>1, <1>7 DEF SaveSnapshot, ArchiveTypeOK, Passes
  <2>3. raw[pass.content] \in {"half", "whole"}
    BY <1>1, <2>1 DEF ArchiveTypeOK
  <2>4. Key' = Key /\ snaps'[Key] \in {"half", "whole"}
    BY <1>1, <1>7, <2>1, <2>2, <2>3 DEF SaveSnapshot, Key, Port, ArchiveTypeOK
  <2>5. pass.new => \A i \in DOMAIN log : KeyOf(log[i]) # Key
    BY <2>1 DEF ArchiveInv, FirstOfItsKey
  <2>6. PageInHand' /\ Saving' /\ Saved' /\ FirstOfItsKey'
    BY <2>1, <2>2, <2>4, <2>5 DEF PageInHand, Saving, Saved, FirstOfItsKey
  <2>7. \A key \in SitePorts \X Contents :
          snaps[key] # "none" =>
            snaps'[key] # "none" /\ (snaps[key] # "torn" => snaps'[key] # "torn")
    BY <1>1, <1>7, <2>1, <2>3 DEF SaveSnapshot, ArchiveTypeOK
  <2> QED BY <1>1, <2>1, <2>6, <2>7, LogKept
<1>8. CASE Observe
  <2> DEFINE line == [port |-> Port, content |-> pass.content, new |-> pass.new]
  <2>1. /\ pass.step \in Busy /\ pass.step = "log" /\ pass.content \in Contents
        /\ pass.todo \in Seq(SitePorts) /\ pass.todo # <<>> /\ pass.new \in BOOLEAN
    BY <1>1, <1>8 DEF Observe, ArchiveTypeOK, Passes, Busy
  <2>2. Head(pass.todo) \in SitePorts /\ Tail(pass.todo) \in Seq(SitePorts)
    BY <2>1
  <2>3. line \in Line /\ KeyOf(line) = Key /\ line.content = pass.content /\ line.new = pass.new
    BY <2>1, <2>2 DEF Line, KeyOf, Key, Port
  <2>4. pass'.step \in {"idle", "fetch"}
    BY <1>8, <2>2, PassGoesOn DEF Observe
  <2>5. PageInHand' /\ Saving' /\ Saved' /\ FirstOfItsKey'
    BY <2>4, NothingInHand DEF Busy
  <2>6. /\ raw[pass.content] # "none" /\ snaps[Key] # "none"
        /\ pass.new => /\ snaps[Key] # "torn"
                       /\ \A j \in DOMAIN log : Key # KeyOf(log[j])
    BY <2>1 DEF ArchiveInv, PageInHand, Saved, FirstOfItsKey
  <2>7. log' = Append(log, line) /\ UNCHANGED <<raw, snaps>>
    BY <1>8 DEF Observe
  <2>8. LogMatchesDisk'
    <3> HIDE DEF line
    <3> QED BY <1>1, <2>3, <2>6, <2>7, LogExtended
  <2> QED BY <2>5, <2>8
<1>9. CASE KillPass
  <2>1. pass'.step = "killed"
    BY <1>9 DEF KillPass, NoPass
  <2>2. PageInHand' /\ Saving' /\ Saved' /\ FirstOfItsKey'
    BY <2>1, NothingInHand DEF Busy
  <2> QED BY <1>1, <1>9, <2>2, LogKept DEF KillPass
<1>10. CASE UNCHANGED archiveVars
  BY <1>10 DEF archiveVars, ArchiveInv, PageInHand, Saving, Saved, FirstOfItsKey,
               LogMatchesDisk, Key, Port
<1> QED
  BY <1>2, <1>3, <1>4, <1>5, <1>6, <1>7, <1>8, <1>9, <1>10 DEF ArchiveNext, LogFull

(***************************************************************************)
(* The log of observations speaks of files that are on disk, after any     *)
(* number of passes, however often one is killed and at whatever step: a   *)
(* page and a snapshot stand behind each line, and a line that calls its   *)
(* snapshot new is the first on it and the snapshot is written to its end. *)
(***************************************************************************)
THEOREM LogIsOfTheDisk == ArchiveSpec => []LogMatchesDisk
<1>1. ArchiveInit => ArchiveInv
  <2> SUFFICES ASSUME ArchiveInit PROVE ArchiveInv
    OBVIOUS
  <2>1. pass = [step |-> "idle", todo |-> <<>>, content |-> NoPage, new |-> FALSE]
    BY DEF ArchiveInit, NoPass
  <2>2. pass \in Passes /\ pass.step = "idle"
    BY <2>1, EmptySeq DEF Passes
  <2>3. log \in Seq(Line) /\ DOMAIN log = {}
    BY EmptySeq DEF ArchiveInit
  <2>4. ArchiveTypeOK
    BY <2>2, <2>3 DEF ArchiveInit, ArchiveTypeOK, Busy
  <2> QED
    BY <2>2, <2>3, <2>4 DEF ArchiveInv, PageInHand, Saving, Saved, FirstOfItsKey,
                            LogMatchesDisk, Busy
<1>2. ArchiveInv /\ [ArchiveNext]_archiveVars => ArchiveInv'
  BY ArchiveStep
<1>3. ArchiveInv => LogMatchesDisk
  BY DEF ArchiveInv
<1> QED BY <1>1, <1>2, <1>3, PTL DEF ArchiveSpec

-----------------------------------------------------------------------------
(***************************************************************************)
(* Who may call what (DeskRoutes), for any people, requests and routes they *)
(* may be for.                                                             *)
(***************************************************************************)
RoutesSpec == RoutesInit /\ [][RoutesNext]_routesVars

Browsers == People \cup {Nobody}
Actors   == [by : Browsers, as : Roles \cup {Nobody}]
AtDoor   == [phase : {"dependency"}, route : DOMAIN Minimum, from : Browsers, seen : Actors]
Inside   == [phase : {"handler"}, route : Routes, from : Browsers, actor : Actors, moved : BOOLEAN]

AccountsThere ==
  /\ role \in [People -> Roles] /\ active \in [People -> BOOLEAN]
  /\ accounts \subseteq People /\ signedIn \subseteq People

(* A handler whose route asks for a rank knows who it acts for: what the   *)
(* account is now, unless it was overtaken; and one of enough rank, where  *)
(* the route is closed.                                                    *)
Guarded(q) == q.phase = "handler" /\ q.route \in DOMAIN Minimum

RequestsFit ==
  /\ request \in [Requests -> {Idle} \cup AtDoor \cup Inside]
  /\ \A r \in Requests :
       LET q == request[r]
       IN  Guarded(q) =>
             /\ ~q.moved => q.actor = Account(q.from)
             /\ (q.actor.by = Nobody) = (q.actor.as = Nobody)
             /\ Closed(q.route) =>
                  q.actor.by # Nobody /\ outranks_or_equals(q.actor.as, Minimum[q.route])

RoutesInv == AccountsThere /\ RequestsFit /\ OutcomesNameTheirWriter

LEMMA AccountIs ==
  ASSUME AccountsThere, NEW p \in Browsers
  PROVE  /\ Account(p) \in Actors
         /\ (Account(p).by = Nobody) = (Account(p).as = Nobody)
         /\ Account(p).by # Nobody => user_for_session(p) /\ Account(p).as = role[p]
         /\ p = Nobody => Account(p) = NoActor
BY RoutesAssumption DEF AccountsThere, Browsers, Actors, Account, user_for_session, NoActor

LEMMA SignInKeeps ==
  ASSUME RoutesInv, NEW r \in Requests, NEW route \in Routes, NEW p \in Browsers,
         _enforce_sign_in(r, route, p)
  PROVE  RoutesInv'
<1>1. UNCHANGED <<AUTH_ENFORCED, accounts, role, active, signedIn, outcomes>>
  BY DEF _enforce_sign_in, accountVars, deskVars
<1>2. AccountsThere' /\ OutcomesNameTheirWriter'
  BY <1>1 DEF RoutesInv, AccountsThere, OutcomesNameTheirWriter
<1> SUFFICES RequestsFit'
  BY <1>2 DEF RoutesInv
<1>3. ASSUME NEW q \in {Idle} \cup AtDoor \cup Inside, ~Guarded(q),
             request' = [request EXCEPT ![r] = q]
      PROVE  RequestsFit'
  BY <1>1, <1>3 DEF RoutesInv, RequestsFit, Closed, Account, user_for_session
<1>4. CASE request' = request
  BY <1>1, <1>4 DEF RoutesInv, RequestsFit, Closed, Account, user_for_session, Guarded
<1>5. CASE AUTH_ENFORCED => route \in Public \/ user_for_session(p)
  <2>1. CASE route \in DOMAIN Minimum
    <3> DEFINE q == [phase |-> "dependency", route |-> route, from |-> p, seen |-> Account(p)]
    <3>1. request' = [request EXCEPT ![r] = q]
      BY <1>5, <2>1, Zenon DEF _enforce_sign_in
    <3>2. Account(p) \in Actors
      BY AccountIs DEF RoutesInv
    <3>3. q \in AtDoor
      BY <2>1, <3>2 DEF AtDoor
    <3>4. ~Guarded(q)
      BY DEF Guarded
    <3> HIDE DEF q
    <3> QED
      BY <1>3, <3>1, <3>3, <3>4
  <2>2. CASE route \notin DOMAIN Minimum
    <3> DEFINE q == [phase |-> "handler", route |-> route, from |-> p, actor |-> NoActor,
                     moved |-> FALSE]
    <3>1. request' = [request EXCEPT ![r] = q]
      BY <1>5, <2>2, Zenon DEF _enforce_sign_in
    <3>2. NoActor \in Actors
      BY DEF NoActor, Actors, Browsers
    <3>3. q \in Inside
      BY <3>2 DEF Inside
    <3>4. ~Guarded(q)
      BY <2>2 DEF Guarded
    <3> HIDE DEF q
    <3> QED
      BY <1>3, <3>1, <3>3, <3>4
  <2> QED
    BY <2>1, <2>2
<1>6. CASE ~(AUTH_ENFORCED => route \in Public \/ user_for_session(p))
  <2>1. request' = request
    BY <1>6, Zenon DEF _enforce_sign_in
  <2> QED
    BY <1>4, <2>1
<1> QED
  BY <1>5, <1>6

LEMMA RequireKeeps ==
  ASSUME RoutesInv, NEW r \in Requests, require(r)
  PROVE  RoutesInv'
<1> DEFINE q == request[r]
           who == Account(q.from)
           next == [phase |-> "handler", route |-> q.route, from |-> q.from, actor |-> who,
                    moved |-> FALSE]
<1>1. UNCHANGED <<AUTH_ENFORCED, accounts, role, active, signedIn, outcomes>>
  BY DEF require, accountVars, deskVars
<1>2. AccountsThere' /\ OutcomesNameTheirWriter'
  BY <1>1 DEF RoutesInv, AccountsThere, OutcomesNameTheirWriter
<1>3. \A from : Account(from)' = Account(from)
  BY <1>1 DEF Account, user_for_session
<1>4. q \in AtDoor
  BY DEF require, RoutesInv, RequestsFit, Idle, AtDoor, Inside
<1>5. q.from \in Browsers /\ q.route \in DOMAIN Minimum
  BY <1>4 DEF AtDoor
<1>6. who \in Actors /\ (who.by = Nobody) = (who.as = Nobody)
  BY <1>5, AccountIs DEF RoutesInv
<1>7. CASE request' = [request EXCEPT ![r] = Idle]
  <2>1. RequestsFit'
    BY <1>1, <1>3, <1>7 DEF RoutesInv, RequestsFit, Closed, Guarded, Idle
  <2> QED
    BY <1>2, <2>1 DEF RoutesInv
<1>8. CASE request' = [request EXCEPT ![r] = next] /\ Admits(q.route, who, q.seen)
  <2>1. next \in Inside
    BY <1>5, <1>6 DEF Inside, Routes
  <2>2. next.route = q.route /\ next.from = q.from /\ next.actor = who
    OBVIOUS
  <2> HIDE DEF next, who
  <2>3. RequestsFit'
    <3> SUFFICES ASSUME NEW o \in Requests, Guarded(request'[o])
                 PROVE  LET n == request'[o]
                        IN  /\ ~n.moved => n.actor = Account(n.from)
                            /\ (n.actor.by = Nobody) = (n.actor.as = Nobody)
                            /\ Closed(n.route) =>
                                 n.actor.by # Nobody
                                 /\ outranks_or_equals(n.actor.as, Minimum[n.route])
      BY <1>1, <1>3, <1>8, <2>1 DEF RoutesInv, RequestsFit, Closed
    <3>1. CASE o # r
      BY <1>8, <3>1 DEF RoutesInv, RequestsFit
    <3>2. CASE o = r
      <4>1. request'[o] = next
        BY <1>8, <3>2 DEF RoutesInv, RequestsFit
      <4>2. next.actor = Account(next.from)
        BY <2>2 DEF who
      <4>3. Closed(next.route) =>
              next.actor.by # Nobody /\ outranks_or_equals(next.actor.as, Minimum[next.route])
        BY <1>8, <2>2 DEF Admits
      <4> QED
        BY <1>6, <2>2, <4>1, <4>2, <4>3
    <3> QED
      BY <3>1, <3>2
  <2> QED
    BY <1>2, <2>3 DEF RoutesInv
<1> QED
  BY <1>7, <1>8 DEF require

(* Whoever else goes on knows the account it acts for, or has been overtaken. *)
LEMMA FinishedKeeps ==
  ASSUME RoutesInv, NEW r \in Requests, Finished(r), AccountsThere', AUTH_ENFORCED' = AUTH_ENFORCED
  PROVE  RequestsFit'
<1>1. request \in [Requests -> {Idle} \cup AtDoor \cup Inside]
  BY DEF RoutesInv, RequestsFit
<1>2. DOMAIN request' = Requests /\ request' = [o \in Requests |-> request'[o]]
  BY DEF Finished
<1>3. ASSUME NEW o \in Requests
      PROVE  /\ request'[o] \in {Idle} \cup AtDoor \cup Inside
             /\ Guarded(request'[o]) =>
                  /\ ~request'[o].moved => request'[o].actor = Account(request[o].from)'
                  /\ (request'[o].actor.by = Nobody) = (request'[o].actor.as = Nobody)
                  /\ Closed(request[o].route)' =>
                       /\ request'[o].actor.by # Nobody
                       /\ outranks_or_equals(request'[o].actor.as, Minimum[request'[o].route])
  <2>1. CASE o = r \/ request[o].phase # "handler"
    <3> DEFINE rest == [request EXCEPT ![r] = Idle]
    <3>1. (o = r => rest[o] = Idle) /\ (o # r => rest[o] = request[o])
      BY <1>1
    <3>2. request'[o] = rest[o]
      BY <2>1, Zenon DEF Finished
    <3> HIDE DEF rest
    <3>3. request'[o] = Idle \/ (request'[o] = request[o] /\ request[o].phase # "handler")
      BY <2>1, <3>1, <3>2
    <3> QED
      BY <1>1, <3>3 DEF Guarded, Idle
  <2>2. CASE ~(o = r \/ request[o].phase # "handler")
    <3>1. PICK q \in Inside : q = request[o]
      BY <1>1, <2>2 DEF Idle, AtDoor
    <3>2. PICK m \in BOOLEAN : m <=> q.moved \/ \E p \in People : p = q.from /\ Account(p)' # Account(p)
      OBVIOUS
    <3>3. request'[o] = [q EXCEPT !.moved = m]
      BY <2>2, <3>1, <3>2 DEF Finished
    <3>4. PICK n : n = request'[o] /\ n = [q EXCEPT !.moved = m]
      BY <3>3
    <3>5. /\ n \in Inside /\ n.phase = q.phase /\ n.route = q.route /\ n.from = q.from
          /\ n.actor = q.actor /\ n.moved = m
      BY <3>4 DEF Inside
    <3>6. ASSUME Guarded(q), ~m PROVE q.actor = Account(q.from)'
      <4>1. q.actor = Account(q.from)
        BY <3>1, <3>2, <3>6 DEF RoutesInv, RequestsFit
      <4>2. CASE q.from \in People
        BY <3>2, <3>6, <4>1, <4>2
      <4>3. CASE q.from = Nobody
        <5>1. Account(q.from) = NoActor
          BY <4>3, AccountIs DEF RoutesInv, Browsers
        <5>2. Nobody \notin signedIn'
          BY RoutesAssumption DEF AccountsThere
        <5>3. Account(q.from)' = NoActor
          BY <4>3, <5>2 DEF Account, user_for_session
        <5> QED
          BY <4>1, <5>1, <5>3
      <4> QED
        BY <4>2, <4>3 DEF Inside, Browsers
    <3>7. Guarded(q) =>
            /\ (q.actor.by = Nobody) = (q.actor.as = Nobody)
            /\ Closed(q.route)' =>
                 q.actor.by # Nobody /\ outranks_or_equals(q.actor.as, Minimum[q.route])
      BY <3>1 DEF RoutesInv, RequestsFit, Closed
    <3>8. Guarded(n) => Guarded(q)
      BY <3>5 DEF Guarded
    <3> QED
      BY <3>4, <3>5, <3>6, <3>7, <3>8 DEF Account, user_for_session, Closed
  <2> QED
    BY <2>1, <2>2
<1> QED
  BY <1>2, <1>3 DEF RequestsFit

LEMMA HandlerKeepsAccounts ==
  ASSUME RoutesInv, NEW r \in Requests, Handler(r)
  PROVE  AccountsThere'
<1>1. AccountsThere
  BY DEF RoutesInv
<1>2. CASE UNCHANGED accountVars
  BY <1>1, <1>2 DEF AccountsThere, accountVars
<1>3. CASE auth_bootstrap(r)
  <2>1. CASE accounts = {}
    <3>1. /\ request[r].from \in People
          /\ accounts' = {request[r].from} /\ signedIn' = {request[r].from}
          /\ role' = [role EXCEPT ![request[r].from] = "admin"]
          /\ active' = [active EXCEPT ![request[r].from] = TRUE]
      BY <1>3, <2>1 DEF auth_bootstrap
    <3> QED
      BY <1>1, <3>1 DEF AccountsThere, Roles
  <2>2. CASE accounts # {}
    BY <1>2, <1>3, <2>2 DEF auth_bootstrap
  <2> QED
    BY <2>1, <2>2
<1>4. CASE auth_login(r)
  BY <1>1, <1>4 DEF AccountsThere, auth_login
<1>5. CASE auth_logout(r)
  BY <1>1, <1>5 DEF AccountsThere, auth_logout
<1>6. CASE auth_create_user(r)
  <2>1. PICK p \in People, as \in Roles :
          \/ UNCHANGED accountVars
          \/ /\ accounts' = accounts \cup {p} /\ signedIn' = signedIn
             /\ role' = [role EXCEPT ![p] = as] /\ active' = [active EXCEPT ![p] = TRUE]
    BY <1>6 DEF auth_create_user
  <2> QED
    BY <1>1, <1>2, <2>1 DEF AccountsThere
<1>7. CASE auth_update_user(r)
  <2>1. PICK p \in accounts, as \in Roles, on \in BOOLEAN :
          \/ UNCHANGED accountVars
          \/ /\ accounts' = accounts /\ signedIn' = IF on THEN signedIn ELSE signedIn \ {p}
             /\ role' = [role EXCEPT ![p] = as] /\ active' = [active EXCEPT ![p] = on]
    BY <1>7, Zenon DEF auth_update_user
  <2> QED
    BY <1>1, <1>2, <2>1 DEF AccountsThere
<1>8. CASE \/ post_quote(r) \/ post_ledger_outcome(r) \/ delete_ledger_live(r)
           \/ post_alert_watch(r) \/ delete_alert_watch(r)
           \/ post_alerts_evaluate(r) \/ post_alerts_read(r) \/ Reads(r)
  BY <1>2, <1>8 DEF post_quote, post_ledger_outcome, delete_ledger_live, post_alert_watch,
     delete_alert_watch, post_alerts_evaluate, post_alerts_read, Reads
<1> QED
  BY <1>3, <1>4, <1>5, <1>6, <1>7, <1>8 DEF Handler

LEMMA HandlerKeeps ==
  ASSUME RoutesInv, NEW r \in Requests, Handler(r)
  PROVE  RoutesInv'
<1>1. Finished(r) /\ AUTH_ENFORCED' = AUTH_ENFORCED
  BY DEF Handler, auth_bootstrap, auth_login, auth_logout, auth_create_user, auth_update_user,
     post_quote, post_ledger_outcome, delete_ledger_live, post_alert_watch, delete_alert_watch,
     post_alerts_evaluate, post_alerts_read, Reads
<1>2. AccountsThere'
  BY HandlerKeepsAccounts
<1>3. RequestsFit'
  BY <1>1, <1>2, FinishedKeeps
<1>4. outcomes' \subseteq outcomes \/ post_ledger_outcome(r)
  BY DEF Handler, auth_bootstrap, auth_login, auth_logout, auth_create_user, auth_update_user,
     post_quote, delete_ledger_live, post_alert_watch, delete_alert_watch,
     post_alerts_evaluate, post_alerts_read, Reads, deskVars
<1>5. ASSUME outcomes' \subseteq outcomes PROVE OutcomesNameTheirWriter'
  BY <1>1, <1>5 DEF RoutesInv, OutcomesNameTheirWriter
<1>6. ASSUME post_ledger_outcome(r) PROVE OutcomesNameTheirWriter'
  <2> DEFINE o == request[r].actor
  <2>1. outcomes' \subseteq outcomes \cup {o} /\ Guarded(request[r]) /\ request[r].route = "outcome"
    BY <1>6 DEF post_ledger_outcome, Handles, Guarded, Minimum, _attributed
  <2>2. /\ (o.by = Nobody) = (o.as = Nobody)
        /\ AUTH_ENFORCED => o.by # Nobody /\ outranks_or_equals(o.as, Minimum["outcome"])
    BY <2>1 DEF RoutesInv, RequestsFit, Closed
  <2>3. Minimum["outcome"] = "chartering_manager"
    BY DEF Minimum
  <2> HIDE DEF o
  <2> QED
    BY <1>1, <2>1, <2>2, <2>3 DEF RoutesInv, OutcomesNameTheirWriter
<1> QED
  BY <1>2, <1>3, <1>4, <1>5, <1>6 DEF RoutesInv

LEMMA ExpireKeeps ==
  ASSUME RoutesInv, Expire
  PROVE  RoutesInv'
<1>1. PICK p \in signedIn :
        /\ signedIn' = signedIn \ {p}
        /\ request' = [o \in Requests |->
             IF request[o].phase # "handler" THEN request[o]
             ELSE [request[o] EXCEPT !.moved = @ \/ request[o].from = p]]
  BY DEF Expire
<1>2. UNCHANGED <<AUTH_ENFORCED, accounts, role, active, outcomes>>
  BY DEF Expire, deskVars
<1>3. AccountsThere' /\ OutcomesNameTheirWriter'
  BY <1>1, <1>2 DEF RoutesInv, AccountsThere, OutcomesNameTheirWriter
<1>4. ASSUME NEW o \in Requests
      PROVE  /\ request'[o] \in {Idle} \cup AtDoor \cup Inside
             /\ Guarded(request'[o]) =>
                  /\ ~request'[o].moved => request'[o].actor = Account(request[o].from)'
                  /\ (request'[o].actor.by = Nobody) = (request'[o].actor.as = Nobody)
                  /\ Closed(request[o].route)' =>
                       /\ request'[o].actor.by # Nobody
                       /\ outranks_or_equals(request'[o].actor.as, Minimum[request'[o].route])
  <2>1. CASE request[o].phase # "handler"
    BY <1>1, <2>1 DEF RoutesInv, RequestsFit, Guarded
  <2>2. CASE request[o].phase = "handler"
    <3>1. PICK q \in Inside : q = request[o]
      BY <2>2 DEF RoutesInv, RequestsFit, Idle, AtDoor
    <3>2. PICK m \in BOOLEAN : m <=> q.moved \/ q.from = p
      OBVIOUS
    <3>3. PICK n : n = request'[o] /\ n = [q EXCEPT !.moved = m]
      BY <1>1, <2>2, <3>1, <3>2
    <3>4. /\ n \in Inside /\ n.phase = q.phase /\ n.route = q.route /\ n.from = q.from
          /\ n.actor = q.actor /\ n.moved = m
      BY <3>3 DEF Inside
    <3>5. ASSUME Guarded(q), ~m PROVE q.actor = Account(q.from)'
      <4>1. q.actor = Account(q.from) /\ q.from # p
        BY <3>1, <3>2, <3>5 DEF RoutesInv, RequestsFit
      <4> QED
        BY <1>1, <1>2, <4>1 DEF Account, user_for_session
    <3>6. Guarded(q) =>
            /\ (q.actor.by = Nobody) = (q.actor.as = Nobody)
            /\ Closed(q.route)' =>
                 q.actor.by # Nobody /\ outranks_or_equals(q.actor.as, Minimum[q.route])
      BY <1>2, <3>1 DEF RoutesInv, RequestsFit, Closed
    <3>7. Guarded(n) => Guarded(q)
      BY <3>4 DEF Guarded
    <3> QED
      BY <3>3, <3>4, <3>5, <3>6, <3>7 DEF Account, user_for_session, Closed
  <2> QED
    BY <2>1, <2>2
<1>5. DOMAIN request' = Requests /\ request' = [o \in Requests |-> request'[o]]
  BY <1>1
<1>6. RequestsFit'
  BY <1>4, <1>5 DEF RequestsFit
<1> QED
  BY <1>3, <1>6 DEF RoutesInv

LEMMA RoutesInvHolds == RoutesSpec => []RoutesInv
<1>1. RoutesInit => RoutesInv
  BY DEF RoutesInit, RoutesInv, AccountsThere, RequestsFit, OutcomesNameTheirWriter, Guarded,
     Idle, Roles
<1>2. RoutesInv /\ [RoutesNext]_routesVars => RoutesInv'
  <2> SUFFICES ASSUME RoutesInv, [RoutesNext]_routesVars PROVE RoutesInv'
    OBVIOUS
  <2>1. ASSUME NEW r \in Requests, NEW route \in Callers[r], NEW p \in Browsers,
               _enforce_sign_in(r, route, p)
        PROVE  RoutesInv'
    <3>1. route \in Routes
      BY RoutesAssumption
    <3> QED
      BY <2>1, <3>1, SignInKeeps
  <2>2. CASE UNCHANGED routesVars
    BY <2>2 DEF routesVars, accountVars, deskVars, RoutesInv, AccountsThere, RequestsFit,
       OutcomesNameTheirWriter, Closed, Account, user_for_session
  <2> QED
    BY <2>1, <2>2, RequireKeeps, HandlerKeeps, ExpireKeeps DEF RoutesNext, Browsers
<1> QED
  BY <1>1, <1>2, PTL DEF RoutesSpec

(***************************************************************************)
(* What is done in somebody's name was done by them, at their rank: an     *)
(* outcome names an account that ranked, and a handler that runs has the   *)
(* rank at the moment unless the account was changed since its dependency  *)
(* looked, whatever else signs in, demotes and expires meanwhile.          *)
(* (backend/main.py: require_role and the handlers)                        *)
(***************************************************************************)
THEOREM ActionsStayTheirActors == RoutesSpec => []ActionsAreTheirActors
<1>1. RoutesInv => ActionsAreTheirActors
  <2> SUFFICES ASSUME RoutesInv PROVE ActionsAreTheirActors
    OBVIOUS
  <2> SUFFICES ASSUME NEW r \in Requests, request[r].phase = "handler", ~request[r].moved,
                      request[r].route \in DOMAIN Minimum, Closed(request[r].route)
               PROVE  /\ user_for_session(request[r].from)
                      /\ outranks_or_equals(role[request[r].from], Minimum[request[r].route])
    BY DEF RoutesInv, ActionsAreTheirActors, RankIsReadAfresh
  <2>1. PICK q \in Inside : q = request[r]
    BY DEF RoutesInv, RequestsFit, Idle, AtDoor
  <2>2. /\ q.actor = Account(q.from) /\ q.actor.by # Nobody
        /\ outranks_or_equals(q.actor.as, Minimum[q.route])
    BY <2>1 DEF RoutesInv, RequestsFit, Guarded
  <2>3. q.from \in Browsers
    BY DEF Inside
  <2>4. user_for_session(q.from) /\ q.actor.as = role[q.from]
    BY <2>2, <2>3, AccountIs DEF RoutesInv
  <2> QED
    BY <2>1, <2>2, <2>4
<1> QED
  BY <1>1, RoutesInvHolds, PTL

(***************************************************************************)
(* Accounts change hands by an administrator's request, or by the first    *)
(* account being made, on a closed desk and on an open one.                *)
(***************************************************************************)
THEOREM AccountsAreTheAdmins == RoutesSpec => OnlyAdminsChangeAccounts
<1>1. RoutesInv /\ [RoutesNext]_routesVars =>
        [<<accounts, role, active>>' # <<accounts, role, active>> =>
           \/ accounts = {}
           \/ \E r \in Requests : request[r].phase = "handler" /\ request[r].actor.as = "admin"]_routesVars
  <2> SUFFICES ASSUME RoutesInv, RoutesNext, accounts # {},
                      <<accounts, role, active>>' # <<accounts, role, active>>
               PROVE  \E r \in Requests : request[r].phase = "handler" /\ request[r].actor.as = "admin"
    OBVIOUS
  <2>1. PICK r \in Requests : auth_create_user(r) \/ auth_update_user(r)
    BY DEF RoutesNext, _enforce_sign_in, require, Expire, Handler, auth_bootstrap, auth_login,
       auth_logout, post_quote, post_ledger_outcome, delete_ledger_live, post_alert_watch,
       delete_alert_watch, post_alerts_evaluate, post_alerts_read, Reads, accountVars
  <2>2. request[r].phase = "handler" /\ request[r].route \in {"create_user", "patch_user"}
    BY <2>1 DEF auth_create_user, auth_update_user, Handles
  <2>3. Guarded(request[r]) /\ Closed(request[r].route) /\ Minimum[request[r].route] = "admin"
    BY <2>2 DEF Guarded, Closed, Always, Minimum
  <2>4. /\ request[r].actor.by # Nobody
        /\ (request[r].actor.by = Nobody) = (request[r].actor.as = Nobody)
        /\ outranks_or_equals(request[r].actor.as, "admin")
    BY <2>3 DEF RoutesInv, RequestsFit
  <2>5. request[r].actor.as \in Roles
    <3>1. request[r] \in Inside
      BY <2>2 DEF RoutesInv, RequestsFit, Idle, AtDoor
    <3> QED
      BY <2>4, <3>1 DEF Inside, Actors
  <2>6. request[r].actor.as = "admin"
    BY <2>4, <2>5 DEF outranks_or_equals, RANK, Roles
  <2> QED
    BY <2>2, <2>6
<1> QED
  BY <1>1, RoutesInvHolds, PTL DEF RoutesSpec, OnlyAdminsChangeAccounts

-----------------------------------------------------------------------------
(***************************************************************************)
(* The radar scenes (SceneHarvest), for any boxes and scenes, any size of  *)
(* product, pages and runs of any number and a stop at any step.           *)
(***************************************************************************)
ScenesSpec == ScenesInit /\ [][ScenesNext]_sceneVars

Picks     == {<<>>} \cup {<<s>> : s \in Scenes}
Searching == [op : {"search"}, box : 1 .. Len(Boxes), pages : Nat, listed : SUBSET Scenes,
              scenes : Seq(Scenes), pick : Picks]
SigningIn == [op : {"sign_in"}, pick : Picks]
Fetching  == [op : {"fetch"}, scene : Scenes]
Receiving == [op : {"receive"}, scene : Scenes, from : Nat]
Products  == [size : Nat, sound : BOOLEAN]

(* A search keeps its list without repetitions; what comes next is put     *)
(* where the file ends.                                                    *)
ListedOnce ==
  harvester.op = "search" =>
    /\ IsFiniteSet(harvester.listed) /\ Cardinality(harvester.listed) = Len(harvester.scenes)
    /\ Range(harvester.scenes) = harvester.listed

AtTheEnd ==
  harvester.op = "receive" /\ harvester.scene \notin spoilt =>
    harvester.from = file[harvester.scene].size

ScenesInv ==
  /\ harvester \in {AtRest} \cup Searching \cup SigningIn \cup Fetching \cup Receiving
  /\ file \in [Scenes -> Products]
  /\ notes.verified => notes.scene \in Scenes
  /\ ListedOnce /\ AtTheEnd /\ ResumedFilesAreWhole

\* The same set, listed without repetition.
LEMMA ListedIs ==
  ASSUME NEW S, IsFiniteSet(S)
  PROVE  /\ SetToSeq(S) \in Seq(S) /\ Len(SetToSeq(S)) = Cardinality(S)
         /\ Range(SetToSeq(S)) = S
<1> DEFINE n == Cardinality(S)
<1>1. n \in Nat
  BY FS_CardinalityType
<1>2. PICK f : f \in Bijection(1 .. n, S)
  BY FS_CardinalityType DEF ExistsBijection
<1>3. f \in [1 .. n -> S] /\ IsInjective(f)
  BY <1>2 DEF Bijection, Injection, Surjection
<1>4. SetToSeq(S) \in [1 .. n -> S] /\ IsInjective(SetToSeq(S))
  BY <1>3, Zenon DEF SetToSeq
<1> DEFINE g == SetToSeq(S)
<1> HIDE DEF n, g
<1>5. g \in Seq(S) /\ Len(g) = n /\ DOMAIN g = 1 .. n
  BY <1>1, <1>4 DEF g
<1>6. g \in Injection(1 .. n, S)
  BY <1>4 DEF g, Injection
<1>7. g \in Surjection(1 .. n, S)
  <2>1. 1 \in Int /\ n \in Int /\ (1 > n => n = 0) /\ n - 1 + 1 = n
    BY <1>1
  <2>2. Cardinality(1 .. n) = n
    BY <2>1, FS_Interval
  <2>3. Cardinality(1 .. n) = Cardinality(S)
    BY <2>2 DEF n
  <2> QED
    BY <1>6, <2>3, FS_Injection
<1>8. Range(g) = S
  BY <1>5, <1>7 DEF Surjection, Range
<1> QED
  BY <1>5, <1>8 DEF g, n

\* The list goes on with what is new of a page.
LEMMA ListGoesOn ==
  ASSUME NEW listed \in SUBSET Scenes, NEW scenes \in Seq(Scenes), IsFiniteSet(listed),
         Cardinality(listed) = Len(scenes), Range(scenes) = listed,
         NEW page \in SUBSET Scenes, IsFiniteSet(page)
  PROVE  LET all == scenes \o New(scenes, page)
         IN  /\ all \in Seq(Scenes) /\ Range(all) = listed \cup page
             /\ IsFiniteSet(listed \cup page) /\ Cardinality(listed \cup page) = Len(all)
<1> DEFINE fresh == page \ listed
           more == SetToSeq(fresh)
<1>1. IsFiniteSet(fresh)
  <2>1. fresh \in SUBSET page
    OBVIOUS
  <2> HIDE DEF fresh
  <2> QED
    BY <2>1, FS_Subset
<1>2. more \in Seq(fresh) /\ Len(more) = Cardinality(fresh) /\ Range(more) = fresh
  <2> HIDE DEF fresh
  <2> QED
    BY <1>1, ListedIs
<1>3. New(scenes, page) = more
  BY DEF New
<1>4. IsFiniteSet(listed \cup fresh)
      /\ Cardinality(listed \cup fresh) = Cardinality(listed) + Cardinality(fresh)
  <2>1. listed \cap fresh = {}
    OBVIOUS
  <2> HIDE DEF fresh
  <2>2. Cardinality(listed \cap fresh) = 0
    BY <2>1, FS_EmptySet
  <2>3. Cardinality(listed) \in Nat /\ Cardinality(fresh) \in Nat
    BY <1>1, FS_CardinalityType
  <2>4. /\ IsFiniteSet(listed \cup fresh)
        /\ Cardinality(listed \cup fresh)
             = Cardinality(listed) + Cardinality(fresh) - Cardinality(listed \cap fresh)
    BY <1>1, FS_Union
  <2> QED
    BY <2>2, <2>3, <2>4
<1>5. listed \cup fresh = listed \cup page
  OBVIOUS
<1>6. fresh \subseteq Scenes
  OBVIOUS
<1> HIDE DEF fresh, more
<1>7. more \in Seq(Scenes)
  BY <1>2, <1>6
<1>8. Range(scenes \o more) = Range(scenes) \cup Range(more)
  BY <1>7, RangeConcatenation
<1>9. scenes \o more \in Seq(Scenes) /\ Len(scenes \o more) = Len(scenes) + Len(more)
  BY <1>7
<1>10. Range(scenes \o more) = listed \cup page
  BY <1>2, <1>5, <1>8
<1>11. /\ IsFiniteSet(listed \cup page)
       /\ Cardinality(listed \cup page) = Len(scenes \o more)
  BY <1>2, <1>4, <1>5, <1>9
<1> QED
  BY <1>3, <1>9, <1>10, <1>11

LEMMA BoxesHold ==
  /\ Scenes \subseteq Nat
  /\ \A i \in 1 .. Len(Boxes) : Boxes[i] \in SUBSET Scenes /\ IsFiniteSet(Boxes[i])
  /\ 1 \in 1 .. Len(Boxes)
<1>1. Boxes \in Seq(SUBSET Nat) /\ DOMAIN Boxes = 1 .. Len(Boxes) /\ Len(Boxes) \in Nat
  BY ScenesAssumption
<1>2. \A i \in 1 .. Len(Boxes) : Boxes[i] \in SUBSET Nat
  BY <1>1
<1>3. Len(Boxes) # 0
  BY <1>1, ScenesAssumption
<1> QED
  BY <1>1, <1>2, <1>3, ScenesAssumption DEF Scenes

LEMMA LatestIsFound ==
  ASSUME NEW all \in Seq(Scenes), IsFiniteSet(Range(all)), NEW taken \in Picks
  PROVE  Latest(all, taken) \in Picks
<1> DEFINE S == Range(all)
<1>1. S \subseteq Scenes
  BY RangeOfSeq
<1>2. CASE all # <<>>
  <2>1. S # {}
    BY <1>2 DEF Range
  <2> HIDE DEF S
  <2>2. S \subseteq Int
    <3>1. Scenes \subseteq Nat
      BY BoxesHold
    <3> QED
      BY <1>1, <3>1
  <2>3. \E m \in S : \A x \in S : m >= x
    BY <2>1, <2>2, FiniteHasMax DEF S
  <2>4. Max(S) \in S
    BY <2>3 DEF Max
  <2>5. <<Max(S)>> \in Picks
    BY <1>1, <2>4 DEF Picks
  <2> QED
    BY <2>5 DEF S, Latest
<1> QED
  BY <1>2 DEF Latest

LEMMA SearchKeeps ==
  ASSUME ScenesInv, search_scenes
  PROVE  ScenesInv'
<1>1. PICK h \in Searching : h = harvester
  BY DEF ScenesInv, search_scenes, AtRest, SigningIn, Fetching, Receiving
<1>2. PICK page \in SUBSET Boxes[h.box], more \in BOOLEAN :
        LET all  == h.scenes \o New(h.scenes, page)
            pick == Latest(all, h.pick)
        IN  harvester' =
              IF more THEN [h EXCEPT !.pages = @ + 1, !.scenes = all, !.listed = h.listed \cup page]
              ELSE IF h.box < Len(Boxes)
              THEN [op |-> "search", box |-> h.box + 1, pages |-> 0, listed |-> {},
                    scenes |-> <<>>, pick |-> pick]
              ELSE [op |-> "sign_in", pick |-> pick]
  BY <1>1, Zenon DEF search_scenes
<1>3. UNCHANGED <<file, notes, spoilt>>
  BY DEF search_scenes
<1> DEFINE all  == h.scenes \o New(h.scenes, page)
           pick == Latest(all, h.pick)
<1>4. /\ h.box \in 1 .. Len(Boxes) /\ h.pages \in Nat /\ h.listed \in SUBSET Scenes
      /\ h.scenes \in Seq(Scenes) /\ h.pick \in Picks /\ h.op = "search"
  BY DEF Searching
<1>5. page \in SUBSET Scenes /\ IsFiniteSet(page)
  <2>1. IsFiniteSet(Boxes[h.box]) /\ Boxes[h.box] \in SUBSET Scenes
    BY <1>4, BoxesHold
  <2> QED
    BY <2>1, FS_Subset
<1>6. /\ IsFiniteSet(h.listed) /\ Cardinality(h.listed) = Len(h.scenes)
      /\ Range(h.scenes) = h.listed
  BY <1>1, <1>4 DEF ScenesInv, ListedOnce
<1>7. /\ all \in Seq(Scenes) /\ Range(all) = h.listed \cup page
      /\ IsFiniteSet(h.listed \cup page) /\ Cardinality(h.listed \cup page) = Len(all)
  BY <1>4, <1>5, <1>6, ListGoesOn
<1>8. pick \in Picks
  <2> HIDE DEF all
  <2> QED
    BY <1>4, <1>7, LatestIsFound
<1>9. AtTheEnd' /\ ResumedFilesAreWhole' /\ (file \in [Scenes -> Products])'
      /\ (notes.verified => notes.scene \in Scenes)'
  <2>1. harvester'.op # "receive"
    BY <1>2, <1>4
  <2> QED
    BY <1>3, <2>1 DEF ScenesInv, AtTheEnd, ResumedFilesAreWhole
<1> HIDE DEF all, pick
<1>10. CASE more
  <2> DEFINE g == [h EXCEPT !.pages = @ + 1, !.scenes = all, !.listed = h.listed \cup page]
  <2>1. harvester' = g
    BY <1>2, <1>10 DEF all
  <2>2. /\ g \in Searching /\ g.op = "search" /\ g.listed = h.listed \cup page
        /\ g.scenes = all
    <3>1. h.pages + 1 \in Nat /\ h.listed \cup page \in SUBSET Scenes /\ all \in Seq(Scenes)
      BY <1>4, <1>5, <1>7
    <3> QED
      BY <3>1 DEF Searching
  <2> HIDE DEF g
  <2> QED
    BY <1>7, <1>9, <2>1, <2>2 DEF ScenesInv, ListedOnce
<1>11. CASE ~more /\ h.box < Len(Boxes)
  <2> DEFINE g == [op |-> "search", box |-> h.box + 1, pages |-> 0, listed |-> {},
                   scenes |-> <<>>, pick |-> pick]
  <2>1. harvester' = g
    BY <1>2, <1>11 DEF all, pick
  <2>2. g \in Searching
    <3>1. h.box + 1 \in 1 .. Len(Boxes) /\ <<>> \in Seq(Scenes) /\ {} \in SUBSET Scenes
      BY <1>4, <1>11, BoxesHold
    <3> QED
      BY <1>8, <3>1 DEF Searching
  <2>3. IsFiniteSet({}) /\ Cardinality({}) = 0 /\ Len(<<>>) = 0
    BY FS_EmptySet
  <2>4. Range(<<>>) = {}
    BY DEF Range
  <2> QED
    BY <1>9, <2>1, <2>2, <2>3, <2>4 DEF ScenesInv, ListedOnce
<1>12. CASE ~more /\ ~(h.box < Len(Boxes))
  <2>1. harvester' = [op |-> "sign_in", pick |-> pick]
    BY <1>2, <1>12 DEF all, pick
  <2> QED
    BY <1>8, <1>9, <2>1 DEF ScenesInv, ListedOnce, SigningIn
<1> QED
  BY <1>10, <1>11, <1>12

LEMMA ScenesStart ==
  ASSUME ScenesInv, Start
  PROVE  ScenesInv'
<1> DEFINE g == [op |-> "search", box |-> 1, pages |-> 0, listed |-> {}, scenes |-> <<>>,
                 pick |-> <<>>]
<1>1. harvester' = g /\ UNCHANGED <<file, notes, spoilt>>
  BY DEF Start
<1>2. g \in Searching
  <2>1. <<>> \in Seq(Scenes) /\ {} \in SUBSET Scenes /\ 1 \in 1 .. Len(Boxes) /\ <<>> \in Picks
    BY BoxesHold DEF Picks
  <2> QED
    BY <2>1 DEF Searching
<1>3. IsFiniteSet({}) /\ Cardinality({}) = 0 /\ Len(<<>>) = 0
  BY FS_EmptySet
<1>4. Range(<<>>) = {}
  BY DEF Range
<1> QED
  BY <1>1, <1>2, <1>3, <1>4 DEF ScenesInv, ListedOnce, AtTheEnd, ResumedFilesAreWhole

\* A run that is over, with its notes or without.
LEMMA RunOver ==
  ASSUME ScenesInv, harvester' = AtRest, UNCHANGED <<file, spoilt>>,
         \/ UNCHANGED notes
         \/ ~notes'.verified
         \/ notes'.scene \in Scenes /\ (notes'.scene \notin spoilt => file[notes'.scene] = Whole)
  PROVE  ScenesInv'
BY DEF ScenesInv, ListedOnce, AtTheEnd, ResumedFilesAreWhole, AtRest

LEMMA SignInKeepsScenes ==
  ASSUME ScenesInv, _get_access_token
  PROVE  ScenesInv'
<1>1. UNCHANGED <<file, spoilt>>
  BY DEF _get_access_token
<1>2. CASE Note(FALSE, FALSE, -1) \/ Note(TRUE, FALSE, -1)
  BY <1>1, <1>2, RunOver DEF Note
<1>3. CASE harvester.pick # <<>> /\ harvester' = [op |-> "fetch", scene |-> harvester.pick[1]]
           /\ UNCHANGED notes
  <2>1. harvester.pick \in Picks
    BY DEF _get_access_token, ScenesInv, AtRest, Searching, SigningIn, Fetching, Receiving
  <2>2. harvester.pick[1] \in Scenes
    BY <1>3, <2>1 DEF Picks
  <2>3. harvester' \in Fetching /\ harvester'.op = "fetch"
    BY <1>3, <2>2 DEF Fetching
  <2> QED
    BY <1>1, <1>3, <2>3 DEF ScenesInv, ListedOnce, AtTheEnd, ResumedFilesAreWhole
<1> QED
  BY <1>2, <1>3 DEF _get_access_token

LEMMA FetchKeeps ==
  ASSUME ScenesInv, fetch_scene
  PROVE  ScenesInv'
<1>1. PICK s \in Scenes : s = harvester.scene
  BY DEF fetch_scene, ScenesInv, AtRest, Searching, SigningIn, Fetching, Receiving
<1>2. PICK x \in Products : x = file[s]
  BY <1>1 DEF ScenesInv
<1>3. x.size \in Nat /\ x.sound \in BOOLEAN /\ x = [size |-> x.size, sound |-> x.sound]
  BY DEF Products
<1>4. Chunks \in Nat \ {0}
  BY ScenesAssumption
<1>5. s \notin spoilt => x.sound /\ x.size <= Chunks
  BY <1>1, <1>2 DEF ScenesInv, ResumedFilesAreWhole
<1>6. CASE x.size >= Chunks /\ Note(TRUE, TRUE, s) /\ UNCHANGED <<file, spoilt>>
  <2>1. s \notin spoilt => x = Whole
    BY <1>3, <1>4, <1>5, <1>6 DEF Whole
  <2> QED
    BY <1>2, <1>6, <2>1, RunOver DEF Note
<1>7. CASE Note(TRUE, FALSE, -1) /\ UNCHANGED <<file, spoilt>>
  BY <1>7, RunOver DEF Note
<1>8. CASE \E from \in {x.size, 0} :
             /\ x.size < Chunks \/ from = 0
             /\ harvester' = [op |-> "receive", scene |-> s, from |-> from]
             /\ file' = [file EXCEPT ![s] = IF x.size = 0 THEN NoFile ELSE @]
             /\ spoilt' = IF from # x.size THEN spoilt \cup {s} ELSE spoilt
             /\ UNCHANGED notes
  <2>1. PICK from \in {x.size, 0} :
             /\ x.size < Chunks \/ from = 0
             /\ harvester' = [op |-> "receive", scene |-> s, from |-> from]
             /\ file' = [file EXCEPT ![s] = IF x.size = 0 THEN NoFile ELSE @]
             /\ spoilt' = IF from # x.size THEN spoilt \cup {s} ELSE spoilt
             /\ UNCHANGED notes
    BY <1>8
  <2>2. from \in Nat
    BY <1>3
  <2>3. harvester' \in Receiving /\ harvester'.op = "receive" /\ harvester'.scene = s
        /\ harvester'.from = from
    BY <2>1, <2>2 DEF Receiving
  <2>4. PICK y : y = IF x.size = 0 THEN NoFile ELSE x
    OBVIOUS
  <2>5. file' = [file EXCEPT ![s] = y]
    BY <1>2, <2>1, <2>4
  <2>6. y \in Products /\ y.size = x.size /\ (x.sound => y.sound)
        /\ (x = Whole => y = Whole)
    <3>1. NoFile \in Products /\ NoFile.size = 0 /\ NoFile.sound
      BY DEF NoFile, Products
    <3>2. CASE x.size = 0
      <4>1. y = NoFile
        BY <2>4, <3>2
      <4>2. Whole.size = Chunks
        BY DEF Whole
      <4>3. x # Whole
        BY <1>4, <3>2, <4>2
      <4> QED
        BY <3>1, <3>2, <4>1, <4>3
    <3>3. CASE x.size # 0
      <4>1. y = x
        BY <2>4, <3>3
      <4> QED
        BY <4>1
    <3> QED
      BY <3>2, <3>3
  <2>7. spoilt \subseteq spoilt'
    BY <2>1
  <2>8. file' \in [Scenes -> Products] /\ file'[s] = y
        /\ \A o \in Scenes \ {s} : file'[o] = file[o]
    BY <2>5, <2>6 DEF ScenesInv
  <2>9. s \notin spoilt' => y.sound /\ y.size <= Chunks /\ from = y.size
    BY <1>5, <2>1, <2>6, <2>7
  <2>10. AtTheEnd' /\ ListedOnce'
    BY <2>3, <2>8, <2>9 DEF AtTheEnd, ListedOnce
  <2>11. \A o \in Scenes : o \notin spoilt => file[o].sound /\ file[o].size <= Chunks
    BY DEF ScenesInv, ResumedFilesAreWhole
  <2>12. \A o \in Scenes : o \notin spoilt' => file'[o].sound /\ file'[o].size <= Chunks
    BY <2>7, <2>8, <2>9, <2>11
  <2>13. notes.verified => notes.scene \in Scenes
    BY DEF ScenesInv
  <2>14. notes.verified /\ notes.scene \notin spoilt' => file'[notes.scene] = Whole
    <3>1. notes.verified /\ notes.scene \notin spoilt => file[notes.scene] = Whole
      BY DEF ScenesInv, ResumedFilesAreWhole
    <3> QED
      BY <1>2, <2>6, <2>7, <2>8, <2>13, <3>1
  <2>15. ResumedFilesAreWhole'
    BY <2>1, <2>12, <2>14 DEF ResumedFilesAreWhole
  <2> QED
    BY <2>1, <2>3, <2>8, <2>10, <2>13, <2>15 DEF ScenesInv
<1> QED
  BY <1>1, <1>2, <1>6, <1>7, <1>8 DEF fetch_scene, Complete, Place

LEMMA ReceiveKeeps ==
  ASSUME ScenesInv, Receive
  PROVE  ScenesInv'
<1>1. PICK h \in Receiving : h = harvester
  BY DEF Receive, ScenesInv, AtRest, Searching, SigningIn, Fetching
<1>2. h.scene \in Scenes /\ h.from \in Nat /\ h.op = "receive"
  BY DEF Receiving
<1>3. PICK x \in Products : x = file[h.scene]
  BY <1>2 DEF ScenesInv
<1>4. x.size \in Nat /\ x.sound \in BOOLEAN /\ x = [size |-> x.size, sound |-> x.sound]
  BY DEF Products
<1>5. Chunks \in Nat \ {0}
  BY ScenesAssumption
<1>6. h.scene \notin spoilt => x.sound /\ x.size <= Chunks /\ h.from = x.size
  BY <1>1, <1>2, <1>3 DEF ScenesInv, ResumedFilesAreWhole, AtTheEnd
<1>7. UNCHANGED spoilt
  BY DEF Receive
<1>8. CASE h.from < Chunks
  <2> DEFINE y == [size |-> x.size + 1, sound |-> x.sound /\ x.size = h.from]
             g == [h EXCEPT !.from = @ + 1]
  <2>1. file' = [file EXCEPT ![h.scene] = y] /\ harvester' = g /\ UNCHANGED notes
    BY <1>1, <1>3, <1>8 DEF Receive
  <2>2. y \in Products /\ y.size = x.size + 1 /\ (y.sound <=> x.sound /\ x.size = h.from)
    <3>1. PICK b \in BOOLEAN : b = (x.sound /\ x.size = h.from)
      OBVIOUS
    <3>2. PICK n \in Nat : n = x.size + 1
      BY <1>4
    <3>3. y = [size |-> n, sound |-> b]
      BY <3>1, <3>2
    <3>4. y \in Products /\ y.size = n /\ y.sound = b
      BY <3>3 DEF Products
    <3> QED
      BY <3>1, <3>2, <3>4
  <2>3. g \in Receiving /\ g.op = "receive" /\ g.scene = h.scene /\ g.from = h.from + 1
    <3>1. h.from + 1 \in Nat
      BY <1>2
    <3> QED
      BY <3>1 DEF Receiving
  <2> HIDE DEF y, g
  <2>4. file' \in [Scenes -> Products] /\ file'[h.scene] = y
        /\ \A o \in Scenes \ {h.scene} : file'[o] = file[o]
    BY <1>2, <2>1, <2>2 DEF ScenesInv
  <2>5. h.scene \notin spoilt => y.sound /\ y.size <= Chunks /\ g.from = y.size
    BY <1>2, <1>4, <1>5, <1>6, <1>8, <2>2, <2>3
  <2>6. AtTheEnd' /\ ListedOnce'
    BY <1>7, <2>1, <2>3, <2>4, <2>5 DEF AtTheEnd, ListedOnce
  <2>7. \A o \in Scenes : o \notin spoilt' => file'[o].sound /\ file'[o].size <= Chunks
    <3>1. \A o \in Scenes : o \notin spoilt => file[o].sound /\ file[o].size <= Chunks
      BY DEF ScenesInv, ResumedFilesAreWhole
    <3> QED
      BY <1>7, <2>4, <2>5, <3>1
  <2>8. notes.verified => notes.scene \in Scenes
    BY DEF ScenesInv
  <2>9. notes.verified /\ notes.scene \notin spoilt' => file'[notes.scene] = Whole
    <3>1. notes.verified /\ notes.scene \notin spoilt => file[notes.scene] = Whole
      BY DEF ScenesInv, ResumedFilesAreWhole
    <3>2. h.scene \notin spoilt => x # Whole
      BY <1>5, <1>6, <1>8 DEF Whole
    <3> QED
      BY <1>3, <1>7, <2>4, <2>8, <3>1, <3>2
  <2>10. ResumedFilesAreWhole'
    BY <2>1, <2>7, <2>9 DEF ResumedFilesAreWhole
  <2> QED
    BY <2>1, <2>3, <2>4, <2>6, <2>8, <2>10 DEF ScenesInv
<1>9. CASE ~(h.from < Chunks)
  <2>1. harvester' = AtRest /\ UNCHANGED file /\ notes'.scene = h.scene
    BY <1>1, <1>9 DEF Receive, Note
  <2>2. h.scene \notin spoilt => file[h.scene] = Whole
    <3>1. SUFFICES ASSUME h.scene \notin spoilt PROVE x = Whole
      BY <1>3
    <3>2. x.sound = TRUE
      BY <1>4, <1>6, <3>1
    <3>3. x.size = Chunks
      BY <1>2, <1>4, <1>5, <1>6, <1>9, <3>1
    <3> QED
      BY <1>4, <3>2, <3>3 DEF Whole
  <2> QED
    BY <1>2, <1>7, <2>1, <2>2, RunOver
<1> QED
  BY <1>8, <1>9

(***************************************************************************)
(* What a harvest leaves behind is of the scenes found, each once, and of  *)
(* each the beginning of its file or all of it, across kills, cuts and     *)
(* runs, as long as the server answers a Range with the range.             *)
(* (data_builders/harvest_sentinel1.py: search_scenes, fetch_scene, main)  *)
(***************************************************************************)
THEOREM ScenesStayWhole == ScenesSpec => []ScenesAreWhole
<1>1. ScenesInit => ScenesInv
  BY ScenesAssumption DEF ScenesInit, ScenesInv, ListedOnce, AtTheEnd, ResumedFilesAreWhole,
     AtRest, NoFile, NoNotes, Products
<1>2. ScenesInv /\ [ScenesNext]_sceneVars => ScenesInv'
  <2> SUFFICES ASSUME ScenesInv, [ScenesNext]_sceneVars PROVE ScenesInv'
    OBVIOUS
  <2>1. CASE Stop
    BY <2>1, RunOver DEF Stop
  <2>2. CASE UNCHANGED sceneVars
    BY <2>2 DEF sceneVars, ScenesInv, ListedOnce, AtTheEnd, ResumedFilesAreWhole
  <2> QED
    BY <2>1, <2>2, ScenesStart, SearchKeeps, SignInKeepsScenes, FetchKeeps, ReceiveKeeps
       DEF ScenesNext, Stopped
<1>3. ScenesInv => ScenesAreWhole
  BY DEF ScenesInv, ScenesAreWhole, ListedOnce, ScenesFoundOnce
<1> QED
  BY <1>1, <1>2, <1>3, PTL DEF ScenesSpec

(***************************************************************************)
(* The vintages (VintageStore), for every set of contents, every length of *)
(* a week, and archive and harvest runs of any number, killed at any step. *)
(*                                                                         *)
(* Of the archive the invariant says that nothing in the manifest is later *)
(* than the run that is going, and that a run that is done has the last    *)
(* word; of the harvest, that the weeks it has written since it looked are *)
(* behind it.                                                              *)
(***************************************************************************)
VintageSpec == VintageInit /\ [][VintageNext]_vintageVars

Entries == [day : 0 .. LastDay, version : Versions]
Openings == [op : {"read"}, version : {NoSnapshot}, day : 0 .. LastDay]
Archivings == [op : {"write", "fill", "record", "done"}, version : Versions, day : 0 .. LastDay]

ManifestIsOfItsTime ==
  /\ today \in 0 .. LastDay /\ source \in Versions
  /\ manifest \in Seq(Entries)
  /\ archiver \in {NoRun} \cup Openings \cup Archivings
  /\ archiver # NoRun => archiver.day <= today
  /\ \A i \in DOMAIN manifest :
       manifest[i].day <= today /\ (archiver # NoRun => manifest[i].day <= archiver.day)

RecordedIsOnDisk ==
  /\ snapshot \in [Versions -> {"none", "half", "whole"}]
  /\ archiver.op \in {"record", "done"} => snapshot[archiver.version] # "none"
  /\ archiver.op = "done" =>
       manifest # <<>> /\ manifest[Len(manifest)].version = archiver.version

ManifestInv == ManifestIsOfItsTime /\ RecordedIsOnDisk

\* No entry names a file that is being filled, and half a file that nobody
\* fills was cut short by a kill.
FilesInv ==
  /\ \A i \in DOMAIN manifest : snapshot[manifest[i].version] # "none"
  /\ archiver.op = "fill" =>
       /\ snapshot[archiver.version] = "half" /\ archiver.version \notin cutShort
       /\ \A i \in DOMAIN manifest : manifest[i].version # archiver.version
  /\ cutShort \subseteq Versions
  /\ \A v \in cutShort : snapshot[v] = "half"
  /\ \A v \in Versions :
       snapshot[v] = "half" => v \in cutShort \/ (archiver.op = "fill" /\ archiver.version = v)

RowsAreOfTheirWeek ==
  /\ DOMAIN weeks \subseteq Int
  /\ \A w \in DOMAIN weeks : weeks[w] # {} /\ weeks[w] \subseteq DaysOf(w)

IsPast(h, written) ==
  \E week, last \in Int : \E skip, day, got :
    /\ h = [op |-> "fetch", week |-> week, last |-> last, skip |-> skip, day |-> day, got |-> got]
    /\ got \subseteq DaysOf(week)
    /\ \A w \in written : w \in skip \/ w < week

WrittenIsBehind == harvest # NoRun => IsPast(harvest, DOMAIN weeks)

WeeksInv == RowsAreOfTheirWeek /\ WrittenIsBehind

\* What the archiver is, told by what it is doing.
LEMMA ArchiverIs ==
  ASSUME ManifestIsOfItsTime
  PROVE  /\ archiver = NoRun => archiver.op = "idle"
         /\ archiver # NoRun => archiver.op # "idle" /\ archiver.day \in 0 .. LastDay
         /\ archiver.op = "read" => archiver \in Openings
         /\ archiver.op \in {"write", "fill", "record", "done"} => archiver \in Archivings
<1>1. CASE archiver = NoRun
  BY <1>1 DEF NoRun
<1>2. CASE archiver \in Openings
  BY <1>2 DEF Openings, NoRun
<1>3. CASE archiver \in Archivings
  BY <1>3 DEF Archivings, NoRun
<1> QED
  BY <1>1, <1>2, <1>3 DEF ManifestIsOfItsTime

\* A step that leaves manifest, archiver and files alone.
LEMMA ArchiveRests ==
  ASSUME ManifestInv, UNCHANGED <<manifest, archiver, snapshot>>,
         today' \in 0 .. LastDay, today <= today', source' \in Versions
  PROVE  ManifestInv'
<1>1. PICK t, u \in Int : t = today /\ u = today' /\ t <= u
  BY DEF ManifestInv, ManifestIsOfItsTime
<1>2. archiver # NoRun => archiver.day \in Int
  BY ArchiverIs DEF ManifestInv
<1>3. \A i \in DOMAIN manifest : manifest[i].day \in Int
  <2>1. manifest \in Seq(Entries)
    BY DEF ManifestInv, ManifestIsOfItsTime
  <2>2. \A i \in DOMAIN manifest : manifest[i] \in Entries
    BY <2>1
  <2> QED
    BY <2>2 DEF Entries
<1>4. archiver # NoRun => archiver.day <= today'
  BY <1>1, <1>2 DEF ManifestInv, ManifestIsOfItsTime
<1>5. \A i \in DOMAIN manifest : manifest[i].day <= today'
  BY <1>1, <1>3 DEF ManifestInv, ManifestIsOfItsTime
<1>6. ManifestIsOfItsTime'
  BY <1>4, <1>5 DEF ManifestInv, ManifestIsOfItsTime
<1> QED
  BY <1>6 DEF ManifestInv, RecordedIsOnDisk

\* A step that changes what the archiver is, and leaves the manifest alone.
LEMMA ArchiverMoves ==
  ASSUME ManifestInv, UNCHANGED <<today, source, manifest>>,
         snapshot' \in [Versions -> {"none", "half", "whole"}],
         archiver' \in {NoRun} \cup Openings \cup Archivings, archiver'.op # "done",
         archiver' # NoRun => archiver'.day = today \/ (archiver # NoRun /\ archiver'.day = archiver.day),
         archiver'.op = "record" => snapshot'[archiver'.version] # "none"
  PROVE  ManifestInv'
<1>1. archiver' # NoRun => archiver'.day <= today
  BY DEF ManifestInv, ManifestIsOfItsTime
<1>2. \A i \in DOMAIN manifest :
        manifest[i].day <= today /\ (archiver' # NoRun => manifest[i].day <= archiver'.day)
  BY DEF ManifestInv, ManifestIsOfItsTime
<1>3. ManifestIsOfItsTime'
  BY <1>1, <1>2 DEF ManifestInv, ManifestIsOfItsTime
<1>4. RecordedIsOnDisk'
  BY DEF RecordedIsOnDisk
<1> QED
  BY <1>3, <1>4 DEF ManifestInv

LEMMA SnapshotIsWritten ==
  ASSUME ManifestInv, WriteSnapshot
  PROVE  ManifestInv'
<1>1. PICK a \in Archivings : a = archiver
  BY ArchiverIs DEF ManifestInv, WriteSnapshot
<1>2. PICK v \in Versions : v = a.version
  BY <1>1 DEF Archivings
<1>3. a.op \in {"write", "fill"} /\ a.day \in 0 .. LastDay /\ a # NoRun
  BY <1>1 DEF WriteSnapshot, Archivings, NoRun
<1>4. snapshot \in [Versions -> {"none", "half", "whole"}]
  BY DEF ManifestInv, RecordedIsOnDisk
<1>5. UNCHANGED <<today, source, manifest>>
  BY DEF WriteSnapshot
<1>6. CASE snapshot' = [snapshot EXCEPT ![v] = "whole"] /\ archiver' = [a EXCEPT !.op = "record"]
  <2>1. PICK b \in Archivings : b = [a EXCEPT !.op = "record"]
    BY DEF Archivings
  <2>2. b.op = "record" /\ b.version = v /\ b.day = a.day
    BY <1>2, <2>1 DEF Archivings
  <2>3. snapshot'[v] = "whole"
    BY <1>4, <1>6
  <2> QED
    BY <1>1, <1>3, <1>4, <1>5, <1>6, <2>1, <2>2, <2>3, ArchiverMoves
<1>7. CASE snapshot[v] # "none" /\ archiver' = [a EXCEPT !.op = "record"] /\ UNCHANGED snapshot
  <2>1. PICK b \in Archivings : b = [a EXCEPT !.op = "record"]
    BY DEF Archivings
  <2>2. b.op = "record" /\ b.version = v /\ b.day = a.day
    BY <1>2, <2>1 DEF Archivings
  <2> QED
    BY <1>1, <1>3, <1>4, <1>5, <1>7, <2>1, <2>2, ArchiverMoves
<1>8. CASE snapshot' = [snapshot EXCEPT ![v] = "half"] /\ archiver' = [a EXCEPT !.op = "fill"]
  <2>1. PICK b \in Archivings : b = [a EXCEPT !.op = "fill"]
    BY DEF Archivings
  <2>2. b.op = "fill" /\ b.day = a.day
    BY <2>1 DEF Archivings
  <2> QED
    BY <1>1, <1>3, <1>4, <1>5, <1>8, <2>1, <2>2, ArchiverMoves
<1>9. \/ snapshot' = [snapshot EXCEPT ![v] = "whole"] /\ archiver' = [a EXCEPT !.op = "record"]
      \/ snapshot[v] # "none" /\ archiver' = [a EXCEPT !.op = "record"] /\ UNCHANGED snapshot
      \/ snapshot' = [snapshot EXCEPT ![v] = "half"] /\ archiver' = [a EXCEPT !.op = "fill"]
  BY <1>1, <1>2, <1>3 DEF WriteSnapshot
<1> QED
  BY <1>6, <1>7, <1>8, <1>9

LEMMA ManifestGrows ==
  ASSUME ManifestInv, AppendManifest
  PROVE  /\ ManifestInv'
         /\ archiver # NoRun /\ manifest \in Seq(Entries)
         /\ \E e \in Entries : manifest' = Append(manifest, e) /\ e.day = archiver.day
<1>1. PICK a \in Archivings : a = archiver
  BY ArchiverIs DEF ManifestInv, AppendManifest
<1>2. a.op = "record" /\ a.version \in Versions /\ a.day \in 0 .. LastDay /\ a # NoRun
  BY <1>1 DEF AppendManifest, Archivings, NoRun
<1>3. PICK e \in Entries : e = [day |-> a.day, version |-> a.version]
  BY <1>2 DEF Entries
<1>4. e.day = a.day /\ e.version = a.version
  BY <1>3
<1>5. PICK m \in Seq(Entries) : m = manifest
  BY DEF ManifestInv, ManifestIsOfItsTime
<1>6. manifest' = Append(m, e)
  BY <1>1, <1>3, <1>5 DEF AppendManifest, Recorded
<1>7. PICK b \in Archivings : b = [a EXCEPT !.op = "done"]
  BY DEF Archivings
<1>8. archiver' = b /\ b.op = "done" /\ b.version = a.version /\ b.day = a.day /\ b # NoRun
  BY <1>1, <1>7 DEF AppendManifest, Archivings, NoRun
<1>9. UNCHANGED <<today, source, snapshot>>
  BY DEF AppendManifest
<1>10. PICK n \in Nat : n = Len(m)
  OBVIOUS
<1> DEFINE g == Append(m, e)
<1>11. g \in Seq(Entries) /\ Len(g) = n + 1 /\ g[n + 1] = e /\ g # <<>>
       /\ \A i \in 1 .. n : g[i] = m[i]
  BY <1>10, AppendProperties
<1>12. DOMAIN g = 1 .. n + 1 /\ DOMAIN m = 1 .. n
  <2> HIDE DEF g
  <2> QED
    BY <1>10, <1>11
<1> HIDE DEF g
<1>13. a.day <= today
  BY <1>1, <1>2 DEF ManifestInv, ManifestIsOfItsTime
<1>14. \A i \in 1 .. n : m[i].day <= today /\ m[i].day <= a.day
  BY <1>1, <1>2, <1>5, <1>12 DEF ManifestInv, ManifestIsOfItsTime
<1>15. a.day <= a.day
  BY <1>2
<1>16. \A i \in DOMAIN g : g[i].day <= today /\ g[i].day <= b.day
  <2> SUFFICES ASSUME NEW i \in DOMAIN g PROVE g[i].day <= today /\ g[i].day <= a.day
    BY <1>8
  <2>1. CASE i \in 1 .. n
    BY <1>11, <1>14, <2>1
  <2>2. CASE i = n + 1
    BY <1>4, <1>11, <1>13, <1>15, <2>2
  <2> QED
    BY <1>12, <2>1, <2>2
<1>17. manifest' = g
  BY <1>6 DEF g
<1>18. ManifestIsOfItsTime'
  BY <1>8, <1>9, <1>11, <1>13, <1>16, <1>17 DEF ManifestInv, ManifestIsOfItsTime
<1>19. snapshot[a.version] # "none"
  BY <1>1, <1>2 DEF ManifestInv, RecordedIsOnDisk
<1>20. g[Len(g)].version = b.version
  BY <1>4, <1>8, <1>11
<1>21. RecordedIsOnDisk'
  BY <1>8, <1>9, <1>12, <1>17, <1>19, <1>20 DEF ManifestInv, RecordedIsOnDisk
<1> QED
  BY <1>1, <1>2, <1>4, <1>5, <1>6, <1>18, <1>21 DEF ManifestInv

\* A day by which something was seen has a latest entry.
LEMMA LastSeenIs ==
  ASSUME ManifestInv, NEW d \in 0 .. LastDay, SeenBy(d) # {}
  PROVE  Max(SeenBy(d)) \in SeenBy(d) /\ LastSeen(d) \in Versions
<1>1. PICK m \in Seq(Entries) : m = manifest
  BY DEF ManifestInv, ManifestIsOfItsTime
<1>2. PICK n \in Nat : n = Len(m)
  OBVIOUS
<1>3. PICK seen : seen = SeenBy(d) /\ seen \subseteq 1 .. n
  <2>1. DOMAIN m = 1 .. n
    BY <1>2
  <2> QED
    BY <1>1, <2>1 DEF SeenBy
<1>4. IsFiniteSet(seen)
  <2>1. IsFiniteSet(1 .. n)
    BY <1>2, FS_Interval
  <2> QED
    BY <1>3, <2>1, FS_Subset
<1>5. seen \subseteq Int
  BY <1>3
<1>6. \E t \in seen : \A x \in seen : t >= x
  BY <1>3, <1>4, <1>5, FiniteHasMax
<1>7. Max(seen) \in seen
  BY <1>6 DEF Max
<1>8. m[Max(seen)] \in Entries
  BY <1>2, <1>3, <1>7
<1> QED
  BY <1>1, <1>3, <1>7, <1>8 DEF LastSeen, Entries

\* The archive's answer for the day of the last entry is the last entry's.
LEMMA LastIsLatest ==
  ASSUME ManifestInv, FilesInv
  PROVE  ReobservationsCount
<1> SUFFICES ASSUME archiver.op = "done"
             PROVE  load_snapshot_as_of(archiver.day) =
                      IF archiver.version \in cutShort THEN Unreadable ELSE archiver.version
  BY DEF ReobservationsCount
<1>1. PICK m \in Seq(Entries) : m = manifest
  BY DEF ManifestInv, ManifestIsOfItsTime
<1>2. PICK n \in Nat : n = Len(m)
  OBVIOUS
<1>3. DOMAIN m = 1 .. n /\ m # <<>> /\ m[n].version = archiver.version
  BY <1>1, <1>2 DEF ManifestInv, RecordedIsOnDisk
<1>4. n # 0
  BY <1>2, <1>3
<1>5. archiver # NoRun
  BY DEF NoRun
<1>6. \A i \in DOMAIN m : m[i].day <= archiver.day
  BY <1>1, <1>5 DEF ManifestInv, ManifestIsOfItsTime
<1>7. SeenBy(archiver.day) = 1 .. n
  BY <1>1, <1>3, <1>6 DEF SeenBy
<1>8. Max(1 .. n) = n
  <2>1. n \in 1 .. n /\ \A i \in 1 .. n : n >= i
    BY <1>4
  <2>2. \A j \in 1 .. n : (\A i \in 1 .. n : j >= i) => j = n
    BY <1>4
  <2> QED
    BY <2>1, <2>2 DEF Max
<1>9. 1 .. n # {}
  <2>1. n \in 1 .. n
    BY <1>4
  <2> QED
    BY <2>1
<1>10. LastSeen(archiver.day) = archiver.version
  BY <1>1, <1>3, <1>7, <1>8 DEF LastSeen
<1>11. archiver.version \in Versions
  BY ArchiverIs DEF ManifestInv, Archivings
<1>12. PICK left \in {"half", "whole"} : left = snapshot[archiver.version]
  BY <1>11 DEF ManifestInv, RecordedIsOnDisk
<1>13. archiver.version \in cutShort <=> left = "half"
  BY <1>11, <1>12 DEF FilesInv
<1> QED
  BY <1>7, <1>9, <1>10, <1>12, <1>13 DEF load_snapshot_as_of

\* The file of an entry stays what it is.
LEMMA FilesOfEntriesStay ==
  ASSUME ManifestInv, FilesInv,
         UNCHANGED snapshot \/ WriteSnapshot
  PROVE  \A i \in DOMAIN manifest : snapshot'[manifest[i].version] = snapshot[manifest[i].version]
<1> SUFFICES ASSUME NEW i \in DOMAIN manifest, WriteSnapshot
             PROVE  snapshot'[manifest[i].version] = snapshot[manifest[i].version]
  OBVIOUS
<1>1. snapshot \in [Versions -> {"none", "half", "whole"}]
  BY DEF ManifestInv, RecordedIsOnDisk
<1>2. PICK v : v = archiver.version
  OBVIOUS
<1>3. PICK w : w = manifest[i].version /\ snapshot[w] # "none"
  BY DEF FilesInv
<1>4. CASE archiver.op = "fill"
  <2>1. w # v
    BY <1>2, <1>3, <1>4 DEF FilesInv
  <2>2. snapshot' = [snapshot EXCEPT ![v] = "whole"]
    BY <1>2, <1>4 DEF WriteSnapshot
  <2> QED
    BY <1>1, <1>3, <2>1, <2>2
<1>5. CASE archiver.op = "write" /\ snapshot[v] # "none"
  BY <1>2, <1>5 DEF WriteSnapshot
<1>6. CASE archiver.op = "write" /\ snapshot[v] = "none"
  <2>1. w # v
    BY <1>3, <1>6
  <2>2. snapshot' = [snapshot EXCEPT ![v] = "half"]
    BY <1>2, <1>6 DEF WriteSnapshot
  <2> QED
    BY <1>1, <1>3, <2>1, <2>2
<1> QED
  BY <1>2, <1>4, <1>5, <1>6 DEF WriteSnapshot

\* What a step of the archiver does to the files keeps FilesInv.
LEMMA FilesStay ==
  ASSUME ManifestInv, FilesInv, UNCHANGED <<manifest, snapshot, cutShort>>, archiver.op # "fill",
         archiver'.op # "fill"
  PROVE  FilesInv'
BY DEF FilesInv

LEMMA FilesAreWritten ==
  ASSUME ManifestInv, FilesInv, WriteSnapshot
  PROVE  FilesInv'
<1>1. PICK a \in Archivings : a = archiver
  BY ArchiverIs DEF ManifestInv, WriteSnapshot
<1>2. PICK v \in Versions : v = a.version
  BY <1>1 DEF Archivings
<1>3. snapshot \in [Versions -> {"none", "half", "whole"}]
  BY DEF ManifestInv, RecordedIsOnDisk
<1>4. UNCHANGED <<manifest, cutShort>>
  BY DEF WriteSnapshot
<1>5. \A i \in DOMAIN manifest : snapshot'[manifest[i].version] = snapshot[manifest[i].version]
  BY FilesOfEntriesStay
<1>6. CASE a.op = "fill"
  <2>1. snapshot' = [snapshot EXCEPT ![v] = "whole"] /\ archiver' = [a EXCEPT !.op = "record"]
    BY <1>1, <1>2, <1>6 DEF WriteSnapshot
  <2>2. archiver'.op = "record"
    BY <1>1, <2>1 DEF Archivings
  <2>3. v \notin cutShort
    BY <1>1, <1>2, <1>6 DEF FilesInv
  <2>4. \A u \in Versions : u # v => snapshot'[u] = snapshot[u]
    BY <1>3, <2>1
  <2>5. snapshot'[v] = "whole"
    BY <1>3, <2>1
  <2> QED
    BY <1>1, <1>2, <1>4, <1>5, <2>2, <2>3, <2>4, <2>5 DEF FilesInv
<1>7. CASE a.op = "write" /\ snapshot[v] # "none"
  <2>1. UNCHANGED snapshot /\ archiver' = [a EXCEPT !.op = "record"]
    BY <1>1, <1>2, <1>7 DEF WriteSnapshot
  <2>2. archiver'.op = "record"
    BY <1>1, <2>1 DEF Archivings
  <2> QED
    BY <1>1, <1>4, <1>7, <2>1, <2>2, FilesStay
<1>8. CASE a.op = "write" /\ snapshot[v] = "none"
  <2>1. snapshot' = [snapshot EXCEPT ![v] = "half"] /\ archiver' = [a EXCEPT !.op = "fill"]
    BY <1>1, <1>2, <1>8 DEF WriteSnapshot
  <2>2. archiver'.op = "fill" /\ archiver'.version = v
    BY <1>1, <1>2, <2>1 DEF Archivings
  <2>3. v \notin cutShort /\ \A i \in DOMAIN manifest : manifest[i].version # v
    BY <1>8 DEF FilesInv
  <2>4. \A u \in Versions : u # v => snapshot'[u] = snapshot[u]
    BY <1>3, <2>1
  <2>5. snapshot'[v] = "half"
    BY <1>3, <2>1
  <2>6. archiver.op # "fill"
    BY <1>1, <1>8
  <2> QED
    BY <1>4, <1>5, <2>2, <2>3, <2>4, <2>5, <2>6 DEF FilesInv
<1> QED
  BY <1>1, <1>2, <1>6, <1>7, <1>8 DEF WriteSnapshot

LEMMA EntryNamesAFile ==
  ASSUME ManifestInv, FilesInv, AppendManifest
  PROVE  FilesInv'
<1>1. PICK a \in Archivings : a = archiver
  BY ArchiverIs DEF ManifestInv, AppendManifest
<1>2. a.op = "record" /\ snapshot[a.version] # "none"
  BY <1>1 DEF AppendManifest, ManifestInv, RecordedIsOnDisk
<1>3. archiver' = [a EXCEPT !.op = "done"] /\ UNCHANGED <<snapshot, cutShort>>
  BY <1>1 DEF AppendManifest
<1>4. archiver'.op = "done"
  BY <1>1, <1>3 DEF Archivings
<1>5. PICK m \in Seq(Entries) : m = manifest
  BY DEF ManifestInv, ManifestIsOfItsTime
<1>6. PICK e : e = [day |-> a.day, version |-> a.version]
  OBVIOUS
<1>7. manifest' = Append(m, e)
  BY <1>1, <1>5, <1>6 DEF AppendManifest, Recorded
<1>8. PICK n \in Nat : n = Len(m)
  OBVIOUS
<1>9. e \in Entries
  BY <1>1, <1>6 DEF Archivings, Entries
<1> DEFINE g == Append(m, e)
<1>10. Len(g) = n + 1 /\ g[n + 1] = e /\ \A i \in 1 .. n : g[i] = m[i]
  BY <1>8, <1>9, AppendProperties
<1>11. DOMAIN g = 1 .. n + 1 /\ DOMAIN m = 1 .. n
  <2>1. g \in Seq(Entries)
    BY <1>9, AppendProperties
  <2> HIDE DEF g
  <2> QED
    BY <1>8, <1>10, <2>1
<1> HIDE DEF g
<1>12. manifest' = g
  BY <1>7 DEF g
<1>13. e.version = a.version
  BY <1>6
<1>14. \A i \in DOMAIN g : snapshot[g[i].version] # "none"
  <2> SUFFICES ASSUME NEW i \in DOMAIN g PROVE snapshot[g[i].version] # "none"
    OBVIOUS
  <2>1. CASE i \in 1 .. n
    BY <1>5, <1>10, <1>11, <2>1 DEF FilesInv
  <2>2. CASE i = n + 1
    BY <1>2, <1>10, <1>13, <2>2
  <2> QED
    BY <1>8, <1>11, <2>1, <2>2
<1> QED
  BY <1>1, <1>2, <1>3, <1>4, <1>12, <1>14 DEF FilesInv

LEMMA RunEndsInTheFiles ==
  ASSUME ManifestInv, FilesInv, EndArchive
  PROVE  FilesInv'
<1>1. archiver'.op = "idle" /\ UNCHANGED <<manifest, snapshot>>
  BY DEF EndArchive, NoRun
<1>2. CASE archiver.op = "fill"
  <2>1. archiver.version \in Versions
    BY <1>2, ArchiverIs DEF ManifestInv, Archivings
  <2>2. cutShort' = cutShort \cup {archiver.version}
    BY <1>2 DEF EndArchive
  <2> QED
    BY <1>1, <1>2, <2>1, <2>2 DEF FilesInv
<1>3. CASE archiver.op # "fill"
  <2>1. cutShort' = cutShort
    BY <1>3 DEF EndArchive
  <2> QED
    BY <1>1, <1>3, <2>1, FilesStay
<1> QED
  BY <1>2, <1>3

\* While the answer for a day may still come no entry of that day is added.
LEMMA AnswersAreKept ==
  ASSUME ManifestInv, FilesInv,
         (UNCHANGED manifest /\ (UNCHANGED snapshot \/ WriteSnapshot)) \/ AppendManifest
  PROVE  AnswersStand
<1> SUFFICES ASSUME NEW d \in 0 .. LastDay, archiver = NoRun \/ archiver.day > d
             PROVE  load_snapshot_as_of(d)' = load_snapshot_as_of(d)
  BY DEF AnswersStand
<1>1. /\ SeenBy(d)' = SeenBy(d)
      /\ \A i \in SeenBy(d) : manifest'[i].version = manifest[i].version
  <2>1. CASE UNCHANGED manifest
    BY <2>1 DEF SeenBy
  <2>2. CASE AppendManifest
    <3>1. PICK e \in Entries : manifest' = Append(manifest, e) /\ e.day = archiver.day
      BY <2>2, ManifestGrows
    <3>2. PICK m \in Seq(Entries) : m = manifest
      BY <2>2, ManifestGrows
    <3>3. PICK n \in Nat : n = Len(m)
      OBVIOUS
    <3> DEFINE g == Append(m, e)
    <3>4. DOMAIN m = 1 .. n /\ DOMAIN g = 1 .. n + 1 /\ g[n + 1] = e
          /\ \A i \in 1 .. n : g[i] = m[i]
      BY <3>3
    <3>5. manifest' = g
      BY <3>1, <3>2
    <3> HIDE DEF g
    <3>6. ~(e.day <= d)
      <4>1. archiver # NoRun /\ e.day > d
        BY <2>2, <3>1, ManifestGrows
      <4>2. e.day \in Int /\ d \in Int
        BY <3>1 DEF Entries
      <4> QED
        BY <4>1, <4>2
    <3>7. SeenBy(d) = {i \in 1 .. n : m[i].day <= d}
      BY <3>2, <3>4 DEF SeenBy
    <3>8. SeenBy(d)' = {i \in 1 .. n + 1 : g[i].day <= d}
      BY <3>4, <3>5 DEF SeenBy
    <3>9. {i \in 1 .. n + 1 : g[i].day <= d} = {i \in 1 .. n : m[i].day <= d}
      <4>1. \A i \in 1 .. n + 1 : i \in 1 .. n \/ i = n + 1
        BY <3>3
      <4>2. 1 .. n \subseteq 1 .. n + 1
        BY <3>3
      <4> QED
        BY <3>4, <3>6, <4>1, <4>2
    <3> QED
      BY <3>2, <3>4, <3>5, <3>7, <3>8, <3>9
  <2> QED
    BY <2>1, <2>2
<1>2. CASE SeenBy(d) = {}
  BY <1>1, <1>2 DEF load_snapshot_as_of
<1>3. CASE SeenBy(d) # {}
  <2>1. PICK i \in SeenBy(d) : i = Max(SeenBy(d))
    BY <1>3, LastSeenIs
  <2>2. LastSeen(d)' = LastSeen(d) /\ LastSeen(d) = manifest[i].version
    BY <1>1, <2>1 DEF LastSeen
  <2>3. snapshot'[manifest[i].version] = snapshot[manifest[i].version]
    <3>1. i \in DOMAIN manifest
      BY DEF SeenBy
    <3>2. CASE AppendManifest
      BY <3>2 DEF AppendManifest
    <3>3. CASE UNCHANGED snapshot \/ WriteSnapshot
      BY <3>1, <3>3, FilesOfEntriesStay
    <3> QED
      BY <3>2, <3>3
  <2> QED
    BY <1>1, <1>3, <2>2, <2>3 DEF load_snapshot_as_of
<1> QED
  BY <1>2, <1>3

LEMMA PastIs ==
  ASSUME NEW week \in Int, NEW last \in Int, NEW skip, NEW day, NEW got, NEW W,
         got \subseteq DaysOf(week), \A w \in W : w \in skip \/ w < week
  PROVE  IsPast([op |-> "fetch", week |-> week, last |-> last, skip |-> skip,
                 day |-> day, got |-> got], W)
BY Zenon DEF IsPast

\* On to the next week, or to the end.
LEMMA OnwardIsAhead ==
  ASSUME NEW week \in Int, NEW last \in Int, NEW skip, NEW day, NEW got, NEW W, W \subseteq Int,
         \A w \in W : w \in skip \/ w < week + 1,
         NEW h, h = [op |-> "fetch", week |-> week, last |-> last, skip |-> skip,
                     day |-> day, got |-> got]
  PROVE  Onward(h) # NoRun => IsPast(Onward(h), W)
<1>1. PICK day2 : day2 = Min(DaysOf(week + 1))
  OBVIOUS
<1>2. CASE h.week = h.last
  BY <1>2 DEF Onward
<1>3. CASE h.week # h.last
  <2>1. Onward(h) = [op |-> "fetch", week |-> week + 1, last |-> last, skip |-> skip,
                     day |-> day2, got |-> {}]
    BY <1>1, <1>3 DEF Onward
  <2>2. PICK next \in Int : next = week + 1
    OBVIOUS
  <2>3. PICK none : none = {}
    OBVIOUS
  <2>4. none \subseteq DaysOf(next) /\ \A w \in W : w \in skip \/ w < next
    BY <2>2, <2>3
  <2>5. IsPast([op |-> "fetch", week |-> next, last |-> last, skip |-> skip,
                day |-> day2, got |-> none], W)
    BY <2>4, PastIs
  <2> QED
    BY <2>1, <2>2, <2>3, <2>5
<1> QED
  BY <1>2, <1>3

LEMMA HarvestBegins ==
  ASSUME VintageAssumption, today \in 0 .. LastDay, WeeksInv, Harvest
  PROVE  WeeksInv' /\ WeeksStand
<1>1. UNCHANGED weeks
  BY DEF Harvest
<1>2. PICK start \in 0 .. today - 1 :
        harvest' = [op |-> "fetch", week |-> WeekOf(start), last |-> WeekOf(today - 1),
                    skip |-> DOMAIN weeks, day |-> Min(DaysOf(WeekOf(start))), got |-> {}]
  BY DEF Harvest
<1>3. WeekOf(start) \in Int /\ WeekOf(today - 1) \in Int
  BY DEF WeekOf, VintageAssumption
<1>4. PICK day, skip : day = Min(DaysOf(WeekOf(start))) /\ skip = DOMAIN weeks
  OBVIOUS
<1>5. harvest' = [op |-> "fetch", week |-> WeekOf(start), last |-> WeekOf(today - 1),
                  skip |-> skip, day |-> day, got |-> {}]
  BY <1>2, <1>4
<1>6. \A w \in DOMAIN weeks : w \in skip
  BY <1>4
<1>7. IsPast(harvest', DOMAIN weeks)
  <2>1. {} \subseteq DaysOf(WeekOf(start))
    OBVIOUS
  <2>2. IsPast([op |-> "fetch", week |-> WeekOf(start), last |-> WeekOf(today - 1),
                skip |-> skip, day |-> day, got |-> {}], DOMAIN weeks)
    BY <1>3, <1>6, <2>1, PastIs
  <2> QED
    BY <1>5, <2>2
<1>8. WrittenIsBehind'
  BY <1>1, <1>7 DEF WrittenIsBehind
<1> QED
  BY <1>1, <1>8 DEF WeeksInv, RowsAreOfTheirWeek, WeeksStand

LEMMA WeekIsWritten ==
  ASSUME WeeksInv, FetchDay
  PROVE  WeeksInv' /\ WeeksStand
<1>1. harvest # NoRun
  BY DEF FetchDay, NoRun
<1>2. PICK week \in Int, last \in Int : \E skip, day, got :
        /\ harvest = [op |-> "fetch", week |-> week, last |-> last, skip |-> skip,
                      day |-> day, got |-> got]
        /\ got \subseteq DaysOf(week)
        /\ \A w \in DOMAIN weeks : w \in skip \/ w < week
  BY <1>1 DEF WeeksInv, WrittenIsBehind, IsPast
<1>2a. PICK skip, day, got :
        /\ harvest = [op |-> "fetch", week |-> week, last |-> last, skip |-> skip,
                      day |-> day, got |-> got]
        /\ got \subseteq DaysOf(week)
        /\ \A w \in DOMAIN weeks : w \in skip \/ w < week
  BY <1>2
<1>3. PICK h : h = harvest
  OBVIOUS
<1>4. h = [op |-> "fetch", week |-> week, last |-> last, skip |-> skip, day |-> day, got |-> got]
  BY <1>2a, <1>3
<1>5. DOMAIN weeks \subseteq Int
  BY DEF WeeksInv, RowsAreOfTheirWeek
<1>6. \A w \in DOMAIN weeks : w \in skip \/ w < week + 1
  BY <1>2a, <1>5
<1>7. CASE UNCHANGED weeks /\ harvest' = Onward(h)
  <2>1. Onward(h) # NoRun => IsPast(Onward(h), DOMAIN weeks)
    BY <1>4, <1>5, <1>6, OnwardIsAhead
  <2>2. WrittenIsBehind'
    BY <1>7, <2>1 DEF WrittenIsBehind
  <2> QED
    BY <1>7, <2>2 DEF WeeksInv, RowsAreOfTheirWeek, WeeksStand
<1>8. CASE h.day \in DaysOf(h.week) /\ UNCHANGED weeks
           /\ (\/ harvest' = [h EXCEPT !.day = @ + 1, !.got = @ \cup {h.day}]
               \/ harvest' = [h EXCEPT !.day = @ + 1])
  <2>1. PICK day2 : day2 = day + 1
    OBVIOUS
  <2>2. got \cup {day} \subseteq DaysOf(week)
    BY <1>2a, <1>4, <1>8
  <2>3. \/ harvest' = [op |-> "fetch", week |-> week, last |-> last, skip |-> skip,
                       day |-> day2, got |-> got \cup {day}]
        \/ harvest' = [op |-> "fetch", week |-> week, last |-> last, skip |-> skip,
                       day |-> day2, got |-> got]
    BY <1>4, <1>8, <2>1
  <2>4. IsPast(harvest', DOMAIN weeks)
    BY <1>2a, <2>2, <2>3, Zenon DEF IsPast
  <2>5. WrittenIsBehind'
    BY <1>8, <2>4 DEF WrittenIsBehind
  <2> QED
    BY <1>8, <2>5 DEF WeeksInv, RowsAreOfTheirWeek, WeeksStand
<1>9. CASE week \notin skip /\ got # {} /\ harvest' = Onward(h)
           /\ weeks' = [w \in DOMAIN weeks \cup {week} |-> IF w = week THEN got ELSE weeks[w]]
  <2>1. week \notin DOMAIN weeks
    BY <1>2a, <1>9
  <2>2. DOMAIN weeks' = DOMAIN weeks \cup {week} /\ weeks'[week] = got
        /\ \A w \in DOMAIN weeks : weeks'[w] = weeks[w]
    BY <1>9, <2>1
  <2>3. \A w \in DOMAIN weeks' : w \in skip \/ w < week + 1
    BY <1>6, <2>2
  <2>4. DOMAIN weeks' \subseteq Int
    BY <1>5, <2>2
  <2>5. WrittenIsBehind'
    <3> DEFINE W == DOMAIN weeks'
    <3> HIDE DEF W
    <3>1. W \subseteq Int /\ \A w \in W : w \in skip \/ w < week + 1
      BY <2>3, <2>4 DEF W
    <3>2. Onward(h) # NoRun => IsPast(Onward(h), W)
      BY <1>4, <3>1, OnwardIsAhead
    <3> QED
      BY <1>9, <3>2 DEF WrittenIsBehind, W
  <2>6. \A w \in DOMAIN weeks' : weeks'[w] # {} /\ weeks'[w] \subseteq DaysOf(w)
    BY <1>2a, <1>9, <2>2 DEF WeeksInv, RowsAreOfTheirWeek
  <2> QED
    BY <2>2, <2>4, <2>5, <2>6 DEF WeeksInv, RowsAreOfTheirWeek, WeeksStand
<1> QED
  BY <1>3, <1>4, <1>7, <1>8, <1>9 DEF FetchDay, Worthwhile

(***************************************************************************)
(* The archive's answer for the day of a run is what that run read, also   *)
(* when the source has come back to a content of old, or nothing can be    *)
(* read, and that only where a kill cut the writing of that content short; *)
(* once a day is over and no run stamped by then is going, its answer never*)
(* changes, though files are written and killed meanwhile; a week          *)
(* that has rows was fetched on days of its own, and rows once written are *)
(* never replaced: whatever is killed, and when.                           *)
(* (pit_archive.py: archive_snapshot, load_snapshot_as_of;                 *)
(* harvest_gdelt.py: harvest)                                              *)
(***************************************************************************)
THEOREM VintagesAreKept == VintageSpec => VintagesStand
<1> DEFINE Inv == ManifestInv /\ FilesInv /\ WeeksInv
<1>1. VintageInit => Inv
  <2> SUFFICES ASSUME VintageInit PROVE Inv
    OBVIOUS
  <2>1. today \in 0 .. LastDay
    BY VintageAssumption DEF VintageInit
  <2>2. manifest \in Seq(Entries) /\ DOMAIN manifest = {}
    BY DEF VintageInit
  <2>3. ManifestIsOfItsTime
    BY <2>1, <2>2 DEF VintageInit, ManifestIsOfItsTime
  <2>4. RecordedIsOnDisk
    BY DEF VintageInit, RecordedIsOnDisk, NoRun
  <2>5. DOMAIN weeks = {}
    BY DEF VintageInit
  <2>6. FilesInv
    BY <2>2 DEF VintageInit, FilesInv, NoRun
  <2> QED
    BY <2>3, <2>4, <2>5, <2>6 DEF VintageInit, ManifestInv, WeeksInv, RowsAreOfTheirWeek, WrittenIsBehind
<1>2. Inv /\ [VintageNext]_vintageVars => Inv' /\ AnswersStand /\ WeeksStand
  <2> SUFFICES ASSUME Inv, [VintageNext]_vintageVars PROVE Inv' /\ AnswersStand /\ WeeksStand
    OBVIOUS
  <2>1. today \in 0 .. LastDay /\ source \in Versions
    BY DEF ManifestInv, ManifestIsOfItsTime
  <2>2. today <= today
    BY <2>1
  <2>3. \A w \in DOMAIN weeks : weeks[w] # {} /\ weeks[w] \subseteq DaysOf(w)
    BY DEF WeeksInv, RowsAreOfTheirWeek
  <2>4. ASSUME UNCHANGED gdeltVars PROVE WeeksInv' /\ WeeksStand
    BY <2>3, <2>4 DEF gdeltVars, WeeksInv, RowsAreOfTheirWeek, WrittenIsBehind, WeeksStand
  <2>5. ASSUME UNCHANGED <<today, pitVars>> PROVE ManifestInv' /\ FilesInv' /\ AnswersStand
    BY <2>1, <2>2, <2>5, ArchiveRests, AnswersAreKept DEF pitVars, FilesInv
  <2>6. archiver \in {NoRun} \cup Openings \cup Archivings
        /\ snapshot \in [Versions -> {"none", "half", "whole"}]
    BY DEF ManifestInv, ManifestIsOfItsTime, RecordedIsOnDisk
  <2>7. CASE NextDay
    <3>1. today' \in 0 .. LastDay /\ today <= today'
      BY <2>1, <2>7, VintageAssumption DEF NextDay, VintageAssumption
    <3>2. FilesInv'
      BY <2>7 DEF NextDay, pitVars, FilesInv
    <3> QED
      BY <2>1, <2>4, <2>7, <3>1, <3>2, ArchiveRests, AnswersAreKept DEF NextDay, pitVars
  <2>8. CASE Revise
    <3>1. FilesInv'
      BY <2>8 DEF Revise, FilesInv
    <3> QED
      BY <2>1, <2>2, <2>4, <2>8, <3>1, ArchiveRests, AnswersAreKept DEF Revise
  <2>9. CASE BeginArchive
    <3>1. archiver' \in Openings /\ archiver'.op = "read" /\ archiver'.day = today
      BY <2>1, <2>9 DEF BeginArchive, Openings
    <3>2. ManifestInv'
      BY <2>6, <2>9, <3>1, ArchiverMoves DEF BeginArchive
    <3>3. FilesInv'
      BY <2>9, <3>1, FilesStay DEF BeginArchive, NoRun
    <3> QED
      BY <2>4, <2>9, <3>2, <3>3, AnswersAreKept DEF BeginArchive
  <2>10. CASE ReadSource
    <3>1. PICK a \in Openings : a = archiver
      BY <2>10, ArchiverIs DEF ReadSource, ManifestInv
    <3>2. PICK b \in Archivings : b = [a EXCEPT !.op = "write", !.version = source]
      BY <2>1 DEF Openings, Archivings
    <3>3. b.op = "write" /\ b.day = a.day /\ a # NoRun
      BY <3>1, <3>2 DEF Openings, NoRun
    <3>4. archiver' = b
      BY <2>10, <3>1, <3>2 DEF ReadSource
    <3>5. ManifestInv'
      BY <2>6, <2>10, <3>1, <3>3, <3>4, ArchiverMoves DEF ReadSource
    <3>6. FilesInv'
      BY <2>10, <3>3, <3>4, FilesStay DEF ReadSource
    <3> QED
      BY <2>4, <2>10, <3>5, <3>6, AnswersAreKept DEF ReadSource
  <2>11. CASE WriteSnapshot
    BY <2>4, <2>11, SnapshotIsWritten, FilesAreWritten, AnswersAreKept DEF WriteSnapshot
  <2>12. CASE AppendManifest
    BY <2>4, <2>12, ManifestGrows, EntryNamesAFile, AnswersAreKept DEF AppendManifest
  <2>13. CASE EndArchive
    <3>1. archiver' = NoRun /\ archiver'.op = "idle"
      BY <2>13 DEF EndArchive, NoRun
    <3>2. ManifestInv'
      BY <2>6, <2>13, <3>1, ArchiverMoves DEF EndArchive
    <3> QED
      BY <2>4, <2>13, <3>2, RunEndsInTheFiles, AnswersAreKept DEF EndArchive
  <2>14. CASE Harvest
    BY <2>1, <2>5, <2>14, VintageAssumption, HarvestBegins DEF Harvest
  <2>15. CASE FetchDay
    BY <2>5, <2>15, WeekIsWritten DEF FetchDay
  <2>16. CASE KillHarvest
    BY <2>3, <2>5, <2>16 DEF KillHarvest, WeeksInv, RowsAreOfTheirWeek, WrittenIsBehind, WeeksStand
  <2>17. CASE UNCHANGED vintageVars
    BY <2>4, <2>5, <2>17 DEF vintageVars, pitVars, gdeltVars
  <2> QED
    BY <2>7, <2>8, <2>9, <2>10, <2>11, <2>12, <2>13, <2>14, <2>15, <2>16, <2>17 DEF VintageNext
<1>3. Inv => ReobservationsCount
  BY LastIsLatest
<1> HIDE DEF Inv
<1>4. Inv' => ReobservationsCount'
  BY <1>3, PTL
<1>5. Inv /\ [VintageNext]_vintageVars =>
        Inv' /\ [ReobservationsCount' /\ AnswersStand /\ WeeksStand]_vintageVars
  BY <1>2, <1>4
<1> QED
  BY <1>1, <1>5, PTL DEF VintageSpec, VintagesStand

(***************************************************************************)
(* The record of calls (PortCalls), for reports taken in in any order, any   *)
(* number of times and killed at any row, and any questions and pages.       *)
(***************************************************************************)

\* The rows that reports have, each of one line of one report.
AllRows == UNION {Range(ParsedReport(hash)) : hash \in DOMAIN Reports}

LEMMA ParsedIs ==
  ASSUME NEW hash \in DOMAIN Reports
  PROVE  /\ ParsedReport(hash) \in Seq(AllRows)
         /\ Len(Reports[hash].lines) \in Nat
         /\ DOMAIN Reports[hash].lines = 1 .. Len(Reports[hash].lines)
         /\ Len(ParsedReport(hash)) = Len(Reports[hash].lines)
         /\ \A i \in DOMAIN Reports[hash].lines :
              /\ ParsedReport(hash)[i] = ParsedRow(hash, i)
              /\ ParsedRow(hash, i) \in AllRows
<1> DEFINE lines == Reports[hash].lines
<1>1. lines \in Seq(Range(lines))
  BY ReportsAssumption
<1>2. Len(lines) \in Nat /\ DOMAIN lines = 1 .. Len(lines)
  <2> HIDE DEF lines
  <2> QED
    BY <1>1
<1>3. ParsedReport(hash) = [i \in 1 .. Len(lines) |-> ParsedRow(hash, i)]
  BY <1>2 DEF ParsedReport
<1>4. \A i \in 1 .. Len(lines) : ParsedReport(hash)[i] = ParsedRow(hash, i)
  <2> HIDE DEF lines
  <2> QED
    BY <1>3
<1>5. \A i \in 1 .. Len(lines) : ParsedRow(hash, i) \in AllRows
  <2>1. DOMAIN ParsedReport(hash) = 1 .. Len(lines)
    BY <1>3
  <2> HIDE DEF lines
  <2> QED
    BY <1>4, <2>1 DEF AllRows, Range
<1>6. ParsedReport(hash) \in Seq(AllRows) /\ Len(ParsedReport(hash)) = Len(lines)
  <2> HIDE DEF lines
  <2> QED
    BY <1>2, <1>3, <1>5
<1> QED
  BY <1>2, <1>4, <1>5, <1>6

(* A row tells which line of which report it is.                           *)
LEMMA RowTells ==
  /\ \A hash, i : ParsedRow(hash, i).hash = hash /\ ParsedRow(hash, i).index = i
  /\ \A row \in AllRows :
       /\ row.hash \in DOMAIN Reports /\ row.index \in DOMAIN Reports[row.hash].lines
       /\ row = ParsedRow(row.hash, row.index)
<1>1. \A hash, i : ParsedRow(hash, i).hash = hash /\ ParsedRow(hash, i).index = i
  BY DEF ParsedRow
<1>2. ASSUME NEW row \in AllRows
      PROVE  /\ row.hash \in DOMAIN Reports /\ row.index \in DOMAIN Reports[row.hash].lines
             /\ row = ParsedRow(row.hash, row.index)
  <2>1. PICK hash \in DOMAIN Reports : row \in Range(ParsedReport(hash))
    BY DEF AllRows
  <2>2. DOMAIN ParsedReport(hash) = DOMAIN Reports[hash].lines
    BY DEF ParsedReport
  <2>3. PICK i \in DOMAIN Reports[hash].lines : row = ParsedRow(hash, i)
    BY <2>1, <2>2, ParsedIs DEF Range
  <2> QED
    BY <1>1, <2>3
<1> QED
  BY <1>1, <1>2

(* IsNewRow, of a row of a report: the file does not have it.              *)
LEMMA NewIsUnseen ==
  ASSUME calls \in Seq(AllRows), NEW row \in AllRows
  PROVE  IsNewRow(row) <=> row \notin Range(calls)
<1>1. \A i \in DOMAIN calls : calls[i] \in AllRows
  OBVIOUS
<1>2. ASSUME NEW i \in DOMAIN calls
      PROVE  <<calls[i].hash, calls[i].index>> = <<row.hash, row.index>> <=> calls[i] = row
  BY <1>1, RowTells
<1> QED
  BY <1>2 DEF IsNewRow, Range

(* What is in the file, and what an append has still to bring to it.       *)
RecordOnce == calls \in Seq(AllRows) /\ IsInjective(calls)

PendingFresh ==
  pending \in Seq(AllRows) /\ IsInjective(pending) /\ Range(pending) \cap Range(calls) = {}

PendingCompletes ==
  pending # <<>> =>
    \E hash \in DOMAIN Reports :
      /\ Range(pending) \subseteq Range(ParsedReport(hash))
      /\ Range(ParsedReport(hash)) \subseteq Range(calls) \cup Range(pending)

IngestedWhole ==
  /\ ingested \subseteq DOMAIN Reports
  /\ \A hash \in ingested : Range(ParsedReport(hash)) \subseteq Range(calls)

(* What a client has got, and what an answer was worked out from.          *)
PagesSoFar ==
  /\ reader \in [port : Ports \cup {Unread}, got : Seq(AllRows)]
  /\ reader.port # Unread =>
       \E n \in 0 .. Len(Trusted(calls, reader.port)) :
         reader.got = SubSeq(Trusted(calls, reader.port), 1, n)

AnsweredFrom ==
  \A question \in DOMAIN reports :
    \E held \in Seq(AllRows) : reports[question] = Reality(question, held)

CallsInv ==
  RecordOnce /\ PendingFresh /\ PendingCompletes /\ IngestedWhole /\ PagesSoFar /\ AnsweredFrom

LEMMA IngestKeeps ==
  ASSUME CallsInv, NEW hash \in DOMAIN Reports, Ingest(hash)
  PROVE  PendingFresh' /\ PendingCompletes' /\ IngestedWhole'
<1> DEFINE rows == ParsedReport(hash)
           new == {i \in DOMAIN rows : IsNewRow(rows[i])}
<1>1. /\ calls \in Seq(AllRows) /\ IngestedWhole
      /\ pending' = RowsAt(rows, new) /\ calls' = calls
      /\ ingested' = IF pending' = <<>> THEN ingested \cup {hash} ELSE ingested
  BY DEF CallsInv, RecordOnce, Ingest
<1>2. rows \in Seq(AllRows) /\ DOMAIN rows = 1 .. Len(rows)
  BY ParsedIs
<1>3. \A i \in DOMAIN rows : rows[i] = ParsedRow(hash, i)
  BY DEF ParsedReport
<1>4. IsInjective(rows)
  <2> SUFFICES ASSUME NEW i \in DOMAIN rows, NEW j \in DOMAIN rows, rows[i] = rows[j]
               PROVE  i = j
    BY DEF IsInjective
  <2>1. ParsedRow(hash, i).index = i /\ ParsedRow(hash, j).index = j
    BY RowTells
  <2> QED
    BY <1>3, <2>1
<1> HIDE DEF rows
<1>5. \A i \in DOMAIN rows : rows[i] \in AllRows
  BY <1>2
<1>6. new = {i \in DOMAIN rows : rows[i] \notin Range(calls)}
  BY <1>1, <1>5, NewIsUnseen
<1> HIDE DEF new
<1>7. new \subseteq DOMAIN rows
  BY <1>6
<1>8. /\ pending' \in Seq(AllRows) /\ Range(pending') = {rows[i] : i \in new}
      /\ IsInjective(pending') /\ (pending' = <<>> => new = {})
  BY <1>1, <1>2, <1>4, <1>7, RowsAtType
<1>9. Range(rows) \subseteq Range(calls) \cup {rows[i] : i \in new}
  BY <1>6 DEF Range
<1>10. Range(pending') \subseteq Range(rows) /\ Range(pending') \cap Range(calls) = {}
  BY <1>6, <1>8 DEF Range
<1>11. PendingFresh'
  BY <1>1, <1>8, <1>10 DEF PendingFresh
<1>12. PendingCompletes'
  BY <1>1, <1>8, <1>9, <1>10 DEF PendingCompletes, rows
<1>13. ASSUME NEW h \in ingested'
       PROVE  h \in DOMAIN Reports /\ Range(ParsedReport(h)) \subseteq Range(calls)
  <2>1. CASE h \in ingested
    BY <1>1, <2>1 DEF IngestedWhole
  <2>2. CASE h \notin ingested
    <3>1. h = hash /\ pending' = <<>>
      BY <1>1, <1>13, <2>2
    <3>2. new = {}
      BY <1>8, <3>1
    <3>3. Range(rows) \subseteq Range(calls)
      BY <1>9, <3>2
    <3> QED
      BY <3>1, <3>3 DEF rows
  <2> QED
    BY <2>1, <2>2
<1>14. IngestedWhole'
  BY <1>1, <1>13 DEF IngestedWhole
<1> QED
  BY <1>11, <1>12, <1>14

(* A row written comes off the rows to write.                              *)
LEMMA RowMoves ==
  ASSUME NEW X, NEW s \in Seq(X), NEW t \in Seq(X), t # <<>>
  PROVE  /\ Head(t) \in X /\ Append(s, Head(t)) \in Seq(X) /\ Tail(t) \in Seq(X)
         /\ Range(Append(s, Head(t))) = Range(s) \cup {Head(t)}
         /\ Range(t) = Range(Tail(t)) \cup {Head(t)}
         /\ IsInjective(t) => IsInjective(Tail(t)) /\ Head(t) \notin Range(Tail(t))
         /\ IsInjective(s) /\ Head(t) \notin Range(s) => IsInjective(Append(s, Head(t)))
<1>1. Head(t) \in X /\ Append(s, Head(t)) \in Seq(X) /\ Tail(t) \in Seq(X)
  OBVIOUS
<1>2. /\ DOMAIN s = 1 .. Len(s) /\ DOMAIN t = 1 .. Len(t)
      /\ Len(s) \in Nat /\ Len(t) \in Nat /\ Len(t) >= 1
  OBVIOUS
<1>3. /\ DOMAIN Append(s, Head(t)) = 1 .. Len(s) + 1
      /\ \A i \in 1 .. Len(s) : Append(s, Head(t))[i] = s[i]
      /\ Append(s, Head(t))[Len(s) + 1] = Head(t)
  OBVIOUS
<1>4. /\ DOMAIN Tail(t) = 1 .. Len(t) - 1 /\ Head(t) = t[1]
      /\ \A i \in 1 .. Len(t) - 1 : Tail(t)[i] = t[i + 1]
  OBVIOUS
<1>5. Range(Append(s, Head(t))) = Range(s) \cup {Head(t)}
  BY <1>2, <1>3 DEF Range
<1>6. Range(t) = Range(Tail(t)) \cup {Head(t)}
  <2>1. ASSUME NEW i \in 1 .. Len(t), i # 1
        PROVE  t[i] \in Range(Tail(t))
    <3>1. i - 1 \in 1 .. Len(t) - 1 /\ (i - 1) + 1 = i
      BY <1>2, <2>1
    <3>2. Tail(t)[i - 1] = t[i]
      BY <1>4, <3>1
    <3> QED
      BY <1>4, <3>1, <3>2 DEF Range
  <2>2. ASSUME NEW i \in 1 .. Len(t) - 1
        PROVE  Tail(t)[i] \in Range(t)
    BY <1>2, <1>4 DEF Range
  <2>3. Head(t) \in Range(t)
    BY <1>2, <1>4 DEF Range
  <2> QED
    BY <1>2, <1>4, <2>1, <2>2, <2>3 DEF Range
<1>7. ASSUME IsInjective(t)
      PROVE  IsInjective(Tail(t)) /\ Head(t) \notin Range(Tail(t))
  BY <1>2, <1>4, <1>7 DEF IsInjective, Range
<1>8. ASSUME IsInjective(s), Head(t) \notin Range(s)
      PROVE  IsInjective(Append(s, Head(t)))
  BY <1>2, <1>3, <1>8 DEF IsInjective, Range
<1> QED
  BY <1>1, <1>5, <1>6, <1>7, <1>8

(* The trusted rows of a port stay where they are when the file grows.     *)
LEMMA TrustedGrows ==
  ASSUME NEW held \in Seq(AllRows), NEW row \in AllRows, NEW port
  PROVE  LET before == Trusted(held, port)
             after  == Trusted(Append(held, row), port)
         IN  /\ before \in Seq(AllRows) /\ after \in Seq(AllRows)
             /\ Len(before) <= Len(after)
             /\ \A k \in 1 .. Len(before) : before[k] = after[k]
<1> DEFINE more == Append(held, row)
           places == {i \in DOMAIN held : held[i].trusted /\ held[i].port = port}
           wider == {i \in DOMAIN more : more[i].trusted /\ more[i].port = port}
<1>1. /\ more \in Seq(AllRows) /\ Len(held) \in Nat
      /\ DOMAIN held = 1 .. Len(held) /\ DOMAIN more = 1 .. Len(held) + 1
      /\ \A i \in 1 .. Len(held) : more[i] = held[i]
  OBVIOUS
<1>2. Trusted(held, port) = RowsAt(held, places) /\ Trusted(more, port) = RowsAt(more, wider)
  BY DEF Trusted
<1>3. \A i \in places : i \in wider /\ held[i] = more[i] /\ i \in 1 .. Len(held)
  BY <1>1
<1>4. \A j \in wider \ places : j = Len(held) + 1
  BY <1>1
<1>5. wider \subseteq DOMAIN more /\ places \subseteq DOMAIN held
  OBVIOUS
<1> HIDE DEF more, places, wider
<1>6. wider \subseteq Int /\ IsFiniteSet(wider) /\ places \subseteq wider
  <2>1. IsFiniteSet(1 .. Len(held) + 1)
    <3>1. PICK n \in Nat : n = Len(held) + 1
      BY <1>1
    <3>2. IsFiniteSet(1 .. n)
      BY FS_Interval
    <3> QED
      BY <3>1, <3>2
  <2> QED
    BY <1>1, <1>3, <1>5, <2>1, FS_Subset
<1>7. \A i \in places : \A j \in wider \ places : i < j
  BY <1>1, <1>3, <1>4
<1>8. \A i \in places : held[i] = more[i]
  BY <1>3
<1>9. /\ Cardinality(places) \in Nat /\ Cardinality(wider) \in Nat
      /\ Cardinality(places) <= Cardinality(wider)
      /\ SameTo(RowsAt(held, places), RowsAt(more, wider), Cardinality(places))
  <2>1. Shifted(held, places, more, wider)
    BY <1>7, <1>8 DEF Shifted
  <2> QED
    BY <1>6, <2>1, RowsAtGrows
<1>10. Len(RowsAt(held, places)) = Cardinality(places)
       /\ Len(RowsAt(more, wider)) = Cardinality(wider)
  <2>1. IsFiniteSet(places) /\ places \subseteq Int
    BY <1>6, FS_Subset
  <2> QED
    BY <1>6, <2>1, RowsAtIs
<1>11. RowsAt(held, places) \in Seq(AllRows) /\ RowsAt(more, wider) \in Seq(AllRows)
  BY <1>1, <1>5, RowsAtType
<1> QED
  BY <1>2, <1>9, <1>10, <1>11 DEF more, SameTo

LEMMA WriteKeeps ==
  ASSUME CallsInv, WriteRow
  PROVE  CallsInv'
<1> DEFINE row == Head(pending)
<1>1. /\ calls \in Seq(AllRows) /\ IsInjective(calls)
      /\ pending \in Seq(AllRows) /\ IsInjective(pending)
      /\ Range(pending) \cap Range(calls) = {} /\ pending # <<>>
  BY DEF CallsInv, RecordOnce, PendingFresh, WriteRow
<1>2. /\ calls' = Append(calls, row) /\ pending' = Tail(pending)
      /\ ingested' = IF Tail(pending) = <<>> THEN ingested \cup {row.hash} ELSE ingested
      /\ reader' = reader /\ reports' = reports
  BY DEF WriteRow
<1>3. /\ row \in AllRows /\ Append(calls, row) \in Seq(AllRows) /\ Tail(pending) \in Seq(AllRows)
      /\ Range(Append(calls, row)) = Range(calls) \cup {row}
      /\ Range(pending) = Range(Tail(pending)) \cup {row}
      /\ IsInjective(Tail(pending)) /\ row \notin Range(Tail(pending))
  BY <1>1, RowMoves
<1>4. row \notin Range(calls)
  BY <1>1, <1>3
<1>5. IsInjective(Append(calls, row))
  BY <1>1, <1>4, RowMoves
<1> HIDE DEF row
<1>6. PICK hash \in DOMAIN Reports :
        /\ Range(pending) \subseteq Range(ParsedReport(hash))
        /\ Range(ParsedReport(hash)) \subseteq Range(calls) \cup Range(pending)
  BY <1>1 DEF CallsInv, PendingCompletes
<1>7. row.hash = hash
  <2>1. row \in Range(ParsedReport(hash))
    BY <1>3, <1>6
  <2>2. PICK i \in DOMAIN ParsedReport(hash) : row = ParsedReport(hash)[i]
    BY <2>1 DEF Range
  <2>3. row = ParsedRow(hash, i)
    BY <2>2 DEF ParsedReport
  <2> QED
    BY <2>3, RowTells
<1>8. RecordOnce'
  BY <1>2, <1>3, <1>5 DEF RecordOnce
<1>9. PendingFresh'
  BY <1>1, <1>2, <1>3 DEF PendingFresh
<1>10. PendingCompletes'
  BY <1>2, <1>3, <1>6 DEF PendingCompletes
<1>11. IngestedWhole'
  <2> SUFFICES ASSUME NEW h \in ingested'
               PROVE  h \in DOMAIN Reports /\ Range(ParsedReport(h)) \subseteq Range(calls')
    BY DEF IngestedWhole
  <2>1. CASE h \in ingested
    BY <1>2, <1>3, <2>1 DEF CallsInv, IngestedWhole
  <2>2. CASE h \notin ingested
    <3>1. Tail(pending) = <<>> /\ h = hash
      BY <1>2, <1>7, <2>2
    <3>2. Range(Tail(pending)) = {}
      BY <3>1 DEF Range
    <3> QED
      BY <1>2, <1>3, <1>6, <3>1, <3>2
  <2> QED
    BY <2>1, <2>2
<1>12. PagesSoFar'
  <2>1. reader \in [port : Ports \cup {Unread}, got : Seq(AllRows)]
    BY DEF CallsInv, PagesSoFar
  <2> SUFFICES ASSUME reader.port # Unread
               PROVE  \E n \in 0 .. Len(Trusted(calls', reader.port)) :
                        reader.got = SubSeq(Trusted(calls', reader.port), 1, n)
    BY <1>2, <2>1 DEF PagesSoFar
  <2>2. PICK n \in 0 .. Len(Trusted(calls, reader.port)) :
          reader.got = SubSeq(Trusted(calls, reader.port), 1, n)
    BY DEF CallsInv, PagesSoFar
  <2> DEFINE before == Trusted(calls, reader.port)
             after == Trusted(calls', reader.port)
  <2>3. /\ before \in Seq(AllRows) /\ after \in Seq(AllRows)
        /\ Len(before) <= Len(after)
        /\ \A k \in 1 .. Len(before) : before[k] = after[k]
    BY <1>1, <1>2, <1>3, TrustedGrows
  <2> HIDE DEF before, after
  <2>4. n \in 0 .. Len(after) /\ SubSeq(before, 1, n) = SubSeq(after, 1, n)
    <3>1. n \in 0 .. Len(before)
      BY <2>2 DEF before
    <3>2. n \in Nat /\ n <= Len(before) /\ n <= Len(after) /\ Len(before) \in Nat
          /\ Len(after) \in Nat
      BY <2>3, <3>1
    <3>3. SubSeq(before, 1, n) = [k \in 1 .. n |-> before[k]]
      BY <2>3, <3>2
    <3>4. SubSeq(after, 1, n) = [k \in 1 .. n |-> after[k]]
      BY <2>3, <3>2
    <3>5. \A k \in 1 .. n : before[k] = after[k]
      BY <2>3, <3>2
    <3> QED
      BY <3>2, <3>3, <3>4, <3>5
  <2> QED
    BY <2>2, <2>4 DEF before, after
<1>13. AnsweredFrom'
  BY <1>2 DEF CallsInv, AnsweredFrom
<1> QED
  BY <1>8, <1>9, <1>10, <1>11, <1>12, <1>13 DEF CallsInv

LEMMA PageKeeps ==
  ASSUME CallsInv, NextPage
  PROVE  PagesSoFar'
<1> DEFINE rows == Trusted(calls, reader.port)
           page == PageOf(rows, Len(reader.got))
<1>1. /\ calls \in Seq(AllRows) /\ calls' = calls /\ reader.port # Unread
      /\ reader \in [port : Ports \cup {Unread}, got : Seq(AllRows)]
      /\ reader' = [reader EXCEPT !.got = @ \o page] /\ page # <<>>
  BY DEF CallsInv, RecordOnce, PagesSoFar, NextPage
<1>2. PICK n \in 0 .. Len(rows) : reader.got = SubSeq(rows, 1, n)
  BY <1>1 DEF CallsInv, PagesSoFar
<1>3. rows \in Seq(AllRows)
  <2>1. {i \in DOMAIN calls : calls[i].trusted /\ calls[i].port = reader.port}
          \subseteq DOMAIN calls
    OBVIOUS
  <2> QED
    BY <1>1, <2>1, RowsAtType DEF Trusted
<1>4. page = SubSeq(rows, Len(reader.got) + 1, Min({Len(reader.got) + PageSize, Len(rows)}))
  BY DEF PageOf
<1> HIDE DEF rows
<1>5. Len(reader.got) = n /\ Len(rows) \in Nat /\ n \in Nat
  BY <1>2, <1>3
<1>6. Min({n + PageSize, Len(rows)}) = IF n + PageSize <= Len(rows) THEN n + PageSize ELSE Len(rows)
  <2>1. n + PageSize \in Int /\ Len(rows) \in Int
    BY <1>5, CallsAssumption
  <2> QED
    BY <2>1 DEF Min
<1> DEFINE end == Min({n + PageSize, Len(rows)})
<1>7. end \in n .. Len(rows) /\ page = SubSeq(rows, n + 1, end)
  <2>1. PageSize \in Nat /\ n <= Len(rows)
    BY <1>2, CallsAssumption
  <2>2. end \in n .. Len(rows)
    BY <1>5, <1>6, <2>1
  <2>3. page = SubSeq(rows, n + 1, end)
    BY <1>4, <1>5
  <2> QED
    BY <2>2, <2>3
<1> HIDE DEF end
<1>m. PICK m \in n .. Len(rows) : page = SubSeq(rows, n + 1, m)
  BY <1>7
<1> HIDE DEF page
<1>8. reader.got \o page = SubSeq(rows, 1, m)
  BY <1>2, <1>3, <1>5, <1>m
<1>9. /\ reader'.port = reader.port /\ reader'.got = SubSeq(rows, 1, m)
      /\ reader' \in [port : Ports \cup {Unread}, got : Seq(AllRows)]
  <2>1. SubSeq(rows, 1, m) \in Seq(AllRows)
    BY <1>3, <1>5, <1>m
  <2> QED
    BY <1>1, <1>8, <2>1
<1>10. m \in 0 .. Len(rows)
  BY <1>5, <1>m
<1>11. Trusted(calls', reader'.port) = rows
  BY <1>1, <1>9 DEF rows
<1> QED
  BY <1>9, <1>10, <1>11 DEF PagesSoFar

LEMMA CallsInvInit ==
  ASSUME CallsInit
  PROVE  CallsInv
<1>1. /\ calls = <<>> /\ pending = <<>> /\ ingested = {} /\ reports = <<>>
      /\ reader = [port |-> Unread, got |-> <<>>]
  BY DEF CallsInit
<1>2. RecordOnce
  BY <1>1 DEF RecordOnce, IsInjective
<1>3. PendingFresh
  BY <1>1 DEF PendingFresh, IsInjective, Range
<1>4. PendingCompletes /\ IngestedWhole /\ AnsweredFrom
  BY <1>1 DEF PendingCompletes, IngestedWhole, AnsweredFrom
<1>5. PagesSoFar
  BY <1>1 DEF PagesSoFar
<1> QED
  BY <1>2, <1>3, <1>4, <1>5 DEF CallsInv

(* Only WriteRow moves the file, only the client what it has got.          *)
LEMMA PagesStay ==
  ASSUME PagesSoFar, UNCHANGED <<calls, reader>>
  PROVE  PagesSoFar'
<1>1. calls' = calls /\ reader' = reader
  OBVIOUS
<1> QED
  BY <1>1 DEF PagesSoFar

LEMMA CallsInvStep ==
  ASSUME CallsInv, [CallsNext]_callsVars
  PROVE  CallsInv'
<1> USE DEF CallsInv
<1>1. ASSUME NEW hash \in DOMAIN Reports, Ingest(hash)
      PROVE  CallsInv'
  <2>1. PendingFresh' /\ PendingCompletes' /\ IngestedWhole'
    BY <1>1, IngestKeeps
  <2>2. UNCHANGED <<calls, reader, reports>>
    BY <1>1 DEF Ingest
  <2>3. RecordOnce' /\ AnsweredFrom'
    BY <2>2 DEF RecordOnce, AnsweredFrom
  <2> QED
    BY <2>1, <2>2, <2>3, PagesStay
<1>2. CASE WriteRow
  BY <1>2, WriteKeeps
<1>3. CASE KillIngest
  <2>1. UNCHANGED <<calls, ingested, reader, reports>> /\ pending' = <<>>
    BY <1>3 DEF KillIngest
  <2>2. PendingFresh'
    BY <2>1 DEF PendingFresh, IsInjective, Range
  <2>3. PendingCompletes' /\ RecordOnce' /\ AnsweredFrom' /\ IngestedWhole'
    BY <2>1 DEF PendingCompletes, RecordOnce, AnsweredFrom, IngestedWhole
  <2> QED
    BY <2>1, <2>2, <2>3, PagesStay
<1>4. ASSUME NEW question \in Questions, Ask(question)
      PROVE  CallsInv'
  <2>1. /\ UNCHANGED <<calls, pending, ingested, reader>>
        /\ reports' = [q \in DOMAIN reports \cup {question} |->
                        IF q = question THEN Reality(question, calls) ELSE reports[q]]
    BY <1>4 DEF Ask
  <2>2. RecordOnce' /\ PendingFresh' /\ PendingCompletes' /\ IngestedWhole'
    BY <2>1 DEF RecordOnce, PendingFresh, PendingCompletes, IngestedWhole
  <2>3. AnsweredFrom'
    <3> SUFFICES ASSUME NEW q \in DOMAIN reports'
                 PROVE  \E held \in Seq(AllRows) : reports'[q] = Reality(q, held)
      BY DEF AnsweredFrom
    <3>1. CASE q = question
      <4>1. reports'[q] = Reality(question, calls) /\ calls \in Seq(AllRows)
        BY <2>1, <3>1 DEF RecordOnce
      <4> QED
        BY <3>1, <4>1
    <3>2. CASE q # question
      <4>1. q \in DOMAIN reports /\ reports'[q] = reports[q]
        BY <2>1, <3>2
      <4> QED
        BY <4>1 DEF AnsweredFrom
    <3> QED
      BY <3>1, <3>2
  <2> QED
    BY <2>1, <2>2, <2>3, PagesStay
<1>5. CASE \/ \E port \in Ports : StartPaging(port)
           \/ EndPaging
  <2>1. /\ UNCHANGED <<calls, pending, ingested, reports>>
        /\ \E port \in Ports \cup {Unread} : reader' = [port |-> port, got |-> <<>>]
    BY <1>5 DEF StartPaging, EndPaging
  <2>2. /\ RecordOnce' /\ PendingFresh' /\ PendingCompletes' /\ IngestedWhole'
        /\ AnsweredFrom'
    BY <2>1 DEF RecordOnce, PendingFresh, PendingCompletes, IngestedWhole, AnsweredFrom
  <2>3. PagesSoFar'
    <3>1. PICK port \in Ports \cup {Unread} : reader' = [port |-> port, got |-> <<>>]
      BY <2>1
    <3>2. reader' \in [port : Ports \cup {Unread}, got : Seq(AllRows)]
      BY <3>1
    <3>3. Trusted(calls', port) \in Seq(AllRows)
      <4>1. calls' \in Seq(AllRows)
        BY <2>1 DEF RecordOnce
      <4>2. {i \in DOMAIN calls' : calls'[i].trusted /\ calls'[i].port = port}
              \subseteq DOMAIN calls'
        OBVIOUS
      <4> QED
        BY <4>1, <4>2, RowsAtType DEF Trusted
    <3>4. /\ reader'.port = port /\ reader'.got = <<>>
          /\ 0 \in 0 .. Len(Trusted(calls', port))
          /\ <<>> = SubSeq(Trusted(calls', port), 1, 0)
      BY <3>1, <3>3
    <3> QED
      BY <3>2, <3>4 DEF PagesSoFar
  <2> QED
    BY <2>2, <2>3
<1>6. CASE NextPage
  <2>1. UNCHANGED <<calls, pending, torn, ingested, reports>>
    BY <1>6 DEF NextPage
  <2>2. /\ RecordOnce' /\ PendingFresh' /\ PendingCompletes' /\ IngestedWhole'
        /\ AnsweredFrom'
    BY <2>1 DEF RecordOnce, PendingFresh, PendingCompletes, IngestedWhole, AnsweredFrom
  <2> QED
    BY <1>6, <2>2, PageKeeps
<1>7. CASE RestartDesk
  <2>1. UNCHANGED <<calls, pending, ingested, reader>> /\ reports' = <<>>
    BY <1>7 DEF RestartDesk
  <2>2. /\ RecordOnce' /\ PendingFresh' /\ PendingCompletes' /\ IngestedWhole'
        /\ AnsweredFrom'
    BY <2>1 DEF RecordOnce, PendingFresh, PendingCompletes, IngestedWhole, AnsweredFrom
  <2> QED
    BY <2>1, <2>2, PagesStay
<1>8. CASE UNCHANGED callsVars
  <2>1. UNCHANGED <<calls, pending, ingested, reader, reports>>
    BY <1>8 DEF callsVars
  <2>2. /\ RecordOnce' /\ PendingFresh' /\ PendingCompletes' /\ IngestedWhole'
        /\ AnsweredFrom'
    BY <2>1 DEF RecordOnce, PendingFresh, PendingCompletes, IngestedWhole, AnsweredFrom
  <2> QED
    BY <2>1, <2>2, PagesStay
<1> QED
  BY <1>1, <1>2, <1>3, <1>4, <1>5, <1>6, <1>7, <1>8 DEF CallsNext

LEMMA WholeAndOnce ==
  ASSUME CallsInv
  PROVE  ReportsAreWholeAndOnce
<1> SUFFICES ASSUME NEW hash \in ingested, NEW k \in DOMAIN Reports[hash].lines
             PROVE  Cardinality({i \in DOMAIN calls : calls[i] = ParsedRow(hash, k)}) = 1
  BY DEF ReportsAreWholeAndOnce
<1>1. /\ calls \in Seq(AllRows) /\ IsInjective(calls) /\ hash \in DOMAIN Reports
      /\ Range(ParsedReport(hash)) \subseteq Range(calls)
  BY DEF CallsInv, RecordOnce, IngestedWhole
<1>2. ParsedRow(hash, k) \in Range(ParsedReport(hash))
  <2>1. k \in DOMAIN ParsedReport(hash) /\ ParsedReport(hash)[k] = ParsedRow(hash, k)
    BY DEF ParsedReport
  <2> QED
    BY <2>1 DEF Range
<1>3. PICK i \in DOMAIN calls : calls[i] = ParsedRow(hash, k)
  BY <1>1, <1>2 DEF Range
<1>4. {j \in DOMAIN calls : calls[j] = ParsedRow(hash, k)} = {i}
  BY <1>1, <1>3 DEF IsInjective
<1> QED
  BY <1>4, FS_Singleton

LEMMA PagesAreAPrefix ==
  ASSUME CallsInv
  PROVE  PagesAddUp
<1> SUFFICES ASSUME reader.port # Unread
             PROVE  IsPrefix(reader.got, Trusted(calls, reader.port))
  BY DEF PagesAddUp
<1> DEFINE rows == Trusted(calls, reader.port)
<1>1. PICK n \in 0 .. Len(rows) : reader.got = SubSeq(rows, 1, n)
  BY DEF CallsInv, PagesSoFar
<1>2. rows \in Seq(AllRows)
  <2>1. {i \in DOMAIN calls : calls[i].trusted /\ calls[i].port = reader.port}
          \subseteq DOMAIN calls
    OBVIOUS
  <2> QED
    BY <2>1, RowsAtType DEF Trusted, CallsInv, RecordOnce
<1> HIDE DEF rows
<1>3. Len(SubSeq(rows, 1, n)) = n /\ n <= Len(rows)
  BY <1>1, <1>2
<1>4. SubSeq(rows, 1, n) = SubSeq(rows, 1, Len(SubSeq(rows, 1, n)))
  BY <1>3
<1>5. IsPrefix(reader.got, rows)
  BY <1>1, <1>3, <1>4 DEF IsPrefix
<1> QED
  BY <1>5 DEF rows

LEMMA VerdictsRest ==
  ASSUME CallsInv
  PROVE  EvidenceMovesNoVerdict
<1>1. \A question, held : /\ Reality(question, held).verdict = Reality(question, <<>>).verdict
                          /\ Reality(question, held).margin = Reality(question, <<>>).margin
  BY DEF Reality, DeclaredLimits
<1> QED
  BY <1>1 DEF CallsInv, AnsweredFrom, EvidenceMovesNoVerdict

\* A finite set of integers that has a member has a greatest one: the least
\* set that had none would have one less its greatest.
LEMMA ClearedAreTested ==
  ASSUME CallsInv
  PROVE  ClearedMeansTested
<1> SUFFICES ASSUME NEW question \in DOMAIN reports, question.port \in RegisterPorts,
                    reports[question].verdict = "FEASIBLE"
             PROVE  \E i \in DOMAIN Registry :
                      /\ Registry[i].berth = reports[question].berth /\ ~Registry[i].daily
                      /\ Registry[i].limit["draft"] # Unpublished
                      /\ question.vessel["draft"] <= Registry[i].limit["draft"]
                      /\ ~TideHolds(Registry[i].berth, question)
  BY DEF ClearedMeansTested
<1> DEFINE rows == Candidates(Registry, question.port, question.wanted, question.day)
           cleared == SelectInSeq(rows, LAMBDA row : Clears(row, question.vessel))
           chosen == rows[IF cleared = 0 THEN 1 ELSE cleared]
           check == CheckVessel(Registry, question.port, question.wanted, question.day,
                                question.vessel)
<1>1. PICK held : reports[question] = Reality(question, held)
  BY DEF CallsInv, AnsweredFrom
<1>2. /\ rows \in Seq(Row)
      /\ \A row \in Range(rows) : row \in Range(Registry)
  BY RegistryAssumption, CandidatesAre
<1>3. cleared # 0 => cleared \in DOMAIN rows /\ Clears(rows[cleared], question.vessel)
  <2> HIDE DEF rows
  <2>1. /\ cleared = 0 => \A k \in DOMAIN rows : ~Clears(rows[k], question.vessel)
        /\ cleared # 0 => cleared \in DOMAIN rows /\ Clears(rows[cleared], question.vessel)
        /\ cleared # 0 => \A k \in DOMAIN rows : k < cleared => ~Clears(rows[k], question.vessel)
    BY <1>2, ClearingIs
  <2> HIDE DEF cleared
  <2> QED
    BY <2>1
<1>4. check = IF rows # <<>>
              THEN Verdict(cleared # 0, chosen.berth, "REGISTER", ResolvedLimit(chosen, "draft"),
                           question.vessel)
              ELSE IF RowsInForce(Registry, question.port, question.day, FALSE) # <<>>
                   THEN [Nothing EXCEPT !.source = "REGISTER"]
                   ELSE Nothing
  BY DEF CheckVessel
<1>5. BindingRow(question) = chosen
  BY DEF BindingRow
<1> HIDE DEF rows, cleared, chosen, check
<1>6. /\ reports[question].verdict =
           IF check.source = "NOTHING" THEN "CANNOT_VERIFY"
           ELSE IF ~check.feasible THEN "INFEASIBLE"
           ELSE IF /\ check.berth # Unpublished
                   /\ \/ DraftUntested(ResolvedLimit(BindingRow(question), "draft"))
                      \/ TideHolds(check.berth, question)
                THEN "CANNOT_VERIFY"
                ELSE "FEASIBLE"
      /\ reports[question].berth = check.berth
  BY <1>1 DEF Reality, check
<1>7. check.feasible /\ check.source # "NOTHING"
  BY <1>6
<1>8. rows # <<>> /\ cleared # 0 /\ check.berth = chosen.berth
  BY <1>4, <1>7 DEF Verdict, Nothing
<1>9. /\ chosen = rows[cleared] /\ cleared \in DOMAIN rows
      /\ Clears(chosen, question.vessel)
  BY <1>3, <1>8 DEF chosen
<1>10. PICK i \in DOMAIN Registry : Registry[i] = chosen
  BY <1>2, <1>9 DEF Range
<1>11. chosen \in Row
  BY <1>2, <1>9
<1>12. chosen.berth # Unpublished
  BY <1>11, RegistryAssumption DEF Row
<1>13. /\ ResolvedLimit(chosen, "draft") # Unpublished
       /\ ~TideHolds(chosen.berth, question)
  BY <1>5, <1>6, <1>8, <1>12 DEF DraftUntested
<1>14. ~chosen.daily /\ chosen.limit["draft"] # Unpublished
       /\ ResolvedLimit(chosen, "draft") = chosen.limit["draft"]
  BY <1>13 DEF ResolvedLimit
<1>15. question.vessel["draft"] <= chosen.limit["draft"]
  BY <1>9, <1>13, <1>14 DEF Clears, Checks
<1> QED
  BY <1>6, <1>8, <1>10, <1>13, <1>14, <1>15

-----------------------------------------------------------------------------

(* The rows of named ships, each of which is on one call: a ship and when  *)
(* she arrived.  The latest of them are those of the newest date.          *)
Named(rows) == {row \in Range(rows) : row.arrived # Unread /\ row.ship # Unread}
Made(rows) == {<<row.ship, row.arrived>> : row \in Named(rows)}
On(rows, call) == {row \in Named(rows) : <<row.ship, row.arrived>> = call}
LatestOf(rows, call) ==
  {row \in On(rows, call) : \A other \in On(rows, call) : other.date <= row.date}

(* The rows that stand for their calls, and the calls whose latest rows    *)
(* all, or some, have a wait.                                              *)
LastWaits(rows) ==
  {rows[i] : i \in {k \in DOMAIN rows :
     rows[k] \in Named(rows) /\ IsLast(rows, k) /\ HasWait(rows[k])}}
Surely(rows) == {call \in Made(rows) : \A row \in LatestOf(rows, call) : HasWait(row)}
Perhaps(rows) == {call \in Made(rows) : \E row \in LatestOf(rows, call) : HasWait(row)}

LEMMA RowDates == \A row \in AllRows : row.date \in Nat
<1> SUFFICES ASSUME NEW row \in AllRows PROVE row.date \in Nat
  OBVIOUS
<1>1. row.hash \in DOMAIN Reports /\ row = ParsedRow(row.hash, row.index)
  BY RowTells
<1>2. row.date = Reports[row.hash].date
  BY <1>1 DEF ParsedRow
<1> QED
  BY <1>1, <1>2, ReportsAssumption

(* Every call of a named ship has a last row, of the newest date.          *)
LEMMA CallsHaveLast ==
  ASSUME NEW rows \in Seq(AllRows), NEW r \in Named(rows)
  PROVE  \E i \in DOMAIN rows :
           rows[i] \in LatestOf(rows, <<r.ship, r.arrived>>) /\ IsLast(rows, i)
<1> DEFINE Same == {i \in DOMAIN rows : rows[i].ship = r.ship /\ rows[i].arrived = r.arrived}
           dates == {rows[i].date : i \in Same}
<1>1. Len(rows) \in Nat /\ DOMAIN rows = 1 .. Len(rows)
      /\ \A i \in DOMAIN rows : rows[i] \in AllRows
  OBVIOUS
<1>2. IsFiniteSet(Same) /\ Same \subseteq Int
  <2>1. IsFiniteSet(1 .. Len(rows))
    BY <1>1, FS_Interval
  <2>2. Same \subseteq 1 .. Len(rows)
    BY <1>1
  <2> QED
    BY <1>1, <2>1, <2>2, FS_Subset
<1>3. Same # {}
  BY DEF Named, Range
<1>4. IsFiniteSet(dates) /\ dates \subseteq Int /\ dates # {}
  <2>1. \A i \in Same : rows[i].date \in Nat
    BY <1>1, RowDates
  <2>2. IsFiniteSet(dates)
    <3> DEFINE f == [i \in Same |-> rows[i].date]
    <3>1. DOMAIN f = Same /\ Range(f) = dates
      BY DEF Range
    <3> HIDE DEF Same, f, dates
    <3> QED
      BY <1>2, <3>1, ImageIsFinite
  <2> QED
    BY <1>3, <2>1, <2>2
<1>5. PICK newest \in dates : \A x \in dates : newest >= x
  <2> HIDE DEF dates
  <2> QED
    BY <1>4, FiniteHasMax
<1> DEFINE top == {i \in Same : rows[i].date = newest}
<1>6. top # {} /\ top \subseteq Same
  BY <1>5
<1> HIDE DEF top, Same
<1>7. PICK i \in top : \A j \in top : i >= j
  <2>1. IsFiniteSet(top) /\ top \subseteq Int
    BY <1>2, <1>6, FS_Subset
  <2> QED
    BY <1>6, <2>1, FiniteHasMax
<1>8. /\ i \in DOMAIN rows /\ rows[i].ship = r.ship /\ rows[i].arrived = r.arrived
      /\ rows[i].date = newest
  BY <1>7 DEF top, Same
<1>9. IsLast(rows, i)
  <2> SUFFICES ASSUME NEW j \in DOMAIN rows \ {i},
                      rows[j].ship = rows[i].ship, rows[j].arrived = rows[i].arrived
               PROVE  \/ rows[j].date < rows[i].date
                      \/ rows[j].date = rows[i].date /\ j < i
    BY DEF IsLast
  <2>1. j \in Same
    BY <1>8 DEF Same
  <2>2. newest >= rows[j].date /\ newest \in Int /\ rows[j].date \in Int
    BY <1>4, <1>5, <2>1
  <2>3. CASE rows[j].date = newest
    <3>1. i >= j /\ i # j /\ i \in Int /\ j \in Int
      BY <1>1, <1>7, <1>8, <2>1, <2>3 DEF top
    <3> QED
      BY <1>8, <2>3, <3>1
  <2>4. CASE rows[j].date # newest
    BY <1>8, <2>2, <2>4
  <2> QED
    BY <2>3, <2>4
<1>10. rows[i] \in On(rows, <<r.ship, r.arrived>>)
  BY <1>8 DEF On, Named, Range
<1>11. ASSUME NEW row \in On(rows, <<r.ship, r.arrived>>)
       PROVE  row.date <= rows[i].date
  <2>1. PICK j \in DOMAIN rows : row = rows[j] /\ j \in Same
    BY DEF On, Named, Range, Same
  <2>2. newest >= rows[j].date /\ newest \in Int /\ rows[j].date \in Int
    BY <1>4, <1>5, <2>1
  <2> QED
    BY <1>8, <2>1, <2>2
<1> QED
  BY <1>8, <1>9, <1>10, <1>11 DEF LatestOf

LEMMA LastIsNewest ==
  ASSUME NEW rows \in Seq(AllRows), NEW i \in DOMAIN rows,
         rows[i] \in Named(rows), IsLast(rows, i)
  PROVE  rows[i] \in LatestOf(rows, <<rows[i].ship, rows[i].arrived>>)
<1>1. rows[i] \in On(rows, <<rows[i].ship, rows[i].arrived>>)
  BY DEF On
<1>2. ASSUME NEW s \in On(rows, <<rows[i].ship, rows[i].arrived>>)
      PROVE  s.date <= rows[i].date
  <2>1. PICK j \in DOMAIN rows : s = rows[j]
    BY DEF On, Named, Range
  <2>2. rows[j].ship = rows[i].ship /\ rows[j].arrived = rows[i].arrived
    BY <2>1 DEF On
  <2>3. rows[i] \in AllRows /\ rows[j] \in AllRows
    OBVIOUS
  <2>4. rows[i].date \in Int /\ rows[j].date \in Int
    BY <2>3, RowDates
  <2>5. j = i \/ rows[j].date < rows[i].date \/ rows[j].date = rows[i].date
    BY <2>2 DEF IsLast
  <2> QED
    BY <2>1, <2>4, <2>5
<1> QED
  BY <1>1, <1>2 DEF LatestOf

(* A call all whose latest rows have a wait has a row that stands for it   *)
(* and waits, and no other such row is on that call; and a row that stands *)
(* for a call is one of its latest.                                        *)
LEMMA CallsAreCounted ==
  ASSUME NEW rows \in Seq(AllRows)
  PROVE  /\ IsFiniteSet(LastWaits(rows))
         /\ Cardinality(Surely(rows)) <= Cardinality(LastWaits(rows))
         /\ Cardinality(LastWaits(rows)) <= Cardinality(Perhaps(rows))
<1> DEFINE L == LastWaits(rows)
           f == [row \in L |-> <<row.ship, row.arrived>>]
           sure == {row \in L : f[row] \in Surely(rows)}
           g == [row \in sure |-> f[row]]
<1>1. Len(rows) \in Nat /\ DOMAIN rows = 1 .. Len(rows)
      /\ \A i \in DOMAIN rows : rows[i] \in AllRows
  OBVIOUS
<1>2. IsFiniteSet(DOMAIN rows)
  BY <1>1, FS_Interval
<1>3. IsFiniteSet(Range(rows))
  BY <1>2, ImageIsFinite
<1>4. IsFiniteSet(L)
  <2>1. L \subseteq Range(rows)
    BY DEF LastWaits, Range
  <2> QED
    BY <1>3, <2>1, FS_Subset
<1>5. IsFiniteSet(Perhaps(rows))
  <2> DEFINE h == [row \in Named(rows) |-> <<row.ship, row.arrived>>]
  <2>1. Named(rows) \subseteq Range(rows)
    BY DEF Named
  <2>2. IsFiniteSet(DOMAIN h)
    BY <1>3, <2>1, FS_Subset
  <2>3. Range(h) = Made(rows)
    BY DEF Range, Made
  <2> HIDE DEF h
  <2>4. IsFiniteSet(Made(rows))
    BY <2>2, <2>3, ImageIsFinite
  <2>5. Perhaps(rows) \subseteq Made(rows)
    BY DEF Perhaps
  <2> QED
    BY <2>4, <2>5, FS_Subset
<1>6. ASSUME NEW row \in L
      PROVE  \E i \in DOMAIN rows :
               row = rows[i] /\ row \in Named(rows) /\ IsLast(rows, i) /\ HasWait(row)
  BY DEF LastWaits
<1> HIDE DEF L
<1>7. \A row \in L : f[row] \in Perhaps(rows)
  <2> SUFFICES ASSUME NEW row \in L PROVE <<row.ship, row.arrived>> \in Perhaps(rows)
    OBVIOUS
  <2>1. PICK i \in DOMAIN rows :
          row = rows[i] /\ row \in Named(rows) /\ IsLast(rows, i) /\ HasWait(row)
    BY <1>6
  <2>2. row \in LatestOf(rows, <<row.ship, row.arrived>>)
    BY <2>1, LastIsNewest
  <2> QED
    BY <2>1, <2>2 DEF Perhaps, Made
<1>8. ASSUME NEW r \in L, NEW s \in L, f[r] = f[s]
      PROVE  r = s
  <2>1. PICK i \in DOMAIN rows : r = rows[i] /\ IsLast(rows, i)
    BY <1>6
  <2>2. PICK j \in DOMAIN rows : s = rows[j] /\ IsLast(rows, j)
    BY <1>6
  <2>3. r.ship = s.ship /\ r.arrived = s.arrived
    BY <1>8
  <2>4. r.date \in Int /\ s.date \in Int /\ i \in Int /\ j \in Int
    BY <1>1, <2>1, <2>2, RowDates
  <2>5. i # j => (r.date < s.date \/ (r.date = s.date /\ i < j))
                 /\ (s.date < r.date \/ (s.date = r.date /\ j < i))
    BY <2>1, <2>2, <2>3 DEF IsLast
  <2>6. i = j
    BY <2>4, <2>5
  <2> QED
    BY <2>1, <2>2, <2>6
<1>9. ASSUME NEW call \in Surely(rows)
      PROVE  \E row \in L : f[row] = call
  <2>1. PICK r \in Named(rows) : call = <<r.ship, r.arrived>>
    BY DEF Surely, Made
  <2>2. PICK i \in DOMAIN rows :
          rows[i] \in LatestOf(rows, <<r.ship, r.arrived>>) /\ IsLast(rows, i)
    BY CallsHaveLast
  <2>3. HasWait(rows[i])
    BY <2>1, <2>2 DEF Surely
  <2>4. rows[i] \in Named(rows) /\ <<rows[i].ship, rows[i].arrived>> = call
    BY <2>1, <2>2 DEF LatestOf, On
  <2>5. rows[i] \in L
    BY <2>2, <2>3, <2>4 DEF LastWaits, L
  <2> QED
    BY <2>4, <2>5
<1> HIDE DEF f
<1>10. Cardinality(L) <= Cardinality(Perhaps(rows))
  <2>1. f \in [L -> Perhaps(rows)]
    BY <1>7 DEF f
  <2>2. f \in Injection(L, Perhaps(rows))
    BY <1>8, <2>1 DEF Injection, IsInjective
  <2> QED
    BY <1>5, <2>2, FS_Injection DEF ExistsInjection
<1>11. Cardinality(Surely(rows)) <= Cardinality(L)
  <2>1. IsFiniteSet(sure) /\ Cardinality(sure) <= Cardinality(L)
    BY <1>4, FS_Subset
  <2>2. g \in [sure -> Surely(rows)]
    OBVIOUS
  <2>3. g \in Injection(sure, Surely(rows))
    BY <1>8, <2>2 DEF Injection, IsInjective
  <2>4. g \in Surjection(sure, Surely(rows))
    <3>1. ASSUME NEW call \in Surely(rows)
          PROVE  \E row \in sure : g[row] = call
      BY <1>9
    <3> HIDE DEF sure, g
    <3> QED
      BY <2>2, <3>1 DEF Surjection
  <2> HIDE DEF sure, g
  <2>5. g \in Bijection(sure, Surely(rows))
    BY <2>3, <2>4 DEF Bijection
  <2>6. Cardinality(sure) = Cardinality(Surely(rows))
    BY <2>1, <2>5, FS_Bijection DEF ExistsBijection
  <2> QED
    BY <2>1, <2>6
<1> QED
  BY <1>4, <1>10, <1>11 DEF L

LEMMA WaitsAreCounted ==
  ASSUME CallsInv
  PROVE  WaitsAreOfShips
<1> SUFFICES ASSUME NEW port \in Ports
             PROVE  LET rows    == {row \in Range(Trusted(calls, port)) : row.arrived # Unread}
                        named   == {row \in rows : row.ship # Unread}
                        unnamed == {row \in rows : row.ship = Unread /\ HasWait(row)}
                        made    == {<<row.ship, row.arrived>> : row \in named}
                        OnCall(call) == {row \in named : <<row.ship, row.arrived>> = call}
                        Newest(call) == {row \in OnCall(call) :
                                         \A other \in OnCall(call) : other.date <= row.date}
                        surely  == {call \in made : \A row \in Newest(call) : HasWait(row)}
                        perhaps == {call \in made : \E row \in Newest(call) : HasWait(row)}
                        n == Waits(calls, port).n - Cardinality(unnamed)
                    IN  Cardinality(surely) <= n /\ n <= Cardinality(perhaps)
  BY DEF WaitsAreOfShips
<1> DEFINE T == Trusted(calls, port)
           rows == {row \in Range(T) : row.arrived # Unread}
           named == {row \in rows : row.ship # Unread}
           unnamed == {row \in rows : row.ship = Unread /\ HasWait(row)}
           made == {<<row.ship, row.arrived>> : row \in named}
           OnCall(call) == {row \in named : <<row.ship, row.arrived>> = call}
           Newest(call) == {row \in OnCall(call) :
                            \A other \in OnCall(call) : other.date <= row.date}
           surely == {call \in made : \A row \in Newest(call) : HasWait(row)}
           perhaps == {call \in made : \E row \in Newest(call) : HasWait(row)}
           places == {i \in DOMAIN calls : calls[i].trusted /\ calls[i].port = port}
           counted == {row \in DistinctCalls(T) : HasWait(row)}
<1>1. calls \in Seq(AllRows)
  BY DEF CallsInv, RecordOnce
<1>2. places \subseteq DOMAIN calls /\ T = RowsAt(calls, places)
  BY DEF Trusted
<1>3. T \in Seq(AllRows) /\ Range(T) = {calls[i] : i \in places}
  <2> HIDE DEF T, places
  <2> QED
    BY <1>1, <1>2, RowsAtType
<1>5. Waits(calls, port).n = Cardinality(counted)
  BY DEF Waits
<1> HIDE DEF T
<1>6. named = Named(T)
  BY DEF Named
<1>7. surely = Surely(T) /\ perhaps = Perhaps(T)
  BY <1>6 DEF Surely, Perhaps, Made, LatestOf, On
<1>8. \A row : HasWait(row) => row.arrived # Unread
  BY DEF HasWait
<1>9. counted = LastWaits(T) \cup unnamed
  <2>1. ASSUME NEW row \in counted
        PROVE  row \in LastWaits(T) \cup unnamed
    <3>1. PICK i \in DOMAIN T : row = T[i] /\ HasWait(row)
             /\ (T[i].ship = Unread \/ T[i].arrived = Unread \/ IsLast(T, i))
      BY DEF DistinctCalls
    <3>2. row \in Range(T) /\ row.arrived # Unread
      BY <1>8, <3>1 DEF Range
    <3>3. CASE row.ship = Unread
      BY <3>1, <3>2, <3>3
    <3>4. CASE row.ship # Unread
      BY <3>1, <3>2, <3>4 DEF LastWaits, Named
    <3> QED
      BY <3>3, <3>4
  <2>2. ASSUME NEW row \in LastWaits(T)
        PROVE  row \in counted
    BY DEF LastWaits, DistinctCalls
  <2>3. ASSUME NEW row \in unnamed
        PROVE  row \in counted
    BY DEF DistinctCalls, Range
  <2> HIDE DEF counted, unnamed
  <2> QED
    BY <2>1, <2>2, <2>3
<1>10. LastWaits(T) \cap unnamed = {}
  BY DEF LastWaits, Named
<1>11. /\ IsFiniteSet(LastWaits(T))
       /\ Cardinality(surely) <= Cardinality(LastWaits(T))
       /\ Cardinality(LastWaits(T)) <= Cardinality(perhaps)
  <2> HIDE DEF surely, perhaps
  <2> QED
    BY <1>3, <1>7, CallsAreCounted
<1>12. IsFiniteSet(unnamed)
  <2>1. DOMAIN T = 1 .. Len(T) /\ Len(T) \in Nat
    BY <1>3
  <2>2. IsFiniteSet(DOMAIN T)
    BY <2>1, FS_Interval
  <2>3. IsFiniteSet(Range(T))
    BY <2>2, ImageIsFinite
  <2>4. unnamed \subseteq Range(T)
    OBVIOUS
  <2> HIDE DEF unnamed
  <2> QED
    BY <2>3, <2>4, FS_Subset
<1>13. Cardinality(counted) = Cardinality(LastWaits(T)) + Cardinality(unnamed)
  <2> HIDE DEF counted, unnamed
  <2>1. /\ Cardinality(LastWaits(T)) \in Nat /\ Cardinality(unnamed) \in Nat
        /\ Cardinality({}) = 0
    BY <1>11, <1>12, FS_CardinalityType, FS_EmptySet
  <2>2. Cardinality(counted) = Cardinality(LastWaits(T)) + Cardinality(unnamed)
                               - Cardinality(LastWaits(T) \cap unnamed)
    BY <1>9, <1>11, <1>12, FS_Union
  <2>3. Cardinality(LastWaits(T) \cap unnamed) = 0
    BY <1>10, <2>1
  <2> QED
    BY <2>1, <2>2, <2>3
<1>14. Waits(calls, port).n - Cardinality(unnamed) = Cardinality(LastWaits(T))
  <2> HIDE DEF unnamed, counted
  <2>1. Cardinality(LastWaits(T)) \in Nat /\ Cardinality(unnamed) \in Nat
    BY <1>11, <1>12, FS_CardinalityType
  <2> QED
    BY <1>5, <1>13, <2>1
<1> QED
  BY <1>11, <1>14 DEF T

CallsSpec == CallsInit /\ [][CallsNext]_callsVars

(***************************************************************************)
(* For any reports, taken in in any order, over and over and with kills: a   *)
(* report taken in is in the file whole and once, a wait is counted by ship  *)
(* and call, the pages of calls add up, a ship is cleared against a limit    *)
(* that was tested (append_many, distinct_calls, get_port_calls).            *)
(***************************************************************************)
THEOREM CallsAreOfShipsAlways == CallsSpec => []CallsAreOfShips
<1>1. CallsInv => CallsAreOfShips
  BY WholeAndOnce, PagesAreAPrefix, VerdictsRest, ClearedAreTested, WaitsAreCounted
     DEF CallsAreOfShips
<1>2. CallsInit => CallsInv
  BY CallsInvInit
<1>3. CallsInv /\ [CallsNext]_callsVars => CallsInv'
  BY CallsInvStep
<1> QED
  BY <1>1, <1>2, <1>3, PTL DEF CallsSpec

(***************************************************************************)
(* The census of an anchorage (AnchorageCensus).                             *)
(***************************************************************************)
LEMMA TotalIs ==
  ASSUME NEW f, IsFiniteSet(DOMAIN f), \A x \in DOMAIN f : f[x] \in Int
  PROVE  Total(f) \in Int
<1>1. SumOver(f, DOMAIN f) \in Int
  BY SumIsBounded
<1> QED
  BY <1>1 DEF Total, SumOver

LEMMA MinIs ==
  ASSUME NEW S, S \subseteq Nat, S # {}
  PROVE  Min(S) \in S /\ \A x \in S : Min(S) <= x
<1>1. PICK m \in S : \A x \in S : m <= x
  BY LeastOfSome
<1> QED
  BY <1>1 DEF Min

LEMMA CellsAre ==
  /\ Height \in Nat /\ Width \in Nat /\ IsFiniteSet(Cells)
  /\ \A c \in Cells : /\ c[1] \in 1 .. Height /\ c[2] \in 1 .. Width
                      /\ c = <<c[1], c[2]>>
<1>1. Height \in Nat /\ Width \in Nat
  BY AnchorageAssumption
<1>2. IsFiniteSet(1 .. Height) /\ IsFiniteSet(1 .. Width)
  BY <1>1, FS_Interval
<1>3. IsFiniteSet((1 .. Height) \X (1 .. Width))
  BY <1>2, FS_Product
<1> QED
  BY <1>1, <1>3 DEF Cells

(* Blobs are parts of the mask, and no two of them share a cell.           *)
LEMMA BlobsAre ==
  ASSUME NEW mask
  PROVE  /\ \A b \in Blobs(mask) : b \subseteq mask /\ b # {}
         /\ \A b, e \in Blobs(mask) : b \cap e # {} => b = e
<1> DEFINE ClosedOff(part) == part # {} /\ \A c \in part, d \in mask : Touch(c, d) => d \in part
<1>1. \A b \in Blobs(mask) :
        /\ b \in SUBSET mask /\ ClosedOff(b)
        /\ \A part \in SUBSET mask : ClosedOff(part) /\ part \subseteq b => part = b
  BY DEF Blobs
<1>2. ASSUME NEW b \in Blobs(mask), NEW e \in Blobs(mask), b \cap e # {}
      PROVE  b = e
  <2>1. PICK part : part = b \cap e
    OBVIOUS
  <2>2. part \in SUBSET mask /\ part \subseteq b /\ part \subseteq e
    BY <1>1, <2>1
  <2>3. ClosedOff(part)
    BY <1>1, <1>2, <2>1
  <2>4. part = b /\ part = e
    BY <1>1, <2>2, <2>3
  <2> QED
    BY <2>4
<1> QED
  BY <1>1, <1>2

(* A detection: cells of the raster, and whole figures.                    *)
IsDetection(d) ==
  /\ d.cells \subseteq Cells /\ d.cells # {}
  /\ d.peak \in Int /\ d.mass \in Int /\ d.row \in Int /\ d.col \in Int

LEMMA DetectionIs ==
  ASSUME NEW image \in Image, NEW b, b \subseteq Cells, b # {}
  PROVE  IsDetection(Detection(image, b)) /\ Detection(image, b).cells = b
<1>1. IsFiniteSet(b)
  BY CellsAre, FS_Subset
<1>2. \A c \in b : image[c] \in Int /\ c[1] \in Int /\ c[2] \in Int
  BY CellsAre DEF Image
<1>3. Mass(image, b) \in Int
  <2>1. PICK f : f = [c \in b |-> image[c]]
    OBVIOUS
  <2>2. DOMAIN f = b /\ \A c \in b : f[c] \in Int
    BY <1>2, <2>1
  <2> QED
    BY <1>1, <2>1, <2>2, TotalIs DEF Mass
<1>4. RowSum(image, b) \in Int
  <2>1. PICK f : f = [c \in b |-> c[1] * image[c]]
    OBVIOUS
  <2>2. DOMAIN f = b /\ \A c \in b : f[c] \in Int
    BY <1>2, <2>1
  <2> QED
    BY <1>1, <2>1, <2>2, TotalIs DEF RowSum
<1>5. ColSum(image, b) \in Int
  <2>1. PICK f : f = [c \in b |-> c[2] * image[c]]
    OBVIOUS
  <2>2. DOMAIN f = b /\ \A c \in b : f[c] \in Int
    BY <1>2, <2>1
  <2> QED
    BY <1>1, <2>1, <2>2, TotalIs DEF ColSum
<1>6. Peak(image, b) \in Int
  <2>1. PICK f : f = [c \in b |-> image[c]]
    OBVIOUS
  <2>2. IsFiniteSet(Range(f))
    BY <1>1, <2>1, ImageIsFinite
  <2>3. Range(f) = {image[c] : c \in b}
    BY <2>1 DEF Range
  <2>4. Range(f) \subseteq Int /\ Range(f) # {}
    BY <1>2, <2>3
  <2>5. PICK m \in Range(f) : \A x \in Range(f) : m >= x
    BY <2>2, <2>4, FiniteHasMax
  <2>6. Max(Range(f)) = m
    BY <2>4, <2>5, MaxIs
  <2> QED
    BY <2>3, <2>4, <2>6 DEF Peak
<1> QED
  BY <1>3, <1>4, <1>5, <1>6 DEF Detection, IsDetection

(* What is counted: finitely many detections, no two with a cell in common.*)
Fragments(S) ==
  /\ IsFiniteSet(S)
  /\ \A d \in S : IsDetection(d)
  /\ \A d, e \in S : d.cells \cap e.cells # {} => d = e

LEMMA GatedAre ==
  ASSUME NEW image \in Image, NEW setting
  PROVE  Fragments(Gated(image, setting))
<1>1. PICK mask : mask = {c \in DOMAIN image : StandsOut(image, c)}
  OBVIOUS
<1>2. mask \subseteq Cells
  BY <1>1 DEF Image
<1>3. PICK blobs : blobs = Blobs(mask)
  OBVIOUS
<1>4. /\ \A b \in blobs : b \subseteq Cells /\ b # {}
      /\ \A b, e \in blobs : b \cap e # {} => b = e
  BY <1>2, <1>3, BlobsAre
<1>5. IsFiniteSet(blobs)
  <2>1. blobs \subseteq SUBSET Cells
    BY <1>4
  <2>2. IsFiniteSet(SUBSET Cells)
    BY CellsAre, FS_SUBSET
  <2> QED
    BY <2>1, <2>2, FS_Subset
<1>6. PICK f : f = [b \in blobs |-> Detection(image, b)]
  OBVIOUS
<1>7. PICK found : found = cfar_detect(image)
  OBVIOUS
<1>8. found = {Detection(image, b) : b \in blobs}
  BY <1>1, <1>3, <1>7 DEF cfar_detect
<1>9. found = Range(f)
  BY <1>6, <1>8 DEF Range
<1>10. IsFiniteSet(found)
  BY <1>5, <1>6, <1>9, ImageIsFinite
<1>11. \A b \in blobs : IsDetection(Detection(image, b)) /\ Detection(image, b).cells = b
  BY <1>4, DetectionIs
<1>12. Gated(image, setting) \subseteq found
  BY <1>7 DEF Gated, apply_size_gate, apply_land_mask
<1>13. ASSUME NEW d \in found, NEW e \in found, d.cells \cap e.cells # {}
       PROVE  d = e
  <2>1. PICK b \in blobs, a \in blobs : d = Detection(image, b) /\ e = Detection(image, a)
    BY <1>8
  <2>2. d.cells = b /\ e.cells = a
    BY <1>11, <2>1
  <2>3. b = a
    BY <1>4, <1>13, <2>2
  <2> QED
    BY <2>1, <2>3
<1>14. \A d \in found : IsDetection(d)
  BY <1>8, <1>11
<1>15. IsFiniteSet(Gated(image, setting))
  BY <1>10, <1>12, FS_Subset
<1> QED
  BY <1>12, <1>13, <1>14, <1>15 DEF Fragments

(* Two detections read at the same place share that cell.                  *)
LEMMA PlaceTells ==
  ASSUME NEW c \in Cells, NEW e \in Cells,
         (c[1] - 1) * Width + c[2] = (e[1] - 1) * Width + e[2]
  PROVE  c = e
<1>1. PICK w \in Nat, a \in Int, b \in Int, x \in Int, y \in Int :
        /\ w = Width /\ a = c[1] /\ b = e[1] /\ x = c[2] /\ y = e[2]
        /\ x >= 1 /\ x <= w /\ y >= 1 /\ y <= w
  BY CellsAre
<1>2. (a - 1) * w + x = (b - 1) * w + y
  BY <1>1
<1>3. (a - 1) * w = a * w - w /\ (b - 1) * w = b * w - w
  OBVIOUS
<1>4. a * w + x = b * w + y
  <2>1. PICK u \in Int, v \in Int : u = a * w /\ v = b * w
    BY <1>1
  <2>2. (u - w) + x = (v - w) + y
    BY <1>2, <1>3, <2>1
  <2>3. u + x = v + y
    BY <2>2
  <2> QED
    BY <2>1, <2>3
<1>5. ASSUME NEW p \in Int, NEW q \in Int, p < q PROVE p * w + w <= q * w
  <2>1. PICK k \in Nat : q = p + 1 + k
    <3>1. q - p - 1 \in Nat /\ q = p + 1 + (q - p - 1)
      BY <1>5
    <3> QED
      BY <3>1
  <2>2. (p + 1 + k) * w = p * w + w + k * w
    OBVIOUS
  <2>3. k * w \in Nat /\ p * w \in Int
    BY <1>1
  <2> QED
    BY <2>1, <2>2, <2>3
<1>6. a * w \in Int /\ b * w \in Int
  BY <1>1
<1>7. ~(a < b)
  BY <1>1, <1>4, <1>5, <1>6
<1>8. ~(b < a)
  BY <1>1, <1>4, <1>5, <1>6
<1>9. a = b
  BY <1>1, <1>7, <1>8
<1>10. x = y
  BY <1>1, <1>4, <1>6, <1>9
<1> QED
  BY <1>1, <1>9, <1>10, CellsAre

LEMMA ReadBlobIs ==
  ASSUME NEW d, IsDetection(d)
  PROVE  ReadBlob(d) \in Nat /\ \E c \in d.cells : ReadBlob(d) = (c[1] - 1) * Width + c[2]
<1>1. PICK T : T = {(c[1] - 1) * Width + c[2] : c \in d.cells}
  OBVIOUS
<1>2. \A c \in d.cells : (c[1] - 1) * Width + c[2] \in Nat
  <2> SUFFICES ASSUME NEW c \in d.cells PROVE (c[1] - 1) * Width + c[2] \in Nat
    OBVIOUS
  <2>1. PICK a \in Nat, w \in Nat, x \in Nat : a = c[1] - 1 /\ w = Width /\ x = c[2]
    BY CellsAre DEF IsDetection
  <2>2. a * w + x \in Nat
    OBVIOUS
  <2> QED
    BY <2>1, <2>2
<1>3. T \subseteq Nat /\ T # {}
  BY <1>1, <1>2 DEF IsDetection
<1>4. Min(T) \in T
  BY <1>3, MinIs
<1> QED
  BY <1>1, <1>3, <1>4 DEF ReadBlob

(* The order of the merge is strict and total among the fragments.         *)
StrongerIn(S) == {p \in S \X S : Stronger(p[1], p[2])}

LEMMA StrongerIs ==
  ASSUME NEW S, Fragments(S)
  PROVE  /\ \A d, e \in S : <<d, e>> \in StrongerIn(S) <=> Stronger(d, e)
         /\ StrictOrder(StrongerIn(S), S)
<1>1. ASSUME NEW d \in S, NEW e \in S
      PROVE  <<d, e>> \in StrongerIn(S) <=> Stronger(d, e)
  <2>1. PICK p : p = <<d, e>>
    OBVIOUS
  <2>2. p \in S \X S /\ p[1] = d /\ p[2] = e
    BY <2>1
  <2>3. p \in StrongerIn(S) <=> Stronger(p[1], p[2])
    BY <2>2 DEF StrongerIn
  <2> QED
    BY <2>1, <2>2, <2>3
<1>2. PICK R : R = StrongerIn(S)
  OBVIOUS
<1>3. PICK peak, place : /\ peak = [d \in S |-> d.peak] /\ place = [d \in S |-> ReadBlob(d)]
  OBVIOUS
<1>4. \A d \in S : peak[d] \in Int /\ place[d] \in Int /\ peak[d] = d.peak /\ place[d] = ReadBlob(d)
  BY <1>3, ReadBlobIs DEF Fragments, IsDetection
<1>5. \A d, e \in S :
        <<d, e>> \in R <=> peak[d] > peak[e] \/ (peak[d] = peak[e] /\ place[d] < place[e])
  BY <1>1, <1>2, <1>4 DEF Stronger
<1>6. ASSUME NEW d \in S, NEW e \in S, place[d] = place[e]
      PROVE  d = e
  <2>1. IsDetection(d) /\ IsDetection(e)
    BY DEF Fragments
  <2>2. PICK c \in d.cells : place[d] = (c[1] - 1) * Width + c[2]
    BY <1>4, <2>1, ReadBlobIs
  <2>3. PICK a \in e.cells : place[e] = (a[1] - 1) * Width + a[2]
    BY <1>4, <2>1, ReadBlobIs
  <2>4. c \in Cells /\ a \in Cells
    BY <2>1 DEF IsDetection
  <2>5. c = a
    BY <1>6, <2>2, <2>3, <2>4, PlaceTells
  <2>6. d.cells \cap e.cells # {}
    BY <2>5
  <2> QED
    BY <2>6 DEF Fragments
<1>7. \A d \in S : <<d, d>> \notin R
  BY <1>4, <1>5
<1>8. \A d, e \in S : d # e => <<d, e>> \in R \/ <<e, d>> \in R
  BY <1>4, <1>5, <1>6
<1>9. \A d, e, f \in S : <<d, e>> \in R /\ <<e, f>> \in R => <<d, f>> \in R
  <2> SUFFICES ASSUME NEW d \in S, NEW e \in S, NEW f \in S, <<d, e>> \in R, <<e, f>> \in R
               PROVE  <<d, f>> \in R
    OBVIOUS
  <2>1. PICK a \in Int, b \in Int, c \in Int : a = peak[d] /\ b = peak[e] /\ c = peak[f]
    BY <1>4
  <2>2. PICK x \in Int, y \in Int, z \in Int : x = place[d] /\ y = place[e] /\ z = place[f]
    BY <1>4
  <2>3. (a > b \/ (a = b /\ x < y)) /\ (b > c \/ (b = c /\ y < z))
    BY <1>5, <2>1, <2>2
  <2>4. a > c \/ (a = c /\ x < z)
    BY <2>3
  <2> QED
    BY <1>5, <2>1, <2>2, <2>4
<1> QED
  BY <1>1, <1>2, <1>7, <1>8, <1>9 DEF StrictOrder

(* The fragments in that order: each has one place.                        *)
ByStrength(order, n, S) ==
  /\ n \in Nat /\ order \in [1 .. n -> S]
  /\ \A d \in S : \E k \in 1 .. n : order[k] = d
  /\ \A k, l \in 1 .. n : k < l => order[k] # order[l] /\ order[k].peak >= order[l].peak

LEMMA StrongestFirst ==
  ASSUME NEW S, Fragments(S)
  PROVE  \E n \in Nat : /\ ByStrength(InOrder(S, Stronger), n, S)
                        /\ Len(InOrder(S, Stronger)) = n
<1>1. PICK R : R = StrongerIn(S)
  OBVIOUS
<1>2. StrictOrder(R, S) /\ \A d, e \in S : <<d, e>> \in R <=> Stronger(d, e)
  BY <1>1, StrongerIs
<1>3. PICK order : order = Numbering(S, R)
  OBVIOUS
<1>4. PICK n : n = Cardinality(S)
  OBVIOUS
<1>5. n \in Nat /\ Numbers(order, S, R, n)
  BY <1>2, <1>3, <1>4, InOrderIs DEF Fragments
<1>6. InOrder(S, Stronger) = order
  <2>1. InOrder(S, Stronger) =
          [k \in 1 .. Cardinality(S) |->
             CHOOSE x \in S : Cardinality({y \in S : Stronger(y, x)}) = k - 1]
    BY DEF InOrder
  <2>2. \A x \in S : {y \in S : Stronger(y, x)} = {y \in S : <<y, x>> \in R}
    BY <1>2
  <2> QED
    BY <1>3, <2>1, <2>2 DEF Numbering, Leading
<1>7. /\ order \in [1 .. n -> S]
      /\ \A k, l \in 1 .. n : <<order[k], order[l]>> \in R <=> k < l
      /\ \A d \in S : \E k \in 1 .. n : order[k] = d
  BY <1>5 DEF Numbers
<1>8. ASSUME NEW k \in 1 .. n, NEW l \in 1 .. n, k < l
      PROVE  order[k] # order[l] /\ order[k].peak >= order[l].peak
  <2>1. PICK d \in S, e \in S : d = order[k] /\ e = order[l]
    BY <1>7
  <2>2. <<d, e>> \in R
    BY <1>7, <1>8, <2>1
  <2>3. d # e
    BY <1>2, <2>2 DEF StrictOrder
  <2>4. Stronger(d, e)
    BY <1>2, <2>2
  <2>5. d.peak \in Int /\ e.peak \in Int
    BY DEF Fragments, IsDetection
  <2>6. d.peak >= e.peak
    BY <2>4, <2>5 DEF Stronger
  <2> QED
    BY <2>1, <2>3, <2>6
<1>9. Len(order) = n
  BY <1>5, <1>7
<1> QED
  BY <1>5, <1>6, <1>7, <1>8, <1>9 DEF ByStrength

(* The merge, one fragment after the other.                                *)
Taken(order, f, k) == IF k = 0 THEN <<>> ELSE Absorb(f[k - 1], order[k])
Merges(order, f) == f = [k \in 0 .. Len(order) |-> Taken(order, f, k)]
MergeOf(order) == CHOOSE f : Merges(order, f)

MergesTo(order, f, n, m) ==
  /\ f = [k \in 0 .. n |-> f[k]]
  /\ \A k \in 0 .. n : k <= m => f[k] = Taken(order, f, k)

LEMMA MergeGrows ==
  ASSUME NEW order, NEW n \in Nat, NEW m \in Nat, NEW f, MergesTo(order, f, n, m)
  PROVE  \E g : MergesTo(order, g, n, m + 1)
<1>1. PICK g : g = [k \in 0 .. n |-> Taken(order, f, k)]
  OBVIOUS
<1>2. \A k \in 0 .. n : g[k] = Taken(order, f, k)
  BY <1>1
<1>3. g = [k \in 0 .. n |-> g[k]]
  BY <1>1
<1>4. ASSUME NEW k \in 0 .. n, k <= m + 1
      PROVE  g[k] = Taken(order, g, k)
  <2>1. CASE k = 0
    BY <1>2, <2>1 DEF Taken
  <2>2. CASE k # 0
    <3>1. k - 1 \in 0 .. n /\ k - 1 <= m
      BY <1>4, <2>2
    <3>2. g[k - 1] = f[k - 1]
      BY <1>2, <3>1 DEF MergesTo
    <3>3. Taken(order, g, k) = Taken(order, f, k)
      BY <2>2, <3>2 DEF Taken
    <3> QED
      BY <1>2, <3>3
  <2> QED
    BY <2>1, <2>2
<1> QED
  BY <1>3, <1>4 DEF MergesTo

LEMMA MergeExists ==
  ASSUME NEW order, NEW n \in Nat, Len(order) = n
  PROVE  /\ MergeOf(order)[0] = <<>>
         /\ \A k \in 1 .. n : MergeOf(order)[k] = Absorb(MergeOf(order)[k - 1], order[k])
<1> DEFINE Missing == {m \in Nat : ~ \E f : MergesTo(order, f, n, m)}
<1>1. 0 \notin Missing
  <2>1. PICK z : z = [k \in 0 .. n |-> <<>>]
    OBVIOUS
  <2>2. z = [k \in 0 .. n |-> z[k]] /\ z[0] = <<>>
    BY <2>1
  <2>3. \A k \in 0 .. n : k <= 0 => k = 0
    OBVIOUS
  <2>4. MergesTo(order, z, n, 0)
    BY <2>2, <2>3 DEF MergesTo, Taken
  <2> QED
    BY <2>4
<1>2. Missing = {}
  <2> SUFFICES ASSUME Missing # {} PROVE FALSE
    OBVIOUS
  <2>1. PICK m \in Missing : \A k \in Missing : m <= k
    <3>1. Missing \subseteq Nat
      OBVIOUS
    <3> HIDE DEF Missing
    <3> QED
      BY <3>1, LeastOfSome
  <2>2. m - 1 \in Nat /\ ~(m <= m - 1)
    BY <1>1, <2>1
  <2>3. m - 1 \notin Missing
    BY <2>1, <2>2
  <2>4. PICK f : MergesTo(order, f, n, m - 1)
    BY <2>2, <2>3
  <2>5. m - 1 + 1 = m
    BY <2>1
  <2>6. \E g : MergesTo(order, g, n, m - 1 + 1)
    <3> HIDE DEF Missing
    <3> QED
      BY <2>2, <2>4, MergeGrows
  <2> QED
    BY <2>1, <2>5, <2>6
<1>3. PICK f : MergesTo(order, f, n, n)
  BY <1>2
<1>4. /\ f = [k \in 0 .. n |-> f[k]]
      /\ \A k \in 0 .. n : f[k] = Taken(order, f, k)
  BY <1>3 DEF MergesTo
<1>5. [k \in 0 .. n |-> f[k]] = [k \in 0 .. n |-> Taken(order, f, k)]
  BY <1>4
<1>6. Merges(order, f)
  BY <1>4, <1>5 DEF Merges
<1>7. PICK h : h = MergeOf(order)
  OBVIOUS
<1>8. Merges(order, h)
  BY <1>6, <1>7 DEF MergeOf
<1>9. ASSUME NEW k \in 0 .. n PROVE h[k] = Taken(order, h, k)
  <2> DEFINE R(j) == Taken(order, h, j)
  <2>1. h = [j \in 0 .. n |-> R(j)]
    BY <1>8 DEF Merges
  <2> HIDE DEF R
  <2>2. h[k] = R(k)
    BY <2>1
  <2> QED
    BY <2>2 DEF R
<1>10. h[0] = <<>>
  BY <1>9 DEF Taken
<1>11. ASSUME NEW k \in 1 .. n PROVE h[k] = Absorb(h[k - 1], order[k])
  <2>1. k \in 0 .. n /\ k # 0
    OBVIOUS
  <2> QED
    BY <1>9, <2>1 DEF Taken
<1> QED
  BY <1>7, <1>10, <1>11

LEMMA MergeIs ==
  ASSUME NEW found, NEW order, order = InOrder(found, Stronger)
  PROVE  merge_nearby_detections(found) = MergeOf(order)[Len(order)]
BY DEF merge_nearby_detections, MergeOf, Merges, Taken

(* Closeness is mutual, and a detection is close to itself.                *)
LEMMA NearIs ==
  ASSUME NEW d, NEW e, IsDetection(d), IsDetection(e)
  PROVE  Near(d, d) /\ (Near(d, e) => Near(e, d))
<1>1. PICK s \in Int, t \in Int, r \in Int : s = Spacing[1] /\ t = Spacing[2] /\ r = MergeRadius
  BY AnchorageAssumption
<1>2. /\ d.row \in Int /\ d.col \in Int /\ d.mass \in Int
      /\ e.row \in Int /\ e.col \in Int /\ e.mass \in Int
  BY DEF IsDetection
<1> DEFINE R(a, b) == (a.row * b.mass - b.row * a.mass) * s
           C(a, b) == (a.col * b.mass - b.col * a.mass) * t
           L(a, b) == r * a.mass * b.mass
<1>3. \A a, b : Near(a, b) <=> R(a, b) * R(a, b) + C(a, b) * C(a, b) <= L(a, b) * L(a, b)
  BY <1>1 DEF Near
<1>4. Near(d, d)
  <2>1. R(d, d) = 0 /\ C(d, d) = 0
    BY <1>2
  <2>2. PICK l \in Int : l = L(d, d)
    BY <1>2
  <2>3. l * l >= 0
    OBVIOUS
  <2> QED
    BY <1>3, <2>1, <2>2, <2>3
<1>5. ASSUME Near(d, e) PROVE Near(e, d)
  <2>1. PICK u \in Int, v \in Int, l \in Int : u = R(d, e) /\ v = C(d, e) /\ l = L(d, e)
    <3>1. R(d, e) \in Int
      BY <1>2
    <3>2. C(d, e) \in Int
      BY <1>2
    <3>3. L(d, e) \in Int
      BY <1>2
    <3> HIDE DEF R, C, L
    <3> QED
      BY <3>1, <3>2, <3>3
  <2>2. R(e, d) = -u /\ C(e, d) = -v
    BY <1>2, <2>1
  <2>3. L(e, d) = l
    BY <1>2, <2>1
  <2>4. (-u) * (-u) = u * u /\ (-v) * (-v) = v * v
    OBVIOUS
  <2> QED
    BY <1>3, <1>5, <2>1, <2>2, <2>3, <2>4
<1> QED
  BY <1>4, <1>5

(* The clusters after the first k fragments: each of these is in one, and  *)
(* in one only; a cluster begins with its strongest, to which all of it is *)
(* near; and no two clusters begin near each other.                        *)
Parted(c) ==
  \A i, l \in DOMAIN c : \A m \in DOMAIN c[i], q \in DOMAIN c[l] : c[i][m] = c[l][q] => i = l
Holds(c, d) == \E i \in DOMAIN c : \E m \in DOMAIN c[i] : c[i][m] = d
Headed(row, order, k) ==
  \E h \in 1 .. k : /\ row[1] = order[h]
                    /\ \A m \in DOMAIN row : \E j \in h .. k : row[m] = order[j]
Gathered(row) == \A m \in DOMAIN row : Near(row[1], row[m])
HeadsApart(c) == \A i, l \in DOMAIN c : l # i => ~Near(c[i][1], c[l][1])

Clustered(c, order, k, S) ==
  /\ c \in Seq(Seq(S)) /\ \A i \in DOMAIN c : c[i] # <<>>
  /\ \A j \in 1 .. k : Holds(c, order[j])
  /\ Parted(c) /\ HeadsApart(c)
  /\ \A i \in DOMAIN c : Headed(c[i], order, k) /\ Gathered(c[i])

(* One fragment goes into one cluster, t, an old one or the next.          *)
OldMember(c, row, i, m) == i \in DOMAIN c /\ m \in DOMAIN c[i] /\ row[m] = c[i][m]
Extended(c, e, t, d) ==
  /\ t \in DOMAIN e /\ DOMAIN c \subseteq DOMAIN e
  /\ \A i \in DOMAIN e : i \in DOMAIN c \/ i = t
  /\ \A i \in DOMAIN e : \A m \in DOMAIN e[i] : OldMember(c, e[i], i, m) \/ (i = t /\ e[i][m] = d)
  /\ \A i \in DOMAIN c : \A m \in DOMAIN c[i] : m \in DOMAIN e[i] /\ e[i][m] = c[i][m]
  /\ \E m \in DOMAIN e[t] : e[t][m] = d
  /\ t \in DOMAIN c => Near(c[t][1], d)
  /\ t \notin DOMAIN c => e[t][1] = d /\ \A i \in DOMAIN c : ~Near(c[i][1], d)

LEMMA RowGrows ==
  ASSUME NEW S, NEW row \in Seq(S), NEW d \in S
  PROVE  /\ Append(row, d) \in Seq(S) /\ Append(row, d) # <<>>
         /\ DOMAIN Append(row, d) = DOMAIN row \cup {Len(row) + 1}
         /\ Len(row) + 1 \notin DOMAIN row /\ Len(row) \in Nat
         /\ \A m \in DOMAIN row : Append(row, d)[m] = row[m]
         /\ Append(row, d)[Len(row) + 1] = d
<1>1. Len(row) \in Nat /\ DOMAIN row = 1 .. Len(row)
  OBVIOUS
<1>2. /\ Append(row, d) \in Seq(S) /\ Append(row, d) # <<>>
      /\ Len(Append(row, d)) = Len(row) + 1
      /\ \A m \in 1 .. Len(row) : Append(row, d)[m] = row[m]
      /\ Append(row, d)[Len(row) + 1] = d
  BY AppendProperties
<1>3. DOMAIN Append(row, d) = 1 .. Len(row) + 1
  BY <1>2
<1>4. 1 .. Len(row) + 1 = (1 .. Len(row)) \cup {Len(row) + 1}
  BY <1>1
<1> QED
  BY <1>1, <1>2, <1>3, <1>4

LEMMA AbsorbIs ==
  ASSUME NEW S, NEW c \in Seq(Seq(S)), \A i \in DOMAIN c : c[i] # <<>>, NEW d \in S
  PROVE  /\ Absorb(c, d) \in Seq(Seq(S))
         /\ \A i \in DOMAIN Absorb(c, d) : Absorb(c, d)[i] # <<>>
         /\ \E t : Extended(c, Absorb(c, d), t, d)
<1>1. PICK at : at = {i \in DOMAIN c : Joins(c[i], d)}
  OBVIOUS
<1>2. PICK e : e = Absorb(c, d)
  OBVIOUS
<1>3. PICK n \in Nat : n = Len(c) /\ DOMAIN c = 1 .. n
  OBVIOUS
<1>4. \A i \in DOMAIN c : c[i] \in Seq(S)
  OBVIOUS
<1>5. CASE at = {}
  <2>1. PICK row : row = <<d>>
    OBVIOUS
  <2>2. row \in Seq(S) /\ row # <<>> /\ DOMAIN row = {1} /\ row[1] = d
    BY <2>1
  <2>3. e = Append(c, row)
    BY <1>1, <1>2, <1>5, <2>1 DEF Absorb
  <2>4. /\ e \in Seq(Seq(S)) /\ DOMAIN e = DOMAIN c \cup {n + 1}
        /\ n + 1 \notin DOMAIN c
        /\ \A i \in DOMAIN c : e[i] = c[i]
        /\ e[n + 1] = row
    <3>1. PICK T : T = Seq(S)
      OBVIOUS
    <3>2. c \in Seq(T) /\ row \in T
      BY <2>2, <3>1
    <3> QED
      BY <1>3, <2>3, <3>1, <3>2, RowGrows
  <2>5. \A i \in DOMAIN c : ~Near(c[i][1], d)
    BY <1>1, <1>5 DEF Joins
  <2>6. \A i \in DOMAIN e : e[i] # <<>>
    BY <2>2, <2>4
  <2>7. Extended(c, e, n + 1, d)
    <3>1. n + 1 \in DOMAIN e /\ DOMAIN c \subseteq DOMAIN e
          /\ \A i \in DOMAIN e : i \in DOMAIN c \/ i = n + 1
      BY <2>4
    <3>2. \A i \in DOMAIN e : \A m \in DOMAIN e[i] :
             OldMember(c, e[i], i, m) \/ (i = n + 1 /\ e[i][m] = d)
      BY <2>2, <2>4 DEF OldMember
    <3>3. \A i \in DOMAIN c : \A m \in DOMAIN c[i] : m \in DOMAIN e[i] /\ e[i][m] = c[i][m]
      BY <2>4
    <3>4. \E m \in DOMAIN e[n + 1] : e[n + 1][m] = d
      BY <2>2, <2>4
    <3>5. e[n + 1][1] = d
      BY <2>2, <2>4
    <3> QED
      BY <2>4, <2>5, <3>1, <3>2, <3>3, <3>4, <3>5 DEF Extended
  <2> QED
    BY <1>2, <2>4, <2>6, <2>7
<1>6. CASE at # {}
  <2>1. at \subseteq Nat
    BY <1>1, <1>3
  <2>2. PICK t : t = Min(at) /\ t \in at
    BY <1>6, <2>1, MinIs
  <2>3. t \in DOMAIN c /\ Near(c[t][1], d)
    BY <1>1, <2>2 DEF Joins
  <2>4. PICK row : row = Append(c[t], d)
    OBVIOUS
  <2>5. c[t] \in Seq(S)
    BY <1>4, <2>3
  <2>6. PICK q : q = Len(c[t]) + 1
    OBVIOUS
  <2>7. /\ row \in Seq(S) /\ row # <<>>
        /\ DOMAIN row = DOMAIN c[t] \cup {q}
        /\ \A m \in DOMAIN c[t] : row[m] = c[t][m]
        /\ row[q] = d
    BY <2>4, <2>5, <2>6, RowGrows
  <2>8. e = [c EXCEPT ![t] = row]
    BY <1>1, <1>2, <1>6, <2>2, <2>4 DEF Absorb
  <2>9. /\ DOMAIN e = DOMAIN c /\ e[t] = row
        /\ \A i \in DOMAIN c : i # t => e[i] = c[i]
    BY <2>3, <2>8
  <2>10. e \in Seq(Seq(S))
    <3>1. e = [i \in 1 .. n |-> IF i = t THEN row ELSE c[i]]
      BY <1>3, <2>8
    <3>2. \A i \in 1 .. n : (IF i = t THEN row ELSE c[i]) \in Seq(S)
      BY <1>3, <1>4, <2>7
    <3>3. e \in [1 .. n -> Seq(S)]
      BY <3>1, <3>2
    <3>4. PICK T : T = Seq(S)
      OBVIOUS
    <3>5. e \in [1 .. n -> T]
      BY <3>3, <3>4
    <3>6. e \in Seq(T)
      BY <3>5
    <3> QED
      BY <3>4, <3>6
  <2>11. \A i \in DOMAIN e : e[i] # <<>>
    BY <2>7, <2>9
  <2>12. Extended(c, e, t, d)
    <3>1. t \in DOMAIN e /\ DOMAIN c \subseteq DOMAIN e
          /\ \A i \in DOMAIN e : i \in DOMAIN c \/ i = t
      BY <2>3, <2>9
    <3>2. \A i \in DOMAIN e : \A m \in DOMAIN e[i] :
             OldMember(c, e[i], i, m) \/ (i = t /\ e[i][m] = d)
      <4> SUFFICES ASSUME NEW i \in DOMAIN e, NEW m \in DOMAIN e[i]
                   PROVE  OldMember(c, e[i], i, m) \/ (i = t /\ e[i][m] = d)
        OBVIOUS
      <4>1. CASE i = t
        BY <2>3, <2>7, <2>9, <4>1 DEF OldMember
      <4>2. CASE i # t
        BY <2>9, <4>2 DEF OldMember
      <4> QED
        BY <4>1, <4>2
    <3>3. \A i \in DOMAIN c : \A m \in DOMAIN c[i] : m \in DOMAIN e[i] /\ e[i][m] = c[i][m]
      BY <2>7, <2>9
    <3>4. \E m \in DOMAIN e[t] : e[t][m] = d
      BY <2>7, <2>9
    <3> QED
      BY <2>3, <3>1, <3>2, <3>3, <3>4 DEF Extended
  <2> QED
    BY <1>2, <2>10, <2>11, <2>12
<1> QED
  BY <1>5, <1>6

LEMMA FirstIsThere ==
  ASSUME NEW S, NEW row \in Seq(S), row # <<>>
  PROVE  1 \in DOMAIN row /\ row[1] \in S
<1>1. Len(row) \in Nat /\ Len(row) # 0 /\ DOMAIN row = 1 .. Len(row)
  BY EmptySeq
<1> QED
  BY <1>1

(* The next fragment is in none of the clusters yet.                       *)
LEMMA NextIsNew ==
  ASSUME NEW c, NEW order, NEW k \in Nat, NEW n, NEW S, Clustered(c, order, k, S),
         ByStrength(order, n, S), k + 1 \in 1 .. n
  PROVE  ~Holds(c, order[k + 1])
<1> SUFFICES ASSUME Holds(c, order[k + 1]) PROVE FALSE
  OBVIOUS
<1>1. PICK i \in DOMAIN c : \E m \in DOMAIN c[i] : c[i][m] = order[k + 1]
  BY DEF Holds
<1>2. PICK m \in DOMAIN c[i] : c[i][m] = order[k + 1]
  BY <1>1
<1>3. PICK h \in 1 .. k : \A q \in DOMAIN c[i] : \E j \in h .. k : c[i][q] = order[j]
  BY DEF Clustered, Headed
<1>4. PICK j \in h .. k : c[i][m] = order[j]
  BY <1>3
<1>5. n \in Nat
  BY DEF ByStrength
<1>6. j \in 1 .. n /\ j < k + 1
  BY <1>3, <1>4, <1>5
<1> QED
  BY <1>2, <1>4, <1>6 DEF ByStrength

LEMMA ClusteredNext ==
  ASSUME NEW c, NEW order, NEW k \in Nat, NEW n, NEW S, Fragments(S), Clustered(c, order, k, S),
         ByStrength(order, n, S), k + 1 \in 1 .. n
  PROVE  Clustered(Absorb(c, order[k + 1]), order, k + 1, S)
<1>1. PICK d \in S : d = order[k + 1]
  BY DEF ByStrength
<1>2. c \in Seq(Seq(S)) /\ \A i \in DOMAIN c : c[i] # <<>>
  BY DEF Clustered
<1>3. PICK e : e = Absorb(c, d)
  OBVIOUS
<1>4. e \in Seq(Seq(S)) /\ (\A i \in DOMAIN e : e[i] # <<>>) /\ \E t : Extended(c, e, t, d)
  BY <1>2, <1>3, AbsorbIs
<1>5. PICK t : Extended(c, e, t, d)
  BY <1>4
<1>6. ~Holds(c, d)
  BY <1>1, NextIsNew
<1>7. \A i \in DOMAIN c : 1 \in DOMAIN c[i] /\ c[i][1] \in S /\ e[i][1] = c[i][1]
  <2> SUFFICES ASSUME NEW i \in DOMAIN c
               PROVE  1 \in DOMAIN c[i] /\ c[i][1] \in S /\ e[i][1] = c[i][1]
    OBVIOUS
  <2>1. c[i] \in Seq(S) /\ c[i] # <<>>
    BY <1>2
  <2>2. 1 \in DOMAIN c[i] /\ c[i][1] \in S
    BY <2>1, FirstIsThere
  <2> QED
    BY <1>5, <2>2 DEF Extended
<1>8. \A j \in 1 .. k + 1 : Holds(e, order[j])
  <2> SUFFICES ASSUME NEW j \in 1 .. k + 1 PROVE Holds(e, order[j])
    OBVIOUS
  <2>1. CASE j = k + 1
    BY <1>1, <1>5, <2>1 DEF Holds, Extended
  <2>2. CASE j # k + 1
    <3>1. j \in 1 .. k
      BY <2>2
    <3>2. PICK i \in DOMAIN c : \E m \in DOMAIN c[i] : c[i][m] = order[j]
      BY <3>1 DEF Clustered, Holds
    <3>3. PICK m \in DOMAIN c[i] : c[i][m] = order[j]
      BY <3>2
    <3>4. i \in DOMAIN e /\ m \in DOMAIN e[i] /\ e[i][m] = order[j]
      BY <1>5, <3>3 DEF Extended
    <3> QED
      BY <3>4 DEF Holds
  <2> QED
    BY <2>1, <2>2
<1>9. Parted(e)
  <2> SUFFICES ASSUME NEW i \in DOMAIN e, NEW l \in DOMAIN e, NEW m \in DOMAIN e[i],
                      NEW q \in DOMAIN e[l], e[i][m] = e[l][q]
               PROVE  i = l
    BY DEF Parted
  <2>1. OldMember(c, e[i], i, m) \/ (i = t /\ e[i][m] = d)
    BY <1>5 DEF Extended
  <2>2. OldMember(c, e[l], l, q) \/ (l = t /\ e[l][q] = d)
    BY <1>5 DEF Extended
  <2>3. OldMember(c, e[i], i, m) => e[i][m] # d
    BY <1>6 DEF OldMember, Holds
  <2>4. OldMember(c, e[l], l, q) => e[l][q] # d
    BY <1>6 DEF OldMember, Holds
  <2>5. CASE OldMember(c, e[i], i, m) /\ OldMember(c, e[l], l, q)
    BY <2>5 DEF OldMember, Clustered, Parted
  <2> QED
    BY <2>1, <2>2, <2>3, <2>4, <2>5
<1>10. HeadsApart(e)
  <2> SUFFICES ASSUME NEW i \in DOMAIN e, NEW l \in DOMAIN e, l # i
               PROVE  ~Near(e[i][1], e[l][1])
    BY DEF HeadsApart
  <2>1. CASE i \in DOMAIN c /\ l \in DOMAIN c
    BY <1>7, <2>1 DEF Clustered, HeadsApart
  <2>2. CASE i \in DOMAIN c /\ l \notin DOMAIN c
    <3>1. l = t /\ e[l][1] = d /\ ~Near(c[i][1], d)
      BY <1>5, <2>2 DEF Extended
    <3> QED
      BY <1>7, <2>2, <3>1
  <2>3. CASE i \notin DOMAIN c /\ l \in DOMAIN c
    <3>1. i = t /\ e[i][1] = d /\ ~Near(c[l][1], d)
      BY <1>5, <2>3 DEF Extended
    <3>2. PICK head \in S : head = c[l][1]
      BY <1>7, <2>3
    <3>3. IsDetection(d) /\ IsDetection(head)
      BY DEF Fragments
    <3>4. ~Near(d, head)
      BY <3>1, <3>2, <3>3, NearIs
    <3> QED
      BY <1>7, <2>3, <3>1, <3>2, <3>4
  <2>4. i \in DOMAIN c \/ l \in DOMAIN c
    BY <1>5 DEF Extended
  <2> QED
    BY <2>1, <2>2, <2>3, <2>4
<1>11. ASSUME NEW i \in DOMAIN e
       PROVE  Headed(e[i], order, k + 1)
  <2>1. CASE i \in DOMAIN c
    <3>1. PICK h \in 1 .. k : /\ c[i][1] = order[h]
                              /\ \A m \in DOMAIN c[i] : \E j \in h .. k : c[i][m] = order[j]
      BY <2>1 DEF Clustered, Headed
    <3>2. h \in 1 .. k + 1 /\ e[i][1] = order[h]
      BY <1>7, <2>1, <3>1
    <3>3. ASSUME NEW m \in DOMAIN e[i]
          PROVE  \E j \in h .. k + 1 : e[i][m] = order[j]
      <4>1. CASE OldMember(c, e[i], i, m)
        <5>1. m \in DOMAIN c[i] /\ e[i][m] = c[i][m]
          BY <4>1 DEF OldMember
        <5>2. PICK j \in h .. k : c[i][m] = order[j]
          BY <3>1, <5>1
        <5>3. j \in h .. k + 1
          BY <3>1, <5>2
        <5> QED
          BY <5>1, <5>2, <5>3
      <4>2. CASE e[i][m] = d
        <5>1. k + 1 \in h .. k + 1
          BY <3>1
        <5> QED
          BY <1>1, <4>2, <5>1
      <4> QED
        BY <1>5, <4>1, <4>2 DEF Extended
    <3> QED
      BY <3>2, <3>3 DEF Headed
  <2>2. CASE i \notin DOMAIN c
    <3>1. i = t /\ e[i][1] = d
      BY <1>5, <2>2 DEF Extended
    <3>2. \A m \in DOMAIN e[i] : e[i][m] = d
      BY <1>5, <2>2 DEF Extended, OldMember
    <3>3. k + 1 \in 1 .. k + 1 /\ k + 1 \in k + 1 .. k + 1
      OBVIOUS
    <3> QED
      BY <1>1, <3>1, <3>2, <3>3 DEF Headed
  <2> QED
    BY <2>1, <2>2
<1>12. ASSUME NEW i \in DOMAIN e
       PROVE  Gathered(e[i])
  <2>1. CASE i \in DOMAIN c
    <3> SUFFICES ASSUME NEW m \in DOMAIN e[i] PROVE Near(e[i][1], e[i][m])
      BY DEF Gathered
    <3>1. CASE OldMember(c, e[i], i, m)
      BY <1>7, <2>1, <3>1 DEF OldMember, Clustered, Gathered
    <3>2. CASE i = t /\ e[i][m] = d
      BY <1>5, <1>7, <2>1, <3>2 DEF Extended
    <3> QED
      BY <1>5, <3>1, <3>2 DEF Extended
  <2>2. CASE i \notin DOMAIN c
    <3>1. e[i][1] = d /\ \A m \in DOMAIN e[i] : e[i][m] = d
      BY <1>5, <2>2 DEF Extended, OldMember
    <3>2. Near(d, d)
      BY NearIs DEF Fragments
    <3> QED
      BY <3>1, <3>2 DEF Gathered
  <2> QED
    BY <2>1, <2>2
<1> QED
  BY <1>1, <1>3, <1>4, <1>8, <1>9, <1>10, <1>11, <1>12 DEF Clustered

(* So after the last.                                                      *)
LEMMA AllClustered ==
  ASSUME NEW S, Fragments(S), NEW order, NEW n \in Nat, ByStrength(order, n, S), Len(order) = n
  PROVE  Clustered(MergeOf(order)[n], order, n, S)
<1>1. PICK f : f = MergeOf(order)
  OBVIOUS
<1>2. f[0] = <<>> /\ \A k \in 1 .. n : f[k] = Absorb(f[k - 1], order[k])
  BY <1>1, MergeExists
<1>3. PICK Wrong : Wrong = {k \in 0 .. n : ~Clustered(f[k], order, k, S)}
  OBVIOUS
<1>4. SUFFICES ASSUME Wrong # {} PROVE FALSE
  <2>1. n \in 0 .. n
    OBVIOUS
  <2> QED
    BY <1>1, <1>3, <2>1
<1>5. Wrong \subseteq Nat
  BY <1>3
<1>6. PICK k \in Wrong : \A l \in Wrong : k <= l
  BY <1>4, <1>5, LeastOfSome
<1>7. CASE k = 0
  <2>1. PICK c : c = f[0]
    OBVIOUS
  <2>2. c = <<>> /\ DOMAIN c = {} /\ c \in Seq(Seq(S))
    BY <1>2, <2>1
  <2>3. \A j \in 1 .. 0 : FALSE
    OBVIOUS
  <2>4. Clustered(c, order, 0, S)
    BY <2>2, <2>3 DEF Clustered, Parted, HeadsApart
  <2> QED
    BY <1>3, <1>6, <1>7, <2>1, <2>4
<1>8. CASE k # 0
  <2>1. PICK l \in Nat : k = l + 1 /\ l \in 0 .. n /\ ~(k <= l) /\ k \in 1 .. n
    <3>1. k \in 0 .. n
      BY <1>3
    <3>2. k - 1 \in Nat /\ k = (k - 1) + 1 /\ k - 1 \in 0 .. n /\ ~(k <= k - 1) /\ k \in 1 .. n
      BY <1>8, <3>1
    <3> QED
      BY <3>2
  <2>2. Clustered(f[l], order, l, S)
    BY <1>3, <1>6, <2>1
  <2>3. Clustered(Absorb(f[l], order[l + 1]), order, l + 1, S)
    BY <2>1, <2>2, ClusteredNext
  <2>4. k - 1 = l
    BY <2>1
  <2>5. f[k] = Absorb(f[l], order[l + 1])
    BY <1>2, <2>1, <2>4
  <2>6. Clustered(f[k], order, k, S)
    BY <2>1, <2>3, <2>5
  <2> QED
    BY <1>3, <1>6, <2>6
<1> QED
  BY <1>7, <1>8

(* What the invariant says of a count.                                     *)
InOne(final, d) ==
  Cardinality({i \in DOMAIN final : \E j \in DOMAIN final[i] : final[i][j] = d}) = 1
Apart(gated, final) ==
  /\ \A d \in gated : InOne(final, d)
  /\ \A i \in DOMAIN final :
       LET head == final[i][1] IN
         /\ \A j \in DOMAIN final[i] : Near(head, final[i][j]) /\ head.peak >= final[i][j].peak
         /\ \A k \in DOMAIN final : k # i => ~Near(head, final[k][1])

LEMMA MergedAreApart ==
  ASSUME NEW S, Fragments(S)
  PROVE  /\ Apart(S, merge_nearby_detections(S))
         /\ merge_nearby_detections(S) \in Seq(Seq(S))
<1>1. PICK order : order = InOrder(S, Stronger)
  OBVIOUS
<1>2. PICK n \in Nat : ByStrength(order, n, S) /\ Len(order) = n
  BY <1>1, StrongestFirst
<1>3. PICK c : c = merge_nearby_detections(S)
  OBVIOUS
<1>4. c = MergeOf(order)[n]
  BY <1>1, <1>2, <1>3, MergeIs
<1>5. Clustered(c, order, n, S)
  BY <1>2, <1>4, AllClustered
<1>6. ASSUME NEW d \in S PROVE InOne(c, d)
  <2>1. PICK k \in 1 .. n : order[k] = d
    BY <1>2 DEF ByStrength
  <2>2. Holds(c, d)
    BY <1>5, <2>1 DEF Clustered
  <2>3. PICK i \in DOMAIN c : \E m \in DOMAIN c[i] : c[i][m] = d
    BY <2>2 DEF Holds
  <2>4. PICK T : T = {l \in DOMAIN c : \E j \in DOMAIN c[l] : c[l][j] = d}
    OBVIOUS
  <2>5. \A l \in T : l = i
    BY <1>5, <2>3, <2>4 DEF Clustered, Parted
  <2>6. T = {i}
    BY <2>3, <2>4, <2>5
  <2>7. Cardinality({i}) = 1
    BY FS_Singleton
  <2> QED
    BY <2>4, <2>6, <2>7 DEF InOne
<1>7. ASSUME NEW i \in DOMAIN c, NEW j \in DOMAIN c[i]
      PROVE  Near(c[i][1], c[i][j]) /\ c[i][1].peak >= c[i][j].peak
  <2>1. Near(c[i][1], c[i][j])
    BY <1>5 DEF Clustered, Gathered
  <2>2. PICK h \in 1 .. n : /\ c[i][1] = order[h]
                            /\ \A m \in DOMAIN c[i] : \E q \in h .. n : c[i][m] = order[q]
    BY <1>5 DEF Clustered, Headed
  <2>3. PICK q \in h .. n : c[i][j] = order[q]
    BY <2>2
  <2>4. q \in 1 .. n /\ (h < q \/ h = q)
    BY <2>2, <2>3
  <2>5. order[h] \in S /\ order[q] \in S
    BY <1>2, <2>2, <2>4 DEF ByStrength
  <2>6. order[h].peak \in Int
    BY <2>5 DEF Fragments, IsDetection
  <2>7. order[h].peak >= order[q].peak
    <3>1. CASE h = q
      BY <2>6, <3>1
    <3>2. CASE h < q
      BY <1>2, <2>2, <2>4, <3>2 DEF ByStrength
    <3> QED
      BY <2>4, <3>1, <3>2
  <2> QED
    BY <2>1, <2>2, <2>3, <2>7
<1>8. \A i, k \in DOMAIN c : k # i => ~Near(c[i][1], c[k][1])
  BY <1>5 DEF Clustered, HeadsApart
<1>9. c \in Seq(Seq(S))
  BY <1>5 DEF Clustered
<1> QED
  BY <1>3, <1>6, <1>7, <1>8, <1>9 DEF Apart

(* A count of an image is its fragments, merged; and it is a census when   *)
(* the image is the raster of a scene.                                     *)
LEMMA LoadedWhole ==
  ASSUME NEW image \in Image
  PROVE  [c \in Window(<<1, Height, 1, Width>>) |-> image[c]] = image
<1>1. Height \in Nat /\ Width \in Nat
  BY AnchorageAssumption
<1>2. Greatest(1, 1) = 1 /\ Least(Height, Height) = Height /\ Least(Width, Width) = Width
  BY <1>1 DEF Greatest, Least
<1>3. Window(<<1, Height, 1, Width>>) = Cells
  BY <1>2 DEF Window, Cells
<1>4. image = [c \in Cells |-> image[c]]
  BY DEF Image
<1> QED
  BY <1>3, <1>4

Counted(count) ==
  /\ count.count \in Nat /\ count.detections \in SUBSET SUBSET Cells
  /\ Apart(count.gated, count.final)

CountOf(image, setting) ==
  LET gated == Gated(image, setting)
      final == merge_nearby_detections(gated)
  IN [count |-> Len(final), gated |-> gated, final |-> final,
      detections |-> {UNION {final[i][j].cells : j \in DOMAIN final[i]} : i \in DOMAIN final}]

LEMMA CountIs ==
  ASSUME NEW image \in Image, NEW setting
  PROVE  Counted(count_vessels(image, setting))
<1>1. PICK S : S = Gated(image, setting)
  OBVIOUS
<1>2. Fragments(S)
  BY <1>1, GatedAre
<1>3. PICK final : final = merge_nearby_detections(S)
  OBVIOUS
<1>4. Apart(S, final) /\ final \in Seq(Seq(S))
  BY <1>2, <1>3, MergedAreApart
<1>5. PICK D : D = {UNION {final[i][j].cells : j \in DOMAIN final[i]} : i \in DOMAIN final}
  OBVIOUS
<1>6. D \in SUBSET SUBSET Cells
  <2>1. ASSUME NEW i \in DOMAIN final, NEW j \in DOMAIN final[i]
        PROVE  final[i][j].cells \subseteq Cells
    <3>1. final[i] \in Seq(S)
      BY <1>4
    <3>2. final[i][j] \in S
      BY <3>1
    <3> QED
      BY <1>2, <3>2 DEF Fragments, IsDetection
  <2>2. ASSUME NEW i \in DOMAIN final
        PROVE  (UNION {final[i][j].cells : j \in DOMAIN final[i]}) \subseteq Cells
    BY <2>1
  <2> QED
    BY <1>5, <2>2
<1>7. Len(final) \in Nat
  BY <1>4
<1>8. count_vessels(image, setting)
        = [count |-> Len(final), gated |-> S, final |-> final, detections |-> D]
  <2>1. PICK loaded : loaded = [c \in Window(<<1, Height, 1, Width>>) |-> image[c]]
    OBVIOUS
  <2>2. loaded = image
    BY <2>1, LoadedWhole
  <2>3. count_vessels(image, setting) = CountOf(loaded, setting)
    BY <2>1 DEF count_vessels, CountOf
  <2>4. CountOf(image, setting)
          = [count |-> Len(final), gated |-> S, final |-> final, detections |-> D]
    BY <1>1, <1>3, <1>5 DEF CountOf
  <2> QED
    BY <2>2, <2>3, <2>4
<1> QED
  BY <1>4, <1>6, <1>7, <1>8 DEF Counted

(* The census in hand: of its scene unless none was made of it.            *)
HandIs(hand) ==
  \E g, f, c : \E r \in BOOLEAN :
    /\ hand = [gated |-> g, final |-> f, census |-> c, recorded |-> r]
    /\ Apart(g, f)
    /\ c \in Census \cup {Null} /\ (~r => c \in Census)

(* A picture is filed under the scene of the census it was drawn from.     *)
Filed(pictures) ==
  /\ pictures \in [AnchoragePorts -> [AllScenes -> Census \cup {Null}]]
  /\ \A p \in AnchoragePorts, s \in AllScenes :
       pictures[p][s] # Null => pictures[p][s].scene = s

CensusAnswer(p) == [route |-> "census", port |-> p, census |-> latest_census(p)]
OverlayAnswer(p) ==
  [route |-> "overlay", port |-> p, census |-> latest_census(p),
   drawn |-> IF latest_census(p) = Null THEN Null ELSE overlay[p][latest_census(p).scene]]
CalibrationAnswer(p) ==
  [route |-> "calibration", port |-> p, n |-> calibrate_port(p).n,
   correlated |-> calibrate_port(p).correlated]
Answers(p) == {CensusAnswer(p), OverlayAnswer(p), CalibrationAnswer(p)}

CensusInv ==
  /\ inHand # Null => HandIs(inHand)
  /\ censuses \in Seq(Census)
  /\ Filed(overlay)
  /\ served # Null => \E p \in AnchoragePorts : served \in Answers(p)

(* The census served is the last acquired of the port's, if it has one.    *)
LEMMA LatestIs ==
  ASSUME censuses \in Seq(Census), NEW p
  PROVE  /\ \A i \in Mine(p) : latest_census(p) # Null /\ censuses[i].day <= latest_census(p).day
         /\ latest_census(p) # Null => latest_census(p) \in Census
<1>1. PICK rows \in Seq(Census) : rows = censuses
  OBVIOUS
<1>2. PICK mine : mine = Mine(p)
  OBVIOUS
<1>3. mine = {i \in DOMAIN rows : rows[i].port = p}
  BY <1>1, <1>2 DEF Mine
<1>4. PICK n \in Nat : n = Len(rows) /\ DOMAIN rows = 1 .. n
  OBVIOUS
<1>5. mine \subseteq 1 .. n /\ mine \subseteq Nat
  BY <1>3, <1>4
<1>6. CASE mine = {}
  BY <1>2, <1>6 DEF latest_census
<1>7. CASE mine # {}
  <2>1. \A i \in mine : rows[i] \in Census /\ rows[i].day \in Int
    <3>1. \A i \in mine : rows[i] \in Census
      BY <1>3
    <3>2. \A census \in Census : census.day \in Int
      BY DEF Census
    <3> QED
      BY <3>1, <3>2
  <2>2. IsFiniteSet(mine)
    <3>1. PICK lo \in Int, hi \in Int : lo = 1 /\ hi = n
      BY <1>4
    <3>2. IsFiniteSet(lo .. hi)
      BY FS_Interval
    <3> QED
      BY <1>5, <3>1, <3>2, FS_Subset
  <2>3. PICK f : f = [i \in mine |-> rows[i].day]
    OBVIOUS
  <2>4. IsFiniteSet(Range(f))
    BY <2>2, <2>3, ImageIsFinite
  <2>5. Range(f) \subseteq Int /\ Range(f) # {}
    BY <1>7, <2>1, <2>3 DEF Range
  <2>6. PICK m \in Range(f) : \A x \in Range(f) : m >= x
    BY <2>4, <2>5, FiniteHasMax
  <2>7. PICK top \in mine : rows[top].day = m
    BY <2>3, <2>6 DEF Range
  <2>8. \A j \in mine : rows[j].day <= rows[top].day
    <3> SUFFICES ASSUME NEW j \in mine PROVE rows[j].day <= rows[top].day
      OBVIOUS
    <3>1. rows[j].day \in Range(f)
      BY <2>3 DEF Range
    <3> QED
      BY <2>1, <2>5, <2>6, <2>7, <3>1
  <2>9. PICK T : T = {i \in mine : \A j \in mine : rows[j].day <= rows[i].day}
    OBVIOUS
  <2>10. T \subseteq Nat /\ T # {}
    BY <1>5, <2>8, <2>9
  <2>11. PICK i \in T : i = Min(T)
    BY <2>10, MinIs
  <2>12. latest_census(p) = rows[i]
    BY <1>1, <1>2, <1>7, <2>9, <2>11 DEF latest_census
  <2>13. rows[i] \in Census /\ \A j \in mine : rows[j].day <= rows[i].day
    BY <2>1, <2>9
  <2>14. rows[i] # Null
    BY <2>13, AnchorageAssumption
  <2> QED
    BY <1>1, <1>2, <2>12, <2>13, <2>14
<1> QED
  BY <1>6, <1>7

(* What the invariant is for.                                              *)
LEMMA CensusInvTells ==
  ASSUME CensusInv
  PROVE  CensusIsOfItsScene
<1>1. VesselsAreApart
  <2> SUFFICES ASSUME inHand # Null PROVE Apart(inHand.gated, inHand.final)
    BY DEF VesselsAreApart, Apart, InOne
  <2>1. HandIs(inHand)
    BY DEF CensusInv
  <2>2. PICK g, f, c, r : /\ inHand = [gated |-> g, final |-> f, census |-> c, recorded |-> r]
                          /\ Apart(g, f)
    BY <2>1 DEF HandIs
  <2>3. inHand.gated = g /\ inHand.final = f
    BY <2>2
  <2> QED
    BY <2>2, <2>3
<1>2. NewestSceneIsServed
  <2> SUFFICES ASSUME served # Null, served.route # "calibration"
               PROVE  /\ \A i \in DOMAIN censuses : censuses[i].port = served.port =>
                           served.census # Null /\ censuses[i].day <= served.census.day
                      /\ ("drawn" \in DOMAIN served /\ served.drawn # Null) =>
                           served.drawn.scene = served.census.scene
    BY DEF NewestSceneIsServed
  <2>1. PICK p \in AnchoragePorts : served \in Answers(p)
    BY DEF CensusInv
  <2>2. censuses \in Seq(Census) /\ Filed(overlay)
    BY DEF CensusInv
  <2>3. PICK latest : latest = latest_census(p)
    OBVIOUS
  <2>4. \A i \in DOMAIN censuses : censuses[i].port = p =>
          latest # Null /\ censuses[i].day <= latest.day
    BY <2>2, <2>3, LatestIs DEF Mine
  <2>5. latest # Null => latest \in Census
    BY <2>2, <2>3, LatestIs
  <2>6. CASE served = CensusAnswer(p)
    <3>1. served = [route |-> "census", port |-> p, census |-> latest]
      BY <2>3, <2>6 DEF CensusAnswer
    <3>2. served.port = p /\ served.census = latest /\ "drawn" \notin DOMAIN served
      BY <3>1
    <3> QED
      BY <2>4, <3>2
  <2>7. CASE served = OverlayAnswer(p)
    <3>1. PICK drawn : drawn = IF latest = Null THEN Null ELSE overlay[p][latest.scene]
      OBVIOUS
    <3>2. served = [route |-> "overlay", port |-> p, census |-> latest, drawn |-> drawn]
      BY <2>3, <2>7, <3>1 DEF OverlayAnswer
    <3>3. served.port = p /\ served.census = latest /\ served.drawn = drawn
      BY <3>2
    <3>4. drawn # Null => drawn.scene = latest.scene
      BY <2>2, <2>5, <3>1 DEF Filed, Census
    <3> QED
      BY <2>4, <3>3, <3>4
  <2>8. CASE served = CalibrationAnswer(p)
    BY <2>8 DEF CalibrationAnswer
  <2> QED
    BY <2>1, <2>6, <2>7, <2>8 DEF Answers
<1>3. CorrelationHasItsPairs
  <2> SUFFICES ASSUME served # Null, served.route = "calibration", served.correlated
               PROVE  MinN <= Cardinality({i \in DOMAIN censuses :
                        censuses[i].port = served.port
                          /\ censuses[i].day \in DOMAIN PortWatch[served.port]})
    BY DEF CorrelationHasItsPairs
  <2>1. PICK p \in AnchoragePorts : served \in Answers(p)
    BY DEF CensusInv
  <2>2. served # CensusAnswer(p) /\ served # OverlayAnswer(p)
    BY DEF CensusAnswer, OverlayAnswer
  <2>3. served = CalibrationAnswer(p)
    BY <2>1, <2>2 DEF Answers
  <2>4. served.port = p /\ served.correlated = calibrate_port(p).correlated
    BY <2>3 DEF CalibrationAnswer
  <2>5. Cardinality(Paired(p)) >= MinN
    BY <2>4 DEF calibrate_port
  <2>6. Paired(p) = {i \in DOMAIN censuses :
                       censuses[i].port = p /\ censuses[i].day \in DOMAIN PortWatch[p]}
    BY DEF Paired, Mine
  <2> QED
    BY <2>4, <2>5, <2>6
<1> QED
  BY <1>1, <1>2, <1>3 DEF CensusIsOfItsScene

LEMMA CensusInvInit ==
  ASSUME AnchorageInit
  PROVE  CensusInv
<1>1. inHand = Null /\ censuses = <<>> /\ served = Null
  BY DEF AnchorageInit
<1>2. overlay = [p \in AnchoragePorts |-> [s \in AllScenes |-> Null]]
  BY DEF AnchorageInit
<1>3. Filed(overlay)
  BY <1>2 DEF Filed
<1> QED
  BY <1>1, <1>3 DEF CensusInv

(* A count in hand is of a scene, or of an image nobody records.           *)
LEMMA SceneIsCounted ==
  ASSUME NEW s \in AllScenes, NEW setting \in Settings
  PROVE  HandIs(InHand(Counts[<<s, setting>>],
                       [port |-> PortOf[s], scene |-> s, day |-> Days[s],
                        count |-> Counts[<<s, setting>>].count,
                        detections |-> Counts[<<s, setting>>].detections], FALSE))
<1>1. PICK of : of = <<s, setting>>
  OBVIOUS
<1>2. of \in AllScenes \X Settings /\ of[1] = s /\ of[2] = setting
  BY <1>1
<1>3. PICK count : count = Counts[of]
  OBVIOUS
<1>4. count = count_vessels(Raster[s], setting)
  BY <1>2, <1>3 DEF Counts
<1>5. Raster[s] \in Image /\ PortOf[s] \in AnchoragePorts /\ Days[s] \in Int
  BY AnchorageAssumption
<1>6. Counted(count)
  BY <1>4, <1>5, CountIs
<1>7. PICK census : census = [port |-> PortOf[s], scene |-> s, day |-> Days[s],
                              count |-> count.count, detections |-> count.detections]
  OBVIOUS
<1>8. census \in Census
  BY <1>5, <1>6, <1>7 DEF Census, Counted
<1>9. HandIs(InHand(count, census, FALSE))
  BY <1>6, <1>8 DEF HandIs, InHand, Counted
<1> QED
  BY <1>1, <1>3, <1>7, <1>9

LEMMA TrialIsCounted ==
  ASSUME NEW image \in Trials, NEW setting
  PROVE  HandIs(InHand(count_vessels(image, setting), Null, TRUE))
<1>1. PICK count : count = count_vessels(image, setting)
  OBVIOUS
<1>2. image \in Image
  BY AnchorageAssumption
<1>3. Counted(count)
  BY <1>1, <1>2, CountIs
<1>4. HandIs(InHand(count, Null, TRUE))
  BY <1>3 DEF HandIs, InHand, Counted
<1> QED
  BY <1>1, <1>4

LEMMA CensusInvStep ==
  ASSUME CensusInv, [AnchorageNext]_anchorageVars
  PROVE  CensusInv'
<1>1. CASE Count
  <2>1. /\ served' = Null /\ UNCHANGED <<censuses, overlay>>
        /\ \E s \in AllScenes, setting \in Settings :
             inHand' = InHand(Counts[<<s, setting>>],
                         [port |-> PortOf[s], scene |-> s, day |-> Days[s],
                          count |-> Counts[<<s, setting>>].count,
                          detections |-> Counts[<<s, setting>>].detections], FALSE)
    BY <1>1 DEF Count
  <2>2. HandIs(inHand')
    BY <2>1, SceneIsCounted
  <2> QED
    BY <2>1, <2>2 DEF CensusInv
<1>2. CASE Try
  <2>1. /\ served = Null /\ UNCHANGED <<censuses, overlay, served>>
        /\ \E image \in Trials, setting \in Settings :
             inHand' = InHand(count_vessels(image, setting), Null, TRUE)
    BY <1>2 DEF Try
  <2>2. HandIs(inHand')
    BY <2>1, TrialIsCounted
  <2> QED
    BY <2>1, <2>2 DEF CensusInv
<1>3. CASE record_census
  <2>1. /\ inHand # Null /\ ~inHand.recorded
        /\ censuses' = Append(censuses, inHand.census)
        /\ inHand' = [inHand EXCEPT !.recorded = TRUE]
        /\ served' = Null /\ overlay' = overlay
    BY <1>3 DEF record_census
  <2>2. HandIs(inHand)
    BY <2>1 DEF CensusInv
  <2>3. PICK g, f, c : \E r \in BOOLEAN :
          /\ inHand = [gated |-> g, final |-> f, census |-> c, recorded |-> r]
          /\ Apart(g, f)
          /\ c \in Census \cup {Null} /\ (~r => c \in Census)
    BY <2>2 DEF HandIs
  <2>4. PICK r \in BOOLEAN :
          /\ inHand = [gated |-> g, final |-> f, census |-> c, recorded |-> r]
          /\ Apart(g, f)
          /\ c \in Census \cup {Null} /\ (~r => c \in Census)
    BY <2>3
  <2>5. inHand.recorded = r /\ inHand.census = c
    BY <2>4
  <2>6. c \in Census
    BY <2>1, <2>4, <2>5
  <2>7. censuses' \in Seq(Census)
    BY <2>1, <2>5, <2>6 DEF CensusInv
  <2>8. inHand' = [gated |-> g, final |-> f, census |-> c, recorded |-> TRUE]
    BY <2>1, <2>4
  <2>9. HandIs(inHand')
    BY <2>4, <2>6, <2>8 DEF HandIs
  <2> QED
    BY <2>1, <2>7, <2>9 DEF CensusInv
<1>4. CASE render_detection_overlay
  <2>1. /\ inHand # Null /\ inHand.census # Null
        /\ overlay' = [overlay EXCEPT ![inHand.census.port] =
             [s \in AllScenes |->
                IF s \in {inHand.census.scene} THEN inHand.census
                ELSE overlay[inHand.census.port][s]]]
        /\ served' = Null /\ UNCHANGED <<inHand, censuses>>
    BY <1>4 DEF render_detection_overlay, overlay_path
  <2>2. HandIs(inHand)
    BY <2>1 DEF CensusInv
  <2>3. PICK c : c = inHand.census
    OBVIOUS
  <2>4. c \in Census
    BY <2>1, <2>2, <2>3 DEF HandIs
  <2>5. c.port \in AnchoragePorts /\ c.scene \in AllScenes
    BY <2>4 DEF Census
  <2>6. PICK pictures : pictures = overlay
    OBVIOUS
  <2>7. Filed(pictures)
    BY <2>6 DEF CensusInv
  <2>8. PICK drawn : drawn = [s \in AllScenes |-> IF s = c.scene THEN c ELSE pictures[c.port][s]]
    OBVIOUS
  <2>9. overlay' = [pictures EXCEPT ![c.port] = drawn]
    BY <2>1, <2>3, <2>6, <2>8
  <2>10. /\ drawn \in [AllScenes -> Census \cup {Null}]
         /\ \A s \in AllScenes : drawn[s] # Null => drawn[s].scene = s
    BY <2>4, <2>5, <2>7, <2>8 DEF Filed
  <2>11. Filed(overlay')
    BY <2>5, <2>7, <2>9, <2>10 DEF Filed
  <2> QED
    BY <2>1, <2>2, <2>11 DEF CensusInv
<1>5. CASE Forget
  BY <1>5 DEF Forget, CensusInv
<1>6. CASE AskCensus
  <2>1. UNCHANGED <<inHand, censuses, overlay>>
    BY <1>6 DEF AskCensus
  <2>2. PICK p \in AnchoragePorts :
          get_anchorage_census(p) \/ get_anchorage_overlay(p) \/ get_anchorage_calibration(p)
    BY <1>6 DEF AskCensus
  <2>3. served' \in Answers(p)
    BY <2>2 DEF get_anchorage_census, get_anchorage_overlay, get_anchorage_calibration,
                Answers, CensusAnswer, OverlayAnswer, CalibrationAnswer
  <2>4. Answers(p)' = Answers(p)
    <3>1. latest_census(p)' = latest_census(p)
      BY <2>1 DEF latest_census, Mine
    <3>2. calibrate_port(p)' = calibrate_port(p)
      BY <2>1 DEF calibrate_port, Paired, Mine
    <3> QED
      BY <2>1, <3>1, <3>2 DEF Answers, CensusAnswer, OverlayAnswer, CalibrationAnswer
  <2>5. served' \in Answers(p)'
    BY <2>3, <2>4
  <2> QED
    BY <2>1, <2>5 DEF CensusInv
<1>7. CASE Hear
  BY <1>7 DEF Hear, CensusInv
<1>8. CASE UNCHANGED anchorageVars
  <2>1. UNCHANGED <<inHand, censuses, overlay, served>>
    BY <1>8 DEF anchorageVars
  <2>2. ASSUME NEW p PROVE Answers(p)' = Answers(p)
    <3>1. latest_census(p)' = latest_census(p)
      BY <2>1 DEF latest_census, Mine
    <3>2. calibrate_port(p)' = calibrate_port(p)
      BY <2>1 DEF calibrate_port, Paired, Mine
    <3> QED
      BY <2>1, <3>1, <3>2 DEF Answers, CensusAnswer, OverlayAnswer, CalibrationAnswer
  <2> QED
    BY <2>1, <2>2 DEF CensusInv
<1> QED
  BY <1>1, <1>2, <1>3, <1>4, <1>5, <1>6, <1>7, <1>8 DEF AnchorageNext

(* A census is of its scene, whatever the rasters, the settings and the    *)
(* order in which scenes are counted, recorded and drawn: every fragment   *)
(* that passes the gates is in one vessel counted, and no two vessels are  *)
(* within the merging radius; the scene served is the port's newest, with  *)
(* a picture of that scene or none; and a correlation rests on enough days *)
(* both counted (detect.py, store.py, render.py, calibrate.py).            *)
THEOREM CensusesAreOfTheirScenes == AnchorageSpec => []CensusIsOfItsScene
<1>1. AnchorageInit => CensusInv
  BY CensusInvInit
<1>2. CensusInv /\ [AnchorageNext]_anchorageVars => CensusInv'
  BY CensusInvStep
<1>3. CensusInv => CensusIsOfItsScene
  BY CensusInvTells
<1> QED
  BY <1>1, <1>2, <1>3, PTL DEF AnchorageSpec

=============================================================================
