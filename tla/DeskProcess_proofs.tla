-------------------------- MODULE DeskProcess_proofs --------------------------
(***************************************************************************)
(* The processes of the desk: the caches and the streams of the server,     *)
(* for any threads, snapshots, requests, streams and stages and any number  *)
(* of moves of the inputs and deaths; and the harvester of class averages   *)
(* (RateHarvest), for every number of days, length of a month and bound.    *)
(***************************************************************************)
EXTENDS MCDeskProcess, RateHarvest, FiniteSetTheorems, SequenceTheorems,
        WellFoundedInduction, TLAPS


(* The desk without the bounds of its run: any number of askers at work,   *)
(* streams on a warm desk too, and requests whatever the pool has lent.    *)
AnyStep ==
  \/ CacheNext /\ UNCHANGED stream
  \/ StreamNext /\ UNCHANGED cacheVars

AnyDesk == DeskInit /\ [][AnyStep]_deskVars

LEMMA RunsAreOfTheDesk == DeskSpec => AnyDesk
<1>1. [DeskNext]_deskVars => [AnyStep]_deskVars
  BY DEF DeskNext, AnyStep, CacheNext, AskInPool
<1> QED
  BY <1>1, PTL DEF DeskSpec, AnyDesk

-----------------------------------------------------------------------------
(***************************************************************************)
(* What is kept and who may read the test set.  Both are said of every      *)
(* process and thread, so all that has to be added is that the tables have  *)
(* an entry for each: the properties are inductive of themselves.           *)
(***************************************************************************)
IsAsk(q) == q = [phase |-> q.phase, todo |-> q.todo, reads |-> q.reads, key |-> q.key]

AsksThere   == ask = [t \in Askers |-> ask[t]] /\ \A t \in Askers : IsAsk(ask[t])
MemoryThere == memory = [p \in Process |-> [k \in Kinds |-> memory[p][k]]]

CacheInv ==
  /\ AsksThere /\ MemoryThere /\ gate \in [Askers -> BOOLEAN]
  /\ HalfFilesAreNotBelieved
  /\ PermissionEndsWithReport

\* A thread that goes on to another phase is still a thread.
LEMMA AskChanged ==
  ASSUME NEW q, IsAsk(q), NEW phase, NEW value
  PROVE  /\ IsAsk([q EXCEPT !.phase = phase]) /\ [q EXCEPT !.phase = phase].phase = phase
         /\ IsAsk([q EXCEPT !.todo = value]) /\ [q EXCEPT !.todo = value].phase = q.phase
         /\ IsAsk([q EXCEPT !.reads = value]) /\ [q EXCEPT !.reads = value].phase = q.phase
         /\ IsAsk([q EXCEPT !.key = value]) /\ [q EXCEPT !.key = value].phase = q.phase
<1> DEFINE r == [phase |-> q.phase, todo |-> q.todo, reads |-> q.reads, key |-> q.key]
<1>1. q = r
  BY DEF IsAsk
<1>2. [r EXCEPT !.phase = phase]
        = [phase |-> phase, todo |-> q.todo, reads |-> q.reads, key |-> q.key]
  OBVIOUS
<1>3. [r EXCEPT !.todo = value]
        = [phase |-> q.phase, todo |-> value, reads |-> q.reads, key |-> q.key]
  OBVIOUS
<1>4. [r EXCEPT !.reads = value]
        = [phase |-> q.phase, todo |-> q.todo, reads |-> value, key |-> q.key]
  OBVIOUS
<1>5. [r EXCEPT !.key = value]
        = [phase |-> q.phase, todo |-> q.todo, reads |-> q.reads, key |-> value]
  OBVIOUS
<1> HIDE DEF r
<1> QED
  BY <1>1, <1>2, <1>3, <1>4, <1>5 DEF IsAsk

LEMMA QuietIsAsk ==
  /\ IsAsk(Quiet) /\ Quiet.phase = "idle"
  /\ \A t : IsAsk(Fresh(t)) /\ Fresh(t).phase # "reporting"
<1>1. IsAsk(Quiet) /\ Quiet.phase = "idle"
  BY DEF Quiet, IsAsk
<1>2. LET q == [Quiet EXCEPT !.phase = "starting"]
      IN  IsAsk(q) /\ q.phase = "starting"
  BY <1>1, AskChanged, Zenon
<1>3. \A t : IsAsk(Fresh(t)) /\ Fresh(t).phase # "reporting"
  BY <1>1, <1>2 DEF Fresh
<1> QED
  BY <1>1, <1>3

\* One thread's step: its permission is right if it is right for its phase.
LEMMA ThreadMoves ==
  ASSUME CacheInv, NEW t \in Askers, NEW q, IsAsk(q), ask' = [ask EXCEPT ![t] = q],
         \/ gate' = [gate EXCEPT ![t] = TRUE] /\ q.phase = "reporting"
         \/ gate' = [gate EXCEPT ![t] = FALSE] /\ q.phase # "reporting"
         \/ gate' = gate /\ ask[t].phase # "reporting" /\ q.phase # "reporting"
  PROVE  AsksThere' /\ PermissionEndsWithReport' /\ (gate \in [Askers -> BOOLEAN])'
<1>1. /\ ask = [o \in Askers |-> ask[o]] /\ \A o \in Askers : IsAsk(ask[o])
      /\ gate \in [Askers -> BOOLEAN]
      /\ \A o \in Askers : gate[o] <=> ask[o].phase = "reporting"
  BY DEF CacheInv, AsksThere, PermissionEndsWithReport, At
<1>2. /\ ask' = [o \in Askers |-> ask'[o]]
      /\ ask'[t] = q /\ \A o \in Askers \ {t} : ask'[o] = ask[o]
  BY <1>1
<1>3. AsksThere'
  BY <1>1, <1>2 DEF AsksThere
<1>4. /\ gate' \in [Askers -> BOOLEAN]
      /\ gate'[t] <=> q.phase = "reporting"
      /\ \A o \in Askers \ {t} : gate'[o] = gate[o]
  BY <1>1
<1>5. PermissionEndsWithReport'
  BY <1>1, <1>2, <1>4 DEF PermissionEndsWithReport, At
<1> QED
  BY <1>3, <1>4, <1>5

\* What is kept stays whole if what is put in is.
LEMMA MemoryMoves ==
  ASSUME CacheInv, NEW p, NEW k, NEW kept, kept.whole,
         memory' = [memory EXCEPT ![p][k] = kept]
  PROVE  MemoryThere' /\ HalfFilesAreNotBelieved'
<1>1. /\ memory = [r \in Process |-> [j \in Kinds |-> memory[r][j]]]
      /\ \A r \in Process, j \in Kinds : memory[r][j] # Absent => memory[r][j].whole
  BY DEF CacheInv, MemoryThere, HalfFilesAreNotBelieved
<1>2. \A r \in Process, j \in Kinds :
        memory'[r][j] = IF r = p /\ j = k THEN kept ELSE memory[r][j]
  BY <1>1
<1>3. memory' = [r \in Process |-> [j \in Kinds |-> memory'[r][j]]]
  BY <1>1, <1>2
<1> QED
  BY <1>1, <1>2, <1>3 DEF MemoryThere, HalfFilesAreNotBelieved

LEMMA MemoryStays ==
  ASSUME CacheInv, UNCHANGED memory
  PROVE  MemoryThere' /\ HalfFilesAreNotBelieved'
  BY DEF CacheInv, MemoryThere, HalfFilesAreNotBelieved

(* A snapshot that was got, and the way on or back.                        *)
Told(t) == [Quiet EXCEPT !.phase = "told", !.todo = ask[t].todo]

LEMMA WaysOn ==
  ASSUME NEW t
  PROVE  /\ \A todo : LET q == [Quiet EXCEPT !.phase = "waiting", !.todo = todo]
                      IN  IsAsk(q) /\ q.phase = "waiting"
         /\ IsAsk(Told(t)) /\ Told(t).phase = "told"
         /\ IsAsk(Onward(t)) /\ Onward(t).phase # "reporting"
<1>1. ASSUME NEW phase, NEW todo
      PROVE  LET q == [Quiet EXCEPT !.phase = phase, !.todo = todo]
             IN  IsAsk(q) /\ q.phase = phase
  <2> DEFINE r == [Quiet EXCEPT !.phase = phase]
             q == [r EXCEPT !.todo = todo]
  <2>1. IsAsk(r) /\ r.phase = phase
    <3>1. IsAsk(Quiet)
      BY QuietIsAsk
    <3> HIDE DEF Quiet
    <3> QED
      BY <3>1, AskChanged, Zenon
  <2> HIDE DEF r
  <2>2. IsAsk(q) /\ q.phase = phase
    BY <2>1, AskChanged, Zenon
  <2> QED
    BY <2>2 DEF r
<1>2. IsAsk(Told(t)) /\ Told(t).phase = "told"
  BY <1>1, Zenon DEF Told
<1>3. \A todo : LET q == [Quiet EXCEPT !.phase = "waiting", !.todo = todo]
               IN  IsAsk(q) /\ q.phase = "waiting"
  BY <1>1, Zenon
<1>4. IsAsk(Onward(t)) /\ Onward(t).phase # "reporting"
  <2> DEFINE q == [Quiet EXCEPT !.phase = "waiting", !.todo = Tail(ask[t].todo)]
  <2>1. IsAsk(q) /\ q.phase = "waiting"
    BY <1>3, Zenon
  <2>2. Onward(t) = Quiet \/ Onward(t) = q
    BY DEF Onward
  <2> HIDE DEF q
  <2> QED
    BY <2>1, <2>2, QuietIsAsk
<1> QED
  BY <1>2, <1>3, <1>4

(* The steps of a thread, each with the phase it comes to.                 *)
LEMMA AskingKeeps ==
  ASSUME CacheInv, NEW t \in Askers, NEW todo, Begin(t, todo),
         ask[t].phase # "reporting", UNCHANGED <<memory, gate>>
  PROVE  CacheInv'
<1> DEFINE q == [Quiet EXCEPT !.phase = "waiting", !.todo = todo]
<1>1. ask' = [ask EXCEPT ![t] = q]
  BY DEF Begin
<1>2. IsAsk(q) /\ q.phase = "waiting"
  BY WaysOn, Zenon
<1> HIDE DEF q
<1> QED
  BY <1>1, <1>2, ThreadMoves, MemoryStays DEF CacheInv

LEMMA AcquireKeeps ==
  ASSUME CacheInv, NEW t \in Askers, Acquire(t)
  PROVE  CacheInv'
<1> DEFINE q == [ask[t] EXCEPT !.phase = "inside"]
<1>1. /\ ask' = [ask EXCEPT ![t] = q]
      /\ ask[t].phase = "waiting" /\ UNCHANGED <<memory, gate>>
  BY DEF Acquire, At
<1>2. IsAsk(q) /\ q.phase = "inside"
  BY AskChanged, Zenon DEF CacheInv, AsksThere
<1> HIDE DEF q
<1> QED
  BY <1>1, <1>2, ThreadMoves, MemoryStays DEF CacheInv

LEMMA HitKeeps ==
  ASSUME CacheInv, NEW t \in Askers, Hit(t)
  PROVE  CacheInv'
<1>1. /\ ask' = [ask EXCEPT ![t] = Told(t)]
      /\ ask[t].phase = "inside" /\ UNCHANGED <<memory, gate>>
  BY DEF Hit, Have, Told, At
<1> QED
  BY <1>1, WaysOn, ThreadMoves, MemoryStays DEF CacheInv

LEMMA LoadKeeps ==
  ASSUME CacheInv, NEW t \in Askers, Load(t)
  PROVE  CacheInv'
<1> DEFINE kept == [reads |-> disk[inputs].reads, whole |-> disk[inputs].whole]
<1>1. /\ ask' = [ask EXCEPT ![t] = Told(t)]
      /\ ask[t].phase = "inside" /\ UNCHANGED gate
      /\ memory' = [memory EXCEPT ![Of(t)]["replay"] = kept]
  BY DEF Load, Have, Told, At
<1>2. kept.whole
  BY DEF Load, Readable
<1> HIDE DEF kept
<1>3. MemoryThere' /\ HalfFilesAreNotBelieved'
  BY <1>1, <1>2, MemoryMoves
<1> QED
  BY <1>1, <1>3, WaysOn, ThreadMoves DEF CacheInv

LEMMA ComputeKeeps ==
  ASSUME CacheInv, NEW t \in Askers, Compute(t)
  PROVE  CacheInv'
<1> DEFINE r == [ask[t] EXCEPT !.phase = "computing"]
           q == [r EXCEPT !.reads = {inputs}]
<1>1. /\ ask' = [ask EXCEPT ![t] = q]
      /\ ask[t].phase = "inside" /\ UNCHANGED <<memory, gate>>
  BY DEF Compute, At
<1>2. IsAsk(r) /\ r.phase = "computing"
  BY AskChanged, Zenon DEF CacheInv, AsksThere
<1> HIDE DEF r
<1>3. IsAsk(q) /\ q.phase = "computing"
  BY <1>2, AskChanged, Zenon
<1> HIDE DEF q
<1> QED
  BY <1>1, <1>3, ThreadMoves, MemoryStays DEF CacheInv

LEMMA ReportKeeps ==
  ASSUME CacheInv, NEW t \in Askers, Report(t)
  PROVE  CacheInv'
<1> DEFINE r == [ask[t] EXCEPT !.phase = "reporting"]
           q == [r EXCEPT !.reads = ask[t].reads \cup {inputs}]
<1>1. /\ ask' = [ask EXCEPT ![t] = q]
      /\ gate' = [gate EXCEPT ![t] = TRUE] /\ UNCHANGED memory
  BY DEF Report
<1>2. IsAsk(r) /\ r.phase = "reporting"
  BY AskChanged, Zenon DEF CacheInv, AsksThere
<1> HIDE DEF r
<1>3. IsAsk(q) /\ q.phase = "reporting"
  BY <1>2, AskChanged, Zenon
<1> HIDE DEF q
<1> QED
  BY <1>1, <1>3, ThreadMoves, MemoryStays DEF CacheInv

LEMMA ComputedKeeps ==
  ASSUME CacheInv, NEW t \in Askers, Computed(t)
  PROVE  CacheInv'
<1> DEFINE kept == [reads |-> ask[t].reads, whole |-> TRUE]
           q    == [ask[t] EXCEPT !.phase = "writing"]
<1>1. /\ ask' = [ask EXCEPT ![t] = q] \/ ask' = [ask EXCEPT ![t] = Told(t)]
      /\ gate' = [gate EXCEPT ![t] = FALSE]
      /\ memory' = [memory EXCEPT ![Of(t)][Kind(t)] = kept]
  BY DEF Computed, Have, Told
<1>2. kept.whole
  OBVIOUS
<1>3. IsAsk(q) /\ q.phase = "writing"
  BY AskChanged, Zenon DEF CacheInv, AsksThere
<1> HIDE DEF kept, q
<1>4. MemoryThere' /\ HalfFilesAreNotBelieved'
  BY <1>1, <1>2, MemoryMoves
<1>5. AsksThere' /\ PermissionEndsWithReport' /\ (gate \in [Askers -> BOOLEAN])'
  <2>1. CASE ask' = [ask EXCEPT ![t] = q]
    BY <1>1, <1>3, <2>1, ThreadMoves
  <2>2. CASE ask' = [ask EXCEPT ![t] = Told(t)]
    BY <1>1, <2>2, WaysOn, ThreadMoves
  <2> QED
    BY <1>1, <2>1, <2>2
<1> QED
  BY <1>4, <1>5 DEF CacheInv

LEMMA FailKeeps ==
  ASSUME CacheInv, NEW t \in Askers, Fail(t)
  PROVE  CacheInv'
<1>1. /\ \/ ask' = [ask EXCEPT ![t] = Onward(t)]
         \/ ask' = [ask EXCEPT ![t] = Quiet]
      /\ gate' = [gate EXCEPT ![t] = FALSE] /\ UNCHANGED memory
  BY DEF Fail, Refused
<1> QED
  BY <1>1, WaysOn, QuietIsAsk, ThreadMoves, MemoryStays DEF CacheInv

LEMMA OpenTmpKeeps ==
  ASSUME CacheInv, NEW t \in Askers, OpenTmp(t)
  PROVE  CacheInv'
<1> DEFINE r == [ask[t] EXCEPT !.phase = "filling"]
           q == [r EXCEPT !.key = inputs]
<1>1. /\ ask' = [ask EXCEPT ![t] = q]
      /\ ask[t].phase = "writing" /\ UNCHANGED <<memory, gate>>
  BY DEF OpenTmp, At
<1>2. IsAsk(r) /\ r.phase = "filling"
  BY AskChanged, Zenon DEF CacheInv, AsksThere
<1> HIDE DEF r
<1>3. IsAsk(q) /\ q.phase = "filling"
  BY <1>2, AskChanged, Zenon
<1> HIDE DEF q
<1> QED
  BY <1>1, <1>3, ThreadMoves, MemoryStays DEF CacheInv

LEMMA FillTmpKeeps ==
  ASSUME CacheInv, NEW t \in Askers, FillTmp(t)
  PROVE  CacheInv'
<1> DEFINE q == [ask[t] EXCEPT !.phase = "moving"]
<1>1. /\ ask' = [ask EXCEPT ![t] = q]
      /\ ask[t].phase = "filling" /\ UNCHANGED <<memory, gate>>
  BY DEF FillTmp, At
<1>2. IsAsk(q) /\ q.phase = "moving"
  BY AskChanged, Zenon DEF CacheInv, AsksThere
<1> HIDE DEF q
<1> QED
  BY <1>1, <1>2, ThreadMoves, MemoryStays DEF CacheInv

LEMMA MoveTmpKeeps ==
  ASSUME CacheInv, NEW t \in Askers, MoveTmp(t) \/ WriteFails(t)
  PROVE  CacheInv'
<1>1. /\ \/ ask' = [ask EXCEPT ![t] = Told(t)]
         \/ ask' = [ask EXCEPT ![t] = Quiet]
      /\ ask[t].phase # "reporting" /\ UNCHANGED <<memory, gate>>
  BY DEF MoveTmp, WriteFails, Have, Told, At
<1> QED
  BY <1>1, WaysOn, QuietIsAsk, ThreadMoves, MemoryStays DEF CacheInv

LEMMA AnswerKeeps ==
  ASSUME CacheInv, NEW t \in Askers, Answer(t)
  PROVE  CacheInv'
<1> DEFINE r == [ask[t] EXCEPT !.phase = "writing"]
           q == [r EXCEPT !.reads = Mine(t).reads]
<1>1. /\ ask' = [ask EXCEPT ![t] = q] \/ ask' = [ask EXCEPT ![t] = Onward(t)]
      /\ ask[t].phase = "told" /\ UNCHANGED <<memory, gate>>
  BY DEF Answer, At
<1>2. IsAsk(r) /\ r.phase = "writing"
  BY AskChanged, Zenon DEF CacheInv, AsksThere
<1> HIDE DEF r
<1>3. IsAsk(q) /\ q.phase = "writing"
  BY <1>2, AskChanged, Zenon
<1> HIDE DEF q
<1> QED
  BY <1>1, <1>3, WaysOn, ThreadMoves, MemoryStays DEF CacheInv

LEMMA KillKeeps ==
  ASSUME CacheInv, NEW p \in Process, Kill(p)
  PROVE  CacheInv'
<1> DEFINE dead == {t \in Askers : Of(t) = p}
<1>1. /\ ask' = [t \in Askers |-> IF t \in dead THEN Fresh(t) ELSE ask[t]]
      /\ gate' = [t \in Askers |-> gate[t] /\ t \notin dead]
      /\ memory' = [memory EXCEPT ![p] = [k \in Kinds |-> Absent]]
  BY DEF Kill
<1> HIDE DEF dead
<1>2. \A t \in Askers : ask'[t] = IF t \in dead THEN Fresh(t) ELSE ask[t]
  BY <1>1
<1>3. AsksThere'
  BY <1>1, <1>2, QuietIsAsk DEF CacheInv, AsksThere
<1>4. (gate \in [Askers -> BOOLEAN])' /\ PermissionEndsWithReport'
  BY <1>1, <1>2, QuietIsAsk DEF CacheInv, PermissionEndsWithReport, At
<1>5. \A r \in Process, k \in Kinds :
        memory'[r][k] = IF r = p THEN Absent ELSE memory[r][k]
  BY <1>1 DEF CacheInv, MemoryThere
<1>6. MemoryThere'
  BY <1>1, <1>5 DEF CacheInv, MemoryThere
<1>7. HalfFilesAreNotBelieved'
  BY <1>5 DEF CacheInv, HalfFilesAreNotBelieved
<1> QED
  BY <1>3, <1>4, <1>6, <1>7 DEF CacheInv

LEMMA CacheRests ==
  ASSUME CacheInv, UNCHANGED <<memory, gate, ask>>
  PROVE  CacheInv'
  BY DEF CacheInv, AsksThere, MemoryThere, IsAsk, HalfFilesAreNotBelieved,
         PermissionEndsWithReport, At

LEMMA CacheInvHolds == AnyDesk => []CacheInv
<1>1. DeskInit => CacheInv
  <2> SUFFICES ASSUME DeskInit PROVE CacheInv
    OBVIOUS
  <2>1. /\ memory = [p \in Process |-> [k \in Kinds |-> Absent]]
        /\ gate = [t \in Askers |-> FALSE]
        /\ ask = [t \in Askers |-> Fresh(t)]
    BY DEF DeskInit, CacheInit
  <2>2. AsksThere
    BY <2>1, QuietIsAsk DEF AsksThere
  <2>3. MemoryThere /\ HalfFilesAreNotBelieved
    BY <2>1 DEF MemoryThere, HalfFilesAreNotBelieved
  <2>4. gate \in [Askers -> BOOLEAN] /\ PermissionEndsWithReport
    BY <2>1, QuietIsAsk DEF PermissionEndsWithReport, At
  <2> QED
    BY <2>2, <2>3, <2>4 DEF CacheInv
<1>2. CacheInv /\ [AnyStep]_deskVars => CacheInv'
  <2> SUFFICES ASSUME CacheInv, [AnyStep]_deskVars PROVE CacheInv'
    OBVIOUS
  <2>1. CASE WarmUp
    BY <2>1, AskingKeeps DEF WarmUp, At, Askers
  <2>2. CASE Build
    BY <2>2, AskingKeeps DEF Build, At, Askers
  <2>3. ASSUME NEW t \in Askers, Ask(t) PROVE CacheInv'
    BY <2>3, AskingKeeps DEF Ask, At
  <2>4. ASSUME NEW t \in Askers, Acquire(t) \/ CacheStep(t) PROVE CacheInv'
    BY <2>4, AcquireKeeps, HitKeeps, LoadKeeps, ComputeKeeps, ReportKeeps, ComputedKeeps,
       FailKeeps, OpenTmpKeeps, FillTmpKeeps, MoveTmpKeeps, AnswerKeeps DEF CacheStep
  <2>5. ASSUME NEW p \in Process, Kill(p) PROVE CacheInv'
    BY <2>5, KillKeeps
  <2>6. CASE UNCHANGED <<memory, gate, ask>>
    BY <2>6, CacheRests
  <2> QED
    BY <2>1, <2>2, <2>3, <2>4, <2>5, <2>6
       DEF AnyStep, CacheNext, Move, deskVars, cacheVars
<1> QED
  BY <1>1, <1>2, PTL DEF AnyDesk

(***************************************************************************)
(* What a process keeps and serves was whole when it was read, whatever was *)
(* killed in mid-write and however desk and builder shared a temporary      *)
(* file; and a thread may read the frozen test set exactly while it reports *)
(* on it, computations that fail and processes that die included.           *)
(* (opt/replay.py:262-334, ml/frozen_test.py:56-105)                        *)
(***************************************************************************)
THEOREM CachesStaySound == AnyDesk => []SnapshotsAreSound
<1>1. CacheInv => SnapshotsAreSound
  BY DEF CacheInv, SnapshotsAreSound
<1> QED
  BY <1>1, CacheInvHolds, PTL

-----------------------------------------------------------------------------
(***************************************************************************)
(* A stream, told, queued and handed to the loop, is one line of items, of  *)
(* which nothing is taken out and nothing is put between: the stages, each  *)
(* from its start to its end but for a last one that raised, then the mark  *)
(* of the thread's end, which the loop turns into the verdict and the end   *)
(* of the stream.                                                           *)
(***************************************************************************)
\* "none" is there for the outcome a stream has before its thread ends.
Items == {"start", "done", "ended", "none", "result", "error", "end"}

LineLength(told, queue, ready) == Len(told) + Len(queue) + Len(ready)

Line(told, queue, ready, i) ==
  IF i <= Len(told) THEN told[i]
  ELSE IF i <= Len(told) + Len(queue) THEN queue[i - Len(told)]
  ELSE ready[i - Len(told) - Len(queue)]

StageItem(i) == IF i % 2 = 1 THEN "start" ELSE "done"

StreamState ==
  [kind : {"none", "quote", "fragility"},
   gen : {"idle", "reading", "ending", "closed"}, client : BOOLEAN,
   thread : {"none", "queued", "running", "over"}, inside : BOOLEAN, stages : Nat,
   broken : BOOLEAN, outcome : {"none", "result", "error"},
   ready : Seq(Items), queue : Seq(Items), told : Seq(Items)]

\* The stages were k items of the line: the last may have no end if it raised.
Unended(x, k) == k = 2 * x.stages - 1 /\ (x.kind = "fragility" \/ x.stages = 1)
Paired(x, k)  == k \in Nat /\ (k = 2 * x.stages \/ (x.outcome = "error" /\ Unended(x, k)))

\* Where a stream with its client at the other end may be.
Waits(x, n) ==
  /\ x.gen = "reading" /\ x.thread = "queued" /\ n = 0 /\ ~x.inside /\ x.stages = 0

Works(x, n) ==
  /\ x.gen = "reading" /\ x.thread = "running"
  /\ \A i \in 1 .. n : Line(x.told, x.queue, x.ready, i) = StageItem(i)
  /\ x.inside => n = 2 * x.stages + 1
  /\ ~x.inside => n = 2 * x.stages \/ (x.broken /\ Unended(x, n))

Ends(x, n) ==
  /\ x.gen = "reading" /\ x.thread = "over" /\ x.outcome # "none" /\ Paired(x, n - 1)
  /\ \A i \in 1 .. n - 1 : Line(x.told, x.queue, x.ready, i) = StageItem(i)
  /\ Line(x.told, x.queue, x.ready, n) = "ended" /\ x.ready # <<>>

Speaks(x, n) ==
  /\ x.gen = "reading" /\ x.thread = "over" /\ x.outcome # "none"
  /\ Paired(x, n - 2) /\ Len(x.told) < n
  /\ \A i \in 1 .. n - 2 : Line(x.told, x.queue, x.ready, i) = StageItem(i)
  /\ Line(x.told, x.queue, x.ready, n - 1) = x.outcome
  /\ Line(x.told, x.queue, x.ready, n) = "end"

Spoke(x) ==
  /\ x.gen \in {"ending", "closed"} /\ x.thread = "over" /\ x.outcome # "none"
  /\ x.queue = <<>> /\ x.ready = <<>> /\ Paired(x, Len(x.told) - 1)
  /\ \A i \in 1 .. Len(x.told) - 1 : x.told[i] = StageItem(i)
  /\ x.told[Len(x.told)] = x.outcome

InLine(x) ==
  LET n == LineLength(x.told, x.queue, x.ready)
  IN  Waits(x, n) \/ Works(x, n) \/ Ends(x, n) \/ Speaks(x, n) \/ Spoke(x)

VerdictLast(x) == \A i \in 1 .. Len(x.told) : x.told[i] \in {"result", "error"} => i = Len(x.told)

StreamFits(x) ==
  /\ x.gen = "idle" => x = NoStream
  /\ x.client => InLine(x)
  /\ ~x.client => VerdictLast(x)

StreamInv ==
  /\ stream \in [Streams -> StreamState]
  /\ \A s \in Streams : StreamFits(stream[s])

(* What happens to the line when an item is handed over, put on the queue, *)
(* told, or answered.                                                      *)
LEMMA AppendedItem ==
  ASSUME NEW t \in Seq(Items), NEW q \in Seq(Items), NEW r \in Seq(Items), NEW e \in Items
  PROVE  /\ LineLength(t, q, r) \in Nat
         /\ Append(r, e) \in Seq(Items) /\ Append(r, e) # <<>>
         /\ LineLength(t, q, Append(r, e)) = LineLength(t, q, r) + 1
         /\ \A i \in 1 .. LineLength(t, q, r) : Line(t, q, Append(r, e), i) = Line(t, q, r, i)
         /\ Line(t, q, Append(r, e), LineLength(t, q, r) + 1) = e
<1> DEFINE n == LineLength(t, q, r)
           k == Append(r, e)
<1>1. /\ k \in Seq(Items) /\ k # <<>> /\ Len(k) = Len(r) + 1 /\ k[Len(r) + 1] = e
      /\ \A i \in 1 .. Len(r) : k[i] = r[i]
  OBVIOUS
<1> HIDE DEF k
<1>2. n \in Nat /\ LineLength(t, q, k) = n + 1
  BY <1>1 DEF LineLength
<1>3. \A i \in 1 .. n : Line(t, q, k, i) = Line(t, q, r, i)
  <2> SUFFICES ASSUME NEW i \in 1 .. n, i > Len(t) + Len(q)
               PROVE  k[i - Len(t) - Len(q)] = r[i - Len(t) - Len(q)]
    BY DEF Line
  <2>1. i - Len(t) - Len(q) \in 1 .. Len(r)
    BY DEF LineLength
  <2> QED
    BY <1>1, <2>1
<1>4. Line(t, q, k, n + 1) = e
  BY <1>1 DEF LineLength, Line
<1> QED
  BY <1>1, <1>2, <1>3, <1>4 DEF k

LEMMA HandedOver ==
  ASSUME NEW x \in StreamState, NEW y \in StreamState, NEW e \in Items,
         y.told = x.told, y.queue = x.queue, y.ready = Append(x.ready, e)
  PROVE  LET n == LineLength(x.told, x.queue, x.ready)
         IN  /\ n \in Nat /\ LineLength(y.told, y.queue, y.ready) = n + 1
             /\ \A i \in 1 .. n :
                  Line(y.told, y.queue, y.ready, i) = Line(x.told, x.queue, x.ready, i)
             /\ Line(y.told, y.queue, y.ready, n + 1) = e
             /\ y.ready # <<>>
<1>1. PICK t, q, r : t = x.told /\ q = x.queue /\ r = x.ready
  OBVIOUS
<1>2. t \in Seq(Items) /\ q \in Seq(Items) /\ r \in Seq(Items)
  BY <1>1 DEF StreamState
<1>3. \A i \in 1 .. LineLength(t, q, r) : Line(t, q, Append(r, e), i) = Line(t, q, r, i)
  BY <1>2, AppendedItem
<1>4. Line(t, q, Append(r, e), LineLength(t, q, r) + 1) = e
  BY <1>2, AppendedItem
<1>5. LineLength(t, q, Append(r, e)) = LineLength(t, q, r) + 1 /\ LineLength(t, q, r) \in Nat
  BY <1>2, AppendedItem
<1>6. Append(r, e) # <<>>
  BY <1>2
<1> QED
  BY <1>1, <1>3, <1>4, <1>5, <1>6

LEMMA PutOnQueue ==
  ASSUME NEW t \in Seq(Items), NEW q \in Seq(Items), NEW r \in Seq(Items), r # <<>>
  PROVE  LET n == LineLength(t, q, r)
             k == Append(q, Head(r))
         IN  /\ n \in Nat /\ k \in Seq(Items) /\ Tail(r) \in Seq(Items) /\ Head(r) \in Items
             /\ Len(t) + Len(q) + 1 \in 1 .. n
             /\ Head(r) = Line(t, q, r, Len(t) + Len(q) + 1)
             /\ Len(Tail(r)) = n - (Len(t) + Len(q) + 1)
             /\ LineLength(t, k, Tail(r)) = n
             /\ \A i \in 1 .. n : Line(t, k, Tail(r), i) = Line(t, q, r, i)
  BY DEF LineLength, Line

LEMMA ToldNext ==
  ASSUME NEW t \in Seq(Items), NEW q \in Seq(Items), NEW r \in Seq(Items), q # <<>>
  PROVE  LET n == LineLength(t, q, r)
             k == Append(t, Head(q))
         IN  /\ n \in Nat /\ k \in Seq(Items) /\ Tail(q) \in Seq(Items) /\ Head(q) \in Items
             /\ Len(t) + 1 \in 1 .. n /\ Len(k) = Len(t) + 1
             /\ Head(q) = Line(t, q, r, Len(t) + 1)
             /\ LineLength(k, Tail(q), r) = n
             /\ \A i \in 1 .. n : Line(k, Tail(q), r, i) = Line(t, q, r, i)
             /\ Len(t) + 1 = n => Tail(q) = <<>> /\ r = <<>>
<1> DEFINE n == LineLength(t, q, r)
           k == Append(t, Head(q))
<1>1. /\ Tail(q) \in Seq(Items) /\ Head(q) \in Items /\ Head(q) = q[1]
      /\ Len(q) >= 1 /\ Len(Tail(q)) = Len(q) - 1
      /\ \A i \in 1 .. Len(q) - 1 : Tail(q)[i] = q[i + 1]
  OBVIOUS
<1>2. /\ k \in Seq(Items) /\ Len(k) = Len(t) + 1 /\ k[Len(t) + 1] = Head(q)
      /\ \A i \in 1 .. Len(t) : k[i] = t[i]
  BY <1>1
<1> HIDE DEF k
<1>3. /\ n \in Nat /\ Len(t) + 1 \in 1 .. n /\ LineLength(k, Tail(q), r) = n
  BY <1>1, <1>2 DEF LineLength
<1>4. Head(q) = Line(t, q, r, Len(t) + 1)
  BY <1>1 DEF Line
<1>5. \A i \in 1 .. n : Line(k, Tail(q), r, i) = Line(t, q, r, i)
  <2> SUFFICES ASSUME NEW i \in 1 .. n PROVE Line(k, Tail(q), r, i) = Line(t, q, r, i)
    OBVIOUS
  <2>1. CASE i <= Len(t)
    BY <1>2, <2>1 DEF Line
  <2>2. CASE i = Len(t) + 1
    BY <1>1, <1>2, <2>2 DEF Line
  <2>3. CASE i > Len(t) + 1 /\ i <= Len(t) + Len(q)
    <3>1. i - Len(k) \in 1 .. Len(q) - 1 /\ i - Len(k) + 1 = i - Len(t)
      BY <1>1, <1>2, <2>3
    <3>2. Line(k, Tail(q), r, i) = Tail(q)[i - Len(k)] /\ Line(t, q, r, i) = q[i - Len(t)]
      BY <1>1, <1>2, <2>3 DEF Line
    <3> QED
      BY <1>1, <3>1, <3>2
  <2>4. CASE i > Len(t) + Len(q)
    BY <1>1, <1>2, <2>4 DEF Line
  <2> QED
    BY <2>1, <2>2, <2>3, <2>4, <1>3
<1>6. Len(t) + 1 = n => Tail(q) = <<>> /\ r = <<>>
  BY <1>1 DEF LineLength
<1> QED
  BY <1>1, <1>2, <1>3, <1>4, <1>5, <1>6 DEF k

LEMMA Answered ==
  ASSUME NEW t \in Seq(Items), NEW q \in Seq(Items), NEW e \in Items, NEW o \in Items
  PROVE  LET n == LineLength(t, q, <<e>>)
         IN  /\ n \in Nat /\ <<o, "end">> \in Seq(Items) /\ Len(t) < n
             /\ LineLength(t, q, <<o, "end">>) = n + 1
             /\ \A i \in 1 .. n - 1 : Line(t, q, <<o, "end">>, i) = Line(t, q, <<e>>, i)
             /\ Line(t, q, <<o, "end">>, n) = o
             /\ Line(t, q, <<o, "end">>, n + 1) = "end"
  BY DEF LineLength, Line, Items

LEMMA OneStreamMoves ==
  ASSUME StreamInv, NEW s \in Streams, NEW y \in StreamState,
         stream' = [stream EXCEPT ![s] = y], StreamFits(y)
  PROVE  StreamInv'
<1>1. /\ stream \in [Streams -> StreamState] /\ \A o \in Streams : StreamFits(stream[o])
  BY DEF StreamInv
<1>2. /\ stream' \in [Streams -> StreamState]
      /\ stream'[s] = y /\ \A o \in Streams \ {s} : stream'[o] = stream[o]
  BY <1>1
<1> QED
  BY <1>1, <1>2 DEF StreamInv

(* The steps, one stream at a time.                                        *)
LEMMA StreamOf ==
  ASSUME StreamInv, NEW s \in Streams
  PROVE  stream[s] \in StreamState /\ StreamFits(stream[s])
  BY DEF StreamInv

LEMMA OpenFits ==
  ASSUME StreamInv, NEW s \in Streams, Open(s)
  PROVE  StreamInv'
<1>0. PICK kind \in {"quote", "fragility"} :
        stream' = [stream EXCEPT ![s].kind = kind, ![s].gen = "reading", ![s].client = TRUE,
                                 ![s].thread = "queued"]
  BY DEF Open
<1> DEFINE x == stream[s]
           y == [x EXCEPT !.kind = kind, !.gen = "reading", !.client = TRUE, !.thread = "queued"]
<1>1. x \in StreamState /\ StreamFits(x)
  BY StreamOf
<1>2. stream' = [stream EXCEPT ![s] = y]
  BY <1>0
<1>3. x = NoStream
  BY <1>1 DEF Open, StreamFits
<1>4. /\ y \in StreamState
      /\ y.gen = "reading" /\ y.client = TRUE /\ y.thread = "queued" /\ y.stages = x.stages
      /\ y.inside = x.inside /\ y.told = x.told /\ y.queue = x.queue /\ y.ready = x.ready
  BY <1>1 DEF StreamState
<1>5. x.inside = FALSE /\ x.stages = 0 /\ x.told = <<>> /\ x.queue = <<>> /\ x.ready = <<>>
  BY <1>3 DEF NoStream
<1> HIDE DEF y
<1>6. StreamFits(y)
  BY <1>4, <1>5 DEF StreamFits, InLine, Waits, LineLength
<1> QED
  BY <1>2, <1>4, <1>6, OneStreamMoves

LEMMA QueuedLine ==
  ASSUME NEW x \in StreamState, x.ready # <<>>, NEW y \in StreamState,
         y.told = x.told, y.queue = Append(x.queue, Head(x.ready)), y.ready = Tail(x.ready)
  PROVE  LET n  == LineLength(x.told, x.queue, x.ready)
             at == Len(x.told) + Len(x.queue) + 1
         IN  /\ n \in Nat /\ LineLength(y.told, y.queue, y.ready) = n
             /\ at \in 1 .. n /\ Head(x.ready) = Line(x.told, x.queue, x.ready, at)
             /\ n # 0 /\ (at # n => y.ready # <<>>)
             /\ \A i \in 1 .. n :
                  Line(y.told, y.queue, y.ready, i) = Line(x.told, x.queue, x.ready, i)
<1>1. PICK t, q, r : t = x.told /\ q = x.queue /\ r = x.ready
  OBVIOUS
<1>2. t \in Seq(Items) /\ q \in Seq(Items) /\ r \in Seq(Items) /\ r # <<>>
  BY <1>1 DEF StreamState
<1> DEFINE n  == LineLength(t, q, r)
           at == Len(t) + Len(q) + 1
           k  == Append(q, Head(r))
<1>3. n \in Nat /\ LineLength(t, k, Tail(r)) = n
  BY <1>2, PutOnQueue
<1>4. at \in 1 .. n /\ Len(Tail(r)) = n - at
  BY <1>2, PutOnQueue
<1>5. Head(r) = Line(t, q, r, at)
  BY <1>2, PutOnQueue
<1>6. \A i \in 1 .. n : Line(t, k, Tail(r), i) = Line(t, q, r, i)
  BY <1>2, PutOnQueue
<1>7. n # 0 /\ (at # n => Tail(r) # <<>>)
  <2>1. PICK a, b, c \in Nat : a = Len(t) /\ b = Len(q) /\ c = Len(r)
    BY <1>2
  <2>2. c >= 1 /\ Len(Tail(r)) = c - 1
    BY <1>2, <2>1
  <2>3. n = a + b + c /\ at = a + b + 1
    BY <2>1 DEF LineLength
  <2> HIDE DEF n, at
  <2>4. n # 0 /\ (at # n => c - 1 # 0)
    BY <2>2, <2>3
  <2> QED
    BY <2>2, <2>4
<1> QED
  BY <1>1, <1>3, <1>4, <1>5, <1>6, <1>7

(* What a step makes of one stream's state x.                              *)
LEMMA WorkingIsInLine ==
  ASSUME NEW x \in StreamState, StreamFits(x), x.thread = "running"
  PROVE  x.gen # "idle" /\ (x.client => Works(x, LineLength(x.told, x.queue, x.ready)))
  BY DEF StreamFits, NoStream, InLine, Waits, Works, Ends, Speaks, Spoke

LEMMA StageBegun ==
  ASSUME NEW x \in StreamState, StreamFits(x), x.thread = "running", ~x.inside, ~x.broken,
         NEW y \in StreamState, y.thread = "running", y.gen = x.gen, y.client = x.client,
         y.kind = x.kind, y.stages = x.stages,
         y.inside = TRUE, y.told = x.told, y.queue = x.queue, y.ready = Append(x.ready, "start")
  PROVE  StreamFits(y)
<1>1. x.gen # "idle" /\ (x.client => Works(x, LineLength(x.told, x.queue, x.ready)))
  BY WorkingIsInLine
<1>2. CASE ~x.client
  BY <1>1, <1>2 DEF StreamFits, VerdictLast
<1>3. CASE x.client
  <2> DEFINE n == LineLength(x.told, x.queue, x.ready)
  <2>1. /\ n \in Nat /\ LineLength(y.told, y.queue, y.ready) = n + 1
        /\ \A i \in 1 .. n :
             Line(y.told, y.queue, y.ready, i) = Line(x.told, x.queue, x.ready, i)
        /\ Line(y.told, y.queue, y.ready, n + 1) = "start"
    BY HandedOver DEF Items
  <2>2. Works(x, n)
    BY <1>1, <1>3
  <2> HIDE DEF n
  <2>4. n = 2 * x.stages /\ x.stages \in Nat
    BY <2>2 DEF Works, StreamState
  <2>5. StageItem(n + 1) = "start"
    BY <2>4 DEF StageItem
  <2>6. \A i \in 1 .. n + 1 : i \in 1 .. n \/ i = n + 1
    BY <2>1
  <2>3. Works(y, n + 1)
    BY <2>1, <2>2, <2>4, <2>5, <2>6 DEF Works
  <2> QED
    BY <1>1, <1>3, <2>1, <2>3 DEF StreamFits, InLine
<1> QED
  BY <1>2, <1>3 DEF StreamState

LEMMA StageEnded ==
  ASSUME NEW x \in StreamState, StreamFits(x), x.thread = "running", x.inside,
         NEW y \in StreamState, y.thread = "running", y.gen = x.gen, y.client = x.client,
         y.kind = x.kind, y.stages = x.stages + 1,
         y.inside = FALSE, y.told = x.told, y.queue = x.queue, y.ready = Append(x.ready, "done")
  PROVE  StreamFits(y)
<1>1. x.gen # "idle" /\ (x.client => Works(x, LineLength(x.told, x.queue, x.ready)))
  BY WorkingIsInLine
<1>2. CASE ~x.client
  BY <1>1, <1>2 DEF StreamFits, VerdictLast
<1>3. CASE x.client
  <2> DEFINE n == LineLength(x.told, x.queue, x.ready)
  <2>1. /\ n \in Nat /\ LineLength(y.told, y.queue, y.ready) = n + 1
        /\ \A i \in 1 .. n :
             Line(y.told, y.queue, y.ready, i) = Line(x.told, x.queue, x.ready, i)
        /\ Line(y.told, y.queue, y.ready, n + 1) = "done"
    BY HandedOver DEF Items
  <2>2. Works(x, n)
    BY <1>1, <1>3
  <2> HIDE DEF n
  <2>4. n = 2 * x.stages + 1 /\ x.stages \in Nat
    BY <2>2 DEF Works, StreamState
  <2>5. StageItem(n + 1) = "done"
    BY <2>4 DEF StageItem
  <2>6. \A i \in 1 .. n + 1 : i \in 1 .. n \/ i = n + 1
    BY <2>1
  <2>7. n + 1 = 2 * y.stages
    BY <2>4
  <2>3. Works(y, n + 1)
    BY <2>1, <2>2, <2>5, <2>6, <2>7 DEF Works
  <2> QED
    BY <1>1, <1>3, <2>1, <2>3 DEF StreamFits, InLine
<1> QED
  BY <1>2, <1>3 DEF StreamState

\* A stage that raised and has no end.
LEMMA StageTorn ==
  ASSUME NEW x \in StreamState, StreamFits(x), x.thread = "running", x.inside,
         x.kind = "fragility" \/ x.stages = 0,
         NEW y \in StreamState, y.thread = "running", y.gen = x.gen, y.client = x.client,
         y.kind = x.kind, y.stages = x.stages + 1, y.broken,
         y.inside = FALSE, y.told = x.told, y.queue = x.queue, y.ready = x.ready
  PROVE  StreamFits(y)
<1>1. x.gen # "idle" /\ (x.client => Works(x, LineLength(x.told, x.queue, x.ready)))
  BY WorkingIsInLine
<1>2. CASE ~x.client
  BY <1>1, <1>2 DEF StreamFits, VerdictLast
<1>3. CASE x.client
  <2> DEFINE n == LineLength(x.told, x.queue, x.ready)
  <2>1. Works(x, n)
    BY <1>1, <1>3
  <2>2. LineLength(y.told, y.queue, y.ready) = n
    OBVIOUS
  <2> HIDE DEF n
  <2>3. n = 2 * x.stages + 1 /\ x.stages \in Nat
    BY <2>1 DEF Works, StreamState
  <2>4. Unended(y, n)
    BY <2>3 DEF Unended
  <2>5. Works(y, n)
    BY <2>1, <2>4 DEF Works
  <2> QED
    BY <1>1, <1>3, <2>2, <2>5 DEF StreamFits, InLine
<1> QED
  BY <1>2, <1>3 DEF StreamState

LEMMA ThreadEnded ==
  ASSUME NEW x \in StreamState, StreamFits(x), x.thread = "running", ~x.inside,
         NEW y \in StreamState, y.thread = "over", y.gen = x.gen, y.client = x.client,
         y.kind = x.kind, y.stages = x.stages,
         y.outcome # "none", x.broken => y.outcome = "error",
         y.told = x.told, y.queue = x.queue, y.ready = Append(x.ready, "ended")
  PROVE  StreamFits(y)
<1>1. x.gen # "idle" /\ (x.client => Works(x, LineLength(x.told, x.queue, x.ready)))
  BY WorkingIsInLine
<1>2. CASE ~x.client
  BY <1>1, <1>2 DEF StreamFits, VerdictLast
<1>3. CASE x.client
  <2> DEFINE n == LineLength(x.told, x.queue, x.ready)
  <2>1. /\ n \in Nat /\ LineLength(y.told, y.queue, y.ready) = n + 1
        /\ \A i \in 1 .. n :
             Line(y.told, y.queue, y.ready, i) = Line(x.told, x.queue, x.ready, i)
        /\ Line(y.told, y.queue, y.ready, n + 1) = "ended" /\ y.ready # <<>>
    BY HandedOver DEF Items
  <2>2. Works(x, n)
    BY <1>1, <1>3
  <2> HIDE DEF n
  <2>4. n + 1 - 1 = n
    BY <2>1
  <2>5. Paired(y, n)
    BY <2>1, <2>2 DEF Works, Paired, Unended
  <2>3. Ends(y, n + 1)
    BY <2>1, <2>2, <2>4, <2>5 DEF Works, Ends
  <2> QED
    BY <1>1, <1>3, <2>1, <2>3 DEF StreamFits, InLine
<1> QED
  BY <1>2, <1>3 DEF StreamState

LEMMA ItemQueued ==
  ASSUME NEW x \in StreamState, StreamFits(x), x.ready # <<>>, Head(x.ready) # "ended",
         NEW y \in StreamState, y.thread = x.thread, y.gen = x.gen, y.client = x.client,
         y.kind = x.kind, y.stages = x.stages, y.broken = x.broken,
         y.inside = x.inside, y.outcome = x.outcome, y.told = x.told,
         y.queue = Append(x.queue, Head(x.ready)), y.ready = Tail(x.ready)
  PROVE  StreamFits(y)
<1>1. x.gen # "idle"
  BY DEF StreamFits, NoStream
<1>2. CASE ~x.client
  BY <1>1, <1>2 DEF StreamFits, VerdictLast
<1>3. CASE x.client
  <2> DEFINE n  == LineLength(x.told, x.queue, x.ready)
             at == Len(x.told) + Len(x.queue) + 1
  <2>1. /\ n \in Nat /\ LineLength(y.told, y.queue, y.ready) = n
        /\ at \in 1 .. n /\ Head(x.ready) = Line(x.told, x.queue, x.ready, at)
        /\ n # 0 /\ (at # n => y.ready # <<>>)
        /\ \A i \in 1 .. n :
             Line(y.told, y.queue, y.ready, i) = Line(x.told, x.queue, x.ready, i)
    BY QueuedLine
  <2>2. Works(x, n) \/ Ends(x, n) \/ Speaks(x, n)
    <3>1. InLine(x)
      BY <1>3 DEF StreamFits
    <3> QED
      BY <2>1, <3>1 DEF InLine, Waits, Spoke
  <2> HIDE DEF n, at
  <2>3. CASE Works(x, n)
    <3>1. Works(y, n)
      BY <2>1, <2>3 DEF Works, Unended
    <3> QED
      BY <1>1, <1>3, <2>1, <3>1 DEF StreamFits, InLine
  <2>4. CASE Ends(x, n)
    <3>1. at # n
      BY <2>1, <2>4 DEF Ends
    <3>2. n \in 1 .. n
      BY <2>1
    <3>3. /\ Line(y.told, y.queue, y.ready, n) = "ended" /\ y.ready # <<>>
          /\ \A i \in 1 .. n - 1 : Line(y.told, y.queue, y.ready, i) = StageItem(i)
      BY <2>1, <2>4, <3>1, <3>2 DEF Ends
    <3>4. Ends(y, n)
      BY <2>4, <3>3 DEF Ends, Paired, Unended
    <3> QED
      BY <1>1, <1>3, <2>1, <3>4 DEF StreamFits, InLine
  <2>5. CASE Speaks(x, n)
    <3>1. n - 1 \in 1 .. n /\ n \in 1 .. n /\ 1 .. n - 2 \subseteq 1 .. n
      BY <2>1, <2>5 DEF Speaks, Paired, Unended
    <3>2. Speaks(y, n)
      BY <2>1, <2>5, <3>1 DEF Speaks, Paired, Unended
    <3> QED
      BY <1>1, <1>3, <2>1, <3>2 DEF StreamFits, InLine
  <2> QED
    BY <2>2, <2>3, <2>4, <2>5
<1> QED
  BY <1>2, <1>3 DEF StreamState

LEMMA VerdictGiven ==
  ASSUME NEW x \in StreamState, StreamFits(x), x.ready # <<>>, Head(x.ready) = "ended",
         NEW y \in StreamState, y.thread = x.thread, y.gen = x.gen, y.client = x.client,
         y.kind = x.kind, y.stages = x.stages,
         y.inside = x.inside, y.outcome = x.outcome, y.told = x.told, y.queue = x.queue,
         y.ready = Tail(x.ready) \o <<x.outcome, "end">>
  PROVE  StreamFits(y)
<1>1. x.gen # "idle"
  BY DEF StreamFits, NoStream
<1>2. CASE ~x.client
  BY <1>1, <1>2 DEF StreamFits, VerdictLast
<1>3. CASE x.client
  <2>1. PICK z \in StreamState : z = [x EXCEPT !.queue = Append(x.queue, Head(x.ready)),
                                              !.ready = Tail(x.ready)]
    <3>1. Append(x.queue, Head(x.ready)) \in Seq(Items) /\ Tail(x.ready) \in Seq(Items)
      BY DEF StreamState
    <3> QED
      BY <3>1 DEF StreamState
  <2>2. z.told = x.told /\ z.queue = Append(x.queue, Head(x.ready)) /\ z.ready = Tail(x.ready)
    BY <2>1 DEF StreamState
  <2> DEFINE n  == LineLength(x.told, x.queue, x.ready)
             at == Len(x.told) + Len(x.queue) + 1
  <2>3. /\ n \in Nat /\ at \in 1 .. n /\ n # 0
        /\ Line(x.told, x.queue, x.ready, at) = "ended"
    BY <2>2, QueuedLine
  <2>4. InLine(x)
    BY <1>3 DEF StreamFits
  <2>5. Works(x, n) \/ Ends(x, n) \/ Speaks(x, n)
    BY <2>3, <2>4 DEF InLine, Waits, Spoke
  <2> HIDE DEF n, at
  <2>6. ~Works(x, n)
    BY <2>3 DEF Works, StageItem
  <2>7. ~Speaks(x, n)
    <3>1. at \in 1 .. n - 2 \/ at = n - 1 \/ at = n
      BY <2>3
    <3>2. x.outcome # "ended"
      BY DEF StreamState
    <3> QED
      BY <2>3, <3>1, <3>2 DEF Speaks, StageItem
  <2>8. Ends(x, n)
    BY <2>5, <2>6, <2>7
  <2>9. at = n
    <3>1. at \in 1 .. n - 1 \/ at = n
      BY <2>3
    <3> QED
      BY <2>3, <2>8, <3>1 DEF Ends, StageItem
  <2>10. x.ready = <<"ended">>
    <3>1. x.ready \in Seq(Items) /\ x.told \in Seq(Items) /\ x.queue \in Seq(Items)
      BY DEF StreamState
    <3>2. PICK a, b, c \in Nat : a = Len(x.told) /\ b = Len(x.queue) /\ c = Len(x.ready)
      BY <3>1
    <3>3. a + b + 1 = a + b + c
      BY <2>9, <3>2 DEF n, at, LineLength
    <3>4. c = 1
      BY <3>3
    <3>5. Len(x.ready) = 1
      BY <3>2, <3>4
    <3> QED
      BY <3>1, <3>5
  <2>11. y.ready = <<x.outcome, "end">>
    BY <2>10
  <2>12. /\ LineLength(y.told, y.queue, y.ready) = n + 1 /\ Len(y.told) < n
         /\ \A i \in 1 .. n - 1 :
              Line(y.told, y.queue, y.ready, i) = Line(x.told, x.queue, x.ready, i)
         /\ Line(y.told, y.queue, y.ready, n) = x.outcome
         /\ Line(y.told, y.queue, y.ready, n + 1) = "end"
    <3>1. PICK t, q, o, e : t = x.told /\ q = x.queue /\ o = x.outcome /\ e = "ended"
      OBVIOUS
    <3>2. t \in Seq(Items) /\ q \in Seq(Items) /\ o \in Items /\ e \in Items
      BY <2>8, <3>1 DEF StreamState, Ends, Items
    <3>3. /\ LineLength(t, q, <<o, "end">>) = LineLength(t, q, <<e>>) + 1
          /\ Len(t) < LineLength(t, q, <<e>>)
      BY <3>2, Answered
    <3>4. \A i \in 1 .. LineLength(t, q, <<e>>) - 1 :
            Line(t, q, <<o, "end">>, i) = Line(t, q, <<e>>, i)
      BY <3>2, Answered
    <3>5. /\ Line(t, q, <<o, "end">>, LineLength(t, q, <<e>>)) = o
          /\ Line(t, q, <<o, "end">>, LineLength(t, q, <<e>>) + 1) = "end"
      BY <3>2, Answered
    <3> QED
      BY <2>10, <2>11, <3>1, <3>3, <3>4, <3>5 DEF n
  <2>13. Speaks(y, n + 1)
    <3>0. n \in Int
      BY <2>3
    <3>1. PICK m \in Nat : m = n + 1
      BY <2>3
    <3>2. m - 2 = n - 1 /\ m - 1 = n
      BY <3>0, <3>1
    <3>8. Paired(y, m - 2)
      BY <2>8, <3>2 DEF Ends, Paired, Unended
    <3>3. Len(y.told) < m
      <4>1. Len(y.told) \in Nat
        BY DEF StreamState
      <4> QED
        BY <2>3, <2>12, <3>1, <4>1
    <3>4. \A i \in 1 .. m - 2 : Line(y.told, y.queue, y.ready, i) = StageItem(i)
      BY <2>8, <2>12, <3>2 DEF Ends
    <3>5. y.gen = "reading" /\ y.thread = "over" /\ y.outcome # "none"
      BY <2>8 DEF Ends
    <3>6. /\ Line(y.told, y.queue, y.ready, m - 1) = y.outcome
          /\ Line(y.told, y.queue, y.ready, m) = "end"
      BY <2>12, <3>1, <3>2
    <3>7. Speaks(y, m)
      BY <3>3, <3>4, <3>5, <3>6, <3>8 DEF Speaks
    <3> QED
      BY <3>1, <3>7
  <2> QED
    BY <1>1, <1>3, <2>12, <2>13 DEF StreamFits, InLine
<1> QED
  BY <1>2, <1>3 DEF StreamState

LEMMA ToldLine ==
  ASSUME NEW x \in StreamState, x.queue # <<>>, NEW y \in StreamState,
         y.told = Append(x.told, Head(x.queue)), y.queue = Tail(x.queue), y.ready = x.ready
  PROVE  LET n  == LineLength(x.told, x.queue, x.ready)
             at == Len(x.told) + 1
         IN  /\ LineLength(y.told, y.queue, y.ready) = n /\ Len(y.told) = at
             /\ \A i \in 1 .. n :
                  Line(y.told, y.queue, y.ready, i) = Line(x.told, x.queue, x.ready, i)
<1>1. PICK t, q, r : t = x.told /\ q = x.queue /\ r = x.ready
  OBVIOUS
<1>2. t \in Seq(Items) /\ q \in Seq(Items) /\ r \in Seq(Items) /\ q # <<>>
  BY <1>1 DEF StreamState
<1> DEFINE n == LineLength(t, q, r)
           k == Append(t, Head(q))
<1>3. LineLength(k, Tail(q), r) = n /\ Len(k) = Len(t) + 1
  BY <1>2, ToldNext
<1>4. \A i \in 1 .. n : Line(k, Tail(q), r, i) = Line(t, q, r, i)
  BY <1>2, ToldNext
<1> QED
  BY <1>1, <1>3, <1>4

(* The next item of a queue is the next of the line, and the last of the  *)
(* line only when nothing waits behind it.                                *)
LEMMA NextOfLine ==
  ASSUME NEW x \in StreamState, x.queue # <<>>
  PROVE  LET n  == LineLength(x.told, x.queue, x.ready)
             at == Len(x.told) + 1
         IN  /\ n \in Nat /\ at \in 1 .. n /\ n # 0
             /\ Head(x.queue) = Line(x.told, x.queue, x.ready, at)
             /\ at = n => Tail(x.queue) = <<>> /\ x.ready = <<>>
             /\ \A i \in 1 .. Len(x.told) : Line(x.told, x.queue, x.ready, i) = x.told[i]
<1>1. PICK t, q, r : t = x.told /\ q = x.queue /\ r = x.ready
  OBVIOUS
<1>2. t \in Seq(Items) /\ q \in Seq(Items) /\ r \in Seq(Items) /\ q # <<>>
  BY <1>1 DEF StreamState
<1> DEFINE n == LineLength(t, q, r)
<1>3. n \in Nat /\ Len(t) + 1 \in 1 .. n
  BY <1>2, ToldNext
<1>4. Head(q) = Line(t, q, r, Len(t) + 1)
  BY <1>2, ToldNext
<1>5. Len(t) + 1 = n => Tail(q) = <<>> /\ r = <<>>
  BY <1>2, ToldNext
<1>6. n # 0
  <2> HIDE DEF n
  <2>1. Len(t) \in Nat
    BY <1>2
  <2> QED
    BY <1>3, <2>1
<1>7. \A i \in 1 .. Len(t) : Line(t, q, r, i) = t[i]
  BY <1>2 DEF Line
<1> QED
  BY <1>1, <1>3, <1>4, <1>5, <1>6, <1>7

LEMMA ThreadStarted ==
  ASSUME NEW x \in StreamState, StreamFits(x), x.thread = "queued",
         NEW y \in StreamState, y.thread = "running", y.gen = x.gen, y.client = x.client,
         y.kind = x.kind, y.stages = x.stages,
         y.inside = x.inside, y.told = x.told, y.queue = x.queue, y.ready = x.ready
  PROVE  StreamFits(y)
<1>1. x.gen # "idle"
  BY DEF StreamFits, NoStream
<1>2. CASE ~x.client
  BY <1>1, <1>2 DEF StreamFits, VerdictLast
<1>3. CASE x.client
  <2> DEFINE n == LineLength(x.told, x.queue, x.ready)
  <2>1. Waits(x, n)
    BY <1>3 DEF StreamFits, InLine, Works, Ends, Speaks, Spoke
  <2>2. LineLength(y.told, y.queue, y.ready) = n
    OBVIOUS
  <2> HIDE DEF n
  <2>3. Works(y, n)
    BY <2>1 DEF Waits, Works
  <2> QED
    BY <1>1, <1>3, <2>2, <2>3 DEF StreamFits, InLine
<1> QED
  BY <1>2, <1>3 DEF StreamState

LEMMA ItemTold ==
  ASSUME NEW x \in StreamState, StreamFits(x), x.gen = "reading", x.queue # <<>>,
         Head(x.queue) # "end", x.client,
         NEW y \in StreamState, y.thread = x.thread, y.gen = x.gen, y.client = x.client,
         y.kind = x.kind, y.stages = x.stages, y.broken = x.broken,
         y.inside = x.inside, y.outcome = x.outcome, y.told = Append(x.told, Head(x.queue)),
         y.queue = Tail(x.queue), y.ready = x.ready
  PROVE  StreamFits(y)
<1> DEFINE n  == LineLength(x.told, x.queue, x.ready)
           at == Len(x.told) + 1
<1>1. /\ n \in Nat /\ at \in 1 .. n /\ n # 0
      /\ Line(x.told, x.queue, x.ready, at) # "end"
  BY NextOfLine
<1>2. /\ LineLength(y.told, y.queue, y.ready) = n /\ Len(y.told) = at
      /\ \A i \in 1 .. n :
           Line(y.told, y.queue, y.ready, i) = Line(x.told, x.queue, x.ready, i)
  BY ToldLine
<1>3. Works(x, n) \/ Ends(x, n) \/ Speaks(x, n)
  BY <1>1 DEF StreamFits, InLine, Waits, Spoke
<1> HIDE DEF n, at
<1>4. CASE Works(x, n)
  <2>1. Works(y, n)
    BY <1>2, <1>4 DEF Works, Unended
  <2> QED
    BY <1>2, <2>1 DEF StreamFits, InLine
<1>5. CASE Ends(x, n)
  <2>1. n \in 1 .. n
    BY <1>1
  <2>2. Ends(y, n)
    BY <1>2, <1>5, <2>1 DEF Ends, Paired, Unended
  <2> QED
    BY <1>2, <2>2 DEF StreamFits, InLine
<1>6. CASE Speaks(x, n)
  <2>1. n - 1 \in 1 .. n /\ n \in 1 .. n /\ 1 .. n - 2 \subseteq 1 .. n
    BY <1>1, <1>6 DEF Speaks
  <2>2. at # n
    BY <1>1, <1>6 DEF Speaks
  <2>3. Len(y.told) < n
    BY <1>1, <1>2, <2>2
  <2>4. Speaks(y, n)
    BY <1>2, <1>6, <2>1, <2>3 DEF Speaks, Paired, Unended
  <2> QED
    BY <1>2, <2>4 DEF StreamFits, InLine
<1> QED
  BY <1>3, <1>4, <1>5, <1>6

LEMMA EndTold ==
  ASSUME NEW x \in StreamState, StreamFits(x), x.gen = "reading", x.queue # <<>>,
         Head(x.queue) = "end", x.client,
         NEW y \in StreamState, y.thread = x.thread, y.gen = "ending", y.client = x.client,
         y.kind = x.kind, y.stages = x.stages,
         y.outcome = x.outcome, y.told = x.told, y.queue = Tail(x.queue), y.ready = x.ready
  PROVE  StreamFits(y)
<1> DEFINE n  == LineLength(x.told, x.queue, x.ready)
           at == Len(x.told) + 1
<1>1. /\ n \in Nat /\ at \in 1 .. n /\ n # 0
      /\ Line(x.told, x.queue, x.ready, at) = "end"
      /\ at = n => Tail(x.queue) = <<>> /\ x.ready = <<>>
      /\ \A i \in 1 .. Len(x.told) : Line(x.told, x.queue, x.ready, i) = x.told[i]
  BY NextOfLine
<1>2. Works(x, n) \/ Ends(x, n) \/ Speaks(x, n)
  BY <1>1 DEF StreamFits, InLine, Waits, Spoke
<1>3. PICK m \in Nat : m = Len(x.told)
  BY DEF StreamState
<1>4. at = m + 1
  BY <1>3
<1> HIDE DEF n, at
<1>5. at \in 1 .. n - 2 \/ at = n - 1 \/ at = n
  BY <1>1
<1>6. Speaks(x, n) /\ at = n
  <2>1. ~Works(x, n)
    BY <1>1 DEF Works, StageItem
  <2>2. ~Ends(x, n)
    <3>1. at \in 1 .. n - 1 \/ at = n
      BY <1>1
    <3> QED
      BY <1>1, <3>1 DEF Ends, StageItem
  <2>3. at # n - 1 /\ at \notin 1 .. n - 2
    <3>1. x.outcome # "end"
      BY DEF StreamState
    <3> QED
      BY <1>1, <1>2, <2>1, <2>2, <3>1 DEF Speaks, StageItem
  <2> QED
    BY <1>2, <1>5, <2>1, <2>2, <2>3
<1>7. n = m + 1 /\ m >= 1 /\ n - 2 = m - 1 /\ n - 1 = m
  <2>1. n = m + 1
    BY <1>4, <1>6
  <2>2. n - 2 \in Nat
    BY <1>6 DEF Speaks, Paired
  <2> QED
    BY <2>1, <2>2
<1>8. \A i \in 1 .. m - 1 : x.told[i] = StageItem(i)
  <2>1. \A i \in 1 .. m - 1 : i \in 1 .. m
    BY <1>3
  <2> QED
    BY <1>1, <1>3, <1>6, <1>7, <2>1 DEF Speaks
<1>9. x.told[m] = x.outcome
  <2>1. m \in 1 .. m
    BY <1>3, <1>7
  <2> QED
    BY <1>1, <1>3, <1>6, <1>7, <2>1 DEF Speaks
<1>11. Paired(y, m - 1)
  BY <1>6, <1>7 DEF Speaks, Paired, Unended
<1>10. Spoke(y)
  BY <1>1, <1>3, <1>6, <1>7, <1>8, <1>9, <1>11 DEF Spoke, Speaks
<1> QED
  BY <1>10 DEF StreamFits, InLine

LEMMA LeftBehind ==
  ASSUME NEW x \in StreamState, InLine(x)
  PROVE  VerdictLast(x)
<1>1. PICK t, q, r : t = x.told /\ q = x.queue /\ r = x.ready
  OBVIOUS
<1>2. t \in Seq(Items) /\ q \in Seq(Items) /\ r \in Seq(Items)
  BY <1>1 DEF StreamState
<1>3. PICK m, n \in Nat : m = Len(t) /\ n = LineLength(t, q, r)
  BY <1>2 DEF LineLength
<1>4. m <= n
  BY <1>2, <1>3 DEF LineLength
<1>5. \A i \in 1 .. m : Line(t, q, r, i) = t[i]
  BY <1>3 DEF Line
<1> SUFFICES ASSUME NEW i \in 1 .. m, t[i] \in {"result", "error"} PROVE i = m
  BY <1>1, <1>3 DEF VerdictLast
<1>6. Line(t, q, r, i) \notin {"start", "done", "ended"}
  BY <1>5
<1>7. CASE Waits(x, n)
  BY <1>3, <1>4, <1>7 DEF Waits
<1>8. CASE Works(x, n)
  <2>1. i \in 1 .. n
    BY <1>3, <1>4
  <2> QED
    BY <1>1, <1>6, <1>8, <2>1 DEF Works, StageItem
<1>9. CASE Ends(x, n)
  <2>1. i \in 1 .. n - 1 \/ i = n
    BY <1>3, <1>4
  <2> QED
    BY <1>1, <1>6, <1>9, <2>1 DEF Ends, StageItem
<1>10. CASE Speaks(x, n)
  <2>1. m < n
    BY <1>1, <1>3, <1>10 DEF Speaks
  <2>2. i \in 1 .. n - 2 \/ i = m
    BY <1>3, <2>1
  <2> QED
    BY <1>1, <1>6, <1>10, <2>2 DEF Speaks, StageItem
<1>11. CASE Spoke(x)
  <2>1. i \in 1 .. m - 1 \/ i = m
    BY <1>3
  <2> QED
    BY <1>1, <1>3, <1>11, <2>1 DEF Spoke, StageItem
<1> QED
  BY <1>1, <1>3, <1>7, <1>8, <1>9, <1>10, <1>11 DEF InLine

(* The actions, by what they make of the stream they are about.            *)
LEMMA StartFits ==
  ASSUME StreamInv, NEW s \in Streams, Start(s)
  PROVE  StreamInv'
<1> DEFINE x == stream[s]
           y == [x EXCEPT !.thread = "running"]
<1>1. x \in StreamState /\ StreamFits(x)
  BY StreamOf
<1>2. stream' = [stream EXCEPT ![s] = y] /\ x.thread = "queued"
  BY DEF Start
<1>3. /\ y.kind = x.kind /\ y.stages = x.stages
      /\ y \in StreamState /\ y.thread = "running" /\ y.gen = x.gen /\ y.client = x.client
      /\ y.inside = x.inside /\ y.told = x.told /\ y.queue = x.queue /\ y.ready = x.ready
  BY <1>1 DEF StreamState
<1> HIDE DEF x, y
<1>4. StreamFits(y)
  BY <1>1, <1>2, <1>3, ThreadStarted
<1> QED
  BY <1>2, <1>3, <1>4, OneStreamMoves DEF x

LEMMA BeginStageFits ==
  ASSUME StreamInv, NEW s \in Streams, BeginStage(s)
  PROVE  StreamInv'
<1> DEFINE x == stream[s]
           y == [x EXCEPT !.inside = TRUE, !.ready = Append(@, "start")]
<1>1. x \in StreamState /\ StreamFits(x)
  BY StreamOf
<1>2. stream' = [stream EXCEPT ![s] = y] /\ x.thread = "running" /\ ~x.inside /\ ~x.broken
  BY DEF BeginStage, Running
<1>3. Append(x.ready, "start") \in Seq(Items)
  BY <1>1 DEF StreamState, Items
<1>4. /\ y.kind = x.kind /\ y.stages = x.stages
      /\ y \in StreamState /\ y.thread = x.thread /\ y.gen = x.gen /\ y.client = x.client
      /\ y.inside = TRUE /\ y.told = x.told /\ y.queue = x.queue
      /\ y.ready = Append(x.ready, "start")
  BY <1>1, <1>3 DEF StreamState
<1> HIDE DEF x, y
<1>5. StreamFits(y)
  BY <1>1, <1>2, <1>4, StageBegun
<1> QED
  BY <1>2, <1>4, <1>5, OneStreamMoves DEF x

LEMMA EndStageFits ==
  ASSUME StreamInv, NEW s \in Streams, EndStage(s)
  PROVE  StreamInv'
<1> DEFINE x == stream[s]
           unsaid(raised) == raised /\ ~InContext(s)
           ready(raised) == IF unsaid(raised) THEN x.ready ELSE Append(x.ready, "done")
           Y(raised) == [x EXCEPT !.inside = FALSE, !.broken = raised, !.stages = x.stages + 1,
                                  !.ready = ready(raised)]
<1>1. PICK raised \in BOOLEAN : stream' = [stream EXCEPT ![s] = Y(raised)]
  BY DEF EndStage
<1> DEFINE y == Y(raised)
<1>2. x \in StreamState /\ StreamFits(x)
  BY StreamOf
<1>3. stream' = [stream EXCEPT ![s] = y] /\ x.thread = "running" /\ x.inside
  BY <1>1 DEF EndStage, Running
<1>4. ready(raised) \in Seq(Items) /\ x.stages + 1 \in Nat
  BY <1>2 DEF StreamState, Items
<1>7. unsaid(raised) => raised /\ (x.kind = "fragility" \/ x.stages = 0)
  <2>1. x.stages \in Nat
    BY <1>2 DEF StreamState
  <2> QED
    BY <2>1 DEF InContext
<1> HIDE DEF ready, unsaid
<1>5. /\ y \in StreamState /\ y.thread = x.thread /\ y.gen = x.gen /\ y.client = x.client
      /\ y.kind = x.kind /\ y.stages = x.stages + 1 /\ y.broken = raised
      /\ y.inside = FALSE /\ y.told = x.told /\ y.queue = x.queue
      /\ y.ready = ready(raised)
  BY <1>2, <1>4 DEF StreamState
<1>8. CASE unsaid(raised)
  <2>1. ready(raised) = x.ready
    BY <1>8 DEF ready
  <2> HIDE DEF x, y
  <2>2. StreamFits(y)
    BY <1>2, <1>3, <1>5, <1>7, <1>8, <2>1, StageTorn
  <2> QED
    BY <1>3, <1>5, <2>2, OneStreamMoves DEF x
<1>9. CASE ~unsaid(raised)
  <2>1. ready(raised) = Append(x.ready, "done")
    BY <1>9 DEF ready
  <2> HIDE DEF x, y
  <2>2. StreamFits(y)
    BY <1>2, <1>3, <1>5, <2>1, StageEnded
  <2> QED
    BY <1>3, <1>5, <2>2, OneStreamMoves DEF x
<1> QED
  BY <1>8, <1>9

LEMMA EndThreadFits ==
  ASSUME StreamInv, NEW s \in Streams, EndThread(s)
  PROVE  StreamInv'
<1>1. PICK outcome \in {"result", "error"} :
        /\ stream' = [stream EXCEPT ![s].thread = "over", ![s].outcome = outcome,
                                    ![s].ready = Append(@, "ended")]
        /\ stream[s].broken => outcome = "error"
  BY DEF EndThread
<1> DEFINE x == stream[s]
           y == [x EXCEPT !.thread = "over", !.outcome = outcome, !.ready = Append(@, "ended")]
<1>2. x \in StreamState /\ StreamFits(x)
  BY StreamOf
<1>3. stream' = [stream EXCEPT ![s] = y] /\ x.thread = "running" /\ ~x.inside
  BY <1>1 DEF EndThread, Running
<1>4. Append(x.ready, "ended") \in Seq(Items)
  BY <1>2 DEF StreamState, Items
<1>5. /\ y \in StreamState /\ y.thread = "over" /\ y.gen = x.gen /\ y.client = x.client
      /\ y.kind = x.kind /\ y.stages = x.stages /\ (x.broken => y.outcome = "error")
      /\ y.outcome # "none" /\ y.told = x.told /\ y.queue = x.queue
      /\ y.ready = Append(x.ready, "ended")
  BY <1>1, <1>2, <1>4 DEF StreamState
<1> HIDE DEF x, y
<1>6. StreamFits(y)
  BY <1>2, <1>3, <1>5, ThreadEnded
<1> QED
  BY <1>3, <1>5, <1>6, OneStreamMoves DEF x

LEMMA LoopFits ==
  ASSUME StreamInv, NEW s \in Streams, Loop(s)
  PROVE  StreamInv'
<1> DEFINE x == stream[s]
<1>1. x \in StreamState /\ StreamFits(x)
  BY StreamOf
<1>2. x.ready # <<>>
  BY DEF Loop
<1>3. /\ Tail(x.ready) \in Seq(Items) /\ Head(x.ready) \in Items
      /\ Append(x.queue, Head(x.ready)) \in Seq(Items)
  BY <1>1, <1>2 DEF StreamState
<1>4. CASE Head(x.ready) = "ended"
  <2> DEFINE y == [x EXCEPT !.ready = Tail(x.ready) \o <<x.outcome, "end">>]
  <2>1. stream' = [stream EXCEPT ![s] = y]
    BY <1>4 DEF Loop, Verdict
  <2>2. Tail(x.ready) \o <<x.outcome, "end">> \in Seq(Items)
    <3>1. <<x.outcome, "end">> \in Seq(Items)
      BY <1>1 DEF StreamState, Items
    <3> QED
      BY <1>3, <3>1
  <2>3. /\ y \in StreamState /\ y.thread = x.thread /\ y.gen = x.gen /\ y.client = x.client
        /\ y.kind = x.kind /\ y.stages = x.stages /\ y.broken = x.broken
        /\ y.inside = x.inside /\ y.outcome = x.outcome /\ y.told = x.told
        /\ y.queue = x.queue /\ y.ready = Tail(x.ready) \o <<x.outcome, "end">>
    BY <1>1, <2>2 DEF StreamState
  <2> HIDE DEF x, y
  <2>4. StreamFits(y)
    BY <1>1, <1>2, <1>4, <2>3, VerdictGiven
  <2> QED
    BY <2>1, <2>3, <2>4, OneStreamMoves DEF x
<1>5. CASE Head(x.ready) # "ended"
  <2> DEFINE y == [x EXCEPT !.ready = Tail(x.ready), !.queue = Append(x.queue, Head(x.ready))]
  <2>1. stream' = [stream EXCEPT ![s] = y]
    BY <1>5 DEF Loop
  <2>2. /\ y \in StreamState /\ y.thread = x.thread /\ y.gen = x.gen /\ y.client = x.client
        /\ y.kind = x.kind /\ y.stages = x.stages /\ y.broken = x.broken
        /\ y.inside = x.inside /\ y.outcome = x.outcome /\ y.told = x.told
        /\ y.queue = Append(x.queue, Head(x.ready)) /\ y.ready = Tail(x.ready)
    BY <1>1, <1>3 DEF StreamState
  <2> HIDE DEF x, y
  <2>3. StreamFits(y)
    BY <1>1, <1>2, <1>5, <2>2, ItemQueued
  <2> QED
    BY <2>1, <2>2, <2>3, OneStreamMoves DEF x
<1> QED
  BY <1>4, <1>5

LEMMA SendFits ==
  ASSUME StreamInv, NEW s \in Streams, Send(s)
  PROVE  StreamInv'
<1> DEFINE x == stream[s]
           item == Head(x.queue)
           gen == IF item = "end" THEN "ending" ELSE x.gen
           told == IF item = "end" \/ ~x.client THEN x.told ELSE Append(x.told, item)
           y == [x EXCEPT !.queue = Tail(x.queue), !.gen = gen, !.told = told]
<1>1. x \in StreamState /\ StreamFits(x)
  BY StreamOf
<1>2. x.gen = "reading" /\ x.queue # <<>> /\ stream' = [stream EXCEPT ![s] = y]
  BY DEF Send
<1>3. /\ Tail(x.queue) \in Seq(Items) /\ told \in Seq(Items)
      /\ gen \in {"idle", "reading", "ending", "closed"}
  <2>1. Head(x.queue) \in Items /\ Tail(x.queue) \in Seq(Items)
    BY <1>1, <1>2 DEF StreamState
  <2>2. Append(x.told, item) \in Seq(Items)
    BY <1>1, <2>1 DEF StreamState
  <2> QED
    BY <1>1, <2>1, <2>2 DEF StreamState
<1> HIDE DEF gen, told
<1>4. /\ y \in StreamState /\ y.thread = x.thread /\ y.gen = gen /\ y.client = x.client
      /\ y.kind = x.kind /\ y.stages = x.stages /\ y.broken = x.broken
      /\ y.inside = x.inside /\ y.outcome = x.outcome /\ y.told = told
      /\ y.queue = Tail(x.queue) /\ y.ready = x.ready
  BY <1>1, <1>3 DEF StreamState
<1> HIDE DEF x, y
<1>5. CASE ~x.client
  <2>1. told = x.told /\ gen # "idle"
    BY <1>2, <1>5 DEF told, gen
  <2>2. VerdictLast(x)
    BY <1>1, <1>5 DEF StreamFits
  <2>3. StreamFits(y)
    BY <1>4, <1>5, <2>1, <2>2 DEF StreamFits, VerdictLast
  <2> QED
    BY <1>2, <1>4, <2>3, OneStreamMoves DEF x
<1>6. CASE x.client /\ Head(x.queue) = "end"
  <2>1. told = x.told /\ gen = "ending"
    BY <1>6 DEF told, gen
  <2>2. StreamFits(y)
    BY <1>1, <1>2, <1>4, <1>6, <2>1, EndTold
  <2> QED
    BY <1>2, <1>4, <2>2, OneStreamMoves DEF x
<1>7. CASE x.client /\ Head(x.queue) # "end"
  <2>1. told = Append(x.told, Head(x.queue)) /\ gen = x.gen
    BY <1>7 DEF told, gen
  <2>2. StreamFits(y)
    BY <1>1, <1>2, <1>4, <1>7, <2>1, ItemTold
  <2> QED
    BY <1>2, <1>4, <2>2, OneStreamMoves DEF x
<1> QED
  BY <1>5, <1>6, <1>7

LEMMA CloseFits ==
  ASSUME StreamInv, NEW s \in Streams, Close(s)
  PROVE  StreamInv'
<1> DEFINE x == stream[s]
           y == [x EXCEPT !.gen = "closed"]
<1>1. x \in StreamState /\ StreamFits(x)
  BY StreamOf
<1>2. stream' = [stream EXCEPT ![s] = y] /\ x.gen = "ending"
  BY DEF Close
<1>3. /\ y.kind = x.kind /\ y.stages = x.stages
      /\ y \in StreamState /\ y.gen = "closed" /\ y.client = x.client /\ y.thread = x.thread
      /\ y.outcome = x.outcome /\ y.told = x.told /\ y.queue = x.queue /\ y.ready = x.ready
  BY <1>1 DEF StreamState
<1> HIDE DEF x, y
<1>4. CASE x.client
  <2>1. Spoke(x)
    BY <1>1, <1>2, <1>4 DEF StreamFits, InLine, Waits, Works, Ends, Speaks
  <2>2. Spoke(y)
    BY <1>3, <2>1 DEF Spoke, Paired, Unended
  <2> QED
    BY <1>2, <1>3, <1>4, <2>2, OneStreamMoves DEF StreamFits, InLine, x
<1>5. CASE ~x.client
  BY <1>1, <1>2, <1>3, <1>5, OneStreamMoves DEF StreamFits, VerdictLast, x
<1> QED
  BY <1>4, <1>5

LEMMA LeaveFits ==
  ASSUME StreamInv, NEW s \in Streams, Leave(s)
  PROVE  StreamInv'
<1> DEFINE x == stream[s]
           y == [x EXCEPT !.client = FALSE]
<1>1. x \in StreamState /\ StreamFits(x)
  BY StreamOf
<1>2. stream' = [stream EXCEPT ![s] = y] /\ x.client
  BY DEF Leave
<1>3. y \in StreamState /\ y.gen = x.gen /\ y.client = FALSE /\ y.told = x.told
  BY <1>1 DEF StreamState
<1>4. x.gen # "idle"
  BY <1>1, <1>2 DEF StreamFits, NoStream
<1> HIDE DEF x, y
<1>5. VerdictLast(x)
  BY <1>1, <1>2, LeftBehind DEF StreamFits
<1>6. StreamFits(y)
  BY <1>3, <1>4, <1>5 DEF StreamFits, VerdictLast
<1> QED
  BY <1>2, <1>3, <1>6, OneStreamMoves DEF x

LEMMA DropFits ==
  ASSUME StreamInv, NEW s \in Streams, Drop(s)
  PROVE  StreamInv'
<1> DEFINE x == stream[s]
           y == [x EXCEPT !.gen = "closed", !.thread = IF @ = "queued" THEN "over" ELSE @]
<1>1. x \in StreamState /\ StreamFits(x)
  BY StreamOf
<1>2. stream' = [stream EXCEPT ![s] = y] /\ ~x.client
  BY DEF Drop
<1>3. y \in StreamState /\ y.gen = "closed" /\ y.client = x.client /\ y.told = x.told
  BY <1>1 DEF StreamState
<1> HIDE DEF x, y
<1>4. StreamFits(y)
  BY <1>1, <1>2, <1>3 DEF StreamFits, VerdictLast
<1> QED
  BY <1>2, <1>3, <1>4, OneStreamMoves DEF x

LEMMA NothingFits == NoStream \in StreamState /\ StreamFits(NoStream)
<1>1. <<>> \in Seq(Items) /\ 0 \in Nat
  OBVIOUS
<1>2. NoStream \in StreamState
  BY <1>1 DEF NoStream, StreamState
<1> QED
  BY <1>2 DEF NoStream, StreamFits, VerdictLast

LEMMA ForgetFits ==
  ASSUME StreamInv, NEW s \in Streams, Forget(s)
  PROVE  StreamInv'
BY NothingFits, OneStreamMoves DEF Forget

LEMMA StreamInvHolds == AnyDesk => []StreamInv
<1>1. DeskInit => StreamInv
  BY NothingFits DEF DeskInit, StreamInv
<1>2. StreamInv /\ [AnyStep]_deskVars => StreamInv'
  <2> SUFFICES ASSUME StreamInv, [AnyStep]_deskVars PROVE StreamInv'
    OBVIOUS
  <2>1. CASE UNCHANGED stream
    BY <2>1 DEF StreamInv
  <2>2. CASE StreamNext
    BY <2>2, OpenFits, StartFits, BeginStageFits, EndStageFits, EndThreadFits, LoopFits,
       SendFits, CloseFits, LeaveFits, DropFits, ForgetFits
       DEF StreamNext, ThreadStep, CoroutineStep
  <2> QED
    BY <2>1, <2>2 DEF AnyStep, deskVars
<1> QED
  BY <1>1, <1>2, PTL DEF AnyDesk

(* Stages told of one after the other: the end of a stage is the item      *)
(* after its start, so that only a last start may have no end.             *)
LEMMA StagesEndAsTheyStart ==
  ASSUME NEW k \in Nat, NEW t, NEW m, m = k + 1,
         \A i \in 1 .. k : t[i] = StageItem(i), t[m] \notin {"start", "done"}
  PROVE  LET S == {i \in 1 .. m : t[i] = "start"}
             D == {i \in 1 .. m : t[i] = "done"}
         IN  /\ k % 2 = 0 => Cardinality(S) = Cardinality(D)
             /\ k % 2 = 1 => Cardinality(S) = Cardinality(D) + 1
<1> DEFINE S == {i \in 1 .. m : t[i] = "start"}
           D == {i \in 1 .. m : t[i] = "done"}
           T == {i \in S : i + 1 \in D}
           f == [i \in T |-> i + 1]
<1>1. \A i \in 1 .. m : i = m \/ i \in 1 .. k
  OBVIOUS
<1>2. \A i \in 1 .. m : i \in S <=> i <= k /\ i % 2 = 1
  BY <1>1 DEF StageItem
<1>3. \A i \in 1 .. m : i \in D <=> i <= k /\ i % 2 = 0
  <2>1. \A i \in 1 .. m : i % 2 = 0 \/ i % 2 = 1
    OBVIOUS
  <2> QED
    BY <1>1, <2>1 DEF StageItem
<1>4. S \subseteq 1 .. m /\ D \subseteq 1 .. m
  OBVIOUS
<1> HIDE DEF S, D
<1>5. T \subseteq S
  OBVIOUS
<1>6. \A j \in D : j - 1 \in S /\ j - 1 + 1 = j
  BY <1>2, <1>3, <1>4
<1>7. \A j \in D : j - 1 \in T
  BY <1>6
<1>8. \A i \in T : i + 1 \in D /\ i \in Int
  BY <1>4
<1>9. f \in Bijection(T, D)
  <2> HIDE DEF T
  <2>1. f \in [T -> D]
    BY <1>8
  <2>2. \A i, j \in T : f[i] = f[j] => i = j
    BY <1>8
  <2>3. \A j \in D : \E i \in T : f[i] = j
    <3> SUFFICES ASSUME NEW j \in D PROVE j - 1 \in T /\ f[j - 1] = j
      OBVIOUS
    <3> QED
      BY <1>6, <1>7
  <2> QED
    BY <2>1, <2>2, <2>3 DEF Bijection, Injection, Surjection, IsInjective
<1>10. IsFiniteSet(S) /\ IsFiniteSet(T)
  <2>1. IsFiniteSet(1 .. m)
    <3>1. 1 \in Int /\ m \in Int
      OBVIOUS
    <3> QED
      BY <3>1, FS_Interval
  <2> QED
    BY <1>4, <1>5, <2>1, FS_Subset
<1>11. Cardinality(T) = Cardinality(D)
  BY <1>9, <1>10, FS_Bijection DEF ExistsBijection
<1>12. \A i \in S : i \in T <=> i # k
  <2> SUFFICES ASSUME NEW i \in S PROVE i + 1 \in D <=> i # k
    OBVIOUS
  <2>1. i \in 1 .. k /\ i % 2 = 1 /\ (i + 1) % 2 = 0
    BY <1>2, <1>4
  <2> QED
    BY <1>3, <1>4, <2>1
<1> HIDE DEF T
<1>13. CASE k % 2 = 0
  <2>1. k \notin S
    BY <1>2, <1>4, <1>13
  <2>2. T = S
    BY <1>5, <1>12, <2>1
  <2> QED
    BY <1>11, <1>13, <2>2 DEF S, D
<1>14. CASE k % 2 = 1
  <2>1. k \in 1 .. m
    BY <1>14
  <2>2. k \in S
    BY <1>2, <1>14, <2>1
  <2>3. T = S \ {k}
    BY <1>5, <1>12
  <2>4. Cardinality(S \ {k}) = Cardinality(S) - 1
    BY <1>10, <2>2, FS_RemoveElement
  <2>5. Cardinality(S) \in Nat
    BY <1>10, FS_CardinalityType
  <2>6. Cardinality(S) = Cardinality(D) + 1
    BY <1>11, <2>3, <2>4, <2>5
  <2> QED
    BY <1>14, <2>6 DEF S, D
<1>15. k % 2 = 0 \/ k % 2 = 1
  OBVIOUS
<1> QED
  BY <1>13, <1>14, <1>15

(***************************************************************************)
(* A client that stays is told of the stages, each from its start to its   *)
(* end, and then one verdict, that of the thread, and nothing after it,    *)
(* whatever the order in which thread, loop and generator move, and        *)
(* however many streams and snapshots the pool serves beside it; only a    *)
(* stage of a sweep, or the first of a quote, may have no end, right       *)
(* before the error it raised.  A client that left has been told nothing   *)
(* after a verdict either.                                                 *)
(* (main.py: the two streaming routes, their worker and their generator;   *)
(* opt/api.py:49-68, opt/quote.py:222-226, fragility/engine.py:336-585)    *)
(***************************************************************************)
THEOREM StreamsTellOneVerdict == AnyDesk => []StreamTellsOneVerdict
<1>1. StreamInv => StreamTellsOneVerdict
  <2> SUFFICES ASSUME StreamInv, NEW s \in Streams
               PROVE  LET told == stream[s].told
                      IN /\ \A i \in DOMAIN told : told[i] \in {"result", "error"} => i = Len(told)
                         /\ stream[s].gen = "closed" /\ stream[s].client =>
                              /\ told # <<>> /\ told[Len(told)] = stream[s].outcome
                              /\ \/ CountOf(s, "start") = CountOf(s, "done")
                                 \/ /\ CountOf(s, "start") = CountOf(s, "done") + 1
                                    /\ stream[s].outcome = "error" /\ told[Len(told) - 1] = "start"
                                    /\ stream[s].kind = "fragility" \/ Len(told) = 2
    BY DEF StreamTellsOneVerdict
  <2>1. PICK x \in StreamState : x = stream[s] /\ StreamFits(x)
    BY StreamOf
  <2>2. PICK m \in Nat : m = Len(x.told) /\ DOMAIN x.told = 1 .. m
    <3>1. x.told \in Seq(Items)
      BY DEF StreamState
    <3> QED
      BY <3>1
  <2>3. VerdictLast(x)
    BY <2>1, LeftBehind DEF StreamFits
  <2>4. ASSUME x.gen = "closed", x.client
        PROVE  /\ x.told # <<>> /\ x.told[m] = x.outcome
               /\ \/ CountOf(s, "start") = CountOf(s, "done")
                  \/ /\ CountOf(s, "start") = CountOf(s, "done") + 1
                     /\ x.outcome = "error" /\ x.told[m - 1] = "start"
                     /\ x.kind = "fragility" \/ m = 2
    <3>1. Spoke(x)
      BY <2>1, <2>4 DEF StreamFits, InLine, Waits, Works, Ends, Speaks
    <3>2. PICK k \in Nat : k = m - 1
      BY <2>2, <3>1 DEF Spoke, Paired
    <3>3. /\ m = k + 1 /\ x.told[m] = x.outcome /\ x.outcome \notin {"start", "done"}
          /\ \A i \in 1 .. k : x.told[i] = StageItem(i)
      BY <2>2, <3>1, <3>2 DEF Spoke, StreamState
    <3>4. x.told # <<>>
      BY <2>2, <3>3
    <3>5. /\ k % 2 = 0 => CountOf(s, "start") = CountOf(s, "done")
          /\ k % 2 = 1 => CountOf(s, "start") = CountOf(s, "done") + 1
      <4>1. PICK t : t = x.told
        OBVIOUS
      <4>2. /\ k % 2 = 0 => Cardinality({i \in 1 .. m : t[i] = "start"})
                              = Cardinality({i \in 1 .. m : t[i] = "done"})
            /\ k % 2 = 1 => Cardinality({i \in 1 .. m : t[i] = "start"})
                              = Cardinality({i \in 1 .. m : t[i] = "done"}) + 1
        BY <3>3, <4>1, StagesEndAsTheyStart
      <4> QED
        BY <2>1, <2>2, <4>1, <4>2 DEF CountOf
    <3>6. x.stages \in Nat
      BY DEF StreamState
    <3>7. CASE k = 2 * x.stages
      <4>1. k % 2 = 0
        BY <3>6, <3>7
      <4> QED
        BY <3>3, <3>4, <3>5, <4>1
    <3>8. CASE x.outcome = "error" /\ Unended(x, k)
      <4>1. k = 2 * x.stages - 1 /\ (x.kind = "fragility" \/ x.stages = 1)
        BY <3>8 DEF Unended
      <4>2. k % 2 = 1 /\ k \in 1 .. k /\ m - 1 = k /\ (x.kind = "fragility" \/ m = 2)
        BY <3>3, <3>6, <4>1
      <4>3. x.told[m - 1] = "start"
        BY <3>3, <4>2 DEF StageItem
      <4> QED
        BY <3>3, <3>4, <3>5, <3>8, <4>2, <4>3
    <3> QED
      BY <2>2, <3>1, <3>2, <3>7, <3>8 DEF Spoke, Paired
  <2> QED
    BY <2>1, <2>2, <2>3, <2>4 DEF VerdictLast
<1> QED
  BY <1>1, StreamInvHolds, PTL

(* Both hold of the desk as it is model-checked.                           *)
COROLLARY DeskStaysSound == DeskSpec => [](SnapshotsAreSound /\ StreamTellsOneVerdict)
BY RunsAreOfTheDesk, CachesStaySound, StreamsTellOneVerdict, PTL

-----------------------------------------------------------------------------
(***************************************************************************)
(* The harvester.  What its files promise each other holds when one process *)
(* harvests at a time: two of them can undo each other's write.             *)
(***************************************************************************)


LEMMA HasNewest ==
  ASSUME NEW f \in Figures, Present(f) # {}
  PROVE  Newest(f) \in Present(f) /\ \A x \in Present(f) : x <= Newest(f)
<1> DEFINE R == OpToRel(<, Nat)
           T == {LastDay - d : d \in Present(f)}
<1>1. LastDay \in Nat /\ Present(f) \subseteq 1 .. LastDay
  BY HarvestAssumption DEF Present, Days
<1>2. T \subseteq Nat /\ T # {}
  BY <1>1
<1>3. IsWellFoundedOn(R, Nat)
  BY NatLessThanWellFounded, Zenon
<1>4. PICK t \in T : \A s \in T : ~(<<s, t>> \in R)
  <2> HIDE DEF R, T
  <2> QED BY <1>2, <1>3, WFMin
<1>5. \A s \in T : t <= s
  <2>1. R = {ss \in Nat \X Nat : ss[1] < ss[2]}
    BY Zenon DEF OpToRel
  <2> HIDE DEF R, T
  <2>2. \A s \in T : s \in Nat /\ t \in Nat /\ ~(s < t)
    BY <1>2, <1>4, <2>1
  <2> QED BY <2>2
<1>6. PICK d \in Present(f) : t = LastDay - d
  BY <1>4
<1>7. \A x \in Present(f) : x <= d
  BY <1>1, <1>5, <1>6
<1> QED BY <1>6, <1>7 DEF Newest

LEMMA MonthIsNat ==
  ASSUME NEW d \in Days
  PROVE  Month(d) \in Nat
BY HarvestAssumption DEF Month, Days

LEMMA BackfillIsSeq ==
  ASSUME NEW stored \in Days, NEW seen \in Days
  PROVE  MonthsToBackfill(stored, seen) \in Seq(Nat) /\ Gap(stored, seen) \in Int
<1>1. Month(seen) \in Nat /\ Month(stored) \in Nat /\ Limit \in Nat
  BY MonthIsNat, HarvestAssumption
<1>2. PICK gap \in Int : gap = Gap(stored, seen) /\ gap <= Month(seen) + 1
  <2>1. Gap(stored, seen) \in Int /\ Gap(stored, seen) <= Month(seen) + 1
    BY <1>1 DEF Gap
  <2> QED
    BY <2>1
<1>3. PICK n \in Int : n = (IF gap < Limit THEN gap ELSE Limit) /\ n <= gap
  BY <1>1
<1>4. PICK m \in Nat : 1 .. n = 1 .. m
  <2>1. LET m == IF n < 0 THEN 0 ELSE n IN m \in Nat /\ 1 .. n = 1 .. m
    OBVIOUS
  <2> QED
    BY <2>1
<1> DEFINE months == [i \in 1 .. n |-> Month(seen) - i + 1]
<1>5. MonthsToBackfill(stored, seen) = months
  BY <1>2, <1>3 DEF MonthsToBackfill
<1>6. \A i \in 1 .. n : Month(seen) - i + 1 \in Nat
  BY <1>1, <1>2, <1>3
<1>7. months \in [1 .. m -> Nat]
  BY <1>4, <1>6
<1> QED BY <1>2, <1>5, <1>7

LEMMA ElseFacts ==
  ASSUME NEW f \in Figures, NEW g \in Figures
  PROVE  /\ Else(f, g) \in Figures
         /\ Keeps(f, Else(f, g))
         /\ Present(Else(f, g)) = Present(f) \cup Present(g)
         /\ Present(Else(f, g)) = Present(f) => Else(f, g) = f
<1>1. Else(f, g) \in Figures
  BY DEF Else, Figures
<1>2. Keeps(f, Else(f, g)) /\ Present(Else(f, g)) = Present(f) \cup Present(g)
  BY DEF Else, Keeps, Present, Figures
<1>3. ASSUME Present(Else(f, g)) = Present(f)
      PROVE  Else(f, g) = f
  <2>1. \A d \in Days : Else(f, g)[d] = f[d]
    BY <1>3 DEF Else, Present, Figures
  <2> QED BY <1>1, <2>1 DEF Figures
<1> QED BY <1>1, <1>2, <1>3

\* What is left of a page without its empty cells.
LEMMA FiguredFacts ==
  ASSUME NEW f \in Figures
  PROVE  /\ Figured(f) \in Figures /\ Present(Figured(f)) \subseteq Present(f)
         /\ \A d \in Days : f[d] # Blank => Figured(f)[d] = f[d]
BY DEF Figured, Figures, Present, Nothing

-----------------------------------------------------------------------------
(* Where a run stands, and what it holds.                                  *)

Reading == [phase: {"archives"}, parsed: Figures, months: Seq(Nat)]
ToCsv   == [phase: {"csv"}, parsed: Figures, rows: Figures]
Done    == [phase: {"harvested"}, parsed: Figures]
ToMaster == [phase: {"master"}, rows: Figures]

LEMMA RunKinds ==
  ASSUME NEW p \in Run
  PROVE  /\ p = Idle <=> p.phase = "idle"
         /\ p.phase \in {"idle", "archives", "csv", "harvested", "master"}
         /\ p.phase = "archives" => p.parsed \in Figures /\ p.months \in Seq(Nat)
         /\ p.phase = "csv" => p.parsed \in Figures /\ p.rows \in Figures
         /\ p.phase = "harvested" => p.parsed \in Figures
         /\ p.phase = "master" => p.rows \in Figures
<1>1. CASE p = Idle
  BY <1>1 DEF Idle
<1>2. CASE p \in Reading
  BY <1>2 DEF Reading, Idle
<1>3. CASE p \in ToCsv
  BY <1>3 DEF ToCsv, Idle
<1>4. CASE p \in Done
  BY <1>4 DEF Done, Idle
<1>5. CASE p \in ToMaster
  BY <1>5 DEF ToMaster, Idle
<1> QED BY <1>1, <1>2, <1>3, <1>4, <1>5 DEF Run, Reading, ToCsv, Done, ToMaster

LEMMA Runs ==
  /\ Idle \in Run /\ Idle.phase = "idle"
  /\ \A f \in Figures, m \in Seq(Nat) :
       [phase |-> "archives", parsed |-> f, months |-> m] \in Run
  /\ \A f, g \in Figures : [phase |-> "csv", parsed |-> f, rows |-> g] \in Run
  /\ \A f \in Figures : [phase |-> "harvested", parsed |-> f] \in Run
  /\ \A f \in Figures : [phase |-> "master", rows |-> f] \in Run
BY DEF Run, Idle

(* A day nothing was ever lost of, in every file and every write to come.  *)
RowsHaveFirstDay ==
  \A h \in Harvesters : run[h].phase \in {"csv", "master"} => 1 \in Present(run[h].rows)

(* A row without its figure is of a day that was first printed without.    *)
Lates(f, days) == \A d \in Days : f[d] = Blank => d \in days

RunLates(p, days) ==
  /\ p.phase \in {"archives", "csv", "harvested"} => Lates(p.parsed, days)
  /\ p.phase = "csv" => Lates(p.rows, days)

BlanksAreLate ==
  /\ Lates(source, late) /\ Lates(csv, late)
  /\ \A h \in Harvesters : RunLates(run[h], late)

WellFormed == TypeOK /\ RowsHaveFirstDay /\ BlanksAreLate

LEMMA LatesLast ==
  ASSUME NEW f, NEW g, NEW a, NEW b, a \subseteq b, Lates(f, a), Lates(g, a)
  PROVE  Lates(f, b) /\ Lates(Else(f, g), b)
BY DEF Lates, Else

LEMMA RunLatesLast ==
  ASSUME NEW p, NEW a, NEW b, a \subseteq b, RunLates(p, a)
  PROVE  RunLates(p, b)
BY DEF RunLates, Lates

LEMMA RunOf ==
  ASSUME NEW h \in Harvesters, NEW p \in Run, TypeOK, run' = [run EXCEPT ![h] = p]
  PROVE  /\ run' \in [Harvesters -> Run]
         /\ run'[h] = p
         /\ \A k \in Harvesters \ {h} : run'[k] = run[k]
BY DEF TypeOK

(* What each step of a run makes of it.                                    *)
LEMMA FrontRead ==
  ASSUME WellFormed, NEW h \in Harvesters, FetchFront(h)
  PROVE  \E f \in Figures, m \in Seq(Nat) :
           /\ run' = [run EXCEPT ![h] = [phase |-> "archives", parsed |-> f, months |-> m]]
           /\ Lates(f, late)
<1> USE DEF WellFormed
<1>1. PICK first \in Present(source) :
        LET page == [d \in Days |-> IF d >= first THEN source[d] ELSE Nothing]
        IN run' = [run EXCEPT ![h] =
             [phase |-> "archives", parsed |-> page,
              months |-> MonthsToBackfill(Newest(csv), Newest(page))]]
  BY DEF FetchFront
<1> DEFINE page == [d \in Days |-> IF d >= first THEN source[d] ELSE Nothing]
<1>2. page \in Figures
  BY DEF TypeOK, Figures, Nothing
<1>3. first \in Present(page)
  BY DEF Present, Days
<1>4. Newest(csv) \in Days
  BY HasNewest DEF TypeOK, Present
<1>5. Newest(page) \in Days
  <2> HIDE DEF page
  <2> QED BY <1>2, <1>3, HasNewest DEF Present
<1>6. MonthsToBackfill(Newest(csv), Newest(page)) \in Seq(Nat)
  BY <1>4, <1>5, BackfillIsSeq
<1>7. Lates(page, late)
  BY DEF BlanksAreLate, Lates, Nothing, Blank
<1> QED BY <1>1, <1>2, <1>6, <1>7

LEMMA MonthsLeft ==
  ASSUME NEW p \in Reading, NEW m
  PROVE  [p EXCEPT !.months = m] = [phase |-> "archives", parsed |-> p.parsed, months |-> m]
BY DEF Reading

LEMMA ArchiveRead ==
  ASSUME WellFormed, NEW h \in Harvesters, FetchArchive(h) \/ ArchiveFails(h)
  PROVE  \E f \in Figures, m \in Seq(Nat) :
           /\ run' = [run EXCEPT ![h] = [phase |-> "archives", parsed |-> f, months |-> m]]
           /\ Lates(f, late)
<1> USE DEF WellFormed
<1>1. run[h] \in Run /\ run[h].phase = "archives" /\ run[h].months # <<>>
  BY DEF TypeOK, FetchArchive, ArchiveFails
<1>2. run[h].parsed \in Figures /\ run[h].months \in Seq(Nat)
  BY <1>1, RunKinds
<1>3. Tail(run[h].months) \in Seq(Nat) /\ Lates(run[h].parsed, late)
  BY <1>1, <1>2, HeadTailProperties DEF BlanksAreLate, RunLates
<1>4. CASE FetchArchive(h)
  <2> DEFINE month == Head(run[h].months)
             page == [d \in Days |-> IF Month(d) = month THEN source[d] ELSE Nothing]
  <2>1. page \in Figures
    BY DEF TypeOK, Figures, Nothing
  <2>2. run' = [run EXCEPT ![h] =
           [phase |-> "archives", parsed |-> Else(run[h].parsed, page),
            months |-> Tail(run[h].months)]]
    BY <1>4 DEF FetchArchive
  <2>4. Lates(page, late)
    BY DEF BlanksAreLate, Lates, Nothing, Blank
  <2> HIDE DEF page
  <2>3. Else(run[h].parsed, page) \in Figures /\ Lates(Else(run[h].parsed, page), late)
    BY <1>2, <1>3, <2>1, <2>4, ElseFacts, LatesLast
  <2> QED BY <1>3, <2>2, <2>3
<1>5. CASE ArchiveFails(h)
  <2>1. run[h] \in Reading
    BY <1>1 DEF Run, Reading, Idle
  <2>2. [run[h] EXCEPT !.months = Tail(@)]
          = [phase |-> "archives", parsed |-> run[h].parsed, months |-> Tail(run[h].months)]
    BY <2>1, MonthsLeft
  <2>3. run' = [run EXCEPT ![h].months = Tail(@)]
    BY <1>5 DEF ArchiveFails
  <2>4. run' = [run EXCEPT ![h] = [run[h] EXCEPT !.months = Tail(@)]]
    BY <2>3 DEF TypeOK
  <2> QED BY <1>2, <1>3, <2>2, <2>4
<1> QED BY <1>4, <1>5

(* The rows a run is about to write to a file. *)
LEMMA CsvRead ==
  ASSUME TypeOK, NEW h \in Harvesters, ReadCsv(h)
  PROVE  LET parsed == run[h].parsed
             rows == Else(csv, parsed)
         IN /\ parsed \in Figures /\ rows \in Figures
            /\ \/ /\ rows = csv
                  /\ run' = [run EXCEPT ![h] = [phase |-> "harvested", parsed |-> parsed]]
               \/ run' = [run EXCEPT ![h] = [phase |-> "csv", parsed |-> parsed, rows |-> rows]]
<1> DEFINE parsed == run[h].parsed
           rows == Else(csv, parsed)
<1>1. parsed \in Figures
  BY RunKinds DEF ReadCsv, TypeOK
<1>2. rows \in Figures /\ (Present(rows) = Present(csv) => rows = csv)
  BY <1>1, ElseFacts DEF TypeOK
<1>3. run' = [run EXCEPT ![h] =
         IF Present(rows) = Present(csv)
           THEN [phase |-> "harvested", parsed |-> parsed]
           ELSE [phase |-> "csv", parsed |-> parsed, rows |-> rows]]
  BY DEF ReadCsv, Merge
<1> HIDE DEF rows, parsed
<1>4. CASE Present(rows) = Present(csv)
  BY <1>1, <1>2, <1>3, <1>4 DEF rows, parsed
<1>5. CASE Present(rows) # Present(csv)
  BY <1>1, <1>2, <1>3, <1>5 DEF rows, parsed
<1> QED BY <1>4, <1>5

LEMMA MasterRead ==
  ASSUME TypeOK, NEW h \in Harvesters, ReadMaster(h)
  PROVE  LET parsed == run[h].parsed
             rows == Else(master, Figured(parsed))
         IN /\ parsed \in Figures /\ rows \in Figures
            /\ \/ /\ rows = master
                  /\ run' = [run EXCEPT ![h] = Idle]
               \/ run' = [run EXCEPT ![h] = [phase |-> "master", rows |-> rows]]
<1> DEFINE parsed == run[h].parsed
           rows == Else(master, Figured(parsed))
<1>1. parsed \in Figures
  BY RunKinds DEF ReadMaster, TypeOK
<1>2. rows \in Figures /\ (Present(rows) = Present(master) => rows = master)
  BY <1>1, ElseFacts, FiguredFacts DEF TypeOK
<1>3. run' = [run EXCEPT ![h] =
         IF Present(rows) = Present(master) THEN Idle ELSE [phase |-> "master", rows |-> rows]]
  BY DEF ReadMaster, Fold
<1> HIDE DEF rows, parsed
<1>4. CASE Present(rows) = Present(master)
  BY <1>1, <1>2, <1>3, <1>4 DEF rows, parsed
<1>5. CASE Present(rows) # Present(master)
  BY <1>1, <1>2, <1>3, <1>5 DEF rows, parsed
<1> QED BY <1>4, <1>5

LEMMA SourceMoves ==
  ASSUME TypeOK, Publish \/ Restate, \A d \in Days : source[d] = Blank => d \in late
  PROVE  /\ source' \in Figures /\ 1 \in Present(source') /\ restated' \in Nat
         /\ late' \subseteq Days /\ late \subseteq late'
         /\ \A d \in Days : source'[d] = Blank => d \in late'
<1>0. /\ source \in [Days -> Nat] /\ 1 \in Days /\ source[1] # 0 /\ restated \in Nat
      /\ late \subseteq Days
  BY DEF TypeOK, Figures, Present, Nothing
<1>1. CASE Publish
  <2>1. PICK d \in Days, entry \in {1, 2} :
          /\ source' = [source EXCEPT ![d] = entry] /\ restated' = restated
          /\ late' = IF entry = 1 THEN late \cup {d} ELSE late
    BY <1>1 DEF Publish, Blank
  <2>2. source' \in [Days -> Nat] /\ source'[1] # 0
    BY <1>0, <2>1
  <2>3. \A x \in Days : source'[x] = IF x = d THEN entry ELSE source[x]
    BY <1>0, <2>1
  <2>4. \A x \in Days : source'[x] = 1 => x \in late'
    BY <2>1, <2>3 DEF Blank
  <2> QED BY <1>0, <2>1, <2>2, <2>4 DEF Figures, Present, Nothing, Blank
<1>2. CASE Restate
  <2>1. PICK d \in Days : /\ source[d] # 0 /\ source' = [source EXCEPT ![d] = source[d] + 1]
                          /\ restated' = restated + 1 /\ late' = late
    BY <1>2 DEF Restate, Present, Nothing, notes
  <2>2. source[d] + 1 \in Nat /\ source[d] + 1 # 0 /\ source[d] + 1 # 1
    BY <1>0, <2>1
  <2>3. source' \in [Days -> Nat] /\ source'[1] # 0
    BY <1>0, <2>1, <2>2
  <2>4. \A x \in Days : source'[x] = IF x = d THEN source[d] + 1 ELSE source[x]
    BY <1>0, <2>1
  <2>5. \A x \in Days : source'[x] = 1 => x \in late'
    BY <2>1, <2>2, <2>4 DEF Blank
  <2> QED BY <1>0, <2>1, <2>3, <2>5 DEF Figures, Present, Nothing, Blank
<1> QED BY <1>1, <1>2

(* Files and runs stay well formed, however many harvesters there are. *)
LEMMA WellFormedStep ==
  ASSUME WellFormed, Next
  PROVE  WellFormed'
<1> USE DEF WellFormed
<1>0. \A h \in Harvesters : run[h] \in Run
  BY DEF TypeOK
<1>1. CASE Publish \/ Restate
  <2>1. UNCHANGED <<csv, master, run, failures, crashes, outrun>>
    BY <1>1 DEF Publish, Restate, notes
  <2>2. Lates(source', late') /\ late \subseteq late'
    BY <1>1, SourceMoves DEF BlanksAreLate, Lates
  <2>3. Lates(csv', late') /\ \A h \in Harvesters : RunLates(run'[h], late')
    BY <2>1, <2>2, LatesLast, RunLatesLast DEF BlanksAreLate
  <2>4. BlanksAreLate'
    BY <2>2, <2>3 DEF BlanksAreLate, Lates
  <2>5. TypeOK' /\ RowsHaveFirstDay'
    BY <1>1, <2>1, SourceMoves DEF TypeOK, RowsHaveFirstDay, Present, BlanksAreLate, Lates
  <2> QED BY <2>4, <2>5
<1>2. ASSUME NEW h \in Harvesters, NEW p \in Run, run' = [run EXCEPT ![h] = p],
             p.phase \in {"csv", "master"} => 1 \in Present(p.rows), RunLates(p, late),
             UNCHANGED <<source, restated, late>>, outrun' \in BOOLEAN,
             csv' \in Figures, 1 \in Present(csv'), Lates(csv', late),
             master' \in Figures, 1 \in Present(master'),
             failures' \in Nat, crashes' \in Nat
      PROVE  WellFormed'
  <2>1. run' \in [Harvesters -> Run] /\ run'[h] = p
        /\ \A k \in Harvesters \ {h} : run'[k] = run[k]
    BY <1>2, RunOf
  <2>2. RowsHaveFirstDay'
    BY <1>2, <2>1 DEF RowsHaveFirstDay, Present
  <2>3. \A k \in Harvesters : RunLates(run'[k], late')
    BY <1>2, <2>1 DEF BlanksAreLate
  <2>4. BlanksAreLate'
    BY <1>2, <2>3 DEF BlanksAreLate, Lates
  <2> QED BY <1>2, <2>1, <2>2, <2>4 DEF TypeOK, Present
<1>3. ASSUME NEW h \in Harvesters, FetchFront(h) \/ FetchArchive(h) \/ ArchiveFails(h)
      PROVE  WellFormed'
  <2>1. PICK f \in Figures, m \in Seq(Nat) :
          /\ run' = [run EXCEPT ![h] = [phase |-> "archives", parsed |-> f, months |-> m]]
          /\ Lates(f, late)
    BY <1>3, FrontRead, ArchiveRead
  <2> DEFINE p == [phase |-> "archives", parsed |-> f, months |-> m]
  <2>2. p \in Run /\ p.phase = "archives" /\ RunLates(p, late)
    BY <2>1, Runs DEF RunLates
  <2>3. /\ UNCHANGED <<source, csv, master, restated, crashes, late>>
        /\ failures' \in Nat
    BY <1>3 DEF FetchFront, FetchArchive, ArchiveFails, TypeOK, notes
  <2>5. outrun' \in BOOLEAN
    BY <1>3 DEF FetchFront, FetchArchive, ArchiveFails, TypeOK, notes
  <2> HIDE DEF p
  <2>4. run' = [run EXCEPT ![h] = p]
    BY <2>1 DEF p
  <2> QED BY <1>2, <2>2, <2>3, <2>4, <2>5 DEF TypeOK, Present, BlanksAreLate, Lates
<1>4. ASSUME NEW h \in Harvesters, ReadCsv(h)
      PROVE  WellFormed'
  <2> DEFINE parsed == run[h].parsed
             rows == Else(csv, parsed)
  <2>1. PICK p \in Run : /\ run' = [run EXCEPT ![h] = p]
                         /\ p.phase \in {"csv", "harvested"} /\ p.parsed = parsed
                         /\ p.phase \in {"csv", "master"} => p.rows = rows
    <3>1. /\ parsed \in Figures /\ rows \in Figures
          /\ \/ run' = [run EXCEPT ![h] = [phase |-> "harvested", parsed |-> parsed]]
             \/ run' = [run EXCEPT ![h] = [phase |-> "csv", parsed |-> parsed, rows |-> rows]]
      BY <1>4, CsvRead
    <3> HIDE DEF parsed, rows
    <3>2. [phase |-> "harvested", parsed |-> parsed] \in Run
      BY <3>1, Runs
    <3>3. [phase |-> "csv", parsed |-> parsed, rows |-> rows] \in Run
      BY <3>1, Runs
    <3> QED
      BY <3>1, <3>2, <3>3
  <2>2. 1 \in Present(rows)
    BY <1>4, CsvRead, ElseFacts DEF TypeOK
  <2>4. Lates(parsed, late) /\ Lates(rows, late)
    BY <1>4, LatesLast DEF ReadCsv, BlanksAreLate, RunLates
  <2> HIDE DEF rows, parsed
  <2>5. RunLates(p, late)
    BY <2>1, <2>4 DEF RunLates
  <2>3. UNCHANGED <<source, csv, master, failures, restated, crashes, late, outrun>>
    BY <1>4 DEF ReadCsv, notes
  <2> QED BY <1>2, <2>1, <2>2, <2>3, <2>5 DEF TypeOK, Present, BlanksAreLate, Lates
<1>5. ASSUME NEW h \in Harvesters, WriteCsv(h)
      PROVE  WellFormed'
  <2>1. run[h].rows \in Figures /\ run[h].parsed \in Figures /\ 1 \in Present(run[h].rows)
    BY <1>0, <1>5, RunKinds DEF WriteCsv, RowsHaveFirstDay
  <2>4. Lates(run[h].rows, late) /\ Lates(run[h].parsed, late)
    BY <1>5 DEF WriteCsv, BlanksAreLate, RunLates
  <2>2. PICK p \in Run : run' = [run EXCEPT ![h] = p] /\ p.phase = "harvested"
                         /\ p.parsed = run[h].parsed
    BY <1>5, <2>1, Runs DEF WriteCsv
  <2>5. RunLates(p, late)
    BY <2>2, <2>4 DEF RunLates
  <2>3. csv' = run[h].rows /\ UNCHANGED <<source, master, failures, restated, crashes, late, outrun>>
    BY <1>5 DEF WriteCsv, notes
  <2>6. csv' \in Figures /\ 1 \in Present(csv') /\ Lates(csv', late)
    BY <2>1, <2>3, <2>4 DEF Present, Lates
  <2> QED BY <1>2, <2>2, <2>3, <2>5, <2>6 DEF TypeOK, Present
<1>6. ASSUME NEW h \in Harvesters, ReadMaster(h)
      PROVE  WellFormed'
  <2> DEFINE parsed == run[h].parsed
             rows == Else(master, Figured(parsed))
  <2>1. PICK p \in Run : /\ run' = [run EXCEPT ![h] = p]
                         /\ p.phase \in {"idle", "master"}
                         /\ p.phase \in {"csv", "master"} => p.rows = rows
    BY <1>6, MasterRead, Runs
  <2>2. 1 \in Present(rows)
    BY <1>6, MasterRead, ElseFacts, FiguredFacts DEF TypeOK
  <2> HIDE DEF rows, parsed
  <2>4. RunLates(p, late)
    BY <2>1 DEF RunLates
  <2>3. UNCHANGED <<source, csv, master, failures, restated, crashes, late, outrun>>
    BY <1>6 DEF ReadMaster, notes
  <2> QED BY <1>2, <2>1, <2>2, <2>3, <2>4 DEF TypeOK, Present, BlanksAreLate, Lates
<1>7. ASSUME NEW h \in Harvesters, WriteMaster(h)
      PROVE  WellFormed'
  <2>1. run[h].rows \in Figures /\ 1 \in Present(run[h].rows)
    BY <1>0, <1>7, RunKinds DEF WriteMaster, RowsHaveFirstDay
  <2>2. run' = [run EXCEPT ![h] = Idle] /\ master' = run[h].rows
        /\ UNCHANGED <<source, csv, failures, restated, crashes, late, outrun>>
    BY <1>7 DEF WriteMaster, notes
  <2>3. RunLates(Idle, late)
    BY Runs DEF RunLates
  <2> QED BY <1>2, <2>1, <2>2, <2>3, Runs DEF TypeOK, Present, BlanksAreLate, Lates
<1>8. ASSUME NEW h \in Harvesters, Crash(h)
      PROVE  WellFormed'
  <2>1. run' = [run EXCEPT ![h] = Idle] /\ crashes' \in Nat
        /\ UNCHANGED <<source, csv, master, failures, restated, late, outrun>>
    BY <1>8 DEF Crash, TypeOK, notes
  <2>2. RunLates(Idle, late)
    BY Runs DEF RunLates
  <2> QED BY <1>2, <2>1, <2>2, Runs DEF TypeOK, Present, BlanksAreLate, Lates
<1> QED BY <1>1, <1>3, <1>4, <1>5, <1>6, <1>7, <1>8 DEF Next, Step

-----------------------------------------------------------------------------
(* One harvester at a time.                                                *)

OneHarvester == \E h : Harvesters = {h}

(* What a run holds is still right when it writes, since nobody else wrote *)
(* to the files; and without a kill the master is never further behind the *)
(* CSV's figures than those of the run in progress.                        *)
HoldsGood(p) ==
  /\ p.phase = "csv" => p.rows = Else(csv, p.parsed)
  /\ p.phase = "harvested" => Present(p.parsed) \subseteq Present(csv)
  /\ p.phase = "master" => Keeps(master, p.rows) /\ Present(p.rows) \subseteq Present(csv)

KeepsPace(p) ==
  /\ p.phase \in {"idle", "archives", "csv"} => Keeps(Figured(csv), master)
  /\ p.phase = "harvested" => Keeps(Figured(csv), Else(master, Figured(p.parsed)))
  /\ p.phase = "master" => Keeps(Figured(csv), p.rows)

HarvestInv ==
  /\ WellFormed
  /\ Present(master) \subseteq Present(csv)
  /\ \A h \in Harvesters : HoldsGood(run[h]) /\ (crashes = 0 => KeepsPace(run[h]))

(* For one harvester the invariant is about one run. *)
LEMMA OneRun ==
  ASSUME OneHarvester, TypeOK, NEW h \in Harvesters, NEW p \in Run, run' = [run EXCEPT ![h] = p]
  PROVE  \A k \in Harvesters : run'[k] = p
BY RunOf DEF OneHarvester

(* Figures that are covered stay covered, and those a run adds to the CSV  *)
(* are those it adds to the master.                                        *)
LEMMA CoveredStays ==
  ASSUME NEW f, NEW g, NEW k, Keeps(f, g)
  PROVE  Keeps(f, Else(g, k))
BY DEF Keeps, Else

LEMMA CsvAhead ==
  ASSUME NEW c \in Figures, NEW m \in Figures, NEW p \in Figures,
         Keeps(Figured(c), m), Present(m) \subseteq Present(c)
  PROVE  Keeps(Figured(Else(c, p)), Else(m, Figured(p)))
<1> SUFFICES ASSUME NEW d \in Days, Figured(Else(c, p))[d] # Nothing
             PROVE  Else(m, Figured(p))[d] = Figured(Else(c, p))[d]
  BY DEF Keeps
<1>1. Figured(Else(c, p))[d] = Else(c, p)[d] /\ Else(c, p)[d] # Blank
  BY DEF Figured
<1>2. CASE c[d] # Nothing
  BY <1>1, <1>2 DEF Else, Keeps, Figured
<1>3. CASE c[d] = Nothing
  BY <1>1, <1>3 DEF Else, Present, Figured
<1> QED
  BY <1>2, <1>3

LEMMA HarvestStep ==
  ASSUME OneHarvester, HarvestInv, Next
  PROVE  HarvestInv'
<1> USE DEF HarvestInv
<1>1. WellFormed'
  BY WellFormedStep
<1>2. TypeOK /\ csv \in Figures /\ master \in Figures /\ crashes \in Nat
  BY DEF WellFormed, TypeOK
<1>3. ASSUME UNCHANGED <<csv, master, run, crashes>>
      PROVE  HarvestInv'
  BY <1>1, <1>3 DEF HoldsGood, KeepsPace, Keeps, Present, Figured, Else
<1>4. CASE Publish \/ Restate
  BY <1>3, <1>4 DEF Publish, Restate
<1>5. ASSUME NEW h \in Harvesters, FetchFront(h) \/ FetchArchive(h) \/ ArchiveFails(h)
      PROVE  HarvestInv'
  <2>1. PICK f \in Figures, m \in Seq(Nat) :
          run' = [run EXCEPT ![h] = [phase |-> "archives", parsed |-> f, months |-> m]]
    BY <1>2, <1>5, FrontRead, ArchiveRead
  <2>2. \A k \in Harvesters : run'[k].phase = "archives"
    <3> DEFINE p == [phase |-> "archives", parsed |-> f, months |-> m]
    <3>1. p \in Run /\ p.phase = "archives" /\ run' = [run EXCEPT ![h] = p]
      BY <2>1, Runs
    <3> HIDE DEF p
    <3> QED BY <1>2, <3>1, OneRun
  <2>3. run[h].phase \in {"idle", "archives"} /\ UNCHANGED <<csv, master, crashes>>
    BY <1>5, Runs DEF FetchFront, FetchArchive, ArchiveFails
  <2>4. (Present(master) \subseteq Present(csv))' /\ (crashes' = 0 => Keeps(Figured(csv'), master'))
    BY <2>3 DEF KeepsPace, Present, Keeps, Figured
  <2> QED BY <1>1, <2>2, <2>4 DEF HoldsGood, KeepsPace
<1>6. ASSUME NEW h \in Harvesters, ReadCsv(h)
      PROVE  HarvestInv'
  <2> DEFINE parsed == run[h].parsed
             rows == Else(csv, parsed)
  <2>1. run[h].phase = "archives" /\ UNCHANGED <<csv, master, crashes>>
    BY <1>6 DEF ReadCsv
  <2>2. (Present(master) \subseteq Present(csv))' /\ (crashes = 0 => Keeps(Figured(csv), master))
    BY <2>1 DEF KeepsPace, Present
  <2>3. /\ parsed \in Figures /\ rows \in Figures
        /\ \/ /\ rows = csv
              /\ run' = [run EXCEPT ![h] = [phase |-> "harvested", parsed |-> parsed]]
           \/ run' = [run EXCEPT ![h] = [phase |-> "csv", parsed |-> parsed, rows |-> rows]]
    BY <1>2, <1>6, CsvRead
  <2>4. Present(rows) = Present(csv) \cup Present(parsed)
    BY <1>2, <2>3, ElseFacts
  <2> HIDE DEF rows, parsed
  <2>5. CASE rows = csv /\ run' = [run EXCEPT ![h] = [phase |-> "harvested", parsed |-> parsed]]
    <3>1. \A k \in Harvesters : run'[k] = [phase |-> "harvested", parsed |-> parsed]
      BY <1>2, <2>3, <2>5, Runs, OneRun
    <3>2. Present(parsed) \subseteq Present(csv)
      BY <2>4, <2>5
    <3>3. crashes = 0 => Keeps(Figured(csv), Else(master, Figured(parsed)))
      BY <2>2, CoveredStays
    <3>4. (\A k \in Harvesters : HoldsGood(run[k]))'
      BY <2>1, <3>1, <3>2 DEF HoldsGood, Present
    <3>5. (\A k \in Harvesters : crashes = 0 => KeepsPace(run[k]))'
      BY <2>1, <3>1, <3>3 DEF KeepsPace, Keeps, Figured, Else
    <3> QED BY <1>1, <2>2, <3>4, <3>5
  <2>6. CASE run' = [run EXCEPT ![h] = [phase |-> "csv", parsed |-> parsed, rows |-> rows]]
    <3>1. \A k \in Harvesters : run'[k] = [phase |-> "csv", parsed |-> parsed, rows |-> rows]
      BY <1>2, <2>3, <2>6, Runs, OneRun
    <3>2. rows = Else(csv', parsed)
      BY <2>1 DEF rows, Else
    <3>3. (\A k \in Harvesters : HoldsGood(run[k]))'
      BY <3>1, <3>2 DEF HoldsGood
    <3>4. (\A k \in Harvesters : crashes = 0 => KeepsPace(run[k]))'
      BY <2>1, <2>2, <3>1 DEF KeepsPace, Keeps, Figured
    <3> QED BY <1>1, <2>2, <3>3, <3>4
  <2> QED BY <2>3, <2>5, <2>6
<1>7. ASSUME NEW h \in Harvesters, WriteCsv(h)
      PROVE  HarvestInv'
  <2> DEFINE parsed == run[h].parsed
  <2>1. run[h].phase = "csv" /\ run[h].rows = Else(csv, parsed) /\ parsed \in Figures
    BY <1>7, RunKinds DEF WriteCsv, HoldsGood, WellFormed, TypeOK
  <2>2. csv' = Else(csv, parsed) /\ UNCHANGED <<master, crashes>>
    BY <1>7, <2>1 DEF WriteCsv
  <2>3. run' = [run EXCEPT ![h] = [phase |-> "harvested", parsed |-> parsed]]
    BY <1>7 DEF WriteCsv
  <2>4. \A k \in Harvesters : run'[k] = [phase |-> "harvested", parsed |-> parsed]
    <3>1. [phase |-> "harvested", parsed |-> parsed] \in Run
      BY <2>1, Runs
    <3> QED BY <1>2, <2>3, <3>1, OneRun
  <2>5. Present(csv') = Present(csv) \cup Present(parsed)
    <3>1. Present(Else(csv, parsed)) = Present(csv) \cup Present(parsed)
      BY <1>2, <2>1, ElseFacts
    <3> QED BY <2>2, <3>1 DEF Present
  <2>6. (Present(master) \subseteq Present(csv))'
    BY <2>2, <2>5 DEF Present
  <2>7. crashes = 0 => Keeps(Figured(csv), master)
    BY <2>1 DEF KeepsPace
  <2>8. crashes = 0 => Keeps(Figured(Else(csv, parsed)), Else(master, Figured(parsed)))
    BY <1>2, <2>1, <2>7, CsvAhead
  <2> HIDE DEF parsed
  <2>9. (\A k \in Harvesters : HoldsGood(run[k]))'
    BY <2>4, <2>5 DEF HoldsGood, Present
  <2>10. (\A k \in Harvesters : crashes = 0 => KeepsPace(run[k]))'
    BY <2>2, <2>4, <2>8 DEF KeepsPace, Keeps, Figured, Else
  <2> QED BY <1>1, <2>6, <2>9, <2>10
<1>8. ASSUME NEW h \in Harvesters, ReadMaster(h)
      PROVE  HarvestInv'
  <2> DEFINE parsed == run[h].parsed
             rows == Else(master, Figured(parsed))
  <2>1. run[h].phase = "harvested" /\ UNCHANGED <<csv, master, crashes>>
    BY <1>8 DEF ReadMaster
  <2>2. (Present(master) \subseteq Present(csv))' /\ (crashes = 0 => Keeps(Figured(csv), rows))
    BY <2>1 DEF KeepsPace, Present
  <2>3. Present(parsed) \subseteq Present(csv)
    BY <2>1 DEF HoldsGood
  <2>4. /\ parsed \in Figures /\ rows \in Figures
        /\ \/ rows = master /\ run' = [run EXCEPT ![h] = Idle]
           \/ run' = [run EXCEPT ![h] = [phase |-> "master", rows |-> rows]]
    BY <1>2, <1>8, MasterRead
  <2>5. /\ Keeps(master, rows)
        /\ Present(rows) \subseteq Present(master) \cup Present(parsed)
    BY <1>2, <2>4, ElseFacts, FiguredFacts
  <2> HIDE DEF rows, parsed
  <2>6. CASE rows = master /\ run' = [run EXCEPT ![h] = Idle]
    <3>1. \A k \in Harvesters : run'[k] = Idle
      BY <1>2, <2>6, Runs, OneRun
    <3>2. (\A k \in Harvesters : HoldsGood(run[k]))'
      BY <3>1, Runs DEF HoldsGood
    <3>3. (\A k \in Harvesters : crashes = 0 => KeepsPace(run[k]))'
      BY <2>1, <2>2, <2>6, <3>1, Runs DEF KeepsPace, Keeps, Figured
    <3> QED BY <1>1, <2>2, <3>2, <3>3
  <2>7. CASE run' = [run EXCEPT ![h] = [phase |-> "master", rows |-> rows]]
    <3>1. \A k \in Harvesters : run'[k] = [phase |-> "master", rows |-> rows]
      BY <1>2, <2>4, <2>7, Runs, OneRun
    <3>2. Present(rows) \subseteq Present(csv)
      BY <2>3, <2>5
    <3>3. (\A k \in Harvesters : HoldsGood(run[k]))'
      BY <2>1, <2>5, <3>1, <3>2 DEF HoldsGood, Keeps, Present
    <3>4. (\A k \in Harvesters : crashes = 0 => KeepsPace(run[k]))'
      BY <2>1, <2>2, <3>1 DEF KeepsPace, Keeps, Figured
    <3> QED BY <1>1, <2>2, <3>3, <3>4
  <2> QED BY <2>4, <2>6, <2>7
<1>9. ASSUME NEW h \in Harvesters, WriteMaster(h)
      PROVE  HarvestInv'
  <2>1. run[h].phase = "master" /\ master' = run[h].rows /\ UNCHANGED <<csv, crashes>>
        /\ run' = [run EXCEPT ![h] = Idle]
    BY <1>9 DEF WriteMaster
  <2>2. \A k \in Harvesters : run'[k] = Idle
    BY <1>2, <2>1, Runs, OneRun
  <2>3. (Present(master) \subseteq Present(csv))'
    BY <2>1 DEF HoldsGood, Present
  <2>4. crashes' = 0 => Keeps(Figured(csv'), master')
    BY <2>1 DEF KeepsPace, Keeps, Figured
  <2> QED BY <1>1, <2>2, <2>3, <2>4, Runs DEF HoldsGood, KeepsPace
<1>10. ASSUME NEW h \in Harvesters, Crash(h)
       PROVE  HarvestInv'
  <2>1. run' = [run EXCEPT ![h] = Idle] /\ crashes' = crashes + 1 /\ UNCHANGED <<csv, master>>
    BY <1>10 DEF Crash
  <2>2. \A k \in Harvesters : run'[k] = Idle
    BY <1>2, <2>1, Runs, OneRun
  <2>3. crashes' # 0
    BY <1>2, <2>1
  <2> QED BY <1>1, <2>1, <2>2, <2>3, Runs DEF HoldsGood, Present
<1> QED BY <1>4, <1>5, <1>6, <1>7, <1>8, <1>9, <1>10 DEF Next, Step

LEMMA HarvestInvariant ==
  ASSUME OneHarvester
  PROVE  Spec => []HarvestInv
<1>1. ASSUME Init
      PROVE  HarvestInv
  <2>1. 1 \in Days /\ source \in Figures /\ 1 \in Present(source)
    BY <1>1, HarvestAssumption DEF Init, Days, Figures, Present, Nothing
  <2>2. csv = source /\ master = source /\ \A h \in Harvesters : run[h] = Idle
    BY <1>1 DEF Init
  <2>3. WellFormed
    <3>1. BlanksAreLate
      BY <1>1, <2>2, Runs DEF Init, BlanksAreLate, RunLates, Lates, Nothing, Blank
    <3> QED
      BY <1>1, <2>1, <2>2, <3>1, Runs DEF Init, WellFormed, TypeOK, RowsHaveFirstDay
  <2>4. Keeps(Figured(csv), master)
    BY <2>2 DEF Keeps, Figured
  <2> QED BY <2>2, <2>3, <2>4, Runs DEF HarvestInv, HoldsGood, KeepsPace
<1>2. ASSUME HarvestInv, [Next]_vars
      PROVE  HarvestInv'
  <2>1. CASE UNCHANGED vars
    BY <1>2, <2>1
       DEF vars, HarvestInv, WellFormed, TypeOK, RowsHaveFirstDay, BlanksAreLate, RunLates, Lates,
           HoldsGood, KeepsPace, Keeps, Present, Figured, Else
  <2> QED BY <1>2, <2>1, HarvestStep
<1> QED BY <1>1, <1>2, PTL DEF Spec

(* Files and runs stay well formed, whoever harvests: no run writes a file *)
(* that has lost the first day, and every archive asked for is a month.    *)
THEOREM HarvestIsWellFormed == Spec => []TypeOK
<1>1. ASSUME Init
      PROVE  WellFormed
  <2>1. 1 \in Days /\ source \in Figures /\ 1 \in Present(source)
    BY <1>1, HarvestAssumption DEF Init, Days, Figures, Present, Nothing
  <2>2. csv = source /\ master = source /\ \A h \in Harvesters : run[h] = Idle
    BY <1>1 DEF Init
  <2>3. BlanksAreLate
    BY <1>1, <2>2, Runs DEF Init, BlanksAreLate, RunLates, Lates, Nothing, Blank
  <2> QED BY <1>1, <2>1, <2>2, <2>3, Runs DEF Init, WellFormed, TypeOK, RowsHaveFirstDay
<1>2. ASSUME WellFormed, [Next]_vars
      PROVE  WellFormed'
  <2>1. CASE UNCHANGED vars
    BY <1>2, <2>1 DEF vars, WellFormed, TypeOK, RowsHaveFirstDay, BlanksAreLate, RunLates,
                      Lates, Present
  <2> QED BY <1>2, <2>1, WellFormedStep
<1>3. WellFormed => TypeOK
  BY DEF WellFormed
<1> QED BY <1>1, <1>2, <1>3, PTL DEF Spec

(* One process harvesting at a time, a figure that the CSV and the master  *)
(* table both have is the same one until a process is killed; and however  *)
(* often one is, the CSV has every day the master has, and its figure too  *)
(* unless the source first printed that day without one.                   *)
(* (harvest_handybulk.py:270-309, 511-535)                                 *)
THEOREM FilesStayInStep ==
  ASSUME OneHarvester
  PROVE  Spec => []FilesAgree
<1>1. ASSUME HarvestInv
      PROVE  FilesAgree
  <2>1. /\ TypeOK /\ csv \in Figures /\ master \in Figures
        /\ Present(master) \subseteq Present(csv) /\ Lates(csv, late)
    BY <1>1 DEF HarvestInv, WellFormed, TypeOK, BlanksAreLate
  <2>2. ASSUME crashes = 0, NEW d \in Present(Figured(csv)) \cap Present(master)
        PROVE  csv[d] = master[d]
    <3>1. PICK h \in Harvesters : TRUE
      BY DEF OneHarvester
    <3>2. KeepsPace(run[h]) /\ HoldsGood(run[h]) /\ run[h] \in Run
      BY <1>1, <2>1, <2>2 DEF HarvestInv, TypeOK
    <3>3. CASE Keeps(Figured(csv), master)
      BY <2>2, <3>3 DEF Keeps, Present, Figured
    <3>4. CASE Keeps(Figured(csv), Else(master, Figured(run[h].parsed)))
      <4>1. d \in Days /\ Figured(csv)[d] = csv[d] /\ master[d] # Nothing
        BY <2>2 DEF Present, Figured
      <4>2. Else(master, Figured(run[h].parsed))[d] = master[d]
        BY <4>1 DEF Else
      <4>3. Figured(csv)[d] # Nothing
        BY <2>2 DEF Present
      <4> QED
        BY <3>4, <4>1, <4>2, <4>3 DEF Keeps
    <3>5. CASE run[h].phase = "master"
      BY <2>2, <3>2, <3>5 DEF KeepsPace, HoldsGood, Keeps, Present, Figured
    <3> QED BY <3>2, <3>3, <3>4, <3>5, RunKinds DEF KeepsPace
  <2>3. MasterIsRebuildable
    BY <2>1 DEF MasterIsRebuildable, Present, Figured, Lates, Nothing, Blank
  <2> QED BY <2>1, <2>2, <2>3 DEF FilesAgree, SameFigures
<1> QED BY <1>1, HarvestInvariant, PTL

(* And then no step ever changes or loses a stored figure, in either file, *)
(* whatever the source prints later and wherever a run is killed.          *)
THEOREM FiguresStayStored ==
  ASSUME OneHarvester
  PROVE  Spec => StoredFiguresStay
<1>1. ASSUME HarvestInv, [Next]_vars
      PROVE  [Keeps(csv, csv') /\ Keeps(master, master')]_vars
  <2>1. csv \in Figures /\ master \in Figures /\ \A h \in Harvesters : run[h] \in Run
    BY <1>1 DEF HarvestInv, WellFormed, TypeOK
  <2>2. ASSUME NEW h \in Harvesters, WriteCsv(h)
        PROVE  Keeps(csv, csv') /\ master' = master
    <3>1. run[h].parsed \in Figures /\ csv' = Else(csv, run[h].parsed) /\ master' = master
      BY <1>1, <2>1, <2>2, RunKinds DEF WriteCsv, HarvestInv, HoldsGood
    <3>2. Keeps(csv, Else(csv, run[h].parsed))
      BY <2>1, <3>1, ElseFacts
    <3> QED BY <3>1, <3>2
  <2>3. ASSUME NEW h \in Harvesters, WriteMaster(h)
        PROVE  Keeps(master, master') /\ csv' = csv
    BY <1>1, <2>3 DEF WriteMaster, HarvestInv, HoldsGood
  <2>4. Keeps(csv, csv) /\ Keeps(master, master)
    BY DEF Keeps
  <2> QED
    BY <1>1, <2>2, <2>3, <2>4
       DEF Next, Step, Publish, Restate, FetchFront, FetchArchive, ArchiveFails, ReadCsv,
           ReadMaster, Crash, vars
<1> QED BY <1>1, HarvestInvariant, PTL DEF Spec, StoredFiguresStay
=============================================================================
