---------------------------- MODULE HindsightDesk ----------------------------
(***************************************************************************)
(* What the desk learns from its own history, one question at a time:      *)
(*   build_master.py   the sources laid over one another, one value a day; *)
(*   units.py          the relation between an index and the dollars it    *)
(*                     stands for, as of a day, and where it changed;      *)
(*   backtest.py       what each way of buying would have saved;           *)
(*   calibration.py    the swarm that looks for the best parameters.       *)
(*                                                                         *)
(* A print is a day's index and time-charter average, and all that is kept *)
(* of it is the line the two lie on.  Two prints always lie on one line;   *)
(* three lie on one when they were printed under one relation.             *)
(***************************************************************************)
EXTENDS Integers, Sequences, FiniteSets, SequencesExt, FiniteSetsExt, Functions, TLC

CONSTANTS
  RawFiles,    \* sets of raw files: [source, name, cells], a cell [column, day, value]
  Unnamed,     \* the series of a file whose name is not recognised
  Blank,       \* a cell without a figure
  Histories,   \* series of prints, a sequence of [day, line] by day
  NearHalf,    \* SPIKE_WINDOW // 2
  NearLeast,   \* fewest neighbours that judge a print
  LeastPrints, \* MIN_OBS
  FreshPrints, \* FRESH_REGIME_OBS
  TrailDays,   \* DEFAULT_WINDOW_DAYS
  Trials,      \* decision days of a split: [early, class, spot, realised, horizons, ceiling]
  Spread100,   \* broker_spread, in percent
  Spots,       \* points of the parameter space a particle may come to
  ValueOf,     \* ValueOf[p]: the decision value of a backtest run with them
  Particles,   \* n_particles
  Iterations   \* n_iterations

ASSUME HindsightAssumption ==
  /\ NearLeast > 2 /\ NearHalf >= NearLeast /\ FreshPrints > 2 /\ LeastPrints > 2
  /\ Particles \in Nat \ {0} /\ Iterations \in Nat /\ Spread100 \in 0 .. 99

VARIABLES
  hindAsked,   \* the question in hand, or NoHind
  hindAnswer,  \* its answer, or NoHind
  swarm        \* the swarm of a calibration, or NoHind

hindVars == <<hindAsked, hindAnswer, swarm>>

NoHind == <<>>

HindInit == hindAsked = NoHind /\ hindAnswer = NoHind /\ swarm = NoHind

-----------------------------------------------------------------------------
(* The readers: the series of a cell is named by its file or its column;   *)
(* cells without a figure, and files of no known name, leave no row.       *)
SeriesOf(f, cell) == IF f.source = "investing" THEN f.name ELSE cell.column

RowsOf(f) ==
  {[series |-> SeriesOf(f, cell), day |-> cell.day, value |-> cell.value,
    source |-> f.source] :
     cell \in {c \in f.cells : c.value # Blank /\ SeriesOf(f, c) # Unnamed}}

RawRows(raw) == UNION {RowsOf(f) : f \in raw}

SOURCE_RANK(source) ==
  CASE source = "handybulk" -> 2 [] source = "investing" -> 1 [] OTHER -> 0

BadDisagree(rows) == FALSE             \* mutant: the best source is trusted
Disagree(rows) ==
  LET hi == Max({row.value : row \in rows})
      lo == Min({row.value : row \in rows})
  IN 5 * (hi - lo) > hi

BadBestOf(rows) == rows                \* mutant: any source
BestOf(rows) ==
  {row \in rows : \A other \in rows : SOURCE_RANK(other.source) <= SOURCE_RANK(row.source)}

Keys(rows) == {<<row.series, row.day>> : row \in rows}
OfKey(rows, key) == {row \in rows : <<row.series, row.day>> = key}

(* dedupe: days the sources disagree on are dropped; of equals any is kept.*)
Masters(rows) ==
  LET kept == {key \in Keys(rows) : ~Disagree(OfKey(rows, key))}
  IN {Range(pick) : pick \in {f \in [kept -> rows] : \A key \in kept : f[key] \in BestOf(OfKey(rows, key))}}

-----------------------------------------------------------------------------
(* _fit_affine within tolerance, of the prints with these indices.         *)
OneLine(prints, S) == Cardinality(S) <= 2 \/ Cardinality({prints[i].line : i \in S}) = 1

(* _spike_mask: a print off the line of all its neighbours, where these    *)
(* lie on one.                                                             *)
Neighbours(prints, i) == ((i - NearHalf) .. (i + NearHalf)) \cap (DOMAIN prints \ {i})

BadSpike(prints, i) == FALSE           \* mutant: spikes are kept
Spike(prints, i) ==
  /\ Len(prints) >= 2 * NearHalf + 1
  /\ Cardinality(Neighbours(prints, i)) >= NearLeast
  /\ OneLine(prints, Neighbours(prints, i))
  /\ \A j \in Neighbours(prints, i) : prints[j].line # prints[i].line

(* _overlap, of the whole master.                                          *)
Overlap(prints) ==
  LET order == SelectSeq([i \in DOMAIN prints |-> i], LAMBDA i : ~Spike(prints, i))
  IN [k \in DOMAIN order |-> prints[order[k]]]

Until(prints, day) == SelectSeq(prints, LAMBDA print : print.day <= day)

(* The prints a map may be fitted on: the trailing days, or the last few.  *)
Trailing(known) ==
  LET recent == SelectSeq(known, LAMBDA print : print.day > Last(known).day - TrailDays)
  IN IF Len(recent) < LeastPrints THEN SubSeq(known, Len(known) - LeastPrints + 1, Len(known))
     ELSE recent

(* _current_regime_start: back from the end while one line holds.          *)
BadRegimeStart(window) == 1             \* mutant: the calendar window, whatever it straddles
RegimeStart(window) == Min({s \in DOMAIN window : OneLine(window, s .. Len(window))})

FreshMap(size, borrowed) == borrowed \/ size < FreshPrints

(* fit_unit_map; NoHind when it raises InsufficientOverlapError.           *)
UnitMap(prints, asof) ==
  LET known  == Until(Overlap(prints), asof)
      window == Trailing(known)
      n      == Len(window)
      regime == RegimeStart(window)
      start  == Min({regime, n - LeastPrints + 1})
  IN IF Len(known) < LeastPrints THEN NoHind
     ELSE [lines |-> {window[i].line : i \in start .. n}, since |-> window[regime].day,
           size |-> n - start + 1, fresh |-> FreshMap(n - regime + 1, start < regime)]

(* detect_regime_breaks: forward, a new segment where the line gives out.  *)
BadEmit(found, lo, hi) ==              \* mutant: two prints make a segment
  IF hi - lo + 1 < 2 THEN found ELSE Append(found, <<lo, hi>>)
Emit(found, lo, hi) == IF hi - lo + 1 < 3 THEN found ELSE Append(found, <<lo, hi>>)

RegimeSegments(prints) ==
  LET Extend(s, end) ==
        IF OneLine(prints, s.start .. end) THEN s
        ELSE [start |-> end, found |-> Emit(s.found, s.start, end - 1)]
      last == FoldLeft(Extend, [start |-> 1, found |-> <<>>],
                       [i \in 1 .. Max({0, Len(prints) - 2}) |-> i + 2])
  IN Emit(last.found, last.start, Len(prints))

-----------------------------------------------------------------------------
(* simulate: the days of a split that have a forecast of use to the term.  *)
FanHorizons(term) == IF term = 30 THEN {7, 30} ELSE {7, 30, 90}

Simulate(trial, term) ==
  SelectSeq(trial, LAMBDA row : row.horizons \cap FanHorizons(term) # {})

Strategies == {"always_spot", "always_lock", "calendar_lock", "optimizer", "oracle"}

Quoted(row) == (row.spot * (100 - Spread100)) \div 100

BadLocks(strategy, row) ==             \* mutant: the oracle sees the spot of the day
  CASE strategy = "always_spot" -> FALSE
    [] strategy = "always_lock" -> TRUE
    [] strategy = "calendar_lock" -> row.early
    [] strategy = "optimizer" -> Quoted(row) <= row.ceiling
    [] strategy = "oracle" -> row.spot <= row.realised

Locks(strategy, row) ==
  CASE strategy = "always_spot" -> FALSE
    [] strategy = "always_lock" -> TRUE
    [] strategy = "calendar_lock" -> row.early
    [] strategy = "optimizer" -> Quoted(row) <= row.ceiling
    [] strategy = "oracle" -> Quoted(row) <= row.realised

Saved(strategy, row) == IF Locks(strategy, row) THEN row.realised - Quoted(row) ELSE 0

(* _summarise_strategy; total over n is the mean.                          *)
Summary(rows, strategy, of) ==
  LET mine == SelectSeq(rows, LAMBDA row : of \in {"ALL", row.class})
      n    == Len(mine)
      sums == SortSeq([i \in 1 .. n |-> Saved(strategy, mine[i])], <)
      hits == {i \in 1 .. n : Locks(strategy, mine[i])}
  IN IF n = 0 THEN [n |-> 0, total |-> 0, p10 |-> 0, p50 |-> 0, p90 |-> 0, locks |-> 0, right |-> 0]
     ELSE [n |-> n, total |-> FoldLeft(+, 0, sums),
           p10 |-> sums[Max({1, n \div 10})], p50 |-> sums[Max({1, n \div 2})],
           p90 |-> sums[Min({n, (9 * n) \div 10 + 1})],
           locks |-> Cardinality(hits),
           right |-> Cardinality({i \in hits : Locks("oracle", mine[i])})]

(* summarise, with the regret of each strategy.                            *)
Summarise(rows, classes) ==
  [of \in classes \cup {"ALL"} |->
    [s \in Strategies |->
      [figures |-> Summary(rows, s, of),
       value |-> Summary(rows, s, of).total - Summary(rows, "always_lock", of).total,
       regret |-> Summary(rows, "oracle", of).total - Summary(rows, s, of).total]]]

-----------------------------------------------------------------------------
(* The questions.                                                          *)
Put(question, answer) ==
  hindAsked' = question /\ hindAnswer' = answer /\ UNCHANGED swarm

BuildMaster(raw) ==
  \E master \in Masters(RawRows(raw)) :
    Put([kind |-> "master", of |-> raw], [rows |-> master])

FitMap(prints, asof) ==
  Put([kind |-> "map", of |-> prints, asof |-> asof], UnitMap(prints, asof))

FindBreaks(prints) ==
  Put([kind |-> "breaks", of |-> prints], RegimeSegments(Overlap(prints)))

Backtest(trial, term) ==
  Put([kind |-> "trial", of |-> Simulate(trial, term)],
      Summarise(Simulate(trial, term), {row.class : row \in Range(trial)}))

-----------------------------------------------------------------------------
(* calibrate_pso, particle by particle: wherever its velocity takes it, a  *)
(* particle stays within bounds and the best point so far is kept.         *)
BadBetter(worth, best) == worth # best     \* mutant: the latest, not the best
Better(worth, best) == worth > best

NoBest == [at |-> NoHind, worth |-> -1000]

StartSwarm ==
  /\ hindAsked = NoHind
  /\ hindAsked' = [kind |-> "swarm", of |-> {}]
  /\ swarm' = [best |-> NoBest, particle |-> 1, round |-> 0, history |-> <<>>]
  /\ UNCHANGED hindAnswer

MoveParticle ==
  /\ swarm # NoHind /\ swarm.round <= Iterations
  /\ \E p \in Spots :
       LET best == IF Better(ValueOf[p], swarm.best.worth) THEN [at |-> p, worth |-> ValueOf[p]]
                   ELSE swarm.best
           over == swarm.particle = Particles
       IN /\ swarm' = [best |-> best, particle |-> IF over THEN 1 ELSE swarm.particle + 1,
                       round |-> IF over THEN swarm.round + 1 ELSE swarm.round,
                       history |-> IF over /\ swarm.round > 0
                                     THEN Append(swarm.history, best.worth) ELSE swarm.history]
          /\ hindAsked' = [hindAsked EXCEPT !.of = @ \cup {p}]
  /\ UNCHANGED hindAnswer

EndSwarm ==
  /\ swarm # NoHind /\ swarm.round > Iterations
  /\ hindAnswer' = [at |-> swarm.best.at, worth |-> swarm.best.worth, history |-> swarm.history]
  /\ swarm' = NoHind
  /\ UNCHANGED hindAsked

CloseHind ==
  /\ hindAsked # NoHind /\ (hindAsked.kind # "swarm" \/ hindAnswer # NoHind)
  /\ hindAsked' = NoHind /\ hindAnswer' = NoHind
  /\ UNCHANGED swarm

AskHind ==
  \/ \E raw \in RawFiles : BuildMaster(raw)
  \/ \E prints \in Histories : FindBreaks(prints) \/ \E i \in DOMAIN prints : FitMap(prints, prints[i].day)
  \/ \E trial \in Trials, term \in {30, 90} : Backtest(trial, term)

HindNext ==
  \/ hindAsked = NoHind /\ AskHind
  \/ StartSwarm \/ MoveParticle \/ EndSwarm
  \/ CloseHind

-----------------------------------------------------------------------------
(* Properties.                                                             *)

Replied(kind) == hindAsked # NoHind /\ hindAsked.kind = kind /\ swarm = NoHind

(* The master has one row for each day of a series its sources agree on,   *)
(* from the best of them, and none they disagree on ("dropped entirely     *)
(* rather than silently trusted to either side").                          *)
MasterIsAgreed ==
  Replied("master") =>
    LET raw == RawRows(hindAsked.of)
        apart == {key \in Keys(raw) : \E a, b \in OfKey(raw, key) : 5 * (a.value - b.value) > a.value}
    IN /\ Keys(hindAnswer.rows) = Keys(raw) \ apart
       /\ \A row \in hindAnswer.rows :
            /\ row \in raw /\ OfKey(hindAnswer.rows, <<row.series, row.day>>) = {row}
            /\ row.source # "handybulk" =>
                 \A other \in OfKey(raw, <<row.series, row.day>>) : other.source # "handybulk"

(* A map that is not flagged as fresh is the one relation of the last      *)
(* print, or of the one before when that alone was printed under it: a     *)
(* rebasing of the index is never averaged over without a warning.         *)
MapIsOfItsDay ==
  Replied("map") /\ hindAnswer # NoHind /\ ~hindAnswer.fresh =>
    LET seen == Until(hindAsked.of, hindAsked.asof)
    IN \E i \in {Len(seen), Len(seen) - 1} : hindAnswer.lines = {seen[i].line}

(* Read forward, the segments find every stretch of one relation that is   *)
(* longer than three prints, all of it but perhaps its first print, and    *)
(* join no two; and bad prints here and there, no two near each other,     *)
(* announce no change "that never happened".                               *)
Stretch(prints, lo, hi) ==
  /\ \A i \in lo .. hi : prints[i].line = prints[lo].line
  /\ lo > 1 => prints[lo - 1].line # prints[lo].line
  /\ hi < Len(prints) => prints[hi + 1].line # prints[hi].line

LoneGlitches(prints) ==
  /\ Len(prints) > 2 * NearHalf
  /\ \E i \in DOMAIN prints :
       \A j, k \in {g \in DOMAIN prints : prints[g].line # prints[i].line} : k > j => k - j > NearHalf

StretchesAreFound ==
  Replied("breaks") =>
    LET prints == Overlap(hindAsked.of)
    IN /\ \A s \in Range(hindAnswer) : OneLine(prints, s[1] .. s[2]) /\ s[2] - s[1] > 1
       /\ \A lo, hi \in DOMAIN prints :
            hi - lo > 2 /\ Stretch(prints, lo, hi) =>
              \E s \in Range(hindAnswer) : s[1] \in {lo, lo + 1} /\ s[2] = hi
       /\ LoneGlitches(hindAsked.of) => Len(hindAnswer) = 1

(* In every class and over all, no strategy beats hindsight, the quantiles *)
(* of its savings are in order, what the optimizer gives away is what it   *)
(* locked in error and what it let go, and all is the sum of the classes.  *)
BacktestAddsUp ==
  Replied("trial") =>
    LET rows == hindAsked.of
        Gap(row) == Saved("oracle", row) - Saved("optimizer", row)
        Wrong == {i \in DOMAIN rows : Locks("optimizer", rows[i]) # Locks("oracle", rows[i])}
        classes == DOMAIN hindAnswer \ {"ALL"}
    IN /\ \A of \in DOMAIN hindAnswer, s \in Strategies :
            LET f == hindAnswer[of][s].figures
            IN /\ hindAnswer[of][s].regret >= 0
               /\ f.p10 <= f.p50 /\ f.p50 <= f.p90
               /\ s = "oracle" => f.right = f.locks
       /\ \A s \in Strategies :
            hindAnswer["ALL"][s].figures.total =
              MapThenSumSet(LAMBDA of : hindAnswer[of][s].figures.total, classes)
       /\ hindAnswer["ALL"]["optimizer"].regret = MapThenSumSet(LAMBDA i : Gap(rows[i]), Wrong)

(* A calibration answers with the best of all the points its swarm tried,  *)
(* with that point's own value, and a history that never falls.            *)
BestTriedIsKept ==
  hindAsked # NoHind /\ hindAsked.kind = "swarm" /\ hindAnswer # NoHind =>
    LET h == hindAnswer.history
    IN /\ hindAnswer.at \in hindAsked.of /\ hindAnswer.worth = ValueOf[hindAnswer.at]
       /\ \A p \in hindAsked.of : ValueOf[p] <= hindAnswer.worth
       /\ Len(h) = Iterations /\ \A i \in 1 .. Len(h) - 1 : h[i] <= h[i + 1]

(* What the desk learns from its history is in that history.               *)
HistoryIsWellRead ==
  MasterIsAgreed /\ MapIsOfItsDay /\ StretchesAreFound /\ BacktestAddsUp /\ BestTriedIsKept

(* "Only observations on or before asof are used, so this is safe to call  *)
(* inside a backtest without leaking future information": the map of a day *)
(* is the map that would have been fitted on that day.                     *)
NothingLaterIsUsed ==
  Replied("map") => hindAnswer = UnitMap(Until(hindAsked.of, hindAsked.asof), hindAsked.asof)
=============================================================================
