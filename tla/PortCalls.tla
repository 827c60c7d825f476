------------------------------ MODULE PortCalls ------------------------------
(***************************************************************************)
(* The record of ships' calls (src/berth_truth): traffic reports parsed     *)
(* into rows (providers/pdf_report.py), rows appended once to a file        *)
(* (fact_port_call.py), waits and handling read off it (empirical.py), and  *)
(* the routes over it: pages of calls, and the cached verdict on one ship   *)
(* at one port (reality.py, backend/main.py).                               *)
(*                                                                         *)
(* A report is a date and lines.  A line is a ship's ("vessel"), a further  *)
(* cargo of the ship above ("further"), or one whose cells ran together     *)
(* ("merged"); `sound` says that its timestamps and checksum read well.     *)
(* Times count months, and a report prints a time without its year.         *)
(***************************************************************************)
EXTENDS BerthRegister

CONSTANTS
  Reports,        \* hash of a report -> [port, date, lines]
  MinSample,      \* MINIMUM_SAMPLE_SIZE
  PageSize,       \* the limit a client pages with
  Questions,      \* what clients ask of /ports/{code}/reality
  RegisterPorts,  \* _REGISTER_PORT_ID
  Registry, PortLimits,
  TideOf,         \* tide_rule and tide_allowance_m of a berth
  LiquidWords, ContainerWords, DryWords,
  Unread          \* a cell with nothing in it

ASSUME CallsAssumption ==
  MinSample \in Nat \ {0} /\ PageSize \in 1 .. 500 /\ Unread \notin Int

\* The ship of a line, and its times, may be Unread.
ASSUME ReportsAssumption ==
  \A hash \in DOMAIN Reports :
    LET report == Reports[hash]
    IN  report.date \in Nat /\ report.lines \in Seq(Range(report.lines))

\* Every berth has a name.
ASSUME RegistryAssumption == Registry \in Seq(Row) /\ Unpublished \notin Berths

VARIABLES calls,    \* fact_port_call.jsonl, in file order
          pending,  \* rows an append has still to write
          torn,     \* the file ends within a line
          ingested, \* the reports some append_many has returned for
          reader,   \* a client that pages through /ports/{code}/calls
          reports   \* _cached_port_reality: question -> report

callsVars == <<calls, pending, torn, ingested, reader, reports>>

CallsInit ==
  /\ calls = <<>> /\ pending = <<>> /\ torn = FALSE /\ ingested = {}
  /\ reader = [port |-> Unread, got |-> <<>>]
  /\ reports = <<>>

-----------------------------------------------------------------------------

(***************************************************************************)
(* _parse_timestamp: the year is the report's, or the one before for a      *)
(* December read in January.                                                *)
(***************************************************************************)
ReadTime(time, date) ==
  IF time = Unread THEN Unread
  ELSE LET month == time % 12
           back  == IF date % 12 = 0 /\ month = 11 THEN 1 ELSE 0
       IN  ((date \div 12) - back) * 12 + month

NoVessel == [ship |-> Unread, arrived |-> Unread, berthed |-> Unread, draft |-> Unread]

\* _VesselContext: the ship's line a further cargo belongs to.
ShipLine(lines, i) ==
  LET ships == {j \in 1 .. i : lines[j].kind = "vessel"}
  IN  IF ships = {} THEN NoVessel ELSE lines[Max(ships)]

(***************************************************************************)
(* _build_row: merged cells leave a quarantined row with no ship.           *)
(***************************************************************************)
ParsedRow(hash, i) ==
  LET report == Reports[hash]
      line   == report.lines[i]
      ship   == IF line.kind = "merged" THEN NoVessel ELSE ShipLine(report.lines, i)
  IN  [hash |-> hash, index |-> i, port |-> report.port, date |-> report.date,
       ship |-> ship.ship, draft |-> ship.draft,
       arrived |-> ReadTime(ship.arrived, report.date),
       berthed |-> ReadTime(ship.berthed, report.date),
       cargo |-> line.cargo, rate |-> IF line.kind = "merged" THEN Unread ELSE line.rate,
       trusted |-> line.kind # "merged" /\ line.sound]

ParsedReport(hash) == [i \in DOMAIN Reports[hash].lines |-> ParsedRow(hash, i)]

BadIsNewRow(row) == \A i \in DOMAIN calls : calls[i].hash # row.hash

\* append_many keys a row by its document and its place in it.
IsNewRow(row) ==
  \A i \in DOMAIN calls : <<calls[i].hash, calls[i].index>> # <<row.hash, row.index>>

Ingest(hash) ==
  /\ pending = <<>> /\ ~torn
  /\ pending' = LET rows == ParsedReport(hash)
                 IN  RowsAt(rows, {i \in DOMAIN rows : IsNewRow(rows[i])})
  /\ ingested' = IF pending' = <<>> THEN ingested \cup {hash} ELSE ingested
  /\ UNCHANGED <<calls, torn, reader, reports>>

WriteRow ==
  /\ pending # <<>>
  /\ calls' = Append(calls, Head(pending))
  /\ pending' = Tail(pending)
  /\ ingested' = IF Tail(pending) = <<>> THEN ingested \cup {Head(pending).hash} ELSE ingested
  /\ UNCHANGED <<torn, reader, reports>>

\* The rows not yet flushed are lost, and the last one may be cut short.
KillIngest ==
  /\ pending # <<>>
  /\ pending' = <<>> /\ torn' \in BOOLEAN
  /\ UNCHANGED <<calls, ingested, reader, reports>>

-----------------------------------------------------------------------------

\* query without include_quarantined.
Trusted(file, port) ==
  RowsAt(file, {i \in DOMAIN file : file[i].trusted /\ file[i].port = port})

BadIsLast(rows, i) == TRUE

\* Among the lines on one ship and arrival: the latest report's, its last one.
IsLast(rows, i) ==
  \A j \in DOMAIN rows \ {i} :
    rows[j].ship = rows[i].ship /\ rows[j].arrived = rows[i].arrived =>
      \/ rows[j].date < rows[i].date
      \/ rows[j].date = rows[i].date /\ j < i

\* distinct_calls: a row without ship or arrival stands for itself.
DistinctCalls(rows) ==
  {rows[i] : i \in {k \in DOMAIN rows :
     rows[k].ship = Unread \/ rows[k].arrived = Unread \/ IsLast(rows, k)}}

\* _interval_hours from arrival to berth: unknown, or negative, is no wait.
HasWait(row) == row.arrived # Unread /\ row.berthed # Unread /\ row.arrived <= row.berthed

Sorted(rows, key) == SortSeq(SetToSeq(rows), LAMBDA r, s : key[r] < key[s])

\* _percentile, in hundredths, with linear interpolation.
Percentile(values, pct) ==
  LET k == (Len(values) - 1) * pct
      f == (k \div 100) + 1
      c == Min({f + 1, Len(values)})
  IN  values[f] * 100 + (values[c] - values[f]) * (k % 100)

(***************************************************************************)
(* compute_wait_distribution.  No parser fills the inferred class of a row, *)
(* so an attempt narrowed by class or cargo finds no row, and the port's    *)
(* own rows decide.                                                         *)
(***************************************************************************)
Waits(file, port) ==
  LET rows   == {row \in DistinctCalls(Trusted(file, port)) : HasWait(row)}
      wait   == [row \in rows |-> row.berthed - row.arrived]
      order  == Sorted(rows, wait)
      values == [i \in DOMAIN order |-> wait[order[i]]]
      enough == Cardinality(rows) >= MinSample
      Figure(pct) == IF enough THEN Percentile(values, pct) ELSE Unread
  IN  [n |-> Cardinality(rows), sufficient |-> enough,
       p50 |-> Figure(50), p75 |-> Figure(75), p90 |-> Figure(90)]

\* classify_cargo: liquid words first, then container, then dry bulk.
CargoKind(words) ==
  IF words \cap LiquidWords # {} THEN "liquid_or_gas"
  ELSE IF words \cap ContainerWords # {} THEN "container"
  ELSE IF words \cap DryWords # {} THEN "dry_bulk" ELSE "unknown"

(***************************************************************************)
(* compute_handling_distribution: `narrowed` when a commodity is given,     *)
(* and then no row has one to compare.                                      *)
(***************************************************************************)
Handling(file, port, narrowed) ==
  LET rows == {row \in DistinctCalls(Trusted(file, port)) :
                 /\ ~narrowed /\ CargoKind(row.cargo) = "dry_bulk"
                 /\ row.rate # Unread /\ row.rate > 0}
      order == Sorted(rows, [row \in rows |-> row.rate])
  IN  [n |-> Cardinality(rows), sufficient |-> Cardinality(rows) >= MinSample,
       median |-> IF rows = {} THEN Unread
                  ELSE Percentile([i \in DOMAIN order |-> order[i].rate], 50)]

\* _observed_envelope, of drafts: the deepest ship seen, tankers left out.
DeepestSeen(file, port) ==
  LET drafts == {row.draft : row \in {r \in DistinctCalls(Trusted(file, port)) :
                   r.draft # Unread /\ CargoKind(r.cargo) # "liquid_or_gas"}}
  IN  IF drafts = {} THEN Unread ELSE Max(drafts)

-----------------------------------------------------------------------------

\* The berth the register's verdict is about.
BindingRow(question) ==
  LET rows == Candidates(Registry, question.port, question.wanted, question.day)
      cleared == SelectInSeq(rows, LAMBDA row : Clears(row, question.vessel))
  IN  rows[IF cleared = 0 THEN 1 ELSE cleared]

(***************************************************************************)
(* assess_tide: a rule for laden Capesizes holds the ship it names; an      *)
(* allowance holds every ship once its document is no longer current.       *)
(***************************************************************************)
TideHolds(berth, question) ==
  LET tide == TideOf[berth]
  IN  IF tide.rule THEN question.cape /\ question.laden = TRUE
      ELSE tide.allowance /\ ~tide.current

BadDeclaredLimits(file, port) ==
  LET seen == DeepestSeen(file, port)
  IN  [PortLimits[port] EXCEPT
         !["draft"] = IF @ # Unpublished /\ seen # Unread /\ seen > @ THEN seen ELSE @]

\* The limits of a port the register does not know: an observation raises none.
DeclaredLimits(file, port) == PortLimits[port]

BadDraftUntested(limit) == FALSE

\* The draft check did not run: no limit, or one declared day by day.
DraftUntested(limit) == limit = Unpublished

(***************************************************************************)
(* get_port_reality: the register's verdict, or the port's own limits; then *)
(* what was not tested, and the tide, may withhold a clearance.             *)
(***************************************************************************)
Reality(question, file) ==
  LET port     == question.port
      known    == port \in RegisterPorts
      check    == CheckVessel(Registry, port, question.wanted, question.day, question.vessel)
      limits   == DeclaredLimits(file, port)
      fallback == PortVerdict([p \in {port} |-> limits], port, question.vessel)
      result   == IF known THEN check ELSE fallback
      bound    == known /\ check.berth # Unpublished
      limit    == IF bound THEN ResolvedLimit(BindingRow(question), "draft") ELSE Unpublished
      declared == IF bound THEN BindingRow(question).limit["draft"]
                  ELSE IF known THEN Unpublished ELSE limits["draft"]
      seen     == DeepestSeen(file, port)
  IN  [verdict |->
         IF result.source = "NOTHING" THEN "CANNOT_VERIFY"
         ELSE IF ~result.feasible THEN "INFEASIBLE"
         ELSE IF bound /\ (DraftUntested(limit) \/ TideHolds(check.berth, question))
              THEN "CANNOT_VERIFY"
              ELSE "FEASIBLE",
       berth |-> result.berth, margin |-> result.margin, waits |-> Waits(file, port),
       handling |-> Handling(file, port, question.named),
       conflict |-> declared # Unpublished /\ seen # Unread /\ seen > declared]

\* GET /ports/{code}/reality: the first answer to a question is kept.
Ask(question) ==
  /\ ~torn /\ question \notin DOMAIN reports
  /\ reports' = [q \in DOMAIN reports \cup {question} |->
                  IF q = question THEN Reality(question, calls) ELSE reports[q]]
  /\ UNCHANGED <<calls, pending, torn, ingested, reader>>

\* The kept answers go with the server's process.
RestartDesk ==
  /\ reports # <<>>
  /\ reports' = <<>>
  /\ UNCHANGED <<calls, pending, torn, ingested, reader>>

BadPageOf(rows, offset) ==
  SubSeq(rows, Max({offset, 1}), Min({offset + PageSize, Len(rows)}))

\* port_calls: all_rows[offset : offset + limit].
PageOf(rows, offset) == SubSeq(rows, offset + 1, Min({offset + PageSize, Len(rows)}))

StartPaging(port) ==
  /\ reader.port = Unread
  /\ reader' = [port |-> port, got |-> <<>>]
  /\ UNCHANGED <<calls, pending, torn, ingested, reports>>

\* A half line in the file makes the read, and the request, fail.
NextPage ==
  /\ reader.port # Unread /\ ~torn
  /\ LET page == PageOf(Trusted(calls, reader.port), Len(reader.got))
     IN  /\ page # <<>>
         /\ reader' = [reader EXCEPT !.got = @ \o page]
  /\ UNCHANGED <<calls, pending, torn, ingested, reports>>

EndPaging ==
  /\ reader.port # Unread
  /\ reader' = [port |-> Unread, got |-> <<>>]
  /\ UNCHANGED <<calls, pending, torn, ingested, reports>>

CallsNext ==
  \/ \E hash \in DOMAIN Reports : Ingest(hash)
  \/ WriteRow \/ KillIngest
  \/ \E question \in Questions : Ask(question)
  \/ \E port \in Ports : StartPaging(port)
  \/ NextPage \/ EndPaging \/ RestartDesk

-----------------------------------------------------------------------------

(***************************************************************************)
(* append_many: a report it has returned for has every one of its rows in   *)
(* the file, and exactly once, whichever earlier attempts were killed half  *)
(* way and however often it was taken in.                                   *)
(***************************************************************************)
ReportsAreWholeAndOnce ==
  \A hash \in ingested : \A k \in DOMAIN Reports[hash].lines :
    Cardinality({i \in DOMAIN calls : calls[i] = ParsedRow(hash, k)}) = 1

(***************************************************************************)
(* distinct_calls under compute_wait_distribution: a ship listed by many    *)
(* reports counts once, and with what the latest of them says, in whatever  *)
(* order the reports were taken in (where reports of one day differ, with   *)
(* what one of them says); a line whose ship could not be read counts for   *)
(* itself.                                                                  *)
(***************************************************************************)
WaitsAreOfShips ==
  \A port \in Ports :
    LET rows    == {row \in Range(Trusted(calls, port)) : row.arrived # Unread}
        named   == {row \in rows : row.ship # Unread}
        unnamed == {row \in rows : row.ship = Unread /\ HasWait(row)}
        made    == {<<row.ship, row.arrived>> : row \in named}
        On(call) == {row \in named : <<row.ship, row.arrived>> = call}
        Latest(call) == {row \in On(call) : \A other \in On(call) : other.date <= row.date}
        surely  == {call \in made : \A row \in Latest(call) : HasWait(row)}
        perhaps == {call \in made : \E row \in Latest(call) : HasWait(row)}
        n == Waits(calls, port).n - Cardinality(unnamed)
    IN  Cardinality(surely) <= n /\ n <= Cardinality(perhaps)

(***************************************************************************)
(* GET /ports/{code}/calls: a client that asks page after page while        *)
(* reports are taken in sees the rows of the file from the first on, none   *)
(* twice and none left out.                                                 *)
(***************************************************************************)
PagesAddUp ==
  reader.port # Unread => IsPrefix(reader.got, Trusted(calls, reader.port))

(***************************************************************************)
(* get_port_reality: a ship cleared by the register meets a draft limit the *)
(* named berth publishes for every day, and no tide holds her there.        *)
(***************************************************************************)
ClearedMeansTested ==
  \A question \in DOMAIN reports :
    question.port \in RegisterPorts /\ reports[question].verdict = "FEASIBLE" =>
      \E i \in DOMAIN Registry :
        /\ Registry[i].berth = reports[question].berth /\ ~Registry[i].daily
        /\ Registry[i].limit["draft"] # Unpublished
        /\ question.vessel["draft"] <= Registry[i].limit["draft"]
        /\ ~TideHolds(Registry[i].berth, question)

(***************************************************************************)
(* reality.py: ships seen at a port move neither the verdict nor the margin *)
(* of any later question; they are told of as a conflict.                   *)
(***************************************************************************)
EvidenceMovesNoVerdict ==
  \A question \in DOMAIN reports :
    LET unseen == Reality(question, <<>>)
    IN  reports[question].verdict = unseen.verdict /\ reports[question].margin = unseen.margin

(***************************************************************************)
(* What is told of a port is of the ships its reports list: the record      *)
(* holds each row once, waits count a ship once, pages add up, and a        *)
(* verdict rests on the register alone.                                     *)
(***************************************************************************)
CallsAreOfShips ==
  /\ ReportsAreWholeAndOnce
  /\ WaitsAreOfShips
  /\ PagesAddUp
  /\ ClearedMeansTested
  /\ EvidenceMovesNoVerdict

(***************************************************************************)
(* reality.py:241-242: handling is "gated by the real sufficiency floor",   *)
(* so a question about a port with calls enough is answered with figures.   *)
(***************************************************************************)
HandlingIsOnlyGated ==
  \A question \in Questions :
    Handling(calls, question.port, FALSE).sufficient =>
      Handling(calls, question.port, question.named).sufficient
=============================================================================
