----------------------------- MODULE RouteRisk ------------------------------
(***************************************************************************)
(* What a route runs into: src/src/opt/route_trace.py fetches a leg and    *)
(* keeps it for the life of the process, chokepoints.py and war_risk.py    *)
(* read from its line the passages and the listed areas it meets,          *)
(* fracture.py and risk.py judge the passages by files that the harvesters *)
(* replace, and POST /fracture of src/backend/main.py joins the answers.   *)
(*                                                                         *)
(* The sphere is a plane of whole points, where every comparison the code  *)
(* makes of lengths and angles is one of whole numbers.  A standard        *)
(* deviation is replaced by the spread of the window (both are 0 exactly   *)
(* for a flat one), and z scores are in hundredths.                        *)
(***************************************************************************)
EXTENDS BerthRegister, FiniteSetsExt

CONSTANTS
  RoutePorts,    \* the ports
  Place,         \* Place[p]: where a port lies
  Lines,         \* Lines[a][b]: the lines the router may return; <<>> for none
  Passages,      \* CHOKEPOINT_GEOMETRY, in the order of the table: [id, at, radius]
  Areas,         \* LISTED_AREAS: [id, low, high], two corners of a box
  SampleStep,    \* _SAMPLE_STEP_NM
  Distance,      \* the distance table: Distance[a][b], Absent for an unknown pair
  Window,        \* CHOKEPOINT_WINDOW_DAYS, and that of the weeks of conflict
  WeekOf,        \* WeekOf[d]: the ISO week of a day
  FileSets,      \* what the harvesters may leave on disk
  Absent,        \* None: no file, no value, no reading
  Garbled,       \* a file that cannot be read
  BasinsOf,      \* BasinsOf[p]: the cyclone basins a port lies in
  Strikes,       \* the climatology: a sequence of [basin, week, rate], by rate
  Inquiries      \* [from, to, day, hull, opens, closes], hull Absent when not given

Point == Int \X Int

(* The count of a day, or of a week, as a file has it.                     *)
Reading == [day : Int, count : Int]

ASSUME RouteAssumption ==
  /\ Window \in Nat \ {0} /\ SampleStep \in Nat \ {0} /\ Absent \notin Int
  /\ Place \in [RoutePorts -> Point]
  /\ \A a, b \in RoutePorts : Lines[a][b] \subseteq Seq(Point)
  /\ Passages \in Seq(Range(Passages))
  /\ \A passage \in Range(Passages) : passage.at \in Point /\ passage.radius \in Nat
  /\ \A area \in Range(Areas) : area.low \in Point /\ area.high \in Point
  /\ \A request \in Inquiries :
       request.from \in RoutePorts /\ request.to \in RoutePorts /\ request.day \in Int
  /\ \A f \in FileSets, passage \in Range(Passages) :
       f.transits[passage.id] \in Seq(Reading) \cup {Absent, Garbled}

VARIABLES
  legs,          \* the cache of _leg: [from, to, line, straight] for pairs fetched
  files,         \* what is on disk: transits, conflict, advisories, calls, rates
  inquiry,       \* the request in hand, or NoInquiry
  finding        \* the answer, or NoFinding

routeVars == <<legs, files, inquiry, finding>>

NoInquiry == <<>>
NoFinding == <<>>

MaxTrim == 2                 \* _MAX_CONNECTOR_TRIM
Weight  == [transit |-> 40, conflict |-> 30, listed |-> 20, draft |-> 10]
Bands   == <<"calm", "watch", "elevated", "critical">>
Bounds  == <<25, 50, 75>>    \* BAND_THRESHOLDS
Full    == 300               \* Z_SATURATION
AlertZ  == 175               \* CHOKEPOINT_Z_THRESHOLD
RiseZ   == 200               \* RATE_Z_THRESHOLD, CONGESTION_Z_THRESHOLD
GraveZ  == 300

RouteInit ==
  /\ legs = {} /\ files \in FileSets
  /\ inquiry = NoInquiry /\ finding = NoFinding

-----------------------------------------------------------------------------
(* The plane.                                                              *)
To(a, b)    == <<b[1] - a[1], b[2] - a[2]>>
Dot(u, v)   == u[1] * v[1] + u[2] * v[2]
Cross(u, v) == u[1] * v[2] - u[2] * v[1]
Sq(u)       == Dot(u, u)

(* A bearing from a point to itself comes out as north.                    *)
Heading(a, b) == IF a = b THEN <<0, 1>> ELSE To(a, b)

(* More than 60 degrees apart.                                             *)
Hooks(u, v) == Dot(u, v) <= 0 \/ 4 * Dot(u, v) * Dot(u, v) < Sq(u) * Sq(v)

-----------------------------------------------------------------------------
(* _leg: the router's line with at most two hooked points taken off either *)
(* end, then joined to the ports; a straight line when the router fails.   *)
(* The end is trimmed before the start.                                    *)
Trims(line, hooked) ==
  Min({k \in 0 .. MaxTrim : k = MaxTrim \/ Len(line) - k < 3 \/ k \notin hooked})

TrimEnd(line, b) ==
  LET hooked == {k \in 0 .. Len(line) - 2 :
                   LET n == Len(line) - k
                   IN Hooks(Heading(line[n - 1], line[n]), Heading(line[n], b))}
  IN SubSeq(line, 1, Len(line) - Trims(line, hooked))

TrimStart(line, a) ==
  LET hooked == {k \in 0 .. Len(line) - 2 :
                   Hooks(Heading(line[k + 1], line[k + 2]), Heading(a, line[k + 1]))}
  IN SubSeq(line, 1 + Trims(line, hooked), Len(line))

Join(line, a, b) ==
  (IF line[1] = a THEN <<>> ELSE <<a>>) \o line \o (IF line[Len(line)] = b THEN <<>> ELSE <<b>>)

LegOf(from, to, raw) ==
  LET a == Place[from]
      b == Place[to]
      failed == Len(raw) < 2
  IN [from |-> from, to |-> to, straight |-> failed \/ Distance[from][to] = Absent,
      line |-> IF failed THEN <<a, b>> ELSE Join(TrimStart(TrimEnd(raw, b), a), a, b)]

Fetched(from, to) == {leg \in legs : leg.from = from /\ leg.to = to}

-----------------------------------------------------------------------------
(* chokepoints_on_route: every segment against every circle, from the      *)
(* distance across and the distance along, which is never negative.        *)
WithinCircle(at, r, a, b) ==
  LET u == To(a, b)
      w == To(a, at)
      along == IF Dot(u, w) < 0 THEN -Dot(u, w) ELSE Dot(u, w)
  IN IF a = b THEN Sq(w) <= r * r
     ELSE IF along > Sq(u) THEN Sq(To(at, b)) <= r * r
     ELSE Cross(u, w) * Cross(u, w) <= r * r * Sq(u)

Segments(line) == 1 .. Len(line) - 1

BadHits(line, passage) ==         \* mutant: only the points of the line are tested
  {i \in Segments(line) : Sq(To(passage.at, line[i])) <= passage.radius * passage.radius}

Hits(line, passage) ==
  {i \in Segments(line) : WithinCircle(passage.at, passage.radius, line[i], line[i + 1])}

PassagesOn(line) ==
  LET hits == [i \in DOMAIN Passages |-> Hits(line, Passages[i])]
      Sooner(i, j) == Min(hits[i]) < Min(hits[j]) \/ (Min(hits[i]) = Min(hits[j]) /\ i < j)
  IN Along(Passages, InOrder({i \in DOMAIN Passages : hits[i] # {}}, Sooner))

(* listed_areas_on_polyline: each segment sampled at least once per Step.  *)
Samples(a, b) ==
  Min({k \in 1 .. Max({1, Sq(To(a, b))}) : k * k * SampleStep * SampleStep >= Sq(To(a, b))})

Covers(area, a, b, k, i) ==
  \A axis \in {1, 2} :
    LET at == k * a[axis] + i * (b[axis] - a[axis])
    IN k * area.low[axis] <= at /\ at <= k * area.high[axis]

Enters(area, a, b) ==
  \E k \in {Samples(a, b)} : \E i \in 0 .. k : Covers(area, a, b, k, i)

AreasOn(line) ==
  {area \in Range(Areas) : \E i \in Segments(line) : Enters(area, line[i], line[i + 1])}

-----------------------------------------------------------------------------
(* _zscore_of_last over rows [day, count] in the order of the file.        *)
DaysUpTo(rows, day) == {i \in DOMAIN rows : rows[i].day <= day}

BadUpTo(rows, day) ==             \* mutant: the file's order is trusted
  RowsAt(rows, DaysUpTo(rows, day))

UpTo(rows, day) ==
  LET Earlier(i, j) == rows[i].day < rows[j].day \/ (rows[i].day = rows[j].day /\ i < j)
  IN Along(rows, InOrder(DaysUpTo(rows, day), Earlier))

ZOfLast(rows) ==
  LET n == Len(rows)
      past == [i \in n - Window .. n - 1 |-> rows[i].count]
      base == {past[i] : i \in DOMAIN past}
      total == MapThenSumSet(LAMBDA i : past[i], DOMAIN past)
  IN IF n < Window + 1 THEN Absent
     ELSE IF Cardinality(base) = 1 THEN Absent
     ELSE (100 * (Window * rows[n].count - total)) \div (Window * (Max(base) - Min(base)))

(* _transit_z: a file that is missing or cannot be read is no signal.      *)
TransitZ(id, day) ==
  IF files.transits[id] \in {Absent, Garbled} THEN Absent
  ELSE ZOfLast(UpTo(files.transits[id], day))

(* _conflict_z: weekly rows, up to the week of the day.                    *)
ConflictZ(id, day) ==
  IF files.conflict[id] \in {Absent, Garbled} THEN Absent
  ELSE ZOfLast(UpTo(files.conflict[id], WeekOf[day]))

(* _draft_restriction: what the rows not yet out of date say of the day.   *)
Draft(id, day) ==
  LET current == {row \in files.advisories : row.id = id /\ day <= row.reviewed}
      until(row) == IF row.to = Absent THEN row.reviewed ELSE row.to
  IN IF current = {} THEN Absent
     ELSE \E row \in current : row.from <= day /\ day <= until(row) /\ row.tight

Listed(passage) == \E area \in Range(Areas) : Covers(area, passage.at, passage.at, 1, 0)

Clamp(score) == Max({0, Min({100, score})})

(* chokepoint_fracture: the inputs that are there, weighted among          *)
(* themselves; without both measured ones the band stops at "watch".       *)
SubScores(passage, transit, conflict, draft) ==
  {[of |-> "listed", score |-> IF Listed(passage) THEN 100 ELSE 0]}
  \cup (IF transit = Absent THEN {} ELSE
          {[of |-> "transit", score |-> Clamp((100 * (-transit)) \div Full)]})
  \cup (IF conflict = Absent THEN {} ELSE
          {[of |-> "conflict", score |-> Clamp((100 * conflict) \div Full)]})
  \cup (IF draft = Absent THEN {} ELSE
          {[of |-> "draft", score |-> IF draft THEN 100 ELSE 0]})

BandOf(scores) ==
  LET weights == MapThenSumSet(LAMBDA s : Weight[s.of], scores)
      index == MapThenSumSet(LAMBDA s : Weight[s.of] * s.score, scores)
      rank == 1 + Cardinality({i \in DOMAIN Bounds : index >= Bounds[i] * weights})
      measured == {"transit", "conflict"} \subseteq {s.of : s \in scores}
  IN IF measured THEN rank ELSE Min({rank, 2})

Fracture(passage, day) ==
  LET transit == TransitZ(passage.id, day)
      conflict == ConflictZ(passage.id, day)
      scores == SubScores(passage, transit, conflict, Draft(passage.id, day))
  IN [id |-> passage.id, transit |-> transit, conflict |-> conflict,
      inputs |-> {s.of : s \in scores}, band |-> BandOf(scores)]

(* assess_risk.  chokepoint_disruption_alert reads the file of the index:  *)
(* only a fall counts there, only a rise in port_congestion_alert, and both*)
(* in rate_regime_alert, which compares the moves of a class's index.      *)
Alert(of, id, z) == [of |-> of, id |-> id, z |-> z, grave |-> z >= GraveZ \/ z <= -GraveZ]

DisruptionAlert(id, day) ==
  LET z == IF files.transits[id] = Absent THEN Absent ELSE ZOfLast(UpTo(files.transits[id], day))
  IN IF z = Absent THEN {}
     ELSE IF z > -AlertZ THEN {} ELSE {Alert("passage", id, z)}

CongestionAlert(port, day) ==
  LET z == IF files.calls[port] = Absent THEN Absent ELSE ZOfLast(UpTo(files.calls[port], day))
  IN IF z = Absent THEN {}
     ELSE IF z < RiseZ THEN {} ELSE {Alert("port", port, z)}

RateAlert(day) ==
  LET rows == UpTo(SelectSeq(files.rates, LAMBDA row : row.count > 0), day)
      moves == [i \in 1 .. Len(rows) - 1 |-> [count |-> rows[i + 1].count - rows[i].count]]
      z == IF Len(rows) < Window + 2 THEN Absent ELSE ZOfLast(moves)
  IN IF z = Absent THEN {}
     ELSE IF z > -RiseZ /\ z < RiseZ THEN {} ELSE {Alert("rate", "rate", z)}

(* cyclone_season_alert: the highest strike rate of the ports' basins in   *)
(* the weeks of the laycan, against one and a half times the median of all.*)
LaycanWeeks(opens, closes) ==
  {WeekOf[d] : d \in Min({opens, closes}) .. Max({opens, closes})}

CycloneAlert(ports, opens, closes) ==
  LET n == Len(Strikes)
      rates == {s.rate : s \in {s \in Range(Strikes) :
                  /\ s.basin \in UNION {BasinsOf[port] : port \in ports}
                  /\ s.week \in LaycanWeeks(opens, closes)}}
      TwiceMedian == Strikes[(n + 1) \div 2].rate + Strikes[n \div 2 + 1].rate
  IN IF rates = {} \/ n = 0 THEN {}
     ELSE IF TwiceMedian <= 0 \/ 4 * Max(rates) < 3 * TwiceMedian THEN {}
     ELSE {[of |-> "season", id |-> "season", z |-> Max(rates),
            grave |-> 4 * Max(rates) >= 9 * TwiceMedian]}

Assess(ids, request) ==
  LET ports == {request.from, request.to}
  IN IF \E id \in ids : files.transits[id] = Garbled THEN Garbled
     ELSE RateAlert(request.day)
          \cup (UNION {CongestionAlert(port, request.day) : port \in ports})
          \cup (UNION {DisruptionAlert(id, request.day) : id \in ids})
          \cup CycloneAlert(ports, request.opens, request.closes)

(* war_risk_premium_usd: started periods of seven days, once for all areas.*)
Premium(hull, areas, days) ==
  IF hull = Absent \/ areas = {} THEN Absent ELSE hull * Max({1, (days + 6) \div 7})

-----------------------------------------------------------------------------
(* POST /fracture, and a quote's risk assessment for the same route.       *)
Inquire(request) ==
  /\ inquiry = NoInquiry
  /\ inquiry' = request
  /\ UNCHANGED <<legs, files, finding>>

(* The first request of a pair fetches the leg; a straight line in its     *)
(* place is kept like any other.                                           *)
FetchLeg ==
  /\ inquiry # NoInquiry /\ finding = NoFinding
  /\ Fetched(inquiry.from, inquiry.to) = {}
  /\ \E raw \in Lines[inquiry.from][inquiry.to] \cup {<<>>} :
       legs' = legs \cup {LegOf(inquiry.from, inquiry.to, raw)}
  /\ UNCHANGED <<files, inquiry, finding>>

FindingOf(request, passages, areas) ==
  LET days == Distance[request.from][request.to]
      ids == {passages[i].id : i \in DOMAIN passages}
  IN [passages |-> [i \in DOMAIN passages |-> Fracture(passages[i], request.day)],
      areas |-> {area.id : area \in areas},
      premium |-> IF days = Absent THEN Absent ELSE Premium(request.hull, areas, days),
      \* one file that cannot be read ends the whole assessment
      alerts |-> Assess(ids, request)]

AnswerInquiry ==
  /\ inquiry # NoInquiry /\ finding = NoFinding
  /\ \E leg \in Fetched(inquiry.from, inquiry.to) :
       \E passages \in {PassagesOn(leg.line)} : \E areas \in {AreasOn(leg.line)} :
         finding' = FindingOf(inquiry, passages, areas)
  /\ UNCHANGED <<legs, files, inquiry>>

ConcludeInquiry ==
  /\ finding # NoFinding
  /\ inquiry' = NoInquiry /\ finding' = NoFinding
  /\ UNCHANGED <<legs, files>>

(* The harvesters replace the files between requests.                      *)
Republish ==
  /\ inquiry = NoInquiry
  /\ files' \in FileSets
  /\ UNCHANGED <<legs, inquiry, finding>>

RouteNext ==
  \/ \E request \in Inquiries : Inquire(request)
  \/ FetchLeg
  \/ AnswerInquiry
  \/ ConcludeInquiry
  \/ Republish

RouteSpec == RouteInit /\ [][RouteNext]_routeVars

-----------------------------------------------------------------------------
(* Properties.                                                             *)

TheLeg == CHOOSE leg \in Fetched(inquiry.from, inquiry.to) : TRUE

(* A circle that a segment truly meets: the point of it nearest to the     *)
(* centre, its ends included, is within the radius.                        *)
Meets(passage, a, b) ==
  LET u == To(a, b)
      w == To(a, passage.at)
      r2 == passage.radius * passage.radius
  IN IF Dot(u, w) <= 0 THEN Sq(w) <= r2
     ELSE IF Dot(u, w) >= Sq(u) THEN Sq(To(b, passage.at)) <= r2
     ELSE Cross(u, w) * Cross(u, w) <= r2 * Sq(u)

TrulyMet(line) ==
  {passage \in Range(Passages) : \E i \in Segments(line) : Meets(passage, line[i], line[i + 1])}

(* A port of departure inside a circle whose centre lies astern.           *)
LeftBehind(passage, a, b) ==
  /\ Sq(To(a, passage.at)) <= passage.radius * passage.radius
  /\ Dot(To(a, b), To(a, passage.at)) < 0

MetUnderWay(line) ==
  {passage \in Range(Passages) : \E i \in Segments(line) :
     /\ Meets(passage, line[i], line[i + 1])
     /\ i = 1 => ~LeftBehind(passage, line[1], line[2])}

(* Nothing on the way is missed: the line drawn runs from port to port,    *)
(* and a passage whose circle it meets between its points, or an area one  *)
(* of its points lies in, is in the answer (chokepoints.py: "a strait that *)
(* falls between two widely-spaced vertices would be invisible to a vertex-*)
(* only test").  The exception is a passage the first segment only leaves: *)
(* it is measured from the far end when that is nearer than the centre.    *)
NothingOnTheWayIsMissed ==
  finding # NoFinding =>
    /\ TheLeg.line[1] = Place[inquiry.from]
    /\ TheLeg.line[Len(TheLeg.line)] = Place[inquiry.to]
    /\ \A passage \in MetUnderWay(TheLeg.line) :
         \E i \in DOMAIN finding.passages : finding.passages[i].id = passage.id
    /\ \A area \in Range(Areas) :
         (\E i \in DOMAIN TheLeg.line :
            Covers(area, TheLeg.line[i], TheLeg.line[i], 1, 0)) => area.id \in finding.areas

(* What "the distance to whichever endpoint is nearer" says of a passage   *)
(* the port of departure lies in (_point_to_segment_distance_nm).          *)
EveryPassageMetIsNamed ==
  finding # NoFinding =>
    \A passage \in TrulyMet(TheLeg.line) :
      \E i \in DOMAIN finding.passages : finding.passages[i].id = passage.id

(* What "through" says of the passages named (chokepoints_on_route: "the   *)
(* PortWatch chokepoint ids whose circle this real polyline passes         *)
(* through").                                                              *)
OnlyPassagesOnTheWay ==
  finding # NoFinding =>
    \A i \in DOMAIN finding.passages :
      \E passage \in TrulyMet(TheLeg.line) : passage.id = finding.passages[i].id

(* Two readers of one file agree: the alert of a quote and the index of    *)
(* the same passage and day rest on the same figure, which is that of the  *)
(* days up to it whatever order the file has them in.                      *)
TwoReadersAgree ==
  finding # NoFinding /\ finding.alerts # Garbled =>
    \A i \in DOMAIN finding.passages :
      LET mine == finding.passages[i]
          rows == files.transits[mine.id]
          known == DaysUpTo(rows, inquiry.day)
          raised == {alert \in finding.alerts : alert.of = "passage" /\ alert.id = mine.id}
      IN /\ \A alert \in raised : alert.z = mine.transit
         /\ mine.transit # Absent =>
              (mine.transit <= -AlertZ) = (raised # {})
         /\ mine.transit # Absent =>
              \E j \in known : /\ \A k \in known : rows[k].day <= rows[j].day
                               /\ mine.transit < 0 => \E k \in known : rows[k].count > rows[j].count
                               /\ mine.transit > 0 => \E k \in known : rows[k].count < rows[j].count

(* What the risk of a route promises: no passage or area of the line drawn *)
(* is missed, and all that read a file of one passage see one figure.      *)
RouteIsReadWhole == NothingOnTheWayIsMissed /\ TwoReadersAgree
=============================================================================
