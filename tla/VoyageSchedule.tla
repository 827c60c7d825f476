--------------------------- MODULE VoyageSchedule ---------------------------
(***************************************************************************)
(* src/opt/voyage.py and POST /season-plan of backend/main.py: a fleet and *)
(* its cargo lots become a constraint model, a solver answers with any     *)
(* assignment that satisfies it (the best one unless its time ran out),    *)
(* and the plan, ship by ship, is read back from the solver's variables.   *)
(*                                                                         *)
(* A lot with several discharge ports is split into pieces, one a port.    *)
(* Hours and tonnes are whole numbers, as the code truncates them.         *)
(***************************************************************************)
EXTENDS BerthRegister, FiniteSetsExt, Functions

CONSTANTS
  Jobs,             \* the requests: fleet, lots, events, horizon (Job below)
  Miles,            \* the distance between two ports
  Rate,             \* the tonnes a port handles an hour, or Unpublished
  DefaultWork,      \* hours in a port whose rate is not known
  Wait,             \* the queue a port expects, in hours
  Opex,             \* running cost of an hour
  ContributionCap   \* the upper bound of the variable a lot's revenue goes through

ASSUME ScheduleAssumption ==
  /\ Miles \in [Ports -> [Ports -> Nat]] /\ Rate \in [Ports -> Limit]
  /\ Wait \in [Ports -> Nat]
  /\ DefaultWork \in Nat /\ Opex \in Nat /\ ContributionCap \in Nat

VARIABLES
  job,        \* the request being planned, or NoJob
  stage,      \* idle, build, solve, extract or answer
  clear,      \* the <<ship, piece>> pairs the ports allow
  plan,       \* the solver's values for the pairs it chose
  toRead,     \* the ships whose itinerary is still to be read
  answer      \* status, total and rows of the result

scheduleVars == <<job, stage, clear, plan, toRead, answer>>

NoJob   == [fleet |-> <<>>]
NoPlan  == [legs |-> {}, next |-> {}, arrive |-> <<>>, start |-> <<>>]
NoAnswer == [status |-> "none", total |-> 0, rows |-> <<>>]

ScheduleInit ==
  /\ job = NoJob /\ stage = "idle" /\ clear = {} /\ plan = NoPlan
  /\ toRead = <<>> /\ answer = NoAnswer

-----------------------------------------------------------------------------
(* The pairs: each ship against each piece of a lot.                       *)
Fleet      == Range(job.fleet)
Ship(s)    == job.ships[s]
Lot(piece) == job.lots[piece[1]]
Pieces     == UNION {{lot} \X job.lots[lot].dests : lot \in DOMAIN job.lots}

\* Both of a piece's ports clear the hull on the day the laycan opens.
PortsClear(s, piece) ==
  \A port \in {Lot(piece).from, piece[2]} :
    VesselCanCall(job.registry, job.legacy, port, Lot(piece).goods,
                  Lot(piece).opens, Ship(s).hull).feasible

Sail(s, a, b) == IF Ship(s).speed > 0 THEN Miles[a][b] \div Ship(s).speed ELSE 0

Handling(port, tonnes) ==
  IF Rate[port] \notin {Unpublished, 0} THEN tonnes \div Rate[port] ELSE DefaultWork

Work(piece) == Handling(Lot(piece).from, Lot(piece).tonnes)
               + Handling(piece[2], Lot(piece).tonnes)

\* Weather on the piece's route, in either direction, when the work starts.
Delay(piece, start) ==
  LET delay(w) == w.delay
  IN  MapThenSumSet(delay, {w \in job.weather : /\ w.ends = {Lot(piece).from, piece[2]}
                                                /\ w.from <= start /\ start <= w.to})

Congested(event, piece, arrive) ==
  /\ event.port = Lot(piece).from
  /\ event.from <= arrive /\ arrive <= event.to

\* What a slower port adds to the work; `pace` is the multiplier in percent.
Slowed(piece, arrive) ==
  LET extra(e) == (Work(piece) * 100) \div e.pace - Work(piece)
  IN  MapThenSumSet(extra, {e \in job.events : Congested(e, piece, arrive) /\ e.pace \in 1 .. 99})

Finish(p, leg) ==
  LET piece == leg[2]
  IN  p.start[leg] + Sail(leg[1], Lot(piece).from, piece[2]) + Delay(piece, p.start[leg])
      + Work(piece) + Slowed(piece, p.arrive[leg])

BadBallast(s, piece, onward) == Sail(s, Lot(piece).from, Lot(onward).from)

Ballast(s, piece, onward) == Sail(s, piece[2], Lot(onward).from)

(***************************************************************************)
(* The constraints.  legs are the chosen pairs, next the moves from one    *)
(* piece of a ship to its following one, arrive and start their hours.     *)
(***************************************************************************)
BadOneShipPerLot(legs) ==
  \A lot \in DOMAIN job.lots : \E leg \in legs : {l \in legs : l[2][1] = lot} = {leg}

OneShipPerLot(legs) ==
  \A a, b \in legs : a[2][1] = b[2][1] => a = b

\* A served pair has one way in and one way out; a ship starts at most once.
IsFirst(p, leg) == ~ \E move \in p.next : move[2] = leg
IsLast(p, leg)  == ~ \E move \in p.next : move[1] = leg

Chained(p) ==
  /\ \A m, n \in p.next : (m[1] = n[1]) <=> (m[2] = n[2])
  /\ \A a, b \in p.legs : /\ a[1] = b[1] /\ IsFirst(p, a) /\ IsFirst(p, b) => a = b
                          /\ a[1] = b[1] /\ IsLast(p, a) /\ IsLast(p, b) => a = b

\* An open pair keeps all its hours at 0, and a port event is asked of it all
\* the same.
Queues(p) ==
  \A s \in Fleet, piece \in Pieces, e \in job.events :
    LET leg    == <<s, piece>>
        served == leg \in p.legs
    IN  Congested(e, piece, IF served THEN p.arrive[leg] ELSE 0)
          => (IF served THEN p.start[leg] - p.arrive[leg] ELSE 0) >= e.wait

LegOnTime(p, leg) ==
  LET s == leg[1]
      piece == leg[2]
  IN  /\ p.start[leg] >= p.arrive[leg]
      /\ p.start[leg] >= Lot(piece).opens
      /\ p.arrive[leg] <= Lot(piece).closes
      /\ Finish(p, leg) <= job.horizon
      /\ IsFirst(p, leg) =>
           p.arrive[leg] >= Ship(s).free + Sail(s, Ship(s).at, Lot(piece).from)

MoveOnTime(p, move) ==
  p.arrive[move[2]] >= Finish(p, move[1]) + Ballast(move[1][1], move[1][2], move[2][2])

OnTime(p) ==
  /\ \A leg \in p.legs : LegOnTime(p, leg)
  /\ \A move \in p.next : MoveOnTime(p, move)
  /\ Queues(p)

\* A lot's revenue is the value of a variable with this bound.
Affordable(legs) == \A leg \in legs : Lot(leg[2]).worth <= ContributionCap

Moves(legs) ==
  {m \in legs \X legs : m[1][1] = m[2][1] /\ m[1][2][1] # m[2][2][1]}

-----------------------------------------------------------------------------
(* The objective: what a pair and a move add to it.                        *)
LegProfit(p, leg) ==
  LET s == leg[1]
      lot == Lot(leg[2])
      port == Work(leg[2]) + Slowed(leg[2], p.arrive[leg])
  IN  lot.worth
      - Miles[lot.from][leg[2][2]] * Ship(s).burn
      - (IF IsFirst(p, leg) THEN Miles[Ship(s).at][lot.from] * Ship(s).burn ELSE 0)
      - Wait[lot.from] * Opex
      - (p.start[leg] - p.arrive[leg]) * Opex
      - Max({0, port - lot.laytime}) * lot.demurrage

MoveProfit(p, move) ==
  LET s == move[1][1]
  IN  - Miles[move[1][2][2]][Lot(move[2][2]).from] * Ship(s).burn
      - (p.arrive[move[2]] - Finish(p, move[1])
           - Ballast(s, move[1][2], move[2][2])) * Opex

Objective(p) ==
  LET leg(l)  == LegProfit(p, l)
      move(m) == MoveProfit(p, m)
  IN  MapThenSumSet(leg, p.legs) + MapThenSumSet(move, p.next)

-----------------------------------------------------------------------------
(* POST /season-plan hands a request over; malformed ones never get here.  *)
AskPlan ==
  /\ stage = "idle"
  /\ job' \in Jobs
  /\ stage' = "build"
  /\ UNCHANGED <<clear, plan, toRead, answer>>

Result(status) == [NoAnswer EXCEPT !.status = status]

NoData ==
  /\ stage = "build" /\ (Fleet = {} \/ DOMAIN job.lots = {})
  /\ answer' = Result("NO_DATA") /\ stage' = "answer"
  /\ UNCHANGED <<job, clear, plan, toRead>>

Build ==
  /\ stage = "build" /\ Fleet # {} /\ DOMAIN job.lots # {}
  /\ clear' = {pair \in Fleet \X Pieces : PortsClear(pair[1], pair[2])}
  /\ stage' = "solve"
  /\ UNCHANGED <<job, plan, toRead, answer>>

Hours == 0 .. job.horizon

Solution(legs, next, arrive, start) ==
  [legs |-> legs, next |-> next, arrive |-> arrive, start |-> start]

\* Some assignment satisfies the model and Use.
SomePlan(Use(_)) ==
  \E legs \in SUBSET clear :
    /\ OneShipPerLot(legs) /\ Affordable(legs)
    /\ \E next \in SUBSET Moves(legs) :
         /\ Chained(Solution(legs, next, <<>>, <<>>))
         /\ \E arrive, start \in [legs -> Hours] :
              /\ OnTime(Solution(legs, next, arrive, start))
              /\ Use(Solution(legs, next, arrive, start))

\* The solver may return any assignment it found before its time ran out.
Solve ==
  /\ stage = "solve"
  /\ SomePlan(LAMBDA p : /\ plan' = p
                         /\ answer' = [Result("SOLVED") EXCEPT !.total = Objective(p)])
  /\ toRead' = job.fleet
  /\ stage' = "extract"
  /\ UNCHANGED <<job, clear>>

\* Not even serving nobody satisfies the model.
Refuse ==
  /\ stage = "solve" /\ ~SomePlan(LAMBDA p : TRUE)
  /\ answer' = Result("INFEASIBLE") /\ stage' = "answer"
  /\ UNCHANGED <<job, clear, plan, toRead>>

OutOfTime ==
  /\ stage = "solve"
  /\ answer' = Result("UNKNOWN") /\ stage' = "answer"
  /\ UNCHANGED <<job, clear, plan, toRead>>

\* The objective's terms for the move that leads to a leg.
BadLinkProfit(leg) == 0

LinkProfit(leg) ==
  LET profit(m) == MoveProfit(plan, m)
  IN  MapThenSumSet(profit, {m \in plan.next : m[2] = leg})

\* A ship's rows, from its first piece along its moves.
Itinerary(s) ==
  LET firsts == {leg \in plan.legs : leg[1] = s /\ IsFirst(plan, leg)}
      After(leg) == {m \in plan.next : m[1] = leg}
      Into(leg)  == {m \in plan.next : m[2] = leg}
      Approach(leg) == IF IsFirst(plan, leg) THEN Sail(s, Ship(s).at, Lot(leg[2]).from)
                       ELSE LET m == CHOOSE m \in Into(leg) : TRUE
                            IN  Ballast(s, m[1][2], leg[2])
      Printed(leg) == [ship |-> s, lot |-> leg[2][1], to |-> leg[2][2],
                       arrive |-> plan.arrive[leg], start |-> plan.start[leg],
                       finish |-> Finish(plan, leg), ballast |-> Approach(leg),
                       profit |-> LegProfit(plan, leg) + LinkProfit(leg)]
      walk[leg \in plan.legs] ==
        <<Printed(leg)>> \o (IF IsLast(plan, leg) THEN <<>>
                          ELSE walk[(CHOOSE m \in After(leg) : TRUE)[2]])
  IN  IF firsts = {} THEN <<>> ELSE walk[CHOOSE leg \in firsts : TRUE]

Extract ==
  /\ stage = "extract" /\ toRead # <<>>
  /\ answer' = [answer EXCEPT !.rows = @ \o Itinerary(Head(toRead))]
  /\ toRead' = Tail(toRead)
  /\ stage' = IF Len(toRead) = 1 THEN "answer" ELSE "extract"
  /\ UNCHANGED <<job, clear, plan>>

DeliverPlan ==
  /\ stage = "answer"
  /\ job' = NoJob /\ clear' = {} /\ plan' = NoPlan /\ answer' = NoAnswer
  /\ stage' = "idle"
  /\ UNCHANGED toRead

ScheduleNext ==
  \/ AskPlan \/ NoData \/ Build \/ Solve \/ Refuse \/ OutOfTime \/ Extract \/ DeliverPlan

-----------------------------------------------------------------------------
(* What the answer says beside the rows (_period_cover_for_plan).          *)
Rows == Range(answer.rows)

Span == IF Rows = {} THEN 0 ELSE Max({row.finish : row \in Rows})

ClassMembers(class) == {s \in Fleet : Ship(s).class = class}

ProfitOf(ships) ==
  LET profit(i) == answer.rows[i].profit
  IN  MapThenSumSet(profit, {i \in DOMAIN answer.rows : answer.rows[i].ship \in ships})

PeriodCover ==
  IF Span = 0 THEN {}
  ELSE {[class |-> class, profit |-> ProfitOf(ClassMembers(class)),
         shipHours |-> Cardinality(ClassMembers(class)) * Span] :
          class \in {Ship(s).class : s \in Fleet}}

-----------------------------------------------------------------------------
(***************************************************************************)
(* Properties                                                              *)
(***************************************************************************)
(* The books of a finished plan balance: the profit announced for the     *)
(* whole fleet is the sum of the rows shown, it is the sum of the shares   *)
(* period cover gives the ship classes, and every lot the solver counted   *)
(* as served has its row.  A closed round of pieces that no ship starts,   *)
(* or a cost kept in the objective and left out of a row, would break it.  *)
BooksBalance ==
  stage = "answer" /\ answer.status = "SOLVED" =>
    /\ answer.total = ProfitOf(Fleet)
    /\ Span > 0 => LET share(c) == c.profit
                   IN  answer.total = MapThenSumSet(share, PeriodCover)
    /\ {row.lot : row \in Rows} = {leg[2][1] : leg \in plan.legs}

(* A plan can be sailed as printed: a lot is carried once, between ports   *)
(* that clear the ship, within its laycan and the horizon, and a ship's    *)
(* rows follow each other with the time each voyage and ballast leg takes, *)
(* starting when and where the ship comes free.                            *)
PlanCanBeSailed ==
  stage = "answer" /\ answer.status = "SOLVED" =>
    \A i, j \in DOMAIN answer.rows :
      LET a == answer.rows[i]
          b == answer.rows[j]
          lot == job.lots[a.lot]
      IN  /\ a.lot = b.lot => i = j
          /\ PortsClear(a.ship, <<a.lot, a.to>>)
          /\ a.arrive <= lot.closes /\ a.start >= lot.opens /\ a.finish <= job.horizon
          /\ a.finish - a.start >= Sail(a.ship, lot.from, a.to) + Work(<<a.lot, a.to>>)
          /\ a.arrive >= Ship(a.ship).free + a.ballast
               \/ \E k \in 1 .. (i - 1) : answer.rows[k].ship = a.ship
          /\ j = i + 1 /\ a.ship = b.ship =>
               /\ b.ballast = Sail(a.ship, a.to, job.lots[b.lot].from)
               /\ b.arrive >= a.finish + b.ballast

(* "Each cargo served by exactly one vessel (or dropped if unprofitable)": *)
(* serving nobody is an answer, so a request has a plan.  The one          *)
(* exception is a port event that asks for a wait and covers the first     *)
(* hour: pairs left open keep their hours at that hour, the wait is asked  *)
(* of them too, and no assignment at all satisfies the model.              *)
AlwaysAPlan ==
  answer.status = "INFEASIBLE" =>
    \E e \in job.events, piece \in Pieces :
      e.port = Lot(piece).from /\ e.from <= 0 /\ 0 <= e.to /\ e.wait > 0

(* What a season plan promises: its books balance, it can be sailed, and   *)
(* it is there.                                                            *)
PlansAreSound == BooksBalance /\ PlanCanBeSailed /\ AlwaysAPlan

(* "No feasible vessel-to-lot pairing survived the port and laycan         *)
(* constraints" is what the season plan says of a lot with revenue that no *)
(* ship carries: a lot that ports and laycans let a ship carry is in some  *)
(* plan.                                                                   *)
OnlyPortsAndLaycansExclude ==
  stage = "solve" /\ job.events = {} =>
    \A leg \in clear :
      LET s == leg[1]
          arrive == Ship(s).free + Sail(s, Ship(s).at, Lot(leg[2]).from)
          start  == Max({arrive, Lot(leg[2]).opens})
          alone  == Solution({leg}, {}, [l \in {leg} |-> arrive], [l \in {leg} |-> start])
      IN  OnTime(alone) => SomePlan(LAMBDA p : leg \in p.legs)
=============================================================================
