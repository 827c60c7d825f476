----------------------------- MODULE PortOutlook -----------------------------
(***************************************************************************)
(* What a quote expects at the two ends of a voyage.  The marine forecast  *)
(* of src/src/opt/weather_window.py comes over the network through one file*)
(* per port and day priced (one day here), shared by all requests and      *)
(* believed for some hours, and is put together with the cyclone           *)
(* climatology into a delay.  The wait of src/src/opt/congestion.py comes  *)
(* from a file of port calls that the harvesters extend, and is kept for   *)
(* the life of the process; present.py labels it.                          *)
(***************************************************************************)
EXTENDS Integers, Sequences, FiniteSets, FiniteSetsExt, TLC

CONSTANTS
  Askers,        \* threads that price quotes
  OutPorts,      \* the ports
  Situated,      \* the ports with a known coordinate
  Skies,         \* what the service may forecast: per port the rough days
  Horizon,       \* days a forecast covers, from the day it is made
  TicksPerDay,
  Ttl,           \* CACHE_TTL_SECONDS, in ticks
  LastTick,      \* bound on the clock
  Voyages,       \* [from, to, opens, closes, storms], storms the climatology's days
  CallCounts,    \* what the file of a port may gain for a day
  Recent,        \* RECENT_WINDOW_DAYS
  Base,          \* BASELINE_WINDOW_DAYS
  Static,        \* the expected wait in the port table
  LastRow,       \* bound on the length of a file of calls
  Reporting,     \* the ports with a file of calls
  Asks,          \* the ports and days asked about
  AnyDay         \* an as_of that is not given: repositioning and the scheduler give none

ASSUME OutlookAssumption ==
  /\ Horizon \in Nat \ {0} /\ TicksPerDay \in Nat \ {0} /\ Ttl \in Nat
  /\ Recent \in Nat \ {0} /\ Base \in Nat \ {0}

\* A voyage is between two of the ports, a wait is asked for one of them.
ASSUME AskedAssumption ==
  /\ \A v \in Voyages : /\ v.from \in OutPorts /\ v.to \in OutPorts
                         /\ v.opens \in Int /\ v.closes \in Int
  /\ Asks \subseteq OutPorts \X (Nat \cup {AnyDay})

VARIABLES
  clock,         \* ticks of some hours
  sky,           \* the service's forecast: the rough days of each port
  sea,           \* sea[p]: the cached file of p, or NoFile, or Torn
  asker,         \* asker[t]: where thread t stands
  counts,        \* counts[p]: the daily counts in the file of p
  waits,         \* what dynamic_wait_days has answered, per port and day
  wait           \* the last wait answered, or NoWait

seaVars     == <<clock, sky, sea, asker>>
waitVars    == <<counts, waits, wait>>
outlookVars == <<clock, sky, sea, asker, counts, waits, wait>>

NoFile == [kind |-> "none"]
Torn   == [kind |-> "torn"]
NoPayload   == [kind |-> "none"]
Away   == [phase |-> "idle"]
NoWait == <<>>

Today == clock \div TicksPerDay

OutlookInit ==
  /\ clock = 0 /\ sky \in Skies
  /\ sea = [p \in OutPorts |-> NoFile]
  /\ asker = [t \in Askers |-> Away]
  /\ counts = [p \in OutPorts |->
                IF p \in Reporting THEN [i \in 1 .. Recent + Base |-> 2] ELSE <<>>]
  /\ waits = {} /\ wait = NoWait

-----------------------------------------------------------------------------
(* _load_raw: a cached file is read while it is fresh; one that cannot be  *)
(* read counts as absent, and then the service is asked.                   *)
BadFresh(file) == file.kind # "none"           \* mutant: a file never expires

Fresh(file) == file.kind # "none" /\ (file.kind = "torn" \/ clock - file.at < Ttl)

(* A reply tells of every day of the horizon, or has no usable hour        *)
(* (_parse_hourly_heights); both are kept.                                 *)
SeaForecast(p) ==
  [kind |-> "forecast", at |-> clock, from |-> Today, to |-> Today + Horizon - 1, rough |-> sky[p]]

Unusable == [kind |-> "unusable", at |-> clock]

Replies(p) == {SeaForecast(p), Unusable}

(* A port that has its answer leaves the next one to look at.              *)
Got(t, payload) ==
  [asker EXCEPT ![t].got = Append(@, payload), ![t].phase = "look"]

Ends(v) == <<v.from, v.to>>
Port(t) == Ends(asker[t].voyage)[Len(asker[t].got) + 1]

AskOutlook(t) ==
  /\ asker[t] = Away
  /\ \E v \in Voyages :
       asker' = [asker EXCEPT ![t] = [phase |-> "look", voyage |-> v, got |-> <<>>, failed |-> FALSE]]
  /\ UNCHANGED <<clock, sky, sea>>

(* A torn file is fresh by its time and fails to parse.                    *)
BadLook(t) ==                     \* mutant: a file that cannot be read is no forecast
  /\ asker[t].phase = "look" /\ Len(asker[t].got) < 2
  /\ asker' = IF Port(t) \notin Situated THEN Got(t, NoPayload)
              ELSE IF Fresh(sea[Port(t)])
                THEN Got(t, IF sea[Port(t)] = Torn THEN NoPayload ELSE sea[Port(t)])
              ELSE [asker EXCEPT ![t].phase = "fetch"]
  /\ UNCHANGED <<clock, sky, sea>>

Look(t) ==
  /\ asker[t].phase = "look" /\ Len(asker[t].got) < 2
  /\ asker' = IF Port(t) \notin Situated THEN Got(t, NoPayload)
              ELSE IF Fresh(sea[Port(t)]) /\ sea[Port(t)] # Torn THEN Got(t, sea[Port(t)])
              ELSE [asker EXCEPT ![t].phase = "fetch"]
  /\ UNCHANGED <<clock, sky, sea>>

(* The cache's directory is made before anything is looked up, and outside *)
(* the try around the file: where it cannot be made nobody is asked.       *)
DirectoryFails(t) ==
  /\ asker[t].phase = "look" /\ Len(asker[t].got) < 2
  /\ Port(t) \in Situated /\ \A p \in OutPorts : sea[p] = NoFile
  /\ asker' = [Got(t, NoPayload) EXCEPT ![t].failed = TRUE]
  /\ UNCHANGED <<clock, sky, sea>>

(* _fetch_raw never raises: a failure is no forecast.                      *)
FetchFails(t) ==
  /\ asker[t].phase = "fetch"
  /\ asker' = [Got(t, NoPayload) EXCEPT ![t].failed = TRUE]
  /\ UNCHANGED <<clock, sky, sea>>

(* write_text empties the file before it fills it; whatever was answered   *)
(* is kept.                                                                *)
Fetch(t) ==
  /\ asker[t].phase = "fetch"
  /\ sea' = [sea EXCEPT ![Port(t)] = Torn]
  /\ asker' = [asker EXCEPT ![t].phase = "write"]
  /\ UNCHANGED <<clock, sky>>

WriteSea(t) ==
  /\ asker[t].phase = "write"
  /\ \E reply \in Replies(Port(t)) :
       sea' = [sea EXCEPT ![Port(t)] = reply] /\ asker' = Got(t, reply)
  /\ UNCHANGED <<clock, sky>>

(* A disk that refuses the file does not cost the forecast.                *)
WriteFails(t) ==
  /\ asker[t].phase = "fetch"
  /\ \E reply \in Replies(Port(t)) : asker' = Got(t, reply)
  /\ UNCHANGED <<clock, sky, sea>>

-----------------------------------------------------------------------------
(* fetch_marine_window: the part of the forecast within the laycan.        *)
Laycan(v) == v.opens .. v.closes

InLaycan(payload, v) ==
  IF payload.kind # "forecast" THEN {} ELSE (payload.from .. payload.to) \cap Laycan(v)

RoughDays(payload, v) ==
  IF payload.kind # "forecast" THEN 0 ELSE Cardinality(InLaycan(payload, v) \cap payload.rough)

(* transit_buffer: rough days of the worse port, and the climatology for   *)
(* the share of the laycan that the first forecast found does not cover.   *)
(* expected is in parts of the days of the laycan.                         *)
Buffer(v, got) ==
  LET total == Max({Cardinality(Laycan(v)), 1})
      found == {i \in DOMAIN got : InLaycan(got[i], v) # {}}
      covered == IF found = {} THEN 0 ELSE Cardinality(InLaycan(got[Min(found)], v))
      rough == Min({Max({RoughDays(got[i], v) : i \in DOMAIN got}), total})
  IN [covers |-> found # {}, forecast |-> rough, covered |-> covered,
      expected |-> rough * total + v.storms * (total - covered)]

Conclude(t) ==
  /\ asker[t].phase = "look" /\ Len(asker[t].got) = 2
  /\ asker' = [asker EXCEPT ![t].phase = "done"]
  /\ UNCHANGED <<clock, sky, sea>>

Leave(t) ==
  /\ asker[t].phase = "done"
  /\ asker' = [asker EXCEPT ![t] = Away]
  /\ UNCHANGED <<clock, sky, sea>>

(* A request takes seconds and a tick hours: the clock stands meanwhile.   *)
Tick ==
  /\ clock < LastTick /\ \A t \in Askers : asker[t] = Away
  /\ clock' = clock + 1
  /\ sky' \in Skies
  /\ UNCHANGED <<sea, asker>>

SeaNext ==
  \/ Tick
  \/ \E t \in Askers :
       \/ AskOutlook(t) \/ Look(t) \/ DirectoryFails(t) \/ FetchFails(t) \/ Fetch(t)
       \/ WriteSea(t) \/ WriteFails(t) \/ Conclude(t) \/ Leave(t)

-----------------------------------------------------------------------------
(* _real_wait_days, in hundredths: the mean of the last days over that of  *)
(* the days before them, within bounds, times the wait of the port table.  *)
Mean(rows) == (100 * FoldSet(LAMBDA i, sum : sum + rows[i], 0, DOMAIN rows)) \div Len(rows)

RealWait(p, rows) ==
  LET n == Len(rows)
      recent == Mean(SubSeq(rows, n - Recent + 1, n))
      base == Mean(SubSeq(rows, n - Recent - Base + 1, n - Recent))
  IN IF n < Recent + Base THEN [days |-> 100 * Static[p], real |-> FALSE]
     ELSE IF base = 0 THEN [days |-> 100 * Static[p], real |-> FALSE]
     ELSE [days |-> Static[p] * Max({50, Min({300, (100 * recent) \div base})}), real |-> TRUE]

BadKnownBy(p, day) == counts[p]    \* mutant: rows after the day are read

KnownBy(p, day) ==
  IF day = AnyDay THEN counts[p] ELSE SubSeq(counts[p], 1, Min({day, Len(counts[p])}))

(* congestion_label.                                                       *)
Label(p, days) ==
  IF Static[p] = 0 \/ days <= 80 * Static[p] THEN "LOW"
  ELSE IF days >= 130 * Static[p] THEN "HIGH" ELSE "MODERATE"

(* dynamic_wait_days, remembered under the port and the day.               *)
AskWait(p, day) ==
  LET known == {w \in waits : w.port = p /\ w.day = day}
      computed == [port |-> p, day |-> day, of |-> RealWait(p, KnownBy(p, day))]
  IN /\ wait = NoWait
     /\ \E w \in IF known = {} THEN {computed} ELSE known :
          /\ waits' = waits \cup {w}
          /\ wait' = [port |-> p, day |-> day, days |-> w.of.days, real |-> w.of.real,
                      label |-> Label(p, w.of.days)]
     /\ UNCHANGED counts

CloseWait == wait # NoWait /\ wait' = NoWait /\ UNCHANGED <<counts, waits>>

(* The refresh of the market appends a day to a file of calls.             *)
Harvest(p) ==
  /\ wait = NoWait /\ counts[p] # <<>> /\ Len(counts[p]) < LastRow
  /\ \E count \in CallCounts : counts' = [counts EXCEPT ![p] = Append(@, count)]
  /\ UNCHANGED <<waits, wait>>

WaitNext ==
  \/ \E ask \in Asks : AskWait(ask[1], ask[2])
  \/ CloseWait
  \/ \E p \in OutPorts : Harvest(p)

-----------------------------------------------------------------------------
(* Properties.                                                             *)

Done == {t \in Askers : asker[t].phase = "done"}

(* A quote never rests on a sea forecast older than the cache may keep it  *)
(* ("a real 'no forecast for this window,' not a stale or fabricated one"),*)
(* and a reply of no use leaves it without one no longer than that.        *)
SeaIsRecent ==
  \A t \in Done : \A i \in 1 .. 2 :
    asker[t].got[i] # NoPayload => clock - asker[t].got[i].at < Max({Ttl, 1})

(* No forecast is mislaid: whatever other requests do to the shared files, *)
(* a delay is priced without one only when a call of this request or the   *)
(* directory of the cache failed, or at each end the service's last reply, *)
(* as old as the cache may keep it, had no usable hour or does not reach   *)
(* the laycan.                                                             *)
NoForecastIsMislaid ==
  \A t \in Done :
    LET v == asker[t].voyage
        got == asker[t].got
    IN ~Buffer(v, got).covers /\ ~asker[t].failed =>
         \A i \in 1 .. 2 :
           Ends(v)[i] \in Situated =>
             \/ got[i].kind = "unusable"
             \/ \A day \in Laycan(v) :
                  \* an older forecast, still fresh, may reach one day less far
                  day > (clock - Max({Ttl, 1}) + 1) \div TicksPerDay + Horizon - 1 \/ day < Today

(* A wait that is priced as of a past day knows nothing of later port      *)
(* calls, whenever it is asked and whatever was remembered ("needed for a  *)
(* genuinely reproducible historical quote").  What asks without a day, the*)
(* advice on an idle ship's position beside that quote included, is        *)
(* answered from the file's present end and is not promised it.            *)
NothingAfterItsDay ==
  wait # NoWait /\ wait.day # AnyDay /\ wait.real =>
    \E n \in 0 .. Min({wait.day, Len(counts[wait.port])}) :
      RealWait(wait.port, SubSeq(counts[wait.port], 1, n)) = [days |-> wait.days, real |-> TRUE]

(* The outlook of a port is of its time: no forecast too old, none lost    *)
(* between requests, no call later than the day a wait is priced as of.    *)
OutlookIsOfItsTime == SeaIsRecent /\ NoForecastIsMislaid /\ NothingAfterItsDay

(* What a wait without a day promises: "always the file's own most recent  *)
(* real rows" (congestion.py).                                             *)
WaitIsTheFilesOwn ==
  wait # NoWait /\ wait.day = AnyDay =>
    wait.days = RealWait(wait.port, counts[wait.port]).days
=============================================================================
