----------------------------- MODULE StreamDesk -----------------------------
(***************************************************************************)
(* POST /quote/stream and POST /fragility/stream of src/backend/main.py: a *)
(* thread of the desk's pool computes the answer and hands the starts and  *)
(* ends of its stages to the event loop, a worker coroutine adds the       *)
(* verdict, and a generator writes what the queue holds to the client.     *)
(* The threads that wait for a snapshot (SnapshotCache) are of the same    *)
(* pool.                                                                   *)
(*                                                                         *)
(* The event loop runs the callbacks handed to it in their order.  How     *)
(* the framework drops a generator whose client is gone is not the         *)
(* repository's code: it may stop waiting at any moment.                   *)
(***************************************************************************)
EXTENDS SnapshotCache

CONSTANTS
  Streams,
  Pool,          \* how many threads the pool lends at once
  MaxStages      \* bound: stages of one answer

ASSUME StreamAssumption == Pool \in Nat \ {0} /\ MaxStages \in Nat

VARIABLE stream  \* by stream: [kind, gen, client, thread, inside, stages,
                 \*   broken, outcome, ready, queue, told]

deskVars == <<cacheVars, stream>>

NoStream ==
  [kind |-> "none", gen |-> "idle", client |-> FALSE, thread |-> "none",
   inside |-> FALSE, stages |-> 0, broken |-> FALSE, outcome |-> "none",
   ready |-> <<>>, queue |-> <<>>, told |-> <<>>]

DeskInit == CacheInit /\ stream = [s \in Streams |-> NoStream]

Lent ==
  {t \in Threads : ~At(t, "idle")} \cup {s \in Streams : stream[s].thread = "running"}

(* A request for a snapshot is handled by a thread of the pool too.        *)
AskInPool(t) == Cardinality(Lent) < Pool /\ Ask(t)

-----------------------------------------------------------------------------
Open(s) ==
  /\ stream[s].gen = "idle"
  /\ \E kind \in {"quote", "fragility"} :
       stream' = [stream EXCEPT ![s].kind = kind, ![s].gen = "reading", ![s].client = TRUE,
                                ![s].thread = "queued"]

Start(s) ==
  /\ stream[s].thread = "queued" /\ Cardinality(Lent) < Pool
  /\ stream' = [stream EXCEPT ![s].thread = "running"]

(* The thread.  The optimiser's stages run in a context (_stage) that      *)
(* tells of their end when they raise too.  The sweep's stages, and the    *)
(* first of a quote, the loading of the forecast, are told of by two calls *)
(* and have no end if they raise.                                          *)
Running(s) == stream[s].thread = "running"
InContext(s) == stream[s].kind # "fragility" /\ stream[s].stages > 0

BeginStage(s) ==
  /\ Running(s) /\ ~stream[s].inside /\ ~stream[s].broken /\ stream[s].stages < MaxStages
  /\ stream' = [stream EXCEPT ![s].inside = TRUE, ![s].ready = Append(@, "start")]

BadEndStage(s) ==                       \* mutant: no end is told of when a stage raises
  /\ Running(s) /\ stream[s].inside
  /\ \E raised \in BOOLEAN :
       stream' = [stream EXCEPT ![s].inside = FALSE, ![s].broken = raised, ![s].stages = @ + 1,
                                ![s].ready = IF raised THEN @ ELSE Append(@, "done")]

EndStage(s) ==
  /\ Running(s) /\ stream[s].inside
  /\ \E raised \in BOOLEAN :
       stream' = [stream EXCEPT
         ![s].inside = FALSE, ![s].broken = raised, ![s].stages = @ + 1,
         ![s].ready = IF raised /\ ~InContext(s) THEN @ ELSE Append(@, "done")]

EndThread(s) ==
  /\ Running(s) /\ ~stream[s].inside
  /\ \E outcome \in IF stream[s].broken THEN {"error"} ELSE {"result", "error"} :
       stream' = [stream EXCEPT ![s].thread = "over", ![s].outcome = outcome,
                                ![s].ready = Append(@, "ended")]

(* The loop puts an item on the queue, or wakes the worker, which hands    *)
(* over the verdict and, in its finally, the end of the stream.            *)
BadVerdict(s) ==                        \* mutant: only a result is followed by the end
  IF stream[s].outcome = "result" THEN <<"result", "end">> ELSE <<"error">>
Verdict(s) == <<stream[s].outcome, "end">>

Loop(s) ==
  /\ stream[s].ready # <<>>
  /\ LET item == Head(stream[s].ready)
         rest == Tail(stream[s].ready)
     IN stream' = IF item = "ended"
                  THEN [stream EXCEPT ![s].ready = rest \o Verdict(s)]
                  ELSE [stream EXCEPT ![s].ready = rest, ![s].queue = Append(@, item)]

Send(s) ==
  /\ stream[s].gen = "reading" /\ stream[s].queue # <<>>
  /\ LET item == Head(stream[s].queue)
     IN stream' = [stream EXCEPT ![s].queue = Tail(@),
                     ![s].gen = IF item = "end" THEN "ending" ELSE @,
                     ![s].told = IF item = "end" \/ ~stream[s].client THEN @ ELSE Append(@, item)]

(* await task: the worker ends with what it handed over.                   *)
Close(s) ==
  /\ stream[s].gen = "ending"
  /\ stream' = [stream EXCEPT ![s].gen = "closed"]

-----------------------------------------------------------------------------
(* The client goes, and the generator may then be dropped while the thread *)
(* runs, or before it was given one.                                       *)
Leave(s) ==
  /\ stream[s].client
  /\ stream' = [stream EXCEPT ![s].client = FALSE]

Drop(s) ==
  /\ stream[s].gen \in {"reading", "ending"} /\ ~stream[s].client
  /\ stream' = [stream EXCEPT ![s].gen = "closed",
                  ![s].thread = IF @ = "queued" THEN "over" ELSE @]

Forget(s) ==
  /\ stream[s].gen = "closed" /\ stream[s].thread = "over"
  /\ stream' = [stream EXCEPT ![s] = NoStream]

ThreadStep(s) == BeginStage(s) \/ EndStage(s) \/ EndThread(s)
CoroutineStep(s) == Loop(s) \/ Send(s) \/ Close(s)

StreamNext ==
  \E s \in Streams :
    Open(s) \/ Start(s) \/ ThreadStep(s) \/ CoroutineStep(s) \/ Leave(s) \/ Drop(s) \/ Forget(s)

(* The pool lends in the order of asking, and threads and the event loop   *)
(* go on.                                                                  *)
StreamFairness ==
  \A s \in Streams :
    /\ SF_stream(Start(s)) /\ WF_stream(ThreadStep(s))
    /\ WF_stream(Loop(s)) /\ WF_stream(Send(s)) /\ WF_stream(Close(s))

-----------------------------------------------------------------------------
(* Properties.                                                             *)

CountOf(s, item) == Cardinality({i \in DOMAIN stream[s].told : stream[s].told[i] = item})

(* A client that stays is told of the stages, from start to end, and then  *)
(* one verdict, that of the thread, and nothing after it, whatever the     *)
(* order in which thread, loop and generator move.  Only a stage that      *)
(* raised may have no end, and only right before the error: one of a       *)
(* sweep, or the first of a quote.                                         *)
StreamTellsOneVerdict ==
  \A s \in Streams :
    LET told == stream[s].told
    IN /\ \A i \in DOMAIN told : told[i] \in {"result", "error"} => i = Len(told)
       /\ stream[s].gen = "closed" /\ stream[s].client =>
            /\ told # <<>> /\ told[Len(told)] = stream[s].outcome
            /\ \/ CountOf(s, "start") = CountOf(s, "done")
               \/ /\ CountOf(s, "start") = CountOf(s, "done") + 1
                  /\ stream[s].outcome = "error" /\ told[Len(told) - 1] = "start"
                  /\ stream[s].kind = "fragility" \/ Len(told) = 2

(* "One stage event per pipeline step as it starts and finishes": it does  *)
(* not hold of a step that raises outside a context.                       *)
StagesComeInPairs ==
  \A s \in Streams :
    stream[s].gen = "closed" /\ stream[s].client => CountOf(s, "start") = CountOf(s, "done")

(* Every stream that was opened is closed, though all threads of the pool  *)
(* wait for a snapshot and though the computation fails.                   *)
EveryStreamEnds ==
  \A s \in Streams : (stream[s].gen = "reading") ~> (stream[s].gen = "closed")
=============================================================================
