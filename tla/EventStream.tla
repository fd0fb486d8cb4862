---------------------------- MODULE EventStream ----------------------------
(***************************************************************************)
(* POST /v1/query/sql/stream (api/stream.py): a worker thread runs the     *)
(* request and puts events into an unbounded queue, a generator takes them *)
(* out for the client and pings while the queue is silent.  The worker is  *)
(* one thread of SqlPipeline, whose stages it announces; the other threads *)
(* run questions of their own over the same store.                         *)
(*                                                                         *)
(* An event is its name, a stage event the stage's name, and None the      *)
(* sentinel that ends the stream.  A ping changes nothing and is left out. *)
(***************************************************************************)
EXTENDS SqlPipeline

CONSTANTS
    Streamer,    \* the thread that is the worker of the stream
    MaxDeltas    \* bound: word groups of a summary

ASSUME StreamAssumption == Streamer \in Threads /\ MaxDeltas \in Nat

VARIABLES
    worker,      \* where _worker stands, and how many deltas it has left
    outbox,      \* the queue between the two threads
    client,      \* "open", "ended" by the generator, or "gone"
    delivered    \* the events the client was sent

streamVars == <<worker, outbox, client, delivered>>
allVars == <<pipelineVars, streamVars>>

-----------------------------------------------------------------------------

StageEvents == {Stages[i] : i \in DOMAIN Stages}
Events == StageEvents \cup {"summary_delta", "final", "error"}
None == "none"

Workers == [pc : {"running", "deltas", "closing", "done"}, deltas : 0..MaxDeltas]

\* Stages, deltas, an error for an exception behind them, and the sentinel:
\* the most a queue can hold.
MaxEvents == Len(Stages) + MaxDeltas + 2

StreamTypeOK ==
    /\ TypeOK
    /\ worker \in Workers
    /\ outbox \in Seq(Events \cup {None}) /\ Len(outbox) <= MaxEvents
    /\ client \in {"open", "ended", "gone"}
    /\ delivered \in Seq(Events) /\ Len(delivered) <= MaxEvents

StreamInit ==
    /\ Init
    /\ worker = [pc |-> "running", deltas |-> 0]
    /\ outbox = <<>>
    /\ client = "open"
    /\ delivered = <<>>

Put(event) == outbox' = Append(outbox, event)
Running == worker.pc = "running"

-----------------------------------------------------------------------------
(* The worker thread *)

\* Mutant: a stage is announced again with the first one's name.
AnnouncedFirst == Stages[1]

\* on_stage: the stage that is being announced.
Announced == Stages[announced'[Streamer]]

\* A step of the worker's run, with the event of the stage it announces.
PipelineStep ==
    /\ Running
    /\ Begin(Streamer) \/ Step(Streamer)
    /\ IF announced' = announced THEN UNCHANGED outbox ELSE Put(Announced)
    /\ UNCHANGED <<worker, client, delivered>>

\* run_recorded is about to return: it never entered the pipeline, or has
\* its outcome.
Returns == Running /\ (At(Streamer, "idle") \/ At(Streamer, "ended"))

\* A Success envelope.  Only an answer has a summary, of at most MaxDeltas
\* word groups; a greeting and a question back have none.
Succeed ==
    /\ Returns
    /\ \E n \in 0..MaxDeltas :
          /\ n > 0 => run[Streamer].outcome = "success"
          /\ worker' = [pc |-> "deltas", deltas |-> n]
    /\ UNCHANGED <<pipelineVars, outbox, client, delivered>>

\* A Failure envelope.
Fail ==
    /\ Returns /\ run[Streamer].outcome # "success"
    /\ Put("error")
    /\ worker' = [worker EXCEPT !.pc = "closing"]
    /\ UNCHANGED <<pipelineVars, client, delivered>>

PutDelta ==
    /\ worker.pc = "deltas" /\ worker.deltas > 0
    /\ Put("summary_delta")
    /\ worker' = [worker EXCEPT !.deltas = @ - 1]
    /\ UNCHANGED <<pipelineVars, client, delivered>>

PutFinal ==
    /\ worker.pc = "deltas" /\ worker.deltas = 0
    /\ Put("final")
    /\ worker' = [worker EXCEPT !.pc = "closing"]
    /\ UNCHANGED <<pipelineVars, client, delivered>>

\* Mutant: the exception ends the thread before the sentinel.
DieOfException ==
    /\ Returns \/ worker.pc = "deltas"
    /\ Put("error")
    /\ worker' = [worker EXCEPT !.pc = "done"]
    /\ UNCHANGED <<pipelineVars, client, delivered>>

\* An exception that leaves run_recorded, or one of the serialisation of
\* its content, becomes an error event.
CatchException ==
    /\ Returns \/ worker.pc = "deltas"
    /\ Put("error")
    /\ worker' = [worker EXCEPT !.pc = "closing"]
    /\ UNCHANGED <<pipelineVars, client, delivered>>

\* Mutant: the worker does not stop after the sentinel.
CloseAgain ==
    /\ worker.pc = "closing"
    /\ Put(None)
    /\ UNCHANGED <<pipelineVars, worker, client, delivered>>

\* finally: the sentinel is put however the run ended.
Close ==
    /\ worker.pc = "closing"
    /\ Put(None)
    /\ worker' = [worker EXCEPT !.pc = "done"]
    /\ UNCHANGED <<pipelineVars, client, delivered>>

-----------------------------------------------------------------------------
(* The generator, driven by the client *)

\* outbox.get and the yield of one event, or the end at the sentinel.
Take ==
    /\ client = "open" /\ outbox # <<>>
    /\ outbox' = Tail(outbox)
    /\ IF Head(outbox) = None
       THEN client' = "ended" /\ UNCHANGED delivered
       ELSE delivered' = Append(delivered, Head(outbox)) /\ UNCHANGED client
    /\ UNCHANGED <<pipelineVars, worker>>

\* The client disconnects: the generator is closed, the worker runs on and
\* its events stay in the queue.
Disconnect ==
    /\ client = "open"
    /\ client' = "gone"
    /\ UNCHANGED <<pipelineVars, worker, outbox, delivered>>

-----------------------------------------------------------------------------

Work ==
    \/ PipelineStep \/ Succeed \/ Fail \/ PutDelta \/ PutFinal
    \/ CatchException \/ Close

\* The other threads of the service.
OtherStep ==
    /\ \E h \in Threads \ {Streamer} : Begin(h) \/ Step(h) \/ Leave(h)
    /\ UNCHANGED streamVars

StreamNext == Work \/ Take \/ Disconnect \/ OtherStep

StreamSpec == StreamInit /\ [][StreamNext]_allVars

\* The worker thread keeps running (its calls time out), and so does the
\* generator of a connected client.
FairStreamSpec == StreamSpec /\ WF_allVars(Work) /\ WF_allVars(Take)

-----------------------------------------------------------------------------

\* A client that stays connected gets a terminal event and the end of the
\* stream, whatever happens to the pipeline, and a worker whose client has
\* gone still comes to its end.
StreamEnds == <>(client # "open") /\ <>(worker.pc = "done")

\* The client's view, stage by stage, implements the protocol the docstring
\* describes.
Seen == [i \in {k \in DOMAIN delivered : delivered[k] \in StageEvents} |-> delivered[i]]
Phase ==
    IF client # "open" THEN client
    ELSE IF delivered = <<>> \/ delivered[Len(delivered)] \in StageEvents THEN "stages"
    ELSE IF delivered[Len(delivered)] = "summary_delta" THEN "deltas"
    ELSE delivered[Len(delivered)]

Protocol == INSTANCE EventProtocol WITH seen <- Seen, phase <- Phase
ImplementsProtocol == Protocol!Spec
=============================================================================
