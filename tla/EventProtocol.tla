--------------------------- MODULE EventProtocol ---------------------------
(***************************************************************************)
(* What the module docstring of api/stream.py promises a client of         *)
(* POST /v1/query/sql/stream: "Event order: stage (pipeline order) ->      *)
(* summary_delta chunks -> final | error", pings while the queue is        *)
(* silent, and an end after the one terminal event.                        *)
(***************************************************************************)
EXTENDS Integers, Sequences

CONSTANT Stages   \* the stages in pipeline order

VARIABLES
    seen,    \* the stages the client has seen
    phase    \* where the stream stands for its client

protocolVars == <<seen, phase>>

Init == seen = <<>> /\ phase = "stages"

\* The next stage of the pipeline is announced.
Announce ==
    /\ phase = "stages"
    /\ \E n \in DOMAIN Stages : seen' = SubSeq(Stages, 1, n) /\ Len(seen) = n - 1
    /\ UNCHANGED phase

\* A summary follows the last stage only; further deltas leave the phase.
Summarise ==
    /\ phase = "stages" /\ seen = Stages
    /\ phase' = "deltas"
    /\ UNCHANGED seen

\* final or error may come after any stage, or before the first one.
Conclude ==
    /\ phase \in {"stages", "deltas"}
    /\ phase' \in {"final", "error"}
    /\ UNCHANGED seen

\* The stream ends only after its terminal event.
End ==
    /\ phase \in {"final", "error"}
    /\ phase' = "ended"
    /\ UNCHANGED seen

\* The client goes away at any time.
Disconnect ==
    /\ phase \notin {"ended", "gone"}
    /\ phase' = "gone"
    /\ UNCHANGED seen

Next == Announce \/ Summarise \/ Conclude \/ End \/ Disconnect

Spec == Init /\ [][Next]_protocolVars
=============================================================================
