------------------------- MODULE ConversationHistory -------------------------
(***************************************************************************)
(* ConversationFlow with history variables: what had been recorded when a  *)
(* request arrived, and whether a failing store took something from it.    *)
(* They observe the flow and never restrict it.                            *)
(***************************************************************************)
EXTENDS ConversationFlow

VARIABLES
    arrived,    \* Len(turns) when the request of each worker arrived
    lost        \* whether a swallowed store failure hit the request

historyVars == <<vars, arrived, lost>>

HistoryInit ==
    /\ Init
    /\ arrived = [w \in Workers |-> 0]
    /\ lost = [w \in Workers |-> FALSE]

\* A failure is swallowed, with an effect that success would not have had.
Swallowed(w) ==
    \/ ResolveOutage(w)
    \/ ContextOutage(w) /\ ~LoadPage(w) /\ ~LoadTurns(w)
    \/ RecordOutage(w)
    \/ SkipMining(w) /\ Mines(w)

HistoryNext ==
    /\ Next
    /\ arrived' = [w \in Workers |->
          IF At(w, "idle") /\ job'[w].pc = "resolve" THEN Len(turns)
          ELSE IF job'[w].pc = "idle" THEN 0 ELSE arrived[w]]
    /\ lost' = [w \in Workers |->
          job'[w].pc # "idle" /\ (lost[w] \/ Swallowed(w))]

HistorySpec == HistoryInit /\ [][HistoryNext]_historyVars

FairHistorySpec == HistorySpec /\ \A w \in Workers : WF_vars(Work(w))

-----------------------------------------------------------------------------

\* conversation_context promises to "Load the session's prior turns": unless
\* the memory store failed under it or the tenant has more sessions than the
\* page list_history returns, every turn of the session that was recorded
\* before the request arrived is in the context the pipeline works with.
ContextSeesPriorTurns ==
    \A w \in Workers :
        (/\ ~lost[w] /\ job[w].session # 0
         /\ job[w].pc \in {"detect", "generate", "record"}
         /\ Cardinality(SessionsOf(job[w].tenant)) <= PageLimit)
            => \A i \in TurnsOf(job[w].session) : i <= arrived[w] => i \in job[w].context

\* A conversation forks only between overlapping requests: when a request
\* is about to record the correction of a turn that has been corrected
\* before, that other correction was recorded after the request arrived.
\* One user at a time therefore never corrects the same turn twice.
ForksOnlyByOverlap ==
    \A w \in Workers :
        (At(w, "record") /\ job[w].previous # 0) =>
            \A i \in 1..Len(turns) : turns[i].supersedes = job[w].previous => i > arrived[w]

\* "Successful in-session correction auto-creates an auto_pending row": a
\* reply of the sync route to a correction was mined, unless a store failed
\* under the request.  (The stream route never mines.)
CorrectionsAreMined ==
    \A w \in Workers :
        (/\ FeedbackCapture /\ ~lost[w] /\ job[w].channel = "sync"
         /\ At(w, "reply") /\ job[w].history # 0 /\ job[w].previous # 0)
            => \E m \in mined : m.history = job[w].history
=============================================================================
