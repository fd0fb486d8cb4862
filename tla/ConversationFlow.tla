-------------------------- MODULE ConversationFlow --------------------------
(***************************************************************************)
(* The conversational request flow behind POST /v1/query/sql, /v1/query    *)
(* and /v1/query/sql/stream: run_recorded (api/query.py) with the session  *)
(* handling of api/flow.py, the front matter of agent/pipeline.py, the     *)
(* correction detector of agent/correction.py and the PostgreSQL memory    *)
(* store of memory/pg.py.                                                  *)
(*                                                                         *)
(* The handlers are synchronous functions in a thread pool, and every      *)
(* query of the memory store is a connection and a transaction of its own  *)
(* (knowledge/pg.py): several workers interleave between any two queries.  *)
(* A worker runs one request at a time; `job[w].pc` is where it stands.    *)
(*                                                                         *)
(* Sessions are numbered in created_at order and turns in id order, 0      *)
(* standing for the None of the code.  The text of questions, SQL, rows    *)
(* and summaries is abstracted: a message is its class for the detector,   *)
(* and the SQL of a turn is named by the turn's id.  The stages from key   *)
(* resolution to summary are one step with a nondeterministic outcome.     *)
(***************************************************************************)
EXTENDS Naturals, Sequences, FiniteSets

CONSTANTS
    Workers,          \* threads of the pool that runs the handlers
    Tenants,
    None,             \* the tenant of an idle worker
    Channels,         \* routes in use: subset of {"sync", "stream"}
    CorrectionLoop,   \* flags.correction_loop
    FeedbackCapture,  \* flags.feedback_capture
    PageLimit,        \* the limit of list_history (100 in the code)
    Outages,          \* whether the metadata database may fail
    MaxSessions,      \* bound: sessions created in one behaviour
    MaxTurns          \* bound: turns recorded in one behaviour

ASSUME FlowAssumption ==
    /\ None \notin Tenants
    /\ Channels \subseteq {"sync", "stream"}
    /\ {CorrectionLoop, FeedbackCapture, Outages} \subseteq BOOLEAN
    /\ PageLimit \in Nat
    /\ MaxSessions \in Nat
    /\ MaxTurns \in Nat

VARIABLES
    sessions,       \* llm_sessions: the tenant of each session
    turns,          \* llm_sql_history: append-only, the index is the id
    mined,          \* auto_pending rows of query_feedback
    job             \* the request each worker runs, with its local state

vars == <<sessions, turns, mined, job>>

-----------------------------------------------------------------------------

\* How a message looks to is_greeting and to the trigger and guard words.
Messages == {"greeting", "fresh", "complaint", "guarded"}

\* The reply's errorType, or the kind of Success envelope.
Statuses == {"none", "answered", "greeting", "clarified", "INVALID_SESSION",
             "SQL_VALIDATION_FAILED", "EXECUTION_FAILED",
             "TENANT_NOT_ONBOARDED", "GENERATION_FAILED",
             "PIPELINE_UNAVAILABLE", "unhandled"}

Steps == {"idle", "resolve", "page", "turns", "detect", "generate",
          "record", "mine", "reply"}

SessionIds == 1..MaxSessions
UnknownSession == MaxSessions + 1    \* stands for a UUID absent from llm_sessions
MalformedSession == MaxSessions + 2  \* stands for a text that is no UUID

Jobs == [pc : Steps, tenant : Tenants \cup {None}, channel : {"sync", "stream"},
         given : 0..MalformedSession, msg : Messages, session : 0..MaxSessions,
         context : SUBSET (1..MaxTurns), previous : 0..MaxTurns,
         history : 0..MaxTurns, status : Statuses]

NoJob == [pc |-> "idle", tenant |-> None, channel |-> "sync", given |-> 0,
          msg |-> "greeting", session |-> 0, context |-> {}, previous |-> 0,
          history |-> 0, status |-> "none"]

Turns == [tenant : Tenants, session : SessionIds, supersedes : 0..MaxTurns]
MinedRows == [tenant : Tenants, history : 1..MaxTurns, decays : 1..MaxTurns]

TypeOK ==
    /\ sessions \in Seq(Tenants) /\ Len(sessions) <= MaxSessions
    /\ turns \in Seq(Turns) /\ Len(turns) <= MaxTurns
    /\ mined \subseteq MinedRows
    /\ job \in [Workers -> Jobs]

Init ==
    /\ sessions = <<>>
    /\ turns = <<>>
    /\ mined = {}
    /\ job = [w \in Workers |-> NoJob]

-----------------------------------------------------------------------------

At(w, step) == job[w].pc = step
Goto(w, step) == job' = [job EXCEPT ![w].pc = step]

\* A reply without a recorded turn; the request's locals are dropped.
Reply(w, status) ==
    job' = [job EXCEPT ![w] = [NoJob EXCEPT !.pc = "reply", !.status = status]]

\* The reply of an answered request, with the history id it carries.
Answer(w) == job' = [job EXCEPT ![w].pc = "reply", ![w].status = "answered"]

\* A request arrives: the client names no session, one it was given, one
\* that does not exist, or no session id at all.
Receive(w) ==
    /\ At(w, "idle")
    /\ \E t \in Tenants, c \in Channels, m \in Messages,
         g \in 0..Len(sessions) \cup {UnknownSession, MalformedSession} :
          job' = [job EXCEPT ![w] =
                    [NoJob EXCEPT !.pc = "resolve", !.tenant = t, !.channel = c,
                                  !.given = g, !.msg = m]]
    /\ UNCHANGED <<sessions, turns, mined>>

\* Mutant: the tenant of the given session is not compared.
KnownSession(w) == job[w].given \in 1..Len(sessions)

\* Mutant: the session is not looked up at all.
AnySession(w) == job[w].given # 0

\* fetch_session finds the given session and it belongs to the tenant.
OwnSession(w) ==
    job[w].given \in 1..Len(sessions) /\ sessions[job[w].given] = job[w].tenant

\* resolve_session, a session id given: unknown and foreign ids are refused.
ResolveGiven(w) ==
    /\ At(w, "resolve") /\ job[w].given \notin {0, MalformedSession}
    /\ IF OwnSession(w)
       THEN job' = [job EXCEPT ![w].pc = "page", ![w].session = job[w].given,
                               ![w].given = 0]
       ELSE Reply(w, "INVALID_SESSION")
    /\ UNCHANGED <<sessions, turns, mined>>

\* resolve_session, no session id: a new session is created.
CreateSession(w) ==
    /\ At(w, "resolve") /\ job[w].given = 0
    /\ Len(sessions) < MaxSessions
    /\ sessions' = Append(sessions, job[w].tenant)
    /\ job' = [job EXCEPT ![w].pc = "page", ![w].session = Len(sessions) + 1]
    /\ UNCHANGED <<turns, mined>>

\* resolve_session swallows a failing memory store, whether or not the
\* session row was committed before the connection broke.  The UUID column
\* refuses a malformed id with an error, too: it ends here and not in a
\* refusal.
ResolveOutage(w) ==
    /\ At(w, "resolve")
    /\ Outages \/ job[w].given = MalformedSession
    /\ \/ UNCHANGED sessions
       \/ /\ job[w].given = 0 /\ Len(sessions) < MaxSessions
          /\ sessions' = Append(sessions, job[w].tenant)
    /\ job' = [job EXCEPT ![w].pc = "detect", ![w].given = 0]
    /\ UNCHANGED <<turns, mined>>

SessionsOf(t) == {s \in 1..Len(sessions) : sessions[s] = t}

\* Mutant: the page holds one session less.
ShortPage(t) ==
    {s \in SessionsOf(t) : Cardinality({n \in SessionsOf(t) : n > s}) + 1 < PageLimit}

\* The tenant's newest PageLimit sessions.
Page(t) ==
    {s \in SessionsOf(t) : Cardinality({n \in SessionsOf(t) : n > s}) < PageLimit}

\* list_history, first query: only a session on the page gets a context.
LoadPage(w) ==
    /\ At(w, "page")
    /\ Goto(w, IF job[w].session \in Page(job[w].tenant) THEN "turns" ELSE "detect")
    /\ UNCHANGED <<sessions, turns, mined>>

\* Mutant: the turns of every session on the page are taken together.
TurnsOfAll(s) == {i \in 1..Len(turns) : s = s}

TurnsOf(s) == {i \in 1..Len(turns) : turns[i].session = s}

\* list_history, second query, and the pick of the session's own turns.
LoadTurns(w) ==
    /\ At(w, "turns")
    /\ job' = [job EXCEPT ![w].pc = "detect", ![w].context = TurnsOf(job[w].session)]
    /\ UNCHANGED <<sessions, turns, mined>>

\* Mutant: the load is retried without a limit.
ContextRetry(w) ==
    /\ Outages /\ (At(w, "page") \/ At(w, "turns"))
    /\ Goto(w, "page")
    /\ UNCHANGED <<sessions, turns, mined>>

\* conversation_context swallows a failing memory store: no context.
ContextOutage(w) ==
    /\ Outages /\ (At(w, "page") \/ At(w, "turns"))
    /\ Goto(w, "detect")
    /\ UNCHANGED <<sessions, turns, mined>>

-----------------------------------------------------------------------------

\* Mutant: the turns come newest first.
IsOldest(context, i) == i \in context /\ \A j \in context : i <= j

\* ConversationContext.latest, of turns in id order
IsLatest(context, i) == i \in context /\ \A j \in context : j <= i

\* S1 runs only with the flag on and a conversation that has a turn.
ChecksCorrection(w) == CorrectionLoop /\ job[w].context # {}

\* Mutant: no cap, a correction is corrected again.
VerdictsUncapped(msg, previous) ==
    IF msg = "fresh" THEN {"not"}
    ELSE IF msg = "complaint" /\ previous # 0 THEN {"correction"}
    ELSE {"correction", "not"}

\* CorrectionDetector.detect: what it may decide about the latest turn.
Verdicts(msg, previous) ==
    IF msg = "fresh" THEN {"not"}
    ELSE IF turns[previous].supersedes # 0 THEN {"clarify"}
    ELSE IF msg = "complaint" THEN {"correction"}
    ELSE {"correction", "not"}

\* _pipeline_failure: what an exception of the pipeline becomes.  An
\* exception without a text has no first line to report.
Failures == {"TENANT_NOT_ONBOARDED", "GENERATION_FAILED",
             "PIPELINE_UNAVAILABLE", "unhandled"}

\* Enter _run_sql_flow, for a fresh question (0) or to repair a turn.  The
\* message's class matters no more.
Pipeline(w, previous) ==
    job' = [job EXCEPT ![w].pc = "generate", ![w].previous = previous,
                       ![w].msg = NoJob.msg]

\* S0: a greeting is answered without any SQL work.
Greet(w) ==
    /\ At(w, "detect") /\ job[w].msg = "greeting"
    /\ Reply(w, "greeting")
    /\ UNCHANGED <<sessions, turns, mined>>

\* S1 skipped: nothing to correct, or the loop is off.
SkipDetection(w) ==
    /\ At(w, "detect") /\ job[w].msg # "greeting"
    /\ ~ChecksCorrection(w)
    /\ Pipeline(w, 0)
    /\ UNCHANGED <<sessions, turns, mined>>

\* S1: repair the latest turn, ask back, or fall through to a fresh query.
Detect(w) ==
    /\ At(w, "detect") /\ job[w].msg # "greeting"
    /\ ChecksCorrection(w)
    /\ \E i \in job[w].context :
          /\ IsLatest(job[w].context, i)
          /\ \E verdict \in Verdicts(job[w].msg, i) :
                CASE verdict = "not"        -> Pipeline(w, 0)
                  [] verdict = "clarify"    -> Reply(w, "clarified")
                  [] verdict = "correction" -> Pipeline(w, i)
    /\ UNCHANGED <<sessions, turns, mined>>

\* The classifier call for a guarded message raises.
ClassifierFails(w) ==
    /\ At(w, "detect") /\ job[w].msg = "guarded"
    /\ ChecksCorrection(w)
    /\ \E i \in job[w].context :
          IsLatest(job[w].context, i) /\ turns[i].supersedes = 0
    /\ \E failure \in Failures \ {"TENANT_NOT_ONBOARDED"} : Reply(w, failure)
    /\ UNCHANGED <<sessions, turns, mined>>

\* _run_sql_flow succeeds; a repaired answer supersedes the previous turn.
Generate(w) ==
    /\ At(w, "generate")
    /\ Goto(w, "record")
    /\ UNCHANGED <<sessions, turns, mined>>

\* _run_sql_flow is rejected or fails at the store: inside a correction
\* that becomes a clarifying question.
GenerateFails(w) ==
    /\ At(w, "generate")
    /\ \E failure \in {"SQL_VALIDATION_FAILED", "EXECUTION_FAILED"} :
          Reply(w, IF job[w].previous # 0 THEN "clarified" ELSE failure)
    /\ UNCHANGED <<sessions, turns, mined>>

\* A dependency of the pipeline raises.
GenerateRaises(w) ==
    /\ At(w, "generate")
    /\ \E failure \in Failures : Reply(w, failure)
    /\ UNCHANGED <<sessions, turns, mined>>

-----------------------------------------------------------------------------

NewTurn(w) == [tenant |-> job[w].tenant, session |-> job[w].session,
               supersedes |-> job[w].previous]

\* Mutant: the id is read before the row is inserted.
RecordTurnEarlyId(w) ==
    /\ At(w, "record") /\ job[w].session # 0
    /\ Len(turns) < MaxTurns
    /\ turns' = Append(turns, NewTurn(w))
    /\ job' = [job EXCEPT ![w].pc = "mine", ![w].history = Len(turns)]
    /\ UNCHANGED <<sessions, mined>>

\* record_turn: the answered turn is appended to its session.
RecordTurn(w) ==
    /\ At(w, "record") /\ job[w].session # 0
    /\ Len(turns) < MaxTurns
    /\ turns' = Append(turns, NewTurn(w))
    /\ job' = [job EXCEPT ![w].pc = "mine", ![w].history = Len(turns) + 1]
    /\ UNCHANGED <<sessions, mined>>

\* record_turn without a session records nothing.
RecordNothing(w) ==
    /\ At(w, "record") /\ job[w].session = 0
    /\ Goto(w, "mine")
    /\ UNCHANGED <<sessions, turns, mined>>

\* record_turn swallows a failing memory store; the row may be there.
RecordOutage(w) ==
    /\ Outages /\ At(w, "record") /\ job[w].session # 0
    /\ \/ UNCHANGED turns
       \/ Len(turns) < MaxTurns /\ turns' = Append(turns, NewTurn(w))
    /\ Goto(w, "mine")
    /\ UNCHANGED <<sessions, mined>>

\* Mutant: the id of the very first turn is taken for no id.
MinesLater(w) ==
    /\ FeedbackCapture /\ job[w].channel = "sync"
    /\ job[w].previous > 1
    /\ job[w].history # 0

\* The guards of _mine_correction and after_correction.  The stream worker
\* runs run_recorded without a feedback store.
Mines(w) ==
    /\ FeedbackCapture /\ job[w].channel = "sync"
    /\ job[w].previous # 0
    /\ job[w].history # 0

\* Mutant: the previous SQL is read again after the turn was recorded.
MinedRowReloaded(w, i) ==
    LET others == TurnsOf(job[w].session) \ {job[w].history} IN
    [tenant |-> job[w].tenant, history |-> job[w].history,
     decays |-> CHOOSE j \in others : \A k \in others : k <= j]

\* The row after_correction inserts, with the turn whose SQL it decays:
\* the latest turn of the context loaded before the pipeline ran.
MinedRow(w, i) == [tenant |-> job[w].tenant, history |-> job[w].history, decays |-> i]

\* _mine_correction inserts the auto_pending row and hands the superseded
\* SQL to the decay.
Mine(w) ==
    /\ At(w, "mine") /\ Mines(w)
    /\ \E i \in job[w].context :
          IsLatest(job[w].context, i) /\ mined' = mined \cup {MinedRow(w, i)}
    /\ Answer(w)
    /\ UNCHANGED <<sessions, turns>>

\* Nothing to mine, or mining fails and is swallowed.
SkipMining(w) ==
    /\ At(w, "mine") /\ (Outages \/ ~Mines(w))
    /\ Answer(w)
    /\ UNCHANGED <<sessions, turns, mined>>

\* The reply leaves and the worker is free again.
Deliver(w) ==
    /\ At(w, "reply")
    /\ job' = [job EXCEPT ![w] = NoJob]
    /\ UNCHANGED <<sessions, turns, mined>>

-----------------------------------------------------------------------------

\* The steps of the program, as opposed to the client's.
Work(w) ==
    \/ ResolveGiven(w) \/ CreateSession(w) \/ ResolveOutage(w)
    \/ LoadPage(w) \/ LoadTurns(w) \/ ContextOutage(w)
    \/ Greet(w) \/ SkipDetection(w) \/ Detect(w) \/ ClassifierFails(w)
    \/ Generate(w) \/ GenerateFails(w) \/ GenerateRaises(w)
    \/ RecordTurn(w) \/ RecordNothing(w) \/ RecordOutage(w)
    \/ Mine(w) \/ SkipMining(w) \/ Deliver(w)

Next == \E w \in Workers : Receive(w) \/ Work(w)

Spec == Init /\ [][Next]_vars

\* A thread that has a request keeps running: its calls return or raise
\* (connect_timeout, the statement timeout, the LLM client's timeouts).
FairSpec == Spec /\ \A w \in Workers : WF_vars(Work(w))

-----------------------------------------------------------------------------
(* Safety *)

\* A turn that supersedes another one corrects an earlier turn of the same
\* session and the same tenant, so that a session's history can be read
\* with its full lineage (append_turn is given previous.id of a context
\* loaded several transactions before).
LineageInSession ==
    \A i \in 1..Len(turns) :
        turns[i].supersedes # 0 =>
            /\ turns[i].supersedes < i
            /\ turns[turns[i].supersedes].session = turns[i].session
            /\ turns[turns[i].supersedes].tenant = turns[i].tenant

\* The one-regeneration cap of CorrectionDetector.detect, as the history
\* shows it: an answer that is itself a correction is never superseded.
CorrectionsAreFinal ==
    \A i \in 1..Len(turns) :
        turns[i].supersedes # 0 => turns[turns[i].supersedes].supersedes = 0

\* Tenants never mix: a turn lies in a session of its own tenant, and the
\* context a request works with holds turns of the request's tenant only.
TenantIsolation ==
    /\ \A i \in 1..Len(turns) : sessions[turns[i].session] = turns[i].tenant
    /\ \A w \in Workers : \A i \in job[w].context :
          turns[i].tenant = job[w].tenant /\ turns[i].session = job[w].session

\* A mined row points at a recorded correction of its own tenant, and the
\* SQL it hands to the decay is that of the very turn the correction
\* supersedes, whatever other requests of the session did meanwhile.
MinedFromLineage ==
    \A m \in mined :
        /\ m.history <= Len(turns)
        /\ turns[m.history].tenant = m.tenant
        /\ turns[m.history].supersedes = m.decays

\* The history id a reply carries is that of the turn this request
\* recorded, and only an answered request carries one.
ReceiptIsOwn ==
    \A w \in Workers :
        (At(w, "reply") /\ job[w].history # 0) =>
            /\ job[w].status = "answered"
            /\ turns[job[w].history] = NewTurn(w)
            /\ \A v \in Workers \ {w} : job[v].history # job[w].history

-----------------------------------------------------------------------------
(* Liveness and refinement *)

\* Every accepted request is eventually answered, whatever memory, the
\* feedback store or the pipeline do meanwhile.
EveryRequestAnswered ==
    \A w \in Workers : (job[w].pc = "resolve") ~> (job[w].pc = "idle")

\* The flow implements the log a reader of the history is promised: every
\* step of a worker appends one well-formed entry or leaves the log alone.
Log == INSTANCE ConversationLog
ImplementsLog == Log!Spec
=============================================================================
