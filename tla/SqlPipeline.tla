---------------------------- MODULE SqlPipeline ----------------------------
(***************************************************************************)
(* _run_sql_flow (agent/pipeline.py), the stages S5-S13 that turn a        *)
(* question into an answer, run by many threads over the configured store  *)
(* (database/factory.py): a ClickHouseStore, whose dialect is fixed, or a  *)
(* PostgresStore, whose dialect is probed on first use.                    *)
(*                                                                         *)
(* A run announces each stage before it does the stage's work.  Texts are  *)
(* abstracted: a statement is what the validator asks of it; the dialects  *)
(* are ClickHouse's, and PostgreSQL's with and without TimescaleDB.  Key   *)
(* resolution and assume-first are the subject of QuestionStages.          *)
(***************************************************************************)
EXTENDS Naturals, Sequences

CONSTANTS
    Threads,
    Outages      \* whether database and LLM calls may fail

ASSUME PipelineAssumption == Outages \in BOOLEAN

VARIABLES
    database,      \* what the store's database speaks; no step changes it
    pinned,        \* the dialect of the store: PostgresStore._timescale
    run,           \* the run of each thread
    announced,     \* how many stages each run has announced
    probe_failed   \* history: whether a failing probe was taken for a "no"

storeVars == <<database, pinned, probe_failed>>
pipelineVars == <<storeVars, run, announced>>

-----------------------------------------------------------------------------

Stages == <<"retrieving", "generating", "validating", "executing", "summarizing">>

Dialects == {"clickhouse", "plain", "timescale"}

\* How a run may end: QuerySuccess, QueryRejected, QueryExecutionFailed, or
\* an exception for the boundary of the handler.
Outcomes == {"none", "success", "rejected", "failed", "raised"}

\* `prompt` is the dialect the prompt was built with, `parser` the one the
\* generated SQL was validated with.
Runs == [pc : {"idle", "knowledge", "digest", "examples", "dialect", "probe", "generate",
               "validate", "execute", "summarize", "ended"},
         prompt : Dialects \cup {"unknown"}, parser : Dialects \cup {"unknown"},
         outcome : Outcomes]

NoRun == [pc |-> "idle", prompt |-> "unknown", parser |-> "unknown", outcome |-> "none"]

TypeOK ==
    /\ database \in Dialects
    /\ pinned \in Dialects \cup {"unknown"}
    /\ run \in [Threads -> Runs]
    /\ announced \in [Threads -> 0..Len(Stages)]
    /\ probe_failed \in BOOLEAN

\* build_telemetry_store: a ClickHouseStore has its dialect from the start.
DialectOf(db) == IF db = "clickhouse" THEN db ELSE "unknown"

Init ==
    /\ database \in Dialects
    /\ pinned = DialectOf(database)
    /\ run = [h \in Threads |-> NoRun]
    /\ announced = [h \in Threads |-> 0]
    /\ probe_failed = FALSE

At(h, step) == run[h].pc = step
Goto(h, step) == run' = [run EXCEPT ![h].pc = step]
End(h, outcome) == run' = [run EXCEPT ![h].pc = "ended", ![h].outcome = outcome]

\* LLMError: no key, a transport error, a status other than 200, or an
\* unusable payload.
LLMRaises(h) == Outages /\ End(h, "raised")

\* observe(STAGE_...)
Observe(h) == announced' = [announced EXCEPT ![h] = @ + 1]

-----------------------------------------------------------------------------

\* A question enters: the first stage is announced before anything is read.
Begin(h) ==
    /\ At(h, "idle")
    /\ Goto(h, "knowledge")
    /\ Observe(h)
    /\ UNCHANGED storeVars

\* knowledge.load raises for a tenant without knowledge, and in an outage.
LoadKnowledge(h) ==
    /\ At(h, "knowledge")
    /\ Goto(h, "digest") \/ End(h, "raised")
    /\ UNCHANGED <<storeVars, announced>>

\* The digest of a long session is an LLM call.
Digest(h) ==
    /\ At(h, "digest")
    /\ Goto(h, "examples") \/ LLMRaises(h)
    /\ UNCHANGED <<storeVars, announced>>

\* Semantic retrieval falls back to keywords whatever happens to it.
RetrieveExamples(h) ==
    /\ At(h, "examples")
    /\ Goto(h, "dialect")
    /\ UNCHANGED <<storeVars, announced>>

\* Mutant: the default is pinned before the probe has answered.
StartProbeAssumingPlain(h) ==
    /\ At(h, "dialect") /\ pinned = "unknown"
    /\ Goto(h, "probe")
    /\ pinned' = "plain"
    /\ UNCHANGED <<database, probe_failed, announced>>

\* PostgresStore.dialect, nothing pinned yet: the thread asks the database.
\* Nothing keeps a second thread from asking, too.
StartProbe(h) ==
    /\ At(h, "dialect") /\ pinned = "unknown"
    /\ Goto(h, "probe")
    /\ UNCHANGED <<storeVars, announced>>

\* Mutant: the extension is taken for granted when the query fails.
FailedProbeOptimistic == "timescale"

\* _probe_timescale: "success and row_count > 0", so a failed query is a no.
FailedProbe == "plain"

\* The answer is pinned, over one that another thread pinned meanwhile, and
\* what is pinned is read again.
EndProbe(h) ==
    /\ At(h, "probe")
    /\ \/ pinned' = database /\ UNCHANGED probe_failed
       \/ Outages /\ pinned' = FailedProbe /\ probe_failed' = TRUE
    /\ Goto(h, "dialect")
    /\ UNCHANGED <<database, announced>>

\* PostgresStore.dialect, pinned: the prompt is built for it, and the next
\* stage begins.
BuildPrompt(h) ==
    /\ At(h, "dialect") /\ pinned # "unknown"
    /\ run' = [run EXCEPT ![h].pc = "generate", ![h].prompt = pinned]
    /\ Observe(h)
    /\ UNCHANGED storeVars

\* SQLGenerator.generate, and the stage after it: an answer without a
\* fenced statement raises, too.
Generate(h) ==
    /\ At(h, "generate")
    /\ \/ Goto(h, "validate") /\ Observe(h)
       \/ (End(h, "raised") \/ LLMRaises(h)) /\ UNCHANGED announced
    /\ UNCHANGED storeVars

\* What the validator sees of the generated text: 0 statements stands for a
\* text that does not parse; `tables` are own (or a CTE's name), another
\* plain name, or a qualified one.
Statements ==
    [statements : 0..2, root : {"query", "other"}, mutates : BOOLEAN,
     denied_function : BOOLEAN, tables : SUBSET {"own", "other", "qualified"},
     ctes : {0, 5, 6}]

\* SQLValidator._hard_errors reports nothing.
Valid(s) ==
    /\ s.statements = 1
    /\ s.root = "query"
    /\ ~s.mutates
    /\ ~s.denied_function
    /\ s.tables \subseteq {"own"}
    /\ s.ctes <= 5

\* validate, under the dialect the store has now.
Validate(h) ==
    /\ At(h, "validate")
    /\ \E s \in Statements :
          /\ run' = [run EXCEPT ![h].pc = IF Valid(s) THEN "execute" ELSE "ended",
                                ![h].parser = pinned,
                                ![h].outcome = IF Valid(s) THEN "none" ELSE "rejected"]
          /\ IF Valid(s) THEN Observe(h) ELSE UNCHANGED announced
    /\ UNCHANGED storeVars

\* execute turns the driver's own errors into a result (psycopg: operational
\* and programming errors), and lets others pass (a DataError, or a row of
\* another length than the header, say).
Execute(h) ==
    /\ At(h, "execute")
    /\ \/ Goto(h, "summarize") /\ Observe(h)
       \/ (End(h, "failed") \/ End(h, "raised")) /\ UNCHANGED announced
    /\ UNCHANGED storeVars

\* Summarizer.summarize: no rows need no LLM.
Summarize(h) ==
    /\ At(h, "summarize")
    /\ End(h, "success") \/ LLMRaises(h)
    /\ UNCHANGED <<storeVars, announced>>

\* The caller takes the outcome.
Leave(h) ==
    /\ At(h, "ended")
    /\ run' = [run EXCEPT ![h] = NoRun]
    /\ announced' = [announced EXCEPT ![h] = 0]
    /\ UNCHANGED storeVars

-----------------------------------------------------------------------------

\* The steps of a run once it has begun.
Step(h) ==
    \/ LoadKnowledge(h) \/ Digest(h) \/ RetrieveExamples(h)
    \/ StartProbe(h) \/ EndProbe(h) \/ BuildPrompt(h)
    \/ Generate(h) \/ Validate(h) \/ Execute(h) \/ Summarize(h)

Next == \E h \in Threads : Begin(h) \/ Step(h) \/ Leave(h)

Spec == Init /\ [][Next]_pipelineVars

-----------------------------------------------------------------------------

\* What is pinned, and what a prompt was built for, is what the database
\* offers, however the probes of several threads overlap; only a failing
\* probe makes the store forget an extension, and none invents one.
DialectIsHonest ==
    \A dialect \in {pinned} \cup {run[h].prompt : h \in Threads} :
        \/ dialect \in {"unknown", database}
        \/ probe_failed /\ dialect = "plain" /\ database = "timescale"

\* A query is validated under the dialect its prompt asked for, although
\* the store is asked twice and other threads probe in between.  Only a
\* failing probe that is taken for a "no" may come between.
OneDialectPerQuery ==
    \A h \in Threads :
        run[h].parser # "unknown" => run[h].parser = run[h].prompt \/ probe_failed
=============================================================================
