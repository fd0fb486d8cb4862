# A TLA+ model of Ctxora

Ctxora answers plain-English questions about telemetry: a question is routed,
turned into SQL by an LLM, validated, executed, summarised and recorded; users
correct answers in the conversation, corrections feed a review queue, and
approved pairs become examples for later prompts. This directory models the
service's state and concurrency in TLA+, checks the models with TLC on small
instances, and proves the most important results with TLAPS for all instances.

All paths below are relative to `src/`.

## 1. The system

FastAPI runs the handlers, which are plain `def` functions, in a thread pool.
Every query on the metadata database opens a connection, runs one statement and
commits (`knowledge/pg.py`, `database/metadata.py`): **one query is one
transaction**, and nothing in the program spans two of them. That is the grain
of atomicity of every module here: a handler is a chain of steps, and other
threads interleave between any two.

| part | state it keeps | operations | talks to |
|---|---|---|---|
| request flow (`api/query.py`, `api/flow.py`, `agent/pipeline.py`) | the locals of a request | resolve session, load context, detect a correction, run the pipeline, record, mine | memory, pipeline, feedback |
| correction detector (`agent/correction.py`) | none | `detect`, with a cap of one regeneration | LLM |
| conversation memory (`memory/`) | `llm_sessions`, `llm_sql_history` | `create_session`, `fetch_session`, `append_turn`, `list_history` | metadata DB |
| SQL stages (`agent/`) | the locals of a run | retrieve, generate, validate, execute, summarise | knowledge, LLM, telemetry store |
| question stages (`agent/followup.py`, `key_resolver.py`, `assume_first.py`) | none; read the history and the knowledge | rewrite a follow-up, find the keys, state what is assumed | knowledge |
| telemetry stores (`database/factory.py`, `clickhouse_store.py`, `postgres_store.py`) | PostgreSQL: the pinned answer of the TimescaleDB probe | `dialect`, `execute`, introspection | telemetry DB |
| knowledge store (`knowledge/store.py`) | class-level cache with TTL and capacity, one in each worker process | `load`, `invalidate_cache` | metadata DB |
| feedback flywheel (`feedback/`, `api/feedback*.py`) | `query_feedback`, `sql_agent_sql_examples` | capture, mine, decay, approve, reject, batch | metadata DB, LLM, knowledge cache |
| rate limiter (`api/ratelimit.py`) | one token bucket per tenant, a lock | `admit` | clock |
| gate and unified route (`api/query.py`, `routing/`, `api/auth/`) | locals | authenticate, admit, check activation, classify, dispatch | limiter, onboarding, RAG, pipeline |
| document ingestion (`rag/`, `api/documents.py`) | `rag_documents`, `rag_chunks` | upload, list, delete | metadata DB, LLM |
| SSE stream (`api/stream.py`) | a queue and a worker thread per request | worker, generator | request flow |
| onboarding (`onboarding/`, `api/onboarding.py`) | candidates, registry, aliases, activation, the saved probe | stage, promote, activate, probe | metadata DB, knowledge cache |
| the rest | none, or read-only | prompt text, titles, rendering, health, settings | |

### What is hard in it

* **Interleavings between transactions.** `supersedes_id` is computed from a
  context loaded several transactions before the turn is appended; approve and
  reject check a status and set it later by id alone; an upload looks a hash up
  twice and inserts later; a cold load reads section after section while write
  paths change them.
* **Values read outside a lock.** The limiter samples its clock before it takes
  its lock; the cache is filled with what was read before a lock was taken.
* **Partial failure.** A chain of transactions stops anywhere. Memory failures
  are swallowed on purpose, so that a request goes on with less; write paths
  are not rolled back.
* **Two threads and a queue** behind one streamed response.
* **Several processes.** The image starts gunicorn with two workers, retires each
  after a thousand requests, and every process has a cache of its own.
* **Words.** Aliases nest and overlap; a follow-up is rewritten from the
  conversation before its keys are looked up, with knowledge loaded twice.
* **Limits.** The page of 100 sessions, the page of pending feedback, the cache
  of 100 tenants, the burst of a bucket.

Crashes: the service has no recovery code, and the volatile state that outlives a
request is the cache, the buckets and the pinned dialect. `KnowledgeFleet`
restarts the process at any point and loses the cache. For the tables, a crash in the middle of a handler is the
`...Outage`, `Abort` or `Fails` action at that place followed by nothing.

## 2. The modules

| module | models | extends / composes |
|---|---|---|
| `ConversationFlow` | `run_recorded` for any number of workers | |
| `ConversationLog` | what the conversation memory promises a reader | implemented by `ConversationFlow` |
| `ConversationHistory` | history variables over `ConversationFlow` | extends it |
| `ConversationFlowProofs` | theorems about the flow and its history | extends `ConversationHistory` |
| `KnowledgeCache` | the cache, its loads and the write paths behind it | |
| `KnowledgeFleet` | one process among others: foreign writes, restarts, time | extends `KnowledgeCache` |
| `KnowledgeFleetProofs` | theorems about the cache and the fleet | extends `KnowledgeFleet` |
| `FeedbackFlywheel` | the feedback tables and everybody who writes them | |
| `FeedbackFlywheelProofs` | its theorems | extends `FeedbackFlywheel` |
| `RateLimiter` | `admit` from many threads | |
| `QueryGate` | gate, activation, routing; the limiter is the real one | extends `RateLimiter` |
| `QueryGateProofs` | theorems about the limiter and the gate, which implements it | extends `QueryGate` |
| `QuestionStages` | follow-up, key resolution, assume-first over a conversation | |
| `QuestionStagesProofs` | theorems about the resolver's loop and the stages | extends `QuestionStages` |
| `SqlPipeline` | `_run_sql_flow` in many threads over one store | |
| `EventStream` | worker, queue, generator; the worker is a thread of `SqlPipeline` | extends `SqlPipeline` |
| `EventStreamProofs` | theorems about pipeline and stream, which implements `EventProtocol` | extends `EventStream` |
| `EventProtocol` | the event order a streaming client is promised | implemented by `EventStream` |
| `DocumentIngest` | chunking, upload and deletion of documents | |
| `DocumentIngestProofs` | its theorems | extends `DocumentIngest` |
| `OnboardingWizard` | probe, staging and promotion of candidates | |
| `OnboardingWizardProofs` | its theorems | extends `OnboardingWizard` |
| `MC*` | instances of the above for TLC | |

### Correspondence, component by component

**ConversationFlow.** `sessions` and `turns` are the two memory tables in id
order; `mined` holds the `auto_pending` rows; `job[w]` is the stack frame of one
`run_recorded` call and `job[w].pc` the query it stands before. `resolve_session`
is `ResolveGiven`, `CreateSession` and `ResolveOutage`; `conversation_context`
with `list_history`'s two queries is `LoadPage`, `LoadTurns` and `ContextOutage`;
`run_query`'s front matter is `Greet`, `SkipDetection`, `Detect` and
`ClassifierFails`; the stages behind it are one step here (`Generate`,
`GenerateFails`, `GenerateRaises`), because `SqlPipeline` takes them apart;
`record_turn` and `_mine_correction` follow. A message is the class the trigger
and guard words put it in; the SQL of a turn is named by the turn's id, so that
"which SQL is decayed" is a question about ids. Every `...Outage` action may
have committed its row before the connection broke.

**KnowledgeCache.** A section of a tenant's knowledge is a version number, bumped
by every write. `Lookup` is the first critical section of `load` and the expiry
check; `ReadKeys`, `ReadAliases` and `ReadExamples` are the separate queries of
`_cold_load`; `Install` is the second critical section with its eviction. The
write paths are `PromoteKey`/`PromoteAlias`, `ApproveExample` and
`DecayExample`, and `Invalidate` and `WriteAborts` are how they end. The history flag
`excused` marks copies that a write overtook in a way no invalidation repairs.

**KnowledgeFleet** is the same process seen among the others. What another
process writes is `ForeignWrite`: the tables change, and this process hears
nothing of it. `Restart` is a worker retired or killed: requests break off, the
cache is empty, rows stay. `FleetTick` ages the entries and the loads under way;
`sinceWrite` and `loading` are history. `Step`, everything `KnowledgeCache` does
but let time pass, is taken over as it is.

**QuestionStages.** A question is a sequence of words, an alias too, and a match
is a run of whole words. `Rewritten` is `resolve_followup` with `LastEntity` and
`LastMetric` over the history of questions as they were asked; `AliasHits`, which
lets the phrases of `ByLength` `Claim` one after the other, is the loop of
`KeyResolver.resolve`; `Assumed` is `assume_first` and
`DefaultAggregation` its helper, over what `_cold_load` made of the aggregation
column (`Loaded`). `FollowUp` and `Resolve` each load the knowledge, and
`Relearn` may change it in between. `Correct` is the path of a correction, which
takes the LLM's wording of the question and skips the follow-up stage.

**FeedbackFlywheel.** One tenant. `rows` and `examples` are the two tables, one
actor is one request inside `approve`, `reject`, `auto_promote_positive` or
`after_correction`; `ApproveGet`, `ApproveUpsert` and `ApproveMark` are the three
transactions of `approve`. `torn` is a history variable: the rows whose approval
broke off between upsert and mark, or overlapped a rejection.

**RateLimiter** counts tokens in sixtieths, so that a refill per second is the
integer `requests_per_minute`. `Sample` reads the clock outside the lock and
`Admit` is the critical section. `opened`, `granted` and `rewound` are history.
**QueryGate** runs `_gate` over it: `AskLimiter`, `AdmitRequest`, `TakeVerdict`,
`CheckActive`; then `ClassifyQuestion`, `AnswerFromDocuments` and `RunSql`.
`flags.ratelimit` is taken to be on. A failing activation check lets the
request through, as the code does.

**SqlPipeline** announces each stage and then does its work, as `observe` does. A
statement is a record of what the validator asks of it, and `Valid` is
`_hard_errors`. The store is either adapter (`DialectOf` is the factory): a
`ClickHouseStore` knows its dialect, and `pinned` is `PostgresStore._timescale`
otherwise; the probe may run in several threads at once, and the dialect is read
again for the validator.
**EventStream** adds the worker's event queue and the generator. Keep-alive
pings are left out.

**DocumentIngest.** The chunker is arithmetic: `_split` starts a piece at every
multiple of `Step` before the end of a section, and a piece has up to `ChunkSize`
words (`PiecesOf`, `WordsOf`); `Chunks` is `chunk_pages`. `LookupHash`,
`SaveLookup`, `InsertDocument` and one
`InsertChunk` per chunk are the transactions of an upload. The `UNIQUE` and the
foreign key of `rag/schema.sql` are `Insertable` and `ReferencesDocument`; the
cascade is `Cascade`. `broken` remembers documents whose upload broke off.

**OnboardingWizard.** `ReadCandidate`, `WriteRegistry`, `WriteAlias` and
`MarkCandidate` are the four transactions of `promote_candidate`; `StageNext` is
one insert of `stage_suggestions`. A probe is `ProbeKeys`, `ProbeEvents` and
`SaveProbe`; `Introspect` gives the three ends of a query of the telemetry store:
its rows, the empty list that both adapters make of a failure they expect, and an
exception.

### Abstract specifications

* `ConversationLog`: an append-only log in which a turn answers a fresh question
  or corrects one earlier, uncorrecting turn of its own session. The refinement
  mapping is the identity on `sessions` and `turns`; the flow's threads, outages
  and mined rows are stutters. Checked (`ImplementsLog`) and proved
  (`FlowImplementsLog`). The log does **not** promise that a turn is corrected
  once: two overlapping requests may fork it (`ForksOnlyByOverlap`).
* `EventProtocol`: "stage (pipeline order) -> summary_delta chunks -> final |
  error", one terminal event, then the end. The mapping takes the stages out of
  what was delivered (`Seen`) and the phase from the last event (`Phase`).
  Checked (`ImplementsProtocol`) and proved (`StreamImplementsProtocol`).

## 3. The runs

`tlc -config X.cfg M`. Symmetry is used only in runs without liveness.

| run | instance | what it shows |
|---|---|---|
| `conversation_flow` | 2 workers, 2 tenants, 2 sessions, 3 turns, page of 2, outages | Corrections stay in session and tenant, are never corrected again, are mined under the id and SQL their lineage names; a receipt names the request's own turn; the flow implements the log. |
| `conversation_history` | 2 workers on both routes, 1 tenant, 1 session, 2 turns, outages, fairness | A request sees all turns recorded before it arrived, conversations fork between overlapping requests only, the sync route mines what it corrected, and every request is answered. |
| `knowledge_fleet` | 2 tenants, 2 loads of up to 1 tick, 1 writer, capacity 1, TTL 2, foreign writes, restarts, outages | The cache is bounded under concurrent installs; staleness has one of the causes the code leaves open, and no other; it ends with the TTL and one load, whoever wrote. |
| `feedback_flywheel` | 2 actors, 2 questions, 2 SQL texts, 2 rows, outages | Approved rows have an example, provenance is exact, and a rejected pair is taught only after a broken or overlapping approval. |
| `query_gate` | 2 threads, 2 tenants, burst 1, 45 per minute, 2 s of clock | Grants are accounted for when calls overtake each other; a request that runs was charged, and to the tenant it runs for; the announced wait suffices. |
| `document_ingest` | 2 uploaders, 2 tenants, a file of two sections (4 and 1 words in pieces of 3 with an overlap of 1) and one without text, 3 documents, outages, deletions | "stored" is a true receipt: every word is in a chunk; a listed count lies only where an upload is under way or broke off; a tenant has one document per file. |
| `event_stream` | 1 stream, 1 other thread, 2 deltas, outages, fairness | The client sees a run of the protocol; its stream ends, and so does the worker when the client has gone; a query is written and validated in one honest dialect unless a probe failed. |
| `onboarding_wizard` | 2 admins, 2 keys, 2 aliases, 3 candidates, probes, outages | An alias leads to a registered key and an approved candidate is known, wherever promotions break off. |
| `question_stages` | 9 questions and a complaint, 3 knowledge bases with nested, overlapping, unregistered and doubled aliases, 2 turns | No mention of a metric is overlooked; longer aliases win where they apply; a follow-up finds the metric last discussed. |
| `knowledge_cache_race` | 1 load, 1 writer, no outages | *Violation.* Finding 1 below. |
| `question_defaults` | as `question_stages` | *Violation.* Finding 2 below. |
| `onboarding_probe_outage` | 1 admin, 1 candidate, outages | *Violation.* Finding 3 below. |

**Why these bounds.** Each is the least at which the case it is for happens. Two
threads suffice for every race named in section 1, all of which are between two
parties. Three turns give a correction, a second correction of the same turn and
an attempt to correct a correction; two sessions of two tenants give foreign
session ids. Capacity 1 with two tenants and two loads makes every install an
eviction. Two feedback rows with one question give overwritten examples, and
with two questions an example that another row's decay does not match. Burst 1
with 45 a minute makes a denied caller wait for a non-integral number of
seconds, the case the rounding is for; two seconds of clock let one call be
overtaken and refilled. Three documents let an upload follow a deletion while another one
is stuck. Four words in pieces of three with an overlap of one give a full piece, an overlap and
a short piece. Three candidates include two keys with one alias. One tick for a load under a TTL of two
makes a copy that is older than its entry, and every section of one tenant changes
once, which is enough for each mixture of old and new sections. The questions
have an alias inside a longer one, one across the end of another, one repeated
inside and outside a longer one, a pronoun that is also a time word, a
follow-up with an entity and one with a pronoun; two turns let a metric and an
entity come from different ones.

**Bounds in guards**: `MaxSessions`, `MaxTurns`, `MaxWrites`, `MaxRows`,
`MaxLoad`, `MaxClock`, `MaxDocuments`, `MaxCandidates` and `MaxDeltas` cap counters of one
behaviour. A request that meets a full table can still fail, so the bounds make
no deadlock; all runs check for deadlock.

**Fairness.** Weak fairness per thread on the steps of a request that has begun
(`Work`), never on the arrival of requests or on failures as
such. The code justifies it: handlers are straight-line code without waiting
loops; connections time out after 5 s, telemetry statements after
`query_timeout_s`, LLM calls after httpx's timeouts. Statements on the metadata
database have no timeout of their own: there the assumption is that the server
answers or the connection breaks. `WF(Take)` assumes that a connected client
reads.

## 4. What is proved

Eight modules hold proofs. The theorems hold for every value of the constants
that the named assumptions allow (`FlowAssumption`, `CacheAssumption`,
`FleetAssumption`, `LimiterAssumption`, `GateAssumption`, `IngestAssumption`,
`WizardAssumption`, `FlywheelAssumption`, `PipelineAssumption`,
`StreamAssumption`, `StagesAssumption`): any number of threads, tenants, rows
and any interleaving. TLC evaluates the assumptions in the runs. Sets of threads
may be infinite, except in `QueryGate`, whose proof counts them. Each invariant
is proved from an inductive strengthening, by one lemma for each action or kind
of action.

**ConversationFlowProofs.** What a turn becomes depends on what a worker carried
through several transactions. `IInv` is `TypeOK` with `LogInv` (each turn is
`WellFormed`: its session is of its tenant, and what it supersedes is an earlier,
uncorrecting turn of the same session), `JobsInv` (each job is `Sound`: its
session is its tenant's, its context holds turns of that session, its previous
turn is in the context and no correction, and its history id is the turn it
recorded) and `MinedInv`. Because the tables only grow, `Growth` keeps `Sound`
for the workers that do not move; that is why a context that is out of date
still yields a sound correction. Proved: `TypeCorrect`, `LineageCorrect`,
`CapCorrect`, `IsolationCorrect`, `MiningCorrect`, and the refinement
`FlowImplementsLog`.

`Receipts` adds that a worker holds the id of a turn from recording to delivery
only, and that no two workers hold the same one (`ReceiptCorrect`). About
`HistorySpec`, `HInv` carries the arrival of each request through the flow: a
context that is not empty is whole up to the arrival (`PriorOK`); a turn the
request is going to correct was corrected only by requests that overlap it
(`Forkless`: an earlier correction would stand behind that turn in the context,
which would not be the latest then); and what a correction owes to
the review queue (`MinedOK`). That a page of sessions is full is an argument
about the cardinality of the tenant's sessions. Proved: `PriorTurnsAreSeen`,
`ForksOverlap`, `CorrectionsReachReview`.

`Ahead` counts the steps a request has before it, at most eight.
`RequestsMakeHeadway`: while a request is under way, a step of its own worker lowers
that count, and no other worker touches it. This is the safety half
of `EveryRequestAnswered`: with the fairness of the worker, a request can fail
to be answered only by standing still, never by going round.

**KnowledgeFleetProofs.** Of the cache, `IInv` is `TypeOK`, `CacheBounded` with the finiteness of
the set of cached tenants (`Tenants` itself may be infinite, and a cardinality
means nothing then), `StaleOnlyIfExcused` and the same statement about a load
under way: each section it has read so far is the table's, or the read is
excused, or a write path is still to invalidate. An install passes the reader's
excuse on to the entry. Proved: `CacheTypeCorrect`, `CacheIsBounded` (eviction
before each install makes room for one, whoever else installs) and
`StalenessIsExcused`.

Of the process among others, that `IInv` and its step lemma are taken over (`FleetTypeCorrect`, `FleetCacheIsBounded`,
`FleetStalenessIsExcused`), and the bound that needs no excuse is added. `LoadFresh`
says that what a load has read is what the tables hold, or they changed since
it began; `EntryFresh` that an entry in use equals the tables, or they changed
within its age and `MaxLoad`. An install turns the first into the second, and an entry is in
use only up to the TTL, so that nothing older than `TTL + MaxLoad` is served
(`StalenessIsBounded`): the one promise about staleness that holds against other
processes, overtaken invalidations and writes without one.

**QueryGateProofs.** Of the limiter, `AccountInv` says that what was granted and what is left is
at most the burst plus the refill for the bucket's life plus the time set back
(`GrantsAreAccounted`). `ClockAhead` (no bucket and no sampled moment is
ahead of the clock) turns this into the budget in real time for buckets that
were never set back (`BudgetHoldsInOrder`). `WaitIsEnough` is the arithmetic of
the rounded wait (`RetryAfterIsHonest`).

Of the gate, `GateIsClient`: a step of the gate is a step of the limiter
or leaves its variables alone. Hence `GateImplementsLimiter`, and behind the gate
the limiter's theorems hold. `Accounted` is the account of one tenant: what was
used, plus the requests that hold a grant they have not used (`Pending`), is at
most what was granted. A grant adds one to both sides, `TakeVerdict` keeps the
request pending under the other of its two names, and every way out of pending,
the refusal of an inactive tenant included, counts as used. Proved:
`GateTypeCorrect`, `EveryServiceIsPaid`, `OnlyActiveTenantsRun` (through
`AtGate`: a request remembers if it ever met its tenant active).

**DocumentIngestProofs.** `Coverage` is the arithmetic of the chunker: the piece
that starts last before a word holds it, for every size and overlap; with it a document
with all its chunks holds all its words (`CompleteIsReadable`). The invariant
follows an upload: the chunks written so far are in the table as long as its document is.
Proved: `IngestTypeCorrect`, `ReceiptsAreComplete`, `ListedCountsAreTrue`, and
`OneDocumentPerHash`, which rests on the `UNIQUE` constraint alone because two lookups
in two transactions decide nothing.

**OnboardingWizardProofs.** `PromotionOK` is the progress of a promotion: its
candidate is queued, then its key is registered, then its alias is taken by a
key staged with it (`AliasesAreStaged`). The registry only grows and an alias,
once taken, stays taken, which makes the progress of one admin immune to the
others. Proved: `WizardTypeCorrect`, `AliasesLeadToKeys`, `ApprovalsAreKnown`.

**FeedbackFlywheelProofs.** `Taught` and `Traced` say that an approved row has an
example and that an example names the row whose question and SQL it holds;
`JobsOK` gives each request the rows and examples it is about to touch. The
delicate part is the rejected row. `ReadHolds`: between its read and its mark, a request's row
has the status it read or is torn; `OverlapsAreTorn`: approval and rejection under
way on one row tear it; `Covered`: the row behind an approved example is
approved, about to be marked, or torn. Proved: `FlywheelTypeCorrect`,
`ApprovalsAreTaught`, `ProvenanceIsTrue`, `RejectionsHold`.

**EventStreamProofs.** Of the pipeline, `Counted` ties the place of a run to the
number of stages it has announced, `Dialected` says what a run may know of the
dialect at each place, and `StoreOK` that what is pinned is honest; that a probe
has failed is remembered, which is all the excuse the two theorems need
(`DialectsAreHonest`, `QueriesKeepTheirDialect`). `StreamIsRun`: whatever the
stream does is a step of the pipeline or leaves it alone (`StreamRunsPipeline`).
`SentOK` bounds what was put so far by the place of the worker, hence the queue
(`StreamTypeCorrect`). For the protocol, `Log` follows all events that were put,
those sent and those still queued, as one sequence: first the stages announced, then
deltas, and those only behind all five, then one terminal event and the
sentinel. The client is at some position of that sequence (`Shapes`), and each
event it takes is the protocol's next step (`StreamImplementsProtocol`).

`WorkLeft` counts the steps of the worker's thread, at most `14 + MaxDeltas`. The
only way back is from a probe to the place where the dialect is looked up, and a probe,
failed or not, leaves something pinned, so that it is not taken twice; other threads
can pin but not unpin. Hence `WorkerMakesHeadway`: each step of the worker lowers
the count and nothing else raises it. `SentinelAwaitsClient`: a generator whose
queue is empty has a worker that has not finished. Together they are the safety
half of `StreamEnds`.

**QuestionStagesProofs.** `KeyResolver.resolve` sorts the aliases and lets one
after the other claim a mention, so what it returns is a recursive function over the
sorted aliases. The library's induction theorems cannot be used here (they take
an operator as a parameter), so the module brings its own induction, with a set
in place of the predicate: a set of naturals has a least member because subsets of
finite sets are well-founded (`LeastNatural`, `SetInduction`), and a function defined by
recursion exists because it does for every initial part (`RecursionExists`).
`ByLengthSorts`: `LongerFirst` is a strict total order, hence the rank of a
phrase is one-to-one, hence by cardinality each rank is taken and the sorted
aliases are the phrases, each once, longest first. The induction then says that after
`n` turns the hits are mentions of registered aliases that share no word, and that
each of the first `n` phrases was taken or gave way, at each of its mentions, to a
phrase at least as long (`ClaimExtends` is one turn). Proved for every text and
every alias table: `AliasHitsFair`.

`StagesInv` follows the question through the stages: what `FollowUp` left is
`Rewritten` by what it loaded (`Completed`), and what `Resolve` left is
`AliasHits` of that text by what it loaded (`Matched`), however often the tenant's knowledge
changes before, between and after. `RewrittenMentions` is why a follow-up
ends with a mention: the metric that is carried over is a phrase of the
same knowledge, and putting an entity in a pronoun's place comes before the question
is searched for a metric. Proved: `StagesInvariant`, `MentionsAreHeard`,
`LongestWins`, `FollowUpsFindMetric`, `KeysAreUsable` (a key in the prompt is
registered, so the lookup of its aggregation cannot fail, and listed once).
`StagesAssumption` says that words are strings, that phrases are not empty and have a
length, and that no phrase overlaps itself: otherwise `re.finditer`, whose matches
never overlap, would find fewer mentions than there are runs of words.

**Model-checked only.**

* Liveness (`EveryRequestAnswered`, `StreamEnds`): fairness and `ENABLED` are out of
  the prover's reach. That neither can go round for ever is proved
  (`RequestsMakeHeadway`, `WorkerMakesHeadway`); that a fair worker does not
  stand still is checked.
* What S3 adds to a question (`Assumed`): no run states an invariant
  of it that holds, see the finding about the configured defaults.

No module declares a `RECURSIVE` operator.

## 5. Findings

Three runs show the code doing other than its own documentation says.

1. **Invalidation is overtaken by a load** (`WritesVisible`,
   `knowledge/store.py:163`). A load that read the tables before a write installs
   its snapshot after the write's `invalidate_cache`. The blueprint says changes
   "are visible immediately"; they may be invisible for a TTL.
2. **A configured default aggregation is never consulted**
   (`ConfiguredDefaultApplies`, `knowledge/store.py:191`). `_cold_load` makes
   "average" of an aggregation that is not given, so `default_aggregation`
   always finds one in the registry and no glob of `aggregation_defaults` is
   tried. Its sort (`agent/assume_first.py:34`) would also try `*` before the globs the
   docstring puts first.
3. **A probe of a store that is down succeeds** (`OutageIsTyped`,
   `database/clickhouse_store.py:91`, `database/postgres_store.py:129`). The
   adapters answer a failed introspection with an empty list, so the route
   answers "probe complete" and saves the empty lists, over an earlier good
   probe too. The route's comment says "store outage -> typed 503".

Other things met while modelling, which the models contain and the properties
name or excuse where they touch them:

* Two uploads of one file may both pass both lookups. The table keeps one row
  (`OneDocumentPerFile`); the loser's `INSERT` raises through the handler, where
  `save_document` documents `None` (`rag/store.py:50`).
* A second key promoted with an alias that is taken succeeds without it
  (`onboarding/wizard.py:97`, `DO NOTHING`): `ApprovedIsKnown` says "or a key that
  got there first".
* Resolved keys come in the order of alias length, not "in order of first
  appearance" (`agent/key_resolver.py:25`). Each alias is taken once, so that where the
  longer of two nested aliases occurs twice, its second occurrence may yield the
  shorter one. An unregistered longer alias claims nothing.
* The pronoun "this" takes the place of a time word: "and this week" is rewritten
  as if it named a device (`agent/followup.py`).
* `reject` and `approve` overlap: each sets the status by id without checking it
  again (`feedback/promotion.py:59`, `:78`), so a rejected row may end approved and
  taught. `RejectedIsNeverTaught` excuses exactly the rows in `torn`.
* An approval that breaks off leaves a taught example behind a pending row; its later
  rejection does not remove the example (same property, same excuse).
* `_decay` writes the example table without invalidating the cache
  (`feedback/hooks.py:60`), and demotes by an id it listed earlier, which
  may have been approved again meanwhile.
* A batch narrows its page of 100 pending rows to positive ones afterwards, so that
  100 newer negative rows hide all positive ones (`feedback/promotion.py:86`).
* A cached snapshot may mix sections of different moments (`knowledge/store.py:172`),
  and an expired entry is not served when the database is down.
* A correction that fails is not recorded, so the cap of one regeneration
  (`agent/correction.py:91`) counts recorded repairs only.
* The stream route passes no feedback store: its corrections are never mined. It
  calls neither the limiter nor the activation check, so the theorems about the gate do
  not speak of it.
* A session beyond the tenant's newest 100 has no context (`memory/pg.py:125`).
* The question of a mined row is the complaint's text, not the question it
  corrects (`api/query.py:210`).
* `str(exc).splitlines()[0]` fails for an exception without a text
  (`api/query.py:139`): "unhandled" among `Failures`.
* A call overtaken between clock and lock sets `last_refill` back, and those
  seconds are refilled twice (`api/ratelimit.py:40`): `rewound`.
* A document whose upload broke off stays listed with its full count, and its
  hash answers every repetition as a duplicate (`rag/ingest.py:46`). The duplicate answer is
  also given while the first upload is still writing chunks.
* The settings accept a `chunk_size` of zero or less and a negative overlap, under which words are
  lost; `IngestAssumption` excludes both, as `LimiterAssumption` excludes a rate or a
  burst of zero.
* A probe that fails is pinned as "no TimescaleDB" for the life of the process, even
  over a successful one (`database/postgres_store.py:56`). The probe asks for an
  extension named `timescale`; the extension's own name is `timescaledb`. The
  model's `database` is therefore what the probe's query finds.

## 6. What is not modelled

* **Texts**: prompts, SQL beyond what the validator asks of it, the cast the validator writes into a
  statement, digests, titles, rendering, the naming of candidates.
* **Read-only routes**: history, statistics, readiness, review lists, health, and the
  routes of `api/rag.py`, which are stateless around calls modelled elsewhere.
* **Usage counters** of examples and caches, and test hooks.
* **Token verification and the admin token**, which belong to a library and to
  one comparison.
* **Processes side by side**: only the knowledge cache, whose promise depends on
  it, is composed with other processes. Buckets and the pinned dialect are one
  per process; the theorems speak of the budget of a tenant at one process, and a
  tenant has such a budget at each.
* **Float rounding** of the limiter, and the reported number of remaining tokens.
* **I/O and wiring**: the metadata access and the LLM client (their failures are
  outcomes of the handlers), settings, composition root.
* The in-memory doubles (`*/fake.py`), the demo and the deployment files, which
  are not part of the running service.

## 7. Plan

Done, in this order: conversation flow with log and proofs, knowledge cache with
proofs, limiter with proofs, gate, flywheel, ingestion, pipeline and stream,
onboarding; then the fleet, the question stages, the chunker, the probe and the
ClickHouse adapter; then the proofs of fleet, gate, ingestion, onboarding and
flywheel, of the conversation's history, and of pipeline and stream with the
refinement of `EventProtocol`; then the proofs of the question stages and of the
headway of workers and streams. Every invariant and every refinement the
passing runs check is now a theorem.

What would come next:

1. a reference definition of `Assumed` apart from the configured defaults, and a
   theorem about it;
2. the components of section 6 keep no state that another component
   relies on, and would be modelled when they do.
