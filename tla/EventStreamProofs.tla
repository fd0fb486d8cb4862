------------------------- MODULE EventStreamProofs -------------------------
(***************************************************************************)
(* Proofs about SqlPipeline and EventStream: the store never claims a      *)
(* dialect its database does not have, a query is written and validated in *)
(* one dialect unless a probe failed, however many threads probe, the      *)
(* queue of a stream is bounded by what one run can announce, and the      *)
(* client sees a run of EventProtocol.  For that the proof follows the     *)
(* events of a stream, sent or still queued, as one sequence.  The last    *)
(* part is what the end of a stream rests on besides fairness: the worker  *)
(* has a bounded number of steps, and leaves the sentinel behind.          *)
(***************************************************************************)
EXTENDS EventStream, TLAPS

-----------------------------------------------------------------------------
(* The inductive invariant of the pipeline *)

Honest(dialect) ==
    \/ dialect \in {"unknown", database}
    \/ probe_failed /\ dialect = "plain" /\ database = "timescale"

Early == {"knowledge", "digest", "examples", "dialect", "probe"}

(* Where a run stands says how many stages it has announced, and only a run *)
(* that has announced them all succeeds.                                    *)
Counted(r, n) ==
    /\ r.pc = "idle" => n = 0
    /\ r.pc \in Early => n = 1
    /\ r.pc = "generate" => n = 2
    /\ r.pc = "validate" => n = 3
    /\ r.pc = "execute" => n = 4
    /\ r.pc = "summarize" => n = 5
    /\ r.outcome = "success" => r.pc = "ended" /\ n = 5

(* A prompt is built once the dialect is pinned, and parsed later; nobody   *)
(* probes a ClickHouse store.                                               *)
Dialected(r) ==
    /\ r.pc = "probe" => database # "clickhouse"
    /\ r.pc \in {"generate", "validate"} => r.prompt # "unknown"
    /\ r.pc \in Early \cup {"idle", "generate", "validate"} => r.parser = "unknown"
    /\ r.prompt # "unknown" => pinned # "unknown"
    /\ Honest(r.prompt)
    /\ r.parser # "unknown" => r.parser = r.prompt \/ probe_failed

StoreOK == Honest(pinned) /\ (database = "clickhouse" => pinned = "clickhouse")

PInv ==
    /\ TypeOK
    /\ StoreOK
    /\ \A h \in Threads : Counted(run[h], announced[h]) /\ Dialected(run[h])

LEMMA StagesLength == Len(Stages) = 5
  BY DEF Stages

LEMMA PInvInit == Init => PInv
<1> SUFFICES ASSUME Init PROVE PInv
  OBVIOUS
<1>1. NoRun \in Runs /\ NoRun.pc = "idle" /\ NoRun.prompt = "unknown" /\ NoRun.parser = "unknown"
      /\ NoRun.outcome = "none"
  BY DEF NoRun, Runs, Outcomes
<1>2. TypeOK
  <2>1. probe_failed \in BOOLEAN
    BY DEF Init
  <2>2. database \in Dialects /\ pinned \in Dialects \cup {"unknown"}
    BY DEF Init, DialectOf, Dialects
  <2>3. run \in [Threads -> Runs] /\ announced \in [Threads -> 0..Len(Stages)]
    BY <1>1, StagesLength DEF Init
  <2> QED BY <2>1, <2>2, <2>3 DEF TypeOK
<1>3. StoreOK
  BY DEF Init, StoreOK, Honest, DialectOf
<1>4. ASSUME NEW h \in Threads PROVE Counted(run[h], announced[h]) /\ Dialected(run[h])
  BY <1>1 DEF Init, Counted, Dialected, Honest, Early
<1> QED BY <1>2, <1>3, <1>4 DEF PInv

(* A step that touches only one run keeps the invariant if the run does.    *)
LEMMA RunStep ==
    ASSUME PInv, NEW h \in Threads, NEW r \in Runs, NEW n \in 0..5,
           Counted(r, n), Dialected(r), UNCHANGED storeVars,
           run' = [run EXCEPT ![h] = r], announced' = [announced EXCEPT ![h] = n]
    PROVE  PInv'
<1>1. TypeOK'
  BY StagesLength DEF PInv, TypeOK, storeVars
<1>2. StoreOK'
  BY DEF PInv, StoreOK, Honest, storeVars
<1>3. ASSUME NEW g \in Threads PROVE (Counted(run[g], announced[g]) /\ Dialected(run[g]))'
  <2>1. /\ run'[g] = IF g = h THEN r ELSE run[g]
        /\ announced'[g] = IF g = h THEN n ELSE announced[g]
    BY DEF PInv, TypeOK
  <2>2. UNCHANGED <<database, pinned, probe_failed>>
    BY DEF storeVars
  <2>3. CASE g = h
    BY <2>1, <2>2, <2>3 DEF Counted, Dialected, Honest
  <2>4. CASE g # h
    <3>1. Counted(run[g], announced[g]) /\ Dialected(run[g])
      BY DEF PInv
    <3> QED BY <2>1, <2>2, <2>4, <3>1 DEF Counted, Dialected, Honest
  <2> QED BY <2>3, <2>4
<1> QED BY <1>1, <1>2, <1>3 DEF PInv

(* The two shared forms of a step. *)
LEMMA EndStep ==
    ASSUME PInv, NEW h \in Threads, NEW outcome \in Outcomes, End(h, outcome),
           UNCHANGED <<storeVars, announced>>, outcome = "success" => At(h, "summarize")
    PROVE  PInv'
<1>1. /\ run[h] \in Runs /\ run \in [Threads -> Runs] /\ Dialected(run[h])
      /\ announced \in [Threads -> 0..5] /\ announced[h] \in 0..5
  BY StagesLength DEF PInv, TypeOK
<1>2. PICK r : r = [run[h] EXCEPT !.pc = "ended", !.outcome = outcome]
  OBVIOUS
<1>3. /\ r \in Runs /\ r.pc = "ended" /\ r.outcome = outcome
      /\ r.prompt = run[h].prompt /\ r.parser = run[h].parser
  BY <1>1, <1>2 DEF Runs
<1>4. Counted(r, announced[h]) /\ Dialected(r)
  BY <1>1, <1>3 DEF PInv, At, Counted, Dialected, Early
<1>5. run' = [run EXCEPT ![h] = r] /\ announced' = [announced EXCEPT ![h] = announced[h]]
  BY <1>1, <1>2 DEF End
<1> QED BY <1>1, <1>3, <1>4, <1>5, RunStep

LEMMA GotoStep ==
    ASSUME PInv, NEW h \in Threads, NEW step, Goto(h, step), UNCHANGED storeVars,
           \/ run[h].pc \in Early /\ step \in Early /\ UNCHANGED announced
           \/ run[h].pc = "idle" /\ step = "knowledge" /\ Observe(h)
           \/ run[h].pc = "generate" /\ step = "validate" /\ Observe(h)
           \/ run[h].pc = "execute" /\ step = "summarize" /\ Observe(h),
           step = "probe" => database # "clickhouse"
    PROVE  PInv'
<1>1. /\ run[h] \in Runs /\ run \in [Threads -> Runs]
      /\ announced \in [Threads -> 0..5] /\ announced[h] \in 0..5
      /\ Counted(run[h], announced[h]) /\ Dialected(run[h])
  BY StagesLength DEF PInv, TypeOK
<1>2. PICK r : r = [run[h] EXCEPT !.pc = step]
  OBVIOUS
<1>3. step \in Early \cup {"validate", "summarize"}
  BY DEF Early
<1>4. /\ r \in Runs /\ r.pc = step /\ r.outcome # "success"
      /\ r.prompt = run[h].prompt /\ r.parser = run[h].parser
  BY <1>1, <1>2, <1>3 DEF Runs, Early, Counted
<1>5. Dialected(r)
  BY <1>1, <1>4 DEF Dialected, Early
<1>6. PICK n \in 0..5 :
        /\ announced' = [announced EXCEPT ![h] = n]
        /\ Counted(r, n)
  <2>1. CASE run[h].pc \in Early /\ step \in Early /\ UNCHANGED announced
    <3>1. announced' = [announced EXCEPT ![h] = announced[h]]
      BY <1>1, <2>1
    <3> QED BY <1>1, <1>4, <2>1, <3>1 DEF Counted, Early
  <2>2. CASE ~(run[h].pc \in Early /\ step \in Early /\ UNCHANGED announced)
    <3>1. announced' = [announced EXCEPT ![h] = announced[h] + 1]
      BY <1>1, <2>2 DEF Observe
    <3>2. announced[h] + 1 \in 0..5 /\ Counted(r, announced[h] + 1)
      BY <1>1, <1>4, <2>2 DEF Counted, Early
    <3> QED BY <3>1, <3>2
  <2> QED BY <2>1, <2>2
<1>7. run' = [run EXCEPT ![h] = r]
  BY <1>2 DEF Goto
<1> QED BY <1>4, <1>5, <1>6, <1>7, RunStep

-----------------------------------------------------------------------------
(* The steps that are about dialects *)

(* A probe may change what is pinned; an earlier prompt stays honest, since *)
(* a probe that fails is remembered as one.                                 *)
LEMMA ProbeStep == ASSUME PInv, NEW h \in Threads, EndProbe(h) PROVE PInv'
<1>1. /\ run \in [Threads -> Runs] /\ run[h] \in Runs /\ run[h].pc = "probe"
      /\ announced' = announced /\ database' = database /\ database \in Dialects
      /\ announced \in [Threads -> 0..5] /\ database # "clickhouse"
  BY StagesLength DEF PInv, TypeOK, EndProbe, At, Dialected
<1>2. PICK r : r = [run[h] EXCEPT !.pc = "dialect"]
  OBVIOUS
<1>3. /\ r \in Runs /\ r.pc = "dialect" /\ r.prompt = run[h].prompt /\ r.parser = run[h].parser
      /\ r.outcome = run[h].outcome /\ run' = [run EXCEPT ![h] = r]
  BY <1>1, <1>2 DEF Runs, EndProbe, Goto
<1>4. \/ pinned' = database /\ probe_failed' = probe_failed
      \/ pinned' = "plain" /\ probe_failed' = TRUE
  BY DEF EndProbe, FailedProbe
<1>5. TypeOK'
  BY <1>1, <1>3, <1>4, StagesLength DEF PInv, TypeOK, Dialects
<1>6. StoreOK'
  BY <1>1, <1>4 DEF StoreOK, Honest, Dialects
<1>7. ASSUME NEW g \in Threads PROVE (Counted(run[g], announced[g]) /\ Dialected(run[g]))'
  <2>1. Counted(run[g], announced[g]) /\ Dialected(run[g])
    BY DEF PInv
  <2>2. /\ run'[g].prompt = run[g].prompt /\ run'[g].parser = run[g].parser
        /\ run'[g].outcome = run[g].outcome
        /\ run'[g].pc = run[g].pc \/ (run[g].pc = "probe" /\ run'[g].pc = "dialect")
    BY <1>1, <1>3
  <2>3. Counted(run'[g], announced'[g])
    BY <1>1, <2>1, <2>2 DEF Counted, Early
  <2>4. pinned' # "unknown"
    BY <1>1, <1>4 DEF Dialects
  <2>5. Dialected(run[g])'
    BY <1>1, <1>4, <2>1, <2>2, <2>4 DEF Dialected, Honest, Early
  <2> QED BY <2>3, <2>5 DEF Counted
<1> QED BY <1>5, <1>6, <1>7 DEF PInv

LEMMA PromptStep == ASSUME PInv, NEW h \in Threads, BuildPrompt(h) PROVE PInv'
<1>1. /\ run \in [Threads -> Runs] /\ run[h] \in Runs /\ run[h].pc = "dialect"
      /\ announced \in [Threads -> 0..5] /\ announced[h] = 1
      /\ pinned \in Dialects /\ pinned # "unknown" /\ Honest(pinned) /\ run[h].parser = "unknown"
      /\ run[h].outcome # "success"
  BY StagesLength DEF PInv, TypeOK, StoreOK, BuildPrompt, At, Dialected, Counted, Early
<1>2. PICK r : r = [run[h] EXCEPT !.pc = "generate", !.prompt = pinned]
  OBVIOUS
<1>3. /\ r \in Runs /\ r.pc = "generate" /\ r.prompt = pinned /\ r.parser = "unknown"
      /\ r.outcome # "success" /\ run' = [run EXCEPT ![h] = r]
  BY <1>1, <1>2 DEF Runs, BuildPrompt
<1>4. announced' = [announced EXCEPT ![h] = 2] /\ 2 \in 0..5
  BY <1>1 DEF BuildPrompt, Observe
<1>5. Counted(r, 2) /\ Dialected(r)
  BY <1>1, <1>3 DEF Counted, Dialected, Early
<1>6. UNCHANGED storeVars
  BY DEF BuildPrompt
<1> QED BY <1>3, <1>4, <1>5, <1>6, RunStep

(* What is pinned when a statement is parsed is what its prompt was built   *)
(* for: both are the database's own dialect, or a probe failed.             *)
LEMMA ValidateStep == ASSUME PInv, NEW h \in Threads, Validate(h) PROVE PInv'
<1>1. /\ run \in [Threads -> Runs] /\ run[h] \in Runs /\ run[h].pc = "validate"
      /\ announced \in [Threads -> 0..5] /\ announced[h] = 3
      /\ Dialected(run[h]) /\ pinned \in Dialects \cup {"unknown"} /\ Honest(pinned)
  BY StagesLength DEF PInv, TypeOK, StoreOK, Validate, At, Counted
<1>2. pinned = run[h].prompt \/ probe_failed
  BY <1>1 DEF Dialected, Honest
<1>3. PICK s \in Statements :
          /\ run' = [run EXCEPT ![h].pc = IF Valid(s) THEN "execute" ELSE "ended",
                                ![h].parser = pinned,
                                ![h].outcome = IF Valid(s) THEN "none" ELSE "rejected"]
          /\ IF Valid(s) THEN Observe(h) ELSE UNCHANGED announced
  BY DEF Validate
<1>4. PICK step \in {"execute", "ended"} : step = IF Valid(s) THEN "execute" ELSE "ended"
  OBVIOUS
<1>5. PICK outcome \in Outcomes \ {"success"} : outcome = IF Valid(s) THEN "none" ELSE "rejected"
  BY DEF Outcomes
<1>6. PICK r : r = [run[h] EXCEPT !.pc = step, !.parser = pinned, !.outcome = outcome]
  OBVIOUS
<1>7. /\ r \in Runs /\ r.pc = step /\ r.prompt = run[h].prompt /\ r.parser = pinned
      /\ r.outcome # "success"
  BY <1>1, <1>6 DEF Runs
<1>8. run' = [run EXCEPT ![h] = r]
  BY <1>3, <1>4, <1>5, <1>6
<1>9. PICK n \in 0..5 : announced' = [announced EXCEPT ![h] = n] /\ Counted(r, n)
  <2>1. CASE Valid(s)
    <3>1. announced' = [announced EXCEPT ![h] = 4] /\ step = "execute"
      BY <1>1, <1>3, <1>4, <2>1 DEF Observe
    <3> QED BY <1>7, <3>1 DEF Counted, Early
  <2>2. CASE ~Valid(s)
    <3>1. announced' = [announced EXCEPT ![h] = 3] /\ step = "ended"
      BY <1>1, <1>3, <1>4, <2>2
    <3> QED BY <1>7, <3>1 DEF Counted, Early
  <2> QED BY <2>1, <2>2
<1>10. Dialected(r)
  BY <1>1, <1>2, <1>7 DEF Dialected, Early
<1>11. UNCHANGED storeVars
  BY DEF Validate
<1> QED BY <1>7, <1>8, <1>9, <1>10, <1>11, RunStep

LEMMA PInvNext == PInv /\ [Next]_pipelineVars => PInv'
<1> SUFFICES ASSUME PInv, [Next]_pipelineVars PROVE PInv'
  OBVIOUS
<1>1. CASE UNCHANGED pipelineVars
  BY <1>1 DEF pipelineVars, storeVars, PInv, TypeOK, StoreOK, Counted, Dialected, Honest
<1>2. ASSUME NEW h \in Threads, Begin(h) \/ Step(h) \/ Leave(h) PROVE PInv'
  <2>1. ASSUME NEW outcome \in Outcomes, End(h, outcome), UNCHANGED <<storeVars, announced>>,
               outcome = "success" => At(h, "summarize")
        PROVE  PInv'
    BY <2>1, EndStep
  <2>2. {"success", "failed", "raised"} \subseteq Outcomes
    BY DEF Outcomes
  <2>3. CASE Begin(h)
    BY <2>3, GotoStep DEF Begin, At, Early
  <2>4. CASE LoadKnowledge(h) \/ Digest(h) \/ RetrieveExamples(h)
    BY <2>1, <2>2, <2>4, GotoStep
       DEF LoadKnowledge, Digest, RetrieveExamples, LLMRaises, At, Early, storeVars
  <2>5. CASE StartProbe(h)
    <3>1. database # "clickhouse"
      BY <2>5 DEF PInv, StoreOK, StartProbe
    <3> QED BY <2>5, <3>1, GotoStep DEF StartProbe, At, Early, storeVars
  <2>6. CASE EndProbe(h)
    BY <2>6, ProbeStep
  <2>7. CASE BuildPrompt(h)
    BY <2>7, PromptStep
  <2>8. CASE Generate(h)
    BY <2>1, <2>2, <2>8, GotoStep DEF Generate, LLMRaises, At
  <2>9. CASE Validate(h)
    BY <2>9, ValidateStep
  <2>10. CASE Execute(h)
    BY <2>1, <2>2, <2>10, GotoStep DEF Execute, At
  <2>11. CASE Summarize(h)
    BY <2>1, <2>2, <2>11 DEF Summarize, LLMRaises
  <2>12. CASE Leave(h)
    <3>1. PICK r : r = NoRun
      OBVIOUS
    <3>2. r \in Runs /\ Counted(r, 0) /\ Dialected(r) /\ 0 \in 0..5
      BY <3>1 DEF NoRun, Runs, Outcomes, Counted, Dialected, Honest, Early
    <3> QED BY <2>12, <3>1, <3>2, RunStep DEF Leave
  <2> QED BY <1>2, <2>3, <2>4, <2>5, <2>6, <2>7, <2>8, <2>9, <2>10, <2>11, <2>12 DEF Step
<1> QED BY <1>1, <1>2 DEF Next

LEMMA PInvAlways == Spec => []PInv
  BY PInvInit, PInvNext, PTL DEF Spec

\* However many threads probe at once, and whatever fails: the store, and
\* every prompt, claims what the database has; a failed probe loses at most
\* the extension.
THEOREM DialectsAreHonest == Spec => []DialectIsHonest
<1>1. PInv => DialectIsHonest
  BY DEF PInv, StoreOK, Dialected, Honest, DialectIsHonest
<1> QED BY <1>1, PInvAlways, PTL

\* Unless a probe failed, a query is validated under the dialect it was
\* asked for.
THEOREM QueriesKeepTheirDialect == Spec => []OneDialectPerQuery
<1>1. PInv => OneDialectPerQuery
  BY DEF PInv, Dialected, OneDialectPerQuery
<1> QED BY <1>1, PInvAlways, PTL

-----------------------------------------------------------------------------
(* The stream *)

(* What the client was sent and what waits for it, and how much of it there *)
(* can be at each place of the worker.                                      *)
Sent == Len(outbox) + Len(delivered)

SentOK ==
    /\ worker.pc = "running" => Sent <= announced[Streamer]
    /\ worker.pc = "deltas" => Sent + worker.deltas <= 5 + MaxDeltas
    /\ worker.pc = "closing" => Sent <= 6 + MaxDeltas
    /\ Sent <= 7 + MaxDeltas

StreamTypes ==
    /\ worker \in Workers
    /\ outbox \in Seq(Events \cup {None})
    /\ client \in {"open", "ended", "gone"}
    /\ delivered \in Seq(Events)

SInv == PInv /\ StreamTypes /\ SentOK

(* The worker and the other threads do nothing but steps of the pipeline.   *)
LEMMA StreamIsRun == [StreamNext]_allVars => [Next]_pipelineVars
<1> SUFFICES ASSUME [StreamNext]_allVars PROVE [Next]_pipelineVars
  OBVIOUS
<1>1. CASE UNCHANGED allVars
  BY <1>1 DEF allVars
<1>2. CASE PipelineStep \/ OtherStep
  BY <1>2, StreamAssumption DEF PipelineStep, OtherStep, Next
<1>3. CASE Succeed \/ Fail \/ PutDelta \/ PutFinal \/ CatchException \/ Close \/ Take \/ Disconnect
  BY <1>3 DEF Succeed, Fail, PutDelta, PutFinal, CatchException, Close, Take, Disconnect
<1> QED BY <1>1, <1>2, <1>3 DEF StreamNext, Work

\* Whatever the stream does, what is proved of the pipeline holds behind it:
\* the stream implements it.
THEOREM StreamRunsPipeline == StreamSpec => Spec
<1>1. StreamInit => Init
  BY DEF StreamInit
<1> QED BY <1>1, StreamIsRun, PTL DEF StreamSpec, Spec

LEMMA Amounts ==
    ASSUME StreamTypes
    PROVE  /\ Len(outbox) \in Nat /\ Len(delivered) \in Nat /\ Sent \in Nat
           /\ worker.pc \in {"running", "deltas", "closing", "done"}
           /\ worker.deltas \in 0..MaxDeltas /\ MaxDeltas \in Nat
  BY StreamAssumption DEF StreamTypes, Workers, Sent

LEMMA SInvInit == StreamInit => SInv
<1> SUFFICES ASSUME StreamInit PROVE SInv
  OBVIOUS
<1>1. PInv
  BY PInvInit DEF StreamInit
<1>2. StreamTypes
  BY StreamAssumption DEF StreamInit, StreamTypes, Workers
<1>3. Len(outbox) = 0 /\ Len(delivered) = 0 /\ announced[Streamer] = 0 /\ worker.pc = "running"
  BY StreamAssumption DEF StreamInit, Init
<1>4. SentOK
  BY <1>3, StreamAssumption DEF SentOK, Sent
<1> QED BY <1>1, <1>2, <1>4 DEF SInv

(* A step of a run announces at most one stage more. *)
LEMMA AnnounceStep ==
    ASSUME PInv, NEW h \in Threads, Begin(h) \/ Step(h)
    PROVE  /\ announced' = announced \/ announced' = [announced EXCEPT ![h] = @ + 1]
           /\ announced[h] \in Nat
<1>1. announced[h] \in Nat
  BY StagesLength DEF PInv, TypeOK
<1>2. CASE Begin(h) \/ BuildPrompt(h)
  BY <1>1, <1>2 DEF Begin, BuildPrompt, Observe
<1>3. CASE LoadKnowledge(h) \/ Digest(h) \/ RetrieveExamples(h) \/ StartProbe(h) \/ EndProbe(h)
           \/ Summarize(h)
  BY <1>1, <1>3 DEF LoadKnowledge, Digest, RetrieveExamples, StartProbe, EndProbe, Summarize
<1>4. CASE Generate(h) \/ Validate(h) \/ Execute(h)
  BY <1>1, <1>4 DEF Generate, Validate, Execute, Observe
<1> QED BY <1>1, <1>2, <1>3, <1>4 DEF Step

(* The worker puts one event. *)
LEMMA PutStep ==
    ASSUME StreamTypes, NEW event \in Events \cup {None}, Put(event), UNCHANGED <<client, delivered>>,
           worker' \in Workers
    PROVE  StreamTypes' /\ Sent' = Sent + 1
<1>1. /\ outbox' \in Seq(Events \cup {None}) /\ Len(outbox') = Len(outbox) + 1
      /\ Len(outbox) \in Nat /\ Len(delivered) \in Nat
  BY DEF StreamTypes, Put
<1> QED BY <1>1 DEF StreamTypes, Sent

LEMMA WorkerStep == ASSUME SInv, Work PROVE StreamTypes' /\ SentOK'
<1>1. /\ PInv /\ StreamTypes /\ SentOK /\ Sent \in Nat /\ MaxDeltas \in Nat /\ Streamer \in Threads
      /\ worker \in Workers /\ worker.deltas \in 0..MaxDeltas
  BY Amounts, StreamAssumption DEF SInv, StreamTypes
<1>2. /\ announced \in [Threads -> 0..5] /\ announced[Streamer] \in 0..5
  BY <1>1, StagesLength DEF PInv, TypeOK
<1>3. {"summary_delta", "final", "error"} \subseteq Events
  BY DEF Events
<1>4. CASE PipelineStep
  <2>1. /\ worker.pc = "running" /\ UNCHANGED <<worker, client, delivered>>
        /\ Begin(Streamer) \/ Step(Streamer)
        /\ IF announced' = announced THEN UNCHANGED outbox ELSE Put(Announced)
    BY <1>4 DEF PipelineStep, Running
  <2>2. CASE announced' = announced
    BY <1>1, <2>1, <2>2 DEF StreamTypes, SentOK, Sent
  <2>3. CASE announced' # announced
    <3>1. announced'[Streamer] = announced[Streamer] + 1
      BY <1>1, <1>2, <2>1, <2>3, AnnounceStep
    <3>2. announced'[Streamer] \in 1..5
      <4>1. [Next]_pipelineVars
        BY <1>1, <2>1 DEF Next
      <4>2. announced'[Streamer] \in 0..5
        BY <1>1, <4>1, PInvNext, StagesLength DEF PInv, TypeOK
      <4> QED BY <1>2, <3>1, <4>2
    <3>3. Announced \in Events
      BY <3>2, StagesLength DEF Announced, Events, StageEvents, Stages
    <3>4. StreamTypes' /\ Sent' = Sent + 1
      BY <1>1, <2>1, <2>3, <3>3, PutStep
    <3> QED BY <1>1, <1>2, <2>1, <3>1, <3>4 DEF SentOK
  <2> QED BY <2>2, <2>3
<1>5. CASE Succeed
  <2>1. PICK n \in 0..MaxDeltas : worker' = [pc |-> "deltas", deltas |-> n]
    BY <1>5 DEF Succeed
  <2>2. UNCHANGED <<outbox, client, delivered>> /\ worker.pc = "running"
    BY <1>5 DEF Succeed, Returns, Running
  <2>3. StreamTypes' /\ Sent' = Sent
    BY <1>1, <2>1, <2>2 DEF StreamTypes, Workers, Sent
  <2> QED BY <1>1, <1>2, <2>1, <2>2, <2>3 DEF SentOK
<1>6. CASE Fail \/ PutFinal \/ CatchException
  <2>1. PICK event \in Events : Put(event)
    BY <1>3, <1>6 DEF Fail, PutFinal, CatchException
  <2>2. UNCHANGED <<client, delivered>> /\ worker' = [worker EXCEPT !.pc = "closing"]
        /\ worker.pc \in {"running", "deltas"}
    BY <1>6 DEF Fail, PutFinal, CatchException, Returns, Running
  <2>3. worker' \in Workers /\ worker'.pc = "closing"
    BY <1>1, <2>2 DEF Workers
  <2>4. StreamTypes' /\ Sent' = Sent + 1
    BY <1>1, <2>1, <2>2, <2>3, PutStep
  <2>5. Sent <= 5 + MaxDeltas
    BY <1>1, <1>2, <2>2 DEF SentOK
  <2> QED BY <1>1, <2>3, <2>4, <2>5 DEF SentOK
<1>7. CASE PutDelta
  <2>1. /\ worker.pc = "deltas" /\ worker.deltas > 0 /\ Put("summary_delta")
        /\ worker' = [worker EXCEPT !.deltas = @ - 1] /\ UNCHANGED <<client, delivered>>
    BY <1>7 DEF PutDelta
  <2>2. /\ worker' \in Workers /\ worker'.pc = "deltas" /\ worker'.deltas = worker.deltas - 1
    BY <1>1, <2>1 DEF Workers
  <2>3. StreamTypes' /\ Sent' = Sent + 1
    BY <1>1, <1>3, <2>1, <2>2, PutStep
  <2> QED BY <1>1, <2>1, <2>2, <2>3 DEF SentOK
<1>8. CASE Close
  <2>1. /\ worker.pc = "closing" /\ Put(None) /\ UNCHANGED <<client, delivered>>
        /\ worker' = [worker EXCEPT !.pc = "done"]
    BY <1>8 DEF Close
  <2>2. worker' \in Workers /\ worker'.pc = "done"
    BY <1>1, <2>1 DEF Workers
  <2>3. StreamTypes' /\ Sent' = Sent + 1
    BY <1>1, <2>1, <2>2, PutStep
  <2> QED BY <1>1, <2>1, <2>2, <2>3 DEF SentOK
<1> QED BY <1>4, <1>5, <1>6, <1>7, <1>8 DEF Work

(* An event on its way to the client is counted before and after. *)
LEMMA TakeStep == ASSUME SInv, Take PROVE StreamTypes' /\ SentOK'
<1>1. /\ StreamTypes /\ SentOK /\ UNCHANGED <<worker, announced>>
      /\ outbox # <<>> /\ outbox' = Tail(outbox)
  BY DEF SInv, Take, pipelineVars
<1>2. /\ Head(outbox) \in Events \cup {None} /\ outbox' \in Seq(Events \cup {None})
      /\ Len(outbox) \in Nat /\ Len(outbox') = Len(outbox) - 1
      /\ delivered \in Seq(Events) /\ Len(delivered) \in Nat
  BY <1>1 DEF StreamTypes
<1>3. CASE Head(outbox) = None
  <2>1. client' = "ended" /\ delivered' = delivered
    BY <1>3 DEF Take
  <2>2. StreamTypes' /\ Sent' = Sent - 1
    BY <1>1, <1>2, <2>1 DEF StreamTypes, Sent
  <2>3. /\ Sent \in Nat /\ MaxDeltas \in Nat /\ worker.deltas \in 0..MaxDeltas
        /\ announced[Streamer] \in 0..5 /\ UNCHANGED announced[Streamer]
    BY <1>1, Amounts, StagesLength, StreamAssumption DEF SInv, PInv, TypeOK
  <2> QED BY <1>1, <2>2, <2>3 DEF SentOK
<1>4. CASE Head(outbox) # None
  <2>1. delivered' = Append(delivered, Head(outbox)) /\ client' = client
    BY <1>4 DEF Take
  <2>2. delivered' \in Seq(Events) /\ Len(delivered') = Len(delivered) + 1
    BY <1>2, <1>4, <2>1
  <2>3. StreamTypes' /\ Sent' = Sent
    BY <1>1, <1>2, <2>1, <2>2 DEF StreamTypes, Sent
  <2> QED BY <1>1, <2>3 DEF SentOK
<1> QED BY <1>3, <1>4

LEMMA SInvNext == SInv /\ [StreamNext]_allVars => SInv'
<1> SUFFICES ASSUME SInv, [StreamNext]_allVars PROVE SInv'
  OBVIOUS
<1>1. PInv'
  BY StreamIsRun, PInvNext DEF SInv
<1>2. StreamTypes' /\ SentOK'
  <2>1. CASE Work
    BY <2>1, WorkerStep
  <2>2. CASE Take
    BY <2>2, TakeStep
  <2>3. CASE Disconnect \/ UNCHANGED allVars
    <3>1. UNCHANGED <<worker, outbox, delivered, announced>> /\ client' \in {client, "gone"}
      BY <2>3 DEF Disconnect, allVars, streamVars, pipelineVars
    <3> QED BY <3>1 DEF SInv, StreamTypes, SentOK, Sent
  <2>4. CASE OtherStep
    <3>1. UNCHANGED <<worker, outbox, client, delivered>>
      BY <2>4 DEF OtherStep, streamVars
    <3>2. PICK h \in Threads \ {Streamer} : Begin(h) \/ Step(h) \/ Leave(h)
      BY <2>4 DEF OtherStep
    <3>3. announced'[Streamer] = announced[Streamer]
      <4>1. announced \in [Threads -> 0..5]
        BY StagesLength DEF SInv, PInv, TypeOK
      <4>2. CASE Leave(h)
        BY <3>2, <4>1, <4>2, StreamAssumption DEF Leave
      <4>3. CASE Begin(h) \/ Step(h)
        <5>1. announced' = announced \/ announced' = [announced EXCEPT ![h] = @ + 1]
          BY <3>2, <4>3, AnnounceStep DEF SInv
        <5> QED BY <3>2, <4>1, <5>1, StreamAssumption
      <4> QED BY <3>2, <4>2, <4>3
    <3> QED BY <3>1, <3>3 DEF SInv, StreamTypes, SentOK, Sent
  <2> QED BY <2>1, <2>2, <2>3, <2>4 DEF StreamNext
<1> QED BY <1>1, <1>2 DEF SInv

\* The queue of a stream, whose client may be gone for good, holds no more
\* than one run can announce: five stages, the deltas, a terminal event and
\* the sentinel.
THEOREM StreamTypeCorrect == StreamSpec => []StreamTypeOK
<1>1. SInv => StreamTypeOK
  <2> SUFFICES ASSUME SInv PROVE StreamTypeOK
    OBVIOUS
  <2>1. /\ StreamTypes /\ Sent <= 7 + MaxDeltas /\ Len(outbox) \in Nat /\ Len(delivered) \in Nat
        /\ MaxDeltas \in Nat
    BY Amounts DEF SInv, SentOK
  <2>2. Len(outbox) <= MaxEvents /\ Len(delivered) <= MaxEvents
    BY <2>1, StagesLength DEF Sent, MaxEvents
  <2>3. TypeOK
    BY DEF SInv, PInv
  <2> QED BY <2>1, <2>2, <2>3 DEF StreamTypeOK, StreamTypes
<1> QED BY <1>1, SInvInit, SInvNext, PTL DEF StreamSpec

-----------------------------------------------------------------------------
(* The protocol *)

Made == announced[Streamer]
Terminals == {"final", "error"}

(* The i-th event that was put, sent already or still on its way. *)
Event(i) == IF i <= Len(delivered) THEN delivered[i] ELSE outbox[i - Len(delivered)]

(* Up to the n-th event there are the stages and then deltas; a delta needs *)
(* a run that has announced every stage.                                    *)
Script(n) ==
    /\ Made <= n
    /\ \A i \in 1..Sent : Made < i /\ i <= n => Event(i) = "summary_delta"
    /\ Made < n => Made = 5

(* The n-th event is the terminal one. *)
Ends(n) == n \in 1..Sent /\ Script(n - 1) /\ Event(n) \in Terminals

Log ==
    /\ \A i \in 1..Sent : i <= Made => Event(i) = Stages[i]
    /\ \A i \in 1..Sent : Made < i => Event(i) \in Terminals \cup {"summary_delta", None}
    /\ worker.pc = "running" => Sent = Made
    /\ worker.pc = "deltas" => Script(Sent) /\ (worker.deltas > 0 => Made = 5)
    /\ worker.pc = "closing" => Ends(Sent)
    /\ worker.pc = "done" /\ client # "ended" => Sent >= 1 /\ Event(Sent) = None /\ Ends(Sent - 1)
    /\ client = "ended" => worker.pc = "done" /\ outbox = <<>>

LInv == SInv /\ Log

LEMMA MadeType == PInv => Made \in 0..5
  BY StreamAssumption, StagesLength DEF PInv, TypeOK, Made

LEMMA LInvInit == StreamInit => LInv
<1> SUFFICES ASSUME StreamInit PROVE LInv
  OBVIOUS
<1>1. SInv
  BY SInvInit
<1>2. /\ Sent = 0 /\ Made = 0 /\ worker.pc = "running" /\ client = "open"
  BY StreamAssumption DEF StreamInit, Init, Sent, Made
<1>3. Log
  BY <1>2 DEF Log
<1> QED BY <1>1, <1>3 DEF LInv

(* Putting an event adds it at the end. *)
LEMMA PutLog ==
    ASSUME StreamTypes, NEW event, Put(event), UNCHANGED delivered,
           event \in Events \cup {None}
    PROVE  /\ Sent \in Nat /\ Sent' = Sent + 1
           /\ \A i \in 1..Sent : Event(i)' = Event(i)
           /\ Event(Sent)' = event
<1>1. /\ outbox \in Seq(Events \cup {None}) /\ Len(outbox) \in Nat /\ Len(delivered) \in Nat
      /\ outbox' = Append(outbox, event)
  BY DEF StreamTypes, Put
<1>2. /\ Len(outbox') = Len(outbox) + 1 /\ outbox'[Len(outbox) + 1] = event
      /\ \A k \in 1..Len(outbox) : outbox'[k] = outbox[k]
  BY <1>1
<1>3. Sent' = Sent + 1 /\ Sent \in Nat
  BY <1>1, <1>2 DEF Sent
<1>4. ASSUME NEW i \in 1..Sent PROVE Event(i)' = Event(i)
  BY <1>1, <1>2 DEF Event, Sent
<1>5. Event(Sent)' = event
  <2>1. Sent' = Len(outbox) + 1 + Len(delivered) /\ delivered' = delivered
    BY <1>1, <1>2 DEF Sent
  <2>2. ~(Sent' <= Len(delivered')) /\ Sent' - Len(delivered') = Len(outbox) + 1
    BY <1>1, <2>1
  <2> QED BY <1>2, <2>2 DEF Event
<1> QED BY <1>3, <1>4, <1>5

(* Taking an event, but for the sentinel, moves it. *)
LEMMA TakeLog ==
    ASSUME StreamTypes, Take
    PROVE  /\ Sent \in Nat /\ Len(delivered) < Sent
           /\ Head(outbox) = Event(Len(delivered) + 1)
           /\ Head(outbox) # None =>
                 /\ Sent' = Sent /\ Len(delivered') = Len(delivered) + 1
                 /\ \A i \in 1..Sent : Event(i)' = Event(i)
           /\ Head(outbox) = None =>
                 /\ Sent' = Sent - 1 /\ Len(outbox') = Len(outbox) - 1
                 /\ \A i \in 1..Len(delivered) : Event(i)' = Event(i)
<1>1. /\ outbox \in Seq(Events \cup {None}) /\ Len(outbox) \in Nat /\ outbox # <<>>
      /\ delivered \in Seq(Events) /\ Len(delivered) \in Nat /\ outbox' = Tail(outbox)
  BY DEF StreamTypes, Take
<1>2. /\ Len(outbox) >= 1 /\ Head(outbox) = outbox[1] /\ Len(outbox') = Len(outbox) - 1
      /\ \A k \in 1..Len(outbox') : outbox'[k] = outbox[k + 1]
  BY <1>1
<1>3. /\ Sent \in Nat /\ Len(delivered) < Sent /\ Head(outbox) = Event(Len(delivered) + 1)
  BY <1>1, <1>2 DEF Sent, Event
<1>4. CASE Head(outbox) # None
  <2>1. delivered' = Append(delivered, Head(outbox))
    BY <1>4 DEF Take
  <2>2. /\ Len(delivered') = Len(delivered) + 1 /\ delivered'[Len(delivered) + 1] = outbox[1]
        /\ \A k \in 1..Len(delivered) : delivered'[k] = delivered[k]
    BY <1>1, <1>2, <2>1
  <2>3. Sent' = Sent
    BY <1>1, <1>2, <2>2 DEF Sent
  <2>4. ASSUME NEW i \in 1..Sent PROVE Event(i)' = Event(i)
    <3>4. i \in Nat
      BY <1>3
    <3>1. CASE i <= Len(delivered)
      BY <1>1, <2>2, <3>1, <3>4 DEF Event
    <3>2. CASE i = Len(delivered) + 1
      BY <1>1, <2>2, <3>2 DEF Event
    <3>3. CASE i > Len(delivered) + 1
      <4>1. i - Len(delivered') \in 1..Len(outbox')
        BY <1>1, <1>2, <2>2, <3>3, <3>4 DEF Sent
      <4>2. outbox'[i - Len(delivered')] = outbox[i - Len(delivered)]
        BY <1>1, <1>2, <2>2, <4>1
      <4>3. ~(i <= Len(delivered)) /\ ~(i <= Len(delivered'))
        BY <1>1, <2>2, <3>3, <3>4
      <4> QED BY <4>2, <4>3 DEF Event
    <3>5. i <= Len(delivered) \/ i = Len(delivered) + 1 \/ i > Len(delivered) + 1
      BY <1>1, <3>4
    <3> QED BY <3>1, <3>2, <3>3, <3>5
  <2> QED BY <1>3, <1>4, <2>2, <2>3, <2>4
<1>5. CASE Head(outbox) = None
  <2>1. delivered' = delivered
    BY <1>5 DEF Take
  <2> QED BY <1>1, <1>2, <1>3, <1>5, <2>1 DEF Sent, Event
<1> QED BY <1>4, <1>5

(* A step that puts nothing and takes nothing. *)
LEMMA QuietLog ==
    ASSUME LInv, UNCHANGED <<outbox, delivered, worker>>, Made' = Made,
           client' = client \/ (client = "open" /\ client' = "gone")
    PROVE  Log'
<1>1. Sent' = Sent /\ \A i : Event(i)' = Event(i)
  BY DEF Sent, Event
<1> QED BY <1>1 DEF LInv, Log, Script, Ends

(* The worker's step, when it puts an event. *)
LEMMA GrowLog ==
    ASSUME LInv, NEW event \in Events \cup {None}, Put(event), UNCHANGED <<client, delivered>>,
           worker.pc # "done",
           \/ /\ worker.pc = "running" /\ worker'.pc = "running" /\ Made' = Made + 1
              /\ event = Stages[Made + 1]
           \/ /\ worker.pc \in {"running", "deltas"} /\ worker'.pc = "closing" /\ Made' = Made
              /\ event \in Terminals
           \/ /\ worker.pc = "deltas" /\ worker'.pc = "deltas" /\ Made' = Made
              /\ worker.deltas > 0 /\ event = "summary_delta"
           \/ /\ worker.pc = "closing" /\ worker'.pc = "done" /\ Made' = Made /\ event = None
    PROVE  Log'
<1>1. /\ StreamTypes /\ Log /\ Made \in 0..5 /\ client # "ended"
  BY MadeType DEF LInv, SInv, Log
<1>2. /\ Sent \in Nat /\ Sent' = Sent + 1
      /\ \A i \in 1..Sent : Event(i)' = Event(i)
      /\ Event(Sent)' = event
  BY <1>1, PutLog
<1>3. /\ Made <= Sent /\ Made' \in 0..Sent' /\ Sent' \in Nat /\ worker'.pc # "open"
      /\ Made' # Made => Made = Sent /\ Made' = Made + 1 /\ event = Stages[Made + 1]
      /\ Made' = Made => event \in Terminals \cup {"summary_delta", None}
  BY <1>1, <1>2 DEF Log, Script, Ends
<1>4. ASSUME NEW i \in 1..Sent'
      PROVE  /\ i <= Made' => Event(i)' = Stages[i]
             /\ Made' < i => Event(i)' \in Terminals \cup {"summary_delta", None}
  <2>1. CASE i \in 1..Sent
    <3>1. /\ Event(i)' = Event(i) /\ i \in 1..Sent
          /\ i <= Made => Event(i) = Stages[i]
          /\ Made < i => Event(i) \in Terminals \cup {"summary_delta", None}
      BY <1>1, <1>2, <2>1 DEF Log
    <3>2. (i <= Made' <=> i <= Made) /\ (Made' < i <=> Made < i)
      BY <1>1, <1>2, <1>3, <2>1
    <3> QED BY <3>1, <3>2, <1>2, <2>1
  <2>2. CASE i = Sent'
    <3>1. Event(i)' = event
      BY <1>2, <2>2
    <3>2. Made' = Made => ~(i <= Made')
      BY <1>1, <1>2, <1>3, <2>2
    <3>3. Made' # Made => i = Made' /\ i = Made + 1 /\ ~(Made' < i)
      BY <1>1, <1>2, <1>3, <2>2
    <3> QED BY <1>3, <3>1, <3>2, <3>3
  <2>3. i \in 1..Sent \/ i = Sent'
    BY <1>2
  <2> QED BY <2>1, <2>2, <2>3
<1>5. client' # "ended"
  BY <1>1
<1>6. ASSUME NEW n \in 0..Sent, Script(n), Made' = Made PROVE Script(n)'
  BY <1>1, <1>2, <1>6 DEF Script
<1>7. CASE worker'.pc = "running"
  <2>1. Sent' = Made'
    BY <1>1, <1>2, <1>7 DEF Log
  <2> QED BY <1>4, <1>5, <1>7, <2>1 DEF Log
<1>8. PICK n \in Nat : n = Sent
  BY <1>2
<1>9. CASE worker'.pc = "closing"
  <2>1. Made' = Made /\ event \in Terminals /\ Script(n)
    BY <1>1, <1>2, <1>8, <1>9 DEF Log, Script
  <2>2. Script(n)' /\ Sent' - 1 = n /\ Sent' \in 1..Sent'
    BY <1>2, <1>6, <1>8, <2>1
  <2>3. Ends(Sent)'
    BY <1>2, <2>1, <2>2 DEF Ends
  <2> QED BY <1>4, <1>5, <1>9, <2>3 DEF Log
<1>10. CASE worker'.pc = "deltas"
  <2>1. Made' = Made /\ event = "summary_delta" /\ Script(n) /\ Made = 5
    BY <1>1, <1>8, <1>10 DEF Log
  <2>2. Script(n)' /\ Sent' = n + 1 /\ Made' <= n
    BY <1>2, <1>6, <1>8, <2>1 DEF Script
  <2>3. Script(Sent)'
    BY <1>2, <2>1, <2>2 DEF Script
  <2> QED BY <1>4, <1>5, <1>10, <2>1, <2>3 DEF Log
<1>11. CASE worker'.pc = "done"
  <2>1. Made' = Made /\ event = None /\ n \in 1..Sent /\ Script(n - 1) /\ Event(n) \in Terminals
    BY <1>1, <1>8, <1>11 DEF Log, Ends
  <2>2. PICK m \in Nat : m = n - 1
    BY <2>1
  <2>3. Script(m)' /\ Event(n)' \in Terminals
    BY <1>2, <1>6, <1>8, <2>1, <2>2
  <2>4. Sent' - 1 = n /\ n \in 1..Sent' /\ Event(Sent)' = None /\ Sent' >= 1
    BY <1>2, <1>8, <2>1
  <2>5. Ends(Sent - 1)'
    BY <2>2, <2>3, <2>4 DEF Ends
  <2> QED BY <1>4, <1>5, <1>11, <2>4, <2>5 DEF Log
<1> QED BY <1>7, <1>9, <1>10, <1>11

(* Behind the stages: the sentinel is last and follows a terminal event, a  *)
(* delta means that every stage was announced, and nothing but the sentinel *)
(* follows a terminal event.                                                *)
LEMMA Positions ==
    ASSUME LInv, client # "ended", NEW i \in 1..Sent, Made < i
    PROVE  /\ Event(i) = None =>
                 /\ i = Sent /\ worker.pc = "done"
                 /\ i - 1 \in 1..Sent /\ Made < i - 1 /\ Event(i - 1) \in Terminals
           /\ Event(i) = "summary_delta" => Made = 5
           /\ i < Sent /\ Event(i + 1) # None => Event(i) = "summary_delta"
<1>1. /\ Log /\ Made \in 0..5 /\ Sent \in Nat /\ worker.pc \in {"running", "deltas", "closing", "done"}
  BY MadeType, Amounts DEF LInv, SInv, StreamTypes, Workers
<1>2. Event(i) = "summary_delta" \/ Event(i) \in Terminals \/ Event(i) = None
  BY <1>1 DEF Log
<1>3. CASE worker.pc = "running"
  BY <1>1, <1>3 DEF Log
<1>4. CASE worker.pc = "deltas"
  BY <1>1, <1>4 DEF Log, Script, None
<1>5. CASE worker.pc = "closing"
  <2>1. Ends(Sent)
    BY <1>1, <1>5 DEF Log
  <2> QED BY <1>1, <2>1 DEF Ends, Script, Terminals, None
<1>6. CASE worker.pc = "done"
  <2>1. Ends(Sent - 1) /\ Event(Sent) = None
    BY <1>1, <1>6 DEF Log
  <2>2. /\ Sent - 1 \in 1..Sent /\ Made <= Sent - 2 /\ Event(Sent - 1) \in Terminals
        /\ Made < Sent - 2 => Made = 5
        /\ \A k \in 1..Sent : Made < k /\ k <= Sent - 2 => Event(k) = "summary_delta"
    BY <1>1, <2>1 DEF Ends, Script
  <2>3. CASE i = Sent
    BY <1>1, <1>6, <2>1, <2>2, <2>3 DEF None
  <2>4. CASE i = Sent - 1
    BY <1>1, <2>1, <2>2, <2>4 DEF Terminals, None
  <2>5. CASE i <= Sent - 2
    BY <1>1, <2>2, <2>5 DEF None
  <2> QED BY <1>1, <2>3, <2>4, <2>5
<1> QED BY <1>1, <1>3, <1>4, <1>5, <1>6

LEMMA TakeKeepsLog == ASSUME LInv, Take PROVE Log'
<1>1. /\ Log /\ StreamTypes /\ client = "open" /\ Made \in 0..5
      /\ worker' = worker /\ Made' = Made
  BY MadeType DEF LInv, SInv, Take, pipelineVars, Made
<1>2. /\ Sent \in Nat /\ Len(delivered) < Sent /\ Len(delivered) \in Nat /\ Len(outbox) \in Nat
      /\ Head(outbox) = Event(Len(delivered) + 1) /\ Sent = Len(outbox) + Len(delivered)
  BY <1>1, TakeLog DEF StreamTypes, Sent
<1>3. CASE Head(outbox) # None
  <2>1. Sent' = Sent /\ \A i \in 1..Sent : Event(i)' = Event(i)
    BY <1>1, <1>3, TakeLog
  <2>2. client' = client
    BY <1>3 DEF Take
  <2>3. ASSUME NEW n \in Nat PROVE (Script(n) => Script(n)') /\ (Ends(n) => Ends(n)')
    BY <1>1, <2>1 DEF Script, Ends
  <2>4. PICK n \in Nat : n = Sent
    BY <1>2
  <2>5. /\ worker.pc = "deltas" => Script(Sent)'
        /\ worker.pc = "closing" => Ends(Sent)'
    <3>1. (Script(n)' => Script(Sent)') /\ (Ends(n)' => Ends(Sent)')
      BY <2>1, <2>4
    <3> QED BY <1>1, <2>3, <2>4, <3>1 DEF Log
  <2>6. worker.pc = "done" => (Sent >= 1 /\ Event(Sent) = None /\ Ends(Sent - 1))'
    <3>1. SUFFICES ASSUME worker.pc = "done"
                   PROVE  (Sent >= 1 /\ Event(Sent) = None /\ Ends(Sent - 1))'
      OBVIOUS
    <3>2. Sent >= 1 /\ Event(Sent) = None /\ Ends(Sent - 1)
      BY <1>1, <3>1 DEF Log
    <3>3. PICK m \in Nat : m = Sent - 1
      BY <1>2, <3>2
    <3>4. Ends(m)' /\ Sent' - 1 = m
      BY <2>1, <2>3, <3>2, <3>3
    <3>5. Event(n)' = None /\ n >= 1 /\ n = Sent'
      BY <2>1, <2>4, <3>2
    <3> QED BY <3>4, <3>5
  <2> QED BY <1>1, <2>1, <2>2, <2>5, <2>6 DEF Log
<1>4. CASE Head(outbox) = None
  <2>1. /\ Sent' = Sent - 1 /\ Len(outbox') = Len(outbox) - 1
        /\ \A i \in 1..Len(delivered) : Event(i)' = Event(i)
    BY <1>1, <1>4, TakeLog
  <2>2. PICK n \in 1..Sent : n = Len(delivered) + 1
    BY <1>2
  <2>3. Made < n
    <3>1. CASE n <= Made
      <4>1. None = Stages[n] /\ n \in 1..5
        BY <1>1, <1>2, <1>4, <2>2, <3>1 DEF Log
      <4> QED BY <4>1 DEF Stages, None
    <3> QED BY <1>1, <3>1
  <2>4. n = Sent /\ worker.pc = "done"
    BY <1>1, <1>2, <1>4, <2>2, <2>3, Positions
  <2>5. outbox' = <<>>
    <3>1. outbox' \in Seq(Events \cup {None}) /\ Len(outbox') = 0
      BY <1>1, <1>2, <2>1, <2>2, <2>4 DEF StreamTypes, Take
    <3> QED BY <3>1
  <2>6. client' = "ended"
    BY <1>4 DEF Take
  <2>7. \A i \in 1..Sent' : i \in 1..Sent /\ Event(i)' = Event(i)
    BY <1>2, <2>1, <2>2, <2>4
  <2> QED BY <1>1, <2>4, <2>5, <2>6, <2>7 DEF Log
<1> QED BY <1>3, <1>4

LEMMA WorkKeepsLog == ASSUME LInv, Work PROVE Log'
<1>1. /\ PInv /\ Log /\ Streamer \in Threads /\ worker \in Workers /\ Made \in 0..5
      /\ announced \in [Threads -> 0..5] /\ {"summary_delta", "final", "error"} \subseteq Events
  BY MadeType, StagesLength, StreamAssumption
  DEF LInv, SInv, StreamTypes, PInv, TypeOK, Events
<1>2. CASE PipelineStep
  <2>1. /\ worker.pc = "running" /\ UNCHANGED <<worker, client, delivered>>
        /\ Begin(Streamer) \/ Step(Streamer)
        /\ IF announced' = announced THEN UNCHANGED outbox ELSE Put(Announced)
    BY <1>2 DEF PipelineStep, Running
  <2>2. CASE announced' = announced
    BY <2>1, <2>2, QuietLog DEF Made
  <2>3. CASE announced' # announced
    <3>1. Made' = Made + 1
      BY <1>1, <2>1, <2>3, AnnounceStep DEF Made
    <3>2. Made' \in 0..5
      <4>1. [Next]_pipelineVars
        BY <1>1, <2>1 DEF Next
      <4> QED BY <1>1, <4>1, PInvNext, StagesLength, StreamAssumption DEF PInv, TypeOK, Made
    <3>3. Announced = Stages[Made + 1] /\ Announced \in Events
      <4>1. Made' \in 1..5 /\ Announced = Stages[Made']
        BY <1>1, <3>1, <3>2 DEF Announced, Made
      <4> QED BY <3>1, <4>1 DEF Events, StageEvents, Stages
    <3> QED BY <2>1, <2>3, <3>1, <3>3, GrowLog
  <2> QED BY <2>2, <2>3
<1>3. CASE Succeed
  <2>1. PICK n \in 0..MaxDeltas :
            worker' = [pc |-> "deltas", deltas |-> n] /\ (n > 0 => run[Streamer].outcome = "success")
    BY <1>3 DEF Succeed
  <2>2. /\ UNCHANGED <<pipelineVars, outbox, client, delivered>> /\ worker.pc = "running"
    BY <1>3 DEF Succeed, Returns, Running
  <2>3. /\ Made' = Made /\ Sent' = Sent /\ \A i : Event(i)' = Event(i)
        /\ worker'.pc = "deltas" /\ worker'.deltas = n
    BY <2>1, <2>2 DEF Made, Sent, Event, pipelineVars
  <2>4. Sent = Made
    BY <1>1, <2>2 DEF Log
  <2>5. n > 0 => Made = 5
    BY <1>1, <2>1 DEF PInv, Counted, Made
  <2>6. Script(Sent)'
    BY <1>1, <2>3, <2>4 DEF Script
  <2> QED BY <1>1, <2>2, <2>3, <2>5, <2>6 DEF Log
<1>4. CASE Fail \/ PutFinal \/ CatchException
  <2>1. PICK event \in Terminals : Put(event)
    BY <1>4 DEF Fail, PutFinal, CatchException, Terminals
  <2>2. /\ UNCHANGED <<pipelineVars, client, delivered>> /\ worker' = [worker EXCEPT !.pc = "closing"]
        /\ worker.pc \in {"running", "deltas"}
    BY <1>4 DEF Fail, PutFinal, CatchException, Returns, Running
  <2>3. worker'.pc = "closing" /\ Made' = Made /\ event \in Events
    BY <1>1, <2>1, <2>2 DEF Workers, Made, pipelineVars, Terminals
  <2> QED BY <2>1, <2>2, <2>3, GrowLog
<1>5. CASE PutDelta
  <2>1. /\ worker.pc = "deltas" /\ worker.deltas > 0 /\ Put("summary_delta")
        /\ worker' = [worker EXCEPT !.deltas = @ - 1] /\ UNCHANGED <<pipelineVars, client, delivered>>
    BY <1>5 DEF PutDelta
  <2>2. worker'.pc = "deltas" /\ Made' = Made
    BY <1>1, <2>1 DEF Workers, Made, pipelineVars
  <2> QED BY <1>1, <2>1, <2>2, GrowLog
<1>6. CASE Close
  <2>1. /\ worker.pc = "closing" /\ Put(None) /\ UNCHANGED <<pipelineVars, client, delivered>>
        /\ worker' = [worker EXCEPT !.pc = "done"]
    BY <1>6 DEF Close
  <2>2. worker'.pc = "done" /\ Made' = Made
    BY <1>1, <2>1 DEF Workers, Made, pipelineVars
  <2> QED BY <1>1, <2>1, <2>2, GrowLog
<1> QED BY <1>2, <1>3, <1>4, <1>5, <1>6 DEF Work

(* The steps of the other threads leave the worker's count alone.           *)
LEMMA OthersKeepMade == ASSUME PInv, OtherStep PROVE Made' = Made
<1>1. announced \in [Threads -> 0..5]
  BY StagesLength DEF PInv, TypeOK
<1>2. PICK h \in Threads \ {Streamer} : Begin(h) \/ Step(h) \/ Leave(h)
  BY DEF OtherStep
<1>3. CASE Leave(h)
  BY <1>1, <1>2, <1>3, StreamAssumption DEF Leave, Made
<1>4. CASE Begin(h) \/ Step(h)
  <2>1. announced' = announced \/ announced' = [announced EXCEPT ![h] = @ + 1]
    BY <1>2, <1>4, AnnounceStep
  <2> QED BY <1>1, <1>2, <2>1, StreamAssumption DEF Made
<1> QED BY <1>2, <1>3, <1>4

LEMMA LInvNext == LInv /\ [StreamNext]_allVars => LInv'
<1> SUFFICES ASSUME LInv, [StreamNext]_allVars PROVE LInv'
  OBVIOUS
<1>1. SInv'
  BY SInvNext DEF LInv
<1>2. CASE Work
  BY <1>2, WorkKeepsLog, <1>1 DEF LInv
<1>3. CASE Take
  BY <1>3, TakeKeepsLog, <1>1 DEF LInv
<1>4. CASE Disconnect \/ OtherStep \/ UNCHANGED allVars
  <2>1. UNCHANGED <<outbox, delivered, worker>> /\ (client' = client \/ (client = "open" /\ client' = "gone"))
    BY <1>4 DEF Disconnect, OtherStep, streamVars, allVars
  <2>2. Made' = Made
    BY <1>4, OthersKeepMade DEF Disconnect, allVars, pipelineVars, Made, LInv, SInv
  <2> QED BY <1>1, <2>1, <2>2, QuietLog DEF LInv
<1> QED BY <1>2, <1>3, <1>4 DEF StreamNext

(* The stages the client has seen, as the first n of the pipeline's.        *)
First(n) == [i \in 1..n |-> Stages[i]]
Shown == IF Len(delivered) <= Made THEN Len(delivered) ELSE Made

LEMMA Firsts ==
    ASSUME NEW n \in 0..5
    PROVE  Len(First(n)) = n /\ First(n) = SubSeq(Stages, 1, n)
           /\ First(0) = <<>> /\ First(5) = Stages /\ DOMAIN Stages = 1..5
<1>1. Len(First(n)) = n
  BY DEF First
<1>2. First(n) = SubSeq(Stages, 1, n)
  BY DEF First
<1>3. First(0) = <<>>
  BY DEF First
<1>4. First(5) = Stages
  BY StagesLength DEF First, Stages
<1>5. DOMAIN Stages = 1..5
  BY DEF Stages
<1> QED BY <1>1, <1>2, <1>3, <1>4, <1>5

LEMMA SeenShape == ASSUME LInv PROVE Shown \in 0..5 /\ Seen = First(Shown)
<1>1. /\ Log /\ Made \in 0..5 /\ Len(delivered) \in Nat /\ Len(outbox) \in Nat
      /\ DOMAIN delivered = 1..Len(delivered)
  BY MadeType, Amounts DEF LInv, SInv, StreamTypes
<1>2. ASSUME NEW k \in 1..Len(delivered)
      PROVE  /\ k <= Made => delivered[k] = Stages[k] /\ delivered[k] \in StageEvents
             /\ Made < k => delivered[k] \notin StageEvents
  <2>1. k \in 1..Sent /\ Event(k) = delivered[k]
    BY <1>1 DEF Sent, Event
  <2>2. CASE k <= Made
    <3>1. delivered[k] = Stages[k] /\ k \in 1..5
      BY <1>1, <2>1, <2>2 DEF Log
    <3> QED BY <1>1, <2>2, <3>1 DEF StageEvents, Stages
  <2>3. CASE Made < k
    <3>1. delivered[k] \in Terminals \cup {"summary_delta", None}
      BY <1>1, <2>1, <2>3 DEF Log
    <3>2. (Terminals \cup {"summary_delta", None}) \cap StageEvents = {}
      BY Firsts DEF Terminals, None, StageEvents, Stages
    <3> QED BY <1>1, <2>3, <3>1, <3>2
  <2> QED BY <1>1, <2>2, <2>3
<1>3. Shown \in 0..5 /\ \A k \in Nat : k \in 1..Shown <=> k \in 1..Len(delivered) /\ k <= Made
  BY <1>1 DEF Shown
<1>4. {k \in DOMAIN delivered : delivered[k] \in StageEvents} = 1..Shown
  BY <1>1, <1>2, <1>3
<1>5. \A k \in 1..Shown : delivered[k] = Stages[k]
  BY <1>1, <1>2, <1>3
<1> QED BY <1>3, <1>4, <1>5 DEF Seen, First

LEMMA PhaseShape ==
    ASSUME LInv, client = "open"
    PROVE  /\ Len(delivered) <= Made => Phase = "stages"
           /\ Len(delivered) > Made =>
                 /\ Event(Len(delivered)) \in Terminals \cup {"summary_delta"}
                 /\ Event(Len(delivered)) = "summary_delta" => Phase = "deltas"
                 /\ Event(Len(delivered)) \in Terminals => Phase = Event(Len(delivered))
<1>1. /\ Log /\ Made \in 0..5 /\ Len(delivered) \in Nat /\ Len(outbox) \in Nat
      /\ delivered \in Seq(Events) /\ Sent \in Nat
  BY MadeType, Amounts DEF LInv, SInv, StreamTypes
<1>2. CASE Len(delivered) = 0
  BY <1>1, <1>2 DEF Phase
<1>3. CASE Len(delivered) > 0
  <2>1. PICK n \in 1..Sent : n = Len(delivered)
    BY <1>1, <1>3 DEF Sent
  <2>2. /\ delivered # <<>> /\ Event(n) = delivered[n] /\ delivered[n] \in Events
    BY <1>1, <1>3, <2>1 DEF Event
  <2>3. CASE n <= Made
    <3>1. delivered[n] = Stages[n] /\ n \in 1..5
      BY <1>1, <2>1, <2>2, <2>3 DEF Log
    <3>2. delivered[n] \in StageEvents
      BY <3>1 DEF StageEvents, Stages
    <3> QED BY <1>1, <2>1, <2>3, <3>2 DEF Phase
  <2>4. CASE n > Made
    <3>1. delivered[n] \in Terminals \cup {"summary_delta", None}
      BY <1>1, <2>1, <2>2, <2>4 DEF Log
    <3>2. None \notin Events /\ (Terminals \cup {"summary_delta"}) \cap StageEvents = {}
          /\ "summary_delta" \notin Terminals
      BY Firsts DEF Terminals, None, Events, StageEvents, Stages
    <3>3. delivered[n] \in Terminals \cup {"summary_delta"} /\ delivered[n] \notin StageEvents
      BY <2>2, <3>1, <3>2
    <3> QED BY <1>1, <2>1, <2>2, <2>4, <3>2, <3>3 DEF Phase
  <2> QED BY <1>1, <2>1, <2>3, <2>4
<1> QED BY <1>1, <1>2, <1>3

(* What the client has seen, and where the stream stands for it. *)
Shapes ==
    /\ Shown \in 0..5 /\ Seen = First(Shown)
    /\ client = "open" /\ Len(delivered) <= Made => Phase = "stages"
    /\ client = "open" /\ Len(delivered) > Made =>
          /\ Event(Len(delivered)) \in Terminals \cup {"summary_delta"}
          /\ Event(Len(delivered)) = "summary_delta" => Phase = "deltas"
          /\ Event(Len(delivered)) \in Terminals => Phase = Event(Len(delivered))

LEMMA ShapesHold == LInv => Shapes
  BY SeenShape, PhaseShape DEF Shapes

LEMMA ShapesHoldNext == LInv' => Shapes'
  BY ShapesHold, PTL

(* What the client is sent is a step of the protocol. *)
LEMMA TakeFollows == ASSUME LInv, Take, LInv' PROVE [Protocol!Next]_<<Seen, Phase>>
<1>1. /\ client = "open" /\ Log /\ StreamTypes /\ Made \in 0..5 /\ Made' = Made
      /\ Len(delivered) \in Nat /\ Len(outbox) \in Nat /\ Sent = Len(outbox) + Len(delivered)
  BY MadeType, Amounts DEF LInv, SInv, Take, pipelineVars, Made, Sent
<1>2. Len(delivered) < Sent /\ Head(outbox) = Event(Len(delivered) + 1) /\ Sent \in Nat
  BY <1>1, TakeLog
<1>3. PICK n \in Nat : n = Len(delivered)
  BY <1>1
<1>4. Seen = First(Shown) /\ Seen' = First(Shown') /\ Shown \in 0..5
  <2>1. Shapes /\ Shapes'
    BY ShapesHold, ShapesHoldNext
  <2>2. First(Shown)' = First(Shown')
    BY DEF First
  <2> QED BY <2>1, <2>2 DEF Shapes
<1>5. n + 1 \in 1..Sent
  BY <1>1, <1>2, <1>3
<1>6. CASE Head(outbox) = None
  <2>1. delivered' = delivered /\ client' = "ended"
    BY <1>6 DEF Take
  <2>2. Made < n + 1
    <3>1. CASE n + 1 <= Made
      <4>1. None = Stages[n + 1] /\ n + 1 \in 1..5
        BY <1>1, <1>2, <1>3, <1>5, <1>6, <3>1 DEF Log
      <4> QED BY <4>1 DEF Stages, None
    <3> QED BY <1>1, <3>1
  <2>3. n \in 1..Sent /\ Made < n /\ Event(n) \in Terminals
    <3>1. n + 1 - 1 \in 1..Sent /\ Made < n + 1 - 1 /\ Event(n + 1 - 1) \in Terminals
      BY <1>1, <1>2, <1>3, <1>5, <1>6, <2>2, Positions
    <3> QED BY <3>1
  <2>4. Phase \in {"final", "error"}
    BY <1>1, <1>3, <2>3, PhaseShape DEF Terminals
  <2>5. Seen' = Seen /\ Phase' = "ended"
    BY <2>1 DEF Seen, Phase
  <2> QED BY <2>4, <2>5 DEF Protocol!Next, Protocol!End
<1>7. CASE Head(outbox) # None
  <2>1. /\ client' = "open" /\ Len(delivered') = n + 1
        /\ \A i \in 1..Sent : Event(i)' = Event(i)
    BY <1>1, <1>3, <1>7, TakeLog DEF Take
  <2>2. Event(Len(delivered))' = Event(n + 1)
    <3>1. Event(n + 1)' = Event(n + 1)
      BY <1>5, <2>1
    <3> QED BY <2>1, <3>1 DEF Event
  <2>3. /\ n + 1 <= Made => Phase' = "stages"
        /\ n + 1 > Made =>
              /\ Event(n + 1) \in Terminals \cup {"summary_delta"}
              /\ Event(n + 1) = "summary_delta" => Phase' = "deltas"
              /\ Event(n + 1) \in Terminals => Phase' = Event(n + 1)
    <3>1. Shapes'
      BY ShapesHoldNext
    <3>2. /\ Len(delivered') <= Made' => Phase' = "stages"
          /\ Len(delivered') > Made' =>
                /\ Event(Len(delivered))' \in Terminals \cup {"summary_delta"}
                /\ Event(Len(delivered))' = "summary_delta" => Phase' = "deltas"
                /\ Event(Len(delivered))' \in Terminals => Phase' = Event(Len(delivered))'
      BY <2>1, <3>1 DEF Shapes, Terminals
    <3> QED BY <1>1, <2>1, <2>2, <3>2
  <2>4. n > Made => n \in 1..Sent /\ Phase = "deltas"
    <3>1. SUFFICES ASSUME n > Made PROVE n \in 1..Sent /\ Phase = "deltas"
      OBVIOUS
    <3>2. n \in 1..Sent /\ n < Sent
      BY <1>1, <1>2, <1>3, <3>1
    <3>3. Event(n) = "summary_delta"
      BY <1>1, <1>2, <1>3, <1>7, <3>1, <3>2, Positions
    <3> QED BY <1>1, <1>3, <3>1, <3>2, <3>3, PhaseShape
  <2>5. n <= Made => Phase = "stages"
    BY <1>1, <1>3, PhaseShape
  <2>6. CASE n + 1 <= Made
    <3>1. Shown = n /\ Shown' = n + 1
      BY <1>1, <1>3, <2>1, <2>6 DEF Shown
    <3>2. Seen' = SubSeq(Stages, 1, n + 1) /\ Len(Seen) = n /\ n + 1 \in DOMAIN Stages
      <4>1. n \in 0..5 /\ n + 1 \in 0..5 /\ n + 1 \in 1..5
        BY <1>1, <2>6
      <4>2. Seen = First(n) /\ Seen' = First(n + 1)
        BY <1>4, <3>1
      <4> QED BY <4>1, <4>2, Firsts
    <3>3. Phase = "stages" /\ Phase' = Phase
      BY <1>1, <2>3, <2>5, <2>6
    <3>4. Protocol!Announce
      BY <3>2, <3>3 DEF Protocol!Announce
    <3> QED BY <3>4 DEF Protocol!Next
  <2>7. CASE n + 1 > Made
    <3>1. Shown = Made /\ Shown' = Made /\ Seen' = Seen
      BY <1>1, <1>3, <1>4, <2>1, <2>7 DEF Shown
    <3>2. CASE Event(n + 1) = "summary_delta"
      <4>1. Made = 5 /\ Phase' = "deltas"
        BY <1>1, <1>5, <2>3, <2>7, <3>2, Positions
      <4>2. CASE n <= Made
        <5>1. Seen = Stages /\ Phase = "stages"
          BY <1>4, <2>5, <3>1, <4>1, <4>2, Firsts
        <5> QED BY <3>1, <4>1, <5>1 DEF Protocol!Next, Protocol!Summarise
      <4>3. CASE n > Made
        BY <2>4, <3>1, <4>1, <4>3
      <4> QED BY <1>1, <4>2, <4>3
    <3>3. CASE Event(n + 1) \in Terminals
      <4>1. Phase' \in {"final", "error"}
        BY <2>3, <2>7, <3>3 DEF Terminals
      <4>2. Phase \in {"stages", "deltas"}
        BY <1>1, <2>4, <2>5
      <4> QED BY <3>1, <4>1, <4>2 DEF Protocol!Next, Protocol!Conclude
    <3> QED BY <2>3, <2>7, <3>2, <3>3
  <2> QED BY <1>1, <2>6, <2>7
<1> QED BY <1>6, <1>7

(* Nothing else changes what the client sees, but its going away. *)
LEMMA ProtocolStep ==
    ASSUME LInv, [StreamNext]_allVars, LInv'
    PROVE  [Protocol!Next]_<<Seen, Phase>>
<1>1. CASE Take
  BY <1>1, TakeFollows
<1>2. CASE Disconnect
  <2>1. client = "open" /\ client' = "gone" /\ delivered' = delivered
    BY <1>2 DEF Disconnect
  <2>2. Seen' = Seen /\ Phase' = "gone"
    BY <2>1 DEF Seen, Phase
  <2>3. Phase \in {"stages", "deltas", "final", "error"}
    <3>1. Made \in 0..5 /\ Len(delivered) \in Nat
      BY MadeType, Amounts DEF LInv, SInv
    <3> QED BY <2>1, <3>1, PhaseShape DEF Terminals
  <2> QED BY <2>2, <2>3 DEF Protocol!Next, Protocol!Disconnect
<1>3. CASE Work \/ OtherStep \/ UNCHANGED allVars
  <2>1. UNCHANGED <<client, delivered>>
    BY <1>3 DEF Work, PipelineStep, Succeed, Fail, PutDelta, PutFinal, CatchException, Close,
                OtherStep, streamVars, allVars
  <2> QED BY <2>1 DEF Seen, Phase
<1> QED BY <1>1, <1>2, <1>3 DEF StreamNext

\* The order the docstring of api/stream.py promises: stages as the pipeline
\* goes through them, deltas behind the last one only, one terminal event
\* and then the end, for every number of threads, word groups and failures.
THEOREM StreamImplementsProtocol == StreamSpec => ImplementsProtocol
<1>1. StreamInit => Protocol!Init
  <2>1. StreamInit => Seen = <<>> /\ Phase = "stages"
    BY DEF StreamInit, Seen, Phase
  <2> QED BY <2>1 DEF Protocol!Init
<1>2. LInv /\ [StreamNext]_allVars => [Protocol!Next]_(Protocol!protocolVars)
  BY LInvNext, ProtocolStep DEF Protocol!protocolVars
<1> QED BY <1>1, <1>2, LInvInit, LInvNext, PTL DEF StreamSpec, ImplementsProtocol, Protocol!Spec

-----------------------------------------------------------------------------
(* Headway: what StreamEnds needs besides fairness *)

(* How many steps a run has before it.  Only the probe leads back, from     *)
(* "probe" to "dialect", and not once something is pinned.                  *)
Ahead(pc, pin) ==
    CASE pc = "idle" -> 11
      [] pc = "knowledge" -> 10
      [] pc = "digest" -> 9
      [] pc = "examples" -> 8
      [] pc = "dialect" -> IF pin = "unknown" THEN 7 ELSE 5
      [] pc = "probe" -> 6
      [] pc = "generate" -> 4
      [] pc = "validate" -> 3
      [] pc = "execute" -> 2
      [] pc = "summarize" -> 1
      [] pc = "ended" -> 0

StepsLeft(h) == Ahead(run[h].pc, pinned)

WorkLeft ==
    CASE worker.pc = "running" -> StepsLeft(Streamer) + MaxDeltas + 3
      [] worker.pc = "deltas" -> worker.deltas + 2
      [] worker.pc = "closing" -> 1
      [] worker.pc = "done" -> 0

LEMMA AheadTyped ==
  ASSUME NEW r \in Runs, NEW pin, NEW pin2, pin # "unknown" => pin2 # "unknown"
  PROVE  Ahead(r.pc, pin) \in 0..11 /\ Ahead(r.pc, pin2) <= Ahead(r.pc, pin)
<1>1. PICK pc : pc = r.pc
  OBVIOUS
<1>2. pc \in {"idle", "knowledge", "digest", "examples", "dialect", "probe", "generate",
             "validate", "execute", "summarize", "ended"}
  BY <1>1 DEF Runs
<1>3. CASE pc = "dialect"
  <2>1. /\ Ahead(pc, pin) = IF pin = "unknown" THEN 7 ELSE 5
        /\ Ahead(pc, pin2) = IF pin2 = "unknown" THEN 7 ELSE 5
    BY <1>3 DEF Ahead
  <2> QED BY <1>1, <2>1
<1>4. CASE pc # "dialect"
  <2>1. Ahead(pc, pin2) = Ahead(pc, pin) /\ Ahead(pc, pin) \in 0..11
    BY <1>2, <1>4 DEF Ahead
  <2> QED BY <1>1, <2>1
<1> QED BY <1>3, <1>4

(* Every step of a run is headway, a probe too, whose answer is pinned.     *)
LEMMA RunMakesHeadway ==
  ASSUME PInv, NEW h \in Threads, Begin(h) \/ Step(h)
  PROVE  StepsLeft(h)' < StepsLeft(h)
<1>1. run \in [Threads -> Runs] /\ database \in Dialects /\ pinned \in Dialects \cup {"unknown"}
  BY DEF PInv, TypeOK
<1>2. \A step : Goto(h, step) => run'[h].pc = step
  BY <1>1 DEF Goto, Runs
<1>3. \A outcome : End(h, outcome) => run'[h].pc = "ended"
  BY <1>1 DEF End, Runs
<1>4. CASE Begin(h)
  <2>1. run[h].pc = "idle" /\ run'[h].pc = "knowledge"
    BY <1>2, <1>4 DEF Begin, At
  <2> QED BY <2>1 DEF StepsLeft, Ahead
<1>5. CASE LoadKnowledge(h)
  <2>1. run[h].pc = "knowledge" /\ run'[h].pc \in {"digest", "ended"}
    BY <1>2, <1>3, <1>5 DEF LoadKnowledge, At
  <2> QED BY <2>1 DEF StepsLeft, Ahead
<1>6. CASE Digest(h)
  <2>1. run[h].pc = "digest" /\ run'[h].pc \in {"examples", "ended"}
    BY <1>2, <1>3, <1>6 DEF Digest, At, LLMRaises
  <2> QED BY <2>1 DEF StepsLeft, Ahead
<1>7. CASE RetrieveExamples(h)
  <2>1. run[h].pc = "examples" /\ run'[h].pc = "dialect"
    BY <1>2, <1>7 DEF RetrieveExamples, At
  <2> QED BY <2>1 DEF StepsLeft, Ahead
<1>8. CASE StartProbe(h)
  <2>1. run[h].pc = "dialect" /\ run'[h].pc = "probe" /\ pinned = "unknown"
    BY <1>2, <1>8 DEF StartProbe, At
  <2> QED BY <2>1 DEF StepsLeft, Ahead
<1>9. CASE EndProbe(h)
  <2>1. run[h].pc = "probe" /\ run'[h].pc = "dialect" /\ pinned' # "unknown"
    BY <1>1, <1>2, <1>9 DEF EndProbe, At, FailedProbe, Dialects
  <2> QED BY <2>1 DEF StepsLeft, Ahead
<1>10. CASE BuildPrompt(h)
  <2>1. run[h].pc = "dialect" /\ run'[h].pc = "generate"
    BY <1>1, <1>10 DEF BuildPrompt, At, Runs
  <2> QED BY <2>1 DEF StepsLeft, Ahead
<1>11. CASE Generate(h)
  <2>1. run[h].pc = "generate" /\ run'[h].pc \in {"validate", "ended"}
    BY <1>2, <1>3, <1>11 DEF Generate, At, LLMRaises
  <2> QED BY <2>1 DEF StepsLeft, Ahead
<1>12. CASE Validate(h)
  <2>1. PICK s \in Statements :
           run' = [run EXCEPT ![h].pc = IF Valid(s) THEN "execute" ELSE "ended",
                              ![h].parser = pinned,
                              ![h].outcome = IF Valid(s) THEN "none" ELSE "rejected"]
    BY <1>12 DEF Validate
  <2>2. run[h].pc = "validate" /\ run'[h].pc \in {"execute", "ended"}
    BY <1>1, <1>12, <2>1 DEF Validate, At, Runs
  <2> QED BY <2>2 DEF StepsLeft, Ahead
<1>13. CASE Execute(h)
  <2>1. run[h].pc = "execute" /\ run'[h].pc \in {"summarize", "ended"}
    BY <1>2, <1>3, <1>13 DEF Execute, At
  <2> QED BY <2>1 DEF StepsLeft, Ahead
<1>14. CASE Summarize(h)
  <2>1. run[h].pc = "summarize" /\ run'[h].pc = "ended"
    BY <1>3, <1>14 DEF Summarize, At, LLMRaises
  <2> QED BY <2>1 DEF StepsLeft, Ahead
<1> QED BY <1>4, <1>5, <1>6, <1>7, <1>8, <1>9, <1>10, <1>11, <1>12, <1>13, <1>14 DEF Step

(* Nothing that is pinned is forgotten, and a run is its own thread's. *)
LEMMA OthersLeaveRun ==
  ASSUME PInv, NEW h \in Threads, NEW g \in Threads \ {h}, Begin(g) \/ Step(g) \/ Leave(g)
  PROVE  run'[h] = run[h] /\ StepsLeft(h)' <= StepsLeft(h)
<1>1. run \in [Threads -> Runs] /\ database \in Dialects
  BY DEF PInv, TypeOK
<1>2. run'[h] = run[h]
  BY <1>1 DEF Begin, Step, Leave, LoadKnowledge, Digest, RetrieveExamples, StartProbe, EndProbe,
             BuildPrompt, Generate, Validate, Execute, Summarize, Goto, End, LLMRaises
<1>3. pinned # "unknown" => pinned' # "unknown"
  <2>1. CASE EndProbe(g)
    BY <1>1, <2>1 DEF EndProbe, FailedProbe, Dialects
  <2>2. CASE ~EndProbe(g)
    BY <2>2 DEF Begin, Step, Leave, LoadKnowledge, Digest, RetrieveExamples, StartProbe,
               BuildPrompt, Generate, Validate, Execute, Summarize, storeVars
  <2> QED BY <2>1, <2>2
<1>4. PICK r, pin, pin2 : r \in Runs /\ r = run[h] /\ pin = pinned /\ pin2 = pinned'
  BY <1>1
<1>5. StepsLeft(h) = Ahead(r.pc, pin) /\ StepsLeft(h)' = Ahead(r.pc, pin2)
  BY <1>2, <1>4 DEF StepsLeft
<1> QED BY <1>2, <1>3, <1>4, <1>5, AheadTyped

LEMMA StepsLeftTyped == PInv => \A h \in Threads : StepsLeft(h) \in 0..11
<1> SUFFICES ASSUME PInv, NEW h \in Threads PROVE StepsLeft(h) \in 0..11
  OBVIOUS
<1>1. run[h] \in Runs
  BY DEF PInv, TypeOK
<1> QED BY <1>1, AheadTyped DEF StepsLeft

LEMMA StepsLeftTypedNext == PInv' => (\A h \in Threads : StepsLeft(h) \in 0..11)'
  BY StepsLeftTyped, PTL

LEMMA WorkLeftTyped == SInv => WorkLeft \in 0..(14 + MaxDeltas)
<1> SUFFICES ASSUME SInv PROVE WorkLeft \in 0..(14 + MaxDeltas)
  OBVIOUS
<1>1. /\ MaxDeltas \in Nat /\ worker.deltas \in 0..MaxDeltas
      /\ worker.pc \in {"running", "deltas", "closing", "done"}
  BY Amounts DEF SInv
<1>2. StepsLeft(Streamer) \in 0..11
  BY StepsLeftTyped, StreamAssumption DEF SInv
<1>3. CASE worker.pc = "running"
  BY <1>1, <1>2, <1>3 DEF WorkLeft
<1>4. CASE worker.pc # "running"
  BY <1>1, <1>4 DEF WorkLeft
<1> QED BY <1>3, <1>4

LEMMA WorkLeftTypedNext == SInv' => (WorkLeft \in 0..(14 + MaxDeltas))'
  BY WorkLeftTyped, PTL

LEMMA WorkIsHeadway == ASSUME SInv, Work PROVE WorkLeft' < WorkLeft
<1>1. /\ PInv /\ Streamer \in Threads /\ MaxDeltas \in Nat
      /\ worker \in Workers /\ worker.deltas \in 0..MaxDeltas
  BY StreamAssumption DEF SInv, StreamTypes, Workers
<1>2. StepsLeft(Streamer) \in 0..11
  BY <1>1, StepsLeftTyped
<1>3. CASE PipelineStep
  <2>1. StepsLeft(Streamer)' < StepsLeft(Streamer) /\ worker.pc = "running" /\ worker' = worker
    BY <1>1, <1>3, RunMakesHeadway DEF PipelineStep, Running
  <2>2. StepsLeft(Streamer)' \in 0..11
    <3>1. [Next]_pipelineVars
      BY <1>1, <1>3 DEF PipelineStep, Next
    <3>2. PInv'
      BY <1>1, <3>1, PInvNext
    <3> QED BY <1>1, <3>2, StepsLeftTypedNext
  <2>3. WorkLeft = StepsLeft(Streamer) + MaxDeltas + 3
        /\ WorkLeft' = StepsLeft(Streamer)' + MaxDeltas + 3
    BY <2>1 DEF WorkLeft
  <2> QED BY <1>1, <1>2, <2>1, <2>2, <2>3
<1>4. CASE Succeed
  <2>1. PICK n \in 0..MaxDeltas : worker' = [pc |-> "deltas", deltas |-> n]
    BY <1>4 DEF Succeed
  <2>2. WorkLeft = StepsLeft(Streamer) + MaxDeltas + 3 /\ WorkLeft' = n + 2
    BY <1>4, <2>1 DEF Succeed, Returns, Running, WorkLeft
  <2> QED BY <1>1, <1>2, <2>2
<1>5. CASE Fail \/ PutFinal \/ CatchException
  <2>1. worker.pc \in {"running", "deltas"} /\ worker'.pc = "closing"
    BY <1>1, <1>5 DEF Fail, PutFinal, CatchException, Returns, Running, Workers
  <2>2. WorkLeft' = 1
        /\ (WorkLeft = StepsLeft(Streamer) + MaxDeltas + 3 \/ WorkLeft = worker.deltas + 2)
    BY <2>1 DEF WorkLeft
  <2> QED BY <1>1, <1>2, <2>2
<1>6. CASE PutDelta
  <2>1. worker.pc = "deltas" /\ worker'.pc = "deltas" /\ worker'.deltas = worker.deltas - 1
    BY <1>1, <1>6 DEF PutDelta, Workers
  <2>2. WorkLeft = worker.deltas + 2 /\ WorkLeft' = worker'.deltas + 2
    BY <2>1 DEF WorkLeft
  <2> QED BY <1>1, <2>1, <2>2
<1>7. CASE Close
  <2>1. worker.pc = "closing" /\ worker'.pc = "done"
    BY <1>1, <1>7 DEF Close, Workers
  <2> QED BY <2>1 DEF WorkLeft
<1> QED BY <1>3, <1>4, <1>5, <1>6, <1>7 DEF Work

LEMMA OthersLeaveWork ==
  ASSUME SInv, Take \/ Disconnect \/ OtherStep \/ UNCHANGED allVars
  PROVE  WorkLeft' <= WorkLeft
<1>1. /\ PInv /\ Streamer \in Threads /\ MaxDeltas \in Nat
      /\ worker \in Workers /\ worker.deltas \in 0..MaxDeltas
  BY StreamAssumption DEF SInv, StreamTypes, Workers
<1>2. worker' = worker
  BY DEF Take, Disconnect, OtherStep, streamVars, allVars
<1>3. StepsLeft(Streamer)' <= StepsLeft(Streamer) /\ StepsLeft(Streamer)' \in Nat
  <2>1. [Next]_pipelineVars
    BY DEF Take, Disconnect, OtherStep, Next, allVars
  <2>2. StepsLeft(Streamer) \in 0..11 /\ StepsLeft(Streamer)' \in 0..11
    <3>1. PInv'
      BY <1>1, <2>1, PInvNext
    <3> QED BY <1>1, <3>1, StepsLeftTyped, StepsLeftTypedNext
  <2>3. CASE OtherStep
    BY <1>1, <2>2, <2>3, OthersLeaveRun DEF OtherStep
  <2>4. CASE ~OtherStep
    <3>1. run' = run /\ pinned' = pinned
      BY <2>4 DEF Take, Disconnect, allVars, pipelineVars, storeVars
    <3>2. StepsLeft(Streamer)' = StepsLeft(Streamer)
      BY <3>1 DEF StepsLeft
    <3> QED BY <2>2, <3>2
  <2> QED BY <2>3, <2>4
<1>4. worker.pc \in {"running", "deltas", "closing", "done"}
  BY <1>1 DEF Workers
<1>5. CASE worker.pc = "running"
  <2>1. WorkLeft = StepsLeft(Streamer) + MaxDeltas + 3
        /\ WorkLeft' = StepsLeft(Streamer)' + MaxDeltas + 3
    BY <1>2, <1>5 DEF WorkLeft
  <2>2. StepsLeft(Streamer) \in 0..11
    BY <1>1, StepsLeftTyped
  <2> QED BY <1>1, <1>3, <2>1, <2>2
<1>6. CASE worker.pc # "running"
  <2>1. WorkLeft' = WorkLeft /\ WorkLeft \in Nat
    BY <1>1, <1>2, <1>4, <1>6 DEF WorkLeft
  <2> QED BY <2>1
<1> QED BY <1>5, <1>6

(* The worker's thread only ever makes headway, over at most 14 + MaxDeltas *)
(* steps, and no other thread can set it back: not even by probing, nor by  *)
(* making the client go away.                                               *)
THEOREM WorkerMakesHeadway ==
  StreamSpec => [][WorkLeft' <= WorkLeft /\ (Work => WorkLeft' < WorkLeft)]_allVars
<1>1. SInv /\ [StreamNext]_allVars => [WorkLeft' <= WorkLeft /\ (Work => WorkLeft' < WorkLeft)]_allVars
  <2> SUFFICES ASSUME SInv, [StreamNext]_allVars
               PROVE  WorkLeft' <= WorkLeft /\ (Work => WorkLeft' < WorkLeft)
    OBVIOUS
  <2>1. CASE Work
    <3>1. WorkLeft' < WorkLeft
      BY <2>1, WorkIsHeadway
    <3>2. SInv'
      BY SInvNext
    <3>3. WorkLeft \in Nat /\ WorkLeft' \in Nat
      BY <3>2, WorkLeftTyped, WorkLeftTypedNext, StreamAssumption
    <3> QED BY <3>1, <3>3
  <2>2. CASE ~Work
    BY <2>2, OthersLeaveWork DEF StreamNext
  <2> QED BY <2>1, <2>2
<1> QED BY <1>1, SInvInit, SInvNext, PTL DEF StreamSpec

(* A generator that waits on its queue waits for a worker that has not      *)
(* finished: the sentinel of a finished one is in the queue, behind the     *)
(* terminal event.                                                          *)
NeverWaitsInVain == client = "open" /\ worker.pc = "done" => outbox # <<>>

THEOREM SentinelAwaitsClient == StreamSpec => []NeverWaitsInVain
<1>1. LInv => NeverWaitsInVain
  <2> SUFFICES ASSUME LInv, client = "open", worker.pc = "done", outbox = <<>> PROVE FALSE
    BY DEF NeverWaitsInVain
  <2>1. Sent >= 1 /\ Event(Sent) = None
    BY DEF LInv, Log
  <2>2. /\ Len(outbox) = 0 /\ Len(delivered) \in Nat
        /\ \A i \in 1..Len(delivered) : delivered[i] \in Events
    BY DEF LInv, SInv, StreamTypes
  <2>3. Event(Sent) = delivered[Len(delivered)] /\ Len(delivered) \in 1..Len(delivered)
    BY <2>1, <2>2 DEF Sent, Event
  <2>4. None \notin Events
    BY DEF None, Events, StageEvents, Stages
  <2> QED BY <2>1, <2>2, <2>3, <2>4
<1> QED BY <1>1, LInvInit, LInvNext, PTL DEF StreamSpec
=============================================================================
