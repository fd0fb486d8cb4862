-------------------------- MODULE FeedbackFlywheel --------------------------
(***************************************************************************)
(* The feedback flywheel: capture (feedback/capture.py), the mining and    *)
(* decay of after_correction (feedback/hooks.py), the admin's approve,     *)
(* reject and auto_promote_positive (feedback/promotion.py) over the       *)
(* query_feedback and sql_agent_sql_examples tables (feedback/store.py).   *)
(*                                                                         *)
(* Each call of the feedback store commits a transaction of its own, and   *)
(* the handlers run in a thread pool: an actor (an admin request or a      *)
(* request that mines) can be overtaken between any two calls.             *)
(*                                                                         *)
(* One tenant is modelled: the queries on examples filter by tenant.  Its  *)
(* row in sql_agent_tenants exists, or no question of its would have been  *)
(* answered; without it the upsert would insert nothing.  Rows             *)
(* are numbered in id order.  SQL is compared after normalize_sql, so a    *)
(* member of SQLs stands for all texts with one canonical form.  The       *)
(* invalidation at the end of approve is the subject of KnowledgeCache.    *)
(***************************************************************************)
EXTENDS Naturals, Sequences, FiniteSets

CONSTANTS
    Actors,
    Questions,    \* texts of a request that was answered
    Complaints,   \* the texts among them that correct an earlier answer
    SQLs,
    Operations,   \* in use: subset of {"mine", "approve", "reject", "batch"}
    PageLimit,    \* the limit of list_by_status (100 in the code)
    Outages,      \* whether the stores or the embedding call may fail
    MaxRows       \* bound: feedback rows of one behaviour

ASSUME FlywheelAssumption ==
    /\ Complaints \subseteq Questions
    /\ SQLs # {}
    /\ Operations \subseteq {"mine", "approve", "reject", "batch"}
    /\ PageLimit \in Nat
    /\ Outages \in BOOLEAN
    /\ MaxRows \in Nat

VARIABLES
    rows,       \* query_feedback
    examples,   \* sql_agent_sql_examples, unique by (tenant, question)
    actor,      \* what each actor is doing
    torn        \* history: rows whose approval broke off, or met a rejection

vars == <<rows, examples, actor, torn>>

-----------------------------------------------------------------------------

RowIds == 1..MaxRows

Rows == [question : Questions, sql : SQLs, type : {"positive", "negative"},
         status : {"pending", "auto_pending", "approved", "rejected"}]

\* `from` is provenance_feedback_id.
Example == [status : {"approved", "review"}, sql : SQLs, from : RowIds]
NoExample == [status |-> "absent"]

\* `row` is the feedback row in work; `queue` the rows a batch has left, to
\* be taken newest first; `sql` the superseded SQL of a decay and `matches` the examples it still has to
\* demote.
Jobs == [pc : {"idle", "get", "upsert", "mark", "reject_get", "reject_mark",
               "batch", "next", "decay", "demote"},
         row : 0..MaxRows, queue : SUBSET RowIds, sql : SQLs, matches : SUBSET Questions]

NoJob == [pc |-> "idle", row |-> 0, queue |-> {},
          sql |-> CHOOSE s \in SQLs : TRUE, matches |-> {}]

TypeOK ==
    /\ rows \in Seq(Rows) /\ Len(rows) <= MaxRows
    /\ examples \in [Questions -> Example \cup {NoExample}]
    /\ actor \in [Actors -> Jobs]
    /\ torn \subseteq RowIds

Init ==
    /\ rows = <<>>
    /\ examples = [q \in Questions |-> NoExample]
    /\ actor = [a \in Actors |-> NoJob]
    /\ torn = {}

At(a, step) == actor[a].pc = step
Become(a, j) == actor' = [actor EXCEPT ![a] = j]
Finish(a) == Become(a, NoJob)

Insert(row) == Len(rows) < MaxRows /\ rows' = Append(rows, row)
SetStatus(i, status) == rows' = [rows EXCEPT ![i].status = status]

-----------------------------------------------------------------------------
(* Signals come in *)

\* capture: question and SQL come from the stored turn, never the client.
Capture ==
    /\ \E q \in Questions, s \in SQLs, type \in {"positive", "negative"} :
          Insert([question |-> q, sql |-> s, type |-> type, status |-> "pending"])
    /\ UNCHANGED <<examples, actor>>

\* after_correction: the repair is inserted for review, under the text of
\* the request, which is the complaint; the SQL it superseded goes to the
\* decay.
Mine(a) ==
    /\ At(a, "idle") /\ "mine" \in Operations
    /\ \E q \in Complaints, repaired, superseded \in SQLs :
          /\ Insert([question |-> q, sql |-> repaired, type |-> "positive",
                     status |-> "auto_pending"])
          /\ Become(a, [NoJob EXCEPT !.pc = "decay", !.sql = superseded])
    /\ UNCHANGED examples

\* approved_example_sqls, compared with the superseded SQL.
Matching(sql) ==
    {q \in Questions : examples[q].status = "approved" /\ examples[q].sql = sql}

\* _decay, the query.
DecayList(a) ==
    /\ At(a, "decay")
    /\ Become(a, [actor[a] EXCEPT !.pc = "demote", !.matches = Matching(actor[a].sql)])
    /\ UNCHANGED <<rows, examples>>

\* _decay, the loop: demote_example by id, which is never checked again.
\* (The ids' order is left open.)
Demote(a) ==
    /\ At(a, "demote")
    /\ \/ /\ actor[a].matches = {}
          /\ Finish(a)
          /\ UNCHANGED examples
       \/ \E q \in actor[a].matches :
             /\ examples' = [examples EXCEPT ![q].status = "review"]
             /\ Become(a, [actor[a] EXCEPT !.matches = @ \ {q}])
    /\ UNCHANGED rows

-----------------------------------------------------------------------------
(* Review *)

Promotable == {"pending", "auto_pending", "approved"}

\* Mutant: an approved row can be rejected, too.
ReviewableWidened == {"pending", "auto_pending", "review", "approved"}

Reviewable == {"pending", "auto_pending", "review"}

\* Mutant: the row is marked without the promotion before it.
FirstStepSkipped == "mark"

\* After the row was read: the embedding and the upsert come first.
FirstStep == "upsert"

\* The admin approves one row.
StartApprove(a) ==
    /\ At(a, "idle") /\ "approve" \in Operations
    /\ \E i \in 1..Len(rows) : Become(a, [NoJob EXCEPT !.pc = "get", !.row = i])
    /\ UNCHANGED <<rows, examples>>

\* approve: the row is read again and its status checked.
ApproveGet(a) ==
    /\ At(a, "get")
    /\ LET i == actor[a].row IN
       Become(a, IF rows[i].status \in Promotable
                 THEN [actor[a] EXCEPT !.pc = FirstStep]
                 ELSE [actor[a] EXCEPT !.pc = "next"])
    /\ UNCHANGED <<rows, examples>>

\* Mutant: an example that exists keeps its provenance.
KeepsProvenance(i) ==
    LET old == examples[rows[i].question] IN
    [status |-> "approved", sql |-> rows[i].sql,
     from |-> IF old = NoExample THEN i ELSE old.from]

\* Mutant: the provenance is not written.
WithoutProvenance(i) == [status |-> "approved", sql |-> rows[i].sql, from |-> 0]

\* The example row after upsert_approved_example.
Promoted(i) == [status |-> "approved", sql |-> rows[i].sql, from |-> i]

\* approve: the pair is embedded and upserted by question.
ApproveUpsert(a) ==
    /\ At(a, "upsert")
    /\ examples' = [examples EXCEPT ![rows[actor[a].row].question] = Promoted(actor[a].row)]
    /\ Become(a, [actor[a] EXCEPT !.pc = "mark"])
    /\ UNCHANGED rows

\* approve: set_status, by id alone.
ApproveMark(a) ==
    /\ At(a, "mark")
    /\ SetStatus(actor[a].row, "approved")
    /\ Become(a, [actor[a] EXCEPT !.pc = "next"])
    /\ UNCHANGED examples

\* The admin rejects one row.
StartReject(a) ==
    /\ At(a, "idle") /\ "reject" \in Operations
    /\ \E i \in 1..Len(rows) : Become(a, [NoJob EXCEPT !.pc = "reject_get", !.row = i])
    /\ UNCHANGED <<rows, examples>>

\* reject: the row is read and its status checked.
RejectGet(a) ==
    /\ At(a, "reject_get")
    /\ Become(a, IF rows[actor[a].row].status \in Reviewable
                 THEN [actor[a] EXCEPT !.pc = "reject_mark"] ELSE NoJob)
    /\ UNCHANGED <<rows, examples>>

\* reject: set_status, by id alone.
RejectMark(a) ==
    /\ At(a, "reject_mark")
    /\ SetStatus(actor[a].row, "rejected")
    /\ Finish(a)
    /\ UNCHANGED examples

-----------------------------------------------------------------------------
(* auto_promote_positive *)

StartBatch(a) ==
    /\ At(a, "idle") /\ "batch" \in Operations
    /\ Become(a, [NoJob EXCEPT !.pc = "batch"])
    /\ UNCHANGED <<rows, examples>>

Pending == {i \in 1..Len(rows) : rows[i].status = "pending"}

\* Row i is on the page of the PageLimit newest pending rows.
OnPage(i) == Cardinality({n \in Pending : n > i}) < PageLimit

Positive(i) == rows[i].type = "positive"

\* The positive rows of the page.
BatchQueue == {i \in Pending : OnPage(i) /\ Positive(i)}

BatchList(a) ==
    /\ At(a, "batch")
    /\ Become(a, [actor[a] EXCEPT !.pc = "next", !.queue = BatchQueue])
    /\ UNCHANGED <<rows, examples>>

\* The next row of the batch, or the end of the request (which for a single
\* approve comes after its row).
NextRow(a) ==
    /\ At(a, "next")
    /\ \/ actor[a].queue = {} /\ Finish(a)
       \/ \E i \in actor[a].queue :
             /\ \A j \in actor[a].queue : j <= i
             /\ Become(a, [actor[a] EXCEPT !.pc = "get", !.row = i, !.queue = @ \ {i}])
    /\ UNCHANGED <<rows, examples>>

\* A call raises: the request ends where it stands (a typed 503 for the
\* admin, swallowed by _mine_correction), earlier commits stay.
Abort(a) ==
    /\ Outages /\ ~At(a, "idle")
    /\ Finish(a)
    /\ UNCHANGED <<rows, examples>>

-----------------------------------------------------------------------------

Step(a) ==
    \/ Mine(a) \/ DecayList(a) \/ Demote(a)
    \/ StartApprove(a) \/ ApproveGet(a) \/ ApproveUpsert(a) \/ ApproveMark(a)
    \/ StartReject(a) \/ RejectGet(a) \/ RejectMark(a)
    \/ StartBatch(a) \/ BatchList(a) \/ NextRow(a)
    \/ Abort(a)

\* Row i is being approved and rejected, both past their status check.
Overlapping(i) ==
    \E a, b \in Actors :
        /\ actor[a].row = i /\ actor[a].pc \in {"upsert", "mark"}
        /\ actor[b].row = i /\ actor[b].pc = "reject_mark"

\* The rows whose approval ends between its upsert and its mark.
BrokenOff == {actor[a].row : a \in {b \in Actors : At(b, "mark") /\ actor'[b].pc = "idle"}}

Next ==
    /\ Capture \/ \E a \in Actors : Step(a)
    /\ torn' = torn \cup BrokenOff \cup {i \in RowIds : Overlapping(i)'}

Spec == Init /\ [][Next]_vars

-----------------------------------------------------------------------------
(* Whatever runs concurrently and whatever fails *)

\* approve promotes before it marks: however it is interrupted, an approved
\* row has an example for its question.
ApprovedRowsAreTaught ==
    \A i \in 1..Len(rows) :
        rows[i].status = "approved" => examples[rows[i].question] # NoExample

\* The provenance link of an example leads to the row its pair came from,
\* whoever else promoted the same question.
ProvenanceIsExact ==
    \A q \in Questions :
        examples[q] # NoExample =>
            LET row == rows[examples[q].from] IN
            row.question = q /\ row.sql = examples[q].sql

\* "rejected_row_is_not_approvable": no approved example comes from a
\* rejected row, unless the row's approval broke off between its two stores
\* or overlapped the rejection.
RejectedIsNeverTaught ==
    \A q \in Questions :
        examples[q].status = "approved" =>
            rows[examples[q].from].status # "rejected" \/ examples[q].from \in torn
=============================================================================
