----------------------- MODULE FeedbackFlywheelProofs -----------------------
(***************************************************************************)
(* Proofs about FeedbackFlywheel: approved rows are taught, provenance is  *)
(* exact, and a rejected pair is taught only where an approval broke off   *)
(* or overlapped the rejection, for any number of actors, rows, questions  *)
(* and SQL texts.                                                          *)
(***************************************************************************)
EXTENDS FeedbackFlywheel, TLAPS

-----------------------------------------------------------------------------
(* The inductive invariant *)

Ids == 1..Len(rows)

(* The rows a request works on exist; past the upsert its row has an        *)
(* example, and so have the questions a decay is about to demote.           *)
JobOK(j) ==
    /\ j.pc \in {"get", "upsert", "mark", "reject_get", "reject_mark"} => j.row \in Ids
    /\ j.queue \subseteq Ids
    /\ j.pc = "mark" => examples[rows[j.row].question].status # "absent"
    /\ \A q \in j.matches : examples[q].status # "absent"

(* What a request read of its row still holds, or the row is torn.          *)
ReadHolds(j) ==
    /\ j.pc \in {"upsert", "mark"} => rows[j.row].status # "rejected" \/ j.row \in torn
    /\ j.pc = "reject_mark" => rows[j.row].status # "approved" \/ j.row \in torn

JobsOK == \A a \in Actors : JobOK(actor[a]) /\ ReadHolds(actor[a])

OverlapsAreTorn == \A i \in RowIds : Overlapping(i) => i \in torn

Marking(i) == \E a \in Actors : At(a, "mark") /\ actor[a].row = i

(* The row behind an approved example is approved, about to be, or torn.    *)
Covered ==
    \A q \in Questions :
        examples[q].status = "approved" =>
            \/ examples[q].from \in torn
            \/ rows[examples[q].from].status = "approved"
            \/ Marking(examples[q].from)

Taught ==
    \A i \in Ids : rows[i].status = "approved" => examples[rows[i].question].status # "absent"

Traced ==
    \A q \in Questions :
        examples[q].status # "absent" =>
            /\ examples[q].from \in Ids
            /\ rows[examples[q].from].question = q
            /\ rows[examples[q].from].sql = examples[q].sql

IInv ==
    /\ TypeOK
    /\ JobsOK
    /\ OverlapsAreTorn
    /\ Covered
    /\ Taught
    /\ Traced

(* The history after any step. *)
TornNext == torn' = torn \cup BrokenOff \cup {i \in RowIds : Overlapping(i)'}

-----------------------------------------------------------------------------

LEMMA ExampleType ==
    /\ NoExample.status = "absent"
    /\ \A e \in Example \cup {NoExample} : e.status # "absent" <=> e \in Example
    /\ \A e \in Example : e.status \in {"approved", "review"} /\ e.sql \in SQLs /\ e.from \in RowIds
  BY DEF Example, NoExample

LEMMA RowType ==
    ASSUME TypeOK
    PROVE  /\ Len(rows) \in Nat /\ MaxRows \in Nat /\ Ids \subseteq RowIds
           /\ \A i \in Ids : rows[i] \in Rows /\ rows[i].question \in Questions
                             /\ rows[i].sql \in SQLs
<1>1. Len(rows) \in Nat /\ Len(rows) <= MaxRows /\ MaxRows \in Nat
  BY FlywheelAssumption DEF TypeOK
<1>2. \A i \in Ids : rows[i] \in Rows
  BY DEF TypeOK, Ids
<1> QED
  BY <1>1, <1>2 DEF Rows, Ids, RowIds

LEMMA NoJobType ==
    /\ NoJob \in Jobs
    /\ NoJob.pc = "idle" /\ NoJob.queue = {} /\ NoJob.matches = {}
<1>1. NoJob.sql \in SQLs
  BY FlywheelAssumption DEF NoJob
<1>2. 0 \in 0..MaxRows
  BY FlywheelAssumption
<1> QED
  BY <1>1, <1>2 DEF NoJob, Jobs

LEMMA IInvInit == Init => IInv
<1> SUFFICES ASSUME Init PROVE IInv
  OBVIOUS
<1>1. Len(rows) = 0 /\ rows \in Seq(Rows) /\ Ids = {}
  BY DEF Init, Ids
<1>2. TypeOK
  BY <1>1, NoJobType, FlywheelAssumption DEF Init, TypeOK
<1>3. \A a \in Actors : actor[a] = NoJob
  BY DEF Init
<1>4. JobsOK
  BY <1>3, NoJobType DEF JobsOK, JobOK, ReadHolds
<1>5. OverlapsAreTorn
  BY <1>3, NoJobType DEF OverlapsAreTorn, Overlapping
<1>6. Covered /\ Taught /\ Traced
  BY <1>1, ExampleType DEF Init, Covered, Taught, Traced
<1> QED
  BY <1>2, <1>4, <1>5, <1>6 DEF IInv

-----------------------------------------------------------------------------
(* Steps that write no row and no example *)

LEMMA TornTypes ==
    ASSUME IInv, TornNext
    PROVE  torn \subseteq torn' /\ torn' \subseteq RowIds /\ OverlapsAreTorn'
<1>1. BrokenOff \subseteq RowIds
  <2> SUFFICES ASSUME NEW a \in Actors, At(a, "mark") PROVE actor[a].row \in RowIds
    BY DEF BrokenOff
  <2>1. actor[a].row \in Ids
    BY DEF IInv, JobsOK, JobOK, At
  <2> QED
    BY <2>1, RowType DEF IInv
<1> QED
  BY <1>1 DEF IInv, TypeOK, TornNext, OverlapsAreTorn

LEMMA JobStep ==
    ASSUME IInv, TornNext, NEW a \in Actors, NEW j \in Jobs,
           actor' = [actor EXCEPT ![a] = j],
           UNCHANGED <<rows, examples>>,
           JobOK(j), ReadHolds(j),
           At(a, "mark") => j.pc = "idle"
    PROVE  IInv'
<1>1. torn \subseteq torn' /\ torn' \subseteq RowIds /\ OverlapsAreTorn'
  BY TornTypes
<1>2. actor \in [Actors -> Jobs] /\ actor'[a] = j
      /\ \A b \in Actors : b # a => actor'[b] = actor[b]
  BY DEF IInv, TypeOK
<1>3. TypeOK'
  BY <1>1 DEF IInv, TypeOK
<1>4. JobsOK'
  <2> SUFFICES ASSUME NEW b \in Actors PROVE JobOK(actor[b])' /\ ReadHolds(actor[b])'
    BY DEF JobsOK
  <2>1. PICK k \in {j, actor[b]} : actor'[b] = k /\ JobOK(k) /\ ReadHolds(k)
    BY <1>2 DEF IInv, JobsOK
  <2> QED
    BY <1>1, <2>1 DEF JobOK, ReadHolds, Ids
<1>5. Covered'
  <2> SUFFICES ASSUME NEW q \in Questions, examples[q].status = "approved",
                      examples[q].from \notin torn',
                      rows[examples[q].from].status # "approved"
               PROVE  Marking(examples[q].from)'
    BY DEF Covered
  <2>1. PICK i : i = examples[q].from
    OBVIOUS
  <2>2. PICK b \in Actors : At(b, "mark") /\ actor[b].row = i
    BY <1>1, <2>1 DEF IInv, Covered, Marking
  <2>3. b # a
    <3> SUFFICES ASSUME b = a PROVE FALSE
      OBVIOUS
    <3>1. actor'[b].pc = "idle"
      BY <1>2, <2>2
    <3>2. i \in BrokenOff
      BY <2>2, <3>1 DEF BrokenOff
    <3> QED
      BY <2>1, <3>2 DEF TornNext
  <2>4. At(b, "mark")' /\ (actor[b].row = i)'
    BY <1>2, <2>1, <2>2, <2>3 DEF At
  <2> QED
    BY <2>1, <2>4 DEF Marking
<1>6. Taught' /\ Traced'
  BY DEF IInv, Taught, Traced, Ids
<1> QED
  BY <1>1, <1>3, <1>4, <1>5, <1>6 DEF IInv

LEMMA FinishStep ==
    ASSUME IInv, TornNext, NEW a \in Actors, Finish(a), UNCHANGED <<rows, examples>>
    PROVE  IInv'
<1>1. JobOK(NoJob) /\ ReadHolds(NoJob)
  BY NoJobType DEF JobOK, ReadHolds
<1> QED
  BY <1>1, NoJobType, JobStep DEF Finish, Become

(* A request is taken up for one row, or reads it and goes on.              *)
LEMMA StartStep ==
    ASSUME IInv, TornNext, NEW a \in Actors, StartApprove(a) \/ StartReject(a) \/ StartBatch(a)
    PROVE  IInv'
<1>1. ~At(a, "mark") /\ UNCHANGED <<rows, examples>>
  BY DEF StartApprove, StartReject, StartBatch, At
<1>2. CASE StartBatch(a)
  <2>1. PICK j : j = [NoJob EXCEPT !.pc = "batch"]
    OBVIOUS
  <2>2. j \in Jobs /\ j.pc = "batch" /\ j.queue = {} /\ j.matches = {}
    BY <2>1, NoJobType DEF Jobs
  <2>3. JobOK(j) /\ ReadHolds(j)
    BY <2>2 DEF JobOK, ReadHolds
  <2> QED
    BY <1>1, <1>2, <2>1, <2>2, <2>3, JobStep DEF StartBatch, Become
<1>3. CASE StartApprove(a) \/ StartReject(a)
  <2>1. PICK i \in Ids, pc \in {"get", "reject_get"} :
           actor' = [actor EXCEPT ![a] = [NoJob EXCEPT !.pc = pc, !.row = i]]
    BY <1>3 DEF StartApprove, StartReject, Become, Ids
  <2>2. i \in 0..MaxRows
    BY RowType DEF IInv, RowIds
  <2>3. PICK j : j = [NoJob EXCEPT !.pc = pc, !.row = i]
    OBVIOUS
  <2>4. j \in Jobs /\ j.pc = pc /\ j.row = i /\ j.queue = {} /\ j.matches = {}
    BY <2>2, <2>3, NoJobType DEF Jobs
  <2>5. JobOK(j) /\ ReadHolds(j)
    BY <2>4 DEF JobOK, ReadHolds
  <2> QED
    BY <1>1, <2>1, <2>3, <2>4, <2>5, JobStep
<1> QED
  BY <1>2, <1>3

(* The job of a request goes to a step that asks nothing new of its row.    *)
LEMMA GotoStep ==
    ASSUME IInv, TornNext, NEW a \in Actors, ~At(a, "mark"),
           NEW pc \in {"upsert", "next", "reject_mark"},
           actor' = [actor EXCEPT ![a] = [actor[a] EXCEPT !.pc = pc]],
           UNCHANGED <<rows, examples>>,
           pc = "upsert" => At(a, "get") /\ rows[actor[a].row].status # "rejected",
           pc = "reject_mark" => At(a, "reject_get") /\ rows[actor[a].row].status # "approved"
    PROVE  IInv'
<1>1. actor[a] \in Jobs /\ JobOK(actor[a])
  BY DEF IInv, TypeOK, JobsOK
<1>2. PICK j : j = [actor[a] EXCEPT !.pc = pc]
  OBVIOUS
<1>3. j \in Jobs /\ j.pc = pc /\ j.row = actor[a].row /\ j.queue = actor[a].queue
      /\ j.matches = actor[a].matches
  BY <1>1, <1>2 DEF Jobs
<1>4. JobOK(j) /\ ReadHolds(j)
  BY <1>1, <1>3 DEF JobOK, ReadHolds, At
<1> QED
  BY <1>2, <1>3, <1>4, JobStep

LEMMA ReadStep ==
    ASSUME IInv, TornNext, NEW a \in Actors, ApproveGet(a) \/ RejectGet(a)
    PROVE  IInv'
<1>1. ~At(a, "mark") /\ UNCHANGED <<rows, examples>>
  BY DEF ApproveGet, RejectGet, At
<1>2. CASE ApproveGet(a)
  <2>1. PICK i : i = actor[a].row
    OBVIOUS
  <2>2. CASE rows[i].status \in Promotable
    <3>1. actor' = [actor EXCEPT ![a] = [actor[a] EXCEPT !.pc = "upsert"]]
      BY <1>2, <2>1, <2>2 DEF ApproveGet, Become, FirstStep
    <3>2. At(a, "get") /\ rows[actor[a].row].status # "rejected"
      BY <1>2, <2>1, <2>2 DEF ApproveGet, Promotable
    <3> QED
      BY <1>1, <3>1, <3>2, GotoStep
  <2>3. CASE rows[i].status \notin Promotable
    <3>1. actor' = [actor EXCEPT ![a] = [actor[a] EXCEPT !.pc = "next"]]
      BY <1>2, <2>1, <2>3 DEF ApproveGet, Become
    <3> QED
      BY <1>1, <3>1, GotoStep
  <2> QED
    BY <2>2, <2>3
<1>3. CASE RejectGet(a)
  <2>1. CASE rows[actor[a].row].status \in Reviewable
    <3>1. actor' = [actor EXCEPT ![a] = [actor[a] EXCEPT !.pc = "reject_mark"]]
      BY <1>3, <2>1 DEF RejectGet, Become
    <3>2. At(a, "reject_get") /\ rows[actor[a].row].status # "approved"
      BY <1>3, <2>1 DEF RejectGet, Reviewable
    <3> QED
      BY <1>1, <3>1, <3>2, GotoStep
  <2>2. CASE rows[actor[a].row].status \notin Reviewable
    BY <1>1, <1>3, <2>2, FinishStep DEF RejectGet, Finish
  <2> QED
    BY <2>1, <2>2
<1> QED
  BY <1>2, <1>3

LEMMA BatchStep ==
    ASSUME IInv, TornNext, NEW a \in Actors, BatchList(a) \/ NextRow(a)
    PROVE  IInv'
<1>1. /\ ~At(a, "mark") /\ UNCHANGED <<rows, examples>>
      /\ actor[a] \in Jobs /\ JobOK(actor[a])
  BY DEF BatchList, NextRow, At, IInv, TypeOK, JobsOK
<1>2. CASE BatchList(a)
  <2>1. BatchQueue \subseteq Ids /\ BatchQueue \subseteq RowIds
    BY RowType DEF IInv, BatchQueue, Pending, Ids
  <2>2. PICK queue \in SUBSET RowIds : queue = BatchQueue /\ queue \subseteq Ids
    BY <2>1
  <2>3. PICK j : j = [actor[a] EXCEPT !.pc = "next", !.queue = queue]
    OBVIOUS
  <2>4. j \in Jobs /\ j.pc = "next" /\ j.queue = queue /\ j.matches = actor[a].matches
    BY <1>1, <2>3 DEF Jobs
  <2>5. JobOK(j) /\ ReadHolds(j)
    BY <1>1, <2>2, <2>4 DEF JobOK, ReadHolds
  <2> QED
    BY <1>1, <1>2, <2>2, <2>3, <2>4, <2>5, JobStep DEF BatchList, Become
<1>3. CASE NextRow(a) /\ ~Finish(a)
  <2>1. PICK i \in actor[a].queue :
           actor' = [actor EXCEPT ![a] =
              [actor[a] EXCEPT !.pc = "get", !.row = i, !.queue = @ \ {i}]]
    BY <1>3 DEF NextRow, Become
  <2>2. i \in Ids /\ i \in 0..MaxRows /\ actor[a].queue \in SUBSET RowIds
    BY <1>1, RowType DEF IInv, JobOK, Jobs, RowIds
  <2>3. PICK queue \in SUBSET RowIds : queue = actor[a].queue \ {i}
    BY <2>2
  <2>4. PICK j : j = [actor[a] EXCEPT !.pc = "get", !.row = i, !.queue = queue]
    OBVIOUS
  <2>5. /\ j \in Jobs /\ j.pc = "get" /\ j.row = i /\ j.queue = queue
        /\ j.matches = actor[a].matches
    BY <1>1, <2>2, <2>4 DEF Jobs
  <2>6. JobOK(j) /\ ReadHolds(j)
    BY <1>1, <2>2, <2>3, <2>5 DEF JobOK, ReadHolds
  <2>7. actor' = [actor EXCEPT ![a] = j]
    BY <2>1, <2>3, <2>4
  <2> QED
    BY <1>1, <2>5, <2>6, <2>7, JobStep
<1>4. CASE Finish(a)
  BY <1>1, <1>4, FinishStep
<1> QED
  BY <1>2, <1>3, <1>4

LEMMA DecayListStep ==
    ASSUME IInv, TornNext, NEW a \in Actors, DecayList(a)
    PROVE  IInv'
<1>1. /\ ~At(a, "mark") /\ UNCHANGED <<rows, examples>>
      /\ actor[a] \in Jobs /\ JobOK(actor[a])
  BY DEF DecayList, At, IInv, TypeOK, JobsOK
<1>2. PICK matches \in SUBSET Questions :
         /\ matches = Matching(actor[a].sql)
         /\ \A q \in matches : examples[q].status # "absent"
  <2>1. PICK matches : matches = Matching(actor[a].sql)
    OBVIOUS
  <2>2. matches \subseteq Questions /\ \A q \in matches : examples[q].status # "absent"
    BY <2>1 DEF Matching
  <2> QED
    BY <2>1, <2>2
<1>3. PICK j : j = [actor[a] EXCEPT !.pc = "demote", !.matches = matches]
  OBVIOUS
<1>4. j \in Jobs /\ j.pc = "demote" /\ j.queue = actor[a].queue /\ j.matches = matches
  BY <1>1, <1>3 DEF Jobs
<1>5. JobOK(j) /\ ReadHolds(j)
  BY <1>1, <1>2, <1>4 DEF JobOK, ReadHolds
<1> QED
  BY <1>1, <1>2, <1>3, <1>4, <1>5, JobStep DEF DecayList, Become

-----------------------------------------------------------------------------
(* Steps that add a row *)

LEMMA InsertStep ==
    ASSUME IInv, TornNext, NEW row \in Rows, row.status \in {"pending", "auto_pending"},
           Insert(row), UNCHANGED examples, actor' \in [Actors -> Jobs],
           \A b \in Actors : \/ actor'[b] = actor[b]
                             \/ /\ At(b, "idle") /\ actor'[b].pc = "decay"
                                /\ actor'[b].queue = {} /\ actor'[b].matches = {}
    PROVE  IInv'
<1>1. torn \subseteq torn' /\ torn' \subseteq RowIds /\ OverlapsAreTorn'
  BY TornTypes
<1>2. /\ rows \in Seq(Rows) /\ Len(rows) \in Nat /\ Len(rows) < MaxRows
      /\ rows' = Append(rows, row) /\ MaxRows \in Nat
  BY RowType DEF IInv, TypeOK, Insert
<1>3. /\ Len(rows') = Len(rows) + 1 /\ rows' \in Seq(Rows) /\ Len(rows') <= MaxRows
      /\ \A i \in Ids : rows'[i] = rows[i]
      /\ rows'[Len(rows) + 1] = row
  BY <1>2 DEF Ids
<1>4. Ids \subseteq Ids' /\ \A i \in Ids' : i \in Ids \/ rows'[i] = row
  BY <1>2, <1>3 DEF Ids
<1>5. TypeOK'
  BY <1>1, <1>3 DEF IInv, TypeOK
<1>6. JobsOK'
  <2> SUFFICES ASSUME NEW b \in Actors PROVE JobOK(actor[b])' /\ ReadHolds(actor[b])'
    BY DEF JobsOK
  <2>1. CASE actor'[b] = actor[b]
    <3>1. PICK k : k = actor[b] /\ actor'[b] = k /\ JobOK(k) /\ ReadHolds(k)
      BY <2>1 DEF IInv, JobsOK
    <3>2. k.row \in Ids => k.row \in Ids' /\ rows'[k.row] = rows[k.row]
      BY <1>3, <1>4
    <3> QED
      BY <1>1, <1>4, <3>1, <3>2 DEF JobOK, ReadHolds
  <2>2. CASE actor'[b] # actor[b]
    BY <2>2 DEF JobOK, ReadHolds
  <2> QED
    BY <2>1, <2>2
<1>7. Traced'
  BY <1>3, <1>4 DEF IInv, Traced
<1>8. Taught'
  BY <1>3, <1>4 DEF IInv, Taught
<1>9. Covered'
  <2> SUFFICES ASSUME NEW q \in Questions, examples[q].status = "approved"
               PROVE  \/ examples[q].from \in torn'
                      \/ rows'[examples[q].from].status = "approved"
                      \/ Marking(examples[q].from)'
    BY DEF Covered
  <2>1. PICK i \in Ids : i = examples[q].from
    BY DEF IInv, Traced
  <2>2. Marking(i) => Marking(i)'
    BY DEF Marking, At
  <2> QED
    BY <1>1, <1>3, <2>1, <2>2 DEF IInv, Covered
<1> QED
  BY <1>1, <1>5, <1>6, <1>7, <1>8, <1>9 DEF IInv

LEMMA CaptureStep ==
    ASSUME IInv, TornNext, Capture
    PROVE  IInv'
<1>1. PICK q \in Questions, s \in SQLs, type \in {"positive", "negative"} :
         Insert([question |-> q, sql |-> s, type |-> type, status |-> "pending"])
  BY DEF Capture
<1>2. PICK row : row = [question |-> q, sql |-> s, type |-> type, status |-> "pending"]
  OBVIOUS
<1>3. row \in Rows /\ row.status = "pending" /\ Insert(row)
  BY <1>1, <1>2 DEF Rows
<1>4. actor' \in [Actors -> Jobs] /\ actor' = actor /\ UNCHANGED examples
  BY DEF Capture, IInv, TypeOK
<1> QED
  BY <1>3, <1>4, InsertStep

LEMMA MineStep ==
    ASSUME IInv, TornNext, NEW a \in Actors, Mine(a)
    PROVE  IInv'
<1>1. PICK q \in Complaints, repaired \in SQLs, superseded \in SQLs :
         /\ Insert([question |-> q, sql |-> repaired, type |-> "positive",
                    status |-> "auto_pending"])
         /\ Become(a, [NoJob EXCEPT !.pc = "decay", !.sql = superseded])
  BY DEF Mine
<1>2. PICK row : row = [question |-> q, sql |-> repaired, type |-> "positive",
                        status |-> "auto_pending"]
  OBVIOUS
<1>3. row \in Rows /\ row.status = "auto_pending" /\ Insert(row)
  BY <1>1, <1>2, FlywheelAssumption DEF Rows
<1>4. PICK j : j = [NoJob EXCEPT !.pc = "decay", !.sql = superseded]
  OBVIOUS
<1>5. j \in Jobs /\ j.pc = "decay" /\ j.queue = {} /\ j.matches = {}
  BY <1>4, NoJobType DEF Jobs
<1>6. actor' = [actor EXCEPT ![a] = j] /\ actor \in [Actors -> Jobs]
  BY <1>1, <1>4 DEF Become, IInv, TypeOK
<1>7. /\ actor' \in [Actors -> Jobs]
      /\ \A b \in Actors : actor'[b] = actor[b] \/ (b = a /\ actor'[b] = j)
  BY <1>5, <1>6
<1>8. At(a, "idle") /\ UNCHANGED examples
  BY DEF Mine
<1> QED
  BY <1>3, <1>5, <1>7, <1>8, InsertStep

-----------------------------------------------------------------------------
(* Steps that change an example *)

LEMMA DemoteStep ==
    ASSUME IInv, TornNext, NEW a \in Actors, Demote(a)
    PROVE  IInv'
<1>1. CASE Finish(a) /\ UNCHANGED examples
  BY <1>1, FinishStep DEF Demote
<1>2. CASE ~(Finish(a) /\ UNCHANGED examples)
  <2>1. PICK q \in actor[a].matches :
           /\ examples' = [examples EXCEPT ![q].status = "review"]
           /\ Become(a, [actor[a] EXCEPT !.matches = @ \ {q}])
    BY <1>2 DEF Demote
  <2>2. /\ actor[a] \in Jobs /\ JobOK(actor[a]) /\ actor[a].pc = "demote"
        /\ actor \in [Actors -> Jobs] /\ UNCHANGED rows
        /\ examples \in [Questions -> Example \cup {NoExample}]
    BY DEF Demote, At, IInv, TypeOK, JobsOK
  <2>3. q \in Questions /\ examples[q].status # "absent" /\ examples[q] \in Example
    BY <2>2, ExampleType DEF Jobs, JobOK
  <2>4. PICK e : e = [examples[q] EXCEPT !.status = "review"]
    OBVIOUS
  <2>5. /\ e \in Example /\ e.status = "review" /\ e.sql = examples[q].sql
        /\ e.from = examples[q].from
    BY <2>3, <2>4 DEF Example
  <2>6. /\ examples' = [examples EXCEPT ![q] = e]
        /\ examples'[q] = e /\ \A p \in Questions : p # q => examples'[p] = examples[p]
    BY <2>1, <2>2, <2>3, <2>4
  <2>7. \A p \in Questions : /\ examples'[p].status # "absent" <=> examples[p].status # "absent"
                             /\ examples'[p].status = "approved" => examples'[p] = examples[p]
                             /\ examples[p].status # "absent" =>
                                   examples'[p].sql = examples[p].sql
                                   /\ examples'[p].from = examples[p].from
    BY <2>3, <2>5, <2>6
  <2>8. PICK matches \in SUBSET Questions : matches = actor[a].matches \ {q}
    BY <2>2 DEF Jobs
  <2>9. PICK j : j = [actor[a] EXCEPT !.matches = matches]
    OBVIOUS
  <2>10. /\ j \in Jobs /\ j.pc = "demote" /\ j.queue = actor[a].queue
         /\ j.matches \subseteq actor[a].matches
    BY <2>2, <2>8, <2>9 DEF Jobs
  <2>11. actor' = [actor EXCEPT ![a] = j]
    BY <2>1, <2>8, <2>9 DEF Become
  <2>12. torn \subseteq torn' /\ torn' \subseteq RowIds /\ OverlapsAreTorn'
    BY TornTypes
  <2>13. TypeOK'
    BY <2>2, <2>5, <2>6, <2>10, <2>11, <2>12 DEF IInv, TypeOK
  <2>14. JobsOK'
    <3> SUFFICES ASSUME NEW b \in Actors PROVE JobOK(actor[b])' /\ ReadHolds(actor[b])'
      BY DEF JobsOK
    <3>1. JobOK(j) /\ ReadHolds(j)
      BY <2>2, <2>10 DEF JobOK, ReadHolds
    <3>2. PICK k \in {j, actor[b]} : actor'[b] = k /\ k \in Jobs /\ JobOK(k) /\ ReadHolds(k)
      BY <2>2, <2>10, <2>11, <3>1 DEF IInv, JobsOK
    <3>3. k.matches \subseteq Questions
      BY <3>2 DEF Jobs
    <3>4. k.row \in Ids => rows[k.row].question \in Questions
      BY RowType DEF IInv
    <3> QED
      BY <2>2, <2>7, <2>12, <3>2, <3>3, <3>4 DEF JobOK, ReadHolds, Ids
  <2>15. Covered'
    <3> SUFFICES ASSUME NEW p \in Questions, examples'[p].status = "approved"
                 PROVE  \/ examples'[p].from \in torn'
                        \/ rows'[examples'[p].from].status = "approved"
                        \/ Marking(examples[p].from)'
      BY DEF Covered
    <3>1. PICK i : i = examples[p].from /\ examples'[p].from = i /\ examples[p].status = "approved"
      BY <2>7
    <3>2. Marking(i) => Marking(i)'
      BY <2>2, <2>11 DEF Marking, At
    <3> QED
      BY <2>2, <2>12, <3>1, <3>2 DEF IInv, Covered
  <2>16. Taught'
    <3>1. \A i \in Ids : rows[i].question \in Questions
      BY RowType DEF IInv
    <3> QED
      BY <2>2, <2>7, <3>1 DEF IInv, Taught, Ids
  <2>17. Traced'
    BY <2>2, <2>7 DEF IInv, Traced, Ids
  <2> QED
    BY <2>12, <2>13, <2>14, <2>15, <2>16, <2>17 DEF IInv
<1> QED
  BY <1>1, <1>2

LEMMA UpsertStep ==
    ASSUME IInv, TornNext, NEW a \in Actors, ApproveUpsert(a)
    PROVE  IInv'
<1>1. /\ actor[a] \in Jobs /\ JobOK(actor[a]) /\ ReadHolds(actor[a]) /\ actor[a].pc = "upsert"
      /\ actor \in [Actors -> Jobs] /\ UNCHANGED rows
      /\ examples \in [Questions -> Example \cup {NoExample}]
  BY DEF ApproveUpsert, At, IInv, TypeOK, JobsOK
<1>2. PICK i \in Ids : i = actor[a].row
  BY <1>1 DEF JobOK
<1>3. PICK q \in Questions : q = rows[i].question
  BY RowType DEF IInv
<1>4. i \in RowIds /\ rows[i].sql \in SQLs
  BY RowType DEF IInv
<1>5. PICK e : e = [status |-> "approved", sql |-> rows[i].sql, from |-> i]
  OBVIOUS
<1>6. e \in Example /\ e.status = "approved" /\ e.sql = rows[i].sql /\ e.from = i
  BY <1>4, <1>5 DEF Example
<1>7. /\ examples' = [examples EXCEPT ![q] = e]
      /\ examples'[q] = e /\ \A p \in Questions : p # q => examples'[p] = examples[p]
  BY <1>1, <1>2, <1>3, <1>5 DEF ApproveUpsert, Promoted
<1>8. PICK j : j = [actor[a] EXCEPT !.pc = "mark"]
  OBVIOUS
<1>9. /\ j \in Jobs /\ j.pc = "mark" /\ j.row = i /\ j.queue = actor[a].queue
      /\ j.matches = actor[a].matches
  BY <1>1, <1>2, <1>8 DEF Jobs
<1>10. /\ actor' = [actor EXCEPT ![a] = j]
       /\ actor'[a] = j /\ \A b \in Actors : b # a => actor'[b] = actor[b]
  BY <1>1, <1>8 DEF ApproveUpsert, Become
<1>11. torn \subseteq torn' /\ torn' \subseteq RowIds /\ OverlapsAreTorn'
  BY TornTypes
<1>12. \A p \in Questions : examples[p].status # "absent" => examples'[p].status # "absent"
  BY <1>6, <1>7
<1>13. TypeOK'
  BY <1>1, <1>6, <1>7, <1>9, <1>10, <1>11 DEF IInv, TypeOK
<1>14. JobsOK'
  <2> SUFFICES ASSUME NEW b \in Actors PROVE JobOK(actor[b])' /\ ReadHolds(actor[b])'
    BY DEF JobsOK
  <2>1. CASE b = a
    <3>1. j.matches \subseteq Questions
      BY <1>9 DEF Jobs
    <3>2. JobOK(j)'
      BY <1>1, <1>2, <1>3, <1>6, <1>7, <1>9, <1>12, <3>1 DEF JobOK, Ids
    <3>3. ReadHolds(j)'
      BY <1>1, <1>2, <1>9, <1>11 DEF ReadHolds
    <3> QED
      BY <1>10, <2>1, <3>2, <3>3
  <2>2. CASE b # a
    <3>1. PICK k \in Jobs : k = actor[b] /\ actor'[b] = k /\ JobOK(k) /\ ReadHolds(k)
      BY <1>1, <1>10, <2>2 DEF IInv, JobsOK
    <3>2. k.matches \subseteq Questions /\ (k.row \in Ids => rows[k.row].question \in Questions)
      BY RowType DEF Jobs, IInv
    <3> QED
      BY <1>1, <1>11, <1>12, <3>1, <3>2 DEF JobOK, ReadHolds, Ids
  <2> QED
    BY <2>1, <2>2
<1>15. Covered'
  <2> SUFFICES ASSUME NEW p \in Questions, examples'[p].status = "approved"
               PROVE  \/ examples'[p].from \in torn'
                      \/ rows'[examples'[p].from].status = "approved"
                      \/ Marking(examples[p].from)'
    BY DEF Covered
  <2>1. CASE p = q
    <3>1. Marking(i)'
      BY <1>9, <1>10 DEF Marking, At
    <3>2. examples'[p].from = i
      BY <1>6, <1>7, <2>1
    <3> QED
      BY <3>1, <3>2
  <2>2. CASE p # q
    <3>1. PICK k : k = examples[p].from /\ examples'[p].from = k /\ examples[p].status = "approved"
      BY <1>7, <2>2
    <3>2. Marking(k) => Marking(k)'
      BY <1>1, <1>10 DEF Marking, At
    <3> QED
      BY <1>1, <1>11, <3>1, <3>2 DEF IInv, Covered
  <2> QED
    BY <2>1, <2>2
<1>16. Taught'
  <2>1. \A k \in Ids : rows[k].question \in Questions
    BY RowType DEF IInv
  <2> QED
    BY <1>1, <1>12, <2>1 DEF IInv, Taught, Ids
<1>17. Traced'
  <2>1. ASSUME NEW p \in Questions, examples'[p].status # "absent"
        PROVE  /\ examples'[p].from \in Ids
               /\ rows[examples'[p].from].question = p
               /\ rows[examples'[p].from].sql = examples'[p].sql
    BY <1>3, <1>6, <1>7, <2>1 DEF IInv, Traced
  <2> QED
    BY <1>1, <2>1 DEF Traced, Ids
<1> QED
  BY <1>11, <1>13, <1>14, <1>15, <1>16, <1>17 DEF IInv

-----------------------------------------------------------------------------
(* Steps that mark a row *)

LEMMA MarkStep ==
    ASSUME IInv, TornNext, NEW a \in Actors, ApproveMark(a) \/ RejectMark(a)
    PROVE  IInv'
<1>1. /\ actor[a] \in Jobs /\ JobOK(actor[a]) /\ ReadHolds(actor[a])
      /\ actor[a].pc \in {"mark", "reject_mark"}
      /\ actor \in [Actors -> Jobs] /\ UNCHANGED examples /\ rows \in Seq(Rows)
  BY DEF ApproveMark, RejectMark, At, IInv, TypeOK, JobsOK
<1>2. PICK i \in Ids : i = actor[a].row
  BY <1>1 DEF JobOK
<1>3. PICK status \in {"approved", "rejected"}, j \in Jobs :
         /\ status = "approved" <=> At(a, "mark")
         /\ rows' = [rows EXCEPT ![i].status = status]
         /\ actor' = [actor EXCEPT ![a] = j]
         /\ j.pc \in {"next", "idle"}
         /\ j.queue \subseteq actor[a].queue /\ j.matches \subseteq actor[a].matches
  <2>1. CASE ApproveMark(a)
    <3>1. PICK j : j = [actor[a] EXCEPT !.pc = "next"]
      OBVIOUS
    <3>2. j \in Jobs /\ j.pc = "next" /\ j.queue = actor[a].queue /\ j.matches = actor[a].matches
      BY <1>1, <3>1 DEF Jobs
    <3>3. /\ rows' = [rows EXCEPT ![i].status = "approved"] /\ At(a, "mark")
          /\ actor' = [actor EXCEPT ![a] = j]
      BY <1>2, <2>1, <3>1 DEF ApproveMark, SetStatus, Become
    <3> QED
      BY <3>2, <3>3
  <2>2. CASE RejectMark(a)
    <3>1. /\ rows' = [rows EXCEPT ![i].status = "rejected"] /\ ~At(a, "mark")
          /\ actor' = [actor EXCEPT ![a] = NoJob]
      BY <1>2, <2>2 DEF RejectMark, SetStatus, Finish, Become, At
    <3> QED
      BY <3>1, NoJobType
  <2> QED
    BY <2>1, <2>2
<1>4. rows[i] \in Rows
  BY RowType DEF IInv
<1>5. PICK row \in Rows : row = [rows[i] EXCEPT !.status = status]
  BY <1>4 DEF Rows
<1>6. row.status = status /\ row.question = rows[i].question /\ row.sql = rows[i].sql
  BY <1>4, <1>5 DEF Rows
<1>7. /\ rows' = [rows EXCEPT ![i] = row] /\ rows' \in Seq(Rows) /\ Len(rows') = Len(rows)
      /\ rows'[i] = row /\ \A k \in Ids : k # i => rows'[k] = rows[k]
  BY <1>1, <1>3, <1>5 DEF Ids
<1>8. /\ Ids' = Ids
      /\ \A k \in Ids : rows'[k].question = rows[k].question /\ rows'[k].sql = rows[k].sql
  BY <1>6, <1>7 DEF Ids
<1>9. actor'[a] = j /\ \A b \in Actors : b # a => actor'[b] = actor[b]
  BY <1>1, <1>3
<1>10. torn \subseteq torn' /\ torn' \subseteq RowIds /\ OverlapsAreTorn'
  BY TornTypes
<1>11. TypeOK'
  BY <1>1, <1>3, <1>7, <1>10 DEF IInv, TypeOK
<1>12. i \in RowIds
  BY RowType DEF IInv
<1>13. ASSUME NEW b \in Actors, b # a, actor[b].row = i,
              \/ status = "rejected" /\ actor[b].pc \in {"upsert", "mark"}
              \/ status = "approved" /\ actor[b].pc = "reject_mark"
       PROVE  i \in torn
  <2>1. Overlapping(i)
    BY <1>1, <1>2, <1>3, <1>13 DEF Overlapping, At
  <2> QED
    BY <1>12, <2>1 DEF IInv, OverlapsAreTorn
<1>14. JobsOK'
  <2> SUFFICES ASSUME NEW b \in Actors PROVE JobOK(actor[b])' /\ ReadHolds(actor[b])'
    BY DEF JobsOK
  <2>1. CASE b = a
    BY <1>1, <1>3, <1>8, <1>9, <2>1 DEF JobOK, ReadHolds
  <2>2. CASE b # a
    <3>1. PICK k : k = actor[b] /\ actor'[b] = k /\ JobOK(k) /\ ReadHolds(k)
      BY <1>9, <2>2 DEF IInv, JobsOK
    <3>2. JobOK(k)'
      BY <1>1, <1>8, <3>1 DEF JobOK
    <3>3. ReadHolds(k)'
      <4>1. CASE k.pc \in {"upsert", "mark", "reject_mark"} /\ k.row # i
        <5>1. k.row \in Ids
          BY <3>1, <4>1 DEF JobOK
        <5> QED
          BY <1>7, <1>10, <3>1, <4>1, <5>1 DEF ReadHolds
      <4>2. CASE k.pc \in {"upsert", "mark", "reject_mark"} /\ k.row = i
        BY <1>6, <1>7, <1>10, <1>13, <2>2, <3>1, <4>2 DEF ReadHolds
      <4>3. CASE k.pc \notin {"upsert", "mark", "reject_mark"}
        BY <4>3 DEF ReadHolds
      <4> QED
        BY <4>1, <4>2, <4>3
    <3> QED
      BY <3>1, <3>2, <3>3
  <2> QED
    BY <2>1, <2>2
<1>15. Covered'
  <2> SUFFICES ASSUME NEW q \in Questions, examples[q].status = "approved"
               PROVE  \/ examples[q].from \in torn'
                      \/ rows'[examples[q].from].status = "approved"
                      \/ Marking(examples[q].from)'
    BY <1>1 DEF Covered
  <2>1. PICK k \in Ids : k = examples[q].from
    BY DEF IInv, Traced
  <2>2. k \in torn \/ rows[k].status = "approved" \/ Marking(k)
    BY <2>1 DEF IInv, Covered
  <2>3. CASE k # i
    <3>1. Marking(k) => Marking(k)'
      BY <1>2, <1>9, <2>3 DEF Marking, At
    <3> QED
      BY <1>1, <1>7, <1>10, <2>1, <2>2, <2>3, <3>1 DEF Marking, At
  <2>4. CASE k = i /\ status = "approved"
    BY <1>6, <1>7, <2>1, <2>4
  <2>5. CASE k = i /\ status = "rejected"
    <3>1. actor[a].pc = "reject_mark"
      BY <1>1, <1>3, <2>5 DEF At
    <3>2. rows[i].status # "approved" \/ i \in torn
      BY <1>1, <1>2, <3>1 DEF ReadHolds
    <3>3. Marking(i) => i \in torn
      BY <1>13, <2>5, <3>1 DEF Marking, At
    <3> QED
      BY <1>10, <2>1, <2>2, <2>5, <3>2, <3>3
  <2> QED
    BY <2>3, <2>4, <2>5
<1>16. Taught'
  <2> SUFFICES ASSUME NEW k \in Ids, rows'[k].status = "approved"
               PROVE  examples[rows[k].question].status # "absent"
    BY <1>1, <1>8 DEF Taught
  <2>1. CASE k = i
    BY <1>1, <1>2, <1>3, <1>6, <1>7, <2>1 DEF JobOK, At
  <2>2. CASE k # i
    BY <1>7, <2>2 DEF IInv, Taught
  <2> QED
    BY <2>1, <2>2
<1>17. Traced'
  BY <1>1, <1>8 DEF IInv, Traced
<1> QED
  BY <1>10, <1>11, <1>14, <1>15, <1>16, <1>17 DEF IInv

-----------------------------------------------------------------------------

LEMMA UnchangedStep ==
    ASSUME IInv, UNCHANGED vars
    PROVE  IInv'
<1>1. UNCHANGED <<rows, examples, actor, torn>>
  BY DEF vars
<1>2. TypeOK' /\ JobsOK'
  BY <1>1 DEF IInv, TypeOK, JobsOK, JobOK, ReadHolds, Ids
<1>3. OverlapsAreTorn' /\ Covered'
  BY <1>1 DEF IInv, OverlapsAreTorn, Overlapping, Covered, Marking, At
<1>4. Taught' /\ Traced'
  BY <1>1 DEF IInv, Taught, Traced, Ids
<1> QED
  BY <1>2, <1>3, <1>4 DEF IInv

LEMMA IInvNext == IInv /\ [Next]_vars => IInv'
<1> SUFFICES ASSUME IInv, [Next]_vars PROVE IInv'
  OBVIOUS
<1>1. CASE UNCHANGED vars
  BY <1>1, UnchangedStep
<1>2. CASE Next
  <2>1. TornNext
    BY <1>2 DEF Next, TornNext
  <2>2. CASE Capture
    BY <2>1, <2>2, CaptureStep
  <2>3. ASSUME NEW a \in Actors, Step(a) PROVE IInv'
    <3>1. CASE Mine(a)
      BY <2>1, <3>1, MineStep
    <3>2. CASE DecayList(a)
      BY <2>1, <3>2, DecayListStep
    <3>3. CASE Demote(a)
      BY <2>1, <3>3, DemoteStep
    <3>4. CASE StartApprove(a) \/ StartReject(a) \/ StartBatch(a)
      BY <2>1, <3>4, StartStep
    <3>5. CASE ApproveGet(a) \/ RejectGet(a)
      BY <2>1, <3>5, ReadStep
    <3>6. CASE ApproveUpsert(a)
      BY <2>1, <3>6, UpsertStep
    <3>7. CASE ApproveMark(a) \/ RejectMark(a)
      BY <2>1, <3>7, MarkStep
    <3>8. CASE BatchList(a) \/ NextRow(a)
      BY <2>1, <3>8, BatchStep
    <3>9. CASE Abort(a)
      BY <2>1, <3>9, FinishStep DEF Abort
    <3> QED
      BY <2>3, <3>1, <3>2, <3>3, <3>4, <3>5, <3>6, <3>7, <3>8, <3>9 DEF Step
  <2> QED
    BY <1>2, <2>2, <2>3 DEF Next
<1> QED
  BY <1>1, <1>2

LEMMA IInvAlways == Spec => []IInv
<1> QED
  BY IInvInit, IInvNext, PTL DEF Spec

-----------------------------------------------------------------------------
(* The properties *)

(* Rows, examples and requests keep their types: only an existing example   *)
(* is ever demoted (feedback/hooks.py, feedback/store.py).                  *)
THEOREM FlywheelTypeCorrect == Spec => []TypeOK
<1>1. IInv => TypeOK
  BY DEF IInv
<1> QED
  BY <1>1, IInvAlways, PTL

(* An approved row has an example for its question, wherever an approval    *)
(* broke off: approve in feedback/promotion.py promotes before it marks.    *)
THEOREM ApprovalsAreTaught == Spec => []ApprovedRowsAreTaught
<1>1. IInv => ApprovedRowsAreTaught
  BY ExampleType DEF IInv, Taught, ApprovedRowsAreTaught, Ids
<1> QED
  BY <1>1, IInvAlways, PTL

(* The provenance link of an example leads to the row its question and SQL  *)
(* came from, whoever promoted the question before                          *)
(* (upsert_approved_example in feedback/store.py).                          *)
THEOREM ProvenanceIsTrue == Spec => []ProvenanceIsExact
<1>1. ASSUME IInv PROVE ProvenanceIsExact
  <2> SUFFICES ASSUME NEW q \in Questions, examples[q] # NoExample
               PROVE  LET row == rows[examples[q].from] IN
                      row.question = q /\ row.sql = examples[q].sql
    BY DEF ProvenanceIsExact
  <2>1. examples[q].status # "absent"
    BY <1>1, ExampleType DEF IInv, TypeOK
  <2> QED
    BY <1>1, <2>1 DEF IInv, Traced
<1> QED
  BY <1>1, IInvAlways, PTL

(* No approved example comes from a rejected row, unless the approval broke *)
(* off between its two stores or overlapped the rejection (approve and      *)
(* reject in feedback/promotion.py).                                        *)
THEOREM RejectionsHold == Spec => []RejectedIsNeverTaught
<1>1. ASSUME IInv PROVE RejectedIsNeverTaught
  <2> SUFFICES ASSUME NEW q \in Questions, examples[q].status = "approved",
                      rows[examples[q].from].status = "rejected"
               PROVE  examples[q].from \in torn
    BY DEF RejectedIsNeverTaught
  <2>1. CASE Marking(examples[q].from)
    <3>1. PICK a \in Actors : At(a, "mark") /\ actor[a].row = examples[q].from
      BY <2>1 DEF Marking
    <3>2. ReadHolds(actor[a])
      BY <1>1 DEF IInv, JobsOK
    <3> QED
      BY <3>1, <3>2 DEF ReadHolds, At
  <2>2. CASE ~Marking(examples[q].from)
    BY <1>1, <2>2 DEF IInv, Covered
  <2> QED
    BY <2>1, <2>2
<1> QED
  BY <1>1, IInvAlways, PTL
=============================================================================
