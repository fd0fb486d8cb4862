----------------------------- MODULE QueryGate -----------------------------
(***************************************************************************)
(* POST /v1/query/sql and POST /v1/query (api/query.py): the gate with     *)
(* authentication (api/auth), the limiter of RateLimiter and the           *)
(* activation check (onboarding/wizard.py), and behind it the routing      *)
(* (routing/router.py), the documents' part of an answer (rag/rag_flow.py) *)
(* and the SQL part, which is one step here (ConversationFlow and          *)
(* SqlPipeline take it apart).                                             *)
(*                                                                         *)
(* Each thread of the limiter serves one request at a time.  Tokens are    *)
(* their tenant claim; flags.ratelimit is on.                              *)
(***************************************************************************)
EXTENDS RateLimiter, FiniteSets

CONSTANTS
    NoClaim,        \* no token, or one that does not verify
    AuthDisabled,   \* dev mode: the requested tenant stands
    Outages         \* whether databases and LLM calls may fail

ASSUME GateAssumption ==
    /\ IsFiniteSet(Threads)
    /\ NoClaim \notin Tenants
    /\ AuthDisabled \in BOOLEAN
    /\ Outages \in BOOLEAN

VARIABLES
    active,      \* status = 'active' of sql_agent_tenants
    request,     \* the request of each thread
    used         \* history: requests that were charged and checked, per tenant

gateVars == <<active, request, used>>
allVars == <<vars, gateVars>>

-----------------------------------------------------------------------------

Intents == {"data", "docs", "hybrid"}
Indicators == {"sql_indicators", "rag_indicators"}

\* `tenant` is the one the request runs for behind the gate, `reply` the
\* status of the envelope.  `met` is a history field: whether the tenant was
\* active since the request entered the gate, or could not be checked.
Requests == [pc : {"idle", "gate", "limiter", "activation", "classify", "documents", "sql",
                   "reply"},
             requested : Tenants, claim : Tenants \cup {NoClaim}, tenant : Tenants,
             intent : Intents, met : BOOLEAN, reply : {"none", "Success", "Failure"}]

SomeTenant == CHOOSE t \in Tenants : TRUE

NoRequest ==
    [pc |-> "idle", requested |-> SomeTenant, claim |-> NoClaim, tenant |-> SomeTenant,
     intent |-> "data", met |-> FALSE, reply |-> "none"]

GateTypeOK ==
    /\ TypeOK
    /\ active \in [Tenants -> BOOLEAN]
    /\ request \in [Threads -> Requests]
    /\ used \in [Tenants -> Nat]

\* A tenant starts with the status its row defaults to.
GateInit ==
    /\ Init
    /\ active = [t \in Tenants |-> TRUE]
    /\ request = [h \in Threads |-> NoRequest]
    /\ used = [t \in Tenants |-> 0]

At(h, step) == request[h].pc = step
Goto(h, step) == request' = [request EXCEPT ![h].pc = step]

\* The status of the envelope is all that is kept of a reply.
Reply(h, reply) ==
    request' = [request EXCEPT ![h] = [NoRequest EXCEPT !.pc = "reply", !.reply = reply]]

-----------------------------------------------------------------------------
(* The gate *)

Receive(h) ==
    /\ At(h, "idle")
    /\ \E requested \in Tenants, claim \in Tenants \cup {NoClaim} :
          request' = [request EXCEPT ![h] =
              [NoRequest EXCEPT !.pc = "gate", !.requested = requested, !.claim = claim]]
    /\ UNCHANGED <<vars, active, used>>

\* resolve: an authenticated request runs for the tenant of its claim.
Effective(h) == IF AuthDisabled THEN request[h].requested ELSE request[h].claim

\* 401
Refuse(h) ==
    /\ At(h, "gate") /\ Effective(h) = NoClaim
    /\ Reply(h, "Failure")
    /\ UNCHANGED <<vars, active, used>>

\* limiter.admit is called for the effective tenant.
AskLimiter(h) ==
    /\ At(h, "gate") /\ Effective(h) # NoClaim
    /\ Sample(h, Effective(h))
    /\ request' = [request EXCEPT ![h].pc = "limiter", ![h].met = active[Effective(h)]]
    /\ UNCHANGED <<active, used>>

AdmitRequest(h) == Admit(h) /\ UNCHANGED gateVars

\* verdict.allowed
Allows(verdict) == verdict = "admitted"

\* 429 for a request that is over the limit.
TakeVerdict(h) ==
    /\ At(h, "limiter")
    /\ Return(h)
    /\ IF Allows(thread[h].pc) THEN Goto(h, "activation") ELSE Reply(h, "Failure")
    /\ UNCHANGED <<active, used>>

\* Mutant: the pipeline runs for the tenant of the body.
RequestedTenant(h) == request[h].requested

\* The request the gate hands on carries the effective tenant.
HandedTenant(h) == Effective(h)

\* The handler goes on with the request the gate returns; only the unified
\* route classifies.
PassGate(h, checked) ==
    /\ \E next \in {"classify", "sql"} :
          request' = [request EXCEPT ![h] =
              [NoRequest EXCEPT !.pc = next, !.tenant = HandedTenant(h),
                                !.met = request[h].met \/ ~checked]]
    /\ used' = [used EXCEPT ![HandedTenant(h)] = @ + 1]

\* Mutant: every status lets the request through.
ActiveAnyway(t) == active[t] \in BOOLEAN

\* not tenant_disabled
Active(t) == active[t]

\* active_check: a failing check lets the request through, 403 otherwise.
CheckActive(h) ==
    /\ At(h, "activation")
    /\ \/ Active(Effective(h)) /\ PassGate(h, TRUE)
       \/ Outages /\ PassGate(h, FALSE)
       \/ /\ ~Active(Effective(h))
          /\ Reply(h, "Failure")
          /\ used' = [used EXCEPT ![Effective(h)] = @ + 1]
    /\ UNCHANGED <<vars, active>>

-----------------------------------------------------------------------------
(* Behind the gate *)

\* classify: the indicators a question hits; none means data.
Intent(hits) ==
    IF hits = Indicators THEN "hybrid"
    ELSE IF hits = {"rag_indicators"} THEN "docs" ELSE "data"

ClassifyQuestion(h) ==
    /\ At(h, "classify")
    /\ \E hits \in SUBSET Indicators :
          request' = [request EXCEPT ![h].intent = Intent(hits),
                ![h].pc = IF Intent(hits) = "data" THEN "sql" ELSE "documents"]
    /\ UNCHANGED <<vars, active, used>>

\* retrieve and answer_grounded: no chunk, a refusal of the model and every
\* exception come to the same, no grounded answer.
GroundedAnswers == BOOLEAN

\* _rag_answer: a docs question is answered with it or not at all, a hybrid
\* one goes on without it.
AnswerFromDocuments(h) ==
    /\ At(h, "documents")
    /\ \E grounded \in GroundedAnswers :
          IF request[h].intent = "docs"
          THEN Reply(h, IF grounded THEN "Success" ELSE "Failure")
          ELSE Goto(h, "sql")
    /\ UNCHANGED <<vars, active, used>>

\* run_recorded, and the merge of the documents' part into its envelope.
RunSql(h) ==
    /\ At(h, "sql")
    /\ \E reply \in {"Success", "Failure"} : Reply(h, reply)
    /\ UNCHANGED <<vars, active, used>>

Deliver(h) ==
    /\ At(h, "reply")
    /\ request' = [request EXCEPT ![h] = NoRequest]
    /\ UNCHANGED <<vars, active, used>>

-----------------------------------------------------------------------------

\* set_activation, in one statement; whoever is in the gate has met both.
SetActivation(t) ==
    /\ active' = [active EXCEPT ![t] = ~@]
    /\ request' = [h \in Threads |-> [request[h] EXCEPT
          !.met = @ \/ (request[h].pc \in {"limiter", "activation"} /\ Effective(h) = t)]]
    /\ UNCHANGED <<vars, used>>

GateTick == Tick /\ UNCHANGED gateVars

Work(h) ==
    \/ Refuse(h) \/ AskLimiter(h) \/ AdmitRequest(h) \/ TakeVerdict(h) \/ CheckActive(h)
    \/ ClassifyQuestion(h) \/ AnswerFromDocuments(h) \/ RunSql(h) \/ Deliver(h)

GateNext ==
    \/ GateTick
    \/ \E t \in Tenants : SetActivation(t)
    \/ \E h \in Threads : Receive(h) \/ Work(h)

GateSpec == GateInit /\ [][GateNext]_allVars

-----------------------------------------------------------------------------

\* No tenant has more requests through the gate than the limiter granted
\* it: each was charged once, and to the tenant it runs for.
ServedIsPaid == \A t \in Tenants : used[t] <= granted[t]

\* A request runs only for a tenant that was active at some moment since it
\* entered the gate, unless the check itself failed: the gate fails open.
OnlyActiveRuns ==
    \A h \in Threads : request[h].pc \in {"classify", "documents", "sql"} => request[h].met
=============================================================================
