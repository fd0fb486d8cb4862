-------------------------- MODULE OnboardingWizard --------------------------
(***************************************************************************)
(* Onboarding of one tenant (onboarding/wizard.py, onboarding/state.py,    *)
(* api/onboarding.py): the telemetry is probed, candidates are staged into *)
(* the review queue and promoted into the registry and the aliases.        *)
(* Activation is part of QueryGate; readiness, naming suggestions and the  *)
(* review list only read.                                                  *)
(*                                                                         *)
(* Every query is a transaction of its own and the handlers run in a       *)
(* thread pool: admins interleave between any two queries.                 *)
(*                                                                         *)
(* The tenant's row exists (it is created outside the program), and a      *)
(* candidate's canonical key is its physical key, as stage_suggestions     *)
(* makes it.  Candidates are numbered in id order.  The cache drop at the  *)
(* end of a promotion is the subject of KnowledgeCache.  The tenant has    *)
(* telemetry, so a list the probe finds empty is an answer it did not get. *)
(***************************************************************************)
EXTENDS Naturals, Sequences, FiniteSets

CONSTANTS
    Admins,         \* threads inside the onboarding handlers
    Keys,
    NoKey,          \* what an unmapped alias leads to
    Aliases,
    Outages,        \* whether the databases may fail
    MaxCandidates   \* bound: candidates staged in one behaviour

ASSUME WizardAssumption ==
    /\ NoKey \notin Keys
    /\ Outages \in BOOLEAN
    /\ MaxCandidates \in Nat

VARIABLES
    candidates,   \* sql_agent_key_mapping_candidates
    registry,     \* the keys of sql_agent_telemetry_registry
    aliases,      \* sql_agent_aliases: the key of each alias
    probe,        \* the row of onboarding_state, and whether its lists are there
    admin         \* the request each admin thread runs

knowledge == <<candidates, registry, aliases>>
vars == <<knowledge, probe, admin>>

-----------------------------------------------------------------------------

Candidates == [key : Keys, alias : Aliases, status : {"pending", "approved"}]

\* `queue` is what a staging request still has to insert, `row` the
\* candidate a promotion works on, `emptied` whether a probe took a failed
\* query for an empty list.
Requests == [pc : {"idle", "stage", "read", "registry", "alias", "mark",
                   "keys", "events", "save", "reply"},
             queue : SUBSET (Keys \X Aliases), row : 0..MaxCandidates, emptied : BOOLEAN,
             reply : {"none", "staged", "promoted", "probed", "NOT_FOUND",
                      "STORE_UNAVAILABLE", "failed"}]

NoRequest == [pc |-> "idle", queue |-> {}, row |-> 0, emptied |-> FALSE, reply |-> "none"]

TypeOK ==
    /\ candidates \in Seq(Candidates) /\ Len(candidates) <= MaxCandidates
    /\ registry \subseteq Keys
    /\ aliases \in [Aliases -> Keys \cup {NoKey}]
    /\ probe \in {"none", "full", "emptied"}
    /\ admin \in [Admins -> Requests]

Init ==
    /\ candidates = <<>>
    /\ registry = {}
    /\ aliases = [a \in Aliases |-> NoKey]
    /\ probe = "none"
    /\ admin = [m \in Admins |-> NoRequest]

At(m, step) == admin[m].pc = step
Goto(m, step) == admin' = [admin EXCEPT ![m].pc = step]
Reply(m, reply) == admin' = [admin EXCEPT ![m].pc = "reply", ![m].reply = reply]

-----------------------------------------------------------------------------
(* Staging *)

StartStage(m) ==
    /\ At(m, "idle")
    /\ \E queue \in SUBSET (Keys \X Aliases) :
          /\ Len(candidates) + Cardinality(queue) <= MaxCandidates
          /\ admin' = [admin EXCEPT ![m] = [NoRequest EXCEPT !.pc = "stage", !.queue = queue]]
    /\ UNCHANGED <<knowledge, probe>>

\* The pair has a row, pending or approved: ON CONFLICT DO NOTHING.
Staged(key, alias) ==
    \E i \in 1..Len(candidates) : candidates[i].key = key /\ candidates[i].alias = alias

\* stage_suggestions, one candidate of the payload.
StageNext(m) ==
    /\ At(m, "stage")
    /\ \E pair \in admin[m].queue :
          /\ IF Staged(pair[1], pair[2])
             THEN UNCHANGED candidates
             ELSE /\ Len(candidates) < MaxCandidates
                  /\ candidates' = Append(candidates,
                        [key |-> pair[1], alias |-> pair[2], status |-> "pending"])
          /\ admin' = [admin EXCEPT ![m].queue = @ \ {pair}]
    /\ UNCHANGED <<registry, aliases, probe>>

StageEnds(m) ==
    /\ At(m, "stage") /\ admin[m].queue = {}
    /\ Reply(m, "staged")
    /\ UNCHANGED <<knowledge, probe>>

-----------------------------------------------------------------------------
(* Promotion *)

StartPromote(m) ==
    /\ At(m, "idle")
    /\ \E i \in 1..Len(candidates) :
          admin' = [admin EXCEPT ![m] = [NoRequest EXCEPT !.pc = "read", !.row = i]]
    /\ UNCHANGED <<knowledge, probe>>

\* Mutant: the key is left out.
AliasFirst == "alias"

\* Mutant: the queue is updated before anything is written.
MarkFirst == "mark"

\* What follows the read: the registry row comes before the alias row.
FirstWrite == "registry"

\* promote_candidate: only a pending candidate is promoted.
ReadCandidate(m) ==
    /\ At(m, "read")
    /\ IF candidates[admin[m].row].status = "pending"
       THEN Goto(m, FirstWrite)
       ELSE Reply(m, "NOT_FOUND")
    /\ UNCHANGED <<knowledge, probe>>

WriteRegistry(m) ==
    /\ At(m, "registry")
    /\ registry' = registry \cup {candidates[admin[m].row].key}
    /\ Goto(m, "alias")
    /\ UNCHANGED <<candidates, aliases, probe>>

\* ON CONFLICT (tenant_id, alias) DO NOTHING: a taken alias keeps its key.
AliasAdded(alias, key) == [aliases EXCEPT ![alias] = IF @ = NoKey THEN key ELSE @]

WriteAlias(m) ==
    /\ At(m, "alias")
    /\ LET row == candidates[admin[m].row] IN aliases' = AliasAdded(row.alias, row.key)
    /\ Goto(m, "mark")
    /\ UNCHANGED <<candidates, registry, probe>>

\* Mutant: a status the review queue does not know is written.
MarkedPromoted(i) == [candidates EXCEPT ![i].status = "promoted"]

\* The queue after the update, by id.
Marked(i) == [candidates EXCEPT ![i].status = "approved"]

\* The queue row is marked, and the tenant's cached knowledge dropped.
MarkCandidate(m) ==
    /\ At(m, "mark")
    /\ candidates' = Marked(admin[m].row)
    /\ Reply(m, "promoted")
    /\ UNCHANGED <<registry, aliases, probe>>

-----------------------------------------------------------------------------
(* The probe of the tenant's telemetry *)

StartProbe(m) ==
    /\ At(m, "idle")
    /\ admin' = [admin EXCEPT ![m] = [NoRequest EXCEPT !.pc = "keys"]]
    /\ UNCHANGED <<knowledge, probe>>

\* introspect_keys, then introspect_event_types.  The store turns a failing
\* query into an unsuccessful result and that into an empty list; what it
\* raises, an unexpected error of the driver, is the handler's typed 503.
Introspect(m, next) ==
    \/ Goto(m, next)
    \/ Outages /\ admin' = [admin EXCEPT ![m].pc = next, ![m].emptied = TRUE]
    \/ Outages /\ Reply(m, "STORE_UNAVAILABLE")

ProbeKeys(m) ==
    /\ At(m, "keys")
    /\ Introspect(m, "events")
    /\ UNCHANGED <<knowledge, probe>>

ProbeEvents(m) ==
    /\ At(m, "events")
    /\ Introspect(m, "save")
    /\ UNCHANGED <<knowledge, probe>>

\* save_probe upserts the row, over an earlier probe; its failure is
\* swallowed.
SaveProbe(m) ==
    /\ At(m, "save")
    /\ \/ probe' = IF admin[m].emptied THEN "emptied" ELSE "full"
       \/ Outages /\ UNCHANGED probe
    /\ Reply(m, "probed")
    /\ UNCHANGED knowledge

-----------------------------------------------------------------------------

\* A metadata query fails: what was committed before it stays.  (A typed 503
\* for a promotion, an unhandled exception for staging.)
Fails(m) ==
    /\ Outages
    /\ \/ admin[m].pc \in {"read", "registry", "alias", "mark"}
       \/ At(m, "stage") /\ admin[m].queue # {}
    /\ Reply(m, "failed")
    /\ UNCHANGED <<knowledge, probe>>

Deliver(m) ==
    /\ At(m, "reply")
    /\ admin' = [admin EXCEPT ![m] = NoRequest]
    /\ UNCHANGED <<knowledge, probe>>

-----------------------------------------------------------------------------

Work(m) ==
    \/ StageNext(m) \/ StageEnds(m)
    \/ ReadCandidate(m) \/ WriteRegistry(m) \/ WriteAlias(m) \/ MarkCandidate(m)
    \/ ProbeKeys(m) \/ ProbeEvents(m) \/ SaveProbe(m)
    \/ Fails(m) \/ Deliver(m)

Next == \E m \in Admins : StartStage(m) \/ StartPromote(m) \/ StartProbe(m) \/ Work(m)

Spec == Init /\ [][Next]_vars

-----------------------------------------------------------------------------

\* Whoever promotes at the same time and wherever a promotion breaks off,
\* an alias never leads to a key that is missing from the registry: the
\* resolver finds every key the aliases name.
AliasesAreRegistered == \A a \in Aliases : aliases[a] # NoKey => aliases[a] \in registry

\* The keys that were staged with an alias.
StagedWith(alias) ==
    {candidates[i].key : i \in {j \in 1..Len(candidates) : candidates[j].alias = alias}}

\* An approved candidate is in the knowledge base: its key is registered,
\* and its alias leads to it or to a key that was staged with that alias,
\* too, and got there first.  The mark comes last, so a promotion that broke
\* off is still in the queue.
ApprovedIsKnown ==
    \A i \in 1..Len(candidates) :
        candidates[i].status = "approved" =>
            /\ candidates[i].key \in registry
            /\ aliases[candidates[i].alias] \in StagedWith(candidates[i].alias)

\* "boundary: store outage -> typed 503": a probe that answers "probe
\* complete" was answered by the telemetry store.
OutageIsTyped == \A m \in Admins : admin[m].reply = "probed" => ~admin[m].emptied
=============================================================================
