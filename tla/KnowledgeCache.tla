--------------------------- MODULE KnowledgeCache ---------------------------
(***************************************************************************)
(* KnowledgeStore (knowledge/store.py): the class-level cache of tenant    *)
(* knowledge in front of the PostgreSQL sql_agent_* tables, the threads    *)
(* that load through it, and the three paths that write the tables behind  *)
(* it: promote_candidate (onboarding/wizard.py), approve                   *)
(* (feedback/promotion.py) and the decay of after_correction               *)
(* (feedback/hooks.py).                                                    *)
(*                                                                         *)
(* A section of a tenant's knowledge is a version number that every write  *)
(* of the section increases; the registry section at 0 is a tenant without *)
(* registry rows.  promote_candidate writes a key before its alias, so an  *)
(* alias version never runs ahead of the key version in the tables.  The   *)
(* other sections (rules, schema columns, table metadata) are read in the  *)
(* same way and written by no path of the program: they are left out, as   *)
(* are the counters of hits and misses.                                    *)
(*                                                                         *)
(* The timestamp of an entry is its age in ticks since the install, capped *)
(* at TTL; which of several entries of one age min() finds is left open.   *)
(***************************************************************************)
EXTENDS Naturals, FiniteSets

CONSTANTS
    Tenants,
    Readers,      \* threads inside KnowledgeStore.load
    Writers,      \* threads inside one of the write paths
    WriteKinds,   \* write paths in use: subset of {"promote", "approve", "decay"}
    MaxTenants,   \* capacity of the cache (100 in the code)
    TTL,          \* lifetime of an entry, in ticks (300 s in the code)
    MaxWrites,    \* bound: the writes of each section of each tenant
    Outages       \* whether queries may fail

ASSUME CacheAssumption ==
    /\ WriteKinds \subseteq {"promote", "approve", "decay"}
    /\ MaxTenants \in Nat \ {0}
    /\ TTL \in Nat \ {0}
    /\ Tenants # {}
    /\ MaxWrites \in [Tenants -> [keys : Nat, aliases : Nat, examples : Nat]]
    /\ Outages \in BOOLEAN

VARIABLES
    tables,    \* the version of each section of each tenant
    cache,     \* KnowledgeStore._cache
    reader,    \* the state of each load
    writer     \* the state of each write path

vars == <<tables, cache, reader, writer>>

-----------------------------------------------------------------------------

Versions == Nat
Snapshots == [keys : Versions, aliases : Versions, examples : Versions]
Nothing == [keys |-> 0, aliases |-> 0, examples |-> 0]

\* Only the knowledge of an onboarded tenant is ever cached.  `excused` is a
\* history flag: the tables changed under this copy in a way that no later
\* invalidation will make up for.
Entries == [knowledge : {s \in Snapshots : s.keys # 0}, age : 0..TTL, excused : BOOLEAN]
NoEntry == [age |-> 0]

Reads == [pc : {"idle", "keys", "aliases", "examples", "install", "served",
                "error", "not_onboarded"},
          tenant : Tenants, knowledge : Snapshots, excused : BOOLEAN]

Writes == [pc : {"idle", "aliases", "invalidate"}, tenant : Tenants]

AnyTenant == CHOOSE t \in Tenants : TRUE
NoRead == [pc |-> "idle", tenant |-> AnyTenant, knowledge |-> Nothing, excused |-> FALSE]
NoWrite == [pc |-> "idle", tenant |-> AnyTenant]

\* A load that is over: what it returned is with its caller.
Over(outcome) == [NoRead EXCEPT !.pc = outcome]

TypeOK ==
    /\ tables \in [Tenants -> Snapshots]
    /\ cache \in [Tenants -> Entries \cup {NoEntry}]
    /\ reader \in [Readers -> Reads]
    /\ writer \in [Writers -> Writes]

\* Tenants start without knowledge; onboarding writes it.
Init ==
    /\ tables = [t \in Tenants |-> Nothing]
    /\ cache = [t \in Tenants |-> NoEntry]
    /\ reader = [r \in Readers |-> NoRead]
    /\ writer = [w \in Writers |-> NoWrite]

-----------------------------------------------------------------------------
(* KnowledgeStore.load *)

Cached(t) == cache[t] # NoEntry
CachedTenants == {t \in Tenants : Cached(t)}
Loading == {"keys", "aliases", "examples", "install"}

\* An entry serves while it is younger than the TTL.
Usable(t) == Cached(t) /\ cache[t].age < TTL

\* Mutant: every hit renews the entry.
LookupRenewing(r, t) ==
    /\ reader[r].pc = "idle"
    /\ reader' = [reader EXCEPT ![r] =
          IF Usable(t) THEN Over("served")
                       ELSE [NoRead EXCEPT !.pc = "keys", !.tenant = t]]
    /\ cache' = IF Usable(t) THEN [cache EXCEPT ![t].age = 0] ELSE cache
    /\ UNCHANGED <<tables, writer>>

\* The lookup under the lock and the expiry check behind it: a hit is
\* served, anything else starts a cold load.
Lookup(r, t) ==
    /\ reader[r].pc = "idle"
    /\ reader' = [reader EXCEPT ![r] =
          IF Usable(t) THEN Over("served")
                       ELSE [NoRead EXCEPT !.pc = "keys", !.tenant = t]]
    /\ UNCHANGED <<tables, cache, writer>>

\* Mutant: a tenant without registry rows is loaded and cached empty.
ReadKeysUnchecked(r) ==
    /\ reader[r].pc = "keys"
    /\ reader' = [reader EXCEPT ![r].pc = "aliases",
                                ![r].knowledge.keys = tables[reader[r].tenant].keys]
    /\ UNCHANGED <<tables, cache, writer>>

\* _cold_load, first section: no registry rows is a typed refusal.
ReadKeys(r) ==
    /\ reader[r].pc = "keys"
    /\ LET keys == tables[reader[r].tenant].keys IN
       IF keys = 0
       THEN reader' = [reader EXCEPT ![r] = Over("not_onboarded")]
       ELSE reader' = [reader EXCEPT ![r].pc = "aliases", ![r].knowledge.keys = keys]
    /\ UNCHANGED <<tables, cache, writer>>

ReadAliases(r) ==
    /\ reader[r].pc = "aliases"
    /\ reader' = [reader EXCEPT ![r].pc = "examples",
                                ![r].knowledge.aliases = tables[reader[r].tenant].aliases]
    /\ UNCHANGED <<tables, cache, writer>>

ReadExamples(r) ==
    /\ reader[r].pc = "examples"
    /\ reader' = [reader EXCEPT ![r].pc = "install",
                                ![r].knowledge.examples = tables[reader[r].tenant].examples]
    /\ UNCHANGED <<tables, cache, writer>>

\* A query of the cold load fails: the exception leaves load as it is, and
\* an expired entry is not consulted.
ColdLoadFails(r) ==
    /\ Outages /\ reader[r].pc \in {"keys", "aliases", "examples"}
    /\ reader' = [reader EXCEPT ![r] = Over("error")]
    /\ UNCHANGED <<tables, cache, writer>>

\* Mutant: room is only made once the cache is over its limit.
Overfull == Cardinality(CachedTenants) > MaxTenants

Full == Cardinality(CachedTenants) >= MaxTenants

\* The entries min() may find.
Oldest == {t \in CachedTenants : \A u \in CachedTenants : cache[u].age <= cache[t].age}

\* The cache once there is room: a full one loses an oldest entry, whoever
\* is being installed.
Evicted == IF Full THEN {[cache EXCEPT ![t] = NoEntry] : t \in Oldest} ELSE {cache}

\* The install under the lock, and the return of the loaded knowledge.
Install(r) ==
    /\ reader[r].pc = "install"
    /\ \E entries \in Evicted :
          cache' = [entries EXCEPT ![reader[r].tenant] =
                      [knowledge |-> reader[r].knowledge, age |-> 0,
                       excused |-> reader[r].excused]]
    /\ reader' = [reader EXCEPT ![r] = Over("served")]
    /\ UNCHANGED <<tables, writer>>

\* The caller goes on with what load returned or raised.
Return(r) ==
    /\ reader[r].pc \in {"served", "error", "not_onboarded"}
    /\ reader' = [reader EXCEPT ![r] = NoRead]
    /\ UNCHANGED <<tables, cache, writer>>

-----------------------------------------------------------------------------
(* The write paths *)

\* Copies of t that exist or are being made are excused from now on.
ExcusedCache(t) ==
    IF Cached(t) THEN [cache EXCEPT ![t].excused = TRUE] ELSE cache
ExcusedReaders(t) ==
    [r \in Readers |->
        [reader[r] EXCEPT !.excused = @ \/ (reader[r].tenant = t /\ reader[r].pc \in Loading)]]

\* promote_candidate: the registry row, then the alias row.
PromoteKey(w, t) ==
    /\ writer[w].pc = "idle" /\ "promote" \in WriteKinds
    /\ tables[t].keys < MaxWrites[t].keys
    /\ tables' = [tables EXCEPT ![t].keys = @ + 1]
    /\ writer' = [writer EXCEPT ![w] = [pc |-> "aliases", tenant |-> t]]
    /\ UNCHANGED <<cache, reader>>

PromoteAlias(w) ==
    /\ writer[w].pc = "aliases"
    /\ tables' = [tables EXCEPT ![writer[w].tenant].aliases = @ + 1]
    /\ writer' = [writer EXCEPT ![w].pc = "invalidate"]
    /\ UNCHANGED <<cache, reader>>

\* approve: the example is upserted; the feedback row is marked and the
\* cache invalidated afterwards.
ApproveExample(w, t) ==
    /\ writer[w].pc = "idle" /\ "approve" \in WriteKinds
    /\ tables[t].examples < MaxWrites[t].examples
    /\ tables' = [tables EXCEPT ![t].examples = @ + 1]
    /\ writer' = [writer EXCEPT ![w] = [pc |-> "invalidate", tenant |-> t]]
    /\ UNCHANGED <<cache, reader>>

\* _decay demotes an example and invalidates nothing.
DecayExample(t) ==
    /\ "decay" \in WriteKinds
    /\ tables[t].examples < MaxWrites[t].examples
    /\ tables' = [tables EXCEPT ![t].examples = @ + 1]
    /\ cache' = ExcusedCache(t)
    /\ reader' = ExcusedReaders(t)
    /\ UNCHANGED writer

\* Mutant: the entry is looked up under another name and stays.
InvalidatedNothing(t) == [u \in Tenants |-> cache[u]]

\* invalidate_cache under the lock.
Invalidated(t) == [cache EXCEPT ![t] = NoEntry]

Invalidate(w) ==
    /\ writer[w].pc = "invalidate"
    /\ cache' = Invalidated(writer[w].tenant)
    /\ reader' = ExcusedReaders(writer[w].tenant)
    /\ writer' = [writer EXCEPT ![w] = NoWrite]
    /\ UNCHANGED tables

\* A later statement of the write path fails: its rows stay, and the
\* invalidation at its end never runs.
WriteAborts(w) ==
    /\ Outages /\ writer[w].pc # "idle"
    /\ cache' = ExcusedCache(writer[w].tenant)
    /\ reader' = ExcusedReaders(writer[w].tenant)
    /\ writer' = [writer EXCEPT ![w] = NoWrite]
    /\ UNCHANGED tables

-----------------------------------------------------------------------------

\* The cache a tick later.
Aged == [t \in Tenants |->
            IF Usable(t) THEN [cache[t] EXCEPT !.age = @ + 1] ELSE cache[t]]

\* Time passes.
Tick ==
    /\ \E t \in CachedTenants : cache[t].age < TTL
    /\ cache' = Aged
    /\ UNCHANGED <<tables, reader, writer>>

Load(r) ==
    \/ ReadKeys(r) \/ ReadAliases(r) \/ ReadExamples(r)
    \/ ColdLoadFails(r) \/ Install(r) \/ Return(r)

Write(w) == PromoteAlias(w) \/ Invalidate(w) \/ WriteAborts(w)

Step ==
    \/ \E t \in Tenants, r \in Readers : Lookup(r, t)
    \/ \E t \in Tenants, w \in Writers : PromoteKey(w, t) \/ ApproveExample(w, t)
    \/ \E t \in Tenants : DecayExample(t)
    \/ \E r \in Readers : Load(r)
    \/ \E w \in Writers : Write(w)

Next == Tick \/ Step

Spec == Init /\ [][Next]_vars

-----------------------------------------------------------------------------
(* Properties *)

\* However many threads install concurrently, the cache never holds more
\* than max_tenants entries.
CacheBounded == Cardinality(CachedTenants) <= MaxTenants

WritePending(t) == \E w \in Writers : writer[w].pc # "idle" /\ writer[w].tenant = t

\* An entry differs from the tables only for one of the reasons the code
\* leaves open: a write path has not reached its invalidation yet, or the
\* copy was being loaded when the invalidation ran, or the write was a decay
\* or broke off, and was never announced.
StaleOnlyIfExcused ==
    \A t \in CachedTenants :
        \/ cache[t].knowledge = tables[t]
        \/ cache[t].excused
        \/ WritePending(t)

Stale(t) == Usable(t) /\ cache[t].knowledge # tables[t]

\* "write paths call invalidate_cache so changes are visible immediately":
\* once no write is under way, no usable entry differs from the tables.
WritesVisible == \A t \in Tenants : WritePending(t) \/ ~Stale(t)
=============================================================================
