--------------------------- MODULE KnowledgeFleet ---------------------------
(***************************************************************************)
(* One worker process of the service among the others (Dockerfile: several *)
(* gunicorn workers, each replaced after --max-requests requests).  The    *)
(* processes share the PostgreSQL tables and nothing else: _cache is an    *)
(* attribute of the class, so every process has its own, and               *)
(* invalidate_cache reaches the entries of the process it runs in.  To one *)
(* process the others are a source of writes it hears nothing of.          *)
(*                                                                         *)
(* Time is counted here, where KnowledgeCache only ages its entries: the   *)
(* ticks since the tables of a tenant changed and the ticks a load has     *)
(* taken so far.  Both are history variables; no action depends on them    *)
(* but the clock, which does not run past a load of MaxLoad ticks.         *)
(***************************************************************************)
EXTENDS KnowledgeCache

CONSTANT MaxLoad   \* the ticks the slowest load takes

ASSUME FleetAssumption == MaxLoad \in Nat

VARIABLES
    sinceWrite,   \* ticks since the tables of a tenant changed, capped at Horizon
    loading       \* ticks the load of a thread has taken

fleetVars == <<tables, cache, reader, writer, sinceWrite, loading>>

\* A copy is as old as its load was long when it is installed, and is served
\* for less than TTL from then on.
Horizon == TTL + MaxLoad

FleetTypeOK ==
    /\ TypeOK
    /\ sinceWrite \in [Tenants -> 0..Horizon]
    /\ loading \in [Readers -> 0..MaxLoad]

FleetInit ==
    /\ Init
    /\ sinceWrite = [t \in Tenants |-> 0]
    /\ loading = [r \in Readers |-> 0]

-----------------------------------------------------------------------------

\* Another process writes a section of t's tables: a key, an alias of a key
\* or an example.  Its invalidation does not reach this process.
ForeignWrite(t) ==
    /\ \E section \in {"keys", "aliases", "examples"} :
          /\ tables[t][section] < MaxWrites[t][section]
          /\ section = "aliases" => tables[t].keys # 0
          /\ tables' = [tables EXCEPT ![t][section] = @ + 1]
    /\ cache' = ExcusedCache(t)
    /\ reader' = ExcusedReaders(t)
    /\ UNCHANGED writer

\* The process dies, or is retired, and another takes its place: requests
\* break off where they are, committed rows stay, the cache starts empty.
Restart ==
    /\ cache' = [t \in Tenants |-> NoEntry]
    /\ reader' = [r \in Readers |-> NoRead]
    /\ writer' = [w \in Writers |-> NoWrite]
    /\ UNCHANGED tables

\* What the history records of a step that takes no time.
Observe ==
    /\ sinceWrite' = [t \in Tenants |-> IF tables'[t] = tables[t] THEN sinceWrite[t] ELSE 0]
    /\ loading' = [r \in Readers |-> IF reader'[r].pc \in Loading THEN loading[r] ELSE 0]

\* Time passes, for the entries and for the loads under way.
FleetTick ==
    /\ \A r \in Readers : reader[r].pc \in Loading => loading[r] < MaxLoad
    /\ cache' = Aged
    /\ sinceWrite' = [t \in Tenants |->
                        IF sinceWrite[t] < Horizon THEN sinceWrite[t] + 1 ELSE Horizon]
    /\ loading' = [r \in Readers |-> IF reader[r].pc \in Loading THEN loading[r] + 1 ELSE 0]
    /\ UNCHANGED <<tables, reader, writer>>

Instant == Step \/ (\E t \in Tenants : ForeignWrite(t)) \/ Restart

FleetNext == FleetTick \/ (Instant /\ Observe)

FleetSpec == FleetInit /\ [][FleetNext]_fleetVars

-----------------------------------------------------------------------------
(* Properties *)

\* What load serves is what the tables held no longer ago than the TTL and
\* the time of one load: once the tables of a tenant have been at rest for
\* that long, no process serves anything else, whichever process wrote them
\* and whether or not an invalidation was lost or overtaken.
TTLBoundsStaleness ==
    \A t \in Tenants :
        sinceWrite[t] = Horizon /\ Usable(t) => cache[t].knowledge = tables[t]
=============================================================================
