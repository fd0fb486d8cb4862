------------------------ MODULE KnowledgeFleetProofs ------------------------
(***************************************************************************)
(* Proofs about the knowledge cache, for all tenants, threads, sizes and   *)
(* lifetimes.  KnowledgeCache: its types, the bound on the cache and the   *)
(* account of every stale entry.  KnowledgeFleet: all this still holds of  *)
(* a process among others that writes behind its back and may restart, and *)
(* what it serves is never older than the TTL and one load.                *)
(***************************************************************************)
EXTENDS KnowledgeFleet, FiniteSetTheorems, TLAPS

-----------------------------------------------------------------------------
(* Type correctness *)

LEMMA Limits == MaxTenants \in Nat \ {0} /\ TTL \in Nat \ {0}
<1> QED
  BY CacheAssumption

LEMMA NoReadType == NoRead \in Reads
<1>1. Nothing \in Snapshots
  BY CacheAssumption DEF Nothing, Snapshots, Versions
<1>2. AnyTenant \in Tenants
  BY CacheAssumption DEF AnyTenant
<1> QED
  BY <1>1, <1>2 DEF NoRead, Reads

LEMMA OverType ==
    ASSUME NEW outcome \in {"served", "error", "not_onboarded"}
    PROVE  Over(outcome) \in Reads /\ Over(outcome).pc = outcome
<1> QED
  BY NoReadType DEF Over, Reads

LEMMA NoWriteType == NoWrite \in Writes
<1>1. AnyTenant \in Tenants
  BY CacheAssumption DEF AnyTenant
<1> QED
  BY <1>1 DEF NoWrite, Writes

LEMMA EntriesAreEntries == NoEntry \notin Entries
<1>1. \A x \in Entries : DOMAIN x = {"knowledge", "age", "excused"}
  BY DEF Entries
<1>2. DOMAIN NoEntry = {"age"}
  BY DEF NoEntry
<1> QED
  BY <1>1, <1>2

-----------------------------------------------------------------------------
(* The inductive invariant of the cache *)

(* The sections a load has read so far are those of the tables. *)
Agrees(rd) ==
    LET now == tables[rd.tenant] IN
    /\ rd.pc \in {"aliases", "examples", "install"} => rd.knowledge.keys = now.keys
    /\ rd.pc \in {"examples", "install"} => rd.knowledge.aliases = now.aliases
    /\ rd.pc = "install" => rd.knowledge.examples = now.examples

(* A load goes on only for an onboarded tenant, and differs from the tables *)
(* only for a reason StaleOnlyIfExcused allows the entry it will become.    *)
Sound(rd) ==
    /\ rd.pc \in {"aliases", "examples", "install"} => rd.knowledge.keys # 0
    /\ rd.pc \in Loading => rd.excused \/ WritePending(rd.tenant) \/ Agrees(rd)

IInv ==
    /\ TypeOK
    /\ \A r \in Readers : Sound(reader[r])
    /\ StaleOnlyIfExcused
    /\ IsFiniteSet(CachedTenants)
    /\ CacheBounded

LEMMA IInvInit == Init => IInv
<1> SUFFICES ASSUME Init PROVE IInv
  OBVIOUS
<1>1. TypeOK
  <2>1. Nothing \in Snapshots
    BY Limits DEF Nothing, Snapshots, Versions
  <2> QED
    BY <2>1, NoReadType, NoWriteType DEF Init, TypeOK
<1>2. CachedTenants = {}
  BY DEF Init, CachedTenants, Cached
<1>3. IsFiniteSet(CachedTenants) /\ CacheBounded
  BY <1>2, FS_EmptySet, Limits DEF CacheBounded
<1>4. \A r \in Readers : Sound(reader[r])
  BY DEF Init, NoRead, Sound, Loading
<1> QED
  BY <1>1, <1>2, <1>3, <1>4 DEF IInv, StaleOnlyIfExcused

-----------------------------------------------------------------------------
(* Steps of a load that leave the cache alone *)

(* A load may be replaced by any sound one. *)
LEMMA ReadStep ==
    ASSUME IInv, NEW r \in Readers, NEW rd \in Reads, Sound(rd),
           reader' = [reader EXCEPT ![r] = rd],
           UNCHANGED <<tables, cache, writer>>
    PROVE  IInv'
<1>1. TypeOK'
  BY DEF IInv, TypeOK
<1>2. \A q \in Readers : Sound(reader[q])'
  <2> SUFFICES ASSUME NEW q \in Readers PROVE Sound(reader[q])'
    OBVIOUS
  <2>1. reader'[q] = IF q = r THEN rd ELSE reader[q]
    BY DEF IInv, TypeOK
  <2>2. Sound(IF q = r THEN rd ELSE reader[q])
    BY DEF IInv
  <2> QED
    BY <2>1, <2>2 DEF Sound, Agrees, WritePending
<1>3. /\ CachedTenants' = CachedTenants
      /\ StaleOnlyIfExcused'
  BY DEF IInv, CachedTenants, Cached, StaleOnlyIfExcused, WritePending
<1> QED
  BY <1>1, <1>2, <1>3 DEF IInv, CacheBounded

LEMMA LookupStep ==
    ASSUME IInv, NEW r \in Readers, NEW t \in Tenants, Lookup(r, t)
    PROVE  IInv'
<1> DEFINE hit == Over("served")
           miss == [NoRead EXCEPT !.pc = "keys", !.tenant = t]
<1>1. CASE Usable(t)
  <2>1. hit \in Reads /\ hit.pc = "served"
    BY OverType
  <2>2. Sound(hit)
    BY <2>1 DEF Sound, Loading
  <2> QED
    BY <1>1, <2>1, <2>2, ReadStep DEF Lookup
<1>2. CASE ~Usable(t)
  <2>1. miss \in Reads
    BY NoReadType DEF Reads
  <2>2. Sound(miss)
    BY DEF NoRead, Sound, Agrees
  <2> QED
    BY <1>2, <2>1, <2>2, ReadStep DEF Lookup
<1> QED
  BY <1>1, <1>2

LEMMA SectionStep ==
    ASSUME IInv, NEW r \in Readers,
           ReadKeys(r) \/ ReadAliases(r) \/ ReadExamples(r)
    PROVE  IInv'
<1>1. PICK t \in Tenants : t = reader[r].tenant
  BY DEF IInv, TypeOK, Reads
<1>2. /\ reader[r] \in Reads
      /\ reader[r].knowledge \in Snapshots
      /\ tables[t] \in Snapshots
      /\ Sound(reader[r])
  BY <1>1 DEF IInv, TypeOK, Reads
<1>3. CASE ReadKeys(r) /\ tables[t].keys = 0
  <2>1. Over("not_onboarded") \in Reads /\ Sound(Over("not_onboarded"))
    BY OverType DEF Sound, Loading
  <2> QED
    BY <1>1, <1>3, <2>1, ReadStep DEF ReadKeys
<1>6. CASE ReadKeys(r) /\ tables[t].keys # 0
  <2> DEFINE keys == tables[t].keys
  <2>1. PICK k : k = [reader[r].knowledge EXCEPT !.keys = keys]
    OBVIOUS
  <2>2. PICK rd : rd = [reader[r] EXCEPT !.pc = "aliases", !.knowledge = k]
    OBVIOUS
  <2>3. k \in Snapshots /\ k.keys = keys
    BY <1>2, <2>1 DEF Snapshots
  <2>4. rd \in Reads
    BY <1>2, <2>2, <2>3 DEF Reads
  <2>5. rd.pc = "aliases" /\ rd.tenant = t /\ rd.knowledge = k /\ rd.excused = reader[r].excused
    BY <1>1, <1>2, <2>2 DEF Reads
  <2>6. Sound(rd)
    BY <1>1, <1>2, <1>6, <2>3, <2>5 DEF Sound, Agrees, ReadKeys, Loading
  <2>7. reader' = [reader EXCEPT ![r] = rd]
    <3>1. reader' = [reader EXCEPT ![r].pc = "aliases", ![r].knowledge.keys = keys]
      BY <1>1, <1>6 DEF ReadKeys
    <3> QED
      BY <2>1, <2>2, <3>1 DEF IInv, TypeOK
  <2> QED
    BY <1>6, <2>4, <2>6, <2>7, ReadStep DEF ReadKeys
<1>4. CASE ReadAliases(r)
  <2>1. PICK k : k = [reader[r].knowledge EXCEPT !.aliases = tables[t].aliases]
    OBVIOUS
  <2>2. PICK rd : rd = [reader[r] EXCEPT !.pc = "examples", !.knowledge = k]
    OBVIOUS
  <2>3. /\ k \in Snapshots
        /\ k.aliases = tables[t].aliases /\ k.keys = reader[r].knowledge.keys
    BY <1>2, <2>1 DEF Snapshots
  <2>4. rd \in Reads
    BY <1>2, <2>2, <2>3 DEF Reads
  <2>5. rd.pc = "examples" /\ rd.tenant = t /\ rd.knowledge = k /\ rd.excused = reader[r].excused
    BY <1>1, <1>2, <2>2 DEF Reads
  <2>6. Sound(rd)
    BY <1>1, <1>2, <1>4, <2>3, <2>5 DEF Sound, Agrees, ReadAliases, Loading
  <2>7. reader' = [reader EXCEPT ![r] = rd]
    BY <1>1, <1>4, <2>1, <2>2 DEF ReadAliases, IInv, TypeOK
  <2> QED
    BY <1>4, <2>4, <2>6, <2>7, ReadStep DEF ReadAliases
<1>5. CASE ReadExamples(r)
  <2>1. PICK k : k = [reader[r].knowledge EXCEPT !.examples = tables[t].examples]
    OBVIOUS
  <2>2. PICK rd : rd = [reader[r] EXCEPT !.pc = "install", !.knowledge = k]
    OBVIOUS
  <2>3. /\ k \in Snapshots
        /\ k.examples = tables[t].examples
        /\ k.aliases = reader[r].knowledge.aliases /\ k.keys = reader[r].knowledge.keys
    BY <1>2, <2>1 DEF Snapshots
  <2>4. rd \in Reads
    BY <1>2, <2>2, <2>3 DEF Reads
  <2>5. rd.pc = "install" /\ rd.tenant = t /\ rd.knowledge = k /\ rd.excused = reader[r].excused
    BY <1>1, <1>2, <2>2 DEF Reads
  <2>6. Sound(rd)
    BY <1>1, <1>2, <1>5, <2>3, <2>5 DEF Sound, Agrees, ReadExamples, Loading
  <2>7. reader' = [reader EXCEPT ![r] = rd]
    BY <1>1, <1>5, <2>1, <2>2 DEF ReadExamples, IInv, TypeOK
  <2> QED
    BY <1>5, <2>4, <2>6, <2>7, ReadStep DEF ReadExamples
<1> QED
  BY <1>3, <1>4, <1>5, <1>6

LEMMA LeaveStep ==
    ASSUME IInv, NEW r \in Readers, ColdLoadFails(r) \/ Return(r)
    PROVE  IInv'
<1>1. CASE ColdLoadFails(r)
  <2>1. Over("error") \in Reads
    BY OverType
  <2>2. Sound(Over("error"))
    BY OverType DEF Sound, Loading
  <2> QED
    BY <1>1, <2>1, <2>2, ReadStep DEF ColdLoadFails
<1>2. CASE Return(r)
  <2>1. Sound(NoRead)
    BY DEF NoRead, Sound, Loading
  <2> QED
    BY <1>2, <2>1, NoReadType, ReadStep DEF Return
<1> QED
  BY <1>1, <1>2

-----------------------------------------------------------------------------
(* The install *)

(* Evicting makes room and takes nothing in. *)
LEMMA EvictedRoom ==
    ASSUME IInv, NEW entries \in Evicted
    PROVE  /\ entries \in [Tenants -> Entries \cup {NoEntry}]
           /\ \A t \in Tenants : entries[t] = NoEntry \/ entries[t] = cache[t]
           /\ LET held == {t \in Tenants : entries[t] # NoEntry} IN
              /\ IsFiniteSet(held)
              /\ Cardinality(held) < MaxTenants
<1> DEFINE held == {t \in Tenants : entries[t] # NoEntry}
<1>1. cache \in [Tenants -> Entries \cup {NoEntry}]
  BY DEF IInv, TypeOK
<1>2. /\ IsFiniteSet(CachedTenants)
      /\ Cardinality(CachedTenants) \in Nat
      /\ Cardinality(CachedTenants) <= MaxTenants
  BY FS_CardinalityType DEF IInv, CacheBounded
<1>3. CASE Full
  <2>1. PICK o \in Oldest : entries = [cache EXCEPT ![o] = NoEntry]
    BY <1>3 DEF Evicted
  <2>2. o \in CachedTenants
    BY <2>1 DEF Oldest
  <2>3. held = CachedTenants \ {o}
    BY <1>1, <2>1 DEF CachedTenants, Cached
  <2>4. IsFiniteSet(held) /\ Cardinality(held) = Cardinality(CachedTenants) - 1
    BY <1>2, <2>2, <2>3, FS_RemoveElement
  <2>5. entries \in [Tenants -> Entries \cup {NoEntry}]
    BY <1>1, <2>1
  <2>6. \A t \in Tenants : entries[t] = NoEntry \/ entries[t] = cache[t]
    BY <1>1, <2>1
  <2>7. Cardinality(held) < MaxTenants
    BY <1>2, <2>4, Limits
  <2> QED
    BY <2>4, <2>5, <2>6, <2>7
<1>4. CASE ~Full
  <2>1. entries = cache
    BY <1>4 DEF Evicted
  <2>2. held = CachedTenants
    BY <2>1 DEF CachedTenants, Cached
  <2> QED
    BY <1>1, <1>2, <1>4, <2>1, <2>2, Limits DEF Full
<1> QED
  BY <1>3, <1>4

LEMMA InstallStep ==
    ASSUME IInv, NEW r \in Readers, Install(r)
    PROVE  IInv'
<1>1. PICK t \in Tenants : t = reader[r].tenant
  BY DEF IInv, TypeOK, Reads
<1>2. PICK e : e = [knowledge |-> reader[r].knowledge, age |-> 0, excused |-> reader[r].excused]
  OBVIOUS
<1>3. PICK entries \in Evicted : cache' = [entries EXCEPT ![t] = e]
  BY <1>1, <1>2 DEF Install
<1>4. /\ reader[r] \in Reads /\ reader[r].knowledge \in Snapshots
      /\ reader[r].pc = "install" /\ Sound(reader[r]) /\ tables[t] \in Snapshots
  BY <1>1 DEF IInv, TypeOK, Reads, Install
<1>5. e \in Entries /\ e.knowledge = reader[r].knowledge /\ e.excused = reader[r].excused
  <2>1. reader[r].knowledge \in {s \in Snapshots : s.keys # 0}
    BY <1>4 DEF Sound
  <2> QED
    BY <1>2, <1>4, <2>1, Limits DEF Entries, Reads
<1>6. NoEntry \notin Entries
  BY EntriesAreEntries
<1>7. /\ entries \in [Tenants -> Entries \cup {NoEntry}]
      /\ \A u \in Tenants : entries[u] = NoEntry \/ entries[u] = cache[u]
  BY EvictedRoom
<1>8. /\ UNCHANGED <<tables, writer>>
      /\ reader' = [reader EXCEPT ![r] = Over("served")]
  BY DEF Install
<1>9. TypeOK'
  <2>1. cache' \in [Tenants -> Entries \cup {NoEntry}]
    BY <1>3, <1>5, <1>7
  <2>2. reader' \in [Readers -> Reads]
    <3>1. Over("served") \in Reads
      BY OverType
    <3> QED
      BY <1>8, <3>1 DEF IInv, TypeOK
  <2> QED
    BY <1>8, <2>1, <2>2 DEF IInv, TypeOK
<1>10. \A q \in Readers : Sound(reader[q])'
  <2> SUFFICES ASSUME NEW q \in Readers PROVE Sound(reader[q])'
    OBVIOUS
  <2>1. CASE q = r
    <3>1. reader'[q].pc = "served"
      BY <1>8, <2>1, OverType DEF IInv, TypeOK
    <3> QED
      BY <3>1 DEF Sound, Loading
  <2>2. CASE q # r
    <3>1. reader'[q] = reader[q]
      BY <1>8, <2>2 DEF IInv, TypeOK
    <3>2. Sound(reader[q])
      BY DEF IInv
    <3> QED
      BY <1>8, <3>1, <3>2 DEF Sound, Agrees, WritePending
  <2> QED
    BY <2>1, <2>2
<1>11. StaleOnlyIfExcused'
  <2> SUFFICES ASSUME NEW u \in CachedTenants'
               PROVE  \/ cache'[u].knowledge = tables'[u]
                      \/ cache'[u].excused
                      \/ WritePending(u)'
    BY DEF StaleOnlyIfExcused
  <2>0. u \in Tenants /\ cache'[u] # NoEntry
    BY DEF CachedTenants, Cached
  <2>1. CASE u = t
    <3>1. cache'[u] = e
      BY <1>3, <1>7, <2>1
    <3>2. e.excused \/ WritePending(t) \/ Agrees(reader[r])
      BY <1>1, <1>4, <1>5 DEF Sound, Loading
    <3>3. Agrees(reader[r]) => e.knowledge = tables[t]
      BY <1>1, <1>4, <1>5 DEF Agrees, Snapshots
    <3> QED
      BY <1>8, <2>1, <3>1, <3>2, <3>3 DEF WritePending
  <2>2. CASE u # t
    <3>1. cache'[u] = cache[u] /\ u \in CachedTenants
      BY <1>3, <1>7, <2>0, <2>2 DEF CachedTenants, Cached
    <3> QED
      BY <1>8, <3>1 DEF IInv, StaleOnlyIfExcused, WritePending
  <2> QED
    BY <2>1, <2>2
<1>12. IsFiniteSet(CachedTenants') /\ CacheBounded'
  <2> DEFINE held == {u \in Tenants : entries[u] # NoEntry}
  <2>1. /\ IsFiniteSet(held)
        /\ Cardinality(held) < MaxTenants
        /\ Cardinality(held) \in Nat
    BY EvictedRoom, FS_CardinalityType
  <2>2. CachedTenants' = held \cup {t}
    BY <1>3, <1>5, <1>6, <1>7 DEF CachedTenants, Cached
  <2>3. /\ IsFiniteSet(held \cup {t})
        /\ Cardinality(held \cup {t}) <= Cardinality(held) + 1
    BY <2>1, FS_AddElement
  <2>4. Cardinality(held \cup {t}) \in Nat
    BY <2>3, FS_CardinalityType
  <2> QED
    BY <2>1, <2>2, <2>3, <2>4, Limits DEF CacheBounded
<1> QED
  BY <1>9, <1>10, <1>11, <1>12 DEF IInv

-----------------------------------------------------------------------------
(* The clock and the write paths *)

LEMMA TickStep ==
    ASSUME IInv, cache' = Aged, UNCHANGED <<tables, reader, writer>>
    PROVE  IInv'
<1>1. cache \in [Tenants -> Entries \cup {NoEntry}]
  BY DEF IInv, TypeOK
<1>2. UNCHANGED <<tables, reader, writer>>
  OBVIOUS
<1>3. \A t \in Tenants : IF Usable(t)
                           THEN cache'[t] = [cache[t] EXCEPT !.age = @ + 1]
                           ELSE cache'[t] = cache[t]
  BY DEF Aged
<1>4. ASSUME NEW t \in Tenants, Usable(t)
      PROVE  /\ cache'[t] \in Entries
             /\ cache'[t].knowledge = cache[t].knowledge
             /\ cache'[t].excused = cache[t].excused
  <2>1. cache[t] \in Entries /\ cache[t].age < TTL
    BY <1>1, <1>4 DEF Usable, Cached
  <2>2. cache[t].age + 1 \in 0..TTL
    BY <2>1, Limits DEF Entries
  <2> QED
    BY <1>3, <1>4, <2>1, <2>2 DEF Entries
<1>5. ASSUME NEW t \in Tenants
      PROVE  /\ cache'[t] \in Entries \cup {NoEntry}
             /\ cache'[t] = NoEntry <=> cache[t] = NoEntry
  <2>1. CASE Usable(t)
    BY <1>4, <2>1, EntriesAreEntries DEF Usable, Cached
  <2>2. CASE ~Usable(t)
    BY <1>1, <1>3, <2>2
  <2> QED
    BY <2>1, <2>2
<1>6. CachedTenants' = CachedTenants
  BY <1>5 DEF CachedTenants, Cached
<1>7. TypeOK'
  <2>1. cache' \in [Tenants -> Entries \cup {NoEntry}]
    <3>1. cache' = [t \in Tenants |-> cache'[t]]
      BY DEF Aged
    <3> QED
      BY <1>5, <3>1
  <2> QED
    BY <1>2, <2>1 DEF IInv, TypeOK
<1>8. \A r \in Readers : Sound(reader[r])'
  BY <1>2 DEF IInv, Sound, Agrees, WritePending
<1>9. StaleOnlyIfExcused'
  <2> SUFFICES ASSUME NEW t \in CachedTenants
               PROVE  \/ cache'[t].knowledge = tables'[t]
                      \/ cache'[t].excused
                      \/ WritePending(t)'
    BY <1>6 DEF StaleOnlyIfExcused
  <2>1. t \in Tenants
    BY DEF CachedTenants
  <2>2. cache'[t].knowledge = cache[t].knowledge /\ cache'[t].excused = cache[t].excused
    BY <1>3, <1>4, <2>1
  <2> QED
    BY <1>2, <2>2 DEF IInv, StaleOnlyIfExcused, WritePending
<1> QED
  BY <1>6, <1>7, <1>8, <1>9 DEF IInv, CacheBounded

(* A write path that has yet to invalidate may change its tenant's tables. *)
LEMMA PendingStep ==
    ASSUME IInv, NEW w \in Writers, NEW t \in Tenants,
           NEW s \in Snapshots, NEW wr \in Writes,
           wr.pc # "idle", wr.tenant = t,
           writer[w].pc = "idle" \/ writer[w].tenant = t,
           tables' = [tables EXCEPT ![t] = s],
           writer' = [writer EXCEPT ![w] = wr],
           UNCHANGED <<cache, reader>>
    PROVE  IInv'
<1>1. TypeOK'
  BY DEF IInv, TypeOK
<1>2. writer'[w] = wr /\ \A x \in Writers : x # w => writer'[x] = writer[x]
  BY DEF IInv, TypeOK
<1>3. WritePending(t)'
  BY <1>2 DEF WritePending
<1>4. \A u \in Tenants : WritePending(u) => WritePending(u)'
  BY <1>2, <1>3 DEF WritePending
<1>5. \A u \in Tenants : u # t => tables'[u] = tables[u]
  BY DEF IInv, TypeOK
<1>6. \A r \in Readers : Sound(reader[r])'
  <2> SUFFICES ASSUME NEW r \in Readers PROVE Sound(reader[r])'
    OBVIOUS
  <2>1. PICK u \in Tenants : u = reader[r].tenant
    BY DEF IInv, TypeOK, Reads
  <2>2. Sound(reader[r])
    BY DEF IInv
  <2>3. reader'[r] = reader[r]
    OBVIOUS
  <2>4. CASE u = t
    <3>1. WritePending(reader[r].tenant)'
      BY <1>3, <2>1, <2>3, <2>4 DEF WritePending
    <3> QED
      BY <2>2, <2>3, <3>1 DEF Sound
  <2>5. CASE u # t
    <3>1. tables'[reader[r].tenant] = tables[reader[r].tenant]
      BY <1>5, <2>1, <2>5
    <3>2. Agrees(reader[r]) => Agrees(reader[r])'
      BY <2>3, <3>1 DEF Agrees
    <3>3. WritePending(reader[r].tenant) => WritePending(reader[r].tenant)'
      BY <1>4, <2>1, <2>3 DEF WritePending
    <3> QED
      BY <2>2, <2>3, <3>2, <3>3 DEF Sound
  <2> QED
    BY <2>4, <2>5
<1>7. CachedTenants' = CachedTenants
  BY DEF CachedTenants, Cached
<1>8. StaleOnlyIfExcused'
  <2> SUFFICES ASSUME NEW u \in CachedTenants
               PROVE  \/ cache'[u].knowledge = tables'[u]
                      \/ cache'[u].excused
                      \/ WritePending(u)'
    BY <1>7 DEF StaleOnlyIfExcused
  <2>1. u \in Tenants
    BY DEF CachedTenants
  <2> QED
    BY <1>3, <1>4, <1>5, <2>1 DEF IInv, StaleOnlyIfExcused
<1> QED
  BY <1>1, <1>6, <1>7, <1>8 DEF IInv, CacheBounded

LEMMA PromoteKeyStep ==
    ASSUME IInv, NEW w \in Writers, NEW t \in Tenants, PromoteKey(w, t)
    PROVE  IInv'
<1> DEFINE wr == [pc |-> "aliases", tenant |-> t]
<1>1. PICK s : s = [tables[t] EXCEPT !.keys = @ + 1]
  OBVIOUS
<1>2. tables[t] \in Snapshots
  BY DEF IInv, TypeOK
<1>3. s \in Snapshots
  BY <1>1, <1>2 DEF Snapshots, Versions
<1>4. wr \in Writes /\ wr.pc # "idle" /\ wr.tenant = t
  BY DEF Writes
<1>5. tables' = [tables EXCEPT ![t] = s]
  BY <1>1 DEF PromoteKey, IInv, TypeOK
<1> QED
  BY <1>3, <1>4, <1>5, PendingStep DEF PromoteKey

LEMMA PromoteAliasStep ==
    ASSUME IInv, NEW w \in Writers, PromoteAlias(w)
    PROVE  IInv'
<1>1. PICK t \in Tenants : t = writer[w].tenant
  BY DEF IInv, TypeOK, Writes
<1>2. PICK s : s = [tables[t] EXCEPT !.aliases = @ + 1]
  OBVIOUS
<1>3. PICK wr : wr = [writer[w] EXCEPT !.pc = "invalidate"]
  OBVIOUS
<1>4. tables[t] \in Snapshots /\ writer[w] \in Writes
  BY <1>1 DEF IInv, TypeOK
<1>5. s \in Snapshots
  BY <1>2, <1>4 DEF Snapshots, Versions
<1>6. wr \in Writes /\ wr.pc # "idle" /\ wr.tenant = t
  BY <1>1, <1>3, <1>4 DEF Writes
<1>7. tables' = [tables EXCEPT ![t] = s]
  BY <1>1, <1>2 DEF PromoteAlias, IInv, TypeOK
<1>8. writer' = [writer EXCEPT ![w] = wr]
  BY <1>3 DEF PromoteAlias, IInv, TypeOK
<1>9. UNCHANGED <<cache, reader>>
  BY DEF PromoteAlias
<1> QED
  BY <1>1, <1>5, <1>6, <1>7, <1>8, <1>9, PendingStep

LEMMA ApproveExampleStep ==
    ASSUME IInv, NEW w \in Writers, NEW t \in Tenants, ApproveExample(w, t)
    PROVE  IInv'
<1> DEFINE wr == [pc |-> "invalidate", tenant |-> t]
<1>1. PICK s : s = [tables[t] EXCEPT !.examples = @ + 1]
  OBVIOUS
<1>2. tables[t] \in Snapshots
  BY DEF IInv, TypeOK
<1>3. s \in Snapshots
  BY <1>1, <1>2 DEF Snapshots, Versions
<1>4. wr \in Writes /\ wr.pc # "idle" /\ wr.tenant = t
  BY DEF Writes
<1>5. tables' = [tables EXCEPT ![t] = s]
  BY <1>1 DEF ApproveExample, IInv, TypeOK
<1> QED
  BY <1>3, <1>4, <1>5, PendingStep DEF ApproveExample

(* What happens when no further invalidation of t is to come: every copy of *)
(* t is dropped or excused, cached or still being loaded.                   *)
LEMMA ExcusingStep ==
    ASSUME IInv, NEW t \in Tenants, NEW s \in Snapshots,
           tables' = [tables EXCEPT ![t] = s],
           cache' = ExcusedCache(t) \/ cache' = Invalidated(t),
           reader' = ExcusedReaders(t),
           writer' \in [Writers -> Writes],
           \A u \in Tenants : u # t /\ WritePending(u) => WritePending(u)'
    PROVE  IInv'
<1>1. cache \in [Tenants -> Entries \cup {NoEntry}]
  BY DEF IInv, TypeOK
<1>2. \A u \in Tenants : u # t => cache'[u] = cache[u] /\ tables'[u] = tables[u]
  BY <1>1 DEF ExcusedCache, Invalidated, IInv, TypeOK
<1>3. \/ cache'[t] = NoEntry
      \/ /\ cache[t] \in Entries /\ cache'[t] \in Entries
         /\ cache'[t].excused
  <2>1. CASE cache' = Invalidated(t)
    BY <1>1, <2>1 DEF Invalidated
  <2>2. CASE cache' = ExcusedCache(t) /\ ~Cached(t)
    BY <2>2 DEF ExcusedCache, Cached
  <2>3. CASE cache' = ExcusedCache(t) /\ Cached(t)
    <3>1. cache[t] \in Entries
      BY <1>1, <2>3 DEF Cached
    <3>2. cache'[t] = [cache[t] EXCEPT !.excused = TRUE]
      BY <1>1, <2>3 DEF ExcusedCache
    <3> QED
      BY <3>1, <3>2 DEF Entries
  <2> QED
    BY <2>1, <2>2, <2>3
<1>4. cache' \in [Tenants -> Entries \cup {NoEntry}]
  <2>1. \A u \in Tenants : cache'[u] \in Entries \cup {NoEntry}
    BY <1>1, <1>2, <1>3
  <2>2. cache' = [u \in Tenants |-> cache'[u]]
    BY <1>1 DEF ExcusedCache, Invalidated
  <2> QED
    BY <2>1, <2>2
<1>5. CachedTenants' \subseteq CachedTenants
  BY <1>2, <1>3, EntriesAreEntries DEF CachedTenants, Cached
<1>6. ASSUME NEW r \in Readers
      PROVE  /\ reader'[r] \in Reads
             /\ reader'[r].pc = reader[r].pc
             /\ reader'[r].tenant = reader[r].tenant
             /\ reader'[r].knowledge = reader[r].knowledge
             /\ reader[r].excused => reader'[r].excused
             /\ reader[r].tenant = t /\ reader[r].pc \in Loading => reader'[r].excused
  <2>1. reader[r] \in Reads
    BY DEF IInv, TypeOK
  <2>2. PICK x \in BOOLEAN :
          x = (reader[r].excused \/ (reader[r].tenant = t /\ reader[r].pc \in Loading))
    OBVIOUS
  <2>3. reader'[r] = [reader[r] EXCEPT !.excused = x]
    BY <2>2 DEF ExcusedReaders
  <2>4. reader'[r] \in Reads
    BY <2>1, <2>3 DEF Reads
  <2>5. reader'[r].excused = x
    BY <2>1, <2>3 DEF Reads
  <2> QED
    BY <2>1, <2>2, <2>3, <2>4, <2>5 DEF Reads
<1>7. TypeOK'
  <2>1. reader' \in [Readers -> Reads]
    <3>1. reader' = [r \in Readers |-> reader'[r]]
      BY DEF ExcusedReaders
    <3> QED
      BY <1>6, <3>1
  <2> QED
    BY <1>4, <2>1 DEF IInv, TypeOK
<1>8. \A r \in Readers : Sound(reader[r])'
  <2> SUFFICES ASSUME NEW r \in Readers PROVE Sound(reader[r])'
    OBVIOUS
  <2>1. PICK u \in Tenants : u = reader[r].tenant
    BY DEF IInv, TypeOK, Reads
  <2>2. Sound(reader[r])
    BY DEF IInv
  <2>3. CASE u = t
    BY <1>6, <2>1, <2>2, <2>3 DEF Sound
  <2>4. CASE u # t
    <3>1. tables'[u] = tables[u]
      BY <1>2, <2>4
    <3>2. Agrees(reader[r]) => Agrees(reader[r])'
      BY <1>6, <2>1, <3>1 DEF Agrees
    <3>3. WritePending(u) => WritePending(u)'
      BY <2>4
    <3>4. WritePending(reader[r].tenant) => WritePending(reader[r].tenant)'
      BY <1>6, <2>1, <3>3 DEF WritePending
    <3> QED
      BY <1>6, <2>2, <3>2, <3>4 DEF Sound
  <2> QED
    BY <2>3, <2>4
<1>9. StaleOnlyIfExcused'
  <2> SUFFICES ASSUME NEW u \in CachedTenants'
               PROVE  \/ cache'[u].knowledge = tables'[u]
                      \/ cache'[u].excused
                      \/ WritePending(u)'
    BY DEF StaleOnlyIfExcused
  <2>1. u \in Tenants /\ u \in CachedTenants /\ cache'[u] # NoEntry
    BY <1>5 DEF CachedTenants, Cached
  <2>2. CASE u = t
    BY <1>3, <2>1, <2>2
  <2>3. CASE u # t
    BY <1>2, <2>1, <2>3 DEF IInv, StaleOnlyIfExcused
  <2> QED
    BY <2>2, <2>3
<1>10. IsFiniteSet(CachedTenants') /\ CacheBounded'
  <2>1. /\ IsFiniteSet(CachedTenants')
        /\ Cardinality(CachedTenants') <= Cardinality(CachedTenants)
    BY <1>5, FS_Subset DEF IInv
  <2>2. Cardinality(CachedTenants') \in Nat /\ Cardinality(CachedTenants) \in Nat
    BY <2>1, FS_CardinalityType DEF IInv
  <2> QED
    BY <2>1, <2>2, Limits DEF IInv, CacheBounded
<1> QED
  BY <1>7, <1>8, <1>9, <1>10 DEF IInv

LEMMA DecayStep ==
    ASSUME IInv, NEW t \in Tenants, DecayExample(t)
    PROVE  IInv'
<1>1. PICK s : s = [tables[t] EXCEPT !.examples = @ + 1]
  OBVIOUS
<1>2. tables[t] \in Snapshots
  BY DEF IInv, TypeOK
<1>3. s \in Snapshots
  BY <1>1, <1>2 DEF Snapshots, Versions
<1>4. tables' = [tables EXCEPT ![t] = s]
  BY <1>1 DEF DecayExample, IInv, TypeOK
<1>5. /\ writer' \in [Writers -> Writes]
      /\ \A u \in Tenants : WritePending(u) => WritePending(u)'
  BY DEF DecayExample, IInv, TypeOK, WritePending
<1> QED
  BY <1>3, <1>4, <1>5, ExcusingStep DEF DecayExample

LEMMA RetireStep ==
    ASSUME IInv, NEW w \in Writers, Invalidate(w) \/ WriteAborts(w)
    PROVE  IInv'
<1>1. PICK t \in Tenants : t = writer[w].tenant
  BY DEF IInv, TypeOK, Writes
<1>2. tables[t] \in Snapshots /\ tables' = [tables EXCEPT ![t] = tables[t]]
  BY DEF Invalidate, WriteAborts, IInv, TypeOK
<1>3. writer' = [writer EXCEPT ![w] = NoWrite]
  BY DEF Invalidate, WriteAborts
<1>4. writer' \in [Writers -> Writes]
  BY <1>3, NoWriteType DEF IInv, TypeOK
<1>5. \A u \in Tenants : u # t /\ WritePending(u) => WritePending(u)'
  <2>1. \A x \in Writers : x # w => writer'[x] = writer[x]
    BY <1>3 DEF IInv, TypeOK
  <2> QED
    BY <1>1, <2>1 DEF WritePending
<1>6. reader' = ExcusedReaders(t) /\ (cache' = ExcusedCache(t) \/ cache' = Invalidated(t))
  BY <1>1 DEF Invalidate, WriteAborts
<1> QED
  BY <1>2, <1>4, <1>5, <1>6, ExcusingStep

-----------------------------------------------------------------------------
(* Theorems *)

LEMMA IInvStep == IInv /\ Step => IInv'
<1> SUFFICES ASSUME IInv, Step PROVE IInv'
  OBVIOUS
<1>1. ASSUME NEW t \in Tenants, NEW r \in Readers, Lookup(r, t)
      PROVE  IInv'
  BY <1>1, LookupStep
<1>2. ASSUME NEW t \in Tenants, NEW w \in Writers, PromoteKey(w, t) \/ ApproveExample(w, t)
      PROVE  IInv'
  BY <1>2, PromoteKeyStep, ApproveExampleStep
<1>3. ASSUME NEW t \in Tenants, DecayExample(t)
      PROVE  IInv'
  BY <1>3, DecayStep
<1>4. ASSUME NEW r \in Readers, Load(r)
      PROVE  IInv'
  BY <1>4, SectionStep, LeaveStep, InstallStep DEF Load
<1>5. ASSUME NEW w \in Writers, Write(w)
      PROVE  IInv'
  BY <1>5, PromoteAliasStep, RetireStep DEF Write
<1> QED
  BY <1>1, <1>2, <1>3, <1>4, <1>5 DEF Step

LEMMA IInvNext == IInv /\ [Next]_vars => IInv'
<1> SUFFICES ASSUME IInv, [Next]_vars PROVE IInv'
  OBVIOUS
<1>1. CASE Tick
  BY <1>1, TickStep DEF Tick
<1>2. CASE Step
  BY <1>2, IInvStep
<1>3. CASE UNCHANGED vars
  BY <1>3 DEF vars, IInv, TypeOK, Sound, Agrees, StaleOnlyIfExcused, CacheBounded,
              WritePending, CachedTenants, Cached
<1> QED
  BY <1>1, <1>2, <1>3 DEF Next

LEMMA IInvAlways == Spec => []IInv
<1> QED
  BY IInvInit, IInvNext, PTL DEF Spec

(* Tables, cache, loads and write paths keep their types; in particular     *)
(* _cold_load refuses a tenant without registry rows, so that an entry of   *)
(* the cache never holds empty keys.                                        *)
THEOREM CacheTypeCorrect == Spec => []TypeOK
<1>1. IInv => TypeOK
  BY DEF IInv
<1> QED
  BY <1>1, IInvAlways, PTL

(* However many threads load, install and invalidate, the eviction of load  *)
(* keeps the cache within max_tenants entries.                              *)
THEOREM CacheIsBounded == Spec => []CacheBounded
<1>1. IInv => CacheBounded
  BY DEF IInv
<1> QED
  BY <1>1, IInvAlways, PTL

(* Every cached entry that differs from the tables is accounted for: a      *)
(* write path is still to call invalidate_cache, the copy was being loaded  *)
(* while one did, or the write announced nothing.                           *)
THEOREM StalenessIsExcused == Spec => []StaleOnlyIfExcused
<1>1. IInv => StaleOnlyIfExcused
  BY DEF IInv
<1> QED
  BY <1>1, IInvAlways, PTL

-----------------------------------------------------------------------------
(* The inductive invariant of the fleet *)

(* The sections a load has read are those of the tables, or the tables have *)
(* changed since it began.                                                  *)
LoadFresh(r) ==
    reader[r].pc \in Loading =>
        Agrees(reader[r]) \/ sinceWrite[reader[r].tenant] <= loading[r]

(* An entry in use equals the tables, or they have changed since the load   *)
(* that made it began.                                                      *)
EntryFresh(t) ==
    Usable(t) =>
        cache[t].knowledge = tables[t] \/ sinceWrite[t] <= cache[t].age + MaxLoad

FInv ==
    /\ IInv
    /\ sinceWrite \in [Tenants -> 0..Horizon]
    /\ loading \in [Readers -> 0..MaxLoad]
    /\ \A r \in Readers : LoadFresh(r)
    /\ \A t \in Tenants : EntryFresh(t)

LEMMA HorizonType == Horizon \in Nat /\ MaxLoad \in Nat /\ TTL \in Nat /\ MaxLoad < Horizon
<1> QED
  BY Limits, FleetAssumption DEF Horizon

LEMMA FInvInit == FleetInit => FInv
<1> SUFFICES ASSUME FleetInit PROVE FInv
  OBVIOUS
<1>1. IInv
  BY IInvInit DEF FleetInit
<1>2. sinceWrite \in [Tenants -> 0..Horizon] /\ loading \in [Readers -> 0..MaxLoad]
  BY HorizonType DEF FleetInit
<1>3. \A r \in Readers : LoadFresh(r)
  BY DEF FleetInit, Init, NoRead, LoadFresh, Loading
<1>4. \A t \in Tenants : EntryFresh(t)
  BY DEF FleetInit, Init, EntryFresh, Usable, Cached
<1> QED
  BY <1>1, <1>2, <1>3, <1>4 DEF FInv

-----------------------------------------------------------------------------
(* Steps that take no time *)

(* A load starts, stops or reads on; it loses its agreement with the tables *)
(* only when they change.                                                   *)
LoadKept(r) ==
    reader'[r].pc \in Loading =>
        \/ reader'[r].pc = "keys"
        \/ /\ reader[r].pc \in Loading
           /\ reader'[r].tenant = reader[r].tenant
           /\ tables'[reader[r].tenant] = tables[reader[r].tenant] /\ Agrees(reader[r])
                => Agrees(reader[r])'

(* An entry in use was there before, or a load has just made it. *)
EntryKept(t) ==
    Usable(t)' =>
        \/ Usable(t) /\ cache'[t].knowledge = cache[t].knowledge /\ cache'[t].age = cache[t].age
        \/ /\ tables'[t] = tables[t] /\ cache'[t].age = 0
           /\ \E r \in Readers :
                 /\ reader[r].pc = "install" /\ reader[r].tenant = t
                 /\ cache'[t].knowledge = reader[r].knowledge

LEMMA FrameStep ==
    ASSUME FInv, IInv', Observe,
           \A r \in Readers : LoadKept(r),
           \A t \in Tenants : EntryKept(t)
    PROVE  FInv'
<1>1. /\ sinceWrite' \in [Tenants -> 0..Horizon]
      /\ loading' \in [Readers -> 0..MaxLoad]
  BY HorizonType DEF FInv, Observe
<1>2. ASSUME NEW r \in Readers PROVE LoadFresh(r)'
  <2> SUFFICES ASSUME reader'[r].pc \in Loading
               PROVE  Agrees(reader[r])' \/ sinceWrite'[reader'[r].tenant] <= loading'[r]
    BY DEF LoadFresh
  <2>1. CASE reader'[r].pc = "keys"
    BY <2>1 DEF Agrees
  <2>2. CASE reader'[r].pc # "keys"
    <3>1. PICK t \in Tenants : t = reader[r].tenant
      BY DEF FInv, IInv, TypeOK, Reads
    <3>2. /\ reader[r].pc \in Loading /\ reader'[r].tenant = t
          /\ tables'[t] = tables[t] /\ Agrees(reader[r]) => Agrees(reader[r])'
      BY <2>2, <3>1 DEF LoadKept
    <3>3. CASE tables'[t] # tables[t]
      <4>1. sinceWrite'[t] = 0 /\ loading'[r] \in Nat
        BY <1>1, <3>3, HorizonType DEF Observe
      <4> QED
        BY <3>2, <4>1
    <3>4. CASE tables'[t] = tables[t]
      <4>1. sinceWrite'[t] = sinceWrite[t] /\ loading'[r] = loading[r]
        BY <3>4 DEF Observe
      <4>2. Agrees(reader[r]) \/ sinceWrite[t] <= loading[r]
        BY <3>1, <3>2 DEF FInv, LoadFresh
      <4> QED
        BY <3>2, <3>4, <4>1, <4>2
    <3> QED
      BY <3>3, <3>4
  <2> QED
    BY <2>1, <2>2
<1>3. ASSUME NEW t \in Tenants PROVE EntryFresh(t)'
  <2> SUFFICES ASSUME Usable(t)'
               PROVE  \/ cache'[t].knowledge = tables'[t]
                      \/ sinceWrite'[t] <= cache'[t].age + MaxLoad
    BY DEF EntryFresh
  <2>1. cache'[t] \in Entries
    BY DEF IInv, TypeOK, Usable, Cached
  <2>2. cache'[t].age \in Nat
    BY <2>1, HorizonType DEF Entries
  <2>3. CASE tables'[t] # tables[t]
    <3>1. sinceWrite'[t] = 0
      BY <2>3 DEF Observe
    <3> QED
      BY <2>2, <3>1, HorizonType
  <2>4. CASE tables'[t] = tables[t]
    <3>1. sinceWrite'[t] = sinceWrite[t] /\ sinceWrite[t] \in Nat
      BY <2>4, HorizonType DEF Observe, FInv
    <3>2. CASE /\ Usable(t)
               /\ cache'[t].knowledge = cache[t].knowledge /\ cache'[t].age = cache[t].age
      BY <2>4, <3>1, <3>2 DEF FInv, EntryFresh
    <3>3. ASSUME NEW r \in Readers, reader[r].pc = "install", reader[r].tenant = t,
                 cache'[t].knowledge = reader[r].knowledge, cache'[t].age = 0
          PROVE  \/ cache'[t].knowledge = tables'[t]
                 \/ sinceWrite'[t] <= cache'[t].age + MaxLoad
      <4>1. Agrees(reader[r]) \/ sinceWrite[t] <= loading[r]
        BY <3>3 DEF FInv, LoadFresh, Loading
      <4>2. reader[r].knowledge \in Snapshots /\ tables[t] \in Snapshots
        BY DEF FInv, IInv, TypeOK, Reads
      <4>3. Agrees(reader[r]) => reader[r].knowledge = tables[t]
        BY <3>3, <4>2 DEF Agrees, Snapshots
      <4>4. loading[r] \in Nat /\ loading[r] <= MaxLoad
        BY HorizonType DEF FInv
      <4> QED
        BY <2>4, <3>1, <3>3, <4>1, <4>3, <4>4, HorizonType
    <3> QED
      BY <3>2, <3>3 DEF EntryKept
  <2> QED
    BY <2>3, <2>4
<1> QED
  BY <1>1, <1>2, <1>3 DEF FInv

(* A step that leaves the cache alone keeps every entry. *)
LEMMA CacheUntouched ==
    ASSUME UNCHANGED cache
    PROVE  \A t \in Tenants : EntryKept(t)
<1> QED
  BY DEF EntryKept, Usable, Cached

(* A step that leaves the loads alone keeps every one of them. *)
LEMMA ReadersUntouched ==
    ASSUME UNCHANGED reader
    PROVE  \A r \in Readers : LoadKept(r)
<1> QED
  BY DEF LoadKept, Agrees

(* Excusing copies changes nothing about them but the flag. *)
LEMMA ExcusingKeeps ==
    ASSUME FInv, NEW t \in Tenants,
           cache' = ExcusedCache(t) \/ cache' = Invalidated(t),
           reader' = ExcusedReaders(t)
    PROVE  /\ \A r \in Readers : LoadKept(r)
           /\ \A u \in Tenants : EntryKept(u)
<1>1. cache \in [Tenants -> Entries \cup {NoEntry}] /\ reader \in [Readers -> Reads]
  BY DEF FInv, IInv, TypeOK
<1>2. ASSUME NEW r \in Readers PROVE LoadKept(r)
  <2>1. PICK x \in BOOLEAN :
          x = (reader[r].excused \/ (reader[r].tenant = t /\ reader[r].pc \in Loading))
    OBVIOUS
  <2>2. reader'[r] = [reader[r] EXCEPT !.excused = x]
    BY <2>1 DEF ExcusedReaders
  <2>3. /\ reader'[r].pc = reader[r].pc
        /\ reader'[r].tenant = reader[r].tenant
        /\ reader'[r].knowledge = reader[r].knowledge
    BY <1>1, <2>2 DEF Reads
  <2> QED
    BY <2>3 DEF LoadKept, Agrees
<1>3. ASSUME NEW u \in Tenants PROVE EntryKept(u)
  <2>1. CASE cache'[u] = cache[u]
    BY <2>1 DEF EntryKept, Usable, Cached
  <2>2. CASE cache'[u] = NoEntry
    BY <2>2 DEF EntryKept, Usable, Cached
  <2>3. CASE u = t /\ cache' = ExcusedCache(t) /\ Cached(t)
    <3>1. cache[t] \in Entries
      BY <1>1, <2>3 DEF Cached
    <3>2. cache'[t] = [cache[t] EXCEPT !.excused = TRUE]
      BY <1>1, <2>3 DEF ExcusedCache
    <3>3. cache'[t].knowledge = cache[t].knowledge /\ cache'[t].age = cache[t].age
      BY <3>1, <3>2 DEF Entries
    <3> QED
      BY <2>3, <3>3 DEF EntryKept, Usable
  <2> QED
    BY <1>1, <2>1, <2>2, <2>3 DEF ExcusedCache, Invalidated
<1> QED
  BY <1>2, <1>3

-----------------------------------------------------------------------------
(* The steps of the process *)

LEMMA LookupKeeps ==
    ASSUME FInv, NEW q \in Readers, NEW t \in Tenants, Lookup(q, t)
    PROVE  \A r \in Readers : LoadKept(r)
<1> SUFFICES ASSUME NEW r \in Readers PROVE LoadKept(r)
  OBVIOUS
<1>1. CASE r # q
  <2>1. reader'[r] = reader[r]
    BY <1>1 DEF Lookup, FInv, IInv, TypeOK
  <2> QED
    BY <2>1 DEF Lookup, LoadKept, Agrees
<1>2. CASE r = q /\ Usable(t)
  <2>1. reader'[r] = Over("served")
    BY <1>2 DEF Lookup, FInv, IInv, TypeOK
  <2> QED
    BY <2>1, OverType DEF LoadKept, Loading
<1>3. CASE r = q /\ ~Usable(t)
  <2>1. reader'[r] = [NoRead EXCEPT !.pc = "keys", !.tenant = t]
    BY <1>3 DEF Lookup, FInv, IInv, TypeOK
  <2>2. reader'[r].pc = "keys"
    BY <2>1 DEF NoRead
  <2> QED
    BY <2>2 DEF LoadKept
<1> QED
  BY <1>1, <1>2, <1>3

LEMMA SectionKeeps ==
    ASSUME FInv, NEW q \in Readers, ReadKeys(q) \/ ReadAliases(q) \/ ReadExamples(q)
    PROVE  \A r \in Readers : LoadKept(r)
<1> SUFFICES ASSUME NEW r \in Readers PROVE LoadKept(r)
  OBVIOUS
<1>0. /\ reader \in [Readers -> Reads] /\ UNCHANGED tables
      /\ reader[q] \in Reads /\ reader[q].knowledge \in Snapshots
  BY DEF FInv, IInv, TypeOK, Reads, ReadKeys, ReadAliases, ReadExamples
<1>1. PICK t \in Tenants : t = reader[q].tenant
  BY <1>0 DEF Reads
<1>2. CASE r # q
  <2>1. reader'[r] = reader[r]
    BY <1>0, <1>2 DEF ReadKeys, ReadAliases, ReadExamples
  <2> QED
    BY <1>0, <2>1 DEF LoadKept, Agrees
<1>3. CASE r = q /\ ReadKeys(q) /\ tables[t].keys = 0
  <2>1. reader'[r] = Over("not_onboarded")
    BY <1>0, <1>1, <1>3 DEF ReadKeys
  <2> QED
    BY <2>1, OverType DEF LoadKept, Loading
<1>4. CASE r = q /\ ReadKeys(q) /\ tables[t].keys # 0
  <2>1. PICK k : k = [reader[q].knowledge EXCEPT !.keys = tables[t].keys]
    OBVIOUS
  <2>2. reader' = [reader EXCEPT ![q].pc = "aliases", ![q].knowledge.keys = tables[t].keys]
    BY <1>1, <1>4 DEF ReadKeys
  <2>3. reader'[r] = [reader[q] EXCEPT !.pc = "aliases", !.knowledge = k]
    BY <1>0, <1>4, <2>1, <2>2
  <2>4. k.keys = tables[t].keys
    BY <1>0, <2>1 DEF Snapshots
  <2>5. reader'[r].pc = "aliases" /\ reader'[r].tenant = t /\ reader'[r].knowledge = k
    BY <1>0, <1>1, <2>3 DEF Reads
  <2> QED
    BY <1>0, <1>1, <1>4, <2>4, <2>5 DEF LoadKept, Agrees, ReadKeys, Loading
<1>5. CASE r = q /\ ReadAliases(q)
  <2>1. PICK k : k = [reader[q].knowledge EXCEPT !.aliases = tables[t].aliases]
    OBVIOUS
  <2>2. reader'[r] = [reader[q] EXCEPT !.pc = "examples", !.knowledge = k]
    BY <1>0, <1>1, <1>5, <2>1 DEF ReadAliases
  <2>3. k.aliases = tables[t].aliases /\ k.keys = reader[q].knowledge.keys
    BY <1>0, <2>1 DEF Snapshots
  <2>4. reader'[r].pc = "examples" /\ reader'[r].tenant = t /\ reader'[r].knowledge = k
    BY <1>0, <1>1, <2>2 DEF Reads
  <2> QED
    BY <1>0, <1>1, <1>5, <2>3, <2>4 DEF LoadKept, Agrees, ReadAliases, Loading
<1>6. CASE r = q /\ ReadExamples(q)
  <2>1. PICK k : k = [reader[q].knowledge EXCEPT !.examples = tables[t].examples]
    OBVIOUS
  <2>2. reader'[r] = [reader[q] EXCEPT !.pc = "install", !.knowledge = k]
    BY <1>0, <1>1, <1>6, <2>1 DEF ReadExamples
  <2>3. /\ k.examples = tables[t].examples
        /\ k.aliases = reader[q].knowledge.aliases /\ k.keys = reader[q].knowledge.keys
    BY <1>0, <2>1 DEF Snapshots
  <2>4. reader'[r].pc = "install" /\ reader'[r].tenant = t /\ reader'[r].knowledge = k
    BY <1>0, <1>1, <2>2 DEF Reads
  <2> QED
    BY <1>0, <1>1, <1>6, <2>3, <2>4 DEF LoadKept, Agrees, ReadExamples, Loading
<1> QED
  BY <1>2, <1>3, <1>4, <1>5, <1>6

(* A load that leaves, whatever the outcome, is no load any more. *)
LEMMA LeavingKeeps ==
    ASSUME FInv, NEW q \in Readers,
           NEW rd, rd.pc \notin Loading,
           reader' = [reader EXCEPT ![q] = rd],
           UNCHANGED tables
    PROVE  \A r \in Readers : LoadKept(r)
<1> SUFFICES ASSUME NEW r \in Readers PROVE LoadKept(r)
  OBVIOUS
<1>1. CASE r # q
  <2>1. reader'[r] = reader[r]
    BY <1>1 DEF FInv, IInv, TypeOK
  <2> QED
    BY <2>1 DEF LoadKept, Agrees
<1>2. CASE r = q
  <2>1. reader'[r] = rd
    BY <1>2 DEF FInv, IInv, TypeOK
  <2> QED
    BY <2>1 DEF LoadKept
<1> QED
  BY <1>1, <1>2

LEMMA InstallKeeps ==
    ASSUME FInv, NEW q \in Readers, Install(q)
    PROVE  /\ \A r \in Readers : LoadKept(r)
           /\ \A u \in Tenants : EntryKept(u)
<1>1. PICK t \in Tenants : t = reader[q].tenant
  BY DEF FInv, IInv, TypeOK, Reads
<1>2. PICK e : e = [knowledge |-> reader[q].knowledge, age |-> 0, excused |-> reader[q].excused]
  OBVIOUS
<1>3. PICK entries \in Evicted : cache' = [entries EXCEPT ![t] = e]
  BY <1>1, <1>2 DEF Install
<1>4. /\ entries \in [Tenants -> Entries \cup {NoEntry}]
      /\ \A u \in Tenants : entries[u] = NoEntry \/ entries[u] = cache[u]
  BY EvictedRoom DEF FInv
<1>5. \A r \in Readers : LoadKept(r)
  <2>1. Over("served").pc \notin Loading
    BY OverType DEF Loading
  <2> QED
    BY <2>1, LeavingKeeps DEF Install
<1>6. ASSUME NEW u \in Tenants PROVE EntryKept(u)
  <2>1. CASE u = t
    <3>1. cache'[u] = e
      BY <1>3, <1>4, <2>1
    <3>2. cache'[u].age = 0 /\ cache'[u].knowledge = reader[q].knowledge
      BY <1>2, <3>1
    <3> QED
      BY <1>1, <2>1, <3>2 DEF EntryKept, Install
  <2>2. CASE u # t /\ entries[u] = NoEntry
    <3>1. cache'[u] = NoEntry
      BY <1>3, <1>4, <2>2
    <3> QED
      BY <3>1 DEF EntryKept, Usable, Cached
  <2>3. CASE u # t /\ entries[u] = cache[u]
    <3>1. cache'[u] = cache[u]
      BY <1>3, <1>4, <2>3
    <3> QED
      BY <3>1 DEF EntryKept, Usable, Cached
  <2> QED
    BY <1>4, <2>1, <2>2, <2>3
<1> QED
  BY <1>5, <1>6

LEMMA StepKeeps ==
    ASSUME FInv, Step
    PROVE  /\ \A r \in Readers : LoadKept(r)
           /\ \A u \in Tenants : EntryKept(u)
<1>1. ASSUME NEW t \in Tenants, NEW r \in Readers, Lookup(r, t)
      PROVE  UNCHANGED cache /\ \A q \in Readers : LoadKept(q)
  BY <1>1, LookupKeeps DEF Lookup
<1>2. ASSUME NEW t \in Tenants, NEW w \in Writers, PromoteKey(w, t) \/ ApproveExample(w, t)
      PROVE  UNCHANGED <<cache, reader>>
  BY <1>2 DEF PromoteKey, ApproveExample
<1>3. ASSUME NEW t \in Tenants, DecayExample(t)
      PROVE  /\ \A r \in Readers : LoadKept(r)
             /\ \A u \in Tenants : EntryKept(u)
  BY <1>3, ExcusingKeeps DEF DecayExample
<1>4. ASSUME NEW r \in Readers, ReadKeys(r) \/ ReadAliases(r) \/ ReadExamples(r)
      PROVE  UNCHANGED cache /\ \A q \in Readers : LoadKept(q)
  BY <1>4, SectionKeeps DEF ReadKeys, ReadAliases, ReadExamples
<1>5. ASSUME NEW r \in Readers, ColdLoadFails(r) \/ Return(r)
      PROVE  UNCHANGED cache /\ \A q \in Readers : LoadKept(q)
  <2>1. Over("error").pc \notin Loading /\ NoRead.pc \notin Loading
    BY OverType DEF NoRead, Loading
  <2>2. \A q \in Readers : LoadKept(q)
    <3>1. CASE ColdLoadFails(r)
      BY <2>1, <3>1, LeavingKeeps DEF ColdLoadFails
    <3>2. CASE Return(r)
      BY <2>1, <3>2, LeavingKeeps DEF Return
    <3> QED
      BY <1>5, <3>1, <3>2
  <2> QED
    BY <1>5, <2>2 DEF ColdLoadFails, Return
<1>6. ASSUME NEW w \in Writers, PromoteAlias(w)
      PROVE  UNCHANGED <<cache, reader>>
  BY <1>6 DEF PromoteAlias
<1>7. ASSUME NEW w \in Writers, Invalidate(w) \/ WriteAborts(w)
      PROVE  /\ \A r \in Readers : LoadKept(r)
             /\ \A u \in Tenants : EntryKept(u)
  <2>1. writer[w].tenant \in Tenants
    BY DEF FInv, IInv, TypeOK, Writes
  <2> QED
    BY <1>7, <2>1, ExcusingKeeps DEF Invalidate, WriteAborts
<1>8. CASE UNCHANGED cache /\ \A q \in Readers : LoadKept(q)
  BY <1>8, CacheUntouched
<1>9. CASE UNCHANGED <<cache, reader>>
  BY <1>9, CacheUntouched, ReadersUntouched
<1>10. \/ UNCHANGED cache /\ \A q \in Readers : LoadKept(q)
       \/ UNCHANGED <<cache, reader>>
       \/ /\ \A r \in Readers : LoadKept(r)
          /\ \A u \in Tenants : EntryKept(u)
  BY <1>1, <1>2, <1>3, <1>4, <1>5, <1>6, <1>7, InstallKeeps DEF Step, Load, Write
<1> QED
  BY <1>8, <1>9, <1>10

-----------------------------------------------------------------------------
(* The steps of the others, restarts and the clock *)

LEMMA ForeignStep ==
    ASSUME FInv, NEW t \in Tenants, ForeignWrite(t), Observe
    PROVE  FInv'
<1>1. PICK section \in {"keys", "aliases", "examples"} :
          tables' = [tables EXCEPT ![t][section] = @ + 1]
  BY DEF ForeignWrite
<1>2. PICK s : s = [tables[t] EXCEPT ![section] = @ + 1]
  OBVIOUS
<1>3. tables[t] \in Snapshots
  BY DEF FInv, IInv, TypeOK
<1>4. s \in Snapshots
  BY <1>2, <1>3 DEF Snapshots, Versions
<1>5. tables' = [tables EXCEPT ![t] = s]
  BY <1>1, <1>2 DEF FInv, IInv, TypeOK
<1>6. IInv'
  <2>1. writer' \in [Writers -> Writes] /\ \A u \in Tenants : WritePending(u) => WritePending(u)'
    BY DEF ForeignWrite, FInv, IInv, TypeOK, WritePending
  <2> QED
    BY <1>4, <1>5, <2>1, ExcusingStep DEF ForeignWrite, FInv
<1> QED
  BY <1>6, ExcusingKeeps, FrameStep DEF ForeignWrite

LEMMA RestartStep ==
    ASSUME FInv, Restart, Observe
    PROVE  FInv'
<1>1. CachedTenants' = {}
  BY DEF Restart, CachedTenants, Cached
<1>2. TypeOK'
  BY NoReadType, NoWriteType DEF Restart, FInv, IInv, TypeOK
<1>3. IsFiniteSet(CachedTenants') /\ CacheBounded'
  BY <1>1, FS_EmptySet, Limits DEF CacheBounded
<1>4. \A r \in Readers : Sound(reader[r])'
  BY DEF Restart, NoRead, Sound, Loading
<1>5. IInv'
  BY <1>1, <1>2, <1>3, <1>4 DEF IInv, StaleOnlyIfExcused
<1>6. \A r \in Readers : LoadKept(r)
  BY DEF Restart, NoRead, LoadKept, Loading
<1>7. \A t \in Tenants : EntryKept(t)
  BY DEF Restart, EntryKept, Usable, Cached
<1> QED
  BY <1>5, <1>6, <1>7, FrameStep

LEMMA FleetTickStep ==
    ASSUME FInv, FleetTick
    PROVE  FInv'
<1>1. IInv'
  BY TickStep DEF FInv, FleetTick
<1>2. /\ \A t \in Tenants : sinceWrite[t] \in 0..Horizon
      /\ \A r \in Readers : loading[r] \in 0..MaxLoad
  BY DEF FInv
<1>3. sinceWrite' \in [Tenants -> 0..Horizon]
  BY <1>2, HorizonType DEF FleetTick
<1>4. loading' \in [Readers -> 0..MaxLoad]
  BY <1>2, HorizonType DEF FleetTick
<1>5. ASSUME NEW r \in Readers PROVE LoadFresh(r)'
  <2> SUFFICES ASSUME reader[r].pc \in Loading, ~Agrees(reader[r])
               PROVE  sinceWrite'[reader[r].tenant] <= loading'[r]
    BY DEF LoadFresh, Agrees, FleetTick
  <2>1. PICK t \in Tenants : t = reader[r].tenant
    BY DEF FInv, IInv, TypeOK, Reads
  <2>2. sinceWrite[t] <= loading[r] /\ loading[r] < MaxLoad /\ loading'[r] = loading[r] + 1
    BY <2>1 DEF FInv, LoadFresh, FleetTick
  <2>3. sinceWrite'[t] = sinceWrite[t] + 1
    BY <1>2, <2>2, HorizonType DEF FleetTick
  <2> QED
    BY <1>2, <2>1, <2>2, <2>3, HorizonType
<1>6. ASSUME NEW t \in Tenants PROVE EntryFresh(t)'
  <2> SUFFICES ASSUME Usable(t)'
               PROVE  \/ cache'[t].knowledge = tables'[t]
                      \/ sinceWrite'[t] <= cache'[t].age + MaxLoad
    BY DEF EntryFresh
  <2>1. Usable(t)
    BY DEF FleetTick, Aged, Usable, Cached
  <2>2. cache[t] \in Entries
    BY <2>1 DEF Usable, Cached, FInv, IInv, TypeOK
  <2>3. cache'[t] = [cache[t] EXCEPT !.age = @ + 1]
    BY <2>1 DEF FleetTick, Aged
  <2>4. /\ cache'[t].age = cache[t].age + 1 /\ cache[t].age \in Nat
        /\ cache'[t].knowledge = cache[t].knowledge
    BY <2>2, <2>3, HorizonType DEF Entries
  <2>5. cache[t].knowledge = tables[t] \/ sinceWrite[t] <= cache[t].age + MaxLoad
    BY <2>1 DEF FInv, EntryFresh
  <2>6. sinceWrite'[t] <= sinceWrite[t] + 1 /\ sinceWrite'[t] \in Nat
    BY <1>2, HorizonType DEF FleetTick
  <2>7. UNCHANGED tables
    BY DEF FleetTick
  <2> QED
    BY <1>2, <2>4, <2>5, <2>6, <2>7, HorizonType
<1> QED
  BY <1>1, <1>3, <1>4, <1>5, <1>6 DEF FInv

-----------------------------------------------------------------------------
(* Theorems *)

LEMMA FInvNext == FInv /\ [FleetNext]_fleetVars => FInv'
<1> SUFFICES ASSUME FInv, [FleetNext]_fleetVars PROVE FInv'
  OBVIOUS
<1>1. CASE FleetTick
  BY <1>1, FleetTickStep
<1>2. CASE Step /\ Observe
  <2>1. IInv'
    BY <1>2, IInvStep DEF FInv
  <2> QED
    BY <1>2, <2>1, StepKeeps, FrameStep
<1>3. CASE (\E t \in Tenants : ForeignWrite(t)) /\ Observe
  BY <1>3, ForeignStep
<1>4. CASE Restart /\ Observe
  BY <1>4, RestartStep
<1>5. CASE UNCHANGED fleetVars
  <2>1. IInv'
    BY <1>5, IInvNext DEF FInv, fleetVars, vars
  <2> QED
    BY <1>5, <2>1 DEF fleetVars, FInv, LoadFresh, EntryFresh, Agrees, Usable, Cached
<1> QED
  BY <1>1, <1>2, <1>3, <1>4, <1>5 DEF FleetNext, Instant

LEMMA FInvAlways == FleetSpec => []FInv
<1> QED
  BY FInvInit, FInvNext, PTL DEF FleetSpec

(* Among other processes, tables, cache, loads, write paths and the history *)
(* of both keep their types.                                                *)
THEOREM FleetTypeCorrect == FleetSpec => []FleetTypeOK
<1>1. FInv => FleetTypeOK
  BY DEF FInv, IInv, FleetTypeOK
<1> QED
  BY <1>1, FInvAlways, PTL

(* The cache of every process stays within max_tenants, also across its     *)
(* replacement by another.                                                  *)
THEOREM FleetCacheIsBounded == FleetSpec => []CacheBounded
<1>1. FInv => CacheBounded
  BY DEF FInv, IInv
<1> QED
  BY <1>1, FInvAlways, PTL

(* A stale entry is accounted for by an overtaken load, a silent or broken  *)
(* write path, or the write of another process.                             *)
THEOREM FleetStalenessIsExcused == FleetSpec => []StaleOnlyIfExcused
<1>1. FInv => StaleOnlyIfExcused
  BY DEF FInv, IInv
<1> QED
  BY <1>1, FInvAlways, PTL

(* For every TTL and every bound on the time of a load: once the tables of  *)
(* a tenant have been at rest for the two together, load serves what they   *)
(* hold, whichever process wrote them.                                      *)
THEOREM StalenessIsBounded == FleetSpec => []TTLBoundsStaleness
<1>1. FInv => TTLBoundsStaleness
  <2> SUFFICES ASSUME FInv, NEW t \in Tenants, sinceWrite[t] = Horizon, Usable(t)
               PROVE  cache[t].knowledge = tables[t]
    BY DEF TTLBoundsStaleness
  <2>1. cache[t] \in Entries /\ cache[t].age < TTL
    BY DEF Usable, Cached, FInv, IInv, TypeOK
  <2>2. cache[t].age + MaxLoad < Horizon
    BY <2>1, Limits, FleetAssumption DEF Entries, Horizon
  <2>3. cache[t].knowledge = tables[t] \/ Horizon <= cache[t].age + MaxLoad
    BY DEF FInv, EntryFresh
  <2>4. cache[t].age \in Nat
    BY <2>1, HorizonType DEF Entries
  <2> QED
    BY <2>2, <2>3, <2>4, HorizonType
<1> QED
  BY <1>1, FInvAlways, PTL
=============================================================================
