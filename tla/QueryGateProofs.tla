-------------------------- MODULE QueryGateProofs --------------------------
(***************************************************************************)
(* Proofs about the limiter and the gate before it, for any number of      *)
(* threads and tenants.  RateLimiter: its types, the account of the grants *)
(* under any interleaving, the honesty of retry_after_s, and the budget    *)
(* that holds while no call of admit is overtaken.  QueryGate: the gate is *)
(* a client of the limiter (so what is proved of the limiter holds behind  *)
(* it), no tenant is served more requests than the limiter granted it, and *)
(* a request runs only for a tenant that was active or could not be        *)
(* checked.                                                                *)
(***************************************************************************)
EXTENDS QueryGate, TLAPS, FiniteSetTheorems

-----------------------------------------------------------------------------
(* The limiter *)

(* Refilling and spending stay within the bucket. *)
LEMMA BucketRange ==
    ASSUME NEW b \in [tokens : 0..Capacity, last_refill : Nat], NEW m \in Nat
    PROVE  /\ Elapsed(b, m) \in Nat
           /\ Refilled(b, m) \in 0..Capacity
           /\ Refilled(b, m) <= b.tokens + Rpm * Elapsed(b, m)
           /\ Spent(Refilled(b, m)) \in 0..Capacity
<1>1. Elapsed(b, m) \in Nat
  BY DEF Elapsed
<1>2. Rpm * Elapsed(b, m) \in Nat
  BY <1>1, LimiterAssumption
<1>3. Capacity \in Nat
  BY LimiterAssumption DEF Capacity, Token
<1>4. /\ Refilled(b, m) \in 0..Capacity
      /\ Refilled(b, m) <= b.tokens + Rpm * Elapsed(b, m)
  <2> DEFINE full == b.tokens + Rpm * Elapsed(b, m)
  <2>1. b.tokens \in 0..Capacity
    OBVIOUS
  <2>2. full \in Nat
    BY <1>2, <1>3, <2>1
  <2>3. Refilled(b, m) = IF full < Capacity THEN full ELSE Capacity
    BY DEF Refilled
  <2> QED
    BY <2>2, <2>3, <1>3
<1>5. Spent(Refilled(b, m)) \in 0..Capacity
  BY <1>3, <1>4 DEF Spent, Token
<1> QED
  BY <1>1, <1>4, <1>5

(* A denied call is told to wait at least a second, and long enough. *)
LEMMA WaitIsEnough ==
    ASSUME NEW tokens \in Nat, tokens < Token
    PROVE  /\ RetryAfter(tokens) \in Nat
           /\ tokens + Rpm * RetryAfter(tokens) >= Token
<1> DEFINE missing == Token - tokens
           q == missing \div Rpm
<1>1. missing \in Nat /\ missing > 0
  BY DEF Token
<1>2. Rpm \in Int /\ Rpm > 0
  BY LimiterAssumption
<1>3. q \in Nat /\ missing < Rpm * (q + 1)
  BY <1>1, <1>2
<1> QED
  BY <1>1, <1>2, <1>3 DEF RetryAfter, Token

-----------------------------------------------------------------------------
(* Type correctness *)

LEMMA TypeInit == Init => TypeOK
<1> SUFFICES ASSUME Init PROVE TypeOK
  OBVIOUS
<1>1. NoCall \in Calls
  BY LimiterAssumption DEF NoCall, Calls
<1>2. Absent \in Buckets
  BY DEF Buckets
<1> QED
  BY <1>1, <1>2 DEF Init, TypeOK

(* The bucket a call finds is a real one. *)
LEMMA FoundIsBucket ==
    ASSUME TypeOK, NEW t \in Tenants, NEW m \in Nat
    PROVE  Found(t, m) \in [tokens : 0..Capacity, last_refill : Nat]
<1>1. Capacity \in Nat
  BY LimiterAssumption DEF Capacity, Token
<1>2. bucket[t] \in Buckets
  BY DEF TypeOK
<1> QED
  BY <1>1, <1>2 DEF Found, Buckets

(* What Admit does, with the type of every value it computes. *)
LEMMA AdmitTypes ==
    ASSUME TypeOK, NEW h \in Threads, Admit(h)
    PROVE  TypeOK'
<1> DEFINE t == thread[h].tenant
           m == thread[h].moment
           b == Found(t, m)
           tokens == Refilled(b, m)
<1>1. thread[h] \in Calls /\ t \in Tenants /\ m \in Nat
  BY DEF TypeOK, Calls
<1>2. b \in [tokens : 0..Capacity, last_refill : Nat]
  BY <1>1, FoundIsBucket
<1>3. Capacity \in Nat
  BY LimiterAssumption DEF Capacity, Token
<1>4. tokens \in 0..Capacity /\ Spent(tokens) \in 0..Capacity
  BY <1>1, <1>2, BucketRange
<1>5. bucket' \in [Tenants -> Buckets]
  <2>1. [tokens |-> Spent(tokens), last_refill |-> m] \in Buckets
    BY <1>1, <1>4 DEF Buckets
  <2>2. bucket' = [bucket EXCEPT ![t] = [tokens |-> Spent(tokens), last_refill |-> m]]
    BY DEF Admit
  <2> QED
    BY <1>1, <2>1, <2>2 DEF TypeOK
<1>6. thread' \in [Threads -> Calls]
  <2> DEFINE p == IF tokens >= Token THEN "admitted" ELSE "denied"
             r == IF tokens >= Token THEN 0 ELSE RetryAfter(tokens)
  <2>1. r \in Nat
    <3>1. CASE tokens >= Token
      BY <3>1
    <3>2. CASE ~(tokens >= Token)
      BY <3>2, <1>3, <1>4, WaitIsEnough DEF Token
    <3> QED
      BY <3>1, <3>2
  <2>2. thread' = [thread EXCEPT ![h].pc = p, ![h].retry = r]
    BY DEF Admit
  <2>3. [thread[h] EXCEPT !.pc = p, !.retry = r] \in Calls
    <3> HIDE DEF r
    <3> QED
      BY <1>1, <2>1 DEF Calls
  <2> QED
    BY <2>2, <2>3 DEF TypeOK
<1>7. opened' \in [Tenants -> Nat]
  BY <1>1 DEF TypeOK, Admit
<1>8. granted' \in [Tenants -> Nat]
  BY <1>1 DEF TypeOK, Admit
<1>9. rewound' \in [Tenants -> Nat]
  <2>1. b.last_refill \in Nat
    BY <1>2
  <2>2. rewound' = [rewound EXCEPT ![t] =
            IF b.last_refill > m THEN @ + (b.last_refill - m) ELSE @]
    BY DEF Admit
  <2>3. rewound[t] \in Nat
    BY <1>1 DEF TypeOK
  <2> QED
    BY <1>1, <2>1, <2>2, <2>3 DEF TypeOK
<1> QED
  BY <1>5, <1>6, <1>7, <1>8, <1>9 DEF TypeOK, Admit

LEMMA TypeNext == TypeOK /\ [Next]_vars => TypeOK'
<1> SUFFICES ASSUME TypeOK, [Next]_vars PROVE TypeOK'
  OBVIOUS
<1>1. CASE Tick
  BY <1>1 DEF Tick, TypeOK
<1>2. ASSUME NEW h \in Threads, NEW t \in Tenants, Sample(h, t)
      PROVE  TypeOK'
  <2>1. [NoCall EXCEPT !.pc = "sampled", !.tenant = t, !.moment = clock] \in Calls
    BY DEF NoCall, Calls, TypeOK
  <2> QED
    BY <1>2, <2>1 DEF Sample, TypeOK
<1>3. ASSUME NEW h \in Threads, Admit(h)
      PROVE  TypeOK'
  BY <1>3, AdmitTypes
<1>4. ASSUME NEW h \in Threads, Return(h)
      PROVE  TypeOK'
  <2>1. NoCall \in Calls
    BY LimiterAssumption DEF NoCall, Calls
  <2> QED
    BY <1>4, <2>1 DEF Return, TypeOK
<1>5. CASE UNCHANGED vars
  BY <1>5 DEF vars, TypeOK
<1> QED
  BY <1>1, <1>2, <1>3, <1>4, <1>5 DEF Next

(* The buckets never hold more than the burst, and every moment, wait and  *)
(* count stays a natural number, in any number of threads.                 *)
THEOREM LimiterTypeCorrect == Spec => []TypeOK
<1> QED
  BY TypeInit, TypeNext, PTL DEF Spec

-----------------------------------------------------------------------------
(* The account of the grants *)

(* Rpm distributes over the seconds it multiplies. *)
LEMMA RpmDistributes ==
    ASSUME NEW x \in Int, NEW y \in Int
    PROVE  Rpm * (x + y) = Rpm * x + Rpm * y
BY LimiterAssumption

(* The account of one tenant. *)
Account(t) ==
    bucket[t] # Absent =>
        Token * granted[t] + bucket[t].tokens
            <= Capacity + Rpm * (bucket[t].last_refill - opened[t] + rewound[t])

(* A tenant without a bucket was granted nothing and lost nothing. *)
Fresh(t) == bucket[t] = Absent => granted[t] = 0 /\ rewound[t] = 0

AccountInv == \A t \in Tenants : Account(t) /\ Fresh(t)

(* The history of last_refill minus the seconds set back moves by exactly  *)
(* the time that is refilled.                                              *)
LEMMA AdmitAccounted ==
    ASSUME TypeOK, AccountInv, NEW h \in Threads, Admit(h)
    PROVE  AccountInv'
<1>1. PICK t \in Tenants, m \in Nat : t = thread[h].tenant /\ m = thread[h].moment
  BY DEF TypeOK, Calls
<1> DEFINE b == Found(t, m)
           e == Elapsed(b, m)
           tokens == Refilled(b, m)
<1>2. b \in [tokens : 0..Capacity, last_refill : Nat]
  BY <1>1, FoundIsBucket
<1>3. Capacity \in Nat
  BY LimiterAssumption DEF Capacity, Token
<1>4. /\ e \in Nat
      /\ tokens \in 0..Capacity
      /\ tokens <= b.tokens + Rpm * e
      /\ Spent(tokens) \in 0..Capacity
  BY <1>1, <1>2, BucketRange
<1>5. ASSUME NEW u \in Tenants, u # t
      PROVE  Account(u)' /\ Fresh(u)'
  <2>1. /\ bucket'[u] = bucket[u] /\ granted'[u] = granted[u]
        /\ opened'[u] = opened[u] /\ rewound'[u] = rewound[u]
    BY <1>1, <1>5 DEF Admit, TypeOK
  <2> QED
    BY <2>1 DEF AccountInv, Account, Fresh
<1>6. Account(t)' /\ Fresh(t)'
  <2> DEFINE o == IF bucket[t] = Absent THEN m ELSE opened[t]
             g == granted[t]
             w == rewound[t]
             back == IF b.last_refill > m THEN b.last_refill - m ELSE 0
             passed == b.last_refill - o + w
  <2>1. /\ bucket'[t] = [tokens |-> Spent(tokens), last_refill |-> m]
        /\ opened'[t] = o
        /\ granted'[t] = IF tokens >= Token THEN g + 1 ELSE g
    BY <1>1 DEF Admit, TypeOK
  <2>2. rewound'[t] = w + back
    BY <1>1, <1>2 DEF Admit, TypeOK
  <2>3. g \in Nat /\ w \in Nat /\ o \in Nat /\ b.last_refill \in Nat /\ b.tokens \in 0..Capacity
    BY <1>1, <1>2 DEF TypeOK
  <2>4. back \in Nat /\ m - o + (w + back) = passed + e
    BY <1>1, <2>3 DEF Elapsed
  <2>5. Token * g + b.tokens <= Capacity + Rpm * passed
    <3>1. CASE bucket[t] = Absent
      <4>1. g = 0 /\ w = 0 /\ b = [tokens |-> Capacity, last_refill |-> m] /\ o = m
        BY <1>1, <3>1 DEF AccountInv, Fresh, Found
      <4>2. passed = 0 /\ b.tokens = Capacity
        BY <4>1, <1>1
      <4> QED
        BY <4>1, <4>2, <1>3, LimiterAssumption DEF Token
    <3>2. CASE bucket[t] # Absent
      BY <1>1, <3>2 DEF AccountInv, Account, Found
    <3> QED
      BY <3>1, <3>2
  <2>6. Token * granted'[t] + Spent(tokens) = Token * g + tokens
    BY <1>3, <1>4, <2>1, <2>3 DEF Spent, Token
  <2>7. Rpm * (passed + e) = Rpm * passed + Rpm * e
    <3>1. passed \in Int /\ e \in Int
      BY <1>4, <2>3
    <3> HIDE DEF passed, e
    <3> QED
      BY <3>1, RpmDistributes
  <2>8. Token * granted'[t] + Spent(tokens) <= Capacity + Rpm * (passed + e)
    <3>1. Rpm * passed \in Int /\ Rpm * e \in Int /\ Token * g \in Int
      BY <1>4, <2>3, LimiterAssumption DEF Token
    <3> HIDE DEF passed, e, tokens, g
    <3> QED
      BY <3>1, <1>3, <1>4, <2>3, <2>5, <2>6, <2>7
  <2>9. bucket'[t] # Absent
    BY <1>1, <2>1 DEF Absent
  <2> QED
    BY <2>1, <2>2, <2>4, <2>8, <2>9 DEF Account, Fresh
<1> QED
  BY <1>5, <1>6 DEF AccountInv

LEMMA AccountNext == TypeOK /\ AccountInv /\ [Next]_vars => AccountInv'
<1> SUFFICES ASSUME TypeOK, AccountInv, [Next]_vars PROVE AccountInv'
  OBVIOUS
<1>1. ASSUME UNCHANGED <<bucket, opened, granted, rewound>>
      PROVE  AccountInv'
  BY <1>1 DEF AccountInv, Account, Fresh
<1>2. ASSUME NEW h \in Threads, Admit(h)
      PROVE  AccountInv'
  BY <1>2, AdmitAccounted
<1> QED
  BY <1>1, <1>2 DEF Next, Tick, Sample, Return, vars

(* For any number of threads, tenants and settings: however the calls of   *)
(* admit overtake each other, the grants of a tenant are covered by its    *)
(* burst, the refill since its bucket was opened, and the refill of the    *)
(* seconds by which late calls set last_refill back.                       *)
THEOREM GrantsAreAccounted == Spec => []GrantsAccounted
<1>1. Init => AccountInv
  BY DEF Init, AccountInv, Account, Fresh
<1>2. AccountInv => GrantsAccounted
  BY DEF AccountInv, Account, GrantsAccounted
<1> QED
  BY <1>1, <1>2, AccountNext, LimiterTypeCorrect, PTL DEF Spec

-----------------------------------------------------------------------------
(* The budget while no call is overtaken *)

(* No moment that was sampled, and no bucket, is ahead of the clock.       *)
ClockAhead ==
    /\ \A h \in Threads : thread[h].pc = "sampled" => thread[h].moment <= clock
    /\ \A t \in Tenants : bucket[t] # Absent => bucket[t].last_refill <= clock

LEMMA ClockAheadNext == TypeOK /\ ClockAhead /\ [Next]_vars => ClockAhead'
<1> SUFFICES ASSUME TypeOK, ClockAhead, [Next]_vars PROVE ClockAhead'
  OBVIOUS
<1>0. /\ clock \in Nat
      /\ \A h \in Threads : thread[h] \in Calls /\ thread[h].moment \in Nat
      /\ \A t \in Tenants : bucket[t] # Absent => bucket[t].last_refill \in Nat
  BY DEF TypeOK, Calls, Buckets
<1>1. CASE Tick
  BY <1>0, <1>1 DEF Tick, ClockAhead
<1>2. ASSUME NEW h \in Threads, NEW t \in Tenants, Sample(h, t)
      PROVE  ClockAhead'
  <2>1. thread'[h].moment = clock
    BY <1>2 DEF Sample, NoCall, TypeOK
  <2>2. \A g \in Threads : g # h => thread'[g] = thread[g]
    BY <1>2 DEF Sample, TypeOK
  <2> QED
    BY <1>0, <1>2, <2>1, <2>2 DEF Sample, ClockAhead
<1>3. ASSUME NEW h \in Threads, Admit(h)
      PROVE  ClockAhead'
  <2> DEFINE t == thread[h].tenant
             m == thread[h].moment
  <2>1. t \in Tenants /\ m <= clock
    BY <1>3 DEF Admit, ClockAhead, TypeOK, Calls
  <2>2. /\ clock' = clock
        /\ bucket'[t].last_refill = m
        /\ \A u \in Tenants : u # t => bucket'[u] = bucket[u]
    BY <1>3, <2>1 DEF Admit, TypeOK
  <2>3. /\ thread'[h].pc # "sampled"
        /\ \A g \in Threads : g # h => thread'[g] = thread[g]
    BY <1>3 DEF Admit, TypeOK, Calls
  <2> QED
    BY <2>1, <2>2, <2>3 DEF ClockAhead
<1>4. ASSUME NEW h \in Threads, Return(h)
      PROVE  ClockAhead'
  <2>1. /\ thread'[h].pc = "idle"
        /\ \A g \in Threads : g # h => thread'[g] = thread[g]
    BY <1>4 DEF Return, NoCall, TypeOK
  <2> QED
    BY <1>4, <2>1 DEF Return, ClockAhead
<1>5. CASE UNCHANGED vars
  BY <1>5 DEF vars, ClockAhead
<1> QED
  BY <1>1, <1>2, <1>3, <1>4, <1>5 DEF Next

(* For any number of threads: a tenant whose bucket was never set back gets *)
(* at most its burst and requests_per_minute, so the sampling of the moment *)
(* outside the lock is the only way past the budget.                        *)
THEOREM BudgetHoldsInOrder == Spec => []BudgetInOrder
<1>1. Init => ClockAhead
  BY DEF Init, ClockAhead, NoCall
<1>2. TypeOK /\ ClockAhead /\ GrantsAccounted => BudgetInOrder
  <2> SUFFICES ASSUME TypeOK, ClockAhead, GrantsAccounted,
                      NEW t \in Tenants, bucket[t] # Absent, rewound[t] = 0
               PROVE  Token * granted[t] <= Capacity + Rpm * (clock - opened[t])
    BY DEF BudgetInOrder
  <2> DEFINE last == bucket[t].last_refill
             early == last - opened[t]
             late == clock - last
  <2>1. /\ last \in Nat /\ opened[t] \in Nat /\ granted[t] \in Nat /\ clock \in Nat
        /\ bucket[t].tokens \in Nat /\ last <= clock
    BY DEF TypeOK, Buckets, ClockAhead
  <2>2. Token * granted[t] <= Capacity + Rpm * early
    <3>1. early + rewound[t] = early
      BY <2>1
    <3>2. Token * granted[t] + bucket[t].tokens <= Capacity + Rpm * early
      BY <3>1 DEF GrantsAccounted
    <3>3. Rpm * early \in Int /\ Token * granted[t] \in Int /\ Capacity \in Int
      BY <2>1, LimiterAssumption DEF Token, Capacity
    <3> QED
      BY <2>1, <3>2, <3>3
  <2>3. Rpm * (early + late) = Rpm * early + Rpm * late /\ early + late = clock - opened[t]
    <3>1. early \in Int /\ late \in Int /\ early + late = clock - opened[t]
      BY <2>1
    <3> HIDE DEF early, late
    <3> QED
      BY <3>1, RpmDistributes
  <2>4. Rpm * late \in Nat /\ Rpm * early \in Int
    BY <2>1, LimiterAssumption
  <2>5. Token * granted[t] \in Int /\ Capacity \in Int
    BY <2>1, LimiterAssumption DEF Token, Capacity
  <2> HIDE DEF early, late
  <2> QED
    BY <2>2, <2>3, <2>4, <2>5
<1>3. TypeOK /\ ClockAhead /\ [Next]_vars => ClockAhead'
  BY ClockAheadNext
<1> QED
  BY <1>1, <1>2, <1>3, LimiterTypeCorrect, GrantsAreAccounted, PTL DEF Spec

-----------------------------------------------------------------------------
(* The honesty of retry_after_s *)

(* In every step that denies a request, for all settings: the reported     *)
(* wait suffices for a token.                                              *)
THEOREM RetryAfterIsHonest == Spec => RetryAfterSuffices
<1> DEFINE Honest ==
        \A h \in Threads : thread[h].pc = "sampled" /\ thread'[h].pc = "denied" =>
          LET b == bucket'[thread[h].tenant] IN
          Refilled(b, b.last_refill + thread'[h].retry) >= Token
<1>1. TypeOK /\ [Next]_vars => [Honest]_vars
  <2> SUFFICES ASSUME TypeOK, [Next]_vars,
                      NEW h \in Threads, thread[h].pc = "sampled", thread'[h].pc = "denied"
               PROVE  LET b == bucket'[thread[h].tenant] IN
                      Refilled(b, b.last_refill + thread'[h].retry) >= Token
    OBVIOUS
  <2>1. Admit(h)
    <3>1. ASSUME NEW g \in Threads, g # h, Admit(g) \/ Return(g)
          PROVE  FALSE
      BY <3>1 DEF Admit, Return, TypeOK
    <3>2. ASSUME NEW g \in Threads, NEW t \in Tenants, Sample(g, t)
          PROVE  FALSE
      BY <3>2 DEF Sample, NoCall, TypeOK
    <3>3. ~Return(h) /\ ~Tick /\ ~UNCHANGED vars
      BY DEF Return, Tick, vars
    <3> QED
      BY <3>1, <3>2, <3>3 DEF Next
  <2> DEFINE t == thread[h].tenant
             m == thread[h].moment
             tokens == Refilled(Found(t, m), m)
             r == RetryAfter(tokens)
             after == [tokens |-> tokens, last_refill |-> m]
  <2>2. t \in Tenants /\ m \in Nat
    BY DEF TypeOK, Calls
  <2>3. Capacity \in Nat /\ Capacity >= Token /\ tokens \in 0..Capacity
    <3>1. Found(t, m) \in [tokens : 0..Capacity, last_refill : Nat]
      BY <2>2, FoundIsBucket
    <3> QED
      BY <2>2, <3>1, BucketRange, LimiterAssumption DEF Capacity, Token
  <2>4. tokens < Token
    BY <2>1, <2>3 DEF Admit, TypeOK, Calls, Token
  <2>5. bucket'[t] = after
    <3>1. Spent(tokens) = tokens
      BY <2>3, <2>4 DEF Spent, Token
    <3> QED
      BY <2>1, <2>2, <3>1 DEF Admit, TypeOK
  <2>6. thread'[h].retry = r
    BY <2>1, <2>3, <2>4 DEF Admit, TypeOK, Calls, Token
  <2>7. r \in Nat /\ tokens + Rpm * r >= Token
    BY <2>3, <2>4, WaitIsEnough
  <2>8. Elapsed(after, m + r) = r
    BY <2>2, <2>7 DEF Elapsed
  <2>9. Refilled(after, m + r) >= Token
    <3>1. Refilled(after, m + r) = IF tokens + Rpm * r < Capacity THEN tokens + Rpm * r ELSE Capacity
      BY <2>8 DEF Refilled
    <3>2. Rpm * r \in Nat
      BY <2>7, LimiterAssumption
    <3> QED
      BY <2>3, <2>7, <3>1, <3>2 DEF Token
  <2> QED
    BY <2>5, <2>6, <2>9
<1>2. [][Honest]_vars => RetryAfterSuffices
  BY PTL DEF RetryAfterSuffices
<1> QED
  BY <1>1, <1>2, LimiterTypeCorrect, PTL DEF Spec

-----------------------------------------------------------------------------
(* The gate: its inductive invariant *)

(* Where a request is in the gate, and what its thread has of the limiter. *)
AtGate(h) ==
    /\ request[h].pc \in {"limiter", "activation"} =>
          /\ Effective(h) \in Tenants
          /\ active[Effective(h)] => request[h].met
    /\ request[h].pc = "limiter" => thread[h].tenant = Effective(h)
    /\ request[h].pc # "limiter" => thread[h].pc = "idle"

(* Granted, and not counted as used yet. *)
Charged(h, t) ==
    \/ thread[h].pc = "admitted" /\ thread[h].tenant = t
    \/ request[h].pc = "activation" /\ Effective(h) = t

Pending(t) == {h \in Threads : Charged(h, t)}

Accounted(t) == used[t] + Cardinality(Pending(t)) <= granted[t]

GateInv ==
    /\ GateTypeOK
    /\ \A h \in Threads : AtGate(h)
    /\ OnlyActiveRuns
    /\ \A t \in Tenants : Accounted(t)

LEMMA NoRequestType == NoRequest \in Requests /\ NoRequest.pc = "idle" /\ NoCall.pc = "idle"
<1>1. SomeTenant \in Tenants
  BY LimiterAssumption DEF SomeTenant
<1> QED
  BY <1>1 DEF NoRequest, Requests, Intents, NoCall

LEMMA PendingFinite ==
    ASSUME NEW t
    PROVE  IsFiniteSet(Pending(t)) /\ Cardinality(Pending(t)) \in Nat
<1>1. Pending(t) \in SUBSET Threads
  BY DEF Pending
<1> QED
  BY <1>1, GateAssumption, FS_Subset, FS_CardinalityType

LEMMA GateInvInit == GateInit => GateInv
<1> SUFFICES ASSUME GateInit PROVE GateInv
  OBVIOUS
<1>1. TypeOK
  BY TypeInit DEF GateInit
<1>2. GateTypeOK
  BY <1>1, NoRequestType DEF GateInit, GateTypeOK
<1>3. \A h \in Threads : request[h] = NoRequest /\ thread[h] = NoCall
  BY DEF GateInit, Init
<1>4. \A h \in Threads : AtGate(h)
  BY <1>3, NoRequestType DEF AtGate
<1>5. OnlyActiveRuns
  BY <1>3, NoRequestType DEF OnlyActiveRuns
<1>6. ASSUME NEW t \in Tenants PROVE Accounted(t)
  <2>1. Pending(t) = {}
    BY <1>3, NoRequestType DEF Pending, Charged
  <2>2. Cardinality(Pending(t)) = 0
    BY <2>1, FS_EmptySet
  <2>3. used[t] = 0 /\ granted[t] = 0
    BY DEF GateInit, Init
  <2> QED
    BY <2>2, <2>3 DEF Accounted
<1> QED
  BY <1>2, <1>4, <1>5, <1>6 DEF GateInv

-----------------------------------------------------------------------------
(* The gate uses the limiter *)

(* Every step of the gate is a step of the limiter, or none of its.        *)
LEMMA GateIsClient == GateTypeOK /\ [GateNext]_allVars => [Next]_vars
<1> SUFFICES ASSUME GateTypeOK, [GateNext]_allVars PROVE [Next]_vars
  OBVIOUS
<1>1. CASE UNCHANGED allVars
  BY <1>1 DEF allVars
<1>2. CASE GateTick
  BY <1>2 DEF GateTick, Next
<1>3. ASSUME NEW t \in Tenants, SetActivation(t) PROVE [Next]_vars
  BY <1>3 DEF SetActivation
<1>4. ASSUME NEW h \in Threads, Receive(h) \/ Work(h) PROVE [Next]_vars
  <2>1. CASE AskLimiter(h)
    <3>1. Effective(h) \in Tenants
      BY <2>1 DEF AskLimiter, GateTypeOK, Requests, Effective
    <3> QED
      BY <2>1, <3>1 DEF AskLimiter, Next
  <2>2. CASE AdmitRequest(h)
    BY <2>2 DEF AdmitRequest, Next
  <2>3. CASE TakeVerdict(h)
    BY <2>3 DEF TakeVerdict, Next
  <2>4. CASE Receive(h) \/ Refuse(h) \/ CheckActive(h) \/ ClassifyQuestion(h)
             \/ AnswerFromDocuments(h) \/ RunSql(h) \/ Deliver(h)
    BY <2>4 DEF Receive, Refuse, CheckActive, ClassifyQuestion, AnswerFromDocuments, RunSql,
                Deliver
  <2> QED
    BY <1>4, <2>1, <2>2, <2>3, <2>4 DEF Work
<1> QED
  BY <1>1, <1>2, <1>3, <1>4 DEF GateNext

LEMMA LimiterTypes == GateInv /\ [GateNext]_allVars => TypeOK'
  BY GateIsClient, TypeNext DEF GateInv, GateTypeOK

(* Nothing charged and nothing used. *)
LEMMA SameAccount ==
    ASSUME GateInv, UNCHANGED <<used, granted>>,
           \A h \in Threads, t \in Tenants : Charged(h, t)' <=> Charged(h, t)
    PROVE  \A t \in Tenants : Accounted(t)'
<1> SUFFICES ASSUME NEW t \in Tenants PROVE Accounted(t)'
  OBVIOUS
<1>1. Pending(t)' = Pending(t)
  BY DEF Pending
<1> QED
  BY <1>1 DEF GateInv, Accounted

-----------------------------------------------------------------------------
(* Steps before and behind the gate *)

LEMMA RequestStep ==
    ASSUME GateInv, TypeOK', NEW h \in Threads, NEW r \in Requests,
           UNCHANGED <<vars, active, used>>,
           request' = [request EXCEPT ![h] = r],
           request[h].pc \notin {"limiter", "activation"}, r.pc \notin {"limiter", "activation"},
           r.pc \in {"classify", "documents", "sql"} => r.met
    PROVE  GateInv'
<1>1. UNCHANGED <<thread, granted, active, used>>
  BY DEF vars
<1>2. request'[h] = r /\ \A g \in Threads : g # h => request'[g] = request[g]
  BY DEF GateInv, GateTypeOK
<1>3. GateTypeOK'
  BY <1>1 DEF GateInv, GateTypeOK
<1>4. ASSUME NEW g \in Threads PROVE AtGate(g)'
  BY <1>1, <1>2 DEF GateInv, AtGate, Effective
<1>5. OnlyActiveRuns'
  BY <1>2 DEF GateInv, OnlyActiveRuns
<1>6. \A g \in Threads, t \in Tenants : Charged(g, t)' <=> Charged(g, t)
  BY <1>1, <1>2 DEF Charged, Effective
<1>7. \A t \in Tenants : Accounted(t)'
  BY <1>1, <1>6, SameAccount
<1> QED
  BY <1>3, <1>4, <1>5, <1>7 DEF GateInv

LEMMA ReplyStep ==
    ASSUME GateInv, TypeOK', NEW h \in Threads, NEW reply \in {"Success", "Failure"},
           Reply(h, reply), UNCHANGED <<vars, active, used>>,
           request[h].pc \notin {"limiter", "activation"}
    PROVE  GateInv'
<1>1. PICK r : r = [NoRequest EXCEPT !.pc = "reply", !.reply = reply]
  OBVIOUS
<1>2. r \in Requests /\ r.pc = "reply"
  BY <1>1, NoRequestType DEF Requests
<1> QED
  BY <1>1, <1>2, RequestStep DEF Reply

LEMMA OutsideStep ==
    ASSUME GateInv, TypeOK', NEW h \in Threads,
           \/ Receive(h) \/ Refuse(h) \/ Deliver(h)
           \/ ClassifyQuestion(h) \/ AnswerFromDocuments(h) \/ RunSql(h)
    PROVE  GateInv'
<1>1. /\ request[h] \in Requests /\ request \in [Threads -> Requests]
      /\ UNCHANGED <<vars, active, used>>
      /\ request[h].pc \notin {"limiter", "activation"}
      /\ request[h].pc \in {"classify", "documents", "sql"} => request[h].met
  BY DEF Receive, Refuse, Deliver, ClassifyQuestion, AnswerFromDocuments, RunSql, At,
         GateInv, GateTypeOK, OnlyActiveRuns
<1>2. CASE \E reply \in {"Success", "Failure"} : Reply(h, reply)
  BY <1>1, <1>2, ReplyStep
<1>3. CASE Receive(h)
  <2>1. PICK requested \in Tenants, claim \in Tenants \cup {NoClaim} :
           request' = [request EXCEPT ![h] =
              [NoRequest EXCEPT !.pc = "gate", !.requested = requested, !.claim = claim]]
    BY <1>3 DEF Receive
  <2>2. PICK r : r = [NoRequest EXCEPT !.pc = "gate", !.requested = requested, !.claim = claim]
    OBVIOUS
  <2>3. r \in Requests /\ r.pc = "gate"
    BY <2>2, NoRequestType DEF Requests
  <2> QED
    BY <1>1, <2>1, <2>2, <2>3, RequestStep
<1>4. CASE Deliver(h)
  BY <1>1, <1>4, NoRequestType, RequestStep DEF Deliver
<1>5. CASE ClassifyQuestion(h)
  <2>1. PICK hits \in SUBSET Indicators :
           request' = [request EXCEPT ![h].intent = Intent(hits),
                ![h].pc = IF Intent(hits) = "data" THEN "sql" ELSE "documents"]
    BY <1>5 DEF ClassifyQuestion
  <2>2. PICK next \in {"sql", "documents"} :
           next = IF Intent(hits) = "data" THEN "sql" ELSE "documents"
    OBVIOUS
  <2>3. PICK intent \in Intents : intent = Intent(hits)
    BY DEF Intent, Intents
  <2>4. PICK r : r = [request[h] EXCEPT !.intent = intent, !.pc = next]
    OBVIOUS
  <2>5. r \in Requests /\ r.pc = next /\ r.met = request[h].met
    BY <1>1, <2>4 DEF Requests
  <2>6. request' = [request EXCEPT ![h] = r]
    BY <1>1, <2>1, <2>2, <2>3, <2>4
  <2>7. request[h].met
    BY <1>1, <1>5 DEF ClassifyQuestion, At
  <2> QED
    BY <1>1, <2>5, <2>6, <2>7, RequestStep
<1>6. CASE AnswerFromDocuments(h) /\ Goto(h, "sql")
  <2>1. PICK r : r = [request[h] EXCEPT !.pc = "sql"]
    OBVIOUS
  <2>2. r \in Requests /\ r.pc = "sql" /\ r.met = request[h].met
    BY <1>1, <2>1 DEF Requests
  <2>3. request' = [request EXCEPT ![h] = r]
    BY <1>1, <1>6, <2>1 DEF Goto
  <2>4. request[h].met
    BY <1>1, <1>6 DEF AnswerFromDocuments, At
  <2> QED
    BY <1>1, <2>2, <2>3, <2>4, RequestStep
<1>7. CASE Refuse(h)
  BY <1>2, <1>7 DEF Refuse
<1>8. CASE AnswerFromDocuments(h) /\ ~Goto(h, "sql")
  BY <1>2, <1>8 DEF AnswerFromDocuments
<1>9. CASE RunSql(h)
  BY <1>2, <1>9 DEF RunSql
<1> QED
  BY <1>3, <1>4, <1>5, <1>6, <1>7, <1>8, <1>9

-----------------------------------------------------------------------------
(* Steps of the gate *)

LEMMA AskLimiterStep ==
    ASSUME GateInv, TypeOK', NEW h \in Threads, AskLimiter(h)
    PROVE  GateInv'
<1>1. PICK t : t = Effective(h)
  OBVIOUS
<1>2. /\ request[h] \in Requests /\ request \in [Threads -> Requests]
      /\ thread \in [Threads -> Calls] /\ active \in [Tenants -> BOOLEAN]
  BY DEF GateInv, GateTypeOK, TypeOK
<1>3. t \in Tenants /\ request[h].pc = "gate"
  BY <1>1, <1>2 DEF AskLimiter, At, Effective, Requests
<1>4. PICK call : call = [NoCall EXCEPT !.pc = "sampled", !.tenant = t, !.moment = clock]
  OBVIOUS
<1>5. call.pc = "sampled" /\ call.tenant = t
  BY <1>4 DEF NoCall
<1>6. thread' = [thread EXCEPT ![h] = call] /\ UNCHANGED <<active, used, granted>>
  BY <1>1, <1>4 DEF AskLimiter, Sample
<1>7. PICK r : r = [request[h] EXCEPT !.pc = "limiter", !.met = active[t]]
  OBVIOUS
<1>8. /\ r \in Requests /\ r.pc = "limiter" /\ r.met = active[t]
      /\ r.requested = request[h].requested /\ r.claim = request[h].claim
  BY <1>2, <1>3, <1>7 DEF Requests
<1>9. request' = [request EXCEPT ![h] = r]
  BY <1>1, <1>2, <1>7 DEF AskLimiter
<1>10. /\ request'[h] = r /\ \A g \in Threads : g # h => request'[g] = request[g]
       /\ thread'[h] = call /\ \A g \in Threads : g # h => thread'[g] = thread[g]
  BY <1>2, <1>6, <1>9
<1>11. Effective(h)' = t
  BY <1>1, <1>8, <1>10 DEF Effective
<1>12. GateTypeOK'
  BY <1>6, <1>8, <1>9 DEF GateInv, GateTypeOK
<1>13. ASSUME NEW g \in Threads PROVE AtGate(g)'
  <2>1. CASE g = h
    BY <1>3, <1>5, <1>6, <1>8, <1>10, <1>11, <2>1 DEF AtGate
  <2>2. CASE g # h
    BY <1>6, <1>10, <2>2 DEF GateInv, AtGate, Effective
  <2> QED
    BY <2>1, <2>2
<1>14. OnlyActiveRuns'
  BY <1>8, <1>10 DEF GateInv, OnlyActiveRuns
<1>15. ASSUME NEW g \in Threads, NEW s \in Tenants PROVE Charged(g, s)' <=> Charged(g, s)
  <2>1. CASE g = h
    <3>1. thread[h].pc = "idle"
      BY <1>3 DEF GateInv, AtGate
    <3> QED
      BY <1>3, <1>5, <1>8, <1>10, <2>1, <3>1 DEF Charged
  <2>2. CASE g # h
    BY <1>10, <2>2 DEF Charged, Effective
  <2> QED
    BY <2>1, <2>2
<1>16. \A s \in Tenants : Accounted(s)'
  BY <1>6, <1>15, SameAccount
<1> QED
  BY <1>12, <1>13, <1>14, <1>16 DEF GateInv

LEMMA AdmitStep ==
    ASSUME GateInv, TypeOK', NEW h \in Threads, AdmitRequest(h)
    PROVE  GateInv'
<1>1. UNCHANGED <<active, request, used>>
  BY DEF AdmitRequest, gateVars
<1>2. /\ thread \in [Threads -> Calls] /\ granted \in [Tenants -> Nat] /\ used \in [Tenants -> Nat]
      /\ thread[h] \in Calls /\ thread[h].pc = "sampled" /\ thread[h].tenant \in Tenants
  BY DEF GateInv, GateTypeOK, TypeOK, AdmitRequest, Admit, Calls
<1>3. PICK t \in Tenants : t = thread[h].tenant
  BY <1>2
<1>4. PICK call \in {thread'[h]} : TRUE
  OBVIOUS
<1>5. /\ \A g \in Threads : g # h => thread'[g] = thread[g]
      /\ thread'[h] = call /\ call.tenant = t /\ call.pc \in {"admitted", "denied"}
      /\ \A s \in Tenants : s # t => granted'[s] = granted[s]
      /\ granted'[t] = IF call.pc = "admitted" THEN granted[t] + 1 ELSE granted[t]
  <2>1. PICK allowed \in BOOLEAN :
           /\ \E retry :
                thread' = [thread EXCEPT ![h].pc = IF allowed THEN "admitted" ELSE "denied",
                                         ![h].retry = retry]
           /\ granted' = [granted EXCEPT ![t] = IF allowed THEN @ + 1 ELSE @]
    BY <1>3 DEF AdmitRequest, Admit
  <2>2. /\ thread'[h].pc = IF allowed THEN "admitted" ELSE "denied"
        /\ thread'[h].tenant = t
        /\ \A g \in Threads : g # h => thread'[g] = thread[g]
    BY <1>2, <1>3, <2>1 DEF Calls
  <2>3. /\ granted'[t] = IF allowed THEN granted[t] + 1 ELSE granted[t]
        /\ \A s \in Tenants : s # t => granted'[s] = granted[s]
    BY <1>2, <2>1
  <2> QED
    BY <1>4, <2>2, <2>3
<1>6. GateTypeOK'
  BY <1>1 DEF GateInv, GateTypeOK
<1>7. request[h].pc = "limiter" /\ Effective(h) = t
  BY <1>2, <1>3 DEF GateInv, AtGate
<1>8. \A g : Effective(g)' = Effective(g)
  BY <1>1 DEF Effective
<1>9. ASSUME NEW g \in Threads PROVE AtGate(g)'
  <2>1. CASE g = h
    BY <1>1, <1>5, <1>7, <1>8, <2>1 DEF GateInv, AtGate
  <2>2. CASE g # h
    BY <1>1, <1>5, <1>8, <2>2 DEF GateInv, AtGate
  <2> QED
    BY <2>1, <2>2
<1>10. OnlyActiveRuns'
  BY <1>1 DEF GateInv, OnlyActiveRuns
<1>11. \A g \in Threads, s \in Tenants : g # h => (Charged(g, s)' <=> Charged(g, s))
  BY <1>1, <1>5, <1>8 DEF Charged
<1>12. \A s \in Tenants : Charged(h, s)' <=> call.pc = "admitted" /\ s = t
  BY <1>1, <1>5, <1>7 DEF Charged
<1>13. \A s \in Tenants : ~Charged(h, s)
  BY <1>2, <1>7 DEF Charged
<1>14. ASSUME NEW s \in Tenants PROVE Accounted(s)'
  <2>1. /\ used[s] + Cardinality(Pending(s)) <= granted[s] /\ used'[s] = used[s]
        /\ used[s] \in Nat /\ granted[s] \in Nat
        /\ IsFiniteSet(Pending(s)) /\ Cardinality(Pending(s)) \in Nat
    BY <1>1, <1>2, PendingFinite DEF GateInv, Accounted
  <2>2. CASE call.pc = "admitted" /\ s = t
    <3>1. Pending(s)' = Pending(s) \cup {h} /\ h \notin Pending(s)
      BY <1>11, <1>12, <1>13, <2>2 DEF Pending
    <3>2. Cardinality(Pending(s)') = Cardinality(Pending(s)) + 1
      BY <2>1, <3>1, FS_AddElement
    <3>3. granted'[s] = granted[s] + 1
      BY <1>5, <2>2
    <3> QED
      BY <2>1, <3>2, <3>3 DEF Accounted
  <2>3. CASE ~(call.pc = "admitted" /\ s = t)
    <3>1. Pending(s)' = Pending(s)
      BY <1>11, <1>12, <1>13, <2>3 DEF Pending
    <3>2. granted'[s] = granted[s]
      BY <1>5, <2>3
    <3> QED
      BY <2>1, <3>1, <3>2 DEF Accounted
  <2> QED
    BY <2>2, <2>3
<1> QED
  BY <1>6, <1>9, <1>10, <1>14 DEF GateInv

LEMMA TakeVerdictStep ==
    ASSUME GateInv, TypeOK', NEW h \in Threads, TakeVerdict(h)
    PROVE  GateInv'
<1>1. /\ request[h] \in Requests /\ request \in [Threads -> Requests]
      /\ thread \in [Threads -> Calls]
      /\ request[h].pc = "limiter" /\ thread[h].pc \in {"admitted", "denied"}
      /\ UNCHANGED <<active, used, granted>>
      /\ thread' = [thread EXCEPT ![h] = NoCall]
  BY DEF GateInv, GateTypeOK, TypeOK, TakeVerdict, At, Return
<1>2. PICK t \in Tenants : t = Effective(h)
  BY <1>1 DEF GateInv, AtGate
<1>3. thread[h].tenant = t /\ (active[t] => request[h].met)
  BY <1>1, <1>2 DEF GateInv, AtGate
<1>4. \E r \in Requests :
         /\ request' = [request EXCEPT ![h] = r]
         /\ \/ /\ thread[h].pc = "admitted" /\ r.pc = "activation" /\ r.met = request[h].met
               /\ r.requested = request[h].requested /\ r.claim = request[h].claim
            \/ thread[h].pc = "denied" /\ r.pc = "reply"
  <2>1. CASE thread[h].pc = "admitted"
    <3>1. request' = [request EXCEPT ![h].pc = "activation"]
      BY <2>1 DEF TakeVerdict, Allows, Goto
    <3>2. PICK r : r = [request[h] EXCEPT !.pc = "activation"]
      OBVIOUS
    <3>3. /\ r \in Requests /\ r.pc = "activation" /\ r.met = request[h].met
          /\ r.requested = request[h].requested /\ r.claim = request[h].claim
      BY <1>1, <3>2 DEF Requests
    <3> QED
      BY <1>1, <2>1, <3>1, <3>2, <3>3
  <2>2. CASE thread[h].pc = "denied"
    <3>1. PICK r : r = [NoRequest EXCEPT !.pc = "reply", !.reply = "Failure"]
      OBVIOUS
    <3>2. request' = [request EXCEPT ![h] = r]
      BY <2>2, <3>1 DEF TakeVerdict, Allows, Reply
    <3>3. r \in Requests /\ r.pc = "reply"
      BY <3>1, NoRequestType DEF Requests
    <3> QED
      BY <2>2, <3>2, <3>3
  <2> QED
    BY <1>1, <2>1, <2>2
<1>5. PICK r \in Requests :
         /\ request' = [request EXCEPT ![h] = r]
         /\ \/ /\ thread[h].pc = "admitted" /\ r.pc = "activation" /\ r.met = request[h].met
               /\ r.requested = request[h].requested /\ r.claim = request[h].claim
            \/ thread[h].pc = "denied" /\ r.pc = "reply"
  BY <1>4
<1>6. /\ request'[h] = r /\ \A g \in Threads : g # h => request'[g] = request[g]
      /\ thread'[h].pc = "idle" /\ \A g \in Threads : g # h => thread'[g] = thread[g]
  BY <1>1, <1>5, NoRequestType
<1>7. r.pc = "activation" => Effective(h)' = t
  BY <1>2, <1>5, <1>6 DEF Effective
<1>8. GateTypeOK'
  BY <1>1, <1>5 DEF GateInv, GateTypeOK
<1>9. ASSUME NEW g \in Threads PROVE AtGate(g)'
  <2>1. CASE g = h
    BY <1>1, <1>3, <1>5, <1>6, <1>7, <2>1 DEF AtGate
  <2>2. CASE g # h
    BY <1>1, <1>6, <2>2 DEF GateInv, AtGate, Effective
  <2> QED
    BY <2>1, <2>2
<1>10. OnlyActiveRuns'
  BY <1>5, <1>6 DEF GateInv, OnlyActiveRuns
<1>11. ASSUME NEW g \in Threads, NEW s \in Tenants PROVE Charged(g, s)' <=> Charged(g, s)
  <2>1. CASE g = h
    <3>1. Charged(h, s) <=> thread[h].pc = "admitted" /\ s = t
      BY <1>1, <1>3 DEF Charged
    <3>2. Charged(h, s)' <=> r.pc = "activation" /\ s = t
      BY <1>6, <1>7 DEF Charged
    <3> QED
      BY <1>5, <2>1, <3>1, <3>2
  <2>2. CASE g # h
    BY <1>6, <2>2 DEF Charged, Effective
  <2> QED
    BY <2>1, <2>2
<1>12. \A s \in Tenants : Accounted(s)'
  BY <1>1, <1>11, SameAccount
<1> QED
  BY <1>8, <1>9, <1>10, <1>12 DEF GateInv

LEMMA CheckActiveStep ==
    ASSUME GateInv, TypeOK', NEW h \in Threads, CheckActive(h)
    PROVE  GateInv'
<1>1. /\ request[h] \in Requests /\ request \in [Threads -> Requests]
      /\ used \in [Tenants -> Nat] /\ granted \in [Tenants -> Nat]
      /\ request[h].pc = "activation"
      /\ UNCHANGED <<thread, granted, active>>
  BY DEF GateInv, GateTypeOK, TypeOK, CheckActive, At, vars
<1>2. PICK t \in Tenants : t = Effective(h)
  BY <1>1 DEF GateInv, AtGate
<1>3. thread[h].pc = "idle" /\ (active[t] => request[h].met)
  BY <1>1, <1>2 DEF GateInv, AtGate
<1>4. used' = [used EXCEPT ![t] = @ + 1]
  BY <1>2 DEF CheckActive, PassGate, HandedTenant
<1>5. \E r \in Requests :
         /\ request' = [request EXCEPT ![h] = r]
         /\ r.pc = "reply" \/ (r.pc \in {"classify", "sql"} /\ r.met)
  <2>1. ASSUME NEW checked \in BOOLEAN, PassGate(h, checked), checked => active[t]
        PROVE  \E r \in Requests :
                  /\ request' = [request EXCEPT ![h] = r]
                  /\ r.pc \in {"classify", "sql"} /\ r.met
    <3>1. PICK next \in {"classify", "sql"} :
             request' = [request EXCEPT ![h] =
                [NoRequest EXCEPT !.pc = next, !.tenant = t, !.met = request[h].met \/ ~checked]]
      BY <1>2, <2>1 DEF PassGate, HandedTenant
    <3>2. request[h].met \/ ~checked
      BY <1>3, <2>1
    <3>3. PICK met \in BOOLEAN : met = (request[h].met \/ ~checked)
      OBVIOUS
    <3>4. PICK r : r = [NoRequest EXCEPT !.pc = next, !.tenant = t, !.met = met]
      OBVIOUS
    <3>5. r \in Requests /\ r.pc = next /\ r.met = met
      BY <3>4, NoRequestType DEF Requests
    <3> QED
      BY <3>1, <3>2, <3>3, <3>4, <3>5
  <2>2. CASE PassGate(h, TRUE) /\ Active(Effective(h))
    BY <1>2, <2>1, <2>2 DEF Active
  <2>3. CASE PassGate(h, FALSE)
    BY <2>1, <2>3
  <2>4. CASE Reply(h, "Failure")
    <3>1. PICK r : r = [NoRequest EXCEPT !.pc = "reply", !.reply = "Failure"]
      OBVIOUS
    <3>2. r \in Requests /\ r.pc = "reply"
      BY <3>1, NoRequestType DEF Requests
    <3> QED
      BY <2>4, <3>1, <3>2 DEF Reply
  <2> QED
    BY <2>2, <2>3, <2>4 DEF CheckActive
<1>6. PICK r \in Requests :
         /\ request' = [request EXCEPT ![h] = r]
         /\ r.pc = "reply" \/ (r.pc \in {"classify", "sql"} /\ r.met)
  BY <1>5
<1>7. request'[h] = r /\ \A g \in Threads : g # h => request'[g] = request[g]
  BY <1>1, <1>6
<1>8. GateTypeOK'
  BY <1>1, <1>2, <1>4, <1>6 DEF GateInv, GateTypeOK
<1>9. ASSUME NEW g \in Threads PROVE AtGate(g)'
  <2>1. CASE g = h
    BY <1>1, <1>3, <1>6, <1>7, <2>1 DEF AtGate
  <2>2. CASE g # h
    BY <1>1, <1>7, <2>2 DEF GateInv, AtGate, Effective
  <2> QED
    BY <2>1, <2>2
<1>10. OnlyActiveRuns'
  BY <1>6, <1>7 DEF GateInv, OnlyActiveRuns
<1>11. \A g \in Threads, s \in Tenants : g # h => (Charged(g, s)' <=> Charged(g, s))
  BY <1>1, <1>7 DEF Charged, Effective
<1>12. \A s \in Tenants : ~Charged(h, s)' /\ (Charged(h, s) <=> s = t)
  BY <1>1, <1>2, <1>3, <1>6, <1>7 DEF Charged
<1>13. ASSUME NEW s \in Tenants PROVE Accounted(s)'
  <2>1. /\ used[s] + Cardinality(Pending(s)) <= granted[s] /\ granted'[s] = granted[s]
        /\ used[s] \in Nat /\ granted[s] \in Nat
        /\ IsFiniteSet(Pending(s)) /\ Cardinality(Pending(s)) \in Nat
    BY <1>1, PendingFinite DEF GateInv, Accounted
  <2>2. Pending(s)' = Pending(s) \ {h}
    BY <1>11, <1>12 DEF Pending
  <2>3. /\ Cardinality(Pending(s)') =
              IF h \in Pending(s) THEN Cardinality(Pending(s)) - 1 ELSE Cardinality(Pending(s))
        /\ h \in Pending(s) <=> s = t
    BY <1>12, <2>1, <2>2, FS_RemoveElement DEF Pending
  <2>4. used'[s] = IF s = t THEN used[s] + 1 ELSE used[s]
    BY <1>1, <1>4
  <2> QED
    BY <2>1, <2>3, <2>4 DEF Accounted
<1> QED
  BY <1>8, <1>9, <1>10, <1>13 DEF GateInv

LEMMA SetActivationStep ==
    ASSUME GateInv, TypeOK', NEW t \in Tenants, SetActivation(t)
    PROVE  GateInv'
<1>1. /\ request \in [Threads -> Requests] /\ active \in [Tenants -> BOOLEAN]
      /\ UNCHANGED <<thread, granted, used>>
      /\ active' = [active EXCEPT ![t] = ~@]
  BY DEF GateInv, GateTypeOK, SetActivation, vars
<1>2. ASSUME NEW h \in Threads
      PROVE  /\ request'[h] \in Requests
             /\ request'[h].pc = request[h].pc
             /\ Effective(h)' = Effective(h)
             /\ request[h].met => request'[h].met
             /\ request[h].pc \in {"limiter", "activation"} /\ Effective(h) = t => request'[h].met
  <2>1. PICK met \in BOOLEAN :
           met = (request[h].met \/ (request[h].pc \in {"limiter", "activation"} /\ Effective(h) = t))
    OBVIOUS
  <2>2. request[h] \in Requests /\ request'[h] = [request[h] EXCEPT !.met = met]
    BY <1>1, <2>1 DEF SetActivation
  <2>3. /\ request'[h] \in Requests /\ request'[h].pc = request[h].pc /\ request'[h].met = met
        /\ request'[h].requested = request[h].requested /\ request'[h].claim = request[h].claim
    BY <2>2 DEF Requests
  <2> QED
    BY <2>1, <2>3 DEF Effective
<1>3. GateTypeOK'
  <2>1. request' \in [Threads -> Requests]
    BY <1>2 DEF SetActivation
  <2> QED
    BY <1>1, <2>1 DEF GateInv, GateTypeOK
<1>4. ASSUME NEW h \in Threads PROVE AtGate(h)'
  <2>1. CASE request[h].pc \in {"limiter", "activation"}
    <3>1. PICK s \in Tenants : s = Effective(h)
      BY <2>1 DEF GateInv, AtGate
    <3>2. active[s] => request[h].met
      BY <2>1, <3>1 DEF GateInv, AtGate
    <3>3. active'[s] => request'[h].met
      BY <1>1, <1>2, <2>1, <3>1, <3>2
    <3> QED
      BY <1>1, <1>2, <3>1, <3>3 DEF GateInv, AtGate
  <2>2. CASE request[h].pc \notin {"limiter", "activation"}
    BY <1>1, <1>2, <2>2 DEF GateInv, AtGate
  <2> QED
    BY <2>1, <2>2
<1>5. OnlyActiveRuns'
  BY <1>2 DEF GateInv, OnlyActiveRuns
<1>6. \A h \in Threads, s \in Tenants : Charged(h, s)' <=> Charged(h, s)
  BY <1>1, <1>2 DEF Charged
<1>7. \A s \in Tenants : Accounted(s)'
  BY <1>1, <1>6, SameAccount
<1> QED
  BY <1>3, <1>4, <1>5, <1>7 DEF GateInv

LEMMA QuietStep ==
    ASSUME GateInv, TypeOK', UNCHANGED <<thread, granted, active, request, used>>
    PROVE  GateInv'
<1>1. GateTypeOK'
  BY DEF GateInv, GateTypeOK
<1>2. \A h \in Threads : AtGate(h)'
  BY DEF GateInv, AtGate, Effective
<1>3. OnlyActiveRuns'
  BY DEF GateInv, OnlyActiveRuns
<1>4. \A h \in Threads, t \in Tenants : Charged(h, t)' <=> Charged(h, t)
  BY DEF Charged, Effective
<1>5. \A t \in Tenants : Accounted(t)'
  BY <1>4, SameAccount
<1> QED
  BY <1>1, <1>2, <1>3, <1>5 DEF GateInv

LEMMA GateInvNext == GateInv /\ [GateNext]_allVars => GateInv'
<1> SUFFICES ASSUME GateInv, [GateNext]_allVars PROVE GateInv'
  OBVIOUS
<1>0. TypeOK'
  BY LimiterTypes
<1>1. CASE UNCHANGED allVars
  BY <1>0, <1>1, QuietStep DEF allVars, vars, gateVars
<1>2. CASE GateTick
  BY <1>0, <1>2, QuietStep DEF GateTick, Tick, gateVars
<1>3. ASSUME NEW t \in Tenants, SetActivation(t) PROVE GateInv'
  BY <1>0, <1>3, SetActivationStep
<1>4. ASSUME NEW h \in Threads, Receive(h) \/ Work(h) PROVE GateInv'
  <2>1. CASE AskLimiter(h)
    BY <1>0, <2>1, AskLimiterStep
  <2>2. CASE AdmitRequest(h)
    BY <1>0, <2>2, AdmitStep
  <2>3. CASE TakeVerdict(h)
    BY <1>0, <2>3, TakeVerdictStep
  <2>4. CASE CheckActive(h)
    BY <1>0, <2>4, CheckActiveStep
  <2>5. CASE Receive(h) \/ Refuse(h) \/ Deliver(h)
             \/ ClassifyQuestion(h) \/ AnswerFromDocuments(h) \/ RunSql(h)
    BY <1>0, <2>5, OutsideStep
  <2> QED
    BY <1>4, <2>1, <2>2, <2>3, <2>4, <2>5 DEF Work
<1> QED
  BY <1>1, <1>2, <1>3, <1>4 DEF GateNext

LEMMA GateInvAlways == GateSpec => []GateInv
<1> QED
  BY GateInvInit, GateInvNext, PTL DEF GateSpec

-----------------------------------------------------------------------------
(* The properties *)

(* The variables of the gate and of the limiter keep their types, and no    *)
(* bucket overflows, with requests in any number of threads (_gate in       *)
(* api/query.py).                                                           *)
THEOREM GateTypeCorrect == GateSpec => []GateTypeOK
<1>1. GateInv => GateTypeOK
  BY DEF GateInv
<1> QED
  BY <1>1, GateInvAlways, PTL

(* Behind the gate the limiter does what RateLimiter says: the gate only    *)
(* calls it, so the theorems about it hold of the service.                  *)
THEOREM GateImplementsLimiter == GateSpec => Spec
<1>1. GateInit => Init
  BY DEF GateInit
<1>2. GateInv /\ [GateNext]_allVars => [Next]_vars
  BY GateIsClient DEF GateInv
<1> QED
  BY <1>1, <1>2, GateInvAlways, PTL DEF GateSpec, Spec

(* No tenant has more requests behind the gate than it was granted: each is *)
(* charged before its activation check, and to the tenant it runs for.      *)
THEOREM EveryServiceIsPaid == GateSpec => []ServedIsPaid
<1>1. GateInv => ServedIsPaid
  <2> SUFFICES ASSUME GateInv, NEW t \in Tenants PROVE used[t] <= granted[t]
    BY DEF ServedIsPaid
  <2>1. used[t] \in Nat /\ granted[t] \in Nat /\ Cardinality(Pending(t)) \in Nat
    BY PendingFinite DEF GateInv, GateTypeOK, TypeOK
  <2>2. used[t] + Cardinality(Pending(t)) <= granted[t]
    BY DEF GateInv, Accounted
  <2> QED
    BY <2>1, <2>2
<1> QED
  BY <1>1, GateInvAlways, PTL

(* A request runs only for a tenant that was active at some moment since it *)
(* entered the gate, or whose check failed: the gate fails open.            *)
THEOREM OnlyActiveTenantsRun == GateSpec => []OnlyActiveRuns
<1>1. GateInv => OnlyActiveRuns
  BY DEF GateInv
<1> QED
  BY <1>1, GateInvAlways, PTL
=============================================================================
