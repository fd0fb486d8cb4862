---------------------------- MODULE RateLimiter ----------------------------
(***************************************************************************)
(* TokenBucketLimiter.admit (api/ratelimit.py), called by the gate of the  *)
(* query routes (api/query.py) from many threads.                          *)
(*                                                                         *)
(* The moment of a call is sampled before the lock is taken: a thread may  *)
(* be overtaken between the two, and then meets a bucket that was refilled *)
(* later than its own moment.                                              *)
(*                                                                         *)
(* Tokens are counted in sixtieths, so that the refill per second is the   *)
(* whole number requests_per_minute; time is in seconds.  The rounding of  *)
(* the floats is left out.                                                 *)
(***************************************************************************)
EXTENDS Integers

CONSTANTS
    Threads,
    Tenants,
    Burst,      \* ratelimit.burst
    Rpm,        \* ratelimit.requests_per_minute
    MaxClock    \* bound: seconds of one behaviour

\* The settings accept any integers; with none of either there is no
\* service, and a denial would divide by zero.
ASSUME LimiterAssumption ==
    /\ Tenants # {}
    /\ Burst \in Nat \ {0}
    /\ Rpm \in Nat \ {0}
    /\ MaxClock \in Nat

VARIABLES
    clock,      \* time.monotonic()
    bucket,     \* _buckets: tokens and last_refill per tenant
    thread,     \* the call of admit of each thread
    opened,     \* history: when the bucket was created
    granted,    \* history: requests admitted since then
    rewound     \* history: seconds by which last_refill was set back

vars == <<clock, bucket, thread, opened, granted, rewound>>

-----------------------------------------------------------------------------

Token == 60
Capacity == Token * Burst

Absent == [tokens |-> 0, last_refill |-> -1]
Buckets == {Absent} \cup [tokens : 0..Capacity, last_refill : Nat]

Calls == [pc : {"idle", "sampled", "admitted", "denied"},
          tenant : Tenants, moment : Nat, retry : Nat]

TypeOK ==
    /\ clock \in Nat
    /\ bucket \in [Tenants -> Buckets]
    /\ thread \in [Threads -> Calls]
    /\ opened \in [Tenants -> Nat]
    /\ granted \in [Tenants -> Nat]
    /\ rewound \in [Tenants -> Nat]

NoCall == [pc |-> "idle", tenant |-> CHOOSE t \in Tenants : TRUE, moment |-> 0, retry |-> 0]

Init ==
    /\ clock = 0
    /\ bucket = [t \in Tenants |-> Absent]
    /\ thread = [h \in Threads |-> NoCall]
    /\ opened = [t \in Tenants |-> 0]
    /\ granted = [t \in Tenants |-> 0]
    /\ rewound = [t \in Tenants |-> 0]

Tick ==
    /\ clock < MaxClock
    /\ clock' = clock + 1
    /\ UNCHANGED <<bucket, thread, opened, granted, rewound>>

\* admit begins: the moment is sampled outside the lock.
Sample(h, t) ==
    /\ thread[h].pc = "idle"
    /\ thread' = [thread EXCEPT ![h] = [NoCall EXCEPT !.pc = "sampled", !.tenant = t,
                                                      !.moment = clock]]
    /\ UNCHANGED <<clock, bucket, opened, granted, rewound>>

\* The bucket found under the lock, created full on first use.
Found(t, moment) ==
    IF bucket[t] = Absent
    THEN [tokens |-> Capacity, last_refill |-> moment]
    ELSE bucket[t]

Elapsed(b, moment) == IF moment > b.last_refill THEN moment - b.last_refill ELSE 0

\* Mutant: the refill has no upper limit.
RefilledUnlimited(b, moment) == b.tokens + Rpm * Elapsed(b, moment)

\* The tokens after the refill for the time elapsed, if any.
Refilled(b, moment) ==
    LET tokens == b.tokens + Rpm * Elapsed(b, moment) IN
    IF tokens < Capacity THEN tokens ELSE Capacity

\* Mutant: the whole seconds of the wait, at least one.
WholeSeconds(tokens) ==
    LET wait == (Token - tokens) \div Rpm IN IF wait > 1 THEN wait ELSE 1

\* max(int(wait) + 1, 1) seconds.
RetryAfter(tokens) == (Token - tokens) \div Rpm + 1

\* Mutant: an admitted call does not pay.
SpentNever(tokens) == tokens

\* What the call leaves in the bucket.
Spent(tokens) == IF tokens >= Token THEN tokens - Token ELSE tokens

\* The section under the lock: create, refill, consume.
Admit(h) ==
    /\ thread[h].pc = "sampled"
    /\ LET t == thread[h].tenant
           moment == thread[h].moment
           found == Found(t, moment)
           tokens == Refilled(found, moment)
           allowed == tokens >= Token
       IN /\ bucket' = [bucket EXCEPT ![t] = [tokens |-> Spent(tokens),
                                              last_refill |-> moment]]
          /\ thread' = [thread EXCEPT
                ![h].pc = IF allowed THEN "admitted" ELSE "denied",
                ![h].retry = IF allowed THEN 0 ELSE RetryAfter(tokens)]
          /\ opened' = [opened EXCEPT ![t] = IF bucket[t] = Absent THEN moment ELSE @]
          /\ granted' = [granted EXCEPT ![t] = IF allowed THEN @ + 1 ELSE @]
          /\ rewound' = [rewound EXCEPT ![t] =
                IF found.last_refill > moment THEN @ + (found.last_refill - moment) ELSE @]
    /\ UNCHANGED clock

\* The gate acts on the verdict.
Return(h) ==
    /\ thread[h].pc \in {"admitted", "denied"}
    /\ thread' = [thread EXCEPT ![h] = NoCall]
    /\ UNCHANGED <<clock, bucket, opened, granted, rewound>>

Next ==
    \/ Tick
    \/ \E h \in Threads :
          \/ \E t \in Tenants : Sample(h, t)
          \/ Admit(h)
          \/ Return(h)

Spec == Init /\ [][Next]_vars

-----------------------------------------------------------------------------

\* However the calls overtake each other, a tenant is never granted more
\* than its burst, the refill since its bucket was opened, and the refill
\* for the seconds by which late calls set last_refill back.
GrantsAccounted ==
    \A t \in Tenants : bucket[t] # Absent =>
        Token * granted[t] + bucket[t].tokens
            <= Capacity + Rpm * (bucket[t].last_refill - opened[t] + rewound[t])

\* "retry after N s" is honest: a denied tenant that stays silent for
\* retry_after_s seconds has a token then.
RetryAfterSuffices ==
    [][\A h \in Threads : thread[h].pc = "sampled" /\ thread'[h].pc = "denied" =>
          LET b == bucket'[thread[h].tenant] IN
          Refilled(b, b.last_refill + thread'[h].retry) >= Token]_vars

\* As long as no call was overtaken, a tenant is granted at most its burst
\* and requests_per_minute since its bucket was opened: the moment sampled
\* outside the lock is the only way past the budget.
BudgetInOrder ==
    \A t \in Tenants : bucket[t] # Absent /\ rewound[t] = 0 =>
        Token * granted[t] <= Capacity + Rpm * (clock - opened[t])
=============================================================================
