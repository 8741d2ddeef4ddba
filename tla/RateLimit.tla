----------------------------- MODULE RateLimit ------------------------------
(***************************************************************************)
(* The token buckets behind RateLimitMiddleware: the in-process limiter    *)
(* with its LRU cap and its idle sweep, and the Redis store whose bucket   *)
(* is shared by workers with clocks of their own.  Tokens are counted in   *)
(* sixtieths, so that rate_per_min of them accrue in a second; the clock   *)
(* ticks in seconds.  acquire has no await between its first read and its  *)
(* last write (the lock is never contended), and the Lua script is atomic. *)
(***************************************************************************)
EXTENDS Integers, FiniteSets, Sequences, SequencesExt, Ranking

CONSTANTS
    Keys,           \* api_key_id values
    LWorkers,       \* workers sharing a Redis store
    Backends,       \* subset of {"memory", "redis"}
    RatePerMin, Burst, LruCap, IdleTtl,
    MaxSkew,        \* how far a worker's wall clock may be ahead
    MaxClock        \* bound on the clock

ASSUME RateAssumption ==
    /\ RatePerMin \in Nat \ {0} /\ Burst \in Nat \ {0} /\ LruCap \in Nat \ {0}
    /\ IdleTtl \in Nat /\ MaxSkew \in Nat /\ MaxClock \in Nat
    /\ (IdleTtl - 2 * MaxSkew) * RatePerMin >= 60 * Burst   \* an idle bucket is full again

VARIABLES
    backend,    \* which store this deployment uses
    clock,
    skew,       \* each worker's clock error
    bucket,     \* [tokens, last_refill, used], or None, for each key
    order,      \* the keys of _buckets, least recently used first
    locks,      \* the keys of _locks
    grants,     \* history: when each key was given a token
    hint        \* history: who was told to retry when, for each key

rateVars == <<backend, clock, skew, bucket, order, locks, grants, hint>>

Unit == 60
None == [tokens |-> 0, last |-> -1, used |-> -1]
NoHint == [at |-> -1, by |-> "none"]
Has(k) == bucket[k] # None

RateInit ==
    /\ backend \in Backends
    /\ clock = 0
    /\ skew \in [LWorkers -> IF backend = "redis" THEN 0..MaxSkew ELSE {0}]
    /\ bucket = [k \in Keys |-> None]
    /\ order = << >>
    /\ locks = {}
    /\ grants = [k \in Keys |-> << >>]
    /\ hint = [k \in Keys |-> NoHint]

(* Mutant: an idle bucket fills beyond the burst.                          *)
RefilledUncapped(k, t) ==
    IF Has(k) THEN bucket[k].tokens + (t - bucket[k].last) * RatePerMin ELSE Burst * Unit

\* The bucket as an acquire at time t finds it.
Refilled(k, t) ==
    IF Has(k) THEN LET sum == bucket[k].tokens + (t - bucket[k].last) * RatePerMin
                   IN IF sum < Burst * Unit THEN sum ELSE Burst * Unit
              ELSE Burst * Unit

\* _evict_lru: a key without a lock makes room for its bucket.
Evicted(k) == IF k \notin locks /\ Len(order) >= LruCap THEN {Head(order)} ELSE {}

\* Seconds the 429 tells the client to wait: int(retry_after) + 1.
RetryAfter(tokens) == (Unit - tokens) \div RatePerMin + 1

\* Spend a token of k at the caller's time t, or refuse.
Spend(w, k, t, gone) ==
    LET tokens == Refilled(k, t)
        ok == tokens >= Unit
    IN /\ bucket' = [x \in Keys |->
                       CASE x = k -> [tokens |-> IF ok THEN tokens - Unit ELSE tokens,
                                      last |-> t, used |-> clock]
                         [] x \in gone -> None
                         [] OTHER -> bucket[x]]
       /\ grants' = [x \in Keys |->
                       CASE x = k -> IF ok THEN Append(grants[x], clock) ELSE grants[x]
                         [] x \in gone -> << >>
                         [] OTHER -> grants[x]]
       /\ hint' = [hint EXCEPT ![k] = IF ok THEN NoHint
                                      ELSE [at |-> clock + RetryAfter(tokens), by |-> w]]

\* TokenBucketRateLimiter.acquire
AcquireLocal(w, k) ==
    /\ backend = "memory"
    /\ LET gone == Evicted(k)
       IN /\ Spend(w, k, clock, gone)
          /\ order' = Append(Without(order, gone \cup {k}), k)
          /\ locks' = (locks \ gone) \cup {k}
    /\ UNCHANGED <<backend, clock, skew>>

\* RedisRateLimitStore.acquire, the script running with the worker's clock
AcquireShared(w, k) ==
    /\ backend = "redis"
    /\ Spend(w, k, clock + skew[w], {})
    /\ UNCHANGED <<backend, clock, skew, order, locks>>

\* The same while Redis does not answer, or answers too little: the request
\* is let through without a token, and its client told nothing.  A script
\* that did run and whose answer was lost is AcquireShared's step: the
\* request is let through even if it was refused its token.
AcquireUnanswered(w, k) ==
    /\ backend = "redis"
    /\ hint' = [hint EXCEPT ![k] = NoHint]
    /\ UNCHANGED <<backend, clock, skew, bucket, order, locks, grants>>

\* _sweep_once: buckets not refilled for longer than ttl_s are dropped.
Stale == {k \in Keys : Has(k) /\ clock - bucket[k].last > IdleTtl}

Sweep ==
    /\ backend = "memory" /\ Stale # {}
    /\ bucket' = [k \in Keys |-> IF k \in Stale THEN None ELSE bucket[k]]
    /\ order' = Without(order, Stale)
    /\ locks' = locks \ Stale
    /\ UNCHANGED <<backend, clock, skew, grants, hint>>

\* A second passes; Redis drops the keys whose EXPIRE has run out.
Second ==
    /\ clock < MaxClock
    /\ clock' = clock + 1
    /\ bucket' = [k \in Keys |->
                    IF backend = "redis" /\ Has(k) /\ clock + 1 >= bucket[k].used + IdleTtl
                    THEN None ELSE bucket[k]]
    /\ UNCHANGED <<backend, skew, order, locks, grants, hint>>

RateNext ==
    \/ Second \/ Sweep
    \/ \E w \in LWorkers, k \in Keys :
         AcquireLocal(w, k) \/ AcquireShared(w, k) \/ AcquireUnanswered(w, k)

RateSpec == RateInit /\ [][RateNext]_rateVars

-----------------------------------------------------------------------------
(* Properties.                                                             *)

\* _buckets and _locks stay in sync and within the cap: no lock outlives
\* its bucket (the module's own design note).
LocksMatchBuckets ==
    backend = "memory" =>
      /\ locks = {k \in Keys : Has(k)}
      /\ locks = Range(order) /\ Len(order) = Cardinality(locks)
      /\ Cardinality(locks) <= LruCap

\* In any span of time a key is given at most its burst plus what accrues
\* in that span, sweeps and expiries included; with Redis the span is as the
\* workers' clocks measure it.  An LRU eviction forgets the key's history.
\* It is about tokens: each request Redis does not answer is let through
\* without one (acquire fails open), so the requests of a key are bounded by
\* this and the failures of that span.
LimitHolds ==
    \A k \in Keys : \A i, j \in DOMAIN grants[k] :
      i <= j => (j - i + 1) * Unit
                  <= Burst * Unit + (grants[k][j] - grants[k][i] + MaxSkew) * RatePerMin

\* A client that waits as long as the 429 says, and whose key nobody else
\* spends, is let through by the worker that told it so.
RetryHintSuffices ==
    \A k \in Keys : hint[k] # NoHint /\ clock >= hint[k].at =>
        Refilled(k, clock + skew[hint[k].by]) >= Unit

\* Both limiters: never more tokens than the limit, never less than the 429's hint,
\* and tables that agree (acquire, _sweep and the Lua script).
LimiterInv == LocksMatchBuckets /\ LimitHolds /\ RetryHintSuffices

=============================================================================
