----------------------------- MODULE RateLimiter -----------------------------
(***************************************************************************)
(* The request limit of one server (middleware/ratelimit.go).  Requests of *)
(* a key (client address and route) are counted per minute in Redis; when  *)
(* Redis does not answer, or none is configured, in a map of the process.  *)
(*                                                                         *)
(* Time is the number of the current minute, "window".  The 15 seconds a   *)
(* request may last are shorter than a minute: a request that took its     *)
(* Redis key in one minute is answered before the next one ends.           *)
(***************************************************************************)
EXTENDS Integers, FiniteSets

CONSTANTS
    Keys,         \* client address and route
    Requests,     \* the goroutines serving requests
    HasRedis,     \* whether a Redis client is configured
    Limit,        \* requests of a key per minute
    Threshold,    \* size of the local map from which it is cleaned (512)
    MaxWindow,    \* bound: the last minute
    MaxArrivals   \* bound: requests that arrive in one minute

ASSUME LimiterAssumption ==
    /\ HasRedis \in BOOLEAN
    /\ Limit \in Nat \ {0}
    /\ Threshold \in Nat \ {0}
    /\ MaxWindow \in Nat
    /\ MaxArrivals \in Nat

VARIABLES
    window,       \* the current minute
    arrivals,     \* how many requests have arrived in it
    counter,      \* Redis: <<key, window>> -> count, 0 when there is no entry
    local,        \* the process: key -> bucket, for the keys that have one
    serving,      \* request -> its key and the window it took, or Idle
    asked,        \* history: how often each counter was asked
    passed,       \* history: how many requests each counter let through
    refused       \* history: the counters that turned a request away,
                  \* all three for the minutes a request may still be counted in

vars == <<window, arrivals, counter, local, serving, asked, passed, refused>>

Windows  == 0..MaxWindow
Bucket   == [window : Windows, count : Nat]
Counters == {"redis", "local"} \X Keys \X Windows
Idle     == [at |-> "idle"]
Served   == {Idle} \cup [at : {"redis", "local"}, key : Keys, window : Windows]

Init ==
    /\ window = 0
    /\ arrivals = 0
    /\ counter = [x \in Keys \X Windows |-> 0]
    /\ local = [k \in {} |-> 0]
    /\ serving = [r \in Requests |-> Idle]
    /\ asked = [x \in Counters |-> 0]
    /\ passed = [x \in Counters |-> 0]
    /\ refused = {}

\* The counter x gave count to a request: it passes or gets 429.
Answer(x, count) ==
    /\ asked' = [asked EXCEPT ![x] = @ + 1]
    /\ IF count > Limit
       THEN refused' = refused \cup {x} /\ UNCHANGED passed
       ELSE passed' = [passed EXCEPT ![x] = @ + 1] /\ UNCHANGED refused

Arrive(r, k) ==
    /\ serving[r] = Idle
    /\ arrivals < MaxArrivals
    /\ arrivals' = arrivals + 1
    /\ serving' = [serving EXCEPT ![r] =
          [at |-> IF HasRedis THEN "redis" ELSE "local", key |-> k, window |-> window]]
    /\ UNCHANGED <<window, counter, local, asked, passed, refused>>

Increment(r) ==
    LET s == serving[r]
        x == <<s.key, s.window>>
    IN  /\ s.at = "redis"
        /\ counter' = [counter EXCEPT ![x] = @ + 1]
        /\ Answer(<<"redis", s.key, s.window>>, counter'[x])
        /\ serving' = [serving EXCEPT ![r] = Idle]
        /\ UNCHANGED <<window, arrivals, local>>

\* The pipeline fails, before or after Redis has executed it.
IncrementFails(r) ==
    LET s == serving[r]
        x == <<s.key, s.window>>
    IN  /\ s.at = "redis"
        /\ counter' \in {counter, [counter EXCEPT ![x] = @ + 1]}
        /\ asked' = [asked EXCEPT ![<<"redis", s.key, s.window>>] = @ + 1]
        /\ serving' = [serving EXCEPT ![r].at = "local"]
        /\ UNCHANGED <<window, arrivals, local, passed, refused>>

\* Mutant of Cleaned: the bound is off by one.
CleanedLate(buckets) ==
    IF Cardinality(DOMAIN buckets) <= Threshold
    THEN buckets
    ELSE [k \in {j \in DOMAIN buckets : buckets[j].window >= window} |-> buckets[k]]

Cleaned(buckets) ==
    IF Cardinality(DOMAIN buckets) < Threshold
    THEN buckets
    ELSE [k \in {j \in DOMAIN buckets : buckets[j].window >= window} |-> buckets[k]]

\* Mutants of CountOf: the bucket of an earlier minute is counted on, and the
\* first request of a minute only opens the bucket.
CountOfAnyWindow(buckets, k) ==
    IF k \in DOMAIN buckets THEN buckets[k].count + 1 ELSE 1

CountOfFromZero(buckets, k) ==
    IF k \in DOMAIN buckets /\ buckets[k].window = window
    THEN buckets[k].count + 1 ELSE 0

CountOf(buckets, k) ==
    IF k \in DOMAIN buckets /\ buckets[k].window = window
    THEN buckets[k].count + 1 ELSE 1

\* Under the mutex.  The minute is the current one, not the one the Redis
\* key was made of.
IncrementLocal(r) ==
    LET s == serving[r]
        kept == Cleaned(local)
        count == CountOf(kept, s.key)
    IN  /\ s.at = "local"
        /\ local' = [k \in DOMAIN kept \cup {s.key} |->
                        IF k = s.key THEN [window |-> window, count |-> count]
                                     ELSE kept[k]]
        /\ Answer(<<"local", s.key, window>>, count)
        /\ serving' = [serving EXCEPT ![r] = Idle]
        /\ UNCHANGED <<window, arrivals, counter>>

\* A minute passes; every request that took its window before the last
\* minute has been answered.
Tick ==
    /\ window < MaxWindow
    /\ \A r \in Requests : serving[r] # Idle => serving[r].window = window
    /\ window' = window + 1
    /\ arrivals' = 0
    /\ asked' = [x \in Counters |-> IF x[3] < window THEN 0 ELSE asked[x]]
    /\ passed' = [x \in Counters |-> IF x[3] < window THEN 0 ELSE passed[x]]
    /\ refused' = {x \in refused : x[3] >= window}
    /\ UNCHANGED <<counter, local, serving>>

\* Mutant of Expire: the entry lives for one minute.
ExpireEarly(x) ==
    /\ counter[x] > 0
    /\ x[2] + 1 <= window
    /\ counter' = [counter EXCEPT ![x] = 0]
    /\ UNCHANGED <<window, arrivals, local, serving, asked, passed, refused>>

\* An entry expires two minutes after its last increment.
Expire(x) ==
    /\ counter[x] > 0
    /\ x[2] + 2 <= window
    /\ counter' = [counter EXCEPT ![x] = 0]
    /\ UNCHANGED <<window, arrivals, local, serving, asked, passed, refused>>

Next ==
    \/ \E r \in Requests : \/ \E k \in Keys : Arrive(r, k)
                           \/ Increment(r) \/ IncrementFails(r) \/ IncrementLocal(r)
    \/ Tick
    \/ \E x \in Keys \X Windows : Expire(x)

Spec == Init /\ [][Next]_vars

------------------------------------------------------------------------------
\* Every variable holds a value of its type; a bucket is never of a later
\* minute than the current one and never empty.
TypeOK ==
    /\ window \in Windows
    /\ arrivals \in 0..MaxArrivals
    /\ counter \in [Keys \X Windows -> Nat]
    /\ DOMAIN local \subseteq Keys
    /\ \A k \in DOMAIN local : /\ local[k] \in Bucket
                               /\ local[k].window <= window
                               /\ local[k].count > 0
    /\ serving \in [Requests -> Served]
    /\ asked \in [Counters -> Nat]
    /\ passed \in [Counters -> Nat]
    /\ refused \subseteq Counters

\* In one minute each counter lets at most Limit requests of a key pass, so a
\* Redis that fails and recovers can at most double the limit, also for
\* requests that arrive in one minute and are counted in the next.
WithinBudget == \A x \in Counters : passed[x] <= Limit

\* A request is refused only in a minute in which more than Limit requests of
\* its key asked the counter that refuses it: neither an answer Redis lost
\* nor a bucket of an earlier minute is held against a client.
RefusedWithReason == \A x \in refused : asked[x] > Limit

\* The local map keeps fewer than Threshold buckets of earlier minutes than
\* the minute of its newest bucket.
StaleBucketsBounded ==
    \A newest \in DOMAIN local :
        Cardinality({k \in DOMAIN local : local[k].window < local[newest].window})
            < Threshold
==============================================================================
