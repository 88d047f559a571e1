-------------------------- MODULE RateLimiter_proofs --------------------------
(***************************************************************************)
(* Proofs about RateLimiter.  The invariant ties the history of a counter  *)
(* to what the code keeps: in Redis for the two minutes a request may      *)
(* still be counted in, in the local map for the current minute.           *)
(***************************************************************************)
EXTENDS RateLimiter, FiniteSetTheorems, TLAPS

\* A request is counted in the minute it took or in the next.
RequestsAreRecent ==
    \A r \in Requests :
        serving[r] # Idle => /\ serving[r].window <= window
                             /\ window <= serving[r].window + 1

\* An entry that a request may still increment has counted every request it
\* let through, and has counted no request that did not ask.
RedisCounts ==
    \A k \in Keys, w \in Windows :
        window <= w + 1 =>
            /\ passed[<<"redis", k, w>>] <= counter[<<k, w>>]
            /\ counter[<<k, w>>] <= asked[<<"redis", k, w>>]

\* What the bucket of k says of the current minute.
Held(k) ==
    IF k \in DOMAIN local /\ local[k].window = window THEN local[k].count ELSE 0

LocalCounts ==
    \A k \in Keys :
        /\ asked[<<"local", k, window>>] = Held(k)
        /\ passed[<<"local", k, window>>] <= Held(k)

NothingAhead ==
    \A k \in Keys, w \in Windows :
        w > window => /\ asked[<<"local", k, w>>] = 0
                      /\ passed[<<"local", k, w>>] = 0

LimiterInv ==
    /\ TypeOK
    /\ IsFiniteSet(DOMAIN local)
    /\ RequestsAreRecent
    /\ RedisCounts
    /\ LocalCounts
    /\ NothingAhead

USE LimiterAssumption

------------------------------------------------------------------------------
\* Helpers.

LEMMA BusyRequest ==
    ASSUME TypeOK, NEW r \in Requests, serving[r].at \in {"redis", "local"}
    PROVE  /\ serving[r] # Idle
           /\ serving[r].key \in Keys
           /\ serving[r].window \in Windows
  BY DEF TypeOK, Served, Idle

\* Cleaning keeps the buckets of the current minute, and all it keeps it
\* keeps as it is.
LEMMA CleanedKeeps ==
    ASSUME TypeOK
    PROVE  /\ DOMAIN Cleaned(local) \subseteq DOMAIN local
           /\ \A k \in DOMAIN Cleaned(local) : Cleaned(local)[k] = local[k]
           /\ \A k \in DOMAIN local :
                 local[k].window = window => k \in DOMAIN Cleaned(local)
  BY DEF Cleaned, TypeOK, Windows, Bucket

\* The count a request gets is one more than what its bucket says.
LEMMA CountOfHeld ==
    ASSUME TypeOK, NEW k \in Keys
    PROVE  /\ CountOf(Cleaned(local), k) = Held(k) + 1
           /\ Held(k) \in Nat
<1>1. Held(k) \in Nat
  BY DEF Held, TypeOK, Bucket
<1>2. CASE k \in DOMAIN local /\ local[k].window = window
  <2>1. k \in DOMAIN Cleaned(local) /\ Cleaned(local)[k] = local[k]
    BY <1>2, CleanedKeeps
  <2>2. CountOf(Cleaned(local), k) = local[k].count + 1
    BY <1>2, <2>1 DEF CountOf
  <2>3. QED
    BY <1>1, <1>2, <2>2 DEF Held
<1>3. CASE ~(k \in DOMAIN local /\ local[k].window = window)
  BY <1>3, CleanedKeeps DEF CountOf, Held
<1>4. QED
  BY <1>1, <1>2, <1>3

\* The bucket map after r was counted.
LEMMA LocalAfter ==
    ASSUME TypeOK, NEW r \in Requests, IncrementLocal(r)
    PROVE  /\ serving[r].key \in Keys
           /\ DOMAIN local' = DOMAIN Cleaned(local) \cup {serving[r].key}
           /\ DOMAIN local' \subseteq Keys
           /\ local'[serving[r].key] =
                 [window |-> window, count |-> Held(serving[r].key) + 1]
           /\ \A k \in DOMAIN local' :
                 k # serving[r].key => k \in DOMAIN local /\ local'[k] = local[k]
<1>1. serving[r].key \in Keys
  BY BusyRequest DEF IncrementLocal
<1>2. DOMAIN Cleaned(local) \subseteq Keys
  BY CleanedKeeps DEF TypeOK
<1>3. QED
  BY <1>1, <1>2, CountOfHeld, CleanedKeeps DEF IncrementLocal

LEMMA AnswerType ==
    ASSUME TypeOK, NEW x \in Counters, NEW count \in Nat, Answer(x, count)
    PROVE  /\ asked' \in [Counters -> Nat]
           /\ passed' \in [Counters -> Nat]
           /\ refused' \subseteq Counters
  BY DEF Answer, TypeOK

------------------------------------------------------------------------------
\* Type correctness.

LEMMA IncrementTypes ==
    ASSUME TypeOK, NEW r \in Requests, Increment(r)
    PROVE  TypeOK'
<1> DEFINE x == <<serving[r].key, serving[r].window>>
<1>1. /\ x \in Keys \X Windows
      /\ <<"redis", serving[r].key, serving[r].window>> \in Counters
  BY BusyRequest DEF Increment, Counters
<1>2. counter' \in [Keys \X Windows -> Nat] /\ counter'[x] \in Nat
  BY <1>1 DEF Increment, TypeOK
<1>3. /\ asked' \in [Counters -> Nat]
      /\ passed' \in [Counters -> Nat]
      /\ refused' \subseteq Counters
  BY <1>1, <1>2, AnswerType DEF Increment
<1>4. serving' \in [Requests -> Served]
  BY DEF Increment, TypeOK, Served
<1>5. QED
  BY <1>2, <1>3, <1>4 DEF Increment, TypeOK

LEMMA IncrementFailsTypes ==
    ASSUME TypeOK, NEW r \in Requests, IncrementFails(r)
    PROVE  TypeOK'
<1> DEFINE x == <<serving[r].key, serving[r].window>>
           y == <<"redis", serving[r].key, serving[r].window>>
<1>1. x \in Keys \X Windows /\ y \in Counters
  BY BusyRequest DEF IncrementFails, Counters
<1>2. counter' \in [Keys \X Windows -> Nat]
  BY <1>1 DEF IncrementFails, TypeOK
<1>3. asked' \in [Counters -> Nat]
  BY <1>1 DEF IncrementFails, TypeOK
<1>4. serving[r] \in [at : {"redis", "local"}, key : Keys, window : Windows]
  BY BusyRequest DEF IncrementFails, TypeOK, Served
<1>5. serving' \in [Requests -> Served]
  BY <1>4 DEF IncrementFails, TypeOK, Served
<1>6. QED
  BY <1>2, <1>3, <1>5 DEF IncrementFails, TypeOK

LEMMA IncrementLocalTypes ==
    ASSUME TypeOK, NEW r \in Requests, IncrementLocal(r)
    PROVE  TypeOK'
<1> DEFINE k == serving[r].key
<1>1. k \in Keys /\ window \in Windows /\ <<"local", k, window>> \in Counters
  BY LocalAfter DEF TypeOK, Counters
<1>2. Held(k) \in Nat /\ CountOf(Cleaned(local), k) \in Nat
  BY <1>1, CountOfHeld
<1>3. /\ asked' \in [Counters -> Nat]
      /\ passed' \in [Counters -> Nat]
      /\ refused' \subseteq Counters
  BY <1>1, <1>2, AnswerType DEF IncrementLocal
<1>4. ASSUME NEW j \in DOMAIN local'
      PROVE  /\ local'[j] \in Bucket
             /\ local'[j].window <= window
             /\ local'[j].count > 0
  <2>1. CASE j = k
    <3>1. local'[j] = [window |-> window, count |-> Held(k) + 1]
      BY <2>1, LocalAfter
    <3>2. QED
      BY <1>1, <1>2, <3>1 DEF Bucket, Windows
  <2>2. CASE j # k
    BY <2>2, LocalAfter DEF TypeOK
  <2>3. QED
    BY <2>1, <2>2
<1>5. serving' \in [Requests -> Served]
  BY DEF IncrementLocal, TypeOK, Served
<1>6. QED
  BY <1>3, <1>4, <1>5, LocalAfter DEF IncrementLocal, TypeOK

LEMMA NextType == TypeOK /\ [Next]_vars => TypeOK'
<1> SUFFICES ASSUME TypeOK, [Next]_vars PROVE TypeOK'
  OBVIOUS
<1>1. ASSUME NEW r \in Requests, NEW k \in Keys, Arrive(r, k) PROVE TypeOK'
  <2>1. serving' \in [Requests -> Served]
    BY <1>1 DEF Arrive, TypeOK, Served
  <2>2. arrivals' \in 0..MaxArrivals
    BY <1>1 DEF Arrive, TypeOK
  <2>3. QED
    BY <1>1, <2>1, <2>2 DEF Arrive, TypeOK
<1>2. CASE Tick
  <2>1. window' \in Windows /\ window' > window /\ arrivals' \in 0..MaxArrivals
    BY <1>2 DEF Tick, TypeOK, Windows
  <2>2. asked' \in [Counters -> Nat] /\ passed' \in [Counters -> Nat]
    BY <1>2 DEF Tick, TypeOK
  <2>3. refused' \subseteq Counters
    BY <1>2 DEF Tick, TypeOK
  <2>4. \A k \in DOMAIN local' : /\ local'[k] \in Bucket
                                 /\ local'[k].window <= window'
                                 /\ local'[k].count > 0
    BY <1>2, <2>1 DEF Tick, TypeOK, Windows, Bucket
  <2>5. QED
    BY <1>2, <2>1, <2>2, <2>3, <2>4 DEF Tick, TypeOK
<1>3. ASSUME NEW x \in Keys \X Windows, Expire(x) PROVE TypeOK'
  BY <1>3 DEF Expire, TypeOK
<1>4. CASE UNCHANGED vars
  BY <1>4 DEF vars, TypeOK
<1>5. QED
  BY <1>1, <1>2, <1>3, <1>4, IncrementTypes, IncrementFailsTypes,
     IncrementLocalTypes DEF Next

LEMMA InitType == Init => TypeOK
  BY DEF Init, TypeOK, Served, Windows, Counters

\* Every reachable state is well typed, for any keys, requests, limit,
\* threshold and bounds.
THEOREM TypeCorrect == Spec => []TypeOK
  BY InitType, NextType, PTL DEF Spec

------------------------------------------------------------------------------
\* The invariant.

\* What an answer of counter x leaves of the histories of the others.
LEMMA AnswerEffect ==
    ASSUME TypeOK, NEW x \in Counters, NEW count \in Nat, Answer(x, count)
    PROVE  /\ asked'[x] = asked[x] + 1
           /\ passed'[x] = IF count > Limit THEN passed[x] ELSE passed[x] + 1
           /\ refused' = IF count > Limit THEN refused \cup {x} ELSE refused
           /\ \A y \in Counters : y # x => /\ asked'[y] = asked[y]
                                           /\ passed'[y] = passed[y]
  BY DEF Answer, TypeOK

\* What is used of a request that Redis counts or fails to count.
LEMMA RedisRequest ==
    ASSUME TypeOK, RequestsAreRecent, NEW r \in Requests, serving[r].at = "redis"
    PROVE  /\ <<serving[r].key, serving[r].window>> \in Keys \X Windows
           /\ <<"redis", serving[r].key, serving[r].window>> \in Counters
           /\ window <= serving[r].window + 1
  BY BusyRequest DEF RequestsAreRecent, Counters

LEMMA LocalRequest ==
    ASSUME TypeOK, NEW r \in Requests, IncrementLocal(r)
    PROVE  /\ serving[r].key \in Keys
           /\ <<"local", serving[r].key, window>> \in Counters
           /\ CountOf(Cleaned(local), serving[r].key) = Held(serving[r].key) + 1
           /\ Held(serving[r].key) \in Nat
           /\ Answer(<<"local", serving[r].key, window>>, Held(serving[r].key) + 1)
<1>1. serving[r].key \in Keys
  BY LocalAfter
<1>2. <<"local", serving[r].key, window>> \in Counters
  BY <1>1 DEF Counters, TypeOK
<1>3. QED
  BY <1>1, <1>2, CountOfHeld DEF IncrementLocal

LEMMA CounterTypes ==
    ASSUME TypeOK, NEW k \in Keys, NEW w \in Windows
    PROVE  /\ <<"redis", k, w>> \in Counters /\ <<"local", k, w>> \in Counters
           /\ asked[<<"redis", k, w>>] \in Nat /\ asked[<<"local", k, w>>] \in Nat
           /\ passed[<<"redis", k, w>>] \in Nat /\ passed[<<"local", k, w>>] \in Nat
           /\ counter[<<k, w>>] \in Nat
           /\ w \in Nat /\ window \in Nat
  BY DEF TypeOK, Counters, Windows

LEMMA NextRecent ==
    ASSUME TypeOK, RequestsAreRecent, [Next]_vars
    PROVE  RequestsAreRecent'
<1> USE DEF RequestsAreRecent
<1>1. ASSUME NEW r \in Requests, NEW k \in Keys, Arrive(r, k)
      PROVE  RequestsAreRecent'
  BY <1>1 DEF Arrive, TypeOK, Windows
<1>2. ASSUME NEW r \in Requests, Increment(r) \/ IncrementLocal(r)
      PROVE  RequestsAreRecent'
  BY <1>2 DEF Increment, IncrementLocal, TypeOK
<1>3. ASSUME NEW r \in Requests, IncrementFails(r) PROVE RequestsAreRecent'
  <2>1. serving[r] \in [at : {"redis", "local"}, key : Keys, window : Windows]
    BY <1>3, BusyRequest DEF IncrementFails, TypeOK, Served
  <2>2. /\ window' = window
        /\ serving'[r].window = serving[r].window
        /\ serving[r] # Idle
        /\ \A q \in Requests : q # r => serving'[q] = serving[q]
    BY <1>3, <2>1, BusyRequest DEF IncrementFails, TypeOK
  <2>3. QED
    BY <2>2
<1>4. CASE Tick
  BY <1>4, BusyRequest DEF Tick, TypeOK, Windows, Served
<1>5. CASE (\E x \in Keys \X Windows : Expire(x)) \/ UNCHANGED vars
  BY <1>5 DEF Expire, vars
<1>6. QED
  BY <1>1, <1>2, <1>3, <1>4, <1>5 DEF Next

LEMMA NextRedisCounts ==
    ASSUME TypeOK, RequestsAreRecent, RedisCounts, [Next]_vars
    PROVE  RedisCounts'
<1> SUFFICES ASSUME NEW k \in Keys, NEW w \in Windows, window' <= w + 1
             PROVE  /\ passed'[<<"redis", k, w>>] <= counter'[<<k, w>>]
                    /\ counter'[<<k, w>>] <= asked'[<<"redis", k, w>>]
  BY DEF RedisCounts
<1> DEFINE y == <<"redis", k, w>>
           Kept == /\ passed[y] <= counter[<<k, w>>]
                   /\ counter[<<k, w>>] <= asked[y]
           Goal == /\ passed'[y] <= counter'[<<k, w>>]
                   /\ counter'[<<k, w>>] <= asked'[y]
<1>a. /\ y \in Counters /\ <<k, w>> \in Keys \X Windows
      /\ asked[y] \in Nat /\ passed[y] \in Nat /\ counter[<<k, w>>] \in Nat
      /\ w \in Nat /\ window \in Nat
  BY CounterTypes
<1>0. window <= w + 1 => Kept
  BY DEF RedisCounts
<1>1. ASSUME NEW r \in Requests, NEW j \in Keys, Arrive(r, j) PROVE Goal
  BY <1>0, <1>1 DEF Arrive
<1>2. ASSUME NEW r \in Requests, Increment(r) PROVE Goal
  <2> DEFINE x == <<serving[r].key, serving[r].window>>
             z == <<"redis", serving[r].key, serving[r].window>>
  <2>1. x \in Keys \X Windows /\ z \in Counters
    BY <1>2, RedisRequest DEF Increment
  <2>2. Kept
    BY <1>0, <1>2 DEF Increment
  <2>3. /\ counter'[x] = counter[x] + 1
        /\ counter'[x] \in Nat
        /\ \A v \in Keys \X Windows : v # x => counter'[v] = counter[v]
    BY <1>2, <2>1 DEF Increment, TypeOK
  <2>4. Answer(z, counter'[x])
    BY <1>2 DEF Increment
  <2>5. CASE <<k, w>> = x
    <3>1. y = z
      BY <2>5
    <3>2. asked'[y] = asked[y] + 1 /\ passed'[y] \in {passed[y], passed[y] + 1}
      BY <2>1, <2>3, <2>4, <3>1, AnswerEffect
    <3>3. counter'[<<k, w>>] = counter[<<k, w>>] + 1
      BY <2>3, <2>5
    <3> HIDE DEF x, y, z
    <3>4. QED
      BY <1>a, <2>2, <3>2, <3>3
  <2>6. CASE <<k, w>> # x
    <3>1. y # z
      BY <2>6
    <3>2. asked'[y] = asked[y] /\ passed'[y] = passed[y]
      BY <1>a, <2>1, <2>3, <2>4, <3>1, AnswerEffect
    <3>3. counter'[<<k, w>>] = counter[<<k, w>>]
      BY <1>a, <2>3, <2>6
    <3>4. QED
      BY <2>2, <3>2, <3>3
  <2>7. QED
    BY <2>5, <2>6
<1>3. ASSUME NEW r \in Requests, IncrementFails(r) PROVE Goal
  <2> DEFINE x == <<serving[r].key, serving[r].window>>
             z == <<"redis", serving[r].key, serving[r].window>>
  <2>1. x \in Keys \X Windows /\ z \in Counters
    BY <1>3, RedisRequest DEF IncrementFails
  <2>2. Kept
    BY <1>0, <1>3 DEF IncrementFails
  <2>3. /\ counter'[x] \in {counter[x], counter[x] + 1}
        /\ \A v \in Keys \X Windows : v # x => counter'[v] = counter[v]
        /\ asked'[z] = asked[z] + 1
        /\ \A v \in Counters : v # z => asked'[v] = asked[v]
        /\ passed' = passed
    BY <1>3, <2>1 DEF IncrementFails, TypeOK
  <2>4. CASE <<k, w>> = x
    <3>1. y = z
      BY <2>4
    <3>2. asked'[y] = asked[y] + 1
      BY <2>3, <3>1
    <3>3. counter'[<<k, w>>] \in {counter[<<k, w>>], counter[<<k, w>>] + 1}
      BY <2>3, <2>4
    <3>4. passed'[y] = passed[y]
      BY <2>3
    <3> HIDE DEF x, y, z
    <3>5. QED
      BY <1>a, <2>2, <3>2, <3>3, <3>4
  <2>5. CASE <<k, w>> # x
    <3>1. y # z
      BY <2>5
    <3>2. asked'[y] = asked[y] /\ passed'[y] = passed[y]
      BY <1>a, <2>3, <3>1
    <3>3. counter'[<<k, w>>] = counter[<<k, w>>]
      BY <1>a, <2>3, <2>5
    <3>4. QED
      BY <2>2, <3>2, <3>3
  <2>6. QED
    BY <2>4, <2>5
<1>4. ASSUME NEW r \in Requests, IncrementLocal(r) PROVE Goal
  <2> DEFINE z == <<"local", serving[r].key, window>>
  <2>1. y # z
    OBVIOUS
  <2>2. /\ z \in Counters
        /\ Held(serving[r].key) + 1 \in Nat
        /\ Answer(z, Held(serving[r].key) + 1)
    BY <1>4, LocalRequest
  <2>3. asked'[y] = asked[y] /\ passed'[y] = passed[y]
    BY <1>a, <2>1, <2>2, AnswerEffect
  <2>4. QED
    BY <1>0, <1>4, <2>3 DEF IncrementLocal
<1>5. CASE Tick
  <2>1. window <= w + 1 /\ ~(w < window)
    <3>1. window' = window + 1
      BY <1>5 DEF Tick
    <3>2. QED
      BY <1>a, <3>1
  <2>2. y[3] = w
    OBVIOUS
  <2>3. asked'[y] = asked[y] /\ passed'[y] = passed[y]
    BY <1>a, <1>5, <2>1, <2>2 DEF Tick
  <2>4. QED
    BY <1>0, <1>5, <2>1, <2>3 DEF Tick
<1>6. ASSUME NEW x \in Keys \X Windows, Expire(x) PROVE Goal
  <2>1. window' = window /\ x[2] + 2 <= window
    BY <1>6 DEF Expire
  <2>2. x # <<k, w>>
    <3>1. CASE x = <<k, w>>
      <4>1. x[2] = w
        BY <3>1
      <4>2. QED
        BY <1>a, <2>1, <4>1
    <3>2. QED
      BY <3>1
  <2>3. counter'[<<k, w>>] = counter[<<k, w>>]
    BY <1>a, <1>6, <2>2 DEF Expire, TypeOK
  <2>4. QED
    BY <1>0, <1>6, <2>1, <2>3 DEF Expire
<1>7. CASE UNCHANGED vars
  BY <1>0, <1>7 DEF vars
<1>8. QED
  BY <1>1, <1>2, <1>3, <1>4, <1>5, <1>6, <1>7 DEF Next

\* A request answered by the local map leaves the count in its bucket and the
\* other buckets of the minute as they are.
LEMMA HeldAfter ==
    ASSUME TypeOK, NEW r \in Requests, IncrementLocal(r), NEW k \in Keys
    PROVE  Held(k)' = IF k = serving[r].key THEN Held(k) + 1 ELSE Held(k)
<1> DEFINE j == serving[r].key
<1>1. window' = window
  BY DEF IncrementLocal
<1>2. CASE k = j
  <2>1. k \in DOMAIN local' /\ local'[k] = [window |-> window, count |-> Held(k) + 1]
    BY <1>2, LocalAfter
  <2>2. Held(k)' = local'[k].count
    BY <1>1, <2>1 DEF Held
  <2>3. QED
    BY <1>2, <2>1, <2>2
<1>3. CASE k # j
  <2>1. CASE k \in DOMAIN local /\ local[k].window = window
    <3>1. k \in DOMAIN local' /\ local'[k] = local[k]
      BY <1>3, <2>1, CleanedKeeps, LocalAfter
    <3>2. QED
      BY <1>1, <1>3, <2>1, <3>1 DEF Held
  <2>2. CASE ~(k \in DOMAIN local /\ local[k].window = window)
    <3>1. ~(k \in DOMAIN local' /\ local'[k].window = window)
      BY <1>3, <2>2, LocalAfter
    <3>2. QED
      BY <1>1, <1>3, <2>2, <3>1 DEF Held
  <2>3. QED
    BY <2>1, <2>2
<1>4. QED
  BY <1>2, <1>3

\* What Redis answers or fails to answer changes nothing of a local counter.
LEMMA RedisLeavesLocal ==
    ASSUME TypeOK, RequestsAreRecent, NEW r \in Requests,
           Increment(r) \/ IncrementFails(r),
           NEW k \in Keys, NEW w \in Windows
    PROVE  /\ window' = window /\ local' = local
           /\ asked'[<<"local", k, w>>] = asked[<<"local", k, w>>]
           /\ passed'[<<"local", k, w>>] = passed[<<"local", k, w>>]
<1> DEFINE y == <<"local", k, w>>
           x == <<serving[r].key, serving[r].window>>
           z == <<"redis", serving[r].key, serving[r].window>>
<1>1. x \in Keys \X Windows /\ z \in Counters /\ y \in Counters /\ y # z
  BY RedisRequest, CounterTypes DEF Increment, IncrementFails
<1>2. CASE Increment(r)
  <2>1. Answer(z, counter'[x])
    BY <1>2 DEF Increment
  <2>2. counter'[x] \in Nat
    BY <1>1, <1>2 DEF Increment, TypeOK
  <2>3. asked'[y] = asked[y] /\ passed'[y] = passed[y]
    BY <1>1, <2>1, <2>2, AnswerEffect
  <2>4. QED
    BY <1>2, <2>3 DEF Increment
<1>3. CASE IncrementFails(r)
  <2>1. asked'[y] = asked[y]
    BY <1>1, <1>3 DEF IncrementFails, TypeOK
  <2>2. QED
    BY <1>3, <2>1 DEF IncrementFails
<1>4. QED
  BY <1>2, <1>3

LEMMA NextLocalCounts ==
    ASSUME TypeOK, RequestsAreRecent, LocalCounts, NothingAhead, [Next]_vars
    PROVE  LocalCounts' /\ NothingAhead'
<1>0. window \in Windows /\ window \in Nat
  BY DEF TypeOK, Windows
<1>1. ASSUME NEW r \in Requests, NEW j \in Keys, Arrive(r, j)
      PROVE  LocalCounts' /\ NothingAhead'
  BY <1>1 DEF Arrive, LocalCounts, NothingAhead, Held
<1>2. ASSUME NEW r \in Requests, Increment(r) \/ IncrementFails(r)
      PROVE  LocalCounts' /\ NothingAhead'
  <2>1. window' = window /\ local' = local
    BY <1>2 DEF Increment, IncrementFails
  <2>2. \A k \in Keys, w \in Windows :
           /\ asked'[<<"local", k, w>>] = asked[<<"local", k, w>>]
           /\ passed'[<<"local", k, w>>] = passed[<<"local", k, w>>]
    BY <1>2, RedisLeavesLocal
  <2>3. QED
    BY <1>0, <2>1, <2>2 DEF LocalCounts, NothingAhead, Held
<1>3. ASSUME NEW r \in Requests, IncrementLocal(r)
      PROVE  LocalCounts' /\ NothingAhead'
  <2> DEFINE j == serving[r].key
             z == <<"local", j, window>>
  <2>a. window' = window
    BY <1>3 DEF IncrementLocal
  <2>b. j \in Keys /\ z \in Counters /\ Held(j) \in Nat /\ Answer(z, Held(j) + 1)
    BY <1>3, LocalRequest
  <2>1. /\ j \in Keys /\ z \in Counters
        /\ Held(j) + 1 \in Nat
        /\ Answer(z, Held(j) + 1)
        /\ window' = window
    BY <2>a, <2>b
  <2>2. /\ asked'[z] = asked[z] + 1
        /\ passed'[z] \in {passed[z], passed[z] + 1}
        /\ \A y \in Counters : y # z => /\ asked'[y] = asked[y]
                                        /\ passed'[y] = passed[y]
    BY <2>1, AnswerEffect
  <2>3. ASSUME NEW k \in Keys
        PROVE  /\ asked'[<<"local", k, window>>] = Held(k)'
               /\ passed'[<<"local", k, window>>] <= Held(k)'
    <3> DEFINE y == <<"local", k, window>>
    <3>1. /\ y \in Counters /\ asked[y] = Held(k) /\ passed[y] <= Held(k)
          /\ passed[y] \in Nat /\ Held(k) \in Nat
      BY <1>0, CounterTypes, CountOfHeld DEF LocalCounts
    <3>2. CASE k = j
      <4>1. Held(k)' = Held(k) + 1
        BY <1>3, <3>2, HeldAfter
      <4>2. asked'[y] = asked[y] + 1 /\ passed'[y] \in {passed[y], passed[y] + 1}
        BY <2>2, <3>2
      <4> HIDE DEF y
      <4>3. QED
        BY <3>1, <4>1, <4>2 DEF y
    <3>3. CASE k # j
      <4>1. Held(k)' = Held(k)
        BY <1>3, <3>3, HeldAfter
      <4>2. y # z
        BY <3>3
      <4>3. asked'[y] = asked[y] /\ passed'[y] = passed[y]
        BY <2>2, <3>1, <4>2
      <4>4. QED
        BY <3>1, <4>1, <4>3
    <3>4. QED
      BY <3>2, <3>3
  <2>4. ASSUME NEW k \in Keys, NEW w \in Windows, w > window
        PROVE  /\ asked'[<<"local", k, w>>] = 0
               /\ passed'[<<"local", k, w>>] = 0
    <3> DEFINE y == <<"local", k, w>>
    <3>1. y \in Counters /\ asked[y] = 0 /\ passed[y] = 0
      BY <2>4, CounterTypes DEF NothingAhead
    <3>2. w # window
      BY <1>0, <2>4, CounterTypes
    <3>3. y # z
      BY <3>2
    <3>4. QED
      BY <2>2, <3>1, <3>3
  <2>5. QED
    BY <2>1, <2>3, <2>4 DEF LocalCounts, NothingAhead
<1>4. CASE Tick
  <2>1. window' = window + 1 /\ window' \in Windows /\ window' > window /\ local' = local
    BY <1>0, <1>4 DEF Tick, Windows
  <2>2. ASSUME NEW k \in Keys, NEW w \in Windows, w > window
        PROVE  /\ asked'[<<"local", k, w>>] = 0
               /\ passed'[<<"local", k, w>>] = 0
    <3> DEFINE y == <<"local", k, w>>
    <3>1. y \in Counters /\ asked[y] = 0 /\ passed[y] = 0
      BY <2>2, CounterTypes DEF NothingAhead
    <3>2. QED
      BY <1>4, <3>1 DEF Tick
  <2>3. ASSUME NEW k \in Keys PROVE Held(k)' = 0
    <3>1. k \in DOMAIN local => local[k].window <= window /\ local[k].window \in Nat
      BY DEF TypeOK, Bucket, Windows
    <3>2. k \in DOMAIN local => local[k].window # window'
      BY <1>0, <2>1, <3>1
    <3>3. QED
      BY <2>1, <3>2 DEF Held
  <2>4. ASSUME NEW k \in Keys, NEW w \in Windows, w > window'
        PROVE  /\ asked'[<<"local", k, w>>] = 0
               /\ passed'[<<"local", k, w>>] = 0
    <3>1. w > window
      BY <1>0, <2>1, <2>4 DEF Windows
    <3>2. QED
      BY <2>2, <3>1
  <2>5. ASSUME NEW k \in Keys
        PROVE  /\ asked'[<<"local", k, window'>>] = 0
               /\ passed'[<<"local", k, window'>>] = 0
    BY <2>1, <2>2
  <2>6. LocalCounts'
    <3>1. ASSUME NEW k \in Keys
          PROVE  /\ asked'[<<"local", k, window'>>] = Held(k)'
                 /\ passed'[<<"local", k, window'>>] <= Held(k)'
      BY <2>3, <2>5
    <3>2. QED
      BY <3>1 DEF LocalCounts
  <2>7. QED
    BY <2>4, <2>6 DEF NothingAhead
<1>5. CASE (\E x \in Keys \X Windows : Expire(x)) \/ UNCHANGED vars
  BY <1>5 DEF Expire, vars, LocalCounts, NothingAhead, Held
<1>6. QED
  BY <1>1, <1>2, <1>3, <1>4, <1>5 DEF Next

\* The map of the process is finite.
LEMMA NextFinite ==
    ASSUME TypeOK, IsFiniteSet(DOMAIN local), [Next]_vars
    PROVE  IsFiniteSet(DOMAIN local')
<1>1. ASSUME NEW r \in Requests, IncrementLocal(r)
      PROVE  IsFiniteSet(DOMAIN local')
  <2>1. DOMAIN local' \subseteq DOMAIN local \cup {serving[r].key}
    BY <1>1, LocalAfter, CleanedKeeps
  <2>2. IsFiniteSet(DOMAIN local \cup {serving[r].key})
    BY FS_AddElement
  <2>3. QED
    BY <2>1, <2>2, FS_Subset
<1>2. CASE ~\E r \in Requests : IncrementLocal(r)
  <2>1. local' = local
    BY <1>2 DEF Next, vars, Arrive, Increment, IncrementFails, Tick, Expire
  <2>2. QED
    BY <2>1
<1>3. QED
  BY <1>1, <1>2

LEMMA InitInv == Init => LimiterInv
<1> SUFFICES ASSUME Init PROVE LimiterInv
  OBVIOUS
<1>1. TypeOK
  BY InitType
<1>2. IsFiniteSet(DOMAIN local)
  <2>1. DOMAIN local = {}
    BY DEF Init
  <2>2. QED
    BY <2>1, FS_EmptySet
<1>3. RequestsAreRecent
  BY DEF Init, RequestsAreRecent
<1>4. ASSUME NEW k \in Keys, NEW w \in Windows
      PROVE  /\ asked[<<"redis", k, w>>] = 0 /\ passed[<<"redis", k, w>>] = 0
             /\ asked[<<"local", k, w>>] = 0 /\ passed[<<"local", k, w>>] = 0
             /\ counter[<<k, w>>] = 0
             /\ Held(k) = 0
  <2>1. /\ <<"redis", k, w>> \in Counters /\ <<"local", k, w>> \in Counters
        /\ <<k, w>> \in Keys \X Windows
    BY <1>1, CounterTypes
  <2>2. QED
    BY <2>1 DEF Init, Held
<1>5. RedisCounts
  <2> SUFFICES ASSUME NEW k \in Keys, NEW w \in Windows
               PROVE  /\ passed[<<"redis", k, w>>] <= counter[<<k, w>>]
                      /\ counter[<<k, w>>] <= asked[<<"redis", k, w>>]
    BY DEF RedisCounts
  <2>1. /\ asked[<<"redis", k, w>>] = 0 /\ passed[<<"redis", k, w>>] = 0
        /\ counter[<<k, w>>] = 0
    BY <1>4
  <2>2. QED
    BY <2>1
<1>6. window \in Windows
  BY <1>1 DEF TypeOK
<1>7. LocalCounts /\ NothingAhead
  <2>1. ASSUME NEW k \in Keys
        PROVE  /\ asked[<<"local", k, window>>] = Held(k)
               /\ passed[<<"local", k, window>>] <= Held(k)
    <3>1. /\ asked[<<"local", k, window>>] = 0 /\ passed[<<"local", k, window>>] = 0
          /\ Held(k) = 0
      BY <1>4, <1>6
    <3>2. QED
      BY <3>1
  <2>2. LocalCounts
    BY <2>1 DEF LocalCounts
  <2>3. NothingAhead
    BY <1>4 DEF NothingAhead
  <2>4. QED
    BY <2>2, <2>3
<1>8. QED
  BY <1>1, <1>2, <1>3, <1>5, <1>7 DEF LimiterInv

LEMMA NextInv == LimiterInv /\ [Next]_vars => LimiterInv'
  BY NextType, NextRecent, NextRedisCounts, NextLocalCounts, NextFinite DEF LimiterInv

LEMMA Inductive == Spec => []LimiterInv
  BY InitInv, NextInv, PTL DEF Spec

------------------------------------------------------------------------------
\* The budget.

\* A counter that gives a count above the limit lets nothing pass, and one
\* that gives a lower count has let fewer requests pass than that count.
LEMMA BudgetKept ==
    ASSUME TypeOK, WithinBudget, NEW x \in Counters, NEW count \in Nat,
           Answer(x, count), passed[x] + 1 <= count
    PROVE  WithinBudget'
<1> SUFFICES ASSUME NEW y \in Counters PROVE passed'[y] <= Limit
  BY DEF WithinBudget
<1>1. passed[y] \in Nat /\ passed[y] <= Limit
  BY DEF TypeOK, WithinBudget
<1>2. CASE y # x
  BY <1>1, <1>2, AnswerEffect
<1>3. CASE y = x
  <2>1. passed'[y] = IF count > Limit THEN passed[y] ELSE passed[y] + 1
    BY <1>3, AnswerEffect
  <2>2. passed[y] + 1 <= count
    BY <1>3
  <2>3. QED
    BY <1>1, <2>1, <2>2
<1>4. QED
  BY <1>2, <1>3

LEMMA NextBudget ==
    ASSUME LimiterInv, WithinBudget, [Next]_vars
    PROVE  WithinBudget'
<1> USE DEF LimiterInv
<1>1. ASSUME NEW r \in Requests, Increment(r) PROVE WithinBudget'
  <2> DEFINE k == serving[r].key
             w == serving[r].window
  <2>1. k \in Keys /\ w \in Windows /\ window <= w + 1
    BY <1>1, BusyRequest DEF Increment, RequestsAreRecent
  <2>2. /\ <<"redis", k, w>> \in Counters /\ <<k, w>> \in Keys \X Windows
        /\ passed[<<"redis", k, w>>] <= counter[<<k, w>>]
        /\ passed[<<"redis", k, w>>] \in Nat /\ counter[<<k, w>>] \in Nat
    BY <2>1, CounterTypes DEF RedisCounts
  <2>3. counter'[<<k, w>>] = counter[<<k, w>>] + 1
    BY <1>1, <2>2 DEF Increment, TypeOK
  <2>4. Answer(<<"redis", k, w>>, counter'[<<k, w>>])
    BY <1>1 DEF Increment
  <2>5. passed[<<"redis", k, w>>] + 1 <= counter'[<<k, w>>]
        /\ counter'[<<k, w>>] \in Nat
    BY <2>2, <2>3
  <2>6. QED
    BY <2>2, <2>4, <2>5, BudgetKept
<1>2. ASSUME NEW r \in Requests, IncrementLocal(r) PROVE WithinBudget'
  <2> DEFINE k == serving[r].key
             z == <<"local", k, window>>
  <2>1. /\ k \in Keys /\ z \in Counters /\ Held(k) \in Nat
        /\ Answer(z, Held(k) + 1)
        /\ window \in Windows
    BY <1>2, LocalRequest DEF TypeOK
  <2>2. passed[z] <= Held(k) /\ passed[z] \in Nat
    BY <2>1, CounterTypes DEF LocalCounts
  <2>3. passed[z] + 1 <= Held(k) + 1 /\ Held(k) + 1 \in Nat
    BY <2>1, <2>2
  <2>4. QED
    BY <2>1, <2>3, BudgetKept
<1>3. CASE Tick
  BY <1>3 DEF Tick, WithinBudget
<1>4. CASE ~Tick /\ ~\E r \in Requests : Increment(r) \/ IncrementLocal(r)
  <2>1. passed' = passed
    BY <1>4 DEF Next, vars, Arrive, IncrementFails, Expire
  <2>2. QED
    BY <2>1 DEF WithinBudget
<1>5. QED
  BY <1>1, <1>2, <1>3, <1>4

\* For any limit, number of clients and requests, and whatever Redis loses:
\* in one minute a counter lets at most Limit requests of a key pass.
THEOREM BudgetHolds == Spec => []WithinBudget
<1>1. Init => WithinBudget
  BY DEF Init, WithinBudget
<1>2. LimiterInv /\ WithinBudget /\ [Next]_vars => WithinBudget'
  BY NextBudget
<1>3. QED
  BY <1>1, <1>2, Inductive, PTL DEF Spec

------------------------------------------------------------------------------
\* Refusals.

LEMMA ReasonKept ==
    ASSUME TypeOK, RefusedWithReason, NEW x \in Counters, NEW count \in Nat,
           Answer(x, count), count <= asked[x] + 1
    PROVE  RefusedWithReason'
<1> SUFFICES ASSUME NEW y \in refused' PROVE asked'[y] > Limit
  BY DEF RefusedWithReason
<1>1. /\ asked'[x] = asked[x] + 1
      /\ refused' = IF count > Limit THEN refused \cup {x} ELSE refused
      /\ \A z \in Counters : z # x => asked'[z] = asked[z]
      /\ asked[x] \in Nat
  BY AnswerEffect DEF TypeOK
<1>2. CASE y \in refused
  <2>1. y \in Counters /\ asked[y] > Limit /\ asked[y] \in Nat
    BY <1>2 DEF TypeOK, RefusedWithReason
  <2>2. asked'[y] \in {asked[y], asked[y] + 1}
    BY <1>1, <2>1
  <2>3. QED
    BY <2>1, <2>2
<1>3. CASE y \notin refused
  <2>1. y = x /\ count > Limit
    BY <1>1, <1>3
  <2>2. asked'[y] = asked[x] + 1
    BY <1>1, <2>1
  <2>3. QED
    BY <1>1, <2>1, <2>2
<1>4. QED
  BY <1>2, <1>3

LEMMA NextReason ==
    ASSUME LimiterInv, RefusedWithReason, [Next]_vars
    PROVE  RefusedWithReason'
<1> USE DEF LimiterInv
<1>1. ASSUME NEW r \in Requests, Increment(r) PROVE RefusedWithReason'
  <2> DEFINE k == serving[r].key
             w == serving[r].window
  <2>1. k \in Keys /\ w \in Windows /\ window <= w + 1
    BY <1>1, BusyRequest DEF Increment, RequestsAreRecent
  <2>2. /\ <<"redis", k, w>> \in Counters /\ <<k, w>> \in Keys \X Windows
        /\ counter[<<k, w>>] <= asked[<<"redis", k, w>>]
        /\ asked[<<"redis", k, w>>] \in Nat /\ counter[<<k, w>>] \in Nat
    BY <2>1, CounterTypes DEF RedisCounts
  <2>3. counter'[<<k, w>>] = counter[<<k, w>>] + 1
    BY <1>1, <2>2 DEF Increment, TypeOK
  <2>4. Answer(<<"redis", k, w>>, counter'[<<k, w>>])
    BY <1>1 DEF Increment
  <2>5. /\ counter'[<<k, w>>] <= asked[<<"redis", k, w>>] + 1
        /\ counter'[<<k, w>>] \in Nat
    BY <2>2, <2>3
  <2>6. QED
    BY <2>2, <2>4, <2>5, ReasonKept
<1>2. ASSUME NEW r \in Requests, IncrementLocal(r) PROVE RefusedWithReason'
  <2> DEFINE k == serving[r].key
             z == <<"local", k, window>>
  <2>1. /\ k \in Keys /\ z \in Counters /\ Held(k) \in Nat
        /\ Answer(z, Held(k) + 1)
    BY <1>2, LocalRequest
  <2>2. asked[z] = Held(k)
    BY <2>1 DEF LocalCounts
  <2>3. Held(k) + 1 <= asked[z] + 1 /\ Held(k) + 1 \in Nat
    BY <2>1, <2>2
  <2>4. QED
    BY <2>1, <2>3, ReasonKept
<1>3. ASSUME NEW r \in Requests, IncrementFails(r) PROVE RefusedWithReason'
  <2> DEFINE z == <<"redis", serving[r].key, serving[r].window>>
  <2>1. z \in Counters
    BY <1>3, RedisRequest DEF IncrementFails
  <2>2. /\ refused' = refused
        /\ \A y \in Counters : asked'[y] \in {asked[y], asked[y] + 1}
    BY <1>3, <2>1 DEF IncrementFails, TypeOK
  <2>3. ASSUME NEW y \in refused PROVE asked'[y] > Limit
    <3>1. y \in Counters /\ asked[y] > Limit /\ asked[y] \in Nat
      BY DEF TypeOK, RefusedWithReason
    <3>2. asked'[y] \in {asked[y], asked[y] + 1}
      BY <2>2, <3>1
    <3>3. QED
      BY <3>1, <3>2
  <2>4. QED
    BY <2>2, <2>3 DEF RefusedWithReason
<1>4. CASE Tick
  <2>1. ASSUME NEW y \in refused' PROVE asked'[y] > Limit
    <3>1. y \in refused /\ y \in Counters /\ y[3] >= window
      BY <1>4 DEF Tick, TypeOK
    <3>2. ~(y[3] < window)
      BY <3>1 DEF Counters, Windows, TypeOK
    <3>3. asked'[y] = asked[y]
      BY <1>4, <3>1, <3>2 DEF Tick
    <3>4. QED
      BY <3>1, <3>3 DEF RefusedWithReason
  <2>2. QED
    BY <2>1 DEF RefusedWithReason
<1>5. ASSUME ~Tick,
             ~\E r \in Requests : Increment(r) \/ IncrementLocal(r) \/ IncrementFails(r)
      PROVE  RefusedWithReason'
  <2>1. asked' = asked /\ refused' = refused
    BY <1>5 DEF Next, vars, Arrive, Expire
  <2>2. QED
    BY <2>1 DEF RefusedWithReason
<1>6. QED
  BY <1>1, <1>2, <1>3, <1>4, <1>5

\* Neither what Redis lost nor a bucket of an earlier minute is held against a
\* client: who is refused had asked more than Limit times in that minute.
THEOREM RefusalsHaveAReason == Spec => []RefusedWithReason
<1>1. Init => RefusedWithReason
  BY DEF Init, RefusedWithReason
<1>2. LimiterInv /\ RefusedWithReason /\ [Next]_vars => RefusedWithReason'
  BY NextReason
<1>3. QED
  BY <1>1, <1>2, Inductive, PTL DEF Spec

------------------------------------------------------------------------------
\* The size of the local map.

\* The buckets of the map that are older than w.
Older(buckets, w) == {k \in DOMAIN buckets : buckets[k].window < w}

LEMMA StaleAfter ==
    ASSUME TypeOK, IsFiniteSet(DOMAIN local), NEW r \in Requests, IncrementLocal(r)
    PROVE  /\ IsFiniteSet(Older(local', window))
           /\ Cardinality(Older(local', window)) < Threshold
<1> DEFINE j == serving[r].key
           old == Older(local', window)
<1>1. window \in Nat
  BY DEF TypeOK, Windows
<1>2. ASSUME NEW k \in old
      PROVE  k # j /\ k \in DOMAIN Cleaned(local) /\ Cleaned(local)[k].window < window
  <2>1. k \in DOMAIN local' /\ local'[k].window < window
    BY DEF Older
  <2>2. local'[j].window = window
    <3>1. local'[j] = [window |-> window, count |-> Held(j) + 1]
      BY LocalAfter
    <3>2. QED
      BY <3>1
  <2>3. k # j
    BY <1>1, <2>1, <2>2
  <2>4. k \in DOMAIN Cleaned(local)
    BY <2>1, <2>3, LocalAfter
  <2>5. local'[k] = local[k] /\ Cleaned(local)[k] = local[k]
    BY <2>1, <2>3, <2>4, LocalAfter, CleanedKeeps
  <2>6. QED
    BY <2>1, <2>3, <2>4, <2>5
<1>3. CASE Cardinality(DOMAIN local) < Threshold
  <2>1. old \subseteq DOMAIN local
    BY <1>2, CleanedKeeps
  <2>2. /\ IsFiniteSet(old)
        /\ Cardinality(old) <= Cardinality(DOMAIN local)
    BY <2>1, FS_Subset
  <2>3. Cardinality(old) \in Nat /\ Cardinality(DOMAIN local) \in Nat
    BY <2>2, FS_CardinalityType
  <2> HIDE DEF old
  <2>4. QED
    BY <1>3, <2>2, <2>3 DEF old
<1>4. CASE ~(Cardinality(DOMAIN local) < Threshold)
  <2>1. \A k \in DOMAIN Cleaned(local) :
           Cleaned(local)[k] = local[k] /\ local[k].window >= window
    BY <1>4 DEF Cleaned
  <2>2. \A k \in DOMAIN Cleaned(local) : local[k].window \in Nat
    BY CleanedKeeps DEF TypeOK, Bucket, Windows
  <2>3. old = {}
    BY <1>1, <1>2, <2>1, <2>2
  <2>4. IsFiniteSet(old) /\ Cardinality(old) = 0
    BY <2>3, FS_EmptySet
  <2>5. QED
    BY <2>4
<1>5. QED
  BY <1>3, <1>4

LEMMA NextStale ==
    ASSUME LimiterInv, StaleBucketsBounded, [Next]_vars
    PROVE  StaleBucketsBounded'
<1> USE DEF LimiterInv
<1>1. ASSUME NEW r \in Requests, IncrementLocal(r) PROVE StaleBucketsBounded'
  <2> DEFINE old == Older(local', window)
  <2>1. IsFiniteSet(old) /\ Cardinality(old) < Threshold
    BY <1>1, StaleAfter
  <2>2. TypeOK' /\ window' = window
    BY <1>1, IncrementLocalTypes DEF IncrementLocal
  <2> SUFFICES ASSUME NEW newest \in DOMAIN local'
               PROVE  Cardinality({k \in DOMAIN local' :
                          local'[k].window < local'[newest].window}) < Threshold
    BY DEF StaleBucketsBounded
  <2> DEFINE stale == {k \in DOMAIN local' : local'[k].window < local'[newest].window}
  <2>3. stale \subseteq old
    <3>1. \A k \in DOMAIN local' : local'[k].window \in Nat /\ local'[k].window <= window
      BY <2>2 DEF TypeOK, Bucket, Windows
    <3>2. window \in Nat
      BY DEF TypeOK, Windows
    <3>3. QED
      BY <3>1, <3>2 DEF Older
  <2>4. IsFiniteSet(stale) /\ Cardinality(stale) <= Cardinality(old)
    BY <2>1, <2>3, FS_Subset
  <2>5. Cardinality(stale) \in Nat /\ Cardinality(old) \in Nat
    BY <2>1, <2>4, FS_CardinalityType
  <2> HIDE DEF stale, old
  <2>6. Cardinality(stale) < Threshold
    BY <2>1, <2>4, <2>5
  <2>7. QED
    BY <2>6 DEF stale
<1>2. CASE ~\E r \in Requests : IncrementLocal(r)
  <2>1. local' = local
    BY <1>2 DEF Next, vars, Arrive, Increment, IncrementFails, Tick, Expire
  <2>2. QED
    BY <2>1 DEF StaleBucketsBounded
<1>3. QED
  BY <1>1, <1>2

\* However many clients there are, the buckets of earlier minutes that the
\* process keeps are fewer than the threshold its map is cleaned at.
THEOREM StaleBucketsStayFew == Spec => []StaleBucketsBounded
<1>1. Init => StaleBucketsBounded
  BY DEF Init, StaleBucketsBounded
<1>2. LimiterInv /\ StaleBucketsBounded /\ [Next]_vars => StaleBucketsBounded'
  BY NextStale
<1>3. QED
  BY <1>1, <1>2, Inductive, PTL DEF Spec
===============================================================================
