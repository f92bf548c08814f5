------------------------- MODULE RateLimiterProofs -------------------------
(***************************************************************************)
(* What the token buckets promise, proved for every limit, every fineness  *)
(* of the clock, and any number of tenants and requests.                   *)
(***************************************************************************)
EXTENDS RateLimiter, TLAPS

(***************************************************************************)
(* The inductive invariant.                                                *)
(***************************************************************************)

\* Nothing is remembered from the future.
ClockInv ==
  /\ mark.at <= now
  /\ \A t \in Callers : buckets[t] # NoBucket => buckets[t].lastRefill <= now

\* A request past Allow's first half has a bucket; one that was granted, or
\* asks what is left, finds its bucket short of full.
HandInv ==
  \A r \in Requests :
    /\ At(r, "take") \/ At(r, "report") =>
         request[r].tenant \in Callers /\ buckets[request[r].tenant] # NoBucket
    /\ At(r, "report") => buckets[request[r].tenant].tokens < Full
    /\ At(r, "next") /\ request[r].tenant # NoTenant => request[r].remaining < Limit

\* Since the window began a tenant has taken nothing, or what it took and what
\* is left together are a full bucket and the refill up to its last use.
QuotaInv ==
  \A t \in Callers :
    \/ spent[t] = mark.spent[t]
    \/ /\ buckets[t] # NoBucket
       /\ mark.at <= buckets[t].lastRefill
       /\ spent[t] - mark.spent[t] + buckets[t].tokens
            <= Full + Limit * (buckets[t].lastRefill - mark.at)

IInv == TypeOK /\ ClockInv /\ HandInv /\ QuotaInv

(***************************************************************************)
(* Arithmetic.                                                             *)
(***************************************************************************)

\* A token is worth something, and a full bucket at least a token.
LEMMA Amounts ==
  /\ Token \in Nat /\ Token > 0
  /\ Full \in Nat /\ Full >= Token /\ Full = Limit * Token
<1>1. /\ MsPerMinute \in Nat /\ MsPerMinute > 0
      /\ TicksPerMs \in Nat /\ TicksPerMs > 0
      /\ Limit \in Nat /\ Limit >= 1
  BY RateLimiterAssumption
<1>2. Token \in Nat /\ Token > 0
  BY <1>1 DEF Token
<1>3. Limit * Token \in Nat /\ Limit * Token >= Token
  BY <1>1, <1>2
<1> QED
  BY <1>2, <1>3 DEF Full

\* Larger factors make larger products.
LEMMA TimesMonotone ==
  ASSUME NEW k \in Nat, NEW a \in Int, NEW b \in Int, a <= b
  PROVE  k * a \in Int /\ k * b \in Int /\ k * a <= k * b
OBVIOUS

\* The refill of two spans is the refill of both.
LEMMA TimesAdd ==
  ASSUME NEW k \in Nat, NEW a \in Int, NEW b \in Int
  PROVE  k * (a + b) = k * a + k * b
OBVIOUS

\* Elapsed rounds down, by less than a millisecond.
LEMMA ElapsedBounds ==
  ASSUME NEW b \in Bucket, now \in Nat, b.lastRefill <= now
  PROVE  /\ Elapsed(b) \in Nat
         /\ TicksPerMs * Elapsed(b) \in Nat
         /\ TicksPerMs * Elapsed(b) <= now - b.lastRefill
         /\ now - b.lastRefill < TicksPerMs * Elapsed(b) + TicksPerMs
<1> DEFINE d == now - b.lastRefill
           q == d \div TicksPerMs
<1>1. d \in Nat /\ TicksPerMs \in Nat /\ TicksPerMs > 0
  BY RateLimiterAssumption DEF Bucket
<1>2. q \in Nat /\ TicksPerMs * q <= d /\ d < TicksPerMs * (q + 1)
  BY <1>1
<1>3. TicksPerMs * q \in Nat /\ TicksPerMs * (q + 1) = TicksPerMs * q + TicksPerMs
  BY <1>1, <1>2
<1> QED
  BY <1>1, <1>2, <1>3 DEF Elapsed

\* Take's refill never adds more than the limit's rate, never less than that
\* for all but a millisecond, and never beyond a full bucket.
LEMMA RefilledBounds ==
  ASSUME NEW b \in Bucket, now \in Nat, b.lastRefill <= now
  PROVE  /\ Refilled(b) \in 0..Full
         /\ Refilled(b) <= b.tokens + Limit * (now - b.lastRefill)
         /\ Refilled(b) = Full \/ Limit * (now - b.lastRefill) < Refilled(b) + Limit * TicksPerMs
<1> DEFINE d == now - b.lastRefill
           e == TicksPerMs * Elapsed(b)
<1>0. e \in Nat /\ e <= d /\ d < e + TicksPerMs
  BY ElapsedBounds
<1>1. e \in Nat /\ e <= d /\ d + 1 <= e + TicksPerMs /\ d \in Nat
  <2>1. d \in Int /\ TicksPerMs \in Int
    BY RateLimiterAssumption DEF Bucket
  <2> HIDE DEF d, e
  <2> QED
    BY <1>0, <2>1
<1>2. Limit \in Nat /\ Limit > 0 /\ TicksPerMs \in Nat /\ Full \in Nat /\ b.tokens \in 0..Full
  BY Amounts, RateLimiterAssumption DEF Bucket
<1>3. Limit * e \in Nat /\ Limit * e <= Limit * d /\ Limit * d \in Int
  BY <1>1, <1>2, TimesMonotone
<1>4. Limit * (d + 1) <= Limit * (e + TicksPerMs)
  BY <1>1, <1>2, TimesMonotone
<1>5. Limit * (d + 1) = Limit * d + Limit /\ Limit * (e + TicksPerMs) = Limit * e + Limit * TicksPerMs
  BY <1>1, <1>2, TimesAdd
<1>6. Limit * TicksPerMs \in Nat
  BY <1>2
<1>7. Limit * d < Limit * e + Limit * TicksPerMs
  BY <1>2, <1>3, <1>4, <1>5, <1>6
<1>8. Refilled(b) = IF b.tokens + Limit * e <= Full THEN b.tokens + Limit * e ELSE Full
  BY DEF Refilled
<1> HIDE DEF d, e
<1>9. /\ Refilled(b) \in 0..Full
      /\ Refilled(b) <= b.tokens + Limit * d
      /\ Refilled(b) = Full \/ Limit * d < Refilled(b) + Limit * TicksPerMs
  BY <1>2, <1>3, <1>6, <1>7, <1>8
<1> QED
  BY <1>9 DEF d

(***************************************************************************)
(* The steps.                                                              *)
(***************************************************************************)

\* A process that just started has no buckets and has granted nothing.
LEMMA InitInv == Init => IInv
<1> SUFFICES ASSUME Init PROVE IInv
  OBVIOUS
<1>1. TypeOK
  BY DEF Init, TypeOK, Request, Steps, Idle
<1>2. ClockInv /\ QuotaInv
  BY <1>1 DEF Init, ClockInv, QuotaInv, TypeOK
<1>3. HandInv
  BY DEF Init, HandInv, At, Idle
<1> QED
  BY <1>1, <1>2, <1>3 DEF IInv

\* Where no bucket, no grant and no window changes, only the clock may move.
LEMMA BucketsUntouched ==
  ASSUME IInv, TypeOK', UNCHANGED <<buckets, spent, mark>>, now <= now'
  PROVE  ClockInv' /\ QuotaInv'
<1>1. ClockInv'
  BY DEF IInv, ClockInv, TypeOK, Bucket
<1>2. QuotaInv'
  BY DEF IInv, QuotaInv
<1> QED
  BY <1>1, <1>2

\* A new request, and one without a tenant, know nothing of buckets.
LEMMA ArriveInv ==
  ASSUME IInv, NEW r \in Requests, NEW c \in Callers, NEW t \in {c, NoTenant}, Arrive(r, c, t)
  PROVE  IInv'
<1>1. TypeOK'
  BY DEF IInv, TypeOK, Arrive, Request, Steps
<1>2. ClockInv' /\ QuotaInv'
  BY <1>1, BucketsUntouched DEF Arrive, IInv, TypeOK
<1>3. HandInv'
  BY DEF IInv, TypeOK, HandInv, Arrive, At
<1> QED
  BY <1>1, <1>2, <1>3 DEF IInv

LEMMA SkipInv ==
  ASSUME IInv, NEW r \in Requests, Skip(r)
  PROVE  IInv'
<1>1. TypeOK'
  BY DEF IInv, TypeOK, Skip, GoTo, Request, Steps
<1>2. ClockInv' /\ QuotaInv'
  BY <1>1, BucketsUntouched DEF Skip, IInv, TypeOK
<1>3. HandInv'
  BY DEF IInv, TypeOK, HandInv, Skip, GoTo, At, Request
<1> QED
  BY <1>1, <1>2, <1>3 DEF IInv

LEMMA AnswerInv ==
  ASSUME IInv, NEW r \in Requests, Answer(r)
  PROVE  IInv'
<1>1. TypeOK'
  BY DEF IInv, TypeOK, Answer, Idle, Request, Steps
<1>2. ClockInv' /\ QuotaInv'
  BY <1>1, BucketsUntouched DEF Answer, IInv, TypeOK
<1>3. HandInv'
  BY DEF IInv, TypeOK, HandInv, Answer, At, Idle
<1> QED
  BY <1>1, <1>2, <1>3 DEF IInv

LEMMA TickInv ==
  ASSUME IInv, Tick
  PROVE  IInv'
<1>1. TypeOK'
  BY DEF IInv, TypeOK, Tick
<1>2. ClockInv' /\ QuotaInv'
  BY <1>1, BucketsUntouched DEF Tick, IInv, TypeOK
<1>3. HandInv'
  BY DEF IInv, TypeOK, HandInv, Tick, At
<1> QED
  BY <1>1, <1>2, <1>3 DEF IInv

\* A window that begins now has seen no grant.
LEMMA MarkInv ==
  ASSUME IInv, Mark
  PROVE  IInv'
<1>1. TypeOK'
  BY DEF IInv, TypeOK, Mark
<1>2. ClockInv'
  BY DEF IInv, TypeOK, ClockInv, Mark
<1>3. HandInv'
  BY DEF IInv, TypeOK, HandInv, Mark, At
<1>4. QuotaInv'
  BY DEF QuotaInv, Mark
<1> QED
  BY <1>1, <1>2, <1>3, <1>4 DEF IInv

\* Allow makes a bucket at most once: a bucket that is there stays as it is.
LEMMA FindBucketInv ==
  ASSUME IInv, NEW r \in Requests, FindBucket(r)
  PROVE  IInv'
<1> DEFINE t == request[r].tenant
<1>1. /\ t \in Callers /\ request[r] \in Request /\ UNCHANGED <<now, spent, mark>>
      /\ buckets' = [buckets EXCEPT ![t] = IF buckets[t] = NoBucket THEN NewBucket ELSE buckets[t]]
      /\ request' = [request EXCEPT ![r] = [request[r] EXCEPT !.step = "take"]]
  BY DEF IInv, TypeOK, FindBucket, GoTo, Request
<1>2. NewBucket \in Bucket /\ NewBucket # NoBucket /\ NewBucket.lastRefill = now
  BY Amounts, RateLimiterAssumption DEF NewBucket, Bucket, IInv, TypeOK
<1>3. /\ buckets' \in [Callers -> Bucket \cup {NoBucket}]
      /\ buckets'[t] # NoBucket
      /\ \A u \in Callers : buckets[u] # NoBucket => buckets'[u] = buckets[u]
      /\ \A u \in Callers : buckets'[u] # buckets[u] => buckets'[u] = NewBucket
  BY <1>1, <1>2 DEF IInv, TypeOK
<1>4. TypeOK'
  BY <1>1, <1>3 DEF IInv, TypeOK, Request, Steps
<1>5. ClockInv'
  <2> SUFFICES ASSUME NEW u \in Callers, buckets'[u] # NoBucket
               PROVE  buckets'[u].lastRefill <= now
    BY <1>1 DEF IInv, ClockInv
  <2>1. CASE buckets'[u] = buckets[u]
    BY <2>1 DEF IInv, ClockInv
  <2>2. CASE buckets'[u] = NewBucket
    BY <1>2, <2>2 DEF IInv, TypeOK
  <2> QED
    BY <1>3, <2>1, <2>2
<1>6. HandInv'
  BY <1>1, <1>3 DEF IInv, TypeOK, HandInv, At, Request
<1>7. QuotaInv'
  BY <1>1, <1>3 DEF IInv, QuotaInv
<1> QED
  BY <1>4, <1>5, <1>6, <1>7 DEF IInv

\* GetRemaining finds the bucket short of full, whoever used it meanwhile.
LEMMA ReportInv ==
  ASSUME IInv, NEW r \in Requests, Report(r)
  PROVE  IInv'
<1> DEFINE b == buckets[request[r].tenant]
           left == b.tokens \div Token
<1>1. b \in Bucket /\ b.tokens < Full /\ b.tokens \in Nat
  BY DEF IInv, TypeOK, HandInv, Report, At, Bucket
<1>2. left \in Nat /\ left < Limit
  <2>1. Token \in Nat /\ Token > 0 /\ Limit \in Nat /\ b.tokens < Token * Limit
    BY <1>1, Amounts, RateLimiterAssumption
  <2>2. left \in Nat /\ Token * left <= b.tokens
    BY <1>1, <2>1
  <2>3. ~ (Limit <= left)
    BY <1>1, <2>1, <2>2, TimesMonotone
  <2> QED
    BY <2>1, <2>2, <2>3
<1>3. /\ UNCHANGED <<now, buckets, spent, mark>>
      /\ request' = [request EXCEPT ![r] =
                       [request[r] EXCEPT !.step = "next", !.remaining = left]]
  BY DEF Report
<1> HIDE DEF left
<1>4. TypeOK'
  BY <1>2, <1>3 DEF IInv, TypeOK, Request, Steps
<1>5. ClockInv' /\ QuotaInv'
  BY <1>3, <1>4, BucketsUntouched DEF IInv, TypeOK
<1>6. HandInv'
  BY <1>2, <1>3 DEF IInv, TypeOK, HandInv, At, Request
<1> QED
  BY <1>4, <1>5, <1>6 DEF IInv

\* A request takes a token only out of what the bucket held and its refill.
LEMMA TakeInv ==
  ASSUME IInv, NEW r \in Requests, Take(r)
  PROVE  IInv'
<1> DEFINE t == request[r].tenant
           b == buckets[t]
           n == Refilled(b)
<1>1. t \in Callers /\ b \in Bucket /\ b # NoBucket
  BY DEF IInv, TypeOK, HandInv, Take, At
<1>2. /\ now \in Nat /\ b.lastRefill \in Nat /\ b.lastRefill <= now /\ b.tokens \in Nat
      /\ mark.at \in Nat /\ mark.at <= now
      /\ \A u \in Callers : spent[u] \in Nat /\ mark.spent[u] \in Nat
  BY <1>1 DEF IInv, TypeOK, ClockInv, Bucket
<1>3. n \in 0..Full /\ n <= b.tokens + Limit * (now - b.lastRefill)
  BY <1>1, <1>2, RefilledBounds
<1>4. Token \in Nat /\ Token > 0 /\ Full \in Nat /\ Full >= Token /\ Limit \in Nat
  BY Amounts, RateLimiterAssumption
<1>5. PICK taken \in {0, Token}, next \in {"report", "refused"} :
        /\ taken <= n /\ (taken = 0 => n < Token)
        /\ buckets' = [buckets EXCEPT ![t] = [tokens |-> n - taken, lastRefill |-> now]]
        /\ spent' = [spent EXCEPT ![t] = spent[t] + taken]
        /\ request' = [request EXCEPT ![r] = [request[r] EXCEPT !.step = next]]
  <2>1. CASE n >= Token
    BY <1>3, <1>4, <2>1 DEF Take, GoTo
  <2>2. CASE n < Token
    <3>1. /\ buckets' = [buckets EXCEPT ![t] = [tokens |-> n, lastRefill |-> now]]
          /\ spent' = spent
          /\ request' = [request EXCEPT ![r] = [request[r] EXCEPT !.step = "refused"]]
      BY <1>3, <1>4, <2>2 DEF Take, GoTo
    <3>2. spent' = [spent EXCEPT ![t] = spent[t] + 0]
      BY <1>1, <1>2, <3>1 DEF IInv, TypeOK
    <3>3. n - 0 = n /\ 0 <= n
      BY <1>3, <1>4
    <3> QED
      BY <1>4, <2>2, <3>1, <3>2, <3>3
  <2> QED
    BY <1>3, <1>4, <2>1, <2>2
<1>6. UNCHANGED <<now, mark>>
  BY DEF Take
<1> DEFINE new == [tokens |-> n - taken, lastRefill |-> now]
<1> HIDE DEF n
<1>7. /\ new \in Bucket /\ new # NoBucket /\ new.lastRefill = now
      /\ new.tokens = n - taken /\ taken \in Nat
      /\ new.tokens < Full
  BY <1>2, <1>3, <1>4, <1>5, RateLimiterAssumption DEF Bucket
<1>8. /\ buckets' = [buckets EXCEPT ![t] = new] /\ buckets'[t] = new
      /\ \A u \in Callers : u # t => buckets'[u] = buckets[u] /\ spent'[u] = spent[u]
      /\ spent'[t] = spent[t] + taken
  BY <1>1, <1>5 DEF IInv, TypeOK
<1> HIDE DEF new
<1>9. TypeOK'
  BY <1>1, <1>2, <1>5, <1>6, <1>7, <1>8 DEF IInv, TypeOK, Request, Steps
<1>10. ClockInv'
  BY <1>1, <1>2, <1>6, <1>7, <1>8 DEF IInv, ClockInv
<1>11. HandInv'
  <2> SUFFICES ASSUME NEW q \in Requests
               PROVE  /\ At(q, "take")' \/ At(q, "report")' =>
                           /\ request'[q].tenant \in Callers
                           /\ buckets'[request'[q].tenant] # NoBucket
                           /\ At(q, "report")' => buckets'[request'[q].tenant].tokens < Full
                      /\ At(q, "next")' /\ request'[q].tenant # NoTenant =>
                           request'[q].remaining < Limit
    BY DEF HandInv, At
  <2>1. CASE q = r
    BY <1>1, <1>5, <1>7, <1>8, <2>1 DEF IInv, TypeOK, At, Request
  <2>2. CASE q # r
    <3>1. request'[q] = request[q]
      BY <1>5, <2>2 DEF IInv, TypeOK
    <3> QED
      BY <1>7, <1>8, <3>1 DEF IInv, HandInv, At
  <2> QED
    BY <2>1, <2>2
<1>12. QuotaInv'
  <2> SUFFICES ASSUME NEW u \in Callers
               PROVE  \/ spent'[u] = mark.spent[u]
                      \/ /\ buckets'[u] # NoBucket
                         /\ mark.at <= buckets'[u].lastRefill
                         /\ spent'[u] - mark.spent[u] + buckets'[u].tokens
                              <= Full + Limit * (buckets'[u].lastRefill - mark.at)
    BY <1>6 DEF QuotaInv
  <2>1. CASE u # t
    BY <1>8, <2>1 DEF IInv, QuotaInv
  <2>2. CASE u = t /\ spent[t] = mark.spent[t]
    <3>1. Limit * (now - mark.at) \in Int /\ 0 <= Limit * (now - mark.at)
      BY <1>2, <1>4
    <3>2. spent'[t] - mark.spent[t] + buckets'[t].tokens = n
      BY <1>1, <1>2, <1>3, <1>7, <1>8, <2>2
    <3> QED
      BY <1>2, <1>3, <1>4, <1>7, <1>8, <2>2, <3>1, <3>2
  <2>3. CASE u = t /\ spent[t] # mark.spent[t]
    <3>1. /\ mark.at <= b.lastRefill
          /\ spent[t] - mark.spent[t] + b.tokens <= Full + Limit * (b.lastRefill - mark.at)
      BY <1>1, <2>3 DEF IInv, QuotaInv
    <3>2. Limit * (b.lastRefill - mark.at) + Limit * (now - b.lastRefill) = Limit * (now - mark.at)
      BY <1>2, <1>4
    <3>3. /\ Limit * (b.lastRefill - mark.at) \in Int /\ Limit * (now - b.lastRefill) \in Int
          /\ Limit * (now - mark.at) \in Int
      BY <1>2, <1>4
    <3>4. spent'[t] - mark.spent[t] + buckets'[t].tokens = spent[t] - mark.spent[t] + n
      BY <1>1, <1>2, <1>3, <1>7, <1>8
    <3>5. /\ spent[t] - mark.spent[t] \in Int /\ n \in Int /\ b.tokens \in Int
          /\ n <= b.tokens + Limit * (now - b.lastRefill)
      BY <1>1, <1>2, <1>3
    <3>6. spent[t] - mark.spent[t] + n <= Full + Limit * (now - mark.at)
      <4> DEFINE s == spent[t] - mark.spent[t]
                 x == Limit * (b.lastRefill - mark.at)
                 y == Limit * (now - b.lastRefill)
                 z == Limit * (now - mark.at)
      <4>1. /\ s \in Int /\ n \in Int /\ b.tokens \in Int /\ Full \in Int
            /\ x \in Int /\ y \in Int /\ x + y = z
            /\ n <= b.tokens + y /\ s + b.tokens <= Full + x
        BY <1>4, <3>1, <3>2, <3>3, <3>5
      <4> HIDE DEF s, x, y, z
      <4>2. s + n <= Full + z
        BY <4>1
      <4> QED
        BY <4>2 DEF s, z
    <3> QED
      BY <1>2, <1>7, <1>8, <2>3, <3>4, <3>6
  <2> QED
    BY <2>1, <2>2, <2>3
<1> QED
  BY <1>9, <1>10, <1>11, <1>12 DEF IInv

\* No step of the middleware, of the clock or of the window leads out.
LEMMA NextInv == IInv /\ [Next]_vars => IInv'
<1> SUFFICES ASSUME IInv, [Next]_vars PROVE IInv'
  OBVIOUS
<1>1. ASSUME NEW r \in Requests, NEW c \in Callers, Arrive(r, c, c) \/ Arrive(r, c, NoTenant)
      PROVE  IInv'
  BY <1>1, ArriveInv
<1>2. ASSUME NEW r \in Requests, MiddlewareStep(r)
      PROVE  IInv'
  BY <1>2, SkipInv, FindBucketInv, TakeInv, ReportInv, AnswerInv DEF MiddlewareStep
<1>3. CASE UNCHANGED vars
  BY <1>3 DEF IInv, TypeOK, ClockInv, HandInv, QuotaInv, At, vars
<1> QED
  BY <1>1, <1>2, <1>3, TickInv, MarkInv DEF Next

(***************************************************************************)
(* What a request of /v1 may rely on.                                      *)
(***************************************************************************)

\* Buckets, requests and the clock of RateLimitMiddleware keep their ranges:
\* no bucket holds less than nothing or more than RATE_LIMIT_DEFAULT tokens.
THEOREM LimiterTypes == Spec => []TypeOK
<1>1. IInv => TypeOK
  BY DEF IInv
<1> QED
  BY <1>1, InitInv, NextInv, PTL DEF Spec

\* The invariant above holds in every state of the rate limiter.
THEOREM LimiterInductive == Spec => []IInv
BY InitInv, NextInv, PTL DEF Spec

\* However requests pass TokenBucket.Take and wherever a window of time begins,
\* a tenant is granted no more in it than a full bucket and the rate for its
\* length.
THEOREM NeverOverQuota == Spec => []WindowQuota
<1>1. IInv => WindowQuota
  <2> SUFFICES ASSUME IInv, NEW t \in Callers
               PROVE  spent[t] - mark.spent[t] <= Full + Limit * (now - mark.at)
    BY DEF WindowQuota
  <2>1. /\ Limit \in Nat /\ Full \in Nat /\ now \in Nat /\ mark.at \in Nat /\ mark.at <= now
        /\ spent[t] \in Nat /\ mark.spent[t] \in Nat
    BY Amounts, RateLimiterAssumption DEF IInv, TypeOK, ClockInv
  <2>2. Limit * (now - mark.at) \in Int /\ 0 <= Limit * (now - mark.at)
    BY <2>1
  <2>3. CASE spent[t] = mark.spent[t]
    BY <2>1, <2>2, <2>3
  <2>4. CASE spent[t] # mark.spent[t]
    <3> DEFINE b == buckets[t]
    <3>1. /\ b \in Bucket /\ b.tokens \in Nat /\ b.lastRefill \in Nat /\ b.lastRefill <= now
          /\ spent[t] - mark.spent[t] + b.tokens <= Full + Limit * (b.lastRefill - mark.at)
      BY <2>4 DEF IInv, TypeOK, ClockInv, QuotaInv, Bucket
    <3>2. b.lastRefill - mark.at <= now - mark.at
      BY <2>1, <3>1
    <3>3. /\ Limit * (b.lastRefill - mark.at) \in Int
          /\ Limit * (b.lastRefill - mark.at) <= Limit * (now - mark.at)
      BY <2>1, <3>1, <3>2, TimesMonotone
    <3> HIDE DEF b
    <3> QED
      BY <2>1, <2>2, <3>1, <3>3
  <2> QED
    BY <2>3, <2>4
<1> QED
  BY <1>1, LimiterInductive, PTL

\* GetRemaining never reports the request it answers as still to come, though
\* it takes the locks anew.
THEOREM RemainingIsBelow == Spec => []RemainingBelowLimit
<1>1. IInv => RemainingBelowLimit
  BY DEF IInv, HandInv, RemainingBelowLimit
<1> QED
  BY <1>1, LimiterInductive, PTL

\* TokenBucket.Take refuses only a tenant that made another attempt less than
\* a token's time and a millisecond ago: rounding never locks one out for good.
THEOREM ServedAfterPause == Spec => RefusedOnlyIfBusy
<1> DEFINE Served ==
      \A r \in Requests :
        At(r, "take") /\ request'[r].step = "refused" =>
          Limit * (now - buckets[request[r].tenant].lastRefill) < Token + Limit * TicksPerMs
<1>1. IInv /\ [Next]_vars => [Served]_vars
  <2> SUFFICES ASSUME IInv, Next, NEW r \in Requests,
                      At(r, "take"), request'[r].step = "refused"
               PROVE  Limit * (now - buckets[request[r].tenant].lastRefill)
                        < Token + Limit * TicksPerMs
    OBVIOUS
  <2> DEFINE b == buckets[request[r].tenant]
  <2>1. b \in Bucket /\ now \in Nat /\ b.lastRefill \in Nat /\ b.lastRefill <= now
    BY DEF IInv, TypeOK, HandInv, ClockInv, Bucket
  <2>2. Take(r)
    <3>1. /\ ~ (Tick \/ Mark)
          /\ \A q \in Requests, c \in Callers : ~ Arrive(q, c, c) /\ ~ Arrive(q, c, NoTenant)
      BY DEF Tick, Mark, Arrive, At, IInv, TypeOK, Request
    <3>2. \A q \in Requests : ~ (Skip(q) \/ FindBucket(q) \/ Report(q) \/ Answer(q))
      BY DEF Skip, FindBucket, Report, Answer, GoTo, At, Idle, IInv, TypeOK, Request
    <3>3. PICK q \in Requests : Take(q)
      BY <3>1, <3>2 DEF Next, MiddlewareStep
    <3>4. q = r
      BY <3>3 DEF Take, GoTo, At, IInv, TypeOK
    <3> QED
      BY <3>3, <3>4
  <2>3. Refilled(b) < Token
    BY <2>2 DEF Take, GoTo, IInv, TypeOK, Request
  <2>4. /\ Limit \in Nat /\ TicksPerMs \in Nat /\ Token \in Nat /\ Full \in Nat
        /\ Full >= Token /\ Refilled(b) \in 0..Full
        /\ Limit * (now - b.lastRefill) < Refilled(b) + Limit * TicksPerMs
    BY <2>1, <2>3, Amounts, RefilledBounds, RateLimiterAssumption
  <2>5. Limit * (now - b.lastRefill) \in Int /\ Limit * TicksPerMs \in Int
    BY <2>1, <2>4
  <2> QED
    BY <2>3, <2>4, <2>5
<1> QED
  BY <1>1, LimiterInductive, PTL DEF Spec, RefusedOnlyIfBusy
=============================================================================
