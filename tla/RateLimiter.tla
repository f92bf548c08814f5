----------------------------- MODULE RateLimiter -----------------------------
(***************************************************************************)
(* The per-tenant token buckets of RateLimitMiddleware.                    *)
(*                                                                         *)
(* Time is counted in ticks, TicksPerMs of them in a millisecond.  Tokens  *)
(* are counted in the share of a token that one tick adds for one request  *)
(* per minute, so that all amounts are whole numbers; the rounding of      *)
(* float64 is left out.                                                    *)
(*                                                                         *)
(* Operators named ...Fault are deliberate mistakes used by no action.     *)
(***************************************************************************)
EXTENDS Integers, FiniteSets

CONSTANTS
  Callers,     \* tenants whose keys requests carry
  Requests,    \* requests under way at a time
  Limit,       \* RATE_LIMIT_DEFAULT
  MsPerMinute, \* 60000 in the code
  TicksPerMs,  \* fineness of the clock
  NoTenant,    \* uuid.Nil in the request's context
  NoBucket,
  MaxTime      \* bound: the end of time

ASSUME RateLimiterAssumption ==
  /\ Limit \in Nat \ {0} /\ MsPerMinute \in Nat \ {0} /\ TicksPerMs \in Nat \ {0}
  /\ MaxTime \in Nat
  /\ NoTenant \notin Callers
  /\ NoBucket \notin [tokens : Int, lastRefill : Int]

VARIABLES
  now,         \* ticks since the process started
  buckets,     \* rl.buckets: [Callers -> bucket, or NoBucket]
  request,     \* [Requests -> where it is, whose key it carries, its context]
  spent,       \* history: tokens taken by granted requests, per tenant
  mark         \* history: an earlier moment, and what was spent then

vars == <<now, buckets, request, spent, mark>>

Token == MsPerMinute * TicksPerMs
Full == Limit * Token
Idle == [step |-> "idle", caller |-> NoTenant, tenant |-> NoTenant, remaining |-> 0]

Init ==
  /\ now = 0
  /\ buckets = [t \in Callers |-> NoBucket]
  /\ request = [r \in Requests |-> Idle]
  /\ spent = [t \in Callers |-> 0]
  /\ mark = [at |-> 0, spent |-> [t \in Callers |-> 0]]

At(r, step) == request[r].step = step
GoTo(r, step) == request' = [request EXCEPT ![r].step = step]

\* A request of c comes to the middleware, with the tenant that the middlewares
\* before it put into its context.
Arrive(r, c, tenant) ==
  /\ At(r, "idle")
  /\ request' = [request EXCEPT ![r] =
                   [step |-> "limit", caller |-> c, tenant |-> tenant, remaining |-> 0]]
  /\ UNCHANGED <<now, buckets, spent, mark>>

\* No tenant in the context: not limited.
Skip(r) ==
  /\ At(r, "limit") /\ request[r].tenant = NoTenant
  /\ GoTo(r, "next")
  /\ UNCHANGED <<now, buckets, spent, mark>>

\* NewTokenBucket.
NewBucket == [tokens |-> Full, lastRefill |-> now]

\* The bucket is made without looking whether another request made one.
AlwaysNewFault(r) ==
  /\ At(r, "limit") /\ request[r].tenant # NoTenant
  /\ buckets' = [buckets EXCEPT ![request[r].tenant] = NewBucket]
  /\ GoTo(r, "take")
  /\ UNCHANGED <<now, spent, mark>>

\* RateLimiter.Allow under rl.mu.
FindBucket(r) ==
  /\ At(r, "limit") /\ request[r].tenant # NoTenant
  /\ LET t == request[r].tenant
     IN buckets' = [buckets EXCEPT ![t] = IF buckets[t] = NoBucket THEN NewBucket ELSE @]
  /\ GoTo(r, "take")
  /\ UNCHANGED <<now, spent, mark>>

\* Rounded up to the next millisecond.
RoundedUpFault(b) == 1 + (now - b.lastRefill) \div TicksPerMs

\* now.Sub(lastRefill).Milliseconds(): whole milliseconds.
Elapsed(b) == (now - b.lastRefill) \div TicksPerMs

\* The refill is not capped.
UncappedFault(b) == b.tokens + Limit * (TicksPerMs * Elapsed(b))

Refilled(b) ==
  LET sum == b.tokens + Limit * (TicksPerMs * Elapsed(b))
  IN IF sum <= Full THEN sum ELSE Full

\* The bucket is never refilled.
NoRefillFault(r) ==
  /\ At(r, "take")
  /\ LET t == request[r].tenant
         b == buckets[t]
     IN /\ buckets' = [buckets EXCEPT ![t] =
               [tokens |-> IF b.tokens >= Token THEN b.tokens - Token ELSE b.tokens,
                lastRefill |-> now]]
        /\ spent' = IF b.tokens >= Token THEN [spent EXCEPT ![t] = @ + Token] ELSE spent
        /\ GoTo(r, IF b.tokens >= Token THEN "report" ELSE "refused")
  /\ UNCHANGED <<now, mark>>

\* TokenBucket.Take under tb.mu.  Whatever Elapsed rounded off is gone.
Take(r) ==
  /\ At(r, "take")
  /\ LET t == request[r].tenant
         tokens == Refilled(buckets[t])
     IN \/ /\ tokens >= Token
           /\ buckets' = [buckets EXCEPT ![t] = [tokens |-> tokens - Token, lastRefill |-> now]]
           /\ spent' = [spent EXCEPT ![t] = @ + Token]
           /\ GoTo(r, "report")
        \/ /\ tokens < Token
           /\ buckets' = [buckets EXCEPT ![t] = [tokens |-> tokens, lastRefill |-> now]]
           /\ GoTo(r, "refused")
           /\ UNCHANGED spent
  /\ UNCHANGED <<now, mark>>

\* RateLimiter.GetRemaining, under other locks than Allow was.
Report(r) ==
  /\ At(r, "report")
  /\ request' = [request EXCEPT ![r].step = "next",
                                ![r].remaining = buckets[request[r].tenant].tokens \div Token]
  /\ UNCHANGED <<now, buckets, spent, mark>>

\* The handlers behind the middleware have answered, or the 429 is written.
Answer(r) ==
  /\ At(r, "next") \/ At(r, "refused")
  /\ request' = [request EXCEPT ![r] = Idle]
  /\ UNCHANGED <<now, buckets, spent, mark>>

Tick ==
  /\ now < MaxTime
  /\ now' = now + 1
  /\ UNCHANGED <<buckets, request, spent, mark>>

\* History: the window that WindowQuota looks at begins.
Mark ==
  /\ mark' = [at |-> now, spent |-> spent]
  /\ UNCHANGED <<now, buckets, request, spent>>

MiddlewareStep(r) == Skip(r) \/ FindBucket(r) \/ Take(r) \/ Report(r) \/ Answer(r)

Next ==
  \/ \E r \in Requests :
       \/ \E c \in Callers : Arrive(r, c, c) \/ Arrive(r, c, NoTenant)
       \/ MiddlewareStep(r)
  \/ Tick \/ Mark

Spec == Init /\ [][Next]_vars

(***************************************************************************)
(* The middleware where newRouter puts it: for all of /v1, before          *)
(* AuthMiddleware, which is what puts a tenant into the context.           *)
(***************************************************************************)
RoutedNext ==
  \/ \E r \in Requests : (\E c \in Callers : Arrive(r, c, NoTenant)) \/ MiddlewareStep(r)
  \/ Tick

RoutedSpec == Init /\ [][RoutedNext]_vars

(***************************************************************************)
(* Properties.                                                             *)
(***************************************************************************)
Bucket == [tokens : 0..Full, lastRefill : Nat]
Steps == {"idle", "limit", "take", "report", "next", "refused"}
Request == [step : Steps, caller : Callers \cup {NoTenant},
            tenant : Callers \cup {NoTenant}, remaining : Nat]

TypeOK ==
  /\ now \in Nat
  /\ buckets \in [Callers -> Bucket \cup {NoBucket}]
  /\ request \in [Requests -> Request]
  /\ spent \in [Callers -> Nat]
  /\ mark \in [at : Nat, spent : [Callers -> Nat]]

\* In no window of time, wherever it begins, are more requests of a tenant
\* granted than Limit and Limit for each minute of the window, whatever
\* requests run next to each other and however the clock falls.
WindowQuota ==
  \A t \in Callers : spent[t] - mark.spent[t] <= Full + Limit * (now - mark.at)

\* X-RateLimit-Remaining, read after the locks were given up, is below the
\* limit: it never misses the request it answers.
RemainingBelowLimit ==
  \A r \in Requests :
    At(r, "next") /\ request[r].tenant # NoTenant => request[r].remaining < Limit

\* A tenant is refused only if it sent another request less than a token's
\* time and a millisecond ago: one that waits this long is always served.
RefusedOnlyIfBusy ==
  [][\A r \in Requests :
       At(r, "take") /\ request'[r].step = "refused" =>
         Limit * (now - buckets[request[r].tenant].lastRefill) < Token + Limit * TicksPerMs]_vars

\* README.md:516, "Rate limiting: per-tenant token bucket, default 100 req/min":
\* the requests of a tenant that handlers are working on were let through since
\* the start, so there are no more of them than its bucket had tokens.
CallersAreLimited ==
  \A c \in Callers :
    Cardinality({r \in Requests : At(r, "next") /\ request[r].caller = c}) * Token
      <= Full + Limit * now
=============================================================================
