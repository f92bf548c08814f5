------------------------------ MODULE Catalog ------------------------------
(***************************************************************************)
(* Plans, the tenant's default provider, and POST /v1/subscriptions: the   *)
(* handler reads the default provider, the service reads the plan, checks  *)
(* the provider's capabilities and copies the plan's terms, and the        *)
(* repository inserts once per Idempotency-Key.  Each is a statement of    *)
(* its own, with other requests in between.  Renewal moves the period of   *)
(* a subscription on, as Lifecycle does, here without a clock, and PATCH    *)
(* may give it another amount.                                              *)
(*                                                                         *)
(* One tenant.  Terms are what a subscription is billed by; names, tags,   *)
(* metadata and trials are left out.                                       *)
(*                                                                         *)
(* Operators named ...Fault are deliberate mistakes used by no action.     *)
(***************************************************************************)
EXTENDS Calendar

CONSTANTS
  Slugs, NoSlug,
  Bodies,       \* terms a request may bring, with count 0 if it brings none
  Prices,       \* amounts a PATCH of a subscription may bring
  Providers, NoProvider,
  Registered,   \* providers with a connector
  Gated,        \* providers that may not have plans, by providers.yml
  Metered,      \* providers that have pay-per-use, by providers.yml
  Keys,         \* Idempotency-Key values
  Handlers,     \* handlers under way at a time
  StartDays,    \* days a subscription may start on
  MaxPeriods,   \* bound on a subscription's renewals
  NoRow, NoCall

Terms == [amount : Int, interval : Intervals, count : Int]
StoredTerms == {t \in Terms : t.count # 0}
SomeSlug == Slugs \cup {NoSlug}
SomeProvider == Providers \cup {NoProvider}

Plan == [terms : StoredTerms, active : BOOLEAN]
Subscription ==
  [plan : SomeSlug, terms : StoredTerms, provider : SomeProvider,
   created : Int, start : Int, end : Int, renewals : 0..MaxPeriods]

\* A request under way, and what a caller was told about a key.
Request == [step : {"resolve", "insert"}, key : Keys, slug : SomeSlug,
            provider : SomeProvider, terms : Terms]
Told == [key : Keys, shown : [plan : SomeSlug, terms : StoredTerms,
                              provider : SomeProvider, created : Int]]

ASSUME CatalogAssumption ==
  /\ Bodies \subseteq Terms
  /\ Prices \subseteq Int /\ StartDays \subseteq Int
  /\ Registered \subseteq Providers
  /\ NoProvider \notin Providers /\ NoSlug \notin Slugs
  /\ MaxPeriods \in Nat
  /\ NoRow \notin Plan /\ NoRow \notin Subscription /\ NoCall \notin Request

VARIABLES
  plans,           \* table plans: [Slugs -> row, or NoRow]
  defaultProvider, \* tenants.default_provider_name
  subs,            \* table subscriptions: [Keys -> row, or NoRow]
  call,            \* [Handlers -> request under way, or NoCall]
  answers,         \* history: what callers were told to have
  repriced         \* history: keys whose subscription a PATCH gave an amount

vars == <<plans, defaultProvider, subs, call, answers, repriced>>

Init ==
  /\ plans = [p \in Slugs |-> NoRow]
  /\ defaultProvider \in Registered
  /\ subs = [k \in Keys |-> NoRow]
  /\ call = [h \in Handlers |-> NoCall]
  /\ answers = {}
  /\ repriced = {}

(***************************************************************************)
(* Plans.                                                                  *)
(***************************************************************************)

\* A missing interval_count is stored as it came.
ZeroCountFault(b) == b

\* Defaults of PlanService.CreateOrGet.
PlanTerms(b) == [b EXCEPT !.count = IF @ = 0 THEN 1 ELSE @]

\* ON CONFLICT DO UPDATE with the request's terms.
OverwriteFault(p, b) ==
  /\ b.amount > 0
  /\ plans' = [plans EXCEPT ![p] = [terms |-> PlanTerms(b), active |-> TRUE]]
  /\ UNCHANGED <<defaultProvider, subs, call, answers, repriced>>

\* validateCreateInput has no rule for the count.
ValidPlan(b) == b.amount > 0

\* Repository.Upsert: a slug that is taken keeps its plan, active or not,
\* whatever the request's terms are.
Upserted(p, terms) ==
  [plans EXCEPT ![p] = IF @ = NoRow THEN [terms |-> terms, active |-> TRUE] ELSE @]

CreateOrGet(p, b) ==
  /\ ValidPlan(b)
  /\ plans' = Upserted(p, PlanTerms(b))
  /\ UNCHANGED <<defaultProvider, subs, call, answers, repriced>>

\* PATCH of is_active; name and description are not modelled.
UpdatePlan(p, active) ==
  /\ plans[p] # NoRow
  /\ plans' = [plans EXCEPT ![p].active = active]
  /\ UNCHANGED <<defaultProvider, subs, call, answers, repriced>>

\* DELETE keeps the row.
DeletePlan(p) ==
  /\ plans[p] # NoRow
  /\ plans' = [plans EXCEPT ![p].active = FALSE]
  /\ UNCHANGED <<defaultProvider, subs, call, answers, repriced>>

SetDefaultProvider(q) ==
  /\ defaultProvider' = q
  /\ UNCHANGED <<plans, subs, call, answers, repriced>>

(***************************************************************************)
(* Creating a subscription.                                                *)
(***************************************************************************)

\* The connector's own declaration counts, not the file's entry.
SelfDeclaredFault(q) == TRUE

\* GetCapabilities: a provider without a connector has the defaults, whatever
\* the file says, and no provider is not asked.
SupportsPlans(q) == q \in Registered => q \notin Gated

\* Handler.Create: a request without a provider gets the tenant's default,
\* unless reading the tenant fails, which is not reported.
BeginCreate(h, k) ==
  /\ call[h] = NoCall
  /\ \E slug \in Slugs \cup {NoSlug}, b \in Bodies,
        q \in Providers \cup {defaultProvider, NoProvider} :
       /\ slug # NoSlug => b = CHOOSE x \in Bodies : TRUE   \* ignored
       /\ call' = [call EXCEPT ![h] = [step |-> "resolve", key |-> k, slug |-> slug,
                                       provider |-> q, terms |-> b]]
  /\ UNCHANGED <<plans, defaultProvider, subs, answers, repriced>>

At(h, step) == call[h] # NoCall /\ call[h].step = step
End(h) == call' = [call EXCEPT ![h] = NoCall]

\* The plan's terms are copied, if it is active and the provider has plans.
ResolvePlan(h) ==
  /\ At(h, "resolve") /\ call[h].slug # NoSlug
  /\ LET p == plans[call[h].slug]
     IN /\ p # NoRow /\ p.active
        /\ SupportsPlans(call[h].provider)
        /\ call' = [call EXCEPT ![h].step = "insert", ![h].terms = p.terms]
  /\ UNCHANGED <<plans, defaultProvider, subs, answers, repriced>>

\* Any count but none is taken, as for a plan.
AnyCountFault(b) == b.amount > 0 /\ b.count # 0

\* The strict rules for terms that come with the request.
ValidTerms(b) == b.amount > 0 /\ b.count >= 1

ResolvePlanless(h) ==
  /\ At(h, "resolve") /\ call[h].slug = NoSlug
  /\ ValidTerms(call[h].terms)
  /\ call' = [call EXCEPT ![h].step = "insert"]
  /\ UNCHANGED <<plans, defaultProvider, subs, answers, repriced>>

\* Any refusal or failure up to the INSERT, or a failing INSERT.
Refuse(h) ==
  /\ call[h] # NoCall
  /\ End(h)
  /\ UNCHANGED <<plans, defaultProvider, subs, answers, repriced>>

\* The row of a request handled today; plan_id is the plan's slug here.
Row(c, today) ==
  [plan |-> c.slug, terms |-> c.terms, provider |-> c.provider, created |-> today,
   start |-> today, end |-> PeriodEnd(today, c.terms.interval, c.terms.count), renewals |-> 0]

\* What a row shows of the request it was made for.
Shown(row) == [plan |-> row.plan, terms |-> row.terms, provider |-> row.provider,
               created |-> row.created]

Inserted(h, today) ==
  [subs EXCEPT ![call[h].key] = IF @ = NoRow THEN Row(call[h], today) ELSE @]

\* The caller is answered with its own request on a conflict.
OwnRowFault(h) ==
  /\ At(h, "insert")
  /\ \E today \in StartDays :
       /\ subs' = Inserted(h, today)
       /\ answers' = answers \cup {[key |-> call[h].key, shown |-> Shown(Row(call[h], today))]}
  /\ End(h)
  /\ UNCHANGED <<plans, defaultProvider, repriced>>

\* The INSERT, and on a conflict of the key the SELECT of the row there is.
InsertSubscription(h) ==
  /\ At(h, "insert")
  /\ \E today \in StartDays : subs' = Inserted(h, today)
  /\ answers' = answers \cup {[key |-> call[h].key, shown |-> Shown(subs'[call[h].key])]}
  /\ End(h)
  /\ UNCHANGED <<plans, defaultProvider, repriced>>

\* The INSERT takes effect and the caller is not told.
InsertUnanswered(h) ==
  /\ At(h, "insert")
  /\ \E today \in StartDays : subs' = Inserted(h, today)
  /\ End(h)
  /\ UNCHANGED <<plans, defaultProvider, answers, repriced>>

\* renewSubscription's AdvancePeriod, after a charge.
Renew(k) ==
  /\ subs[k] # NoRow /\ subs[k].renewals < MaxPeriods
  /\ LET t == subs[k].terms
     IN subs' = [subs EXCEPT ![k].start = subs[k].end,
                             ![k].end = PeriodEnd(@, t.interval, t.count),
                             ![k].renewals = @ + 1]
  /\ UNCHANGED <<plans, defaultProvider, call, answers, repriced>>

\* GetCapabilities again: without a connector there is no pay-per-use.
BillsPerUse(q) == q \in Registered \cap Metered

\* PATCH of the amount: gated by the subscription's provider, which never
\* changes, and whatever the amount is.
PatchAmount(k, a) ==
  /\ subs[k] # NoRow
  /\ BillsPerUse(subs[k].provider)
  /\ subs' = [subs EXCEPT ![k].terms.amount = a]
  /\ repriced' = repriced \cup {k}
  /\ UNCHANGED <<plans, defaultProvider, call, answers>>

CreateStep(h) ==
  \/ \E k \in Keys : BeginCreate(h, k)
  \/ ResolvePlan(h) \/ ResolvePlanless(h) \/ Refuse(h)
  \/ InsertSubscription(h) \/ InsertUnanswered(h)

Next ==
  \/ \E p \in Slugs : \/ \E b \in Bodies : CreateOrGet(p, b)
                      \/ \E active \in BOOLEAN : UpdatePlan(p, active)
                      \/ DeletePlan(p)
  \/ \E q \in Providers : SetDefaultProvider(q)
  \/ \E h \in Handlers : CreateStep(h)
  \/ \E k \in Keys : Renew(k) \/ \E a \in Prices : PatchAmount(k, a)

Spec == Init /\ [][Next]_vars

(***************************************************************************)
(* Properties.                                                             *)
(***************************************************************************)

\* Every column, request and answer has the type of the schema and the Go
\* declarations, and no stored count is zero.
TypeOK ==
  /\ plans \in [Slugs -> Plan \cup {NoRow}]
  /\ defaultProvider \in Providers
  /\ subs \in [Keys -> Subscription \cup {NoRow}]
  /\ call \in [Handlers -> Request \cup {NoCall}]
  /\ answers \subseteq Told
  /\ repriced \subseteq Keys

\* A subscription of a plan is billed at the plan's interval and count for ever,
\* and at its amount until a PATCH says otherwise, whenever the plan was read,
\* deactivated, or posted again under its slug with other terms; and no PATCH
\* says otherwise where the provider has no pay-per-use.
TermsOfThePlan ==
  \A k \in Keys :
    subs[k] # NoRow /\ subs[k].plan # NoSlug
    => /\ plans[subs[k].plan] # NoRow
       /\ LET own == subs[k].terms
              planned == plans[subs[k].plan].terms
          IN /\ own.interval = planned.interval /\ own.count = planned.count
             /\ \/ own.amount = planned.amount
                \/ k \in repriced /\ subs[k].provider \in Registered \cap Metered

\* No subscription of a plan is billed through a connector that providers.yml
\* denies plans, whether the request named it or the default supplied it.
NoPlanWhereGated ==
  \A k \in Keys : subs[k] # NoRow /\ subs[k].plan # NoSlug
                  => subs[k].provider \notin Registered \cap Gated

\* Everyone who used a key was told of the same subscription, the stored one,
\* with its plan, interval, count, provider and day of creation; and with the
\* same amount as long as no PATCH has changed it.  README.md:388 promises a
\* retry the same result for ever: that is more, since a retry after a PATCH is
\* told the new amount, and one after the plan was deactivated is refused.
OneSubscriptionPerKey ==
  \A a \in answers :
    /\ subs[a.key] # NoRow
    /\ LET row == Shown(subs[a.key])
       IN /\ [a.shown EXCEPT !.terms.amount = row.terms.amount] = row
          /\ a.key \notin repriced => a.shown.terms.amount = row.terms.amount

\* A period ends after it starts, unless the terms are a plan's with a negative
\* count, which only plans may have: such a subscription is due again at once
\* after each renewal.
PeriodsMoveForward ==
  \A k \in Keys :
    subs[k] # NoRow
    => \/ subs[k].end > subs[k].start
       \/ subs[k].plan # NoSlug /\ subs[k].terms.count < 0

\* However often a monthly or yearly subscription is renewed, and whichever
\* months it crosses, its period ends on the anniversary of its creation or at
\* most three days later: what AddDate adds at the end of a short month is
\* added once and never accumulates.
AnniversaryDrift ==
  \A k \in Keys :
    subs[k] # NoRow /\ subs[k].terms.interval \in {"month", "year"} /\ subs[k].terms.count > 0
    => LET months == Months(subs[k].terms.interval, (subs[k].renewals + 1) * subs[k].terms.count)
           expected == Anniversary(subs[k].created, months)
       IN expected <= subs[k].end /\ subs[k].end <= expected + 3
=============================================================================
