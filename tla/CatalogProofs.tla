---------------------------- MODULE CatalogProofs ----------------------------
(***************************************************************************)
(* What a subscription is billed by and when, proved for any number of     *)
(* plans, providers, keys, handlers and renewals, and any days.            *)
(***************************************************************************)
EXTENDS Catalog, CalendarProofs

(***************************************************************************)
(* The inductive invariant.                                                *)
(***************************************************************************)

\* Terms of a plan, under a provider that may have it; or valid ones.  A PATCH
\* leaves the interval and the count as they were found.
Planned(slug, terms, provider) ==
  /\ slug # NoSlug => /\ plans[slug] # NoRow
                      /\ terms.interval = plans[slug].terms.interval
                      /\ terms.count = plans[slug].terms.count
                      /\ provider \notin Registered \cap Gated
  /\ slug = NoSlug => terms.count > 0

\* The amount of a plan.
AtPlanPrice(slug, terms) == slug # NoSlug => terms.amount = plans[slug].terms.amount

\* An amount that is not the plan's is one a PATCH was allowed to bring.
PricedAt(k, row) ==
  AtPlanPrice(row.plan, row.terms) \/ (k \in repriced /\ row.provider \in Registered \cap Metered)

\* The months from the creation of a row to the end of its period.
MonthsBilled(row) == Months(row.terms.interval, (row.renewals + 1) * row.terms.count)

\* A period with a positive count has a length, and one in months is on its
\* course from the day of creation.
OnTime(row) ==
  /\ row.terms.count > 0 => row.end > row.start
  /\ row.terms.interval \in Monthly => OnCourse(row.created, MonthsBilled(row), row.end)

\* A handler that is about to insert has found terms; those of a plan are the
\* plan's still, whatever happened to it since it was read.
FoundInv ==
  \A h \in Handlers : At(h, "insert") =>
    /\ call[h].terms \in StoredTerms
    /\ Planned(call[h].slug, call[h].terms, call[h].provider)
    /\ AtPlanPrice(call[h].slug, call[h].terms)

RowsInv ==
  \A k \in Keys : subs[k] # NoRow =>
    /\ Planned(subs[k].plan, subs[k].terms, subs[k].provider)
    /\ PricedAt(k, subs[k])
    /\ OnTime(subs[k])

CatalogInv == TypeOK /\ FoundInv /\ RowsInv /\ OneSubscriptionPerKey

(***************************************************************************)
(* Plans.                                                                  *)
(***************************************************************************)

\* A plan keeps its terms: Upsert does not update, PATCH and DELETE do not
\* touch them.
PlansKept ==
  \A p \in Slugs : plans[p] # NoRow => plans'[p] # NoRow /\ plans'[p].terms = plans[p].terms

\* What is planned stays planned, and priced.
LEMMA PlannedKept ==
  ASSUME PlansKept, NEW slug \in SomeSlug, NEW terms, NEW provider,
         Planned(slug, terms, provider)
  PROVE  /\ slug # NoSlug => /\ plans'[slug] # NoRow
                             /\ terms.interval = plans'[slug].terms.interval
                             /\ terms.count = plans'[slug].terms.count
                             /\ provider \notin Registered \cap Gated
         /\ slug = NoSlug => terms.count > 0
         /\ AtPlanPrice(slug, terms) => (slug # NoSlug => terms.amount = plans'[slug].terms.amount)
BY DEF PlansKept, Planned, AtPlanPrice, SomeSlug

\* A step on plans or on the default provider.
LEMMA PlansStep ==
  ASSUME CatalogInv, PlansKept, plans' \in [Slugs -> Plan \cup {NoRow}],
         defaultProvider' \in Providers, UNCHANGED <<subs, call, answers, repriced>>
  PROVE  CatalogInv'
<1>1. TypeOK'
  BY DEF CatalogInv, TypeOK
<1>2. FoundInv'
  <2> SUFFICES ASSUME NEW h \in Handlers, At(h, "insert")
               PROVE  /\ call[h].terms \in StoredTerms
                      /\ Planned(call[h].slug, call[h].terms, call[h].provider)'
                      /\ AtPlanPrice(call[h].slug, call[h].terms)'
    BY DEF FoundInv, At
  <2>1. call[h].slug \in SomeSlug
    BY DEF CatalogInv, TypeOK, Request, At
  <2>2. /\ call[h].terms \in StoredTerms
        /\ Planned(call[h].slug, call[h].terms, call[h].provider)
        /\ AtPlanPrice(call[h].slug, call[h].terms)
    BY DEF CatalogInv, FoundInv
  <2> QED
    BY <2>1, <2>2, PlannedKept DEF Planned, AtPlanPrice
<1>3. RowsInv'
  <2> SUFFICES ASSUME NEW k \in Keys, subs[k] # NoRow
               PROVE  /\ Planned(subs[k].plan, subs[k].terms, subs[k].provider)'
                      /\ PricedAt(k, subs[k])'
                      /\ OnTime(subs[k])
    BY DEF RowsInv
  <2>1. subs[k].plan \in SomeSlug
    BY DEF CatalogInv, TypeOK, Subscription
  <2>2. /\ Planned(subs[k].plan, subs[k].terms, subs[k].provider)
        /\ PricedAt(k, subs[k]) /\ OnTime(subs[k])
    BY DEF CatalogInv, RowsInv
  <2>3. Planned(subs[k].plan, subs[k].terms, subs[k].provider)'
    BY <2>1, <2>2, PlannedKept DEF Planned
  <2>4. AtPlanPrice(subs[k].plan, subs[k].terms) => AtPlanPrice(subs[k].plan, subs[k].terms)'
    BY <2>1, <2>2, PlannedKept DEF AtPlanPrice
  <2> QED
    BY <2>2, <2>3, <2>4 DEF PricedAt
<1>4. OneSubscriptionPerKey'
  BY DEF CatalogInv, OneSubscriptionPerKey
<1> QED
  BY <1>1, <1>2, <1>3, <1>4 DEF CatalogInv

\* POST /v1/plans with defaults filled in; a slug that is taken keeps its plan.
LEMMA CreateOrGetStep ==
  ASSUME CatalogInv, NEW p \in Slugs, NEW b \in Bodies, CreateOrGet(p, b)
  PROVE  CatalogInv'
<1> DEFINE row == [terms |-> PlanTerms(b), active |-> TRUE]
<1>1. row \in Plan /\ row # NoRow
  <2>1. PlanTerms(b) \in StoredTerms
    BY CatalogAssumption DEF PlanTerms, StoredTerms, Terms
  <2>2. row \in Plan
    BY <2>1 DEF Plan
  <2> QED
    BY <2>2, CatalogAssumption
<1>2. /\ plans' = [plans EXCEPT ![p] = IF plans[p] = NoRow THEN row ELSE plans[p]]
      /\ UNCHANGED <<defaultProvider, subs, call, answers, repriced>>
  BY DEF CreateOrGet, Upserted
<1> HIDE DEF row
<1>3. plans' \in [Slugs -> Plan \cup {NoRow}] /\ PlansKept
  BY <1>1, <1>2 DEF CatalogInv, TypeOK, PlansKept
<1> QED
  BY <1>2, <1>3, PlansStep DEF CatalogInv, TypeOK

\* PATCH and DELETE of a plan that is there.
LEMMA ActivationStep ==
  ASSUME CatalogInv, NEW p \in Slugs, NEW active \in BOOLEAN,
         plans[p] # NoRow, plans' = [plans EXCEPT ![p].active = active],
         UNCHANGED <<defaultProvider, subs, call, answers, repriced>>
  PROVE  CatalogInv'
<1> DEFINE row == [plans[p] EXCEPT !.active = active]
<1>1. plans[p] \in Plan
  BY DEF CatalogInv, TypeOK
<1>2. row \in Plan /\ row # NoRow /\ row.terms = plans[p].terms
  <2>1. row \in Plan /\ row.terms = plans[p].terms
    BY <1>1 DEF Plan
  <2> QED
    BY <2>1, CatalogAssumption
<1>3. plans' = [plans EXCEPT ![p] = row]
  OBVIOUS
<1> HIDE DEF row
<1>4. plans' \in [Slugs -> Plan \cup {NoRow}] /\ PlansKept
  BY <1>2, <1>3 DEF CatalogInv, TypeOK, PlansKept
<1> QED
  BY <1>4, PlansStep DEF CatalogInv, TypeOK

(***************************************************************************)
(* Requests for a subscription.                                            *)
(***************************************************************************)

\* A handler comes to hold something else, the tables stay.
LEMMA CallStep ==
  ASSUME CatalogInv, NEW h \in Handlers, NEW x \in Request \cup {NoCall},
         call' = [call EXCEPT ![h] = x], UNCHANGED <<plans, defaultProvider, subs, answers, repriced>>,
         x # NoCall /\ x.step = "insert" =>
           /\ x.terms \in StoredTerms
           /\ Planned(x.slug, x.terms, x.provider) /\ AtPlanPrice(x.slug, x.terms)
  PROVE  CatalogInv'
<1>1. /\ call' \in [Handlers -> Request \cup {NoCall}] /\ call'[h] = x
      /\ \A g \in Handlers : g # h => call'[g] = call[g]
  BY DEF CatalogInv, TypeOK
<1>2. TypeOK'
  BY <1>1 DEF CatalogInv, TypeOK
<1>3. FoundInv'
  <2> SUFFICES ASSUME NEW g \in Handlers, call'[g] # NoCall, call'[g].step = "insert"
               PROVE  /\ call'[g].terms \in StoredTerms
                      /\ Planned(call'[g].slug, call'[g].terms, call'[g].provider)
                      /\ AtPlanPrice(call'[g].slug, call'[g].terms)
    BY DEF FoundInv, At, Planned, AtPlanPrice
  <2>1. CASE g = h
    BY <1>1, <2>1
  <2>2. CASE g # h
    BY <1>1, <2>2 DEF CatalogInv, FoundInv, At
  <2> QED
    BY <2>1, <2>2
<1>4. RowsInv' /\ OneSubscriptionPerKey'
  BY DEF CatalogInv, RowsInv, Planned, PricedAt, AtPlanPrice, OneSubscriptionPerKey
<1> QED
  BY <1>2, <1>3, <1>4 DEF CatalogInv

LEMMA BeginCreateStep ==
  ASSUME CatalogInv, NEW h \in Handlers, NEW k \in Keys, BeginCreate(h, k)
  PROVE  CatalogInv'
<1>1. PICK slug \in SomeSlug, b \in Bodies, q \in SomeProvider :
        call' = [call EXCEPT ![h] = [step |-> "resolve", key |-> k, slug |-> slug,
                                     provider |-> q, terms |-> b]]
  BY DEF BeginCreate, SomeSlug, SomeProvider, CatalogInv, TypeOK
<1> DEFINE x == [step |-> "resolve", key |-> k, slug |-> slug, provider |-> q, terms |-> b]
<1>2. x \in Request /\ x.step # "insert"
  BY CatalogAssumption DEF Request, Terms
<1>3. call' = [call EXCEPT ![h] = x] /\ UNCHANGED <<plans, defaultProvider, subs, answers, repriced>>
  BY <1>1 DEF BeginCreate
<1> HIDE DEF x
<1> QED
  BY <1>2, <1>3, CallStep

\* The plan's terms are copied when the plan is there and the provider has plans.
LEMMA ResolvePlanStep ==
  ASSUME CatalogInv, NEW h \in Handlers, ResolvePlan(h)
  PROVE  CatalogInv'
<1> DEFINE p == plans[call[h].slug]
           x == [call[h] EXCEPT !.step = "insert", !.terms = p.terms]
<1>1. /\ call[h] \in Request /\ call[h].slug \in Slugs /\ call[h].slug # NoSlug
      /\ p # NoRow /\ p \in Plan /\ SupportsPlans(call[h].provider)
  BY DEF ResolvePlan, At, CatalogInv, TypeOK, Request, SomeSlug
<1>2. call' = [call EXCEPT ![h] = x] /\ UNCHANGED <<plans, defaultProvider, subs, answers, repriced>>
  BY DEF ResolvePlan
<1>3. p.terms \in StoredTerms /\ StoredTerms \subseteq Terms
  BY <1>1 DEF Plan, StoredTerms
<1>4. /\ x \in Request /\ x.terms = p.terms /\ x.slug = call[h].slug
      /\ x.provider = call[h].provider
  BY <1>1, <1>3 DEF Request
<1>5. Planned(x.slug, x.terms, x.provider) /\ AtPlanPrice(x.slug, x.terms)
  BY <1>1, <1>4 DEF Planned, AtPlanPrice, SupportsPlans
<1> HIDE DEF x, p
<1> QED
  BY <1>2, <1>3, <1>4, <1>5, CallStep

\* Terms that come with the request pass the strict rules.
LEMMA ResolvePlanlessStep ==
  ASSUME CatalogInv, NEW h \in Handlers, ResolvePlanless(h)
  PROVE  CatalogInv'
<1> DEFINE x == [call[h] EXCEPT !.step = "insert"]
<1>1. /\ call[h] \in Request /\ call[h].slug = NoSlug /\ ValidTerms(call[h].terms)
  BY DEF ResolvePlanless, At, CatalogInv, TypeOK
<1>2. call' = [call EXCEPT ![h] = x] /\ UNCHANGED <<plans, defaultProvider, subs, answers, repriced>>
  BY DEF ResolvePlanless
<1>3. x \in Request /\ x.terms = call[h].terms /\ x.slug = NoSlug
  BY <1>1 DEF Request
<1>4. call[h].terms \in StoredTerms /\ call[h].terms.count > 0
  BY <1>1 DEF Request, Terms, StoredTerms, ValidTerms
<1>5. Planned(x.slug, x.terms, x.provider) /\ AtPlanPrice(x.slug, x.terms)
  BY <1>3, <1>4 DEF Planned, AtPlanPrice
<1> HIDE DEF x
<1> QED
  BY <1>2, <1>3, <1>4, <1>5, CallStep

(***************************************************************************)
(* Rows of subscriptions.                                                  *)
(***************************************************************************)

\* The row of a request that has found its terms; its first period is one
\* interval from today.
LEMMA NewRow ==
  ASSUME NEW c \in Request, c.terms \in StoredTerms, NEW today \in StartDays
  PROVE  LET row == Row(c, today)
         IN /\ row \in Subscription /\ row # NoRow
            /\ row.plan = c.slug /\ row.terms = c.terms /\ row.provider = c.provider
            /\ OnTime(row)
<1> DEFINE interval == c.terms.interval
           count == c.terms.count
           end == PeriodEnd(today, interval, count)
           row == Row(c, today)
<1>1. today \in Int /\ interval \in Intervals /\ count \in Int
  BY CatalogAssumption DEF StoredTerms, Terms
<1>2. end \in Int /\ (count > 0 => end > today)
  BY <1>1, PeriodMovesForward
<1> HIDE DEF end
<1>3. row = [plan |-> c.slug, terms |-> c.terms, provider |-> c.provider, created |-> today,
             start |-> today, end |-> end, renewals |-> 0]
  BY DEF Row, end
<1>4. row \in Subscription
  BY <1>1, <1>2, <1>3, CatalogAssumption DEF Request, Subscription
<1>5. interval \in Monthly => OnCourse(today, Months(interval, count), end)
  <2> SUFFICES ASSUME interval \in Monthly PROVE OnCourse(today, Months(interval, count), end)
    OBVIOUS
  <2>1. OnCourse(today, 0, today)
        /\ \A months \in Int, e \in Int : OnCourse(today, months, e) =>
             OnCourse(today, months + Months(interval, count), PeriodEnd(e, interval, count))
    BY <1>1, PeriodsOnCourse
  <2>2. OnCourse(today, 0 + Months(interval, count), end)
    BY <1>1, <2>1 DEF end
  <2>3. 0 + Months(interval, count) = Months(interval, count)
    BY <1>1 DEF Months
  <2> QED
    BY <2>2, <2>3
<1>6. (0 + 1) * count = count
  BY <1>1
<1>7. OnTime(row)
  BY <1>2, <1>3, <1>5, <1>6 DEF OnTime, MonthsBilled
<1> HIDE DEF row
<1>8. row # NoRow
  BY <1>4, CatalogAssumption
<1> QED
  BY <1>3, <1>4, <1>7, <1>8 DEF row

\* A row after AdvancePeriod.
Renewed(row) ==
  [row EXCEPT !.start = row.end,
              !.end = PeriodEnd(row.end, row.terms.interval, row.terms.count),
              !.renewals = row.renewals + 1]

\* Renewal moves a row on by one interval and changes nothing else of it.
LEMMA RenewedRow ==
  ASSUME NEW row \in Subscription, row.renewals < MaxPeriods, OnTime(row)
  PROVE  /\ Renewed(row) \in Subscription /\ Renewed(row) # NoRow
         /\ Shown(Renewed(row)) = Shown(row)
         /\ OnTime(Renewed(row))
<1> DEFINE interval == row.terms.interval
           count == row.terms.count
           end == PeriodEnd(row.end, interval, count)
           n == row.renewals + 1
<1>1. /\ row.end \in Int /\ row.created \in Int /\ row.renewals \in Int
      /\ interval \in Intervals /\ count \in Int
  BY CatalogAssumption DEF Subscription, StoredTerms, Terms
<1>2. end \in Int /\ (count > 0 => end > row.end)
  BY <1>1, PeriodMovesForward
<1>3. n \in 0..MaxPeriods
  BY CatalogAssumption DEF Subscription
<1> HIDE DEF end, n
<1>4. Renewed(row) = [row EXCEPT !.start = row.end, !.end = end, !.renewals = n]
  BY DEF Renewed, end, n
<1>5. /\ Renewed(row) \in Subscription
      /\ Renewed(row).start = row.end /\ Renewed(row).end = end /\ Renewed(row).renewals = n
      /\ Renewed(row).terms = row.terms /\ Renewed(row).created = row.created
      /\ Renewed(row).plan = row.plan /\ Renewed(row).provider = row.provider
  BY <1>1, <1>2, <1>3, <1>4 DEF Subscription
<1>6. interval \in Monthly => OnCourse(row.created, Months(interval, (n + 1) * count), end)
  <2> SUFFICES ASSUME interval \in Monthly
               PROVE  OnCourse(row.created, Months(interval, (n + 1) * count), end)
    OBVIOUS
  <2>1. PICK m \in Int : m = Months(interval, (row.renewals + 1) * count)
    BY <1>1 DEF Months
  <2>2. OnCourse(row.created, m, row.end)
    BY <2>1 DEF OnTime, MonthsBilled
  <2>3. OnCourse(row.created, m + Months(interval, count), end)
    BY <1>1, <2>2, PeriodsOnCourse DEF end
  <2>4. m + Months(interval, count) = Months(interval, (n + 1) * count)
    <3>1. (n + 1) * count = (row.renewals + 1) * count + count
      BY <1>1 DEF n
    <3>2. PICK x \in Int : x = (row.renewals + 1) * count
      BY <1>1
    <3> QED
      BY <1>1, <2>1, <3>1, <3>2 DEF Months
  <2> QED
    BY <2>3, <2>4
<1>7. OnTime(Renewed(row))
  BY <1>2, <1>5, <1>6 DEF OnTime, MonthsBilled
<1>8. Renewed(row) # NoRow
  BY <1>5, CatalogAssumption
<1> QED
  BY <1>5, <1>7, <1>8 DEF Shown

\* A row of one subscription at two times: only the amount may differ, and
\* what else is not shown.
SameButPrice(row, old) == Shown(row) = [Shown(old) EXCEPT !.terms.amount = row.terms.amount]

\* What two rows of a subscription show, field by field.
LEMMA ShownFields ==
  ASSUME NEW row \in Subscription, NEW old \in Subscription
  PROVE  SameButPrice(row, old)
         <=> /\ row.plan = old.plan /\ row.provider = old.provider /\ row.created = old.created
             /\ row.terms.interval = old.terms.interval /\ row.terms.count = old.terms.count
<1>1. row.terms \in StoredTerms /\ old.terms \in StoredTerms
  BY DEF Subscription
<1>2. row.terms = [old.terms EXCEPT !.amount = row.terms.amount]
      <=> row.terms.interval = old.terms.interval /\ row.terms.count = old.terms.count
  BY <1>1 DEF StoredTerms, Terms
<1>3. [Shown(old) EXCEPT !.terms.amount = row.terms.amount]
      = [plan |-> old.plan, terms |-> [old.terms EXCEPT !.amount = row.terms.amount],
         provider |-> old.provider, created |-> old.created]
  BY DEF Shown
<1> QED
  BY <1>2, <1>3 DEF SameButPrice, Shown

\* What a caller may have been told of a row.
ShownRow == [plan : SomeSlug, terms : StoredTerms, provider : SomeProvider, created : Int]
ToldOf(shown, row) == [shown EXCEPT !.terms.amount = row.terms.amount] = Shown(row)

LEMMA ToldFields ==
  ASSUME NEW shown \in ShownRow, NEW row \in Subscription
  PROVE  ToldOf(shown, row)
         <=> /\ shown.plan = row.plan /\ shown.provider = row.provider
             /\ shown.created = row.created
             /\ shown.terms.interval = row.terms.interval
             /\ shown.terms.count = row.terms.count
BY DEF ToldOf, ShownRow, Shown, Subscription, StoredTerms, Terms

\* A row appears, is renewed or repriced, and callers are told what is stored.
LEMMA RowStep ==
  ASSUME CatalogInv, NEW k \in Keys, NEW row \in Subscription, row # NoRow,
         subs' = [subs EXCEPT ![k] = row], UNCHANGED <<plans, defaultProvider>>,
         repriced' \subseteq Keys, repriced \subseteq repriced',
         Planned(row.plan, row.terms, row.provider), OnTime(row),
         \/ AtPlanPrice(row.plan, row.terms)
         \/ k \in repriced' /\ row.provider \in Registered \cap Metered,
         subs[k] # NoRow => /\ SameButPrice(row, subs[k])
                            /\ k \notin repriced' => row.terms.amount = subs[k].terms.amount,
         call' \in [Handlers -> Request \cup {NoCall}],
         \A h \in Handlers : call'[h] = call[h] \/ call'[h] = NoCall,
         answers' \subseteq answers \cup {[key |-> k, shown |-> Shown(row)]}
  PROVE  CatalogInv'
<1>1. /\ subs' \in [Keys -> Subscription \cup {NoRow}] /\ subs'[k] = row
      /\ \A l \in Keys : l # k => subs'[l] = subs[l]
  BY DEF CatalogInv, TypeOK
<1>2. [key |-> k, shown |-> Shown(row)] \in Told
  BY DEF Told, Shown, Subscription
<1>3. TypeOK'
  BY <1>1, <1>2 DEF CatalogInv, TypeOK
<1>4. FoundInv'
  BY DEF CatalogInv, FoundInv, At, Planned, AtPlanPrice
<1>5. RowsInv'
  BY <1>1 DEF CatalogInv, RowsInv, Planned, PricedAt, AtPlanPrice
<1>6. OneSubscriptionPerKey'
  <2> SUFFICES ASSUME NEW a \in answers'
               PROVE  /\ subs'[a.key] # NoRow
                      /\ ToldOf(a.shown, subs'[a.key])
                      /\ a.key \notin repriced' => a.shown.terms.amount = subs'[a.key].terms.amount
    BY DEF OneSubscriptionPerKey, ToldOf, Shown
  <2>1. CASE a \in answers
    <3>1. /\ a.key \in Keys /\ subs[a.key] # NoRow /\ ToldOf(a.shown, subs[a.key])
          /\ a.key \notin repriced => a.shown.terms.amount = subs[a.key].terms.amount
      BY <2>1 DEF CatalogInv, OneSubscriptionPerKey, TypeOK, Told, ToldOf, Shown
    <3>2. CASE a.key = k
      <4>1. subs[k] \in Subscription /\ subs[k] # NoRow /\ a.shown \in ShownRow
        BY <2>1, <3>1, <3>2 DEF CatalogInv, TypeOK, Told, ShownRow
      <4>2. SameButPrice(row, subs[k]) /\ ToldOf(a.shown, subs[k])
        BY <3>1, <3>2, <4>1
      <4>3. ToldOf(a.shown, row)
        BY <4>1, <4>2, ShownFields, ToldFields
      <4> QED
        BY <1>1, <3>1, <3>2, <4>1, <4>3
    <3> QED
      BY <1>1, <3>1, <3>2
  <2>2. CASE a = [key |-> k, shown |-> Shown(row)]
    <3>1. Shown(row) \in ShownRow /\ ToldOf(Shown(row), row)
      BY ToldFields, <1>2 DEF Shown, Told, ShownRow
    <3> QED
      BY <1>1, <2>2, <3>1 DEF Shown
  <2> QED
    BY <2>1, <2>2
<1> QED
  BY <1>3, <1>4, <1>5, <1>6 DEF CatalogInv

\* INSERT ... ON CONFLICT: a new row has what the handler found, an old one is
\* left as it is and answered with.
LEMMA InsertStep ==
  ASSUME CatalogInv, NEW h \in Handlers, At(h, "insert"), NEW today \in StartDays,
         subs' = Inserted(h, today), End(h), UNCHANGED <<plans, defaultProvider, repriced>>,
         answers' \subseteq answers \cup {[key |-> call[h].key, shown |-> Shown(subs'[call[h].key])]}
  PROVE  CatalogInv'
<1> DEFINE k == call[h].key
           row == IF subs[k] = NoRow THEN Row(call[h], today) ELSE subs[k]
<1>1. /\ call[h] \in Request /\ call[h].terms \in StoredTerms
      /\ Planned(call[h].slug, call[h].terms, call[h].provider)
      /\ AtPlanPrice(call[h].slug, call[h].terms)
  BY DEF CatalogInv, TypeOK, FoundInv, At
<1>2. k \in Keys /\ subs' = [subs EXCEPT ![k] = row] /\ subs'[k] = row
  BY <1>1 DEF Inserted, Request, CatalogInv, TypeOK
<1>3. /\ row \in Subscription /\ row # NoRow /\ OnTime(row)
      /\ Planned(row.plan, row.terms, row.provider)
      /\ \/ AtPlanPrice(row.plan, row.terms)
         \/ k \in repriced /\ row.provider \in Registered \cap Metered
  <2>1. CASE subs[k] = NoRow
    BY <1>1, <2>1, NewRow
  <2>2. CASE subs[k] # NoRow
    BY <1>2, <2>2 DEF CatalogInv, TypeOK, RowsInv, PricedAt
  <2> QED
    BY <2>1, <2>2
<1>4. /\ call' \in [Handlers -> Request \cup {NoCall}]
      /\ \A g \in Handlers : call'[g] = call[g] \/ call'[g] = NoCall
  BY DEF End, CatalogInv, TypeOK
<1>5. subs[k] # NoRow => SameButPrice(row, subs[k]) /\ row.terms.amount = subs[k].terms.amount
  BY <1>3, ShownFields
<1>6. answers' \subseteq answers \cup {[key |-> k, shown |-> Shown(row)]}
  BY <1>2
<1> HIDE DEF k, row
<1> QED
  BY <1>2, <1>3, <1>4, <1>5, <1>6, RowStep DEF CatalogInv, TypeOK

\* AdvancePeriod leaves all that is shown.
LEMMA RenewStep ==
  ASSUME CatalogInv, NEW k \in Keys, Renew(k)
  PROVE  CatalogInv'
<1>1. /\ subs[k] \in Subscription /\ subs[k] # NoRow /\ subs[k].renewals < MaxPeriods
      /\ OnTime(subs[k]) /\ Planned(subs[k].plan, subs[k].terms, subs[k].provider)
      /\ \/ AtPlanPrice(subs[k].plan, subs[k].terms)
         \/ k \in repriced /\ subs[k].provider \in Registered \cap Metered
  BY DEF Renew, CatalogInv, TypeOK, RowsInv, PricedAt
<1> DEFINE row == Renewed(subs[k])
<1>2. subs' = [subs EXCEPT ![k] = row] /\ UNCHANGED <<plans, defaultProvider, call, answers, repriced>>
  BY DEF Renew, Renewed
<1>3. row \in Subscription /\ row # NoRow /\ OnTime(row) /\ Shown(row) = Shown(subs[k])
  BY <1>1, RenewedRow
<1>4. row.plan = subs[k].plan /\ row.terms = subs[k].terms /\ row.provider = subs[k].provider
  BY <1>3 DEF Shown
<1>5. SameButPrice(row, subs[k])
  BY <1>1, <1>3, <1>4, ShownFields DEF Shown
<1> HIDE DEF row
<1> QED
  BY <1>1, <1>2, <1>3, <1>4, <1>5, RowStep DEF CatalogInv, TypeOK

\* PATCH of the amount, where the provider bills per use.
LEMMA PatchAmountStep ==
  ASSUME CatalogInv, NEW k \in Keys, NEW a \in Prices, PatchAmount(k, a)
  PROVE  CatalogInv'
<1>1. /\ subs[k] \in Subscription /\ subs[k] # NoRow /\ OnTime(subs[k])
      /\ Planned(subs[k].plan, subs[k].terms, subs[k].provider)
      /\ subs[k].provider \in Registered \cap Metered
  BY DEF PatchAmount, BillsPerUse, CatalogInv, TypeOK, RowsInv
<1> DEFINE terms == [subs[k].terms EXCEPT !.amount = a]
           row == [subs[k] EXCEPT !.terms = terms]
<1>2. /\ terms \in StoredTerms
      /\ terms.interval = subs[k].terms.interval /\ terms.count = subs[k].terms.count
  BY <1>1, CatalogAssumption DEF Subscription, StoredTerms, Terms
<1>3. subs' = [subs EXCEPT ![k] = row]
      /\ repriced' = repriced \cup {k} /\ UNCHANGED <<plans, defaultProvider, call, answers>>
  BY DEF PatchAmount
<1> HIDE DEF terms
<1>4. /\ row \in Subscription
      /\ row.plan = subs[k].plan /\ row.provider = subs[k].provider /\ row.terms = terms
      /\ row.created = subs[k].created /\ row.start = subs[k].start /\ row.end = subs[k].end
      /\ row.renewals = subs[k].renewals
  BY <1>1, <1>2 DEF Subscription
<1> HIDE DEF row
<1>5. row # NoRow /\ SameButPrice(row, subs[k])
  BY <1>1, <1>2, <1>4, ShownFields, CatalogAssumption
<1>6. Planned(row.plan, row.terms, row.provider) /\ OnTime(row)
  BY <1>1, <1>2, <1>4 DEF Planned, OnTime, MonthsBilled
<1> QED
  BY <1>1, <1>3, <1>4, <1>5, <1>6, RowStep DEF CatalogInv, TypeOK

(***************************************************************************)
(* All together.                                                           *)
(***************************************************************************)

\* No plans, no subscriptions, and a default provider with a connector.
LEMMA InitCatalogInv == Init => CatalogInv
<1> SUFFICES ASSUME Init PROVE CatalogInv
  OBVIOUS
<1>1. TypeOK
  BY CatalogAssumption DEF Init, TypeOK
<1> QED
  BY <1>1 DEF Init, CatalogInv, FoundInv, RowsInv, OneSubscriptionPerKey, At

\* The invariant survives every statement of every handler.
LEMMA NextCatalogInv == CatalogInv /\ [Next]_vars => CatalogInv'
<1> SUFFICES ASSUME CatalogInv, [Next]_vars PROVE CatalogInv'
  OBVIOUS
<1>1. ASSUME NEW p \in Slugs,
             \/ \E b \in Bodies : CreateOrGet(p, b)
             \/ \E active \in BOOLEAN : UpdatePlan(p, active)
             \/ DeletePlan(p)
      PROVE  CatalogInv'
  BY <1>1, CreateOrGetStep, ActivationStep DEF UpdatePlan, DeletePlan
<1>2. ASSUME NEW q \in Providers, SetDefaultProvider(q)
      PROVE  CatalogInv'
  BY <1>2, PlansStep DEF SetDefaultProvider, CatalogInv, TypeOK, PlansKept
<1>3. ASSUME NEW h \in Handlers, CreateStep(h)
      PROVE  CatalogInv'
  <2>1. CASE Refuse(h)
    BY <2>1, CallStep DEF Refuse, End
  <2>2. CASE InsertSubscription(h)
    BY <2>2, InsertStep DEF InsertSubscription
  <2>3. CASE InsertUnanswered(h)
    BY <2>3, InsertStep DEF InsertUnanswered
  <2> QED
    BY <1>3, <2>1, <2>2, <2>3, BeginCreateStep, ResolvePlanStep, ResolvePlanlessStep DEF CreateStep
<1>4. CASE UNCHANGED vars
  BY <1>4, PlansStep DEF vars, CatalogInv, TypeOK, PlansKept
<1> QED
  BY <1>1, <1>2, <1>3, <1>4, RenewStep, PatchAmountStep DEF Next

(***************************************************************************)
(* What a subscriber may rely on.                                          *)
(***************************************************************************)

\* The invariant above holds in every state of plans and subscriptions.
THEOREM CatalogInductive == Spec => []CatalogInv
BY InitCatalogInv, NextCatalogInv, PTL DEF Spec

\* Plans, rows and requests keep their types, whatever calendar days come up.
THEOREM CatalogTypes == Spec => []TypeOK
<1>1. CatalogInv => TypeOK
  BY DEF CatalogInv
<1> QED
  BY <1>1, CatalogInductive, PTL

\* Between SubscriptionService.Create reading a plan and the INSERT, and ever
\* after, the terms copied are those of the plan, but for an amount that a PATCH
\* brought where the provider has pay-per-use.
THEOREM BilledByThePlan == Spec => []TermsOfThePlan
<1>1. CatalogInv => TermsOfThePlan
  BY DEF CatalogInv, RowsInv, Planned, PricedAt, AtPlanPrice, TermsOfThePlan
<1> QED
  BY <1>1, CatalogInductive, PTL

\* A provider that providers.yml denies plans never bills one, though the
\* default provider may change while the handler runs.
THEOREM GatesHold == Spec => []NoPlanWhereGated
<1>1. CatalogInv => NoPlanWhereGated
  BY DEF CatalogInv, RowsInv, Planned, NoPlanWhereGated
<1> QED
  BY <1>1, CatalogInductive, PTL

\* Whoever used an Idempotency-Key was answered with the one row stored under
\* it, whichever handler inserted it and however often it was renewed since; and
\* with its amount, until a PATCH changes that.
THEOREM KeysNameOneSubscription == Spec => []OneSubscriptionPerKey
<1>1. CatalogInv => OneSubscriptionPerKey
  BY DEF CatalogInv
<1> QED
  BY <1>1, CatalogInductive, PTL

\* Only a plan's negative interval_count, which PlanService lets through, makes
\* a period that does not move forward.
THEOREM OnlyPlansGoBack == Spec => []PeriodsMoveForward
<1>1. CatalogInv => PeriodsMoveForward
  <2> SUFFICES ASSUME CatalogInv, NEW k \in Keys, subs[k] # NoRow
               PROVE  \/ subs[k].end > subs[k].start
                      \/ subs[k].plan # NoSlug /\ subs[k].terms.count < 0
    BY DEF PeriodsMoveForward
  <2>1. subs[k].terms.count \in Int /\ subs[k].terms.count # 0
    BY DEF CatalogInv, TypeOK, Subscription, StoredTerms, Terms
  <2>2. Planned(subs[k].plan, subs[k].terms, subs[k].provider) /\ OnTime(subs[k])
    BY DEF CatalogInv, RowsInv
  <2> QED
    BY <2>1, <2>2 DEF Planned, OnTime
<1> QED
  BY <1>1, CatalogInductive, PTL

\* After any number of renewals, of any positive count of months or years and
\* from any day, AddDate is at most three days past the anniversary.
THEOREM DriftIsBounded == Spec => []AnniversaryDrift
<1>1. CatalogInv => AnniversaryDrift
  <2> SUFFICES ASSUME CatalogInv, NEW k \in Keys, subs[k] # NoRow,
                      subs[k].terms.interval \in Monthly
               PROVE  LET expected == Anniversary(subs[k].created, MonthsBilled(subs[k]))
                      IN expected <= subs[k].end /\ subs[k].end <= expected + 3
    BY DEF AnniversaryDrift, MonthsBilled, Monthly
  <2>1. /\ subs[k].created \in Int /\ subs[k].end \in Int
        /\ subs[k].renewals \in Int /\ subs[k].terms.count \in Int
    BY DEF CatalogInv, TypeOK, Subscription, StoredTerms, Terms
  <2>2. MonthsBilled(subs[k]) \in Int
    BY <2>1 DEF MonthsBilled, Months
  <2>3. OnCourse(subs[k].created, MonthsBilled(subs[k]), subs[k].end)
    BY DEF CatalogInv, RowsInv, OnTime
  <2> QED
    BY <2>1, <2>2, <2>3, CourseIsNear
<1> QED
  BY <1>1, CatalogInductive, PTL
=============================================================================
