# billax: a formal model

TLA+ specifications of billax (the `payd` server), checked with TLC and, where
it says so, proved with TLAPS. Paths are relative to the repository root; line
numbers are those of the modelled commit. `PROJECT.json` lists the components,
the runs, the mutants, the source lines behind each definition, the hazards,
the findings and the theorems.

## The system

billax bills subscriptions on behalf of tenants. One process serves a REST API
and runs a background loop, the *lifecycle runner*, over one PostgreSQL
database; charges go to a payment provider (Mercado Pago). The operations guide
(`docs/OPERATIONS.md:314`) tells operators to run several instances behind a
load balancer, so several runners work on the same tables.

### Inventory

| Component | State it keeps | Operations | Talks to | Modelled in |
|---|---|---|---|---|
| Subscription lifecycle `internal/subscription/lifecycle.go`, `migrations/009` | none between passes; in a pass, the rows it listed | `RunRenewals`, `RunTrialExpiry`, `RunPastDueExpiry`, in this order, at every tick | subscriptions, payments, credentials, provider | `Lifecycle` |
| Subscription API `internal/subscription/{handler,service,repository}.go` | table `subscriptions` | create (idempotent by key), list, patch, cancel | plans, adapter | `Lifecycle` (status, periods, flags), `Catalog` (creation), `Listing`; partly |
| Payments `internal/payment` | table `payments`, unique on (tenant, idempotency key) | create: charge, then `INSERT ... ON CONFLICT DO NOTHING`; reads | adapter | `Charging`, for renewals `Lifecycle`; `Listing` |
| Provider adapter, Mercado Pago connector `internal/provider` | registry; none per charge | charge, refund, capabilities, retry on 429 and transport errors | provider | `Charging`, `Catalog`; partly |
| Provider credentials `internal/providercredentials` | encrypted config per (tenant, provider) | set, get, delete, find by webhook secret | database | `Charging`, `Lifecycle` |
| Plans `internal/plan` | table `plans`, unique on (tenant, slug) | create or get, patch, deactivate | database | `Catalog`, `Listing` |
| Rate limiter and router `internal/middleware/{rate_limit,router}.go` | one token bucket per tenant | take a token, report the rest | request context | `RateLimiter` |
| Authentication, row-level security `internal/middleware/auth.go` | a setting on a pooled connection | identify the tenant, set it | pool, API keys | `Tenants`; partly |
| Tenants, bootstrap `internal/tenant`, `cmd/payd/main.go` | tenants, API keys | signup, keys, bootstrap at start | database, back office | `Tenants`, `Onboarding` |
| Backoffice users `internal/backoffice` | users, roles, JWT | login, create, invite, change password, deactivate | database, bcrypt | `Backoffice`, `Onboarding`; partly |
| Webhooks `internal/webhook` | none | find the tenant, verify, log, answer 200 | credentials | `Charging` |
| Configuration, metrics, errors, validation, crypto, pool | none of their own | | | not modelled |
| Web interface `ui` | browser | | REST API | not modelled |

### What is hard, and what correctness means

* **Renewal** is a sequence of six statements over three systems (list,
  credentials, charge, payment row, period), with no transaction around them.
  It can be cut by a crash or a lost answer between any two, repeated by the
  next pass, and run by two instances at once, while the tenant replaces the
  account that is charged. Correct means: every period is charged at most once
  in an account; no period is entered unpaid; what `payments` says is what the
  provider did.
* **Jobs against clients.** The jobs and the API overwrite the same columns
  with UPDATEs that name a row but not the state it was read in. Correct means
  that decisions taken on old reads still respect the transition rules.
* **Queues.** The three lists are cut at 100 rows; rows that cannot be renewed
  must not starve others, and one job's failure must not stop the next one.
* **Client payments** are charged before the local idempotency check, over a
  network that loses and repeats, while credentials are replaced. Correct
  means: one charge per key and account, one stored payment, one answer.
* **Subscription creation** reads the default provider, the plan and the
  capabilities and inserts, in four statements, while plans change. Correct
  means: the terms billed are the plan's until a PATCH changes the amount, one
  subscription per key.
* **Signup and bootstrap** are several statements each and meet each other,
  themselves in other instances, and their own earlier halves after a crash.
  Correct means: a 201 can be relied on, bootstrap is idempotent, every
  instance serves, no tenant has users without an admin.
* **Keys** are found by a prefix that is not unique. Correct means: never
  served as another tenant.
* **The token bucket** does arithmetic on elapsed time under two locks taken
  and given up in turn. Correct means: in no window more than the limit.
* **Calendar periods** cross months of different lengths. Correct means: the
  period ends near the anniversary, however often it is renewed.
* **Pagination** meets inserts, and depends on a cursor's format.

## The modules

| Module | What it is |
|---|---|
| `BillingLedger` | what recurring billing promises, abstractly: `Open`, `Take`, `Record`, `Advance` |
| `Lifecycle` | subscriptions, API writes, runners, provider, clock and faults; its properties |
| `LifecycleInvariant` | the inductive invariants: `IInv`, and `FreshInv` and `SettledInv` for a single instance |
| `LifecycleProofs`, `LedgerProofs`, `OneInstanceProofs` | its safety theorems; that it implements `BillingLedger`; what one instance guarantees besides |
| `LifecycleClaims` | statements of comments and docs that the code does not meet |
| `IdempotentCharge` | what an `Idempotency-Key` on a payment promises, abstractly: `Take`, `Settle`, `File`, `Tell` |
| `Charging`, `ChargingProofs` | client payments with retries, credentials, settlements and webhooks; that they implement `IdempotentCharge` |
| `Calendar`, `CalendarProofs` | `AddDate`, periods, and the anniversary as the reference; facts about all of them |
| `Catalog`, `CatalogProofs` | plans, the default provider, creation of subscriptions, and their periods; extends `Calendar` |
| `Tenants` | tables of tenants and API keys, and authentication |
| `Backoffice` | users, tokens, passwords |
| `Onboarding`, `OnboardingProofs` | signup and bootstrap over both; extends `Tenants` and `Backoffice` |
| `RateLimiter`, `RateLimiterProofs` | token buckets and the middleware's steps |
| `Listing` | cursor pagination |
| `MCLifecycle`, `MCCharging`, `MCCatalog`, `MCOnboarding` | values for the constants, symmetry, bounds |

### Lifecycle, variable by variable

`status`, `createdAt`, `periodStart`, `periodEnd`, `trialEndsAt`,
`cancelAtPeriodEnd` and `canceledAtSet` are columns of `subscriptions`, one
function from rows to values each. `payments` holds the rows renewals write;
`charges` what exists at the provider, each charge in one account;
`credentials` the account each tenant has configured, or `NoAccount`. A tenant
has one provider here, which is what tells tenants and providers apart for a
renewal; `SetProviderConfig` replaces the account, as the upsert does
(`providercredentials/repository.go:98-103`). A subscription with no provider name is
listed for renewal like the others (the column is `''`, not NULL), finds no
credentials and becomes `past_due`. For each runner, `pc` says at which
statement it is, `todo` which listed rows are left, `cur` the row in hand,
`config` the account fetched for it, `answer` the provider's answer, `cutoff`
the end of the grace period it computed when its pass began. `patch` holds the
PATCH requests between their read and their write. `touched` is history: the
subscriptions whose status a client wrote since the runner's last list; no
guard reads it.

Every statement that reaches the database or the provider is one action:

| Code | Action |
|---|---|
| `runAllJobs`, computing `now` and the cut-off | `StartPass` |
| the three list queries, with their order and limit, or their failure | `ListDue`, `ListTrials`, `ListOverdue` |
| `renewSubscription`: credentials | `FetchCredentials` |
| the charge: answered; refused or never sent; made, with every answer lost | `ChargeAnswered`, `ChargeRefused`, `ChargeAnswerLost` |
| the payment row, inserted or already there, or an error before or after its commit | `RecordPayment` |
| `AdvancePeriod`, `UpdateStatus` | `AdvancePeriod`, `MarkPastDue`, `ActivateTrial`, `ExpirePastDue` |
| process death, or shutdown inside a pass | `Crash` |
| `Create`, `Update` (read and validation; UPDATE), `Cancel`, credential changes | `CreateSubscription`, `BeginPatch`, `CommitPatch`, `DropPatch`, `CancelNow`, `CancelAtEnd`, `SetProviderConfig`, `DeleteProviderConfig` |

Abstractions, and why they lose nothing the properties speak of:

* Time is a natural number; an interval is a number of ticks, at least a day,
  forward or backward (`SubsAssumption`): `plan/service.go:43` and 132-169 take
  a negative `interval_count`, `AddDate` goes back by it, and such a
  subscription is always due again. That a renewal moves the period by at least
  a day, always in the same direction, is all the module relies on; that months
  differ in length is left to `Calendar` and `Catalog`.
* The provider is external. Asked twice in one account with the same
  idempotency key it returns the charge it made before, for as long as the
  model runs; asked with a key new to the account it makes a charge with any of
  the statuses of `Outcomes`.
* Amounts, currencies, tags and identifiers do not appear; a renewal charges
  the amount its list returned. A subscription key is unique, so it stands for
  its row. Retries inside the connector are part of one `Charge...` action,
  since they carry one key.
* The runner's statements are assumed to see the rows they name (the server
  connects as the owner of the tables, for which row-level security is not
  forced). A statement that hits no row is one of the faults.
* A PATCH that names no lifecycle field, and a creation that meets its own
  idempotency key again, change none of these columns.

### Charging

`credentials` is the provider account a tenant has stored; `call` the handlers
of `POST .../payments` between their steps; `sent` every request that may reach
the provider, at any time and any number of times; `charges` the provider's
payments; `owed` those whose last change no webhook was acknowledged for;
`rows` the table, one row per key. `answers` is history.

| Code | Action |
|---|---|
| `Handler.CreatePayment`, `GetProviderConfig` | `BeginCall` |
| one attempt of `doWithRetry`: sent; 2xx; transport error, timeout or 429; anything else or the last of those | `Send`, `Answered`, `TryAgain`, `GiveUp` |
| `PaymentService.CreatePayment` after the charge, inserted or conflicting; its answer lost; refused by the database | `Record`, `RecordUnanswered`, `RecordFails` |
| the provider: a request arrives, a payment changes its status | `ProviderCharges`, `ProviderSettles` |
| the webhook handler: tenant by secret, acknowledged, dropped | `HandleWebhook` |
| `SetProviderConfig`, `DeleteProviderConfig` | same names |

The provider deduplicates by header within an account and never forgets: this
is external, and all of `ChargedOnce` rests on it. A key stands for a request
with its body, so the same key with another amount is left out. `Recordable`
are the keys whose body names a subscription that exists. A payment's status is
written once, by its INSERT, and no action changes it; see below for what the
guide says of that.

`IdempotentCharge` is the same endpoint as a client sees it. `Promise` maps the
provider's payments to the charges `taken`, the rows of the table to what is
`filed`, and `answers` to what was `told`; only `ProviderCharges`,
`ProviderSettles`, `Record` and `RecordUnanswered` show in it.

### Catalog and Calendar

`plans` and `subs` are the tables, by slug and by idempotency key;
`defaultProvider` a column of `tenants`; `call` the creations under way, at the
statement they are at (`resolve`, `insert`). `CreateOrGet`, `UpdatePlan`,
`DeletePlan`, `SetDefaultProvider`, `BeginCreate`, `ResolvePlan`,
`ResolvePlanless`, `Refuse`, `InsertSubscription`, `InsertUnanswered`, `Renew`
and `PatchAmount` are the code's statements. `PatchAmount` gives a subscription
any amount, provided its provider is one of `Metered` (`pay_per_use`) with a
connector; `repriced` is the history of keys it was used on. `answers` is
history too: what each caller was told. A day is its number in the Gregorian
calendar, any integer; `Date` finds its year among three near `n / 365.2425`.
`AddDate` is that of Go's library, with its overflow at the ends of months,
checked against `Anniversary`, the day a customer would expect. `Renew` has no
clock: when renewals happen is `Lifecycle`'s matter. Trials, tags and metadata
are left out.

### Tenants, Backoffice and Onboarding

`slugOf`, `owner`, `active`, `expired` are columns of `tenants` and
`tenant_api_keys`; `held` the keys somebody was shown; `request` the
authenticated requests between their lookup and their handler. `user`,
`tokens`, `task` are `backoffice_users`, the JWTs about, and the handlers
between their two statements (`InviteUser` and `FlagMustChange`,
`CheckPassword` and `WritePassword`). `flow` holds for each signup and each
starting instance the statement it is at:

| Code | Action |
|---|---|
| `Handler.Signup`; `bootstrapTenant` | `BeginSignup`; `BeginBootstrap` |
| `Repository.Create`, its conflict | `CreateTenant` |
| `GetByEmail` after a conflict, in bootstrap | `FindExisting` |
| `CreateKey` | `CreateInitialKey` |
| `BackofficeService.CreateUser` from either | `CreateSignupAdmin`, `CreateBootAdmin` |
| the 201 | `AnswerSignup` |
| a statement fails; the process dies; a deployment restarts it | `StatementFails`, `Crash`, `Restart` |
| `AuthMiddleware`; the handlers of `/v1/keys` | `SendRequest`, `Authenticate`; `CreateKey`, `LoseKey`, `RevokeKey`, `EndRequest` |
| the handlers of `/v1/backoffice` | `Login`, `CreateUser`, `InviteUser`, `FlagMustChange`, `CheckPassword`, `WritePassword`, `DropTask`, `DeactivateUser` |

A key is its random bytes, a hash is what it is the hash of; `PrefixOf` gives
the twelve characters the table is searched by. A generated password is the
value `Temporary`, outside `Passwords`, since nobody is shown it. Retries on a
prefix that is taken within a tenant do not exist in the code: the statement
fails, which is `StatementFails`, or `EndRequest`.

### RateLimiter

`buckets` is `rl.buckets`; `request` a request at `limit` (before `Allow`),
`take` (it found its bucket, `rl.mu` given up), `report` (granted), `next` or
`refused`. `Skip`, `FindBucket`, `Take`, `Report`, `Answer` are the code's
critical sections. Time is in ticks, `TicksPerMs` to the millisecond, and
`Elapsed` rounds down as `Milliseconds()` does; tokens are counted in the share
one tick adds, so that all numbers are whole; the rounding of `float64` is left
out. `spent` and `mark` are history: what was granted, and an arbitrary
earlier moment, which makes `WindowQuota` a statement about every window.
`Spec` lets a request bring its tenant, as the middleware is written for;
`RoutedSpec` is the middleware where the router puts it.

### Listing

`rows` counts the rows of a table in the order of (created_at, id); `reader` is
a client that follows `next_cursor`. A cursor is the sequence of what stands
between its colons, since the question is at which colon it is cut.

## The runs

The runs have the code's control and bounded environments; each bound is a
constant of the module or defined in its MC module. `Fault` in `Lifecycle` and
`faults` in `Onboarding` count crashes, lost answers and failed statements
together, up to `MaxFaults`.

| Run | Question | Instance | Result |
|---|---|---|---|
| `Lifecycle_one` | with one instance and clients that cancel and patch, is a period ever given away, a payment invented, a renewal list stale? does the runner leave trialing, active, past_due, expired, or expire early, except over what a client just wrote? | 1 subscription, 1 runner, 1 PATCH at a time, 2 faults, 5 ticks, 2 ticks a day | no (2.2 million states) |
| `Lifecycle_two` | do two instances and a fault, with the account replaced at any moment, ever charge a period twice in an account, break the ledger, or put a subscription back to an unpaid period? | 1 subscription, daily or with a count of -1, 2 runners and 2 accounts, each interchangeable, 1 fault, 2 ticks of a day | no (1.4 million states) |
| `Lifecycle_live` | is every due, over-trial and overdue subscription eventually dealt with? | 2 subscriptions (one without provider, with different intervals), batches of one row, 1 fault, no clients, under `LiveSpec` | yes (56 thousand states) |
| `Charging` | is a key charged twice, answered differently, or a payment recorded that the provider did not make? does the endpoint ever do what `IdempotentCharge` does not? | 3 callers of 1 key and 2 accounts, each interchangeable, 2 charges, 1 retry | no (761 thousand states) |
| `Catalog` | are terms, gates, keys and periods right while plans and amounts change and periods pass? | 2 interchangeable handlers, 1 plan, 2 providers (one gated from plans, the other with pay-per-use), months with counts -1, 0, 1 and years, from 31 January 2027 and 29 February 2028, 2 renewals, one other amount | yes (670 thousand states) |
| `Onboarding` | are answers true, tenants and keys never confused, bootstrap idempotent, and does every instance get to serve? | 1 instance and 1 signup, 2 emails, 2 slugs, 3 keys of which 2 share a prefix, 1 fault, under `Fairness` | yes (625 thousand states) |
| `RateLimiter` | is more granted in some window, or a patient tenant refused? | 1 tenant, 2 requests, limit 2, 3 ms a "minute", 2 ticks a millisecond, 9 ticks | no (250 thousand states) |

Why these bounds. `Lifecycle`: a double charge, a skipped period or a stale
write needs two passes over the same row and one fault or second instance
between them. In `Lifecycle_one` five ticks at two a day hold two periods of
one day that renew, and let an attempt happen on another date than the period
it is for; two faults are enough to lose an answer and then crash before the
repair. In `Lifecycle_two` two ticks hold two renewals of a daily subscription,
which is what the slower instance needs to write an old period over a new one;
with a count of -1 periods fall due without the clock, and no pass starts once
one ends before `-MaxTick`; two accounts make the charge that the property
excepts. Batches of one row with two due rows exercise the limit of the lists.
`Charging`: a second charge needs two attempts that reach the provider, of one
caller (hence a retry) or of two; a third caller charges or records while they
do; a second account makes the charge that the property excepts. No statement
on the way reads the payments of two keys, so one key is enough; the theorems
are for any number. `Catalog`: the longest month before the shortest, the leap
day, and one month after each; the provider with pay-per-use is the one that
has plans, so that a plan's subscription is repriced. `Onboarding`: a bootstrap
meets a conflict with itself, with a signup under its email, and with a signup
under its slug only; one fault cuts it in two. What else happens meanwhile is,
in one behaviour, requests with keys or back-office work: no statement reads
both. `RateLimiter`: nine ticks fill an empty bucket once over; tenants do not
share buckets.

Fairness. `LiveSpec` of `Lifecycle` is weak fairness of the clock and of each
runner's loop, which is what `time.Ticker` and a running process give; a
crashed instance is started again by `StartPass`, as its supervisor does.
`Fairness` of `Onboarding` is weak fairness of a begun signup or bootstrap (a
running goroutine) and of the bootstrap of a starting instance (`main` calls it
before it serves). Nothing is assumed of clients, and faults are finite.

Deadlock is checked in all of these: clients can always act, and an instance
can always start an empty pass.

Each property of a passing run is paired with a mutant in `PROJECT.json`: the
operators whose names end in `Fault` are plausible mistakes (an idempotency key
made from the date of the attempt, a hash that is not compared, a refill that
is not capped, an `INSERT` that answers with its own row) that the property
detects.

### What the code does not do

Each of these runs ends in a counterexample to something a comment or document
says; `PROJECT.json` quotes it under "findings".

* `Claim_list_columns`. The three list queries select a column `interval` of
  SQL functions that return `interval_type`
  (`internal/subscription/repository.go:457-460`,
  `migrations/009_lifecycle_indexes.up.sql:28`). PostgreSQL rejects them, so as
  the repository stands every job ends at its first statement and nothing is
  ever renewed, activated or expired. All other runs set `ListColumnsMatch` to
  TRUE: they describe the code with the two names brought into agreement, which
  is the behaviour everything around them is written for.
* `Claim_rejected`. A charge answered with status rejected is not an error, so
  the period advances unpaid; `lifecycle.go:103-104` says it goes past_due.
* `Claim_cancel_at_end`. `cancel_at_period_end` takes a subscription out of
  renewal and nothing ever cancels it.
* `Claim_unlimited`. The rate limiter runs before authentication, finds no
  tenant in the context and limits nobody (`RoutedSpec`).
* `Claim_pagination`. A cursor is cut at the first colon, which is inside its
  timestamp, so every second page is refused; and the query would skip the row
  the cursor names.

More was met that has no run of its own. Some of it disagrees with a text of
the repository:

* `lifecycle.go:117`, "Prevents duplicate charges if job retries": an attempt
  whose answer was lost is made again under its key, but in the account
  configured by then. If the tenant has replaced its credentials in between,
  the period is charged in both. `OneChargePerPeriod` is therefore about one
  account, as `ChargedOnce` is for client payments, where README.md:39 promises
  the same.
* `docs/GETTING_STARTED.md:286`, "then transitions to `succeeded` or `failed`",
  and 374, "Payment settled → update payment status": the webhook is
  acknowledged and dropped (`webhook/handler.go:45`), so a pending payment is
  pending for ever. `AnswersAgree` leaves the status out; in `IdempotentCharge`
  it never changes, because in the code it does not.
* `api/openapi.yaml:1300-1304`, a password of eight characters "automatically
  creates an admin backoffice user": signup answers 201 without one when the
  password fails the stricter rules of `CreateUser`, or `CreateUser` fails, and
  the tenant's back office is then closed. `SignupAnswersAreTrue` promises the
  admin only for a password that is accepted and a call that succeeds.
* `tenant/service.go:29`, "in a single operation": tenant and key are two
  INSERTs; a failure between them leaves a tenant without a key, whose email
  cannot sign up again.
* README.md:379-388, same key, same subscription, "Safe to retry forever": a
  creation that is retried after its plan was deactivated is refused although
  its subscription exists, and one after a PATCH is told the new amount.
  `OneSubscriptionPerKey` covers what is answered, but for that amount.

The rest is what the code does where no text was found that says otherwise, or
what one step shows:

* A charge whose row is committed leads to past_due if the INSERT's answer is
  lost. The trial job, announced as charging the first period, charges nothing:
  the first charge is made when the first period ends. The grace period counts
  from the end of the period, not from the failed renewal.
* With two instances, one that lists a row and sleeps while the other renews it
  twice writes the first renewal's period over the second's. It goes back to a
  period that is paid (`RewindsArePaid`), whose charge the next pass finds under
  its key, unless the account was replaced.
* An UPDATE decided on an old read makes a canceled subscription active: a PATCH
  validated before the cancel, or the trial job's list read before it. And
  canceled, expired, past_due, active is a sequence of PATCH requests each of
  which is allowed.
* A plan takes a negative `interval_count`; its subscriptions are due again at
  once after each renewal, and each of their periods, one before the other, is
  charged.
* A payment whose body names no subscription is charged and never stored (the
  one in the path is not looked at).
* The key that bootstrap creates is shown to nobody, and neither is an invited user's
  password. A right key is refused while another tenant's active key shares its
  prefix. A deactivated user's token stays valid until it expires, and an admin
  may deactivate users of other tenants.
* The payments' `ListBySubscription` compares a public key with an internal id.
  A gate in `providers.yml` for a provider without connector says nothing.
* A tenant that polls more than once a millisecond keeps its bucket from
  refilling: each look throws the fraction away.
* Row-level security does not bind the server, which connects as the owner of
  the tables.

## The proofs

Every theorem holds for all values of its module's constants that satisfy the
named assumptions, the bounds (`MaxFaults`, `MaxTick`, `MaxRetries`, `MaxTime`,
`MaxPeriods`) included. TLC evaluates every assumption in every run of the
module. None of the safety properties is inductive as it stands; each has an
invariant that is, in the proof module or, for `Lifecycle`, in
`LifecycleInvariant`, and TLC was asked about each first.

**`LifecycleProofs`, `LedgerProofs`** (`SubsAssumption`, `BodiesAssumption`,
`NoRowAssumption`): `TypeCorrect`, `Inductive` (`[]IInv`), `ChargedAtMostOnce`,
`EveryPaymentBacked`, `NoneSkipped`, `RewoundPeriodsArePaid`, and `Implements`,
the refinement of `BillingLedger`. That a period is charged once in an account
says nothing about the row a runner is about to charge; `IInv` adds what the
code relies on without saying.

1. A period that *may* be charged (`Chargeable`: the row exists, the end is that
   of its k-th period counted from creation, and every period before that one is
   charged and recorded) may be charged for ever, because charges, payments and
   rows are never removed (`History`, `ChargeableStays`). So a stale list is
   harmless, for any number of runners. Counting from creation is what lets
   periods go backward as well as forward.
2. The idempotency key names the period (`DateNamesPeriod`). The key only has a
   date, but two ends of one subscription are at least a day apart, whichever
   way its periods go. This is where the length of the interval matters.
3. Hence a charge under a row's key, in whichever account, is one of that row's
   period, and the payment under that key, written by whichever attempt came
   first, has the outcome of such a charge (`RecordedStep`). So a conflicting
   INSERT is as good as one's own, and recording makes the period `Renewed`.
4. `AdvancePeriod` runs on a `Renewed` period, so the next one is `Chargeable`
   (`NextPeriodChargeable`). If that puts the row back, the period it goes back
   to comes before the one it leaves, and all of those are paid
   (`RewoundPeriodsArePaid`).

**`OneInstanceProofs`** (the same, and `OneInstance` as a hypothesis of each
theorem: any two elements of `Runners` are equal; clients do what they like).
With two instances a period may move back and a status may be overwritten, as
told above; these theorems say what a deployment of one instance is spared,
faults and crashes included. `ListIsFresh`: `FreshInv` is preserved because only
`AdvancePeriod` moves the period of a row that exists, the row it moves has left
the list, and no other row of the list is of that subscription, since both would
have the same end. `RowsAreAsListed`: a listed row has the status it was listed
with, or one that a client wrote since (`SettledInv`); hence
`StatusesFollowThePath` and `ExpiresWhatIsOverdue`, in which the only exception
is a client's write between the list and the UPDATE. That exception is real: a
trial canceled there is activated. A second runner breaks `FreshInv` and
`SettledInv`.

**`ChargingProofs`** (`ChargingAssumption`): `KeyChargedOnce`, `SameAnswer`,
`PaymentsAreReal`, `ChargingTypes`, from `CInv`. Every request on its way and
every payment made from one has the key as header *and* as reference
(`SentInv`, `HeaderInv`): so a payment that a new one could double is one the
provider's deduplication finds. What a handler is about to insert is the
provider's word on its own key (`InHandInv`), and this word only weakens as the
provider settles and refunds. `KeepsThePromise` is the refinement of
`IdempotentCharge`, one lemma for each action that shows in it: a request the
provider has not seen takes a charge (`TakeStep`, by `HeaderInv`), a settlement
or refund settles one (`SettleStep`), and an INSERT files a payment that reports
the charge truly or finds the one on file (`InsertFiles`, by `InHandInv`).

**`OnboardingProofs`** (`TenantsAssumption`, `BackofficeAssumption`,
`OnboardingAssumption`): `KeysNeverConfused`, `SignupKeepsItsWord`,
`AdminComesFirst`, `BootstrapIdempotent`, the action properties
`KeysOfOneTenant`, `RefusalExplained`, `InvitedForEver`, and
`OnboardingTypes`, from `OInv`. `Progress` says what each signup and bootstrap
has done by the statement it is at; it survives other flows because no
statement takes a tenant, key owner, user or role back (`TenantsKept`,
`UsersKept`). That is also why the admin of an answered signup stays
(`AnswersKept`). `LoginInv` says that sessions and password changes are of users
whose password somebody knows; it is why nobody gets past a generated one, and
why a user can only be created where an admin is already.

**`RateLimiterProofs`** (`RateLimiterAssumption`): `NeverOverQuota`,
`RemainingIsBelow`, `ServedAfterPause`, `LimiterTypes`, from `IInv`. What was
spent since the mark *plus what is left* is at most a full bucket and the
refill up to the bucket's last use, or nothing was spent since (`QuotaInv`):
the second case is what covers a window that begins while the bucket is full.
Rounding is bounded once, in `ElapsedBounds` and `RefilledBounds`.

**`CalendarProofs`** (no assumptions): for every integer day `Date` is a date of
the calendar and is that day's (`EveryDayHasADate`), and every date comes back
from its day number (`DateOfDayNumber`): the choices in `YearOf` and `MonthOf`
always have exactly one candidate. A period with a positive count ends later
than it starts (`PeriodMovesForward`). The proofs number the months through
(`MonthStart`), of which `PeriodEnd` and `Anniversary` are sums; then it is
enough that consecutive months are 28 to 31 days apart. `OnCourse` is the
invariant of repeated addition: a renewed day is the same day of its month, or,
once a month was too short, a day at the beginning of the month after, at most
three days past the anniversary, and it stays there (`CourseKept`).

**`CatalogProofs`** (`CatalogAssumption`): `BilledByThePlan`, `GatesHold`,
`KeysNameOneSubscription`, `OnlyPlansGoBack`, `DriftIsBounded` and
`CatalogTypes`, from `CatalogInv`. Plans keep their terms (`PlansKept`), so what
a handler found before its INSERT is still so at it; rows keep what callers are
shown of them; and each row is on time: its period has a length if its count is
positive, and is on its course from the day it was created (`OnTime`).

Only model-checked: liveness (`DueIsProcessed`, `TrialEnds`, `OverdueExpires`,
`InstancesStart`), which with `ENABLED` is out of the prover's reach. Every
other property of a passing run is a theorem; `FreshInv`, `SettledInv`,
`RunnerStatusPath` and `ExpiresOnlyOverdue` under the hypothesis above.

## Not modelled

* Configuration, logging, metrics, error mapping, input validation, encryption,
  migrations: no protocol of their own. JWT signatures and password hashes are
  taken as what they stand for.
* Refunds on the connector: no route reaches them. The provider's own refunds
  are `ProviderSettles`.
* The setting of row-level security on pooled connections: without effect as
  deployed, see above.
* `UpdateProfile`, `CheckEmail`, user lists, subscription tags and metadata, and
  the trial of a creation with a plan: no property speaks of what they change.
  A PATCH of the amount is `Catalog`'s; that a renewal charges the amount it
  listed, not the one patched since, is left out with the amounts of
  `Lifecycle`.
* The web interface.

## Plan

What is left, in order: a composition of `Charging` with `Lifecycle` through
the shared `payments` table, where a client may bring a key that looks like a
renewal's; the amount of a subscription in `Lifecycle`, with a PATCH between
list and charge and a retry of the key with another amount; an abstract
specification of bootstrap that `Onboarding` implements.
