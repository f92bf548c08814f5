------------------------------ MODULE Lifecycle ------------------------------
(***************************************************************************)
(* The subscription lifecycle of billax: the rows of table subscriptions,  *)
(* the API handlers that change them, the LifecycleRunner goroutines that  *)
(* renew, activate and expire them, and, as their environment, the payment *)
(* provider, the table payments and the stored provider credentials.       *)
(*                                                                         *)
(* Every statement that reaches the database or the provider is an action  *)
(* of its own, so handlers, runners, crashes and the clock interleave      *)
(* between any two of them.  Time is counted in ticks; TicksPerDay of them *)
(* make a day, the granularity of the runner's idempotency key.            *)
(*                                                                         *)
(* Operators named ...Fault are deliberate mistakes, used by no action: a  *)
(* property that survives putting one in place of the operator after it    *)
(* would not be watching that operator.                                    *)
(***************************************************************************)
EXTENDS Integers, FiniteSets

CONSTANTS
  Subs,              \* rows that may come to exist in table subscriptions
  WithProvider,      \* those created with a provider_name ('' otherwise)
  IntervalTicks,     \* [Subs -> ticks of one billing period, maybe negative]
  TrialTicks,        \* trial lengths plans offer; 0 is "no trial"
  Tenants, TenantOf, \* [Subs -> Tenants]; a tenant and its one provider
  Accounts,          \* provider accounts a tenant may configure
  NoAccount,         \* "not configured"
  Runners,           \* running instances, one LifecycleRunner each
  Handlers,          \* concurrent PATCH requests
  PatchBodies,       \* bodies a PATCH may carry: [status, flag]
  MayCancel,         \* whether clients use POST .../cancel
  Outcomes,          \* answers the provider may give to a charge
  GraceTicks,        \* PAST_DUE_GRACE_PERIOD_DAYS, in ticks
  BatchLimit,        \* LIMIT of the lifecycle queries (100 in the source)
  TicksPerDay,
  MaxSubs,           \* bound: rows created
  MaxTick,           \* bound: the clock stops here, and no pass starts once a
                     \* period that goes backwards ends as far before 0
  MaxFaults,         \* bound: crashes, lost answers and failed statements
  ListColumnsMatch,  \* TRUE iff the three list queries name existing columns
  NoRow              \* "no row in hand"

ASSUME SubsAssumption ==
  /\ WithProvider \subseteq Subs
  /\ TicksPerDay \in Nat \ {0}
  \* the shortest interval is one day; a count is not zero, and a plan's may
  \* be negative
  /\ IntervalTicks \in [Subs -> Int]
  /\ \A s \in Subs : IntervalTicks[s] >= TicksPerDay \/ IntervalTicks[s] <= -TicksPerDay
  /\ TenantOf \in [Subs -> Tenants] /\ NoAccount \notin Accounts
  /\ TrialTicks \subseteq Nat
  /\ GraceTicks \in Nat /\ BatchLimit \in Nat
  /\ MaxSubs \in Nat /\ MaxTick \in Nat /\ MaxFaults \in Nat
  /\ MayCancel \in BOOLEAN /\ ListColumnsMatch \in BOOLEAN

Status == {"trialing", "active", "past_due", "canceled", "expired"}
ChargeStatus == {"succeeded", "pending", "failed"}

\* "keep" stands for a field the PATCH body does not mention.
PatchBody == [status : Status \cup {"keep"}, flag : {"set", "clear", "keep"}]

ASSUME BodiesAssumption ==
  /\ PatchBodies \subseteq PatchBody
  /\ Outcomes \subseteq ChargeStatus

\* A row as a list query returns it: at is the column it is ordered by.
Snapshot == [sub : Subs, at : Int]

ASSUME NoRowAssumption == NoRow \notin Snapshot

VARIABLES
  now,                \* the wall clock
  \* table subscriptions, one variable per column
  status, createdAt, periodStart, periodEnd, trialEndsAt,
  cancelAtPeriodEnd, canceledAtSet,
  credentials,        \* [Tenants -> account configured]
  payments,           \* table payments: rows written for renewals
  charges,            \* charges that exist at the provider
  \* the runners: program counter, rows listed and not yet handled, the row
  \* in hand, the account to charge it in, the provider's answer for it, and
  \* the expiry cut-off
  pc, todo, cur, config, answer, cutoff,
  patch,              \* PATCH requests validated but not yet written
  touched,            \* history: whose status a client wrote since a runner's list
  faults              \* faults so far

subVars == <<status, createdAt, periodStart, periodEnd, trialEndsAt,
             cancelAtPeriodEnd, canceledAtSet>>
moneyVars == <<payments, charges>>
runnerVars == <<pc, todo, cur, config, answer, cutoff>>
vars == <<now, subVars, credentials, moneyVars, runnerVars, patch, touched, faults>>

Absent == "absent"      \* no such row yet
NoTrial == -1           \* trial_ends_at IS NULL
Exists(s) == status[s] # Absent

(***************************************************************************)
(* Pure rules.                                                             *)
(***************************************************************************)

\* SubscriptionService.validateStatusTransition: the two forbidding rows.
AllowedTransition(current, next) ==
  /\ current = "canceled" => next \notin {"active", "trialing", "past_due"}
  /\ current = "expired" => next \notin {"active", "trialing"}

\* A switch without its default case.
NoDefaultFault(s, from) == from

\* nextPeriodEnd: AddDate takes a negative count as it is.
NextPeriodEnd(s, from) == from + IntervalTicks[s]

\* The key made from the week instead of the date.
CoarseFault(t) == t \div (7 * TicksPerDay)

Day(t) == t \div TicksPerDay

\* The key made from the date of the attempt.
AttemptKeyFault(s, end) == <<s, Day(now)>>

\* renewal:{subscription_key}:{date of current_period_end}
RenewalKey(s, end) == <<s, Day(end)>>

Key(row) == RenewalKey(row.sub, row.at)

(***************************************************************************)
(* Initial state: an empty database and idle instances.                    *)
(***************************************************************************)
Init ==
  /\ now = 0
  /\ status = [s \in Subs |-> Absent]
  /\ createdAt = [s \in Subs |-> 0]
  /\ periodStart = [s \in Subs |-> 0]
  /\ periodEnd = [s \in Subs |-> 0]
  /\ trialEndsAt = [s \in Subs |-> NoTrial]
  /\ cancelAtPeriodEnd = [s \in Subs |-> FALSE]
  /\ canceledAtSet = [s \in Subs |-> FALSE]
  /\ credentials = [t \in Tenants |-> NoAccount]
  /\ payments = {}
  /\ charges = {}
  /\ pc = [r \in Runners |-> "idle"]
  /\ todo = [r \in Runners |-> {}]
  /\ cur = [r \in Runners |-> NoRow]
  /\ config = [r \in Runners |-> NoAccount]
  /\ answer = [r \in Runners |-> "none"]
  /\ cutoff = [r \in Runners |-> 0]
  /\ patch = [h \in Handlers |-> NoRow]
  /\ touched = [r \in Runners |-> {}]
  /\ faults = 0

Tick ==
  /\ now < MaxTick
  /\ now' = now + 1
  /\ UNCHANGED <<subVars, credentials, moneyVars, runnerVars, patch, touched, faults>>

Fault == faults < MaxFaults /\ faults' = faults + 1

(***************************************************************************)
(* The API.                                                                *)
(***************************************************************************)
apiUnchanged == UNCHANGED <<now, moneyVars, runnerVars, faults>>

\* SubscriptionService.Create and the INSERT of the repository.  The first
\* period ends one interval after creation whatever the trial is.
CreateSubscription(s) ==
  /\ ~Exists(s) /\ Cardinality({u \in Subs : Exists(u)}) < MaxSubs
  /\ \E t \in TrialTicks :
       /\ status' = [status EXCEPT ![s] = IF t > 0 THEN "trialing" ELSE "active"]
       /\ trialEndsAt' = [trialEndsAt EXCEPT ![s] = IF t > 0 THEN now + t ELSE NoTrial]
  /\ createdAt' = [createdAt EXCEPT ![s] = now]
  /\ periodStart' = [periodStart EXCEPT ![s] = now]
  /\ periodEnd' = [periodEnd EXCEPT ![s] = NextPeriodEnd(s, now)]
  /\ UNCHANGED <<cancelAtPeriodEnd, canceledAtSet, credentials, patch, touched>>
  /\ apiUnchanged

\* SubscriptionService.Update up to the validation: the status read here is
\* the one the transition is checked against.
BeginPatch(h, s) ==
  /\ patch[h] = NoRow
  /\ Exists(s)
  /\ \E b \in PatchBodies :
       /\ b.status # "keep" => AllowedTransition(status[s], b.status)
       /\ patch' = [patch EXCEPT ![h] = [sub |-> s, body |-> b]]
  /\ UNCHANGED <<subVars, credentials, touched>>
  /\ apiUnchanged

\* A client has written a status; the lists of runners do not know.
Touch(s) == touched' = [r \in Runners |-> touched[r] \cup {s}]

\* The repository's UPDATE: it names the row, not the status it was in.
CommitPatch(h) ==
  /\ patch[h] # NoRow
  /\ LET s == patch[h].sub
         b == patch[h].body
     IN /\ status' = [status EXCEPT ![s] = IF b.status = "keep" THEN @ ELSE b.status]
        /\ cancelAtPeriodEnd' = [cancelAtPeriodEnd EXCEPT ![s] =
                                   IF b.flag = "keep" THEN @ ELSE b.flag = "set"]
        /\ IF b.status = "keep" THEN UNCHANGED touched ELSE Touch(s)
  /\ patch' = [patch EXCEPT ![h] = NoRow]
  /\ UNCHANGED <<createdAt, periodStart, periodEnd, trialEndsAt, canceledAtSet,
                 credentials>>
  /\ apiUnchanged

\* The request ends without its UPDATE: client gone, statement failed, crash.
DropPatch(h) ==
  /\ patch[h] # NoRow
  /\ patch' = [patch EXCEPT ![h] = NoRow]
  /\ UNCHANGED <<subVars, credentials, touched>>
  /\ apiUnchanged

\* A status the schema's CHECK does not list.
MisspeltFault(s) ==
  /\ MayCancel /\ Exists(s)
  /\ status' = [status EXCEPT ![s] = "cancelled"]
  /\ UNCHANGED <<createdAt, periodStart, periodEnd, trialEndsAt, cancelAtPeriodEnd,
                 canceledAtSet, credentials, patch, touched>>
  /\ apiUnchanged

\* SubscriptionService.Cancel: nothing read before the UPDATE is used by it.
CancelNow(s) ==
  /\ MayCancel /\ Exists(s)
  /\ status' = [status EXCEPT ![s] = "canceled"]
  /\ canceledAtSet' = [canceledAtSet EXCEPT ![s] = TRUE]
  /\ cancelAtPeriodEnd' = [cancelAtPeriodEnd EXCEPT ![s] = FALSE]
  /\ Touch(s)
  /\ UNCHANGED <<createdAt, periodStart, periodEnd, trialEndsAt, credentials, patch>>
  /\ apiUnchanged

CancelAtEnd(s) ==
  /\ MayCancel /\ Exists(s)
  /\ cancelAtPeriodEnd' = [cancelAtPeriodEnd EXCEPT ![s] = TRUE]
  /\ UNCHANGED <<status, createdAt, periodStart, periodEnd, trialEndsAt,
                 canceledAtSet, credentials, patch, touched>>
  /\ apiUnchanged

\* ON CONFLICT DO UPDATE: the account that was configured is replaced.
SetProviderConfig(t) ==
  /\ \E a \in Accounts : credentials' = [credentials EXCEPT ![t] = a]
  /\ UNCHANGED <<subVars, patch, touched>>
  /\ apiUnchanged

DeleteProviderConfig(t) ==
  /\ credentials' = [credentials EXCEPT ![t] = NoAccount]
  /\ UNCHANGED <<subVars, patch, touched>>
  /\ apiUnchanged

(***************************************************************************)
(* The lists a runner works through.                                       *)
(***************************************************************************)
DueForRenewal ==
  {s \in Subs : /\ status[s] = "active"
                /\ periodEnd[s] <= now
                /\ ~cancelAtPeriodEnd[s]}

\* The query without its status condition.
AnyStatusFault == {s \in Subs : trialEndsAt[s] # NoTrial /\ trialEndsAt[s] <= now}

ExpiredTrials ==
  {s \in Subs : /\ status[s] = "trialing"
                /\ trialEndsAt[s] # NoTrial
                /\ trialEndsAt[s] <= now}

PastDuePendingExpiry(before) ==
  {s \in Subs : status[s] = "past_due" /\ periodEnd[s] <= before}

\* The columns of a row scanned in another order than they were selected in.
ScanOrderFault(subs, column) == {[sub |-> s, at |-> createdAt[s]] : s \in subs}

RowsBy(subs, column) == {[sub |-> s, at |-> column[s]] : s \in subs}

\* ORDER BY at LIMIT BatchLimit; rows that tie come in any order.
Batches(rows) ==
  {b \in SUBSET rows :
     /\ Cardinality(b) = IF Cardinality(rows) <= BatchLimit THEN Cardinality(rows)
                         ELSE BatchLimit
     /\ \A x \in b, y \in rows \ b : x.at <= y.at}

Earliest(rows) == {x \in rows : \A y \in rows : x.at <= y.at}

(***************************************************************************)
(* The runner: runAllJobs and the three jobs.                              *)
(***************************************************************************)
runnerUnchanged == UNCHANGED <<now, createdAt, trialEndsAt, cancelAtPeriodEnd,
                               canceledAtSet, credentials, patch>>

\* AddDate without the minus sign.
GraceSignFault(r) ==
  /\ pc[r] = "idle" /\ \A s \in Subs : periodEnd[s] >= -MaxTick
  /\ cutoff' = [cutoff EXCEPT ![r] = now + GraceTicks]
  /\ pc' = [pc EXCEPT ![r] = "listDue"]
  /\ UNCHANGED <<status, periodStart, periodEnd, moneyVars, todo, cur, config, answer,
                 touched, faults>>
  /\ runnerUnchanged

\* A tick of the runner's ticker; the expiry cut-off is computed first.
StartPass(r) ==
  /\ pc[r] = "idle" /\ \A s \in Subs : periodEnd[s] >= -MaxTick
  /\ cutoff' = [cutoff EXCEPT ![r] = now - GraceTicks]
  /\ pc' = [pc EXCEPT ![r] = "listDue"]
  /\ UNCHANGED <<status, periodStart, periodEnd, moneyVars, todo, cur, config, answer,
                 touched, faults>>
  /\ runnerUnchanged

\* One list query: a batch to work through, or an error that ends the job.
ListQuery(r, at, rows, loop, next) ==
  /\ pc[r] = at
  /\ \/ /\ ListColumnsMatch
        /\ \E b \in Batches(rows) :
             /\ todo' = [todo EXCEPT ![r] = b]
             /\ touched' = [touched EXCEPT ![r] = {}]
             /\ pc' = [pc EXCEPT ![r] = IF b = {} THEN next ELSE loop]
        /\ UNCHANGED faults
     \/ /\ IF ListColumnsMatch THEN Fault ELSE UNCHANGED faults
        /\ pc' = [pc EXCEPT ![r] = next]
        /\ UNCHANGED <<todo, touched>>
  /\ UNCHANGED <<status, periodStart, periodEnd, moneyVars, cur, config, answer, cutoff>>
  /\ runnerUnchanged

\* A job that finds nothing to do, or fails, ends the whole pass.
PassEndsFault(r) ==
  ListQuery(r, "listDue", RowsBy(DueForRenewal, periodEnd), "renew", "idle")
TrialsEndPassFault(r) ==
  ListQuery(r, "listTrials", RowsBy(ExpiredTrials, trialEndsAt), "activate", "idle")

ListDue(r) ==
  ListQuery(r, "listDue", RowsBy(DueForRenewal, periodEnd), "renew", "listTrials")
ListTrials(r) ==
  ListQuery(r, "listTrials", RowsBy(ExpiredTrials, trialEndsAt), "activate", "listOverdue")
ListOverdue(r) ==
  ListQuery(r, "listOverdue", RowsBy(PastDuePendingExpiry(cutoff[r]), periodEnd),
            "expire", "idle")

\* The account a subscription is charged in, by its provider_name and tenant.
Configured(s) == IF s \in WithProvider THEN credentials[TenantOf[s]] ELSE NoAccount

\* renewSubscription takes the next row and fetches its credentials; an error
\* of any kind, a lookup that failed included, is taken for "not configured".
FetchCredentials(r) ==
  /\ pc[r] = "renew"
  /\ \E row \in Earliest(todo[r]) :
       /\ cur' = [cur EXCEPT ![r] = row]
       /\ todo' = [todo EXCEPT ![r] = @ \ {row}]
       /\ \/ /\ Configured(row.sub) # NoAccount
             /\ config' = [config EXCEPT ![r] = Configured(row.sub)]
             /\ pc' = [pc EXCEPT ![r] = "charge"]
             /\ UNCHANGED faults
          \/ /\ Configured(row.sub) = NoAccount
             /\ pc' = [pc EXCEPT ![r] = "markPastDue"]
             /\ UNCHANGED <<config, faults>>
          \/ /\ Fault
             /\ pc' = [pc EXCEPT ![r] = "markPastDue"]
             /\ UNCHANGED config
  /\ UNCHANGED <<status, periodStart, periodEnd, moneyVars, answer, cutoff, touched>>
  /\ runnerUnchanged

\* The provider, external: a key it has seen in this account is answered with
\* the charge made under it there, a new one makes a charge.
ChargeRecord ==
  [key : Subs \X Int, account : Accounts, sub : Subs, period : Int, outcome : ChargeStatus]

ProviderAnswers(row, account) ==
  LET made == {c \in charges : c.key = Key(row) /\ c.account = account}
  IN IF made # {} THEN made
     ELSE [key : {Key(row)}, account : {account}, sub : {row.sub}, period : {row.at},
           outcome : Outcomes]

\* PaymentService.CreatePayment, first half: adapter and connector return a
\* charge; whatever its status, a 2xx answer is not an error.  The account is
\* the one fetched for the row, not the one configured by now.
ChargeAnswered(r) ==
  /\ pc[r] = "charge"
  /\ \E c \in ProviderAnswers(cur[r], config[r]) :
       /\ charges' = charges \cup {c}
       /\ answer' = [answer EXCEPT ![r] = c.outcome]
  /\ pc' = [pc EXCEPT ![r] = "record"]
  /\ config' = [config EXCEPT ![r] = NoAccount]
  /\ UNCHANGED <<status, periodStart, periodEnd, payments, todo, cur, cutoff, touched, faults>>
  /\ runnerUnchanged

\* The provider refuses, or no attempt reaches it.
ChargeRefused(r) ==
  /\ pc[r] = "charge"
  /\ pc' = [pc EXCEPT ![r] = "markPastDue"]
  /\ config' = [config EXCEPT ![r] = NoAccount]
  /\ UNCHANGED <<status, periodStart, periodEnd, moneyVars, todo, cur, answer, cutoff,
                 touched, faults>>
  /\ runnerUnchanged

\* An attempt reaches the provider and every answer is lost.
ChargeAnswerLost(r) ==
  /\ pc[r] = "charge"
  /\ Fault
  /\ \E c \in ProviderAnswers(cur[r], config[r]) : charges' = charges \cup {c}
  /\ pc' = [pc EXCEPT ![r] = "markPastDue"]
  /\ config' = [config EXCEPT ![r] = NoAccount]
  /\ UNCHANGED <<status, periodStart, periodEnd, payments, todo, cur, answer, cutoff, touched>>
  /\ runnerUnchanged

\* Every 2xx answer filed as a success.
AlwaysPaidFault(row, outcome) ==
  IF \E p \in payments : p.key = Key(row) THEN payments
  ELSE payments \cup {[key |-> Key(row), status |-> "succeeded"]}

\* CreatePayment, second half: INSERT ... ON CONFLICT DO NOTHING, then the row
\* of that key.  A failing INSERT may or may not have been committed.
Recorded(row, outcome) ==
  IF \E p \in payments : p.key = Key(row) THEN payments
  ELSE payments \cup {[key |-> Key(row), status |-> outcome]}

\* The error of the INSERT is dropped.
ErrorDroppedFault(r) ==
  /\ pc[r] = "record"
  /\ \/ payments' = Recorded(cur[r], answer[r]) /\ UNCHANGED faults
     \/ Fault /\ UNCHANGED payments
  /\ pc' = [pc EXCEPT ![r] = "advance"]
  /\ answer' = [answer EXCEPT ![r] = "none"]
  /\ UNCHANGED <<status, periodStart, periodEnd, charges, todo, cur, config, cutoff, touched>>
  /\ runnerUnchanged

RecordPayment(r) ==
  /\ pc[r] = "record"
  /\ \/ /\ payments' = Recorded(cur[r], answer[r])
        /\ pc' = [pc EXCEPT ![r] = "advance"]
        /\ UNCHANGED faults
     \/ /\ Fault
        /\ payments' \in {payments, Recorded(cur[r], answer[r])}
        /\ pc' = [pc EXCEPT ![r] = "markPastDue"]
  /\ answer' = [answer EXCEPT ![r] = "none"]
  /\ UNCHANGED <<status, periodStart, periodEnd, charges, todo, cur, config, cutoff, touched>>
  /\ runnerUnchanged

\* The row in hand is done with: the next one, or the next job.
RowDone(r, loop, next) ==
  /\ cur' = [cur EXCEPT ![r] = NoRow]
  /\ pc' = [pc EXCEPT ![r] = IF todo'[r] = {} THEN next ELSE loop]

\* AdvancePeriod writes a period computed from the row as it was listed.
AdvancePeriod(r) ==
  /\ pc[r] = "advance"
  /\ LET s == cur[r].sub
     IN \/ /\ periodStart' = [periodStart EXCEPT ![s] = cur[r].at]
           /\ periodEnd' = [periodEnd EXCEPT ![s] = NextPeriodEnd(s, cur[r].at)]
           /\ UNCHANGED faults
        \/ Fault /\ UNCHANGED <<periodStart, periodEnd>>
  /\ UNCHANGED <<status, moneyVars, todo, config, answer, cutoff, touched>>
  /\ RowDone(r, "renew", "listTrials")
  /\ runnerUnchanged

\* UpdateStatus: the UPDATE names the row, not the status it was listed in.
UpdateStatus(s, new) ==
  \/ status' = [status EXCEPT ![s] = new] /\ UNCHANGED faults
  \/ Fault /\ UNCHANGED status

MarkPastDue(r) ==
  /\ pc[r] = "markPastDue"
  /\ UpdateStatus(cur[r].sub, "past_due")
  /\ UNCHANGED <<periodStart, periodEnd, moneyVars, todo, config, answer, cutoff, touched>>
  /\ RowDone(r, "renew", "listTrials")
  /\ runnerUnchanged

\* RunTrialExpiry and RunPastDueExpiry: one UPDATE per listed row.
UpdateListed(r, at, new, next) ==
  /\ pc[r] = at
  /\ \E row \in Earliest(todo[r]) :
       /\ UpdateStatus(row.sub, new)
       /\ todo' = [todo EXCEPT ![r] = @ \ {row}]
  /\ UNCHANGED <<periodStart, periodEnd, moneyVars, config, answer, cutoff, touched>>
  /\ RowDone(r, at, next)
  /\ runnerUnchanged

ActivateTrial(r) == UpdateListed(r, "activate", "active", "listOverdue")
ExpirePastDue(r) == UpdateListed(r, "expire", "expired", "idle")

\* The instance dies, or is shut down and its context canceled, inside a pass.
Crash(r) ==
  /\ pc[r] # "idle"
  /\ Fault
  /\ pc' = [pc EXCEPT ![r] = "idle"]
  /\ todo' = [todo EXCEPT ![r] = {}]
  /\ cur' = [cur EXCEPT ![r] = NoRow]
  /\ config' = [config EXCEPT ![r] = NoAccount]
  /\ answer' = [answer EXCEPT ![r] = "none"]
  /\ UNCHANGED <<status, periodStart, periodEnd, moneyVars, cutoff, touched>>
  /\ runnerUnchanged

RunnerStep(r) ==
  \/ StartPass(r) \/ ListDue(r) \/ FetchCredentials(r)
  \/ ChargeAnswered(r) \/ ChargeRefused(r) \/ ChargeAnswerLost(r)
  \/ RecordPayment(r) \/ AdvancePeriod(r) \/ MarkPastDue(r)
  \/ ListTrials(r) \/ ActivateTrial(r) \/ ListOverdue(r) \/ ExpirePastDue(r)

ApiStep ==
  \/ \E s \in Subs : \/ CreateSubscription(s) \/ CancelNow(s) \/ CancelAtEnd(s)
  \/ \E t \in Tenants : SetProviderConfig(t) \/ DeleteProviderConfig(t)
  \/ \E h \in Handlers : \/ \E s \in Subs : BeginPatch(h, s)
                         \/ CommitPatch(h) \/ DropPatch(h)

Next == Tick \/ ApiStep \/ \E r \in Runners : RunnerStep(r) \/ Crash(r)

Spec == Init /\ [][Next]_vars

\* A started instance keeps running its loop; time passes.  Nothing else is
\* owed: clients may never call, and faults need not happen.
Fairness == WF_vars(Tick) /\ \A r \in Runners : WF_vars(RunnerStep(r))
LiveSpec == Spec /\ Fairness

(***************************************************************************)
(* Properties.                                                             *)
(***************************************************************************)

PaymentRecord == [key : Subs \X Int, status : ChargeStatus]
Locations == {"idle", "listDue", "renew", "charge", "record", "advance",
              "markPastDue", "listTrials", "activate", "listOverdue", "expire"}

\* Every column, list, counter and record has the type the schema and the Go
\* declarations give it.
TypeOK ==
  /\ now \in Nat /\ faults \in Nat
  /\ status \in [Subs -> Status \cup {Absent}]
  /\ createdAt \in [Subs -> Nat] /\ periodStart \in [Subs -> Int]
  /\ periodEnd \in [Subs -> Int] /\ trialEndsAt \in [Subs -> Nat \cup {NoTrial}]
  /\ cancelAtPeriodEnd \in [Subs -> BOOLEAN] /\ canceledAtSet \in [Subs -> BOOLEAN]
  /\ credentials \in [Tenants -> Accounts \cup {NoAccount}]
  /\ payments \subseteq PaymentRecord /\ charges \subseteq ChargeRecord
  /\ pc \in [Runners -> Locations]
  /\ todo \in [Runners -> SUBSET Snapshot]
  /\ cur \in [Runners -> Snapshot \cup {NoRow}]
  /\ config \in [Runners -> Accounts \cup {NoAccount}]
  /\ answer \in [Runners -> ChargeStatus \cup {"none"}]
  /\ cutoff \in [Runners -> Int]
  /\ patch \in [Handlers -> [sub : Subs, body : PatchBody] \cup {NoRow}]
  /\ touched \in [Runners -> SUBSET Subs]

\* A billing period is charged at most once in a provider account, whatever is
\* retried, restarted or run twice.  lifecycle.go:117, "Prevents duplicate charges
\* if job retries", and :142-143 say so of every retry: but an attempt whose
\* answer was lost is made again in another account when the tenant has replaced
\* its credentials since, and that account has never seen the key.
OneChargePerPeriod ==
  \A c, d \in charges :
    c.sub = d.sub /\ c.period = d.period /\ c.account = d.account => c = d

\* The period of s that ended at end was charged and its payment recorded.
Renewed(s, end) ==
  \E c \in charges : /\ c.sub = s /\ c.period = end
                     /\ [key |-> c.key, status |-> c.outcome] \in payments

\* No period is given away: a subscription's current period, and every period
\* it was ever charged for, is its first one or follows a period that was
\* charged and recorded.  AdvancePeriod runs only after CreatePayment.
NoSkippedPeriod ==
  \A s \in Subs : Exists(s) =>
    /\ periodEnd[s] = NextPeriodEnd(s, periodStart[s])
    /\ \A c \in charges : c.sub = s =>
         c.period = NextPeriodEnd(s, createdAt[s]) \/ Renewed(s, c.period - IntervalTicks[s])
    /\ periodStart[s] = createdAt[s] \/ Renewed(s, periodStart[s])

\* Table payments never claims what the provider did not answer: each row has
\* the outcome of a charge made under its key.
PaymentsAreBacked ==
  \A p \in payments : \E c \in charges : c.key = p.key /\ c.outcome = p.status

\* The abstract ledger this module implements: a charge is its sub and period,
\* named by its idempotency key, and is recorded when a payment has that key.
Ledger == INSTANCE BillingLedger WITH
  open <- {s \in Subs : Exists(s)},
  origin <- createdAt,
  current <- periodStart,
  taken <- {[id |-> c.key, account |-> c.account, sub |-> c.sub, period |-> c.period] :
              c \in charges},
  recorded <- {p.key : p \in payments}

\* Billing as a whole keeps the ledger's promise, for any number of instances,
\* crashes, lost answers and failed statements.
LedgerSpec == Ledger!Spec

\* a is a period end of s that comes before b, the way its periods go.
Earlier(s, a, b) == IF IntervalTicks[s] > 0 THEN a < b ELSE a > b

\* AdvancePeriod computes the next period from the row as it was listed, so an
\* instance that was slower than another puts the subscription back to a period
\* it had left: never further than to one that is paid, so that the renewals
\* that follow find their charges made.
RewindsArePaid ==
  [][\A s \in Subs : Exists(s) /\ Earlier(s, periodEnd'[s], periodEnd[s]) =>
       Renewed(s, periodEnd'[s])]_vars

\* A runner that handles the rows of one of its lists; other steps leave it be.
Handles(r) == <<pc[r], todo[r]>>' # <<pc[r], todo[r]>>

\* UpdateStatus does not look at the status it overwrites.  With one instance it
\* is the one its query listed, so that a status goes from trialing to active,
\* past_due and expired, across faults and restarts; unless a client changed it
\* between the list and the UPDATE, and only then a cancel or a PATCH is undone.
RunnerStatusPath ==
  [][\A r \in Runners, s \in Subs :
       Handles(r) /\ status'[s] # status[s] /\ s \notin touched[r] =>
         <<status[s], status'[s]>> \in
           {<<"trialing", "active">>, <<"active", "past_due">>, <<"past_due", "expired">>}]_vars

\* The runner expires only what ended a whole grace period ago, at the moment of
\* the UPDATE and not only when the rows were listed; and only what is past_due,
\* unless a client changed that since the list.
ExpiresOnlyOverdue ==
  [][\A r \in Runners, s \in Subs :
       Handles(r) /\ status'[s] = "expired" /\ status[s] # "expired" =>
         /\ periodEnd[s] + GraceTicks <= now
         /\ status[s] = "past_due" \/ s \in touched[r]]_vars

\* Every due renewal is dealt with: charged and advanced, or past_due, or taken
\* out of renewal by a client, if faults stop.
DueIsProcessed ==
  \A s \in Subs, e \in 0..MaxTick :
    (s \in DueForRenewal /\ periodEnd[s] = e)
      ~> ~(s \in DueForRenewal /\ periodEnd[s] = e)

\* Every trial that is over ends, if faults stop.
TrialEnds == \A s \in Subs : (s \in ExpiredTrials) ~> (s \notin ExpiredTrials)

\* Every past_due subscription whose grace period is over leaves past_due.
OverdueExpires ==
  \A s \in Subs : (s \in PastDuePendingExpiry(now - GraceTicks)) ~> (status[s] # "past_due")

=============================================================================
