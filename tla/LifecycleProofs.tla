-------------------------- MODULE LifecycleProofs --------------------------
(***************************************************************************)
(* Lifecycle's safety, proved for every set of subscriptions, tenants,     *)
(* accounts, instances and requests, every length of the intervals (those  *)
(* that go backwards included), the trials and the grace period, and any   *)
(* number of faults.                                                       *)
(***************************************************************************)
EXTENDS LifecycleInvariant, TLAPS

(***************************************************************************)
(* Dates.  An interval is at least a day, so two period ends of the same   *)
(* subscription never fall on the same date: the idempotency key, which is *)
(* made of the date, names the period.                                     *)
(***************************************************************************)

\* The date of a timestamp is a number of days.
LEMMA DayInt == ASSUME NEW t \in Int PROVE Day(t) \in Int
BY SubsAssumption DEF Day

\* A day later the date is another one.
LEMMA DayStep ==
  ASSUME NEW a \in Int, NEW b \in Int, b >= a + TicksPerDay
  PROVE  Day(a) < Day(b)
<1>1. TicksPerDay \in Nat /\ TicksPerDay > 0
  BY SubsAssumption
<1> DEFINE q == a \div TicksPerDay
<1>2. q \in Int /\ q * TicksPerDay <= a
  BY <1>1
<1>3. (q + 1) * TicksPerDay = q * TicksPerDay + TicksPerDay
  BY <1>1, <1>2
<1>4. (q + 1) * TicksPerDay <= b
  BY <1>1, <1>2, <1>3
<1>5. q + 1 <= b \div TicksPerDay
  BY <1>1, <1>2, <1>4
<1>6. b \div TicksPerDay \in Int
  BY <1>1
<1> QED
  BY <1>1, <1>2, <1>5, <1>6 DEF Day

\* Points of a grid with steps of at least d, in either direction, are at least
\* d apart.
LEMMA GridApart ==
  ASSUME NEW c \in Int, NEW i \in Int, NEW d \in Nat, i >= d \/ i <= -d,
         NEW k \in Nat, NEW j \in Nat, k < j
  PROVE  c + j * i >= c + k * i + d \/ c + j * i <= c + k * i - d
<1>1. PICK m \in Nat : m >= 1 /\ j = k + m
  <2>1. j - k \in Nat /\ j - k >= 1 /\ j = k + (j - k)
    OBVIOUS
  <2> QED
    BY <2>1
<1>2. j * i = k * i + m * i /\ k * i \in Int /\ m * i \in Int
  BY <1>1
<1>3. m * i = i + (m - 1) * i
  BY <1>1
<1>4. CASE i >= d
  <2>1. (m - 1) * i >= 0
    BY <1>1, <1>4
  <2> QED
    BY <1>2, <1>3, <1>4, <2>1
<1>5. CASE i <= -d
  <2>1. (m - 1) * i <= 0
    BY <1>1, <1>5
  <2> QED
    BY <1>2, <1>3, <1>5, <2>1
<1> QED
  BY <1>4, <1>5

\* The step of a subscription's grid.
LEMMA IntervalType ==
  ASSUME NEW s \in Subs
  PROVE  /\ IntervalTicks[s] \in Int /\ TicksPerDay \in Nat /\ TicksPerDay >= 1
         /\ IntervalTicks[s] >= TicksPerDay \/ IntervalTicks[s] <= -TicksPerDay
BY SubsAssumption

\* A period end is a point in time.
LEMMA EndType ==
  ASSUME NEW s \in Subs, createdAt[s] \in Int, NEW k \in Int
  PROVE  PeriodEndAt(s, k) \in Int
<1>1. IntervalTicks[s] \in Int
  BY IntervalType
<1>2. k * IntervalTicks[s] \in Int
  BY <1>1
<1> QED
  BY <1>2 DEF PeriodEndAt

\* Two periods of a subscription end on different dates.
LEMMA DatesDiffer ==
  ASSUME NEW s \in Subs, createdAt[s] \in Int, NEW k \in Nat, NEW j \in Nat, k < j
  PROVE  Day(PeriodEndAt(s, k)) # Day(PeriodEndAt(s, j))
<1> DEFINE a == PeriodEndAt(s, k)
           b == PeriodEndAt(s, j)
<1>1. a \in Int /\ b \in Int
  BY EndType
<1>2. b >= a + TicksPerDay \/ b <= a - TicksPerDay
  BY IntervalType, GridApart DEF PeriodEndAt
<1> HIDE DEF a, b
<1>3. CASE b >= a + TicksPerDay
  <2>1. Day(a) < Day(b)
    BY <1>1, <1>3, DayStep
  <2> QED
    BY <1>1, <2>1, DayInt DEF a, b
<1>4. CASE b <= a - TicksPerDay
  <2>1. a >= b + TicksPerDay
    BY <1>1, <1>4, IntervalType
  <2>2. Day(b) < Day(a)
    BY <1>1, <2>1, DayStep
  <2> QED
    BY <1>1, <2>2, DayInt DEF a, b
<1> QED
  BY <1>2, <1>3, <1>4

\* The bound of Chargeable's quantifier leaves no period out.
LEMMA WithinSpan ==
  ASSUME NEW c \in Int, NEW i \in Int, i >= 1 \/ i <= -1, NEW k \in Nat \ {0}
  PROVE  k \in 1..Span(c, c + k * i)
<1>1. k * i \in Int /\ (k * i >= k \/ k * i <= -k)
  <2>1. CASE i >= 1
    BY <2>1
  <2>2. CASE i <= -1
    <3>1. k * (-i) >= k
      BY <2>2
    <3>2. k * (-i) = -(k * i)
      OBVIOUS
    <3>3. k * i \in Int
      OBVIOUS
    <3> QED
      BY <3>1, <3>2, <3>3
  <2> QED
    BY <2>1, <2>2
<1> QED
  BY <1>1 DEF Span

\* What may be charged is the end of a period, all periods before it renewed.
LEMMA ChargeableEnd ==
  ASSUME NEW s \in Subs, NEW e, Chargeable(s, e)
  PROVE  \E k \in Nat \ {0} : /\ e = PeriodEndAt(s, k)
                              /\ \A j \in 1..(k - 1) : Renewed(s, PeriodEndAt(s, j))
BY DEF Chargeable

\* The end of a period all of whose predecessors are renewed may be charged.
LEMMA EndChargeable ==
  ASSUME NEW s \in Subs, createdAt[s] \in Int, Exists(s), NEW k \in Nat \ {0},
         \A j \in 1..(k - 1) : Renewed(s, PeriodEndAt(s, j))
  PROVE  Chargeable(s, PeriodEndAt(s, k))
<1>1. IntervalTicks[s] >= 1 \/ IntervalTicks[s] <= -1
  BY IntervalType
<1>2. k \in 1..Span(createdAt[s], PeriodEndAt(s, k))
  BY <1>1, WithinSpan, IntervalType DEF PeriodEndAt
<1> QED
  BY <1>2 DEF Chargeable

\* The date of a period's end names the period.
LEMMA DateNamesPeriod ==
  ASSUME NEW s \in Subs, createdAt[s] \in Int, NEW a, NEW b,
         Chargeable(s, a), Chargeable(s, b), Day(a) = Day(b)
  PROVE  a = b
<1>1. PICK k \in Nat : a = PeriodEndAt(s, k)
  BY ChargeableEnd
<1>2. PICK j \in Nat : b = PeriodEndAt(s, j)
  BY ChargeableEnd
<1>3. ~(k < j) /\ ~(j < k)
  BY <1>1, <1>2, DatesDiffer
<1>4. k = j
  BY <1>3
<1> QED
  BY <1>1, <1>2, <1>4

\* The period after the k-th is the (k+1)-th.
LEMMA NextIsNext ==
  ASSUME NEW s \in Subs, createdAt[s] \in Int, NEW k \in Int
  PROVE  NextPeriodEnd(s, PeriodEndAt(s, k)) = PeriodEndAt(s, k + 1)
<1>1. PICK i \in Int : i = IntervalTicks[s]
  BY IntervalType
<1>2. (k + 1) * i = k * i + i /\ k * i \in Int
  OBVIOUS
<1> QED
  BY <1>1, <1>2 DEF NextPeriodEnd, PeriodEndAt

(***************************************************************************)
(* Typing.  What a runner has in hand is typed only where its code uses    *)
(* it, so TypeOK is proved together with HandsInv.                         *)
(***************************************************************************)

Typing == TypeOK /\ HandsInv

\* The empty database with every runner idle is well typed.
LEMMA TypingInit == Init => Typing
<1> SUFFICES ASSUME Init PROVE Typing
  OBVIOUS
<1>1. TypeOK
  BY SubsAssumption DEF Init, TypeOK, Status, Absent, NoTrial, Locations
<1>2. HandsInv
  BY DEF Init, HandsInv, InHand
<1> QED
  BY <1>1, <1>2 DEF Typing

\* The lists the three queries work on are made of snapshots.
LEMMA ListTypes ==
  ASSUME TypeOK, NEW r \in Runners
  PROVE  /\ RowsBy(DueForRenewal, periodEnd) \subseteq Snapshot
         /\ RowsBy(ExpiredTrials, trialEndsAt) \subseteq Snapshot
         /\ RowsBy(PastDuePendingExpiry(cutoff[r]), periodEnd) \subseteq Snapshot
BY DEF TypeOK, RowsBy, DueForRenewal, ExpiredTrials, PastDuePendingExpiry, Snapshot,
       NoTrial

\* A renewal's idempotency key is a subscription and a date.
LEMMA KeyType == ASSUME NEW row \in Snapshot PROVE Key(row) \in Subs \X Int
BY DayInt DEF Key, RenewalKey, Snapshot

\* Whatever the provider answers, it is a charge made under the row's
\* key in the account it was asked for.
LEMMA AnswerType ==
  ASSUME TypeOK, NEW row \in Snapshot, NEW a \in Accounts, NEW c \in ProviderAnswers(row, a)
  PROVE  c \in ChargeRecord /\ c.key = Key(row) /\ c.account = a
BY KeyType, BodiesAssumption DEF ProviderAnswers, ChargeRecord, Snapshot, TypeOK

\* The API handlers keep the types, and what the runners hold.
LEMMA ApiTyping == ASSUME Typing, ApiStep PROVE Typing'
<1> USE DEF apiUnchanged, runnerVars, moneyVars, subVars
<1>1. ASSUME NEW s \in Subs, CreateSubscription(s) PROVE TypeOK'
  <2>1. PICK t \in TrialTicks :
          /\ status' = [status EXCEPT ![s] = IF t > 0 THEN "trialing" ELSE "active"]
          /\ trialEndsAt' = [trialEndsAt EXCEPT ![s] = IF t > 0 THEN now + t ELSE NoTrial]
    BY <1>1 DEF CreateSubscription
  <2>2. status' \in [Subs -> Status \cup {Absent}]
    BY <2>1 DEF Typing, TypeOK, Status
  <2>3. trialEndsAt' \in [Subs -> Nat \cup {NoTrial}]
    BY <2>1, SubsAssumption DEF Typing, TypeOK
  <2>4. now + IntervalTicks[s] \in Int
    BY SubsAssumption DEF Typing, TypeOK
  <2>5. periodEnd' \in [Subs -> Int]
    BY <1>1, <2>4 DEF Typing, TypeOK, CreateSubscription, NextPeriodEnd
  <2> QED
    BY <1>1, <2>2, <2>3, <2>5 DEF Typing, TypeOK, CreateSubscription
<1>2. ASSUME NEW s \in Subs, Touch(s) PROVE touched' \in [Runners -> SUBSET Subs]
  BY <1>2 DEF Touch, Typing, TypeOK
<1>3. ASSUME NEW s \in Subs, CancelNow(s) PROVE TypeOK'
  BY <1>3, <1>2 DEF Typing, TypeOK, CancelNow, Status
<1>4. ASSUME NEW s \in Subs, CancelAtEnd(s) PROVE TypeOK'
  BY <1>4 DEF Typing, TypeOK, CancelAtEnd
<1>5. ASSUME NEW t \in Tenants, SetProviderConfig(t) \/ DeleteProviderConfig(t) PROVE TypeOK'
  BY <1>5 DEF Typing, TypeOK, SetProviderConfig, DeleteProviderConfig
<1>6. ASSUME NEW h \in Handlers, NEW s \in Subs, BeginPatch(h, s) PROVE TypeOK'
  BY <1>6, BodiesAssumption DEF Typing, TypeOK, BeginPatch
<1>7. ASSUME NEW h \in Handlers, CommitPatch(h) PROVE TypeOK'
  <2>1. /\ patch[h].sub \in Subs /\ patch[h].body.status \in Status \cup {"keep"}
        /\ patch[h].body.flag \in {"set", "clear", "keep"}
    BY <1>7 DEF CommitPatch, Typing, TypeOK, PatchBody
  <2>2. touched' \in [Runners -> SUBSET Subs]
    BY <1>7, <1>2, <2>1 DEF CommitPatch, Typing, TypeOK
  <2>3. status' \in [Subs -> Status \cup {Absent}] /\ cancelAtPeriodEnd' \in [Subs -> BOOLEAN]
    BY <1>7, <2>1 DEF CommitPatch, Typing, TypeOK
  <2> QED
    BY <1>7, <2>2, <2>3 DEF CommitPatch, Typing, TypeOK
<1>8. ASSUME NEW h \in Handlers, DropPatch(h) PROVE TypeOK'
  BY <1>8 DEF Typing, TypeOK, DropPatch
<1>9. UNCHANGED runnerVars
  BY DEF ApiStep, CreateSubscription, CancelNow, CancelAtEnd, SetProviderConfig,
         DeleteProviderConfig, BeginPatch, CommitPatch, DropPatch
<1>10. HandsInv'
  BY <1>9 DEF Typing, HandsInv
<1> QED
  BY <1>1, <1>3, <1>5, <1>6, <1>7, <1>8, <1>10, <1>4 DEF ApiStep, Typing

\* The steps and crashes of a runner keep the types.
LEMMA RunnerTyping ==
  ASSUME Typing, NEW r \in Runners, RunnerStep(r) \/ Crash(r)
  PROVE  Typing'
<1> USE DEF runnerUnchanged, subVars, moneyVars
<1>1. CASE StartPass(r)
  BY <1>1, SubsAssumption
     DEF StartPass, Typing, TypeOK, HandsInv, InHand, Locations
<1>2. ASSUME NEW at, NEW rows, NEW loop \in Locations \ InHand, NEW next \in Locations \ InHand,
             rows \subseteq Snapshot, ListQuery(r, at, rows, loop, next)
      PROVE  Typing'
  <2>1. todo' \in [Runners -> SUBSET Snapshot]
    BY <1>2 DEF ListQuery, Batches, Typing, TypeOK
  <2>2. pc' \in [Runners -> Locations] /\ faults' \in Nat /\ touched' \in [Runners -> SUBSET Subs]
    BY <1>2 DEF ListQuery, Fault, Typing, TypeOK
  <2>3. HandsInv'
    BY <1>2 DEF ListQuery, Typing, TypeOK, HandsInv, InHand, Locations
  <2> QED
    BY <1>2, <2>1, <2>2, <2>3 DEF ListQuery, Typing, TypeOK
<1>3. CASE ListDue(r) \/ ListTrials(r) \/ ListOverdue(r)
  BY <1>2, <1>3, ListTypes
     DEF ListDue, ListTrials, ListOverdue, Locations, InHand, Typing
<1>4. CASE FetchCredentials(r)
  <2>1. PICK row \in todo[r] :
          /\ cur' = [cur EXCEPT ![r] = row] /\ todo' = [todo EXCEPT ![r] = @ \ {row}]
          /\ \/ /\ Configured(row.sub) # NoAccount /\ pc' = [pc EXCEPT ![r] = "charge"]
                /\ config' = [config EXCEPT ![r] = Configured(row.sub)]
                /\ UNCHANGED faults
             \/ /\ pc' = [pc EXCEPT ![r] = "markPastDue"]
                /\ UNCHANGED config /\ faults' \in {faults, faults + 1}
    BY <1>4 DEF FetchCredentials, Earliest, Fault
  <2>2. row \in Snapshot /\ row.sub \in Subs
    BY DEF Typing, TypeOK, Snapshot
  <2>3. Configured(row.sub) \in Accounts \cup {NoAccount}
    BY <2>2, SubsAssumption DEF Configured, Typing, TypeOK
  <2>4. config' \in [Runners -> Accounts \cup {NoAccount}] /\ faults' \in Nat
    BY <2>1, <2>3 DEF Typing, TypeOK
  <2>5. TypeOK'
    BY <1>4, <2>1, <2>2, <2>4 DEF FetchCredentials, Typing, TypeOK, Locations
  <2>6. HandsInv'
    BY <1>4, <2>1, <2>2, <2>3 DEF FetchCredentials, Typing, TypeOK, HandsInv, InHand
  <2> QED
    BY <2>5, <2>6 DEF Typing
<1>5. CASE ChargeAnswered(r)
  <2>1. cur[r] \in Snapshot /\ config[r] \in Accounts
    BY <1>5 DEF ChargeAnswered, Typing, HandsInv, InHand
  <2>2. PICK c \in ProviderAnswers(cur[r], config[r]) :
          charges' = charges \cup {c} /\ answer' = [answer EXCEPT ![r] = c.outcome]
    BY <1>5 DEF ChargeAnswered
  <2>3. c \in ChargeRecord /\ c.outcome \in ChargeStatus
    BY <2>1, AnswerType DEF Typing, ChargeRecord
  <2> QED
    BY <1>5, <2>2, <2>3
       DEF ChargeAnswered, Typing, TypeOK, HandsInv, InHand, Locations
<1>6. CASE ChargeRefused(r)
  BY <1>6 DEF ChargeRefused, Typing, TypeOK, HandsInv, InHand, Locations
<1>7. CASE ChargeAnswerLost(r)
  <2>1. charges' \subseteq ChargeRecord
    BY <1>7, AnswerType DEF ChargeAnswerLost, Typing, TypeOK, HandsInv, InHand
  <2> QED
    BY <1>7, <2>1
       DEF ChargeAnswerLost, Fault, Typing, TypeOK, HandsInv, InHand, Locations
<1>8. CASE RecordPayment(r)
  <2>1. cur[r] \in Snapshot /\ answer[r] \in ChargeStatus
    BY <1>8 DEF RecordPayment, Typing, HandsInv, InHand
  <2>2. Recorded(cur[r], answer[r]) \subseteq PaymentRecord
    BY <2>1, KeyType DEF Recorded, PaymentRecord, Typing, TypeOK
  <2>3. payments' \subseteq PaymentRecord
    BY <1>8, <2>2 DEF RecordPayment, Typing, TypeOK
  <2> QED
    BY <1>8, <2>3
       DEF RecordPayment, Fault, Typing, TypeOK, HandsInv, InHand, Locations
<1>9. CASE AdvancePeriod(r)
  <2>1. cur[r] \in Snapshot
    BY <1>9 DEF AdvancePeriod, Typing, HandsInv, InHand
  <2>2. cur[r].at \in Int /\ (cur[r].sub \in Subs) /\ NextPeriodEnd(cur[r].sub, cur[r].at) \in Int
    BY <2>1, SubsAssumption DEF Snapshot, NextPeriodEnd
  <2>3. periodStart' \in [Subs -> Int] /\ periodEnd' \in [Subs -> Int] /\ faults' \in Nat
    BY <1>9, <2>2 DEF AdvancePeriod, Fault, Typing, TypeOK
  <2> QED
    BY <1>9, <2>3 DEF AdvancePeriod, RowDone, Typing, TypeOK, HandsInv, InHand, Locations
<1>10. CASE MarkPastDue(r)
  BY <1>10 DEF MarkPastDue, UpdateStatus, RowDone, Fault, Typing, TypeOK, HandsInv,
               InHand, Locations, Status
<1>11. CASE ActivateTrial(r) \/ ExpirePastDue(r)
  <2>1. PICK row \in todo[r], new \in {"active", "expired"} :
          /\ UpdateStatus(row.sub, new)
          /\ todo' = [todo EXCEPT ![r] = @ \ {row}] /\ cur' = [cur EXCEPT ![r] = NoRow]
    BY <1>11 DEF ActivateTrial, ExpirePastDue, UpdateListed, RowDone, Earliest
  <2>2. status' \in [Subs -> Status \cup {Absent}] /\ faults' \in Nat
    BY <2>1 DEF UpdateStatus, Fault, Typing, TypeOK, Status
  <2>3. todo' \in [Runners -> SUBSET Snapshot] /\ cur' \in [Runners -> Snapshot \cup {NoRow}]
    BY <2>1 DEF Typing, TypeOK
  <2>4. /\ pc' \in [Runners -> Locations] /\ pc'[r] \notin InHand
        /\ \A q \in Runners \ {r} : pc'[q] = pc[q] /\ cur'[q] = cur[q]
    BY <1>11, <2>1 DEF ActivateTrial, ExpirePastDue, UpdateListed, RowDone, Typing, TypeOK,
       Locations, InHand
  <2>5. UNCHANGED <<now, createdAt, trialEndsAt, cancelAtPeriodEnd, canceledAtSet, credentials,
                    patch, periodStart, periodEnd, moneyVars, config, answer, cutoff, touched>>
    BY <1>11 DEF ActivateTrial, ExpirePastDue, UpdateListed
  <2>6. TypeOK'
    BY <2>2, <2>3, <2>4, <2>5 DEF Typing, TypeOK
  <2>7. HandsInv'
    BY <2>4, <2>5 DEF Typing, HandsInv, InHand
  <2> QED
    BY <2>6, <2>7 DEF Typing
<1>12. CASE Crash(r)
  BY <1>12 DEF Crash, Fault, Typing, TypeOK, HandsInv, InHand, Locations
<1> QED
  BY <1>1, <1>3, <1>4, <1>5, <1>6, <1>7, <1>8, <1>9, <1>10, <1>11, <1>12 DEF RunnerStep

\* Every step keeps the types.
LEMMA TypingStep == Typing /\ [Next]_vars => Typing'
<1> SUFFICES ASSUME Typing, [Next]_vars PROVE Typing'
  OBVIOUS
<1>1. CASE Tick
  BY <1>1 DEF Tick, Typing, TypeOK, HandsInv, subVars, moneyVars, runnerVars
<1>2. CASE UNCHANGED vars
  BY <1>2 DEF Typing, TypeOK, HandsInv, vars, subVars, moneyVars, runnerVars
<1> QED
  BY <1>1, <1>2, ApiTyping, RunnerTyping DEF Next

\* Every variable keeps its type, and a runner never uses a row or an answer it
\* does not hold.
THEOREM TypeCorrect == Spec => []TypeOK
<1>1. Spec => []Typing
  BY TypingInit, TypingStep, PTL DEF Spec
<1>2. Typing => TypeOK
  BY DEF Typing
<1> QED
  BY <1>1, <1>2, PTL

(***************************************************************************)
(* What no step undoes: charges and payments are only added, rows are      *)
(* never deleted and keep their creation time.  So a period that may be    *)
(* charged may be charged for ever, however old the list it is on.         *)
(***************************************************************************)

\* Charges, payments and subscriptions are never deleted, nor a creation time changed.
LEMMA History ==
  ASSUME Typing, [Next]_vars
  PROVE  /\ charges \subseteq charges'
         /\ payments \subseteq payments'
         /\ \A s \in Subs : Exists(s) => Exists(s)' /\ createdAt'[s] = createdAt[s]
<1> USE DEF Exists, Absent, Typing, TypeOK, subVars, moneyVars, runnerVars
<1>1. CASE Tick \/ UNCHANGED vars
  BY <1>1 DEF Tick, vars
<1>2. ASSUME NEW s \in Subs, CreateSubscription(s)
      PROVE  /\ UNCHANGED moneyVars
             /\ \A u \in Subs : Exists(u) => Exists(u)' /\ createdAt'[u] = createdAt[u]
  BY <1>2 DEF CreateSubscription, apiUnchanged
<1>3. ASSUME NEW s \in Subs, CancelNow(s) \/ CancelAtEnd(s)
      PROVE  /\ UNCHANGED moneyVars
             /\ \A u \in Subs : Exists(u) => Exists(u)' /\ createdAt'[u] = createdAt[u]
  BY <1>3 DEF CancelNow, CancelAtEnd, apiUnchanged
<1>4. ASSUME NEW t \in Tenants, SetProviderConfig(t) \/ DeleteProviderConfig(t)
      PROVE  UNCHANGED <<moneyVars, status, createdAt>>
  BY <1>4 DEF SetProviderConfig, DeleteProviderConfig, apiUnchanged
<1>5. ASSUME NEW h \in Handlers, CommitPatch(h)
      PROVE  /\ UNCHANGED moneyVars
             /\ \A u \in Subs : Exists(u) => Exists(u)' /\ createdAt'[u] = createdAt[u]
  BY <1>5 DEF CommitPatch, apiUnchanged, PatchBody, Status
<1>6. ASSUME NEW h \in Handlers, (\E s \in Subs : BeginPatch(h, s)) \/ DropPatch(h)
      PROVE  UNCHANGED <<moneyVars, status, createdAt>>
  BY <1>6 DEF BeginPatch, DropPatch, apiUnchanged
<1>7. CASE ApiStep
  <2>1. CASE \/ \E h \in Handlers : (\E s \in Subs : BeginPatch(h, s)) \/ DropPatch(h)
             \/ \E t \in Tenants : SetProviderConfig(t) \/ DeleteProviderConfig(t)
    BY <1>6, <1>4, <2>1
  <2> QED
    BY <1>2, <1>3, <1>5, <1>7, <2>1 DEF ApiStep
<1>8. ASSUME NEW r \in Runners, RunnerStep(r) \/ Crash(r)
      PROVE  /\ charges \subseteq charges' /\ payments \subseteq payments'
             /\ createdAt' = createdAt
             /\ \A s \in Subs : Exists(s) => Exists(s)'
  <2>1. createdAt' = createdAt
    BY <1>8 DEF RunnerStep, StartPass, ListDue, ListTrials, ListOverdue, ListQuery,
       FetchCredentials, ChargeAnswered, ChargeRefused, ChargeAnswerLost, RecordPayment,
       AdvancePeriod, MarkPastDue, ActivateTrial, ExpirePastDue, UpdateListed, Crash,
       runnerUnchanged
  <2>2. charges \subseteq charges'
    BY <1>8 DEF RunnerStep, StartPass, ListDue, ListTrials, ListOverdue, ListQuery,
       FetchCredentials, ChargeAnswered, ChargeRefused, ChargeAnswerLost, RecordPayment,
       AdvancePeriod, MarkPastDue, ActivateTrial, ExpirePastDue, UpdateListed, Crash
  <2>3. payments \subseteq payments'
    BY <1>8 DEF RunnerStep, StartPass, ListDue, ListTrials, ListOverdue, ListQuery,
       FetchCredentials, ChargeAnswered, ChargeRefused, ChargeAnswerLost, RecordPayment,
       Recorded, AdvancePeriod, MarkPastDue, ActivateTrial, ExpirePastDue, UpdateListed, Crash
  <2>4. \/ status' = status
        \/ \E s, new : new # Absent /\ status' = [status EXCEPT ![s] = new]
    BY <1>8 DEF RunnerStep, StartPass, ListDue, ListTrials, ListOverdue, ListQuery,
       FetchCredentials, ChargeAnswered, ChargeRefused, ChargeAnswerLost, RecordPayment,
       AdvancePeriod, MarkPastDue, ActivateTrial, ExpirePastDue, UpdateListed, UpdateStatus,
       Crash
  <2> QED
    BY <2>1, <2>2, <2>3, <2>4
<1> QED
  BY <1>1, <1>7, <1>8 DEF Next

\* A renewal on record stays on record.
LEMMA RenewedStays ==
  ASSUME Typing, [Next]_vars, NEW s \in Subs, NEW e \in Int, Renewed(s, e)
  PROVE  Renewed(s, e)'
BY History DEF Renewed

\* A period that may be charged stays so: what a stale list relies on.
LEMMA ChargeableStays ==
  ASSUME Typing, [Next]_vars, NEW s \in Subs, NEW e, Chargeable(s, e)
  PROVE  Chargeable(s, e)'
<1>1. Exists(s)' /\ createdAt'[s] = createdAt[s] /\ createdAt[s] \in Int
  BY History DEF Chargeable, Typing, TypeOK
<1>2. PICK k \in 1..Span(createdAt[s], e) :
        e = PeriodEndAt(s, k) /\ \A j \in 1..(k - 1) : Renewed(s, PeriodEndAt(s, j))
  BY DEF Chargeable
<1>3. ASSUME NEW j \in 1..(k - 1) PROVE Renewed(s, PeriodEndAt(s, j))'
  <2>1. PICK f \in Int : f = PeriodEndAt(s, j)
    BY <1>1, EndType
  <2>2. Renewed(s, f)'
    BY <1>2, <2>1, RenewedStays
  <2>3. f = PeriodEndAt(s, j)'
    BY <1>1, <2>1 DEF PeriodEndAt
  <2> QED
    BY <2>2, <2>3 DEF Renewed
<1>4. k \in 1..Span(createdAt'[s], e) /\ e = PeriodEndAt(s, k)'
  BY <1>1, <1>2 DEF PeriodEndAt
<1> QED
  BY <1>1, <1>3, <1>4 DEF Chargeable, Span

\* The first period of a row just created may be charged.
LEMMA FirstPeriodChargeable ==
  ASSUME NEW s \in Subs, NEW e, createdAt'[s] \in Int, Exists(s)',
         e = NextPeriodEnd(s, createdAt'[s])
  PROVE  Chargeable(s, e)'
<1>1. PICK i \in Int : i = IntervalTicks[s] /\ (i >= 1 \/ i <= -1)
  BY IntervalType
<1>2. e = createdAt'[s] + 1 * i
  BY <1>1 DEF NextPeriodEnd
<1>3. 1 \in 1..Span(createdAt'[s], e)
  BY <1>1, <1>2 DEF Span
<1>4. 1..(1 - 1) = {}
  OBVIOUS
<1> QED
  BY <1>1, <1>2, <1>3, <1>4 DEF Chargeable, PeriodEndAt, Span

\* Once a period is charged and recorded the next one may be charged.
LEMMA NextPeriodChargeable ==
  ASSUME NEW s \in Subs, NEW e, createdAt[s] \in Int,
         Chargeable(s, e), Renewed(s, e)
  PROVE  Chargeable(s, NextPeriodEnd(s, e))
<1>1. PICK k \in Nat \ {0} :
        e = PeriodEndAt(s, k) /\ \A j \in 1..(k - 1) : Renewed(s, PeriodEndAt(s, j))
  BY ChargeableEnd
<1>2. NextPeriodEnd(s, e) = PeriodEndAt(s, k + 1)
  BY <1>1, NextIsNext
<1>3. ASSUME NEW j \in 1..((k + 1) - 1) PROVE Renewed(s, PeriodEndAt(s, j))
  <2>1. j = k \/ j \in 1..(k - 1)
    OBVIOUS
  <2> QED
    BY <1>1, <2>1
<1>4. Exists(s) /\ k + 1 \in Nat \ {0}
  BY DEF Chargeable
<1> QED
  BY <1>2, <1>3, <1>4, EndChargeable

(***************************************************************************)
(* The inductive invariant: what is not touched stays as it should be.     *)
(***************************************************************************)

\* A row whose period a step leaves alone stays in a chargeable period.
LEMMA RowUnmoved ==
  ASSUME IInv, [Next]_vars, NEW s \in Subs, Exists(s),
         periodStart'[s] = periodStart[s], periodEnd'[s] = periodEnd[s]
  PROVE  periodEnd'[s] = NextPeriodEnd(s, periodStart'[s]) /\ Chargeable(s, periodEnd[s])'
<1>1. Typing
  BY DEF IInv, Typing
<1>2. PICK e \in Int : e = periodEnd[s] /\ e = periodEnd'[s]
  BY DEF IInv, TypeOK
<1>3. Chargeable(s, e)'
  BY <1>1, <1>2, ChargeableStays DEF IInv, RowsInv
<1> QED
  BY <1>2, <1>3 DEF IInv, RowsInv, Chargeable

\* A runner that a step leaves alone keeps its part of the invariant.
LEMMA RunnerUnmoved ==
  ASSUME IInv, [Next]_vars, NEW r \in Runners, RunnerInv(r),
         pc'[r] = pc[r], todo'[r] = todo[r], cur'[r] = cur[r], answer'[r] = answer[r]
  PROVE  RunnerInv(r)'
<1>1. Typing
  BY DEF IInv, Typing
<1>2. ASSUME pc[r] \in Renewing PROVE \A row \in todo'[r] : Chargeable(row.sub, row.at)'
  <2> SUFFICES ASSUME NEW row \in todo[r] PROVE Chargeable(row.sub, row.at)'
    OBVIOUS
  <2>1. row.sub \in Subs /\ row.at \in Int
    BY DEF IInv, TypeOK, Snapshot
  <2>2. Chargeable(row.sub, row.at)
    BY <1>2 DEF RunnerInv
  <2> QED
    BY <1>1, <2>1, <2>2, ChargeableStays
<1>3. ASSUME pc[r] \in {"charge", "record", "advance"}
      PROVE  /\ Chargeable(cur[r].sub, cur[r].at)'
             /\ pc[r] = "advance" => Renewed(cur[r].sub, cur[r].at)'
  <2>1. PICK row \in Snapshot : row = cur[r]
    BY <1>3 DEF IInv, HandsInv, InHand
  <2>2. row.sub \in Subs /\ row.at \in Int
    BY DEF Snapshot
  <2>3. Chargeable(row.sub, row.at)'
    BY <1>1, <1>3, <2>1, <2>2, ChargeableStays DEF RunnerInv
  <2>4. pc[r] = "advance" => Renewed(row.sub, row.at)'
    BY <1>1, <2>1, <2>2, RenewedStays DEF RunnerInv
  <2>5. row = cur'[r]
    BY <2>1
  <2> QED
    BY <2>3, <2>4, <2>5
<1>4. ASSUME pc[r] = "record"
      PROVE  \E c \in charges' : c.key = Key(cur'[r]) /\ c.outcome = answer'[r]
  BY <1>1, <1>4, History DEF RunnerInv
<1> QED
  BY <1>2, <1>3, <1>4 DEF RunnerInv, Key, RenewalKey, Day

\* If no charge and no payment is added, both tables stay consistent.
LEMMA MoneyUnmoved ==
  ASSUME IInv, [Next]_vars, UNCHANGED moneyVars
  PROVE  ChargesInv' /\ PaymentsAreBacked'
<1>1. Typing
  BY DEF IInv, Typing
<1>2. ASSUME NEW c \in charges PROVE Chargeable(c.sub, c.period)'
  BY <1>1, <1>2, ChargeableStays DEF IInv, ChargesInv, TypeOK, ChargeRecord
<1> QED
  BY <1>2 DEF IInv, ChargesInv, PaymentsAreBacked, moneyVars, RenewalKey, Day

(***************************************************************************)
(* No row appears except by CreateSubscription.                            *)
(***************************************************************************)

\* No step deletes a row that a runner or a request names.
LEMMA NamesStep ==
  ASSUME IInv, [Next]_vars
  PROVE  NamesInv'
<1>1. Typing
  BY DEF IInv, Typing
<1>2. \A s \in Subs : Exists(s) => Exists(s)'
  BY <1>1, History
<1>3. /\ \A r \in Runners : DOMAIN todo = Runners /\ DOMAIN cur = Runners /\ DOMAIN pc = Runners
      /\ \A r \in Runners : \A row \in todo[r] : row.sub \in Subs /\ Exists(row.sub)
      /\ \A r \in Runners : pc[r] \in InHand => cur[r].sub \in Subs /\ Exists(cur[r].sub)
  <2>1. /\ todo \in [Runners -> SUBSET Snapshot] /\ DOMAIN cur = Runners /\ DOMAIN pc = Runners
        /\ \A r \in Runners : pc[r] \in InHand => cur[r] \in Snapshot
        /\ NamesInv
    BY DEF IInv, TypeOK, HandsInv
  <2>2. \A row \in Snapshot : row.sub \in Subs
    BY DEF Snapshot
  <2> QED
    BY <2>1, <2>2 DEF NamesInv
<1>4. /\ DOMAIN patch = Handlers
      /\ \A h \in Handlers : patch[h] # NoRow => patch[h].sub \in Subs /\ Exists(patch[h].sub)
  BY DEF IInv, TypeOK, NamesInv
<1> DEFINE
      NewNames(r) == /\ \A row \in todo'[r] : row.sub \in Subs /\ Exists(row.sub)
                     /\ pc'[r] \in InHand => cur'[r].sub \in Subs /\ Exists(cur'[r].sub)
<1>5. ASSUME NEW r \in Runners, RunnerStep(r) \/ Crash(r)
      PROVE  NewNames(r)
  <2>1. CASE ListDue(r) \/ ListTrials(r) \/ ListOverdue(r)
    <3>1. ASSUME NEW at, NEW rows, NEW loop, NEW next, loop \notin InHand, next \notin InHand,
                 \A row \in rows : row.sub \in Subs /\ Exists(row.sub),
                 ListQuery(r, at, rows, loop, next)
          PROVE  NewNames(r)
      <4>1. pc'[r] \in {loop, next}
        BY <1>3, <3>1 DEF ListQuery
      <4>2. todo'[r] \subseteq rows \/ todo'[r] = todo[r]
        BY <1>3, <3>1 DEF ListQuery, Batches
      <4> QED
        BY <1>3, <3>1, <4>1, <4>2
    <3>2. /\ \A row \in RowsBy(DueForRenewal, periodEnd) : row.sub \in Subs /\ Exists(row.sub)
          /\ \A row \in RowsBy(ExpiredTrials, trialEndsAt) : row.sub \in Subs /\ Exists(row.sub)
          /\ \A row \in RowsBy(PastDuePendingExpiry(cutoff[r]), periodEnd) :
                row.sub \in Subs /\ Exists(row.sub)
      BY DEF RowsBy, DueForRenewal, ExpiredTrials, PastDuePendingExpiry, Exists, Absent
    <3> QED
      BY <2>1, <3>1, <3>2 DEF ListDue, ListTrials, ListOverdue, InHand
  <2>2. CASE FetchCredentials(r)
    BY <1>3, <2>2 DEF FetchCredentials, Earliest
  <2>3. CASE ActivateTrial(r) \/ ExpirePastDue(r)
    BY <1>3, <2>3 DEF ActivateTrial, ExpirePastDue, UpdateListed, RowDone, InHand
  <2>4. CASE AdvancePeriod(r) \/ MarkPastDue(r)
    BY <1>3, <2>4 DEF AdvancePeriod, MarkPastDue, RowDone, InHand
  <2>5. CASE StartPass(r) \/ Crash(r)
    BY <1>3, <2>5 DEF StartPass, Crash, InHand
  <2>6. CASE \/ ChargeAnswered(r) \/ ChargeRefused(r)
             \/ ChargeAnswerLost(r) \/ RecordPayment(r)
    BY <1>3, <2>6
       DEF ChargeAnswered, ChargeRefused, ChargeAnswerLost, RecordPayment, InHand
  <2> QED
    BY <1>5, <2>1, <2>2, <2>3, <2>4, <2>5, <2>6 DEF RunnerStep
<1>6. ASSUME NEW r \in Runners, RunnerStep(r) \/ Crash(r)
      PROVE  /\ patch' = patch
             /\ \A q \in Runners \ {r} : todo'[q] = todo[q] /\ cur'[q] = cur[q] /\ pc'[q] = pc[q]
  BY <1>3, <1>6 DEF RunnerStep, StartPass, ListDue, ListTrials, ListOverdue, ListQuery,
     FetchCredentials, ChargeAnswered, ChargeRefused, ChargeAnswerLost, RecordPayment,
     AdvancePeriod, MarkPastDue, ActivateTrial, ExpirePastDue, UpdateListed, Crash,
     RowDone, runnerUnchanged
<1>7. ASSUME NEW r \in Runners, RunnerStep(r) \/ Crash(r) PROVE NamesInv'
  <2>1. \A q \in Runners : NewNames(q)
    BY <1>3, <1>5, <1>6, <1>7
  <2> QED
    BY <1>2, <1>4, <1>6, <1>7, <2>1 DEF NamesInv
<1>8. CASE Tick \/ ApiStep \/ UNCHANGED vars
  <2>1. UNCHANGED runnerVars
    BY <1>8 DEF Tick, ApiStep, vars, runnerVars, CreateSubscription, CancelNow, CancelAtEnd,
       SetProviderConfig, DeleteProviderConfig, BeginPatch, CommitPatch, DropPatch, apiUnchanged
  <2>2. \A h \in Handlers : patch'[h] # NoRow => patch'[h].sub \in Subs /\ Exists(patch'[h].sub)
    <3>1. CASE patch' = patch
      BY <1>4, <3>1
    <3>2. CASE \E h \in Handlers : (\E s \in Subs : BeginPatch(h, s)) \/ CommitPatch(h) \/ DropPatch(h)
      BY <1>4, <3>2 DEF BeginPatch, CommitPatch, DropPatch
    <3>3. ASSUME NEW s \in Subs, CreateSubscription(s) \/ CancelNow(s) \/ CancelAtEnd(s)
          PROVE  patch' = patch
      BY <3>3 DEF CreateSubscription, CancelNow, CancelAtEnd
    <3>4. ASSUME NEW t \in Tenants, SetProviderConfig(t) \/ DeleteProviderConfig(t)
          PROVE  patch' = patch
      BY <3>4 DEF SetProviderConfig, DeleteProviderConfig
    <3> QED
      BY <1>8, <3>1, <3>2, <3>3, <3>4 DEF Tick, ApiStep, vars
  <2>3. \A q \in Runners : NewNames(q)
    BY <1>3, <2>1 DEF runnerVars
  <2> QED
    BY <1>2, <2>2, <2>3 DEF NamesInv
<1> QED
  BY <1>7, <1>8 DEF Next

\* An UPDATE that names a row creates none.
LEMMA RowsAppear ==
  ASSUME IInv, [Next]_vars, NEW s \in Subs, Exists(s)', ~Exists(s)
  PROVE  CreateSubscription(s)
<1>1. status \in [Subs -> Status \cup {Absent}]
  BY DEF IInv, TypeOK
<1>2. ASSUME NEW u \in Subs, CreateSubscription(u) PROVE u = s
  BY <1>1, <1>2 DEF CreateSubscription, Exists
<1>3. ASSUME NEW u \in Subs, CancelNow(u) PROVE FALSE
  BY <1>1, <1>3 DEF CancelNow, Exists
<1>4. ASSUME NEW h \in Handlers, CommitPatch(h) PROVE FALSE
  <2>1. Exists(patch[h].sub)
    BY <1>4 DEF CommitPatch, IInv, NamesInv
  <2> QED
    BY <1>1, <1>4, <2>1 DEF CommitPatch, Exists
<1>5. ASSUME NEW r \in Runners, MarkPastDue(r) PROVE FALSE
  <2>1. Exists(cur[r].sub)
    BY <1>5 DEF MarkPastDue, IInv, NamesInv, InHand
  <2> QED
    BY <1>1, <1>5, <2>1 DEF MarkPastDue, UpdateStatus, Exists
<1>6. ASSUME NEW r \in Runners, ActivateTrial(r) \/ ExpirePastDue(r) PROVE FALSE
  <2>1. PICK row \in todo[r] : UpdateStatus(row.sub, "active") \/ UpdateStatus(row.sub, "expired")
    BY <1>6 DEF ActivateTrial, ExpirePastDue, UpdateListed, Earliest
  <2>2. Exists(row.sub)
    BY DEF IInv, NamesInv
  <2> QED
    BY <1>1, <2>1, <2>2 DEF UpdateStatus, Exists
<1>7. \/ status' = status
      \/ \E u \in Subs : CreateSubscription(u) \/ CancelNow(u)
      \/ \E h \in Handlers : CommitPatch(h)
      \/ \E r \in Runners : MarkPastDue(r) \/ ActivateTrial(r) \/ ExpirePastDue(r)
  BY DEF Next, Tick, ApiStep, vars, subVars, CancelAtEnd, SetProviderConfig,
     DeleteProviderConfig, BeginPatch, DropPatch, RunnerStep, StartPass, ListDue, ListTrials,
     ListOverdue, ListQuery, FetchCredentials, ChargeAnswered, ChargeRefused,
     ChargeAnswerLost, RecordPayment, AdvancePeriod, Crash
<1> QED
  BY <1>2, <1>3, <1>4, <1>5, <1>6, <1>7 DEF Exists

\* A row is only ever moved into the period after one it has paid for.
LEMMA RowsStep ==
  ASSUME IInv, [Next]_vars
  PROVE  RowsInv'
<1> SUFFICES ASSUME NEW s \in Subs, Exists(s)'
             PROVE  /\ periodEnd'[s] = NextPeriodEnd(s, periodStart'[s])
                    /\ Chargeable(s, periodEnd[s])'
  BY DEF RowsInv, NextPeriodEnd
<1>1. Typing
  BY DEF IInv, Typing
<1>2. periodStart \in [Subs -> Int] /\ periodEnd \in [Subs -> Int] /\ createdAt \in [Subs -> Nat]
  BY DEF IInv, TypeOK
<1>3. CASE CreateSubscription(s)
  <2>1. /\ periodStart'[s] = now /\ createdAt'[s] = now
        /\ periodEnd'[s] = NextPeriodEnd(s, now)
    BY <1>2, <1>3 DEF CreateSubscription
  <2>2. now \in Nat
    BY DEF IInv, TypeOK
  <2>3. PICK e \in Int : e = NextPeriodEnd(s, now)
    BY <2>2, IntervalType DEF NextPeriodEnd
  <2>4. Chargeable(s, e)'
    BY <2>1, <2>2, <2>3, FirstPeriodChargeable
  <2>5. e = periodEnd'[s]
    BY <2>1, <2>3
  <2> QED
    BY <2>1, <2>4, <2>5 DEF Chargeable
<1>4. ASSUME NEW r \in Runners, AdvancePeriod(r), cur[r].sub = s, Exists(s),
             periodEnd'[s] # periodEnd[s] \/ periodStart'[s] # periodStart[s]
      PROVE  /\ periodEnd'[s] = NextPeriodEnd(s, periodStart'[s])
             /\ Chargeable(s, periodEnd[s])'
  <2>1. PICK e \in Int : e = cur[r].at
    BY <1>4 DEF AdvancePeriod, IInv, HandsInv, InHand, Snapshot
  <2>2. periodStart'[s] = e /\ periodEnd'[s] = NextPeriodEnd(s, e)
    BY <1>2, <1>4, <2>1 DEF AdvancePeriod
  <2>3. Chargeable(s, e) /\ Renewed(s, e)
    BY <1>4, <2>1 DEF AdvancePeriod, IInv, RunnersInv, RunnerInv
  <2>4. Chargeable(s, NextPeriodEnd(s, e))
    BY <1>2, <2>3, NextPeriodChargeable
  <2>5. PICK f \in Int : f = NextPeriodEnd(s, e)
    BY IntervalType DEF NextPeriodEnd
  <2>6. Chargeable(s, f)'
    BY <1>1, <2>4, <2>5, ChargeableStays
  <2>7. f = periodEnd'[s]
    BY <2>2, <2>5
  <2> QED
    BY <2>2, <2>6, <2>7 DEF Chargeable
<1>5. CASE ~CreateSubscription(s)
  <2>1. Exists(s)
    BY <1>5, RowsAppear
  <2>2. \/ periodStart'[s] = periodStart[s] /\ periodEnd'[s] = periodEnd[s]
        \/ \E r \in Runners : AdvancePeriod(r) /\ cur[r].sub = s
    <3>1. ASSUME NEW u \in Subs, CreateSubscription(u)
          PROVE  periodStart'[s] = periodStart[s] /\ periodEnd'[s] = periodEnd[s]
      BY <1>2, <1>5, <3>1 DEF CreateSubscription
    <3>2. CASE ApiStep \/ Tick \/ UNCHANGED vars
      <4>1. CASE \E u \in Subs : CreateSubscription(u)
        BY <3>1, <4>1
      <4>2. CASE ~\E u \in Subs : CreateSubscription(u)
        BY <3>2, <4>2 DEF ApiStep, Tick, vars, subVars, CancelNow, CancelAtEnd, SetProviderConfig,
           DeleteProviderConfig, BeginPatch, CommitPatch, DropPatch
      <4> QED
        BY <4>1, <4>2
    <3>3. ASSUME NEW r \in Runners, RunnerStep(r) \/ Crash(r), ~AdvancePeriod(r)
          PROVE  periodStart' = periodStart /\ periodEnd' = periodEnd
      BY <3>3 DEF RunnerStep, StartPass, ListDue, ListTrials, ListOverdue, ListQuery,
         FetchCredentials, ChargeAnswered, ChargeRefused, ChargeAnswerLost, RecordPayment,
         MarkPastDue, ActivateTrial, ExpirePastDue, UpdateListed, Crash
    <3>4. ASSUME NEW r \in Runners, AdvancePeriod(r), cur[r].sub # s
          PROVE  periodStart'[s] = periodStart[s] /\ periodEnd'[s] = periodEnd[s]
      BY <1>2, <3>4 DEF AdvancePeriod
    <3> QED
      BY <3>2, <3>3, <3>4 DEF Next
  <2> QED
    BY <1>4, <2>1, <2>2, RowUnmoved
<1> QED
  BY <1>3, <1>5

(***************************************************************************)
(* The four steps that touch the tables charges and payments or move a     *)
(* runner between charging, recording and advancing.                       *)
(***************************************************************************)

\* A provider's answer adds at most one charge, of a chargeable period, to
\* an account that has none under its key.
LEMMA ChargesStep ==
  ASSUME IInv, [Next]_vars, NEW r \in Runners,
         Chargeable(cur[r].sub, cur[r].at), cur[r] \in Snapshot, NEW a \in Accounts,
         NEW c \in ProviderAnswers(cur[r], a), charges' = charges \cup {c}
  PROVE  ChargesInv'
<1>1. Typing
  BY DEF IInv, Typing
<1>2. PICK row \in Snapshot : row = cur[r]
  OBVIOUS
<1>3. row.sub \in Subs /\ row.at \in Int
  BY DEF Snapshot
<1>4. ASSUME NEW d \in charges PROVE d.key = RenewalKey(d.sub, d.period) /\ Chargeable(d.sub, d.period)'
  BY <1>1, <1>4, ChargeableStays DEF IInv, ChargesInv, TypeOK, ChargeRecord
<1>5. CASE c \in charges
  BY <1>4, <1>5 DEF IInv, ChargesInv, RenewalKey, Day
<1>6. CASE c \notin charges
  <2>1. /\ \A d \in charges : d.key = Key(row) => d.account # a
        /\ c.key = Key(row) /\ c.account = a /\ c.sub = row.sub /\ c.period = row.at
    BY <1>2, <1>6 DEF ProviderAnswers
  <2>2. Chargeable(row.sub, row.at)'
    BY <1>1, <1>2, <1>3, ChargeableStays
  <2>3. c.key = RenewalKey(c.sub, c.period) /\ Chargeable(c.sub, c.period)'
    BY <2>1, <2>2 DEF Key
  <2>4. \A d, e \in charges' : d.key = e.key /\ d.account = e.account => d = e
    BY <2>1 DEF IInv, ChargesInv
  <2> QED
    BY <1>4, <2>3, <2>4 DEF ChargesInv, RenewalKey, Day
<1> QED
  BY <1>5, <1>6

\* Charges made under the key of the row in hand are charges of its period.
LEMMA KeyNamesRow ==
  ASSUME IInv, NEW row \in Snapshot, Chargeable(row.sub, row.at),
         NEW c \in charges, c.key = Key(row)
  PROVE  c.sub = row.sub /\ c.period = row.at
<1>1. row.sub \in Subs /\ c.sub \in Subs
  BY DEF Snapshot, IInv, TypeOK, ChargeRecord
<1>2. c.key = RenewalKey(c.sub, c.period) /\ Chargeable(c.sub, c.period)
  BY DEF IInv, ChargesInv
<1>3. c.sub = row.sub /\ Day(c.period) = Day(row.at)
  BY <1>2 DEF Key, RenewalKey
<1>4. createdAt[c.sub] \in Int
  BY <1>1 DEF IInv, TypeOK
<1>5. c.period = row.at
  BY <1>1, <1>2, <1>3, <1>4, DateNamesPeriod
<1> QED
  BY <1>3, <1>5

\* Recording files the payment of the charge in hand, or finds the payment of a
\* charge of the same period: afterwards the period counts as renewed, and every
\* payment still has its charge.
LEMMA RecordedStep ==
  ASSUME IInv, [Next]_vars, NEW r \in Runners, pc[r] = "record", charges' = charges, cur' = cur,
         payments' = payments \/ payments' = Recorded(cur[r], answer[r])
  PROVE  /\ PaymentsAreBacked'
         /\ payments' = Recorded(cur[r], answer[r]) => Renewed(cur[r].sub, cur[r].at)'
<1>1. PICK row \in Snapshot : row = cur[r]
  BY DEF IInv, HandsInv, InHand
<1>2. Chargeable(row.sub, row.at)
  BY <1>1 DEF IInv, RunnersInv, RunnerInv
<1>3. PICK c \in charges : c.key = Key(row) /\ c.outcome = answer[r]
  BY <1>1 DEF IInv, RunnersInv, RunnerInv
<1> DEFINE entry == [key |-> c.key, status |-> c.outcome]
<1>4. Recorded(row, answer[r]) \subseteq payments \cup {entry}
  BY <1>3 DEF Recorded
<1>5. PaymentsAreBacked'
  BY <1>1, <1>4 DEF IInv, PaymentsAreBacked
<1>6. ASSUME payments' = Recorded(row, answer[r]) PROVE Renewed(row.sub, row.at)'
  <2>1. PICK d \in charges : d.key = Key(row) /\ [key |-> d.key, status |-> d.outcome] \in payments'
    <3>1. CASE \E p \in payments : p.key = Key(row)
      <4>1. PICK p \in payments : p.key = Key(row)
        BY <3>1
      <4>2. PICK d \in charges : d.key = p.key /\ d.outcome = p.status
        BY DEF IInv, PaymentsAreBacked
      <4>3. p = [key |-> p.key, status |-> p.status]
        BY DEF IInv, TypeOK, PaymentRecord
      <4>4. payments' = payments
        BY <1>6, <3>1 DEF Recorded
      <4> QED
        BY <4>1, <4>2, <4>3, <4>4
    <3>2. CASE ~\E p \in payments : p.key = Key(row)
      BY <1>3, <1>6, <3>2 DEF Recorded
    <3> QED
      BY <3>1, <3>2
  <2>2. d.sub = row.sub /\ d.period = row.at
    BY <1>2, <2>1, KeyNamesRow
  <2> QED
    BY <2>1, <2>2 DEF Renewed
<1> QED
  <2>1. row = cur'[r]
    BY <1>1
  <2> QED
    BY <1>1, <1>5, <1>6, <2>1

\* The two tables of money stay consistent under every step.
LEMMA MoneyStep ==
  ASSUME IInv, [Next]_vars
  PROVE  ChargesInv' /\ PaymentsAreBacked'
<1>1. Typing
  BY DEF IInv, Typing
<1>2. ASSUME NEW r \in Runners, ChargeAnswered(r) \/ ChargeAnswerLost(r)
      PROVE  ChargesInv' /\ PaymentsAreBacked'
  <2>1. PICK c \in ProviderAnswers(cur[r], config[r]) : charges' = charges \cup {c}
    BY <1>2 DEF ChargeAnswered, ChargeAnswerLost
  <2>2. /\ Chargeable(cur[r].sub, cur[r].at) /\ cur[r] \in Snapshot /\ config[r] \in Accounts
        /\ payments' = payments
    BY <1>2 DEF ChargeAnswered, ChargeAnswerLost, IInv, RunnersInv, RunnerInv, HandsInv, InHand
  <2>3. ChargesInv'
    BY <2>1, <2>2, ChargesStep
  <2> QED
    BY <2>1, <2>2, <2>3 DEF IInv, PaymentsAreBacked
<1>3. ASSUME NEW r \in Runners, RecordPayment(r)
      PROVE  ChargesInv' /\ PaymentsAreBacked'
  <2>1. /\ pc[r] = "record" /\ charges' = charges /\ cur' = cur
        /\ payments' = payments \/ payments' = Recorded(cur[r], answer[r])
    BY <1>3 DEF RecordPayment
  <2>2. ASSUME NEW d \in charges PROVE Chargeable(d.sub, d.period)'
    BY <1>1, <2>2, ChargeableStays DEF IInv, ChargesInv, TypeOK, ChargeRecord
  <2>3. ChargesInv'
    BY <2>1, <2>2 DEF IInv, ChargesInv, RenewalKey, Day
  <2> QED
    BY <2>1, <2>3, RecordedStep
<1>4. \/ UNCHANGED moneyVars
      \/ \E r \in Runners : ChargeAnswered(r) \/ ChargeAnswerLost(r) \/ RecordPayment(r)
  <2>1. CASE Tick \/ ApiStep \/ UNCHANGED vars
    BY <2>1 DEF Tick, ApiStep, vars, CreateSubscription, CancelNow, CancelAtEnd,
       SetProviderConfig, DeleteProviderConfig, BeginPatch, CommitPatch, DropPatch, apiUnchanged
  <2>2. ASSUME NEW r \in Runners, RunnerStep(r) \/ Crash(r),
               ~(ChargeAnswered(r) \/ ChargeAnswerLost(r) \/ RecordPayment(r))
        PROVE  UNCHANGED moneyVars
    BY <2>2 DEF RunnerStep, StartPass, ListDue, ListTrials, ListOverdue, ListQuery,
       FetchCredentials, ChargeRefused, AdvancePeriod, MarkPastDue, ActivateTrial,
       ExpirePastDue, UpdateListed, Crash
  <2> QED
    BY <2>1, <2>2 DEF Next
<1> QED
  BY <1>2, <1>3, <1>4, MoneyUnmoved

(***************************************************************************)
(* A runner's own knowledge, action by action.                             *)
(***************************************************************************)

\* A row in the hand or on the list of a runner stays chargeable.
LEMMA TodoStays ==
  ASSUME IInv, [Next]_vars, NEW r \in Runners, pc[r] \in Renewing, NEW row \in todo[r]
  PROVE  Chargeable(row.sub, row.at)'
<1>1. Typing
  BY DEF IInv, Typing
<1>2. row.sub \in Subs /\ row.at \in Int /\ Chargeable(row.sub, row.at)
  BY DEF IInv, TypeOK, Snapshot, RunnersInv, RunnerInv
<1> QED
  BY <1>1, <1>2, ChargeableStays

\* The row in hand stays chargeable while its renewal is under way.
LEMMA HandStays ==
  ASSUME IInv, [Next]_vars, NEW r \in Runners, cur'[r] = cur[r],
         pc[r] \in {"charge", "record", "advance"}
  PROVE  Chargeable(cur[r].sub, cur[r].at)'
<1>1. Typing
  BY DEF IInv, Typing
<1>2. PICK row \in Snapshot : row = cur[r]
  BY DEF IInv, HandsInv, InHand
<1>3. row.sub \in Subs /\ row.at \in Int /\ Chargeable(row.sub, row.at)
  BY <1>2 DEF Snapshot, IInv, RunnersInv, RunnerInv
<1>4. Chargeable(row.sub, row.at)'
  BY <1>1, <1>3, ChargeableStays
<1>5. row = cur'[r]
  BY <1>2
<1> QED
  BY <1>4, <1>5

\* A runner's own steps and its crash keep its part of the invariant.
LEMMA RunnerMoves ==
  ASSUME IInv, [Next]_vars, NEW r \in Runners, RunnerStep(r) \/ Crash(r)
  PROVE  RunnerInv(r)'
<1>1. Typing
  BY DEF IInv, Typing
<1>2. /\ DOMAIN pc = Runners /\ DOMAIN todo = Runners /\ DOMAIN cur = Runners
      /\ DOMAIN answer = Runners
  BY DEF IInv, TypeOK
<1>3. CASE ListDue(r)
  <2>1. CASE pc'[r] = "renew"
    <3>1. todo'[r] \subseteq RowsBy(DueForRenewal, periodEnd)
      BY <1>2, <1>3, <2>1 DEF ListDue, ListQuery, Batches
    <3>2. ASSUME NEW row \in todo'[r] PROVE Chargeable(row.sub, row.at)'
      <4>1. /\ row.sub \in Subs /\ row.at = periodEnd[row.sub] /\ row.at \in Int
            /\ Exists(row.sub)
        BY <3>1 DEF RowsBy, DueForRenewal, Exists, Absent, IInv, TypeOK
      <4>2. Chargeable(row.sub, row.at)
        BY <4>1 DEF IInv, RowsInv
      <4> QED
        BY <1>1, <4>1, <4>2, ChargeableStays
    <3> QED
      BY <2>1, <3>2 DEF RunnerInv
  <2>2. CASE pc'[r] = "listTrials"
    BY <2>2 DEF RunnerInv, Renewing
  <2> QED
    BY <1>2, <1>3, <2>1, <2>2 DEF ListDue, ListQuery
<1>4. CASE FetchCredentials(r)
  <2>1. PICK row \in todo[r] : cur'[r] = row
    BY <1>2, <1>4 DEF FetchCredentials, Earliest
  <2>2. \A x \in todo[r] : Chargeable(x.sub, x.at)'
    BY <1>4, TodoStays DEF FetchCredentials, Renewing
  <2>3. todo'[r] \subseteq todo[r] /\ pc'[r] \in {"charge", "markPastDue"}
    BY <1>2, <1>4 DEF FetchCredentials
  <2> QED
    BY <2>1, <2>2, <2>3 DEF RunnerInv
<1>5. CASE ChargeAnswered(r)
  <2>1. /\ pc[r] = "charge" /\ pc'[r] = "record" /\ todo'[r] = todo[r] /\ cur'[r] = cur[r]
    BY <1>2, <1>5 DEF ChargeAnswered
  <2>2. \A x \in todo'[r] : Chargeable(x.sub, x.at)'
    BY <2>1, TodoStays DEF Renewing
  <2>3. Chargeable(cur[r].sub, cur[r].at)'
    BY <2>1, HandStays
  <2>4. PICK c \in ProviderAnswers(cur[r], config[r]) : charges' = charges \cup {c} /\ answer'[r] = c.outcome
    BY <1>2, <1>5 DEF ChargeAnswered
  <2>5. c.key = Key(cur[r])
    BY <2>1, <2>4, AnswerType DEF IInv, HandsInv, InHand
  <2>6. \E d \in charges' : d.key = Key(cur'[r]) /\ d.outcome = answer'[r]
    BY <2>1, <2>4, <2>5
  <2> QED
    BY <2>1, <2>2, <2>3, <2>6 DEF RunnerInv, Key, RenewalKey, Day
<1>6. CASE RecordPayment(r)
  <2>1. /\ pc[r] = "record" /\ todo'[r] = todo[r] /\ cur' = cur /\ charges' = charges
        /\ \/ pc'[r] = "advance" /\ payments' = Recorded(cur[r], answer[r])
           \/ pc'[r] = "markPastDue"
    BY <1>2, <1>6 DEF RecordPayment
  <2>2. \A x \in todo'[r] : Chargeable(x.sub, x.at)'
    BY <2>1, TodoStays DEF Renewing
  <2>3. Chargeable(cur[r].sub, cur[r].at)'
    BY <2>1, HandStays
  <2>4. pc'[r] = "advance" => Renewed(cur[r].sub, cur[r].at)'
    BY <2>1, RecordedStep
  <2> QED
    BY <2>1, <2>2, <2>3, <2>4 DEF RunnerInv
<1>7. CASE ChargeRefused(r) \/ ChargeAnswerLost(r)
  <2>1. pc[r] = "charge" /\ pc'[r] = "markPastDue" /\ todo'[r] = todo[r]
    BY <1>2, <1>7 DEF ChargeRefused, ChargeAnswerLost
  <2>2. \A x \in todo'[r] : Chargeable(x.sub, x.at)'
    BY <2>1, TodoStays DEF Renewing
  <2> QED
    BY <2>1, <2>2 DEF RunnerInv
<1>8. CASE AdvancePeriod(r) \/ MarkPastDue(r)
  <2>1. pc[r] \in {"advance", "markPastDue"} /\ pc'[r] \in {"renew", "listTrials"} /\ todo'[r] = todo[r]
    BY <1>2, <1>8 DEF AdvancePeriod, MarkPastDue, RowDone
  <2>2. \A x \in todo'[r] : Chargeable(x.sub, x.at)'
    BY <2>1, TodoStays DEF Renewing
  <2> QED
    BY <2>1, <2>2 DEF RunnerInv
<1>9. CASE \/ StartPass(r) \/ Crash(r) \/ ListTrials(r) \/ ListOverdue(r)
           \/ ActivateTrial(r) \/ ExpirePastDue(r)
  <2>1. pc'[r] \notin Renewing
    BY <1>2, <1>9 DEF StartPass, Crash, ListTrials, ListOverdue, ListQuery, ActivateTrial,
       ExpirePastDue, UpdateListed, RowDone, Renewing
  <2> QED
    BY <2>1 DEF RunnerInv, Renewing
<1> QED
  BY <1>3, <1>4, <1>5, <1>6, <1>7, <1>8, <1>9 DEF RunnerStep

\* Every step keeps every runner's part of the invariant.
LEMMA RunnersStep ==
  ASSUME IInv, [Next]_vars
  PROVE  RunnersInv'
<1> SUFFICES ASSUME NEW q \in Runners PROVE RunnerInv(q)'
  BY DEF RunnersInv
<1>1. \/ RunnerStep(q) \/ Crash(q)
      \/ /\ pc'[q] = pc[q] /\ todo'[q] = todo[q]
         /\ cur'[q] = cur[q] /\ answer'[q] = answer[q]
  <2>1. /\ DOMAIN pc = Runners /\ DOMAIN todo = Runners /\ DOMAIN cur = Runners
        /\ DOMAIN answer = Runners
    BY DEF IInv, TypeOK
  <2>2. CASE Tick \/ ApiStep \/ UNCHANGED vars
    BY <2>2 DEF Tick, ApiStep, vars, runnerVars, CreateSubscription, CancelNow, CancelAtEnd,
       SetProviderConfig, DeleteProviderConfig, BeginPatch, CommitPatch, DropPatch, apiUnchanged
  <2>3. ASSUME NEW r \in Runners, r # q, RunnerStep(r) \/ Crash(r)
        PROVE  /\ pc'[q] = pc[q] /\ todo'[q] = todo[q]
               /\ cur'[q] = cur[q] /\ answer'[q] = answer[q]
    BY <2>1, <2>3 DEF RunnerStep, StartPass, ListDue, ListTrials, ListOverdue, ListQuery,
       FetchCredentials, ChargeAnswered, ChargeRefused, ChargeAnswerLost, RecordPayment,
       AdvancePeriod, MarkPastDue, ActivateTrial, ExpirePastDue, UpdateListed, Crash, RowDone
  <2> QED
    BY <2>2, <2>3 DEF Next
<1>2. RunnerInv(q)
  BY DEF IInv, RunnersInv
<1> QED
  BY <1>1, <1>2, RunnerMoves, RunnerUnmoved

(***************************************************************************)
(* The theorems.                                                           *)
(***************************************************************************)

\* The invariant holds of the empty database.
LEMMA IInvInit == Init => IInv
<1> SUFFICES ASSUME Init PROVE IInv
  OBVIOUS
<1>1. TypeOK /\ HandsInv
  BY TypingInit DEF Typing
<1>2. NamesInv
  BY DEF Init, NamesInv, InHand
<1>3. RowsInv
  BY DEF Init, RowsInv, Exists
<1>4. RunnersInv
  BY DEF Init, RunnersInv, RunnerInv, Renewing
<1>5. ChargesInv /\ PaymentsAreBacked
  BY DEF Init, ChargesInv, PaymentsAreBacked
<1> QED
  BY <1>1, <1>2, <1>3, <1>4, <1>5 DEF IInv

\* Every step preserves the invariant.
LEMMA IInvStep == IInv /\ [Next]_vars => IInv'
<1> SUFFICES ASSUME IInv, [Next]_vars PROVE IInv'
  OBVIOUS
<1>1. TypeOK' /\ HandsInv'
  BY TypingStep DEF IInv, Typing
<1> QED
  BY <1>1, NamesStep, RowsStep, RunnersStep, MoneyStep DEF IInv

\* What a billing run has in memory, in the database and at the provider agree
\* in every state, for any number of instances and faults.
THEOREM Inductive == Spec => []IInv
BY IInvInit, IInvStep, PTL DEF Spec

\* renewSubscription never charges a period twice in one account: two instances,
\* a retry after a lost answer or a crash, and a stale list all end at the charge
\* that account has for the period, whichever account is configured by then.
THEOREM ChargedAtMostOnce == Spec => []OneChargePerPeriod
<1>1. IInv => OneChargePerPeriod
  BY DEF IInv, ChargesInv, OneChargePerPeriod
<1> QED
  BY <1>1, Inductive, PTL

\* Each row of table payments has the outcome of a charge under its key.
THEOREM EveryPaymentBacked == Spec => []PaymentsAreBacked
<1>1. IInv => PaymentsAreBacked
  BY DEF IInv
<1> QED
  BY <1>1, Inductive, PTL

\* The period before a chargeable one is renewed, unless it is the first.
LEMMA PreviousRenewed ==
  ASSUME NEW s \in Subs, createdAt[s] \in Int, NEW e \in Int, Chargeable(s, e)
  PROVE  e = NextPeriodEnd(s, createdAt[s]) \/ Renewed(s, e - IntervalTicks[s])
<1>1. PICK k \in Nat \ {0} :
        e = PeriodEndAt(s, k) /\ \A j \in 1..(k - 1) : Renewed(s, PeriodEndAt(s, j))
  BY ChargeableEnd
<1>2. PICK i \in Int : i = IntervalTicks[s]
  BY IntervalType
<1>3. CASE k = 1
  <2>1. e = createdAt[s] + i
    BY <1>1, <1>2, <1>3 DEF PeriodEndAt
  <2> QED
    BY <1>2, <2>1 DEF NextPeriodEnd
<1>4. CASE k # 1
  <2>1. k - 1 \in 1..(k - 1)
    BY <1>4
  <2>2. e = NextPeriodEnd(s, PeriodEndAt(s, k - 1))
    <3>1. k - 1 \in Int /\ (k - 1) + 1 = k
      OBVIOUS
    <3> QED
      BY <1>1, <3>1, NextIsNext
  <2>3. PICK f \in Int : f = PeriodEndAt(s, k - 1)
    BY EndType
  <2>4. f = e - i
    BY <1>2, <2>2, <2>3 DEF NextPeriodEnd
  <2> QED
    BY <1>1, <1>2, <2>1, <2>3, <2>4
<1> QED
  BY <1>3, <1>4

\* AdvancePeriod and the runners never give a period away: every period but the
\* first follows one that was charged and recorded.
THEOREM NoneSkipped == Spec => []NoSkippedPeriod
<1>1. IInv => NoSkippedPeriod
  <2> SUFFICES ASSUME IInv, NEW s \in Subs, Exists(s)
               PROVE  /\ periodEnd[s] = NextPeriodEnd(s, periodStart[s])
                      /\ \A c \in charges : c.sub = s =>
                           \/ c.period = NextPeriodEnd(s, createdAt[s])
                           \/ Renewed(s, c.period - IntervalTicks[s])
                      /\ periodStart[s] = createdAt[s] \/ Renewed(s, periodStart[s])
    BY DEF NoSkippedPeriod
  <2>1. /\ periodStart[s] \in Int /\ periodEnd[s] \in Int /\ createdAt[s] \in Int
        /\ IntervalTicks[s] \in Int
    BY IntervalType DEF IInv, TypeOK
  <2>2. periodEnd[s] = NextPeriodEnd(s, periodStart[s]) /\ Chargeable(s, periodEnd[s])
    BY DEF IInv, RowsInv
  <2>3. ASSUME periodStart[s] # createdAt[s] PROVE Renewed(s, periodStart[s])
    <3>1. /\ periodEnd[s] # NextPeriodEnd(s, createdAt[s])
          /\ periodEnd[s] - IntervalTicks[s] = periodStart[s]
      BY <2>1, <2>2, <2>3 DEF NextPeriodEnd
    <3>2. Renewed(s, periodEnd[s] - IntervalTicks[s])
      BY <2>1, <2>2, <3>1, PreviousRenewed
    <3> QED
      BY <3>1, <3>2
  <2>4. ASSUME NEW c \in charges, c.sub = s
        PROVE  c.period = NextPeriodEnd(s, createdAt[s]) \/ Renewed(s, c.period - IntervalTicks[s])
    <3>1. c.period \in Int /\ Chargeable(s, c.period)
      BY <2>4 DEF IInv, ChargesInv, TypeOK, ChargeRecord
    <3> QED
      BY <2>1, <3>1, PreviousRenewed
  <2> QED
    BY <2>2, <2>3, <2>4
<1> QED
  BY <1>1, Inductive, PTL

\* A period end that comes before another belongs to a period counted before it.
LEMMA EarlierEnds ==
  ASSUME NEW s \in Subs, createdAt[s] \in Int, NEW k \in Nat, NEW j \in Nat,
         Earlier(s, PeriodEndAt(s, j), PeriodEndAt(s, k))
  PROVE  j < k
<1>1. PICK c \in Int, i \in Int : c = createdAt[s] /\ i = IntervalTicks[s]
  BY IntervalType
<1>2. IF i > 0 THEN c + j * i < c + k * i ELSE c + j * i > c + k * i
  BY <1>1 DEF Earlier, PeriodEndAt
<1>3. ASSUME j >= k PROVE FALSE
  <2>1. PICK m \in Nat : j = k + m
    <3>1. j - k \in Nat /\ j = k + (j - k)
      BY <1>3
    <3> QED
      BY <3>1
  <2>2. j * i = k * i + m * i /\ k * i \in Int /\ m * i \in Int
    BY <2>1
  <2>3. CASE i > 0
    <3>1. m * i >= 0
      BY <2>3
    <3> QED
      BY <1>2, <2>2, <2>3, <3>1
  <2>4. CASE ~(i > 0)
    <3>1. m * i <= 0
      BY <2>4
    <3> QED
      BY <1>2, <2>2, <2>4, <3>1
  <2> QED
    BY <2>3, <2>4
<1> QED
  BY <1>3

\* An AdvancePeriod that is late puts a subscription back only to periods that
\* are charged and recorded already.
THEOREM RewoundPeriodsArePaid == Spec => RewindsArePaid
<1> DEFINE Rewinds == \A s \in Subs : Exists(s) /\ Earlier(s, periodEnd'[s], periodEnd[s]) =>
                        Renewed(s, periodEnd'[s])
<1>1. IInv /\ IInv' /\ [Next]_vars => Rewinds
  <2> SUFFICES ASSUME IInv, IInv', [Next]_vars, NEW s \in Subs, Exists(s),
                      Earlier(s, periodEnd'[s], periodEnd[s])
               PROVE  Renewed(s, periodEnd'[s])
    OBVIOUS
  <2>1. Exists(s)' /\ createdAt'[s] = createdAt[s] /\ createdAt[s] \in Int
    BY History DEF IInv, Typing, TypeOK
  <2>2. PICK k \in Nat \ {0} : /\ periodEnd[s] = PeriodEndAt(s, k)
                               /\ \A j \in 1..(k - 1) : Renewed(s, PeriodEndAt(s, j))
    BY ChargeableEnd DEF IInv, RowsInv
  <2>3. PICK j \in Nat \ {0} : periodEnd'[s] = PeriodEndAt(s, j)
    <3>1. Chargeable(s, periodEnd[s])'
      BY <2>1 DEF IInv, RowsInv
    <3>2. PICK j \in 1..Span(createdAt[s], periodEnd[s])' :
            periodEnd'[s] = createdAt'[s] + j * IntervalTicks[s]
      BY <3>1 DEF Chargeable, PeriodEndAt
    <3> QED
      BY <2>1, <3>2 DEF PeriodEndAt
  <2>4. j < k
    BY <2>1, <2>2, <2>3, EarlierEnds
  <2>5. j \in 1..(k - 1)
    BY <2>4
  <2> QED
    BY <2>2, <2>3, <2>5
<1>2. Spec => []IInv
  BY Inductive
<1>3. IInv /\ IInv' /\ [Next]_vars => [Rewinds]_vars
  BY <1>1
<1>4. Spec => [][Rewinds]_vars
  BY <1>2, <1>3, PTL DEF Spec
<1> QED
  BY <1>4 DEF RewindsArePaid
=============================================================================
