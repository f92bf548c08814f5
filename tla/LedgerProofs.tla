---------------------------- MODULE LedgerProofs ----------------------------
(***************************************************************************)
(* Lifecycle implements BillingLedger.  Opening, taking, recording and     *)
(* advancing are the steps of CreateSubscription, of a charge the provider *)
(* has not seen before, of the INSERT that files it, and of AdvancePeriod; *)
(* everything else the code does leaves the ledger as it is.               *)
(***************************************************************************)
EXTENDS LifecycleProofs

Open == {s \in Subs : Exists(s)}
Taken == {[id |-> c.key, account |-> c.account, sub |-> c.sub, period |-> c.period] :
            c \in charges}
Filed == {p.key : p \in payments}

\* An empty database is an empty ledger.
LEMMA LedgerInit == Init => Ledger!Init
BY DEF Init, Ledger!Init, Exists

\* A renewed period is one the ledger has on record.
LEMMA RenewedIsRecorded ==
  ASSUME NEW s \in Subs, NEW e, Renewed(s, e)
  PROVE  e \in Ledger!RecordedEnds(s)
<1>1. PICK c \in charges : /\ c.sub = s /\ c.period = e
                           /\ [key |-> c.key, status |-> c.outcome] \in payments
  BY DEF Renewed
<1> DEFINE d == [id |-> c.key, account |-> c.account, sub |-> c.sub, period |-> c.period]
<1>2. d \in Taken /\ d.id \in Filed /\ d.sub = s /\ d.period = e
  BY <1>1 DEF Taken, Filed
<1> QED
  BY <1>2 DEF Ledger!RecordedEnds, Taken, Filed

\* What the code may charge, the ledger lets be taken.
LEMMA ChargeableInLedger ==
  ASSUME NEW s \in Subs, createdAt[s] \in Int, NEW e \in Int, Chargeable(s, e)
  PROVE  e \in Ledger!Chargeable(s)
<1>1. CASE e = NextPeriodEnd(s, createdAt[s])
  BY <1>1 DEF NextPeriodEnd, Ledger!Chargeable, Ledger!FirstEnd
<1>2. CASE Renewed(s, e - IntervalTicks[s])
  <2>1. e - IntervalTicks[s] \in Ledger!RecordedEnds(s)
    BY <1>2, RenewedIsRecorded
  <2>2. e = (e - IntervalTicks[s]) + IntervalTicks[s]
    BY IntervalType
  <2> QED
    BY <2>1, <2>2 DEF Ledger!Chargeable
<1> QED
  BY <1>1, <1>2, PreviousRenewed

\* The ledger's variables, as the state of Lifecycle gives them.
LEMMA LedgerSame ==
  ASSUME UNCHANGED <<status, createdAt, periodStart, payments, charges>>
  PROVE  UNCHANGED Ledger!ledgerVars
BY DEF Ledger!ledgerVars, Exists

\* Inserting a subscription opens it in the ledger.
LEMMA OpenStep ==
  ASSUME IInv, NEW s \in Subs, CreateSubscription(s)
  PROVE  Ledger!Open(s)
<1>1. /\ ~Exists(s) /\ UNCHANGED moneyVars
      /\ \A u \in Subs \ {s} : createdAt'[u] = createdAt[u] /\ periodStart'[u] = periodStart[u]
      /\ periodStart'[s] = createdAt'[s]
  BY DEF CreateSubscription, apiUnchanged, IInv, TypeOK
<1>2. Open' = Open \cup {s}
  BY DEF CreateSubscription, Open, Exists, Absent, IInv, TypeOK
<1> QED
  BY <1>1, <1>2 DEF Ledger!Open, Open, moneyVars

\* A charge the provider makes is a taking; one it only replays is a stutter.
LEMMA TakeStep ==
  ASSUME IInv, [Next]_vars, NEW r \in Runners, ChargeAnswered(r) \/ ChargeAnswerLost(r)
  PROVE  (\E s \in Subs : Ledger!Take(s)) \/ UNCHANGED Ledger!ledgerVars
<1>1. PICK c \in ProviderAnswers(cur[r], config[r]) : charges' = charges \cup {c}
  BY DEF ChargeAnswered, ChargeAnswerLost
<1>2. UNCHANGED <<status, createdAt, periodStart, payments>>
  BY DEF ChargeAnswered, ChargeAnswerLost, runnerUnchanged
<1>3. CASE c \in charges
  <2>1. charges' = charges
    BY <1>1, <1>3
  <2> QED
    BY <1>2, <2>1, LedgerSame
<1>4. CASE c \notin charges
  <2> DEFINE d == [id |-> c.key, account |-> c.account, sub |-> c.sub, period |-> c.period]
  <2>1. PICK row \in Snapshot : row = cur[r]
    BY DEF ChargeAnswered, ChargeAnswerLost, IInv, HandsInv, InHand
  <2>2. /\ \A x \in charges : x.key = Key(row) => x.account # c.account
        /\ c.key = Key(row) /\ c.sub = row.sub /\ c.period = row.at
    BY <1>4, <2>1 DEF ProviderAnswers
  <2>3. row.sub \in Subs /\ row.at \in Int /\ Chargeable(row.sub, row.at)
    BY <2>1 DEF Snapshot, ChargeAnswered, ChargeAnswerLost, IInv, RunnersInv, RunnerInv
  <2>4. createdAt[row.sub] \in Int
    BY <2>3 DEF IInv, TypeOK
  <2>5. Taken' = Taken \cup {d} /\ d \in Taken' \ Taken
    BY <1>1, <2>2 DEF Taken
  <2>6. \A x \in Taken : x.sub = row.sub /\ x.period = d.period => x.account # d.account
    BY <2>2 DEF Taken, IInv, ChargesInv, Key
  <2>7. d.sub = row.sub /\ d.period \in Ledger!Chargeable(row.sub) /\ row.sub \in Open
    BY <2>2, <2>3, <2>4, ChargeableInLedger DEF Chargeable, Open
  <2>8. Open' = Open /\ Filed' = Filed
    BY <1>2 DEF Open, Exists, Filed
  <2>9. Ledger!Take(row.sub)
    BY <1>2, <2>5, <2>6, <2>7, <2>8 DEF Ledger!Take, Taken, Open, Filed
  <2> QED
    BY <2>3, <2>9
<1> QED
  BY <1>3, <1>4

\* The INSERT files the charge; ON CONFLICT DO NOTHING is a stutter.
LEMMA RecordStep ==
  ASSUME IInv, [Next]_vars, NEW r \in Runners, RecordPayment(r)
  PROVE  (\E s \in Subs : Ledger!Record(s)) \/ UNCHANGED Ledger!ledgerVars
<1>1. UNCHANGED <<status, createdAt, periodStart, charges>>
  BY DEF RecordPayment, runnerUnchanged
<1>2. CASE payments' = payments
  BY <1>1, <1>2, LedgerSame
<1>3. CASE payments' = Recorded(cur[r], answer[r]) /\ payments' # payments
  <2>1. PICK c \in charges : c.key = Key(cur[r])
    BY DEF RecordPayment, IInv, RunnersInv, RunnerInv
  <2>2. Filed' = Filed \cup {c.key}
    BY <1>3, <2>1 DEF Recorded, Filed
  <2> DEFINE d == [id |-> c.key, account |-> c.account, sub |-> c.sub, period |-> c.period]
  <2>3. d \in Taken /\ d.sub = c.sub /\ d.id = c.key /\ c.sub \in Subs
    BY <2>1 DEF Taken, IInv, TypeOK, ChargeRecord
  <2>4. Open' = Open /\ Taken' = Taken
    BY <1>1 DEF Open, Exists, Taken
  <2>5. Ledger!Record(c.sub)
    BY <1>1, <2>2, <2>3, <2>4 DEF Ledger!Record, Open, Taken, Filed
  <2> QED
    BY <2>3, <2>5
<1> QED
  BY <1>2, <1>3 DEF RecordPayment

\* The renewal's UPDATE enters a period the ledger has on record.
LEMMA AdvanceStep ==
  ASSUME IInv, [Next]_vars, NEW r \in Runners, AdvancePeriod(r)
  PROVE  (\E s \in Subs : Ledger!Advance(s)) \/ UNCHANGED Ledger!ledgerVars
<1>1. UNCHANGED <<status, createdAt, payments, charges>>
  BY DEF AdvancePeriod, moneyVars, runnerUnchanged
<1>2. CASE periodStart' = periodStart
  BY <1>1, <1>2, LedgerSame
<1>3. CASE periodStart' = [periodStart EXCEPT ![cur[r].sub] = cur[r].at]
  <2>1. PICK row \in Snapshot : row = cur[r]
    BY DEF AdvancePeriod, IInv, HandsInv, InHand
  <2>2. row.sub \in Subs /\ Renewed(row.sub, row.at)
    BY <2>1 DEF Snapshot, AdvancePeriod, IInv, RunnersInv, RunnerInv
  <2>3. row.at \in Ledger!RecordedEnds(row.sub)
    BY <2>2, RenewedIsRecorded
  <2>4. Open' = Open /\ Taken' = Taken /\ Filed' = Filed
    BY <1>1 DEF Open, Exists, Taken, Filed
  <2>5. Ledger!Advance(row.sub)
    BY <1>1, <1>3, <2>1, <2>3, <2>4 DEF Ledger!Advance, Open, Taken, Filed
  <2> QED
    BY <2>2, <2>5
<1> QED
  BY <1>2, <1>3 DEF AdvancePeriod

\* Every step of the code is a step of the ledger or leaves it alone.
LEMMA LedgerStep == IInv /\ [Next]_vars => [Ledger!Next]_(Ledger!ledgerVars)
<1> SUFFICES ASSUME IInv, [Next]_vars
             PROVE  Ledger!Next \/ UNCHANGED Ledger!ledgerVars
  OBVIOUS
<1>1. ASSUME NEW s \in Subs, CreateSubscription(s) PROVE Ledger!Next
  BY <1>1, OpenStep DEF Ledger!Next
<1>2. ASSUME NEW r \in Runners, \/ ChargeAnswered(r) \/ ChargeAnswerLost(r)
                                \/ RecordPayment(r) \/ AdvancePeriod(r)
      PROVE  Ledger!Next \/ UNCHANGED Ledger!ledgerVars
  BY <1>2, TakeStep, RecordStep, AdvanceStep DEF Ledger!Next
<1>3. ASSUME \A s \in Subs : ~CreateSubscription(s),
             \A r \in Runners : ~(\/ ChargeAnswered(r) \/ ChargeAnswerLost(r)
                                  \/ RecordPayment(r) \/ AdvancePeriod(r))
      PROVE  UNCHANGED Ledger!ledgerVars
  <2>1. UNCHANGED <<createdAt, periodStart, payments, charges>>
    <3>1. CASE Tick \/ ApiStep \/ UNCHANGED vars
      BY <1>3, <3>1 DEF Tick, ApiStep, vars, subVars, moneyVars, CancelNow, CancelAtEnd,
         SetProviderConfig, DeleteProviderConfig, BeginPatch, CommitPatch, DropPatch,
         apiUnchanged
    <3>2. ASSUME NEW r \in Runners, RunnerStep(r) \/ Crash(r)
          PROVE  UNCHANGED <<createdAt, periodStart, payments, charges>>
      BY <1>3, <3>2 DEF RunnerStep, StartPass, ListDue, ListTrials, ListOverdue, ListQuery,
         FetchCredentials, ChargeRefused, MarkPastDue, ActivateTrial, ExpirePastDue,
         UpdateListed, Crash, moneyVars, runnerUnchanged
    <3> QED
      BY <3>1, <3>2 DEF Next
  <2>2. \A s \in Subs : Exists(s)' = Exists(s)
    BY <1>3, RowsAppear, History DEF IInv, Typing, Exists
  <2>3. Open' = Open
    BY <2>2 DEF Open
  <2> QED
    BY <2>1, <2>3 DEF Ledger!ledgerVars, Open
<1> QED
  BY <1>1, <1>2, <1>3

\* Whatever instances, requests and faults do, billing keeps the promise of the
\* ledger: periods charged in order, once each in an account, and none entered
\* unpaid.
THEOREM Implements == Spec => LedgerSpec
<1>1. Init => Ledger!Init
  BY LedgerInit
<1> QED
  BY <1>1, LedgerStep, Inductive, PTL DEF Spec, LedgerSpec, Ledger!Spec
=============================================================================
