------------------------- MODULE OneInstanceProofs -------------------------
(***************************************************************************)
(* What holds while a single instance of payd runs.  LifecycleProofs needs *)
(* no such hypothesis: the ledger is right however many instances run.  A  *)
(* subscription's period and status are not, because the UPDATEs of the    *)
(* runner name the row and not what was read of it.  Here is the proof of  *)
(* what one instance is enough for, across faults and crashes and with     *)
(* clients doing what they like: the period it advances is the one the row *)
(* is in, and the only statuses it overwrites unseen are those a client    *)
(* wrote after the row was listed.                                         *)
(***************************************************************************)
EXTENDS LifecycleProofs

\* One instance, the deployment docker-compose.yml starts.
OneInstance == \A q, r \in Runners : q = r

(***************************************************************************)
(* What a step leaves alone.                                               *)
(***************************************************************************)

\* Clients write neither the period nor the trial's end of a row that exists.
LEMMA OutsidePeriods ==
  ASSUME IInv, Tick \/ ApiStep \/ UNCHANGED vars
  PROVE  /\ UNCHANGED runnerVars /\ now' >= now
         /\ \A s \in Subs : Exists(s) =>
              periodEnd'[s] = periodEnd[s] /\ trialEndsAt'[s] = trialEndsAt[s]
<1>1. TypeOK /\ now \in Nat
  BY DEF IInv, TypeOK
<1>2. CASE Tick \/ UNCHANGED vars
  BY <1>1, <1>2 DEF Tick, vars, subVars, runnerVars
<1>3. CASE ApiStep
  <2>1. UNCHANGED runnerVars /\ now' = now
    BY <1>3 DEF ApiStep, CreateSubscription, CancelNow, CancelAtEnd, SetProviderConfig,
       DeleteProviderConfig, BeginPatch, CommitPatch, DropPatch, apiUnchanged
  <2>2. ASSUME NEW s \in Subs, CreateSubscription(s), NEW u \in Subs, Exists(u)
        PROVE  periodEnd'[u] = periodEnd[u] /\ trialEndsAt'[u] = trialEndsAt[u]
    BY <1>1, <2>2 DEF CreateSubscription, TypeOK
  <2>3. CASE \E s \in Subs : CreateSubscription(s)
    BY <1>1, <2>1, <2>2, <2>3
  <2>4. CASE ~\E s \in Subs : CreateSubscription(s)
    <3>1. UNCHANGED <<periodEnd, trialEndsAt>>
      BY <1>3, <2>4 DEF ApiStep, CancelNow, CancelAtEnd, SetProviderConfig,
         DeleteProviderConfig, BeginPatch, CommitPatch, DropPatch, subVars
    <3> QED
      BY <1>1, <2>1, <3>1
  <2> QED
    BY <2>3, <2>4
<1> QED
  BY <1>2, <1>3

\* What a client makes of a status is known to be a client's.
LEMMA OutsideStatuses ==
  ASSUME IInv, Tick \/ ApiStep \/ UNCHANGED vars, NEW r \in Runners
  PROVE  /\ touched[r] \subseteq touched'[r]
         /\ \A s \in Subs : Exists(s) => status'[s] = status[s] \/ s \in touched'[r]
<1>1. TypeOK
  BY DEF IInv
<1>2. CASE Tick \/ UNCHANGED vars
  BY <1>2 DEF Tick, vars, subVars
<1>3. ASSUME NEW u \in Subs, CreateSubscription(u)
      PROVE  /\ touched' = touched
             /\ \A s \in Subs : Exists(s) => status'[s] = status[s]
  BY <1>1, <1>3 DEF CreateSubscription, TypeOK
<1>4. ASSUME NEW u \in Subs, CancelNow(u)
      PROVE  /\ touched'[r] = touched[r] \cup {u}
             /\ \A s \in Subs : s # u => status'[s] = status[s]
  BY <1>1, <1>4 DEF CancelNow, Touch, TypeOK
<1>5. ASSUME NEW h \in Handlers, CommitPatch(h)
      PROVE  \/ touched' = touched /\ status' = status
             \/ /\ touched'[r] = touched[r] \cup {patch[h].sub}
                /\ \A s \in Subs : s # patch[h].sub => status'[s] = status[s]
  BY <1>1, <1>5 DEF CommitPatch, Touch, TypeOK
<1>6. CASE \/ \E s \in Subs : CancelAtEnd(s)
           \/ \E t \in Tenants : SetProviderConfig(t) \/ DeleteProviderConfig(t)
           \/ \E h \in Handlers : (\E s \in Subs : BeginPatch(h, s)) \/ DropPatch(h)
  <2>1. UNCHANGED <<status, touched>>
    BY <1>6 DEF CancelAtEnd, SetProviderConfig, DeleteProviderConfig, BeginPatch, DropPatch,
       subVars
  <2> QED
    BY <2>1
<1>7. CASE \E u \in Subs : CancelNow(u)
  BY <1>4, <1>7
<1>8. CASE \E h \in Handlers : CommitPatch(h)
  BY <1>5, <1>8
<1>9. CASE \E u \in Subs : CreateSubscription(u)
  BY <1>3, <1>9
<1> QED
  BY <1>2, <1>6, <1>7, <1>8, <1>9 DEF ApiStep

\* A step or crash of a runner moves neither the clock nor a trial's end.
LEMMA RunnerFrame ==
  ASSUME NEW r \in Runners, RunnerStep(r) \/ Crash(r)
  PROVE  now' = now /\ trialEndsAt' = trialEndsAt
BY DEF RunnerStep, StartPass, ListDue, ListTrials, ListOverdue, ListQuery,
   FetchCredentials, ChargeAnswered, ChargeRefused, ChargeAnswerLost, RecordPayment,
   AdvancePeriod, MarkPastDue, ActivateTrial, ExpirePastDue, UpdateListed, Crash,
   runnerUnchanged

(***************************************************************************)
(* Periods: a single instance never works from a stale list.               *)
(***************************************************************************)

\* The runner's own step keeps its list fresh: a row it advances is on no list.
LEMMA FreshMoves ==
  ASSUME IInv, NEW r \in Runners, Fresh(r), RunnerStep(r) \/ Crash(r)
  PROVE  Fresh(r)'
<1>1. /\ DOMAIN pc = Runners /\ DOMAIN todo = Runners /\ DOMAIN cur = Runners
      /\ todo[r] \subseteq Snapshot /\ periodEnd \in [Subs -> Int]
  BY DEF IInv, TypeOK
<1>2. CASE ListDue(r)
  <2>1. periodEnd' = periodEnd /\ pc'[r] \in {"renew", "listTrials"}
    BY <1>1, <1>2 DEF ListDue, ListQuery
  <2>2. pc'[r] = "renew" => todo'[r] \subseteq RowsBy(DueForRenewal, periodEnd)
    BY <1>1, <1>2 DEF ListDue, ListQuery, Batches
  <2> QED
    BY <2>1, <2>2 DEF Fresh, Renewing, InHand, RowsBy
<1>3. CASE FetchCredentials(r)
  <2>1. PICK row \in todo[r] : cur'[r] = row /\ todo'[r] = todo[r] \ {row}
    BY <1>1, <1>3 DEF FetchCredentials, Earliest
  <2>2. periodEnd' = periodEnd /\ pc[r] = "renew"
    BY <1>3 DEF FetchCredentials
  <2>3. \A x \in todo[r] : x.at = periodEnd[x.sub]
    BY <2>2 DEF Fresh, Renewing
  <2>4. \A x \in todo[r] \ {row} : x.sub # row.sub
    <3> SUFFICES ASSUME NEW x \in todo[r], x.sub = row.sub PROVE x = row
      OBVIOUS
    <3> QED
      BY <1>1, <2>3 DEF Snapshot
  <2> QED
    BY <2>1, <2>2, <2>3, <2>4 DEF Fresh
<1>4. CASE \/ ChargeAnswered(r) \/ ChargeRefused(r) \/ ChargeAnswerLost(r)
           \/ RecordPayment(r)
  <2>1. /\ periodEnd' = periodEnd /\ todo' = todo /\ cur' = cur
        /\ pc[r] \in InHand
    BY <1>4 DEF ChargeAnswered, ChargeRefused, ChargeAnswerLost, RecordPayment, InHand
  <2> QED
    BY <2>1 DEF Fresh, Renewing, InHand
<1>5. CASE AdvancePeriod(r)
  <2>1. /\ pc[r] = "advance" /\ todo' = todo /\ pc'[r] \in {"renew", "listTrials"}
        /\ \/ periodEnd' = [periodEnd EXCEPT ![cur[r].sub] =
                              NextPeriodEnd(cur[r].sub, cur[r].at)]
           \/ periodEnd' = periodEnd
    BY <1>1, <1>5 DEF AdvancePeriod, RowDone
  <2>2. ASSUME NEW row \in todo[r]
        PROVE  row.sub # cur[r].sub /\ row.sub \in Subs /\ row.at = periodEnd[row.sub]
    BY <1>1, <2>1 DEF Fresh, Renewing, InHand, Snapshot
  <2> QED
    BY <1>1, <2>1, <2>2 DEF Fresh, Renewing, InHand
<1>6. CASE MarkPastDue(r)
  <2>1. /\ pc[r] = "markPastDue" /\ todo' = todo /\ pc'[r] \in {"renew", "listTrials"}
        /\ periodEnd' = periodEnd
    BY <1>1, <1>6 DEF MarkPastDue, RowDone
  <2> QED
    BY <2>1 DEF Fresh, Renewing, InHand
<1>7. CASE \/ StartPass(r) \/ Crash(r) \/ ListTrials(r) \/ ListOverdue(r)
           \/ ActivateTrial(r) \/ ExpirePastDue(r)
  <2>1. pc'[r] \notin Renewing
    BY <1>1, <1>7 DEF StartPass, Crash, ListTrials, ListOverdue, ListQuery, ActivateTrial,
       ExpirePastDue, UpdateListed, RowDone, Renewing
  <2> QED
    BY <2>1 DEF Fresh, Renewing, InHand
<1> QED
  BY <1>2, <1>3, <1>4, <1>5, <1>6, <1>7 DEF RunnerStep

\* Clients may do what they like: rows they create are on no list yet, and
\* nothing else they do moves a period.
LEMMA FreshOutside ==
  ASSUME IInv, FreshInv, Tick \/ ApiStep \/ UNCHANGED vars
  PROVE  FreshInv'
<1> SUFFICES ASSUME NEW r \in Runners PROVE Fresh(r)'
  BY DEF FreshInv
<1>1. pc' = pc /\ todo' = todo /\ cur' = cur
  BY OutsidePeriods DEF runnerVars
<1>2. todo[r] \subseteq Snapshot /\ (pc[r] \in InHand => cur[r] \in Snapshot)
  BY DEF IInv, TypeOK, HandsInv
<1>3. \A row \in todo[r] : periodEnd'[row.sub] = periodEnd[row.sub]
  BY <1>2, OutsidePeriods DEF IInv, NamesInv, Snapshot
<1>4. pc[r] \in InHand => periodEnd'[cur[r].sub] = periodEnd[cur[r].sub]
  <2>1. \A row \in Snapshot : row.sub \in Subs
    BY DEF Snapshot
  <2> QED
    BY <1>2, <2>1, OutsidePeriods DEF IInv, NamesInv
<1> QED
  BY <1>1, <1>3, <1>4 DEF FreshInv, Fresh

\* The row in the hand of a runner is a row of the table.
LEMMA RowInHand ==
  ASSUME IInv, NEW r \in Runners, pc[r] \in InHand
  PROVE  cur[r].sub \in Subs /\ cur[r].at \in Int /\ Exists(cur[r].sub)
<1>1. cur[r] \in Snapshot /\ Exists(cur[r].sub)
  BY DEF IInv, HandsInv, NamesInv
<1> QED
  BY <1>1 DEF Snapshot

\* With one instance every step keeps its list fresh.
LEMMA FreshStep ==
  ASSUME OneInstance, IInv, FreshInv, [Next]_vars
  PROVE  FreshInv'
<1>1. ASSUME NEW r \in Runners, RunnerStep(r) \/ Crash(r) PROVE FreshInv'
  BY <1>1, FreshMoves DEF FreshInv, OneInstance
<1> QED
  BY <1>1, FreshOutside DEF Next

\* Where one instance runs its list is never stale, whatever clients do and
\* however often the instance crashes.
THEOREM ListIsFresh == ASSUME OneInstance PROVE Spec => []FreshInv
<1>1. Init => FreshInv
  BY DEF Init, FreshInv, Fresh, Renewing, InHand
<1>2. IInv /\ FreshInv /\ [Next]_vars => FreshInv'
  BY FreshStep
<1> QED
  BY <1>1, <1>2, Inductive, PTL DEF Spec

(***************************************************************************)
(* Statuses: a single instance, and clients between its list and UPDATEs.  *)
(***************************************************************************)

\* Whatever clients do, the rows the runner works through are as they were
\* listed or known to be a client's by now.
LEMMA SettledOutside ==
  ASSUME IInv, SettledInv, Tick \/ ApiStep \/ UNCHANGED vars
  PROVE  SettledInv'
<1> SUFFICES ASSUME NEW r \in Runners PROVE Settled(r)'
  BY DEF SettledInv
<1>1. pc' = pc /\ todo' = todo /\ cur' = cur /\ cutoff' = cutoff /\ now' >= now
  BY OutsidePeriods DEF runnerVars
<1>2. /\ todo[r] \subseteq Snapshot /\ cutoff[r] \in Int /\ now \in Nat /\ now' \in Nat
      /\ \A row \in Snapshot : row.sub \in Subs /\ row.at \in Int
  BY TypingStep DEF IInv, Typing, TypeOK, Next, Snapshot
<1>3. ASSUME NEW row \in todo[r]
      PROVE  /\ row.sub \in Subs /\ Exists(row.sub)
             /\ periodEnd'[row.sub] = periodEnd[row.sub]
             /\ trialEndsAt'[row.sub] = trialEndsAt[row.sub]
  BY <1>2, OutsidePeriods DEF IInv, NamesInv
<1>4. ASSUME NEW s \in Subs, Exists(s), NEW listed, Listed(r, s, listed)
      PROVE  Listed(r, s, listed)'
  BY <1>4, OutsideStatuses DEF Listed
<1>5. Settled(r) /\ GraceTicks \in Nat
  BY SubsAssumption DEF SettledInv
<1>6. pc'[r] # "idle" => cutoff'[r] + GraceTicks <= now'
  BY <1>1, <1>2, <1>5 DEF Settled
<1>7. pc'[r] = "expire" => \A row \in todo'[r] :
        /\ Listed(r, row.sub, "past_due")'
        /\ row.at = periodEnd'[row.sub] /\ row.at + GraceTicks <= now'
  BY <1>1, <1>2, <1>3, <1>4, <1>5 DEF Settled
<1>8. pc'[r] = "activate" => \A row \in todo'[r] :
        Listed(r, row.sub, "trialing")' /\ row.at = trialEndsAt'[row.sub]
  BY <1>1, <1>3, <1>4, <1>5 DEF Settled
<1>9. pc'[r] \in Renewing => \A row \in todo'[r] : Listed(r, row.sub, "active")'
  BY <1>1, <1>3, <1>4, <1>5 DEF Settled
<1>10. pc'[r] \in InHand => Listed(r, cur[r].sub, "active")'
  <2>1. ASSUME pc[r] \in InHand
        PROVE  \E s \in Subs : s = cur[r].sub /\ s = cur'[r].sub /\ Listed(r, s, "active")'
    <3>1. PICK s \in Subs : s = cur[r].sub /\ Exists(s)
      BY <2>1, RowInHand
    <3>2. Listed(r, s, "active")
      BY <1>5, <2>1, <3>1 DEF Settled
    <3> QED
      BY <1>1, <1>4, <3>1, <3>2
  <2> QED
    BY <1>1, <2>1 DEF Listed
<1> QED
  BY <1>6, <1>7, <1>8, <1>9, <1>10 DEF Settled

\* The row UpdateListed takes, and that the others of its list are of other
\* subscriptions when the list is ordered by a column that still has its value.
LEMMA TakenRow ==
  ASSUME IInv, NEW r \in Runners, NEW at, NEW new, NEW next, NEW column,
         UpdateListed(r, at, new, next),
         \A row \in todo[r] : row.at = column[row.sub]
  PROVE  \E row \in todo[r] :
           /\ row.sub \in Subs /\ pc[r] = at
           /\ todo'[r] = todo[r] \ {row} /\ pc'[r] \in {at, next}
           /\ \A x \in todo'[r] : x.sub # row.sub
           /\ periodEnd' = periodEnd /\ trialEndsAt' = trialEndsAt
           /\ cutoff' = cutoff /\ now' = now /\ touched' = touched
           /\ \/ status' = [status EXCEPT ![row.sub] = new]
              \/ status' = status
<1>1. /\ DOMAIN pc = Runners /\ DOMAIN todo = Runners /\ todo[r] \subseteq Snapshot
  BY DEF IInv, TypeOK
<1>2. PICK row \in todo[r] :
        /\ UpdateStatus(row.sub, new) /\ todo' = [todo EXCEPT ![r] = @ \ {row}]
  BY DEF UpdateListed, Earliest
<1>3. row.sub \in Subs
  BY <1>1 DEF Snapshot
<1>4. \A x \in todo[r] : x.sub = row.sub => x = row
  BY <1>1 DEF Snapshot
<1>5. todo'[r] = todo[r] \ {row}
  BY <1>1, <1>2
<1>6. /\ pc[r] = at /\ pc'[r] \in {at, next} /\ periodEnd' = periodEnd
      /\ trialEndsAt' = trialEndsAt /\ cutoff' = cutoff /\ now' = now
      /\ touched' = touched
  BY <1>1 DEF UpdateListed, RowDone, runnerUnchanged
<1> QED
  BY <1>2, <1>3, <1>4, <1>5, <1>6 DEF UpdateStatus

\* The runner's own step keeps the rows it has yet to handle as they were listed.
LEMMA SettledMoves ==
  ASSUME IInv, NEW r \in Runners, Fresh(r), Settled(r), RunnerStep(r) \/ Crash(r)
  PROVE  Settled(r)'
<1>1. /\ DOMAIN pc = Runners /\ DOMAIN todo = Runners /\ DOMAIN cur = Runners
      /\ DOMAIN cutoff = Runners /\ DOMAIN status = Subs
      /\ now \in Nat /\ cutoff[r] \in Int /\ GraceTicks \in Nat
      /\ todo[r] \subseteq Snapshot
      /\ \A row \in Snapshot : row.sub \in Subs /\ row.at \in Int
  BY SubsAssumption DEF IInv, TypeOK, Snapshot
<1>2. now' = now /\ trialEndsAt' = trialEndsAt
  BY RunnerFrame
<1>3. CASE StartPass(r)
  BY <1>1, <1>2, <1>3 DEF StartPass, Settled, Renewing, InHand
<1>4. ASSUME NEW at, NEW rows, NEW loop, NEW next, ListQuery(r, at, rows, loop, next),
             at # "idle"
      PROVE  /\ status' = status /\ periodEnd' = periodEnd /\ cutoff' = cutoff
             /\ cutoff[r] + GraceTicks <= now
             /\ pc'[r] = next \/ (pc'[r] = loop /\ todo'[r] \subseteq rows)
  BY <1>1, <1>4 DEF ListQuery, Batches, Settled
<1>5. CASE ListDue(r)
  BY <1>2, <1>4, <1>5 DEF ListDue, Settled, Listed, Renewing, InHand, RowsBy, DueForRenewal
<1>6. CASE ListTrials(r)
  BY <1>2, <1>4, <1>6 DEF ListTrials, Settled, Listed, Renewing, InHand, RowsBy, ExpiredTrials
<1>7. CASE ListOverdue(r)
  <2>1. ASSUME NEW row \in RowsBy(PastDuePendingExpiry(cutoff[r]), periodEnd)
        PROVE  /\ status[row.sub] = "past_due"
               /\ row.at = periodEnd[row.sub] /\ row.at <= cutoff[r] /\ row.at \in Int
    BY DEF RowsBy, PastDuePendingExpiry, IInv, TypeOK
  <2>2. /\ status' = status /\ periodEnd' = periodEnd /\ cutoff' = cutoff
        /\ cutoff[r] + GraceTicks <= now
        /\ \/ pc'[r] = "idle"
           \/ /\ pc'[r] = "expire"
              /\ todo'[r] \subseteq RowsBy(PastDuePendingExpiry(cutoff[r]), periodEnd)
    BY <1>4, <1>7 DEF ListOverdue
  <2> QED
    BY <1>1, <1>2, <2>1, <2>2 DEF Settled, Listed, Renewing, InHand
<1>8. CASE FetchCredentials(r)
  <2>1. PICK row \in todo[r] : cur'[r] = row /\ todo'[r] = todo[r] \ {row}
    BY <1>1, <1>8 DEF FetchCredentials, Earliest
  <2>2. /\ pc[r] = "renew" /\ pc'[r] \in {"charge", "markPastDue"}
        /\ status' = status /\ cutoff' = cutoff /\ touched' = touched
    BY <1>1, <1>8 DEF FetchCredentials
  <2> QED
    BY <1>2, <2>1, <2>2 DEF Settled, Listed, Renewing, InHand
<1>9. CASE \/ ChargeAnswered(r) \/ ChargeRefused(r) \/ ChargeAnswerLost(r)
           \/ RecordPayment(r)
  <2>1. /\ pc[r] \in InHand /\ pc'[r] \in InHand /\ touched' = touched
        /\ status' = status /\ todo' = todo /\ cur' = cur /\ cutoff' = cutoff
    BY <1>1, <1>9 DEF ChargeAnswered, ChargeRefused, ChargeAnswerLost, RecordPayment, InHand
  <2> QED
    BY <1>2, <2>1 DEF Settled, Listed, Renewing, InHand
<1>10. CASE AdvancePeriod(r)
  <2>1. /\ pc[r] = "advance" /\ pc'[r] \in {"renew", "listTrials"} /\ touched' = touched
        /\ status' = status /\ todo' = todo /\ cutoff' = cutoff
    BY <1>1, <1>10 DEF AdvancePeriod, RowDone
  <2> QED
    BY <1>2, <2>1 DEF Settled, Listed, Renewing, InHand
<1>11. CASE MarkPastDue(r)
  <2>1. /\ pc[r] = "markPastDue" /\ pc'[r] \in {"renew", "listTrials"}
        /\ todo' = todo /\ cutoff' = cutoff /\ touched' = touched
        /\ status' = status \/ status' = [status EXCEPT ![cur[r].sub] = "past_due"]
    BY <1>1, <1>11 DEF MarkPastDue, UpdateStatus, RowDone
  <2>2. \A row \in todo[r] : row.sub # cur[r].sub /\ row.sub \in Subs
    BY <1>1, <2>1 DEF Fresh, InHand
  <2> QED
    BY <1>1, <1>2, <2>1, <2>2 DEF Settled, Listed, Renewing, InHand
<1>12. CASE ActivateTrial(r)
  <2>1. \A row \in todo[r] : row.at = trialEndsAt[row.sub]
    BY <1>12 DEF ActivateTrial, UpdateListed, Settled
  <2>2. PICK row \in todo[r] :
          /\ pc[r] = "activate" /\ todo'[r] = todo[r] \ {row} /\ touched' = touched
          /\ pc'[r] \in {"activate", "listOverdue"} /\ cutoff' = cutoff
          /\ \A x \in todo'[r] : x.sub # row.sub
          /\ status' = [status EXCEPT ![row.sub] = "active"] \/ status' = status
    BY <1>12, <2>1, TakenRow DEF ActivateTrial
  <2> QED
    BY <1>1, <1>2, <2>2 DEF Settled, Listed, Renewing, InHand
<1>13. CASE ExpirePastDue(r)
  <2>1. \A row \in todo[r] : row.at = periodEnd[row.sub]
    BY <1>13 DEF ExpirePastDue, UpdateListed, Settled
  <2>2. PICK row \in todo[r] :
          /\ pc[r] = "expire" /\ todo'[r] = todo[r] \ {row} /\ touched' = touched
          /\ pc'[r] \in {"expire", "idle"} /\ cutoff' = cutoff /\ periodEnd' = periodEnd
          /\ \A x \in todo'[r] : x.sub # row.sub
          /\ status' = [status EXCEPT ![row.sub] = "expired"] \/ status' = status
    BY <1>13, <2>1, TakenRow DEF ExpirePastDue
  <2> QED
    BY <1>1, <1>2, <2>2 DEF Settled, Listed, Renewing, InHand
<1>14. CASE Crash(r)
  BY <1>1, <1>14 DEF Crash, Settled, Renewing, InHand
<1> QED
  BY <1>3, <1>5, <1>6, <1>7, <1>8, <1>9, <1>10, <1>11, <1>12, <1>13, <1>14 DEF RunnerStep

\* With one instance every step keeps its rows so.
LEMMA SettledStep ==
  ASSUME OneInstance, IInv, FreshInv, SettledInv, [Next]_vars
  PROVE  SettledInv'
<1>1. ASSUME NEW r \in Runners, RunnerStep(r) \/ Crash(r) PROVE SettledInv'
  BY <1>1, SettledMoves DEF FreshInv, SettledInv, OneInstance
<1> QED
  BY <1>1, SettledOutside DEF Next

\* What a runner's step makes of a status, given how its rows were listed.
LEMMA RunnerWrites ==
  ASSUME IInv, NEW r \in Runners, Settled(r), RunnerStep(r) \/ Crash(r), NEW s \in Subs
  PROVE  \/ status'[s] = status[s]
         \/ Listed(r, s, "active") /\ status'[s] = "past_due"
         \/ Listed(r, s, "trialing") /\ status'[s] = "active"
         \/ /\ Listed(r, s, "past_due") /\ status'[s] = "expired"
            /\ periodEnd[s] + GraceTicks <= now
<1>1. DOMAIN status = Subs
  BY DEF IInv, TypeOK
<1>2. CASE MarkPastDue(r)
  <2>1. /\ pc[r] = "markPastDue"
        /\ status' = status \/ status' = [status EXCEPT ![cur[r].sub] = "past_due"]
    BY <1>2 DEF MarkPastDue, UpdateStatus
  <2> QED
    BY <1>1, <2>1 DEF Settled, InHand
<1>3. CASE ActivateTrial(r)
  <2>1. PICK row \in todo[r] :
          /\ pc[r] = "activate"
          /\ status' = [status EXCEPT ![row.sub] = "active"] \/ status' = status
    BY <1>3 DEF ActivateTrial, UpdateListed, UpdateStatus, Earliest
  <2> QED
    BY <1>1, <2>1 DEF Settled
<1>4. CASE ExpirePastDue(r)
  <2>1. PICK row \in todo[r] :
          /\ pc[r] = "expire"
          /\ status' = [status EXCEPT ![row.sub] = "expired"] \/ status' = status
    BY <1>4 DEF ExpirePastDue, UpdateListed, UpdateStatus, Earliest
  <2> QED
    BY <1>1, <2>1 DEF Settled
<1>5. CASE ~MarkPastDue(r) /\ ~ActivateTrial(r) /\ ~ExpirePastDue(r)
  BY <1>5 DEF RunnerStep, StartPass, ListDue, ListTrials, ListOverdue, ListQuery,
     FetchCredentials, ChargeAnswered, ChargeRefused, ChargeAnswerLost, RecordPayment,
     AdvancePeriod, Crash
<1> QED
  BY <1>2, <1>3, <1>4, <1>5

\* A step in which the one runner moves is its own.
LEMMA OwnStep ==
  ASSUME OneInstance, IInv, [Next]_vars, NEW r \in Runners, Handles(r)
  PROVE  RunnerStep(r) \/ Crash(r)
<1>1. ~(Tick \/ ApiStep \/ UNCHANGED vars)
  BY OutsidePeriods DEF Handles, runnerVars
<1>2. PICK q \in Runners : RunnerStep(q) \/ Crash(q)
  BY <1>1 DEF Next
<1>3. q = r
  BY DEF OneInstance
<1> QED
  BY <1>2, <1>3

\* Where one instance runs, a row it has yet to handle has the status it was
\* listed with, unless a client wrote another since, across faults and restarts.
THEOREM RowsAreAsListed == ASSUME OneInstance PROVE Spec => []SettledInv
<1>1. Init => SettledInv
  BY DEF Init, SettledInv, Settled, Renewing, InHand
<1>2. IInv /\ FreshInv /\ SettledInv /\ [Next]_vars => SettledInv'
  BY SettledStep
<1> QED
  BY <1>1, <1>2, ListIsFresh, Inductive, PTL DEF Spec

\* Where one instance runs, what it makes of a status follows trialing, active,
\* past_due, expired, although UpdateStatus does not look at the status it
\* overwrites; but for rows a client wrote a status of since they were listed.
THEOREM StatusesFollowThePath == ASSUME OneInstance PROVE Spec => RunnerStatusPath
<1> DEFINE Path == {<<"trialing", "active">>, <<"active", "past_due">>, <<"past_due", "expired">>}
<1>1. ASSUME IInv, SettledInv, [Next]_vars, NEW r \in Runners, NEW s \in Subs, Handles(r),
             status'[s] # status[s], s \notin touched[r]
      PROVE  <<status[s], status'[s]>> \in Path
  BY <1>1, OwnStep, RunnerWrites DEF SettledInv, Listed
<1>2. IInv /\ SettledInv /\ [Next]_vars =>
        [\A r \in Runners, s \in Subs :
           Handles(r) /\ status'[s] # status[s] /\ s \notin touched[r] =>
             <<status[s], status'[s]>> \in Path]_vars
  BY <1>1
<1> QED
  BY <1>2, RowsAreAsListed, Inductive, PTL DEF Spec, RunnerStatusPath

\* Where one instance runs, RunPastDueExpiry expires a row only if a whole grace
\* period is over at the moment of the UPDATE, not only when it was listed, and
\* only if it is past_due or a client wrote its status since.
THEOREM ExpiresWhatIsOverdue == ASSUME OneInstance PROVE Spec => ExpiresOnlyOverdue
<1>1. ASSUME IInv, SettledInv, [Next]_vars, NEW r \in Runners, NEW s \in Subs, Handles(r),
             status'[s] = "expired", status[s] # "expired"
      PROVE  /\ periodEnd[s] + GraceTicks <= now
             /\ status[s] = "past_due" \/ s \in touched[r]
  BY <1>1, OwnStep, RunnerWrites DEF SettledInv, Listed
<1>2. IInv /\ SettledInv /\ [Next]_vars =>
        [\A r \in Runners, s \in Subs :
           Handles(r) /\ status'[s] = "expired" /\ status[s] # "expired" =>
             /\ periodEnd[s] + GraceTicks <= now
             /\ status[s] = "past_due" \/ s \in touched[r]]_vars
  BY <1>1
<1> QED
  BY <1>2, RowsAreAsListed, Inductive, PTL DEF Spec, ExpiresOnlyOverdue
=============================================================================
