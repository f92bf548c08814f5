------------------------- MODULE LifecycleInvariant -------------------------
(***************************************************************************)
(* The inductive invariants behind Lifecycle's properties, checked by TLC  *)
(* and proved in LifecycleProofs and OneInstanceProofs.  Nothing in IInv   *)
(* depends on how many instances run or on which clients interfere; what   *)
(* a single instance can count on besides is stated after it.              *)
(***************************************************************************)
EXTENDS Lifecycle

Renewing == {"renew", "charge", "record", "advance", "markPastDue"}
InHand == {"charge", "record", "advance", "markPastDue"}

\* The end of the k-th period of s, counted from its creation.
PeriodEndAt(s, k) == createdAt[s] + k * IntervalTicks[s]

Span(a, b) == IF a < b THEN b - a ELSE a - b

\* end may be charged for s: it ends a period of s, and all the periods before
\* that one are charged and recorded.
Chargeable(s, end) ==
  /\ Exists(s)
  /\ \E k \in 1..Span(createdAt[s], end) :
       /\ end = PeriodEndAt(s, k)
       /\ \A j \in 1..(k - 1) : Renewed(s, PeriodEndAt(s, j))

\* A runner has a row in hand, and an account or an answer for it, where its
\* code does.
HandsInv ==
  \A r \in Runners :
    /\ pc[r] \in InHand => cur[r] \in Snapshot
    /\ pc[r] = "charge" => config[r] \in Accounts
    /\ pc[r] = "record" => answer[r] \in ChargeStatus

\* Rows are never deleted: what a runner or a request names exists.
NamesInv ==
  /\ \A r \in Runners : /\ \A row \in todo[r] : Exists(row.sub)
                        /\ pc[r] \in InHand => Exists(cur[r].sub)
  /\ \A h \in Handlers : patch[h] # NoRow => Exists(patch[h].sub)

\* Each row is in the period that follows its last recorded renewal.
RowsInv ==
  \A s \in Subs : Exists(s) =>
    /\ periodEnd[s] = NextPeriodEnd(s, periodStart[s])
    /\ Chargeable(s, periodEnd[s])

\* Rows listed for renewal stay chargeable however stale they get, and the one
\* in hand is charged before it is recorded and recorded before it is advanced.
RunnerInv(r) ==
  /\ pc[r] \in Renewing => \A row \in todo[r] : Chargeable(row.sub, row.at)
  /\ pc[r] \in {"charge", "record", "advance"} => Chargeable(cur[r].sub, cur[r].at)
  /\ pc[r] = "record" =>
       \E c \in charges : c.key = Key(cur[r]) /\ c.outcome = answer[r]
  /\ pc[r] = "advance" => Renewed(cur[r].sub, cur[r].at)

RunnersInv == \A r \in Runners : RunnerInv(r)

\* A charge is filed under its period's key, once in an account, and its period
\* was chargeable.
ChargesInv ==
  /\ \A c \in charges : c.key = RenewalKey(c.sub, c.period) /\ Chargeable(c.sub, c.period)
  /\ \A c, d \in charges : c.key = d.key /\ c.account = d.account => c = d

\* The inductive strengthening of the ledger properties: what a billing run has
\* in memory, in the database and at the provider agree in every state.
IInv ==
  /\ TypeOK /\ HandsInv /\ NamesInv
  /\ RowsInv /\ RunnersInv /\ ChargesInv /\ PaymentsAreBacked

(***************************************************************************)
(* A single instance.  UPDATEs name a row and not what was read of it, so  *)
(* they are right only as long as nothing changed since the list query.    *)
(***************************************************************************)

\* Neither a row on the renewal list of r nor the row in its hand is stale.
Fresh(r) ==
  /\ pc[r] \in Renewing => \A row \in todo[r] : row.at = periodEnd[row.sub]
  /\ pc[r] \in InHand => /\ cur[r].at = periodEnd[cur[r].sub]
                        /\ \A row \in todo[r] : row.sub # cur[r].sub

\* Where one instance runs, AdvancePeriod computes the next period from the
\* period the row is still in, whatever clients did since it was listed.
FreshInv == \A r \in Runners : Fresh(r)

\* s has the status it was listed with, or a client has written another since.
Listed(r, s, listed) == status[s] = listed \/ s \in touched[r]

\* The rows r works through have the status they were listed for, but for what
\* clients wrote since; and those to be expired are a grace period overdue by the
\* clock as it stands.
Settled(r) ==
  /\ pc[r] \in Renewing => \A row \in todo[r] : Listed(r, row.sub, "active")
  /\ pc[r] \in InHand => Listed(r, cur[r].sub, "active")
  /\ pc[r] = "activate" => \A row \in todo[r] :
       Listed(r, row.sub, "trialing") /\ row.at = trialEndsAt[row.sub]
  /\ pc[r] = "expire" => \A row \in todo[r] :
       /\ Listed(r, row.sub, "past_due")
       /\ row.at = periodEnd[row.sub] /\ row.at + GraceTicks <= now
  /\ pc[r] # "idle" => cutoff[r] + GraceTicks <= now

\* Where one instance runs, the only statuses UpdateStatus can overwrite unseen
\* are those a client wrote after the rows were listed.
SettledInv == \A r \in Runners : Settled(r)
=============================================================================
