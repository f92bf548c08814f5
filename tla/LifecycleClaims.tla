-------------------------- MODULE LifecycleClaims --------------------------
(***************************************************************************)
(* What comments and docs of the repository say of the lifecycle and the   *)
(* code does not do.  Each property is checked by a run of its own that    *)
(* ends in a counterexample; README.md tells the story of each.            *)
(***************************************************************************)
EXTENDS MCLifecycle

\* lifecycle.go:103-104, "3. If successful, advance the billing period.  4. If
\* failed, transition to past_due": a period is left only with a payment for it
\* that did not fail.  A 2xx answer with status rejected is not an error.
AdvancesOnlyIfSuccessful ==
  [][\A s \in Subs : Exists(s) /\ periodEnd'[s] # periodEnd[s] =>
       \E p \in payments : p.key = RenewalKey(s, periodEnd[s]) /\ p.status # "failed"]_vars

\* docs/GETTING_STARTED.md:430, "at_period_end=true: cancel at the end of
\* current billing period": the period's end ends the subscription.
CancelAtEndCancels ==
  \A s \in Subs :
    (status[s] = "active" /\ cancelAtPeriodEnd[s] /\ periodEnd[s] <= now)
      ~> (status[s] # "active" \/ ~cancelAtPeriodEnd[s])
=============================================================================
