---------------------------- MODULE MCOnboarding ----------------------------
(***************************************************************************)
(* Instances of Onboarding for TLC.  What happens between signups and      *)
(* bootstraps is, in one behaviour, either API calls with keys or          *)
(* back-office work with tokens: keys and tokens meet in no statement.     *)
(***************************************************************************)
EXTENDS Onboarding, TLC

CONSTANTS a, b, k1, k2, k3, Audiences

VARIABLE audience      \* bound: who else is there in this behaviour

\* Two of the keys share their first twelve characters.
SharedPrefix == [k \in Keys |-> IF k = k3 THEN k2 ELSE k]

\* The admins of both tenants and a colleague of a.
FewUsers == {[tenant |-> a, email |-> a], [tenant |-> b, email |-> b],
             [tenant |-> a, email |-> b]}

\* Bounds: sessions open at a time, and keys made with an expires_at.
MaxTokens == 2
Expiring == {k2}

BoundedInit == Init /\ audience \in Audiences
BoundedNext ==
  /\ Next
  /\ audience = "api" =>
       /\ tokens' = tokens /\ expired' \subseteq Expiring
       /\ \A f \in Signups : flow'[f].password = NoPassword
  /\ audience = "backoffice" =>
       /\ request' = request /\ active' \subseteq {k1} /\ expired' = {}
       /\ Cardinality(tokens') <= MaxTokens
       /\ \A f \in Signups : flow'[f].email = BootEmail /\ flow'[f].slug = BootSlug
  /\ audience' = audience
BoundedSpec == BoundedInit /\ [][BoundedNext]_<<vars, audience>> /\ Fairness
=============================================================================
