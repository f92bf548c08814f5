----------------------------- MODULE MCCharging -----------------------------
(* Instances of Charging for TLC. *)
EXTENDS Charging, TLC

CONSTANTS c1, c2, c3, a1, a2

ThreeCallers == {c1, c2, c3}
TwoAccounts == {a1, a2}

\* Callers and accounts are told apart only by being different.
Alike == Permutations(ThreeCallers) \cup Permutations(TwoAccounts)
=============================================================================
