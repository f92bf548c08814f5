---------------------------- MODULE MCLifecycle ----------------------------
(* Instances of Lifecycle for TLC. *)
EXTENDS LifecycleInvariant, TLC

CONSTANTS s1, s2

OneTenant == [s \in Subs |-> CHOOSE t \in Tenants : TRUE]

\* Daily and two-daily periods.
DailyAll == [s \in Subs |-> TicksPerDay]
MixedIntervals == [s \in Subs |-> IF s = s1 THEN TicksPerDay ELSE 2 * TicksPerDay]

\* A daily plan, and one whose count is negative.
BothDirections == [s \in Subs |-> IF s = s1 THEN TicksPerDay ELSE -TicksPerDay]

StatusBodies == [status : {"active", "canceled", "past_due"}, flag : {"keep"}]

\* Instances are interchangeable, and so are accounts; used for safety runs only.
InstanceSymmetry == Permutations(Runners) \cup Permutations(Accounts)
=============================================================================
