--------------------------- MODULE BillingLedger ---------------------------
(***************************************************************************)
(* What recurring billing promises, with no jobs, keys, retries or crashes *)
(* in sight: the periods of a subscription are charged in order from the   *)
(* first one, each at most once in an account of the provider, and a       *)
(* period becomes current only when the one before it has been charged and *)
(* recorded.  Lifecycle implements it: LedgerSpec there is this            *)
(* specification under a refinement mapping.                               *)
(***************************************************************************)
EXTENDS Integers

CONSTANTS Subs, IntervalTicks

VARIABLES
  open,      \* subscriptions that exist
  origin,    \* [Subs -> start of the first period]
  current,   \* [Subs -> start of the period the subscription is in]
  taken,     \* charges made: [id, account, sub, period], period being its end
  recorded   \* ids of the charges the system knows about

ledgerVars == <<open, origin, current, taken, recorded>>

FirstEnd(s) == origin[s] + IntervalTicks[s]

RecordedEnds(s) == {c.period : c \in {d \in taken : d.sub = s /\ d.id \in recorded}}

\* The period ends a charge may be taken for.
Chargeable(s) == {FirstEnd(s)} \cup {e + IntervalTicks[s] : e \in RecordedEnds(s)}

Init ==
  /\ open = {}
  /\ origin \in [Subs -> {0}]
  /\ current = origin
  /\ taken = {}
  /\ recorded = {}

Open(s) ==
  /\ s \notin open
  /\ open' = open \cup {s}
  /\ \A u \in Subs \ {s} : origin'[u] = origin[u] /\ current'[u] = current[u]
  /\ current'[s] = origin'[s]
  /\ UNCHANGED <<taken, recorded>>

Take(s) ==
  /\ s \in open
  /\ \E c \in taken' \ taken :
       /\ taken' = taken \cup {c}
       /\ c.sub = s
       /\ c.period \in Chargeable(s)
       /\ \A d \in taken : d.sub = s /\ d.period = c.period => d.account # c.account
  /\ UNCHANGED <<open, origin, current, recorded>>

Record(s) ==
  /\ \E c \in taken : c.sub = s /\ recorded' = recorded \cup {c.id}
  /\ UNCHANGED <<open, origin, current, taken>>

Advance(s) ==
  /\ \E e \in RecordedEnds(s) : current' = [current EXCEPT ![s] = e]
  /\ UNCHANGED <<open, origin, taken, recorded>>

Next == \E s \in Subs : Open(s) \/ Take(s) \/ Record(s) \/ Advance(s)

Spec == Init /\ [][Next]_ledgerVars
=============================================================================
