-------------------------- MODULE IdempotentCharge --------------------------
(***************************************************************************)
(* What POST .../payments promises under an Idempotency-Key, with no       *)
(* callers, retries, networks or lost answers in sight: a provider account *)
(* charges a key once and decides the charge once; one payment is filed    *)
(* for the key, of a charge made for it, and says what the provider may    *)
(* have said; and whoever is told is told what is filed.  Charging         *)
(* implements it: IdempotentSpec there is this specification under a       *)
(* refinement mapping.                                                     *)
(***************************************************************************)
CONSTANTS Keys, Accounts, ChargeIds, NoCharge, NoRow

VARIABLES
  taken,  \* charges made: [ChargeIds -> [account, reference, status, ...], or NoCharge]
  filed,  \* payments on file: [Keys -> [charge, status], or NoRow]
  told    \* payments that callers were told of: [key, charge, status]

promiseVars == <<taken, filed, told>>

\* What the provider may come to say after a verdict.
Later(verdict) ==
  IF verdict = "pending" THEN {"approved", "rejected"}
  ELSE IF verdict = "approved" THEN {"refunded"} ELSE {}

\* What a payment may say of a charge whose verdict is by now this one.
MayReport(status, verdict) ==
  /\ status \in {"succeeded", "pending", "failed"}
  /\ status = "succeeded" => verdict \in {"approved", "refunded"}
  /\ status = "failed" => verdict \in {"rejected", "refunded"}

Init ==
  /\ taken = [i \in ChargeIds |-> NoCharge]
  /\ filed = [k \in Keys |-> NoRow]
  /\ told = {}

\* A charge is new to its account and key; whatever else the provider keeps
\* with it is the provider's affair.
Fresh(c) ==
  /\ c # NoCharge
  /\ c.reference \in Keys /\ c.account \in Accounts
  /\ c.status \in {"approved", "pending", "rejected"}
  /\ \A j \in ChargeIds : taken[j] # NoCharge
       => taken[j].reference # c.reference \/ taken[j].account # c.account

Take(i) ==
  /\ taken[i] = NoCharge
  /\ Fresh(taken'[i])
  /\ taken' = [taken EXCEPT ![i] = taken'[i]]
  /\ UNCHANGED <<filed, told>>

Settle(i) ==
  /\ taken[i] # NoCharge
  /\ \E v \in Later(taken[i].status) : taken' = [taken EXCEPT ![i].status = v]
  /\ UNCHANGED <<filed, told>>

\* A payment of key k reports a charge made for k.
Reports(row, k) ==
  /\ row # NoRow
  /\ row.charge \in ChargeIds /\ taken[row.charge] # NoCharge
  /\ taken[row.charge].reference = k
  /\ MayReport(row.status, taken[row.charge].status)

Filing(k) ==
  /\ filed[k] = NoRow
  /\ Reports(filed'[k], k)
  /\ filed' = [filed EXCEPT ![k] = filed'[k]]

File(k) == Filing(k) /\ UNCHANGED <<taken, told>>

Tell(k) ==
  /\ Filing(k) \/ UNCHANGED filed
  /\ filed'[k] # NoRow
  /\ told' = told \cup {[key |-> k, charge |-> filed'[k].charge, status |-> filed'[k].status]}
  /\ UNCHANGED taken

Next ==
  \/ \E i \in ChargeIds : Take(i) \/ Settle(i)
  \/ \E k \in Keys : File(k) \/ Tell(k)

Spec == Init /\ [][Next]_promiseVars
=============================================================================
