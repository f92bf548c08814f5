------------------------------ MODULE Charging ------------------------------
(***************************************************************************)
(* POST .../payments: the handler fetches the tenant's credentials, the    *)
(* connector charges through a retry loop over a network that loses,       *)
(* delays and repeats, and the outcome is inserted once per key.  Other    *)
(* callers use the same key meanwhile, the credentials are replaced, the   *)
(* provider settles and refunds what was charged, and says so by webhook.  *)
(*                                                                         *)
(* A key stands for one request of a client with its body, so for one      *)
(* amount: a client that sends another body under the same key is left     *)
(* out.  Account stands for the access token of a provider account.        *)
(*                                                                         *)
(* Operators named ...Fault are deliberate mistakes used by no action.     *)
(***************************************************************************)
EXTENDS Naturals, FiniteSets

CONSTANTS
  Keys,        \* Idempotency-Key values of one tenant
  Recordable,  \* keys whose body names a subscription that exists
  Callers,     \* handlers under way at a time
  Accounts,    \* provider accounts the tenant may configure or a body may name
  NoAccount,
  ChargeIds,   \* provider's payment ids
  NoCharge, NoHeader,
  MaxRetries,  \* retries of doWithRetry: 3 in the code
  NoRow

ASSUME ChargingAssumption ==
  /\ Recordable \subseteq Keys
  /\ MaxRetries \in Nat
  /\ NoAccount \notin Accounts
  /\ NoHeader \notin Keys
  /\ NoRow \notin [charge : ChargeIds, status : {"succeeded", "pending", "failed"}]
  /\ NoCharge \notin [account : Accounts, header : Keys \cup {NoHeader}, reference : Keys,
                      status : {"approved", "pending", "rejected", "refunded"}]

VARIABLES
  credentials, \* provider_credentials of the tenant and provider: an account
  call,        \* [Callers -> where the handler is]
  sent,        \* requests that may reach the provider, now, later or twice
  charges,     \* the provider's payments: [ChargeIds -> payment, or NoCharge]
  owed,        \* charges whose last change no webhook was acknowledged for
  rows,        \* table payments: [Keys -> row, or NoRow]
  answers      \* history: payments that callers were answered with

vars == <<credentials, call, sent, charges, owed, rows, answers>>

Status == {"succeeded", "pending", "failed"}
MPStatus == {"approved", "pending", "rejected", "refunded"}

\* An authorized payment is taken for a paid one.
PendingIsPaidFault(s) == IF s \in {"approved", "pending"} THEN "succeeded" ELSE "failed"

mapStatus(s) ==
  CASE s = "approved" -> "succeeded"
    [] s = "pending" -> "pending"
    [] s \in {"rejected", "refunded"} -> "failed"

NoCall == [step |-> "idle"]

Init ==
  /\ credentials = NoAccount
  /\ call = [c \in Callers |-> NoCall]
  /\ sent = {}
  /\ charges = [i \in ChargeIds |-> NoCharge]
  /\ owed = {}
  /\ rows = [k \in Keys |-> NoRow]
  /\ answers = {}

At(c, step) == call[c].step = step
End(c) == call' = [call EXCEPT ![c] = NoCall]

(***************************************************************************)
(* Credentials.                                                            *)
(***************************************************************************)
SetProviderConfig(a) ==
  /\ a # credentials /\ credentials' = a
  /\ UNCHANGED <<call, sent, charges, owed, rows, answers>>

DeleteProviderConfig ==
  /\ credentials # NoAccount /\ credentials' = NoAccount
  /\ UNCHANGED <<call, sent, charges, owed, rows, answers>>

(***************************************************************************)
(* Handler.CreatePayment up to the first request.                          *)
(***************************************************************************)

\* GetProviderConfig, without which the request is refused.
Configured == credentials # NoAccount

\* The credentials a request brings itself take precedence.
BeginCall(c, k) ==
  /\ At(c, "idle") /\ Configured
  /\ \E a \in Accounts :
       call' = [call EXCEPT ![c] = [step |-> "send", key |-> k, account |-> a, attempt |-> 0]]
  /\ UNCHANGED <<credentials, sent, charges, owed, rows, answers>>

(***************************************************************************)
(* Client.doWithRetry.                                                     *)
(***************************************************************************)

\* The copied request has no X-Idempotency-Key.
NoHeaderFault(c) == [account |-> call[c].account, header |-> NoHeader, reference |-> call[c].key]

Message(c) == [account |-> call[c].account, header |-> call[c].key, reference |-> call[c].key]

Send(c) ==
  /\ At(c, "send")
  /\ sent' = sent \cup {Message(c)}
  /\ call' = [call EXCEPT ![c].step = "wait"]
  /\ UNCHANGED <<credentials, charges, owed, rows, answers>>

\* The provider's payment for a request, if it made one.
Made(m) ==
  {i \in ChargeIds : charges[i] # NoCharge /\ charges[i].account = m.account
                     /\ charges[i].header = m.header /\ charges[i].reference = m.reference}

\* 2xx: mapToChargeResult.
Answered(c) ==
  /\ At(c, "wait")
  /\ \E i \in Made(Message(c)) :
       call' = [call EXCEPT ![c] =
                  [step |-> "record", key |-> call[c].key,
                   row |-> [charge |-> i, status |-> mapStatus(charges[i].status)]]]
  /\ UNCHANGED <<credentials, sent, charges, owed, rows, answers>>

\* One attempt more than the limit.
OneMoreFault(c) ==
  /\ At(c, "wait") /\ call[c].attempt <= MaxRetries
  /\ call' = [call EXCEPT ![c].step = "send", ![c].attempt = @ + 1]
  /\ UNCHANGED <<credentials, sent, charges, owed, rows, answers>>

\* A transport error or a timeout, whatever the provider did, or a 429; then
\* the delay.
TryAgain(c) ==
  /\ At(c, "wait") /\ call[c].attempt < MaxRetries
  /\ call' = [call EXCEPT ![c].step = "send", ![c].attempt = @ + 1]
  /\ UNCHANGED <<credentials, sent, charges, owed, rows, answers>>

\* The same after the last attempt; any other error status; an answer that
\* cannot be decoded; or the client is gone.  The caller gets an error.
GiveUp(c) ==
  /\ At(c, "wait") \/ At(c, "send")
  /\ End(c)
  /\ UNCHANGED <<credentials, sent, charges, owed, rows, answers>>

(***************************************************************************)
(* PaymentService.CreatePayment after the charge.                          *)
(***************************************************************************)
\* GetByKey's answer, and Create's.
Answer(k, row) == [key |-> k, charge |-> row.charge, status |-> row.status]

\* INSERT ... ON CONFLICT DO UPDATE.
UpsertFault(c) == [rows EXCEPT ![call[c].key] = call[c].row]

\* INSERT ... ON CONFLICT DO NOTHING.
Inserted(c) == [rows EXCEPT ![call[c].key] = IF @ = NoRow THEN call[c].row ELSE @]

\* The caller gets what it charged, though another row is there.
OwnResultFault(c) ==
  /\ At(c, "record") /\ call[c].key \in Recordable
  /\ rows' = Inserted(c)
  /\ answers' = answers \cup {Answer(call[c].key, call[c].row)}
  /\ End(c)
  /\ UNCHANGED <<credentials, sent, charges, owed>>

\* On a conflict the caller gets the row that is there.
Record(c) ==
  /\ At(c, "record") /\ call[c].key \in Recordable
  /\ rows' = Inserted(c)
  /\ answers' = answers \cup {Answer(call[c].key, rows'[call[c].key])}
  /\ End(c)
  /\ UNCHANGED <<credentials, sent, charges, owed>>

\* The INSERT takes effect and the caller is not told: its outcome, the SELECT
\* or the process is lost.
RecordUnanswered(c) ==
  /\ At(c, "record") /\ call[c].key \in Recordable
  /\ rows' = Inserted(c)
  /\ End(c)
  /\ UNCHANGED <<credentials, sent, charges, owed, answers>>

\* The INSERT fails: a lost connection, or the foreign key on subscriptions.
RecordFails(c) ==
  /\ At(c, "record")
  /\ End(c)
  /\ UNCHANGED <<credentials, sent, charges, owed, rows, answers>>

(***************************************************************************)
(* The provider.                                                           *)
(***************************************************************************)

\* A request arrives; one with a header it has seen makes no second payment.
ProviderCharges(m) ==
  /\ m.header = NoHeader \/ Made(m) = {}
  /\ \E i \in ChargeIds : charges[i] = NoCharge
  /\ \E s \in MPStatus \ {"refunded"} :
       charges' = [charges EXCEPT ![CHOOSE i \in ChargeIds : charges[i] = NoCharge] =
                     [account |-> m.account, header |-> m.header,
                      reference |-> m.reference, status |-> s]]
  /\ UNCHANGED <<credentials, call, sent, owed, rows, answers>>

\* A pending payment is decided, an approved one refunded or charged back.
ProviderSettles(i) ==
  /\ charges[i] # NoCharge
  /\ \E s \in IF charges[i].status = "pending" THEN {"approved", "rejected"}
              ELSE IF charges[i].status = "approved" THEN {"refunded"} ELSE {} :
       charges' = [charges EXCEPT ![i].status = s]
  /\ owed' = owed \cup {i}
  /\ UNCHANGED <<credentials, call, sent, rows, answers>>

\* The tenant whose stored webhook secret belongs to the payment's account.
GetTenantByWebhookSecret(i) == credentials = charges[i].account

\* The signature is right, and the event is acknowledged and dropped.
HandleWebhook(i) ==
  /\ i \in owed /\ GetTenantByWebhookSecret(i)
  /\ owed' = owed \ {i}
  /\ UNCHANGED <<credentials, call, sent, charges, rows, answers>>

CallStep(c) ==
  \/ \E k \in Keys : BeginCall(c, k)
  \/ Send(c) \/ Answered(c) \/ TryAgain(c) \/ GiveUp(c)
  \/ Record(c) \/ RecordUnanswered(c) \/ RecordFails(c)

Next ==
  \/ \E a \in Accounts : SetProviderConfig(a)
  \/ DeleteProviderConfig
  \/ \E c \in Callers : CallStep(c)
  \/ \E m \in sent : ProviderCharges(m)
  \/ \E i \in ChargeIds : ProviderSettles(i) \/ HandleWebhook(i)

Spec == Init /\ [][Next]_vars

(***************************************************************************)
(* Properties.                                                             *)
(***************************************************************************)
Row == [charge : ChargeIds, status : Status]
Call ==
  [step : {"idle"}]
  \cup [step : {"send", "wait"}, key : Keys, account : Accounts, attempt : 0..MaxRetries]
  \cup [step : {"record"}, key : Keys, row : Row]
Charge == [account : Accounts, header : Keys \cup {NoHeader}, reference : Keys,
           status : MPStatus]

TypeOK ==
  /\ credentials \in Accounts \cup {NoAccount}
  /\ call \in [Callers -> Call]
  /\ sent \subseteq [account : Accounts, header : Keys \cup {NoHeader}, reference : Keys]
  /\ charges \in [ChargeIds -> Charge \cup {NoCharge}]
  /\ owed \subseteq ChargeIds
  /\ rows \in [Keys -> Row \cup {NoRow}]
  /\ answers \subseteq [key : Keys, charge : ChargeIds, status : Status]

\* A key is charged once in a provider account, however many callers use it,
\* attempts are made and answers lost: it is charged a second time only if the
\* account changed between two of them.
ChargedOnce ==
  \A i, j \in ChargeIds :
    /\ i # j /\ charges[i] # NoCharge /\ charges[j] # NoCharge
    /\ charges[i].reference = charges[j].reference
    => charges[i].account # charges[j].account

\* Callers of one key are all answered with one payment, whichever of them
\* charged and however often the provider was asked: the one stored under the key
\* (README.md:39, "Duplicate requests return the same response").  It says nothing
\* of the status.  docs/GETTING_STARTED.md:286 ('pending', "then transitions to
\* succeeded or failed") and 374 ("Payment settled -> update payment status") have
\* that follow the provider; in the code nothing ever updates it.
AnswersAgree ==
  \A a \in answers : rows[a.key] # NoRow /\ rows[a.key].charge = a.charge

\* A stored payment is the provider's payment of its own key, and does not say
\* more than the provider did: it succeeded only if it was paid, and failed
\* only if it was refused or given back.
Backs(row, k) ==
  /\ charges[row.charge] # NoCharge /\ charges[row.charge].reference = k
  /\ row.status = "succeeded" => charges[row.charge].status \in {"approved", "refunded"}
  /\ row.status = "failed" => charges[row.charge].status \in {"rejected", "refunded"}

PaymentsAreCharges == \A k \in Keys : rows[k] # NoRow => Backs(rows[k], k)

\* The abstract promise: the provider's payments are the charges taken, the
\* rows of the table what is filed; handlers, requests, credentials and webhooks
\* do not appear in it.
Promise == INSTANCE IdempotentCharge WITH taken <- charges, filed <- rows, told <- answers

\* To its clients the endpoint is a charge made and filed once per key: retries,
\* lost answers, conflicting inserts and late requests do not show, and no
\* stored payment is ever replaced (README.md:39).  That includes its status: the
\* promise is the code's, which disagrees with docs/GETTING_STARTED.md:286 and 374,
\* where a pending payment becomes succeeded or failed.
IdempotentSpec == Promise!Spec
=============================================================================
