--------------------------- MODULE ChargingProofs ---------------------------
(***************************************************************************)
(* What client payments promise, proved for any number of keys, callers,   *)
(* accounts and retries, and any loss, delay or repetition of requests.    *)
(***************************************************************************)
EXTENDS Charging, TLAPS

(***************************************************************************)
(* The inductive invariant.                                                *)
(***************************************************************************)

\* Requests on their way carry the key they are for as their header.
SentInv == \A m \in sent : m.header = m.reference

\* So do the payments made from them.
HeaderInv == \A i \in ChargeIds : charges[i] # NoCharge => charges[i].header = charges[i].reference

\* The outcome a caller is about to insert is one the provider gave for its key.
InHandInv == \A c \in Callers : At(c, "record") => Backs(call[c].row, call[c].key)

CInv ==
  /\ TypeOK /\ SentInv /\ HeaderInv /\ InHandInv
  /\ ChargedOnce /\ AnswersAgree /\ PaymentsAreCharges

(***************************************************************************)
(* Lemmas on the shape of a call.                                          *)
(***************************************************************************)

\* What is in a handler's hands at each of its steps.
LEMMA CallFields ==
  ASSUME NEW x \in Call
  PROVE  /\ x.step \in {"idle", "send", "wait", "record"}
         /\ x.step \in {"send", "wait"} =>
              x.key \in Keys /\ x.account \in Accounts /\ x.attempt \in 0..MaxRetries
         /\ x.step = "record" => x.key \in Keys /\ x.row \in Row
BY DEF Call

\* doWithRetry changes the step and the attempt only.
LEMMA CallChanges ==
  ASSUME NEW x \in Call, x.step \in {"send", "wait"}
  PROVE  /\ [x EXCEPT !.step = "wait"] \in Call
         /\ x.attempt < MaxRetries =>
              [x EXCEPT !.step = "send", !.attempt = x.attempt + 1] \in Call
<1>1. x \in [step : {"send", "wait"}, key : Keys, account : Accounts, attempt : 0..MaxRetries]
  BY DEF Call
<1>2. MaxRetries \in Nat
  BY ChargingAssumption
<1>3. [x EXCEPT !.step = "wait"]
        \in [step : {"send", "wait"}, key : Keys, account : Accounts, attempt : 0..MaxRetries]
  BY <1>1
<1>4. ASSUME x.attempt < MaxRetries
      PROVE  [x EXCEPT !.step = "send", !.attempt = x.attempt + 1]
        \in [step : {"send", "wait"}, key : Keys, account : Accounts, attempt : 0..MaxRetries]
  <2>1. x.attempt + 1 \in 0..MaxRetries
    BY <1>1, <1>2, <1>4
  <2> QED
    BY <1>1, <2>1
<1> QED
  BY <1>3, <1>4 DEF Call

\* The statuses of mapper.go are the three of the payments table.
LEMMA MappedStatus ==
  ASSUME NEW s \in MPStatus
  PROVE  /\ mapStatus(s) \in Status
         /\ mapStatus(s) = "succeeded" => s = "approved"
         /\ mapStatus(s) = "failed" => s \in {"rejected", "refunded"}
BY DEF mapStatus, MPStatus, Status

(***************************************************************************)
(* Steps of the handlers.                                                  *)
(***************************************************************************)

\* A process that just started has charged, stored and answered nothing.
LEMMA InitCInv == Init => CInv
<1> SUFFICES ASSUME Init PROVE CInv
  OBVIOUS
<1>1. TypeOK
  BY DEF Init, TypeOK, Call, NoCall
<1>2. InHandInv
  BY DEF Init, InHandInv, At, NoCall
<1> QED
  BY <1>1, <1>2 DEF Init, CInv, SentInv, HeaderInv, ChargedOnce, AnswersAgree, PaymentsAreCharges

\* A step that touches neither the provider's payments nor the table keeps
\* what is said of them.
LEMMA TablesUntouched ==
  ASSUME CInv, TypeOK', UNCHANGED <<charges, rows, answers>>
  PROVE  HeaderInv' /\ ChargedOnce' /\ AnswersAgree' /\ PaymentsAreCharges'
BY DEF CInv, HeaderInv, ChargedOnce, AnswersAgree, PaymentsAreCharges, Backs

\* Handlers that do not come to hold an outcome.
LEMMA HandsUntouched ==
  ASSUME CInv, UNCHANGED charges, NEW c \in Callers, NEW x, x.step # "record",
         call' = [call EXCEPT ![c] = x]
  PROVE  InHandInv'
<1> SUFFICES ASSUME NEW d \in Callers, call'[d].step = "record"
             PROVE  Backs(call[d].row, call[d].key)' 
  BY DEF InHandInv, At
<1>1. call'[d] = call[d]
  BY DEF CInv, TypeOK
<1> QED
  BY <1>1 DEF CInv, InHandInv, At, Backs

LEMMA BeginCallInv ==
  ASSUME CInv, NEW c \in Callers, NEW k \in Keys, BeginCall(c, k)
  PROVE  CInv'
<1>1. PICK a \in Accounts :
        call' = [call EXCEPT ![c] = [step |-> "send", key |-> k, account |-> a, attempt |-> 0]]
  BY DEF BeginCall
<1>2. UNCHANGED <<credentials, sent, charges, owed, rows, answers>>
  BY DEF BeginCall
<1>3. [step |-> "send", key |-> k, account |-> a, attempt |-> 0] \in Call
  BY ChargingAssumption DEF Call
<1>4. TypeOK'
  BY <1>1, <1>2, <1>3 DEF CInv, TypeOK
<1>5. InHandInv'
  BY <1>1, <1>2, HandsUntouched
<1> QED
  BY <1>2, <1>4, <1>5, TablesUntouched DEF CInv, SentInv

\* Every attempt carries the caller's key, as the header and as the reference.
LEMMA SendInv ==
  ASSUME CInv, NEW c \in Callers, Send(c)
  PROVE  CInv'
<1>1. /\ call[c] \in Call /\ call[c].step = "send"
      /\ call' = [call EXCEPT ![c] = [call[c] EXCEPT !.step = "wait"]]
      /\ sent' = sent \cup {Message(c)}
      /\ UNCHANGED <<credentials, charges, owed, rows, answers>>
  BY DEF CInv, TypeOK, Send, At
<1>2. [call[c] EXCEPT !.step = "wait"] \in Call
  BY <1>1, CallChanges
<1>3. call[c].key \in Keys /\ call[c].account \in Accounts
  BY <1>1, CallFields
<1>4. TypeOK'
  BY <1>1, <1>2, <1>3 DEF CInv, TypeOK, Message
<1>5. SentInv'
  BY <1>1 DEF CInv, SentInv, Message
<1>6. [call[c] EXCEPT !.step = "wait"].step = "wait"
  BY <1>1 DEF Call
<1>7. InHandInv'
  BY <1>1, <1>6, HandsUntouched
<1> QED
  BY <1>1, <1>4, <1>5, <1>7, TablesUntouched DEF CInv

LEMMA TryAgainInv ==
  ASSUME CInv, NEW c \in Callers, TryAgain(c)
  PROVE  CInv'
<1> DEFINE x == [call[c] EXCEPT !.step = "send", !.attempt = call[c].attempt + 1]
<1>1. /\ call[c] \in Call /\ call[c].step = "wait" /\ call[c].attempt < MaxRetries
      /\ call' = [call EXCEPT ![c] = x]
      /\ UNCHANGED <<credentials, sent, charges, owed, rows, answers>>
  BY DEF CInv, TypeOK, TryAgain, At
<1>2. x \in Call
  BY <1>1, CallChanges
<1>3. x.step = "send"
  BY <1>1 DEF Call
<1> HIDE DEF x
<1>4. TypeOK'
  BY <1>1, <1>2 DEF CInv, TypeOK
<1>5. InHandInv'
  BY <1>1, <1>3, HandsUntouched
<1> QED
  BY <1>1, <1>4, <1>5, TablesUntouched DEF CInv, SentInv

\* A handler that ends without an insert: the client is gone, the provider
\* refused, or the database did.
LEMMA EndInv ==
  ASSUME CInv, NEW c \in Callers, End(c),
         UNCHANGED <<credentials, sent, charges, owed, rows, answers>>
  PROVE  CInv'
<1>1. NoCall \in Call /\ NoCall.step # "record"
  BY DEF NoCall, Call
<1>2. TypeOK'
  BY <1>1 DEF CInv, TypeOK, End
<1>3. InHandInv'
  BY <1>1, HandsUntouched DEF End
<1> QED
  BY <1>2, <1>3, TablesUntouched DEF CInv, SentInv

\* The provider's answer is about a payment made under the caller's key.
LEMMA AnsweredInv ==
  ASSUME CInv, NEW c \in Callers, Answered(c)
  PROVE  CInv'
<1>1. PICK i \in Made(Message(c)) :
        call' = [call EXCEPT ![c] =
                   [step |-> "record", key |-> call[c].key,
                    row |-> [charge |-> i, status |-> mapStatus(charges[i].status)]]]
  BY DEF Answered
<1>2. call[c] \in Call /\ call[c].step = "wait" /\ call[c].key \in Keys
  BY CallFields DEF CInv, TypeOK, Answered, At
<1>3. /\ i \in ChargeIds /\ charges[i] # NoCharge /\ charges[i].reference = call[c].key
      /\ charges[i].status \in MPStatus
  BY DEF Made, Message, CInv, TypeOK, Charge
<1> DEFINE row == [charge |-> i, status |-> mapStatus(charges[i].status)]
           x == [step |-> "record", key |-> call[c].key, row |-> row]
<1>4. row \in Row /\ Backs(row, call[c].key)
  BY <1>3, MappedStatus DEF Row, Backs
<1>5. x \in Call /\ x.step = "record" /\ x.row = row /\ x.key = call[c].key
  BY <1>2, <1>4 DEF Call
<1>6. UNCHANGED <<credentials, sent, charges, owed, rows, answers>> /\ call' = [call EXCEPT ![c] = x]
  BY <1>1 DEF Answered
<1> HIDE DEF row, x
<1>7. TypeOK'
  BY <1>5, <1>6 DEF CInv, TypeOK
<1>8. InHandInv'
  BY <1>4, <1>5, <1>6 DEF CInv, TypeOK, InHandInv, At, Backs
<1> QED
  BY <1>6, <1>7, <1>8, TablesUntouched DEF CInv, SentInv

\* INSERT ... ON CONFLICT DO NOTHING: the first row of a key stays, and backs
\* whoever is answered with it.
LEMMA InsertInv ==
  ASSUME CInv, NEW c \in Callers, At(c, "record"), End(c), rows' = Inserted(c),
         \/ UNCHANGED answers
         \/ answers' = answers \cup {Answer(call[c].key, rows'[call[c].key])},
         UNCHANGED <<credentials, sent, charges, owed>>
  PROVE  CInv'
<1> DEFINE k == call[c].key
           row == call[c].row
<1>1. k \in Keys /\ row \in Row /\ Backs(row, k)
  BY CallFields DEF CInv, TypeOK, InHandInv, At
<1>2. /\ rows' = [rows EXCEPT ![k] = IF rows[k] = NoRow THEN row ELSE rows[k]]
      /\ rows[k] \in Row \cup {NoRow} /\ NoRow \notin Row
      /\ \A a \in answers : a.key \in Keys
  BY <1>1, ChargingAssumption DEF Inserted, CInv, TypeOK, Row, Status
<1> HIDE DEF row
<1>3. /\ rows' \in [Keys -> Row \cup {NoRow}] /\ rows'[k] \in Row /\ Backs(rows'[k], k)
      /\ \A l \in Keys : rows[l] # NoRow => rows'[l] = rows[l]
      /\ \A l \in Keys : l # k => rows'[l] = rows[l]
  BY <1>1, <1>2 DEF CInv, TypeOK, PaymentsAreCharges
<1> HIDE DEF k
<1>4. TypeOK'
  BY <1>1, <1>3 DEF CInv, TypeOK, End, NoCall, Call, Answer, Row, k
<1>5. InHandInv'
  BY HandsUntouched DEF End, NoCall
<1>6. PaymentsAreCharges'
  BY <1>3 DEF CInv, PaymentsAreCharges, Backs
<1>7. AnswersAgree'
  <2> SUFFICES ASSUME NEW a \in answers'
               PROVE  rows'[a.key] # NoRow /\ rows'[a.key].charge = a.charge
    BY DEF AnswersAgree
  <2>1. CASE a \in answers
    <3>1. a.key \in Keys
      BY <1>2, <2>1
    <3>2. rows[a.key] # NoRow /\ rows[a.key].charge = a.charge
      BY <2>1 DEF CInv, AnswersAgree
    <3> QED
      BY <1>3, <3>1, <3>2
  <2>2. CASE a = Answer(k, rows'[k])
    BY <1>2, <1>3, <2>2 DEF Answer
  <2> QED
    BY <2>1, <2>2 DEF k
<1> QED
  BY <1>4, <1>5, <1>6, <1>7 DEF CInv, SentInv, HeaderInv, ChargedOnce

(***************************************************************************)
(* Steps of the provider.                                                  *)
(***************************************************************************)

\* A request that arrives once more makes no second payment, and one that
\* makes a payment is the first of its key in its account.
LEMMA ProviderChargesInv ==
  ASSUME CInv, NEW m \in sent, ProviderCharges(m)
  PROVE  CInv'
<1> DEFINE i == CHOOSE j \in ChargeIds : charges[j] = NoCharge
<1>1. i \in ChargeIds /\ charges[i] = NoCharge
  BY DEF ProviderCharges
<1> HIDE DEF i
<1>2. PICK s \in MPStatus :
        charges' = [charges EXCEPT ![i] = [account |-> m.account, header |-> m.header,
                                           reference |-> m.reference, status |-> s]]
  BY DEF ProviderCharges, i
<1> DEFINE new == [account |-> m.account, header |-> m.header,
                   reference |-> m.reference, status |-> s]
<1>3. /\ m.account \in Accounts /\ m.header \in Keys /\ m.reference = m.header
      /\ Made(m) = {}
  BY ChargingAssumption DEF CInv, TypeOK, SentInv, ProviderCharges
<1>4. /\ new \in Charge /\ new # NoCharge /\ new.account = m.account
      /\ new.header = m.header /\ new.reference = m.reference
  BY <1>3, ChargingAssumption DEF Charge, MPStatus
<1>5. /\ charges'[i] = new
      /\ \A j \in ChargeIds : j # i => charges'[j] = charges[j]
      /\ charges' \in [ChargeIds -> Charge \cup {NoCharge}]
  BY <1>1, <1>2, <1>4 DEF CInv, TypeOK
<1> HIDE DEF new
<1>6. UNCHANGED <<credentials, call, sent, owed, rows, answers>>
  BY DEF ProviderCharges
<1>7. TypeOK'
  BY <1>5, <1>6 DEF CInv, TypeOK
<1>8. SentInv' /\ HeaderInv' /\ AnswersAgree'
  BY <1>3, <1>4, <1>5, <1>6 DEF CInv, SentInv, HeaderInv, AnswersAgree
<1>9. ChargedOnce'
  <2>1. \A j \in ChargeIds :
          charges[j] # NoCharge /\ charges[j].reference = m.reference =>
            charges[j].account # m.account
    BY <1>3 DEF CInv, HeaderInv, Made
  <2> QED
    BY <1>1, <1>4, <1>5, <2>1 DEF CInv, ChargedOnce
<1>10. \A r, k : Backs(r, k) /\ r.charge \in ChargeIds => Backs(r, k)'
  BY <1>1, <1>5 DEF Backs
<1>11. InHandInv'
  BY <1>6, <1>10, CallFields DEF CInv, TypeOK, InHandInv, At, Row
<1>12. PaymentsAreCharges'
  BY <1>6, <1>10 DEF CInv, TypeOK, PaymentsAreCharges, Row
<1> QED
  BY <1>7, <1>8, <1>9, <1>11, <1>12 DEF CInv

\* What a stored payment says stays true when the provider decides a pending
\* payment or gives an approved one back.
LEMMA ProviderSettlesInv ==
  ASSUME CInv, NEW i \in ChargeIds, ProviderSettles(i)
  PROVE  CInv'
<1>1. PICK s \in MPStatus :
        /\ charges' = [charges EXCEPT ![i] = [charges[i] EXCEPT !.status = s]]
        /\ \/ charges[i].status = "pending" /\ s \in {"approved", "rejected"}
           \/ charges[i].status = "approved" /\ s = "refunded"
  <2>1. PICK s \in IF charges[i].status = "pending" THEN {"approved", "rejected"}
                   ELSE IF charges[i].status = "approved" THEN {"refunded"} ELSE {} :
          charges' = [charges EXCEPT ![i].status = s]
    BY DEF ProviderSettles
  <2> QED
    BY <2>1 DEF MPStatus
<1>2. charges[i] # NoCharge /\ charges[i] \in Charge
  BY DEF CInv, TypeOK, ProviderSettles
<1> DEFINE new == [charges[i] EXCEPT !.status = s]
<1>3. /\ new \in Charge /\ new # NoCharge /\ new.status = s /\ new.account = charges[i].account
      /\ new.header = charges[i].header /\ new.reference = charges[i].reference
  BY <1>2, ChargingAssumption DEF Charge, MPStatus
<1>4. /\ charges'[i] = new
      /\ \A j \in ChargeIds : j # i => charges'[j] = charges[j]
      /\ charges' \in [ChargeIds -> Charge \cup {NoCharge}]
  BY <1>1, <1>3 DEF CInv, TypeOK
<1> HIDE DEF new
<1>5. UNCHANGED <<credentials, call, sent, rows, answers>> /\ owed' = owed \cup {i}
  BY DEF ProviderSettles
<1>6. TypeOK'
  BY <1>4, <1>5 DEF CInv, TypeOK
<1>7. SentInv' /\ HeaderInv' /\ AnswersAgree'
  BY <1>2, <1>3, <1>4, <1>5 DEF CInv, SentInv, HeaderInv, AnswersAgree
<1>8. ChargedOnce'
  BY <1>2, <1>3, <1>4 DEF CInv, ChargedOnce
<1>9. \A r, k : Backs(r, k) /\ r.charge \in ChargeIds => Backs(r, k)'
  BY <1>1, <1>2, <1>3, <1>4 DEF Backs
<1>10. InHandInv'
  BY <1>5, <1>9, CallFields DEF CInv, TypeOK, InHandInv, At, Row
<1>11. PaymentsAreCharges'
  BY <1>5, <1>9 DEF CInv, TypeOK, PaymentsAreCharges, Row
<1> QED
  BY <1>6, <1>7, <1>8, <1>10, <1>11 DEF CInv

\* Credentials and webhooks change nothing a payment depends on.
LEMMA ElsewhereInv ==
  ASSUME CInv, UNCHANGED <<call, sent, charges, rows, answers>>,
         credentials' \in Accounts \cup {NoAccount}, owed' \subseteq ChargeIds
  PROVE  CInv'
<1>1. TypeOK'
  BY DEF CInv, TypeOK
<1>2. InHandInv' /\ SentInv'
  BY DEF CInv, InHandInv, SentInv, At, Backs
<1> QED
  BY <1>1, <1>2, TablesUntouched DEF CInv

\* The invariant survives every step.
LEMMA NextCInv == CInv /\ [Next]_vars => CInv'
<1> SUFFICES ASSUME CInv, [Next]_vars PROVE CInv'
  OBVIOUS
<1>1. ASSUME NEW c \in Callers, CallStep(c)
      PROVE  CInv'
  <2>1. CASE GiveUp(c) \/ RecordFails(c)
    BY <2>1, EndInv DEF GiveUp, RecordFails
  <2>2. CASE Record(c) \/ RecordUnanswered(c)
    BY <2>2, InsertInv DEF Record, RecordUnanswered
  <2> QED
    BY <1>1, <2>1, <2>2, BeginCallInv, SendInv, AnsweredInv, TryAgainInv DEF CallStep
<1>2. CASE (\E a \in Accounts : SetProviderConfig(a)) \/ DeleteProviderConfig
  BY <1>2, ElsewhereInv DEF SetProviderConfig, DeleteProviderConfig, CInv, TypeOK
<1>3. ASSUME NEW i \in ChargeIds, HandleWebhook(i)
      PROVE  CInv'
  BY <1>3, ElsewhereInv DEF HandleWebhook, CInv, TypeOK
<1>4. CASE UNCHANGED vars
  BY <1>4, ElsewhereInv DEF vars, CInv, TypeOK
<1> QED
  BY <1>1, <1>2, <1>3, <1>4, ProviderChargesInv, ProviderSettlesInv DEF Next

(***************************************************************************)
(* What a client may rely on.                                              *)
(***************************************************************************)

\* The invariant above holds in every state of POST .../payments.
THEOREM ChargingInductive == Spec => []CInv
BY InitCInv, NextCInv, PTL DEF Spec

\* The steps of CreatePayment and doWithRetry keep to their types, and no
\* handler makes more than MaxRetries retries.
THEOREM ChargingTypes == Spec => []TypeOK
<1>1. CInv => TypeOK
  BY DEF CInv
<1> QED
  BY <1>1, ChargingInductive, PTL

\* An idempotency key is charged once in a provider account, for any number of
\* callers, retries, lost answers and late requests.
THEOREM KeyChargedOnce == Spec => []ChargedOnce
<1>1. CInv => ChargedOnce
  BY DEF CInv
<1> QED
  BY <1>1, ChargingInductive, PTL

\* Whichever caller's INSERT came first, all callers of a key are answered with
\* the one payment that is stored under it; its status is not part of this.
THEOREM SameAnswer == Spec => []AnswersAgree
<1>1. CInv => AnswersAgree
  BY DEF CInv
<1> QED
  BY <1>1, ChargingInductive, PTL

\* A stored payment never claims more than the provider did under its key.
THEOREM PaymentsAreReal == Spec => []PaymentsAreCharges
<1>1. CInv => PaymentsAreCharges
  BY DEF CInv
<1> QED
  BY <1>1, ChargingInductive, PTL

(***************************************************************************)
(* Charging implements IdempotentCharge: a request the provider has not    *)
(* seen takes a charge, a decision or a refund settles one, an INSERT that *)
(* finds no row files a payment, and everything else leaves the promise as *)
(* it is.                                                                  *)
(***************************************************************************)

\* The provider takes a charge for the request it sees for the first time.
LEMMA TakeStep ==
  ASSUME CInv, NEW m \in sent, ProviderCharges(m)
  PROVE  \E i \in ChargeIds : Promise!Take(i)
<1>1. PICK i \in ChargeIds :
        charges[i] = NoCharge /\ i = CHOOSE j \in ChargeIds : charges[j] = NoCharge
  BY DEF ProviderCharges
<1>2. PICK s \in {"approved", "pending", "rejected"} :
        charges' = [charges EXCEPT ![i] = [account |-> m.account, header |-> m.header,
                                           reference |-> m.reference, status |-> s]]
  BY <1>1 DEF ProviderCharges, MPStatus
<1> DEFINE new == [account |-> m.account, header |-> m.header,
                   reference |-> m.reference, status |-> s]
<1>3. /\ m.account \in Accounts /\ m.header \in Keys /\ m.reference = m.header
      /\ Made(m) = {} /\ UNCHANGED <<rows, answers>>
  BY ChargingAssumption DEF CInv, TypeOK, SentInv, ProviderCharges
<1>4. /\ new # NoCharge /\ new.account = m.account /\ new.reference = m.reference
      /\ new.status \in {"approved", "pending", "rejected"}
  BY <1>3, ChargingAssumption
<1>5. \A j \in ChargeIds : charges[j] # NoCharge =>
        charges[j].reference # m.reference \/ charges[j].account # m.account
  BY <1>3 DEF CInv, HeaderInv, Made
<1>6. charges' = [charges EXCEPT ![i] = new] /\ charges'[i] = new
  BY <1>1, <1>2 DEF CInv, TypeOK
<1> HIDE DEF new
<1>7. Promise!Fresh(charges'[i])
  BY <1>3, <1>4, <1>5, <1>6 DEF Promise!Fresh
<1> QED
  BY <1>1, <1>3, <1>6, <1>7 DEF Promise!Take

\* Deciding or giving back a payment settles its charge.
LEMMA SettleStep ==
  ASSUME NEW i \in ChargeIds, ProviderSettles(i)
  PROVE  Promise!Settle(i)
BY DEF ProviderSettles, Promise!Settle, Promise!Later

\* INSERT ... ON CONFLICT DO NOTHING files the caller's payment, or leaves the
\* one on file.
LEMMA InsertFiles ==
  ASSUME CInv, NEW c \in Callers, At(c, "record"), rows' = Inserted(c),
         NEW k \in Keys, k = call[c].key
  PROVE  /\ Promise!Filing(k) \/ UNCHANGED rows
         /\ rows'[k] # NoRow
<1> DEFINE row == call[c].row
<1>1. row \in Row /\ Backs(row, k)
  BY CallFields DEF CInv, TypeOK, InHandInv, At
<1>2. /\ rows' = [rows EXCEPT ![k] = IF rows[k] = NoRow THEN row ELSE rows[k]]
      /\ row # NoRow
  BY <1>1, ChargingAssumption DEF Inserted, Row, Status
<1> HIDE DEF row
<1>3. rows'[k] = IF rows[k] = NoRow THEN row ELSE rows[k]
  BY <1>2 DEF CInv, TypeOK
<1>4. CASE rows[k] # NoRow
  BY <1>2, <1>3, <1>4 DEF CInv, TypeOK
<1>5. CASE rows[k] = NoRow
  <2>1. rows' = [rows EXCEPT ![k] = rows'[k]] /\ rows'[k] = row
    BY <1>2, <1>3, <1>5
  <2>2. Promise!Reports(row, k)
    BY <1>1, <1>2 DEF Promise!Reports, Promise!MayReport, Backs, Row, Status
  <2> QED
    BY <1>2, <1>5, <2>1, <2>2 DEF Promise!Filing
<1> QED
  BY <1>4, <1>5

\* The INSERT of a handler files a payment, and its answer tells of it.
LEMMA RecordStep ==
  ASSUME CInv, NEW c \in Callers, Record(c) \/ RecordUnanswered(c)
  PROVE  \/ \E k \in Keys : Promise!File(k) \/ Promise!Tell(k)
         \/ UNCHANGED Promise!promiseVars
<1> PICK k \in Keys : k = call[c].key
  BY CallFields DEF CInv, TypeOK, Record, RecordUnanswered, At
<1>1. /\ Promise!Filing(k) \/ UNCHANGED rows
      /\ rows'[k] # NoRow
      /\ UNCHANGED charges
  BY InsertFiles DEF Record, RecordUnanswered
<1>2. CASE Record(c)
  <2>1. Promise!Tell(k)
    BY <1>1, <1>2 DEF Record, Answer, Promise!Tell
  <2> QED
    BY <2>1
<1>3. CASE RecordUnanswered(c)
  BY <1>1, <1>3 DEF RecordUnanswered, Promise!File, Promise!promiseVars
<1> QED
  BY <1>2, <1>3

\* Every step of the code is a step of the promise or leaves it alone.
LEMMA PromiseStep == CInv /\ [Next]_vars => [Promise!Next]_Promise!promiseVars
<1> SUFFICES ASSUME CInv, [Next]_vars
             PROVE  Promise!Next \/ UNCHANGED Promise!promiseVars
  OBVIOUS
<1>1. ASSUME NEW c \in Callers, Record(c) \/ RecordUnanswered(c)
      PROVE  Promise!Next \/ UNCHANGED Promise!promiseVars
  BY <1>1, RecordStep DEF Promise!Next
<1>2. ASSUME NEW m \in sent, ProviderCharges(m) PROVE Promise!Next
  BY <1>2, TakeStep DEF Promise!Next
<1>3. ASSUME NEW i \in ChargeIds, ProviderSettles(i) PROVE Promise!Next
  BY <1>3, SettleStep DEF Promise!Next
<1>4. \/ UNCHANGED <<charges, rows, answers>>
      \/ \E c \in Callers : Record(c) \/ RecordUnanswered(c)
      \/ \E m \in sent : ProviderCharges(m)
      \/ \E i \in ChargeIds : ProviderSettles(i)
  BY DEF Next, vars, SetProviderConfig, DeleteProviderConfig, CallStep, BeginCall, Send,
     Answered, TryAgain, GiveUp, RecordFails, HandleWebhook
<1>5. CASE UNCHANGED <<charges, rows, answers>>
  BY <1>5 DEF Promise!promiseVars
<1> QED
  BY <1>1, <1>2, <1>3, <1>4, <1>5

\* POST .../payments keeps the abstract promise: retries, lost answers,
\* conflicting inserts and late requests never show, for any number of callers.
THEOREM KeepsThePromise == Spec => IdempotentSpec
<1>1. Init => Promise!Init
  BY DEF Init, Promise!Init
<1> QED
  BY <1>1, PromiseStep, ChargingInductive, PTL DEF Spec, IdempotentSpec, Promise!Spec
=============================================================================
