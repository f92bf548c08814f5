SPECIFICATION Spec
CONSTANTS
  c1 = c1
  c2 = c2
  c3 = c3
  a1 = a1
  a2 = a2
  Keys = {k1}
  Recordable = {k1}
  Callers <- ThreeCallers
  Accounts <- TwoAccounts
  NoAccount = NoAccount
  ChargeIds = {i1, i2}
  NoCharge = NoCharge
  NoHeader = NoHeader
  MaxRetries = 1
  NoRow = NoRow
SYMMETRY Alike
INVARIANTS TypeOK ChargedOnce AnswersAgree PaymentsAreCharges
PROPERTY IdempotentSpec
