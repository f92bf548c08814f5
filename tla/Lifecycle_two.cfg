SPECIFICATION Spec
CONSTANTS
  s1 = s1
  s2 = s2
  Subs = {s1, s2}
  WithProvider = {s1, s2}
  IntervalTicks <- BothDirections
  TrialTicks = {0}
  Tenants = {t1}
  TenantOf <- OneTenant
  Accounts = {a1, a2}
  NoAccount = NoAccount
  Runners = {r1, r2}
  Handlers = {}
  PatchBodies = {}
  MayCancel = FALSE
  Outcomes = {"succeeded"}
  GraceTicks = 1
  BatchLimit = 2
  TicksPerDay = 1
  MaxSubs = 1
  MaxTick = 2
  MaxFaults = 1
  ListColumnsMatch = TRUE
  NoRow = NoRow
INVARIANTS IInv OneChargePerPeriod
PROPERTIES LedgerSpec RewindsArePaid
SYMMETRY InstanceSymmetry
