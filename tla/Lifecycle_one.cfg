SPECIFICATION Spec
CONSTANTS
  s1 = s1
  s2 = s2
  Subs = {s1}
  WithProvider = {s1}
  IntervalTicks <- DailyAll
  TrialTicks = {0, 1}
  Tenants = {t1}
  TenantOf <- OneTenant
  Accounts = {a1}
  NoAccount = NoAccount
  Runners = {r1}
  Handlers = {h1}
  PatchBodies <- StatusBodies
  MayCancel = TRUE
  Outcomes = {"succeeded", "failed"}
  GraceTicks = 1
  BatchLimit = 2
  TicksPerDay = 2
  MaxSubs = 1
  MaxTick = 5
  MaxFaults = 2
  ListColumnsMatch = TRUE
  NoRow = NoRow
INVARIANTS TypeOK NoSkippedPeriod PaymentsAreBacked FreshInv SettledInv
PROPERTIES RunnerStatusPath ExpiresOnlyOverdue
