SPECIFICATION Spec
CONSTANTS
  s1 = s1
  s2 = s2
  Subs = {s1}
  WithProvider = {s1}
  IntervalTicks <- DailyAll
  TrialTicks = {0, 1}
  Tenants = {t1}
  TenantOf <- OneTenant
  Accounts = {a1}
  NoAccount = NoAccount
  Runners = {r1}
  Handlers = {}
  PatchBodies = {}
  MayCancel = FALSE
  Outcomes = {"succeeded", "failed"}
  GraceTicks = 1
  BatchLimit = 2
  TicksPerDay = 1
  MaxSubs = 1
  MaxTick = 3
  MaxFaults = 0
  ListColumnsMatch = TRUE
  NoRow = NoRow
PROPERTY AdvancesOnlyIfSuccessful
