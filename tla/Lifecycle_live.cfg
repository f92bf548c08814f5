SPECIFICATION LiveSpec
CONSTANTS
  s1 = s1
  s2 = s2
  Subs = {s1, s2}
  WithProvider = {s1}
  IntervalTicks <- MixedIntervals
  TrialTicks = {0, 2}
  Tenants = {t1}
  TenantOf <- OneTenant
  Accounts = {a1}
  NoAccount = NoAccount
  Runners = {r1}
  Handlers = {}
  PatchBodies = {}
  MayCancel = FALSE
  Outcomes = {"succeeded"}
  GraceTicks = 1
  BatchLimit = 1
  TicksPerDay = 1
  MaxSubs = 2
  MaxTick = 3
  MaxFaults = 1
  ListColumnsMatch = TRUE
  NoRow = NoRow
PROPERTIES DueIsProcessed TrialEnds OverdueExpires
