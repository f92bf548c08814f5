SPECIFICATION Spec
CONSTANTS
  Callers = {a}
  Requests = {r1, r2}
  Limit = 2
  MsPerMinute = 3
  TicksPerMs = 2
  NoTenant = NoTenant
  NoBucket = NoBucket
  MaxTime = 9
INVARIANTS TypeOK WindowQuota RemainingBelowLimit
PROPERTIES RefusedOnlyIfBusy
