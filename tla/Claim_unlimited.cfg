SPECIFICATION RoutedSpec
CONSTANTS
  Callers = {a}
  Requests = {r1, r2, r3}
  Limit = 2
  MsPerMinute = 2
  TicksPerMs = 1
  NoTenant = NoTenant
  NoBucket = NoBucket
  MaxTime = 4
INVARIANTS CallersAreLimited
