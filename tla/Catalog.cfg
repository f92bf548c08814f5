SPECIFICATION Spec
CONSTANTS
  Slugs = {basic}
  NoSlug = NoSlug
  Bodies <- MonthlyAndYearly
  Prices = {0}
  Providers = {mercadopago, helipagos}
  NoProvider = NoProvider
  Registered = {mercadopago, helipagos}
  Gated = {mercadopago}
  Metered = {helipagos}
  Keys = {k1}
  h1 = h1
  h2 = h2
  Handlers <- TwoHandlers
  StartDays <- EndsOfMonths
  MaxPeriods = 2
  NoRow = NoRow
  NoCall = NoCall
SYMMETRY Alike
INVARIANTS TypeOK TermsOfThePlan NoPlanWhereGated OneSubscriptionPerKey PeriodsMoveForward AnniversaryDrift
