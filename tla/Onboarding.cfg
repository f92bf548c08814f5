SPECIFICATION BoundedSpec
CONSTANTS
  a = a
  b = b
  k1 = k1
  k2 = k2
  k3 = k3
  Emails = {a, b}
  Slugs = {x, y}
  Keys = {k1, k2, k3}
  PrefixOf <- SharedPrefix
  Clients = {c1}
  NoTenant = NoTenant
  Idle = Idle
  Users <- FewUsers
  Passwords = {p1, p2}
  Temporary = Temporary
  NoUser = NoUser
  NoTask = NoTask
  Workers = {w1}
  Signups = {g1}
  Instances = {i1}
  BootEmail = a
  BootSlug = x
  BootPassword = p1
  Weak = Weak
  NoPassword = NoPassword
  PasswordRequired = FALSE
  NoKey = NoKey
  MaxFaults = 1
  Audiences = {"api", "backoffice"}
INVARIANTS TypeOK ServedAsOwner SignupAnswersAreTrue FirstUserIsAdmin BootstrapOutcome
PROPERTIES OwnTenantOnly RefusedOnlyIfShadowed TemporaryIsFinal InstancesStart
