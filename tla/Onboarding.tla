----------------------------- MODULE Onboarding -----------------------------
(***************************************************************************)
(* How tenants come to exist: the signup handler and the bootstrap of a    *)
(* starting instance.  Both call TenantService.Signup (two INSERTs) and    *)
(* BackofficeService.CreateUser (a third), statement after statement, next *)
(* to other signups, other instances and everything that tenants with keys *)
(* and users with tokens do.                                               *)
(*                                                                         *)
(* Operators named ...Fault are deliberate mistakes used by no action.     *)
(***************************************************************************)
EXTENDS Tenants, Backoffice

CONSTANTS
  Signups,               \* concurrent POST /v1/signup
  Instances,             \* instances of the server, each starting once or more
  BootEmail, BootSlug,   \* BOOTSTRAP_TENANT_EMAIL and _SLUG
  BootPassword,          \* BOOTSTRAP_ADMIN_PASSWORD
  Weak,                  \* a password of 8 characters validatePassword refuses
  NoPassword,            \* none given
  PasswordRequired,      \* SIGNUP_REQUIRES_PASSWORD
  NoKey,
  MaxFaults              \* bound: statements that fail and processes that die

ASSUME OnboardingAssumption ==
  /\ Users \subseteq [tenant : Emails, email : Emails]
  /\ \A e \in Emails : [tenant |-> e, email |-> e] \in Users
  /\ BootEmail \in Emails /\ BootSlug \in Slugs
  /\ BootPassword \in Passwords \cup {Weak}
  /\ Weak \notin Passwords \cup {Temporary} /\ NoPassword \notin Passwords \cup {Weak}
  /\ NoKey \notin Keys
  /\ Signups \cap Instances = {}
  /\ PasswordRequired \in BOOLEAN /\ MaxFaults \in Nat

VARIABLES
  flow,        \* the statement a signup or a bootstrap is at, and its inputs
  signedUp,    \* 201 answers sent: [email, slug, key], and the password CreateUser had
  up,          \* instances whose bootstrap is over, and how it ended
  faults

onboardingVars == <<flow, signedUp, up, faults>>
vars == <<tenantVars, backofficeVars, onboardingVars>>

Flows == Signups \cup Instances
Admin(e) == [tenant |-> e, email |-> e]
Steps == {"tenant", "existing", "key", "user", "answer"}
Done == [step |-> "done", email |-> BootEmail, slug |-> BootSlug,
         password |-> NoPassword, key |-> NoKey]

Init ==
  /\ TenantsInit
  /\ BackofficeInit
  /\ flow = [f \in Flows |-> Done]
  /\ signedUp = {}
  /\ up = [i \in Instances |-> "starting"]
  /\ faults = 0

InFlow(f, step) == flow[f].step = step
GoTo(f, step) == flow' = [flow EXCEPT ![f].step = step]
requestsUnchanged == UNCHANGED <<expired, held, request>>

\* The bootstrap of instance f is over: the server starts to serve.
Finish(f, how) ==
  /\ flow' = [flow EXCEPT ![f] = Done]
  /\ up' = IF f \in Instances THEN [up EXCEPT ![f] = how] ELSE up

(***************************************************************************)
(* Signup and bootstrap, statement by statement.                           *)
(***************************************************************************)

\* Handler.Signup after its checks of the request.
BeginSignup(f) ==
  /\ f \in Signups /\ InFlow(f, "done")
  /\ \E e \in Emails, s \in Slugs, p \in Passwords \cup {Weak, NoPassword} :
       /\ PasswordRequired => p # NoPassword
       /\ flow' = [flow EXCEPT ![f] = [step |-> "tenant", email |-> e, slug |-> s,
                                       password |-> p, key |-> NoKey]]
  /\ UNCHANGED <<tenantVars, backofficeVars, signedUp, up, faults>>

\* bootstrapTenant with its three variables set.
BeginBootstrap(f) ==
  /\ f \in Instances /\ InFlow(f, "done") /\ up[f] = "starting"
  /\ flow' = [flow EXCEPT ![f] = [step |-> "tenant", email |-> BootEmail, slug |-> BootSlug,
                                  password |-> BootPassword, key |-> NoKey]]
  /\ UNCHANGED <<tenantVars, backofficeVars, signedUp, up, faults>>

\* TenantService.Signup, the first INSERT.  A conflict is the end of a signup;
\* bootstrap goes on to look for the tenant it conflicts with.
CreateTenant(f) ==
  /\ InFlow(f, "tenant")
  /\ LET e == flow[f].email
         s == flow[f].slug
     IN \/ /\ InsertTenant(e, s)
           /\ GoTo(f, "key") /\ UNCHANGED up
        \/ /\ ~Insertable(e, s) /\ f \in Instances
           /\ GoTo(f, "existing") /\ UNCHANGED <<slugOf, up>>
        \/ /\ ~Insertable(e, s) /\ f \in Signups
           /\ Finish(f, "served") /\ UNCHANGED slugOf
  /\ requestsUnchanged
  /\ UNCHANGED <<owner, active, backofficeVars, signedUp, faults>>

\* A conflict is taken for a bootstrap that was completed before.
ConflictIsDoneFault(f) ==
  /\ InFlow(f, "existing")
  /\ Finish(f, "bootstrapped")
  /\ UNCHANGED <<tenantVars, backofficeVars, signedUp, faults>>

\* A conflict with nothing behind it is tried again.
TryAgainFault(f) ==
  /\ InFlow(f, "existing")
  /\ GoTo(f, IF TenantExists(flow[f].email) THEN "user" ELSE "tenant")
  /\ UNCHANGED <<tenantVars, backofficeVars, signedUp, up, faults>>

\* GetByEmail: the conflict may have been one of slugs with another tenant.
FindExisting(f) ==
  /\ InFlow(f, "existing")
  /\ \/ /\ TenantExists(flow[f].email)
        /\ GoTo(f, "user") /\ UNCHANGED up
     \/ /\ ~TenantExists(flow[f].email)
        /\ Finish(f, "refused")
  /\ UNCHANGED <<tenantVars, backofficeVars, signedUp, faults>>

\* CreateKey.  An error fails the signup, and the bootstrap, with the tenant
\* already there.  A signup without password has no user to create.
CreateInitialKey(f) ==
  /\ InFlow(f, "key")
  /\ \E k \in Keys :
       /\ InsertKey(flow[f].email, k)
       /\ flow' = [flow EXCEPT ![f].key = k,
                     ![f].step = IF flow[f].password = NoPassword THEN "answer" ELSE "user"]
  /\ requestsUnchanged
  /\ UNCHANGED <<slugOf, backofficeVars, signedUp, up, faults>>

\* The admin's password is not validated.
AnyPasswordFault(e, p) ==
  IF ~UserExists(Admin(e)) THEN [user EXCEPT ![Admin(e)] = UserRow(p, "admin")] ELSE user

\* BackofficeService.CreateUser for the admin of tenant e.
WithAdmin(e, p) ==
  IF validatePassword(p) /\ ~UserExists(Admin(e))
  THEN [user EXCEPT ![Admin(e)] = UserRow(p, "admin")]
  ELSE user

\* Signup goes on when that fails.
CreateSignupAdmin(f) ==
  /\ f \in Signups /\ InFlow(f, "user")
  /\ user' = WithAdmin(flow[f].email, flow[f].password)
  /\ GoTo(f, "answer")
  /\ UNCHANGED <<tenantVars, tokens, task, signedUp, up, faults>>

\* Bootstrap takes a user that exists for its own.
CreateBootAdmin(f) ==
  /\ f \in Instances /\ InFlow(f, "user")
  /\ user' = WithAdmin(flow[f].email, flow[f].password)
  /\ Finish(f, IF validatePassword(flow[f].password) THEN "bootstrapped" ELSE "refused")
  /\ UNCHANGED <<tenantVars, tokens, task, signedUp, faults>>

\* Signup answers before its key is stored.
EarlyAnswerFault(f) ==
  /\ InFlow(f, "key") \/ InFlow(f, "answer")
  /\ \E k \in Keys :
       /\ flow[f].key \in {NoKey, k}
       /\ held' = held \cup {k}
       /\ signedUp' = signedUp \cup {[email |-> flow[f].email, slug |-> flow[f].slug,
                                      password |-> flow[f].password, key |-> k]}
  /\ Finish(f, "served")
  /\ UNCHANGED <<slugOf, owner, active, expired, request, backofficeVars, faults>>

\* 201 with the tenant and the plaintext of its key.
AnswerSignup(f) ==
  /\ InFlow(f, "answer")
  /\ held' = held \cup {flow[f].key}
  /\ signedUp' = signedUp \cup {[email |-> flow[f].email, slug |-> flow[f].slug,
                                 password |-> flow[f].password, key |-> flow[f].key]}
  /\ Finish(f, "served")
  /\ UNCHANGED <<slugOf, owner, active, expired, request, backofficeVars, faults>>

\* A statement fails: a signup is answered with an error, or goes on without
\* its admin, whose password is lost; an instance logs it and starts to serve.
StatementFails(f) ==
  /\ flow[f].step \in {"tenant", "existing", "key", "user"}
  /\ faults < MaxFaults /\ faults' = faults + 1
  /\ \/ /\ f \in Signups /\ InFlow(f, "user") /\ UNCHANGED up
        /\ flow' = [flow EXCEPT ![f].step = "answer", ![f].password = NoPassword]
     \/ ~(f \in Signups /\ InFlow(f, "user")) /\ Finish(f, "failed")
  /\ UNCHANGED <<tenantVars, backofficeVars, signedUp>>

\* The process dies: its supervisor starts it, and bootstrap, again.
Crash(f) ==
  /\ flow[f] # Done
  /\ faults < MaxFaults /\ faults' = faults + 1
  /\ Finish(f, "starting")
  /\ UNCHANGED <<tenantVars, backofficeVars, signedUp>>

\* A deployment restarts an instance that serves.
Restart(i) ==
  /\ up[i] # "starting"
  /\ faults < MaxFaults /\ faults' = faults + 1
  /\ up' = [up EXCEPT ![i] = "starting"]
  /\ UNCHANGED <<tenantVars, backofficeVars, flow, signedUp>>

FlowStep(f) ==
  \/ CreateTenant(f) \/ FindExisting(f) \/ CreateInitialKey(f)
  \/ CreateSignupAdmin(f) \/ CreateBootAdmin(f) \/ AnswerSignup(f)

Next ==
  \/ \E f \in Flows : \/ BeginSignup(f) \/ BeginBootstrap(f) \/ FlowStep(f)
                      \/ StatementFails(f) \/ Crash(f)
  \/ \E i \in Instances : Restart(i)
  \/ TenantsNext /\ UNCHANGED <<backofficeVars, onboardingVars>>
  \/ BackofficeStep /\ UNCHANGED <<tenantVars, onboardingVars>>

Spec == Init /\ [][Next]_vars

\* Instances are started and run; handlers that were called finish.
Fairness ==
  /\ \A f \in Flows : WF_vars(FlowStep(f))
  /\ \A i \in Instances : WF_vars(BeginBootstrap(i))
LiveSpec == Spec /\ Fairness

(***************************************************************************)
(* Properties.                                                             *)
(***************************************************************************)
Flow == [step : Steps \cup {"done"}, email : Emails, slug : Slugs,
         password : Passwords \cup {Weak, NoPassword}, key : Keys \cup {NoKey}]
Answer == [email : Emails, slug : Slugs, password : Passwords \cup {Weak, NoPassword},
           key : Keys]

TypeOK ==
  /\ TenantsTypeOK /\ BackofficeTypeOK
  /\ flow \in [Flows -> Flow]
  /\ signedUp \subseteq Answer
  /\ up \in [Instances -> {"starting", "bootstrapped", "refused", "failed"}]
  /\ faults \in Nat

\* What a 201 of POST /v1/signup can be relied on for, whatever ran next to it
\* and for ever after: the tenant has the slug asked for, the key shown is that
\* tenant's, and its admin exists if a password was given that validatePassword
\* accepts and no statement of CreateUser failed.  openapi.yaml:1300-1304 says
\* more, that a password of 8 characters "automatically creates an admin
\* backoffice user": tenant/handler.go:90-99 answers 201 without one when
\* CreateUser refuses the password, or fails.  tenant/service.go:29 says "in a
\* single operation": without a 201 there may be a tenant that has no key.
SignupAnswersAreTrue ==
  \A a \in signedUp :
    /\ slugOf[a.email] = a.slug /\ owner[a.key] = a.email
    /\ a.password \in Passwords => UserExists(Admin(a.email))

\* The first user of a tenant is its admin, by signup or by bootstrap, and a
\* tenant that has users keeps the row of that admin.
FirstUserIsAdmin ==
  \A u \in Users : UserExists(u) =>
    UserExists(Admin(u.tenant)) /\ user[Admin(u.tenant)].role = "admin"

\* BOOTSTRAP_FEATURE.md:65, bootstrap is idempotent: an instance that ends it
\* without an error leaves tenant and admin behind, restarted, run twice or
\* met by a signup as it may be; and only a password that is not accepted or a
\* slug that is another tenant's keeps it from that.
BootstrapOutcome ==
  \A i \in Instances :
    /\ up[i] = "bootstrapped" => TenantExists(BootEmail) /\ UserExists(Admin(BootEmail))
    /\ up[i] = "refused" =>
         BootPassword = Weak \/ \E e \in Emails \ {BootEmail} : slugOf[e] = BootSlug

\* A user that was given a generated password has no token, and keeps that
\* password: it is shown to nobody, so nobody can log in or replace it.
TemporaryIsFinal ==
  [][\A u \in Users : UserExists(u) /\ user[u].password = Temporary =>
       /\ user'[u].password = Temporary
       /\ \A t \in tokens' : t.user # u]_vars

\* Every instance that starts gets to serve, if faults stop; a bound, Keys,
\* may be used up first.
InstancesStart ==
  \A i \in Instances : up[i] = "starting" ~> (up[i] # "starting" \/ Fresh(BootEmail) = {})
=============================================================================
