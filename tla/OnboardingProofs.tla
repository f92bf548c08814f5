-------------------------- MODULE OnboardingProofs --------------------------
(***************************************************************************)
(* What tenants, users and operators may rely on, proved for any number of *)
(* tenants, keys, users, requests, signups and instances, any prefixes and *)
(* any number of failures and restarts.                                    *)
(***************************************************************************)
EXTENDS Onboarding, TLAPS

(***************************************************************************)
(* The inductive invariant.                                                *)
(***************************************************************************)

\* Keys belong to tenants that exist; the active ones and those somebody knows
\* are stored; no two keys of one tenant look alike to the table.
TableInv ==
  /\ \A k \in Keys : Stored(k) => TenantExists(owner[k])
  /\ \A k \in active \cup held : Stored(k)
  /\ \A j, k \in Keys :
       Stored(k) /\ owner[j] = owner[k] /\ PrefixOf[j] = PrefixOf[k] => j = k

\* A request carries a key that was given out.
RequestInv ==
  /\ \A c \in Clients : request[c] # Idle => request[c].key \in held
  /\ ServedAsOwner

TenantsInv == TenantsTypeOK /\ TableInv /\ RequestInv

\* A token is that of a user whose password somebody knows; so is a password
\* change under way.
LoginInv ==
  /\ \A t \in tokens : UserExists(t.user) /\ user[t.user].password # Temporary
  /\ \A w \in Workers : task[w] # NoTask =>
       /\ UserExists(task[w].user)
       /\ task[w].do = "password" => user[task[w].user].password # Temporary

UsersInv == BackofficeTypeOK /\ LoginInv /\ FirstUserIsAdmin

SlugTaken == \E e \in Emails \ {BootEmail} : slugOf[e] = BootSlug

\* What a signup or a bootstrap has done, by the statement it is at.
Progress(f) ==
  /\ InFlow(f, "key") \/ InFlow(f, "answer") \/ (f \in Signups /\ InFlow(f, "user")) =>
       slugOf[flow[f].email] = flow[f].slug
  /\ InFlow(f, "answer") \/ (f \in Signups /\ InFlow(f, "user")) =>
       flow[f].key \in Keys /\ owner[flow[f].key] = flow[f].email
  /\ InFlow(f, "answer") /\ flow[f].password \in Passwords => UserExists(Admin(flow[f].email))
  /\ f \in Signups => ~InFlow(f, "existing")
  /\ f \in Instances => ~InFlow(f, "answer")
  /\ f \in Instances /\ ~InFlow(f, "done") =>
       flow[f].email = BootEmail /\ flow[f].slug = BootSlug /\ flow[f].password = BootPassword
  /\ f \in Instances /\ InFlow(f, "user") => TenantExists(BootEmail)
  /\ f \in Instances /\ InFlow(f, "existing") => TenantExists(BootEmail) \/ SlugTaken

FlowTypeOK ==
  /\ flow \in [Flows -> Flow]
  /\ signedUp \subseteq Answer
  /\ up \in [Instances -> {"starting", "bootstrapped", "refused", "failed"}]
  /\ faults \in Nat

FlowsInv ==
  /\ FlowTypeOK
  /\ \A f \in Flows : Progress(f)
  /\ SignupAnswersAreTrue /\ BootstrapOutcome

OInv == TenantsInv /\ UsersInv /\ FlowsInv

(***************************************************************************)
(* Rows that are there stay.                                               *)
(***************************************************************************)

\* A tenant keeps its slug and a key its tenant: no statement deletes either.
TenantsKept ==
  /\ \A e \in Emails : TenantExists(e) => slugOf'[e] = slugOf[e]
  /\ \A k \in Keys : Stored(k) => owner'[k] = owner[k]

\* A user stays, with its role.
UsersKept == \A u \in Users : UserExists(u) => UserExists(u)' /\ user'[u].role = user[u].role

\* What Signup stored is what its caller was told, whatever is stored next.
LEMMA AnswersKept ==
  ASSUME FlowTypeOK, SignupAnswersAreTrue, TenantsKept, UsersKept, UNCHANGED signedUp
  PROVE  SignupAnswersAreTrue'
<1> SUFFICES ASSUME NEW a \in signedUp
             PROVE  /\ slugOf'[a.email] = a.slug /\ owner'[a.key] = a.email
                    /\ a.password \in Passwords => UserExists(Admin(a.email))'
  BY DEF SignupAnswersAreTrue
<1>1. /\ a.email \in Emails /\ a.slug \in Slugs /\ a.key \in Keys
      /\ slugOf[a.email] = a.slug /\ owner[a.key] = a.email
      /\ a.password \in Passwords => UserExists(Admin(a.email))
  BY DEF FlowTypeOK, SignupAnswersAreTrue, Answer
<1>2. slugOf'[a.email] = a.slug /\ owner'[a.key] = a.email
  BY <1>1, TenantsAssumption DEF TenantsKept, TenantExists, Stored
<1>3. Admin(a.email) \in Users
  BY <1>1, OnboardingAssumption DEF Admin
<1> QED
  BY <1>1, <1>2, <1>3 DEF UsersKept

\* What bootstrapTenant found or made stays.
LEMMA OutcomeKept ==
  ASSUME BootstrapOutcome, TenantsKept, UsersKept,
         \A i \in Instances : up'[i] = up[i] \/ up'[i] \notin {"bootstrapped", "refused"}
  PROVE  BootstrapOutcome'
BY TenantsAssumption, OnboardingAssumption
   DEF BootstrapOutcome, TenantsKept, UsersKept, TenantExists, Admin

\* So does what a signup or a bootstrap has done so far.
LEMMA ProgressKept ==
  ASSUME FlowTypeOK, TenantsKept, UsersKept, NEW f \in Flows, Progress(f), flow'[f] = flow[f]
  PROVE  Progress(f)'
<1>1. flow[f] \in Flow
  BY DEF FlowTypeOK
<1>2. slugOf[flow[f].email] = flow[f].slug => slugOf'[flow[f].email] = flow[f].slug
  BY <1>1, TenantsAssumption DEF Flow, TenantsKept, TenantExists
<1>3. flow[f].key \in Keys /\ owner[flow[f].key] = flow[f].email => owner'[flow[f].key] = flow[f].email
  BY <1>1, TenantsAssumption DEF Flow, TenantsKept, Stored
<1>4. TenantExists(BootEmail) => TenantExists(BootEmail)'
  BY OnboardingAssumption DEF TenantsKept, TenantExists
<1>5. SlugTaken => SlugTaken'
  BY TenantsAssumption, OnboardingAssumption DEF SlugTaken, TenantsKept, TenantExists
<1>6. UserExists(Admin(flow[f].email)) => UserExists(Admin(flow[f].email))'
  <2>1. Admin(flow[f].email) \in Users /\ Admin(flow[f].email)' = Admin(flow[f].email)
    BY <1>1, OnboardingAssumption DEF Flow, Admin
  <2> QED
    BY <2>1 DEF UsersKept, UserExists
<1> QED
  BY <1>1, <1>2, <1>3, <1>4, <1>5, <1>6 DEF Progress, InFlow

\* Requests go on in the name of their tenant.
LEMMA RequestsKept ==
  ASSUME TenantsInv, TenantsKept, held \subseteq held',
         \A c \in Clients : request'[c] = request[c] \/ request'[c] = Idle
  PROVE  RequestInv'
<1> SUFFICES ASSUME NEW c \in Clients, request'[c] # Idle
             PROVE  /\ request'[c].key \in held'
                    /\ request'[c].step = "serve" =>
                         /\ request'[c].tenant = owner'[request'[c].key]
                         /\ slugOf'[request'[c].tenant] # NoTenant
  BY DEF RequestInv, ServedAsOwner, At, TenantExists
<1>1. request'[c] = request[c] /\ request[c] \in Request
  BY DEF TenantsInv, TenantsTypeOK
<1>2. request[c].key \in held /\ request[c].key \in Keys /\ Stored(request[c].key)
  BY <1>1 DEF TenantsInv, RequestInv, TableInv, Request
<1>3. request[c].step = "serve" =>
        request[c].tenant = owner[request[c].key] /\ TenantExists(request[c].tenant)
  BY <1>1 DEF TenantsInv, RequestInv, ServedAsOwner, At
<1>4. owner[request[c].key] \in Emails
  BY <1>2 DEF TenantsInv, TenantsTypeOK, Stored
<1> QED
  BY <1>1, <1>2, <1>3, <1>4 DEF TenantsKept, TenantExists

(***************************************************************************)
(* Keys.                                                                   *)
(***************************************************************************)

\* CreateAPIKey adds a key that no other of the tenant looks like.
LEMMA InsertKeyStep ==
  ASSUME TenantsTypeOK, TableInv, NEW e \in Emails, TenantExists(e), NEW k \in Keys,
         InsertKey(e, k), UNCHANGED slugOf, held' \subseteq held \cup {k}
  PROVE  TableInv' /\ TenantsKept /\ owner' \in [Keys -> Emails \cup {NoTenant}]
         /\ active' \subseteq Keys /\ held' \subseteq Keys /\ owner'[k] = e
<1>1. /\ ~Stored(k) /\ \A j \in Keys : owner[j] = e => PrefixOf[j] # PrefixOf[k]
      /\ owner' = [owner EXCEPT ![k] = e] /\ active' = active \cup {k}
  BY DEF InsertKey, Fresh
<1>2. /\ owner'[k] = e /\ e # NoTenant
      /\ \A j \in Keys : j # k => owner'[j] = owner[j]
      /\ owner' \in [Keys -> Emails \cup {NoTenant}]
  BY <1>1, TenantsAssumption DEF TenantsTypeOK
<1>3. TenantsKept
  BY <1>1, <1>2 DEF TenantsKept, Stored
<1>4. \A j \in Keys : Stored(j)' => TenantExists(owner[j])'
  BY <1>2 DEF TableInv, Stored, TenantExists
<1>5. \A j \in (active \cup held)' : Stored(j)'
  BY <1>1, <1>2 DEF TableInv, Stored, TenantsTypeOK
<1>6. \A i, j \in Keys :
        Stored(j)' /\ owner'[i] = owner'[j] /\ PrefixOf[i] = PrefixOf[j] => i = j
  BY <1>1, <1>2 DEF TableInv, Stored
<1> QED
  BY <1>1, <1>2, <1>3, <1>4, <1>5, <1>6 DEF TableInv, TenantsTypeOK

\* Whatever rows its prefix finds, a key is served as its own tenant only.
LEMMA AuthenticateStep ==
  ASSUME TenantsInv, NEW c \in Clients, Authenticate(c)
  PROVE  TenantsInv' /\ TenantsKept
<1>1. UNCHANGED <<slugOf, owner, active, expired, held>>
  BY DEF Authenticate
<1>2. /\ request[c] \in Request /\ request[c] # Idle
      /\ request[c].key \in held /\ request[c].key \in Keys
  BY DEF Authenticate, At, TenantsInv, TenantsTypeOK, RequestInv, Request
<1>3. PICK s \in {"serve", "refused"}, t \in Emails \cup {NoTenant} :
        /\ request' = [request EXCEPT ![c] = [step |-> s, key |-> request[c].key, tenant |-> t]]
        /\ s = "serve" => t = owner[request[c].key] /\ Stored(request[c].key)
  <2>1. CASE \E row \in Candidates(request[c].key) :
               /\ Verified(request[c].key, row)
               /\ request' = [request EXCEPT ![c] =
                     [step |-> "serve", key |-> request[c].key, tenant |-> owner[row]]]
    <3>1. PICK row \in active :
            /\ row = request[c].key
            /\ request' = [request EXCEPT ![c] =
                  [step |-> "serve", key |-> request[c].key, tenant |-> owner[row]]]
      BY <2>1 DEF Candidates, Verified
    <3>2. Stored(row) /\ owner[row] \in Emails \cup {NoTenant}
      BY <1>2, <3>1 DEF TenantsInv, TableInv, TenantsTypeOK
    <3> QED
      BY <3>1, <3>2
  <2>2. CASE request' = [request EXCEPT ![c] =
               [step |-> "refused", key |-> request[c].key, tenant |-> NoTenant]]
    BY <2>2
  <2> QED
    BY <2>1, <2>2 DEF Authenticate
<1> DEFINE new == [step |-> s, key |-> request[c].key, tenant |-> t]
<1>4. new \in Request /\ new.key = request[c].key /\ new.step = s /\ new.tenant = t
  BY <1>2 DEF Request
<1>5. request'[c] = new /\ \A d \in Clients : d # c => request'[d] = request[d]
  BY <1>3 DEF TenantsInv, TenantsTypeOK
<1> HIDE DEF new
<1>6. TenantsTypeOK'
  BY <1>1, <1>3, <1>4 DEF TenantsInv, TenantsTypeOK, new
<1>7. s = "serve" => TenantExists(t)
  BY <1>2, <1>3 DEF TenantsInv, TableInv
<1>8. ServedAsOwner'
  BY <1>1, <1>3, <1>4, <1>5, <1>7 DEF TenantsInv, RequestInv, ServedAsOwner, At, TenantExists
<1>9. \A d \in Clients : request'[d] # Idle => request'[d].key \in held'
  BY <1>1, <1>2, <1>4, <1>5 DEF TenantsInv, RequestInv
<1>10. TableInv' /\ TenantsKept
  BY <1>1 DEF TenantsInv, TableInv, TenantsKept, Stored, TenantExists
<1> QED
  BY <1>6, <1>8, <1>9, <1>10 DEF TenantsInv, RequestInv

\* Every step of a caller of the API, or of a key's clock.
LEMMA TenantsStep ==
  ASSUME TenantsInv, TenantsNext
  PROVE  TenantsInv' /\ TenantsKept
<1>1. ASSUME NEW c \in Clients, SendRequest(c)
      PROVE  TenantsInv' /\ TenantsKept
  <2>1. PICK k \in held :
          request' = [request EXCEPT ![c] = [step |-> "lookup", key |-> k, tenant |-> NoTenant]]
    BY <1>1 DEF SendRequest
  <2>2. UNCHANGED <<slugOf, owner, active, expired, held>>
    BY <1>1 DEF SendRequest
  <2> DEFINE new == [step |-> "lookup", key |-> k, tenant |-> NoTenant]
  <2>3. new \in Request /\ new.key = k /\ new.step = "lookup"
    BY DEF TenantsInv, TenantsTypeOK, Request
  <2>4. request'[c] = new /\ \A d \in Clients : d # c => request'[d] = request[d]
    BY <2>1 DEF TenantsInv, TenantsTypeOK
  <2> HIDE DEF new
  <2>5. TenantsTypeOK'
    BY <2>1, <2>2, <2>3 DEF TenantsInv, TenantsTypeOK, new
  <2>6. RequestInv'
    BY <2>2, <2>3, <2>4 DEF TenantsInv, RequestInv, ServedAsOwner, At, TenantExists
  <2>7. TableInv' /\ TenantsKept
    BY <2>2 DEF TenantsInv, TableInv, TenantsKept, Stored, TenantExists
  <2> QED
    BY <2>5, <2>6, <2>7 DEF TenantsInv
<1>2. ASSUME NEW c \in Clients, CreateKey(c) \/ LoseKey(c)
      PROVE  TenantsInv' /\ TenantsKept
  <2>1. PICK k \in Keys : InsertKey(request[c].tenant, k) /\ held' \in {held, held \cup {k}}
    BY <1>2 DEF CreateKey, LoseKey
  <2>2. /\ At(c, "serve") /\ UNCHANGED <<slugOf, expired>>
        /\ request' = [request EXCEPT ![c] = Idle]
    BY <1>2 DEF CreateKey, LoseKey
  <2>3. request[c].tenant \in Emails /\ TenantExists(request[c].tenant)
    <3>1. TenantExists(request[c].tenant) /\ request[c].tenant = owner[request[c].key]
      BY <2>2 DEF TenantsInv, RequestInv, ServedAsOwner
    <3>2. request[c].key \in Keys /\ Stored(request[c].key)
      BY <2>2 DEF TenantsInv, RequestInv, TableInv, TenantsTypeOK, At
    <3> QED
      BY <3>1, <3>2 DEF TenantsInv, TenantsTypeOK, Stored
  <2>4. /\ TableInv' /\ TenantsKept /\ owner' \in [Keys -> Emails \cup {NoTenant}]
        /\ active' \subseteq Keys /\ held' \subseteq Keys
    BY <2>1, <2>2, <2>3, InsertKeyStep DEF TenantsInv
  <2>5. TenantsTypeOK'
    BY <2>2, <2>4 DEF TenantsInv, TenantsTypeOK
  <2>6. RequestInv'
    BY <2>1, <2>2, <2>4, RequestsKept DEF TenantsInv, TenantsTypeOK
  <2> QED
    BY <2>4, <2>5, <2>6 DEF TenantsInv
<1>3. ASSUME NEW c \in Clients, RevokeKey(c) \/ EndRequest(c)
      PROVE  TenantsInv' /\ TenantsKept
  <2>1. /\ active' \subseteq active /\ UNCHANGED <<slugOf, owner, expired, held>>
        /\ request' = [request EXCEPT ![c] = Idle]
    BY <1>3 DEF RevokeKey, EndRequest
  <2>2. TableInv' /\ TenantsKept
    BY <2>1 DEF TenantsInv, TableInv, TenantsKept, Stored, TenantExists
  <2>3. TenantsTypeOK'
    BY <2>1 DEF TenantsInv, TenantsTypeOK
  <2>4. RequestInv'
    BY <2>1, <2>2, RequestsKept DEF TenantsInv, TenantsTypeOK
  <2> QED
    BY <2>2, <2>3, <2>4 DEF TenantsInv
<1>4. ASSUME NEW k \in Keys, KeyExpires(k)
      PROVE  TenantsInv' /\ TenantsKept
  <2>1. UNCHANGED <<slugOf, owner, active, held, request>> /\ expired' = expired \cup {k}
    BY <1>4 DEF KeyExpires
  <2>2. TableInv' /\ TenantsKept
    BY <2>1 DEF TenantsInv, TableInv, TenantsKept, Stored, TenantExists
  <2>3. RequestInv'
    BY <2>1, <2>2, RequestsKept
  <2> QED
    BY <2>1, <2>2, <2>3 DEF TenantsInv, TenantsTypeOK
<1> QED
  BY <1>1, <1>2, <1>3, <1>4, AuthenticateStep DEF TenantsNext, ClientStep

(***************************************************************************)
(* Users.                                                                  *)
(***************************************************************************)

\* A row of backoffice_users.
UserRecord == [password : Passwords \cup {Temporary}, role : Role,
               mustChange : BOOLEAN, active : BOOLEAN]

\* The columns of a new row, and that no row is the absent one.
LEMMA NewRow ==
  ASSUME NEW p \in Passwords \cup {Temporary}, NEW role \in Role
  PROVE  /\ UserRow(p, role) \in UserRecord
         /\ UserRow(p, role).password = p /\ UserRow(p, role).role = role
         /\ NoUser \notin UserRecord
BY BackofficeAssumption DEF UserRow, UserRecord, Role

\* A statement that inserts a row where there was none, or changes a row but
\* not its role, and never to a temporary password.
LEMMA UserWritten ==
  ASSUME UsersInv, NEW u \in Users, NEW row \in UserRecord,
         user' = [user EXCEPT ![u] = row],
         UserExists(u) => row.role = user[u].role /\
                          (user[u].password # Temporary => row.password # Temporary),
         ~UserExists(u) => \/ u = Admin(u.tenant) /\ row.role = "admin"
                           \/ \E t \in tokens : t.user.tenant = u.tenant
  PROVE  /\ user' \in [Users -> UserRecord \cup {NoUser}]
         /\ UsersKept /\ FirstUserIsAdmin'
         /\ \A v \in Users : UserExists(v) /\ user[v].password # Temporary =>
              UserExists(v)' /\ user'[v].password # Temporary
<1>1. /\ user \in [Users -> UserRecord \cup {NoUser}] /\ row # NoUser
      /\ user'[u] = row /\ \A v \in Users : v # u => user'[v] = user[v]
      /\ user' \in [Users -> UserRecord \cup {NoUser}]
  BY BackofficeAssumption DEF UsersInv, BackofficeTypeOK, UserRecord, Role
<1>2. UsersKept
  BY <1>1 DEF UsersKept, UserExists
<1>3. \A v \in Users : UserExists(v) /\ user[v].password # Temporary =>
        UserExists(v)' /\ user'[v].password # Temporary
  BY <1>1 DEF UserExists
<1>4. ASSUME NEW v \in Users, UserExists(v)'
      PROVE  (UserExists(Admin(v.tenant)) /\ user[Admin(v.tenant)].role = "admin")'
  <2>1. Admin(v.tenant) \in Users
    BY OnboardingAssumption DEF Admin
  <2>2. CASE UserExists(v)
    BY <1>2, <2>1, <2>2 DEF UsersInv, FirstUserIsAdmin, UsersKept
  <2>3. CASE ~UserExists(v)
    <3>1. v = u
      BY <1>1, <1>4, <2>3 DEF UserExists
    <3>2. CASE u = Admin(u.tenant) /\ row.role = "admin"
      BY <1>1, <1>4, <3>1, <3>2 DEF UserExists
    <3>3. CASE \E t \in tokens : t.user.tenant = u.tenant
      <4>1. PICK t \in tokens : t.user.tenant = u.tenant /\ t.user \in Users /\ UserExists(t.user)
        BY <3>3 DEF UsersInv, LoginInv, BackofficeTypeOK
      <4> QED
        BY <1>2, <2>1, <3>1, <4>1 DEF UsersInv, FirstUserIsAdmin, UsersKept
    <3> QED
      BY <2>3, <3>1, <3>2, <3>3
  <2> QED
    BY <2>2, <2>3
<1>5. FirstUserIsAdmin'
  BY <1>4 DEF FirstUserIsAdmin
<1> QED
  BY <1>1, <1>2, <1>3, <1>5

\* Tokens and tasks that are there keep their user and its known password.
LEMMA LoginKept ==
  ASSUME UsersInv, tokens' \subseteq tokens,
         \A w \in Workers : task'[w] = task[w] \/ task'[w] = NoTask,
         \A v \in Users : UserExists(v) => UserExists(v)',
         \A v \in Users : UserExists(v) /\ user[v].password # Temporary =>
           UserExists(v)' /\ user'[v].password # Temporary
  PROVE  LoginInv'
<1>1. \A t \in tokens : t.user \in Users
  BY DEF UsersInv, BackofficeTypeOK
<1>2. \A w \in Workers : task[w] # NoTask => task[w].user \in Users
  BY DEF UsersInv, BackofficeTypeOK
<1>3. \A t \in tokens' : (UserExists(t.user) /\ user[t.user].password # Temporary)'
  BY <1>1 DEF UsersInv, LoginInv
<1>4. ASSUME NEW w \in Workers, task'[w] # NoTask
      PROVE  /\ UserExists(task[w].user)'
             /\ task'[w].do = "password" => user'[task'[w].user].password # Temporary
  BY <1>2, <1>4 DEF UsersInv, LoginInv, UserExists
<1> QED
  BY <1>3, <1>4 DEF LoginInv

\* The steps of the handlers of /v1/backoffice.
LEMMA BackofficeInv ==
  ASSUME UsersInv, BackofficeStep
  PROVE  UsersInv' /\ UsersKept
<1>1. ASSUME NEW u \in Users, Login(u)
      PROVE  UsersInv' /\ UsersKept
  <2>1. /\ UserExists(u) /\ user[u].password \in Passwords
        /\ tokens' = tokens \cup {Token(u)} /\ UNCHANGED <<user, task>>
    BY <1>1 DEF Login, MayLogIn
  <2>2. user[u].password # Temporary /\ user[u].role \in Role
    BY <2>1, BackofficeAssumption DEF UsersInv, BackofficeTypeOK, UserExists
  <2>3. BackofficeTypeOK'
    BY <2>1, <2>2 DEF UsersInv, BackofficeTypeOK, Token
  <2>4. LoginInv'
    BY <2>1, <2>2 DEF UsersInv, LoginInv, Token, UserExists
  <2> QED
    BY <2>1, <2>3, <2>4 DEF UsersInv, FirstUserIsAdmin, UsersKept, UserExists
<1>2. ASSUME NEW u \in Users, CreateUser(u)
      PROVE  UsersInv' /\ UsersKept
  <2>1. PICK p \in Passwords, role \in Role : user' = [user EXCEPT ![u] = UserRow(p, role)]
    BY <1>2 DEF CreateUser
  <2>2. ~UserExists(u) /\ (\E t \in tokens : t.user.tenant = u.tenant) /\ UNCHANGED <<tokens, task>>
    BY <1>2 DEF CreateUser, Creatable, Admins
  <2>3. /\ user' \in [Users -> UserRecord \cup {NoUser}]
        /\ UsersKept /\ FirstUserIsAdmin' /\ LoginInv'
    BY <2>1, <2>2, NewRow, UserWritten, LoginKept DEF UsersKept
  <2> QED
    BY <2>2, <2>3 DEF UsersInv, BackofficeTypeOK, UserRecord
<1>3. ASSUME NEW u \in Users, NEW w \in Workers, InviteUser(w, u)
      PROVE  UsersInv' /\ UsersKept
  <2>1. PICK role \in Role : user' = [user EXCEPT ![u] = UserRow(Temporary, role)]
    BY <1>3 DEF InviteUser
  <2>2. /\ ~UserExists(u) /\ (\E t \in tokens : t.user.tenant = u.tenant) /\ UNCHANGED tokens
        /\ task' = [task EXCEPT ![w] = [do |-> "flag", user |-> u]]
    BY <1>3 DEF InviteUser, Creatable, Admins
  <2>3. /\ user' \in [Users -> UserRecord \cup {NoUser}]
        /\ UsersKept /\ FirstUserIsAdmin'
        /\ \A v \in Users : UserExists(v) /\ user[v].password # Temporary =>
             UserExists(v)' /\ user'[v].password # Temporary
    BY <2>1, <2>2, NewRow, UserWritten
  <2>4. UserExists(u)'
    BY <2>1, NewRow DEF UserExists, UsersInv, BackofficeTypeOK
  <2>5. BackofficeTypeOK'
    BY <2>2, <2>3 DEF UsersInv, BackofficeTypeOK, UserRecord
  <2>6. LoginInv'
    <3>1. \A t \in tokens' : (UserExists(t.user) /\ user[t.user].password # Temporary)'
      BY <2>2, <2>3 DEF UsersInv, LoginInv, BackofficeTypeOK
    <3>2. ASSUME NEW x \in Workers, task'[x] # NoTask
          PROVE  /\ UserExists(task[x].user)'
                 /\ task'[x].do = "password" => user'[task'[x].user].password # Temporary
      <4>1. CASE x = w
        BY <2>2, <2>4, <4>1 DEF UsersInv, BackofficeTypeOK, UserExists
      <4>2. CASE x # w
        <5>1. task'[x] = task[x] /\ task[x].user \in Users
          BY <2>2, <3>2, <4>2 DEF UsersInv, BackofficeTypeOK
        <5> QED
          BY <2>3, <3>2, <5>1 DEF UsersInv, LoginInv, UsersKept, UserExists
      <4> QED
        BY <4>1, <4>2
    <3> QED
      BY <3>1, <3>2 DEF LoginInv
  <2> QED
    BY <2>3, <2>5, <2>6 DEF UsersInv
<1>4. ASSUME NEW u \in Users, DeactivateUser(u)
      PROVE  UsersInv' /\ UsersKept
  <2> DEFINE row == [user[u] EXCEPT !.active = FALSE]
  <2>1. /\ UserExists(u) /\ user' = [user EXCEPT ![u] = row] /\ UNCHANGED <<tokens, task>>
    BY <1>4 DEF DeactivateUser
  <2>2. row \in UserRecord /\ row.role = user[u].role /\ row.password = user[u].password
    BY <2>1 DEF UsersInv, BackofficeTypeOK, UserRecord, UserExists
  <2> HIDE DEF row
  <2>3. /\ user' \in [Users -> UserRecord \cup {NoUser}]
        /\ UsersKept /\ FirstUserIsAdmin' /\ LoginInv'
    BY <2>1, <2>2, UserWritten, LoginKept DEF UsersKept
  <2> QED
    BY <2>1, <2>3 DEF UsersInv, BackofficeTypeOK, UserRecord
<1>5. ASSUME NEW w \in Workers, FlagMustChange(w) \/ WritePassword(w)
      PROVE  UsersInv' /\ UsersKept
  <2> DEFINE u == task[w].user
  <2>1. /\ task[w] # NoTask /\ u \in Users /\ UserExists(u) /\ user[u] \in UserRecord
        /\ task' = [task EXCEPT ![w] = NoTask] /\ UNCHANGED tokens
    BY <1>5 DEF FlagMustChange, WritePassword, UsersInv, LoginInv, BackofficeTypeOK,
                UserRecord, UserExists
  <2>2. PICK row \in UserRecord :
          /\ user' = [user EXCEPT ![u] = row] /\ row.role = user[u].role
          /\ user[u].password # Temporary => row.password # Temporary
    <3>1. CASE FlagMustChange(w)
      <4> DEFINE r == [user[u] EXCEPT !.mustChange = TRUE]
      <4>1. user' = [user EXCEPT ![u] = r]
        BY <3>1 DEF FlagMustChange
      <4>2. r \in UserRecord /\ r.role = user[u].role /\ r.password = user[u].password
        BY <2>1 DEF UserRecord
      <4> QED
        BY <4>1, <4>2
    <3>2. CASE WritePassword(w)
      <4> DEFINE r == [user[u] EXCEPT !.password = task[w].new, !.mustChange = FALSE]
      <4>1. user' = [user EXCEPT ![u] = r] /\ task[w].do = "password"
        BY <3>2 DEF WritePassword, UsersInv, BackofficeTypeOK
      <4>2. task[w].new \in Passwords /\ task[w].new # Temporary
        BY <2>1, <4>1, BackofficeAssumption DEF UsersInv, BackofficeTypeOK
      <4>3. r \in UserRecord /\ r.role = user[u].role /\ r.password = task[w].new
        BY <2>1, <4>2 DEF UserRecord
      <4> QED
        BY <4>1, <4>2, <4>3
    <3> QED
      BY <1>5, <3>1, <3>2
  <2>3. \A x \in Workers : task'[x] = task[x] \/ task'[x] = NoTask
    BY <2>1 DEF UsersInv, BackofficeTypeOK
  <2> HIDE DEF u
  <2>4. /\ user' \in [Users -> UserRecord \cup {NoUser}]
        /\ UsersKept /\ FirstUserIsAdmin' /\ LoginInv'
    BY <2>1, <2>2, <2>3, UserWritten, LoginKept DEF UsersKept
  <2> QED
    BY <2>1, <2>4 DEF UsersInv, BackofficeTypeOK, UserRecord
<1>6. ASSUME NEW w \in Workers, NEW t \in tokens, NEW u \in Users, CheckPassword(w, t, u)
      PROVE  UsersInv' /\ UsersKept
  <2>1. PICK new \in Passwords :
          task' = [task EXCEPT ![w] = [do |-> "password", user |-> u, new |-> new]]
    BY <1>6 DEF CheckPassword
  <2>2. UserExists(u) /\ user[u].password \in Passwords /\ UNCHANGED <<user, tokens>>
    BY <1>6 DEF CheckPassword, KnowsPassword
  <2>3. BackofficeTypeOK'
    BY <2>1, <2>2 DEF UsersInv, BackofficeTypeOK
  <2>4. LoginInv'
    BY <2>1, <2>2, BackofficeAssumption DEF UsersInv, LoginInv, BackofficeTypeOK, UserExists
  <2> QED
    BY <2>2, <2>3, <2>4 DEF UsersInv, FirstUserIsAdmin, UsersKept, UserExists
<1>7. ASSUME UNCHANGED user, tokens' \subseteq tokens,
             \/ UNCHANGED task
             \/ \E w \in Workers : task' = [task EXCEPT ![w] = NoTask]
      PROVE  UsersInv' /\ UsersKept
  <2>1. BackofficeTypeOK'
    BY <1>7 DEF UsersInv, BackofficeTypeOK
  <2>2. \A w \in Workers : task'[w] = task[w] \/ task'[w] = NoTask
    BY <1>7 DEF UsersInv, BackofficeTypeOK
  <2>3. LoginInv'
    BY <1>7, <2>2, LoginKept DEF UserExists
  <2> QED
    BY <1>7, <2>1, <2>3 DEF UsersInv, FirstUserIsAdmin, UsersKept, UserExists
<1>8. ASSUME NEW t \in tokens, TokenExpires(t)
      PROVE  UsersInv' /\ UsersKept
  BY <1>7, <1>8 DEF TokenExpires
<1>9. ASSUME NEW w \in Workers, DropTask(w)
      PROVE  UsersInv' /\ UsersKept
  BY <1>7, <1>9 DEF DropTask
<1> QED
  BY <1>1, <1>2, <1>3, <1>4, <1>5, <1>6, <1>8, <1>9 DEF BackofficeStep

(***************************************************************************)
(* Signups and bootstraps.                                                 *)
(***************************************************************************)

\* One flow moves on, the others stay where they are.
LEMMA FlowMoves ==
  ASSUME FlowTypeOK, \A g \in Flows : Progress(g), TenantsKept, UsersKept,
         NEW f \in Flows, NEW x \in Flow, flow' = [flow EXCEPT ![f] = x],
         flow'[f] = x => Progress(f)'
  PROVE  flow' \in [Flows -> Flow] /\ \A g \in Flows : Progress(g)'
<1>1. flow' \in [Flows -> Flow] /\ flow'[f] = x /\ \A g \in Flows : g # f => flow'[g] = flow[g]
  BY DEF FlowTypeOK
<1> QED
  BY <1>1, ProgressKept

\* A flow that is over, however it ended, has nothing left to show.
LEMMA FlowEnds ==
  ASSUME FlowTypeOK, \A g \in Flows : Progress(g), TenantsKept, UsersKept, NEW f \in Flows,
         NEW how \in {"starting", "served", "bootstrapped", "refused", "failed"},
         Finish(f, how), f \in Instances => how # "served"
  PROVE  /\ flow' \in [Flows -> Flow] /\ \A g \in Flows : Progress(g)'
         /\ up' \in [Instances -> {"starting", "bootstrapped", "refused", "failed"}]
         /\ \A i \in Instances : up'[i] = up[i] \/ (i = f /\ up'[i] = how)
<1>1. Done \in Flow /\ Done.step = "done"
  BY OnboardingAssumption DEF Done, Flow, Steps
<1>2. flow' = [flow EXCEPT ![f] = Done]
  BY DEF Finish
<1>3. flow'[f] = Done => Progress(f)'
  BY <1>1 DEF Progress, InFlow
<1>4. flow' \in [Flows -> Flow] /\ \A g \in Flows : Progress(g)'
  BY <1>1, <1>2, <1>3, FlowMoves
<1>5. /\ up' \in [Instances -> {"starting", "bootstrapped", "refused", "failed"}]
      /\ \A i \in Instances : up'[i] = up[i] \/ (i = f /\ up'[i] = how)
  BY DEF Finish, FlowTypeOK
<1> QED
  BY <1>4, <1>5

\* Where no table changes, every row is kept and the tables' invariants too.
LEMMA TablesStand ==
  ASSUME OInv, UNCHANGED <<tenantVars, backofficeVars>>
  PROVE  TenantsInv' /\ UsersInv' /\ TenantsKept /\ UsersKept
BY DEF OInv, TenantsInv, TenantsTypeOK, TableInv, RequestInv, ServedAsOwner, UsersInv,
       BackofficeTypeOK, LoginInv, FirstUserIsAdmin, TenantsKept, UsersKept, Stored,
       TenantExists, UserExists, At, tenantVars, backofficeVars

LEMMA UsersStand ==
  ASSUME OInv, UNCHANGED backofficeVars
  PROVE  UsersInv' /\ UsersKept
BY DEF OInv, UsersInv, BackofficeTypeOK, LoginInv, FirstUserIsAdmin, UsersKept,
       UserExists, backofficeVars

LEMMA TenantsStand ==
  ASSUME OInv, UNCHANGED tenantVars
  PROVE  TenantsInv' /\ TenantsKept
BY DEF OInv, TenantsInv, TenantsTypeOK, TableInv, RequestInv, ServedAsOwner, TenantsKept,
       Stored, TenantExists, At, tenantVars

\* Steps that touch no flow.
LEMMA OthersStep ==
  ASSUME OInv, TenantsKept, UsersKept, UNCHANGED <<flow, signedUp>>, faults' \in Nat,
         up' \in [Instances -> {"starting", "bootstrapped", "refused", "failed"}],
         \A i \in Instances : up'[i] = up[i] \/ up'[i] = "starting"
  PROVE  FlowsInv'
<1>1. FlowTypeOK /\ SignupAnswersAreTrue /\ BootstrapOutcome /\ \A f \in Flows : Progress(f)
  BY DEF OInv, FlowsInv
<1>2. FlowTypeOK'
  BY <1>1 DEF FlowTypeOK
<1>3. \A f \in Flows : Progress(f)'
  BY <1>1, ProgressKept
<1> QED
  BY <1>1, <1>2, <1>3, AnswersKept, OutcomeKept DEF FlowsInv

\* The two ways to begin.
LEMMA BeginStep ==
  ASSUME OInv, NEW f \in Flows, BeginSignup(f) \/ BeginBootstrap(f)
  PROVE  OInv'
<1>1. UNCHANGED <<tenantVars, backofficeVars, signedUp, up, faults>>
  BY DEF BeginSignup, BeginBootstrap
<1>2. TenantsInv' /\ UsersInv' /\ TenantsKept /\ UsersKept
  BY <1>1, TablesStand
<1>3. PICK e \in Emails, s \in Slugs, p \in Passwords \cup {Weak, NoPassword} :
        /\ flow' = [flow EXCEPT ![f] = [step |-> "tenant", email |-> e, slug |-> s,
                                        password |-> p, key |-> NoKey]]
        /\ f \in Instances => e = BootEmail /\ s = BootSlug /\ p = BootPassword
  BY OnboardingAssumption DEF BeginSignup, BeginBootstrap
<1> DEFINE x == [step |-> "tenant", email |-> e, slug |-> s, password |-> p, key |-> NoKey]
<1>4. x \in Flow /\ flow'[f] = x => Progress(f)'
  BY <1>3 DEF Progress, InFlow
<1>5. x \in Flow
  BY DEF Flow, Steps
<1>6. flow' \in [Flows -> Flow] /\ \A g \in Flows : Progress(g)'
  BY <1>2, <1>3, <1>4, <1>5, FlowMoves DEF OInv, FlowsInv
<1>7. FlowTypeOK'
  BY <1>1, <1>6 DEF OInv, FlowsInv, FlowTypeOK
<1> QED
  BY <1>1, <1>2, <1>6, <1>7, AnswersKept, OutcomeKept DEF OInv, FlowsInv

\* The first INSERT makes the tenant with the slug that was asked for; a
\* bootstrap that meets a conflict has found its tenant or another with its slug.
LEMMA CreateTenantStep ==
  ASSUME OInv, NEW f \in Flows, CreateTenant(f)
  PROVE  OInv'
<1> DEFINE e == flow[f].email
           s == flow[f].slug
<1>1. /\ flow[f] \in Flow /\ e \in Emails /\ s \in Slugs /\ InFlow(f, "tenant")
      /\ FlowTypeOK /\ SignupAnswersAreTrue /\ BootstrapOutcome /\ \A g \in Flows : Progress(g)
      /\ UNCHANGED <<owner, active, expired, held, request, signedUp, faults>>
      /\ UNCHANGED backofficeVars
  BY DEF OInv, FlowsInv, FlowTypeOK, Flow, CreateTenant, requestsUnchanged
<1>2. /\ slugOf' \in [Emails -> Slugs \cup {NoTenant}] /\ TenantsKept
      /\ \A d \in Emails : TenantExists(d) => TenantExists(d)'
  BY <1>1 DEF CreateTenant, InsertTenant, Insertable, OInv, TenantsInv, TenantsTypeOK,
              TenantsKept, TenantExists, Stored
<1>3. TenantsTypeOK' /\ TableInv'
  BY <1>1, <1>2 DEF OInv, TenantsInv, TenantsTypeOK, TableInv, Stored
<1>4. RequestInv'
  BY <1>1, <1>2, RequestsKept DEF OInv
<1>5. UsersInv' /\ UsersKept
  BY <1>1, UsersStand
<1>6. CASE InsertTenant(e, s) /\ GoTo(f, "key") /\ UNCHANGED up
  <2> DEFINE x == [flow[f] EXCEPT !.step = "key"]
  <2>1. x \in Flow /\ x.step = "key" /\ x.email = e /\ x.slug = s /\ x.password = flow[f].password
    BY <1>1 DEF Flow, Steps
  <2>2. slugOf'[e] = s /\ flow' = [flow EXCEPT ![f] = x]
    BY <1>1, <1>6 DEF InsertTenant, GoTo, OInv, TenantsInv, TenantsTypeOK
  <2> HIDE DEF x
  <2>3. flow'[f] = x => Progress(f)'
    BY <1>1, <2>1, <2>2 DEF Progress, InFlow
  <2>4. flow' \in [Flows -> Flow] /\ \A g \in Flows : Progress(g)'
    BY <1>1, <1>2, <1>5, <2>1, <2>2, <2>3, FlowMoves
  <2>5. FlowTypeOK'
    BY <1>1, <1>6, <2>4 DEF FlowTypeOK
  <2>6. SignupAnswersAreTrue' /\ BootstrapOutcome'
    BY <1>1, <1>2, <1>5, <1>6, AnswersKept, OutcomeKept
  <2> QED
    BY <1>3, <1>4, <1>5, <2>4, <2>5, <2>6 DEF OInv, TenantsInv, FlowsInv
<1>7. CASE ~Insertable(e, s) /\ f \in Instances /\ GoTo(f, "existing") /\ UNCHANGED <<slugOf, up>>
  <2> DEFINE x == [flow[f] EXCEPT !.step = "existing"]
  <2>1. /\ x \in Flow /\ x.step = "existing" /\ x.email = e /\ x.slug = s
        /\ x.password = flow[f].password
    BY <1>1 DEF Flow, Steps
  <2>2. flow' = [flow EXCEPT ![f] = x]
    BY <1>7 DEF GoTo
  <2>3. f \notin Signups /\ e = BootEmail /\ s = BootSlug /\ flow[f].password = BootPassword
    BY <1>1, <1>7, OnboardingAssumption DEF Progress, InFlow
  <2>4. (TenantExists(BootEmail) \/ SlugTaken)'
    BY <1>1, <1>7, <2>3, TenantsAssumption DEF Insertable, SlugTaken, TenantExists
  <2> HIDE DEF x
  <2>5. flow'[f] = x => Progress(f)'
    BY <2>1, <2>2, <2>3, <2>4 DEF Progress, InFlow
  <2>6. flow' \in [Flows -> Flow] /\ \A g \in Flows : Progress(g)'
    BY <1>1, <1>2, <1>5, <2>1, <2>2, <2>5, FlowMoves
  <2>7. FlowTypeOK'
    BY <1>1, <1>7, <2>6 DEF FlowTypeOK
  <2>8. SignupAnswersAreTrue' /\ BootstrapOutcome'
    BY <1>1, <1>2, <1>5, <1>7, AnswersKept, OutcomeKept
  <2> QED
    BY <1>3, <1>4, <1>5, <2>6, <2>7, <2>8 DEF OInv, TenantsInv, FlowsInv
<1>8. CASE f \in Signups /\ Finish(f, "served")
  <2>1. f \notin Instances
    BY <1>8, OnboardingAssumption
  <2>2. /\ flow' \in [Flows -> Flow] /\ \A g \in Flows : Progress(g)'
        /\ up' \in [Instances -> {"starting", "bootstrapped", "refused", "failed"}]
        /\ \A i \in Instances : up'[i] = up[i]
    BY <1>1, <1>2, <1>5, <1>8, <2>1, FlowEnds
  <2>3. FlowTypeOK'
    BY <1>1, <2>2 DEF FlowTypeOK
  <2>4. SignupAnswersAreTrue' /\ BootstrapOutcome'
    BY <1>1, <1>2, <1>5, <2>2, AnswersKept, OutcomeKept
  <2> QED
    BY <1>3, <1>4, <1>5, <2>2, <2>3, <2>4 DEF OInv, TenantsInv, FlowsInv
<1> QED
  BY <1>6, <1>7, <1>8 DEF CreateTenant

\* The initial key is that of the tenant just made.
LEMMA CreateInitialKeyStep ==
  ASSUME OInv, NEW f \in Flows, CreateInitialKey(f)
  PROVE  OInv'
<1> DEFINE e == flow[f].email
<1>1. /\ flow[f] \in Flow /\ e \in Emails /\ flow[f].slug \in Slugs /\ InFlow(f, "key")
      /\ slugOf[e] = flow[f].slug /\ TenantExists(e)
      /\ FlowTypeOK /\ SignupAnswersAreTrue /\ BootstrapOutcome /\ \A g \in Flows : Progress(g)
      /\ UNCHANGED <<slugOf, expired, held, request, signedUp, up, faults>>
      /\ UNCHANGED backofficeVars
  BY TenantsAssumption DEF OInv, FlowsInv, FlowTypeOK, Flow, CreateInitialKey,
                           requestsUnchanged, Progress, TenantExists
<1>2. PICK k \in Keys :
        /\ InsertKey(e, k)
        /\ flow' = [flow EXCEPT ![f].key = k,
                      ![f].step = IF flow[f].password = NoPassword THEN "answer" ELSE "user"]
  BY DEF CreateInitialKey
<1> DEFINE next == IF flow[f].password = NoPassword THEN "answer" ELSE "user"
<1>3. /\ next \in {"answer", "user"} /\ (next = "answer" => flow[f].password = NoPassword)
      /\ flow' = [flow EXCEPT ![f] = [flow[f] EXCEPT !.key = k, !.step = next]]
  BY <1>1, <1>2 DEF FlowTypeOK, Flow
<1> HIDE DEF next
<1>4. /\ TableInv' /\ TenantsKept /\ owner' \in [Keys -> Emails \cup {NoTenant}]
      /\ active' \subseteq Keys /\ owner'[k] = e
  BY <1>1, <1>2, InsertKeyStep DEF OInv, TenantsInv
<1>5. TenantsTypeOK'
  BY <1>1, <1>4 DEF OInv, TenantsInv, TenantsTypeOK
<1>6. RequestInv'
  BY <1>1, <1>4, RequestsKept DEF OInv
<1>7. UsersInv' /\ UsersKept
  BY <1>1, UsersStand
<1> DEFINE x == [flow[f] EXCEPT !.key = k, !.step = next]
<1>8. /\ x \in Flow /\ x.step = next /\ x.key = k /\ x.email = e /\ x.slug = flow[f].slug
      /\ x.password = flow[f].password
  BY <1>1, <1>3 DEF Flow, Steps
<1>9. f \in Instances => /\ e = BootEmail /\ x.slug = BootSlug /\ x.password = BootPassword
                         /\ next # "answer"
  BY <1>1, <1>3, <1>8, OnboardingAssumption DEF Progress, InFlow
<1>10. slugOf'[e] # NoTenant /\ slugOf'[e] = flow[f].slug
  BY <1>1 DEF TenantExists
<1> HIDE DEF x, e
<1>11. flow'[f] = x => Progress(f)'
  BY <1>3, <1>4, <1>8, <1>9, <1>10, OnboardingAssumption DEF Progress, InFlow, TenantExists
<1>12. flow' \in [Flows -> Flow] /\ \A g \in Flows : Progress(g)'
  BY <1>1, <1>3, <1>4, <1>7, <1>8, <1>11, FlowMoves DEF x
<1>13. FlowTypeOK'
  BY <1>1, <1>12 DEF FlowTypeOK
<1>14. SignupAnswersAreTrue' /\ BootstrapOutcome'
  BY <1>1, <1>4, <1>7, AnswersKept, OutcomeKept
<1> QED
  BY <1>4, <1>5, <1>6, <1>7, <1>12, <1>13, <1>14 DEF OInv, TenantsInv, FlowsInv

\* GetByEmail sends a bootstrap on to its admin, or tells that its slug is
\* another tenant's.
LEMMA FindExistingStep ==
  ASSUME OInv, NEW f \in Flows, FindExisting(f)
  PROVE  OInv'
<1>1. /\ flow[f] \in Flow /\ InFlow(f, "existing") /\ f \in Instances /\ f \notin Signups
      /\ flow[f].email = BootEmail /\ flow[f].slug = BootSlug /\ flow[f].password = BootPassword
      /\ TenantExists(BootEmail) \/ SlugTaken
      /\ FlowTypeOK /\ SignupAnswersAreTrue /\ BootstrapOutcome /\ \A g \in Flows : Progress(g)
      /\ UNCHANGED <<tenantVars, backofficeVars, signedUp, faults>>
  BY DEF OInv, FlowsInv, FlowTypeOK, FindExisting, Progress, InFlow, Flows
<1>2. TenantsInv' /\ UsersInv' /\ TenantsKept /\ UsersKept
  BY <1>1, TablesStand
<1>3. UNCHANGED slugOf
  BY <1>1 DEF tenantVars
<1>4. CASE TenantExists(BootEmail) /\ GoTo(f, "user") /\ UNCHANGED up
  <2> DEFINE x == [flow[f] EXCEPT !.step = "user"]
  <2>1. /\ x \in Flow /\ x.step = "user" /\ x.email = BootEmail /\ x.slug = BootSlug
        /\ x.password = BootPassword
    BY <1>1 DEF Flow, Steps
  <2>2. flow' = [flow EXCEPT ![f] = x]
    BY <1>4 DEF GoTo
  <2> HIDE DEF x
  <2>3. flow'[f] = x => Progress(f)'
    BY <1>1, <1>3, <1>4, <2>1 DEF Progress, InFlow, TenantExists
  <2>4. flow' \in [Flows -> Flow] /\ \A g \in Flows : Progress(g)'
    BY <1>1, <1>2, <2>1, <2>2, <2>3, FlowMoves
  <2>5. FlowTypeOK'
    BY <1>1, <1>4, <2>4 DEF FlowTypeOK
  <2>6. SignupAnswersAreTrue' /\ BootstrapOutcome'
    BY <1>1, <1>2, <1>4, AnswersKept, OutcomeKept
  <2> QED
    BY <1>2, <2>4, <2>5, <2>6 DEF OInv, FlowsInv
<1>5. CASE ~TenantExists(BootEmail) /\ Finish(f, "refused")
  <2>1. /\ flow' \in [Flows -> Flow] /\ \A g \in Flows : Progress(g)'
        /\ up' \in [Instances -> {"starting", "bootstrapped", "refused", "failed"}]
        /\ \A i \in Instances : up'[i] = up[i] \/ (i = f /\ up'[i] = "refused")
    BY <1>1, <1>2, <1>5, FlowEnds
  <2>2. FlowTypeOK'
    BY <1>1, <2>1 DEF FlowTypeOK
  <2>3. SlugTaken'
    BY <1>1, <1>3, <1>5 DEF SlugTaken
  <2>4. BootstrapOutcome'
    BY <1>1, <1>2, <1>3, <2>1, <2>3 DEF BootstrapOutcome, SlugTaken, UsersKept, TenantExists,
                                        TenantsKept, Admin, UserExists, backofficeVars
  <2>5. SignupAnswersAreTrue'
    BY <1>1, <1>2, AnswersKept
  <2> QED
    BY <1>2, <2>1, <2>2, <2>4, <2>5 DEF OInv, FlowsInv
<1> QED
  BY <1>1, <1>4, <1>5 DEF FindExisting

\* Signup's user and bootstrap's are admins of the tenant they are for.
LEMMA AdminMade ==
  ASSUME UsersInv, NEW e \in Emails, NEW p,
         user' = WithAdmin(e, p), UNCHANGED <<tokens, task>>
  PROVE  UsersInv' /\ UsersKept /\ (validatePassword(p) => UserExists(Admin(e))')
         /\ \A u \in Users : UserExists(u) => user'[u] = user[u]
<1>1. Admin(e) \in Users /\ Admin(e).tenant = e
  BY OnboardingAssumption DEF Admin
<1>2. CASE p \in Passwords /\ ~UserExists(Admin(e))
  <2> DEFINE row == UserRow(p, "admin")
  <2>1. row \in UserRecord /\ row.password = p /\ row.role = "admin" /\ row # NoUser
    BY <1>2, NewRow DEF Role
  <2>2. user' = [user EXCEPT ![Admin(e)] = row]
    BY <1>2 DEF WithAdmin, validatePassword
  <2> HIDE DEF row
  <2>3. /\ user' \in [Users -> UserRecord \cup {NoUser}]
        /\ UsersKept /\ FirstUserIsAdmin' /\ LoginInv'
    BY <1>1, <1>2, <2>1, <2>2, UserWritten, LoginKept DEF UsersKept, Admin
  <2>4. UserExists(Admin(e))' /\ \A u \in Users : UserExists(u) => user'[u] = user[u]
    BY <1>1, <1>2, <2>1, <2>2 DEF UsersInv, BackofficeTypeOK, UserExists
  <2> QED
    BY <2>3, <2>4 DEF UsersInv, BackofficeTypeOK, UserRecord
<1>3. CASE ~(p \in Passwords /\ ~UserExists(Admin(e)))
  <2>1. UNCHANGED user
    BY <1>3 DEF WithAdmin, validatePassword
  <2> QED
    BY <1>3, <2>1 DEF UsersInv, BackofficeTypeOK, LoginInv, FirstUserIsAdmin, UsersKept,
                      UserExists, validatePassword
<1> QED
  BY <1>2, <1>3

LEMMA CreateSignupAdminStep ==
  ASSUME OInv, NEW f \in Flows, CreateSignupAdmin(f)
  PROVE  OInv'
<1>1. /\ flow[f] \in Flow /\ flow[f].email \in Emails /\ InFlow(f, "user") /\ f \in Signups
      /\ f \notin Instances
      /\ slugOf[flow[f].email] = flow[f].slug
      /\ flow[f].key \in Keys /\ owner[flow[f].key] = flow[f].email
      /\ FlowTypeOK /\ SignupAnswersAreTrue /\ BootstrapOutcome /\ \A g \in Flows : Progress(g)
      /\ UNCHANGED <<tenantVars, tokens, task, signedUp, up, faults>>
  BY OnboardingAssumption DEF OInv, FlowsInv, FlowTypeOK, Flow, CreateSignupAdmin, Progress, InFlow
<1>2. TenantsInv' /\ TenantsKept /\ UNCHANGED <<slugOf, owner>>
  BY <1>1, TenantsStand DEF tenantVars
<1>3. /\ UsersInv' /\ UsersKept
      /\ flow[f].password \in Passwords => user'[Admin(flow[f].email)] # NoUser
  <2>1. user' = WithAdmin(flow[f].email, flow[f].password)
    BY DEF CreateSignupAdmin
  <2>2. /\ UsersInv' /\ UsersKept
        /\ validatePassword(flow[f].password) =>
             user'[Admin(flow[f].email)] # NoUser
    BY <1>1, <2>1, AdminMade DEF OInv, UserExists
  <2> QED
    BY <2>2 DEF validatePassword, UserExists
<1> DEFINE x == [flow[f] EXCEPT !.step = "answer"]
<1>4. /\ x \in Flow /\ x.step = "answer" /\ x.email = flow[f].email /\ x.slug = flow[f].slug
      /\ x.key = flow[f].key /\ x.password = flow[f].password
  BY <1>1 DEF Flow, Steps
<1>5. flow' = [flow EXCEPT ![f] = x]
  BY DEF CreateSignupAdmin, GoTo
<1> HIDE DEF x
<1>6. flow'[f] = x => Progress(f)'
  BY <1>1, <1>2, <1>3, <1>4 DEF Progress, InFlow, UserExists
<1>7. flow' \in [Flows -> Flow] /\ \A g \in Flows : Progress(g)'
  BY <1>1, <1>2, <1>3, <1>4, <1>5, <1>6, FlowMoves
<1>8. FlowTypeOK'
  BY <1>1, <1>7 DEF FlowTypeOK
<1>9. SignupAnswersAreTrue' /\ BootstrapOutcome'
  BY <1>1, <1>2, <1>3, AnswersKept, OutcomeKept
<1> QED
  BY <1>2, <1>3, <1>7, <1>8, <1>9 DEF OInv, FlowsInv

LEMMA CreateBootAdminStep ==
  ASSUME OInv, NEW f \in Flows, CreateBootAdmin(f)
  PROVE  OInv'
<1> DEFINE how == IF validatePassword(BootPassword) THEN "bootstrapped" ELSE "refused"
<1>1. /\ f \in Instances /\ flow[f].email = BootEmail /\ flow[f].password = BootPassword
      /\ TenantExists(BootEmail) /\ BootEmail \in Emails
      /\ FlowTypeOK /\ SignupAnswersAreTrue /\ BootstrapOutcome /\ \A g \in Flows : Progress(g)
      /\ UNCHANGED <<tenantVars, tokens, task, signedUp, faults>>
      /\ user' = WithAdmin(BootEmail, BootPassword) /\ Finish(f, how)
  BY OnboardingAssumption DEF OInv, FlowsInv, CreateBootAdmin, Progress, InFlow, Flows
<1>2. TenantsInv' /\ TenantsKept /\ UNCHANGED slugOf
  BY <1>1, TenantsStand DEF tenantVars
<1>3. UsersInv' /\ UsersKept /\ (validatePassword(BootPassword) => UserExists(Admin(BootEmail))')
  BY <1>1, AdminMade DEF OInv
<1>4. /\ how \in {"bootstrapped", "refused"}
      /\ how = "bootstrapped" => UserExists(Admin(BootEmail))'
      /\ how = "refused" => BootPassword = Weak
  BY <1>3, OnboardingAssumption DEF validatePassword
<1> HIDE DEF how
<1>5. /\ flow' \in [Flows -> Flow] /\ \A g \in Flows : Progress(g)'
      /\ up' \in [Instances -> {"starting", "bootstrapped", "refused", "failed"}]
      /\ \A i \in Instances : up'[i] = up[i] \/ (i = f /\ up'[i] = how)
  BY <1>1, <1>2, <1>3, <1>4, FlowEnds
<1>6. FlowTypeOK'
  BY <1>1, <1>5 DEF FlowTypeOK
<1>7. BootstrapOutcome'
  <2> SUFFICES ASSUME NEW i \in Instances
               PROVE  /\ up'[i] = "bootstrapped" =>
                           TenantExists(BootEmail)' /\ UserExists(Admin(BootEmail))'
                      /\ up'[i] = "refused" =>
                           BootPassword = Weak \/ \E e \in Emails \ {BootEmail} : slugOf'[e] = BootSlug
    BY DEF BootstrapOutcome
  <2>1. TenantExists(BootEmail)' /\ Admin(BootEmail) \in Users
    BY <1>1, <1>2, OnboardingAssumption DEF TenantExists, Admin
  <2>2. CASE up'[i] = up[i]
    BY <1>1, <1>2, <1>3, <2>1, <2>2 DEF BootstrapOutcome, UsersKept
  <2>3. CASE up'[i] = how
    BY <1>4, <2>1, <2>3
  <2> QED
    BY <1>5, <2>2, <2>3
<1>8. SignupAnswersAreTrue'
  BY <1>1, <1>2, <1>3, AnswersKept
<1> QED
  BY <1>2, <1>3, <1>5, <1>6, <1>7, <1>8 DEF OInv, FlowsInv

\* A 201 is sent when all of it is true.
LEMMA AnswerSignupStep ==
  ASSUME OInv, NEW f \in Flows, AnswerSignup(f)
  PROVE  OInv'
<1> DEFINE a == [email |-> flow[f].email, slug |-> flow[f].slug,
                 password |-> flow[f].password, key |-> flow[f].key]
<1>1. /\ flow[f] \in Flow /\ flow[f].email \in Emails
      /\ slugOf[flow[f].email] = flow[f].slug
      /\ flow[f].key \in Keys /\ owner[flow[f].key] = flow[f].email
      /\ flow[f].password \in Passwords => UserExists(Admin(flow[f].email))
      /\ FlowTypeOK /\ SignupAnswersAreTrue /\ BootstrapOutcome /\ \A g \in Flows : Progress(g)
      /\ UNCHANGED <<slugOf, owner, active, expired, request, faults>> /\ UNCHANGED backofficeVars
      /\ held' = held \cup {flow[f].key} /\ signedUp' = signedUp \cup {a}
      /\ Finish(f, "served")
  BY DEF OInv, FlowsInv, FlowTypeOK, Flow, AnswerSignup, Progress, InFlow
<1>2. f \notin Instances
  BY DEF AnswerSignup, OInv, FlowsInv, Progress
<1>3. UsersInv' /\ UsersKept
  BY <1>1, UsersStand
<1>4. TenantsKept
  BY <1>1 DEF TenantsKept
<1>5. Stored(flow[f].key)
  BY <1>1, TenantsAssumption DEF Stored
<1>6. TenantsTypeOK' /\ TableInv'
  BY <1>1, <1>5 DEF OInv, TenantsInv, TenantsTypeOK, TableInv, Stored, TenantExists
<1>7. RequestInv'
  BY <1>1, <1>4, RequestsKept DEF OInv
<1>8. /\ flow' \in [Flows -> Flow] /\ \A g \in Flows : Progress(g)'
      /\ up' \in [Instances -> {"starting", "bootstrapped", "refused", "failed"}]
      /\ \A i \in Instances : up'[i] = up[i]
  BY <1>1, <1>2, <1>3, <1>4, FlowEnds
<1>9. a \in Answer
  BY <1>1 DEF Answer, Flow
<1>10. FlowTypeOK'
  BY <1>1, <1>8, <1>9 DEF FlowTypeOK
<1>11. SignupAnswersAreTrue'
  BY <1>1 DEF SignupAnswersAreTrue, UserExists, backofficeVars
<1>12. BootstrapOutcome'
  BY <1>1, <1>3, <1>4, <1>8, OutcomeKept
<1> QED
  BY <1>3, <1>6, <1>7, <1>8, <1>10, <1>11, <1>12 DEF OInv, TenantsInv, FlowsInv

\* A failing statement, a process that dies and one that is restarted leave
\* every row as it is.
LEMMA FaultStep ==
  ASSUME OInv, NEW f \in Flows, StatementFails(f) \/ Crash(f)
  PROVE  OInv'
<1>1. /\ FlowTypeOK /\ SignupAnswersAreTrue /\ BootstrapOutcome /\ \A g \in Flows : Progress(g)
      /\ UNCHANGED <<tenantVars, backofficeVars, signedUp>> /\ faults' = faults + 1
      /\ flow[f] \in Flow
  BY DEF OInv, FlowsInv, FlowTypeOK, StatementFails, Crash
<1>2. TenantsInv' /\ UsersInv' /\ TenantsKept /\ UsersKept
  BY <1>1, TablesStand
<1>3. UNCHANGED <<slugOf, owner>>
  BY <1>1 DEF tenantVars
<1>4. CASE /\ f \in Signups /\ InFlow(f, "user") /\ UNCHANGED up
           /\ flow' = [flow EXCEPT ![f].step = "answer", ![f].password = NoPassword]
  <2> DEFINE x == [flow[f] EXCEPT !.step = "answer", !.password = NoPassword]
  <2>1. /\ x \in Flow /\ x.step = "answer" /\ x.email = flow[f].email /\ x.slug = flow[f].slug
        /\ x.key = flow[f].key /\ x.password \notin Passwords
    BY <1>1, OnboardingAssumption DEF Flow, Steps
  <2>2. flow' = [flow EXCEPT ![f] = x]
    BY <1>1, <1>4 DEF FlowTypeOK, Flow
  <2> HIDE DEF x
  <2>3. f \notin Instances
    BY <1>4, OnboardingAssumption
  <2>4. /\ slugOf[flow[f].email] = flow[f].slug
        /\ flow[f].key \in Keys /\ owner[flow[f].key] = flow[f].email
    BY <1>1, <1>4 DEF Progress
  <2>5. flow'[f] = x => Progress(f)'
    BY <1>3, <2>4, <2>1, <2>3 DEF Progress, InFlow
  <2>6. flow' \in [Flows -> Flow] /\ \A g \in Flows : Progress(g)'
    BY <1>1, <1>2, <2>1, <2>2, <2>5, FlowMoves
  <2>7. FlowTypeOK'
    BY <1>1, <1>4, <2>6 DEF FlowTypeOK
  <2>8. SignupAnswersAreTrue' /\ BootstrapOutcome'
    BY <1>1, <1>2, <1>4, AnswersKept, OutcomeKept
  <2> QED
    BY <1>2, <2>6, <2>7, <2>8 DEF OInv, FlowsInv
<1>5. ASSUME NEW how \in {"starting", "failed"}, Finish(f, how)
      PROVE  OInv'
  <2>1. /\ flow' \in [Flows -> Flow] /\ \A g \in Flows : Progress(g)'
        /\ up' \in [Instances -> {"starting", "bootstrapped", "refused", "failed"}]
        /\ \A i \in Instances : up'[i] = up[i] \/ (i = f /\ up'[i] = how)
    BY <1>1, <1>2, <1>5, FlowEnds
  <2>2. FlowTypeOK'
    BY <1>1, <2>1 DEF FlowTypeOK
  <2>3. SignupAnswersAreTrue' /\ BootstrapOutcome'
    BY <1>1, <1>2, <1>5, <2>1, AnswersKept, OutcomeKept
  <2> QED
    BY <1>2, <2>1, <2>2, <2>3 DEF OInv, FlowsInv
<1> QED
  BY <1>4, <1>5 DEF StatementFails, Crash

LEMMA RestartStep ==
  ASSUME OInv, NEW i \in Instances, Restart(i)
  PROVE  OInv'
<1>1. /\ UNCHANGED <<tenantVars, backofficeVars, flow, signedUp>> /\ faults' = faults + 1
      /\ up' = [up EXCEPT ![i] = "starting"]
  BY DEF Restart
<1>2. TenantsInv' /\ UsersInv' /\ TenantsKept /\ UsersKept
  BY <1>1, TablesStand
<1>3. FlowsInv'
  BY <1>1, <1>2, OthersStep DEF OInv, FlowsInv, FlowTypeOK
<1> QED
  BY <1>2, <1>3 DEF OInv

(***************************************************************************)
(* All together.                                                           *)
(***************************************************************************)

\* An empty database, and instances that have not started yet.
LEMMA InitOInv == Init => OInv
<1> SUFFICES ASSUME Init PROVE OInv
  OBVIOUS
<1>1. Done \in Flow /\ Done.step = "done"
  BY OnboardingAssumption DEF Done, Flow, Steps
<1>2. TenantsInv
  BY DEF Init, TenantsInit, TenantsInv, TenantsTypeOK, TableInv, RequestInv, ServedAsOwner,
         Stored, At
<1>3. UsersInv
  BY DEF Init, BackofficeInit, UsersInv, BackofficeTypeOK, LoginInv, FirstUserIsAdmin, UserExists
<1>4. FlowTypeOK
  BY <1>1 DEF Init, FlowTypeOK
<1>5. \A f \in Flows : Progress(f)
  BY <1>1 DEF Init, Progress, InFlow
<1>6. SignupAnswersAreTrue /\ BootstrapOutcome
  BY DEF Init, SignupAnswersAreTrue, BootstrapOutcome
<1> QED
  BY <1>2, <1>3, <1>4, <1>5, <1>6 DEF OInv, FlowsInv

\* The invariant survives every step of signups, bootstraps, callers and users.
LEMMA NextOInv == OInv /\ [Next]_vars => OInv'
<1> SUFFICES ASSUME OInv, [Next]_vars PROVE OInv'
  OBVIOUS
<1>1. ASSUME NEW f \in Flows, FlowStep(f)
      PROVE  OInv'
  BY <1>1, CreateTenantStep, FindExistingStep, CreateInitialKeyStep, CreateSignupAdminStep,
     CreateBootAdminStep, AnswerSignupStep DEF FlowStep
<1>2. CASE TenantsNext /\ UNCHANGED <<backofficeVars, onboardingVars>>
  <2>1. TenantsInv' /\ TenantsKept /\ UsersInv' /\ UsersKept
    BY <1>2, TenantsStep, UsersStand DEF OInv
  <2>2. FlowsInv'
    BY <1>2, <2>1, OthersStep DEF OInv, FlowsInv, FlowTypeOK, onboardingVars
  <2> QED
    BY <2>1, <2>2 DEF OInv
<1>3. CASE BackofficeStep /\ UNCHANGED <<tenantVars, onboardingVars>>
  <2>1. TenantsInv' /\ TenantsKept /\ UsersInv' /\ UsersKept
    BY <1>3, BackofficeInv, TenantsStand DEF OInv
  <2>2. FlowsInv'
    BY <1>3, <2>1, OthersStep DEF OInv, FlowsInv, FlowTypeOK, onboardingVars
  <2> QED
    BY <2>1, <2>2 DEF OInv
<1>4. CASE UNCHANGED vars
  <2>1. TenantsInv' /\ UsersInv' /\ TenantsKept /\ UsersKept
    BY <1>4, TablesStand DEF vars
  <2>2. FlowsInv'
    BY <1>4, <2>1, OthersStep DEF OInv, FlowsInv, FlowTypeOK, vars, onboardingVars
  <2> QED
    BY <2>1, <2>2 DEF OInv
<1> QED
  BY <1>1, <1>2, <1>3, <1>4, BeginStep, FaultStep, RestartStep DEF Next

(***************************************************************************)
(* What tenants, users and operators may rely on.                          *)
(***************************************************************************)

\* The invariant above holds in every state of signup, bootstrap, API keys and
\* back office together.
THEOREM OnboardingInductive == Spec => []OInv
BY InitOInv, NextOInv, PTL DEF Spec

\* Tables, requests, tokens and flows keep their types through every handler.
THEOREM OnboardingTypes == Spec => []TypeOK
<1>1. OInv => TypeOK
  BY DEF OInv, TenantsInv, UsersInv, FlowsInv, FlowTypeOK, TypeOK
<1> QED
  BY <1>1, OnboardingInductive, PTL

\* AuthMiddleware serves a request as the tenant its key was made for, for any
\* number of keys and any of them that share a prefix.
THEOREM KeysNeverConfused == Spec => []ServedAsOwner
<1>1. OInv => ServedAsOwner
  BY DEF OInv, TenantsInv, RequestInv
<1> QED
  BY <1>1, OnboardingInductive, PTL

\* What Handler.Signup answered with 201 is so for ever.
THEOREM SignupKeepsItsWord == Spec => []SignupAnswersAreTrue
<1>1. OInv => SignupAnswersAreTrue
  BY DEF OInv, FlowsInv
<1> QED
  BY <1>1, OnboardingInductive, PTL

\* No tenant has users without its first admin, though user creation does not
\* look for one.
THEOREM AdminComesFirst == Spec => []FirstUserIsAdmin
<1>1. OInv => FirstUserIsAdmin
  BY DEF OInv, UsersInv
<1> QED
  BY <1>1, OnboardingInductive, PTL

\* bootstrapTenant is idempotent, for any number of instances and restarts.
THEOREM BootstrapIdempotent == Spec => []BootstrapOutcome
<1>1. OInv => BootstrapOutcome
  BY DEF OInv, FlowsInv
<1> QED
  BY <1>1, OnboardingInductive, PTL

\* Handlers of /v1/keys change keys of the caller's tenant only.
THEOREM KeysOfOneTenant == Spec => OwnTenantOnly
<1> DEFINE Own ==
      \A c \in Clients, k \in Keys :
        At(c, "serve") /\ ClientStep(c)
          /\ (owner'[k] # owner[k] \/ (k \in active /\ k \notin active'))
        => owner'[k] = owner[request[c].key]
<1>1. OInv => Own
  <2> SUFFICES ASSUME OInv, NEW c \in Clients, NEW k \in Keys, At(c, "serve"), ClientStep(c),
                      owner'[k] # owner[k] \/ (k \in active /\ k \notin active')
               PROVE  owner'[k] = owner[request[c].key]
    OBVIOUS
  <2>1. request[c].tenant = owner[request[c].key]
    BY DEF OInv, TenantsInv, RequestInv, ServedAsOwner
  <2>2. ~SendRequest(c) /\ ~Authenticate(c) /\ ~EndRequest(c)
    BY DEF SendRequest, Authenticate, EndRequest, At
  <2>3. CASE CreateKey(c) \/ LoseKey(c)
    <3>1. PICK j \in Keys : owner' = [owner EXCEPT ![j] = request[c].tenant] /\ active \subseteq active'
      BY <2>3 DEF CreateKey, LoseKey, InsertKey
    <3> QED
      BY <2>1, <3>1 DEF OInv, TenantsInv, TenantsTypeOK
  <2>4. CASE RevokeKey(c)
    <3>1. PICK j \in Keys : owner[j] = request[c].tenant /\ active' = active \ {j}
      BY <2>4 DEF RevokeKey, Revocable
    <3>2. UNCHANGED owner
      BY <2>4 DEF RevokeKey
    <3> QED
      BY <2>1, <3>1, <3>2
  <2> QED
    BY <2>2, <2>3, <2>4 DEF ClientStep
<1> QED
  BY <1>1, OnboardingInductive, PTL DEF OwnTenantOnly

\* AuthMiddleware refuses a good key only for another tenant's key with the
\* same prefix: UNIQUE(tenant_id, key_prefix) rules out one's own.
THEOREM RefusalExplained == Spec => RefusedOnlyIfShadowed
<1> DEFINE Shadowed ==
      \A c \in Clients : At(c, "lookup") /\ request'[c] # Idle /\ request'[c].step = "refused" =>
        LET k == request[c].key
        IN k \in active \ expired =>
             \E j \in active \ {k} : PrefixOf[j] = PrefixOf[k] /\ owner[j] # owner[k]
<1>1. OInv /\ [Next]_vars => Shadowed
  <2> SUFFICES ASSUME OInv, [Next]_vars, NEW c \in Clients, At(c, "lookup"),
                      request'[c] # Idle, request'[c].step = "refused",
                      request[c].key \in active \ expired
               PROVE  \E j \in active \ {request[c].key} :
                        /\ PrefixOf[j] = PrefixOf[request[c].key]
                        /\ owner[j] # owner[request[c].key]
    OBVIOUS
  <2> DEFINE k == request[c].key
  <2>1. request'[c] # request[c]
    BY DEF At
  <2>2. Authenticate(c)
    <3>1. TenantsNext
      BY <2>1 DEF Next, vars, tenantVars, FlowStep, BeginSignup, BeginBootstrap, CreateTenant,
                  FindExisting, CreateInitialKey, CreateSignupAdmin, CreateBootAdmin,
                  AnswerSignup, StatementFails, Crash, Restart, requestsUnchanged
    <3>2. PICK d \in Clients : ClientStep(d)
      BY <2>1, <3>1 DEF TenantsNext, KeyExpires
    <3>3. d = c
      BY <2>1, <3>2 DEF ClientStep, SendRequest, Authenticate, CreateKey, LoseKey, RevokeKey,
                        EndRequest, OInv, TenantsInv, TenantsTypeOK
    <3>4. ~SendRequest(c) /\ ~CreateKey(c) /\ ~LoseKey(c) /\ ~RevokeKey(c)
      BY DEF SendRequest, CreateKey, LoseKey, RevokeKey, At
    <3>5. ~EndRequest(c)
      BY DEF EndRequest, OInv, TenantsInv, TenantsTypeOK
    <3> QED
      BY <3>2, <3>3, <3>4, <3>5 DEF ClientStep
  <2>3. k \in Candidates(k) /\ Verified(k, k)
    BY DEF Candidates, Verified
  <2>4. PICK j \in Candidates(k) : ~Verified(k, j)
    <3>1. \A row : request'[c] # [step |-> "serve", key |-> k, tenant |-> owner[row]]
      OBVIOUS
    <3>2. \A x : request' = [request EXCEPT ![c] = x] => request'[c] = x
      BY DEF OInv, TenantsInv, TenantsTypeOK
    <3> QED
      BY <2>2, <2>3, <3>1, <3>2 DEF Authenticate
  <2>5. j \in active /\ PrefixOf[j] = PrefixOf[k] /\ j # k
    BY <2>3, <2>4 DEF Candidates
  <2>6. owner[j] # owner[k]
    BY <2>5 DEF OInv, TenantsInv, TenantsTypeOK, TableInv
  <2> QED
    BY <2>5, <2>6
<1> QED
  BY <1>1, OnboardingInductive, PTL DEF Spec, RefusedOnlyIfShadowed

\* A password that InviteUser generated is for ever, and no session is ever
\* opened with it.
THEOREM InvitedForEver == Spec => TemporaryIsFinal
<1> DEFINE Final ==
      \A u \in Users : UserExists(u) /\ user[u].password = Temporary =>
        /\ user'[u].password = Temporary
        /\ \A t \in tokens' : t.user # u
<1>1. OInv /\ [Next]_vars => Final
  <2> SUFFICES ASSUME OInv, [Next]_vars, NEW u \in Users, UserExists(u),
                      user[u].password = Temporary
               PROVE  /\ user'[u].password = Temporary
                      /\ \A t \in tokens' : t.user # u
    OBVIOUS
  <2>1. OInv'
    BY NextOInv
  <2>2. user'[u].password = Temporary
    <3>1. CASE UNCHANGED user
      BY <3>1
    <3>2. ASSUME NEW f \in Flows, CreateSignupAdmin(f) \/ CreateBootAdmin(f)
          PROVE  user'[u] = user[u]
      <4>1. flow[f].email \in Emails
        BY DEF OInv, FlowsInv, FlowTypeOK, Flow
      <4> QED
        BY <3>2, <4>1, AdminMade DEF CreateSignupAdmin, CreateBootAdmin, OInv
    <3>3. CASE BackofficeStep
      <4>1. ASSUME NEW v \in Users, ~UserExists(v), NEW x, user' = [user EXCEPT ![v] = x]
            PROVE  user'[u] = user[u]
        BY <4>1 DEF OInv, UsersInv, BackofficeTypeOK
      <4>2. ASSUME NEW v \in Users, CreateUser(v) \/ \E w \in Workers : InviteUser(w, v)
            PROVE  user'[u] = user[u]
        BY <4>1, <4>2 DEF CreateUser, InviteUser, Creatable
      <4>3. ASSUME NEW v \in Users, DeactivateUser(v)
            PROVE  user'[u].password = Temporary
        BY <4>3 DEF DeactivateUser, OInv, UsersInv, BackofficeTypeOK, UserExists
      <4>4. ASSUME NEW w \in Workers, FlagMustChange(w)
            PROVE  user'[u].password = Temporary
        BY <4>4 DEF FlagMustChange, OInv, UsersInv, BackofficeTypeOK, UserExists
      <4>5. ASSUME NEW w \in Workers, WritePassword(w)
            PROVE  user'[u] = user[u]
        <5>1. /\ task[w].user # u /\ user' = [user EXCEPT ![task[w].user] =
                   [user[task[w].user] EXCEPT !.password = task[w].new, !.mustChange = FALSE]]
          BY <4>5 DEF WritePassword, OInv, UsersInv, LoginInv, BackofficeTypeOK
        <5> QED
          BY <5>1 DEF OInv, UsersInv, BackofficeTypeOK
      <4> QED
        BY <3>3, <3>1, <4>2, <4>3, <4>4, <4>5
           DEF BackofficeStep, Login, CheckPassword, TokenExpires, DropTask
    <3> QED
      BY <3>1, <3>2, <3>3 DEF Next, vars, backofficeVars, FlowStep, BeginSignup, BeginBootstrap,
                              CreateTenant, FindExisting, CreateInitialKey, AnswerSignup,
                              StatementFails, Crash, Restart
  <2>3. \A t \in tokens' : user'[t.user].password # Temporary
    BY <2>1 DEF OInv, UsersInv, LoginInv
  <2> QED
    BY <2>2, <2>3
<1> QED
  BY <1>1, OnboardingInductive, PTL DEF Spec, TemporaryIsFinal
=============================================================================
