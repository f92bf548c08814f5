------------------------------- MODULE Tenants -------------------------------
(***************************************************************************)
(* Tables tenants and tenant_api_keys, the statements of TenantService on  *)
(* them, and the API-key authentication of AuthMiddleware.                 *)
(*                                                                         *)
(* A tenant is named by its email, which is unique and never changes.  A   *)
(* key is named by its 32 random bytes, so a model value; the table finds  *)
(* it by the first twelve characters, two of which are random, so several  *)
(* keys share a prefix.  An action is one statement, with the computation  *)
(* on its result that follows it.                                          *)
(***************************************************************************)
EXTENDS Naturals, FiniteSets

CONSTANTS
  Emails,      \* tenants that may come to exist
  Slugs,       \* values of tenants.slug
  Keys,        \* API keys that may be generated
  PrefixOf,    \* [Keys -> the first 12 characters of the key]
  Clients,     \* callers of the authenticated API, one request each at a time
  NoTenant,
  Idle         \* a client without a request

ASSUME TenantsAssumption == NoTenant \notin Emails \cup Slugs

VARIABLES
  slugOf,      \* table tenants: [Emails -> slug, or NoTenant without a row]
  owner,       \* table tenant_api_keys: [Keys -> tenant_id, or NoTenant]
  active,      \* keys whose is_active is true
  expired,     \* keys whose expires_at has passed
  held,        \* keys whose plaintext reached a caller
  request      \* [Clients -> its request]

tenantVars == <<slugOf, owner, active, expired, held, request>>

Stored(k) == owner[k] # NoTenant
TenantExists(e) == slugOf[e] # NoTenant

TenantsInit ==
  /\ slugOf = [e \in Emails |-> NoTenant]
  /\ owner = [k \in Keys |-> NoTenant]
  /\ active = {}
  /\ expired = {}
  /\ held = {}
  /\ request = [c \in Clients |-> Idle]

(***************************************************************************)
(* Statements.                                                             *)
(***************************************************************************)

\* The unique indexes on slug and on email.
Insertable(e, s) == ~TenantExists(e) /\ \A f \in Emails : slugOf[f] # s

\* Repository.Create.
InsertTenant(e, s) ==
  /\ Insertable(e, s)
  /\ slugOf' = [slugOf EXCEPT ![e] = s]

\* Prefixes are not unique within a tenant.
AnyPrefixFault(e) == {k \in Keys : ~Stored(k)}

\* GenerateAPIKey: a key nobody has seen.  UNIQUE(tenant_id, key_prefix) counts
\* the tenant's revoked keys too.
Fresh(e) ==
  {k \in Keys : ~Stored(k) /\ \A j \in Keys : owner[j] = e => PrefixOf[j] # PrefixOf[k]}

\* Repository.CreateAPIKey.
InsertKey(e, k) ==
  /\ k \in Fresh(e)
  /\ owner' = [owner EXCEPT ![k] = e]
  /\ active' = active \cup {k}

(***************************************************************************)
(* AuthMiddleware and the handlers behind it.                              *)
(***************************************************************************)
\* A caller sends a key it was given once.
SendRequest(c) ==
  /\ request[c] = Idle
  /\ \E k \in held :
       request' = [request EXCEPT ![c] = [step |-> "lookup", key |-> k, tenant |-> NoTenant]]
  /\ UNCHANGED <<slugOf, owner, active, expired, held>>

At(c, step) == request[c] # Idle /\ request[c].step = step

\* SELECT ... WHERE key_prefix = $1 AND is_active: any one of the rows.
Candidates(k) == {j \in active : PrefixOf[j] = PrefixOf[k]}

\* The hash of the key sent is not compared with the row's.
UncheckedFault(k, row) == row \notin expired

Verified(k, row) == row \notin expired /\ row = k

Authenticate(c) ==
  /\ At(c, "lookup")
  /\ LET k == request[c].key
     IN \/ \E row \in Candidates(k) :
             /\ Verified(k, row)
             /\ request' = [request EXCEPT ![c] =
                              [step |-> "serve", key |-> k, tenant |-> owner[row]]]
        \/ /\ Candidates(k) = {} \/ \E row \in Candidates(k) : ~Verified(k, row)
           /\ request' = [request EXCEPT ![c] =
                            [step |-> "refused", key |-> k, tenant |-> NoTenant]]
  /\ UNCHANGED <<slugOf, owner, active, expired, held>>

\* Handler.CreateKey answers with the plaintext, unless the INSERT fails.
CreateKey(c) ==
  /\ At(c, "serve")
  /\ \E k \in Keys : InsertKey(request[c].tenant, k) /\ held' = held \cup {k}
  /\ request' = [request EXCEPT ![c] = Idle]
  /\ UNCHANGED <<slugOf, expired>>

\* The plaintext of a key that was stored never reaches its caller.
LoseKey(c) ==
  /\ At(c, "serve")
  /\ \E k \in Keys : InsertKey(request[c].tenant, k)
  /\ request' = [request EXCEPT ![c] = Idle]
  /\ UNCHANGED <<slugOf, expired, held>>

\* UPDATE ... WHERE id = $1, without AND tenant_id = $2.
AnyTenantFault(k, e) == Stored(k)

Revocable(k, e) == owner[k] = e

RevokeKey(c) ==
  /\ At(c, "serve")
  /\ \E k \in Keys : Revocable(k, request[c].tenant) /\ active' = active \ {k}
  /\ request' = [request EXCEPT ![c] = Idle]
  /\ UNCHANGED <<slugOf, owner, expired, held>>

\* A refusal or an answer that changes no key reaches the caller; or the
\* request fails, as creating a key does that meets one of its prefix.
EndRequest(c) ==
  /\ request[c] # Idle
  /\ request' = [request EXCEPT ![c] = Idle]
  /\ UNCHANGED <<slugOf, owner, active, expired, held>>

\* expires_at passes.
KeyExpires(k) ==
  /\ k \in active \ expired
  /\ expired' = expired \cup {k}
  /\ UNCHANGED <<slugOf, owner, active, held, request>>

ClientStep(c) ==
  \/ SendRequest(c) \/ Authenticate(c) \/ CreateKey(c) \/ LoseKey(c)
  \/ RevokeKey(c) \/ EndRequest(c)

TenantsNext == (\E c \in Clients : ClientStep(c)) \/ (\E k \in Keys : KeyExpires(k))

(***************************************************************************)
(* Properties.                                                             *)
(***************************************************************************)
Request == [step : {"lookup", "serve", "refused"}, key : Keys,
            tenant : Emails \cup {NoTenant}]

TenantsTypeOK ==
  /\ slugOf \in [Emails -> Slugs \cup {NoTenant}]
  /\ owner \in [Keys -> Emails \cup {NoTenant}]
  /\ active \subseteq Keys /\ expired \subseteq Keys /\ held \subseteq Keys
  /\ request \in [Clients -> Request \cup {Idle}]

\* Whatever rows share the prefix of the key sent, a request is served in the
\* name of the tenant that key was made for, and this tenant exists.
ServedAsOwner ==
  \A c \in Clients : At(c, "serve") =>
    request[c].tenant = owner[request[c].key] /\ TenantExists(request[c].tenant)

\* Requests change no key of another tenant than the one whose key they carry:
\* CreateAPIKey and RevokeAPIKey both name the tenant of the context.
OwnTenantOnly ==
  [][\A c \in Clients, k \in Keys :
       At(c, "serve") /\ ClientStep(c) /\ (owner'[k] # owner[k] \/ (k \in active /\ k \notin active'))
         => owner'[k] = owner[request[c].key]]_tenantVars

\* A caller is refused a key that is active and not expired only if another
\* active key has its first twelve characters; those of one tenant never do.
RefusedOnlyIfShadowed ==
  [][\A c \in Clients : At(c, "lookup") /\ request'[c] # Idle /\ request'[c].step = "refused" =>
       LET k == request[c].key
       IN k \in active \ expired =>
            \E j \in active \ {k} : PrefixOf[j] = PrefixOf[k] /\ owner[j] # owner[k]]_tenantVars
=============================================================================
