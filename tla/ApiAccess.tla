------------------------------- MODULE ApiAccess -------------------------------
(***************************************************************************)
(* Who may do what through the management API: the edge gate, the ID       *)
(* token's verification against the user pool's keys as the instance has   *)
(* cached them (internal/cognito/jwks.go), the role check, the choice of   *)
(* the tenant a request acts in (internal/middleware) and the handlers'    *)
(* own guards (internal/api/onboarding_handlers.go). Requests of a warm    *)
(* instance share its key cache and run concurrently; the pool's keys and  *)
(* the tenants change under them.                                          *)
(***************************************************************************)
EXTENDS Naturals, FiniteSets

CONSTANTS
  Kid,            \* key ids the pool may sign with; an id names one key for ever
  Tenant,
  DefaultTenant,
  TTL,            \* cacheTTL, in ticks
  MaxRetired,     \* bound on the ticks counted since a key left the pool
  Token,          \* the ID tokens callers hold
  EdgeSecret,     \* Secrets Manager's value: "" is one the instance refuses
  Request,        \* requests in flight
  CallsFail,      \* whether calls may fail and instances may die
  None

Group == {"Admins", "Operators", "GlobalOperators"}

\* What the checks read of an ID token: its key, "cognito:groups",
\* "custom:tenant_id", and whether iss, aud, exp and token_use are right.
AnyToken == [kid : Kid, groups : SUBSET Group, claim : Tenant \cup {None},
             valid : BOOLEAN]

PC == {"idle", "verify", "fetch", "store", "lookup", "tenant", "handle", "served"}

\* A request: its token, whether it writes, the keys its fetch of the key set
\* got, the tenant it was resolved to and the one its handler acts on.
Job == [pc : PC, token : Token \cup {None}, write : BOOLEAN, got : SUBSET Kid,
        tenant : Tenant \cup {None}, target : Tenant \cup {"gateway", None}]

ASSUME ConstantsAssumption ==
  /\ DefaultTenant \in Tenant
  /\ Token \subseteq AnyToken
  /\ TTL \in Nat /\ MaxRetired \in Nat /\ TTL < MaxRetired
  /\ CallsFail \in BOOLEAN
  /\ None \notin Tenant \cup Token

VARIABLES
  pool,     \* the user pool's signing keys now (external)
  retired,  \* history: ticks since a key left the pool, 0 while it is in it
  tenants,  \* the tenants there are
  edge,     \* the instance's origin-verify secret, None while it is down
  keys,     \* JWKSVerifier.keys
  age,      \* ticks since JWKSVerifier.fetchedAt
  job

verifier == <<keys, age>>
world == <<pool, retired, tenants>>
vars == <<world, edge, verifier, job>>

Idle == [pc |-> "idle", token |-> None, write |-> FALSE, got |-> {},
         tenant |-> None, target |-> None]

Init ==
  /\ pool \in SUBSET Kid
  /\ retired = [k \in Kid |-> 0]
  /\ tenants \in {{DefaultTenant}, Tenant}
  /\ edge = None
  /\ keys = {} /\ age = 0
  /\ job = [r \in Request |-> Idle]

At(r, pc) == job[r].pc = pc
Goto(r, pc) == job' = [job EXCEPT ![r].pc = pc]

\* An answer with an error, 401, 403 or 5xx.
Refuse(r) == job' = [job EXCEPT ![r] = Idle]

-----------------------------------------------------------------------------

\* A cold start: FetchEdgeSecret fails on an empty secret, and the process
\* exits; apiAuthMiddleware lets no deployed router up without a verifier.
ColdStart ==
  /\ EdgeSecret # ""
  /\ edge' = EdgeSecret
  /\ keys' = {} /\ age' = 0
  /\ job' = [r \in Request |-> Idle]
  /\ UNCHANGED world

\* RequireEdgeSecret, before anything else is looked at, and the bearer token.
Arrive(r, header, token, write) ==
  /\ At(r, "idle")
  /\ edge # None /\ header = edge
  /\ job' = [job EXCEPT ![r] = [Idle EXCEPT !.pc = "verify", !.token = token,
                                            !.write = write]]
  /\ UNCHANGED <<world, edge, verifier>>

-----------------------------------------------------------------------------
(* JWKSVerifier.Verify *)

NeedsFetch == keys = {} \/ age > TTL

EnsureKeys(r) ==
  /\ At(r, "verify")
  /\ Goto(r, IF NeedsFetch THEN "fetch" ELSE "lookup")
  /\ UNCHANGED <<world, edge, verifier>>

\* fetchKeys: the answer of the endpoint; no usable key is an error.
FetchKeys(r) ==
  /\ At(r, "fetch")
  /\ IF pool = {} THEN Refuse(r)
     ELSE job' = [job EXCEPT ![r].pc = "store", ![r].got = pool]
  /\ UNCHANGED <<world, edge, verifier>>

\* Mutant: the keys of a failed fetch stay good for another hour.
FetchFails_Open(r) ==
  /\ CallsFail /\ At(r, "fetch")
  /\ IF keys = {} THEN Refuse(r) ELSE Goto(r, "lookup")
  /\ age' = 0
  /\ UNCHANGED <<world, edge, keys>>

\* ensureKeys: the token is refused, even if the stale keys would verify it.
FetchFails(r) ==
  /\ CallsFail /\ At(r, "fetch")
  /\ Refuse(r)
  /\ UNCHANGED <<world, edge, verifier>>

\* fetchKeys' critical section. A slower fetch overwrites a later answer.
StoreKeys(r) ==
  /\ At(r, "store")
  /\ keys' = job[r].got /\ age' = 0
  /\ job' = [job EXCEPT ![r].pc = "lookup", ![r].got = {}]
  /\ UNCHANGED <<world, edge>>

\* getKey, on the cache as it is by now: an unknown key id fetches nothing.
Verified(token) == token.kid \in keys /\ token.valid

\* RequireAuthWithVerifier: writes for Admins, reads for Operators too.
RoleAllows(token, write) ==
  \/ "Admins" \in token.groups
  \/ ~ write /\ "Operators" \in token.groups

Authenticate(r) ==
  /\ At(r, "lookup")
  /\ IF Verified(job[r].token) /\ RoleAllows(job[r].token, job[r].write)
     THEN Goto(r, "tenant")
     ELSE Refuse(r)
  /\ UNCHANGED <<world, edge, verifier>>

-----------------------------------------------------------------------------
(* The tenant *)

GlobalOperator(token) == "GlobalOperators" \in token.groups

HomeTenant(token) == IF token.claim = None THEN DefaultTenant ELSE token.claim

\* Mutant: the header counts for everyone.
Override_Any(token) == TRUE

Override(token) == GlobalOperator(token)

\* TenantFromJWTForAPI: the X-Tenant-Id header refuses a request of anyone else,
\* it is never just ignored. TenantFromJWT then loads the tenant; a suspended
\* one will do.
ResolveTenant(r, header) ==
  LET slug == IF header = None THEN HomeTenant(job[r].token) ELSE header IN
  /\ At(r, "tenant")
  /\ IF (header = None \/ Override(job[r].token)) /\ slug \in tenants
     THEN job' = [job EXCEPT ![r].pc = "handle", ![r].tenant = slug]
     ELSE Refuse(r)
  /\ UNCHANGED <<world, edge, verifier>>

\* A failed read of the tenant is answered like one that is not there.
ReadFails(r) ==
  /\ CallsFail /\ At(r, "tenant")
  /\ Refuse(r)
  /\ UNCHANGED <<world, edge, verifier>>

\* requireTenantMatch
TenantMatch(j, slug) == slug = j.tenant \/ GlobalOperator(j.token)

Serve(r, target) ==
  /\ job' = [job EXCEPT ![r].pc = "served", ![r].target = target]
  /\ UNCHANGED <<world, edge, verifier>>

\* Applications, sources, mappings, settings, audit: the context's tenant.
HandleContext(r) == At(r, "handle") /\ Serve(r, job[r].tenant)

\* Reading, changing and deleting a tenant, and the onboarding wizard, name it.
HandlePath(r, slug) ==
  /\ At(r, "handle")
  /\ TenantMatch(job[r], slug)
  /\ Serve(r, slug)

\* create-tenant takes any slug, and compares it with no one's tenant; Create is
\* a PutIfNotExists. What was stored is read back; a failed read answers an error.
HandleCreate(r, slug) ==
  /\ At(r, "handle") /\ job[r].write
  /\ \/ /\ slug \notin tenants
        /\ tenants' = tenants \cup {slug}
        /\ \/ job' = [job EXCEPT ![r].pc = "served", ![r].target = slug]
           \/ CallsFail /\ Refuse(r)
     \/ /\ slug \in tenants
        /\ Refuse(r)
        /\ UNCHANGED tenants
  /\ UNCHANGED <<pool, retired, edge, verifier>>

\* A signing request, an import and a promotion of certificates:
\* requireGlobalOperator.
HandleGateway(r) ==
  /\ At(r, "handle") /\ job[r].write
  /\ GlobalOperator(job[r].token)
  /\ Serve(r, "gateway")

\* list-certificates is for everyone with a role.
HandleCertificates(r) ==
  /\ At(r, "handle") /\ ~ job[r].write
  /\ Serve(r, "gateway")

\* A guard of the handler answers 403.
Forbidden(r) ==
  /\ At(r, "handle")
  /\ ~ GlobalOperator(job[r].token)
  /\ Refuse(r)
  /\ UNCHANGED <<world, edge, verifier>>

Respond(r) == /\ At(r, "served")
              /\ Refuse(r)
              /\ UNCHANGED <<world, edge, verifier>>

-----------------------------------------------------------------------------
(* The world around *)

AddKey(k) ==
  /\ k \notin pool /\ retired[k] = 0
  /\ pool' = pool \cup {k}
  /\ UNCHANGED <<retired, tenants, edge, verifier, job>>

\* From the next tick on the key counts as gone.
RemoveKey(k) ==
  /\ k \in pool
  /\ pool' = pool \ {k}
  /\ retired' = [retired EXCEPT ![k] = 1]
  /\ UNCHANGED <<tenants, edge, verifier, job>>

\* Time passes; a fetch in flight (10 seconds at most) is over before it does.
Tick ==
  /\ \A r \in Request : job[r].pc \notin {"fetch", "store", "lookup", "verify"}
  /\ age' = IF age > TTL THEN age ELSE age + 1
  /\ retired' = [k \in Kid |-> IF retired[k] \in {0, MaxRetired} THEN retired[k]
                               ELSE retired[k] + 1]
  /\ UNCHANGED <<pool, tenants, edge, keys, job>>

\* Another request creates or deletes a tenant.
ChangeTenants(t) ==
  /\ t # DefaultTenant
  /\ tenants' = IF t \in tenants THEN tenants \ {t} ELSE tenants \cup {t}
  /\ UNCHANGED <<pool, retired, edge, verifier, job>>

Step(r) ==
  \/ \E token \in Token, write \in BOOLEAN, header \in {EdgeSecret, ""} :
       Arrive(r, header, token, write)
  \/ EnsureKeys(r) \/ FetchKeys(r) \/ FetchFails(r) \/ StoreKeys(r)
  \/ Authenticate(r)
  \/ \E header \in Tenant \cup {None} : ResolveTenant(r, header)
  \/ ReadFails(r)
  \/ HandleContext(r)
  \/ \E slug \in Tenant : HandlePath(r, slug) \/ HandleCreate(r, slug)
  \/ HandleGateway(r) \/ HandleCertificates(r) \/ Forbidden(r) \/ Respond(r)

Next ==
  \/ \E r \in Request : Step(r)
  \/ ColdStart \/ Tick
  \/ \E k \in Kid : AddKey(k) \/ RemoveKey(k)
  \/ \E t \in Tenant : ChangeTenants(t)

Spec == Init /\ [][Next]_vars

-----------------------------------------------------------------------------

\* Every variable has its type: a key is in the pool or has been gone for at
\* most MaxRetired ticks, the cache is at most an hour and a tick old.
TypeOK ==
  /\ pool \subseteq Kid /\ keys \subseteq Kid
  /\ retired \in [Kid -> 0 .. MaxRetired]
  /\ tenants \subseteq Tenant
  /\ edge \in {EdgeSecret, None}
  /\ age \in 0 .. TTL + 1
  /\ job \in [Request -> Job]

\* A request that is served acts where its caller may: in the tenant of its
\* token (the default one for a token without a claim) unless the caller is a
\* global operator, and it writes for Admins only. Two kinds of requests need no
\* global operator outside that tenant: one that creates a tenant there was not,
\* and so touches nobody's, and one that only lists the gateway's certificates.
\* The checks of four packages add up to this, whatever happens between them.
Entitled(r) ==
  At(r, "handle") /\ job'[r].pc = "served" =>
    LET t == job[r].token
        target == job'[r].target
    IN /\ t.valid /\ t.groups \cap {"Admins", "Operators"} # {}
       /\ job[r].write => "Admins" \in t.groups
       /\ \/ target = IF t.claim = None THEN DefaultTenant ELSE t.claim
          \/ "GlobalOperators" \in t.groups
          \/ target \in tenants' \ tenants
          \/ target = "gateway" /\ ~ job[r].write
ServedIsEntitled == [][\A r \in Request : Entitled(r)]_vars

\* A key that left the pool more than the cache's hour ago opens nothing, with
\* failing fetches, fetches that overtake each other and cold starts.
Accepted ==
  \A r \in Request : At(r, "lookup") /\ job'[r].pc = "tenant"
    => retired[job[r].token.kid] <= TTL + 1
RetiredKeyRefused == [][Accepted]_vars

=============================================================================
