--------------------------- MODULE ApiAccess_proofs ---------------------------
(***************************************************************************)
(* Theorems about ApiAccess, for any keys, tenants, tokens, requests and    *)
(* lifetime of the cache. The inductive invariant IInv says what has been   *)
(* established about a request at each of its steps (Checked), and how old  *)
(* a key in the cache can be (CacheOK): a tick passes only while no request *)
(* is between its look at the cache's age and its use of the keys.          *)
(***************************************************************************)
EXTENDS ApiAccess, TLAPS

-----------------------------------------------------------------------------
(* The inductive invariant *)

\* What a request has passed by the time it is at its step.
Checked(j) ==
  /\ j.pc # "idle" => j.token \in Token
  /\ j.pc \in {"tenant", "handle", "served"} =>
       j.token.valid /\ RoleAllows(j.token, j.write)
  /\ j.pc \in {"handle", "served"} =>
       /\ j.tenant \in Tenant
       /\ j.tenant = HomeTenant(j.token) \/ GlobalOperator(j.token)

\* How long ago a cached or fetched key left the pool, at most.
CacheOK ==
  /\ \A k \in pool : retired[k] = 0
  /\ age <= TTL => \A k \in keys : retired[k] <= age + 1
  /\ \A r \in Request :
       /\ job[r].pc = "store" => \A k \in job[r].got : retired[k] <= 1
       /\ job[r].pc = "lookup" => age <= TTL

IInv == TypeOK /\ CacheOK /\ \A r \in Request : Checked(job[r])

-----------------------------------------------------------------------------

LEMMA InitOK == Init => IInv
  BY ConstantsAssumption
  DEF Init, IInv, TypeOK, CacheOK, Checked, Idle, Job, PC

\* A step of one request that leaves the cache and the pool's keys alone.
LEMMA PlaceOK ==
  ASSUME IInv, NEW r \in Request, NEW j \in Job,
         job' = [job EXCEPT ![r] = j], UNCHANGED <<pool, retired, edge, verifier>>,
         tenants' \subseteq Tenant, Checked(j),
         j.pc = "store" => \A k \in j.got : retired[k] <= 1,
         j.pc = "lookup" => age <= TTL
  PROVE  IInv'
<1>1. TypeOK'
  BY DEF IInv, TypeOK, verifier
<1>2. \A q \in Request : job'[q] = IF q = r THEN j ELSE job[q]
  BY DEF IInv, TypeOK
<1>3. CacheOK'
  BY <1>2 DEF IInv, CacheOK, verifier
<1>4. \A q \in Request : Checked(job'[q])
  BY <1>2 DEF IInv
<1> QED
  BY <1>1, <1>3, <1>4 DEF IInv

\* The tenants too.
LEMMA MoveOK ==
  ASSUME IInv, NEW r \in Request, NEW j \in Job,
         job' = [job EXCEPT ![r] = j], UNCHANGED <<world, edge, verifier>>,
         Checked(j),
         j.pc = "store" => \A k \in j.got : retired[k] <= 1,
         j.pc = "lookup" => age <= TTL
  PROVE  IInv'
<1>1. UNCHANGED <<pool, retired, edge, verifier>> /\ tenants' \subseteq Tenant
  BY DEF IInv, TypeOK, world
<1> QED
  BY <1>1, PlaceOK

LEMMA IdleOK == Idle \in Job /\ Idle.pc = "idle" /\ Checked(Idle)
  BY DEF Idle, Job, PC, Checked

\* Refusing a request, for whatever reason.
LEMMA RefuseOK ==
  ASSUME IInv, NEW r \in Request, Refuse(r), UNCHANGED <<world, edge, verifier>>
  PROVE  IInv'
  BY IdleOK, MoveOK DEF Refuse

-----------------------------------------------------------------------------
(* The steps of a request *)

LEMMA ArriveOK ==
  ASSUME IInv, NEW r \in Request, NEW header, NEW token \in Token,
         NEW write \in BOOLEAN, Arrive(r, header, token, write)
  PROVE  IInv'
<1> DEFINE j == [Idle EXCEPT !.pc = "verify", !.token = token, !.write = write]
<1>1. j \in Job /\ j.pc = "verify" /\ j.token = token
  BY DEF Idle, Job, PC
<1>2. Checked(j)
  BY <1>1 DEF Checked
<1> QED
  BY <1>1, <1>2, MoveOK DEF Arrive

\* A request that only moves on keeps everything else it has.
LEMMA GotoKeeps ==
  ASSUME IInv, NEW r \in Request, NEW pc \in PC
  PROVE  LET j == [job[r] EXCEPT !.pc = pc]
         IN /\ j \in Job /\ j.pc = pc
            /\ j.token = job[r].token /\ j.write = job[r].write
            /\ j.got = job[r].got /\ j.tenant = job[r].tenant
            /\ j.target = job[r].target
  BY DEF IInv, TypeOK, Job

LEMMA EnsureKeysOK ==
  ASSUME IInv, NEW r \in Request, EnsureKeys(r)
  PROVE  IInv'
<1> DEFINE pc == IF NeedsFetch THEN "fetch" ELSE "lookup"
           j == [job[r] EXCEPT !.pc = pc]
<1>1. pc \in PC /\ pc \in {"fetch", "lookup"}
  BY DEF PC
<1>2. j \in Job /\ j.pc = pc /\ j.token = job[r].token
  BY <1>1, GotoKeeps
<1>3. Checked(j)
  BY <1>1, <1>2 DEF EnsureKeys, At, Checked, IInv
<1>4. j.pc = "lookup" => age <= TTL
  BY <1>2, ConstantsAssumption DEF NeedsFetch, IInv, TypeOK
<1> HIDE DEF pc
<1> QED
  BY <1>1, <1>2, <1>3, <1>4, MoveOK DEF EnsureKeys, Goto, pc

LEMMA FetchKeysOK ==
  ASSUME IInv, NEW r \in Request, FetchKeys(r)
  PROVE  IInv'
<1>1. CASE pool = {}
  BY <1>1, RefuseOK DEF FetchKeys
<1>2. CASE pool # {}
  <2> DEFINE j == [job[r] EXCEPT !.pc = "store", !.got = pool]
  <2>1. j \in Job /\ j.pc = "store" /\ j.got = pool /\ j.token = job[r].token
    BY DEF IInv, TypeOK, Job, PC
  <2>2. Checked(j)
    BY <2>1 DEF FetchKeys, At, Checked, IInv
  <2>3. \A k \in j.got : retired[k] <= 1
    BY <2>1 DEF IInv, CacheOK
  <2>4. job' = [job EXCEPT ![r] = j] /\ UNCHANGED <<world, edge, verifier>>
    BY <1>2 DEF FetchKeys, IInv, TypeOK
  <2> QED
    BY <2>1, <2>2, <2>3, <2>4, MoveOK
<1> QED
  BY <1>1, <1>2

\* What a fetch stores left the pool a tick ago at most.
LEMMA StoreKeysOK ==
  ASSUME IInv, NEW r \in Request, StoreKeys(r)
  PROVE  IInv'
<1> DEFINE j == [job[r] EXCEPT !.pc = "lookup", !.got = {}]
<1>1. j \in Job /\ j.pc = "lookup" /\ j.token = job[r].token
  BY DEF IInv, TypeOK, Job, PC
<1>2. \A q \in Request : job'[q] = IF q = r THEN j ELSE job[q]
  BY DEF StoreKeys, IInv, TypeOK
<1>3. job[r].got \subseteq Kid
  BY DEF IInv, TypeOK, Job
<1>4. TypeOK'
  BY <1>1, <1>3, ConstantsAssumption DEF StoreKeys, IInv, TypeOK, world
<1>5. CacheOK'
  <2>1. age' = 0 /\ keys' = job[r].got /\ pool' = pool /\ retired' = retired
    BY DEF StoreKeys, world
  <2>2. \A k \in keys' : retired'[k] <= 1
    BY <2>1 DEF StoreKeys, At, IInv, CacheOK
  <2>3. age' <= TTL /\ age' + 1 = 1
    BY <2>1, ConstantsAssumption
  <2>4. ASSUME NEW q \in Request, job'[q].pc = "store"
        PROVE  \A k \in job'[q].got : retired'[k] <= 1
    BY <1>1, <1>2, <2>1, <2>4 DEF IInv, CacheOK
  <2> QED
    BY <2>1, <2>2, <2>3, <2>4 DEF IInv, CacheOK
<1>6. Checked(j)
  BY <1>1 DEF StoreKeys, At, IInv, Checked
<1> QED
  BY <1>2, <1>4, <1>5, <1>6 DEF IInv

LEMMA AuthenticateOK ==
  ASSUME IInv, NEW r \in Request, Authenticate(r)
  PROVE  IInv'
<1> DEFINE passes == Verified(job[r].token) /\ RoleAllows(job[r].token, job[r].write)
           j == [job[r] EXCEPT !.pc = "tenant"]
<1>1. CASE ~passes
  BY <1>1, RefuseOK DEF Authenticate
<1>2. CASE passes
  <2>1. /\ j \in Job /\ j.pc = "tenant"
        /\ j.token = job[r].token /\ j.write = job[r].write
    BY GotoKeeps DEF PC
  <2>2. Checked(j)
    BY <1>2, <2>1 DEF Authenticate, At, Checked, IInv, Verified
  <2> QED
    BY <1>2, <2>1, <2>2, MoveOK DEF Authenticate, Goto
<1> QED
  BY <1>1, <1>2

LEMMA ResolveTenantOK ==
  ASSUME IInv, NEW r \in Request, NEW header \in Tenant \cup {None},
         ResolveTenant(r, header)
  PROVE  IInv'
<1> DEFINE token == job[r].token
           slug == IF header = None THEN HomeTenant(token) ELSE header
           passes == (header = None \/ Override(token)) /\ slug \in tenants
           j == [job[r] EXCEPT !.pc = "handle", !.tenant = slug]
<1>1. CASE ~passes
  BY <1>1, RefuseOK DEF ResolveTenant
<1>2. CASE passes
  <2>1. slug \in Tenant
    BY <1>2 DEF IInv, TypeOK
  <2>2. /\ j \in Job /\ j.pc = "handle" /\ j.tenant = slug
        /\ j.token = token /\ j.write = job[r].write
    BY <2>1 DEF IInv, TypeOK, Job, PC
  <2>3. slug = HomeTenant(token) \/ GlobalOperator(token)
    BY <1>2 DEF Override
  <2>4. Checked(j)
    BY <2>1, <2>2, <2>3 DEF ResolveTenant, At, Checked, IInv
  <2>5. job' = [job EXCEPT ![r] = j] /\ UNCHANGED <<world, edge, verifier>>
    BY <1>2 DEF ResolveTenant, IInv, TypeOK
  <2> QED
    BY <2>2, <2>4, <2>5, MoveOK
<1> QED
  BY <1>1, <1>2

\* A request that is served keeps what it has passed.
LEMMA Served ==
  ASSUME IInv, NEW r \in Request, At(r, "handle"), NEW target \in Tenant \cup {"gateway"}
  PROVE  LET j == [job[r] EXCEPT !.pc = "served", !.target = target]
         IN  j \in Job /\ j.pc = "served" /\ Checked(j)
<1> DEFINE j == [job[r] EXCEPT !.pc = "served", !.target = target]
<1>1. /\ j \in Job /\ j.pc = "served" /\ j.target = target
      /\ j.token = job[r].token /\ j.write = job[r].write
      /\ j.tenant = job[r].tenant
  BY DEF IInv, TypeOK, Job, PC
<1>2. Checked(j)
  BY <1>1 DEF At, Checked, IInv
<1> QED
  BY <1>1, <1>2

LEMMA ServeOK ==
  ASSUME IInv, NEW r \in Request, At(r, "handle"),
         NEW target \in Tenant \cup {"gateway"}, Serve(r, target)
  PROVE  IInv'
<1>1. job' = [job EXCEPT ![r] = [job[r] EXCEPT !.pc = "served", !.target = target]]
  BY DEF Serve, IInv, TypeOK
<1> QED
  BY <1>1, Served, MoveOK DEF Serve

\* Creating a tenant is the one step of a request that changes the tenants.
LEMMA HandleCreateOK ==
  ASSUME IInv, NEW r \in Request, NEW slug \in Tenant, HandleCreate(r, slug)
  PROVE  IInv'
<1>1. /\ UNCHANGED <<pool, retired, edge, verifier>> /\ tenants' \subseteq Tenant
      /\ At(r, "handle")
  BY DEF HandleCreate, IInv, TypeOK
<1>2. \/ job' = [job EXCEPT ![r] = Idle]
      \/ job' = [job EXCEPT ![r] = [job[r] EXCEPT !.pc = "served", !.target = slug]]
  BY DEF HandleCreate, Refuse, IInv, TypeOK
<1>3. CASE job' = [job EXCEPT ![r] = Idle]
  BY <1>1, <1>3, IdleOK, PlaceOK
<1>4. CASE job' = [job EXCEPT ![r] = [job[r] EXCEPT !.pc = "served", !.target = slug]]
  BY <1>1, <1>4, Served, PlaceOK
<1> QED
  BY <1>2, <1>3, <1>4

\* The kinds of handlers.
LEMMA HandlersOK ==
  ASSUME IInv, NEW r \in Request,
         \/ HandleContext(r) \/ HandleGateway(r) \/ HandleCertificates(r)
         \/ \E slug \in Tenant : HandlePath(r, slug) \/ HandleCreate(r, slug)
  PROVE  IInv'
<1>1. CASE HandleContext(r)
  <2>1. job[r].tenant \in Tenant
    BY <1>1 DEF HandleContext, At, IInv, Checked
  <2> QED
    BY <1>1, <2>1, ServeOK DEF HandleContext
<1>2. ASSUME NEW slug \in Tenant, HandlePath(r, slug)
      PROVE  IInv'
  BY <1>2, ServeOK DEF HandlePath
<1>3. CASE HandleGateway(r) \/ HandleCertificates(r)
  BY <1>3, ServeOK DEF HandleGateway, HandleCertificates
<1> QED
  BY <1>1, <1>2, <1>3, HandleCreateOK

-----------------------------------------------------------------------------
(* The instance and the world *)

LEMMA ColdStartOK ==
  ASSUME IInv, ColdStart
  PROVE  IInv'
<1>1. Idle \in Job /\ Idle.pc = "idle"
  BY DEF Idle, Job, PC
<1>2. \A q \in Request : job'[q] = Idle
  BY DEF ColdStart
<1>3. TypeOK'
  <2>1. job' \in [Request -> Job]
    BY <1>1 DEF ColdStart
  <2>2. keys' \subseteq Kid /\ edge' \in {EdgeSecret, None}
    BY DEF ColdStart
  <2>3. age' \in 0 .. TTL + 1
    <3>1. age' = 0
      BY DEF ColdStart
    <3> QED
      BY <3>1, ConstantsAssumption
  <2>4. UNCHANGED <<pool, retired, tenants>>
    BY DEF ColdStart, world
  <2> QED
    BY <2>1, <2>2, <2>3, <2>4 DEF IInv, TypeOK
<1>4. CacheOK'
  BY <1>1, <1>2 DEF IInv, CacheOK, ColdStart, world
<1>5. \A q \in Request : Checked(job'[q])
  BY <1>1, <1>2 DEF Checked
<1> QED
  BY <1>3, <1>4, <1>5 DEF IInv

\* A tick passes for the cache as for the keys that are gone.
LEMMA TickOK ==
  ASSUME IInv, Tick
  PROVE  IInv'
<1>1. TypeOK'
  BY ConstantsAssumption DEF IInv, TypeOK, Tick
<1>2. \A k \in Kid : /\ retired[k] \in Nat /\ retired'[k] <= retired[k] + 1
                     /\ retired[k] = 0 => retired'[k] = 0
  BY ConstantsAssumption DEF IInv, TypeOK, Tick
<1>3. CacheOK'
  <2>1. \A k \in pool' : retired'[k] = 0
    BY <1>2 DEF IInv, TypeOK, CacheOK, Tick
  <2>2. age' <= TTL => \A k \in keys' : retired'[k] <= age' + 1
    <3>1. age \in Nat /\ TTL \in Nat /\ age' = IF age > TTL THEN age ELSE age + 1
      BY ConstantsAssumption DEF IInv, TypeOK, Tick
    <3>2. keys' = keys /\ keys \subseteq Kid
      BY DEF IInv, TypeOK, Tick
    <3>3. age' <= TTL => age <= TTL /\ age' = age + 1
      BY <3>1
    <3>4. ASSUME age' <= TTL, NEW k \in keys' PROVE retired'[k] <= age' + 1
      <4>1. retired[k] <= age + 1 /\ k \in Kid
        BY <3>2, <3>3, <3>4 DEF IInv, CacheOK
      <4>2. retired[k] \in Nat /\ retired'[k] \in Nat
          /\ retired'[k] <= retired[k] + 1
        BY <1>1, <1>2, <4>1, ConstantsAssumption DEF TypeOK
      <4> QED
        BY <3>1, <3>3, <3>4, <4>1, <4>2
    <3> QED
      BY <3>4
  <2> QED
    BY <2>1, <2>2 DEF CacheOK, Tick
<1>4. \A q \in Request : Checked(job'[q])
  BY DEF IInv, Tick
<1> QED
  BY <1>1, <1>3, <1>4 DEF IInv

LEMMA WorldOK ==
  ASSUME IInv,
         (\E k \in Kid : AddKey(k) \/ RemoveKey(k)) \/ (\E t \in Tenant : ChangeTenants(t))
  PROVE  IInv'
<1>1. CASE \E k \in Kid : AddKey(k)
  BY <1>1 DEF AddKey, IInv, TypeOK, CacheOK, verifier
<1>2. CASE \E k \in Kid : RemoveKey(k)
  <2>1. PICK k \in Kid : RemoveKey(k)
    BY <1>2
  <2>2. TypeOK'
    BY <2>1, ConstantsAssumption DEF RemoveKey, IInv, TypeOK, verifier
  <2>3. \A q \in Kid : retired'[q] = IF q = k THEN 1 ELSE retired[q]
    BY <2>1 DEF RemoveKey, IInv, TypeOK
  <2>4. age \in Nat /\ keys \subseteq Kid /\ \A r \in Request : job[r].got \subseteq Kid
    BY ConstantsAssumption DEF IInv, TypeOK, Job
  <2>5. CacheOK'
    BY <2>1, <2>3, <2>4 DEF RemoveKey, IInv, TypeOK, CacheOK, verifier
  <2> QED
    BY <2>1, <2>2, <2>5 DEF RemoveKey, IInv
<1>3. CASE \E t \in Tenant : ChangeTenants(t)
  BY <1>3 DEF ChangeTenants, IInv, TypeOK, CacheOK, verifier
<1> QED
  BY <1>1, <1>2, <1>3

-----------------------------------------------------------------------------
(* Theorems *)

LEMMA StepOK ==
  ASSUME IInv, NEW r \in Request, Step(r)
  PROVE  IInv'
<1>1. CASE \E token \in Token, write \in BOOLEAN, header \in {EdgeSecret, ""} :
             Arrive(r, header, token, write)
  BY <1>1, ArriveOK
<1>2. CASE FetchFails(r) \/ ReadFails(r) \/ Forbidden(r) \/ Respond(r)
  BY <1>2, RefuseOK DEF FetchFails, ReadFails, Forbidden, Respond
<1>3. CASE \E header \in Tenant \cup {None} : ResolveTenant(r, header)
  BY <1>3, ResolveTenantOK
<1> QED
  BY <1>1, <1>2, <1>3, EnsureKeysOK, FetchKeysOK, StoreKeysOK, AuthenticateOK,
     HandlersOK DEF Step

LEMMA NextOK == IInv /\ [Next]_vars => IInv'
<1>1. ASSUME IInv, Next PROVE IInv'
  BY <1>1, StepOK, ColdStartOK, TickOK, WorldOK DEF Next
<1>2. ASSUME IInv, UNCHANGED vars PROVE IInv'
  BY <1>2 DEF IInv, TypeOK, CacheOK, vars, world, verifier
<1> QED
  BY <1>1, <1>2

\* A request gets past the look at the keys only with a key that is cached.
LEMMA LookupOnly ==
  ASSUME IInv, Next, NEW r \in Request,
         job[r].pc = "lookup", job'[r].pc = "tenant"
  PROVE  job[r].token.kid \in keys
<1>1. \A q \in Request : Idle.pc = "idle" /\ job[q] \in Job
  BY DEF Idle, IInv, TypeOK
<1>2. PICK q \in Request : Step(q)
  BY <1>1 DEF Next, ColdStart, Tick, AddKey, RemoveKey, ChangeTenants
<1>3. \A x \in Request \ {q} : job'[x] = job[x]
  BY <1>2 DEF IInv, TypeOK, Step, Arrive, EnsureKeys, FetchKeys, FetchFails, StoreKeys,
     Authenticate, ResolveTenant, ReadFails, HandleContext, HandlePath, HandleCreate,
     HandleGateway, HandleCertificates, Forbidden, Respond, Serve, Refuse, Goto
<1>4. q = r
  BY <1>3
<1>5. CASE Authenticate(r)
  BY <1>1, <1>5 DEF Authenticate, Refuse, Verified, IInv, TypeOK
<1>6. CASE FetchFails(r) \/ ReadFails(r) \/ Forbidden(r) \/ Respond(r)
  BY <1>1, <1>6 DEF FetchFails, ReadFails, Forbidden, Respond, Refuse, IInv, TypeOK
<1>7. ~Authenticate(r) => FetchFails(r) \/ ReadFails(r) \/ Forbidden(r) \/ Respond(r)
  BY <1>2, <1>4 DEF Step, Arrive, EnsureKeys, FetchKeys, StoreKeys, ResolveTenant,
     HandleContext, HandlePath, HandleCreate, HandleGateway, HandleCertificates, At
<1> QED
  BY <1>5, <1>6, <1>7

\* A request is served by one of its handlers.
LEMMA HandlersOnly ==
  ASSUME IInv, Next, NEW r \in Request,
         job[r].pc = "handle", job'[r].pc = "served"
  PROVE  \/ HandleContext(r) \/ HandleGateway(r) \/ HandleCertificates(r)
         \/ \E slug \in Tenant : HandlePath(r, slug) \/ HandleCreate(r, slug)
<1>1. \A q \in Request : Idle.pc = "idle" /\ job[q] \in Job
  BY DEF Idle, IInv, TypeOK
<1>2. PICK q \in Request : Step(q)
  BY <1>1 DEF Next, ColdStart, Tick, AddKey, RemoveKey, ChangeTenants
<1>3. \A x \in Request \ {q} : job'[x] = job[x]
  BY <1>2 DEF IInv, TypeOK, Step, Arrive, EnsureKeys, FetchKeys, FetchFails, StoreKeys,
     Authenticate, ResolveTenant, ReadFails, HandleContext, HandlePath, HandleCreate,
     HandleGateway, HandleCertificates, Forbidden, Respond, Serve, Refuse, Goto
<1>4. q = r
  BY <1>3
<1>5. ~ (FetchFails(r) \/ ReadFails(r) \/ Forbidden(r) \/ Respond(r))
  BY <1>1 DEF FetchFails, ReadFails, Forbidden, Respond, Refuse, IInv, TypeOK
<1> QED
  BY <1>2, <1>4, <1>5 DEF Step, Arrive, EnsureKeys, FetchKeys, StoreKeys, Authenticate,
     ResolveTenant, At

\* The inductive invariant of requests and cache holds in every reachable
\* state (RequireAuthWithVerifier, TenantFromJWTForAPI, JWKSVerifier).
THEOREM Invariance == Spec => []IInv
  BY InitOK, NextOK, PTL DEF Spec

\* Every variable keeps its type: a request resolved to no tenant never reaches
\* a handler (TenantFromJWT).
THEOREM TypeCorrect == Spec => []TypeOK
<1>1. IInv => TypeOK
  BY DEF IInv
<1> QED
  BY <1>1, Invariance, PTL

\* Served requests are entitled to what they get, for any tokens and tenants
\* and whatever happens to the tenants meanwhile: what a request has passed before
\* its handler (Checked) and the handler's own guard (requireTenantMatch,
\* requireGlobalOperator, the conditional put of a new tenant) are enough.
THEOREM OnlyEntitled == Spec => ServedIsEntitled
<1>1. ASSUME IInv, Next, NEW r \in Request
      PROVE  Entitled(r)
  <2> SUFFICES ASSUME At(r, "handle"), job'[r].pc = "served"
               PROVE  Entitled(r)
    BY DEF Entitled
  <2>1. /\ job[r].token.valid /\ RoleAllows(job[r].token, job[r].write)
        /\ job[r].tenant = HomeTenant(job[r].token) \/ GlobalOperator(job[r].token)
    BY <1>1 DEF At, IInv, Checked
  <2>2. \/ HandleContext(r) \/ HandleGateway(r) \/ HandleCertificates(r)
        \/ \E slug \in Tenant : HandlePath(r, slug) \/ HandleCreate(r, slug)
    BY <1>1, HandlersOnly DEF At
  <2>3. /\ \A target : Serve(r, target) => job'[r].target = target
        /\ Idle.pc # "served"
    BY <1>1 DEF Serve, Idle, IInv, TypeOK, Job
  <2>4. \/ job'[r].target = HomeTenant(job[r].token)
        \/ GlobalOperator(job[r].token)
        \/ job'[r].target \in tenants' \ tenants
        \/ job'[r].target = "gateway" /\ ~ job[r].write
    <3>1. CASE HandleContext(r)
      BY <2>1, <2>3, <3>1 DEF HandleContext
    <3>2. CASE HandleGateway(r) \/ HandleCertificates(r)
      BY <2>3, <3>2 DEF HandleGateway, HandleCertificates
    <3>3. ASSUME NEW slug \in Tenant, HandlePath(r, slug)
          PROVE  job'[r].target = HomeTenant(job[r].token) \/ GlobalOperator(job[r].token)
      BY <2>1, <2>3, <3>3 DEF HandlePath, TenantMatch
    <3>4. ASSUME NEW slug \in Tenant, HandleCreate(r, slug)
          PROVE  job'[r].target \in tenants' \ tenants
      BY <1>1, <2>3, <3>4 DEF HandleCreate, Refuse, IInv, TypeOK, Job
    <3> QED
      BY <2>2, <3>1, <3>2, <3>3, <3>4
  <2> QED
    BY <2>1, <2>4 DEF Entitled, RoleAllows, GlobalOperator, HomeTenant
<1>2. IInv /\ [Next]_vars => [\A r \in Request : Entitled(r)]_vars
  BY <1>1
<1> QED
  BY <1>2, Invariance, PTL DEF Spec, ServedIsEntitled

\* The cache's lifetime and a tick bound how long a key that left the pool is
\* accepted (JWKSVerifier.ensureKeys, fetchKeys).
THEOREM KeysExpire == Spec => RetiredKeyRefused
<1>1. ASSUME IInv, Next, NEW r \in Request, At(r, "lookup"), job'[r].pc = "tenant"
      PROVE  retired[job[r].token.kid] <= TTL + 1
  <2>1. /\ job[r].pc = "lookup" /\ job[r].token \in Token
        /\ age <= TTL /\ age \in Nat /\ TTL \in Nat
    BY <1>1, ConstantsAssumption DEF At, IInv, TypeOK, CacheOK, Checked
  <2>2. job[r].token.kid \in keys
    BY <1>1, <2>1, LookupOnly
  <2>3. PICK k \in keys : k = job[r].token.kid
    BY <2>2
  <2>4. retired[k] <= age + 1
    BY <1>1, <2>1 DEF IInv, CacheOK
  <2>5. k \in Kid /\ retired[k] \in Nat
    BY <1>1, ConstantsAssumption DEF IInv, TypeOK
  <2> QED
    BY <2>1, <2>3, <2>4, <2>5
<1>2. IInv /\ [Next]_vars => [Accepted]_vars
  BY <1>1 DEF Accepted
<1> QED
  BY <1>2, Invariance, PTL DEF Spec, RetiredKeyRefused

=============================================================================
