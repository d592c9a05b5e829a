# A TLA+ verification of the Cognito OIDC/SAML gateway

The gateway sits between service providers (SAML service providers and OIDC clients) and the
Cognito user pools of many tenants. It runs as a handful of AWS Lambda functions that hold no
per-user state in memory. Everything they agree on is in one DynamoDB table, reached through
single-item calls (Get, Put, PutIfNotExists, Delete, Query), never through a transaction, and in
signed cookies held by browsers. A request is therefore a sequence of atomic table calls; any
other request, and a time-out of the Lambda, may come between two of them. That is where this
code can go wrong in ways a unit test hardly reaches, and it is what the modules here are about.

All paths below are relative to `src/`; `internal/` is left out of most of them.

## Files

| Module | What it is |
|---|---|
| `OIDCTokens` | OIDC access and refresh tokens: issue, indexing, rotation, expiry, logout, revocation |
| `AuthCode` | what precedes them: the authorization request, its login, its code, the exchange |
| `SAMLSession` | SAML sign-on, session cookies, custom login, single logout, in numeric time |
| `EntityDirectory` | what a tenant's application registry promises, in single steps |
| `AppRegistry` | the registry as the code keeps it: items, configurations and entityID reservations |
| `ClaimMappings` | an application's claim and role mappings, and the three evaluators that read them |
| `SAMLResponse` | extends it: a SAML configuration, its edits, and the responses made from it |
| `LogoutBinding` | extends that: the query string of a logout, its signature, its answer |
| `OIDCClient` | extends `ClaimMappings`: an OIDC client's configuration and its secret |
| `Applications` | composes the last three: one application, of either protocol |
| `Onboarding` | one tenant: the onboarding wizard, the tenant and source endpoints, the assumed role |
| `CertRotation` | signing certificates: rotation check, imports, promotions, instances, metadata |
| `ApiAccess` | the management API's guards, and the key cache they share |
| `OIDCTokens_proofs`, `AuthCode_proofs`, `SAMLSession_proofs`, `AppRegistry_proofs`, `Applications_proofs`, `Onboarding_proofs`, `CertRotation_proofs`, `ApiAccess_proofs` | inductive invariants and theorems, one module per component |
| `MC...` | small instances for TLC: model values, bounds, symmetry |

`PROJECT.json` lists components, runs, mutants (for every property of a passing run, a plausible
bug in the code that breaks it), the source lines each definition translates, hazards, findings
and theorems. A run is `tlc -config X.cfg M`, a proof is `tlapm M.tla`.

## Inventory

### OIDC provider (`oidc/`)

*Tokens* (`storage.go`, `refresh_token.go`). State: `TOKEN#` and `REFRESH#` items keyed by a random
value, and `OIDCSESSION#` index rows, one per token, partitioned by tenant, user and client.
Operations: the storage callbacks of the zitadel/oidc library, `CreateAccessToken`,
`CreateAccessAndRefreshTokens`, `TokenRequestByRefreshToken`, `TerminateSession`, `RevokeToken`,
`SetUserinfoFromToken`. Hard: rotation, logout and revocation of one session run on different Lambdas
over unconditional writes, several of them best-effort. Correct when logout can find every token
a client holds, an answered rotation or logout has retired what it should, nobody deletes
another's tokens, and what was started takes effect.

*Authorization requests and codes* (`storage.go`, `auth_request.go`). State: `AUTHREQ#` and `AUTHCODE#`
items. `SaveAuthCode` and `CompleteAuthRequest` each read, change and write back the whole request;
request and code are removed at the end of the exchange. Correct when tokens go to the client and user of
a login that took place, and no overwrite undoes a completion or allows a second exchange.

*Interactive login* (`login.go`). State: a flow cookie, or a pending login and a binding cookie, and the
auth request. Correct when a login completes the request it was started for, from the browser and the
identity source it was started with, once.

*Clients and keys* (`client.go`, `verification_keys.go`). State: the client's configuration with its
secret; the signing key an instance chose at its start. Correct when only the current secret
authenticates, when updates keep the secret they do not mean to change, and when discovery publishes the
key that tokens are signed with.

### SAML identity provider (`saml/`)

*Sign-on* (`idp.go`, `session_provider.go`). State: the session cookie, a signed envelope that nothing
on the server side records; the flow cookie of a hosted login; `PENDINGLOGIN#` items of custom
logins; `REPLAY#` items, the AuthnRequest IDs already claimed. `GetSession` has four ways to a
session: reuse a bound, unexpired, unrevoked cookie; a bearer ID token; a custom login page; the
Cognito hosted UI. Hard: an AuthnRequest may be presented any number of times; a cookie may be
copied; the checks are on different clocks.

*Single logout* (`slo.go`). State: `REPLAY#` items for LogoutRequest IDs and `SESSION#../REVOKED`
markers. Correct when a logout puts every copy of the cookie out for as long as it would have
been valid, and when a signed logout URL works once.

*Responses* (`idp.go`, `sp_provider.go`, `nameid.go`, `durations.go`, `assertion_maker.go`). State: the
application's configuration, read up to four times by one request, and the session minted earlier under
another version of it. Correct when the response speaks of the user who logged in, when one NameID never
names two users, when a disabled application gets none, and when encryption is not lost by an edit.

*Logout binding* (`slo.go`): a query string, of which raw bytes are verified and decoded values are used.
Correct when they are the same message.

### Administration (`store/`, `api/`, `service/`, `crypto/`)

*Application registry* (`store/app_store.go`): application and configuration items, and a uniqueness
marker per entityID, kept in step by hand over five kinds of write. Correct when two applications of
a tenant never hold one entityID and no entityID is reserved for nobody.
*Tenants, sources and the wizard* (`store/tenant_store.go`, `service/onboarding/service.go`,
`aws/sts/provider.go`). State: the tenant's row, the wizard's row, the sources, the assumed roles a warm
instance caches. All rows are read, changed and put back whole, with AWS calls in between. Correct when an
active tenant has the capabilities that were probed, an interrupted wizard can be resumed, and the
ExternalID a customer deployed stays valid.
*Signing certificates* (`crypto/cert_store.go`, `cert_rotation.go`, `service/cert_manager.go`): an active, a
next and a backup slot, a rotation check, operators' imports and promotions, and instances that keep what
they read at their start. Correct when service providers have seen a certificate before assertions are
signed with it, and an imported one is never replaced by a self-signed one.
*Claim mappings* (`store/claim_store.go`): rows replaced one call at a time, read by three evaluators.
Correct when what is released follows the last complete replacement, and the evaluators agree.
*API authorization* (`middleware/`, `cognito/jwks.go`): a cache of the user pool's keys, filled by concurrent
requests; guards in three packages. Correct when a served request was entitled to its tenant, and a
retired key stops working.
*Audit, metrics, settings*: write-only.

### How the parts meet

Through the table only. The management API changes an application's status while tokens are refreshed
(`SetStatus` in `OIDCTokens`); SLO writes the marker that sign-on reads on another Lambda
(`RevokeSession` and `CheckRevoked` in `SAMLSession`); an edit of a configuration or of mappings meets the
responses being made from it (`Applications`); a promoted certificate meets instances that were started
before (`CertRotation`). The two protocols share the replay and pending-login stores but not their keys. DynamoDB deletes items some time after their TTL.
The list of hazards in `PROJECT.json` names the line at which each of these bites.

## OIDCTokens

*State.* `tokens` is the two item families by token value (they have different keys, so an operation
of one kind never touches the other: `Without`); `index` the session rows; `active` the applications
whose status is active (disabled and deleted are one: neither is served); `expired` the values past
their `ExpiresAt`; `job` the request each handler serves, with what it has read so far. The other
variables are history for the properties.

*Actions.* One per store call. A code grant is `StartCodeGrant`, `PutAccess`, `IndexAccess`, then with
`offline_access` `PutRefresh`, `IndexRefresh`, then `Respond`. A refresh begins with `StartRefresh` (the
library has authenticated the client), `GetRefresh`, `GetApp`, continues as above and, before
`Respond`, does `DropOld` and `DropOldIndex`. `DropRefused` is the branch of an inactive
application. Logout is `StartLogout`, `QueryIndex` (a snapshot), then `SweepToken` and `SweepIndex` for
each row. Revocation is `StartRevoke`, `GetRevoked`, `DeleteRevoked`. The environment changes an
application's status, lets tokens expire and DynamoDB sweep, and cuts a request off (`Crash`).

*Failures.* `Fault` names the calls that may fail. A call that fails changes nothing; a write that
was applied although its caller saw an error is the same as a `Crash` after it. The best-effort
calls (`indexSessionToken`, the Deletes of rotation and sweep) drop their error in the code; `lost` remembers
the tokens this happened to, and only those are exempt from the properties.

*Properties and runs.*

| Run | Bounds | Shows |
|---|---|---|
| `tokens_rotation` | 1 tenant, 1 client, 4 tokens, 2 handlers, index writes may fail | `IndexCoversTokens`: whatever is in a client's hands can be found by logout. `RotationRetiresParent`: an answered rotation has retired the presented token. `LogoutRevokes`: nothing a logout owed is usable after its success |
| `tokens_isolation` | 2 tenants with a client each, 2 tokens, all faults and crashes | `IndexFaithful`: rows lead to tokens of their own session and kind; `RemovalsAreOwn`: no step deletes a live token of another client or tenant |
| `tokens_liveness` | 1 client, 4 tokens, no faults, fair handlers; past the first grant one rotation at a time beside a logout or a revocation | `LogoutTakesEffect`, `RevocationTakesEffect`: whatever the other handler does meanwhile |

Two handlers are enough for every race of two requests, and a third adds only a request that could as
well have finished: each action reads and writes items of one session. Four tokens are two grants, or
a grant and its rotation, in full. `MaxMishaps` (expiries, lost writes and inactive applications
together) and `MaxDangling` (rows whose token is gone) keep the state space finite in practice;
they are constraints of the instances, not of the specification. `NoRevoke` and `LossesOnly`
leave endpoints and mishaps out of a run; `tokens_isolation` has them all. In the liveness run, where symmetry
is unsound, `InOrder` mints the interchangeable token values in one order, and `OneRotation` keeps the third and fourth
for a rotation, which gets from its read to `DropOld` at every point of the logout or revocation beside it.

*Fairness* (`FairSpec`): weak fairness of the store calls of each handler, because Lambda keeps running a
request it accepted. Nothing is assumed of clients, operators or DynamoDB's sweep. There are no
crashes and no faults in that run: with them a logout need not take effect.

*Proofs.* `IInv` adds to the safety properties what a request in flight knows. The properties alone are
not inductive: that `Respond` keeps `IndexCoversTokens` rests on the tokens in the job being indexed
already (`AccessMinted`, `RefreshMinted`); that `DropOldIndex` may remove a row rests on its
token having been retired first (`RetiredFirst`); that a sweep's end proves `LogoutRevokes` rests on each
owed token still having a row in the snapshot (`Sweep`); and all of it on values being
minted once (`MintedOnce`). `Progress` says what any step at all does to these facts, so each
action has to be examined for its own request only. `Covers`, `Faithful`, `Retires`, `Revokes` and
`OwnRemovals` then hold for every value of the constants, faults and crashes included.

## AuthCode

*State.* `authreq`, `codes` and `pending` are the item families, `overdue` the pending logins past their
expiry, which their reads honour (an auth request's or a code's TTL no read compares: they work until DynamoDB
removes them, `ReapRequest` and `ReapCode`); `flowCookie` and `binding` the browsers'
cookies; `job` the request each handler serves, with the row it read. History: which browser was sent to
which source for which request (`begun`), who logged in (`logins`), what was granted.

*Actions.* `CreateAuthRequest`, `HandleLogin`, `HandleCustomLogin` and `HandleCallback` are the handlers of those
names up to their first store call on the request; `HandleLoginComplete`, `Consume`, `LoadRequest` the custom
hand-back call by call. Both logins end in `CompleteAuthRequest`. `AuthorizeCallback`, `SaveCode`,
`ReadBack`, `WriteBack` issue a code; `StartExchange`, `ReadRequest`, `DropRead`, `DropCode`, `DropRequest` exchange it.
`ReadBack` and `WriteBack` are the two halves of an unconditional overwrite, as are the halves of
`CompleteAuthRequest` and its load.

| Run | Bounds | Shows |
|---|---|---|
| `authcode_flow` | 1 request for a hosted or a custom client, 2 browsers, 2 sources, 2 handlers, 2 codes; deletes fail, handlers crash, TTLs run out | `GrantIsAuthenticated`; `LoginBoundToBrowser`; `SingleUse`; `CompletionNotLost`; `ForeignPostConsumesNothing` |

`SingleUse` does not say that a code is exchanged once: the code does not ensure it. It says exactly when it is
not: a second exchange answers only if some handler had read the request before the first deleted it, or
a delete failed; likewise for pending logins. `CompletionNotLost` is where the overwrites could do worst:
each writer puts a row read some calls ago, and it is the order `AuthRequest.Done` imposes that keeps an
older row from undoing a completion. One request is enough, since rows of different requests share
nothing but the browser's cookies, which `MaxBegun` logins exercise; two handlers because a conflict is
between two readers of one row. Neither bound is left to trust for the five properties: they are proved for any.

*Proofs.* Redirects and logins are never undone, so whatever is backed by them stays so, however old the row a
handler holds: `JobOK` says what each handler may rely on at each of its calls, `StoreOK`, `CodesOK` and `CookiesOK`
what a stored request, a code, a cookie and a pending login prove. A handler of `SaveAuthCode` that is about to
put its row holds a completed one, because a code exists for completed requests only: hence `CompletionKept`.
`SingleUse` needs to know that nobody is left: `Sealed` says that after an unraced deletion the request is gone
and no handler holds its row, so none can bring it back (`NoRevival`), and `FlowsSealed` that a used pending login
has one handler going on with it, once. A step's effect on the facts it does not touch is shown once, in `ReadingOK`
and `WritingOK`; each action's lemma shows the rest.

## SAMLSession

*State.* `now` is a clock; `authn` and `logout` the messages service providers have signed; `cookie` the
session cookies, by SessionIndex, with their binding and expiry (a cookie is never removed: copies
of it stay); `flows` the flow cookies, which nothing on the server ever spends: the callback only asks the browser
to drop them; `pending`, `seen` and `marker` the three item families with their expiry; `job` requests in
flight. History: flow IDs used, assertions sent (with `barred`: when the session had last been revoked before the
request began), when sessions were revoked, when message IDs were claimed, and in each cookie the login it comes from.

*Actions.* `StartSSO` is `ServeSSO` with crewjam's validation and the first half of `GetSession`: with a
reusable cookie the revocation check follows (`CheckRevoked`, in which a failed Get means a new
login), else the login. `BearerLogin`, `CustomRedirect` and `HostedRedirect` are the three ways to
log in, `RefuseLogin` the rejected claim. A hosted login comes back with a code and a copy of its flow cookie, as often as
there are codes (`StartCallback`); the code is exchanged over the network and gives a session or not
(`HandleCallback`). `StartComplete` (the Get) and `Consume` (the Delete and the rest) end a custom one. Both resume
`ServeSSO`, which validates the original AuthnRequest again: an assertion goes out only if it is still fresh (`Resume`).
`StartSLO`, `ClaimLogout` and `RevokeSession` are `HandleSLO`. Messages without an ID (`Anonymous`) are not
claimed, by either protocol half (`Claim`). `Tick` advances the clock unless a request is older than `Timeout`,
and the `Sweep*` actions are DynamoDB's TTL, at any time after an item's expiry.

*Time.* In the code a session lasts 8 h by default and up to 24 h, its marker 9 h; an AuthnRequest (crewjam's
90 s) is claimed for 5 min; a LogoutRequest lives `MaxAge + Skew` (5 + 3 min) from its date, which may be `Skew` ahead, and its
claim as long from the first acceptance; a Lambda serves a request for 30 s at most
(`infra/modules/common/outputs.tf`). The specification and its theorems assume none of these orders. `Horizon` stops the
clock of a run, late enough for its TTLs to pass after the first event. `Ahead` bounds how far service providers' clocks are ahead.

*Properties and runs.*

| Run | Bounds | Shows |
|---|---|---|
| `saml_logout` | 1 tenant, 1 session, shorter or longer than the marker (1 and 3 to 2), 1 AuthnRequest, 2 LogoutRequests (one without an ID), dated up to 1 ahead, 2 handlers, `Horizon` 3; revocation checks and marker writes may fail | `RevokedStaysOut`: no request that starts after a recorded logout gets an assertion from a copy of the cookie while the marker lasts, and afterwards only from a session configured to outlive it; `LogoutOnce`: a LogoutRequest with an ID is carried out again only after its record's end, and only if it was dated ahead when first carried out |
| `saml_login` | 2 tenants that registered one entityID, a custom login page, 2 sessions, 2 AuthnRequests (one without an ID, one possibly dated ahead), 1 flow, all faults, crashes, `Horizon` 3 | `LoginOnce`: hosted and bearer logins for one AuthnRequest go back to one claim, or the claim ran out while the request was fresh; `AssertionsBound`: assertions speak of a session of the request's tenant and service provider |

The first durations are chosen for the cases to happen: a session outlives its marker, and a record ends while its request is still
acceptable, so that the exceptions of both properties are reached. One session is enough for a revocation, which concerns no other.
`LoginOnce` does not say that a request gives one session: two people who log in at one authorize URL, or two codes of one browser, give two
from one claim. `TwoRequests` and `LoginsInTime` send the requests early and bound assertions to two and flow cookies to two (login) or one (logout).

*Proofs*, without any condition on lifetimes, windows, clocks or DynamoDB's deletions. The inductive invariant `IInv` adds: what
a handler read is still true of messages and cookies, and how old the handler may be (`JobOK`); that cookies, flows,
pending logins and assertions refer to messages that exist (`Links`); that a marker is there for `MarkerTTL` after the last
revocation (`Markers`); that the claims of a message are more than its TTL apart and made while it was acceptable
(`ClaimsOK`); and that a claim has become flow cookies or one session by token, and a hosted session has its flow cookie
(`OneLogin`). `Revocation` compares the request's start, the marker's end and the cookie's; `NoLogoutReplay` and
`NoLoginReplay` compare two claims with the window of the message between them. What the comments of the code claim beyond that is
findings 4 and 5.

## AppRegistry

*State.* `apps`, `configs` and `marker` are the three item families: an application with its entityID and
status, its SAML configuration (of which only the entityID matters here), and the `ENTITYUNIQUE#` item
that reserves an entityID for an application. `job` is a management request in flight. History: application
IDs generated and deleted, `damaged`, the applications of a request that failed half-way or was cut off, `mixed`, those that two
requests were about at the same time, and `had`, the entityIDs ever reserved for each.

*Actions.* One per table call; consecutive reads of one item are one. Create (also the metadata import) is
`StartCreate`, `ReserveFirst` (the conditional put), `PutNew`, `PutNewConfig`; a failed `PutNew` is followed by
`Rollback`. Update and the status handlers are `GetApp`, `GetKeys` (the second read, for the keys), `PutApp`;
an update with a SAML block goes on with `GetOld`, `ReserveNew` if the entityID is new, `PutConfig`
(or `Rollback`), `PutRaw`, and `ReleaseOld`. Delete is `GetDeleted`, `DeleteApp`, and, their errors dropped,
`DeleteConfig` and `ReleaseLast`. Only the markers are written conditionally; `PutApp` and `PutRaw` write back an
item read earlier. `Blank` is the empty entityID, which a SAML application without a SAML block gets: it is
reserved like any other but never released by a rename or delete. Requests about one application overlap as they like; an update
that read the item before a disable or a delete writes it back as it was (finding 6).

*Properties and runs.*

| Run | Bounds | Shows |
|---|---|---|
| `registry_requests` | 2 applications, 2 entityIDs and the blank one, 2 requests that may be about one application; Puts and Deletes fail, requests are cut off | `EntityIDsUnique`, except entityIDs once reserved for a mixed application (`Suspect`); `ConfigsAgree`: item and configuration carry one entityID; `NoOrphans`: nothing is reserved for nobody; `StatusOnPurpose`: only enable and disable change a status, or an overlapping request undoes them; `ImplementsDirectory`: the whole is `EntityDirectory`, with each operation taking effect at one call |

Two applications and two requests are enough for a conflict over an entityID: a third applicant for it
sees what the second sees. The applications are created, renamed between the two entityIDs, and
deleted in every order. `Apart` keeps the run finite in practice: one application damaged by a fault, or one with overlapping requests and
then no damage. There is no liveness to check: a request ends after a fixed number of calls.

*Refinement.* `Entry` maps an application to the entityID its item has, from `PutNew` on, and to "gone" from
`DeleteApp` on; `claimed` is `had`, and `loose` is `mixed`. Configurations and requests have no counterpart: that `Claim`,
`Register` and `Rename` are only done when the entityID is free is exactly what the markers are for. The directory promises a loose
application nothing but that it is found under something it claimed, or not at all (`Stray`), and to the others that they are
never found under an entityID another one has, unless a loose one ever claimed it (`Open`). Nothing is promised beyond that
because the code does not keep it.

*Proofs*, for any overlaps, faults and crashes. The properties are not inductive. `JobOK` says for each
place in a request what it has once reserved (`OnceHad`) and, if its application has no overlapping requests, what it still knows: the
item it read is the one in the table (`ItemKnown`), which reservation it has made or has to give back, and that it is its own
unless suspect (`Reserved`), and how far the configuration is from the item (`ConfigKnown`). `AppOK` says that an
application's entityID is reserved for it or suspect, and that any other reservation it has is the business of a request.
A step touches one application's items, markers that were free or its own, and suspect markers (`Touches`); the lemma
`Frame` carries over everything known of the others, and each action is examined alone. `Uniqueness`, `Agreement`,
`GivenBack`, `OnPurpose` and `Implements` follow, from `ConstantsAssumption` alone. The exceptions are needed: without them TLC finds finding 6.

## Applications

One application, of the protocol its creation chooses; `protocol`, `app` (its status) and the mapping tables
are shared, and each module owns the rest.

*ClaimMappings.* `stored` is the rows of the two tables, `put` the PUTs in flight, `read` the evaluations. A PUT is
`StartPut` (the Query), `DeleteOld` for each row found, with errors dropped, `PutNext` for each new one, in
order, and `FinishPut`; `AbandonPut` is a request that stops. An evaluation is `BeginRead`, or
`StartPreview`, `StartToken`; `GetClaimMappings`, `GetRoleMappings`, `EndRead`. `SamlValues`, `OidcValues` and
`PreviewValues` are the three copies of one evaluation in the code.

*SAMLResponse.* `cfg` is the configuration, `edit` updates in flight, `cookie` the browser's session, `resp` the
request a handler serves. A configuration is made by `Create`, `Import` or an older release (`Legacy`, which
may have values the API no longer accepts) and changed by `StartUpdate`, `WriteConfig`. A response is
`ServeSSO`, `FinishLogin` or `HandleIdPInitiate` with `MintForLaunch`; then `GetServiceProvider`, `GetSession`,
`MakeAssertion`, `Attributes`, `Send`, each with what the configuration is at that moment. Where a session is minted, a configuration that cannot
be read counts as none, and the session gets the defaults (`ConfigRead`). `NameID`, `Clamp`, `Lifetime`,
`EncryptionKey` and `Endpoints` are the pure functions of those names.

*LogoutBinding.* A query is a sequence of parameters with decoded name, spelling and value; the code takes raw and decoded values from one
walk under one key, so `Param` is both. `ReceiveSLO`
looks the service provider up, `HandleSLO` accepts a query or not, `AnswerSLO` ends. *OIDCClient.*
`CreateClient`, `StartClientUpdate`, `StartRotate` decide on a secret, then `CheckApplication`, `PutConfig`, `Answer`; `Authorized`
is the token endpoint's question.

| Run | Bounds | Shows |
|---|---|---|
| `applications` | 2 users with one address, 2 claim PUTs, a role PUT, 2 PUTs and 1 evaluation in flight, 2 edits, 2 imports, 2 legacy rows, 4 authentication methods, 2 administrators, 3 secrets, 60 queries, every fault | `ReleaseFollowsPut`, `EvaluatorsAgree` (mappings); `SubjectIsOneUser`, `AssertsCaller`, `DisabledIssuesNothing`, `EncryptionKept` (responses); `RetiredSecretRefused`, `SecretKept` (clients); `LogoutIsSigned` (logout) |

The product of the parts would not end, and most of it is independent: `Scope` is a constraint of the
instance that explores every edit, every response and the client's secret with no mappings stored; mappings with one configuration (of
either protocol) that has the interesting settings; a query while nothing else is in flight. What
meets in the code still meets here: edits and responses, overlapping PUTs and evaluations, and one PUT with a
response that is filling its assertion. Two users are enough for a NameID to be shared, two administrators
for a lost write, and three secrets for one to be replaced twice.

`EvaluatorsAgree` speaks of the sources that all three copies know, and of targets that are not blank, reserved or mapped
twice; where they differ is finding 12. Differing sources and static rows, and the preview of tokens, are not in the run. One editor at a time works on a
SAML configuration there, with imports between edits; `SecretKept` excepts secrets that an overlapping rotation replaced. `ReleaseFollowsPut` holds for a PUT that ran alone without a failed call, *whatever* the
PUTs before it left behind.

*Proofs.* The bounds of this run are the tightest of the project, and the proofs do without them: any users, tables of rows, bodies
of PUTs, configurations old and new, query strings and numbers of requests, all parts at once. Each part has its own invariant.
`ClientInv`: secrets in use were generated and are not retired, and as long as an administrator can count on a secret
*every* request in flight writes that one (`KnownOK`); without it the put of an older request could bring another back.
`RowsInv`: a PUT that has its table to itself has left only rows still to be deleted and the rows its body means so far
(`PutOK`), which is why it ends with what the body says although it never looks at what it overwrites. `ReadInv`: an
evaluation that has seen no change read what stands now. `ResponseInv`: every session, wherever it is held, names its
user only (`SessionOK`), and the imported certificate is in the row, in each update's copy and in each descriptor (`CertOK`).
`LogoutInv` ties the answer to query and configuration; `AcceptedIsSigned` and `HonestIsAccepted` are then about the binding
alone, and the second counts parameters (finite sets) to see that an honest query's are the signed ones.
What is assumed: `MappingAssumption`, `ResponseAssumption`, `ClientAssumption`, `QueryAssumption`, of the shape of inputs (a signature covers one
message, one algorithm and at most a relay state; `None` is not a value) and the order of the duration bounds; and for `SubjectIsUnique` alone
`OneOwner`, which Cognito has to provide: subs are unique, and an address that is verified is verified for one user. TLC evaluates all of
them. The invariants were also checked on this run, in which the types of `put` cannot be compared.

## Onboarding

*State.* `tenant`, `wizard` and `sources` are the rows of one slug; `provider` the ExternalID with which a warm instance's cache
assumes the role; `job` the requests in flight, with the rows each has read; `past` whether
requests have overlapped or the wizard's row has expired. *Actions.* Each step of the wizard is its
reads, its AWS calls and its writes: `CreateTenant`, `InitWizard`; `SetCapabilities`, `SavePacks`; `GenerateIaC`,
`SaveIaC`; `RegisterIdentity`, `CreateSource`, `ReadTenant`, `MarkTenant`, `SaveIdentity`; `ProbeCapabilities`,
`FindIdentitySource`, `AssumeForTenant`, `Simulate` for each pack, `FinalizeProbe`; `Complete`, `Promote`,
`DropWizard`. Beside them the tenant endpoints' create, update and delete, the source endpoints, and cold starts.

| Run | Bounds | Shows |
|---|---|---|
| `onboarding_wizard` | 2 requests in flight, 2 packs, 2 ExternalIDs, 1 role, 1 source at a time, every call may fail | `ActiveTenantIsProbed`; `ExternalIdKept`; `WizardResumable` |

`ActiveTenantIsProbed` holds under any overlap. The other two exempt overlapping requests, in which a whole-row
write may undo another, and say that *failures* alone do no harm wherever they strike. The optional pack comes and goes
under any other request, a probe included: `OneChange` allows, once it is selected, one request beside the selection and one ExternalID; with
the mandatory pack alone everything overlaps. Two requests are a conflict.

*Proofs*, for any packs, roles, ExternalIDs and requests in flight. `WizardOK` says what a wizard's row of each step contains and
`TenantOK` what an active tenant's does; because the wizard's writes put whole rows read some calls earlier, both are
required of the rows that requests carry as well as of the stored ones (`JobOK`), and then no overlap matters to `ActiveIsProbed`.
`Resumable` and `ExternalIdIsKept` need that a request which runs alone carries the stored row and that this row is there (`SoundOK`,
`ResumeOK`), and that requests are alone until `past` says otherwise (`Alone`).

## CertRotation

*State.* `slot` is the three rows; `sso`, `metadata`, `token` and `jwks` what warm instances hold, `skipped` whether the discovery instance
could not load a key at its start; `job` a check, import, promotion or metadata request in flight; `trusted` what a relying party last
read. History: `age` and `unread` of the relying party's document, `due` (rotation checks that ended when the active certificate was already
due for replacement), and what the properties except (`past`). *Actions.* The check is
`CheckCertRotation`, then `GenerateInitial`, or `CheckGuard`, `CheckNext`, and `StageNext` or `PromoteNextToActive`,
`Activate`, `Clear`. Operators `Import` and `PromoteBackup`; the cold starts are those of the SSO function (`SsoColdStart`,
`SsoReadFails`, `Bootstrap`), metadata, token and discovery, which skips a key that KMS does not hand out (`Loaded`); `ServeMetadata`,
`FetchNext`, `FetchBackup` make a document. `Week` ages every certificate, whether a check ran in it or not. No request lasts a week.

| Run | Bounds | Shows |
|---|---|---|
| `certificates` | 3 certificates of 4 weeks, window 2, delay 1, both keys, 1 process with its calls failing and stopping anywhere | `KeyMatchesCert`; `KeyPublished`, unless a key could not be loaded; `CAKept`; `RolloverTrusted`; `ReplacedWhenDue`: the second check that runs to its end on a due certificate, at the latest, has replaced it |
| `stale_metadata` | the same without failures | fails `DocumentHasActive`, finding 7 |

The weeks keep the order of the code's numbers: two years, a window of 30 days, a promotion delay of 14. Three serial numbers are one for each
slot; a number nothing holds is used again. `age`, the weeks since the relying party last read a clean document, counts as far as `Delay`, beyond
which nothing depends on it, and `due` as far as 2. `OneFault` allows one kind of fault in a behaviour of the run. Nothing is assumed of
when checks run: no binary of the repository runs them (finding 11), so that a certificate *is* renewed before it expires is not a property of this
code. `CAKept` excepts overlapping requests and failed calls, which may lose an operator's import.

*Proofs*, for any life, window and delay that the assumption orders as the code does (`Delay <= Window`, `Window + Delay < Life`), any number of
processes, checks at any time or never, calls failing anywhere. `IInv` has four layers. `RowsOK`, `KeysOK` and `JobOK` say what a row, an
instance and a process hold at all times; this is all `SigningKeyMatches` and `SigningKeyPublished` need. `AloneOK`: unless requests
overlapped one process is at work, and what it found is so until it acts (`FoundOK`); hence `CACertificateKept`. `TrustOK`: an informed
relying party trusts each row but a staged certificate it has not been told of, and that one was staged less than `Delay` ago, so it is not
due yet: hence `RolloverIsTrusted`. `DueOK`: a check that ended on a due certificate has left its successor staged, which the next one makes
active; hence `ReplacedInTime`.

## ApiAccess

*State.* `pool` is the keys the user pool signs with, `retired` the ticks since a key left it, `keys` and `age`
the instance's cache, `tenants` all that exist, suspended ones included, `job` the requests in flight. *Actions.* `Arrive` is the edge gate;
`EnsureKeys`, `FetchKeys`, `StoreKeys` and `Authenticate` take the cache's lock separately, as the code does;
`ResolveTenant` is the middleware. `HandleContext` is the handlers that act in the context's tenant, `HandlePath` those that name one and compare
it (`TenantMatch`), `HandleGateway` the ones on the gateway's certificates, for global operators; `HandleCreate` is `create-tenant`, which compares
its slug with no one's tenant, and `HandleCertificates` is `list-certificates`, open to every role. Handlers that touch no tenant's data (health,
pool discovery, decoding an assertion, metrics) are left out. `Tick` is a part of the cache's hour; it waits for requests inside the verifier, which last seconds.

| Run | Bounds | Shows |
|---|---|---|
| `api_access` | 2 keys, 2 tenants, 2 concurrent requests, tokens of every role; calls fail, instances die | `ServedIsEntitled`; `RetiredKeyRefused` |

Two requests are needed for a slow fetch to overwrite a newer one. `ServedIsEntitled` names the two kinds of requests that need no
entitlement: creating a tenant there was not, and listing certificates.

*Proofs.* `IInv` adds to the types how fresh what is in flight may be: a key in the cache left the pool at most
a tick longer ago than the cache is old, a set being stored at most a tick ago, and a request at the lookup has
found the cache young (`CacheOK`); and what a request at each place has been checked for (`Checked`). `LookupOnly` isolates the one
action that opens a token. `OnlyEntitled` and `KeysExpire` follow, for any number of requests, keys and tenants.

## Deadlock

TLC's check of deadlocks is on wherever the environment always has a next step. It is off (`CHECK_DEADLOCK FALSE`) in runs
whose inputs are used up (tokens, messages, certificates of the instance) or whose clock ends, when the system
has nothing to do and stopping is right. No handler of this code waits for another: a stuck state would be a handler that cannot
finish, which the liveness run would show.

## What is only model-checked, and what the models leave out

Proved for every value of the constants: every safety invariant and action property of the passing runs, and the refinement of
`EntityDirectory`. Model-checked only: `LogoutTakesEffect` and `RevocationTakesEffect`, which are liveness under fairness and out of the
provers' reach; `DocumentHasActive` is false, as its run shows. The theorems are about the specifications without the constraints of
their instances and have no hypotheses but the assumptions on constants, which TLC evaluates. Where the code does not keep what one would wish, the property
names the exception instead: requests that overlap on one application or one wizard, a session longer than its marker, a message dated ahead, a key that did not load.

Every property of a passing run has a mutant in `PROJECT.json`: a plausible bug of the code under which it fails.

Abstractions, of all modules: a table call is one atomic step (DynamoDB's single-item guarantee; reads
are taken as consistent); cryptography is what it promises (a signature is the pair of its key and of what
it covers); PKCE, wording and audit records are left out. A call that fails changes nothing; a write that was applied although its
caller saw an error is covered where the caller then stops (a crash), and not where `AppRegistry` would go on to roll
back. `OIDCTokens`: a transient Get error in `RevokeToken` is answered like an unknown token, with success, which
`GetRevoked` includes. `SAMLSession`: the path tenant of a completion, compared with the pending login's, is one of
the refusals of `Consume`; the login-binding cookie restricts
`StartComplete` further (it is modelled in `AuthCode`, whose login shares the code). `SAMLResponse` reads cookies as present or gone and leaves
their clocks to `SAMLSession`.

### Not modelled

- `cognito/auth.go`, `cognito/discovery.go`: one HTTP exchange with an external service, no state; its outcomes are
  choices of the login actions.
- `service/settings.go`, audit, analytics, metrics: nothing reads them to decide.
- `middleware/capability.go`: `RequireCapability` is wired to no route. `TenantFromPath`: a lookup per request.
- The update of an identity source (`api/source_handlers.go`) beyond what a login reads of it: fields without a decision.
- `cmd/*`: wiring, and its cold starts where they keep something. `memorydb.go`: a test double.
- Infrastructure generation, terminal UI, front end, examples: text and presentation.

## Findings

Comments and tests of the repository that the code disagrees with, and defects met while modelling. Finding 7 has a run that
shows it (`stale_metadata`). Findings 1 to 6 are behaviours that TLC found in these modules when asked for the stronger property the
comment states; the properties kept here are what does hold. The others come from reading the code for the models. `PROJECT.json` has
lines and quotes of each.

1. A refresh token is not single-use when two refreshes interleave (`oidc/storage.go:438`, `:489`).
2. A logout does not end a login whose refresh is under way (`oidc/storage.go:614`).
3. A refresh token presented while its application is disabled works again once it is re-enabled: the
   endpoint refuses the client before the callback that drops the token (`oidc/storage.go:547`).
4. A session configured for more than 9 h outlives its revocation marker (`store/session_store.go:30`).
5. A LogoutRequest from a clock that is ahead outlives its replay record, and one without an ID has none (`saml/slo.go:56`, `:242`).
6. An update that overlaps a delete brings the application back with an entityID that has been released and
   may have been taken: two applications with one entityID; one that overlaps a disable makes the application active again
   (`store/app_store.go:33`, `api/app_handlers.go:221`, `:372`).
7. A warm metadata instance drops the new active certificate from its document after a promotion (`saml/idp.go:198`).
8. Requests and codes work past their ten minutes until DynamoDB removes them (`oidc/storage.go:315`).
9. Generating the IaC again reopens capability selection after registration (`service/onboarding/service.go:210`), a retried
   registration leaves a second source (`:521`), and assumed roles are cached without their ExternalID (`aws/sts/provider.go:51`).
10. Deleting a tenant does not look at its identity sources (`store/tenant_store.go:101`).
11. The rotation check has no caller; its CA guard and the SSO cold start take a failed read for "no such
    certificate"; a mistyped role means "active" (`crypto/cert_rotation.go:80`, `cmd/saml-sso/main.go:80`, `api/health_handlers.go:294`).
12. Mappings of `name` and `custom:` attributes, and those with a blank target, differ between assertions and tokens
    (`oidc/storage.go:1006`).
13. Import and update do not keep every field their model says they keep, an update after a failed read drops
    the certificates, an unparsable one disables encryption, and additional endpoints hide the primary one
    (`service/import.go:140`, `api/app_handlers.go:249`, `:264`, `saml/sp_provider.go:93`, `:121`).
14. A client without an authentication method is created without the secret it must authenticate with (`api/app_secret.go:17`).
15. No logout is ever partial for another service provider, and a failed read of a configuration makes the
    handler panic (`saml/slo.go:288`, `:217`).
16. A tenant header without the role is refused, not ignored (`middleware/tenant.go:140`).
17. A verification key that KMS does not hand out at a cold start stays unpublished while the instance is warm (`oidc/verification_keys.go:26`).
18. `create-tenant` is not behind the guard that is said to be every tenant endpoint's (`api/tenant_handlers.go:77`).
19. A failed read of a SAML configuration mints sessions with default NameID and lifetime (`store/app_store.go:248`).

## Plan

The plan of the first modules is done: tokens, sessions and registry, then codes and logins, certificates, onboarding,
responses and access; and each has its inductive invariant and theorems. What would come next is more abstraction: a serial exchange
that `AuthCode` refines, which has to except the overlaps that `SingleUse` names, and a list of rows replaced at once that
`ClaimMappings` refines for PUTs that run alone.
