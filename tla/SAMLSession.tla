----------------------------- MODULE SAMLSession -----------------------------
(***************************************************************************)
(* SAML single sign-on and single logout (internal/saml/session_provider.go, *)
(* slo.go, idp.go, with the session, replay and pending-login stores).      *)
(*                                                                         *)
(* A session is a signed cookie that the gateway keeps no record of: it is  *)
(* honoured, in any number of copies, until its own expiry or until a logout *)
(* has left a revocation marker for its SessionIndex. Logins and logouts    *)
(* run on different Lambdas and meet in one table, whose items DynamoDB     *)
(* deletes some time after their TTL. Time is a counter; a Handler is one   *)
(* request in flight, one action per store call.                            *)
(***************************************************************************)
EXTENDS Naturals, Sequences, FiniteSets

CONSTANTS
  Tenant,         \* tenant slugs, as they appear in a request's path
  Entity,         \* SAML entityIDs; two tenants may register the same one
  CustomLogin,    \* the service providers with a custom login page
  Session,        \* SessionIndex values; 128 random bits, each minted once
  Request,        \* AuthnRequest IDs
  Logout,         \* LogoutRequest IDs
  Anonymous,      \* those of both that stand for a message without an ID
  Flow,           \* custom-login flow IDs, random
  Handler,        \* requests in flight
  Duration,       \* the session lifetimes that service providers configure
  MarkerTTL,      \* revokedSessionTTL
  AuthnTTL,       \* how long a claimed AuthnRequest ID is remembered
  RequestWindow,  \* how long crewjam accepts an AuthnRequest
  MaxAge,         \* sloMaxRequestAge
  Skew,           \* sloClockSkew
  FlowTTL,        \* cookieMaxAge, of flow cookies and pending logins
  Ahead,          \* how far a service provider's clock may be ahead
  Timeout,        \* how long a Lambda may serve one request
  Horizon,        \* bound: the clock stops here
  Fault,          \* the kinds of store calls that may fail, and "crash"
  None

FaultKind == {"get", "claim", "revoke", "pending", "delete", "crash"}

SP == [tenant : Tenant, entity : Entity]

\* sloReplayTTL
LogoutTTL == MaxAge + Skew

\* What a service provider signed; sp is the issuer and the tenant whose
\* endpoint it addresses.
AuthnRequest == [sp : SP, at : Nat]
LogoutRequest == [session : Session, at : Nat]

\* flowState, and PendingLogin.
FlowCookie == [request : Request, at : Nat]
PendingLogin == [request : Request, expires : Nat]

\* The login that mints a session: hosted or by ID token, with the time at
\* which its AuthnRequest was claimed, or a custom-login flow.
Login == [request : Request, at : Nat, kind : {"hosted", "token"}]

\* sessionEnvelope: the binding, CreateTime and expiry of a session cookie; by
\* is read by the properties only.
Cookie == [sp : SP, at : Nat, expires : Nat, by : Login \cup Flow]

ASSUME ConstantsAssumption ==
  /\ CustomLogin \subseteq SP
  /\ Fault \subseteq FaultKind
  /\ Duration \subseteq Nat
  /\ MarkerTTL \in Nat /\ AuthnTTL \in Nat /\ RequestWindow \in Nat
  /\ MaxAge \in Nat /\ Skew \in Nat /\ FlowTTL \in Nat /\ Ahead \in Nat
  /\ Timeout \in Nat /\ Horizon \in Nat
  /\ Anonymous \subseteq Request \cup Logout
  /\ None \notin AuthnRequest \cup LogoutRequest \cup Cookie \cup PendingLogin
  /\ None \notin Session \cup Request \cup Logout \cup Flow \cup FlowCookie \cup Nat
  /\ Request \cap Logout = {} /\ Flow \cap Login = {}

PC == {"idle", "checkRevoked", "login", "exchange", "consume", "claimLogout", "revoke"}

\* A request in flight: the message, session and flow it is about; when it
\* began, and when its session had last been revoked by then (read by the
\* properties only).
Job == [pc : PC, request : Request \cup Logout \cup {None},
        session : Session \cup {None}, flow : Flow \cup FlowCookie \cup {None},
        began : Nat, barred : Nat \cup {None}]

\* An assertion, when it was sent, and what its request knew of barred.
Assertion == [session : Session, request : Request, at : Nat,
              barred : Nat \cup {None}]

VARIABLES
  now,
  authn,      \* the AuthnRequests service providers have sent, by ID
  logout,     \* their LogoutRequests, by ID
  cookie,     \* session cookies in browsers, by SessionIndex
  flows,      \* flow cookies issued: nothing on the server ever spends one
  pending,    \* PENDINGLOGIN# items
  seen,       \* REPLAY# items: the ExpiresAt of each claimed ID
  marker,     \* SESSION#..REVOKED items: their ExpiresAt
  job,
  (* history, read by the properties and by the choice of fresh values *)
  opened,     \* custom-login flow IDs generated
  asserted,   \* assertions sent
  revoked,    \* when each session's revocation marker was last written
  claims      \* when each message ID was claimed, in order

sent == <<authn, logout>>
browser == <<cookie, flows>>
table == <<pending, seen, marker>>
history == <<opened, asserted, revoked, claims>>
vars == <<now, authn, logout, cookie, flows, pending, seen, marker, job,
          opened, asserted, revoked, claims>>

Idle == [pc |-> "idle", request |-> None, session |-> None, flow |-> None,
         began |-> 0, barred |-> None]

Init ==
  /\ now = 0
  /\ authn = [q \in Request |-> None] /\ logout = [l \in Logout |-> None]
  /\ cookie = [i \in Session |-> None] /\ flows = {}
  /\ pending = [f \in Flow |-> None]
  /\ seen = [x \in Request \cup Logout |-> None]
  /\ marker = [i \in Session |-> None]
  /\ job = [h \in Handler |-> Idle]
  /\ opened = {} /\ asserted = {}
  /\ revoked = [i \in Session |-> None]
  /\ claims = [x \in Request \cup Logout |-> <<>>]

-----------------------------------------------------------------------------
(* Helpers *)

Finish(h) == job' = [job EXCEPT ![h] = Idle]
Goto(h, pc) == job' = [job EXCEPT ![h].pc = pc]

Begin(h, pc, request, session, flow) ==
  /\ job[h].pc = "idle"
  /\ job' = [job EXCEPT ![h] = [pc |-> pc, request |-> request,
                                session |-> session, flow |-> flow,
                                began |-> now,
                                barred |-> IF session = None THEN None
                                           ELSE revoked[session]]]

\* crewjam's Validate, run whenever ServeSSO is entered, resumed flows
\* included: an AuthnRequest has an age limit and no other.
Fresh(q) == now <= authn[q].at + RequestWindow

\* Mutant: only the SP is compared.
Bound_EntityOnly(sp, c) == c.sp.entity = sp.entity

\* sessionBindingMatches: a cookie is reused only for the tenant of the path
\* and the SP it was minted for.
Bound(sp, c) == c.sp.tenant = sp.tenant /\ c.sp.entity = sp.entity

\* decodeSessionEnvelope and sessionBindingMatches accept the cookie.
Reusable(q, i) ==
  /\ i # None /\ cookie[i] # None
  /\ now <= cookie[i].expires
  /\ Bound(authn[q].sp, cookie[i])

\* Mutant: a Put without attribute_not_exists.
MarkSeen_Put(x, ttl) ==
  /\ seen' = [seen EXCEPT ![x] = now + ttl]
  /\ claims' = [claims EXCEPT ![x] = Append(@, now)]

\* MarkSeen: one conditional write; an item past its TTL still refuses it.
MarkSeen(x, ttl) ==
  /\ seen[x] = None
  /\ seen' = [seen EXCEPT ![x] = now + ttl]
  /\ claims' = [claims EXCEPT ![x] = Append(@, now)]

\* The guard around every MarkSeen: a message without an ID is not claimed.
Claim(x, ttl) ==
  IF x \in Anonymous THEN UNCHANGED <<seen, claims>> ELSE MarkSeen(x, ttl)

\* It is refused as a replay, or because the replay store fails.
ClaimRefused(x) == x \notin Anonymous /\ (seen[x] # None \/ "claim" \in Fault)

\* buildSessionFromClaims and encodeBoundSessionCookie: a fresh SessionIndex,
\* bound to the service provider of the request it was minted for.
Mint(i, q, by) ==
  /\ cookie[i] = None
  /\ \E d \in Duration :
       cookie' = [cookie EXCEPT ![i] = [sp |-> authn[q].sp, at |-> now,
                                        expires |-> now + d, by |-> by]]

SendAssertion(i, q, barred) ==
  asserted' = asserted \cup {[session |-> i, request |-> q, at |-> now,
                              barred |-> barred]}

\* ServeSSO, resumed with the session just minted for q.
Resume(i, q) ==
  IF Fresh(q) THEN SendAssertion(i, q, None) ELSE UNCHANGED asserted

-----------------------------------------------------------------------------
(* Single sign-on *)

\* ServeSSO and GetSession: a browser presents an AuthnRequest, again and
\* again if it likes, with or without a session cookie.
StartSSO(h, q, i) ==
  /\ authn[q] # None /\ Fresh(q)
  /\ Begin(h, IF Reusable(q, i) THEN "checkRevoked" ELSE "login", q,
           IF Reusable(q, i) THEN i ELSE None, None)
  /\ UNCHANGED <<now, sent, browser, table, history>>

\* IsSessionRevoked: there is a marker that has not expired.
IsRevoked(i) == marker[i] # None /\ now <= marker[i]

\* Mutant: a failed Get lets the cookie through.
CheckRevoked_FailOpen(h) ==
  LET i == job[h].session IN
  /\ job[h].pc = "checkRevoked"
  /\ \/ IsRevoked(i) /\ Goto(h, "login") /\ UNCHANGED asserted
     \/ /\ ~IsRevoked(i) \/ "get" \in Fault
        /\ SendAssertion(i, job[h].request, job[h].barred)
        /\ Finish(h)
  /\ UNCHANGED <<now, sent, browser, table, opened, revoked, claims>>

\* GetSession: a revoked session, or an error, means a new login; otherwise the
\* assertion goes out.
CheckRevoked(h) ==
  LET i == job[h].session IN
  /\ job[h].pc = "checkRevoked"
  /\ \/ /\ IsRevoked(i) \/ "get" \in Fault
        /\ Goto(h, "login") /\ UNCHANGED asserted
     \/ /\ ~IsRevoked(i)
        /\ SendAssertion(i, job[h].request, job[h].barred)
        /\ Finish(h)
  /\ UNCHANGED <<now, sent, browser, table, opened, revoked, claims>>

\* The claim is refused.
RefuseLogin(h) ==
  /\ job[h].pc = "login"
  /\ ClaimRefused(job[h].request)
  /\ Finish(h)
  /\ UNCHANGED <<now, sent, browser, table, history>>

\* trySessionFromIDToken: the request carries a valid ID token; one without a
\* subject is refused after the claim.
BearerLogin(h, i) ==
  LET q == job[h].request IN
  /\ job[h].pc = "login"
  /\ Claim(q, AuthnTTL)
  /\ \/ /\ Mint(i, q, [request |-> q, at |-> now, kind |-> "token"])
        /\ SendAssertion(i, q, None)
     \/ UNCHANGED <<cookie, asserted>>
  /\ Finish(h)
  /\ UNCHANGED <<now, sent, flows, pending, marker, opened, revoked>>

\* tryCustomLoginRedirect: an SP with a custom login page gets a pending
\* login; the AuthnRequest is not claimed.
CustomRedirect(h, f) ==
  LET q == job[h].request IN
  /\ job[h].pc = "login"
  /\ authn[q].sp \in CustomLogin
  /\ f \notin opened
  /\ opened' = opened \cup {f}
  /\ \/ pending' = [pending EXCEPT ![f] = [request |-> q,
                                           expires |-> now + FlowTTL]]
     \/ "pending" \in Fault /\ UNCHANGED pending
  /\ Finish(h)
  /\ UNCHANGED <<now, sent, browser, seen, marker, asserted, revoked, claims>>

\* Mutant: like the redirect to a custom login page, without a claim.
HostedRedirect_Unclaimed(h) ==
  LET q == job[h].request IN
  /\ job[h].pc = "login"
  /\ authn[q].sp \notin CustomLogin \/ "get" \in Fault
  /\ flows' = flows \cup {[request |-> q, at |-> now]}
  /\ Finish(h)
  /\ UNCHANGED <<now, sent, cookie, table, history>>

\* GetSession starts the hosted login; so it does for an SP with a custom
\* login page whose lookup failed. The claim comes before the identity source
\* is looked up.
HostedRedirect(h) ==
  LET q == job[h].request IN
  /\ job[h].pc = "login"
  /\ authn[q].sp \notin CustomLogin \/ "get" \in Fault
  /\ Claim(q, AuthnTTL)
  /\ \/ flows' = flows \cup {[request |-> q, at |-> now]}
     \/ "get" \in Fault /\ UNCHANGED flows
  /\ Finish(h)
  /\ UNCHANGED <<now, sent, cookie, pending, marker, opened, asserted, revoked>>

\* HandleCallback: a browser comes back from the hosted login with a code and
\* a copy of the flow cookie; every login at one authorize URL gives a code of
\* its own, and the exchange is a call over the network ...
StartCallback(h, flow) ==
  /\ now <= flow.at + FlowTTL
  /\ Begin(h, "exchange", flow.request, None, flow)
  /\ UNCHANGED <<now, sent, browser, table, history>>

\* ... that is refused, or gives a session, for which ServeSSO is resumed on the
\* original AuthnRequest, which has grown older. The browser is asked to drop
\* the flow cookie; the server keeps no record of it.
HandleCallback(h, i) ==
  LET q == job[h].request IN
  /\ job[h].pc = "exchange"
  /\ \/ UNCHANGED <<cookie, asserted>>
     \/ /\ Mint(i, q, [request |-> q, at |-> job[h].flow.at, kind |-> "hosted"])
        /\ Resume(i, q)
  /\ Finish(h)
  /\ UNCHANGED <<now, sent, flows, table, opened, revoked, claims>>

\* HandleLoginComplete and CompleteCustomLogin: Get the pending login ...
StartComplete(h, f) ==
  /\ pending[f] # None /\ now <= pending[f].expires
  /\ Begin(h, "consume", pending[f].request, None, f)
  /\ UNCHANGED <<now, sent, browser, table, history>>

\* ... Delete it, its error dropped; then either the token or the tenant of
\* the path is refused, or the session is minted and ServeSSO resumed.
Consume(h, i) ==
  LET q == job[h].request IN
  /\ job[h].pc = "consume"
  /\ \/ pending' = [pending EXCEPT ![job[h].flow] = None]
     \/ "delete" \in Fault /\ UNCHANGED pending
  /\ \/ UNCHANGED <<cookie, asserted>>
     \/ Mint(i, q, job[h].flow) /\ Resume(i, q)
  /\ Finish(h)
  /\ UNCHANGED <<now, sent, flows, seen, marker, opened, revoked, claims>>

-----------------------------------------------------------------------------
(* Single logout *)

\* HandleSLO up to the claim: checkLogoutRequestFreshness. (A NotOnOrAfter in
\* the request can only shorten the window.)
StartSLO(h, l) ==
  /\ logout[l] # None
  /\ logout[l].at <= now + Skew
  /\ now <= logout[l].at + MaxAge + Skew
  /\ Begin(h, "claimLogout", l, logout[l].session, None)
  /\ UNCHANGED <<now, sent, browser, table, history>>

\* The one-time-use guard: a replay and a failing store are both rejected.
ClaimLogout(h) ==
  LET l == job[h].request IN
  /\ job[h].pc = "claimLogout"
  /\ \/ /\ ClaimRefused(l)
        /\ Finish(h)
        /\ UNCHANGED <<seen, claims>>
     \/ Claim(l, LogoutTTL) /\ Goto(h, "revoke")
  /\ UNCHANGED <<now, sent, browser, pending, marker, opened, asserted, revoked>>

\* RevokeSession, a Put; if it fails, the logout is answered all the same.
RevokeSession(h) ==
  LET i == job[h].session IN
  /\ job[h].pc = "revoke"
  /\ \/ /\ marker' = [marker EXCEPT ![i] = now + MarkerTTL]
        /\ revoked' = [revoked EXCEPT ![i] = now]
     \/ "revoke" \in Fault /\ UNCHANGED <<marker, revoked>>
  /\ Finish(h)
  /\ UNCHANGED <<now, sent, browser, pending, seen, opened, asserted, claims>>

-----------------------------------------------------------------------------
(* The environment *)

\* Service providers sign requests by clocks that may be ahead; one that is
\* behind looks like a slow delivery.
IssueRequest(q, sp, ahead) ==
  /\ authn[q] = None
  /\ authn' = [authn EXCEPT ![q] = [sp |-> sp, at |-> now + ahead]]
  /\ UNCHANGED <<now, logout, browser, table, job, history>>

\* A logout names a session the service provider got an assertion for.
IssueLogout(l, i, ahead) ==
  /\ logout[l] = None
  /\ \E a \in asserted : a.session = i
  /\ logout' = [logout EXCEPT ![l] = [session |-> i, at |-> now + ahead]]
  /\ UNCHANGED <<now, authn, browser, table, job, history>>

\* No request is served for longer than Timeout.
Tick ==
  /\ now < Horizon
  /\ \A h \in Handler : job[h].pc # "idle" => now < job[h].began + Timeout
  /\ now' = now + 1
  /\ UNCHANGED <<sent, browser, table, job, history>>

\* DynamoDB deletes items at some time after their TTL, or never.
SweepSeen(x) ==
  /\ seen[x] # None /\ seen[x] < now
  /\ seen' = [seen EXCEPT ![x] = None]
  /\ UNCHANGED <<now, sent, browser, pending, marker, job, history>>

SweepMarker(i) ==
  /\ marker[i] # None /\ marker[i] < now
  /\ marker' = [marker EXCEPT ![i] = None]
  /\ UNCHANGED <<now, sent, browser, pending, seen, job, history>>

SweepPending(f) ==
  /\ pending[f] # None /\ pending[f].expires < now
  /\ pending' = [pending EXCEPT ![f] = None]
  /\ UNCHANGED <<now, sent, browser, seen, marker, job, history>>

\* A Lambda is cut off between two store calls.
Crash(h) ==
  /\ "crash" \in Fault
  /\ job[h].pc # "idle"
  /\ Finish(h)
  /\ UNCHANGED <<now, sent, browser, table, history>>

-----------------------------------------------------------------------------

SSO(h) ==
  \/ \E q \in Request, i \in Session \cup {None} : StartSSO(h, q, i)
  \/ CheckRevoked(h) \/ RefuseLogin(h) \/ HostedRedirect(h)
  \/ \E i \in Session : BearerLogin(h, i) \/ HandleCallback(h, i) \/ Consume(h, i)
  \/ \E flow \in flows : StartCallback(h, flow)
  \/ \E f \in Flow : CustomRedirect(h, f) \/ StartComplete(h, f)

SLO(h) ==
  \/ \E l \in Logout : StartSLO(h, l)
  \/ ClaimLogout(h) \/ RevokeSession(h)

Environment ==
  \/ \E ahead \in 0 .. Ahead :
       \/ \E q \in Request, sp \in SP : IssueRequest(q, sp, ahead)
       \/ \E l \in Logout, i \in Session : IssueLogout(l, i, ahead)
  \/ \E x \in Request \cup Logout : SweepSeen(x)
  \/ \E i \in Session : SweepMarker(i)
  \/ \E f \in Flow : SweepPending(f)
  \/ Tick

Next ==
  \/ \E h \in Handler : SSO(h) \/ SLO(h) \/ Crash(h)
  \/ Environment

Spec == Init /\ [][Next]_vars

-----------------------------------------------------------------------------
(* Properties *)

\* Every variable has its type.
TypeOK ==
  /\ now \in Nat
  /\ authn \in [Request -> AuthnRequest \cup {None}]
  /\ logout \in [Logout -> LogoutRequest \cup {None}]
  /\ cookie \in [Session -> Cookie \cup {None}]
  /\ flows \subseteq FlowCookie
  /\ pending \in [Flow -> PendingLogin \cup {None}]
  /\ seen \in [Request \cup Logout -> Nat \cup {None}]
  /\ marker \in [Session -> Nat \cup {None}]
  /\ job \in [Handler -> Job]
  /\ opened \subseteq Flow /\ asserted \subseteq Assertion
  /\ revoked \in [Session -> Nat \cup {None}]
  /\ claims \in [Request \cup Logout -> Seq(Nat)]

\* Once a logout has recorded its marker, no request that starts later gets an
\* assertion from any copy of the session's cookie while the marker lasts,
\* whatever the store does meanwhile (GetSession fails closed); and afterwards
\* only from a session configured to live longer than revokedSessionTTL, which
\* "must safely outlive" the cookie but is fixed, where the lifetime is not.
RevokedStaysOut ==
  \A a \in asserted : a.barred # None =>
    /\ a.barred + MarkerTTL < a.at
    /\ cookie[a.session].at + MarkerTTL < cookie[a.session].expires + Timeout

\* A LogoutRequest with an ID, however often its signed URL is presented, is
\* carried out again only when sloReplayTTL has passed since, and only if it was
\* dated ahead of the clock (but for the Timeout) when it was carried out first.
LogoutOnce ==
  \A l \in Logout : \A m, n \in DOMAIN claims[l] : m < n =>
    /\ claims[l][m] + LogoutTTL < claims[l][n]
    /\ claims[l][m] < logout[l].at + Timeout

\* Two hosted or token logins for one AuthnRequest with an ID are one and the
\* same, or the claim of the first had run out while the request was still
\* fresh; and what one claim admitted by token is one session (a hosted login
\* may end in several, as nothing spends its flow cookie).
LoginOnce ==
  \A i, j \in Session :
    LET a == cookie[i].by  b == cookie[j].by  q == a.request IN
    /\ cookie[i] # None /\ cookie[j] # None
    /\ a \in Login /\ b \in Login /\ a.request = b.request
    /\ q \notin Anonymous /\ a.at <= b.at
    => \/ a = b /\ (a.kind = "token" => i = j)
       \/ /\ a.at + AuthnTTL < b.at
          /\ a.at + AuthnTTL < authn[q].at + RequestWindow + Timeout

\* An assertion that answers a request speaks of a session minted for that
\* request's tenant and service provider (sessionBindingMatches, the binding
\* recorded in flow cookies and pending logins).
AssertionsBound ==
  \A a \in asserted : cookie[a.session].sp = authn[a.request].sp

=============================================================================
