-------------------------- MODULE SAMLSession_proofs --------------------------
(***************************************************************************)
(* Safety of SAMLSession for any number of service providers, sessions,    *)
(* messages and concurrent requests, any lifetimes, windows, TTLs and clocks *)
(* (none is assumed to outlive another), and whatever store calls fail.      *)
(***************************************************************************)
EXTENDS SAMLSession, TLAPS

-----------------------------------------------------------------------------
(* The inductive invariant. What a request may rely on between two of its   *)
(* store calls is that messages and cookies never change once they exist,    *)
(* and that it is never older than Timeout.                                  *)

SSOStates == {"checkRevoked", "login", "exchange", "consume"}
SLOStates == {"claimLogout", "revoke"}

JobOK(j) ==
  /\ j.pc # "idle" => j.began <= now /\ now <= j.began + Timeout
  /\ j.pc \in SSOStates => j.request \in Request /\ authn[j.request] # None
  /\ j.pc \in {"checkRevoked", "login"}
       => j.began <= authn[j.request].at + RequestWindow
  /\ j.pc = "checkRevoked" =>
       /\ j.session \in Session /\ cookie[j.session] # None
       /\ cookie[j.session].sp = authn[j.request].sp
       /\ j.began <= cookie[j.session].expires
       /\ j.barred # None =>
            /\ cookie[j.session].at <= j.barred
            /\ revoked[j.session] # None /\ j.barred <= revoked[j.session]
  /\ j.pc = "exchange" => j.flow \in flows /\ j.flow.request = j.request
  /\ j.pc = "consume" => j.flow \in Flow
  /\ j.pc \in SLOStates =>
       /\ j.request \in Logout /\ logout[j.request] # None
       /\ j.session \in Session /\ cookie[j.session] # None
       /\ j.began <= logout[j.request].at + MaxAge + Skew

\* Cookies, pending logins and assertions refer to messages that were sent.
Links ==
  /\ \A a \in asserted : authn[a.request] # None /\ cookie[a.session] # None
  /\ \A flow \in flows : authn[flow.request] # None
  /\ \A f \in Flow : pending[f] # None => authn[pending[f].request] # None
  /\ \A l \in Logout : logout[l] # None => cookie[logout[l].session] # None

\* A revocation, which comes after the login, has its marker for MarkerTTL.
Markers ==
  /\ \A i \in Session : cookie[i] # None => cookie[i].at <= now
  /\ \A i \in Session : revoked[i] # None =>
       /\ cookie[i] # None /\ cookie[i].at <= revoked[i] /\ revoked[i] <= now
       /\ \/ marker[i] = revoked[i] + MarkerTTL
          \/ marker[i] = None /\ revoked[i] + MarkerTTL < now

\* How long the claim of a message is kept, and when it can no longer be claimed.
TTL(x) == IF x \in Logout THEN LogoutTTL ELSE AuthnTTL

ClaimedInTime(x, t) ==
  /\ x \in Logout => /\ logout[x] # None
                     /\ t <= logout[x].at + MaxAge + Skew + Timeout
  /\ x \in Request => /\ authn[x] # None
                      /\ t <= authn[x].at + RequestWindow + Timeout

\* While a claim is kept there is no other: the claims of a message are more
\* than its TTL apart.
ClaimsOK ==
  \A x \in Request \cup Logout :
    /\ \A n \in DOMAIN claims[x] :
         /\ ClaimedInTime(x, claims[x][n])
         /\ seen[x] # None => claims[x][n] + TTL(x) <= seen[x]
         /\ seen[x] = None => claims[x][n] + TTL(x) < now
    /\ \A m, n \in DOMAIN claims[x] :
         m < n => claims[x][m] + TTL(x) < claims[x][n]

ClaimedAt(q, t) == \E n \in DOMAIN claims[q] : claims[q][n] = t

\* The session was minted by a token login, for q at t.
ByToken(i, q, t) ==
  cookie[i] # None /\ cookie[i].by = [request |-> q, at |-> t, kind |-> "token"]

\* A claim has become flow cookies, or one session by token, or nothing; sessions
\* of hosted logins have their flow cookie.
OneLogin ==
  /\ \A flow \in flows : flow.request \notin Anonymous =>
       ClaimedAt(flow.request, flow.at)
  /\ \A i \in Session : cookie[i] # None /\ cookie[i].by \in Login =>
       \/ ByToken(i, cookie[i].by.request, cookie[i].by.at)
       \/ /\ cookie[i].by.kind = "hosted"
          /\ [request |-> cookie[i].by.request, at |-> cookie[i].by.at] \in flows
  /\ \A i \in Session, q \in Request \ Anonymous, t \in Nat : ByToken(i, q, t) =>
       /\ ClaimedAt(q, t)
       /\ [request |-> q, at |-> t] \notin flows
       /\ \A k \in Session : ByToken(k, q, t) => k = i

IInv ==
  /\ TypeOK /\ Links /\ AssertionsBound
  /\ \A h \in Handler : JobOK(job[h])
  /\ Markers /\ RevokedStaysOut
  /\ ClaimsOK /\ OneLogin

-----------------------------------------------------------------------------
(* Types *)

LEMMA InitTypeOK == Init => TypeOK
  BY ConstantsAssumption DEF Init, TypeOK, Idle, Job, PC

\* Starting and finishing a request keeps the type of job.
LEMMA BeginType ==
  ASSUME TypeOK, NEW h \in Handler, NEW pc \in PC,
         NEW x \in Request \cup Logout \cup {None},
         NEW i \in Session \cup {None}, NEW f \in Flow \cup FlowCookie \cup {None},
         Begin(h, pc, x, i, f)
  PROVE  job' \in [Handler -> Job]
<1>1. PICK b : b = IF i = None THEN None ELSE revoked[i]
  OBVIOUS
<1>2. b \in Nat \cup {None}
  BY <1>1 DEF TypeOK
<1>3. [pc |-> pc, request |-> x, session |-> i, flow |-> f, began |-> now,
       barred |-> b] \in Job
  BY <1>2 DEF TypeOK, Job
<1>4. QED
  BY <1>1, <1>3 DEF TypeOK, Begin

LEMMA FinishType ==
  ASSUME TypeOK, NEW h \in Handler, Finish(h)
  PROVE  job' \in [Handler -> Job]
<1>1. Idle \in Job
  BY DEF Idle, Job, PC
<1>2. QED
  BY <1>1 DEF TypeOK, Finish

LEMMA GotoType ==
  ASSUME TypeOK, NEW h \in Handler, NEW pc \in PC, Goto(h, pc)
  PROVE  job' \in [Handler -> Job]
<1>1. job[h] \in Job
  BY DEF TypeOK
<1>2. [job[h] EXCEPT !.pc = pc] \in Job
  BY <1>1 DEF Job
<1>3. QED
  BY <1>2 DEF TypeOK, Goto

LEMMA MintType ==
  ASSUME TypeOK, NEW i \in Session, NEW q \in Request,
         NEW by \in Login \cup Flow, authn[q] # None, Mint(i, q, by)
  PROVE  cookie' \in [Session -> Cookie \cup {None}]
<1>1. PICK d \in Duration :
        cookie' = [cookie EXCEPT ![i] = [sp |-> authn[q].sp, at |-> now,
                                         expires |-> now + d, by |-> by]]
  BY DEF Mint
<1>2. authn[q].sp \in SP /\ now \in Nat /\ now + d \in Nat
  BY ConstantsAssumption DEF TypeOK, AuthnRequest
<1>3. [sp |-> authn[q].sp, at |-> now, expires |-> now + d, by |-> by] \in Cookie
  BY <1>2 DEF Cookie
<1>4. QED
  BY <1>1, <1>3 DEF TypeOK

LEMMA ClaimType ==
  ASSUME TypeOK, NEW x \in Request \cup Logout, NEW ttl \in Nat,
         Claim(x, ttl)
  PROVE  /\ seen' \in [Request \cup Logout -> Nat \cup {None}]
         /\ claims' \in [Request \cup Logout -> Seq(Nat)]
<1>1. CASE x \in Anonymous
  BY <1>1 DEF TypeOK, Claim
<1>2. CASE x \notin Anonymous
  <2>1. MarkSeen(x, ttl) /\ Append(claims[x], now) \in Seq(Nat) /\ now + ttl \in Nat
    BY <1>2 DEF TypeOK, Claim
  <2>2. QED
    BY <2>1 DEF TypeOK, MarkSeen
<1>3. QED
  BY <1>1, <1>2

LEMMA SendType ==
  ASSUME TypeOK, NEW i \in Session, NEW q \in Request, NEW b \in Nat \cup {None},
         SendAssertion(i, q, b)
  PROVE  asserted' \subseteq Assertion
  BY DEF TypeOK, SendAssertion, Assertion

LEMMA ResumeType ==
  ASSUME TypeOK, NEW i \in Session, NEW q \in Request, Resume(i, q)
  PROVE  asserted' \subseteq Assertion
  BY SendType DEF Resume, TypeOK

\* The record of a login is one.
LEMMA LoginType ==
  ASSUME NEW q \in Request, NEW t \in Nat, NEW kind \in {"hosted", "token"}
  PROVE  [request |-> q, at |-> t, kind |-> kind] \in Login
  BY DEF Login

LEMMA NextTypeOK == IInv /\ Next => TypeOK'
<1> SUFFICES ASSUME IInv, Next PROVE TypeOK'
  OBVIOUS
<1>1. TypeOK /\ Links /\ \A h \in Handler : JobOK(job[h])
  BY DEF IInv
<1> USE <1>1
<1>2. ASSUME NEW h \in Handler, NEW q \in Request,
             NEW i \in Session \cup {None}, StartSSO(h, q, i)
      PROVE  TypeOK'
  <2>1. PICK pc \in PC, s \in Session \cup {None} : Begin(h, pc, q, s, None)
    BY <1>2 DEF StartSSO, PC
  <2>2. job' \in [Handler -> Job]
    BY <2>1, BeginType
  <2>3. QED
    BY <1>2, <2>2 DEF StartSSO, TypeOK, sent, browser, table, history
<1>3. ASSUME NEW h \in Handler, CheckRevoked(h)
      PROVE  TypeOK'
  <2>1. job[h].session \in Session /\ job[h].request \in Request /\ job[h].barred \in Nat \cup {None}
    BY <1>3 DEF CheckRevoked, JobOK, SSOStates, TypeOK, Job
  <2>2. job' \in [Handler -> Job]
    BY <1>3, FinishType, GotoType DEF CheckRevoked, PC
  <2>3. asserted' \subseteq Assertion
    BY <1>3, <2>1, SendType DEF CheckRevoked, TypeOK
  <2>4. QED
    BY <1>3, <2>2, <2>3 DEF CheckRevoked, TypeOK, sent, browser, table
<1>4. ASSUME NEW h \in Handler, RefuseLogin(h) \/ Crash(h)
      PROVE  TypeOK'
  <2>1. job' \in [Handler -> Job]
    BY <1>4, FinishType DEF RefuseLogin, Crash
  <2>2. QED
    BY <1>4, <2>1 DEF RefuseLogin, Crash, TypeOK, sent, browser, table, history
<1>5. ASSUME NEW h \in Handler, NEW i \in Session, BearerLogin(h, i)
      PROVE  TypeOK'
  <2> DEFINE q == job[h].request
  <2>1. q \in Request /\ authn[q] # None
    BY <1>5 DEF BearerLogin, JobOK, SSOStates
  <2>2. /\ Claim(q, AuthnTTL) /\ Finish(h)
        /\ \/ /\ Mint(i, q, [request |-> q, at |-> now, kind |-> "token"])
              /\ SendAssertion(i, q, None)
           \/ UNCHANGED <<cookie, asserted>>
    BY <1>5 DEF BearerLogin
  <2> HIDE DEF q
  <2>3. job' \in [Handler -> Job]
    BY <2>2, FinishType
  <2>4. cookie' \in [Session -> Cookie \cup {None}]
    <3>1. [request |-> q, at |-> now, kind |-> "token"] \in Login
      BY <2>1, LoginType DEF TypeOK
    <3>2. QED
      BY <2>1, <2>2, <3>1, MintType DEF TypeOK
  <2>5. seen' \in [Request \cup Logout -> Nat \cup {None}] /\ claims' \in [Request \cup Logout -> Seq(Nat)]
    BY <2>1, <2>2, ClaimType, ConstantsAssumption
  <2>6. asserted' \subseteq Assertion
    BY <2>1, <2>2, SendType DEF TypeOK
  <2>7. QED
    BY <1>5, <2>3, <2>4, <2>5, <2>6 DEF BearerLogin, TypeOK, sent
<1>6. ASSUME NEW h \in Handler, NEW f \in Flow, CustomRedirect(h, f)
      PROVE  TypeOK'
  <2>1. job[h].request \in Request
    BY <1>6 DEF CustomRedirect, JobOK, SSOStates
  <2>2. job' \in [Handler -> Job]
    BY <1>6, FinishType DEF CustomRedirect
  <2>3. pending' \in [Flow -> PendingLogin \cup {None}]
    <3>1. [request |-> job[h].request, expires |-> now + FlowTTL] \in PendingLogin
      BY <2>1, ConstantsAssumption DEF TypeOK, PendingLogin
    <3>2. QED
      BY <1>6, <3>1 DEF CustomRedirect, TypeOK
  <2>4. QED
    BY <1>6, <2>2, <2>3 DEF CustomRedirect, TypeOK, sent, browser
<1>7. ASSUME NEW h \in Handler, HostedRedirect(h)
      PROVE  TypeOK'
  <2>1. job[h].request \in Request
    BY <1>7 DEF HostedRedirect, JobOK, SSOStates
  <2>2. job' \in [Handler -> Job]
    BY <1>7, FinishType DEF HostedRedirect
  <2>3. seen' \in [Request \cup Logout -> Nat \cup {None}] /\ claims' \in [Request \cup Logout -> Seq(Nat)]
    BY <1>7, <2>1, ClaimType, ConstantsAssumption DEF HostedRedirect
  <2>4. flows' \subseteq FlowCookie
    BY <1>7, <2>1 DEF HostedRedirect, TypeOK, FlowCookie
  <2>5. QED
    BY <1>7, <2>2, <2>3, <2>4 DEF HostedRedirect, TypeOK, sent
<1>8. ASSUME NEW h \in Handler, NEW flow \in flows, StartCallback(h, flow)
      PROVE  TypeOK'
  <2>1. flow \in FlowCookie /\ flow.request \in Request
    BY DEF TypeOK, FlowCookie
  <2>2. job' \in [Handler -> Job]
    BY <1>8, <2>1, BeginType DEF StartCallback, PC
  <2>3. QED
    BY <1>8, <2>2 DEF StartCallback, TypeOK, sent, browser, table, history
<1>8a. ASSUME NEW h \in Handler, NEW i \in Session, HandleCallback(h, i)
       PROVE  TypeOK'
  <2>1. /\ job[h].request \in Request /\ authn[job[h].request] # None
        /\ job[h].flow \in FlowCookie
    BY <1>8a DEF HandleCallback, JobOK, SSOStates, TypeOK
  <2>2. [request |-> job[h].request, at |-> job[h].flow.at, kind |-> "hosted"] \in Login
    BY <2>1, LoginType DEF FlowCookie
  <2>3. job' \in [Handler -> Job]
    BY <1>8a, FinishType DEF HandleCallback
  <2>4. cookie' \in [Session -> Cookie \cup {None}]
    BY <1>8a, <2>1, <2>2, MintType DEF HandleCallback, TypeOK
  <2>5. asserted' \subseteq Assertion
    BY <1>8a, <2>1, ResumeType DEF HandleCallback, TypeOK
  <2>6. QED
    BY <1>8a, <2>3, <2>4, <2>5 DEF HandleCallback, TypeOK, sent, table
<1>9. ASSUME NEW h \in Handler, NEW f \in Flow, StartComplete(h, f)
      PROVE  TypeOK'
  <2>1. pending[f].request \in Request
    BY <1>9 DEF StartComplete, TypeOK, PendingLogin
  <2>2. job' \in [Handler -> Job]
    BY <1>9, <2>1, BeginType DEF StartComplete, PC
  <2>3. QED
    BY <1>9, <2>2 DEF StartComplete, TypeOK, sent, browser, table, history
<1>10. ASSUME NEW h \in Handler, NEW i \in Session, Consume(h, i)
       PROVE  TypeOK'
  <2>1. /\ job[h].request \in Request /\ authn[job[h].request] # None
        /\ job[h].flow \in Flow
    BY <1>10 DEF Consume, JobOK, SSOStates
  <2>2. job' \in [Handler -> Job]
    BY <1>10, FinishType DEF Consume
  <2>3. cookie' \in [Session -> Cookie \cup {None}]
    BY <1>10, <2>1, MintType DEF Consume, TypeOK
  <2>4. asserted' \subseteq Assertion
    BY <1>10, <2>1, ResumeType DEF Consume, TypeOK
  <2>5. pending' \in [Flow -> PendingLogin \cup {None}]
    BY <1>10 DEF Consume, TypeOK
  <2>6. QED
    BY <1>10, <2>2, <2>3, <2>4, <2>5 DEF Consume, TypeOK, sent
<1>11. ASSUME NEW h \in Handler, NEW l \in Logout, StartSLO(h, l)
       PROVE  TypeOK'
  <2>1. logout[l].session \in Session
    BY <1>11 DEF StartSLO, TypeOK, LogoutRequest
  <2>2. job' \in [Handler -> Job]
    BY <1>11, <2>1, BeginType DEF StartSLO, PC
  <2>3. QED
    BY <1>11, <2>2 DEF StartSLO, TypeOK, sent, browser, table, history
<1>12. ASSUME NEW h \in Handler, ClaimLogout(h)
       PROVE  TypeOK'
  <2>1. job[h].request \in Logout /\ LogoutTTL \in Nat
    BY <1>12, ConstantsAssumption DEF ClaimLogout, JobOK, SLOStates, LogoutTTL
  <2>2. job' \in [Handler -> Job]
    BY <1>12, FinishType, GotoType DEF ClaimLogout, PC
  <2>3. seen' \in [Request \cup Logout -> Nat \cup {None}] /\ claims' \in [Request \cup Logout -> Seq(Nat)]
    BY <1>12, <2>1, ClaimType DEF ClaimLogout, TypeOK
  <2>4. QED
    BY <1>12, <2>2, <2>3 DEF ClaimLogout, TypeOK, sent, browser
<1>13. ASSUME NEW h \in Handler, RevokeSession(h)
       PROVE  TypeOK'
  <2>1. job[h].session \in Session
    BY <1>13 DEF RevokeSession, JobOK, SLOStates
  <2>2. job' \in [Handler -> Job]
    BY <1>13, FinishType DEF RevokeSession
  <2>3. /\ marker' \in [Session -> Nat \cup {None}]
        /\ revoked' \in [Session -> Nat \cup {None}]
    <3>1. now \in Nat /\ now + MarkerTTL \in Nat
      BY ConstantsAssumption DEF TypeOK
    <3>2. /\ marker' = marker \/ marker' = [marker EXCEPT ![job[h].session] = now + MarkerTTL]
          /\ revoked' = revoked \/ revoked' = [revoked EXCEPT ![job[h].session] = now]
      BY <1>13 DEF RevokeSession
    <3>3. QED
      BY <2>1, <3>1, <3>2 DEF TypeOK
  <2>4. QED
    BY <1>13, <2>2, <2>3 DEF RevokeSession, TypeOK, sent, browser
<1>14. ASSUME NEW ahead \in 0 .. Ahead, NEW q \in Request, NEW sp \in SP,
              IssueRequest(q, sp, ahead)
       PROVE  TypeOK'
  <2>1. [sp |-> sp, at |-> now + ahead] \in AuthnRequest
    BY ConstantsAssumption DEF TypeOK, AuthnRequest
  <2>2. QED
    BY <1>14, <2>1 DEF IssueRequest, TypeOK, browser, table, history
<1>15. ASSUME NEW ahead \in 0 .. Ahead, NEW l \in Logout, NEW i \in Session,
              IssueLogout(l, i, ahead)
       PROVE  TypeOK'
  <2>1. [session |-> i, at |-> now + ahead] \in LogoutRequest
    BY ConstantsAssumption DEF TypeOK, LogoutRequest
  <2>2. QED
    BY <1>15, <2>1 DEF IssueLogout, TypeOK, browser, table, history
<1>16. ASSUME Tick PROVE TypeOK'
  BY <1>16 DEF Tick, TypeOK, sent, browser, table, history
<1>17. ASSUME NEW x \in Request \cup Logout, SweepSeen(x) PROVE TypeOK'
  BY <1>17 DEF SweepSeen, TypeOK, sent, browser, history
<1>18. ASSUME NEW i \in Session, SweepMarker(i) PROVE TypeOK'
  BY <1>18 DEF SweepMarker, TypeOK, sent, browser, history
<1>19. ASSUME NEW f \in Flow, SweepPending(f) PROVE TypeOK'
  BY <1>19 DEF SweepPending, TypeOK, sent, browser, history
<1>20. QED
  BY <1>2, <1>3, <1>4, <1>5, <1>6, <1>7, <1>8, <1>8a, <1>9, <1>10, <1>11, <1>12, <1>13,
     <1>14, <1>15, <1>16, <1>17, <1>18, <1>19 DEF Next, SSO, SLO, Environment

-----------------------------------------------------------------------------
(* What every step keeps *)

\* Messages and cookies are never changed, flow cookies never spent, revocations
\* only renewed, and time never goes back.
Stable ==
  /\ \A q \in Request : authn[q] # None => authn'[q] = authn[q]
  /\ \A l \in Logout : logout[l] # None => logout'[l] = logout[l]
  /\ \A i \in Session : cookie[i] # None => cookie'[i] = cookie[i]
  /\ flows \subseteq flows'
  /\ \A i \in Session : revoked[i] # None =>
       revoked'[i] # None /\ revoked[i] <= revoked'[i]
  /\ now' \in Nat /\ now <= now'

LEMMA NextStable == IInv /\ Next => Stable
<1> SUFFICES ASSUME IInv, Next PROVE Stable
  OBVIOUS
<1> TypeOK
  BY DEF IInv
<1>0. /\ \A i \in Session : revoked[i] # None => revoked[i] \in Nat
      /\ now \in Nat /\ now <= now /\ \A i \in Session : revoked[i] # None => revoked[i] <= revoked[i]
  BY DEF TypeOK
<1>1. ASSUME NEW h \in Handler, SSO(h) PROVE Stable
  <2>1. ASSUME NEW i \in Session, BearerLogin(h, i) \/ HandleCallback(h, i) \/ Consume(h, i)
        PROVE  Stable
    <3>1. cookie' = cookie \/ \E q, by : Mint(i, q, by)
      BY <2>1 DEF BearerLogin, HandleCallback, Consume
    <3>2. \A k \in Session : cookie[k] # None => cookie'[k] = cookie[k]
      BY <3>1 DEF Mint, TypeOK
    <3>3. /\ authn' = authn /\ logout' = logout /\ revoked' = revoked /\ now' = now
          /\ flows' = flows
      BY <2>1 DEF BearerLogin, HandleCallback, Consume, sent
    <3>4. QED
      BY <1>0, <3>2, <3>3 DEF Stable
  <2>2. CASE ~ \E i \in Session : BearerLogin(h, i) \/ HandleCallback(h, i) \/ Consume(h, i)
    <3>1. /\ authn' = authn /\ logout' = logout /\ cookie' = cookie
          /\ revoked' = revoked /\ now' = now /\ flows \subseteq flows'
      BY <1>1, <2>2 DEF SSO, StartSSO, CheckRevoked, RefuseLogin, HostedRedirect,
         StartCallback, CustomRedirect, StartComplete, sent, browser, history
    <3>2. QED
      BY <1>0, <3>1 DEF Stable
  <2>3. QED
    BY <2>1, <2>2
<1>2. ASSUME NEW h \in Handler, RevokeSession(h) PROVE Stable
  <2>1. /\ authn' = authn /\ logout' = logout /\ cookie' = cookie /\ flows' = flows
        /\ now' = now
        /\ revoked' = revoked \/ revoked' = [revoked EXCEPT ![job[h].session] = now]
    BY <1>2 DEF RevokeSession, sent, browser
  <2>2. \A i \in Session : revoked[i] # None => revoked[i] <= now
    BY DEF IInv, Markers
  <2>3. now # None
    BY <1>0, ConstantsAssumption
  <2>4. \A i \in Session : revoked[i] # None =>
          revoked'[i] # None /\ revoked[i] <= revoked'[i]
    BY <1>0, <2>1, <2>2, <2>3 DEF TypeOK
  <2>5. QED
    BY <1>0, <2>1, <2>4 DEF Stable
<1>3. ASSUME NEW h \in Handler,
             ClaimLogout(h) \/ Crash(h) \/ \E l \in Logout : StartSLO(h, l)
      PROVE  Stable
  BY <1>0, <1>3 DEF StartSLO, ClaimLogout, Crash, Stable, sent, browser, table, history
<1>4. ASSUME NEW ahead \in 0 .. Ahead, NEW q \in Request, NEW sp \in SP,
             IssueRequest(q, sp, ahead)
      PROVE  Stable
  BY <1>0, <1>4 DEF IssueRequest, Stable, TypeOK, browser, table, history
<1>5. ASSUME NEW ahead \in 0 .. Ahead, NEW l \in Logout, NEW i \in Session,
             IssueLogout(l, i, ahead)
      PROVE  Stable
  BY <1>0, <1>5 DEF IssueLogout, Stable, TypeOK, browser, table, history
<1>6. Tick => Stable
  BY <1>0 DEF Tick, Stable, sent, browser, table, history
<1>7. ASSUME \/ \E x \in Request \cup Logout : SweepSeen(x)
             \/ \E i \in Session : SweepMarker(i)
             \/ \E f \in Flow : SweepPending(f)
      PROVE  Stable
  BY <1>0, <1>7 DEF SweepSeen, SweepMarker, SweepPending, Stable, sent, browser,
     table, history
<1>8. QED
  BY <1>1, <1>2, <1>3, <1>4, <1>5, <1>6, <1>7 DEF Next, SLO, Environment

\* What a request in flight knows stays true until its next step.
LEMMA JobsStep ==
  ASSUME IInv, Next, TypeOK', Stable, NEW g \in Handler
  PROVE  JobOK(job[g])'
<1> TypeOK /\ Links /\ JobOK(job[g]) /\ job[g] \in Job
  BY DEF IInv, TypeOK
<1> USE ConstantsAssumption DEF SSOStates, SLOStates
<1>1. ASSUME job'[g] = job[g], now' = now
      PROVE  JobOK(job[g])'
  <2>1. CASE job[g].pc = "checkRevoked" /\ job[g].barred # None
    <3>1. /\ job[g].session \in Session /\ revoked[job[g].session] # None
          /\ job[g].barred <= revoked[job[g].session] /\ job[g].barred \in Nat
      BY <2>1 DEF JobOK, Job
    <3>2. /\ revoked'[job[g].session] # None
          /\ revoked[job[g].session] <= revoked'[job[g].session]
          /\ revoked[job[g].session] \in Nat /\ revoked'[job[g].session] \in Nat
      BY <3>1 DEF Stable, TypeOK
    <3>3. job[g].barred <= revoked'[job[g].session]
      BY <3>1, <3>2
    <3>4. QED
      BY <1>1, <2>1, <3>2, <3>3 DEF JobOK, Stable
  <2>2. CASE ~(job[g].pc = "checkRevoked" /\ job[g].barred # None)
    BY <1>1, <2>2 DEF JobOK, Stable
  <2>3. QED
    BY <2>1, <2>2
<1>2. ASSUME job'[g] = Idle
      PROVE  JobOK(job[g])'
  BY <1>2 DEF JobOK, Idle
<1>3. ASSUME NEW h \in Handler, Finish(h), now' = now
      PROVE  JobOK(job[g])'
  BY <1>1, <1>2, <1>3 DEF Finish, TypeOK
<1>4. ASSUME NEW h \in Handler, NEW q \in Request,
             NEW i \in Session \cup {None}, StartSSO(h, q, i)
      PROVE  JobOK(job[g])'
  <2>1. now' = now /\ authn' = authn /\ cookie' = cookie /\ revoked' = revoked /\ logout' = logout
    BY <1>4 DEF StartSSO, sent, browser, history
  <2>2. CASE g # h
    BY <1>1, <1>4, <2>1, <2>2 DEF StartSSO, Begin, TypeOK
  <2>3. CASE g = h /\ Reusable(q, i)
    <3>0. i # None
      BY <2>3 DEF Reusable
    <3>1. job'[g] = [pc |-> "checkRevoked", request |-> q, session |-> i, flow |-> None,
                     began |-> now, barred |-> revoked[i]]
      BY <1>4, <2>3, <3>0 DEF StartSSO, Begin, TypeOK
    <3>2. authn[q] \in AuthnRequest /\ authn[q] # None /\ now <= authn[q].at + RequestWindow
      BY <1>4 DEF StartSSO, Fresh, TypeOK
    <3>3. /\ i \in Session /\ cookie[i] \in Cookie /\ cookie[i] # None
          /\ now <= cookie[i].expires
          /\ cookie[i].sp.tenant = authn[q].sp.tenant /\ cookie[i].sp.entity = authn[q].sp.entity
      BY <2>3 DEF Reusable, Bound, TypeOK
    <3>4. cookie[i].sp = authn[q].sp
      BY <3>2, <3>3 DEF Cookie, AuthnRequest, SP
    <3>5. /\ job'[g].pc = "checkRevoked" /\ job'[g].request = q /\ job'[g].session = i
          /\ job'[g].began = now /\ job'[g].barred = revoked[i]
      BY <3>1
    <3>6. revoked[i] # None => cookie[i].at <= revoked[i] /\ revoked[i] <= revoked[i]
      BY <3>3 DEF IInv, Markers, TypeOK
    <3>7. QED
      BY <2>1, <3>2, <3>3, <3>4, <3>5, <3>6 DEF JobOK, TypeOK
  <2>4. CASE g = h /\ ~Reusable(q, i)
    <3>1. job'[g] = [pc |-> "login", request |-> q, session |-> None, flow |-> None,
                     began |-> now, barred |-> None]
      BY <1>4, <2>4 DEF StartSSO, Begin, TypeOK
    <3>2. authn[q] # None /\ now <= authn[q].at + RequestWindow
      BY <1>4 DEF StartSSO, Fresh
    <3>3. QED
      BY <2>1, <3>1, <3>2 DEF JobOK, TypeOK
  <2>5. QED
    BY <2>2, <2>3, <2>4
<1>5. ASSUME NEW h \in Handler, CheckRevoked(h)
      PROVE  JobOK(job[g])'
  <2>1. now' = now /\ authn' = authn /\ job[h].pc = "checkRevoked"
    BY <1>5 DEF CheckRevoked, sent
  <2>2. CASE Finish(h)
    BY <1>3, <2>1, <2>2
  <2>3. CASE Goto(h, "login")
    BY <1>1, <2>1, <2>3 DEF Goto, JobOK, TypeOK, Job
  <2>4. QED
    BY <1>5, <2>2, <2>3 DEF CheckRevoked
<1>6. ASSUME NEW h \in Handler, RefuseLogin(h) \/ HostedRedirect(h) \/ Crash(h) \/ RevokeSession(h)
      PROVE  JobOK(job[g])'
  BY <1>3, <1>6 DEF RefuseLogin, HostedRedirect, Crash, RevokeSession
<1>7. ASSUME NEW h \in Handler, NEW i \in Session,
             BearerLogin(h, i) \/ HandleCallback(h, i) \/ Consume(h, i)
      PROVE  JobOK(job[g])'
  BY <1>3, <1>7 DEF BearerLogin, HandleCallback, Consume
<1>8. ASSUME NEW h \in Handler, NEW f \in Flow, CustomRedirect(h, f)
      PROVE  JobOK(job[g])'
  BY <1>3, <1>8 DEF CustomRedirect
<1>9. ASSUME NEW h \in Handler, NEW f \in Flow, StartComplete(h, f)
      PROVE  JobOK(job[g])'
  <2>1. now' = now /\ authn' = authn
    BY <1>9 DEF StartComplete, sent
  <2>2. CASE g # h
    BY <1>1, <1>9, <2>1, <2>2 DEF StartComplete, Begin, TypeOK
  <2>3. CASE g = h
    <3>1. job'[g] = [pc |-> "consume", request |-> pending[f].request, session |-> None,
                     flow |-> f, began |-> now, barred |-> None]
      BY <1>9, <2>3 DEF StartComplete, Begin, TypeOK
    <3>2. pending[f].request \in Request /\ authn[pending[f].request] # None
      BY <1>9 DEF StartComplete, TypeOK, PendingLogin, Links
    <3>3. QED
      BY <2>1, <3>1, <3>2 DEF JobOK, TypeOK
  <2>4. QED
    BY <2>2, <2>3
<1>10. ASSUME NEW h \in Handler, NEW l \in Logout, StartSLO(h, l)
       PROVE  JobOK(job[g])'
  <2>1. now' = now /\ logout' = logout /\ cookie' = cookie
    BY <1>10 DEF StartSLO, sent, browser
  <2>2. CASE g # h
    BY <1>1, <1>10, <2>1, <2>2 DEF StartSLO, Begin, TypeOK
  <2>3. CASE g = h
    <3>1. /\ job'[g].pc = "claimLogout" /\ job'[g].request = l
          /\ job'[g].session = logout[l].session /\ job'[g].began = now
      BY <1>10, <2>3 DEF StartSLO, Begin, TypeOK
    <3>2. /\ logout[l] # None /\ logout[l].session \in Session
          /\ cookie[logout[l].session] # None
          /\ now <= logout[l].at + MaxAge + Skew
      BY <1>10 DEF StartSLO, TypeOK, LogoutRequest, Links
    <3>3. QED
      BY <2>1, <3>1, <3>2 DEF JobOK, TypeOK
  <2>4. QED
    BY <2>2, <2>3
<1>11. ASSUME NEW h \in Handler, ClaimLogout(h)
       PROVE  JobOK(job[g])'
  <2>1. /\ now' = now /\ logout' = logout /\ cookie' = cookie
        /\ job[h].pc = "claimLogout"
    BY <1>11 DEF ClaimLogout, sent, browser
  <2>2. CASE Finish(h)
    BY <1>3, <2>1, <2>2
  <2>3. CASE Goto(h, "revoke")
    BY <1>1, <2>1, <2>3 DEF Goto, JobOK, TypeOK, Job
  <2>4. QED
    BY <1>11, <2>2, <2>3 DEF ClaimLogout
<1>12. ASSUME NEW h \in Handler, NEW flow \in flows, StartCallback(h, flow)
       PROVE  JobOK(job[g])'
  <2>1. now' = now /\ authn' = authn /\ flows' = flows
    BY <1>12 DEF StartCallback, sent, browser
  <2>2. CASE g # h
    BY <1>1, <1>12, <2>1, <2>2 DEF StartCallback, Begin, TypeOK
  <2>3. CASE g = h
    <3>1. job'[g] = [pc |-> "exchange", request |-> flow.request, session |-> None,
                     flow |-> flow, began |-> now, barred |-> None]
      BY <1>12, <2>3 DEF StartCallback, Begin, TypeOK
    <3>2. flow.request \in Request /\ authn[flow.request] # None
      BY DEF TypeOK, FlowCookie, Links
    <3>3. QED
      BY <2>1, <3>1, <3>2 DEF JobOK, TypeOK
  <2>4. QED
    BY <2>2, <2>3
<1>13. ASSUME Tick PROVE JobOK(job[g])'
  <2>1. job'[g] = job[g] /\ now' = now + 1 /\ (job[g].pc # "idle" => now < job[g].began + Timeout)
    BY <1>13 DEF Tick
  <2>2. QED
    BY <2>1 DEF JobOK, Stable, TypeOK, Job
<1>14. ASSUME \/ \E x \in Request \cup Logout : SweepSeen(x)
              \/ \E i \in Session : SweepMarker(i)
              \/ \E f \in Flow : SweepPending(f)
              \/ \E ahead \in 0 .. Ahead :
                   \/ \E q \in Request, sp \in SP : IssueRequest(q, sp, ahead)
                   \/ \E l \in Logout, i \in Session : IssueLogout(l, i, ahead)
       PROVE  JobOK(job[g])'
  BY <1>1, <1>14 DEF SweepSeen, SweepMarker, SweepPending, IssueRequest, IssueLogout
<1>15. QED
  BY <1>4, <1>5, <1>6, <1>7, <1>8, <1>9, <1>10, <1>11, <1>12, <1>13, <1>14
     DEF Next, SSO, SLO, Environment

-----------------------------------------------------------------------------
(* Sessions and assertions *)

\* A session is minted for the service provider of a request that was sent.
LEMMA MintEffect ==
  ASSUME TypeOK, NEW i \in Session, NEW q \in Request, NEW by \in Login \cup Flow,
         authn[q] # None, Mint(i, q, by)
  PROVE  /\ cookie[i] = None
         /\ cookie'[i] # None /\ cookie'[i].sp = authn[q].sp /\ cookie'[i].by = by
         /\ cookie'[i].at = now
         /\ \A k \in Session \ {i} : cookie'[k] = cookie[k]
<1>1. PICK d \in Duration :
        cookie' = [cookie EXCEPT ![i] = [sp |-> authn[q].sp, at |-> now,
                                         expires |-> now + d, by |-> by]]
  BY DEF Mint
<1>2. cookie'[i] = [sp |-> authn[q].sp, at |-> now, expires |-> now + d, by |-> by]
  BY <1>1 DEF TypeOK
<1>3. cookie[i] = None /\ \A k \in Session \ {i} : cookie'[k] = cookie[k]
  BY <1>1 DEF TypeOK, Mint
<1>4. cookie'[i] # None
  <2>1. authn[q].sp \in SP /\ now \in Nat /\ now + d \in Nat
    BY ConstantsAssumption DEF TypeOK, AuthnRequest
  <2>2. cookie'[i] \in Cookie
    BY <1>2, <2>1 DEF Cookie
  <2>3. QED
    BY <2>2, ConstantsAssumption
<1>5. QED
  BY <1>2, <1>3, <1>4

\* The three ways to a session mint one for a request that was sent, by a login
\* with a valid record.
LEMMA LoginStep ==
  ASSUME IInv, NEW h \in Handler, NEW i \in Session,
         BearerLogin(h, i) \/ HandleCallback(h, i) \/ Consume(h, i)
  PROVE  \E q \in Request, by \in Login \cup Flow :
           /\ q = job[h].request /\ authn[q] # None
           /\ authn' = authn /\ now' = now /\ flows' = flows
           /\ \/ cookie' = cookie /\ asserted' = asserted
              \/ /\ Mint(i, q, by)
                 /\ asserted' = asserted \/ SendAssertion(i, q, None)
           /\ BearerLogin(h, i) => by = [request |-> q, at |-> now, kind |-> "token"]
           /\ HandleCallback(h, i) =>
                /\ job[h].flow \in flows /\ job[h].flow.request = q
                /\ by = [request |-> q, at |-> job[h].flow.at, kind |-> "hosted"]
           /\ Consume(h, i) => by \in Flow
<1> TypeOK /\ JobOK(job[h])
  BY DEF IInv
<1>1. /\ job[h].request \in Request /\ authn[job[h].request] # None
      /\ authn' = authn /\ now' = now /\ flows' = flows
  BY DEF BearerLogin, HandleCallback, Consume, JobOK, SSOStates, sent
<1> PICK q \in Request : q = job[h].request
  BY <1>1
<1>2. CASE BearerLogin(h, i)
  <2>1. job[h].pc = "login"
    BY <1>2 DEF BearerLogin
  <2>2. PICK by \in Login : by = [request |-> q, at |-> now, kind |-> "token"]
    BY LoginType DEF TypeOK
  <2>3. \/ cookie' = cookie /\ asserted' = asserted
        \/ Mint(i, q, by) /\ SendAssertion(i, q, None)
    BY <1>2, <2>2 DEF BearerLogin
  <2>4. ~HandleCallback(h, i) /\ ~Consume(h, i)
    BY <2>1 DEF HandleCallback, Consume
  <2>5. QED
    BY <1>1, <2>2, <2>3, <2>4
<1>3. CASE HandleCallback(h, i)
  <2>1. job[h].pc = "exchange"
    BY <1>3 DEF HandleCallback
  <2>2. job[h].flow \in flows /\ job[h].flow.request = q /\ job[h].flow.at \in Nat
    BY <2>1 DEF JobOK, TypeOK, FlowCookie
  <2>3. PICK by \in Login : by = [request |-> q, at |-> job[h].flow.at, kind |-> "hosted"]
    BY <2>2, LoginType
  <2>4. \/ cookie' = cookie /\ asserted' = asserted
        \/ /\ Mint(i, q, by)
           /\ asserted' = asserted \/ SendAssertion(i, q, None)
    BY <1>3, <2>3 DEF HandleCallback, Resume
  <2>5. ~BearerLogin(h, i) /\ ~Consume(h, i)
    BY <2>1 DEF BearerLogin, Consume
  <2>6. QED
    BY <1>1, <2>2, <2>3, <2>4, <2>5
<1>4. CASE Consume(h, i)
  <2>1. job[h].pc = "consume" /\ job[h].flow \in Flow
    BY <1>4 DEF Consume, JobOK
  <2>2. \/ cookie' = cookie /\ asserted' = asserted
        \/ /\ Mint(i, q, job[h].flow)
           /\ asserted' = asserted \/ SendAssertion(i, q, None)
    BY <1>4 DEF Consume, Resume
  <2>3. ~BearerLogin(h, i) /\ ~HandleCallback(h, i)
    BY <2>1 DEF BearerLogin, HandleCallback
  <2>4. QED
    BY <1>1, <2>1, <2>2, <2>3
<1>5. QED
  BY <1>2, <1>3, <1>4

\* Every new assertion is bound to its request; if it comes from a session that
\* was revoked before the request began, the marker has run out.
LEMMA AssertedStep ==
  ASSUME IInv, Next, TypeOK', Stable, NEW a \in asserted', a \notin asserted
  PROVE  /\ authn'[a.request] # None /\ cookie'[a.session] # None
         /\ cookie'[a.session].sp = authn'[a.request].sp
         /\ a.barred # None =>
              /\ a.barred + MarkerTTL < a.at
              /\ cookie'[a.session].at + MarkerTTL < cookie'[a.session].expires + Timeout
<1> TypeOK /\ Links
  BY DEF IInv
<1> USE ConstantsAssumption
<1>1. ASSUME NEW h \in Handler, NEW i \in Session,
             BearerLogin(h, i) \/ HandleCallback(h, i) \/ Consume(h, i)
      PROVE  /\ authn'[a.request] # None /\ cookie'[a.session] # None
             /\ cookie'[a.session].sp = authn'[a.request].sp
             /\ a.barred = None
  <2>1. PICK q \in Request, by \in Login \cup Flow :
               /\ authn[q] # None /\ authn' = authn
               /\ Mint(i, q, by) /\ SendAssertion(i, q, None)
    BY <1>1, LoginStep
  <2>2. a = [session |-> i, request |-> q, at |-> now, barred |-> None]
    BY <2>1 DEF SendAssertion
  <2>3. a.session = i /\ a.request = q /\ a.barred = None
    BY <2>2
  <2>4. QED
    BY <2>1, <2>3, MintEffect
<1>2. ASSUME NEW h \in Handler, CheckRevoked(h)
      PROVE  /\ authn'[a.request] # None /\ cookie'[a.session] # None
             /\ cookie'[a.session].sp = authn'[a.request].sp
             /\ a.barred # None =>
                  /\ a.barred + MarkerTTL < a.at
                  /\ cookie'[a.session].at + MarkerTTL < cookie'[a.session].expires + Timeout
  <2> DEFINE j == job[h]
  <2>1. /\ j.pc = "checkRevoked" /\ authn' = authn /\ cookie' = cookie
        /\ ~IsRevoked(j.session)
        /\ a = [session |-> j.session, request |-> j.request, at |-> now, barred |-> j.barred]
    BY <1>2 DEF CheckRevoked, SendAssertion, sent, browser
  <2>2. JobOK(j) /\ j \in Job
    BY DEF IInv, TypeOK
  <2> HIDE DEF j
  <2>3. a.session = j.session /\ a.request = j.request /\ a.at = now /\ a.barred = j.barred
    BY <2>1
  <2>4. /\ j.session \in Session /\ cookie[j.session] # None
        /\ authn[j.request] # None /\ cookie[j.session].sp = authn[j.request].sp
    BY <2>1, <2>2 DEF JobOK, SSOStates
  <2>5. ASSUME j.barred # None
        PROVE  /\ j.barred + MarkerTTL < now
               /\ cookie[j.session].at + MarkerTTL < cookie[j.session].expires + Timeout
    <3> DEFINE c == cookie[j.session]
               r == revoked[j.session]
    <3>1. /\ c.at <= j.barred /\ r # None /\ j.barred <= r
          /\ now <= j.began + Timeout /\ j.began <= c.expires
      BY <2>1, <2>2, <2>5 DEF JobOK
    <3>2. \/ marker[j.session] = r + MarkerTTL
          \/ marker[j.session] = None /\ r + MarkerTTL < now
      BY <2>4, <3>1 DEF IInv, Markers
    <3>3. c \in Cookie /\ r \in Nat /\ marker[j.session] \in Nat \cup {None} /\ now \in Nat
      BY <2>4, <3>1 DEF TypeOK
    <3>4. c.at \in Nat /\ c.expires \in Nat /\ j.began \in Nat /\ j.barred \in Nat
      BY <2>2, <2>5, <3>3 DEF Cookie, Job
    <3> HIDE DEF c, r
    <3>5. r + MarkerTTL < now
      BY <2>1, <3>2, <3>3 DEF IsRevoked
    <3>6. j.barred + MarkerTTL < now /\ c.at + MarkerTTL < c.expires + Timeout
      BY <3>1, <3>3, <3>4, <3>5
    <3>7. QED
      BY <3>6 DEF c
  <2>6. QED
    BY <2>1, <2>3, <2>4, <2>5
<1>3. QED
  BY <1>1, <1>2 DEF Next, SSO, SLO, Environment, StartSSO, RefuseLogin, StartCallback,
     CustomRedirect, HostedRedirect, StartComplete, StartSLO, ClaimLogout,
     RevokeSession, Crash, IssueRequest, IssueLogout, Tick, SweepSeen, SweepMarker,
     SweepPending, history

LEMMA LinksStep ==
  ASSUME IInv, Next, TypeOK', Stable
  PROVE  Links' /\ AssertionsBound'
<1> TypeOK /\ Links /\ AssertionsBound
  BY DEF IInv
<1>1. \A a \in asserted' : /\ authn'[a.request] # None /\ cookie'[a.session] # None
                           /\ cookie'[a.session].sp = authn'[a.request].sp
  <2> SUFFICES ASSUME NEW a \in asserted'
               PROVE  /\ authn'[a.request] # None /\ cookie'[a.session] # None
                      /\ cookie'[a.session].sp = authn'[a.request].sp
    OBVIOUS
  <2>1. CASE a \in asserted
    <3>1. /\ a.request \in Request /\ a.session \in Session
          /\ authn[a.request] # None /\ cookie[a.session] # None
          /\ cookie[a.session].sp = authn[a.request].sp
      BY <2>1 DEF TypeOK, Assertion, Links, AssertionsBound
    <3>2. authn'[a.request] = authn[a.request] /\ cookie'[a.session] = cookie[a.session]
      BY <3>1 DEF Stable
    <3>3. QED
      BY <3>1, <3>2
  <2>2. CASE a \notin asserted
    BY <2>2, AssertedStep
  <2>3. QED
    BY <2>1, <2>2
<1>2. \A flow \in flows' : authn'[flow.request] # None
  <2> SUFFICES ASSUME NEW flow \in flows' PROVE authn'[flow.request] # None
    OBVIOUS
  <2>1. CASE flow \in flows
    BY <2>1 DEF TypeOK, FlowCookie, Links, Stable
  <2>2. CASE flow \notin flows
    <3>1. PICK h \in Handler : HostedRedirect(h)
      BY <2>2 DEF Next, SSO, SLO, Environment, StartSSO, CheckRevoked, RefuseLogin,
         BearerLogin, Consume, CustomRedirect, StartComplete, StartSLO, ClaimLogout,
         RevokeSession, Crash, IssueRequest, IssueLogout, Tick, SweepSeen, SweepMarker,
         SweepPending, HandleCallback, StartCallback, browser
    <3>2. PICK q \in Request : authn[q] # None /\ flow.request = q
      BY <2>2, <3>1 DEF HostedRedirect, IInv, JobOK, SSOStates
    <3>3. QED
      BY <3>2 DEF Stable
  <2>3. QED
    BY <2>1, <2>2
<1>3. \A f \in Flow : pending'[f] # None => authn'[pending'[f].request] # None
  <2> SUFFICES ASSUME NEW f \in Flow, pending'[f] # None
               PROVE  authn'[pending'[f].request] # None
    OBVIOUS
  <2>1. CASE pending'[f] = pending[f]
    BY <2>1 DEF TypeOK, PendingLogin, Links, Stable
  <2>2. CASE pending'[f] # pending[f]
    <3>1. PICK h \in Handler, e \in Flow : CustomRedirect(h, e)
      BY <2>2 DEF Next, SSO, SLO, Environment, StartSSO, CheckRevoked, RefuseLogin,
         BearerLogin, Consume, HostedRedirect, StartComplete, StartSLO, ClaimLogout,
         RevokeSession, Crash, IssueRequest, IssueLogout, Tick, SweepSeen, SweepMarker,
         SweepPending, HandleCallback, StartCallback, table, TypeOK
    <3>2. PICK q \in Request :
            authn[q] # None /\ pending'[f] = [request |-> q, expires |-> now + FlowTTL]
      BY <2>2, <3>1 DEF CustomRedirect, IInv, JobOK, SSOStates, TypeOK
    <3>3. pending'[f].request = q
      BY <3>2
    <3>4. QED
      BY <3>2, <3>3 DEF Stable
  <2>3. QED
    BY <2>1, <2>2
<1>4. \A l \in Logout : logout'[l] # None => cookie'[logout'[l].session] # None
  <2> SUFFICES ASSUME NEW l \in Logout, logout'[l] # None
               PROVE  cookie'[logout'[l].session] # None
    OBVIOUS
  <2>1. CASE logout'[l] = logout[l]
    <3>1. logout[l] \in LogoutRequest /\ cookie[logout[l].session] # None
      BY <2>1 DEF TypeOK, Links
    <3>2. cookie'[logout[l].session] = cookie[logout[l].session]
      BY <3>1 DEF LogoutRequest, Stable
    <3>3. QED
      BY <2>1, <3>1, <3>2
  <2>2. CASE logout'[l] # logout[l]
    <3>1. PICK ahead \in 0 .. Ahead, k \in Logout, i \in Session : IssueLogout(k, i, ahead)
      BY <2>2 DEF Next, SSO, SLO, Environment, StartSSO, CheckRevoked, RefuseLogin,
         BearerLogin, Consume, HostedRedirect, StartComplete, StartSLO, ClaimLogout,
         RevokeSession, Crash, IssueRequest, CustomRedirect, Tick, SweepSeen, SweepMarker,
         SweepPending, HandleCallback, StartCallback, sent
    <3>2. logout'[l] = [session |-> i, at |-> now + ahead] /\ cookie' = cookie
      BY <2>2, <3>1 DEF IssueLogout, TypeOK, browser
    <3>3. cookie[i] # None
      BY <3>1 DEF IssueLogout, Links
    <3>4. QED
      BY <3>2, <3>3
  <2>3. QED
    BY <2>1, <2>2
<1>5. QED
  BY <1>1, <1>2, <1>3, <1>4 DEF Links, AssertionsBound

-----------------------------------------------------------------------------
(* Revocation *)

\* A cookie that was not there before was minted by a login that ends now.
LEMMA CookieStep ==
  ASSUME IInv, Next, NEW i \in Session, cookie'[i] # cookie[i]
  PROVE  /\ cookie[i] = None /\ now' = now /\ cookie'[i].at = now
         /\ \E h \in Handler : BearerLogin(h, i) \/ HandleCallback(h, i) \/ Consume(h, i)
<1> TypeOK
  BY DEF IInv
<1>1. PICK h \in Handler, k \in Session :
        BearerLogin(h, k) \/ HandleCallback(h, k) \/ Consume(h, k)
  BY DEF Next, SSO, SLO, Environment, StartSSO, CheckRevoked, RefuseLogin, StartCallback,
     HostedRedirect, StartComplete, StartSLO, ClaimLogout, RevokeSession, Crash,
     IssueRequest, IssueLogout, CustomRedirect, Tick, SweepSeen, SweepMarker,
     SweepPending, browser
<1>2. PICK q \in Request, by \in Login \cup Flow :
        authn[q] # None /\ Mint(k, q, by) /\ now' = now
  BY <1>1, LoginStep
<1>3. i = k
  BY <1>2, MintEffect
<1>4. QED
  BY <1>1, <1>2, <1>3, MintEffect

LEMMA MarkersStep ==
  ASSUME IInv, Next, TypeOK', Stable
  PROVE  Markers'
<1> TypeOK /\ Markers /\ Links
  BY DEF IInv
<1> USE ConstantsAssumption
<1>1. ASSUME NEW i \in Session, cookie'[i] # None
      PROVE  cookie'[i].at <= now'
  <2>1. CASE cookie'[i] = cookie[i]
    BY <1>1, <2>1 DEF Markers, Stable, TypeOK, Cookie
  <2>2. CASE cookie'[i] # cookie[i]
    BY <2>2, CookieStep DEF TypeOK
  <2>3. QED
    BY <2>1, <2>2
<1>2. ASSUME NEW i \in Session, revoked'[i] # None
      PROVE  /\ cookie'[i] # None /\ cookie'[i].at <= revoked'[i] /\ revoked'[i] <= now'
             /\ \/ marker'[i] = revoked'[i] + MarkerTTL
                \/ marker'[i] = None /\ revoked'[i] + MarkerTTL < now'
  <2>1. ASSUME NEW h \in Handler, RevokeSession(h), job[h].session = i,
               marker'[i] = now + MarkerTTL, revoked'[i] = now
        PROVE  /\ cookie'[i] # None /\ cookie'[i].at <= revoked'[i] /\ revoked'[i] <= now'
               /\ \/ marker'[i] = revoked'[i] + MarkerTTL
                  \/ marker'[i] = None /\ revoked'[i] + MarkerTTL < now'
    <3>1. cookie[i] # None /\ cookie' = cookie /\ now' = now
      BY <2>1 DEF RevokeSession, IInv, JobOK, SLOStates, browser
    <3>2. cookie[i].at <= now /\ now <= now
      BY <3>1 DEF Markers, TypeOK
    <3>3. QED
      BY <2>1, <3>1, <3>2
  <2>2. ASSUME revoked'[i] = revoked[i], marker'[i] = marker[i]
        PROVE  /\ cookie'[i] # None /\ cookie'[i].at <= revoked'[i] /\ revoked'[i] <= now'
               /\ \/ marker'[i] = revoked'[i] + MarkerTTL
                  \/ marker'[i] = None /\ revoked'[i] + MarkerTTL < now'
    <3>1. /\ cookie[i] # None /\ cookie'[i] = cookie[i] /\ cookie[i].at <= revoked[i]
          /\ revoked[i] <= now /\ revoked[i] \in Nat
          /\ \/ marker[i] = revoked[i] + MarkerTTL
             \/ marker[i] = None /\ revoked[i] + MarkerTTL < now
      BY <1>2, <2>2 DEF Markers, Stable, TypeOK
    <3>2. now \in Nat /\ now' \in Nat /\ now <= now'
      BY DEF Stable, TypeOK
    <3>3. QED
      BY <2>2, <3>1, <3>2
  <2>3. ASSUME SweepMarker(i)
        PROVE  /\ cookie'[i] # None /\ cookie'[i].at <= revoked'[i] /\ revoked'[i] <= now'
               /\ \/ marker'[i] = revoked'[i] + MarkerTTL
                  \/ marker'[i] = None /\ revoked'[i] + MarkerTTL < now'
    <3>1. /\ marker[i] # None /\ marker[i] < now /\ marker'[i] = None
          /\ now' = now /\ cookie' = cookie /\ revoked' = revoked
      BY <2>3 DEF SweepMarker, TypeOK, browser, history
    <3>2. QED
      BY <1>2, <3>1 DEF Markers
  <2>4. QED
    <3>1. ASSUME NEW h \in Handler, RevokeSession(h)
          PROVE  \/ revoked'[i] = revoked[i] /\ marker'[i] = marker[i]
                 \/ job[h].session = i /\ marker'[i] = now + MarkerTTL /\ revoked'[i] = now
      BY <3>1 DEF RevokeSession, TypeOK
    <3>2. ASSUME NEW k \in Session, SweepMarker(k)
          PROVE  SweepMarker(i) \/ (revoked'[i] = revoked[i] /\ marker'[i] = marker[i])
      BY <3>2 DEF SweepMarker, TypeOK, history
    <3>3. CASE ~(\E h \in Handler : RevokeSession(h)) /\ ~ \E k \in Session : SweepMarker(k)
      <4>1. revoked'[i] = revoked[i] /\ marker'[i] = marker[i]
        BY <3>3 DEF Next, SSO, SLO, Environment, StartSSO, CheckRevoked, StartCallback,
           RefuseLogin, HostedRedirect, StartComplete, StartSLO, ClaimLogout, Crash,
           IssueRequest, IssueLogout, CustomRedirect, Tick, SweepSeen, SweepPending,
           BearerLogin, Consume, HandleCallback, table, history
      <4>2. QED
        BY <2>2, <4>1
    <3>4. QED
      BY <2>1, <2>2, <2>3, <3>1, <3>2, <3>3
<1>3. QED
  BY <1>1, <1>2 DEF Markers

LEMMA RevokedStep ==
  ASSUME IInv, Next, TypeOK', Stable
  PROVE  RevokedStaysOut'
<1> TypeOK /\ RevokedStaysOut /\ Links
  BY DEF IInv
<1> SUFFICES ASSUME NEW a \in asserted', a.barred # None
             PROVE  /\ a.barred + MarkerTTL < a.at
                    /\ cookie'[a.session].at + MarkerTTL < cookie'[a.session].expires + Timeout
  BY DEF RevokedStaysOut
<1>1. CASE a \in asserted
  <2>1. a.session \in Session /\ cookie'[a.session] = cookie[a.session]
    BY <1>1 DEF TypeOK, Assertion, Links, Stable
  <2>2. QED
    BY <1>1, <2>1 DEF RevokedStaysOut
<1>2. CASE a \notin asserted
  BY <1>2, AssertedStep
<1>3. QED
  BY <1>1, <1>2

-----------------------------------------------------------------------------
(* Replay *)

\* A claim changes only by MarkSeen, when none is kept under the ID and the message
\* is still acceptable; the record of a claim goes only after its TTL.
LEMMA SeenStep ==
  ASSUME IInv, Next, NEW x \in Request \cup Logout
  PROVE  \/ seen'[x] = seen[x] /\ claims'[x] = claims[x]
         \/ SweepSeen(x)
         \/ /\ x \notin Anonymous /\ MarkSeen(x, TTL(x)) /\ now' = now
            /\ ClaimedInTime(x, now)
<1> TypeOK
  BY DEF IInv
<1> USE ConstantsAssumption
<1>1. ASSUME NEW h \in Handler,
             HostedRedirect(h) \/ \E i \in Session : BearerLogin(h, i)
      PROVE  \/ seen'[x] = seen[x] /\ claims'[x] = claims[x]
             \/ /\ x \notin Anonymous /\ MarkSeen(x, TTL(x)) /\ now' = now
                /\ ClaimedInTime(x, now)
  <2> DEFINE q == job[h].request
  <2>1. Claim(q, AuthnTTL) /\ now' = now /\ job[h].pc = "login"
    BY <1>1 DEF HostedRedirect, BearerLogin
  <2>2. /\ q \in Request /\ authn[q] # None
        /\ job[h].began <= authn[q].at + RequestWindow /\ now <= job[h].began + Timeout
    BY <2>1 DEF IInv, JobOK, SSOStates
  <2>3. authn[q].at \in Nat /\ job[h].began \in Nat /\ now \in Nat
    BY <2>2 DEF TypeOK, AuthnRequest, Job
  <2>4. now <= authn[q].at + RequestWindow + Timeout
    BY <2>2, <2>3
  <2>5. ClaimedInTime(q, now) /\ TTL(q) = AuthnTTL
    BY <2>2, <2>4 DEF ClaimedInTime, TTL
  <2> HIDE DEF q
  <2>6. CASE x = q
    BY <2>1, <2>5, <2>6 DEF Claim
  <2>7. CASE x # q
    BY <2>1, <2>7 DEF Claim, MarkSeen, TypeOK
  <2>8. QED
    BY <2>6, <2>7
<1>2. ASSUME NEW h \in Handler, ClaimLogout(h)
      PROVE  \/ seen'[x] = seen[x] /\ claims'[x] = claims[x]
             \/ /\ x \notin Anonymous /\ MarkSeen(x, TTL(x)) /\ now' = now
                /\ ClaimedInTime(x, now)
  <2> DEFINE l == job[h].request
  <2>1. /\ (seen' = seen /\ claims' = claims) \/ Claim(l, LogoutTTL)
        /\ now' = now /\ job[h].pc = "claimLogout"
    BY <1>2 DEF ClaimLogout
  <2>2. /\ l \in Logout /\ logout[l] # None
        /\ job[h].began <= logout[l].at + MaxAge + Skew /\ now <= job[h].began + Timeout
    BY <2>1 DEF IInv, JobOK, SLOStates
  <2>3. logout[l].at \in Nat /\ job[h].began \in Nat /\ now \in Nat
    BY <2>2 DEF TypeOK, LogoutRequest, Job
  <2>4. now <= logout[l].at + MaxAge + Skew + Timeout
    BY <2>2, <2>3
  <2>5. ClaimedInTime(l, now) /\ TTL(l) = LogoutTTL
    BY <2>2, <2>4 DEF ClaimedInTime, TTL
  <2> HIDE DEF l
  <2>6. CASE x = l
    BY <2>1, <2>5, <2>6 DEF Claim
  <2>7. CASE x # l
    BY <2>1, <2>7 DEF Claim, MarkSeen, TypeOK
  <2>8. QED
    BY <2>6, <2>7
<1>3. ASSUME NEW y \in Request \cup Logout, SweepSeen(y)
      PROVE  SweepSeen(x) \/ (seen'[x] = seen[x] /\ claims'[x] = claims[x])
  BY <1>3 DEF SweepSeen, TypeOK, history
<1>4. QED
  BY <1>1, <1>2, <1>3 DEF Next, SSO, SLO, Environment, StartSSO, CheckRevoked,
     RefuseLogin, StartComplete, StartSLO, RevokeSession, Crash, StartCallback,
     IssueRequest, IssueLogout, CustomRedirect, Tick, SweepMarker, SweepPending,
     Consume, HandleCallback, table, history

\* What MarkSeen adds to the claims of its message.
LEMMA MarkSeenEffect ==
  ASSUME TypeOK, NEW x \in Request \cup Logout, NEW ttl \in Nat, MarkSeen(x, ttl)
  PROVE  LET k == Len(claims[x]) + 1 IN
         /\ seen[x] = None /\ seen'[x] = now + ttl
         /\ claims[x] \in Seq(Nat) /\ Len(claims[x]) \in Nat
         /\ claims'[x] = Append(claims[x], now)
         /\ DOMAIN claims'[x] = DOMAIN claims[x] \cup {k}
         /\ claims'[x][k] = now
         /\ \A n \in DOMAIN claims[x] :
              n < k /\ claims'[x][n] = claims[x][n] /\ claims[x][n] \in Nat
         /\ \A n \in DOMAIN claims[x] : n \in Nat
<1>1. claims[x] \in Seq(Nat) /\ now \in Nat
  BY DEF TypeOK
<1>2. seen[x] = None /\ seen'[x] = now + ttl /\ claims'[x] = Append(claims[x], now)
  BY DEF TypeOK, MarkSeen
<1>3. /\ Len(claims[x]) \in Nat /\ DOMAIN claims[x] = 1 .. Len(claims[x])
      /\ DOMAIN Append(claims[x], now) = 1 .. Len(claims[x]) + 1
      /\ Append(claims[x], now)[Len(claims[x]) + 1] = now
      /\ \A n \in 1 .. Len(claims[x]) : Append(claims[x], now)[n] = claims[x][n]
      /\ \A n \in 1 .. Len(claims[x]) : claims[x][n] \in Nat
  BY <1>1
<1>4. QED
  BY <1>1, <1>2, <1>3

LEMMA TTLType == \A x : TTL(x) \in Nat
  BY ConstantsAssumption DEF TTL, LogoutTTL

\* A message that could be claimed at t could still have been, later on.
LEMMA InTimeStep ==
  ASSUME Stable, NEW x \in Request \cup Logout, NEW t, ClaimedInTime(x, t)
  PROVE  ClaimedInTime(x, t)'
<1>1. x \in Logout => logout'[x] = logout[x]
  BY DEF ClaimedInTime, Stable
<1>2. x \in Request => authn'[x] = authn[x]
  BY DEF ClaimedInTime, Stable
<1>3. QED
  BY <1>1, <1>2 DEF ClaimedInTime

LEMMA ClaimsStep ==
  ASSUME IInv, Next, TypeOK', Stable
  PROVE  ClaimsOK'
<1> TypeOK /\ ClaimsOK
  BY DEF IInv
<1> USE ConstantsAssumption, TTLType
<1> SUFFICES ASSUME NEW x \in Request \cup Logout
             PROVE  /\ \A n \in DOMAIN claims'[x] :
                         /\ ClaimedInTime(x, claims[x][n])'
                         /\ seen'[x] # None => claims'[x][n] + TTL(x) <= seen'[x]
                         /\ seen'[x] = None => claims'[x][n] + TTL(x) < now'
                    /\ \A m, n \in DOMAIN claims'[x] :
                         m < n => claims'[x][m] + TTL(x) < claims'[x][n]
  BY DEF ClaimsOK, TTL
<1>0. /\ \A n \in DOMAIN claims[x] :
           /\ ClaimedInTime(x, claims[x][n]) /\ claims[x][n] \in Nat
           /\ seen[x] # None => claims[x][n] + TTL(x) <= seen[x]
           /\ seen[x] = None => claims[x][n] + TTL(x) < now
      /\ \A m, n \in DOMAIN claims[x] :
           m < n => claims[x][m] + TTL(x) < claims[x][n]
  BY DEF ClaimsOK, TypeOK
<1>1. now \in Nat /\ now' \in Nat /\ now <= now' /\ seen[x] \in Nat \cup {None}
  BY DEF Stable, TypeOK
<1>2. CASE seen'[x] = seen[x] /\ claims'[x] = claims[x]
  <2>1. \A n \in DOMAIN claims[x] : ClaimedInTime(x, claims[x][n])'
    <3> SUFFICES ASSUME NEW n \in DOMAIN claims[x]
                 PROVE  ClaimedInTime(x, claims[x][n])'
      OBVIOUS
    <3>1. PICK t : t = claims[x][n]
      OBVIOUS
    <3>2. ClaimedInTime(x, t)'
      BY <1>0, <3>1, InTimeStep
    <3>3. QED
      BY <1>2, <3>1, <3>2 DEF ClaimedInTime
  <2>2. QED
    BY <1>0, <1>1, <1>2, <2>1
<1>3. CASE SweepSeen(x)
  <2>1. /\ seen[x] # None /\ seen[x] < now /\ now' = now /\ claims' = claims
        /\ seen'[x] = None /\ authn' = authn /\ logout' = logout
    BY <1>3 DEF SweepSeen, TypeOK, history, sent
  <2>2. QED
    BY <1>0, <1>1, <2>1 DEF ClaimedInTime
<1>4. CASE MarkSeen(x, TTL(x)) /\ now' = now /\ ClaimedInTime(x, now)
  <2> DEFINE k == Len(claims[x]) + 1
  <2>1. /\ seen[x] = None /\ seen'[x] = now + TTL(x)
        /\ DOMAIN claims'[x] = DOMAIN claims[x] \cup {k}
        /\ claims'[x][k] = now /\ k \in Nat
        /\ \A n \in DOMAIN claims[x] :
             n < k /\ claims'[x][n] = claims[x][n] /\ claims[x][n] \in Nat /\ n \in Nat
    BY <1>4, MarkSeenEffect
  <2> HIDE DEF k
  <2>2. \A n \in DOMAIN claims'[x] : ClaimedInTime(x, claims[x][n])'
    <3> SUFFICES ASSUME NEW n \in DOMAIN claims'[x]
                 PROVE  ClaimedInTime(x, claims[x][n])'
      OBVIOUS
    <3>1. PICK t : t = claims'[x][n]
      OBVIOUS
    <3>2. ClaimedInTime(x, t)
      BY <1>0, <1>4, <2>1, <3>1
    <3>3. ClaimedInTime(x, t)'
      BY <3>2, InTimeStep
    <3>4. QED
      BY <3>1, <3>3 DEF ClaimedInTime
  <2>3. seen'[x] # None
    BY <1>1, <2>1
  <2>4. \A n \in DOMAIN claims'[x] : claims'[x][n] + TTL(x) <= seen'[x]
    BY <1>0, <1>1, <2>1
  <2>5. ASSUME NEW m \in DOMAIN claims'[x], NEW n \in DOMAIN claims'[x], m < n
        PROVE  claims'[x][m] + TTL(x) < claims'[x][n]
    <3>1. CASE n \in DOMAIN claims[x] /\ m \in DOMAIN claims[x]
      BY <1>0, <2>1, <2>5, <3>1
    <3>2. CASE n = k /\ m \in DOMAIN claims[x]
      BY <1>0, <2>1, <3>2
    <3>3. CASE m = k
      BY <2>1, <2>5, <3>3
    <3>4. QED
      BY <2>1, <3>1, <3>2, <3>3
  <2>6. QED
    BY <2>2, <2>3, <2>4, <2>5
<1>5. QED
  BY <1>2, <1>3, <1>4, SeenStep

\* A login that has claimed its request goes on having done so.
LEMMA ClaimedStep ==
  ASSUME IInv, Next, NEW q \in Request, NEW t, ClaimedAt(q, t)
  PROVE  ClaimedAt(q, t)'
<1> TypeOK
  BY DEF IInv
<1>1. CASE claims'[q] = claims[q]
  BY <1>1 DEF ClaimedAt
<1>2. CASE MarkSeen(q, TTL(q))
  BY <1>2, MarkSeenEffect, TTLType DEF ClaimedAt
<1>3. QED
  BY <1>1, <1>2, SeenStep DEF SweepSeen, history

\* A login that claims its request is the first of its time.
LEMMA ClaimEffect ==
  ASSUME IInv, NEW q \in Request, q \notin Anonymous, Claim(q, AuthnTTL), now' = now
  PROVE  ~ClaimedAt(q, now) /\ ClaimedAt(q, now)'
<1> TypeOK
  BY DEF IInv
<1>1. MarkSeen(q, AuthnTTL) /\ AuthnTTL \in Nat
  BY ConstantsAssumption DEF Claim
<1>2. ClaimedAt(q, now)'
  BY <1>1, MarkSeenEffect DEF ClaimedAt
<1>3. seen[q] = None /\ \A n \in DOMAIN claims[q] : claims[q][n] \in Nat
  BY <1>1, MarkSeenEffect
<1>4. \A n \in DOMAIN claims[q] : claims[q][n] + TTL(q) < now
  BY <1>3 DEF IInv, ClaimsOK
<1>5. \A n \in DOMAIN claims[q] : claims[q][n] # now
  BY <1>3, <1>4, TTLType DEF TypeOK
<1>6. QED
  BY <1>2, <1>5 DEF ClaimedAt

\* What a new session owes its login: a token login has just claimed its request,
\* a hosted one comes from a flow cookie.
LEMMA NewCookieStep ==
  ASSUME IInv, Next, NEW i \in Session, cookie[i] = None, cookie'[i] # None
  PROVE  \/ cookie'[i].by \in Flow
         \/ \E q \in Request :
              /\ cookie'[i].by = [request |-> q, at |-> now, kind |-> "token"]
              /\ flows' = flows /\ now' = now
              /\ \A k \in Session \ {i} : cookie'[k] = cookie[k]
              /\ q \notin Anonymous => ~ClaimedAt(q, now) /\ ClaimedAt(q, now)'
         \/ \E flow \in flows :
              /\ cookie'[i].by = [request |-> flow.request, at |-> flow.at, kind |-> "hosted"]
              /\ flow = [request |-> flow.request, at |-> flow.at]
              /\ flow.request \in Request /\ flow.at \in Nat /\ flows' = flows
<1> TypeOK
  BY DEF IInv
<1>1. PICK h \in Handler : BearerLogin(h, i) \/ HandleCallback(h, i) \/ Consume(h, i)
  BY CookieStep
<1>2. PICK q \in Request, by \in Login \cup Flow :
        /\ q = job[h].request /\ authn[q] # None /\ now' = now /\ flows' = flows
        /\ Mint(i, q, by)
        /\ BearerLogin(h, i) => by = [request |-> q, at |-> now, kind |-> "token"]
        /\ HandleCallback(h, i) =>
             /\ job[h].flow \in flows /\ job[h].flow.request = q
             /\ by = [request |-> q, at |-> job[h].flow.at, kind |-> "hosted"]
        /\ Consume(h, i) => by \in Flow
  BY <1>1, LoginStep
<1>3. cookie'[i].by = by /\ \A k \in Session \ {i} : cookie'[k] = cookie[k]
  BY <1>2, MintEffect
<1>4. CASE BearerLogin(h, i)
  <2>1. Claim(q, AuthnTTL)
    BY <1>2, <1>4 DEF BearerLogin
  <2>2. q \notin Anonymous => ~ClaimedAt(q, now) /\ ClaimedAt(q, now)'
    BY <1>2, <2>1, ClaimEffect
  <2>3. QED
    BY <1>2, <1>3, <1>4, <2>2
<1>5. CASE HandleCallback(h, i)
  <2>1. PICK flow \in flows : flow = job[h].flow /\ flow.request = q
    BY <1>2, <1>5
  <2>2. flow \in FlowCookie
    BY DEF TypeOK
  <2>3. flow = [request |-> flow.request, at |-> flow.at] /\ flow.at \in Nat
    BY <2>2 DEF FlowCookie
  <2>4. QED
    BY <1>2, <1>3, <1>5, <2>1, <2>3
<1>6. CASE Consume(h, i)
  BY <1>2, <1>3, <1>6
<1>7. QED
  BY <1>1, <1>4, <1>5, <1>6

\* A new flow cookie belongs to a login that has just claimed its request.
LEMMA NewFlowStep ==
  ASSUME IInv, Next, NEW flow \in flows', flow \notin flows
  PROVE  /\ flow.request \in Request /\ flow.at = now /\ now' = now /\ cookie' = cookie
         /\ flow.request \notin Anonymous =>
              ~ClaimedAt(flow.request, now) /\ ClaimedAt(flow.request, now)'
<1>1. PICK h \in Handler : HostedRedirect(h)
  BY DEF Next, SSO, SLO, Environment, StartSSO, CheckRevoked, RefuseLogin,
     BearerLogin, Consume, CustomRedirect, StartComplete, StartSLO, ClaimLogout,
     RevokeSession, Crash, IssueRequest, IssueLogout, Tick, SweepSeen, SweepMarker,
     SweepPending, HandleCallback, StartCallback, browser
<1>2. PICK q \in Request : q = job[h].request
  BY <1>1 DEF HostedRedirect, IInv, JobOK, SSOStates
<1>3. /\ Claim(q, AuthnTTL) /\ now' = now /\ cookie' = cookie
      /\ flow = [request |-> q, at |-> now]
  BY <1>1, <1>2 DEF HostedRedirect
<1>4. flow.request = q /\ flow.at = now
  BY <1>3
<1>5. QED
  BY <1>3, <1>4, ClaimEffect

LEMMA OneLoginStep ==
  ASSUME IInv, Next, TypeOK', Stable
  PROVE  OneLogin'
<1> TypeOK /\ OneLogin
  BY DEF IInv
<1> USE ConstantsAssumption
<1>0. \A i \in Session : cookie'[i] # None =>
        \/ cookie[i] # None /\ cookie'[i] = cookie[i]
        \/ cookie[i] = None
  BY DEF Stable
<1>1. ASSUME NEW flow \in flows', flow.request \notin Anonymous
      PROVE  ClaimedAt(flow.request, flow.at)'
  <2>1. CASE flow \in flows
    <3>1. flow.request \in Request /\ ClaimedAt(flow.request, flow.at)
      BY <1>1, <2>1 DEF OneLogin, TypeOK, FlowCookie
    <3>2. QED
      BY <3>1, ClaimedStep
  <2>2. CASE flow \notin flows
    BY <1>1, <2>2, NewFlowStep DEF ClaimedAt
  <2>3. QED
    BY <2>1, <2>2
<1>2. ASSUME NEW i \in Session, cookie'[i] # None, cookie'[i].by \in Login
      PROVE  \/ ByToken(i, cookie[i].by.request, cookie[i].by.at)'
             \/ /\ cookie'[i].by.kind = "hosted"
                /\ [request |-> cookie'[i].by.request, at |-> cookie'[i].by.at] \in flows'
  <2>1. CASE cookie[i] # None /\ cookie'[i] = cookie[i]
    BY <1>2, <2>1 DEF OneLogin, ByToken, Stable
  <2>2. CASE cookie[i] = None
    <3>1. cookie'[i].by \notin Flow
      BY <1>2
    <3>2. CASE \E q \in Request :
                 cookie'[i].by = [request |-> q, at |-> now, kind |-> "token"]
      BY <1>2, <3>2 DEF ByToken
    <3>3. CASE \E flow \in flows :
            /\ cookie'[i].by = [request |-> flow.request, at |-> flow.at, kind |-> "hosted"]
            /\ flow = [request |-> flow.request, at |-> flow.at] /\ flows' = flows
      <4>1. PICK flow \in flows :
            /\ cookie'[i].by = [request |-> flow.request, at |-> flow.at, kind |-> "hosted"]
            /\ flow = [request |-> flow.request, at |-> flow.at] /\ flows' = flows
        BY <3>3
      <4>2. /\ cookie'[i].by.kind = "hosted" /\ cookie'[i].by.request = flow.request
            /\ cookie'[i].by.at = flow.at
        BY <4>1
      <4>3. [request |-> cookie'[i].by.request, at |-> cookie'[i].by.at] = flow
        BY <4>1, <4>2
      <4>4. QED
        BY <4>1, <4>2, <4>3
    <3>4. QED
      BY <1>2, <2>2, <3>1, <3>2, <3>3, NewCookieStep
  <2>3. QED
    BY <1>0, <1>2, <2>1, <2>2
<1>3. ASSUME NEW i \in Session, NEW q \in Request, q \notin Anonymous, NEW t \in Nat,
             ByToken(i, q, t)', cookie[i] # None
      PROVE  /\ ClaimedAt(q, t)' /\ ClaimedAt(q, t)
             /\ [request |-> q, at |-> t] \notin flows'
             /\ \A k \in Session : ByToken(k, q, t)' => k = i
  <2>1. ByToken(i, q, t)
    BY <1>3 DEF ByToken, Stable
  <2>2. ClaimedAt(q, t) /\ [request |-> q, at |-> t] \notin flows
    BY <1>3, <2>1 DEF OneLogin
  <2>3. [request |-> q, at |-> t] \notin flows'
    <3>1. PICK flow : flow = [request |-> q, at |-> t]
      OBVIOUS
    <3>2. flow.request = q /\ flow.at = t
      BY <3>1
    <3>3. QED
      BY <1>3, <2>2, <3>1, <3>2, NewFlowStep
  <2>4. ASSUME NEW k \in Session, ByToken(k, q, t)'
        PROVE  k = i
    <3>1. cookie'[k] # None /\ cookie'[k].by = [request |-> q, at |-> t, kind |-> "token"]
      BY <2>4 DEF ByToken
    <3>2. CASE cookie[k] # None
      <4>1. ByToken(k, q, t)
        BY <3>1, <3>2 DEF ByToken, Stable
      <4>2. QED
        BY <1>3, <2>1, <4>1 DEF OneLogin
    <3>3. CASE cookie[k] = None
      <4>1. cookie'[k].by \in Login
        BY <3>1, LoginType
      <4>1a. cookie'[k].by \notin Flow /\ cookie'[k].by.kind = "token"
        BY <3>1, <4>1
      <4>1b. \A x, y : [request |-> x, at |-> y, kind |-> "hosted"].kind = "hosted"
        OBVIOUS
      <4>2. PICK p \in Request : /\ cookie'[k].by = [request |-> p, at |-> now, kind |-> "token"]
                                 /\ p \notin Anonymous => ~ClaimedAt(p, now)
        BY <3>1, <3>3, <4>1a, <4>1b, NewCookieStep
      <4>3. p = q /\ t = now
        BY <3>1, <4>2
      <4>4. QED
        BY <1>3, <2>2, <4>2, <4>3
    <3>4. QED
      BY <3>2, <3>3
  <2>5. QED
    BY <2>2, <2>3, <2>4, ClaimedStep
<1>4. ASSUME NEW i \in Session, NEW q \in Request, q \notin Anonymous, NEW t \in Nat,
             ByToken(i, q, t)', cookie[i] = None
      PROVE  /\ ClaimedAt(q, t)'
             /\ [request |-> q, at |-> t] \notin flows'
             /\ \A k \in Session : ByToken(k, q, t)' => k = i
  <2>1. cookie'[i] # None /\ cookie'[i].by = [request |-> q, at |-> t, kind |-> "token"]
    BY <1>4 DEF ByToken
  <2>2. cookie'[i].by \in Login
    BY <2>1, LoginType
  <2>2a. cookie'[i].by \notin Flow /\ cookie'[i].by.kind = "token"
    BY <2>1, <2>2
  <2>2b. \A x, y : [request |-> x, at |-> y, kind |-> "hosted"].kind = "hosted"
    OBVIOUS
  <2>3. PICK p \in Request :
          /\ cookie'[i].by = [request |-> p, at |-> now, kind |-> "token"]
          /\ flows' = flows /\ now' = now
          /\ \A k \in Session \ {i} : cookie'[k] = cookie[k]
          /\ p \notin Anonymous => ~ClaimedAt(p, now) /\ ClaimedAt(p, now)'
    BY <1>4, <2>1, <2>2a, <2>2b, NewCookieStep
  <2>4. p = q /\ t = now
    BY <2>1, <2>3
  <2>5. ~ClaimedAt(q, t) /\ ClaimedAt(q, t)'
    BY <1>4, <2>3, <2>4 DEF ClaimedAt
  <2>6. [request |-> q, at |-> t] \notin flows
    <3>1. PICK flow : flow = [request |-> q, at |-> t]
      OBVIOUS
    <3>2. flow.request = q /\ flow.at = t
      BY <3>1
    <3>3. flow \notin flows
      BY <1>4, <2>5, <3>2 DEF OneLogin
    <3>4. QED
      BY <3>1, <3>3
  <2>7. ASSUME NEW k \in Session, ByToken(k, q, t)', k # i
        PROVE  FALSE
    <3>1. ByToken(k, q, t)
      BY <2>3, <2>7 DEF ByToken
    <3>2. QED
      BY <1>4, <2>5, <3>1 DEF OneLogin
  <2>8. QED
    BY <2>3, <2>5, <2>6, <2>7
<1>5. \A i \in Session, q \in Request \ Anonymous, t \in Nat : ByToken(i, q, t)' =>
        /\ ClaimedAt(q, t)'
        /\ [request |-> q, at |-> t] \notin flows'
        /\ \A k \in Session : ByToken(k, q, t)' => k = i
  BY <1>3, <1>4
<1>6. QED
  BY <1>1, <1>2, <1>5 DEF OneLogin

-----------------------------------------------------------------------------
(* Theorems *)

LEMMA InitIInv == Init => IInv
<1> SUFFICES ASSUME Init PROVE IInv
  OBVIOUS
<1>1. TypeOK
  BY InitTypeOK
<1>2. Links /\ AssertionsBound /\ \A h \in Handler : JobOK(job[h])
  BY DEF Init, Links, AssertionsBound, JobOK, Idle, SSOStates, SLOStates
<1>3. Markers /\ RevokedStaysOut /\ OneLogin
  BY DEF Init, Markers, RevokedStaysOut, OneLogin, ByToken
<1>4. \A x \in Request \cup Logout : DOMAIN claims[x] = {}
  <2>1. \A x \in Request \cup Logout : claims[x] = <<>>
    BY DEF Init
  <2>2. DOMAIN <<>> = {}
    OBVIOUS
  <2>3. QED
    BY <2>1, <2>2
<1>5. ClaimsOK
  BY <1>4 DEF ClaimsOK
<1>6. QED
  BY <1>1, <1>2, <1>3, <1>5 DEF IInv

LEMMA NextIInv == IInv /\ [Next]_vars => IInv'
<1> SUFFICES ASSUME IInv, [Next]_vars PROVE IInv'
  OBVIOUS
<1>1. CASE Next
  <2>1. TypeOK' /\ Stable
    BY <1>1, NextTypeOK, NextStable
  <2>2. Links' /\ AssertionsBound'
    BY <1>1, <2>1, LinksStep
  <2>3. \A h \in Handler : JobOK(job[h])'
    BY <1>1, <2>1, JobsStep
  <2>4. Markers' /\ RevokedStaysOut' /\ ClaimsOK' /\ OneLogin'
    BY <1>1, <2>1, MarkersStep, RevokedStep, ClaimsStep, OneLoginStep
  <2>5. QED
    BY <2>1, <2>2, <2>3, <2>4 DEF IInv
<1>2. CASE UNCHANGED vars
  BY <1>2 DEF vars, IInv, TypeOK, Links, AssertionsBound, JobOK, Markers, RevokedStaysOut,
     ClaimsOK, ClaimedInTime, TTL, OneLogin, ClaimedAt, ByToken
<1>3. QED
  BY <1>1, <1>2

\* IInv holds in every reachable state of GetSession, HandleCallback,
\* CompleteCustomLogin, HandleSLO and the table's TTLs.
THEOREM Invariance == Spec => []IInv
  BY InitIInv, NextIInv, PTL DEF Spec

\* Every variable keeps its type.
THEOREM TypeCorrect == Spec => []TypeOK
<1>1. IInv => TypeOK
  BY DEF IInv
<1>2. QED
  BY <1>1, Invariance, PTL

\* However long sessions live, a revoked one stays out for as long as the marker
\* that RevokeSession left, and for good unless it was configured to live longer.
THEOREM Revocation == Spec => []RevokedStaysOut
<1>1. IInv => RevokedStaysOut
  BY DEF IInv
<1>2. QED
  BY <1>1, Invariance, PTL

\* HandleSLO acts again on a LogoutRequest with an ID only after sloReplayTTL, and
\* only on one that was dated ahead of the gateway's clock.
THEOREM NoLogoutReplay == Spec => []LogoutOnce
<1>1. IInv => LogoutOnce
  <2> SUFFICES ASSUME IInv, NEW l \in Logout, NEW m \in DOMAIN claims[l],
                      NEW n \in DOMAIN claims[l], m < n
               PROVE  /\ claims[l][m] + LogoutTTL < claims[l][n]
                      /\ claims[l][m] < logout[l].at + Timeout
    BY DEF LogoutOnce
  <2>1. /\ claims[l][m] + LogoutTTL < claims[l][n]
        /\ logout[l] # None /\ claims[l][n] <= logout[l].at + MaxAge + Skew + Timeout
    BY DEF IInv, ClaimsOK, ClaimedInTime, TTL
  <2>2. /\ claims[l][m] \in Nat /\ claims[l][n] \in Nat /\ logout[l].at \in Nat
        /\ MaxAge \in Nat /\ Skew \in Nat /\ Timeout \in Nat
    BY <2>1, ConstantsAssumption DEF IInv, TypeOK, LogoutRequest
  <2>3. QED
    BY <2>1, <2>2 DEF LogoutTTL
<1>2. QED
  BY <1>1, Invariance, PTL

\* A second hosted or token login for an AuthnRequest with an ID needs its claim
\* to have run out while crewjam still accepts the request.
THEOREM NoLoginReplay == Spec => []LoginOnce
<1>1. IInv => LoginOnce
  <2> SUFFICES ASSUME IInv, NEW i \in Session, NEW j \in Session,
                      cookie[i] # None, cookie[j] # None,
                      cookie[i].by \in Login, cookie[j].by \in Login,
                      cookie[i].by.request = cookie[j].by.request,
                      cookie[i].by.request \notin Anonymous,
                      cookie[i].by.at <= cookie[j].by.at
               PROVE  \/ /\ cookie[i].by = cookie[j].by
                         /\ cookie[i].by.kind = "token" => i = j
                      \/ /\ cookie[i].by.at + AuthnTTL < cookie[j].by.at
                         /\ cookie[i].by.at + AuthnTTL
                              < authn[cookie[i].by.request].at + RequestWindow + Timeout
    BY DEF LoginOnce
  <2> DEFINE a == cookie[i].by
             b == cookie[j].by
             q == cookie[i].by.request
  <2> TypeOK /\ OneLogin
    BY DEF IInv
  <2>1. /\ a \in Login /\ b \in Login /\ a.request = q /\ b.request = q
        /\ q \in Request /\ q \notin Anonymous /\ a.at <= b.at
        /\ a.at \in Nat /\ b.at \in Nat
    BY DEF Login
  <2>2. /\ a = [request |-> q, at |-> a.at, kind |-> a.kind]
        /\ b = [request |-> q, at |-> b.at, kind |-> b.kind]
    BY <2>1 DEF Login
  <2>3. /\ \/ ByToken(i, q, a.at)
           \/ a.kind = "hosted" /\ [request |-> q, at |-> a.at] \in flows
        /\ \/ ByToken(j, q, b.at)
           \/ b.kind = "hosted" /\ [request |-> q, at |-> b.at] \in flows
    BY <2>1 DEF OneLogin
  <2>4. /\ ByToken(i, q, a.at) => a.kind = "token"
        /\ ByToken(j, q, b.at) => b.kind = "token"
    BY <2>2 DEF ByToken
  <2> HIDE DEF a, b, q
  <2>5. CASE a.at = b.at
    <3>1. CASE a.kind = "token"
      <4>1. ByToken(i, q, a.at)
        BY <2>3, <3>1
      <4>2. /\ [request |-> q, at |-> a.at] \notin flows
            /\ \A k \in Session : ByToken(k, q, a.at) => k = i
        BY <2>1, <4>1 DEF OneLogin
      <4>3. ByToken(j, q, a.at) /\ i = j
        BY <2>3, <2>5, <4>2
      <4>4. QED
        BY <4>3 DEF a, b
    <3>2. CASE a.kind = "hosted"
      <4>1. [request |-> q, at |-> a.at] \in flows
        BY <2>3, <2>4, <3>2
      <4>2. ~ByToken(j, q, b.at)
        BY <2>1, <2>5, <4>1 DEF OneLogin
      <4>3. b.kind = "hosted"
        BY <2>3, <4>2
      <4>4. a = b /\ a.kind # "token"
        BY <2>2, <2>5, <3>2, <4>3
      <4>5. QED
        BY <4>4 DEF a, b
    <3>3. QED
      BY <2>3, <2>4, <3>1, <3>2
  <2>6. CASE a.at # b.at
    <3>1. ASSUME NEW t \in Nat, [request |-> q, at |-> t] \in flows
          PROVE  ClaimedAt(q, t)
      <4>1. PICK flow \in flows : flow = [request |-> q, at |-> t]
        BY <3>1
      <4>2. flow.request = q /\ flow.at = t
        BY <4>1
      <4>3. QED
        BY <2>1, <4>2 DEF OneLogin
    <3>2. ClaimedAt(q, a.at) /\ ClaimedAt(q, b.at)
      BY <2>1, <2>3, <3>1 DEF OneLogin
    <3>3. PICK m \in DOMAIN claims[q], n \in DOMAIN claims[q] :
            claims[q][m] = a.at /\ claims[q][n] = b.at
      BY <3>2 DEF ClaimedAt
    <3>4. q \notin Logout /\ TTL(q) = AuthnTTL
      BY <2>1, ConstantsAssumption DEF TTL
    <3>5. /\ m < n => a.at + AuthnTTL < b.at
          /\ n < m => b.at + AuthnTTL < a.at
          /\ authn[q] # None /\ b.at <= authn[q].at + RequestWindow + Timeout
      BY <2>1, <3>3, <3>4 DEF IInv, ClaimsOK, ClaimedInTime
    <3>6. authn[q].at \in Nat /\ m \in Nat /\ n \in Nat
      BY <2>1, <3>3, <3>5 DEF TypeOK, AuthnRequest
    <3>7. a.at + AuthnTTL < b.at /\ a.at + AuthnTTL < authn[q].at + RequestWindow + Timeout
      BY <2>1, <2>6, <3>3, <3>5, <3>6, ConstantsAssumption
    <3>8. QED
      BY <3>7 DEF a, b, q
  <2>7. QED
    BY <2>5, <2>6
<1>2. QED
  BY <1>1, Invariance, PTL

\* Every assertion speaks of a session of its request's tenant and service
\* provider, whatever cookies browsers present (sessionBindingMatches).
THEOREM Binding == Spec => []AssertionsBound
<1>1. IInv => AssertionsBound
  BY DEF IInv
<1>2. QED
  BY <1>1, Invariance, PTL

=============================================================================
