---------------------------- MODULE MCSAMLSession ----------------------------
(* Instances of SAMLSession for TLC.                                        *)
EXTENDS SAMLSession, TLC

CONSTANTS acme, beta, portal, s1, s2, s3, q1, q2, h1, h2

\* Two tenants that registered the same entityID; acme's has a custom login page.
MCCustomLogin == {[tenant |-> acme, entity |-> portal]}

\* Handlers and session indexes are interchangeable; the symmetry is used for
\* invariants only.
Symmetry == Permutations(Session) \cup Permutations(Handler)

\* Constraint of the login run: one request for each tenant, sent at the start,
\* of which the first may be dated ahead; two flow cookies, two assertions.
TwoRequests ==
  /\ authn[q1] = None \/ authn[q2] = None => now = 0
  /\ authn[q1] # None => authn[q1].sp.tenant = acme
  /\ authn[q2] # None => authn[q2].sp.tenant = beta /\ authn[q2].at = 0
  /\ Cardinality(flows) <= 2 /\ Cardinality(asserted) <= 2

\* Constraint of the logout run: the first login's request is sent at the start,
\* only logouts may be dated ahead; one flow cookie, two assertions.
LoginsInTime ==
  /\ authn[q1] = None => now = 0
  /\ \A q \in Request : authn[q] # None => authn[q].at <= now
  /\ Cardinality(flows) <= 1 /\ Cardinality(asserted) <= 2
=============================================================================
