---------------------------- MODULE LogoutBinding ----------------------------
(***************************************************************************)
(* Single logout over the redirect binding (internal/saml/slo.go): how the  *)
(* gateway reads a query string, which bytes it takes the signature to      *)
(* cover, and where the answer goes. Freshness, the one-time use of the     *)
(* request and the revocation of the session are SAMLSession's.             *)
(*                                                                         *)
(* A query is a sequence of parameters, each with its decoded name, whether *)
(* it is spelled plainly, and its value; a signature is the pair of its key *)
(* and of what it covers.                                                   *)
(***************************************************************************)
EXTENDS SAMLResponse

CONSTANTS
  Query,      \* query strings that browsers present
  Self,       \* the entityID of the application
  Endpoint,   \* the gateway's logout endpoint for the tenant
  KeyOf       \* the kind of key, "rsa" or "ecdsa", of certificates that parse

\* Where an answer may go: a logout endpoint on record, or the primary one.
Location ==
  {None} \cup (UNION {{c.acs, c.slo} : c \in Edit \cup Legacy}) \cup
  {Head(m.acs) : m \in {m \in Metadata : m.acs # <<>>}}

ParamValue == UNION {{q[i].value : i \in DOMAIN q} : q \in Query}

\* A signature covers one message, at most one relay state and one algorithm.
IsSignature(s) ==
  /\ s = [by |-> s.by, over |-> [request |-> s.over.request, relay |-> s.over.relay,
                                alg |-> s.over.alg]]
  /\ \E m \in s.over.request : m # None /\ s.over.request = {m}
  /\ \E alg \in s.over.alg : s.over.alg = {alg}
  /\ s.over.relay = {} \/ \E relay \in s.over.relay : s.over.relay = {relay}

ASSUME QueryAssumption ==
  /\ \A q \in Query : /\ IsFiniteSet(DOMAIN q)
                       /\ \A i \in DOMAIN q : q[i].key = "Signature" => IsSignature(q[i].value)
  /\ None \notin [request : SUBSET ParamValue, relay : SUBSET ParamValue,
                  to : Location, status : {"Success", "PartialLogout"}]

VARIABLE slo   \* the logout request being answered

CanonicalKeys == {"SAMLRequest", "SAMLResponse", "RelayState", "SigAlg", "Signature"}

NoLogout == [pc |-> "idle", query |-> None, at |-> None, answer |-> None]

SloInit == slo = NoLogout

-----------------------------------------------------------------------------
(* Reading the query *)

At(q, key) == {i \in DOMAIN q : q[i].key = key}

\* extractRedirectParams: names that matter are spelled plainly, and once.
WellFormed(q) ==
  \A key \in CanonicalKeys : \A i, j \in At(q, key) : q[i].plain /\ i = j

\* The value of a parameter, as a set that is empty if it is missing.
Param(q, key) == {q[i].value : i \in At(q, key)}

\* Mutant: the relay state is not part of it.
SignedOctets_NoRelay(q) ==
  [request |-> Param(q, "SAMLRequest"), relay |-> {}, alg |-> Param(q, "SigAlg")]

\* What the signature is checked against: the three values in this order,
\* whatever theirs in the query.
SignedOctets(q) ==
  [request |-> Param(q, "SAMLRequest"), relay |-> Param(q, "RelayState"),
   alg |-> Param(q, "SigAlg")]

\* hashForSigAlg, for algorithms that are known at all.
HashAllowed(alg, sha1) == alg # None /\ (alg.hash = "sha1" => sha1)

\* verifyRedirectSignature
VerifyRedirectSignature(q, c) ==
  /\ c.signing \in DOMAIN KeyOf
  /\ \E alg \in Param(q, "SigAlg") :
       HashAllowed(alg, c.sha1) /\ alg.key = KeyOf[c.signing]
  /\ Param(q, "Signature") = {[by |-> c.signing, over |-> SignedOctets(q)]}

\* destinationMatches; the binding allows a message without a destination.
DestinationMatches(m) == m.destination \in {None, Endpoint}

-----------------------------------------------------------------------------
(* Answering it *)

\* GetByTenantEntityID, for an application of any status. A configuration that
\* cannot be read makes the handler panic, which is a refusal as well. What
\* the request says is looked at in HandleSLO.
ReceiveSLO ==
  /\ protocol = "saml" /\ slo.pc = "idle"
  /\ slo' = [NoLogout EXCEPT !.pc = "received", !.at = IF Exists THEN cfg ELSE None]
  /\ Keep /\ UNCHANGED responseVars

Accepts(q) ==
  /\ WellFormed(q)
  /\ \E m \in Param(q, "SAMLRequest") \ {None} :
       /\ slo.at # None /\ m.issuer = Self
       /\ DestinationMatches(m)
       /\ VerifyRedirectSignature(q, slo.at)

\* buildLogoutResponse. Sessions have no participants on record: the status is
\* Success, or PartialLogout if looking them up fails.
LogoutResponse(q, status) ==
  [request |-> Param(q, "SAMLRequest"), relay |-> Param(q, "RelayState"),
   to |-> IF slo.at.slo # None THEN slo.at.slo ELSE slo.at.acs, status |-> status]

HandleSLO(q) ==
  /\ slo.pc = "received"
  /\ \/ /\ Accepts(q)
        /\ \E status \in {"Success"} \cup (IF "participants" \in ConfigFault
                                           THEN {"PartialLogout"} ELSE {}) :
             slo' = [slo EXCEPT !.pc = "answer", !.query = q,
                                !.answer = LogoutResponse(q, status)]
     \/ ~Accepts(q) /\ slo' = [slo EXCEPT !.pc = "answer", !.query = q]
  /\ Keep /\ UNCHANGED responseVars

\* clearSessionCookie and the redirect to the service provider, or an error.
AnswerSLO ==
  /\ slo.pc = "answer"
  /\ slo' = NoLogout
  /\ IF slo.answer # None
     THEN cookie' = None /\ signedIn' = None
     ELSE UNCHANGED <<cookie, signedIn>>
  /\ Keep /\ UNCHANGED <<resp, named>>

SloNext == ReceiveSLO \/ (\E q \in Query : HandleSLO(q)) \/ AnswerSLO

-----------------------------------------------------------------------------
(* Properties *)

\* The registered key, with an algorithm the application admits, signed the
\* very message that is carried out and the relay state that goes back with the
\* answer, which is sent to an endpoint on record (slo.go:476).
ActsOnSigned ==
  slo.pc = "answer" /\ slo.answer # None =>
    \E i \in DOMAIN slo.query, alg \in Param(slo.query, "SigAlg") :
      /\ slo.query[i].key = "Signature"
      /\ slo.query[i].value = [by |-> slo.at.signing, over |->
           [request |-> slo.answer.request, relay |-> slo.answer.relay,
            alg |-> {alg}]]
      /\ alg.hash = "sha1" => slo.at.sha1
      /\ slo.answer.to \in {slo.at.slo, slo.at.acs}

\* A query that carries a signed message, among parameters that mean nothing
\* to the binding and in any order, is accepted.
Honest(q, c) ==
  \E s \in Param(q, "Signature") :
    /\ s.by = c.signing /\ c.signing \in DOMAIN KeyOf
    /\ \A alg \in s.over.alg : alg # None /\ alg.key = KeyOf[s.by] /\ alg.hash # "sha1"
    /\ \A m \in s.over.request : m.issuer = Self /\ m.destination = Endpoint
    /\ \A key \in CanonicalKeys :
         LET want == CASE key = "SAMLRequest" -> s.over.request
                       [] key = "RelayState" -> s.over.relay
                       [] key = "SigAlg" -> s.over.alg
                       [] key = "Signature" -> {s}
                       [] OTHER -> {}
         IN /\ Cardinality(At(q, key)) = Cardinality(want)
            /\ \A i \in At(q, key) : q[i].plain /\ q[i].value \in want

LogoutIsSigned ==
  /\ ActsOnSigned
  /\ slo.pc = "answer" /\ slo.at # None /\ slo.answer = None => ~Honest(slo.query, slo.at)

=============================================================================
