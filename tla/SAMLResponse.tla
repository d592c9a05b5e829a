---------------------------- MODULE SAMLResponse ----------------------------
(***************************************************************************)
(* What a SAML application's configuration does to the responses sent to it *)
(* (internal/saml idp.go, sp_provider.go, nameid.go, durations.go,          *)
(* assertion_maker.go; service/import.go; the API's update handler).        *)
(*                                                                         *)
(* One application of one tenant, created by hand, by metadata import or by *)
(* an older release, and one browser. A request reads the configuration up  *)
(* to four times: to find the service provider, to mint a session, to make  *)
(* the assertion and, through ClaimMappings, to fill it; an administrator   *)
(* may edit it between any two. Which cookies exist and expire is           *)
(* SAMLSession's subject, the application's rows are AppRegistry's.         *)
(***************************************************************************)
EXTENDS ClaimMappings

CONSTANTS
  Edit,       \* SAML blocks of create and update requests
  Metadata,   \* service provider metadata documents
  Legacy,     \* configurations that an older release may have stored
  Short,      \* the canonical format of each short code
  Page,       \* web pages that post an ID token to launch the application
  Trusted,    \* those of a trusted origin
  MinLife, MaxLife,       \* SessionDurationMinSec and MaxSec
  ApiLife, DefaultLife,   \* of a request without one; of an unset one
  Editor,     \* updates in flight
  ConfigFault \* the reads that may fail: "previous", "config", "participants"

ASSUME ResponseAssumption ==
  /\ Trusted \subseteq Page /\ ConfigFault \subseteq {"previous", "config", "participants"}
  /\ MinLife \in Nat /\ MaxLife \in Nat
  /\ 0 < MinLife /\ {ApiLife, DefaultLife} \subseteq MinLife..MaxLife
  /\ \A c \in Legacy : c.life \in Int
  /\ Short["email"] # Short["persistent"] /\ Short["email"] # Short["transient"]
  /\ Short["persistent"] # Short["transient"]
  /\ None # "good"

VARIABLES
  cfg,        \* its SAML configuration
  edit,       \* updates in flight
  cookie,     \* the session cookie in the browser
  resp,       \* SAML requests in flight; each has an evaluation of its own
  (* history, read by the properties only *)
  imported,   \* the encryption certificate that the metadata import stored, as
              \* long as every update saw the configuration it replaced
  signedIn,   \* whose login the browser last completed
  named       \* one of the NameIDs sent so far, any of them, and its user

configVars == <<cfg, edit, imported>>
responseVars == <<cookie, resp, signedIn, named>>
vars == <<mappingVars, configVars, responseVars>>

NoEdit == [pc |-> "idle", input |-> None, previous |-> None]
\* A request in flight: the user of its ID token, the session handed over in
\* its context, the one GetSession settled on, and the service provider's
\* descriptor. live: the application has been active since it began.
NoResp == [pc |-> "idle", user |-> None, minted |-> None, session |-> None,
           sp |-> None, live |-> FALSE, clear |-> FALSE]

Init ==
  /\ MappingInit
  /\ cfg \in (IF protocol = "saml" THEN Legacy ELSE {}) \cup {None}
  /\ app = IF cfg = None THEN "none" ELSE "active"
  /\ edit = [e \in Editor |-> NoEdit]
  /\ cookie = None /\ resp = [r \in Reader |-> NoResp]
  /\ imported = None /\ signedIn = None /\ named = None

-----------------------------------------------------------------------------
(* The configuration *)

\* CanonicalNameIDFormat: short codes become URNs, other values stay.
Canonical(format) == IF format = None THEN Short["unspecified"]
                     ELSE IF format \in DOMAIN Short THEN Short[format] ELSE format

\* The certificate of the last key of a use; a key for any use fills a gap.
CertOf(keys, use) ==
  LET of(u) == {i \in DOMAIN keys : keys[i].use = u}
      last(S) == CHOOSE i \in S : \A j \in S : j <= i
      first(S) == CHOOSE i \in S : \A j \in S : i <= j
  IN IF of(use) # {} THEN keys[last(of(use))].cert
     ELSE IF of("any") # {} THEN keys[first(of("any"))].cert ELSE None

\* MetadataImportService.Import: the first endpoint becomes the primary one
\* and the list keeps the others; certificates are not parsed.
Import(m) ==
  /\ app = "none" /\ protocol = "saml"
  /\ app' = "active"
  /\ cfg' = [acs |-> IF m.acs = <<>> THEN None ELSE Head(m.acs),
             others |-> IF m.acs = <<>> THEN {} ELSE {m.acs[i] : i \in 2..Len(m.acs)},
             format |-> "persistent", source |-> "sub", encrypt |-> FALSE,
             cert |-> CertOf(m.keys, "encryption"), launch |-> FALSE,
             signing |-> CertOf(m.keys, "signing"), life |-> ApiLife,
             signed |-> FALSE, sha1 |-> FALSE, slo |-> None]
  /\ imported' = CertOf(m.keys, "encryption")
  /\ UNCHANGED <<rowVars, edit, responseVars>>

\* validateSAMLConfigInput
ValidInput(input, previous) ==
  /\ input.encrypt => previous # None /\ previous.cert # None
  /\ input.life = 0 \/ input.life \in MinLife..MaxLife

\* The certificates are those of the configuration that is replaced, if known;
\* the flags of requests signed and SHA-1 admitted are not carried over.
FromInput(input, previous) ==
  [acs |-> input.acs, others |-> input.others, format |-> Canonical(input.format),
   source |-> input.source, encrypt |-> input.encrypt, launch |-> input.launch,
   cert |-> IF previous = None THEN None ELSE previous.cert,
   signing |-> IF previous = None THEN None ELSE previous.signing,
   signed |-> FALSE, sha1 |-> FALSE, slo |-> input.slo,
   life |-> IF input.life = 0 THEN ApiLife ELSE input.life]

\* The create handler; AppStore.Create's calls are AppRegistry's.
Create(input) ==
  /\ app = "none" /\ protocol = "saml"
  /\ ValidInput(input, None)
  /\ app' = "active" /\ cfg' = FromInput(input, None)
  /\ UNCHANGED <<rowVars, edit, imported, responseVars>>

\* The update handler reads the configuration it replaces and ignores an
\* error of that read.
StartUpdate(e, input) ==
  /\ edit[e].pc = "idle" /\ cfg # None
  /\ \E previous \in IF "previous" \in ConfigFault THEN {cfg, None} ELSE {cfg} :
       /\ ValidInput(input, previous)
       /\ edit' = [edit EXCEPT ![e] = [pc |-> "write", input |-> input,
                                       previous |-> previous]]
  /\ UNCHANGED <<mappingVars, cfg, imported, responseVars>>

\* Mutant: the certificate is not carried forward.
WriteConfig_Dropped(e) ==
  /\ edit[e].pc = "write"
  /\ cfg' = FromInput(edit[e].input, None)
  /\ imported' = IF edit[e].previous = None THEN None ELSE imported
  /\ edit' = [edit EXCEPT ![e] = NoEdit]
  /\ UNCHANGED <<mappingVars, responseVars>>

\* The whole item is written, with the certificates of the one it read.
WriteConfig(e) ==
  /\ edit[e].pc = "write"
  /\ cfg' = FromInput(edit[e].input, edit[e].previous)
  /\ imported' = IF edit[e].previous = None THEN None ELSE imported
  /\ edit' = [edit EXCEPT ![e] = NoEdit]
  /\ UNCHANGED <<mappingVars, responseVars>>

\* The enable and disable handlers.
SetStatus(status) ==
  /\ protocol = "saml" /\ app \notin {"none", status}
  /\ app' = status
  /\ resp' = [r \in Reader |-> [resp[r] EXCEPT !.live = @ \/
                                  (resp[r].pc # "idle" /\ status = "active")]]
  /\ UNCHANGED <<rowVars, cfg, edit, imported, cookie, signedIn, named>>

-----------------------------------------------------------------------------
(* Sessions *)

\* Mutant: an address that Cognito does not vouch for will do.
EmailUsable_Any(u) == u.email # None

EmailUsable(u) == u.email # None /\ u.verified

\* What the pool is relied on for: a sub is one user's, and so is an address
\* that it vouches for.
OneOwner ==
  \A u, v \in User :
    u.sub = v.sub \/ (u.verified /\ v.verified /\ u.email = v.email /\ u.email # None) => u = v

\* resolveNameID; c is None for a configuration that could not be read.
NameID(u, c) ==
  LET format == Canonical(IF c = None THEN None ELSE c.format)
      source == IF c = None THEN "sub" ELSE c.source
      Pair(value, code) == [value |-> value, format |-> Short[code]]
  IN CASE format = Short["email"] \/ source = "email" ->
            IF EmailUsable(u) THEN Pair(u.email, "email") ELSE Pair(u.sub, "persistent")
       [] format = Short["transient"] /\ source # "email" -> Pair(None, "transient")
       [] OTHER -> [value |-> u.sub, format |-> format]

\* clampSeconds
Clamp(life) == IF life < MinLife THEN MinLife
               ELSE IF life > MaxLife THEN MaxLife ELSE life

\* sessionDuration
Lifetime(c) == IF c = None \/ (c # None /\ c.life = 0) THEN DefaultLife ELSE Clamp(c.life)

\* buildSessionFromClaims
SessionOf(u, c) == [user |-> u, nameID |-> NameID(u, c), life |-> Lifetime(c)]

Serve(r, pc, user, minted) ==
  resp' = [resp EXCEPT ![r] = [NoResp EXCEPT !.pc = pc, !.user = user,
                                !.minted = minted, !.live = app = "active"]]
Refuse(r) == resp' = [resp EXCEPT ![r] = NoResp]
Goto(r, pc) == resp' = [resp EXCEPT ![r].pc = pc]

Keep == UNCHANGED <<mappingVars, configVars>>

\* What GetByTenantEntityID may answer: a configuration that cannot be read
\* comes back as none, without an error.
ConfigRead == {cfg} \cup IF "config" \in ConfigFault THEN {None} ELSE {}

\* An SP-initiated request, with or without an ID token in its header.
ServeSSO(r) ==
  /\ resp[r].pc = "idle" /\ app # "none"
  /\ \E u \in User \cup {None} : Serve(r, "resolve", u, None)
  /\ Keep /\ UNCHANGED <<cookie, signedIn, named>>

\* HandleCallback and HandleLoginComplete: the user logged in, the browser is
\* given the session, and the SP's request is resumed with it. If the
\* configuration cannot be read the defaults apply.
FinishLogin(r, u) ==
  /\ resp[r].pc = "idle" /\ app # "none"
  /\ \E c \in ConfigRead :
       /\ cookie' = SessionOf(u, c)
       /\ Serve(r, "resolve", u, SessionOf(u, c))
  /\ signedIn' = u
  /\ Keep /\ UNCHANGED named

\* A page posts a user's ID token to launch the application.
HandleIdPInitiate(r, u, page) ==
  /\ resp[r].pc = "idle"
  /\ cfg # None /\ cfg.launch
  /\ page \in Trusted
  /\ Serve(r, "mint", u, None)
  /\ Keep /\ UNCHANGED <<cookie, signedIn, named>>

\* BuildSessionCookieFromToken; the session stays in the request's context.
\* Without a configuration the defaults apply; if the application's own row
\* cannot be read the launch is refused.
MintForLaunch(r) ==
  /\ resp[r].pc = "mint"
  /\ \/ \E c \in ConfigRead :
          resp' = [resp EXCEPT ![r].pc = "resolve",
                               ![r].minted = SessionOf(resp[r].user, c)]
     \/ "config" \in ConfigFault /\ Refuse(r)
  /\ Keep /\ UNCHANGED <<cookie, signedIn, named>>

\* Does the gateway have a key to encrypt for this service provider? A
\* certificate that does not parse is left out of its descriptor.
EncryptionKey(c) == IF c.encrypt /\ c.cert = "good" THEN c.cert ELSE None

\* buildEntityDescriptor: the list of endpoints, or the primary one.
Endpoints(c) == IF c.others # {} THEN c.others ELSE {c.acs} \ {None}

\* Mutant: the status is not looked at.
Servable_AnyStatus == cfg # None /\ ~cfg.signed

Servable == app = "active" /\ cfg # None /\ ~cfg.signed

\* GetServiceProvider, for an endpoint that the request or crewjam names. A
\* configuration that is missing or cannot be read is a refusal here.
GetServiceProvider(r) ==
  /\ resp[r].pc = "resolve"
  /\ \/ /\ Servable /\ Endpoints(cfg) # {}
        /\ resp' = [resp EXCEPT ![r].pc = "session", ![r].sp = cfg]
     \/ /\ ~Servable \/ Endpoints(cfg) = {} \/ "config" \in ConfigFault
        /\ Refuse(r)
  /\ Keep /\ UNCHANGED <<cookie, signedIn, named>>

\* Mutant: a cookie in the browser comes before the session handed over.
GetSession_CookieFirst(r) ==
  /\ resp[r].pc = "session"
  /\ resp' = [resp EXCEPT ![r].pc = "assert",
       ![r].session = IF cookie # None THEN cookie ELSE resp[r].minted]
  /\ cookie # None \/ resp[r].minted # None
  /\ Keep /\ UNCHANGED <<cookie, signedIn, named>>

\* GetSession: the session handed over, else the browser's cookie, else the
\* token of the request's header, with the defaults if the configuration cannot
\* be read; else, or if the application's row cannot, a redirect to a login
\* page ends the request.
GetSession(r) ==
  /\ resp[r].pc = "session"
  /\ LET minted == resp[r].minted
         Settle(session) == resp' = [resp EXCEPT ![r].pc = "assert",
                                                 ![r].session = session]
     IN \/ /\ minted # None \/ cookie # None
           /\ Settle(IF minted # None THEN minted ELSE cookie)
           /\ UNCHANGED <<cookie, signedIn>>
        \/ /\ minted = None /\ cookie = None /\ resp[r].user # None
           /\ \E c \in ConfigRead : /\ Settle(SessionOf(resp[r].user, c))
                                   /\ cookie' = SessionOf(resp[r].user, c)
           /\ signedIn' = resp[r].user
        \/ /\ minted = None /\ cookie = None
           /\ resp[r].user = None \/ "config" \in ConfigFault
           /\ Refuse(r) /\ UNCHANGED <<cookie, signedIn>>
  /\ Keep /\ UNCHANGED named

\* The cookie expired, was cleared or was revoked; SAMLSession says when.
LoseCookie ==
  /\ cookie # None
  /\ cookie' = None /\ signedIn' = None
  /\ Keep /\ UNCHANGED <<resp, named>>

-----------------------------------------------------------------------------
(* Assertions *)

\* MakeAssertion starts on the attributes; there are none if the application
\* cannot be read again.
MakeAssertion(r) ==
  /\ resp[r].pc = "assert"
  /\ \/ /\ BeginRead(r, "saml", resp[r].session.user)
        /\ Goto(r, "attributes")
     \/ /\ "config" \in ConfigFault
        /\ Goto(r, "send") /\ UNCHANGED read
  /\ UNCHANGED <<protocol, app, stored, put, standing, configVars, cookie, signedIn, named>>

Attributes(r) ==
  /\ resp[r].pc = "attributes" /\ read[r].pc = "done" /\ read[r].kind = "saml"
  /\ Goto(r, "send")
  /\ Keep /\ UNCHANGED <<cookie, signedIn, named>>

\* The response goes to the service provider, encrypted if its descriptor has
\* a key for that.
Send(r) ==
  /\ resp[r].pc = "send"
  /\ resp' = [resp EXCEPT ![r].pc = "sent",
                          ![r].clear = EncryptionKey(resp[r].sp) = None]
  /\ LET session == resp[r].session
     IN named' \in {named} \cup
          IF session.nameID.format = Short["transient"] THEN {}
          ELSE {[id |-> session.nameID, user |-> session.user]}
  /\ Keep /\ UNCHANGED <<cookie, signedIn>>

Sent(r) ==
  /\ resp[r].pc = "sent"
  /\ Refuse(r)
  /\ read' = [read EXCEPT ![r] = IF @.kind = "saml" THEN NoRead ELSE @]
  /\ UNCHANGED <<protocol, app, stored, put, standing, configVars, cookie, signedIn, named>>

\* ServeAppMetadata, for an application of any status.
ServeAppMetadata(r) ==
  /\ Exists /\ cfg # None
  /\ BeginRead(r, "metadata", None)
  /\ UNCHANGED <<protocol, app, stored, put, standing, configVars, responseVars>>

ConfigNext ==
  \/ \E m \in Metadata : Import(m)
  \/ \E input \in Edit : Create(input) \/ \E e \in Editor : StartUpdate(e, input)
  \/ \E e \in Editor : WriteConfig(e)
  \/ \E status \in {"active", "disabled"} : SetStatus(status)

ResponseNext ==
  \/ \E r \in Reader :
       \/ ServeSSO(r) \/ GetServiceProvider(r) \/ GetSession(r)
       \/ MintForLaunch(r) \/ MakeAssertion(r) \/ Attributes(r) \/ Send(r) \/ Sent(r)
       \/ ServeAppMetadata(r)
       \/ \E u \in User : \/ FinishLogin(r, u)
                          \/ \E page \in Page : HandleIdPInitiate(r, u, page)
  \/ LoseCookie

Next ==
  \/ MappingNext /\ UNCHANGED <<configVars, responseVars>>
  \/ ConfigNext
  \/ protocol = "saml" /\ ResponseNext

Spec == Init /\ [][Next]_vars

-----------------------------------------------------------------------------
(* Properties *)

\* No NameID is ever sent for two users, though a user chooses an address
\* freely and administrators change format and source while sessions minted
\* before are in use (nameid.go:26).
SubjectIsOneUser ==
  \A r \in Reader :
    named # None /\ resp[r].pc = "sent" /\ resp[r].session.nameID = named.id =>
      resp[r].session.user = named.user

\* A session handed over by the login or launch that carries the request is
\* the one asserted, whatever cookie the browser holds; and that cookie is of
\* the user whose login this browser completed last, so no launch plants one
\* (session_provider.go:439, idp.go:546).
\* Every session lasts as long as the bounds allow, whatever number an older
\* release left in the row (durations.go:44).
AssertsCaller ==
  /\ \A r \in Reader : resp[r].minted # None /\ resp[r].session # None =>
       resp[r].session = resp[r].minted
  /\ cookie # None => cookie.user = signedIn
  /\ \A s \in ({cookie} \cup {resp[r].session : r \in Reader}) \ {None} :
       s.life \in MinLife..MaxLife

\* A response is sent only by a request during which the application was
\* active at some time: those that begin after it was disabled, resumed logins
\* and launches included, end in a refusal (sp_provider.go:54).
DisabledIssuesNothing ==
  \A r \in Reader : resp[r].pc = "sent" => resp[r].live

\* The certificate that metadata import stored survives every update, unless
\* an update could not read what it replaced (app_handlers.go:280); and with
\* one that parses, no assertion goes out in clear that the configuration it
\* was made from wants encrypted (tenant/model.go:256).
EncryptionKept == imported # None =>
  /\ cfg.cert = imported
  /\ imported = "good" =>
       \A r \in Reader : resp[r].pc = "sent" /\ resp[r].sp.encrypt => ~resp[r].clear

=============================================================================
