---------------------------- MODULE ClaimMappings ----------------------------
(***************************************************************************)
(* The claim and role mappings of one application                          *)
(* (internal/store/claim_store.go) and the three evaluators that read them: *)
(* the SAML assertion maker, the claims of OIDC tokens, and the preview.    *)
(*                                                                         *)
(* A mapping is a row of the table. A PUT replaces an application's rows    *)
(* one call at a time, deletions first, with no transaction and no version, *)
(* and a reader queries the claim rows and then the role rows.              *)
(***************************************************************************)
EXTENDS Integers, Sequences, FiniteSets

CONSTANTS
  ClaimPut,       \* bodies of PUT claim-mappings: sequences of claim rows
  RolePut,        \* bodies of PUT role-mappings: sequences of role rows
  User,           \* users, as the claims of their Cognito ID token
  Bare,           \* the attribute that each "custom:" name stands for
  Scopes,         \* the sets of scopes that clients ask for
  Putter,         \* PUT requests in flight
  Reader,         \* evaluations in flight
  MappingFault,   \* the kinds of calls that may fail, and "crash"
  None            \* the empty string; also no rows known

MappingFaultKind == {"delete", "put", "claims", "roles", "crash"}

RowsOf(puts) == UNION {{body[i] : i \in DOMAIN body} : body \in puts}
ClaimRow == RowsOf(ClaimPut)
RoleRow == RowsOf(RolePut)

Table == {"claims", "roles"}

\* The sort key of a row within its table: claimSK, roleSK.
Key(row) == IF "name" \in DOMAIN row THEN row.name ELSE row.group

ASSUME MappingAssumption ==
  /\ MappingFault \subseteq MappingFaultKind
  /\ ClaimPut \subseteq Seq(ClaimRow) /\ RolePut \subseteq Seq(RoleRow)
  /\ \A row \in ClaimRow : row.name \in Nat

VARIABLES
  protocol,   \* the application's protocol
  app,        \* its status, "none" before it exists, "deleted" after
  stored,     \* the rows of each table
  put,        \* PUTs in flight
  read,       \* evaluations in flight
  standing    \* history: the rows that the last PUT of a table asked for, if
              \* it ran alone and no call of it failed; else None

rowVars == <<protocol, stored, put, read, standing>>
mappingVars == <<app, rowVars>>

NoPut == [pc |-> "idle", table |-> "claims", body |-> <<>>, next |-> 0,
          old |-> {}, alone |-> FALSE]
NoRead == [pc |-> "idle", kind |-> None, user |-> None, claims |-> {},
           failed |-> FALSE, calm |-> FALSE, standard |-> {}, out |-> {}]

MappingInit ==
  /\ protocol \in {"saml", "oidc"}
  /\ stored = [t \in Table |-> {}]
  /\ put = [p \in Putter |-> NoPut]
  /\ read = [r \in Reader |-> NoRead]
  /\ standing = [t \in Table |-> {}]

-----------------------------------------------------------------------------
(* Replacing the mappings *)

Insert(rows, row) == {x \in rows : Key(x) # Key(row)} \cup {row}

\* What a PUT's body amounts to: the last row of each name.
Meant(body) == {body[i] : i \in {i \in DOMAIN body :
                 \A j \in DOMAIN body : j > i => Key(body[j]) # Key(body[i])}}

Exists == app \in {"active", "disabled"}

\* A PUT finds the application and lists the rows there are. The others in
\* flight, and the evaluations, can no longer count on the table being left
\* alone.
StartPut(p, t, body) ==
  /\ Exists /\ put[p].pc = "idle"
  /\ put' = [x \in Putter |->
       IF x = p
       THEN [pc |-> "replace", table |-> t, body |-> body, next |-> 1,
             old |-> {Key(row) : row \in stored[t]},
             alone |-> \A y \in Putter : put[y].pc = "idle" \/ put[y].table # t]
       ELSE [put[x] EXCEPT !.alone = @ /\ put[x].table # t]]
  /\ read' = [r \in Reader |-> [read[r] EXCEPT !.calm = FALSE]]
  /\ standing' = [standing EXCEPT ![t] = None]
  /\ UNCHANGED <<protocol, app, stored>>

\* Mutant: rows are overwritten and never deleted.
DeleteOld_Skipped(p) ==
  /\ put[p].pc = "replace"
  /\ put[p].old # {}
  /\ put' = [put EXCEPT ![p].old = {}]
  /\ UNCHANGED <<protocol, app, stored, read, standing>>

\* One of the listed rows is deleted; a failed Delete is ignored.
DeleteOld(p) ==
  /\ put[p].pc = "replace"
  /\ \E k \in put[p].old :
       \/ /\ stored' = [stored EXCEPT ![put[p].table] = {row \in @ : Key(row) # k}]
          /\ put' = [put EXCEPT ![p].old = @ \ {k}]
       \/ /\ "delete" \in MappingFault
          /\ put' = [put EXCEPT ![p].old = @ \ {k}, ![p].alone = FALSE]
          /\ UNCHANGED stored
  /\ UNCHANGED <<protocol, app, read, standing>>

\* The next row is written; a failed Put ends the request.
PutNext(p) ==
  /\ put[p].pc = "replace" /\ put[p].old = {}
  /\ put[p].next <= Len(put[p].body)
  /\ \/ /\ stored' = [stored EXCEPT ![put[p].table] =
                        Insert(@, put[p].body[put[p].next])]
        /\ put' = [put EXCEPT ![p].next = @ + 1]
     \/ "put" \in MappingFault /\ put' = [put EXCEPT ![p] = NoPut] /\ UNCHANGED stored
  /\ UNCHANGED <<protocol, app, read, standing>>

FinishPut(p) ==
  /\ put[p].pc = "replace" /\ put[p].old = {}
  /\ put[p].next > Len(put[p].body)
  /\ put' = [put EXCEPT ![p] = NoPut]
  /\ standing' = IF put[p].alone
                 THEN [standing EXCEPT ![put[p].table] = Meant(put[p].body)]
                 ELSE standing
  /\ UNCHANGED <<protocol, app, stored, read>>

AbandonPut(p) ==
  /\ "crash" \in MappingFault
  /\ put[p].pc # "idle"
  /\ put' = [put EXCEPT ![p] = NoPut]
  /\ UNCHANGED <<protocol, app, stored, read, standing>>

-----------------------------------------------------------------------------
(* Evaluating them. A user's claims: sub, email, verified, given, full, the  *)
(* groups and the custom attributes. An attribute is a pair of a target and  *)
(* its values.                                                             *)

Lookup(f, a) == IF a \in DOMAIN f THEN f[a] ELSE None
OrDefault(v, row) == {IF v = None THEN row.default ELSE v} \ {None}
Roles(roles, u) == {r.value : r \in {r \in roles : r.group \in u.groups}}

IsCognitoSource(kind) == kind \in {"cognito", "attribute"}

\* resolveSessionField: a session's common name is never set, and custom
\* attributes go by their bare name.
SamlField(u, a) ==
  LET session == [sub |-> u.sub, username |-> u.sub, email |-> u.email,
                  given_name |-> u.given, name |-> None, common_name |-> None]
  IN IF a \in DOMAIN session THEN session[a] ELSE Lookup(u.custom, a)

\* Mutant: the wizard's alias releases nothing.
SamlValues_NoAlias(row, roles, u) ==
  CASE row.kind = "cognito" -> OrDefault(SamlField(u, row.attr), row)
    [] row.kind = "groupMapping" -> Roles(roles, u)
    [] row.kind = "static" -> {row.default} \ {None}
    [] OTHER -> {}

\* CustomAssertionMaker.mappedAttributes, for one row.
SamlValues(row, roles, u) ==
  CASE IsCognitoSource(row.kind) -> OrDefault(SamlField(u, row.attr), row)
    [] row.kind = "groupMapping" -> Roles(roles, u)
    [] row.kind = "static" -> {row.default} \ {None}
    [] OTHER -> {}

\* resolveSubjectField.
OidcField(u, a) ==
  IF a \in {"name", "common_name"} THEN u.full
  ELSE IF a \in DOMAIN Bare THEN Lookup(u.custom, Bare[a])
  ELSE SamlField(u, a)

\* Storage.mappedClaims, for one row.
OidcValues(row, roles, u) ==
  CASE IsCognitoSource(row.kind) -> OrDefault(OidcField(u, row.attr), row)
    [] row.kind = "groupMapping" -> Roles(roles, u)
    [] row.kind = "static" -> {row.default} \ {None}
    [] OTHER -> {}

\* resolveTestUserField: the preview asks for a sub, an email and groups.
PreviewField(u, a) == Lookup([sub |-> u.sub, email |-> u.email], a)

\* buildSAMLPreview and buildOIDCPreview, for one row.
PreviewValues(row, roles, u) ==
  CASE IsCognitoSource(row.kind) -> OrDefault(PreviewField(u, row.attr), row)
    [] row.kind = "groupMapping" -> Roles(roles, u)
    [] row.kind = "static" -> {row.default} \ {None}
    [] OTHER -> {}

Reserved == {"sub", "iss", "aud", "exp", "iat", "nbf", "nonce", "at_hash",
             "c_hash", "azp", "auth_time", "amr", "acr", "email",
             "email_verified", "name", "given_name", "family_name",
             "preferred_username"}

\* An attribute statement has one attribute for each row that has a value.
Statement(values) ==
  {<<row.target, values[row]>> : row \in {row \in DOMAIN values : values[row] # {}}}

\* A claim set has one value for each target: the last row's, in key order.
ClaimSet(values) ==
  LET valued == {row \in DOMAIN values : values[row] # {}}
  IN {<<row.target, values[row]>> : row \in {row \in valued :
       \A later \in valued : later.target = row.target => later.name <= row.name}}

SamlRelease(rows, roles, u) == Statement([row \in rows |-> SamlValues(row, roles, u)])

\* Storage.privateClaims: the Cognito groups, unless a row is mapped onto them.
OidcRelease(rows, roles, u) ==
  LET mapped == ClaimSet([row \in {row \in rows : row.target \notin Reserved \cup {None}}
                            |-> OidcValues(row, roles, u)])
  IN mapped \cup {<<"groups", g>> : g \in {g \in {u.groups} :
                   g # {} /\ \A a \in mapped : a[1] # "groups"}}

Preview(rows, roles, u) ==
  LET values == [row \in rows |-> PreviewValues(row, roles, u)]
  IN IF protocol = "saml" THEN Statement(values) ELSE ClaimSet(values)

\* applyStandardClaims: what the scopes unlock of the claims kept with the
\* grant or the access token; email_verified is always there.
StandardClaims(u, scopes) ==
  LET email == IF "email" \notin scopes THEN {}
               ELSE {<<"email", u.email>>, <<"email_verified", u.verified>>}
      profile == IF "profile" \notin scopes THEN {}
                 ELSE {<<"given_name", u.given>>, <<"name", u.full>>,
                       <<"preferred_username", u.email>>}
  IN {claim \in email \cup profile : claim[2] # None}

\* ServeAppMetadata announces an attribute for every claim row.
Announced(rows) == {row.target : row \in rows}

Release(kind, rows, roles, u) ==
  CASE kind = "saml" -> SamlRelease(rows, roles, u)
    [] kind = "oidc" -> OidcRelease(rows, roles, u)
    [] kind = "preview" -> Preview(rows, roles, u)
    [] kind = "metadata" -> Announced(rows)

BeginRead(r, kind, u) ==
  /\ read[r].pc = "idle"
  /\ read' = [read EXCEPT ![r] =
       [NoRead EXCEPT !.pc = "claims", !.kind = kind, !.user = u,
                      !.calm = \A t \in Table : standing[t] # None]]

\* GetClaimMappings. When it fails the assertion maker and the metadata
\* release nothing, a token has the groups only, and a preview is refused.
\* The metadata needs no roles.
GetClaimMappings(r) ==
  /\ read[r].pc = "claims"
  /\ LET job == read[r]
     IN \/ /\ job.kind # "metadata"
           /\ read' = [read EXCEPT ![r].pc = "roles", ![r].claims = stored["claims"]]
        \/ /\ job.kind = "metadata"
           /\ read' = [read EXCEPT ![r].pc = "done", ![r].out = Announced(stored["claims"])]
        \/ /\ "claims" \in MappingFault
           /\ read' = [read EXCEPT ![r] =
                IF job.kind = "preview" THEN NoRead
                ELSE [job EXCEPT !.pc = "done", !.failed = TRUE,
                        !.out = IF job.kind = "oidc"
                                THEN OidcRelease({}, {}, job.user) ELSE {}]]
  /\ UNCHANGED <<protocol, app, stored, put, standing>>

\* GetRoleMappings, and the result. When the query fails the assertion maker
\* releases nothing, and a token's group mappings emit nothing.
GetRoleMappings(r) ==
  /\ read[r].pc = "roles"
  /\ LET job == read[r]
     IN \/ read' = [read EXCEPT ![r].pc = "done",
                      ![r].out = Release(job.kind, job.claims, stored["roles"], job.user)]
        \/ /\ "roles" \in MappingFault
           /\ read' = [read EXCEPT ![r] =
                IF job.kind = "preview" THEN NoRead
                ELSE [job EXCEPT !.pc = "done", !.failed = TRUE,
                        !.out = IF job.kind = "oidc"
                                THEN OidcRelease(job.claims, {}, job.user) ELSE {}]]
  /\ UNCHANGED <<protocol, app, stored, put, standing>>

\* The answer of the preview, the token or userinfo endpoint, or the metadata.
EndRead(r) ==
  /\ read[r].pc = "done" /\ read[r].kind # "saml"
  /\ read' = [read EXCEPT ![r] = NoRead]
  /\ UNCHANGED <<protocol, app, stored, put, standing>>

StartPreview(r, u) ==
  /\ Exists
  /\ BeginRead(r, "preview", u)
  /\ UNCHANGED <<protocol, app, stored, put, standing>>

\* SetUserinfoFromRequest and SetUserinfoFromToken: an ID token or a userinfo
\* response, from the claims that a grant of the client was stored with.
StartToken(r, u, scopes) ==
  /\ protocol = "oidc" /\ Exists /\ read[r].pc = "idle"
  /\ read' = [read EXCEPT ![r] =
       [NoRead EXCEPT !.pc = "claims", !.kind = "oidc", !.user = u,
                      !.standard = StandardClaims(u, scopes),
                      !.calm = \A t \in Table : standing[t] # None]]
  /\ UNCHANGED <<protocol, app, stored, put, standing>>

MappingNext ==
  \/ \E p \in Putter :
       \/ \E body \in ClaimPut : StartPut(p, "claims", body)
       \/ \E body \in RolePut : StartPut(p, "roles", body)
       \/ DeleteOld(p) \/ PutNext(p) \/ FinishPut(p) \/ AbandonPut(p)
  \/ \E r \in Reader :
       \/ \E u \in User : \/ StartPreview(r, u)
                          \/ \E scopes \in Scopes : StartToken(r, u, scopes)
       \/ GetClaimMappings(r) \/ GetRoleMappings(r) \/ EndRead(r)

-----------------------------------------------------------------------------
(* Properties *)

\* An evaluation between two PUTs goes by the last one, row for row, if that
\* PUT ran alone and no call of it failed, whatever the PUTs before it left in
\* the table: torn replacements heal. An assertion or metadata document whose
\* mappings could not be read releases nothing, and no mapping puts a second
\* value beside a claim of the user's own identity in a token
\* (claim_store.go:49, assertion_maker.go:120, storage.go:993).
ReleaseFollowsPut ==
  \A r \in Reader : read[r].pc = "done" =>
    /\ read[r].calm /\ ~read[r].failed =>
         read[r].out = Release(read[r].kind, standing["claims"],
                               standing["roles"], read[r].user)
    /\ read[r].kind \in {"saml", "metadata"} /\ read[r].failed => read[r].out = {}
    /\ \A claim \in read[r].standard, a \in read[r].out : a[1] # claim[1]

\* Where the three copies of the evaluation are meant to agree they do, on
\* every table a sequence of PUTs leaves and for every user: the preview shows
\* what is released from sub, email, groups and constants (preview.go:96), and
\* tokens carry what assertions do (storage.go:1000), apart from targets that
\* are blank, reserved or mapped twice, and from sources only one of them
\* knows; and no assertion has an attribute that the metadata does not announce
\* (idp.go:285).
EvaluatorsAgree ==
  \A u \in User :
    LET Shown(row) == IsCognitoSource(row.kind) => row.attr \in {"sub", "email"}
        Shared(row) ==
          /\ row.target \notin Reserved \cup {None}
          /\ \A other \in stored["claims"] : other.target = row.target => other = row
          /\ IsCognitoSource(row.kind) =>
               row.attr \notin {"name", "common_name"} \cup DOMAIN Bare
        shown == {row \in stored["claims"] : Shown(row)}
        shared == {row \in stored["claims"] : Shared(row)}
        roles == stored["roles"]
    IN /\ protocol = "saml" => Preview(shown, roles, u) = SamlRelease(shown, roles, u)
       /\ \A a \in SamlRelease(stored["claims"], roles, u) :
            a[1] \in Announced(stored["claims"])
       /\ LET claims == OidcRelease(shared, roles, u)
              attributes == SamlRelease(shared, roles, u)
          IN attributes \subseteq claims /\ \A a \in claims \ attributes : a[1] = "groups"

=============================================================================
