--------------------------- MODULE MCApplications ---------------------------
(***************************************************************************)
(* A small instance of Applications. ann's address is verified; ben gave    *)
(* the same address and did not confirm it.                                *)
(***************************************************************************)
EXTENDS Applications, TLC, SequencesExt

CONSTANTS one, two   \* values of relay states and of other parameters

NoCustom == [a \in {} |-> None]

MCUser == {
  [sub |-> "s1", email |-> "a@x", verified |-> TRUE, given |-> "Ann",
   full |-> "Ann X", groups |-> {"staff"}, custom |-> [dept |-> "d1"]],
  [sub |-> "s2", email |-> "a@x", verified |-> FALSE, given |-> None,
   full |-> None, groups |-> {}, custom |-> NoCustom]}

\* The hypothesis of SubjectIsUnique.
ASSUME UserAssumption == OneOwner

MCBare == [a \in {"custom:dept"} |-> "dept"]

MCScopes == {{"email", "profile"}}

Claim(name, kind, attr, target, default) ==
  [name |-> name, kind |-> kind, attr |-> attr, target |-> target,
   default |-> default]

Mail == Claim(1, "attribute", "email", "mail", None)
Dept == Claim(2, "cognito", "custom:dept", "mail", "none")
Role == Claim(1, "groupMapping", None, "role", None)

MCClaimPut == {<<Mail, Dept>>, <<Role>>}
MCRolePut == {<<[group |-> "staff", value |-> "user"]>>}

Block(acs, others, format, source, encrypt, launch, life, back) ==
  [acs |-> acs, others |-> others, format |-> format, source |-> source,
   encrypt |-> encrypt, launch |-> launch, life |-> life, slo |-> back]

MCEdit == {Block("a1", {}, "email", "sub", FALSE, TRUE, 0, None),
           Block("a1", {"a2"}, "persistent", "sub", TRUE, FALSE, 2, "o1")}

MCMetadata == {[acs |-> <<"a1", "a2">>, keys |-> <<[use |-> "any", cert |-> "good"]>>],
               [acs |-> <<"a1">>, keys |-> <<[use |-> "encryption", cert |-> "bad"]>>]}

MCLegacy == {Block("a1", {}, "transient", "sub", FALSE, TRUE, 9, None) @@
             [cert |-> None, signing |-> "good", signed |-> FALSE, sha1 |-> TRUE],
             Block("a1", {}, "email", "email", FALSE, FALSE, 0, None) @@
             [cert |-> None, signing |-> None, signed |-> TRUE, sha1 |-> FALSE]}

MCKeyOf == [good |-> "rsa"]

\* Signed URLs as the service provider makes them, and with one parameter
\* dropped, added anywhere or moved to the front.
Message(id, to) == [id |-> id, issuer |-> "sp", destination |-> to]
M1 == Message(1, "here")
Alg(key, hash) == [key |-> key, hash |-> hash]
Arg(key, plain, value) == [key |-> key, plain |-> plain, value |-> value]
SignedBy(cert, m, relay, alg) ==
  <<Arg("SAMLRequest", TRUE, m)>> \o relay \o
  <<Arg("SigAlg", TRUE, alg),
    Arg("Signature", TRUE,
        [by |-> cert, over |-> [request |-> {m}, alg |-> {alg},
                                relay |-> {relay[i].value : i \in DOMAIN relay}]])>>
Relay == <<Arg("RelayState", TRUE, one)>>
Plain == {SignedBy("good", M1, Relay, Alg("rsa", "sha256")),
          SignedBy("good", M1, <<>>, Alg("rsa", "sha1"))}
Url == Plain \cup
       {SignedBy("good", M1, <<>>, Alg("ecdsa", "sha256")),
        SignedBy("good", Message(3, "there"), <<>>, Alg("rsa", "sha256")),
        SignedBy("bad", M1, <<>>, Alg("rsa", "sha256"))}
Extra == {Arg("SAMLRequest", plain, Message(2, "here")) : plain \in BOOLEAN} \cup
         {Arg("RelayState", TRUE, two), Arg("SigAlg", TRUE, None),
          Arg("other", TRUE, two), Arg("SAMLResponse", TRUE, two)}
MCQuery == UNION {
  Url,
  {RemoveAt(u, i) : <<u, i>> \in {ui \in Url \X (1..4) : ui[2] <= Len(ui[1])}},
  {InsertAt(u, i, x) : u \in Plain, i \in 1..3, x \in Extra},
  {<<u[Len(u)]>> \o Front(u) : u \in Url}}

\* The run explores every edit, and the client's secret, with no mappings
\* stored; and the mappings with one configuration of the application: PUTs
\* that overlap, and one PUT at a time while an assertion is filled.
NoMappings == /\ stored = [t \in Table |-> {}] /\ standing = stored
              /\ put = [p \in Putter |-> NoPut]
OneClient == minted = 0 /\ config # None /\ config.method = "none" /\ Alone
OneProvider ==
  /\ cfg \in Legacy /\ cfg.launch /\ ~cfg.signed
  /\ cookie = None /\ named = None /\ edit = [e \in Editor |-> NoEdit]
  /\ \A r \in Reader : resp[r].pc \notin {"idle", "mint"} =>
                      resp[r].minted # None /\ resp[r].user.verified
Busy == {p \in Putter : put[p].pc # "idle"}
Scope ==
  /\ protocol = "oidc" /\ ~OneClient => read = [r \in Reader |-> NoRead]
  /\ \A r \in Reader : /\ resp[r].pc = "idle" \/ read[r].kind \in {None, "saml"}
                       /\ read[r].kind = "preview" => Cardinality(Busy) <= 1
                       /\ read[r].user # None /\ Busy # {} => read[r].user.verified
  /\ slo.pc # "idle" => NoMappings /\ cookie = None /\ named = None
                   /\ \A r \in Reader : resp[r].pc = "idle" /\ read[r].pc = "idle"
                   /\ \A e \in Editor : edit[e].pc = "idle"
  /\ \/ NoMappings
     \/ app = "active" /\ protocol = "oidc" /\ OneClient
     \/ /\ app = "active" /\ protocol = "saml" /\ OneProvider
        /\ \A r \in Reader :
             /\ read[r].kind # None \/ resp[r].pc # "idle" => Cardinality(Busy) <= 1
             /\ resp[r].pc # "idle" /\ Busy # {} => resp[r].pc = "attributes"

MCShort == [email |-> "urn:email", persistent |-> "urn:persistent",
            transient |-> "urn:transient", unspecified |-> "urn:unspecified"]

=============================================================================
