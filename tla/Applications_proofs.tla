-------------------------- MODULE Applications_proofs --------------------------
(***************************************************************************)
(* Theorems about Applications, for any users, mappings, configurations,    *)
(* queries and numbers of requests in flight. Each component has an         *)
(* invariant of its own: the client's row and its secret (ClientInv), the   *)
(* mapping tables and their writers (RowsInv), the requests that evaluate   *)
(* them (ReadInv), the SAML configuration and the responses made from it    *)
(* (ResponseInv), and the logout being answered (LogoutInv).                *)
(***************************************************************************)
EXTENDS Applications, FiniteSetTheorems, TLAPS

-----------------------------------------------------------------------------
(* The client's secret *)

Secret(n) == 1..n \cup {None}

ClientJob == [pc : {"idle", "check", "put", "answer"}, method : Method \cup {None},
              secret : Nat \cup {None}, fresh : BOOLEAN, alone : BOOLEAN]

ClientTypes ==
  /\ config \in ClientRow \cup {None} /\ job \in [Admin -> ClientJob]
  /\ minted \in Nat /\ known \in Nat \cup {None} /\ retired \subseteq Nat
  /\ \A a \in Admin : job[a].pc # "idle" => job[a].method \in Method

\* Only secrets that were generated are in use, and those in use, by the row or
\* by a request that may still write it, are not retired.
SecretsOK ==
  /\ retired \subseteq 1..minted
  /\ config # None => config.secret \in Secret(minted) \ retired
  /\ \A a \in Admin : job[a].pc # "idle" => job[a].secret \in Secret(minted) \ retired

\* As long as an administrator can count on the secret shown last, every
\* request in flight writes that one.
KnownOK == known # None =>
  /\ config # None /\ config.secret = known
  /\ \A a \in Admin : job[a].pc # "idle" => job[a].secret = known

\* A request that still has the row for itself is the only one, and once it
\* has written the row its secret is there.
LoneOK ==
  \A a \in Admin : job[a].pc # "idle" /\ job[a].alone =>
    /\ \A b \in Admin : job[b].pc # "idle" => b = a
    /\ job[a].pc = "answer" => config # None /\ config.secret = job[a].secret

\* Nothing is under way before the application exists.
UnbornOK == app = "none" => known = None /\ Alone

ClientInv == ClientTypes /\ SecretsOK /\ KnownOK /\ LoneOK /\ UnbornOK

LEMMA ClientConstants ==
  /\ Confidential \subseteq Method /\ "none" \notin Confidential
  /\ None \notin Nat /\ None \notin ClientRow
BY ClientAssumption

LEMMA ClientInitial == AppInit => ClientInv
<1> SUFFICES ASSUME AppInit PROVE ClientInv
  OBVIOUS
<1>1. Free \in ClientJob
  BY DEF Free, ClientJob
<1>2. config = None /\ job = [a \in Admin |-> Free] /\ minted = 0 /\ known = None /\ retired = {}
  BY DEF AppInit, ClientInit
<1>3. \A a \in Admin : job[a].pc = "idle"
  BY <1>2 DEF Free
<1>4. job \in [Admin -> ClientJob]
  BY <1>1, <1>2
<1> QED
  BY <1>2, <1>3, <1>4 DEF ClientInv, ClientTypes, SecretsOK, KnownOK, LoneOK, UnbornOK, Alone

\* The other components never make the application not exist.
LEMMA BornOnce ==
  ASSUME AppNext PROVE app' = "none" => app = "none"
BY DEF AppNext, Next, SloNext, ClientNext, MappingNext, ConfigNext, ResponseNext,
  StartPut, DeleteOld, PutNext, FinishPut, AbandonPut, StartPreview, StartToken,
  GetClaimMappings, GetRoleMappings, EndRead, Import, Create, StartUpdate, WriteConfig,
  SetStatus, ServeSSO, GetServiceProvider, GetSession, MintForLaunch, MakeAssertion,
  Attributes, Send, Sent, ServeAppMetadata, FinishLogin, HandleIdPInitiate, LoseCookie,
  Keep, mappingVars, ReceiveSLO, HandleSLO, AnswerSLO, CreateClient, StartClientUpdate,
  StartRotate, CheckApplication, PutConfig, Answer, SetClientStatus

LEMMA JobFields ==
  ASSUME NEW j \in ClientJob
  PROVE  /\ j.pc \in {"idle", "check", "put", "answer"} /\ j.method \in Method \cup {None}
         /\ j.secret \in Nat \cup {None} /\ j.fresh \in BOOLEAN /\ j.alone \in BOOLEAN
BY DEF ClientJob

LEMMA FreeJob == Free \in ClientJob /\ Free.pc = "idle"
BY DEF Free, ClientJob

\* A request that enters with a secret that is in use, or new.
LEMMA Entering ==
  ASSUME ClientInv, NEW a \in Admin, NEW method \in Method, NEW secret, NEW fresh \in BOOLEAN,
         job[a].pc = "idle", Enter(a, "check", method, secret, fresh),
         secret \in Secret(minted') \ retired, UNCHANGED <<config, retired>>,
         known' \in {known, None}, known' # None => Alone /\ secret = known,
         app' # "none"
  PROVE  ClientInv'
<1> DEFINE new == [pc |-> "check", method |-> method, secret |-> secret,
                   fresh |-> fresh, alone |-> Alone]
<1>1. /\ job' = [b \in Admin |-> IF b = a THEN new ELSE [job[b] EXCEPT !.alone = FALSE]]
      /\ minted' = IF fresh THEN minted + 1 ELSE minted
  BY DEF Enter
<1>2. minted' \in Nat /\ minted <= minted' /\ retired' \subseteq 1..minted'
  BY <1>1 DEF ClientInv, ClientTypes, SecretsOK
<1>3. Secret(minted) \subseteq Secret(minted') /\ secret \in Nat \cup {None}
  BY <1>2 DEF Secret, ClientInv, ClientTypes
<1>4. Alone \in BOOLEAN
  BY DEF Alone
<1>5. new \in ClientJob
  BY <1>3, <1>4 DEF ClientJob
<1>6. job'[a] = new
  BY <1>1
<1>7. \A b \in Admin : b # a =>
        /\ job'[b] \in ClientJob /\ job'[b].pc = job[b].pc /\ job'[b].method = job[b].method
        /\ job'[b].secret = job[b].secret /\ job'[b].alone = FALSE
  BY <1>1 DEF ClientInv, ClientTypes, ClientJob
<1>8. job' \in [Admin -> ClientJob]
  BY <1>1, <1>5, <1>6, <1>7
<1>9. /\ job'[a].pc = "check" /\ job'[a].method = method /\ job'[a].secret = secret
      /\ job'[a].alone = Alone
  BY <1>6
<1> HIDE DEF new
<1>10. ClientTypes'
  BY <1>2, <1>7, <1>8, <1>9 DEF ClientInv, ClientTypes
<1>11. SecretsOK'
  <2>1. config' # None => config'.secret \in Secret(minted') \ retired'
    BY <1>3 DEF ClientInv, SecretsOK
  <2>2. ASSUME NEW b \in Admin, job'[b].pc # "idle"
        PROVE  job'[b].secret \in Secret(minted') \ retired'
    BY <2>2, <1>3, <1>7, <1>9 DEF ClientInv, SecretsOK
  <2> QED
    BY <1>2, <2>1, <2>2 DEF SecretsOK
<1>12. KnownOK'
  BY <1>7, <1>9 DEF ClientInv, KnownOK, Alone
<1>13. LoneOK'
  BY <1>7, <1>9 DEF ClientInv, LoneOK, Alone
<1> QED
  BY <1>10, <1>11, <1>12, <1>13 DEF ClientInv, UnbornOK

\* A request that leaves, after whatever it did to the row.
LEMMA Leaving ==
  ASSUME ClientInv, NEW a \in Admin, job[a].pc # "idle", Leave(a),
         UNCHANGED <<config, minted, retired>>,
         \/ known' \in {known, None}
         \/ job[a].alone /\ job[a].pc = "answer" /\ known' = job[a].secret,
         app' = app
  PROVE  ClientInv'
<1>1. job' \in [Admin -> ClientJob] /\ job'[a] = Free
  BY FreeJob DEF ClientInv, ClientTypes, Leave
<1>2. \A b \in Admin : b # a => job'[b] = job[b]
  BY DEF ClientInv, ClientTypes, Leave
<1>3. job'[a].pc = "idle"
  BY <1>1, FreeJob
<1>4. job[a].secret \in Nat \cup {None}
  BY JobFields DEF ClientInv, ClientTypes
<1>5. ClientTypes'
  BY <1>1, <1>2, <1>3, <1>4 DEF ClientInv, ClientTypes
<1>6. SecretsOK'
  BY <1>2, <1>3 DEF ClientInv, SecretsOK
<1>7. KnownOK'
  <2>1. CASE known' \in {known, None}
    BY <2>1, <1>2, <1>3 DEF ClientInv, KnownOK
  <2>2. CASE job[a].alone /\ job[a].pc = "answer" /\ known' = job[a].secret
    BY <2>2, <1>2, <1>3 DEF ClientInv, KnownOK, LoneOK
  <2> QED
    BY <2>1, <2>2
<1>8. LoneOK'
  BY <1>2, <1>3 DEF ClientInv, LoneOK
<1>9. UnbornOK'
  BY <1>2, <1>3 DEF ClientInv, UnbornOK, Alone
<1> QED
  BY <1>5, <1>6, <1>7, <1>8, <1>9 DEF ClientInv

LEMMA Creating ==
  ASSUME ClientInv, NEW a \in Admin, NEW method \in Method, CreateClient(a, method)
  PROVE  ClientInv'
<1>1. known = None /\ known' = None /\ app' = "active" /\ UNCHANGED <<config, retired>>
  BY DEF CreateClient, ClientInv, UnbornOK
<1>2. job[a].pc = "idle" /\ minted \in Nat /\ retired \subseteq 1..minted
  BY DEF CreateClient, Alone, ClientInv, ClientTypes, SecretsOK
<1>3. CASE UNCHANGED <<job, minted>>
  BY <1>1, <1>3 DEF ClientInv, ClientTypes, SecretsOK, KnownOK, LoneOK, UnbornOK, Alone
<1>4. CASE Enter(a, "check", method, Mint, TRUE)
  <2>1. minted' = minted + 1
    BY <1>4 DEF Enter
  <2>2. Mint \in Secret(minted') \ retired
    BY <2>1, <1>2 DEF Mint, Secret
  <2> QED
    BY <1>1, <1>2, <1>4, <2>2, Entering
<1>5. CASE Enter(a, "check", method, None, FALSE)
  <2>1. None \in Secret(minted') \ retired
    BY ClientConstants DEF Secret, ClientInv, ClientTypes
  <2> QED
    BY <1>1, <1>2, <1>5, <2>1, Entering
<1> QED
  BY <1>3, <1>4, <1>5 DEF CreateClient

LEMMA Updating ==
  ASSUME ClientInv, NEW a \in Admin, NEW method \in Method, StartClientUpdate(a, method)
  PROVE  ClientInv'
<1>1. PICK row \in {config} \cup (IF "previous" \in ClientFault THEN {None} ELSE {}) :
        LET kept == IF row = None THEN None ELSE row.secret
        IN /\ \/ method \notin Confidential /\ Enter(a, "check", method, None, FALSE)
              \/ /\ method \in Confidential /\ kept # None
                 /\ Enter(a, "check", method, kept, FALSE)
              \/ /\ method \in Confidential /\ kept = None
                 /\ CanMint /\ Enter(a, "check", method, Mint, TRUE)
           /\ known' = IF Alone /\ method \in Confidential /\ row = config
                       THEN known ELSE None
  BY DEF StartClientUpdate
<1>2. /\ job[a].pc = "idle" /\ app' # "none" /\ UNCHANGED <<config, retired>>
      /\ minted \in Nat /\ retired \subseteq 1..minted
  BY DEF StartClientUpdate, mappingVars, Exists, ClientInv, ClientTypes, SecretsOK
<1>3. known' \in {known, None} /\ (known' # None => Alone /\ row = config /\ method \in Confidential)
  BY <1>1
<1>4. known' # None => row # None /\ row.secret = known /\ row.secret # None
  BY <1>3 DEF ClientInv, KnownOK
<1>5. CASE method \notin Confidential /\ Enter(a, "check", method, None, FALSE)
  <2>1. None \in Secret(minted') \ retired
    BY ClientConstants DEF Secret, ClientInv, ClientTypes
  <2> QED
    BY <1>2, <1>3, <1>5, <2>1, Entering
<1>6. CASE row # None /\ row.secret # None /\ Enter(a, "check", method, row.secret, FALSE)
  <2>1. minted' = minted /\ row = config
    BY <1>6 DEF Enter
  <2>2. row.secret \in Secret(minted') \ retired
    BY <1>6, <2>1 DEF ClientInv, SecretsOK
  <2> QED
    BY <1>2, <1>3, <1>4, <1>6, <2>2, Entering
<1>7. CASE (row = None \/ row.secret = None) /\ Enter(a, "check", method, Mint, TRUE)
  <2>1. minted' = minted + 1 /\ known' = None
    BY <1>4, <1>7 DEF Enter
  <2>2. Mint \in Secret(minted') \ retired
    BY <2>1, <1>2 DEF Mint, Secret
  <2> QED
    BY <1>2, <1>3, <1>7, <2>1, <2>2, Entering
<1> QED
  BY <1>1, <1>5, <1>6, <1>7

LEMMA Rotating ==
  ASSUME ClientInv, NEW a \in Admin, StartRotate(a)
  PROVE  ClientInv'
<1>1. /\ job[a].pc = "idle" /\ app' # "none" /\ UNCHANGED <<config, retired>> /\ known' = None
      /\ minted \in Nat /\ retired \subseteq 1..minted
  BY DEF StartRotate, mappingVars, Exists, ClientInv, ClientTypes, SecretsOK
<1>2. config.method \in Method /\ Enter(a, "check", config.method, Mint, TRUE)
  BY ClientConstants DEF StartRotate
<1>3. minted' = minted + 1
  BY <1>2 DEF Enter
<1>4. Mint \in Secret(minted') \ retired
  BY <1>1, <1>3 DEF Mint, Secret
<1> QED
  BY <1>1, <1>2, <1>4, Entering

LEMMA Checking ==
  ASSUME ClientInv, NEW a \in Admin, CheckApplication(a)
  PROVE  ClientInv'
<1>1. UNCHANGED <<app, config, minted, known, retired>> /\ job[a].pc = "check"
  BY DEF CheckApplication, mappingVars
<1>2. CASE Leave(a)
  BY <1>1, <1>2, Leaving
<1>3. CASE job' = [job EXCEPT ![a].pc = "put"]
  <2>1. [job[a] EXCEPT !.pc = "put"] \in ClientJob
    BY DEF ClientInv, ClientTypes, ClientJob
  <2>2. job' \in [Admin -> ClientJob] /\ \A b \in Admin : b # a => job'[b] = job[b]
    BY <1>3, <2>1 DEF ClientInv, ClientTypes
  <2>3. /\ job'[a].pc = "put" /\ job'[a].secret = job[a].secret
        /\ job'[a].method = job[a].method /\ job'[a].alone = job[a].alone
    BY <1>3 DEF ClientInv, ClientTypes, ClientJob
  <2>4. ClientTypes'
    BY <1>1, <2>2, <2>3 DEF ClientInv, ClientTypes
  <2>5. SecretsOK' /\ KnownOK'
    BY <1>1, <2>2, <2>3 DEF ClientInv, SecretsOK, KnownOK
  <2>6. LoneOK' /\ UnbornOK'
    BY <1>1, <2>2, <2>3 DEF ClientInv, LoneOK, UnbornOK, Alone
  <2> QED
    BY <2>4, <2>5, <2>6 DEF ClientInv
<1> QED
  BY <1>2, <1>3 DEF CheckApplication

\* The row is put and the request goes on to its answer, or ends.
LEMMA Writing ==
  ASSUME ClientInv, NEW a \in Admin, job[a].pc # "idle", Write(a),
         UNCHANGED <<minted, known>>, app' = app, job' \in [Admin -> ClientJob],
         \A b \in Admin : b # a => job'[b] = job[b],
         \/ job'[a].pc = "idle"
         \/ /\ job'[a].pc = "answer" /\ job'[a].secret = job[a].secret
            /\ job'[a].method = job[a].method /\ job'[a].alone = job[a].alone
  PROVE  ClientInv'
<1> DEFINE old == IF config = None THEN None ELSE config.secret
<1>1. config' = [method |-> job[a].method, secret |-> job[a].secret]
  BY DEF Write
<1>2. \/ retired' = retired
      \/ /\ old # None /\ old # job[a].secret /\ retired' = retired \cup {old}
         /\ \A b \in Admin : b # a /\ job[b].pc # "idle" => job[b].secret # old
  BY DEF Write, Held
<1>3. /\ job[a].method \in Method /\ job[a].secret \in Nat \cup {None}
      /\ job[a].secret \in Secret(minted) \ retired
  BY JobFields DEF ClientInv, ClientTypes, SecretsOK
<1>4. config' \in ClientRow /\ config' # None /\ config'.secret = job[a].secret
  BY <1>1, <1>3, ClientConstants DEF ClientRow
<1>5. old # None => old \in Secret(minted) /\ old \in 1..minted
  BY DEF ClientInv, SecretsOK, Secret
<1> HIDE DEF old
<1>6. minted \in Nat /\ retired \subseteq 1..minted
  BY DEF ClientInv, ClientTypes, SecretsOK
<1>7. retired' \subseteq 1..minted /\ retired' \subseteq Nat
  <2>1. retired' \subseteq retired \cup ({old} \ {None})
    BY <1>2
  <2>2. {old} \ {None} \subseteq 1..minted
    BY <1>5
  <2>3. 1..minted \subseteq Nat
    BY <1>6
  <2> QED
    BY <1>6, <2>1, <2>2, <2>3
<1>8. ClientTypes'
  BY <1>3, <1>4, <1>7 DEF ClientInv, ClientTypes
<1>9. SecretsOK'
  <2>1. config'.secret \in Secret(minted') \ retired'
    BY <1>2, <1>3, <1>4
  <2>2. ASSUME NEW b \in Admin, job'[b].pc # "idle"
        PROVE  job'[b].secret \in Secret(minted') \ retired'
    BY <2>2, <1>2, <1>3 DEF ClientInv, SecretsOK
  <2> QED
    BY <1>7, <2>1, <2>2 DEF SecretsOK
<1>10. KnownOK'
  BY <1>4 DEF ClientInv, KnownOK
<1>11. LoneOK'
  BY <1>4 DEF ClientInv, LoneOK
<1>12. UnbornOK'
  BY DEF ClientInv, UnbornOK, Alone
<1> QED
  BY <1>8, <1>9, <1>10, <1>11, <1>12 DEF ClientInv

LEMMA Putting ==
  ASSUME ClientInv, NEW a \in Admin, PutConfig(a)
  PROVE  ClientInv'
<1>1. UNCHANGED <<app, minted, known>> /\ job[a].pc = "put"
  BY DEF PutConfig, mappingVars
<1>2. CASE Write(a) /\ job' = [job EXCEPT ![a].pc = "answer"]
  <2>1. [job[a] EXCEPT !.pc = "answer"] \in ClientJob
    BY DEF ClientInv, ClientTypes, ClientJob
  <2>2. job' \in [Admin -> ClientJob] /\ \A b \in Admin : b # a => job'[b] = job[b]
    BY <1>2, <2>1 DEF ClientInv, ClientTypes
  <2>3. /\ job'[a].pc = "answer" /\ job'[a].secret = job[a].secret
        /\ job'[a].method = job[a].method /\ job'[a].alone = job[a].alone
    BY <1>2 DEF ClientInv, ClientTypes, ClientJob
  <2> QED
    BY <1>1, <1>2, <2>2, <2>3, Writing
<1>3. CASE Leave(a) /\ UNCHANGED <<config, retired>>
  BY <1>1, <1>3, Leaving
<1>4. CASE Write(a) /\ Leave(a)
  <2>1. job' \in [Admin -> ClientJob] /\ job'[a].pc = "idle"
    BY <1>4, FreeJob DEF Leave, ClientInv, ClientTypes
  <2>2. \A b \in Admin : b # a => job'[b] = job[b]
    BY <1>4 DEF Leave, ClientInv, ClientTypes
  <2> QED
    BY <1>1, <1>4, <2>1, <2>2, Writing
<1> QED
  BY <1>2, <1>3, <1>4 DEF PutConfig

LEMMA Answering ==
  ASSUME ClientInv, NEW a \in Admin, Answer(a)
  PROVE  ClientInv'
<1>1. UNCHANGED <<app, config, minted, retired>> /\ job[a].pc = "answer" /\ Leave(a)
  BY DEF Answer, mappingVars
<1>2. known' \in {known, None} \/ (job[a].alone /\ known' = job[a].secret)
  BY DEF Answer
<1> QED
  BY <1>1, <1>2, Leaving

LEMMA Deleting ==
  ASSUME ClientInv, NEW new \in {"active", "disabled", "deleted"}, SetClientStatus(new)
  PROVE  ClientInv'
<1>1. app' # "none" /\ UNCHANGED <<minted, retired>>
  BY DEF SetClientStatus
<1>2. CASE new # "deleted"
  BY <1>1, <1>2 DEF SetClientStatus, ClientInv, ClientTypes, SecretsOK, KnownOK, LoneOK,
    UnbornOK
<1>3. CASE new = "deleted"
  <2>1. /\ config' \in {None, config} /\ known' = None
        /\ job' = [a \in Admin |-> [job[a] EXCEPT !.alone = FALSE]]
    BY <1>3 DEF SetClientStatus
  <2>2. \A a \in Admin :
          /\ job'[a] \in ClientJob /\ job'[a].pc = job[a].pc /\ job'[a].method = job[a].method
          /\ job'[a].secret = job[a].secret /\ job'[a].alone = FALSE
    BY <2>1 DEF ClientInv, ClientTypes, ClientJob
  <2>3. job' \in [Admin -> ClientJob]
    BY <2>1, <2>2
  <2>4. ClientTypes'
    BY <1>1, <2>1, <2>2, <2>3 DEF ClientInv, ClientTypes
  <2>5. SecretsOK'
    BY <1>1, <2>1, <2>2 DEF ClientInv, SecretsOK
  <2> QED
    BY <1>1, <2>1, <2>2, <2>4, <2>5 DEF ClientInv, KnownOK, LoneOK, UnbornOK
<1> QED
  BY <1>2, <1>3

LEMMA ClientStep == ClientInv /\ [AppNext]_allVars => ClientInv'
<1> SUFFICES ASSUME ClientInv, [AppNext]_allVars PROVE ClientInv'
  OBVIOUS
<1>1. CASE UNCHANGED clientVars /\ (app' = "none" => app = "none")
  BY <1>1 DEF clientVars, ClientInv, ClientTypes, SecretsOK, KnownOK, LoneOK, UnbornOK, Alone
<1>2. CASE ClientNext
  <2>1. ASSUME NEW a \in Admin, NEW method \in Method,
               CreateClient(a, method) \/ StartClientUpdate(a, method)
        PROVE  ClientInv'
    BY <2>1, Creating, Updating
  <2>2. ASSUME NEW a \in Admin,
               StartRotate(a) \/ CheckApplication(a) \/ PutConfig(a) \/ Answer(a)
        PROVE  ClientInv'
    BY <2>2, Rotating, Checking, Putting, Answering
  <2> QED
    BY <1>2, <2>1, <2>2, Deleting DEF ClientNext
<1>3. CASE UNCHANGED allVars
  BY <1>1, <1>3 DEF allVars, vars, mappingVars
<1> QED
  BY <1>1, <1>2, <1>3, BornOnce DEF AppNext

\* The secrets of the row and of every update or rotation in flight were
\* generated and are not retired, and the one an administrator was shown is the
\* row's, whichever put of the three handlers comes next (app_handlers.go:308,
\* app_secret.go:36).
THEOREM ClientInvariance == AppSpec => []ClientInv
<1> QED
  BY ClientInitial, ClientStep, PTL DEF AppSpec

\* RetiredSecretRefused: no secret that an update or a rotation replaced, no
\* blank one and none that was never generated authenticates a client that
\* must authenticate, however requests overlap and whichever calls fail
\* (storage.go:796).
THEOREM RetiredSecretIsRefused == AppSpec => []RetiredSecretRefused
<1>1. ClientInv => RetiredSecretRefused
  <2> SUFFICES ASSUME ClientInv,
                      NEW secret \in retired \cup {None, minted + 1},
                      NEW issuer \in Issuer \cup {None}, Authorized(secret, issuer)
               PROVE  config # None /\ config.method = "none"
    BY DEF RetiredSecretRefused
  <2>1. CASE AuthMethod = "none"
    BY <2>1 DEF AuthMethod
  <2>2. CASE config # None /\ config.secret # None /\ config.secret = secret
    <3>1. config.secret \in 1..minted /\ config.secret \notin retired /\ minted \in Nat
      BY <2>2 DEF ClientInv, ClientTypes, SecretsOK, Secret
    <3> QED
      BY <2>2, <3>1
  <2> QED
    BY <2>1, <2>2 DEF Authorized
<1> QED
  BY <1>1, ClientInvariance, PTL

\* SecretKept: the secret an administrator was shown stays the client's through
\* all updates that leave it confidential, failed ones included
\* (app_handlers.go:308).
THEOREM ShownSecretIsKept == AppSpec => []SecretKept
<1>1. ClientInv => SecretKept
  BY DEF ClientInv, KnownOK, SecretKept
<1> QED
  BY <1>1, ClientInvariance, PTL

-----------------------------------------------------------------------------
(* The mappings *)

RowOf(t) == IF t = "claims" THEN ClaimRow ELSE RoleRow
BodyOf(t) == IF t = "claims" THEN ClaimPut ELSE RolePut

PutJob == [pc : {"idle", "replace"}, table : Table,
           body : ClaimPut \cup RolePut \cup {<<>>}, next : Nat,
           old : SUBSET {Key(row) : row \in ClaimRow \cup RoleRow}, alone : BOOLEAN]

\* What the first n rows of a body amount to.
MeantUpTo(body, n) == {body[i] : i \in {i \in 1..n :
                        \A j \in 1..n : j > i => Key(body[j]) # Key(body[i])}}

RowTypes ==
  /\ stored = [t \in Table |-> stored[t]] /\ standing = [t \in Table |-> standing[t]]
  /\ \A t \in Table : stored[t] \subseteq RowOf(t)
  /\ put \in [Putter -> PutJob]

\* A PUT that has the table for itself has left nothing but rows it is still
\* to delete and those of its body that it has written.
PutOK(p) == put[p].pc = "replace" =>
  LET t == put[p].table
      body == put[p].body
  IN /\ body \in BodyOf(t) /\ put[p].next \in 1..(Len(body) + 1)
     /\ put[p].old # {} => put[p].next = 1
     /\ standing[t] = None
     /\ put[p].alone =>
          /\ \A q \in Putter : put[q].pc = "replace" /\ put[q].table = t => q = p
          /\ {row \in stored[t] : Key(row) \notin put[p].old}
               = MeantUpTo(body, put[p].next - 1)

StandingOK == \A t \in Table : standing[t] # None => stored[t] = standing[t]

RowsInv == RowTypes /\ (\A p \in Putter : PutOK(p)) /\ StandingOK

LEMMA BodyRows ==
  ASSUME NEW t \in Table, NEW body \in BodyOf(t)
  PROVE  /\ body \in Seq(RowOf(t)) /\ Len(body) \in Nat /\ DOMAIN body = 1..Len(body)
         /\ \A i \in 1..Len(body) : body[i] \in RowOf(t)
         /\ Meant(body) = MeantUpTo(body, Len(body))
<1>1. body \in Seq(RowOf(t))
  BY MappingAssumption DEF BodyOf, RowOf, Table
<1>2. Len(body) \in Nat /\ DOMAIN body = 1..Len(body) /\ \A i \in 1..Len(body) : body[i] \in RowOf(t)
  BY <1>1
<1> QED
  BY <1>1, <1>2 DEF Meant, MeantUpTo

\* Writing one more row over those of the same key.
LEMMA InsertMeant ==
  ASSUME NEW body, NEW n \in Nat
  PROVE  Insert(MeantUpTo(body, n), body[n + 1]) = MeantUpTo(body, n + 1)
<1> DEFINE Last(m, i) == \A j \in 1..m : j > i => Key(body[j]) # Key(body[i])
<1>1. ASSUME NEW x \in Insert(MeantUpTo(body, n), body[n + 1])
      PROVE  x \in MeantUpTo(body, n + 1)
  <2>1. CASE x = body[n + 1]
    <3>1. n + 1 \in 1..(n + 1) /\ Last(n + 1, n + 1)
      OBVIOUS
    <3> QED
      BY <2>1, <3>1 DEF MeantUpTo
  <2>2. CASE x \in MeantUpTo(body, n) /\ Key(x) # Key(body[n + 1])
    <3>1. PICK i \in 1..n : x = body[i] /\ Last(n, i)
      BY <2>2 DEF MeantUpTo
    <3>2. i \in 1..(n + 1) /\ Last(n + 1, i)
      BY <2>2, <3>1
    <3> QED
      BY <3>1, <3>2 DEF MeantUpTo
  <2> QED
    BY <2>1, <2>2 DEF Insert
<1>2. ASSUME NEW x \in MeantUpTo(body, n + 1)
      PROVE  x \in Insert(MeantUpTo(body, n), body[n + 1])
  <2>1. PICK i \in 1..(n + 1) : x = body[i] /\ Last(n + 1, i)
    BY DEF MeantUpTo
  <2>2. CASE i = n + 1
    BY <2>1, <2>2 DEF Insert
  <2>3. CASE i \in 1..n
    <3>1. Last(n, i) /\ Key(body[n + 1]) # Key(x)
      BY <2>1, <2>3
    <3>2. x \in MeantUpTo(body, n)
      BY <2>1, <2>3, <3>1 DEF MeantUpTo
    <3> QED
      BY <3>1, <3>2 DEF Insert
  <2> QED
    BY <2>2, <2>3
<1> QED
  BY <1>1, <1>2

LEMMA PutFields ==
  ASSUME NEW j \in PutJob
  PROVE  /\ j.pc \in {"idle", "replace"} /\ j.table \in Table /\ j.next \in Nat
         /\ j.alone \in BOOLEAN
         /\ j.old \subseteq {Key(row) : row \in ClaimRow \cup RoleRow}
BY DEF PutJob

LEMMA NextPut ==
  ASSUME NEW j \in PutJob
  PROVE  [j EXCEPT !.next = @ + 1] \in PutJob
<1>1. j.next + 1 \in Nat
  BY PutFields
<1> QED
  BY <1>1 DEF PutJob

LEMMA NoPutJob == NoPut \in PutJob /\ NoPut.pc = "idle"
BY DEF NoPut, PutJob, Table

LEMMA RowsInitial == AppInit => RowsInv
<1> SUFFICES ASSUME AppInit PROVE RowsInv
  OBVIOUS
<1>1. /\ stored = [t \in Table |-> {}] /\ put = [p \in Putter |-> NoPut]
      /\ standing = [t \in Table |-> {}]
  BY DEF AppInit, Init, MappingInit
<1>2. put \in [Putter -> PutJob] /\ \A p \in Putter : put[p].pc = "idle"
  BY <1>1, NoPutJob
<1> QED
  BY <1>1, <1>2 DEF RowsInv, RowTypes, PutOK, StandingOK

\* One PUT changes; the rows of its own table change at most.
LEMMA OnePut ==
  ASSUME RowsInv, NEW p \in Putter, put[p].pc = "replace", UNCHANGED standing,
         put' \in [Putter -> PutJob], \A q \in Putter : q # p => put'[q] = put[q],
         put'[p].pc = "idle" \/ (put'[p].table = put[p].table /\ PutOK(p)'),
         stored' = [t \in Table |-> stored'[t]],
         stored'[put[p].table] \subseteq RowOf(put[p].table),
         \A t \in Table : t # put[p].table => stored'[t] = stored[t]
  PROVE  RowsInv'
<1>1. put[p].table \in Table /\ standing[put[p].table] = None
  BY PutFields DEF RowsInv, RowTypes, PutOK
<1>2. RowTypes'
  BY <1>1 DEF RowsInv, RowTypes
<1>3. StandingOK'
  BY <1>1 DEF RowsInv, StandingOK
<1>4. ASSUME NEW q \in Putter PROVE PutOK(q)'
  <2>1. CASE q = p
    BY <2>1 DEF PutOK
  <2>2. CASE q # p /\ put[q].pc = "replace"
    <3>1. put'[q] = put[q] /\ put[q].table \in Table /\ PutOK(q)
      BY <2>2, PutFields DEF RowsInv, RowTypes
    <3>2. put[q].alone => put[q].table # put[p].table
      BY <2>2, <3>1 DEF PutOK
    <3>3. put[q].alone => stored'[put[q].table] = stored[put[q].table]
      BY <3>1, <3>2
    <3>4. ASSUME NEW o \in Putter, put'[o].pc = "replace", put'[o].table = put[q].table,
                 put[q].alone
          PROVE  o = q
      BY <3>1, <3>2, <3>4, <2>2 DEF PutOK
    <3> QED
      BY <2>2, <3>1, <3>3, <3>4 DEF PutOK
  <2>3. CASE q # p /\ put[q].pc # "replace"
    BY <2>3 DEF PutOK
  <2> QED
    BY <2>1, <2>2, <2>3
<1> QED
  BY <1>2, <1>3, <1>4 DEF RowsInv

LEMMA PutStarts ==
  ASSUME RowsInv, NEW p \in Putter, NEW t \in Table, NEW body \in BodyOf(t),
         StartPut(p, t, body)
  PROVE  RowsInv'
<1> DEFINE keys == {Key(row) : row \in stored[t]}
           free == \A y \in Putter : put[y].pc = "idle" \/ put[y].table # t
           new == [pc |-> "replace", table |-> t, body |-> body, next |-> 1,
                   old |-> keys, alone |-> free]
<1>1. /\ put' = [x \in Putter |-> IF x = p THEN new
                   ELSE [put[x] EXCEPT !.alone = @ /\ put[x].table # t]]
      /\ standing' = [standing EXCEPT ![t] = None] /\ stored' = stored
      /\ put[p].pc = "idle"
  BY DEF StartPut
<1>2. keys \subseteq {Key(row) : row \in ClaimRow \cup RoleRow} /\ free \in BOOLEAN
  BY DEF RowsInv, RowTypes, RowOf
<1>3. new \in PutJob
  BY <1>2 DEF PutJob, BodyOf
<1>4. put'[p] = new /\ new.pc = "replace" /\ new.table = t /\ new.body = body
      /\ new.next = 1 /\ new.old = keys /\ new.alone = free
  BY <1>1
<1>5. \A x \in Putter : x # p =>
        /\ put'[x] \in PutJob /\ put'[x].pc = put[x].pc /\ put'[x].table = put[x].table
        /\ put'[x].body = put[x].body /\ put'[x].next = put[x].next
        /\ put'[x].old = put[x].old
        /\ put'[x].alone = (put[x].alone /\ put[x].table # t)
  BY <1>1 DEF RowsInv, RowTypes, PutJob
<1>6. {row \in stored[t] : Key(row) \notin keys} = {} /\ MeantUpTo(body, 0) = {}
  BY DEF MeantUpTo
<1> HIDE DEF keys, new
<1>7. RowTypes'
  <2>1. put' \in [Putter -> PutJob]
    BY <1>1, <1>3, <1>4, <1>5
  <2> QED
    BY <1>1, <2>1 DEF RowsInv, RowTypes
<1>8. standing'[t] = None /\ \A s \in Table : s # t => standing'[s] = standing[s]
  BY <1>1 DEF RowsInv, RowTypes
<1>9. StandingOK'
  BY <1>1, <1>8 DEF RowsInv, StandingOK
<1>10. PutOK(p)'
  <2>1. Len(body) \in Nat
    BY BodyRows
  <2>2. 1 \in 1..(Len(body) + 1) /\ 1 - 1 = 0
    BY <2>1
  <2>3. ASSUME free, NEW q \in Putter, put'[q].pc = "replace", put'[q].table = t
        PROVE  q = p
    BY <2>3, <1>5
  <2> QED
    BY <1>1, <1>4, <1>6, <1>8, <2>2, <2>3 DEF PutOK
<1>11. ASSUME NEW q \in Putter, q # p PROVE PutOK(q)'
  <2>1. CASE put[q].pc = "replace"
    <3>1. PutOK(q) /\ put[q].table \in Table
      BY <2>1, PutFields DEF RowsInv, RowTypes
    <3>2. standing'[put[q].table] = None
      BY <2>1, <3>1, <1>8 DEF PutOK
    <3>3. ASSUME put'[q].alone, NEW o \in Putter, put'[o].pc = "replace",
                 put'[o].table = put[q].table
          PROVE  o = q
      BY <3>3, <3>1, <2>1, <1>4, <1>5, <1>11 DEF PutOK
    <3>4. put'[q].alone =>
            {row \in stored[put[q].table] : Key(row) \notin put[q].old}
              = MeantUpTo(put[q].body, put[q].next - 1)
      BY <2>1, <3>1, <1>5, <1>11 DEF PutOK
    <3>5. /\ put[q].body \in BodyOf(put[q].table)
          /\ put[q].next \in 1..(Len(put[q].body) + 1)
          /\ put[q].old # {} => put[q].next = 1
      BY <2>1, <3>1 DEF PutOK
    <3>6. /\ put'[q].table = put[q].table /\ put'[q].body = put[q].body
          /\ put'[q].next = put[q].next /\ put'[q].old = put[q].old
      BY <1>5, <1>11
    <3> QED
      BY <3>2, <3>3, <3>4, <3>5, <3>6, <1>1 DEF PutOK
  <2>2. CASE put[q].pc # "replace"
    BY <2>2, <1>5, <1>11 DEF PutOK
  <2> QED
    BY <2>1, <2>2
<1> QED
  BY <1>7, <1>9, <1>10, <1>11 DEF RowsInv

LEMMA RowDeleted ==
  ASSUME RowsInv, NEW p \in Putter, DeleteOld(p)
  PROVE  RowsInv'
<1> DEFINE t == put[p].table
<1>1. PICK k \in put[p].old :
        \/ /\ stored' = [stored EXCEPT ![t] = {row \in @ : Key(row) # k}]
           /\ put' = [put EXCEPT ![p].old = @ \ {k}]
        \/ /\ put' = [put EXCEPT ![p].old = @ \ {k}, ![p].alone = FALSE]
           /\ UNCHANGED stored
  BY DEF DeleteOld
<1>2. put[p].pc = "replace" /\ UNCHANGED standing
  BY DEF DeleteOld
<1>3. /\ t \in Table /\ put[p].next = 1 /\ standing[t] = None /\ put[p].body \in BodyOf(t)
      /\ 1 \in 1..(Len(put[p].body) + 1) /\ put[p] \in PutJob
  BY <1>1, <1>2, PutFields DEF RowsInv, RowTypes, PutOK
<1>4. /\ put' \in [Putter -> PutJob] /\ \A q \in Putter : q # p => put'[q] = put[q]
      /\ put'[p].pc = "replace" /\ put'[p].table = t /\ put'[p].body = put[p].body
      /\ put'[p].next = 1 /\ put'[p].old = put[p].old \ {k}
      /\ put'[p].alone => put[p].alone
  <2>1. [put[p] EXCEPT !.old = @ \ {k}] \in PutJob
    BY <1>3 DEF PutJob
  <2>2. [put[p] EXCEPT !.old = @ \ {k}, !.alone = FALSE] \in PutJob
    BY <1>3 DEF PutJob
  <2>3. CASE put' = [put EXCEPT ![p].old = @ \ {k}]
    BY <1>2, <1>3, <2>1, <2>3 DEF RowsInv, RowTypes, PutJob
  <2>4. CASE put' = [put EXCEPT ![p].old = @ \ {k}, ![p].alone = FALSE]
    BY <1>2, <1>3, <2>2, <2>4 DEF RowsInv, RowTypes, PutJob
  <2> QED
    BY <1>1, <2>3, <2>4
<1>5. /\ stored' = [s \in Table |-> stored'[s]]
      /\ \A s \in Table : s # t => stored'[s] = stored[s]
      /\ stored'[t] \subseteq RowOf(t)
      /\ put'[p].alone => stored'[t] = {row \in stored[t] : Key(row) # k}
  <2>1. CASE stored' = [stored EXCEPT ![t] = {row \in @ : Key(row) # k}]
    BY <1>3, <2>1 DEF RowsInv, RowTypes
  <2>2. CASE put' = [put EXCEPT ![p].old = @ \ {k}, ![p].alone = FALSE] /\ UNCHANGED stored
    <3>1. put'[p].alone = FALSE
      BY <2>2, <1>3 DEF RowsInv, RowTypes, PutJob
    <3> QED
      BY <1>3, <2>2, <3>1 DEF RowsInv, RowTypes
  <2> QED
    BY <1>1, <2>1, <2>2
<1>6. PutOK(p)'
  <2>1. ASSUME put'[p].alone
        PROVE  {row \in stored'[t] : Key(row) \notin put'[p].old}
                 = MeantUpTo(put[p].body, 1 - 1)
    <3>1. {row \in stored'[t] : Key(row) \notin put'[p].old}
            = {row \in stored[t] : Key(row) \notin put[p].old}
      BY <1>4, <1>5, <2>1
    <3> QED
      BY <3>1, <2>1, <1>2, <1>3, <1>4 DEF RowsInv, PutOK
  <2>2. ASSUME put'[p].alone, NEW q \in Putter, put'[q].pc = "replace", put'[q].table = t
        PROVE  q = p
    BY <2>2, <1>2, <1>4 DEF RowsInv, PutOK
  <2> QED
    BY <1>2, <1>3, <1>4, <2>1, <2>2 DEF PutOK
<1> HIDE DEF t
<1> QED
  BY <1>2, <1>4, <1>5, <1>6, OnePut DEF t

LEMMA RowPut ==
  ASSUME RowsInv, NEW p \in Putter, PutNext(p)
  PROVE  RowsInv'
<1> DEFINE t == put[p].table
           body == put[p].body
           n == put[p].next
<1>1. put[p].pc = "replace" /\ put[p].old = {} /\ n <= Len(body) /\ UNCHANGED standing
  BY DEF PutNext
<1>2. /\ t \in Table /\ standing[t] = None /\ body \in BodyOf(t) /\ put[p] \in PutJob
      /\ n \in 1..(Len(body) + 1)
  BY <1>1, PutFields DEF RowsInv, RowTypes, PutOK
<1>3. /\ Len(body) \in Nat /\ n \in Nat /\ n \in 1..Len(body) /\ body[n] \in RowOf(t)
      /\ n + 1 \in 1..(Len(body) + 1) /\ (n + 1) - 1 = n /\ n - 1 \in Nat /\ (n - 1) + 1 = n
  BY <1>1, <1>2, BodyRows
<1>4. CASE /\ stored' = [stored EXCEPT ![t] = Insert(@, body[n])]
           /\ put' = [put EXCEPT ![p].next = @ + 1]
  <2>1. [put[p] EXCEPT !.next = @ + 1] \in PutJob
    BY <1>2, NextPut
  <2>2. /\ put' \in [Putter -> PutJob] /\ \A q \in Putter : q # p => put'[q] = put[q]
        /\ put'[p].pc = "replace" /\ put'[p].table = t /\ put'[p].body = body
        /\ put'[p].next = n + 1 /\ put'[p].old = {} /\ put'[p].alone = put[p].alone
    BY <1>1, <1>2, <1>4, <2>1 DEF RowsInv, RowTypes, PutJob
  <2>3. stored'[t] = Insert(stored[t], body[n]) /\ stored[t] \subseteq RowOf(t)
    BY <1>2, <1>4 DEF RowsInv, RowTypes
  <2>4. /\ stored' = [s \in Table |-> stored'[s]]
        /\ \A s \in Table : s # t => stored'[s] = stored[s]
    BY <1>2, <1>4 DEF RowsInv, RowTypes
  <2>5. stored'[t] \subseteq RowOf(t)
    BY <2>3, <1>3 DEF Insert
  <2>6. ASSUME put[p].alone
        PROVE  {row \in stored'[t] : Key(row) \notin put'[p].old} = MeantUpTo(body, n)
    <3>1. stored[t] = MeantUpTo(body, n - 1)
      BY <1>1, <2>6 DEF RowsInv, PutOK
    <3>2. stored'[t] = MeantUpTo(body, n)
      BY <2>3, <3>1, <1>3, InsertMeant
    <3> QED
      BY <3>2, <2>2
  <2>7. ASSUME put[p].alone, NEW q \in Putter, put'[q].pc = "replace", put'[q].table = t
        PROVE  q = p
    BY <2>7, <1>1, <2>2 DEF RowsInv, PutOK
  <2>8. PutOK(p)'
    BY <1>1, <1>2, <1>3, <2>2, <2>6, <2>7 DEF PutOK
  <2> QED
    BY <1>1, <2>2, <2>4, <2>5, <2>8, OnePut
<1>5. CASE put' = [put EXCEPT ![p] = NoPut] /\ UNCHANGED stored
  <2>1. /\ put' \in [Putter -> PutJob] /\ \A q \in Putter : q # p => put'[q] = put[q]
        /\ put'[p].pc = "idle"
    BY <1>5, NoPutJob DEF RowsInv, RowTypes
  <2>2. stored' = [s \in Table |-> stored'[s]] /\ stored'[t] \subseteq RowOf(t)
    BY <1>2, <1>5 DEF RowsInv, RowTypes
  <2> QED
    BY <1>1, <1>5, <2>1, <2>2, OnePut
<1> QED
  BY <1>4, <1>5 DEF PutNext

LEMMA PutAbandoned ==
  ASSUME RowsInv, NEW p \in Putter, AbandonPut(p)
  PROVE  RowsInv'
<1>1. put[p].pc = "replace" /\ put[p].table \in Table
  BY PutFields DEF AbandonPut, RowsInv, RowTypes
<1>2. /\ put' \in [Putter -> PutJob] /\ \A q \in Putter : q # p => put'[q] = put[q]
      /\ put'[p].pc = "idle" /\ UNCHANGED <<stored, standing>>
  BY NoPutJob DEF AbandonPut, RowsInv, RowTypes
<1>3. /\ stored' = [s \in Table |-> stored'[s]]
      /\ stored'[put[p].table] \subseteq RowOf(put[p].table)
  BY <1>1, <1>2 DEF RowsInv, RowTypes
<1> QED
  BY <1>1, <1>2, <1>3, OnePut

LEMMA PutFinished ==
  ASSUME RowsInv, NEW p \in Putter, FinishPut(p)
  PROVE  RowsInv'
<1> DEFINE t == put[p].table
           body == put[p].body
<1>1. /\ put[p].pc = "replace" /\ put[p].old = {} /\ put[p].next > Len(body)
      /\ put' = [put EXCEPT ![p] = NoPut] /\ UNCHANGED stored
      /\ standing' = IF put[p].alone THEN [standing EXCEPT ![t] = Meant(body)] ELSE standing
  BY DEF FinishPut
<1>2. /\ t \in Table /\ standing[t] = None /\ body \in BodyOf(t)
      /\ put[p].next \in 1..(Len(body) + 1)
  BY <1>1, PutFields DEF RowsInv, RowTypes, PutOK
<1>3. Len(body) \in Nat /\ put[p].next - 1 = Len(body)
  BY <1>1, <1>2, BodyRows
<1>4. /\ put' \in [Putter -> PutJob] /\ \A q \in Putter : q # p => put'[q] = put[q]
      /\ put'[p].pc = "idle"
  BY <1>1, NoPutJob DEF RowsInv, RowTypes
<1>5. CASE ~put[p].alone
  <2>1. stored' = [s \in Table |-> stored'[s]] /\ stored'[t] \subseteq RowOf(t)
    BY <1>1, <1>2 DEF RowsInv, RowTypes
  <2> QED
    BY <1>1, <1>4, <1>5, <2>1, OnePut
<1>6. CASE put[p].alone
  <2>1. stored[t] = Meant(body)
    <3>1. {row \in stored[t] : Key(row) \notin put[p].old}
            = MeantUpTo(body, put[p].next - 1)
      BY <1>1, <1>6 DEF RowsInv, PutOK
    <3>2. stored[t] = MeantUpTo(body, Len(body))
      BY <3>1, <1>1, <1>3
    <3> QED
      BY <3>2, <1>2, BodyRows
  <2>2. /\ standing' = [s \in Table |-> standing'[s]] /\ standing'[t] = stored[t]
        /\ \A s \in Table : s # t => standing'[s] = standing[s]
    BY <1>1, <1>2, <1>6, <2>1 DEF RowsInv, RowTypes
  <2>3. RowTypes' /\ StandingOK'
    BY <1>1, <1>4, <2>2 DEF RowsInv, RowTypes, StandingOK
  <2>4. ASSUME NEW q \in Putter PROVE PutOK(q)'
    <3>1. CASE q # p /\ put[q].pc = "replace"
      <4>1. put[q].table # t /\ put[q].table \in Table
        BY <3>1, <1>1, <1>6, PutFields DEF RowsInv, RowTypes, PutOK
      <4>2. PutOK(q) /\ put'[q] = put[q] /\ standing'[put[q].table] = standing[put[q].table]
        BY <3>1, <4>1, <1>4, <2>2 DEF RowsInv
      <4>3. ASSUME put[q].alone, NEW o \in Putter, put'[o].pc = "replace",
                   put'[o].table = put[q].table
            PROVE  o = q
        BY <4>2, <4>3, <3>1, <1>4 DEF PutOK
      <4> QED
        BY <4>2, <4>3, <3>1, <1>1 DEF PutOK
    <3>2. CASE q = p \/ put[q].pc # "replace"
      BY <3>2, <1>4 DEF PutOK
    <3> QED
      BY <3>1, <3>2
  <2> QED
    BY <2>3, <2>4 DEF RowsInv
<1> QED
  BY <1>5, <1>6

\* What a step does to the rows and to the evaluations.
RowStep ==
  \E p \in Putter :
    \/ \E t \in Table : \E body \in BodyOf(t) : StartPut(p, t, body)
    \/ DeleteOld(p) \/ PutNext(p) \/ FinishPut(p) \/ AbandonPut(p)

ReadStep ==
  \/ UNCHANGED read
  \/ \E r \in Reader :
       \/ \E kind \in {"saml", "preview", "metadata"} : \E u : BeginRead(r, kind, u)
       \/ \E u, scopes : StartToken(r, u, scopes)
       \/ GetClaimMappings(r) \/ GetRoleMappings(r)
       \/ \E x \in {NoRead, read[r]} : read' = [read EXCEPT ![r] = x]

LEMMA MappingSteps ==
  ASSUME MappingNext
  PROVE  RowStep \/ (ReadStep /\ UNCHANGED <<protocol, stored, put, standing>>)
<1>1. "claims" \in Table /\ "roles" \in Table /\ BodyOf("claims") = ClaimPut
      /\ BodyOf("roles") = RolePut
  BY DEF Table, BodyOf
<1>2. ASSUME NEW p \in Putter,
             \/ \E body \in ClaimPut : StartPut(p, "claims", body)
             \/ \E body \in RolePut : StartPut(p, "roles", body)
             \/ DeleteOld(p) \/ PutNext(p) \/ FinishPut(p) \/ AbandonPut(p)
      PROVE  RowStep
  BY <1>1, <1>2 DEF RowStep
<1>3. ASSUME NEW r \in Reader, NEW u \in User, StartPreview(r, u)
      PROVE  ReadStep /\ UNCHANGED <<protocol, stored, put, standing>>
  BY <1>3 DEF StartPreview, ReadStep
<1>4. ASSUME NEW r \in Reader, NEW u \in User, NEW scopes \in Scopes, StartToken(r, u, scopes)
      PROVE  ReadStep /\ UNCHANGED <<protocol, stored, put, standing>>
  <2>1. UNCHANGED <<protocol, stored, put, standing>>
    BY <1>4 DEF StartToken
  <2> QED
    BY <1>4, <2>1 DEF ReadStep
<1>5. ASSUME NEW r \in Reader, GetClaimMappings(r) \/ GetRoleMappings(r)
      PROVE  ReadStep /\ UNCHANGED <<protocol, stored, put, standing>>
  <2>1. UNCHANGED <<protocol, stored, put, standing>>
    BY <1>5 DEF GetClaimMappings, GetRoleMappings
  <2> QED
    BY <1>5, <2>1 DEF ReadStep
<1>6. ASSUME NEW r \in Reader, EndRead(r)
      PROVE  ReadStep /\ UNCHANGED <<protocol, stored, put, standing>>
  BY <1>6 DEF EndRead, ReadStep
<1> QED
  BY <1>2, <1>3, <1>4, <1>5, <1>6 DEF MappingNext

\* The other actions leave the rows alone; two begin and end evaluations.
LEMMA RowSteps ==
  ASSUME [AppNext]_allVars
  PROVE  RowStep \/ (ReadStep /\ UNCHANGED <<protocol, stored, put, standing>>)
<1> DEFINE Same == UNCHANGED <<protocol, stored, put, standing>>
<1>1. CASE UNCHANGED rowVars
  BY <1>1 DEF rowVars, ReadStep
<1>2. CASE MappingNext
  BY <1>2, MappingSteps
<1>3. CASE ConfigNext
  BY <1>1, <1>3 DEF ConfigNext, Import, Create, StartUpdate, WriteConfig, SetStatus, mappingVars
<1>4. ASSUME NEW r \in Reader,
             ServeSSO(r) \/ GetServiceProvider(r) \/ GetSession(r) \/ MintForLaunch(r)
               \/ Attributes(r) \/ Send(r)
      PROVE  UNCHANGED rowVars
  BY <1>4 DEF ServeSSO, GetServiceProvider, GetSession, MintForLaunch, Attributes, Send, Keep,
    mappingVars
<1>5. ASSUME NEW r \in Reader, MakeAssertion(r) PROVE ReadStep /\ Same
  <2>1. Same /\ (UNCHANGED read \/ BeginRead(r, "saml", resp[r].session.user))
    BY <1>5 DEF MakeAssertion
  <2>2. CASE BeginRead(r, "saml", resp[r].session.user)
    <3>1. \E u : BeginRead(r, "saml", u)
      BY <2>2
    <3> QED
      BY <2>1, <3>1 DEF ReadStep
  <2> QED
    BY <2>1, <2>2 DEF ReadStep
<1>6. ASSUME NEW r \in Reader, Sent(r) PROVE ReadStep /\ Same
  <2>1. Same /\ read' = [read EXCEPT ![r] = IF @.kind = "saml" THEN NoRead ELSE @]
    BY <1>6 DEF Sent
  <2>2. CASE read[r].kind = "saml"
    BY <2>1, <2>2 DEF ReadStep
  <2>3. CASE read[r].kind # "saml"
    <3>1. read' = [read EXCEPT ![r] = read[r]]
      BY <2>1, <2>3
    <3> QED
      BY <2>1, <3>1 DEF ReadStep
  <2> QED
    BY <2>2, <2>3
<1>7. ASSUME NEW r \in Reader, ServeAppMetadata(r) PROVE ReadStep /\ Same
  BY <1>7 DEF ServeAppMetadata, ReadStep
<1>8. ASSUME NEW r \in Reader, NEW u \in User,
             FinishLogin(r, u) \/ \E page \in Page : HandleIdPInitiate(r, u, page)
      PROVE  UNCHANGED rowVars
  BY <1>8 DEF FinishLogin, HandleIdPInitiate, Keep, mappingVars
<1>9. LoseCookie => UNCHANGED rowVars
  BY DEF LoseCookie, Keep, mappingVars
<1>10. CASE ResponseNext
  BY <1>1, <1>4, <1>5, <1>6, <1>7, <1>8, <1>9, <1>10 DEF ResponseNext
<1>11. CASE SloNext
  BY <1>1, <1>11 DEF SloNext, ReceiveSLO, HandleSLO, AnswerSLO, Keep, mappingVars
<1>12. CASE ClientNext
  BY <1>1, <1>12 DEF ClientNext, CreateClient, StartClientUpdate, StartRotate, CheckApplication,
    PutConfig, Answer, SetClientStatus, mappingVars
<1> QED
  BY <1>1, <1>2, <1>3, <1>10, <1>11, <1>12 DEF AppNext, Next, allVars, vars, mappingVars

LEMMA RowsStep == RowsInv /\ [AppNext]_allVars => RowsInv'
<1> SUFFICES ASSUME RowsInv, [AppNext]_allVars PROVE RowsInv'
  OBVIOUS
<1>1. CASE RowStep
  BY <1>1, PutStarts, RowDeleted, RowPut, PutFinished, PutAbandoned DEF RowStep
<1>2. CASE UNCHANGED <<protocol, stored, put, standing>>
  BY <1>2 DEF RowsInv, RowTypes, PutOK, StandingOK
<1> QED
  BY <1>1, <1>2, RowSteps

\* A replacement has removed the rows it listed and written those of its body up
\* to where it got; a table whose last replacement ran alone and to its end
\* holds what that body says (claim_store.go:49).
THEOREM RowsInvariance == AppSpec => []RowsInv
<1> QED
  BY RowsInitial, RowsStep, PTL DEF AppSpec

\* EvaluatorsAgree: for every table that PUTs can leave and every user, the
\* preview shows what assertions release from the sources it knows, tokens
\* carry what assertions do, apart from the exceptions the property names, and
\* the metadata announces every attribute (preview.go:96, storage.go:1000).
THEOREM EvaluationsAgree == AppSpec => []EvaluatorsAgree
<1>1. ASSUME NEW row, NEW roles, NEW u,
             IsCognitoSource(row.kind) => row.attr \in {"sub", "email"}
      PROVE  PreviewValues(row, roles, u) = SamlValues(row, roles, u)
  <2>1. CASE IsCognitoSource(row.kind)
    <3>1. PreviewField(u, row.attr) = SamlField(u, row.attr)
      BY <1>1, <2>1 DEF PreviewField, SamlField, Lookup
    <3> QED
      BY <2>1, <3>1 DEF PreviewValues, SamlValues
  <2>2. CASE ~IsCognitoSource(row.kind)
    BY <2>2 DEF PreviewValues, SamlValues
  <2> QED
    BY <2>1, <2>2
<1>2. ASSUME NEW row, NEW roles, NEW u,
             IsCognitoSource(row.kind) =>
               row.attr \notin {"name", "common_name"} \cup DOMAIN Bare
      PROVE  OidcValues(row, roles, u) = SamlValues(row, roles, u)
  <2>1. CASE IsCognitoSource(row.kind)
    <3>1. OidcField(u, row.attr) = SamlField(u, row.attr)
      BY <1>2, <2>1 DEF OidcField
    <3> QED
      BY <2>1, <3>1 DEF OidcValues, SamlValues
  <2>2. CASE ~IsCognitoSource(row.kind)
    BY <2>2 DEF OidcValues, SamlValues
  <2> QED
    BY <2>1, <2>2
<1>3. ASSUME RowsInv, NEW u \in User
      PROVE  LET Shown(row) == IsCognitoSource(row.kind) => row.attr \in {"sub", "email"}
                 Shared(row) ==
                   /\ row.target \notin Reserved \cup {None}
                   /\ \A other \in stored["claims"] : other.target = row.target => other = row
                   /\ IsCognitoSource(row.kind) =>
                        row.attr \notin {"name", "common_name"} \cup DOMAIN Bare
                 shown == {row \in stored["claims"] : Shown(row)}
                 shared == {row \in stored["claims"] : Shared(row)}
                 roles == stored["roles"]
             IN /\ protocol = "saml" => Preview(shown, roles, u) = SamlRelease(shown, roles, u)
                /\ \A a \in SamlRelease(stored["claims"], roles, u) :
                     a[1] \in Announced(stored["claims"])
                /\ LET claims == OidcRelease(shared, roles, u)
                       attributes == SamlRelease(shared, roles, u)
                   IN attributes \subseteq claims /\ \A a \in claims \ attributes : a[1] = "groups"
  <2> DEFINE Shown(row) == IsCognitoSource(row.kind) => row.attr \in {"sub", "email"}
             Shared(row) ==
               /\ row.target \notin Reserved \cup {None}
               /\ \A other \in stored["claims"] : other.target = row.target => other = row
               /\ IsCognitoSource(row.kind) =>
                    row.attr \notin {"name", "common_name"} \cup DOMAIN Bare
             shown == {row \in stored["claims"] : Shown(row)}
             shared == {row \in stored["claims"] : Shared(row)}
             roles == stored["roles"]
  <2>1. protocol = "saml" => Preview(shown, roles, u) = SamlRelease(shown, roles, u)
    <3>1. \A row \in shown : PreviewValues(row, roles, u) = SamlValues(row, roles, u)
      BY <1>1
    <3>2. [row \in shown |-> PreviewValues(row, roles, u)]
            = [row \in shown |-> SamlValues(row, roles, u)]
      BY <3>1
    <3> QED
      BY <3>2 DEF Preview, SamlRelease
  <2>2. \A a \in SamlRelease(stored["claims"], roles, u) : a[1] \in Announced(stored["claims"])
    <3> DEFINE all == [row \in stored["claims"] |-> SamlValues(row, roles, u)]
    <3> TAKE a \in SamlRelease(stored["claims"], roles, u)
    <3>1. PICK row \in {row \in DOMAIN all : all[row] # {}} : a = <<row.target, all[row]>>
      BY DEF SamlRelease, Statement
    <3>2. row \in stored["claims"] /\ a[1] = row.target
      BY <3>1
    <3> QED
      BY <3>2 DEF Announced
  <2> DEFINE mine == {row \in shared : row.target \notin Reserved \cup {None}}
             values == [row \in shared |-> SamlValues(row, roles, u)]
             claims == OidcRelease(shared, roles, u)
             attributes == SamlRelease(shared, roles, u)
  <2>3. mine = shared
    OBVIOUS
  <2>4. \A row \in shared : OidcValues(row, roles, u) = SamlValues(row, roles, u)
    BY <1>2
  <2>5. [row \in mine |-> OidcValues(row, roles, u)] = values
    BY <2>3, <2>4
  <2>6. \A row \in shared : row.name \in Nat
    <3>1. stored["claims"] \subseteq ClaimRow
      BY <1>3 DEF RowsInv, RowTypes, RowOf, Table
    <3> QED
      BY <3>1, MappingAssumption
  <2>7. \A row, later \in shared : later.target = row.target => later.name <= row.name
    <3> TAKE row, later \in shared
    <3>1. later.target = row.target => later = row
      OBVIOUS
    <3> QED
      BY <3>1, <2>6
  <2> HIDE DEF shared
  <2>8. ClaimSet(values) = Statement(values)
    BY <2>7 DEF ClaimSet, Statement
  <2>9. /\ attributes = Statement(values)
        /\ claims = Statement(values) \cup {<<"groups", g>> : g \in {g \in {u.groups} :
                   g # {} /\ \A a \in Statement(values) : a[1] # "groups"}}
    BY <2>5, <2>8 DEF OidcRelease, SamlRelease
  <2>10. attributes \subseteq claims /\ \A a \in claims \ attributes : a[1] = "groups"
    BY <2>9
  <2> QED
    BY <2>1, <2>2, <2>10 DEF shared
<1>4. RowsInv => EvaluatorsAgree
  BY <1>3 DEF EvaluatorsAgree
<1> QED
  BY <1>4, RowsInvariance, PTL

-----------------------------------------------------------------------------
(* Evaluations *)

\* The names of applyStandardClaims.
Standard == {"email", "email_verified", "given_name", "name", "preferred_username"}

\* Release, with the protocol as a parameter.
ReleaseFor(proto, kind, rows, roles, u) ==
  CASE kind = "saml" -> SamlRelease(rows, roles, u)
    [] kind = "oidc" -> OidcRelease(rows, roles, u)
    [] kind = "preview" ->
         LET values == [row \in rows |-> PreviewValues(row, roles, u)]
         IN IF proto = "saml" THEN Statement(values) ELSE ClaimSet(values)
    [] kind = "metadata" -> Announced(rows)

IsRead(x) ==
  x \in [pc : {x.pc}, kind : {x.kind}, user : {x.user}, claims : {x.claims},
         failed : {x.failed}, calm : {x.calm}, standard : {x.standard}, out : {x.out}]

\* A calm evaluation began when the rows were those that PUTs asked for, and
\* has seen no other rows.
ReadOK(x, proto, rows) ==
  /\ IsRead(x)
  /\ x.calm => rows["claims"] # None /\ rows["roles"] # None
  /\ x.standard # {} => x.kind = "oidc"
  /\ \A claim \in x.standard : claim[1] \in Standard
  /\ x.pc \in {"claims", "roles"} => ~x.failed
  /\ x.pc = "roles" /\ x.calm => x.claims = rows["claims"]
  /\ x.pc = "done" =>
       /\ x.calm /\ ~x.failed =>
            x.out = ReleaseFor(proto, x.kind, rows["claims"], rows["roles"], x.user)
       /\ x.kind \in {"saml", "metadata"} /\ x.failed => x.out = {}
       /\ x.kind = "oidc" => \A a \in x.out : a[1] \notin Standard

ReadInv ==
  /\ read = [r \in Reader |-> read[r]]
  /\ \A r \in Reader : ReadOK(read[r], protocol, standing)

LEMMA ReleaseForProtocol ==
  ASSUME NEW kind, NEW rows, NEW roles, NEW u
  PROVE  Release(kind, rows, roles, u) = ReleaseFor(protocol, kind, rows, roles, u)
BY DEF Release, ReleaseFor, Preview

\* No mapping yields a claim of the user's own identity.
LEMMA OidcNames ==
  ASSUME NEW rows, NEW roles, NEW u, NEW a \in OidcRelease(rows, roles, u)
  PROVE  a[1] \notin Standard
<1> DEFINE mine == {row \in rows : row.target \notin Reserved \cup {None}}
           values == [row \in mine |-> OidcValues(row, roles, u)]
           mapped == ClaimSet(values)
<1>1. a \in mapped \/ a \in {<<"groups", g>> : g \in {g \in {u.groups} :
                               g # {} /\ \A b \in mapped : b[1] # "groups"}}
  BY DEF OidcRelease
<1>2. CASE a \in mapped
  <2>1. PICK row \in DOMAIN values : a = <<row.target, values[row]>>
    BY <1>2 DEF ClaimSet
  <2>2. a[1] = row.target /\ row \in mine
    BY <2>1
  <2> QED
    BY <2>2 DEF Reserved, Standard
<1>3. CASE a \notin mapped
  <2>1. a[1] = "groups"
    BY <1>1, <1>3
  <2> QED
    BY <2>1 DEF Standard
<1> QED
  BY <1>2, <1>3

LEMMA StandardNames ==
  ASSUME NEW u, NEW scopes, NEW claim \in StandardClaims(u, scopes)
  PROVE  claim[1] \in Standard
<1>1. claim \in {<<"email", u.email>>, <<"email_verified", u.verified>>,
                 <<"given_name", u.given>>, <<"name", u.full>>,
                 <<"preferred_username", u.email>>}
  BY DEF StandardClaims
<1> QED
  BY <1>1 DEF Standard

LEMMA NoReadOK ==
  ASSUME NEW proto, NEW rows
  PROVE  ReadOK(NoRead, proto, rows)
BY DEF NoRead, ReadOK, IsRead

LEMMA ReadInitial == AppInit => ReadInv
<1> SUFFICES ASSUME AppInit PROVE ReadInv
  OBVIOUS
<1>1. read = [r \in Reader |-> NoRead]
  BY DEF AppInit, Init, MappingInit
<1> QED
  BY <1>1, NoReadOK DEF ReadInv

\* An evaluation that is not calm promises nothing about the rows.
LEMMA NotCalm ==
  ASSUME NEW x, NEW proto, NEW rows, NEW other, ReadOK(x, proto, rows)
  PROVE  /\ ~x.calm => ReadOK(x, proto, other)
         /\ ReadOK([x EXCEPT !.calm = FALSE], proto, other)
<1>1. ~x.calm => ReadOK(x, proto, other)
  BY DEF ReadOK
<1> DEFINE y == [x EXCEPT !.calm = FALSE]
<1>2. /\ IsRead(y) /\ y.pc = x.pc /\ y.kind = x.kind /\ y.user = x.user /\ y.failed = x.failed
      /\ y.standard = x.standard /\ y.out = x.out /\ y.calm = FALSE
  BY DEF ReadOK, IsRead
<1> HIDE DEF y
<1>3. ReadOK(y, proto, other)
  BY <1>2 DEF ReadOK
<1> QED
  BY <1>1, <1>3 DEF y

\* One evaluation changes while the rows stay.
LEMMA OneRead ==
  ASSUME ReadInv, NEW r \in Reader, NEW x, ReadOK(x, protocol, standing),
         read' = [read EXCEPT ![r] = x], UNCHANGED <<protocol, standing>>
  PROVE  ReadInv'
<1>1. read' = [q \in Reader |-> IF q = r THEN x ELSE read[q]]
  BY DEF ReadInv
<1> QED
  BY <1>1 DEF ReadInv

LEMMA ReadStarts ==
  ASSUME ReadInv, NEW r \in Reader, NEW kind, UNCHANGED <<protocol, standing>>,
         NEW standard, standard # {} => kind = "oidc",
         \A claim \in standard : claim[1] \in Standard, NEW calm,
         calm = \A t \in Table : standing[t] # None,
         NEW x, IsRead(x), x.pc = "claims", x.kind = kind, x.standard = standard,
         x.calm = calm, x.failed = FALSE, read' = [read EXCEPT ![r] = x]
  PROVE  ReadInv'
<1>1. calm => standing["claims"] # None /\ standing["roles"] # None
  BY DEF Table
<1>2. ReadOK(x, protocol, standing)
  BY <1>1 DEF ReadOK
<1> QED
  BY <1>2, OneRead

LEMMA ClaimsRead ==
  ASSUME RowsInv, ReadInv, NEW r \in Reader, GetClaimMappings(r)
  PROVE  ReadInv'
<1> DEFINE j == read[r]
<1>1. ReadOK(j, protocol, standing) /\ j.pc = "claims" /\ UNCHANGED <<protocol, standing>>
  BY DEF ReadInv, GetClaimMappings
<1>2. j.calm => stored["claims"] = standing["claims"]
  BY <1>1 DEF ReadOK, RowsInv, StandingOK, Table
<1>3. CASE read' = [read EXCEPT ![r].pc = "roles", ![r].claims = stored["claims"]]
  <2> DEFINE x == [j EXCEPT !.pc = "roles", !.claims = stored["claims"]]
  <2>1. /\ IsRead(x) /\ x.pc = "roles" /\ x.claims = stored["claims"] /\ x.calm = j.calm
        /\ x.kind = j.kind /\ x.failed = j.failed /\ x.standard = j.standard
    BY <1>1 DEF ReadOK, IsRead
  <2>2. read' = [read EXCEPT ![r] = x]
    BY <1>3 DEF ReadInv
  <2> HIDE DEF x
  <2>3. ReadOK(x, protocol, standing)
    BY <1>1, <1>2, <2>1 DEF ReadOK
  <2> QED
    BY <1>1, <2>2, <2>3, OneRead
<1>4. CASE /\ j.kind = "metadata"
           /\ read' = [read EXCEPT ![r].pc = "done", ![r].out = Announced(stored["claims"])]
  <2> DEFINE x == [j EXCEPT !.pc = "done", !.out = Announced(stored["claims"])]
  <2>1. /\ IsRead(x) /\ x.pc = "done" /\ x.out = Announced(stored["claims"]) /\ x.calm = j.calm
        /\ x.kind = "metadata" /\ x.failed = j.failed /\ x.standard = j.standard
    BY <1>1, <1>4 DEF ReadOK, IsRead
  <2>2. read' = [read EXCEPT ![r] = x]
    BY <1>4 DEF ReadInv
  <2>3. ReleaseFor(protocol, "metadata", standing["claims"], standing["roles"], x.user)
          = Announced(standing["claims"])
    BY DEF ReleaseFor
  <2> HIDE DEF x
  <2>4. ReadOK(x, protocol, standing)
    BY <1>1, <1>2, <1>4, <2>1, <2>3 DEF ReadOK
  <2> QED
    BY <1>1, <2>2, <2>4, OneRead
<1>5. CASE j.kind = "preview" /\ read' = [read EXCEPT ![r] = NoRead]
  BY <1>1, <1>5, NoReadOK, OneRead
<1>6. CASE /\ j.kind # "preview"
           /\ read' = [read EXCEPT ![r] =
                [j EXCEPT !.pc = "done", !.failed = TRUE,
                          !.out = IF j.kind = "oidc" THEN OidcRelease({}, {}, j.user) ELSE {}]]
  <2> DEFINE out == IF j.kind = "oidc" THEN OidcRelease({}, {}, j.user) ELSE {}
             x == [j EXCEPT !.pc = "done", !.failed = TRUE, !.out = out]
  <2>1. /\ IsRead(x) /\ x.pc = "done" /\ x.out = out /\ x.calm = j.calm
        /\ x.kind = j.kind /\ x.failed = TRUE /\ x.standard = j.standard
    BY <1>1 DEF ReadOK, IsRead
  <2>2. \A a \in out : a[1] \notin Standard
    BY OidcNames
  <2>3. j.kind # "oidc" => out = {}
    OBVIOUS
  <2>4. read' = [read EXCEPT ![r] = x]
    BY <1>6
  <2> HIDE DEF x, out
  <2>5. ReadOK(x, protocol, standing)
    BY <1>1, <2>1, <2>2, <2>3 DEF ReadOK
  <2> QED
    BY <1>1, <2>4, <2>5, OneRead
<1> QED
  BY <1>3, <1>4, <1>5, <1>6 DEF GetClaimMappings

LEMMA RolesRead ==
  ASSUME RowsInv, ReadInv, NEW r \in Reader, GetRoleMappings(r)
  PROVE  ReadInv'
<1> DEFINE j == read[r]
<1>1. ReadOK(j, protocol, standing) /\ j.pc = "roles" /\ UNCHANGED <<protocol, standing>>
  BY DEF ReadInv, GetRoleMappings
<1>2. j.calm => j.claims = standing["claims"] /\ stored["roles"] = standing["roles"]
  BY <1>1 DEF ReadOK, RowsInv, StandingOK, Table
<1>3. CASE read' = [read EXCEPT ![r].pc = "done",
                      ![r].out = Release(j.kind, j.claims, stored["roles"], j.user)]
  <2> DEFINE out == Release(j.kind, j.claims, stored["roles"], j.user)
             x == [j EXCEPT !.pc = "done", !.out = out]
  <2>1. /\ IsRead(x) /\ x.pc = "done" /\ x.out = out /\ x.calm = j.calm
        /\ x.kind = j.kind /\ x.failed = j.failed /\ x.standard = j.standard
        /\ x.user = j.user
    BY <1>1 DEF ReadOK, IsRead
  <2>2. read' = [read EXCEPT ![r] = x]
    BY <1>3 DEF ReadInv
  <2>3. out = ReleaseFor(protocol, j.kind, j.claims, stored["roles"], j.user)
    BY ReleaseForProtocol
  <2>4. j.kind = "oidc" => out = OidcRelease(j.claims, stored["roles"], j.user)
    BY DEF Release
  <2>5. j.kind = "oidc" => \A a \in out : a[1] \notin Standard
    BY <2>4, OidcNames
  <2> HIDE DEF x, out
  <2>6. ReadOK(x, protocol, standing)
    BY <1>1, <1>2, <2>1, <2>3, <2>5 DEF ReadOK
  <2> QED
    BY <1>1, <2>2, <2>6, OneRead
<1>4. CASE j.kind = "preview" /\ read' = [read EXCEPT ![r] = NoRead]
  BY <1>1, <1>4, NoReadOK, OneRead
<1>5. CASE /\ j.kind # "preview"
           /\ read' = [read EXCEPT ![r] =
                [j EXCEPT !.pc = "done", !.failed = TRUE,
                          !.out = IF j.kind = "oidc"
                                  THEN OidcRelease(j.claims, {}, j.user) ELSE {}]]
  <2> DEFINE out == IF j.kind = "oidc" THEN OidcRelease(j.claims, {}, j.user) ELSE {}
             x == [j EXCEPT !.pc = "done", !.failed = TRUE, !.out = out]
  <2>1. /\ IsRead(x) /\ x.pc = "done" /\ x.out = out /\ x.calm = j.calm
        /\ x.kind = j.kind /\ x.failed = TRUE /\ x.standard = j.standard
    BY <1>1 DEF ReadOK, IsRead
  <2>2. \A a \in out : a[1] \notin Standard
    BY OidcNames
  <2>3. j.kind # "oidc" => out = {}
    OBVIOUS
  <2>4. read' = [read EXCEPT ![r] = x]
    BY <1>5
  <2> HIDE DEF x, out
  <2>5. ReadOK(x, protocol, standing)
    BY <1>1, <2>1, <2>2, <2>3 DEF ReadOK
  <2> QED
    BY <1>1, <2>4, <2>5, OneRead
<1> QED
  BY <1>3, <1>4, <1>5 DEF GetRoleMappings

LEMMA RowStepReads ==
  ASSUME RowsInv, ReadInv, RowStep
  PROVE  ReadInv'
<1>1. protocol' = protocol
  BY DEF RowStep, StartPut, DeleteOld, PutNext, FinishPut, AbandonPut
<1>2. ASSUME NEW p \in Putter, NEW t \in Table, NEW body \in BodyOf(t), StartPut(p, t, body)
      PROVE  ReadInv'
  <2>1. read' = [r \in Reader |-> [read[r] EXCEPT !.calm = FALSE]]
    BY <1>2 DEF StartPut
  <2>2. \A r \in Reader : ReadOK([read[r] EXCEPT !.calm = FALSE], protocol, standing')
    BY NotCalm DEF ReadInv
  <2> QED
    BY <1>1, <2>1, <2>2 DEF ReadInv
<1>3. ASSUME NEW p \in Putter, DeleteOld(p) \/ PutNext(p) \/ AbandonPut(p)
      PROVE  ReadInv'
  BY <1>1, <1>3 DEF DeleteOld, PutNext, AbandonPut, ReadInv
<1>4. ASSUME NEW p \in Putter, FinishPut(p)
      PROVE  ReadInv'
  <2>1. put[p].pc = "replace" /\ UNCHANGED read
    BY <1>4 DEF FinishPut
  <2>2. put[p].table \in Table /\ standing[put[p].table] = None
    BY <2>1, PutFields DEF RowsInv, RowTypes, PutOK
  <2>3. \A r \in Reader : ~read[r].calm
    BY <2>2 DEF ReadInv, ReadOK, Table
  <2>4. \A r \in Reader : ReadOK(read[r], protocol, standing')
    BY <2>3, NotCalm DEF ReadInv
  <2> QED
    BY <1>1, <2>1, <2>4 DEF ReadInv
<1> QED
  BY <1>2, <1>3, <1>4 DEF RowStep

LEMMA ReadStepReads ==
  ASSUME RowsInv, ReadInv, ReadStep, UNCHANGED <<protocol, stored, put, standing>>
  PROVE  ReadInv'
<1>1. CASE UNCHANGED read
  BY <1>1 DEF ReadInv
<1>2. ASSUME NEW r \in Reader, NEW kind \in {"saml", "preview", "metadata"}, NEW u,
             BeginRead(r, kind, u)
      PROVE  ReadInv'
  <2> DEFINE calm == \A t \in Table : standing[t] # None
             x == [NoRead EXCEPT !.pc = "claims", !.kind = kind, !.user = u, !.calm = calm]
  <2>1. read' = [read EXCEPT ![r] = x]
    BY <1>2 DEF BeginRead
  <2>2. calm = \A t \in Table : standing[t] # None
    OBVIOUS
  <2> HIDE DEF calm
  <2>3. /\ IsRead(x) /\ x.pc = "claims" /\ x.kind = kind /\ x.standard = {}
        /\ x.calm = calm /\ x.failed = FALSE
    BY DEF NoRead, IsRead
  <2> HIDE DEF x
  <2> QED
    BY <2>1, <2>2, <2>3, ReadStarts
<1>3. ASSUME NEW r \in Reader, NEW u, NEW scopes, StartToken(r, u, scopes)
      PROVE  ReadInv'
  <2> DEFINE calm == \A t \in Table : standing[t] # None
             standard == StandardClaims(u, scopes)
             x == [NoRead EXCEPT !.pc = "claims", !.kind = "oidc", !.user = u,
                                 !.standard = standard, !.calm = calm]
  <2>1. read' = [read EXCEPT ![r] = x]
    BY <1>3 DEF StartToken
  <2>2. calm = \A t \in Table : standing[t] # None
    OBVIOUS
  <2>3. \A claim \in standard : claim[1] \in Standard
    BY StandardNames
  <2> HIDE DEF calm, standard
  <2>4. /\ IsRead(x) /\ x.pc = "claims" /\ x.kind = "oidc" /\ x.standard = standard
        /\ x.calm = calm /\ x.failed = FALSE
    BY DEF NoRead, IsRead
  <2> HIDE DEF x
  <2> QED
    BY <2>1, <2>2, <2>3, <2>4, ReadStarts
<1>4. ASSUME NEW r \in Reader, NEW x \in {NoRead, read[r]}, read' = [read EXCEPT ![r] = x]
      PROVE  ReadInv'
  <2>1. ReadOK(x, protocol, standing)
    BY <1>4, NoReadOK DEF ReadInv
  <2> QED
    BY <1>4, <2>1, OneRead
<1> QED
  BY <1>1, <1>2, <1>3, <1>4, ClaimsRead, RolesRead DEF ReadStep

\* An evaluation that began on the rows PUTs asked for and saw no others change
\* releases what its evaluator makes of those rows, and one that failed to read
\* them releases nothing in an assertion or metadata; no mapped claim has the
\* name of a standard one (assertion_maker.go:120, storage.go:993).
THEOREM ReadInvariance == AppSpec => []ReadInv
<1>1. RowsInv /\ ReadInv /\ [AppNext]_allVars => ReadInv'
  BY RowSteps, RowStepReads, ReadStepReads
<1> QED
  BY <1>1, ReadInitial, RowsInvariance, PTL DEF AppSpec

\* ReleaseFollowsPut: an evaluation between two PUTs goes by the last one, if
\* that one ran alone and no call of it failed, whatever torn replacements came
\* before; one that could not read the mappings releases nothing in an
\* assertion or metadata; and no mapping shadows a claim of the user's own
\* identity (claim_store.go:49, assertion_maker.go:120, storage.go:993).
THEOREM PutIsFollowed == AppSpec => []ReleaseFollowsPut
<1>1. ReadInv => ReleaseFollowsPut
  <2> SUFFICES ASSUME ReadInv, NEW r \in Reader, read[r].pc = "done"
               PROVE  /\ read[r].calm /\ ~read[r].failed =>
                           read[r].out = Release(read[r].kind, standing["claims"],
                                                 standing["roles"], read[r].user)
                      /\ read[r].kind \in {"saml", "metadata"} /\ read[r].failed =>
                           read[r].out = {}
                      /\ \A claim \in read[r].standard, a \in read[r].out : a[1] # claim[1]
    BY DEF ReleaseFollowsPut
  <2>1. ReadOK(read[r], protocol, standing)
    BY DEF ReadInv
  <2>2. Release(read[r].kind, standing["claims"], standing["roles"], read[r].user)
          = ReleaseFor(protocol, read[r].kind, standing["claims"], standing["roles"],
                       read[r].user)
    BY ReleaseForProtocol
  <2> QED
    BY <2>1, <2>2 DEF ReadOK
<1> QED
  BY <1>1, ReadInvariance, PTL

-----------------------------------------------------------------------------
(* SAML configurations and responses *)

After == {"session", "assert", "attributes", "send", "sent"}
Settled == After \ {"session"}

IsResp(x) ==
  x \in [pc : {x.pc}, user : {x.user}, minted : {x.minted}, session : {x.session},
         sp : {x.sp}, live : {x.live}, clear : {x.clear}]
IsEdit(x) == x \in [pc : {x.pc}, input : {x.input}, previous : {x.previous}]

\* A NameID names its user by a verified address, by the sub, or by nothing.
NameOK(id, u) ==
  \/ id.format = Short["email"] /\ EmailUsable(u) /\ id.value = u.email
  \/ id.format \notin {Short["email"], Short["transient"]} /\ id.value = u.sub
  \/ id.format = Short["transient"]

SessionOK(s) ==
  s.user \in User /\ s.life \in MinLife..MaxLife /\ NameOK(s.nameID, s.user)

ConfigOK(c) == c # None => c.life \in Int /\ c.acs \in Location /\ c.slo \in Location

EditOK(x) ==
  /\ IsEdit(x)
  /\ x.pc \in {"idle", "write"}
  /\ x.pc = "write" =>
       x.input \in Edit /\ (x.input.life = 0 \/ x.input.life \in MinLife..MaxLife)

RespOK(x) ==
  /\ IsResp(x)
  /\ x.minted # None => SessionOK(x.minted)
  /\ x.user # None => x.user \in User
  /\ x.pc = "mint" => x.user \in User
  /\ x.pc \notin Settled => x.session = None
  /\ x.pc \in Settled => SessionOK(x.session) /\ (x.minted # None => x.session = x.minted)
  /\ x.pc \in After => x.live
  /\ x.pc = "sent" => x.clear = (EncryptionKey(x.sp) = None)

\* Nothing is under way before the application exists, and no response is made
\* for an application of the other protocol.
IdleOK ==
  /\ app = "none" => /\ cfg = None /\ imported = None
                     /\ \A e \in Editor : edit[e].pc = "idle"
                     /\ \A r \in Reader : resp[r].pc = "idle"
  /\ protocol # "saml" => \A r \in Reader : resp[r].pc = "idle"

LiveOK == app = "active" => \A r \in Reader : resp[r].pc # "idle" => resp[r].live

\* The imported certificate is in the row, in every copy an update will write
\* back, and in the descriptor of every response under way.
CertOK == imported # None =>
  /\ cfg.cert = imported
  /\ \A e \in Editor : edit[e].pc = "write" /\ edit[e].previous # None =>
       edit[e].previous.cert = imported
  /\ \A r \in Reader : resp[r].pc \in After => resp[r].sp.cert = imported

CookieOK == cookie # None => SessionOK(cookie) /\ cookie.user = signedIn

NamedOK == named # None =>
  /\ named.user \in User /\ NameOK(named.id, named.user)
  /\ named.id.format # Short["transient"]

ResponseInv ==
  /\ edit = [e \in Editor |-> edit[e]] /\ \A e \in Editor : EditOK(edit[e])
  /\ resp = [r \in Reader |-> resp[r]] /\ \A r \in Reader : RespOK(resp[r])
  /\ ConfigOK(cfg) /\ IdleOK /\ LiveOK /\ CertOK /\ CookieOK /\ NamedOK

LEMMA Lives ==
  /\ MinLife \in Nat /\ MaxLife \in Nat /\ 0 < MinLife
  /\ ApiLife \in MinLife..MaxLife /\ DefaultLife \in MinLife..MaxLife
  /\ MinLife <= MaxLife
BY ResponseAssumption

\* buildSessionFromClaims, whatever the configuration.
LEMMA NewSession ==
  ASSUME NEW u \in User, NEW c, ConfigOK(c)
  PROVE  SessionOK(SessionOf(u, c)) /\ SessionOf(u, c).user = u
<1>1. /\ SessionOf(u, c).user = u /\ SessionOf(u, c).life = Lifetime(c)
      /\ SessionOf(u, c).nameID = NameID(u, c)
  BY DEF SessionOf
<1>2. Lifetime(c) \in MinLife..MaxLife
  BY Lives DEF Lifetime, Clamp, ConfigOK
<1>3. NameOK(NameID(u, c), u)
  <2> DEFINE format == Canonical(IF c = None THEN None ELSE c.format)
             source == IF c = None THEN "sub" ELSE c.source
             Pair(value, code) == [value |-> value, format |-> Short[code]]
  <2> HIDE DEF format, source
  <2>1. CASE format = Short["email"] \/ source = "email"
    <3>1. CASE EmailUsable(u)
      <4>1. NameID(u, c) = Pair(u.email, "email")
        BY <2>1, <3>1, ResponseAssumption DEF NameID, format, source
      <4> QED
        BY <3>1, <4>1 DEF NameOK
    <3>2. CASE ~EmailUsable(u)
      <4>1. NameID(u, c) = Pair(u.sub, "persistent")
        BY <2>1, <3>2, ResponseAssumption DEF NameID, format, source
      <4> QED
        BY <4>1, ResponseAssumption DEF NameOK
    <3> QED
      BY <3>1, <3>2
  <2>2. CASE format # Short["email"] /\ source # "email" /\ format = Short["transient"]
    <3>1. NameID(u, c) = Pair(None, "transient")
      BY <2>2 DEF NameID, format, source
    <3> QED
      BY <3>1 DEF NameOK
  <2>3. CASE format # Short["email"] /\ source # "email" /\ format # Short["transient"]
    <3>1. NameID(u, c) = [value |-> u.sub, format |-> format]
      BY <2>3 DEF NameID, format, source
    <3> QED
      BY <2>3, <3>1 DEF NameOK
  <2> QED
    BY <2>1, <2>2, <2>3
<1> QED
  BY <1>1, <1>2, <1>3 DEF SessionOK

\* Endpoints of requests, and of configurations of older releases.
LEMMA Locations ==
  ASSUME NEW c \in Edit \cup Legacy
  PROVE  c.acs \in Location /\ c.slo \in Location
<1>1. {c.acs, c.slo} \in {{d.acs, d.slo} : d \in Edit \cup Legacy}
  OBVIOUS
<1>2. {c.acs, c.slo} \subseteq UNION {{d.acs, d.slo} : d \in Edit \cup Legacy}
  BY <1>1
<1> QED
  BY <1>2 DEF Location

LEMMA NoRespOK == RespOK(NoResp) /\ NoResp.pc = "idle"
BY DEF NoResp, RespOK, IsResp, Settled, After

LEMMA NoEditOK == EditOK(NoEdit) /\ NoEdit.pc = "idle"
BY DEF NoEdit, EditOK, IsEdit

LEMMA ResponseInitial == AppInit => ResponseInv
<1> SUFFICES ASSUME AppInit PROVE ResponseInv
  OBVIOUS
<1>1. /\ cfg \in Legacy \cup {None} /\ app = (IF cfg = None THEN "none" ELSE "active")
      /\ edit = [e \in Editor |-> NoEdit] /\ resp = [r \in Reader |-> NoResp]
      /\ cookie = None /\ imported = None /\ named = None
  BY DEF AppInit, Init
<1>2. ConfigOK(cfg)
  BY <1>1, ResponseAssumption, Locations DEF ConfigOK
<1> QED
  BY <1>1, <1>2, NoRespOK, NoEditOK DEF ResponseInv, IdleOK, LiveOK, CertOK, CookieOK, NamedOK

\* One request changes while the configuration stays.
LEMMA OneResp ==
  ASSUME ResponseInv, NEW r \in Reader, NEW x, RespOK(x), resp' = [resp EXCEPT ![r] = x],
         UNCHANGED <<protocol, app, configVars>>,
         x.pc # "idle" => app # "none" /\ protocol = "saml" /\ (app = "active" => x.live),
         imported # None /\ x.pc \in After => x.sp.cert = imported,
         CookieOK', NamedOK'
  PROVE  ResponseInv'
<1>1. resp' = [q \in Reader |-> IF q = r THEN x ELSE resp[q]]
  BY DEF ResponseInv
<1>2. \A q \in Reader : resp'[q] = IF q = r THEN x ELSE resp[q]
  BY <1>1
<1>3. UNCHANGED <<cfg, edit, imported>>
  BY DEF configVars
<1>4. \A q \in Reader : RespOK(resp'[q])
  BY <1>2 DEF ResponseInv
<1>5. IdleOK'
  BY <1>2, <1>3 DEF ResponseInv, IdleOK
<1>6. LiveOK'
  BY <1>2, <1>3 DEF ResponseInv, LiveOK
<1>7. CertOK'
  BY <1>2, <1>3 DEF ResponseInv, CertOK
<1> QED
  BY <1>1, <1>3, <1>4, <1>5, <1>6, <1>7 DEF ResponseInv

\* Import and Create, for an application that did not exist.
LEMMA FirstConfig ==
  ASSUME ResponseInv, app = "none", app' = "active", ConfigOK(cfg'),
         UNCHANGED <<protocol, edit, responseVars>>,
         imported' # None => cfg'.cert = imported'
  PROVE  ResponseInv'
<1>1. UNCHANGED <<cookie, resp, signedIn, named>>
  BY DEF responseVars
<1>2. /\ \A e \in Editor : edit'[e].pc = "idle"
      /\ \A r \in Reader : resp'[r].pc = "idle"
  BY <1>1 DEF ResponseInv, IdleOK
<1>3. IdleOK' /\ LiveOK'
  BY <1>2 DEF IdleOK, LiveOK
<1>4. CertOK'
  BY <1>2 DEF CertOK, After
<1>5. CookieOK' /\ NamedOK'
  BY <1>1 DEF ResponseInv, CookieOK, NamedOK
<1> QED
  BY <1>1, <1>3, <1>4, <1>5 DEF ResponseInv

LEMMA Importing ==
  ASSUME ResponseInv, NEW m \in Metadata, Import(m)
  PROVE  ResponseInv'
<1>1. /\ cfg'.acs = (IF m.acs = <<>> THEN None ELSE Head(m.acs)) /\ cfg'.slo = None
      /\ cfg'.life = ApiLife /\ cfg'.cert = CertOf(m.keys, "encryption")
      /\ imported' = CertOf(m.keys, "encryption")
      /\ app = "none" /\ app' = "active" /\ UNCHANGED <<protocol, edit, responseVars>>
  BY DEF Import, rowVars
<1>2. cfg'.acs \in Location /\ None \in Location
  <2>1. None \in Location
    BY DEF Location
  <2> DEFINE heads == {Head(d.acs) : d \in {d \in Metadata : d.acs # <<>>}}
             others == {None} \cup (UNION {{c.acs, c.slo} : c \in Edit \cup Legacy})
  <2>2. Location = others \cup heads
    BY DEF Location
  <2>3. m.acs # <<>> => Head(m.acs) \in heads
    OBVIOUS
  <2> HIDE DEF heads, others
  <2>4. m.acs # <<>> => Head(m.acs) \in Location
    BY <2>2, <2>3
  <2> QED
    BY <1>1, <2>1, <2>4
<1>3. ConfigOK(cfg')
  BY <1>1, <1>2, Lives DEF ConfigOK
<1> QED
  BY <1>1, <1>3, FirstConfig

LEMMA FromInputFields ==
  ASSUME NEW input \in Edit, NEW previous,
         input.life = 0 \/ input.life \in MinLife..MaxLife
  PROVE  /\ ConfigOK(FromInput(input, previous))
         /\ previous # None => FromInput(input, previous).cert = previous.cert
<1>1. /\ FromInput(input, previous).acs = input.acs
      /\ FromInput(input, previous).slo = input.slo
      /\ FromInput(input, previous).cert = IF previous = None THEN None ELSE previous.cert
      /\ FromInput(input, previous).life = IF input.life = 0 THEN ApiLife ELSE input.life
  BY DEF FromInput
<1> QED
  BY <1>1, Locations, Lives DEF ConfigOK

LEMMA ConfigCreated ==
  ASSUME ResponseInv, NEW input \in Edit, Create(input)
  PROVE  ResponseInv'
<1>1. /\ app = "none" /\ app' = "active" /\ UNCHANGED <<protocol, edit, responseVars>>
      /\ imported' = imported /\ cfg' = FromInput(input, None) /\ ValidInput(input, None)
  BY DEF Create, rowVars
<1>2. imported' = None
  BY <1>1 DEF ResponseInv, IdleOK
<1>3. ConfigOK(cfg')
  BY <1>1, FromInputFields DEF ValidInput
<1> QED
  BY <1>1, <1>2, <1>3, FirstConfig

\* One update changes.
LEMMA OneEdit ==
  ASSUME ResponseInv, NEW e \in Editor, NEW x, EditOK(x), edit' = [edit EXCEPT ![e] = x],
         UNCHANGED <<protocol, app, responseVars>>, app # "none", ConfigOK(cfg'),
         imported' # None =>
           /\ imported' = imported /\ cfg'.cert = imported
           /\ x.pc = "write" /\ x.previous # None => x.previous.cert = imported
  PROVE  ResponseInv'
<1>1. edit' = [f \in Editor |-> IF f = e THEN x ELSE edit[f]]
  BY DEF ResponseInv
<1>2. \A f \in Editor : edit'[f] = IF f = e THEN x ELSE edit[f]
  BY <1>1
<1>3. UNCHANGED <<cookie, resp, signedIn, named>>
  BY DEF responseVars
<1>4. \A f \in Editor : EditOK(edit'[f])
  BY <1>2 DEF ResponseInv
<1>5. IdleOK' /\ LiveOK'
  BY <1>3 DEF ResponseInv, IdleOK, LiveOK
<1>6. CertOK'
  BY <1>2, <1>3 DEF ResponseInv, CertOK
<1>7. CookieOK' /\ NamedOK'
  BY <1>3 DEF ResponseInv, CookieOK, NamedOK
<1> QED
  BY <1>1, <1>3, <1>4, <1>5, <1>6, <1>7 DEF ResponseInv

LEMMA UpdateStarts ==
  ASSUME ResponseInv, NEW e \in Editor, NEW input \in Edit, StartUpdate(e, input)
  PROVE  ResponseInv'
<1>1. PICK previous \in {cfg, None} :
        /\ ValidInput(input, previous)
        /\ edit' = [edit EXCEPT ![e] = [pc |-> "write", input |-> input,
                                        previous |-> previous]]
  BY DEF StartUpdate
<1>2. /\ cfg # None /\ UNCHANGED <<protocol, app, cfg, imported, responseVars>>
  BY DEF StartUpdate, mappingVars, rowVars
<1>3. app # "none"
  BY <1>2 DEF ResponseInv, IdleOK
<1> DEFINE x == [pc |-> "write", input |-> input, previous |-> previous]
<1>4. IsEdit(x) /\ x.pc = "write" /\ x.input = input /\ x.previous = previous
  BY DEF IsEdit
<1>5. edit' = [edit EXCEPT ![e] = x]
  BY <1>1
<1> HIDE DEF x
<1>6. EditOK(x)
  BY <1>1, <1>4 DEF EditOK, ValidInput
<1>7. imported' # None /\ x.previous # None => x.previous.cert = imported
  BY <1>2, <1>4 DEF ResponseInv, CertOK
<1>8. ConfigOK(cfg') /\ (imported' # None => imported' = imported /\ cfg'.cert = imported)
  BY <1>2 DEF ResponseInv, CertOK
<1> QED
  BY <1>2, <1>3, <1>5, <1>6, <1>7, <1>8, OneEdit

LEMMA ConfigWritten ==
  ASSUME ResponseInv, NEW e \in Editor, WriteConfig(e)
  PROVE  ResponseInv'
<1>1. /\ edit[e].pc = "write" /\ cfg' = FromInput(edit[e].input, edit[e].previous)
      /\ imported' = (IF edit[e].previous = None THEN None ELSE imported)
      /\ edit' = [edit EXCEPT ![e] = NoEdit] /\ UNCHANGED <<protocol, app, responseVars>>
  BY DEF WriteConfig, mappingVars, rowVars
<1>2. /\ edit[e].input \in Edit
      /\ edit[e].input.life = 0 \/ edit[e].input.life \in MinLife..MaxLife
  BY <1>1 DEF ResponseInv, EditOK
<1>3. /\ ConfigOK(cfg')
      /\ edit[e].previous # None => cfg'.cert = edit[e].previous.cert
  BY <1>1, <1>2, FromInputFields
<1>4. imported' # None => imported' = imported /\ cfg'.cert = imported
  BY <1>1, <1>3 DEF ResponseInv, CertOK
<1>5. app # "none"
  BY <1>1 DEF ResponseInv, IdleOK
<1> QED
  BY <1>1, <1>3, <1>4, <1>5, NoEditOK, OneEdit

LEMMA StatusSet ==
  ASSUME ResponseInv, NEW status \in {"active", "disabled"}, SetStatus(status)
  PROVE  ResponseInv'
<1>1. /\ protocol = "saml" /\ app # "none" /\ app' = status
      /\ UNCHANGED <<protocol, cfg, edit, imported, cookie, signedIn, named>>
      /\ resp' = [r \in Reader |-> [resp[r] EXCEPT !.live = @ \/
                                      (resp[r].pc # "idle" /\ status = "active")]]
  BY DEF SetStatus, rowVars
<1>2. \A r \in Reader :
        /\ IsResp(resp'[r]) /\ resp'[r].pc = resp[r].pc /\ resp'[r].user = resp[r].user
        /\ resp'[r].minted = resp[r].minted /\ resp'[r].session = resp[r].session
        /\ resp'[r].sp = resp[r].sp /\ resp'[r].clear = resp[r].clear
        /\ resp'[r].live = (resp[r].live \/ (resp[r].pc # "idle" /\ status = "active"))
  <2> TAKE r \in Reader
  <2> DEFINE live == resp[r].live \/ (resp[r].pc # "idle" /\ status = "active")
  <2>1. resp'[r] = [resp[r] EXCEPT !.live = live] /\ IsResp(resp[r])
    BY <1>1 DEF ResponseInv, RespOK
  <2> HIDE DEF live
  <2>2. /\ IsResp(resp'[r]) /\ resp'[r].pc = resp[r].pc /\ resp'[r].user = resp[r].user
        /\ resp'[r].minted = resp[r].minted /\ resp'[r].session = resp[r].session
        /\ resp'[r].sp = resp[r].sp /\ resp'[r].clear = resp[r].clear
        /\ resp'[r].live = live
    BY <2>1 DEF IsResp
  <2> QED
    BY <2>2 DEF live
<1>3. \A r \in Reader : RespOK(resp'[r])
  <2> TAKE r \in Reader
  <2>1. RespOK(resp[r])
    BY DEF ResponseInv
  <2>2. resp[r].live => resp'[r].live
    BY <1>2
  <2>3. /\ IsResp(resp'[r]) /\ resp'[r].pc = resp[r].pc /\ resp'[r].user = resp[r].user
        /\ resp'[r].minted = resp[r].minted /\ resp'[r].session = resp[r].session
        /\ resp'[r].sp = resp[r].sp /\ resp'[r].clear = resp[r].clear
    BY <1>2
  <2> QED
    BY <2>1, <2>2, <2>3 DEF RespOK
<1>4. IdleOK' /\ LiveOK'
  BY <1>1, <1>2 DEF ResponseInv, IdleOK, LiveOK
<1>5. CertOK'
  BY <1>1, <1>2 DEF ResponseInv, CertOK
<1>6. CookieOK' /\ NamedOK'
  BY <1>1 DEF ResponseInv, CookieOK, NamedOK
<1> QED
  BY <1>1, <1>3, <1>4, <1>5, <1>6 DEF ResponseInv

LEMMA KeepFrame ==
  ASSUME Keep PROVE UNCHANGED <<protocol, app, configVars>>
BY DEF Keep, mappingVars, rowVars

LEMMA Refused ==
  ASSUME ResponseInv, NEW r \in Reader, Refuse(r), UNCHANGED <<protocol, app, configVars>>,
         CookieOK', NamedOK'
  PROVE  ResponseInv'
BY NoRespOK, OneResp DEF Refuse, After

\* A request enters with a user's token or a session of a login.
LEMMA Served ==
  ASSUME ResponseInv, NEW r \in Reader, NEW pc \in {"resolve", "mint"}, NEW user, NEW session,
         Serve(r, pc, user, session), UNCHANGED <<protocol, app, configVars>>,
         app # "none", protocol = "saml", user # None => user \in User,
         pc = "mint" => user \in User, session # None => SessionOK(session),
         CookieOK', NamedOK'
  PROVE  ResponseInv'
<1> DEFINE live == app = "active"
           x == [NoResp EXCEPT !.pc = pc, !.user = user, !.minted = session, !.live = live]
<1>1. resp' = [resp EXCEPT ![r] = x]
  BY DEF Serve
<1>2. app = "active" => live
  OBVIOUS
<1> HIDE DEF live
<1>3. /\ IsResp(x) /\ x.pc = pc /\ x.user = user /\ x.minted = session /\ x.session = None
      /\ x.live = live
  BY DEF NoResp, IsResp
<1> HIDE DEF x
<1>4. pc \notin After
  BY DEF After
<1>5. RespOK(x)
  BY <1>3, <1>4 DEF RespOK, Settled
<1> QED
  BY <1>1, <1>2, <1>3, <1>4, <1>5, OneResp

\* Requests under way belong to an existing SAML application.
LEMMA Underway ==
  ASSUME ResponseInv, NEW r \in Reader, resp[r].pc # "idle"
  PROVE  /\ app # "none" /\ protocol = "saml" /\ RespOK(resp[r])
         /\ app = "active" => resp[r].live
BY DEF ResponseInv, IdleOK, LiveOK

LEMMA SSOServed ==
  ASSUME ResponseInv, protocol = "saml", NEW r \in Reader, ServeSSO(r)
  PROVE  ResponseInv'
<1>1. PICK u \in User \cup {None} : Serve(r, "resolve", u, None)
  BY DEF ServeSSO
<1>2. app # "none" /\ Keep /\ UNCHANGED <<cookie, signedIn, named>>
  BY DEF ServeSSO
<1>3. CookieOK' /\ NamedOK'
  BY <1>2 DEF ResponseInv, CookieOK, NamedOK
<1> QED
  BY <1>1, <1>2, <1>3, KeepFrame, Served

\* A read of the configuration returns it, or nothing.
LEMMA ConfigReadOK ==
  ASSUME ResponseInv, NEW c \in ConfigRead
  PROVE  ConfigOK(c)
BY DEF ResponseInv, ConfigOK, ConfigRead

LEMMA LoginFinished ==
  ASSUME ResponseInv, protocol = "saml", NEW r \in Reader, NEW u \in User, FinishLogin(r, u)
  PROVE  ResponseInv'
<1>1. PICK c \in {cfg, None} : /\ cookie' = SessionOf(u, c)
                               /\ Serve(r, "resolve", u, SessionOf(u, c))
  BY DEF FinishLogin, ConfigRead
<1>2. app # "none" /\ Keep /\ signedIn' = u /\ UNCHANGED named
  BY DEF FinishLogin
<1>3. ConfigOK(c)
  BY DEF ResponseInv, ConfigOK
<1>4. SessionOK(SessionOf(u, c)) /\ SessionOf(u, c).user = u
  BY <1>3, NewSession
<1>5. CookieOK' /\ NamedOK'
  BY <1>1, <1>2, <1>4 DEF ResponseInv, CookieOK, NamedOK
<1> QED
  BY <1>1, <1>2, <1>4, <1>5, KeepFrame, Served

LEMMA Launched ==
  ASSUME ResponseInv, protocol = "saml", NEW r \in Reader, NEW u \in User, NEW page,
         HandleIdPInitiate(r, u, page)
  PROVE  ResponseInv'
<1>1. cfg # None /\ Keep /\ UNCHANGED <<cookie, signedIn, named>> /\ Serve(r, "mint", u, None)
  BY DEF HandleIdPInitiate
<1>2. app # "none"
  BY <1>1 DEF ResponseInv, IdleOK
<1>3. CookieOK' /\ NamedOK'
  BY <1>1 DEF ResponseInv, CookieOK, NamedOK
<1> QED
  BY <1>1, <1>2, <1>3, KeepFrame, Served

LEMMA LaunchMinted ==
  ASSUME ResponseInv, NEW r \in Reader, MintForLaunch(r)
  PROVE  ResponseInv'
<1>1. resp[r].pc = "mint" /\ Keep /\ UNCHANGED <<cookie, signedIn, named>>
  BY DEF MintForLaunch
<1>2. CookieOK' /\ NamedOK'
  BY <1>1 DEF ResponseInv, CookieOK, NamedOK
<1>3. CASE Refuse(r)
  BY <1>1, <1>2, <1>3, KeepFrame, Refused
<1>4. ASSUME NEW c \in ConfigRead,
             resp' = [resp EXCEPT ![r].pc = "resolve", ![r].minted = SessionOf(resp[r].user, c)]
      PROVE  ResponseInv'
  <2> DEFINE s == SessionOf(resp[r].user, c)
             x == [resp[r] EXCEPT !.pc = "resolve", !.minted = s]
  <2>0. ConfigOK(c)
    BY ConfigReadOK
  <2>1. resp[r].user \in User /\ resp[r].session = None /\ IsResp(resp[r])
    BY <1>1 DEF ResponseInv, RespOK, Settled, After
  <2>2. SessionOK(s)
    BY <2>0, <2>1, NewSession
  <2>3. resp' = [resp EXCEPT ![r] = x]
    BY <1>4 DEF ResponseInv
  <2> HIDE DEF s
  <2>4. /\ IsResp(x) /\ x.pc = "resolve" /\ x.user = resp[r].user /\ x.minted = s
        /\ x.session = None /\ x.live = resp[r].live
    BY <2>1 DEF IsResp
  <2> HIDE DEF x
  <2>5. "resolve" \notin After
    BY DEF After
  <2>6. RespOK(x)
    BY <2>1, <2>2, <2>4, <2>5 DEF RespOK, Settled
  <2> QED
    BY <1>1, <1>2, <2>3, <2>4, <2>5, <2>6, KeepFrame, Underway, OneResp
<1> QED
  BY <1>3, <1>4 DEF MintForLaunch

LEMMA ProviderFound ==
  ASSUME ResponseInv, NEW r \in Reader, GetServiceProvider(r)
  PROVE  ResponseInv'
<1>1. resp[r].pc = "resolve" /\ Keep /\ UNCHANGED <<cookie, signedIn, named>>
  BY DEF GetServiceProvider
<1>2. CookieOK' /\ NamedOK'
  BY <1>1 DEF ResponseInv, CookieOK, NamedOK
<1>3. CASE Refuse(r)
  BY <1>1, <1>2, <1>3, KeepFrame, Refused
<1>4. CASE Servable /\ resp' = [resp EXCEPT ![r].pc = "session", ![r].sp = cfg]
  <2> DEFINE x == [resp[r] EXCEPT !.pc = "session", !.sp = cfg]
  <2>1. app = "active" /\ RespOK(resp[r]) /\ resp[r].live /\ protocol = "saml"
    BY <1>1, <1>4, Underway DEF Servable
  <2>2. resp' = [resp EXCEPT ![r] = x]
    BY <1>4 DEF ResponseInv
  <2>3. /\ IsResp(x) /\ x.pc = "session" /\ x.user = resp[r].user /\ x.minted = resp[r].minted
        /\ x.session = resp[r].session /\ x.live = resp[r].live /\ x.sp = cfg
    BY <2>1 DEF RespOK, IsResp
  <2> HIDE DEF x
  <2>4. RespOK(x)
    BY <1>1, <2>1, <2>3 DEF RespOK, Settled, After
  <2>5. imported # None => x.sp.cert = imported
    BY <2>3 DEF ResponseInv, CertOK
  <2> QED
    BY <1>1, <1>2, <2>1, <2>2, <2>3, <2>4, <2>5, KeepFrame, OneResp
<1> QED
  BY <1>3, <1>4 DEF GetServiceProvider

\* The request settles on a session.
LEMMA SessionSettled ==
  ASSUME ResponseInv, NEW r \in Reader, NEW s, SessionOK(s), resp[r].pc = "session",
         resp[r].minted # None => s = resp[r].minted,
         resp' = [resp EXCEPT ![r].pc = "assert", ![r].session = s],
         UNCHANGED <<protocol, app, configVars>>, CookieOK', NamedOK'
  PROVE  ResponseInv'
<1> DEFINE x == [resp[r] EXCEPT !.pc = "assert", !.session = s]
<1>1. RespOK(resp[r]) /\ app # "none" /\ protocol = "saml"
  BY Underway
<1>2. resp' = [resp EXCEPT ![r] = x]
  BY DEF ResponseInv
<1>3. /\ IsResp(x) /\ x.pc = "assert" /\ x.user = resp[r].user /\ x.minted = resp[r].minted
      /\ x.session = s /\ x.live = resp[r].live /\ x.sp = resp[r].sp
  BY <1>1 DEF RespOK, IsResp
<1> HIDE DEF x
<1>4. RespOK(x) /\ x.live
  BY <1>1, <1>3 DEF RespOK, Settled, After
<1>5. imported # None => x.sp.cert = imported
  BY <1>3 DEF ResponseInv, CertOK, After
<1> QED
  BY <1>1, <1>2, <1>3, <1>4, <1>5, OneResp

LEMMA SessionGot ==
  ASSUME ResponseInv, NEW r \in Reader, GetSession(r)
  PROVE  ResponseInv'
<1>1. resp[r].pc = "session" /\ Keep /\ UNCHANGED named /\ RespOK(resp[r]) /\ NamedOK'
  BY DEF GetSession, ResponseInv, NamedOK
<1>2. CASE /\ resp[r].minted # None \/ cookie # None
           /\ resp' = [resp EXCEPT ![r].pc = "assert", ![r].session =
                         IF resp[r].minted # None THEN resp[r].minted ELSE cookie]
           /\ UNCHANGED <<cookie, signedIn>>
  <2> DEFINE s == IF resp[r].minted # None THEN resp[r].minted ELSE cookie
  <2>1. SessionOK(s) /\ (resp[r].minted # None => s = resp[r].minted)
    BY <1>1, <1>2 DEF ResponseInv, RespOK, CookieOK
  <2>2. CookieOK'
    BY <1>2 DEF ResponseInv, CookieOK
  <2> HIDE DEF s
  <2> QED
    BY <1>1, <1>2, <2>1, <2>2, KeepFrame, SessionSettled DEF s
<1>3. ASSUME NEW c \in ConfigRead,
             resp[r].minted = None /\ cookie = None /\ resp[r].user # None,
             resp' = [resp EXCEPT ![r].pc = "assert",
                                  ![r].session = SessionOf(resp[r].user, c)],
             cookie' = SessionOf(resp[r].user, c) /\ signedIn' = resp[r].user
      PROVE  ResponseInv'
  <2>1. /\ SessionOK(SessionOf(resp[r].user, c))
        /\ SessionOf(resp[r].user, c).user = resp[r].user
    BY <1>1, <1>3, ConfigReadOK, NewSession DEF ResponseInv, RespOK
  <2>2. CookieOK'
    BY <1>3, <2>1 DEF CookieOK
  <2> QED
    BY <1>1, <1>3, <2>1, <2>2, KeepFrame, SessionSettled
<1>4. CASE Refuse(r) /\ UNCHANGED <<cookie, signedIn>>
  <2>1. CookieOK'
    BY <1>4 DEF ResponseInv, CookieOK
  <2> QED
    BY <1>1, <1>4, <2>1, KeepFrame, Refused
<1> QED
  BY <1>2, <1>3, <1>4 DEF GetSession

\* The request goes on to another step of making the assertion.
LEMMA GoesOn ==
  ASSUME ResponseInv, NEW r \in Reader, NEW pc \in {"attributes", "send"},
         resp[r].pc \in {"assert", "attributes"}, Goto(r, pc),
         UNCHANGED <<protocol, app, configVars, cookie, signedIn, named>>
  PROVE  ResponseInv'
<1> DEFINE x == [resp[r] EXCEPT !.pc = pc]
<1>1. RespOK(resp[r]) /\ app # "none" /\ protocol = "saml"
  BY Underway
<1>2. resp' = [resp EXCEPT ![r] = x]
  BY DEF ResponseInv, Goto
<1>3. /\ IsResp(x) /\ x.pc = pc /\ x.user = resp[r].user /\ x.minted = resp[r].minted
      /\ x.session = resp[r].session /\ x.live = resp[r].live /\ x.sp = resp[r].sp
  BY <1>1 DEF RespOK, IsResp
<1> HIDE DEF x
<1>4. RespOK(x) /\ x.live
  BY <1>1, <1>3 DEF RespOK, Settled, After
<1>5. imported # None => x.sp.cert = imported
  BY <1>3 DEF ResponseInv, CertOK, After
<1>6. CookieOK' /\ NamedOK'
  BY DEF ResponseInv, CookieOK, NamedOK
<1> QED
  BY <1>1, <1>2, <1>3, <1>4, <1>5, <1>6, OneResp

LEMMA AssertionMade ==
  ASSUME ResponseInv, NEW r \in Reader, MakeAssertion(r) \/ Attributes(r)
  PROVE  ResponseInv'
<1>1. UNCHANGED <<protocol, app, configVars, cookie, signedIn, named>>
  BY KeepFrame DEF MakeAssertion, Attributes
<1>2. /\ resp[r].pc \in {"assert", "attributes"}
      /\ Goto(r, "attributes") \/ Goto(r, "send")
  BY DEF MakeAssertion, Attributes
<1> QED
  BY <1>1, <1>2, GoesOn

LEMMA ResponseSent ==
  ASSUME ResponseInv, NEW r \in Reader, Send(r)
  PROVE  ResponseInv'
<1> DEFINE clear == EncryptionKey(resp[r].sp) = None
           session == resp[r].session
           x == [resp[r] EXCEPT !.pc = "sent", !.clear = clear]
<1>1. /\ resp[r].pc = "send" /\ Keep /\ UNCHANGED <<cookie, signedIn>>
      /\ resp' = [resp EXCEPT ![r].pc = "sent", ![r].clear = clear]
      /\ named' \in {named} \cup IF session.nameID.format = Short["transient"] THEN {}
                                 ELSE {[id |-> session.nameID, user |-> session.user]}
  BY DEF Send
<1>2. RespOK(resp[r]) /\ app # "none" /\ protocol = "saml"
  BY <1>1, Underway
<1>3. resp' = [resp EXCEPT ![r] = x]
  BY <1>1 DEF ResponseInv
<1>4. clear = (EncryptionKey(resp[r].sp) = None)
  OBVIOUS
<1> HIDE DEF clear
<1>5. /\ IsResp(x) /\ x.pc = "sent" /\ x.user = resp[r].user /\ x.minted = resp[r].minted
      /\ x.session = session /\ x.live = resp[r].live /\ x.sp = resp[r].sp
      /\ x.clear = clear
  BY <1>2 DEF RespOK, IsResp
<1> HIDE DEF x
<1>6. RespOK(x) /\ x.live
  BY <1>1, <1>2, <1>4, <1>5 DEF RespOK, Settled, After
<1>7. imported # None => x.sp.cert = imported
  BY <1>1, <1>5 DEF ResponseInv, CertOK, After
<1>8. SessionOK(session)
  BY <1>1, <1>2 DEF RespOK, Settled, After
<1>9. CookieOK'
  BY <1>1 DEF ResponseInv, CookieOK
<1>10. NamedOK'
  <2>1. CASE named' = named
    BY <2>1 DEF ResponseInv, NamedOK
  <2>2. CASE /\ session.nameID.format # Short["transient"]
             /\ named' = [id |-> session.nameID, user |-> session.user]
    <3>1. named'.id = session.nameID /\ named'.user = session.user
      BY <2>2
    <3> QED
      BY <2>2, <3>1, <1>8 DEF NamedOK, SessionOK
  <2> QED
    BY <1>1, <2>1, <2>2
<1> QED
  BY <1>1, <1>2, <1>3, <1>5, <1>6, <1>7, <1>9, <1>10, KeepFrame, OneResp

LEMMA ResponseOver ==
  ASSUME ResponseInv, NEW r \in Reader, Sent(r)
  PROVE  ResponseInv'
<1>1. Refuse(r) /\ UNCHANGED <<protocol, app, configVars, cookie, signedIn, named>>
  BY DEF Sent
<1>2. CookieOK' /\ NamedOK'
  BY <1>1 DEF ResponseInv, CookieOK, NamedOK
<1> QED
  BY <1>1, <1>2, Refused

\* A cookie lost, or cleared by a logout.
LEMMA CookieCleared ==
  ASSUME ResponseInv, UNCHANGED <<protocol, app, configVars, resp, named>>,
         cookie' = None \/ UNCHANGED <<cookie, signedIn>>
  PROVE  ResponseInv'
<1>1. UNCHANGED <<cfg, edit, imported>>
  BY DEF configVars
<1>2. CookieOK'
  BY DEF ResponseInv, CookieOK
<1>3. IdleOK' /\ LiveOK' /\ CertOK' /\ NamedOK'
  BY <1>1 DEF ResponseInv, IdleOK, LiveOK, CertOK, NamedOK
<1> QED
  BY <1>1, <1>2, <1>3 DEF ResponseInv

LEMMA StatusOfClient ==
  ASSUME ResponseInv, ClientNext, UNCHANGED <<configVars, responseVars, slo>>
  PROVE  ResponseInv'
<1>1. UNCHANGED <<protocol, cfg, edit, imported, cookie, resp, signedIn, named>>
  <2>1. protocol' = protocol
    BY DEF ClientNext, CreateClient, StartClientUpdate, StartRotate, CheckApplication,
      PutConfig, Answer, SetClientStatus, rowVars, mappingVars
  <2> QED
    BY <2>1 DEF configVars, responseVars
<1>2. app' = app \/ ((app = "none" \/ protocol = "oidc") /\ app' # "none")
  BY DEF ClientNext, CreateClient, StartClientUpdate, StartRotate, CheckApplication,
    PutConfig, Answer, SetClientStatus, mappingVars
<1>3. app' # app => \A r \in Reader : resp[r].pc = "idle"
  BY <1>2 DEF ResponseInv, IdleOK
<1>4. IdleOK' /\ LiveOK'
  BY <1>1, <1>2, <1>3 DEF ResponseInv, IdleOK, LiveOK
<1>5. CertOK' /\ CookieOK' /\ NamedOK'
  BY <1>1 DEF ResponseInv, CertOK, CookieOK, NamedOK
<1> QED
  BY <1>1, <1>4, <1>5 DEF ResponseInv

LEMMA ResponseStep == ResponseInv /\ [AppNext]_allVars => ResponseInv'
<1> SUFFICES ASSUME ResponseInv, [AppNext]_allVars PROVE ResponseInv'
  OBVIOUS
<1>1. CASE UNCHANGED <<protocol, app, configVars, responseVars>>
  BY <1>1, CookieCleared DEF responseVars
<1>2. CASE MappingNext /\ UNCHANGED <<configVars, responseVars>>
  <2>1. UNCHANGED <<protocol, app>>
    BY <1>2 DEF MappingNext, StartPut, DeleteOld, PutNext, FinishPut, AbandonPut, StartPreview,
      StartToken, GetClaimMappings, GetRoleMappings, EndRead
  <2> QED
    BY <1>1, <1>2, <2>1
<1>3. CASE ConfigNext
  BY <1>3, Importing, ConfigCreated, UpdateStarts, ConfigWritten, StatusSet DEF ConfigNext
<1>4. CASE protocol = "saml" /\ ResponseNext
  <2>1. ASSUME NEW r \in Reader, ServeAppMetadata(r) PROVE ResponseInv'
    BY <1>1, <2>1 DEF ServeAppMetadata
  <2>2. LoseCookie => ResponseInv'
    BY KeepFrame, CookieCleared DEF LoseCookie
  <2>3. ASSUME NEW r \in Reader,
               ServeSSO(r) \/ GetServiceProvider(r) \/ GetSession(r) \/ MintForLaunch(r)
                 \/ MakeAssertion(r) \/ Attributes(r) \/ Send(r) \/ Sent(r)
        PROVE  ResponseInv'
    BY <1>4, <2>3, SSOServed, ProviderFound, SessionGot, LaunchMinted, AssertionMade,
      ResponseSent, ResponseOver
  <2>4. ASSUME NEW r \in Reader, NEW u \in User,
               FinishLogin(r, u) \/ \E page \in Page : HandleIdPInitiate(r, u, page)
        PROVE  ResponseInv'
    BY <1>4, <2>4, LoginFinished, Launched
  <2> QED
    BY <1>4, <2>1, <2>2, <2>3, <2>4 DEF ResponseNext
<1>5. CASE SloNext
  <2>1. UNCHANGED <<protocol, app, configVars>>
    BY <1>5, KeepFrame DEF SloNext, ReceiveSLO, HandleSLO, AnswerSLO
  <2>2. UNCHANGED <<resp, named>> /\ (cookie' = None \/ UNCHANGED <<cookie, signedIn>>)
    BY <1>5 DEF SloNext, ReceiveSLO, HandleSLO, AnswerSLO, responseVars
  <2> QED
    BY <2>1, <2>2, CookieCleared
<1>6. CASE UNCHANGED allVars
  BY <1>1, <1>6 DEF allVars, vars, mappingVars, rowVars
<1> QED
  BY <1>2, <1>3, <1>4, <1>5, <1>6, StatusOfClient DEF AppNext, Next

\* Sessions and responses in flight belong to one user and bear a NameID and a
\* lifetime within bounds, a response goes on only for an application that was
\* active at some time meanwhile, and the imported certificate is in the row, in
\* the copy of every update that could read one, and in every descriptor
\* (session_provider.go:439, app_handlers.go:249).
THEOREM ResponseInvariance == AppSpec => []ResponseInv
<1> QED
  BY ResponseInitial, ResponseStep, PTL DEF AppSpec

\* DisabledIssuesNothing: a response is sent only by a request during which the
\* application was active at some time (sp_provider.go:54).
THEOREM DisabledIsSilent == AppSpec => []DisabledIssuesNothing
<1>1. ResponseInv => DisabledIssuesNothing
  BY DEF ResponseInv, RespOK, After, DisabledIssuesNothing
<1> QED
  BY <1>1, ResponseInvariance, PTL

\* AssertsCaller: the session a login or launch handed over is the one that is
\* asserted, no launch plants a cookie, and every session lasts as long as the
\* bounds allow, for any number an older release left in the row
\* (session_provider.go:439, durations.go:44).
THEOREM CallerIsAsserted == AppSpec => []AssertsCaller
<1>1. ResponseInv => AssertsCaller
  <2> SUFFICES ASSUME ResponseInv PROVE AssertsCaller
    OBVIOUS
  <2>1. \A r \in Reader : resp[r].minted # None /\ resp[r].session # None =>
          resp[r].session = resp[r].minted
    BY DEF ResponseInv, RespOK
  <2>2. cookie # None => cookie.user = signedIn /\ cookie.life \in MinLife..MaxLife
    BY DEF ResponseInv, CookieOK, SessionOK
  <2>3. \A r \in Reader : resp[r].session # None => resp[r].session.life \in MinLife..MaxLife
    BY DEF ResponseInv, RespOK, SessionOK
  <2> QED
    BY <2>1, <2>2, <2>3 DEF AssertsCaller
<1> QED
  BY <1>1, ResponseInvariance, PTL

\* EncryptionKept: the certificate that the import stored survives every update
\* that could read what it replaced, and with one that parses no assertion that
\* is wanted encrypted goes out in clear (app_handlers.go:280).
THEOREM CertificateIsKept == AppSpec => []EncryptionKept
<1>1. ResponseInv => EncryptionKept
  <2> SUFFICES ASSUME ResponseInv, imported # None
               PROVE  /\ cfg.cert = imported
                      /\ imported = "good" =>
                           \A r \in Reader : resp[r].pc = "sent" /\ resp[r].sp.encrypt =>
                             ~resp[r].clear
    BY DEF EncryptionKept
  <2>1. cfg.cert = imported
    BY DEF ResponseInv, CertOK
  <2>2. ASSUME NEW r \in Reader, imported = "good", resp[r].pc = "sent", resp[r].sp.encrypt
        PROVE  ~resp[r].clear
    <3>1. resp[r].sp.cert = "good"
      BY <2>2 DEF ResponseInv, CertOK, After
    <3>2. EncryptionKey(resp[r].sp) # None
      BY <2>2, <3>1, ResponseAssumption DEF EncryptionKey
    <3> QED
      BY <2>2, <3>2 DEF ResponseInv, RespOK
  <2> QED
    BY <2>1, <2>2
<1> QED
  BY <1>1, ResponseInvariance, PTL

\* SubjectIsOneUser: no NameID is ever sent for two users, however formats and
\* sources are edited while sessions are in use, provided that Cognito gives no
\* two users the same sub or vouches for one address of both (nameid.go:26).
THEOREM SubjectIsUnique ==
  ASSUME OneOwner
  PROVE  AppSpec => []SubjectIsOneUser
<1>1. ResponseInv => SubjectIsOneUser
  <2> SUFFICES ASSUME ResponseInv, NEW r \in Reader, named # None, resp[r].pc = "sent",
                      resp[r].session.nameID = named.id
               PROVE  resp[r].session.user = named.user
    BY DEF SubjectIsOneUser
  <2> DEFINE id == named.id
             u == resp[r].session.user
             v == named.user
  <2>1. /\ u \in User /\ v \in User /\ NameOK(id, u) /\ NameOK(id, v)
        /\ id.format # Short["transient"]
    BY DEF ResponseInv, RespOK, NamedOK, SessionOK, Settled, After
  <2> HIDE DEF id, u, v
  <2>2. id.format = Short["email"] => u = v
    BY <2>1 DEF NameOK, EmailUsable, OneOwner
  <2>3. id.format # Short["email"] => u = v
    BY <2>1 DEF NameOK, OneOwner
  <2> QED
    BY <2>2, <2>3 DEF u, v
<1> QED
  BY <1>1, ResponseInvariance, PTL

-----------------------------------------------------------------------------
(* Logout over the redirect binding *)

\* Accepts and LogoutResponse, with the configuration as a parameter.
Accepted(q, c) ==
  /\ WellFormed(q)
  /\ \E m \in Param(q, "SAMLRequest") \ {None} :
       /\ c # None /\ m.issuer = Self
       /\ DestinationMatches(m)
       /\ VerifyRedirectSignature(q, c)

AnswerOf(q, c, status) ==
  [request |-> Param(q, "SAMLRequest"), relay |-> Param(q, "RelayState"),
   to |-> IF c.slo # None THEN c.slo ELSE c.acs, status |-> status]

LogoutStatus == {"Success", "PartialLogout"}

\* The answer is the one for the query and the configuration it was read with.
LogoutInv ==
  /\ slo \in [pc : {slo.pc}, query : {slo.query}, at : {slo.at}, answer : {slo.answer}]
  /\ ConfigOK(slo.at)
  /\ slo.pc # "answer" => slo.answer = None
  /\ slo.pc = "answer" =>
       /\ slo.query \in Query
       /\ \/ /\ Accepted(slo.query, slo.at)
             /\ \E status \in LogoutStatus : slo.answer = AnswerOf(slo.query, slo.at, status)
          \/ ~Accepted(slo.query, slo.at) /\ slo.answer = None

LEMMA AcceptedAt ==
  ASSUME NEW q
  PROVE  /\ Accepts(q) <=> Accepted(q, slo.at)
         /\ \A status : LogoutResponse(q, status) = AnswerOf(q, slo.at, status)
BY DEF Accepts, Accepted, LogoutResponse, AnswerOf

LEMMA LogoutIdle ==
  ASSUME slo' = NoLogout PROVE LogoutInv'
<1>1. slo'.pc = "idle" /\ slo'.query = None /\ slo'.at = None /\ slo'.answer = None
  BY DEF NoLogout
<1>2. slo' \in [pc : {slo'.pc}, query : {slo'.query}, at : {slo'.at}, answer : {slo'.answer}]
  BY DEF NoLogout
<1> QED
  BY <1>1, <1>2 DEF LogoutInv, ConfigOK

LEMMA LogoutInitial == AppInit => LogoutInv
<1> SUFFICES ASSUME AppInit PROVE LogoutInv
  OBVIOUS
<1>1. slo = NoLogout
  BY DEF AppInit, SloInit
<1>2. slo.pc = "idle" /\ slo.query = None /\ slo.at = None /\ slo.answer = None
  BY <1>1 DEF NoLogout
<1>3. slo \in [pc : {slo.pc}, query : {slo.query}, at : {slo.at}, answer : {slo.answer}]
  BY <1>1 DEF NoLogout
<1> QED
  BY <1>2, <1>3 DEF LogoutInv, ConfigOK

LEMMA LogoutReceived ==
  ASSUME ResponseInv, ReceiveSLO
  PROVE  LogoutInv'
<1> DEFINE c == IF Exists THEN cfg ELSE None
<1>1. slo' = [NoLogout EXCEPT !.pc = "received", !.at = c]
  BY DEF ReceiveSLO
<1>2. ConfigOK(c)
  BY DEF ResponseInv, ConfigOK
<1> HIDE DEF c
<1>3. slo'.pc = "received" /\ slo'.query = None /\ slo'.at = c /\ slo'.answer = None
  BY <1>1 DEF NoLogout
<1>4. slo' \in [pc : {slo'.pc}, query : {slo'.query}, at : {slo'.at}, answer : {slo'.answer}]
  BY <1>1 DEF NoLogout
<1> QED
  BY <1>2, <1>3, <1>4 DEF LogoutInv

LEMMA LogoutHandled ==
  ASSUME LogoutInv, NEW q \in Query, HandleSLO(q)
  PROVE  LogoutInv'
<1>1. slo.pc = "received" /\ slo.answer = None /\ ConfigOK(slo.at)
  BY DEF HandleSLO, LogoutInv
<1>2. CASE Accepts(q) /\ \E status \in LogoutStatus :
             slo' = [slo EXCEPT !.pc = "answer", !.query = q,
                                !.answer = LogoutResponse(q, status)]
  <2>1. PICK status \in LogoutStatus :
             slo' = [slo EXCEPT !.pc = "answer", !.query = q,
                                !.answer = LogoutResponse(q, status)]
    BY <1>2
  <2>2. LogoutResponse(q, status) = AnswerOf(q, slo.at, status) /\ Accepted(q, slo.at)
    BY <1>2, AcceptedAt
  <2>3. /\ slo'.pc = "answer" /\ slo'.query = q /\ slo'.at = slo.at
        /\ slo'.answer = AnswerOf(q, slo.at, status)
    BY <2>1, <2>2 DEF LogoutInv
  <2>4. slo' \in [pc : {slo'.pc}, query : {slo'.query}, at : {slo'.at},
                  answer : {slo'.answer}]
    BY <2>1 DEF LogoutInv
  <2> QED
    BY <1>1, <2>2, <2>3, <2>4 DEF LogoutInv
<1>3. CASE ~Accepts(q) /\ slo' = [slo EXCEPT !.pc = "answer", !.query = q]
  <2>1. /\ slo'.pc = "answer" /\ slo'.query = q /\ slo'.at = slo.at /\ slo'.answer = None
    BY <1>1, <1>3 DEF LogoutInv
  <2>2. slo' \in [pc : {slo'.pc}, query : {slo'.query}, at : {slo'.at},
                  answer : {slo'.answer}]
    BY <1>3 DEF LogoutInv
  <2>3. ~Accepted(q, slo.at)
    BY <1>3, AcceptedAt
  <2> QED
    BY <1>1, <2>1, <2>2, <2>3 DEF LogoutInv
<1>4. {"Success"} \cup (IF "participants" \in ConfigFault THEN {"PartialLogout"} ELSE {})
        \subseteq LogoutStatus
  BY DEF LogoutStatus
<1> QED
  BY <1>2, <1>3, <1>4 DEF HandleSLO

LEMMA LogoutStep == ResponseInv /\ LogoutInv /\ [AppNext]_allVars => LogoutInv'
<1> SUFFICES ASSUME ResponseInv, LogoutInv, [AppNext]_allVars PROVE LogoutInv'
  OBVIOUS
<1>1. CASE UNCHANGED slo
  BY <1>1 DEF LogoutInv
<1>2. CASE SloNext
  BY <1>2, LogoutReceived, LogoutHandled, LogoutIdle DEF SloNext, AnswerSLO
<1> QED
  BY <1>1, <1>2 DEF AppNext, allVars

\* The logout being answered is accepted exactly when the query and the
\* configuration read for it pass the checks of HandleSLO, and its answer is
\* then made from both (slo.go:217).
THEOREM LogoutInvariance == AppSpec => []LogoutInv
<1> QED
  BY LogoutInitial, LogoutStep, ResponseInvariance, PTL DEF AppSpec

\* A parameter that occurs as often as the values wanted of it, of which there
\* is one or none, occurs once with that value, or not at all.
LEMMA OneParam ==
  ASSUME NEW q \in Query, NEW key, NEW want,
         want = {} \/ \E x \in want : want = {x},
         Cardinality(At(q, key)) = Cardinality(want),
         \A i \in At(q, key) : q[i].plain /\ q[i].value \in want
  PROVE  Param(q, key) = want /\ \A i, j \in At(q, key) : q[i].plain /\ i = j
<1>1. IsFiniteSet(At(q, key))
  <2>1. IsFiniteSet(DOMAIN q) /\ At(q, key) \subseteq DOMAIN q
    BY QueryAssumption DEF At
  <2> QED
    BY <2>1, FS_Subset
<1>2. CASE want = {}
  <2>1. At(q, key) = {}
    BY <1>1, <1>2, FS_EmptySet
  <2> QED
    BY <1>2, <2>1 DEF Param
<1>3. CASE \E x \in want : want = {x}
  <2>1. Cardinality(At(q, key)) = 1
    BY <1>3, FS_Singleton
  <2>2. PICK i : At(q, key) = {i}
    BY <1>1, <2>1, FS_Singleton
  <2> QED
    BY <1>3, <2>2 DEF Param
<1> QED
  BY <1>2, <1>3

\* A query with a signed message, among parameters that mean nothing to the
\* binding and in any order, is accepted.
LEMMA HonestIsAccepted ==
  ASSUME NEW q \in Query, NEW c, c # None, Honest(q, c)
  PROVE  Accepted(q, c)
<1>1. PICK s \in Param(q, "Signature") :
        /\ s.by = c.signing /\ c.signing \in DOMAIN KeyOf
        /\ \A alg \in s.over.alg : alg # None /\ alg.key = KeyOf[s.by] /\ alg.hash # "sha1"
        /\ \A m \in s.over.request : m.issuer = Self /\ m.destination = Endpoint
        /\ \A key \in CanonicalKeys :
             LET want == CASE key = "SAMLRequest" -> s.over.request
                           [] key = "RelayState" -> s.over.relay
                           [] key = "SigAlg" -> s.over.alg
                           [] key = "Signature" -> {s}
                           [] OTHER -> {}
             IN /\ Cardinality(At(q, key)) = Cardinality(want)
                /\ \A i \in At(q, key) : q[i].plain /\ q[i].value \in want
  BY DEF Honest
<1>2. IsSignature(s)
  BY <1>1, QueryAssumption DEF Param, At
<1> DEFINE Carries(key, want) ==
             /\ Cardinality(At(q, key)) = Cardinality(want)
             /\ \A i \in At(q, key) : q[i].plain /\ q[i].value \in want
<1>3. /\ Carries("SAMLRequest", s.over.request) /\ Carries("RelayState", s.over.relay)
      /\ Carries("SigAlg", s.over.alg) /\ Carries("Signature", {s})
      /\ Carries("SAMLResponse", {})
  BY <1>1 DEF CanonicalKeys
<1> DEFINE Once(key) == \A i, j \in At(q, key) : q[i].plain /\ i = j
<1>4. Param(q, "SAMLRequest") = s.over.request /\ Once("SAMLRequest")
  <2>1. \E m \in s.over.request : s.over.request = {m}
    BY <1>2 DEF IsSignature
  <2> QED
    BY <1>3, <2>1, OneParam
<1>5. Param(q, "RelayState") = s.over.relay /\ Once("RelayState")
  <2>1. s.over.relay = {} \/ \E x \in s.over.relay : s.over.relay = {x}
    BY <1>2 DEF IsSignature
  <2> QED
    BY <1>3, <2>1, OneParam
<1>6. Param(q, "SigAlg") = s.over.alg /\ Once("SigAlg")
  <2>1. \E alg \in s.over.alg : s.over.alg = {alg}
    BY <1>2 DEF IsSignature
  <2> QED
    BY <1>3, <2>1, OneParam
<1>7. Param(q, "Signature") = {s} /\ Once("Signature")
  <2>1. \E x \in {s} : {s} = {x}
    OBVIOUS
  <2> QED
    BY <1>3, <2>1, OneParam
<1>8. Once("SAMLResponse")
  BY <1>3, OneParam
<1>9. WellFormed(q)
  BY <1>4, <1>5, <1>6, <1>7, <1>8 DEF WellFormed, CanonicalKeys
<1>10. VerifyRedirectSignature(q, c)
  <2>1. s = [by |-> c.signing, over |-> SignedOctets(q)]
    BY <1>1, <1>2, <1>4, <1>5, <1>6 DEF IsSignature, SignedOctets
  <2>2. \E alg \in Param(q, "SigAlg") : HashAllowed(alg, c.sha1) /\ alg.key = KeyOf[c.signing]
    BY <1>1, <1>2, <1>6 DEF IsSignature, HashAllowed
  <2> QED
    BY <1>1, <1>7, <2>1, <2>2 DEF VerifyRedirectSignature
<1>11. PICK m \in Param(q, "SAMLRequest") : m # None
  BY <1>2, <1>4 DEF IsSignature
<1>12. m.issuer = Self /\ DestinationMatches(m)
  BY <1>1, <1>4, <1>11 DEF DestinationMatches
<1> QED
  BY <1>9, <1>10, <1>11, <1>12 DEF Accepted

\* What is accepted is signed: the message, the relay state and the algorithm
\* are those the registered key covers.
LEMMA AcceptedIsSigned ==
  ASSUME NEW q, NEW c, NEW status, Accepted(q, c)
  PROVE  \E i \in DOMAIN q, alg \in Param(q, "SigAlg") :
           /\ q[i].key = "Signature"
           /\ q[i].value = [by |-> c.signing, over |->
                [request |-> AnswerOf(q, c, status).request,
                 relay |-> AnswerOf(q, c, status).relay, alg |-> {alg}]]
           /\ alg.hash = "sha1" => c.sha1
           /\ AnswerOf(q, c, status).to \in {c.slo, c.acs}
<1>1. WellFormed(q) /\ VerifyRedirectSignature(q, c)
  BY DEF Accepted
<1>2. PICK alg \in Param(q, "SigAlg") : alg.hash = "sha1" => c.sha1
  BY <1>1 DEF VerifyRedirectSignature, HashAllowed
<1>3. Param(q, "SigAlg") = {alg}
  <2>1. "SigAlg" \in CanonicalKeys
    BY DEF CanonicalKeys
  <2>2. \A i, j \in At(q, "SigAlg") : i = j
    BY <1>1, <2>1 DEF WellFormed
  <2> QED
    BY <1>2, <2>2 DEF Param
<1>4. PICK i \in At(q, "Signature") :
        q[i].value = [by |-> c.signing, over |-> SignedOctets(q)]
  BY <1>1 DEF VerifyRedirectSignature, Param
<1>5. i \in DOMAIN q /\ q[i].key = "Signature"
  BY <1>4 DEF At
<1>6. /\ AnswerOf(q, c, status).request = Param(q, "SAMLRequest")
      /\ AnswerOf(q, c, status).relay = Param(q, "RelayState")
      /\ AnswerOf(q, c, status).to \in {c.slo, c.acs}
  BY DEF AnswerOf
<1>7. SignedOctets(q) = [request |-> AnswerOf(q, c, status).request,
                         relay |-> AnswerOf(q, c, status).relay, alg |-> {alg}]
  BY <1>3, <1>6 DEF SignedOctets
<1> QED
  BY <1>2, <1>4, <1>5, <1>6, <1>7

\* LogoutIsSigned: the registered key signed the very message that is carried
\* out and the relay state that goes back, to an endpoint on record; and no
\* signed query of the service provider is refused, whatever else it carries
\* and in whatever order (slo.go:476).
THEOREM LogoutWasSigned == AppSpec => []LogoutIsSigned
<1>1. LogoutInv => LogoutIsSigned
  <2> SUFFICES ASSUME LogoutInv, slo.pc = "answer"
               PROVE  LogoutIsSigned
    BY DEF LogoutIsSigned, ActsOnSigned
  <2>1. slo.query \in Query /\ ConfigOK(slo.at)
    BY DEF LogoutInv
  <2>2. CASE ~Accepted(slo.query, slo.at) /\ slo.answer = None
    <3>1. slo.at # None => ~Honest(slo.query, slo.at)
      BY <2>1, <2>2, HonestIsAccepted
    <3> QED
      BY <2>2, <3>1 DEF LogoutIsSigned, ActsOnSigned
  <2>3. CASE /\ Accepted(slo.query, slo.at)
             /\ \E status \in LogoutStatus : slo.answer = AnswerOf(slo.query, slo.at, status)
    <3>1. PICK status \in LogoutStatus : slo.answer = AnswerOf(slo.query, slo.at, status)
      BY <2>3
    <3>2. slo.at # None
      BY <2>3 DEF Accepted
    <3>3. slo.answer # None
      <4>1. \A key : Param(slo.query, key) \subseteq ParamValue
        BY <2>1 DEF Param, ParamValue, At
      <4>2. (IF slo.at.slo # None THEN slo.at.slo ELSE slo.at.acs) \in Location
        BY <2>1, <3>2 DEF ConfigOK
      <4>3. slo.answer \in [request : SUBSET ParamValue, relay : SUBSET ParamValue,
                            to : Location, status : {"Success", "PartialLogout"}]
        BY <3>1, <4>1, <4>2 DEF AnswerOf, LogoutStatus
      <4> QED
        BY <4>3, QueryAssumption
    <3>4. ActsOnSigned
      <4> DEFINE want == AnswerOf(slo.query, slo.at, status)
      <4>1. Accepted(slo.query, slo.at)
        BY <2>3
      <4>2. \E i \in DOMAIN slo.query, alg \in Param(slo.query, "SigAlg") :
              /\ slo.query[i].key = "Signature"
              /\ slo.query[i].value = [by |-> slo.at.signing, over |->
                   [request |-> want.request, relay |-> want.relay, alg |-> {alg}]]
              /\ alg.hash = "sha1" => slo.at.sha1
              /\ want.to \in {slo.at.slo, slo.at.acs}
        BY <4>1, AcceptedIsSigned
      <4> HIDE DEF want
      <4>3. slo.answer = want
        BY <3>1 DEF want
      <4> QED
        BY <4>2, <4>3, Zenon DEF ActsOnSigned
    <3> QED
      BY <3>3, <3>4 DEF LogoutIsSigned
  <2> QED
    BY <2>2, <2>3 DEF LogoutInv
<1> QED
  BY <1>1, LogoutInvariance, PTL

=============================================================================
