----------------------------- MODULE OIDCClient -----------------------------
(***************************************************************************)
(* The configuration and the secret of one OIDC client                     *)
(* (internal/api app_handlers.go, app_secret.go; store/app_store.go;        *)
(* oidc client.go, storage.go), which is an application of one tenant.      *)
(*                                                                         *)
(* The row is written whole: an update or a rotation reads it, decides on a *)
(* secret, checks that the application exists and puts the row, and the     *)
(* administrator sees a new secret in the answer, once.                     *)
(***************************************************************************)
EXTENDS ClaimMappings

CONSTANTS
  Method,          \* values of tokenEndpointAuthMethod that requests carry
  Confidential,    \* those that isConfidentialAuthMethod knows, in any case
  Admin,           \* requests in flight
  Issuer, Owner,   \* tenants whose issuer is asked; the application's tenant
  MaxSecret,       \* bound: secrets minted
  ClientFault      \* what may fail: "previous", "check", "put", "lost", "answer"

\* OIDCConfig; secrets are numbered as they are generated, so no two are equal.
ClientRow == [method : Method, secret : Nat \cup {None}]

ASSUME ClientAssumption ==
  /\ Confidential \subseteq Method /\ "none" \notin Confidential
  /\ Owner \in Issuer
  /\ None \notin Nat \cup ClientRow

VARIABLES
  config,   \* its OIDC row: the method and the secret
  job,      \* requests in flight
  minted,   \* secrets generated so far
  (* history, read by the properties only *)
  known,    \* the secret last shown to an administrator, as long as every
            \* request since ran alone, read what it replaced and was answered
  retired   \* secrets replaced by a write, which no request in flight holds

clientVars == <<config, job, minted, known, retired>>

Free == [pc |-> "idle", method |-> None, secret |-> None, fresh |-> FALSE,
         alone |-> FALSE]

ClientInit ==
  /\ config = None
  /\ job = [a \in Admin |-> Free]
  /\ minted = 0 /\ known = None /\ retired = {}

-----------------------------------------------------------------------------
(* Requests *)

Alone == \A a \in Admin : job[a].pc = "idle"

\* A request enters; those in flight do not have the row for themselves now.
Enter(a, pc, method, secret, fresh) ==
  /\ job' = [b \in Admin |->
       IF b = a THEN [pc |-> pc, method |-> method, secret |-> secret,
                      fresh |-> fresh, alone |-> Alone]
       ELSE [job[b] EXCEPT !.alone = FALSE]]
  /\ minted' = IF fresh THEN minted + 1 ELSE minted
Leave(a) == job' = [job EXCEPT ![a] = Free]

\* generateClientSecret
Mint == minted + 1
CanMint == minted < MaxSecret

\* The create handler, once AppStore.Create is done. Without redirect URIs in
\* the request no row is stored.
CreateClient(a, method) ==
  /\ protocol = "oidc" /\ app = "none" /\ Alone
  /\ app' = "active"
  /\ \/ UNCHANGED <<job, minted>>
     \/ IF method \in Confidential
        THEN CanMint /\ Enter(a, "check", method, Mint, TRUE)
        ELSE Enter(a, "check", method, None, FALSE)
  /\ UNCHANGED <<rowVars, config, known, retired>>

\* Mutant: the secret of the row that is replaced is not carried forward.
StartClientUpdate_Blank(a, method) ==
  /\ protocol = "oidc" /\ Exists /\ job[a].pc = "idle"
  /\ Enter(a, "check", method, None, FALSE)
  /\ known' = IF Alone /\ method \in Confidential THEN known ELSE None
  /\ UNCHANGED <<mappingVars, config, retired>>

\* The update handler: a confidential client keeps its secret, or is given one
\* if none is found; an error of the read counts as none found.
StartClientUpdate(a, method) ==
  /\ protocol = "oidc" /\ Exists /\ job[a].pc = "idle"
  /\ \E row \in {config} \cup (IF "previous" \in ClientFault THEN {None} ELSE {}) :
       LET kept == IF row = None THEN None ELSE row.secret
       IN /\ \/ method \notin Confidential /\ Enter(a, "check", method, None, FALSE)
             \/ /\ method \in Confidential /\ kept # None
                /\ Enter(a, "check", method, kept, FALSE)
             \/ /\ method \in Confidential /\ kept = None
                /\ CanMint /\ Enter(a, "check", method, Mint, TRUE)
          /\ known' = IF Alone /\ method \in Confidential /\ row = config
                      THEN known ELSE None
  /\ UNCHANGED <<mappingVars, config, retired>>

\* rotate-client-secret: the row is written back with a new secret.
StartRotate(a) ==
  /\ protocol = "oidc" /\ Exists /\ job[a].pc = "idle"
  /\ config # None /\ config.method \in Confidential
  /\ CanMint /\ Enter(a, "check", config.method, Mint, TRUE)
  /\ known' = None
  /\ UNCHANGED <<mappingVars, config, retired>>

\* UpdateOIDCConfig reads the application first.
CheckApplication(a) ==
  /\ job[a].pc = "check"
  /\ \/ Exists /\ job' = [job EXCEPT ![a].pc = "put"]
     \/ (app = "deleted" \/ "check" \in ClientFault) /\ Leave(a)
  /\ UNCHANGED <<mappingVars, config, minted, known, retired>>

Held(secret, others) == \E b \in others : job[b].pc # "idle" /\ job[b].secret = secret

Write(a) ==
  /\ config' = [method |-> job[a].method, secret |-> job[a].secret]
  /\ LET old == IF config = None THEN None ELSE config.secret
     IN retired' = IF old \in {None, job[a].secret} \/ Held(old, Admin \ {a})
                   THEN retired ELSE retired \cup {old}

\* and puts the row; the call may fail, or be reported so.
PutConfig(a) ==
  /\ job[a].pc = "put"
  /\ \/ Write(a) /\ job' = [job EXCEPT ![a].pc = "answer"]
     \/ "put" \in ClientFault /\ Leave(a) /\ UNCHANGED <<config, retired>>
     \/ "lost" \in ClientFault /\ Write(a) /\ Leave(a)
  /\ UNCHANGED <<mappingVars, minted, known>>

\* The answer shows a new secret. Instead, a later step of the request may
\* fail, or the answer be lost.
Answer(a) ==
  /\ job[a].pc = "answer"
  /\ Leave(a)
  /\ \/ known' = IF ~job[a].fresh THEN known
                 ELSE IF job[a].alone THEN job[a].secret ELSE None
     \/ "answer" \in ClientFault /\ UNCHANGED known
  /\ UNCHANGED <<mappingVars, config, minted, retired>>

\* The enable and disable handlers, and delete, whose deletion of the row is
\* best effort.
SetClientStatus(new) ==
  /\ protocol = "oidc" /\ Exists /\ app # new
  /\ app' = new
  /\ IF new = "deleted"
     THEN /\ config' = None \/ UNCHANGED config
          /\ job' = [a \in Admin |-> [job[a] EXCEPT !.alone = FALSE]]
          /\ known' = None
     ELSE UNCHANGED <<config, job, known>>
  /\ UNCHANGED <<rowVars, minted, retired>>

ClientNext ==
  \/ \E a \in Admin :
       \/ \E method \in Method : CreateClient(a, method) \/ StartClientUpdate(a, method)
       \/ StartRotate(a) \/ CheckApplication(a) \/ PutConfig(a) \/ Answer(a)
  \/ \E new \in {"active", "disabled", "deleted"} : SetClientStatus(new)

-----------------------------------------------------------------------------
(* Clients at the token endpoint *)

\* Client.AuthMethod: what is not spelled "client_secret_post" or "none" is
\* basic authentication.
AuthMethod ==
  IF config # None /\ config.method \in {"client_secret_post", "none"}
  THEN config.method ELSE "client_secret_basic"

\* GetClientByClientID finds the client through the index entry of its
\* application; an issuer without a tenant is not compared.
ClientFound(issuer) == app = "active" /\ issuer \in {Owner, None}

\* Mutant: a blank secret is compared like any other.
Authorized_Blank(secret, issuer) ==
  /\ ClientFound(issuer)
  /\ AuthMethod = "none" \/ (config # None /\ config.secret = secret)

\* AuthorizeClientIDSecret
Authorized(secret, issuer) ==
  /\ ClientFound(issuer)
  /\ \/ AuthMethod = "none"
     \/ config # None /\ config.secret # None /\ config.secret = secret

-----------------------------------------------------------------------------
(* Properties *)

\* A client that must authenticate does so with its current secret only: not
\* with a blank one, which rows of public clients and of unknown methods hold,
\* not with one that an update or a rotation replaced, and not with one that
\* was never minted (storage.go:796, app_secret.go:36).
RetiredSecretRefused ==
  \A secret \in retired \cup {None, minted + 1}, issuer \in Issuer \cup {None} :
    Authorized(secret, issuer) => config # None /\ config.method = "none"

\* The secret that an administrator was shown stays the client's secret through
\* all updates that leave it confidential, failed ones included
\* (app_handlers.go:308).
SecretKept ==
  known # None => config # None /\ config.secret = known

=============================================================================
