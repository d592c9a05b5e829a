------------------------------ MODULE OIDCTokens ------------------------------
(***************************************************************************)
(* The life of OIDC access and refresh tokens: issue on the authorization- *)
(* code grant, rotation on the refresh grant, RP-initiated logout and      *)
(* revocation (internal/oidc/storage.go, refresh_token.go).                *)
(*                                                                         *)
(* Nothing is held in process memory: two Lambdas share one DynamoDB table *)
(* and every store call is a separate, non-transactional Get, Put, Query   *)
(* or Delete. A Handler is one request in flight; each of its actions is   *)
(* one store call, so requests interleave between any two calls, and a     *)
(* request can be cut off (Crash) after any of them.                       *)
(***************************************************************************)
EXTENDS Naturals, FiniteSets

CONSTANTS
  Tenant,     \* tenant slugs, as they appear in an issuer URL
  Client,     \* OIDC applications (client IDs)
  Subject,    \* users (the Cognito sub)
  Token,      \* opaque token values; 256 random bits, so each is minted once
  Handler,    \* requests in flight
  TenantOf,   \* the tenant that owns each client
  Fault,      \* the kinds of store calls that may fail, and "crash"
  NoToken,    \* no token value
  NoRow       \* no item under a key

FaultKind == {"putToken", "putIndex", "delete", "query", "getApp", "getToken",
              "crash"}

Kind == {"access", "refresh"}

\* The index partition OIDCSESSION#t:..#u:..#c:.. of oidcSessionIndexPK.
Session == [tenant : Tenant, subject : Subject, client : Client]

\* accessTokenItem and refreshTokenItem, without the claims they carry.
TokenRow == [kind : Kind, subject : Subject, client : Client]

\* sessionTokenIndexItem.
IndexRow == [session : Session, kind : Kind, ref : Token]

GrantPC == {"putAccess", "indexAccess", "putRefresh", "indexRefresh",
            "dropOld", "dropOldIndex", "respond"}
RefreshPC == {"getRefresh", "getApp", "dropRefused"}
LogoutPC == {"query", "sweepToken", "sweepIndex"}
RevokePC == {"getRevoked", "deleteRevoked"}
PC == {"idle"} \cup GrantPC \cup RefreshPC \cup LogoutPC \cup RevokePC

\* A request: its issuer's tenant, user and authenticated client; the token
\* in hand (presented to a refresh or a revocation, or being swept) and the
\* row read under it; whether it mints a refresh token; the tokens minted; the
\* index rows left to sweep; and, for the properties only, the tokens a logout
\* owes the user.
Job == [pc : PC, session : Session, inhand : Token \cup {NoToken},
        item : TokenRow \cup {NoRow}, offline : BOOLEAN,
        access : Token \cup {NoToken}, refresh : Token \cup {NoToken},
        rows : SUBSET IndexRow, owed : SUBSET Token]

ASSUME ConstantsAssumption ==
  /\ TenantOf \in [Client -> Tenant]
  /\ Fault \subseteq FaultKind
  /\ NoToken \notin Token
  /\ NoRow \notin TokenRow
  /\ Tenant # {} /\ Client # {} /\ Subject # {}

VARIABLES
  active,     \* the applications whose status is active; the others are
              \* disabled, or deleted and never re-enabled
  tokens,     \* TOKEN# and REFRESH# items, by token value
  index,      \* session->token index rows
  expired,    \* token values past their ExpiresAt
  job,        \* the request each handler is serving
  (* history, read by the properties and by the choice of fresh values *)
  minted,     \* token values ever generated
  delivered,  \* token values some client has received
  parent,     \* the refresh token a rotation minted this refresh token from
  lost,       \* token values whose best-effort index Put or Delete failed
  ended       \* token values owed by a logout that was answered with success

storeVars == <<active, tokens, index, expired>>
history == <<minted, delivered, parent, lost, ended>>
vars == <<active, tokens, index, expired, job, minted, delivered, parent, lost,
          ended>>

Idle == [pc |-> "idle",
         session |-> CHOOSE s \in Session : TRUE,
         inhand |-> NoToken, item |-> NoRow, offline |-> FALSE,
         access |-> NoToken, refresh |-> NoToken, rows |-> {}, owed |-> {}]

Init ==
  /\ active = Client
  /\ tokens = [r \in Token |-> NoRow]
  /\ index = {}
  /\ expired = {}
  /\ job = [h \in Handler |-> Idle]
  /\ minted = {} /\ delivered = {} /\ lost = {} /\ ended = {}
  /\ parent = [r \in Token |-> NoToken]

-----------------------------------------------------------------------------
(* Helpers *)

Live(r) == tokens[r] # NoRow
SessionOf(row) == [tenant |-> TenantOf[row.client], subject |-> row.subject,
                   client |-> row.client]

\* TokenRequestByRefreshToken, SetUserinfoFromToken and the introspection
\* honour a stored row until its own expiry.
Usable(r) == Live(r) /\ r \notin expired

\* Mutant: any tenant's issuer serves any tenant's client.
ClientUsable_AnyTenant(tenant, client) == client \in active

\* GetClientByClientID: the client belongs to the issuer's tenant and is active.
ClientUsable(tenant, client) ==
  TenantOf[client] = tenant /\ client \in active

\* The session of a request that names a client and no user yet.
ClientOnly(tenant, client) ==
  [Idle.session EXCEPT !.tenant = tenant, !.client = client]

Goto(h, pc) == job' = [job EXCEPT ![h].pc = pc]
Finish(h) == job' = [job EXCEPT ![h] = Idle]

\* A request arrives: the client has been authenticated, the user is known
\* from the code or the ID token hint, or read from the store later.
Begin(h, pc, session, inhand, offline) ==
  /\ job[h].pc = "idle"
  /\ job' = [job EXCEPT ![h] = [Idle EXCEPT !.pc = pc, !.session = session,
                                            !.inhand = inhand,
                                            !.offline = offline]]

\* The table without the item of this kind under r: access and refresh
\* tokens have different keys.
Without(kind, r) ==
  IF Live(r) /\ tokens[r].kind = kind
  THEN [tokens EXCEPT ![r] = NoRow] ELSE tokens

\* A best-effort Delete of a token row: the error is dropped, so the row may
\* stay and the caller cannot tell.
DeleteQuietly(kind, r) ==
  \/ tokens' = Without(kind, r) /\ UNCHANGED lost
  \/ "delete" \in Fault /\ lost' = lost \cup {r} /\ UNCHANGED tokens

\* deleteSessionTokenIndex, and the index Delete of TerminateSession.
DropIndexRow(session, r) ==
  \/ index' = {row \in index : row.session # session \/ row.ref # r}
  \/ "delete" \in Fault /\ UNCHANGED index

\* indexSessionToken: a failed Put is dropped.
PutIndexRow(session, kind, r) ==
  \/ /\ index' = index \cup {[session |-> session, kind |-> kind, ref |-> r]}
     /\ UNCHANGED lost
  \/ "putIndex" \in Fault /\ lost' = lost \cup {r} /\ UNCHANGED index

-----------------------------------------------------------------------------
(* The authorization-code and refresh grants at the token endpoint *)

\* A code exchange reaches CreateAccessToken or CreateAccessAndRefreshTokens
\* after GetClientByClientID accepted the client; offline says the request
\* holds the offline_access scope and the client the refresh_token grant.
StartCodeGrant(h, session, offline) ==
  /\ ClientUsable(session.tenant, session.client)
  /\ Begin(h, "putAccess", session, NoToken, offline)
  /\ UNCHANGED <<storeVars, history>>

\* The refresh grant resolves the client before the token.
StartRefresh(h, tenant, client, r) ==
  /\ r \in delivered
  /\ ClientUsable(tenant, client)
  /\ Begin(h, "getRefresh", ClientOnly(tenant, client), r, TRUE)
  /\ UNCHANGED <<storeVars, history>>

\* TokenRequestByRefreshToken, the Get and the expiry check: an absent row,
\* an access token's value or an error is an invalid refresh token; an expired
\* row is deleted as well.
GetRefresh(h) ==
  LET r == job[h].inhand
      found == Live(r) /\ tokens[r].kind = "refresh" IN
  /\ job[h].pc = "getRefresh"
  /\ \/ /\ ~found \/ "getToken" \in Fault
        /\ Finish(h)
        /\ UNCHANGED <<tokens, lost>>
     \/ /\ found /\ r \in expired
        /\ DeleteQuietly("refresh", r)
        /\ Finish(h)
     \/ /\ found /\ r \notin expired
        /\ job' = [job EXCEPT ![h].pc = "getApp", ![h].item = tokens[r]]
        /\ UNCHANGED <<tokens, lost>>
  /\ UNCHANGED <<active, index, expired, minted, delivered, parent,
                 ended>>

\* TokenRequestByRefreshToken, the owning application's status, and then the
\* endpoint's comparison of the presenting client with the token's. A failed
\* lookup is treated like an application that is not active.
GetApp(h) ==
  LET item == job[h].item IN
  /\ job[h].pc = "getApp"
  /\ \/ /\ item.client \notin active \/ "getApp" \in Fault
        /\ Goto(h, "dropRefused")
     \/ /\ item.client \in active
        /\ item.client # job[h].session.client
        /\ Finish(h)
     \/ /\ item.client \in active
        /\ item.client = job[h].session.client
        /\ job' = [job EXCEPT ![h].pc = "putAccess",
                              ![h].session.subject = item.subject]
  /\ UNCHANGED <<storeVars, history>>

\* TokenRequestByRefreshToken drops the token of an application not active.
DropRefused(h) ==
  /\ job[h].pc = "dropRefused"
  /\ DeleteQuietly("refresh", job[h].inhand)
  /\ Finish(h)
  /\ UNCHANGED <<active, index, expired, minted, delivered, parent,
                 ended>>

\* CreateAccessToken stores the access token.
PutAccess(h, r) ==
  LET session == job[h].session IN
  /\ job[h].pc = "putAccess"
  /\ r \notin minted
  /\ minted' = minted \cup {r}
  /\ \/ /\ tokens' = [tokens EXCEPT ![r] = [kind |-> "access",
                                            subject |-> session.subject,
                                            client |-> session.client]]
        /\ job' = [job EXCEPT ![h].pc = "indexAccess", ![h].access = r]
     \/ "putToken" \in Fault /\ Finish(h) /\ UNCHANGED tokens
  /\ UNCHANGED <<active, index, expired, delivered, parent, lost, ended>>

\* CreateAccessToken indexes it, and CreateAccessAndRefreshTokens goes on.
IndexAccess(h) ==
  /\ job[h].pc = "indexAccess"
  /\ PutIndexRow(job[h].session, "access", job[h].access)
  /\ Goto(h, IF job[h].offline THEN "putRefresh" ELSE "respond")
  /\ UNCHANGED <<active, tokens, expired, minted, delivered, parent,
                 ended>>

\* CreateAccessAndRefreshTokens stores the refresh token.
PutRefresh(h, r) ==
  LET session == job[h].session IN
  /\ job[h].pc = "putRefresh"
  /\ r \notin minted
  /\ minted' = minted \cup {r}
  /\ \/ /\ tokens' = [tokens EXCEPT ![r] = [kind |-> "refresh",
                                            subject |-> session.subject,
                                            client |-> session.client]]
        /\ parent' = [parent EXCEPT ![r] = job[h].inhand]
        /\ job' = [job EXCEPT ![h].pc = "indexRefresh", ![h].refresh = r]
     \/ "putToken" \in Fault /\ Finish(h) /\ UNCHANGED <<tokens, parent>>
  /\ UNCHANGED <<active, index, expired, delivered, lost, ended>>

\* Mutant: the refresh token is indexed as an access token.
IndexRefresh_WrongKind(h) ==
  /\ job[h].pc = "indexRefresh"
  /\ PutIndexRow(job[h].session, "access", job[h].refresh)
  /\ Goto(h, IF job[h].inhand = NoToken THEN "respond" ELSE "dropOld")
  /\ UNCHANGED <<active, tokens, expired, minted, delivered, parent,
                 ended>>

\* ... and indexes it.
IndexRefresh(h) ==
  /\ job[h].pc = "indexRefresh"
  /\ PutIndexRow(job[h].session, "refresh", job[h].refresh)
  /\ Goto(h, IF job[h].inhand = NoToken THEN "respond" ELSE "dropOld")
  /\ UNCHANGED <<active, tokens, expired, minted, delivered, parent,
                 ended>>

\* Mutant: a rotation forgets to delete the presented token.
DropOld_Kept(h) ==
  /\ job[h].pc = "dropOld"
  /\ Goto(h, "dropOldIndex")
  /\ UNCHANGED <<active, tokens, index, expired, lost, minted, delivered,
                 parent, ended>>

\* Rotation: CreateAccessAndRefreshTokens revokes the presented token ...
DropOld(h) ==
  /\ job[h].pc = "dropOld"
  /\ DeleteQuietly("refresh", job[h].inhand)
  /\ Goto(h, "dropOldIndex")
  /\ UNCHANGED <<active, index, expired, minted, delivered, parent,
                 ended>>

\* ... and its index row.
DropOldIndex(h) ==
  /\ job[h].pc = "dropOldIndex"
  /\ DropIndexRow(job[h].session, job[h].inhand)
  /\ Goto(h, "respond")
  /\ UNCHANGED <<active, tokens, expired, history>>

\* The token response reaches the client.
Respond(h) ==
  /\ job[h].pc = "respond"
  /\ delivered' = delivered \cup ({job[h].access, job[h].refresh} \ {NoToken})
  /\ Finish(h)
  /\ UNCHANGED <<storeVars, minted, parent, lost, ended>>

-----------------------------------------------------------------------------
(* RP-initiated logout: TerminateSession *)

\* end_session: the user and client come from the ID token hint.
StartLogout(h, session) ==
  /\ ClientUsable(session.tenant, session.client)
  /\ job[h].pc = "idle"
  /\ job' = [job EXCEPT ![h] =
       [Idle EXCEPT !.pc = "query", !.session = session,
                    !.owed = {r \in delivered :
                                Usable(r) /\ SessionOf(tokens[r]) = session}]]
  /\ UNCHANGED <<storeVars, history>>

\* The logout is answered with success.
FinishLogout(h) ==
  /\ ended' = ended \cup job[h].owed
  /\ Finish(h)

\* The Query of the session's partition: a snapshot of the rows to sweep.
QueryIndex(h) ==
  LET found == {row \in index : row.session = job[h].session} IN
  /\ job[h].pc = "query"
  /\ \/ "query" \in Fault /\ Finish(h) /\ UNCHANGED ended
     \/ found = {} /\ FinishLogout(h)
     \/ /\ found # {}
        /\ job' = [job EXCEPT ![h].pc = "sweepToken", ![h].rows = found]
        /\ UNCHANGED ended
  /\ UNCHANGED <<storeVars, minted, delivered, parent, lost>>

\* Mutant: the sweep deletes refresh tokens only.
SweepToken_RefreshOnly(h, row) ==
  /\ job[h].pc = "sweepToken"
  /\ row \in job[h].rows
  /\ IF row.kind = "refresh" THEN DeleteQuietly(row.kind, row.ref)
     ELSE UNCHANGED <<tokens, lost>>
  /\ job' = [job EXCEPT ![h].pc = "sweepIndex", ![h].inhand = row.ref,
                        ![h].rows = @ \ {row}]
  /\ UNCHANGED <<active, index, expired, minted, delivered, parent,
                 ended>>

\* One row of the sweep: the token goes first, its error dropped ...
SweepToken(h, row) ==
  /\ job[h].pc = "sweepToken"
  /\ row \in job[h].rows
  /\ DeleteQuietly(row.kind, row.ref)
  /\ job' = [job EXCEPT ![h].pc = "sweepIndex", ![h].inhand = row.ref,
                        ![h].rows = @ \ {row}]
  /\ UNCHANGED <<active, index, expired, minted, delivered, parent,
                 ended>>

\* ... then the index row, whether or not the token went.
SweepIndex(h) ==
  /\ job[h].pc = "sweepIndex"
  /\ DropIndexRow(job[h].session, job[h].inhand)
  /\ IF job[h].rows = {} THEN FinishLogout(h)
     ELSE Goto(h, "sweepToken") /\ UNCHANGED ended
  /\ UNCHANGED <<active, tokens, expired, minted, delivered, parent, lost>>

-----------------------------------------------------------------------------
(* The revocation endpoint: RevokeToken *)

StartRevoke(h, tenant, client, r) ==
  /\ r \in delivered
  /\ ClientUsable(tenant, client)
  /\ Begin(h, "getRevoked", ClientOnly(tenant, client), r, FALSE)
  /\ UNCHANGED <<storeVars, history>>

\* Mutants: the owner is not compared, and the refresh Get is missing.
OwnToken_Anyone(client, r) == Live(r)
OwnToken_AccessOnly(client, r) ==
  Live(r) /\ tokens[r].client = client /\ tokens[r].kind = "access"

\* RevokeToken found an access or refresh row, of the revoking client.
OwnToken(client, r) == Live(r) /\ tokens[r].client = client

\* Get the access or the refresh row. A token that is not found, or another
\* client's, is answered with success and left alone; so is a token whose
\* Get failed.
GetRevoked(h) ==
  LET own == OwnToken(job[h].session.client, job[h].inhand) IN
  /\ job[h].pc = "getRevoked"
  /\ \/ (~own \/ "getToken" \in Fault) /\ Finish(h)
     \/ own /\ Goto(h, "deleteRevoked")
  /\ UNCHANGED <<storeVars, history>>

\* The Delete; its error is reported as server_error.
DeleteRevoked(h) ==
  LET r == job[h].inhand IN
  /\ job[h].pc = "deleteRevoked"
  /\ \/ tokens' = [tokens EXCEPT ![r] = NoRow]
     \/ "delete" \in Fault /\ UNCHANGED tokens
  /\ Finish(h)
  /\ UNCHANGED <<active, index, expired, minted, delivered, parent, lost, ended>>

-----------------------------------------------------------------------------
(* The environment *)

\* The management API disables, deletes or re-enables an application.
SetStatus(c) ==
  /\ active' = IF c \in active THEN active \ {c} ELSE active \cup {c}
  /\ UNCHANGED <<tokens, index, expired, job, history>>

\* The clock passes a token's ExpiresAt.
Expire(r) ==
  /\ r \in minted \ expired
  /\ expired' = expired \cup {r}
  /\ UNCHANGED <<active, tokens, index, job, history>>

\* DynamoDB deletes items past their TTL, an hour after expiry at the
\* earliest, in any order and with any delay.
TTLToken(r) ==
  /\ r \in expired /\ Live(r)
  /\ tokens' = [tokens EXCEPT ![r] = NoRow]
  /\ UNCHANGED <<active, index, expired, job, history>>

TTLIndex(row) ==
  /\ row.ref \in expired
  /\ index' = index \ {row}
  /\ UNCHANGED <<active, tokens, expired, job, history>>

\* A Lambda times out or its response is lost, between any two store calls.
Crash(h) ==
  /\ "crash" \in Fault
  /\ job[h].pc # "idle"
  /\ Finish(h)
  /\ UNCHANGED <<storeVars, history>>

-----------------------------------------------------------------------------

Grant(h) ==
  \/ GetRefresh(h) \/ GetApp(h) \/ DropRefused(h)
  \/ \E r \in Token : PutAccess(h, r) \/ PutRefresh(h, r)
  \/ IndexAccess(h) \/ IndexRefresh(h) \/ DropOld(h) \/ DropOldIndex(h)
  \/ Respond(h)

Logout(h) ==
  \/ QueryIndex(h)
  \/ \E row \in job[h].rows : SweepToken(h, row)
  \/ SweepIndex(h)

Revoke(h) == GetRevoked(h) \/ DeleteRevoked(h)

Request(h) ==
  \/ \E session \in Session :
       \/ StartLogout(h, session)
       \/ \E offline \in BOOLEAN : StartCodeGrant(h, session, offline)
  \/ \E tenant \in Tenant, client \in Client, r \in Token :
       \/ StartRefresh(h, tenant, client, r)
       \/ StartRevoke(h, tenant, client, r)

Environment ==
  \/ \E c \in Client : SetStatus(c)
  \/ \E r \in Token : Expire(r) \/ TTLToken(r)
  \/ \E row \in index : TTLIndex(row)

Next ==
  \/ \E h \in Handler :
       Request(h) \/ Grant(h) \/ Logout(h) \/ Revoke(h) \/ Crash(h)
  \/ Environment

Spec == Init /\ [][Next]_vars

\* The runtime keeps executing a request it has accepted; nothing obliges a
\* client to send one, an operator to act or DynamoDB to sweep.
FairSpec ==
  Spec /\ \A h \in Handler : WF_vars(Grant(h) \/ Logout(h) \/ Revoke(h))

-----------------------------------------------------------------------------
(* Properties *)

\* Every variable has its type.
TypeOK ==
  /\ active \subseteq Client
  /\ tokens \in [Token -> TokenRow \cup {NoRow}]
  /\ index \subseteq IndexRow
  /\ expired \subseteq Token
  /\ job \in [Handler -> Job]
  /\ minted \subseteq Token
  /\ delivered \subseteq Token
  /\ parent \in [Token -> Token \cup {NoToken}]
  /\ lost \subseteq Token
  /\ ended \subseteq Token

\* A usable token no best-effort write was lost for has the index row under
\* which TerminateSession finds it.
Covered(r) ==
  Usable(r) /\ r \notin lost =>
    [session |-> SessionOf(tokens[r]), kind |-> tokens[r].kind, ref |-> r] \in index

\* TerminateSession can find every token a client holds: whatever rotations,
\* logouts and crashes ran in between, no token is left outside the index,
\* except where indexSessionToken or a Delete failed silently.
IndexCoversTokens == \A r \in delivered : Covered(r)

\* An index row leads to a token of its own tenant, user, client and kind, so
\* a logout sweep never revokes a token of another session, and never deletes
\* under the wrong key (oidcSessionIndexPK, GetClientByClientID's tenant check).
RowFaithful(row) == Live(row.ref) =>
  row.session = SessionOf(tokens[row.ref]) /\ row.kind = tokens[row.ref].kind
IndexFaithful == \A row \in index : RowFaithful(row)

\* After a rotation was answered, the presented refresh token cannot be used
\* again (CreateAccessAndRefreshTokens), unless the Delete failed silently.
RotationRetiresParent ==
  \A r \in delivered :
    parent[r] # NoToken => ~Live(parent[r]) \/ parent[r] \in lost

\* Every token the user's client held when a logout that was answered with
\* success began is dead: concurrent rotations, revocations and logouts of the
\* same session hide none of them from the sweep (TerminateSession).
LogoutRevokes == \A r \in ended : ~Usable(r) \/ r \in lost

\* A token that has not expired is only ever deleted by a request of its own
\* client at its own tenant's issuer, or because the refresh grant found its
\* application not active (TokenRequestByRefreshToken, TerminateSession,
\* RevokeToken: one client cannot revoke another's tokens).
RemovedByOwner(r) ==
  Live(r) /\ r \notin expired /\ tokens'[r] = NoRow =>
    \E h \in Handler :
      \/ job[h].pc = "dropRefused" /\ job[h].inhand = r
      \/ /\ job[h].session.client = tokens[r].client
         /\ job[h].session.tenant = TenantOf[tokens[r].client]
         /\ job[h].pc = "sweepToken" =>
              job[h].session.subject = tokens[r].subject
         /\ job[h].pc \in {"dropOld", "sweepToken", "deleteRevoked"}
RemovalsAreOwn == [][\A r \in Token : RemovedByOwner(r)]_vars

\* A logout that began is carried out, whatever else runs on the session: every
\* token it owed stops being usable (TerminateSession sweeps a snapshot, so
\* tokens minted meanwhile cannot keep it busy).
LogoutTakesEffect ==
  \A h \in Handler, r \in Token :
    (job[h].pc = "query" /\ r \in job[h].owed) ~> ~Usable(r)

\* A client that revokes its own token gets it revoked (RevokeToken).
RevocationTakesEffect ==
  \A h \in Handler, r \in Token :
    (/\ job[h].pc = "getRevoked" /\ job[h].inhand = r
     /\ Live(r) /\ tokens[r].client = job[h].session.client) ~> ~Live(r)

=============================================================================
