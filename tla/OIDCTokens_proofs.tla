-------------------------- MODULE OIDCTokens_proofs --------------------------
(***************************************************************************)
(* Safety of OIDCTokens for any number of tenants, clients, users, tokens  *)
(* and concurrent requests, and whatever store calls fail.                 *)
(***************************************************************************)
EXTENDS OIDCTokens, TLAPS

-----------------------------------------------------------------------------
(* The inductive invariant behind IndexCoversTokens, IndexFaithful,          *)
(* RotationRetiresParent and LogoutRevokes: what each request knows about    *)
(* the store between two of its calls, and what stays true of it whatever    *)
(* the other requests do there.                                              *)

AfterAccess == {"putRefresh", "indexRefresh", "dropOld", "dropOldIndex",
                "respond"}
AfterRefresh == {"dropOld", "dropOldIndex", "respond"}

\* A token no request can use any more, or whose Delete failed silently.
Retired(r) == ~Live(r) \/ r \in lost

\* The row stored under r, if it is still there.
StoredAs(r, kind, session) ==
  Live(r) => tokens[r] = [kind |-> kind, subject |-> session.subject,
                          client |-> session.client]

\* GetClientByClientID ran at the start of every request.
OwnTenant(j) == j.pc # "idle" => j.session.tenant = TenantOf[j.session.client]

\* What a request holds, and what it does not hold yet.
Holdings(j) ==
  /\ {j.inhand, j.access, j.refresh} \subseteq minted \cup {NoToken}
  /\ j.pc \in RefreshPC \cup RevokePC \cup {"dropOld", "dropOldIndex", "sweepIndex"}
       => j.inhand # NoToken
  /\ j.pc \in AfterAccess \cup {"indexAccess"} => j.access # NoToken
  /\ j.pc \in {"indexRefresh", "dropOld", "dropOldIndex"} => j.refresh # NoToken
  /\ j.pc \in RefreshPC \cup {"putAccess", "indexAccess", "putRefresh"}
       => j.refresh = NoToken
  /\ j.pc \notin LogoutPC => j.rows = {} /\ j.owed = {}

\* The row a refresh read is still what is stored, if anything is.
Presented(j) ==
  (j.pc \in GrantPC \cup {"getApp", "dropRefused"} /\ j.inhand # NoToken) =>
    /\ j.item \in TokenRow /\ j.item.kind = "refresh"
    /\ Live(j.inhand) => tokens[j.inhand] = j.item
    /\ j.pc \in GrantPC => /\ j.item.client = j.session.client
                           /\ j.item.subject = j.session.subject

\* The access token minted by a grant is indexed before anything else happens.
AccessMinted(j) ==
  /\ j.pc = "indexAccess" => StoredAs(j.access, "access", j.session)
  /\ j.pc \in AfterAccess => Covered(j.access)
  /\ j.pc \in AfterAccess \cup {"indexAccess"} => parent[j.access] = NoToken

\* So is the refresh token, and it remembers the token it replaces.
RefreshMinted(j) ==
  /\ j.pc = "indexRefresh" => StoredAs(j.refresh, "refresh", j.session)
  /\ (j.pc \in AfterRefresh /\ j.refresh # NoToken) => Covered(j.refresh)
  /\ (j.pc \in AfterRefresh \cup {"indexRefresh"} /\ j.refresh # NoToken)
       => parent[j.refresh] = j.inhand

\* A token is retired before its index row goes.
RetiredFirst(j) ==
  /\ j.pc \in {"dropOldIndex", "sweepIndex"} => Retired(j.inhand)
  /\ (j.pc = "respond" /\ j.refresh # NoToken /\ j.inhand # NoToken)
       => Retired(j.inhand)

\* A sweep holds rows of its own session, and one for each token it still owes.
Sweep(j) ==
  /\ \A row \in j.rows : /\ row.session = j.session
                         /\ row.ref \in minted
                         /\ RowFaithful(row)
  /\ \A r \in j.owed :
       /\ r \in minted
       /\ Usable(r) /\ r \notin lost =>
            IF j.pc = "query" THEN r \in delivered /\ SessionOf(tokens[r]) = j.session
            ELSE \E row \in j.rows : row.ref = r

\* A revocation deletes only what its client owns.
Revocation(j) ==
  j.pc = "deleteRevoked" /\ Live(j.inhand)
    => tokens[j.inhand].client = j.session.client

JobOK(j) ==
  /\ OwnTenant(j) /\ Holdings(j) /\ Presented(j) /\ AccessMinted(j)
  /\ RefreshMinted(j) /\ RetiredFirst(j) /\ Sweep(j) /\ Revocation(j)

\* Token values are minted once: nothing is stored, indexed or remembered
\* under a value not minted yet.
MintedOnce ==
  /\ \A r \in Token : Live(r) => r \in minted
  /\ \A row \in index : row.ref \in minted
  /\ delivered \subseteq minted /\ ended \subseteq minted
  /\ \A r \in Token : parent[r] \in minted \cup {NoToken}
  /\ \A r \in Token \ minted : parent[r] = NoToken

IInv ==
  /\ TypeOK /\ MintedOnce
  /\ IndexCoversTokens /\ IndexFaithful /\ RotationRetiresParent /\ LogoutRevokes
  /\ \A h \in Handler : JobOK(job[h])

-----------------------------------------------------------------------------
(* Steps keep the facts requests rely on *)

\* What any step does to the facts requests rely on: a row is removed or
\* left, never changed or brought back; an index row goes only after its token
\* is retired or has expired; history only grows.
Progress ==
  /\ \A r \in minted : tokens'[r] = tokens[r] \/ tokens'[r] = NoRow
  /\ \A r \in minted : parent'[r] = parent[r]
  /\ minted \subseteq minted' /\ delivered \subseteq delivered'
  /\ lost \subseteq lost' /\ expired \subseteq expired'
  /\ \A row \in index :
       row \in index' \/ row.ref \in expired \/ Retired(row.ref)

\* Another request's steps leave what a waiting request knows intact.
LEMMA JobStable ==
  ASSUME IInv, TypeOK', Progress, NEW h \in Handler, job'[h] = job[h]
  PROVE  JobOK(job[h])'
<1>1. JobOK(job[h]) /\ job[h] \in Job /\ TypeOK /\ MintedOnce
  BY DEF IInv, TypeOK
<1>2. job'[h] = job[h] /\ job'[h] \in Job
  BY <1>1
<1> USE ConstantsAssumption DEF AfterAccess, AfterRefresh, RefreshPC, RevokePC, LogoutPC, GrantPC
<1>3. OwnTenant(job[h])'
  BY <1>1 DEF JobOK, OwnTenant
<1>4. Holdings(job[h])'
  BY <1>1 DEF JobOK, Holdings, Progress
<1>5. Presented(job[h])'
  BY <1>1 DEF JobOK, Presented, Holdings, Progress, Live
<1>6. AccessMinted(job[h])'
  BY <1>1 DEF JobOK, AccessMinted, Holdings, Progress, Live, StoredAs, Covered, Usable, Retired
<1>7. RefreshMinted(job[h])'
  BY <1>1 DEF JobOK, RefreshMinted, Holdings, Progress, Live, StoredAs, Covered, Usable, Retired
<1>8. RetiredFirst(job[h])'
  BY <1>1 DEF JobOK, RetiredFirst, Holdings, Progress, Live, Retired
<1>9. Sweep(job[h])'
  BY <1>1 DEF JobOK, Sweep, Progress, Live, Usable, RowFaithful, SessionOf
<1>10. Revocation(job[h])'
  BY <1>1 DEF JobOK, Revocation, Holdings, Progress, Live
<1>11. QED
  BY <1>3, <1>4, <1>5, <1>6, <1>7, <1>8, <1>9, <1>10 DEF JobOK

USE ConstantsAssumption DEF AfterAccess, AfterRefresh, RefreshPC, RevokePC,
                            LogoutPC, GrantPC, storeVars, history

\* The cleared request is well formed.
LEMMA IdleIsJob == Idle \in Job
<1>1. PICK t \in Tenant, u \in Subject, c \in Client : TRUE
  OBVIOUS
<1>2. [tenant |-> t, subject |-> u, client |-> c] \in Session
  BY DEF Session
<1>3. (CHOOSE s \in Session : TRUE) \in Session
  BY <1>2, Zenon
<1>4. QED
  BY <1>3 DEF Idle, Job, PC

\* The initial state satisfies the inductive invariant.
THEOREM InitIInv == Init => IInv
<1> SUFFICES ASSUME Init PROVE IInv
  OBVIOUS
<1>1. TypeOK
  BY IdleIsJob DEF Init, TypeOK
<1>2. \A h \in Handler : JobOK(job[h])
  BY DEF Init, JobOK, Idle, OwnTenant, Holdings, Presented, AccessMinted,
         RefreshMinted, RetiredFirst, Sweep, Revocation
<1>3. MintedOnce /\ IndexCoversTokens /\ IndexFaithful
      /\ RotationRetiresParent /\ LogoutRevokes
  BY DEF Init, MintedOnce, Live, IndexCoversTokens, IndexFaithful,
         RotationRetiresParent, LogoutRevokes
<1>4. QED
  BY <1>1, <1>2, <1>3 DEF IInv

\* A step of one request that keeps what it knows keeps what all know.
LEMMA AllJobsOK ==
  ASSUME IInv, TypeOK', Progress, NEW h \in Handler,
         \A g \in Handler \ {h} : job'[g] = job[g], JobOK(job[h])'
  PROVE  \A g \in Handler : JobOK(job[g])'
<1> TAKE g \in Handler
<1>1. CASE g = h
  BY <1>1
<1>2. CASE g # h
  BY <1>2, JobStable
<1>3. QED
  BY <1>1, <1>2

\* A step that only moves one request on, and leaves the store alone.
LEMMA StoreUnchanged ==
  ASSUME IInv, NEW h \in Handler, NEW j \in Job, job' = [job EXCEPT ![h] = j],
         UNCHANGED <<storeVars, history>>, JobOK(job[h])'
  PROVE  IInv'
<1>1. TypeOK'
  BY DEF IInv, TypeOK
<1>2. Progress
  BY DEF Progress
<1>3. \A g \in Handler : JobOK(job[g])'
  BY <1>1, <1>2, AllJobsOK DEF IInv, TypeOK
<1>4. MintedOnce' /\ IndexCoversTokens' /\ IndexFaithful'
      /\ RotationRetiresParent' /\ LogoutRevokes'
  BY DEF IInv, MintedOnce, Live, IndexCoversTokens, Covered, IndexFaithful,
         RowFaithful, RotationRetiresParent, LogoutRevokes, Usable
<1>5. QED
  BY <1>1, <1>3, <1>4 DEF IInv

\* A step that only removes rows, and retires a token before its index row,
\* preserves what holds of the store.
LEMMA RemovalKeepsStore ==
  ASSUME IInv, TypeOK', Progress, index' \subseteq index,
         \A r \in Token : tokens'[r] = tokens[r] \/ tokens'[r] = NoRow,
         UNCHANGED <<minted, delivered, parent, ended>>
  PROVE  /\ MintedOnce' /\ IndexCoversTokens' /\ IndexFaithful'
         /\ RotationRetiresParent' /\ LogoutRevokes'
<1>1. TypeOK /\ MintedOnce /\ IndexCoversTokens /\ IndexFaithful
      /\ RotationRetiresParent /\ LogoutRevokes
  BY DEF IInv
<1>2. MintedOnce'
  BY <1>1 DEF MintedOnce, Live
<1>3. IndexCoversTokens'
  BY <1>1 DEF IndexCoversTokens, Covered, Progress, Usable, Live, Retired,
              SessionOf, TypeOK
<1>4. IndexFaithful'
  BY <1>1 DEF IndexFaithful, RowFaithful, Live, SessionOf, TypeOK, IndexRow
<1>5. RotationRetiresParent' /\ LogoutRevokes'
  BY <1>1 DEF RotationRetiresParent, LogoutRevokes, Progress, Live, Usable, TypeOK
<1>6. QED
  BY <1>2, <1>3, <1>4, <1>5

\* A request that ends knows nothing.
LEMMA FinishOK ==
  ASSUME TypeOK, NEW h \in Handler, Finish(h)
  PROVE  /\ job' = [job EXCEPT ![h] = Idle] /\ Idle \in Job
         /\ JobOK(job[h])'
<1>1. job'[h] = Idle /\ Idle \in Job
  BY IdleIsJob DEF TypeOK, Finish
<1>2. QED
  BY <1>1 DEF Finish, JobOK, Idle, OwnTenant, Holdings, Presented, AccessMinted,
              RefreshMinted, RetiredFirst, Sweep, Revocation

-----------------------------------------------------------------------------
(* Requests arrive *)

LEMMA StartCodeGrantOK ==
  ASSUME IInv, NEW h \in Handler, NEW session \in Session, NEW o \in BOOLEAN,
         StartCodeGrant(h, session, o)
  PROVE  IInv'
<1> DEFINE j == [Idle EXCEPT !.pc = "putAccess", !.session = session,
                             !.inhand = NoToken, !.offline = o]
<1>1. j \in Job
  BY IdleIsJob DEF Job, PC
<1>2. job' = [job EXCEPT ![h] = j] /\ job'[h] = j
  BY DEF StartCodeGrant, Begin, IInv, TypeOK
<1>3. TenantOf[session.client] = session.tenant /\ UNCHANGED <<storeVars, history>>
  BY DEF StartCodeGrant, ClientUsable
<1>4. j.pc = "putAccess" /\ j.session = session /\ j.inhand = NoToken
      /\ j.access = NoToken /\ j.refresh = NoToken /\ j.rows = {} /\ j.owed = {}
  BY DEF Idle
<1>5. JobOK(job[h])'
  BY <1>2, <1>3, <1>4 DEF JobOK, OwnTenant, Holdings, Presented, AccessMinted,
     RefreshMinted, RetiredFirst, Sweep, Revocation
<1>6. QED
  BY <1>1, <1>2, <1>3, <1>5, StoreUnchanged

LEMMA ClientOnlyIsSession ==
  ASSUME NEW t \in Tenant, NEW c \in Client
  PROVE  /\ ClientOnly(t, c) \in Session
         /\ ClientOnly(t, c).tenant = t /\ ClientOnly(t, c).client = c
BY IdleIsJob DEF ClientOnly, Job, Session

LEMMA StartRefreshOK ==
  ASSUME IInv, NEW h \in Handler, NEW t \in Tenant, NEW c \in Client,
         NEW r \in Token, StartRefresh(h, t, c, r)
  PROVE  IInv'
<1> DEFINE j == [Idle EXCEPT !.pc = "getRefresh", !.session = ClientOnly(t, c),
                             !.inhand = r, !.offline = TRUE]
<1>1. j \in Job
  BY IdleIsJob, ClientOnlyIsSession DEF Job, PC
<1>2. job' = [job EXCEPT ![h] = j] /\ job'[h] = j
  BY DEF StartRefresh, Begin, IInv, TypeOK
<1>3. r \in minted /\ r # NoToken
  BY DEF StartRefresh, IInv, MintedOnce
<1>4. TenantOf[c] = t /\ UNCHANGED <<storeVars, history>>
  BY DEF StartRefresh, ClientUsable
<1>5. j.pc = "getRefresh" /\ j.session = ClientOnly(t, c) /\ j.inhand = r
      /\ j.access = NoToken /\ j.refresh = NoToken /\ j.rows = {} /\ j.owed = {}
  BY DEF Idle
<1> HIDE DEF j
<1>6. JobOK(job[h])'
  BY <1>2, <1>3, <1>4, <1>5, ClientOnlyIsSession DEF JobOK, OwnTenant, Holdings,
     Presented, AccessMinted, RefreshMinted, RetiredFirst, Sweep, Revocation
<1>7. QED
  BY <1>1, <1>2, <1>4, <1>6, StoreUnchanged

LEMMA StartRevokeOK ==
  ASSUME IInv, NEW h \in Handler, NEW t \in Tenant, NEW c \in Client,
         NEW r \in Token, StartRevoke(h, t, c, r)
  PROVE  IInv'
<1> DEFINE j == [Idle EXCEPT !.pc = "getRevoked", !.session = ClientOnly(t, c),
                             !.inhand = r, !.offline = FALSE]
<1>1. j \in Job
  BY IdleIsJob, ClientOnlyIsSession DEF Job, PC
<1>2. job' = [job EXCEPT ![h] = j] /\ job'[h] = j
  BY DEF StartRevoke, Begin, IInv, TypeOK
<1>3. r \in minted /\ r # NoToken
  BY DEF StartRevoke, IInv, MintedOnce
<1>4. TenantOf[c] = t /\ UNCHANGED <<storeVars, history>>
  BY DEF StartRevoke, ClientUsable
<1>5. j.pc = "getRevoked" /\ j.session = ClientOnly(t, c) /\ j.inhand = r
      /\ j.access = NoToken /\ j.refresh = NoToken /\ j.rows = {} /\ j.owed = {}
  BY DEF Idle
<1> HIDE DEF j
<1>6. JobOK(job[h])'
  BY <1>2, <1>3, <1>4, <1>5, ClientOnlyIsSession DEF JobOK, OwnTenant, Holdings,
     Presented, AccessMinted, RefreshMinted, RetiredFirst, Sweep, Revocation
<1>7. QED
  BY <1>1, <1>2, <1>4, <1>6, StoreUnchanged

LEMMA StartLogoutOK ==
  ASSUME IInv, NEW h \in Handler, NEW session \in Session,
         StartLogout(h, session)
  PROVE  IInv'
<1> DEFINE owed == {r \in delivered : Usable(r) /\ SessionOf(tokens[r]) = session}
           j == [Idle EXCEPT !.pc = "query", !.session = session, !.owed = owed]
<1>1. j \in Job
  BY IdleIsJob DEF Job, PC, IInv, TypeOK
<1>2. job' = [job EXCEPT ![h] = j] /\ job'[h] = j
  BY DEF StartLogout, IInv, TypeOK
<1>3. TenantOf[session.client] = session.tenant /\ UNCHANGED <<storeVars, history>>
  BY DEF StartLogout, ClientUsable
<1>4. j.pc = "query" /\ j.owed = owed /\ j.session = session /\ j.rows = {}
      /\ j.inhand = NoToken /\ j.access = NoToken /\ j.refresh = NoToken
  BY DEF Idle
<1>5. Sweep(job[h])'
  BY <1>2, <1>3, <1>4 DEF Sweep, IInv, MintedOnce, Usable, Live, SessionOf
<1>6. JobOK(job[h])'
  BY <1>2, <1>3, <1>4, <1>5 DEF JobOK, OwnTenant, Holdings,
     Presented, AccessMinted, RefreshMinted, RetiredFirst, Revocation
<1>7. QED
  BY <1>1, <1>2, <1>3, <1>6, StoreUnchanged

-----------------------------------------------------------------------------
(* Requests move on without touching the store *)

LEMMA FinishKeepsInv ==
  ASSUME IInv, NEW h \in Handler, Finish(h), UNCHANGED <<storeVars, history>>
  PROVE  IInv'
BY FinishOK, StoreUnchanged DEF IInv

LEMMA GetAppOK ==
  ASSUME IInv, NEW h \in Handler, GetApp(h)
  PROVE  IInv'
<1> DEFINE item == job[h].item
<1>1. job[h] \in Job /\ JobOK(job[h]) /\ job[h].pc = "getApp"
      /\ UNCHANGED <<storeVars, history>> /\ job \in [Handler -> Job]
  BY DEF GetApp, IInv, TypeOK
<1>2. /\ item \in TokenRow /\ item.kind = "refresh" /\ job[h].inhand # NoToken
      /\ Live(job[h].inhand) => tokens[job[h].inhand] = item
      /\ job[h].session.tenant = TenantOf[job[h].session.client]
  BY <1>1 DEF JobOK, Presented, OwnTenant, Holdings
<1>3. CASE Goto(h, "dropRefused")
  <2> DEFINE j == [job[h] EXCEPT !.pc = "dropRefused"]
  <2>1. j \in Job /\ job' = [job EXCEPT ![h] = j] /\ job'[h] = j
    BY <1>1, <1>3 DEF Goto, Job, PC
  <2>2. JobOK(job[h])'
    BY <1>1, <2>1 DEF JobOK, OwnTenant, Holdings, Presented, AccessMinted,
       RefreshMinted, RetiredFirst, Sweep, Revocation, Job, Live
  <2>3. QED
    BY <1>1, <2>1, <2>2, StoreUnchanged
<1>4. CASE Finish(h)
  BY <1>1, <1>4, FinishKeepsInv
<1>5. CASE /\ item.client = job[h].session.client
           /\ job' = [job EXCEPT ![h].pc = "putAccess",
                                 ![h].session.subject = item.subject]
  <2> DEFINE session == [job[h].session EXCEPT !.subject = item.subject]
             j == [job[h] EXCEPT !.pc = "putAccess", !.session = session]
  <2>1. session \in Session /\ session.tenant = job[h].session.tenant
        /\ session.client = job[h].session.client
        /\ session.subject = item.subject
    BY <1>1, <1>2 DEF Job, Session, TokenRow
  <2>2. j \in Job /\ job' = [job EXCEPT ![h] = j] /\ job'[h] = j
    BY <1>1, <1>5, <2>1 DEF Job, PC
  <2>3. j.pc = "putAccess" /\ j.session = session /\ j.item = item
        /\ j.inhand = job[h].inhand /\ j.access = job[h].access
        /\ j.refresh = job[h].refresh /\ j.rows = job[h].rows
        /\ j.owed = job[h].owed
    BY <1>1 DEF Job
  <2> HIDE DEF j, session
  <2>4. JobOK(job[h])'
    BY <1>1, <1>2, <1>5, <2>1, <2>2, <2>3 DEF JobOK, OwnTenant, Holdings, Presented,
       AccessMinted, RefreshMinted, RetiredFirst, Sweep, Revocation, Live
  <2>5. QED
    BY <1>1, <2>2, <2>4, StoreUnchanged
<1>6. QED
  BY <1>3, <1>4, <1>5 DEF GetApp

LEMMA GetRevokedOK ==
  ASSUME IInv, NEW h \in Handler, GetRevoked(h)
  PROVE  IInv'
<1>1. job[h] \in Job /\ JobOK(job[h]) /\ job[h].pc = "getRevoked"
      /\ UNCHANGED <<storeVars, history>> /\ job \in [Handler -> Job]
  BY DEF GetRevoked, IInv, TypeOK
<1>2. CASE Finish(h)
  BY <1>1, <1>2, FinishKeepsInv
<1>3. CASE OwnToken(job[h].session.client, job[h].inhand) /\ Goto(h, "deleteRevoked")
  <2> DEFINE j == [job[h] EXCEPT !.pc = "deleteRevoked"]
  <2>1. j \in Job /\ job' = [job EXCEPT ![h] = j] /\ job'[h] = j
    BY <1>1, <1>3 DEF Goto, Job, PC
  <2>2. JobOK(job[h])'
    BY <1>1, <1>3, <2>1 DEF OwnToken, JobOK, OwnTenant, Holdings, Presented, AccessMinted,
       RefreshMinted, RetiredFirst, Sweep, Revocation, Job, Live
  <2>3. QED
    BY <1>1, <2>1, <2>2, StoreUnchanged
<1>4. QED
  BY <1>2, <1>3 DEF GetRevoked

-----------------------------------------------------------------------------
(* Requests remove rows *)

\* A best-effort Delete retires the token if it was stored under that key.
LEMMA DeleteQuietlyRetires ==
  ASSUME TypeOK, NEW kind, NEW r \in Token, DeleteQuietly(kind, r)
  PROVE  /\ tokens' \in [Token -> TokenRow \cup {NoRow}]
         /\ \A q \in Token : tokens'[q] = tokens[q] \/ tokens'[q] = NoRow
         /\ lost \subseteq lost' /\ lost' \subseteq Token
         /\ (Live(r) => tokens[r].kind = kind) => Retired(r)'
BY DEF TypeOK, DeleteQuietly, Without, Live, Retired

\* Any step of a request that removes rows only.
LEMMA RemovalStep ==
  ASSUME IInv, NEW h \in Handler, NEW j \in Job, job' = [job EXCEPT ![h] = j],
         UNCHANGED <<active, expired, minted, delivered, parent, ended>>,
         tokens' \in [Token -> TokenRow \cup {NoRow}],
         \A q \in Token : tokens'[q] = tokens[q] \/ tokens'[q] = NoRow,
         lost \subseteq lost', lost' \subseteq Token, index' \subseteq index,
         \A row \in index : row \in index' \/ Retired(row.ref),
         JobOK(job[h])'
  PROVE  IInv'
<1>1. TypeOK'
  BY DEF IInv, TypeOK
<1>2. Progress
  BY DEF Progress, IInv, TypeOK
<1>3. \A g \in Handler : JobOK(job[g])'
  BY <1>1, <1>2, AllJobsOK DEF IInv, TypeOK
<1>4. MintedOnce' /\ IndexCoversTokens' /\ IndexFaithful'
      /\ RotationRetiresParent' /\ LogoutRevokes'
  BY <1>1, <1>2, RemovalKeepsStore
<1>5. QED
  BY <1>1, <1>3, <1>4 DEF IInv

LEMMA GetRefreshOK ==
  ASSUME IInv, NEW h \in Handler, GetRefresh(h)
  PROVE  IInv'
<1> DEFINE r == job[h].inhand
<1>1. /\ job[h] \in Job /\ JobOK(job[h]) /\ job[h].pc = "getRefresh"
      /\ job \in [Handler -> Job] /\ TypeOK /\ r \in Token
      /\ UNCHANGED <<active, index, expired, minted, delivered, parent,
                     ended>>
  BY DEF GetRefresh, IInv, TypeOK, JobOK, Holdings
<1>2. CASE Finish(h) /\ UNCHANGED <<tokens, lost>>
  BY <1>1, <1>2, FinishKeepsInv
<1>3. CASE DeleteQuietly("refresh", r) /\ Finish(h)
  BY <1>1, <1>3, DeleteQuietlyRetires, FinishOK, RemovalStep
<1>4. CASE /\ Live(r) /\ tokens[r].kind = "refresh"
           /\ job' = [job EXCEPT ![h].pc = "getApp", ![h].item = tokens[r]]
           /\ UNCHANGED <<tokens, lost>>
  <2> DEFINE j == [job[h] EXCEPT !.pc = "getApp", !.item = tokens[r]]
  <2>1. tokens[r] \in TokenRow
    BY <1>1, <1>4 DEF Live, TypeOK
  <2>2. j \in Job /\ job' = [job EXCEPT ![h] = j] /\ job'[h] = j
    BY <1>1, <1>4, <2>1 DEF Job, PC
  <2>3. JobOK(job[h])'
    BY <1>1, <1>4, <2>1, <2>2 DEF JobOK, OwnTenant, Holdings, Presented,
       AccessMinted, RefreshMinted, RetiredFirst, Sweep, Revocation, Job, Live
  <2>4. QED
    BY <1>1, <1>4, <2>2, <2>3, StoreUnchanged
<1>5. QED
  BY <1>2, <1>3, <1>4 DEF GetRefresh

LEMMA DropRefusedOK ==
  ASSUME IInv, NEW h \in Handler, DropRefused(h)
  PROVE  IInv'
<1>1. job[h].inhand \in Token /\ TypeOK
  BY DEF DropRefused, IInv, TypeOK, Job, JobOK, Holdings
<1>2. QED
  BY <1>1, DeleteQuietlyRetires, FinishOK, RemovalStep DEF DropRefused

LEMMA DeleteRevokedOK ==
  ASSUME IInv, NEW h \in Handler, DeleteRevoked(h)
  PROVE  IInv'
<1>1. TypeOK
  BY DEF IInv
<1>2. /\ tokens' \in [Token -> TokenRow \cup {NoRow}]
      /\ \A q \in Token : tokens'[q] = tokens[q] \/ tokens'[q] = NoRow
  BY <1>1 DEF DeleteRevoked, TypeOK
<1>3. lost' \subseteq Token
  BY <1>1 DEF DeleteRevoked, TypeOK
<1>4. QED
  BY <1>1, <1>2, <1>3, FinishOK, RemovalStep DEF DeleteRevoked

LEMMA DropOldOK ==
  ASSUME IInv, NEW h \in Handler, DropOld(h)
  PROVE  IInv'
<1> DEFINE j == [job[h] EXCEPT !.pc = "dropOldIndex"]
<1>0. PICK r \in Token : r = job[h].inhand
  BY DEF DropOld, IInv, TypeOK, Job, JobOK, Holdings
<1>1. /\ job[h] \in Job /\ JobOK(job[h]) /\ job[h].pc = "dropOld" /\ TypeOK
      /\ r \in minted /\ r # NoToken
  BY <1>0 DEF DropOld, IInv, TypeOK, Job, JobOK, Holdings
<1>2. j \in Job /\ job' = [job EXCEPT ![h] = j] /\ job'[h] = j
  BY <1>1 DEF DropOld, Goto, Job, PC, TypeOK
<1>3. /\ tokens' \in [Token -> TokenRow \cup {NoRow}]
      /\ \A q \in Token : tokens'[q] = tokens[q] \/ tokens'[q] = NoRow
      /\ lost \subseteq lost' /\ lost' \subseteq Token
      /\ (Live(r) => tokens[r].kind = "refresh") => Retired(r)'
  BY <1>0, <1>1, DeleteQuietlyRetires DEF DropOld
<1>4. Retired(r)'
  BY <1>0, <1>1, <1>3 DEF JobOK, Presented
<1>5. UNCHANGED <<active, index, expired, minted, delivered, parent, ended>>
  BY DEF DropOld
<1>6. /\ j.pc = "dropOldIndex" /\ j.session = job[h].session
      /\ j.item = job[h].item /\ j.inhand = r /\ j.access = job[h].access
      /\ j.refresh = job[h].refresh /\ j.rows = job[h].rows
      /\ j.owed = job[h].owed
  BY <1>0, <1>1 DEF Job
<1> HIDE DEF j
<1>7. JobOK(job[h])'
  <2>1. OwnTenant(job[h])' /\ Holdings(job[h])' /\ Revocation(job[h])'
    BY <1>1, <1>2, <1>5, <1>6 DEF JobOK, OwnTenant, Holdings, Revocation
  <2>2. Presented(job[h])' /\ RetiredFirst(job[h])'
    BY <1>0, <1>1, <1>2, <1>3, <1>4, <1>5, <1>6 DEF JobOK, Presented, RetiredFirst, Live
  <2>3. Covered(job[h].access)' /\ Covered(job[h].refresh)'
    <3>1. /\ job[h].access \in Token /\ Covered(job[h].access)
          /\ job[h].refresh \in Token /\ Covered(job[h].refresh)
      BY <1>1 DEF JobOK, Holdings, AccessMinted, RefreshMinted, Job
    <3>2. QED
      BY <3>1, <1>2, <1>3, <1>5, <1>6 DEF Covered, Usable, Live, SessionOf
  <2>4. AccessMinted(job[h])' /\ RefreshMinted(job[h])'
    BY <1>0, <1>1, <1>2, <1>5, <1>6, <2>3 DEF JobOK, AccessMinted, RefreshMinted,
       Covered, StoredAs
  <2>5. Sweep(job[h])'
    BY <1>1, <1>2, <1>6 DEF JobOK, Holdings, Sweep
  <2>6. QED
    BY <2>1, <2>2, <2>3, <2>4, <2>5 DEF JobOK
<1>8. QED
  BY <1>2, <1>3, <1>5, <1>7, RemovalStep

\* What is covered stays covered, and what is retired stays retired.
LEMMA HeldStable ==
  ASSUME IInv, TypeOK', Progress, NEW r \in Token, r \in minted
  PROVE  /\ Covered(r) => Covered(r)'
         /\ Retired(r) => Retired(r)'
         /\ ~Live(r) => ~Live(r)'
BY DEF IInv, TypeOK, Progress, Covered, Retired, Usable, Live, SessionOf

LEMMA DropOldIndexOK ==
  ASSUME IInv, NEW h \in Handler, DropOldIndex(h)
  PROVE  IInv'
<1> DEFINE j == [job[h] EXCEPT !.pc = "respond"]
<1>1. /\ job[h] \in Job /\ JobOK(job[h]) /\ job[h].pc = "dropOldIndex" /\ TypeOK
      /\ UNCHANGED <<active, tokens, expired, history>>
  BY DEF DropOldIndex, IInv, TypeOK
<1>2. j \in Job /\ job' = [job EXCEPT ![h] = j] /\ job'[h] = j
  BY <1>1 DEF DropOldIndex, Goto, Job, PC, TypeOK
<1>3. PICK r \in Token, a \in Token, b \in Token :
        /\ r = job[h].inhand /\ a = job[h].access /\ b = job[h].refresh
        /\ r \in minted /\ a \in minted /\ b \in minted
        /\ Retired(r) /\ Covered(a) /\ Covered(b)
  BY <1>1 DEF Job, JobOK, Holdings, RetiredFirst, AccessMinted, RefreshMinted
<1>4. index' \subseteq index /\ \A row \in index : row \in index' \/ Retired(row.ref)
  BY <1>1, <1>3 DEF DropOldIndex, DropIndexRow
<1>5. TypeOK' /\ Progress
  BY <1>1, <1>2, <1>4 DEF TypeOK, Progress
<1>6. Retired(r)' /\ Covered(a)' /\ Covered(b)'
  BY <1>3, <1>5, HeldStable
<1>7. /\ j.pc = "respond" /\ j.session = job[h].session
      /\ j.item = job[h].item /\ j.inhand = r /\ j.access = a
      /\ j.refresh = b /\ j.rows = {} /\ j.owed = {}
  BY <1>1, <1>3 DEF Job, JobOK, Holdings
<1> HIDE DEF j
<1>8. JobOK(job[h])'
  <2>1. OwnTenant(job[h])' /\ Holdings(job[h])' /\ Revocation(job[h])'
        /\ Sweep(job[h])'
    BY <1>1, <1>2, <1>3, <1>7 DEF JobOK, OwnTenant, Holdings, Revocation, Sweep
  <2>2. Presented(job[h])' /\ RetiredFirst(job[h])'
    BY <1>1, <1>2, <1>3, <1>6, <1>7 DEF JobOK, Presented, RetiredFirst, Live, Retired
  <2>3. AccessMinted(job[h])' /\ RefreshMinted(job[h])'
    BY <1>1, <1>2, <1>3, <1>6, <1>7 DEF JobOK, AccessMinted, RefreshMinted,
       Covered, Usable, Live, SessionOf
  <2>4. QED
    BY <2>1, <2>2, <2>3 DEF JobOK
<1>9. QED
  BY <1>1, <1>2, <1>4, <1>5, <1>8, RemovalStep DEF TypeOK

LEMMA SweepTokenOK ==
  ASSUME IInv, NEW h \in Handler, NEW row \in job[h].rows, SweepToken(h, row)
  PROVE  IInv'
<1> DEFINE rest == job[h].rows \ {row}
           j == [job[h] EXCEPT !.pc = "sweepIndex", !.inhand = row.ref, !.rows = rest]
<1>1. /\ job[h] \in Job /\ JobOK(job[h]) /\ job[h].pc = "sweepToken" /\ TypeOK
      /\ UNCHANGED <<active, index, expired, minted, delivered, parent, ended>>
  BY DEF SweepToken, IInv, TypeOK
<1>2. /\ row \in IndexRow /\ row.ref \in minted /\ row.ref \in Token
      /\ RowFaithful(row)
  BY <1>1 DEF Job, JobOK, Sweep, IndexRow
<1>3. j \in Job /\ job' = [job EXCEPT ![h] = j] /\ job'[h] = j
  BY <1>1, <1>2 DEF SweepToken, Job, PC, TypeOK
<1>4. PICK r \in Token : r = row.ref
  BY <1>2
<1>5. /\ tokens' \in [Token -> TokenRow \cup {NoRow}]
      /\ \A q \in Token : tokens'[q] = tokens[q] \/ tokens'[q] = NoRow
      /\ lost \subseteq lost' /\ lost' \subseteq Token
      /\ (Live(r) => tokens[r].kind = row.kind) => Retired(r)'
  BY <1>1, <1>4, DeleteQuietlyRetires DEF SweepToken
<1>6. Retired(r)'
  BY <1>2, <1>4, <1>5 DEF RowFaithful
<1>7. TypeOK' /\ Progress
  BY <1>1, <1>3, <1>5 DEF TypeOK, Progress
<1>8. /\ j.pc = "sweepIndex" /\ j.session = job[h].session
      /\ j.item = job[h].item /\ j.inhand = r /\ j.access = job[h].access
      /\ j.refresh = job[h].refresh /\ j.rows = rest /\ j.owed = job[h].owed
  BY <1>1, <1>4 DEF Job
<1>9. r \in minted /\ r # NoToken
  BY <1>2, <1>4
<1> HIDE DEF j
<1>10. JobOK(job[h])'
  <2>1. OwnTenant(job[h])' /\ Holdings(job[h])' /\ Revocation(job[h])'
    BY <1>1, <1>3, <1>8, <1>9 DEF JobOK, OwnTenant, Holdings, Revocation
  <2>2. Presented(job[h])' /\ RetiredFirst(job[h])'
        /\ AccessMinted(job[h])' /\ RefreshMinted(job[h])'
    BY <1>3, <1>6, <1>8 DEF Presented, RetiredFirst, AccessMinted, RefreshMinted,
       Retired, Live
  <2>3. Sweep(job[h])'
    <3>1. \A x \in rest : /\ x.session = job[h].session /\ x.ref \in minted'
                          /\ RowFaithful(x)'
      BY <1>1, <1>5 DEF JobOK, Sweep, RowFaithful, Live, SessionOf, Job, IndexRow
    <3>2. ASSUME NEW q \in job[h].owed
          PROVE  /\ q \in minted'
                 /\ (Usable(q) /\ q \notin lost)' => \E x \in rest : x.ref = q
      <4>1. q \in minted /\ q \in Token
            /\ (Usable(q) /\ q \notin lost => \E x \in job[h].rows : x.ref = q)
        BY <1>1 DEF JobOK, Sweep, Job
      <4>2. CASE q = r
        BY <1>1, <1>6, <4>1, <4>2 DEF Retired, Usable
      <4>3. CASE q # r
        BY <1>1, <1>4, <1>5, <4>1, <4>3 DEF Usable, Live
      <4>4. QED
        BY <4>2, <4>3
    <3>3. QED
      BY <1>3, <1>8, <3>1, <3>2 DEF Sweep, RowFaithful, Usable
  <2>4. QED
    BY <2>1, <2>2, <2>3 DEF JobOK
<1>11. QED
  BY <1>1, <1>3, <1>5, <1>10, RemovalStep

\* A logout is answered once every token it owed is retired or has expired.
LEMMA LogoutAnswered ==
  ASSUME IInv, NEW h \in Handler, FinishLogout(h),
         UNCHANGED <<active, tokens, expired, minted, delivered, parent, lost>>,
         index' \subseteq index,
         \A row \in index : row \in index' \/ Retired(row.ref),
         \A r \in job[h].owed : r \in minted /\ (~Usable(r) \/ r \in lost)
  PROVE  IInv'
<1>1. TypeOK /\ job' = [job EXCEPT ![h] = Idle] /\ Idle \in Job
      /\ JobOK(job[h])' /\ ended' = ended \cup job[h].owed /\ job[h] \in Job
  BY FinishOK DEF IInv, FinishLogout, TypeOK
<1>2. TypeOK' /\ Progress
  BY <1>1 DEF TypeOK, Progress, Job
<1>3. \A g \in Handler : JobOK(job[g])'
  BY <1>1, <1>2, AllJobsOK DEF TypeOK
<1>4. MintedOnce'
  BY <1>1 DEF IInv, MintedOnce, Live
<1>5. IndexCoversTokens' /\ RotationRetiresParent'
  BY <1>1, <1>2 DEF IInv, IndexCoversTokens, Covered, Usable, Live, Retired,
     SessionOf, RotationRetiresParent, TypeOK
<1>6. IndexFaithful' /\ LogoutRevokes'
  BY <1>1 DEF IInv, IndexFaithful, RowFaithful, Live, LogoutRevokes, Usable
<1>7. QED
  BY <1>2, <1>3, <1>4, <1>5, <1>6 DEF IInv

LEMMA SweepIndexOK ==
  ASSUME IInv, NEW h \in Handler, SweepIndex(h)
  PROVE  IInv'
<1>1. /\ job[h] \in Job /\ JobOK(job[h]) /\ job[h].pc = "sweepIndex" /\ TypeOK
      /\ UNCHANGED <<active, tokens, expired, minted, delivered, parent, lost>>
  BY DEF SweepIndex, IInv, TypeOK
<1>2. index' \subseteq index /\ \A row \in index : row \in index' \/ Retired(row.ref)
  BY <1>1 DEF SweepIndex, DropIndexRow, JobOK, RetiredFirst
<1>3. CASE job[h].rows = {}
  <2>1. \A r \in job[h].owed : r \in minted /\ (~Usable(r) \/ r \in lost)
    BY <1>1, <1>3 DEF JobOK, Sweep
  <2>2. FinishLogout(h)
    BY <1>3 DEF SweepIndex
  <2>3. QED
    BY <1>1, <1>2, <2>1, <2>2, LogoutAnswered
<1>4. CASE job[h].rows # {}
  <2> DEFINE j == [job[h] EXCEPT !.pc = "sweepToken"]
  <2>1. j \in Job /\ job' = [job EXCEPT ![h] = j] /\ job'[h] = j /\ ended' = ended
    BY <1>1, <1>4 DEF SweepIndex, Goto, Job, PC, TypeOK
  <2>2. /\ j.pc = "sweepToken" /\ j.session = job[h].session
        /\ j.item = job[h].item /\ j.inhand = job[h].inhand
        /\ j.access = job[h].access /\ j.refresh = job[h].refresh
        /\ j.rows = job[h].rows /\ j.owed = job[h].owed
    BY <1>1 DEF Job
  <2> HIDE DEF j
  <2>3. JobOK(job[h])'
    BY <1>1, <2>1, <2>2 DEF JobOK, OwnTenant, Holdings, Presented, AccessMinted,
       RefreshMinted, RetiredFirst, Sweep, Revocation, Live, Usable, RowFaithful
  <2>4. QED
    BY <1>1, <1>2, <2>1, <2>3, RemovalStep DEF TypeOK
<1>5. QED
  BY <1>3, <1>4

LEMMA QueryIndexOK ==
  ASSUME IInv, NEW h \in Handler, QueryIndex(h)
  PROVE  IInv'
<1> DEFINE found == {row \in index : row.session = job[h].session}
<1>1. /\ job[h] \in Job /\ JobOK(job[h]) /\ job[h].pc = "query" /\ TypeOK
      /\ UNCHANGED <<storeVars, minted, delivered, parent, lost>>
  BY DEF QueryIndex, IInv, TypeOK
<1>2. ASSUME NEW r \in job[h].owed
      PROVE  r \in minted /\ (Usable(r) /\ r \notin lost => \E row \in found : row.ref = r)
  <2>1. /\ r \in minted /\ r \in Token
        /\ Usable(r) /\ r \notin lost =>
             r \in delivered /\ SessionOf(tokens[r]) = job[h].session
    BY <1>1 DEF JobOK, Sweep, Job
  <2>2. r \in delivered => Covered(r)
    BY DEF IInv, IndexCoversTokens
  <2>3. QED
    BY <2>1, <2>2 DEF Covered
<1>3. CASE Finish(h) /\ UNCHANGED ended
  BY <1>1, <1>3, FinishKeepsInv
<1>4. CASE found = {} /\ FinishLogout(h)
  BY <1>1, <1>2, <1>4, LogoutAnswered
<1>5. CASE /\ job' = [job EXCEPT ![h].pc = "sweepToken", ![h].rows = found]
           /\ UNCHANGED ended
  <2> DEFINE j == [job[h] EXCEPT !.pc = "sweepToken", !.rows = found]
  <2>1. j \in Job /\ job' = [job EXCEPT ![h] = j] /\ job'[h] = j
    BY <1>1, <1>5 DEF Job, PC, TypeOK
  <2>2. /\ j.pc = "sweepToken" /\ j.session = job[h].session
        /\ j.item = job[h].item /\ j.inhand = job[h].inhand
        /\ j.access = job[h].access /\ j.refresh = job[h].refresh
        /\ j.rows = found /\ j.owed = job[h].owed
    BY <1>1 DEF Job
  <2>3. \A row \in found : /\ row.session = job[h].session
                           /\ row.ref \in minted /\ RowFaithful(row)
    BY DEF IInv, MintedOnce, IndexFaithful
  <2> HIDE DEF j, found
  <2>4. Sweep(job[h])'
    BY <1>1, <1>2, <1>5, <2>1, <2>2, <2>3 DEF Sweep, Live, Usable, RowFaithful
  <2>5. JobOK(job[h])'
    BY <1>1, <1>5, <2>1, <2>2, <2>4 DEF JobOK, OwnTenant, Holdings, Presented,
       AccessMinted, RefreshMinted, RetiredFirst, Revocation
  <2>6. QED
    BY <1>1, <1>5, <2>1, <2>5, StoreUnchanged
<1>6. QED
  BY <1>3, <1>4, <1>5 DEF QueryIndex

-----------------------------------------------------------------------------
(* Grants mint, index and deliver tokens *)

\* Storing a token under a fresh value disturbs nothing known of the others.
LEMMA MintStep ==
  ASSUME IInv, NEW h \in Handler, NEW j \in Job, job' = [job EXCEPT ![h] = j],
         NEW r \in Token, r \notin minted, minted' = minted \cup {r},
         NEW row \in TokenRow \cup {NoRow}, tokens' = [tokens EXCEPT ![r] = row],
         NEW p \in minted \cup {NoToken}, parent' = [parent EXCEPT ![r] = p],
         UNCHANGED <<active, index, expired, delivered, lost, ended>>,
         JobOK(job[h])'
  PROVE  IInv'
<1>1. TypeOK'
  BY DEF IInv, TypeOK
<1>2. Progress
  BY DEF Progress, IInv, TypeOK
<1>3. \A g \in Handler : JobOK(job[g])'
  BY <1>1, <1>2, AllJobsOK DEF IInv, TypeOK
<1>4. MintedOnce'
  BY DEF IInv, TypeOK, MintedOnce, Live
<1>5. \A q \in minted : tokens'[q] = tokens[q] /\ parent'[q] = parent[q]
  BY DEF IInv, TypeOK
<1>6. IndexCoversTokens' /\ IndexFaithful'
  BY <1>5 DEF IInv, MintedOnce, IndexCoversTokens, Covered, Usable, Live,
     IndexFaithful, RowFaithful, SessionOf
<1>7. RotationRetiresParent' /\ LogoutRevokes'
  BY <1>5 DEF IInv, TypeOK, MintedOnce, RotationRetiresParent, LogoutRevokes, Usable, Live
<1>8. QED
  BY <1>1, <1>3, <1>4, <1>6, <1>7 DEF IInv

LEMMA PutAccessOK ==
  ASSUME IInv, NEW h \in Handler, NEW r \in Token, PutAccess(h, r)
  PROVE  IInv'
<1> DEFINE session == job[h].session
           row == [kind |-> "access", subject |-> session.subject,
                   client |-> session.client]
           j == [job[h] EXCEPT !.pc = "indexAccess", !.access = r]
<1>1. /\ job[h] \in Job /\ JobOK(job[h]) /\ job[h].pc = "putAccess" /\ TypeOK
      /\ MintedOnce /\ r \notin minted /\ minted' = minted \cup {r}
      /\ UNCHANGED <<active, index, expired, delivered, parent, lost, ended>>
  BY DEF PutAccess, IInv, TypeOK
<1>2. parent[r] = NoToken /\ tokens[r] = NoRow
      /\ parent' = [parent EXCEPT ![r] = NoToken]
  BY <1>1 DEF MintedOnce, Live, TypeOK
<1>3. CASE Finish(h) /\ UNCHANGED tokens
  <2>1. tokens' = [tokens EXCEPT ![r] = NoRow]
    BY <1>1, <1>2, <1>3 DEF TypeOK
  <2>2. job' = [job EXCEPT ![h] = Idle] /\ Idle \in Job /\ JobOK(job[h])'
    BY <1>1, <1>3, FinishOK
  <2>3. QED
    BY <1>1, <1>2, <2>1, <2>2, MintStep
<1>4. CASE /\ tokens' = [tokens EXCEPT ![r] = row]
           /\ job' = [job EXCEPT ![h].pc = "indexAccess", ![h].access = r]
  <2>1. j \in Job /\ job' = [job EXCEPT ![h] = j] /\ job'[h] = j /\ row \in TokenRow
    BY <1>1, <1>4 DEF Job, PC, TypeOK, Session, TokenRow, Kind
  <2>2. /\ j.pc = "indexAccess" /\ j.session = session
        /\ j.item = job[h].item /\ j.inhand = job[h].inhand
        /\ j.access = r /\ j.refresh = NoToken /\ j.rows = {} /\ j.owed = {}
    BY <1>1 DEF Job, JobOK, Holdings
  <2>3. tokens'[r] = row /\ r # NoToken
        /\ \A q \in minted : tokens'[q] = tokens[q]
    BY <1>1, <1>4 DEF TypeOK
  <2> HIDE DEF j
  <2>4. OwnTenant(job[h])' /\ Holdings(job[h])' /\ Revocation(job[h])'
        /\ Sweep(job[h])' /\ RetiredFirst(job[h])' /\ RefreshMinted(job[h])'
    BY <1>1, <2>1, <2>2, <2>3 DEF JobOK, OwnTenant, Holdings, Revocation, Sweep,
       RetiredFirst, RefreshMinted
  <2>5. Presented(job[h])'
    BY <1>1, <2>1, <2>2, <2>3 DEF JobOK, Holdings, Presented, Live
  <2>6. AccessMinted(job[h])'
    BY <1>1, <1>2, <2>1, <2>2, <2>3 DEF AccessMinted, StoredAs
  <2>7. JobOK(job[h])'
    BY <2>4, <2>5, <2>6 DEF JobOK
  <2>8. QED
    BY <1>1, <1>2, <1>4, <2>1, <2>7, MintStep
<1>5. QED
  BY <1>3, <1>4 DEF PutAccess

LEMMA PutRefreshOK ==
  ASSUME IInv, NEW h \in Handler, NEW r \in Token, PutRefresh(h, r)
  PROVE  IInv'
<1> DEFINE session == job[h].session
           row == [kind |-> "refresh", subject |-> session.subject,
                   client |-> session.client]
           j == [job[h] EXCEPT !.pc = "indexRefresh", !.refresh = r]
<1>1. /\ job[h] \in Job /\ JobOK(job[h]) /\ job[h].pc = "putRefresh" /\ TypeOK
      /\ MintedOnce /\ r \notin minted /\ minted' = minted \cup {r}
      /\ UNCHANGED <<active, index, expired, delivered, lost, ended>>
  BY DEF PutRefresh, IInv, TypeOK
<1>2. parent[r] = NoToken /\ tokens[r] = NoRow
  BY <1>1 DEF MintedOnce, Live, TypeOK
<1>3. CASE Finish(h) /\ UNCHANGED <<tokens, parent>>
  <2>1. tokens' = [tokens EXCEPT ![r] = NoRow]
        /\ parent' = [parent EXCEPT ![r] = NoToken]
    BY <1>1, <1>2, <1>3 DEF TypeOK
  <2>2. job' = [job EXCEPT ![h] = Idle] /\ Idle \in Job /\ JobOK(job[h])'
    BY <1>1, <1>3, FinishOK
  <2>3. QED
    BY <1>1, <1>2, <2>1, <2>2, MintStep
<1>4. CASE /\ tokens' = [tokens EXCEPT ![r] = row]
           /\ parent' = [parent EXCEPT ![r] = job[h].inhand]
           /\ job' = [job EXCEPT ![h].pc = "indexRefresh", ![h].refresh = r]
  <2>0. PICK a \in Token : a = job[h].access /\ a \in minted /\ Covered(a)
                           /\ parent[a] = NoToken
    BY <1>1 DEF JobOK, Holdings, AccessMinted, TypeOK
  <2>1. j \in Job /\ job' = [job EXCEPT ![h] = j] /\ job'[h] = j /\ row \in TokenRow
    BY <1>1, <1>4 DEF Job, PC, TypeOK, Session, TokenRow, Kind
  <2>2. /\ j.pc = "indexRefresh" /\ j.session = session
        /\ j.item = job[h].item /\ j.inhand = job[h].inhand
        /\ j.access = a /\ j.refresh = r /\ j.rows = {} /\ j.owed = {}
    BY <1>1, <2>0 DEF Job, JobOK, Holdings
  <2>3. /\ tokens'[r] = row /\ parent'[r] = job[h].inhand /\ r # NoToken
        /\ \A q \in minted : tokens'[q] = tokens[q] /\ parent'[q] = parent[q]
        /\ job[h].inhand \in minted \cup {NoToken}
    BY <1>1, <1>4 DEF TypeOK, JobOK, Holdings
  <2> HIDE DEF j
  <2>4. OwnTenant(job[h])' /\ Holdings(job[h])' /\ Revocation(job[h])'
        /\ Sweep(job[h])' /\ RetiredFirst(job[h])'
    BY <1>1, <2>0, <2>1, <2>2, <2>3 DEF JobOK, OwnTenant, Holdings, Revocation,
       Sweep, RetiredFirst
  <2>5. Presented(job[h])'
    BY <1>1, <2>1, <2>2, <2>3 DEF JobOK, Holdings, Presented, Live
  <2>6. AccessMinted(job[h])'
    BY <1>1, <2>0, <2>1, <2>2, <2>3 DEF AccessMinted, Covered, Usable, Live, SessionOf
  <2>7. RefreshMinted(job[h])'
    BY <1>1, <2>1, <2>2, <2>3 DEF RefreshMinted, StoredAs
  <2>8. JobOK(job[h])'
    BY <2>4, <2>5, <2>6, <2>7 DEF JobOK
  <2>9. PICK q \in minted \cup {NoToken} : q = job[h].inhand
    BY <2>3
  <2>10. PICK x \in TokenRow : x = row
    BY <2>1
  <2>11. parent' = [parent EXCEPT ![r] = q] /\ tokens' = [tokens EXCEPT ![r] = x]
    BY <1>4, <2>9, <2>10
  <2>12. QED
    BY <1>1, <2>1, <2>8, <2>11, MintStep
<1>5. QED
  BY <1>3, <1>4 DEF PutRefresh

\* Indexing a token a request has just stored.
LEMMA IndexStep ==
  ASSUME IInv, NEW h \in Handler, NEW j \in Job, job' = [job EXCEPT ![h] = j],
         NEW r \in Token, r \in minted, NEW kind \in Kind, NEW session \in Session,
         session.tenant = TenantOf[session.client],
         StoredAs(r, kind, session), PutIndexRow(session, kind, r),
         UNCHANGED <<active, tokens, expired, minted, delivered, parent, ended>>
  PROVE  /\ TypeOK' /\ Progress /\ Covered(r)'
         /\ JobOK(job[h])' => IInv'
<1> DEFINE row == [session |-> session, kind |-> kind, ref |-> r]
<1>1. row \in IndexRow /\ row.ref = r /\ row.session = session /\ row.kind = kind
  BY DEF IndexRow
<1>2. /\ index \subseteq index' /\ lost \subseteq lost'
      /\ \A x \in index' : x \in index \/ x = row
      /\ (row \in index' \/ r \in lost')
  BY DEF PutIndexRow
<1>3. lost' \subseteq Token /\ TypeOK /\ index' \subseteq IndexRow
  BY <1>1 DEF PutIndexRow, IInv, TypeOK
<1>4. TypeOK' /\ Progress
  BY <1>2, <1>3 DEF TypeOK, Progress
<1>5. Live(r) => SessionOf(tokens[r]) = session /\ tokens[r].kind = kind
  BY DEF StoredAs, SessionOf, Session
<1>6. Covered(r)'
  BY <1>2, <1>5 DEF Covered, Usable, Live, SessionOf
<1>7. IndexFaithful' /\ IndexCoversTokens'
  BY <1>1, <1>2, <1>5 DEF IInv, IndexFaithful, RowFaithful, Live, SessionOf,
     IndexCoversTokens, Covered, Usable
<1>8. MintedOnce' /\ RotationRetiresParent' /\ LogoutRevokes'
  BY <1>1, <1>2 DEF IInv, MintedOnce, RotationRetiresParent, LogoutRevokes, Live, Usable
<1>9. JobOK(job[h])' => \A g \in Handler : JobOK(job[g])'
  BY <1>3, <1>4, AllJobsOK DEF TypeOK
<1>10. QED
  BY <1>4, <1>6, <1>7, <1>8, <1>9 DEF IInv

LEMMA IndexAccessOK ==
  ASSUME IInv, NEW h \in Handler, IndexAccess(h)
  PROVE  IInv'
<1> DEFINE next == IF job[h].offline THEN "putRefresh" ELSE "respond"
           j == [job[h] EXCEPT !.pc = next]
<1>1. /\ job[h] \in Job /\ JobOK(job[h]) /\ job[h].pc = "indexAccess" /\ TypeOK
      /\ next \in {"putRefresh", "respond"}
      /\ UNCHANGED <<active, tokens, expired, minted, delivered, parent, ended>>
  BY DEF IndexAccess, IInv, TypeOK
<1>2. PICK r \in Token, session \in Session :
        /\ r = job[h].access /\ session = job[h].session
        /\ r \in minted /\ parent[r] = NoToken /\ StoredAs(r, "access", session)
        /\ session.tenant = TenantOf[session.client]
  BY <1>1 DEF Job, JobOK, Holdings, OwnTenant, AccessMinted, TypeOK
<1>3. j \in Job /\ job' = [job EXCEPT ![h] = j] /\ job'[h] = j
  BY <1>1 DEF IndexAccess, Goto, Job, PC, TypeOK
<1>4. TypeOK' /\ Progress /\ Covered(r)' /\ (JobOK(job[h])' => IInv')
  BY <1>1, <1>2, <1>3, IndexStep DEF IndexAccess, Kind
<1>5. /\ j.pc = next /\ j.session = session
      /\ j.item = job[h].item /\ j.inhand = job[h].inhand
      /\ j.access = r /\ j.refresh = NoToken /\ j.rows = {} /\ j.owed = {}
  BY <1>1, <1>2 DEF Job, JobOK, Holdings
<1> HIDE DEF j, next
<1>6. OwnTenant(job[h])' /\ Holdings(job[h])' /\ Revocation(job[h])'
      /\ Sweep(job[h])' /\ RetiredFirst(job[h])' /\ RefreshMinted(job[h])'
  BY <1>1, <1>2, <1>3, <1>5 DEF JobOK, OwnTenant, Holdings, Revocation, Sweep,
     RetiredFirst, RefreshMinted
<1>7. Presented(job[h])'
  BY <1>1, <1>2, <1>3, <1>5 DEF JobOK, Presented, Live
<1>8. AccessMinted(job[h])'
  BY <1>1, <1>2, <1>3, <1>4, <1>5 DEF AccessMinted, Covered, Usable, Live, SessionOf
<1>9. QED
  BY <1>4, <1>6, <1>7, <1>8 DEF JobOK

LEMMA IndexRefreshOK ==
  ASSUME IInv, NEW h \in Handler, IndexRefresh(h)
  PROVE  IInv'
<1> DEFINE next == IF job[h].inhand = NoToken THEN "respond" ELSE "dropOld"
           j == [job[h] EXCEPT !.pc = next]
<1>1. /\ job[h] \in Job /\ JobOK(job[h]) /\ job[h].pc = "indexRefresh" /\ TypeOK
      /\ next \in {"respond", "dropOld"}
      /\ next = "respond" <=> job[h].inhand = NoToken
      /\ UNCHANGED <<active, tokens, expired, minted, delivered, parent, ended>>
  BY DEF IndexRefresh, IInv, TypeOK
<1>2. PICK r \in Token, a \in Token, session \in Session :
        /\ r = job[h].refresh /\ a = job[h].access /\ session = job[h].session
        /\ r \in minted /\ a \in minted /\ Covered(a) /\ parent[a] = NoToken
        /\ parent[r] = job[h].inhand /\ StoredAs(r, "refresh", session)
        /\ session.tenant = TenantOf[session.client]
  BY <1>1 DEF Job, JobOK, Holdings, OwnTenant, AccessMinted, RefreshMinted, TypeOK
<1>3. j \in Job /\ job' = [job EXCEPT ![h] = j] /\ job'[h] = j
  BY <1>1 DEF IndexRefresh, Goto, Job, PC, TypeOK
<1>4. TypeOK' /\ Progress /\ Covered(r)' /\ (JobOK(job[h])' => IInv')
  BY <1>1, <1>2, <1>3, IndexStep DEF IndexRefresh, Kind
<1>5. Covered(a)'
  BY <1>2, <1>4, HeldStable
<1>6. /\ j.pc = next /\ j.session = session
      /\ j.item = job[h].item /\ j.inhand = job[h].inhand
      /\ j.access = a /\ j.refresh = r /\ j.rows = {} /\ j.owed = {}
  BY <1>1, <1>2 DEF Job, JobOK, Holdings
<1> HIDE DEF j, next
<1>7. OwnTenant(job[h])' /\ Holdings(job[h])' /\ Revocation(job[h])'
      /\ Sweep(job[h])' /\ RetiredFirst(job[h])'
  BY <1>1, <1>2, <1>3, <1>6 DEF JobOK, OwnTenant, Holdings, Revocation, Sweep,
     RetiredFirst
<1>8. Presented(job[h])'
  BY <1>1, <1>2, <1>3, <1>6 DEF JobOK, Presented, Live
<1>9. AccessMinted(job[h])' /\ RefreshMinted(job[h])'
  BY <1>1, <1>2, <1>3, <1>4, <1>5, <1>6 DEF AccessMinted, RefreshMinted, Covered,
     Usable, Live, SessionOf
<1>10. QED
  BY <1>4, <1>7, <1>8, <1>9 DEF JobOK

LEMMA RespondOK ==
  ASSUME IInv, NEW h \in Handler, Respond(h)
  PROVE  IInv'
<1> DEFINE new == {job[h].access, job[h].refresh} \ {NoToken}
<1>1. /\ job[h] \in Job /\ JobOK(job[h]) /\ job[h].pc = "respond" /\ TypeOK
      /\ delivered' = delivered \cup new
      /\ UNCHANGED <<storeVars, minted, parent, lost, ended>>
  BY DEF Respond, IInv, TypeOK
<1>2. ASSUME NEW r \in new
      PROVE  /\ r \in minted /\ r \in Token /\ Covered(r)
             /\ parent[r] # NoToken => Retired(parent[r])
  BY <1>1 DEF Job, JobOK, Holdings, AccessMinted, RefreshMinted, RetiredFirst, TypeOK
<1>3. /\ job' = [job EXCEPT ![h] = Idle] /\ Idle \in Job /\ JobOK(job[h])'
  BY <1>1, FinishOK DEF Respond
<1> HIDE DEF new
<1>4. TypeOK' /\ Progress
  BY <1>1, <1>2, <1>3 DEF TypeOK, Progress
<1>5. \A g \in Handler : JobOK(job[g])'
  BY <1>1, <1>3, <1>4, AllJobsOK DEF TypeOK
<1>6. MintedOnce' /\ IndexFaithful' /\ LogoutRevokes'
  BY <1>1, <1>2 DEF IInv, MintedOnce, IndexFaithful, RowFaithful, LogoutRevokes,
     Live, Usable
<1>7. IndexCoversTokens'
  BY <1>1, <1>2 DEF IInv, IndexCoversTokens, Covered, Usable, Live
<1>8. RotationRetiresParent'
  BY <1>1, <1>2 DEF IInv, RotationRetiresParent, Retired, Live
<1>9. QED
  BY <1>4, <1>5, <1>6, <1>7, <1>8 DEF IInv

-----------------------------------------------------------------------------
(* The environment *)

\* Steps that leave every request where it is.
LEMMA EnvironmentStep ==
  ASSUME IInv, TypeOK', UNCHANGED <<job, minted, delivered, parent, lost, ended>>,
         \A r \in Token : tokens'[r] = tokens[r] \/ tokens'[r] = NoRow,
         expired \subseteq expired', index' \subseteq index,
         \A row \in index : row \in index' \/ row.ref \in expired
  PROVE  IInv'
<1>1. Progress
  BY DEF Progress, IInv, TypeOK
<1>2. \A h \in Handler : JobOK(job[h])'
  BY <1>1, JobStable
<1>3. MintedOnce' /\ IndexCoversTokens' /\ IndexFaithful'
      /\ RotationRetiresParent' /\ LogoutRevokes'
  BY <1>1, RemovalKeepsStore
<1>4. QED
  BY <1>2, <1>3 DEF IInv

LEMMA EnvironmentOK ==
  ASSUME IInv, Environment
  PROVE  IInv'
<1>1. TypeOK
  BY DEF IInv
<1>2. CASE \E c \in Client : SetStatus(c)
  <2>1. TypeOK'
    BY <1>1, <1>2 DEF SetStatus, TypeOK
  <2>2. QED
    BY <1>2, <2>1, EnvironmentStep DEF SetStatus
<1>3. CASE \E r \in Token : Expire(r)
  <2>1. TypeOK'
    BY <1>1, <1>3 DEF Expire, TypeOK
  <2>2. QED
    BY <1>3, <2>1, EnvironmentStep DEF Expire
<1>4. CASE \E r \in Token : TTLToken(r)
  <2>1. TypeOK' /\ \A q \in Token : tokens'[q] = tokens[q] \/ tokens'[q] = NoRow
    BY <1>1, <1>4 DEF TTLToken, TypeOK
  <2>2. QED
    BY <1>4, <2>1, EnvironmentStep DEF TTLToken
<1>5. CASE \E row \in index : TTLIndex(row)
  <2>1. TypeOK'
    BY <1>1, <1>5 DEF TTLIndex, TypeOK
  <2>2. QED
    BY <1>5, <2>1, EnvironmentStep DEF TTLIndex
<1>6. QED
  BY <1>2, <1>3, <1>4, <1>5 DEF Environment

-----------------------------------------------------------------------------
(* The theorems *)

\* Every step of the token endpoints, and of their environment, preserves the
\* inductive invariant.
THEOREM NextIInv == IInv /\ [Next]_vars => IInv'
<1> SUFFICES ASSUME IInv, [Next]_vars PROVE IInv'
  OBVIOUS
<1>1. ASSUME NEW h \in Handler, Request(h) PROVE IInv'
  BY <1>1, StartCodeGrantOK, StartLogoutOK, StartRefreshOK, StartRevokeOK DEF Request
<1>2. ASSUME NEW h \in Handler, Grant(h) PROVE IInv'
  BY <1>2, GetRefreshOK, GetAppOK, DropRefusedOK, PutAccessOK, PutRefreshOK,
     IndexAccessOK, IndexRefreshOK, DropOldOK, DropOldIndexOK, RespondOK DEF Grant
<1>3. ASSUME NEW h \in Handler, Logout(h) PROVE IInv'
  BY <1>3, QueryIndexOK, SweepTokenOK, SweepIndexOK DEF Logout
<1>4. ASSUME NEW h \in Handler, Revoke(h) PROVE IInv'
  BY <1>4, GetRevokedOK, DeleteRevokedOK DEF Revoke
<1>5. ASSUME NEW h \in Handler, Crash(h) PROVE IInv'
  BY <1>5, FinishKeepsInv DEF Crash
<1>6. CASE Environment
  BY <1>6, EnvironmentOK
<1>7. CASE UNCHANGED vars
  <2>1. TypeOK'
    BY <1>7 DEF vars, IInv, TypeOK
  <2>2. QED
    BY <1>7, <2>1, EnvironmentStep DEF vars
<1>8. QED
  BY <1>1, <1>2, <1>3, <1>4, <1>5, <1>6, <1>7 DEF Next

\* The inductive invariant holds of every reachable state.
THEOREM Invariance == Spec => []IInv
BY InitIInv, NextIInv, PTL DEF Spec

\* Type correctness.
THEOREM TypeCorrect == Spec => []TypeOK
BY Invariance, PTL DEF IInv

\* TerminateSession's index misses no token a client holds, unless one of the
\* best-effort writes of indexSessionToken or a rotation failed for it.
THEOREM Covers == Spec => []IndexCoversTokens
BY Invariance, PTL DEF IInv

\* A session's index rows lead to that session's tokens only.
THEOREM Faithful == Spec => []IndexFaithful
BY Invariance, PTL DEF IInv

\* An answered rotation has retired the refresh token it was presented.
THEOREM Retires == Spec => []RotationRetiresParent
BY Invariance, PTL DEF IInv

\* An answered logout has retired every token its user's client held when it
\* began, whatever else was running.
THEOREM Revokes == Spec => []LogoutRevokes
BY Invariance, PTL DEF IInv

\* No request revokes an unexpired token of another client or user, except a
\* refresh grant that found the token's application not active.
THEOREM OwnRemovals == Spec => RemovalsAreOwn
<1>1. ASSUME IInv, [Next]_vars, NEW r \in Token,
             Live(r), r \notin expired, tokens'[r] = NoRow
      PROVE  \E h \in Handler :
               \/ job[h].pc = "dropRefused" /\ job[h].inhand = r
               \/ /\ job[h].session.client = tokens[r].client
                  /\ job[h].session.tenant = TenantOf[tokens[r].client]
                  /\ job[h].pc = "sweepToken" =>
                       job[h].session.subject = tokens[r].subject
                  /\ job[h].pc \in {"dropOld", "sweepToken", "deleteRevoked"}
  <2>1. TypeOK /\ \A h \in Handler : JobOK(job[h]) /\ job[h] \in Job
    BY <1>1 DEF IInv, TypeOK
  <2>2. tokens' # tokens
    BY <1>1, <2>1 DEF Live
  <2>3. ASSUME NEW h \in Handler, NEW q \in Token,
               PutAccess(h, q) \/ PutRefresh(h, q)
        PROVE  FALSE
    BY <1>1, <2>1, <2>3 DEF PutAccess, PutRefresh, TypeOK, IInv, MintedOnce, Live, TokenRow
  <2>4. ASSUME NEW h \in Handler, GetRefresh(h)
        PROVE  FALSE
    BY <1>1, <2>1, <2>4 DEF GetRefresh, DeleteQuietly, Without, TypeOK, Live
  <2>5. ASSUME NEW h \in Handler, DropRefused(h)
        PROVE  job[h].pc = "dropRefused" /\ job[h].inhand = r
    BY <1>1, <2>1, <2>5 DEF DropRefused, DeleteQuietly, Without, TypeOK, Live
  <2>6. ASSUME NEW h \in Handler, DropOld(h)
        PROVE  /\ job[h].session.client = tokens[r].client
               /\ job[h].session.tenant = TenantOf[tokens[r].client]
               /\ job[h].pc = "dropOld"
    <3>1. job[h].inhand = r /\ job[h].pc = "dropOld" /\ JobOK(job[h])
      BY <1>1, <2>1, <2>6 DEF DropOld, DeleteQuietly, Without, TypeOK, Live
    <3>2. QED
      BY <1>1, <3>1 DEF JobOK, OwnTenant, Holdings, Presented
  <2>7. ASSUME NEW h \in Handler, NEW row \in job[h].rows, SweepToken(h, row)
        PROVE  /\ job[h].session.client = tokens[r].client
               /\ job[h].session.tenant = TenantOf[tokens[r].client]
               /\ job[h].session.subject = tokens[r].subject
               /\ job[h].pc = "sweepToken"
    <3>1. row.ref = r /\ job[h].pc = "sweepToken" /\ JobOK(job[h])
      BY <1>1, <2>1, <2>7 DEF SweepToken, DeleteQuietly, Without, TypeOK, Live
    <3>2. row.session = job[h].session /\ RowFaithful(row)
      BY <3>1 DEF JobOK, Sweep
    <3>3. QED
      BY <1>1, <3>1, <3>2 DEF RowFaithful, SessionOf
  <2>8. ASSUME NEW h \in Handler, DeleteRevoked(h)
        PROVE  /\ job[h].session.client = tokens[r].client
               /\ job[h].session.tenant = TenantOf[tokens[r].client]
               /\ job[h].pc = "deleteRevoked"
    <3>1. job[h].inhand = r /\ job[h].pc = "deleteRevoked" /\ JobOK(job[h])
      BY <1>1, <2>1, <2>8 DEF DeleteRevoked, TypeOK, Live
    <3>2. QED
      BY <1>1, <3>1 DEF JobOK, OwnTenant, Revocation
  <2>9. ~Environment
    BY <1>1, <2>1, <2>2 DEF Environment, SetStatus, Expire, TTLToken,
       TTLIndex, Live, TypeOK
  <2>10. PICK h \in Handler :
           Request(h) \/ Grant(h) \/ Logout(h) \/ Revoke(h) \/ Crash(h)
    BY <1>1, <2>2, <2>9 DEF Next, vars
  <2>11. ~Request(h) /\ ~Crash(h)
    BY <2>2 DEF Request, StartCodeGrant, StartLogout, StartRefresh, StartRevoke, Crash
  <2>12. CASE Grant(h)
    BY <2>2, <2>3, <2>4, <2>5, <2>6, <2>12 DEF Grant, GetApp, IndexAccess, IndexRefresh,
       DropOldIndex, Respond
  <2>13. CASE Logout(h)
    BY <2>2, <2>7, <2>13 DEF Logout, QueryIndex, SweepIndex
  <2>14. CASE Revoke(h)
    BY <2>2, <2>8, <2>14 DEF Revoke, GetRevoked
  <2>15. QED
    BY <2>10, <2>11, <2>12, <2>13, <2>14
<1>2. IInv /\ [Next]_vars => [\A r \in Token : RemovedByOwner(r)]_vars
  BY <1>1 DEF RemovedByOwner
<1>3. QED
  BY <1>2, Invariance, PTL DEF Spec, RemovalsAreOwn

=============================================================================
