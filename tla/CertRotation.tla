----------------------------- MODULE CertRotation -----------------------------
(***************************************************************************)
(* The gateway's signing certificates: three rows (active, next, backup)   *)
(* in the configuration table, written by the rotation check               *)
(* (internal/crypto/cert_rotation.go), by an operator's import and backup  *)
(* promotion (internal/service/cert_manager.go) and by a cold start of the *)
(* SSO function, and read by instances that keep what they read for as     *)
(* long as they are warm. A relying party trusts what the metadata         *)
(* endpoint last told it.                                                  *)
(*                                                                         *)
(* One action is one call on the table. Weeks pass between requests, never *)
(* within one, and nothing makes a rotation check run in any of them. A    *)
(* certificate is a serial number, the key it was made for, where it came  *)
(* from and the weeks it has left; a serial number nothing holds any more  *)
(* is used again.                                                          *)
(***************************************************************************)
EXTENDS Naturals, FiniteSets

CONSTANTS
  Serial,
  Life,       \* weeks a new certificate is valid
  Window,     \* RotationWindowDays, in weeks
  Delay,      \* PromotionDelayDays, in weeks
  BackupKey,  \* the key of the backup role: "primary" if none is configured
  Process,
  CallsFail,  \* whether reads may fail and processes may die
  None

Key == {"primary", "backup"}
Slot == {"active", "next", "backup"}
Source == {"self-signed", "ca-issued"}

\* A certItem: certificate, CertMeta and the recorded key ("" for primary).
Row == [serial : Serial, key : Key, keyId : Key \cup {""}, source : Source,
        left : 0 .. Life]

PC == {"idle", "generate", "guard", "nextCert", "stage", "promote", "activate",
       "clear", "bootstrap", "fetchNext", "fetchBackup"}

\* A process in flight: the row it promotes and the slot it takes it from, the
\* weeks the active certificate had left, and the list a metadata request
\* collects: its first certificate and the others. "clean" says that no row has
\* changed, and no read failed, since it began.
Job == [pc : PC, row : Row \cup {None}, from : Slot, left : 0 .. Life,
        first : Serial \cup {None}, rest : SUBSET Serial, clean : BOOLEAN]

ASSUME ConstantsAssumption ==
  /\ Life \in Nat /\ Window \in Nat /\ Delay \in Nat
  /\ Delay <= Window /\ Window + Delay < Life
  /\ BackupKey \in Key
  /\ CallsFail \in BOOLEAN
  /\ None \notin Serial \cup Row

VARIABLES
  slot,       \* Slot -> Row or None
  sso,        \* the warm SSO instance: the key of the certificate it embeds and
              \* the key it signs with
  metadata,   \* the warm metadata instance's certificate
  token,      \* the warm OIDC token instance's signing key
  jwks,       \* the keys the warm OIDC discovery instance publishes
  skipped,    \* it could not load a key and publishes without
  job,
  trusted,    \* the serial numbers of the relying party's last metadata document
  (* history *)
  age,        \* weeks since the relying party last got a clean document, as far as
              \* Delay: that many or more, or the last one was not clean
  unread,     \* the backup row is newer than the last clean document
  due,        \* rotation checks that ended when the active certificate was
              \* already due for replacement, as far as 2
  past        \* what the properties except

instances == <<sso, metadata, token, jwks, skipped>>
history == <<age, unread, due>>
vars == <<slot, instances, job, trusted, history, past>>

\* "failed": a call failed or a process died; "blind": two processes were in
\* flight together, or a check went on past a CA-issued certificate it could not
\* read; "unannounced": a certificate became active, or was staged after the
\* window's first week, and no clean document has told the relying party of it.
Event == {"failed", "blind", "unannounced"}

Idle == [pc |-> "idle", row |-> None, from |-> "next", left |-> 0,
         first |-> None, rest |-> {}, clean |-> TRUE]

Init ==
  /\ slot = [s \in Slot |-> None]
  /\ sso = None /\ metadata = None
  /\ token = "primary" /\ jwks = {"primary", BackupKey} /\ skipped = FALSE
  /\ job = [p \in Process |-> Idle]
  /\ trusted = {}
  /\ age = Delay /\ unread = FALSE /\ due = 0
  /\ past = {}

-----------------------------------------------------------------------------

At(p, pc) == job[p].pc = pc
Finish(p) == job' = [job EXCEPT ![p] = Idle]
Goto(p, pc) == job' = [job EXCEPT ![p].pc = pc]

Begin(p, j) ==
  /\ At(p, "idle")
  /\ job' = [job EXCEPT ![p] = j]
  /\ past' = IF \E q \in Process : ~ At(q, "idle") THEN past \cup {"blind"}
             ELSE past

\* The serial numbers something still holds; a relying party's memory of a
\* certificate nobody has any more does not count.
Held ==
  {slot[s].serial : s \in {t \in Slot : slot[t] # None}}
  \cup {job[p].row.serial : p \in {q \in Process : job[q].row # None}}
  \cup UNION {job[p].rest \cup ({job[p].first} \ {None}) : p \in Process}
  \cup ({metadata} \ {None})

Fresh == Serial \ Held

\* GenerateSelfSignedCert, by the primary key's signer, as storeCert records it.
SelfSigned(s) == [serial |-> s, key |-> "primary", keyId |-> "",
                  source |-> "self-signed", left |-> Life]

Unclean(j) ==
  [q \in Process |->
     [j[q] EXCEPT !.clean = @ /\ j[q].pc \notin {"fetchNext", "fetchBackup"}]]

\* storeCert and Delete: one unconditional write, then the process goes on as nj.
Write(s, row, nj) ==
  /\ slot' = [slot EXCEPT ![s] = row]
  /\ job' = Unclean(nj)

\* The serial number of a new certificate means nothing to the relying party.
Mint(s) == trusted' = trusted \ {s}

-----------------------------------------------------------------------------
(* The rotation check *)

\* CheckCertRotation reads the expiry; outside the window it has nothing to do.
CheckCertRotation(p) ==
  /\ LET active == slot["active"] IN
       IF active = None THEN Begin(p, [Idle EXCEPT !.pc = "generate"])
       ELSE /\ active.left <= Window
            /\ Begin(p, [Idle EXCEPT !.pc = "guard", !.left = active.left])
  /\ UNCHANGED <<slot, instances, trusted, history>>

\* The active certificate is as near its end as a promotion waits for.
Due == slot["active"] # None /\ slot["active"].left <= Window - Delay
Tried == due' = IF Due /\ due < 2 THEN due + 1 ELSE due

\* A check ends without a write of its own.
EndCheck(p) == Finish(p) /\ Tried

GenerateInitial(p) ==
  /\ At(p, "generate")
  /\ \E s \in Fresh :
       /\ Write("active", SelfSigned(s), [job EXCEPT ![p] = Idle])
       /\ Mint(s)
  /\ due' = 0
  /\ past' = past \cup {"unannounced"}
  /\ UNCHANGED <<instances, age, unread>>

\* Mutant: no look at where the active certificate came from.
ImportRequired_Never(row) == FALSE

\* The active certificate was issued by a CA: left to the operator.
ImportRequired(row) == row # None /\ row.source = "ca-issued"

\* A read error lets the check go on as if the certificate were self-signed.
CheckGuard(p) ==
  /\ At(p, "guard")
  /\ \/ /\ ImportRequired(slot["active"])
        /\ EndCheck(p)
        /\ UNCHANGED past
     \/ /\ ~ ImportRequired(slot["active"])
        /\ Goto(p, "nextCert")
        /\ UNCHANGED <<due, past>>
     \/ /\ CallsFail /\ ImportRequired(slot["active"])
        /\ Goto(p, "nextCert")
        /\ past' = past \cup {"blind"}
        /\ UNCHANGED due
  /\ UNCHANGED <<slot, instances, trusted, age, unread>>

\* Mutant: the delay counted twice.
PromotionDue_Late(left) == left + 2 * Delay <= Window

\* daysRemaining <= RotationWindowDays - PromotionDelayDays
PromotionDue(left) == left <= Window - Delay

CheckNext(p) ==
  /\ At(p, "nextCert")
  /\ CASE slot["next"] = None -> Goto(p, "stage") /\ UNCHANGED due
       [] slot["next"] # None /\ PromotionDue(job[p].left) ->
            Goto(p, "promote") /\ UNCHANGED due
       [] OTHER -> EndCheck(p)
  /\ UNCHANGED <<slot, instances, trusted, age, unread, past>>

StageNext(p) ==
  /\ At(p, "stage")
  /\ \E s \in Fresh :
       /\ Write("next", SelfSigned(s), [job EXCEPT ![p] = Idle])
       /\ Mint(s)
  /\ Tried
  /\ past' = IF job[p].left < Window THEN past \cup {"unannounced"} ELSE past
  /\ UNCHANGED <<instances, age, unread>>

\* PromoteNextToActive reads the row again.
PromoteNextToActive(p) ==
  /\ At(p, "promote")
  /\ IF slot["next"] = None
     THEN Finish(p) /\ past' = past \cup {"failed"}
     ELSE /\ job' = [job EXCEPT ![p].pc = "activate", ![p].row = slot["next"],
                                ![p].from = "next"]
          /\ UNCHANGED past
  /\ UNCHANGED <<slot, instances, trusted, history>>

\* The first of a promotion's two writes.
Activate(p) ==
  /\ At(p, "activate")
  /\ Write("active", job[p].row, [job EXCEPT ![p].pc = "clear", ![p].row = None])
  /\ past' = IF job[p].from = "backup" /\ unread
             THEN past \cup {"unannounced"} ELSE past
  /\ due' = 0
  /\ UNCHANGED <<instances, trusted, age, unread>>

\* DeleteNext, DeleteBackup
Clear(p) ==
  /\ At(p, "clear")
  /\ Write(job[p].from, None, [job EXCEPT ![p] = Idle])
  /\ UNCHANGED <<instances, trusted, history, past>>

-----------------------------------------------------------------------------
(* The operator *)

PublicKeyMatchesSigner(key, signer) == key = signer

\* signerForRole
SignerKey(role) == IF role = "backup" THEN BackupKey ELSE "primary"

\* Import: the leaf must be of the role's key. An unknown role means "active".
Import(role, key, life) ==
  /\ PublicKeyMatchesSigner(key, SignerKey(role))
  /\ \E s \in Fresh :
       /\ Write(role, [serial |-> s, key |-> key, keyId |-> SignerKey(role),
                       source |-> "ca-issued", left |-> life], job)
       /\ Mint(s)
  /\ unread' = (unread \/ role = "backup")
  /\ past' = past \cup (IF role = "active" THEN {"unannounced"} ELSE {})
                  \cup (IF \E q \in Process : ~ At(q, "idle") THEN {"blind"}
                        ELSE {})
  /\ due' = IF role = "active" THEN 0 ELSE due
  /\ UNCHANGED <<instances, age>>

PromoteBackup(p) ==
  /\ slot["backup"] # None
  /\ Begin(p, [Idle EXCEPT !.pc = "activate", !.row = slot["backup"],
                           !.from = "backup"])
  /\ UNCHANGED <<slot, instances, trusted, history>>

-----------------------------------------------------------------------------
(* Cold starts *)

\* Mutant: the signer is always the primary key's.
SelectActiveSigner_Primary(row) == "primary"

\* SelectActiveSigner: the key the active row names, the primary for none.
SelectActiveSigner(row) == IF row.keyId = "" THEN "primary" ELSE row.keyId

SsoColdStart(p) ==
  /\ slot["active"] # None
  /\ At(p, "idle")
  /\ sso' = [certKey |-> slot["active"].key,
             key |-> SelectActiveSigner(slot["active"])]
  /\ UNCHANGED <<slot, metadata, token, jwks, skipped, job, trusted, history, past>>

\* Any error of that read means that there is no certificate yet.
SsoBootstraps(p) ==
  /\ Begin(p, [Idle EXCEPT !.pc = "bootstrap"])
  /\ slot["active"] = None
  /\ UNCHANGED <<slot, instances, trusted, history>>

SsoReadFails(p) ==
  /\ CallsFail
  /\ At(p, "idle") /\ slot["active"] # None
  /\ job' = [job EXCEPT ![p].pc = "bootstrap"]
  /\ past' = past \cup {"failed"}
  /\ UNCHANGED <<slot, instances, trusted, history>>

\* A self-signed certificate over whatever is there; a failed write is only
\* logged.
Bootstrap(p) ==
  /\ At(p, "bootstrap")
  /\ sso' = [certKey |-> "primary", key |-> "primary"]
  /\ \E s \in Fresh :
       /\ Mint(s)
       /\ \/ Write("active", SelfSigned(s), [job EXCEPT ![p] = Idle])
             /\ past' = past \cup {"unannounced"}
             /\ due' = 0
          \/ /\ CallsFail
             /\ Finish(p)
             /\ past' = past \cup {"failed"}
             /\ UNCHANGED <<slot, due>>
  /\ UNCHANGED <<metadata, token, jwks, skipped, age, unread>>

\* The metadata function exits when there is no active certificate.
MetadataColdStart ==
  /\ slot["active"] # None
  /\ metadata' = slot["active"].serial
  /\ UNCHANGED <<slot, sso, token, jwks, skipped, job, trusted, history, past>>

\* The OIDC functions fall back to the primary key.
SigningKey == IF slot["active"] = None THEN "primary"
              ELSE SelectActiveSigner(slot["active"])

TokenColdStart ==
  /\ \/ token' = SigningKey
     \/ CallsFail /\ token' = "primary"
  /\ UNCHANGED <<slot, sso, metadata, jwks, skipped, job, trusted, history, past>>

\* Mutant: only the backup key is added to the one in use.
AddBackupVerificationKey_BackupOnly(active) == {BackupKey} \ {active}

\* The keys to publish beside the one in use.
AddBackupVerificationKey(active) == {"primary", BackupKey} \ {active}

\* A key whose public half KMS does not hand out is skipped with a warning.
Loaded(keys) == IF CallsFail THEN SUBSET keys ELSE {keys}

\* KeySet: the key in use and those that were loaded at the cold start.
DiscoveryColdStart ==
  /\ \E active \in {SigningKey} \cup (IF CallsFail THEN {"primary"} ELSE {}) :
     LET others == AddBackupVerificationKey(active) IN
     \E keys \in Loaded(others) :
       jwks' = {active} \cup keys /\ skipped' = (keys # others)
  /\ UNCHANGED <<slot, sso, metadata, token, job, trusted, history, past>>

-----------------------------------------------------------------------------
(* Metadata *)

\* GetAllCerts' add: certificates are told apart by their serial number.
Add(j, row) ==
  CASE row = None -> j
    [] row # None /\ j.first = None -> [j EXCEPT !.first = row.serial]
    [] OTHER -> [j EXCEPT !.rest = @ \cup ({row.serial} \ {j.first})]

\* A failed read of one row leaves that row out.
Reads(j, s, pc) ==
  {[Add(j, slot[s]) EXCEPT !.pc = pc]}
  \cup (IF CallsFail THEN {[j EXCEPT !.pc = pc, !.clean = FALSE]} ELSE {})

ServeMetadata(p) ==
  /\ metadata # None
  /\ \E j \in Reads(Idle, "active", "fetchNext") : Begin(p, j)
  /\ UNCHANGED <<slot, instances, trusted, history>>

FetchNext(p) ==
  /\ At(p, "fetchNext")
  /\ \E j \in Reads(job[p], "next", "fetchBackup") : job' = [job EXCEPT ![p] = j]
  /\ UNCHANGED <<slot, instances, trusted, history, past>>

\* Mutant: the backup row is not published.
PublishedRows_NoBackup(j) == {[j EXCEPT !.pc = "idle"]}

PublishedRows(j) == Reads(j, "backup", "idle")

\* appendExtraCerts: the instance's certificate, then all but the first of the
\* list. With no certificate at all the handler panics and answers an error.
FetchBackup(p) ==
  /\ At(p, "fetchBackup")
  /\ \E j \in PublishedRows(job[p]) :
       IF j.first = None THEN UNCHANGED <<trusted, age, unread, past>>
       ELSE /\ trusted' = {metadata} \cup j.rest
            /\ IF j.clean /\ metadata = j.first
               THEN age' = 0 /\ unread' = FALSE /\ past' = past \ {"unannounced"}
               ELSE age' = Delay /\ UNCHANGED <<unread, past>>
  /\ Finish(p)
  /\ UNCHANGED <<slot, instances, due>>

-----------------------------------------------------------------------------

\* A call fails, or the instance dies.
Abort(p) ==
  /\ CallsFail
  /\ ~ At(p, "idle")
  /\ Finish(p)
  /\ past' = past \cup {"failed"}
  /\ UNCHANGED <<slot, instances, trusted, history>>

Older(n) == IF n = 0 THEN 0 ELSE n - 1
Capped(n) == IF n >= Delay THEN Delay ELSE n + 1

\* A week passes, whether a rotation check has run in it or not.
Week ==
  /\ \A p \in Process : At(p, "idle")
  /\ slot' = [s \in Slot |-> IF slot[s] = None THEN None
                             ELSE [slot[s] EXCEPT !.left = Older(@)]]
  /\ age' = Capped(age)
  /\ UNCHANGED <<instances, job, trusted, unread, due, past>>

Operator == \E role \in {"active", "backup"}, key \in Key : Import(role, key, Life)

Step(p) ==
  \/ CheckCertRotation(p) \/ GenerateInitial(p) \/ CheckGuard(p)
  \/ CheckNext(p) \/ StageNext(p) \/ PromoteNextToActive(p) \/ Activate(p) \/ Clear(p)
  \/ PromoteBackup(p)
  \/ SsoColdStart(p) \/ SsoBootstraps(p) \/ SsoReadFails(p) \/ Bootstrap(p)
  \/ ServeMetadata(p) \/ FetchNext(p) \/ FetchBackup(p)
  \/ Abort(p)

Next == \/ \E p \in Process : Step(p)
        \/ Operator \/ MetadataColdStart \/ TokenColdStart \/ DiscoveryColdStart
        \/ Week

Spec == Init /\ [][Next]_vars

-----------------------------------------------------------------------------

\* An SSO instance signs with the private key of the certificate it embeds in
\* its assertions, after promotions of a certificate of the other key and
\* whatever instance was started when (SelectActiveSigner).
KeyMatchesCert == sso # None => sso.certKey = sso.key

\* Every token an OIDC instance signs verifies with the keys a discovery
\* instance publishes, whichever of the two was started before a promotion
\* changed the key, unless a key could not be loaded when the discovery instance
\* started (AddBackupVerificationKey).
KeyPublished == skipped \/ token \in jwks

\* Without a failed call and without overlapping requests no one replaces an
\* active certificate a CA has issued by a self-signed one: not a rotation
\* check, whatever was staged before the import, nor a cold start.
ReplacesCA ==
  /\ slot["active"] # None /\ slot["active"].source = "ca-issued"
  /\ slot'["active"] # None /\ slot'["active"].source = "self-signed"
CAKept == [][ReplacesCA => past' \cap {"failed", "blind"} # {}]_vars

\* A relying party that has read a complete metadata document within the
\* promotion delay trusts the active certificate: neither a rotation nor the promotion of a
\* backup it has been told of surprises it.
RolloverTrusted ==
  slot["active"] # None /\ age < Delay /\ past \cap {"unannounced", "blind"} = {}
    => slot["active"].serial \in trusted

\* A self-signed active certificate is replaced by the second rotation check, at
\* the latest, that runs to its end when it is due, however irregularly checks
\* run and whatever was staged, deleted or let expire before (CheckCertRotation).
ReplacedWhenDue ==
  /\ slot["active"] # None /\ slot["active"].source = "self-signed"
  /\ past \cap {"failed", "blind"} = {}
  => due < 2

\* idp.go:198-200: "The active cert is already included by the crewjam/saml
\* IdentityProvider". A metadata request during which nothing changes and
\* nothing fails publishes the active certificate.
Published ==
  \A p \in Process :
    At(p, "fetchBackup") /\ job[p].clean /\ job'[p].pc = "idle" /\ trusted' # trusted
      => slot["active"].serial \in trusted'
DocumentHasActive == [][Published]_vars

=============================================================================
