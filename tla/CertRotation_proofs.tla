-------------------------- MODULE CertRotation_proofs --------------------------
(***************************************************************************)
(* Theorems about CertRotation, for any number of certificates, processes   *)
(* and weeks. The invariant says what a process may rely on although the    *)
(* rows can change under it: which of them are in flight together, what the *)
(* rotation check has established before it acts, how the weeks left of     *)
(* the active and of the staged certificate and the age of the relying      *)
(* party's metadata hang together, and that a certificate that is due has   *)
(* its successor staged after the first check that saw it.                  *)
(***************************************************************************)
EXTENDS CertRotation, TLAPS

Instance == [certKey : Key, key : Key]

TypeOK ==
  /\ slot \in [Slot -> Row \cup {None}]
  /\ sso \in Instance \cup {None} /\ metadata \in Serial \cup {None}
  /\ token \in Key /\ jwks \subseteq Key /\ skipped \in BOOLEAN
  /\ job \in [Process -> Job]
  /\ trusted \subseteq Serial
  /\ age \in 0 .. Delay /\ unread \in BOOLEAN /\ due \in 0 .. 2
  /\ past \subseteq Event

Active == slot["active"]
Staged == slot["next"]
Backup == slot["backup"]

Blind == "blind" \in past

\* A process that is not a cold start's bootstrap.
Busy(p) == job[p].pc \notin {"idle", "bootstrap"}

\* A rotation check past its reading of the expiry.
Rotating(j) == \/ j.pc \in {"guard", "nextCert", "stage", "promote"}
               \/ j.pc = "activate" /\ j.from = "next"
Guarded(j) == Rotating(j) /\ j.pc # "guard"

\* The recorded key is the certificate's, and one of the two that are published.
RowOK(row) == row # None =>
  SelectActiveSigner(row) = row.key /\ row.key \in {"primary", BackupKey}

\* Which rows there are, and from where.
RowsOK ==
  /\ \A s \in Slot : RowOK(slot[s])
  /\ (Staged # None => Staged.source = "self-signed" /\ Active # None)
  /\ (Backup # None => Backup.source = "ca-issued")
  /\ (metadata # None => Active # None)

KeysOK ==
  /\ KeyMatchesCert
  /\ token \in {"primary", BackupKey}
  /\ skipped \/ {"primary", BackupKey} \subseteq jwks

\* A process knows its row; a certificate it found is still there, and a metadata
\* instance keeps its own.
JobOK(j) ==
  /\ RowOK(j.row)
  /\ j.from # "active"
  /\ j.pc = "activate" =>
       /\ j.row # None
       /\ j.row.source = IF j.from = "next" THEN "self-signed" ELSE "ca-issued"
  /\ Rotating(j) \/ j.pc \in {"clear", "fetchNext", "fetchBackup"} => Active # None
  /\ j.pc \in {"fetchNext", "fetchBackup"} => metadata # None
  /\ Rotating(j) => j.left <= Window
  /\ j.pc = "promote" \/ (j.pc = "activate" /\ j.from = "next") =>
       j.left + Delay <= Window

\* What a metadata request has collected is what the rows hold, if it is clean.
ReadOK(j) ==
  /\ j.pc = "fetchNext" /\ j.clean => j.first = Active.serial /\ j.rest = {}
  /\ j.pc = "fetchBackup" /\ j.clean =>
       /\ j.first = Active.serial
       /\ j.rest = IF Staged = None THEN {} ELSE {Staged.serial} \ {Active.serial}

\* Without overlapping requests one process at most is at work, beside cold
\* starts that could not read the active certificate.
PairsOK ==
  /\ \A p, q \in Process : Busy(p) /\ Busy(q) => p = q
  /\ "failed" \notin past =>
       \A p, q \in Process : ~ At(p, "idle") /\ ~ At(q, "idle") => p = q
  /\ \A p, q \in Process : At(p, "generate") /\ ~ At(q, "idle") => p = q

\* Then what a process has found stays so until it acts.
FoundOK(j) ==
  /\ j.pc = "generate" => Active = None
  /\ j.pc = "bootstrap" /\ "failed" \notin past => Active = None
  /\ j.pc = "activate" => j.row = slot[j.from]
  /\ j.pc = "clear" /\ "failed" \notin past =>
       IF j.from = "next" THEN Staged # None ELSE Active.source = "ca-issued"
  /\ j.pc = "stage" => Staged = None
  /\ j.pc = "promote" => Staged # None
  /\ Guarded(j) => Active.source = "self-signed"
  /\ Rotating(j) /\ ~ ({"failed", "unannounced"} \subseteq past) => j.left = Active.left

AloneOK == ~ Blind => PairsOK /\ \A p \in Process : FoundOK(job[p])

Informed == age < Delay /\ past \cap {"unannounced", "blind"} = {}

\* An informed relying party trusts every row but a staged one it has not been
\* told of yet, which is not due for as long as that.
TrustOK == Informed =>
  /\ Active # None => Active.serial \in trusted
  /\ Backup # None /\ ~ unread => Backup.serial \in trusted
  /\ Staged # None => \/ Staged.serial \in trusted
                      \/ /\ Life <= Staged.left + age
                         /\ Active.source = "self-signed" =>
                              Window + Staged.left <= Active.left + Life

Calm == past \cap {"failed", "blind"} = {}

Clearing == \E p \in Process : At(p, "clear")

\* The first check that ends when a self-signed certificate is due leaves its
\* successor staged; the next one makes that one active.
DueOK ==
  Calm /\ Active # None /\ Active.source = "self-signed" =>
    due = 0 \/ (due = 1 /\ Staged # None /\ ~ Clearing)

IInv ==
  /\ TypeOK /\ RowsOK /\ KeysOK
  /\ \A p \in Process : JobOK(job[p]) /\ ReadOK(job[p])
  /\ AloneOK /\ TrustOK
  /\ DueOK
-----------------------------------------------------------------------------
(* Steps that write no row *)

LEMMA Constants ==
  /\ Life \in Nat /\ Window \in Nat /\ Delay \in Nat
  /\ Delay <= Window /\ Window + Delay < Life
  /\ BackupKey \in Key /\ "primary" \in Key /\ None \notin Serial /\ None \notin Row
BY ConstantsAssumption DEF Key

LEMMA RowFields ==
  ASSUME NEW row \in Row
  PROVE  /\ row.serial \in Serial /\ row.key \in Key /\ row.keyId \in Key \cup {""}
         /\ row.source \in {"self-signed", "ca-issued"}
         /\ row.left \in Nat /\ row.left <= Life /\ row.left \in 0 .. Life
<1>1. /\ row.serial \in Serial /\ row.key \in Key /\ row.keyId \in Key \cup {""}
      /\ row.source \in Source /\ row.left \in 0 .. Life
  BY DEF Row
<1>2. \A n \in 0 .. Life : n \in Nat /\ n <= Life
  BY Constants
<1>3. row.source \in {"self-signed", "ca-issued"}
  BY <1>1 DEF Source
<1> QED
  BY <1>1, <1>2, <1>3

LEMMA JobFields ==
  ASSUME NEW j \in Job
  PROVE  /\ j.pc \in PC /\ j.row \in Row \cup {None} /\ j.from \in Slot
         /\ j.left \in Nat /\ j.left <= Life
         /\ j.first \in Serial \cup {None} /\ j.rest \subseteq Serial /\ j.clean \in BOOLEAN
BY Constants DEF Job

LEMMA SlotFields ==
  ASSUME IInv
  PROVE  /\ Active # None => Active \in Row
         /\ Staged # None => Staged \in Row
         /\ Backup # None => Backup \in Row
BY DEF IInv, TypeOK, Active, Staged, Backup, Slot

LEMMA IdleOK ==
  /\ Idle \in Job /\ Idle.pc = "idle" /\ JobOK(Idle) /\ ReadOK(Idle) /\ FoundOK(Idle)
  /\ Idle.row = None
<1>1. /\ Idle \in Job /\ Idle.pc = "idle" /\ Idle.row = None /\ Idle.from = "next"
  BY Constants DEF Idle, Job, PC, Slot
<1> QED
  BY <1>1 DEF JobOK, ReadOK, FoundOK, RowOK, Rotating, Guarded

LEMMA IdleAt ==
  ASSUME NEW pc \in PC
  PROVE  LET j == [Idle EXCEPT !.pc = pc] IN
           j \in Job /\ j.pc = pc /\ j.row = None /\ j.from = "next"
<1>1. Idle \in Job /\ Idle.row = None /\ Idle.from = "next"
  BY IdleOK DEF Idle
<1>2. [Idle EXCEPT !.pc = pc] \in Job
  BY <1>1 DEF Job
<1>3. [Idle EXCEPT !.pc = pc].pc = pc /\ [Idle EXCEPT !.pc = pc].row = None
      /\ [Idle EXCEPT !.pc = pc].from = "next"
  BY <1>1 DEF Idle
<1> QED
  BY <1>2, <1>3

\* Where a process may get to without writing a row: what it knows is true.
Moves(q) == \/ job'[q] = job[q]
            \/ /\ JobOK(job[q])' /\ ReadOK(job[q])'
               /\ ~ Blind' => FoundOK(job[q])'

LEMMA QuietOK ==
  ASSUME IInv, UNCHANGED <<slot, age, unread>>, past \subseteq past', past' \subseteq Event,
         job' \in [Process -> Job], \A q \in Process : Moves(q), ~ Blind' => PairsOK',
         (Calm /\ Clearing)' => Clearing, Calm' /\ Clearing => Clearing',
         sso' \in Instance \cup {None}, metadata' \in Serial \cup {None},
         token' \in Key, jwks' \subseteq Key, skipped' \in BOOLEAN, KeysOK',
         metadata' # None => Active # None,
         metadata # None => metadata' # None, trusted' \subseteq Serial,
         \A t \in Slot : slot[t] # None /\ slot[t].serial \in trusted
                          => slot[t].serial \in trusted',
         due' \in 0 .. 2,
         Calm' /\ Active # None /\ Active.source = "self-signed" => due' = due
  PROVE  IInv'
<1>1. TypeOK'
  BY DEF IInv, TypeOK
<1>2. RowsOK'
  BY DEF IInv, RowsOK, Active, Staged, Backup, RowOK, SelectActiveSigner
<1>3. \A q \in Process : (JobOK(job[q]) /\ ReadOK(job[q]))'
  <2>1. SUFFICES ASSUME NEW q \in Process, job'[q] = job[q]
                 PROVE  (JobOK(job[q]) /\ ReadOK(job[q]))'
    BY DEF Moves
  <2> QED
    BY <2>1 DEF IInv, JobOK, ReadOK, Active, Staged, Rotating, RowOK
<1>4. AloneOK'
  <2>1. SUFFICES ASSUME ~ Blind', NEW q \in Process, job'[q] = job[q]
                 PROVE  FoundOK(job[q])'
    BY DEF Moves, AloneOK
  <2>2. FoundOK(job[q])
    BY <2>1 DEF IInv, AloneOK, Blind
  <2> QED
    BY <2>1, <2>2 DEF FoundOK, Active, Staged, Guarded, Rotating
<1>5. TrustOK'
  BY DEF IInv, TrustOK, Informed, Active, Staged, Backup, Slot
<1>6. DueOK'
  <2>1. SUFFICES ASSUME Calm', Active # None, Active.source = "self-signed"
                 PROVE  (due = 0 \/ (due = 1 /\ Staged # None /\ ~ Clearing))'
    BY DEF DueOK, Active
  <2>2. Calm /\ due' = due /\ Staged' = Staged
    BY <2>1 DEF Calm, Staged
  <2> HIDE DEF Clearing
  <2> QED
    BY <2>1, <2>2 DEF IInv, DueOK
<1> QED
  BY <1>1, <1>2, <1>3, <1>4, <1>5, <1>6 DEF IInv

\* Which processes are in flight together depends on where they are only.
LEMMA StepPairs ==
  ASSUME IInv, NEW p \in Process, past \cap {"failed", "blind"} \subseteq past',
         \A q \in Process \ {p} : job'[q].pc = job[q].pc,
         \/ job'[p].pc = "idle"
         \/ Busy(p) /\ job'[p].pc \notin {"generate", "bootstrap"}
  PROVE  ~ Blind' => PairsOK'
<1> SUFFICES ASSUME ~ Blind'
             PROVE  PairsOK'
  OBVIOUS
<1>1. PairsOK
  BY DEF IInv, AloneOK, Blind
<1>2. \A q \in Process : (Busy(q) => job[q].pc # "idle") /\ (Busy(q)' => Busy(q))
                          /\ (job'[q].pc # "idle" => job[q].pc # "idle")
                          /\ (job'[q].pc = "generate" => job[q].pc = "generate")
  BY DEF Busy
<1> QED
  BY <1>1, <1>2 DEF PairsOK, At

\* A request that begins alone is alone.
LEMMA BeginPairs ==
  ASSUME IInv, NEW p \in Process, NEW j \in Job, Begin(p, j)
  PROVE  /\ job' \in [Process -> Job] /\ job'[p] = j
         /\ \A q \in Process \ {p} : job'[q] = job[q]
         /\ job[p].pc = "idle"
         /\ past \subseteq past' /\ past' \subseteq Event
         /\ ~ Blind' => PairsOK' /\ past' = past
<1>1. /\ job' \in [Process -> Job] /\ job'[p] = j
      /\ \A q \in Process \ {p} : job'[q] = job[q]
      /\ job[p].pc = "idle"
  BY DEF IInv, TypeOK, Begin, At
<1>2. past \subseteq past' /\ past' \subseteq Event
  BY DEF IInv, TypeOK, Begin, Event
<1>3. ASSUME ~ Blind'
      PROVE  PairsOK' /\ past' = past
  <2>1. past' = past /\ \A q \in Process : job[q].pc = "idle"
    BY <1>3 DEF Blind, Begin, At
  <2>2. \A q \in Process : job'[q].pc # "idle" => q = p
    BY <1>1, <2>1
  <2> QED
    BY <2>1, <2>2 DEF PairsOK, Busy, At
<1> QED
  BY <1>1, <1>2, <1>3

\* A step of one process that changes nothing but its own place.
LEMMA QuietStep ==
  ASSUME IInv, NEW p \in Process, UNCHANGED <<slot, instances, trusted, age, unread>>,
         past \subseteq past', past' \subseteq Event,
         job' \in [Process -> Job], \A q \in Process \ {p} : job'[q] = job[q],
         JobOK(job[p])', ReadOK(job[p])', ~ Blind' => FoundOK(job[p])' /\ PairsOK',
         job'[p].pc # "clear", Calm' => job[p].pc # "clear",
         due' \in 0 .. 2,
         Calm' /\ Active # None /\ Active.source = "self-signed" => due' = due
  PROVE  IInv'
<1>1. \A q \in Process : Moves(q)
  BY DEF Moves
<1>2. (Calm /\ Clearing)' => Clearing
  BY DEF Clearing, At
<1>3. Calm' /\ Clearing => Clearing'
  BY DEF Clearing, At
<1>4. /\ sso' \in Instance \cup {None} /\ metadata' \in Serial \cup {None}
      /\ token' \in Key /\ jwks' \subseteq Key /\ trusted' \subseteq Serial
      /\ skipped' \in BOOLEAN
  BY DEF IInv, TypeOK, instances
<1>5. /\ KeysOK' /\ (metadata' # None => Active # None)
      /\ metadata # None => metadata' # None
  BY DEF IInv, KeysOK, RowsOK, KeyMatchesCert, instances
<1>6. trusted' = trusted /\ UNCHANGED <<slot, age, unread>>
  OBVIOUS
<1> HIDE DEF Clearing, Calm
<1> QED
  BY <1>1, <1>2, <1>3, <1>4, <1>5, <1>6, QuietOK

\* A process that stops.
LEMMA FinishOK ==
  ASSUME IInv, NEW p \in Process, Finish(p)
  PROVE  /\ job' \in [Process -> Job] /\ job'[p] = Idle
         /\ \A q \in Process \ {p} : job'[q] = job[q]
         /\ JobOK(job[p])' /\ ReadOK(job[p])' /\ FoundOK(job[p])'
         /\ (past \cap {"failed", "blind"} \subseteq past') => (~ Blind' => PairsOK')
<1>1. /\ job' \in [Process -> Job] /\ job'[p] = Idle
      /\ \A q \in Process \ {p} : job'[q] = job[q]
  BY IdleOK DEF Finish, IInv, TypeOK
<1>2. job'[p].pc = "idle" /\ job'[p].row = None /\ job'[p].from = "next"
  BY <1>1 DEF Idle
<1>3. JobOK(job[p])' /\ ReadOK(job[p])' /\ FoundOK(job[p])'
  BY <1>2 DEF JobOK, ReadOK, FoundOK, RowOK, Rotating, Guarded
<1>4. (past \cap {"failed", "blind"} \subseteq past') => (~ Blind' => PairsOK')
  BY <1>1, <1>2, StepPairs
<1> QED
  BY <1>1, <1>3, <1>4

LEMMA CheckCertRotationOK ==
  ASSUME IInv, NEW p \in Process, CheckCertRotation(p)
  PROVE  IInv'
<1> DEFINE j == IF Active = None THEN [Idle EXCEPT !.pc = "generate"]
                ELSE [Idle EXCEPT !.pc = "guard", !.left = Active.left]
<1>1. /\ Begin(p, j) /\ UNCHANGED <<slot, instances, trusted, history>>
      /\ Active # None => Active.left <= Window
  BY DEF CheckCertRotation, Active
<1>2. Active # None => Active.left \in 0 .. Life
  BY DEF IInv, TypeOK, Active, Slot, Row
<1>3. /\ j \in Job
      /\ j.row = None /\ j.from = "next"
      /\ \/ j.pc = "generate" /\ Active = None
         \/ j.pc = "guard" /\ j.left = Active.left /\ Active # None
  <2>1. CASE Active = None
    <3>1. j = [Idle EXCEPT !.pc = "generate"]
      BY <2>1
    <3>2. j \in Job /\ j.row = None /\ j.from = "next" /\ j.pc = "generate"
      BY <3>1, IdleAt DEF PC
    <3> QED
      BY <2>1, <3>2
  <2>2. CASE Active # None
    <3>1. j = [Idle EXCEPT !.pc = "guard", !.left = Active.left]
      BY <2>2
    <3>2. j \in Job /\ j.row = None /\ j.from = "next" /\ j.pc = "guard" /\ j.left = Active.left
      BY <1>2, <2>2, <3>1, Constants DEF Idle, Job, PC, Slot
    <3> QED
      BY <2>2, <3>2
  <2> QED
    BY <2>1, <2>2
<1> HIDE DEF j
<1>4. /\ job' \in [Process -> Job] /\ job'[p] = j
      /\ \A q \in Process \ {p} : job'[q] = job[q]
      /\ job[p].pc = "idle"
      /\ past \subseteq past' /\ past' \subseteq Event
      /\ ~ Blind' => PairsOK' /\ past' = past
  BY <1>1, <1>3, BeginPairs
<1>5. Active' = Active
  BY <1>1 DEF Active
<1>6. JobOK(job[p])' /\ ReadOK(job[p])' /\ FoundOK(job[p])'
  BY <1>1, <1>3, <1>4, <1>5 DEF JobOK, ReadOK, FoundOK, RowOK, Rotating, Guarded
<1>7. UNCHANGED <<age, unread, due>> /\ due \in 0 .. 2
  BY <1>1 DEF history, IInv, TypeOK
<1> QED
  BY <1>1, <1>3, <1>4, <1>6, <1>7, QuietStep

LEMMA TriedOK ==
  ASSUME due \in 0 .. 2, Tried
  PROVE  /\ due' \in 0 .. 2 /\ (~ Due => due' = due)
         /\ due = 0 => due' \in {0, 1}
BY DEF Tried

LEMMA CheckGuardOK ==
  ASSUME IInv, NEW p \in Process, CheckGuard(p)
  PROVE  IInv'
<1>1. /\ job[p].pc = "guard" /\ UNCHANGED <<slot, instances, trusted, age, unread>>
      /\ Active' = Active
  BY DEF CheckGuard, At, Active
<1>2. /\ JobOK(job[p]) /\ job[p] \in Job /\ Active # None /\ Rotating(job[p])
      /\ past \subseteq Event /\ due \in 0 .. 2
      /\ Active.source \in Source
  BY <1>1 DEF IInv, JobOK, Rotating, TypeOK, Active, Row, Slot
<1>3. CASE ImportRequired(Active) /\ EndCheck(p) /\ UNCHANGED past
  <2>1. Active.source # "self-signed" /\ Finish(p) /\ due' \in 0 .. 2
    BY <1>2, <1>3, TriedOK DEF ImportRequired, EndCheck
  <2>2. job' \in [Process -> Job] /\ job'[p].pc = "idle"
    BY <2>1, FinishOK, IdleOK
  <2> QED
    BY <1>1, <1>2, <1>3, <2>1, <2>2, FinishOK, QuietStep
<1>4. CASE /\ Goto(p, "nextCert") /\ UNCHANGED due
           /\ \/ ~ ImportRequired(Active) /\ UNCHANGED past
              \/ past' = past \cup {"blind"}
  <2>1. /\ job' \in [Process -> Job] /\ job'[p] = [job[p] EXCEPT !.pc = "nextCert"]
        /\ \A q \in Process \ {p} : job'[q] = job[q]
    BY <1>2, <1>4 DEF Goto, IInv, TypeOK, Job, PC
  <2>2. /\ job'[p].pc = "nextCert" /\ job'[p].row = job[p].row
        /\ job'[p].from = job[p].from /\ job'[p].left = job[p].left
    BY <1>2, <2>1 DEF Job
  <2>3. JobOK(job[p])' /\ ReadOK(job[p])'
    BY <1>1, <1>2, <2>2 DEF JobOK, ReadOK, RowOK, Rotating
  <2>4. past \subseteq past' /\ past' \subseteq Event
    BY <1>2, <1>4 DEF Event
  <2>5. ~ Blind' => FoundOK(job[p])' /\ PairsOK'
    <3>1. ASSUME ~ Blind'
          PROVE  FoundOK(job[p]) /\ UNCHANGED past /\ Active.source = "self-signed"
      BY <1>2, <1>4, <3>1 DEF IInv, AloneOK, Blind, ImportRequired, Source
    <3>2. ~ Blind' => PairsOK'
      BY <1>1, <2>1, <2>2, <2>4, StepPairs DEF Busy
    <3> QED
      BY <1>1, <1>2, <2>2, <3>1, <3>2 DEF FoundOK, Rotating, Guarded
  <2> QED
    BY <1>1, <1>2, <1>4, <2>1, <2>2, <2>3, <2>4, <2>5, QuietStep
<1> QED
  BY <1>3, <1>4 DEF CheckGuard, Active

LEMMA CheckNextOK ==
  ASSUME IInv, NEW p \in Process, CheckNext(p)
  PROVE  IInv'
<1>1. /\ job[p].pc = "nextCert" /\ UNCHANGED <<slot, instances, trusted, age, unread, past>>
      /\ Active' = Active /\ Staged' = Staged
  BY DEF CheckNext, At, Active, Staged
<1>2. /\ JobOK(job[p]) /\ job[p] \in Job /\ Active # None /\ Rotating(job[p])
      /\ past \subseteq Event /\ due \in 0 .. 2
      /\ job[p].left \in Nat /\ Active.left \in Nat
  <2>1. /\ JobOK(job[p]) /\ job[p] \in Job /\ Active # None /\ Rotating(job[p])
        /\ past \subseteq Event /\ due \in 0 .. 2
    BY <1>1 DEF IInv, JobOK, Rotating, TypeOK
  <2> QED
    BY <2>1, SlotFields, RowFields, JobFields
<1>3. CASE EndCheck(p) /\ Staged # None /\ ~ PromotionDue(job[p].left)
  <2>1. Finish(p) /\ due' \in 0 .. 2 /\ (~ Due => due' = due)
    BY <1>2, <1>3, TriedOK DEF EndCheck
  <2>2. Calm' => ~ Due
    <3>1. SUFFICES ASSUME Calm
                   PROVE  ~ Due
      BY <1>1 DEF Calm
    <3>2. FoundOK(job[p])
      BY <3>1 DEF IInv, AloneOK, Blind, Calm
    <3>3. job[p].left = Active.left
      BY <1>2, <3>1, <3>2 DEF FoundOK, Calm
    <3> QED
      BY <1>2, <1>3, <3>3, Constants DEF Due, PromotionDue, Active
  <2>3. job'[p].pc = "idle"
    BY <2>1, FinishOK, IdleOK
  <2> QED
    BY <1>1, <1>2, <2>1, <2>2, <2>3, FinishOK, QuietStep
<1>4. ASSUME NEW pc \in {"stage", "promote"}, Goto(p, pc), UNCHANGED due,
             pc = "stage" => Staged = None,
             pc = "promote" => Staged # None /\ PromotionDue(job[p].left)
      PROVE  IInv'
  <2>1. /\ job' \in [Process -> Job] /\ job'[p] = [job[p] EXCEPT !.pc = pc]
        /\ \A q \in Process \ {p} : job'[q] = job[q]
    BY <1>2, <1>4 DEF Goto, IInv, TypeOK, Job, PC
  <2>2. /\ job'[p].pc = pc /\ job'[p].row = job[p].row
        /\ job'[p].from = job[p].from /\ job'[p].left = job[p].left
    BY <1>2, <2>1 DEF Job
  <2>3. pc = "promote" => job[p].left + Delay <= Window
    BY <1>2, <1>4, Constants DEF PromotionDue
  <2>4. JobOK(job[p])' /\ ReadOK(job[p])'
    BY <1>1, <1>2, <1>4, <2>2, <2>3 DEF JobOK, ReadOK, RowOK, Rotating
  <2>5. ~ Blind' => FoundOK(job[p])' /\ PairsOK'
    <3>1. ASSUME ~ Blind'
          PROVE  FoundOK(job[p])
      BY <1>1, <3>1 DEF IInv, AloneOK, Blind
    <3>2. ~ Blind' => PairsOK'
      BY <1>1, <2>1, <2>2, StepPairs DEF Busy
    <3> QED
      BY <1>1, <1>2, <1>4, <2>2, <3>1, <3>2 DEF FoundOK, Rotating, Guarded
  <2> QED
    BY <1>1, <1>2, <1>4, <2>1, <2>2, <2>4, <2>5, QuietStep
<1> QED
  BY <1>3, <1>4 DEF CheckNext, Staged

LEMMA PromoteNextToActiveOK ==
  ASSUME IInv, NEW p \in Process, PromoteNextToActive(p)
  PROVE  IInv'
<1>1. /\ job[p].pc = "promote" /\ UNCHANGED <<slot, instances, trusted, age, unread, due>>
      /\ Active' = Active /\ Staged' = Staged
  BY DEF PromoteNextToActive, At, Active, Staged, history
<1>2. /\ JobOK(job[p]) /\ job[p] \in Job /\ Active # None /\ Rotating(job[p])
      /\ past \subseteq Event /\ due \in 0 .. 2
  BY <1>1 DEF IInv, JobOK, Rotating, TypeOK
<1>3. CASE Finish(p) /\ past' = past \cup {"failed"}
  <2>1. past \subseteq past' /\ past' \subseteq Event
    BY <1>2, <1>3 DEF Event
  <2>2. job'[p].pc = "idle"
    BY <1>3, FinishOK, IdleOK
  <2> QED
    BY <1>1, <1>2, <1>3, <2>1, <2>2, FinishOK, QuietStep
<1>4. CASE /\ Staged # None /\ UNCHANGED past
           /\ job' = [job EXCEPT ![p].pc = "activate", ![p].row = Staged, ![p].from = "next"]
  <2>1. /\ job' \in [Process -> Job]
        /\ job'[p] = [job[p] EXCEPT !.pc = "activate", !.row = Staged, !.from = "next"]
        /\ \A q \in Process \ {p} : job'[q] = job[q]
    BY <1>2, <1>4, SlotFields DEF IInv, TypeOK, Job, PC, Slot
  <2>2. /\ job'[p].pc = "activate" /\ job'[p].row = Staged
        /\ job'[p].from = "next" /\ job'[p].left = job[p].left
    BY <1>2, <2>1 DEF Job
  <2>3. RowOK(Staged) /\ Staged.source = "self-signed"
    BY <1>4 DEF IInv, RowsOK, Staged, Slot
  <2>4. job[p].left <= Window /\ job[p].left + Delay <= Window
    BY <1>1, <1>2 DEF JobOK
  <2>5. JobOK(job[p])' /\ ReadOK(job[p])'
    BY <1>1, <1>2, <1>4, <2>2, <2>3, <2>4 DEF JobOK, ReadOK, RowOK, Rotating
  <2>6. ~ Blind' => FoundOK(job[p])' /\ PairsOK'
    <3>1. ASSUME ~ Blind'
          PROVE  FoundOK(job[p])
      BY <1>4, <3>1 DEF IInv, AloneOK, Blind
    <3>2. ~ Blind' => PairsOK'
      BY <1>1, <1>4, <2>1, <2>2, StepPairs DEF Busy
    <3>3. slot'["next"] = Staged
      BY <1>1 DEF Staged
    <3> QED
      BY <1>1, <1>2, <1>4, <2>2, <3>1, <3>2, <3>3 DEF FoundOK, Rotating, Guarded
  <2> QED
    BY <1>1, <1>2, <1>4, <2>1, <2>2, <2>5, <2>6, QuietStep
<1> QED
  BY <1>3, <1>4 DEF PromoteNextToActive, Staged

\* A request that begins.
LEMMA BeginOK ==
  ASSUME IInv, NEW p \in Process, NEW j \in Job, Begin(p, j),
         UNCHANGED <<slot, instances, trusted, history>>,
         j.pc # "clear", JobOK(job[p])', ReadOK(job[p])', ~ Blind' => FoundOK(job[p])'
  PROVE  IInv'
<1>1. /\ job' \in [Process -> Job] /\ job'[p] = j
      /\ \A q \in Process \ {p} : job'[q] = job[q]
      /\ job[p].pc = "idle"
      /\ past \subseteq past' /\ past' \subseteq Event
      /\ ~ Blind' => PairsOK' /\ past' = past
  BY BeginPairs
<1>2. UNCHANGED <<age, unread, due>> /\ due \in 0 .. 2
  BY DEF history, IInv, TypeOK
<1> QED
  BY <1>1, <1>2, QuietStep

LEMMA PromoteBackupOK ==
  ASSUME IInv, NEW p \in Process, PromoteBackup(p)
  PROVE  IInv'
<1> DEFINE j == [Idle EXCEPT !.pc = "activate", !.row = Backup, !.from = "backup"]
<1>1. /\ Begin(p, j) /\ UNCHANGED <<slot, instances, trusted, history>>
      /\ Backup # None
  BY DEF PromoteBackup, Backup
<1>2. Backup \in Row /\ RowOK(Backup) /\ Backup.source = "ca-issued"
  BY <1>1, SlotFields DEF IInv, RowsOK, Backup, Slot
<1>3. /\ j \in Job /\ j.pc = "activate" /\ j.row = Backup /\ j.from = "backup"
  <2>1. j \in Job
    BY <1>2, IdleOK DEF Job, PC, Slot
  <2> QED
    BY <2>1 DEF Idle
<1> HIDE DEF j
<1>4. job'[p] = j
  BY <1>1, <1>3, BeginPairs
<1>5. slot'["backup"] = Backup
  BY <1>1 DEF Backup
<1>6. JobOK(job[p])' /\ ReadOK(job[p])' /\ FoundOK(job[p])'
  BY <1>1, <1>2, <1>3, <1>4, <1>5 DEF JobOK, ReadOK, FoundOK, RowOK, Rotating, Guarded
<1> QED
  BY <1>1, <1>3, <1>6, BeginOK

LEMMA SsoBootstrapsOK ==
  ASSUME IInv, NEW p \in Process, SsoBootstraps(p)
  PROVE  IInv'
<1> DEFINE j == [Idle EXCEPT !.pc = "bootstrap"]
<1>1. /\ Begin(p, j) /\ UNCHANGED <<slot, instances, trusted, history>>
      /\ Active = None /\ Active' = Active
  BY DEF SsoBootstraps, Active
<1>2. /\ j \in Job /\ j.pc = "bootstrap" /\ j.row = None /\ j.from = "next"
  BY IdleAt DEF PC
<1> HIDE DEF j
<1>3. job'[p] = j
  BY <1>1, <1>2, BeginPairs
<1>4. JobOK(job[p])' /\ ReadOK(job[p])' /\ FoundOK(job[p])'
  BY <1>1, <1>2, <1>3 DEF JobOK, ReadOK, FoundOK, RowOK, Rotating, Guarded
<1> QED
  BY <1>1, <1>2, <1>4, BeginOK

\* The one request that begins beside another unseen: none of the two generates
\* a first certificate, for there is one.
LEMMA SsoReadFailsOK ==
  ASSUME IInv, NEW p \in Process, SsoReadFails(p)
  PROVE  IInv'
<1>1. /\ job[p].pc = "idle" /\ UNCHANGED <<slot, instances, trusted, age, unread, due>>
      /\ Active' = Active /\ Active # None /\ past' = past \cup {"failed"}
      /\ job' = [job EXCEPT ![p].pc = "bootstrap"]
  BY DEF SsoReadFails, At, Active, history
<1>2. /\ JobOK(job[p]) /\ job[p] \in Job
      /\ past \subseteq past' /\ past' \subseteq Event /\ due \in 0 .. 2
  BY <1>1 DEF IInv, TypeOK, Event
<1>3. /\ job' \in [Process -> Job] /\ job'[p] = [job[p] EXCEPT !.pc = "bootstrap"]
      /\ \A q \in Process \ {p} : job'[q] = job[q]
  BY <1>1, <1>2 DEF IInv, TypeOK, Job, PC
<1>4. /\ job'[p].pc = "bootstrap" /\ job'[p].row = job[p].row
      /\ job'[p].from = job[p].from
  BY <1>2, <1>3 DEF Job
<1>5. JobOK(job[p])' /\ ReadOK(job[p])' /\ FoundOK(job[p])'
  BY <1>1, <1>2, <1>4 DEF JobOK, ReadOK, FoundOK, RowOK, Rotating, Guarded
<1>6. ~ Blind' => PairsOK'
  <2>1. SUFFICES ASSUME ~ Blind'
                 PROVE  PairsOK'
    OBVIOUS
  <2>2. PairsOK /\ \A q \in Process : FoundOK(job[q])
    BY <2>1, <1>2 DEF IInv, AloneOK, Blind
  <2>3. \A q \in Process : job[q].pc # "generate"
    BY <1>1, <2>2 DEF FoundOK
  <2>4. \A q \in Process : (Busy(q)' => Busy(q)) /\ job'[q].pc # "generate"
    BY <1>3, <1>4, <2>3 DEF Busy
  <2> QED
    BY <1>1, <2>2, <2>4 DEF PairsOK, At
<1> QED
  BY <1>1, <1>2, <1>3, <1>4, <1>5, <1>6, QuietStep

LEMMA AbortOK ==
  ASSUME IInv, NEW p \in Process, Abort(p)
  PROVE  IInv'
<1>1. /\ Finish(p) /\ UNCHANGED <<slot, instances, trusted, age, unread, due>>
      /\ past' = past \cup {"failed"}
  BY DEF Abort, history
<1>2. past \subseteq past' /\ past' \subseteq Event /\ due \in 0 .. 2 /\ ~ Calm'
  BY <1>1 DEF IInv, TypeOK, Event, Calm
<1>3. job'[p].pc = "idle"
  BY <1>1, FinishOK, IdleOK
<1> QED
  BY <1>1, <1>2, <1>3, FinishOK, QuietStep

\* A cold start.
LEMMA InstanceStep ==
  ASSUME IInv, UNCHANGED <<slot, job, trusted, history, past>>,
         sso' \in Instance \cup {None}, metadata' \in Serial \cup {None},
         token' \in Key, jwks' \subseteq Key, skipped' \in BOOLEAN, KeysOK',
         metadata' # None => Active # None, metadata # None => metadata' # None
  PROVE  IInv'
<1>1. UNCHANGED <<slot, age, unread, due, past, job, trusted>>
  BY DEF history
<1>2. job \in [Process -> Job] /\ past \subseteq Event /\ trusted \subseteq Serial
      /\ due \in 0 .. 2
  BY DEF IInv, TypeOK
<1>3. \A q \in Process : Moves(q)
  BY <1>1 DEF Moves
<1>4. ~ Blind' => PairsOK'
  BY <1>1 DEF IInv, AloneOK, Blind, PairsOK, At, Busy
<1>5. Clearing' <=> Clearing
  BY <1>1 DEF Clearing, At
<1> QED
  BY <1>1, <1>2, <1>3, <1>4, <1>5, QuietOK

LEMMA SsoColdStartOK ==
  ASSUME IInv, NEW p \in Process, SsoColdStart(p)
  PROVE  IInv'
<1>1. /\ Active # None /\ UNCHANGED <<slot, metadata, token, jwks, skipped, job, trusted, history, past>>
      /\ sso' = [certKey |-> Active.key, key |-> SelectActiveSigner(Active)]
  BY DEF SsoColdStart, Active
<1>2. SelectActiveSigner(Active) = Active.key
  BY <1>1 DEF IInv, RowsOK, RowOK, Active, Slot
<1>3. Active.key \in Key
  BY <1>1, SlotFields, RowFields
<1>4. sso' = [certKey |-> Active.key, key |-> Active.key] /\ sso' \in Instance
  BY <1>1, <1>2, <1>3 DEF Instance
<1>5. KeysOK'
  BY <1>1, <1>4 DEF IInv, KeysOK, KeyMatchesCert
<1>6. /\ metadata' \in Serial \cup {None} /\ token' \in Key /\ jwks' \subseteq Key
      /\ skipped' \in BOOLEAN
  BY <1>1 DEF IInv, TypeOK
<1> QED
  BY <1>1, <1>4, <1>5, <1>6, InstanceStep

LEMMA SigningKeyOK ==
  ASSUME IInv
  PROVE  SigningKey \in {"primary", BackupKey}
BY DEF IInv, RowsOK, RowOK, SigningKey, Active, Slot

LEMMA ColdStartOK ==
  ASSUME IInv, MetadataColdStart \/ TokenColdStart \/ DiscoveryColdStart
  PROVE  IInv'
<1>1. /\ sso \in Instance \cup {None} /\ metadata \in Serial \cup {None}
      /\ token \in Key /\ jwks \subseteq Key /\ skipped \in BOOLEAN /\ KeysOK
      /\ metadata # None => Active # None
  BY DEF IInv, TypeOK, RowsOK
<1>2. CASE MetadataColdStart
  <2>1. /\ Active # None /\ UNCHANGED <<slot, sso, token, jwks, skipped, job, trusted, history, past>>
        /\ metadata' = Active.serial
    BY <1>2 DEF MetadataColdStart, Active
  <2>2. metadata' \in Serial /\ metadata' # None
    BY <2>1, SlotFields, RowFields, Constants
  <2>3. KeysOK'
    BY <1>1, <2>1 DEF KeysOK, KeyMatchesCert
  <2> QED
    BY <1>1, <2>1, <2>2, <2>3, InstanceStep
<1>3. CASE TokenColdStart
  <2>1. /\ UNCHANGED <<slot, sso, metadata, jwks, skipped, job, trusted, history, past>>
        /\ token' \in {"primary", BackupKey}
    BY <1>3, SigningKeyOK DEF TokenColdStart
  <2>2. KeysOK' /\ token' \in Key
    BY <1>1, <2>1, Constants DEF KeysOK, KeyMatchesCert
  <2> QED
    BY <1>1, <2>1, <2>2, InstanceStep
<1>4. CASE DiscoveryColdStart
  <2>1. PICK active \in {SigningKey, "primary"} :
          \E keys \in Loaded(AddBackupVerificationKey(active)) :
            /\ jwks' = {active} \cup keys
            /\ skipped' = (keys # AddBackupVerificationKey(active))
    BY <1>4 DEF DiscoveryColdStart
  <2>2. PICK keys \in Loaded(AddBackupVerificationKey(active)) :
          /\ jwks' = {active} \cup keys
          /\ skipped' = (keys # AddBackupVerificationKey(active))
    BY <2>1
  <2>3. UNCHANGED <<slot, sso, metadata, token, job, trusted, history, past>>
    BY <1>4 DEF DiscoveryColdStart
  <2>4. /\ active \in {"primary", BackupKey}
        /\ keys \subseteq {"primary", BackupKey} \ {active}
        /\ skipped' \/ keys = {"primary", BackupKey} \ {active}
    BY <2>1, <2>2, SigningKeyOK DEF AddBackupVerificationKey, Loaded
  <2>5. jwks' \subseteq Key /\ (skipped' \/ {"primary", BackupKey} \subseteq jwks')
    BY <2>2, <2>4, Constants
  <2>6. KeysOK' /\ skipped' \in BOOLEAN
    BY <1>1, <2>2, <2>3, <2>5 DEF KeysOK, KeyMatchesCert
  <2> QED
    BY <1>1, <2>3, <2>5, <2>6, InstanceStep
<1> QED
  BY <1>2, <1>3, <1>4

\* What a metadata request has after reading one more row.
LEMMA ReadsOK ==
  ASSUME IInv, NEW j \in Job, NEW s \in Slot, NEW pc \in PC, NEW k \in Reads(j, s, pc)
  PROVE  /\ k \in Job /\ k.pc = pc /\ k.row = j.row /\ k.from = j.from
         /\ k.clean => /\ j.clean
                       /\ slot[s] = None => k.first = j.first /\ k.rest = j.rest
                       /\ slot[s] # None /\ j.first = None =>
                            k.first = slot[s].serial /\ k.rest = j.rest
                       /\ slot[s] # None /\ j.first # None =>
                            /\ k.first = j.first
                            /\ k.rest = j.rest \cup ({slot[s].serial} \ {j.first})
<1>1. slot[s] = None \/ (slot[s] \in Row /\ slot[s].serial \in Serial)
  BY RowFields DEF IInv, TypeOK
<1>2. CASE k = [j EXCEPT !.pc = pc, !.clean = FALSE]
  BY <1>2 DEF Job
<1>3. CASE k = [Add(j, slot[s]) EXCEPT !.pc = pc]
  <2>1. CASE slot[s] = None
    <3>1. k = [j EXCEPT !.pc = pc]
      BY <1>3, <2>1 DEF Add
    <3> QED
      BY <2>1, <3>1 DEF Job
  <2>2. CASE slot[s] # None /\ j.first = None
    <3>1. Add(j, slot[s]) = [j EXCEPT !.first = slot[s].serial]
      BY <2>2 DEF Add
    <3>2. k = [[j EXCEPT !.first = slot[s].serial] EXCEPT !.pc = pc]
      BY <1>3, <3>1
    <3> QED
      BY <1>1, <2>2, <3>2 DEF Job
  <2>3. CASE slot[s] # None /\ j.first # None
    <3>1. Add(j, slot[s]) = [j EXCEPT !.rest = j.rest \cup ({slot[s].serial} \ {j.first})]
      BY <2>3 DEF Add
    <3>2. k = [[j EXCEPT !.rest = j.rest \cup ({slot[s].serial} \ {j.first})] EXCEPT !.pc = pc]
      BY <1>3, <3>1
    <3> QED
      BY <1>1, <2>3, <3>2 DEF Job
  <2> QED
    BY <2>1, <2>2, <2>3
<1> QED
  BY <1>2, <1>3 DEF Reads

LEMMA ServeMetadataOK ==
  ASSUME IInv, NEW p \in Process, ServeMetadata(p)
  PROVE  IInv'
<1>1. PICK j \in Reads(Idle, "active", "fetchNext") : Begin(p, j)
  BY DEF ServeMetadata
<1>2. /\ UNCHANGED <<slot, instances, trusted, history>> /\ Active' = Active
      /\ Active # None /\ metadata' # None
  BY DEF ServeMetadata, IInv, RowsOK, Active, instances
<1>3. Idle.first = None /\ Idle.rest = {} /\ Idle.row = None /\ Idle.from = "next"
  BY DEF Idle
<1>4. /\ j \in Job /\ j.pc = "fetchNext" /\ j.row = None /\ j.from = "next"
      /\ j.clean => j.first = Active.serial /\ j.rest = {}
  BY <1>2, <1>3, ReadsOK, IdleOK DEF Active, Slot, PC
<1>5. job'[p] = j
  BY <1>1, <1>4, BeginPairs
<1>6. JobOK(job[p])' /\ ReadOK(job[p])' /\ FoundOK(job[p])'
  BY <1>2, <1>4, <1>5 DEF JobOK, ReadOK, FoundOK, RowOK, Rotating, Guarded
<1> QED
  BY <1>1, <1>2, <1>4, <1>6, BeginOK

LEMMA FetchNextOK ==
  ASSUME IInv, NEW p \in Process, FetchNext(p)
  PROVE  IInv'
<1>1. PICK j \in Reads(job[p], "next", "fetchBackup") : job' = [job EXCEPT ![p] = j]
  BY DEF FetchNext
<1>2. /\ UNCHANGED <<slot, instances, trusted, age, unread, due, past>>
      /\ Active' = Active /\ Staged' = Staged /\ job[p].pc = "fetchNext"
      /\ metadata' = metadata
  BY DEF FetchNext, Active, Staged, At, history, instances
<1>3. /\ JobOK(job[p]) /\ ReadOK(job[p]) /\ job[p] \in Job /\ Active # None
      /\ past \subseteq Event /\ due \in 0 .. 2
  BY <1>2 DEF IInv, TypeOK, JobOK
<1>4. job[p].clean => job[p].first = Active.serial /\ job[p].rest = {}
  BY <1>2, <1>3 DEF ReadOK
<1>5. Active.serial # None
  BY <1>3, SlotFields, RowFields, Constants
<1>6. /\ j \in Job /\ j.pc = "fetchBackup" /\ j.row = job[p].row /\ j.from = job[p].from
      /\ j.clean => /\ j.first = Active.serial
                    /\ j.rest = IF Staged = None THEN {}
                                ELSE {Staged.serial} \ {Active.serial}
  <2>1. "next" \in Slot /\ "fetchBackup" \in PC /\ slot["next"] = Staged
    BY DEF Staged, Slot, PC
  <2>2. /\ j \in Job /\ j.pc = "fetchBackup" /\ j.row = job[p].row /\ j.from = job[p].from
        /\ j.clean => /\ job[p].clean
                      /\ Staged = None => j.first = job[p].first /\ j.rest = job[p].rest
                      /\ Staged # None /\ job[p].first # None =>
                           /\ j.first = job[p].first
                           /\ j.rest = job[p].rest \cup ({Staged.serial} \ {job[p].first})
    BY <1>1, <1>3, <2>1, ReadsOK
  <2> QED
    BY <1>4, <1>5, <2>2
<1>7. /\ job' \in [Process -> Job] /\ job'[p] = j
      /\ \A q \in Process \ {p} : job'[q] = job[q]
  BY <1>1, <1>6 DEF IInv, TypeOK
<1>8. JobOK(job[p])' /\ ReadOK(job[p])' /\ FoundOK(job[p])'
  BY <1>2, <1>3, <1>6, <1>7 DEF JobOK, ReadOK, FoundOK, RowOK, Rotating, Guarded
<1>9. ~ Blind' => PairsOK'
  BY <1>2, <1>6, <1>7, StepPairs DEF Busy
<1> QED
  BY <1>2, <1>3, <1>6, <1>7, <1>8, <1>9, QuietStep

\* A document, clean or not, ends a metadata request.
LEMMA FetchBackupOK ==
  ASSUME IInv, NEW p \in Process, FetchBackup(p)
  PROVE  IInv'
<1>1. /\ UNCHANGED <<slot, sso, metadata, token, jwks, skipped, due>>
      /\ Active' = Active /\ Staged' = Staged /\ Backup' = Backup
      /\ job[p].pc = "fetchBackup" /\ Finish(p)
  BY DEF FetchBackup, Active, Staged, Backup, At, instances
<1>2. /\ JobOK(job[p]) /\ ReadOK(job[p]) /\ job[p] \in Job /\ Active # None
      /\ metadata \in Serial /\ TypeOK /\ past \subseteq Event
  BY <1>1 DEF IInv, TypeOK, JobOK
<1>3. PICK j \in Reads(job[p], "backup", "idle") :
        IF j.first = None THEN UNCHANGED <<trusted, age, unread, past>>
        ELSE /\ trusted' = {metadata} \cup j.rest
             /\ IF j.clean /\ metadata = j.first
                THEN age' = 0 /\ unread' = FALSE /\ past' = past \ {"unannounced"}
                ELSE age' = Delay /\ UNCHANGED <<unread, past>>
  BY DEF FetchBackup, PublishedRows
<1>4. /\ j \in Job
      /\ j.clean => /\ job[p].clean
                    /\ Backup = None => j.first = job[p].first /\ j.rest = job[p].rest
                    /\ Backup # None /\ job[p].first # None =>
                         /\ j.first = job[p].first
                         /\ j.rest = job[p].rest \cup ({Backup.serial} \ {job[p].first})
  <2>1. "backup" \in Slot /\ "idle" \in PC /\ slot["backup"] = Backup
    BY DEF Backup, Slot, PC
  <2> QED
    BY <1>2, <2>1, ReadsOK
<1>5. /\ job' \in [Process -> Job] /\ job'[p] = Idle /\ job'[p].pc = "idle"
      /\ \A q \in Process \ {p} : job'[q] = job[q]
      /\ JobOK(job[p])' /\ ReadOK(job[p])' /\ FoundOK(job[p])'
  BY <1>1, FinishOK, IdleOK
<1>6. /\ past' = past \/ past' = past \ {"unannounced"}
      /\ Blind' <=> Blind
      /\ Calm' <=> Calm
      /\ "failed" \in past' <=> "failed" \in past
  BY <1>3 DEF Blind, Calm
<1>7. TypeOK'
  <2>1. trusted' \subseteq Serial /\ age' \in 0 .. Delay /\ unread' \in BOOLEAN
    <3>1. j.rest \subseteq Serial /\ 0 \in 0 .. Delay /\ Delay \in 0 .. Delay
      BY <1>4, Constants, JobFields
    <3>2. trusted \subseteq Serial /\ age \in 0 .. Delay /\ unread \in BOOLEAN
      BY <1>2 DEF TypeOK
    <3> QED
      BY <1>2, <1>3, <3>1, <3>2
  <2>2. past' \subseteq Event
    BY <1>2, <1>6
  <2> QED
    BY <1>1, <1>2, <1>5, <2>1, <2>2 DEF TypeOK
<1>8. RowsOK' /\ KeysOK'
  BY <1>1 DEF IInv, RowsOK, RowOK, KeysOK, KeyMatchesCert, SelectActiveSigner
<1>9. \A q \in Process : (JobOK(job[q]) /\ ReadOK(job[q]))'
  <2>1. SUFFICES ASSUME NEW q \in Process \ {p}
                 PROVE  (JobOK(job[q]) /\ ReadOK(job[q]))'
    BY <1>5
  <2>2. JobOK(job[q]) /\ ReadOK(job[q]) /\ job'[q] = job[q]
    BY <1>5 DEF IInv
  <2> QED
    BY <1>1, <2>2 DEF JobOK, ReadOK, Rotating, RowOK
<1>10. AloneOK'
  <2>1. SUFFICES ASSUME ~ Blind'
                 PROVE  PairsOK' /\ \A q \in Process \ {p} : FoundOK(job[q])'
    BY <1>5 DEF AloneOK
  <2>2. past \cap {"failed", "blind"} \subseteq past'
    BY <1>6
  <2>3. PairsOK' /\ PairsOK /\ \A q \in Process : FoundOK(job[q])
    BY <1>1, <1>6, <2>1, <2>2, FinishOK DEF IInv, AloneOK
  <2>4. ASSUME NEW q \in Process \ {p}
        PROVE  FoundOK(job[q])'
    <3>1. job'[q] = job[q] /\ job[q].pc \in {"idle", "bootstrap"}
      BY <1>1, <1>5, <2>3 DEF PairsOK, Busy
    <3> QED
      BY <1>1, <1>6, <2>3, <3>1 DEF FoundOK, Guarded, Rotating
  <2> QED
    BY <2>3, <2>4
<1>11. TrustOK'
  <2>1. SUFFICES ASSUME Informed'
                 PROVE  TrustOK'
    BY DEF TrustOK
  <2>2. age' < Delay /\ age' \in Nat
    BY <1>7, <2>1, Constants DEF Informed, TypeOK
  <2>3. CASE UNCHANGED <<trusted, age, unread, past>>
    <3>1. Informed /\ TrustOK
      BY <2>1, <2>3 DEF Informed, IInv
    <3> QED
      BY <1>1, <2>3, <3>1 DEF TrustOK
  <2>4. CASE /\ j.first # None /\ trusted' = {metadata} \cup j.rest
             /\ j.clean /\ metadata = j.first
             /\ age' = 0 /\ unread' = FALSE /\ past' = past \ {"unannounced"}
    <3>1. /\ job[p].first = Active.serial
          /\ job[p].rest = IF Staged = None THEN {} ELSE {Staged.serial} \ {Active.serial}
      BY <1>1, <1>2, <1>4, <2>4 DEF ReadOK
    <3>2. Active.serial # None
      BY <1>2, SlotFields, RowFields, Constants
    <3>3. /\ Active.serial \in trusted'
          /\ Backup # None => Backup.serial \in trusted'
          /\ Staged # None => Staged.serial \in trusted'
      BY <1>4, <2>4, <3>1, <3>2
    <3> QED
      BY <1>1, <3>3 DEF TrustOK
  <2>5. CASE age' = Delay
    BY <2>2, <2>5, Constants
  <2> QED
    BY <1>3, <2>3, <2>4, <2>5
<1>12. DueOK'
  <2>1. Clearing' <=> Clearing
    BY <1>1, <1>5 DEF At, Clearing
  <2> HIDE DEF Calm, Clearing
  <2> QED
    BY <1>1, <1>6, <2>1 DEF IInv, DueOK
<1> QED
  BY <1>7, <1>8, <1>9, <1>10, <1>11, <1>12 DEF IInv
-----------------------------------------------------------------------------
(* Steps that write a row *)

\* A process that goes on as it was, but for what it has read.
Kept(q) == /\ job'[q].pc = job[q].pc /\ job'[q].row = job[q].row
           /\ job'[q].from = job[q].from /\ job'[q].left = job[q].left

LEMMA UncleanOK ==
  ASSUME NEW nj \in [Process -> Job], job' = Unclean(nj)
  PROVE  /\ job' \in [Process -> Job]
         /\ \A q \in Process : /\ job'[q].pc = nj[q].pc /\ job'[q].row = nj[q].row
                               /\ job'[q].from = nj[q].from /\ job'[q].left = nj[q].left
                               /\ ReadOK(job[q])'
<1>1. ASSUME NEW q \in Process
      PROVE  /\ job'[q] \in Job
             /\ job'[q].pc = nj[q].pc /\ job'[q].row = nj[q].row
             /\ job'[q].from = nj[q].from /\ job'[q].left = nj[q].left
             /\ job'[q].pc \in {"fetchNext", "fetchBackup"} => ~ job'[q].clean
  <2>1. /\ nj[q] \in Job
        /\ job'[q] = [nj[q] EXCEPT !.clean = nj[q].clean
                                             /\ nj[q].pc \notin {"fetchNext", "fetchBackup"}]
    BY DEF Unclean
  <2> QED
    BY <2>1 DEF Job
<1>2. job' \in [Process -> Job]
  BY <1>1 DEF Unclean
<1> QED
  BY <1>1, <1>2 DEF ReadOK

LEMMA FreshOK ==
  ASSUME NEW s \in Fresh
  PROVE  /\ s \in Serial
         /\ \A t \in Slot : slot[t] # None => slot[t].serial # s
BY DEF Fresh, Held

LEMMA SelfSignedOK ==
  ASSUME NEW s \in Serial
  PROVE  /\ SelfSigned(s) \in Row /\ RowOK(SelfSigned(s))
         /\ SelfSigned(s).source = "self-signed" /\ SelfSigned(s).left = Life
         /\ SelfSigned(s) # None
<1>1. SelfSigned(s) \in Row
  <2>1. Life \in 0 .. Life
    BY Constants
  <2> QED
    BY <2>1 DEF SelfSigned, Row, Source, Key
<1>2. SelfSigned(s) # None
  BY <1>1, Constants
<1> QED
  BY <1>1, <1>2 DEF SelfSigned, RowOK, SelectActiveSigner

\* What is left to show of a write.
LEMMA WriteOK ==
  ASSUME IInv, NEW s \in Slot, NEW row \in Row \cup {None},
         slot' = [slot EXCEPT ![s] = row], RowOK(row),
         s = "active" => row # None,
         s = "next" /\ row # None => row.source = "self-signed" /\ Active # None,
         s = "backup" /\ row # None => row.source = "ca-issued",
         job' \in [Process -> Job], \A q \in Process : ReadOK(job[q])',
         \A q \in Process : Kept(q) \/ JobOK(job[q])',
         UNCHANGED <<metadata, token, jwks, skipped, age>>,
         sso' \in Instance \cup {None}, KeyMatchesCert',
         trusted' \subseteq Serial, unread' \in BOOLEAN, due' \in 0 .. 2,
         past' \subseteq Event, AloneOK', TrustOK', DueOK'
  PROVE  IInv'
<1>1. slot' \in [Slot -> Row \cup {None}]
  BY DEF IInv, TypeOK
<1>2. TypeOK'
  BY <1>1 DEF IInv, TypeOK
<1>3. \A t \in Slot : slot'[t] = IF t = s THEN row ELSE slot[t]
  BY DEF IInv, TypeOK
<1>4. /\ Active' = (IF s = "active" THEN row ELSE Active)
      /\ Staged' = (IF s = "next" THEN row ELSE Staged)
      /\ Backup' = (IF s = "backup" THEN row ELSE Backup)
  BY <1>3 DEF Active, Staged, Backup, Slot
<1>5. Active # None => Active' # None
  BY <1>4
<1>6. RowsOK'
  <2>1. ASSUME NEW t \in Slot
        PROVE  RowOK(slot[t])'
    <3>1. RowOK(slot[t])
      BY DEF IInv, RowsOK
    <3> QED
      BY <1>3, <3>1 DEF RowOK, SelectActiveSigner
  <2>2. /\ (Staged' # None => Staged'.source = "self-signed" /\ Active' # None)
        /\ (Backup' # None => Backup'.source = "ca-issued")
        /\ (metadata' # None => Active' # None)
    BY <1>4, <1>5 DEF IInv, RowsOK
  <2> QED
    BY <2>1, <2>2 DEF RowsOK
<1>7. KeysOK'
  BY DEF IInv, KeysOK
<1>8. ASSUME NEW q \in Process, Kept(q)
      PROVE  JobOK(job[q])'
  BY <1>5, <1>8 DEF IInv, JobOK, Kept, Rotating, RowOK
<1> QED
  BY <1>2, <1>6, <1>7, <1>8 DEF IInv

\* Beside a process at work there are cold starts only that could not read.
LEMMA Bystander ==
  ASSUME IInv, NEW p \in Process, Busy(p), NEW q \in Process \ {p}, ~ Blind',
         past \subseteq past', Kept(q)
  PROVE  FoundOK(job[q])'
<1>1. PairsOK
  BY DEF IInv, AloneOK, Blind
<1>2. job[q].pc \in {"idle", "bootstrap"} /\ job[p].pc # "idle"
  BY <1>1 DEF PairsOK, Busy
<1>3. job[q].pc = "bootstrap" => "failed" \in past
  BY <1>1, <1>2 DEF PairsOK, At
<1> QED
  BY <1>2, <1>3 DEF FoundOK, Kept, Guarded, Rotating

\* Without a failed call a process that is not idle is alone.
LEMMA Alone ==
  ASSUME IInv, Calm, NEW p \in Process, ~ At(p, "idle"), NEW q \in Process \ {p}
  PROVE  At(q, "idle")
BY DEF IInv, AloneOK, PairsOK, Blind, Calm

LEMMA FirstCertOK ==
  ASSUME IInv, NEW p \in Process, NEW s \in Fresh,
         At(p, "generate") \/ At(p, "bootstrap"),
         slot' = [slot EXCEPT !["active"] = SelfSigned(s)],
         job' = Unclean([job EXCEPT ![p] = Idle]),
         trusted' = trusted \ {s}, past' = past \cup {"unannounced"}, due' = 0,
         UNCHANGED <<metadata, token, jwks, skipped, age, unread>>,
         sso' \in Instance \cup {None}, KeyMatchesCert'
  PROVE  IInv'
<1> DEFINE nj == [job EXCEPT ![p] = Idle]
<1>1. nj \in [Process -> Job] /\ nj[p] = Idle /\ \A q \in Process \ {p} : nj[q] = job[q]
  BY IdleOK DEF IInv, TypeOK
<1>2. job' = Unclean(nj)
  OBVIOUS
<1> HIDE DEF nj
<1>3. /\ job' \in [Process -> Job] /\ \A q \in Process : ReadOK(job[q])'
      /\ \A q \in Process \ {p} : Kept(q)
      /\ job'[p].pc = "idle" /\ job'[p].row = None /\ job'[p].from = "next"
  <2>1. Idle.pc = "idle" /\ Idle.row = None /\ Idle.from = "next"
    BY DEF Idle
  <2> QED
    BY <1>1, <1>2, <2>1, UncleanOK DEF Kept
<1>4. JobOK(job[p])' /\ FoundOK(job[p])'
  BY <1>3 DEF JobOK, FoundOK, RowOK, Rotating, Guarded
<1>5. /\ s \in Serial /\ SelfSigned(s) \in Row /\ RowOK(SelfSigned(s))
      /\ SelfSigned(s).source = "self-signed" /\ SelfSigned(s).left = Life
      /\ SelfSigned(s) # None
  BY FreshOK, SelfSignedOK
<1>6. Active' = SelfSigned(s) /\ Staged' = Staged /\ Backup' = Backup
  BY DEF IInv, TypeOK, Active, Staged, Backup, Slot
<1>7. past' \subseteq Event /\ trusted' \subseteq Serial /\ unread' \in BOOLEAN
  BY DEF IInv, TypeOK, Event
<1>8. AloneOK'
  <2>1. SUFFICES ASSUME ~ Blind'
                 PROVE  PairsOK' /\ \A q \in Process \ {p} : FoundOK(job[q])'
    BY <1>4 DEF AloneOK
  <2>2. PairsOK /\ ~ Blind /\ \A q \in Process : FoundOK(job[q])
    BY <2>1 DEF IInv, AloneOK, Blind
  <2>3. PairsOK'
    BY <1>3, <2>1, StepPairs DEF Kept
  <2>4. ASSUME NEW q \in Process \ {p}
        PROVE  FoundOK(job[q])'
    <3>1. Kept(q)
      BY <1>3
    <3>2. CASE At(p, "generate")
      BY <2>1, <3>1, <3>2, Bystander DEF Busy, At
    <3>3. CASE At(p, "bootstrap") /\ "failed" \notin past
      BY <2>2, <3>1, <3>3 DEF PairsOK, At, Kept, FoundOK, Guarded, Rotating
    <3>4. CASE At(p, "bootstrap") /\ "failed" \in past
      <4>1. job[q].pc # "generate" /\ FoundOK(job[q]) /\ job[q].from # "active"
            /\ job[q].from \in Slot
        BY <2>2, <3>4, JobFields DEF PairsOK, At, IInv, JobOK, TypeOK
      <4>2. slot'[job[q].from] = slot[job[q].from]
        BY <4>1 DEF IInv, TypeOK
      <4> QED
        BY <1>5, <1>6, <3>1, <3>4, <4>1, <4>2 DEF FoundOK, Kept, Guarded, Rotating
    <3> QED
      BY <3>2, <3>3, <3>4
  <2> QED
    BY <2>3, <2>4
<1>9. TrustOK'
  BY DEF TrustOK, Informed
<1>10. DueOK' /\ due' \in 0 .. 2
  BY DEF DueOK
<1> QED
  BY <1>3, <1>4, <1>5, <1>7, <1>8, <1>9, <1>10, WriteOK DEF Slot

LEMMA GenerateInitialOK ==
  ASSUME IInv, NEW p \in Process, GenerateInitial(p)
  PROVE  IInv'
<1>1. PICK s \in Fresh : /\ Write("active", SelfSigned(s), [job EXCEPT ![p] = Idle])
                         /\ Mint(s)
  BY DEF GenerateInitial
<1>2. /\ At(p, "generate") /\ due' = 0 /\ past' = past \cup {"unannounced"}
      /\ UNCHANGED <<sso, metadata, token, jwks, skipped, age, unread>>
  BY DEF GenerateInitial, instances
<1>3. sso' \in Instance \cup {None} /\ KeyMatchesCert'
  BY <1>2 DEF IInv, TypeOK, KeysOK, KeyMatchesCert
<1> QED
  BY <1>1, <1>2, <1>3, FirstCertOK DEF Write, Mint

LEMMA BootstrapOK ==
  ASSUME IInv, NEW p \in Process, Bootstrap(p)
  PROVE  IInv'
<1>1. PICK s \in Fresh :
        /\ Mint(s)
        /\ \/ Write("active", SelfSigned(s), [job EXCEPT ![p] = Idle])
              /\ past' = past \cup {"unannounced"}
              /\ due' = 0
           \/ /\ CallsFail
              /\ Finish(p)
              /\ past' = past \cup {"failed"}
              /\ UNCHANGED <<slot, due>>
  BY DEF Bootstrap
<1>2. /\ At(p, "bootstrap") /\ sso' = [certKey |-> "primary", key |-> "primary"]
      /\ UNCHANGED <<metadata, token, jwks, skipped, age, unread>>
  BY DEF Bootstrap
<1>3. sso' \in Instance /\ KeyMatchesCert' /\ due \in 0 .. 2
  BY <1>2, Constants DEF IInv, TypeOK, KeyMatchesCert, Instance
<1>4. CASE /\ Write("active", SelfSigned(s), [job EXCEPT ![p] = Idle])
           /\ past' = past \cup {"unannounced"} /\ due' = 0
  BY <1>1, <1>2, <1>3, <1>4, FirstCertOK DEF Write, Mint
<1>5. CASE Finish(p) /\ past' = past \cup {"failed"} /\ UNCHANGED <<slot, due>>
  <2>1. past \subseteq past' /\ past' \subseteq Event /\ ~ Calm'
    BY <1>5 DEF IInv, TypeOK, Event, Calm
  <2>2. \A t \in Slot : slot[t] # None /\ slot[t].serial \in trusted
                         => slot[t].serial \in trusted'
    BY <1>1, FreshOK DEF Mint
  <2>3. trusted' \subseteq Serial /\ token' \in Key /\ jwks' \subseteq Key
        /\ skipped' \in BOOLEAN /\ metadata' \in Serial \cup {None}
    BY <1>1, <1>2 DEF IInv, TypeOK, Mint
  <2>4. KeysOK' /\ (metadata' # None => Active # None)
    BY <1>2, <1>3 DEF IInv, KeysOK, RowsOK
  <2>5. \A q \in Process : Moves(q)
    BY <1>5, FinishOK DEF Moves
  <2>6. job' \in [Process -> Job] /\ (~ Blind' => PairsOK')
    BY <1>5, <2>1, FinishOK
  <2> QED
    BY <1>2, <1>3, <1>5, <2>1, <2>2, <2>3, <2>4, <2>5, <2>6, QuietOK
<1> QED
  BY <1>1, <1>4, <1>5

LEMMA StageNextOK ==
  ASSUME IInv, NEW p \in Process, StageNext(p)
  PROVE  IInv'
<1>1. PICK s \in Fresh : /\ Write("next", SelfSigned(s), [job EXCEPT ![p] = Idle])
                         /\ Mint(s)
  BY DEF StageNext
<1>2. /\ job[p].pc = "stage" /\ Tried
      /\ past' = IF job[p].left < Window THEN past \cup {"unannounced"} ELSE past
      /\ UNCHANGED <<sso, metadata, token, jwks, skipped, age, unread>>
      /\ trusted' = trusted \ {s}
  BY <1>1 DEF StageNext, instances, At, Mint
<1> DEFINE nj == [job EXCEPT ![p] = Idle]
<1>3. nj \in [Process -> Job] /\ nj[p] = Idle /\ \A q \in Process \ {p} : nj[q] = job[q]
  BY IdleOK DEF IInv, TypeOK
<1>4. job' = Unclean(nj) /\ slot' = [slot EXCEPT !["next"] = SelfSigned(s)]
  BY <1>1 DEF Write
<1> HIDE DEF nj
<1>5. /\ job' \in [Process -> Job] /\ \A q \in Process : ReadOK(job[q])'
      /\ \A q \in Process \ {p} : Kept(q)
      /\ job'[p].pc = "idle" /\ job'[p].row = None /\ job'[p].from = "next"
  <2>1. Idle.pc = "idle" /\ Idle.row = None /\ Idle.from = "next"
    BY DEF Idle
  <2> QED
    BY <1>3, <1>4, <2>1, UncleanOK DEF Kept
<1>6. JobOK(job[p])' /\ FoundOK(job[p])'
  BY <1>5 DEF JobOK, FoundOK, RowOK, Rotating, Guarded
<1>7. /\ s \in Serial /\ SelfSigned(s) \in Row /\ RowOK(SelfSigned(s))
      /\ SelfSigned(s).source = "self-signed" /\ SelfSigned(s).left = Life
      /\ SelfSigned(s) # None
  BY FreshOK, SelfSignedOK
<1>8. Active' = Active /\ Staged' = SelfSigned(s) /\ Backup' = Backup
  BY <1>4 DEF IInv, TypeOK, Active, Staged, Backup, Slot
<1>9. /\ past \subseteq past' /\ past' \subseteq Event /\ trusted' \subseteq Serial
      /\ unread' \in BOOLEAN /\ sso' \in Instance \cup {None} /\ KeyMatchesCert'
      /\ Calm' <=> Calm
  BY <1>2 DEF IInv, TypeOK, Event, KeysOK, KeyMatchesCert, Calm
<1>10. /\ Active # None /\ job[p].left <= Window /\ job[p].left \in Nat
       /\ Active.left \in Nat
  <2>1. Active # None /\ job[p].left <= Window /\ job[p] \in Job
    BY <1>2 DEF IInv, JobOK, Rotating, TypeOK
  <2> QED
    BY <2>1, SlotFields, RowFields, JobFields
<1>11. /\ ~ Blind => FoundOK(job[p]) /\ Active.source = "self-signed" /\ Staged = None
       /\ ~ Blind /\ ~ ({"failed", "unannounced"} \subseteq past) => job[p].left = Active.left
  BY <1>2 DEF IInv, AloneOK, FoundOK, Guarded, Rotating
<1>12. AloneOK'
  <2>1. SUFFICES ASSUME ~ Blind'
                 PROVE  PairsOK' /\ \A q \in Process \ {p} : FoundOK(job[q])'
    BY <1>6 DEF AloneOK
  <2>2. PairsOK'
    BY <1>5, <1>9, <2>1, StepPairs DEF Kept
  <2> QED
    BY <1>2, <1>5, <1>9, <2>1, <2>2, Bystander DEF Busy
<1>13. TrustOK'
  <2>1. SUFFICES ASSUME Informed'
                 PROVE  TrustOK'
    BY DEF TrustOK
  <2>2. past' = past /\ Informed /\ ~ Blind /\ "unannounced" \notin past
        /\ ~ (job[p].left < Window)
    BY <1>2, <2>1 DEF Informed, Blind
  <2>3. Active.left = Window
    BY <1>10, <1>11, <2>2, Constants
  <2>4. age \in Nat
    BY Constants DEF IInv, TypeOK
  <2>5. Active # None => Active.serial \in trusted'
    BY <1>2, <2>2, FreshOK DEF IInv, TrustOK, Active, Slot
  <2>6. Backup # None /\ ~ unread => Backup.serial \in trusted'
    BY <1>2, <2>2, FreshOK DEF IInv, TrustOK, Backup, Slot
  <2>7. Life <= Life + age /\ Window + Life <= Active.left + Life
    BY <2>3, <2>4, Constants
  <2> QED
    BY <1>2, <1>7, <1>8, <2>5, <2>6, <2>7 DEF TrustOK
<1>14. DueOK' /\ due' \in 0 .. 2
  <2>1. due \in 0 .. 2
    BY DEF IInv, TypeOK
  <2>2. due' \in 0 .. 2 /\ (due = 0 => due' \in {0, 1})
    BY <1>2, <2>1, TriedOK
  <2>3. ASSUME Calm
        PROVE  due = 0 /\ ~ Clearing'
    <3>1. Active.source = "self-signed" /\ Staged = None
      BY <1>11, <2>3 DEF Calm, Blind
    <3>2. due = 0
      BY <1>10, <2>3, <3>1 DEF IInv, DueOK
    <3>3. \A q \in Process \ {p} : At(q, "idle")
      BY <1>2, <2>3, Alone DEF At
    <3> QED
      BY <1>5, <3>2, <3>3 DEF At, Kept, Clearing
  <2>4. Staged' # None
    BY <1>7, <1>8
  <2> HIDE DEF Calm, Clearing
  <2> QED
    BY <1>9, <2>2, <2>3, <2>4 DEF DueOK
<1> QED
  BY <1>2, <1>4, <1>5, <1>6, <1>7, <1>9, <1>10, <1>12, <1>13, <1>14, WriteOK DEF Slot

\* The staged certificate is promoted when the relying party has had the time to
\* learn of it; a backup, when it has been told of it.
LEMMA ActivateOK ==
  ASSUME IInv, NEW p \in Process, Activate(p)
  PROVE  IInv'
<1> DEFINE nj == [job EXCEPT ![p].pc = "clear", ![p].row = None]
<1>1. /\ job[p].pc = "activate"
      /\ past' = IF job[p].from = "backup" /\ unread THEN past \cup {"unannounced"} ELSE past
      /\ UNCHANGED <<sso, metadata, token, jwks, skipped, trusted, age, unread>>
      /\ due' = 0
      /\ job' = Unclean(nj) /\ slot' = [slot EXCEPT !["active"] = job[p].row]
  BY DEF Activate, instances, At, Write
<1>2. /\ job[p] \in Job /\ JobOK(job[p]) /\ due \in 0 .. 2
      /\ job[p].from \in {"next", "backup"}
  BY JobFields DEF IInv, TypeOK, JobOK, Slot
<1>3. /\ nj \in [Process -> Job] /\ nj[p] = [job[p] EXCEPT !.pc = "clear", !.row = None]
      /\ \A q \in Process \ {p} : nj[q] = job[q]
  BY <1>2 DEF IInv, TypeOK, Job, PC
<1>4. /\ nj \in [Process -> Job] /\ \A q \in Process \ {p} : nj[q] = job[q]
      /\ nj[p].pc = "clear" /\ nj[p].row = None /\ nj[p].from = job[p].from
  BY <1>2, <1>3 DEF Job
<1> HIDE DEF nj
<1>5. /\ job' \in [Process -> Job] /\ \A q \in Process : ReadOK(job[q])'
      /\ \A q \in Process \ {p} : Kept(q)
      /\ job'[p].pc = "clear" /\ job'[p].row = None /\ job'[p].from = job[p].from
  <2>1. job' = Unclean(nj)
    BY <1>1
  <2>2. /\ job' \in [Process -> Job]
        /\ \A q \in Process : /\ job'[q].pc = nj[q].pc /\ job'[q].row = nj[q].row
                              /\ job'[q].from = nj[q].from /\ job'[q].left = nj[q].left
                              /\ ReadOK(job[q])'
    BY <1>4, <2>1, UncleanOK
  <2> QED
    BY <1>4, <2>2 DEF Kept
<1>6. PICK row \in Row : row = job[p].row
  BY <1>1, <1>2, JobFields DEF JobOK
<1>7. /\ row # None /\ RowOK(row)
      /\ row.source = IF job[p].from = "next" THEN "self-signed" ELSE "ca-issued"
  BY <1>1, <1>2, <1>6, Constants DEF JobOK
<1>8. Active' = row /\ Staged' = Staged /\ Backup' = Backup
  BY <1>1, <1>6 DEF IInv, TypeOK, Active, Staged, Backup, Slot
<1>9. /\ past \subseteq past' /\ past' \subseteq Event /\ trusted' \subseteq Serial
      /\ unread' \in BOOLEAN /\ sso' \in Instance \cup {None} /\ KeyMatchesCert'
      /\ Calm' <=> Calm
  BY <1>1 DEF IInv, TypeOK, Event, KeysOK, KeyMatchesCert, Calm
<1>10. ~ Blind => /\ row = IF job[p].from = "next" THEN Staged ELSE Backup
                  /\ job[p].from = "next" => Active.source = "self-signed"
                  /\ job[p].from = "next" /\ ~ ({"failed", "unannounced"} \subseteq past) =>
                       job[p].left = Active.left
  BY <1>1, <1>2, <1>6 DEF IInv, AloneOK, FoundOK, Guarded, Rotating, Staged, Backup
<1>11. job[p].from = "next" =>
         /\ Active # None /\ job[p].left + Delay <= Window /\ job[p].left \in Nat
         /\ Active.left \in Nat
  <2>1. job[p].from = "next" => Active # None /\ job[p].left + Delay <= Window
    BY <1>1, <1>2 DEF JobOK, Rotating
  <2> QED
    BY <1>2, <2>1, SlotFields, RowFields, JobFields
<1>12. JobOK(job[p])'
  BY <1>2, <1>5, <1>7, <1>8 DEF JobOK, RowOK, Rotating
<1>13. AloneOK'
  <2>1. SUFFICES ASSUME ~ Blind'
                 PROVE  PairsOK' /\ \A q \in Process : FoundOK(job[q])'
    BY DEF AloneOK
  <2>2. PairsOK'
    BY <1>1, <1>5, <1>9, <2>1, StepPairs DEF Kept, Busy
  <2>3. FoundOK(job[p])'
    <3>1. ~ Blind
      BY <1>9, <2>1 DEF Blind
    <3> QED
      BY <1>5, <1>7, <1>8, <1>10, <3>1 DEF FoundOK, Guarded, Rotating
  <2> QED
    BY <1>1, <1>5, <1>9, <2>1, <2>2, <2>3, Bystander DEF Busy
<1>14. TrustOK'
  <2>1. SUFFICES ASSUME Informed'
                 PROVE  TrustOK'
    BY DEF TrustOK
  <2>2. /\ past' = past /\ Informed /\ ~ Blind /\ "unannounced" \notin past
        /\ ~ (job[p].from = "backup" /\ unread)
    BY <1>1, <2>1 DEF Informed, Blind
  <2>3. age \in Nat /\ age < Delay
    BY <2>2, Constants DEF IInv, TypeOK, Informed
  <2>4. TrustOK
    BY DEF IInv
  <2>5. CASE job[p].from = "backup"
    BY <1>1, <1>7, <1>8, <1>10, <2>2, <2>4, <2>5 DEF TrustOK
  <2>6. CASE job[p].from = "next"
    <3>1. row = Staged /\ Active.source = "self-signed" /\ job[p].left = Active.left
      BY <1>10, <2>2, <2>6
    <3>2. Staged \in Row /\ Staged.left \in Nat
      BY <1>7, <3>1, RowFields
    <3>3. ~ (Life <= Staged.left + age /\ Window + Staged.left <= Active.left + Life)
      BY <1>11, <2>3, <2>6, <3>1, <3>2, Constants
    <3>4. Staged.serial \in trusted
      BY <1>7, <2>2, <2>4, <3>1, <3>3 DEF TrustOK
    <3> QED
      BY <1>1, <1>8, <2>2, <2>4, <3>1, <3>4 DEF TrustOK
  <2> QED
    BY <1>2, <2>5, <2>6
<1>15. DueOK' /\ due' \in 0 .. 2
  BY <1>1 DEF DueOK
<1> QED
  BY <1>1, <1>2, <1>5, <1>6, <1>7, <1>9, <1>12, <1>13, <1>14, <1>15, WriteOK DEF Slot

LEMMA ClearOK ==
  ASSUME IInv, NEW p \in Process, Clear(p)
  PROVE  IInv'
<1> DEFINE nj == [job EXCEPT ![p] = Idle]
<1>1. /\ job[p].pc = "clear" 
      /\ UNCHANGED <<sso, metadata, token, jwks, skipped, trusted, age, unread, due, past>>
      /\ job' = Unclean(nj) /\ slot' = [slot EXCEPT ![job[p].from] = None]
  BY DEF Clear, instances, history, At, Write
<1>2. /\ job[p] \in Job /\ JobOK(job[p]) /\ due \in 0 .. 2
      /\ job[p].from \in {"next", "backup"}
  BY JobFields DEF IInv, TypeOK, JobOK, Slot
<1>3. nj \in [Process -> Job] /\ nj[p] = Idle /\ \A q \in Process \ {p} : nj[q] = job[q]
  BY IdleOK DEF IInv, TypeOK
<1> HIDE DEF nj
<1>4. /\ job' \in [Process -> Job] /\ \A q \in Process : ReadOK(job[q])'
      /\ \A q \in Process \ {p} : Kept(q)
      /\ job'[p].pc = "idle" /\ job'[p].row = None /\ job'[p].from = "next"
  <2>1. Idle.pc = "idle" /\ Idle.row = None /\ Idle.from = "next"
    BY DEF Idle
  <2> QED
    BY <1>1, <1>3, <2>1, UncleanOK DEF Kept
<1>5. JobOK(job[p])' /\ FoundOK(job[p])'
  BY <1>4 DEF JobOK, FoundOK, RowOK, Rotating, Guarded
<1>6. /\ Active' = Active
      /\ Staged' = (IF job[p].from = "next" THEN None ELSE Staged)
      /\ Backup' = (IF job[p].from = "next" THEN Backup ELSE None)
  <2>1. CASE job[p].from = "next"
    BY <1>1, <2>1 DEF IInv, TypeOK, Active, Staged, Backup, Slot
  <2>2. CASE job[p].from = "backup"
    BY <1>1, <2>2 DEF IInv, TypeOK, Active, Staged, Backup, Slot
  <2> QED
    BY <1>2, <2>1, <2>2
<1>7. /\ past' \subseteq Event /\ trusted' \subseteq Serial
      /\ unread' \in BOOLEAN /\ sso' \in Instance \cup {None} /\ KeyMatchesCert'
      /\ Calm' <=> Calm
  BY <1>1 DEF IInv, TypeOK, KeysOK, KeyMatchesCert, Calm
<1>8. AloneOK'
  <2>1. SUFFICES ASSUME ~ Blind'
                 PROVE  PairsOK' /\ \A q \in Process \ {p} : FoundOK(job[q])'
    BY <1>5 DEF AloneOK
  <2>2. PairsOK'
    BY <1>1, <1>4, <2>1, StepPairs DEF Kept
  <2> QED
    BY <1>1, <1>4, <2>1, <2>2, Bystander DEF Busy
<1>9. TrustOK'
  <2>1. Informed' <=> Informed
    BY <1>1 DEF Informed
  <2> HIDE DEF Informed
  <2> QED
    BY <1>1, <1>6, <2>1 DEF IInv, TrustOK
<1>10. DueOK'
  <2>1. SUFFICES ASSUME Calm, Active # None, Active.source = "self-signed"
                 PROVE  due' = 0
    BY <1>6, <1>7 DEF DueOK
  <2>2. Clearing
    BY <1>1 DEF Clearing, At
  <2> HIDE DEF Clearing
  <2> QED
    BY <1>1, <2>1, <2>2 DEF IInv, DueOK
<1>11. RowOK(None) /\ job[p].from \in Slot /\ due' \in 0 .. 2
       /\ job[p].from # "active"
  BY <1>1, <1>2 DEF RowOK, Slot
<1>12. \A q \in Process : Kept(q) \/ JobOK(job[q])'
  BY <1>4, <1>5
<1> QED
  BY <1>1, <1>4, <1>7, <1>8, <1>9, <1>10, <1>11, <1>12, WriteOK

\* Importing beside a request in flight is not one of the calm steps.
LEMMA ImportOK ==
  ASSUME IInv, NEW role \in {"active", "backup"}, NEW key \in Key,
         Import(role, key, Life)
  PROVE  IInv'
<1> DEFINE new(s) == [serial |-> s, key |-> key, keyId |-> SignerKey(role),
                      source |-> "ca-issued", left |-> Life]
<1>1. PICK s \in Fresh : Write(role, new(s), job) /\ Mint(s)
  BY DEF Import
<1>2. /\ key = SignerKey(role) /\ key \in {"primary", BackupKey}
      /\ UNCHANGED <<sso, metadata, token, jwks, skipped, age>>
      /\ due' = (IF role = "active" THEN 0 ELSE due)
      /\ unread' = (unread \/ role = "backup")
      /\ past' = past \cup (IF role = "active" THEN {"unannounced"} ELSE {})
                      \cup (IF \E q \in Process : ~ At(q, "idle") THEN {"blind"} ELSE {})
      /\ trusted' = trusted \ {s} /\ job' = Unclean(job)
      /\ slot' = [slot EXCEPT ![role] = new(s)]
  BY <1>1 DEF Import, PublicKeyMatchesSigner, SignerKey, instances, Mint, Write
<1>3. PICK row : row = new(s)
  OBVIOUS
<1>4. /\ row \in Row /\ row # None /\ RowOK(row) /\ row.source = "ca-issued"
      /\ row.serial = s
  <2>1. Life \in 0 .. Life /\ s \in Serial
    BY Constants, FreshOK
  <2>2. row \in Row
    BY <1>2, <1>3, <2>1 DEF Row, Source
  <2>3. SelectActiveSigner(row) = row.key
    BY <1>2, <1>3 DEF SelectActiveSigner, Key
  <2>4. row.key \in {"primary", BackupKey} /\ row.source = "ca-issued" /\ row.serial = s
    BY <1>2, <1>3
  <2> QED
    BY <2>2, <2>3, <2>4, Constants DEF RowOK
<1>5. slot' = [slot EXCEPT ![role] = row] /\ role \in Slot
  BY <1>2, <1>3 DEF Slot
<1> HIDE DEF new
<1>6. /\ job' \in [Process -> Job] /\ \A q \in Process : ReadOK(job[q])'
      /\ \A q \in Process : Kept(q)
  BY <1>2, UncleanOK DEF Kept, IInv, TypeOK
<1>7. /\ Active' = (IF role = "active" THEN row ELSE Active) /\ Staged' = Staged
      /\ Backup' = (IF role = "active" THEN Backup ELSE row)
  BY <1>5 DEF IInv, TypeOK, Active, Staged, Backup, Slot
<1>8. /\ past \subseteq past' /\ past' \subseteq Event /\ trusted' \subseteq Serial
      /\ unread' \in BOOLEAN /\ sso' \in Instance \cup {None} /\ KeyMatchesCert'
      /\ due' \in 0 .. 2
  BY <1>2 DEF IInv, TypeOK, Event, KeysOK, KeyMatchesCert
<1>9. ~ Blind' => \A q \in Process : job'[q].pc = "idle" /\ job[q].pc = "idle"
  BY <1>2, <1>6 DEF Blind, Kept, At
<1>10. AloneOK'
  BY <1>9 DEF AloneOK, PairsOK, FoundOK, Guarded, Rotating, Busy, At
<1>11. TrustOK'
  <2>1. SUFFICES ASSUME Informed'
                 PROVE  TrustOK'
    BY DEF TrustOK
  <2>2. role = "backup" /\ unread' = TRUE /\ Informed
    BY <1>2, <2>1 DEF Informed
  <2>3. TrustOK
    BY DEF IInv
  <2>4. /\ Active # None => Active.serial # s
        /\ Staged # None => Staged.serial # s
    BY FreshOK DEF Active, Staged, Slot
  <2> QED
    BY <1>2, <1>7, <2>2, <2>3, <2>4 DEF TrustOK
<1>12. DueOK'
  <2>1. SUFFICES ASSUME Calm', role = "backup"
                 PROVE  DueOK'
    BY <1>4, <1>7 DEF DueOK
  <2>2. Calm /\ UNCHANGED due
    BY <1>2, <1>8, <2>1 DEF Calm
  <2>3. Clearing' <=> Clearing
    BY <1>6 DEF At, Kept, Clearing
  <2> HIDE DEF Clearing
  <2> QED
    BY <1>7, <2>1, <2>2, <2>3 DEF IInv, DueOK
<1> QED
  BY <1>2, <1>4, <1>5, <1>6, <1>8, <1>10, <1>11, <1>12, WriteOK
-----------------------------------------------------------------------------
(* A week passes, and the theorems *)

LEMMA WeekOK ==
  ASSUME IInv, Week
  PROVE  IInv'
<1>1. /\ \A p \in Process : job[p].pc = "idle"
      /\ age' = Capped(age)
      /\ UNCHANGED <<sso, metadata, token, jwks, skipped, job, trusted, unread, due, past>>
  BY DEF Week, instances, At
<1>2. ASSUME NEW t \in Slot
      PROVE  /\ slot[t] = None <=> slot'[t] = None
             /\ slot[t] # None =>
                  /\ slot[t] \in Row /\ slot'[t] \in Row
                  /\ slot'[t].serial = slot[t].serial /\ slot'[t].key = slot[t].key
                  /\ slot'[t].keyId = slot[t].keyId /\ slot'[t].source = slot[t].source
                  /\ slot'[t].left = Older(slot[t].left)
  <2>1. CASE slot[t] = None
    BY <2>1 DEF Week
  <2>2. CASE slot[t] # None
    <3>1. slot[t] \in Row
      BY <2>2 DEF IInv, TypeOK
    <3>2. slot'[t] = [slot[t] EXCEPT !.left = Older(slot[t].left)]
      BY <2>2 DEF Week
    <3>3. Older(slot[t].left) \in 0 .. Life
      <4>1. slot[t].left \in Nat /\ slot[t].left <= Life /\ Life \in Nat
        BY <3>1, RowFields, Constants
      <4> QED
        BY <4>1 DEF Older
    <3>4. slot'[t] \in Row
      BY <3>1, <3>2, <3>3 DEF Row
    <3>5. slot'[t] # None
      BY <3>4, Constants
    <3> QED
      BY <2>2, <3>1, <3>2, <3>4, <3>5 DEF Row
  <2> QED
    BY <2>1, <2>2
<1>3. slot' \in [Slot -> Row \cup {None}]
  BY <1>2 DEF Week
<1>4. age \in Nat /\ age' \in 0 .. Delay /\ (age' < Delay => age' = age + 1 /\ age < Delay)
  <2>1. age \in Nat /\ age <= Delay
    BY Constants DEF IInv, TypeOK
  <2> QED
    BY <1>1, <2>1, Constants DEF Capped
<1>5. TypeOK'
  BY <1>1, <1>3, <1>4 DEF IInv, TypeOK
<1>6. /\ Active = None <=> Active' = None
      /\ Active # None => /\ Active.left \in Nat /\ Active'.left = Older(Active.left)
                          /\ Active'.serial = Active.serial /\ Active'.source = Active.source
      /\ Staged = None <=> Staged' = None
      /\ Staged # None => /\ Staged.left \in Nat /\ Staged'.left = Older(Staged.left)
                          /\ Staged'.serial = Staged.serial /\ Staged'.source = Staged.source
      /\ Backup = None <=> Backup' = None
      /\ Backup # None => Backup'.serial = Backup.serial /\ Backup'.source = Backup.source
  BY <1>2, RowFields DEF Active, Staged, Backup, Slot
<1>7. RowsOK' /\ KeysOK'
  <2>1. \A t \in Slot : RowOK(slot[t])'
    BY <1>2 DEF IInv, RowsOK, RowOK, SelectActiveSigner
  <2> QED
    BY <1>1, <1>6, <2>1 DEF IInv, RowsOK, KeysOK, KeyMatchesCert
<1>8. \A q \in Process : (JobOK(job[q]) /\ ReadOK(job[q]))'
  BY <1>1, <1>6 DEF IInv, JobOK, ReadOK, RowOK, Rotating
<1>9. AloneOK'
  BY <1>1 DEF AloneOK, PairsOK, FoundOK, Guarded, Rotating, Busy, At
<1>10. TrustOK'
  <2>1. SUFFICES ASSUME Informed'
                 PROVE  TrustOK'
    BY DEF TrustOK
  <2>2. Informed /\ TrustOK /\ age' = age + 1 /\ age < Delay
    BY <1>1, <1>4, <2>1 DEF Informed, IInv
  <2>3. ASSUME Staged # None, Staged.serial \notin trusted
        PROVE  /\ Life <= Staged'.left + age'
               /\ Active'.source = "self-signed" => Window + Staged'.left <= Active'.left + Life
    <3>1. /\ Life <= Staged.left + age /\ Active # None
          /\ Active.source = "self-signed" => Window + Staged.left <= Active.left + Life
      BY <2>2, <2>3 DEF TrustOK, IInv, RowsOK
    <3>2. Staged.left > 0 /\ Staged'.left = Staged.left - 1
      BY <1>4, <1>6, <2>2, <2>3, <3>1, Constants DEF Older
    <3>3. Active'.left \in Nat /\ Active.left <= Active'.left + 1 /\ Active.left \in Nat
      BY <1>6, <3>1 DEF Older
    <3>4. Staged.left \in Nat
      BY <1>6, <2>3
    <3> QED
      BY <1>4, <1>6, <2>2, <3>1, <3>2, <3>3, <3>4, Constants
  <2> QED
    BY <1>1, <1>6, <2>2, <2>3 DEF TrustOK
<1>11. DueOK'
  <2>1. (Calm' <=> Calm) /\ (Clearing' <=> Clearing)
    BY <1>1 DEF Calm, Clearing, At
  <2> HIDE DEF Calm, Clearing
  <2> QED
    BY <1>1, <1>6, <2>1 DEF IInv, DueOK
<1> QED
  BY <1>5, <1>7, <1>8, <1>9, <1>10, <1>11 DEF IInv

LEMMA StutterOK ==
  ASSUME IInv, UNCHANGED vars
  PROVE  IInv'
<1>1. /\ UNCHANGED <<slot, job, trusted, history, past>>
      /\ UNCHANGED <<sso, metadata, token, jwks, skipped>>
  BY DEF vars, instances
<1>2. /\ sso' \in Instance \cup {None} /\ metadata' \in Serial \cup {None}
      /\ token' \in Key /\ jwks' \subseteq Key /\ skipped' \in BOOLEAN /\ KeysOK'
      /\ metadata' # None => Active # None
  BY <1>1 DEF IInv, TypeOK, RowsOK, KeysOK, KeyMatchesCert
<1> QED
  BY <1>1, <1>2, InstanceStep

LEMMA InitOK ==
  ASSUME Init
  PROVE  IInv
<1>1. /\ Active = None /\ Staged = None /\ Backup = None
      /\ \A p \in Process : job[p] = Idle
  BY DEF Init, Active, Staged, Backup, Slot
<1>2. TypeOK
  <2>1. Delay \in 0 .. Delay
    BY Constants
  <2>2. job \in [Process -> Job]
    BY IdleOK DEF Init
  <2>3. 0 \in 0 .. 2 /\ jwks \subseteq Key /\ token \in Key
    BY Constants DEF Init
  <2> QED
    BY <2>1, <2>2, <2>3 DEF Init, TypeOK
<1>3. RowsOK /\ KeysOK
  BY <1>1 DEF Init, RowsOK, RowOK, KeysOK, KeyMatchesCert
<1>4. \A p \in Process : JobOK(job[p]) /\ ReadOK(job[p]) /\ FoundOK(job[p]) /\ At(p, "idle")
  BY <1>1, IdleOK DEF At
<1>5. AloneOK
  BY <1>4 DEF AloneOK, PairsOK, Busy, At
<1>6. TrustOK
  BY <1>1 DEF TrustOK
<1>7. DueOK
  BY <1>1 DEF DueOK
<1> QED
  BY <1>2, <1>3, <1>4, <1>5, <1>6, <1>7 DEF IInv

LEMMA StepOK ==
  ASSUME IInv, NEW p \in Process, Step(p)
  PROVE  IInv'
BY CheckCertRotationOK, GenerateInitialOK, CheckGuardOK, CheckNextOK,
   StageNextOK, PromoteNextToActiveOK, ActivateOK, ClearOK, PromoteBackupOK,
   SsoColdStartOK, SsoBootstrapsOK, SsoReadFailsOK, BootstrapOK, ServeMetadataOK,
   FetchNextOK, FetchBackupOK, AbortOK DEF Step

\* Every step of the rotation, the operator, the cold starts and the metadata
\* endpoint keeps the invariant.
THEOREM Invariance == Spec => []IInv
<1>1. Init => IInv
  BY InitOK
<1>2. IInv /\ [Next]_vars => IInv'
  <2>1. SUFFICES ASSUME IInv, [Next]_vars
                 PROVE  IInv'
    OBVIOUS
  <2> QED
    BY <2>1, StepOK, ImportOK, ColdStartOK, WeekOK, StutterOK DEF Next, Operator
<1> QED
  BY <1>1, <1>2, PTL DEF Spec

\* Every variable keeps its type.
THEOREM TypeCorrect == Spec => []TypeOK
<1>1. IInv => TypeOK
  BY DEF IInv
<1> QED
  BY <1>1, Invariance, PTL

\* Whichever certificate was active when an SSO instance started, it signs with
\* that certificate's key (SelectActiveSigner).
THEOREM SigningKeyMatches == Spec => []KeyMatchesCert
<1>1. IInv => KeyMatchesCert
  BY DEF IInv, KeysOK
<1> QED
  BY <1>1, Invariance, PTL

\* Every discovery instance that could load its keys publishes the key any token
\* instance signs with (AddBackupVerificationKey).
THEOREM SigningKeyPublished == Spec => []KeyPublished
<1>1. IInv => KeyPublished
  BY DEF IInv, KeysOK, KeyPublished
<1> QED
  BY <1>1, Invariance, PTL

\* A relying party that has read a complete document within the promotion delay
\* trusts the active certificate, for every choice of the rotation window, the
\* delay and the certificates' life.
THEOREM RolloverIsTrusted == Spec => []RolloverTrusted
<1>1. IInv => RolloverTrusted
  BY DEF IInv, TrustOK, Informed, RolloverTrusted, Active
<1> QED
  BY <1>1, Invariance, PTL

\* The second check that runs to its end when a self-signed certificate is due has
\* replaced it, whenever checks run: the first, at the latest, stages the successor.
THEOREM ReplacedInTime == Spec => []ReplacedWhenDue
<1>1. IInv => ReplacedWhenDue
  <2>1. SUFFICES ASSUME IInv, Active # None, Active.source = "self-signed", Calm
                 PROVE  due < 2
    BY DEF ReplacedWhenDue, Active, Calm
  <2> QED
    BY <2>1 DEF IInv, DueOK
<1> QED
  BY <1>1, Invariance, PTL

LEMMA FirstCertKeepsCA ==
  ASSUME IInv, NEW p \in Process, GenerateInitial(p) \/ (Bootstrap(p) /\ slot' # slot), Calm'
  PROVE  Active = None
<1>1. (At(p, "generate") \/ At(p, "bootstrap")) /\ past \subseteq past'
  BY DEF GenerateInitial, Bootstrap
<1>2. FoundOK(job[p]) /\ "failed" \notin past
  BY <1>1 DEF IInv, AloneOK, Blind, Calm
<1> QED
  BY <1>1, <1>2 DEF FoundOK, At

LEMMA ActivateKeepsCA ==
  ASSUME IInv, NEW p \in Process, Activate(p), Calm', ReplacesCA
  PROVE  FALSE
<1>1. job[p].pc = "activate" /\ past \subseteq past' /\ slot' = [slot EXCEPT !["active"] = job[p].row]
  BY DEF Activate, Write, At
<1>2. slot'["active"] = job[p].row
  BY <1>1 DEF IInv, TypeOK, Slot
<1>3. FoundOK(job[p]) /\ JobOK(job[p])
  BY <1>1 DEF IInv, AloneOK, Blind, Calm
<1>4. job[p].from = "next" => Active.source = "self-signed"
  BY <1>1, <1>3 DEF FoundOK, Guarded, Rotating
<1>5. job[p].from # "next" => job[p].row.source = "ca-issued"
  BY <1>1, <1>3 DEF JobOK
<1> QED
  BY <1>2, <1>4, <1>5 DEF ReplacesCA, Active

LEMMA OtherKeepsCA ==
  ASSUME IInv, ReplacesCA
  PROVE  /\ slot' # slot
         /\ ~ Operator /\ ~ Week
         /\ \A p \in Process : ~ StageNext(p) /\ ~ Clear(p)
<1>1. slot' # slot
  BY DEF ReplacesCA
<1>2. ASSUME Operator
      PROVE  FALSE
  <2>1. PICK role \in {"active", "backup"}, key \in Key : Import(role, key, Life)
    BY <1>2 DEF Operator
  <2>2. PICK s \in Fresh :
          slot' = [slot EXCEPT ![role] = [serial |-> s, key |-> key, keyId |-> SignerKey(role),
                                          source |-> "ca-issued", left |-> Life]]
    BY <2>1 DEF Import, Write
  <2>3. slot'["active"] = slot["active"] \/ slot'["active"].source = "ca-issued"
    BY <2>2 DEF IInv, TypeOK, Slot
  <2> QED
    BY <2>3 DEF ReplacesCA
<1>3. ASSUME Week
      PROVE  FALSE
  <2>1. slot["active"] \in Row
    BY SlotFields DEF ReplacesCA, Active
  <2>2. slot'["active"] = [slot["active"] EXCEPT !.left = Older(slot["active"].left)]
    BY <1>3 DEF Week, ReplacesCA, Slot
  <2> QED
    BY <2>1, <2>2 DEF ReplacesCA, Row
<1>4. ASSUME NEW p \in Process, StageNext(p) \/ Clear(p)
      PROVE  FALSE
  <2>1. job[p].from # "active"
    BY DEF IInv, JobOK
  <2>2. slot'["active"] = slot["active"]
    <3>1. CASE StageNext(p)
      BY <3>1 DEF StageNext, Write, IInv, TypeOK, Slot
    <3>2. CASE Clear(p)
      BY <2>1, <3>2 DEF Clear, Write, IInv, TypeOK, Slot
    <3> QED
      BY <1>4, <3>1, <3>2
  <2> QED
    BY <2>2 DEF ReplacesCA
<1> QED
  BY <1>1, <1>2, <1>3, <1>4

LEMMA QuietSlot ==
  ASSUME NEW p \in Process, Step(p), slot' # slot
  PROVE  GenerateInitial(p) \/ StageNext(p) \/ Activate(p) \/ Clear(p) \/ Bootstrap(p)
BY DEF Step, CheckCertRotation, CheckGuard, CheckNext, PromoteNextToActive,
       PromoteBackup, SsoColdStart, SsoBootstraps, SsoReadFails, ServeMetadata,
       FetchNext, FetchBackup, Abort

\* A CA-issued active certificate is never overwritten by a self-signed one: the
\* guard of the rotation check (ImportRequired) and the emptiness a cold start has
\* seen still hold when the write comes, as long as no call failed and no two
\* requests overlapped.
THEOREM CACertificateKept == Spec => CAKept
<1>1. IInv /\ [Next]_vars => [ReplacesCA => past' \cap {"failed", "blind"} # {}]_vars
  <2>1. SUFFICES ASSUME IInv, Next, ReplacesCA, Calm'
                 PROVE  FALSE
    BY DEF Calm
  <2>2. slot' # slot /\ ~ Operator /\ ~ Week
    BY <2>1, OtherKeepsCA
  <2>3. ~ (MetadataColdStart \/ TokenColdStart \/ DiscoveryColdStart)
    BY <2>2 DEF MetadataColdStart, TokenColdStart, DiscoveryColdStart
  <2>4. PICK p \in Process : Step(p)
    BY <2>1, <2>2, <2>3 DEF Next
  <2>5. GenerateInitial(p) \/ Activate(p) \/ Bootstrap(p)
    BY <2>1, <2>2, <2>4, QuietSlot, OtherKeepsCA
  <2>6. Active # None
    BY <2>1 DEF ReplacesCA, Active
  <2> QED
    BY <2>1, <2>2, <2>5, <2>6, FirstCertKeepsCA, ActivateKeepsCA
<1> QED
  BY <1>1, Invariance, PTL DEF Spec, CAKept

=============================================================================
