--------------------------- MODULE Onboarding_proofs ---------------------------
(***************************************************************************)
(* Theorems about Onboarding, for any number of requests in flight, packs,  *)
(* roles and sources. Every handler puts whole rows back that it has read   *)
(* earlier, so the invariant is about the rows a handler carries as much as *)
(* about the stored ones: what the guards have established of a row is      *)
(* true of every copy of it.                                                *)
(***************************************************************************)
EXTENDS Onboarding, TLAPS

Past == {"serial", "lapsed", "overlap"}

TypeOK ==
  /\ tenant \in TenantRow \cup {None}
  /\ wizard \in WizardRow \cup {None}
  /\ sources \in [SourceId -> SourceRow \cup {None}]
  /\ provider \in [Role -> ExternalId \cup {None}]
  /\ job \in [Handler -> Job]
  /\ past \in Past

\* A row with an ExternalID, or past the identity step, selects core, and one
\* that is probed has the answer for the packs it selects.
WizardOK(row) == row # None =>
  /\ row.packs # {} => Core \in row.packs
  /\ row.ext # None => Core \in row.packs
  /\ row.step >= IdentityStep => Core \in row.packs
  /\ row.step = ProbeStep => row.map = [packs |-> row.packs]

TenantOK(row) == row # None /\ row.phase = "active" =>
  row.map # None /\ Core \in row.map.packs

InProgress(row) == row # None /\ row.phase \in {"pending", "in_progress"}

\* Handlers that carry the wizard's row.
WizardPC == {"packs", "iac", "source", "tenant", "markTenant", "identity", "list",
             "assume", "simulate", "report", "promote"}

\* What a handler's guards have established of the rows it carries.
JobOK(j) ==
  /\ WizardOK(j.wizard) /\ TenantOK(j.tenant)
  /\ j.wizard # None <=> j.pc \in WizardPC
  /\ j.tenant # None <=> j.pc \in {"markTenant", "update"}
  /\ j.pc = "packs" => Core \in j.packs
  /\ j.pc = "iac" => /\ j.wizard.packs # {}
                     /\ j.wizard.ext # None => j.ext = j.wizard.ext
  /\ j.pc \in {"source", "tenant", "markTenant", "identity"} => j.wizard.ext # None
  /\ j.pc \in {"list", "assume", "simulate", "report"} => j.wizard.step >= IdentityStep
  /\ j.pc = "assume" => j.source # None
  /\ j.pc = "promote" => j.wizard.step = ProbeStep

\* What is true of a handler that runs alone: the row it carries is the stored
\* one, which is there unless it expired.
SoundOK(t, w, j, c) ==
  /\ c # "overlap" /\ j.wizard # None /\ w # None => j.wizard = w
  /\ c = "serial" => /\ j.wizard # None \/ InProgress(j.tenant) => w # None
                     /\ j.pc = "dropWizard" => ~ InProgress(t)

Alone == past # "overlap" =>
  \A g, h \in Handler : ~ At(g, "idle") /\ ~ At(h, "idle") => g = h

ResumeOK == past = "serial" /\ InProgress(tenant) =>
  wizard # None \/ \E h \in Handler : At(h, "initWizard")

IInv ==
  /\ TypeOK /\ TenantOK(tenant) /\ WizardOK(wizard)
  /\ \A h \in Handler : JobOK(job[h]) /\ SoundOK(tenant, wizard, job[h], past)
  /\ Alone /\ ResumeOK
-----------------------------------------------------------------------------
(* Rows and requests *)

LEMMA NoneIsNoRow ==
  /\ None \notin TenantRow /\ None \notin WizardRow /\ None \notin SourceRow
  /\ None \notin ExternalId /\ None \notin Role /\ None \notin CapabilityMap
  /\ Core \in Pack
BY ConstantsAssumption

LEMMA Steps ==
  /\ CreateStep \in Step /\ CapabilitiesStep \in Step /\ IaCStep \in Step
  /\ IdentityStep \in Step /\ ProbeStep \in Step
  /\ ~ (CreateStep >= IdentityStep) /\ ~ (CapabilitiesStep >= IdentityStep)
  /\ ~ (IaCStep >= IdentityStep) /\ IdentityStep >= IdentityStep /\ ProbeStep >= IdentityStep
  /\ CreateStep # ProbeStep /\ CapabilitiesStep # ProbeStep /\ IaCStep # ProbeStep
  /\ IdentityStep # ProbeStep
  /\ \A n \in Step : n >= ProbeStep => n = ProbeStep
BY DEF Step, CreateStep, CapabilitiesStep, IaCStep, IdentityStep, ProbeStep

LEMMA IdleOK ==
  /\ Idle \in Job /\ JobOK(Idle)
  /\ Idle.pc = "idle" /\ Idle.wizard = None /\ Idle.tenant = None
  /\ \A t, w, c : SoundOK(t, w, Idle, c)
<1>1. /\ Idle \in Job
      /\ Idle.pc = "idle" /\ Idle.wizard = None /\ Idle.tenant = None
  BY DEF Idle, Job, PC
<1> QED
  BY <1>1 DEF JobOK, WizardOK, TenantOK, WizardPC, SoundOK, InProgress

LEMMA JobFields ==
  ASSUME NEW j \in Job
  PROVE  /\ j.pc \in PC /\ j.wizard \in WizardRow \cup {None}
         /\ j.tenant \in TenantRow \cup {None} /\ j.packs \in SUBSET Pack
         /\ j.role \in Role \cup {None} /\ j.source \in SourceRow \cup {None}
         /\ j.ext \in ExternalId \cup {None} /\ j.left \in SUBSET Pack
BY DEF Job

LEMMA WizardFields ==
  ASSUME NEW row \in WizardRow
  PROVE  /\ row.step \in Step /\ row.packs \in SUBSET Pack
         /\ row.ext \in ExternalId \cup {None} /\ row.map \in CapabilityMap \cup {None}
BY DEF WizardRow

\* A step of one request: what is left to show is that the rows are sound, and
\* that the request is, if it runs alone.
LEMMA MoveOK ==
  ASSUME IInv, NEW h \in Handler, NEW j \in Job, JobOK(j), job' = [job EXCEPT ![h] = j],
         tenant' \in TenantRow \cup {None}, wizard' \in WizardRow \cup {None},
         sources' \in [SourceId -> SourceRow \cup {None}],
         provider' \in [Role -> ExternalId \cup {None}],
         TenantOK(tenant'), WizardOK(wizard'), past' \in Past,
         past' # "overlap" => \A g \in Handler \ {h} : job[g].pc = "idle",
         SoundOK(tenant', wizard', j, past'),
         past' = "serial" /\ InProgress(tenant') => wizard' # None \/ j.pc = "initWizard"
  PROVE  IInv'
<1>1. job' \in [Handler -> Job] /\ job'[h] = j /\ \A g \in Handler \ {h} : job'[g] = job[g]
  BY DEF IInv, TypeOK
<1>2. TypeOK'
  BY <1>1 DEF TypeOK
<1>3. \A g \in Handler : JobOK(job'[g])
  BY <1>1 DEF IInv
<1>4. ASSUME NEW g \in Handler \ {h}
      PROVE  SoundOK(tenant', wizard', job'[g], past')
  <2>1. CASE past' # "overlap"
    <3>1. job'[g].pc = "idle" /\ JobOK(job'[g])
      BY <1>1, <1>3, <2>1
    <3>2. job'[g].wizard = None /\ job'[g].tenant = None
      BY <3>1 DEF JobOK, WizardPC
    <3> QED
      BY <3>1, <3>2 DEF SoundOK, InProgress
  <2>2. CASE past' = "overlap"
    BY <2>2 DEF SoundOK
  <2> QED
    BY <2>1, <2>2
<1>5. Alone'
  BY <1>1 DEF Alone, At
<1>6. ResumeOK'
  BY <1>1 DEF ResumeOK, At
<1> QED
  BY <1>1, <1>2, <1>3, <1>4, <1>5, <1>6 DEF IInv

\* A request in flight, when no two ever overlapped.
LEMMA InFlight ==
  ASSUME IInv, NEW h \in Handler, job[h].pc # "idle"
  PROVE  /\ job[h] \in Job /\ JobOK(job[h]) /\ SoundOK(tenant, wizard, job[h], past)
         /\ past # "overlap" => \A g \in Handler \ {h} : job[g].pc = "idle"
         /\ past = "serial" /\ InProgress(tenant) =>
              wizard # None \/ job[h].pc = "initWizard"
         /\ past \in Past
<1>1. /\ job[h] \in Job /\ JobOK(job[h]) /\ SoundOK(tenant, wizard, job[h], past)
      /\ past \in Past
  BY DEF IInv, TypeOK
<1>2. past # "overlap" => \A g \in Handler \ {h} : job[g].pc = "idle"
  BY DEF IInv, Alone, At
<1>3. past = "serial" /\ InProgress(tenant) => wizard # None \/ job[h].pc = "initWizard"
  BY <1>2 DEF IInv, ResumeOK, At
<1> QED
  BY <1>1, <1>2, <1>3

\* A request that begins, with the rows as they are.
LEMMA BeginOK ==
  ASSUME IInv, NEW h \in Handler, NEW j \in Job, JobOK(j), Begin(h, j),
         UNCHANGED <<tenant, wizard, sources, provider>>,
         j.pc # "dropWizard", j.wizard \in {None, wizard}, j.tenant \in {None, tenant}
  PROVE  IInv'
<1>1. /\ job[h].pc = "idle" /\ job' = [job EXCEPT ![h] = j] /\ past' \in Past
      /\ past' # "overlap" => past' = past /\ \A g \in Handler : job[g].pc = "idle"
  BY DEF Begin, IInv, TypeOK, Past
<1>2. past' = "serial" /\ InProgress(tenant) => wizard # None
  BY <1>1 DEF IInv, ResumeOK, At
<1>3. SoundOK(tenant', wizard', j, past')
  <2>1. InProgress(j.tenant) => InProgress(tenant)
    BY DEF InProgress
  <2> QED
    BY <1>2, <2>1 DEF SoundOK
<1>4. /\ tenant' \in TenantRow \cup {None} /\ wizard' \in WizardRow \cup {None}
      /\ sources' \in [SourceId -> SourceRow \cup {None}]
      /\ provider' \in [Role -> ExternalId \cup {None}]
      /\ TenantOK(tenant') /\ WizardOK(wizard')
  BY DEF IInv, TypeOK
<1>5. past' = "serial" /\ InProgress(tenant') => wizard' # None
  BY <1>2
<1> QED
  BY <1>1, <1>3, <1>4, <1>5, MoveOK

\* A request that goes on or ends without writing a row.
LEMMA QuietOK ==
  ASSUME IInv, NEW h \in Handler, NEW j \in Job, JobOK(j), job[h].pc # "idle",
         job' = [job EXCEPT ![h] = j], UNCHANGED <<tenant, wizard>>,
         sources' \in [SourceId -> SourceRow \cup {None}],
         provider' \in [Role -> ExternalId \cup {None}], past' \in Past,
         past' # "overlap" => past # "overlap", past' = "serial" => past = "serial",
         past' = "serial" => job[h].pc # "initWizard",
         j.pc # "dropWizard", j.wizard \in {None, job[h].wizard},
         j.tenant \in {None, tenant}
  PROVE  IInv'
<1>1. /\ job[h] \in Job /\ JobOK(job[h]) /\ SoundOK(tenant, wizard, job[h], past)
      /\ past # "overlap" => \A g \in Handler \ {h} : job[g].pc = "idle"
      /\ past = "serial" /\ InProgress(tenant) =>
           wizard # None \/ job[h].pc = "initWizard"
  BY InFlight
<1>2. past' = "serial" /\ InProgress(tenant) => wizard # None
  BY <1>1
<1>3. SoundOK(tenant, wizard, j, past')
  <2>1. InProgress(j.tenant) => InProgress(tenant)
    BY DEF InProgress
  <2> QED
    BY <1>1, <1>2, <2>1 DEF SoundOK
<1>4. /\ tenant \in TenantRow \cup {None} /\ wizard \in WizardRow \cup {None}
      /\ TenantOK(tenant) /\ WizardOK(wizard)
  BY DEF IInv, TypeOK
<1>5. /\ tenant' \in TenantRow \cup {None} /\ wizard' \in WizardRow \cup {None}
      /\ TenantOK(tenant') /\ WizardOK(wizard')
      /\ SoundOK(tenant', wizard', j, past')
      /\ past' = "serial" /\ InProgress(tenant') => wizard' # None
  BY <1>2, <1>3, <1>4
<1>6. past' # "overlap" => \A g \in Handler \ {h} : job[g].pc = "idle"
  BY <1>1
<1> QED
  BY <1>5, <1>6, MoveOK
-----------------------------------------------------------------------------
(* Requests that begin *)

LEMMA SetCapabilitiesOK ==
  ASSUME IInv, NEW h \in Handler, NEW packs \in SUBSET Pack, SetCapabilities(h, packs)
  PROVE  IInv'
<1> DEFINE j == [[Idle EXCEPT !.pc = "packs", !.packs = NormalizePacks(packs)] EXCEPT !.wizard = wizard]
<1>1. /\ Begin(h, j) /\ UNCHANGED <<tenant, wizard, sources, provider>>
      /\ wizard # None /\ wizard \in WizardRow /\ WizardOK(wizard)
  BY DEF SetCapabilities, ReadWizard, rows, IInv, TypeOK
<1>2. /\ j \in Job /\ j.pc = "packs" /\ j.wizard = wizard /\ j.tenant = None
      /\ Core \in j.packs
  <2>1. [[Idle EXCEPT !.pc = "packs", !.packs = NormalizePacks(packs)] EXCEPT !.wizard = wizard] \in Job
    BY <1>1, IdleOK, NoneIsNoRow DEF Job, PC, NormalizePacks
  <2> QED
    BY <2>1 DEF Idle, NormalizePacks
<1> HIDE DEF j
<1>3. JobOK(j)
  BY <1>1, <1>2, NoneIsNoRow DEF JobOK, WizardPC, TenantOK
<1> QED
  BY <1>1, <1>2, <1>3, BeginOK

LEMMA GenerateIaCOK ==
  ASSUME IInv, NEW h \in Handler, NEW e \in ExternalId, GenerateIaC(h, e)
  PROVE  IInv'
<1> DEFINE j == [[Idle EXCEPT !.pc = "iac", !.ext = e] EXCEPT !.wizard = wizard]
<1>1. /\ Begin(h, j) /\ UNCHANGED <<tenant, wizard, sources, provider>>
      /\ wizard # None /\ wizard \in WizardRow /\ WizardOK(wizard)
      /\ wizard.packs # {} /\ (wizard.ext # None => e = wizard.ext)
  BY DEF GenerateIaC, ReadWizard, rows, IInv, TypeOK, ChooseExternalId
<1>2. /\ j \in Job /\ j.pc = "iac" /\ j.wizard = wizard /\ j.tenant = None
      /\ j.ext = e
  <2>1. [[Idle EXCEPT !.pc = "iac", !.ext = e] EXCEPT !.wizard = wizard] \in Job
    BY <1>1, IdleOK DEF Job, PC
  <2> QED
    BY <2>1 DEF Idle
<1> HIDE DEF j
<1>3. JobOK(j)
  BY <1>1, <1>2, NoneIsNoRow DEF JobOK, WizardPC, TenantOK
<1> QED
  BY <1>1, <1>2, <1>3, BeginOK

LEMMA RegisterIdentityOK ==
  ASSUME IInv, NEW h \in Handler, NEW r \in Role, RegisterIdentity(h, r)
  PROVE  IInv'
<1> DEFINE j == [[Idle EXCEPT !.pc = "source", !.role = r] EXCEPT !.wizard = wizard]
<1>1. /\ Begin(h, j) /\ UNCHANGED <<tenant, wizard, sources, provider>>
      /\ wizard # None /\ wizard \in WizardRow /\ WizardOK(wizard)
      /\ wizard.ext # None
  BY DEF RegisterIdentity, ReadWizard, rows, IInv, TypeOK
<1>2. /\ j \in Job /\ j.pc = "source" /\ j.wizard = wizard /\ j.tenant = None
  <2>1. [[Idle EXCEPT !.pc = "source", !.role = r] EXCEPT !.wizard = wizard] \in Job
    BY <1>1, IdleOK DEF Job, PC
  <2> QED
    BY <2>1 DEF Idle
<1> HIDE DEF j
<1>3. JobOK(j)
  BY <1>1, <1>2, NoneIsNoRow DEF JobOK, WizardPC, TenantOK
<1> QED
  BY <1>1, <1>2, <1>3, BeginOK

LEMMA ProbeCapabilitiesOK ==
  ASSUME IInv, NEW h \in Handler, ProbeCapabilities(h)
  PROVE  IInv'
<1> DEFINE j == [[Idle EXCEPT !.pc = "list", !.left = wizard.packs] EXCEPT !.wizard = wizard]
<1>1. /\ Begin(h, j) /\ UNCHANGED <<tenant, wizard, sources, provider>>
      /\ wizard # None /\ wizard \in WizardRow /\ WizardOK(wizard)
      /\ wizard.step >= IdentityStep
  BY DEF ProbeCapabilities, ReadWizard, rows, IInv, TypeOK
<1>2. /\ j \in Job /\ j.pc = "list" /\ j.wizard = wizard /\ j.tenant = None
  <2>1. [[Idle EXCEPT !.pc = "list", !.left = wizard.packs] EXCEPT !.wizard = wizard] \in Job
    BY <1>1, IdleOK, WizardFields DEF Job, PC
  <2> QED
    BY <2>1 DEF Idle
<1> HIDE DEF j
<1>3. JobOK(j)
  BY <1>1, <1>2, NoneIsNoRow DEF JobOK, WizardPC, TenantOK
<1> QED
  BY <1>1, <1>2, <1>3, BeginOK

LEMMA CompleteOK ==
  ASSUME IInv, NEW h \in Handler, Complete(h)
  PROVE  IInv'
<1> DEFINE j == [[Idle EXCEPT !.pc = "promote"] EXCEPT !.wizard = wizard]
<1>1. /\ Begin(h, j) /\ UNCHANGED <<tenant, wizard, sources, provider>>
      /\ wizard # None /\ wizard \in WizardRow /\ WizardOK(wizard)
      /\ wizard.step = ProbeStep
  BY WizardFields, Steps DEF Complete, ReadWizard, rows, IInv, TypeOK, ReadyToComplete
<1>2. /\ j \in Job /\ j.pc = "promote" /\ j.wizard = wizard /\ j.tenant = None
  <2>1. [[Idle EXCEPT !.pc = "promote"] EXCEPT !.wizard = wizard] \in Job
    BY <1>1, IdleOK DEF Job, PC
  <2> QED
    BY <2>1 DEF Idle
<1> HIDE DEF j
<1>3. JobOK(j)
  BY <1>1, <1>2, NoneIsNoRow DEF JobOK, WizardPC, TenantOK
<1> QED
  BY <1>1, <1>2, <1>3, BeginOK

LEMMA UpdateTenantOK ==
  ASSUME IInv, NEW h \in Handler, UpdateTenant(h)
  PROVE  IInv'
<1> DEFINE j == [Idle EXCEPT !.pc = "update", !.tenant = tenant]
<1>1. /\ Begin(h, j) /\ UNCHANGED <<tenant, wizard, sources, provider>>
      /\ tenant # None /\ tenant \in TenantRow /\ TenantOK(tenant)
  BY DEF UpdateTenant, rows, IInv, TypeOK
<1>2. /\ j \in Job /\ j.pc = "update" /\ j.wizard = None /\ j.tenant = tenant
  <2>1. [Idle EXCEPT !.pc = "update", !.tenant = tenant] \in Job
    BY <1>1, IdleOK DEF Job, PC
  <2> QED
    BY <2>1 DEF Idle
<1> HIDE DEF j
<1>3. JobOK(j)
  BY <1>1, <1>2 DEF JobOK, WizardPC, WizardOK
<1> QED
  BY <1>1, <1>2, <1>3, BeginOK

LEMMA DeleteTenantOK ==
  ASSUME IInv, NEW h \in Handler, DeleteTenant(h)
  PROVE  IInv'
<1> DEFINE j == [Idle EXCEPT !.pc = "listApps"]
<1>1. /\ Begin(h, j) /\ UNCHANGED <<tenant, wizard, sources, provider>>
  BY DEF DeleteTenant, rows
<1>2. /\ j \in Job /\ j.pc = "listApps" /\ j.wizard = None /\ j.tenant = None
  <2>1. [Idle EXCEPT !.pc = "listApps"] \in Job
    BY IdleOK DEF Job, PC
  <2> QED
    BY <2>1 DEF Idle
<1> HIDE DEF j
<1>3. JobOK(j)
  BY <1>2 DEF JobOK, WizardPC, WizardOK, TenantOK
<1> QED
  BY <1>1, <1>2, <1>3, BeginOK

\* The one request that writes before anything else.
LEMMA CreateTenantOK ==
  ASSUME IInv, NEW h \in Handler, CreateTenant(h)
  PROVE  IInv'
<1> DEFINE j == [Idle EXCEPT !.pc = "initWizard"]
<1>1. /\ Begin(h, j) /\ UNCHANGED <<wizard, sources, provider>>
      /\ tenant' = [phase |-> "pending", map |-> None]
  BY DEF CreateTenant
<1>2. /\ j \in Job /\ j.pc = "initWizard" /\ j.wizard = None /\ j.tenant = None
  <2>1. [Idle EXCEPT !.pc = "initWizard"] \in Job
    BY IdleOK DEF Job, PC
  <2> QED
    BY <2>1 DEF Idle
<1> HIDE DEF j
<1>3. JobOK(j)
  BY <1>2 DEF JobOK, WizardPC, WizardOK, TenantOK
<1>4. /\ job' = [job EXCEPT ![h] = j] /\ past' \in Past
      /\ past' # "overlap" => \A g \in Handler : job[g].pc = "idle"
  BY <1>1 DEF Begin, IInv, TypeOK, Past
<1>5. SoundOK(tenant', wizard', j, past')
  BY <1>2 DEF SoundOK, InProgress
<1>6. tenant' \in TenantRow /\ TenantOK(tenant')
  BY <1>1 DEF TenantRow, Phase, TenantOK
<1>7. /\ wizard' \in WizardRow \cup {None} /\ WizardOK(wizard')
      /\ sources' \in [SourceId -> SourceRow \cup {None}]
      /\ provider' \in [Role -> ExternalId \cup {None}]
  BY <1>1 DEF IInv, TypeOK
<1> QED
  BY <1>2, <1>3, <1>4, <1>5, <1>6, <1>7, MoveOK
-----------------------------------------------------------------------------
(* Requests that go on *)

\* The last call of a request.
LEMMA EndOK ==
  ASSUME IInv, NEW h \in Handler, job[h].pc # "idle", Finish(h),
         UNCHANGED <<sources, provider>>,
         tenant' \in TenantRow \cup {None}, wizard' \in WizardRow \cup {None},
         TenantOK(tenant'), WizardOK(wizard'), past' \in Past,
         past' # "overlap" => past # "overlap",
         past' = "serial" /\ InProgress(tenant') => wizard' # None
  PROVE  IInv'
<1>1. Idle \in Job /\ JobOK(Idle) /\ SoundOK(tenant', wizard', Idle, past')
  BY IdleOK
<1>2. past' # "overlap" => \A g \in Handler \ {h} : job[g].pc = "idle"
  BY InFlight
<1>3. /\ sources' \in [SourceId -> SourceRow \cup {None}]
      /\ provider' \in [Role -> ExternalId \cup {None}]
  BY DEF IInv, TypeOK
<1>4. job' = [job EXCEPT ![h] = Idle]
  BY DEF Finish
<1> QED
  BY <1>1, <1>2, <1>3, <1>4, MoveOK

\* A request that ends by putting the wizard's row.
LEMMA PutOK ==
  ASSUME IInv, NEW h \in Handler, job[h].pc # "idle", Finish(h),
         UNCHANGED <<tenant, sources, provider>>, past' \in Past,
         past' # "overlap" => past # "overlap",
         NEW row \in WizardRow, WizardOK(row), wizard' = row
  PROVE  IInv'
<1>1. row # None /\ wizard' \in WizardRow \cup {None}
  BY NoneIsNoRow
<1>2. tenant' \in TenantRow \cup {None} /\ TenantOK(tenant')
  BY DEF IInv, TypeOK
<1> QED
  BY <1>1, <1>2, EndOK

LEMMA InitWizardOK ==
  ASSUME IInv, NEW h \in Handler, InitWizard(h)
  PROVE  IInv'
<1> DEFINE row == [step |-> CreateStep, packs |-> {}, ext |-> None, map |-> None]
<1>1. /\ job[h].pc # "idle" /\ Finish(h) /\ UNCHANGED <<tenant, sources, provider>>
      /\ past' \in Past /\ (past' # "overlap" => past # "overlap") /\ wizard' = row
  BY DEF InitWizard, At, PutWizard, Past
<1>2. row \in WizardRow /\ WizardOK(row)
  BY Steps DEF WizardRow, WizardOK
<1> HIDE DEF row
<1> QED
  BY <1>1, <1>2, PutOK

LEMMA SavePacksOK ==
  ASSUME IInv, NEW h \in Handler, SavePacks(h)
  PROVE  IInv'
<1> DEFINE row == [job[h].wizard EXCEPT !.packs = job[h].packs, !.step = CapabilitiesStep]
<1>1. /\ job[h].pc = "packs" /\ Finish(h) /\ UNCHANGED <<tenant, sources, provider, past>>
      /\ wizard' = row
  BY DEF SavePacks, At, PutWizard
<1>2. /\ job[h] \in Job /\ JobOK(job[h]) /\ past \in Past
  BY <1>1, InFlight
<1>3. /\ job[h].wizard \in WizardRow /\ WizardOK(job[h].wizard)
      /\ job[h].packs \in SUBSET Pack /\ Core \in job[h].packs
  BY <1>1, <1>2, JobFields DEF JobOK, WizardPC
<1>4. /\ row \in WizardRow /\ row.packs = job[h].packs /\ row.step = CapabilitiesStep
  BY <1>3, Steps DEF WizardRow
<1> HIDE DEF row
<1>5. WizardOK(row)
  BY <1>3, <1>4, Steps DEF WizardOK
<1> QED
  BY <1>1, <1>2, <1>4, <1>5, PutOK

LEMMA SaveIaCOK ==
  ASSUME IInv, NEW h \in Handler, SaveIaC(h)
  PROVE  IInv'
<1> DEFINE row == [job[h].wizard EXCEPT !.ext = job[h].ext, !.step = IaCStep]
<1>1. /\ job[h].pc = "iac" /\ Finish(h) /\ UNCHANGED <<tenant, sources, provider, past>>
      /\ wizard' = row
  BY DEF SaveIaC, At, PutWizard
<1>2. /\ job[h] \in Job /\ JobOK(job[h]) /\ past \in Past
  BY <1>1, InFlight
<1>3. /\ job[h].wizard \in WizardRow /\ job[h].wizard # None
      /\ job[h].ext \in ExternalId \cup {None} /\ Core \in job[h].wizard.packs
  BY <1>1, <1>2, JobFields DEF JobOK, WizardPC, WizardOK
<1>4. /\ row \in WizardRow /\ row.packs = job[h].wizard.packs /\ row.step = IaCStep
  BY <1>3, Steps DEF WizardRow
<1> HIDE DEF row
<1>5. WizardOK(row)
  BY <1>3, <1>4, Steps DEF WizardOK
<1> QED
  BY <1>1, <1>2, <1>4, <1>5, PutOK

LEMMA SaveIdentityOK ==
  ASSUME IInv, NEW h \in Handler, SaveIdentity(h)
  PROVE  IInv'
<1> DEFINE row == [job[h].wizard EXCEPT !.step = IdentityStep]
<1>1. /\ job[h].pc = "identity" /\ Finish(h) /\ UNCHANGED <<tenant, sources, provider, past>>
      /\ wizard' = row
  BY DEF SaveIdentity, At, PutWizard
<1>2. /\ job[h] \in Job /\ JobOK(job[h]) /\ past \in Past
  BY <1>1, InFlight
<1>3. /\ job[h].wizard \in WizardRow /\ Core \in job[h].wizard.packs
  BY <1>1, <1>2, JobFields DEF JobOK, WizardPC, WizardOK
<1>4. /\ row \in WizardRow /\ row.packs = job[h].wizard.packs /\ row.step = IdentityStep
  BY <1>3, Steps DEF WizardRow
<1> HIDE DEF row
<1>5. WizardOK(row)
  BY <1>3, <1>4, Steps DEF WizardOK
<1> QED
  BY <1>1, <1>2, <1>4, <1>5, PutOK

LEMMA FinalizeProbeOK ==
  ASSUME IInv, NEW h \in Handler, FinalizeProbe(h)
  PROVE  IInv'
<1> DEFINE row == [job[h].wizard EXCEPT !.map = [packs |-> job[h].wizard.packs],
                                        !.step = ProbeStep]
<1>1. /\ job[h].pc = "report" /\ Finish(h) /\ UNCHANGED <<tenant, sources, provider, past>>
      /\ wizard' = row
  BY DEF FinalizeProbe, At, PutWizard
<1>2. /\ job[h] \in Job /\ JobOK(job[h]) /\ past \in Past
  BY <1>1, InFlight
<1>3. /\ job[h].wizard \in WizardRow /\ Core \in job[h].wizard.packs
  BY <1>1, <1>2, JobFields DEF JobOK, WizardPC, WizardOK
<1>4. [packs |-> job[h].wizard.packs] \in CapabilityMap
  BY <1>3, WizardFields DEF CapabilityMap
<1>5. /\ row \in WizardRow /\ row.packs = job[h].wizard.packs /\ row.step = ProbeStep
      /\ row.map = [packs |-> job[h].wizard.packs]
  BY <1>3, <1>4, Steps DEF WizardRow
<1> HIDE DEF row
<1>6. WizardOK(row)
  BY <1>3, <1>5 DEF WizardOK
<1> QED
  BY <1>1, <1>2, <1>5, <1>6, PutOK

LEMMA DropWizardOK ==
  ASSUME IInv, NEW h \in Handler, DropWizard(h)
  PROVE  IInv'
<1>1. /\ job[h].pc = "dropWizard" /\ Finish(h) /\ UNCHANGED <<tenant, sources, provider, past>>
      /\ wizard' = None
  BY DEF DropWizard, At
<1>2. past \in Past /\ (past = "serial" => ~ InProgress(tenant))
  BY <1>1, InFlight DEF SoundOK
<1>3. tenant' \in TenantRow \cup {None} /\ TenantOK(tenant') /\ WizardOK(wizard')
  BY <1>1 DEF IInv, TypeOK, WizardOK
<1>4. past' = "serial" => ~ InProgress(tenant')
  BY <1>1, <1>2
<1> QED
  BY <1>1, <1>2, <1>3, <1>4, EndOK

LEMMA SaveTenantOK ==
  ASSUME IInv, NEW h \in Handler, SaveTenant(h)
  PROVE  IInv'
<1>1. /\ job[h].pc = "update" /\ Finish(h) /\ UNCHANGED <<wizard, sources, provider, past>>
      /\ tenant' = job[h].tenant
  BY DEF SaveTenant, At, WriteTenant
<1>2. /\ job[h] \in Job /\ JobOK(job[h]) /\ past \in Past
      /\ SoundOK(tenant, wizard, job[h], past)
  BY <1>1, InFlight
<1>3. tenant' \in TenantRow \cup {None} /\ TenantOK(tenant')
  BY <1>1, <1>2, JobFields DEF JobOK
<1>4. wizard' \in WizardRow \cup {None} /\ WizardOK(wizard')
  BY <1>1 DEF IInv, TypeOK
<1>5. past' = "serial" /\ InProgress(tenant') => wizard' # None
  BY <1>1, <1>2 DEF SoundOK
<1> QED
  BY <1>1, <1>2, <1>3, <1>4, <1>5, EndOK

LEMMA DropTenantOK ==
  ASSUME IInv, NEW h \in Handler, DropTenant(h)
  PROVE  IInv'
<1>1. /\ job[h].pc = "dropTenant" /\ Finish(h) /\ UNCHANGED <<wizard, sources, provider, past>>
      /\ tenant' = None
  BY DEF DropTenant, At
<1>2. wizard' \in WizardRow \cup {None} /\ WizardOK(wizard') /\ past \in Past
      /\ TenantOK(tenant') /\ ~ InProgress(tenant')
  BY <1>1 DEF IInv, TypeOK, TenantOK, InProgress
<1> QED
  BY <1>1, <1>2, EndOK

LEMMA ListAppsOK ==
  ASSUME IInv, NEW h \in Handler, ListApps(h)
  PROVE  IInv'
<1>1. /\ job[h].pc = "listApps" /\ (Finish(h) \/ Goto(h, "dropTenant"))
      /\ UNCHANGED <<tenant, wizard, sources, provider, past>>
  BY DEF ListApps, At, rows
<1>2. /\ job[h] \in Job /\ JobOK(job[h]) /\ past \in Past
      /\ sources \in [SourceId -> SourceRow \cup {None}]
      /\ provider \in [Role -> ExternalId \cup {None}] /\ job \in [Handler -> Job]
  BY <1>1 DEF IInv, TypeOK
<1>3. job[h].wizard = None /\ job[h].tenant = None
  BY <1>1, <1>2 DEF JobOK, WizardPC
<1>4. PICK j \in Job : /\ job' = [job EXCEPT ![h] = j]
                       /\ j.pc \in {"idle", "dropTenant"} /\ j.wizard = None /\ j.tenant = None
  <2>1. CASE Finish(h)
    BY <2>1, IdleOK DEF Finish
  <2>2. CASE Goto(h, "dropTenant")
    <3>1. job' = [job EXCEPT ![h] = [job[h] EXCEPT !.pc = "dropTenant"]]
      BY <2>2 DEF Goto
    <3>2. [job[h] EXCEPT !.pc = "dropTenant"] \in Job
      BY <1>2 DEF Job, PC
    <3> QED
      BY <1>2, <1>3, <3>1, <3>2 DEF Job
  <2> QED
    BY <1>1, <2>1, <2>2
<1>5. JobOK(j)
  BY <1>4 DEF JobOK, WizardPC, WizardOK, TenantOK
<1> QED
  BY <1>1, <1>2, <1>4, <1>5, QuietOK

LEMMA AbortOK ==
  ASSUME IInv, NEW h \in Handler, Abort(h)
  PROVE  IInv'
<1>1. /\ job[h].pc # "idle" /\ job' = [job EXCEPT ![h] = Idle]
      /\ UNCHANGED <<tenant, wizard, sources, provider>>
      /\ past' \in Past /\ (past' # "overlap" => past # "overlap")
      /\ past' = "serial" => past = "serial" /\ job[h].pc # "initWizard"
  BY DEF Abort, Finish, At, Lapse, rows, Past, IInv, TypeOK
<1>2. /\ sources \in [SourceId -> SourceRow \cup {None}]
      /\ provider \in [Role -> ExternalId \cup {None}]
  BY DEF IInv, TypeOK
<1> QED
  BY <1>1, <1>2, IdleOK, QuietOK

LEMMA CreateSourceOK ==
  ASSUME IInv, NEW h \in Handler, NEW id \in SourceId, CreateSource(h, id)
  PROVE  IInv'
<1> DEFINE j == [job[h] EXCEPT !.pc = "tenant", !.role = None]
<1>1. /\ job[h].pc = "source" /\ UNCHANGED <<tenant, wizard, provider, past>>
      /\ job' = [job EXCEPT ![h] = j]
      /\ sources' = [sources EXCEPT ![id] = [role |-> job[h].role, ext |-> job[h].wizard.ext]]
  BY DEF CreateSource, At
<1>2. /\ job[h] \in Job /\ JobOK(job[h]) /\ past \in Past
      /\ sources \in [SourceId -> SourceRow \cup {None}]
      /\ provider \in [Role -> ExternalId \cup {None}] /\ job \in [Handler -> Job]
  BY <1>1 DEF IInv, TypeOK
<1>3. job[h].wizard \in WizardRow /\ job[h].tenant = None /\ job[h].role \in Role \cup {None}
      /\ job[h].wizard # None /\ job[h].wizard.ext # None
  BY <1>1, <1>2, JobFields DEF JobOK, WizardPC
<1>4. [role |-> job[h].role, ext |-> job[h].wizard.ext] \in SourceRow
  BY <1>3, WizardFields DEF SourceRow
<1>5. sources' \in [SourceId -> SourceRow \cup {None}]
  BY <1>1, <1>2, <1>4
<1>6. j \in Job
  BY <1>2 DEF Job, PC
<1>7. j.pc = "tenant" /\ j.wizard = job[h].wizard /\ j.tenant = None
  BY <1>2, <1>3 DEF Job
<1> HIDE DEF j
<1>8. JobOK(j)
  BY <1>2, <1>3, <1>7 DEF JobOK, WizardPC
<1> QED
  BY <1>1, <1>2, <1>5, <1>6, <1>7, <1>8, QuietOK

LEMMA ReadTenantOK ==
  ASSUME IInv, NEW h \in Handler, ReadTenant(h)
  PROVE  IInv'
<1> DEFINE j == [job[h] EXCEPT !.pc = "markTenant", !.tenant = tenant]
<1>1. /\ job[h].pc = "tenant" /\ UNCHANGED <<tenant, wizard, sources, provider, past>>
      /\ job' = [job EXCEPT ![h] = j] /\ tenant # None
  BY DEF ReadTenant, At, rows
<1>2. /\ job[h] \in Job /\ JobOK(job[h]) /\ past \in Past /\ tenant \in TenantRow
      /\ TenantOK(tenant)
      /\ sources \in [SourceId -> SourceRow \cup {None}]
      /\ provider \in [Role -> ExternalId \cup {None}] /\ job \in [Handler -> Job]
  BY <1>1 DEF IInv, TypeOK
<1>3. j \in Job
  BY <1>2 DEF Job, PC
<1>4. j.pc = "markTenant" /\ j.wizard = job[h].wizard /\ j.tenant = tenant
  BY <1>2 DEF Job
<1> HIDE DEF j
<1>5. JobOK(j)
  BY <1>1, <1>2, <1>4 DEF JobOK, WizardPC
<1> QED
  BY <1>1, <1>2, <1>3, <1>4, <1>5, QuietOK

LEMMA MarkTenantOK ==
  ASSUME IInv, NEW h \in Handler, MarkTenant(h)
  PROVE  IInv'
<1> DEFINE j == [job[h] EXCEPT !.pc = "identity", !.tenant = None]
<1>1. /\ job[h].pc = "markTenant" /\ UNCHANGED <<wizard, sources, provider, past>>
      /\ job' = [job EXCEPT ![h] = j]
      /\ tenant' = [job[h].tenant EXCEPT !.phase = "in_progress"]
  BY DEF MarkTenant, At, WriteTenant
<1>2. /\ job[h] \in Job /\ JobOK(job[h]) /\ past \in Past
      /\ SoundOK(tenant, wizard, job[h], past)
      /\ past # "overlap" => \A g \in Handler \ {h} : job[g].pc = "idle"
  BY <1>1, InFlight
<1>3. job[h].wizard # None /\ job[h].tenant \in TenantRow
  BY <1>1, <1>2, JobFields DEF JobOK, WizardPC
<1>4. tenant' \in TenantRow /\ TenantOK(tenant')
  BY <1>1, <1>3 DEF TenantRow, Phase, TenantOK
<1>5. j \in Job
  BY <1>2 DEF Job, PC
<1>6. j.pc = "identity" /\ j.wizard = job[h].wizard /\ j.tenant = None
  BY <1>2 DEF Job
<1> HIDE DEF j
<1>7. JobOK(j)
  BY <1>1, <1>2, <1>6 DEF JobOK, WizardPC, TenantOK
<1>8. past = "serial" => wizard # None
  BY <1>2, <1>3 DEF SoundOK
<1>9. SoundOK(tenant', wizard', j, past')
  BY <1>1, <1>2, <1>6, <1>8 DEF SoundOK
<1>10. /\ wizard' \in WizardRow \cup {None} /\ WizardOK(wizard')
       /\ sources' \in [SourceId -> SourceRow \cup {None}]
       /\ provider' \in [Role -> ExternalId \cup {None}]
  BY <1>1 DEF IInv, TypeOK
<1>11. past' = "serial" => wizard' # None
  BY <1>1, <1>8
<1> QED
  BY <1>1, <1>2, <1>4, <1>5, <1>7, <1>9, <1>10, <1>11, MoveOK

LEMMA PromoteOK ==
  ASSUME IInv, NEW h \in Handler, Promote(h)
  PROVE  IInv'
<1> DEFINE j == [Idle EXCEPT !.pc = "dropWizard"]
<1>1. /\ job[h].pc = "promote" /\ UNCHANGED <<wizard, sources, provider, past>>
      /\ job' = [job EXCEPT ![h] = j]
      /\ tenant' = [phase |-> "active", map |-> job[h].wizard.map]
  BY DEF Promote, At, WriteTenant
<1>2. /\ job[h] \in Job /\ JobOK(job[h]) /\ past \in Past
      /\ past # "overlap" => \A g \in Handler \ {h} : job[g].pc = "idle"
  BY <1>1, InFlight
<1>3. /\ job[h].wizard \in WizardRow /\ job[h].wizard # None /\ WizardOK(job[h].wizard)
      /\ job[h].wizard.step = ProbeStep
  BY <1>1, <1>2, JobFields DEF JobOK, WizardPC
<1>4. /\ job[h].wizard.map = [packs |-> job[h].wizard.packs]
      /\ Core \in job[h].wizard.packs /\ job[h].wizard.map \in CapabilityMap \cup {None}
  BY <1>3, Steps, WizardFields DEF WizardOK
<1>5. [packs |-> job[h].wizard.packs] \in CapabilityMap
  BY <1>3, WizardFields DEF CapabilityMap
<1>6. job[h].wizard.map # None
  BY <1>4, <1>5, NoneIsNoRow
<1>7. tenant' \in TenantRow
  BY <1>1, <1>4 DEF TenantRow, Phase
<1>8. TenantOK(tenant')
  <2>1. tenant'.map = job[h].wizard.map /\ tenant'.map.packs = job[h].wizard.packs
    BY <1>1, <1>4
  <2> QED
    BY <1>4, <1>6, <2>1 DEF TenantOK
<1>9. ~ InProgress(tenant')
  BY <1>1 DEF InProgress
<1>10. j \in Job /\ j.pc = "dropWizard" /\ j.wizard = None /\ j.tenant = None
  <2>1. [Idle EXCEPT !.pc = "dropWizard"] \in Job
    BY IdleOK DEF Job, PC
  <2> QED
    BY <2>1 DEF Idle
<1> HIDE DEF j
<1>11. JobOK(j) /\ SoundOK(tenant', wizard', j, past')
  <2>1. JobOK(j)
    BY <1>10 DEF JobOK, WizardPC, WizardOK, TenantOK
  <2>2. SoundOK(tenant', wizard', j, past')
    <3>1. ~ InProgress(j.tenant)
      BY <1>10 DEF InProgress
    <3> QED
      BY <1>9, <1>10, <3>1 DEF SoundOK
  <2> QED
    BY <2>1, <2>2
<1>12. /\ wizard' \in WizardRow \cup {None} /\ WizardOK(wizard')
       /\ sources' \in [SourceId -> SourceRow \cup {None}]
       /\ provider' \in [Role -> ExternalId \cup {None}]
  BY <1>1 DEF IInv, TypeOK
<1> QED
  BY <1>1, <1>2, <1>7, <1>8, <1>9, <1>10, <1>11, <1>12, MoveOK

\* The calls of a probe change nothing but its own place and the credentials.
LEMMA ProbeOK ==
  ASSUME IInv, NEW h \in Handler,
         \/ \E id \in SourceId : FindIdentitySource(h, id)
         \/ AssumeForTenant(h)
         \/ \E p \in Pack : Simulate(h, p)
  PROVE  IInv'
<1>1. /\ job[h].pc \in {"list", "assume", "simulate"} /\ UNCHANGED <<tenant, wizard, sources, past>>
  BY DEF FindIdentitySource, AssumeForTenant, Simulate, At, rows
<1>2. /\ job[h] \in Job /\ JobOK(job[h]) /\ past \in Past
      /\ sources \in [SourceId -> SourceRow \cup {None}]
      /\ provider \in [Role -> ExternalId \cup {None}] /\ job \in [Handler -> Job]
  BY <1>1 DEF IInv, TypeOK
<1>3. SUFFICES ASSUME NEW j \in Job, job' = [job EXCEPT ![h] = j],
                      j.pc \in {"assume", "simulate", "report"},
                      j.wizard = job[h].wizard, j.tenant = job[h].tenant,
                      j.pc = "assume" => j.source # None,
                      provider' \in [Role -> ExternalId \cup {None}]
               PROVE  IInv'
  <2>1. ASSUME NEW id \in SourceId, FindIdentitySource(h, id)
        PROVE  \E j \in Job : /\ job' = [job EXCEPT ![h] = j]
                              /\ j.pc = "assume" /\ j.source # None
                              /\ j.wizard = job[h].wizard /\ j.tenant = job[h].tenant
                              /\ provider' = provider
    <3> DEFINE j == [job[h] EXCEPT !.pc = "assume", !.source = sources[id]]
    <3>1. /\ job' = [job EXCEPT ![h] = j] /\ provider' = provider
          /\ sources[id] \in SourceRow /\ sources[id] # None
      BY <1>2, <2>1 DEF FindIdentitySource
    <3>2. j \in Job
      BY <1>2, <3>1 DEF Job, PC
    <3>3. /\ j.pc = "assume" /\ j.source # None
          /\ j.wizard = job[h].wizard /\ j.tenant = job[h].tenant
      BY <1>2, <3>1 DEF Job
    <3> QED
      BY <3>1, <3>2, <3>3
  <2>2. ASSUME AssumeForTenant(h)
        PROVE  \E j \in Job : /\ job' = [job EXCEPT ![h] = j] /\ j.pc = "simulate"
                              /\ j.wizard = job[h].wizard /\ j.tenant = job[h].tenant
                              /\ provider' \in [Role -> ExternalId \cup {None}]
    <3>1. PICK s \in SourceRow : s = job[h].source
      BY <1>2, <2>2, JobFields DEF AssumeForTenant, At, JobOK
    <3>2. s.role \in Role /\ s.ext \in ExternalId
      BY <2>2, <3>1 DEF AssumeForTenant, SourceRow
    <3>3. PICK e \in ExternalId :
            /\ provider' = [provider EXCEPT ![s.role] = e]
            /\ job' = [job EXCEPT ![h].pc = "simulate", ![h].ext = e]
      BY <1>2, <2>2, <3>1, <3>2 DEF AssumeForTenant
    <3> DEFINE j == [job[h] EXCEPT !.pc = "simulate", !.ext = e]
    <3>4. /\ job' = [job EXCEPT ![h] = j]
          /\ provider' \in [Role -> ExternalId \cup {None}]
      BY <1>2, <3>2, <3>3
    <3>5. j \in Job
      BY <1>2 DEF Job, PC
    <3>6. j.pc = "simulate" /\ j.wizard = job[h].wizard /\ j.tenant = job[h].tenant
      BY <1>2 DEF Job
    <3> QED
      BY <3>4, <3>5, <3>6
  <2>3. ASSUME NEW p \in Pack, Simulate(h, p)
        PROVE  \E j \in Job : /\ job' = [job EXCEPT ![h] = j] /\ j.pc \in {"simulate", "report"}
                              /\ j.wizard = job[h].wizard /\ j.tenant = job[h].tenant
                              /\ provider' = provider
    <3> DEFINE left == job[h].left \ {p}
               pc == IF left = {} THEN "report" ELSE "simulate"
               j == [job[h] EXCEPT !.left = left, !.pc = pc]
    <3>1. job' = [job EXCEPT ![h] = j] /\ provider' = provider
      BY <1>2, <2>3 DEF Simulate
    <3>2. left \in SUBSET Pack /\ pc \in {"simulate", "report"}
      BY <1>2, JobFields
    <3> HIDE DEF left, pc
    <3>3. j \in Job
      BY <1>2, <3>2 DEF Job, PC
    <3>4. j.pc = pc /\ j.wizard = job[h].wizard /\ j.tenant = job[h].tenant
      BY <1>2 DEF Job
    <3> QED
      BY <3>1, <3>2, <3>3, <3>4
  <2> QED
    BY <1>2, <2>1, <2>2, <2>3
<1>4. job[h].wizard.step >= IdentityStep /\ job[h].wizard # None /\ job[h].tenant = None
  BY <1>1, <1>2 DEF JobOK, WizardPC
<1>5. JobOK(j)
  BY <1>2, <1>3, <1>4 DEF JobOK, WizardPC
<1>6. sources' \in [SourceId -> SourceRow \cup {None}] /\ past' = past
  BY <1>1, <1>2
<1> QED
  BY <1>1, <1>2, <1>3, <1>4, <1>5, <1>6, QuietOK
-----------------------------------------------------------------------------
(* Steps of no request, and the theorems *)

LEMMA EnvironmentOK ==
  ASSUME IInv, UNCHANGED job,
         tenant' \in TenantRow \cup {None}, wizard' \in WizardRow \cup {None},
         sources' \in [SourceId -> SourceRow \cup {None}],
         provider' \in [Role -> ExternalId \cup {None}],
         TenantOK(tenant'), WizardOK(wizard'), past' \in Past,
         past' # "overlap" => past # "overlap",
         wizard' = wizard \/ (wizard' = None /\ past' # "serial"),
         past' = "serial" => past = "serial",
         InProgress(tenant') => InProgress(tenant)
  PROVE  IInv'
<1>1. TypeOK'
  BY DEF IInv, TypeOK
<1>2. ASSUME NEW h \in Handler
      PROVE  JobOK(job'[h]) /\ SoundOK(tenant', wizard', job'[h], past')
  <2>1. JobOK(job[h]) /\ SoundOK(tenant, wizard, job[h], past)
    BY DEF IInv
  <2> QED
    BY <2>1 DEF SoundOK
<1>3. Alone' /\ ResumeOK'
  BY DEF IInv, Alone, ResumeOK, At
<1> QED
  BY <1>1, <1>2, <1>3 DEF IInv

LEMMA OtherStepsOK ==
  ASSUME IInv,
         \/ PlainCreateTenant \/ WizardExpires \/ ColdStart \/ UNCHANGED vars
         \/ \E id \in SourceId : AddSource(id) \/ DeleteSource(id)
  PROVE  IInv'
<1>1. /\ tenant \in TenantRow \cup {None} /\ wizard \in WizardRow \cup {None}
      /\ sources \in [SourceId -> SourceRow \cup {None}]
      /\ provider \in [Role -> ExternalId \cup {None}] /\ past \in Past
      /\ TenantOK(tenant) /\ WizardOK(wizard)
  BY DEF IInv, TypeOK
<1>2. CASE PlainCreateTenant
  <2>1. tenant' = [phase |-> "none", map |-> None]
        /\ UNCHANGED <<wizard, sources, provider, job, past>>
    BY <1>2 DEF PlainCreateTenant
  <2>2. tenant' \in TenantRow /\ TenantOK(tenant') /\ ~ InProgress(tenant')
    BY <2>1 DEF TenantRow, Phase, TenantOK, InProgress
  <2> QED
    BY <1>1, <2>1, <2>2, EnvironmentOK
<1>3. CASE WizardExpires
  <2>1. /\ wizard' = None /\ UNCHANGED <<tenant, sources, provider, job>>
        /\ past' \in Past /\ past' # "serial" /\ (past' # "overlap" => past # "overlap")
    BY <1>3 DEF WizardExpires, Lapse, Past
  <2>2. WizardOK(wizard')
    BY <2>1 DEF WizardOK
  <2> QED
    BY <1>1, <2>1, <2>2, EnvironmentOK
<1>4. CASE ColdStart
  <2>1. UNCHANGED <<tenant, wizard, sources, job, past>>
        /\ provider' \in [Role -> ExternalId \cup {None}]
    BY <1>4 DEF ColdStart, rows
  <2> QED
    BY <1>1, <2>1, EnvironmentOK
<1>5. ASSUME NEW id \in SourceId, AddSource(id) \/ DeleteSource(id)
      PROVE  IInv'
  <2>1. UNCHANGED <<tenant, wizard, provider, job, past>>
    BY <1>5 DEF AddSource, DeleteSource
  <2>2. [role |-> None, ext |-> None] \in SourceRow
    BY DEF SourceRow
  <2>3. sources' \in [SourceId -> SourceRow \cup {None}]
    BY <1>1, <1>5, <2>2 DEF AddSource, DeleteSource
  <2> QED
    BY <1>1, <2>1, <2>3, EnvironmentOK
<1>6. CASE UNCHANGED vars
  BY <1>1, <1>6, EnvironmentOK DEF vars
<1> QED
  BY <1>2, <1>3, <1>4, <1>5, <1>6

LEMMA InitOK ==
  ASSUME Init
  PROVE  IInv
<1>1. TypeOK
  BY IdleOK DEF Init, TypeOK, Past
<1>2. TenantOK(tenant) /\ WizardOK(wizard) /\ ~ InProgress(tenant)
  BY DEF Init, TenantOK, WizardOK, InProgress
<1>3. \A h \in Handler : JobOK(job[h]) /\ SoundOK(tenant, wizard, job[h], past)
  BY IdleOK DEF Init
<1>4. Alone /\ ResumeOK
  BY <1>2, IdleOK DEF Init, Alone, ResumeOK, At
<1> QED
  BY <1>1, <1>2, <1>3, <1>4 DEF IInv

LEMMA HandlerStepOK ==
  ASSUME IInv, NEW h \in Handler, HandlerStep(h)
  PROVE  IInv'
BY CreateTenantOK, InitWizardOK, SetCapabilitiesOK, SavePacksOK, GenerateIaCOK, SaveIaCOK,
   RegisterIdentityOK, CreateSourceOK, ReadTenantOK, MarkTenantOK, SaveIdentityOK,
   ProbeCapabilitiesOK, ProbeOK, FinalizeProbeOK, CompleteOK, PromoteOK, DropWizardOK,
   UpdateTenantOK, SaveTenantOK, DeleteTenantOK, ListAppsOK, DropTenantOK, AbortOK
   DEF HandlerStep

\* Every call of every handler, in any interleaving, keeps the invariant.
THEOREM Invariance == Spec => []IInv
<1>1. Init => IInv
  BY InitOK
<1>2. IInv /\ [Next]_vars => IInv'
  BY HandlerStepOK, OtherStepsOK DEF Next
<1> QED
  BY <1>1, <1>2, PTL DEF Spec

\* Every variable keeps its type.
THEOREM TypeCorrect == Spec => []TypeOK
<1>1. IInv => TypeOK
  BY DEF IInv
<1> QED
  BY <1>1, Invariance, PTL

\* A tenant Complete has made active carries a finished probe's answer, core
\* included, and a row that could be completed one for the packs it selects,
\* however the wizard's calls interleave with each other and with the tenant's
\* other endpoints.
THEOREM ActiveIsProbed == Spec => []ActiveTenantIsProbed
<1>1. IInv => ActiveTenantIsProbed
  BY DEF IInv, TenantOK, WizardOK, ActiveTenantIsProbed
<1> QED
  BY <1>1, Invariance, PTL

\* Whatever call of the wizard fails, and wherever, a tenant in the middle of it
\* still has the row Complete and the other steps resume from, as long as that
\* row was written, did not expire and no two requests overlapped.
THEOREM Resumable == Spec => []WizardResumable
<1>1. IInv => WizardResumable
  BY DEF IInv, ResumeOK, InProgress, WizardResumable, At
<1> QED
  BY <1>1, Invariance, PTL

\* The row a request puts back has the ExternalID of the row it replaces, when
\* the request has run alone.
LEMMA PutKeepsExternalId ==
  ASSUME IInv, NEW h \in Handler, past # "overlap", wizard # None, wizard.ext # None,
         SavePacks(h) \/ SaveIaC(h) \/ SaveIdentity(h) \/ FinalizeProbe(h)
  PROVE  wizard'.ext = wizard.ext
<1>1. job[h].pc \in {"packs", "iac", "identity", "report"}
  BY DEF SavePacks, SaveIaC, SaveIdentity, FinalizeProbe, At
<1>2. /\ JobOK(job[h]) /\ job[h].wizard \in WizardRow /\ job[h].wizard = wizard
  <2>1. /\ job[h] \in Job /\ JobOK(job[h]) /\ SoundOK(tenant, wizard, job[h], past)
    BY <1>1, InFlight
  <2>2. job[h].wizard \in WizardRow /\ job[h].wizard # None
    BY <1>1, <2>1, JobFields DEF JobOK, WizardPC
  <2> QED
    BY <2>1, <2>2 DEF SoundOK
<1>3. CASE SavePacks(h) \/ SaveIdentity(h) \/ FinalizeProbe(h)
  <2>1. wizard' \in {[wizard EXCEPT !.packs = job[h].packs, !.step = CapabilitiesStep],
                     [wizard EXCEPT !.step = IdentityStep],
                     [wizard EXCEPT !.map = [packs |-> wizard.packs], !.step = ProbeStep]}
    BY <1>2, <1>3 DEF SavePacks, SaveIdentity, FinalizeProbe, PutWizard
  <2> QED
    BY <1>2, <2>1 DEF WizardRow
<1>4. CASE SaveIaC(h)
  <2>1. /\ wizard' = [wizard EXCEPT !.ext = job[h].ext, !.step = IaCStep]
        /\ job[h].pc = "iac"
    BY <1>2, <1>4 DEF SaveIaC, PutWizard, At
  <2>2. job[h].ext = wizard.ext
    BY <1>2, <2>1 DEF JobOK
  <2> QED
    BY <1>2, <2>1, <2>2 DEF WizardRow
<1> QED
  BY <1>3, <1>4

\* No other call writes the wizard's row, but those that create and remove it.
LEMMA WizardWriters ==
  ASSUME NEW h \in Handler, HandlerStep(h), wizard' # wizard, wizard' # None
  PROVE  SavePacks(h) \/ SaveIaC(h) \/ SaveIdentity(h) \/ FinalizeProbe(h) \/ InitWizard(h)
BY DEF HandlerStep, CreateTenant, SetCapabilities, GenerateIaC, RegisterIdentity,
       CreateSource, ReadTenant, MarkTenant, ProbeCapabilities, FindIdentitySource,
       AssumeForTenant, Simulate, Complete, Promote, DropWizard, UpdateTenant, SaveTenant,
       DeleteTenant, ListApps, DropTenant, Abort, rows

\* The ExternalID a customer's trust policy is built on stays for the life of
\* the wizard's row: no later template, registration, probe or choice of packs
\* changes it, unless two requests overlap or the tenant is created again.
THEOREM ExternalIdIsKept == Spec => ExternalIdKept
<1>1. IInv /\ [Next]_vars =>
        [ (wizard # None /\ wizard' # None /\ wizard.ext # None /\ wizard'.ext # wizard.ext)
          => past = "overlap" \/ \E h \in Handler : At(h, "initWizard") ]_vars
  <2>1. SUFFICES ASSUME IInv, Next, wizard # None, wizard' # None, wizard.ext # None,
                        wizard'.ext # wizard.ext, past # "overlap"
                 PROVE  \E h \in Handler : At(h, "initWizard")
    OBVIOUS
  <2>2. wizard' # wizard
    BY <2>1
  <2>3. PICK h \in Handler : HandlerStep(h)
    BY <2>1, <2>2 DEF Next, PlainCreateTenant, WizardExpires, AddSource, DeleteSource,
                      ColdStart, rows
  <2>4. InitWizard(h)
    BY <2>1, <2>2, <2>3, WizardWriters, PutKeepsExternalId
  <2> QED
    BY <2>4 DEF InitWizard
<1> QED
  BY <1>1, Invariance, PTL DEF Spec, ExternalIdKept

=============================================================================
