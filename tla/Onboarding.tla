------------------------------- MODULE Onboarding -------------------------------
(***************************************************************************)
(* One tenant's life in the management API: the onboarding wizard          *)
(* (internal/service/onboarding), the tenant and identity-source endpoints *)
(* (internal/api) and the rows they share. Rows of different slugs never   *)
(* meet, so one slug, not the built-in default one, is modelled.           *)
(*                                                                         *)
(* A handler reads whole rows, changes fields and puts whole rows back, no *)
(* write being conditional but the tenant's creation. One action is one    *)
(* store or AWS call; the two readings of TenantStore.Update and of its    *)
(* caller are one (see WriteTenant). The customer's role lives in another   *)
(* account and changes at any time: a simulation answers what it likes.    *)
(***************************************************************************)
EXTENDS Naturals, FiniteSets

CONSTANTS
  Pack,        \* capability packs
  Core,        \* the mandatory one
  ExternalId,  \* trust-policy secrets; a new one is one that nothing holds
  Role,        \* cross-account role ARNs a customer may name
  MaxSources,  \* bound on the identity sources there are at a time
  Handler,     \* requests in flight
  CallsFail,   \* whether store and AWS calls may fail
  None

SourceId == 1 .. MaxSources
Step == 1 .. 5
CreateStep == 1
CapabilitiesStep == 2
IaCStep == 3
IdentityStep == 4
ProbeStep == 5

\* A probe's answer, by the packs it has an entry for; which of them are TRUE
\* is the customer's affair and changes nothing here.
CapabilityMap == [packs : SUBSET Pack]

\* Tenant.OnboardingState ("none" for a tenant not made by the wizard) and
\* Tenant.CapabilityMap. No endpoint changes Tenant.Status.
Phase == {"none", "pending", "in_progress", "active"}
TenantRow == [phase : Phase, map : CapabilityMap \cup {None}]

\* domain.OnboardingState.
WizardRow == [step : Step, packs : SUBSET Pack,
              ext : ExternalId \cup {None}, map : CapabilityMap \cup {None}]

\* The cross-account half of an identity source.
SourceRow == [role : Role \cup {None}, ext : ExternalId \cup {None}]

PC == {"idle", "initWizard", "packs", "iac", "source", "tenant", "markTenant",
       "identity", "list", "assume", "simulate", "report", "promote",
       "dropWizard", "update", "listApps", "dropTenant"}

\* A request in flight: the rows it has read, what it was asked for, and for a
\* probe the source, the ExternalID its credentials use and the packs still to
\* simulate.
Job == [pc : PC, wizard : WizardRow \cup {None}, tenant : TenantRow \cup {None},
        packs : SUBSET Pack, role : Role \cup {None},
        source : SourceRow \cup {None},
        ext : ExternalId \cup {None}, left : SUBSET Pack]

ASSUME ConstantsAssumption ==
  /\ Core \in Pack
  /\ MaxSources \in Nat
  /\ CallsFail \in BOOLEAN
  /\ None \notin ExternalId \cup Role \cup Nat \cup CapabilityMap \cup TenantRow
                 \cup WizardRow \cup SourceRow

VARIABLES
  tenant,     \* the TENANT#slug / CONFIG row
  wizard,     \* the TENANT#slug / ONBOARDING#STATE row
  sources,    \* the SOURCE# rows
  provider,   \* sts.Provider's cache of the running instance: role to ExternalID
  job,
  (* history *)
  past        \* what the properties except: "serial" requests, "lapsed" when a
              \* wizard row expired or was never written, "overlap" once two
              \* requests were in flight together

rows == <<tenant, wizard, sources>>
vars == <<tenant, wizard, sources, provider, job, past>>

Idle == [pc |-> "idle", wizard |-> None, tenant |-> None, packs |-> {},
         role |-> None, source |-> None, ext |-> None,
         left |-> {}]

Init ==
  /\ tenant = None
  /\ wizard = None
  /\ sources = [id \in SourceId |-> None]
  /\ provider = [r \in Role |-> None]
  /\ job = [h \in Handler |-> Idle]
  /\ past = "serial"

-----------------------------------------------------------------------------

\* A request arrives and makes its first call.
Begin(h, j) ==
  /\ job[h].pc = "idle"
  /\ job' = [job EXCEPT ![h] = j]
  /\ past' = IF \E g \in Handler : job[g].pc # "idle" THEN "overlap" ELSE past

Goto(h, pc) == job' = [job EXCEPT ![h].pc = pc]
Finish(h) == job' = [job EXCEPT ![h] = Idle]
At(h, pc) == job[h].pc = pc

\* OnboardingStateStore.Put: unconditional, with a new TTL.
PutWizard(row) == wizard' = row

\* OnboardingStateStore.Get: no row, no request.
ReadWizard(h, j) == wizard # None /\ Begin(h, [j EXCEPT !.wizard = wizard])

Lapse == IF past = "overlap" THEN "overlap" ELSE "lapsed"

\* A handler answers an error and stops: any call of it may fail, and its
\* instance may die. What it has written so far stays.
Abort(h) ==
  /\ CallsFail
  /\ ~ At(h, "idle")
  /\ Finish(h)
  /\ past' = IF At(h, "initWizard") THEN Lapse ELSE past
  /\ UNCHANGED <<rows, provider>>

-----------------------------------------------------------------------------
(* Wizard, steps 1 to 3 *)

\* CreateTenant: the conditional write that makes the slug unique.
CreateTenant(h) ==
  /\ tenant = None
  /\ Begin(h, [Idle EXCEPT !.pc = "initWizard"])
  /\ tenant' = [phase |-> "pending", map |-> None]
  /\ UNCHANGED <<wizard, sources, provider>>

\* CreateTenant: the wizard's row, over a left-over of an earlier tenant.
InitWizard(h) ==
  /\ At(h, "initWizard")
  /\ PutWizard([step |-> CreateStep, packs |-> {}, ext |-> None, map |-> None])
  /\ past' = IF past = "overlap" THEN "overlap" ELSE "serial"
  /\ Finish(h)
  /\ UNCHANGED <<tenant, sources, provider>>

\* normalizePacks: unknown names are refused before, "core" is always in.
NormalizePacks(packs) == packs \cup {Core}

\* SetCapabilities up to its write.
SetCapabilities(h, packs) ==
  /\ ReadWizard(h, [Idle EXCEPT !.pc = "packs", !.packs = NormalizePacks(packs)])
  /\ wizard.step < IdentityStep
  /\ UNCHANGED <<rows, provider>>

SavePacks(h) ==
  /\ At(h, "packs")
  /\ PutWizard([job[h].wizard EXCEPT !.packs = job[h].packs,
                                     !.step = CapabilitiesStep])
  /\ Finish(h)
  /\ UNCHANGED <<tenant, sources, provider, past>>

\* GenerateExternalID: 32 random bytes that nothing in the system holds.
Fresh(e) ==
  /\ (wizard # None => wizard.ext # e)
  /\ \A id \in SourceId : sources[id] # None => sources[id].ext # e
  /\ \A r \in Role : provider[r] # e
  /\ \A h \in Handler :
       /\ job[h].ext # e
       /\ (job[h].wizard # None => job[h].wizard.ext # e)
       /\ (job[h].source # None => job[h].source.ext # e)

\* Mutant: every template gets a new ExternalID.
ChooseExternalId_Fresh(row, e) == Fresh(e)

\* The first template gets a new one, the others the same.
ChooseExternalId(row, e) == IF row.ext = None THEN Fresh(e) ELSE e = row.ext

\* GenerateIaC up to its write.
GenerateIaC(h, e) ==
  /\ ReadWizard(h, [Idle EXCEPT !.pc = "iac", !.ext = e])
  /\ wizard.packs # {}
  /\ ChooseExternalId(wizard, e)
  /\ UNCHANGED <<rows, provider>>

\* GenerateIaC writes the row, then renders and publishes the template, which
\* the customer gets or, when either fails, does not.
SaveIaC(h) ==
  /\ At(h, "iac")
  /\ PutWizard([job[h].wizard EXCEPT !.ext = job[h].ext, !.step = IaCStep])
  /\ Finish(h)
  /\ UNCHANGED <<tenant, sources, provider, past>>

-----------------------------------------------------------------------------
(* Wizard, step 4 *)

\* RegisterIdentity, for the role the operator typed in.
RegisterIdentity(h, r) ==
  /\ ReadWizard(h, [Idle EXCEPT !.pc = "source", !.role = r])
  /\ wizard.ext # None
  /\ UNCHANGED <<rows, provider>>

\* SourceStore.Create under a random ID.
CreateSource(h, id) ==
  /\ At(h, "source")
  /\ sources[id] = None
  /\ sources' = [sources EXCEPT ![id] =
                   [role |-> job[h].role, ext |-> job[h].wizard.ext]]
  /\ job' = [job EXCEPT ![h].pc = "tenant", ![h].role = None]
  /\ UNCHANGED <<tenant, wizard, provider, past>>

\* TenantStore.Get of RegisterIdentity; none, and the request ends.
ReadTenant(h) ==
  /\ At(h, "tenant")
  /\ tenant # None
  /\ job' = [job EXCEPT ![h].pc = "markTenant", ![h].tenant = tenant]
  /\ UNCHANGED <<rows, provider, past>>

\* TenantStore.Update: a Get, then an unconditional Put of the caller's row.
\* The Get may have found a row that is gone by the time of the Put; when it
\* found none the request ends (Abort).
WriteTenant(row) == tenant' = row

MarkTenant(h) ==
  /\ At(h, "markTenant")
  /\ WriteTenant([job[h].tenant EXCEPT !.phase = "in_progress"])
  /\ job' = [job EXCEPT ![h].pc = "identity", ![h].tenant = None]
  /\ UNCHANGED <<wizard, sources, provider, past>>

SaveIdentity(h) ==
  /\ At(h, "identity")
  /\ PutWizard([job[h].wizard EXCEPT !.step = IdentityStep])
  /\ Finish(h)
  /\ UNCHANGED <<tenant, sources, provider, past>>

-----------------------------------------------------------------------------
(* Wizard, step 5 *)

ProbeCapabilities(h) ==
  /\ ReadWizard(h, [Idle EXCEPT !.pc = "list", !.left = wizard.packs])
  /\ wizard.step >= IdentityStep
  /\ UNCHANGED <<rows, provider>>

\* findIdentitySource: the one whose ID sorts first.
FindIdentitySource(h, id) ==
  /\ At(h, "list")
  /\ sources[id] # None
  /\ \A other \in SourceId : sources[other] # None => id <= other
  /\ job' = [job EXCEPT ![h].pc = "assume", ![h].source = sources[id]]
  /\ UNCHANGED <<rows, provider, past>>

\* AssumeForTenant: the provider cached for this tenant and role, whatever
\* ExternalID it was made with, or a new one. Nothing is called yet.
AssumeForTenant(h) ==
  /\ At(h, "assume")
  /\ LET s == job[h].source
         ext == IF provider[s.role] # None THEN provider[s.role] ELSE s.ext
     IN /\ s.role # None /\ s.ext # None
        /\ provider' = [provider EXCEPT ![s.role] = ext]
        /\ job' = [job EXCEPT ![h].pc = "simulate", ![h].ext = ext]
  /\ UNCHANGED <<rows, past>>

\* Simulate and allAllowed, one pack of the loop of ProbeCapabilities, the
\* scoped actions of core included. An AssumeRole or a simulation that fails
\* ends the request (Abort).
Simulate(h, p) ==
  /\ At(h, "simulate")
  /\ p \in job[h].left
  /\ LET left == job[h].left \ {p} IN
     job' = [job EXCEPT ![h].left = left,
                        ![h].pc = IF left = {} THEN "report" ELSE "simulate"]
  /\ UNCHANGED <<rows, provider, past>>

\* finalizeProbe puts back the row read when the probe began, with the answer.
FinalizeProbe(h) ==
  /\ At(h, "report")
  /\ PutWizard([job[h].wizard EXCEPT !.map = [packs |-> job[h].wizard.packs],
                                     !.step = ProbeStep])
  /\ Finish(h)
  /\ UNCHANGED <<tenant, sources, provider, past>>

-----------------------------------------------------------------------------
(* Wizard, step 6 *)

\* Mutant: a registered identity is enough.
ReadyToComplete_Unprobed(row) == row.step >= IdentityStep

ReadyToComplete(row) == row.step >= ProbeStep

\* Complete reads the wizard's row, then the tenant's, which does not matter
\* before the latter: the two reads are one.
Complete(h) ==
  /\ ReadWizard(h, [Idle EXCEPT !.pc = "promote"])
  /\ ReadyToComplete(wizard)
  /\ tenant # None
  /\ UNCHANGED <<rows, provider>>

\* Mutant: the error of the tenant's update is dropped.
Promote_Unchecked(h) ==
  /\ At(h, "promote")
  /\ \/ WriteTenant([phase |-> "active", map |-> job[h].wizard.map])
     \/ CallsFail /\ UNCHANGED tenant
  /\ job' = [job EXCEPT ![h] = [Idle EXCEPT !.pc = "dropWizard"]]
  /\ UNCHANGED <<wizard, sources, provider, past>>

Promote(h) ==
  /\ At(h, "promote")
  /\ WriteTenant([phase |-> "active", map |-> job[h].wizard.map])
  /\ job' = [job EXCEPT ![h] = [Idle EXCEPT !.pc = "dropWizard"]]
  /\ UNCHANGED <<wizard, sources, provider, past>>

DropWizard(h) ==
  /\ At(h, "dropWizard")
  /\ wizard' = None
  /\ Finish(h)
  /\ UNCHANGED <<tenant, sources, provider, past>>

\* The row's TTL of 7 days.
WizardExpires ==
  /\ wizard # None
  /\ wizard' = None
  /\ past' = Lapse
  /\ UNCHANGED <<tenant, sources, provider, job>>

-----------------------------------------------------------------------------
(* The tenant endpoints *)

\* POST /tenants, and EnsureTenant at startup.
PlainCreateTenant ==
  /\ tenant = None
  /\ tenant' = [phase |-> "none", map |-> None]
  /\ UNCHANGED <<wizard, sources, provider, job, past>>

\* PUT /tenants/{slug} changes other fields and puts these back as read.
UpdateTenant(h) ==
  /\ tenant # None
  /\ Begin(h, [Idle EXCEPT !.pc = "update", !.tenant = tenant])
  /\ UNCHANGED <<rows, provider>>

SaveTenant(h) ==
  /\ At(h, "update")
  /\ WriteTenant(job[h].tenant)
  /\ Finish(h)
  /\ UNCHANGED <<wizard, sources, provider, past>>

\* DELETE /tenants/{slug}: the tenant is there, it has no applications, and its
\* row is deleted. Its sources and its wizard's row stay.
DeleteTenant(h) ==
  /\ tenant # None
  /\ Begin(h, [Idle EXCEPT !.pc = "listApps"])
  /\ UNCHANGED <<rows, provider>>

\* Applications come and go (AppRegistry): there are some, or none.
ListApps(h) ==
  /\ At(h, "listApps")
  /\ Finish(h) \/ Goto(h, "dropTenant")
  /\ UNCHANGED <<rows, provider, past>>

DropTenant(h) ==
  /\ At(h, "dropTenant")
  /\ tenant' = None
  /\ Finish(h)
  /\ UNCHANGED <<wizard, sources, provider, past>>

-----------------------------------------------------------------------------
(* The identity-source endpoints *)

\* POST /identity-sources: a pool with no cross-account role.
AddSource(id) ==
  /\ tenant # None
  /\ sources[id] = None
  /\ sources' = [sources EXCEPT ![id] = [role |-> None, ext |-> None]]
  /\ UNCHANGED <<tenant, wizard, provider, job, past>>

\* DELETE /identity-sources/{id}: an ID is never used again, so the Get and the
\* Delete are one.
DeleteSource(id) ==
  /\ sources[id] # None
  /\ sources' = [sources EXCEPT ![id] = None]
  /\ UNCHANGED <<tenant, wizard, provider, job, past>>

-----------------------------------------------------------------------------
(* The instance *)

\* A new instance of the management Lambda has no cached credentials.
ColdStart ==
  /\ provider' = [r \in Role |-> None]
  /\ UNCHANGED <<rows, job, past>>

-----------------------------------------------------------------------------

HandlerStep(h) ==
  \/ CreateTenant(h) \/ InitWizard(h)
  \/ \E packs \in SUBSET Pack : SetCapabilities(h, packs)
  \/ SavePacks(h)
  \/ \E e \in ExternalId : GenerateIaC(h, e)
  \/ SaveIaC(h)
  \/ \E r \in Role : RegisterIdentity(h, r)
  \/ \E id \in SourceId : CreateSource(h, id)
  \/ ReadTenant(h) \/ MarkTenant(h) \/ SaveIdentity(h)
  \/ ProbeCapabilities(h)
  \/ \E id \in SourceId : FindIdentitySource(h, id)
  \/ AssumeForTenant(h)
  \/ \E p \in Pack : Simulate(h, p)
  \/ FinalizeProbe(h)
  \/ Complete(h) \/ Promote(h) \/ DropWizard(h)
  \/ UpdateTenant(h) \/ SaveTenant(h)
  \/ DeleteTenant(h) \/ ListApps(h) \/ DropTenant(h)
  \/ Abort(h)

Next ==
  \/ \E h \in Handler : HandlerStep(h)
  \/ PlainCreateTenant \/ WizardExpires
  \/ \E id \in SourceId : AddSource(id) \/ DeleteSource(id)
  \/ ColdStart

Spec == Init /\ [][Next]_vars

-----------------------------------------------------------------------------
(* Properties *)

\* service.go ProbeCapabilities, Complete: an active tenant's capability map is
\* the answer of a finished probe, and a wizard's row that can be completed
\* carries an answer about the packs it selects now. No interleaving of the
\* wizard's calls with each other, with a tenant update or with a deletion
\* breaks this.
ActiveTenantIsProbed ==
  /\ (tenant # None /\ tenant.phase = "active"
      => tenant.map # None /\ Core \in tenant.map.packs)
  /\ (wizard # None /\ wizard.step = ProbeStep
      => wizard.map = [packs |-> wizard.packs])

\* service.go GenerateIaC: the ExternalID a customer's trust policy is built on
\* stays for as long as the wizard's row does, unless the tenant is created
\* again or two requests have overlapped.
ExternalIdKept ==
  [][ (wizard # None /\ wizard' # None /\ wizard.ext # None
       /\ wizard'.ext # wizard.ext)
      => past = "overlap" \/ \E h \in Handler : At(h, "initWizard") ]_vars

\* service.go Complete: a tenant in the middle of the wizard, no request being
\* in flight, has the row the wizard resumes from, whatever call failed and
\* wherever. The exceptions: the row expired, its creation failed, or two
\* requests have overlapped.
WizardResumable ==
  /\ tenant # None /\ tenant.phase \in {"pending", "in_progress"}
  /\ \A h \in Handler : At(h, "idle")
  /\ past = "serial"
  => wizard # None

================================================================================
