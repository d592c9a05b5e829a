\* Two requests in flight, two packs, one role, two secrets; OneChange says what
\* is explored with the optional pack.
CONSTANTS
  Core = core
  Pack = {core, k2}
  ExternalId = {e1, e2}
  Role = {r1}
  MaxSources = 1
  Handler = {h1, h2}
  CallsFail = TRUE
  None = None
SPECIFICATION Spec
SYMMETRY Symmetry
INVARIANT ActiveTenantIsProbed
INVARIANT WizardResumable
PROPERTY ExternalIdKept
CONSTRAINT OneChange
