CONSTANTS
  App = {a1, a2}
  Entity = {e1, e2}
  Blank = Blank
  Admin = {h1, h2}
  Fault = {"put", "delete", "crash"}
  None = None
SPECIFICATION Spec
CONSTRAINT Apart
SYMMETRY Symmetry
INVARIANTS EntityIDsUnique ConfigsAgree NoOrphans
PROPERTIES StatusOnPurpose ImplementsDirectory
CHECK_DEADLOCK FALSE
