SPECIFICATION Spec
CONSTANTS
  Serial = {s1, s2, s3}
  Life = 4
  Window = 2
  Delay = 1
  BackupKey = "backup"
  Process = {p1}
  CallsFail = FALSE
  None = None
SYMMETRY Symmetry
PROPERTIES DocumentHasActive
