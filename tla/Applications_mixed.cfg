SPECIFICATION AppSpec
CONSTANTS
  None = None
  one = one  two = two
  User <- MCUser
  Bare <- MCBare
  Scopes <- MCScopes
  ClaimPut <- MCClaimPut
  RolePut <- MCRolePut
  Edit <- MCEdit
  Metadata <- MCMetadata
  Legacy <- MCLegacy
  Short <- MCShort
  Page = {"portal", "elsewhere"}
  Trusted = {"portal"}
  Query <- MCQuery
  Self = "sp"
  Endpoint = "here"
  KeyOf <- MCKeyOf
  MinLife = 1
  ApiLife = 2
  DefaultLife = 3
  MaxLife = 4
  Putter = {p1, p2}
  Reader = {r1}
  Editor = {e1}
  MappingFault = {"delete", "put", "claims", "roles", "crash"}
  ConfigFault = {"previous", "config", "participants"}
  Method = {"client_secret_basic", "CLIENT_SECRET_POST", "none", None}
  Confidential = {"client_secret_basic", "CLIENT_SECRET_POST"}
  Admin = {x1, x2}
  Issuer = {t1, t2}
  Owner = t1
  MaxSecret = 3
  ClientFault = {"previous", "check", "put", "lost", "answer"}
INVARIANTS ReleaseFollowsPut EvaluatorsAgree SubjectIsOneUser AssertsCaller
INVARIANTS DisabledIssuesNothing EncryptionKept RetiredSecretRefused SecretKept LogoutIsSigned
CONSTRAINT Scope
CHECK_DEADLOCK FALSE
