SPECIFICATION Spec
CONSTANTS
  Kid = {k1, k2}
  Tenant = {t1, t2}
  DefaultTenant = t1
  TTL = 1
  MaxRetired = 3
  Visitor = t2
  Token <- SomeTokens
  EdgeSecret = "token"
  Request = {r1, r2}
  CallsFail = TRUE
  None = None
SYMMETRY Symmetry
PROPERTIES ServedIsEntitled RetiredKeyRefused
