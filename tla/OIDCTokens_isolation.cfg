SPECIFICATION Spec
CONSTANTS
  t1 = t1
  t2 = t2
  c1 = c1
  c2 = c2
  Tenant = {t1, t2}
  Client = {c1, c2}
  Subject = {u1}
  Token = {r1, r2}
  Handler = {h1, h2}
  TenantOf <- MCTenantOf
  Fault = {"putToken", "delete", "query", "getApp", "getToken", "crash"}
  NoToken = NoToken
  NoRow = NoRow
  MaxMishaps = 1
  MaxDangling = 1
CHECK_DEADLOCK FALSE
SYMMETRY Symmetry
CONSTRAINT Bound
INVARIANT IndexFaithful
PROPERTY RemovalsAreOwn
