SPECIFICATION Spec
CONSTANTS
  t1 = t1
  t2 = t2
  c1 = c1
  c2 = c2
  Tenant = {t1}
  Client = {c1}
  Subject = {u1}
  Token = {r1, r2, r3, r4}
  Handler = {h1, h2}
  TenantOf <- MCTenantOf
  Fault = {"putIndex"}
  NoToken = NoToken
  NoRow = NoRow
  MaxMishaps = 1
  MaxDangling = 1
CHECK_DEADLOCK FALSE
SYMMETRY Symmetry
CONSTRAINT Bound
CONSTRAINT LossesOnly
ACTION_CONSTRAINT NoRevoke
INVARIANT IndexCoversTokens
INVARIANT RotationRetiresParent
INVARIANT LogoutRevokes
