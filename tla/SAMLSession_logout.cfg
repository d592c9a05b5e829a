CONSTANTS
  acme = acme  beta = beta  portal = portal
  s1 = s1  s2 = s2  s3 = s3  q1 = q1  q2 = q2  h1 = h1  h2 = h2
  Tenant = {acme}
  CustomLogin = {}
  Session = {s1}
  Request = {q1}
  Logout = {l1, l2}
  Flow = {}
  Duration = {1, 3}
  MarkerTTL = 2
  AuthnTTL = 1
  RequestWindow = 3
  MaxAge = 0
  Skew = 1
  FlowTTL = 1
  Ahead = 1
  Timeout = 1
  Anonymous = {l2}
  Horizon = 3
  Fault = {"get", "revoke"}
  Entity = {portal}
  Handler = {h1, h2}
  None = None
SPECIFICATION Spec
CONSTRAINT LoginsInTime
SYMMETRY Symmetry
INVARIANTS RevokedStaysOut LogoutOnce
CHECK_DEADLOCK FALSE
