CONSTANTS
  acme = acme  beta = beta  portal = portal
  s1 = s1  s2 = s2  s3 = s3  q1 = q1  q2 = q2  h1 = h1  h2 = h2
  Tenant = {acme, beta}
  CustomLogin <- MCCustomLogin
  Session = {s1, s2}
  Request = {q1, q2}
  Logout = {}
  Flow = {f1}
  Anonymous = {q2}
  Duration = {1}
  MarkerTTL = 2
  AuthnTTL = 1
  RequestWindow = 1
  MaxAge = 1
  Skew = 1
  FlowTTL = 1
  Ahead = 1
  Timeout = 1
  Horizon = 3
  Fault = {"get", "claim", "pending", "delete", "crash"}
  Entity = {portal}
  Handler = {h1, h2}
  None = None
SPECIFICATION Spec
CONSTRAINT TwoRequests
SYMMETRY Symmetry
INVARIANTS LoginOnce AssertionsBound
CHECK_DEADLOCK FALSE
