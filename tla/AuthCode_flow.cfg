\* One request, two concurrent handlers, two browsers, a custom login page.
CONSTANTS
  Request = {q1}
  Code = {c1, c2}
  Flow = {f1}
  Browser = {b1, b2}
  Client = {hosted, custom}
  Custom = {custom}
  Source = {s1, s2}
  Subject = {u1}
  Handler = {h1, h2}
  Fault = {"dropPending", "dropCode", "dropRequest", "crash"}
  MaxBegun = 2
  None = None
SPECIFICATION Spec
CHECK_DEADLOCK FALSE
SYMMETRY Symmetry
INVARIANT GrantIsAuthenticated
INVARIANT LoginBoundToBrowser
INVARIANT SingleUse
PROPERTY CompletionNotLost
PROPERTY ForeignPostConsumesNothing
