SPECIFICATION Spec
CONSTANTS
  Handlers = {h1, h2}
  Keys = {k1}
  Sessions = {s1, s2}
  None = None
INVARIANT OncloseReclaims
