SPECIFICATION Spec
CONSTANTS
  Workers = {w1}
  MaxReqs = 3
  d1 = d1
  d2 = d2
  k1 = k1
  k2 = k2
  Devs = {d1, d2}
  Keys = {k1, k2}
  KeyOf <- MCKeyOf
  Chans <- MCChans
  Known = {d1, d2}
  Asks <- MCPtzAsks
  Garbage <- MCGarbage
  None = None
  Uninit = Uninit
PROPERTY StopEndsFocus
CHECK_DEADLOCK FALSE
