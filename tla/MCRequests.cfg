SPECIFICATION FairSpec
CONSTANTS
  Workers = {w1, w2}
  MaxReqs = 3
  d1 = d1
  d2 = d2
  k1 = k1
  k2 = k2
  Devs = {d1, d2}
  Keys = {k1, k2}
  KeyOf <- MCKeyOf
  Chans <- MCChans
  Known = {d1}
  Asks <- MCAsks
  Garbage <- MCGarbage
  None = None
  Uninit = Uninit
INVARIANTS TypeOK LoggedInOnce RightRecorder 
PROPERTY ImplementsRequestDesk
\* Nothing is left to do once all requests are handled.
CHECK_DEADLOCK FALSE
