SPECIFICATION Spec
CONSTANTS
  t1 = t1
  t2 = t2
  Main = Main
  Pool <- MCPool
  Builders <- MCBuilders
  Asks <- MCAsks
  Garbage <- MCGarbage
  Fastest = 32
  FirstId = 3
  Garbled = Garbled
  Saved = 1
  MaxReqs = 3
  LastSecond = 4
SYMMETRY PoolSymmetry
INVARIANTS TypeOK AnsweredAsAsked UndisturbedIdsGrow RecordsClipped
\* Every request of the instance has been served.
CHECK_DEADLOCK FALSE
