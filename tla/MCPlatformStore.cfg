SPECIFICATION Spec
CONSTANTS
  Handlers = {h1, h2}
  Ids = {d1, d2}
  MaxCrashes = 2
  None = None
SYMMETRY Symmetry
INVARIANTS TypeOK FileMatchesList AnsweredDeletesPersist 
\* A torn file ends the program at its next start.
CHECK_DEADLOCK FALSE
