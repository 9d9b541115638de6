SPECIFICATION FairSpec
CONSTANTS
  Workers <- MCWorkers
  Callers <- MCCallers
  Tasks <- MCTasks
INVARIANTS TypeOK PermitsMatchTasks WorkersStay
PROPERTIES ImplementsTaskPool EveryTaskFinishes
\* The idle pool waits for tasks, and MCTasks bounds how many there are.
CHECK_DEADLOCK FALSE
