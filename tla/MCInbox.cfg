SPECIFICATION FairSpec
CONSTANTS
  Producers <- MCProducers
  Messages <- MCMessages
  MaxInserts = 4
INVARIANTS TypeOK EventCoversMessages
PROPERTIES ImplementsFifo
\* The handler sleeps once the MaxInserts requests are handled.
CHECK_DEADLOCK FALSE
