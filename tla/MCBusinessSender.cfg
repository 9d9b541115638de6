SPECIFICATION FairSpec
CONSTANTS
  MaxMsgs = 2
  MaxConns = 3
INVARIANTS TypeOK ConfirmsItsOwn ReceivedInOrder NeverUsesDestroyed
PROPERTY EveryResponseTried
\* Nothing is left to do once the MaxMsgs responses are handled; a crash ends all.
CHECK_DEADLOCK FALSE
