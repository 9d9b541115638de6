SPECIFICATION FairSignSpec
CONSTANTS
  MaxFaults = 2
  MaxReplies = 2
  MaxRequests = 2
INVARIANTS SignTypeOK RequestsOnceInOrder RepliesNotLost
PROPERTIES ListensAgain HeartbeatsArrive
\* The public Consumer waits without a timeout when the platform is silent.
CHECK_DEADLOCK FALSE
