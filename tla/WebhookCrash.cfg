\* Two events to one endpoint that fail, are retried by hand and removed, a
\* crash and an enqueue that raises.
\* With every endpoint removed there is nothing left to do.
SPECIFICATION FairSpec
CHECK_DEADLOCK FALSE
CONSTANTS
  Event <- TwoEvents
  Endpoint = {1}
  MaxAttempts = 2
  MaxTime = 1
  MaxCrashes = 1
  MaxEnqueueErrors = 1
  MaxRetries = 1
INVARIANTS
  TypeOK
  
PROPERTIES
  DeliveredIsFinal
  
