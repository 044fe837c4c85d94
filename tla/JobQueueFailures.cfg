\* Deliveries of which some are due later, a task that may be switched off, a
\* crash, a failing poll and a lost write.
SPECIFICATION FairSpec
CONSTANTS
  Command <- WebhookCommands
  Worker = {w1, w2}
  KeepRecent = 1
  MaxJobs = 2
  MaxTime = 1
  MaxCrashes = 1
  MaxPollErrors = 1
  MaxLostWrites = 1
INVARIANTS
  NoDuplicates
  StartedAtMostOnce
PROPERTIES
  
  EveryJobEnds
