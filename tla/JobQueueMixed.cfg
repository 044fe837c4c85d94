\* File work, a task and house keeping compete and trim each other's rows; a
\* crash in between.
SPECIFICATION Spec
CONSTANTS
  Command <- MixedCommands
  Worker = {w1, w2}
  KeepRecent = 1
  MaxJobs = 3
  MaxTime = 0
  MaxCrashes = 1
  MaxPollErrors = 0
  MaxLostWrites = 0
SYMMETRY Symmetry
INVARIANTS
  ResourcesExclusive
  ExecutorsExclusive
  OrphansAreOver
PROPERTIES
  FinalStatusKept
  ImplementsPool
