\* The same library with one candidate: whatever resyncs, failures and changes
\* come, the syncs go on.
SPECIFICATION FairSpec
CONSTANTS
  t1 = t1
  t2 = t2
  f1 = f1
  f2 = f2
  g1 = g1
  Title = {t1, t2}
  File = {f1, f2, g1}
  TitleOf <- MCTitleOf
  ContentOf <- MCContentOf
  Pathless = {}
  CandidateId = {c1}
  RequestId = {1}
  MinLibrary = 2
  MaxEvents = 3
PROPERTIES WaitingEnds
