\* Two handlers at once: reviewers, the owner who cancels, retries, manual
\* deletions, a crash; no protection takes a candidate away.
\* Requests, candidates and retries run out.
SPECIFICATION RequestsFairSpec
CHECK_DEADLOCK FALSE
CONSTANTS
  Request = {r1}
  Title = {t1}
  TitleOf <- SameTitle
  Handler = {h1, h2}
  MaxCandidates = 2
  MaxDeletes = 1
  MaxRetries = 1
  MaxProtections = 0
  MaxCrashes = 1
  MaxEnqueueErrors = 1
INVARIANTS
  OutcomeConsistent
PROPERTIES
  ApprovedResolves
