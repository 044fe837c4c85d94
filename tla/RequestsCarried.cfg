\* One reviewer at a time: approvals, retries, manual deletions, a crash.
\* Requests, candidates and retries run out.
SPECIFICATION RequestsSpec
CHECK_DEADLOCK FALSE
CONSTANTS
  Request = {r1, r2}
  Title = {t1}
  TitleOf <- SameTitle
  Handler = {h1}
  MaxCandidates = 2
  MaxDeletes = 1
  MaxRetries = 1
  MaxProtections = 1
  MaxCrashes = 1
  MaxEnqueueErrors = 1
INVARIANTS
  RequestsTypeOK
  ApprovedIsCarried
