SPECIFICATION Spec
CONSTANTS
  h1 = h1
  h2 = h2
  bad = bad
  upper = upper
  good = good
  forged = forged
  rec = rec
  NoToken = NoToken
  NoClaims = NoClaims
  NoHeader = NoHeader
  NoReply = NoReply
  Infinite = Infinite
  NoExit = NoExit
  Pending = Pending
  Failed = Failed
  MaxBatch = 2
  MaxRetries = 3
  WellFormed <- MCWellFormed
  Lowered <- MCLowered
  Requested <- MCRequested
  Payload <- MCPayload
  Replies <- MCReplies
INVARIANTS
  ResultsLineUp
  FailureIsNotAbsence
  VerifiedWasSigned
  AnswersAreKept
  RequestBudget
  PatientRetry
PROPERTIES
  ImplementsHashLookup
  CallEnds
CHECK_DEADLOCK FALSE
