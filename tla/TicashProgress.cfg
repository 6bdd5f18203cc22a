CONSTANTS
  Requests = {r1}
  Workers = {w1}
  FlupFlap = FALSE
  Live = TRUE
  AutoRefunds = FALSE
  Kinds = {"poll", "cancel"}
  MaxFaults = 1
SPECIFICATION FairSpec
INVARIANTS
  LedgerFollowsAirtime
PROPERTIES
  PaidIsCaptured
  RefundIsConfirmed
  UnknownSubmissionIsFound
CHECK_DEADLOCK FALSE
