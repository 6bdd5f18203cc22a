CONSTANTS
  Requests = {r1}
  Workers = {w1}
  FlupFlap = TRUE
  Live = TRUE
  AutoRefunds = TRUE
  Kinds = {"poll"}
  MaxFaults = 1
SPECIFICATION FairSpec
INVARIANTS
  PollMovesNothing
PROPERTIES
  HeldIsResolved
CHECK_DEADLOCK FALSE
