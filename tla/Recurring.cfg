SPECIFICATION Spec
CONSTANTS
  Workers = {w1, w2}
  Requests = {r1}
  w1 = w1
  w2 = w2
  r1 = r1
  Interval = 2
  Unrepeatable = FALSE
  Refusals = {}
  TermsMayChange = TRUE
  StripeForgets = FALSE
  Deletable = TRUE
  Answers = {"succeeded", "failed"}
  Changes = {"PAUSE", "RESUME", "CANCEL", "ENABLE"}
  MaxChanges = 1
  Horizon = 4
  MaxQuotes = 3
  MaxFaults = 1
SYMMETRY InterchangeableActors
INVARIANTS ChargedOnce ErasedOnlyWhenSettled
CHECK_DEADLOCK FALSE
