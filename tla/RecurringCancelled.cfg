SPECIFICATION Spec
CONSTANTS
  Workers = {w1}
  Requests = {r1}
  w1 = w1
  r1 = r1
  Interval = 2
  Unrepeatable = FALSE
  Refusals = {}
  TermsMayChange = TRUE
  StripeForgets = FALSE
  Deletable = FALSE
  Answers = {"processing", "succeeded", "failed"}
  Changes = {"CANCEL_ROW"}
  MaxChanges = 1
  Horizon = 2
  MaxQuotes = 2
  MaxFaults = 0
INVARIANT CancelledIsNotCharged
CHECK_DEADLOCK FALSE
