SPECIFICATION FairSpec
CONSTRAINT OneTroubleAtATime
CONSTANTS
  Workers = {w1}
  w1 = w1
  r1 = r1
  Requests = {r1}
  Interval = 2
  Unrepeatable = FALSE
  Refusals = {"quote", "limits", "restricted"}
  TermsMayChange = TRUE
  StripeForgets = FALSE
  Deletable = TRUE
  Answers = {"processing", "succeeded", "failed"}
  Changes = {"CANCEL_ROW"}
  MaxChanges = 1
  Horizon = 6
  MaxQuotes = 4
  MaxFaults = 1
INVARIANT RhythmIsKept
PROPERTIES ChargedIsCaptured DueIsChargedOrPaused DeletionCompletes
CHECK_DEADLOCK FALSE
