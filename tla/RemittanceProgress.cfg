SPECIFICATION FairSpec
CONSTANTS
  h1 = h1
  h2 = h2
  Handlers = {h1, h2}
  Operations = {"fund", "refresh"}
  Screenings = {"REVIEW"}
  Topics = {"completed", "failed"}
  Risky = FALSE
  AutoClear = FALSE
  Instant = FALSE
  Crashes = TRUE
  MaxFaults = 1
PROPERTIES FundingProgresses
CHECK_DEADLOCK FALSE
