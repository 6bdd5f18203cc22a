SPECIFICATION FairSpec
CONSTRAINT SavedAgainWithoutFaults
CONSTANTS
  h1 = h1
  h2 = h2
  Handlers = {h1, h2}
  Operations = {"session", "refresh", "submit", "review"}
  Decisions = {"in review", "approved", "other"}
  Reviews = {"DECLINED"}
  MaxSessions = 1
  MaxSaves = 2
  MaxEvents = 2
  Horizon = 2
  Crashes = TRUE
  MaxFaults = 1
INVARIANTS StatusFollowsDidit
PROPERTY EventsAreHandled
CHECK_DEADLOCK FALSE
