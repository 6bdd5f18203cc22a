SPECIFICATION ScenarioSpec
CONSTANTS
  r1 = r1
  r2 = r2
  c1 = c1
  c2 = c2
  p1 = p1
  p2 = p2
  q1 = q1
  q2 = q2
  q3 = q3
  k1 = k1
  k2 = k2
  Requests = {r1, r2}
  Customers = {c1, c2}
  Phones = {p1, p2}
  Quotes = {q1, q2, q3}
  Keys = {k1, k2}
  Cards = {"visa"}
  Linked <- OneDevice
  Totals = {1, 2}
  Day = 2
  PerHour = 1
  PerDay = 2
  DayTotal = 3
  Failures = 1
  MaxCards = 1
  Horizon = 2
  MaxDeclines = 1
  MaxFaults = 1
  Callers = {r1, r2}
  Providers = {"RELOADLY", "DTONE", "DING"}
  RawIds = {699999999}
CONSTRAINTS CrowdedGoesWell FailingHasOneTrouble LastIsMadeLast
SYMMETRY Interchangeable
INVARIANTS PurchaseLimitsHold QuoteBuysOneRow AdaptersAreSound
CHECK_DEADLOCK FALSE
