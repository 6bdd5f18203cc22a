SPECIFICATION ScenarioSpec
CONSTANTS
  h1 = h1
  h2 = h2
  k1 = k1
  k2 = k2
  q1 = q1
  q2 = q2
  r1 = r1
  r2 = r2
  Handlers = {h1, h2}
  OneProcess = TRUE
  Keys = {k1, k2}
  Quotes = {q1, q2}
  Recipients = {r1, r2}
  Currencies = {"USD", "CAD"}
  Rates = {5, 7}
  RateScale = 2
  UsdRate = 6
  Amounts = {3}
  FeePercent = 40
  MinimumFee = 1
  ProviderFee = 1
  SendLimit = 4
  QuoteTtl = 1
  Day = 1
  Week = 2
  DailyLimit = 5
  WeeklyLimit = 6
  ReviewAmount = 3
  MaxTransfers = 1
  MaxRecipients = 1
  Horizon = 2
  MaxFaults = 1
  c1 = c1
  s1 = s1
  Requests = {c1}
  Deliveries = {h1, h2}
  Withdraws = TRUE
  Crashes = TRUE
  MaxLosses = 1
  Sources = {s1}
  Operations = {"add", "initiate", "verify", "default", "remove", "list", "fund"}
  Topics = {"added", "verified", "removed", "maxattempts"}
  MaxGuesses = 4
  Callers = {h1, h2}
  MaxPasswords = 2
  LastLapse = 1
  MaxFailures = 2
  LockTtl = 1
  ResetTtl = 1
  SessionTtl = 1
  Tokens = {"t1", "t2", "t3"}
  Links = {"l1", "l2"}
CONSTRAINT RevivedWithoutFaults
SYMMETRY Interchangeable
INVARIANTS OneTransferEach TransferLimitsHold VerificationIsEarned AccessIsTakenOnce
PROPERTIES OwnTransferIsReplayed
CHECK_DEADLOCK FALSE
