SPECIFICATION ScenarioSpec
CONSTANTS
  h1 = h1
  h2 = h2
  t1 = t1
  t2 = t2
  c1 = c1
  c2 = c2
  v1 = v1
  v2 = v2
  q1 = q1
  q2 = q2
  s1 = s1
  s2 = s2
  m1 = m1
  w1 = w1
  w2 = w2
  Handlers = {h1, h2}
  Sales = {t1, t2}
  Deposits = {"d1"}
  Returns = {"a"}
  Amount = 1500
  Principal = 1000
  Fee = 170
  Rates = {2000}
  MaxFaults = 1
  Customers = {c1, c2}
  Visits = {v1}
  Quotes = {q1, q2}
  CampaignFee = 150
  CampaignRules <- Campaigns
  Senders = {s1, s2}
  Messages = {m1}
  MaxSends = 3
  MaxLosses = 2
  Requests = {h1, h2}
  MaxLogins = 2
  MaxResets = 1
  MaxCodes = 2
  Horizon = 2
  MaxStops = 1
  Phones = {1, 2}
  SessionTtl = 2
  ResetTtl = 1
  CodeTtl = 1
  LockTtl = 1
  Hour = 1
  MaxFailures = 1
  AttemptsPerCode = 2
  CodesPerHour = 3
  GuessesPerHour = 2
  Accounts = {c1, c2}
  Writers = {w1, w2}
  MaxBackups = 1
  MaxExports = 2
SYMMETRY Interchangeable
INVARIANTS StoreSalesAreSound PromotionsAreSound MessageSentOnce SignInIsSound
PROPERTIES DeletedStayDeleted
CHECK_DEADLOCK FALSE
