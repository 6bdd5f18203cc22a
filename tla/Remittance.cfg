SPECIFICATION Spec
CONSTANTS
  h1 = h1
  h2 = h2
  Handlers = {h1, h2}
  Operations = {"fund", "refresh", "cancel", "review", "reverse", "status", "restrict", "suspend"}
  Screenings = {"CLEAR", "REVIEW", "BLOCKED"}
  Topics = {"completed", "failed"}
  Risky = FALSE
  AutoClear = FALSE
  Instant = FALSE
  Crashes = TRUE
  MaxFaults = 1
SYMMETRY Interchangeable
INVARIANTS DebitedOnce StatusIsBooked PayoutIsGated
PROPERTIES KeepsEscrow
CHECK_DEADLOCK FALSE
