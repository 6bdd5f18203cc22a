CONSTANTS
  r1 = r1
  r2 = r2
  w1 = w1
  Requests = {r1, r2}
  Workers = {w1}
  FlupFlap = TRUE
  Live = TRUE
  AutoRefunds = TRUE
  Kinds = {"review", "cancel", "adminCancel"}
  MaxFaults = 1
SPECIFICATION Spec
CONSTRAINT OneTroubleAtATime
SYMMETRY Interchangeable
INVARIANTS
  AtMostOneSubmission
  RefundExcludesAirtime
  RefundedOnlyWhenConfirmed
  CancelledIsNeverCharged
  RowAndStripeAgree
PROPERTIES
  PaymentOnlyMovesForward
CHECK_DEADLOCK FALSE
