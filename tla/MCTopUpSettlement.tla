------------------------- MODULE MCTopUpSettlement -------------------------
(* Small instances of TopUpSettlement for TLC.                             *)
EXTENDS TopUpSettlement, TLC

\* Concurrent requests are interchangeable, and so are workers.
Interchangeable == Permutations(Requests) \union Permutations(Workers)

\* What staff and the customer do about a recharge, and what is left of it.
Attended ==
  \/ \E h \in Handlers : proc[h].role \in {"review", "cancel", "adminCancel"}
  \/ assessment = "reviewed" \/ rec.failure = "CANCELLED"

\* Bound of the races: reviews and cancellations without faults, and faults
\* without them.
OneTroubleAtATime == Attended => faults = 0
=============================================================================
