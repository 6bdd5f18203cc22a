------------------------ MODULE MCRecurringRecharge ------------------------
(* Small instances of RecurringRecharge for TLC.                           *)
EXTENDS RecurringRecharge, TLC

\* Workers are interchangeable, and so are customer requests.
InterchangeableActors == Permutations(Workers) \union Permutations(Requests)

CancelsRow ==
  \/ \E r \in Requests : request[r].at \in {"claimRow", "cancelRow"}
  \/ \E o \in Occurrence : tx[o].cancelled

\* Bound of the run under fairness: a recharge is cancelled, and an account
\* deleted, while every call is answered, and answered at once.
AnsweredWhileLeaving ==
  CancelsRow \/ customer # "ACTIVE" =>
    faults = 0 /\ \A o \in Occurrence : stripe[o].answer # "processing"

\* Recharges are refused to a customer who stays, before any fault and in the
\* first interval that is due.
RefusedEarly ==
  refusal # "none" => /\ customer = "ACTIVE" /\ ~CancelsRow /\ faults = 0
                      /\ now < 2 * Interval

OneTroubleAtATime == AnsweredWhileLeaving /\ RefusedEarly
=============================================================================
