----------------------- MODULE TopUpSettlementProofs -----------------------
(***************************************************************************)
(* Proofs about TopUpSettlement, for every set of handlers, every          *)
(* configuration and every number of faults.  The first half shows that    *)
(* every step keeps IInv (the claims, the airtime and the refund); the     *)
(* second, with its help, that every step keeps PaymentInv (the payment).  *)
(***************************************************************************)
EXTENDS TopUpSettlement, TLAPS

---------------------------------------------------------------------------
(* What the operators that move a handler return.                          *)

LEMMA IdleIsLocal == Idle \in Local /\ Idle.at = "idle"
BY DEF Idle, Local, Label, Role, Events, PaidEvents, FailureEvents, Found, AirtimeState, PaymentStatus

LEMMA LocalUpdate ==
  ASSUME NEW l \in Local, NEW label \in Label
  PROVE  /\ [l EXCEPT !.at = label, !.fresh = label \in Comparing] \in Local
         /\ [l EXCEPT !.at = label, !.fresh = label \in Comparing].at = label
         /\ [l EXCEPT !.at = label, !.fresh = label \in Comparing].found = l.found
         /\ [l EXCEPT !.at = label, !.fresh = label \in Comparing].role = l.role
         /\ [l EXCEPT !.at = label, !.fresh = label \in Comparing].event = l.event
<1>1. (label \in Comparing) \in BOOLEAN
  OBVIOUS
<1>2. \A b \in BOOLEAN : [l EXCEPT !.at = label, !.fresh = b] \in Local
  BY DEF Local
<1>3. [l EXCEPT !.at = label, !.fresh = label \in Comparing] \in Local
  BY ONLY <1>1, <1>2, Zenon
<1> QED BY <1>3 DEF Local

\* A step of h keeps h's role, and what it found.
LEMMA AtFacts ==
  ASSUME TypeOK, NEW h \in Handlers, NEW label \in Label
  PROVE  /\ At(h, label) \in Local
         /\ At(h, label).at = label
         /\ At(h, label).found = proc[h].found
         /\ At(h, label).role = proc[h].role
         /\ At(h, label).event = proc[h].event
<1>1. proc[h] \in Local
  BY DEF TypeOK
<1> QED BY <1>1, LocalUpdate DEF At

LEMMA ReadingFacts ==
  ASSUME TypeOK, NEW h \in Handlers, NEW label \in Label, NEW what \in Found
  PROVE  /\ Reading(h, label, what) \in Local
         /\ Reading(h, label, what).at = label
         /\ Reading(h, label, what).found = what
         /\ Reading(h, label, what).role = proc[h].role
         /\ Reading(h, label, what).event = proc[h].event
<1>1. /\ At(h, label) \in Local /\ At(h, label).at = label
      /\ At(h, label).role = proc[h].role /\ At(h, label).event = proc[h].event
  BY AtFacts
<1> QED BY <1>1 DEF Reading, Local

LEMMA StartedFacts ==
  ASSUME NEW role \in Role, NEW label \in Label
  PROVE  /\ Started(role, label) \in Local
         /\ Started(role, label).at = label
         /\ Started(role, label).role = role
<1>1. [Idle EXCEPT !.role = role] \in Local
  BY IdleIsLocal DEF Local
<1>2. Started(role, label) =
        [[Idle EXCEPT !.role = role] EXCEPT !.at = label, !.fresh = label \in Comparing]
  BY IdleIsLocal DEF Started, Local, Idle
<1>3. Started(role, label) \in Local
  BY <1>1, <1>2, LocalUpdate
<1>4. Started(role, label).at = label /\ Started(role, label).role = role
  BY DEF Started, Idle
<1> QED BY <1>3, <1>4

\* A handler that returns to its caller has nothing left but to finish.
LEMMA ReturnedFacts ==
  ASSUME TypeOK, NEW h \in Handlers
  PROVE  /\ Returned(h) \in Local
         /\ \/ Returned(h) = Idle
            \/ /\ Returned(h).at = "complete" /\ proc[h].role = "webhook"
               /\ Returned(h).event = proc[h].event
            \/ /\ Returned(h).at = "defer" /\ Returned(h).role # "webhook"
<1>1. "complete" \in Label /\ "defer" \in Label /\ "none" \in Found
  BY DEF Label, Found, AirtimeState
<1>2. /\ Reading(h, "complete", "none") \in Local
      /\ Reading(h, "complete", "none").at = "complete"
      /\ Reading(h, "complete", "none").event = proc[h].event
  BY <1>1, ReadingFacts
<1>3. /\ Reading(h, "defer", "none") \in Local
      /\ Reading(h, "defer", "none").at = "defer"
      /\ Reading(h, "defer", "none").role = proc[h].role
  BY <1>1, ReadingFacts
<1> QED BY <1>2, <1>3, IdleIsLocal DEF Returned

\* Moving h, with or without a write of the row, leaves the others where they are.
LEMMA MoveFacts ==
  ASSUME TypeOK, NEW h \in Handlers, NEW next \in Local, Move(h, next)
  PROVE  /\ rec' = rec
         /\ proc' \in [Handlers -> Local]
         /\ proc'[h] = next
         /\ \A g \in Handlers \ {h} : proc'[g] = proc[g]
BY DEF TypeOK, Move

LEMMA SaveFacts ==
  ASSUME TypeOK, NEW h \in Handlers, NEW row \in Row, NEW next \in Local, Save(h, row, next)
  PROVE  /\ rec' = row /\ rec' \in Row
         /\ proc' \in [Handlers -> Local]
         /\ proc'[h] = next
         /\ \A g \in Handlers \ {h} :
              /\ proc'[g].at = proc[g].at /\ proc'[g].found = proc[g].found
              /\ proc'[g].role = proc[g].role /\ proc'[g].event = proc[g].event
<1>1. \A g \in Handlers : [proc[g] EXCEPT !.fresh = FALSE] \in Local
  BY DEF TypeOK, Local
<1>2. \A g \in Handlers : /\ [proc[g] EXCEPT !.fresh = FALSE].at = proc[g].at
                          /\ [proc[g] EXCEPT !.fresh = FALSE].found = proc[g].found
                          /\ [proc[g] EXCEPT !.fresh = FALSE].role = proc[g].role
                          /\ [proc[g] EXCEPT !.fresh = FALSE].event = proc[g].event
  BY DEF TypeOK, Local
<1>3. rec' = row /\ proc' = [g \in Handlers |->
                IF g = h THEN next ELSE [proc[g] EXCEPT !.fresh = FALSE]]
  BY DEF Save
<1> QED BY <1>1, <1>2, <1>3

LEMMA RefreshStepFacts ==
  ASSUME NEW r, NEW external
  PROVE  RefreshStep(r, external) \in
           {"evidence", "defer", "readCheckout", "queryRefund", "readTopUp", "findTopUp"}
BY DEF RefreshStep

---------------------------------------------------------------------------
(* Type correctness.                                                       *)

OutsideOK ==
  /\ assessment \in {"none", "held", "reviewed"}
  /\ ledger \subseteq {"delivered", "refunded"}
  /\ processed \subseteq Events /\ emitted \subseteq Events
  /\ stripe \in StripeState
  /\ airtime \in AirtimeState
  /\ submissions \in Nat /\ faults \in Nat

LEMMA OutsideUnchanged == TypeOK /\ UNCHANGED outside => OutsideOK'
BY DEF TypeOK, outside, OutsideOK

---------------------------------------------------------------------------
(* The invariant is kept by every step that only moves a handler and       *)
(* writes the row, if what it writes and where it moves fit.               *)

IInv == TypeOK /\ SettlementInv

EventLabels == {"blockRetries", "transition", "complete"}

Critical == {"submit", "recordRejected", "claimRecovery", "readTopUp", "apply",
             "postLedger", "readPayment", "markRefund", "refund", "refundAgain",
             "confirmRefund"}

\* What the invariant asks of a handler in local state l beside the row.
Fits(l, row) ==
  /\ l.at # "submit"
  /\ l.at \in {"readTopUp", "apply", "postLedger"} => airtime # "none"
  /\ l.at \in {"apply", "postLedger"} =>
       /\ l.found \in Accepted
       /\ l.found \in {"FAILED", "REFUNDED"} => airtime = l.found
  /\ l.at \in {"recordRejected", "claimRecovery"} =>
       row.fulfillmentStarted /\ NoAirtime /\ NobodySubmits
  /\ l.at \in {"readPayment", "markRefund", "refund", "refundAgain"} => row.recoveryStarted
  /\ l.at = "confirmRefund" => stripe.refund = "succeeded"
  /\ l.role = "webhook" \/ l.at \in EventLabels => l.event \in Events

\* What it asks of a row that takes the place of rec.
RowFits(row) ==
  /\ row.fulfillmentStarted = rec.fulfillmentStarted
  /\ row.providerRef => airtime # "none"
  /\ rec.recoveryStarted => row.recoveryStarted
  /\ row.recoveryStarted => NoAirtime /\ NobodySubmits
  /\ row.payment \in {"REFUND_PENDING", "REFUNDED"} => row.recoveryStarted
  /\ row.payment = "REFUNDED" => stripe.refund = "succeeded"

\* Nothing moves at the airtime provider, and no refund at Stripe.
Quiet ==
  /\ OutsideOK'
  /\ airtime' = airtime /\ submissions' = submissions
  /\ stripe'.refund = stripe.refund

LEMMA OutsideQuiet == TypeOK /\ UNCHANGED outside => Quiet
BY DEF TypeOK, outside, OutsideOK, Quiet

LEMMA CurrentRowFits == IInv => rec \in Row /\ RowFits(rec)
BY DEF IInv, TypeOK, SettlementInv, RowFits, OneClaimant, ResultIsGenuine, RecoveryIsSafe,
       ConfirmationIsGenuine

LEMMA WritingKeeps ==
  ASSUME IInv, Quiet, NEW h \in Handlers, NEW row \in Row, NEW next \in Local,
         RowFits(row), Fits(next, row),
         rec' = row, proc' \in [Handlers -> Local], proc'[h] = next,
         \A g \in Handlers \ {h} :
           /\ proc'[g].at = proc[g].at /\ proc'[g].found = proc[g].found
           /\ proc'[g].role = proc[g].role /\ proc'[g].event = proc[g].event
  PROVE  IInv'
<1>1. TypeOK'
  BY DEF IInv, TypeOK, Quiet, OutsideOK
<1>2. \A g \in Handlers : proc'[g].at = "submit" => g # h /\ proc[g].at = "submit"
  BY DEF Fits
<1>3. NobodySubmits => NobodySubmits'
  BY <1>2 DEF NobodySubmits
<1>4. NoAirtime => NoAirtime'
  BY DEF NoAirtime, Quiet
<1>5. OneClaimant'
  BY <1>2 DEF IInv, SettlementInv, OneClaimant, RowFits, Quiet
<1>6. ResultIsGenuine'
  BY DEF IInv, SettlementInv, ResultIsGenuine, RowFits, Fits, Quiet
<1>7. RecoveryIsSafe'
  BY <1>3, <1>4 DEF IInv, SettlementInv, RecoveryIsSafe, RowFits, Fits, Quiet
<1>8. ConfirmationIsGenuine'
  BY DEF IInv, SettlementInv, ConfirmationIsGenuine, RowFits, Fits, Quiet
<1>9. EventIsAtHand'
  BY DEF IInv, SettlementInv, EventIsAtHand, Fits, EventLabels
<1> QED BY <1>1, <1>5, <1>6, <1>7, <1>8, <1>9 DEF IInv, SettlementInv

LEMMA SaveKeeps ==
  ASSUME IInv, Quiet, NEW h \in Handlers, NEW row \in Row, NEW next \in Local,
         RowFits(row), Fits(next, row), Save(h, row, next)
  PROVE  IInv'
BY SaveFacts, WritingKeeps DEF IInv

LEMMA MoveKeeps ==
  ASSUME IInv, Quiet, NEW h \in Handlers, NEW next \in Local, Fits(next, rec), Move(h, next)
  PROVE  IInv'
BY MoveFacts, WritingKeeps, CurrentRowFits DEF IInv

LEMMA CallFailsKeeps ==
  ASSUME IInv, NEW h \in Handlers, NEW next \in Local, Fits(next, rec), CallFails(h, next)
  PROVE  IInv'
<1>1. Quiet /\ Move(h, next)
  BY DEF CallFails, Fault, IInv, TypeOK, OutsideOK, Quiet
<1> QED BY <1>1, MoveKeeps

\* A handler that goes to an uncritical step fits whatever the row is.
LEMMA UncriticalFits ==
  ASSUME NEW l \in Local, l.at \notin Critical,
         l.role = "webhook" \/ l.at \in EventLabels => l.event \in Events
  PROVE  \A row : Fits(l, row)
BY DEF Fits, Critical

LEMMA IdleFits == Idle \in Local /\ \A row : Fits(Idle, row)
<1>1. Idle \in Local /\ Idle.at = "idle" /\ Idle.role = "none"
  BY IdleIsLocal DEF Idle
<1> QED BY <1>1, UncriticalFits DEF Critical, EventLabels

LEMMA ReturnedFits ==
  ASSUME IInv, NEW h \in Handlers
  PROVE  Returned(h) \in Local /\ \A row : Fits(Returned(h), row)
<1>1. TypeOK /\ (proc[h].role = "webhook" => proc[h].event \in Events)
  BY DEF IInv, SettlementInv, EventIsAtHand
<1>2. CASE Returned(h) = Idle
  BY <1>2, IdleFits
<1>3. CASE Returned(h).at = "complete" /\ proc[h].role = "webhook"
           /\ Returned(h).event = proc[h].event
  BY <1>1, <1>3, ReturnedFacts, UncriticalFits DEF Critical
<1>4. CASE Returned(h).at = "defer" /\ Returned(h).role # "webhook"
  BY <1>1, <1>4, ReturnedFacts, UncriticalFits DEF Critical, EventLabels
<1> QED BY <1>1, <1>2, <1>3, <1>4, ReturnedFacts

LEMMA AtFits ==
  ASSUME IInv, NEW h \in Handlers, NEW label \in Label \ Critical,
         label \in EventLabels => proc[h].at \in EventLabels
  PROVE  At(h, label) \in Local /\ \A row : Fits(At(h, label), row)
<1>1. TypeOK /\ (proc[h].role = "webhook" \/ proc[h].at \in EventLabels => proc[h].event \in Events)
  BY DEF IInv, SettlementInv, EventIsAtHand, EventLabels
<1> QED BY <1>1, AtFacts, UncriticalFits

LEMMA ReadingFits ==
  ASSUME IInv, NEW h \in Handlers, NEW label \in Label \ Critical, NEW what \in Found,
         label \in EventLabels => proc[h].at \in EventLabels
  PROVE  Reading(h, label, what) \in Local /\ \A row : Fits(Reading(h, label, what), row)
<1>1. TypeOK /\ (proc[h].role = "webhook" \/ proc[h].at \in EventLabels => proc[h].event \in Events)
  BY DEF IInv, SettlementInv, EventIsAtHand, EventLabels
<1> QED BY <1>1, ReadingFacts, UncriticalFits

LEMMA StartedFits ==
  ASSUME NEW role \in Role \ {"webhook"}, NEW label \in Label \ (Critical \union EventLabels)
  PROVE  Started(role, label) \in Local /\ \A row : Fits(Started(role, label), row)
BY StartedFacts, UncriticalFits

\* A write that leaves the claims, the provider's reference and a refund alone fits.
Harmless(row) ==
  /\ row \in Row
  /\ row.fulfillmentStarted = rec.fulfillmentStarted
  /\ row.recoveryStarted = rec.recoveryStarted
  /\ row.providerRef = rec.providerRef
  /\ row.payment \in {"REFUND_PENDING", "REFUNDED"} => row.payment = rec.payment

LEMMA HarmlessFits == ASSUME IInv, NEW row, Harmless(row) PROVE row \in Row /\ RowFits(row)
BY CurrentRowFits DEF Harmless, RowFits

---------------------------------------------------------------------------
(* createPaymentSession.                                                   *)

LEMMA ClaimPaymentKeeps ==
  ASSUME IInv, NEW h \in Handlers, ClaimPayment(h)
  PROVE  IInv'
<1> DEFINE row == [rec EXCEPT !.paymentStarted = TRUE]
           next == Started("checkout", "createSession")
<1>1. Quiet
  BY OutsideQuiet DEF IInv, ClaimPayment
<1>2. Harmless(row)
  BY DEF IInv, TypeOK, Row, Harmless
<1>3. next \in Local /\ Fits(next, row)
  BY StartedFits DEF Role, Label, Critical, EventLabels
<1> QED BY <1>1, <1>2, <1>3, HarmlessFits, SaveKeeps DEF ClaimPayment

LEMMA OpeningIsQuiet ==
  ASSUME IInv, NEW s \in {"none", "open", "complete", "expired"},
         stripe' = [stripe EXCEPT !.session = s],
         emitted' \subseteq Events, faults' \in Nat,
         UNCHANGED <<assessment, ledger, processed, airtime, submissions>>
  PROVE  Quiet
BY DEF IInv, TypeOK, StripeState, Quiet, OutsideOK

LEMMA CreateSessionKeeps ==
  ASSUME IInv, NEW h \in Handlers, CreateSession(h)
  PROVE  IInv'
<1>0. TypeOK
  BY DEF IInv
<1>1. Quiet
  BY <1>0, OpeningIsQuiet DEF CreateSession, Fault, TypeOK
<1>2. At(h, "storeSession") \in Local /\ Fits(At(h, "storeSession"), rec)
  BY AtFits DEF Label, Critical, EventLabels
<1>3. CASE Move(h, At(h, "storeSession"))
  BY <1>1, <1>2, <1>3, MoveKeeps
<1>4. CASE Save(h, rec, Idle)
  BY <1>1, <1>4, IdleFits, CurrentRowFits, SaveKeeps
<1> QED BY <1>3, <1>4 DEF CreateSession

LEMMA SessionRefusedKeeps ==
  ASSUME IInv, NEW h \in Handlers, SessionRefused(h)
  PROVE  IInv'
<1>1. Quiet
  BY DEF SessionRefused, Fault, IInv, TypeOK, OutsideOK, Quiet
<1> QED BY <1>1, IdleFits, CurrentRowFits, SaveKeeps DEF SessionRefused

LEMMA StoreSessionKeeps ==
  ASSUME IInv, NEW h \in Handlers, StoreSession(h)
  PROVE  IInv'
<1> DEFINE row == [rec EXCEPT !.session = TRUE, !.payment = "SESSION_CREATED"]
<1>1. Quiet
  BY OutsideQuiet DEF IInv, StoreSession
<1>2. Harmless(row)
  BY DEF IInv, TypeOK, Row, PaymentStatus, Harmless
<1> QED BY <1>1, <1>2, IdleFits, HarmlessFits, SaveKeeps DEF StoreSession

---------------------------------------------------------------------------
(* acceptVerifiedPaymentEvent.                                             *)

LEMMA CapturedIsHarmless == ASSUME IInv PROVE Harmless(Captured(rec))
BY DEF IInv, TypeOK, Row, PaymentStatus, RechargeStatus, FailureCode, Captured, Harmless

LEMMA FailedIsHarmless ==
  ASSUME IInv, NEW code \in FailureCode PROVE Harmless(Failed(rec, code))
BY DEF IInv, TypeOK, Row, PaymentStatus, RechargeStatus, Failed, Harmless

LEMMA AcceptEventKeeps ==
  ASSUME IInv, NEW h \in Handlers, NEW e \in Events, AcceptEvent(h, e)
  PROVE  IInv'
<1>1. Quiet
  BY OutsideQuiet DEF IInv, AcceptEvent
<1>2. \A label \in {"transition", "complete"}, f \in {"replay", "none"} :
        LET next == [Started("webhook", label) EXCEPT !.event = e, !.found = f]
        IN  next \in Local /\ Fits(next, rec)
  <2> TAKE label \in {"transition", "complete"}, f \in {"replay", "none"}
  <2>1. Started("webhook", label) \in Local /\ Started("webhook", label).at = label
    BY StartedFacts DEF Role, Label
  <2>2. f \in Found
    BY DEF Found, AirtimeState
  <2> DEFINE next == [Started("webhook", label) EXCEPT !.event = e, !.found = f]
  <2>3. next \in Local /\ next.at = label /\ next.event = e
    BY <2>1, <2>2 DEF Local
  <2> QED BY <2>3, UncriticalFits DEF Critical
<1> QED BY <1>1, <1>2, MoveKeeps DEF AcceptEvent

LEMMA AcceptAndBlockRetriesKeeps ==
  ASSUME IInv, NEW h \in Handlers, AcceptAndBlockRetries(h)
  PROVE  IInv'
<1> DEFINE next == [Started("webhook", "blockRetries") EXCEPT !.event = "paymentFailed"]
<1>1. Quiet
  BY OutsideQuiet DEF IInv, AcceptAndBlockRetries
<1>2. /\ Started("webhook", "blockRetries") \in Local
      /\ Started("webhook", "blockRetries").at = "blockRetries"
  BY StartedFacts DEF Role, Label
<1>3. next \in Local /\ next.at = "blockRetries" /\ next.event \in Events
  BY <1>2 DEF Local, Events, FailureEvents
<1>4. Fits(next, rec)
  BY <1>3, UncriticalFits DEF Critical
<1> QED BY <1>1, <1>3, <1>4, MoveKeeps DEF AcceptAndBlockRetries

LEMMA ExpiringIsQuiet ==
  ASSUME IInv, stripe' = ExpireSession, emitted' = ExpiredEvents, faults' \in Nat,
         UNCHANGED <<assessment, ledger, processed, airtime, submissions>>
  PROVE  Quiet
<1>1. \E s \in {"none", "open", "complete", "expired"} : stripe' = [stripe EXCEPT !.session = s]
  BY DEF IInv, TypeOK, StripeState, ExpireSession
<1>2. emitted' \subseteq Events
  BY DEF IInv, TypeOK, ExpiredEvents, Events, FailureEvents
<1> QED BY <1>1, <1>2, OpeningIsQuiet

LEMMA BlockRetriesKeeps ==
  ASSUME IInv, NEW h \in Handlers, BlockRetries(h)
  PROVE  IInv'
<1>0. TypeOK
  BY DEF IInv
<1>1. Quiet
  BY <1>0, ExpiringIsQuiet DEF BlockRetries, Fault, TypeOK
<1>2. At(h, "transition") \in Local /\ Fits(At(h, "transition"), rec)
  BY AtFits DEF BlockRetries, Label, Critical, EventLabels
<1> QED BY <1>1, <1>2, IdleFits, MoveKeeps DEF BlockRetries

LEMMA TransitionPaymentKeeps ==
  ASSUME IInv, NEW h \in Handlers, TransitionPayment(h)
  PROVE  IInv'
<1>0. TypeOK
  BY DEF IInv
<1>1. Quiet
  BY <1>0, OutsideQuiet DEF TransitionPayment
<1>2. \A label \in {"fulfill", "complete"} :
        /\ Reading(h, label, "none") \in Local
        /\ \A row : Fits(Reading(h, label, "none"), row)
  BY ReadingFits DEF TransitionPayment, Label, Critical, EventLabels, Found, AirtimeState
<1>3. Returned(h) \in Local /\ \A row : Fits(Returned(h), row)
  BY ReturnedFits
<1>4. CASE Save(h, Captured(rec), Reading(h, "fulfill", "none"))
  BY <1>1, <1>2, <1>4, CapturedIsHarmless, HarmlessFits, SaveKeeps
<1>5. CASE \E label \in {"fulfill", "complete"} : Move(h, Reading(h, label, "none"))
  BY <1>1, <1>2, <1>5, MoveKeeps
<1>6. CASE Save(h, Failed(rec, "PAYMENT_FAILED"), Returned(h))
  BY <1>1, <1>3, <1>6, FailedIsHarmless, HarmlessFits, SaveKeeps DEF FailureCode
<1>7. CASE Move(h, Returned(h))
  BY <1>1, <1>3, <1>7, MoveKeeps
<1> QED BY <1>4, <1>5, <1>6, <1>7 DEF TransitionPayment

LEMMA CompleteEventKeeps ==
  ASSUME IInv, NEW h \in Handlers, CompleteEvent(h)
  PROVE  IInv'
<1>1. Quiet
  BY DEF CompleteEvent, IInv, TypeOK, SettlementInv, EventIsAtHand, OutsideOK, Quiet
<1> QED BY <1>1, IdleFits, MoveKeeps DEF CompleteEvent


---------------------------------------------------------------------------
(* fulfillPaidRecharge.                                                    *)

LEMMA FulfillKeeps ==
  ASSUME IInv, NEW h \in Handlers, Fulfill(h)
  PROVE  IInv'
<1>1. Quiet
  BY OutsideQuiet DEF IInv, Fulfill
<1>2. \A label \in {"evidence", "gate", "claimFulfillment"} :
        At(h, label) \in Local /\ Fits(At(h, label), rec)
  BY AtFits DEF Label, Critical, EventLabels
<1>3. CASE \E label \in {"evidence", "gate", "claimFulfillment"} : Move(h, At(h, label))
  BY <1>1, <1>2, <1>3, MoveKeeps
<1>4. CASE Move(h, Returned(h))
  BY <1>1, <1>4, ReturnedFits, MoveKeeps
<1> QED BY <1>3, <1>4 DEF Fulfill

LEMMA GateKeeps ==
  ASSUME IInv, NEW h \in Handlers, Gate(h)
  PROVE  IInv'
<1>1. Quiet
  BY DEF Gate, IInv, TypeOK, OutsideOK, Quiet
<1>2. \A label \in {"claimFulfillment", "hold"} :
        At(h, label) \in Local /\ Fits(At(h, label), rec)
  BY AtFits DEF Label, Critical, EventLabels
<1> QED BY <1>1, <1>2, MoveKeeps DEF Gate

LEMMA HoldKeeps ==
  ASSUME IInv, NEW h \in Handlers, Hold(h)
  PROVE  IInv'
<1> DEFINE row == [rec EXCEPT !.failure = "FRAUD_REVIEW_REQUIRED"]
<1>1. Quiet
  BY OutsideQuiet DEF IInv, Hold
<1>2. row \in Row /\ RowFits(row)
  <2>1. Harmless(row)
    BY DEF IInv, TypeOK, Row, FailureCode, Harmless
  <2> QED BY <2>1, HarmlessFits
<1>3. At(h, "evidence") \in Local /\ Fits(At(h, "evidence"), row)
  BY AtFits DEF Label, Critical, EventLabels
<1>4. Returned(h) \in Local /\ Fits(Returned(h), row)
  BY ReturnedFits
<1>5. Save(h, row, At(h, "evidence")) \/ Save(h, row, Returned(h))
  BY DEF Hold
<1> HIDE DEF row
<1> QED BY <1>1, <1>2, <1>3, <1>4, <1>5, SaveKeeps

\* The claim is free, so nothing was submitted, and taking it lets only h submit.
LEMMA ClaimFulfillmentKeeps ==
  ASSUME IInv, NEW h \in Handlers, ClaimFulfillment(h)
  PROVE  IInv'
<1> DEFINE row == [rec EXCEPT !.fulfillmentStarted = TRUE]
<1>1. Quiet
  BY OutsideQuiet DEF IInv, ClaimFulfillment
<1>2. CASE Move(h, Returned(h))
  BY <1>1, <1>2, ReturnedFits, MoveKeeps
<1>3. CASE FulfillmentClaimable /\ Save(h, row, At(h, "submit"))
  <2>1. row \in Row
    BY DEF IInv, TypeOK, Row
  <2>2. /\ At(h, "submit") \in Local /\ At(h, "submit").at = "submit"
        /\ At(h, "submit").role = proc[h].role /\ At(h, "submit").event = proc[h].event
    BY AtFacts DEF IInv, Label
  <2>3. /\ rec' = row /\ proc' \in [Handlers -> Local] /\ proc'[h] = At(h, "submit")
        /\ \A g \in Handlers \ {h} :
             /\ proc'[g].at = proc[g].at /\ proc'[g].found = proc[g].found
             /\ proc'[g].role = proc[g].role /\ proc'[g].event = proc[g].event
    BY <1>3, <2>1, <2>2, SaveFacts DEF IInv
  <2>4. /\ row.fulfillmentStarted /\ row.recoveryStarted = rec.recoveryStarted
        /\ row.payment = rec.payment /\ row.providerRef = rec.providerRef
    BY DEF IInv, TypeOK, Row
  <2>5. ~rec.fulfillmentStarted /\ ~rec.recoveryStarted
    BY <1>3 DEF FulfillmentClaimable
  <2> HIDE DEF row
  <2>6. TypeOK'
    BY <1>1, <2>1, <2>3 DEF TypeOK, Quiet, OutsideOK
  <2>7. OneClaimant'
    BY <1>1, <2>2, <2>3, <2>4, <2>5 DEF IInv, SettlementInv, OneClaimant, Quiet
  <2>8. ResultIsGenuine'
    BY <1>1, <2>2, <2>3, <2>4 DEF IInv, SettlementInv, ResultIsGenuine, Quiet
  <2>9. RecoveryIsSafe'
    BY <1>1, <2>2, <2>3, <2>4, <2>5 DEF IInv, SettlementInv, RecoveryIsSafe, Quiet
  <2>10. ConfirmationIsGenuine'
    BY <1>1, <2>2, <2>3, <2>4 DEF IInv, SettlementInv, ConfirmationIsGenuine, Quiet
  <2>11. EventIsAtHand'
    BY <2>2, <2>3 DEF IInv, SettlementInv, EventIsAtHand
  <2> QED BY <2>6, <2>7, <2>8, <2>9, <2>10, <2>11 DEF IInv, SettlementInv
<1> QED BY <1>2, <1>3 DEF ClaimFulfillment

\* h is the only handler at the submission, so afterwards nobody is.
LEMMA LeavingSubmission ==
  ASSUME IInv, NEW h \in Handlers, proc[h].at = "submit", NEW next \in Local, Move(h, next),
         next.at \notin {"submit", "readTopUp", "postLedger", "claimRecovery",
                         "readPayment", "markRefund", "refund", "refundAgain", "confirmRefund"},
         next.role = "webhook" \/ next.at \in EventLabels => next.event \in Events,
         airtime' \in AirtimeState, submissions' \in {0, 1}, faults' \in Nat,
         airtime = airtime' \/ airtime' # "none",
         next.at = "recordRejected" => airtime' = "none",
         next.at = "apply" => airtime' # "none" /\ next.found = airtime',
         UNCHANGED <<assessment, ledger, processed, stripe, emitted>>
  PROVE  IInv'
<1>1. /\ rec' = rec /\ proc' \in [Handlers -> Local] /\ proc'[h] = next
      /\ \A g \in Handlers \ {h} : proc'[g] = proc[g]
  BY MoveFacts DEF IInv
<1>2. /\ rec.fulfillmentStarted /\ submissions = 0 /\ airtime = "none"
      /\ \A g \in Handlers \ {h} : proc[g].at # "submit"
  BY DEF IInv, SettlementInv, OneClaimant
<1>3. TypeOK'
  BY <1>1 DEF IInv, TypeOK
<1>4. NobodySubmits'
  BY <1>1, <1>2 DEF NobodySubmits
<1>5. ~rec.recoveryStarted
      /\ \A g \in Handlers : proc[g].at \notin {"recordRejected", "claimRecovery"}
  BY DEF IInv, SettlementInv, RecoveryIsSafe, NobodySubmits
<1>6. OneClaimant'
  BY <1>1, <1>2, <1>4 DEF OneClaimant, NobodySubmits
<1>7. ResultIsGenuine'
  <2>1. \A g \in Handlers \ {h} : proc[g].at \notin {"readTopUp", "apply", "postLedger"}
    BY <1>2 DEF IInv, SettlementInv, ResultIsGenuine
  <2> QED BY <1>1, <1>2, <2>1 DEF ResultIsGenuine, Accepted, IInv, SettlementInv
<1>8. RecoveryIsSafe'
  BY <1>1, <1>2, <1>4, <1>5 DEF IInv, SettlementInv, RecoveryIsSafe, NoAirtime
<1>9. ConfirmationIsGenuine'
  BY <1>1 DEF IInv, SettlementInv, ConfirmationIsGenuine
<1>10. EventIsAtHand'
  BY <1>1 DEF IInv, SettlementInv, EventIsAtHand, EventLabels
<1> QED BY <1>3, <1>6, <1>7, <1>8, <1>9, <1>10 DEF IInv, SettlementInv

LEMMA SubmitTopUpKeeps ==
  ASSUME IInv, NEW h \in Handlers, SubmitTopUp(h)
  PROVE  IInv'
<1>1. /\ proc[h].at = "submit" /\ submissions = 0 /\ airtime = "none" /\ faults \in Nat
      /\ UNCHANGED <<assessment, ledger, processed, stripe, emitted>>
  BY DEF SubmitTopUp, IInv, TypeOK, SettlementInv, OneClaimant
<1>2. proc[h].role = "webhook" => proc[h].event \in Events
  BY DEF IInv, SettlementInv, EventIsAtHand
<1>3. \A label \in {"recordRejected", "recordUnknown"} :
        /\ At(h, label) \in Local /\ At(h, label).at = label
        /\ At(h, label).role = proc[h].role /\ At(h, label).event = proc[h].event
  BY AtFacts DEF IInv, Label
<1>4. \A a \in Accepted :
        /\ Reading(h, "apply", a) \in Local /\ Reading(h, "apply", a).at = "apply"
        /\ Reading(h, "apply", a).found = a
        /\ Reading(h, "apply", a).role = proc[h].role /\ Reading(h, "apply", a).event = proc[h].event
  BY ReadingFacts DEF IInv, Label, Found, Accepted
<1>5. CASE /\ Move(h, At(h, "recordRejected"))
           /\ UNCHANGED <<airtime, submissions, faults>>
  BY <1>1, <1>2, <1>3, <1>5, LeavingSubmission DEF AirtimeState, EventLabels
<1>6. CASE /\ Fault /\ Move(h, At(h, "recordUnknown"))
           /\ UNCHANGED <<airtime, submissions>>
  BY <1>1, <1>2, <1>3, <1>6, LeavingSubmission DEF AirtimeState, EventLabels, Fault
<1>7. ASSUME NEW a \in Accepted \ {"REFUNDED"}, airtime' = a, submissions' = submissions + 1,
             \/ Move(h, Reading(h, "apply", a)) /\ UNCHANGED faults
             \/ Fault /\ Move(h, At(h, "recordUnknown"))
      PROVE  IInv'
  <2>1. airtime' \in AirtimeState /\ airtime' # "none" /\ submissions' \in {0, 1} /\ faults' \in Nat
    BY <1>1, <1>7 DEF Accepted, Fault
  <2>2. CASE Move(h, Reading(h, "apply", a))
    BY <1>1, <1>2, <1>4, <1>7, <2>1, <2>2, LeavingSubmission DEF EventLabels
  <2>3. CASE Move(h, At(h, "recordUnknown"))
    BY <1>1, <1>2, <1>3, <2>1, <2>3, LeavingSubmission DEF EventLabels
  <2> QED BY <1>7, <2>2, <2>3
<1> QED BY <1>5, <1>6, <1>7 DEF SubmitTopUp

LEMMA RecordRejectedKeeps ==
  ASSUME IInv, NEW h \in Handlers, RecordRejected(h)
  PROVE  IInv'
<1> DEFINE row == [rec EXCEPT !.status = "FAILED", !.failure = "TOPUP_REJECTED"]
           next == Reading(h, "claimRecovery", "rejected")
<1>1. Quiet
  BY OutsideQuiet DEF IInv, RecordRejected
<1>2. Harmless(row) /\ row.fulfillmentStarted = rec.fulfillmentStarted
  BY DEF IInv, TypeOK, Row, RechargeStatus, FailureCode, Harmless
<1>3. /\ next \in Local /\ next.at = "claimRecovery"
      /\ next.role = proc[h].role /\ next.event = proc[h].event
  BY ReadingFacts DEF IInv, Label, Found
<1>4. rec.fulfillmentStarted /\ NoAirtime /\ NobodySubmits
  BY DEF RecordRejected, IInv, SettlementInv, RecoveryIsSafe
<1>5. Fits(next, row)
  BY <1>2, <1>3, <1>4 DEF Fits, IInv, SettlementInv, EventIsAtHand, EventLabels
<1> QED BY <1>1, <1>2, <1>3, <1>5, HarmlessFits, SaveKeeps DEF RecordRejected

LEMMA RecordUnknownKeeps ==
  ASSUME IInv, NEW h \in Handlers, RecordUnknown(h)
  PROVE  IInv'
<1> DEFINE row == [rec EXCEPT !.status = "PROCESSING", !.failure = "TOPUP_SUBMISSION_UNKNOWN"]
<1>1. Quiet
  BY OutsideQuiet DEF IInv, RecordUnknown
<1>2. Harmless(row)
  BY DEF IInv, TypeOK, Row, RechargeStatus, FailureCode, Harmless
<1> QED BY <1>1, <1>2, IdleFits, HarmlessFits, SaveKeeps DEF RecordUnknown

---------------------------------------------------------------------------
(* applyProviderResult.                                                    *)

\* What the provider said of a top-up, once it is final, is still true.
LEMMA ResultAtHand ==
  ASSUME IInv, NEW h \in Handlers, proc[h].at \in {"apply", "postLedger"}
  PROVE  /\ proc[h].found \in Accepted /\ airtime # "none"
         /\ mapProviderStatus[proc[h].found] \in {"PENDING", "PROCESSING", "DELIVERED", "FAILED", "REFUNDED"}
         /\ mapProviderStatus[proc[h].found] \in {"FAILED", "REFUNDED"} =>
              airtime = proc[h].found /\ NoAirtime
<1>1. /\ proc[h].found \in Accepted /\ airtime # "none"
      /\ proc[h].found \in {"FAILED", "REFUNDED"} => airtime = proc[h].found
  BY DEF IInv, SettlementInv, ResultIsGenuine
<1>2. \A a \in Accepted :
        /\ mapProviderStatus[a] \in {"PENDING", "PROCESSING", "DELIVERED", "FAILED", "REFUNDED"}
        /\ mapProviderStatus[a] \in {"FAILED", "REFUNDED"} => a \in {"FAILED", "REFUNDED"}
  BY DEF mapProviderStatus, Accepted, AirtimeState
<1> QED BY <1>1, <1>2 DEF NoAirtime

\* An airtime result exists only after the claim, and then nobody submits.
LEMMA AirtimeMeansSubmitted ==
  ASSUME IInv, airtime # "none"
  PROVE  rec.fulfillmentStarted /\ NobodySubmits
BY DEF IInv, SettlementInv, OneClaimant, NobodySubmits

LEMMA RecoveryFits ==
  ASSUME IInv, NEW h \in Handlers, NEW row, row.fulfillmentStarted, NoAirtime, NobodySubmits,
         NEW what \in Found
  PROVE  /\ Reading(h, "claimRecovery", what) \in Local
         /\ Fits(Reading(h, "claimRecovery", what), row)
<1> DEFINE next == Reading(h, "claimRecovery", what)
<1>1. /\ next \in Local /\ next.at = "claimRecovery"
      /\ next.role = proc[h].role /\ next.event = proc[h].event
  BY ReadingFacts DEF IInv, Label
<1> HIDE DEF next
<1>2. next \in Local /\ Fits(next, row)
  BY <1>1 DEF Fits, IInv, SettlementInv, EventIsAtHand, EventLabels
<1> QED BY <1>2 DEF next

LEMMA ApplyKeeps ==
  ASSUME IInv, NEW h \in Handlers, Apply(h)
  PROVE  IInv'
<1> DEFINE status == mapProviderStatus[proc[h].found]
           row == [rec EXCEPT !.status = status, !.providerRef = TRUE]
<1>1. Quiet
  BY OutsideQuiet DEF IInv, Apply
<1>2. /\ proc[h].at = "apply" /\ proc[h].found \in Accepted /\ airtime # "none"
      /\ status \in RechargeStatus
      /\ status \in {"FAILED", "REFUNDED"} => airtime = proc[h].found /\ NoAirtime
  BY ResultAtHand DEF Apply, RechargeStatus
<1>3. rec.fulfillmentStarted /\ NobodySubmits
  BY <1>2, AirtimeMeansSubmitted
<1>4. row \in Row /\ RowFits(row) /\ row.fulfillmentStarted
  BY <1>2, <1>3, CurrentRowFits DEF IInv, TypeOK, Row, RowFits
<1>5. At(h, "postLedger") \in Local /\ \A r : Fits(At(h, "postLedger"), r)
  <2>1. /\ At(h, "postLedger") \in Local /\ At(h, "postLedger").at = "postLedger"
        /\ At(h, "postLedger").found = proc[h].found
        /\ At(h, "postLedger").role = proc[h].role /\ At(h, "postLedger").event = proc[h].event
    BY AtFacts DEF IInv, Label
  <2> QED BY <1>2, <2>1 DEF Fits, IInv, SettlementInv, ResultIsGenuine, EventIsAtHand, EventLabels
<1>6. CASE /\ status = "DELIVERED"
           /\ \E confirmed \in BOOLEAN :
                Save(h, [row EXCEPT !.delivered = TRUE, !.valueConfirmed = @ \/ confirmed],
                     At(h, "postLedger"))
  <2>1. PICK confirmed \in BOOLEAN :
          Save(h, [row EXCEPT !.delivered = TRUE, !.valueConfirmed = @ \/ confirmed],
               At(h, "postLedger"))
    BY <1>6
  <2> DEFINE delivered == [row EXCEPT !.delivered = TRUE, !.valueConfirmed = @ \/ confirmed]
  <2>2. \A b \in BOOLEAN : LET r == [row EXCEPT !.delivered = TRUE, !.valueConfirmed = b]
                           IN  r \in Row /\ RowFits(r)
    BY <1>4 DEF Row, RowFits
  <2>3. (row.valueConfirmed \/ confirmed) \in BOOLEAN
    OBVIOUS
  <2>4. delivered \in Row /\ RowFits(delivered)
    BY ONLY <2>2, <2>3, Zenon
  <2> HIDE DEF delivered, row
  <2>5. Save(h, delivered, At(h, "postLedger"))
    BY <2>1 DEF delivered
  <2> QED BY <1>1, <1>5, <2>4, <2>5, SaveKeeps
<1>7. CASE status = "DELIVERED" /\ Move(h, At(h, "postLedger"))
  BY <1>1, <1>5, <1>7, MoveKeeps
<1>8. CASE status = "REFUNDED" /\ Save(h, row, At(h, "postLedger"))
  BY <1>1, <1>4, <1>5, <1>8, SaveKeeps
<1>9. CASE /\ status = "FAILED"
           /\ Save(h, [row EXCEPT !.failure = "TOPUP_PROVIDER_FAILED"],
                   Reading(h, "claimRecovery", "none"))
  <2> DEFINE failed == [row EXCEPT !.failure = "TOPUP_PROVIDER_FAILED"]
  <2>1. failed \in Row /\ RowFits(failed) /\ failed.fulfillmentStarted
    BY <1>4 DEF Row, RowFits, FailureCode
  <2> HIDE DEF failed
  <2>2. /\ Reading(h, "claimRecovery", "none") \in Local
        /\ Fits(Reading(h, "claimRecovery", "none"), failed)
    BY <1>2, <1>3, <1>9, <2>1, RecoveryFits DEF Found, AirtimeState
  <2> QED BY <1>1, <1>9, <2>1, <2>2, SaveKeeps DEF failed
<1>10. CASE Save(h, row, Returned(h))
  BY <1>1, <1>4, <1>10, ReturnedFits, SaveKeeps
<1> QED BY <1>6, <1>7, <1>8, <1>9, <1>10 DEF Apply

LEMMA PostLedgerKeeps ==
  ASSUME IInv, NEW h \in Handlers, PostLedger(h)
  PROVE  IInv'
<1>1. Quiet
  BY DEF PostLedger, IInv, TypeOK, OutsideOK, Quiet
<1>2. CASE Move(h, Returned(h))
  BY <1>1, <1>2, ReturnedFits, MoveKeeps
<1>3. CASE /\ mapProviderStatus[proc[h].found] = "REFUNDED"
           /\ Move(h, Reading(h, "claimRecovery", "none"))
  <2>1. airtime # "none" /\ NoAirtime
    BY <1>3, ResultAtHand DEF PostLedger
  <2>2. /\ Reading(h, "claimRecovery", "none") \in Local
        /\ Fits(Reading(h, "claimRecovery", "none"), rec)
    BY <2>1, AirtimeMeansSubmitted, RecoveryFits DEF Found, AirtimeState
  <2> QED BY <1>1, <1>3, <2>2, MoveKeeps
<1> QED BY <1>2, <1>3 DEF PostLedger

---------------------------------------------------------------------------
(* refundConfirmedSecurityFailure and recoverPayment.                      *)

\* A handler may go on to a step that only asks for the recovery claim.
LEMMA RecoveringFits ==
  ASSUME IInv, NEW h \in Handlers, NEW row, row.recoveryStarted,
         NEW label \in {"readPayment", "markRefund", "refund", "refundAgain"}
  PROVE  At(h, label) \in Local /\ Fits(At(h, label), row)
<1>1. /\ At(h, label) \in Local /\ At(h, label).at = label
      /\ At(h, label).role = proc[h].role /\ At(h, label).event = proc[h].event
  BY AtFacts DEF IInv, Label
<1> QED BY <1>1 DEF Fits, IInv, SettlementInv, EventIsAtHand, EventLabels

LEMMA ConfirmingFits ==
  ASSUME IInv, NEW h \in Handlers
  PROVE  /\ At(h, "confirmRefund") \in Local
         /\ At(h, "confirmRefund").at = "confirmRefund"
         /\ proc[h].role = "webhook" => At(h, "confirmRefund").event \in Events
         /\ At(h, "confirmRefund").role = proc[h].role
         /\ stripe.refund = "succeeded" => \A row : Fits(At(h, "confirmRefund"), row)
<1>1. /\ At(h, "confirmRefund") \in Local /\ At(h, "confirmRefund").at = "confirmRefund"
      /\ At(h, "confirmRefund").role = proc[h].role
      /\ At(h, "confirmRefund").event = proc[h].event
  BY AtFacts DEF IInv, Label
<1> QED BY <1>1 DEF Fits, IInv, SettlementInv, EventIsAtHand, EventLabels

LEMMA ReadEvidenceKeeps ==
  ASSUME IInv, NEW h \in Handlers, ReadEvidence(h)
  PROVE  IInv'
<1>1. /\ proc[h] \in Local
      /\ proc[h].role = "webhook" => proc[h].event \in Events
  BY DEF IInv, TypeOK, SettlementInv, EventIsAtHand
<1>2. CASE Move(h, [proc[h] EXCEPT !.at = "claimRefund"]) /\ UNCHANGED outside
  <2> DEFINE next == [proc[h] EXCEPT !.at = "claimRefund"]
  <2>1. /\ next \in Local /\ next.at = "claimRefund"
        /\ next.role = proc[h].role /\ next.event = proc[h].event
    BY <1>1 DEF Local, Label
  <2> HIDE DEF next
  <2>2. Fits(next, rec)
    BY <1>1, <2>1, UncriticalFits DEF Critical, EventLabels
  <2> QED BY <1>2, <2>1, <2>2, OutsideQuiet, MoveKeeps DEF next, IInv
<1>3. CASE CallFails(h, [Returned(h) EXCEPT !.fresh = proc[h].fresh])
  <2>1. Returned(h) \in Local /\ Fits(Returned(h), rec)
    BY ReturnedFits
  <2> DEFINE next == [Returned(h) EXCEPT !.fresh = proc[h].fresh]
  <2>2. next \in Local /\ Fits(next, rec)
    BY <1>1, <2>1 DEF Local, Fits
  <2> HIDE DEF next
  <2> QED BY <1>3, <2>2, CallFailsKeeps DEF next
<1> QED BY <1>2, <1>3 DEF ReadEvidence

\* No fulfillment claim was taken, so no airtime was asked for, and the recovery
\* claim keeps it so.
LEMMA ClaimSecurityRefundKeeps ==
  ASSUME IInv, NEW h \in Handlers, ClaimSecurityRefund(h)
  PROVE  IInv'
<1> DEFINE row == [rec EXCEPT !.status = "FAILED", !.payment = "REFUND_PENDING",
                              !.failure = "SECURITY_REFUND_REQUIRED",
                              !.recoveryStarted = TRUE]
<1>1. Quiet
  BY OutsideQuiet DEF IInv, ClaimSecurityRefund
<1>2. CASE Move(h, Returned(h))
  BY <1>1, <1>2, ReturnedFits, MoveKeeps
<1>3. CASE SecurityRefundable(rec) /\ Save(h, row, At(h, "refund"))
  <2>1. ~rec.fulfillmentStarted
    BY <1>3 DEF SecurityRefundable
  <2>2. NoAirtime /\ NobodySubmits
    BY <2>1 DEF IInv, SettlementInv, OneClaimant, NoAirtime, NobodySubmits
  <2>3. row \in Row /\ row.recoveryStarted /\ RowFits(row)
    BY <2>2, CurrentRowFits DEF IInv, TypeOK, Row, RechargeStatus, PaymentStatus, FailureCode, RowFits
  <2> HIDE DEF row
  <2> QED BY <1>1, <1>3, <2>3, RecoveringFits, SaveKeeps
<1> QED BY <1>2, <1>3 DEF ClaimSecurityRefund

LEMMA ClaimRecoveryKeeps ==
  ASSUME IInv, NEW h \in Handlers, ClaimRecovery(h)
  PROVE  IInv'
<1> DEFINE row == [rec EXCEPT !.recoveryStarted = TRUE]
<1>1. Quiet
  BY OutsideQuiet DEF IInv, ClaimRecovery
<1>2. CASE Move(h, Returned(h))
  BY <1>1, <1>2, ReturnedFits, MoveKeeps
<1>3. CASE Save(h, row, At(h, "readPayment"))
  <2>1. NoAirtime /\ NobodySubmits
    BY DEF ClaimRecovery, IInv, SettlementInv, RecoveryIsSafe
  <2>2. row \in Row /\ row.recoveryStarted /\ RowFits(row)
    BY <2>1, CurrentRowFits DEF IInv, TypeOK, Row, RowFits
  <2> HIDE DEF row
  <2> QED BY <1>1, <1>3, <2>2, RecoveringFits, SaveKeeps
<1> QED BY <1>2, <1>3 DEF ClaimRecovery

LEMMA ReadPaymentKeeps ==
  ASSUME IInv, NEW h \in Handlers, ReadPayment(h)
  PROVE  IInv'
<1>1. rec.recoveryStarted
  BY DEF ReadPayment, IInv, SettlementInv, RecoveryIsSafe
<1>2. At(h, "markRefund") \in Local /\ Fits(At(h, "markRefund"), rec)
  BY <1>1, RecoveringFits
<1>3. CASE Move(h, At(h, "markRefund")) /\ UNCHANGED outside
  BY <1>2, <1>3, OutsideQuiet, MoveKeeps DEF IInv
<1>4. CASE Move(h, Returned(h)) /\ UNCHANGED outside
  BY <1>4, ReturnedFits, OutsideQuiet, MoveKeeps DEF IInv
<1>5. CASE CallFails(h, Returned(h))
  BY <1>5, ReturnedFits, CallFailsKeeps
<1> QED BY <1>3, <1>4, <1>5 DEF ReadPayment

LEMMA MarkRefundKeeps ==
  ASSUME IInv, NEW h \in Handlers, MarkRefund(h)
  PROVE  IInv'
<1> DEFINE row == [rec EXCEPT !.payment = "REFUND_PENDING"]
<1>1. rec.recoveryStarted /\ Quiet
  BY OutsideQuiet DEF MarkRefund, IInv, SettlementInv, RecoveryIsSafe
<1>2. row \in Row /\ row.recoveryStarted /\ RowFits(row)
  BY <1>1, CurrentRowFits DEF IInv, TypeOK, Row, PaymentStatus, RowFits
<1> HIDE DEF row
<1>3. CASE Save(h, row, At(h, "refund"))
  BY <1>1, <1>2, <1>3, RecoveringFits, SaveKeeps
<1>4. CASE Save(h, row, Returned(h))
  BY <1>1, <1>2, <1>4, ReturnedFits, SaveKeeps
<1>5. CASE Move(h, At(h, "readPayment"))
  BY <1>1, <1>5, RecoveringFits, MoveKeeps
<1> QED BY <1>3, <1>4, <1>5 DEF MarkRefund, row

\* A refund only moves on, and only for a row whose recovery was claimed.
LEMMA RefundMovesKeeps ==
  ASSUME IInv, rec.recoveryStarted, rec' = rec, proc' \in [Handlers -> Local],
         NEW s \in {"none", "pending", "succeeded"},
         stripe' = [stripe EXCEPT !.refund = s],
         stripe.refund = "succeeded" => s = "succeeded",
         faults' \in Nat,
         UNCHANGED <<assessment, ledger, processed, emitted, airtime, submissions>>,
         \A g \in Handlers :
           \/ proc'[g] = proc[g]
           \/ Fits(proc'[g], rec)
           \/ /\ proc'[g].at = "confirmRefund" /\ s = "succeeded"
              /\ proc'[g].role = "webhook" => proc'[g].event \in Events
  PROVE  IInv'
<1>1. stripe' \in StripeState /\ stripe'.refund = s
  BY DEF IInv, TypeOK, StripeState
<1>2. TypeOK'
  BY <1>1 DEF IInv, TypeOK
<1>3. \A g \in Handlers : proc'[g].at = "submit" => proc'[g] = proc[g]
  BY DEF Fits
<1>4. OneClaimant'
  BY <1>3 DEF IInv, SettlementInv, OneClaimant
<1>5. ResultIsGenuine'
  BY DEF IInv, SettlementInv, ResultIsGenuine, Fits
<1>6. NoAirtime' /\ NobodySubmits'
  BY <1>3 DEF IInv, SettlementInv, RecoveryIsSafe, NoAirtime, NobodySubmits
<1>7. RecoveryIsSafe'
  BY <1>6 DEF IInv, SettlementInv, RecoveryIsSafe, Fits
<1>8. ConfirmationIsGenuine'
  BY <1>1 DEF IInv, SettlementInv, ConfirmationIsGenuine, Fits
<1>9. EventIsAtHand'
  BY DEF IInv, SettlementInv, EventIsAtHand, Fits, EventLabels
<1> QED BY <1>2, <1>4, <1>5, <1>7, <1>8, <1>9 DEF IInv, SettlementInv

LEMMA RefundKeeps ==
  ASSUME IInv, NEW h \in Handlers, Refund(h)
  PROVE  IInv'
<1>1. /\ rec.recoveryStarted /\ TypeOK
      /\ stripe.refund \in {"none", "pending", "succeeded"} /\ faults \in Nat
  BY DEF Refund, IInv, TypeOK, StripeState, SettlementInv, RecoveryIsSafe
<1>2. CASE CallFails(h, Returned(h))
  BY <1>2, ReturnedFits, CallFailsKeeps
<1>3. ASSUME NEW s \in IF stripe.refund = "none" THEN {"pending", "succeeded"} ELSE {stripe.refund},
             stripe' = [stripe EXCEPT !.refund = s], faults' \in Nat,
             (s = "succeeded" /\ Move(h, At(h, "confirmRefund"))) \/ Move(h, Returned(h)),
             UNCHANGED <<assessment, ledger, processed, emitted, airtime, submissions>>
      PROVE  IInv'
  <2>1. s \in {"none", "pending", "succeeded"} /\ (stripe.refund = "succeeded" => s = "succeeded")
    BY <1>1, <1>3
  <2>2. CASE s = "succeeded" /\ Move(h, At(h, "confirmRefund"))
    <3>1. /\ rec' = rec /\ proc' \in [Handlers -> Local] /\ proc'[h] = At(h, "confirmRefund")
          /\ \A g \in Handlers \ {h} : proc'[g] = proc[g]
      BY <1>1, <2>2, ConfirmingFits, MoveFacts
    <3>2. /\ proc'[h].at = "confirmRefund"
          /\ proc'[h].role = "webhook" => proc'[h].event \in Events
      BY <3>1, ConfirmingFits
    <3> QED BY <1>1, <1>3, <2>1, <2>2, <3>1, <3>2, RefundMovesKeeps
  <2>3. CASE Move(h, Returned(h))
    <3>1. /\ rec' = rec /\ proc' \in [Handlers -> Local] /\ Fits(proc'[h], rec)
          /\ \A g \in Handlers \ {h} : proc'[g] = proc[g]
      BY <1>1, <2>3, ReturnedFits, MoveFacts
    <3> QED BY <1>1, <1>3, <2>1, <3>1, RefundMovesKeeps
  <2> QED BY <1>3, <2>2, <2>3
<1>4. ASSUME NEW s \in IF stripe.refund = "none" THEN {"pending", "succeeded"} ELSE {stripe.refund},
             stripe' = [stripe EXCEPT !.refund = s],
             \/ /\ proc[h].at = "refund" /\ s = "succeeded"
                /\ Move(h, At(h, "confirmRefund"))
                /\ UNCHANGED faults
             \/ /\ proc[h].at = "refundAgain" \/ s # "succeeded"
                /\ Move(h, Returned(h))
                /\ UNCHANGED faults
             \/ Fault /\ Move(h, Returned(h)),
             UNCHANGED <<assessment, ledger, processed, emitted, airtime, submissions>>
      PROVE  IInv'
  <2>1. faults' \in Nat
    BY <1>1, <1>4 DEF Fault
  <2> QED BY <1>3, <1>4, <2>1
<1> QED BY <1>2, <1>4 DEF Refund

LEMMA ConfirmRefundKeeps ==
  ASSUME IInv, NEW h \in Handlers, ConfirmRefund(h)
  PROVE  IInv'
<1> DEFINE row == [rec EXCEPT !.payment = "REFUNDED"]
<1>1. Quiet
  BY OutsideQuiet DEF IInv, ConfirmRefund
<1>2. CASE rec.payment = "REFUND_PENDING" /\ Save(h, row, Returned(h))
  <2>1. rec.recoveryStarted /\ stripe.refund = "succeeded"
    BY <1>2 DEF ConfirmRefund, IInv, SettlementInv, RecoveryIsSafe, ConfirmationIsGenuine
  <2>2. row \in Row /\ RowFits(row)
    BY <2>1, CurrentRowFits DEF IInv, TypeOK, Row, PaymentStatus, RowFits
  <2> HIDE DEF row
  <2> QED BY <1>1, <1>2, <2>2, ReturnedFits, SaveKeeps
<1>3. CASE Move(h, Returned(h))
  BY <1>1, <1>3, ReturnedFits, MoveKeeps
<1> QED BY <1>2, <1>3 DEF ConfirmRefund

---------------------------------------------------------------------------
(* refreshTransaction and reconcileHostedStripePending.                    *)

\* A provider reference leads to a top-up the provider knows.
LEMMA RefreshStepFits ==
  ASSUME IInv, NEW role \in Role \ {"webhook"}, NEW external
  PROVE  /\ Started(role, RefreshStep(rec, external)) \in Local
         /\ Fits(Started(role, RefreshStep(rec, external)), rec)
<1> DEFINE label == RefreshStep(rec, external)
<1>1. label \in {"evidence", "defer", "readCheckout", "queryRefund", "readTopUp", "findTopUp"}
  BY DEF RefreshStep
<1>2. label = "readTopUp" => airtime # "none"
  BY DEF RefreshStep, IInv, SettlementInv, ResultIsGenuine
<1> HIDE DEF label
<1>3. /\ Started(role, label) \in Local /\ Started(role, label).at = label
      /\ Started(role, label).role = role
  BY <1>1, StartedFacts DEF Label
<1>4. Fits(Started(role, label), rec)
  BY <1>1, <1>2, <1>3 DEF Fits, EventLabels
<1> QED BY <1>3, <1>4 DEF label

LEMMA ReconcileKeeps ==
  ASSUME IInv, NEW h \in Handlers, Reconcile(h)
  PROVE  IInv'
<1>1. Quiet
  BY OutsideQuiet DEF IInv, Reconcile
<1> QED BY <1>1, RefreshStepFits, MoveKeeps DEF Reconcile, Role

LEMMA PollKeeps ==
  ASSUME IInv, NEW h \in Handlers, Poll(h)
  PROVE  IInv'
<1>1. Quiet
  BY OutsideQuiet DEF IInv, Poll
<1> QED BY <1>1, RefreshStepFits, MoveKeeps DEF Poll, Role

LEMMA ReadCheckoutKeeps ==
  ASSUME IInv, NEW h \in Handlers, ReadCheckout(h)
  PROVE  IInv'
<1>1. \A what \in {"captured", "declined", "expired"} :
        /\ Reading(h, "settleCheckout", what) \in Local
        /\ Fits(Reading(h, "settleCheckout", what), rec)
  BY ReadingFits DEF Label, Critical, EventLabels, Found
<1>2. CASE /\ UNCHANGED outside
           /\ \E what \in {"captured", "declined", "expired"} :
                Move(h, Reading(h, "settleCheckout", what))
  BY <1>1, <1>2, OutsideQuiet, MoveKeeps DEF IInv
<1>3. CASE UNCHANGED outside /\ Move(h, Returned(h))
  BY <1>3, OutsideQuiet, ReturnedFits, MoveKeeps DEF IInv
<1>4. CASE CallFails(h, Returned(h))
  BY <1>4, ReturnedFits, CallFailsKeeps
<1> QED BY <1>2, <1>3, <1>4 DEF ReadCheckout

LEMMA SettleCheckoutKeeps ==
  ASSUME IInv, NEW h \in Handlers, SettleCheckout(h)
  PROVE  IInv'
<1>1. Quiet
  BY OutsideQuiet DEF IInv, SettleCheckout
<1>2. /\ Reading(h, "fulfill", "none") \in Local
      /\ \A row : Fits(Reading(h, "fulfill", "none"), row)
  BY ReadingFits DEF Label, Critical, EventLabels, Found, AirtimeState
<1>3. CASE Save(h, Captured(rec), Reading(h, "fulfill", "none"))
  BY <1>1, <1>2, <1>3, CapturedIsHarmless, HarmlessFits, SaveKeeps
<1>4. CASE Save(h, Failed(rec, "PAYMENT_FAILED"), Returned(h))
  BY <1>1, <1>4, ReturnedFits, FailedIsHarmless, HarmlessFits, SaveKeeps DEF FailureCode
<1>5. CASE Move(h, Returned(h))
  BY <1>1, <1>5, ReturnedFits, MoveKeeps
<1> QED BY <1>3, <1>4, <1>5 DEF SettleCheckout

LEMMA QueryRefundKeeps ==
  ASSUME IInv, NEW h \in Handlers, QueryRefund(h)
  PROVE  IInv'
<1>1. CASE /\ UNCHANGED outside /\ RefundConfirmed
           /\ Move(h, At(h, "confirmRefund"))
  BY <1>1, OutsideQuiet, ConfirmingFits, MoveKeeps DEF IInv, RefundConfirmed
<1>2. CASE /\ UNCHANGED outside /\ rec.payment = "REFUND_PENDING"
           /\ Move(h, At(h, "refundAgain"))
  <2>1. rec.recoveryStarted
    BY <1>2 DEF IInv, SettlementInv, RecoveryIsSafe
  <2> QED BY <1>2, <2>1, OutsideQuiet, RecoveringFits, MoveKeeps DEF IInv
<1>3. CASE UNCHANGED outside /\ Move(h, Returned(h))
  BY <1>3, OutsideQuiet, ReturnedFits, MoveKeeps DEF IInv
<1>4. CASE CallFails(h, Returned(h))
  BY <1>4, ReturnedFits, CallFailsKeeps
<1> QED BY <1>1, <1>2, <1>3, <1>4 DEF QueryRefund

\* What the provider reports now is its word on the top-up.
LEMMA LookupKeeps ==
  ASSUME IInv, NEW h \in Handlers, airtime # "none", UNCHANGED outside,
         Move(h, Reading(h, "apply", airtime))
  PROVE  IInv'
<1>1. airtime \in Accepted /\ airtime \in Found
  BY DEF IInv, TypeOK, Accepted, Found
<1>2. /\ Reading(h, "apply", airtime) \in Local /\ Reading(h, "apply", airtime).at = "apply"
      /\ Reading(h, "apply", airtime).found = airtime
      /\ Reading(h, "apply", airtime).role = proc[h].role
      /\ Reading(h, "apply", airtime).event = proc[h].event
  BY <1>1, ReadingFacts DEF IInv, Label
<1>3. Fits(Reading(h, "apply", airtime), rec)
  BY <1>1, <1>2 DEF Fits, IInv, SettlementInv, EventIsAtHand, EventLabels
<1> QED BY <1>2, <1>3, OutsideQuiet, MoveKeeps DEF IInv

LEMMA ReadTopUpKeeps ==
  ASSUME IInv, NEW h \in Handlers, ReadTopUp(h)
  PROVE  IInv'
<1>1. airtime # "none"
  BY DEF ReadTopUp, IInv, SettlementInv, ResultIsGenuine
<1> QED BY <1>1, LookupKeeps, IdleFits, CallFailsKeeps DEF ReadTopUp

LEMMA FindTopUpKeeps ==
  ASSUME IInv, NEW h \in Handlers, FindTopUp(h)
  PROVE  IInv'
<1>1. CASE UNCHANGED outside /\ Save(h, rec, Returned(h))
  BY <1>1, OutsideQuiet, ReturnedFits, CurrentRowFits, SaveKeeps DEF IInv
<1> QED BY <1>1, LookupKeeps, IdleFits, CallFailsKeeps DEF FindTopUp

LEMMA DeferKeeps ==
  ASSUME IInv, NEW h \in Handlers, Defer(h)
  PROVE  IInv'
<1>1. Quiet
  BY OutsideQuiet DEF IInv, Defer
<1> QED BY <1>1, IdleFits, CurrentRowFits, SaveKeeps, MoveKeeps DEF Defer

---------------------------------------------------------------------------
(* reviewHeldRecharge and the cancellations.                               *)

LEMMA ApproveFraudReviewKeeps ==
  ASSUME IInv, NEW h \in Handlers, ApproveFraudReview(h)
  PROVE  IInv'
<1>1. Quiet
  BY DEF ApproveFraudReview, IInv, TypeOK, OutsideOK, Quiet
<1>2. /\ Started("review", "release") \in Local
      /\ Fits(Started("review", "release"), rec)
  BY StartedFits DEF Role, Label, Critical, EventLabels
<1> QED BY <1>1, <1>2, MoveKeeps DEF ApproveFraudReview

LEMMA ReleaseKeeps ==
  ASSUME IInv, NEW h \in Handlers, Release(h)
  PROVE  IInv'
<1> DEFINE row == [rec EXCEPT !.failure = "FRAUD_REVIEW_APPROVED"]
<1>1. Quiet
  BY OutsideQuiet DEF IInv, Release
<1>2. Harmless(row)
  BY DEF IInv, TypeOK, Row, FailureCode, Harmless
<1>3. At(h, "fulfill") \in Local /\ Fits(At(h, "fulfill"), row)
  BY AtFits DEF Label, Critical, EventLabels
<1> QED BY <1>1, <1>2, <1>3, HarmlessFits, SaveKeeps DEF Release

LEMMA CancelKeeps ==
  ASSUME IInv, NEW h \in Handlers, Cancel(h)
  PROVE  IInv'
<1>1. Quiet
  BY OutsideQuiet DEF IInv, Cancel
<1>2. \A label \in {"claimCancel", "expire"}, f \in {"PENDING", "SESSION_CREATED"} :
        LET next == [Started("cancel", label) EXCEPT !.found = f]
        IN  next \in Local /\ Fits(next, rec)
  <2> TAKE label \in {"claimCancel", "expire"}, f \in {"PENDING", "SESSION_CREATED"}
  <2> DEFINE next == [Started("cancel", label) EXCEPT !.found = f]
  <2>1. /\ Started("cancel", label) \in Local /\ Started("cancel", label).at = label
        /\ Started("cancel", label).role = "cancel"
    BY StartedFacts DEF Role, Label
  <2>2. next \in Local /\ next.at = label /\ next.role = "cancel"
    BY <2>1 DEF Local, Found, PaymentStatus
  <2> QED BY <2>2, UncriticalFits DEF Critical, EventLabels
<1> QED BY <1>1, <1>2, MoveKeeps DEF Cancel

LEMMA ClaimCancelKeeps ==
  ASSUME IInv, NEW h \in Handlers, ClaimCancel(h)
  PROVE  IInv'
<1> DEFINE row == [rec EXCEPT !.paymentStarted = TRUE]
<1>1. Quiet
  BY OutsideQuiet DEF IInv, ClaimCancel
<1>2. Harmless(row)
  BY DEF IInv, TypeOK, Row, Harmless
<1>3. At(h, "cancelPayment") \in Local /\ Fits(At(h, "cancelPayment"), row)
  BY AtFits DEF Label, Critical, EventLabels
<1>4. CASE Save(h, row, At(h, "cancelPayment"))
  BY <1>1, <1>2, <1>3, <1>4, HarmlessFits, SaveKeeps
<1>5. CASE Move(h, Idle)
  BY <1>1, <1>5, IdleFits, MoveKeeps
<1> QED BY <1>4, <1>5 DEF ClaimCancel

LEMMA ExpireCheckoutKeeps ==
  ASSUME IInv, NEW h \in Handlers, ExpireCheckout(h)
  PROVE  IInv'
<1>1. Quiet
  BY ExpiringIsQuiet DEF ExpireCheckout, Fault, IInv, TypeOK
<1>2. At(h, "cancelPayment") \in Local /\ Fits(At(h, "cancelPayment"), rec)
  BY AtFits DEF Label, Critical, EventLabels
<1> QED BY <1>1, <1>2, IdleFits, MoveKeeps DEF ExpireCheckout

LEMMA CancelPaymentKeeps ==
  ASSUME IInv, NEW h \in Handlers, CancelPayment(h)
  PROVE  IInv'
<1>1. Quiet
  BY OutsideQuiet DEF IInv, CancelPayment
<1>2. CASE Save(h, Failed(rec, "CANCELLED"), Idle)
  BY <1>1, <1>2, IdleFits, FailedIsHarmless, HarmlessFits, SaveKeeps DEF FailureCode
<1>3. CASE Move(h, Idle)
  BY <1>1, <1>3, IdleFits, MoveKeeps
<1> QED BY <1>2, <1>3 DEF CancelPayment

LEMMA AdminCancelKeeps ==
  ASSUME IInv, NEW h \in Handlers, AdminCancel(h)
  PROVE  IInv'
<1>1. Quiet
  BY OutsideQuiet DEF IInv, AdminCancel
<1>2. /\ Started("adminCancel", "expireUnpaid") \in Local
      /\ Fits(Started("adminCancel", "expireUnpaid"), rec)
  BY StartedFits DEF Role, Label, Critical, EventLabels
<1> QED BY <1>1, <1>2, MoveKeeps DEF AdminCancel

LEMMA ExpireUnpaidKeeps ==
  ASSUME IInv, NEW h \in Handlers, ExpireUnpaid(h)
  PROVE  IInv'
<1> DEFINE next == [proc[h] EXCEPT !.at = "cancelByAdmin"]
<1>1. /\ proc[h] \in Local
      /\ proc[h].role = "webhook" => proc[h].event \in Events
  BY DEF IInv, TypeOK, SettlementInv, EventIsAtHand
<1>2. /\ next \in Local /\ next.at = "cancelByAdmin"
      /\ next.role = proc[h].role /\ next.event = proc[h].event
  BY <1>1 DEF Local, Label
<1>3. \/ /\ stripe' = ExpireSession /\ emitted' = ExpiredEvents
         /\ (Move(h, next) /\ UNCHANGED faults) \/ (Fault /\ Move(h, Idle))
         /\ UNCHANGED <<assessment, ledger, processed, airtime, submissions>>
      \/ /\ Move(h, Idle)
         /\ UNCHANGED <<stripe, emitted, faults>>
         /\ UNCHANGED <<assessment, ledger, processed, airtime, submissions>>
  BY DEF ExpireUnpaid
<1> HIDE DEF next
<1>4. Fits(next, rec)
  BY <1>1, <1>2, UncriticalFits DEF Critical, EventLabels
<1>5. CASE /\ stripe' = ExpireSession /\ emitted' = ExpiredEvents
           /\ (Move(h, next) /\ UNCHANGED faults) \/ (Fault /\ Move(h, Idle))
           /\ UNCHANGED <<assessment, ledger, processed, airtime, submissions>>
  <2>1. Quiet
    BY <1>5, ExpiringIsQuiet DEF Fault, IInv, TypeOK
  <2> QED BY <1>2, <1>4, <1>5, <2>1, IdleFits, MoveKeeps
<1>6. CASE /\ Move(h, Idle)
           /\ UNCHANGED <<stripe, emitted, faults>>
           /\ UNCHANGED <<assessment, ledger, processed, airtime, submissions>>
  BY <1>6, IdleFits, OutsideQuiet, MoveKeeps DEF outside, IInv
<1> QED BY <1>3, <1>5, <1>6

LEMMA CancelPendingByAdminKeeps ==
  ASSUME IInv, NEW h \in Handlers, CancelPendingByAdmin(h)
  PROVE  IInv'
<1>1. Quiet
  BY OutsideQuiet DEF IInv, CancelPendingByAdmin
<1>2. CASE Save(h, Failed(rec, "CANCELLED"), Idle)
  BY <1>1, <1>2, IdleFits, FailedIsHarmless, HarmlessFits, SaveKeeps DEF FailureCode
<1>3. CASE Move(h, Idle)
  BY <1>1, <1>3, IdleFits, MoveKeeps
<1> QED BY <1>2, <1>3 DEF CancelPendingByAdmin

---------------------------------------------------------------------------
(* The parties outside.                                                    *)

LEMMA StandingStillKeeps ==
  ASSUME IInv, Quiet, UNCHANGED <<rec, proc>>
  PROVE  IInv'
<1>1. TypeOK'
  BY DEF IInv, TypeOK, Quiet, OutsideOK
<1>2. OneClaimant' /\ ResultIsGenuine'
  BY DEF IInv, SettlementInv, OneClaimant, ResultIsGenuine, Quiet
<1>3. RecoveryIsSafe'
  BY DEF IInv, SettlementInv, RecoveryIsSafe, NoAirtime, NobodySubmits, Quiet
<1>4. ConfirmationIsGenuine' /\ EventIsAtHand'
  BY DEF IInv, SettlementInv, ConfirmationIsGenuine, EventIsAtHand, Quiet
<1> QED BY <1>1, <1>2, <1>3, <1>4 DEF IInv, SettlementInv

LEMMA CustomerKeeps ==
  ASSUME IInv, CustomerPays \/ CustomerIsDeclined \/ DelayedPaymentSettles
  PROVE  IInv'
<1>1. Quiet
  <2>1. stripe \in StripeState /\ emitted \subseteq Events
    BY DEF IInv, TypeOK
  <2>2. /\ stripe' \in StripeState /\ stripe'.refund = stripe.refund
        /\ emitted' \subseteq Events
    BY <2>1 DEF CustomerPays, CustomerIsDeclined, DelayedPaymentSettles, StripeState,
                Events, PaidEvents, FailureEvents
  <2>3. StripeMoves
    BY DEF CustomerPays, CustomerIsDeclined, DelayedPaymentSettles
  <2> QED BY <2>2, <2>3 DEF StripeMoves, IInv, TypeOK, Quiet, OutsideOK
<1>2. UNCHANGED <<rec, proc>>
  BY DEF CustomerPays, CustomerIsDeclined, DelayedPaymentSettles, StripeMoves
<1> QED BY <1>1, <1>2, StandingStillKeeps

LEMMA SessionExpiresKeeps ==
  ASSUME IInv, SessionExpires
  PROVE  IInv'
<1>1. Quiet
  BY ExpiringIsQuiet DEF SessionExpires, StripeMoves, IInv, TypeOK
<1> QED BY <1>1, StandingStillKeeps DEF SessionExpires, StripeMoves

LEMMA RefundSettlesKeeps ==
  ASSUME IInv, RefundSettles
  PROVE  IInv'
<1>1. rec.recoveryStarted
  BY DEF RefundSettles, IInv, SettlementInv, RecoveryIsSafe
<1>2. /\ rec' = rec /\ proc' \in [Handlers -> Local] /\ \A g \in Handlers : proc'[g] = proc[g]
      /\ stripe' = [stripe EXCEPT !.refund = "succeeded"] /\ faults' \in Nat
      /\ UNCHANGED <<assessment, ledger, processed, emitted, airtime, submissions>>
  BY DEF RefundSettles, StripeMoves, IInv, TypeOK
<1> QED BY <1>1, <1>2, RefundMovesKeeps

\* An airtime result that came to nothing stays so once nobody can submit again.
LEMMA AirtimeNextIsGenuine ==
  ASSUME NEW a \in Accepted, NEW b \in AirtimeNext[a]
  PROVE  b \in Accepted /\ a \notin {"FAILED", "REFUNDED"}
BY DEF AirtimeNext, Accepted, AirtimeState

LEMMA AirtimeMovesKeeps ==
  ASSUME IInv, AirtimeMoves({"CREATED", "PROCESSING"}) \/ AirtimeMoves({"SUCCESSFUL"})
  PROVE  IInv'
<1>1. /\ airtime \in {"CREATED", "PROCESSING", "SUCCESSFUL"} /\ airtime' \in AirtimeNext[airtime]
      /\ UNCHANGED <<rec, assessment, ledger, processed, stripe, emitted,
                     submissions, proc, faults>>
  BY DEF AirtimeMoves
<1>2. airtime' \in AirtimeState /\ airtime' # "none"
  BY <1>1, AirtimeNextIsGenuine DEF Accepted, AirtimeState
<1>3. TypeOK'
  BY <1>1, <1>2 DEF IInv, TypeOK
<1>4. OneClaimant'
  BY <1>1, <1>2 DEF IInv, SettlementInv, OneClaimant
<1>5. ResultIsGenuine'
  BY <1>1, <1>2 DEF IInv, SettlementInv, ResultIsGenuine
<1>6. ~NoAirtime
  BY <1>1 DEF NoAirtime
<1>7. RecoveryIsSafe'
  BY <1>1, <1>6 DEF IInv, SettlementInv, RecoveryIsSafe
<1>8. ConfirmationIsGenuine' /\ EventIsAtHand'
  BY <1>1 DEF IInv, SettlementInv, ConfirmationIsGenuine, EventIsAtHand
<1> QED BY <1>3, <1>4, <1>5, <1>7, <1>8 DEF IInv, SettlementInv

---------------------------------------------------------------------------
(* The invariant holds in every reachable state.                           *)

LEMMA InitHolds == Init => IInv
<1> SUFFICES ASSUME Init PROVE IInv
  OBVIOUS
<1>1. Idle \in Local /\ Idle.at = "idle" /\ Idle.role = "none"
  BY IdleIsLocal DEF Idle
<1>2. TypeOK
  BY <1>1 DEF Init, TypeOK, Reserved, Row, RechargeStatus, PaymentStatus, FailureCode,
              StripeState, AirtimeState
<1>3. \A h \in Handlers : proc[h].at = "idle" /\ proc[h].role = "none"
  BY <1>1 DEF Init
<1>4. SettlementInv
  BY <1>3 DEF Init, Reserved, SettlementInv, OneClaimant, ResultIsGenuine, RecoveryIsSafe,
              ConfirmationIsGenuine, EventIsAtHand, NobodySubmits, NoAirtime
<1> QED BY <1>2, <1>4 DEF IInv

LEMMA StepKeeps ==
  ASSUME IInv, NEW h \in Handlers, Step(h)
  PROVE  IInv'
<1>1. CASE CreateSession(h) \/ SessionRefused(h) \/ StoreSession(h)
  BY <1>1, CreateSessionKeeps, SessionRefusedKeeps, StoreSessionKeeps
<1>2. CASE BlockRetries(h) \/ TransitionPayment(h) \/ CompleteEvent(h)
  BY <1>2, BlockRetriesKeeps, TransitionPaymentKeeps, CompleteEventKeeps
<1>3. CASE Fulfill(h) \/ Gate(h) \/ Hold(h) \/ ClaimFulfillment(h) \/ SubmitTopUp(h)
  BY <1>3, FulfillKeeps, GateKeeps, HoldKeeps, ClaimFulfillmentKeeps, SubmitTopUpKeeps
<1>4. CASE RecordRejected(h) \/ RecordUnknown(h) \/ Apply(h) \/ PostLedger(h)
  BY <1>4, RecordRejectedKeeps, RecordUnknownKeeps, ApplyKeeps, PostLedgerKeeps
<1>5. CASE ReadEvidence(h) \/ ClaimSecurityRefund(h) \/ ClaimRecovery(h)
  BY <1>5, ReadEvidenceKeeps, ClaimSecurityRefundKeeps, ClaimRecoveryKeeps
<1>6. CASE ReadPayment(h) \/ MarkRefund(h) \/ Refund(h) \/ ConfirmRefund(h)
  BY <1>6, ReadPaymentKeeps, MarkRefundKeeps, RefundKeeps, ConfirmRefundKeeps
<1>7. CASE ReadCheckout(h) \/ SettleCheckout(h) \/ QueryRefund(h)
  BY <1>7, ReadCheckoutKeeps, SettleCheckoutKeeps, QueryRefundKeeps
<1>8. CASE ReadTopUp(h) \/ FindTopUp(h) \/ Defer(h) \/ Release(h)
  BY <1>8, ReadTopUpKeeps, FindTopUpKeeps, DeferKeeps, ReleaseKeeps
<1>9. CASE ClaimCancel(h) \/ ExpireCheckout(h) \/ CancelPayment(h)
  BY <1>9, ClaimCancelKeeps, ExpireCheckoutKeeps, CancelPaymentKeeps
<1>10. CASE ExpireUnpaid(h) \/ CancelPendingByAdmin(h)
  BY <1>10, ExpireUnpaidKeeps, CancelPendingByAdminKeeps
<1> QED BY <1>1, <1>2, <1>3, <1>4, <1>5, <1>6, <1>7, <1>8, <1>9, <1>10 DEF Step

LEMMA NextKeeps == IInv /\ [Next]_vars => IInv'
<1> SUFFICES ASSUME IInv, [Next]_vars PROVE IInv'
  OBVIOUS
<1>1. ASSUME NEW h \in Requests, Request(h) PROVE IInv'
  BY <1>1, ClaimPaymentKeeps, PollKeeps, ApproveFraudReviewKeeps, CancelKeeps, AdminCancelKeeps
     DEF Request, Handlers
<1>2. ASSUME NEW h \in Requests, Deliver(h) PROVE IInv'
  BY <1>2, AcceptAndBlockRetriesKeeps, AcceptEventKeeps DEF Deliver, Handlers
<1>3. ASSUME NEW w \in Workers, Reconcile(w) PROVE IInv'
  BY <1>3, ReconcileKeeps DEF Handlers
<1>4. ASSUME NEW h \in Handlers, Crash(h) PROVE IInv'
  BY <1>4, IdleFits, CallFailsKeeps DEF Crash
<1>5. CASE Outside
  BY <1>5, CustomerKeeps, SessionExpiresKeeps, RefundSettlesKeeps, AirtimeMovesKeeps
     DEF Outside, AirtimeSettles, AirtimeIsReversed
<1>6. CASE UNCHANGED vars
  <2>1. Quiet /\ UNCHANGED <<rec, proc>>
    BY <1>6, OutsideQuiet DEF vars, outside, IInv
  <2> QED BY <2>1, StandingStillKeeps
<1> QED BY <1>1, <1>2, <1>3, <1>4, <1>5, <1>6, StepKeeps DEF Next

LEMMA Invariance == Spec => []IInv
BY InitHolds, NextKeeps, PTL DEF Spec

\* Every write of the row, whichever handler makes it and however stale its copy,
\* leaves a row, a Stripe state and handlers of the declared types.
THEOREM TypeCorrect == Spec => []TypeOK
<1>1. IInv => TypeOK
  BY DEF IInv
<1> QED BY <1>1, Invariance, PTL

\* The claims taken in claimOperation and claimSecurityRefund make the row's
\* flags, the provider's results and Stripe's answers agree at every step.
THEOREM ClaimsAreSound == Spec => []SettlementInv
<1>1. IInv => SettlementInv
  BY DEF IInv
<1> QED BY <1>1, Invariance, PTL

\* However many processes, webhooks, timers and staff reviews run
\* fulfillPaidRecharge for a recharge, and wherever they crash, submitTopUp
\* reaches the provider at most once.
THEOREM SingleSubmission == Spec => []AtMostOneSubmission
<1>1. IInv => AtMostOneSubmission
  BY DEF IInv, SettlementInv, OneClaimant, AtMostOneSubmission
<1> QED BY <1>1, Invariance, PTL

\* recoverPayment, refundConfirmedSecurityFailure and reconcilePaymentRecovery
\* refund only a recharge whose airtime never came, and for which nobody can
\* still ask.
THEOREM RefundIsExclusive == Spec => []RefundExcludesAirtime
<1>1. IInv => RefundExcludesAirtime
  BY DEF IInv, SettlementInv, RecoveryIsSafe, NoAirtime, NobodySubmits, RefundExcludesAirtime
<1> QED BY <1>1, Invariance, PTL

\* transitionPayment to REFUNDED is reached only with Stripe's confirmation.
THEOREM RefundedIsConfirmed == Spec => []RefundedOnlyWhenConfirmed
<1>1. IInv => RefundedOnlyWhenConfirmed
  BY DEF IInv, SettlementInv, ConfirmationIsGenuine, RefundedOnlyWhenConfirmed
<1> QED BY <1>1, Invariance, PTL

---------------------------------------------------------------------------
(* The payment: what the row, Stripe and the handlers say of it.  Every    *)
(* step keeps PaymentInv, given the invariant above, and moves the payment *)
(* of the row forward or not at all.                                       *)

RowInv == IInv /\ PaymentInv

\* What no step takes back.
Advances ==
  /\ rec.session => rec'.session
  /\ rec.payment \in Received => rec'.payment \in Received
  /\ rec.session /\ stripe.session = "expired" => stripe'.session = "expired"
  /\ stripe.intent = "succeeded" => stripe'.intent = "succeeded"
  /\ emitted \subseteq emitted'
  /\ airtime \in {"SUCCESSFUL", "REFUNDED"} => airtime' \in {"SUCCESSFUL", "REFUNDED"}

Forward == PaymentRank[rec'.payment] >= PaymentRank[rec.payment]

PaymentStep == PaymentInv' /\ Forward

\* Handler g is where it was, but for its copy of the row.
Stays(g) ==
  /\ proc'[g].at = proc[g].at /\ proc'[g].found = proc[g].found
  /\ proc'[g].role = proc[g].role /\ proc'[g].event = proc[g].event

LEMMA RankFacts ==
  /\ \A p \in PaymentStatus : PaymentRank[p] \in 0..3
  /\ PaymentRank["CAPTURED"] = 1 /\ PaymentRank["REFUND_PENDING"] = 2
  /\ PaymentRank["REFUNDED"] = 3
  /\ \A p \in Unpaid : PaymentRank[p] = 0
  /\ Unpaid = PaymentStatus \ Received
BY DEF PaymentRank, PaymentStatus, Unpaid, AwaitingPayment, Received

LEMMA BackedLasts ==
  ASSUME Advances, NEW g \in Handlers, NEW l, Backed(l),
         proc'[g].at = l.at, proc'[g].found = l.found,
         proc'[g].role = l.role, proc'[g].event = l.event
  PROVE  Backed(proc[g])'
BY DEF Advances, Backed

\* Nothing but an expiry happens to the payment at Stripe, and no airtime moves.
Still ==
  /\ stripe'.intent = stripe.intent
  /\ \/ stripe'.session = stripe.session
     \/ stripe.session = "open" /\ stripe'.session = "expired"
  /\ emitted \subseteq emitted' /\ PaidEvents \intersect emitted' = PaidEvents \intersect emitted
  /\ UNCHANGED <<processed, ledger, airtime>>

\* A write that leaves an unpaid row unpaid, and a paid one paid.
RowSteady(row) ==
  /\ row.session = rec.session /\ row.paymentStarted = rec.paymentStarted
  /\ \/ row.payment = rec.payment
     \/ rec.payment = "CAPTURED" /\ row.payment = "REFUND_PENDING"
     \/ rec.payment = "REFUND_PENDING" /\ row.payment = "REFUNDED"
  /\ row.failure = "CANCELLED" => rec.failure = "CANCELLED"

LEMMA SteadyAdvances ==
  ASSUME RowInv, Still, RowSteady(rec')
  PROVE  Advances /\ Forward
BY RankFacts DEF RowInv, IInv, TypeOK, Row, Still, RowSteady, Advances, Forward, Received

\* The invariant without the handlers.
LEMMA SteadyKeeps ==
  ASSUME RowInv, Still, RowSteady(rec'), NEW h \in Handlers,
         \A g \in Handlers \ {h} : Stays(g),
         ~Claimant(proc'[h]) \/ (stripe'.session = stripe.session /\ Stays(h)), Backed(proc[h])'
  PROVE  PaymentStep
<1>1. Advances /\ Forward
  BY SteadyAdvances
<1>2. \A g \in Handlers : Backed(proc[g])'
  BY <1>1, BackedLasts DEF RowInv, PaymentInv, Stays
<1>3. \A g \in Handlers : Claimant(proc'[g]) => Claimant(proc[g]) /\ Stays(g)
  BY DEF Claimant, Stays
<1>4. OneCheckout'
  <2>2. rec'.session => rec'.paymentStarted /\ stripe'.session # "none"
    BY DEF RowInv, PaymentInv, OneCheckout, Still, RowSteady
  <2>3. ~rec'.session => rec'.payment \in {"PENDING", "FAILED"} /\ stripe'.intent = "none"
    BY DEF RowInv, PaymentInv, OneCheckout, Still, RowSteady
  <2>4. ASSUME NEW k \in Handlers, Claimant(proc'[k])
        PROVE  /\ rec'.paymentStarted /\ ~rec'.session /\ rec'.payment = "PENDING"
               /\ proc'[k].at = "storeSession" => stripe'.session # "none"
               /\ \A g \in Handlers : Claimant(proc'[g]) => g = k
    BY <1>3, <2>4 DEF RowInv, PaymentInv, OneCheckout, Still, RowSteady, Stays
  <2> QED BY <2>2, <2>3, <2>4 DEF OneCheckout, Claimant
<1>5. PaymentIsGenuine'
  BY DEF RowInv, PaymentInv, PaymentIsGenuine, Still, RowSteady, Received
<1>6. CancelledIsClosed'
  BY DEF RowInv, PaymentInv, CancelledIsClosed, Still, RowSteady
<1>7. LedgerFollowsAirtime'
  BY DEF RowInv, PaymentInv, LedgerFollowsAirtime, Still
<1> QED BY <1>1, <1>2, <1>4, <1>5, <1>6, <1>7 DEF PaymentStep, PaymentInv

LEMMA SteadyMove ==
  ASSUME RowInv, Still, NEW h \in Handlers, NEW next \in Local, Move(h, next),
         Backed(next), ~Claimant(next)
  PROVE  PaymentStep
<1>1. /\ rec' = rec /\ proc'[h] = next
      /\ \A g \in Handlers \ {h} : proc'[g] = proc[g]
  BY MoveFacts DEF RowInv, IInv
<1>2. RowSteady(rec')
  BY <1>1 DEF RowSteady
<1>3. Backed(proc[h])'
  BY <1>1, <1>2, SteadyAdvances, BackedLasts
<1> QED BY <1>1, <1>2, <1>3, SteadyKeeps DEF Stays

LEMMA SteadySave ==
  ASSUME RowInv, Still, NEW h \in Handlers, NEW row \in Row, NEW next \in Local,
         Save(h, row, next), RowSteady(row), Backed(next), ~Claimant(next)
  PROVE  PaymentStep
<1>1. /\ rec' = row /\ proc'[h] = next
      /\ \A g \in Handlers \ {h} : Stays(g)
  BY SaveFacts DEF RowInv, IInv, Stays
<1>2. RowSteady(rec')
  BY <1>1
<1>3. Backed(proc[h])'
  BY <1>1, <1>2, SteadyAdvances, BackedLasts
<1> QED BY <1>1, <1>2, <1>3, SteadyKeeps

LEMMA SameRowIsSteady == RowSteady(rec)
BY DEF RowSteady

LEMMA OutsideStill == UNCHANGED outside => Still
BY DEF outside, Still

LEMMA CallFailsStill ==
  ASSUME NEW h \in Handlers, NEW next, CallFails(h, next)
  PROVE  Still /\ Move(h, next)
BY DEF CallFails, Still

---------------------------------------------------------------------------
(* Where a handler may go.                                                 *)

\* The steps that rely on more than the event and the role of their handler.
Relying == {"blockRetries", "transition", "readCheckout", "settleCheckout", "expire",
            "expireUnpaid", "cancelByAdmin", "claimCancel", "cancelPayment",
            "apply", "postLedger"}

LEMMA IdleIsBacked == Idle \in Local /\ Backed(Idle) /\ ~Claimant(Idle)
BY IdleIsLocal DEF Idle, Backed, Claimant, PaidEvents

\* The event and the role are enough for the rest.
LEMMA KeptIsBacked ==
  ASSUME RowInv, NEW h \in Handlers, NEW l,
         l.event = proc[h].event, l.role = proc[h].role,
         proc[h].at # "transition" \/ proc[h].event \notin PaidEvents,
         l.at \notin Relying,
         FlupFlap /\ proc[h].role = "poll" => l.at \in PollLabel
  PROVE  Backed(l)
BY DEF RowInv, PaymentInv, Backed, Relying

LEMMA ReturnedIsBacked ==
  ASSUME RowInv, NEW h \in Handlers,
         proc[h].at # "transition" \/ proc[h].event \notin PaidEvents
  PROVE  Returned(h) \in Local /\ Backed(Returned(h)) /\ ~Claimant(Returned(h))
<1>0. TypeOK /\ Returned(h) \in Local
  BY ReturnedFacts DEF RowInv, IInv
<1>1. CASE Returned(h) = Idle
  BY <1>0, <1>1, IdleIsBacked
<1>2. CASE Returned(h) = Reading(h, "complete", "none") /\ proc[h].role = "webhook"
  <2>1. /\ Returned(h).at = "complete" /\ Returned(h).role = "webhook"
        /\ Returned(h).event = proc[h].event
    BY <1>0, <1>2, ReadingFacts DEF Label, Found, AirtimeState
  <2> QED BY <1>0, <1>2, <2>1, KeptIsBacked DEF Relying, Claimant
<1>3. CASE Returned(h) = Reading(h, "defer", "none") /\ proc[h].role = "worker"
  <2>1. /\ Returned(h).at = "defer" /\ Returned(h).role = "worker"
        /\ Returned(h).event = proc[h].event
    BY <1>0, <1>3, ReadingFacts DEF Label, Found, AirtimeState
  <2> QED BY <1>0, <1>3, <2>1, KeptIsBacked DEF Relying, Claimant
<1> QED BY <1>1, <1>2, <1>3 DEF Returned

LEMMA AtIsBacked ==
  ASSUME RowInv, NEW h \in Handlers, NEW label \in Label \ Relying,
         label \notin {"createSession", "storeSession"},
         proc[h].at # "transition" \/ proc[h].event \notin PaidEvents,
         proc[h].at \in PollLabel /\ FlupFlap /\ proc[h].role = "poll" => label \in PollLabel
  PROVE  At(h, label) \in Local /\ Backed(At(h, label)) /\ ~Claimant(At(h, label))
<1>1. /\ At(h, label) \in Local /\ At(h, label).at = label
      /\ At(h, label).role = proc[h].role /\ At(h, label).event = proc[h].event
  BY AtFacts DEF RowInv, IInv
<1>2. FlupFlap /\ proc[h].role = "poll" => label \in PollLabel
  BY DEF RowInv, PaymentInv, Backed
<1> QED BY <1>1, <1>2, KeptIsBacked DEF Claimant, Relying

LEMMA ReadingIsBacked ==
  ASSUME RowInv, NEW h \in Handlers, NEW label \in Label \ Relying, NEW what \in Found,
         label \notin {"createSession", "storeSession"},
         proc[h].at # "transition" \/ proc[h].event \notin PaidEvents,
         proc[h].at \in PollLabel /\ FlupFlap /\ proc[h].role = "poll" => label \in PollLabel
  PROVE  /\ Reading(h, label, what) \in Local
         /\ Backed(Reading(h, label, what)) /\ ~Claimant(Reading(h, label, what))
<1>1. /\ Reading(h, label, what) \in Local /\ Reading(h, label, what).at = label
      /\ Reading(h, label, what).role = proc[h].role
      /\ Reading(h, label, what).event = proc[h].event
  BY ReadingFacts DEF RowInv, IInv
<1>2. FlupFlap /\ proc[h].role = "poll" => label \in PollLabel
  BY DEF RowInv, PaymentInv, Backed
<1> QED BY <1>1, <1>2, KeptIsBacked DEF Claimant, Relying

\* A handler that starts with no event has only its first step to answer for.
LEMMA StartedIsBacked ==
  ASSUME NEW role \in Role, NEW label \in Label \ Relying,
         label \notin {"createSession", "storeSession"},
         FlupFlap /\ role = "poll" => label \in PollLabel
  PROVE  /\ Started(role, label) \in Local
         /\ Backed(Started(role, label)) /\ ~Claimant(Started(role, label))
<1>1. Started(role, label) \in Local /\ Started(role, label).at = label
      /\ Started(role, label).role = role
  BY StartedFacts
<1>2. Started(role, label).event = "none"
  BY DEF Started, Idle
<1> QED BY <1>1, <1>2 DEF Backed, Claimant, Relying, PaidEvents

---------------------------------------------------------------------------
(* createPaymentSession: the claim on the row leads to one session.        *)

\* The claim is taken: h is the only claimant.
LEMMA ClaimingKeeps ==
  ASSUME RowInv, NEW h \in Handlers, ~rec.paymentStarted,
         rec' = [rec EXCEPT !.paymentStarted = TRUE], rec.payment = "PENDING",
         UNCHANGED <<ledger, processed, stripe, emitted, airtime>>,
         \A g \in Handlers \ {h} : Stays(g), proc'[h].at # "storeSession", Backed(proc[h])'
  PROVE  PaymentStep
<1>1. rec' \in Row /\ rec'.session = rec.session /\ rec'.payment = rec.payment
      /\ rec'.failure = rec.failure /\ rec'.paymentStarted
  BY DEF RowInv, IInv, TypeOK, Row
<1>2. \A g \in Handlers \ {h} : Backed(proc[g])'
  BY <1>1, BackedLasts DEF RowInv, PaymentInv, Advances, Stays
<1>3. \A g \in Handlers \ {h} : ~Claimant(proc'[g])
  BY DEF RowInv, PaymentInv, OneCheckout, Claimant, Stays
<1>4. ~rec.session
  BY DEF RowInv, PaymentInv, OneCheckout
<1>5. OneCheckout'
  BY <1>1, <1>3, <1>4 DEF RowInv, PaymentInv, OneCheckout, Claimant
<1>6. PaymentIsGenuine' /\ CancelledIsClosed' /\ LedgerFollowsAirtime'
  BY <1>1 DEF RowInv, PaymentInv, PaymentIsGenuine, CancelledIsClosed, LedgerFollowsAirtime
<1>7. Forward
  BY <1>1, RankFacts DEF Forward, RowInv, IInv, TypeOK, Row
<1> QED BY <1>2, <1>5, <1>6, <1>7 DEF PaymentStep, PaymentInv

LEMMA ClaimPaymentAgrees ==
  ASSUME RowInv, NEW h \in Handlers, ClaimPayment(h)
  PROVE  PaymentStep
<1> DEFINE row == [rec EXCEPT !.paymentStarted = TRUE]
           next == Started("checkout", "createSession")
<1>1. next \in Local /\ next.at = "createSession" /\ next.role = "checkout" /\ next.event = "none"
  BY StartedFacts DEF Role, Label, Started, Idle
<1>2. row \in Row
  BY DEF RowInv, IInv, TypeOK, Row
<1>3. /\ rec' = row /\ proc'[h] = next /\ \A g \in Handlers \ {h} : Stays(g)
  BY <1>1, <1>2, SaveFacts DEF ClaimPayment, RowInv, IInv, Stays
<1>4. Backed(proc[h])'
  BY <1>1, <1>3 DEF Backed, PaidEvents
<1> QED BY <1>1, <1>3, <1>4, ClaimingKeeps DEF ClaimPayment, outside

LEMMA CreateSessionAgrees ==
  ASSUME RowInv, NEW h \in Handlers, CreateSession(h)
  PROVE  PaymentStep
<1> DEFINE next == At(h, "storeSession")
<1>1. Claimant(proc[h]) /\ proc[h].at = "createSession"
  BY DEF CreateSession, Claimant
<1>2. ~rec.session /\ rec.paymentStarted /\ rec.payment = "PENDING" /\ stripe.intent = "none"
  BY <1>1 DEF RowInv, PaymentInv, OneCheckout
<1>3. next \in Local /\ next.at = "storeSession" /\ next.role = proc[h].role
      /\ next.event = proc[h].event
  BY AtFacts DEF Label, RowInv, IInv
<1>4. /\ rec' = rec /\ proc'[h] \in {next, Idle} /\ \A g \in Handlers \ {h} : Stays(g)
  BY <1>3, IdleIsLocal, MoveFacts, SaveFacts DEF CreateSession, RowInv, IInv, TypeOK, Stays
<1>5. stripe' = [stripe EXCEPT !.session = "open"] /\ stripe \in StripeState
  BY DEF CreateSession, RowInv, IInv, TypeOK
<1>6. stripe'.session = "open" /\ stripe'.intent = stripe.intent
  BY <1>5 DEF StripeState
<1>7. UNCHANGED <<ledger, processed, emitted, airtime>>
  BY DEF CreateSession
<1>8. Advances /\ Forward
  BY <1>2, <1>4, <1>6, <1>7, RankFacts DEF Advances, Forward, RowInv, IInv, TypeOK, Row
<1>9. \A g \in Handlers \ {h} : Backed(proc[g])'
  BY <1>4, <1>8, BackedLasts DEF RowInv, PaymentInv, Stays
<1>10. Backed(next) /\ Backed(Idle)
  BY <1>1, <1>3, IdleIsBacked, KeptIsBacked DEF Relying, RowInv, PaymentInv, Backed, PollLabel
<1>11. Backed(proc[h])'
  BY <1>4, <1>8, <1>10, BackedLasts
<1>12. \A g \in Handlers \ {h} : ~Claimant(proc'[g])
  BY <1>1, <1>4 DEF RowInv, PaymentInv, OneCheckout, Claimant, Stays
<1>13. OneCheckout'
  BY <1>2, <1>4, <1>6, <1>12 DEF RowInv, PaymentInv, OneCheckout, Claimant
<1>14. PaymentIsGenuine' /\ CancelledIsClosed' /\ LedgerFollowsAirtime'
  BY <1>2, <1>4, <1>6, <1>7
     DEF RowInv, PaymentInv, PaymentIsGenuine, CancelledIsClosed, LedgerFollowsAirtime
<1> QED BY <1>8, <1>9, <1>11, <1>13, <1>14 DEF PaymentStep, PaymentInv

LEMMA SessionRefusedAgrees ==
  ASSUME RowInv, NEW h \in Handlers, SessionRefused(h)
  PROVE  PaymentStep
<1>1. Still /\ Save(h, rec, Idle) /\ rec \in Row
  BY DEF SessionRefused, Still, RowInv, IInv, TypeOK
<1> QED BY <1>1, IdleIsBacked, SameRowIsSteady, SteadySave

LEMMA StoreSessionAgrees ==
  ASSUME RowInv, NEW h \in Handlers, StoreSession(h)
  PROVE  PaymentStep
<1> DEFINE row == [rec EXCEPT !.session = TRUE, !.payment = "SESSION_CREATED"]
<1>1. Claimant(proc[h]) /\ proc[h].at = "storeSession"
  BY DEF StoreSession, Claimant
<1>2. /\ ~rec.session /\ rec.paymentStarted /\ rec.payment = "PENDING"
      /\ stripe.intent = "none" /\ stripe.session # "none"
  BY <1>1 DEF RowInv, PaymentInv, OneCheckout
<1>3. row \in Row /\ row.session /\ row.payment = "SESSION_CREATED"
      /\ row.paymentStarted = rec.paymentStarted /\ row.failure = rec.failure
  BY DEF RowInv, IInv, TypeOK, Row, PaymentStatus
<1>4. /\ rec' = row /\ proc'[h] = Idle /\ \A g \in Handlers \ {h} : Stays(g)
  BY <1>3, IdleIsLocal, SaveFacts DEF StoreSession, RowInv, IInv, Stays
<1>5. UNCHANGED <<ledger, processed, emitted, airtime, stripe>>
  BY DEF StoreSession, outside
<1>6. Advances /\ Forward
  BY <1>2, <1>3, <1>4, <1>5, RankFacts DEF Advances, Forward, Received, Unpaid, AwaitingPayment
<1>7. \A g \in Handlers : Backed(proc[g])'
  BY <1>4, <1>6, IdleIsBacked, BackedLasts DEF RowInv, PaymentInv, Stays
<1>8. \A g \in Handlers : ~Claimant(proc'[g])
  BY <1>1, <1>4, IdleIsBacked DEF RowInv, PaymentInv, OneCheckout, Claimant, Stays
<1>9. OneCheckout'
  BY <1>2, <1>3, <1>4, <1>5, <1>8 DEF OneCheckout
<1>10. PaymentIsGenuine' /\ CancelledIsClosed' /\ LedgerFollowsAirtime'
  BY <1>2, <1>3, <1>4, <1>5
     DEF RowInv, PaymentInv, PaymentIsGenuine, CancelledIsClosed, LedgerFollowsAirtime, Received
<1> QED BY <1>6, <1>7, <1>9, <1>10 DEF PaymentStep, PaymentInv

---------------------------------------------------------------------------
(* acceptVerifiedPaymentEvent.                                             *)

LEMMA AcceptEventAgrees ==
  ASSUME RowInv, NEW h \in Handlers, NEW e \in Events, AcceptEvent(h, e)
  PROVE  PaymentStep
<1>1. Still
  BY OutsideStill DEF AcceptEvent
<1>2. \A label \in {"transition", "complete"}, f \in {"replay", "none"} :
        LET next == [Started("webhook", label) EXCEPT !.event = e, !.found = f]
        IN  /\ next \in Local /\ next.at = label /\ next.event = e /\ next.role = "webhook"
            /\ next.found = f
  <2> TAKE label \in {"transition", "complete"}, f \in {"replay", "none"}
  <2>1. /\ Started("webhook", label) \in Local /\ Started("webhook", label).at = label
        /\ Started("webhook", label).role = "webhook"
    BY StartedFacts DEF Role, Label
  <2>2. f \in Found
    BY DEF Found, AirtimeState
  <2> QED BY <2>1, <2>2 DEF Local
<1>3. PICK label \in {"transition", "complete"}, f \in {"replay", "none"} :
        /\ Move(h, [Started("webhook", label) EXCEPT !.event = e, !.found = f])
        /\ e \in PaidEvents => label = "transition"
  BY DEF AcceptEvent
<1> DEFINE next == [Started("webhook", label) EXCEPT !.event = e, !.found = f]
<1>4. /\ next \in Local /\ next.at = label /\ next.event = e /\ next.role = "webhook"
  BY <1>2
<1>5. Backed(next) /\ ~Claimant(next)
  BY <1>3, <1>4 DEF AcceptEvent, Backed, Claimant
<1> QED BY <1>1, <1>3, <1>4, <1>5, SteadyMove

LEMMA AcceptAndBlockRetriesAgrees ==
  ASSUME RowInv, NEW h \in Handlers, AcceptAndBlockRetries(h)
  PROVE  PaymentStep
<1> DEFINE next == [Started("webhook", "blockRetries") EXCEPT !.event = "paymentFailed"]
<1>1. Still
  BY OutsideStill DEF AcceptAndBlockRetries
<1>2. /\ Started("webhook", "blockRetries") \in Local
      /\ Started("webhook", "blockRetries").at = "blockRetries"
      /\ Started("webhook", "blockRetries").role = "webhook"
  BY StartedFacts DEF Role, Label
<1>3. /\ next \in Local /\ next.at = "blockRetries" /\ next.event = "paymentFailed"
      /\ next.role = "webhook"
  BY <1>2 DEF Local, Events, FailureEvents
<1>4. Backed(next) /\ ~Claimant(next)
  BY <1>3 DEF AcceptAndBlockRetries, Backed, Claimant, PaidEvents
<1> QED BY <1>1, <1>3, <1>4, SteadyMove DEF AcceptAndBlockRetries

\* An expiry at Stripe: an open session closes, and says so.
LEMMA ExpiringIsStill ==
  ASSUME RowInv, stripe' = ExpireSession, emitted' = ExpiredEvents,
         UNCHANGED <<ledger, processed, airtime>>
  PROVE  /\ Still
         /\ stripe.session \in {"open", "expired"} => stripe'.session = "expired"
BY DEF RowInv, IInv, TypeOK, StripeState, ExpireSession, ExpiredEvents, Still, PaidEvents

LEMMA BlockRetriesAgrees ==
  ASSUME RowInv, NEW h \in Handlers, BlockRetries(h)
  PROVE  PaymentStep
<1> DEFINE next == At(h, "transition")
<1>1. Still
  BY ExpiringIsStill DEF BlockRetries
<1>2. /\ next \in Local /\ next.at = "transition" /\ next.role = proc[h].role
      /\ next.event = proc[h].event
  BY AtFacts DEF Label, RowInv, IInv
<1>3. Backed(next) /\ ~Claimant(next)
  BY <1>2 DEF RowInv, PaymentInv, Backed, BlockRetries, Claimant, PollLabel
<1> QED BY <1>1, <1>2, <1>3, IdleIsBacked, SteadyMove DEF BlockRetries

\* A session that the row has stored leaves no claim on the payment.
LEMMA NoClaimantWithSession == RowInv /\ rec.session => \A g \in Handlers : ~Claimant(proc[g])
BY DEF RowInv, PaymentInv, OneCheckout

\* The row shows a payment that Stripe says succeeded.
LEMMA CapturingKeeps ==
  ASSUME RowInv, NEW h \in Handlers, rec.session, rec.payment \in Unpaid,
         stripe.intent = "succeeded", rec' = Captured(rec), UNCHANGED outside,
         \A g \in Handlers \ {h} : Stays(g), ~Claimant(proc'[h]), Backed(proc[h])'
  PROVE  PaymentStep
<1>1. /\ rec'.session = rec.session /\ rec'.payment = "CAPTURED"
      /\ rec'.paymentStarted = rec.paymentStarted /\ rec'.failure = "PAYMENT_RECOVERED"
  BY DEF RowInv, IInv, TypeOK, Row, Captured
<1>2. UNCHANGED <<ledger, processed, emitted, airtime, stripe>>
  BY DEF outside
<1>3. Advances /\ Forward
  BY <1>1, <1>2, RankFacts DEF Advances, Forward, Received
<1>4. \A g \in Handlers : Backed(proc[g])' /\ ~Claimant(proc'[g])
  BY <1>3, BackedLasts, NoClaimantWithSession DEF RowInv, PaymentInv, Stays, Claimant
<1> QED BY <1>1, <1>2, <1>3, <1>4 DEF PaymentStep, RowInv, PaymentInv, OneCheckout, PaymentIsGenuine,
           CancelledIsClosed, LedgerFollowsAirtime, Received

\* The row shows a failure, which for a cancellation is final.
LEMMA FailingKeeps ==
  ASSUME RowInv, NEW h \in Handlers, NEW code, rec.payment \in AwaitingPayment,
         rec' = Failed(rec, code), UNCHANGED outside,
         code = "CANCELLED" =>
           rec.paymentStarted /\ (rec.session => stripe.session = "expired"),
         \A g \in Handlers \ {h} : Stays(g) /\ ~Claimant(proc[g]),
         ~Claimant(proc'[h]), Backed(proc[h])'
  PROVE  PaymentStep
<1>1. /\ rec'.session = rec.session /\ rec'.payment = "FAILED"
      /\ rec'.paymentStarted = rec.paymentStarted /\ rec'.failure = code
  BY DEF RowInv, IInv, TypeOK, Row, Failed
<1>2. UNCHANGED <<ledger, processed, emitted, airtime, stripe>>
  BY DEF outside
<1>3. rec.payment \notin Received /\ "FAILED" \notin Received /\ "FAILED" \in Unpaid
      /\ rec.payment \in Unpaid
  BY DEF AwaitingPayment, Received, Unpaid
<1>4. Advances /\ Forward
  BY <1>1, <1>2, <1>3, RankFacts DEF Advances, Forward
<1>5. \A g \in Handlers : Backed(proc[g])' /\ ~Claimant(proc'[g])
  BY <1>4, BackedLasts DEF RowInv, PaymentInv, Stays, Claimant
<1>6. OneCheckout'
  BY <1>1, <1>2, <1>5 DEF RowInv, PaymentInv, OneCheckout
<1>7. PaymentIsGenuine' /\ CancelledIsClosed' /\ LedgerFollowsAirtime'
  BY <1>1, <1>2, <1>3 DEF RowInv, PaymentInv, PaymentIsGenuine, CancelledIsClosed,
                          LedgerFollowsAirtime
<1> QED BY <1>4, <1>5, <1>6, <1>7 DEF PaymentStep, PaymentInv

LEMMA TransitionPaymentAgrees ==
  ASSUME RowInv, NEW h \in Handlers, TransitionPayment(h)
  PROVE  PaymentStep
<1>0. /\ IInv /\ TypeOK /\ UNCHANGED outside /\ Still /\ proc[h].at = "transition"
      /\ rec.session /\ Backed(proc[h]) /\ rec \in Row
  BY OutsideStill DEF TransitionPayment, RowInv, IInv, TypeOK, PaymentInv, Backed
<1>1. PaidEvents \intersect FailureEvents = {}
  BY DEF PaidEvents, FailureEvents
<1>2. \A label \in {"fulfill", "complete"} :
        LET next == Reading(h, label, "none")
        IN  /\ next \in Local /\ next.at = label /\ next.role = proc[h].role
            /\ next.event = proc[h].event /\ ~Claimant(next)
  BY <1>0, ReadingFacts DEF Label, Found, AirtimeState, Claimant
<1>3. ~(FlupFlap /\ proc[h].role = "poll")
  BY <1>0 DEF Backed, PollLabel
<1>4. CASE /\ proc[h].event \in PaidEvents /\ rec.payment \in Unpaid
           /\ Save(h, Captured(rec), Reading(h, "fulfill", "none"))
  <2> DEFINE next == Reading(h, "fulfill", "none")
  <2>1. Captured(rec) \in Row
    BY <1>0, CapturedIsHarmless DEF Harmless
  <2>2. rec' = Captured(rec) /\ proc'[h] = next /\ \A g \in Handlers \ {h} : Stays(g)
    BY <1>0, <1>2, <1>4, <2>1, SaveFacts DEF Stays
  <2>3. proc[h].event \in emitted /\ stripe.intent = "succeeded"
    BY <1>0, <1>4 DEF Backed, RowInv, PaymentInv, PaymentIsGenuine
  <2>4. rec'.payment = "CAPTURED" /\ emitted' = emitted
    BY <1>0, <2>2 DEF Captured, Row, outside
  <2>5. Backed(proc[h])'
    BY <1>2, <1>3, <2>2, <2>3, <2>4 DEF Backed, Received
  <2> QED BY <1>0, <1>2, <1>4, <2>2, <2>3, <2>5, CapturingKeeps
<1>5. CASE /\ proc[h].event \in PaidEvents /\ rec.payment \notin Unpaid
           /\ Move(h, Reading(h, IF proc[h].found = "replay" THEN "fulfill" ELSE "complete",
                              "none"))
  <2>1. PICK label \in {"fulfill", "complete"} : Move(h, Reading(h, label, "none"))
    BY <1>5
  <2>2. rec.payment \in Received
    BY <1>0, <1>5, RankFacts DEF Row
  <2>3. Backed(Reading(h, label, "none"))
    BY <1>0, <1>2, <1>3, <2>2 DEF Backed
  <2> QED BY <1>0, <1>2, <2>1, <2>3, SteadyMove
<1>6. ASSUME proc[h].event \in FailureEvents
      PROVE  Returned(h) \in Local /\ Backed(Returned(h)) /\ ~Claimant(Returned(h))
  BY <1>1, <1>6, ReturnedIsBacked
<1>7. CASE /\ proc[h].event \in FailureEvents /\ rec.payment \in AwaitingPayment
           /\ Save(h, Failed(rec, "PAYMENT_FAILED"), Returned(h))
  <2> DEFINE row == Failed(rec, "PAYMENT_FAILED")
  <2>1. row \in Row
    BY <1>0, FailedIsHarmless DEF Harmless, FailureCode
  <2>2. rec' = row /\ proc'[h] = Returned(h) /\ \A g \in Handlers \ {h} : Stays(g)
    BY <1>0, <1>6, <1>7, <2>1, SaveFacts DEF Stays
  <2>3. rec'.session = rec.session /\ rec.payment \notin Received
    BY <1>0, <1>7, <2>2 DEF Failed, Row, AwaitingPayment, Received
  <2>4. Advances
    BY <1>0, <2>3 DEF Advances, outside
  <2>5. Backed(proc[h])'
    BY <1>6, <1>7, <2>2, <2>4, BackedLasts
  <2> QED BY <1>0, <1>6, <1>7, <2>2, <2>5, NoClaimantWithSession, FailingKeeps
<1>8. CASE /\ proc[h].event \in FailureEvents /\ rec.payment \notin AwaitingPayment
           /\ Move(h, Returned(h))
  BY <1>0, <1>6, <1>8, SteadyMove
<1> QED BY <1>4, <1>5, <1>7, <1>8 DEF TransitionPayment

LEMMA CompleteEventAgrees ==
  ASSUME RowInv, NEW h \in Handlers, CompleteEvent(h)
  PROVE  PaymentStep
<1>1. rec' = rec /\ proc'[h] = Idle /\ \A g \in Handlers \ {h} : Stays(g)
  BY IdleIsLocal, MoveFacts DEF CompleteEvent, RowInv, IInv, Stays
<1>2. /\ UNCHANGED <<ledger, stripe, emitted, airtime>>
      /\ processed' = processed \union {proc[h].event}
  BY DEF CompleteEvent
<1>3. Advances /\ Forward
  BY <1>1, <1>2, RankFacts DEF Advances, Forward, RowInv, IInv, TypeOK, Row
<1>4. \A g \in Handlers : Backed(proc[g])'
  BY <1>1, <1>3, BackedLasts, IdleIsBacked DEF RowInv, PaymentInv, Stays
<1>5. \A g \in Handlers : Claimant(proc'[g]) => Claimant(proc[g]) /\ Stays(g)
  BY <1>1, IdleIsBacked DEF Claimant, Stays
<1>6. proc[h].event \in PaidEvents => rec.payment \in Received
  BY DEF RowInv, PaymentInv, Backed, CompleteEvent
<1>7. OneCheckout'
  BY <1>1, <1>2, <1>5 DEF RowInv, PaymentInv, OneCheckout, Stays
<1>8. PaymentIsGenuine' /\ CancelledIsClosed' /\ LedgerFollowsAirtime'
  BY <1>1, <1>2, <1>6 DEF RowInv, PaymentInv, PaymentIsGenuine, CancelledIsClosed,
                          LedgerFollowsAirtime
<1> QED BY <1>3, <1>4, <1>7, <1>8 DEF PaymentStep, PaymentInv

---------------------------------------------------------------------------
(* fulfillPaidRecharge.                                                    *)

\* Between steps that rely on nothing but the role and the event.
LEMMA OnwardIsBacked ==
  ASSUME RowInv, NEW h \in Handlers, NEW label \in Label \ Relying,
         label \notin {"createSession", "storeSession"},
         proc[h].at \notin PollLabel \union {"transition"}
  PROVE  At(h, label) \in Local /\ Backed(At(h, label)) /\ ~Claimant(At(h, label))
BY AtIsBacked

LEMMA FulfillAgrees ==
  ASSUME RowInv, NEW h \in Handlers, Fulfill(h)
  PROVE  PaymentStep
<1>1. Still /\ proc[h].at = "fulfill"
  BY OutsideStill DEF Fulfill
<1>2. \A label \in {"evidence", "gate", "claimFulfillment"} :
        At(h, label) \in Local /\ Backed(At(h, label)) /\ ~Claimant(At(h, label))
  BY <1>1, OnwardIsBacked DEF Label, Relying, PollLabel
<1>3. Returned(h) \in Local /\ Backed(Returned(h)) /\ ~Claimant(Returned(h))
  BY <1>1, ReturnedIsBacked
<1> QED BY <1>1, <1>2, <1>3, SteadyMove DEF Fulfill

LEMMA GateAgrees ==
  ASSUME RowInv, NEW h \in Handlers, Gate(h)
  PROVE  PaymentStep
<1>1. Still /\ proc[h].at = "gate"
  BY DEF Gate, Still
<1>2. \A label \in {"hold", "claimFulfillment"} :
        At(h, label) \in Local /\ Backed(At(h, label)) /\ ~Claimant(At(h, label))
  BY <1>1, OnwardIsBacked DEF Label, Relying, PollLabel
<1> QED BY <1>1, <1>2, SteadyMove DEF Gate

LEMMA HoldAgrees ==
  ASSUME RowInv, NEW h \in Handlers, Hold(h)
  PROVE  PaymentStep
<1> DEFINE row == [rec EXCEPT !.failure = "FRAUD_REVIEW_REQUIRED"]
<1>1. Still /\ proc[h].at = "hold"
  BY OutsideStill DEF Hold
<1>2. At(h, "evidence") \in Local /\ Backed(At(h, "evidence")) /\ ~Claimant(At(h, "evidence"))
  BY <1>1, OnwardIsBacked DEF Label, Relying, PollLabel
<1>3. Returned(h) \in Local /\ Backed(Returned(h)) /\ ~Claimant(Returned(h))
  BY <1>1, ReturnedIsBacked
<1>4. row \in Row /\ RowSteady(row)
  BY DEF RowInv, IInv, TypeOK, Row, FailureCode, RowSteady
<1> QED BY <1>1, <1>2, <1>3, <1>4, SteadySave DEF Hold

LEMMA ClaimFulfillmentAgrees ==
  ASSUME RowInv, NEW h \in Handlers, ClaimFulfillment(h)
  PROVE  PaymentStep
<1> DEFINE row == [rec EXCEPT !.fulfillmentStarted = TRUE]
<1>1. Still /\ proc[h].at = "claimFulfillment"
  BY OutsideStill DEF ClaimFulfillment
<1>2. At(h, "submit") \in Local /\ Backed(At(h, "submit")) /\ ~Claimant(At(h, "submit"))
  BY <1>1, OnwardIsBacked DEF Label, Relying, PollLabel
<1>3. Returned(h) \in Local /\ Backed(Returned(h)) /\ ~Claimant(Returned(h))
  BY <1>1, ReturnedIsBacked
<1>4. row \in Row /\ RowSteady(row)
  BY DEF RowInv, IInv, TypeOK, Row, RowSteady
<1> QED BY <1>1, <1>2, <1>3, <1>4, SteadyMove, SteadySave DEF ClaimFulfillment

\* Only the airtime and what was posted of it change beside h.
LEMMA OutcomeKeeps ==
  ASSUME RowInv, NEW h \in Handlers, NEW next \in Local,
         Move(h, next), ~Claimant(next), Backed(proc[h])',
         airtime \in {"SUCCESSFUL", "REFUNDED"} => airtime' \in {"SUCCESSFUL", "REFUNDED"},
         LedgerFollowsAirtime', UNCHANGED <<processed, stripe, emitted>>
  PROVE  PaymentStep
<1>1. rec' = rec /\ proc'[h] = next /\ \A g \in Handlers \ {h} : Stays(g)
  BY MoveFacts DEF RowInv, IInv, Stays
<1>2. Advances /\ Forward
  BY <1>1, RankFacts DEF Advances, Forward, RowInv, IInv, TypeOK, Row
<1>3. \A g \in Handlers : Backed(proc[g])'
  BY <1>1, <1>2, BackedLasts DEF RowInv, PaymentInv, Stays
<1>4. \A g \in Handlers : Claimant(proc'[g]) => Claimant(proc[g]) /\ Stays(g)
  BY <1>1 DEF Claimant, Stays
<1>5. OneCheckout'
  BY <1>1, <1>4 DEF RowInv, PaymentInv, OneCheckout, Stays
<1>6. PaymentIsGenuine' /\ CancelledIsClosed'
  BY <1>1 DEF RowInv, PaymentInv, PaymentIsGenuine, CancelledIsClosed
<1> QED BY <1>2, <1>3, <1>5, <1>6 DEF PaymentStep, PaymentInv

LEMMA SubmitTopUpAgrees ==
  ASSUME RowInv, NEW h \in Handlers, SubmitTopUp(h)
  PROVE  PaymentStep
<1>1. proc[h].at = "submit" /\ airtime = "none"
  BY DEF SubmitTopUp, RowInv, IInv, SettlementInv, OneClaimant
<1>2. \A label \in {"recordRejected", "recordUnknown"} :
        At(h, label) \in Local /\ Backed(At(h, label)) /\ ~Claimant(At(h, label))
  BY <1>1, OnwardIsBacked DEF Label, Relying, PollLabel
<1>3. CASE /\ \E label \in {"recordRejected", "recordUnknown"} : Move(h, At(h, label))
           /\ UNCHANGED airtime
  <2>1. Still
    BY <1>3 DEF SubmitTopUp, Still
  <2> QED BY <1>2, <1>3, <2>1, SteadyMove
<1>4. ASSUME NEW a \in Accepted \ {"REFUNDED"}, airtime' = a,
             \/ Move(h, Reading(h, "apply", a))
             \/ Move(h, At(h, "recordUnknown"))
      PROVE  PaymentStep
  <2> DEFINE next == Reading(h, "apply", a)
  <2>1. UNCHANGED <<ledger, processed, stripe, emitted>>
    BY DEF SubmitTopUp
  <2>2. /\ next \in Local /\ next.at = "apply" /\ next.found = a
        /\ next.role = proc[h].role /\ next.event = proc[h].event
    BY ReadingFacts DEF RowInv, IInv, Label, Found, Accepted
  <2>3. ~(FlupFlap /\ proc[h].role = "poll")
    BY <1>1 DEF RowInv, PaymentInv, Backed, PollLabel
  <2>4. /\ proc[h].event \in PaidEvents => proc[h].event \in emitted /\ rec.payment \in Received
        /\ LedgerFollowsAirtime'
    BY <1>1, <2>1 DEF RowInv, PaymentInv, Backed, LedgerFollowsAirtime
  <2>5. CASE Move(h, next)
    <3>1. rec' = rec /\ proc'[h] = next
      BY <2>2, <2>5, MoveFacts DEF RowInv, IInv
    <3>2. Backed(proc[h])'
      BY <1>4, <2>1, <2>2, <2>3, <2>4, <3>1 DEF Backed
    <3> QED BY <1>1, <1>4, <2>1, <2>2, <2>4, <2>5, <3>2, OutcomeKeeps DEF Claimant
  <2>6. CASE Move(h, At(h, "recordUnknown"))
    <3>1. rec' = rec /\ proc'[h] = At(h, "recordUnknown")
      BY <1>2, <2>6, MoveFacts DEF RowInv, IInv
    <3>2. Advances
      BY <1>1, <1>4, <2>1, <3>1 DEF Advances
    <3>3. Backed(proc[h])'
      BY <1>2, <3>1, <3>2, BackedLasts
    <3> QED BY <1>1, <1>2, <1>4, <2>1, <2>4, <2>6, <3>3, OutcomeKeeps
  <2> QED BY <1>4, <2>5, <2>6
<1> QED BY <1>3, <1>4 DEF SubmitTopUp

LEMMA RecordRejectedAgrees ==
  ASSUME RowInv, NEW h \in Handlers, RecordRejected(h)
  PROVE  PaymentStep
<1> DEFINE row == [rec EXCEPT !.status = "FAILED", !.failure = "TOPUP_REJECTED"]
           next == Reading(h, "claimRecovery", "rejected")
<1>1. Still /\ proc[h].at = "recordRejected"
  BY OutsideStill DEF RecordRejected
<1>2. next \in Local /\ Backed(next) /\ ~Claimant(next)
  BY <1>1, ReadingIsBacked DEF Label, Relying, PollLabel, Found
<1>3. row \in Row /\ RowSteady(row)
  BY DEF RowInv, IInv, TypeOK, Row, RechargeStatus, FailureCode, RowSteady
<1> QED BY <1>1, <1>2, <1>3, SteadySave DEF RecordRejected

LEMMA RecordUnknownAgrees ==
  ASSUME RowInv, NEW h \in Handlers, RecordUnknown(h)
  PROVE  PaymentStep
<1> DEFINE row == [rec EXCEPT !.status = "PROCESSING", !.failure = "TOPUP_SUBMISSION_UNKNOWN"]
<1>1. Still
  BY OutsideStill DEF RecordUnknown
<1>2. row \in Row /\ RowSteady(row)
  BY DEF RowInv, IInv, TypeOK, Row, RechargeStatus, FailureCode, RowSteady
<1> QED BY <1>1, <1>2, IdleIsBacked, SteadySave DEF RecordUnknown

---------------------------------------------------------------------------
(* applyProviderResult.                                                    *)

LEMMA ApplyAgrees ==
  ASSUME RowInv, NEW h \in Handlers, Apply(h)
  PROVE  PaymentStep
<1> DEFINE status == mapProviderStatus[proc[h].found]
           row == [rec EXCEPT !.status = status, !.providerRef = TRUE]
           post == At(h, "postLedger")
           recover == Reading(h, "claimRecovery", "none")
<1>1. /\ Still /\ proc[h].at = "apply" /\ rec \in Row /\ proc[h].found \in Accepted
      /\ TypeOK
  BY OutsideStill DEF Apply, RowInv, IInv, TypeOK, SettlementInv, ResultIsGenuine
<1>2. status \in RechargeStatus
  BY <1>1 DEF mapProviderStatus, Accepted, AirtimeState, RechargeStatus
<1>3. /\ row \in Row /\ RowSteady(row)
      /\ \A confirmed \in BOOLEAN :
           LET r == [row EXCEPT !.delivered = TRUE, !.valueConfirmed = @ \/ confirmed]
           IN  r \in Row /\ RowSteady(r)
      /\ LET r == [row EXCEPT !.failure = "TOPUP_PROVIDER_FAILED"]
         IN  r \in Row /\ RowSteady(r)
  <2> HIDE DEF status
  <2>1. row \in Row /\ row.session = rec.session /\ row.paymentStarted = rec.paymentStarted
        /\ row.payment = rec.payment /\ row.failure = rec.failure
    BY <1>1, <1>2 DEF Row
  <2> HIDE DEF row
  <2>2. ASSUME NEW confirmed \in BOOLEAN
        PROVE  LET r == [row EXCEPT !.delivered = TRUE, !.valueConfirmed = @ \/ confirmed]
               IN  r \in Row /\ RowSteady(r)
    <3>1. (row.valueConfirmed \/ confirmed) \in BOOLEAN
      OBVIOUS
    <3>2. \A b \in BOOLEAN :
            LET r == [row EXCEPT !.delivered = TRUE, !.valueConfirmed = b]
            IN  r \in Row /\ RowSteady(r)
      BY <2>1 DEF Row, RowSteady
    <3>3. LET r == [row EXCEPT !.delivered = TRUE,
                               !.valueConfirmed = row.valueConfirmed \/ confirmed]
          IN  r \in Row /\ RowSteady(r)
      BY ONLY <3>1, <3>2, Zenon
    <3> QED BY <3>3
  <2>3. LET r == [row EXCEPT !.failure = "TOPUP_PROVIDER_FAILED"]
        IN  r \in Row /\ RowSteady(r)
    BY <2>1 DEF Row, FailureCode, RowSteady
  <2> QED BY <2>1, <2>2, <2>3 DEF RowSteady
<1>4. post \in Local /\ Backed(post) /\ ~Claimant(post)
  <2>1. /\ post \in Local /\ post.at = "postLedger" /\ post.role = proc[h].role
        /\ post.event = proc[h].event /\ post.found = proc[h].found
    BY <1>1, AtFacts DEF Label
  <2> QED BY <1>1, <2>1 DEF RowInv, PaymentInv, Backed, Claimant, PollLabel
<1>5. recover \in Local /\ Backed(recover) /\ ~Claimant(recover)
  BY <1>1, ReadingIsBacked DEF Label, Relying, PollLabel, Found, AirtimeState
<1>6. Returned(h) \in Local /\ Backed(Returned(h)) /\ ~Claimant(Returned(h))
  BY <1>1, ReturnedIsBacked
<1> HIDE DEF status
<1>7. \/ \E confirmed \in BOOLEAN :
           Save(h, [row EXCEPT !.delivered = TRUE, !.valueConfirmed = @ \/ confirmed], post)
      \/ Move(h, post)
      \/ Save(h, row, post)
      \/ Save(h, [row EXCEPT !.failure = "TOPUP_PROVIDER_FAILED"], recover)
      \/ Save(h, row, Returned(h))
  BY DEF Apply, status
<1> HIDE DEF row, post, recover
<1> QED BY <1>1, <1>3, <1>4, <1>5, <1>6, <1>7, SteadyMove, SteadySave

LEMMA PostLedgerAgrees ==
  ASSUME RowInv, NEW h \in Handlers, PostLedger(h)
  PROVE  PaymentStep
<1> DEFINE recover == Reading(h, "claimRecovery", "none")
<1>1. /\ proc[h].at = "postLedger" /\ proc[h].found \in Accepted
      /\ proc[h].found = "REFUNDED" => airtime = "REFUNDED"
      /\ UNCHANGED <<processed, stripe, emitted, airtime>>
  BY DEF PostLedger, RowInv, IInv, SettlementInv, ResultIsGenuine
<1>2. /\ mapProviderStatus[proc[h].found] = "DELIVERED" => proc[h].found = "SUCCESSFUL"
      /\ mapProviderStatus[proc[h].found] = "REFUNDED" => proc[h].found = "REFUNDED"
  BY <1>1 DEF mapProviderStatus, Accepted, AirtimeState
<1>3. proc[h].found = "SUCCESSFUL" => airtime \in {"SUCCESSFUL", "REFUNDED"}
  BY <1>1 DEF RowInv, PaymentInv, Backed
<1>4. LedgerFollowsAirtime'
  BY <1>1, <1>2, <1>3 DEF RowInv, PaymentInv, LedgerFollowsAirtime, PostLedger
<1>5. recover \in Local /\ Backed(recover) /\ ~Claimant(recover)
  BY <1>1, ReadingIsBacked DEF Label, Relying, PollLabel, Found, AirtimeState
<1>6. Returned(h) \in Local /\ Backed(Returned(h)) /\ ~Claimant(Returned(h))
  BY <1>1, ReturnedIsBacked
<1>7. PICK next \in {recover, Returned(h)} : Move(h, next)
  BY DEF PostLedger
<1>8. rec' = rec /\ proc'[h] = next
  BY <1>5, <1>6, <1>7, MoveFacts DEF RowInv, IInv
<1>9. Backed(proc[h])'
  <2>1. Advances
    BY <1>1, <1>8 DEF Advances
  <2> QED BY <1>5, <1>6, <1>8, <2>1, BackedLasts
<1> QED BY <1>1, <1>4, <1>5, <1>6, <1>7, <1>9, OutcomeKeeps

---------------------------------------------------------------------------
(* refundConfirmedSecurityFailure and recoverPayment.                      *)

LEMMA ReadEvidenceAgrees ==
  ASSUME RowInv, NEW h \in Handlers, ReadEvidence(h)
  PROVE  PaymentStep
<1> DEFINE next == [proc[h] EXCEPT !.at = "claimRefund"]
           late == [Returned(h) EXCEPT !.fresh = proc[h].fresh]
<1>1. proc[h].at = "evidence" /\ TypeOK /\ proc[h] \in Local
  BY DEF ReadEvidence, RowInv, IInv, TypeOK
<1>2. /\ next \in Local /\ next.at = "claimRefund" /\ next.role = proc[h].role
      /\ next.event = proc[h].event
  BY <1>1 DEF Local, Label
<1>3. Backed(next) /\ ~Claimant(next)
  BY <1>1, <1>2, KeptIsBacked DEF Relying, Claimant, RowInv, PaymentInv, Backed, PollLabel
<1>4. Returned(h) \in Local /\ Backed(Returned(h)) /\ ~Claimant(Returned(h))
  BY <1>1, ReturnedIsBacked
<1>5. /\ late \in Local /\ late.at = Returned(h).at /\ late.role = Returned(h).role
      /\ late.event = Returned(h).event /\ late.found = Returned(h).found
  BY <1>1, <1>4 DEF Local
<1>6. Backed(late) /\ ~Claimant(late)
  BY <1>4, <1>5 DEF Backed, Claimant
<1>7. CASE Move(h, next) /\ UNCHANGED outside
  BY <1>2, <1>3, <1>7, OutsideStill, SteadyMove
<1>8. CASE CallFails(h, late)
  BY <1>5, <1>6, <1>8, CallFailsStill, SteadyMove
<1> QED BY <1>7, <1>8 DEF ReadEvidence

LEMMA ClaimSecurityRefundAgrees ==
  ASSUME RowInv, NEW h \in Handlers, ClaimSecurityRefund(h)
  PROVE  PaymentStep
<1> DEFINE row == [rec EXCEPT !.status = "FAILED", !.payment = "REFUND_PENDING",
                              !.failure = "SECURITY_REFUND_REQUIRED", !.recoveryStarted = TRUE]
<1>1. Still /\ proc[h].at = "claimRefund"
  BY OutsideStill DEF ClaimSecurityRefund
<1>2. At(h, "refund") \in Local /\ Backed(At(h, "refund")) /\ ~Claimant(At(h, "refund"))
  BY <1>1, OnwardIsBacked DEF Label, Relying, PollLabel
<1>3. Returned(h) \in Local /\ Backed(Returned(h)) /\ ~Claimant(Returned(h))
  BY <1>1, ReturnedIsBacked
<1>4. row \in Row /\ (rec.payment = "CAPTURED" => RowSteady(row))
  BY DEF RowInv, IInv, TypeOK, Row, RechargeStatus, PaymentStatus, FailureCode, RowSteady
<1>5. CASE rec.payment = "CAPTURED" /\ Save(h, row, At(h, "refund"))
  BY <1>1, <1>2, <1>4, <1>5, SteadySave
<1>6. CASE Move(h, Returned(h))
  BY <1>1, <1>3, <1>6, SteadyMove
<1> QED BY <1>5, <1>6 DEF ClaimSecurityRefund, SecurityRefundable, PaidAndWaiting

LEMMA ClaimRecoveryAgrees ==
  ASSUME RowInv, NEW h \in Handlers, ClaimRecovery(h)
  PROVE  PaymentStep
<1> DEFINE row == [rec EXCEPT !.recoveryStarted = TRUE]
<1>1. Still /\ proc[h].at = "claimRecovery"
  BY OutsideStill DEF ClaimRecovery
<1>2. /\ At(h, "readPayment") \in Local /\ Backed(At(h, "readPayment"))
      /\ ~Claimant(At(h, "readPayment"))
  BY <1>1, AtIsBacked DEF Label, Relying, PollLabel
<1>3. Returned(h) \in Local /\ Backed(Returned(h)) /\ ~Claimant(Returned(h))
  BY <1>1, ReturnedIsBacked
<1>4. row \in Row /\ RowSteady(row)
  BY DEF RowInv, IInv, TypeOK, Row, RowSteady
<1> QED BY <1>1, <1>2, <1>3, <1>4, SteadyMove, SteadySave DEF ClaimRecovery

LEMMA ReadPaymentAgrees ==
  ASSUME RowInv, NEW h \in Handlers, ReadPayment(h)
  PROVE  PaymentStep
<1>1. proc[h].at = "readPayment"
  BY DEF ReadPayment
<1>2. /\ At(h, "markRefund") \in Local /\ Backed(At(h, "markRefund"))
      /\ ~Claimant(At(h, "markRefund"))
  BY <1>1, AtIsBacked DEF Label, Relying, PollLabel
<1>3. Returned(h) \in Local /\ Backed(Returned(h)) /\ ~Claimant(Returned(h))
  BY <1>1, ReturnedIsBacked
<1> QED BY <1>2, <1>3, OutsideStill, CallFailsStill, SteadyMove DEF ReadPayment

LEMMA MarkRefundAgrees ==
  ASSUME RowInv, NEW h \in Handlers, MarkRefund(h)
  PROVE  PaymentStep
<1> DEFINE row == [rec EXCEPT !.payment = "REFUND_PENDING"]
<1>1. Still /\ proc[h].at = "markRefund"
  BY OutsideStill DEF MarkRefund
<1>2. /\ At(h, "readPayment") \in Local /\ Backed(At(h, "readPayment"))
      /\ ~Claimant(At(h, "readPayment"))
  BY <1>1, AtIsBacked DEF Label, Relying, PollLabel
<1>3. Returned(h) \in Local /\ Backed(Returned(h)) /\ ~Claimant(Returned(h))
  BY <1>1, ReturnedIsBacked
<1>4. AllowExternalActions(h) =>
        At(h, "refund") \in Local /\ Backed(At(h, "refund")) /\ ~Claimant(At(h, "refund"))
  BY <1>1, AtIsBacked DEF Label, Relying, PollLabel, AllowExternalActions
<1>5. row \in Row /\ (rec.payment = "CAPTURED" => RowSteady(row))
  BY DEF RowInv, IInv, TypeOK, Row, PaymentStatus, RowSteady
<1>6. CASE Move(h, At(h, "readPayment"))
  BY <1>1, <1>2, <1>6, SteadyMove
<1>7. CASE rec.payment = "CAPTURED" /\ AllowExternalActions(h) /\ Save(h, row, At(h, "refund"))
  BY <1>1, <1>4, <1>5, <1>7, SteadySave
<1>8. CASE rec.payment = "CAPTURED" /\ Save(h, row, Returned(h))
  BY <1>1, <1>3, <1>5, <1>8, SteadySave
<1> QED BY <1>6, <1>7, <1>8 DEF MarkRefund

LEMMA RefundAgrees ==
  ASSUME RowInv, NEW h \in Handlers, Refund(h)
  PROVE  PaymentStep
<1>1. proc[h].at \in {"refund", "refundAgain"}
  BY DEF Refund
<1>2. ~(FlupFlap /\ proc[h].role = "poll")
  BY <1>1 DEF RowInv, PaymentInv, Backed, PollLabel
<1>3. /\ At(h, "confirmRefund") \in Local /\ Backed(At(h, "confirmRefund"))
      /\ ~Claimant(At(h, "confirmRefund"))
  BY <1>1, <1>2, AtIsBacked DEF Label, Relying
<1>4. Returned(h) \in Local /\ Backed(Returned(h)) /\ ~Claimant(Returned(h))
  BY <1>1, ReturnedIsBacked
<1>5. CASE CallFails(h, Returned(h))
  BY <1>4, <1>5, CallFailsStill, SteadyMove
<1>6. ASSUME NEW s, stripe' = [stripe EXCEPT !.refund = s],
             Move(h, At(h, "confirmRefund")) \/ Move(h, Returned(h)),
             UNCHANGED <<ledger, processed, emitted, airtime>>
      PROVE  PaymentStep
  <2>1. stripe'.session = stripe.session /\ stripe'.intent = stripe.intent
    BY <1>6 DEF RowInv, IInv, TypeOK, StripeState
  <2>2. Still
    BY <1>6, <2>1 DEF Still
  <2> QED BY <1>3, <1>4, <1>6, <2>2, SteadyMove
<1> QED BY <1>5, <1>6 DEF Refund

LEMMA ConfirmRefundAgrees ==
  ASSUME RowInv, NEW h \in Handlers, ConfirmRefund(h)
  PROVE  PaymentStep
<1> DEFINE row == [rec EXCEPT !.payment = "REFUNDED"]
<1>1. Still /\ proc[h].at = "confirmRefund"
  BY OutsideStill DEF ConfirmRefund
<1>2. Returned(h) \in Local /\ Backed(Returned(h)) /\ ~Claimant(Returned(h))
  BY <1>1, ReturnedIsBacked
<1>3. row \in Row /\ (rec.payment = "REFUND_PENDING" => RowSteady(row))
  BY DEF RowInv, IInv, TypeOK, Row, PaymentStatus, RowSteady
<1> QED BY <1>1, <1>2, <1>3, SteadyMove, SteadySave DEF ConfirmRefund

---------------------------------------------------------------------------
(* refreshTransaction.                                                     *)

LEMMA RefreshStarts ==
  ASSUME RowInv, NEW role \in {"worker", "poll"}, NEW external \in BOOLEAN,
         FlupFlap /\ role = "poll" => ~external /\ RefreshStep(rec, external) # "defer"
  PROVE  LET next == Started(role, RefreshStep(rec, external))
         IN  next \in Local /\ Backed(next) /\ ~Claimant(next)
<1> DEFINE label == RefreshStep(rec, external)
           next == Started(role, label)
<1>1. label \in {"evidence", "defer", "readCheckout", "queryRefund", "readTopUp", "findTopUp"}
  BY RefreshStepFacts
<1>2. /\ label = "readCheckout" => rec.session
      /\ label = "evidence" => external
  BY DEF RefreshStep
<1> HIDE DEF label
<1>3. label \in Label /\ role \in Role
  BY <1>1 DEF Role, Label
<1>4. next.event = "none"
  BY DEF Started, Idle
<1>5. next \in Local /\ next.at = label /\ next.role = role /\ next.event = "none"
  BY <1>3, <1>4, StartedFacts
<1> HIDE DEF next
<1>6. FlupFlap /\ role = "poll" => label \in PollLabel
  BY <1>1, <1>2 DEF PollLabel, label
<1>7. Backed(next) /\ ~Claimant(next)
  BY <1>1, <1>2, <1>5, <1>6 DEF Backed, Claimant, PaidEvents
<1> QED BY <1>5, <1>7 DEF label, next

LEMMA ReconcileAgrees ==
  ASSUME RowInv, NEW h \in Handlers, Reconcile(h)
  PROVE  PaymentStep
<1>1. Still /\ Move(h, Started("worker", RefreshStep(rec, TRUE)))
  BY OutsideStill DEF Reconcile
<1> QED BY <1>1, RefreshStarts, SteadyMove

LEMMA PollAgrees ==
  ASSUME RowInv, NEW h \in Handlers, Poll(h)
  PROVE  PaymentStep
<1>1. Still /\ Move(h, Started("poll", RefreshStep(rec, ~FlupFlap)))
      /\ (~FlupFlap) \in BOOLEAN /\ RefreshStep(rec, ~FlupFlap) # "defer"
  BY OutsideStill DEF Poll
<1> QED BY <1>1, RefreshStarts, SteadyMove

LEMMA ReadCheckoutAgrees ==
  ASSUME RowInv, NEW h \in Handlers, ReadCheckout(h)
  PROVE  PaymentStep
<1>1. /\ proc[h].at = "readCheckout" /\ rec.session
      /\ proc[h].event \in PaidEvents => proc[h].event \in emitted /\ rec.payment \in Received
  BY DEF ReadCheckout, RowInv, PaymentInv, Backed
<1>2. \A what \in {"captured", "declined", "expired"} :
        LET next == Reading(h, "settleCheckout", what)
        IN  /\ next \in Local /\ next.at = "settleCheckout" /\ next.found = what
            /\ next.role = proc[h].role /\ next.event = proc[h].event
  BY ReadingFacts DEF Label, Found, RowInv, IInv
<1>3. ASSUME NEW what \in {"captured", "declined", "expired"},
             what = "captured" => stripe.intent = "succeeded" /\ AllowExternalActions(h)
      PROVE  LET next == Reading(h, "settleCheckout", what)
             IN  next \in Local /\ Backed(next) /\ ~Claimant(next)
  BY <1>1, <1>2, <1>3 DEF Backed, Claimant, PollLabel, AllowExternalActions
<1>4. Returned(h) \in Local /\ Backed(Returned(h)) /\ ~Claimant(Returned(h))
  BY <1>1, ReturnedIsBacked
<1>5. CASE CallFails(h, Returned(h))
  BY <1>4, <1>5, CallFailsStill, SteadyMove
<1>6. CASE UNCHANGED outside /\ Move(h, Returned(h))
  BY <1>4, <1>6, OutsideStill, SteadyMove
<1>7. CASE /\ UNCHANGED outside
           /\ \E what \in {"captured", "declined", "expired"} :
                /\ what = "captured" => stripe.intent = "succeeded" /\ AllowExternalActions(h)
                /\ Move(h, Reading(h, "settleCheckout", what))
  BY <1>3, <1>7, OutsideStill, SteadyMove
<1> QED BY <1>5, <1>6, <1>7 DEF ReadCheckout

LEMMA SettleCheckoutAgrees ==
  ASSUME RowInv, NEW h \in Handlers, SettleCheckout(h)
  PROVE  PaymentStep
<1>0. /\ UNCHANGED outside /\ Still /\ proc[h].at = "settleCheckout"
      /\ rec.session /\ Backed(proc[h]) /\ rec \in Row /\ IInv /\ TypeOK
  BY OutsideStill DEF SettleCheckout, RowInv, IInv, TypeOK, PaymentInv, Backed
<1>1. Returned(h) \in Local /\ Backed(Returned(h)) /\ ~Claimant(Returned(h))
  BY <1>0, ReturnedIsBacked
<1>2. CASE /\ proc[h].found = "captured" /\ rec.payment \in Unpaid
           /\ Save(h, Captured(rec), Reading(h, "fulfill", "none"))
  <2> DEFINE next == Reading(h, "fulfill", "none")
  <2>1. Captured(rec) \in Row
    BY <1>0, CapturedIsHarmless DEF Harmless
  <2>2. /\ next \in Local /\ next.at = "fulfill" /\ next.role = proc[h].role
        /\ next.event = proc[h].event
    BY <1>0, ReadingFacts DEF Label, Found, AirtimeState
  <2>3. rec' = Captured(rec) /\ proc'[h] = next /\ \A g \in Handlers \ {h} : Stays(g)
    BY <1>0, <1>2, <2>1, <2>2, SaveFacts DEF Stays
  <2>4. rec'.payment = "CAPTURED" /\ emitted' = emitted /\ stripe.intent = "succeeded"
    BY <1>0, <1>2, <2>3 DEF Captured, Row, outside, Backed
  <2>5. Backed(proc[h])'
    BY <1>0, <1>2, <2>2, <2>3, <2>4 DEF Backed, Received
  <2> QED BY <1>0, <1>2, <2>2, <2>3, <2>4, <2>5, CapturingKeeps DEF Claimant
<1>3. CASE Move(h, Returned(h))
  BY <1>0, <1>1, <1>3, SteadyMove
<1>4. CASE /\ proc[h].found # "captured" /\ rec.payment \in AwaitingPayment
           /\ Save(h, Failed(rec, "PAYMENT_FAILED"), Returned(h))
  <2> DEFINE row == Failed(rec, "PAYMENT_FAILED")
  <2>1. row \in Row
    BY <1>0, FailedIsHarmless DEF Harmless, FailureCode
  <2>2. rec' = row /\ proc'[h] = Returned(h) /\ \A g \in Handlers \ {h} : Stays(g)
    BY <1>0, <1>1, <1>4, <2>1, SaveFacts DEF Stays
  <2>3. rec'.session = rec.session /\ rec.payment \notin Received
    BY <1>0, <1>4, <2>2 DEF Failed, Row, AwaitingPayment, Received
  <2>4. Advances
    BY <1>0, <2>3 DEF Advances, outside
  <2>5. Backed(proc[h])'
    BY <1>1, <2>2, <2>4, BackedLasts
  <2> QED BY <1>0, <1>1, <1>4, <2>2, <2>5, NoClaimantWithSession, FailingKeeps
<1> QED BY <1>2, <1>3, <1>4 DEF SettleCheckout

LEMMA QueryRefundAgrees ==
  ASSUME RowInv, NEW h \in Handlers, QueryRefund(h)
  PROVE  PaymentStep
<1>1. proc[h].at = "queryRefund"
  BY DEF QueryRefund
<1>2. /\ At(h, "confirmRefund") \in Local /\ Backed(At(h, "confirmRefund"))
      /\ ~Claimant(At(h, "confirmRefund"))
  BY <1>1, AtIsBacked DEF Label, Relying, PollLabel
<1>3. AllowExternalActions(h) =>
        /\ At(h, "refundAgain") \in Local /\ Backed(At(h, "refundAgain"))
        /\ ~Claimant(At(h, "refundAgain"))
  BY <1>1, AtIsBacked DEF Label, Relying, PollLabel, AllowExternalActions
<1>4. Returned(h) \in Local /\ Backed(Returned(h)) /\ ~Claimant(Returned(h))
  BY <1>1, ReturnedIsBacked
<1>5. CASE CallFails(h, Returned(h))
  BY <1>4, <1>5, CallFailsStill, SteadyMove
<1>6. CASE /\ UNCHANGED outside
           /\ \/ Move(h, At(h, "confirmRefund")) \/ Move(h, Returned(h))
              \/ AllowExternalActions(h) /\ Move(h, At(h, "refundAgain"))
  BY <1>2, <1>3, <1>4, <1>6, OutsideStill, SteadyMove
<1> QED BY <1>5, <1>6 DEF QueryRefund

\* What the provider just said of the top-up is true.
LEMMA AppliesAirtime ==
  ASSUME RowInv, NEW h \in Handlers, proc[h].at \in {"readTopUp", "findTopUp"}
  PROVE  LET next == Reading(h, "apply", airtime)
         IN  next \in Local /\ Backed(next) /\ ~Claimant(next)
<1> DEFINE next == Reading(h, "apply", airtime)
<1>1. /\ next \in Local /\ next.at = "apply" /\ next.found = airtime
      /\ next.role = proc[h].role /\ next.event = proc[h].event
  BY ReadingFacts DEF RowInv, IInv, TypeOK, Label, Found
<1>2. proc[h].event \in PaidEvents => proc[h].event \in emitted /\ rec.payment \in Received
  BY DEF RowInv, PaymentInv, Backed
<1> QED BY <1>1, <1>2 DEF Backed, Claimant, PollLabel

LEMMA ReadTopUpAgrees ==
  ASSUME RowInv, NEW h \in Handlers, ReadTopUp(h)
  PROVE  PaymentStep
<1>1. proc[h].at = "readTopUp"
  BY DEF ReadTopUp
<1> QED BY <1>1, AppliesAirtime, IdleIsBacked, OutsideStill, CallFailsStill, SteadyMove
        DEF ReadTopUp

LEMMA FindTopUpAgrees ==
  ASSUME RowInv, NEW h \in Handlers, FindTopUp(h)
  PROVE  PaymentStep
<1>1. proc[h].at = "findTopUp" /\ rec \in Row /\ RowSteady(rec)
  BY SameRowIsSteady DEF FindTopUp, RowInv, IInv, TypeOK
<1>2. Returned(h) \in Local /\ Backed(Returned(h)) /\ ~Claimant(Returned(h))
  BY <1>1, ReturnedIsBacked
<1>3. CASE Save(h, rec, Returned(h)) /\ UNCHANGED outside
  BY <1>1, <1>2, <1>3, OutsideStill, SteadySave
<1>4. CASE Move(h, Reading(h, "apply", airtime)) /\ UNCHANGED outside
  BY <1>1, <1>4, AppliesAirtime, OutsideStill, SteadyMove
<1>5. CASE CallFails(h, Idle)
  BY <1>5, IdleIsBacked, CallFailsStill, SteadyMove
<1> QED BY <1>3, <1>4, <1>5 DEF FindTopUp

LEMMA DeferAgrees ==
  ASSUME RowInv, NEW h \in Handlers, Defer(h)
  PROVE  PaymentStep
<1>1. Still /\ rec \in Row
  BY OutsideStill DEF Defer, RowInv, IInv, TypeOK
<1> QED BY <1>1, IdleIsBacked, SameRowIsSteady, SteadyMove, SteadySave DEF Defer

---------------------------------------------------------------------------
(* reviewHeldRecharge.                                                     *)

LEMMA ApproveFraudReviewAgrees ==
  ASSUME RowInv, NEW h \in Handlers, ApproveFraudReview(h)
  PROVE  PaymentStep
<1> DEFINE next == Started("review", "release")
<1>1. Still /\ Move(h, next)
  BY DEF ApproveFraudReview, Still
<1>2. next \in Local /\ Backed(next) /\ ~Claimant(next)
  BY StartedIsBacked DEF Role, Label, Relying
<1> QED BY <1>1, <1>2, SteadyMove

LEMMA ReleaseAgrees ==
  ASSUME RowInv, NEW h \in Handlers, Release(h)
  PROVE  PaymentStep
<1> DEFINE row == [rec EXCEPT !.failure = "FRAUD_REVIEW_APPROVED"]
<1>1. Still /\ proc[h].at = "release"
  BY OutsideStill DEF Release
<1>2. At(h, "fulfill") \in Local /\ Backed(At(h, "fulfill")) /\ ~Claimant(At(h, "fulfill"))
  BY <1>1, OnwardIsBacked DEF Label, Relying, PollLabel
<1>3. row \in Row /\ RowSteady(row)
  BY DEF RowInv, IInv, TypeOK, Row, FailureCode, RowSteady
<1> QED BY <1>1, <1>2, <1>3, SteadySave DEF Release

---------------------------------------------------------------------------
(* cancelTransaction and cancelPendingPaymentByAdmin.                      *)

LEMMA CancelAgrees ==
  ASSUME RowInv, NEW h \in Handlers, Cancel(h)
  PROVE  PaymentStep
<1>1. Still
  BY OutsideStill DEF Cancel
<1>2. \A label \in {"claimCancel", "expire"}, f \in {"PENDING", "SESSION_CREATED"} :
        LET next == [Started("cancel", label) EXCEPT !.found = f]
        IN  /\ next \in Local /\ next.at = label /\ next.found = f
            /\ next.role = "cancel" /\ next.event = "none"
  <2> TAKE label \in {"claimCancel", "expire"}, f \in {"PENDING", "SESSION_CREATED"}
  <2>1. /\ Started("cancel", label) \in Local /\ Started("cancel", label).at = label
        /\ Started("cancel", label).role = "cancel"
    BY StartedFacts DEF Role, Label
  <2>2. Started("cancel", label).event = "none"
    BY DEF Started, Idle
  <2>3. f \in Found
    BY DEF Found, PaymentStatus
  <2> QED BY <2>1, <2>2, <2>3 DEF Local
<1>3. CASE Move(h, [Started("cancel", "claimCancel") EXCEPT !.found = "PENDING"])
  <2> DEFINE next == [Started("cancel", "claimCancel") EXCEPT !.found = "PENDING"]
  <2>1. next \in Local /\ Backed(next) /\ ~Claimant(next)
    BY <1>2 DEF Backed, Claimant, PaidEvents
  <2> QED BY <1>1, <1>3, <2>1, SteadyMove
<1>4. CASE /\ rec.payment = "SESSION_CREATED"
           /\ Move(h, [Started("cancel", "expire") EXCEPT !.found = "SESSION_CREATED"])
  <2> DEFINE next == [Started("cancel", "expire") EXCEPT !.found = "SESSION_CREATED"]
  <2>1. rec.session
    BY <1>4 DEF RowInv, IInv, TypeOK, Row, PaymentInv, OneCheckout
  <2>2. next \in Local /\ Backed(next) /\ ~Claimant(next)
    BY <1>2, <2>1 DEF Backed, Claimant, PaidEvents
  <2> QED BY <1>1, <1>4, <2>2, SteadyMove
<1> QED BY <1>3, <1>4 DEF Cancel

LEMMA ClaimCancelAgrees ==
  ASSUME RowInv, NEW h \in Handlers, ClaimCancel(h)
  PROVE  PaymentStep
<1> DEFINE row == [rec EXCEPT !.paymentStarted = TRUE]
           next == At(h, "cancelPayment")
<1>1. /\ Still /\ proc[h].at = "claimCancel" /\ proc[h].found = "PENDING"
  BY OutsideStill DEF ClaimCancel, RowInv, PaymentInv, Backed
<1>2. CASE Move(h, Idle)
  BY <1>1, <1>2, IdleIsBacked, SteadyMove
<1>3. CASE ~rec.paymentStarted /\ rec.payment = "PENDING" /\ Save(h, row, next)
  <2>1. /\ next \in Local /\ next.at = "cancelPayment" /\ next.found = "PENDING"
        /\ next.role = proc[h].role /\ next.event = proc[h].event
    BY <1>1, AtFacts DEF Label, RowInv, IInv
  <2>2. row \in Row
    BY DEF RowInv, IInv, TypeOK, Row
  <2>3. /\ rec' = row /\ proc'[h] = next /\ \A g \in Handlers \ {h} : Stays(g)
    BY <1>3, <2>1, <2>2, SaveFacts DEF RowInv, IInv, Stays
  <2>4. ~(FlupFlap /\ proc[h].role = "poll") /\ proc[h].event \notin PaidEvents
    BY <1>1, <1>3 DEF RowInv, PaymentInv, Backed, PollLabel, Received
  <2>5. Backed(proc[h])'
    BY <1>1, <1>3, <2>1, <2>3, <2>4 DEF Backed
  <2> QED BY <1>3, <2>1, <2>3, <2>5, ClaimingKeeps DEF ClaimCancel, outside
<1> QED BY <1>2, <1>3 DEF ClaimCancel

LEMMA ExpireCheckoutAgrees ==
  ASSUME RowInv, NEW h \in Handlers, ExpireCheckout(h)
  PROVE  PaymentStep
<1> DEFINE next == At(h, "cancelPayment")
<1>1. /\ Still
      /\ stripe.session \in {"open", "expired"} => stripe'.session = "expired"
  BY ExpiringIsStill DEF ExpireCheckout
<1>2. /\ proc[h].at = "expire" /\ proc[h].found = "SESSION_CREATED" /\ rec.session
      /\ stripe.session # "none" /\ ~(FlupFlap /\ proc[h].role = "poll")
      /\ proc[h].event \in PaidEvents => proc[h].event \in emitted /\ rec.payment \in Received
  BY DEF ExpireCheckout, RowInv, PaymentInv, Backed, OneCheckout, PollLabel
<1>3. CASE Move(h, Idle)
  BY <1>1, <1>3, IdleIsBacked, SteadyMove
<1>4. CASE stripe.session # "complete" /\ Move(h, next)
  <2>1. /\ next \in Local /\ next.at = "cancelPayment" /\ next.found = "SESSION_CREATED"
        /\ next.role = proc[h].role /\ next.event = proc[h].event
    BY <1>2, AtFacts DEF Label, RowInv, IInv
  <2>2. rec' = rec /\ proc'[h] = next /\ \A g \in Handlers \ {h} : Stays(g)
    BY <1>4, <2>1, MoveFacts DEF RowInv, IInv, Stays
  <2>3. stripe'.session = "expired"
    BY <1>1, <1>2, <1>4 DEF RowInv, IInv, TypeOK, StripeState
  <2>4. RowSteady(rec') /\ emitted \subseteq emitted'
    BY <1>1, <2>2 DEF RowSteady, Still
  <2>5. Backed(proc[h])'
    BY <1>2, <2>1, <2>2, <2>3, <2>4 DEF Backed
  <2> QED BY <1>1, <2>1, <2>2, <2>4, <2>5, SteadyKeeps DEF Claimant
<1> QED BY <1>3, <1>4 DEF ExpireCheckout

LEMMA CancelPaymentAgrees ==
  ASSUME RowInv, NEW h \in Handlers, CancelPayment(h)
  PROVE  PaymentStep
<1> DEFINE row == Failed(rec, "CANCELLED")
<1>1. /\ UNCHANGED outside /\ Still /\ proc[h].at = "cancelPayment"
      /\ proc[h].found \in {"PENDING", "SESSION_CREATED"}
      /\ proc[h].found = "SESSION_CREATED" => rec.session /\ stripe.session = "expired"
  BY OutsideStill DEF CancelPayment, RowInv, PaymentInv, Backed
<1>2. CASE Move(h, Idle)
  BY <1>1, <1>2, IdleIsBacked, SteadyMove
<1>3. CASE rec.payment = proc[h].found /\ Save(h, row, Idle)
  <2>1. row \in Row
    BY FailedIsHarmless DEF Harmless, FailureCode, RowInv
  <2>2. rec' = row /\ proc'[h] = Idle /\ \A g \in Handlers \ {h} : Stays(g)
    BY <1>3, <2>1, IdleIsLocal, SaveFacts DEF RowInv, IInv, Stays
  <2>3. Backed(proc[h])' /\ ~Claimant(proc'[h])
    BY <2>2 DEF Idle, Backed, Claimant, PaidEvents
  <2>4. /\ rec.paymentStarted /\ (rec.session => stripe.session = "expired")
        /\ \A g \in Handlers \ {h} : ~Claimant(proc[g])
    <3>1. CASE proc[h].found = "PENDING"
      <4>1. Claimant(proc[h])
        BY <1>1, <3>1 DEF Claimant
      <4> QED BY <4>1 DEF RowInv, PaymentInv, OneCheckout
    <3>2. CASE proc[h].found = "SESSION_CREATED"
      BY <1>1, <3>2, NoClaimantWithSession DEF RowInv, PaymentInv, OneCheckout
    <3> QED BY <1>1, <3>1, <3>2
  <2>5. rec.payment \in AwaitingPayment
    BY <1>1, <1>3 DEF AwaitingPayment
  <2> QED BY <1>1, <2>2, <2>3, <2>4, <2>5, FailingKeeps
<1> QED BY <1>2, <1>3 DEF CancelPayment

LEMMA AdminCancelAgrees ==
  ASSUME RowInv, NEW h \in Handlers, AdminCancel(h)
  PROVE  PaymentStep
<1> DEFINE next == Started("adminCancel", "expireUnpaid")
<1>1. Still /\ rec.session /\ Move(h, next)
  BY OutsideStill DEF AdminCancel, AdminCancellable
<1>2. next \in Local /\ next.at = "expireUnpaid" /\ next.role = "adminCancel" /\ next.event = "none"
  BY StartedFacts DEF Role, Label, Started, Idle
<1>3. Backed(next) /\ ~Claimant(next)
  BY <1>1, <1>2 DEF Backed, Claimant, PaidEvents
<1> QED BY <1>1, <1>2, <1>3, SteadyMove

LEMMA ExpireUnpaidAgrees ==
  ASSUME RowInv, NEW h \in Handlers, ExpireUnpaid(h)
  PROVE  PaymentStep
<1> DEFINE next == [proc[h] EXCEPT !.at = "cancelByAdmin"]
<1>1. /\ proc[h].at = "expireUnpaid" /\ rec.session /\ proc[h] \in Local
      /\ stripe.session # "none" /\ ~(FlupFlap /\ proc[h].role = "poll")
      /\ proc[h].event \in PaidEvents => proc[h].event \in emitted /\ rec.payment \in Received
  BY DEF ExpireUnpaid, RowInv, IInv, TypeOK, PaymentInv, Backed, OneCheckout, PollLabel
<1>2. Still
  <2>1. CASE UNCHANGED <<stripe, emitted>>
    BY <2>1 DEF ExpireUnpaid, Still
  <2>2. CASE stripe' = ExpireSession /\ emitted' = ExpiredEvents
    BY <2>2, ExpiringIsStill DEF ExpireUnpaid
  <2> QED BY <2>1, <2>2 DEF ExpireUnpaid
<1>3. CASE Move(h, Idle)
  BY <1>2, <1>3, IdleIsBacked, SteadyMove
<1>4. CASE stripe.session # "complete" /\ stripe' = ExpireSession /\ emitted' = ExpiredEvents
           /\ Move(h, next)
  <2>1. /\ next \in Local /\ next.at = "cancelByAdmin"
        /\ next.role = proc[h].role /\ next.event = proc[h].event
    BY <1>1 DEF Local, Label
  <2>2. rec' = rec /\ proc'[h] = next /\ \A g \in Handlers \ {h} : Stays(g)
    BY <1>4, <2>1, MoveFacts DEF RowInv, IInv, Stays
  <2>3. stripe'.session = "expired"
    BY <1>1, <1>4, ExpiringIsStill DEF RowInv, IInv, TypeOK, StripeState, ExpireUnpaid
  <2>4. RowSteady(rec') /\ emitted \subseteq emitted'
    BY <1>2, <2>2 DEF RowSteady, Still
  <2>5. Backed(proc[h])'
    BY <1>1, <2>1, <2>2, <2>3, <2>4 DEF Backed
  <2> QED BY <1>2, <2>1, <2>2, <2>4, <2>5, SteadyKeeps DEF Claimant
<1> QED BY <1>3, <1>4 DEF ExpireUnpaid

LEMMA CancelPendingByAdminAgrees ==
  ASSUME RowInv, NEW h \in Handlers, CancelPendingByAdmin(h)
  PROVE  PaymentStep
<1> DEFINE row == Failed(rec, "CANCELLED")
<1>1. /\ UNCHANGED outside /\ Still /\ rec.session /\ stripe.session = "expired"
      /\ rec.paymentStarted
  BY OutsideStill DEF CancelPendingByAdmin, RowInv, PaymentInv, Backed, OneCheckout
<1>2. CASE Move(h, Idle)
  BY <1>1, <1>2, IdleIsBacked, SteadyMove
<1>3. CASE AdminCancellable /\ Save(h, row, Idle)
  <2>1. row \in Row
    BY FailedIsHarmless DEF Harmless, FailureCode, RowInv
  <2>2. rec' = row /\ proc'[h] = Idle /\ \A g \in Handlers \ {h} : Stays(g)
    BY <1>3, <2>1, IdleIsLocal, SaveFacts DEF RowInv, IInv, Stays
  <2>3. Backed(proc[h])' /\ ~Claimant(proc'[h])
    BY <2>2 DEF Idle, Backed, Claimant, PaidEvents
  <2>4. rec.payment \in AwaitingPayment
    BY <1>3 DEF AwaitingPayment, AdminCancellable
  <2> QED BY <1>1, <2>2, <2>3, <2>4, NoClaimantWithSession, FailingKeeps
<1> QED BY <1>2, <1>3 DEF CancelPendingByAdmin

---------------------------------------------------------------------------
(* The customer, Stripe, the provider and crashes.                         *)

\* A step outside touches neither the row nor a handler.
LEMMA OutsideAgrees ==
  ASSUME RowInv, UNCHANGED <<rec, processed, ledger, proc>>,
         rec.session /\ stripe.session = "expired" => stripe'.session = "expired",
         stripe.session # "none" => stripe'.session # "none",
         ~rec.session => stripe'.intent = "none",
         stripe.intent = "succeeded" => stripe'.intent = "succeeded",
         emitted \subseteq emitted',
         stripe'.intent \in {"processing", "succeeded"} => stripe'.session = "complete",
         stripe'.intent = "succeeded" <=> PaidEvents \intersect emitted' # {},
         airtime \in {"SUCCESSFUL", "REFUNDED"} => airtime' \in {"SUCCESSFUL", "REFUNDED"},
         airtime = "REFUNDED" => airtime' = "REFUNDED"
  PROVE  PaymentStep
<1>1. Advances /\ Forward
  BY RankFacts DEF Advances, Forward, RowInv, IInv, TypeOK, Row
<1>2. \A g \in Handlers : Backed(proc[g])'
  BY <1>1, BackedLasts DEF RowInv, PaymentInv
<1>3. OneCheckout'
  BY DEF RowInv, PaymentInv, OneCheckout, Claimant
<1>4. PaymentIsGenuine' /\ CancelledIsClosed' /\ LedgerFollowsAirtime'
  BY DEF RowInv, PaymentInv, PaymentIsGenuine, CancelledIsClosed, LedgerFollowsAirtime
<1> QED BY <1>1, <1>2, <1>3, <1>4 DEF PaymentStep, PaymentInv

LEMMA CustomerAgrees ==
  ASSUME RowInv, CustomerPays \/ CustomerIsDeclined \/ DelayedPaymentSettles
  PROVE  PaymentStep
<1>1. UNCHANGED <<rec, processed, ledger, proc, airtime>> /\ rec.session
  BY DEF CustomerPays, CustomerIsDeclined, DelayedPaymentSettles, StripeMoves,
         RowInv, PaymentInv, OneCheckout
<1>2. /\ stripe \in StripeState
      /\ stripe.intent \in {"processing", "succeeded"} => stripe.session = "complete"
      /\ stripe.intent = "succeeded" <=> PaidEvents \intersect emitted # {}
  BY DEF RowInv, IInv, TypeOK, PaymentInv, PaymentIsGenuine
<1>3. CASE CustomerPays
  <2>1. /\ stripe'.session = "complete" /\ emitted \subseteq emitted'
        /\ \/ stripe'.intent = "succeeded" /\ "completed" \in emitted'
           \/ stripe'.intent = "processing" /\ emitted' = emitted \union {"completedUnpaid"}
    BY <1>2, <1>3 DEF CustomerPays, StripeState
  <2> QED BY <1>1, <1>2, <1>3, <2>1, OutsideAgrees DEF CustomerPays, PaidEvents
<1>4. CASE CustomerIsDeclined
  <2>1. /\ stripe'.session = stripe.session /\ stripe'.intent = "declined"
        /\ emitted' = emitted \union {"paymentFailed"} /\ stripe.intent = "none"
    BY <1>2, <1>4 DEF CustomerIsDeclined, StripeState
  <2> QED BY <1>1, <1>2, <2>1, OutsideAgrees DEF PaidEvents
<1>5. CASE DelayedPaymentSettles
  <2>1. /\ stripe'.session = stripe.session /\ emitted \subseteq emitted'
        /\ stripe.intent = "processing"
        /\ \/ stripe'.intent = "succeeded" /\ "asyncSucceeded" \in emitted'
           \/ /\ stripe'.intent = "declined"
              /\ emitted' = emitted \union {"asyncFailed", "paymentFailed"}
    BY <1>2, <1>5 DEF DelayedPaymentSettles, StripeState
  <2> QED BY <1>1, <1>2, <2>1, OutsideAgrees DEF PaidEvents
<1> QED BY <1>3, <1>4, <1>5

LEMMA SessionExpiresAgrees == ASSUME RowInv, SessionExpires PROVE PaymentStep
<1>1. UNCHANGED <<rec, processed, ledger, proc, airtime>>
  BY DEF SessionExpires, StripeMoves
<1>2. /\ stripe'.session = "expired" /\ stripe'.intent = stripe.intent
      /\ emitted' = emitted \union {"expired"} /\ stripe.session = "open"
  BY DEF SessionExpires, ExpireSession, ExpiredEvents, RowInv, IInv, TypeOK, StripeState
<1> QED BY <1>1, <1>2, OutsideAgrees
        DEF RowInv, PaymentInv, OneCheckout, PaymentIsGenuine, PaidEvents

LEMMA RefundSettlesAgrees == ASSUME RowInv, RefundSettles PROVE PaymentStep
<1>1. UNCHANGED <<rec, processed, ledger, proc, airtime, emitted>>
  BY DEF RefundSettles, StripeMoves
<1>2. stripe'.session = stripe.session /\ stripe'.intent = stripe.intent
  BY DEF RefundSettles, RowInv, IInv, TypeOK, StripeState
<1> QED BY <1>1, <1>2, OutsideAgrees DEF RowInv, PaymentInv, OneCheckout, PaymentIsGenuine

LEMMA AirtimeMovesAgrees == ASSUME RowInv, NEW from, AirtimeMoves(from) PROVE PaymentStep
<1>1. UNCHANGED <<rec, processed, ledger, proc, stripe, emitted>>
  BY DEF AirtimeMoves
<1>2. airtime \in AirtimeState /\ airtime' \in AirtimeNext[airtime]
  BY DEF AirtimeMoves, RowInv, IInv, TypeOK
<1>3. airtime # "none" => airtime \in Accepted
  BY <1>2 DEF Accepted
<1>4. airtime = "SUCCESSFUL" => airtime' = "REFUNDED"
  BY <1>2, <1>3 DEF AirtimeNext
<1>5. airtime = "REFUNDED" => FALSE
  BY <1>2, <1>3 DEF AirtimeNext
<1> QED BY <1>1, <1>4, <1>5, OutsideAgrees DEF RowInv, PaymentInv, OneCheckout, PaymentIsGenuine

---------------------------------------------------------------------------
(* Every step.                                                             *)

LEMMA StepAgrees ==
  ASSUME RowInv, NEW h \in Handlers, Step(h)
  PROVE  PaymentStep
<1>1. CASE CreateSession(h) \/ SessionRefused(h) \/ StoreSession(h)
  BY <1>1, CreateSessionAgrees, SessionRefusedAgrees, StoreSessionAgrees
<1>2. CASE BlockRetries(h) \/ TransitionPayment(h) \/ CompleteEvent(h)
  BY <1>2, BlockRetriesAgrees, TransitionPaymentAgrees, CompleteEventAgrees
<1>3. CASE Fulfill(h) \/ Gate(h) \/ Hold(h) \/ ClaimFulfillment(h) \/ SubmitTopUp(h)
  BY <1>3, FulfillAgrees, GateAgrees, HoldAgrees, ClaimFulfillmentAgrees, SubmitTopUpAgrees
<1>4. CASE RecordRejected(h) \/ RecordUnknown(h) \/ Apply(h) \/ PostLedger(h)
  BY <1>4, RecordRejectedAgrees, RecordUnknownAgrees, ApplyAgrees, PostLedgerAgrees
<1>5. CASE ReadEvidence(h) \/ ClaimSecurityRefund(h) \/ ClaimRecovery(h)
  BY <1>5, ReadEvidenceAgrees, ClaimSecurityRefundAgrees, ClaimRecoveryAgrees
<1>6. CASE ReadPayment(h) \/ MarkRefund(h) \/ Refund(h) \/ ConfirmRefund(h)
  BY <1>6, ReadPaymentAgrees, MarkRefundAgrees, RefundAgrees, ConfirmRefundAgrees
<1>7. CASE ReadCheckout(h) \/ SettleCheckout(h) \/ QueryRefund(h)
  BY <1>7, ReadCheckoutAgrees, SettleCheckoutAgrees, QueryRefundAgrees
<1>8. CASE ReadTopUp(h) \/ FindTopUp(h) \/ Defer(h) \/ Release(h)
  BY <1>8, ReadTopUpAgrees, FindTopUpAgrees, DeferAgrees, ReleaseAgrees
<1>9. CASE ClaimCancel(h) \/ ExpireCheckout(h) \/ CancelPayment(h)
  BY <1>9, ClaimCancelAgrees, ExpireCheckoutAgrees, CancelPaymentAgrees
<1>10. CASE ExpireUnpaid(h) \/ CancelPendingByAdmin(h)
  BY <1>10, ExpireUnpaidAgrees, CancelPendingByAdminAgrees
<1> QED BY <1>1, <1>2, <1>3, <1>4, <1>5, <1>6, <1>7, <1>8, <1>9, <1>10 DEF Step

LEMMA NextAgrees == RowInv /\ [Next]_vars => PaymentStep
<1> SUFFICES ASSUME RowInv, [Next]_vars PROVE PaymentStep
  OBVIOUS
<1>1. ASSUME NEW h \in Requests, Request(h) PROVE PaymentStep
  BY <1>1, ClaimPaymentAgrees, PollAgrees, ApproveFraudReviewAgrees, CancelAgrees,
     AdminCancelAgrees DEF Request, Handlers
<1>2. ASSUME NEW h \in Requests, Deliver(h) PROVE PaymentStep
  BY <1>2, AcceptAndBlockRetriesAgrees, AcceptEventAgrees DEF Deliver, Handlers
<1>3. ASSUME NEW w \in Workers, Reconcile(w) PROVE PaymentStep
  BY <1>3, ReconcileAgrees DEF Handlers
<1>4. ASSUME NEW h \in Handlers, Crash(h) PROVE PaymentStep
  BY <1>4, IdleIsBacked, CallFailsStill, SteadyMove DEF Crash
<1>5. CASE Outside
  BY <1>5, CustomerAgrees, SessionExpiresAgrees, RefundSettlesAgrees, AirtimeMovesAgrees
     DEF Outside, AirtimeSettles, AirtimeIsReversed
<1>6. CASE UNCHANGED vars
  BY <1>6, OutsideAgrees DEF vars, RowInv, PaymentInv, OneCheckout, PaymentIsGenuine
<1> QED BY <1>1, <1>2, <1>3, <1>4, <1>5, <1>6, StepAgrees DEF Next

LEMMA InitAgrees == Init => RowInv
<1> SUFFICES ASSUME Init PROVE RowInv
  OBVIOUS
<1>1. IInv
  BY InitHolds
<1>2. \A h \in Handlers : Backed(proc[h]) /\ ~Claimant(proc[h])
  BY IdleIsBacked DEF Init
<1>3. rec = Reserved /\ stripe.session = "none" /\ stripe.intent = "none"
      /\ emitted = {} /\ processed = {} /\ ledger = {}
  BY DEF Init
<1>4. ~rec.session /\ rec.payment = "PENDING" /\ rec.failure = "NONE"
  BY <1>3 DEF Reserved
<1>5. OneCheckout /\ PaymentIsGenuine /\ CancelledIsClosed /\ LedgerFollowsAirtime
  BY <1>2, <1>3, <1>4 DEF OneCheckout, PaymentIsGenuine, CancelledIsClosed,
     LedgerFollowsAirtime, Received
<1> QED BY <1>1, <1>2, <1>5 DEF RowInv, PaymentInv

LEMMA PaymentInvariance == Spec => []RowInv
<1>1. RowInv /\ [Next]_vars => RowInv'
  BY NextKeeps, NextAgrees DEF RowInv, PaymentStep
<1> QED BY <1>1, InitAgrees, PTL DEF Spec

\* Late failure webhooks, cancellations and reconciliations with a stale copy
\* never take a captured payment back, and a refund only ever goes on: the
\* compare-and-set of transitionPayment and the claims of repository.ts.
THEOREM PaymentMovesForward == Spec => PaymentOnlyMovesForward
<1>1. RowInv /\ [Next]_vars => [PaymentRank[rec'.payment] >= PaymentRank[rec.payment]]_vars
  BY NextAgrees DEF PaymentStep, Forward
<1> QED BY <1>1, PaymentInvariance, PTL DEF Spec, PaymentOnlyMovesForward

\* acceptVerifiedPaymentEvent and reconcileHostedStripePending: what the row says
\* of the payment is what happened at Stripe, and a payment the row does not show
\* is still announced by an event that nobody has acknowledged.
THEOREM PaymentsAgree == Spec => []RowAndStripeAgree
<1>1. ASSUME RowInv PROVE PaidIsNeverForgotten
  <2> SUFFICES ASSUME stripe.intent = "succeeded", rec.payment \notin Received
               PROVE  PaidEvents \intersect (emitted \ processed) # {}
    BY DEF PaidIsNeverForgotten
  <2>1. PICK e \in PaidEvents : e \in emitted
    BY <1>1 DEF RowInv, PaymentInv, PaymentIsGenuine
  <2>2. e \notin processed
    BY <1>1, <2>1 DEF RowInv, PaymentInv, PaymentIsGenuine
  <2> QED BY <2>1, <2>2
<1>2. RowInv => RowAndStripeAgree
  BY <1>1 DEF RowInv, IInv, PaymentInv, PaymentIsGenuine, RowAndStripeAgree, ReceivedOnlyWhenPaid
<1> QED BY <1>2, PaymentInvariance, PTL

\* cancelTransaction and cancelPendingPaymentByAdmin say so only of a recharge
\* without a session, or with one that Stripe expired first.
THEOREM CancelledIsNotCharged == Spec => []CancelledIsNeverCharged
<1>1. RowInv => CancelledIsNeverCharged
  BY DEF RowInv, PaymentInv, CancelledIsClosed, OneCheckout, PaymentIsGenuine,
         CancelledIsNeverCharged
<1> QED BY <1>1, PaymentInvariance, PTL

\* postDeliveredLedger is reached only for airtime that was once delivered, and
\* postRefundLedger only after it, for airtime the provider took back.
THEOREM LedgerIsGenuine == Spec => []LedgerFollowsAirtime
<1>1. RowInv => LedgerFollowsAirtime
  BY DEF RowInv, PaymentInv
<1> QED BY <1>1, PaymentInvariance, PTL

\* A status request of a FlupFlap customer goes through refreshTransaction with
\* allowExternalActions false, and so comes to no submission and no refund.
THEOREM PollIsHarmless == Spec => []PollMovesNothing
<1>1. RowInv => PollMovesNothing
  BY DEF RowInv, PaymentInv, Backed, PollLabel, PollMovesNothing
<1> QED BY <1>1, PaymentInvariance, PTL

=============================================================================
