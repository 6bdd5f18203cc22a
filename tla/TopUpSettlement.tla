-------------------------- MODULE TopUpSettlement --------------------------
(***************************************************************************)
(* Settlement of one hosted-checkout mobile recharge: the row of           *)
(* MobileTopUpTransaction, the money at Stripe, the airtime at the         *)
(* recharge provider, and the handlers of the API processes that move it   *)
(* (apps/api/src/topup/service.ts over topup/repository.ts).               *)
(*                                                                         *)
(* Rows of different recharges share nothing here, so one row is modelled. *)
(* A handler is one execution of a service method; it runs one step        *)
(* between two awaits, so that every other handler, the customer at        *)
(* Stripe, and the provider may act between any two of its steps.  A step  *)
(* writes the row with the compare-and-set, or without one, exactly as the *)
(* repository method it calls does.                                        *)
(***************************************************************************)
EXTENDS Naturals, FiniteSets

CONSTANTS
  Requests,      \* concurrent requests: customer, staff and Stripe calls
  Workers,       \* reconciliation timers, one per API process
  FlupFlap,      \* the row belongs to a FlupFlap customer, not a TiCash user
  Live,          \* production row (testMode is false)
  AutoRefunds,   \* FLUPFLAP_AUTO_SECURITY_REFUNDS_ENABLED
  Kinds,         \* bound: requests received besides checkout and webhooks
  MaxFaults      \* bound: crashes and failed or lost external calls

Handlers == Requests \union Workers

ASSUME ConfigurationAssumption ==
  /\ Requests \intersect Workers = {}
  /\ {FlupFlap, Live, AutoRefunds} \subseteq BOOLEAN
  /\ Kinds \subseteq {"poll", "review", "cancel", "adminCancel"}
  /\ MaxFaults \in Nat

VARIABLES
  rec,           \* the MobileTopUpTransaction row
  assessment,    \* RechargeFraudAssessment: none, held, or reviewed by staff
  ledger,        \* postings made for the row
  processed,     \* Stripe events whose processedAt is set
  stripe,        \* checkout session, its payment intent and the refund
  emitted,       \* Stripe events sent at least once (redelivered at will)
  airtime,       \* the provider's own state of the top-up
  submissions,   \* submitTopUp calls the provider acted on
  proc,          \* what each handler is doing
  faults         \* crashes and failed external calls so far

vars == <<rec, assessment, ledger, processed, stripe, emitted, airtime,
          submissions, proc, faults>>
outside == <<assessment, ledger, processed, stripe, emitted, airtime,
             submissions, faults>>

---------------------------------------------------------------------------
(* The row.                                                                *)

RechargeStatus == {"PENDING", "PROCESSING", "DELIVERED", "FAILED", "REFUNDED"}

\* AUTHORIZED, VOID_PENDING and VOIDED never occur: hosted checkout captures
\* automatically.
PaymentStatus == {"PENDING", "SESSION_CREATED", "CAPTURED", "FAILED",
                  "REFUND_PENDING", "REFUNDED"}
AwaitingPaymentOrPaid == PaymentStatus
AwaitingPayment == {"PENDING", "SESSION_CREATED"}
UnpaidUnlessDeclined == AwaitingPayment
Unpaid == AwaitingPayment \union {"FAILED"}

FailureCode == {"NONE", "PAYMENT_FAILED", "PAYMENT_RECOVERED", "CANCELLED",
                "FRAUD_REVIEW_REQUIRED", "FRAUD_REVIEW_APPROVED",
                "SECURITY_REFUND_REQUIRED", "TOPUP_REJECTED",
                "TOPUP_SUBMISSION_UNKNOWN", "TOPUP_PROVIDER_FAILED"}

\* A column that is null or a timestamp/reference is a BOOLEAN here.
Row == [status : RechargeStatus, payment : PaymentStatus,
        failure : FailureCode, session : BOOLEAN, paymentStarted : BOOLEAN,
        fulfillmentStarted : BOOLEAN, recoveryStarted : BOOLEAN,
        providerRef : BOOLEAN, delivered : BOOLEAN, valueConfirmed : BOOLEAN]

Reserved == [status |-> "PENDING", payment |-> "PENDING", failure |-> "NONE",
             session |-> FALSE, paymentStarted |-> FALSE,
             fulfillmentStarted |-> FALSE, recoveryStarted |-> FALSE,
             providerRef |-> FALSE, delivered |-> FALSE,
             valueConfirmed |-> FALSE]

Held(r) == r.failure = "FRAUD_REVIEW_REQUIRED"
PaidAndWaiting(r) == r.status = "PENDING" /\ r.payment = "CAPTURED"

---------------------------------------------------------------------------
(* The parties outside.                                                    *)

StripeState == [session : {"none", "open", "complete", "expired"},
                intent : {"none", "declined", "processing", "succeeded"},
                refund : {"none", "pending", "succeeded"}]

\* checkout.session.completed is split by its payment_status;
\* payment_intent.canceled takes the path of payment_intent.payment_failed.
PaidEventsOfAnyStatus == {"completed", "asyncSucceeded", "completedUnpaid"}
PaidEvents == {"completed", "asyncSucceeded"}
FailureEvents == {"asyncFailed", "expired", "paymentFailed"}
Events == PaidEvents \union FailureEvents \union {"completedUnpaid"}

AirtimeState == {"none", "CREATED", "PROCESSING", "SUCCESSFUL", "FAILED", "REFUNDED"}
Accepted == AirtimeState \ {"none"}

\* What the provider may report later, given what it reports now.
AirtimeNext == [a \in Accepted |->
  CASE a = "CREATED" -> {"PROCESSING", "SUCCESSFUL", "FAILED"}
    [] a = "PROCESSING" -> {"SUCCESSFUL", "FAILED", "REFUNDED"}
    [] a = "SUCCESSFUL" -> {"REFUNDED"}
    [] OTHER -> {}]

mapProviderStatusAsIs == [a \in Accepted |-> IF a = "SUCCESSFUL" THEN "DELIVERED" ELSE a]
mapProviderStatusEarly == [a \in Accepted |->
  CASE a = "CREATED" -> "PENDING"
    [] a \in {"PROCESSING", "SUCCESSFUL"} -> "DELIVERED"
    [] OTHER -> a]
mapProviderStatus == [a \in Accepted |->
  CASE a = "CREATED" -> "PENDING"
    [] a = "SUCCESSFUL" -> "DELIVERED"
    [] OTHER -> a]

---------------------------------------------------------------------------
(* The handlers.                                                           *)

Role == {"none", "checkout", "webhook", "worker", "poll", "review",
         "cancel", "adminCancel"}

Label == {"idle", "createSession", "storeSession",
          "blockRetries", "transition", "complete",
          "fulfill", "gate", "hold", "claimFulfillment", "submit",
          "recordRejected", "recordUnknown", "apply", "postLedger",
          "evidence", "claimRefund", "claimRecovery", "readPayment",
          "markRefund", "refund", "confirmRefund",
          "readCheckout", "settleCheckout", "queryRefund", "refundAgain",
          "readTopUp", "findTopUp", "defer", "release",
          "expire", "claimCancel", "cancelPayment",
          "expireUnpaid", "cancelByAdmin"}

\* event: the webhook being handled.  found: what the last read told the
\* handler and it still relies on.  fresh: no one has written the row since
\* the handler read it, i.e. updatedAt still has the value it compares with.
Found == AirtimeState \union PaymentStatus \union
         {"replay", "captured", "declined", "expired", "rejected"}
Local == [at : Label, role : Role, event : Events \union {"none"},
          found : Found, fresh : BOOLEAN]

Idle == [at |-> "idle", role |-> "none", event |-> "none",
         found |-> "none", fresh |-> FALSE]

\* Steps that rely on the copy of the row read, or written, just before them.
Comparing == {"evidence", "defer", "expireUnpaid"}

Started(role, label) ==
  [Idle EXCEPT !.at = label, !.role = role, !.fresh = label \in Comparing]
At(h, label) == [proc[h] EXCEPT !.at = label, !.fresh = label \in Comparing]
Reading(h, label, what) == [At(h, label) EXCEPT !.found = what]

\* A method returns to its caller: a webhook marks its event processed, the
\* worker looks whether the hold must be rotated out of its batch.  After a
\* rejected submission fulfillPaidRecharge throws instead.
Returned(h) ==
  CASE proc[h].found = "rejected" -> Idle
    [] proc[h].found # "rejected" /\ proc[h].role = "webhook" ->
         Reading(h, "complete", "none")
    [] proc[h].found # "rejected" /\ proc[h].role = "worker" ->
         Reading(h, "defer", "none")
    [] OTHER -> Idle

\* FlupFlap status requests may read the providers, but move nothing there.
AllowExternalActionsToAll(h) == TRUE
AllowExternalActions(h) == ~(proc[h].role = "poll" /\ FlupFlap)

Move(h, next) == rec' = rec /\ proc' = [proc EXCEPT ![h] = next]

\* Every write renews updatedAt, so every other handler's copy is stale.
Save(h, row, next) ==
  /\ rec' = row
  /\ proc' = [g \in Handlers |->
                IF g = h THEN next ELSE [proc[g] EXCEPT !.fresh = FALSE]]

Fault == faults < MaxFaults /\ faults' = faults + 1

\* An external call of h fails, or its answer is lost: h gives up here.
CallFails(h, next) ==
  /\ Fault
  /\ Move(h, next)
  /\ UNCHANGED <<assessment, ledger, processed, stripe, emitted, airtime,
                 submissions>>

---------------------------------------------------------------------------
(* createPaymentSession, after the row is reserved.                        *)

ClaimPayment(h) ==
  /\ proc[h] = Idle
  /\ ~rec.paymentStarted /\ rec.payment = "PENDING"
  /\ Save(h, [rec EXCEPT !.paymentStarted = TRUE], Started("checkout", "createSession"))
  /\ UNCHANGED outside

CreateSession(h) ==
  /\ proc[h].at = "createSession"
  /\ stripe' = [stripe EXCEPT !.session = "open"]
  /\ \/ Move(h, At(h, "storeSession")) /\ UNCHANGED faults
     \/ Fault /\ Save(h, rec, Idle)
  /\ UNCHANGED <<assessment, ledger, processed, emitted, airtime, submissions>>

SessionRefused(h) ==
  /\ proc[h].at = "createSession"
  /\ Fault
  /\ Save(h, rec, Idle)
  /\ UNCHANGED <<assessment, ledger, processed, stripe, emitted, airtime, submissions>>

StoreSession(h) ==
  /\ proc[h].at = "storeSession"
  /\ Save(h, [rec EXCEPT !.session = TRUE, !.payment = "SESSION_CREATED"], Idle)
  /\ UNCHANGED outside

---------------------------------------------------------------------------
(* acceptVerifiedPaymentEvent.                                             *)

Captured(r) == [r EXCEPT !.payment = "CAPTURED", !.status = "PENDING",
                         !.failure = "PAYMENT_RECOVERED"]
Failed(r, code) == [r EXCEPT !.payment = "FAILED", !.status = "FAILED",
                             !.failure = code]

\* "replay" remembers that the row already was paid and waiting when the
\* event was looked up.
AcceptEvent(h, e) ==
  /\ proc[h] = Idle
  /\ rec.session /\ e \in emitted \ processed
  /\ Move(h, [Started("webhook", IF e \in PaidEvents \union FailureEvents
                                THEN "transition" ELSE "complete")
                EXCEPT !.event = e,
                       !.found = IF PaidAndWaiting(rec) THEN "replay" ELSE "none"])
  /\ UNCHANGED outside

\* A customer over the limit of failed attempts: no more retries in this session.
AcceptAndBlockRetries(h) ==
  /\ Live /\ FlupFlap
  /\ proc[h] = Idle
  /\ rec.session /\ "paymentFailed" \in emitted \ processed
  /\ Move(h, [Started("webhook", "blockRetries") EXCEPT !.event = "paymentFailed"])
  /\ UNCHANGED outside

ExpireSessionLocallyOnly == stripe
ExpireSession == [stripe EXCEPT !.session = IF @ = "open" THEN "expired" ELSE @]
ExpiredEvents == IF stripe.session = "open" THEN emitted \union {"expired"} ELSE emitted

BlockRetries(h) ==
  /\ proc[h].at = "blockRetries"
  /\ stripe' = ExpireSession
  /\ emitted' = ExpiredEvents
  /\ \/ Move(h, At(h, "transition")) /\ UNCHANGED faults
     \/ Fault /\ Move(h, Idle)
  /\ UNCHANGED <<assessment, ledger, processed, airtime, submissions>>

TransitionPayment(h) ==
  /\ proc[h].at = "transition"
  /\ \/ /\ proc[h].event \in PaidEvents /\ rec.payment \in Unpaid
        /\ Save(h, Captured(rec), Reading(h, "fulfill", "none"))
     \/ /\ proc[h].event \in PaidEvents /\ rec.payment \notin Unpaid
        /\ Move(h, Reading(h, IF proc[h].found = "replay" THEN "fulfill" ELSE "complete",
                              "none"))
     \/ /\ proc[h].event \in FailureEvents
        /\ rec.payment \in AwaitingPayment
        /\ Save(h, Failed(rec, "PAYMENT_FAILED"), Returned(h))
     \/ /\ proc[h].event \in FailureEvents
        /\ rec.payment \notin AwaitingPayment
        /\ Move(h, Returned(h))
  /\ UNCHANGED outside

CompleteEvent(h) ==
  /\ proc[h].at = "complete"
  /\ processed' = processed \union {proc[h].event}
  /\ Move(h, Idle)
  /\ UNCHANGED <<assessment, ledger, stripe, emitted, airtime, submissions, faults>>

---------------------------------------------------------------------------
(* fulfillPaidRecharge.                                                    *)

GateOn == FlupFlap /\ (Live \/ AutoRefunds)

\* refundConfirmedSecurityFailure goes on only for such a row.
SecurityRefundableAnyTime(r) == AutoRefunds /\ FlupFlap /\ PaidAndWaiting(r) /\ Held(r)
SecurityRefundable(r) ==
  /\ AutoRefunds /\ FlupFlap
  /\ PaidAndWaiting(r) /\ Held(r)
  /\ ~r.fulfillmentStarted /\ ~r.providerRef /\ ~r.delivered /\ ~r.recoveryStarted

Fulfill(h) ==
  /\ proc[h].at = "fulfill"
  /\ \/ /\ GateOn /\ PaidAndWaiting(rec)
        /\ \/ /\ Held(rec) /\ SecurityRefundable(rec)
              /\ Move(h, At(h, "evidence"))
           \/ Held(rec) /\ ~SecurityRefundable(rec) /\ Move(h, Returned(h))
           \/ ~Held(rec) /\ Move(h, At(h, "gate"))
     \/ ~(GateOn /\ PaidAndWaiting(rec)) /\ Move(h, At(h, "claimFulfillment"))
  /\ UNCHANGED outside

\* The gate clears the charge, holds it, or cannot be asked; an unreviewed hold
\* stays.  Only a judgement on the charge itself is saved as an assessment.
Gate(h) ==
  /\ proc[h].at = "gate"
  /\ \/ assessment # "held" /\ Move(h, At(h, "claimFulfillment")) /\ UNCHANGED assessment
     \/ /\ assessment' = IF assessment = "none" THEN "held" ELSE assessment
        /\ Move(h, At(h, "hold"))
     \/ Move(h, At(h, "hold")) /\ UNCHANGED assessment
  /\ UNCHANGED <<ledger, processed, stripe, emitted, airtime, submissions, faults>>

Hold(h) ==
  LET row == [rec EXCEPT !.failure = "FRAUD_REVIEW_REQUIRED"]
  IN  /\ proc[h].at = "hold"
      /\ \/ /\ SecurityRefundable(row)
            /\ Save(h, row, At(h, "evidence"))
         \/ ~SecurityRefundable(row) /\ Save(h, row, Returned(h))
      /\ UNCHANGED outside

\* claimOperation(id, 'fulfillment')
FulfillmentClaimableTwice == ~rec.recoveryStarted /\ PaidAndWaiting(rec) /\ ~Held(rec)
FulfillmentClaimable ==
  /\ ~rec.fulfillmentStarted /\ ~rec.providerRef /\ ~rec.recoveryStarted
  /\ PaidAndWaiting(rec) /\ ~Held(rec)

ClaimFulfillment(h) ==
  /\ proc[h].at = "claimFulfillment"
  /\ \/ /\ FulfillmentClaimable
        /\ Save(h, [rec EXCEPT !.fulfillmentStarted = TRUE], At(h, "submit"))
     \/ ~FulfillmentClaimable /\ Move(h, Returned(h))
  /\ UNCHANGED outside

\* submitTopUp: refused before any airtime is sent (status 400), accepted, or
\* the outcome is not known here.
SubmitTopUp(h) ==
  /\ proc[h].at = "submit"
  /\ \/ /\ Move(h, At(h, "recordRejected"))
        /\ UNCHANGED <<airtime, submissions, faults>>
     \/ \E a \in Accepted \ {"REFUNDED"} :
          /\ airtime' = a
          /\ submissions' = submissions + 1
          /\ \/ Move(h, Reading(h, "apply", a)) /\ UNCHANGED faults
             \/ Fault /\ Move(h, At(h, "recordUnknown"))
     \/ /\ Fault /\ Move(h, At(h, "recordUnknown"))
        /\ UNCHANGED <<airtime, submissions>>
  /\ UNCHANGED <<assessment, ledger, processed, stripe, emitted>>

RecordRejected(h) ==
  /\ proc[h].at = "recordRejected"
  /\ Save(h, [rec EXCEPT !.status = "FAILED", !.failure = "TOPUP_REJECTED"],
          Reading(h, "claimRecovery", "rejected"))
  /\ UNCHANGED outside

RecordUnknownAsRejected(h) ==
  /\ proc[h].at = "recordUnknown"
  /\ Save(h, [rec EXCEPT !.status = "FAILED"], Reading(h, "claimRecovery", "rejected"))
  /\ UNCHANGED outside
RecordUnknown(h) ==
  /\ proc[h].at = "recordUnknown"
  /\ Save(h, [rec EXCEPT !.status = "PROCESSING",
                         !.failure = "TOPUP_SUBMISSION_UNKNOWN"], Idle)
  /\ UNCHANGED outside

---------------------------------------------------------------------------
(* applyProviderResult.                                                    *)

Apply(h) ==
  LET status == mapProviderStatus[proc[h].found]
      row == [rec EXCEPT !.status = status, !.providerRef = TRUE]
  IN  /\ proc[h].at = "apply"
      /\ \/ /\ status = "DELIVERED" /\ ~(rec.delivered /\ rec.valueConfirmed)
            /\ \E confirmed \in BOOLEAN :
                 Save(h, [row EXCEPT !.delivered = TRUE,
                                     !.valueConfirmed = @ \/ confirmed],
                      At(h, "postLedger"))
         \/ /\ status = "DELIVERED" /\ rec.delivered /\ rec.valueConfirmed
            /\ Move(h, At(h, "postLedger"))
         \/ /\ status = "REFUNDED"
            /\ Save(h, row, At(h, "postLedger"))
         \/ /\ status = "FAILED"
            /\ Save(h, [row EXCEPT !.failure = "TOPUP_PROVIDER_FAILED"],
                    Reading(h, "claimRecovery", "none"))
         \/ /\ status \notin {"DELIVERED", "REFUNDED", "FAILED"}
            /\ Save(h, row, Returned(h))
      /\ UNCHANGED outside

\* postDeliveredLedger and postRefundLedger
PostLedger(h) ==
  /\ proc[h].at = "postLedger"
  /\ \/ /\ mapProviderStatus[proc[h].found] = "DELIVERED"
        /\ ledger' = ledger \union {"delivered"}
        /\ Move(h, Returned(h))
     \/ /\ mapProviderStatus[proc[h].found] = "REFUNDED"
        /\ ledger' = IF "delivered" \in ledger THEN ledger \union {"refunded"} ELSE ledger
        /\ Move(h, Reading(h, "claimRecovery", "none"))
  /\ UNCHANGED <<assessment, processed, stripe, emitted, airtime, submissions, faults>>

---------------------------------------------------------------------------
(* refundConfirmedSecurityFailure and recoverPayment.                      *)

\* Stripe's evidence and payment are read; unknown evidence moves no money.
ReadEvidence(h) ==
  /\ proc[h].at = "evidence"
  /\ \/ Move(h, [proc[h] EXCEPT !.at = "claimRefund"]) /\ UNCHANGED outside
     \/ CallFails(h, [Returned(h) EXCEPT !.fresh = proc[h].fresh])

\* claimSecurityRefund compares updatedAt with the copy read before.
ClaimSecurityRefund(h) ==
  /\ proc[h].at = "claimRefund"
  /\ \/ /\ proc[h].fresh /\ SecurityRefundable(rec)
        /\ Save(h, [rec EXCEPT !.status = "FAILED", !.payment = "REFUND_PENDING",
                               !.failure = "SECURITY_REFUND_REQUIRED",
                               !.recoveryStarted = TRUE],
                At(h, "refund"))
     \/ ~(proc[h].fresh /\ SecurityRefundable(rec)) /\ Move(h, Returned(h))
  /\ UNCHANGED outside

\* claimOperation(id, 'recovery')
ClaimRecovery(h) ==
  /\ proc[h].at = "claimRecovery"
  /\ \/ /\ ~rec.recoveryStarted /\ rec.payment = "CAPTURED"
        /\ Save(h, [rec EXCEPT !.recoveryStarted = TRUE], At(h, "readPayment"))
     \/ /\ rec.recoveryStarted \/ rec.payment # "CAPTURED"
        /\ Move(h, Returned(h))
  /\ UNCHANGED outside

\* Stripe is read before a refund is chosen; a failed read keeps the claim.
ReadPayment(h) ==
  /\ proc[h].at = "readPayment"
  /\ \/ rec.payment = "CAPTURED" /\ Move(h, At(h, "markRefund")) /\ UNCHANGED outside
     \/ rec.payment # "CAPTURED" /\ Move(h, Returned(h)) /\ UNCHANGED outside
     \/ CallFails(h, Returned(h))

MarkRefund(h) ==
  /\ proc[h].at = "markRefund"
  /\ \/ /\ rec.payment = "CAPTURED"
        /\ Save(h, [rec EXCEPT !.payment = "REFUND_PENDING"],
                IF AllowExternalActions(h) THEN At(h, "refund") ELSE Returned(h))
     \/ rec.payment # "CAPTURED" /\ Move(h, At(h, "readPayment"))
  /\ UNCHANGED outside

\* The refund request carries one idempotency key per recharge, so Stripe
\* makes at most one refund.  A replay in reconciliation ignores the answer.
Refund(h) ==
  /\ proc[h].at \in {"refund", "refundAgain"}
  /\ \/ \E s \in IF stripe.refund = "none" THEN {"pending", "succeeded"}
                                           ELSE {stripe.refund} :
          /\ stripe' = [stripe EXCEPT !.refund = s]
          /\ \/ /\ proc[h].at = "refund" /\ s = "succeeded"
                /\ Move(h, At(h, "confirmRefund"))
                /\ UNCHANGED faults
             \/ /\ proc[h].at = "refundAgain" \/ s # "succeeded"
                /\ Move(h, Returned(h))
                /\ UNCHANGED faults
             \/ Fault /\ Move(h, Returned(h))
          /\ UNCHANGED <<assessment, ledger, processed, emitted, airtime, submissions>>
     \/ CallFails(h, Returned(h))

ConfirmRefund(h) ==
  /\ proc[h].at = "confirmRefund"
  /\ \/ /\ rec.payment = "REFUND_PENDING"
        /\ Save(h, [rec EXCEPT !.payment = "REFUNDED"], Returned(h))
     \/ rec.payment # "REFUND_PENDING" /\ Move(h, Returned(h))
  /\ UNCHANGED outside

---------------------------------------------------------------------------
(* refreshTransaction: the reconciliation worker's pass over a candidate   *)
(* row, or a customer's status request for any row.                        *)

RefreshStep(r, external) ==
  IF external /\ Held(r) THEN IF SecurityRefundable(r) THEN "evidence" ELSE "defer"
  ELSE IF r.session /\ r.payment \in Unpaid THEN "readCheckout"
  ELSE IF r.payment = "REFUND_PENDING" THEN "queryRefund"
  ELSE IF r.status \in {"FAILED", "REFUNDED"} THEN "defer"
  ELSE IF r.providerRef THEN "readTopUp"
  ELSE IF r.failure = "TOPUP_SUBMISSION_UNKNOWN" /\ r.payment = "CAPTURED" THEN "findTopUp"
  ELSE "defer"

\* listReconciliationCandidates
CandidateUnlessProcessing(r) ==
  \/ r.status = "PENDING" /\ r.payment \in AwaitingPayment
  \/ FlupFlap /\ PaidAndWaiting(r) /\ Held(r)
  \/ r.payment = "REFUND_PENDING"
CandidateUnlessHeld(r) ==
  \/ r.status = "PROCESSING" /\ r.payment = "CAPTURED"
  \/ r.status = "PENDING" /\ r.payment \in AwaitingPayment
  \/ r.payment = "REFUND_PENDING"
CandidateUnlessRefundPending(r) ==
  \/ r.status = "PROCESSING" /\ r.payment = "CAPTURED"
  \/ r.status = "PENDING" /\ r.payment \in AwaitingPayment
  \/ FlupFlap /\ PaidAndWaiting(r) /\ Held(r)
Candidate(r) ==
  \/ r.status = "PROCESSING" /\ r.payment = "CAPTURED"
  \/ r.status = "PENDING" /\ r.payment \in AwaitingPayment
  \/ FlupFlap /\ PaidAndWaiting(r) /\ Held(r)
  \/ r.payment = "REFUND_PENDING"

Reconcile(w) ==
  /\ proc[w] = Idle
  /\ Candidate(rec)
  /\ Move(w, Started("worker", RefreshStep(rec, TRUE)))
  /\ UNCHANGED outside

\* getTransaction, getPaymentAttempt and resumeCheckout
Poll(h) ==
  /\ proc[h] = Idle
  /\ RefreshStep(rec, ~FlupFlap) # "defer"
  /\ Move(h, Started("poll", RefreshStep(rec, ~FlupFlap)))
  /\ UNCHANGED outside

\* reconcileHostedStripePending
ReadCheckout(h) ==
  /\ proc[h].at = "readCheckout"
  /\ \/ /\ stripe.intent = "succeeded"
        /\ Move(h, IF AllowExternalActions(h) THEN Reading(h, "settleCheckout", "captured")
                                              ELSE Returned(h))
        /\ UNCHANGED outside
     \/ /\ stripe.intent = "declined"
        /\ Move(h, Reading(h, "settleCheckout", "declined"))
        /\ UNCHANGED outside
     \/ /\ stripe.intent \notin {"succeeded", "declined"} /\ stripe.session = "expired"
        /\ Move(h, Reading(h, "settleCheckout", "expired"))
        /\ UNCHANGED outside
     \/ /\ stripe.intent \notin {"succeeded", "declined"} /\ stripe.session # "expired"
        /\ Move(h, Returned(h))
        /\ UNCHANGED outside
     \/ CallFails(h, Returned(h))

SettleCheckout(h) ==
  /\ proc[h].at = "settleCheckout"
  /\ \/ /\ proc[h].found = "captured" /\ rec.payment \in Unpaid
        /\ Save(h, Captured(rec), Reading(h, "fulfill", "none"))
     \/ /\ proc[h].found = "captured" /\ rec.payment \notin Unpaid
        /\ Move(h, Returned(h))
     \/ /\ proc[h].found # "captured" /\ rec.payment \in AwaitingPayment
        /\ Save(h, Failed(rec, "PAYMENT_FAILED"), Returned(h))
     \/ /\ proc[h].found # "captured" /\ rec.payment \notin AwaitingPayment
        /\ Move(h, Returned(h))
  /\ UNCHANGED outside

\* getRecoveryStatus
RefundConfirmedOnceMade == stripe.refund # "none"
RefundConfirmed == stripe.refund = "succeeded"

\* reconcilePaymentRecovery
QueryRefund(h) ==
  /\ proc[h].at = "queryRefund"
  /\ \/ /\ rec.payment = "REFUND_PENDING" /\ RefundConfirmed
        /\ Move(h, At(h, "confirmRefund"))
        /\ UNCHANGED outside
     \/ /\ rec.payment = "REFUND_PENDING" /\ ~RefundConfirmed
        /\ Move(h, IF AllowExternalActions(h) THEN At(h, "refundAgain") ELSE Returned(h))
        /\ UNCHANGED outside
     \/ /\ rec.payment # "REFUND_PENDING"
        /\ Move(h, Returned(h))
        /\ UNCHANGED outside
     \/ CallFails(h, Returned(h))

ReadTopUp(h) ==
  /\ proc[h].at = "readTopUp"
  /\ \/ Move(h, Reading(h, "apply", airtime)) /\ UNCHANGED outside
     \/ CallFails(h, Idle)

\* Nothing found yet: updatedAt is renewed, for a cooldown before the next lookup.
FindTopUp(h) ==
  /\ proc[h].at = "findTopUp"
  /\ \/ airtime # "none" /\ Move(h, Reading(h, "apply", airtime)) /\ UNCHANGED outside
     \/ airtime = "none" /\ Save(h, rec, Returned(h)) /\ UNCHANGED outside
     \/ CallFails(h, Idle)

\* deferSecurityRefundCheck renews updatedAt of a hold nothing resolved.
Defer(h) ==
  /\ proc[h].at = "defer"
  /\ \/ proc[h].fresh /\ Held(rec) /\ PaidAndWaiting(rec) /\ Save(h, rec, Idle)
     \/ ~(proc[h].fresh /\ Held(rec) /\ PaidAndWaiting(rec)) /\ Move(h, Idle)
  /\ UNCHANGED outside

---------------------------------------------------------------------------
(* reviewHeldRecharge: staff releases a held recharge.                     *)

ApproveFraudReview(h) ==
  /\ Live /\ FlupFlap
  /\ proc[h] = Idle
  /\ Held(rec) /\ PaidAndWaiting(rec) /\ ~rec.fulfillmentStarted /\ ~rec.providerRef
  /\ assessment' = "reviewed"
  /\ Move(h, Started("review", "release"))
  /\ UNCHANGED <<ledger, processed, stripe, emitted, airtime, submissions, faults>>

Release(h) ==
  /\ proc[h].at = "release"
  /\ Save(h, [rec EXCEPT !.failure = "FRAUD_REVIEW_APPROVED"], At(h, "fulfill"))
  /\ UNCHANGED outside

---------------------------------------------------------------------------
(* cancelTransaction and cancelPendingPaymentByAdmin.                      *)

Cancel(h) ==
  /\ proc[h] = Idle
  /\ rec.status = "PENDING" /\ ~rec.providerRef /\ ~rec.fulfillmentStarted
  /\ \/ /\ rec.payment = "PENDING" /\ ~rec.paymentStarted /\ ~rec.session
        /\ Move(h, [Started("cancel", "claimCancel") EXCEPT !.found = "PENDING"])
     \/ /\ rec.payment = "SESSION_CREATED"
        /\ Move(h, [Started("cancel", "expire") EXCEPT !.found = "SESSION_CREATED"])
  /\ UNCHANGED outside

\* Session creation and cancellation compete for the payment claim.
ClaimCancel(h) ==
  /\ proc[h].at = "claimCancel"
  /\ \/ /\ ~rec.paymentStarted /\ rec.payment = "PENDING"
        /\ Save(h, [rec EXCEPT !.paymentStarted = TRUE], At(h, "cancelPayment"))
     \/ /\ rec.paymentStarted \/ rec.payment # "PENDING"
        /\ Move(h, Idle)
  /\ UNCHANGED outside

\* Stripe expires an open session; it refuses a completed one, and an already
\* expired one unless it replays its first answer.
ExpireCheckout(h) ==
  /\ proc[h].at = "expire"
  /\ stripe' = ExpireSession
  /\ emitted' = ExpiredEvents
  /\ \/ stripe.session # "complete" /\ Move(h, At(h, "cancelPayment")) /\ UNCHANGED faults
     \/ stripe.session # "open" /\ Move(h, Idle) /\ UNCHANGED faults
     \/ Fault /\ Move(h, Idle)
  /\ UNCHANGED <<assessment, ledger, processed, airtime, submissions>>

CancelPayment(h) ==
  /\ proc[h].at = "cancelPayment"
  /\ \/ rec.payment = proc[h].found /\ Save(h, Failed(rec, "CANCELLED"), Idle)
     \/ rec.payment # proc[h].found /\ Move(h, Idle)
  /\ UNCHANGED outside

AdminCancellable ==
  /\ rec.status = "PENDING" /\ rec.payment = "SESSION_CREATED" /\ rec.session
  /\ ~rec.providerRef /\ ~rec.fulfillmentStarted

AdminCancel(h) ==
  /\ FlupFlap
  /\ proc[h] = Idle
  /\ AdminCancellable
  /\ Move(h, Started("adminCancel", "expireUnpaid"))
  /\ UNCHANGED outside

\* expireUnpaidCheckout: only a session nobody has tried to pay is expired.
ExpireUnpaid(h) ==
  /\ proc[h].at = "expireUnpaid"
  /\ \/ /\ stripe.session # "complete" /\ stripe.intent = "none"
        /\ stripe' = ExpireSession
        /\ emitted' = ExpiredEvents
        /\ \/ Move(h, [proc[h] EXCEPT !.at = "cancelByAdmin"]) /\ UNCHANGED faults
           \/ Fault /\ Move(h, Idle)
     \/ /\ stripe.session = "complete" \/ stripe.intent # "none"
        /\ Move(h, Idle)
        /\ UNCHANGED <<stripe, emitted, faults>>
  /\ UNCHANGED <<assessment, ledger, processed, airtime, submissions>>

\* cancelPendingByAdmin compares updatedAt with the copy read before.
CancelPendingByAdmin(h) ==
  /\ proc[h].at = "cancelByAdmin"
  /\ \/ proc[h].fresh /\ AdminCancellable /\ Save(h, Failed(rec, "CANCELLED"), Idle)
     \/ ~(proc[h].fresh /\ AdminCancellable) /\ Move(h, Idle)
  /\ UNCHANGED outside

---------------------------------------------------------------------------
(* The customer at Stripe's checkout page, Stripe and the provider.        *)

StripeMoves ==
  UNCHANGED <<rec, assessment, ledger, processed, airtime, submissions, proc, faults>>

\* The page is reached through the row's session.
CustomerPays ==
  /\ rec.session /\ stripe.session = "open"
  /\ \/ /\ stripe' = [stripe EXCEPT !.session = "complete", !.intent = "succeeded"]
        /\ emitted' = emitted \union {"completed"}
     \/ /\ stripe' = [stripe EXCEPT !.session = "complete", !.intent = "processing"]
        /\ emitted' = emitted \union {"completedUnpaid"}
  /\ StripeMoves

\* One declined attempt per session is enough: the page stays open for another.
CustomerIsDeclined ==
  /\ rec.session /\ stripe.session = "open" /\ stripe.intent = "none"
  /\ stripe' = [stripe EXCEPT !.intent = "declined"]
  /\ emitted' = emitted \union {"paymentFailed"}
  /\ StripeMoves

DelayedPaymentSettles ==
  /\ stripe.intent = "processing"
  /\ \/ /\ stripe' = [stripe EXCEPT !.intent = "succeeded"]
        /\ emitted' = emitted \union {"asyncSucceeded"}
     \/ /\ stripe' = [stripe EXCEPT !.intent = "declined"]
        /\ emitted' = emitted \union {"asyncFailed", "paymentFailed"}
  /\ StripeMoves

SessionExpires ==
  /\ stripe.session = "open"
  /\ stripe' = ExpireSession
  /\ emitted' = ExpiredEvents
  /\ StripeMoves

RefundSettles ==
  /\ stripe.refund = "pending"
  /\ stripe' = [stripe EXCEPT !.refund = "succeeded"]
  /\ UNCHANGED emitted
  /\ StripeMoves

AirtimeMoves(from) ==
  /\ airtime \in from
  /\ airtime' \in AirtimeNext[airtime]
  /\ UNCHANGED <<rec, assessment, ledger, processed, stripe, emitted,
                 submissions, proc, faults>>
AirtimeSettles == AirtimeMoves({"CREATED", "PROCESSING"})
AirtimeIsReversed == AirtimeMoves({"SUCCESSFUL"})

\* A process stops in the middle of a handler, or is restarted.
Crash(h) ==
  /\ proc[h] # Idle
  /\ CallFails(h, Idle)

---------------------------------------------------------------------------
Init ==
  /\ rec = Reserved
  /\ assessment = "none" /\ ledger = {} /\ processed = {}
  /\ stripe = [session |-> "none", intent |-> "none", refund |-> "none"]
  /\ emitted = {} /\ airtime = "none" /\ submissions = 0
  /\ proc = [h \in Handlers |-> Idle]
  /\ faults = 0

Request(h) ==
  \/ ClaimPayment(h)
  \/ "poll" \in Kinds /\ Poll(h)
  \/ "review" \in Kinds /\ ApproveFraudReview(h)
  \/ "cancel" \in Kinds /\ Cancel(h)
  \/ "adminCancel" \in Kinds /\ AdminCancel(h)

Deliver(h) == AcceptAndBlockRetries(h) \/ \E e \in Events : AcceptEvent(h, e)

\* What a handler does next once it has started.
Step(h) ==
  \/ CreateSession(h) \/ SessionRefused(h) \/ StoreSession(h)
  \/ BlockRetries(h) \/ TransitionPayment(h) \/ CompleteEvent(h)
  \/ Fulfill(h) \/ Gate(h) \/ Hold(h) \/ ClaimFulfillment(h) \/ SubmitTopUp(h)
  \/ RecordRejected(h) \/ RecordUnknown(h) \/ Apply(h) \/ PostLedger(h)
  \/ ReadEvidence(h) \/ ClaimSecurityRefund(h) \/ ClaimRecovery(h)
  \/ ReadPayment(h) \/ MarkRefund(h) \/ Refund(h) \/ ConfirmRefund(h)
  \/ ReadCheckout(h) \/ SettleCheckout(h) \/ QueryRefund(h)
  \/ ReadTopUp(h) \/ FindTopUp(h) \/ Defer(h) \/ Release(h)
  \/ ClaimCancel(h) \/ ExpireCheckout(h) \/ CancelPayment(h)
  \/ ExpireUnpaid(h) \/ CancelPendingByAdmin(h)

Outside ==
  \/ CustomerPays \/ CustomerIsDeclined \/ DelayedPaymentSettles \/ SessionExpires
  \/ RefundSettles \/ AirtimeSettles \/ AirtimeIsReversed

Next ==
  \/ \E h \in Requests : Request(h) \/ Deliver(h)
  \/ \E w \in Workers : Reconcile(w)
  \/ \E h \in Handlers : Step(h) \/ Crash(h)
  \/ Outside

Spec == Init /\ [][Next]_vars

\* Stripe redelivers an event until it is acknowledged; a started handler goes
\* on; every timer fires again; refunds and top-ups come to an end at Stripe and
\* at the provider.  Nothing makes a customer or staff act.
Fairness ==
  /\ \A h \in Handlers : WF_vars(Step(h))
  /\ \A w \in Workers : WF_vars(Reconcile(w))
  /\ SF_vars(\E h \in Requests : Deliver(h))
  /\ WF_vars(RefundSettles) /\ WF_vars(AirtimeSettles)

FairSpec == Spec /\ Fairness

---------------------------------------------------------------------------
TypeOK ==
  /\ rec \in Row
  /\ assessment \in {"none", "held", "reviewed"}
  /\ ledger \subseteq {"delivered", "refunded"}
  /\ processed \subseteq Events /\ emitted \subseteq Events
  /\ stripe \in StripeState
  /\ airtime \in AirtimeState
  /\ submissions \in Nat /\ faults \in Nat
  /\ proc \in [Handlers -> Local]

\* However many webhooks, workers, requests and reviews run fulfillPaidRecharge
\* at once, the provider is asked for airtime at most once.
AtMostOneSubmission == submissions <= 1

\* Money goes back at Stripe only if no airtime was sent, or what was sent came
\* to nothing for good: nobody keeps both the airtime and the money.
RefundExcludesAirtime ==
  stripe.refund # "none" =>
    /\ airtime \in {"none", "FAILED", "REFUNDED"}
    /\ \A h \in Handlers : proc[h].at # "submit"

\* The row says REFUNDED only after Stripe said the refund succeeded; the
\* provider's word on the airtime is not enough.
RefundedOnlyWhenConfirmed ==
  rec.payment = "REFUNDED" => stripe.refund = "succeeded"

Received == {"CAPTURED", "REFUND_PENDING", "REFUNDED"}

\* The row shows the payment as received only if the intent succeeded: a
\* completed session with a delayed method is not yet a payment.
ReceivedOnlyWhenPaid == rec.payment \in Received => stripe.intent = "succeeded"

\* A payment the row does not show still has a paid event to be delivered, even
\* after a decline, an expiry or a cancellation in between.
PaidIsNeverForgotten ==
  stripe.intent = "succeeded" /\ rec.payment \notin Received =>
    PaidEvents \intersect (emitted \ processed) # {}

\* A recharge the customer or staff was told is cancelled is never charged.
CancelledIsNeverCharged ==
  rec.failure = "CANCELLED" => stripe.intent \notin {"processing", "succeeded"}

\* A status request of a FlupFlap customer never sends airtime or moves money.
PollMovesNothing ==
  FlupFlap => \A h \in Handlers :
    proc[h].role = "poll" => proc[h].at \notin {"submit", "claimRefund", "refund", "refundAgain"}

\* A delivery is in the ledger only for airtime that was once delivered, and a
\* refund only for a delivery in it that the provider took back.
LedgerFollowsAirtime ==
  /\ "delivered" \in ledger => airtime \in {"SUCCESSFUL", "REFUNDED"}
  /\ "refunded" \in ledger => airtime = "REFUNDED" /\ "delivered" \in ledger

---------------------------------------------------------------------------
(* Why the properties above hold: an invariant every step preserves.       *)

\* What was sent came to nothing, for good if nobody is about to send it.
NoAirtime == airtime \in {"none", "FAILED", "REFUNDED"}
NobodySubmits == \A h \in Handlers : proc[h].at # "submit"

\* The fulfillment claim of the row admits one handler to the submission.
OneClaimant ==
  /\ submissions \in {0, 1}
  /\ ~rec.fulfillmentStarted => submissions = 0 /\ airtime = "none"
  /\ \A h \in Handlers : proc[h].at = "submit" =>
       /\ rec.fulfillmentStarted /\ submissions = 0 /\ airtime = "none"
       /\ \A g \in Handlers : proc[g].at = "submit" => g = h

\* A provider result at hand comes from the provider; a final one is still its word.
ResultIsGenuine ==
  /\ rec.providerRef => airtime # "none"
  /\ \A h \in Handlers : proc[h].at \in {"readTopUp", "apply", "postLedger"} =>
       airtime # "none"
  /\ \A h \in Handlers : proc[h].at \in {"apply", "postLedger"} =>
       /\ proc[h].found \in Accepted
       /\ proc[h].found \in {"FAILED", "REFUNDED"} => airtime = proc[h].found

\* A payment is recovered only once no airtime came and none can come.
RecoveryIsSafe ==
  /\ \A h \in Handlers : proc[h].at \in {"recordRejected", "claimRecovery"} =>
       rec.fulfillmentStarted /\ NoAirtime /\ NobodySubmits
  /\ rec.recoveryStarted => NoAirtime /\ NobodySubmits
  /\ \A h \in Handlers :
       proc[h].at \in {"readPayment", "markRefund", "refund", "refundAgain"} =>
         rec.recoveryStarted
  /\ rec.payment \in {"REFUND_PENDING", "REFUNDED"} => rec.recoveryStarted
  /\ stripe.refund # "none" => rec.recoveryStarted

\* A refund is confirmed with Stripe's own answer.
ConfirmationIsGenuine ==
  /\ \A h \in Handlers : proc[h].at = "confirmRefund" => stripe.refund = "succeeded"
  /\ rec.payment = "REFUNDED" => stripe.refund = "succeeded"

\* A webhook acknowledges the event it was called with.
EventIsAtHand ==
  \A h \in Handlers :
    proc[h].role = "webhook" \/ proc[h].at \in {"blockRetries", "transition", "complete"} =>
      proc[h].event \in Events

\* The five together are inductive; the claims of repository.ts rest on them.
SettlementInv ==
  OneClaimant /\ ResultIsGenuine /\ RecoveryIsSafe /\ ConfirmationIsGenuine /\ EventIsAtHand

\* Before the row has a session, the payment claim admits one handler: to make
\* the session, or to cancel.
Claimant(l) ==
  \/ l.at \in {"createSession", "storeSession"}
  \/ l.at = "cancelPayment" /\ l.found = "PENDING"

OneCheckout ==
  /\ rec.session => rec.paymentStarted /\ stripe.session # "none"
  /\ ~rec.session => rec.payment \in {"PENDING", "FAILED"} /\ stripe.intent = "none"
  /\ \A h \in Handlers : Claimant(proc[h]) =>
       /\ rec.paymentStarted /\ ~rec.session /\ rec.payment = "PENDING"
       /\ proc[h].at = "storeSession" => stripe.session # "none"
       /\ \A g \in Handlers : Claimant(proc[g]) => g = h

\* The row, the intent and the events say the same of the payment.
PaymentIsGenuine ==
  /\ stripe.intent \in {"processing", "succeeded"} => stripe.session = "complete"
  /\ stripe.intent = "succeeded" <=> PaidEvents \intersect emitted # {}
  /\ rec.payment \in Received => stripe.intent = "succeeded"
  /\ PaidEvents \intersect processed # {} => rec.payment \in Received

\* A cancelled row has no session, or one nobody can pay.
CancelledIsClosed ==
  rec.failure = "CANCELLED" =>
    rec.payment = "FAILED" /\ rec.paymentStarted /\ (rec.session => stripe.session = "expired")

\* Where the status request of a FlupFlap customer gets to.
PollLabel == {"readCheckout", "settleCheckout", "queryRefund", "confirmRefund", "readTopUp",
              "findTopUp", "apply", "postLedger", "claimRecovery", "readPayment", "markRefund"}

\* What a handler in local state l relies on still holds, however much it has read.
Backed(l) ==
  /\ l.at \in {"blockRetries", "transition", "readCheckout", "settleCheckout", "expire",
              "expireUnpaid", "cancelByAdmin"} => rec.session
  /\ l.at = "claimCancel" => l.found = "PENDING"
  /\ l.at = "expire" => l.found = "SESSION_CREATED"
  /\ l.at = "cancelPayment" => l.found \in {"PENDING", "SESSION_CREATED"}
  /\ (l.at = "cancelPayment" /\ l.found = "SESSION_CREATED") \/ l.at = "cancelByAdmin" =>
       rec.session /\ stripe.session = "expired"
  /\ l.at = "settleCheckout" /\ l.found = "captured" => stripe.intent = "succeeded"
  /\ l.event \in PaidEvents =>
       l.event \in emitted /\ (l.at = "transition" \/ rec.payment \in Received)
  /\ l.at \in {"apply", "postLedger"} /\ l.found = "SUCCESSFUL" =>
       airtime \in {"SUCCESSFUL", "REFUNDED"}
  /\ FlupFlap /\ l.role = "poll" =>
       l.at \in PollLabel /\ ~(l.at = "settleCheckout" /\ l.found = "captured")

\* These are inductive, given SettlementInv.
PaymentInv ==
  /\ OneCheckout /\ PaymentIsGenuine /\ CancelledIsClosed /\ LedgerFollowsAirtime
  /\ \A h \in Handlers : Backed(proc[h])

(* The row says CAPTURED only of what was paid at Stripe, and what was paid *)
(* there is never lost to it (acceptVerifiedPaymentEvent, reconciliation);  *)
(* with it, the type and the inductive invariant of the proofs.             *)
RowAndStripeAgree ==
  /\ TypeOK /\ SettlementInv /\ PaymentInv
  /\ PaidIsNeverForgotten /\ ReceivedOnlyWhenPaid

---------------------------------------------------------------------------
PaymentRank == [p \in PaymentStatus |->
  CASE p = "CAPTURED" -> 1 [] p = "REFUND_PENDING" -> 2 [] p = "REFUNDED" -> 3 [] OTHER -> 0]

\* Late failures, cancellations and stale reads never take back a payment or a
\* refund that the row already shows.
PaymentOnlyMovesForward == [][PaymentRank[rec'.payment] >= PaymentRank[rec.payment]]_vars

---------------------------------------------------------------------------
\* A payment that succeeded at Stripe reaches the row.
PaidIsCaptured == stripe.intent = "succeeded" ~> rec.payment \in Received

\* A refund that is owed ends as a confirmed refund.
RefundIsConfirmed == rec.payment = "REFUND_PENDING" ~> rec.payment = "REFUNDED"

\* A submission with an unknown outcome is found again at the provider.
UnknownSubmissionIsFound ==
  (rec.failure = "TOPUP_SUBMISSION_UNKNOWN" /\ airtime # "none") ~> rec.providerRef

\* With automatic security refunds no held recharge waits for ever: it is
\* refunded, or the gate or staff let it go on (fulfillPaidRecharge,
\* refundConfirmedSecurityFailure).
HeldIsResolved ==
  (PaidAndWaiting(rec) /\ Held(rec) /\ ~rec.fulfillmentStarted) ~>
    (rec.payment \in {"REFUND_PENDING", "REFUNDED"} \/ rec.fulfillmentStarted)

---------------------------------------------------------------------------
(* What the documentation and the comments say and the code does not do.   *)

\* AIRTIME_SETTLEMENT_SAFETY.md, invariant 3: a recharge whose submission is
\* unknown remains PROCESSING with that failure code until the provider's own
\* record of it is found.
UnknownStaysUnknown ==
  [][rec.failure = "TOPUP_SUBMISSION_UNKNOWN" /\ ~rec'.providerRef =>
       rec'.failure = "TOPUP_SUBMISSION_UNKNOWN"]_vars

=============================================================================
