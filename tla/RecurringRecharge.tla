------------------------- MODULE RecurringRecharge -------------------------
(***************************************************************************)
(* Automatic recharge of one customer's number with a saved card           *)
(* (apps/api/src/flupflap/recurring-recharge.ts): the schedule row, the    *)
(* quote and the MobileTopUpTransaction made for each occurrence, the      *)
(* off-session payments at Stripe, the workers that run due schedules in   *)
(* each API process, the customer's requests, and account deletion.        *)
(*                                                                         *)
(* A worker takes one step between two awaits.  Every write of the         *)
(* schedule after the claim is by id, whatever the row has become, exactly *)
(* as in the code.  What happens to a recharge once it is paid is only     *)
(* outlined here: TopUpSettlement models it.                               *)
(*                                                                         *)
(* Time is counted in ticks of several days; a quote (minutes), a claim    *)
(* (ten minutes) and Stripe's idempotency keys (a day) do not outlive one. *)
(***************************************************************************)
EXTENDS Naturals, Sequences, FiniteSets

CONSTANTS
  Workers,         \* recurring timers, one per API process
  Requests,        \* concurrent customer requests
  Interval,        \* intervalDays, in ticks
  Unrepeatable,    \* the product has a fixed price, or is data or a bundle
  TermsMayChange,  \* price increases and withdrawn products happen
  Refusals,        \* refusals that last, and that no code on the list names
  StripeForgets,   \* a tick outlives Stripe's memory of idempotency keys
  Deletable,       \* the customer may ask for the account's deletion
  Answers,         \* what Stripe answers to an off-session payment
  Changes,         \* kinds of customer requests
  MaxChanges,      \* bound: customer requests
  Horizon,         \* bound: time
  MaxQuotes,       \* bound: quotes
  MaxFaults        \* bound: crashes, failed calls and slow runs

ASSUME ScheduleAssumption ==
  /\ Workers \intersect Requests = {}
  /\ Interval \in Nat \ {0}
  /\ {Unrepeatable, TermsMayChange, StripeForgets, Deletable} \subseteq BOOLEAN
  /\ Refusals \subseteq {"quote", "limits", "restricted"}
  /\ Answers \subseteq {"processing", "succeeded", "failed"}
  /\ Changes \subseteq {"PAUSE", "RESUME", "CANCEL", "ENABLE", "CANCEL_ROW"}
  /\ {MaxChanges, Horizon, MaxQuotes, MaxFaults} \subseteq Nat

VARIABLES
  now,             \* the clock
  customer,        \* FlupFlapCustomer.status
  refusal,         \* what refuses the customer's recharges for now
  schedule,        \* the FlupFlapRecurringRecharge row
  quotes,          \* MobileTopUpQuote rows
  tx,              \* MobileTopUpTransaction rows, by occurrence
  stripe,          \* payment intents made for each of them
  run,             \* what each worker is doing
  request,         \* what each customer request is doing
  changes,         \* customer requests so far
  faults           \* faults so far

vars == <<now, customer, refusal, schedule, quotes, tx, stripe, run, request,
          changes, faults>>

---------------------------------------------------------------------------
(* State.  0 stands for null in a column that holds a time or a reference. *)

\* Each run that began while the schedule was due may move it on once more.
Times == 0..(Horizon + (1 + Cardinality(Workers)) * Interval)
Occurrence == Times \ {0}
QuoteIds == 1..MaxQuotes

Schedule == [status : {"ACTIVE", "PAUSED", "CANCELLED", "DELETED"},
             next : Times, occurrence : Times, quote : 0..MaxQuotes,
             claim : {"none", "fresh", "stale"}]

Row == [quote : 0..MaxQuotes,
        status : {"NONE", "PENDING", "PROCESSING", "DELIVERED", "FAILED"},
        payment : {"PENDING", "CAPTURED", "FAILED", "REFUND_PENDING",
                   "REFUNDED"},
        intent : Nat, paymentStarted : BOOLEAN, cancelled : BOOLEAN]

NoRow == [quote |-> 0, status |-> "NONE", payment |-> "PENDING", intent |-> 0,
          paymentStarted |-> FALSE, cancelled |-> FALSE]

Reserved(q) == [NoRow EXCEPT !.quote = q, !.status = "PENDING"]

\* Stripe keeps the first answer under the key "<transaction>:recurring-payment"
\* and replays it, whatever became of the payment intent since.
IntentState == {"processing", "succeeded", "failed"}

Unasked == [answer |-> "none", intents |-> <<>>, heard |-> {}]

RunState == {"idle", "read", "quote", "keep", "reserve", "charge", "note",
             "fulfil", "record"}
Outcome == {"none", "complete", "failed", "pending", "raise", "stop", "retry"}
Idle == [at |-> "idle", occurrence |-> 0, quote |-> 0, outcome |-> "none"]
NoRequest == [at |-> "idle", occurrence |-> 0]

Init ==
  /\ now = 0
  /\ customer = "ACTIVE"
  /\ refusal = "none"
  /\ schedule = [status |-> "ACTIVE", next |-> Interval, occurrence |-> 0,
                 quote |-> 0, claim |-> "none"]
  /\ quotes = [q \in QuoteIds |-> "none"]
  /\ tx = [o \in Occurrence |-> NoRow]
  /\ stripe = [o \in Occurrence |-> Unasked]
  /\ run = [w \in Workers |-> Idle]
  /\ request = [r \in Requests |-> NoRequest]
  /\ changes = 0
  /\ faults = 0

\* Mutant: counted from the run rather than from the occurrence.
NextFromNow(occurrence) == now + Interval

\* The first time after the occurrence, in steps of the interval, that is not
\* past.
NextOccurrence(occurrence) ==
  LET behind == IF now < occurrence + Interval THEN 0
                ELSE 1 + (now - occurrence - Interval) \div Interval
  IN occurrence + Interval + behind * Interval

Paid(o) == \E k \in DOMAIN stripe[o].intents :
             stripe[o].intents[k] = "succeeded"

Fault == faults < MaxFaults /\ faults' = faults + 1

---------------------------------------------------------------------------
(* The worker: one iteration of runDue for the schedule.                   *)

Goto(w, at) == run' = [run EXCEPT ![w].at = at]
Finish(w, outcome) ==
  run' = [run EXCEPT ![w].at = "record", ![w].outcome = outcome]

\* Mutant: a schedule whose time has just come is left out.
DueEarlier ==
  /\ schedule.status = "ACTIVE" /\ customer = "ACTIVE"
  /\ schedule.next < now
  /\ schedule.claim # "fresh"

Due ==
  /\ schedule.status = "ACTIVE" /\ customer = "ACTIVE"
  /\ schedule.next <= now
  /\ schedule.claim # "fresh"

\* The claim is dated with the start of the batch, so it may go stale while
\* its holder is still running (ClaimExpires).
Claim(w) ==
  /\ run[w].at = "idle"
  /\ Due
  /\ schedule' = [schedule EXCEPT !.claim = "fresh"]
  /\ Goto(w, "read")
  /\ UNCHANGED <<now, customer, refusal, quotes, tx, stripe, request, changes,
                 faults>>

\* A schedule erased since the claim makes the read throw out of runDue.
ReadSchedule(w) ==
  /\ run[w].at = "read"
  /\ run' = [run EXCEPT ![w] =
       IF schedule.status = "DELETED" THEN Idle
       ELSE [Idle EXCEPT
              !.at = IF schedule.quote = 0 THEN "quote" ELSE "reserve",
              !.occurrence = IF schedule.occurrence # 0
                             THEN schedule.occurrence ELSE schedule.next,
              !.quote = schedule.quote]]
  /\ UNCHANGED <<now, customer, refusal, schedule, quotes, tx, stripe, request,
                 changes, faults>>

\* repeat() passes the amount of the source, which createQuote refuses for a
\* product of fixed price, and no version of the catalogue, without which it
\* refuses data and bundles.  A quote above the maximum is never referred to and
\* is left out.
Quotable == ~Unrepeatable /\ customer = "ACTIVE" /\ refusal # "quote"

QuoteOffered(w) ==
  /\ Quotable
  /\ \E q \in QuoteIds :
       /\ \A p \in QuoteIds : quotes[p] = "none" <=> p >= q
       /\ quotes' = [quotes EXCEPT ![q] = "valid"]
       /\ run' = [run EXCEPT ![w].at = "keep", ![w].quote = q]
  /\ UNCHANGED faults

QuoteAboveMaximum(w) ==
  /\ Quotable /\ TermsMayChange
  /\ Finish(w, "raise")
  /\ UNCHANGED <<quotes, faults>>

ProductWithdrawn(w) ==
  /\ TermsMayChange
  /\ Finish(w, "stop")
  /\ UNCHANGED <<quotes, faults>>

\* "quote": the operator is switched off or belongs to another country, the
\* receipt that is repeated is hidden, or its amount is out of the range now.
QuoteRefused(w) ==
  /\ ~Quotable
  /\ Finish(w, "retry")
  /\ UNCHANGED <<quotes, faults>>

QuoteFails(w) ==
  /\ Fault
  /\ Finish(w, "retry")
  /\ UNCHANGED quotes

Quote(w) ==
  /\ run[w].at = "quote"
  /\ \/ QuoteOffered(w)
     \/ QuoteAboveMaximum(w)
     \/ ProductWithdrawn(w)
     \/ QuoteRefused(w)
     \/ QuoteFails(w)
  /\ UNCHANGED <<now, customer, refusal, schedule, tx, stripe, request,
                 changes>>

\* On an erased schedule the update throws, and so does the one in the catch.
KeepQuote(w) ==
  /\ run[w].at = "keep"
  /\ IF schedule.status = "DELETED"
     THEN /\ run' = [run EXCEPT ![w] = Idle]
          /\ UNCHANGED schedule
     ELSE /\ schedule' = [schedule EXCEPT !.quote = run[w].quote,
                                          !.occurrence = run[w].occurrence]
          /\ Goto(w, "reserve")
  /\ UNCHANGED <<now, customer, refusal, quotes, tx, stripe, request, changes,
                 faults>>

\* What the worker concludes from the row it is handed.
Concludes(row) ==
  IF row.status = "DELIVERED" /\ row.payment = "CAPTURED" THEN "complete"
  ELSE IF row.status = "FAILED" \/ row.payment \in {"FAILED", "REFUNDED"}
       THEN "failed" ELSE "pending"

\* Mutant: goes on to the payment although the key has no row yet.
ReplayUnchecked(w, row) ==
  Goto(w, "charge") /\ UNCHANGED <<quotes, tx, faults>>

\* The idempotency key is the occurrence; the row remembers its quote.
Replay(w, row) ==
  /\ row # NoRow
  /\ IF row.quote # run[w].quote THEN Finish(w, "retry")
     ELSE IF Concludes(row) = "complete" \/ row.status = "FAILED"
          THEN Finish(w, Concludes(row))
          ELSE Goto(w, "charge")
  /\ UNCHANGED <<quotes, tx, faults>>

Usable(w) == tx[run[w].occurrence] = NoRow /\ quotes[run[w].quote] = "valid"

CreateRow(w) ==
  /\ Usable(w) /\ refusal # "limits"
  /\ tx' = [tx EXCEPT ![run[w].occurrence] = Reserved(run[w].quote)]
  /\ quotes' = [quotes EXCEPT ![run[w].quote] = "consumed"]
  /\ Goto(w, "charge")
  /\ UNCHANGED faults

\* assertPurchaseIdentity comes before the search for the row; limits and the
\* verified phone come after it.
Admitted == customer = "ACTIVE" /\ refusal # "restricted"

\* An expired or used quote, a limit, a phone that is not verified, a restricted
\* customer: none has a terminal code.
ReservationRefused(w) ==
  /\ \/ ~Admitted
     \/ /\ tx[run[w].occurrence] = NoRow
        /\ quotes[run[w].quote] # "valid" \/ refusal = "limits"
  /\ Finish(w, "retry")
  /\ UNCHANGED <<quotes, tx, faults>>

TermsChanged(w) ==
  /\ Usable(w) /\ TermsMayChange
  /\ Finish(w, "stop")
  /\ UNCHANGED <<quotes, tx, faults>>

ReservationFails(w) ==
  /\ Fault
  /\ Finish(w, "retry")
  /\ UNCHANGED <<quotes, tx>>

Reserve(w) ==
  /\ run[w].at = "reserve"
  /\ \/ Admitted /\ Replay(w, tx[run[w].occurrence])
     \/ Admitted /\ CreateRow(w)
     \/ Admitted /\ TermsChanged(w)
     \/ ReservationRefused(w)
     \/ ReservationFails(w)
  /\ UNCHANGED <<now, customer, refusal, schedule, stripe, request, changes>>

\* Mutant: a key of its own for each attempt.
AskedAfresh(s) == {[s EXCEPT !.answer = a, !.intents = Append(@, a)] :
                     a \in Answers}

\* createOffSessionPaymentIntent at Stripe: the answer kept under the key, or a
\* new payment intent.
Asked(s) == IF s.answer # "none" THEN {s}
            ELSE {[s EXCEPT !.answer = a, !.intents = Append(@, a)] :
                    a \in Answers}

\* A refused card is an HTTP error, so that the worker cannot tell it from an
\* unknown result, or an intent that requires action.
Charge(w) ==
  LET o == run[w].occurrence
  IN /\ run[w].at = "charge"
     /\ \/ \E s \in Asked(stripe[o]) :
             /\ stripe' = [stripe EXCEPT ![o] = s]
             /\ \/ Goto(w, "note") /\ UNCHANGED faults
                \/ s.answer = "failed" /\ Finish(w, "retry") /\ UNCHANGED faults
                \/ Finish(w, "retry") /\ Fault
        \/ Finish(w, "retry") /\ Fault /\ UNCHANGED stripe
     /\ UNCHANGED <<now, customer, refusal, schedule, quotes, tx, request,
                    changes>>

\* Mutant: only a row that already names the intent.
TransitionIfBound(row, from, k, payment, status) ==
  IF row.payment \in from /\ row.intent = k
  THEN [row EXCEPT !.payment = payment, !.status = status]
  ELSE row

\* transitionPayment: the compare-and-set on the payment's status and intent.
Transition(row, from, k, payment, status) ==
  IF row.payment \in from /\ row.intent \in {0, k}
  THEN [row EXCEPT !.payment = payment, !.status = status, !.intent = k]
  ELSE row

\* The answer the worker holds is still the one Stripe keeps: keys outlive runs.
NoteAnswer(w) ==
  LET o == run[w].occurrence
      k == Len(stripe[o].intents)
      Becomes(payment, status) ==
        tx' = [tx EXCEPT ![o] =
                 Transition(@, {"PENDING", "FAILED"}, k, payment, status)]
  IN /\ run[w].at = "note"
     /\ \/ /\ stripe[o].answer = "succeeded"
           /\ Becomes("CAPTURED", "PENDING")
           /\ Goto(w, "fulfil")
        \/ /\ stripe[o].answer = "failed"
           /\ Becomes("FAILED", "FAILED")
           /\ Finish(w, Concludes(tx'[o]))
        \/ /\ stripe[o].answer = "processing"
           /\ Becomes("PENDING", "PENDING")
           /\ Finish(w, Concludes(tx'[o]))
     /\ UNCHANGED <<now, customer, refusal, schedule, quotes, stripe, request,
                    changes, faults>>

\* fulfillPaidRecharge, and what becomes of the recharge later: held or
\* submitted, delivered, or rejected and refunded.
Fulfilled(row) ==
  IF row.payment = "CAPTURED" /\ row.status \in {"PENDING", "PROCESSING"}
  THEN {[row EXCEPT !.status = "DELIVERED"],
        [row EXCEPT !.status = "FAILED", !.payment = "REFUND_PENDING"]}
       \union (IF row.status = "PENDING"
               THEN {row, [row EXCEPT !.status = "PROCESSING"]} ELSE {})
  ELSE IF row.payment = "REFUND_PENDING"
       THEN {[row EXCEPT !.payment = "REFUNDED"]} ELSE {row}

\* The call throws after an unknown outcome and after a rejection.
Throws(row, after) ==
  row.status = "PENDING" /\ after.status \in {"PROCESSING", "FAILED"}

Fulfil(w) ==
  LET o == run[w].occurrence
  IN /\ run[w].at = "fulfil"
     /\ \E row \in IF tx[o].status = "PENDING" /\ tx[o].payment = "CAPTURED"
                   THEN Fulfilled(tx[o]) ELSE {tx[o]} :
          /\ tx' = [tx EXCEPT ![o] = row]
          /\ \/ Finish(w, Concludes(row))
             \/ Throws(tx[o], row) /\ Finish(w, "retry")
     /\ UNCHANGED <<now, customer, refusal, schedule, quotes, stripe, request,
                    changes, faults>>

\* The last write of the iteration, by id.  Completion leaves the status alone;
\* the other outcomes leave the pending quote and occurrence alone.
Concluded(outcome, occurrence) ==
  CASE outcome = "complete" ->
         [schedule EXCEPT !.next = NextOccurrence(occurrence),
                          !.occurrence = 0, !.quote = 0, !.claim = "none"]
    [] outcome \in {"failed", "raise", "stop"} ->
         [schedule EXCEPT !.status = "PAUSED", !.claim = "none"]
    [] outcome \in {"pending", "retry"} ->
         [schedule EXCEPT !.claim = "none"]

Record(w) ==
  /\ run[w].at = "record"
  /\ schedule' = IF schedule.status = "DELETED" THEN schedule
                 ELSE Concluded(run[w].outcome, run[w].occurrence)
  /\ run' = [run EXCEPT ![w] = Idle]
  /\ UNCHANGED <<now, customer, refusal, quotes, tx, stripe, request, changes,
                 faults>>

---------------------------------------------------------------------------
(* The customer's requests.                                                *)

\* update(): reads the schedule, then writes it by id.  create(): an upsert.
BeginChange(r, kind) ==
  /\ kind \in Changes \ {"CANCEL_ROW"}
  /\ request[r] = NoRequest
  /\ customer = "ACTIVE"
  /\ changes < MaxChanges /\ changes' = changes + 1
  /\ kind # "ENABLE" => schedule.status \in {"ACTIVE", "PAUSED"}
  /\ request' = [request EXCEPT ![r].at = kind]
  /\ UNCHANGED <<now, customer, refusal, schedule, quotes, tx, stripe, run,
                 faults>>

Changed(kind) ==
  LET fresh == [schedule EXCEPT !.claim = "none", !.occurrence = 0, !.quote = 0]
  IN CASE kind = "PAUSE" ->
            [schedule EXCEPT !.status = "PAUSED", !.claim = "none"]
       [] kind = "CANCEL" -> [fresh EXCEPT !.status = "CANCELLED"]
       [] kind \in {"RESUME", "ENABLE"} ->
            [fresh EXCEPT !.status = "ACTIVE", !.next = now + Interval]

\* An erased schedule is not found by update(), and create() may not insert one
\* for an erased customer.
WriteChange(r) ==
  /\ request[r].at \in Changes \ {"CANCEL_ROW"}
  /\ schedule' = IF schedule.status = "DELETED" THEN schedule
                 ELSE Changed(request[r].at)
  /\ request' = [request EXCEPT ![r] = NoRequest]
  /\ UNCHANGED <<now, customer, refusal, quotes, tx, stripe, run, changes,
                 faults>>

\* cancelTransaction: the checks on the row read, the payment claim, and the
\* write.
BeginCancelRow(r, o) ==
  /\ "CANCEL_ROW" \in Changes
  /\ request[r] = NoRequest
  /\ customer = "ACTIVE"
  /\ changes < MaxChanges /\ changes' = changes + 1
  /\ tx[o].status = "PENDING" /\ tx[o].payment = "PENDING"
  /\ tx[o].intent = 0 /\ ~tx[o].paymentStarted
  /\ request' = [request EXCEPT ![r] = [at |-> "claimRow", occurrence |-> o]]
  /\ UNCHANGED <<now, customer, refusal, schedule, quotes, tx, stripe, run,
                 faults>>

ClaimRow(r) ==
  LET o == request[r].occurrence
  IN /\ request[r].at = "claimRow"
     /\ IF tx[o].payment = "PENDING" /\ ~tx[o].paymentStarted
        THEN /\ tx' = [tx EXCEPT ![o].paymentStarted = TRUE]
             /\ request' = [request EXCEPT ![r].at = "cancelRow"]
        ELSE /\ request' = [request EXCEPT ![r] = NoRequest]
             /\ UNCHANGED tx
     /\ UNCHANGED <<now, customer, refusal, schedule, quotes, stripe, run,
                    changes, faults>>

CancelRow(r) ==
  LET o == request[r].occurrence
  IN /\ request[r].at = "cancelRow"
     /\ tx' = IF tx[o].payment = "PENDING"
              THEN [tx EXCEPT ![o].payment = "FAILED", ![o].status = "FAILED",
                              ![o].cancelled = TRUE]
              ELSE tx
     /\ request' = [request EXCEPT ![r] = NoRequest]
     /\ UNCHANGED <<now, customer, refusal, schedule, quotes, stripe, run,
                    changes, faults>>

---------------------------------------------------------------------------
(* Account deletion: each is one serializable transaction.                 *)

\* Claims are kept, so that an external charge in progress is not hidden.
RequestDeletion ==
  /\ Deletable
  /\ customer = "ACTIVE"
  /\ customer' = "DELETION_PENDING"
  /\ schedule' = [schedule EXCEPT !.status = "CANCELLED"]
  /\ UNCHANGED <<now, refusal, quotes, tx, stripe, run, request, changes,
                 faults>>

\* Mutants: a payment in progress is overlooked; a failed one holds for ever.
SettledUnlessSubmitted(row) == row.status # "PROCESSING"
SettledOnceCaptured(row) ==
  row = NoRow \/ /\ row.status \notin {"PENDING", "PROCESSING"}
                 /\ row.payment \in {"CAPTURED", "REFUNDED"}

Settled(row) ==
  row = NoRow \/ /\ row.status \notin {"PENDING", "PROCESSING"}
                 /\ row.payment \in {"CAPTURED", "FAILED", "REFUNDED"}

ProcessDeletion ==
  /\ customer = "DELETION_PENDING"
  /\ \A o \in Occurrence : Settled(tx[o])
  /\ schedule.claim = "none"
  /\ customer' = "DELETED"
  /\ schedule' = [schedule EXCEPT !.status = "DELETED"]
  /\ quotes' = [q \in QuoteIds |-> IF quotes[q] = "valid" THEN "expired"
                                   ELSE quotes[q]]
  /\ UNCHANGED <<now, refusal, tx, stripe, run, request, changes, faults>>

---------------------------------------------------------------------------
(* Stripe, later settlement, time and crashes.                             *)

\* payment_intent.succeeded finds the row only by the intent it already names.
PaymentSucceeded(o) ==
  /\ \E k \in DOMAIN stripe[o].intents :
       /\ stripe[o].intents[k] = "succeeded"
       /\ tx[o].intent = k
       /\ tx[o].payment \in {"PENDING", "FAILED"}
       /\ \E row \in Fulfilled(Transition(tx[o], {"PENDING", "FAILED"}, k,
                                          "CAPTURED", "PENDING")) :
            tx' = [tx EXCEPT ![o] = row]
  /\ UNCHANGED <<now, customer, refusal, schedule, quotes, stripe, run,
                 request, changes, faults>>

\* payment_intent.payment_failed finds it by the transaction in the metadata.
\* A processed event is not acted on again.
PaymentFailed(o) ==
  /\ \E k \in DOMAIN stripe[o].intents \ stripe[o].heard :
       /\ stripe[o].intents[k] = "failed"
       /\ tx[o].intent \in {0, k}
       /\ tx' = [tx EXCEPT ![o] =
                   Transition(@, {"PENDING"}, k, "FAILED", "FAILED")]
       /\ stripe' = [stripe EXCEPT ![o].heard = @ \union {k}]
  /\ UNCHANGED <<now, customer, refusal, schedule, quotes, run, request,
                 changes, faults>>

IntentSettles(o) ==
  /\ \E k \in DOMAIN stripe[o].intents, a \in {"succeeded", "failed"} :
       /\ stripe[o].intents[k] = "processing"
       /\ stripe' = [stripe EXCEPT ![o].intents[k] = a]
  /\ UNCHANGED <<now, customer, refusal, schedule, quotes, tx, run, request,
                 changes, faults>>

\* Reconciliation, the provider's callback, and staff review of a held recharge.
Settle(o) ==
  /\ \E row \in Fulfilled(tx[o]) \ {tx[o]} : tx' = [tx EXCEPT ![o] = row]
  /\ UNCHANGED <<now, customer, refusal, schedule, quotes, stripe, run,
                 request, changes, faults>>

ClaimExpires ==
  /\ schedule.claim = "fresh"
  /\ schedule' = [schedule EXCEPT !.claim = "stale"]
  /\ UNCHANGED <<now, customer, refusal, quotes, tx, stripe, run, request,
                 changes, faults>>

\* A run slower than its quote's lifetime, or a quote kept by a run that ended;
\* without a fault while reservations are refused.
QuoteExpires(q) ==
  /\ quotes[q] = "valid"
  /\ Fault \/ (refusal # "none" /\ UNCHANGED faults)
  /\ quotes' = [quotes EXCEPT ![q] = "expired"]
  /\ UNCHANGED <<now, customer, refusal, schedule, tx, stripe, run, request,
                 changes>>

\* An operator is switched off or on, a receipt is hidden, the customer reaches a
\* limit or is restricted, and perhaps admitted again.
RefusalChanges ==
  /\ refusal' \in (Refusals \union {"none"}) \ {refusal}
  /\ UNCHANGED <<now, customer, schedule, quotes, tx, stripe, run, request,
                 changes, faults>>

\* Every call has a timeout: no run lasts for a tick (bound).
Tick ==
  /\ now < Horizon
  /\ \A w \in Workers : run[w].at = "idle"
  /\ now' = now + 1
  /\ schedule' = [schedule EXCEPT !.claim = IF @ = "none" THEN "none"
                                            ELSE "stale"]
  /\ quotes' = [q \in QuoteIds |-> IF quotes[q] = "valid" THEN "expired"
                                   ELSE quotes[q]]
  /\ stripe' = IF StripeForgets
               THEN [o \in Occurrence |-> [stripe[o] EXCEPT !.answer = "none"]]
               ELSE stripe
  /\ UNCHANGED <<customer, refusal, tx, run, request, changes, faults>>

Crash(w) ==
  /\ run[w].at # "idle"
  /\ Fault
  /\ run' = [run EXCEPT ![w] = Idle]
  /\ UNCHANGED <<now, customer, refusal, schedule, quotes, tx, stripe, request,
                 changes>>

Work(w) ==
  \/ Claim(w) \/ ReadSchedule(w) \/ Quote(w) \/ KeepQuote(w) \/ Reserve(w)
  \/ Charge(w) \/ NoteAnswer(w) \/ Fulfil(w) \/ Record(w)

Continue(r) == WriteChange(r) \/ ClaimRow(r) \/ CancelRow(r)

Deliver(o) ==
  PaymentSucceeded(o) \/ PaymentFailed(o) \/ IntentSettles(o) \/ Settle(o)

Next ==
  \/ \E w \in Workers : Work(w) \/ Crash(w)
  \/ \E r \in Requests : Continue(r)
  \/ \E r \in Requests, kind \in Changes : BeginChange(r, kind)
  \/ \E r \in Requests, o \in Occurrence : BeginCancelRow(r, o)
  \/ \E o \in Occurrence : Deliver(o)
  \/ \E q \in QuoteIds : QuoteExpires(q)
  \/ RequestDeletion \/ ProcessDeletion \/ ClaimExpires
  \/ RefusalChanges \/ Tick

Spec == Init /\ [][Next]_vars

(* Fairness: every process runs its timers each minute and finishes what it *)
(* began, Stripe redelivers its events, reconciliation and staff settle     *)
(* what is paid, and claims age.  The customer, faults and the end of a     *)
(* tick are not bound to happen.                                            *)
FairSpec ==
  /\ Spec
  /\ \A w \in Workers : WF_vars(Work(w))
  /\ \A r \in Requests : WF_vars(Continue(r))
  /\ \A o \in Occurrence :
       /\ WF_vars(PaymentSucceeded(o) \/ PaymentFailed(o))
       /\ WF_vars(IntentSettles(o))
       /\ WF_vars(Settle(o))
  /\ WF_vars(ProcessDeletion)
  /\ WF_vars(ClaimExpires)

---------------------------------------------------------------------------
(* Properties.                                                             *)

\* Every variable stays in its set; a worker beyond the reservation has a row.
TypeOK ==
  /\ now \in 0..Horizon
  /\ customer \in {"ACTIVE", "DELETION_PENDING", "DELETED"}
  /\ refusal \in Refusals \union {"none"}
  /\ schedule \in Schedule
  /\ quotes \in [QuoteIds -> {"none", "valid", "expired", "consumed"}]
  /\ tx \in [Occurrence -> Row]
  /\ \A o \in Occurrence :
       /\ stripe[o].answer \in IntentState \union {"none"}
       /\ stripe[o].intents \in Seq(IntentState)
       /\ stripe[o].heard \subseteq DOMAIN stripe[o].intents
  /\ run \in [Workers -> [at : RunState, occurrence : Times,
                          quote : 0..MaxQuotes, outcome : Outcome]]
  /\ \A w \in Workers : run[w].at \in {"charge", "note", "fulfil"} =>
       tx[run[w].occurrence] # NoRow
  /\ request \in [Requests ->
       [at : {"idle", "PAUSE", "RESUME", "CANCEL", "ENABLE", "claimRow",
              "cancelRow"}, occurrence : Times]]
  /\ changes \in 0..MaxChanges
  /\ faults \in 0..MaxFaults

\* "Automatically recharge this same number every {days} days": whoever runs
\* the schedule, and however often a run is cut short and taken over, the card
\* is asked for an occurrence only when it is due, and the occurrences that are
\* paid are whole intervals apart, counted from the first.
ChargesKeepTheRhythm ==
  \A o \in Occurrence : stripe[o].intents # <<>> =>
    o <= now /\ (o % Interval) = 0

\* The rhythm, of a schedule, recharges and payments of the declared types
\* (runDue, nextOccurrence).
RhythmIsKept == TypeOK /\ ChargesKeepTheRhythm

\* One payment at most is taken for an occurrence, though each run that finds
\* the recharge unfinished asks Stripe again.
ChargedOnce ==
  \A o \in Occurrence : Cardinality({k \in DOMAIN stripe[o].intents :
    stripe[o].intents[k] = "succeeded"}) <= 1

\* A payment Stripe took is on the row in the end, whatever was lost between,
\* unless the customer is restricted: the run that would learn of it is refused.
ChargedIsCaptured ==
  \A o \in Occurrence :
    Paid(o) ~> \/ tx[o].payment \in {"CAPTURED", "REFUND_PENDING", "REFUNDED"}
               \/ refusal = "restricted"

\* A run that was cut short left a quote that no later run can use.
LeftToExpire == schedule.quote # 0 /\ quotes[schedule.quote] = "expired"

DueAndActive(o) ==
  schedule.status = "ACTIVE" /\ schedule.next = o /\ o <= now

ChargedOrPaused(o) == stripe[o].intents # <<>> \/ schedule.status # "ACTIVE"

\* An active schedule that is due is charged for, or is paused, once nothing
\* refuses it for good: an occurrence is not skipped, nor retried for ever,
\* but for the quotes that runs leave to expire, which the code never replaces.
DueIsChargedOrPaused ==
  \A o \in Occurrence :
    DueAndActive(o) ~> (ChargedOrPaused(o) \/ LeftToExpire \/ refusal # "none")

\* "Automatically recharge this same number every {days} days using your saved
\* card", and pause if payment needs the customer's attention
\* (apps/flupflap/lib/parity_strings.dart:100, 104): false of a schedule that
\* create() accepts for a product of fixed price, data or a bundle, which repeat()
\* can never quote.
AcceptedIsChargedOrPaused ==
  \A o \in Occurrence : DueAndActive(o) ~> ChargedOrPaused(o)

\* A recharge the customer has cancelled is not paid for: the cancellation and
\* the payment compete for the row, and one of them wins.
CancelledIsNotCharged == \A o \in Occurrence : tx[o].cancelled => ~Paid(o)

\* An account is erased only when nothing of its money is open: each payment
\* taken is on its row, and none can still be taken.
ErasedOnlyWhenSettled ==
  customer = "DELETED" =>
    \A o \in Occurrence :
      /\ Settled(tx[o])
      /\ \A k \in DOMAIN stripe[o].intents : stripe[o].intents[k] # "processing"
      /\ Paid(o) => tx[o].payment \in {"CAPTURED", "REFUNDED"}

\* A deletion request is carried out in the end, with a run in progress or not.
DeletionCompletes ==
  customer = "DELETION_PENDING" ~> customer = "DELETED"
=============================================================================
