------------------------ MODULE RechargeReservation ------------------------
(***************************************************************************)
(* From a quote to a reserved recharge: quotes, the idempotent             *)
(* reservation, the purchase limits and what staff may do about them       *)
(* (createQuote and reservePayment of apps/api/src/topup/service.ts,       *)
(* reserveTransaction of topup/repository.ts, fraud-policy.ts,             *)
(* payment-attempt-controls.ts and purchase-attempt-reset.ts), for live    *)
(* purchases of FlupFlap customers.                                        *)
(*                                                                         *)
(* A request reads the time once, before the catalogue is asked, and its   *)
(* transaction judges the limits by that time, whenever it gets the locks  *)
(* of the customer and of the recipient's number.  The unit of time is an  *)
(* hour: the fifteen minutes of failed payments are the hour itself.       *)
(***************************************************************************)
EXTENDS Integers, FiniteSets, FiniteSetsExt

CONSTANTS
  Requests,   \* requests of all processes
  Customers,  \* FlupFlapCustomer rows
  Phones,     \* recipients' numbers
  Quotes,     \* MobileTopUpQuote rows
  Keys,       \* idempotency keys
  Cards,      \* card fingerprints
  Linked,     \* the customers on the same devices as a customer, by FlupFlapDevice
  Totals,     \* bound: what a quote may cost
  Day,        \* hours in a day
  PerHour,    \* reservations in an hour, 3 in the code
  PerDay,     \* reservations in a day, 10
  DayTotal,   \* cost of a day's reservations, 200 dollars
  Failures,   \* failed payments in 15 minutes that stop a customer, 3
  MaxCards,   \* cards a customer may pay with in a day, 2
  Horizon,    \* bound: how far time goes
  MaxDeclines,  \* bound: failed payments
  MaxFaults   \* bound: catalogues that changed or failed, and requests that stop

ASSUME ReservationAssumption ==
  /\ Linked \in [Customers -> SUBSET Customers] /\ \A c \in Customers : c \in Linked[c]
  /\ Totals \subseteq Nat \ {0}
  /\ Day \in Nat \ {0} /\ PerHour \in Nat /\ PerDay \in Nat /\ DayTotal \in Nat
  /\ Failures \in Nat \ {0} /\ MaxCards \in Nat
  /\ "free" \notin Requests /\ "none" \notin Quotes
  /\ Horizon \in Nat /\ MaxDeclines \in Nat /\ MaxFaults \in Nat

VARIABLES
  now,           \* the clock
  restricted,    \* customers that are restricted, or not active
  quote,         \* MobileTopUpQuote
  row,           \* MobileTopUpTransaction by customer and idempotency key
  exempt,        \* rows that staff took out of the attempt counts
  declined,      \* FLUPFLAP_PAYMENT_ATTEMPT_FAILED records
  customerLock,  \* the transaction that holds a customer's row
  phoneLock,     \* the transaction that holds a number's advisory lock
  work,          \* what each request is doing
  faults         \* faults so far

vars == <<now, restricted, quote, row, exempt, declined, customerLock, phoneLock, work, faults>>
records == <<quote, row, exempt, declined>>
locks == <<customerLock, phoneLock>>

---------------------------------------------------------------------------
(* State. *)

Owners == Customers \X Keys
NoQuote == [customer |-> "none", phone |-> "none", total |-> 0, expires |-> 0, consumed |-> FALSE]
NoRow == [quote |-> "none", status |-> "NONE", payment |-> "NONE", at |-> 0]
Idle == [at |-> "idle", quote |-> "none", key |-> "none", time |-> 0, blocked |-> FALSE]
Rows == {o \in Owners : row[o] # NoRow}
PhoneOf(o) == quote[row[o].quote].phone
TotalOf(o) == quote[row[o].quote].total

Init ==
  /\ now = 0
  /\ restricted = {}
  /\ quote = [q \in Quotes |-> NoQuote]
  /\ row = [o \in Owners |-> NoRow]
  /\ exempt = {}
  /\ declined = {}
  /\ customerLock = [c \in Customers |-> "free"]
  /\ phoneLock = [p \in Phones |-> "free"]
  /\ work = [r \in Requests |-> Idle]
  /\ faults = 0

Goto(r, at) == work' = [work EXCEPT ![r].at = at]

\* The request ends, and with it the transaction it had open.
Released(lock, r) == [x \in DOMAIN lock |-> IF lock[x] = r THEN "free" ELSE lock[x]]
Finish(r) ==
  /\ work' = [work EXCEPT ![r] = Idle]
  /\ customerLock' = Released(customerLock, r)
  /\ phoneLock' = Released(phoneLock, r)

Fault == faults < MaxFaults /\ faults' = faults + 1

---------------------------------------------------------------------------
(* Quotes, each good until the next hour. *)

CreateQuote(q, c, p, total) ==
  /\ quote[q] = NoQuote
  /\ quote' = [quote EXCEPT ![q] =
       [customer |-> c, phone |-> p, total |-> total, expires |-> now + 1, consumed |-> FALSE]]
  /\ UNCHANGED <<now, restricted, row, exempt, declined, locks, work, faults>>

\* Mutant of Valid: a used quote is good again.
ValidUnlessExpired(q, time) == quote[q].expires > time

Valid(q, time) == ~quote[q].consumed /\ quote[q].expires > time

---------------------------------------------------------------------------
(* reservePayment.  A key that has its row is answered with it, or with a  *)
(* conflict.                                                               *)

Begin(r, q, k) ==
  /\ work[r] = Idle /\ quote[q] # NoQuote
  /\ row[<<quote[q].customer, k>>] = NoRow
  /\ work' = [work EXCEPT ![r] = [Idle EXCEPT !.at = "read", !.quote = q, !.key = k]]
  /\ UNCHANGED <<now, restricted, records, locks, faults>>

ReadQuote(r) ==
  /\ work[r].at = "read"
  /\ \/ /\ Valid(work[r].quote, now)
        /\ work' = [work EXCEPT ![r].at = "revalidate", ![r].time = now]
        /\ UNCHANGED locks
     \/ ~Valid(work[r].quote, now) /\ Finish(r)
  /\ UNCHANGED <<now, restricted, records, faults>>

\* revalidateQuoteProduct: the product is still sold on the quoted terms, or
\* not, or the catalogue cannot be read.
Revalidate(r) ==
  /\ work[r].at = "revalidate"
  /\ \/ Goto(r, "customer") /\ UNCHANGED <<locks, faults>>
     \/ Fault /\ Finish(r)
  /\ UNCHANGED <<now, restricted, records>>

\* Mutant of Free: the transactions do not wait for each other.
FreeAlways(holder) == TRUE

\* A lock is waited for, and held to the end of the transaction.
Free(holder) == holder = "free"

\* paymentAttemptAccess: recent failures, and cards of a day, of everybody
\* on the customer's devices.
AttemptsBlocked(c, time) ==
  LET linked == {d \in declined : d.row[1] \in Linked[c]}
      today == {d \in linked : d.at >= time - Day}
  IN  \/ Cardinality({d \in linked : d.at >= time}) >= Failures
      \/ Cardinality({d.card : d \in today}) > MaxCards

\* The transaction begins: the customer is locked, and refused, answered with
\* the row another request made, or judged by the failed payments.
LockCustomer(r) ==
  LET c == quote[work[r].quote].customer IN
  /\ work[r].at = "customer" /\ Free(customerLock[c])
  /\ IF c \in restricted \/ row[<<c, work[r].key>>] # NoRow
     THEN Finish(r)
     ELSE /\ customerLock' = [customerLock EXCEPT ![c] = r]
          /\ work' = [work EXCEPT ![r].at = "phone",
                                  ![r].blocked = AttemptsBlocked(c, work[r].time)]
          /\ UNCHANGED phoneLock
  /\ UNCHANGED <<now, restricted, records, faults>>

\* resetPurchaseAttemptIds, of rows that are still failed.
attemptExempt(o) ==
  o \in exempt /\ row[o].status = "FAILED" /\ row[o].payment = "FAILED"

\* assertPurchaseLimits over a history; every row counts for the money.  (As
\* many failed payments in an hour are as many reservations.)
assertPurchaseLimits(total, history, spared, time) ==
  LET today == {o \in history : row[o].at >= time - Day}
      attempts == today \ spared
  IN  /\ MapThenSumSet(TotalOf, today) + total <= DayTotal
      /\ Cardinality({o \in attempts : row[o].at >= time - 1}) < PerHour
      /\ Cardinality(attempts) < PerDay

\* The number is locked, and both histories are read.
LockPhone(r) ==
  LET q == quote[work[r].quote]
      spared == {o \in Rows : o[1] = q.customer /\ attemptExempt(o)}
      Within(history) == assertPurchaseLimits(q.total, history, spared, work[r].time)
  IN
  /\ work[r].at = "phone" /\ Free(phoneLock[q.phone])
  /\ IF /\ ~work[r].blocked
        /\ Within({o \in Rows : PhoneOf(o) = q.phone})
        /\ Within({o \in Rows : o[1] = q.customer})
     THEN /\ phoneLock' = [phoneLock EXCEPT ![q.phone] = r]
          /\ Goto(r, "insert")
          /\ UNCHANGED customerLock
     ELSE Finish(r)
  /\ UNCHANGED <<now, restricted, records, faults>>

\* The quote is claimed and the row created together, or neither is.
Insert(r) ==
  LET q == work[r].quote
      o == <<quote[q].customer, work[r].key>>
  IN
  /\ work[r].at = "insert"
  /\ IF Valid(q, work[r].time) /\ row[o] = NoRow
     THEN /\ quote' = [quote EXCEPT ![q].consumed = TRUE]
          /\ row' = [row EXCEPT ![o] = [quote |-> q, status |-> "PENDING",
                                        payment |-> "PENDING", at |-> work[r].time]]
     ELSE UNCHANGED <<quote, row>>
  /\ Finish(r)
  /\ UNCHANGED <<now, restricted, exempt, declined, faults>>

---------------------------------------------------------------------------
(* resetPurchaseAttempts: under the lock of the customer, with nothing of  *)
(* the customer's unresolved, the failed rows of the day.                  *)

Unresolved(o) ==
  \/ row[o].status \notin {"DELIVERED", "FAILED"}
  \/ row[o].status = "FAILED" /\ row[o].payment = "CAPTURED"

Resettable(c) ==
  {o \in Rows : /\ o[1] = c /\ row[o].status = "FAILED" /\ row[o].payment = "FAILED"
                /\ row[o].at >= now - Day}

ResetPurchaseAttempts(c) ==
  /\ Free(customerLock[c]) /\ c \notin restricted
  /\ \A o \in Rows : o[1] = c => ~Unresolved(o)
  /\ exempt' = exempt \cup Resettable(c)
  /\ UNCHANGED <<now, restricted, quote, row, declined, locks, work, faults>>

ToggleRestriction(c) ==
  /\ Free(customerLock[c])
  /\ restricted' = (restricted \cup {c}) \ (restricted \cap {c})
  /\ UNCHANGED <<now, records, locks, work, faults>>

---------------------------------------------------------------------------
(* What becomes of a row (TopUpSettlement), and Stripe's failed payments,  *)
(* which may be heard of late.                                             *)

Becomes(o, status, payment) ==
  /\ row' = [row EXCEPT ![o].status = status, ![o].payment = payment]
  /\ UNCHANGED <<now, restricted, quote, exempt, declined, locks, work, faults>>

PaymentFails(o) ==
  row[o].status = "PENDING" /\ row[o].payment = "PENDING" /\ Becomes(o, "FAILED", "FAILED")

\* PAYMENT_RECOVERED, when the payment had failed: the row is fulfilled after all.
PaymentCaptured(o) ==
  row[o].payment \in {"PENDING", "FAILED"} /\ Becomes(o, "PENDING", "CAPTURED")

\* A top-up that the provider takes back counts as one that failed.
FulfillmentEnds(o) ==
  /\ row[o].status = "PENDING" /\ row[o].payment = "CAPTURED"
  /\ \E status \in {"DELIVERED", "FAILED"} : Becomes(o, status, "CAPTURED")

Refunded(o) ==
  row[o].status = "FAILED" /\ row[o].payment = "CAPTURED" /\ Becomes(o, "FAILED", "REFUNDED")

Settles(o) == PaymentFails(o) \/ PaymentCaptured(o) \/ FulfillmentEnds(o) \/ Refunded(o)

RegisterDecline(o, card, at) ==
  /\ row[o] # NoRow /\ at >= row[o].at
  /\ Cardinality(declined) < MaxDeclines
  /\ declined' = declined \cup {[row |-> o, card |-> card, at |-> at]}
  /\ UNCHANGED <<now, restricted, quote, row, exempt, locks, work, faults>>

Tick ==
  /\ now < Horizon
  /\ now' = now + 1
  /\ UNCHANGED <<restricted, records, locks, work, faults>>

\* A process stops, and the database ends its transaction.
Stop(r) ==
  /\ work[r] # Idle
  /\ Fault /\ Finish(r)
  /\ UNCHANGED <<now, restricted, records>>

Next ==
  \/ \E q \in Quotes, c \in Customers, p \in Phones, total \in Totals : CreateQuote(q, c, p, total)
  \/ \E r \in Requests, q \in Quotes, k \in Keys : Begin(r, q, k)
  \/ \E r \in Requests : \/ ReadQuote(r) \/ Revalidate(r) \/ LockCustomer(r) \/ LockPhone(r)
                         \/ Insert(r) \/ Stop(r)
  \/ \E c \in Customers : ResetPurchaseAttempts(c) \/ ToggleRestriction(c)
  \/ \E o \in Owners : Settles(o)
  \/ \E o \in Owners, card \in Cards, at \in 0..now : RegisterDecline(o, card, at)
  \/ Tick

Spec == Init /\ [][Next]_vars

---------------------------------------------------------------------------
(* Properties. *)

(* Every variable keeps its type.                                          *)
TypeOK ==
  /\ now \in 0..Horizon /\ faults \in 0..MaxFaults
  /\ restricted \subseteq Customers
  /\ \A q \in Quotes :
       quote[q] = NoQuote \/ quote[q] \in [customer : Customers, phone : Phones, total : Totals,
                                            expires : 1..(Horizon + 1), consumed : BOOLEAN]
  /\ \A o \in Owners :
       row[o] = NoRow
       \/ row[o] \in [quote : Quotes, status : {"PENDING", "DELIVERED", "FAILED"},
                       payment : {"PENDING", "CAPTURED", "FAILED", "REFUNDED"}, at : 0..Horizon]
  /\ exempt \subseteq Rows
  /\ \A d \in declined : d.row \in Rows /\ d.card \in Cards /\ d.at \in 0..now
  /\ customerLock \in [Customers -> Requests \cup {"free"}]
  /\ phoneLock \in [Phones -> Requests \cup {"free"}]

Within(group, t, length) == {o \in group : row[o].at \in t..(t + length)}
Groups == {{o \in Rows : o[1] = c} : c \in Customers} \cup {{o \in Rows : PhoneOf(o) = p} : p \in Phones}

(* In no hour and in no day does a customer, or a recipient whoever pays,  *)
(* get more reservations than the limits allow, the ones staff took out    *)
(* aside, however long a request took from reading the time to its locks   *)
(* (fraud-policy.ts, "to resist retries").  A reservation that was taken   *)
(* out stays aside here when its payment is captured late: the code counts *)
(* it again, but only against what is reserved from then on, so with it    *)
(* the limit may be exceeded.                                              *)
AttemptsBounded ==
  \A group \in Groups, t \in 0..Horizon :
    /\ Cardinality(Within(group \ exempt, t, 1)) <= PerHour
    /\ Cardinality(Within(group \ exempt, t, Day)) <= PerDay

(* Nor reservations that cost more than a day's total, and there the ones  *)
(* staff took out count.                                                   *)
SpendingBounded ==
  \A group \in Groups, t \in 0..Horizon :
    MapThenSumSet(TotalOf, Within(group, t, Day)) <= DayTotal

(* A quote buys one recharge: a used quote has exactly one row, of its own *)
(* customer, and no row is without its quote, whatever keys and requests   *)
(* raced for it and whichever of them stopped.                             *)
QuoteBuysOneRow ==
  \A q \in Quotes :
    LET bought == {o \in Rows : row[o].quote = q} IN
    /\ Cardinality(bought) = (IF quote[q].consumed THEN 1 ELSE 0)
    /\ \A o \in bought : o[1] = quote[q].customer

(* A reservation that staff took out is none whose payment is still        *)
(* awaited, whatever is reserved and paid for beside the reset             *)
(* (purchase-attempt-reset.ts, "never a time cutoff that could exempt an   *)
(* in-flight request"): its payment had failed, and it is under way again  *)
(* only when the failed payment is captured late.                          *)
ResetSparesInFlight == \A o \in exempt : row[o].payment # "PENDING"

(* The attempts of a customer and on a recipient's number, and what they   *)
(* cost, stay within the limits of an hour and of a day                    *)
(* (assertPurchaseLimits), the attempts staff took out aside; and none is  *)
(* taken out whose payment is still awaited (resetPurchaseAttempts).       *)
PurchaseLimitsHold == TypeOK /\ AttemptsBounded /\ SpendingBounded /\ ResetSparesInFlight
=============================================================================
