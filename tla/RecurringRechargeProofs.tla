---------------------- MODULE RecurringRechargeProofs ----------------------
(***************************************************************************)
(* Proofs about RecurringRecharge: an occurrence is charged at most once,  *)
(* however many processes run the schedule; one process keeps the rhythm   *)
(* of the schedule; and an account is erased only when its money is        *)
(* settled, where Stripe's answers are final and remembered.               *)
(***************************************************************************)
EXTENDS RecurringRecharge, FiniteSetTheorems, TLAPS

---------------------------------------------------------------------------
(* What Stripe keeps of an occurrence.                                     *)

Account == [answer : IntentState \union {"none"}, intents : Seq(IntentState),
            heard : SUBSET Nat]

StripeOK == stripe \in [Occurrence -> Account]

\* The idempotency key lets through one payment intent.
AskedOnce(s) == Len(s.intents) <= 1 /\ (s.answer = "none" => s.intents = <<>>)

OnceInv == StripeOK /\ \A o \in Occurrence : AskedOnce(stripe[o])

LEMMA UnaskedIsAccount == Unasked \in Account /\ AskedOnce(Unasked)
BY DEF Unasked, Account, AskedOnce

LEMMA AskedFacts ==
  ASSUME NEW s \in Account, NEW t \in Asked(s)
  PROVE  /\ t \in Account /\ t.answer # "none"
         /\ t.heard = s.heard
         /\ Len(t.intents) >= Len(s.intents)
         /\ AskedOnce(s) => AskedOnce(t)
<1>1. CASE s.answer # "none"
  BY <1>1 DEF Asked, Account, AskedOnce
<1>2. CASE s.answer = "none"
  <2>1. PICK a \in Answers : t = [s EXCEPT !.answer = a, !.intents = Append(@, a)]
    BY <1>2 DEF Asked
  <2>2. a \in IntentState
    BY ScheduleAssumption DEF ScheduleAssumption, IntentState
  <2>3. /\ Append(s.intents, a) \in Seq(IntentState)
        /\ Len(Append(s.intents, a)) = Len(s.intents) + 1 /\ Len(s.intents) \in Nat
    BY <2>2 DEF Account
  <2>4. t \in Account /\ t.answer = a /\ t.heard = s.heard
        /\ t.intents = Append(s.intents, a)
    BY <2>1, <2>2, <2>3 DEF Account
  <2> QED BY <1>2, <2>2, <2>3, <2>4 DEF AskedOnce, IntentState
<1> QED BY <1>1, <1>2

LEMMA SettledFacts ==
  ASSUME NEW s \in Account, NEW k \in DOMAIN s.intents, NEW a \in {"succeeded", "failed"}
  PROVE  LET t == [s EXCEPT !.intents[k] = a]
         IN  /\ t \in Account /\ t.answer = s.answer /\ t.heard = s.heard
             /\ Len(t.intents) = Len(s.intents)
             /\ AskedOnce(s) => AskedOnce(t)
<1> DEFINE seq == [s.intents EXCEPT ![k] = a]
           t == [s EXCEPT !.intents[k] = a]
<1>1. seq \in Seq(IntentState) /\ Len(seq) = Len(s.intents)
  BY DEF Account, IntentState
<1>2. t = [s EXCEPT !.intents = seq]
  OBVIOUS
<1>3. t \in Account /\ t.answer = s.answer /\ t.heard = s.heard /\ t.intents = seq
  BY <1>1, <1>2 DEF Account
<1>4. AskedOnce(s) => AskedOnce(t)
  BY <1>1, <1>3 DEF AskedOnce, Account
<1> QED BY <1>1, <1>3, <1>4

\* Only these steps move anything at Stripe.
LEMMA OthersLeaveStripe ==
  ASSUME [Next]_vars, ~UNCHANGED stripe
  PROVE  \/ \E w \in Workers : Charge(w)
         \/ \E o \in Occurrence : PaymentFailed(o) \/ IntentSettles(o)
         \/ Tick
<1>1. CASE UNCHANGED vars
  BY <1>1 DEF vars
<1>2. ASSUME NEW w \in Workers, Work(w) \/ Crash(w) PROVE Charge(w)
  BY <1>2 DEF Work, Crash, Claim, ReadSchedule, Quote, KeepQuote, Reserve, NoteAnswer,
              Fulfil, Record
<1>3. ASSUME NEW r \in Requests, Continue(r) PROVE FALSE
  BY <1>3 DEF Continue, WriteChange, ClaimRow, CancelRow
<1>4. ASSUME NEW r \in Requests, NEW kind \in Changes, BeginChange(r, kind) PROVE FALSE
  BY <1>4 DEF BeginChange
<1>5. ASSUME NEW r \in Requests, NEW o \in Occurrence, BeginCancelRow(r, o) PROVE FALSE
  BY <1>5 DEF BeginCancelRow
<1>6. ASSUME NEW o \in Occurrence, Deliver(o) PROVE PaymentFailed(o) \/ IntentSettles(o)
  BY <1>6 DEF Deliver, PaymentSucceeded, Settle
<1>7. ASSUME NEW q \in QuoteIds, QuoteExpires(q) PROVE FALSE
  BY <1>7 DEF QuoteExpires
<1>8. CASE RequestDeletion \/ ProcessDeletion \/ ClaimExpires \/ RefusalChanges
  BY <1>8 DEF RequestDeletion, ProcessDeletion, ClaimExpires, RefusalChanges
<1> QED BY <1>1, <1>2, <1>3, <1>4, <1>5, <1>6, <1>7, <1>8 DEF Next

---------------------------------------------------------------------------
(* One payment for an occurrence.                                          *)

\* A step gives the account of an occurrence at most one intent, or leaves it.
LEMMA OneAccountMoves ==
  ASSUME OnceInv, NEW o, NEW s \in Account, AskedOnce(s), stripe' = [stripe EXCEPT ![o] = s]
  PROVE  OnceInv'
BY DEF OnceInv, StripeOK

LEMMA ChargeIsOnce ==
  ASSUME OnceInv, NEW w \in Workers, Charge(w), run[w].occurrence \in Occurrence
  PROVE  OnceInv'
<1> DEFINE o == run[w].occurrence
<1>1. CASE UNCHANGED stripe
  BY <1>1 DEF OnceInv, StripeOK
<1>2. ASSUME NEW s \in Asked(stripe[o]), stripe' = [stripe EXCEPT ![o] = s] PROVE OnceInv'
  <2>1. stripe[o] \in Account /\ AskedOnce(stripe[o])
    BY DEF OnceInv, StripeOK
  <2> QED BY <1>2, <2>1, AskedFacts, OneAccountMoves
<1> QED BY <1>1, <1>2 DEF Charge

\* Outside the horizon there is nothing to charge.
LEMMA NoChargeBeyond ==
  ASSUME OnceInv, NEW w \in Workers, Charge(w), run[w].occurrence \notin Occurrence
  PROVE  OnceInv'
<1>1. UNCHANGED stripe
  BY DEF Charge, OnceInv, StripeOK
<1> QED BY <1>1 DEF OnceInv, StripeOK

LEMMA PaymentFailedIsOnce ==
  ASSUME OnceInv, NEW o \in Occurrence, PaymentFailed(o)
  PROVE  OnceInv'
<1>1. PICK k \in DOMAIN stripe[o].intents : stripe' = [stripe EXCEPT ![o].heard = @ \union {k}]
  BY DEF PaymentFailed
<1>2. stripe[o] \in Account /\ AskedOnce(stripe[o])
  BY DEF OnceInv, StripeOK
<1> DEFINE s == [stripe[o] EXCEPT !.heard = @ \union {k}]
<1>3. s \in Account /\ AskedOnce(s)
  BY <1>2 DEF Account, AskedOnce
<1>4. stripe' = [stripe EXCEPT ![o] = s]
  BY <1>1
<1> QED BY <1>3, <1>4, OneAccountMoves

LEMMA IntentSettlesIsOnce ==
  ASSUME OnceInv, NEW o \in Occurrence, IntentSettles(o)
  PROVE  OnceInv'
<1>1. PICK k \in DOMAIN stripe[o].intents, a \in {"succeeded", "failed"} :
        stripe' = [stripe EXCEPT ![o].intents[k] = a]
  BY DEF IntentSettles
<1>2. stripe[o] \in Account /\ AskedOnce(stripe[o])
  BY DEF OnceInv, StripeOK
<1> DEFINE s == [stripe[o] EXCEPT !.intents[k] = a]
<1>3. s \in Account /\ AskedOnce(s)
  BY <1>2, SettledFacts
<1>4. stripe' = [stripe EXCEPT ![o] = s]
  BY <1>1
<1> QED BY <1>3, <1>4, OneAccountMoves

LEMMA NextIsOnce == ~StripeForgets /\ OnceInv /\ [Next]_vars => OnceInv'
<1> SUFFICES ASSUME ~StripeForgets, OnceInv, [Next]_vars PROVE OnceInv'
  OBVIOUS
<1>1. CASE UNCHANGED stripe
  BY <1>1 DEF OnceInv, StripeOK
<1>2. CASE Tick
  BY <1>1, <1>2 DEF Tick
<1> QED BY <1>1, <1>2, OthersLeaveStripe, ChargeIsOnce, NoChargeBeyond, PaymentFailedIsOnce,
        IntentSettlesIsOnce

LEMMA InitIsOnce == Init => OnceInv
BY UnaskedIsAccount DEF Init, OnceInv, StripeOK

\* A run cut short at any step is taken over by another process, which asks
\* Stripe again under the same key: the customer pays for an occurrence once,
\* with any number of processes, crashes and requests, as long as Stripe
\* remembers the key.
THEOREM OccurrenceIsChargedOnce ==
  ASSUME ~StripeForgets
  PROVE  Spec => []ChargedOnce
<1>1. OnceInv /\ [Next]_vars => OnceInv'
  BY NextIsOnce
<1>2. OnceInv => ChargedOnce
  <2> SUFFICES ASSUME OnceInv, NEW o \in Occurrence
               PROVE  Cardinality({k \in DOMAIN stripe[o].intents :
                                     stripe[o].intents[k] = "succeeded"}) <= 1
    BY DEF ChargedOnce
  <2> DEFINE S == {k \in DOMAIN stripe[o].intents : stripe[o].intents[k] = "succeeded"}
  <2>1. stripe[o].intents \in Seq(IntentState) /\ Len(stripe[o].intents) <= 1
    BY DEF OnceInv, StripeOK, Account, AskedOnce
  <2>2. DOMAIN stripe[o].intents \subseteq {1}
    BY <2>1
  <2>3. S = {} \/ S = {1}
    BY <2>2
  <2> HIDE DEF S
  <2>4. Cardinality(S) <= 1
    BY <2>3, FS_EmptySet, FS_Singleton
  <2> QED BY <2>4 DEF S
<1> QED BY <1>1, <1>2, InitIsOnce, PTL DEF Spec

---------------------------------------------------------------------------
(* Types.                                                                  *)

RunRecord == [at : RunState, occurrence : Times, quote : 0..MaxQuotes, outcome : Outcome]
RequestRecord == [at : {"idle", "PAUSE", "RESUME", "CANCEL", "ENABLE", "claimRow", "cancelRow"},
                  occurrence : Times]

\* The variables whose types need nothing but themselves.
RestOK ==
  /\ customer \in {"ACTIVE", "DELETION_PENDING", "DELETED"}
  /\ refusal \in Refusals \union {"none"}
  /\ quotes \in [QuoteIds -> {"none", "valid", "expired", "consumed"}]
  /\ request \in [Requests -> RequestRecord]
  /\ changes \in 0..MaxChanges
  /\ faults \in 0..MaxFaults

LEMMA InitRest == ASSUME 0 \in Times, Init PROVE RestOK
BY ScheduleAssumption DEF ScheduleAssumption, Init, RestOK, RequestRecord, NoRequest

\* A call of a worker, with what else it may change.
LEMMA WorkRest ==
  ASSUME RestOK, NEW w \in Workers, Work(w) \/ Crash(w)
  PROVE  RestOK'
<1>0. MaxFaults \in Nat /\ MaxChanges \in Nat
  BY ScheduleAssumption DEF ScheduleAssumption
<1>1. CASE Claim(w) \/ ReadSchedule(w) \/ KeepQuote(w) \/ NoteAnswer(w) \/ Fulfil(w) \/ Record(w)
  BY <1>1 DEF RestOK, Claim, ReadSchedule, KeepQuote, NoteAnswer, Fulfil, Record
<1>2. CASE Quote(w)
  BY <1>0, <1>2 DEF RestOK, Quote, QuoteOffered, QuoteAboveMaximum, ProductWithdrawn,
                    QuoteRefused, QuoteFails, Fault
<1>3. CASE Reserve(w)
  BY <1>0, <1>3 DEF RestOK, Reserve, Replay, CreateRow, TermsChanged, ReservationRefused,
                    ReservationFails, Fault
<1>4. CASE Charge(w) \/ Crash(w)
  BY <1>0, <1>4 DEF RestOK, Charge, Crash, Fault
<1> QED BY <1>1, <1>2, <1>3, <1>4 DEF Work

LEMMA RequestRest ==
  ASSUME RestOK, 0 \in Times, NEW r \in Requests,
         \/ Continue(r)
         \/ \E kind \in Changes : BeginChange(r, kind)
         \/ \E o \in Occurrence : BeginCancelRow(r, o)
  PROVE  RestOK'
<1>0. /\ MaxChanges \in Nat
      /\ Changes \subseteq {"PAUSE", "RESUME", "CANCEL", "ENABLE", "CANCEL_ROW"}
  BY ScheduleAssumption DEF ScheduleAssumption
<1>1. NoRequest \in RequestRecord
  BY DEF NoRequest, RequestRecord
<1>2. CASE Continue(r)
  BY <1>1, <1>2 DEF RestOK, RequestRecord, Continue, WriteChange, ClaimRow, CancelRow
<1>3. ASSUME NEW kind \in Changes, BeginChange(r, kind) PROVE RestOK'
  BY <1>0, <1>3 DEF RestOK, RequestRecord, BeginChange
<1>4. ASSUME NEW o \in Occurrence, BeginCancelRow(r, o) PROVE RestOK'
  BY <1>0, <1>4 DEF RestOK, RequestRecord, BeginCancelRow, Occurrence
<1> QED BY <1>2, <1>3, <1>4

LEMMA NextRest ==
  ASSUME RestOK, 0 \in Times, [Next]_vars
  PROVE  RestOK'
<1>0. MaxFaults \in Nat
  BY ScheduleAssumption DEF ScheduleAssumption
<1>1. CASE UNCHANGED vars
  BY <1>1 DEF vars, RestOK
<1>2. ASSUME NEW o \in Occurrence, Deliver(o) PROVE RestOK'
  BY <1>2 DEF RestOK, Deliver, PaymentSucceeded, PaymentFailed, IntentSettles, Settle
<1>3. ASSUME NEW q \in QuoteIds, QuoteExpires(q) PROVE RestOK'
  BY <1>0, <1>3 DEF RestOK, QuoteExpires, Fault
<1>4. CASE RequestDeletion \/ ProcessDeletion \/ ClaimExpires \/ RefusalChanges
           \/ Tick
  BY <1>4 DEF RestOK, RequestDeletion, ProcessDeletion, ClaimExpires, RefusalChanges, Tick
<1> QED BY <1>1, <1>2, <1>3, <1>4, WorkRest, RequestRest DEF Next

---------------------------------------------------------------------------
(* The rows: none disappears.                                              *)

RowsOK == tx \in [Occurrence -> Row]
RowsKept == RowsOK' /\ \A o \in Occurrence : tx[o] # NoRow => tx'[o] # NoRow

\* A run that is beyond its read has an occurrence.
AtOccurrence ==
  \A w \in Workers : run[w].at \notin {"idle", "read"} => run[w].occurrence \in Occurrence

LEMMA NoRowIsRow ==
  /\ NoRow \in Row
  /\ NoRow.status = "NONE" /\ NoRow.payment = "PENDING" /\ ~NoRow.paymentStarted
BY ScheduleAssumption DEF ScheduleAssumption, NoRow, Row

LEMMA OneRowMoves ==
  ASSUME RowsOK, NEW o, NEW row \in Row, tx' = [tx EXCEPT ![o] = row],
         o \in Occurrence /\ tx[o] # NoRow => row # NoRow
  PROVE  RowsKept
BY DEF RowsOK, RowsKept

LEMMA TransitionFacts ==
  ASSUME NEW row \in Row, NEW from, NEW k \in Nat,
         NEW payment \in {"PENDING", "CAPTURED", "FAILED"}, NEW status \in {"PENDING", "FAILED"}
  PROVE  LET next == Transition(row, from, k, payment, status)
         IN  next \in Row /\ (row # NoRow => next # NoRow)
BY NoRowIsRow DEF Transition, Row

LEMMA FulfilledFacts ==
  ASSUME NEW row \in Row, NEW next \in Fulfilled(row)
  PROVE  next \in Row /\ (row # NoRow => next # NoRow)
<1>1. CASE next = row
  BY <1>1
<1>2. CASE next = [row EXCEPT !.status = "DELIVERED"]
  BY <1>2, NoRowIsRow DEF Row
<1>3. CASE next = [row EXCEPT !.status = "FAILED", !.payment = "REFUND_PENDING"]
  BY <1>3, NoRowIsRow DEF Row
<1>4. CASE next = [row EXCEPT !.status = "PROCESSING"]
  BY <1>4, NoRowIsRow DEF Row
<1>5. CASE next = [row EXCEPT !.payment = "REFUNDED"]
  BY <1>5, NoRowIsRow DEF Row
<1> QED BY <1>1, <1>2, <1>3, <1>4, <1>5 DEF Fulfilled

LEMMA WorkRows ==
  ASSUME RowsOK, StripeOK, AtOccurrence, run \in [Workers -> RunRecord],
         NEW w \in Workers, Work(w) \/ Crash(w)
  PROVE  RowsKept
<1> DEFINE o == run[w].occurrence
<1>1. CASE UNCHANGED tx
  BY <1>1 DEF RowsOK, RowsKept
<1>2. CASE CreateRow(w)
  <2>1. Reserved(run[w].quote) \in Row /\ Reserved(run[w].quote) # NoRow
    BY NoRowIsRow DEF Reserved, Row, RunRecord
  <2> QED BY <1>2, <2>1, OneRowMoves DEF CreateRow
<1>3. CASE NoteAnswer(w)
  <2>1. o \in Occurrence
    BY <1>3 DEF AtOccurrence, NoteAnswer
  <2>2. tx[o] \in Row /\ Len(stripe[o].intents) \in Nat
    BY <2>1 DEF RowsOK, StripeOK, Account
  <2>3. \E payment \in {"PENDING", "CAPTURED", "FAILED"}, status \in {"PENDING", "FAILED"} :
          tx' = [tx EXCEPT ![o] = Transition(tx[o], {"PENDING", "FAILED"},
                                             Len(stripe[o].intents), payment, status)]
    BY <1>3 DEF NoteAnswer
  <2> QED BY <2>2, <2>3, TransitionFacts, OneRowMoves
<1>4. CASE Fulfil(w)
  <2>1. o \in Occurrence
    BY <1>4 DEF AtOccurrence, Fulfil
  <2>2. tx[o] \in Row
    BY <2>1 DEF RowsOK
  <2>3. \E row \in Fulfilled(tx[o]) \union {tx[o]} : tx' = [tx EXCEPT ![o] = row]
    BY <1>4 DEF Fulfil
  <2> QED BY <2>2, <2>3, FulfilledFacts, OneRowMoves
<1>5. CASE Claim(w) \/ ReadSchedule(w) \/ Quote(w) \/ KeepQuote(w) \/ Charge(w) \/ Record(w)
           \/ Crash(w)
  BY <1>1, <1>5 DEF Claim, ReadSchedule, Quote, KeepQuote, Charge, Record, Crash
<1>6. CASE Reserve(w)
  BY <1>1, <1>2, <1>6 DEF Reserve, Replay, TermsChanged, ReservationRefused, ReservationFails
<1> QED BY <1>3, <1>4, <1>5, <1>6 DEF Work

LEMMA RequestRows ==
  ASSUME RowsOK, NEW r \in Requests, ClaimRow(r) \/ CancelRow(r)
  PROVE  RowsKept
<1> DEFINE o == request[r].occurrence
<1>1. CASE UNCHANGED tx
  BY <1>1 DEF RowsOK, RowsKept
<1>2. CASE tx' = [tx EXCEPT ![o].paymentStarted = TRUE]
  BY <1>2, NoRowIsRow DEF RowsOK, RowsKept, Row
<1>3. CASE tx' = [tx EXCEPT ![o].payment = "FAILED", ![o].status = "FAILED", ![o].cancelled = TRUE]
  BY <1>3, NoRowIsRow DEF RowsOK, RowsKept, Row
<1> QED BY <1>1, <1>2, <1>3 DEF ClaimRow, CancelRow

LEMMA DeliverRows ==
  ASSUME RowsOK, StripeOK, NEW o \in Occurrence, Deliver(o)
  PROVE  RowsKept
<1>1. tx[o] \in Row /\ stripe[o] \in Account
  BY DEF RowsOK, StripeOK
<1>2. \A k \in DOMAIN stripe[o].intents : k \in Nat
  BY <1>1 DEF Account
<1>3. CASE PaymentSucceeded(o)
  <2>0. PICK k \in DOMAIN stripe[o].intents :
          \E row \in Fulfilled(Transition(tx[o], {"PENDING", "FAILED"}, k, "CAPTURED", "PENDING")) :
            tx' = [tx EXCEPT ![o] = row]
    BY <1>3 DEF PaymentSucceeded
  <2> DEFINE mid == Transition(tx[o], {"PENDING", "FAILED"}, k, "CAPTURED", "PENDING")
  <2>1. PICK row \in Fulfilled(mid) : tx' = [tx EXCEPT ![o] = row]
    BY <2>0
  <2>2. mid \in Row /\ (tx[o] # NoRow => mid # NoRow)
    BY <1>1, <1>2, TransitionFacts
  <2> HIDE DEF mid
  <2>3. row \in Row /\ (mid # NoRow => row # NoRow)
    BY <2>1, <2>2, FulfilledFacts DEF mid
  <2> QED BY <2>1, <2>2, <2>3, OneRowMoves
<1>4. CASE PaymentFailed(o)
  <2>1. PICK k \in DOMAIN stripe[o].intents :
          tx' = [tx EXCEPT ![o] = Transition(tx[o], {"PENDING"}, k, "FAILED", "FAILED")]
    BY <1>4 DEF PaymentFailed
  <2> QED BY <1>1, <1>2, <2>1, TransitionFacts, OneRowMoves
<1>5. CASE IntentSettles(o)
  BY <1>5 DEF IntentSettles, RowsOK, RowsKept
<1>6. CASE Settle(o)
  BY <1>1, <1>6, FulfilledFacts, OneRowMoves DEF Settle
<1> QED BY <1>3, <1>4, <1>5, <1>6 DEF Deliver

LEMMA NextRows ==
  ASSUME RowsOK, StripeOK, AtOccurrence, run \in [Workers -> RunRecord], [Next]_vars
  PROVE  RowsKept
<1>1. CASE UNCHANGED tx
  BY <1>1 DEF RowsOK, RowsKept
<1>2. CASE UNCHANGED vars
  BY <1>1, <1>2 DEF vars
<1>3. ASSUME NEW r \in Requests, Continue(r) PROVE RowsKept
  BY <1>1, <1>3, RequestRows DEF Continue, WriteChange
<1>4. ASSUME NEW r \in Requests, NEW kind, BeginChange(r, kind) PROVE RowsKept
  BY <1>1, <1>4 DEF BeginChange
<1>5. ASSUME NEW r \in Requests, NEW o, BeginCancelRow(r, o) PROVE RowsKept
  BY <1>1, <1>5 DEF BeginCancelRow
<1>6. ASSUME NEW q, QuoteExpires(q) PROVE RowsKept
  BY <1>1, <1>6 DEF QuoteExpires
<1>7. CASE RequestDeletion \/ ProcessDeletion \/ ClaimExpires \/ RefusalChanges
           \/ Tick
  BY <1>1, <1>7 DEF RequestDeletion, ProcessDeletion, ClaimExpires, RefusalChanges, Tick
<1> QED BY <1>2, <1>3, <1>4, <1>5, <1>6, <1>7, WorkRows, DeliverRows DEF Next

---------------------------------------------------------------------------
(* The rhythm of one process.                                              *)

\* One API process, and a customer who does not set the schedule anew.
SoleProcess ==
  /\ \E w : Workers = {w}
  /\ Changes \subseteq {"PAUSE", "CANCEL", "CANCEL_ROW"}

Multiple(n) == \E k \in Nat : n = k * Interval

LEMMA MultipleFacts ==
  /\ Multiple(Interval)
  /\ \A n \in Nat : Multiple(n) => n % Interval = 0
  /\ \A n \in Nat, j \in Nat : Multiple(n) => Multiple(n + Interval + j * Interval)
<1>0. Interval \in Nat \ {0}
  BY ScheduleAssumption DEF ScheduleAssumption
<1>1. Multiple(Interval)
  <2>1. Interval = 1 * Interval
    BY <1>0
  <2> QED BY <2>1 DEF Multiple
<1>2. ASSUME NEW n \in Nat, Multiple(n) PROVE n % Interval = 0
  <2>1. PICK k \in Nat : n = k * Interval
    BY <1>2 DEF Multiple
  <2> QED BY <1>0, <2>1
<1>3. ASSUME NEW n \in Nat, NEW j \in Nat, Multiple(n)
      PROVE  Multiple(n + Interval + j * Interval)
  <2>1. PICK k \in Nat : n = k * Interval
    BY <1>3 DEF Multiple
  <2>2. k + 1 + j \in Nat /\ n + Interval + j * Interval = (k + 1 + j) * Interval
    BY <1>0, <2>1
  <2> QED BY <2>2 DEF Multiple
<1> QED BY <1>1, <1>2, <1>3

LEMMA NextOccurrenceFacts ==
  ASSUME now \in Nat, NEW o \in Nat, Multiple(o), o <= now
  PROVE  /\ NextOccurrence(o) \in Nat /\ NextOccurrence(o) <= now + Interval
         /\ NextOccurrence(o) > 0 /\ Multiple(NextOccurrence(o))
<1>0. Interval \in Nat \ {0}
  BY ScheduleAssumption DEF ScheduleAssumption
<1>1. CASE now < o + Interval
  <2>1. NextOccurrence(o) = o + Interval + 0 * Interval
    BY <1>1 DEF NextOccurrence
  <2>2. NextOccurrence(o) = o + Interval
    BY <1>0, <2>1
  <2>3. Multiple(NextOccurrence(o))
    BY <2>1, MultipleFacts
  <2> QED BY <1>0, <2>2, <2>3
<1>2. CASE ~(now < o + Interval)
  <2> DEFINE x == now - o - Interval
             d == x \div Interval
  <2>1. x \in Nat
    BY <1>0, <1>2
  <2> HIDE DEF x
  <2>2. d \in Nat /\ d * Interval <= x
    BY <1>0, <2>1
  <2>3. NextOccurrence(o) = o + Interval + (1 + d) * Interval
    BY <1>2 DEF NextOccurrence, x
  <2> HIDE DEF d
  <2>4. (1 + d) * Interval = Interval + d * Interval /\ d * Interval \in Nat
    BY <1>0, <2>2
  <2>5. NextOccurrence(o) <= now + Interval /\ NextOccurrence(o) \in Nat /\ NextOccurrence(o) > 0
    BY <1>0, <1>2, <2>1, <2>2, <2>3, <2>4 DEF x
  <2>6. Multiple(NextOccurrence(o))
    BY <2>2, <2>3, MultipleFacts
  <2> QED BY <2>5, <2>6
<1> QED BY <1>1, <1>2

LEMMA TimesOfOne ==
  ASSUME SoleProcess
  PROVE  /\ Times = 0..(Horizon + 2 * Interval) /\ 0 \in Times
         /\ Interval \in Nat \ {0} /\ Horizon \in Nat
         /\ \A n \in Nat : n <= Horizon + Interval => n \in Times
<1>1. Interval \in Nat \ {0} /\ Horizon \in Nat
  BY ScheduleAssumption DEF ScheduleAssumption
<1>2. Cardinality(Workers) = 1
  BY FS_Singleton DEF SoleProcess
<1>3. Times = 0..(Horizon + 2 * Interval)
  BY <1>1, <1>2 DEF Times
<1> QED BY <1>1, <1>3

\* A run works on the occurrence the schedule is at, which is due.
RunFits(w) ==
  /\ run[w] \in RunRecord
  /\ run[w].at # "idle" => schedule.next <= now
  /\ run[w].at \notin {"idle", "read"} => run[w].occurrence = schedule.next
  /\ run[w].at \in {"charge", "note", "fulfil"} => tx[run[w].occurrence] # NoRow
  /\ run[w].at = "record" => run[w].outcome # "none"

ScheduleFits ==
  /\ now \in 0..Horizon
  /\ schedule \in Schedule
  /\ schedule.next > 0 /\ schedule.next <= now + Interval /\ Multiple(schedule.next)
  /\ schedule.occurrence \in {0, schedule.next}

ChargesFit ==
  /\ StripeOK
  /\ \A o \in Occurrence :
       /\ stripe[o].heard \subseteq DOMAIN stripe[o].intents
       /\ stripe[o].intents # <<>> => o <= now /\ Multiple(o)

RhythmInv ==
  /\ RestOK /\ RowsOK /\ ScheduleFits /\ ChargesFit
  /\ run \in [Workers -> RunRecord]
  /\ \A w \in Workers : RunFits(w)

LEMMA RunsAtOccurrence ==
  ASSUME SoleProcess, RhythmInv
  PROVE  AtOccurrence /\ schedule.next \in Occurrence
<1>1. schedule.next \in Occurrence
  BY DEF RhythmInv, ScheduleFits, Schedule, Occurrence
<1> QED BY <1>1 DEF AtOccurrence, RhythmInv, RunFits

LEMMA RhythmRows == ASSUME SoleProcess, RhythmInv, [Next]_vars PROVE RestOK' /\ RowsKept
BY RunsAtOccurrence, NextRest, NextRows, TimesOfOne DEF RhythmInv, ChargesFit

\* Where the only run may go while the clock and the occurrence stand still.
RunMay(w, l) ==
  /\ run[w].at \notin {"idle", "read"}
  /\ now' = now /\ schedule'.next = schedule.next
  /\ run' = [run EXCEPT ![w] = l]
  /\ l \in RunRecord /\ l.occurrence = run[w].occurrence
  /\ l.at \in {"charge", "note", "fulfil"} => tx'[run[w].occurrence] # NoRow
  /\ l.at = "record" => l.outcome # "none"

LEMMA RunMoves ==
  ASSUME SoleProcess, RhythmInv, NEW w \in Workers, NEW l, RunMay(w, l)
  PROVE  run' \in [Workers -> RunRecord] /\ \A v \in Workers : RunFits(v)'
<1>1. /\ run \in [Workers -> RunRecord] /\ schedule.next <= now
      /\ run[w].occurrence = schedule.next
  BY DEF RhythmInv, RunFits, RunMay
<1>2. run' \in [Workers -> RunRecord] /\ run'[w] = l
  BY <1>1 DEF RunMay
<1>3. RunFits(w)'
  BY <1>1, <1>2 DEF RunFits, RunMay
<1>4. \A v \in Workers : v = w
  BY DEF SoleProcess
<1> QED BY <1>2, <1>3, <1>4

LEMMA RunGoes ==
  ASSUME SoleProcess, RhythmInv, NEW w \in Workers, NEW at \in RunState \ {"record"},
         run[w].at \notin {"idle", "read"}, now' = now, schedule'.next = schedule.next,
         run' = [run EXCEPT ![w].at = at],
         at \in {"charge", "note", "fulfil"} => tx'[run[w].occurrence] # NoRow
  PROVE  run' \in [Workers -> RunRecord] /\ \A v \in Workers : RunFits(v)'
<1> DEFINE l == [run[w] EXCEPT !.at = at]
<1>1. run \in [Workers -> RunRecord]
  BY DEF RhythmInv
<1>2. l \in RunRecord /\ l.at = at /\ l.occurrence = run[w].occurrence
  BY <1>1 DEF RunRecord
<1>3. run' = [run EXCEPT ![w] = l]
  OBVIOUS
<1> QED BY <1>2, <1>3, RunMoves DEF RunMay

LEMMA RunFinishes ==
  ASSUME SoleProcess, RhythmInv, NEW w \in Workers, NEW outcome \in Outcome \ {"none"},
         run[w].at \notin {"idle", "read"}, now' = now, schedule'.next = schedule.next,
         run' = [run EXCEPT ![w].at = "record", ![w].outcome = outcome]
  PROVE  run' \in [Workers -> RunRecord] /\ \A v \in Workers : RunFits(v)'
<1> DEFINE l == [run[w] EXCEPT !.at = "record", !.outcome = outcome]
<1>1. run \in [Workers -> RunRecord]
  BY DEF RhythmInv
<1>2. l \in RunRecord /\ l.at = "record" /\ l.occurrence = run[w].occurrence
      /\ l.outcome = outcome
  BY <1>1 DEF RunRecord, RunState
<1>3. run' = [run EXCEPT ![w] = l]
  OBVIOUS
<1> QED BY <1>2, <1>3, RunMoves DEF RunMay

LEMMA RunQuotes ==
  ASSUME SoleProcess, RhythmInv, NEW w \in Workers, NEW q \in 0..MaxQuotes,
         run[w].at \notin {"idle", "read"}, now' = now, schedule'.next = schedule.next,
         run' = [run EXCEPT ![w].at = "keep", ![w].quote = q]
  PROVE  run' \in [Workers -> RunRecord] /\ \A v \in Workers : RunFits(v)'
<1> DEFINE l == [run[w] EXCEPT !.at = "keep", !.quote = q]
<1>1. run \in [Workers -> RunRecord]
  BY DEF RhythmInv
<1>2. l \in RunRecord /\ l.at = "keep" /\ l.occurrence = run[w].occurrence
  BY <1>1 DEF RunRecord, RunState
<1>3. run' = [run EXCEPT ![w] = l]
  OBVIOUS
<1> QED BY <1>2, <1>3, RunMoves DEF RunMay

\* A run that ends, or one whose first step is the read.
LEMMA IdleIsRunRecord == ASSUME SoleProcess PROVE Idle \in RunRecord /\ Idle.at = "idle"
BY TimesOfOne, ScheduleAssumption DEF ScheduleAssumption, Idle, RunRecord, RunState, Outcome

LEMMA RunEnds ==
  ASSUME SoleProcess, RhythmInv, NEW w \in Workers, run' = [run EXCEPT ![w] = Idle]
  PROVE  run' \in [Workers -> RunRecord] /\ \A v \in Workers : RunFits(v)'
<1>1. \A v \in Workers : v = w
  BY DEF SoleProcess
<1>2. run' \in [Workers -> RunRecord] /\ run'[w] = Idle
  BY IdleIsRunRecord DEF RhythmInv
<1>3. RunFits(w)'
  BY <1>2, IdleIsRunRecord DEF RunFits
<1> QED BY <1>1, <1>2, <1>3

LEMMA RunsStay ==
  ASSUME RhythmInv, run' = run, RowsKept, AtOccurrence,
         schedule'.next = schedule.next, now' = now
  PROVE  run' \in [Workers -> RunRecord] /\ \A v \in Workers : RunFits(v)'
BY DEF RhythmInv, RunFits, RowsKept, AtOccurrence

LEMMA ConcludesFacts == ASSUME NEW row PROVE Concludes(row) \in {"complete", "failed", "pending"}
BY DEF Concludes

LEMMA ScheduleStays ==
  ASSUME ScheduleFits, UNCHANGED now, schedule' \in Schedule, schedule'.next = schedule.next,
         schedule'.occurrence \in {0, schedule.next}
  PROVE  ScheduleFits'
BY DEF ScheduleFits, Multiple

\* What a worker does to the schedule and to its run.
LEMMA WorkInRhythm ==
  ASSUME SoleProcess, RhythmInv, NEW w \in Workers, Work(w) \/ Crash(w), RowsKept
  PROVE  /\ ScheduleFits' /\ run' \in [Workers -> RunRecord]
         /\ \A v \in Workers : RunFits(v)'
<1>0. /\ run \in [Workers -> RunRecord] /\ RunFits(w) /\ ScheduleFits /\ AtOccurrence
      /\ schedule \in Schedule /\ run[w] \in RunRecord
      /\ schedule.next \in Occurrence /\ schedule.next \in Times
      /\ \A v \in Workers : v = w
  BY RunsAtOccurrence DEF RhythmInv, ScheduleFits, RunFits, SoleProcess, Schedule
<1> DEFINE Goal == /\ ScheduleFits' /\ run' \in [Workers -> RunRecord]
                   /\ \A v \in Workers : RunFits(v)'
<1>1. CASE Claim(w)
  <2>1. run[w].at = "idle" /\ schedule.next <= now
        /\ schedule' = [schedule EXCEPT !.claim = "fresh"]
        /\ run' = [run EXCEPT ![w].at = "read"] /\ now' = now
    BY <1>1 DEF Claim, Due, Goto
  <2>2. ScheduleFits' /\ schedule'.next = schedule.next
    BY <1>0, <2>1, ScheduleStays DEF Schedule, ScheduleFits
  <2>3. run' \in [Workers -> RunRecord] /\ run'[w] \in RunRecord /\ run'[w].at = "read"
    BY <1>0, <2>1 DEF RunRecord, RunState
  <2>4. RunFits(w)'
    BY <2>1, <2>2, <2>3 DEF RunFits
  <2> QED BY <1>0, <2>2, <2>3, <2>4
<1>2. CASE ReadSchedule(w)
  <2>1. UNCHANGED <<schedule, now>> /\ ScheduleFits' /\ run[w].at = "read"
    BY <1>0, <1>2 DEF ReadSchedule, ScheduleFits, Multiple
  <2>2. CASE run' = [run EXCEPT ![w] = Idle]
    BY <2>1, <2>2, RunEnds
  <2>3. CASE \E at \in {"quote", "reserve"}, o \in {schedule.next, schedule.occurrence} \ {0} :
               run' = [run EXCEPT ![w] = [Idle EXCEPT !.at = at, !.occurrence = o,
                                                      !.quote = schedule.quote]]
    <3>1. PICK at \in {"quote", "reserve"} :
            run' = [run EXCEPT ![w] = [Idle EXCEPT !.at = at, !.occurrence = schedule.next,
                                                   !.quote = schedule.quote]]
      BY <1>0, <2>3 DEF ScheduleFits
    <3> DEFINE l == [Idle EXCEPT !.at = at, !.occurrence = schedule.next,
                                 !.quote = schedule.quote]
    <3>2. l \in RunRecord /\ l.at = at /\ l.occurrence = schedule.next
      BY <1>0, IdleIsRunRecord DEF RunRecord, RunState, Schedule
    <3>3. run' \in [Workers -> RunRecord] /\ run'[w] = l
      BY <1>0, <3>1, <3>2
    <3>4. RunFits(w)'
      BY <1>0, <2>1, <3>2, <3>3 DEF RunFits
    <3> QED BY <1>0, <2>1, <3>3, <3>4
  <2>4. CASE schedule.status = "DELETED"
    BY <1>2, <2>2, <2>4 DEF ReadSchedule
  <2>5. CASE schedule.status # "DELETED"
    <3> DEFINE at == IF schedule.quote = 0 THEN "quote" ELSE "reserve"
               o == IF schedule.occurrence # 0 THEN schedule.occurrence ELSE schedule.next
    <3>1. run' = [run EXCEPT ![w] = [Idle EXCEPT !.at = at, !.occurrence = o,
                                                 !.quote = schedule.quote]]
      BY <1>2, <2>5 DEF ReadSchedule
    <3>2. at \in {"quote", "reserve"} /\ o \in {schedule.next, schedule.occurrence} \ {0}
      BY <1>0 DEF ScheduleFits, Occurrence
    <3> HIDE DEF at, o
    <3> QED BY <2>3, <3>1, <3>2
  <2> QED BY <2>4, <2>5
<1>3. CASE Quote(w)
  <2>1. UNCHANGED <<schedule, now>> /\ ScheduleFits' /\ run[w].at = "quote"
    BY <1>0, <1>3 DEF Quote, ScheduleFits, Multiple
  <2>2. \/ \E q \in QuoteIds : run' = [run EXCEPT ![w].at = "keep", ![w].quote = q]
        \/ \E outcome \in {"raise", "stop", "retry"} :
             run' = [run EXCEPT ![w].at = "record", ![w].outcome = outcome]
    BY <1>3 DEF Quote, QuoteOffered, QuoteAboveMaximum, ProductWithdrawn, QuoteRefused,
                QuoteFails, Finish
  <2>3. MaxQuotes \in Nat /\ QuoteIds \subseteq 0..MaxQuotes
    BY ScheduleAssumption DEF ScheduleAssumption, QuoteIds
  <2>4. CASE \E q \in QuoteIds : run' = [run EXCEPT ![w].at = "keep", ![w].quote = q]
    BY <2>1, <2>3, <2>4, RunQuotes
  <2>5. CASE \E outcome \in {"raise", "stop", "retry"} :
               run' = [run EXCEPT ![w].at = "record", ![w].outcome = outcome]
    BY <2>1, <2>5, RunFinishes DEF Outcome
  <2> QED BY <2>1, <2>2, <2>4, <2>5
<1>4. CASE KeepQuote(w)
  <2>1. run[w].at = "keep" /\ now' = now
    BY <1>4 DEF KeepQuote
  <2>2. CASE run' = [run EXCEPT ![w] = Idle] /\ UNCHANGED schedule
    BY <1>0, <2>1, <2>2, RunEnds DEF ScheduleFits, Multiple
  <2>3. CASE /\ schedule' = [schedule EXCEPT !.quote = run[w].quote,
                                             !.occurrence = run[w].occurrence]
             /\ run' = [run EXCEPT ![w].at = "reserve"]
    <3>1. run[w].occurrence = schedule.next
      BY <1>0, <2>1 DEF RunFits
    <3>2. ScheduleFits' /\ schedule'.next = schedule.next
      BY <1>0, <2>1, <2>3, <3>1, ScheduleStays DEF Schedule, RunRecord
    <3> QED BY <2>1, <2>3, <3>2, RunGoes DEF RunState
  <2> QED BY <1>4, <2>2, <2>3 DEF KeepQuote, Goto
<1>5. CASE Reserve(w)
  <2>1. UNCHANGED <<schedule, now>> /\ ScheduleFits' /\ run[w].at = "reserve"
        /\ run[w].occurrence = schedule.next
    BY <1>0, <1>5 DEF Reserve, ScheduleFits, Multiple, RunFits
  <2>2. CASE \E outcome \in Outcome \ {"none"} :
               run' = [run EXCEPT ![w].at = "record", ![w].outcome = outcome]
    BY <2>1, <2>2, RunFinishes
  <2>3. CASE run' = [run EXCEPT ![w].at = "charge"] /\ tx'[run[w].occurrence] # NoRow
    BY <2>1, <2>3, RunGoes DEF RunState
  <2>4. CASE Replay(w, tx[run[w].occurrence])
    BY <2>2, <2>3, <2>4, ConcludesFacts DEF Replay, Finish, Goto, Outcome
  <2>5. CASE CreateRow(w)
    <3>1. Reserved(run[w].quote) # NoRow
      BY NoRowIsRow DEF Reserved, NoRow
    <3>2. tx'[run[w].occurrence] = Reserved(run[w].quote)
      BY <1>0, <2>1, <2>5 DEF CreateRow, RhythmInv, RowsOK
    <3> QED BY <2>3, <2>5, <3>1, <3>2 DEF CreateRow, Goto
  <2>6. CASE TermsChanged(w) \/ ReservationRefused(w) \/ ReservationFails(w)
    BY <2>2, <2>6 DEF TermsChanged, ReservationRefused, ReservationFails, Finish, Outcome
  <2> QED BY <1>5, <2>4, <2>5, <2>6 DEF Reserve
<1>6. CASE Charge(w)
  <2>1. UNCHANGED <<schedule, now, tx>> /\ ScheduleFits' /\ run[w].at = "charge"
        /\ tx[run[w].occurrence] # NoRow
    BY <1>0, <1>6 DEF Charge, ScheduleFits, Multiple, RunFits
  <2>2. \/ run' = [run EXCEPT ![w].at = "note"]
        \/ run' = [run EXCEPT ![w].at = "record", ![w].outcome = "retry"]
    BY <1>6 DEF Charge, Goto, Finish
  <2> QED BY <2>1, <2>2, RunGoes, RunFinishes DEF RunState, Outcome, RowsKept
<1>7. CASE NoteAnswer(w)
  <2>1. UNCHANGED <<schedule, now>> /\ ScheduleFits' /\ run[w].at = "note"
        /\ tx[run[w].occurrence] # NoRow /\ run[w].occurrence \in Occurrence
    BY <1>0, <1>7 DEF NoteAnswer, ScheduleFits, Multiple, RunFits
  <2>2. \/ run' = [run EXCEPT ![w].at = "fulfil"]
        \/ \E outcome \in {"complete", "failed", "pending"} :
             run' = [run EXCEPT ![w].at = "record", ![w].outcome = outcome]
    BY <1>7, ConcludesFacts DEF NoteAnswer, Goto, Finish
  <2> QED BY <2>1, <2>2, RunGoes, RunFinishes DEF RunState, Outcome, RowsKept
<1>8. CASE Fulfil(w)
  <2>1. UNCHANGED <<schedule, now>> /\ ScheduleFits' /\ run[w].at = "fulfil"
    BY <1>0, <1>8 DEF Fulfil, ScheduleFits, Multiple
  <2>2. \E outcome \in {"complete", "failed", "pending", "retry"} :
             run' = [run EXCEPT ![w].at = "record", ![w].outcome = outcome]
    BY <1>8, ConcludesFacts DEF Fulfil, Finish
  <2> QED BY <2>1, <2>2, RunGoes, RunFinishes DEF RunState, Outcome, RowsKept
<1>9. CASE Record(w)
  <2>1. now' = now /\ run[w].at = "record" /\ run' = [run EXCEPT ![w] = Idle]
        /\ run[w].occurrence = schedule.next /\ schedule.next <= now
    BY <1>0, <1>9 DEF Record, RunFits
  <2>2. ASSUME schedule' = schedule PROVE ScheduleFits'
    BY <1>0, <2>1, <2>2 DEF ScheduleFits, Multiple
  <2>3. ASSUME \/ schedule' = [schedule EXCEPT !.status = "PAUSED", !.claim = "none"]
               \/ schedule' = [schedule EXCEPT !.claim = "none"]
        PROVE  ScheduleFits'
    BY <1>0, <2>1, <2>3, ScheduleStays DEF Schedule, ScheduleFits
  <2>4. ASSUME schedule' = [schedule EXCEPT !.next = NextOccurrence(schedule.next),
                                            !.occurrence = 0, !.quote = 0, !.claim = "none"]
        PROVE  ScheduleFits'
    <3> DEFINE n == NextOccurrence(schedule.next)
    <3>1. /\ n \in Nat /\ n <= now + Interval /\ n > 0 /\ Multiple(n)
      BY <1>0, <2>1, NextOccurrenceFacts, TimesOfOne DEF ScheduleFits, Schedule
    <3>0. schedule' = [schedule EXCEPT !.next = n, !.occurrence = 0, !.quote = 0,
                                       !.claim = "none"]
      BY <2>4
    <3> HIDE DEF n
    <3>2. n \in Times /\ 0 \in Times /\ MaxQuotes \in Nat
      BY <1>0, <3>1, TimesOfOne, ScheduleAssumption DEF ScheduleAssumption, ScheduleFits
    <3>3. /\ schedule'.status = schedule.status
          /\ schedule'.next = n /\ schedule'.occurrence = 0
          /\ schedule'.quote = 0 /\ schedule'.claim = "none"
      BY <1>0, <3>0 DEF Schedule
    <3>4. schedule' = [status |-> schedule.status, next |-> n, occurrence |-> 0, quote |-> 0,
                       claim |-> "none"]
      BY <1>0, <3>0 DEF Schedule
    <3>5. schedule' \in Schedule
      BY <1>0, <3>2, <3>4 DEF Schedule
    <3> QED BY <1>0, <2>1, <3>1, <3>3, <3>5 DEF ScheduleFits, Multiple
  <2>5. ScheduleFits'
    <3>1. run[w].outcome \in Outcome
      BY <1>0 DEF RunRecord
    <3>2. schedule.status # "DELETED" => schedule' = Concluded(run[w].outcome, schedule.next)
      BY <1>9, <2>1 DEF Record
    <3>3. run[w].outcome # "none"
      BY <1>0, <2>1 DEF RunFits
    <3> QED BY <1>9, <2>1, <2>2, <2>3, <2>4, <3>1, <3>2, <3>3 DEF Record, Concluded, Outcome
  <2> QED BY <2>1, <2>5, RunEnds
<1>10. CASE Crash(w)
  BY <1>0, <1>10, RunEnds DEF Crash, ScheduleFits, Multiple
<1> QED BY <1>1, <1>2, <1>3, <1>4, <1>5, <1>6, <1>7, <1>8, <1>9, <1>10 DEF Work

\* What the others do: the occurrence the schedule is at stays, or is cleared.
LEMMA OthersInRhythm ==
  ASSUME SoleProcess, RhythmInv, [Next]_vars, RowsKept,
         \A w \in Workers : ~Work(w) /\ ~Crash(w)
  PROVE  /\ ScheduleFits' /\ run' \in [Workers -> RunRecord]
         /\ \A v \in Workers : RunFits(v)'
<1>0. /\ ScheduleFits /\ AtOccurrence /\ schedule \in Schedule
      /\ run \in [Workers -> RunRecord]
  BY RunsAtOccurrence DEF RhythmInv, ScheduleFits
<1>1. ASSUME UNCHANGED <<now, run>>, schedule' \in Schedule,
             schedule'.next = schedule.next, schedule'.occurrence \in {0, schedule.next}
      PROVE  /\ ScheduleFits' /\ run' \in [Workers -> RunRecord]
             /\ \A v \in Workers : RunFits(v)'
  BY <1>0, <1>1, RunsStay, ScheduleStays
<1>2. CASE UNCHANGED <<now, run, schedule>>
  BY <1>0, <1>1, <1>2 DEF ScheduleFits
<1>3. CASE UNCHANGED vars
  BY <1>2, <1>3 DEF vars
<1>4. ASSUME NEW r \in Requests, Continue(r)
      PROVE  /\ ScheduleFits' /\ run' \in [Workers -> RunRecord]
             /\ \A v \in Workers : RunFits(v)'
  <2>1. CASE ClaimRow(r) \/ CancelRow(r)
    BY <1>2, <2>1 DEF ClaimRow, CancelRow
  <2>2. CASE WriteChange(r)
    <3>1. request[r].at \in {"PAUSE", "CANCEL"}
      BY <2>2 DEF WriteChange, SoleProcess
    <3>2. UNCHANGED <<now, run>>
      BY <2>2 DEF WriteChange
    <3>3. \/ UNCHANGED schedule
          \/ schedule' = [schedule EXCEPT !.status = "PAUSED", !.claim = "none"]
          \/ schedule' = [schedule EXCEPT !.claim = "none", !.occurrence = 0, !.quote = 0,
                                          !.status = "CANCELLED"]
      BY <1>0, <2>2, <3>1 DEF WriteChange, Changed, Schedule
    <3>4. 0 \in Times /\ 0 \in 0..MaxQuotes
      BY TimesOfOne, ScheduleAssumption DEF ScheduleAssumption
    <3>5. /\ schedule' \in Schedule /\ schedule'.next = schedule.next
          /\ schedule'.occurrence \in {0, schedule.next}
      BY <1>0, <3>3, <3>4 DEF Schedule, ScheduleFits
    <3> QED BY <1>1, <3>2, <3>5
  <2> QED BY <1>4, <2>1, <2>2 DEF Continue
<1>5. ASSUME NEW r \in Requests,
             \/ \E kind \in Changes : BeginChange(r, kind)
             \/ \E o \in Occurrence : BeginCancelRow(r, o)
      PROVE  UNCHANGED <<now, run, schedule>>
  BY <1>5 DEF BeginChange, BeginCancelRow
<1>6. ASSUME NEW o \in Occurrence, Deliver(o) PROVE UNCHANGED <<now, run, schedule>>
  BY <1>6 DEF Deliver, PaymentSucceeded, PaymentFailed, IntentSettles, Settle
<1>7. ASSUME NEW q \in QuoteIds, QuoteExpires(q) PROVE UNCHANGED <<now, run, schedule>>
  BY <1>7 DEF QuoteExpires
<1>8. CASE RequestDeletion \/ ProcessDeletion \/ ClaimExpires \/ RefusalChanges
  <2>1. /\ UNCHANGED <<now, run>>
        /\ \/ schedule' = [schedule EXCEPT !.status = "CANCELLED"]
           \/ schedule' = [schedule EXCEPT !.status = "DELETED"]
           \/ schedule' = [schedule EXCEPT !.claim = "stale"]
           \/ UNCHANGED schedule
    BY <1>8 DEF RequestDeletion, ProcessDeletion, ClaimExpires, RefusalChanges
  <2>2. /\ schedule' \in Schedule /\ schedule'.next = schedule.next
        /\ schedule'.occurrence \in {0, schedule.next}
    BY <1>0, <2>1 DEF Schedule, ScheduleFits
  <2> QED BY <1>1, <2>1, <2>2
<1>9. CASE Tick
  <2>1. /\ now < Horizon /\ now' = now + 1 /\ UNCHANGED run
        /\ \A v \in Workers : run[v].at = "idle"
        /\ \E claim \in {"none", "stale"} : schedule' = [schedule EXCEPT !.claim = claim]
    BY <1>9 DEF Tick
  <2>2. /\ schedule' \in Schedule /\ schedule'.next = schedule.next
        /\ schedule'.occurrence = schedule.occurrence
    BY <1>0, <2>1 DEF Schedule
  <2>3. ScheduleFits'
    <3>1. now' \in 0..Horizon /\ schedule'.next <= now' + Interval
      BY <1>0, <2>1, <2>2, TimesOfOne DEF ScheduleFits, Schedule
    <3> QED BY <1>0, <2>2, <3>1 DEF ScheduleFits, Multiple
  <2>4. \A v \in Workers : RunFits(v)'
    BY <1>0, <2>1 DEF RunFits
  <2> QED BY <1>0, <2>1, <2>3, <2>4
<1> QED BY <1>2, <1>3, <1>4, <1>5, <1>6, <1>7, <1>8, <1>9 DEF Next

---------------------------------------------------------------------------
(* The card is asked only for the occurrence that is due.                  *)

AccountDue(o, s) ==
  /\ s \in Account /\ s.heard \subseteq DOMAIN s.intents
  /\ s.intents # <<>> => o <= now /\ Multiple(o)

LEMMA OneAccountFits ==
  ASSUME ChargesFit, UNCHANGED now, NEW o \in Occurrence, NEW s, AccountDue(o, s),
         stripe' = [stripe EXCEPT ![o] = s]
  PROVE  ChargesFit'
<1>1. stripe' \in [Occurrence -> Account]
  BY DEF ChargesFit, StripeOK, AccountDue
<1>2. \A p \in Occurrence : stripe'[p] = IF p = o THEN s ELSE stripe[p]
  BY DEF ChargesFit, StripeOK
<1>3. ASSUME NEW p \in Occurrence
      PROVE  /\ stripe'[p].heard \subseteq DOMAIN stripe'[p].intents
             /\ stripe'[p].intents # <<>> => p <= now' /\ Multiple(p)
  BY <1>2 DEF ChargesFit, AccountDue
<1> QED BY <1>1, <1>3 DEF ChargesFit, StripeOK, Multiple

LEMMA AccountFits ==
  ASSUME ChargesFit, NEW o \in Occurrence
  PROVE  AccountDue(o, stripe[o])
BY DEF ChargesFit, StripeOK, AccountDue

LEMMA ChargeInRhythm ==
  ASSUME SoleProcess, RhythmInv, NEW w \in Workers, Charge(w)
  PROVE  ChargesFit'
<1> DEFINE o == run[w].occurrence
<1>1. /\ o = schedule.next /\ o \in Occurrence /\ o <= now /\ Multiple(o)
      /\ UNCHANGED now /\ ChargesFit
  BY RunsAtOccurrence DEF Charge, RhythmInv, RunFits, ScheduleFits
<1>2. CASE UNCHANGED stripe
  BY <1>1, <1>2 DEF ChargesFit, StripeOK, Multiple
<1>3. ASSUME NEW s \in Asked(stripe[o]), stripe' = [stripe EXCEPT ![o] = s] PROVE ChargesFit'
  <2>1. AccountDue(o, stripe[o]) /\ stripe[o] \in Account
    BY <1>1, AccountFits DEF AccountDue
  <2>2. s \in Account /\ s.heard = stripe[o].heard /\ Len(s.intents) >= Len(stripe[o].intents)
    BY <2>1, AskedFacts
  <2>3. DOMAIN stripe[o].intents \subseteq DOMAIN s.intents
    BY <2>1, <2>2 DEF Account
  <2>4. AccountDue(o, s)
    BY <1>1, <2>1, <2>2, <2>3 DEF AccountDue
  <2> HIDE DEF o
  <2> QED BY <1>1, <1>3, <2>4, OneAccountFits
<1> QED BY <1>2, <1>3 DEF Charge

LEMMA DeliverInRhythm ==
  ASSUME ChargesFit, NEW o \in Occurrence, PaymentFailed(o) \/ IntentSettles(o)
  PROVE  ChargesFit'
<1>1. AccountDue(o, stripe[o]) /\ stripe[o] \in Account /\ UNCHANGED now
  BY AccountFits DEF AccountDue, PaymentFailed, IntentSettles
<1>2. CASE PaymentFailed(o)
  <2>1. PICK k \in DOMAIN stripe[o].intents : stripe' = [stripe EXCEPT ![o].heard = @ \union {k}]
    BY <1>2 DEF PaymentFailed
  <2> DEFINE s == [stripe[o] EXCEPT !.heard = @ \union {k}]
  <2>2. AccountDue(o, s)
    BY <1>1 DEF AccountDue, Account
  <2>3. stripe' = [stripe EXCEPT ![o] = s]
    BY <2>1
  <2> QED BY <1>1, <2>2, <2>3, OneAccountFits
<1>3. CASE IntentSettles(o)
  <2>1. PICK k \in DOMAIN stripe[o].intents, a \in {"succeeded", "failed"} :
          stripe' = [stripe EXCEPT ![o].intents[k] = a]
    BY <1>3 DEF IntentSettles
  <2> DEFINE s == [stripe[o] EXCEPT !.intents[k] = a]
  <2>2. s \in Account /\ s.heard = stripe[o].heard /\ Len(s.intents) = Len(stripe[o].intents)
    BY <1>1, SettledFacts
  <2>3. stripe' = [stripe EXCEPT ![o] = s]
    BY <2>1
  <2> HIDE DEF s
  <2>4. DOMAIN s.intents = DOMAIN stripe[o].intents
    BY <1>1, <2>2 DEF Account
  <2>5. stripe[o].intents # <<>>
    BY <2>1
  <2>6. AccountDue(o, s)
    BY <1>1, <2>2, <2>4, <2>5 DEF AccountDue
  <2> QED BY <1>1, <2>3, <2>6, OneAccountFits
<1> QED BY <1>2, <1>3

LEMMA ClockRuns ==
  ASSUME [Next]_vars
  PROVE  UNCHANGED now \/ (Tick /\ now' = now + 1)
<1>1. CASE UNCHANGED vars
  BY <1>1 DEF vars
<1>2. ASSUME NEW w \in Workers, Work(w) \/ Crash(w) PROVE UNCHANGED now
  BY <1>2 DEF Work, Crash, Claim, ReadSchedule, Quote, KeepQuote, Reserve, Charge, NoteAnswer,
              Fulfil, Record
<1>3. ASSUME NEW r \in Requests, Continue(r) PROVE UNCHANGED now
  BY <1>3 DEF Continue, WriteChange, ClaimRow, CancelRow
<1>4. ASSUME NEW r \in Requests, NEW kind \in Changes, BeginChange(r, kind) PROVE UNCHANGED now
  BY <1>4 DEF BeginChange
<1>5. ASSUME NEW r \in Requests, NEW o \in Occurrence, BeginCancelRow(r, o)
      PROVE  UNCHANGED now
  BY <1>5 DEF BeginCancelRow
<1>6. ASSUME NEW o \in Occurrence, Deliver(o) PROVE UNCHANGED now
  BY <1>6 DEF Deliver, PaymentSucceeded, PaymentFailed, IntentSettles, Settle
<1>7. ASSUME NEW q \in QuoteIds, QuoteExpires(q) PROVE UNCHANGED now
  BY <1>7 DEF QuoteExpires
<1>8. CASE RequestDeletion \/ ProcessDeletion \/ ClaimExpires \/ RefusalChanges
  BY <1>8 DEF RequestDeletion, ProcessDeletion, ClaimExpires, RefusalChanges
<1>9. CASE Tick
  BY <1>9 DEF Tick
<1> QED BY <1>1, <1>2, <1>3, <1>4, <1>5, <1>6, <1>7, <1>8, <1>9 DEF Next

LEMMA TickInRhythm == ASSUME RhythmInv, Tick PROVE ChargesFit'
<1>1. now' = now + 1 /\ now \in Nat /\ ChargesFit
  BY DEF Tick, RhythmInv, ScheduleFits
<1>2. ASSUME UNCHANGED stripe PROVE ChargesFit'
  BY <1>1, <1>2 DEF ChargesFit, StripeOK, Multiple, Occurrence, Times
<1>3. ASSUME stripe' = [o \in Occurrence |-> [stripe[o] EXCEPT !.answer = "none"]]
      PROVE  ChargesFit'
  <2>1. \A o \in Occurrence : /\ stripe'[o] \in Account
                              /\ stripe'[o].intents = stripe[o].intents
                              /\ stripe'[o].heard = stripe[o].heard
    BY <1>1, <1>3 DEF ChargesFit, StripeOK, Account
  <2>2. stripe' \in [Occurrence -> Account]
    BY <1>3, <2>1
  <2> QED BY <1>1, <2>1, <2>2 DEF ChargesFit, StripeOK, Multiple, Occurrence, Times
<1> QED BY <1>2, <1>3 DEF Tick

LEMMA NextInRhythm == SoleProcess /\ RhythmInv /\ [Next]_vars => RhythmInv'
<1> SUFFICES ASSUME SoleProcess, RhythmInv, [Next]_vars PROVE RhythmInv'
  OBVIOUS
<1>1. RestOK' /\ RowsKept
  BY RhythmRows
<1>2. /\ ScheduleFits' /\ run' \in [Workers -> RunRecord]
      /\ \A v \in Workers : RunFits(v)'
  <2>1. CASE \E w \in Workers : Work(w) \/ Crash(w)
    BY <1>1, <2>1, WorkInRhythm
  <2>2. CASE \A w \in Workers : ~Work(w) /\ ~Crash(w)
    BY <1>1, <2>2, OthersInRhythm
  <2> QED BY <2>1, <2>2
<1>3. ChargesFit'
  <2>1. CASE Tick
    BY <2>1, TickInRhythm
  <2>2. CASE UNCHANGED <<now, stripe>>
    BY <2>2 DEF RhythmInv, ChargesFit, StripeOK, Multiple
  <2> QED BY <2>1, <2>2, ClockRuns, OthersLeaveStripe, ChargeInRhythm, DeliverInRhythm
           DEF RhythmInv
<1> QED BY <1>1, <1>2, <1>3 DEF RhythmInv, RowsKept

LEMMA InitInRhythm == SoleProcess /\ Init => RhythmInv
<1> SUFFICES ASSUME SoleProcess, Init PROVE RhythmInv
  OBVIOUS
<1>1. RestOK
  BY TimesOfOne, InitRest
<1>2. RowsOK
  BY NoRowIsRow DEF Init, RowsOK
<1>3. ScheduleFits
  BY TimesOfOne, MultipleFacts, ScheduleAssumption
     DEF ScheduleAssumption, Init, ScheduleFits, Schedule
<1>4. ChargesFit
  BY UnaskedIsAccount DEF Init, ChargesFit, StripeOK, Unasked
<1>5. run \in [Workers -> RunRecord] /\ \A w \in Workers : RunFits(w)
  BY IdleIsRunRecord DEF Init, RunFits
<1> QED BY <1>1, <1>2, <1>3, <1>4, <1>5 DEF RhythmInv

\* One API process asks the card for an occurrence only when it is due, and the
\* occurrences it asks for are whole intervals apart: for every interval and
\* horizon, with crashes at every step, lost answers, keys that Stripe forgets,
\* pauses, cancellations and account deletion.  With a second process, or a
\* customer who resumes the schedule, the rhythm is set anew.
THEOREM SoleProcessKeepsTheRhythm ==
  ASSUME SoleProcess
  PROVE  Spec => []RhythmIsKept
<1>1. RhythmInv /\ [Next]_vars => RhythmInv'
  BY NextInRhythm
<1>2. RhythmInv => RhythmIsKept
  <2> SUFFICES ASSUME RhythmInv PROVE RhythmIsKept
    OBVIOUS
  <2>1. ChargesKeepTheRhythm
    BY MultipleFacts DEF RhythmInv, ChargesFit, ChargesKeepTheRhythm, Occurrence, Times
  <2>2. /\ \A o \in Occurrence :
             /\ stripe[o].answer \in IntentState \union {"none"}
             /\ stripe[o].intents \in Seq(IntentState)
             /\ stripe[o].heard \subseteq DOMAIN stripe[o].intents
    BY DEF RhythmInv, ChargesFit, StripeOK, Account
  <2>3. \A w \in Workers : run[w].at \in {"charge", "note", "fulfil"} =>
          tx[run[w].occurrence] # NoRow
    BY DEF RhythmInv, RunFits
  <2>4. TypeOK
    BY <2>2, <2>3 DEF RhythmInv, RestOK, RowsOK, ScheduleFits, RunRecord, RequestRecord, TypeOK
  <2> QED BY <2>1, <2>4 DEF RhythmIsKept
<1> QED BY <1>1, <1>2, InitInRhythm, PTL DEF Spec

---------------------------------------------------------------------------
(* The money of an erased account.                                         *)

\* Stripe answers a payment at once and remembers the answer, and no customer
\* cancels a recharge that is being charged.
AnsweredAtOnce == ~StripeForgets /\ "processing" \notin Answers /\ "CANCEL_ROW" \notin Changes

\* Records of runs and of rows, whatever they hold.
RunShape(l) ==
  l = [at |-> l.at, occurrence |-> l.occurrence, quote |-> l.quote, outcome |-> l.outcome]
RowShape(row) ==
  row = [quote |-> row.quote, status |-> row.status, payment |-> row.payment,
         intent |-> row.intent, paymentStarted |-> row.paymentStarted,
         cancelled |-> row.cancelled]

\* What Stripe keeps of an occurrence and what is on its row.
Answered(s) ==
  /\ s.answer = "none" => s.intents = <<>>
  /\ s.answer # "none" => s.answer \in {"succeeded", "failed"} /\ s.intents = <<s.answer>>

Agree(s, row) ==
  /\ Answered(s) /\ RowShape(row)
  /\ s.answer # "none" => row # NoRow
  /\ row.payment = "PENDING" => row = NoRow \/ row.status = "PENDING"
  /\ row.payment = "FAILED" => s.answer = "failed"
  /\ row.payment \in {"CAPTURED", "REFUND_PENDING", "REFUNDED"} => s.answer = "succeeded"
  /\ row.payment \in {"PENDING", "FAILED", "CAPTURED", "REFUND_PENDING", "REFUNDED"}

AllAgree ==
  /\ StripeOK /\ tx = [o \in Occurrence |-> tx[o]]
  /\ \A o \in Occurrence : Agree(stripe[o], tx[o])

\* A run that is about to charge, or has charged, has a row.
Charging(l) == l.at \in {"charge", "note", "fulfil"} /\ l.occurrence \in Occurrence

RunsInv ==
  /\ run = [w \in Workers |-> run[w]]
  /\ \A w \in Workers :
       RunShape(run[w]) /\ (Charging(run[w]) => tx[run[w].occurrence] # NoRow)

RequestsInv ==
  request \in [Requests -> [at : (Changes \ {"CANCEL_ROW"}) \union {"idle"}, occurrence : {0}]]

DeletedInv == customer = "DELETED" => \A o \in Occurrence : Settled(tx[o])

ErasureInv == AllAgree /\ RunsInv /\ RequestsInv /\ DeletedInv

\* A record and its parts.
PutStatus(row, status) == [row EXCEPT !.status = status]
PutPayment(row, payment) == [row EXCEPT !.payment = payment]
PutIntent(row, k) == [row EXCEPT !.intent = k]
PutQuote(row, q) == [row EXCEPT !.quote = q]

LEMMA RowPuts ==
  ASSUME NEW row, RowShape(row), NEW v
  PROVE  /\ RowShape(PutStatus(row, v)) /\ PutStatus(row, v).status = v
         /\ PutStatus(row, v).payment = row.payment
         /\ RowShape(PutPayment(row, v)) /\ PutPayment(row, v).payment = v
         /\ PutPayment(row, v).status = row.status
         /\ RowShape(PutIntent(row, v)) /\ PutIntent(row, v).status = row.status
         /\ PutIntent(row, v).payment = row.payment
         /\ RowShape(PutQuote(row, v)) /\ PutQuote(row, v).payment = row.payment
BY DEF RowShape, PutStatus, PutPayment, PutIntent, PutQuote

PutAt(l, at) == [l EXCEPT !.at = at]
PutOccurrence(l, o) == [l EXCEPT !.occurrence = o]
PutOutcome(l, outcome) == [l EXCEPT !.outcome = outcome]

LEMMA RunPuts ==
  ASSUME NEW l, RunShape(l), NEW v
  PROVE  /\ RunShape(PutAt(l, v)) /\ PutAt(l, v).at = v
         /\ PutAt(l, v).occurrence = l.occurrence
         /\ RunShape(PutOccurrence(l, v)) /\ PutOccurrence(l, v).at = l.at
         /\ RunShape(PutOutcome(l, v)) /\ PutOutcome(l, v).at = l.at
         /\ RunShape(PutQuote(l, v)) /\ PutQuote(l, v).at = l.at
BY DEF RunShape, PutAt, PutOccurrence, PutOutcome, PutQuote

\* The row of an occurrence moves with what Stripe keeps of it.
LEMMA TransitionAgrees ==
  ASSUME NEW s, NEW row, Agree(s, row), s.answer # "none", NEW from, NEW k,
         NEW payment, NEW status,
         \/ payment = "CAPTURED" /\ status = "PENDING" /\ s.answer = "succeeded"
         \/ payment = "FAILED" /\ status = "FAILED" /\ s.answer = "failed"
  PROVE  LET next == Transition(row, from, k, payment, status)
         IN  /\ Agree(s, next) /\ next # NoRow
             /\ from \subseteq {"PENDING", "FAILED"} /\ Settled(row) => Settled(next)
<1> DEFINE put == PutIntent(PutStatus(PutPayment(row, payment), status), k)
           next == Transition(row, from, k, payment, status)
<1>1. RowShape(put) /\ put.payment = payment /\ put.status = status
  <2>1. PICK r : r = PutPayment(row, payment) /\ RowShape(r) /\ r.payment = payment
    BY RowPuts DEF Agree
  <2>2. PICK q : q = PutStatus(r, status) /\ RowShape(q) /\ q.payment = payment /\ q.status = status
    BY <2>1, RowPuts
  <2> QED BY <2>1, <2>2, RowPuts
<1>2. next = row \/ (next = put /\ row.payment \in from)
  <2>1. put = [[[row EXCEPT !.payment = payment] EXCEPT !.status = status] EXCEPT !.intent = k]
    BY DEF PutIntent, PutStatus, PutPayment
  <2> HIDE DEF put
  <2>2. [[[row EXCEPT !.payment = payment] EXCEPT !.status = status] EXCEPT !.intent = k]
          = [row EXCEPT !.payment = payment, !.status = status, !.intent = k]
    OBVIOUS
  <2>3. CASE row.payment \in from /\ row.intent \in {0, k}
    BY <2>1, <2>2, <2>3 DEF Transition
  <2>4. CASE ~(row.payment \in from /\ row.intent \in {0, k})
    BY <2>4 DEF Transition
  <2> QED BY <2>3, <2>4
<1> HIDE DEF put, next
<1>3. payment # "PENDING" /\ NoRow.payment = "PENDING"
  BY DEF NoRow
<1>4. put # NoRow /\ row # NoRow
  BY <1>1, <1>3 DEF Agree
<1>5. Agree(s, put)
  BY <1>1, <1>4 DEF Agree
<1>6. from \subseteq {"PENDING", "FAILED"} /\ row.payment \in from /\ Settled(row) => Settled(put)
  BY <1>1, <1>4 DEF Settled, Agree
<1> QED BY <1>2, <1>4, <1>5, <1>6 DEF next

LEMMA FulfilledAgrees ==
  ASSUME NEW s, NEW row, Agree(s, row), NEW next \in Fulfilled(row)
  PROVE  Agree(s, next) /\ (row # NoRow => next # NoRow) /\ (Settled(row) => next = row)
<1>0. NoRow.payment = "PENDING" /\ NoRow.status = "NONE"
  BY DEF NoRow
<1>1. CASE next = row
  BY <1>1
<1>a. RowShape(row)
  BY DEF Agree
<1>2. CASE /\ next = PutStatus(row, "DELIVERED")
           /\ row.payment = "CAPTURED" /\ row.status \in {"PENDING", "PROCESSING"}
  BY <1>0, <1>a, <1>2, RowPuts DEF Agree, Settled
<1>3. CASE /\ next = PutPayment(PutStatus(row, "FAILED"), "REFUND_PENDING")
           /\ row.payment = "CAPTURED" /\ row.status \in {"PENDING", "PROCESSING"}
  <2>1. PICK r : r = PutStatus(row, "FAILED") /\ RowShape(r)
    BY <1>a, RowPuts
  <2>2. RowShape(next) /\ next.payment = "REFUND_PENDING"
    BY <1>3, <2>1, RowPuts
  <2> QED BY <1>0, <1>3, <2>2 DEF Agree, Settled
<1>4. CASE next = PutStatus(row, "PROCESSING") /\ row.payment = "CAPTURED" /\ row.status = "PENDING"
  BY <1>0, <1>a, <1>4, RowPuts DEF Agree, Settled
<1>5. CASE next = PutPayment(row, "REFUNDED") /\ row.payment = "REFUND_PENDING"
  BY <1>0, <1>a, <1>5, RowPuts DEF Agree, Settled
<1>6. [row EXCEPT !.status = "FAILED", !.payment = "REFUND_PENDING"]
        = PutPayment(PutStatus(row, "FAILED"), "REFUND_PENDING")
  BY <1>a DEF RowShape, PutPayment, PutStatus
<1> QED BY <1>1, <1>2, <1>3, <1>4, <1>5, <1>6 DEF Fulfilled, PutStatus, PutPayment

\* What each step keeps of the rows and of what Stripe keeps.
MoneyKept ==
  AllAgree' /\ DeletedInv' /\ \A o \in Occurrence : tx[o] # NoRow => tx'[o] # NoRow

LEMMA MoneyStays ==
  ASSUME AllAgree, DeletedInv, UNCHANGED <<stripe, tx, customer>>
  PROVE  MoneyKept
BY DEF MoneyKept, AllAgree, StripeOK, DeletedInv

\* A step that moves one occurrence.
LEMMA OccurrenceMoves ==
  ASSUME AllAgree, DeletedInv, customer' = customer, NEW o \in Occurrence,
         NEW s \in Account, NEW row, Agree(s, row),
         stripe' = [stripe EXCEPT ![o] = s], tx' = [tx EXCEPT ![o] = row],
         tx[o] # NoRow => row # NoRow,
         customer = "DELETED" /\ Settled(tx[o]) => Settled(row)
  PROVE  MoneyKept
<1>1. stripe' \in [Occurrence -> Account] /\ stripe'[o] = s
      /\ \A p \in Occurrence : p # o => stripe'[p] = stripe[p]
  BY DEF AllAgree, StripeOK
<1>2. tx' = [p \in Occurrence |-> IF p = o THEN row ELSE tx[p]]
  BY DEF AllAgree
<1>3. tx'[o] = row /\ tx' = [p \in Occurrence |-> tx'[p]]
      /\ \A p \in Occurrence : p # o => tx'[p] = tx[p]
  BY <1>2
<1>4. AllAgree'
  BY <1>1, <1>3 DEF AllAgree, StripeOK
<1>5. DeletedInv'
  BY <1>3 DEF DeletedInv
<1> QED BY <1>3, <1>4, <1>5 DEF MoneyKept

LEMMA SameRow ==
  ASSUME AllAgree, NEW o \in Occurrence
  PROVE  /\ tx = [tx EXCEPT ![o] = tx[o]]
         /\ stripe = [stripe EXCEPT ![o] = stripe[o]]
         /\ stripe[o] \in Account /\ Agree(stripe[o], tx[o])
<1>1. stripe = [stripe EXCEPT ![o] = stripe[o]]
  BY DEF AllAgree, StripeOK
<1>2. tx = [tx EXCEPT ![o] = tx[o]]
  <2>1. PICK f : f = tx
    OBVIOUS
  <2>2. f = [p \in Occurrence |-> f[p]]
    BY <2>1 DEF AllAgree
  <2>3. f = [f EXCEPT ![o] = f[o]]
    BY <2>2
  <2> QED BY <2>1, <2>3
<1> QED BY <1>1, <1>2 DEF AllAgree, StripeOK

\* What Stripe does when it is asked for a payment.
LEMMA ChargeKeepsMoney ==
  ASSUME AnsweredAtOnce, ErasureInv, NEW w \in Workers, Charge(w)
  PROVE  MoneyKept
<1> DEFINE o == run[w].occurrence
<1>0. AllAgree /\ DeletedInv /\ tx' = tx /\ customer' = customer
  BY DEF ErasureInv, Charge
<1>1. CASE UNCHANGED stripe
  BY <1>0, <1>1, MoneyStays
<1>2. CASE o \notin Occurrence
  <2>1. UNCHANGED stripe
    BY <1>0, <1>2 DEF Charge, AllAgree, StripeOK
  <2> QED BY <1>1, <2>1
<1>3. ASSUME o \in Occurrence, NEW s \in Asked(stripe[o]), stripe' = [stripe EXCEPT ![o] = s]
      PROVE  MoneyKept
  <2>1. tx[o] # NoRow
    BY <1>3 DEF ErasureInv, RunsInv, Charging, Charge
  <2>2. s \in Account
    BY <1>0, <1>3, SameRow, AskedFacts
  <2>3. CASE s = stripe[o]
    BY <1>0, <1>1, <1>3, <2>3, SameRow
  <2>4. CASE stripe[o].answer = "none"
    <3>1. PICK a \in Answers : s = [stripe[o] EXCEPT !.answer = a, !.intents = Append(@, a)]
      BY <1>3, <2>4 DEF Asked
    <3>2. stripe[o].intents = <<>> /\ Append(<<>>, a) = <<a>>
      BY <1>0, <1>3, <2>4, SameRow DEF Agree, Answered
    <3>3. a \in {"succeeded", "failed"}
      BY ScheduleAssumption DEF ScheduleAssumption, AnsweredAtOnce
    <3>4. s.answer = a /\ s.intents = <<a>>
      BY <1>0, <1>3, <3>1, <3>2, SameRow DEF Account
    <3>5. Agree(s, tx[o])
      BY <1>0, <1>3, <2>1, <2>4, <3>3, <3>4, SameRow DEF Agree, Answered
    <3>6. tx' = [tx EXCEPT ![o] = tx[o]]
      BY <1>0, <1>3, SameRow
    <3> QED BY <1>0, <1>3, <2>1, <2>2, <3>5, <3>6, OccurrenceMoves
  <2> QED BY <1>3, <2>3, <2>4 DEF Asked
<1> QED BY <1>1, <1>2, <1>3 DEF Charge

\* The answer is written to the row.
LEMMA NoteKeepsMoney ==
  ASSUME ErasureInv, NEW w \in Workers, NoteAnswer(w)
  PROVE  MoneyKept
<1> DEFINE o == run[w].occurrence
           k == Len(stripe[o].intents)
           next(payment, status) ==
             Transition(tx[o], {"PENDING", "FAILED"}, k, payment, status)
<1>0. AllAgree /\ DeletedInv /\ stripe' = stripe /\ customer' = customer
  BY DEF ErasureInv, NoteAnswer
<1>1. CASE o \notin Occurrence
  <2>1. ASSUME NEW row, tx' = [tx EXCEPT ![o] = row] PROVE tx' = tx
    BY <1>0, <1>1, <2>1 DEF AllAgree
  <2>2. UNCHANGED tx
    BY <2>1 DEF NoteAnswer
  <2> QED BY <1>0, <2>2, MoneyStays
<1>2. ASSUME o \in Occurrence, NEW payment, NEW status,
             tx' = [tx EXCEPT ![o] = next(payment, status)],
             \/ payment = "CAPTURED" /\ status = "PENDING" /\ stripe[o].answer = "succeeded"
             \/ payment = "FAILED" /\ status = "FAILED" /\ stripe[o].answer = "failed"
      PROVE  MoneyKept
  <2>1. PICK row : row = next(payment, status)
    OBVIOUS
  <2>2. /\ stripe[o] \in Account /\ Agree(stripe[o], tx[o])
        /\ stripe' = [stripe EXCEPT ![o] = stripe[o]]
    BY <1>0, <1>2, SameRow
  <2>3. Agree(stripe[o], row) /\ row # NoRow /\ (Settled(tx[o]) => Settled(row))
    BY <1>2, <2>1, <2>2, TransitionAgrees
  <2>4. tx' = [tx EXCEPT ![o] = row]
    BY <1>2, <2>1
  <2> QED BY <1>0, <1>2, <2>2, <2>3, <2>4, OccurrenceMoves
<1>3. CASE o \in Occurrence
  <2>1. stripe[o].answer # "processing"
    BY <1>0, <1>3, SameRow DEF Agree, Answered
  <2>2. \/ stripe[o].answer = "succeeded" /\ tx' = [tx EXCEPT ![o] = next("CAPTURED", "PENDING")]
        \/ stripe[o].answer = "failed" /\ tx' = [tx EXCEPT ![o] = next("FAILED", "FAILED")]
    BY <2>1 DEF NoteAnswer
  <2> QED BY <1>2, <1>3, <2>2
<1> QED BY <1>1, <1>3

\* The recharge goes on at its provider, or is settled.
LEMMA RowFulfilled ==
  ASSUME AllAgree, DeletedInv, UNCHANGED <<stripe, customer>>, NEW o \in Occurrence,
         NEW row \in Fulfilled(tx[o]) \union {tx[o]}, tx' = [tx EXCEPT ![o] = row]
  PROVE  MoneyKept
<1>1. /\ stripe[o] \in Account /\ Agree(stripe[o], tx[o])
      /\ stripe' = [stripe EXCEPT ![o] = stripe[o]]
  BY SameRow
<1>2. Agree(stripe[o], row) /\ (tx[o] # NoRow => row # NoRow) /\ (Settled(tx[o]) => row = tx[o])
  BY <1>1, FulfilledAgrees
<1> QED BY <1>1, <1>2, OccurrenceMoves

LEMMA FulfilKeepsMoney ==
  ASSUME ErasureInv, NEW w \in Workers, Fulfil(w)
  PROVE  MoneyKept
<1> DEFINE o == run[w].occurrence
<1>0. AllAgree /\ DeletedInv /\ UNCHANGED <<stripe, customer>>
  BY DEF ErasureInv, Fulfil
<1>1. PICK row \in Fulfilled(tx[o]) \union {tx[o]} : tx' = [tx EXCEPT ![o] = row]
  BY DEF Fulfil
<1>2. CASE o \notin Occurrence
  <2>1. UNCHANGED tx
    BY <1>0, <1>1, <1>2 DEF AllAgree
  <2> QED BY <1>0, <2>1, MoneyStays
<1>3. CASE o \in Occurrence
  BY <1>0, <1>1, <1>3, RowFulfilled
<1> QED BY <1>2, <1>3

LEMMA ReservedIsRow ==
  ASSUME NEW q
  PROVE  /\ RowShape(Reserved(q)) /\ Reserved(q) # NoRow
         /\ Reserved(q).payment = "PENDING" /\ Reserved(q).status = "PENDING"
<1>1. RowShape(NoRow) /\ NoRow.payment = "PENDING" /\ NoRow.status = "NONE"
  BY DEF RowShape, NoRow
<1>2. PICK r : r = PutQuote(NoRow, q) /\ RowShape(r) /\ r.payment = "PENDING"
  BY <1>1, RowPuts
<1>3. Reserved(q) = PutStatus(r, "PENDING")
  BY <1>2 DEF PutStatus, PutQuote, Reserved
<1> QED BY <1>1, <1>2, <1>3, RowPuts

LEMMA ReserveKeepsMoney ==
  ASSUME ErasureInv, NEW w \in Workers, Reserve(w)
  PROVE  MoneyKept
<1> DEFINE o == run[w].occurrence
           row == Reserved(run[w].quote)
<1>0. AllAgree /\ DeletedInv /\ UNCHANGED <<stripe, customer>>
  BY DEF ErasureInv, Reserve
<1>1. CASE UNCHANGED tx
  BY <1>0, <1>1, MoneyStays
<1>2. CASE Admitted /\ CreateRow(w)
  <2>1. tx' = [tx EXCEPT ![o] = row] /\ tx[o] = NoRow
    BY <1>2 DEF CreateRow, Usable
  <2>2. CASE o \notin Occurrence
    <3>1. UNCHANGED tx
      BY <1>0, <2>1, <2>2 DEF AllAgree
    <3> QED BY <1>1, <3>1
  <2>3. CASE o \in Occurrence
    <3>1. RowShape(row) /\ row.payment = "PENDING" /\ row.status = "PENDING" /\ row # NoRow
      BY ReservedIsRow
    <3>2. /\ stripe[o] \in Account /\ Agree(stripe[o], NoRow)
          /\ stripe' = [stripe EXCEPT ![o] = stripe[o]]
      BY <1>0, <2>1, <2>3, SameRow
    <3>3. Agree(stripe[o], row)
      BY <3>1, <3>2 DEF Agree
    <3> HIDE DEF row
    <3> QED BY <1>0, <1>2, <2>1, <2>3, <3>1, <3>2, <3>3, OccurrenceMoves DEF Admitted
  <2> QED BY <2>2, <2>3
<1> QED BY <1>1, <1>2 DEF Reserve, Replay, TermsChanged, ReservationRefused, ReservationFails

\* A worker's step.
LEMMA RunBecomes ==
  ASSUME RunsInv, MoneyKept, NEW w \in Workers, NEW l, RunShape(l),
         Charging(l) => tx'[l.occurrence] # NoRow, run' = [run EXCEPT ![w] = l]
  PROVE  RunsInv'
<1>1. run' = [v \in Workers |-> IF v = w THEN l ELSE run[v]]
  BY DEF RunsInv
<1>2. /\ run' = [v \in Workers |-> run'[v]] /\ run'[w] = l
      /\ \A v \in Workers : v # w => run'[v] = run[v]
  BY <1>1
<1>3. ASSUME NEW v \in Workers
      PROVE  RunShape(run'[v]) /\ (Charging(run'[v]) => tx'[run'[v].occurrence] # NoRow)
  <2>1. CASE v = w
    BY <1>2, <2>1
  <2>2. CASE v # w
    <3>1. RunShape(run[v]) /\ (Charging(run[v]) => tx[run[v].occurrence] # NoRow)
      BY DEF RunsInv
    <3>2. Charging(run[v]) => run[v].occurrence \in Occurrence
      BY DEF Charging
    <3> QED BY <1>2, <2>2, <3>1, <3>2 DEF MoneyKept
  <2> QED BY <2>1, <2>2
<1> QED BY <1>2, <1>3 DEF RunsInv, Charging, RunShape

LEMMA RunsKept ==
  ASSUME RunsInv, MoneyKept, run' = run
  PROVE  RunsInv'
<1>1. ASSUME NEW v \in Workers
      PROVE  RunShape(run[v]) /\ (Charging(run[v]) => tx'[run[v].occurrence] # NoRow)
  BY DEF RunsInv, Charging, MoneyKept
<1> QED BY <1>1 DEF RunsInv, Charging, RunShape

LEMMA RunGoesTo ==
  ASSUME RunsInv, MoneyKept, NEW w \in Workers, NEW at, Goto(w, at),
         at \in {"charge", "note", "fulfil"} /\ run[w].occurrence \in Occurrence
           => tx'[run[w].occurrence] # NoRow
  PROVE  RunsInv'
<1> DEFINE l == PutAt(run[w], at)
<1>1. RunShape(run[w])
  BY DEF RunsInv
<1>2. RunShape(l) /\ l.at = at /\ l.occurrence = run[w].occurrence
  BY <1>1, RunPuts
<1>3. run' = [run EXCEPT ![w] = l]
  BY DEF Goto, PutAt
<1> HIDE DEF l
<1> QED BY <1>2, <1>3, RunBecomes DEF Charging

LEMMA RunConcludes ==
  ASSUME RunsInv, MoneyKept, NEW w \in Workers, NEW outcome, Finish(w, outcome)
  PROVE  RunsInv'
<1> DEFINE l == PutOutcome(PutAt(run[w], "record"), outcome)
<1>1. PICK r : r = PutAt(run[w], "record") /\ RunShape(r) /\ r.at = "record"
  BY RunPuts DEF RunsInv
<1>2. RunShape(l) /\ l.at = "record"
  BY <1>1, RunPuts
<1>3. run' = [run EXCEPT ![w] = l]
  BY DEF Finish, PutAt, PutOutcome
<1> HIDE DEF l
<1> QED BY <1>2, <1>3, RunBecomes DEF Charging

LEMMA IdleRun == RunShape(Idle) /\ Idle.at = "idle"
BY DEF RunShape, Idle

LEMMA RunStops ==
  ASSUME RunsInv, MoneyKept, NEW w \in Workers, run' = [run EXCEPT ![w] = Idle]
  PROVE  RunsInv'
<1>1. PICK l : l = Idle /\ RunShape(l) /\ l.at = "idle"
  BY IdleRun
<1> QED BY <1>1, RunBecomes DEF Charging

LEMMA WorkKeepsRuns ==
  ASSUME AnsweredAtOnce, ErasureInv, MoneyKept, NEW w \in Workers, Work(w) \/ Crash(w)
  PROVE  RunsInv'
<1>0. RunsInv
  BY DEF ErasureInv
<1> DEFINE o == run[w].occurrence
<1>1. CASE Claim(w)
  BY <1>0, <1>1, RunGoesTo DEF Claim
<1>2. CASE ReadSchedule(w)
  <2>1. CASE schedule.status = "DELETED"
    BY <1>0, <1>2, <2>1, RunStops DEF ReadSchedule
  <2>2. CASE schedule.status # "DELETED"
    <3> DEFINE at == IF schedule.quote = 0 THEN "quote" ELSE "reserve"
               occurrence == IF schedule.occurrence # 0 THEN schedule.occurrence ELSE schedule.next
               l == PutQuote(PutOccurrence(PutAt(Idle, at), occurrence), schedule.quote)
    <3>1. run' = [run EXCEPT ![w] = l]
      BY <1>2, <2>2 DEF ReadSchedule, PutAt, PutOccurrence, PutQuote
    <3>2. at \in {"quote", "reserve"}
      OBVIOUS
    <3> HIDE DEF at, occurrence
    <3>3. PICK i : i = PutAt(Idle, at) /\ RunShape(i) /\ i.at = at
      BY IdleRun, RunPuts
    <3>4. PICK j : j = PutOccurrence(i, occurrence) /\ RunShape(j) /\ j.at = at
      BY <3>3, RunPuts
    <3>5. RunShape(l) /\ l.at = at
      BY <3>3, <3>4, RunPuts
    <3> HIDE DEF l
    <3> QED BY <1>0, <3>1, <3>2, <3>5, RunBecomes DEF Charging
  <2> QED BY <2>1, <2>2
<1>3. CASE Quote(w)
  <2>1. ASSUME NEW q \in QuoteIds, run' = [run EXCEPT ![w].at = "keep", ![w].quote = q]
        PROVE  RunsInv'
    <3> DEFINE l == PutQuote(PutAt(run[w], "keep"), q)
    <3>1. PICK r : r = PutAt(run[w], "keep") /\ RunShape(r) /\ r.at = "keep"
      BY <1>0, RunPuts DEF RunsInv
    <3>2. RunShape(l) /\ l.at = "keep"
      BY <3>1, RunPuts
    <3>3. run' = [run EXCEPT ![w] = l]
      BY <2>1 DEF PutAt, PutQuote
    <3> HIDE DEF l
    <3> QED BY <1>0, <3>2, <3>3, RunBecomes DEF Charging
  <2> QED BY <1>0, <1>3, <2>1, RunConcludes
          DEF Quote, QuoteOffered, QuoteAboveMaximum, ProductWithdrawn, QuoteRefused, QuoteFails
<1>4. CASE KeepQuote(w)
  BY <1>0, <1>4, RunStops, RunGoesTo DEF KeepQuote
<1>5. CASE Reserve(w)
  <2>1. CASE CreateRow(w)
    <3>1. o \in Occurrence => tx'[o] # NoRow
      <4> SUFFICES ASSUME o \in Occurrence PROVE tx'[o] # NoRow
        OBVIOUS
      <4>1. tx' = [tx EXCEPT ![o] = Reserved(run[w].quote)]
        BY <2>1 DEF CreateRow
      <4>2. tx'[o] = Reserved(run[w].quote)
        BY <4>1 DEF ErasureInv, AllAgree
      <4> QED BY <4>2, ReservedIsRow
    <3> QED BY <1>0, <2>1, <3>1, RunGoesTo DEF CreateRow
  <2>2. CASE Replay(w, tx[o])
    <3>1. o \in Occurrence => tx'[o] # NoRow
      BY <2>2 DEF Replay, MoneyKept
    <3> QED BY <1>0, <2>2, <3>1, RunGoesTo, RunConcludes DEF Replay
  <2> QED BY <1>0, <1>5, <2>1, <2>2, RunConcludes
          DEF Reserve, TermsChanged, ReservationRefused, ReservationFails
<1>6. CASE Charge(w)
  <2>1. o \in Occurrence => tx'[o] # NoRow
    BY <1>0, <1>6 DEF Charge, RunsInv, Charging, MoneyKept
  <2> QED BY <1>0, <1>6, <2>1, RunGoesTo, RunConcludes DEF Charge
<1>7. CASE NoteAnswer(w)
  <2>1. o \in Occurrence => tx'[o] # NoRow
    BY <1>0, <1>7 DEF NoteAnswer, RunsInv, Charging, MoneyKept
  <2> QED BY <1>0, <1>7, <2>1, RunGoesTo, RunConcludes DEF NoteAnswer
<1>8. CASE Fulfil(w)
  BY <1>0, <1>8, RunConcludes DEF Fulfil
<1>9. CASE Record(w) \/ Crash(w)
  BY <1>0, <1>9, RunStops DEF Record, Crash
<1> QED BY <1>1, <1>2, <1>3, <1>4, <1>5, <1>6, <1>7, <1>8, <1>9 DEF Work

\* Stripe's events and later settlement.
LEMMA PaymentSucceededKeepsMoney ==
  ASSUME AllAgree, DeletedInv, NEW o \in Occurrence, PaymentSucceeded(o)
  PROVE  MoneyKept
<1>1. /\ stripe[o] \in Account /\ Agree(stripe[o], tx[o])
      /\ stripe' = [stripe EXCEPT ![o] = stripe[o]]
  BY SameRow DEF PaymentSucceeded
<1>2. PICK k \in DOMAIN stripe[o].intents :
        /\ stripe[o].intents[k] = "succeeded"
        /\ \E row \in Fulfilled(Transition(tx[o], {"PENDING", "FAILED"}, k,
                                           "CAPTURED", "PENDING")) :
             tx' = [tx EXCEPT ![o] = row]
  BY DEF PaymentSucceeded
<1>3. stripe[o].answer = "succeeded"
  <2>1. stripe[o].answer # "none"
    BY <1>1, <1>2 DEF Agree, Answered
  <2>2. stripe[o].intents = <<stripe[o].answer>>
    BY <1>1, <2>1 DEF Agree, Answered
  <2> QED BY <1>2, <2>2
<1>4. PICK mid : mid = Transition(tx[o], {"PENDING", "FAILED"}, k, "CAPTURED", "PENDING")
  OBVIOUS
<1>5. Agree(stripe[o], mid) /\ mid # NoRow /\ (Settled(tx[o]) => Settled(mid))
  BY <1>1, <1>3, <1>4, TransitionAgrees
<1>6. PICK row \in Fulfilled(mid) : tx' = [tx EXCEPT ![o] = row]
  BY <1>2, <1>4
<1>7. Agree(stripe[o], row) /\ row # NoRow /\ (Settled(tx[o]) => Settled(row))
  BY <1>5, <1>6, FulfilledAgrees
<1> QED BY <1>1, <1>6, <1>7, OccurrenceMoves DEF PaymentSucceeded

LEMMA PaymentFailedKeepsMoney ==
  ASSUME AllAgree, DeletedInv, NEW o \in Occurrence, PaymentFailed(o)
  PROVE  MoneyKept
<1>1. stripe[o] \in Account /\ Agree(stripe[o], tx[o])
  BY SameRow
<1>2. PICK k \in DOMAIN stripe[o].intents :
        /\ stripe[o].intents[k] = "failed"
        /\ tx' = [tx EXCEPT ![o] = Transition(tx[o], {"PENDING"}, k, "FAILED", "FAILED")]
        /\ stripe' = [stripe EXCEPT ![o].heard = @ \union {k}]
  BY DEF PaymentFailed
<1>3. stripe[o].answer = "failed" /\ k \in Nat
  <2>1. stripe[o].answer # "none"
    BY <1>1, <1>2 DEF Agree, Answered
  <2>2. stripe[o].intents = <<stripe[o].answer>>
    BY <1>1, <2>1 DEF Agree, Answered
  <2> QED BY <1>2, <2>2
<1>4. PICK row : row = Transition(tx[o], {"PENDING"}, k, "FAILED", "FAILED")
  OBVIOUS
<1>5. Agree(stripe[o], row) /\ row # NoRow /\ (Settled(tx[o]) => Settled(row))
  BY <1>1, <1>3, <1>4, TransitionAgrees
<1>6. PICK s : s = [stripe[o] EXCEPT !.heard = stripe[o].heard \union {k}]
  OBVIOUS
<1>7. s \in Account /\ s.answer = stripe[o].answer /\ s.intents = stripe[o].intents
  BY <1>1, <1>3, <1>6 DEF Account
<1>8. Agree(s, row)
  BY <1>5, <1>7 DEF Agree, Answered
<1>9. stripe' = [stripe EXCEPT ![o] = s] /\ tx' = [tx EXCEPT ![o] = row]
  BY <1>2, <1>4, <1>6
<1> QED BY <1>5, <1>7, <1>8, <1>9, OccurrenceMoves DEF PaymentFailed

LEMMA DeliverKeepsErasure ==
  ASSUME ErasureInv, NEW o \in Occurrence, Deliver(o)
  PROVE  ErasureInv'
<1>0. AllAgree /\ DeletedInv
  BY DEF ErasureInv
<1>1. ~IntentSettles(o)
  <2>1. stripe[o] \in Account /\ Agree(stripe[o], tx[o])
    BY <1>0, SameRow
  <2>2. \A k \in DOMAIN stripe[o].intents : stripe[o].intents[k] # "processing"
    BY <2>1 DEF Agree, Answered
  <2> QED BY <2>2 DEF IntentSettles
<1>2. ASSUME Settle(o) PROVE MoneyKept
  <2>1. PICK row \in Fulfilled(tx[o]) : tx' = [tx EXCEPT ![o] = row]
    BY <1>2 DEF Settle
  <2> QED BY <1>0, <1>2, <2>1, RowFulfilled DEF Settle
<1>3. MoneyKept
  BY <1>0, <1>1, <1>2, PaymentSucceededKeepsMoney, PaymentFailedKeepsMoney DEF Deliver
<1>4. run' = run /\ request' = request
  BY DEF Deliver, PaymentSucceeded, PaymentFailed, IntentSettles, Settle
<1> QED BY <1>3, <1>4, RunsKept DEF ErasureInv, MoneyKept, RequestsInv

LEMMA WorkKeepsErasure ==
  ASSUME AnsweredAtOnce, ErasureInv, NEW w \in Workers, Work(w) \/ Crash(w)
  PROVE  ErasureInv'
<1>0. AllAgree /\ DeletedInv /\ RequestsInv
  BY DEF ErasureInv
<1>1. request' = request
  BY DEF Work, Claim, ReadSchedule, Quote, KeepQuote, Reserve, Charge, NoteAnswer, Fulfil,
         Record, Crash
<1>2. MoneyKept
  <2>1. CASE Claim(w) \/ ReadSchedule(w) \/ Quote(w) \/ KeepQuote(w) \/ Record(w) \/ Crash(w)
    <3>1. UNCHANGED <<stripe, tx, customer>>
      BY <2>1 DEF Claim, ReadSchedule, Quote, KeepQuote, Record, Crash
    <3> QED BY <1>0, <3>1, MoneyStays
  <2> QED BY <2>1, ReserveKeepsMoney, ChargeKeepsMoney, NoteKeepsMoney, FulfilKeepsMoney DEF Work
<1> QED BY <1>0, <1>1, <1>2, WorkKeepsRuns DEF ErasureInv, MoneyKept, RequestsInv

\* No request cancels a recharge.
LEMMA RequestKeepsErasure ==
  ASSUME AnsweredAtOnce, ErasureInv, NEW r \in Requests,
         \/ Continue(r)
         \/ \E kind \in Changes : BeginChange(r, kind)
         \/ \E o \in Occurrence : BeginCancelRow(r, o)
  PROVE  ErasureInv'
<1>0. AllAgree /\ DeletedInv /\ RequestsInv /\ RunsInv /\ "CANCEL_ROW" \notin Changes
  BY DEF ErasureInv, AnsweredAtOnce
<1>1. request[r].at \notin {"claimRow", "cancelRow"}
  BY <1>0, ScheduleAssumption DEF ScheduleAssumption, RequestsInv
<1>2. WriteChange(r) \/ \E kind \in Changes : BeginChange(r, kind)
  BY <1>0, <1>1 DEF Continue, ClaimRow, CancelRow, BeginCancelRow
<1>3. UNCHANGED <<stripe, tx, customer, run>>
  BY <1>2 DEF WriteChange, BeginChange
<1>4. RequestsInv'
  <2>1. NoRequest \in [at : (Changes \ {"CANCEL_ROW"}) \union {"idle"}, occurrence : {0}]
    BY DEF NoRequest
  <2>2. CASE WriteChange(r)
    BY <1>0, <2>1, <2>2 DEF WriteChange, RequestsInv
  <2>3. ASSUME NEW kind \in Changes, BeginChange(r, kind) PROVE RequestsInv'
    BY <1>0, <2>3 DEF BeginChange, RequestsInv
  <2> QED BY <1>2, <2>2, <2>3
<1>5. MoneyKept
  BY <1>0, <1>3, MoneyStays
<1> QED BY <1>0, <1>3, <1>4, <1>5, RunsKept DEF ErasureInv, MoneyKept

LEMMA NextKeepsErasure == AnsweredAtOnce /\ ErasureInv /\ [Next]_vars => ErasureInv'
<1> SUFFICES ASSUME AnsweredAtOnce, ErasureInv, [Next]_vars PROVE ErasureInv'
  OBVIOUS
<1>0. AllAgree /\ DeletedInv /\ RequestsInv /\ RunsInv
  BY DEF ErasureInv
<1>1. ASSUME UNCHANGED <<stripe, tx, customer, run, request>> PROVE ErasureInv'
  <2>1. MoneyKept
    BY <1>0, <1>1, MoneyStays
  <2> QED BY <1>0, <1>1, <2>1, RunsKept DEF ErasureInv, MoneyKept, RequestsInv
<1>2. CASE UNCHANGED vars
  BY <1>1, <1>2 DEF vars
<1>3. ASSUME NEW q \in QuoteIds, QuoteExpires(q) PROVE ErasureInv'
  BY <1>1, <1>3 DEF QuoteExpires
<1>4. CASE ClaimExpires \/ RefusalChanges \/ Tick
  BY <1>1, <1>4 DEF ClaimExpires, RefusalChanges, Tick, AnsweredAtOnce
<1>5. CASE RequestDeletion \/ ProcessDeletion
  <2>1. UNCHANGED <<stripe, tx, run, request>>
    BY <1>5 DEF RequestDeletion, ProcessDeletion
  <2>2. DeletedInv'
    BY <1>5, <2>1 DEF RequestDeletion, ProcessDeletion, DeletedInv
  <2>3. AllAgree'
    BY <1>0, <2>1 DEF AllAgree, StripeOK
  <2>4. MoneyKept
    BY <2>1, <2>2, <2>3 DEF MoneyKept
  <2> QED BY <1>0, <2>1, <2>2, <2>3, <2>4, RunsKept DEF ErasureInv, RequestsInv
<1> QED BY <1>2, <1>3, <1>4, <1>5, WorkKeepsErasure, RequestKeepsErasure, DeliverKeepsErasure
        DEF Next

LEMMA InitKeepsErasure == Init => ErasureInv
<1> SUFFICES ASSUME Init PROVE ErasureInv
  OBVIOUS
<1>1. RowShape(NoRow) /\ NoRow.payment = "PENDING"
  BY DEF RowShape, NoRow
<1>2. Unasked \in Account /\ Agree(Unasked, NoRow)
  BY <1>1, UnaskedIsAccount DEF Agree, Answered, Unasked
<1>3. AllAgree
  BY <1>2 DEF Init, AllAgree, StripeOK
<1>4. RunsInv
  BY IdleRun DEF Init, RunsInv, Charging
<1>5. RequestsInv /\ DeletedInv
  BY DEF Init, RequestsInv, DeletedInv, NoRequest
<1> QED BY <1>3, <1>4, <1>5 DEF ErasureInv

\* Nothing of an erased account's money is open, with any number of processes,
\* requests, crashes and late events (processDeletion, and everything that goes
\* on afterwards), as long as Stripe's answers are final and remembered.
THEOREM ErasedIsSettled ==
  ASSUME AnsweredAtOnce
  PROVE  Spec => []ErasedOnlyWhenSettled
<1>1. ErasureInv /\ [Next]_vars => ErasureInv'
  BY NextKeepsErasure
<1>2. ErasureInv => ErasedOnlyWhenSettled
  <2> SUFFICES ASSUME ErasureInv, customer = "DELETED", NEW o \in Occurrence
               PROVE  /\ Settled(tx[o])
                      /\ \A k \in DOMAIN stripe[o].intents : stripe[o].intents[k] # "processing"
                      /\ Paid(o) => tx[o].payment \in {"CAPTURED", "REFUNDED"}
    BY DEF ErasedOnlyWhenSettled
  <2>1. Settled(tx[o]) /\ Agree(stripe[o], tx[o])
    BY DEF ErasureInv, AllAgree, DeletedInv
  <2>2. \A k \in DOMAIN stripe[o].intents : stripe[o].intents[k] = stripe[o].answer
    BY <2>1 DEF Agree, Answered
  <2>3. \A k \in DOMAIN stripe[o].intents : stripe[o].answer \in {"succeeded", "failed"}
    BY <2>1 DEF Agree, Answered
  <2>4. ASSUME Paid(o) PROVE tx[o].payment \in {"CAPTURED", "REFUNDED"}
    <3>1. stripe[o].answer = "succeeded"
      BY <2>2, <2>4 DEF Paid
    <3> QED BY <2>1, <3>1 DEF Agree, Settled
  <2> QED BY <2>1, <2>2, <2>3, <2>4
<1> QED BY <1>1, <1>2, InitKeepsErasure, PTL DEF Spec
=============================================================================
