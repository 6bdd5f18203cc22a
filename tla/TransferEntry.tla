--------------------------- MODULE TransferEntry ---------------------------
(***************************************************************************)
(* How a remittance of one TiCash customer comes into being: the quote     *)
(* (fx/service.ts and fx/repository.ts) and POST /api/transfers (app.ts),  *)
(* with its idempotency key, its limits and its risk flags (security.ts).  *)
(*                                                                         *)
(* A request takes a step per await.  Within one process the customer's    *)
(* requests wait for each other in a KeyedMutex.  Money counts cents; a    *)
(* rate counts 1/RateScale gourdes a cent.  A request that is refused      *)
(* before it looks at its key (identity, restriction, payout method) does  *)
(* nothing, so it is left out, and so is one that does not match its quote. *)
(***************************************************************************)
EXTENDS Naturals, Sequences, FiniteSets, FiniteSetsExt

CONSTANTS
  Handlers,       \* requests that may run at the same time
  OneProcess,     \* whether one process serves them all
  Keys,           \* idempotency keys
  Quotes,         \* quotes the customer may ask for
  Recipients,
  Currencies,     \* "USD" and others
  Rates,          \* what the rate provider may answer
  RateScale,
  UsdRate,        \* the configured rate of the dollar
  Amounts,        \* what a customer may enter, in either currency
  FeePercent, MinimumFee, ProviderFee,
  SendLimit,      \* the most a quote may send, in dollars
  QuoteTtl,       \* how long a quote is good
  Day, Week, DailyLimit, WeeklyLimit,
  ReviewAmount, MaxTransfers, MaxRecipients,  \* the thresholds of the risk flags
  Horizon,        \* bound on the clock
  MaxFaults       \* bound on lost calls and crashes

ASSUME ConstantsAssumption ==
  /\ OneProcess \in BOOLEAN
  /\ "none" \notin Quotes
  /\ Rates \cup {RateScale, UsdRate} \subseteq Nat \ {0}
  /\ Amounts \cup {FeePercent, MinimumFee, ProviderFee, SendLimit, QuoteTtl, Day, Week,
                   DailyLimit, WeeklyLimit, ReviewAmount, MaxTransfers, MaxRecipients,
                   Horizon, MaxFaults} \subseteq Nat

VARIABLES
  clock,
  quotes,     \* the quotes that were made, by name
  transfers,  \* the transfers that were made
  saved,      \* each idempotency key's row: the input of its request, or "none"
  queue,      \* the mutex: the requests in their order, the first one running
  work,       \* what each handler is doing
  faults

vars == <<clock, quotes, transfers, saved, queue, work, faults>>

NoQuote == [send |-> 0, receive |-> 0, total |-> 0, exact |-> FALSE, rate |-> 0, usd |-> 0,
            expires |-> 0, consumed |-> FALSE]
NoInput == [quote |-> "none", recipient |-> "none"]
Idle == [at |-> "idle", key |-> "none", input |-> NoInput, now |-> 0, flags |-> {}]

Init ==
  /\ clock = 0
  /\ quotes = [q \in Quotes |-> NoQuote]
  /\ transfers = {}
  /\ saved = [k \in Keys |-> NoInput]
  /\ queue = <<>>
  /\ work = [h \in Handlers |-> Idle]
  /\ faults = 0

At(h, place) == work[h].at = place
Goto(h, place) == work' = [work EXCEPT ![h].at = place]

(* The answer to the customer ends the operation and lets the next one in. *)
Answer(h) ==
  /\ work' = [work EXCEPT ![h] = Idle]
  /\ queue' = IF OneProcess THEN Tail(queue) ELSE queue

Tick ==
  /\ clock < Horizon /\ clock' = clock + 1
  /\ UNCHANGED <<quotes, transfers, saved, queue, work, faults>>

---------------------------------------------------------------------------
(* createQuote. *)

HalfUp(a, b) == (2 * a + b) \div (2 * b)
Ceiling(a, b) == (a + b - 1) \div b
Larger(a, b) == IF a > b THEN a ELSE b

toUsdEquivalent(value, currency, rate) ==
  IF currency = "USD" THEN value ELSE HalfUp(value * rate, UsdRate)

(* Mutant of SendAmount: what the customer pays is rounded half up. *)
SendAmountHalfUp(amount, inTarget, rate) ==
  IF inTarget THEN HalfUp(amount * RateScale, rate) ELSE amount

SendAmount(amount, inTarget, rate) ==
  IF inTarget THEN Ceiling(amount * RateScale, rate) ELSE amount

RecipientAmount(amount, inTarget, rate) ==
  IF inTarget THEN amount ELSE HalfUp(amount * rate, RateScale)

TicashFee(send) == HalfUp(Larger(send * FeePercent, MinimumFee * 100), 100)

Quote(amount, inTarget, currency, rate) ==
  LET send == SendAmount(amount, inTarget, rate)
  IN [send |-> send, receive |-> RecipientAmount(amount, inTarget, rate),
      total |-> send + TicashFee(send) + ProviderFee,
      exact |-> inTarget, rate |-> rate,
      usd |-> toUsdEquivalent(send, currency, rate),
      expires |-> clock + QuoteTtl, consumed |-> FALSE]

CreateQuote(q) ==
  /\ quotes[q] = NoQuote
  /\ \E amount \in Amounts, inTarget \in BOOLEAN, currency \in Currencies, rate \in Rates :
       LET quote == Quote(amount, inTarget, currency, rate)
       IN quote.usd <= SendLimit /\ quotes' = [quotes EXCEPT ![q] = quote]
  /\ UNCHANGED <<clock, transfers, saved, queue, work, faults>>

---------------------------------------------------------------------------
(* POST /api/transfers. *)

Request(h) ==
  /\ At(h, "idle")
  /\ \E k \in Keys, q \in Quotes, r \in Recipients :
       work' = [work EXCEPT ![h] = [Idle EXCEPT !.at = "waiting", !.key = k,
                                                !.input = [quote |-> q, recipient |-> r]]]
  /\ queue' = IF OneProcess THEN Append(queue, h) ELSE queue
  /\ UNCHANGED <<clock, quotes, transfers, saved, faults>>

(* Mutant of Enter: no mutex. *)
EnterAtOnce(h) ==
  /\ At(h, "waiting")
  /\ Goto(h, "looking")
  /\ UNCHANGED <<clock, quotes, transfers, saved, faults>> /\ UNCHANGED queue

Enter(h) ==
  /\ At(h, "waiting") /\ (OneProcess => queue # <<>> /\ Head(queue) = h)
  /\ Goto(h, "looking")
  /\ UNCHANGED <<clock, quotes, transfers, saved, faults>> /\ UNCHANGED queue

(* The row answers a request that is repeated, and refuses another input. *)
FindKey(h) ==
  LET found == saved[work[h].key]
  IN /\ At(h, "looking")
     /\ IF found = NoInput THEN Goto(h, "reading") /\ UNCHANGED queue ELSE Answer(h)
     /\ UNCHANGED <<clock, quotes, transfers, saved, faults>>

(* consumeQuote: read and checked, then taken by a conditional update, with *)
(* the same conditions and the same clock.                                  *)
Consumable(quote, now) == ~quote.consumed /\ quote.expires > now

ReadQuote(h) ==
  LET quote == quotes[work[h].input.quote]
  IN /\ At(h, "reading")
     /\ IF Consumable(quote, clock)
        THEN /\ work' = [work EXCEPT ![h].at = "consuming", ![h].now = clock]
             /\ UNCHANGED queue
        ELSE Answer(h)
     /\ UNCHANGED <<clock, quotes, transfers, saved, faults>>

ConsumeQuote(h) ==
  LET q == work[h].input.quote
  IN /\ At(h, "consuming")
     /\ IF Consumable(quotes[q], work[h].now)
        THEN quotes' = [quotes EXCEPT ![q].consumed = TRUE] /\ Goto(h, "weighing") /\ UNCHANGED queue
        ELSE Answer(h) /\ UNCHANGED quotes
     /\ UNCHANGED <<clock, transfers, saved, faults>>

(* enforceTransactionLimits: what counts, and how far back. *)
Since(length, now) == {t \in transfers : t.at + length >= now}
Counts(t) == t.status # "failed"
Total(ts) == MapThenSumSet(LAMBDA t : t.usd, ts)
Spent(length, now) == Total({t \in Since(length, now) : Counts(t)})

WithinLimits(usd, now) ==
  /\ Spent(Day, now) + usd <= DailyLimit
  /\ Spent(Week, now) + usd <= WeeklyLimit

(* assessRisk: a failed transfer counts. *)
assessRisk(usd, recipient, now) ==
  (IF usd >= ReviewAmount THEN {"amount"} ELSE {})
  \cup (IF Cardinality(Since(Day, now)) + 1 > MaxTransfers THEN {"velocity"} ELSE {})
  \cup (IF Cardinality({t.recipient : t \in Since(Day, now)} \cup {recipient}) > MaxRecipients
        THEN {"recipients"} ELSE {})

EvaluateRisk(h) ==
  LET usd == quotes[work[h].input.quote].usd
  IN /\ At(h, "weighing")
     /\ IF WithinLimits(usd, clock)
        THEN /\ work' = [work EXCEPT ![h].at = "creating",
                                     ![h].flags = assessRisk(usd, work[h].input.recipient, clock)]
             /\ UNCHANGED queue
        ELSE Answer(h)
     /\ UNCHANGED <<clock, quotes, transfers, saved, faults>>

(* Mutant of Unique: the key is not unique. *)
UniqueQuote(key, quote) == \A t \in transfers : t.quote # quote

(* The row of a transfer is unique by its quote and by its key. *)
Unique(key, quote) == \A t \in transfers : t.key # key /\ t.quote # quote

CreateTransfer(h) ==
  LET input == work[h].input
  IN /\ At(h, "creating")
     /\ IF Unique(work[h].key, input.quote)
        THEN /\ transfers' = transfers \cup
                  {[key |-> work[h].key, quote |-> input.quote, recipient |-> input.recipient,
                    usd |-> quotes[input.quote].usd, at |-> clock, status |-> "live",
                    flags |-> work[h].flags]}
             /\ Goto(h, "saving") /\ UNCHANGED queue
        ELSE Answer(h) /\ UNCHANGED transfers
     /\ UNCHANGED <<clock, quotes, saved, faults>>

SaveKey(h) ==
  /\ At(h, "saving")
  /\ saved' = [saved EXCEPT ![work[h].key] = work[h].input]
  /\ Answer(h)
  /\ UNCHANGED <<clock, quotes, transfers, faults>>

(* What its funding does to a transfer (Remittance): it fails or is         *)
(* returned; and a failed one is under way again when its funding is, or    *)
(* is completed late.                                                       *)
Becomes(t, status) ==
  /\ transfers' = (transfers \ {t}) \cup {[t EXCEPT !.status = status]}
  /\ UNCHANGED <<clock, quotes, saved, queue, work, faults>>

TransferFails == \E t \in transfers : t.status # "failed" /\ Becomes(t, "failed")
TransferRevives == \E t \in transfers : t.status = "failed" /\ Becomes(t, "revived")

---------------------------------------------------------------------------
Fault == faults < MaxFaults /\ faults' = faults + 1

CallFails(h) ==
  /\ Fault /\ work[h].at \notin {"idle", "waiting"}
  /\ Answer(h)
  /\ UNCHANGED <<clock, quotes, transfers, saved>>

(* A process stops with all its requests. *)
Crash ==
  /\ Fault
  /\ \E lost \in (IF OneProcess THEN {Handlers} ELSE {{h} : h \in Handlers}) :
       work' = [h \in Handlers |-> IF h \in lost THEN Idle ELSE work[h]]
  /\ queue' = <<>>
  /\ UNCHANGED <<clock, quotes, transfers, saved>>

Continue(h) ==
  \/ Enter(h) \/ FindKey(h) \/ ReadQuote(h) \/ ConsumeQuote(h) \/ EvaluateRisk(h)
  \/ CreateTransfer(h) \/ SaveKey(h)

Next ==
  \/ Tick \/ TransferFails \/ TransferRevives \/ Crash
  \/ \E q \in Quotes : CreateQuote(q)
  \/ \E h \in Handlers : Request(h) \/ Continue(h) \/ CallFails(h)

Spec == Init /\ [][Next]_vars

---------------------------------------------------------------------------
(* Properties. *)

QuoteType == [send : Nat, receive : Nat, total : Nat, exact : BOOLEAN, rate : Rates,
              usd : 0..SendLimit, expires : Nat, consumed : BOOLEAN]
Inputs == [quote : Quotes, recipient : Recipients]
Flags == {"amount", "velocity", "recipients"}

(* Every variable keeps its type. *)
TypeOK ==
  /\ clock \in 0..Horizon
  /\ \A q \in Quotes : quotes[q] = NoQuote \/ quotes[q] \in QuoteType
  /\ transfers \subseteq [key : Keys, quote : Quotes, recipient : Recipients, usd : 0..SendLimit,
                          at : Nat, status : {"live", "failed", "revived"}, flags : SUBSET Flags]
  /\ saved \in [Keys -> Inputs \cup {NoInput}]
  /\ queue \in Seq(Handlers) /\ faults \in 0..MaxFaults

(* A key makes one transfer and so does a quote, whatever is repeated, and  *)
(* a key whose row was saved names the transfer its request made.           *)
OneTransferEach ==
  /\ \A t, u \in transfers : t.key = u.key \/ t.quote = u.quote => t = u
  /\ \A k \in Keys : saved[k] # NoInput =>
       \E t \in transfers : t.key = k /\ t.quote = saved[k].quote

(* A request that is sent again while the first one runs, or after it was   *)
(* answered, is never told that its quote is used up by its own transfer:   *)
(* only a fault between the transfer and its key makes that happen, and     *)
(* then the customer does not learn of the transfer from this answer.       *)
Rejected(h) ==
  /\ work[h].at \in {"reading", "consuming"} /\ work'[h] = Idle
  /\ quotes[work[h].input.quote].consumed

OwnTransferIsReplayed ==
  [][\A h \in Handlers : OneProcess /\ Rejected(h) =>
       faults' > 0 \/ \A t \in transfers : t.key # work[h].key]_vars

(* Nobody sends more than a limit allows with transfers that never failed,  *)
(* although a limit is checked some awaits before the transfer exists: the  *)
(* mutex keeps the customer's other requests out, within one process.  A    *)
(* transfer that failed made room for others; when it is revived after      *)
(* them, no limit is checked again, so what counts may then be more than    *)
(* the limit, and the property is silent about that transfer.               *)
LimitsHold ==
  OneProcess => \A t \in transfers :
    LET before(length) ==
          Total({u \in transfers : u.status = "live" /\ u.at <= t.at /\ u.at + length >= t.at})
    IN before(Day) <= DailyLimit /\ before(Week) <= WeeklyLimit

(* The transfers of a day beyond the threshold carry the flag that holds    *)
(* them for a reviewer: at most MaxTransfers of them do not.                *)
VelocityIsFlagged ==
  OneProcess => \A t \in transfers :
    Cardinality({u \in transfers : "velocity" \notin u.flags /\ u.at <= t.at /\ u.at + Day >= t.at})
      <= MaxTransfers

(* The price of a quote covers what the recipient gets at its rate, to less *)
(* than half a cent, wholly when the customer has said what the recipient   *)
(* gets, and then with less than a cent to spare.                           *)
Priced(quote) ==
  LET paid == quote.send * quote.rate
      due == quote.receive * RateScale
  IN /\ 2 * paid + RateScale >= 2 * due
     /\ quote.exact => paid >= due /\ paid < due + quote.rate
     /\ quote.total >= quote.send + MinimumFee + ProviderFee

PriceCovers == \A q \in Quotes : quotes[q] # NoQuote => Priced(quotes[q])

(* Nobody sends more in a day or a week than is allowed, with transfers    *)
(* that never failed, nor more often in a day than is allowed without a    *)
(* flag that holds the transfer; and the price of a quote covers what the  *)
(* recipient gets                                                          *)
(* (enforceTransactionLimits, assessRisk, createQuote).                    *)
TransferLimitsHold == TypeOK /\ LimitsHold /\ VelocityIsFlagged /\ PriceCovers
=============================================================================
