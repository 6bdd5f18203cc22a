------------------------ MODULE TransferEntryProofs ------------------------
(***************************************************************************)
(* Theorems about the way to a remittance.  The entry (TransferEntry): one *)
(* transfer for a key and for a quote, the replay of a request, the limits *)
(* and the price, for every number of requests, every clock and every      *)
(* amount, rate, fee and limit.  The bank accounts it is paid from         *)
(* (BankAccounts): their verification, for any number of accounts, events, *)
(* requests and losses.  And the customer's access (TicashSignIn):         *)
(* sessions and reset links, for any number of requests.                   *)
(***************************************************************************)
EXTENDS TransferEntry, BankAccounts, TicashSignIn, FiniteSums

---------------------------------------------------------------------------
(* The price of a quote. *)

LEMMA DivisionFacts ==
  ASSUME NEW a \in Nat, NEW b \in Nat \ {0}
  PROVE  a \div b \in Nat /\ (a \div b) * b <= a /\ a < (a \div b) * b + b
OBVIOUS

LEMMA HalfUpFacts ==
  ASSUME NEW a \in Nat, NEW b \in Nat \ {0}
  PROVE  /\ HalfUp(a, b) \in Nat
         /\ 2 * (HalfUp(a, b) * b) <= 2 * a + b
         /\ 2 * a + b < 2 * (HalfUp(a, b) * b) + 2 * b
<1>1. 2 * a + b \in Nat /\ 2 * b \in Nat \ {0}
  OBVIOUS
<1> DEFINE d == HalfUp(a, b)
<1>2. d \in Nat /\ d * (2 * b) <= 2 * a + b /\ 2 * a + b < d * (2 * b) + 2 * b
  BY <1>1, DivisionFacts DEF HalfUp
<1> HIDE DEF d
<1>3. d * (2 * b) = 2 * (d * b)
  BY <1>2
<1> QED BY <1>2, <1>3 DEF d

LEMMA CeilingFacts ==
  ASSUME NEW a \in Nat, NEW b \in Nat \ {0}
  PROVE  Ceiling(a, b) \in Nat /\ a <= Ceiling(a, b) * b /\ Ceiling(a, b) * b < a + b
<1>1. a + b - 1 \in Nat
  OBVIOUS
<1> DEFINE d == Ceiling(a, b)
<1>2. d \in Nat /\ d * b <= a + b - 1 /\ a + b - 1 < d * b + b
  BY <1>1, DivisionFacts DEF Ceiling
<1> HIDE DEF d
<1>3. d * b \in Nat
  BY <1>2
<1> QED BY <1>2, <1>3 DEF d

LEMMA FeeFacts ==
  ASSUME NEW send \in Nat
  PROVE  TicashFee(send) \in Nat /\ TicashFee(send) >= MinimumFee
<1>0. FeePercent \in Nat /\ MinimumFee \in Nat
  BY ConstantsAssumption DEF ConstantsAssumption
<1> DEFINE l == Larger(send * FeePercent, MinimumFee * 100)
<1>1. l \in Nat /\ l >= MinimumFee * 100
  <2>1. send * FeePercent \in Nat /\ MinimumFee * 100 \in Nat
    BY <1>0
  <2> QED BY <2>1 DEF Larger
<1> HIDE DEF l
<1> DEFINE fee == HalfUp(l, 100)
<1>2. fee \in Nat /\ 2 * l + 100 < 2 * (fee * 100) + 200
  BY <1>1, HalfUpFacts
<1> HIDE DEF fee
<1>3. fee >= MinimumFee
  BY <1>0, <1>1, <1>2
<1> QED BY <1>2, <1>3 DEF TicashFee, fee, l

\* Both ways to round: what the recipient gets half up, what the customer pays up.
LEMMA AmountsFit ==
  ASSUME NEW amount \in Nat, NEW inTarget \in BOOLEAN, NEW rate \in Nat \ {0}
  PROVE  LET send == SendAmount(amount, inTarget, rate)
             receive == RecipientAmount(amount, inTarget, rate)
         IN  /\ send \in Nat /\ receive \in Nat
             /\ 2 * (send * rate) + RateScale >= 2 * (receive * RateScale)
             /\ inTarget => /\ send * rate >= receive * RateScale
                            /\ send * rate < receive * RateScale + rate
<1>0. RateScale \in Nat \ {0}
  BY ConstantsAssumption DEF ConstantsAssumption
<1>1. CASE inTarget
  <2> DEFINE send == Ceiling(amount * RateScale, rate)
  <2>1. amount * RateScale \in Nat
    BY <1>0
  <2>2. send \in Nat /\ amount * RateScale <= send * rate /\ send * rate < amount * RateScale + rate
    BY <2>1, CeilingFacts
  <2> HIDE DEF send
  <2>3. send * rate \in Nat
    BY <2>2
  <2>4. 2 * (send * rate) + RateScale >= 2 * (amount * RateScale)
    BY <1>0, <2>1, <2>2, <2>3
  <2>5. SendAmount(amount, inTarget, rate) = send /\ RecipientAmount(amount, inTarget, rate) = amount
    BY <1>1 DEF SendAmount, RecipientAmount, send
  <2> QED BY <2>2, <2>4, <2>5
<1>2. CASE ~inTarget
  <2> DEFINE receive == HalfUp(amount * rate, RateScale)
  <2>1. amount * rate \in Nat
    OBVIOUS
  <2>2. receive \in Nat /\ 2 * (receive * RateScale) <= 2 * (amount * rate) + RateScale
    BY <1>0, <2>1, HalfUpFacts
  <2> HIDE DEF receive
  <2>3. 2 * (amount * rate) + RateScale >= 2 * (receive * RateScale)
    <3>1. receive * RateScale \in Nat
      BY <1>0, <2>2
    <3> QED BY <1>0, <2>1, <2>2, <3>1
  <2>4. SendAmount(amount, inTarget, rate) = amount /\ RecipientAmount(amount, inTarget, rate) = receive
    BY <1>2 DEF SendAmount, RecipientAmount, receive
  <2> QED BY <1>2, <2>2, <2>3, <2>4
<1> QED BY <1>1, <1>2

LEMMA QuoteFacts ==
  ASSUME clock \in Nat, NEW amount \in Amounts, NEW inTarget \in BOOLEAN,
         NEW currency, NEW rate \in Rates,
         Quote(amount, inTarget, currency, rate).usd <= SendLimit
  PROVE  /\ Quote(amount, inTarget, currency, rate) \in QuoteType
         /\ Priced(Quote(amount, inTarget, currency, rate))
<1>0. /\ amount \in Nat /\ rate \in Nat \ {0} /\ UsdRate \in Nat \ {0} /\ RateScale \in Nat \ {0}
      /\ SendLimit \in Nat /\ QuoteTtl \in Nat /\ ProviderFee \in Nat /\ MinimumFee \in Nat
  BY ConstantsAssumption DEF ConstantsAssumption
<1> DEFINE send == SendAmount(amount, inTarget, rate)
           receive == RecipientAmount(amount, inTarget, rate)
           usd == toUsdEquivalent(send, currency, rate)
           fee == TicashFee(send)
           q == Quote(amount, inTarget, currency, rate)
<1>1. /\ send \in Nat /\ receive \in Nat
      /\ 2 * (send * rate) + RateScale >= 2 * (receive * RateScale)
      /\ inTarget => /\ send * rate >= receive * RateScale
                     /\ send * rate < receive * RateScale + rate
  BY <1>0, AmountsFit
<1>2. fee \in Nat /\ fee >= MinimumFee
  BY <1>1, FeeFacts
<1>3. q = [send |-> send, receive |-> receive, total |-> send + fee + ProviderFee,
           exact |-> inTarget, rate |-> rate, usd |-> usd,
           expires |-> clock + QuoteTtl, consumed |-> FALSE]
  BY DEF Quote
<1> HIDE DEF send, receive, fee
<1>4. usd \in Nat
  <2>1. send * rate \in Nat
    BY <1>0, <1>1
  <2>2. HalfUp(send * rate, UsdRate) \in Nat
    BY <1>0, <2>1, HalfUpFacts
  <2> QED BY <1>1, <2>2 DEF toUsdEquivalent
<1> HIDE DEF usd, q
<1>5. q \in QuoteType
  <2>1. usd \in 0..SendLimit
    BY <1>0, <1>3, <1>4 DEF q
  <2>2. send + fee + ProviderFee \in Nat /\ clock + QuoteTtl \in Nat
    BY <1>0, <1>1, <1>2
  <2> QED BY <1>0, <1>1, <1>3, <2>1, <2>2 DEF QuoteType
<1>6. Priced(q)
  <2>1. send + fee + ProviderFee >= send + MinimumFee + ProviderFee
    BY <1>0, <1>1, <1>2
  <2> QED BY <1>1, <1>3, <2>1 DEF Priced
<1> QED BY <1>5, <1>6 DEF q

---------------------------------------------------------------------------
(* Types. *)

Transfer == [key : Keys, quote : Quotes, recipient : Recipients, usd : 0..SendLimit,
             at : Nat, status : {"live", "failed", "revived"}, flags : SUBSET Flags]

Place == {"idle", "waiting", "looking", "reading", "consuming", "weighing", "creating", "saving"}

WorkRecord == [at : Place, key : Keys \cup {"none"}, input : Inputs \cup {NoInput}, now : Nat,
               flags : SUBSET Flags]

\* A request has a key and an input, and a quote it has read was made.
WorkFits(h) ==
  /\ work[h] \in WorkRecord
  /\ ~At(h, "idle") => work[h].key \in Keys /\ work[h].input \in Inputs
  /\ work[h].at \in {"consuming", "weighing", "creating"} =>
       quotes[work[h].input.quote] # NoQuote

TypeInv ==
  /\ clock \in 0..Horizon /\ faults \in 0..MaxFaults
  /\ quotes \in [Quotes -> QuoteType \cup {NoQuote}]
  /\ transfers \subseteq Transfer /\ IsFiniteSet(transfers)
  /\ saved \in [Keys -> Inputs \cup {NoInput}]
  /\ queue \in Seq(Handlers)
  /\ DOMAIN work = Handlers
  /\ \A h \in Handlers : WorkFits(h)

LEMMA NumbersFacts ==
  /\ Horizon \in Nat /\ MaxFaults \in Nat /\ SendLimit \in Nat /\ MaxTransfers \in Nat
  /\ Day \in Nat /\ Week \in Nat /\ DailyLimit \in Nat /\ WeeklyLimit \in Nat
BY ConstantsAssumption DEF ConstantsAssumption

LEMMA IdleFacts == Idle \in WorkRecord /\ Idle.at = "idle"
BY DEF Idle, WorkRecord, Place

\* The quotes that were made stay, at their price.
QuotesStay ==
  /\ quotes' \in [Quotes -> QuoteType \cup {NoQuote}]
  /\ \A q \in Quotes : quotes[q] # NoQuote =>
       /\ quotes'[q] # NoQuote /\ quotes'[q].usd = quotes[q].usd
       /\ quotes[q].consumed => quotes'[q].consumed

\* A handler's step, to l; the others stay where they are.
LEMMA OneMoves ==
  ASSUME TypeInv, QuotesStay, NEW h \in Handlers, NEW l \in WorkRecord,
         work' = [work EXCEPT ![h] = l],
         l.at # "idle" => l.key \in Keys /\ l.input \in Inputs,
         l.at \in {"consuming", "weighing", "creating"} => quotes'[l.input.quote] # NoQuote
  PROVE  DOMAIN work' = Handlers /\ \A g \in Handlers : WorkFits(g)'
<1>1. work'[h] = l /\ \A g \in Handlers \ {h} : work'[g] = work[g]
  BY DEF TypeInv
<1>2. ASSUME NEW g \in Handlers PROVE WorkFits(g)'
  BY <1>1 DEF TypeInv, WorkFits, At, QuotesStay, Inputs
<1> QED BY <1>2 DEF TypeInv

LEMMA AllStay ==
  ASSUME TypeInv, QuotesStay, UNCHANGED work
  PROVE  DOMAIN work' = Handlers /\ \A g \in Handlers : WorkFits(g)'
BY DEF TypeInv, WorkFits, At, QuotesStay, Inputs

LEMMA GotoMoves ==
  ASSUME TypeInv, QuotesStay, NEW h \in Handlers, NEW place \in Place \ {"idle"}, Goto(h, place),
         ~At(h, "idle"),
         place \in {"consuming", "weighing", "creating"} =>
           quotes[work[h].input.quote] # NoQuote
  PROVE  DOMAIN work' = Handlers /\ \A g \in Handlers : WorkFits(g)'
<1> DEFINE l == [work[h] EXCEPT !.at = place]
<1>1. work[h] \in WorkRecord /\ work[h].key \in Keys /\ work[h].input \in Inputs
  BY DEF TypeInv, WorkFits
<1>2. l \in WorkRecord /\ l.at = place /\ l.key = work[h].key /\ l.input = work[h].input
  BY <1>1 DEF WorkRecord
<1>3. work' = [work EXCEPT ![h] = l]
  BY DEF Goto
<1>4. work[h].input.quote \in Quotes
  BY <1>1 DEF Inputs
<1> HIDE DEF l
<1> QED BY <1>1, <1>2, <1>3, <1>4, OneMoves DEF QuotesStay

LEMMA AnswerMoves ==
  ASSUME TypeInv, QuotesStay, NEW h \in Handlers, Answer(h)
  PROVE  DOMAIN work' = Handlers /\ \A g \in Handlers : WorkFits(g)'
BY IdleFacts, OneMoves DEF Answer

\* The queue keeps its type: only a request that is in it leaves it.
Busy(h) == work[h].at \notin {"idle", "waiting"}

Mutex == OneProcess => \A h \in Handlers : Busy(h) => queue # <<>> /\ Head(queue) = h

LEMMA AnswerQueues ==
  ASSUME TypeInv, Mutex, NEW h \in Handlers, Busy(h), Answer(h)
  PROVE  queue' \in Seq(Handlers)
BY DEF TypeInv, Mutex, Answer

LEMMA QuotesUnchanged == ASSUME TypeInv, UNCHANGED quotes PROVE QuotesStay
BY DEF TypeInv, QuotesStay

LEMMA CreateQuoteStays == ASSUME TypeInv, NEW q \in Quotes, CreateQuote(q) PROVE QuotesStay
<1>1. PICK quote \in QuoteType : quotes' = [quotes EXCEPT ![q] = quote]
  <2>1. clock \in Nat
    BY DEF TypeInv
  <2> QED BY <2>1, QuoteFacts DEF CreateQuote
<1> QED BY <1>1 DEF TypeInv, QuotesStay, CreateQuote

LEMMA NoQuoteFacts ==
  /\ ~NoQuote.consumed /\ NoQuote.expires = 0
  /\ NoQuote \notin QuoteType
<1>1. NoQuote.rate = 0 /\ 0 \notin Rates
  BY ConstantsAssumption DEF ConstantsAssumption, NoQuote
<1> QED BY <1>1 DEF NoQuote, QuoteType

LEMMA ConsumeQuoteStays ==
  ASSUME TypeInv, NEW h \in Handlers, ConsumeQuote(h)
  PROVE  QuotesStay
<1> DEFINE q == work[h].input.quote
<1>1. CASE UNCHANGED quotes
  BY <1>1, QuotesUnchanged
<1>2. CASE quotes' = [quotes EXCEPT ![q].consumed = TRUE]
  <2>1. work[h].input \in Inputs /\ quotes[q] # NoQuote
    BY DEF ConsumeQuote, TypeInv, WorkFits, At
  <2>2. quotes[q] \in QuoteType /\ q \in Quotes
    BY <2>1 DEF TypeInv, Inputs
  <2> DEFINE p == [quotes[q] EXCEPT !.consumed = TRUE]
  <2>3. p \in QuoteType /\ p.usd = quotes[q].usd /\ p.consumed
    BY <2>2 DEF QuoteType
  <2>4. quotes' = [quotes EXCEPT ![q] = p]
    BY <1>2
  <2> HIDE DEF p
  <2>5. p # NoQuote
    BY <2>3, NoQuoteFacts
  <2> QED BY <2>2, <2>3, <2>4, <2>5 DEF TypeInv, QuotesStay
<1> QED BY <1>1, <1>2 DEF ConsumeQuote

LEMMA NextQuotesStay == ASSUME TypeInv, [Next]_vars PROVE QuotesStay
<1>1. CASE UNCHANGED quotes
  BY <1>1, QuotesUnchanged
<1>2. CASE UNCHANGED vars \/ Tick \/ TransferFails \/ TransferRevives \/ Crash
  BY <1>1, <1>2 DEF vars, Tick, TransferFails, TransferRevives, Becomes, Crash
<1>3. ASSUME NEW h \in Handlers, Request(h) \/ Continue(h) \/ CallFails(h) PROVE QuotesStay
  BY <1>1, <1>3, ConsumeQuoteStays DEF Request, Continue, CallFails, Enter, FindKey, ReadQuote,
     EvaluateRisk, CreateTransfer, SaveKey
<1> QED BY <1>2, <1>3, CreateQuoteStays DEF Next

NewTransfer(h) ==
  [key |-> work[h].key, quote |-> work[h].input.quote, recipient |-> work[h].input.recipient,
   usd |-> quotes[work[h].input.quote].usd, at |-> clock, status |-> "live",
   flags |-> work[h].flags]

LEMMA TransferType ==
  ASSUME TypeInv, NEW h \in Handlers, At(h, "creating")
  PROVE  /\ NewTransfer(h) \in Transfer
         /\ work[h].key \in Keys /\ work[h].input \in Inputs
         /\ quotes[work[h].input.quote] \in QuoteType
<1>1. /\ work[h].key \in Keys /\ work[h].input \in Inputs /\ work[h].flags \in SUBSET Flags
      /\ quotes[work[h].input.quote] # NoQuote
  BY DEF TypeInv, WorkFits, At, WorkRecord
<1>2. quotes[work[h].input.quote] \in QuoteType
  BY <1>1 DEF TypeInv, Inputs
<1>3. quotes[work[h].input.quote].usd \in 0..SendLimit /\ clock \in Nat
  BY <1>2, NumbersFacts DEF QuoteType, TypeInv
<1> QED BY <1>1, <1>2, <1>3 DEF NewTransfer, Transfer, Inputs

\* A transfer is made once for its key and its quote.
LEMMA CreateTransferAdds ==
  ASSUME TypeInv, NEW h \in Handlers, CreateTransfer(h)
  PROVE  \/ UNCHANGED transfers
         \/ /\ transfers' = transfers \cup {NewTransfer(h)} /\ Goto(h, "saving")
            /\ \A t \in transfers : t.key # work[h].key /\ t.quote # work[h].input.quote
            /\ NewTransfer(h) \notin transfers
<1>1. CASE Unique(work[h].key, work[h].input.quote)
  <2>1. transfers' = transfers \cup {NewTransfer(h)} /\ Goto(h, "saving")
    BY <1>1 DEF CreateTransfer, NewTransfer
  <2>2. \A t \in transfers : t.key # work[h].key /\ t.quote # work[h].input.quote
    BY <1>1 DEF Unique
  <2>3. NewTransfer(h).key = work[h].key
    BY DEF NewTransfer
  <2> QED BY <2>1, <2>2, <2>3
<1>2. CASE ~Unique(work[h].key, work[h].input.quote)
  BY <1>2 DEF CreateTransfer
<1> QED BY <1>1, <1>2

\* A transfer takes another status, and is never again one that never failed.
Replaces(t, u) ==
  /\ u \in Transfer /\ u.status # "live" /\ u.key = t.key /\ u.quote = t.quote /\ u.usd = t.usd
  /\ u.at = t.at /\ u.flags = t.flags /\ u.recipient = t.recipient
  /\ transfers' = (transfers \ {t}) \cup {u}

OneChanges == \E t \in transfers, u \in Transfer : Replaces(t, u)

LEMMA StatusChanges ==
  ASSUME TypeInv, TransferFails \/ TransferRevives
  PROVE  OneChanges /\ UNCHANGED <<clock, quotes, saved, queue, work, faults>>
<1>1. PICK t \in transfers, status \in {"failed", "revived"} : Becomes(t, status)
  BY DEF TransferFails, TransferRevives
<1>2. t \in Transfer
  BY DEF TypeInv
<1> DEFINE u == [t EXCEPT !.status = status]
<1>3. /\ u \in Transfer /\ u.status = status /\ u.key = t.key /\ u.quote = t.quote
      /\ u.usd = t.usd /\ u.at = t.at /\ u.flags = t.flags /\ u.recipient = t.recipient
  BY <1>2 DEF Transfer
<1>4. /\ transfers' = (transfers \ {t}) \cup {u}
      /\ UNCHANGED <<clock, quotes, saved, queue, work, faults>>
  BY <1>1 DEF Becomes
<1> HIDE DEF u
<1> QED BY <1>3, <1>4 DEF OneChanges, Replaces

LEMMA RiskType == ASSUME NEW usd, NEW recipient, NEW now
                  PROVE assessRisk(usd, recipient, now) \in SUBSET Flags
BY DEF assessRisk, Flags

LEMMA ReadingMoves ==
  ASSUME NEW r \in WorkRecord, NEW n \in Nat
  PROVE  LET l == [r EXCEPT !.at = "consuming", !.now = n]
         IN  l \in WorkRecord /\ l.at = "consuming" /\ l.key = r.key /\ l.input = r.input
<1>1. "consuming" \in Place
  BY DEF Place
<1> QED BY <1>1 DEF WorkRecord

LEMMA ContinueType ==
  ASSUME TypeInv, Mutex, QuotesStay, NEW h \in Handlers, Continue(h)
  PROVE  TypeInv'
<1> DEFINE WorkStep == DOMAIN work' = Handlers /\ \A g \in Handlers : WorkFits(g)'
<1>0. /\ clock \in 0..Horizon /\ faults \in 0..MaxFaults /\ transfers \subseteq Transfer
      /\ IsFiniteSet(transfers) /\ saved \in [Keys -> Inputs \cup {NoInput}]
      /\ queue \in Seq(Handlers)
  BY DEF TypeInv
<1>1. CASE Enter(h)
  <2>1. WorkStep
    BY <1>1, GotoMoves DEF Enter, At, Place
  <2> QED BY <1>0, <1>1, <2>1 DEF Enter, TypeInv, QuotesStay
<1>2. CASE FindKey(h)
  <2>1. WorkStep
    BY <1>2, GotoMoves, AnswerMoves DEF FindKey, At, Place
  <2>2. queue' \in Seq(Handlers)
    BY <1>0, <1>2, AnswerQueues DEF FindKey, Busy, At
  <2> QED BY <1>0, <1>2, <2>1, <2>2 DEF FindKey, TypeInv, QuotesStay
<1>3. CASE ReadQuote(h)
  <2>1. ASSUME work' = [work EXCEPT ![h].at = "consuming", ![h].now = clock],
               Consumable(quotes[work[h].input.quote], clock)
        PROVE  WorkStep
    <3> DEFINE l == [work[h] EXCEPT !.at = "consuming", !.now = clock]
    <3>1. work[h] \in WorkRecord /\ work[h].key \in Keys /\ work[h].input \in Inputs
      BY <1>3 DEF TypeInv, WorkFits, ReadQuote, At
    <3>2. l \in WorkRecord /\ l.key = work[h].key /\ l.input = work[h].input
      <4>1. clock \in Nat
        BY <1>0, NumbersFacts
      <4> QED BY <3>1, <4>1, ReadingMoves
    <3>3. quotes[work[h].input.quote] # NoQuote
      BY <1>0, <2>1, NoQuoteFacts DEF Consumable
    <3>4. quotes'[work[h].input.quote] # NoQuote
      BY <3>1, <3>3 DEF QuotesStay, Inputs
    <3>5. work' = [work EXCEPT ![h] = l]
      BY <2>1
    <3> HIDE DEF l
    <3> QED BY <3>1, <3>2, <3>4, <3>5, OneMoves
  <2>2. WorkStep
    BY <1>3, <2>1, AnswerMoves DEF ReadQuote
  <2>3. queue' \in Seq(Handlers)
    BY <1>0, <1>3, AnswerQueues DEF ReadQuote, Busy, At
  <2> QED BY <1>0, <1>3, <2>2, <2>3 DEF ReadQuote, TypeInv, QuotesStay
<1>4. CASE ConsumeQuote(h)
  <2>1. WorkStep
    <3>1. quotes[work[h].input.quote] # NoQuote
      BY <1>4 DEF ConsumeQuote, TypeInv, WorkFits, At
    <3> QED BY <1>4, <3>1, GotoMoves, AnswerMoves DEF ConsumeQuote, At, Place
  <2>2. queue' \in Seq(Handlers)
    BY <1>0, <1>4, AnswerQueues DEF ConsumeQuote, Busy, At
  <2> QED BY <1>0, <1>4, <2>1, <2>2 DEF ConsumeQuote, TypeInv, QuotesStay
<1>5. CASE EvaluateRisk(h)
  <2> DEFINE flags == assessRisk(quotes[work[h].input.quote].usd, work[h].input.recipient, clock)
  <2>1. ASSUME work' = [work EXCEPT ![h].at = "creating", ![h].flags = flags] PROVE WorkStep
    <3> DEFINE l == [work[h] EXCEPT !.at = "creating", !.flags = flags]
    <3>1. /\ work[h] \in WorkRecord /\ work[h].key \in Keys /\ work[h].input \in Inputs
          /\ quotes[work[h].input.quote] # NoQuote
      BY <1>5 DEF TypeInv, WorkFits, EvaluateRisk, At
    <3>2. l \in WorkRecord /\ l.key = work[h].key /\ l.input = work[h].input
      BY <3>1, RiskType DEF WorkRecord, Place
    <3>4. quotes'[work[h].input.quote] # NoQuote
      BY <3>1 DEF QuotesStay, Inputs
    <3>5. work' = [work EXCEPT ![h] = l]
      BY <2>1
    <3> HIDE DEF l
    <3> QED BY <3>1, <3>2, <3>4, <3>5, OneMoves
  <2>2. WorkStep
    BY <1>5, <2>1, AnswerMoves DEF EvaluateRisk
  <2>3. queue' \in Seq(Handlers)
    BY <1>0, <1>5, AnswerQueues DEF EvaluateRisk, Busy, At
  <2> QED BY <1>0, <1>5, <2>2, <2>3 DEF EvaluateRisk, TypeInv, QuotesStay
<1>6. CASE CreateTransfer(h)
  <2>1. WorkStep
    BY <1>6, GotoMoves, AnswerMoves DEF CreateTransfer, At, Place
  <2>2. queue' \in Seq(Handlers)
    BY <1>0, <1>6, AnswerQueues DEF CreateTransfer, Busy, At
  <2>3. transfers' \subseteq Transfer /\ IsFiniteSet(transfers')
    <3>1. NewTransfer(h) \in Transfer
      BY <1>6, TransferType DEF CreateTransfer
    <3>2. transfers' = transfers \/ transfers' = transfers \cup {NewTransfer(h)}
      BY <1>6, CreateTransferAdds
    <3>3. IsFiniteSet(transfers \cup {NewTransfer(h)})
      BY <1>0, FS_AddElement
    <3> QED BY <1>0, <3>1, <3>2, <3>3
  <2> QED BY <1>0, <1>6, <2>1, <2>2, <2>3 DEF CreateTransfer, TypeInv, QuotesStay
<1>7. CASE SaveKey(h)
  <2>1. WorkStep
    BY <1>7, AnswerMoves DEF SaveKey
  <2>2. queue' \in Seq(Handlers)
    BY <1>0, <1>7, AnswerQueues DEF SaveKey, Busy, At
  <2>3. saved' \in [Keys -> Inputs \cup {NoInput}]
    BY <1>0, <1>7 DEF SaveKey, TypeInv, WorkFits, WorkRecord
  <2> QED BY <1>0, <1>7, <2>1, <2>2, <2>3 DEF SaveKey, TypeInv, QuotesStay
<1> QED BY <1>1, <1>2, <1>3, <1>4, <1>5, <1>6, <1>7 DEF Continue

LEMMA RequestType ==
  ASSUME TypeInv, QuotesStay, NEW h \in Handlers, Request(h)
  PROVE  TypeInv'
<1>1. PICK k \in Keys, q \in Quotes, r \in Recipients :
        work' = [work EXCEPT ![h] = [Idle EXCEPT !.at = "waiting", !.key = k,
                                                 !.input = [quote |-> q, recipient |-> r]]]
  BY DEF Request
<1> DEFINE l == [Idle EXCEPT !.at = "waiting", !.key = k,
                             !.input = [quote |-> q, recipient |-> r]]
<1>2. l \in WorkRecord /\ l.at = "waiting" /\ l.key \in Keys /\ l.input \in Inputs
  BY DEF Idle, WorkRecord, Place, Inputs
<1>3. work' = [work EXCEPT ![h] = l]
  BY <1>1
<1> HIDE DEF l
<1>4. DOMAIN work' = Handlers /\ \A g \in Handlers : WorkFits(g)'
  BY <1>2, <1>3, OneMoves
<1>5. queue' \in Seq(Handlers)
  BY DEF Request, TypeInv
<1> QED BY <1>4, <1>5 DEF Request, TypeInv, QuotesStay

LEMMA NextType == ASSUME TypeInv, Mutex, [Next]_vars PROVE TypeInv'
<1>0. QuotesStay
  BY NextQuotesStay
<1>1. CASE UNCHANGED vars
  BY <1>0, <1>1, AllStay DEF vars, TypeInv, QuotesStay
<1>2. CASE Tick
  <2>1. clock' \in 0..Horizon
    BY <1>2, NumbersFacts DEF Tick, TypeInv
  <2> QED BY <1>0, <1>2, <2>1, AllStay DEF Tick, TypeInv, QuotesStay
<1>3. CASE TransferFails \/ TransferRevives
  <2>1. PICK t \in transfers, u \in Transfer : transfers' = (transfers \ {t}) \cup {u}
    BY <1>3, StatusChanges DEF OneChanges, Replaces
  <2>2. transfers \subseteq Transfer /\ IsFiniteSet(transfers)
    BY DEF TypeInv
  <2>3. transfers' \subseteq Transfer
    BY <2>1, <2>2
  <2>4. IsFiniteSet(transfers')
    BY <2>1, <2>2, FS_AddElement, FS_RemoveElement
  <2>5. UNCHANGED <<clock, quotes, saved, queue, work, faults>>
    BY <1>3, StatusChanges
  <2> QED BY <1>0, <2>3, <2>4, <2>5, AllStay DEF TypeInv, QuotesStay
<1>4. CASE Crash
  <2>1. PICK lost : work' = [h \in Handlers |-> IF h \in lost THEN Idle ELSE work[h]]
    BY <1>4 DEF Crash
  <2>2. \A g \in Handlers : WorkFits(g)'
    BY <1>0, <2>1, IdleFacts DEF TypeInv, WorkFits, At, QuotesStay, Inputs
  <2>3. faults' \in 0..MaxFaults /\ queue' \in Seq(Handlers)
    BY <1>4, NumbersFacts DEF Crash, Fault, TypeInv
  <2> QED BY <1>0, <1>4, <2>1, <2>2, <2>3 DEF Crash, TypeInv, QuotesStay
<1>5. ASSUME NEW q \in Quotes, CreateQuote(q) PROVE TypeInv'
  BY <1>0, <1>5, AllStay DEF CreateQuote, TypeInv, QuotesStay
<1>6. ASSUME NEW h \in Handlers, CallFails(h) PROVE TypeInv'
  <2>1. faults' \in 0..MaxFaults
    BY <1>6, NumbersFacts DEF CallFails, Fault, TypeInv
  <2>2. queue' \in Seq(Handlers)
    BY <1>6, AnswerQueues DEF CallFails, Busy
  <2>3. DOMAIN work' = Handlers /\ \A g \in Handlers : WorkFits(g)'
    BY <1>0, <1>6, AnswerMoves DEF CallFails
  <2> QED BY <1>0, <1>6, <2>1, <2>2, <2>3 DEF CallFails, TypeInv, QuotesStay
<1> QED BY <1>0, <1>1, <1>2, <1>3, <1>4, <1>5, <1>6, ContinueType, RequestType DEF Next

---------------------------------------------------------------------------
(* The mutex: within one process the request at its head is the only one that *)
(* runs.                                                                       *)

LEMMA AnswerLeavesOne ==
  ASSUME TypeInv, Mutex, NEW h \in Handlers, Busy(h), Answer(h)
  PROVE  Mutex'
<1>1. \A g \in Handlers : work'[g] = IF g = h THEN Idle ELSE work[g]
  BY DEF TypeInv, Answer
<1>2. OneProcess => \A g \in Handlers : ~Busy(g)'
  BY <1>1, IdleFacts DEF Mutex, Busy
<1> QED BY <1>2 DEF Mutex

LEMMA NextMutex == ASSUME TypeInv, Mutex, [Next]_vars PROVE Mutex'
<1>1. ASSUME UNCHANGED queue, \A h \in Handlers : Busy(h)' => Busy(h) PROVE Mutex'
  BY <1>1 DEF Mutex
<1>2. CASE UNCHANGED <<queue, work>>
  BY <1>1, <1>2 DEF Busy
<1>3. CASE UNCHANGED vars \/ Tick \/ TransferFails \/ TransferRevives \/ \E q \in Quotes : CreateQuote(q)
  BY <1>2, <1>3 DEF vars, Tick, TransferFails, TransferRevives, Becomes, CreateQuote
<1>4. CASE Crash
  <2>1. OneProcess => work' = [h \in Handlers |-> Idle]
    BY <1>4 DEF Crash
  <2> QED BY <2>1, IdleFacts DEF Mutex, Busy
<1>5. ASSUME NEW h \in Handlers, Request(h) PROVE Mutex'
  <2>1. \A g \in Handlers : Busy(g)' => Busy(g)
    BY <1>5 DEF Request, Busy, TypeInv, Idle
  <2>2. OneProcess => queue' = Append(queue, h)
    BY <1>5 DEF Request
  <2>3. queue # <<>> => Append(queue, h) # <<>> /\ Head(Append(queue, h)) = Head(queue)
    BY DEF TypeInv
  <2> QED BY <2>1, <2>2, <2>3 DEF Mutex
<1>6. ASSUME NEW h \in Handlers, Continue(h) \/ CallFails(h) PROVE Mutex'
  <2>1. CASE Enter(h)
    <3>1. UNCHANGED queue /\ \A g \in Handlers \ {h} : work'[g] = work[g]
      BY <2>1 DEF Enter, Goto, TypeInv
    <3>2. OneProcess => queue # <<>> /\ Head(queue) = h
      BY <2>1 DEF Enter
    <3> QED BY <3>1, <3>2 DEF Mutex, Busy
  <2>2. CASE ~Enter(h)
    <3>1. Busy(h)
      BY <1>6, <2>2 DEF Continue, CallFails, FindKey, ReadQuote, ConsumeQuote, EvaluateRisk,
         CreateTransfer, SaveKey, Busy, At
    <3>2. CASE Answer(h)
      BY <3>1, <3>2, AnswerLeavesOne
    <3>3. CASE UNCHANGED queue /\ \A g \in Handlers \ {h} : work'[g] = work[g]
      BY <1>1, <3>1, <3>3 DEF Busy
    <3> QED BY <1>6, <2>2, <3>2, <3>3 DEF Continue, CallFails, FindKey, ReadQuote, ConsumeQuote,
            EvaluateRisk, CreateTransfer, SaveKey, Goto, TypeInv
  <2> QED BY <2>1, <2>2
<1> QED BY <1>3, <1>4, <1>5, <1>6 DEF Next

---------------------------------------------------------------------------
(* What a step does to a handler. *)

Keeps(h) == work'[h].key = work[h].key /\ work'[h].input = work[h].input

\* The places a request comes to, and what it has just learnt there.
Advance(h) ==
  \/ Request(h) /\ work'[h].at = "waiting"
  \/ Keeps(h) /\ Enter(h) /\ work'[h].at = "looking"
  \/ Keeps(h) /\ FindKey(h) /\ work'[h].at = "reading" /\ saved[work[h].key] = NoInput
  \/ Keeps(h) /\ ReadQuote(h) /\ work'[h].at = "consuming"
  \/ Keeps(h) /\ ConsumeQuote(h) /\ work'[h].at = "weighing"
  \/ /\ Keeps(h) /\ EvaluateRisk(h) /\ work'[h].at = "creating"
     /\ WithinLimits(quotes[work[h].input.quote].usd, clock)
     /\ work'[h].flags = assessRisk(quotes[work[h].input.quote].usd, work[h].input.recipient, clock)
  \/ Keeps(h) /\ CreateTransfer(h) /\ work'[h].at = "saving" /\ transfers' = transfers \cup {NewTransfer(h)}

LEMMA GotoFacts ==
  ASSUME TypeInv, NEW h \in Handlers, NEW place, Goto(h, place)
  PROVE  Keeps(h) /\ work'[h].at = place
BY DEF TypeInv, WorkFits, WorkRecord, Goto, Keeps

LEMMA ContinueAdvances ==
  ASSUME TypeInv, NEW h \in Handlers, Continue(h), ~Answer(h)
  PROVE  Advance(h)
<1>0. work[h] \in WorkRecord
  BY DEF TypeInv, WorkFits
<1>1. CASE Enter(h)
  BY <1>1, GotoFacts DEF Enter, Advance
<1>2. CASE FindKey(h)
  BY <1>2, GotoFacts DEF FindKey, Advance
<1>3. CASE ReadQuote(h)
  <2>1. work' = [work EXCEPT ![h].at = "consuming", ![h].now = clock]
    BY <1>3 DEF ReadQuote
  <2>2. Keeps(h) /\ work'[h].at = "consuming"
    BY <1>0, <2>1 DEF TypeInv, WorkRecord, Keeps
  <2> QED BY <1>3, <2>2 DEF Advance
<1>4. CASE ConsumeQuote(h)
  BY <1>4, GotoFacts DEF ConsumeQuote, Advance
<1>5. CASE EvaluateRisk(h)
  <2> DEFINE usd == quotes[work[h].input.quote].usd
             flags == assessRisk(usd, work[h].input.recipient, clock)
  <2>1. WithinLimits(usd, clock) /\ work' = [work EXCEPT ![h].at = "creating", ![h].flags = flags]
    BY <1>5 DEF EvaluateRisk
  <2> HIDE DEF flags, usd
  <2>2. Keeps(h) /\ work'[h].at = "creating" /\ work'[h].flags = flags
    BY <1>0, <2>1 DEF TypeInv, WorkRecord, Keeps
  <2> QED BY <1>5, <2>1, <2>2 DEF Advance, flags, usd
<1>6. CASE CreateTransfer(h)
  <2>1. Goto(h, "saving") /\ transfers' = transfers \cup {NewTransfer(h)}
    BY <1>6 DEF CreateTransfer, NewTransfer
  <2> QED BY <1>6, <2>1, GotoFacts DEF Advance
<1>7. ~SaveKey(h)
  BY DEF SaveKey
<1> QED BY <1>1, <1>2, <1>3, <1>4, <1>5, <1>6, <1>7 DEF Continue

\* A handler that does not rest, or stop, takes one step of its own.
LEMMA HandlerMoves ==
  ASSUME TypeInv, [Next]_vars, NEW g \in Handlers
  PROVE  work'[g] = work[g] \/ work'[g] = Idle \/ Advance(g)
<1>1. CASE UNCHANGED work
  BY <1>1
<1>2. CASE UNCHANGED vars \/ Tick \/ TransferFails \/ TransferRevives \/ \E q \in Quotes : CreateQuote(q)
  BY <1>1, <1>2 DEF vars, Tick, TransferFails, TransferRevives, Becomes, CreateQuote
<1>3. CASE Crash
  BY <1>3 DEF Crash
<1>4. ASSUME NEW h \in Handlers, Request(h) \/ Continue(h) \/ CallFails(h), g # h
      PROVE  work'[g] = work[g]
  BY <1>4 DEF Request, Continue, CallFails, Enter, FindKey, ReadQuote, ConsumeQuote, EvaluateRisk,
     CreateTransfer, SaveKey, Goto, Answer, TypeInv
<1>5. CASE Request(g)
  <2>1. work'[g].at = "waiting"
    BY <1>5 DEF Request, Idle, TypeInv
  <2> QED BY <1>5, <2>1 DEF Advance
<1>6. CASE Answer(g)
  BY <1>6 DEF Answer, TypeInv
<1>7. CASE Continue(g)
  BY <1>6, <1>7, ContinueAdvances
<1>8. CASE CallFails(g)
  BY <1>6, <1>8 DEF CallFails
<1> QED BY <1>2, <1>3, <1>4, <1>5, <1>7, <1>8 DEF Next

\* Where a handler can have come from.
LEMMA SavingFacts ==
  ASSUME TypeInv, [Next]_vars, NEW g \in Handlers, work'[g].at = "saving"
  PROVE  \/ work'[g] = work[g]
         \/ Keeps(g) /\ CreateTransfer(g) /\ transfers' = transfers \cup {NewTransfer(g)}
BY HandlerMoves, IdleFacts DEF Advance

LEMMA CreatingFacts ==
  ASSUME TypeInv, [Next]_vars, NEW g \in Handlers, work'[g].at = "creating"
  PROVE  \/ work'[g] = work[g]
         \/ /\ Keeps(g) /\ EvaluateRisk(g)
            /\ WithinLimits(quotes[work[g].input.quote].usd, clock)
            /\ work'[g].flags = assessRisk(quotes[work[g].input.quote].usd, work[g].input.recipient, clock)
BY HandlerMoves, IdleFacts DEF Advance

LEMMA UnsavedFacts ==
  ASSUME TypeInv, [Next]_vars, NEW g \in Handlers,
         work'[g].at \in {"reading", "consuming", "weighing", "creating"}
  PROVE  \/ /\ Keeps(g) /\ work[g].at \in {"reading", "consuming", "weighing", "creating"}
         \/ Keeps(g) /\ FindKey(g) /\ saved[work[g].key] = NoInput
BY HandlerMoves, IdleFacts DEF Advance, Keeps, ReadQuote, ConsumeQuote, EvaluateRisk, At

\* The transfers: one is made, one fails, or nothing happens to them.
LEMMA TransfersMove ==
  ASSUME TypeInv, [Next]_vars
  PROVE  \/ UNCHANGED transfers
         \/ /\ OneChanges
            /\ UNCHANGED <<clock, quotes, saved, queue, work, faults>>
         \/ \E h \in Handlers :
              /\ CreateTransfer(h)
              /\ transfers' = transfers \cup {NewTransfer(h)} /\ Goto(h, "saving")
              /\ \A t \in transfers : t.key # work[h].key /\ t.quote # work[h].input.quote
              /\ NewTransfer(h) \notin transfers
<1>1. CASE UNCHANGED vars \/ Tick \/ Crash \/ \E q \in Quotes : CreateQuote(q)
  BY <1>1 DEF vars, Tick, Crash, CreateQuote
<1>2. CASE TransferFails \/ TransferRevives
  BY <1>2, StatusChanges
<1>3. ASSUME NEW h \in Handlers, CreateTransfer(h), ~UNCHANGED transfers
      PROVE  /\ transfers' = transfers \cup {NewTransfer(h)} /\ Goto(h, "saving")
             /\ \A t \in transfers : t.key # work[h].key /\ t.quote # work[h].input.quote
             /\ NewTransfer(h) \notin transfers
  BY <1>3, CreateTransferAdds
<1>4. ASSUME NEW h \in Handlers, Request(h) \/ Continue(h) \/ CallFails(h), ~CreateTransfer(h)
      PROVE  UNCHANGED transfers
  BY <1>4 DEF Request, Continue, CallFails, Enter, FindKey, ReadQuote, ConsumeQuote, EvaluateRisk,
     SaveKey
<1> QED BY <1>1, <1>2, <1>3, <1>4 DEF Next

\* A transfer stays, with what it says of its request.
LEMMA TransfersStay ==
  ASSUME TypeInv, [Next]_vars, NEW t \in transfers
  PROVE  \E u \in transfers' : u.key = t.key /\ u.quote = t.quote
<1>1. CASE UNCHANGED transfers
  BY <1>1
<1>2. CASE OneChanges
  <2>1. PICK x \in transfers, y \in Transfer : Replaces(x, y)
    BY <1>2 DEF OneChanges
  <2> QED BY <2>1 DEF Replaces
<1> QED BY <1>1, <1>2, TransfersMove

---------------------------------------------------------------------------
(* One transfer for a key and for a quote. *)

KeyInv ==
  /\ \A t, u \in transfers : t.key = u.key \/ t.quote = u.quote => t = u
  /\ \A k \in Keys : saved[k] # NoInput =>
       \E t \in transfers : t.key = k /\ t.quote = saved[k].quote
  /\ \A h \in Handlers : At(h, "saving") =>
       \E t \in transfers : t.key = work[h].key /\ t.quote = work[h].input.quote

LEMMA NextUnique ==
  ASSUME TypeInv, KeyInv, [Next]_vars
  PROVE  \A t, u \in transfers' : t.key = u.key \/ t.quote = u.quote => t = u
<1>1. CASE UNCHANGED transfers
  BY <1>1 DEF KeyInv
<1>2. CASE OneChanges
  <2>1. PICK x \in transfers, y \in Transfer : Replaces(x, y)
    BY <1>2 DEF OneChanges
  <2>2. y.key = x.key /\ y.quote = x.quote
    BY <2>1 DEF Replaces
  <2>3. transfers' = (transfers \ {x}) \cup {y}
    BY <2>1 DEF Replaces
  <2>4. ASSUME NEW t \in transfers \ {x} PROVE t.key # y.key /\ t.quote # y.quote
    BY <2>2, <2>4 DEF KeyInv
  <2> QED BY <2>3, <2>4 DEF KeyInv
<1>3. ASSUME NEW h \in Handlers, transfers' = transfers \cup {NewTransfer(h)},
             \A t \in transfers : t.key # work[h].key /\ t.quote # work[h].input.quote
      PROVE  \A t, u \in transfers' : t.key = u.key \/ t.quote = u.quote => t = u
  <2>1. NewTransfer(h).key = work[h].key /\ NewTransfer(h).quote = work[h].input.quote
    BY DEF NewTransfer
  <2> QED BY <1>3, <2>1 DEF KeyInv
<1> QED BY <1>1, <1>2, <1>3, TransfersMove

LEMMA SavedMoves ==
  ASSUME TypeInv, [Next]_vars
  PROVE  \/ UNCHANGED saved
         \/ \E h \in Handlers : SaveKey(h)
BY DEF Next, vars, Tick, TransferFails, TransferRevives, Becomes, Crash, CreateQuote, Request, Continue, CallFails, Enter,
   FindKey, ReadQuote, ConsumeQuote, EvaluateRisk, CreateTransfer

\* A row of a key names an input of its own.
LEMMA SaveKeyFacts ==
  ASSUME TypeInv, NEW h \in Handlers, SaveKey(h)
  PROVE  /\ At(h, "saving") /\ work[h].key \in Keys /\ work[h].input \in Inputs
         /\ saved'[work[h].key] = work[h].input
         /\ work[h].input # NoInput
         /\ \A k \in Keys \ {work[h].key} : saved'[k] = saved[k]
         /\ UNCHANGED <<transfers, faults>>
<1>1. At(h, "saving") /\ work[h].key \in Keys /\ work[h].input \in Inputs
  BY DEF SaveKey, TypeInv, WorkFits, At
<1>2. NoInput \notin Inputs
  BY ConstantsAssumption DEF ConstantsAssumption, NoInput, Inputs
<1> QED BY <1>1, <1>2 DEF SaveKey, TypeInv

LEMMA NextKeys == ASSUME TypeInv, KeyInv, [Next]_vars PROVE KeyInv'
<1>1. ASSUME NEW k \in Keys, saved'[k] # NoInput
      PROVE  \E t \in transfers' : t.key = k /\ t.quote = saved'[k].quote
  <2>1. \E t \in transfers : t.key = k /\ t.quote = saved'[k].quote
    <3>1. CASE UNCHANGED saved
      BY <1>1, <3>1 DEF KeyInv
    <3>2. ASSUME NEW h \in Handlers, SaveKey(h)
          PROVE  \E t \in transfers : t.key = k /\ t.quote = saved'[k].quote
      BY <1>1, <3>2, SaveKeyFacts DEF KeyInv
    <3> QED BY <3>1, <3>2, SavedMoves
  <2> QED BY <2>1, TransfersStay
<1>2. ASSUME NEW h \in Handlers, At(h, "saving")'
      PROVE  \E t \in transfers' : t.key = work'[h].key /\ t.quote = work'[h].input.quote
  <2>1. CASE work'[h] = work[h]
    BY <1>2, <2>1, TransfersStay DEF KeyInv, At
  <2>2. CASE Keeps(h) /\ transfers' = transfers \cup {NewTransfer(h)}
    <3>1. NewTransfer(h).key = work[h].key /\ NewTransfer(h).quote = work[h].input.quote
      BY DEF NewTransfer
    <3> QED BY <2>2, <3>1 DEF Keeps
  <2> QED BY <1>2, <2>1, <2>2, SavingFacts DEF At
<1> QED BY <1>1, <1>2, NextUnique DEF KeyInv

LEMMA InitKeys == ASSUME Init PROVE TypeInv /\ Mutex /\ KeyInv
<1>1. Idle \in WorkRecord /\ Idle.at = "idle"
  BY IdleFacts
<1>2. TypeInv
  BY <1>1, NumbersFacts, FS_EmptySet DEF Init, TypeInv, WorkFits, At
<1>3. Mutex
  BY <1>1 DEF Init, Mutex, Busy
<1> QED BY <1>1, <1>2, <1>3 DEF Init, KeyInv, At

(* A key makes one transfer and so does a quote, whatever is repeated and   *)
(* whatever stops (POST /api/transfers): the unique columns of the row, and *)
(* a key that is only saved for the transfer its request made.              *)
THEOREM KeysAndQuotesBuyOnce == Spec => []OneTransferEach
<1>1. Init => TypeInv /\ Mutex /\ KeyInv
  BY InitKeys
<1>2. TypeInv /\ Mutex /\ KeyInv /\ [Next]_vars => (TypeInv /\ Mutex /\ KeyInv)'
  BY NextType, NextMutex, NextKeys
<1>3. KeyInv => OneTransferEach
  BY DEF KeyInv, OneTransferEach
<1> QED BY <1>1, <1>2, <1>3, PTL DEF Spec

---------------------------------------------------------------------------
(* A request that is repeated is not told that its own transfer used its quote. *)

ReplayInv ==
  OneProcess =>
    /\ \A h \in Handlers : work[h].at \in {"reading", "consuming", "weighing", "creating"} =>
         saved[work[h].key] = NoInput
    /\ faults = 0 => \A t \in transfers :
         saved[t.key] = NoInput => \E h \in Handlers : At(h, "saving") /\ work[h].key = t.key

\* Within one process one handler runs.
LEMMA Alone ==
  ASSUME TypeInv, Mutex, OneProcess, NEW g \in Handlers, NEW h \in Handlers, Busy(g), Busy(h)
  PROVE  g = h
BY DEF Mutex

LEMMA FaultsGrow ==
  ASSUME TypeInv, [Next]_vars
  PROVE  /\ faults' = 0 => faults = 0
         /\ Crash \/ (\E h \in Handlers : CallFails(h)) => faults' # 0
<1>1. ASSUME Fault PROVE faults' # 0
  BY <1>1, NumbersFacts DEF Fault, TypeInv
<1> QED BY <1>1 DEF Next, vars, Tick, TransferFails, TransferRevives, Becomes, Crash, CreateQuote, Request, Continue, CallFails, Enter,
   FindKey, ReadQuote, ConsumeQuote, EvaluateRisk, CreateTransfer, SaveKey

\* A request whose transfer exists leaves its place only to save its key.
LEMMA SavingStays ==
  ASSUME TypeInv, [Next]_vars, NEW h \in Handlers, At(h, "saving"), ~SaveKey(h), ~Crash,
         \A g \in Handlers : ~CallFails(g)
  PROVE  work'[h] = work[h]
<1>1. ASSUME NEW g \in Handlers, Request(g) \/ Continue(g), g # h PROVE work'[h] = work[h]
  BY <1>1 DEF Request, Continue, Enter, FindKey, ReadQuote, ConsumeQuote, EvaluateRisk,
     CreateTransfer, SaveKey, Goto, Answer, TypeInv
<1>2. ~Request(h) /\ ~Continue(h)
  BY DEF Request, Continue, Enter, FindKey, ReadQuote, ConsumeQuote, EvaluateRisk, CreateTransfer, At
<1> QED BY <1>1, <1>2 DEF Next, vars, Tick, TransferFails, TransferRevives, Becomes, CreateQuote

LEMMA NextReplay == ASSUME TypeInv, Mutex, ReplayInv, [Next]_vars PROVE ReplayInv'
<1> SUFFICES ASSUME OneProcess PROVE ReplayInv'
  BY DEF ReplayInv
<1>1. ASSUME NEW h \in Handlers,
             work'[h].at \in {"reading", "consuming", "weighing", "creating"}
      PROVE  saved'[work'[h].key] = NoInput
  <2>1. Keeps(h) /\ Busy(h) /\ work[h].at # "saving" /\ saved[work[h].key] = NoInput
    BY <1>1, UnsavedFacts DEF ReplayInv, FindKey, At, Busy
  <2>2. \A g \in Handlers : ~SaveKey(g)
    BY <2>1, Alone DEF SaveKey, At, Busy
  <2> QED BY <2>1, <2>2, SavedMoves DEF Keeps
<1>2. ASSUME faults' = 0, NEW t \in transfers', saved'[t.key] = NoInput
      PROVE  \E h \in Handlers : At(h, "saving")' /\ work'[h].key = t.key
  <2>0. /\ faults = 0 /\ ~Crash /\ \A h \in Handlers : ~CallFails(h)
    BY <1>2, FaultsGrow
  <2>1. CASE \E h \in Handlers : transfers' = transfers \cup {NewTransfer(h)} /\ Goto(h, "saving") /\ t = NewTransfer(h)
    <3>1. PICK h \in Handlers : Goto(h, "saving") /\ t = NewTransfer(h)
      BY <2>1
    <3> QED BY <3>1, GotoFacts DEF NewTransfer, Keeps, At
  <2>2. CASE \E u \in transfers : u.key = t.key
    <3>1. PICK u \in transfers : u.key = t.key
      BY <2>2
    <3>2. u.key \in Keys
      BY DEF TypeInv, Transfer
    <3>3. CASE \E h \in Handlers : SaveKey(h) /\ work[h].key = t.key
      BY <1>2, <3>3, SaveKeyFacts
    <3>4. CASE \A h \in Handlers : SaveKey(h) => work[h].key # t.key
      <4>1. saved[t.key] = NoInput
        BY <1>2, <3>1, <3>2, <3>4, SavedMoves, SaveKeyFacts
      <4>2. PICK h \in Handlers : At(h, "saving") /\ work[h].key = t.key
        BY <2>0, <3>1, <4>1 DEF ReplayInv
      <4>3. work'[h] = work[h]
        BY <2>0, <3>4, <4>2, SavingStays
      <4> QED BY <4>2, <4>3 DEF At
    <3> QED BY <3>3, <3>4
  <2>3. (\E h \in Handlers : transfers' = transfers \cup {NewTransfer(h)} /\ Goto(h, "saving") /\ t = NewTransfer(h))
        \/ \E u \in transfers : u.key = t.key
    <3>1. OneChanges => \A y \in transfers' : \E u \in transfers : u.key = y.key
      BY DEF OneChanges, Replaces
    <3> QED BY <3>1, TransfersMove
  <2> QED BY <2>1, <2>2, <2>3
<1> QED BY <1>1, <1>2 DEF ReplayInv

\* The step that refuses: the key is not saved and no request is about to save it.
LEMMA RejectedFacts ==
  ASSUME TypeInv, Mutex, ReplayInv, [Next]_vars, OneProcess, NEW h \in Handlers, Rejected(h),
         faults = 0
  PROVE  \A t \in transfers : t.key # work[h].key
<1>1. Busy(h) /\ work[h].at # "saving" /\ saved[work[h].key] = NoInput
  BY DEF Rejected, Busy, ReplayInv
<1>2. \A g \in Handlers : ~At(g, "saving")
  BY <1>1, Alone DEF Busy, At
<1> QED BY <1>1, <1>2 DEF ReplayInv

(* Within one process, and until a call is lost or the process stops, a     *)
(* request that is sent again is not refused for its own transfer           *)
(* (POST /api/transfers, KeyedMutex).                                       *)
THEOREM OwnTransferAnswers == Spec => OwnTransferIsReplayed
<1> DEFINE Step == \A h \in Handlers : OneProcess /\ Rejected(h) =>
                     faults' > 0 \/ \A t \in transfers : t.key # work[h].key
<1>1. Init => TypeInv /\ Mutex /\ ReplayInv
  <2>1. Init => ReplayInv
    BY IdleFacts DEF Init, ReplayInv
  <2> QED BY <2>1, InitKeys
<1>2. TypeInv /\ Mutex /\ ReplayInv /\ [Next]_vars => (TypeInv /\ Mutex /\ ReplayInv)'
  BY NextType, NextMutex, NextReplay
<1>3. TypeInv /\ TypeInv' /\ Mutex /\ ReplayInv /\ [Next]_vars => Step
  <2> SUFFICES ASSUME TypeInv, TypeInv', Mutex, ReplayInv, [Next]_vars,
                      NEW h \in Handlers, OneProcess, Rejected(h), ~(faults' > 0)
               PROVE  \A t \in transfers : t.key # work[h].key
    OBVIOUS
  <2>1. faults' = 0
    BY NumbersFacts DEF TypeInv
  <2> QED BY <2>1, FaultsGrow, RejectedFacts
<1>4. TypeInv /\ TypeInv' /\ Mutex /\ ReplayInv /\ [Next]_vars => [Step]_vars
  BY <1>3
<1> HIDE DEF Step
<1>5. Spec => [][Step]_vars
  BY <1>1, <1>2, <1>4, PTL DEF Spec
<1> QED BY <1>5 DEF OwnTransferIsReplayed, Step

---------------------------------------------------------------------------
(* What the transfers of a set are worth together. *)

Worth == [t \in Transfer |-> t.usd]

\* Total is a sum: its order does not matter.
LEMMA TotalIsSum ==
  ASSUME NEW S \in SUBSET Transfer, IsFiniteSet(S)
  PROVE  Total(S) = SumOver(Worth, S)
<1> DEFINE Rec(g) == g = [s \in SUBSET S |->
                           IF s = {} THEN 0 ELSE Some(s).usd + g[s \ {Some(s)}]]
           G == CHOOSE g : Rec(g)
<1>1. Total(S) = G[S]
  BY DEF Total, MapThenSumSet, MapThenFoldSet, Some
<1>2. \A g : Sums(Worth, S, g) <=> Rec(g)
  <2>1. \A s \in SUBSET S : s # {} => Worth[Some(s)] = Some(s).usd
    BY SomeIsElement DEF Worth
  <2> QED BY <2>1 DEF Sums
<1>3. \E g : Rec(g)
  BY <1>2, SumsExist
<1>4. Rec(G)
  BY <1>3
<1> HIDE DEF G, Rec
<1>5. Sums(Worth, S, G)
  BY <1>2, <1>4
<1>6. SumOver(Worth, S) = G[S]
  BY <1>5, SumIsValue
<1> QED BY <1>1, <1>6

LEMMA WorthIsNat == \A t \in Transfer : Worth[t] = t.usd /\ Worth[t] \in Nat
BY NumbersFacts DEF Worth, Transfer

\* Less is worth less.
LEMMA TotalGrows ==
  ASSUME NEW S \in SUBSET Transfer, IsFiniteSet(S), NEW T \in SUBSET S
  PROVE  Total(T) \in Nat /\ Total(S) \in Nat /\ Total(T) <= Total(S)
<1>1. IsFiniteSet(T) /\ T \in SUBSET Transfer
  BY FS_Subset
<1>2. \A x \in S : Worth[x] \in Nat
  BY WorthIsNat
<1>3. SumOver(Worth, T) \in Nat /\ SumOver(Worth, T) <= SumOver(Worth, S)
  BY <1>2, SumGrows
<1>4. SumOver(Worth, S) \in Nat
  BY <1>2, SumGrows
<1> QED BY <1>1, <1>3, <1>4, TotalIsSum

\* One transfer more is worth what it adds.
LEMMA TotalAdds ==
  ASSUME NEW S \in SUBSET Transfer, IsFiniteSet(S), NEW t \in Transfer, t \notin S
  PROVE  Total(S \cup {t}) = Total(S) + t.usd
<1>1. IsFiniteSet(S \cup {t}) /\ S \cup {t} \in SUBSET Transfer
  BY FS_AddElement
<1>2. Weights(Worth, S \cup {t})
  BY WorthIsNat DEF Weights
<1>3. SumOver(Worth, S \cup {t}) = SumOver(Worth, S) + Worth[t]
  BY <1>1, <1>2, SumAddElement
<1> QED BY <1>1, <1>3, TotalIsSum, WorthIsNat

---------------------------------------------------------------------------
(* The limits. *)

\* The transfers that never failed, in the window of a length that ends at n,
\* and what they are worth that count when a request is weighed.
Steady(u) == u.status = "live"
SteadySpent(length, now) == Total({t \in Since(length, now) : Steady(t)})

Window(length, n) == {u \in transfers : Steady(u) /\ u.at <= n /\ u.at + length >= n}

\* No window is worth more than its limit, whether it ends at a transfer or  *)
\* not, and a request that was let through leaves the limit whole.
LimitInv(length, limit) ==
  OneProcess =>
    /\ \A n \in Nat : Total(Window(length, n)) <= limit
    /\ \A h \in Handlers : At(h, "creating") =>
         SteadySpent(length, clock) + quotes[work[h].input.quote].usd <= limit

LEMMA WindowFacts ==
  ASSUME TypeInv, NEW length \in Nat, NEW n \in Nat
  PROVE  /\ Window(length, n) \in SUBSET Transfer /\ IsFiniteSet(Window(length, n))
         /\ Total(Window(length, n)) \in Nat
         /\ Since(length, n) \in SUBSET transfers /\ IsFiniteSet(Since(length, n))
         /\ {t \in Since(length, n) : Steady(t)} \in SUBSET Transfer
         /\ IsFiniteSet({t \in Since(length, n) : Steady(t)})
         /\ SteadySpent(length, n) \in Nat
<1>0. transfers \in SUBSET Transfer /\ IsFiniteSet(transfers)
  BY DEF TypeInv
<1>1. Window(length, n) \in SUBSET transfers /\ Since(length, n) \in SUBSET transfers
      /\ {t \in Since(length, n) : Steady(t)} \in SUBSET transfers
  BY DEF Window, Since
<1>2. IsFiniteSet(Window(length, n)) /\ IsFiniteSet(Since(length, n))
      /\ IsFiniteSet({t \in Since(length, n) : Steady(t)})
  BY <1>0, <1>1, FS_Subset
<1> QED BY <1>0, <1>1, <1>2, TotalGrows DEF SteadySpent

\* Without a new transfer, and as time goes by, less counts.
LEMMA LessCounts ==
  ASSUME TypeInv, TypeInv', [Next]_vars, NEW length \in Nat,
         UNCHANGED transfers
         \/ OneChanges
  PROVE  /\ \A n \in Nat : /\ Total(Window(length, n)') \in Nat
                           /\ Total(Window(length, n)') <= Total(Window(length, n))
         /\ SteadySpent(length, clock)' \in Nat /\ SteadySpent(length, clock)' <= SteadySpent(length, clock)
<1>0. clock \in Nat /\ clock' \in Nat /\ clock <= clock'
  <2>1. clock \in Nat /\ clock' \in Nat
    BY NumbersFacts DEF TypeInv
  <2>2. clock' = clock \/ clock' = clock + 1
    BY DEF Next, vars, Tick, TransferFails, TransferRevives, Becomes, Crash, CreateQuote, Request, Continue, CallFails,
       Enter, FindKey, ReadQuote, ConsumeQuote, EvaluateRisk, CreateTransfer, SaveKey
  <2> QED BY <2>1, <2>2
<1>1. \A t \in transfers' : Steady(t) => t \in transfers
  BY DEF OneChanges, Replaces, Steady
<1>2. \A t \in transfers' : t.at \in Nat
  BY DEF TypeInv, Transfer
<1>3. ASSUME NEW n \in Nat 
      PROVE  /\ Total(Window(length, n)') \in Nat
             /\ Total(Window(length, n)') <= Total(Window(length, n))
  <2>1. Window(length, n)' \in SUBSET Window(length, n)
    BY <1>1 DEF Window, Steady
  <2> QED BY <2>1, WindowFacts, TotalGrows
<1>4. SteadySpent(length, clock)' \in Nat /\ SteadySpent(length, clock)' <= SteadySpent(length, clock)
  <2> DEFINE S == {t \in Since(length, clock) : Steady(t)}
             T == {t \in Since(length, clock)' : Steady(t)}
  <2>1. T \in SUBSET S
    BY <1>0, <1>1, <1>2 DEF Since, Steady
  <2>2. S \in SUBSET Transfer /\ IsFiniteSet(S)
    BY <1>0, WindowFacts
  <2>3. SteadySpent(length, clock) = Total(S) /\ SteadySpent(length, clock)' = Total(T)
    BY DEF SteadySpent, Steady
  <2> HIDE DEF S, T
  <2> QED BY <2>1, <2>2, <2>3, TotalGrows
<1> QED BY <1>3, <1>4

\* What a transfer adds to a window that ends now, or later, was let through.
LEMMA MoreCounts ==
  ASSUME TypeInv, NEW length \in Nat, NEW limit \in Nat, LimitInv(length, limit), OneProcess,
         NEW h \in Handlers, At(h, "creating"), transfers' = transfers \cup {NewTransfer(h)},
         NewTransfer(h) \notin transfers, NEW n \in Nat
  PROVE  Total(Window(length, n)') <= limit
<1> DEFINE new == NewTransfer(h)
           W == Window(length, n)
<1>0. clock \in Nat /\ new \in Transfer
  BY NumbersFacts, TransferType DEF TypeInv
<1>1. new.at = clock /\ new.usd = quotes[work[h].input.quote].usd
  BY DEF NewTransfer
<1>2. W \in SUBSET Transfer /\ IsFiniteSet(W) /\ Total(W) \in Nat /\ Total(W) <= limit
  BY WindowFacts DEF LimitInv
<1>3. new \notin W
  BY DEF Window
<1> HIDE DEF new
<1>4. Window(length, n)' = {u \in transfers \cup {new} : Steady(u) /\ u.at <= n /\ u.at + length >= n}
  BY DEF Window, Steady, new
<1>5. CASE ~(clock <= n)
  <2>1. Window(length, n)' = W
    BY <1>0, <1>1, <1>4, <1>5 DEF Window
  <2> QED BY <1>2, <2>1
<1>6. CASE clock <= n
  <2> DEFINE S == {t \in Since(length, clock) : Steady(t)}
  <2>1. W \in SUBSET S
    <3>1. \A t \in transfers : t.at \in Nat
      BY DEF TypeInv, Transfer
    <3> QED BY <1>0, <1>6, <3>1 DEF Window, Since
  <2>2. Total(W) <= Total(S) /\ Total(S) \in Nat
    <3>1. S \in SUBSET Transfer /\ IsFiniteSet(S)
      BY <1>0, WindowFacts
    <3> HIDE DEF S, W
    <3> QED BY <2>1, <3>1, TotalGrows
  <2>3. Total(S) + new.usd <= limit
    BY <1>1 DEF LimitInv, SteadySpent
  <2>4. Window(length, n)' = W \/ Window(length, n)' = W \cup {new}
    BY <1>4 DEF Window
  <2>5. Total(W \cup {new}) = Total(W) + new.usd
    <3> HIDE DEF W
    <3> QED BY <1>0, <1>2, <1>3, TotalAdds
  <2>6. new.usd \in Nat
    BY <1>0, NumbersFacts DEF Transfer
  <2> HIDE DEF S, W
  <2>7. Total(W \cup {new}) <= limit
    <3>1. limit \in Int /\ Total(W) \in Int /\ Total(S) \in Int /\ new.usd \in Int
      BY <1>2, <2>2, <2>6
    <3> QED BY <2>2, <2>3, <2>5, <3>1
  <2> QED BY <1>2, <2>4, <2>7
<1> QED BY <1>5, <1>6

LEMMA ClockMoves ==
  ASSUME TypeInv, [Next]_vars
  PROVE  clock' = clock \/ (Tick /\ UNCHANGED <<transfers, quotes, work>>)
BY DEF Next, vars, Tick, TransferFails, TransferRevives, Becomes, Crash, CreateQuote, Request, Continue, CallFails,
   Enter, FindKey, ReadQuote, ConsumeQuote, EvaluateRisk, CreateTransfer, SaveKey

\* Within one process a transfer is made by the only request that runs.
LEMMA CreatesAlone ==
  ASSUME TypeInv, Mutex, OneProcess, NEW h \in Handlers, CreateTransfer(h), Goto(h, "saving"),
         NEW g \in Handlers
  PROVE  ~At(g, "creating")'
<1>1. At(h, "creating") /\ Busy(h) /\ work'[h].at = "saving"
  BY GotoFacts DEF CreateTransfer, At, Busy
<1>2. g # h => work'[g] = work[g] /\ ~Busy(g)
  BY <1>1, Alone DEF Goto, TypeInv
<1> QED BY <1>1, <1>2 DEF At, Busy

\* What never failed counts, so a request is let through by what never failed too.
LEMMA WithinFacts ==
  ASSUME TypeInv, NEW usd \in Nat, NEW now \in Nat, WithinLimits(usd, now),
         NEW length \in Nat, NEW limit \in Nat,
         <<length, limit>> \in {<<Day, DailyLimit>>, <<Week, WeeklyLimit>>}
  PROVE  SteadySpent(length, now) + usd <= limit
<1> DEFINE S == {t \in Since(length, now) : Counts(t)}
           T == {t \in Since(length, now) : Steady(t)}
<1>1. T \in SUBSET S
  BY DEF Counts, Steady
<1>2. S \in SUBSET Transfer /\ IsFiniteSet(S)
  <2>1. S \in SUBSET transfers
    BY DEF Since
  <2> QED BY <2>1, FS_Subset DEF TypeInv
<1>3. Spent(length, now) = Total(S) /\ SteadySpent(length, now) = Total(T)
  BY DEF Spent, SteadySpent
<1> HIDE DEF S, T
<1>4. Total(T) \in Nat /\ Total(S) \in Nat /\ Total(T) <= Total(S)
  BY <1>1, <1>2, TotalGrows
<1>5. Spent(length, now) + usd <= limit
  BY DEF WithinLimits
<1> QED BY <1>3, <1>4, <1>5

LEMMA NextLimit ==
  ASSUME TypeInv, TypeInv', Mutex, [Next]_vars, NEW length \in Nat, NEW limit \in Nat,
         <<length, limit>> \in {<<Day, DailyLimit>>, <<Week, WeeklyLimit>>},
         LimitInv(length, limit)
  PROVE  LimitInv(length, limit)'
<1> SUFFICES ASSUME OneProcess PROVE LimitInv(length, limit)'
  BY DEF LimitInv
<1>0. clock \in Nat /\ clock' \in Nat
  BY NumbersFacts DEF TypeInv
<1>1. CASE UNCHANGED transfers
           \/ OneChanges
  <2>1. ASSUME NEW n \in Nat PROVE Total(Window(length, n)') <= limit
    <3>1. Total(Window(length, n)') \in Nat /\ Total(Window(length, n)') <= Total(Window(length, n))
      BY <1>1, LessCounts
    <3>2. Total(Window(length, n)) <= limit /\ Total(Window(length, n)) \in Nat
      BY WindowFacts DEF LimitInv
    <3> QED BY <3>1, <3>2
  <2>2. ASSUME NEW h \in Handlers, At(h, "creating")'
        PROVE  SteadySpent(length, clock)' + quotes'[work'[h].input.quote].usd <= limit
    <3> DEFINE usd == quotes[work[h].input.quote].usd
    <3>1. SteadySpent(length, clock)' \in Nat /\ SteadySpent(length, clock)' <= SteadySpent(length, clock)
      BY <1>1, LessCounts
    <3>0. usd \in Nat
      <4>1. work[h].input \in Inputs /\ quotes[work[h].input.quote] # NoQuote
        BY <2>2, CreatingFacts DEF At, EvaluateRisk, TypeInv, WorkFits
      <4>2. quotes[work[h].input.quote] \in QuoteType /\ work[h].input.quote \in Quotes
        BY <4>1 DEF TypeInv, Inputs
      <4> QED BY <4>2, NumbersFacts DEF QuoteType
    <3>2. work'[h].input = work[h].input /\ SteadySpent(length, clock) + usd <= limit
      <4>1. CASE work'[h] = work[h]
        BY <2>2, <4>1 DEF LimitInv, At
      <4>2. CASE Keeps(h) /\ WithinLimits(usd, clock)
        <5>1. SteadySpent(length, clock) + usd <= limit
          <6> HIDE DEF usd
          <6> QED BY <1>0, <3>0, <4>2, WithinFacts
        <5> QED BY <4>2, <5>1 DEF Keeps
      <4> QED BY <2>2, <4>1, <4>2, CreatingFacts DEF At
    <3>3. quotes'[work'[h].input.quote].usd = usd /\ usd \in Nat
      <4>1. work[h].input \in Inputs /\ quotes[work[h].input.quote] # NoQuote
        BY <2>2, CreatingFacts DEF At, EvaluateRisk, TypeInv, WorkFits
      <4>2. quotes[work[h].input.quote] \in QuoteType /\ work[h].input.quote \in Quotes
        BY <4>1 DEF TypeInv, Inputs
      <4>3. usd \in Nat
        BY <4>2, NumbersFacts DEF QuoteType
      <4> QED BY <3>2, <4>1, <4>2, <4>3, NextQuotesStay DEF QuotesStay
    <3>4. SteadySpent(length, clock) \in Nat
      BY <1>0, WindowFacts
    <3> HIDE DEF usd
    <3> QED BY <3>1, <3>2, <3>3, <3>4
  <2> QED BY <2>1, <2>2 DEF LimitInv
<1>2. ASSUME NEW h \in Handlers, CreateTransfer(h), transfers' = transfers \cup {NewTransfer(h)},
             Goto(h, "saving"), NewTransfer(h) \notin transfers
      PROVE  LimitInv(length, limit)'
  <2>1. \A n \in Nat : Total(Window(length, n)') <= limit
    BY <1>2, MoreCounts DEF CreateTransfer
  <2> QED BY <1>2, <2>1, CreatesAlone DEF LimitInv
<1> QED BY <1>1, <1>2, TransfersMove

---------------------------------------------------------------------------
(* The velocity flag. *)

\* The transfers without the flag in the day that ends at n.
Unflagged(n) == {u \in transfers : "velocity" \notin u.flags /\ u.at <= n /\ u.at + Day >= n}

VelocityInv ==
  OneProcess =>
    /\ \A n \in Nat : Cardinality(Unflagged(n)) <= MaxTransfers
    /\ \A h \in Handlers : At(h, "creating") /\ "velocity" \notin work[h].flags =>
         Cardinality(Since(Day, clock)) + 1 <= MaxTransfers

\* One element in the place of another does not make a set larger.
LEMMA SwapSize ==
  ASSUME NEW S, IsFiniteSet(S), NEW x \in S, NEW y, NEW T \in SUBSET ((S \ {x}) \cup {y})
  PROVE  Cardinality(T) \in Nat /\ Cardinality(T) <= Cardinality(S)
<1>1. IsFiniteSet(S \ {x}) /\ Cardinality(S \ {x}) = Cardinality(S) - 1
  BY FS_RemoveElement
<1>2. /\ IsFiniteSet((S \ {x}) \cup {y})
      /\ \/ Cardinality((S \ {x}) \cup {y}) = Cardinality(S \ {x})
         \/ Cardinality((S \ {x}) \cup {y}) = Cardinality(S \ {x}) + 1
  BY <1>1, FS_AddElement
<1>3. Cardinality(S) \in Nat
  BY FS_CardinalityType
<1>4. Cardinality(T) <= Cardinality((S \ {x}) \cup {y}) /\ Cardinality(T) \in Nat /\ IsFiniteSet(T)
  BY <1>2, SubsetSize
<1> QED BY <1>1, <1>2, <1>3, <1>4

LEMMA FewerCount ==
  ASSUME TypeInv, TypeInv', [Next]_vars,
         UNCHANGED transfers
         \/ OneChanges
  PROVE  /\ \A n \in Nat : /\ Cardinality(Unflagged(n)') \in Nat
                           /\ Cardinality(Unflagged(n)') <= Cardinality(Unflagged(n))
         /\ Cardinality(Since(Day, clock)') \in Nat
         /\ Cardinality(Since(Day, clock)') <= Cardinality(Since(Day, clock))
<1>0. clock \in Nat /\ clock' \in Nat /\ Day \in Nat /\ clock <= clock'
  <2>1. clock \in Nat /\ clock' \in Nat
    BY NumbersFacts DEF TypeInv
  <2> QED BY <2>1, ClockMoves, NumbersFacts DEF Tick
<1>1. \A t \in transfers : t.at \in Nat
  BY DEF TypeInv, Transfer
<1>2. \A n \in Nat : IsFiniteSet(Unflagged(n)) /\ IsFiniteSet(Since(Day, n))
  <2>1. \A n \in Nat : Unflagged(n) \in SUBSET transfers /\ Since(Day, n) \in SUBSET transfers
    BY DEF Unflagged, Since
  <2> QED BY <2>1, FS_Subset DEF TypeInv
<1>3. CASE UNCHANGED transfers
  <2>1. \A n \in Nat : Unflagged(n)' = Unflagged(n)
    BY <1>3 DEF Unflagged
  <2>2. Since(Day, clock)' \in SUBSET Since(Day, clock)
    BY <1>0, <1>1, <1>3 DEF Since
  <2>3. \A n \in Nat : Cardinality(Unflagged(n)) \in Nat
    BY <1>2, SubsetSize
  <2> QED BY <1>0, <1>2, <2>1, <2>2, <2>3, SubsetSize
<1>4. ASSUME NEW t \in transfers, NEW u \in Transfer, Replaces(t, u), UNCHANGED clock
      PROVE  /\ \A n \in Nat : /\ Cardinality(Unflagged(n)') \in Nat
                               /\ Cardinality(Unflagged(n)') <= Cardinality(Unflagged(n))
             /\ Cardinality(Since(Day, clock)') \in Nat
             /\ Cardinality(Since(Day, clock)') <= Cardinality(Since(Day, clock))
  <2>1. u.at = t.at /\ u.flags = t.flags
    BY <1>4 DEF Replaces
  <2>2. transfers' = (transfers \ {t}) \cup {u}
    BY <1>4 DEF Replaces
  <2>3. ASSUME NEW n \in Nat
        PROVE  /\ Cardinality(Unflagged(n)') \in Nat
               /\ Cardinality(Unflagged(n)') <= Cardinality(Unflagged(n))
    <3>1. CASE t \in Unflagged(n)
      <4>1. Unflagged(n)' \in SUBSET ((Unflagged(n) \ {t}) \cup {u})
        BY <2>1, <2>2 DEF Unflagged
      <4> QED BY <1>2, <3>1, <4>1, SwapSize
    <3>2. CASE t \notin Unflagged(n)
      <4>1. Unflagged(n)' \in SUBSET Unflagged(n)
        BY <2>1, <2>2, <3>2 DEF Unflagged
      <4> QED BY <1>2, <4>1, SubsetSize
    <3> QED BY <3>1, <3>2
  <2>4. /\ Cardinality(Since(Day, clock)') \in Nat
        /\ Cardinality(Since(Day, clock)') <= Cardinality(Since(Day, clock))
    <3>1. CASE t \in Since(Day, clock)
      <4>1. Since(Day, clock)' \in SUBSET ((Since(Day, clock) \ {t}) \cup {u})
        BY <1>4, <2>1, <2>2 DEF Since
      <4> QED BY <1>0, <1>2, <3>1, <4>1, SwapSize
    <3>2. CASE t \notin Since(Day, clock)
      <4>1. Since(Day, clock)' \in SUBSET Since(Day, clock)
        BY <1>4, <2>1, <2>2, <3>2 DEF Since
      <4> QED BY <1>0, <1>2, <4>1, SubsetSize
    <3> QED BY <3>1, <3>2
  <2> QED BY <2>3, <2>4
<1> QED BY <1>3, <1>4, ClockMoves DEF OneChanges

LEMMA NextVelocity ==
  ASSUME TypeInv, TypeInv', Mutex, [Next]_vars, VelocityInv
  PROVE  VelocityInv'
<1> SUFFICES ASSUME OneProcess PROVE VelocityInv'
  BY DEF VelocityInv
<1>0. clock \in Nat /\ clock' \in Nat /\ Day \in Nat /\ MaxTransfers \in Nat
  BY NumbersFacts DEF TypeInv
<1>1. ASSUME TypeInv
      PROVE  /\ \A n \in Nat : IsFiniteSet(Unflagged(n)) /\ Cardinality(Unflagged(n)) \in Nat
             /\ IsFiniteSet(Since(Day, clock)) /\ Cardinality(Since(Day, clock)) \in Nat
  <2>1. \A n \in Nat : Unflagged(n) \in SUBSET transfers
    BY DEF Unflagged
  <2>2. Since(Day, clock) \in SUBSET transfers
    BY DEF Since
  <2> QED BY <1>1, <2>1, <2>2, SubsetSize DEF TypeInv
<1>2. CASE UNCHANGED transfers
           \/ OneChanges
  <2>1. \A n \in Nat : Cardinality(Unflagged(n)') <= MaxTransfers
    BY <1>0, <1>1, <1>2, FewerCount DEF VelocityInv
  <2>2. ASSUME NEW h \in Handlers, At(h, "creating")', "velocity" \notin work'[h].flags
        PROVE  Cardinality(Since(Day, clock)') + 1 <= MaxTransfers
    <3>1. Cardinality(Since(Day, clock)) + 1 <= MaxTransfers
      <4>1. CASE work'[h] = work[h]
        BY <2>2, <4>1 DEF VelocityInv, At
      <4>2. CASE work'[h].flags = assessRisk(quotes[work[h].input.quote].usd, work[h].input.recipient, clock)
        BY <1>0, <1>1, <2>2, <4>2 DEF assessRisk
      <4> QED BY <2>2, <4>1, <4>2, CreatingFacts DEF At
    <3> QED BY <1>0, <1>1, <1>2, <3>1, FewerCount
  <2> QED BY <2>1, <2>2 DEF VelocityInv
<1>3. ASSUME NEW h \in Handlers, CreateTransfer(h), transfers' = transfers \cup {NewTransfer(h)},
             Goto(h, "saving"), NewTransfer(h) \notin transfers
      PROVE  VelocityInv'
  <2> DEFINE new == NewTransfer(h)
  <2>1. new.at = clock /\ new.flags = work[h].flags
    BY DEF NewTransfer
  <2>2. At(h, "creating")
    BY <1>3 DEF CreateTransfer
  <2>3. transfers' = transfers \cup {new}
    BY <1>3
  <2> HIDE DEF new
  <2>4. ASSUME NEW n \in Nat PROVE Cardinality(Unflagged(n)') <= MaxTransfers
    <3>1. CASE "velocity" \in new.flags \/ ~(clock <= n)
      <4>1. Unflagged(n)' = Unflagged(n)
        BY <1>0, <2>1, <2>3, <3>1 DEF Unflagged
      <4> QED BY <4>1 DEF VelocityInv
    <3>2. CASE "velocity" \notin new.flags /\ clock <= n
      <4>1. Unflagged(n)' \in SUBSET (Since(Day, clock) \cup {new})
        <5>1. \A t \in transfers : t.at \in Nat
          BY DEF TypeInv, Transfer
        <5> QED BY <1>0, <2>3, <3>2, <5>1 DEF Unflagged, Since
      <4>2. Cardinality(Since(Day, clock)) + 1 <= MaxTransfers
        BY <2>1, <2>2, <3>2 DEF VelocityInv
      <4> DEFINE S == Since(Day, clock)
                 W == Unflagged(n)'
      <4>3. /\ IsFiniteSet(S \cup {new}) /\ Cardinality(S) \in Nat
            /\ Cardinality(S \cup {new}) <= Cardinality(S) + 1
        <5>1. IsFiniteSet(S) /\ Cardinality(S) \in Nat
          BY <1>1
        <5> HIDE DEF S
        <5> QED BY <5>1, AddSize
      <4>4. Cardinality(W) \in Nat /\ Cardinality(W) <= Cardinality(S \cup {new})
            /\ Cardinality(S \cup {new}) \in Nat
        BY <4>1, <4>3, SubsetSize
      <4> HIDE DEF S, W
      <4>5. Cardinality(W) <= MaxTransfers
        BY <1>0, <4>2, <4>3, <4>4 DEF S
      <4> QED BY <4>5 DEF W
    <3> QED BY <3>1, <3>2
  <2> QED BY <1>3, <2>4, CreatesAlone DEF VelocityInv
<1> QED BY <1>2, <1>3, TransfersMove

---------------------------------------------------------------------------
(* The price of a quote, and the theorem. *)

LEMMA NextPrice ==
  ASSUME TypeInv, [Next]_vars, PriceCovers
  PROVE  PriceCovers'
<1>1. CASE UNCHANGED quotes
  BY <1>1 DEF PriceCovers
<1>2. ASSUME NEW q \in Quotes, CreateQuote(q) PROVE PriceCovers'
  <2>1. clock \in Nat
    BY NumbersFacts DEF TypeInv
  <2>2. PICK quote : quotes' = [quotes EXCEPT ![q] = quote] /\ Priced(quote)
    BY <1>2, <2>1, QuoteFacts DEF CreateQuote
  <2> QED BY <2>2 DEF PriceCovers, TypeInv
<1>3. ASSUME NEW h \in Handlers, ConsumeQuote(h), ~UNCHANGED quotes PROVE PriceCovers'
  <2> DEFINE q == work[h].input.quote
             p == [quotes[q] EXCEPT !.consumed = TRUE]
  <2>1. quotes' = [quotes EXCEPT ![q] = p]
    BY <1>3 DEF ConsumeQuote
  <2>2. q \in Quotes /\ quotes[q] # NoQuote
    BY <1>3 DEF ConsumeQuote, TypeInv, WorkFits, At, Inputs
  <2>3. quotes[q] \in QuoteType /\ Priced(quotes[q])
    BY <2>2 DEF TypeInv, PriceCovers
  <2>4. /\ p.send = quotes[q].send /\ p.receive = quotes[q].receive /\ p.rate = quotes[q].rate
        /\ p.total = quotes[q].total /\ p.exact = quotes[q].exact
    BY <2>3 DEF QuoteType
  <2> HIDE DEF p, q
  <2>5. Priced(p)
    BY <2>3, <2>4 DEF Priced
  <2> QED BY <2>1, <2>2, <2>5 DEF PriceCovers, TypeInv
<1>4. UNCHANGED quotes \/ (\E q \in Quotes : CreateQuote(q)) \/ \E h \in Handlers : ConsumeQuote(h)
  BY DEF Next, vars, Tick, TransferFails, TransferRevives, Becomes, Crash, Request, Continue, CallFails, Enter, FindKey,
     ReadQuote, EvaluateRisk, CreateTransfer, SaveKey
<1> QED BY <1>1, <1>2, <1>3, <1>4

EntryInv ==
  /\ TypeInv /\ Mutex
  /\ LimitInv(Day, DailyLimit) /\ LimitInv(Week, WeeklyLimit) /\ VelocityInv /\ PriceCovers

LEMMA InitEntry == ASSUME Init PROVE EntryInv
<1>1. TypeInv /\ Mutex
  BY InitKeys
<1>2. Total({}) = 0
  BY TotalIsSum, SumEmpty, FS_EmptySet
<1>3. \A length \in Nat, n \in Nat : Window(length, n) = {}
  BY DEF Init, Window
<1>4. \A h \in Handlers : ~At(h, "creating")
  BY IdleFacts DEF Init, At
<1>5. LimitInv(Day, DailyLimit) /\ LimitInv(Week, WeeklyLimit)
  <2>1. ASSUME NEW length \in Nat, NEW limit \in Nat PROVE LimitInv(length, limit)
    <3>1. \A n \in Nat : Total(Window(length, n)) = 0
      BY <1>2, <1>3
    <3> QED BY <1>4, <3>1 DEF LimitInv
  <2> QED BY <2>1, NumbersFacts
<1>6. VelocityInv
  <2>1. \A n \in Nat : Unflagged(n) = {}
    BY DEF Init, Unflagged
  <2> QED BY <1>4, <2>1, FS_EmptySet, NumbersFacts DEF VelocityInv
<1>7. PriceCovers
  BY DEF Init, PriceCovers
<1> QED BY <1>1, <1>5, <1>6, <1>7 DEF EntryInv

LEMMA EntryInvHolds == ASSUME EntryInv PROVE TransferLimitsHold
<1>0. \A t \in transfers : t.at \in Nat
  BY DEF EntryInv, TypeInv, Transfer
<1>1. LimitsHold
  BY <1>0, NumbersFacts DEF EntryInv, LimitInv, LimitsHold, Window, Steady
<1>2. VelocityIsFlagged
  BY <1>0 DEF EntryInv, VelocityInv, VelocityIsFlagged, Unflagged
<1>3. PriceCovers
  BY DEF EntryInv
<1>4. TypeOK
  BY DEF EntryInv, TypeInv, TypeOK, Transfer
<1> QED BY <1>1, <1>2, <1>3, <1>4 DEF TransferLimitsHold

(* Every variable keeps its type; within one process no day and no week     *)
(* holds more than its limit of transfers that never failed, nor a day more *)
(* unflagged transfers than the threshold (enforceTransactionLimits,        *)
(* assessRisk); and the price of a quote covers what the recipient gets     *)
(* (createQuote).  Transfers may be revived at any time.                    *)
THEOREM LimitsBindEveryTransfer == Spec => []TransferLimitsHold
<1>1. Init => EntryInv
  BY InitEntry
<1>2. EntryInv /\ [Next]_vars => EntryInv'
  <2> SUFFICES ASSUME EntryInv, [Next]_vars PROVE EntryInv'
    OBVIOUS
  <2>1. TypeInv' /\ Mutex'
    BY NextType, NextMutex DEF EntryInv
  <2>2. LimitInv(Day, DailyLimit)' /\ LimitInv(Week, WeeklyLimit)'
    BY <2>1, NextLimit, NumbersFacts DEF EntryInv
  <2>3. VelocityInv' /\ PriceCovers'
    BY <2>1, NextVelocity, NextPrice DEF EntryInv
  <2> QED BY <2>1, <2>2, <2>3 DEF EntryInv
<1>3. EntryInv => TransferLimitsHold
  BY EntryInvHolds
<1> QED BY <1>1, <1>2, <1>3, PTL DEF Spec

---------------------------------------------------------------------------
(* The bank accounts: the inductive invariant.                             *)

DeliveryPlaces == {"idle", "fetching", "finding", "writing", "choosing", "defaulting", "completing"}
BankPlaces ==
  DeliveryPlaces \cup
  {"saving", "initiating", "attempting", "guessing", "locking", "confirming", "marking", "checking", "removing",
   "retiring", "replacing", "listing", "updating", "reserving", "posting"}
Handling ==
  [at : BankPlaces, source : Sources \cup {"none"}, topic : AllTopics \cup {"none"}, isDefault : BOOLEAN,
   attempts : Attempts, word : SourceStatus \cup {"none"}, answer : [Sources -> DwollaStatus],
   failed : SUBSET Sources, todo : SUBSET Sources]

Made(s) == remote[s] # "none"
Checked(s) == remote[s] \in {"verified", "removed"}

(* What a handler goes by: an account that is at Dwolla, and a word of     *)
(* Dwolla's that was true when it was said.                                *)
HandlerFits(h, l) ==
  /\ l.at \notin {"idle", "listing", "updating"} => l.source \in Sources
  /\ h \in Deliveries => l.at \in DeliveryPlaces /\ (l.at # "idle" => l.topic \in AllTopics)
  /\ l.at \in {"fetching", "finding", "writing", "completing"} \/ l.word # "none" => h \in Deliveries
  /\ l.at \in {"saving", "attempting", "guessing", "confirming", "locking", "marking", "checking", "removing",
               "retiring", "writing"} => Made(l.source)
  /\ l.at \in {"finding", "writing"} => l.word # "none"
  /\ l.word = "VERIFIED" => l.source \in Sources /\ Checked(l.source)
  /\ l.at = "marking" => Checked(l.source)
  /\ l.at = "attempting" => l.attempts # 3
  /\ \A s \in Sources : l.answer[s] = "verified" => Checked(s)
  /\ \A s \in l.todo : Made(s)

RowInv == \A s \in Sources : (Saved(s) => Made(s)) /\ (Usable(s) => Checked(s))

BankTypes == BankTypeOK /\ busy \in [Actors -> Handling]
BankInv == BankTypes /\ RowInv /\ \A h \in Actors : HandlerFits(h, busy[h])

RemoteGrows == \A s \in Sources : (Made(s) => Made(s)') /\ (Checked(s) => Checked(s)')

---------------------------------------------------------------------------
LEMMA BankFacts ==
  /\ Requests \cap Deliveries = {} /\ Topics \subseteq AllTopics /\ MaxLosses \in Nat
  /\ Unasked \in Handling /\ Unasked.at = "idle" /\ Unasked.word = "none" /\ Unasked.todo = {}
  /\ \A s \in Sources : Unasked.answer[s] = "none"
  /\ NoRow \in SourceRow /\ NoRow.status = "NONE" /\ NoRow.attempts = 0
  /\ \A n \in Attempts : n \in Nat /\ n <= 3 /\ (n # 3 => n + 1 \in Attempts)
<1>1. Requests \cap Deliveries = {} /\ Topics \subseteq AllTopics /\ MaxLosses \in Nat
  BY BankAssumption
<1>2. /\ NoRow \in SourceRow /\ NoRow.status = "NONE" /\ NoRow.attempts = 0
      /\ \A n \in Attempts : n \in Nat /\ n <= 3 /\ (n # 3 => n + 1 \in Attempts)
  BY DEF NoRow, SourceRow, Attempts
<1>3. /\ Unasked \in Handling /\ Unasked.at = "idle" /\ Unasked.word = "none" /\ Unasked.todo = {}
      /\ \A s \in Sources : Unasked.answer[s] = "none"
  <2>1. [s \in Sources |-> "none"] \in [Sources -> DwollaStatus] /\ 0 \in Attempts
    BY DEF DwollaStatus, Attempts
  <2> QED BY <2>1 DEF Unasked, Handling, BankPlaces, DeliveryPlaces
<1> QED BY <1>1, <1>2, <1>3

LEMMA UnaskedFits == \A h \in Actors : HandlerFits(h, Unasked)
BY BankFacts DEF HandlerFits, DeliveryPlaces

LEMMA HandlerStays ==
  ASSUME NEW h, NEW l \in Handling, HandlerFits(h, l), RemoteGrows
  PROVE  HandlerFits(h, l)'
<1>1. l.todo \subseteq Sources
  BY DEF Handling
<1> QED BY <1>1 DEF HandlerFits, RemoteGrows, Handling

LEMMA BankMoves ==
  ASSUME BankInv, NEW h \in Actors, NEW l \in Handling, busy' = [busy EXCEPT ![h] = l], RemoteGrows,
         HandlerFits(h, l)', RowInv', BankTypeOK'
  PROVE  BankInv'
<1>0. busy \in [Actors -> Handling] /\ \A g \in Actors : HandlerFits(g, busy[g])
  BY DEF BankInv, BankTypes
<1>1. busy' \in [Actors -> Handling] /\ busy'[h] = l /\ \A g \in Actors \ {h} : busy'[g] = busy[g]
  BY <1>0
<1>2. ASSUME NEW g \in Actors \ {h} PROVE HandlerFits(g, busy[g])'
  <2>1. busy[g] \in Handling /\ HandlerFits(g, busy[g])
    BY <1>0
  <2>2. PICK k \in Handling : k = busy[g]
    BY <2>1
  <2>3. HandlerFits(g, k)'
    BY <2>1, <2>2, HandlerStays
  <2>4. busy'[g] = k
    BY <1>1, <2>2
  <2> QED BY <2>3, <2>4 DEF HandlerFits
<1>3. HandlerFits(h, busy[h])'
  BY <1>1 DEF HandlerFits
<1> QED BY <1>1, <1>2, <1>3 DEF BankInv, BankTypes

\* A handler goes on, and neither Dwolla nor a row changes.
LEMMA BankGoesOn ==
  ASSUME BankInv, NEW h \in Actors, NEW l \in Handling, busy' = [busy EXCEPT ![h] = l], UNCHANGED <<remote, row>>,
         HandlerFits(h, l), guesses' \in [Sources -> Nat], delivery' \in [Sources -> EventRows],
         debit' \in [Sources -> {"none", "active", "over"}], losses' \in 0..MaxLosses
  PROVE  BankInv'
<1>1. RemoteGrows
  BY DEF RemoteGrows, Made, Checked
<1>2. RowInv' /\ BankTypeOK'
  BY DEF BankInv, BankTypes, RowInv, Made, Checked, Saved, Usable, BankTypeOK
<1>3. HandlerFits(h, l)'
  BY <1>1, HandlerStays
<1> QED BY <1>1, <1>2, <1>3, BankMoves

\* A handler writes a row.
LEMMA BankWrites ==
  ASSUME BankInv, NEW h \in Actors, NEW l \in Handling, busy' = [busy EXCEPT ![h] = l],
         UNCHANGED <<dwolla, debit, losses>>, HandlerFits(h, l),
         NEW s \in Sources, NEW r \in SourceRow, row' = [row EXCEPT ![s] = r],
         r.status # "NONE" => Made(s) \/ Saved(s), r.status = "VERIFIED" => Checked(s) \/ Usable(s)
  PROVE  BankInv'
<1>0. BankTypeOK /\ RowInv /\ UNCHANGED <<remote, guesses, delivery, debit, losses>>
  BY DEF BankInv, BankTypes, dwolla
<1>1. RemoteGrows
  BY <1>0 DEF RemoteGrows, Made, Checked
<1>2. row' \in [Sources -> SourceRow] /\ row'[s] = r /\ \A x \in Sources \ {s} : row'[x] = row[x]
  BY <1>0 DEF BankTypeOK
<1>3. RowInv'
  BY <1>0, <1>2 DEF RowInv, Made, Checked, Saved, Usable
<1>4. BankTypeOK'
  BY <1>0, <1>2 DEF BankTypeOK
<1>5. HandlerFits(h, l)'
  BY <1>1, HandlerStays
<1> QED BY <1>1, <1>3, <1>4, <1>5, BankMoves

LEMMA AtBank ==
  ASSUME BankInv, NEW h \in Actors
  PROVE  /\ busy \in [Actors -> Handling] /\ busy[h] \in Handling /\ HandlerFits(h, busy[h])
         /\ remote \in [Sources -> DwollaStatus] /\ guesses \in [Sources -> Nat] /\ delivery \in [Sources -> EventRows]
         /\ row \in [Sources -> SourceRow] /\ debit \in [Sources -> {"none", "active", "over"}]
         /\ losses \in 0..MaxLosses
BY DEF BankInv, BankTypes, BankTypeOK

LEMMA Proceeds ==
  ASSUME BankInv, NEW h \in Actors, NEW at \in BankPlaces, Proceed(h, at)
  PROVE  \E l \in Handling : /\ busy' = [busy EXCEPT ![h] = l] /\ l.at = at
                             /\ l.source = busy[h].source /\ l.topic = busy[h].topic
                             /\ l.attempts = busy[h].attempts /\ l.word = busy[h].word
                             /\ l.answer = busy[h].answer /\ l.todo = busy[h].todo
<1> DEFINE l == [busy[h] EXCEPT !.at = at]
<1>1. busy[h] \in Handling
  BY AtBank
<1>2. /\ l \in Handling /\ l.at = at /\ l.source = busy[h].source /\ l.topic = busy[h].topic
      /\ l.attempts = busy[h].attempts /\ l.word = busy[h].word /\ l.answer = busy[h].answer /\ l.todo = busy[h].todo
  BY <1>1 DEF Handling
<1>3. busy' = [busy EXCEPT ![h] = l]
  BY DEF Proceed
<1> HIDE DEF l
<1> QED BY <1>2, <1>3

LEMMA ProceedsFit ==
  ASSUME BankInv, NEW h \in Actors, NEW at \in BankPlaces, Proceed(h, at), busy[h].source \in Sources,
         h \in Deliveries => at \in DeliveryPlaces /\ busy[h].topic \in AllTopics,
         at \in {"fetching", "finding", "writing", "completing"} => h \in Deliveries,
         at \in {"saving", "guessing", "confirming", "locking", "checking", "removing", "retiring", "writing", "marking"}
           => Made(busy[h].source),
         at = "marking" => Checked(busy[h].source), at \notin {"attempting", "finding", "writing"}
  PROVE  \E l \in Handling : busy' = [busy EXCEPT ![h] = l] /\ HandlerFits(h, l)
<1>1. HandlerFits(h, busy[h])
  BY AtBank
<1>2. PICK l \in Handling : /\ busy' = [busy EXCEPT ![h] = l] /\ l.at = at
                            /\ l.source = busy[h].source /\ l.topic = busy[h].topic
                            /\ l.attempts = busy[h].attempts /\ l.word = busy[h].word
                            /\ l.answer = busy[h].answer /\ l.todo = busy[h].todo
  BY Proceeds
<1>3. HandlerFits(h, l)
  BY <1>1, <1>2 DEF HandlerFits
<1> QED BY <1>2, <1>3

LEMMA LeavesFit ==
  ASSUME NEW h \in Actors, Leave(h)
  PROVE  \E l \in Handling : busy' = [busy EXCEPT ![h] = l] /\ HandlerFits(h, l)
BY BankFacts, UnaskedFits DEF Leave

LEMMA StartsFit ==
  ASSUME NEW h \in Requests, NEW at \in {"initiating", "defaulting", "reserving"}, NEW s \in Sources, Start(h, at, s)
  PROVE  \E l \in Handling : busy' = [busy EXCEPT ![h] = l] /\ HandlerFits(h, l)
<1> DEFINE l == [Unasked EXCEPT !.at = at, !.source = s]
<1>1. Unasked \in Handling /\ at \in BankPlaces
  BY BankFacts DEF BankPlaces, DeliveryPlaces
<1>2. l \in Handling /\ l.at = at /\ l.source = s /\ l.word = "none" /\ l.todo = {} /\ l.answer = Unasked.answer
  BY <1>1, BankFacts DEF Handling
<1>3. busy' = [busy EXCEPT ![h] = l]
  BY DEF Start
<1> HIDE DEF l
<1>4. HandlerFits(h, l)
  BY <1>2, BankFacts DEF HandlerFits
<1> QED BY <1>2, <1>3, <1>4

LEMMA Emits ==
  ASSUME delivery \in [Sources -> EventRows], NEW s \in Sources, NEW topic \in AllTopics,
         Emit(s, topic) \/ UNCHANGED delivery
  PROVE  delivery' \in [Sources -> EventRows]
<1>1. delivery[s] \in EventRows
  OBVIOUS
<1>2. CASE Emit(s, topic)
  <2>1. PICK state \in {"none", "sent", "PROCESSING", "PROCESSED", "FAILED"} :
          delivery' = [delivery EXCEPT ![s][topic] = state]
    BY <1>1, <1>2 DEF Emit, EventRows
  <2>2. [delivery[s] EXCEPT ![topic] = state] \in EventRows
    BY <1>1 DEF EventRows
  <2> QED BY <2>1, <2>2
<1> QED BY <1>2

---------------------------------------------------------------------------
\* What changes neither Dwolla's side nor a row.
LEMMA QuietSteps ==
  ASSUME BankInv, NEW h \in Actors, UNCHANGED <<remote, row, guesses, losses>>,
         \E l \in Handling : busy' = [busy EXCEPT ![h] = l] /\ HandlerFits(h, l),
         delivery' \in [Sources -> EventRows], debit' \in [Sources -> {"none", "active", "over"}]
  PROVE  BankInv'
<1>1. guesses' \in [Sources -> Nat] /\ losses' \in 0..MaxLosses /\ UNCHANGED <<remote, row>>
  BY AtBank
<1> QED BY <1>1, BankGoesOn

LEMMA AskHolds ==
  ASSUME BankInv, NEW h \in Actors,
         InitiateMicroDeposits(h) \/ VerifyMicroDeposits(h) \/ SelectDefault(h) \/ RemoveSource(h) \/ ListSources(h) \/ Fund(h)
  PROVE  BankInv'
<1>0. /\ busy[h] \in Handling /\ row \in [Sources -> SourceRow] /\ RowInv
      /\ delivery \in [Sources -> EventRows] /\ debit \in [Sources -> {"none", "active", "over"}]
  BY AtBank DEF BankInv
<1>1. UNCHANGED <<remote, row, guesses, losses>> /\ UNCHANGED delivery /\ UNCHANGED debit /\ h \in Requests
  BY DEF InitiateMicroDeposits, VerifyMicroDeposits, SelectDefault, RemoveSource, ListSources, Fund, dwolla, Asked
<1>2. h \notin Deliveries
  BY <1>1, BankFacts
<1>3. \E l \in Handling : busy' = [busy EXCEPT ![h] = l] /\ HandlerFits(h, l)
  <2>1. CASE InitiateMicroDeposits(h) \/ SelectDefault(h) \/ Fund(h)
    <3>1. \E at \in {"initiating", "defaulting", "reserving"}, s \in Sources : Start(h, at, s)
      BY <2>1 DEF InitiateMicroDeposits, SelectDefault, Fund
    <3> QED BY <1>1, <3>1, StartsFit
  <2>2. CASE VerifyMicroDeposits(h)
    <3>1. PICK s \in Sources : /\ row[s].status = "UNVERIFIED" /\ row[s].attempts < 3
                               /\ busy' = [busy EXCEPT ![h] = [Unasked EXCEPT !.at = "attempting", !.source = s,
                                                                              !.attempts = row[s].attempts]]
      BY <2>2 DEF VerifyMicroDeposits
    <3> DEFINE l == [Unasked EXCEPT !.at = "attempting", !.source = s, !.attempts = row[s].attempts]
    <3>2. row[s].attempts \in Attempts /\ row[s].attempts # 3
      BY <1>0, <3>1, BankFacts DEF SourceRow
    <3>3. /\ l \in Handling /\ l.at = "attempting" /\ l.source = s /\ l.attempts # 3
          /\ l.word = "none" /\ l.todo = {} /\ l.answer = Unasked.answer
      BY <3>2, BankFacts DEF Handling, BankPlaces
    <3>4. Made(s)
      BY <1>0, <3>1 DEF RowInv, Saved
    <3>5. busy' = [busy EXCEPT ![h] = l]
      BY <3>1
    <3> HIDE DEF l
    <3>6. HandlerFits(h, l)
      BY <1>2, <3>3, <3>4, BankFacts DEF HandlerFits
    <3> QED BY <3>3, <3>5, <3>6
  <2>3. CASE RemoveSource(h)
    <3>1. PICK s \in Listed :
            busy' = [busy EXCEPT ![h] = [Unasked EXCEPT !.at = "checking", !.source = s, !.isDefault = row[s].isDefault]]
      BY <2>3 DEF RemoveSource
    <3> DEFINE l == [Unasked EXCEPT !.at = "checking", !.source = s, !.isDefault = row[s].isDefault]
    <3>2. s \in Sources /\ Made(s) /\ row[s].isDefault \in BOOLEAN
      BY <1>0, <3>1 DEF Listed, RowInv, SourceRow
    <3>3. /\ l \in Handling /\ l.at = "checking" /\ l.source = s
          /\ l.word = "none" /\ l.todo = {} /\ l.answer = Unasked.answer
      BY <3>2, BankFacts DEF Handling, BankPlaces
    <3>5. busy' = [busy EXCEPT ![h] = l]
      BY <3>1
    <3> HIDE DEF l
    <3>6. HandlerFits(h, l)
      BY <1>2, <3>2, <3>3, BankFacts DEF HandlerFits
    <3> QED BY <3>3, <3>5, <3>6
  <2>4. CASE ListSources(h)
    <3> DEFINE l == [Unasked EXCEPT !.at = "listing", !.todo = Listed,
                                    !.failed = {s \in Listed : row[s].status = "FAILED"}]
    <3>1. Listed \subseteq Sources /\ \A s \in Listed : Made(s)
      BY <1>0 DEF Listed, RowInv
    <3>3. /\ l \in Handling /\ l.at = "listing" /\ l.word = "none" /\ l.todo = Listed /\ l.answer = Unasked.answer
      BY <3>1, BankFacts DEF Handling, BankPlaces
    <3>5. busy' = [busy EXCEPT ![h] = l]
      BY <2>4 DEF ListSources
    <3> HIDE DEF l
    <3>6. HandlerFits(h, l)
      BY <1>2, <3>1, <3>3, BankFacts DEF HandlerFits
    <3> QED BY <3>3, <3>5, <3>6
  <2> QED BY <2>1, <2>2, <2>3, <2>4
<1> QED BY <1>0, <1>1, <1>3, QuietSteps

\* The next step of a handler that reads, or is answered.
LEMMA DoneFits ==
  ASSUME BankInv, NEW h \in Actors, Done(h), busy[h].at \in {"choosing", "defaulting"}
  PROVE  \E l \in Handling : busy' = [busy EXCEPT ![h] = l] /\ HandlerFits(h, l)
<1>1. HandlerFits(h, busy[h])
  BY AtBank
<1>2. CASE h \in Deliveries
  <2>1. Proceed(h, "completing") /\ busy[h].source \in Sources /\ busy[h].topic \in AllTopics
    BY <1>1, <1>2 DEF Done, HandlerFits
  <2>2. "completing" \in BankPlaces /\ "completing" \in DeliveryPlaces
    BY DEF BankPlaces, DeliveryPlaces
  <2> QED BY <1>2, <2>1, <2>2, ProceedsFit
<1>3. CASE h \notin Deliveries
  BY <1>3, LeavesFit DEF Done
<1> QED BY <1>2, <1>3

LEMMA ReplaceFits ==
  ASSUME BankInv, NEW h \in Actors, Replace(h), busy[h].at \in {"replacing", "updating"}
  PROVE  \E l \in Handling : busy' = [busy EXCEPT ![h] = l] /\ HandlerFits(h, l)
<1>1. busy[h] \in Handling /\ HandlerFits(h, busy[h])
  BY AtBank
<1>2. h \notin Deliveries /\ busy[h].word = "none"
  BY <1>1 DEF HandlerFits, DeliveryPlaces
<1>3. ASSUME NEW s \in Listed, busy' = [busy EXCEPT ![h].at = "defaulting", ![h].source = s]
      PROVE  \E l \in Handling : busy' = [busy EXCEPT ![h] = l] /\ HandlerFits(h, l)
  <2> DEFINE l == [busy[h] EXCEPT !.at = "defaulting", !.source = s]
  <2>1. s \in Sources
    BY DEF Listed
  <2>2. /\ l \in Handling /\ l.at = "defaulting" /\ l.source = s /\ l.word = "none"
        /\ l.todo = busy[h].todo /\ l.answer = busy[h].answer
    BY <1>1, <1>2, <2>1 DEF Handling, BankPlaces, DeliveryPlaces
  <2>3. busy' = [busy EXCEPT ![h] = l]
    BY <1>3, AtBank
  <2> HIDE DEF l
  <2>4. HandlerFits(h, l)
    BY <1>1, <1>2, <2>1, <2>2 DEF HandlerFits
  <2> QED BY <2>2, <2>3, <2>4
<1> QED BY <1>3, LeavesFit DEF Replace

LEMMA ReadsHold ==
  ASSUME BankInv, NEW h \in Actors,
         \/ ConfirmVerified(h) \/ ChooseDefault(h) \/ CheckActive(h) \/ ReplaceDefault(h) \/ ListAtDwolla(h)
         \/ PickDefault(h) \/ ReserveDebit(h) \/ PostDebit(h) \/ FetchSource(h) \/ FindSource(h)
  PROVE  BankInv'
<1>0. /\ busy \in [Actors -> Handling] /\ busy[h] \in Handling /\ HandlerFits(h, busy[h]) /\ RowInv
      /\ remote \in [Sources -> DwollaStatus] /\ row \in [Sources -> SourceRow]
      /\ delivery \in [Sources -> EventRows] /\ debit \in [Sources -> {"none", "active", "over"}]
  BY AtBank DEF BankInv
<1>1. UNCHANGED <<remote, row, guesses, losses>> /\ UNCHANGED delivery
  BY DEF ConfirmVerified, ChooseDefault, CheckActive, ReplaceDefault, ListAtDwolla, PickDefault, ReserveDebit, PostDebit,
         FetchSource, FindSource, dwolla
<1>2. debit' \in [Sources -> {"none", "active", "over"}]
  BY <1>0 DEF ConfirmVerified, ChooseDefault, CheckActive, ReplaceDefault, ListAtDwolla, PickDefault, ReserveDebit,
              PostDebit, FetchSource, FindSource
<1> DEFINE Going == \E l \in Handling : busy' = [busy EXCEPT ![h] = l] /\ HandlerFits(h, l)
<1>3. ASSUME ConfirmVerified(h) PROVE Going
  <2>1. /\ busy[h].at = "confirming"
        /\ Leave(h) \/ (sourceStatus(remote[busy[h].source]) = "VERIFIED" /\ Proceed(h, "marking"))
    BY <1>3 DEF ConfirmVerified, Doing
  <2>2. busy[h].source \in Sources /\ Made(busy[h].source) /\ h \notin Deliveries
    BY <1>0, <2>1 DEF HandlerFits, DeliveryPlaces
  <2>3. sourceStatus(remote[busy[h].source]) = "VERIFIED" => Checked(busy[h].source)
    BY DEF sourceStatus, Checked
  <2>4. "marking" \in BankPlaces
    BY DEF BankPlaces
  <2> QED BY <2>1, <2>2, <2>3, <2>4, ProceedsFit, LeavesFit
<1>4. ASSUME ChooseDefault(h) PROVE Going
  <2>1. busy[h].at = "choosing" /\ (Done(h) \/ Proceed(h, "defaulting"))
    BY <1>4 DEF ChooseDefault, Doing
  <2>2. busy[h].source \in Sources /\ (h \in Deliveries => busy[h].topic \in AllTopics)
    BY <1>0, <2>1 DEF HandlerFits
  <2>3. "defaulting" \in BankPlaces /\ "defaulting" \in DeliveryPlaces
    BY DEF BankPlaces, DeliveryPlaces
  <2> QED BY <2>1, <2>2, <2>3, ProceedsFit, DoneFits
<1>5. ASSUME CheckActive(h) PROVE Going
  <2>1. busy[h].at = "checking" /\ (Leave(h) \/ Proceed(h, "removing"))
    BY <1>5 DEF CheckActive, Doing
  <2>2. busy[h].source \in Sources /\ Made(busy[h].source) /\ h \notin Deliveries
    BY <1>0, <2>1 DEF HandlerFits, DeliveryPlaces
  <2>3. "removing" \in BankPlaces
    BY DEF BankPlaces
  <2> QED BY <2>1, <2>2, <2>3, ProceedsFit, LeavesFit
<1>6. ASSUME ReplaceDefault(h) PROVE Going
  BY <1>6, ReplaceFits DEF ReplaceDefault, Doing
<1>7. ASSUME PickDefault(h) PROVE Going
  BY <1>7, ReplaceFits, LeavesFit DEF PickDefault, Doing
<1>8. ASSUME ListAtDwolla(h) PROVE Going
  <2> DEFINE left == {s \in busy[h].todo : remote[s] # "removed"}
             l == [busy[h] EXCEPT !.at = "updating", !.answer = remote, !.todo = left]
  <2>1. busy[h].at = "listing" /\ busy[h].todo \subseteq Sources
    BY <1>0, <1>8 DEF ListAtDwolla, Doing, Handling
  <2>2. h \notin Deliveries /\ busy[h].word = "none" /\ \A s \in left : s \in Sources /\ Made(s)
    BY <1>0, <2>1 DEF HandlerFits, DeliveryPlaces
  <2>3. busy' = [busy EXCEPT ![h] = l]
    BY <1>0, <1>8 DEF ListAtDwolla
  <2>4. left \subseteq Sources
    BY <2>2
  <2> HIDE DEF left
  <2>5. l \in Handling /\ l.at = "updating" /\ l.word = "none" /\ l.todo = left /\ l.answer = remote
    BY <1>0, <2>2, <2>4 DEF Handling, BankPlaces
  <2> HIDE DEF l
  <2>6. HandlerFits(h, l)
    BY <2>2, <2>5 DEF HandlerFits, Checked
  <2> QED BY <2>3, <2>5, <2>6
<1>9. ASSUME ReserveDebit(h) \/ PostDebit(h) PROVE Going
  <2>1. busy[h].at \in {"reserving", "posting"} /\ (Leave(h) \/ Proceed(h, "posting"))
    BY <1>9 DEF ReserveDebit, PostDebit, Doing
  <2>2. busy[h].source \in Sources /\ h \notin Deliveries
    BY <1>0, <2>1 DEF HandlerFits, DeliveryPlaces
  <2>3. "posting" \in BankPlaces
    BY DEF BankPlaces
  <2> QED BY <2>1, <2>2, <2>3, ProceedsFit, LeavesFit
<1>10. ASSUME FetchSource(h) PROVE Going
  <2> DEFINE said == sourceStatus(remote[busy[h].source])
             l == [busy[h] EXCEPT !.at = "finding", !.word = said]
  <2>1. /\ busy[h].at = "fetching" /\ busy[h].source \in Sources /\ h \in Deliveries /\ busy[h].topic \in AllTopics
    BY <1>0, <1>10 DEF FetchSource, Doing, HandlerFits
  <2>2. said \in SourceStatus /\ said # "none" /\ (said = "VERIFIED" => Checked(busy[h].source))
    BY DEF sourceStatus, SourceStatus, Checked
  <2>3. busy' = [busy EXCEPT ![h] = l]
    BY <1>0, <1>10 DEF FetchSource
  <2> HIDE DEF said
  <2>5. /\ l \in Handling /\ l.at = "finding" /\ l.word = said /\ l.source = busy[h].source
        /\ l.topic = busy[h].topic /\ l.todo = busy[h].todo /\ l.answer = busy[h].answer
    BY <1>0, <2>2 DEF Handling, BankPlaces, DeliveryPlaces
  <2> HIDE DEF l
  <2>6. HandlerFits(h, l)
    BY <1>0, <2>1, <2>2, <2>5 DEF HandlerFits, DeliveryPlaces
  <2> QED BY <2>3, <2>5, <2>6
<1>11. ASSUME FindSource(h) PROVE Going
  <2>1. /\ busy[h].at = "finding" /\ busy[h].source \in Sources /\ h \in Deliveries /\ busy[h].topic \in AllTopics
    BY <1>0, <1>11 DEF FindSource, Doing, HandlerFits
  <2>2. CASE Saved(busy[h].source)
    <3> DEFINE l == [busy[h] EXCEPT !.at = "writing", !.isDefault = row[busy[h].source].isDefault]
    <3>1. row[busy[h].source].isDefault \in BOOLEAN /\ Made(busy[h].source)
      BY <1>0, <2>1, <2>2 DEF SourceRow, RowInv
    <3>3. busy' = [busy EXCEPT ![h] = l]
      BY <1>0, <1>11, <2>2 DEF FindSource
    <3>5. /\ l \in Handling /\ l.at = "writing" /\ l.word = busy[h].word /\ l.source = busy[h].source
          /\ l.topic = busy[h].topic /\ l.todo = busy[h].todo /\ l.answer = busy[h].answer
      BY <1>0, <3>1 DEF Handling, BankPlaces, DeliveryPlaces
    <3> HIDE DEF l
    <3>6. HandlerFits(h, l)
      BY <1>0, <2>1, <3>1, <3>5 DEF HandlerFits, DeliveryPlaces
    <3> QED BY <3>3, <3>5, <3>6
  <2>3. CASE ~Saved(busy[h].source)
    <3>1. Proceed(h, "completing")
      BY <1>11, <2>3 DEF FindSource
    <3>2. "completing" \in BankPlaces /\ "completing" \in DeliveryPlaces
      BY DEF BankPlaces, DeliveryPlaces
    <3> QED BY <2>1, <3>1, <3>2, ProceedsFit
  <2> QED BY <2>2, <2>3
<1>12. Going
  BY <1>3, <1>4, <1>5, <1>6, <1>7, <1>8, <1>9, <1>10, <1>11
<1> QED BY <1>0, <1>1, <1>2, <1>12, QuietSteps

---------------------------------------------------------------------------
\* The handlers that end the handling of an event, or that are interrupted.
LEMMA LossSteps ==
  ASSUME BankInv, NEW h \in Actors, UNCHANGED <<remote, row, guesses>>, Loss,
         \E l \in Handling : busy' = [busy EXCEPT ![h] = l] /\ HandlerFits(h, l),
         delivery' \in [Sources -> EventRows], debit' \in [Sources -> {"none", "active", "over"}]
  PROVE  BankInv'
<1>1. guesses' \in [Sources -> Nat] /\ losses' \in 0..MaxLosses /\ UNCHANGED <<remote, row>>
  BY AtBank, BankFacts DEF Loss
<1> QED BY <1>1, BankGoesOn

LEMMA Delivers ==
  ASSUME delivery \in [Sources -> EventRows], NEW s \in Sources, NEW topic \in AllTopics,
         NEW state \in {"none", "sent", "PROCESSING", "PROCESSED", "FAILED"},
         delivery' = [delivery EXCEPT ![s][topic] = state]
  PROVE  delivery' \in [Sources -> EventRows]
<1>1. delivery[s] \in EventRows
  OBVIOUS
<1>2. [delivery[s] EXCEPT ![topic] = state] \in EventRows
  BY <1>1 DEF EventRows
<1> QED BY <1>2

LEMMA ReserveWebhookHolds ==
  ASSUME BankInv, NEW h \in Actors, ReserveWebhook(h)
  PROVE  BankInv'
<1>1. PICK s \in Sources, t \in Topics :
        /\ delivery' = [delivery EXCEPT ![s][t] = "PROCESSING"]
        /\ busy' = [busy EXCEPT ![h] = [Unasked EXCEPT !.at = "fetching", !.source = s, !.topic = t]]
        /\ delivery[s][t] \in {"sent", "FAILED"}
  BY DEF ReserveWebhook
<1>2. h \in Deliveries /\ UNCHANGED <<remote, guesses, row, debit, losses>> /\ t \in AllTopics
  BY BankFacts DEF ReserveWebhook
<1>3. Made(s) \/ ~Made(s)
  OBVIOUS
<1> DEFINE l == [Unasked EXCEPT !.at = "fetching", !.source = s, !.topic = t]
<1>4. /\ l \in Handling /\ l.at = "fetching" /\ l.source = s /\ l.topic = t
      /\ l.word = "none" /\ l.todo = {} /\ l.answer = Unasked.answer
  BY <1>2, BankFacts DEF Handling, BankPlaces, DeliveryPlaces
<1>5. busy' = [busy EXCEPT ![h] = l]
  BY <1>1
<1> HIDE DEF l
<1>6. HandlerFits(h, l)
  BY <1>2, <1>4, BankFacts DEF HandlerFits, DeliveryPlaces
<1>7. delivery' \in [Sources -> EventRows] /\ debit' \in [Sources -> {"none", "active", "over"}]
  BY <1>1, <1>2, AtBank, Delivers
<1> QED BY <1>2, <1>4, <1>5, <1>6, <1>7, QuietSteps

LEMMA CompleteWebhookHolds ==
  ASSUME BankInv, NEW h \in Actors, CompleteWebhook(h)
  PROVE  BankInv'
<1>1. busy[h].source \in Sources /\ busy[h].topic \in AllTopics
  BY AtBank DEF CompleteWebhook, Doing, HandlerFits
<1>2. delivery' \in [Sources -> EventRows] /\ debit' \in [Sources -> {"none", "active", "over"}]
  BY <1>1, AtBank, Delivers DEF CompleteWebhook
<1>3. \E l \in Handling : busy' = [busy EXCEPT ![h] = l] /\ HandlerFits(h, l)
  BY LeavesFit DEF CompleteWebhook
<1> QED BY <1>2, <1>3, QuietSteps DEF CompleteWebhook

LEMMA RefusedFits ==
  ASSUME BankInv, NEW h \in Actors, busy[h].at \in {"guessing", "confirming"}, Refused(h)
  PROVE  \E l \in Handling : busy' = [busy EXCEPT ![h] = l] /\ HandlerFits(h, l)
<1>1. busy[h].source \in Sources /\ Made(busy[h].source) /\ h \notin Deliveries
  BY AtBank DEF HandlerFits, DeliveryPlaces
<1>2. "locking" \in BankPlaces
  BY DEF BankPlaces
<1>3. Proceed(h, "locking") \/ Leave(h)
  BY DEF Refused
<1> QED BY <1>1, <1>2, <1>3, ProceedsFit, LeavesFit

LEMMA BankCallFailsHolds ==
  ASSUME BankInv, NEW h \in Actors, BankCallFails(h)
  PROVE  BankInv'
<1>0. /\ delivery \in [Sources -> EventRows] /\ debit \in [Sources -> {"none", "active", "over"}]
      /\ HandlerFits(h, busy[h]) /\ Loss /\ UNCHANGED <<remote, guesses, row>> /\ busy[h].at # "idle"
  BY AtBank DEF BankCallFails, Doing
<1>01. busy[h].at \in {"guessing", "confirming", "posting"} => h \notin Deliveries
  BY <1>0 DEF HandlerFits, DeliveryPlaces
<1>1. CASE busy[h].at \in {"guessing", "confirming"}
  <2>1. Refused(h) /\ UNCHANGED <<delivery, debit>>
    BY <1>01, <1>1 DEF BankCallFails, Doing
  <2> QED BY <1>0, <1>1, <2>1, RefusedFits, LossSteps
<1>2. CASE busy[h].at = "posting"
  <2>1. Leave(h) /\ debit' = [debit EXCEPT ![busy[h].source] = "over"] /\ UNCHANGED delivery
    BY <1>01, <1>2 DEF BankCallFails, Doing
  <2>2. debit' \in [Sources -> {"none", "active", "over"}]
    BY <1>0, <2>1
  <2>3. \E l \in Handling : busy' = [busy EXCEPT ![h] = l] /\ HandlerFits(h, l)
    BY <2>1, LeavesFit
  <2> QED BY <1>0, <2>1, <2>2, <2>3, LossSteps
<1>3. CASE busy[h].at \notin {"guessing", "confirming", "posting"} /\ h \in Deliveries
  <2>1. Leave(h) /\ delivery' = [delivery EXCEPT ![busy[h].source][busy[h].topic] = "FAILED"] /\ UNCHANGED debit
    BY <1>3 DEF BankCallFails, Doing
  <2>2. busy[h].source \in Sources /\ busy[h].topic \in AllTopics
    BY <1>0, <1>3 DEF HandlerFits, DeliveryPlaces
  <2>3. delivery' \in [Sources -> EventRows]
    BY <1>0, <2>1, <2>2, Delivers
  <2>4. \E l \in Handling : busy' = [busy EXCEPT ![h] = l] /\ HandlerFits(h, l)
    BY <2>1, LeavesFit
  <2> QED BY <1>0, <2>1, <2>3, <2>4, LossSteps
<1>4. CASE busy[h].at \notin {"guessing", "confirming", "posting"} /\ h \notin Deliveries
  <2>1. Leave(h) /\ UNCHANGED <<delivery, debit>>
    BY <1>4 DEF BankCallFails, Doing
  <2>2. \E l \in Handling : busy' = [busy EXCEPT ![h] = l] /\ HandlerFits(h, l)
    BY <2>1, LeavesFit
  <2> QED BY <1>0, <2>1, <2>2, LossSteps
<1> QED BY <1>1, <1>2, <1>3, <1>4

LEMMA BankCrashHolds ==
  ASSUME BankInv, NEW h \in Actors, BankCrash(h)
  PROVE  BankInv'
<1>1. \E l \in Handling : busy' = [busy EXCEPT ![h] = l] /\ HandlerFits(h, l)
  BY LeavesFit DEF BankCrash
<1>2. Loss /\ UNCHANGED <<remote, row, guesses>> /\ UNCHANGED <<delivery, debit>>
  BY DEF BankCrash, dwolla
<1> QED BY <1>1, <1>2, AtBank, LossSteps

---------------------------------------------------------------------------
\* A handler writes a row it knows to be of an account that Dwolla has.
LEMMA StatusIsWritten ==
  ASSUME BankInv, NEW s \in Sources, NEW status \in SourceStatus, SetStatus(s, status)
  PROVE  \E r \in SourceRow : row' = [row EXCEPT ![s] = r] /\ r.status = status
<1> DEFINE r == [row[s] EXCEPT !.status = status]
<1>1. row \in [Sources -> SourceRow]
  BY DEF BankInv, BankTypes, BankTypeOK
<1>2. r \in SourceRow /\ r.status = status
  BY <1>1 DEF SourceRow
<1>3. row' = [row EXCEPT ![s] = r]
  BY DEF SetStatus
<1> QED BY <1>2, <1>3

LEMMA SaveSourceHolds ==
  ASSUME BankInv, NEW h \in Actors, SaveSource(h)
  PROVE  BankInv'
<1> DEFINE s == busy[h].source
           status == sourceStatus(remote[s])
           r == [NoRow EXCEPT !.status = status]
<1>1. s \in Sources /\ Made(s)
  BY AtBank DEF SaveSource, Doing, HandlerFits
<1>2. PICK l \in Handling : busy' = [busy EXCEPT ![h] = l] /\ HandlerFits(h, l)
  BY LeavesFit DEF SaveSource
<1>3. status \in SourceStatus /\ (status = "VERIFIED" => Checked(s))
  BY DEF sourceStatus, SourceStatus, Checked
<1>4. row' = [row EXCEPT ![s] = r]
  BY DEF SaveSource
<1> HIDE DEF status
<1>5. r \in SourceRow /\ r.status = status
  BY <1>3, BankFacts DEF SourceRow
<1>6. UNCHANGED <<dwolla, debit, losses>>
  BY DEF SaveSource
<1> HIDE DEF r, s
<1> QED BY <1>1, <1>2, <1>3, <1>4, <1>5, <1>6, BankWrites

LEMMA RecordInitiationHolds ==
  ASSUME BankInv, NEW h \in Actors, RecordInitiation(h)
  PROVE  BankInv'
<1> DEFINE s == busy[h].source
           r == [row[s] EXCEPT !.initiated = TRUE]
<1>1. s \in Sources
  BY AtBank DEF RecordInitiation, Doing, HandlerFits
<1>2. PICK l \in Handling : busy' = [busy EXCEPT ![h] = l] /\ HandlerFits(h, l)
  BY LeavesFit DEF RecordInitiation
<1>3. row' = [row EXCEPT ![s] = r] /\ UNCHANGED <<dwolla, debit, losses>>
  BY DEF RecordInitiation
<1>4. row[s] \in SourceRow
  BY <1>1, AtBank
<1>5. r \in SourceRow /\ r.status = row[s].status
  BY <1>4 DEF SourceRow
<1>6. (r.status # "NONE" => Saved(s)) /\ (r.status = "VERIFIED" => Usable(s))
  BY <1>5 DEF Saved, Usable
<1> HIDE DEF r, s
<1> QED BY <1>1, <1>2, <1>3, <1>5, <1>6, BankWrites

LEMMA CountAttemptHolds ==
  ASSUME BankInv, NEW h \in Actors, CountAttempt(h)
  PROVE  BankInv'
<1> DEFINE s == busy[h].source
           n == busy[h].attempts + 1
           r == [row[s] EXCEPT !.attempts = n]
           l == [busy[h] EXCEPT !.at = "guessing", !.attempts = n]
<1>0. busy[h] \in Handling /\ HandlerFits(h, busy[h]) /\ busy[h].at = "attempting"
  BY AtBank DEF CountAttempt, Doing
<1>1. s \in Sources /\ Made(s) /\ h \notin Deliveries /\ busy[h].attempts \in Attempts /\ busy[h].attempts # 3
  BY <1>0 DEF HandlerFits, DeliveryPlaces, Handling
<1>2. n \in Attempts
  BY <1>1, BankFacts
<1>3. row' = [row EXCEPT ![s] = r] /\ UNCHANGED <<dwolla, debit, losses>>
  BY DEF CountAttempt
<1>4. busy' = [busy EXCEPT ![h] = l]
  BY DEF CountAttempt
<1> HIDE DEF n
<1>5. r \in SourceRow /\ r.status = row[s].status
  <2>1. row[s] \in SourceRow
    BY <1>1, AtBank
  <2> QED BY <1>2, <2>1 DEF SourceRow
<1>6. (r.status # "NONE" => Saved(s)) /\ (r.status = "VERIFIED" => Usable(s))
  BY <1>5 DEF Saved, Usable
<1>7. /\ l \in Handling /\ l.at = "guessing" /\ l.source = s /\ l.topic = busy[h].topic
      /\ l.word = busy[h].word /\ l.todo = busy[h].todo /\ l.answer = busy[h].answer
  BY <1>0, <1>2 DEF Handling, BankPlaces
<1> HIDE DEF l, r
<1>8. HandlerFits(h, l)
  BY <1>0, <1>1, <1>7 DEF HandlerFits
<1> HIDE DEF s
<1> QED BY <1>1, <1>3, <1>4, <1>5, <1>6, <1>7, <1>8, BankWrites

LEMMA LockSourceHolds ==
  ASSUME BankInv, NEW h \in Actors, LockSource(h)
  PROVE  BankInv'
<1>1. busy[h].source \in Sources /\ Made(busy[h].source)
  BY AtBank DEF LockSource, Doing, HandlerFits
<1>2. PICK l \in Handling : busy' = [busy EXCEPT ![h] = l] /\ HandlerFits(h, l)
  BY LeavesFit DEF LockSource
<1>3. PICK r \in SourceRow : row' = [row EXCEPT ![busy[h].source] = r] /\ r.status = "FAILED"
  BY <1>1, StatusIsWritten DEF LockSource, SourceStatus
<1> QED BY <1>1, <1>2, <1>3, BankWrites DEF LockSource

LEMMA MarkVerifiedHolds ==
  ASSUME BankInv, NEW h \in Actors, MarkVerified(h)
  PROVE  BankInv'
<1>1. busy[h].source \in Sources /\ Made(busy[h].source) /\ Checked(busy[h].source) /\ h \notin Deliveries
  BY AtBank DEF MarkVerified, Doing, HandlerFits, DeliveryPlaces
<1>2. "choosing" \in BankPlaces
  BY DEF BankPlaces, DeliveryPlaces
<1>3. PICK l \in Handling : busy' = [busy EXCEPT ![h] = l] /\ HandlerFits(h, l)
  BY <1>1, <1>2, ProceedsFit DEF MarkVerified
<1>4. PICK r \in SourceRow : row' = [row EXCEPT ![busy[h].source] = r] /\ r.status = "VERIFIED"
  BY <1>1, StatusIsWritten DEF MarkVerified, SourceStatus
<1> QED BY <1>1, <1>3, <1>4, BankWrites DEF MarkVerified

LEMMA RetireSourceHolds ==
  ASSUME BankInv, NEW h \in Actors, RetireSource(h)
  PROVE  BankInv'
<1> DEFINE s == busy[h].source
           r == [row[s] EXCEPT !.status = "REMOVED", !.isDefault = FALSE]
<1>1. s \in Sources /\ Made(s) /\ h \notin Deliveries
  BY AtBank DEF RetireSource, Doing, HandlerFits, DeliveryPlaces
<1>2. "replacing" \in BankPlaces
  BY DEF BankPlaces
<1>3. PICK l \in Handling : busy' = [busy EXCEPT ![h] = l] /\ HandlerFits(h, l)
  BY <1>1, <1>2, ProceedsFit, LeavesFit DEF RetireSource
<1>4. row' = [row EXCEPT ![s] = r] /\ UNCHANGED <<dwolla, debit, losses>>
  BY DEF RetireSource
<1>5. row[s] \in SourceRow
  BY <1>1, AtBank
<1>6. r \in SourceRow /\ r.status = "REMOVED"
  BY <1>5 DEF SourceRow, SourceStatus
<1> HIDE DEF r, s
<1> QED BY <1>1, <1>3, <1>4, <1>6, BankWrites

LEMMA UpdateListedHolds ==
  ASSUME BankInv, NEW h \in Actors, UpdateListed(h)
  PROVE  BankInv'
<1>0. busy[h] \in Handling /\ HandlerFits(h, busy[h]) /\ busy[h].at = "updating" /\ busy[h].todo \subseteq Sources
  BY AtBank DEF UpdateListed, Doing, Handling
<1>1. PICK s \in busy[h].todo :
        /\ SetStatus(s, IF s \in busy[h].failed THEN "FAILED" ELSE sourceStatus(busy[h].answer[s]))
        /\ busy' = [busy EXCEPT ![h].todo = @ \ {s}]
  BY DEF UpdateListed
<1> DEFINE status == IF s \in busy[h].failed THEN "FAILED" ELSE sourceStatus(busy[h].answer[s])
           l == [busy[h] EXCEPT !.todo = @ \ {s}]
<1>2. s \in Sources /\ Made(s)
  BY <1>0 DEF HandlerFits
<1>3. status \in SourceStatus /\ (status = "VERIFIED" => Checked(s))
  BY <1>0, <1>2 DEF sourceStatus, SourceStatus, HandlerFits
<1>4. PICK r \in SourceRow : row' = [row EXCEPT ![s] = r] /\ r.status = status
  BY <1>1, <1>2, <1>3, StatusIsWritten
<1> HIDE DEF status
<1>5. busy' = [busy EXCEPT ![h] = l]
  BY <1>1
<1>6. /\ l \in Handling /\ l.at = busy[h].at /\ l.source = busy[h].source /\ l.topic = busy[h].topic
      /\ l.word = busy[h].word /\ l.answer = busy[h].answer /\ \A x \in l.todo : x \in busy[h].todo
  BY <1>0 DEF Handling
<1> HIDE DEF l
<1>7. HandlerFits(h, l)
  BY <1>0, <1>6 DEF HandlerFits
<1> QED BY <1>2, <1>3, <1>4, <1>5, <1>6, <1>7, BankWrites DEF UpdateListed

LEMMA WriteSourceHolds ==
  ASSUME BankInv, NEW h \in Actors, WriteSource(h)
  PROVE  BankInv'
<1> DEFINE s == busy[h].source
           status == StatusByTopic(busy[h].topic, busy[h].word)
           isDefault == busy[h].isDefault /\ status \notin {"REMOVED", "FAILED"}
           r == [row[s] EXCEPT !.status = status, !.isDefault = isDefault]
<1>0. busy[h] \in Handling /\ HandlerFits(h, busy[h]) /\ busy[h].at = "writing"
  BY AtBank DEF WriteSource, Doing
<1>1. s \in Sources /\ Made(s) /\ h \in Deliveries /\ busy[h].topic \in AllTopics /\ busy[h].word \in SourceStatus
  BY <1>0 DEF HandlerFits, Handling
<1>2. status \in SourceStatus /\ (status = "VERIFIED" => Checked(s))
  BY <1>0, <1>1 DEF StatusByTopic, SourceStatus, HandlerFits
<1>3. row' = [row EXCEPT ![s] = r] /\ UNCHANGED <<dwolla, debit, losses>>
  BY DEF WriteSource
<1>4. Proceed(h, "choosing") \/ Proceed(h, "completing")
  BY DEF WriteSource
<1>5. {"choosing", "completing"} \subseteq BankPlaces \cap DeliveryPlaces
  BY DEF BankPlaces, DeliveryPlaces
<1>6. PICK l \in Handling : busy' = [busy EXCEPT ![h] = l] /\ HandlerFits(h, l)
  BY <1>1, <1>4, <1>5, ProceedsFit
<1> HIDE DEF status
<1>7. isDefault \in BOOLEAN
  OBVIOUS
<1> HIDE DEF isDefault
<1>8. row[s] \in SourceRow
  BY <1>1, AtBank
<1>9. r \in SourceRow /\ r.status = status
  BY <1>2, <1>7, <1>8 DEF SourceRow
<1> HIDE DEF r, s
<1> QED BY <1>1, <1>2, <1>3, <1>6, <1>9, BankWrites

LEMMA SetDefaultSourceHolds ==
  ASSUME BankInv, NEW h \in Actors, SetDefaultSource(h)
  PROVE  BankInv'
<1>0. BankTypeOK /\ RowInv /\ UNCHANGED <<remote, guesses, delivery, debit, losses>>
  BY DEF BankInv, BankTypes, SetDefaultSource, dwolla
<1>1. RemoteGrows
  BY <1>0 DEF RemoteGrows, Made, Checked
<1>2. row' = [x \in Sources |-> [row[x] EXCEPT !.isDefault = x = busy[h].source]]
  BY DEF SetDefaultSource
<1>3. ASSUME NEW x \in Sources PROVE row'[x] \in SourceRow /\ row'[x].status = row[x].status
  <2> DEFINE b == x = busy[h].source
  <2>1. row'[x] = [row[x] EXCEPT !.isDefault = b] /\ row[x] \in SourceRow
    BY <1>0, <1>2 DEF BankTypeOK
  <2>2. b \in BOOLEAN
    OBVIOUS
  <2> HIDE DEF b
  <2> QED BY <2>1, <2>2 DEF SourceRow
<1>4. row' = [x \in Sources |-> row'[x]]
  BY <1>2
<1>5. row' \in [Sources -> SourceRow]
  BY <1>3, <1>4
<1>6. RowInv'
  BY <1>0, <1>3 DEF RowInv, Made, Checked, Saved, Usable
<1>7. BankTypeOK'
  BY <1>0, <1>5 DEF BankTypeOK
<1>8. PICK l \in Handling : busy' = [busy EXCEPT ![h] = l] /\ HandlerFits(h, l)
  BY DoneFits DEF SetDefaultSource, Doing
<1>9. HandlerFits(h, l)'
  BY <1>1, <1>8, HandlerStays
<1> QED BY <1>1, <1>6, <1>7, <1>8, <1>9, BankMoves

---------------------------------------------------------------------------
\* Dwolla's side of an account changes, and no row does.
LEMMA DwollaSteps ==
  ASSUME BankInv, NEW h \in Actors, NEW l \in Handling, busy' = [busy EXCEPT ![h] = l], HandlerFits(h, l)',
         NEW s \in Sources, NEW word \in DwollaStatus, remote' = [remote EXCEPT ![s] = word],
         word # "none", Checked(s) => word \in {"verified", "removed"}, UNCHANGED <<row, losses>>,
         guesses' \in [Sources -> Nat], delivery' \in [Sources -> EventRows],
         debit' \in [Sources -> {"none", "active", "over"}]
  PROVE  BankInv'
<1>0. BankTypeOK /\ RowInv
  BY DEF BankInv, BankTypes
<1>1. remote' \in [Sources -> DwollaStatus] /\ remote'[s] = word /\ \A x \in Sources \ {s} : remote'[x] = remote[x]
  BY <1>0 DEF BankTypeOK
<1>2. RemoteGrows
  BY <1>1 DEF RemoteGrows, Made, Checked
<1>3. RowInv'
  BY <1>0, <1>2 DEF RowInv, RemoteGrows, Saved, Usable
<1>4. BankTypeOK'
  BY <1>0, <1>1 DEF BankTypeOK
<1> QED BY <1>2, <1>3, <1>4, BankMoves

LEMMA CreateSourceHolds ==
  ASSUME BankInv, NEW h \in Actors, CreateSource(h)
  PROVE  BankInv'
<1>1. PICK s \in Sources : /\ remote[s] = "none" /\ remote' = [remote EXCEPT ![s] = "unverified"]
                           /\ Emit(s, "added") /\ Start(h, "saving", s)
  BY DEF CreateSource
<1>2. h \notin Deliveries /\ UNCHANGED <<guesses, row, debit, losses>>
  BY BankFacts DEF CreateSource, Asked
<1>3. /\ remote \in [Sources -> DwollaStatus] /\ delivery \in [Sources -> EventRows]
      /\ debit \in [Sources -> {"none", "active", "over"}] /\ guesses \in [Sources -> Nat]
  BY AtBank
<1>4. Made(s)'
  BY <1>1, <1>3 DEF Made
<1> DEFINE l == [Unasked EXCEPT !.at = "saving", !.source = s]
<1>5. /\ l \in Handling /\ l.at = "saving" /\ l.source = s
      /\ l.word = "none" /\ l.todo = {} /\ l.answer = Unasked.answer
  BY BankFacts DEF Handling, BankPlaces, DeliveryPlaces
<1>6. busy' = [busy EXCEPT ![h] = l]
  BY <1>1 DEF Start
<1> HIDE DEF l
<1>7. HandlerFits(h, l)'
  BY <1>2, <1>4, <1>5, BankFacts DEF HandlerFits
<1>8. delivery' \in [Sources -> EventRows] /\ guesses' \in [Sources -> Nat] /\ debit' \in [Sources -> {"none", "active", "over"}]
  BY <1>1, <1>2, <1>3, Emits DEF AllTopics
<1>9. "unverified" \in DwollaStatus /\ ~Checked(s)
  BY <1>1 DEF DwollaStatus, Checked
<1> QED BY <1>1, <1>2, <1>5, <1>6, <1>7, <1>8, <1>9, DwollaSteps

LEMMA GuessHolds ==
  ASSUME BankInv, NEW h \in Actors, Guess(h)
  PROVE  BankInv'
<1> DEFINE s == busy[h].source
<1>0. /\ busy[h] \in Handling /\ HandlerFits(h, busy[h]) /\ busy[h].at = "guessing"
      /\ remote \in [Sources -> DwollaStatus] /\ delivery \in [Sources -> EventRows]
      /\ debit \in [Sources -> {"none", "active", "over"}] /\ guesses \in [Sources -> Nat]
  BY AtBank DEF Guess, Doing
<1>1. s \in Sources /\ Made(s) /\ h \notin Deliveries
  BY <1>0 DEF HandlerFits, DeliveryPlaces
<1>2. UNCHANGED <<row, debit, losses>> /\ guesses' = [guesses EXCEPT ![s] = @ + 1]
  BY DEF Guess
<1>3. guesses' \in [Sources -> Nat]
  BY <1>0, <1>1, <1>2
<1>4. CASE remote[s] = "unverified" /\ remote' = [remote EXCEPT ![s] = "verified"]
           /\ Emit(s, "verified") /\ Proceed(h, "confirming")
  <2>1. "confirming" \in BankPlaces /\ "verified" \in DwollaStatus /\ "verified" \in AllTopics
    BY DEF BankPlaces, DwollaStatus, AllTopics
  <2>2. PICK l \in Handling : busy' = [busy EXCEPT ![h] = l] /\ HandlerFits(h, l)
    BY <1>1, <1>4, <2>1, ProceedsFit
  <2>3. RemoteGrows
    BY <1>0, <1>1, <1>4 DEF RemoteGrows, Made, Checked
  <2>4. HandlerFits(h, l)'
    BY <2>2, <2>3, HandlerStays
  <2>5. delivery' \in [Sources -> EventRows]
    BY <1>0, <1>1, <1>4, <2>1, Emits
  <2>6. debit' \in [Sources -> {"none", "active", "over"}]
    BY <1>0, <1>2
  <2> HIDE DEF s
  <2> QED BY <1>1, <1>2, <1>3, <1>4, <2>1, <2>2, <2>4, <2>5, <2>6, DwollaSteps
<1>5. CASE /\ IF guesses[s] = 2 THEN Emit(s, "maxattempts") ELSE UNCHANGED delivery
           /\ Refused(h) /\ UNCHANGED remote
  <2>1. "maxattempts" \in AllTopics
    BY DEF AllTopics
  <2>2. delivery' \in [Sources -> EventRows]
    <3>1. Emit(s, "maxattempts") \/ UNCHANGED delivery
      BY <1>5
    <3> QED BY <1>0, <1>1, <2>1, <3>1, Emits
  <2>3. PICK l \in Handling : busy' = [busy EXCEPT ![h] = l] /\ HandlerFits(h, l)
    BY <1>0, <1>5, RefusedFits
  <2>4. losses' \in 0..MaxLosses /\ debit' \in [Sources -> {"none", "active", "over"}]
    BY <1>2, AtBank
  <2> QED BY <1>2, <1>3, <1>5, <2>2, <2>3, <2>4, BankGoesOn
<1> QED BY <1>4, <1>5 DEF Guess

LEMMA RemoveAtDwollaHolds ==
  ASSUME BankInv, NEW h \in Actors, RemoveAtDwolla(h)
  PROVE  BankInv'
<1> DEFINE s == busy[h].source
<1>0. /\ HandlerFits(h, busy[h]) /\ busy[h].at = "removing"
      /\ remote \in [Sources -> DwollaStatus] /\ delivery \in [Sources -> EventRows]
      /\ debit \in [Sources -> {"none", "active", "over"}] /\ guesses \in [Sources -> Nat]
  BY AtBank DEF RemoveAtDwolla, Doing
<1>1. s \in Sources /\ Made(s) /\ h \notin Deliveries
  BY <1>0 DEF HandlerFits, DeliveryPlaces
<1>2. UNCHANGED <<guesses, row, debit, losses>> /\ remote' = [remote EXCEPT ![s] = "removed"] /\ Emit(s, "removed")
      /\ Proceed(h, "retiring")
  BY DEF RemoveAtDwolla
<1>3. "retiring" \in BankPlaces /\ "removed" \in DwollaStatus /\ "removed" \in AllTopics
  BY DEF BankPlaces, DwollaStatus, AllTopics
<1>4. PICK l \in Handling : busy' = [busy EXCEPT ![h] = l] /\ HandlerFits(h, l)
  BY <1>1, <1>2, <1>3, ProceedsFit
<1>5. RemoteGrows
  BY <1>0, <1>1, <1>2 DEF RemoteGrows, Made, Checked
<1>6. HandlerFits(h, l)'
  BY <1>4, <1>5, HandlerStays
<1>7. delivery' \in [Sources -> EventRows] /\ guesses' \in [Sources -> Nat] /\ debit' \in [Sources -> {"none", "active", "over"}]
  BY <1>0, <1>1, <1>2, <1>3, Emits
<1> HIDE DEF s
<1> QED BY <1>1, <1>2, <1>3, <1>4, <1>6, <1>7, DwollaSteps

\* The steps that no handler takes.
LEMMA BankStandsStill ==
  ASSUME BankInv, UNCHANGED busy, RemoteGrows, RowInv', BankTypeOK'
  PROVE  BankInv'
<1>0. busy \in [Actors -> Handling] /\ \A g \in Actors : HandlerFits(g, busy[g])
  BY DEF BankInv, BankTypes
<1>1. ASSUME NEW g \in Actors PROVE HandlerFits(g, busy[g])'
  <2>1. PICK k \in Handling : k = busy[g] /\ HandlerFits(g, k)
    BY <1>0
  <2>2. HandlerFits(g, k)'
    BY <2>1, HandlerStays
  <2>3. busy'[g] = k
    BY <2>1
  <2> QED BY <2>2, <2>3 DEF HandlerFits
<1> QED BY <1>0, <1>1 DEF BankInv, BankTypes

LEMMA DebitEndsHolds == ASSUME BankInv, DebitEnds PROVE BankInv'
<1>1. UNCHANGED <<remote, row, busy, guesses, delivery, losses>> /\ BankTypeOK /\ RowInv
  BY DEF BankInv, BankTypes, DebitEnds, dwolla
<1>2. debit' \in [Sources -> {"none", "active", "over"}]
  BY <1>1 DEF BankTypeOK, DebitEnds
<1>3. RemoteGrows /\ RowInv' /\ BankTypeOK'
  BY <1>1, <1>2 DEF RemoteGrows, RowInv, Made, Checked, Saved, Usable, BankTypeOK
<1> QED BY <1>1, <1>3, BankStandsStill

LEMMA DwollaWithdrawsHolds == ASSUME BankInv, DwollaWithdraws PROVE BankInv'
<1>1. UNCHANGED <<guesses, row, debit, busy, losses>> /\ BankTypeOK /\ RowInv
  BY DEF BankInv, BankTypes, DwollaWithdraws
<1>2. PICK s \in Sources : remote[s] = "verified" /\ remote' = [remote EXCEPT ![s] = "removed"] /\ Emit(s, "removed")
  BY DEF DwollaWithdraws
<1>3. delivery' \in [Sources -> EventRows]
  BY <1>1, <1>2, Emits DEF BankTypeOK, AllTopics
<1>4. remote' \in [Sources -> DwollaStatus] /\ RemoteGrows
  BY <1>1, <1>2 DEF BankTypeOK, DwollaStatus, RemoteGrows, Made, Checked
<1>5. RowInv'
  BY <1>1, <1>4 DEF RowInv, RemoteGrows, Saved, Usable
<1>6. BankTypeOK'
  BY <1>1, <1>3, <1>4 DEF BankTypeOK
<1> QED BY <1>1, <1>4, <1>5, <1>6, BankStandsStill

---------------------------------------------------------------------------
LEMMA BankStarts == ASSUME BankInit PROVE BankInv
<1>1. BankTypeOK
  <2>1. [t \in AllTopics |-> "none"] \in EventRows
    BY DEF EventRows
  <2> QED BY <2>1, BankFacts DEF BankInit, BankTypeOK, DwollaStatus
<1>2. busy \in [Actors -> Handling] /\ \A h \in Actors : busy[h] = Unasked
  BY BankFacts DEF BankInit
<1>3. RowInv
  BY BankFacts DEF BankInit, RowInv, Saved, Usable
<1> QED BY <1>1, <1>2, <1>3, UnaskedFits DEF BankInv, BankTypes

LEMMA BankStep == ASSUME BankInv, [BankNext]_bankVars PROVE BankInv'
<1>1. CASE UNCHANGED bankVars
  <2>1. UNCHANGED <<remote, guesses, delivery, row, debit, busy, losses>>
    BY <1>1 DEF bankVars
  <2>2. RemoteGrows /\ RowInv' /\ BankTypeOK'
    BY <2>1 DEF BankInv, BankTypes, RemoteGrows, RowInv, Made, Checked, Saved, Usable, BankTypeOK
  <2> QED BY <2>1, <2>2, BankStandsStill
<1>2. CASE DebitEnds \/ DwollaWithdraws
  BY <1>2, DebitEndsHolds, DwollaWithdrawsHolds
<1>3. ASSUME NEW h \in Actors, Ask(h) \/ ReserveWebhook(h) \/ BankCallFails(h) \/ BankCrash(h)
      PROVE  BankInv'
  BY <1>3, AskHolds, CreateSourceHolds, ReserveWebhookHolds, BankCallFailsHolds, BankCrashHolds DEF Ask
<1>4. ASSUME NEW h \in Actors, Handle(h) PROVE BankInv'
  <2>1. CASE \/ SaveSource(h) \/ RecordInitiation(h) \/ CountAttempt(h) \/ LockSource(h) \/ MarkVerified(h)
             \/ SetDefaultSource(h) \/ RetireSource(h) \/ UpdateListed(h) \/ WriteSource(h)
    BY <2>1, SaveSourceHolds, RecordInitiationHolds, CountAttemptHolds, LockSourceHolds, MarkVerifiedHolds,
       SetDefaultSourceHolds, RetireSourceHolds, UpdateListedHolds, WriteSourceHolds
  <2>2. CASE Guess(h) \/ RemoveAtDwolla(h) \/ CompleteWebhook(h)
    BY <2>2, GuessHolds, RemoveAtDwollaHolds, CompleteWebhookHolds
  <2>3. CASE \/ ConfirmVerified(h) \/ ChooseDefault(h) \/ CheckActive(h) \/ ReplaceDefault(h) \/ ListAtDwolla(h)
             \/ PickDefault(h) \/ ReserveDebit(h) \/ PostDebit(h) \/ FetchSource(h) \/ FindSource(h)
    BY <2>3, ReadsHold
  <2> QED BY <1>4, <2>1, <2>2, <2>3 DEF Handle
<1> QED BY <1>1, <1>2, <1>3, <1>4 DEF BankNext

(* An account that the API calls VERIFIED was verified by Dwolla, whatever  *)
(* requests and events of it are handled at the same time, and whatever is  *)
(* lost (sourceStatus, updateSourceFromProvider).                           *)
THEOREM OnlyDwollaVerifies == BankSpec => [](BankTypeOK /\ VerifiedByDwolla)
<1>1. BankInv => BankTypeOK /\ VerifiedByDwolla
  BY DEF BankInv, BankTypes, RowInv, Checked, VerifiedByDwolla
<1>2. BankSpec => []BankInv
  BY BankStarts, BankStep, PTL DEF BankSpec
<1> QED BY <1>1, <1>2, PTL

---------------------------------------------------------------------------
(* The customer's access: the inductive invariant.                         *)

Visit ==
  [at : {"idle", "allowed", "compare", "fail", "count", "lock", "clear", "issue", "delete", "renew", "renewed",
         "mail", "claim", "change"},
   token : Tokens \cup {"none"}, link : Links \cup {"none"}, seen : Nat, locked : BOOLEAN, reset : BOOLEAN]

AccessTypes == AccessTypeOK /\ visit \in [Callers -> Visit]

\* What a request goes by.
VisitFits(v) ==
  /\ v.at \in {"delete", "renew", "renewed"} => v.token \in Tokens /\ parent[v.token] # "none"
  /\ v.at \in {"mail", "claim"} => v.link \in Links

Renews(r, t) == visit[r].at \in {"renew", "renewed"} /\ visit[r].token = t
Childless(t) == \A s \in Tokens : parent[s] # t

(* A session that lives has no successor, nor has one that a request is    *)
(* about to give one, which is the only request to do so.                  *)
SessionInv ==
  /\ \A t \in Tokens : session[t] # 0 => parent[t] # "none"
  /\ \A t \in Tokens : session[t] # 0 \/ parent[t] = "none" => Childless(t) /\ \A r \in Callers : ~Renews(r, t)
  /\ \A r \in Callers, t \in Tokens : Renews(r, t) => Childless(t)
  /\ \A q, r \in Callers, t \in Tokens : Renews(q, t) /\ Renews(r, t) => q = r
  /\ OneSuccessorEach

(* A link that changed the password is consumed.                           *)
LinkInv == OneChangeEach /\ \A i \in DOMAIN changes : link[changes[i]].consumed

AccessInv == AccessTypes /\ (\A r \in Callers : VisitFits(visit[r])) /\ SessionInv /\ LinkInv

---------------------------------------------------------------------------
LEMMA AccessFacts ==
  /\ NoVisit \in Visit /\ NoVisit.at = "idle"
  /\ "none" \notin Tokens /\ "login" \notin Tokens
  /\ LastLapse \in Nat /\ LockTtl \in Nat /\ ResetTtl \in Nat /\ SessionTtl \in Nat
  /\ \A n \in Numbers : n \in Nat /\ (n < MaxPasswords => n + 1 \in Numbers)
<1>1. NoVisit \in Visit /\ NoVisit.at = "idle"
  BY DEF NoVisit, Visit
<1>2. /\ "none" \notin Tokens /\ "login" \notin Tokens
      /\ LastLapse \in Nat /\ LockTtl \in Nat /\ ResetTtl \in Nat /\ SessionTtl \in Nat /\ MaxPasswords \in Nat
  BY AccessAssumption
<1> QED BY <1>1, <1>2 DEF Numbers

\* Sessions that end, and a request that goes on.
LEMMA SessionsStand ==
  ASSUME AccessInv, NEW r \in Callers, NEW v \in Visit, visit' = [visit EXCEPT ![r] = v], UNCHANGED parent,
         \A t \in Tokens : session'[t] \in {0, session[t]},
         v.at \in {"renew", "renewed"} => \/ Renews(r, v.token)
                                          \/ v.token \in Tokens /\ session[v.token] # 0 /\ session'[v.token] = 0
  PROVE  SessionInv'
<1>0. SessionInv /\ visit \in [Callers -> Visit] /\ parent' = parent
  BY DEF AccessInv, AccessTypes
<1>1. visit'[r] = v /\ \A q \in Callers \ {r} : visit'[q] = visit[q]
  BY <1>0
<1>2. \A t \in Tokens : Childless(t)' <=> Childless(t)
  BY <1>0 DEF Childless
<1>3. \A q \in Callers \ {r}, t \in Tokens : Renews(q, t)' <=> Renews(q, t)
  BY <1>1 DEF Renews
<1>4. ASSUME NEW t \in Tokens, Renews(r, t)'
      PROVE  Renews(r, t) \/ (session[t] # 0 /\ session'[t] = 0)
  BY <1>1, <1>4 DEF Renews
<1>5. ASSUME NEW t \in Tokens, Renews(r, t)'
      PROVE  Childless(t) /\ session'[t] = 0 /\ parent[t] # "none" /\ \A q \in Callers \ {r} : ~Renews(q, t)
  <2>1. CASE Renews(r, t)
    <3>1. Childless(t) /\ session[t] = 0 /\ parent[t] # "none" /\ \A q \in Callers \ {r} : ~Renews(q, t)
      BY <1>0, <2>1 DEF SessionInv
    <3> QED BY <3>1
  <2>2. CASE session[t] # 0 /\ session'[t] = 0
    <3>1. Childless(t) /\ \A q \in Callers \ {r} : ~Renews(q, t)
      BY <1>0, <2>2 DEF SessionInv
    <3>2. parent[t] # "none"
      BY <1>0, <2>2 DEF SessionInv
    <3> QED BY <2>2, <3>1, <3>2
  <2> QED BY <1>4, <1>5, <2>1, <2>2
<1>6. ASSUME NEW t \in Tokens, session'[t] # 0 \/ parent'[t] = "none"
      PROVE  Childless(t)' /\ \A q \in Callers : ~Renews(q, t)'
  BY <1>0, <1>2, <1>3, <1>5, <1>6 DEF SessionInv
<1>7. ASSUME NEW q \in Callers, NEW t \in Tokens, Renews(q, t)' PROVE Childless(t)'
  BY <1>0, <1>2, <1>3, <1>5, <1>7 DEF SessionInv
<1>8. ASSUME NEW q \in Callers, NEW p \in Callers, NEW t \in Tokens, Renews(p, t)', Renews(q, t)' PROVE p = q
  BY <1>0, <1>3, <1>5, <1>8 DEF SessionInv
<1>10. \A t \in Tokens : session'[t] # 0 => parent'[t] # "none"
  BY <1>0 DEF SessionInv
<1>9. OneSuccessorEach'
  BY <1>0 DEF SessionInv, OneSuccessorEach
<1> QED BY <1>6, <1>7, <1>8, <1>9, <1>10 DEF SessionInv

\* No request goes on.
LEMMA SessionsEnd ==
  ASSUME AccessInv, UNCHANGED <<parent, visit>>, \A t \in Tokens : session'[t] \in {0, session[t]}
  PROVE  SessionInv'
BY DEF AccessInv, SessionInv, Childless, Renews, OneSuccessorEach

\* A session begins.
LEMMA SessionBegins ==
  ASSUME AccessInv, NEW r \in Callers, NEW by, IssueTokens(by), Finish(r),
         by = "login" \/ (by \in Tokens /\ Renews(r, by))
  PROVE  SessionInv' /\ session' \in [Tokens -> Nat] /\ parent' \in [Tokens -> Tokens \cup {"none", "login"}]
         /\ \A t \in Tokens : parent[t] # "none" => parent'[t] # "none"
<1>0. /\ SessionInv /\ visit \in [Callers -> Visit] /\ lapse \in Nat /\ session \in [Tokens -> Nat]
      /\ parent \in [Tokens -> Tokens \cup {"none", "login"}]
  BY AccessFacts DEF AccessInv, AccessTypes, AccessTypeOK
<1>1. PICK t \in Tokens : /\ parent[t] = "none" /\ parent' = [parent EXCEPT ![t] = by]
                          /\ session' = [session EXCEPT ![t] = lapse + SessionTtl]
  BY DEF IssueTokens
<1>2. /\ parent'[t] = by /\ (\A s \in Tokens \ {t} : parent'[s] = parent[s])
      /\ \A s \in Tokens \ {t} : session'[s] = session[s]
  BY <1>0, <1>1
<1>3. by # "none"
  BY AccessFacts
<1>4. visit'[r].at = "idle" /\ \A q \in Callers \ {r} : visit'[q] = visit[q]
  BY <1>0, AccessFacts DEF Finish
<1>5. \A q \in Callers, s \in Tokens : Renews(q, s)' => Renews(q, s) /\ q # r
  BY <1>4 DEF Renews
<1>6. Childless(t) /\ (\A q \in Callers : ~Renews(q, t)) /\ t # by
  BY <1>0, <1>1, AccessFacts DEF SessionInv
<1>7. by \in Tokens => /\ Childless(by) /\ session[by] = 0 /\ parent[by] # "none"
                       /\ \A q \in Callers \ {r} : ~Renews(q, by)
  BY <1>0, AccessFacts DEF SessionInv
<1>8. \A s \in Tokens : s # by /\ Childless(s) => Childless(s)'
  BY <1>2 DEF Childless
<1>9. \A s \in Tokens : session'[s] # 0 => parent'[s] # "none"
  BY <1>0, <1>2, <1>3 DEF SessionInv
<1>10. ASSUME NEW s \in Tokens, session'[s] # 0 \/ parent'[s] = "none"
       PROVE  Childless(s)' /\ \A q \in Callers : ~Renews(q, s)'
  <2>1. s # by
    BY <1>2, <1>6, <1>7, <1>10
  <2>2. Childless(s) /\ \A q \in Callers : ~Renews(q, s)
    BY <1>0, <1>2, <1>6, <1>10 DEF SessionInv
  <2> QED BY <1>5, <1>8, <2>1, <2>2
<1>11. ASSUME NEW q \in Callers, NEW s \in Tokens, Renews(q, s)' PROVE Childless(s)'
  <2>1. Renews(q, s) /\ q # r
    BY <1>5, <1>11
  <2>2. s # by
    BY <1>7, <2>1
  <2>3. Childless(s)
    BY <1>0, <2>1 DEF SessionInv
  <2> QED BY <1>8, <2>2, <2>3
<1>12. \A p, q \in Callers, s \in Tokens : Renews(p, s)' /\ Renews(q, s)' => p = q
  BY <1>0, <1>5 DEF SessionInv
<1>13. OneSuccessorEach'
  <2> SUFFICES ASSUME NEW x \in Tokens, NEW y \in Tokens, parent'[x] = parent'[y], parent'[x] \in Tokens
               PROVE  x = y
    BY DEF OneSuccessorEach
  <2>1. by \in Tokens => \A s \in Tokens : parent[s] # by
    BY <1>7 DEF Childless
  <2>2. CASE x = t
    BY <1>2, <2>1, <2>2
  <2>3. CASE y = t
    BY <1>2, <2>1, <2>3
  <2>4. CASE x # t /\ y # t
    BY <1>0, <1>2, <2>4 DEF SessionInv, OneSuccessorEach
  <2> QED BY <2>2, <2>3, <2>4
<1>14. SessionInv'
  BY <1>9, <1>10, <1>11, <1>12, <1>13 DEF SessionInv
<1>15. lapse + SessionTtl \in Nat
  BY <1>0, AccessFacts
<1> QED BY <1>0, <1>1, <1>2, <1>3, <1>14, <1>15

---------------------------------------------------------------------------
\* What requests go by stays so.
LEMMA VisitsFit ==
  ASSUME AccessInv, NEW r \in Callers, NEW v \in Visit, visit' = [visit EXCEPT ![r] = v],
         \A t \in Tokens : parent[t] # "none" => parent'[t] # "none",
         v.at \in {"delete", "renew", "renewed"} => v.token \in Tokens /\ parent[v.token] # "none",
         v.at \in {"mail", "claim"} => v.link \in Links
  PROVE  visit' \in [Callers -> Visit] /\ \A q \in Callers : VisitFits(visit[q])'
<1>0. visit \in [Callers -> Visit] /\ \A q \in Callers : VisitFits(visit[q])
  BY DEF AccessInv, AccessTypes
<1>1. visit' \in [Callers -> Visit] /\ visit'[r] = v /\ \A q \in Callers \ {r} : visit'[q] = visit[q]
  BY <1>0
<1>2. VisitFits(visit[r])'
  BY <1>1 DEF VisitFits
<1>3. ASSUME NEW q \in Callers \ {r} PROVE VisitFits(visit[q])'
  <2>1. VisitFits(visit[q]) /\ visit'[q] = visit[q]
    BY <1>0, <1>1
  <2> QED BY <2>1 DEF VisitFits
<1> QED BY <1>1, <1>2, <1>3

\* Links stay consumed, and none is used twice.
LEMMA LinksStay ==
  ASSUME AccessInv, UNCHANGED changes, \A l \in Links : link[l].consumed => link'[l].consumed
  PROVE  LinkInv'
<1>1. LinkInv /\ changes \in Seq(Links)
  BY DEF AccessInv, AccessTypes, AccessTypeOK
<1>2. \A i \in DOMAIN changes : changes[i] \in Links
  BY <1>1
<1> QED BY <1>1, <1>2 DEF LinkInv, OneChangeEach

---------------------------------------------------------------------------
\* A request moves, and nothing else that counts.
LEMMA VisitMoves ==
  ASSUME AccessInv, NEW r \in Callers, NEW v \in Visit, visit' = [visit EXCEPT ![r] = v],
         UNCHANGED <<lapse, user, session, parent, link, changes>>, security' \in [count : Nat, until : Nat],
         v.at \in {"delete", "renew", "renewed"} => v.token \in Tokens /\ parent[v.token] # "none",
         v.at \in {"renew", "renewed"} => Renews(r, v.token),
         v.at \in {"mail", "claim"} => v.link \in Links
  PROVE  AccessInv'
<1>1. SessionInv'
  <2>1. UNCHANGED parent /\ \A t \in Tokens : session'[t] \in {0, session[t]}
    OBVIOUS
  <2> QED BY <2>1, SessionsStand
<1>2. visit' \in [Callers -> Visit] /\ \A q \in Callers : VisitFits(visit[q])'
  <2>1. \A t \in Tokens : parent[t] # "none" => parent'[t] # "none"
    OBVIOUS
  <2> QED BY <2>1, VisitsFit
<1>3. LinkInv'
  <2>1. UNCHANGED changes /\ \A l \in Links : link[l].consumed => link'[l].consumed
    OBVIOUS
  <2> QED BY <2>1, LinksStay
<1>4. AccessTypeOK'
  <2>1. AccessTypeOK
    BY DEF AccessInv, AccessTypes
  <2>2. DOMAIN visit' = Callers
    BY <1>2
  <2> QED BY <2>1, <2>2 DEF AccessTypeOK
<1> QED BY <1>1, <1>2, <1>3, <1>4 DEF AccessInv, AccessTypes

LEMMA AtVisit ==
  ASSUME AccessInv, NEW r \in Callers
  PROVE  /\ visit \in [Callers -> Visit] /\ visit[r] \in Visit /\ VisitFits(visit[r])
         /\ lapse \in Nat /\ user \in Account /\ security \in [count : Nat, until : Nat]
         /\ session \in [Tokens -> Nat]
<1>1. AccessTypeOK /\ visit \in [Callers -> Visit] /\ VisitFits(visit[r])
  BY DEF AccessInv, AccessTypes
<1>2. lapse \in Nat
  BY <1>1, AccessFacts DEF AccessTypeOK
<1> QED BY <1>1, <1>2 DEF AccessTypeOK

LEMMA GoesOn ==
  ASSUME NEW r \in Callers, visit \in [Callers -> Visit], NEW at, GoTo(r, at),
         at \in {"compare", "fail", "count", "lock", "clear", "issue", "renew", "renewed"}
  PROVE  \E v \in Visit : /\ v.at = at /\ v.token = visit[r].token /\ v.link = visit[r].link
                          /\ visit' = [visit EXCEPT ![r] = v]
<1> DEFINE v == [visit[r] EXCEPT !.at = at]
<1>1. visit[r] \in Visit
  OBVIOUS
<1>2. v \in Visit /\ v.at = at /\ v.token = visit[r].token /\ v.link = visit[r].link
  BY <1>1 DEF Visit
<1>3. visit' = [visit EXCEPT ![r] = v]
  BY DEF GoTo
<1> HIDE DEF v
<1> QED BY <1>2, <1>3

---------------------------------------------------------------------------
LEMMA SignInHolds ==
  ASSUME AccessInv, NEW r \in Callers,
         \/ Login(r) \/ AssertAllowed(r) \/ Compare(r) \/ ReadFailures(r) \/ CountFailure(r) \/ LockOut(r)
         \/ ClearFailures(r)
  PROVE  AccessInv'
<1>0. /\ visit \in [Callers -> Visit] /\ visit[r] \in Visit /\ lapse \in Nat /\ user \in Account
      /\ security \in [count : Nat, until : Nat]
  BY AtVisit
<1>1. UNCHANGED <<lapse, user, session, parent, link, changes>>
  BY DEF Login, AssertAllowed, Compare, ReadFailures, CountFailure, LockOut, ClearFailures
<1>2. security' \in [count : Nat, until : Nat]
  <2>1. CASE CountFailure(r)
    BY <1>0, <2>1 DEF CountFailure
  <2>2. CASE LockOut(r)
    BY <1>0, <2>2, AccessFacts DEF LockOut
  <2>3. CASE ClearFailures(r)
    BY <2>3 DEF ClearFailures, NoFailures
  <2>4. CASE security' = security
    BY <1>0, <2>4
  <2> QED BY <2>1, <2>2, <2>3, <2>4 DEF Login, AssertAllowed, Compare, ReadFailures
<1>3. \E v \in Visit : /\ visit' = [visit EXCEPT ![r] = v]
                       /\ v.at \notin {"delete", "renew", "renewed", "mail", "claim"}
  <2>1. CASE Login(r)
    <3> DEFINE v == [NoVisit EXCEPT !.at = "allowed", !.seen = user.password, !.locked = user.locked]
    <3>1. user.password \in Nat /\ user.locked \in BOOLEAN
      BY <1>0, AccessFacts DEF Account
    <3>2. v \in Visit /\ v.at = "allowed"
      BY <3>1 DEF NoVisit, Visit
    <3>3. visit' = [visit EXCEPT ![r] = v]
      BY <2>1 DEF Login, Begin
    <3> HIDE DEF v
    <3> QED BY <3>2, <3>3
  <2>2. CASE ReadFailures(r)
    <3> DEFINE v == [visit[r] EXCEPT !.at = "count", !.reset = security.until \in 1..lapse]
    <3>1. (security.until \in 1..lapse) \in BOOLEAN
      OBVIOUS
    <3>2. v \in Visit /\ v.at = "count"
      BY <1>0, <3>1 DEF Visit
    <3>3. visit' = [visit EXCEPT ![r] = v]
      BY <1>0, <2>2 DEF ReadFailures
    <3> HIDE DEF v
    <3> QED BY <3>2, <3>3
  <2>3. CASE Finish(r)
    BY <2>3, AccessFacts DEF Finish
  <2>4. ASSUME NEW at \in {"compare", "fail", "lock", "clear", "issue"}, GoTo(r, at)
        PROVE  \E v \in Visit : visit' = [visit EXCEPT ![r] = v] /\ v.at = at
    BY <1>0, <2>4, GoesOn
  <2>5. CASE AssertAllowed(r) \/ Compare(r) \/ CountFailure(r) \/ LockOut(r) \/ ClearFailures(r)
    <3>1. Finish(r) \/ \E at \in {"compare", "fail", "lock", "clear", "issue"} : GoTo(r, at)
      BY <2>5 DEF AssertAllowed, Compare, CountFailure, LockOut, ClearFailures
    <3> QED BY <2>3, <2>4, <3>1
  <2> QED BY <2>1, <2>2, <2>5
<1> QED BY <1>1, <1>2, <1>3, VisitMoves

LEMMA RenewalHolds ==
  ASSUME AccessInv, NEW r \in Callers,
         (\E t \in Tokens : Refresh(r, t)) \/ Renew(r) \/ (\E l \in Links : ResetPassword(r, l)) \/ ChangePassword(r)
  PROVE  AccessInv'
<1>0. /\ visit \in [Callers -> Visit] /\ visit[r] \in Visit /\ VisitFits(visit[r])
      /\ security \in [count : Nat, until : Nat] /\ session \in [Tokens -> Nat]
  BY AtVisit
<1>1. UNCHANGED <<lapse, user, security, session, parent, link, changes>>
  BY DEF Refresh, Renew, ResetPassword, ChangePassword
<1>2. ASSUME NEW t \in Tokens, Refresh(r, t) PROVE AccessInv'
  <2> DEFINE v == [NoVisit EXCEPT !.at = "delete", !.token = t, !.seen = session[t]]
  <2>1. session[t] \in Nat
    BY <1>0
  <2>2. v \in Visit /\ v.at = "delete" /\ v.token = t
    BY <2>1 DEF NoVisit, Visit
  <2>3. visit' = [visit EXCEPT ![r] = v] /\ session[t] # 0
    BY <1>2 DEF Refresh, Begin
  <2>4. parent[t] # "none"
    BY <2>3 DEF AccessInv, SessionInv
  <2> HIDE DEF v
  <2> QED BY <1>0, <1>1, <2>2, <2>3, <2>4, VisitMoves
<1>3. CASE Renew(r)
  <2>1. visit[r].at = "renew" /\ (Finish(r) \/ GoTo(r, "renewed"))
    BY <1>3 DEF Renew
  <2>2. CASE Finish(r)
    BY <1>0, <1>1, <2>2, AccessFacts, VisitMoves DEF Finish
  <2>3. CASE GoTo(r, "renewed")
    <3>1. PICK v \in Visit : v.at = "renewed" /\ v.token = visit[r].token /\ visit' = [visit EXCEPT ![r] = v]
      BY <1>0, <2>3, GoesOn
    <3>2. Renews(r, v.token) /\ v.token \in Tokens /\ parent[v.token] # "none"
      BY <1>0, <2>1, <3>1 DEF Renews, VisitFits
    <3> QED BY <1>0, <1>1, <3>1, <3>2, VisitMoves
  <2> QED BY <2>1, <2>2, <2>3
<1>4. ASSUME NEW l \in Links, ResetPassword(r, l) PROVE AccessInv'
  <2> DEFINE v == [NoVisit EXCEPT !.at = "claim", !.link = l]
  <2>1. v \in Visit /\ v.at = "claim" /\ v.link = l
    BY DEF NoVisit, Visit
  <2>2. visit' = [visit EXCEPT ![r] = v]
    BY <1>4 DEF ResetPassword, Begin
  <2> HIDE DEF v
  <2> QED BY <1>0, <1>1, <2>1, <2>2, VisitMoves
<1>5. CASE ChangePassword(r)
  <2> DEFINE v == [NoVisit EXCEPT !.at = "change"]
  <2>1. v \in Visit /\ v.at = "change"
    BY DEF NoVisit, Visit
  <2>2. visit' = [visit EXCEPT ![r] = v]
    BY <1>5 DEF ChangePassword, Begin
  <2> HIDE DEF v
  <2> QED BY <1>0, <1>1, <2>1, <2>2, VisitMoves
<1> QED BY <1>2, <1>3, <1>4, <1>5

---------------------------------------------------------------------------
LEMMA DeleteHolds ==
  ASSUME AccessInv, NEW r \in Callers, DeleteSession(r)
  PROVE  AccessInv'
<1> DEFINE t == visit[r].token
<1>0. /\ visit \in [Callers -> Visit] /\ visit[r] \in Visit /\ VisitFits(visit[r]) /\ session \in [Tokens -> Nat]
  BY AtVisit
<1>1. /\ visit[r].at = "delete" /\ session' = [session EXCEPT ![t] = 0]
      /\ UNCHANGED <<lapse, user, security, parent, link, changes>>
      /\ Finish(r) \/ (session[t] # 0 /\ GoTo(r, "renew"))
  BY DEF DeleteSession
<1>2. t \in Tokens /\ parent[t] # "none"
  BY <1>0, <1>1 DEF VisitFits
<1>3. PICK v \in Visit : /\ visit' = [visit EXCEPT ![r] = v]
                         /\ v.at = "idle" \/ (v.at = "renew" /\ v.token = t /\ session[t] # 0)
  <2>1. CASE Finish(r)
    BY <2>1, AccessFacts DEF Finish
  <2>2. CASE session[t] # 0 /\ GoTo(r, "renew")
    BY <1>0, <2>2, GoesOn
  <2> QED BY <1>1, <2>1, <2>2
<1> HIDE DEF t
<1>4. session' \in [Tokens -> Nat] /\ session'[t] = 0 /\ \A s \in Tokens : session'[s] \in {0, session[s]}
  BY <1>0, <1>1, <1>2
<1>5. SessionInv'
  BY <1>1, <1>2, <1>3, <1>4, SessionsStand
<1>6. visit' \in [Callers -> Visit] /\ \A q \in Callers : VisitFits(visit[q])'
  BY <1>1, <1>2, <1>3, VisitsFit
<1>7. LinkInv'
  BY <1>1, LinksStay
<1>8. AccessTypeOK'
  BY <1>1, <1>4, <1>6 DEF AccessInv, AccessTypes, AccessTypeOK
<1> QED BY <1>5, <1>6, <1>7, <1>8 DEF AccessInv, AccessTypes

LEMMA IssueHolds ==
  ASSUME AccessInv, NEW r \in Callers, Issue(r) \/ IssueRenewed(r)
  PROVE  AccessInv'
<1>0. visit \in [Callers -> Visit] /\ visit[r] \in Visit /\ VisitFits(visit[r])
  BY AtVisit
<1>1. Finish(r) /\ UNCHANGED <<lapse, user, security, link, changes>>
  BY DEF Issue, IssueRenewed
<1>2. PICK by : IssueTokens(by) /\ (by = "login" \/ (by \in Tokens /\ Renews(r, by)))
  <2>1. CASE Issue(r)
    BY <2>1 DEF Issue
  <2>2. CASE IssueRenewed(r)
    <3>1. visit[r].at = "renewed" /\ IssueTokens(visit[r].token)
      BY <2>2 DEF IssueRenewed
    <3> QED BY <1>0, <3>1 DEF VisitFits, Renews
  <2> QED BY <2>1, <2>2
<1>3. /\ SessionInv' /\ session' \in [Tokens -> Nat] /\ parent' \in [Tokens -> Tokens \cup {"none", "login"}]
      /\ \A t \in Tokens : parent[t] # "none" => parent'[t] # "none"
  BY <1>1, <1>2, SessionBegins
<1>4. visit' \in [Callers -> Visit] /\ \A q \in Callers : VisitFits(visit[q])'
  BY <1>1, <1>3, AccessFacts, VisitsFit DEF Finish
<1>5. LinkInv'
  BY <1>1, LinksStay
<1>6. AccessTypeOK'
  BY <1>1, <1>3, <1>4 DEF AccessInv, AccessTypes, AccessTypeOK
<1> QED BY <1>3, <1>4, <1>5, <1>6 DEF AccessInv, AccessTypes

\* What neither begins a session nor touches a link.
LEMMA ChangesHold ==
  ASSUME AccessInv,
         \/ TimeLapses \/ RestrictAccount \/ (\E t \in Tokens : Logout(t)) \/ (\E r \in Callers : SavePassword(r))
         \/ UNCHANGED accessVars
  PROVE  AccessInv'
<1>0. AccessTypeOK /\ visit \in [Callers -> Visit] /\ \A q \in Callers : VisitFits(visit[q])
  BY DEF AccessInv, AccessTypes
<1>1. session \in [Tokens -> Nat] /\ user \in Account /\ lapse \in 0..LastLapse
  BY <1>0 DEF AccessTypeOK
<1>2. UNCHANGED <<security, parent, link, changes>>
  BY DEF TimeLapses, RestrictAccount, Logout, SavePassword, accessVars
<1>3. session' \in [Tokens -> Nat] /\ \A t \in Tokens : session'[t] \in {0, session[t]}
  <2>1. ASSUME NEW t \in Tokens, Logout(t) PROVE <1>3!:
    BY <1>1, <2>1 DEF Logout
  <2>2. CASE session' = NoSessions \/ session' = session
    BY <1>1, <2>2 DEF NoSessions
  <2> QED BY <2>1, <2>2 DEF TimeLapses, RestrictAccount, SavePassword, accessVars
<1>4. user' \in Account
  <2>1. CASE RestrictAccount
    <3>1. user' = [user EXCEPT !.locked = ~user.locked]
      BY <2>1 DEF RestrictAccount
    <3>2. (~user.locked) \in BOOLEAN
      OBVIOUS
    <3> QED BY <1>1, <3>1, <3>2 DEF Account
  <2>2. ASSUME NEW r \in Callers, SavePassword(r) PROVE user' \in Account
    <3>1. user' = [user EXCEPT !.password = user.password + 1] /\ user.password < MaxPasswords
      BY <2>2 DEF SavePassword
    <3>2. user.password + 1 \in Numbers
      BY <1>1, <3>1, AccessFacts DEF Account
    <3> QED BY <1>1, <3>1, <3>2 DEF Account
  <2>3. CASE user' = user
    BY <1>1, <2>3
  <2> QED BY <2>1, <2>2, <2>3 DEF TimeLapses, Logout, accessVars
<1>5. lapse' \in 0..LastLapse
  <2>1. CASE TimeLapses
    BY <1>1, <2>1, AccessFacts DEF TimeLapses
  <2> QED BY <1>1, <2>1 DEF RestrictAccount, Logout, SavePassword, accessVars
<1>6. SessionInv' /\ visit' \in [Callers -> Visit] /\ \A q \in Callers : VisitFits(visit[q])'
  <2>1. ASSUME NEW r \in Callers, SavePassword(r) PROVE <1>6!:
    <3>1. visit' = [visit EXCEPT ![r] = NoVisit]
      BY <2>1 DEF SavePassword, Finish
    <3> QED BY <1>2, <1>3, <3>1, AccessFacts, SessionsStand, VisitsFit
  <2>2. CASE visit' = visit
    BY <1>0, <1>2, <1>3, <2>2, SessionsEnd DEF VisitFits
  <2> QED BY <2>1, <2>2 DEF TimeLapses, RestrictAccount, Logout, accessVars
<1>7. LinkInv'
  BY <1>2, LinksStay
<1>8. AccessTypeOK'
  BY <1>0, <1>2, <1>3, <1>4, <1>5, <1>6 DEF AccessTypeOK
<1> QED BY <1>6, <1>7, <1>8 DEF AccessInv, AccessTypes

---------------------------------------------------------------------------
LEMMA MailHolds ==
  ASSUME AccessInv, NEW r \in Callers, (\E l \in Links : ForgotPassword(r, l)) \/ SendLink(r)
  PROVE  AccessInv'
<1> DEFINE LinkRow == [expires : Nat, consumed : BOOLEAN]
<1>0. /\ visit \in [Callers -> Visit] /\ visit[r] \in Visit /\ VisitFits(visit[r]) /\ lapse \in Nat
  BY AtVisit
<1>1. AccessTypeOK /\ LinkInv /\ link \in [Links -> LinkRow] /\ changes \in Seq(Links)
  BY DEF AccessInv, AccessTypes, AccessTypeOK
<1>2. UNCHANGED <<lapse, user, security, session, parent, changes>>
  BY DEF ForgotPassword, SendLink
<1>3. Deleted \in LinkRow /\ Deleted.consumed /\ NoLink.consumed = FALSE
  BY DEF Deleted, NoLink
<1>4. \A i \in DOMAIN changes : changes[i] \in Links /\ link[changes[i]].consumed
  BY <1>1 DEF LinkInv
<1>5. /\ link' \in [Links -> LinkRow] /\ \A i \in DOMAIN changes : link'[changes[i]].consumed
  <2>1. ASSUME NEW l \in Links, ForgotPassword(r, l) PROVE <1>5!:
    <3> DEFINE new == [expires |-> lapse + ResetTtl, consumed |-> FALSE]
    <3>1. new \in LinkRow /\ new.consumed = FALSE
      BY <1>0, AccessFacts
    <3>2. /\ link[l] = NoLink
          /\ link' = [m \in Links |-> CASE m = l -> new [] m # l /\ Good(m, lapse) -> Deleted [] OTHER -> link[m]]
      BY <2>1 DEF ForgotPassword
    <3> HIDE DEF new
    <3>3. ASSUME NEW m \in Links PROVE link'[m] \in LinkRow /\ (link[m].consumed => link'[m].consumed)
      <4>1. link[m] \in LinkRow
        BY <1>1
      <4>2. CASE m = l
        BY <1>3, <3>1, <3>2, <4>2
      <4>3. CASE m # l /\ Good(m, lapse)
        BY <1>3, <3>2, <4>3
      <4>4. CASE m # l /\ ~Good(m, lapse)
        BY <3>2, <4>1, <4>4
      <4> QED BY <4>2, <4>3, <4>4
    <3>4. link' \in [Links -> LinkRow]
      BY <3>2, <3>3
    <3> QED BY <1>4, <3>3, <3>4
  <2>2. CASE SendLink(r)
    <3>1. visit[r].link \in Links
      BY <1>0, <2>2 DEF SendLink, VisitFits
    <3>2. link' = link \/ link' = [link EXCEPT ![visit[r].link] = Deleted]
      BY <2>2 DEF SendLink
    <3>3. ASSUME NEW m \in Links PROVE link'[m] = link[m] \/ link'[m] = Deleted
      BY <1>1, <3>1, <3>2
    <3> HIDE DEF LinkRow
    <3>4. link' \in [Links -> LinkRow]
      BY <1>1, <1>3, <3>1, <3>2
    <3> QED BY <1>3, <1>4, <3>3, <3>4
  <2> QED BY <2>1, <2>2
<1>6. LinkInv'
  BY <1>1, <1>2, <1>5 DEF LinkInv, OneChangeEach
<1>7. PICK v \in Visit : /\ visit' = [visit EXCEPT ![r] = v] /\ v.at \in {"idle", "mail"}
                         /\ v.at = "mail" => v.link \in Links
  <2>1. ASSUME NEW l \in Links, ForgotPassword(r, l)
        PROVE  \E v \in Visit : visit' = [visit EXCEPT ![r] = v] /\ v.at = "mail" /\ v.link = l
    <3> DEFINE v == [NoVisit EXCEPT !.at = "mail", !.link = l]
    <3>1. v \in Visit /\ v.at = "mail" /\ v.link = l
      BY DEF NoVisit, Visit
    <3>2. visit' = [visit EXCEPT ![r] = v]
      BY <2>1 DEF ForgotPassword, Begin
    <3> HIDE DEF v
    <3> QED BY <3>1, <3>2
  <2>2. CASE SendLink(r)
    BY <2>2, AccessFacts DEF SendLink, Finish
  <2> QED BY <2>1, <2>2
<1>8. SessionInv' /\ visit' \in [Callers -> Visit] /\ \A q \in Callers : VisitFits(visit[q])'
  BY <1>2, <1>7, SessionsStand, VisitsFit
<1>9. AccessTypeOK'
  BY <1>1, <1>2, <1>5, <1>8 DEF AccessTypeOK
<1> QED BY <1>6, <1>8, <1>9 DEF AccessInv, AccessTypes

LEMMA ClaimLinkHolds ==
  ASSUME AccessInv, NEW r \in Callers, ClaimLink(r)
  PROVE  AccessInv'
<1> DEFINE LinkRow == [expires : Nat, consumed : BOOLEAN]
<1>0. /\ visit \in [Callers -> Visit] /\ visit[r] \in Visit /\ VisitFits(visit[r])
  BY AtVisit
<1>1. /\ AccessTypeOK /\ LinkInv /\ link \in [Links -> LinkRow] /\ changes \in Seq(Links) /\ user \in Account
      /\ session \in [Tokens -> Nat]
  BY DEF AccessInv, AccessTypes, AccessTypeOK
<1>2. PICK l \in Links : l = visit[r].link
  BY <1>0 DEF ClaimLink, VisitFits
<1>3. Finish(r) /\ UNCHANGED <<lapse, security, parent>>
  BY DEF ClaimLink
<1>4. /\ user' \in Account /\ link' \in [Links -> LinkRow] /\ changes' \in Seq(Links) /\ LinkInv'
      /\ session' \in [Tokens -> Nat] /\ \A t \in Tokens : session'[t] \in {0, session[t]}
  <2>1. CASE UNCHANGED <<user, session, link, changes>>
    BY <1>1, <2>1 DEF LinkInv, OneChangeEach
  <2>2. CASE /\ Good(l, lapse) /\ user.password < MaxPasswords
             /\ user' = [user EXCEPT !.password = user.password + 1]
             /\ link' = [m \in Links |-> IF Good(m, lapse) THEN [link[m] EXCEPT !.consumed = TRUE] ELSE link[m]]
             /\ session' = NoSessions /\ changes' = Append(changes, l)
    <3>1. user' \in Account
      <4>1. user.password + 1 \in Numbers
        BY <1>1, <2>2, AccessFacts DEF Account
      <4> QED BY <1>1, <2>2, <4>1 DEF Account
    <3>2. session' \in [Tokens -> Nat] /\ \A t \in Tokens : session'[t] \in {0, session[t]}
      BY <2>2 DEF NoSessions
    <3>3. ASSUME NEW m \in Links
          PROVE  /\ link'[m] \in LinkRow /\ (link[m].consumed => link'[m].consumed)
                 /\ Good(m, lapse) => link'[m].consumed
      <4>1. link[m] \in LinkRow
        BY <1>1
      <4>2. CASE Good(m, lapse)
        BY <2>2, <4>1, <4>2
      <4>3. CASE ~Good(m, lapse)
        BY <2>2, <4>1, <4>3
      <4> QED BY <4>2, <4>3
    <3>4. link' \in [Links -> LinkRow]
      BY <2>2, <3>3
    <3>5. ~link[l].consumed /\ link'[l].consumed
      BY <2>2, <3>3 DEF Good
    <3>6. /\ changes' \in Seq(Links) /\ DOMAIN changes' = 1..Len(changes) + 1 /\ DOMAIN changes = 1..Len(changes)
          /\ Len(changes) \in Nat /\ changes'[Len(changes) + 1] = l
          /\ \A i \in DOMAIN changes : changes'[i] = changes[i]
      BY <1>1, <2>2
    <3>7. \A i \in DOMAIN changes : changes[i] \in Links /\ link[changes[i]].consumed
      BY <1>1 DEF LinkInv
    <3>8. \A i \in DOMAIN changes' : i = Len(changes) + 1 \/ i \in DOMAIN changes
      BY <3>6
    <3>9. \A i \in DOMAIN changes' : link'[changes'[i]].consumed
      BY <3>3, <3>5, <3>6, <3>7, <3>8
    <3>10. OneChangeEach'
      <4> SUFFICES ASSUME NEW i \in DOMAIN changes', NEW j \in DOMAIN changes', changes'[i] = changes'[j] PROVE i = j
        BY DEF OneChangeEach
      <4>1. \A k \in DOMAIN changes : changes'[k] # l
        BY <3>5, <3>6, <3>7
      <4>2. i \in DOMAIN changes /\ j \in DOMAIN changes => i = j
        BY <1>1, <3>6 DEF LinkInv, OneChangeEach
      <4> QED BY <3>6, <3>8, <4>1, <4>2
    <3> QED BY <3>1, <3>2, <3>4, <3>6, <3>9, <3>10 DEF LinkInv
  <2> QED BY <1>2, <2>1, <2>2 DEF ClaimLink
<1>5. visit' = [visit EXCEPT ![r] = NoVisit]
  BY <1>3 DEF Finish
<1>6. SessionInv' /\ visit' \in [Callers -> Visit] /\ \A q \in Callers : VisitFits(visit[q])'
  BY <1>3, <1>4, <1>5, AccessFacts, SessionsStand, VisitsFit
<1>7. AccessTypeOK'
  BY <1>1, <1>3, <1>4, <1>6 DEF AccessTypeOK
<1> QED BY <1>4, <1>6, <1>7 DEF AccessInv, AccessTypes

---------------------------------------------------------------------------
LEMMA AccessOpens == ASSUME AccessInit PROVE AccessInv
<1>1. /\ visit \in [Callers -> Visit] /\ \A r \in Callers : visit[r].at = "idle"
  BY AccessFacts DEF AccessInit
<1>2. AccessTypeOK
  <2>1. user \in Account
    <3>1. 1 \in Numbers
      BY AccessAssumption DEF Numbers
    <3> QED BY <3>1 DEF AccessInit, Account
  <2>2. lapse \in 0..LastLapse
    BY AccessFacts DEF AccessInit
  <2>3. changes \in Seq(Links) /\ security \in [count : Nat, until : Nat]
    BY DEF AccessInit, NoFailures
  <2>4. /\ session \in [Tokens -> Nat] /\ parent \in [Tokens -> Tokens \cup {"none", "login"}]
        /\ link \in [Links -> [expires : Nat, consumed : BOOLEAN]]
    BY DEF AccessInit, NoLink
  <2> QED BY <1>1, <2>1, <2>2, <2>3, <2>4 DEF AccessTypeOK
<1>3. SessionInv
  BY <1>1, AccessFacts DEF AccessInit, SessionInv, Renews, Childless, OneSuccessorEach
<1>4. LinkInv
  BY DEF AccessInit, LinkInv, OneChangeEach
<1> QED BY <1>1, <1>2, <1>3, <1>4 DEF AccessInv, AccessTypes, VisitFits

LEMMA AccessStep == ASSUME AccessInv, [AccessNext]_accessVars PROVE AccessInv'
<1>1. CASE TimeLapses \/ RestrictAccount \/ (\E t \in Tokens : Logout(t)) \/ UNCHANGED accessVars
  BY <1>1, ChangesHold
<1>2. ASSUME NEW r \in Callers,
             \/ Login(r) \/ AssertAllowed(r) \/ Compare(r) \/ ReadFailures(r) \/ CountFailure(r) \/ LockOut(r)
             \/ ClearFailures(r)
      PROVE  AccessInv'
  BY <1>2, SignInHolds
<1>3. ASSUME NEW r \in Callers,
             \/ (\E t \in Tokens : Refresh(r, t)) \/ Renew(r) \/ (\E l \in Links : ResetPassword(r, l))
             \/ ChangePassword(r)
      PROVE  AccessInv'
  BY <1>3, RenewalHolds
<1>4. ASSUME NEW r \in Callers, DeleteSession(r) \/ Issue(r) \/ IssueRenewed(r) PROVE AccessInv'
  BY <1>4, DeleteHolds, IssueHolds
<1>5. ASSUME NEW r \in Callers,
             (\E l \in Links : ForgotPassword(r, l)) \/ SendLink(r) \/ ClaimLink(r) \/ SavePassword(r)
      PROVE  AccessInv'
  BY <1>5, MailHolds, ClaimLinkHolds, ChangesHold
<1> QED BY <1>1, <1>2, <1>3, <1>4, <1>5 DEF AccessNext

(* A refresh token has one successor and a reset link changes the password *)
(* once, whoever sends them at once and however often, for any number of   *)
(* requests, sessions and links (refresh, reset-password).                 *)
THEOREM AccessIsTaken == AccessSpec => []AccessIsTakenOnce
<1>1. AccessInv /\ [AccessNext]_accessVars => AccessInv'
  BY AccessStep
<1>2. AccessInv => AccessIsTakenOnce
  BY DEF AccessInv, AccessTypes, SessionInv, LinkInv, AccessIsTakenOnce
<1> QED BY <1>1, <1>2, AccessOpens, PTL DEF AccessSpec

=============================================================================
