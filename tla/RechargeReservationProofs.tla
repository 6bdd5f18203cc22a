--------------------- MODULE RechargeReservationProofs ---------------------
(***************************************************************************)
(* Proofs about the reservation of recharges: a quote buys one row, and    *)
(* the limits of an hour and of a day hold for every customer and number,  *)
(* whatever the requests, their order, their delays and the limits.        *)
(*                                                                         *)
(* The limits are not inductive: the inductive invariant adds who holds    *)
(* which lock from the judgement to the insertion (LocksFit), and that in  *)
(* between there is room for the row (LimitInv).  A request judges by the  *)
(* time it read earlier, so a window need not end with its row: but every  *)
(* window its row falls in starts no earlier than the span the request     *)
(* judged, and rows later than its time are counted by that span too.      *)
(*                                                                         *)
(* And about the adapters behind them: for every set of callers, of        *)
(* providers and of operators the recharge is sent once, and what the      *)
(* adapter tells of it is true; and the arithmetic of ProviderIdentity,    *)
(* for every identifier.                                                   *)
(***************************************************************************)
EXTENDS RechargeReservation, ProviderAdapters, FiniteSums, SequenceTheorems

---------------------------------------------------------------------------
(* Types, and what a request that has come so far holds. *)

QuoteType == [customer : Customers, phone : Phones, total : Totals,
              expires : 1..(Horizon + 1), consumed : BOOLEAN]
Status == {"PENDING", "DELIVERED", "FAILED"}
Payment == {"PENDING", "CAPTURED", "FAILED", "REFUNDED"}
RowType == [quote : Quotes, status : Status, payment : Payment, at : 0..Horizon]

Place == {"idle", "read", "revalidate", "customer", "phone", "insert"}

WorkRecord == [at : Place, quote : Quotes \cup {"none"}, key : Keys \cup {"none"}, time : Nat,
               blocked : BOOLEAN]

Payer(r) == quote[work[r].quote].customer
Number(r) == quote[work[r].quote].phone

WorkFits(r) ==
  /\ work[r] \in WorkRecord /\ work[r].time <= now
  /\ work[r].at # "idle" =>
       work[r].quote \in Quotes /\ work[r].key \in Keys /\ quote[work[r].quote] # NoQuote

LocksFit(r) ==
  /\ work[r].at \in {"phone", "insert"} => customerLock[Payer(r)] = r
  /\ work[r].at = "insert" => phoneLock[Number(r)] = r

TypeInv ==
  /\ now \in 0..Horizon /\ faults \in 0..MaxFaults
  /\ restricted \subseteq Customers
  /\ quote \in [Quotes -> QuoteType \cup {NoQuote}]
  /\ row \in [Owners -> RowType \cup {NoRow}]
  /\ IsFiniteSet(Rows)
  /\ exempt \subseteq Rows
  /\ \A d \in declined : d.row \in Rows /\ d.card \in Cards /\ d.at \in 0..now
  /\ customerLock \in [Customers -> Requests \cup {"free"}]
  /\ phoneLock \in [Phones -> Requests \cup {"free"}]
  /\ DOMAIN work = Requests
  /\ \A r \in Requests : WorkFits(r) /\ LocksFit(r)

LEMMA NumbersFacts ==
  /\ Horizon \in Nat /\ MaxFaults \in Nat /\ Day \in Nat \ {0} /\ PerHour \in Nat /\ PerDay \in Nat
  /\ DayTotal \in Nat /\ Totals \subseteq Nat \ {0} /\ "free" \notin Requests /\ "none" \notin Quotes
BY ReservationAssumption DEF ReservationAssumption

LEMMA IdleFacts == Idle \in WorkRecord /\ Idle.at = "idle" /\ Idle.time = 0
BY DEF Idle, WorkRecord, Place

LEMMA NoneFacts ==
  /\ NoQuote \notin QuoteType /\ ~NoQuote.consumed /\ NoQuote.expires = 0
  /\ NoRow \notin RowType /\ NoRow.quote = "none"
<1>1. 0 \notin 1..(Horizon + 1)
  BY NumbersFacts
<1> QED BY <1>1 DEF NoQuote, NoRow, QuoteType, RowType, Status, Payment

\* What a quote says stays, and so does a row's quote and time.
QuotesStay ==
  /\ quote' \in [Quotes -> QuoteType \cup {NoQuote}]
  /\ \A q \in Quotes : quote[q] # NoQuote =>
       /\ quote'[q] # NoQuote /\ quote'[q].customer = quote[q].customer
       /\ quote'[q].phone = quote[q].phone /\ quote'[q].total = quote[q].total
       /\ quote[q].consumed => quote'[q].consumed

LEMMA QuotesUnchanged == ASSUME TypeInv, UNCHANGED quote PROVE QuotesStay
BY DEF TypeInv, QuotesStay

LEMMA CreateQuoteStays ==
  ASSUME TypeInv, NEW q \in Quotes, NEW c \in Customers, NEW p \in Phones, NEW total \in Totals,
         CreateQuote(q, c, p, total)
  PROVE  QuotesStay
<1> DEFINE n == [customer |-> c, phone |-> p, total |-> total, expires |-> now + 1, consumed |-> FALSE]
<1>1. n \in QuoteType
  <2>1. now + 1 \in 1..(Horizon + 1)
    BY NumbersFacts DEF TypeInv
  <2> QED BY <2>1 DEF QuoteType
<1>2. quote' = [quote EXCEPT ![q] = n] /\ quote[q] = NoQuote
  BY DEF CreateQuote
<1> HIDE DEF n
<1> QED BY <1>1, <1>2 DEF TypeInv, QuotesStay

\* The row an insertion makes.
Owner(r) == <<Payer(r), work[r].key>>
NewRow(r) == [quote |-> work[r].quote, status |-> "PENDING", payment |-> "PENDING", at |-> work[r].time]

LEMMA InsertFacts ==
  ASSUME TypeInv, NEW r \in Requests, Insert(r)
  PROVE  /\ work[r].quote \in Quotes /\ quote[work[r].quote] \in QuoteType
         /\ Owner(r) \in Owners /\ NewRow(r) \in RowType
         /\ \/ UNCHANGED <<quote, row>>
            \/ /\ Valid(work[r].quote, work[r].time) /\ row[Owner(r)] = NoRow
               /\ quote' = [quote EXCEPT ![work[r].quote].consumed = TRUE]
               /\ row' = [row EXCEPT ![Owner(r)] = NewRow(r)]
<1>1. /\ work[r] \in WorkRecord /\ work[r].time <= now
      /\ work[r].quote \in Quotes /\ work[r].key \in Keys /\ quote[work[r].quote] # NoQuote
  BY DEF Insert, TypeInv, WorkFits
<1>2. quote[work[r].quote] \in QuoteType
  BY <1>1 DEF TypeInv
<1>3. Owner(r) \in Owners
  BY <1>1, <1>2 DEF Owner, Payer, Owners, QuoteType
<1>4. work[r].time \in 0..Horizon
  BY <1>1, NumbersFacts DEF TypeInv, WorkRecord
<1>5. NewRow(r) \in RowType
  BY <1>1, <1>4 DEF NewRow, RowType, Status, Payment
<1>6. \/ UNCHANGED <<quote, row>>
      \/ /\ Valid(work[r].quote, work[r].time) /\ row[Owner(r)] = NoRow
         /\ quote' = [quote EXCEPT ![work[r].quote].consumed = TRUE]
         /\ row' = [row EXCEPT ![Owner(r)] = NewRow(r)]
  BY DEF Insert, Owner, Payer, NewRow
<1> QED BY <1>1, <1>2, <1>3, <1>5, <1>6

LEMMA InsertQuotesStay == ASSUME TypeInv, NEW r \in Requests, Insert(r) PROVE QuotesStay
<1> DEFINE q == work[r].quote
           p == [quote[q] EXCEPT !.consumed = TRUE]
<1>1. CASE UNCHANGED quote
  BY <1>1, QuotesUnchanged
<1>2. CASE quote' = [quote EXCEPT ![q].consumed = TRUE]
  <2>1. q \in Quotes /\ quote[q] \in QuoteType
    BY InsertFacts
  <2>2. /\ p \in QuoteType /\ p.customer = quote[q].customer /\ p.phone = quote[q].phone
        /\ p.total = quote[q].total /\ p.consumed
    BY <2>1 DEF QuoteType
  <2>3. quote' = [quote EXCEPT ![q] = p]
    BY <1>2
  <2> HIDE DEF p, q
  <2> QED BY <2>1, <2>2, <2>3, NoneFacts DEF TypeInv, QuotesStay
<1> QED BY <1>1, <1>2, InsertFacts

LEMMA NextQuotesStay == ASSUME TypeInv, [Next]_vars PROVE QuotesStay
<1>1. UNCHANGED quote \/ (\E r \in Requests : Insert(r))
      \/ \E q \in Quotes, c \in Customers, p \in Phones, total \in Totals : CreateQuote(q, c, p, total)
  BY DEF Next, vars, records, Begin, ReadQuote, Revalidate, LockCustomer, LockPhone, Stop,
     ResetPurchaseAttempts, ToggleRestriction, Settles, PaymentFails, PaymentCaptured, FulfillmentEnds, Refunded, Becomes,
     RegisterDecline, Tick
<1> QED BY <1>1, QuotesUnchanged, InsertQuotesStay, CreateQuoteStays

---------------------------------------------------------------------------
(* Rows: one is made, one settles, or nothing happens to them. *)

LEMMA RowsFacts ==
  ASSUME TypeInv
  PROVE  \A o \in Rows : o \in Owners /\ row[o] \in RowType
BY DEF TypeInv, Rows

LEMMA BecomesType ==
  ASSUME NEW w \in RowType, NEW status \in Status, NEW payment \in Payment
  PROVE  LET z == [w EXCEPT !.status = status, !.payment = payment]
         IN  z \in RowType /\ z.quote = w.quote /\ z.at = w.at /\ z.payment = payment
BY DEF RowType

\* A payment that is no longer awaited is never awaited again.
LEMMA SettlesFacts ==
  ASSUME TypeInv, NEW o \in Owners, Settles(o)
  PROVE  /\ o \in Rows
         /\ \E w \in RowType : /\ row' = [row EXCEPT ![o] = w]
                               /\ w.quote = row[o].quote /\ w.at = row[o].at
                               /\ w.payment # "PENDING"
<1>1. row[o] # NoRow /\ row[o] \in RowType /\ o \in Rows
  <2>1. row[o] # NoRow
    BY DEF Settles, PaymentFails, PaymentCaptured, FulfillmentEnds, Refunded, NoRow
  <2> QED BY <2>1 DEF TypeInv, Rows
<1>2. PICK status \in Status, payment \in Payment \ {"PENDING"} : Becomes(o, status, payment)
  BY DEF Settles, PaymentFails, PaymentCaptured, FulfillmentEnds, Refunded, Status, Payment
<1> DEFINE w == [row[o] EXCEPT !.status = status, !.payment = payment]
<1>3. w \in RowType /\ w.quote = row[o].quote /\ w.at = row[o].at /\ w.payment = payment
  BY <1>1, BecomesType
<1>4. row' = [row EXCEPT ![o] = w]
  BY <1>2 DEF Becomes
<1> HIDE DEF w
<1> QED BY <1>1, <1>3, <1>4

\* What the rows say of their quotes and times stays.
RowsStay ==
  /\ row' \in [Owners -> RowType \cup {NoRow}]
  /\ \A o \in Rows : o \in Rows' /\ row'[o].quote = row[o].quote /\ row'[o].at = row[o].at
                     /\ (row[o].payment # "PENDING" => row'[o].payment # "PENDING")

LEMMA RowsMove ==
  ASSUME TypeInv, [Next]_vars
  PROVE  /\ RowsStay
         /\ \/ Rows' = Rows
            \/ \E r \in Requests :
                 /\ Insert(r) /\ Valid(work[r].quote, work[r].time)
                 /\ Owner(r) \in Owners \ Rows /\ Rows' = Rows \cup {Owner(r)}
                 /\ row'[Owner(r)] = NewRow(r)
                 /\ quote' = [quote EXCEPT ![work[r].quote].consumed = TRUE]
<1>0. row \in [Owners -> RowType \cup {NoRow}]
  BY DEF TypeInv
<1>1. CASE UNCHANGED row
  BY <1>0, <1>1, RowsFacts DEF Rows, RowsStay
<1>2. ASSUME NEW o \in Owners, Settles(o) PROVE RowsStay /\ Rows' = Rows
  <2>1. PICK w \in RowType : /\ row' = [row EXCEPT ![o] = w]
                             /\ w.quote = row[o].quote /\ w.at = row[o].at
                             /\ w.payment # "PENDING"
    BY <1>2, SettlesFacts
  <2>2. o \in Rows /\ w # NoRow
    BY <1>2, SettlesFacts, NoneFacts
  <2> QED BY <1>0, <2>1, <2>2 DEF Rows, RowsStay
<1>3. ASSUME NEW r \in Requests, Insert(r), ~UNCHANGED row
      PROVE  /\ RowsStay
             /\ Valid(work[r].quote, work[r].time)
             /\ Owner(r) \in Owners \ Rows /\ Rows' = Rows \cup {Owner(r)}
             /\ row'[Owner(r)] = NewRow(r)
             /\ quote' = [quote EXCEPT ![work[r].quote].consumed = TRUE]
  <2> DEFINE o == Owner(r)
             w == NewRow(r)
  <2>1. o \in Owners /\ w \in RowType /\ row[o] = NoRow /\ row' = [row EXCEPT ![o] = w]
    BY <1>3, InsertFacts
  <2>2. w # NoRow
    BY <2>1, NoneFacts
  <2>3. Valid(work[r].quote, work[r].time) /\ quote' = [quote EXCEPT ![work[r].quote].consumed = TRUE]
    BY <1>3, InsertFacts
  <2> HIDE DEF o, w
  <2>4. RowsStay /\ o \in Owners \ Rows /\ Rows' = Rows \cup {o} /\ row'[o] = w
    BY <1>0, <2>1, <2>2 DEF Rows, RowsStay
  <2> QED BY <2>3, <2>4 DEF o, w
<1>4. UNCHANGED row \/ (\E r \in Requests : Insert(r)) \/ \E o \in Owners : Settles(o)
  BY DEF Next, vars, records, Begin, ReadQuote, Revalidate, LockCustomer, LockPhone, Stop, CreateQuote,
     ResetPurchaseAttempts, ToggleRestriction, RegisterDecline, Tick
<1>5. UNCHANGED row => Rows' = Rows
  BY DEF Rows
<1> QED BY <1>1, <1>2, <1>3, <1>4, <1>5

---------------------------------------------------------------------------
(* What a step does to the requests and to the locks. *)

LocksTyped ==
  /\ customerLock \in [Customers -> Requests \cup {"free"}]
  /\ phoneLock \in [Phones -> Requests \cup {"free"}]

Own(r) ==
  \/ \E q \in Quotes, k \in Keys : Begin(r, q, k)
  \/ ReadQuote(r) \/ Revalidate(r) \/ LockCustomer(r) \/ LockPhone(r) \/ Insert(r) \/ Stop(r)

LEMMA OnlyOwn ==
  ASSUME [Next]_vars, \A r \in Requests : ~Own(r)
  PROVE  UNCHANGED <<work, customerLock, phoneLock>>
BY DEF Next, vars, Own, locks, CreateQuote, ResetPurchaseAttempts, ToggleRestriction, Settles, PaymentFails, PaymentCaptured, FulfillmentEnds, Refunded, Becomes,
     RegisterDecline,
   Tick

LEMMA FinishFacts ==
  ASSUME TypeInv, NEW r \in Requests, Finish(r)
  PROVE  /\ DOMAIN work' = Requests /\ work'[r] = Idle
         /\ \A g \in Requests \ {r} : work'[g] = work[g]
         /\ LocksTyped'
         /\ \A c \in Customers : customerLock[c] # r => customerLock'[c] = customerLock[c]
         /\ \A p \in Phones : phoneLock[p] # r => phoneLock'[p] = phoneLock[p]
BY DEF TypeInv, Finish, Released, LocksTyped

\* A request goes on, to l.
LEMMA GoesOn ==
  ASSUME TypeInv, NEW r \in Requests, NEW l, work' = [work EXCEPT ![r] = l]
  PROVE  /\ DOMAIN work' = Requests /\ work'[r] = l
         /\ \A g \in Requests \ {r} : work'[g] = work[g]
BY DEF TypeInv

Keeps(r) == work'[r].quote = work[r].quote /\ work'[r].key = work[r].key

LEMMA GotoFacts ==
  ASSUME TypeInv, NEW r \in Requests, NEW at \in Place, Goto(r, at)
  PROVE  /\ DOMAIN work' = Requests
         /\ work'[r] \in WorkRecord /\ work'[r].at = at /\ Keeps(r) /\ work'[r].time = work[r].time
         /\ \A g \in Requests \ {r} : work'[g] = work[g]
<1> DEFINE l == [work[r] EXCEPT !.at = at]
<1>1. /\ l \in WorkRecord /\ l.at = at /\ l.quote = work[r].quote /\ l.key = work[r].key
      /\ l.time = work[r].time
  BY DEF TypeInv, WorkFits, WorkRecord
<1>2. work' = [work EXCEPT ![r] = l]
  BY DEF Goto
<1> HIDE DEF l
<1> QED BY <1>1, <1>2, GoesOn DEF Keeps

\* What a request that reads the quote, or judges the payments, takes with it.
LEMMA ReadFacts ==
  ASSUME NEW w \in WorkRecord, NEW n \in Nat
  PROVE  LET l == [w EXCEPT !.at = "revalidate", !.time = n]
         IN  l \in WorkRecord /\ l.at = "revalidate" /\ l.quote = w.quote /\ l.key = w.key /\ l.time = n
<1>1. "revalidate" \in Place
  BY DEF Place
<1> QED BY <1>1 DEF WorkRecord

LEMMA LockFacts ==
  ASSUME NEW w \in WorkRecord, NEW b \in BOOLEAN
  PROVE  LET l == [w EXCEPT !.at = "phone", !.blocked = b]
         IN  l \in WorkRecord /\ l.at = "phone" /\ l.quote = w.quote /\ l.key = w.key /\ l.time = w.time
<1>1. "phone" \in Place
  BY DEF Place
<1> QED BY <1>1 DEF WorkRecord

\* Where a request's own step takes it, and which locks it takes.
Advance(r) ==
  \/ work'[r] = Idle /\ Finish(r)
  \/ /\ work'[r].at = "read" /\ work'[r].time = 0 /\ work'[r].quote \in Quotes /\ work'[r].key \in Keys
     /\ quote[work'[r].quote] # NoQuote
     /\ UNCHANGED locks
  \/ /\ Keeps(r) /\ work[r].at = "read" /\ work'[r].at = "revalidate" /\ work'[r].time = now
     /\ UNCHANGED locks
  \/ /\ Keeps(r) /\ work[r].at = "revalidate" /\ work'[r].at = "customer" /\ work'[r].time = work[r].time
     /\ UNCHANGED locks
  \/ /\ Keeps(r) /\ work[r].at = "customer" /\ work'[r].at = "phone" /\ work'[r].time = work[r].time
     /\ LockCustomer(r) /\ customerLock[Payer(r)] = "free" /\ UNCHANGED phoneLock
     /\ customerLock' = [customerLock EXCEPT ![Payer(r)] = r]
  \/ /\ Keeps(r) /\ work[r].at = "phone" /\ work'[r].at = "insert" /\ work'[r].time = work[r].time
     /\ LockPhone(r) /\ phoneLock[Number(r)] = "free" /\ UNCHANGED customerLock
     /\ phoneLock' = [phoneLock EXCEPT ![Number(r)] = r]

LEMMA OwnAdvances ==
  ASSUME TypeInv, NEW r \in Requests, Own(r)
  PROVE  /\ DOMAIN work' = Requests /\ work'[r] \in WorkRecord /\ Advance(r)
         /\ \A g \in Requests \ {r} : work'[g] = work[g]
<1> DEFINE Goal == /\ DOMAIN work' = Requests /\ work'[r] \in WorkRecord /\ Advance(r)
                   /\ \A g \in Requests \ {r} : work'[g] = work[g]
<1>0. work[r] \in WorkRecord /\ now \in Nat /\ Place = {"idle", "read", "revalidate", "customer", "phone", "insert"}
  BY NumbersFacts DEF TypeInv, WorkFits, Place
<1>1. CASE Finish(r)
  BY <1>1, FinishFacts, IdleFacts DEF Advance
<1>2. ASSUME NEW q \in Quotes, NEW k \in Keys, Begin(r, q, k) PROVE Goal
  <2> DEFINE l == [Idle EXCEPT !.at = "read", !.quote = q, !.key = k]
  <2>1. l \in WorkRecord /\ l.at = "read" /\ l.quote = q /\ l.key = k /\ l.time = 0
    BY DEF Idle, WorkRecord, Place
  <2>2. work' = [work EXCEPT ![r] = l] /\ quote[q] # NoQuote /\ UNCHANGED locks
    BY <1>2 DEF Begin
  <2> HIDE DEF l
  <2> QED BY <2>1, <2>2, GoesOn DEF Advance
<1>3. CASE ReadQuote(r) /\ ~Finish(r)
  <2> DEFINE l == [work[r] EXCEPT !.at = "revalidate", !.time = now]
  <2>1. work' = [work EXCEPT ![r] = l] /\ UNCHANGED locks /\ work[r].at = "read"
    BY <1>3 DEF ReadQuote
  <2>2. l \in WorkRecord /\ l.at = "revalidate" /\ l.quote = work[r].quote /\ l.key = work[r].key /\ l.time = now
    BY <1>0, ReadFacts
  <2> HIDE DEF l
  <2> QED BY <2>1, <2>2, GoesOn DEF Advance, Keeps
<1>4. CASE Revalidate(r) /\ ~Finish(r)
  <2>1. Goto(r, "customer") /\ UNCHANGED locks /\ work[r].at = "revalidate"
    BY <1>4 DEF Revalidate
  <2> QED BY <1>0, <2>1, GotoFacts DEF Advance
<1>5. CASE LockCustomer(r) /\ ~Finish(r)
  <2> DEFINE b == AttemptsBlocked(Payer(r), work[r].time)
             l == [work[r] EXCEPT !.at = "phone", !.blocked = b]
  <2>1. /\ work' = [work EXCEPT ![r] = l] /\ UNCHANGED phoneLock /\ work[r].at = "customer"
        /\ customerLock[Payer(r)] = "free" /\ customerLock' = [customerLock EXCEPT ![Payer(r)] = r]
    BY <1>5 DEF LockCustomer, Free, Payer
  <2>2. b \in BOOLEAN
    BY DEF AttemptsBlocked
  <2> HIDE DEF b
  <2>3. /\ l \in WorkRecord /\ l.at = "phone" /\ l.quote = work[r].quote /\ l.key = work[r].key
        /\ l.time = work[r].time
    BY <1>0, <2>2, LockFacts
  <2> HIDE DEF l
  <2> QED BY <1>5, <2>1, <2>3, GoesOn DEF Advance, Keeps
<1>6. CASE LockPhone(r) /\ ~Finish(r)
  <2>1. /\ Goto(r, "insert") /\ UNCHANGED customerLock /\ work[r].at = "phone"
        /\ phoneLock[Number(r)] = "free" /\ phoneLock' = [phoneLock EXCEPT ![Number(r)] = r]
    BY <1>6 DEF LockPhone, Free, Number
  <2> QED BY <1>0, <1>6, <2>1, GotoFacts DEF Advance
<1>7. CASE Insert(r) \/ Stop(r)
  BY <1>1, <1>7 DEF Insert, Stop
<1> QED BY <1>1, <1>2, <1>3, <1>4, <1>5, <1>6, <1>7 DEF Own

\* A lock stays with the request that holds it until that request ends.
LEMMA LocksStay ==
  ASSUME TypeInv, NEW r \in Requests, Own(r)
  PROVE  /\ LocksTyped'
         /\ \A c \in Customers : customerLock[c] \in Requests \ {r} => customerLock'[c] = customerLock[c]
         /\ \A p \in Phones : phoneLock[p] \in Requests \ {r} => phoneLock'[p] = phoneLock[p]
<1>0. LocksTyped /\ Advance(r) /\ "free" \notin Requests
  BY OwnAdvances, NumbersFacts DEF TypeInv, LocksTyped
<1>1. CASE Finish(r)
  BY <1>1, FinishFacts
<1>2. CASE UNCHANGED locks
  BY <1>0, <1>2 DEF LocksTyped, locks
<1>3. CASE customerLock[Payer(r)] = "free" /\ UNCHANGED phoneLock
           /\ customerLock' = [customerLock EXCEPT ![Payer(r)] = r]
  BY <1>0, <1>3 DEF LocksTyped
<1>4. CASE phoneLock[Number(r)] = "free" /\ UNCHANGED customerLock
           /\ phoneLock' = [phoneLock EXCEPT ![Number(r)] = r]
  BY <1>0, <1>4 DEF LocksTyped
<1> QED BY <1>0, <1>1, <1>2, <1>3, <1>4 DEF Advance

LEMMA TimeGrows ==
  ASSUME TypeInv, [Next]_vars
  PROVE  now' \in 0..Horizon /\ now <= now' /\ faults' \in 0..MaxFaults
<1>1. now' = now \/ (now < Horizon /\ now' = now + 1)
  BY DEF Next, vars, records, CreateQuote, Begin, ReadQuote, Revalidate, LockCustomer, LockPhone, Insert,
     Stop, ResetPurchaseAttempts, ToggleRestriction, Settles, PaymentFails, PaymentCaptured, FulfillmentEnds, Refunded, Becomes,
     RegisterDecline, Tick
<1>2. faults' = faults \/ Fault
  BY DEF Next, vars, records, CreateQuote, Begin, ReadQuote, Revalidate, LockCustomer, LockPhone, Insert,
     Stop, ResetPurchaseAttempts, ToggleRestriction, Settles, PaymentFails, PaymentCaptured, FulfillmentEnds, Refunded, Becomes,
     RegisterDecline, Tick
<1>3. now \in 0..Horizon /\ faults \in 0..MaxFaults
  BY DEF TypeInv
<1> QED BY <1>1, <1>2, <1>3, NumbersFacts DEF Fault

\* A request that waits is where it was, with what it holds.
LEMMA WaitingFits ==
  ASSUME TypeInv, QuotesStay, now <= now', now' \in Nat, NEW g \in Requests, work'[g] = work[g],
         \A c \in Customers : customerLock[c] = g => customerLock'[c] = g,
         \A p \in Phones : phoneLock[p] = g => phoneLock'[p] = g
  PROVE  WorkFits(g)' /\ LocksFit(g)'
<1>0. now \in Nat
  BY NumbersFacts DEF TypeInv
<1>1. WorkFits(g) /\ LocksFit(g) /\ work[g] \in WorkRecord /\ work[g].time \in Nat
  BY DEF TypeInv, WorkFits, WorkRecord
<1>2. WorkFits(g)'
  BY <1>0, <1>1 DEF WorkFits, QuotesStay
<1>3. CASE work[g].at \in {"phone", "insert"}
  <2>1. quote[work[g].quote] \in QuoteType /\ work[g].quote \in Quotes /\ quote[work[g].quote] # NoQuote
    BY <1>1, <1>3 DEF WorkFits, TypeInv
  <2>2. Payer(g) \in Customers /\ Number(g) \in Phones /\ Payer(g)' = Payer(g) /\ Number(g)' = Number(g)
    BY <2>1 DEF Payer, Number, QuoteType, QuotesStay
  <2> QED BY <1>1, <1>2, <2>2 DEF LocksFit
<1>4. CASE work[g].at \notin {"phone", "insert"}
  BY <1>2, <1>4 DEF LocksFit
<1> QED BY <1>3, <1>4

LEMMA OwnFits ==
  ASSUME TypeInv, QuotesStay, [Next]_vars, NEW r \in Requests, Own(r)
  PROVE  WorkFits(r)' /\ LocksFit(r)'
<1>0. /\ now \in Nat /\ now' \in Nat /\ now <= now'
      /\ work'[r] \in WorkRecord /\ Advance(r) /\ WorkFits(r) /\ LocksFit(r)
      /\ work[r].time \in Nat /\ work[r].time <= now
  BY TimeGrows, OwnAdvances, NumbersFacts DEF TypeInv, WorkFits, WorkRecord
<1>1. CASE work'[r] = Idle
  BY <1>0, <1>1, IdleFacts DEF WorkFits, LocksFit
<1>2. CASE /\ work'[r].at = "read" /\ work'[r].time = 0 /\ work'[r].quote \in Quotes /\ work'[r].key \in Keys
           /\ quote[work'[r].quote] # NoQuote
  BY <1>0, <1>2 DEF WorkFits, LocksFit, QuotesStay
<1>3. CASE Keeps(r) /\ work[r].at # "idle"
  <2>1. /\ work[r].quote \in Quotes /\ work[r].key \in Keys /\ quote[work[r].quote] # NoQuote
        /\ quote[work[r].quote] \in QuoteType
    BY <1>0, <1>3 DEF WorkFits, TypeInv
  <2>2. Payer(r) \in Customers /\ Number(r) \in Phones /\ Payer(r)' = Payer(r) /\ Number(r)' = Number(r)
    BY <1>3, <2>1 DEF Payer, Number, QuoteType, QuotesStay, Keeps
  <2>3. work'[r] = Idle \/ work'[r].time = work[r].time \/ work'[r].time = now \/ work'[r].time = 0
    BY <1>0 DEF Advance
  <2>4. WorkFits(r)'
    BY <1>0, <1>1, <1>3, <2>1, <2>3 DEF WorkFits, QuotesStay, Keeps
  <2>5. LocksFit(r)'
    BY <1>0, <1>1, <1>2, <2>2 DEF Advance, LocksFit, TypeInv
  <2> QED BY <2>4, <2>5
<1> QED BY <1>0, <1>1, <1>2, <1>3 DEF Advance

LEMMA ExemptFits ==
  ASSUME TypeInv, [Next]_vars
  PROVE  /\ IsFiniteSet(Rows') /\ exempt' \subseteq Rows' /\ exempt \subseteq exempt'
         /\ restricted' \subseteq Customers
         /\ \A d \in declined' : d.row \in Rows' /\ d.card \in Cards /\ d.at \in 0..now'
<1>1. IsFiniteSet(Rows') /\ Rows \subseteq Rows'
  <2>1. \A o : IsFiniteSet(Rows \cup {o})
    BY FS_AddElement DEF TypeInv
  <2>2. Rows' = Rows \/ \E o : Rows' = Rows \cup {o}
    BY RowsMove
  <2>3. IsFiniteSet(Rows)
    BY DEF TypeInv
  <2> QED BY <2>1, <2>2, <2>3
<1>2. exempt' = exempt \/ \E c \in Customers : exempt' = exempt \cup Resettable(c)
  BY DEF Next, vars, records, CreateQuote, Begin, ReadQuote, Revalidate, LockCustomer, LockPhone, Insert,
     Stop, ResetPurchaseAttempts, ToggleRestriction, Settles, PaymentFails, PaymentCaptured, FulfillmentEnds, Refunded, Becomes,
     RegisterDecline, Tick
<1>3. \A c \in Customers : Resettable(c) \subseteq Rows
  BY DEF Resettable
<1>4. restricted' = restricted \/ \E c \in Customers : restricted' = (restricted \cup {c}) \ (restricted \cap {c})
  BY DEF Next, vars, records, CreateQuote, Begin, ReadQuote, Revalidate, LockCustomer, LockPhone, Insert,
     Stop, ResetPurchaseAttempts, ToggleRestriction, Settles, PaymentFails, PaymentCaptured, FulfillmentEnds, Refunded, Becomes,
     RegisterDecline, Tick
<1>5. declined' = declined \/ \E o \in Owners, card \in Cards, at \in 0..now : RegisterDecline(o, card, at)
  BY DEF Next, vars, records, CreateQuote, Begin, ReadQuote, Revalidate, LockCustomer, LockPhone, Insert,
     Stop, ResetPurchaseAttempts, ToggleRestriction, Settles, PaymentFails, PaymentCaptured, FulfillmentEnds, Refunded, Becomes, Tick
<1>6. \A d \in declined' : d.row \in Rows' /\ d.card \in Cards /\ d.at \in 0..now'
  <2>0. now \in Nat /\ now' \in Nat /\ now <= now'
    BY TimeGrows, NumbersFacts DEF TypeInv
  <2>1. \A d \in declined : d.row \in Rows' /\ d.card \in Cards /\ d.at \in 0..now'
    BY <1>1, <2>0 DEF TypeInv
  <2>2. ASSUME NEW o \in Owners, NEW card \in Cards, NEW at \in 0..now, RegisterDecline(o, card, at)
        PROVE  \A d \in declined' : d.row \in Rows' /\ d.card \in Cards /\ d.at \in 0..now'
    <3>1. o \in Rows /\ declined' = declined \cup {[row |-> o, card |-> card, at |-> at]}
      BY <2>2 DEF RegisterDecline, Rows
    <3> QED BY <1>1, <2>0, <2>1, <3>1
  <2> QED BY <1>5, <2>1, <2>2
<1> QED BY <1>1, <1>2, <1>3, <1>4, <1>6 DEF TypeInv

LEMMA NextType == ASSUME TypeInv, [Next]_vars PROVE TypeInv'
<1>0. /\ QuotesStay /\ RowsStay /\ now' \in 0..Horizon /\ now <= now' /\ faults' \in 0..MaxFaults
      /\ now' \in Nat
  BY NextQuotesStay, RowsMove, TimeGrows, NumbersFacts
<1>1. /\ DOMAIN work' = Requests /\ LocksTyped'
      /\ \A g \in Requests : WorkFits(g)' /\ LocksFit(g)'
  <2>1. CASE \A r \in Requests : ~Own(r)
    <3>1. UNCHANGED <<work, customerLock, phoneLock>>
      BY <2>1, OnlyOwn
    <3>2. LocksTyped' /\ DOMAIN work' = Requests
      BY <3>1 DEF TypeInv, LocksTyped
    <3> QED BY <1>0, <3>1, <3>2, WaitingFits
  <2>2. ASSUME NEW r \in Requests, Own(r)
        PROVE  /\ DOMAIN work' = Requests /\ LocksTyped'
               /\ \A g \in Requests : WorkFits(g)' /\ LocksFit(g)'
    <3>1. DOMAIN work' = Requests /\ LocksTyped'
      BY <2>2, OwnAdvances, LocksStay
    <3>2. ASSUME NEW g \in Requests \ {r} PROVE WorkFits(g)' /\ LocksFit(g)'
      <4>1. work'[g] = work[g]
        BY <2>2, OwnAdvances
      <4>2. /\ \A c \in Customers : customerLock[c] = g => customerLock'[c] = g
            /\ \A p \in Phones : phoneLock[p] = g => phoneLock'[p] = g
        BY <2>2, LocksStay
      <4> QED BY <1>0, <4>1, <4>2, WaitingFits
    <3>3. WorkFits(r)' /\ LocksFit(r)'
      BY <1>0, <2>2, OwnFits
    <3> QED BY <3>1, <3>2, <3>3
  <2> QED BY <2>1, <2>2
<1> QED BY <1>0, <1>1, ExemptFits DEF TypeInv, QuotesStay, RowsStay, LocksTyped

---------------------------------------------------------------------------
(* A quote and its row. *)

RowInv ==
  /\ \A o \in Rows : /\ quote[row[o].quote] # NoQuote /\ quote[row[o].quote].consumed
                     /\ o[1] = quote[row[o].quote].customer
  /\ \A o, p \in Rows : row[o].quote = row[p].quote => o = p
  /\ \A q \in Quotes : quote[q].consumed => \E o \in Rows : row[o].quote = q

\* A request makes its row.
Inserted(r) ==
  /\ Insert(r) /\ Valid(work[r].quote, work[r].time)
  /\ Owner(r) \in Owners \ Rows /\ Rows' = Rows \cup {Owner(r)}
  /\ row'[Owner(r)] = NewRow(r)
  /\ quote' = [quote EXCEPT ![work[r].quote].consumed = TRUE]

NoneInserted ==
  /\ Rows' = Rows
  /\ \A q \in Quotes : quote'[q].consumed => quote[q].consumed

LEMMA InsertedOrNot ==
  ASSUME TypeInv, [Next]_vars
  PROVE  NoneInserted \/ \E r \in Requests : Inserted(r)
<1>1. Rows' = Rows \/ \E r \in Requests : Inserted(r)
  BY RowsMove DEF Inserted
<1>2. ASSUME NEW r \in Requests, Insert(r), Rows' = Rows PROVE UNCHANGED quote
  <2>1. CASE UNCHANGED <<quote, row>>
    BY <2>1
  <2>2. CASE row[Owner(r)] = NoRow /\ row' = [row EXCEPT ![Owner(r)] = NewRow(r)]
    <3>1. Owner(r) \in Owners /\ NewRow(r) # NoRow /\ DOMAIN row = Owners
      BY <1>2, InsertFacts, NoneFacts DEF TypeInv
    <3>2. Owner(r) \in Rows' /\ Owner(r) \notin Rows
      BY <2>2, <3>1 DEF Rows
    <3> QED BY <1>2, <3>2
  <2> QED BY <1>2, <2>1, <2>2, InsertFacts
<1>3. ASSUME NEW q \in Quotes, NEW c \in Customers, NEW p \in Phones, NEW total \in Totals,
             CreateQuote(q, c, p, total)
      PROVE  \A z \in Quotes : quote'[z].consumed => quote[z].consumed
  <2> DEFINE n == [customer |-> c, phone |-> p, total |-> total, expires |-> now + 1, consumed |-> FALSE]
  <2>1. quote' = [quote EXCEPT ![q] = n] /\ ~n.consumed /\ DOMAIN quote = Quotes
    BY <1>3 DEF CreateQuote, TypeInv
  <2> HIDE DEF n
  <2> QED BY <2>1
<1>4. UNCHANGED quote \/ (\E r \in Requests : Insert(r))
      \/ \E q \in Quotes, c \in Customers, p \in Phones, total \in Totals : CreateQuote(q, c, p, total)
  BY DEF Next, vars, records, Begin, ReadQuote, Revalidate, LockCustomer, LockPhone, Stop,
     ResetPurchaseAttempts, ToggleRestriction, Settles, PaymentFails, PaymentCaptured, FulfillmentEnds, Refunded, Becomes,
     RegisterDecline, Tick
<1>5. CASE Rows' = Rows
  BY <1>2, <1>3, <1>4, <1>5 DEF NoneInserted
<1> QED BY <1>1, <1>5

LEMMA InsertedFacts ==
  ASSUME TypeInv, NEW r \in Requests, Inserted(r)
  PROVE  LET q == work[r].quote
         IN  /\ q \in Quotes /\ quote[q] \in QuoteType /\ quote[q] # NoQuote /\ ~quote[q].consumed
             /\ quote'[q].consumed /\ \A z \in Quotes \ {q} : quote'[z] = quote[z]
             /\ Owner(r)[1] = quote[q].customer
             /\ row'[Owner(r)].quote = q /\ row'[Owner(r)].at = work[r].time
             /\ work[r].time \in Nat
<1> DEFINE q == work[r].quote
           n == [quote[q] EXCEPT !.consumed = TRUE]
<1>1. q \in Quotes /\ quote[q] \in QuoteType /\ quote[q] # NoQuote /\ work[r].time \in Nat
  BY NoneFacts DEF Inserted, Insert, TypeInv, WorkFits, WorkRecord
<1>2. ~quote[q].consumed
  BY DEF Inserted, Valid
<1>3. n.consumed /\ quote' = [quote EXCEPT ![q] = n] /\ DOMAIN quote = Quotes
  BY <1>1 DEF Inserted, QuoteType, TypeInv
<1>4. quote'[q].consumed /\ \A z \in Quotes \ {q} : quote'[z] = quote[z]
  <2> HIDE DEF n
  <2> QED BY <1>1, <1>3
<1>5. Owner(r)[1] = quote[q].customer /\ row'[Owner(r)].quote = q /\ row'[Owner(r)].at = work[r].time
  BY DEF Inserted, NewRow, Owner, Payer
<1> QED BY <1>1, <1>2, <1>4, <1>5

LEMMA NextRow == ASSUME TypeInv, RowInv, [Next]_vars PROVE RowInv'
<1>0. QuotesStay /\ RowsStay /\ \A o \in Rows : row[o].quote \in Quotes /\ row[o] \in RowType
  BY NextQuotesStay, RowsMove, RowsFacts DEF RowType
<1>1. \A o \in Rows : /\ quote'[row'[o].quote] # NoQuote /\ quote'[row'[o].quote].consumed
                      /\ o[1] = quote'[row'[o].quote].customer
                      /\ row'[o].quote = row[o].quote
  BY <1>0 DEF RowInv, QuotesStay, RowsStay
<1>2. CASE NoneInserted
  BY <1>0, <1>1, <1>2 DEF RowInv, NoneInserted
<1>3. ASSUME NEW r \in Requests, Inserted(r) PROVE RowInv'
  <2> DEFINE q == work[r].quote
             o == Owner(r)
  <2>1. /\ q \in Quotes /\ quote[q] # NoQuote /\ ~quote[q].consumed
        /\ quote'[q].consumed /\ \A z \in Quotes \ {q} : quote'[z] = quote[z]
        /\ o[1] = quote[q].customer /\ row'[o].quote = q
    BY <1>3, InsertedFacts
  <2>2. Rows' = Rows \cup {o} /\ o \notin Rows
    BY <1>3 DEF Inserted
  <2> HIDE DEF q, o
  <2>3. \A p \in Rows : row[p].quote # q
    BY <2>1 DEF RowInv
  <2>4. \A p \in Rows' : /\ quote'[row'[p].quote] # NoQuote /\ quote'[row'[p].quote].consumed
                         /\ p[1] = quote'[row'[p].quote].customer
    BY <1>0, <1>1, <2>1, <2>2 DEF QuotesStay
  <2>5. \A p, z \in Rows' : row'[p].quote = row'[z].quote => p = z
    BY <1>1, <2>1, <2>2, <2>3 DEF RowInv
  <2>6. \A z \in Quotes : quote'[z].consumed => \E p \in Rows' : row'[p].quote = z
    BY <1>1, <2>1, <2>2 DEF RowInv
  <2> QED BY <2>4, <2>5, <2>6 DEF RowInv
<1> QED BY <1>2, <1>3, InsertedOrNot

\* The rows staff took out of the counts are none whose payment is awaited.
NoneInFlight == \A o \in exempt : row[o].payment # "PENDING"

LEMMA NextExempt == ASSUME TypeInv, NoneInFlight, [Next]_vars PROVE NoneInFlight'
<1>1. exempt' = exempt \/ \E c \in Customers : ResetPurchaseAttempts(c)
  BY DEF Next, vars, records, CreateQuote, Begin, ReadQuote, Revalidate, LockCustomer, LockPhone, Insert,
     Stop, ToggleRestriction, Settles, PaymentFails, PaymentCaptured, FulfillmentEnds, Refunded, Becomes,
     RegisterDecline, Tick
<1>2. RowsStay /\ exempt \subseteq Rows
  BY RowsMove DEF TypeInv
<1>3. CASE exempt' = exempt
  BY <1>2, <1>3 DEF NoneInFlight, RowsStay
<1>4. ASSUME NEW c \in Customers, ResetPurchaseAttempts(c) PROVE NoneInFlight'
  <2>1. exempt' = exempt \cup Resettable(c) /\ row' = row
    BY <1>4 DEF ResetPurchaseAttempts
  <2> QED BY <2>1 DEF NoneInFlight, Resettable
<1> QED BY <1>1, <1>3, <1>4

LEMMA InitHolds == Init => TypeInv /\ RowInv /\ NoneInFlight
<1> SUFFICES ASSUME Init PROVE TypeInv /\ RowInv /\ NoneInFlight
  OBVIOUS
<1>1. Rows = {} /\ IsFiniteSet(Rows)
  <2>1. Rows = {}
    BY DEF Init, Rows
  <2> QED BY <2>1, FS_EmptySet
<1>2. \A r \in Requests : WorkFits(r) /\ LocksFit(r)
  BY IdleFacts DEF Init, WorkFits, LocksFit
<1>3. TypeInv
  BY <1>1, <1>2, NumbersFacts DEF Init, TypeInv
<1>4. \A q \in Quotes : ~quote[q].consumed
  BY NoneFacts DEF Init
<1>5. RowInv /\ NoneInFlight
  BY <1>1, <1>4 DEF Init, RowInv, NoneInFlight
<1> QED BY <1>3, <1>5

LEMMA OneRowFollows == ASSUME TypeInv, RowInv PROVE QuoteBuysOneRow
<1> SUFFICES ASSUME NEW q \in Quotes
             PROVE  /\ Cardinality({o \in Rows : row[o].quote = q}) = (IF quote[q].consumed THEN 1 ELSE 0)
                    /\ \A o \in {o \in Rows : row[o].quote = q} : o[1] = quote[q].customer
  BY DEF QuoteBuysOneRow
<1> DEFINE bought == {o \in Rows : row[o].quote = q}
<1>1. \A o \in bought : o[1] = quote[q].customer
  BY DEF RowInv
<1>2. CASE quote[q].consumed
  <2>1. PICK o \in Rows : row[o].quote = q
    BY <1>2 DEF RowInv
  <2>2. bought = {o}
    BY <2>1 DEF RowInv
  <2>3. Cardinality(bought) = 1
    BY <2>2, FS_Singleton
  <2> QED BY <1>1, <1>2, <2>3
<1>3. CASE ~quote[q].consumed
  <2>1. bought = {}
    BY <1>3 DEF RowInv
  <2>2. Cardinality(bought) = 0
    BY <2>1, FS_EmptySet
  <2> QED BY <1>1, <1>3, <2>2
<1> QED BY <1>2, <1>3

(* QuoteBuysOneRow for every set of quotes, keys and requests: a quote is  *)
(* used up by exactly one row, of its own customer (reserveTransaction's   *)
(* claim of the quote and creation of the row, one transaction).           *)
THEOREM EveryQuoteBuysOneRow == Spec => []QuoteBuysOneRow
<1>1. Init => TypeInv /\ RowInv
  BY InitHolds
<1>2. TypeInv /\ RowInv /\ [Next]_vars => (TypeInv /\ RowInv)'
  BY NextType, NextRow
<1>3. TypeInv /\ RowInv => QuoteBuysOneRow
  BY OneRowFollows
<1> QED BY <1>1, <1>2, <1>3, PTL DEF Spec

---------------------------------------------------------------------------
(* The limits of a group of rows, by the times and the costs of the rows. *)

Span(G, at, t, length) == {o \in G : at[o] \in t..(t + length)}
Since(G, at, t) == {o \in G : at[o] >= t}

Bounded(G, spared, at, cost) ==
  \A t \in Int :
    /\ SumOver(cost, Span(G, at, t, Day)) <= DayTotal
    /\ Cardinality(Span(G \ spared, at, t, 1)) <= PerHour
    /\ Cardinality(Span(G \ spared, at, t, Day)) <= PerDay

\* One row more may be made, that costs total and counts from time.
Room(G, spared, at, cost, time, total) ==
  /\ SumOver(cost, Since(G, at, time - Day)) + total <= DayTotal
  /\ Cardinality(Since(G \ spared, at, time - 1)) + 1 <= PerHour
  /\ Cardinality(Since(G \ spared, at, time - Day)) + 1 <= PerDay

Group(G, at, cost) == IsFiniteSet(G) /\ \A o \in G : at[o] \in Int /\ cost[o] \in Nat

\* What a part of a group costs and counts.
LEMMA PartOf ==
  ASSUME NEW G, NEW at, NEW cost, Group(G, at, cost), NEW T \in SUBSET G
  PROVE  /\ IsFiniteSet(T) /\ SumOver(cost, T) \in Nat
         /\ \A U \in SUBSET T : /\ SumOver(cost, U) \in Nat /\ SumOver(cost, U) <= SumOver(cost, T)
                                /\ Cardinality(U) \in Nat /\ Cardinality(T) \in Nat
                                /\ Cardinality(U) <= Cardinality(T)
<1>1. IsFiniteSet(T) /\ \A o \in T : cost[o] \in Nat
  BY FS_Subset DEF Group
<1>2. \A U \in SUBSET T : SumOver(cost, U) \in Nat /\ SumOver(cost, U) <= SumOver(cost, T)
  BY <1>1, SumGrows
<1>3. \A U \in SUBSET T : Cardinality(U) \in Nat /\ Cardinality(T) \in Nat /\ Cardinality(U) <= Cardinality(T)
  BY <1>1, SubsetSize
<1> QED BY <1>1, <1>2, <1>3

\* The same rows at the same times and costs, and no fewer of them taken out.
Alike(G, spared, at, cost, spared2, at2, cost2) ==
  spared \subseteq spared2 /\ \A o \in G : at2[o] = at[o] /\ cost2[o] = cost[o]

LEMMA BoundsStay ==
  ASSUME NEW G, NEW spared, NEW at, NEW cost, NEW spared2, NEW at2, NEW cost2,
         Group(G, at, cost), Alike(G, spared, at, cost, spared2, at2, cost2),
         Bounded(G, spared, at, cost)
  PROVE  Bounded(G, spared2, at2, cost2)
<1> SUFFICES ASSUME NEW t \in Int
             PROVE  /\ SumOver(cost2, Span(G, at2, t, Day)) <= DayTotal
                    /\ Cardinality(Span(G \ spared2, at2, t, 1)) <= PerHour
                    /\ Cardinality(Span(G \ spared2, at2, t, Day)) <= PerDay
  BY DEF Bounded
<1>1. Span(G, at2, t, Day) = Span(G, at, t, Day) /\ Span(G, at, t, Day) \in SUBSET G
  BY DEF Span, Alike
<1>2. SumOver(cost2, Span(G, at, t, Day)) = SumOver(cost, Span(G, at, t, Day))
  <2>1. IsFiniteSet(Span(G, at, t, Day))
    BY <1>1, PartOf
  <2>2. \A o \in Span(G, at, t, Day) : cost2[o] = cost[o]
    BY <1>1 DEF Alike
  <2> QED BY <2>1, <2>2, SameWeights
<1>3. /\ Span(G \ spared2, at2, t, 1) \in SUBSET Span(G \ spared, at, t, 1)
      /\ Span(G \ spared2, at2, t, Day) \in SUBSET Span(G \ spared, at, t, Day)
      /\ Span(G \ spared, at, t, 1) \in SUBSET G /\ Span(G \ spared, at, t, Day) \in SUBSET G
  BY DEF Span, Alike
<1>4. /\ Cardinality(Span(G \ spared2, at2, t, 1)) \in Nat /\ Cardinality(Span(G \ spared, at, t, 1)) \in Nat
      /\ Cardinality(Span(G \ spared2, at2, t, 1)) <= Cardinality(Span(G \ spared, at, t, 1))
      /\ Cardinality(Span(G \ spared2, at2, t, Day)) \in Nat /\ Cardinality(Span(G \ spared, at, t, Day)) \in Nat
      /\ Cardinality(Span(G \ spared2, at2, t, Day)) <= Cardinality(Span(G \ spared, at, t, Day))
  BY <1>3, PartOf
<1>5. /\ SumOver(cost, Span(G, at, t, Day)) <= DayTotal
      /\ Cardinality(Span(G \ spared, at, t, 1)) <= PerHour
      /\ Cardinality(Span(G \ spared, at, t, Day)) <= PerDay
  BY DEF Bounded
<1> QED BY <1>1, <1>2, <1>4, <1>5, NumbersFacts

LEMMA RoomStays ==
  ASSUME NEW G, NEW spared, NEW at, NEW cost, NEW spared2, NEW at2, NEW cost2, NEW time \in Int, NEW total,
         Group(G, at, cost), Alike(G, spared, at, cost, spared2, at2, cost2),
         Room(G, spared, at, cost, time, total)
  PROVE  Room(G, spared2, at2, cost2, time, total)
<1>1. /\ Since(G, at2, time - Day) = Since(G, at, time - Day) /\ Since(G, at, time - Day) \in SUBSET G
  BY DEF Since, Alike
<1>2. SumOver(cost2, Since(G, at, time - Day)) = SumOver(cost, Since(G, at, time - Day))
  <2>1. IsFiniteSet(Since(G, at, time - Day))
    BY <1>1, PartOf
  <2>2. \A o \in Since(G, at, time - Day) : cost2[o] = cost[o]
    BY <1>1 DEF Alike
  <2> QED BY <2>1, <2>2, SameWeights
<1>3. ASSUME NEW t \in Int
      PROVE  /\ Cardinality(Since(G \ spared2, at2, t)) \in Nat /\ Cardinality(Since(G \ spared, at, t)) \in Nat
             /\ Cardinality(Since(G \ spared2, at2, t)) <= Cardinality(Since(G \ spared, at, t))
  <2>1. /\ Since(G \ spared2, at2, t) \in SUBSET Since(G \ spared, at, t)
        /\ Since(G \ spared, at, t) \in SUBSET G
    BY DEF Since, Alike
  <2> QED BY <2>1, PartOf
<1>4. time - 1 \in Int /\ time - Day \in Int
  BY NumbersFacts
<1>5. SumOver(cost2, Since(G, at2, time - Day)) + total <= DayTotal
  BY <1>1, <1>2 DEF Room
<1>6. Cardinality(Since(G \ spared2, at2, time - 1)) + 1 <= PerHour
  <2>1. Cardinality(Since(G \ spared, at, time - 1)) + 1 <= PerHour
    BY DEF Room
  <2>2. /\ Cardinality(Since(G \ spared2, at2, time - 1)) \in Nat
        /\ Cardinality(Since(G \ spared, at, time - 1)) \in Nat
        /\ Cardinality(Since(G \ spared2, at2, time - 1)) <= Cardinality(Since(G \ spared, at, time - 1))
    BY <1>3, <1>4
  <2> QED BY <2>1, <2>2, NumbersFacts
<1>7. Cardinality(Since(G \ spared2, at2, time - Day)) + 1 <= PerDay
  <2>1. Cardinality(Since(G \ spared, at, time - Day)) + 1 <= PerDay
    BY DEF Room
  <2>2. /\ Cardinality(Since(G \ spared2, at2, time - Day)) \in Nat
        /\ Cardinality(Since(G \ spared, at, time - Day)) \in Nat
        /\ Cardinality(Since(G \ spared2, at2, time - Day)) <= Cardinality(Since(G \ spared, at, time - Day))
    BY <1>3, <1>4
  <2> QED BY <2>1, <2>2, NumbersFacts
<1> QED BY <1>5, <1>6, <1>7 DEF Room

\* With room for it, the row that is made keeps the limits.
LEMMA BoundsTakeOne ==
  ASSUME NEW G, NEW spared, NEW at, NEW cost, NEW spared2, NEW at2, NEW cost2, NEW time \in Int,
         NEW total \in Nat, NEW x, x \notin G, at2[x] = time, cost2[x] = total,
         Group(G, at, cost), Alike(G, spared, at, cost, spared2, at2, cost2),
         Bounded(G, spared, at, cost), Room(G, spared, at, cost, time, total)
  PROVE  Bounded(G \cup {x}, spared2, at2, cost2)
<1> DEFINE H == G \cup {x}
<1>1. Bounded(G, spared2, at2, cost2) /\ Room(G, spared2, at2, cost2, time, total)
  BY BoundsStay, RoomStays
<1>2. Group(G, at2, cost2) /\ Group(H, at2, cost2)
  <2>1. IsFiniteSet(H)
    BY FS_AddElement DEF Group
  <2> QED BY <2>1 DEF Group, Alike
<1> SUFFICES ASSUME NEW t \in Int
             PROVE  /\ SumOver(cost2, Span(H, at2, t, Day)) <= DayTotal
                    /\ Cardinality(Span(H \ spared2, at2, t, 1)) <= PerHour
                    /\ Cardinality(Span(H \ spared2, at2, t, Day)) <= PerDay
  BY DEF Bounded
<1>3. /\ SumOver(cost2, Span(G, at2, t, Day)) <= DayTotal
      /\ Cardinality(Span(G \ spared2, at2, t, 1)) <= PerHour
      /\ Cardinality(Span(G \ spared2, at2, t, Day)) <= PerDay
  BY <1>1 DEF Bounded
<1>4. SumOver(cost2, Span(H, at2, t, Day)) <= DayTotal
  <2> DEFINE S == Span(G, at2, t, Day)
  <2>1. CASE time \notin t..(t + Day)
    <3>1. Span(H, at2, t, Day) = S
      BY <2>1 DEF Span
    <3> QED BY <1>3, <3>1
  <2>2. CASE time \in t..(t + Day)
    <3>1. Span(H, at2, t, Day) = S \cup {x} /\ S \in SUBSET H /\ x \notin S /\ S \in SUBSET G
      BY <2>2 DEF Span
    <3>2. S \in SUBSET Since(G, at2, time - Day) /\ Since(G, at2, time - Day) \in SUBSET G
      BY <1>2, <2>2, NumbersFacts DEF Span, Since, Group
    <3>3. SumOver(cost2, S) \in Nat /\ SumOver(cost2, S) <= SumOver(cost2, Since(G, at2, time - Day))
          /\ SumOver(cost2, Since(G, at2, time - Day)) \in Nat
      BY <1>2, <3>2, PartOf
    <3>4. SumOver(cost2, S \cup {x}) = SumOver(cost2, S) + cost2[x]
      <4>1. IsFiniteSet(H) /\ Weights(cost2, H) /\ x \in H
        BY <1>2 DEF Group, Weights
      <4> QED BY <3>1, <4>1, SumAddElement
    <3>5. SumOver(cost2, Since(G, at2, time - Day)) + total <= DayTotal
      BY <1>1 DEF Room
    <3> HIDE DEF S
    <3>6. SumOver(cost2, Span(H, at2, t, Day)) = SumOver(cost2, S) + total
      <4>1. SumOver(cost2, Span(H, at2, t, Day)) = SumOver(cost2, S \cup {x})
        BY <3>1
      <4> QED BY <3>4, <4>1
    <3>7. DayTotal \in Nat
      BY NumbersFacts
    <3> HIDE DEF H
    <3> QED BY <3>3, <3>5, <3>6, <3>7
  <2> QED BY <2>1, <2>2
<1>5. ASSUME NEW length \in Nat, NEW limit \in Nat,
             Cardinality(Span(G \ spared2, at2, t, length)) <= limit,
             Cardinality(Since(G \ spared2, at2, time - length)) + 1 <= limit
      PROVE  Cardinality(Span(H \ spared2, at2, t, length)) <= limit
  <2> DEFINE S == Span(G \ spared2, at2, t, length)
             Z == Since(G \ spared2, at2, time - length)
  <2>0. S \in SUBSET G /\ Z \in SUBSET G
    BY DEF Span, Since
  <2>1. CASE x \in spared2 \/ time \notin t..(t + length)
    <3>1. Span(H \ spared2, at2, t, length) = S
      BY <2>1 DEF Span
    <3> QED BY <1>5, <3>1
  <2>2. CASE x \notin spared2 /\ time \in t..(t + length)
    <3>1. Span(H \ spared2, at2, t, length) = S \cup {x}
      BY <2>2 DEF Span
    <3>2. S \in SUBSET Z
      BY <1>2, <2>2 DEF Span, Since, Group
    <3>3. IsFiniteSet(S) /\ Cardinality(S) \in Nat /\ Cardinality(Z) \in Nat /\ Cardinality(S) <= Cardinality(Z)
      BY <1>2, <2>0, <3>2, PartOf
    <3>4. Cardinality(S \cup {x}) <= Cardinality(S) + 1 /\ Cardinality(S \cup {x}) \in Nat
      BY <3>3, AddSize
    <3>5. Cardinality(Z) + 1 <= limit
      BY <1>5
    <3> HIDE DEF S, Z
    <3> QED BY <3>1, <3>3, <3>4, <3>5
  <2> QED BY <2>1, <2>2
<1>6. /\ Cardinality(Since(G \ spared2, at2, time - 1)) + 1 <= PerHour
      /\ Cardinality(Since(G \ spared2, at2, time - Day)) + 1 <= PerDay
      /\ 1 \in Nat /\ Day \in Nat /\ PerHour \in Nat /\ PerDay \in Nat
  BY <1>1, NumbersFacts DEF Room
<1> HIDE DEF H
<1>7. Cardinality(Span(H \ spared2, at2, t, 1)) <= PerHour
  BY <1>3, <1>5, <1>6
<1>8. Cardinality(Span(H \ spared2, at2, t, Day)) <= PerDay
  BY <1>3, <1>5, <1>6
<1> QED BY <1>4, <1>7, <1>8

---------------------------------------------------------------------------
(* The limits of each customer and of each number. *)

Times == [o \in Rows |-> row[o].at]
Costs == [o \in Rows |-> TotalOf(o)]
OfCustomer(c) == {o \in Rows : o[1] = c}
OfPhone(p) == {o \in Rows : PhoneOf(o) = p}

Limited(G) == Bounded(G, exempt, Times, Costs)
RoomFor(r, G) == Room(G, exempt, Times, Costs, work[r].time, quote[work[r].quote].total)

LimitInv ==
  /\ \A c \in Customers : Limited(OfCustomer(c))
  /\ \A p \in Phones : Limited(OfPhone(p))
  /\ \A r \in Requests : work[r].at = "insert" =>
       RoomFor(r, OfCustomer(Payer(r))) /\ RoomFor(r, OfPhone(Number(r)))

LEMMA RowFacts ==
  ASSUME TypeInv, RowInv
  PROVE  \A o \in Rows : /\ row[o].quote \in Quotes /\ quote[row[o].quote] \in QuoteType
                         /\ Times[o] = row[o].at /\ Costs[o] = TotalOf(o)
                         /\ Times[o] \in Int /\ Costs[o] \in Nat /\ PhoneOf(o) \in Phones
<1> SUFFICES ASSUME NEW o \in Rows
             PROVE  /\ row[o].quote \in Quotes /\ quote[row[o].quote] \in QuoteType
                    /\ Times[o] = row[o].at /\ Costs[o] = TotalOf(o)
                    /\ Times[o] \in Int /\ Costs[o] \in Nat /\ PhoneOf(o) \in Phones
  OBVIOUS
<1>1. row[o] \in RowType /\ quote[row[o].quote] # NoQuote
  BY RowsFacts DEF RowInv
<1>2. row[o].quote \in Quotes /\ row[o].at \in Int
  BY <1>1, NumbersFacts DEF RowType
<1>3. quote[row[o].quote] \in QuoteType
  BY <1>1, <1>2 DEF TypeInv
<1>4. TotalOf(o) \in Nat /\ PhoneOf(o) \in Phones
  BY <1>3, NumbersFacts DEF TotalOf, PhoneOf, QuoteType
<1> QED BY <1>2, <1>3, <1>4 DEF Times, Costs

LEMMA GroupFacts ==
  ASSUME TypeInv, RowInv, NEW G \in SUBSET Rows
  PROVE  Group(G, Times, Costs)
<1>1. IsFiniteSet(G)
  BY FS_Subset DEF TypeInv
<1> QED BY <1>1, RowFacts DEF Group

LEMMA CostsAreSummed ==
  ASSUME TypeInv, RowInv, NEW S \in SUBSET Rows
  PROVE  MapThenSumSet(TotalOf, S) = SumOver(Costs, S)
<1> DEFINE Rec(g) == g = [s \in SUBSET S |->
                           IF s = {} THEN 0 ELSE TotalOf(Some(s)) + g[s \ {Some(s)}]]
           G == CHOOSE g : Rec(g)
<1>0. IsFiniteSet(S)
  BY GroupFacts DEF Group
<1>1. MapThenSumSet(TotalOf, S) = G[S]
  BY DEF MapThenSumSet, MapThenFoldSet, Some
<1>2. \A g : Sums(Costs, S, g) <=> Rec(g)
  <2>1. \A s \in SUBSET S : s # {} => Costs[Some(s)] = TotalOf(Some(s))
    BY SomeIsElement, RowFacts
  <2> QED BY <2>1 DEF Sums
<1>3. \E g : Rec(g)
  BY <1>0, <1>2, SumsExist
<1>4. Rec(G)
  BY <1>3
<1> HIDE DEF G, Rec
<1>5. Sums(Costs, S, G)
  BY <1>2, <1>4
<1>6. SumOver(Costs, S) = G[S]
  BY <1>0, <1>5, SumIsValue
<1> QED BY <1>1, <1>6

\* A request that is let through leaves room for its row.
LEMMA PolicyLeavesRoom ==
  ASSUME TypeInv, RowInv, NEW total \in Nat, NEW time \in Int,
         NEW history \in SUBSET Rows, NEW spared \in SUBSET exempt,
         assertPurchaseLimits(total, history, spared, time)
  PROVE  Room(history, exempt, Times, Costs, time, total)
<1> DEFINE today == {o \in history : row[o].at >= time - Day}
           attempts == today \ spared
           lately == {o \in attempts : row[o].at >= time - 1}
<1>1. /\ MapThenSumSet(TotalOf, today) + total <= DayTotal
      /\ Cardinality(lately) < PerHour /\ Cardinality(attempts) < PerDay
  BY DEF assertPurchaseLimits
<1>2. /\ today = Since(history, Times, time - Day)
      /\ Since(history \ exempt, Times, time - Day) \in SUBSET attempts
      /\ Since(history \ exempt, Times, time - 1) \in SUBSET lately
      /\ today \in SUBSET Rows /\ lately \in SUBSET Rows /\ attempts \in SUBSET Rows
  BY RowFacts, NumbersFacts DEF Since
<1>3. SumOver(Costs, Since(history, Times, time - Day)) + total <= DayTotal
  BY <1>1, <1>2, CostsAreSummed
<1> HIDE DEF lately, attempts, today
<1>4. Group(Rows, Times, Costs)
  BY GroupFacts
<1>5. Cardinality(Since(history \ exempt, Times, time - 1)) + 1 <= PerHour
  <2>1. /\ Cardinality(Since(history \ exempt, Times, time - 1)) \in Nat /\ Cardinality(lately) \in Nat
        /\ Cardinality(Since(history \ exempt, Times, time - 1)) <= Cardinality(lately)
    BY <1>2, <1>4, PartOf
  <2> QED BY <1>1, <2>1, NumbersFacts
<1>6. Cardinality(Since(history \ exempt, Times, time - Day)) + 1 <= PerDay
  <2>1. /\ Cardinality(Since(history \ exempt, Times, time - Day)) \in Nat /\ Cardinality(attempts) \in Nat
        /\ Cardinality(Since(history \ exempt, Times, time - Day)) <= Cardinality(attempts)
    BY <1>2, <1>4, PartOf
  <2> QED BY <1>1, <2>1, NumbersFacts
<1> QED BY <1>3, <1>5, <1>6 DEF Room

---------------------------------------------------------------------------
(* Steps. *)

LEMMA RowsAlike ==
  ASSUME TypeInv, RowInv, [Next]_vars
  PROVE  /\ Alike(Rows, exempt, Times, Costs, exempt', Times', Costs')
         /\ \A o \in Rows : PhoneOf(o)' = PhoneOf(o)
<1>0. /\ QuotesStay /\ RowsStay /\ exempt \subseteq exempt'
      /\ \A o \in Rows : row[o].quote \in Quotes /\ quote[row[o].quote] # NoQuote
  BY NextQuotesStay, RowsMove, ExemptFits, RowFacts DEF RowInv
<1>1. \A o \in Rows : o \in Rows' /\ row'[o].at = row[o].at /\ row'[o].quote = row[o].quote
  BY <1>0 DEF RowsStay
<1>2. \A o \in Rows : TotalOf(o)' = TotalOf(o) /\ PhoneOf(o)' = PhoneOf(o)
  BY <1>0, <1>1 DEF QuotesStay, TotalOf, PhoneOf
<1>3. \A o \in Rows : Times'[o] = Times[o]
  BY <1>1 DEF Times
<1>4. \A o \in Rows : Costs'[o] = Costs[o]
  BY <1>1, <1>2 DEF Costs
<1> QED BY <1>0, <1>2, <1>3, <1>4 DEF Alike

\* The limits of a group that gets no row stay, and so does the room in it.
LEMMA GroupStays ==
  ASSUME TypeInv, RowInv, [Next]_vars, NEW G \in SUBSET Rows, Limited(G)
  PROVE  Bounded(G, exempt', Times', Costs')
<1>1. Group(G, Times, Costs) /\ Alike(G, exempt, Times, Costs, exempt', Times', Costs')
  BY GroupFacts, RowsAlike DEF Alike
<1> QED BY <1>1, BoundsStay DEF Limited

LEMMA GroupRoomStays ==
  ASSUME TypeInv, RowInv, [Next]_vars, NEW G \in SUBSET Rows, NEW time \in Int, NEW total,
         Room(G, exempt, Times, Costs, time, total)
  PROVE  Room(G, exempt', Times', Costs', time, total)
<1>1. Group(G, Times, Costs) /\ Alike(G, exempt, Times, Costs, exempt', Times', Costs')
  BY GroupFacts, RowsAlike DEF Alike
<1> QED BY <1>1, RoomStays

LEMMA GroupTakesOne ==
  ASSUME TypeInv, RowInv, [Next]_vars, NEW r \in Requests, Inserted(r),
         NEW G \in SUBSET Rows, Limited(G), RoomFor(r, G)
  PROVE  Bounded(G \cup {Owner(r)}, exempt', Times', Costs')
<1> DEFINE x == Owner(r)
           total == quote[work[r].quote].total
           time == work[r].time
<1>1. Group(G, Times, Costs) /\ Alike(G, exempt, Times, Costs, exempt', Times', Costs')
  BY GroupFacts, RowsAlike DEF Alike
<1>2. x \in Rows' /\ x \notin G
  BY DEF Inserted
<1>3. /\ work[r].quote \in Quotes /\ quote[work[r].quote] \in QuoteType /\ quote[work[r].quote] # NoQuote
      /\ row'[x].quote = work[r].quote /\ row'[x].at = time /\ time \in Int
  BY InsertedFacts
<1>4. total \in Nat /\ quote'[row'[x].quote].total = total
  BY <1>3, NextQuotesStay, NumbersFacts DEF QuoteType, QuotesStay
<1>5. Times'[x] = time
  BY <1>2, <1>3 DEF Times
<1>6. \A o \in Rows' : Costs'[o] = quote'[row'[o].quote].total
  BY DEF Costs, TotalOf
<1>7. Costs'[x] = total
  BY <1>2, <1>4, <1>6
<1>8. Bounded(G, exempt, Times, Costs) /\ Room(G, exempt, Times, Costs, time, total)
  BY DEF Limited, RoomFor
<1> HIDE DEF x, total, time
<1>9. Bounded(G \cup {x}, exempt', Times', Costs')
  BY <1>1, <1>2, <1>3, <1>4, <1>5, <1>7, <1>8, BoundsTakeOne
<1> QED BY <1>9 DEF x

\* Who holds the place to insert holds the locks of its customer and number.
LEMMA HoldersFacts ==
  ASSUME TypeInv, NEW r \in Requests, work[r].at = "insert"
  PROVE  /\ customerLock[Payer(r)] = r /\ phoneLock[Number(r)] = r
         /\ work[r].quote \in Quotes /\ quote[work[r].quote] # NoQuote
         /\ Payer(r) \in Customers /\ Number(r) \in Phones
         /\ work[r].time \in Int /\ quote[work[r].quote].total \in Nat
<1>1. WorkFits(r) /\ LocksFit(r)
  BY DEF TypeInv
<1>2. work[r].quote \in Quotes /\ quote[work[r].quote] # NoQuote /\ work[r].time \in Int
  BY <1>1 DEF WorkFits, WorkRecord
<1>3. quote[work[r].quote] \in QuoteType
  BY <1>2 DEF TypeInv
<1>4. Payer(r) \in Customers /\ Number(r) \in Phones /\ quote[work[r].quote].total \in Nat
  BY <1>3, NumbersFacts DEF Payer, Number, QuoteType
<1> QED BY <1>1, <1>2, <1>4 DEF LocksFit

\* Which groups get the new row.
LEMMA GroupsGrow ==
  ASSUME TypeInv, RowInv, [Next]_vars, NEW r \in Requests, Inserted(r)
  PROVE  /\ \A c \in Customers : OfCustomer(c)' = IF c = Payer(r) THEN OfCustomer(c) \cup {Owner(r)}
                                                   ELSE OfCustomer(c)
         /\ \A p \in Phones : OfPhone(p)' = IF p = Number(r) THEN OfPhone(p) \cup {Owner(r)}
                                             ELSE OfPhone(p)
<1> DEFINE x == Owner(r)
           n == Number(r)
           b == Payer(r)
<1>1. /\ work[r].quote \in Quotes /\ quote[work[r].quote] # NoQuote
      /\ row'[x].quote = work[r].quote /\ x[1] = b
  BY InsertedFacts DEF Payer
<1>2. Rows' = Rows \cup {x} /\ x \notin Rows
  BY DEF Inserted
<1>3. quote'[row'[x].quote].phone = n
  BY <1>1, NextQuotesStay DEF QuotesStay, Number
<1>4. \A c : OfCustomer(c)' = {o \in Rows' : o[1] = c}
  BY DEF OfCustomer
<1>5. \A o \in Rows : PhoneOf(o)' = PhoneOf(o)
  BY RowsAlike
<1>6. \A o : o = x => PhoneOf(o)' = n
  BY <1>3 DEF PhoneOf
<1> HIDE DEF x, n, b
<1>7. \A c \in Customers : OfCustomer(c)' = IF c = b THEN OfCustomer(c) \cup {x} ELSE OfCustomer(c)
  BY <1>1, <1>2, <1>4 DEF OfCustomer
<1>8. \A p \in Phones : OfPhone(p)' = IF p = n THEN OfPhone(p) \cup {x} ELSE OfPhone(p)
  BY <1>2, <1>5, <1>6 DEF OfPhone
<1> QED BY <1>7, <1>8 DEF x, n, b

LEMMA GroupsKeep ==
  ASSUME TypeInv, RowInv, [Next]_vars, Rows' = Rows
  PROVE  /\ \A c : OfCustomer(c)' = OfCustomer(c)
         /\ \A p : OfPhone(p)' = OfPhone(p)
<1>1. \A o \in Rows : quote'[row'[o].quote].phone = PhoneOf(o)
  BY RowsAlike DEF PhoneOf
<1>2. \A p : OfPhone(p)' = {o \in Rows' : quote'[row'[o].quote].phone = p}
  BY DEF OfPhone, PhoneOf
<1>3. \A p : OfPhone(p)' = OfPhone(p)
  BY <1>1, <1>2 DEF OfPhone
<1>4. \A c : OfCustomer(c)' = OfCustomer(c)
  BY DEF OfCustomer
<1> QED BY <1>3, <1>4

\* The limits of every group, after a step.
LEMMA LimitsStay ==
  ASSUME TypeInv, RowInv, LimitInv, [Next]_vars
  PROVE  /\ \A c \in Customers : Limited(OfCustomer(c))'
         /\ \A p \in Phones : Limited(OfPhone(p))'
<1>1. /\ \A c \in Customers : OfCustomer(c) \in SUBSET Rows /\ Limited(OfCustomer(c))
      /\ \A p \in Phones : OfPhone(p) \in SUBSET Rows /\ Limited(OfPhone(p))
  BY DEF LimitInv, OfCustomer, OfPhone
<1>2. /\ \A c \in Customers : Bounded(OfCustomer(c), exempt', Times', Costs')
      /\ \A p \in Phones : Bounded(OfPhone(p), exempt', Times', Costs')
  BY <1>1, GroupStays
<1>3. SUFFICES /\ \A c \in Customers : Bounded(OfCustomer(c)', exempt', Times', Costs')
               /\ \A p \in Phones : Bounded(OfPhone(p)', exempt', Times', Costs')
  BY DEF Limited
<1>4. CASE Rows' = Rows
  BY <1>2, <1>4, GroupsKeep
<1>5. ASSUME NEW r \in Requests, Inserted(r)
      PROVE  /\ \A c \in Customers : Bounded(OfCustomer(c)', exempt', Times', Costs')
             /\ \A p \in Phones : Bounded(OfPhone(p)', exempt', Times', Costs')
  <2>1. RoomFor(r, OfCustomer(Payer(r))) /\ RoomFor(r, OfPhone(Number(r)))
    BY <1>5 DEF LimitInv, Inserted, Insert
  <2>2. Payer(r) \in Customers /\ Number(r) \in Phones
    BY <1>5, HoldersFacts DEF Inserted, Insert
  <2>3. /\ Bounded(OfCustomer(Payer(r)) \cup {Owner(r)}, exempt', Times', Costs')
        /\ Bounded(OfPhone(Number(r)) \cup {Owner(r)}, exempt', Times', Costs')
    BY <1>1, <1>5, <2>1, <2>2, GroupTakesOne
  <2> QED BY <1>2, <1>5, <2>3, GroupsGrow
<1> QED BY <1>4, <1>5, InsertedOrNot DEF NoneInserted

\* A request that gets both locks has been let through.
LEMMA LockedHasRoom ==
  ASSUME TypeInv, RowInv, [Next]_vars, NEW r \in Requests, LockPhone(r), work'[r].at = "insert"
  PROVE  RoomFor(r, OfCustomer(Payer(r))) /\ RoomFor(r, OfPhone(Number(r))) /\ Rows' = Rows
<1> DEFINE q == quote[work[r].quote]
           spared == {o \in Rows : o[1] = q.customer /\ attemptExempt(o)}
<1>1. ~Finish(r)
  <2>1. Finish(r) => work'[r].at = "idle"
    BY FinishFacts, IdleFacts
  <2> QED BY <2>1
<1>2. /\ assertPurchaseLimits(q.total, {o \in Rows : PhoneOf(o) = q.phone}, spared, work[r].time)
      /\ assertPurchaseLimits(q.total, {o \in Rows : o[1] = q.customer}, spared, work[r].time)
  BY <1>1 DEF LockPhone
<1>3. spared \in SUBSET exempt
  BY DEF attemptExempt
<1>4. /\ work[r].at = "phone" /\ WorkFits(r) /\ row' = row
  BY DEF LockPhone, TypeInv, records
<1>5. work[r].time \in Int /\ q \in QuoteType
  BY <1>4 DEF WorkFits, WorkRecord, TypeInv
<1>6. q.total \in Nat
  BY <1>5, NumbersFacts DEF QuoteType
<1>7. /\ OfPhone(Number(r)) = {o \in Rows : PhoneOf(o) = q.phone}
      /\ OfCustomer(Payer(r)) = {o \in Rows : o[1] = q.customer}
      /\ OfPhone(Number(r)) \in SUBSET Rows /\ OfCustomer(Payer(r)) \in SUBSET Rows
  BY DEF OfPhone, OfCustomer, Number, Payer
<1>8. Rows' = Rows
  BY <1>4 DEF Rows
<1> HIDE DEF spared
<1>9. Room(OfPhone(Number(r)), exempt, Times, Costs, work[r].time, q.total)
  BY <1>2, <1>3, <1>5, <1>6, <1>7, PolicyLeavesRoom
<1>10. Room(OfCustomer(Payer(r)), exempt, Times, Costs, work[r].time, q.total)
  BY <1>2, <1>3, <1>5, <1>6, <1>7, PolicyLeavesRoom
<1> QED BY <1>8, <1>9, <1>10 DEF RoomFor

\* A request that held both locks, or has just got them.
LEMMA RoomBefore ==
  ASSUME TypeInv, RowInv, LimitInv, [Next]_vars, NEW r \in Requests, work'[r].at = "insert"
  PROVE  /\ RoomFor(r, OfCustomer(Payer(r))) /\ RoomFor(r, OfPhone(Number(r)))
         /\ Keeps(r) /\ work'[r].time = work[r].time
         /\ WorkFits(r) /\ work[r].at # "idle"
         /\ \A c \in Customers : c = Payer(r) => OfCustomer(c)' = OfCustomer(c)
         /\ \A p \in Phones : p = Number(r) => OfPhone(p)' = OfPhone(p)
<1> DEFINE Same == /\ \A c \in Customers : c = Payer(r) => OfCustomer(c)' = OfCustomer(c)
                   /\ \A p \in Phones : p = Number(r) => OfPhone(p)' = OfPhone(p)
<1>0. WorkFits(r) /\ (Rows' = Rows => Same)
  BY GroupsKeep DEF TypeInv
<1>1. CASE Own(r)
  <2>1. Advance(r)
    BY <1>1, OwnAdvances
  <2>2. Keeps(r) /\ work[r].at = "phone" /\ work'[r].time = work[r].time /\ LockPhone(r)
    BY <2>1, IdleFacts DEF Advance
  <2> QED BY <1>0, <2>2, LockedHasRoom
<1>2. ASSUME NEW g \in Requests, Own(g), g # r
      PROVE  /\ work'[r] = work[r] /\ work[r].at = "insert" /\ Same
  <2>1. work'[r] = work[r] /\ work[r].at = "insert"
    BY <1>2, OwnAdvances
  <2>2. CASE NoneInserted
    BY <1>0, <2>1, <2>2 DEF NoneInserted
  <2>3. ASSUME NEW h \in Requests, Inserted(h) PROVE Same
    <3>1. h # r
      <4>1. Inserted(h) => work'[h].at = "idle"
        BY FinishFacts, IdleFacts DEF Inserted, Insert
      <4> QED BY <2>3, <4>1
    <3>2. Payer(h) # Payer(r) /\ Number(h) # Number(r)
      BY <2>1, <2>3, <3>1, HoldersFacts DEF Inserted, Insert
    <3> QED BY <2>3, <3>2, GroupsGrow
  <2> QED BY <2>1, <2>2, <2>3, InsertedOrNot
<1>4. work'[r] = work[r] /\ work[r].at = "insert" /\ Same => 
      /\ RoomFor(r, OfCustomer(Payer(r))) /\ RoomFor(r, OfPhone(Number(r)))
      /\ Keeps(r) /\ work'[r].time = work[r].time /\ work[r].at # "idle"
  BY DEF LimitInv, Keeps
<1>5. (work'[r] = work[r] /\ work[r].at = "insert" /\ Same) \/ Own(r)
  <2>1. ASSUME \A g \in Requests : ~Own(g) PROVE work'[r] = work[r] /\ work[r].at = "insert" /\ Same
    <3>1. work' = work
      BY <2>1, OnlyOwn
    <3>2. ~ \E h \in Requests : Inserted(h)
      BY <2>1 DEF Inserted, Own
    <3> QED BY <1>0, <3>1, <3>2, InsertedOrNot DEF NoneInserted
  <2> HIDE DEF Same
  <2> QED BY <1>2, <2>1
<1> QED BY <1>0, <1>1, <1>4, <1>5

LEMMA NextLimits == ASSUME TypeInv, RowInv, LimitInv, [Next]_vars PROVE LimitInv'
<1>1. ASSUME NEW r \in Requests, work'[r].at = "insert"
      PROVE  RoomFor(r, OfCustomer(Payer(r)))' /\ RoomFor(r, OfPhone(Number(r)))'
  <2> DEFINE c == Payer(r)
             p == Number(r)
             time == work[r].time
             total == quote[work[r].quote].total
  <2>1. /\ RoomFor(r, OfCustomer(Payer(r))) /\ RoomFor(r, OfPhone(Number(r)))
        /\ Keeps(r) /\ work'[r].time = work[r].time
        /\ WorkFits(r) /\ work[r].at # "idle"
        /\ \A z \in Customers : z = Payer(r) => OfCustomer(z)' = OfCustomer(z)
        /\ \A z \in Phones : z = Number(r) => OfPhone(z)' = OfPhone(z)
    BY <1>1, RoomBefore
  <2>2. work[r].quote \in Quotes /\ quote[work[r].quote] # NoQuote /\ time \in Int
    BY <2>1 DEF WorkFits, WorkRecord
  <2>3. quote[work[r].quote] \in QuoteType
    BY <2>2 DEF TypeInv
  <2>4. c \in Customers /\ p \in Phones
    BY <2>3 DEF Payer, Number, QuoteType
  <2>5. /\ quote'[work'[r].quote].total = total /\ quote'[work'[r].quote].customer = c
        /\ quote'[work'[r].quote].phone = p
    BY <2>1, <2>2, NextQuotesStay DEF QuotesStay, Keeps, Payer, Number
  <2>6. Room(OfCustomer(c), exempt, Times, Costs, time, total) /\ Room(OfPhone(p), exempt, Times, Costs, time, total)
    BY <2>1 DEF RoomFor
  <2>7. OfCustomer(c) \in SUBSET Rows /\ OfPhone(p) \in SUBSET Rows
    BY DEF OfCustomer, OfPhone
  <2> HIDE DEF c, p, time, total
  <2>8. Room(OfCustomer(c), exempt', Times', Costs', time, total) /\ Room(OfPhone(p), exempt', Times', Costs', time, total)
    BY <2>2, <2>6, <2>7, GroupRoomStays
  <2>9. \A z \in Customers : z = c => Room(OfCustomer(z)', exempt', Times', Costs', time, total)
    BY <2>1, <2>8 DEF c
  <2>10. \A z \in Phones : z = p => Room(OfPhone(z)', exempt', Times', Costs', time, total)
    BY <2>1, <2>8 DEF p
  <2>11. \A z \in Customers : z = quote'[work'[r].quote].customer =>
           Room(OfCustomer(z)', exempt', Times', Costs', work'[r].time, quote'[work'[r].quote].total)
    BY <2>1, <2>5, <2>9 DEF time
  <2>12. \A z \in Phones : z = quote'[work'[r].quote].phone =>
           Room(OfPhone(z)', exempt', Times', Costs', work'[r].time, quote'[work'[r].quote].total)
    BY <2>1, <2>5, <2>10 DEF time
  <2> QED BY <2>4, <2>5, <2>11, <2>12 DEF RoomFor, Payer, Number, OfCustomer, OfPhone
<1> QED BY <1>1, LimitsStay DEF LimitInv

---------------------------------------------------------------------------
(* The theorems. *)

LEMMA InitLimits == Init => LimitInv
<1> SUFFICES ASSUME Init PROVE LimitInv
  OBVIOUS
<1>1. Rows = {}
  BY DEF Init, Rows
<1>2. \A t : Span({}, Times, t, Day) = {} /\ Span({} \ exempt, Times, t, 1) = {}
             /\ Span({} \ exempt, Times, t, Day) = {}
  BY DEF Span
<1>3. SumOver(Costs, {}) = 0 /\ Cardinality({}) = 0
  BY SumEmpty, FS_EmptySet
<1>4. Limited({})
  BY <1>2, <1>3, NumbersFacts DEF Limited, Bounded
<1>5. \A r \in Requests : work[r].at # "insert"
  BY IdleFacts DEF Init
<1>6. \A c : OfCustomer(c) = {} /\ OfPhone(c) = {}
  BY <1>1 DEF OfCustomer, OfPhone
<1> QED BY <1>4, <1>5, <1>6 DEF LimitInv

LEMMA LimitsFollow ==
  ASSUME TypeInv, RowInv, LimitInv
  PROVE  AttemptsBounded /\ SpendingBounded
<1>1. ASSUME NEW G \in Groups
      PROVE  Limited(G) /\ G \in SUBSET Rows
  <2>1. (\E c \in Customers : G = OfCustomer(c)) \/ \E p \in Phones : G = OfPhone(p)
    BY DEF Groups, OfCustomer, OfPhone
  <2> QED BY <2>1 DEF LimitInv, OfCustomer, OfPhone
<1> SUFFICES ASSUME NEW G \in Groups, NEW t \in 0..Horizon
             PROVE  /\ Cardinality(Within(G \ exempt, t, 1)) <= PerHour
                    /\ Cardinality(Within(G \ exempt, t, Day)) <= PerDay
                    /\ MapThenSumSet(TotalOf, Within(G, t, Day)) <= DayTotal
  BY DEF AttemptsBounded, SpendingBounded
<1>2. Bounded(G, exempt, Times, Costs) /\ G \in SUBSET Rows /\ t \in Int
  BY <1>1 DEF Limited
<1>3. /\ Within(G \ exempt, t, 1) = Span(G \ exempt, Times, t, 1)
      /\ Within(G \ exempt, t, Day) = Span(G \ exempt, Times, t, Day)
      /\ Within(G, t, Day) = Span(G, Times, t, Day)
      /\ Within(G, t, Day) \in SUBSET Rows
  BY <1>2, RowFacts DEF Within, Span
<1>4. MapThenSumSet(TotalOf, Within(G, t, Day)) = SumOver(Costs, Within(G, t, Day))
  BY <1>3, CostsAreSummed
<1>5. /\ SumOver(Costs, Span(G, Times, t, Day)) <= DayTotal
      /\ Cardinality(Span(G \ exempt, Times, t, 1)) <= PerHour
      /\ Cardinality(Span(G \ exempt, Times, t, Day)) <= PerDay
  BY <1>2 DEF Bounded
<1> QED BY <1>3, <1>4, <1>5

(* PurchaseLimitsHold for every limit, day, number of requests and delay:  *)
(* the locks of the customer and of the number make assertPurchaseLimits   *)
(* bind what is inserted, of what staff did not take out, and no row is    *)
(* taken out whose payment is awaited.  A failed payment may be captured   *)
(* late at any time.                                                       *)
THEOREM LimitsBindEveryPurchase == Spec => []PurchaseLimitsHold
<1> DEFINE Inv == TypeInv /\ RowInv /\ NoneInFlight /\ LimitInv
<1>1. Init => Inv
  BY InitHolds, InitLimits
<1>2. Inv /\ [Next]_vars => Inv'
  BY NextType, NextRow, NextExempt, NextLimits
<1>3. TypeInv => TypeOK
  BY DEF TypeInv, TypeOK, QuoteType, RowType, Status, Payment
<1>4. Inv => PurchaseLimitsHold
  BY <1>3, LimitsFollow DEF PurchaseLimitsHold, NoneInFlight, ResetSparesInFlight
<1> HIDE DEF Inv
<1> QED BY <1>1, <1>2, <1>4, PTL DEF Spec

---------------------------------------------------------------------------
(* The public identifiers of operators.                                    *)

LEMMA SlotsOfNames == \A n \in Names : slot[n] \in 0..2
BY DEF slot, Names

LEMMA NamesAreTheirSlots == \A n, m \in Names : slot[n] = slot[m] => n = m
BY DEF slot, Names

\* Three slots fit the column.
LEMMA SlotsFit ==
  SLOT_SIZE \in Nat /\ SLOT_SIZE > 0 /\ LargestStored \in Nat /\ 3 * SLOT_SIZE <= LargestStored
BY SMT DEF SLOT_SIZE, LargestStored

\* What was put together is taken apart again.
LEMMA SlotsDivide ==
  ASSUME NEW k \in 0..2, NEW rawId \in LocalIds
  PROVE  /\ k * SLOT_SIZE + rawId \in 1..LargestStored
         /\ (k * SLOT_SIZE + rawId) \div SLOT_SIZE = k
         /\ (k * SLOT_SIZE + rawId) % SLOT_SIZE = rawId
<1>1. rawId \in 1..(SLOT_SIZE - 1)
  BY DEF LocalIds
<1>2. CASE k = 0
  BY <1>1, <1>2, SlotsFit
<1>3. CASE k = 1
  BY <1>1, <1>3, SlotsFit
<1>4. CASE k = 2
  BY <1>1, <1>4, SlotsFit
<1> QED BY <1>2, <1>3, <1>4

(* encodeOperatorId: every identifier of every provider has a public one,  *)
(* which the 32-bit column holds.                                          *)
THEOREM EveryOperatorIsNamed ==
  ASSUME NEW n \in Names, NEW rawId \in LocalIds
  PROVE  /\ encodeOperatorId(n, rawId) = slot[n] * SLOT_SIZE + rawId
         /\ encodeOperatorId(n, rawId) \in 1..LargestStored
<1>1. slot[n] * SLOT_SIZE + rawId \in 1..LargestStored
  BY SlotsOfNames, SlotsDivide
<1> QED BY <1>1, SlotsFit DEF encodeOperatorId, LocalIds

(* decodeOperatorId takes a public identifier back to the provider it was  *)
(* made for, and to the identifier there.                                  *)
THEOREM OwnersAreFound ==
  ASSUME NEW n \in Names, NEW rawId \in LocalIds
  PROVE  decodeOperatorId(encodeOperatorId(n, rawId)) = [provider |-> n, rawId |-> rawId]
<1> DEFINE id == encodeOperatorId(n, rawId)
           owners == {m \in Names : id \div SLOT_SIZE = slot[m]
                                    /\ encodeOperatorId(m, id % SLOT_SIZE) = id}
<1>1. id = slot[n] * SLOT_SIZE + rawId
  BY EveryOperatorIsNamed
<1>2. id \div SLOT_SIZE = slot[n] /\ id % SLOT_SIZE = rawId
  BY <1>1, SlotsOfNames, SlotsDivide
<1>3. owners = {n}
  BY <1>2, NamesAreTheirSlots
<1>4. (CHOOSE m \in owners : TRUE) = n
  BY <1>3
<1> QED BY <1>2, <1>3, <1>4 DEF decodeOperatorId

(* No two operators share a public identifier, whoever their providers     *)
(* are.                                                                    *)
THEOREM NoOperatorIsConfused ==
  ASSUME NEW n \in Names, NEW m \in Names, NEW i \in LocalIds, NEW j \in LocalIds,
         encodeOperatorId(n, i) = encodeOperatorId(m, j)
  PROVE  n = m /\ i = j
<1>1. [provider |-> n, rawId |-> i] = [provider |-> m, rawId |-> j]
  BY OwnersAreFound
<1> QED BY <1>1

---------------------------------------------------------------------------
(* The adapters.                                                           *)

---------------------------------------------------------------------------
(* The inductive invariant.                                                *)

States == {"going", "done", "failed"}

Statuses == {"DELIVERED", "FAILED", "REFUNDED", "PROCESSING", "PENDING", "unknown"}

Caller == [at : {"idle", "joined", "lookUp", "choose", "send", "recheck", "answered"},
           answer : Statuses \cup {"none", "absent", "rejected"}]

TypesHold ==
  /\ provider \in Providers /\ operatorId \in Int
  /\ transfers \in Seq(States) /\ listed \in 0..Len(transfers)
  /\ asked \in {"no", "here", "before"}
  /\ attempted \in BOOLEAN
  /\ leader = "none" \/ leader \in Callers
  /\ calls \in [Callers -> Caller]

Busy(c) == calls[c].at \in {"lookUp", "choose", "send", "recheck"}

OthersHold ==
  /\ token \in {"none", "good", "revoked"} /\ offered \in BOOLEAN
  /\ told \in {"nothing", "rejected", "unknown", "reference"}

(* One caller submits at a time, and only in the process that was asked;   *)
(* those that joined wait for it.                                          *)
OneLeader ==
  /\ \A c \in Callers : Busy(c) => leader = c
  /\ leader # "none" => asked = "here" /\ told # "rejected"
  /\ asked = "no" => told = "nothing"

(* Nothing was made before it is chosen and sent, and what was made is     *)
(* remembered: by the service, and by Ding's adapter within the process.   *)
MadeIsRemembered ==
  /\ OneTransfer /\ NothingRejectedIsSent
  /\ asked = "no" => transfers = <<>>
  /\ transfers # <<>> => attempted \/ provider # "DING" \/ asked = "before"
  /\ \A c \in Callers :
       /\ calls[c].at \in {"choose", "send"} => transfers = <<>>
       /\ calls[c].at = "send" /\ provider = "DING" => attempted
       /\ calls[c].at \in {"lookUp", "recheck"} => provider = "DING"

(* Reloadly and DT One tell of nothing that was not made.                  *)
ToldIsMade == told = "reference" /\ provider # "DING" => transfers # <<>>

(* What is told of a transfer was read of the only one.                    *)
Tells(answer) ==
  /\ answer = "DELIVERED" => Len(transfers) = 1 /\ transfers[1] = "done"
  /\ answer \in {"FAILED", "REFUNDED"} => Len(transfers) = 1 /\ transfers[1] = "failed"

AnswersTell == \A c \in Callers : Tells(calls[c].answer)

IInv ==
  TypesHold /\ OneLeader /\ MadeIsRemembered /\ ToldIsMade /\ AnswersTell /\ OperatorsHaveOneOwner

---------------------------------------------------------------------------
(* Answers. *)

\* Only a transfer that was made is read as delivered, and only one that failed as
\* failed or refunded, whatever word the provider says it with.
LEMMA ReadingsTell ==
  ASSUME provider \in Names, NEW s \in States, NEW r \in Readings(s)
  PROVE  /\ r \in Statuses
         /\ r = "DELIVERED" => s = "done"
         /\ r \in {"FAILED", "REFUNDED"} => s = "failed"
<1>1. PICK w \in Words(s) : r = Read(w)
  BY DEF Readings
<1>2. CASE provider = "RELOADLY"
  <2>1. Read(w) = mapTopUp(w)
    BY <1>2 DEF Read
  <2>2. CASE s = "going"
    <3>1. w \in {"PROCESSING", "NEW"}
      BY <1>1, <1>2, <2>2 DEF Words
    <3> QED BY <1>1, <2>1, <2>2, <3>1 DEF mapTopUp, mapStatus, Statuses
  <2>3. CASE s = "done"
    <3>1. w \in {"SUCCESSFUL"}
      BY <1>1, <1>2, <2>3 DEF Words
    <3> QED BY <1>1, <2>1, <2>3, <3>1 DEF mapTopUp, mapStatus, Statuses
  <2>4. CASE s = "failed"
    <3>1. w \in {"FAILED", "REFUNDED"}
      BY <1>1, <1>2, <2>4 DEF Words
    <3> QED BY <1>1, <2>1, <2>4, <3>1 DEF mapTopUp, mapStatus, Statuses
  <2> QED BY <2>2, <2>3, <2>4 DEF States
<1>3. CASE provider = "DTONE"
  <2>1. Read(w) = transaction(w)
    BY <1>3 DEF Read
  <2>2. CASE s = "going"
    <3>1. w \in {"CREATED", "SUBMITTED", "HELD"}
      BY <1>1, <1>3, <2>2 DEF Words
    <3> QED BY <1>1, <2>1, <2>2, <3>1 DEF transaction, mapStatus, Statuses
  <2>3. CASE s = "done"
    <3>1. w \in {"COMPLETED"}
      BY <1>1, <1>3, <2>3 DEF Words
    <3> QED BY <1>1, <2>1, <2>3, <3>1 DEF transaction, mapStatus, Statuses
  <2>4. CASE s = "failed"
    <3>1. w \in {"DECLINED", "REVERSED"}
      BY <1>1, <1>3, <2>4 DEF Words
    <3> QED BY <1>1, <2>1, <2>4, <3>1 DEF transaction, mapStatus, Statuses
  <2> QED BY <2>2, <2>3, <2>4 DEF States
<1>4. CASE provider = "DING"
  <2>1. Read(w) = transfer(w)
    BY <1>4 DEF Read
  <2>2. CASE s = "going"
    <3>1. w \in {"Submitted", "Cancelling", "Queued"}
      BY <1>1, <1>4, <2>2 DEF Words
    <3> QED BY <1>1, <2>1, <2>2, <3>1 DEF transfer, mapStatus, Statuses
  <2>3. CASE s = "done"
    <3>1. w \in {"Complete"}
      BY <1>1, <1>4, <2>3 DEF Words
    <3> QED BY <1>1, <2>1, <2>3, <3>1 DEF transfer, mapStatus, Statuses
  <2>4. CASE s = "failed"
    <3>1. w \in {"Failed", "Cancelled"}
      BY <1>1, <1>4, <2>4 DEF Words
    <3> QED BY <1>1, <2>1, <2>4, <3>1 DEF transfer, mapStatus, Statuses
  <2> QED BY <2>2, <2>3, <2>4 DEF States
<1> QED BY <1>2, <1>3, <1>4 DEF Names

\* The quote is of one of the three providers.
LEMMA ProviderIsKnown == IInv /\ WellNamed => provider \in Names
BY DEF IInv, TypesHold, WellNamed

\* The first transfer made is the only one.
LEMMA FirstTransfer == Len(<<"going">>) = 1 /\ <<"going">> \in Seq(States) /\ Len(<<>>) = 0
<1>1. "going" \in States
  BY DEF States
<1> QED BY <1>1

\* There is one transfer, or none.
LEMMA TransferIsOne ==
  ASSUME IInv
  PROVE  IF transfers = <<>> THEN Len(transfers) = 0
         ELSE Len(transfers) = 1 /\ transfers[1] \in States
<1>1. transfers \in Seq(States) /\ Len(transfers) \in Nat /\ Len(transfers) <= 1
  BY DEF IInv, TypesHold, MadeIsRemembered, OneTransfer
<1>2. transfers # <<>> => Len(transfers) \in Nat \ {0}
  BY <1>1, EmptySeq
<1>3. CASE transfers = <<>>
  BY <1>3, FirstTransfer
<1>4. CASE transfers # <<>>
  BY <1>1, <1>2, <1>4
<1> QED BY <1>3, <1>4

\* What is found in the listings tells of the transfer, and is no rejection.
LEMMA FoundTells ==
  ASSUME IInv, WellNamed, NEW found \in Found
  PROVE  found \in Statuses \cup {"absent"} /\ Tells(found)
<1>1. CASE listed = 0
  BY <1>1 DEF Found, Tells
<1>2. CASE listed = 1
  <2>1. PICK state \in pages : found \in Readings(state)
    BY <1>2 DEF Found
  <2>2. Len(transfers) >= 1 /\ state = transfers[1]
    BY <1>2, <2>1 DEF pages, IInv, TypesHold
  <2>3. Len(transfers) = 1 /\ state = transfers[1] /\ state \in States
    BY <2>2, TransferIsOne
  <2> QED BY <2>1, <2>3, ReadingsTell, ProviderIsKnown DEF Tells
<1>3. CASE listed \notin {0, 1}
  BY <1>3 DEF Found, Tells, Statuses
<1> QED BY <1>1, <1>2, <1>3

\* What Reloadly, DT One or Ding accepts is under way.
LEMMA AcceptedTells ==
  ASSUME IInv, WellNamed, NEW answer \in Accepted
  PROVE  answer \in Statuses \ {"DELIVERED", "FAILED", "REFUNDED"}
<1>1. \A r \in Readings("going") : r \in Statuses \ {"DELIVERED", "FAILED", "REFUNDED"}
  BY ReadingsTell, ProviderIsKnown DEF States
<1> QED BY <1>1 DEF Accepted, Statuses

\* An error is known or unknown to have sent nothing.
LEMMA ErrorIsOne == \A http : Error(http) \in {"unknown", "rejected"}
                    \/ provider \notin {"RELOADLY", "DTONE", "DING"}
BY DEF Error, reloadlyError, dtOneError, dingError

---------------------------------------------------------------------------
(* Steps. *)

(* The end of a submission: what is told is true, and a rejection comes    *)
(* before anything was made.                                               *)
LEMMA SubmittedKeeps ==
  ASSUME IInv, WellNamed, NEW c \in Callers, Busy(c), NEW answer, Submitted(c, answer),
         answer \in Statuses \cup {"rejected"}, Tells(answer)',
         answer = "rejected" => transfers' = <<>>,
         answer \notin {"rejected", "unknown"} /\ provider # "DING" => transfers' # <<>>,
         UNCHANGED <<provider, operatorId, offered, asked>>,
         attempted' \in BOOLEAN, attempted => attempted',
         listed' \in 0..Len(transfers'),
         transfers' = transfers
         \/ (transfers = <<>> /\ transfers' = <<"going">> /\ (provider = "DING" => attempted))
  PROVE  IInv'
<1>1. leader = c /\ leader # "none" /\ leader' = "none"
  BY DEF IInv, OneLeader, Submitted, WellNamed
<1>2. /\ calls' \in [Callers -> Caller]
      /\ \A d \in Callers : IF d = c \/ calls[d].at = "joined"
                            THEN calls'[d] = [at |-> "answered", answer |-> answer]
                            ELSE calls'[d] = calls[d]
  BY DEF Submitted, IInv, TypesHold, Caller
<1>3. \A d \in Callers : calls'[d].at \notin {"joined", "lookUp", "choose", "send", "recheck"}
  BY <1>1, <1>2 DEF IInv, OneLeader, Busy
<1>4. told' = "rejected" => told = "rejected" \/ answer = "rejected"
  BY DEF Submitted, Statuses
<1>5. TypesHold'
  <2>1. transfers' \in Seq(States)
    BY FirstTransfer DEF IInv, TypesHold
  <2> QED BY <1>1, <1>2, <2>1 DEF IInv, TypesHold
<1>6. OneLeader'
  <2>1. asked' = "here"
    BY <1>1 DEF IInv, OneLeader, TypesHold
  <2> QED BY <1>1, <1>3, <2>1 DEF OneLeader, Busy
<1>7. asked = "here" /\ told # "rejected"
  BY <1>1 DEF IInv, OneLeader, TypesHold
<1>8. MadeIsRemembered'
  <2>1. Len(transfers') <= 1
    <3>1. CASE transfers' = transfers
      BY <3>1 DEF IInv, MadeIsRemembered, OneTransfer
    <3>2. CASE transfers' = <<"going">>
      BY <3>2, FirstTransfer
    <3> QED BY <3>1, <3>2
  <2> QED BY <1>3, <1>4, <1>7, <2>1 DEF IInv, MadeIsRemembered, OneTransfer, NothingRejectedIsSent
<1>9. AnswersTell'
  <2>1. ASSUME NEW d \in Callers, Tells(calls[d].answer) PROVE Tells(calls[d].answer)' \/ calls'[d] # calls[d]
    BY <2>1 DEF Tells
  <2> QED BY <1>2, <2>1 DEF IInv, AnswersTell, Tells
<1>10. OperatorsHaveOneOwner'
  BY DEF IInv, OperatorsHaveOneOwner
<1>11. told' = "reference" => told = "reference" \/ answer \notin {"rejected", "unknown"}
  BY DEF Submitted
<1>12. ToldIsMade'
  <2>1. transfers # <<>> => transfers' # <<>>
    BY FirstTransfer
  <2> QED BY <1>11, <2>1 DEF IInv, ToldIsMade
<1> QED BY <1>5, <1>6, <1>8, <1>9, <1>10, <1>12 DEF IInv

\* A step that leaves what was made and who is busy.
LEMMA QuietKeeps ==
  ASSUME IInv, UNCHANGED <<provider, operatorId, transfers, attempted, leader, asked, calls>>,
         listed' \in 0..Len(transfers),
         UNCHANGED told
  PROVE  IInv'
<1>1. TypesHold' /\ OneLeader'
  BY DEF IInv, TypesHold, OneLeader, Busy
<1>2. MadeIsRemembered'
  BY DEF IInv, MadeIsRemembered, OneTransfer, NothingRejectedIsSent
<1>3. AnswersTell' /\ ToldIsMade' /\ OperatorsHaveOneOwner'
  BY DEF IInv, AnswersTell, Tells, ToldIsMade, OperatorsHaveOneOwner
<1> QED BY <1>1, <1>2, <1>3 DEF IInv

\* The provider settles the transfer.
LEMMA SettleKeeps ==
  ASSUME IInv, Settle
  PROVE  IInv'
<1>1. PICK i \in DOMAIN transfers, s \in {"done", "failed"} :
        transfers[i] = "going" /\ transfers' = [transfers EXCEPT ![i] = s]
  BY DEF Settle
<1>2. transfers \in Seq(States) /\ Len(transfers) = 1 /\ i = 1
  BY <1>1, TransferIsOne DEF IInv, TypesHold
<1>3. transfers' \in Seq(States) /\ Len(transfers') = 1
  BY <1>1, <1>2 DEF States
<1>4. TypesHold' /\ OneLeader'
  BY <1>2, <1>3 DEF Settle, IInv, TypesHold, OneLeader, Busy
<1>5. transfers # <<>> /\ transfers' # <<>>
  BY <1>2, <1>3, FirstTransfer
<1>6. MadeIsRemembered'
  BY <1>3, <1>5 DEF Settle, IInv, MadeIsRemembered, OneTransfer, NothingRejectedIsSent
<1>7. AnswersTell'
  BY <1>1, <1>2 DEF Settle, IInv, AnswersTell, Tells
<1> QED BY <1>4, <1>5, <1>6, <1>7 DEF Settle, IInv, ToldIsMade, OperatorsHaveOneOwner

\* The listings, the catalogue and the token change.
LEMMA MarketKeeps ==
  ASSUME IInv, List \/ ChangeProduct \/ LoseToken
  PROVE  IInv'
<1>1. listed' \in 0..Len(transfers)
  BY DEF IInv, TypesHold, List, ChangeProduct, LoseToken, market
<1> QED BY <1>1, QuietKeeps DEF List, ChangeProduct, LoseToken, market

\* A caller goes where nobody else is.
LEMMA GotoWorks ==
  ASSUME IInv, NEW c \in Callers,
         NEW at \in {"joined", "lookUp", "choose", "send", "recheck"}, PGoto(c, at)
  PROVE  /\ calls' \in [Callers -> Caller] /\ calls'[c].at = at /\ calls'[c].answer = calls[c].answer
         /\ \A d \in Callers \ {c} : calls'[d] = calls[d]
BY DEF IInv, TypesHold, Caller, PGoto

\* The service asks, or joins a caller that did.
LEMMA SubmitKeeps ==
  ASSUME IInv, WellNamed, NEW c \in Callers, submitTopUp(c)
  PROVE  IInv'
<1>1. /\ asked' = "here" /\ told # "rejected" /\ calls[c].at = "idle"
      /\ asked = "no" \/ (provider = "DING" /\ asked = "here")
      /\ UNCHANGED <<provider, operatorId, transfers, listed, attempted, told>>
  BY DEF submitTopUp, PIdle, IInv, TypesHold, OneLeader, market
<1>2. TypesHold'
  <2>1. calls' \in [Callers -> Caller]
    BY GotoWorks DEF submitTopUp
  <2> QED BY <1>1, <2>1 DEF submitTopUp, IInv, TypesHold
<1>3. \A d \in Callers \ {c} : calls'[d] = calls[d]
  BY GotoWorks DEF submitTopUp
<1>4. OneLeader' /\ MadeIsRemembered'
  <2>1. CASE PGoto(c, "joined") /\ UNCHANGED leader
    <3>1. calls'[c].at = "joined"
      BY <2>1, GotoWorks
    <3>2. OneLeader'
      BY <1>1, <1>3, <2>1, <3>1 DEF IInv, OneLeader, Busy
    <3>3. MadeIsRemembered'
      BY <1>1, <1>3, <3>1 DEF IInv, MadeIsRemembered, OneTransfer, NothingRejectedIsSent
    <3> QED BY <3>2, <3>3
  <2>2. CASE leader = "none" /\ leader' = c /\ PGoto(c, IF provider = "DING" THEN "lookUp" ELSE "choose")
    <3>1. calls'[c].at = IF provider = "DING" THEN "lookUp" ELSE "choose"
      BY <2>2, GotoWorks
    <3>2. \A d \in Callers : ~Busy(d)
      BY <2>2 DEF IInv, OneLeader, WellNamed
    <3>3. OneLeader'
      BY <1>1, <1>3, <2>2, <3>2 DEF OneLeader, Busy
    <3>4. MadeIsRemembered'
      BY <1>1, <1>3, <3>1 DEF IInv, MadeIsRemembered, OneTransfer, NothingRejectedIsSent
    <3> QED BY <3>3, <3>4
  <2> QED BY <2>1, <2>2 DEF submitTopUp
<1>5. AnswersTell'
  <2>1. calls'[c].answer = calls[c].answer
    BY GotoWorks DEF submitTopUp
  <2> QED BY <1>1, <1>3, <2>1 DEF IInv, AnswersTell, Tells
<1> QED BY <1>1, <1>2, <1>4, <1>5 DEF IInv, ToldIsMade, OperatorsHaveOneOwner

\* The caller that submits goes one step further.
LEMMA FurtherKeeps ==
  ASSUME IInv, WellNamed, NEW c \in Callers, Busy(c), NEW at \in {"choose", "send", "recheck"}, PGoto(c, at),
         UNCHANGED <<provider, operatorId, asked, leader, told>>,
         attempted' \in BOOLEAN, attempted => attempted', listed' \in 0..Len(transfers'),
         transfers' = transfers
         \/ (transfers = <<>> /\ transfers' = <<"going">> /\ (provider = "DING" => attempted)),
         at # "recheck" => transfers' = <<>>,
         at = "send" /\ provider = "DING" => attempted',
         at = "recheck" => provider = "DING"
  PROVE  IInv'
<1>1. /\ calls' \in [Callers -> Caller] /\ calls'[c].at = at /\ calls'[c].answer = calls[c].answer
      /\ \A d \in Callers \ {c} : calls'[d] = calls[d]
  BY GotoWorks
<1>2. leader = c /\ \A d \in Callers \ {c} : ~Busy(d)
  BY DEF IInv, OneLeader
<1>3. transfers' \in Seq(States) /\ Len(transfers') <= 1
  <2>1. CASE transfers' = transfers
    BY <2>1 DEF IInv, TypesHold, MadeIsRemembered, OneTransfer
  <2>2. CASE transfers' = <<"going">>
    BY <2>2, FirstTransfer
  <2> QED BY <2>1, <2>2
<1>4. TypesHold'
  BY <1>1, <1>3 DEF IInv, TypesHold
<1>5. OneLeader'
  BY <1>1, <1>2 DEF IInv, OneLeader, Busy
<1>6. asked = "here" /\ told # "rejected"
  BY <1>2 DEF IInv, OneLeader, WellNamed
<1>7. MadeIsRemembered'
  BY <1>1, <1>2, <1>3, <1>6 DEF IInv, MadeIsRemembered, OneTransfer, NothingRejectedIsSent, Busy
<1>8. AnswersTell'
  <2>1. \A d \in Callers : calls'[d].answer = calls[d].answer
    BY <1>1
  <2>2. CASE transfers' = transfers
    BY <2>1, <2>2 DEF IInv, AnswersTell, Tells
  <2>3. CASE transfers = <<>>
    <3>1. \A d \in Callers : calls[d].answer \notin {"DELIVERED", "FAILED", "REFUNDED"}
      BY <2>3, FirstTransfer DEF IInv, AnswersTell, Tells
    <3> QED BY <2>1, <3>1 DEF AnswersTell, Tells
  <2> QED BY <2>2, <2>3
<1>9. ToldIsMade'
  <2>1. transfers # <<>> => transfers' # <<>>
    BY FirstTransfer
  <2> QED BY <2>1 DEF IInv, ToldIsMade
<1> QED BY <1>4, <1>5, <1>7, <1>8, <1>9 DEF IInv, OperatorsHaveOneOwner

\* A caller that is not submitting gets an answer, or takes it away.
LEMMA AnsweredKeeps ==
  ASSUME IInv, NEW c \in Callers, ~Busy(c), NEW at \in {"idle", "answered"},
         NEW answer \in Statuses \cup {"none", "absent", "rejected"}, Tells(answer),
         calls' = [calls EXCEPT ![c] = [at |-> at, answer |-> answer]],
         UNCHANGED <<provider, operatorId, transfers, listed, attempted, leader, asked>>,
         told' = told \/ (told' = "reference" /\ asked # "no" /\ told # "rejected"),
         told' = "reference" /\ provider # "DING" => transfers # <<>>
  PROVE  IInv'
<1>1. /\ calls' \in [Callers -> Caller]
      /\ calls'[c] = [at |-> at, answer |-> answer]
      /\ \A d \in Callers \ {c} : calls'[d] = calls[d]
  BY DEF IInv, TypesHold, Caller
<1>2. TypesHold'
  BY <1>1 DEF IInv, TypesHold
<1>3. OneLeader'
  BY <1>1 DEF IInv, OneLeader, Busy
<1>4. MadeIsRemembered'
  BY <1>1 DEF IInv, MadeIsRemembered, OneTransfer, NothingRejectedIsSent
<1>5. AnswersTell'
  BY <1>1 DEF IInv, AnswersTell, Tells
<1> QED BY <1>2, <1>3, <1>4, <1>5 DEF IInv, ToldIsMade, OperatorsHaveOneOwner

\* An error tells nothing of the transfer, and Ding's never that nothing was sent.
LEMMA ErrorTells ==
  ASSUME IInv, WellNamed, NEW http, NEW answer, answer = Error(http)
  PROVE  answer \in {"unknown", "rejected"} /\ (provider = "DING" => answer = "unknown") /\ Tells(answer)
BY ErrorIsOne, ProviderIsKnown DEF Error, dingError, Names, Tells

\* Ding looks up before it sends.
LEMMA LookUpKeeps ==
  ASSUME IInv, WellNamed, NEW c \in Callers, lookUp(c)
  PROVE  IInv'
<1>1. /\ Busy(c) /\ provider = "DING"
      /\ UNCHANGED <<provider, operatorId, offered, transfers, listed, attempted, asked>>
      /\ attempted \in BOOLEAN /\ listed \in 0..Len(transfers)
  BY DEF lookUp, Busy, market, IInv, TypesHold, MadeIsRemembered
<1>2. asked = "here"
  BY <1>1 DEF IInv, OneLeader, WellNamed
<1>3. PICK http :
        \/ Submitted(c, Error(http))
        \/ \E found \in Found \ {"absent"} : Submitted(c, found)
        \/ Submitted(c, uncertain)
        \/ ~attempted /\ PGoto(c, "choose") /\ UNCHANGED <<leader, told>>
  BY DEF lookUp
<1>4. CASE Submitted(c, Error(http))
  <2>1. PICK answer : answer = Error(http)
    OBVIOUS
  <2>2. answer = "unknown" /\ Submitted(c, answer)
    BY <1>1, <1>4, <2>1, ErrorTells
  <2> QED BY <1>1, <2>2, SubmittedKeeps DEF Tells, Statuses
<1>5. ASSUME NEW found \in Found \ {"absent"}, Submitted(c, found) PROVE IInv'
  <2>1. found \in Statuses /\ Tells(found) /\ found # "rejected"
    BY FoundTells DEF Statuses
  <2>2. Tells(found)'
    BY <1>1, <2>1 DEF Tells
  <2> QED BY <1>1, <1>5, <2>1, <2>2, SubmittedKeeps
<1>6. CASE Submitted(c, uncertain)
  <2>1. Submitted(c, "PROCESSING")
    BY <1>6 DEF uncertain
  <2> QED BY <1>1, <2>1, SubmittedKeeps DEF Tells, Statuses
<1>7. CASE ~attempted /\ PGoto(c, "choose") /\ UNCHANGED <<leader, told>>
  <2>1. transfers = <<>>
    BY <1>1, <1>2, <1>7 DEF IInv, MadeIsRemembered
  <2> QED BY <1>1, <1>7, <2>1, FurtherKeeps
<1> QED BY <1>3, <1>4, <1>5, <1>6, <1>7

\* The catalogue is read again.
LEMMA ChooseKeeps ==
  ASSUME IInv, WellNamed, NEW c \in Callers, Choose(c)
  PROVE  IInv'
<1>1. /\ Busy(c) /\ transfers = <<>>
      /\ UNCHANGED <<provider, operatorId, offered, transfers, listed, asked>>
      /\ attempted \in BOOLEAN /\ listed \in 0..Len(transfers)
  BY DEF Choose, Busy, market, IInv, TypesHold, MadeIsRemembered
<1>2. PICK http :
        \/ Submitted(c, Error(http)) /\ UNCHANGED attempted
        \/ Submitted(c, "rejected") /\ UNCHANGED attempted
        \/ /\ PGoto(c, "send") /\ attempted' = (attempted \/ provider = "DING")
           /\ UNCHANGED <<leader, told>>
  BY DEF Choose
<1>3. CASE Submitted(c, Error(http)) /\ UNCHANGED attempted
  <2>1. PICK answer : answer = Error(http)
    OBVIOUS
  <2>2. answer \in {"unknown", "rejected"} /\ Submitted(c, answer)
    BY <1>3, <2>1, ErrorTells
  <2> QED BY <1>1, <1>3, <2>2, SubmittedKeeps DEF Tells, Statuses
<1>4. CASE Submitted(c, "rejected") /\ UNCHANGED attempted
  BY <1>1, <1>4, SubmittedKeeps DEF Tells
<1>5. CASE /\ PGoto(c, "send") /\ attempted' = (attempted \/ provider = "DING")
           /\ UNCHANGED <<leader, told>>
  <2>1. /\ attempted' \in BOOLEAN /\ attempted => attempted'
        /\ provider = "DING" => attempted'
    BY <1>1, <1>5
  <2> QED BY <1>1, <1>5, <2>1, FurtherKeeps
<1> QED BY <1>2, <1>3, <1>4, <1>5

\* The transfer is made or not, and the answer lost or not.
LEMMA SendKeeps ==
  ASSUME IInv, OthersHold, WellNamed, NEW c \in Callers, Send(c)
  PROVE  IInv'
<1>1. /\ Busy(c) /\ transfers = <<>> /\ (provider = "DING" => attempted)
      /\ UNCHANGED <<provider, operatorId, offered, listed, attempted, asked>>
      /\ attempted \in BOOLEAN /\ listed = 0
  BY FirstTransfer DEF Send, Busy, IInv, TypesHold, MadeIsRemembered
<1>2. PICK http, made :
        /\ made \in BOOLEAN
        /\ \E t \in Bearer : http \in Outcomes(t)
        /\ http \in {"noToken", "400", "401", "429"} => ~made
        /\ transfers' = IF made THEN Append(transfers, "going") ELSE transfers
        /\ \/ provider = "DING" /\ PGoto(c, "recheck") /\ UNCHANGED <<leader, told>>
           \/ made /\ \E answer \in Accepted : Submitted(c, answer)
           \/ provider # "DING" /\ http # "ok" /\ Submitted(c, Error(http))
  BY DEF Send
<1>3. transfers' = IF made THEN <<"going">> ELSE <<>>
  BY <1>1, <1>2
<1>4. /\ transfers' = transfers
         \/ (transfers = <<>> /\ transfers' = <<"going">> /\ (provider = "DING" => attempted))
      /\ listed' \in 0..Len(transfers')
  BY <1>1, <1>3, FirstTransfer
<1>5. CASE provider = "DING" /\ PGoto(c, "recheck") /\ UNCHANGED <<leader, told>>
  BY <1>1, <1>4, <1>5, FurtherKeeps
<1>6. ASSUME made, NEW answer \in Accepted, Submitted(c, answer) PROVE IInv'
  <2>1. answer \in Statuses \ {"DELIVERED", "FAILED", "REFUNDED"} /\ answer # "rejected"
    BY AcceptedTells DEF Statuses
  <2>2. Tells(answer)'
    BY <2>1 DEF Tells
  <2>3. transfers' # <<>>
    BY <1>3, <1>6, FirstTransfer
  <2> QED BY <1>1, <1>4, <1>6, <2>1, <2>2, <2>3, SubmittedKeeps
<1>7. CASE provider # "DING" /\ http # "ok" /\ Submitted(c, Error(http))
  <2>1. PICK answer : answer = Error(http)
    OBVIOUS
  <2>2. answer \in {"unknown", "rejected"} /\ Submitted(c, answer) /\ Tells(answer)'
    BY <1>7, <2>1, ErrorTells DEF Tells
  <2>3. answer = "rejected" => http \in {"400", "401", "429"}
    <3>1. PICK t \in Bearer : http \in Outcomes(t)
      BY <1>2
    <3>2. t \in {"failed", "revoked", "good"}
      BY <3>1 DEF OthersHold, Bearer, accessToken, bearer
    <3>3. http \in {"noToken", "401", "ok", "400", "429", "5xx", "lost"}
      BY <3>1, <3>2 DEF Outcomes
    <3> QED BY <1>7, <2>1, <3>3, ProviderIsKnown DEF Error, reloadlyError, dtOneError, Names
  <2>4. answer = "rejected" => transfers' = <<>>
    BY <1>2, <1>3, <2>3
  <2> QED BY <1>1, <1>4, <2>2, <2>4, SubmittedKeeps DEF Statuses
<1> QED BY <1>2, <1>5, <1>6, <1>7

\* Ding looks up after it sent.
LEMMA RecheckKeeps ==
  ASSUME IInv, WellNamed, NEW c \in Callers, Recheck(c)
  PROVE  IInv'
<1>1. /\ Busy(c) /\ provider = "DING"
      /\ UNCHANGED <<provider, operatorId, offered, transfers, listed, attempted, asked>>
      /\ attempted \in BOOLEAN /\ listed \in 0..Len(transfers)
  BY DEF Recheck, Busy, market, IInv, TypesHold, MadeIsRemembered
<1>2. (\E found \in Found \ {"absent", "unknown"} : Submitted(c, found)) \/ Submitted(c, uncertain)
  BY DEF Recheck
<1>3. ASSUME NEW found \in Found \ {"absent", "unknown"}, Submitted(c, found) PROVE IInv'
  <2>1. found \in Statuses /\ Tells(found) /\ found # "rejected"
    BY FoundTells DEF Statuses
  <2>2. Tells(found)'
    BY <1>1, <2>1 DEF Tells
  <2> QED BY <1>1, <1>3, <2>1, <2>2, SubmittedKeeps
<1>4. CASE Submitted(c, uncertain)
  <2>1. Submitted(c, "PROCESSING")
    BY <1>4 DEF uncertain
  <2> QED BY <1>1, <2>1, SubmittedKeeps DEF Tells, Statuses
<1> QED BY <1>2, <1>3, <1>4

\* The status of the reference is asked for.
LEMMA StatusKeeps ==
  ASSUME IInv, WellNamed, NEW c \in Callers, getTopUpStatus(c)
  PROVE  IInv'
<1>1. /\ ~Busy(c) /\ told = "reference" /\ told' = told
      /\ UNCHANGED <<provider, operatorId, transfers, listed, attempted, leader, asked>>
  BY DEF getTopUpStatus, PIdle, Busy, market
<1>2. PICK http, answer :
        /\ answer \in IF http # "ok" THEN {Error(http)}
                      ELSE IF provider # "DING" THEN Readings(transfers[1])
                      ELSE {IF f = "absent" THEN "unknown" ELSE f : f \in Found}
        /\ calls' = [calls EXCEPT ![c] = [at |-> "answered", answer |-> answer]]
  BY DEF getTopUpStatus
<1>3. answer \in Statuses \cup {"rejected"} /\ Tells(answer)
  <2>1. CASE http # "ok"
    BY <1>2, <2>1, ErrorTells DEF Statuses
  <2>2. CASE http = "ok" /\ provider # "DING"
    <3>1. Len(transfers) = 1 /\ transfers[1] \in States
      BY <1>1, <2>2, TransferIsOne DEF IInv, ToldIsMade
    <3>2. answer \in Readings(transfers[1])
      BY <1>2, <2>2
    <3>3. PICK s \in States : s = transfers[1]
      BY <3>1
    <3> QED BY <3>1, <3>2, <3>3, ReadingsTell, ProviderIsKnown DEF Tells
  <2>3. CASE http = "ok" /\ provider = "DING"
    <3>1. PICK f \in Found : answer = IF f = "absent" THEN "unknown" ELSE f
      BY <1>2, <2>3
    <3>2. f \in Statuses \cup {"absent"} /\ Tells(f)
      BY FoundTells
    <3> QED BY <3>1, <3>2 DEF Tells, Statuses
  <2> QED BY <2>1, <2>2, <2>3
<1>4. told' = "reference" /\ provider # "DING" => transfers # <<>>
  BY <1>1 DEF IInv, ToldIsMade
<1> QED BY <1>1, <1>2, <1>3, <1>4, AnsweredKeeps

\* An unknown submission is looked for.
LEMMA FindKeeps ==
  ASSUME IInv, WellNamed, NEW c \in Callers, findTopUpByCustomIdentifier(c)
  PROVE  IInv'
<1>1. /\ ~Busy(c) /\ told = "unknown" /\ asked # "no"
      /\ UNCHANGED <<provider, operatorId, transfers, listed, attempted, leader, asked>>
  BY DEF findTopUpByCustomIdentifier, PIdle, Busy, market, IInv, OneLeader
<1>2. PICK http, answer :
        /\ answer \in IF http # "ok" THEN {Error(http)} ELSE Found
        /\ calls' = [calls EXCEPT ![c] = [at |-> "answered", answer |-> answer]]
        /\ told' = IF answer \in {"absent", "unknown", "rejected"} THEN told ELSE "reference"
  BY DEF findTopUpByCustomIdentifier
<1>3. answer \in Statuses \cup {"absent", "rejected"} /\ Tells(answer)
  <2>1. CASE http # "ok"
    BY <1>2, <2>1, ErrorTells DEF Statuses
  <2>2. CASE http = "ok"
    BY <1>2, <2>2, FoundTells
  <2> QED BY <2>1, <2>2
<1>4. told' = "reference" => transfers # <<>>
  <2>1. CASE answer \in {"absent", "unknown", "rejected"}
    BY <1>1, <1>2, <2>1
  <2>2. CASE answer \notin {"absent", "unknown", "rejected"}
    <3>1. http = "ok"
      BY <1>2, <2>2, ErrorTells
    <3>2. answer \in Found /\ listed # 0 /\ listed \in 0..Len(transfers)
      BY <1>2, <2>2, <3>1 DEF Found, IInv, TypesHold
    <3> QED BY <3>2, FirstTransfer
  <2> QED BY <2>1, <2>2
<1> QED BY <1>1, <1>2, <1>3, <1>4, AnsweredKeeps

\* The caller takes its answer.
LEMMA ReturnKeeps ==
  ASSUME IInv, NEW c \in Callers, Return(c)
  PROVE  IInv'
<1>1. /\ ~Busy(c) /\ UNCHANGED <<provider, operatorId, transfers, listed, attempted, leader, asked, told>>
      /\ calls' = [calls EXCEPT ![c] = [at |-> "idle", answer |-> "none"]]
  BY DEF Return, Busy, market, PIdle
<1>2. Tells("none")
  BY DEF Tells
<1>3. told = "reference" /\ provider # "DING" => transfers # <<>>
  BY DEF IInv, ToldIsMade
<1> QED BY <1>1, <1>2, <1>3, AnsweredKeeps

\* The process stops.
LEMMA CrashKeeps ==
  ASSUME IInv, Crash
  PROVE  IInv'
<1>1. /\ UNCHANGED <<provider, operatorId, offered, transfers, listed>>
      /\ asked' = "before" /\ attempted' = FALSE /\ leader' = "none"
      /\ told' = told \/ told' = "unknown"
      /\ calls' \in [Callers -> Caller]
      /\ \A d \in Callers : calls'[d] = [at |-> "idle", answer |-> "none"]
  BY DEF Crash, market, PIdle, Caller
<1>2. TypesHold'
  BY <1>1 DEF IInv, TypesHold
<1>3. OneLeader'
  BY <1>1 DEF OneLeader, Busy
<1>4. MadeIsRemembered'
  BY <1>1 DEF IInv, MadeIsRemembered, OneTransfer, NothingRejectedIsSent
<1>5. AnswersTell' /\ ToldIsMade' /\ OperatorsHaveOneOwner'
  BY <1>1 DEF IInv, AnswersTell, Tells, ToldIsMade, OperatorsHaveOneOwner
<1> QED BY <1>2, <1>3, <1>4, <1>5 DEF IInv

\* The token kept is none, a good one or a revoked one; the service is told one of the
\* few things it may be.
LEMMA OthersKeep == OthersHold /\ [PNext]_pvars => OthersHold'
<1> SUFFICES ASSUME OthersHold, [PNext]_pvars PROVE OthersHold'
  OBVIOUS
<1>1. token' \in {"none", "good", "revoked"}
  <2>1. ASSUME NEW t \in Bearer, NEW http, Kept(t, http) PROVE token' \in {"none", "good", "revoked"}
    BY <2>1 DEF Bearer, accessToken, bearer, Kept, OthersHold
  <2>2. ASSUME NEW c \in Callers,
               lookUp(c) \/ Choose(c) \/ Send(c) \/ Recheck(c) \/ getTopUpStatus(c) \/ findTopUpByCustomIdentifier(c)
        PROVE  token' \in {"none", "good", "revoked"}
    BY <2>1, <2>2 DEF lookUp, Choose, Send, Recheck, getTopUpStatus, findTopUpByCustomIdentifier
  <2>3. ASSUME NEW c \in Callers, submitTopUp(c) \/ Return(c) PROVE token' \in {"none", "good", "revoked"}
    BY <2>3 DEF submitTopUp, Return, OthersHold
  <2>4. CASE Settle \/ List \/ ChangeProduct \/ LoseToken \/ Crash \/ UNCHANGED pvars
    BY <2>4 DEF Settle, List, ChangeProduct, LoseToken, Crash, pvars, OthersHold
  <2> QED BY <2>2, <2>3, <2>4 DEF PNext
<1>2. told' \in {"nothing", "rejected", "unknown", "reference"}
  <2>1. ASSUME NEW c \in Callers, NEW answer, Submitted(c, answer)
        PROVE  told' \in {"nothing", "rejected", "unknown", "reference"}
    BY <2>1 DEF Submitted, OthersHold
  <2>2. ASSUME NEW c \in Callers, lookUp(c) \/ Choose(c) \/ Send(c) \/ Recheck(c)
        PROVE  told' \in {"nothing", "rejected", "unknown", "reference"}
    BY <2>1, <2>2 DEF lookUp, Choose, Send, Recheck, OthersHold
  <2>3. ASSUME NEW c \in Callers,
               submitTopUp(c) \/ Return(c) \/ getTopUpStatus(c) \/ findTopUpByCustomIdentifier(c)
        PROVE  told' \in {"nothing", "rejected", "unknown", "reference"}
    BY <2>3 DEF submitTopUp, Return, getTopUpStatus, findTopUpByCustomIdentifier, OthersHold
  <2>4. CASE Settle \/ List \/ ChangeProduct \/ LoseToken \/ Crash \/ UNCHANGED pvars
    BY <2>4 DEF Settle, List, ChangeProduct, LoseToken, Crash, pvars, OthersHold
  <2> QED BY <2>2, <2>3, <2>4 DEF PNext
<1>3. offered' \in BOOLEAN
  BY DEF OthersHold, PNext, pvars, market, Settle, List, ChangeProduct, LoseToken, Crash, submitTopUp,
     lookUp, Choose, Send, Recheck, getTopUpStatus, findTopUpByCustomIdentifier, Return
<1> QED BY <1>1, <1>2, <1>3 DEF OthersHold

---------------------------------------------------------------------------
\* Initially nothing was asked for.
LEMMA AdapterInitHolds == WellNamed /\ PInit => IInv
<1> SUFFICES ASSUME WellNamed, PInit PROVE IInv
  OBVIOUS
<1>1. PICK rawId \in RawIds : operatorId = encodeOperatorId(provider, rawId)
  BY DEF PInit
<1>2. provider \in Names /\ rawId \in LocalIds
  BY <1>1 DEF WellNamed, PInit
<1>3. OperatorsHaveOneOwner
  BY <1>1, <1>2, EveryOperatorIsNamed, OwnersAreFound DEF OperatorsHaveOneOwner
<1>4. operatorId \in Int
  BY <1>1, <1>2, EveryOperatorIsNamed, SlotsFit
<1>5. \A c \in Callers : calls[c] = [at |-> "idle", answer |-> "none"]
  BY DEF PInit, PIdle
<1>6. TypesHold
  <2>1. calls \in [Callers -> Caller]
    BY DEF PInit, PIdle, Caller
  <2>2. transfers \in Seq(States) /\ listed \in 0..Len(transfers)
    BY FirstTransfer DEF PInit
  <2> QED BY <1>4, <2>1, <2>2 DEF PInit, TypesHold
<1> QED BY <1>3, <1>5, <1>6, FirstTransfer
        DEF PInit, IInv, OneLeader, Busy, MadeIsRemembered, OneTransfer, NothingRejectedIsSent,
            ToldIsMade, AnswersTell, Tells

\* Every step keeps the invariant.
LEMMA NextKeeps == WellNamed /\ IInv /\ OthersHold /\ [PNext]_pvars => IInv'
<1> SUFFICES ASSUME WellNamed, IInv, OthersHold, [PNext]_pvars PROVE IInv'
  OBVIOUS
<1>1. CASE Settle
  BY <1>1, SettleKeeps
<1>2. CASE List \/ ChangeProduct \/ LoseToken
  BY <1>2, MarketKeeps
<1>3. CASE Crash
  BY <1>3, CrashKeeps
<1>4. ASSUME NEW c \in Callers,
             submitTopUp(c) \/ lookUp(c) \/ Choose(c) \/ Send(c) \/ Recheck(c)
             \/ getTopUpStatus(c) \/ findTopUpByCustomIdentifier(c) \/ Return(c)
      PROVE  IInv'
  BY <1>4, SubmitKeeps, LookUpKeeps, ChooseKeeps, SendKeeps, RecheckKeeps, StatusKeeps, FindKeeps, ReturnKeeps
<1>5. CASE UNCHANGED pvars
  <2>1. listed' \in 0..Len(transfers)
    BY <1>5 DEF pvars, IInv, TypesHold
  <2> QED BY <1>5, <2>1, QuietKeeps DEF pvars
<1> QED BY <1>1, <1>2, <1>3, <1>4, <1>5 DEF PNext

\* The invariant holds.
LEMMA Invariance == PSpec => [](IInv /\ OthersHold)
<1>1. PInit => IInv /\ OthersHold
  BY WellNamed, AdapterInitHolds DEF PInit, OthersHold
<1>2. (IInv /\ OthersHold) /\ [PNext]_pvars => (IInv /\ OthersHold)'
  BY WellNamed, NextKeeps, OthersKeep
<1> QED BY <1>1, <1>2, PTL DEF PSpec

(* A recharge is sent once, however many calls ask for it and whatever     *)
(* answers are lost (submitTopUp, lookUp, Send).                           *)
THEOREM SentOnce == PSpec => []OneTransfer
<1>1. IInv => OneTransfer
  BY DEF IInv, MadeIsRemembered
<1> QED BY <1>1, Invariance, PTL

(* What the service takes for a refusal, and refunds, was not sent, and is *)
(* not sent later.                                                         *)
THEOREM RefusedIsUnsent == PSpec => []NothingRejectedIsSent
<1>1. IInv => NothingRejectedIsSent
  BY DEF IInv, MadeIsRemembered
<1> QED BY <1>1, Invariance, PTL

LEMMA TruthIsTold == IInv => AnswersAreTrue
<1> SUFFICES ASSUME IInv, NEW c \in Callers
             PROVE  /\ calls[c].answer = "DELIVERED" => \E i \in DOMAIN transfers : transfers[i] = "done"
                    /\ calls[c].answer \in {"FAILED", "REFUNDED"} => \A i \in DOMAIN transfers : transfers[i] = "failed"
  BY DEF AnswersAreTrue
<1>1. transfers \in Seq(States) /\ Tells(calls[c].answer)
  BY DEF IInv, TypesHold, AnswersTell
<1> QED BY <1>1 DEF Tells

(* Delivered and failed are said of a transfer that was, whichever the     *)
(* provider and its words (transaction, transfer, mapTopUp).               *)
THEOREM ReportedTruly == PSpec => []AnswersAreTrue
BY TruthIsTold, Invariance, PTL

(* All of it together: one transfer, of the operator's own provider, told  *)
(* of truly, and none after a refusal (submitTopUp and the lookups).       *)
THEOREM AdaptersHold == PSpec => []AdaptersAreSound
<1>1. IInv /\ OthersHold => PTypeOK
  BY DEF IInv, TypesHold, OthersHold, PTypeOK, States
<1>2. IInv /\ OthersHold => AdaptersAreSound
  BY <1>1, TruthIsTold DEF AdaptersAreSound, IInv, MadeIsRemembered
<1> QED BY <1>2, Invariance, PTL
=============================================================================
