----------------------------- MODULE StoreSales -----------------------------
(***************************************************************************)
(* A store seller's prepaid balance and the recharges sold from it         *)
(* (apps/api/src/flupflap/stores.ts, and the STORE_BALANCE paths of        *)
(* topup/service.ts).  The money of a sale is debited from the balance and *)
(* held before airtime is asked for; delivery credits the commission, a    *)
(* confirmed failure gives the money back.                                 *)
(*                                                                         *)
(* The methods of FlupFlapStores are serializable transactions under the   *)
(* row lock of the store: one step each.  The engine calls them between    *)
(* awaits: a request, a status request or the worker is at one label of    *)
(* work[h], and everyone else moves in between.  One store; a sale is one  *)
(* quote with its idempotency key, so it has one MobileTopUpTransaction.   *)
(***************************************************************************)
EXTENDS Integers, FiniteSets, FiniteSetsExt

CONSTANTS
  Handlers,   \* requests and reconciliation timers of all processes
  Sales,      \* quotes of the store
  Deposits,   \* deposit requests, each with its own reference
  Returns,    \* references of balance returns
  Amount,     \* bound: cents of a deposit and of a balance return
  Principal,  \* cents of the recharge
  Fee,        \* cents of the service fee
  Rates,      \* bound: commission rates staff sets, in basis points
  MaxFaults   \* bound: crashes, lost answers and unreadable catalogues

ASSUME StoreAssumption ==
  /\ Amount \in Nat \ {0} /\ Principal \in Nat \ {0} /\ Fee \in Nat
  /\ Rates \subseteq 0..5000 /\ MaxFaults \in Nat

VARIABLES
  customer,  \* FlupFlapCustomer.status of the seller
  store,     \* FlupFlapStore: status, commissionBps and balanceCents
  funding,   \* FlupFlapStoreFunding.status of each deposit
  entries,   \* FlupFlapStoreEntry: the movement of each reference
  journal,   \* sums of the LedgerEntry rows, by account (debits positive)
  order,     \* FlupFlapStoreOrder of each sale
  row,       \* MobileTopUpTransaction of each sale
  expired,   \* quotes past expiresAt
  airtime,   \* the provider's own state of each top-up
  sent,      \* submitTopUp calls the provider acted on
  work,      \* what each handler is doing
  faults     \* faults so far

vars == <<customer, store, funding, entries, journal, order, row, expired,
          airtime, sent, work, faults>>
money == <<store, funding, entries, journal, order>>
outside == <<customer, expired, airtime, sent>>

---------------------------------------------------------------------------
(* State. *)

Total == Principal + Fee
DefaultRate == 2000
storeCommission(rate) == (Fee * rate + 5000) \div 10000

Books == {"BALANCE", "HELD", "FUNDING_CLEARING", "PROVIDER_SETTLEMENT", "FEE_REVENUE"}
References ==
  ({"deposit"} \X Deposits) \cup ({"return"} \X Returns) \cup
  ({"purchase", "commission", "refund"} \X Sales)

NoOrder == [status |-> "NONE", commission |-> 0]
NoRow == [status |-> "NONE", payment |-> "NONE", claimed |-> FALSE,
          reference |-> FALSE, delivered |-> FALSE, unknown |-> FALSE]
Reserved == [NoRow EXCEPT !.status = "PENDING", !.payment = "PENDING"]

\* What the provider may report later, given what it reports now.
AirtimeNext ==
  [CREATED |-> {"PROCESSING", "SUCCESSFUL", "FAILED"},
   PROCESSING |-> {"SUCCESSFUL", "FAILED", "REFUNDED"},
   SUCCESSFUL |-> {"REFUNDED"}, FAILED |-> {}, REFUNDED |-> {}]
Answers == DOMAIN AirtimeNext
mapProviderStatus(answer) ==
  CASE answer = "CREATED" -> "PENDING" [] answer = "SUCCESSFUL" -> "DELIVERED"
    [] OTHER -> answer

Idle == [at |-> "idle", sale |-> "none", found |-> "none", refreshing |-> FALSE]

Init ==
  /\ customer = "ACTIVE"
  /\ store = [status |-> "PENDING", rate |-> DefaultRate, balance |-> 0]
  /\ funding = [d \in Deposits |-> "NONE"]
  /\ entries = [r \in {} |-> 0]
  /\ journal = [a \in Books |-> 0]
  /\ order = [t \in Sales |-> NoOrder]
  /\ row = [t \in Sales |-> NoRow]
  /\ expired = {}
  /\ airtime = [t \in Sales |-> "none"]
  /\ sent = [t \in Sales |-> 0]
  /\ work = [h \in Handlers |-> Idle]
  /\ faults = 0

Goto(h, at) == work' = [work EXCEPT ![h].at = at]
Finish(h) == work' = [work EXCEPT ![h] = Idle]
Start(h, t, at) == work' = [work EXCEPT ![h] = [Idle EXCEPT !.at = at, !.sale = t]]
Fault == faults < MaxFaults /\ faults' = faults + 1

\* movement: the balance and its append-only entry, of an unused reference.
Movement(reference, cents, s, o) ==
  /\ reference \notin DOMAIN entries
  /\ store' = [s EXCEPT !.balance = @ + cents]
  /\ entries' = [r \in DOMAIN entries \cup {reference} |->
                   IF r = reference THEN cents ELSE entries[r]]
  /\ order' = o

\* journal: lines that add up to zero, or the transaction is rolled back.
Balanced(lines) == MapThenSumSet(LAMBDA a : lines[a], DOMAIN lines) = 0
Journal(lines) ==
  /\ Balanced(lines)
  /\ journal' = [a \in Books |->
                   IF a \in DOMAIN lines THEN journal[a] + lines[a] ELSE journal[a]]

---------------------------------------------------------------------------
(* The store: funding, review, and its end. *)

\* active: the customer and the store may move money now.
Active == customer = "ACTIVE" /\ store.status = "ACTIVE"

RequestFunding(d) ==
  /\ Active /\ funding[d] = "NONE"
  /\ funding' = [funding EXCEPT ![d] = "PENDING"]
  /\ UNCHANGED <<store, entries, journal, order, row, work, faults, outside>>

Review(status, rate) ==
  /\ store' = [store EXCEPT !.status = status, !.rate = rate]
  /\ UNCHANGED <<funding, entries, journal, order, row, work, faults, outside>>

ApproveFunding(d) ==
  /\ funding[d] = "PENDING" /\ Active
  /\ Movement(<<"deposit", d>>, Amount, store, order)
  /\ Journal([FUNDING_CLEARING |-> Amount, BALANCE |-> -Amount])
  /\ funding' = [funding EXCEPT ![d] = "APPROVED"]
  /\ UNCHANGED <<row, work, faults, outside>>

RejectFunding(d) ==
  /\ funding[d] = "PENDING"
  /\ funding' = [funding EXCEPT ![d] = "REJECTED"]
  /\ UNCHANGED <<store, entries, journal, order, row, work, faults, outside>>

\* Of the whole balance, as staff drains a store, or of a deposit's worth.
RecordBalanceReturn(x, cents) ==
  /\ cents > 0 /\ store.balance >= cents
  /\ Movement(<<"return", x>>, -cents, store, order)
  /\ Journal([BALANCE |-> cents, FUNDING_CLEARING |-> -cents])
  /\ UNCHANGED <<funding, row, work, faults, outside>>

\* FlupFlapSelfServiceDeletion.request
RequestDeletion ==
  /\ customer = "ACTIVE"
  /\ customer' = "DELETION_PENDING"
  /\ store' = [store EXCEPT !.status = "SUSPENDED"]
  /\ UNCHANGED <<funding, entries, journal, order, row, work, faults, expired, airtime, sent>>

storeDeletionPending == store.balance # 0 \/ \E t \in Sales : order[t].status = "HELD"

\* FlupFlapSelfServiceDeletion.process, eraseFlupFlapAccountData
ProcessDeletion ==
  /\ customer = "DELETION_PENDING"
  /\ \A t \in Sales : /\ row[t].status \notin {"PENDING", "PROCESSING"}
                      /\ row[t].payment \in {"NONE", "CAPTURED", "FAILED", "REFUNDED"}
  /\ ~storeDeletionPending
  /\ customer' = "DELETED"
  /\ store' = [store EXCEPT !.status = "SUSPENDED"]
  /\ funding' = [d \in Deposits |-> IF funding[d] = "PENDING" THEN "REJECTED" ELSE funding[d]]
  /\ UNCHANGED <<entries, journal, order, row, work, faults, expired, airtime, sent>>

---------------------------------------------------------------------------
(* purchaseFromStore. *)

\* reservePayment with the sale's key: a new reservation of an unused quote
\* that has not expired, or the replay of the one there is.  The catalogue
\* may have to be read again before the balance is touched.
Purchase(h, t) ==
  /\ work[h] = Idle /\ customer = "ACTIVE"
  /\ \/ /\ row[t] = NoRow /\ t \notin expired
        /\ row' = [row EXCEPT ![t] = Reserved]
        /\ Start(h, t, "revalidate")
     \/ /\ row[t] # NoRow /\ row[t].payment # "FAILED"
        /\ Start(h, t, IF row[t].payment = "PENDING" THEN "revalidate" ELSE "authorize")
        /\ UNCHANGED row
  /\ UNCHANGED <<money, faults, outside>>

\* revalidateQuoteProduct: same terms, changed terms, or no catalogue.
Revalidate(h) ==
  /\ work[h].at = "revalidate"
  /\ \/ Goto(h, "authorize") /\ UNCHANGED faults
     \/ Fault /\ Goto(h, "cancel")
     \/ Fault /\ Finish(h)
  /\ UNCHANGED <<money, row, outside>>

\* Mutant of CanAuthorize: the balance is not looked at.
CanAuthorizeOnCredit(t) ==
  Active /\ order[t] = NoOrder /\ row[t].payment = "PENDING" /\ t \notin expired

CanAuthorize(t) ==
  Active /\ order[t] = NoOrder /\ row[t].payment = "PENDING" /\ t \notin expired
    /\ store.balance >= Total

Authorize(h) ==
  LET t == work[h].sale IN
  /\ work[h].at = "authorize"
  /\ CanAuthorize(t)
  /\ Movement(<<"purchase", t>>, -Total, store,
       [order EXCEPT ![t] = [status |-> "HELD", commission |-> storeCommission(store.rate)]])
  /\ Journal([BALANCE |-> Total, HELD |-> -Total])
  /\ row' = [row EXCEPT ![t].payment = "CAPTURED"]
  /\ Goto(h, "look")
  /\ UNCHANGED <<funding, faults, outside>>

\* Already authorized; the quote expired, which gives the reservation up; or
\* refused, which leaves it for a later attempt.
NotAuthorized(h) ==
  LET t == work[h].sale IN
  /\ work[h].at = "authorize"
  /\ ~CanAuthorize(t)
  /\ \/ Active /\ order[t] # NoOrder /\ Goto(h, "look")
     \/ /\ Active /\ order[t] = NoOrder
        /\ row[t].payment = "PENDING" /\ t \in expired
        /\ Goto(h, "cancel")
     \/ /\ ~Active \/ (order[t] = NoOrder /\ ~(row[t].payment = "PENDING" /\ t \in expired))
        /\ Finish(h)
  /\ UNCHANGED <<money, row, faults, outside>>

\* cancelTransaction of a reservation nobody has paid; the compare-and-set of
\* transitionPayment repeats the check of the payment.
Abandoned(r) == r.status = "PENDING" /\ r.payment = "PENDING" /\ ~r.claimed /\ ~r.reference
Cancel(h) ==
  LET t == work[h].sale IN
  /\ work[h].at = "cancel"
  /\ row' = IF Abandoned(row[t])
            THEN [row EXCEPT ![t].status = "FAILED", ![t].payment = "FAILED"] ELSE row
  /\ Finish(h)
  /\ UNCHANGED <<money, faults, outside>>

Look(h) ==
  LET r == row[work[h].sale] IN
  /\ work[h].at = "look"
  /\ \/ r.status = "DELIVERED" /\ Goto(h, "settle")
     \/ r.status \in {"FAILED", "REFUNDED"} /\ r.payment = "CAPTURED" /\ Goto(h, "refund")
     \/ r.status = "PENDING" /\ r.payment = "CAPTURED" /\ Goto(h, "claim")
     \/ /\ r.status = "PROCESSING" \/ (r.status # "DELIVERED" /\ r.payment # "CAPTURED")
        /\ Finish(h)
  /\ UNCHANGED <<money, row, faults, outside>>

---------------------------------------------------------------------------
(* fulfillPaidRecharge and applyProviderResult, for a store's row. *)

\* Mutant of Claimable: a claim does not keep others out.
ClaimableAgain(r) == r.status = "PENDING" /\ r.payment = "CAPTURED" /\ ~r.reference

\* claimOperation(id, 'fulfillment')
Claimable(r) ==
  r.status = "PENDING" /\ r.payment = "CAPTURED" /\ ~r.claimed /\ ~r.reference

ClaimFulfillment(h) ==
  LET t == work[h].sale IN
  /\ work[h].at = "claim"
  /\ \/ Claimable(row[t]) /\ row' = [row EXCEPT ![t].claimed = TRUE] /\ Goto(h, "submit")
     \/ ~Claimable(row[t]) /\ Finish(h) /\ UNCHANGED row
  /\ UNCHANGED <<money, faults, outside>>

Found(h, answer) == work' = [work EXCEPT ![h].at = "apply", ![h].found = answer]

\* The terms are checked once more and the provider is asked: refused before
\* any airtime is sent, accepted, or the answer is lost, wherever it was.
SubmitTopUp(h) ==
  LET t == work[h].sale IN
  /\ work[h].at = "submit"
  /\ \/ Fault /\ Goto(h, "recordRejected") /\ UNCHANGED <<airtime, sent>>
     \/ \E answer \in {"PROCESSING", "SUCCESSFUL", "FAILED", "CREATED"} :
          /\ airtime' = [airtime EXCEPT ![t] = answer]
          /\ sent' = [sent EXCEPT ![t] = @ + 1]
          /\ \/ Found(h, answer) /\ UNCHANGED faults
             \/ Fault /\ Goto(h, "recordUnknown")
     \/ Fault /\ Goto(h, "recordUnknown") /\ UNCHANGED <<airtime, sent>>
  /\ UNCHANGED <<money, row, customer, expired>>

RecordRejected(h) ==
  /\ work[h].at = "recordRejected"
  /\ row' = [row EXCEPT ![work[h].sale].status = "FAILED"]
  /\ Goto(h, "refund")
  /\ UNCHANGED <<money, faults, outside>>

RecordUnknown(h) ==
  /\ work[h].at = "recordUnknown"
  /\ row' = [row EXCEPT ![work[h].sale].status = "PROCESSING", ![work[h].sale].unknown = TRUE]
  /\ Finish(h)
  /\ UNCHANGED <<money, faults, outside>>

\* updateTransaction: DELIVERED is written over a row that was not delivered
\* before (and had its value confirmed), anything else over every row.
Applied(r, status) ==
  IF status = "DELIVERED"
  THEN IF r.delivered THEN r
       ELSE [r EXCEPT !.status = status, !.delivered = TRUE, !.reference = TRUE]
  ELSE [r EXCEPT !.status = status, !.reference = TRUE]

Apply(h) ==
  LET status == mapProviderStatus(work[h].found) IN
  /\ work[h].at = "apply"
  /\ row' = [row EXCEPT ![work[h].sale] = Applied(@, status)]
  /\ \/ status = "DELIVERED" /\ Goto(h, "settle")
     \/ status \in {"FAILED", "REFUNDED"} /\ Goto(h, "refund")
     \/ status \in {"PENDING", "PROCESSING"} /\ Finish(h)
  /\ UNCHANGED <<money, faults, outside>>

---------------------------------------------------------------------------
(* settle: delivered and refund. *)

\* refreshTransaction goes on to ask about a row it found delivered.
AfterSettlement(h) ==
  IF work[h].refreshing /\ row[work[h].sale].reference THEN Goto(h, "readTopUp") ELSE Finish(h)

CanDeliver(t) == order[t].status = "HELD" /\ row[t].status = "DELIVERED"

Deliver(h) ==
  LET t == work[h].sale
      commission == order[t].commission
  IN
  /\ work[h].at = "settle"
  /\ CanDeliver(t)
  /\ Movement(<<"commission", t>>, commission, store, [order EXCEPT ![t].status = "DELIVERED"])
  /\ Journal([HELD |-> Total, PROVIDER_SETTLEMENT |-> -Principal,
              FEE_REVENUE |-> commission - Fee, BALANCE |-> -commission])
  /\ AfterSettlement(h)
  /\ UNCHANGED <<funding, row, faults, outside>>

\* Settled or refunded before, which is no error; or the row is not delivered.
NotDelivered(h) ==
  /\ work[h].at = "settle"
  /\ ~CanDeliver(work[h].sale)
  /\ \/ order[work[h].sale].status \in {"DELIVERED", "REFUNDED"} /\ AfterSettlement(h)
     \/ order[work[h].sale].status \in {"NONE", "HELD"} /\ Finish(h)
  /\ UNCHANGED <<money, row, faults, outside>>

CanRefund(t) ==
  order[t].status \in {"HELD", "DELIVERED"} /\ row[t].status \in {"FAILED", "REFUNDED"}

Refund(h) ==
  LET t == work[h].sale
      earned == IF order[t].status = "DELIVERED" THEN order[t].commission ELSE 0
  IN
  /\ work[h].at = "refund"
  /\ CanRefund(t)
  /\ Movement(<<"refund", t>>, Total - earned, store, [order EXCEPT ![t].status = "REFUNDED"])
  /\ Journal(IF order[t].status = "DELIVERED"
             THEN [PROVIDER_SETTLEMENT |-> Principal, FEE_REVENUE |-> Fee - earned,
                   BALANCE |-> earned - Total]
             ELSE [HELD |-> Total, BALANCE |-> -Total])
  /\ row' = [row EXCEPT ![t].payment = "REFUNDED"]
  /\ Finish(h)
  /\ UNCHANGED <<funding, faults, outside>>

NotRefunded(h) ==
  /\ work[h].at = "refund"
  /\ ~CanRefund(work[h].sale)
  /\ Finish(h)
  /\ UNCHANGED <<money, row, faults, outside>>

---------------------------------------------------------------------------
(* The worker, and status requests. *)

\* listReconciliationCandidates
Candidate(t) ==
  LET r == row[t] IN
  \/ r.status = "PROCESSING" /\ r.payment = "CAPTURED"
  \/ r.status = "PENDING" /\ r.payment = "PENDING" /\ t \in expired
  \/ /\ r.payment = "CAPTURED"
     /\ \/ r.status \in {"PENDING", "FAILED", "REFUNDED"}
        \/ r.status = "DELIVERED" /\ order[t].status = "HELD"

\* refreshTransaction of the row as it was read; a status request moves
\* nothing at the provider.
RefreshStep(r, t, worker) ==
  CASE r.status = "PENDING" /\ r.payment = "PENDING" /\ t \in expired -> "cancel"
    [] r.status \in {"FAILED", "REFUNDED"} /\ r.payment = "CAPTURED" -> "refund"
    [] r.status = "DELIVERED" -> "settle"
    [] r.status = "PENDING" /\ r.payment = "CAPTURED" /\ worker -> "claim"
    [] r.status \in {"PENDING", "PROCESSING"} /\ r.reference -> "readTopUp"
    [] r.status = "PROCESSING" /\ ~r.reference /\ r.unknown -> "findTopUp"
    [] OTHER -> "idle"

Refresh(h, t, worker) ==
  /\ work[h] = Idle
  /\ row[t] # NoRow /\ RefreshStep(row[t], t, worker) # "idle"
  /\ worker => Candidate(t)
  /\ ~worker => customer = "ACTIVE"
  /\ work' = [work EXCEPT ![h] = [Idle EXCEPT
       !.at = RefreshStep(row[t], t, worker), !.sale = t, !.refreshing = TRUE]]
  /\ UNCHANGED <<money, row, faults, outside>>

ReadTopUp(h) ==
  /\ work[h].at = "readTopUp"
  /\ Found(h, airtime[work[h].sale])
  /\ UNCHANGED <<money, row, faults, outside>>

FindTopUp(h) ==
  /\ work[h].at = "findTopUp"
  /\ \/ airtime[work[h].sale] # "none" /\ Found(h, airtime[work[h].sale])
     \/ airtime[work[h].sale] = "none" /\ Finish(h)
  /\ UNCHANGED <<money, row, faults, outside>>

---------------------------------------------------------------------------
QuoteExpires(t) ==
  /\ t \notin expired
  /\ expired' = expired \cup {t}
  /\ UNCHANGED <<money, row, work, faults, customer, airtime, sent>>

AirtimeMoves(t) ==
  /\ airtime[t] # "none"
  /\ \E a \in AirtimeNext[airtime[t]] : airtime' = [airtime EXCEPT ![t] = a]
  /\ UNCHANGED <<money, row, work, faults, customer, expired, sent>>

\* A process stops, or a call of a handler fails.
Stop(h) ==
  /\ work[h] # Idle
  /\ Fault /\ Finish(h)
  /\ UNCHANGED <<money, row, outside>>

SaleStep(h) ==
  \/ Revalidate(h) \/ Authorize(h) \/ NotAuthorized(h) \/ Cancel(h) \/ Look(h)
  \/ ClaimFulfillment(h) \/ SubmitTopUp(h) \/ RecordRejected(h) \/ RecordUnknown(h)
  \/ Apply(h) \/ Deliver(h) \/ NotDelivered(h) \/ Refund(h) \/ NotRefunded(h)
  \/ ReadTopUp(h) \/ FindTopUp(h)

Next ==
  \/ \E h \in Handlers : SaleStep(h) \/ Stop(h)
  \/ \E h \in Handlers, t \in Sales :
       Purchase(h, t) \/ \E worker \in BOOLEAN : Refresh(h, t, worker)
  \/ \E d \in Deposits : RequestFunding(d) \/ ApproveFunding(d) \/ RejectFunding(d)
  \/ \E status \in {"ACTIVE", "SUSPENDED"}, rate \in Rates : Review(status, rate)
  \/ \E x \in Returns, cents \in {Amount, store.balance} : RecordBalanceReturn(x, cents)
  \/ RequestDeletion \/ ProcessDeletion
  \/ \E t \in Sales : QuoteExpires(t) \/ AirtimeMoves(t)

Spec == Init /\ [][Next]_vars

---------------------------------------------------------------------------
(* Properties. *)

RowStatuses == {"NONE", "PENDING", "PROCESSING", "DELIVERED", "FAILED", "REFUNDED"}
Payments == {"NONE", "PENDING", "CAPTURED", "FAILED", "REFUNDED"}
Row == [status : RowStatuses, payment : Payments, claimed : BOOLEAN, reference : BOOLEAN,
        delivered : BOOLEAN, unknown : BOOLEAN]
Commissions == 0..Fee
Order == [status : {"NONE", "HELD", "DELIVERED", "REFUNDED"}, commission : Commissions]

(* Every variable keeps its type.                                          *)
TypeOK ==
  /\ customer \in {"ACTIVE", "DELETION_PENDING", "DELETED"}
  /\ store.status \in {"PENDING", "ACTIVE", "SUSPENDED", "REJECTED"}
  /\ store.rate \in 0..5000
  /\ DOMAIN entries \subseteq References
  /\ order \in [Sales -> Order] /\ row \in [Sales -> Row]
  /\ faults \in 0..MaxFaults

(* The balance is what its entries add up to and what the books say the    *)
(* store is owed, the held account is the orders on hold, and the seller   *)
(* never spends what was not deposited (FLUPFLAP_STORE_SELLERS.md: wallet  *)
(* movements and journals in one transaction with the order).              *)
BooksAgree ==
  /\ store.balance = MapThenSumSet(LAMBDA r : entries[r], DOMAIN entries)
  /\ store.balance = -journal["BALANCE"]
  /\ journal["HELD"] = -Total * Cardinality({t \in Sales : order[t].status = "HELD"})

(* The balance never goes below zero, whoever sells, returns and refunds   *)
(* at the same time.                                                       *)
NoOverdraft == store.balance >= 0

(* Airtime is bought once for a sale, and only for one whose money was     *)
(* taken from the balance before (claimOperation, authorize).              *)
BoughtOnceWhenHeld ==
  \A t \in Sales : /\ sent[t] <= 1
                   /\ sent[t] > 0 => <<"purchase", t>> \in DOMAIN entries

(* The money goes back only when no airtime is or will be with the         *)
(* recipient: an unknown outcome is never refunded                         *)
(* (FLUPFLAP_STORE_SELLERS.md).                                            *)
RefundedWithoutAirtime ==
  \A t \in Sales : order[t].status = "REFUNDED" => airtime[t] \in {"none", "FAILED", "REFUNDED"}

(* Whatever crashed where, a sale on hold that nobody is working on is one *)
(* the worker looks at (listReconciliationCandidates).                     *)
HeldIsReconciled ==
  \A t \in Sales :
    order[t].status = "HELD" /\ (\A h \in Handlers : work[h].sale # t) => Candidate(t)

(* The balance of a store is what its entries and its journal say, never   *)
(* below zero; and a sale buys airtime once and with money that is held,   *)
(* gives the money back only where no airtime went, and is looked at by    *)
(* the worker while it holds any (purchaseFromStore, settle,               *)
(* listReconciliationCandidates).                                          *)
StoreSalesAreSound ==
  /\ TypeOK /\ BooksAgree /\ NoOverdraft
  /\ BoughtOnceWhenHeld /\ RefundedWithoutAirtime /\ HeldIsReconciled

(* What the code does not keep: an answer of the provider that was read    *)
(* before the delivery and is written after it leaves a row that can never *)
(* be settled again.                                                       *)
DeliveredCanBeSettled ==
  \A t \in Sales :
    order[t].status = "HELD" /\ row[t].delivered /\ (\A h \in Handlers : work[h].sale # t)
      => row[t].status \in {"DELIVERED", "FAILED", "REFUNDED"}

(* Nor this: a sale delivered before the account was erased and reversed   *)
(* by the provider after it refills the balance of a deleted store.        *)
ErasedStaysDrained == customer = "DELETED" => ~storeDeletionPending
=============================================================================
