----------------------------- MODULE Remittance -----------------------------
(***************************************************************************)
(* One remittance of the TiCash app, from its bank debit to its payout:    *)
(* the Dwolla funding of the transfer (funding/service.ts and              *)
(* funding/repository.ts), the synchronisation of the transfer with its    *)
(* funding (syncTransferFromFunding in app.ts), and what the staff do to   *)
(* it (compliance, reversal, status, restrictions, payout methods).        *)
(*                                                                         *)
(* A handler is one request: a customer's, a member of staff's, or the     *)
(* delivery of a Dwolla event.  It takes a step per await, on rows that    *)
(* the other handlers share.  The KeyedMutex around the synchronisation    *)
(* holds within one process only; the handlers here are of different       *)
(* processes, which includes every order that one process allows.          *)
(* Amounts are left out: every entry of the ledger moves the one amount    *)
(* the transfer costs, so an entry is its reference.                       *)
(***************************************************************************)
EXTENDS Naturals, FiniteSets

CONSTANTS
  Handlers,     \* requests that may run at the same time
  Operations,   \* what they may be: a subset of AllOperations
  Screenings,   \* what the sanctions screening may answer
  Risky,        \* whether the transfer was created with risk flags
  AutoClear,    \* SANDBOX_COMPLIANCE_AUTO_CLEAR
  Topics,       \* the events that reach the API: a subset of Events
  Instant,      \* whether a bank debit may be settled before it is attached
  Crashes,      \* whether a process may stop
  MaxFaults     \* bound on lost calls and crashes

AllOperations ==
  {"fund", "refresh", "cancel", "review", "reverse", "status", "restrict", "suspend"}

ComplianceStatus == {"CLEAR", "REVIEW", "BLOCKED"}

Events == {"created", "completed", "failed", "cancelled"}

ASSUME ConstantsAssumption ==
  /\ Operations \subseteq AllOperations
  /\ Screenings \subseteq ComplianceStatus
  /\ Topics \subseteq Events
  /\ {Risky, AutoClear, Instant, Crashes} \subseteq BOOLEAN
  /\ MaxFaults \in Nat

FundingStatus ==
  {"PENDING", "PROCESSING", "COMPLETED", "FAILED", "CANCELLED", "REVERSED"}
TransferStage ==
  {"AWAITING_FUNDING", "FUNDING_PROCESSING", "COMPLIANCE_REVIEW",
   "PAYOUT_PROCESSING", "DELIVERED", "FAILED", "CANCELLED", "REVERSED"}
Entries == {"settled", "reversed", "reserved", "released"}
BankState == {"none", "pending", "processed", "failed", "cancelled"}

VARIABLES
  bank,       \* the debit at Dwolla
  debits,     \* how often a debit was asked for
  delivery,   \* each Dwolla event: not sent yet, sent, or the status of its row
  funding,    \* the funding transaction: "NONE" before it is reserved
  attached,   \* whether it names the debit at Dwolla
  ledger,     \* the references in the ledger
  transfer,   \* the transfer's row
  cleared,    \* whether a CLEAR decision is on record
  payouts,    \* submissions to the payout adapter, counted up to two
  work,       \* what each handler is doing
  faults

vars == <<bank, debits, delivery, funding, attached, ledger, transfer, cleared,
          payouts, work, faults>>
bankVars == <<bank, debits>>
fundingVars == <<funding, attached>>
payoutVars == <<cleared, payouts>>

(* What a handler remembers: where it stands, how it was called, the event *)
(* it handles, the status it has read or decided, and what it read of the  *)
(* funding before it writes.                                               *)
Idle == [at |-> "idle", via |-> "none", event |-> "none", status |-> "none",
         seen |-> "none", posted |-> {}]

Init ==
  /\ bank = "none" /\ debits = 0
  /\ delivery = [e \in Events |-> "none"]
  /\ funding = "NONE" /\ attached = FALSE
  /\ ledger = {}
  /\ transfer = [stage |-> "AWAITING_FUNDING", compliance |-> "REVIEW",
                 immutable |-> FALSE, submitted |-> FALSE]
  /\ cleared = FALSE /\ payouts = 0
  /\ work = [h \in Handlers |-> Idle]
  /\ faults = 0

At(h, place) == work[h].at = place
Start(h, place, how) == work' = [work EXCEPT ![h] = [Idle EXCEPT !.at = place, !.via = how]]
Goto(h, place) == work' = [work EXCEPT ![h].at = place]
Note(h, place, status) == work' = [work EXCEPT ![h].at = place, ![h].status = status]
Leave(h) == work' = [work EXCEPT ![h] = Idle]

(* A handler that is done; a webhook still has to complete its row. *)
Done(h) == IF work[h].via = "hook" THEN Goto(h, "completing") ELSE Leave(h)

(* An error leaves the handler: a webhook's row becomes FAILED. *)
Raise(h) ==
  /\ Leave(h)
  /\ delivery' = IF work[h].via = "hook"
                 THEN [delivery EXCEPT ![work[h].event] = "FAILED"] ELSE delivery

Emit(event) ==
  delivery' = [delivery EXCEPT ![event] = IF @ = "none" /\ event \in Topics THEN "sent" ELSE @]

---------------------------------------------------------------------------
(* Dwolla. *)

mapDwollaTransferStatus ==
  [pending |-> "PROCESSING", processed |-> "COMPLETED",
   failed |-> "FAILED", cancelled |-> "CANCELLED"]

(* The bank settles a debit, refuses it, or returns a settled one.  Unless *)
(* Instant, it takes longer than the request that made the debit.          *)
BankMoves ==
  /\ Instant \/ \A h \in Handlers : work[h].at \notin {"confirming", "attaching"}
  /\ \E next \in {"processed", "failed"} :
       /\ bank = "pending" \/ (bank = "processed" /\ next = "failed")
       /\ bank' = next
       /\ Emit(IF next = "processed" THEN "completed" ELSE "failed")
  /\ UNCHANGED <<debits, fundingVars, ledger, transfer, payoutVars, work, faults>>

---------------------------------------------------------------------------
(* POST /transfers/:id/funding and initiateFunding. *)

Fundable == transfer.stage \in {"AWAITING_FUNDING", "FUNDING_PROCESSING"}

(* A transfer that has a funding is answered with it, without a change. *)
Fund(h) ==
  /\ "fund" \in Operations /\ At(h, "idle")
  /\ funding = "NONE" /\ Fundable
  /\ Start(h, "reserving", "fund")
  /\ UNCHANGED <<bankVars, delivery, fundingVars, ledger, transfer, payoutVars, faults>>

(* Mutant of ReserveTransaction: rows are not unique per transfer. *)
ReserveTransactionAnew(h) ==
  /\ At(h, "reserving")
  /\ funding' = "PENDING"
  /\ Goto(h, "posting")
  /\ UNCHANGED <<bankVars, delivery, attached, ledger, transfer, payoutVars, faults>>

(* The row is unique per transfer and per idempotency key: a second        *)
(* request is a replay when it has the key, and refused when it has not.   *)
ReserveTransaction(h) ==
  /\ At(h, "reserving")
  /\ \/ /\ funding = "NONE"
        /\ funding' = "PENDING"
        /\ Goto(h, "posting")
     \/ /\ funding # "NONE"
        /\ Note(h, "syncing", funding) \/ Leave(h)
        /\ UNCHANGED funding
  /\ UNCHANGED <<bankVars, delivery, attached, ledger, transfer, payoutVars, faults>>

PostTransfer(h) ==
  /\ At(h, "posting")
  /\ bank' = "pending" /\ debits' = debits + 1
  /\ Emit("created")
  /\ Goto(h, "confirming")
  /\ UNCHANGED <<fundingVars, ledger, transfer, payoutVars, faults>>

ConfirmTransfer(h) ==
  /\ At(h, "confirming")
  /\ Note(h, "attaching", mapDwollaTransferStatus[bank])
  /\ UNCHANGED <<bankVars, delivery, fundingVars, ledger, transfer, payoutVars, faults>>

AttachProviderTransfer(h) ==
  /\ At(h, "attaching")
  /\ funding' = work[h].status /\ attached' = TRUE
  /\ Goto(h, "syncing")
  /\ UNCHANGED <<bankVars, delivery, ledger, transfer, payoutVars, faults>>

---------------------------------------------------------------------------
(* getFunding, cancelFunding and processWebhook. *)

Refresh(h) ==
  /\ "refresh" \in Operations /\ At(h, "idle") /\ attached
  /\ Start(h, "reading", "refresh")
  /\ UNCHANGED <<bankVars, delivery, fundingVars, ledger, transfer, payoutVars, faults>>

CancelFunding(h) ==
  /\ "cancel" \in Operations /\ At(h, "idle") /\ attached
  /\ bank = "pending" /\ bank' = "cancelled"
  /\ Emit("cancelled")
  /\ Start(h, "reading", "cancel")
  /\ UNCHANGED <<debits, fundingVars, ledger, transfer, payoutVars, faults>>

(* Mutant of Handleable: an event that failed is a duplicate. *)
HandleableOnce(event) == delivery[event] = "sent"

(* reserveWebhook: an event that is being handled, or was, is a duplicate. *)
Handleable(event) == delivery[event] \in {"sent", "FAILED"}

ReserveWebhook(h, event) ==
  /\ At(h, "idle") /\ Handleable(event)
  /\ delivery' = [delivery EXCEPT ![event] = "PROCESSING"]
  /\ work' = [work EXCEPT ![h] = [Idle EXCEPT !.at = "reading", !.via = "hook", !.event = event]]
  /\ UNCHANGED <<bankVars, fundingVars, ledger, transfer, payoutVars, faults>>

(* The status is always read from Dwolla.  An event whose debit no funding *)
(* names is completed and forgotten.                                       *)
ReadRemote(h) ==
  /\ At(h, "reading")
  /\ IF attached THEN Note(h, "applying", mapDwollaTransferStatus[bank])
     ELSE Goto(h, "completing")
  /\ UNCHANGED <<bankVars, delivery, fundingVars, ledger, transfer, payoutVars, faults>>

(* applyProviderStatus, the reads of its transaction. *)
ReadFunding(h) ==
  /\ At(h, "applying")
  /\ work' = [work EXCEPT ![h].at = "writing", ![h].seen = funding,
                          ![h].posted = ledger \cap {"settled", "reversed"}]
  /\ UNCHANGED <<bankVars, delivery, fundingVars, ledger, transfer, payoutVars, faults>>

Sticky(current, status) ==
  \/ current = "REVERSED"
  \/ current = "COMPLETED" /\ status \notin {"FAILED", "REVERSED"}
  \/ current \in {"FAILED", "CANCELLED"} /\ status # "REVERSED"

EffectiveStatus(current, posted, status) ==
  IF status \in {"FAILED", "REVERSED"} /\ "settled" \in posted THEN "REVERSED"
  ELSE IF Sticky(current, status) THEN current ELSE status

(* Mutant of Posting: the inverse entry is forgotten. *)
PostingSettlementOnly(effective, posted) == IF effective = "COMPLETED" THEN {"settled"} ELSE {}

Posting(effective, posted) ==
  CASE effective = "COMPLETED" -> {"settled"}
    [] effective = "REVERSED" /\ "settled" \in posted -> {"reversed"}
    [] OTHER -> {}

(* The write of the transaction.  The entry is looked up before it is      *)
(* made: one that another transaction commits in between violates the      *)
(* unique reference, and this one fails.                                   *)
ApplyProviderStatus(h) ==
  LET effective == EffectiveStatus(work[h].seen, work[h].posted, work[h].status)
      entry == Posting(effective, work[h].posted)
  IN /\ At(h, "writing")
     /\ \/ /\ funding' = effective
           /\ ledger' = ledger \cup entry
           /\ Note(h, "syncing", effective)
           /\ UNCHANGED delivery
        \/ /\ entry # {} /\ entry \subseteq ledger \ work[h].posted
           /\ Raise(h)
           /\ UNCHANGED <<funding, ledger>>
     /\ UNCHANGED <<bankVars, attached, transfer, payoutVars, faults>>

CompleteWebhook(h) ==
  /\ At(h, "completing")
  /\ delivery' = [delivery EXCEPT ![work[h].event] = "PROCESSED"]
  /\ Leave(h)
  /\ UNCHANGED <<bankVars, fundingVars, ledger, transfer, payoutVars, faults>>

---------------------------------------------------------------------------
(* syncTransferFromFunding, with the status of the record it was given. *)

Update(stage) == transfer' = [transfer EXCEPT !.stage = stage]

PayoutBegan == transfer.immutable \/ transfer.stage \in {"PAYOUT_PROCESSING", "DELIVERED"}

SyncCompleted(h) ==
  /\ At(h, "syncing") /\ work[h].status = "COMPLETED"
  /\ IF PayoutBegan THEN Done(h) ELSE Goto(h, "holding")
  /\ UNCHANGED <<bankVars, delivery, fundingVars, ledger, transfer, payoutVars, faults>>

SyncProcessing(h) ==
  /\ At(h, "syncing") /\ work[h].status \in {"PENDING", "PROCESSING"}
  /\ Update("FUNDING_PROCESSING")
  /\ Done(h)
  /\ UNCHANGED <<bankVars, delivery, fundingVars, ledger, payoutVars, faults>>

SyncFailed(h) ==
  /\ At(h, "syncing") /\ work[h].status \in {"FAILED", "CANCELLED"}
  /\ Update(work[h].status)
  /\ Done(h)
  /\ UNCHANGED <<bankVars, delivery, fundingVars, ledger, payoutVars, faults>>

SyncReversed(h) ==
  /\ At(h, "syncing") /\ work[h].status = "REVERSED"
  /\ Goto(h, "releasing")
  /\ UNCHANGED <<bankVars, delivery, fundingVars, ledger, transfer, payoutVars, faults>>

(* postRemittanceLedger: each entry once, and a release of what is held. *)
ReserveWallet(h) ==
  /\ At(h, "holding")
  /\ ledger' = ledger \cup {"reserved"}
  /\ Goto(h, "screening")
  /\ UNCHANGED <<bankVars, delivery, fundingVars, transfer, payoutVars, faults>>

(* Mutant of Released: money that was not held is released. *)
ReleasedAnyway == ledger \cup {"released"}

Released == IF "reserved" \in ledger THEN ledger \cup {"released"} ELSE ledger

ReleaseWallet(h) ==
  /\ \/ At(h, "releasing") /\ Goto(h, "reversing")
     \/ At(h, "returning") /\ Goto(h, "failing")
  /\ ledger' = Released
  /\ UNCHANGED <<bankVars, delivery, fundingVars, transfer, payoutVars, faults>>

CloseReversed(h) ==
  /\ At(h, "reversing")
  /\ Update("REVERSED")
  /\ Done(h)
  /\ UNCHANGED <<bankVars, delivery, fundingVars, ledger, payoutVars, faults>>

CloseFailed(h) ==
  /\ At(h, "failing")
  /\ Update("FAILED")
  /\ Done(h)
  /\ UNCHANGED <<bankVars, delivery, fundingVars, ledger, payoutVars, faults>>

(* The staff may lock the sender or stop its payouts, and lift that again, *)
(* between any two requests: a read finds either.                          *)
RestrictedNow == IF "restrict" \in Operations THEN BOOLEAN ELSE {FALSE}

ComplianceOf(restricted, screening) ==
  IF restricted \/ screening = "BLOCKED" THEN "BLOCKED"
  ELSE IF Risky \/ (screening # "CLEAR" /\ ~AutoClear) THEN "REVIEW" ELSE "CLEAR"

Screen(h) ==
  /\ At(h, "screening")
  /\ \E restricted \in RestrictedNow, screening \in Screenings :
       Note(h, "deciding", ComplianceOf(restricted, screening))
  /\ UNCHANGED <<bankVars, delivery, fundingVars, ledger, transfer, payoutVars, faults>>

Decide(h) ==
  LET decision == work[h].status
  IN /\ At(h, "deciding")
     /\ transfer' = [transfer EXCEPT
                       !.compliance = decision,
                       !.stage = IF decision = "CLEAR" THEN "FUNDING_PROCESSING"
                                 ELSE "COMPLIANCE_REVIEW"]
     /\ cleared' = (cleared \/ decision = "CLEAR")
     /\ IF decision = "CLEAR" THEN Goto(h, "submitting") ELSE Done(h)
     /\ UNCHANGED <<bankVars, delivery, fundingVars, ledger, payouts, faults>>

Counted == IF payouts < 2 THEN payouts + 1 ELSE payouts

(* So with the payout method, which they may suspend and resume. *)
SuspendedNow == IF "suspend" \in Operations THEN BOOLEAN ELSE {FALSE}

(* assertPayoutOperational and the adapter. *)
SubmitPayout(h) ==
  /\ At(h, "submitting")
  /\ \E suspended \in SuspendedNow :
       IF suspended
       THEN Goto(h, "returning") /\ UNCHANGED payouts
       ELSE Goto(h, "paying") /\ payouts' = Counted
  /\ UNCHANGED <<bankVars, delivery, fundingVars, ledger, transfer, cleared, faults>>

PaidOut == [transfer EXCEPT !.stage = "PAYOUT_PROCESSING", !.immutable = TRUE, !.submitted = TRUE]

RecordPayout(h) ==
  /\ At(h, "paying")
  /\ transfer' = PaidOut
  /\ Done(h)
  /\ UNCHANGED <<bankVars, delivery, fundingVars, ledger, payoutVars, faults>>

---------------------------------------------------------------------------
(* The staff.  Each request checks a row it has read, and writes it later. *)

(* Mutant of ReviewAllowed: a reviewer clears what is not funded. *)
ReviewAllowedUnfunded(decision) ==
  /\ transfer.immutable => decision = transfer.compliance
  /\ decision = "CLEAR" => FALSE \in RestrictedNow

ReviewAllowed(decision) ==
  /\ transfer.immutable => decision = transfer.compliance
  /\ decision = "CLEAR" => /\ FALSE \in RestrictedNow
                          /\ transfer.stage = "COMPLIANCE_REVIEW"
                          /\ funding = "COMPLETED"

ReviewCompliance(h) ==
  /\ "review" \in Operations /\ At(h, "idle")
  /\ \E decision \in ComplianceStatus :
       /\ ReviewAllowed(decision)
       /\ work' = [work EXCEPT ![h] = [Idle EXCEPT !.at = "reviewing", !.via = "review",
                                                   !.status = decision]]
  /\ UNCHANGED <<bankVars, delivery, fundingVars, ledger, transfer, payoutVars, faults>>

(* The decision is recorded before the payout method is looked at. *)
ClearCompliance(h) ==
  /\ At(h, "reviewing") /\ work[h].status = "CLEAR"
  /\ cleared' = TRUE
  /\ \E suspended \in SuspendedNow :
       IF suspended
       THEN Leave(h) /\ UNCHANGED payouts
       ELSE Goto(h, "clearing") /\ payouts' = Counted
  /\ UNCHANGED <<bankVars, delivery, fundingVars, ledger, transfer, faults>>

RecordClearance(h) ==
  /\ At(h, "clearing")
  /\ transfer' = [PaidOut EXCEPT !.compliance = "CLEAR"]
  /\ Leave(h)
  /\ UNCHANGED <<bankVars, delivery, fundingVars, ledger, payoutVars, faults>>

HoldForCompliance(h) ==
  /\ At(h, "reviewing") /\ work[h].status # "CLEAR"
  /\ transfer' = [transfer EXCEPT !.compliance = work[h].status, !.stage = "COMPLIANCE_REVIEW"]
  /\ Leave(h)
  /\ UNCHANGED <<bankVars, delivery, fundingVars, ledger, payoutVars, faults>>

ReverseTransfer(h) ==
  /\ "reverse" \in Operations /\ At(h, "idle")
  /\ transfer.stage \in {"PAYOUT_PROCESSING", "DELIVERED", "FAILED"}
  /\ Start(h, "releasing", "reverse")
  /\ UNCHANGED <<bankVars, delivery, fundingVars, ledger, transfer, payoutVars, faults>>

Deliverable ==
  /\ transfer.stage = "PAYOUT_PROCESSING" /\ transfer.submitted
  /\ transfer.compliance = "CLEAR"

SetStatus(h) ==
  /\ "status" \in Operations /\ At(h, "idle")
  /\ \/ Deliverable /\ Start(h, "delivering", "status")
     \/ Start(h, IF transfer.stage = "PAYOUT_PROCESSING" THEN "returning" ELSE "failing", "status")
  /\ UNCHANGED <<bankVars, delivery, fundingVars, ledger, transfer, payoutVars, faults>>

RecordDelivery(h) ==
  /\ At(h, "delivering")
  /\ Update("DELIVERED")
  /\ Leave(h)
  /\ UNCHANGED <<bankVars, delivery, fundingVars, ledger, payoutVars, faults>>

---------------------------------------------------------------------------
(* Faults: a lost call of a step, or the end of the process. *)

Fault == faults < MaxFaults /\ faults' = faults + 1

(* An error before the debit is attached marks the funding FAILED, although *)
(* Dwolla may have made the debit; one of the payout returns the money,     *)
(* although it may have been submitted; any other leaves the handler.       *)
CallFails(h) ==
  /\ Fault /\ ~At(h, "idle")
  /\ CASE work[h].at \in {"posting", "confirming", "attaching"} ->
            Note(h, "applying", "FAILED") /\ UNCHANGED delivery
       [] work[h].at \in {"submitting", "paying"} -> Goto(h, "returning") /\ UNCHANGED delivery
       [] OTHER -> Raise(h)
  /\ UNCHANGED <<bankVars, fundingVars, ledger, transfer, payoutVars>>

Crash(h) ==
  /\ Crashes /\ Fault /\ ~At(h, "idle")
  /\ Leave(h)
  /\ UNCHANGED <<bankVars, delivery, fundingVars, ledger, transfer, payoutVars>>

---------------------------------------------------------------------------
FundingStep(h) ==
  \/ ReserveTransaction(h) \/ PostTransfer(h) \/ ConfirmTransfer(h)
  \/ AttachProviderTransfer(h) \/ ReadRemote(h) \/ ReadFunding(h)
  \/ ApplyProviderStatus(h) \/ CompleteWebhook(h)

SyncStep(h) ==
  \/ SyncCompleted(h) \/ SyncProcessing(h) \/ SyncFailed(h) \/ SyncReversed(h)
  \/ ReserveWallet(h) \/ ReleaseWallet(h) \/ CloseReversed(h) \/ CloseFailed(h)
  \/ Screen(h) \/ Decide(h) \/ SubmitPayout(h) \/ RecordPayout(h)

StaffStep(h) ==
  \/ ClearCompliance(h) \/ RecordClearance(h) \/ HoldForCompliance(h) \/ RecordDelivery(h)

Continue(h) == FundingStep(h) \/ SyncStep(h) \/ StaffStep(h)

Request(h) ==
  \/ Fund(h) \/ Refresh(h) \/ CancelFunding(h)
  \/ ReviewCompliance(h) \/ ReverseTransfer(h) \/ SetStatus(h)

Deliver(h) == \E event \in Events : ReserveWebhook(h, event)

Next ==
  \/ BankMoves
  \/ \E h \in Handlers : Continue(h) \/ Request(h) \/ Deliver(h) \/ CallFails(h) \/ Crash(h)

Spec == Init /\ [][Next]_vars

(* A running handler goes on, and Dwolla sends an event again until it is  *)
(* answered; nobody has to make a request, and the bank need not move.     *)
Fairness ==
  /\ \A h \in Handlers : WF_vars(Continue(h))
  /\ \A event \in Events : SF_vars(\E h \in Handlers : ReserveWebhook(h, event))

FairSpec == Spec /\ Fairness

---------------------------------------------------------------------------
(* Properties. *)

(* Every variable keeps its type, and the ledger holds each entry once.    *)
TypeOK ==
  /\ bank \in BankState /\ debits \in Nat
  /\ delivery \in [Events -> {"none", "sent", "PROCESSING", "PROCESSED", "FAILED"}]
  /\ funding \in FundingStatus \cup {"NONE"} /\ attached \in BOOLEAN
  /\ ledger \subseteq Entries
  /\ transfer \in [stage : TransferStage, compliance : ComplianceStatus,
                   immutable : BOOLEAN, submitted : BOOLEAN]
  /\ cleared \in BOOLEAN /\ payouts \in 0..2
  /\ faults \in 0..MaxFaults

(* The bank is asked for the money of a transfer once, whatever is retried *)
(* and whoever asks at the same time (reserveTransaction).                 *)
DebitedOnce == debits <= 1

(* A funding says COMPLETED only with its settlement in the ledger, and    *)
(* REVERSED only with the settlement and its inverse (DWOLLA_SANDBOX.md,   *)
(* 7 and 8; runPrismaReconciliation reports the first as a discrepancy).   *)
StatusIsBooked ==
  /\ funding = "COMPLETED" => "settled" \in ledger
  /\ funding = "REVERSED" => {"settled", "reversed"} \subseteq ledger

(* Nothing is paid out before the bank's money was booked and somebody     *)
(* recorded a CLEAR decision, and nothing is delivered that was not        *)
(* submitted (README.md: a compliance gate between confirmed funding and   *)
(* payout).                                                                *)
PayoutIsGated ==
  /\ payouts > 0 => "settled" \in ledger /\ cleared
  /\ transfer.submitted \/ transfer.stage = "DELIVERED" => payouts > 0

(* The money moves as the escrow says: held after it was settled, paid out *)
(* after it was cleared, given back when it was held (postRemittanceLedger *)
(* and the payout adapter, by whichever handler calls them).               *)
Promise == INSTANCE Escrow WITH entries <- ledger

KeepsEscrow == Promise!Spec

(* An event whose handling a crash has ended: it is a duplicate for ever.  *)
Orphaned(event) ==
  delivery[event] = "PROCESSING" /\ \A h \in Handlers : work[h].event # event

(* What the bank has settled is booked in the end, although handlings of   *)
(* the event fail and are repeated, unless the bank takes it back: only a  *)
(* crash in the middle of a handling loses it (reserveWebhook,             *)
(* failWebhook).  The status of the funding may still fall behind, when a  *)
(* handler writes last what it read first.                                 *)
BankIsHeard ==
  (attached /\ bank = "processed") ~>
    "settled" \in ledger \/ bank # "processed" \/ Orphaned("completed")

(* Settled money is held for the transfer, unless the bank takes it back   *)
(* or the process that was handling the event stopped (then only a refresh *)
(* by the customer goes on: nothing else looks at a settled funding).      *)
SettledIsHeld ==
  "settled" \in ledger ~>
    "reserved" \in ledger \/ bank = "failed" \/ \E event \in Events : Orphaned(event)

(* What a document promises and the code does not keep: an ACH return of a *)
(* settled debit leaves the funding REVERSED.                              *)
ReturnIsFinal == "reversed" \in ledger => funding = "REVERSED"

(* The gate again, at the moment of the submission: a payout is submitted  *)
(* while the funding is confirmed.                                         *)
PaidOutWhileFunded == [][payouts' > payouts => funding = "COMPLETED"]_vars
=============================================================================
