-------------------------- MODULE RemittanceProofs --------------------------
(***************************************************************************)
(* Proofs about Remittance, for every set of handlers, every choice of     *)
(* operations, screenings and topics and every number of faults, where the *)
(* bank takes longer than the request that made the debit.                 *)
(***************************************************************************)
EXTENDS Remittance, TLAPS

BankIsSlow == Instant = FALSE

---------------------------------------------------------------------------
(* The inductive invariant.                                                *)

Place ==
  {"idle", "reserving", "posting", "confirming", "attaching", "reading", "applying", "writing",
   "completing", "syncing", "holding", "releasing", "reversing", "returning", "failing",
   "screening", "deciding", "submitting", "paying", "reviewing", "clearing", "delivering"}

Way == {"none", "fund", "refresh", "cancel", "hook", "review", "reverse", "status"}

Status == FundingStatus \cup ComplianceStatus \cup {"NONE", "none"}

Local == [at : Place, via : Way, event : Events \cup {"none"}, status : Status,
          seen : Status, posted : SUBSET Entries]

TypesHold == TypeOK /\ work \in [Handlers -> Local]

(* One handler posts the debit, before there is any, and for a funding     *)
(* that exists; what is attached exists.                                   *)
OnePoster ==
  /\ debits <= 1
  /\ debits > 0 => funding # "NONE"
  /\ attached => bank # "none"
  /\ \A g \in Handlers : At(g, "posting") =>
       /\ debits = 0 /\ funding # "NONE"
       /\ \A h \in Handlers : At(h, "posting") => g = h

(* What a handler remembers of the funding may be old, and what it goes by *)
(* holds all the same: the ledger only grows.                              *)
FundingWork(h) ==
  /\ At(h, "confirming") => bank \in {"pending", "cancelled"}
  /\ At(h, "attaching") => work[h].status \in {"PROCESSING", "CANCELLED"} /\ bank # "none"
  /\ work[h].at \in {"applying", "writing"} =>
       work[h].status \in {"PROCESSING", "COMPLETED", "FAILED", "CANCELLED"}
  /\ At(h, "writing") =>
       /\ work[h].posted \subseteq ledger
       /\ work[h].seen \in FundingStatus \cup {"NONE"}
       /\ work[h].seen = "COMPLETED" => "settled" \in ledger
       /\ work[h].seen = "REVERSED" => {"settled", "reversed"} \subseteq ledger

SyncWork(h) ==
  /\ At(h, "syncing") /\ work[h].status = "COMPLETED" => "settled" \in ledger
  /\ work[h].at \in {"holding", "screening", "deciding", "submitting", "paying"} =>
       "settled" \in ledger
  /\ At(h, "deciding") => work[h].status \in ComplianceStatus
  /\ At(h, "submitting") => cleared

StaffWork(h) ==
  /\ At(h, "reviewing") =>
       work[h].status \in ComplianceStatus /\ (work[h].status = "CLEAR" => "settled" \in ledger)
  /\ work[h].at \in {"paying", "clearing", "delivering"} => payouts > 0

WorkIsSound == \A h \in Handlers : FundingWork(h) /\ SyncWork(h) /\ StaffWork(h)

IInv == TypesHold /\ OnePoster /\ StatusIsBooked /\ PayoutIsGated /\ WorkIsSound
---------------------------------------------------------------------------
(* What a move of a handler does.                                          *)

Moves(h, l) == l \in Local /\ work' \in [Handlers -> Local] /\ work'[h] = l
               /\ \A g \in Handlers \ {h} : work'[g] = work[g]

LEMMA IdleIsLocal == Idle \in Local
BY DEF Idle, Local, Place, Way, Status

LEMMA GotoMoves ==
  ASSUME TypesHold, NEW h \in Handlers, NEW place \in Place, Goto(h, place)
  PROVE  Moves(h, [work[h] EXCEPT !.at = place])
BY DEF TypesHold, Goto, Moves, Local

LEMMA NoteMoves ==
  ASSUME TypesHold, NEW h \in Handlers, NEW place \in Place, NEW status \in Status,
         Note(h, place, status)
  PROVE  Moves(h, [work[h] EXCEPT !.at = place, !.status = status])
BY DEF TypesHold, Note, Moves, Local

LEMMA LeaveMoves ==
  ASSUME TypesHold, NEW h \in Handlers, Leave(h)
  PROVE  Moves(h, Idle)
BY IdleIsLocal DEF TypesHold, Leave, Moves

LEMMA StartMoves ==
  ASSUME TypesHold, NEW h \in Handlers, NEW place \in Place, NEW how \in Way,
         Start(h, place, how)
  PROVE  Moves(h, [Idle EXCEPT !.at = place, !.via = how])
<1>1. [Idle EXCEPT !.at = place, !.via = how] \in Local
  BY IdleIsLocal DEF Local
<1> QED BY <1>1 DEF TypesHold, Start, Moves

\* A handler that is done is idle, or completes the row of its event.
LEMMA DoneMoves ==
  ASSUME TypesHold, NEW h \in Handlers, Done(h)
  PROVE  \E l \in Local : Moves(h, l) /\ l.at \in {"idle", "completing"}
<1>1. CASE Leave(h)
  BY <1>1, LeaveMoves, IdleIsLocal DEF Idle
<1>2. CASE Goto(h, "completing")
  <2>1. Moves(h, [work[h] EXCEPT !.at = "completing"])
    BY <1>2, GotoMoves DEF Place
  <2> QED BY <2>1 DEF TypesHold, Local, Moves
<1> QED BY <1>1, <1>2 DEF Done

---------------------------------------------------------------------------
(* The invariant is kept by a step that only adds to the ledger, to the    *)
(* decisions and to the payouts, if where it moves its handler fits.       *)

Grows ==
  /\ ledger \subseteq ledger' /\ (cleared => cleared') /\ (payouts > 0 => payouts' > 0)
  /\ bank' = bank \/ bank' \in {"pending", "cancelled"}

WorkFits(h) == FundingWork(h)' /\ SyncWork(h)' /\ StaffWork(h)'

LEMMA OthersStaySound ==
  ASSUME IInv, NEW h \in Handlers, NEW l, Moves(h, l), Grows
  PROVE  \A g \in Handlers \ {h} : WorkFits(g)
<1> SUFFICES ASSUME NEW g \in Handlers \ {h} PROVE WorkFits(g)
  OBVIOUS
<1>1. work'[g] = work[g] /\ FundingWork(g) /\ SyncWork(g) /\ StaffWork(g)
  BY DEF Moves, IInv, WorkIsSound
<1>2. FundingWork(g)'
  BY <1>1 DEF FundingWork, At, Grows
<1>3. SyncWork(g)'
  BY <1>1 DEF SyncWork, At, Grows
<1>4. StaffWork(g)'
  BY <1>1 DEF StaffWork, At, Grows
<1> QED BY <1>2, <1>3, <1>4 DEF WorkFits

LEMMA FitsKeepsWork ==
  ASSUME IInv, NEW h \in Handlers, NEW l, Moves(h, l), Grows, WorkFits(h)
  PROVE  WorkIsSound'
BY OthersStaySound DEF WorkFits, WorkIsSound

Money == <<bank, debits, funding, attached, ledger, transfer, cleared, payouts>>
Counters == delivery' \in [Events -> {"none", "sent", "PROCESSING", "PROCESSED", "FAILED"}]
            /\ faults' \in 0..MaxFaults

LEMMA MoveKeeps ==
  ASSUME IInv, NEW h \in Handlers, NEW l, Moves(h, l), UNCHANGED Money, Counters,
         l.at # "posting", WorkFits(h)
  PROVE  IInv'
<1>1. TypesHold'
  BY DEF IInv, TypesHold, TypeOK, Money, Counters, Moves
<1>2. OnePoster'
  BY DEF IInv, OnePoster, Money, Moves, At
<1>3. StatusIsBooked' /\ PayoutIsGated'
  BY DEF IInv, StatusIsBooked, PayoutIsGated, Money
<1>4. Grows
  BY DEF Grows, Money
<1>5. WorkIsSound'
  BY <1>4, FitsKeepsWork
<1> QED BY <1>1, <1>2, <1>3, <1>5 DEF IInv

LEMMA Resting ==
  ASSUME NEW h \in Handlers, NEW l, Moves(h, l),
         l.at \in {"idle", "completing", "reserving", "reading", "releasing", "returning",
                   "reversing", "failing"}
  PROVE  WorkFits(h)
<1>1. FundingWork(h)'
  BY DEF Moves, FundingWork, At
<1>2. SyncWork(h)'
  BY DEF Moves, SyncWork, At
<1>3. StaffWork(h)'
  BY DEF Moves, StaffWork, At
<1> QED BY <1>1, <1>2, <1>3 DEF WorkFits

LEMMA RestKeeps ==
  ASSUME IInv, NEW h \in Handlers, NEW l, Moves(h, l), UNCHANGED Money, Counters,
         l.at \in {"idle", "completing", "reserving", "reading", "releasing", "returning",
                   "reversing", "failing"}
  PROVE  IInv'
BY Resting, MoveKeeps

LEMMA StillCounts ==
  ASSUME IInv, UNCHANGED faults,
         delivery' = delivery \/ \E e, to : to \in {"sent", "PROCESSING", "PROCESSED", "FAILED"}
                                          /\ delivery' = [delivery EXCEPT ![e] = to]
  PROVE  Counters
BY DEF IInv, TypesHold, TypeOK, Counters

LEMMA EmitCounts ==
  ASSUME IInv, UNCHANGED faults, NEW event, Emit(event)
  PROVE  Counters
BY DEF IInv, TypesHold, TypeOK, Counters, Emit

LEMMA FaultCounts ==
  ASSUME IInv, Fault, UNCHANGED delivery
  PROVE  Counters
BY ConstantsAssumption DEF IInv, TypesHold, TypeOK, Counters, Fault

LEMMA HoldingTypes == IInv => TypesHold
BY DEF IInv

---------------------------------------------------------------------------
(* The funding. *)

LEMMA BankMovesKeeps ==
  ASSUME IInv, BankIsSlow, BankMoves
  PROVE  IInv'
<1>1. Counters
  BY EmitCounts DEF BankMoves
<1>2. TypesHold'
  BY <1>1 DEF IInv, TypesHold, TypeOK, Counters, BankMoves, BankState, bankVars, fundingVars, payoutVars
<1>3. OnePoster'
  BY DEF IInv, OnePoster, BankMoves, fundingVars, At
<1>4. StatusIsBooked' /\ PayoutIsGated'
  BY DEF IInv, StatusIsBooked, PayoutIsGated, BankMoves, fundingVars, payoutVars
<1>5. ASSUME NEW g \in Handlers PROVE WorkFits(g)
  <2>1. FundingWork(g) /\ SyncWork(g) /\ StaffWork(g)
    BY DEF IInv, WorkIsSound
  <2>2. FundingWork(g)'
    BY <2>1 DEF FundingWork, At, BankMoves, BankIsSlow
  <2>3. SyncWork(g)' /\ StaffWork(g)'
    BY <2>1 DEF SyncWork, StaffWork, At, BankMoves, payoutVars
  <2> QED BY <2>2, <2>3 DEF WorkFits
<1> QED BY <1>2, <1>3, <1>4, <1>5 DEF IInv, WorkIsSound, WorkFits

LEMMA FundKeeps ==
  ASSUME IInv, NEW h \in Handlers, Fund(h)
  PROVE  IInv'
<1>1. Moves(h, [Idle EXCEPT !.at = "reserving", !.via = "fund"])
  BY HoldingTypes, StartMoves DEF Fund, Place, Way
<1>2. UNCHANGED Money /\ Counters
  BY StillCounts DEF Fund, Money, bankVars, fundingVars, payoutVars
<1> QED BY <1>1, <1>2, RestKeeps DEF Idle

LEMMA ReserveTransactionKeeps ==
  ASSUME IInv, NEW h \in Handlers, ReserveTransaction(h)
  PROVE  IInv'
<1>1. Counters
  BY StillCounts DEF ReserveTransaction
<1>2. CASE funding = "NONE"
  <2>1. funding' = "PENDING" /\ Moves(h, [work[h] EXCEPT !.at = "posting"])
    BY <1>2, HoldingTypes, GotoMoves DEF ReserveTransaction, Place
  <2>2. work'[h].at = "posting" /\ \A g \in Handlers \ {h} : work'[g] = work[g]
    BY <2>1 DEF Moves, IInv, TypesHold, Local
  <2>3. TypesHold'
    BY <1>1, <2>1 DEF IInv, TypesHold, TypeOK, Counters, Moves, ReserveTransaction, FundingStatus,
       bankVars, payoutVars
  <2>4. debits = 0 /\ \A g \in Handlers : ~At(g, "posting")
    BY <1>2 DEF IInv, OnePoster, TypesHold, TypeOK
  <2>5. OnePoster'
    BY <2>1, <2>2, <2>4 DEF IInv, OnePoster, At, ReserveTransaction, bankVars
  <2>6. StatusIsBooked' /\ PayoutIsGated'
    BY <2>1 DEF IInv, StatusIsBooked, PayoutIsGated, ReserveTransaction, payoutVars
  <2>7. Grows
    BY DEF Grows, ReserveTransaction, bankVars, payoutVars
  <2>8. WorkFits(h)
    BY <2>2 DEF WorkFits, FundingWork, SyncWork, StaffWork, At
  <2> QED BY <2>1, <2>3, <2>5, <2>6, <2>7, <2>8, FitsKeepsWork DEF IInv
<1>3. CASE funding # "NONE"
  <2>1. UNCHANGED Money
    BY <1>3 DEF ReserveTransaction, Money, bankVars, payoutVars
  <2>2. CASE Leave(h)
    BY <1>1, <2>1, <2>2, HoldingTypes, LeaveMoves, RestKeeps DEF Idle
  <2>3. CASE Note(h, "syncing", funding)
    <3>1. Moves(h, [work[h] EXCEPT !.at = "syncing", !.status = funding])
      BY <2>3, HoldingTypes, NoteMoves DEF Place, Status, IInv, TypesHold, TypeOK
    <3>2. work'[h].at = "syncing" /\ work'[h].status = funding
      BY <3>1 DEF Moves, IInv, TypesHold, Local
    <3>3. WorkFits(h)
      BY <2>1, <3>2 DEF WorkFits, FundingWork, SyncWork, StaffWork, At, IInv, StatusIsBooked, Money
    <3> QED BY <1>1, <2>1, <3>1, <3>2, <3>3, MoveKeeps DEF Moves
  <2> QED BY <1>3, <2>2, <2>3 DEF ReserveTransaction
<1> QED BY <1>2, <1>3

LEMMA PostTransferKeeps ==
  ASSUME IInv, NEW h \in Handlers, PostTransfer(h)
  PROVE  IInv'
<1>1. Counters
  BY EmitCounts DEF PostTransfer
<1>2. Moves(h, [work[h] EXCEPT !.at = "confirming"])
  BY HoldingTypes, GotoMoves DEF PostTransfer, Place
<1>3. work'[h].at = "confirming" /\ \A g \in Handlers \ {h} : work'[g] = work[g]
  BY <1>2 DEF Moves, IInv, TypesHold, Local
<1>4. TypesHold'
  BY <1>1, <1>2 DEF IInv, TypesHold, TypeOK, Counters, Moves, PostTransfer, BankState,
     fundingVars, payoutVars
<1>5. debits = 0 /\ funding # "NONE" /\ \A g \in Handlers \ {h} : ~At(g, "posting")
  BY DEF IInv, OnePoster, PostTransfer
<1>6. OnePoster'
  BY <1>3, <1>5 DEF IInv, OnePoster, At, PostTransfer, fundingVars
<1>7. StatusIsBooked' /\ PayoutIsGated'
  BY DEF IInv, StatusIsBooked, PayoutIsGated, PostTransfer, fundingVars, payoutVars
<1>8. Grows
  BY DEF Grows, PostTransfer, payoutVars
<1>9. WorkFits(h)
  BY <1>3 DEF WorkFits, FundingWork, SyncWork, StaffWork, At, PostTransfer
<1> QED BY <1>2, <1>4, <1>6, <1>7, <1>8, <1>9, FitsKeepsWork DEF IInv

LEMMA ConfirmTransferKeeps ==
  ASSUME IInv, NEW h \in Handlers, ConfirmTransfer(h)
  PROVE  IInv'
<1>1. FundingWork(h)
  BY DEF IInv, WorkIsSound
<1>2. bank \in {"pending", "cancelled"}
  BY <1>1 DEF FundingWork, ConfirmTransfer
<1>3. mapDwollaTransferStatus[bank] \in {"PROCESSING", "CANCELLED"}
  BY <1>2 DEF mapDwollaTransferStatus
<1>4. Moves(h, [work[h] EXCEPT !.at = "attaching", !.status = mapDwollaTransferStatus[bank]])
  BY <1>3, HoldingTypes, NoteMoves DEF ConfirmTransfer, Place, Status, FundingStatus
<1>5. work'[h].at = "attaching" /\ work'[h].status \in {"PROCESSING", "CANCELLED"}
  BY <1>3, <1>4 DEF Moves, IInv, TypesHold, Local
<1>6. UNCHANGED Money /\ Counters
  BY StillCounts DEF ConfirmTransfer, Money, bankVars, fundingVars, payoutVars
<1>7. WorkFits(h)
  BY <1>2, <1>5, <1>6 DEF WorkFits, FundingWork, SyncWork, StaffWork, At, Money
<1> QED BY <1>4, <1>5, <1>6, <1>7, MoveKeeps DEF Moves

LEMMA AttachProviderTransferKeeps ==
  ASSUME IInv, NEW h \in Handlers, AttachProviderTransfer(h)
  PROVE  IInv'
<1>1. FundingWork(h) /\ At(h, "attaching")
  BY DEF IInv, WorkIsSound, AttachProviderTransfer
<1>2. work[h].status \in {"PROCESSING", "CANCELLED"} /\ bank # "none"
  BY <1>1 DEF FundingWork
<1>3. Moves(h, [work[h] EXCEPT !.at = "syncing"])
  BY HoldingTypes, GotoMoves DEF AttachProviderTransfer, Place
<1>4. /\ work'[h].at = "syncing" /\ work'[h].status = work[h].status
      /\ \A g \in Handlers \ {h} : work'[g] = work[g]
  BY <1>3 DEF Moves, IInv, TypesHold, Local
<1>5. funding' = work[h].status /\ attached' = TRUE /\ Counters
  BY StillCounts DEF AttachProviderTransfer
<1>6. TypesHold'
  BY <1>2, <1>3, <1>5 DEF IInv, TypesHold, TypeOK, Counters, Moves, AttachProviderTransfer,
     FundingStatus, bankVars, payoutVars
<1>7. OnePoster'
  BY <1>2, <1>4, <1>5 DEF IInv, OnePoster, At, AttachProviderTransfer, bankVars
<1>8. StatusIsBooked' /\ PayoutIsGated'
  BY <1>2, <1>5 DEF IInv, StatusIsBooked, PayoutIsGated, AttachProviderTransfer, payoutVars
<1>9. Grows
  BY DEF Grows, AttachProviderTransfer, bankVars, payoutVars
<1>10. WorkFits(h)
  BY <1>2, <1>4 DEF WorkFits, FundingWork, SyncWork, StaffWork, At
<1> QED BY <1>3, <1>6, <1>7, <1>8, <1>9, <1>10, FitsKeepsWork DEF IInv

LEMMA RefreshKeeps ==
  ASSUME IInv, NEW h \in Handlers, Refresh(h)
  PROVE  IInv'
<1>1. Moves(h, [Idle EXCEPT !.at = "reading", !.via = "refresh"])
  BY HoldingTypes, StartMoves DEF Refresh, Place, Way
<1>2. UNCHANGED Money /\ Counters
  BY StillCounts DEF Refresh, Money, bankVars, fundingVars, payoutVars
<1> QED BY <1>1, <1>2, RestKeeps DEF Idle

LEMMA CancelFundingKeeps ==
  ASSUME IInv, NEW h \in Handlers, CancelFunding(h)
  PROVE  IInv'
<1>1. Moves(h, [Idle EXCEPT !.at = "reading", !.via = "cancel"])
  BY HoldingTypes, StartMoves DEF CancelFunding, Place, Way
<1>2. Counters
  BY EmitCounts DEF CancelFunding
<1>3. TypesHold'
  BY <1>1, <1>2 DEF IInv, TypesHold, TypeOK, Counters, Moves, CancelFunding, BankState,
     fundingVars, payoutVars
<1>4. OnePoster'
  BY <1>1 DEF IInv, OnePoster, At, CancelFunding, Moves, Idle, fundingVars
<1>5. StatusIsBooked' /\ PayoutIsGated'
  BY DEF IInv, StatusIsBooked, PayoutIsGated, CancelFunding, fundingVars, payoutVars
<1>6. Grows
  BY DEF Grows, CancelFunding, payoutVars
<1>7. WorkFits(h)
  BY <1>1, Resting DEF Idle
<1> QED BY <1>1, <1>3, <1>4, <1>5, <1>6, <1>7, FitsKeepsWork DEF IInv

LEMMA ReserveWebhookKeeps ==
  ASSUME IInv, NEW h \in Handlers, NEW event \in Events, ReserveWebhook(h, event)
  PROVE  IInv'
<1> DEFINE l == [Idle EXCEPT !.at = "reading", !.via = "hook", !.event = event]
<1>1. l \in Local /\ l.at = "reading"
  BY IdleIsLocal DEF Local, Place, Way, Idle
<1>2. Moves(h, l)
  BY <1>1 DEF ReserveWebhook, Moves, IInv, TypesHold
<1>3. UNCHANGED Money /\ Counters
  BY StillCounts DEF ReserveWebhook, Money, bankVars, fundingVars, payoutVars
<1> QED BY <1>1, <1>2, <1>3, RestKeeps

LEMMA ReadRemoteKeeps ==
  ASSUME IInv, NEW h \in Handlers, ReadRemote(h)
  PROVE  IInv'
<1>1. UNCHANGED Money /\ Counters
  BY StillCounts DEF ReadRemote, Money, bankVars, fundingVars, payoutVars
<1>2. CASE ~attached
  <2>1. Moves(h, [work[h] EXCEPT !.at = "completing"])
    BY <1>2, HoldingTypes, GotoMoves DEF ReadRemote, Place
  <2>2. [work[h] EXCEPT !.at = "completing"].at = "completing"
    BY DEF IInv, TypesHold, Local
  <2> QED BY <1>1, <2>1, <2>2, RestKeeps
<1>3. CASE attached
  <2>1. mapDwollaTransferStatus[bank] \in {"PROCESSING", "COMPLETED", "FAILED", "CANCELLED"}
    BY <1>3 DEF IInv, TypesHold, TypeOK, OnePoster, BankState, mapDwollaTransferStatus
  <2>2. Moves(h, [work[h] EXCEPT !.at = "applying", !.status = mapDwollaTransferStatus[bank]])
    BY <1>3, <2>1, HoldingTypes, NoteMoves DEF ReadRemote, Place, Status, FundingStatus
  <2>3. work'[h].at = "applying"
        /\ work'[h].status \in {"PROCESSING", "COMPLETED", "FAILED", "CANCELLED"}
    BY <2>1, <2>2 DEF Moves, IInv, TypesHold, Local
  <2>4. WorkFits(h)
    BY <2>3 DEF WorkFits, FundingWork, SyncWork, StaffWork, At
  <2> QED BY <1>1, <2>2, <2>3, <2>4, MoveKeeps DEF Moves
<1> QED BY <1>2, <1>3

LEMMA ReadFundingKeeps ==
  ASSUME IInv, NEW h \in Handlers, ReadFunding(h)
  PROVE  IInv'
<1> DEFINE l == [work[h] EXCEPT !.at = "writing", !.seen = funding,
                                !.posted = ledger \cap {"settled", "reversed"}]
<1>1. funding \in Status /\ ledger \cap {"settled", "reversed"} \in SUBSET Entries
  BY DEF IInv, TypesHold, TypeOK, Status
<1>2. /\ l \in Local /\ l.at = "writing" /\ l.seen = funding /\ l.status = work[h].status
      /\ l.posted = ledger \cap {"settled", "reversed"}
  BY <1>1 DEF IInv, TypesHold, Local, Place
<1>3. Moves(h, l)
  BY <1>2 DEF ReadFunding, Moves, IInv, TypesHold
<1>4. UNCHANGED Money /\ Counters
  BY StillCounts DEF ReadFunding, Money, bankVars, fundingVars, payoutVars
<1>5. FundingWork(h) /\ At(h, "applying")
  BY DEF IInv, WorkIsSound, ReadFunding
<1>6. work[h].status \in {"PROCESSING", "COMPLETED", "FAILED", "CANCELLED"}
  BY <1>5 DEF FundingWork, At
<1>7. funding = "COMPLETED" => "settled" \in ledger
  BY DEF IInv, StatusIsBooked
<1>8. funding = "REVERSED" => {"settled", "reversed"} \subseteq ledger
  BY DEF IInv, StatusIsBooked
<1>9. funding \in FundingStatus \cup {"NONE"}
  BY DEF IInv, TypesHold, TypeOK
<1>10. work'[h] = l /\ ledger' = ledger
  BY <1>3, <1>4 DEF Moves, Money
<1>11. FundingWork(h)'
  BY <1>2, <1>6, <1>7, <1>8, <1>9, <1>10 DEF FundingWork, At
<1>12. SyncWork(h)' /\ StaffWork(h)'
  BY <1>2, <1>10 DEF SyncWork, StaffWork, At
<1> QED BY <1>2, <1>3, <1>4, <1>11, <1>12, MoveKeeps DEF WorkFits

\* What applyProviderStatus makes of a status that was read at any time.
LEMMA EntryIsDue ==
  ASSUME IInv, NEW h \in Handlers, At(h, "writing"),
         NEW effective, effective = EffectiveStatus(work[h].seen, work[h].posted, work[h].status),
         NEW entry, entry = Posting(effective, work[h].posted)
  PROVE  /\ effective \in FundingStatus
         /\ effective = "COMPLETED" => "settled" \in ledger \cup entry
         /\ effective = "REVERSED" => {"settled", "reversed"} \subseteq ledger \cup entry
         /\ entry # {} => entry = {"settled"} \/ (entry = {"reversed"} /\ "settled" \in ledger)
<1>1. FundingWork(h)
  BY DEF IInv, WorkIsSound
<1>2. /\ work[h].status \in {"PROCESSING", "COMPLETED", "FAILED", "CANCELLED"}
      /\ work[h].posted \subseteq ledger
      /\ work[h].seen \in FundingStatus \cup {"NONE"}
      /\ work[h].seen = "REVERSED" => {"settled", "reversed"} \subseteq ledger
  BY <1>1 DEF FundingWork, At
<1>3. effective \in FundingStatus
  BY <1>2 DEF EffectiveStatus, Sticky, FundingStatus
<1>4. effective = "REVERSED" => "settled" \in work[h].posted \/ work[h].seen = "REVERSED"
  BY <1>2 DEF EffectiveStatus, Sticky
<1>5. entry = IF effective = "COMPLETED" THEN {"settled"}
              ELSE IF effective = "REVERSED" /\ "settled" \in work[h].posted THEN {"reversed"} ELSE {}
  BY DEF Posting
<1> QED BY <1>2, <1>3, <1>4, <1>5

LEMMA ApplyProviderStatusKeeps ==
  ASSUME IInv, NEW h \in Handlers, ApplyProviderStatus(h)
  PROVE  IInv'
<1> DEFINE effective == EffectiveStatus(work[h].seen, work[h].posted, work[h].status)
           entry == Posting(effective, work[h].posted)
<1>1. /\ effective \in FundingStatus
      /\ effective = "COMPLETED" => "settled" \in ledger \cup entry
      /\ effective = "REVERSED" => {"settled", "reversed"} \subseteq ledger \cup entry
      /\ entry # {} => entry = {"settled"} \/ (entry = {"reversed"} /\ "settled" \in ledger)
  BY EntryIsDue DEF ApplyProviderStatus
<1> HIDE DEF effective, entry
<1>2. /\ effective \in FundingStatus
      /\ effective = "COMPLETED" => "settled" \in ledger \cup entry
      /\ effective = "REVERSED" => {"settled", "reversed"} \subseteq ledger \cup entry
      /\ entry \subseteq {"settled", "reversed"}
  BY <1>1
<1>3. CASE funding' = effective /\ ledger' = ledger \cup entry /\ Note(h, "syncing", effective)
           /\ UNCHANGED delivery
  <2>1. Moves(h, [work[h] EXCEPT !.at = "syncing", !.status = effective])
    BY <1>2, <1>3, HoldingTypes, NoteMoves DEF Place, Status
  <2>2. work'[h].at = "syncing" /\ work'[h].status = effective
        /\ \A g \in Handlers \ {h} : work'[g] = work[g]
    BY <2>1 DEF Moves, IInv, TypesHold, Local
  <2>3. Counters
    BY <1>3, StillCounts DEF ApplyProviderStatus
  <2>4. TypesHold'
    BY <1>2, <1>3, <2>1, <2>3 DEF IInv, TypesHold, TypeOK, Counters, Moves, ApplyProviderStatus,
       Entries, bankVars, payoutVars
  <2>5. OnePoster'
    BY <1>2, <1>3, <2>2 DEF IInv, OnePoster, At, ApplyProviderStatus, FundingStatus, bankVars
  <2>6. StatusIsBooked' /\ PayoutIsGated'
    BY <1>2, <1>3 DEF IInv, StatusIsBooked, PayoutIsGated, ApplyProviderStatus, payoutVars
  <2>7. Grows
    BY <1>3 DEF Grows, ApplyProviderStatus, bankVars, payoutVars
  <2>8. WorkFits(h)
    BY <1>2, <1>3, <2>2 DEF WorkFits, FundingWork, SyncWork, StaffWork, At
  <2> QED BY <2>1, <2>4, <2>5, <2>6, <2>7, <2>8, FitsKeepsWork DEF IInv
<1>4. CASE Raise(h) /\ UNCHANGED <<funding, ledger>>
  <2>1. UNCHANGED Money
    BY <1>4 DEF ApplyProviderStatus, Money, bankVars, payoutVars
  <2>2. Counters
    BY <1>4, StillCounts DEF Raise, ApplyProviderStatus
  <2> QED BY <1>4, <2>1, <2>2, HoldingTypes, LeaveMoves, RestKeeps DEF Raise, Idle
<1> QED BY <1>3, <1>4 DEF ApplyProviderStatus, effective, entry

LEMMA CompleteWebhookKeeps ==
  ASSUME IInv, NEW h \in Handlers, CompleteWebhook(h)
  PROVE  IInv'
<1>1. UNCHANGED Money /\ Counters
  BY StillCounts DEF CompleteWebhook, Money, bankVars, fundingVars, payoutVars
<1> QED BY <1>1, HoldingTypes, LeaveMoves, RestKeeps DEF CompleteWebhook, Idle

---------------------------------------------------------------------------
(* The synchronisation of the transfer with its funding. *)

(* A write of the transfer's row that neither submits nor delivers more.   *)
LEMMA RowWriteKeeps ==
  ASSUME IInv, NEW h \in Handlers, Counters,
         UNCHANGED <<bankVars, fundingVars, ledger, payoutVars>>,
         \E l : Moves(h, l) /\ l.at \in {"idle", "completing"},
         /\ transfer' \in [stage : TransferStage, compliance : ComplianceStatus,
                           immutable : BOOLEAN, submitted : BOOLEAN]
         /\ transfer'.submitted \/ transfer'.stage = "DELIVERED" => payouts > 0
  PROVE  IInv'
<1>1. PICK l : Moves(h, l) /\ l.at \in {"idle", "completing"}
  OBVIOUS
<1>2. TypesHold'
  BY <1>1 DEF IInv, TypesHold, TypeOK, Counters, Moves, bankVars, fundingVars, payoutVars
<1>3. OnePoster'
  BY <1>1 DEF IInv, OnePoster, At, Moves, bankVars, fundingVars
<1>4. StatusIsBooked' /\ PayoutIsGated'
  BY DEF IInv, StatusIsBooked, PayoutIsGated, fundingVars, payoutVars
<1>5. Grows
  BY DEF Grows, bankVars, payoutVars
<1>6. WorkFits(h)
  BY <1>1, Resting
<1> QED BY <1>1, <1>2, <1>3, <1>4, <1>5, <1>6, FitsKeepsWork DEF IInv

\* The row as the invariant knows it, and a new stage that is no delivery.
LEMMA UpdateFits ==
  ASSUME IInv, NEW stage \in TransferStage \ {"DELIVERED"}, Update(stage)
  PROVE  /\ transfer' \in [stage : TransferStage, compliance : ComplianceStatus,
                           immutable : BOOLEAN, submitted : BOOLEAN]
         /\ transfer'.submitted \/ transfer'.stage = "DELIVERED" => payouts > 0
BY DEF IInv, TypesHold, TypeOK, Update, PayoutIsGated

LEMMA SyncCompletedKeeps ==
  ASSUME IInv, NEW h \in Handlers, SyncCompleted(h)
  PROVE  IInv'
<1>1. UNCHANGED Money /\ Counters
  BY StillCounts DEF SyncCompleted, Money, bankVars, fundingVars, payoutVars
<1>2. CASE Done(h)
  BY <1>1, <1>2, HoldingTypes, DoneMoves, RestKeeps
<1>3. CASE Goto(h, "holding")
  <2>1. Moves(h, [work[h] EXCEPT !.at = "holding"])
    BY <1>3, HoldingTypes, GotoMoves DEF Place
  <2>2. work'[h].at = "holding"
    BY <2>1 DEF Moves, IInv, TypesHold, Local
  <2>3. "settled" \in ledger'
    BY <1>1 DEF IInv, WorkIsSound, SyncWork, SyncCompleted, Money
  <2>4. WorkFits(h)
    BY <2>2, <2>3 DEF WorkFits, FundingWork, SyncWork, StaffWork, At
  <2> QED BY <1>1, <2>1, <2>2, <2>4, MoveKeeps DEF Moves
<1> QED BY <1>2, <1>3 DEF SyncCompleted

LEMMA SyncProcessingKeeps ==
  ASSUME IInv, NEW h \in Handlers, SyncProcessing(h)
  PROVE  IInv'
<1>1. Counters
  BY StillCounts DEF SyncProcessing
<1>2. \E l : Moves(h, l) /\ l.at \in {"idle", "completing"}
  BY HoldingTypes, DoneMoves DEF SyncProcessing
<1>3. /\ transfer' \in [stage : TransferStage, compliance : ComplianceStatus,
                        immutable : BOOLEAN, submitted : BOOLEAN]
      /\ transfer'.submitted \/ transfer'.stage = "DELIVERED" => payouts > 0
  BY UpdateFits DEF SyncProcessing, TransferStage
<1> QED BY <1>1, <1>2, <1>3, RowWriteKeeps DEF SyncProcessing

LEMMA SyncFailedKeeps ==
  ASSUME IInv, NEW h \in Handlers, SyncFailed(h)
  PROVE  IInv'
<1>1. Counters
  BY StillCounts DEF SyncFailed
<1>2. \E l : Moves(h, l) /\ l.at \in {"idle", "completing"}
  BY HoldingTypes, DoneMoves DEF SyncFailed
<1>3. /\ transfer' \in [stage : TransferStage, compliance : ComplianceStatus,
                        immutable : BOOLEAN, submitted : BOOLEAN]
      /\ transfer'.submitted \/ transfer'.stage = "DELIVERED" => payouts > 0
  BY UpdateFits DEF SyncFailed, TransferStage
<1> QED BY <1>1, <1>2, <1>3, RowWriteKeeps DEF SyncFailed

LEMMA SyncReversedKeeps ==
  ASSUME IInv, NEW h \in Handlers, SyncReversed(h)
  PROVE  IInv'
<1>1. UNCHANGED Money /\ Counters
  BY StillCounts DEF SyncReversed, Money, bankVars, fundingVars, payoutVars
<1>2. Moves(h, [work[h] EXCEPT !.at = "releasing"])
  BY HoldingTypes, GotoMoves DEF SyncReversed, Place
<1>3. [work[h] EXCEPT !.at = "releasing"].at = "releasing"
  BY DEF IInv, TypesHold, Local
<1> QED BY <1>1, <1>2, <1>3, RestKeeps

(* A step that adds to the ledger and moves its handler.                   *)
LEMMA EntryKeeps ==
  ASSUME IInv, NEW h \in Handlers, NEW l, Moves(h, l), l.at # "posting", WorkFits(h), Counters,
         UNCHANGED <<bankVars, fundingVars, transfer, payoutVars>>,
         ledger \subseteq ledger', ledger' \subseteq Entries
  PROVE  IInv'
<1>1. TypesHold'
  BY DEF IInv, TypesHold, TypeOK, Counters, Moves, bankVars, fundingVars, payoutVars
<1>2. OnePoster'
  BY DEF IInv, OnePoster, At, Moves, bankVars, fundingVars
<1>3. StatusIsBooked' /\ PayoutIsGated'
  BY DEF IInv, StatusIsBooked, PayoutIsGated, fundingVars, payoutVars
<1>4. Grows
  BY DEF Grows, bankVars, payoutVars
<1> QED BY <1>1, <1>2, <1>3, <1>4, FitsKeepsWork DEF IInv

LEMMA ReserveWalletKeeps ==
  ASSUME IInv, NEW h \in Handlers, ReserveWallet(h)
  PROVE  IInv'
<1>1. Moves(h, [work[h] EXCEPT !.at = "screening"])
  BY HoldingTypes, GotoMoves DEF ReserveWallet, Place
<1>2. work'[h].at = "screening"
  BY <1>1 DEF Moves, IInv, TypesHold, Local
<1>3. "settled" \in ledger
  BY DEF IInv, WorkIsSound, SyncWork, ReserveWallet, At
<1>4. ledger \subseteq ledger' /\ ledger' \subseteq Entries /\ Counters
  BY StillCounts DEF ReserveWallet, IInv, TypesHold, TypeOK, Entries
<1>5. WorkFits(h)
  BY <1>2, <1>3, <1>4 DEF WorkFits, FundingWork, SyncWork, StaffWork, At
<1> QED BY <1>1, <1>2, <1>4, <1>5, EntryKeeps DEF ReserveWallet, Moves

LEMMA ReleaseWalletKeeps ==
  ASSUME IInv, NEW h \in Handlers, ReleaseWallet(h)
  PROVE  IInv'
<1>1. \E l : Moves(h, l) /\ l.at \in {"reversing", "failing"}
  <2>1. CASE Goto(h, "reversing")
    <3>1. Moves(h, [work[h] EXCEPT !.at = "reversing"])
      BY <2>1, HoldingTypes, GotoMoves DEF Place
    <3>2. [work[h] EXCEPT !.at = "reversing"].at = "reversing"
      BY DEF IInv, TypesHold, Local
    <3> QED BY <3>1, <3>2
  <2>2. CASE Goto(h, "failing")
    <3>1. Moves(h, [work[h] EXCEPT !.at = "failing"])
      BY <2>2, HoldingTypes, GotoMoves DEF Place
    <3>2. [work[h] EXCEPT !.at = "failing"].at = "failing"
      BY DEF IInv, TypesHold, Local
    <3> QED BY <3>1, <3>2
  <2> QED BY <2>1, <2>2 DEF ReleaseWallet
<1>2. ledger \subseteq ledger' /\ ledger' \subseteq Entries /\ Counters
  BY StillCounts DEF ReleaseWallet, Released, IInv, TypesHold, TypeOK, Entries
<1> QED BY <1>1, <1>2, Resting, EntryKeeps DEF ReleaseWallet

LEMMA CloseReversedKeeps ==
  ASSUME IInv, NEW h \in Handlers, CloseReversed(h)
  PROVE  IInv'
<1>1. Counters
  BY StillCounts DEF CloseReversed
<1>2. \E l : Moves(h, l) /\ l.at \in {"idle", "completing"}
  BY HoldingTypes, DoneMoves DEF CloseReversed
<1>3. /\ transfer' \in [stage : TransferStage, compliance : ComplianceStatus,
                        immutable : BOOLEAN, submitted : BOOLEAN]
      /\ transfer'.submitted \/ transfer'.stage = "DELIVERED" => payouts > 0
  BY UpdateFits DEF CloseReversed, TransferStage
<1> QED BY <1>1, <1>2, <1>3, RowWriteKeeps DEF CloseReversed

LEMMA CloseFailedKeeps ==
  ASSUME IInv, NEW h \in Handlers, CloseFailed(h)
  PROVE  IInv'
<1>1. Counters
  BY StillCounts DEF CloseFailed
<1>2. \E l : Moves(h, l) /\ l.at \in {"idle", "completing"}
  BY HoldingTypes, DoneMoves DEF CloseFailed
<1>3. /\ transfer' \in [stage : TransferStage, compliance : ComplianceStatus,
                        immutable : BOOLEAN, submitted : BOOLEAN]
      /\ transfer'.submitted \/ transfer'.stage = "DELIVERED" => payouts > 0
  BY UpdateFits DEF CloseFailed, TransferStage
<1> QED BY <1>1, <1>2, <1>3, RowWriteKeeps DEF CloseFailed

LEMMA ScreenKeeps ==
  ASSUME IInv, NEW h \in Handlers, Screen(h)
  PROVE  IInv'
<1>1. PICK restricted \in RestrictedNow, screening \in Screenings :
        Note(h, "deciding", ComplianceOf(restricted, screening))
  BY DEF Screen
<1>2. ComplianceOf(restricted, screening) \in ComplianceStatus
  BY DEF ComplianceOf, ComplianceStatus
<1>3. Moves(h, [work[h] EXCEPT !.at = "deciding", !.status = ComplianceOf(restricted, screening)])
  BY <1>1, <1>2, HoldingTypes, NoteMoves DEF Place, Status
<1>4. work'[h].at = "deciding" /\ work'[h].status \in ComplianceStatus
  BY <1>2, <1>3 DEF Moves, IInv, TypesHold, Local
<1>5. UNCHANGED Money /\ Counters
  BY StillCounts DEF Screen, Money, bankVars, fundingVars, payoutVars
<1>6. "settled" \in ledger'
  BY <1>5 DEF IInv, WorkIsSound, SyncWork, Screen, At, Money
<1>7. WorkFits(h)
  BY <1>4, <1>6 DEF WorkFits, FundingWork, SyncWork, StaffWork, At
<1> QED BY <1>3, <1>4, <1>5, <1>7, MoveKeeps DEF Moves

LEMMA DecideKeeps ==
  ASSUME IInv, NEW h \in Handlers, Decide(h)
  PROVE  IInv'
<1>1. Counters /\ At(h, "deciding")
  BY StillCounts DEF Decide
<1>2. "settled" \in ledger /\ work[h].status \in ComplianceStatus
  BY <1>1 DEF IInv, WorkIsSound, SyncWork, At
<1>3. /\ transfer' \in [stage : TransferStage, compliance : ComplianceStatus,
                        immutable : BOOLEAN, submitted : BOOLEAN]
      /\ transfer'.submitted \/ transfer'.stage = "DELIVERED" => payouts > 0
  BY <1>2 DEF Decide, IInv, TypesHold, TypeOK, TransferStage, PayoutIsGated
<1>4. PayoutIsGated' /\ StatusIsBooked' /\ cleared' \in BOOLEAN /\ (cleared => cleared')
  BY <1>2, <1>3 DEF Decide, IInv, TypesHold, TypeOK, PayoutIsGated, StatusIsBooked, fundingVars
<1>5. \E l : Moves(h, l) /\ l.at # "posting" /\ WorkFits(h)
  <2>1. CASE work[h].status = "CLEAR"
    <3>1. Moves(h, [work[h] EXCEPT !.at = "submitting"])
      BY <2>1, HoldingTypes, GotoMoves DEF Decide, Place
    <3>2. work'[h].at = "submitting"
      BY <3>1 DEF Moves, IInv, TypesHold, Local
    <3>3. "settled" \in ledger' /\ cleared'
      BY <1>2, <2>1 DEF Decide
    <3>4. WorkFits(h)
      BY <3>2, <3>3 DEF WorkFits, FundingWork, SyncWork, StaffWork, At
    <3> QED BY <3>1, <3>2, <3>4 DEF Moves
  <2>2. CASE work[h].status # "CLEAR"
    <3>1. Done(h)
      BY <2>2 DEF Decide
    <3> QED BY <3>1, HoldingTypes, DoneMoves, Resting
  <2> QED BY <2>1, <2>2
<1>6. PICK l : Moves(h, l) /\ l.at # "posting" /\ WorkFits(h)
  BY <1>5
<1>7. TypesHold'
  BY <1>1, <1>3, <1>4, <1>6 DEF Decide, IInv, TypesHold, TypeOK, Counters, Moves, bankVars, fundingVars
<1>8. OnePoster'
  BY <1>6 DEF Decide, IInv, OnePoster, At, Moves, bankVars, fundingVars
<1>9. Grows
  BY <1>4 DEF Grows, Decide, bankVars
<1> QED BY <1>4, <1>6, <1>7, <1>8, <1>9, FitsKeepsWork DEF IInv

\* The count of payouts is one more, or full already.
LEMMA CountedGrows ==
  ASSUME IInv
  PROVE  Counted \in 1..2 /\ Counted > 0 /\ (Counted = payouts + 1 \/ Counted = payouts)
BY DEF IInv, TypesHold, TypeOK, Counted

LEMMA SubmitPayoutKeeps ==
  ASSUME IInv, NEW h \in Handlers, SubmitPayout(h)
  PROVE  IInv'
<1>1. Counters /\ At(h, "submitting")
  BY StillCounts DEF SubmitPayout
<1>2. "settled" \in ledger /\ cleared
  BY <1>1 DEF IInv, WorkIsSound, SyncWork, At
<1>3. CASE Goto(h, "returning") /\ UNCHANGED payouts
  <2>1. Moves(h, [work[h] EXCEPT !.at = "returning"])
    BY <1>3, HoldingTypes, GotoMoves DEF Place
  <2>2. [work[h] EXCEPT !.at = "returning"].at = "returning"
    BY DEF IInv, TypesHold, Local
  <2>3. UNCHANGED Money
    BY <1>3 DEF SubmitPayout, Money, bankVars, fundingVars, payoutVars
  <2> QED BY <1>1, <2>1, <2>2, <2>3, RestKeeps
<1>4. CASE Goto(h, "paying") /\ payouts' = Counted
  <2>1. Moves(h, [work[h] EXCEPT !.at = "paying"])
    BY <1>4, HoldingTypes, GotoMoves DEF Place
  <2>2. work'[h].at = "paying"
    BY <2>1 DEF Moves, IInv, TypesHold, Local
  <2>3. payouts' \in 1..2 /\ payouts' > 0
    BY <1>4, CountedGrows
  <2>4. TypesHold'
    BY <1>1, <2>1, <2>3 DEF SubmitPayout, IInv, TypesHold, TypeOK, Counters, Moves, bankVars, fundingVars
  <2>5. OnePoster'
    BY <2>1, <2>2 DEF SubmitPayout, IInv, OnePoster, At, Moves, bankVars, fundingVars
  <2>6. StatusIsBooked' /\ PayoutIsGated'
    BY <1>2, <2>3 DEF SubmitPayout, IInv, StatusIsBooked, PayoutIsGated, fundingVars
  <2>7. Grows
    BY <2>3 DEF Grows, SubmitPayout, bankVars
  <2>8. WorkFits(h)
    BY <1>2, <2>2, <2>3 DEF WorkFits, FundingWork, SyncWork, StaffWork, At, SubmitPayout
  <2> QED BY <2>1, <2>4, <2>5, <2>6, <2>7, <2>8, FitsKeepsWork DEF IInv
<1> QED BY <1>3, <1>4 DEF SubmitPayout

LEMMA RecordPayoutKeeps ==
  ASSUME IInv, NEW h \in Handlers, RecordPayout(h)
  PROVE  IInv'
<1>1. Counters
  BY StillCounts DEF RecordPayout
<1>2. \E l : Moves(h, l) /\ l.at \in {"idle", "completing"}
  BY HoldingTypes, DoneMoves DEF RecordPayout
<1>3. /\ transfer' \in [stage : TransferStage, compliance : ComplianceStatus,
                        immutable : BOOLEAN, submitted : BOOLEAN]
      /\ transfer'.submitted \/ transfer'.stage = "DELIVERED" => payouts > 0
  BY DEF RecordPayout, PaidOut, IInv, TypesHold, TypeOK, TransferStage, WorkIsSound, StaffWork, At
<1> QED BY <1>1, <1>2, <1>3, RowWriteKeeps DEF RecordPayout

---------------------------------------------------------------------------
(* The staff. *)

LEMMA ReviewComplianceKeeps ==
  ASSUME IInv, NEW h \in Handlers, ReviewCompliance(h)
  PROVE  IInv'
<1>1. PICK decision \in ComplianceStatus :
        /\ ReviewAllowed(decision)
        /\ work' = [work EXCEPT ![h] = [Idle EXCEPT !.at = "reviewing", !.via = "review",
                                                    !.status = decision]]
  BY DEF ReviewCompliance
<1> DEFINE l == [Idle EXCEPT !.at = "reviewing", !.via = "review", !.status = decision]
<1>2. l \in Local /\ l.at = "reviewing" /\ l.status = decision
  BY IdleIsLocal DEF Local, Place, Way, Status, Idle
<1>3. Moves(h, l)
  BY <1>1, <1>2 DEF Moves, IInv, TypesHold
<1>4. UNCHANGED Money /\ Counters
  BY StillCounts DEF ReviewCompliance, Money, bankVars, fundingVars, payoutVars
<1>5. decision = "CLEAR" => "settled" \in ledger'
  BY <1>1, <1>4 DEF ReviewAllowed, IInv, StatusIsBooked, Money
<1>6. work'[h].at = "reviewing" /\ work'[h].status = decision
  BY <1>2, <1>3 DEF Moves
<1>7. WorkFits(h)
  BY <1>5, <1>6 DEF WorkFits, FundingWork, SyncWork, StaffWork, At
<1> QED BY <1>2, <1>3, <1>4, <1>7, MoveKeeps

LEMMA ClearComplianceKeeps ==
  ASSUME IInv, NEW h \in Handlers, ClearCompliance(h)
  PROVE  IInv'
<1>1. Counters /\ At(h, "reviewing") /\ work[h].status = "CLEAR" /\ cleared' = TRUE
  BY StillCounts DEF ClearCompliance
<1>2. "settled" \in ledger
  BY <1>1 DEF IInv, WorkIsSound, StaffWork
<1>3. /\ payouts' \in 0..2 /\ (payouts > 0 => payouts' > 0)
      /\ \E l : Moves(h, l) /\ l.at # "posting" /\ WorkFits(h)
  <2>1. CASE Leave(h) /\ UNCHANGED payouts
    BY <2>1, HoldingTypes, LeaveMoves, Resting DEF Idle, IInv, TypesHold, TypeOK
  <2>2. CASE Goto(h, "clearing") /\ payouts' = Counted
    <3>1. Moves(h, [work[h] EXCEPT !.at = "clearing"])
      BY <2>2, HoldingTypes, GotoMoves DEF Place
    <3>2. work'[h].at = "clearing" /\ payouts' \in 1..2 /\ payouts' > 0
      BY <2>2, <3>1, CountedGrows DEF Moves, IInv, TypesHold, Local
    <3>3. WorkFits(h)
      BY <3>2 DEF WorkFits, FundingWork, SyncWork, StaffWork, At
    <3>4. [work[h] EXCEPT !.at = "clearing"].at # "posting"
      BY DEF IInv, TypesHold, Local
    <3>5. \E l : Moves(h, l) /\ l.at # "posting" /\ WorkFits(h)
      BY <3>1, <3>3, <3>4
    <3> QED BY <3>2, <3>5
  <2> QED BY <2>1, <2>2 DEF ClearCompliance
<1>4. PICK l : Moves(h, l) /\ l.at # "posting" /\ WorkFits(h)
  BY <1>3
<1>5. TypesHold'
  BY <1>1, <1>3, <1>4 DEF ClearCompliance, IInv, TypesHold, TypeOK, Counters, Moves, bankVars, fundingVars
<1>6. OnePoster'
  BY <1>4 DEF ClearCompliance, IInv, OnePoster, At, Moves, bankVars, fundingVars
<1>7. StatusIsBooked' /\ PayoutIsGated'
  BY <1>1, <1>2, <1>3 DEF ClearCompliance, IInv, StatusIsBooked, PayoutIsGated, fundingVars
<1>8. Grows
  BY <1>1, <1>3 DEF Grows, ClearCompliance, bankVars
<1> QED BY <1>4, <1>5, <1>6, <1>7, <1>8, FitsKeepsWork DEF IInv

LEMMA RecordClearanceKeeps ==
  ASSUME IInv, NEW h \in Handlers, RecordClearance(h)
  PROVE  IInv'
<1>1. Counters /\ At(h, "clearing")
  BY StillCounts DEF RecordClearance
<1>2. Moves(h, Idle) /\ Idle.at = "idle"
  BY HoldingTypes, LeaveMoves DEF RecordClearance, Idle
<1>3. payouts > 0
  BY <1>1 DEF IInv, WorkIsSound, StaffWork, At
<1>4. transfer' \in [stage : TransferStage, compliance : ComplianceStatus,
                     immutable : BOOLEAN, submitted : BOOLEAN]
  BY DEF RecordClearance, PaidOut, IInv, TypesHold, TypeOK, TransferStage, ComplianceStatus
<1> QED BY <1>1, <1>2, <1>3, <1>4, RowWriteKeeps DEF RecordClearance

LEMMA HoldForComplianceKeeps ==
  ASSUME IInv, NEW h \in Handlers, HoldForCompliance(h)
  PROVE  IInv'
<1>1. Counters /\ At(h, "reviewing")
  BY StillCounts DEF HoldForCompliance
<1>2. Moves(h, Idle) /\ Idle.at = "idle"
  BY HoldingTypes, LeaveMoves DEF HoldForCompliance, Idle
<1>3. work[h].status \in ComplianceStatus
  BY <1>1 DEF IInv, WorkIsSound, StaffWork
<1>4. /\ transfer' \in [stage : TransferStage, compliance : ComplianceStatus,
                        immutable : BOOLEAN, submitted : BOOLEAN]
      /\ transfer'.submitted \/ transfer'.stage = "DELIVERED" => payouts > 0
  BY <1>3 DEF HoldForCompliance, IInv, TypesHold, TypeOK, TransferStage, PayoutIsGated
<1> QED BY <1>1, <1>2, <1>4, RowWriteKeeps DEF HoldForCompliance

LEMMA ReverseTransferKeeps ==
  ASSUME IInv, NEW h \in Handlers, ReverseTransfer(h)
  PROVE  IInv'
<1>1. Moves(h, [Idle EXCEPT !.at = "releasing", !.via = "reverse"])
  BY HoldingTypes, StartMoves DEF ReverseTransfer, Place, Way
<1>2. UNCHANGED Money /\ Counters
  BY StillCounts DEF ReverseTransfer, Money, bankVars, fundingVars, payoutVars
<1> QED BY <1>1, <1>2, RestKeeps DEF Idle

LEMMA SetStatusKeeps ==
  ASSUME IInv, NEW h \in Handlers, SetStatus(h)
  PROVE  IInv'
<1>1. UNCHANGED Money /\ Counters
  BY StillCounts DEF SetStatus, Money, bankVars, fundingVars, payoutVars
<1>2. CASE Deliverable /\ Start(h, "delivering", "status")
  <2>1. Moves(h, [Idle EXCEPT !.at = "delivering", !.via = "status"])
    BY <1>2, HoldingTypes, StartMoves DEF Place, Way
  <2>2. work'[h].at = "delivering"
    BY <2>1 DEF Moves, Idle
  <2>3. payouts' > 0
    BY <1>1, <1>2 DEF Deliverable, IInv, PayoutIsGated, Money
  <2>4. WorkFits(h)
    BY <2>2, <2>3 DEF WorkFits, FundingWork, SyncWork, StaffWork, At
  <2> QED BY <1>1, <2>1, <2>2, <2>4, MoveKeeps DEF Moves
<1>3. CASE Start(h, "returning", "status")
  <2>1. Moves(h, [Idle EXCEPT !.at = "returning", !.via = "status"])
    BY <1>3, HoldingTypes, StartMoves DEF Place, Way
  <2> QED BY <1>1, <2>1, RestKeeps DEF Idle
<1>4. CASE Start(h, "failing", "status")
  <2>1. Moves(h, [Idle EXCEPT !.at = "failing", !.via = "status"])
    BY <1>4, HoldingTypes, StartMoves DEF Place, Way
  <2> QED BY <1>1, <2>1, RestKeeps DEF Idle
<1> QED BY <1>2, <1>3, <1>4 DEF SetStatus

LEMMA RecordDeliveryKeeps ==
  ASSUME IInv, NEW h \in Handlers, RecordDelivery(h)
  PROVE  IInv'
<1>1. Counters /\ At(h, "delivering")
  BY StillCounts DEF RecordDelivery
<1>2. Moves(h, Idle) /\ Idle.at = "idle"
  BY HoldingTypes, LeaveMoves DEF RecordDelivery, Idle
<1>3. payouts > 0
  BY <1>1 DEF IInv, WorkIsSound, StaffWork, At
<1>4. transfer' \in [stage : TransferStage, compliance : ComplianceStatus,
                     immutable : BOOLEAN, submitted : BOOLEAN]
  BY DEF RecordDelivery, Update, IInv, TypesHold, TypeOK, TransferStage
<1> QED BY <1>1, <1>2, <1>3, <1>4, RowWriteKeeps DEF RecordDelivery

---------------------------------------------------------------------------
(* Faults. *)

LEMMA CallFailsKeeps ==
  ASSUME IInv, NEW h \in Handlers, CallFails(h)
  PROVE  IInv'
<1>1. UNCHANGED Money
  BY DEF CallFails, Money, bankVars, fundingVars, payoutVars
<1>2. Counters
  <2>1. faults' \in 0..MaxFaults
    BY ConstantsAssumption DEF CallFails, Fault, IInv, TypesHold, TypeOK
  <2>2. delivery' = delivery \/ delivery' = [delivery EXCEPT ![work[h].event] = "FAILED"]
    BY DEF CallFails, Raise
  <2> QED BY <2>1, <2>2 DEF Counters, IInv, TypesHold, TypeOK
<1>3. CASE Note(h, "applying", "FAILED")
  <2>1. Moves(h, [work[h] EXCEPT !.at = "applying", !.status = "FAILED"])
    BY <1>3, HoldingTypes, NoteMoves DEF Place, Status, FundingStatus
  <2>2. work'[h].at = "applying" /\ work'[h].status = "FAILED"
    BY <2>1 DEF Moves, IInv, TypesHold, Local
  <2>3. WorkFits(h)
    BY <2>2 DEF WorkFits, FundingWork, SyncWork, StaffWork, At
  <2> QED BY <1>1, <1>2, <2>1, <2>2, <2>3, MoveKeeps DEF Moves
<1>4. CASE Goto(h, "returning")
  <2>1. Moves(h, [work[h] EXCEPT !.at = "returning"])
    BY <1>4, HoldingTypes, GotoMoves DEF Place
  <2>2. [work[h] EXCEPT !.at = "returning"].at = "returning"
    BY DEF IInv, TypesHold, Local
  <2> QED BY <1>1, <1>2, <2>1, <2>2, RestKeeps
<1>5. CASE Leave(h)
  BY <1>1, <1>2, <1>5, HoldingTypes, LeaveMoves, RestKeeps DEF Idle
<1> QED BY <1>3, <1>4, <1>5 DEF CallFails, Raise

LEMMA CrashKeeps ==
  ASSUME IInv, NEW h \in Handlers, Crash(h)
  PROVE  IInv'
<1>1. UNCHANGED Money /\ Counters
  BY FaultCounts DEF Crash, Money, bankVars, fundingVars, payoutVars
<1> QED BY <1>1, HoldingTypes, LeaveMoves, RestKeeps DEF Crash, Idle

---------------------------------------------------------------------------
(* Every step. *)

LEMMA InitHolds == Init => IInv
<1> SUFFICES ASSUME Init PROVE IInv
  OBVIOUS
<1>1. TypesHold
  <2>1. work \in [Handlers -> Local]
    BY IdleIsLocal DEF Init
  <2>2. transfer \in [stage : TransferStage, compliance : ComplianceStatus,
                      immutable : BOOLEAN, submitted : BOOLEAN]
    BY DEF Init, TransferStage, ComplianceStatus
  <2>3. payouts \in 0..2 /\ faults \in 0..MaxFaults
    BY ConstantsAssumption DEF Init
  <2> QED BY <2>1, <2>2, <2>3 DEF Init, TypesHold, TypeOK, BankState
<1>2. OnePoster /\ StatusIsBooked /\ PayoutIsGated
  BY DEF Init, OnePoster, StatusIsBooked, PayoutIsGated, At, Idle
<1>3. WorkIsSound
  BY DEF Init, WorkIsSound, FundingWork, SyncWork, StaffWork, At, Idle
<1> QED BY <1>1, <1>2, <1>3 DEF IInv

LEMMA ContinueKeeps ==
  ASSUME IInv, NEW h \in Handlers, Continue(h)
  PROVE  IInv'
<1>1. CASE FundingStep(h)
  BY <1>1, ReserveTransactionKeeps, PostTransferKeeps, ConfirmTransferKeeps,
     AttachProviderTransferKeeps, ReadRemoteKeeps, ReadFundingKeeps, ApplyProviderStatusKeeps,
     CompleteWebhookKeeps DEF FundingStep
<1>2. CASE SyncStep(h)
  BY <1>2, SyncCompletedKeeps, SyncProcessingKeeps, SyncFailedKeeps, SyncReversedKeeps,
     ReserveWalletKeeps, ReleaseWalletKeeps, CloseReversedKeeps, CloseFailedKeeps, ScreenKeeps,
     DecideKeeps, SubmitPayoutKeeps, RecordPayoutKeeps DEF SyncStep
<1>3. CASE StaffStep(h)
  BY <1>3, ClearComplianceKeeps, RecordClearanceKeeps, HoldForComplianceKeeps, RecordDeliveryKeeps
  DEF StaffStep
<1> QED BY <1>1, <1>2, <1>3 DEF Continue

LEMMA NextKeeps == IInv /\ BankIsSlow /\ [Next]_vars => IInv'
<1> SUFFICES ASSUME IInv, BankIsSlow, [Next]_vars PROVE IInv'
  OBVIOUS
<1>1. CASE UNCHANGED vars
  BY <1>1 DEF vars, bankVars, fundingVars, payoutVars, IInv, TypesHold, TypeOK, OnePoster,
     StatusIsBooked, PayoutIsGated, WorkIsSound, FundingWork, SyncWork, StaffWork, At
<1>2. CASE BankMoves
  BY <1>2, BankMovesKeeps
<1>3. ASSUME NEW h \in Handlers, Continue(h) PROVE IInv'
  BY <1>3, ContinueKeeps
<1>4. ASSUME NEW h \in Handlers, Request(h) PROVE IInv'
  BY <1>4, FundKeeps, RefreshKeeps, CancelFundingKeeps, ReviewComplianceKeeps,
     ReverseTransferKeeps, SetStatusKeeps DEF Request
<1>5. ASSUME NEW h \in Handlers, Deliver(h) PROVE IInv'
  BY <1>5, ReserveWebhookKeeps DEF Deliver
<1>6. ASSUME NEW h \in Handlers, CallFails(h) \/ Crash(h) PROVE IInv'
  BY <1>6, CallFailsKeeps, CrashKeeps
<1> QED BY <1>1, <1>2, <1>3, <1>4, <1>5, <1>6 DEF Next

LEMMA Inductive == BankIsSlow => (Spec => []IInv)
<1> SUFFICES ASSUME BankIsSlow PROVE Spec => []IInv
  OBVIOUS
<1>1. IInv /\ [Next]_vars => IInv'
  BY NextKeeps
<1> QED BY <1>1, InitHolds, PTL DEF Spec

---------------------------------------------------------------------------
(* The safety of a remittance.                                             *)

(* The rows of funding/repository.ts and of the transfer keep their types, *)
(* whatever runs at the same time, fails or stops.                         *)
THEOREM TypeCorrect == BankIsSlow => (Spec => []TypeOK)
BY Inductive, PTL DEF IInv, TypesHold

(* reserveTransaction: a transfer's debit is asked for once, by however    *)
(* many requests, retries and failed calls.                                *)
THEOREM OneDebit == BankIsSlow => (Spec => []DebitedOnce)
<1>1. IInv => DebitedOnce
  BY DEF IInv, OnePoster, DebitedOnce
<1> QED BY <1>1, Inductive, PTL

(* applyProviderStatus: COMPLETED and REVERSED are booked, although a      *)
(* handler writes what it decided on rows it read earlier.                 *)
THEOREM BookedStatus == BankIsSlow => (Spec => []StatusIsBooked)
<1>1. IInv => StatusIsBooked
  BY DEF IInv
<1> QED BY <1>1, Inductive, PTL

(* The compliance gate: no payout before the settlement is booked and a    *)
(* CLEAR decision is on record, and no delivery without a payout.          *)
THEOREM GatedPayout == BankIsSlow => (Spec => []PayoutIsGated)
<1>1. IInv => PayoutIsGated
  BY DEF IInv
<1> QED BY <1>1, Inductive, PTL

---------------------------------------------------------------------------
(* The refinement. *)

EscrowStep == [Promise!Next]_Promise!vars

LEMMA ApplyIsEscrow ==
  ASSUME IInv, NEW h \in Handlers, ApplyProviderStatus(h)
  PROVE  EscrowStep
<1> DEFINE effective == EffectiveStatus(work[h].seen, work[h].posted, work[h].status)
           entry == Posting(effective, work[h].posted)
<1>1. entry # {} => entry = {"settled"} \/ (entry = {"reversed"} /\ "settled" \in ledger)
  BY EntryIsDue DEF ApplyProviderStatus
<1> HIDE DEF effective, entry
<1>2. (ledger' = ledger \cup entry \/ UNCHANGED ledger) /\ UNCHANGED <<cleared, payouts>>
  BY DEF ApplyProviderStatus, payoutVars, effective, entry
<1> QED BY <1>1, <1>2 DEF EscrowStep, Promise!Next, Promise!Settle, Promise!Return, Promise!Enter,
     Promise!vars

LEMMA SyncIsEscrow ==
  ASSUME IInv, NEW h \in Handlers, SyncStep(h)
  PROVE  EscrowStep
<1> USE DEF payoutVars, EscrowStep, Promise!vars
<1>1. SyncWork(h) /\ cleared \in BOOLEAN
  BY DEF IInv, WorkIsSound, TypesHold, TypeOK
<1>2. CASE ReserveWallet(h)
  <2>1. "settled" \in ledger
    BY <1>1, <1>2 DEF ReserveWallet, SyncWork, At
  <2> QED BY <1>2, <2>1 DEF ReserveWallet, Promise!Next, Promise!Hold, Promise!Enter
<1>3. CASE ReleaseWallet(h)
  BY <1>3 DEF ReleaseWallet, Released, Promise!Next, Promise!Release, Promise!Enter
<1>4. CASE Decide(h)
  <2>1. "settled" \in ledger
    BY <1>1, <1>4 DEF Decide, SyncWork, At
  <2> QED BY <1>1, <1>4, <2>1 DEF Decide, Promise!Next, Promise!Clear
<1>5. CASE SubmitPayout(h)
  <2>1. "settled" \in ledger /\ cleared
    BY <1>1, <1>5 DEF SubmitPayout, SyncWork, At
  <2> QED BY <1>5, <2>1, CountedGrows DEF SubmitPayout, Promise!Next, Promise!PayOut
<1>6. CASE SyncCompleted(h) \/ SyncProcessing(h) \/ SyncFailed(h) \/ SyncReversed(h)
           \/ CloseReversed(h) \/ CloseFailed(h) \/ Screen(h) \/ RecordPayout(h)
  BY <1>6 DEF SyncCompleted, SyncProcessing, SyncFailed, SyncReversed, CloseReversed, CloseFailed,
     Screen, RecordPayout
<1> QED BY <1>2, <1>3, <1>4, <1>5, <1>6 DEF SyncStep

LEMMA StaffIsEscrow ==
  ASSUME IInv, NEW h \in Handlers, StaffStep(h)
  PROVE  EscrowStep
<1> USE DEF payoutVars, EscrowStep, Promise!vars
<1>1. CASE ClearCompliance(h)
  <2>1. "settled" \in ledger
    BY <1>1 DEF ClearCompliance, IInv, WorkIsSound, StaffWork
  <2>2. cleared' = TRUE /\ UNCHANGED ledger /\ (UNCHANGED payouts \/ payouts' = Counted)
    BY <1>1 DEF ClearCompliance
  <2> QED BY <2>1, <2>2, CountedGrows DEF Promise!Next, Promise!Clear, Promise!PayOut
<1>2. CASE RecordClearance(h) \/ HoldForCompliance(h) \/ RecordDelivery(h)
  BY <1>2 DEF RecordClearance, HoldForCompliance, RecordDelivery
<1> QED BY <1>1, <1>2 DEF StaffStep

LEMMA OthersAreEscrow ==
  ASSUME IInv, NEW h \in Handlers,
         Request(h) \/ Deliver(h) \/ CallFails(h) \/ Crash(h)
         \/ (FundingStep(h) /\ ~ApplyProviderStatus(h))
  PROVE  EscrowStep
<1>1. UNCHANGED <<ledger, cleared, payouts>>
  BY DEF payoutVars, Request, Fund, Refresh, CancelFunding, ReviewCompliance, ReverseTransfer,
     SetStatus, Deliver, ReserveWebhook, CallFails, Crash, FundingStep, ReserveTransaction,
     PostTransfer, ConfirmTransfer, AttachProviderTransfer, ReadRemote, ReadFunding, CompleteWebhook
<1> QED BY <1>1 DEF EscrowStep, Promise!vars

LEMMA NextIsEscrow == IInv /\ [Next]_vars => EscrowStep
<1> SUFFICES ASSUME IInv, [Next]_vars PROVE EscrowStep
  OBVIOUS
<1>1. CASE UNCHANGED vars \/ BankMoves
  BY <1>1 DEF vars, BankMoves, payoutVars, EscrowStep, Promise!vars
<1>2. ASSUME NEW h \in Handlers, Continue(h) PROVE EscrowStep
  BY <1>2, ApplyIsEscrow, SyncIsEscrow, StaffIsEscrow, OthersAreEscrow DEF Continue
<1>3. ASSUME NEW h \in Handlers, Request(h) \/ Deliver(h) \/ CallFails(h) \/ Crash(h)
      PROVE EscrowStep
  BY <1>3, OthersAreEscrow
<1> QED BY <1>1, <1>2, <1>3 DEF Next

(* The detailed specification implements Escrow: every entry of the        *)
(* ledger, decision and payout of app.ts and funding/ is a step that the   *)
(* promise about the money allows, or changes nothing of it.               *)
THEOREM ImplementsEscrow == BankIsSlow => (Spec => KeepsEscrow)
<1> SUFFICES ASSUME BankIsSlow PROVE Spec => KeepsEscrow
  OBVIOUS
<1>1. Init => Promise!Init
  BY DEF Init, Promise!Init
<1>2. IInv /\ [Next]_vars => [Promise!Next]_Promise!vars
  BY NextIsEscrow DEF EscrowStep
<1> QED BY <1>1, <1>2, Inductive, PTL DEF Spec, KeepsEscrow, Promise!Spec
=============================================================================
