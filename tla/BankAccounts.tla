---------------------------- MODULE BankAccounts ----------------------------
(***************************************************************************)
(* The bank accounts of one TiCash customer (funding/service.ts and        *)
(* funding/repository.ts): added at Dwolla, proved with micro-deposits,    *)
(* one of them the default, debited, and removed; while Dwolla's events    *)
(* about them are handled at the same time.                                *)
(*                                                                         *)
(* Every await of a request or of an event's handling ends a step.  Rows   *)
(* are written by id, with what was read of them some awaits ago.  Several *)
(* debits of one account are one, with the status that counts: active.     *)
(***************************************************************************)
EXTENDS Naturals, FiniteSets

CONSTANTS
  Requests,    \* the customer's requests that may run at the same time
  Deliveries,  \* the deliveries of Dwolla's events that may
  Sources,     \* bank accounts
  Operations,  \* what the customer may ask: a subset of AllOperations
  Topics,      \* the events that Dwolla sends: a subset of AllTopics
  Withdraws,   \* whether Dwolla removes an account on its own
  MaxGuesses,  \* bound on the guesses of the micro-deposits of an account
  Crashes,     \* whether a process may stop
  MaxLosses    \* bound on lost calls and crashes

AllOperations == {"add", "initiate", "verify", "default", "remove", "list", "fund"}

(* customer_funding_source_* and customer_microdeposits_*, by their effect. *)
AllTopics == {"added", "verified", "removed", "maxattempts"}

ASSUME BankAssumption ==
  /\ Requests \cap Deliveries = {}
  /\ Operations \subseteq AllOperations
  /\ Topics \subseteq AllTopics
  /\ {Withdraws, Crashes} \subseteq BOOLEAN
  /\ {MaxGuesses, MaxLosses} \subseteq Nat

Actors == Requests \cup Deliveries
SourceStatus == {"UNVERIFIED", "VERIFIED", "FAILED", "REMOVED"}
DwollaStatus == {"none", "unverified", "verified", "removed"}

VARIABLES
  remote,    \* what Dwolla says of each account
  guesses,   \* how often its micro-deposits were guessed at Dwolla
  delivery,  \* its events: not sent, sent, or the status of the event's row
  row,       \* its row: "NONE" before it is saved
  debit,     \* the funding of it: none, active (PENDING or PROCESSING) or over
  busy,      \* what each handler is doing
  losses

bankVars == <<remote, guesses, delivery, row, debit, busy, losses>>
dwolla == <<remote, guesses, delivery>>

NoRow == [status |-> "NONE", isDefault |-> FALSE, initiated |-> FALSE, attempts |-> 0]

(* What a handler remembers: the account and the event it is about, what   *)
(* it has read of the row, what Dwolla answered, and, when it lists, the   *)
(* accounts that failed and those that are left.                           *)
Unasked == [at |-> "idle", source |-> "none", topic |-> "none", isDefault |-> FALSE,
         attempts |-> 0, word |-> "none", answer |-> [s \in Sources |-> "none"],
         failed |-> {}, todo |-> {}]

BankInit ==
  /\ remote = [s \in Sources |-> "none"]
  /\ guesses = [s \in Sources |-> 0]
  /\ delivery = [s \in Sources |-> [t \in AllTopics |-> "none"]]
  /\ row = [s \in Sources |-> NoRow]
  /\ debit = [s \in Sources |-> "none"]
  /\ busy = [h \in Actors |-> Unasked]
  /\ losses = 0

Doing(h, place) == busy[h].at = place
Asked(h, operation) == h \in Requests /\ operation \in Operations /\ Doing(h, "idle")
Start(h, place, s) == busy' = [busy EXCEPT ![h] = [Unasked EXCEPT !.at = place, !.source = s]]
Proceed(h, place) == busy' = [busy EXCEPT ![h].at = place]
Leave(h) == busy' = [busy EXCEPT ![h] = Unasked]
Done(h) == IF h \in Deliveries THEN Proceed(h, "completing") ELSE Leave(h)

Emit(s, topic) ==
  delivery' = [delivery EXCEPT ![s][topic] = IF @ = "none" /\ topic \in Topics THEN "sent" ELSE @]

(* Mutant of sourceStatus: whatever is not removed is verified. *)
sourceStatusUnlessRemoved(word) == IF word = "removed" THEN "REMOVED" ELSE "VERIFIED"

sourceStatus(word) ==
  CASE word = "removed" -> "REMOVED"
    [] word = "verified" -> "VERIFIED"
    [] OTHER -> "UNVERIFIED"

SetStatus(s, status) == row' = [row EXCEPT ![s].status = status]
Saved(s) == row[s].status # "NONE"
Listed == {s \in Sources : Saved(s) /\ row[s].status # "REMOVED"}
Usable(s) == row[s].status = "VERIFIED"
HasDefault == \E s \in Listed : row[s].isDefault /\ Usable(s)

---------------------------------------------------------------------------
(* createFundingSource: Dwolla refuses the same account twice. *)

CreateSource(h) ==
  /\ Asked(h, "add")
  /\ \E s \in Sources :
       /\ remote[s] = "none" /\ remote' = [remote EXCEPT ![s] = "unverified"]
       /\ Emit(s, "added")
       /\ Start(h, "saving", s)
  /\ UNCHANGED <<guesses, row, debit, losses>>

SaveSource(h) ==
  /\ Doing(h, "saving")
  /\ row' = [row EXCEPT ![busy[h].source] =
               [NoRow EXCEPT !.status = sourceStatus(remote[busy[h].source])]]
  /\ Leave(h)
  /\ UNCHANGED <<dwolla, debit, losses>>

---------------------------------------------------------------------------
(* initiateMicroDeposits and verifyMicroDeposits.  An account that is      *)
(* VERIFIED or already initiated is answered without a change.             *)

InitiateMicroDeposits(h) ==
  /\ Asked(h, "initiate")
  /\ \E s \in Sources :
       /\ row[s].status = "UNVERIFIED" /\ ~row[s].initiated
       /\ Start(h, "initiating", s)
  /\ UNCHANGED <<dwolla, row, debit, losses>>

RecordInitiation(h) ==
  /\ Doing(h, "initiating")
  /\ row' = [row EXCEPT ![busy[h].source].initiated = TRUE]
  /\ Leave(h)
  /\ UNCHANGED <<dwolla, debit, losses>>

VerifyMicroDeposits(h) ==
  /\ Asked(h, "verify")
  /\ \E s \in Sources :
       /\ row[s].status = "UNVERIFIED" /\ row[s].initiated
       /\ row[s].attempts < 3 /\ guesses[s] < MaxGuesses
       /\ busy' = [busy EXCEPT ![h] = [Unasked EXCEPT !.at = "attempting", !.source = s,
                                                   !.attempts = row[s].attempts]]
  /\ UNCHANGED <<dwolla, row, debit, losses>>

CountAttempt(h) ==
  /\ Doing(h, "attempting")
  /\ row' = [row EXCEPT ![busy[h].source].attempts = busy[h].attempts + 1]
  /\ busy' = [busy EXCEPT ![h].at = "guessing", ![h].attempts = @ + 1]
  /\ UNCHANGED <<dwolla, debit, losses>>

(* An error of the call, a wrong guess among them: the third one locks. *)
Refused(h) == IF busy[h].attempts >= 3 THEN Proceed(h, "locking") ELSE Leave(h)

Guess(h) ==
  LET s == busy[h].source
  IN /\ Doing(h, "guessing")
     /\ guesses' = [guesses EXCEPT ![s] = @ + 1]
     /\ \/ /\ remote[s] = "unverified"
           /\ remote' = [remote EXCEPT ![s] = "verified"]
           /\ Emit(s, "verified")
           /\ Proceed(h, "confirming")
        \/ /\ IF guesses[s] = 2 THEN Emit(s, "maxattempts") ELSE UNCHANGED delivery
           /\ Refused(h)
           /\ UNCHANGED remote
     /\ UNCHANGED <<row, debit, losses>>

LockSource(h) ==
  /\ Doing(h, "locking")
  /\ SetStatus(busy[h].source, "FAILED")
  /\ Leave(h)
  /\ UNCHANGED <<dwolla, debit, losses>>

ConfirmVerified(h) ==
  /\ Doing(h, "confirming")
  /\ IF sourceStatus(remote[busy[h].source]) = "VERIFIED" THEN Proceed(h, "marking") ELSE Leave(h)
  /\ UNCHANGED <<dwolla, row, debit, losses>>

MarkVerified(h) ==
  /\ Doing(h, "marking")
  /\ SetStatus(busy[h].source, "VERIFIED")
  /\ Proceed(h, "choosing")
  /\ UNCHANGED <<dwolla, debit, losses>>

---------------------------------------------------------------------------
(* The default: setDefaultSource is one transaction over all the rows. *)

ChooseDefault(h) ==
  /\ Doing(h, "choosing")
  /\ IF HasDefault THEN Done(h) ELSE Proceed(h, "defaulting")
  /\ UNCHANGED <<dwolla, row, debit, losses>>

SetDefaultSource(h) ==
  /\ Doing(h, "defaulting")
  /\ row' = [s \in Sources |-> [row[s] EXCEPT !.isDefault = s = busy[h].source]]
  /\ Done(h)
  /\ UNCHANGED <<dwolla, debit, losses>>

SelectDefault(h) ==
  /\ Asked(h, "default")
  /\ \E s \in Sources : Usable(s) /\ Start(h, "defaulting", s)
  /\ UNCHANGED <<dwolla, row, debit, losses>>

(* The first that is VERIFIED takes over, when there is one. *)
Replace(h) ==
  \/ \E s \in Listed : Usable(s) /\ busy' = [busy EXCEPT ![h].at = "defaulting", ![h].source = s]
  \/ (\A s \in Listed : ~Usable(s)) /\ Leave(h)

---------------------------------------------------------------------------
(* removeFundingSource. *)

RemoveSource(h) ==
  /\ Asked(h, "remove")
  /\ \E s \in Listed :
       busy' = [busy EXCEPT ![h] = [Unasked EXCEPT !.at = "checking", !.source = s,
                                                !.isDefault = row[s].isDefault]]
  /\ UNCHANGED <<dwolla, row, debit, losses>>

CheckActive(h) ==
  /\ Doing(h, "checking")
  /\ IF debit[busy[h].source] = "active" THEN Leave(h) ELSE Proceed(h, "removing")
  /\ UNCHANGED <<dwolla, row, debit, losses>>

RemoveAtDwolla(h) ==
  /\ Doing(h, "removing")
  /\ remote' = [remote EXCEPT ![busy[h].source] = "removed"]
  /\ Emit(busy[h].source, "removed")
  /\ Proceed(h, "retiring")
  /\ UNCHANGED <<guesses, row, debit, losses>>

RetireSource(h) ==
  /\ Doing(h, "retiring")
  /\ row' = [row EXCEPT ![busy[h].source].status = "REMOVED", ![busy[h].source].isDefault = FALSE]
  /\ IF busy[h].isDefault THEN Proceed(h, "replacing") ELSE Leave(h)
  /\ UNCHANGED <<dwolla, debit, losses>>

ReplaceDefault(h) ==
  /\ Doing(h, "replacing")
  /\ Replace(h)
  /\ UNCHANGED <<dwolla, row, debit, losses>>

---------------------------------------------------------------------------
(* listFundingSources: the rows are read, then Dwolla's list (without the  *)
(* removed), and every row that is in both is written.                     *)

ListSources(h) ==
  /\ Asked(h, "list")
  /\ busy' = [busy EXCEPT ![h] =
                [Unasked EXCEPT !.at = "listing", !.todo = Listed,
                             !.failed = {s \in Listed : row[s].status = "FAILED"}]]
  /\ UNCHANGED <<dwolla, row, debit, losses>>

ListAtDwolla(h) ==
  /\ Doing(h, "listing")
  /\ busy' = [busy EXCEPT ![h].at = "updating", ![h].answer = remote,
                          ![h].todo = {s \in @ : remote[s] # "removed"}]
  /\ UNCHANGED <<dwolla, row, debit, losses>>

UpdateListed(h) ==
  /\ Doing(h, "updating")
  /\ \E s \in busy[h].todo :
       /\ SetStatus(s, IF s \in busy[h].failed THEN "FAILED" ELSE sourceStatus(busy[h].answer[s]))
       /\ busy' = [busy EXCEPT ![h].todo = @ \ {s}]
  /\ UNCHANGED <<dwolla, debit, losses>>

PickDefault(h) ==
  /\ Doing(h, "updating") /\ busy[h].todo = {}
  /\ IF HasDefault THEN Leave(h) ELSE Replace(h)
  /\ UNCHANGED <<dwolla, row, debit, losses>>

---------------------------------------------------------------------------
(* initiateFunding, as far as it is about the account, and the bank. *)

Fund(h) ==
  /\ Asked(h, "fund")
  /\ \E s \in Sources : Usable(s) /\ debit[s] = "none" /\ Start(h, "reserving", s)
  /\ UNCHANGED <<dwolla, row, debit, losses>>

ReserveDebit(h) ==
  /\ Doing(h, "reserving")
  /\ debit' = [debit EXCEPT ![busy[h].source] = "active"]
  /\ Proceed(h, "posting")
  /\ UNCHANGED <<dwolla, row, losses>>

(* Dwolla takes a debit of a verified account only. *)
PostDebit(h) ==
  /\ Doing(h, "posting")
  /\ debit' = [debit EXCEPT ![busy[h].source] =
                 IF remote[busy[h].source] = "verified" THEN "active" ELSE "over"]
  /\ Leave(h)
  /\ UNCHANGED <<dwolla, row, losses>>

(* The bank ends a debit that was posted. *)
DebitEnds ==
  /\ \E s \in Sources :
       /\ debit[s] = "active" /\ \A h \in Actors : ~(Doing(h, "posting") /\ busy[h].source = s)
       /\ debit' = [debit EXCEPT ![s] = "over"]
  /\ UNCHANGED <<dwolla, row, busy, losses>>

(* Dwolla gives up an account, as it does when the bank returns a debit. *)
DwollaWithdraws ==
  /\ Withdraws
  /\ \E s \in Sources :
       /\ remote[s] = "verified" /\ remote' = [remote EXCEPT ![s] = "removed"]
       /\ Emit(s, "removed")
  /\ UNCHANGED <<guesses, row, debit, busy, losses>>

---------------------------------------------------------------------------
(* processWebhook, for the events of an account. *)

ReserveWebhook(h) ==
  /\ h \in Deliveries /\ Doing(h, "idle")
  /\ \E s \in Sources, t \in Topics :
       /\ delivery[s][t] \in {"sent", "FAILED"}
       /\ delivery' = [delivery EXCEPT ![s][t] = "PROCESSING"]
       /\ busy' = [busy EXCEPT ![h] = [Unasked EXCEPT !.at = "fetching", !.source = s, !.topic = t]]
  /\ UNCHANGED <<remote, guesses, row, debit, losses>>

FetchSource(h) ==
  /\ Doing(h, "fetching")
  /\ busy' = [busy EXCEPT ![h].at = "finding", ![h].word = sourceStatus(remote[busy[h].source])]
  /\ UNCHANGED <<dwolla, row, debit, losses>>

(* An event of an account that has no row yet is completed and forgotten. *)
FindSource(h) ==
  /\ Doing(h, "finding")
  /\ IF Saved(busy[h].source)
     THEN busy' = [busy EXCEPT ![h].at = "writing", ![h].isDefault = row[busy[h].source].isDefault]
     ELSE Proceed(h, "completing")
  /\ UNCHANGED <<dwolla, row, debit, losses>>

StatusByTopic(topic, word) ==
  CASE topic = "removed" -> "REMOVED"
    [] topic = "maxattempts" -> "FAILED"
    [] OTHER -> word

WriteSource(h) ==
  LET s == busy[h].source
      status == StatusByTopic(busy[h].topic, busy[h].word)
  IN /\ Doing(h, "writing")
     /\ row' = [row EXCEPT ![s].status = status,
                           ![s].isDefault = busy[h].isDefault /\ status \notin {"REMOVED", "FAILED"}]
     /\ Proceed(h, IF status = "VERIFIED" THEN "choosing" ELSE "completing")
     /\ UNCHANGED <<dwolla, debit, losses>>

CompleteWebhook(h) ==
  /\ Doing(h, "completing")
  /\ delivery' = [delivery EXCEPT ![busy[h].source][busy[h].topic] = "PROCESSED"]
  /\ Leave(h)
  /\ UNCHANGED <<remote, guesses, row, debit, losses>>

---------------------------------------------------------------------------
Loss == losses < MaxLosses /\ losses' = losses + 1

(* The event of a delivery that raises is sent again; an error of Dwolla   *)
(* during a guess or the read after it counts as a refusal, one while the  *)
(* debit is posted ends it.                                                *)
BankCallFails(h) ==
  /\ Loss /\ ~Doing(h, "idle")
  /\ CASE busy[h].at \in {"guessing", "confirming"} -> Refused(h) /\ UNCHANGED <<delivery, debit>>
       [] Doing(h, "posting") ->
            Leave(h) /\ debit' = [debit EXCEPT ![busy[h].source] = "over"] /\ UNCHANGED delivery
       [] h \in Deliveries ->
            /\ Leave(h)
            /\ delivery' = [delivery EXCEPT ![busy[h].source][busy[h].topic] = "FAILED"]
            /\ UNCHANGED debit
       [] OTHER -> Leave(h) /\ UNCHANGED <<delivery, debit>>
  /\ UNCHANGED <<remote, guesses, row>>

BankCrash(h) ==
  /\ Crashes /\ Loss /\ ~Doing(h, "idle")
  /\ Leave(h)
  /\ UNCHANGED <<dwolla, row, debit>>

Ask(h) ==
  \/ CreateSource(h) \/ InitiateMicroDeposits(h) \/ VerifyMicroDeposits(h)
  \/ SelectDefault(h) \/ RemoveSource(h) \/ ListSources(h) \/ Fund(h)

Handle(h) ==
  \/ SaveSource(h) \/ RecordInitiation(h)
  \/ CountAttempt(h) \/ Guess(h) \/ LockSource(h) \/ ConfirmVerified(h) \/ MarkVerified(h)
  \/ ChooseDefault(h) \/ SetDefaultSource(h)
  \/ CheckActive(h) \/ RemoveAtDwolla(h) \/ RetireSource(h) \/ ReplaceDefault(h)
  \/ ListAtDwolla(h) \/ UpdateListed(h) \/ PickDefault(h)
  \/ ReserveDebit(h) \/ PostDebit(h)
  \/ FetchSource(h) \/ FindSource(h) \/ WriteSource(h) \/ CompleteWebhook(h)

BankNext ==
  \/ DebitEnds \/ DwollaWithdraws
  \/ \E h \in Actors :
       Ask(h) \/ ReserveWebhook(h) \/ Handle(h) \/ BankCallFails(h) \/ BankCrash(h)

BankSpec == BankInit /\ [][BankNext]_bankVars

---------------------------------------------------------------------------
(* Properties. *)

Attempts == 0..3
SourceRow == [status : SourceStatus \cup {"NONE"}, isDefault : BOOLEAN, initiated : BOOLEAN, attempts : Attempts]
EventRows == [AllTopics -> {"none", "sent", "PROCESSING", "PROCESSED", "FAILED"}]

(* Every variable keeps its type. *)
BankTypeOK ==
  /\ remote \in [Sources -> DwollaStatus] /\ guesses \in [Sources -> Nat]
  /\ delivery \in [Sources -> EventRows]
  /\ row \in [Sources -> SourceRow]
  /\ debit \in [Sources -> {"none", "active", "over"}]
  /\ losses \in 0..MaxLosses

(* An account that the API calls VERIFIED, and so lets the customer debit,  *)
(* was verified by Dwolla, whichever handler writes last what it read first *)
(* (DWOLLA_SANDBOX.md, 3: the client cannot set a source to verified).      *)
VerifiedByDwolla == \A s \in Sources : Usable(s) => remote[s] \in {"verified", "removed"}

(* Three guesses lock the account, although an event, or a list that was    *)
(* read before, may undo the FAILED that the third one wrote: the count is  *)
(* written before the guess (DWOLLA_SANDBOX.md, 3: "three failed attempts   *)
(* lock verification").  Of two requests at the same time it fails: each    *)
(* writes the count that it has read.                                       *)
ThreeAttempts == \A s \in Sources : guesses[s] <= 3

(* An account is VERIFIED only after Dwolla verified it, and of a customer  *)
(* who sends one request at a time, whatever events and losses come beside  *)
(* it, the third guess of the micro-deposits is the last                    *)
(* (verifyMicroDeposits).                                                   *)
VerificationIsEarned == BankTypeOK /\ VerifiedByDwolla /\ ThreeAttempts

(* No account with a debit under way is removed at Dwolla at the wish of    *)
(* the customer (DWOLLA_SANDBOX.md, 4: "rejected while a TiCash ACH request *)
(* is pending").  It fails: a debit that another request makes after        *)
(* hasActiveTransactions was asked is not seen.                             *)
RemovalRespectsDebits ==
  [][\A h \in Requests : RemoveAtDwolla(h) => debit[busy[h].source] # "active"]_bankVars
=============================================================================
