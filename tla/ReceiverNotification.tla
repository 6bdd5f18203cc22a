------------------------ MODULE ReceiverNotification ------------------------
(***************************************************************************)
(* The message that tells a recipient of a delivered recharge              *)
(* (apps/api/src/topup/receiver-notification.ts and its outbox in          *)
(* topup/repository.ts).  The outbox row is written with the delivery; a   *)
(* worker of any process, or staff, claims it, sends once and records what *)
(* became of it.  The carrier has no idempotency key of its own.           *)
(***************************************************************************)
EXTENDS Integers

CONSTANTS
  Senders,   \* SMS workers of all processes, and staff who retry one message
  Messages,  \* transactions, each with at most one RechargeNotification
  MaxSends,  \* bound: claims of one message
  MaxLosses  \* bound: crashes and lost answers

ASSUME OutboxAssumption == MaxSends \in Nat /\ MaxLosses \in Nat

VARIABLES
  delivery,  \* what the notification reads of the MobileTopUpTransaction
  note,      \* RechargeNotification of each transaction
  texts,     \* messages the carrier took
  denied,    \* those of them it answered with an error status
  sending,   \* what each sender is doing
  losses     \* crashes and lost answers so far

smsVars == <<delivery, note, texts, denied, sending, losses>>

Rest == [at |-> "idle", id |-> "none", result |-> "none"]
NoNote == [status |-> "NONE", claimed |-> FALSE, category |-> "none", attempts |-> 0]
Waiting == [NoNote EXCEPT !.status = "PENDING", !.category = "SMS_NOT_CONFIGURED"]

OutboxInit ==
  /\ delivery = [x \in Messages |-> [status |-> "PROCESSING", confirmed |-> FALSE]]
  /\ note = [x \in Messages |-> NoNote]
  /\ texts = [x \in Messages |-> 0]
  /\ denied = [x \in Messages |-> 0]
  /\ sending = [s \in Senders |-> Rest]
  /\ losses = 0

---------------------------------------------------------------------------
(* updateTransaction: the row, and the outbox row of a confirmed delivery  *)
(* in the same transaction; one that exists is left as it is.              *)

notificationFor(r) == r.status = "DELIVERED" /\ r.confirmed

UpdateTransaction(x, status, confirmed) ==
  LET r == [status |-> status, confirmed |-> confirmed] IN
  /\ delivery[x].confirmed => confirmed
  /\ delivery' = [delivery EXCEPT ![x] = r]
  /\ note' = IF notificationFor(r) /\ note[x] = NoNote
             THEN [note EXCEPT ![x] = Waiting] ELSE note
  /\ UNCHANGED <<texts, denied, sending, losses>>

---------------------------------------------------------------------------
(* ReceiverNotificationService.retry.  A batch lists the retryable rows    *)
(* and takes them one by one, so each may have changed when its turn comes.*)

Begin(s, x) ==
  /\ sending[s] = Rest
  /\ note[x] # NoNote
  /\ sending' = [sending EXCEPT ![s] = [Rest EXCEPT !.at = "claim", !.id = x]]
  /\ UNCHANGED <<delivery, note, texts, denied, losses>>

\* Mutant of retryable: any failure is tried again.
retryableUnlessSent(n) == (n.status = "PENDING" /\ ~n.claimed) \/ n.status = "FAILED"

retryable(n) ==
  \/ n.status = "PENDING" /\ ~n.claimed
  \/ n.status = "FAILED" /\ n.category \in {"SMS_NOT_CONFIGURED", "PROVIDER_REJECTED"}

Rested(s) == sending' = [sending EXCEPT ![s] = Rest]

ClaimNote(s) ==
  LET x == sending[s].id IN
  /\ sending[s].at = "claim" /\ note[x].attempts < MaxSends
  /\ \/ /\ retryable(note[x]) /\ notificationFor(delivery[x])
        /\ note' = [note EXCEPT ![x] = [status |-> "PENDING", claimed |-> TRUE,
                                        category |-> "none", attempts |-> @.attempts + 1]]
        /\ sending' = [sending EXCEPT ![s].at = "send"]
     \/ /\ ~(retryable(note[x]) /\ notificationFor(delivery[x]))
        /\ Rested(s) /\ UNCHANGED note
  /\ UNCHANGED <<delivery, texts, denied, losses>>

\* TelnyxReceiverSmsProvider.send, one attempt: not configured or refused;
\* taken; taken or not, and the answer lost or unreadable, an exception; or
\* taken, and answered by a gateway's error.  Every status that is not 2xx is
\* PROVIDER_REJECTED to the adapter.
Send(s) ==
  LET x == sending[s].id
      Accept == texts' = [texts EXCEPT ![x] = @ + 1]
      Answer(result) == sending' = [sending EXCEPT ![s].at = "finish", ![s].result = result]
      Loss == losses < MaxLosses /\ losses' = losses + 1
  IN
  /\ sending[s].at = "send"
  /\ \/ \E result \in {"SMS_NOT_CONFIGURED", "PROVIDER_REJECTED"} :
          Answer(result) /\ UNCHANGED <<texts, denied, losses>>
     \/ Accept /\ Answer("SENT") /\ UNCHANGED <<denied, losses>>
     \/ Loss /\ (Accept \/ UNCHANGED texts) /\ Answer("SMS_OUTCOME_UNKNOWN") /\ UNCHANGED denied
     \/ Loss /\ Accept /\ Answer("PROVIDER_REJECTED") /\ denied' = [denied EXCEPT ![x] = @ + 1]
  /\ UNCHANGED <<delivery, note>>

FinishNotification(s) ==
  LET x == sending[s].id
      result == sending[s].result
  IN
  /\ sending[s].at = "finish"
  /\ note' = [note EXCEPT
       ![x].status = IF result = "SENT" THEN "SENT" ELSE "FAILED",
       ![x].category = IF result = "SENT" THEN "none" ELSE result]
  /\ Rested(s)
  /\ UNCHANGED <<delivery, texts, denied, losses>>

Crash(s) ==
  /\ sending[s].at \in {"send", "finish"}
  /\ losses < MaxLosses /\ losses' = losses + 1
  /\ Rested(s)
  /\ UNCHANGED <<delivery, note, texts, denied>>

OutboxNext ==
  \/ \E x \in Messages, status \in {"PROCESSING", "DELIVERED", "REFUNDED"}, confirmed \in BOOLEAN :
       UpdateTransaction(x, status, confirmed)
  \/ \E s \in Senders, x \in Messages : Begin(s, x)
  \/ \E s \in Senders : ClaimNote(s) \/ Send(s) \/ FinishNotification(s) \/ Crash(s)

OutboxSpec == OutboxInit /\ [][OutboxNext]_smsVars

---------------------------------------------------------------------------
(* Properties. *)

(* Every variable keeps its type.                                          *)
OutboxTypeOK ==
  /\ note \in [Messages -> [status : {"NONE", "PENDING", "SENT", "FAILED"}, claimed : BOOLEAN,
                            attempts : 0..MaxSends,
                            category : {"none", "SMS_NOT_CONFIGURED", "PROVIDER_REJECTED",
                                        "SMS_OUTCOME_UNKNOWN"}]]
  /\ texts \in [Messages -> Nat] /\ denied \in [Messages -> Nat] /\ losses \in 0..MaxLosses

(* Whoever retries, whatever answer was lost or process stopped, a message *)
(* the carrier may have taken is not sent again ("A crash/timeout after    *)
(* acceptance must not allow another send", receiver-notification.ts),     *)
(* unless the carrier itself answered that it did not take it.             *)
ResentOnlyIfDenied == \A x \in Messages : texts[x] <= denied[x] + 1

(* The recipient gets at most one message besides those the carrier denied *)
(* to have taken, whatever fails and whoever sends.                        *)
MessageSentOnce == OutboxTypeOK /\ ResentOnlyIfDenied

(* "Unknown acceptance is never retried automatically" (ReceiverSms-       *)
(* Provider): the carrier takes one message at most.  The code breaks it:  *)
(* the answer of a gateway, a 502 or 504 after acceptance, counts as the   *)
(* carrier's refusal, and the next batch sends the message again.          *)
SentOnce == \A x \in Messages : texts[x] <= 1
=============================================================================
