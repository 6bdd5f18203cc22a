# Ticash: a TLA+ verification project

This directory holds TLA+ models of the Ticash API (`src/apps/api/src`), the TLC
configurations that check them on small instances, and theorems about them that
TLAPS checks for every size of the instance. Paths below are relative to
`src/apps/api/src` unless they name another directory; `service.ts` and
`repository.ts` alone are those of `topup/`. Names in `code` are names of the
source where the source has one.

## 1. The system

Ticash is an Express API over PostgreSQL (Prisma) with two products: the
remittance product *TiCash* (identity check at Didit, bank debits through
Dwolla, quotes, transfers, payout) and the airtime product *FlupFlap* (mobile
recharges paid at Stripe or from a store's balance, also offered to TiCash
users). It may run as several processes, each with its timers: recipient SMS
(app.ts:1088), recurring recharges (app.ts:1110), reconciliation of recharges
(app.ts:1133). The processes share the database and nothing else. Prisma's
transactions are READ COMMITTED, except those of the stores, of account
deletion and of its suppression after a restore, which are serializable; a
`KeyedMutex` holds within one process. Correctness therefore rests on
conditional updates (`updateMany` with a `where` on what was read), unique
columns, row locks, advisory locks, and idempotency keys at the outside
services. What is hard is everything between two awaits.

### Components

| Component | State | Operations | Interacts with | Hard behaviour | What makes it correct | Module |
|---|---|---|---|---|---|---|
| Recharge settlement (`service.ts`, `repository.ts`) | `MobileTopUpTransaction`, payment events, ledger | session, payment event, fulfil, hold, refund, recover, reconcile, cancel | Stripe, provider, fraud gate, notifications | webhooks, timers, status requests and staff interleave; lost answers; crashes | one submission, never airtime and refund both, no payment forgotten | TopUpSettlement |
| Stripe adapter (`stripe-provider.ts`, `stripe-webhook.ts`) | none | session, expiry, refund, recovery status, events | Stripe | duplicates, reordering, delayed methods | paid is what Stripe's state says, not an event's name | TopUpSettlement, RecurringRecharge |
| Fraud gate, limits and review (`fraud-*.ts`, `payment-attempt-controls.ts`, `purchase-attempt-reset.ts`) | assessments, exemptions | assess, approve, reset | settlement, reservation | the gate is awaited while the row moves on | an unreviewed hold persists | TopUpSettlement, RechargeReservation |
| Reservation and quotes (`service.ts`, `repository.ts`) | quotes, rows, attempts | quote, reserve, replay | settlement, promotions | concurrent purchases, stale time | one row a quote, limits hold | RechargeReservation |
| Provider adapters (`reloadly-`, `dtone-`, `ding-provider.ts`, `provider-router.ts`, `provider-identity.ts`) | tokens, Ding's memory of submissions | submit, look up | settlement | lost answers, listings that lag, three vocabularies | sent once, told truly | ProviderAdapters, ProviderIdentity |
| Recipient messages (`receiver-notification.ts`) | `RechargeNotification` | record, claim, send, retry | settlement, carrier | crash between claim and send | sent again only if the carrier denied it | ReceiverNotification |
| Recurring recharge (`flupflap/recurring-recharge.ts`) | schedules | enable, pause, resume, cancel, run | settlement (saved card), deletion | two timers, stale claims, changes during a run | one charge an occurrence | RecurringRecharge |
| Stores (`flupflap/stores.ts`) | balance, entries, orders, journal | deposit, return, sell, settle, refund | settlement | concurrent orders, settlement against refund | books agree, no overdraft | StoreSales |
| Promotions (`flupflap/marketing*.ts`) | campaigns, redemptions, rewards | reserve, reconcile, approve | quotes, settlement | capacity under concurrency, edits of the rules, refund during approval | redemptions keep the capacity, rewards are earned | Promotions |
| Bank debits (`funding/`) | funding rows, ledger, webhook rows | fund, refresh, cancel, event | transfers, Dwolla | lost answers, read then write | one debit, booked as reported | Remittance |
| Bank accounts (`funding/`) | funding sources | add, verify, default, remove, event | Dwolla, debits | guesses and events at once | verified by the bank only | BankAccounts |
| Remittance (app.ts, `payout-adapters.ts`) | transfers, cases, ledger | sync, decide, pay out, deliver, reverse | debits, screening, payout | two reviewers, the bank takes back | paid out when settled and clear | Remittance, Escrow |
| Entry of a transfer (app.ts, `security.ts`, `fx/`) | quotes, keys, transfers | quote, create, replay | remittance | retries, two requests, limits checked early | one transfer a key and quote | TransferEntry |
| Identity check (`kyc/`) | profile, sessions, webhook rows | session, event, refresh, submit, review | transfers, Didit | events late, twice and at once, beside refreshes | approved by Didit only, nothing answered is lost | IdentityVerification |
| TiCash access (app.ts) | users, sessions, links, lock-outs | sign in, renew, reset, lock | all routes | two renewals at once | a token has one successor | TicashSignIn |
| FlupFlap access (`flupflap/auth.ts`, `verification.ts`, `repository.ts`) | customers, sessions, resets, codes | sign in, renew, reset, verify, close | all routes | a reset during a sign-in; guesses at once | no session outlives its password | CustomerIdentity |
| Account deletion (`self-service-deletion.ts`, `account-deletion.ts`) | customers, receipts | request, process | recharges, schedules, stores | deletion against a charge | nothing unsettled is erased | RecurringRecharge, StoreSales, CustomerIdentity |
| Deletion ledger (`deletion-ledger*.ts`) | signed exports, storage disk | export, merge, store, suppress | deletion, restores | restored backups, half a suppression, crash while storing | the deleted stay deleted | DeletionLedger |
| Reports, dashboards, Dart clients, legacy client, scripts | read-only or user interface | | | | | not modelled |

`PROJECT.json` lists every component with its status, under `hazards` what is
hard to test in each at its line with the properties that cover it, and under
`map` the lines each definition stands for.

## 2. Plan and modules

The order was that of what the program can lose: the settlement of a recharge;
what charges a card without its owner; the remittance from its debit to its
payout, with an abstract specification of the money; then what lets a customer
in, and what comes before and beside a purchase. All of it is written. Modules
that compose nothing with one another are still checked together where that
saves a run: an MC module chooses a *scenario* in its initial states, and the
variables of the other modules stand still.

| Module | Of | Checked by (module, configuration) | Proved in |
|---|---|---|---|
| TopUpSettlement | one hosted-checkout recharge | MCTopUpSettlement: Settlement, TicashProgress, HoldProgress | TopUpSettlementProofs |
| RecurringRecharge | one schedule, its charges, the account's deletion | MCRecurringRecharge: Recurring, RecurringProgress, RecurringCancelled | RecurringRechargeProofs |
| Escrow | the promise about a customer's money | as `KeepsEscrow` in Remittance.cfg | RemittanceProofs |
| Remittance | one transfer from debit to payout | MCRemittance: Remittance, RemittanceProgress | RemittanceProofs |
| IdentityVerification | one customer's check at Didit | MCIdentityVerification: Identity | IdentityVerificationProofs |
| TransferEntry, BankAccounts, TicashSignIn | before a debit | MCTransferEntry: TransferEntry, six scenarios | TransferEntryProofs |
| RechargeReservation, ProviderAdapters, ProviderIdentity | before and behind a recharge | MCRechargeReservation: RechargeReservation, three scenarios | RechargeReservationProofs |
| StoreSales, Promotions, ReceiverNotification, CustomerIdentity, DeletionLedger | the rest of FlupFlap | MCFlupFlap: FlupFlap, eight scenarios | FlupFlapProofs |
| FiniteSums | sums and sizes of finite sets | | itself, used by TransferEntryProofs, RechargeReservationProofs and FlupFlapProofs |

Conventions in all of them. **Grain**: an action is the code between two awaits
that others can observe; reads are folded into the step that follows where
nothing between the two can change what it does; a serializable transaction, or
one that holds the row lock of all it touches, is one step. A call to an outside
party and the write of its answer are two steps, and a lost answer leaves that
party in whatever state it reached. **Handlers** (requests, workers, callers)
carry the await they are suspended at and what they read before it; what they
write is decided on that, as in the code. **Faults** are lost calls and crashes;
a crash keeps what was written and forgets the rest. **Bounds** are constants
named in the modules ("bound: ..."). **Deadlock** is not checked anywhere: every
one of these systems may come to rest, and where it must not rest too early a
liveness property says so.

## 3. TopUpSettlement

One `MobileTopUpTransaction` paid by hosted Stripe checkout. Rows of different
recharges share nothing in this code, so one row is modelled, with everything
that may act on it: any number of requests (checkout, webhook deliveries, status
requests, staff review, cancellations) and timers.

| Variable | Code |
|---|---|
| `rec` | the row; a nullable timestamp or reference is a boolean |
| `assessment` | `RechargeFraudAssessment`: none, held, reviewed |
| `ledger` | postings with the references of the row |
| `processed` | Stripe events with `processedAt` set |
| `stripe`, `emitted` | session, intent and refund at Stripe; the events it has sent, each of which it may deliver again |
| `airtime`, `submissions` | the provider's record of the top-up, and how many submissions it acted on |
| `proc` | for every handler, where it is, what it read, and whether the row was written since (`fresh`), for the compare-and-set on columns it read |
| `faults` | crashes and lost calls |

`Deliver` is the webhook route, `Reconcile` the timer over
`listReconciliationCandidates`, `Poll` a status request of the owner;
`AllowExternalActions` is the flag by which a FlupFlap owner's request cannot
submit or refund.

Left out: amounts, signatures, audit rows, receipts. The gate's scoring is a
choice among clear, hold and unavailable. MOCK payments; store payments
(StoreSales) and off-session charges (RecurringRecharge), hence AUTHORIZED and
VOIDED. A second declined attempt in one session. `payment_intent.canceled`,
which goes the way of a failed payment. Disputes, and refunds that fail after
Stripe accepted them. The 15 seconds and the batch of the timer: any candidate
may be picked at any time. After a decline the code may answer an expiry with
409; the model accepts it, which shows in `processed` alone.

| Run | Instance | Shows |
|---|---|---|
| `settlement` | 2 requests, 1 worker, live FlupFlap with automatic refunds; 1 fault, or staff review, customer and staff cancellations (the constraint `OneTroubleAtATime`); 3.1 million states | one submission; a refund excludes airtime and is confirmed; no cancelled recharge is charged; the row and Stripe agree (`RowAndStripeAgree`: types, the invariant of the proofs, no payment forgotten or invented); payments do not go back |
| `ticash_progress` | 1 request, 1 worker, TiCash, 1 fault, fairness | the ledger follows the airtime; what is paid is captured, a refund is confirmed, an unknown submission is found |
| `hold_progress` | 1 request, 1 worker, live FlupFlap, automatic refunds, 1 fault, fairness | a held recharge is resolved; a status request moves nothing |

*Bounds.* A handler starts again as something else when it is done, so one
request slot gives every sequence, and two with a worker every race of two that
compete for a claim while a third reads in between. A TiCash recharge behaves as
a FlupFlap one whose gate is clear. One fault strands a claim, and the races with
its repair follow.

*Fairness.* A started handler goes on (Node runs resolved continuations); timers
fire again (`setInterval`); Stripe delivers an event until it is acknowledged
(strong, as request slots may be busy); refunds and top-ups come to an end.
Nothing makes customers or staff act. There is no review in `hold_progress`:
staff that approve again and again could keep the refund from its claim.

## 4. RecurringRecharge

One `FlupFlapRecurringRecharge`, the quotes and recharges of its runs, the
off-session payments, the customer's requests, and both transactions of account
deletion. `Workers` are the timers of the processes. `now` counts ticks of days;
`schedule` is the row with its claim (none, fresh, or stale after ten minutes);
`tx` the recharges, found by the idempotency key that names the occurrence;
`stripe` what Stripe keeps under each key and the intents it made; `run` and
`request` what workers and requests have read. Writes after the claim are by id,
whatever the row has become.

Quotes live minutes, claims ten, Stripe's keys a day: with `StripeForgets` none outlives
a tick. `Fulfil` and `Settle` outline what TopUpSettlement has in full. A quote above
the maximum is not kept. `refusal` is what refuses the customer's recharges for now
without a code that pauses the schedule: the quote (an operator switched off or of
another country, a hidden receipt), the limits (with the verified phone), or a
restriction, which is looked at before the row is looked up. `Unrepeatable` is a product
that `repeat` can never quote; no run has one, as it is never charged (section 9). A batch shows in one thing: a claim may go stale while
its holder runs. Left out: the first activation from paid checkouts, several schedules
at once.

| Run | Instance | Shows |
|---|---|---|
| `recurring` | 2 workers, 1 request, 1 change of the schedule, 1 fault, horizon of two intervals; 3.9 million states | workers that take stale claims over take one payment an occurrence; an account is erased only when settled |
| `recurring_progress` | 1 worker, 1 request, 1 cancelled recharge, 1 fault, cards of every kind, refusals that come and go, horizon of three intervals, fairness; a cancellation or a deletion only while every call is answered, and at once, and a refusal only before any of these (the constraint `OneTroubleAtATime`) | the card is asked on schedule only; what Stripe took is on its row in the end; what is due is charged or paused once nothing refuses it; a deletion is carried out |
| `recurring_cancelled` | 1 worker, 1 cancellation | *Cancelled and charged*, section 9 |

*Bounds.* `Interval` is 2, so that a tick may pass without an occurrence and one
may be missed by less than an interval. A third worker could only take over from
the second. The constraint of `recurring_progress` prunes faults, requests of the
customer, refusals and one of Stripe's three answers, none of which fairness is
about, so that it hides no behaviour that stays within it; what lies beyond is in
section 9. Two exceptions are in the properties: `DueIsChargedOrPaused` excuses an
occurrence that is refused still, or whose pending quote was left to expire, and
`ChargedIsCaptured` a customer who is restricted, as both are retried for ever.
*Fairness*: timers fire and finish, requests end, Stripe redelivers and settles,
reconciliation and staff settle paid recharges, claims age, the deletion worker
runs. Not the clock, nor customers, nor faults.

## 5. Remittance, Escrow, TransferEntry, BankAccounts

**Remittance** is one transfer from its debit to its payout: `fundTransfer`,
`refresh`, `cancel` and the Dwolla events (`processWebhook`), all through
`applyProviderStatus`; `syncTransferFromFunding`, which holds settled money,
screens and submits the payout; and what staff do (review, reversal, status,
restriction, suspension of payout methods). `bank` and `debits` are Dwolla's;
`delivery` its events and their rows; `funding`, `attached`, `ledger`, `transfer`,
`cleared`, `payouts` the database and the payout adapter. The handlers are of
different processes, which includes every order the `KeyedMutex` of one allows.
Amounts are left out, as every entry moves the one amount.

**Escrow** says what this promises about the customer's money: paid in, held for
the transfer, cleared, paid out or given back, each entry once. `KeepsEscrow`,
`Remittance`'s variables mapped to it by `INSTANCE Escrow WITH`, is a property of
the run and a theorem.

`Instant` lets a debit settle before the request that made it is answered. The
runs and the proofs have it FALSE: an ACH debit takes days. What happens
otherwise is in section 9.

**TransferEntry** is `POST /api/transfers` with the quotes before it: key, quote,
limits, risk flags, and the price in cents with its three roundings. `queue` is the
mutex of one process (`OneProcess`). A transfer fails and is revived when its funding is
(`TransferRevives`): the limits are stated of those that never failed. **BankAccounts**
is the funding source: added, proved by micro-deposits, default, removed, with Dwolla's
events at the same time; several debits of one account are one, with the status that
counts.

| Run | Instance | Shows |
|---|---|---|
| `remittance` | 2 handlers of every kind, 1 fault; 5.7 million states | one debit; a status reported is booked; a payout only after settlement and clearance; Escrow is implemented |
| `remittance_progress` | 2 handlers, completed and failed events, 1 fault, fairness | what the bank settles is booked, then held, although handlings fail |
| `transfer_entry` | scenarios `entry` (2 keys, 2 quotes, Canadian dollars, rates that change, 1 fault or revived transfers, a horizon of a day), `later` (two currencies, one rate, no fault, a horizon of a week), `bank` (1 request, 1 delivery, accounts that Dwolla withdraws, 1 fault), `events` (2 deliveries at once), `sessions` and `passwords` (2 requests each); 2.2 million states | a key is one transfer and its retry is told so; limits of day and week, of transfers that never failed, and the velocity flag hold in one process and prices cover; only the bank verifies an account, in three guesses of one request at a time; tokens and links are used once |

*Bounds.* Two handlers give every race of a read with a write, and a third party moves
between: the bank. One `Amount` with two totals reaches both limits. There is one
request beside a delivery in `bank`; with two, `ThreeAttempts` and
`RemovalRespectsDebits` fail (section 9). One tick ends a session, a link and a lock-out. *Fairness*
(`remittance_progress`): a handler goes on, and Dwolla repeats an event until it is
answered (strong). The bank need not move and nobody need ask; hence a property excuses
an event whose handling a crash ended, which the code takes for a duplicate ever after
(`Orphaned`).

## 6. IdentityVerification, TicashSignIn, CustomerIdentity

**IdentityVerification** is one customer's profile: sessions saved, decisions by
event or refresh, the customer's submission, staff. The transactions that write
profile and user lock the profile's row, so each is a step. A stamp counts half
seconds, because Didit dates events in seconds and the API dates its own
refreshes within them. What Didit answers to a refresh and the date the API gives
to the answer are two steps (`GetDecision`, `DateDecision`). The run `identity` has
two handlers of every kind, one session saved twice (where no call fails, the
constraint `SavedAgainWithoutFaults`), two events, two seconds and one fault, with
fairness as in `remittance_progress`: nobody is approved whom Didit did not approve;
the profile is dated no earlier than any event that was answered with success; and
every event is handled in the end unless a crash ended its handling. A session
saved a second time forgets its date, which `NoAnsweredEventIsNewer` excuses. A date
is all the code compares: that the newest decision stands is false
(`LastDecisionStands`, section 9).

**TicashSignIn** (scenarios `sessions`, `passwords` of `transfer_entry`) is sign-in
with its lock-out, rotation and reset links with the database. A token has one
successor; a link changes the password once. **CustomerIdentity** (scenarios
`signIn`, `codes` of `flupflap`) is FlupFlap's: there a session carries the
`authVersion` of its customer, and a session ends with its password, has one
successor and does not outlive the account; a verified number is today's; guesses
are bounded. Registration, guests, Google and devices are left out.

## 7. RechargeReservation, ProviderAdapters, the rest of FlupFlap

**RechargeReservation**: quotes, the reservation under the row lock of the customer
and the advisory lock of the recipient, the limits of `fraud-policy.ts` and
`payment-attempt-controls.ts` and the staff reset. A request reads the time once,
before it waits. Units are hours. Scenario `failing` has a stop or a
restriction (the constraint `FailingHasOneTrouble`), declined cards and totals that
reach the day's before the attempts do; `crowded` three quotes
of one number racing for one reservation an hour and two a day, over a whole day,
where nobody is restricted and what is paid for is delivered (the constraint
`CrowdedGoesWell`; `LastIsMadeLast` only names the quotes in the order they are made). A payment that failed may be captured late, and the row is then
fulfilled. Attempts and spending stay bounded, the reservations that staff took out
aside, and a reset takes out none whose payment is awaited (`PurchaseLimitsHold`); a
quote buys one row (`QuoteBuysOneRow`).

**ProviderAdapters** (scenario `provider`, three providers, two callers): the service
asks once, by a claim that outlives the process; Ding's adapter also stands repetition
within one. What is assumed of providers is external: a request answered with 400, 401
or 429 was not acted on; a lost answer says nothing; listings lag. The recharge is sent
once, to the provider of its operator; what is told is so; what is refused was not and
will not be sent. Of the router's check of a quote's provider the run shows that it
never fails. Ding's test number is part of `offered`.

**StoreSales** (scenarios `sale`, one sale with crashes and lost answers, and `tills`,
two sales without), **Promotions** (three campaigns, two customers),
**ReceiverNotification** (two senders, three sends, two losses) and **DeletionLedger**
(`ledger`: two accounts, one backup, two exports; `disk`: two runs of the storage tool)
are checked in `flupflap` (2.2 million states): the books of a store agree and are never
overdrawn, airtime is bought once and with money that is held, given back only where
none went, and looked at while it holds any; campaigns keep to the rules their
redemptions were reserved under, while staff edits them (`rulesSnapshot`; the bound
`EditIsSeen` leaves out edits that no quote reads), and pay for delivered recharges
only; a message is sent again only if the carrier answered that it did not take it; a
database that serves has every account of the trusted ledger deleted. A first-recharge
benefit is one a customer; it need not be for the first recharge that is delivered, as
an earlier quote without a promotion may be delivered before. What
these two properties do not promise, `InFlightKeepsItsPlace` and `SentOnce`, is false
(section 9).

The deletion ledger rests on its operators. docs/FLUPFLAP_RESTORE_LEDGER.md asks
of them one trusted checkpoint, moved to a ledger that was merged with the last
and durably stored, and no release before a whole suppression with it. The model
asks one thing more, which the document leaves unsaid: no restore while an export
is on its way to becoming the trusted one. Without it TLC finds a restored account
live.

## 8. Proofs

TLC checks small instances; these hold for every number of handlers, callers,
accounts and faults.

**TopUpSettlementProofs**, from `ConfigurationAssumption` alone: `TypeCorrect`,
`ClaimsAreSound` (`SettlementInv`), `SingleSubmission` (`AtMostOneSubmission`),
`RefundIsExclusive` (`RefundExcludesAirtime`), `RefundedIsConfirmed`, `PaymentsAgree`
(`RowAndStripeAgree`), `CancelledIsNotCharged` (`CancelledIsNeverCharged`),
`LedgerIsGenuine` (`LedgerFollowsAirtime`), and the action properties
`PaymentMovesForward` (`PaymentOnlyMovesForward`) and `PollIsHarmless`
(`PollMovesNothing`). The inductive invariant is `TypeOK /\ SettlementInv`, with
`PaymentInv` for the payment; the run `settlement` checks it too. None of
the properties is inductive: that one handler stands before the submission follows
from the fulfilment claim (`OneClaimant`); that a refund excludes airtime needs
that the recovery claim is taken only when no airtime came and none can come
(`RecoveryIsSafe`), which rests on the fulfilment claim or on a final answer being
genuine (`ResultIsGenuine`); that REFUNDED is confirmed needs that the handler holds
Stripe's answer (`ConfirmationIsGenuine`). Most actions only move a handler and
write the row: `WritingKeeps` covers those; what touches the outside has lemmas of
its own.

**RecurringRechargeProofs**: `OccurrenceIsChargedOnce` (`ChargedOnce`), for any number
of workers, requests, crashes and changes of the schedule: what Stripe keeps under
the key of an occurrence stands for one intent (`AskedOnce`). The theorem names its
condition, that Stripe does not forget the key (section 9). `SoleProcessKeepsTheRhythm`
(`RhythmIsKept`): one worker asks the card only when an occurrence is due.
`ErasedIsSettled` (`ErasedOnlyWhenSettled`), again for any number of workers, requests,
changes and crashes: nothing of an erased account's money is open, nor opened later.
`AnsweredAtOnce` names its conditions, which are those of `Recurring.cfg`: Stripe's
answers are final and remembered, and no recharge is cancelled while it is charged.
Without any one of them the property fails (section 9: *Released claim*, *Late answer*,
*Forgotten key*). The erasure looks at the rows only, so the invariant says what
a row tells of Stripe (`Agree`): FAILED and CAPTURED only after that answer, no answer
without a row, and no intent but the answered one. A run that is about to charge
has its row (`RunsInv`); a settled row never moves again (`DeletedInv`).

**RemittanceProofs**, from `BankIsSlow` (`Instant = FALSE`): `TypeCorrect`, `OneDebit`
(`DebitedOnce`), `BookedStatus` (`StatusIsBooked`), `GatedPayout` (`PayoutIsGated`) and
`ImplementsEscrow` (`KeepsEscrow`), the refinement. The invariant adds to the three
properties that one handler stands between the reservation of the debit and its
attachment (`OnePoster`), and that what a handler is about to write agrees with the
ledger (`WorkIsSound`): a handler that applies COMPLETED has seen the bank say so, one
at the payout has seen the clearance and the held entry. TLC checked that invariant
on the instance of `Remittance.cfg` before. The refinement shows for each action
that it is a step of Escrow or leaves entries, clearance and payouts alone.

**TransferEntryProofs**: `KeysAndQuotesBuyOnce` (`OneTransferEach`),
`OwnTransferAnswers` (`OwnTransferIsReplayed`) and `LimitsBindEveryTransfer`
(`TransferLimitsHold`), for every limit, period, rate and number of requests. The first
needs only that a handler that saves a key has made its transfer (`KeyInv`). The others
rest on the mutex of one process (`Mutex`: the head of the queue alone is between the
look-up of the key and its row). A limit is not inductive, as it is judged some awaits
before the transfer is made: `LimitInv` adds that whoever is about to create one still
has room for it, and bounds every window, not only those that end with a transfer;
`VelocityInv` is the same of the flag. Both speak of transfers that never failed: one
that failed may be revived at any moment, by which nothing is checked. `PriceCovers` is
arithmetic: the three roundings of a quote. Of the bank accounts: `OnlyDwollaVerifies`,
for any requests and events at once, because what Dwolla verified is never unverified
again (`RemoteGrows`), so that the words and lists a handler carries over its awaits
stay true (`HandlerFits`). The bound on guesses is left to TLC, which checks it for one
request at a time; it fails of two. Of the customer's access: `AccessIsTaken`
(`AccessIsTakenOnce`), for any number of requests, sessions and links. A token that is
being renewed is no session any more and has no child, and one request alone renews it;
a link that changed the password stays consumed.

**RechargeReservationProofs**: `EveryQuoteBuysOneRow` (`QuoteBuysOneRow`) and
`LimitsBindEveryPurchase` (`PurchaseLimitsHold`), for every limit, number of requests
and delay. The invariant adds who holds which lock (`LocksFit`), and that a request
which was let through keeps room for its row, in the history of its customer and in
that of its number, until it ends (`LimitInv`): no other request inserts there
meanwhile. The request judged by the time it read before it waited, so rows newer
than its own may exist; they are in the span it judged as well, so that every
window the new row falls in lies within that span (`BoundsTakeOne`). What staff took
out of the count stays out in the theorem, whatever is captured late.

**IdentityVerificationProofs**: `StatusIsDidits` (`StatusFollowsDidit`), for any number
of requests, sessions, events, failures and crashes. The invariant adds what a request
carries over each await: an approval under way was heard of a session this customer had
(`ApprovalInv`), and the profile is dated no earlier than an event about to be completed
(`AppliedInv`). A session that is saved again forgets its date; that no event seems
answered then follows from `SaysInv`: an event is of a session already handed out, which
the save makes handed out twice.

**FlupFlapProofs**, the ledger: `RestoredStayDeleted`, `TrustedSurvives`,
`NothingForgotten` and together `LedgerKeepsTheDeleted` (`DeletedStayDeleted`), for
`LedgerSpec`. The invariant relates the database to the trusted ledger (serving: all of
its entries are deleted; restored: those the suppression has passed) and each export to
the one it was merged with, so that what is trusted contains what was trusted before;
and the storage tool's disk to its runs. The message: `RecipientIsToldOnce`
(`MessageSentOnce`); whoever holds a message between claim and record holds it alone,
and what may have been sent cannot be claimed unless the carrier denied it
(`OutboxInv`). The campaigns: `CampaignsKeepTheirLimits` (`PromotionsAreSound`), for
whatever rules whose limits are numbers and however they are edited: a bound is that of
one of the redemptions it bounds. A quote that gives its place back has no recharge yet,
so that nobody settles it at that moment (`QuoteFits`); a reward that staff holds cannot
be reversed below them (`DecisionFits`); and for a first recharge the invariant must
bound places, not deliveries (`PlacesFit`). The sales of a store: `StoreKeepsItsBooks`
(`StoreSalesAreSound`), for any number of sales, handlers and faults and whatever
amounts and rates. The invariant joins the balance to the sum of its entries and the
money on hold to the number of orders that hold it (`BooksInv`); a handler may submit
only what it claimed, alone and for the first time (`WorkFits`, `OneSubmits`); and a
refund follows `Settled`, that no airtime is with the recipient nor ever will be, which
once true stays so whatever the provider does (`SettledStays`). The customer's access:
`SignInHolds` (`SignInIsSound`), for any number of requests, sign-ins, links and codes.
The version in a session stands for one password (`SessionsInv`, for the sessions of
requests under way too, since a reset may come before they are written); a sign-in is in
one place, in a session or with one request (`LoginsInv`); and since only the newest
code can be guessed and a code is sent only while the guesses of the last hour leave
room, the guesses within every hour that ends with a code are bounded (`CodesInv`). Most
steps let nobody in: `NobodyEnters` covers those.

**RechargeReservationProofs** also holds the proofs about ProviderAdapters: first the
arithmetic of three slots of 700,000,000 in a column of 2^31 - 1
(`EveryOperatorIsNamed`, `OwnersAreFound`, `NoOperatorIsConfused`); then, from
`WellNamed` (providers of the three, operator identifiers below the slot size),
`SentOnce`, `RefusedIsUnsent`, `ReportedTruly`, and together `AdaptersHold`
(`AdaptersAreSound`). The invariant says that one caller submits (`OneLeader`), that
what was made is remembered, by Ding's adapter within the process and by the service's
claim across processes (`MadeIsRemembered`), and that every answer under way tells of
the one transfer (`AnswersTell`), for which `ReadingsTell` goes through the words of
each provider.

**FiniteSums** is what the limits on amounts need: that the sum the community modules
define by a recursive function over `CHOOSE` exists, does not depend on the order
(`SumAddElement`) and is monotone (`SumGrows`). The induction is well-founded
induction over the subsets of a finite set, with the property as a set, since the
library's theorems with an operator parameter cannot be used.

Out of the prover's reach and left to TLC: liveness and ENABLED; RECURSIVE operators
(there are none). Every safety invariant and action property of the passing runs is
stated by a theorem but `VerificationIsEarned`, of which its first parts are; the rest
are liveness properties.

## 9. What the checks found

**Violated by a run.**

- *Cancelled and charged* (service.ts:773, run `recurring_cancelled`): the saved-card
  charge takes no payment claim, which the comment at service.ts:1685 relies on; a
  recharge the customer has cancelled is charged.

**Violated in a configuration.** The properties named are in the modules; change
the configuration as said.

- *Never repeated* (recurring-recharge.ts:326): a fixed price is refused because `repeat`
  gives an amount (service.ts:405), data and bundles because it gives no catalogue
  version (394). Both are tried again each minute for ever, where parity_strings.dart:100
  promises a charge or a pause. `RecurringProgress.cfg` with `Unrepeatable = TRUE`:
  `AcceptedIsChargedOrPaused`.
- *Decision outrun* (kyc/service.ts:68): a refresh that was answered before Didit decided
  is dated after, and is written over the decision, against "Webhooks are the primary
  source of truth" (DIDIT_KYC.md:41-42). An event of the same second as one before it is
  ignored too. `Identity.cfg`: `LastDecisionStands`.
- *Removed under a debit* (funding/service.ts:310): the debit of another request comes
  after the check that none is pending, against DWOLLA_SANDBOX.md:37-38.
- *Fourth guess* (funding/service.ts:246): two requests write the count that both have
  read, against "three failed attempts lock verification" (DWOLLA_SANDBOX.md:36). Both in
  BankAccounts with `BankSpec`, two `Requests`, no `Deliveries`, one source, `MaxGuesses =
  4`, no crash and no loss: `RemovalRespectsDebits`, and `ThreeAttempts` with the
  `Operations` "add", "initiate" and "verify" alone.
- *Place given twice* (marketing-recharge.ts:30): a quote that expires under a reservation
  gives its place away and is bought at the discount all the same, against the comment at
  line 29. `FlupFlap.cfg`: `InFlightKeepsItsPlace`.
- *Second message* (receiver-notification.ts:105): a gateway's error after acceptance
  counts as a refusal and is retried, against the comment at line 57. `FlupFlap.cfg`:
  `SentOnce`.
- *Unknown overwritten* (service.ts:960): a hold decided before a submission is written
  after its outcome is lost, and erases TOPUP_SUBMISSION_UNKNOWN, which
  AIRTIME_SETTLEMENT_SAFETY.md:24 says such rows keep. `HoldProgress.cfg` with
  `AutoRefunds = FALSE`, `Kinds = {}`: `UnknownStaysUnknown`.
- *Refund stranded* (service.ts:1482): the same hold, on a row that awaits its refund,
  makes each later pass return early. `TicashProgress.cfg` with `FlupFlap = TRUE`:
  `RefundIsConfirmed`.
- *Early charge* (recurring-recharge.ts:246): a claim dated with the start of its batch
  is taken over while its holder concludes; the next occurrence is charged an interval
  early, against "every {days} days" (apps/flupflap/lib/parity_strings.dart:104).
  `RecurringProgress.cfg` with two workers: `ChargesKeepTheRhythm`.
- *Refused for ever* (recurring-recharge.ts:326-332): an operator switched off
  (service.ts:311), one of another country (304), a hidden receipt (1763), a limit or an
  unverified phone (repository.ts:776-810), a restriction (service.ts:480): each is
  retried each minute while it lasts, and none pauses the schedule.
  `DueIsChargedOrPaused` without `refusal # "none"`; after a payment whose answer was
  lost, `ChargedIsCaptured` too.
- *Expired quote* (recurring-recharge.ts:251): a pending quote that expired is never
  replaced. `DueIsChargedOrPaused` without its `LeftToExpire`.
- *Released claim* (recurring-recharge.ts:143): a change of the schedule drops the claim
  by which deletion sees a charge under way. `Recurring.cfg` with one worker, two
  changes and `Changes = {"CANCEL", "CANCEL_ROW"}`: `ErasedOnlyWhenSettled`.
- *Late answer*: "processing", noted after the event that the payment failed, opens the
  row again; with the claim dropped, that of an erased account. `Recurring.cfg` with
  "processing" among the `Answers`: `ErasedOnlyWhenSettled`.
- *Forgotten key* (stripe-provider.ts:284): what stays unfinished longer than Stripe
  keeps a key is charged again, an erased account's too. `Recurring.cfg` with
  `StripeForgets = TRUE`: `ChargedOnce`, `ErasedOnlyWhenSettled`.
- *Return overtaken* (funding/repository.ts:550): a handler that writes what it read
  early sets a returned debit back. DWOLLA_SANDBOX.md:45-48. `ReturnIsFinal` in
  `Remittance.cfg`.
- *Paid out while returned*: README.md:25-28. `PaidOutWhileFunded` in `Remittance.cfg`.
- *Event before attachment*: with `Instant = TRUE` a completed event that arrives before
  the debit is attached is answered and forgotten. `BankIsHeard`.
- *Limits of two processes* (app.ts:2052): with `OneProcess = FALSE` and the property
  unconditioned, requests of two processes pass the limits together.
- *Stranded sale* (docs/FLUPFLAP_STORE_SELLERS.md:17, :50): a sale delivered after its
  row failed cannot be settled, and an erased store may still be owed a deletion step.
  `DeliveredCanBeSettled`, `ErasedStaysDrained` in `FlupFlap.cfg`.

**Seen in the models, not stated as properties.** Some are documented, the others
are for the owners of the code to judge.

- Settlement: a crash between the DELIVERED row and its ledger posting is repaired by no
  timer (service.ts:1232); `recoverPayment` keeps its claim when Stripe cannot be read
  (1042); a crash after the fulfilment claim leaves the row to operators (965, as
  MOBILE_TOPUP_SANDBOX.md:130 says); CREATED maps to a PENDING row the timer never
  selects (53); the timer may capture and then submit (1418), against the comment at
  app.ts:1131, and is safe because of the claim; with automatic refunds off a stale hold
  hides a refund.
- Recurring: a cancelled schedule may become PAUSED by the run that ends (302); a
  "processing" answer is replayed over a failure (service.ts:817), after which the
  account's deletion waits for ever; a deletion requested while an answer of Stripe is
  lost waits for the operators, as does one whose run crashed
  (docs/FLUPFLAP_SELF_SERVICE_DELETION.md:25-26), and what the card then paid is on no
  row; activation looks at the 25 oldest consents (recurring-recharge.ts:160-218) and
  starves the later ones, whom parity_strings.dart:101 and :103 promise a schedule.
  Activation is not modelled: the hazard has no property.
- Adapters: Reloadly keeps a revoked token until it expires (reloadly-provider.ts:228);
  a refused Ding submission stays PROCESSING; a failed product read of DT One counts as
  an unknown submission although nothing was sent.
- Reservation: the limits judge by the time the request began; a duplicate with its own
  key may be told TOPUP_QUOTE_ALREADY_USED; a failed reservation that staff took out of
  the count and that is paid late counts again, but only against what is reserved from
  then on, so that a window may hold more than the limit. Promotions: milestone rewards
  may repeat after a refund; PAID is never reached. Stores: a crash between claim and
  submission leaves a sale HELD.
- Entry: a transfer that failed, made room for others and is revived by its funding
  (app.ts:798-807, 870-873) counts again, so that a day may hold more than its limit; a
  crash between the transfer and its key's row makes the retry hear QUOTE_ALREADY_USED
  (app.ts:2104); a key's `expiresAt` is never looked at; a request the limits refuse
  uses its quote up.
- Bank accounts: two defaults; a removed row comes back with a late event; a late
  "added" undoes FAILED; a crash after the reservation leaves a PENDING debit that
  blocks the account.
- Identity: an approval that arrives while a session is made is overwritten; a session
  used again forgets its stamp; an old session's decision lands on a new one; a staff
  refusal is undone by a refresh; a submission sets PENDING over APPROVED; a crash
  leaves an event's row PROCESSING. Sign-in: two requests for a reset leave two links.

## 10. Not modelled

- *Activation* of recurring recharges from paid checkouts: its defect is its batch, which
  takes more rows than TLC can hold.
- *Reports, dashboards, access lists*: they change nothing.
- *Parsing, signatures, encodings, catalogues, rate providers and their caches*: a message
  that does not verify or match is refused before any state changes; what a catalogue or
  a rate may be is a choice.
- *Registration, guests, Google sign-in, device signals, Dwolla customer onboarding*:
  single writes with a unique column.
- *The in-memory repositories* of development, which no deployment uses.
- *Dart clients, the legacy client, scripts and migrations*: user interfaces and build
  files. The schema was read as the definition of the rows.

Most components are `partly` in `PROJECT.json` for that reason; their `note` says what is
left out.
