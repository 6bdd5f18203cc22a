--------------------------- MODULE DeletionLedger ---------------------------
(***************************************************************************)
(* The ledger that keeps deleted FlupFlap accounts deleted when the        *)
(* database is restored from a backup taken before (apps/api/src/flupflap/ *)
(* deletion-ledger.ts, deletion-ledger-storage.ts, account-deletion.ts).   *)
(*                                                                         *)
(* Ledgers are numbered by export; a ledger's number stands for its        *)
(* checkpoint, the hash of what is in it.  What operators do is external:  *)
(* as docs/FLUPFLAP_RESTORE_LEDGER.md asks, there is one trusted           *)
(* checkpoint, moved only to an export that was merged with the ledger it  *)
(* points to and is durably stored, and no restored database is released   *)
(* before a whole suppression; and, which the document does not say, there *)
(* is no restore while an export is on its way to become the trusted one.  *)
(***************************************************************************)
EXTENDS Integers, Sequences, FiniteSets

CONSTANTS
  Accounts,    \* FlupFlapCustomer rows
  Writers,     \* runs of the storage tool, each on one ledger
  MaxBackups,  \* bound: backups taken
  MaxExports   \* bound: ledgers exported

VARIABLES
  db,        \* the status of each account ("BUSY": active, with money in its
             \* store) and the FLUPFLAP_ACCOUNT_DELETED receipts
  backups,   \* what the database was
  phase,     \* the database is "serving", or "restored" and drained
  exports,   \* the entries of each ledger exported
  prior,     \* the ledger each was merged with, 0 for the first
  trusted,   \* the trusted checkpoint, 0 before the first
  disk,      \* the ledgers published on the storage disk, and those synced
  writer,    \* what each run of the storage tool is doing
  reported,  \* the ledgers the storage tool reported
  restore    \* the suppression: its ledger and the accounts left

ledgerVars == <<db, backups, phase, exports, prior, trusted, disk, writer, reported, restore>>
database == <<db, backups, phase, restore>>
ledgers == <<exports, prior, trusted>>
storage == <<disk, writer, reported>>

Entries(n) == IF n = 0 THEN {} ELSE exports[n]
NoRestore == [ledger |-> 0, left |-> {}, whole |-> FALSE]

LedgerTypeOK ==
  /\ db.status \in [Accounts -> {"ACTIVE", "BUSY", "DELETED"}] /\ db.receipts \subseteq Accounts
  /\ phase \in {"serving", "restored"}
  /\ exports \in Seq(SUBSET Accounts) /\ Len(prior) = Len(exports)
  /\ trusted \in 0..Len(exports) /\ reported \subseteq DOMAIN exports
  /\ disk.synced \subseteq disk.linked /\ disk.linked \subseteq DOMAIN exports
  /\ restore.left \subseteq Entries(restore.ledger)

LedgerInit ==
  /\ db = [status |-> [a \in Accounts |-> "ACTIVE"], receipts |-> {}]
  /\ backups = {} /\ phase = "serving" /\ restore = NoRestore
  /\ exports = <<>> /\ prior = <<>> /\ trusted = 0
  /\ disk = [linked |-> {}, synced |-> {}]
  /\ writer = [w \in Writers |-> [at |-> "idle", ledger |-> 0]]
  /\ reported = {}

---------------------------------------------------------------------------
(* The database. *)

\* storeDeletionPending: money comes to an account's store and goes.
StoreDeletionPending(a) == db.status[a] = "BUSY"
MoneyMoves(a) ==
  /\ db.status[a] # "DELETED"
  /\ db' = [db EXCEPT !.status[a] = IF StoreDeletionPending(a) THEN "ACTIVE" ELSE "BUSY"]
  /\ UNCHANGED <<backups, phase, restore, ledgers, storage>>

Erased(a) == [db.status EXCEPT ![a] = "DELETED"]

deleteFlupFlapAccount(a) ==
  /\ db.status[a] = "ACTIVE"
  /\ db' = [status |-> Erased(a), receipts |-> db.receipts \cup {a}]
  /\ UNCHANGED <<backups, phase, restore, ledgers, storage>>

BackUp ==
  /\ phase = "serving" /\ Cardinality(backups) < MaxBackups
  /\ backups' = backups \cup {db}
  /\ UNCHANGED <<db, phase, restore, ledgers, storage>>

Restore ==
  /\ \A n \in DOMAIN exports : prior[n] # trusted
  /\ db' \in backups
  /\ phase' = "restored" /\ restore' = NoRestore
  /\ UNCHANGED <<backups, ledgers, storage>>

Release ==
  /\ phase = "restored"
  /\ restore.whole /\ restore.ledger = trusted
  /\ phase' = "serving" /\ restore' = NoRestore
  /\ UNCHANGED <<db, backups, ledgers, storage>>

---------------------------------------------------------------------------
(* deletion-ledger.ts.  Of a manifest that is signed, the checkpoint says  *)
(* whether it is the one expected.                                         *)

\* Mutant of verifyDeletionLedger: the signature is enough.
verifySignature(n, checkpoint) == TRUE

verifyDeletionLedger(n, checkpoint) == n = checkpoint

exportDeletionLedger(n) ==
  /\ Len(exports) < MaxExports
  /\ (n = 0 /\ trusted = 0) \/ (n \in DOMAIN exports /\ verifyDeletionLedger(n, trusted))
  /\ exports' = Append(exports, Entries(n) \cup db.receipts)
  /\ prior' = Append(prior, trusted)
  /\ UNCHANGED <<database, trusted, storage>>

\* The suppression starts over the whole ledger; an account at a time, each
\* in its transaction; a run that fails is started over.
StartSuppression(n) ==
  /\ phase = "restored" /\ n \in DOMAIN exports
  /\ verifyDeletionLedger(n, trusted)
  /\ restore' = [ledger |-> trusted, left |-> exports[n], whole |-> FALSE]
  /\ UNCHANGED <<db, backups, phase, ledgers, storage>>

suppressRestoredFlupFlapAccounts(a) ==
  /\ a \in restore.left
  /\ ~StoreDeletionPending(a)
  /\ db' = [db EXCEPT !.status = Erased(a)]
  /\ restore' = [restore EXCEPT !.left = @ \ {a}]
  /\ UNCHANGED <<backups, phase, ledgers, storage>>

SuppressionFails ==
  /\ restore.left # {}
  /\ restore' = NoRestore
  /\ UNCHANGED <<db, backups, phase, ledgers, storage>>

SuppressionEnds ==
  /\ restore.ledger # 0 /\ restore.left = {} /\ ~restore.whole
  /\ restore' = [restore EXCEPT !.whole = TRUE]
  /\ UNCHANGED <<db, backups, phase, ledgers, storage>>

---------------------------------------------------------------------------
(* deletion-ledger-storage.ts: a temporary file is written and synced,     *)
(* linked under the ledger's name unless that name is taken, and the       *)
(* directory synced; a name that is taken must hold the ledger.            *)

Step(w, at) == writer' = [writer EXCEPT ![w].at = at]

storeDeletionLedger(w, n) ==
  /\ writer[w].at = "idle" /\ n \in DOMAIN exports
  /\ writer' = [writer EXCEPT ![w] =
       [at |-> IF n \in disk.linked THEN "sync" ELSE "write", ledger |-> n]]
  /\ UNCHANGED <<database, ledgers, disk, reported>>

Write(w) ==
  /\ writer[w].at = "write"
  /\ Step(w, "link")
  /\ UNCHANGED <<database, ledgers, disk, reported>>

Link(w) ==
  /\ writer[w].at = "link"
  /\ \/ writer[w].ledger \in disk.linked /\ Step(w, "idle") /\ UNCHANGED disk
     \/ /\ writer[w].ledger \notin disk.linked
        /\ disk' = [disk EXCEPT !.linked = @ \cup {writer[w].ledger}]
        /\ Step(w, "sync")
  /\ UNCHANGED <<database, ledgers, reported>>

Sync(w) ==
  /\ writer[w].at = "sync"
  /\ disk' = [disk EXCEPT !.synced = disk.linked]
  /\ Step(w, "readBack")
  /\ UNCHANGED <<database, ledgers, reported>>

ReadBack(w) ==
  /\ writer[w].at = "readBack" /\ writer[w].ledger \in disk.linked
  /\ reported' = reported \cup {writer[w].ledger}
  /\ Step(w, "idle")
  /\ UNCHANGED <<database, ledgers, disk>>

\* The worker stops: a name that was not synced may be gone.
WorkerStops ==
  /\ \E w \in Writers : writer[w].at # "idle"
  /\ writer' = [w \in Writers |-> [at |-> "idle", ledger |-> 0]]
  /\ \E kept \in SUBSET (disk.linked \ disk.synced) : disk' = [disk EXCEPT !.linked = disk.synced \cup kept]
  /\ UNCHANGED <<database, ledgers, reported>>

\* The operator moves the trusted checkpoint.
Trust(n) ==
  /\ n \in reported /\ prior[n] = trusted
  /\ trusted' = n
  /\ UNCHANGED <<database, exports, prior, storage>>

LedgerNext ==
  \/ BackUp \/ Restore \/ Release \/ SuppressionFails \/ SuppressionEnds \/ WorkerStops
  \/ \E a \in Accounts : MoneyMoves(a) \/ deleteFlupFlapAccount(a) \/ suppressRestoredFlupFlapAccounts(a)
  \/ \E n \in 0..MaxExports : exportDeletionLedger(n) \/ StartSuppression(n) \/ Trust(n)
  \/ \E w \in Writers :
       \/ Write(w) \/ Link(w) \/ Sync(w) \/ ReadBack(w)
       \/ \E n \in 1..MaxExports : storeDeletionLedger(w, n)

LedgerSpec == LedgerInit /\ [][LedgerNext]_ledgerVars

---------------------------------------------------------------------------
(* Properties. *)

\* Whatever backup it came from, a database that serves has every account
\* of the trusted ledger deleted (suppressRestoredFlupFlapAccounts).
ServesTheSuppressed ==
  phase = "serving" => \A a \in Entries(trusted) : db.status[a] = "DELETED"

\* A ledger once trusted is on the disk for good (storeDeletionLedger).
TrustedIsStored == trusted # 0 => trusted \in disk.synced

\* The trusted ledger never forgets an account (exportDeletionLedger).
LedgerGrows == Entries(trusted) \subseteq Entries(trusted)'

\* Whatever backup it is restored from, a database that serves has every
\* account of the trusted ledger deleted, and that ledger is stored and
\* forgets none (exportDeletionLedger, suppressRestoredFlupFlapAccounts).
DeletedStayDeleted ==
  /\ [](LedgerTypeOK /\ ServesTheSuppressed /\ TrustedIsStored)
  /\ [][LedgerGrows]_ledgerVars
=============================================================================
