--------------------------- MODULE FlupFlapProofs ---------------------------
(***************************************************************************)
(* Proofs about FlupFlap: the ledger of deleted accounts (DeletionLedger), *)
(* for every set of accounts and of writers and every number of backups    *)
(* and exports; the message to the recipient (ReceiverNotification), for   *)
(* every number of senders, messages and faults; the campaigns             *)
(* (Promotions), for every set of customers and quotes and whatever rules; *)
(* the sales of a store (StoreSales), for every set of sales, handlers,    *)
(* deposits and returns and whatever amounts, rates and faults; and the    *)
(* sign-in of a customer (CustomerIdentity), for every set of requests and *)
(* numbers and whatever bounds.                                            *)
(***************************************************************************)
EXTENDS DeletionLedger, ReceiverNotification, Promotions, StoreSales, CustomerIdentity,
        FiniteSums, FiniteSetTheorems, TLAPS

---------------------------------------------------------------------------
(* The deletion ledger: its inductive invariant.                           *)

Databases == [status : [Accounts -> {"ACTIVE", "BUSY", "DELETED"}], receipts : SUBSET Accounts]

Runs == [at : {"idle", "write", "link", "sync", "readBack"}, ledger : Nat]

TypesHold ==
  /\ db \in Databases /\ backups \subseteq Databases
  /\ phase \in {"serving", "restored"}
  /\ exports \in Seq(SUBSET Accounts) /\ prior \in Seq(Nat) /\ Len(prior) = Len(exports)
  /\ trusted \in 0..Len(exports)
  /\ restore \in [ledger : 0..Len(exports), left : SUBSET Accounts, whole : BOOLEAN]
  /\ writer \in [Writers -> Runs]
  /\ disk \in [linked : SUBSET DOMAIN exports, synced : SUBSET DOMAIN exports]
  /\ reported \subseteq DOMAIN exports

(* An account with a receipt is deleted, in every backup as well.          *)
ReceiptsAreTrue ==
  \A d \in backups \cup {db} : \A a \in d.receipts : d.status[a] = "DELETED"

(* Exports build on ledgers that were trusted: nothing builds on a ledger  *)
(* that is not, and an export forgets nothing of the ledger it builds on.  *)
ExportsBuild ==
  \A n \in DOMAIN exports :
    /\ prior[n] <= trusted /\ prior[n] < n
    /\ Entries(prior[n]) \subseteq exports[n]

(* What an export adds to the trusted ledger is in the receipts of the     *)
(* database, as long as it may still become the trusted one.               *)
ExportsAreReceived ==
  \A n \in DOMAIN exports : prior[n] = trusted => exports[n] \subseteq Entries(trusted) \cup db.receipts

(* What serves has the trusted ledger deleted, and what is restored has    *)
(* what the suppression is done with.                                      *)
SuppressedSoFar ==
  /\ phase = "serving" => restore = NoRestore
  /\ \A a \in Entries(restore.ledger) \ restore.left : db.status[a] = "DELETED"
  /\ restore.whole => restore.ledger # 0 /\ restore.left = {}
  /\ restore.left \subseteq Entries(restore.ledger)

(* What a run of the storage tool goes by, and what was reported.          *)
StorageIsSound ==
  /\ disk.synced \subseteq disk.linked
  /\ \A w \in Writers :
       /\ writer[w].at # "idle" => writer[w].ledger \in DOMAIN exports
       /\ writer[w].at = "sync" => writer[w].ledger \in disk.linked
       /\ writer[w].at = "readBack" => writer[w].ledger \in disk.synced
  /\ reported \subseteq disk.synced
  /\ TrustedIsStored

DatabaseInv == ReceiptsAreTrue /\ ExportsBuild /\ ExportsAreReceived /\ SuppressedSoFar
               /\ ServesTheSuppressed

IInv == TypesHold /\ DatabaseInv /\ StorageIsSound

---------------------------------------------------------------------------
(* The database.                                                           *)

(* A write of the account rows that revives nobody, whose new receipts are *)
(* for accounts it deletes, keeps what the invariant says of the database. *)
Buries ==
  /\ db' \in Databases /\ db.receipts \subseteq db'.receipts
  /\ \A a \in Accounts : db.status[a] = "DELETED" => db'.status[a] = "DELETED"
  /\ \A a \in db'.receipts \ db.receipts : db'.status[a] = "DELETED"

LEMMA EntriesAreAccounts ==
  ASSUME TypesHold, NEW n \in 0..Len(exports)
  PROVE  Entries(n) \subseteq Accounts
BY DEF TypesHold, Entries

LEMMA BuryingKeeps ==
  ASSUME IInv, Buries, UNCHANGED <<backups, phase, restore, ledgers, storage>>
  PROVE  IInv'
<1>1. TypesHold'
  BY DEF IInv, TypesHold, Buries, ledgers, storage
<1>2. ReceiptsAreTrue'
  <2>1. \A a \in db.receipts : a \in Accounts /\ db.status[a] = "DELETED"
    BY DEF IInv, TypesHold, Databases, DatabaseInv, ReceiptsAreTrue
  <2>2. \A a \in db'.receipts : db'.status[a] = "DELETED"
    BY <2>1 DEF Buries
  <2> QED BY <2>2 DEF IInv, DatabaseInv, ReceiptsAreTrue
<1>3. ExportsBuild' /\ ExportsAreReceived'
  BY DEF IInv, DatabaseInv, ExportsBuild, ExportsAreReceived, Entries, Buries, ledgers
<1>4. SuppressedSoFar' /\ ServesTheSuppressed'
  <2>1. Entries(restore.ledger) \subseteq Accounts /\ Entries(trusted) \subseteq Accounts
    BY EntriesAreAccounts DEF IInv, TypesHold
  <2> QED BY <2>1 DEF IInv, DatabaseInv, SuppressedSoFar, ServesTheSuppressed, Entries, Buries, ledgers
<1>5. StorageIsSound'
  BY DEF IInv, StorageIsSound, TrustedIsStored, ledgers, storage
<1> QED BY <1>1, <1>2, <1>3, <1>4, <1>5 DEF IInv, DatabaseInv

LEMMA MoneyMovesKeeps ==
  ASSUME IInv, NEW a \in Accounts, MoneyMoves(a)
  PROVE  IInv'
<1>1. Buries
  BY DEF IInv, TypesHold, Databases, MoneyMoves, StoreDeletionPending, Buries
<1> QED BY <1>1, BuryingKeeps DEF MoneyMoves

LEMMA DeleteKeeps ==
  ASSUME IInv, NEW a \in Accounts, deleteFlupFlapAccount(a)
  PROVE  IInv'
<1>1. Buries
  BY DEF IInv, TypesHold, Databases, deleteFlupFlapAccount, Erased, Buries
<1> QED BY <1>1, BuryingKeeps DEF deleteFlupFlapAccount

LEMMA BackUpKeeps ==
  ASSUME IInv, BackUp
  PROVE  IInv'
<1>1. TypesHold'
  BY DEF IInv, TypesHold, BackUp, ledgers, storage
<1>2. DatabaseInv'
  BY DEF IInv, DatabaseInv, ReceiptsAreTrue, ExportsBuild, ExportsAreReceived, SuppressedSoFar,
     ServesTheSuppressed, Entries, BackUp, ledgers
<1>3. StorageIsSound'
  BY DEF IInv, StorageIsSound, TrustedIsStored, BackUp, ledgers, storage
<1> QED BY <1>1, <1>2, <1>3 DEF IInv

LEMMA RestoreKeeps ==
  ASSUME IInv, Restore
  PROVE  IInv'
<1>1. TypesHold'
  BY DEF IInv, TypesHold, Restore, NoRestore, ledgers, storage
<1>2. ReceiptsAreTrue'
  BY DEF IInv, DatabaseInv, ReceiptsAreTrue, Restore
<1>3. ExportsBuild' /\ ExportsAreReceived'
  BY DEF IInv, DatabaseInv, ExportsBuild, ExportsAreReceived, Entries, Restore, ledgers
<1>4. SuppressedSoFar' /\ ServesTheSuppressed'
  BY DEF SuppressedSoFar, ServesTheSuppressed, NoRestore, Entries, Restore
<1>5. StorageIsSound'
  BY DEF IInv, StorageIsSound, TrustedIsStored, Restore, ledgers, storage
<1> QED BY <1>1, <1>2, <1>3, <1>4, <1>5 DEF IInv, DatabaseInv

(* The database is released with the whole trusted ledger suppressed.      *)
LEMMA ReleaseKeeps ==
  ASSUME IInv, Release
  PROVE  IInv'
<1>1. TypesHold'
  BY DEF IInv, TypesHold, Release, NoRestore, ledgers, storage
<1>2. \A a \in Entries(trusted) : db.status[a] = "DELETED"
  BY DEF IInv, DatabaseInv, SuppressedSoFar, Release
<1>3. DatabaseInv'
  BY <1>2 DEF IInv, DatabaseInv, ReceiptsAreTrue, ExportsBuild, ExportsAreReceived,
     SuppressedSoFar, ServesTheSuppressed, Entries, NoRestore, Release, ledgers
<1>4. StorageIsSound'
  BY DEF IInv, StorageIsSound, TrustedIsStored, Release, ledgers, storage
<1> QED BY <1>1, <1>3, <1>4 DEF IInv

---------------------------------------------------------------------------
(* The ledgers. *)

LEMMA ExportKeeps ==
  ASSUME IInv, NEW n, exportDeletionLedger(n)
  PROVE  IInv'
<1>1. n = trusted
  BY DEF exportDeletionLedger, verifyDeletionLedger
<1>2. /\ Entries(trusted) \cup db.receipts \in SUBSET Accounts
      /\ exports' = Append(exports, Entries(trusted) \cup db.receipts)
      /\ prior' = Append(prior, trusted)
      /\ UNCHANGED <<database, trusted, storage>>
  BY <1>1, EntriesAreAccounts DEF exportDeletionLedger, IInv, TypesHold, Databases
<1>3. /\ Len(exports') = Len(exports) + 1 /\ Len(prior') = Len(exports')
      /\ exports' \in Seq(SUBSET Accounts) /\ prior' \in Seq(Nat)
      /\ \A i \in 1..Len(exports) : exports'[i] = exports[i] /\ prior'[i] = prior[i]
      /\ exports'[Len(exports) + 1] = Entries(trusted) \cup db.receipts
      /\ prior'[Len(exports) + 1] = trusted
  BY <1>2 DEF IInv, TypesHold
<1>4. DOMAIN exports = 1..Len(exports) /\ DOMAIN exports' = 1..(Len(exports) + 1)
  BY <1>3 DEF IInv, TypesHold
<1>5. TypesHold'
  BY <1>2, <1>3, <1>4 DEF IInv, TypesHold, database, storage
<1>6. \A i \in 0..Len(exports) : Entries(i)' = Entries(i)
  BY <1>3 DEF Entries
<1>7. ExportsBuild'
  <2>1. ASSUME NEW i \in DOMAIN exports'
        PROVE  prior'[i] <= trusted' /\ prior'[i] < i /\ Entries(prior[i])' \subseteq exports'[i]
    <3>1. CASE i \in 1..Len(exports)
      <4>1. PICK p \in Nat : p = prior[i] /\ p <= trusted /\ p < i /\ Entries(p) \subseteq exports[i]
        BY <1>4, <3>1 DEF IInv, TypesHold, DatabaseInv, ExportsBuild
      <4>2. prior'[i] = p /\ exports'[i] = exports[i]
        BY <1>3, <3>1, <4>1
      <4>3. Entries(prior[i])' = Entries(p)
        BY <1>3, <3>1, <4>1, <4>2 DEF Entries
      <4> QED BY <1>2, <4>1, <4>2, <4>3
    <3>2. CASE i = Len(exports) + 1
      <4>1. prior'[i] = trusted /\ trusted \in 0..Len(exports)
        BY <1>3, <3>2 DEF IInv, TypesHold
      <4>2. Entries(prior[i])' = Entries(trusted)
        BY <1>3, <4>1 DEF Entries
      <4>3. exports'[i] = Entries(trusted) \cup db.receipts /\ Len(exports) \in Nat
        BY <1>3, <3>2 DEF IInv, TypesHold
      <4> QED BY <1>2, <3>2, <4>1, <4>2, <4>3
    <3> QED BY <1>4, <2>1, <3>1, <3>2 DEF IInv, TypesHold
  <2> QED BY <2>1 DEF ExportsBuild
<1>8. ExportsAreReceived'
  <2>1. Entries(trusted)' = Entries(trusted) /\ db' = db /\ trusted' = trusted
    BY <1>2, <1>3 DEF IInv, TypesHold, Entries, database
  <2>2. ASSUME NEW i \in DOMAIN exports', prior'[i] = trusted
        PROVE  exports'[i] \subseteq Entries(trusted) \cup db.receipts
    <3>1. CASE i \in 1..Len(exports)
      BY <1>3, <1>4, <2>2, <3>1 DEF IInv, DatabaseInv, ExportsAreReceived
    <3>2. CASE i = Len(exports) + 1
      BY <1>3, <3>2
    <3> QED BY <1>4, <2>2, <3>1, <3>2 DEF IInv, TypesHold
  <2> QED BY <2>1, <2>2 DEF ExportsAreReceived
<1>9. ReceiptsAreTrue' /\ SuppressedSoFar' /\ ServesTheSuppressed'
  <2>1. Entries(trusted)' = Entries(trusted) /\ Entries(restore.ledger)' = Entries(restore.ledger)
    BY <1>2, <1>3 DEF IInv, TypesHold, Entries, database
  <2> QED BY <1>2, <2>1 DEF IInv, DatabaseInv, ReceiptsAreTrue, SuppressedSoFar, ServesTheSuppressed,
     NoRestore, database
<1>10. StorageIsSound'
  BY <1>2, <1>4 DEF IInv, TypesHold, StorageIsSound, TrustedIsStored, storage
<1> QED BY <1>5, <1>7, <1>8, <1>9, <1>10 DEF IInv, DatabaseInv

(* A new trusted ledger adds what the database has receipts for.           *)
LEMMA TrustKeeps ==
  ASSUME IInv, NEW n, Trust(n)
  PROVE  IInv' /\ Entries(trusted) \subseteq Entries(trusted)'
<1>1. n \in DOMAIN exports /\ n \in disk.synced /\ prior[n] = trusted /\ trusted' = n
      /\ UNCHANGED <<database, exports, prior, storage>>
  BY DEF Trust, IInv, TypesHold, StorageIsSound
<1>2. n \in 1..Len(exports) /\ trusted \in Nat /\ trusted < n
  BY <1>1 DEF IInv, TypesHold, DatabaseInv, ExportsBuild
<1>3. exports[n] \subseteq Entries(trusted) \cup db.receipts /\ Entries(trusted) \subseteq exports[n]
  BY <1>1 DEF IInv, DatabaseInv, ExportsBuild, ExportsAreReceived
<1>4. Entries(trusted)' = exports[n]
  BY <1>1, <1>2 DEF Entries
<1>5. TypesHold'
  BY <1>1, <1>2 DEF IInv, TypesHold, database, storage
<1>6. \A i \in DOMAIN exports : prior[i] \in Nat /\ prior[i] <= trusted
  BY DEF IInv, TypesHold, DatabaseInv, ExportsBuild
<1>7. ExportsBuild' /\ ExportsAreReceived'
  BY <1>1, <1>2, <1>6 DEF IInv, DatabaseInv, ExportsBuild, ExportsAreReceived, Entries
<1>8. ReceiptsAreTrue' /\ SuppressedSoFar'
  BY <1>1 DEF IInv, DatabaseInv, ReceiptsAreTrue, SuppressedSoFar, Entries, NoRestore, database
<1>9. ServesTheSuppressed'
  BY <1>1, <1>3, <1>4 DEF IInv, DatabaseInv, ReceiptsAreTrue, ServesTheSuppressed, database
<1>10. StorageIsSound'
  BY <1>1 DEF IInv, StorageIsSound, TrustedIsStored, storage
<1> QED BY <1>3, <1>4, <1>5, <1>7, <1>8, <1>9, <1>10 DEF IInv, DatabaseInv

---------------------------------------------------------------------------
(* The suppression. *)

LEMMA StartKeeps ==
  ASSUME IInv, NEW n, StartSuppression(n)
  PROVE  IInv'
<1>1. n = trusted /\ n \in 1..Len(exports) /\ exports[n] = Entries(n) /\ exports[n] \subseteq Accounts
  BY DEF StartSuppression, verifyDeletionLedger, Entries, IInv, TypesHold
<1>2. TypesHold'
  BY <1>1 DEF StartSuppression, IInv, TypesHold, ledgers, storage
<1>3. DatabaseInv'
  BY <1>1 DEF StartSuppression, IInv, DatabaseInv, ReceiptsAreTrue, ExportsBuild,
     ExportsAreReceived, SuppressedSoFar, ServesTheSuppressed, Entries, ledgers
<1>4. StorageIsSound'
  BY DEF StartSuppression, IInv, StorageIsSound, TrustedIsStored, ledgers, storage
<1> QED BY <1>2, <1>3, <1>4 DEF IInv

LEMMA SuppressKeeps ==
  ASSUME IInv, NEW a \in Accounts, suppressRestoredFlupFlapAccounts(a)
  PROVE  IInv'
<1>1. /\ db' \in Databases /\ db'.receipts = db.receipts /\ db'.status[a] = "DELETED"
      /\ \A b \in Accounts : db.status[b] = "DELETED" => db'.status[b] = "DELETED"
  BY DEF suppressRestoredFlupFlapAccounts, Erased, IInv, TypesHold, Databases
<1>2. /\ restore' \in [ledger : 0..Len(exports), left : SUBSET Accounts, whole : BOOLEAN]
      /\ restore'.ledger = restore.ledger /\ restore'.left = restore.left \ {a}
      /\ restore'.whole = restore.whole /\ a \in restore.left
  BY DEF suppressRestoredFlupFlapAccounts, IInv, TypesHold
<1>3. TypesHold'
  BY <1>1, <1>2 DEF suppressRestoredFlupFlapAccounts, IInv, TypesHold, ledgers, storage
<1>4. ReceiptsAreTrue'
  <2>1. \A b \in db.receipts : b \in Accounts /\ db.status[b] = "DELETED"
    BY DEF IInv, TypesHold, Databases, DatabaseInv, ReceiptsAreTrue
  <2> QED BY <1>1, <2>1 DEF suppressRestoredFlupFlapAccounts, IInv, DatabaseInv, ReceiptsAreTrue
<1>5. ExportsBuild' /\ ExportsAreReceived'
  BY <1>1 DEF suppressRestoredFlupFlapAccounts, IInv, DatabaseInv, ExportsBuild,
     ExportsAreReceived, Entries, ledgers
<1>6. phase # "serving" /\ ~restore.whole
  BY <1>2 DEF IInv, DatabaseInv, SuppressedSoFar, NoRestore
<1>7. SuppressedSoFar' /\ ServesTheSuppressed'
  <2>1. Entries(restore.ledger) \subseteq Accounts
    BY EntriesAreAccounts DEF IInv, TypesHold
  <2>2. Entries(restore.ledger)' = Entries(restore.ledger)
    BY <1>2 DEF Entries, suppressRestoredFlupFlapAccounts, ledgers
  <2>3. phase' # "serving"
    BY <1>6 DEF suppressRestoredFlupFlapAccounts
  <2>4. \A b \in Entries(restore.ledger) \ restore'.left : db'.status[b] = "DELETED"
    BY <1>1, <1>2, <2>1 DEF IInv, DatabaseInv, SuppressedSoFar
  <2>5. restore'.left \subseteq Entries(restore.ledger)
    BY <1>2 DEF IInv, DatabaseInv, SuppressedSoFar
  <2> QED BY <1>2, <1>6, <2>2, <2>3, <2>4, <2>5 DEF SuppressedSoFar, ServesTheSuppressed
<1>8. StorageIsSound'
  BY DEF suppressRestoredFlupFlapAccounts, IInv, StorageIsSound, TrustedIsStored, ledgers, storage
<1> QED BY <1>3, <1>4, <1>5, <1>7, <1>8 DEF IInv, DatabaseInv

LEMMA SuppressionFailsKeeps ==
  ASSUME IInv, SuppressionFails
  PROVE  IInv'
<1>1. TypesHold'
  BY DEF SuppressionFails, IInv, TypesHold, NoRestore, ledgers, storage
<1>2. DatabaseInv'
  BY DEF SuppressionFails, IInv, DatabaseInv, ReceiptsAreTrue, ExportsBuild, ExportsAreReceived,
     SuppressedSoFar, ServesTheSuppressed, Entries, NoRestore, ledgers
<1>3. StorageIsSound'
  BY DEF SuppressionFails, IInv, StorageIsSound, TrustedIsStored, ledgers, storage
<1> QED BY <1>1, <1>2, <1>3 DEF IInv

LEMMA SuppressionEndsKeeps ==
  ASSUME IInv, SuppressionEnds
  PROVE  IInv'
<1>1. /\ restore' \in [ledger : 0..Len(exports), left : SUBSET Accounts, whole : BOOLEAN]
      /\ restore'.ledger = restore.ledger /\ restore'.left = {}
      /\ restore.left = {} /\ restore.ledger # 0
  BY DEF SuppressionEnds, IInv, TypesHold
<1>2. TypesHold'
  BY <1>1 DEF SuppressionEnds, IInv, TypesHold, ledgers, storage
<1>3. phase # "serving"
  BY <1>1 DEF IInv, DatabaseInv, SuppressedSoFar, NoRestore
<1>4. DatabaseInv'
  BY <1>1, <1>3 DEF SuppressionEnds, IInv, DatabaseInv, ReceiptsAreTrue, ExportsBuild,
     ExportsAreReceived, SuppressedSoFar, ServesTheSuppressed, Entries, ledgers
<1>5. StorageIsSound'
  BY DEF SuppressionEnds, IInv, StorageIsSound, TrustedIsStored, ledgers, storage
<1> QED BY <1>2, <1>4, <1>5 DEF IInv

---------------------------------------------------------------------------
(* The storage. *)

LEMMA StorageStepKeeps ==
  ASSUME IInv, UNCHANGED <<database, ledgers>>,
         writer' \in [Writers -> Runs], reported' \subseteq DOMAIN exports,
         disk' \in [linked : SUBSET DOMAIN exports, synced : SUBSET DOMAIN exports],
         StorageIsSound'
  PROVE  IInv'
<1>1. TypesHold'
  BY DEF IInv, TypesHold, database, ledgers
<1>2. DatabaseInv'
  BY DEF IInv, DatabaseInv, ReceiptsAreTrue, ExportsBuild, ExportsAreReceived, SuppressedSoFar,
     ServesTheSuppressed, Entries, NoRestore, database, ledgers
<1> QED BY <1>1, <1>2 DEF IInv

LEMMA StoreKeeps ==
  ASSUME IInv, NEW w \in Writers, NEW n \in Nat, storeDeletionLedger(w, n)
  PROVE  IInv'
<1>1. writer' \in [Writers -> Runs]
  BY DEF storeDeletionLedger, IInv, TypesHold, Runs
<1>2. StorageIsSound'
  BY DEF storeDeletionLedger, IInv, TypesHold, StorageIsSound, TrustedIsStored, ledgers
<1> QED BY <1>1, <1>2, StorageStepKeeps DEF storeDeletionLedger, IInv, TypesHold

LEMMA WriteKeeps ==
  ASSUME IInv, NEW w \in Writers, Write(w)
  PROVE  IInv'
<1>1. writer' \in [Writers -> Runs]
  BY DEF Write, Step, IInv, TypesHold, Runs
<1>2. StorageIsSound'
  BY DEF Write, Step, IInv, TypesHold, Runs, StorageIsSound, TrustedIsStored, ledgers
<1> QED BY <1>1, <1>2, StorageStepKeeps DEF Write, IInv, TypesHold

LEMMA LinkKeeps ==
  ASSUME IInv, NEW w \in Writers, Link(w)
  PROVE  IInv'
<1>1. writer' \in [Writers -> Runs]
  <2>1. CASE Step(w, "idle")
    BY <2>1 DEF Step, IInv, TypesHold, Runs
  <2>2. CASE Step(w, "sync")
    BY <2>2 DEF Step, IInv, TypesHold, Runs
  <2> QED BY <2>1, <2>2 DEF Link
<1>2. writer[w].ledger \in DOMAIN exports
  BY DEF Link, IInv, StorageIsSound
<1>3. disk' \in [linked : SUBSET DOMAIN exports, synced : SUBSET DOMAIN exports]
      /\ disk'.synced = disk.synced /\ disk.linked \subseteq disk'.linked
  BY <1>2 DEF Link, IInv, TypesHold
<1>4. StorageIsSound'
  <2>1. CASE Step(w, "idle")
    BY <1>3, <2>1 DEF Link, Step, IInv, TypesHold, Runs, StorageIsSound, TrustedIsStored, ledgers
  <2>2. CASE Step(w, "sync") /\ disk' = [disk EXCEPT !.linked = @ \cup {writer[w].ledger}]
    <3>1. writer[w].ledger \in disk'.linked
      BY <2>2 DEF IInv, TypesHold
    <3> QED BY <1>2, <1>3, <2>2, <3>1 DEF Link, Step, IInv, TypesHold, Runs, StorageIsSound,
         TrustedIsStored, ledgers
  <2> QED BY <2>1, <2>2 DEF Link
<1> QED BY <1>1, <1>3, <1>4, StorageStepKeeps DEF Link, IInv, TypesHold

LEMMA SyncKeeps ==
  ASSUME IInv, NEW w \in Writers, Sync(w)
  PROVE  IInv'
<1>1. writer' \in [Writers -> Runs]
  BY DEF Sync, Step, IInv, TypesHold, Runs
<1>2. disk' \in [linked : SUBSET DOMAIN exports, synced : SUBSET DOMAIN exports]
      /\ disk'.synced = disk.linked /\ disk'.linked = disk.linked
  BY DEF Sync, IInv, TypesHold
<1>3. StorageIsSound'
  BY <1>2 DEF Sync, Step, IInv, TypesHold, Runs, StorageIsSound, TrustedIsStored, ledgers
<1> QED BY <1>1, <1>2, <1>3, StorageStepKeeps DEF Sync, IInv, TypesHold

LEMMA ReadBackKeeps ==
  ASSUME IInv, NEW w \in Writers, ReadBack(w)
  PROVE  IInv'
<1>1. writer' \in [Writers -> Runs]
  BY DEF ReadBack, Step, IInv, TypesHold, Runs
<1>2. reported' \subseteq disk.synced /\ reported' \subseteq DOMAIN exports
  BY DEF ReadBack, IInv, TypesHold, StorageIsSound
<1>3. StorageIsSound'
  BY <1>2 DEF ReadBack, Step, IInv, TypesHold, Runs, StorageIsSound, TrustedIsStored, ledgers
<1> QED BY <1>1, <1>2, <1>3, StorageStepKeeps DEF ReadBack, IInv, TypesHold

LEMMA WorkerStopsKeeps ==
  ASSUME IInv, WorkerStops
  PROVE  IInv'
<1>1. writer' \in [Writers -> Runs] /\ \A w \in Writers : writer'[w].at = "idle"
  BY DEF WorkerStops, Runs
<1>2. disk' \in [linked : SUBSET DOMAIN exports, synced : SUBSET DOMAIN exports]
      /\ disk'.synced = disk.synced /\ disk'.synced \subseteq disk'.linked
  <2>1. PICK kept \in SUBSET (disk.linked \ disk.synced) :
               disk' = [disk EXCEPT !.linked = disk.synced \cup kept]
    BY DEF WorkerStops
  <2>2. disk \in [linked : SUBSET DOMAIN exports, synced : SUBSET DOMAIN exports]
    BY DEF IInv, TypesHold
  <2>3. disk.synced \cup kept \in SUBSET DOMAIN exports
    BY <2>1, <2>2
  <2> QED BY <2>1, <2>2, <2>3
<1>3. StorageIsSound'
  BY <1>1, <1>2 DEF WorkerStops, IInv, StorageIsSound, TrustedIsStored, ledgers
<1> QED BY <1>1, <1>2, <1>3, StorageStepKeeps DEF WorkerStops, IInv, TypesHold

---------------------------------------------------------------------------
(* Every step. *)

LEMMA InitHolds == LedgerInit => IInv
<1> SUFFICES ASSUME LedgerInit PROVE IInv
  OBVIOUS
<1>1. TypesHold
  BY DEF LedgerInit, TypesHold, Databases, Runs, NoRestore
<1>2. DatabaseInv
  BY DEF LedgerInit, DatabaseInv, ReceiptsAreTrue, ExportsBuild, ExportsAreReceived,
     SuppressedSoFar, ServesTheSuppressed, Entries, NoRestore
<1>3. StorageIsSound
  BY DEF LedgerInit, StorageIsSound, TrustedIsStored
<1> QED BY <1>1, <1>2, <1>3 DEF IInv

LEMMA StutterKeeps ==
  ASSUME IInv, UNCHANGED ledgerVars
  PROVE  IInv'
BY DEF ledgerVars, IInv, TypesHold, DatabaseInv, ReceiptsAreTrue, ExportsBuild, ExportsAreReceived,
   SuppressedSoFar, ServesTheSuppressed, StorageIsSound, TrustedIsStored, Entries, NoRestore

LEMMA NextKeeps == IInv /\ [LedgerNext]_ledgerVars => IInv'
<1> SUFFICES ASSUME IInv, [LedgerNext]_ledgerVars PROVE IInv'
  OBVIOUS
<1>1. CASE UNCHANGED ledgerVars
  BY <1>1, StutterKeeps
<1>2. CASE BackUp \/ Restore \/ Release \/ SuppressionFails \/ SuppressionEnds \/ WorkerStops
  BY <1>2, BackUpKeeps, RestoreKeeps, ReleaseKeeps, SuppressionFailsKeeps, SuppressionEndsKeeps,
     WorkerStopsKeeps
<1>3. ASSUME NEW a \in Accounts,
             MoneyMoves(a) \/ deleteFlupFlapAccount(a) \/ suppressRestoredFlupFlapAccounts(a)
      PROVE  IInv'
  BY <1>3, MoneyMovesKeeps, DeleteKeeps, SuppressKeeps
<1>4. ASSUME NEW n \in 0..MaxExports, exportDeletionLedger(n) \/ StartSuppression(n) \/ Trust(n)
      PROVE  IInv'
  BY <1>4, ExportKeeps, StartKeeps, TrustKeeps
<1>5. ASSUME NEW w \in Writers,
             Write(w) \/ Link(w) \/ Sync(w) \/ ReadBack(w)
             \/ \E n \in 1..MaxExports : storeDeletionLedger(w, n)
      PROVE  IInv'
  BY <1>5, WriteKeeps, LinkKeeps, SyncKeeps, ReadBackKeeps, StoreKeeps
<1> QED BY <1>1, <1>2, <1>3, <1>4, <1>5 DEF LedgerNext

LEMMA Inductive == LedgerSpec => []IInv
BY InitHolds, NextKeeps, PTL DEF LedgerSpec

---------------------------------------------------------------------------
(* What the ledger is for. *)

(* suppressRestoredFlupFlapAccounts: a database that serves, restored from *)
(* whatever backup, has every account of the trusted ledger deleted.       *)
THEOREM RestoredStayDeleted == LedgerSpec => []ServesTheSuppressed
<1>1. IInv => ServesTheSuppressed
  BY DEF IInv, DatabaseInv
<1> QED BY <1>1, Inductive, PTL

(* storeDeletionLedger: no stop of the storage tool loses the ledger that  *)
(* is trusted.                                                             *)
THEOREM TrustedSurvives == LedgerSpec => []TrustedIsStored
<1>1. IInv => TrustedIsStored
  BY DEF IInv, StorageIsSound
<1> QED BY <1>1, Inductive, PTL

(* exportDeletionLedger: no step makes the trusted ledger forget an        *)
(* account.                                                                *)
THEOREM NothingForgotten == LedgerSpec => [][LedgerGrows]_ledgerVars
<1>1. IInv /\ [LedgerNext]_ledgerVars => [LedgerGrows]_ledgerVars
  <2> SUFFICES ASSUME IInv, LedgerNext PROVE LedgerGrows
    BY DEF LedgerNext
  <2>1. ASSUME NEW n, Trust(n) PROVE LedgerGrows
    BY <2>1, TrustKeeps DEF LedgerGrows
  <2>2. ASSUME NEW n, exportDeletionLedger(n) PROVE LedgerGrows
    BY <2>2 DEF exportDeletionLedger, IInv, TypesHold, LedgerGrows, Entries
  <2>3. CASE UNCHANGED <<trusted, exports>>
    BY <2>3 DEF LedgerGrows, Entries
  <2> QED BY <2>1, <2>2, <2>3 DEF LedgerNext, BackUp, Restore, Release, SuppressionFails,
       SuppressionEnds, WorkerStops, MoneyMoves, deleteFlupFlapAccount,
       suppressRestoredFlupFlapAccounts, StartSuppression, Write, Link, Sync, ReadBack,
       storeDeletionLedger, ledgers
<1> QED BY <1>1, Inductive, PTL DEF LedgerSpec

(* deletion-ledger.ts, deletion-ledger-storage.ts: all of it together, with *)
(* the types: the deleted stay deleted.                                     *)
THEOREM LedgerKeepsTheDeleted == LedgerSpec => DeletedStayDeleted
<1>1. IInv => LedgerTypeOK
  BY DEF IInv, TypesHold, Databases, StorageIsSound, DatabaseInv, SuppressedSoFar, LedgerTypeOK
<1>2. LedgerSpec => []LedgerTypeOK
  BY <1>1, Inductive, PTL
<1> QED BY <1>2, RestoredStayDeleted, TrustedSurvives, NothingForgotten, PTL DEF DeletedStayDeleted

---------------------------------------------------------------------------
(* The message to the recipient.                                           *)

Note == [status : {"NONE", "PENDING", "SENT", "FAILED"}, claimed : BOOLEAN, attempts : 0..MaxSends,
         category : {"none", "SMS_NOT_CONFIGURED", "PROVIDER_REJECTED", "SMS_OUTCOME_UNKNOWN"}]

Sender ==
  [at : {"idle", "claim", "send", "finish"}, id : Messages \cup {"none"},
   result : {"none", "SENT", "SMS_NOT_CONFIGURED", "PROVIDER_REJECTED", "SMS_OUTCOME_UNKNOWN"}]

OutboxTypes ==
  /\ note \in [Messages -> Note] /\ losses \in 0..MaxLosses
  /\ texts \in [Messages -> Nat] /\ denied \in [Messages -> Nat]
  /\ sending \in [Senders -> Sender]

\* From the claim to the end a sender has the message to itself, and it was
\* not sent before but where that was denied; what else may have been sent is
\* not tried again.
Holds(s, x) == sending[s].at \in {"send", "finish"} /\ sending[s].id = x

OutboxInv ==
  /\ \A s \in Senders : sending[s].at # "idle" => sending[s].id \in Messages
  /\ \A s \in Senders : sending[s].at = "finish" => sending[s].result # "none"
  /\ \A x \in Messages, s \in Senders : Holds(s, x) =>
       /\ note[x].status = "PENDING" /\ note[x].claimed
       /\ sending[s].at = "send" \/ sending[s].result \notin {"SENT", "SMS_OUTCOME_UNKNOWN"} => texts[x] = denied[x]
       /\ \A t \in Senders : Holds(t, x) => s = t
  /\ \A x \in Messages : texts[x] > denied[x] => ~retryable(note[x]) /\ note[x] # NoNote
  /\ \A x \in Messages : texts[x] >= denied[x]
  /\ ResentOnlyIfDenied

LEMMA RestFacts == Rest \in Sender /\ Rest.at = "idle"
BY DEF Rest, Sender

LEMMA NoteFacts ==
  /\ NoNote \in Note /\ Waiting \in Note /\ ~NoNote.claimed /\ ~Waiting.claimed
  /\ NoNote.status = "NONE"
<1>1. NoNote \in Note /\ NoNote.claimed = FALSE /\ NoNote.status = "NONE"
  BY OutboxAssumption DEF NoNote, Note
<1>2. Waiting \in Note
  BY <1>1 DEF Waiting, Note
<1>3. Waiting.claimed = NoNote.claimed
  BY <1>1 DEF Waiting, Note
<1> QED BY <1>1, <1>2, <1>3

LEMMA OutboxBegins == ASSUME OutboxInit PROVE OutboxTypes /\ OutboxInv
BY RestFacts, NoteFacts, OutboxAssumption DEF OutboxInit, OutboxTypes, OutboxInv, ResentOnlyIfDenied, Holds

LEMMA OutboxGoesOn ==
  ASSUME OutboxTypes, OutboxInv, [OutboxNext]_smsVars
  PROVE  OutboxTypes' /\ OutboxInv'
<1> DEFINE Goal == OutboxTypes' /\ OutboxInv'
<1>0. /\ note \in [Messages -> Note] /\ losses \in 0..MaxLosses
      /\ texts \in [Messages -> Nat] /\ denied \in [Messages -> Nat]
      /\ sending \in [Senders -> Sender] /\ MaxLosses \in Nat /\ MaxSends \in Nat
  BY OutboxAssumption DEF OutboxTypes
<1>1. ASSUME NEW x \in Messages, NEW status, NEW confirmed, UpdateTransaction(x, status, confirmed)
      PROVE  Goal
  <2>1. note' = note \/ (note[x] = NoNote /\ note' = [note EXCEPT ![x] = Waiting])
    BY <1>1 DEF UpdateTransaction
  <2>2. UNCHANGED <<texts, denied, sending, losses>>
    BY <1>1 DEF UpdateTransaction
  <2>3. note' \in [Messages -> Note]
    BY <1>0, <2>1, NoteFacts
  <2>4. CASE note' = note
    BY <2>2, <2>4 DEF OutboxTypes, OutboxInv, Holds, ResentOnlyIfDenied, retryable
  <2>5. CASE note[x] = NoNote /\ note' = [note EXCEPT ![x] = Waiting]
    <3>1. texts[x] = denied[x] /\ \A s \in Senders : ~Holds(s, x)
      BY <1>0, <2>5, NoteFacts DEF OutboxInv
    <3>2. \A y \in Messages : y = x \/ note'[y] = note[y]
      BY <1>0, <2>5
    <3> QED BY <1>0, <2>2, <2>3, <3>1, <3>2 DEF OutboxTypes, OutboxInv, Holds, ResentOnlyIfDenied, retryable
  <2> QED BY <2>1, <2>4, <2>5
<1>2. ASSUME NEW s \in Senders, NEW x \in Messages, Begin(s, x) PROVE Goal
  <2> DEFINE l == [Rest EXCEPT !.at = "claim", !.id = x]
  <2>1. l \in Sender /\ l.at = "claim" /\ l.id = x
    BY DEF Rest, Sender
  <2>2. sending' = [sending EXCEPT ![s] = l] /\ UNCHANGED <<note, texts, denied, losses>>
    BY <1>2 DEF Begin
  <2> HIDE DEF l
  <2>3. sending' \in [Senders -> Sender] /\ sending'[s] = l /\ \A t \in Senders \ {s} : sending'[t] = sending[t]
    BY <1>0, <2>1, <2>2
  <2> QED BY <2>1, <2>2, <2>3 DEF OutboxTypes, OutboxInv, Holds, ResentOnlyIfDenied, retryable
\* A sender that leaves what it does.
<1>3. ASSUME NEW s \in Senders, Rested(s), UNCHANGED <<note, texts, denied>>, losses' \in 0..MaxLosses PROVE Goal
  <2>1. sending' \in [Senders -> Sender] /\ sending'[s] = Rest /\ \A t \in Senders \ {s} : sending'[t] = sending[t]
    BY <1>0, <1>3, RestFacts DEF Rested
  <2> QED BY <1>3, <2>1, RestFacts DEF OutboxTypes, OutboxInv, Holds, ResentOnlyIfDenied, retryable
<1>4. ASSUME NEW s \in Senders, ClaimNote(s) PROVE Goal
  <2> DEFINE x == sending[s].id
             new == [status |-> "PENDING", claimed |-> TRUE, category |-> "none", attempts |-> note[x].attempts + 1]
             l == [sending[s] EXCEPT !.at = "send"]
  <2>1. CASE Rested(s) /\ UNCHANGED note
    BY <1>0, <1>3, <1>4, <2>1 DEF ClaimNote
  <2>2. CASE retryable(note[x]) /\ note' = [note EXCEPT ![x] = new] /\ sending' = [sending EXCEPT ![s] = l]
    <3>1. x \in Messages /\ sending[s].at = "claim" /\ note[x].attempts < MaxSends /\ UNCHANGED <<texts, denied, losses>>
      BY <1>4 DEF ClaimNote, OutboxInv
    <3>2. new \in Note /\ new.status = "PENDING" /\ new.claimed
      BY <1>0, <3>1 DEF Note
    <3>3. l \in Sender /\ l.at = "send" /\ l.id = x
      BY <1>0 DEF Sender
    <3>4. texts[x] = denied[x] /\ \A t \in Senders : ~Holds(t, x)
      <4>1. ~(texts[x] > denied[x]) /\ texts[x] >= denied[x]
        BY <2>2, <3>1 DEF OutboxInv
      <4>2. texts[x] \in Nat /\ denied[x] \in Nat
        BY <1>0, <3>1
      <4>3. \A t \in Senders : ~Holds(t, x)
        BY <1>0, <2>2, <3>1 DEF OutboxInv, retryable
      <4> QED BY <4>1, <4>2, <4>3
    <3> HIDE DEF new, l
    <3>5. /\ note' \in [Messages -> Note] /\ note'[x] = new /\ \A y \in Messages \ {x} : note'[y] = note[y]
          /\ sending' \in [Senders -> Sender] /\ sending'[s] = l /\ \A t \in Senders \ {s} : sending'[t] = sending[t]
      BY <1>0, <2>2, <3>1, <3>2, <3>3
    <3> QED BY <1>0, <3>1, <3>2, <3>3, <3>4, <3>5 DEF OutboxTypes, OutboxInv, Holds, ResentOnlyIfDenied, retryable
  <2> QED BY <1>4, <2>1, <2>2 DEF ClaimNote
<1>5. ASSUME NEW s \in Senders, Send(s) PROVE Goal
  <2> DEFINE x == sending[s].id
  <2>1. PICK result \in {"SENT", "SMS_NOT_CONFIGURED", "PROVIDER_REJECTED", "SMS_OUTCOME_UNKNOWN"} :
          /\ sending' = [sending EXCEPT ![s].at = "finish", ![s].result = result]
          /\ \/ UNCHANGED <<texts, denied>>
             \/ /\ texts' = [texts EXCEPT ![x] = @ + 1] /\ UNCHANGED denied
                /\ result \in {"SENT", "SMS_OUTCOME_UNKNOWN"}
             \/ texts' = [texts EXCEPT ![x] = @ + 1] /\ denied' = [denied EXCEPT ![x] = @ + 1]
    BY <1>5 DEF Send
  <2>2. /\ sending[s].at = "send" /\ note' = note /\ losses' \in 0..MaxLosses
        /\ x \in Messages /\ Holds(s, x)
    BY <1>0, <1>5 DEF Send, OutboxInv, Holds
  <2> DEFINE l == [sending[s] EXCEPT !.at = "finish", !.result = result]
  <2>3. l \in Sender /\ l.at = "finish" /\ l.id = x /\ l.result = result
    BY <1>0 DEF Sender
  <2>4. sending' = [sending EXCEPT ![s] = l]
    BY <2>1
  <2> HIDE DEF l
  <2>5. sending' \in [Senders -> Sender] /\ sending'[s] = l /\ \A t \in Senders \ {s} : sending'[t] = sending[t]
    BY <1>0, <2>3, <2>4
  <2>6. texts[x] = denied[x] /\ ~retryable(note[x]) /\ note[x] # NoNote /\ \A t \in Senders : Holds(t, x) => t = s
    BY <2>2, NoteFacts DEF OutboxInv, Holds, retryable
  <2>7. /\ texts' \in [Messages -> Nat] /\ denied' \in [Messages -> Nat]
        /\ \A y \in Messages \ {x} : texts'[y] = texts[y] /\ denied'[y] = denied[y]
        /\ \/ texts'[x] = denied'[x]
           \/ texts'[x] = denied'[x] + 1 /\ result \in {"SENT", "SMS_OUTCOME_UNKNOWN"}
    BY <1>0, <2>1, <2>2, <2>6
  <2> HIDE DEF x
  <2>8. OutboxTypes'
    BY <1>0, <2>2, <2>5, <2>7 DEF OutboxTypes
  <2>9. OutboxInv'
    BY <2>2, <2>3, <2>5, <2>6, <2>7 DEF OutboxInv, Holds, ResentOnlyIfDenied, retryable
  <2> QED BY <2>8, <2>9
<1>6. ASSUME NEW s \in Senders, FinishNotification(s) PROVE Goal
  <2> DEFINE x == sending[s].id
             result == sending[s].result
             status == IF result = "SENT" THEN "SENT" ELSE "FAILED"
             category == IF result = "SENT" THEN "none" ELSE result
             new == [note[x] EXCEPT !.status = status, !.category = category]
  <2>1. sending[s].at = "finish" /\ x \in Messages /\ Rested(s) /\ UNCHANGED <<texts, denied, losses>>
        /\ note' = [note EXCEPT ![x] = new] /\ result # "none"
    BY <1>6 DEF FinishNotification, OutboxInv
  <2>2. result \in {"SENT", "SMS_NOT_CONFIGURED", "PROVIDER_REJECTED", "SMS_OUTCOME_UNKNOWN"}
    BY <1>0, <2>1 DEF Sender
  <2>3. /\ new \in Note /\ new.status = status /\ new.category = category /\ status \in {"SENT", "FAILED"}
    BY <1>0, <2>1, <2>2 DEF Note
  <2>4. Holds(s, x) /\ \A t \in Senders : Holds(t, x) => t = s
    BY <2>1 DEF OutboxInv, Holds
  <2>5. texts[x] > denied[x] => result \in {"SENT", "SMS_OUTCOME_UNKNOWN"}
    <3>1. result \notin {"SENT", "SMS_OUTCOME_UNKNOWN"} => texts[x] = denied[x]
      BY <2>4, <2>1 DEF OutboxInv, Holds
    <3>2. texts[x] \in Nat /\ denied[x] \in Nat
      BY <1>0, <2>1
    <3> HIDE DEF x, result
    <3> QED BY <3>1, <3>2
  <2>6. texts[x] > denied[x] => ~retryable(new)
    BY <2>3, <2>5 DEF retryable
  <2>7. new # NoNote
    <3>1. new.status # "NONE"
      BY <2>3
    <3> HIDE DEF new
    <3> QED BY <3>1, NoteFacts
  <2> HIDE DEF new
  <2>8. /\ note' \in [Messages -> Note] /\ note'[x] = new /\ \A y \in Messages \ {x} : note'[y] = note[y]
    BY <1>0, <2>1, <2>3
  <2>9. sending' \in [Senders -> Sender] /\ sending'[s] = Rest /\ \A t \in Senders \ {s} : sending'[t] = sending[t]
    BY <1>0, <2>1, RestFacts DEF Rested
  <2> HIDE DEF x
  <2>10. OutboxTypes'
    BY <1>0, <2>1, <2>8, <2>9 DEF OutboxTypes
  <2>11. OutboxInv'
    BY <2>1, <2>4, <2>6, <2>7, <2>8, <2>9, RestFacts DEF OutboxInv, Holds, ResentOnlyIfDenied
  <2> QED BY <2>10, <2>11
<1>7. ASSUME NEW s \in Senders, Crash(s) PROVE Goal
  BY <1>0, <1>3, <1>7 DEF Crash
<1>8. CASE UNCHANGED smsVars
  BY <1>8 DEF smsVars, OutboxTypes, OutboxInv, Holds, ResentOnlyIfDenied, retryable
<1> QED BY <1>1, <1>2, <1>4, <1>5, <1>6, <1>7, <1>8 DEF OutboxNext

(* The recipient of a recharge gets at most one message, however many      *)
(* workers and staff send it, and whatever crashes or is not answered,     *)
(* besides those the carrier denied to have taken                          *)
(* (receiver-notification.ts).                                             *)
THEOREM RecipientIsToldOnce == OutboxSpec => []MessageSentOnce
<1>1. OutboxInit => OutboxTypes /\ OutboxInv
  BY OutboxBegins
<1>2. OutboxTypes /\ OutboxInv /\ [OutboxNext]_smsVars => (OutboxTypes /\ OutboxInv)'
  BY OutboxGoesOn
<1>3. OutboxTypes /\ OutboxInv => MessageSentOnce
  BY DEF OutboxTypes, OutboxInv, MessageSentOnce, OutboxTypeOK, Note
<1> QED BY <1>1, <1>2, <1>3, PTL DEF OutboxSpec

---------------------------------------------------------------------------
(* Promotions.                                                             *)

Statuses == {"NONE", "RESERVED", "FULFILLED", "REVERSED", "EXPIRED"}
RechargeStates == {"NONE", "PENDING", "DELIVERED", "UNSAFE"}
RewardStatuses == {"NONE", "PENDING", "APPROVED", "PAYABLE", "PAID", "REVERSED"}
Quote == [state : {"NONE", "OPEN", "CONSUMED"}, customer : Customers \cup {"none"}, fee : 0..CampaignFee]
Move == [to : {"none", "PENDING", "DELIVERED", "UNSAFE"}, seen : Statuses \cup {"none"}]
Decision == [quote : Quotes \cup {"none"}, to : {"none", "APPROVED", "PAYABLE", "REVERSED"}, fit : BOOLEAN]

PromotionTypes ==
  /\ campaign \in [status : {"ACTIVE", "PAUSED", "REVOKED"}, rules : CampaignRules]
  /\ rulesSnapshot \in [Quotes -> CampaignRules]
  /\ attribution \in [Customers -> Visits \cup {"none"}]
  /\ late \subseteq Quotes /\ reserving \subseteq Quotes
  /\ quote \in [Quotes -> Quote]
  /\ redemption \in [Quotes -> Statuses]
  /\ recharge \in [Quotes -> RechargeStates]
  /\ reward \in [Quotes -> RewardStatuses]
  /\ moving \in [Quotes -> Move]
  /\ deciding \in Decision

Used == {q \in Quotes : redemption[q] \in {"RESERVED", "FULFILLED"}}
Live(q) == reward[q] \notin {"NONE", "REVERSED"}

\* How far the row, the redemption and the reward of a quote may be apart.
QuoteFits(q) ==
  /\ quote[q].state = "NONE" => redemption[q] = "NONE"
  /\ q \in reserving => quote[q].state = "OPEN"
  /\ quote[q].state # "CONSUMED" => recharge[q] = "NONE"
  /\ redemption[q] = "FULFILLED" => recharge[q] = "DELIVERED"
  /\ reward[q] # "NONE" => redemption[q] \in {"FULFILLED", "REVERSED"}
  /\ Live(q) => redemption[q] = "FULFILLED"
  /\ moving[q] # NotMoving =>
       /\ moving[q].to \in RechargeNext[recharge[q]] /\ moving[q].seen \in Statuses
       /\ redemption[q] = "NONE" <=> moving[q].seen = "NONE"
       /\ redemption[q] = "EXPIRED" <=> moving[q].seen = "EXPIRED"

DecisionFits ==
  deciding # Undecided =>
    deciding.quote \in Quotes /\ Live(deciding.quote) /\ deciding.to # "none"

\* The quotes of a set were not too many when the last of them was reserved.
Within(S) == S = {} \/ \E q \in S : Cardinality(S) <= rulesSnapshot[q].maxRedemptions
WithinOne(S) == S = {} \/ \E q \in S : Cardinality(S) <= rulesSnapshot[q].maxPerCustomer

OneFirst(p, q) ==
  p # q /\ quote[p].customer = quote[q].customer =>
    ~rulesSnapshot[p].firstRechargeOnly \/ ~rulesSnapshot[q].firstRechargeOnly

\* The places of a campaign, and of a customer in it, were given within the
\* limits; so were those that are left whenever some are given back.
PlacesFit ==
  /\ IsFiniteSet(Used)
  /\ \A S \in SUBSET Used : Within(S)
  /\ \A c \in Customers : \A S \in SUBSET (Used \cap Of(c)) : WithinOne(S)
  /\ \A p, q \in Used : OneFirst(p, q)

OneReward(p, q) ==
  /\ p # q /\ quote[p].customer = quote[q].customer
  /\ rulesSnapshot[p].reward.type = "FIXED_CUSTOMER" /\ rulesSnapshot[q].reward.type = "FIXED_CUSTOMER"
  => ~Live(p) \/ ~Live(q)

RewardsFit == \A p, q \in Quotes : OneReward(p, q)

QuotesFit == \A q \in Quotes : QuoteFits(q)
PromotionInv == PromotionTypes /\ QuotesFit /\ DecisionFits /\ PlacesFit /\ RewardsFit

LEMMA MoveFacts ==
  /\ NotMoving \in Move /\ NotMoving.to = "none" /\ Undecided \in Decision
  /\ DOMAIN RechargeNext = RechargeStates
  /\ RechargeNext["NONE"] = {} /\ RechargeNext["PENDING"] = {"PENDING", "DELIVERED", "UNSAFE"}
  /\ RechargeNext["DELIVERED"] = {"DELIVERED", "UNSAFE"} /\ RechargeNext["UNSAFE"] = {"UNSAFE"}
  /\ DOMAIN rewardTransition \cup {"NONE"} = RewardStatuses
  /\ rewardTransition["REVERSED"] = {}
BY DEF NotMoving, Move, Undecided, Decision, RechargeNext, RechargeStates, Statuses, rewardTransition, RewardStatuses

\* A benefit never takes more than the fee.
LEMMA PriceFits ==
  ASSUME NEW rules \in CampaignRules
  PROVE  promotionPrice(CampaignFee, rules.benefit) \in 0..CampaignFee
<1> DEFINE rule == rules.benefit
           discount ==
             CASE rule.type = "NONE" -> 0
               [] rule.type = "WAIVED_FEE" -> CampaignFee
               [] rule.type = "PERCENT_FEE" -> (CampaignFee * rule.basisPoints) \div 10000
               [] rule.type = "REDUCED_FEE" -> IF CampaignFee > rule.cents THEN CampaignFee - rule.cents ELSE 0
               [] OTHER -> rule.cents
<1>1. /\ CampaignFee \in Nat
      /\ rule.type = "PERCENT_FEE" => rule.basisPoints \in Nat
      /\ rule.type \notin {"NONE", "WAIVED_FEE", "PERCENT_FEE"} => rule.cents \in Nat
  BY CampaignAssumption
<1> HIDE DEF rule
<1>2. ASSUME NEW n \in Nat, NEW m \in Nat PROVE (n * m) \div 10000 \in Nat
  <2>1. PICK k \in Nat : k = n * m
    OBVIOUS
  <2>2. k \div 10000 \in Nat
    OBVIOUS
  <2> QED BY <2>1, <2>2
<1>3. discount \in Nat
  <2>1. CASE rule.type = "PERCENT_FEE"
    <3>1. (CampaignFee * rule.basisPoints) \div 10000 \in Nat
      BY <1>1, <1>2, <2>1
    <3>2. discount = (CampaignFee * rule.basisPoints) \div 10000
      BY <2>1
    <3> QED BY <3>1, <3>2
  <2>2. CASE rule.type # "PERCENT_FEE"
    BY <1>1, <2>2
  <2> QED BY <2>1, <2>2
<1>4. promotionPrice(CampaignFee, rule) = CampaignFee - (IF discount < CampaignFee THEN discount ELSE CampaignFee)
  BY DEF promotionPrice
<1> HIDE DEF discount
<1>5. promotionPrice(CampaignFee, rule) \in 0..CampaignFee
  BY <1>1, <1>3, <1>4
<1> QED BY <1>5 DEF rule

\* Places that are given back.
LEMMA FewerPlaces ==
  ASSUME PlacesFit, NEW S, S \subseteq Used
  PROVE  IsFiniteSet(S) /\ Cardinality(S) \in Nat
BY FS_Subset, FS_CardinalityType DEF PlacesFit

LEMMA PlacesShrink ==
  ASSUME PlacesFit, Used' \subseteq Used,
         \A q \in Used' : quote'[q].customer = quote[q].customer /\ rulesSnapshot'[q] = rulesSnapshot[q]
  PROVE  PlacesFit'
<1>1. IsFiniteSet(Used')
  BY FewerPlaces
<1>2. ASSUME NEW S \in SUBSET Used' PROVE Within(S)'
  <2>1. Within(S)
    BY DEF PlacesFit
  <2> QED BY <2>1 DEF Within
<1>3. ASSUME NEW c \in Customers, NEW S \in SUBSET (Used' \cap Of(c)') PROVE WithinOne(S)'
  <2>1. Used' \cap Of(c)' \subseteq Used \cap Of(c)
    BY DEF Used, Of
  <2>2. WithinOne(S)
    BY <2>1 DEF PlacesFit
  <2> QED BY <2>2 DEF WithinOne
<1>4. ASSUME NEW p \in Used', NEW q \in Used' PROVE OneFirst(p, q)'
  <2>1. OneFirst(p, q)
    BY DEF PlacesFit
  <2> QED BY <2>1 DEF OneFirst
<1> QED BY <1>1, <1>2, <1>3, <1>4 DEF PlacesFit

\* What a step leaves alone, when it leaves redemptions and rewards alone.
LEMMA BenefitsStay ==
  ASSUME PromotionInv, UNCHANGED <<redemption, reward, deciding, rulesSnapshot>>,
         \A q \in Quotes : quote'[q].customer = quote[q].customer
  PROVE  DecisionFits' /\ PlacesFit' /\ RewardsFit'
<1>1. Used' = Used
  BY DEF Used
<1>2. Used \subseteq Quotes
  BY DEF Used
<1>3. PlacesFit'
  BY <1>1, <1>2, PlacesShrink DEF PromotionInv
<1>4. DecisionFits' /\ RewardsFit'
  BY DEF PromotionInv, DecisionFits, RewardsFit, OneReward, Live
<1> QED BY <1>3, <1>4

LEMMA OthersFit ==
  ASSUME PromotionInv, NEW q \in Quotes, quote'[q] = quote[q], redemption'[q] = redemption[q],
         recharge'[q] = recharge[q], reward'[q] = reward[q], moving'[q] = moving[q],
         q \in reserving' <=> q \in reserving
  PROVE  QuoteFits(q)'
BY DEF PromotionInv, QuotesFit, QuoteFits, Live

\* The campaign, its links and the clock.
LEMMA SurroundingsHold ==
  ASSUME PromotionInv,
         \/ \E status \in {"ACTIVE", "PAUSED", "REVOKED"}, rules \in CampaignRules : SaveCampaign(status, rules)
         \/ \E c \in Customers, v \in Visits : Claim(c, v)
         \/ \E q \in Quotes : QuoteRunsOut(q)
         \/ UNCHANGED promotionVars
  PROVE  PromotionInv'
<1>0. PromotionTypes
  BY DEF PromotionInv
<1>1. UNCHANGED <<rulesSnapshot, quote, reserving, redemption, recharge, moving, reward, deciding>>
  BY <1>0 DEF SaveCampaign, Claim, QuoteRunsOut, promotionVars, PromotionTypes
<1>2. PromotionTypes'
  BY <1>0, <1>1 DEF SaveCampaign, Claim, QuoteRunsOut, promotionVars, PromotionTypes
<1>3. QuotesFit'
  BY <1>1, OthersFit DEF QuotesFit
<1> QED BY <1>1, <1>2, <1>3, BenefitsStay DEF PromotionInv

\* A recharge, as far as it does not touch a redemption.
LEMMA RechargeMoves ==
  ASSUME PromotionInv, NEW q \in Quotes,
         \/ ReadTime(q) \/ Reserve(q) \/ CommitOnly(q) \/ Rollback(q)
         \/ \E to \in {"PENDING", "DELIVERED", "UNSAFE"} : MoveRecharge(q, to)
  PROVE  PromotionInv'
<1>0. PromotionTypes /\ QuoteFits(q)
  BY DEF PromotionInv, QuotesFit
<1>1. /\ UNCHANGED <<campaign, rulesSnapshot, attribution, late, redemption, reward, deciding>>
      /\ \A x \in Quotes \ {q} :
           /\ quote'[x] = quote[x] /\ recharge'[x] = recharge[x] /\ moving'[x] = moving[x]
           /\ x \in reserving' <=> x \in reserving
      /\ quote'[q].customer = quote[q].customer
  BY <1>0 DEF ReadTime, Reserve, CommitOnly, Rollback, MoveRecharge, Commit, PromotionTypes, Quote
<1>2. PromotionTypes' /\ QuoteFits(q)'
  <2>1. CASE ReadTime(q)
    BY <1>0, <2>1 DEF ReadTime, PromotionTypes, QuoteFits, Live
  <2>2. CASE Reserve(q)
    <3> DEFINE new == [quote[q] EXCEPT !.state = "CONSUMED"]
    <3>1. new \in Quote /\ new.state = "CONSUMED"
      BY <1>0 DEF PromotionTypes, Quote
    <3>2. quote' = [quote EXCEPT ![q] = new]
      BY <2>2 DEF Reserve
    <3>3. recharge[q] = "NONE" /\ quote[q].state = "OPEN"
      BY <1>0, <2>2 DEF Reserve, QuoteFits
    <3>4. moving[q] = NotMoving
      BY <1>0, <3>3, MoveFacts DEF QuoteFits
    <3>5. redemption[q] # "FULFILLED"
      BY <1>0, <3>3 DEF QuoteFits
    <3> HIDE DEF new
    <3>6. quote' \in [Quotes -> Quote] /\ quote'[q] = new
      BY <1>0, <3>1, <3>2 DEF PromotionTypes
    <3>7. recharge' \in [Quotes -> RechargeStates] /\ recharge'[q] = "PENDING"
      BY <1>0, <2>2 DEF Reserve, PromotionTypes, RechargeStates
    <3> QED BY <1>0, <2>2, <3>1, <3>4, <3>5, <3>6, <3>7 DEF Reserve, PromotionTypes, QuoteFits, Live
  <2>3. CASE CommitOnly(q)
    <3>1. /\ moving[q].to \in RechargeNext[recharge[q]] /\ moving[q] # NotMoving
          /\ recharge[q] \in RechargeStates
      BY <1>0, <2>3 DEF CommitOnly, Commit, QuoteFits, PromotionTypes
    <3>2. /\ recharge' = [recharge EXCEPT ![q] = moving[q].to] /\ moving' = [moving EXCEPT ![q] = NotMoving]
      BY <2>3 DEF CommitOnly, Commit
    <3>3. moving[q].to \in RechargeStates /\ recharge[q] # "NONE"
      BY <3>1, MoveFacts DEF RechargeStates
    <3>4. recharge' \in [Quotes -> RechargeStates] /\ moving' \in [Quotes -> Move]
      BY <1>0, <3>2, <3>3, MoveFacts DEF PromotionTypes
    <3>5. recharge'[q] = moving[q].to /\ moving'[q] = NotMoving
      BY <1>0, <3>2 DEF PromotionTypes
    <3>6. redemption[q] = "FULFILLED" => moving[q].to = "DELIVERED"
      <4>1. redemption[q] = "FULFILLED" => recharge[q] = "DELIVERED" /\ moving[q].seen # "NONE"
        BY <1>0, <3>1 DEF QuoteFits
      <4> QED BY <2>3, <3>1, <4>1, MoveFacts DEF CommitOnly
    <3>7. UNCHANGED <<quote, reserving>>
      BY <2>3 DEF CommitOnly
    <3> QED BY <1>0, <1>1, <3>3, <3>4, <3>5, <3>6, <3>7 DEF PromotionTypes, QuoteFits, Live
  <2>4. CASE Rollback(q)
    BY <1>0, <2>4, MoveFacts DEF Rollback, PromotionTypes, QuoteFits, Live
  <2>5. ASSUME NEW to \in {"PENDING", "DELIVERED", "UNSAFE"}, MoveRecharge(q, to)
        PROVE  PromotionTypes' /\ QuoteFits(q)'
    <3> DEFINE new == [to |-> to, seen |-> redemption[q]]
    <3>1. new \in Move /\ new.to = to /\ new.seen = redemption[q] /\ redemption[q] \in Statuses
      BY <1>0 DEF PromotionTypes, Move
    <3>2. moving' = [moving EXCEPT ![q] = new] /\ to \in RechargeNext[recharge[q]]
      BY <2>5 DEF MoveRecharge
    <3> HIDE DEF new
    <3>3. moving' \in [Quotes -> Move] /\ moving'[q] = new
      BY <1>0, <3>1, <3>2 DEF PromotionTypes
    <3> QED BY <1>0, <2>5, <3>1, <3>2, <3>3 DEF MoveRecharge, PromotionTypes, QuoteFits, Live
  <2> QED BY <2>1, <2>2, <2>3, <2>4, <2>5
<1>3. QuotesFit'
  <2>1. ASSUME NEW x \in Quotes \ {q} PROVE QuoteFits(x)'
    BY <1>1, OthersFit
  <2> QED BY <1>2, <2>1 DEF QuotesFit
<1>4. DecisionFits' /\ PlacesFit' /\ RewardsFit'
  BY <1>1, BenefitsStay
<1> QED BY <1>2, <1>3, <1>4 DEF PromotionInv

\* A recharge is delivered, and earns a reward.
LEMMA FulfillHolds ==
  ASSUME PromotionInv, NEW q \in Quotes, Fulfill(q)
  PROVE  PromotionInv'
<1>0. PromotionTypes /\ QuoteFits(q) /\ PlacesFit /\ QuotesFit
  BY DEF PromotionInv, QuotesFit
<1>1. /\ moving[q].to = "DELIVERED" /\ moving[q] # NotMoving /\ reward[q] = "NONE"
      /\ redemption[q] = "RESERVED"
      /\ recharge' = [recharge EXCEPT ![q] = "DELIVERED"] /\ moving' = [moving EXCEPT ![q] = NotMoving]
      /\ redemption' = [redemption EXCEPT ![q] = "FULFILLED"]
      /\ reward' = reward \/ (Rewarded(q) /\ reward' = [reward EXCEPT ![q] = "PENDING"])
      /\ UNCHANGED <<campaign, rulesSnapshot, attribution, quote, late, reserving, deciding>>
  BY <1>0 DEF Fulfill, Fulfillable, Commit, QuoteFits, PromotionTypes, Statuses
<1>2. /\ recharge' \in [Quotes -> RechargeStates] /\ moving' \in [Quotes -> Move]
      /\ redemption' \in [Quotes -> Statuses] /\ reward' \in [Quotes -> RewardStatuses]
  BY <1>0, <1>1, MoveFacts DEF PromotionTypes, RechargeStates, Statuses, RewardStatuses
<1>3. /\ recharge'[q] = "DELIVERED" /\ moving'[q] = NotMoving /\ redemption'[q] = "FULFILLED"
      /\ reward'[q] \in {"NONE", "PENDING"}
      /\ \A x \in Quotes \ {q} : /\ recharge'[x] = recharge[x] /\ moving'[x] = moving[x]
                                 /\ redemption'[x] = redemption[x] /\ reward'[x] = reward[x]
  BY <1>0, <1>1 DEF PromotionTypes
<1>4. PromotionTypes'
  BY <1>0, <1>1, <1>2 DEF PromotionTypes
<1>5. QuotesFit'
  <2>1. ASSUME NEW x \in Quotes \ {q} PROVE QuoteFits(x)'
    BY <1>1, <1>3, OthersFit
  <2>2. quote[q].state = "CONSUMED"
    <3>1. recharge[q] # "NONE"
      BY <1>0, <1>1, MoveFacts DEF QuoteFits
    <3> QED BY <1>0, <3>1 DEF QuoteFits, PromotionTypes, Quote
  <2>3. QuoteFits(q)'
    BY <1>0, <1>1, <1>3, <2>2 DEF QuoteFits, Live
  <2> QED BY <2>1, <2>3 DEF QuotesFit
<1>6. DecisionFits'
  BY <1>1, <1>3 DEF PromotionInv, DecisionFits, Live
<1>7. PlacesFit'
  <2>1. Used' \subseteq Used
    BY <1>1, <1>3 DEF Used
  <2> QED BY <1>0, <1>1, <2>1, PlacesShrink
<1>8. RewardsFit'
  <2> SUFFICES ASSUME rulesSnapshot[q].reward.type = "FIXED_CUSTOMER", NEW p \in Quotes \ {q},
                      quote[p].customer = quote[q].customer, Live(q)'
               PROVE  ~Live(p)'
    <3>1. \A x \in Quotes \ {q} : Live(x)' <=> Live(x)
      BY <1>3 DEF Live
    <3> QED BY <1>1, <3>1 DEF PromotionInv, RewardsFit, OneReward
  <2>1. Rewarded(q)
    BY <1>1, <1>3 DEF Live
  <2>2. redemption[p] # "FULFILLED"
    BY <2>1 DEF Rewarded, Fulfilled, Of
  <2>3. ~Live(p)
    BY <1>0, <2>2 DEF QuotesFit, QuoteFits
  <2> QED BY <1>3, <2>3 DEF Live
<1> QED BY <1>4, <1>5, <1>6, <1>7, <1>8 DEF PromotionInv

\* A recharge is refunded.
LEMMA ReverseHolds ==
  ASSUME PromotionInv, NEW q \in Quotes, Reverse(q)
  PROVE  PromotionInv'
<1>0. PromotionTypes /\ QuoteFits(q) /\ PlacesFit /\ QuotesFit
  BY DEF PromotionInv, QuotesFit
<1>1. /\ moving[q].to = "UNSAFE" /\ moving[q] # NotMoving /\ moving[q].seen # "NONE" /\ deciding.quote # q
      /\ recharge' = [recharge EXCEPT ![q] = "UNSAFE"] /\ moving' = [moving EXCEPT ![q] = NotMoving]
      /\ redemption' = [redemption EXCEPT ![q] = "REVERSED"]
      /\ reward' = IF reward[q] = "NONE" THEN reward ELSE [reward EXCEPT ![q] = "REVERSED"]
      /\ UNCHANGED <<campaign, rulesSnapshot, attribution, quote, late, reserving, deciding>>
  BY DEF Reverse, Commit
<1>2. /\ recharge' \in [Quotes -> RechargeStates] /\ moving' \in [Quotes -> Move]
      /\ redemption' \in [Quotes -> Statuses] /\ reward' \in [Quotes -> RewardStatuses]
  BY <1>0, <1>1, MoveFacts DEF PromotionTypes, RechargeStates, Statuses, RewardStatuses
<1>3. /\ recharge'[q] = "UNSAFE" /\ moving'[q] = NotMoving /\ redemption'[q] = "REVERSED"
      /\ reward'[q] \in {"NONE", "REVERSED"}
      /\ \A x \in Quotes \ {q} : /\ recharge'[x] = recharge[x] /\ moving'[x] = moving[x]
                                 /\ redemption'[x] = redemption[x] /\ reward'[x] = reward[x]
  BY <1>0, <1>1 DEF PromotionTypes
<1>4. PromotionTypes'
  BY <1>0, <1>1, <1>2 DEF PromotionTypes
<1>5. QuotesFit'
  <2>1. ASSUME NEW x \in Quotes \ {q} PROVE QuoteFits(x)'
    BY <1>1, <1>3, OthersFit
  <2>2. quote[q].state = "CONSUMED"
    <3>1. recharge[q] # "NONE"
      BY <1>0, <1>1, MoveFacts DEF QuoteFits
    <3> QED BY <1>0, <3>1 DEF QuoteFits, PromotionTypes, Quote
  <2>3. QuoteFits(q)'
    BY <1>0, <1>1, <1>3, <2>2 DEF QuoteFits, Live
  <2> QED BY <2>1, <2>3 DEF QuotesFit
<1>6. DecisionFits'
  BY <1>1, <1>3 DEF PromotionInv, DecisionFits, Live
<1>7. PlacesFit'
  <2>1. Used' \subseteq Used
    BY <1>1, <1>3 DEF Used
  <2> QED BY <1>0, <1>1, <2>1, PlacesShrink
<1>8. RewardsFit'
  BY <1>1, <1>3 DEF PromotionInv, RewardsFit, OneReward, Live
<1> QED BY <1>4, <1>5, <1>6, <1>7, <1>8 DEF PromotionInv

\* Staff decide on a reward.
LEMMA DecisionsHold ==
  ASSUME PromotionInv,
         \/ \E q \in Quotes, to \in {"APPROVED", "PAYABLE", "REVERSED"} : ReadReward(q, to)
         \/ ChangeReward
  PROVE  PromotionInv'
<1>0. PromotionTypes /\ QuotesFit /\ PlacesFit
  BY DEF PromotionInv
<1>1. /\ UNCHANGED <<campaign, rulesSnapshot, attribution, quote, late, reserving, redemption, recharge, moving>>
  BY DEF ReadReward, ChangeReward
<1>2. PlacesFit'
  <2>1. Used' = Used
    BY <1>1 DEF Used
  <2> QED BY <1>0, <1>1, <2>1, PlacesShrink
<1>3. ASSUME NEW q \in Quotes, NEW to \in {"APPROVED", "PAYABLE", "REVERSED"}, ReadReward(q, to)
      PROVE  PromotionInv'
  <2> DEFINE new == [quote |-> q, to |-> to, fit |-> to = "REVERSED" \/ recharge[q] = "DELIVERED"]
  <2>1. new \in Decision /\ new.quote = q /\ new.to = to
    BY DEF Decision
  <2>2. /\ deciding' = new /\ reward' = reward /\ reward[q] # "NONE"
        /\ to \in rewardTransition[reward[q]]
    BY <1>3 DEF ReadReward
  <2>3. Live(q)
    BY <2>2, MoveFacts DEF Live
  <2> HIDE DEF new
  <2>4. PromotionTypes'
    BY <1>0, <1>1, <2>1, <2>2 DEF PromotionTypes
  <2>5. DecisionFits'
    BY <2>1, <2>2, <2>3 DEF DecisionFits, Live
  <2>6. QuotesFit' /\ RewardsFit'
    BY <1>0, <1>1, <2>2, OthersFit DEF PromotionInv, QuotesFit, RewardsFit, OneReward, Live
  <2> QED BY <1>2, <2>4, <2>5, <2>6 DEF PromotionInv
<1>4. CASE ChangeReward
  <2> PICK q : q = deciding.quote
    OBVIOUS
  <2>1. q \in Quotes /\ Live(q) /\ deciding.to \in {"APPROVED", "PAYABLE", "REVERSED"}
    BY <1>0, <1>4 DEF PromotionInv, DecisionFits, ChangeReward, PromotionTypes, Decision
  <2>2. deciding' = Undecided /\ (reward' = reward \/ reward' = [reward EXCEPT ![q] = deciding.to])
    BY <1>4 DEF ChangeReward
  <2>3. reward' \in [Quotes -> RewardStatuses]
    BY <1>0, <2>1, <2>2 DEF PromotionTypes, RewardStatuses
  <2>4. /\ \A x \in Quotes \ {q} : reward'[x] = reward[x]
        /\ reward'[q] # "NONE" /\ reward[q] # "NONE"
    BY <1>0, <2>1, <2>2 DEF PromotionTypes, Live
  <2>5. PromotionTypes'
    BY <1>0, <1>1, <2>2, <2>3, MoveFacts DEF PromotionTypes
  <2>6. DecisionFits'
    BY <2>2 DEF DecisionFits
  <2>7. QuotesFit'
    <3>1. ASSUME NEW x \in Quotes \ {q} PROVE QuoteFits(x)'
      BY <1>1, <2>4, OthersFit
    <3>2. QuoteFits(q)'
      BY <1>0, <1>1, <2>1, <2>4 DEF QuotesFit, QuoteFits, Live
    <3> QED BY <3>1, <3>2 DEF QuotesFit
  <2>8. RewardsFit'
    <3>1. \A x \in Quotes : Live(x)' => Live(x)
      BY <2>1, <2>4 DEF Live
    <3> QED BY <1>1, <3>1 DEF PromotionInv, RewardsFit, OneReward
  <2> QED BY <1>2, <2>5, <2>6, <2>7, <2>8 DEF PromotionInv
<1> QED BY <1>3, <1>4

\* A place more, for the quote of one customer.
LEMMA PlaceTaken ==
  ASSUME PlacesFit, NEW S, S \subseteq Used, NEW q
  PROVE  /\ IsFiniteSet({q} \cup S) /\ Cardinality({q} \cup S) \in Nat
         /\ Cardinality({q} \cup S) <= Cardinality(S) + 1
<1>1. IsFiniteSet(S) /\ Cardinality(S) \in Nat
  BY FewerPlaces
<1>2. {q} \cup S = S \cup {q}
  OBVIOUS
<1>3. IsFiniteSet(S \cup {q})
      /\ (Cardinality(S \cup {q}) = IF q \in S THEN Cardinality(S) ELSE Cardinality(S) + 1)
  BY <1>1, FS_AddElement
<1>4. IsFiniteSet({q} \cup S) /\ Cardinality({q} \cup S) \in {Cardinality(S), Cardinality(S) + 1}
  BY <1>2, <1>3
<1> QED BY <1>1, <1>4

LEMMA SubsetsAreFew ==
  ASSUME NEW T, IsFiniteSet(T), NEW n \in Nat, Cardinality(T) <= n
  PROVE  \A S \in SUBSET T : Cardinality(S) <= n
<1> SUFFICES ASSUME NEW S \in SUBSET T PROVE Cardinality(S) <= n
  OBVIOUS
<1>1. IsFiniteSet(S) /\ Cardinality(S) <= Cardinality(T)
  BY FS_Subset
<1>2. Cardinality(S) \in Nat /\ Cardinality(T) \in Nat
  BY <1>1, FS_CardinalityType
<1> QED BY <1>1, <1>2

\* A quote is created, with a place of the campaign or without.
LEMMA CreateQuoteHolds ==
  ASSUME PromotionInv, NEW q \in Quotes, NEW c \in Customers, CreateQuote(q, c)
  PROVE  PromotionInv'
<1>0. PromotionTypes /\ QuoteFits(q) /\ PlacesFit /\ QuotesFit /\ campaign.rules \in CampaignRules
  BY DEF PromotionInv, QuotesFit, PromotionTypes
<1>a. PICK considered \in BOOLEAN, granted \in BOOLEAN :
        /\ considered = (attribution[c] # "none" /\ campaign.status = "ACTIVE")
        /\ granted = (/\ considered /\ promotionEligible(c)
                      /\ ~(campaign.rules.firstRechargeOnly /\ Outstanding(c)))
        /\ quote' = [quote EXCEPT ![q] =
             [state |-> "OPEN", customer |-> c,
              fee |-> IF granted THEN promotionPrice(CampaignFee, campaign.rules.benefit) ELSE CampaignFee]]
        /\ redemption' = [x \in Quotes |->
             IF x = q THEN IF granted THEN "RESERVED" ELSE "NONE"
             ELSE IF considered /\ RanOut(x) THEN "EXPIRED" ELSE redemption[x]]
        /\ rulesSnapshot' = IF granted THEN [rulesSnapshot EXCEPT ![q] = campaign.rules] ELSE rulesSnapshot
  BY Zenon DEF CreateQuote
<1>b. /\ quote[q].state = "NONE"
      /\ UNCHANGED <<campaign, attribution, late, reserving, recharge, moving, reward, deciding>>
  BY DEF CreateQuote
<1>1. redemption[q] = "NONE" /\ recharge[q] = "NONE" /\ reward[q] = "NONE" /\ moving[q] = NotMoving /\ q \notin reserving
  BY <1>0, <1>b, MoveFacts DEF QuoteFits
<1>2. PICK fee \in 0..CampaignFee : quote' = [quote EXCEPT ![q] = [state |-> "OPEN", customer |-> c, fee |-> fee]]
  <2>1. CampaignFee \in 0..CampaignFee
    BY CampaignAssumption
  <2> QED BY <1>0, <1>a, <2>1, PriceFits
<1>3. PICK new \in Quote : new.state = "OPEN" /\ new.customer = c /\ quote' = [quote EXCEPT ![q] = new]
  <2>1. [state |-> "OPEN", customer |-> c, fee |-> fee] \in Quote
    BY DEF Quote
  <2> QED BY <1>2, <2>1
<1>4. quote' \in [Quotes -> Quote] /\ quote'[q] = new /\ \A x \in Quotes \ {q} : quote'[x] = quote[x]
  BY <1>0, <1>3 DEF PromotionTypes
<1>5. /\ redemption' \in [Quotes -> Statuses]
      /\ redemption'[q] \in {"RESERVED", "NONE"}
      /\ redemption'[q] = "RESERVED" => granted
      /\ \A x \in Quotes \ {q} :
           redemption'[x] = IF considered /\ RanOut(x) THEN "EXPIRED" ELSE redemption[x]
  BY <1>0, <1>a DEF PromotionTypes, Statuses
<1>c. /\ rulesSnapshot' \in [Quotes -> CampaignRules]
      /\ \A x \in Quotes \ {q} : rulesSnapshot'[x] = rulesSnapshot[x]
      /\ granted => rulesSnapshot'[q] = campaign.rules
  BY <1>0, <1>a DEF PromotionTypes
<1>6. PromotionTypes'
  BY <1>0, <1>4, <1>5, <1>b, <1>c DEF PromotionTypes
<1>7. QuotesFit'
  <2>1. ASSUME NEW x \in Quotes \ {q} PROVE QuoteFits(x)'
    <3>1. CASE considered /\ RanOut(x)
      <4>1. redemption'[x] = "EXPIRED" /\ redemption[x] = "RESERVED" /\ quote[x].state # "CONSUMED" /\ quote[x].state # "NONE"
        BY <1>0, <1>5, <3>1 DEF RanOut, QuotesFit, QuoteFits
      <4>2. moving[x] = NotMoving /\ reward[x] = "NONE" /\ recharge[x] = "NONE"
        BY <1>0, <4>1, MoveFacts DEF QuotesFit, QuoteFits
      <4> QED BY <1>0, <1>4, <1>b, <4>1, <4>2 DEF QuotesFit, QuoteFits, Live
    <3>2. CASE ~(considered /\ RanOut(x))
      BY <1>4, <1>5, <1>b, <3>2, OthersFit
    <3> QED BY <3>1, <3>2
  <2>2. QuoteFits(q)'
    BY <1>1, <1>3, <1>4, <1>5, <1>b DEF QuoteFits, Live
  <2> QED BY <2>1, <2>2 DEF QuotesFit
<1>8. DecisionFits'
  BY <1>b DEF PromotionInv, DecisionFits, Live
<1>9. RewardsFit'
  <2>1. \A x \in Quotes : Live(x)' <=> Live(x)
    BY <1>b DEF Live
  <2>2. ~Live(q)
    BY <1>1 DEF Live
  <2> QED BY <1>4, <1>c, <2>1, <2>2 DEF PromotionInv, RewardsFit, OneReward
<1>10. PlacesFit'
  <2>1. CASE redemption'[q] = "NONE"
    <3>1. Used' \subseteq Used /\ q \notin Used'
      BY <1>5, <2>1 DEF Used
    <3>2. Used' \subseteq Quotes
      BY DEF Used
    <3> QED BY <1>0, <1>4, <1>c, <3>1, <3>2, PlacesShrink
  <2>2. CASE redemption'[q] = "RESERVED"
    <3> DEFINE Kept == {x \in Quotes : Counted(x)}
               Mine == {x \in Of(c) : Counted(x)}
    <3>1. /\ considered /\ promotionEligible(c)
          /\ ~(campaign.rules.firstRechargeOnly /\ Outstanding(c))
          /\ rulesSnapshot'[q] = campaign.rules
      BY <1>5, <1>a, <1>c, <2>2
    <3>2. Kept \subseteq Used /\ q \notin Kept
      BY <1>1 DEF Counted, Used
    <3>3. Used' = {q} \cup Kept
      <4>1. ASSUME NEW x \in Quotes \ {q} PROVE x \in Used' <=> x \in Kept
        BY <1>5, <3>1 DEF Used, Counted, RanOut
      <4>2. q \in Used'
        BY <2>2 DEF Used
      <4>3. Used' \subseteq Quotes /\ Kept \subseteq Quotes
        BY DEF Used
      <4> QED BY <4>1, <4>2, <4>3
    <3>4. Cardinality(Kept) < campaign.rules.maxRedemptions /\ Cardinality(Mine) < campaign.rules.maxPerCustomer
      BY <3>1 DEF promotionEligible
    <3>5. campaign.rules.maxRedemptions \in Nat /\ campaign.rules.maxPerCustomer \in Nat
      BY <1>0, CampaignAssumption
    <3>6. Mine = Kept \cap Of(c) /\ Mine \subseteq Used
      BY <3>2 DEF Of
    <3>7. Cardinality(Kept) \in Nat /\ Cardinality(Mine) \in Nat
      BY <1>0, <3>2, <3>6, FewerPlaces
    <3> HIDE DEF Kept, Mine
    <3>8. /\ IsFiniteSet({q} \cup Kept)
          /\ \A S \in SUBSET ({q} \cup Kept) : Cardinality(S) <= campaign.rules.maxRedemptions
      <4>1. /\ IsFiniteSet({q} \cup Kept) /\ Cardinality({q} \cup Kept) \in Nat
            /\ Cardinality({q} \cup Kept) <= Cardinality(Kept) + 1
        BY <1>0, <3>2, PlaceTaken
      <4>2. Cardinality({q} \cup Kept) <= campaign.rules.maxRedemptions
        BY <3>4, <3>5, <3>7, <4>1
      <4> QED BY <3>5, <4>1, <4>2, SubsetsAreFew
    <3>9. \A S \in SUBSET ({q} \cup Mine) : Cardinality(S) <= campaign.rules.maxPerCustomer
      <4>1. /\ IsFiniteSet({q} \cup Mine) /\ Cardinality({q} \cup Mine) \in Nat
            /\ Cardinality({q} \cup Mine) <= Cardinality(Mine) + 1
        BY <1>0, <3>6, PlaceTaken
      <4>2. Cardinality({q} \cup Mine) <= campaign.rules.maxPerCustomer
        BY <3>4, <3>5, <3>7, <4>1
      <4> QED BY <3>5, <4>1, <4>2, SubsetsAreFew
    <3>10. ASSUME NEW S \in SUBSET Used' PROVE Within(S)'
      <4>1. CASE q \in S
        <5>1. Cardinality(S) <= rulesSnapshot'[q].maxRedemptions
          BY <3>1, <3>3, <3>8
        <5> QED BY <4>1, <5>1 DEF Within
      <4>2. CASE q \notin S
        <5>1. S \subseteq Used /\ S \subseteq Quotes
          BY <3>2, <3>3, <4>2 DEF Used
        <5>2. Within(S)
          BY <1>0, <5>1 DEF PlacesFit
        <5> QED BY <1>c, <4>2, <5>1, <5>2 DEF Within
      <4> QED BY <4>1, <4>2
    <3>11. ASSUME NEW d \in Customers, NEW S \in SUBSET (Used' \cap Of(d)') PROVE WithinOne(S)'
      <4>1. CASE q \in S
        <5>1. d = c
          BY <1>3, <1>4, <4>1 DEF Of
        <5>2. S \subseteq {q} \cup Mine
          BY <1>4, <3>3, <3>6, <5>1 DEF Of
        <5>3. Cardinality(S) <= rulesSnapshot'[q].maxPerCustomer
          BY <3>1, <3>9, <5>2
        <5> QED BY <4>1, <5>3 DEF WithinOne
      <4>2. CASE q \notin S
        <5>1. S \subseteq Used \cap Of(d) /\ S \subseteq Quotes
          BY <1>4, <3>2, <3>3, <4>2 DEF Of
        <5>2. WithinOne(S)
          BY <1>0, <5>1 DEF PlacesFit
        <5> QED BY <1>c, <4>2, <5>1, <5>2 DEF WithinOne
      <4> QED BY <4>1, <4>2
    <3>12. ASSUME NEW p \in Used', NEW r \in Used' PROVE OneFirst(p, r)'
      <4>1. ASSUME campaign.rules.firstRechargeOnly, NEW x \in Mine PROVE FALSE
        <5>1. x \in Of(c) /\ x \in Quotes /\ Counted(x)
          BY DEF Mine, Of
        <5>2. recharge[x] # "DELIVERED" /\ ~Outstanding(c)
          BY <3>1, <4>1, <5>1 DEF promotionEligible
        <5>3. redemption[x] = "RESERVED"
          BY <1>0, <5>1, <5>2 DEF QuotesFit, QuoteFits, Counted
        <5> QED BY <5>1, <5>2, <5>3 DEF Outstanding, Counted, RanOut
      <4>2. ASSUME NEW x \in Kept, quote[x].customer = c PROVE ~campaign.rules.firstRechargeOnly
        <5>1. x \in Mine
          BY <3>2, <3>6, <4>2 DEF Of, Used
        <5> QED BY <4>1, <5>1
      <4>3. \A x \in Kept : /\ quote'[x] = quote[x] /\ rulesSnapshot'[x] = rulesSnapshot[x]
                           /\ x \in Used
        BY <1>4, <1>c, <3>2 DEF Used
      <4>4. quote'[q].customer = c
        BY <1>3, <1>4
      <4>5. CASE p # q /\ r # q
        <5>1. p \in Kept /\ r \in Kept /\ OneFirst(p, r)
          BY <1>0, <3>3, <4>3, <4>5 DEF PlacesFit
        <5> QED BY <4>3, <5>1 DEF OneFirst
      <4>6. CASE p = q \/ r = q
        <5>1. (p = q \/ p \in Kept) /\ (r = q \/ r \in Kept)
          BY <3>3
        <5> QED BY <3>1, <4>2, <4>3, <4>4, <4>6, <5>1 DEF OneFirst
      <4> QED BY <4>5, <4>6
    <3> QED BY <3>3, <3>8, <3>10, <3>11, <3>12 DEF PlacesFit
  <2> QED BY <1>5, <2>1, <2>2
<1> QED BY <1>6, <1>7, <1>8, <1>9, <1>10 DEF PromotionInv

LEMMA PromotionStarts == PromotionInit => PromotionInv
<1> SUFFICES ASSUME PromotionInit PROVE PromotionInv
  OBVIOUS
<1>1. \A q \in Quotes : /\ quote[q].state = "NONE" /\ quote[q].customer = "none"
                        /\ redemption[q] = "NONE" /\ recharge[q] = "NONE"
                        /\ moving[q] = NotMoving /\ reward[q] = "NONE"
  BY DEF PromotionInit
<1>2. reserving = {} /\ late = {} /\ deciding = Undecided
  BY DEF PromotionInit
<1>3. PromotionTypes
  <2>1. quote \in [Quotes -> Quote]
    BY CampaignAssumption DEF PromotionInit, Quote
  <2>2. moving \in [Quotes -> Move] /\ deciding \in Decision
    BY MoveFacts DEF PromotionInit
  <2>3. /\ campaign \in [status : {"ACTIVE", "PAUSED", "REVOKED"}, rules : CampaignRules]
        /\ rulesSnapshot \in [Quotes -> CampaignRules]
    BY DEF PromotionInit
  <2> QED BY <2>1, <2>2, <2>3 DEF PromotionInit, PromotionTypes, Statuses, RechargeStates, RewardStatuses
<1>4. QuotesFit
  BY <1>1, <1>2 DEF QuotesFit, QuoteFits, Live
<1>5. DecisionFits /\ RewardsFit
  BY <1>1, <1>2 DEF DecisionFits, RewardsFit, OneReward, Live
<1>6. PlacesFit
  <2>1. Used = {}
    BY <1>1 DEF Used
  <2>2. \A c \in Customers : Used \cap Of(c) = {}
    BY <2>1
  <2>3. IsFiniteSet({})
    BY FS_EmptySet
  <2> QED BY <2>1, <2>2, <2>3 DEF PlacesFit, Within, WithinOne
<1> QED BY <1>3, <1>4, <1>5, <1>6 DEF PromotionInv

LEMMA PromotionStep ==
  ASSUME PromotionInv, [PromotionNext]_promotionVars
  PROVE  PromotionInv'
<1>1. ASSUME NEW q \in Quotes, \/ ReadTime(q) \/ Reserve(q) \/ QuoteRunsOut(q)
                               \/ Reverse(q) \/ Fulfill(q) \/ CommitOnly(q) \/ Rollback(q)
      PROVE  PromotionInv'
  BY <1>1, RechargeMoves, FulfillHolds, ReverseHolds, SurroundingsHold
<1>2. ASSUME NEW q \in Quotes, NEW to \in {"PENDING", "DELIVERED", "UNSAFE"}, MoveRecharge(q, to)
      PROVE  PromotionInv'
  BY <1>2, RechargeMoves
<1> QED BY <1>1, <1>2, CreateQuoteHolds, DecisionsHold, SurroundingsHold DEF PromotionNext

LEMMA PromotionsStaySound == PromotionInv => PromotionsAreSound
<1> SUFFICES ASSUME PromotionInv PROVE PromotionsAreSound
  OBVIOUS
<1>0. PromotionTypes /\ QuotesFit /\ PlacesFit /\ RewardsFit
  BY DEF PromotionInv
<1>1. PromotionTypeOK
  <2>1. campaign.status \in {"ACTIVE", "PAUSED", "REVOKED"} /\ campaign.rules \in CampaignRules
    BY <1>0 DEF PromotionTypes
  <2>2. recharge \in [Quotes -> DOMAIN RechargeNext] /\ reward \in [Quotes -> DOMAIN rewardTransition \cup {"NONE"}]
    BY <1>0, MoveFacts DEF PromotionTypes
  <2> QED BY <1>0, <2>1, <2>2 DEF PromotionTypes, PromotionTypeOK, Quote, Statuses
<1>2. CapacityHolds
  <2>1. Within(Used) /\ \A c \in Customers : WithinOne(Used \cap Of(c))
    BY <1>0 DEF PlacesFit
  <2> QED BY <2>1 DEF Within, WithinOne, Used, CapacityHolds
<1>3. FirstRechargeOnce
  <2> SUFFICES ASSUME NEW p \in Quotes, NEW q \in Quotes, p # q, quote[p].customer = quote[q].customer,
                      rulesSnapshot[p].firstRechargeOnly, rulesSnapshot[q].firstRechargeOnly
               PROVE  redemption[p] \in {"NONE", "EXPIRED", "REVERSED"} \/ redemption[q] \in {"NONE", "EXPIRED", "REVERSED"}
    BY DEF FirstRechargeOnce
  <2>1. p \notin Used \/ q \notin Used
    BY <1>0 DEF PlacesFit, OneFirst
  <2> QED BY <1>0, <2>1 DEF Used, PromotionTypes, Statuses
<1>4. RewardIsEarned
  BY <1>0 DEF RewardIsEarned, QuotesFit, QuoteFits, Live
<1>5. OneRewardPerCustomer
  BY <1>0 DEF RewardsFit, OneReward, OneRewardPerCustomer, Live
<1> QED BY <1>1, <1>2, <1>3, <1>4, <1>5 DEF PromotionsAreSound

(* However staff edits it, a campaign never has more redemptions than the *)
(* rules allowed when one of them was reserved, in all and for one         *)
(* customer, a customer holds one first-recharge benefit at most, and a    *)
(* reward that stands is for a recharge that is delivered and paid, once a *)
(* customer where it is one for a customer: while quotes expire, recharges *)
(* are refunded and staff decide (marketing.ts, marketing-recharge.ts).    *)
THEOREM CampaignsKeepTheirLimits == PromotionSpec => []PromotionsAreSound
<1>1. PromotionInv /\ [PromotionNext]_promotionVars => PromotionInv'
  BY PromotionStep
<1> QED BY <1>1, PromotionStarts, PromotionsStaySound, PTL DEF PromotionSpec

---------------------------------------------------------------------------
(* The sales of a store: the inductive invariant.                          *)

BasisPoints == 0..5000
Shop == [status : {"PENDING", "ACTIVE", "SUSPENDED", "REJECTED"}, rate : BasisPoints, balance : Int]
Reports == {"CREATED", "PROCESSING", "SUCCESSFUL", "FAILED", "REFUNDED"}
SaleWork ==
  [at : {"idle", "revalidate", "authorize", "cancel", "look", "claim", "submit", "recordRejected",
         "recordUnknown", "apply", "settle", "refund", "readTopUp", "findTopUp"},
   sale : Sales \cup {"none"}, found : Reports \cup {"none"}, refreshing : BOOLEAN]

StoreTypes ==
  /\ customer \in {"ACTIVE", "DELETION_PENDING", "DELETED"} /\ store \in Shop
  /\ entries \in [DOMAIN entries -> Int] /\ DOMAIN entries \subseteq References
  /\ journal \in [Books -> Int]
  /\ order \in [Sales -> Order] /\ row \in [Sales -> Row]
  /\ airtime \in [Sales -> Reports \cup {"none"}] /\ sent \in [Sales -> Nat]
  /\ work \in [Handlers -> SaleWork] /\ faults \in 0..MaxFaults

Held == {t \in Sales : order[t].status = "HELD"}

BooksInv ==
  /\ IsFiniteSet(DOMAIN entries) /\ IsFiniteSet(Held)
  /\ store.balance = SumOver(entries, DOMAIN entries)
  /\ store.balance = -journal["BALANCE"]
  /\ journal["HELD"] = -Total * Cardinality(Held)
  /\ store.balance >= 0

NoSubmit(t) == \A h \in Handlers : ~(work[h].at = "submit" /\ work[h].sale = t)

\* No airtime of the sale is with the recipient, nor ever will be.
Settled(t) ==
  \/ airtime[t] \in {"FAILED", "REFUNDED"}
  \/ airtime[t] = "none" /\ NoSubmit(t) /\ (row[t].claimed \/ row[t].payment = "FAILED")

SaleFits(t) ==
  /\ row[t].payment # "NONE" => row[t].status # "NONE"
  /\ order[t].status \in {"HELD", "DELIVERED"} <=> row[t].payment = "CAPTURED"
  /\ order[t].status = "REFUNDED" <=> row[t].payment = "REFUNDED"
  /\ order[t].status # "NONE" => <<"purchase", t>> \in DOMAIN entries
  /\ row[t].claimed => order[t].status # "NONE"
  /\ sent[t] <= 1 /\ (sent[t] > 0 => row[t].claimed) /\ (airtime[t] # "none" => sent[t] > 0)
  /\ row[t].reference => airtime[t] # "none"
  /\ row[t].status \in {"FAILED", "REFUNDED"} \/ order[t].status = "REFUNDED" => Settled(t)

\* What a handler goes by.
WorkFits(l) ==
  /\ l.at # "idle" => l.sale \in Sales
  /\ l.at = "submit" => row[l.sale].claimed /\ airtime[l.sale] = "none" /\ sent[l.sale] = 0
  /\ l.at = "recordRejected" => Settled(l.sale)
  /\ l.at = "apply" => /\ airtime[l.sale] # "none" /\ l.found # "none"
                       /\ l.found \in {"FAILED", "REFUNDED"} => airtime[l.sale] = l.found
  /\ l.at = "readTopUp" => airtime[l.sale] # "none"

OneSubmits ==
  \A g, h \in Handlers : work[g].at = "submit" /\ work[h].at = "submit" /\ work[g].sale = work[h].sale => g = h

SalesFit == (\A t \in Sales : SaleFits(t)) /\ (\A h \in Handlers : WorkFits(work[h])) /\ OneSubmits
StoreInv == StoreTypes /\ BooksInv /\ SalesFit

---------------------------------------------------------------------------
LEMMA StoreFacts ==
  /\ Total \in Nat /\ Total > 0 /\ Fee \in Nat /\ Fee <= Total /\ Amount \in Nat /\ Principal \in Nat /\ MaxFaults \in Nat
  /\ Idle \in SaleWork /\ Idle.at = "idle"
  /\ NoRow \in Row /\ NoRow.payment = "NONE" /\ NoRow.claimed = FALSE /\ NoRow.reference = FALSE /\ NoRow.status = "NONE"
  /\ Reserved \in Row /\ Reserved.payment = "PENDING" /\ Reserved.claimed = FALSE /\ Reserved.reference = FALSE /\ Reserved.status = "PENDING"
  /\ NoOrder \in Order /\ NoOrder.status = "NONE"
  /\ Answers = Reports
  /\ Books = {"BALANCE", "HELD", "FUNDING_CLEARING", "PROVIDER_SETTLEMENT", "FEE_REVENUE"}
<1>1. /\ Total \in Nat /\ Total > 0 /\ Fee \in Nat /\ Fee <= Total /\ Amount \in Nat /\ Principal \in Nat
      /\ MaxFaults \in Nat
  BY StoreAssumption DEF Total
<1>2. Idle \in SaleWork /\ Idle.at = "idle"
  BY DEF Idle, SaleWork
<1>3. /\ NoRow \in Row /\ NoRow.payment = "NONE" /\ NoRow.claimed = FALSE /\ NoRow.reference = FALSE
      /\ NoRow.status = "NONE"
  BY DEF NoRow, Row, RowStatuses, Payments
<1>4. /\ Reserved \in Row /\ Reserved.payment = "PENDING" /\ Reserved.claimed = FALSE
      /\ Reserved.reference = FALSE /\ Reserved.status = "PENDING"
  BY DEF NoRow, Row, RowStatuses, Payments, Reserved
<1>5. NoOrder \in Order /\ NoOrder.status = "NONE"
  BY StoreAssumption DEF NoOrder, Order, Commissions
<1>6. Answers = Reports
  BY DEF Answers, AirtimeNext, Reports
<1> QED BY <1>1, <1>2, <1>3, <1>4, <1>5, <1>6 DEF Books

LEMMA CommissionFits == ASSUME NEW rate \in BasisPoints PROVE storeCommission(rate) \in Commissions
<1>1. Fee \in Nat
  BY StoreAssumption
<1>2. rate \in Nat /\ rate <= 5000
  BY DEF BasisPoints
<1>3. PICK k \in Int : k = Fee * rate
  BY <1>1, <1>2
<1>4. k >= 0 /\ k <= Fee * 5000
  BY <1>1, <1>2, <1>3, SMTT(30)
<1>5. (k + 5000) \div 10000 \in 0..Fee
  BY <1>1, <1>4
<1> QED BY <1>3, <1>5 DEF storeCommission, Commissions

\* The provider's own state of a top-up.
Follows(a, b) == b = a \/ (a \in Reports /\ b \in AirtimeNext[a])

LEMMA AirtimeFollows ==
  ASSUME NEW a, NEW b, Follows(a, b)
  PROVE  /\ b = "none" <=> a = "none"
         /\ a \in {"FAILED", "REFUNDED"} => b = a
         /\ a \in Reports => b \in Reports
BY DEF Follows, AirtimeNext, Reports

\* A sale goes on.
GoesOn(t) ==
  /\ row[t].claimed => row'[t].claimed
  /\ row[t].payment = "FAILED" => row'[t].payment = "FAILED"
  /\ Follows(airtime[t], airtime'[t]) \/ (airtime[t] = "none" /\ ~NoSubmit(t))
  /\ NoSubmit(t) /\ (row[t].claimed \/ row[t].payment = "FAILED") => NoSubmit(t)'

LEMMA SettledStays ==
  ASSUME NEW t, GoesOn(t), Settled(t)
  PROVE  Settled(t)'
<1>1. Follows(airtime[t], airtime'[t])
  BY DEF GoesOn, Settled
<1> QED BY <1>1, AirtimeFollows DEF GoesOn, Settled

LEMMA WorkStays ==
  ASSUME StoreTypes, NEW l, WorkFits(l), l.sale \in Sales => GoesOn(l.sale),
         l.at = "submit" => airtime'[l.sale] = airtime[l.sale] /\ sent'[l.sale] = sent[l.sale]
  PROVE  WorkFits(l)'
<1>1. CASE l.at = "idle"
  BY <1>1 DEF WorkFits
<1>2. CASE l.at # "idle"
  <2>1. l.sale \in Sales /\ GoesOn(l.sale)
    BY <1>2 DEF WorkFits
  <2>2. Settled(l.sale) => Settled(l.sale)'
    BY <2>1, SettledStays
  <2>3. airtime[l.sale] # "none" => airtime'[l.sale] # "none"
    BY <2>1, AirtimeFollows DEF GoesOn
  <2>4. \A a \in {"FAILED", "REFUNDED"} : airtime[l.sale] = a => airtime'[l.sale] = a
    BY <2>1, AirtimeFollows DEF GoesOn
  <2> QED BY <2>1, <2>2, <2>3, <2>4 DEF WorkFits, GoesOn
<1> QED BY <1>1, <1>2

LEMMA SaleStays ==
  ASSUME NEW t, SaleFits(t), GoesOn(t), row'[t] = row[t], order'[t] = order[t], sent'[t] = sent[t],
         airtime'[t] = "none" <=> airtime[t] = "none", DOMAIN entries \subseteq DOMAIN entries'
  PROVE  SaleFits(t)'
BY SettledStays DEF SaleFits

\* A handler goes on, its sale is t.
LEMMA SalesGoOn ==
  ASSUME StoreTypes, SalesFit, NEW t \in Sales, NEW h \in Handlers, NEW l \in SaleWork,
         work' = [work EXCEPT ![h] = l], WorkFits(l)', SaleFits(t)',
         l.sale = t \/ l.at = "idle", l.at = "submit" => NoSubmit(t),
         \A x \in Sales \ {t} : /\ row'[x] = row[x] /\ order'[x] = order[x]
                                /\ sent'[x] = sent[x] /\ airtime'[x] = airtime[x],
         GoesOn(t), 
         \/ NoSubmit(t)
         \/ sent'[t] = sent[t] /\ airtime'[t] = airtime[t]
         \/ work[h].at = "submit" /\ work[h].sale = t,
         DOMAIN entries \subseteq DOMAIN entries'
  PROVE  SalesFit'
<1>1. work'[h] = l /\ \A g \in Handlers \ {h} : work'[g] = work[g]
  BY DEF StoreTypes
<1>2. ASSUME NEW x \in Sales \ {t} PROVE GoesOn(x)
  <2>1. NoSubmit(x) => NoSubmit(x)'
    BY <1>1, <1>2 DEF NoSubmit
  <2> QED BY <1>2, <2>1 DEF GoesOn, Follows
<1>3. \A x \in Sales : SaleFits(x)'
  BY <1>2, SaleStays DEF SalesFit
<1>4. ASSUME NEW g \in Handlers PROVE WorkFits(work[g])'
  <2>1. CASE g = h
    BY <1>1, <2>1 DEF WorkFits, Settled, NoSubmit
  <2>2. CASE g # h
    <3>1. work'[g] = work[g] /\ WorkFits(work[g])
      BY <1>1, <2>2 DEF SalesFit
    <3>2. work[g].sale \in Sales => GoesOn(work[g].sale)
      BY <1>2
    <3>3. work[g].at = "submit" => /\ airtime'[work[g].sale] = airtime[work[g].sale]
                                   /\ sent'[work[g].sale] = sent[work[g].sale]
      BY <2>2, <3>1 DEF SalesFit, OneSubmits, NoSubmit, WorkFits
    <3> DEFINE m == work[g]
    <3>4. PICK k : k = work[g]
      OBVIOUS
    <3>5. WorkFits(k)'
      BY <3>1, <3>2, <3>3, <3>4, WorkStays
    <3> QED BY <3>1, <3>4, <3>5 DEF WorkFits, Settled, NoSubmit
  <2> QED BY <2>1, <2>2
<1>5. OneSubmits'
  BY <1>1 DEF SalesFit, OneSubmits, NoSubmit
<1> QED BY <1>3, <1>4, <1>5 DEF SalesFit

\* Nothing of the sales moves but what surrounds them.
LEMMA SalesRest ==
  ASSUME StoreTypes, SalesFit, UNCHANGED <<row, order, sent, work>>,
         \A t \in Sales : Follows(airtime[t], airtime'[t]),
         DOMAIN entries \subseteq DOMAIN entries'
  PROVE  SalesFit'
<1>1. \A t \in Sales : NoSubmit(t)' <=> NoSubmit(t)
  BY DEF NoSubmit
<1>2. \A t \in Sales : GoesOn(t) /\ (airtime'[t] = "none" <=> airtime[t] = "none")
  BY <1>1, AirtimeFollows DEF GoesOn, Follows
<1>3. \A t \in Sales : SaleFits(t)'
  BY <1>2, SaleStays DEF SalesFit
<1>4. ASSUME NEW g \in Handlers PROVE WorkFits(work[g])'
  <2>1. PICK k : k = work[g]
    OBVIOUS
  <2>2. WorkFits(k) /\ work'[g] = k
    BY <2>1 DEF SalesFit
  <2>3. k.at = "submit" => airtime'[k.sale] = airtime[k.sale]
    <3>1. k.at = "submit" => k.sale \in Sales /\ airtime[k.sale] = "none"
      BY <2>2 DEF WorkFits
    <3> QED BY <3>1 DEF Reports, Follows
  <2>4. WorkFits(k)'
    BY <1>2, <2>2, <2>3, WorkStays
  <2> QED BY <2>2, <2>4 DEF WorkFits, Settled, NoSubmit
<1> QED BY <1>3, <1>4 DEF SalesFit, OneSubmits

---------------------------------------------------------------------------
\* Movements and the journal.
LEMMA MovementIsBooked ==
  ASSUME StoreTypes, BooksInv, NEW reference \in References, NEW cents \in Int,
         NEW s \in Shop, s.balance = store.balance, NEW o, Movement(reference, cents, s, o)
  PROVE  /\ store' \in Shop /\ store'.balance = store.balance + cents
         /\ entries' \in [DOMAIN entries' -> Int] /\ DOMAIN entries' \subseteq References
         /\ DOMAIN entries \subseteq DOMAIN entries' /\ reference \in DOMAIN entries'
         /\ IsFiniteSet(DOMAIN entries')
         /\ store'.balance = SumOver(entries', DOMAIN entries')
         /\ order' = o
<1> DEFINE D == DOMAIN entries
           E == D \cup {reference}
           new == [r \in E |-> IF r = reference THEN cents ELSE entries[r]]
           t == [s EXCEPT !.balance = @ + cents]
<1>1. entries' = new /\ reference \notin D /\ store' = t /\ order' = o
  BY DEF Movement
<1>2. t \in Shop /\ t.balance = store.balance + cents /\ store.balance \in Int
  BY DEF StoreTypes, Shop
<1>3. entries \in [D -> Int] /\ D \subseteq References /\ IsFiniteSet(D)
  BY DEF StoreTypes, BooksInv
<1>4. new \in [E -> Int] /\ DOMAIN new = E /\ new[reference] = cents /\ \A r \in D : new[r] = entries[r]
  BY <1>1, <1>3
<1>5. IsFiniteSet(E)
  BY <1>3, FS_AddElement
<1> HIDE DEF new, D, E, t
<1>6. D \in SUBSET E /\ reference \in E /\ E = D \cup {reference}
  BY DEF E
<1>7. Weights(new, E)
  BY <1>4 DEF Weights
<1>8. SumOver(new, D \cup {reference}) = SumOver(new, D) + new[reference]
  BY <1>1, <1>5, <1>6, <1>7, SumAddElement
<1>9. SumOver(new, D) = SumOver(entries, D)
  BY <1>3, <1>4, SameWeights
<1>10. SumOver(entries, D) = store.balance
  BY DEF BooksInv, D
<1> QED BY <1>1, <1>2, <1>3, <1>4, <1>5, <1>6, <1>8, <1>9, <1>10

LEMMA JournalIsKept ==
  ASSUME StoreTypes, NEW lines, Journal(lines), DOMAIN lines \subseteq Books, \A a \in DOMAIN lines : lines[a] \in Int
  PROVE  /\ journal' \in [Books -> Int]
         /\ \A a \in Books : journal'[a] = IF a \in DOMAIN lines THEN journal[a] + lines[a] ELSE journal[a]
BY DEF StoreTypes, Journal

\* The held account, as the orders on hold change.
LEMMA HeldMore ==
  ASSUME BooksInv, NEW t \in Sales, order[t].status # "HELD", order'[t].status = "HELD",
         \A x \in Sales \ {t} : order'[x] = order[x]
  PROVE  IsFiniteSet(Held') /\ -Total * Cardinality(Held') = -Total * Cardinality(Held) - Total
<1>1. Held' = Held \cup {t} /\ t \notin Held
  BY DEF Held
<1>2. IsFiniteSet(Held)
  BY DEF BooksInv
<1>3. IsFiniteSet(Held') /\ Cardinality(Held') = Cardinality(Held) + 1 /\ Cardinality(Held) \in Nat
  BY <1>1, <1>2, FS_AddElement, FS_CardinalityType
<1>4. PICK n \in Nat : n = Cardinality(Held)
  BY <1>3
<1>5. PICK p \in Nat : p = Total
  BY StoreFacts
<1>6. -p * (n + 1) = -p * n - p
  BY SMTT(30)
<1> QED BY <1>3, <1>4, <1>5, <1>6

LEMMA HeldLess ==
  ASSUME BooksInv, NEW t \in Sales, order[t].status = "HELD", order'[t].status # "HELD",
         \A x \in Sales \ {t} : order'[x] = order[x]
  PROVE  IsFiniteSet(Held') /\ -Total * Cardinality(Held') = -Total * Cardinality(Held) + Total
<1>1. Held' = Held \ {t} /\ t \in Held
  BY DEF Held
<1>2. IsFiniteSet(Held)
  BY DEF BooksInv
<1>3. IsFiniteSet(Held') /\ Cardinality(Held') = Cardinality(Held) - 1 /\ Cardinality(Held) \in Nat /\ Cardinality(Held') \in Nat
  BY <1>1, <1>2, FS_RemoveElement, FS_CardinalityType
<1>4. PICK n \in Nat : n = Cardinality(Held')
  BY <1>3
<1>5. PICK p \in Nat : p = Total
  BY StoreFacts
<1>6. -p * n = -p * (n + 1) + p
  BY SMTT(30)
<1>7. Cardinality(Held) = n + 1
  BY <1>3, <1>4
<1> QED BY <1>3, <1>4, <1>5, <1>6, <1>7

LEMMA BooksRest ==
  ASSUME StoreTypes, BooksInv, UNCHANGED <<entries, journal>>, store'.balance = store.balance,
         \A t \in Sales : order'[t].status = order[t].status
  PROVE  BooksInv'
<1>1. Held' = Held
  BY DEF Held
<1> QED BY <1>1 DEF BooksInv

LEMMA DepositHolds ==
  ASSUME StoreInv, NEW d \in Deposits, ApproveFunding(d)
  PROVE  StoreInv'
<1> DEFINE lines == [FUNDING_CLEARING |-> Amount, BALANCE |-> -Amount]
<1>0. StoreTypes /\ BooksInv /\ SalesFit
  BY DEF StoreInv
<1>1. /\ Movement(<<"deposit", d>>, Amount, store, order) /\ Journal(lines)
      /\ UNCHANGED <<row, work, faults, customer, expired, airtime, sent>>
  BY DEF ApproveFunding, outside
<1>2. <<"deposit", d>> \in References /\ Amount \in Int /\ store \in Shop /\ store.balance \in Int
  BY <1>0, StoreFacts DEF References, StoreTypes, Shop
<1>3. /\ store' \in Shop /\ store'.balance = store.balance + Amount
      /\ entries' \in [DOMAIN entries' -> Int] /\ DOMAIN entries' \subseteq References
      /\ DOMAIN entries \subseteq DOMAIN entries'
      /\ IsFiniteSet(DOMAIN entries')
      /\ store'.balance = SumOver(entries', DOMAIN entries')
      /\ order' = order
  BY <1>0, <1>1, <1>2, MovementIsBooked
<1>4. /\ journal' \in [Books -> Int] /\ journal'["BALANCE"] = journal["BALANCE"] - Amount
      /\ journal'["HELD"] = journal["HELD"]
  <2>1. DOMAIN lines = {"FUNDING_CLEARING", "BALANCE"} /\ lines["FUNDING_CLEARING"] = Amount /\ lines["BALANCE"] = -Amount
    OBVIOUS
  <2> HIDE DEF lines
  <2>2. /\ journal' \in [Books -> Int]
        /\ \A a \in Books : journal'[a] = IF a \in DOMAIN lines THEN journal[a] + lines[a] ELSE journal[a]
    BY <1>0, <1>1, <1>2, <2>1, StoreFacts, JournalIsKept
  <2>3. journal \in [Books -> Int]
    BY <1>0 DEF StoreTypes
  <2> QED BY <1>2, <2>1, <2>2, <2>3, StoreFacts
<1>5. StoreTypes'
  BY <1>0, <1>1, <1>3, <1>4 DEF StoreTypes
<1>6. BooksInv'
  <2>1. Held' = Held
    BY <1>3 DEF Held
  <2>2. journal["BALANCE"] \in Int
    BY <1>0, StoreFacts DEF StoreTypes
  <2> QED BY <1>0, <1>2, <1>3, <1>4, <2>1, <2>2, StoreFacts DEF BooksInv
<1>7. SalesFit'
  <2>1. \A t \in Sales : Follows(airtime[t], airtime'[t])
    BY <1>1 DEF Follows
  <2> QED BY <1>0, <1>1, <1>3, <2>1, SalesRest
<1> QED BY <1>5, <1>6, <1>7 DEF StoreInv

LEMMA ReturnHolds ==
  ASSUME StoreInv, NEW x \in Returns, NEW cents \in {Amount, store.balance}, RecordBalanceReturn(x, cents)
  PROVE  StoreInv'
<1> DEFINE lines == [BALANCE |-> cents, FUNDING_CLEARING |-> -cents]
<1>0. StoreTypes /\ BooksInv /\ SalesFit
  BY DEF StoreInv
<1>1. /\ Movement(<<"return", x>>, -cents, store, order) /\ Journal(lines)
      /\ UNCHANGED <<row, work, faults, customer, expired, airtime, sent>>
      /\ store.balance >= cents
  BY DEF RecordBalanceReturn, outside
<1>2. <<"return", x>> \in References /\ cents \in Int /\ -cents \in Int /\ store \in Shop /\ store.balance \in Int
  BY <1>0, StoreFacts DEF References, StoreTypes, Shop
<1>3. /\ store' \in Shop /\ store'.balance = store.balance + -cents
      /\ entries' \in [DOMAIN entries' -> Int] /\ DOMAIN entries' \subseteq References
      /\ DOMAIN entries \subseteq DOMAIN entries'
      /\ IsFiniteSet(DOMAIN entries')
      /\ store'.balance = SumOver(entries', DOMAIN entries')
      /\ order' = order
  BY <1>0, <1>1, <1>2, MovementIsBooked
<1>4. /\ journal' \in [Books -> Int] /\ journal'["BALANCE"] = journal["BALANCE"] + cents
      /\ journal'["HELD"] = journal["HELD"]
  <2>1. DOMAIN lines = {"FUNDING_CLEARING", "BALANCE"} /\ lines["FUNDING_CLEARING"] = -cents /\ lines["BALANCE"] = cents
    OBVIOUS
  <2> HIDE DEF lines
  <2>a. DOMAIN lines \subseteq Books /\ \A a \in DOMAIN lines : lines[a] \in Int
    BY <1>2, <2>1, StoreFacts
  <2>2. /\ journal' \in [Books -> Int]
        /\ \A a \in Books : journal'[a] = IF a \in DOMAIN lines THEN journal[a] + lines[a] ELSE journal[a]
    BY <1>0, <1>1, <2>a, JournalIsKept
  <2>3. journal \in [Books -> Int]
    BY <1>0 DEF StoreTypes
  <2> QED BY <1>2, <2>1, <2>2, <2>3, StoreFacts
<1>5. StoreTypes'
  BY <1>0, <1>1, <1>3, <1>4 DEF StoreTypes
<1>6. BooksInv'
  <2>1. Held' = Held
    BY <1>3 DEF Held
  <2>2. journal["BALANCE"] \in Int
    BY <1>0, StoreFacts DEF StoreTypes
  <2> QED BY <1>0, <1>1, <1>2, <1>3, <1>4, <2>1, <2>2, StoreFacts DEF BooksInv
<1>7. SalesFit'
  <2>1. \A t \in Sales : Follows(airtime[t], airtime'[t])
    BY <1>1 DEF Follows
  <2> QED BY <1>0, <1>1, <1>3, <2>1, SalesRest
<1> QED BY <1>5, <1>6, <1>7 DEF StoreInv

\* What surrounds the sales.
LEMMA StoreSurroundings ==
  ASSUME StoreInv,
         \/ \E d \in Deposits : RequestFunding(d) \/ RejectFunding(d)
         \/ \E status \in {"ACTIVE", "SUSPENDED"}, rate \in Rates : Review(status, rate)
         \/ RequestDeletion \/ ProcessDeletion
         \/ \E t \in Sales : QuoteExpires(t) \/ AirtimeMoves(t)
         \/ UNCHANGED vars
  PROVE  StoreInv'
<1>0. StoreTypes /\ BooksInv /\ SalesFit
  BY DEF StoreInv
<1>1. UNCHANGED <<entries, journal, order, row, sent, work, faults>>
  BY DEF RequestFunding, RejectFunding, Review, RequestDeletion, ProcessDeletion, QuoteExpires, AirtimeMoves,
         vars, outside, money
<1>2. customer' \in {"ACTIVE", "DELETION_PENDING", "DELETED"}
  BY <1>0 DEF RequestFunding, RejectFunding, Review, RequestDeletion, ProcessDeletion, QuoteExpires, AirtimeMoves,
         vars, outside, StoreTypes
<1>3. store' \in Shop /\ store'.balance = store.balance
  <2>1. store \in Shop /\ Rates \subseteq BasisPoints
    BY <1>0, StoreAssumption DEF StoreTypes, BasisPoints
  <2>2. ASSUME NEW x \in {"ACTIVE", "SUSPENDED"}, NEW y \in BasisPoints
        PROVE  /\ [store EXCEPT !.status = x, !.rate = y] \in Shop
               /\ [store EXCEPT !.status = x, !.rate = y].balance = store.balance
    BY <2>1 DEF Shop
  <2>3. LET s == [store EXCEPT !.status = "SUSPENDED"] IN s \in Shop /\ s.balance = store.balance
    BY <2>1 DEF Shop
  <2>4. ASSUME NEW x \in {"ACTIVE", "SUSPENDED"}, NEW y \in Rates, Review(x, y)
        PROVE  store' \in Shop /\ store'.balance = store.balance
    <3>1. y \in BasisPoints /\ store' = [store EXCEPT !.status = x, !.rate = y]
      BY <2>1, <2>4 DEF Review
    <3> QED BY <2>2, <3>1
  <2>5. CASE RequestDeletion \/ ProcessDeletion
    BY <2>3, <2>5 DEF RequestDeletion, ProcessDeletion
  <2>6. CASE store' = store
    BY <2>1, <2>6
  <2> QED BY <2>4, <2>5, <2>6 DEF RequestFunding, RejectFunding, QuoteExpires, AirtimeMoves, vars, money
<1>4. \A t \in Sales : Follows(airtime[t], airtime'[t])
  <2>1. CASE \E t \in Sales : AirtimeMoves(t)
    BY <1>0, <2>1 DEF AirtimeMoves, StoreTypes, Follows
  <2>2. CASE airtime' = airtime
    BY <2>2 DEF Follows
  <2> QED BY <2>1, <2>2 DEF RequestFunding, RejectFunding, Review, RequestDeletion, ProcessDeletion, QuoteExpires,
         vars, outside
<1>5. airtime' \in [Sales -> Reports \cup {"none"}]
  <2>1. CASE \E t \in Sales : AirtimeMoves(t)
    <3>1. PICK t \in Sales : AirtimeMoves(t)
      BY <2>1
    <3>2. PICK a \in AirtimeNext[airtime[t]] : airtime' = [airtime EXCEPT ![t] = a]
      BY <3>1 DEF AirtimeMoves
    <3>3. airtime[t] \in Reports
      BY <1>0, <3>1 DEF AirtimeMoves, StoreTypes
    <3>4. a \in Reports
      BY <3>2, <3>3, AirtimeFollows DEF Follows
    <3> QED BY <1>0, <3>2, <3>4 DEF StoreTypes
  <2>2. CASE airtime' = airtime
    BY <1>0, <2>2 DEF StoreTypes
  <2> QED BY <2>1, <2>2 DEF RequestFunding, RejectFunding, Review, RequestDeletion, ProcessDeletion, QuoteExpires,
         vars, outside
<1>6. StoreTypes'
  BY <1>0, <1>1, <1>2, <1>3, <1>5 DEF StoreTypes
<1>7. BooksInv'
  BY <1>0, <1>1, <1>3, BooksRest
<1>8. SalesFit'
  BY <1>0, <1>1, <1>4, SalesRest
<1> QED BY <1>6, <1>7, <1>8 DEF StoreInv

---------------------------------------------------------------------------
\* Where a handler goes by its sale alone.
Plain == {"idle", "revalidate", "authorize", "cancel", "look", "claim", "recordUnknown", "settle", "refund", "findTopUp"}

\* A handler goes on and nothing else moves.
LEMMA HandlerMoves ==
  ASSUME StoreInv, NEW h \in Handlers, NEW t \in Sales, NEW l \in SaleWork, work' = [work EXCEPT ![h] = l],
         UNCHANGED <<money, row, outside>>, faults' \in 0..MaxFaults, WorkFits(l),
         l.sale = t \/ l.at = "idle", l.at # "submit"
  PROVE  StoreInv'
<1>0. StoreTypes /\ BooksInv /\ SalesFit
  BY DEF StoreInv
<1>1. UNCHANGED <<store, entries, journal, order, customer, airtime, sent, row>>
  BY DEF money, outside
<1>2. work'[h] = l /\ \A g \in Handlers \ {h} : work'[g] = work[g]
  BY <1>0 DEF StoreTypes
<1>3. \A x \in Sales : GoesOn(x)
  BY <1>1, <1>2 DEF GoesOn, Follows, NoSubmit
<1>4. WorkFits(l)'
  BY <1>0, <1>3, WorkStays
<1>5. SaleFits(t)'
  BY <1>0, <1>1, <1>3, SaleStays DEF SalesFit
<1>6. SalesFit'
  BY <1>0, <1>1, <1>3, <1>4, <1>5, SalesGoOn
<1>7. StoreTypes' /\ BooksInv'
  BY <1>0, <1>1, BooksRest DEF StoreTypes
<1> QED BY <1>6, <1>7 DEF StoreInv

\* The same, to a place that asks nothing.
LEMMA HandlerGoes ==
  ASSUME StoreInv, NEW h \in Handlers, work[h].at # "idle", NEW at \in Plain,
         Goto(h, at) \/ Finish(h), UNCHANGED <<money, row, outside>>, faults' \in 0..MaxFaults
  PROVE  StoreInv'
<1>1. work[h] \in SaleWork /\ work[h].sale \in Sales
  BY DEF StoreInv, StoreTypes, SalesFit, WorkFits
<1>2. CASE Finish(h)
  <2>1. WorkFits(Idle)
    BY StoreFacts DEF WorkFits
  <2> QED BY <1>1, <1>2, <2>1, StoreFacts, HandlerMoves DEF Finish
<1>3. CASE Goto(h, at)
  <2> DEFINE l == [work[h] EXCEPT !.at = at]
  <2>1. l \in SaleWork /\ l.at = at /\ l.sale = work[h].sale
    BY <1>1 DEF SaleWork, Plain
  <2>2. work' = [work EXCEPT ![h] = l]
    BY <1>3 DEF Goto
  <2> HIDE DEF l
  <2>3. WorkFits(l)
    BY <1>1, <2>1 DEF WorkFits, Plain
  <2> QED BY <1>1, <2>1, <2>2, <2>3, HandlerMoves DEF Plain
<1> QED BY <1>2, <1>3

\* A handler begins with a sale.
LEMMA HandlerStarts ==
  ASSUME StoreInv, NEW h \in Handlers, NEW t \in Sales, NEW l \in SaleWork, l.sale = t,
         l.at \in Plain \cup {"readTopUp"}, l.at = "readTopUp" => airtime[t] # "none",
         work' = [work EXCEPT ![h] = l], UNCHANGED <<money, row, outside, faults>>
  PROVE  StoreInv'
<1>1. WorkFits(l)
  BY DEF WorkFits, Plain
<1>2. faults' \in 0..MaxFaults /\ l.at # "submit"
  BY DEF StoreInv, StoreTypes, Plain
<1> QED BY <1>1, <1>2, HandlerMoves

\* The step an idle handler finds is never one that waits for an answer.
LEMMA RefreshHolds ==
  ASSUME StoreInv, NEW h \in Handlers, NEW t \in Sales, NEW worker, Refresh(h, t, worker)
  PROVE  StoreInv'
<1> DEFINE at == RefreshStep(row[t], t, worker)
           l == [Idle EXCEPT !.at = at, !.sale = t, !.refreshing = TRUE]
<1>1. at \in {"cancel", "refund", "settle", "claim", "readTopUp", "findTopUp", "idle"}
  BY DEF RefreshStep
<1>2. at = "readTopUp" => row[t].reference
  BY DEF RefreshStep
<1>3. SaleFits(t)
  BY DEF StoreInv, SalesFit
<1>4. work' = [work EXCEPT ![h] = l] /\ UNCHANGED <<money, row, outside, faults>>
  BY DEF Refresh
<1> HIDE DEF at
<1>5. l \in SaleWork /\ l.at = at /\ l.sale = t
  BY <1>1 DEF Idle, SaleWork
<1> HIDE DEF l
<1> QED BY <1>1, <1>2, <1>3, <1>4, <1>5, HandlerStarts DEF SaleFits, Plain

LEMMA StopHolds ==
  ASSUME StoreInv, NEW h \in Handlers, Stop(h)
  PROVE  StoreInv'
<1>1. work[h].at # "idle" \/ work[h].at = "idle"
  OBVIOUS
<1>2. faults' \in 0..MaxFaults /\ Finish(h) /\ UNCHANGED <<money, row, outside>>
  BY StoreFacts DEF Stop, Fault, StoreInv, StoreTypes
<1>3. CASE work[h].at # "idle"
  <2>1. "idle" \in Plain
    BY DEF Plain
  <2> QED BY <1>2, <1>3, <2>1, HandlerGoes
<1>4. CASE work[h].at = "idle"
  <2>0. StoreTypes /\ BooksInv /\ SalesFit
    BY DEF StoreInv
  <2>1. UNCHANGED <<store, entries, journal, order, customer, airtime, sent, row>>
    BY <1>2 DEF money, outside
  <2>2. work'[h] = Idle /\ \A g \in Handlers \ {h} : work'[g] = work[g]
    BY <1>2, <2>0 DEF StoreTypes, Finish
  <2>3. \A x \in Sales : NoSubmit(x)' <=> NoSubmit(x)
    BY <1>4, <2>2, StoreFacts DEF NoSubmit
  <2>4. \A x \in Sales : SaleFits(x)'
    BY <2>0, <2>1, <2>3 DEF SalesFit, SaleFits, Settled
  <2>5. \A g \in Handlers : WorkFits(work[g])'
    BY <2>0, <2>1, <2>2, <2>3, StoreFacts DEF SalesFit, WorkFits, Settled
  <2>6. OneSubmits'
    BY <2>0, <2>2, StoreFacts DEF SalesFit, OneSubmits
  <2>7. StoreTypes' /\ BooksInv'
    <3>1. work' \in [Handlers -> SaleWork]
      BY <1>2, <2>0, StoreFacts DEF StoreTypes, Finish
    <3> QED BY <1>2, <2>0, <2>1, <3>1, BooksRest DEF StoreTypes
  <2> QED BY <2>4, <2>5, <2>6, <2>7 DEF StoreInv, SalesFit
<1> QED BY <1>3, <1>4

\* The steps that only look.
LEMMA LooksHold ==
  ASSUME StoreInv, NEW h \in Handlers,
         \/ Revalidate(h) \/ NotAuthorized(h) \/ Look(h) \/ NotRefunded(h)
         \/ ClaimFulfillment(h) /\ ~Claimable(row[work[h].sale])
         \/ FindTopUp(h) /\ airtime[work[h].sale] = "none"
  PROVE  StoreInv'
<1>1. work[h].at # "idle" /\ UNCHANGED <<money, row, outside>>
  BY DEF Revalidate, NotAuthorized, Look, NotRefunded, ClaimFulfillment, FindTopUp
<1>2. faults' \in 0..MaxFaults
  BY StoreFacts DEF Revalidate, NotAuthorized, Look, NotRefunded, ClaimFulfillment, FindTopUp, Fault, StoreInv, StoreTypes
<1>3. Finish(h) \/ \E at \in Plain : Goto(h, at)
  BY DEF Revalidate, NotAuthorized, Look, NotRefunded, ClaimFulfillment, FindTopUp, Plain
<1>4. "idle" \in Plain
  BY DEF Plain
<1> QED BY <1>1, <1>2, <1>3, <1>4, HandlerGoes

\* The provider's answers.
LEMMA AnswersHold ==
  ASSUME StoreInv, NEW h \in Handlers, ReadTopUp(h) \/ (FindTopUp(h) /\ airtime[work[h].sale] # "none")
  PROVE  StoreInv'
<1>0. StoreTypes /\ SalesFit /\ work[h] \in SaleWork /\ WorkFits(work[h])
  BY DEF StoreInv, StoreTypes, SalesFit
<1>1. /\ Found(h, airtime[work[h].sale]) /\ airtime[work[h].sale] # "none" /\ work[h].sale \in Sales
      /\ UNCHANGED <<money, row, outside, faults>>
  BY <1>0 DEF ReadTopUp, FindTopUp, WorkFits
<1>2. PICK a \in Reports : a = airtime[work[h].sale]
  BY <1>0, <1>1 DEF StoreTypes
<1> DEFINE l == [work[h] EXCEPT !.at = "apply", !.found = a]
<1>3. l \in SaleWork /\ l.at = "apply" /\ l.sale = work[h].sale /\ l.found = a
  BY <1>0 DEF SaleWork
<1>4. work' = [work EXCEPT ![h] = l]
  BY <1>1, <1>2 DEF Found
<1> HIDE DEF l
<1>5. WorkFits(l)
  BY <1>1, <1>2, <1>3 DEF WorkFits, Reports
<1>6. faults' \in 0..MaxFaults
  BY <1>0, <1>1 DEF StoreTypes
<1> QED BY <1>1, <1>3, <1>4, <1>5, <1>6, HandlerMoves

LEMMA NotDeliveredHolds ==
  ASSUME StoreInv, NEW h \in Handlers, NotDelivered(h)
  PROVE  StoreInv'
<1>0. StoreTypes /\ SalesFit /\ work[h] \in SaleWork /\ WorkFits(work[h])
  BY DEF StoreInv, StoreTypes, SalesFit
<1>1. /\ UNCHANGED <<money, row, outside, faults>> /\ work[h].at = "settle" /\ work[h].sale \in Sales
      /\ Finish(h) \/ (row[work[h].sale].reference /\ Goto(h, "readTopUp"))
  BY <1>0 DEF NotDelivered, AfterSettlement, WorkFits
<1>2. faults' \in 0..MaxFaults /\ "idle" \in Plain
  BY <1>0, <1>1 DEF StoreTypes, Plain
<1>3. CASE Finish(h)
  BY <1>1, <1>2, <1>3, HandlerGoes
<1>4. CASE row[work[h].sale].reference /\ Goto(h, "readTopUp")
  <2> DEFINE l == [work[h] EXCEPT !.at = "readTopUp"]
  <2>1. l \in SaleWork /\ l.at = "readTopUp" /\ l.sale = work[h].sale
    BY <1>0 DEF SaleWork
  <2>2. work' = [work EXCEPT ![h] = l]
    BY <1>4 DEF Goto
  <2>3. airtime[work[h].sale] # "none"
    BY <1>0, <1>1, <1>4 DEF SalesFit, SaleFits
  <2> HIDE DEF l
  <2> QED BY <1>1, <2>1, <2>2, <2>3, HandlerStarts
<1> QED BY <1>1, <1>3, <1>4

---------------------------------------------------------------------------
\* The row of a sale is written.
LEMMA RowIsWritten ==
  ASSUME StoreInv, NEW h \in Handlers, NEW t \in Sales, NEW l \in SaleWork, NEW r \in Row,
         work' = [work EXCEPT ![h] = l], row' = [row EXCEPT ![t] = r], UNCHANGED <<money, outside, faults>>,
         row[t].claimed => r.claimed, row[t].payment = "FAILED" => r.payment = "FAILED",
         r.payment = row[t].payment \/ (order[t].status = "NONE" /\ r.payment \in {"PENDING", "FAILED"}),
         r.status # "NONE", r.claimed => order[t].status # "NONE", r.reference => airtime[t] # "none",
         r.status \in {"FAILED", "REFUNDED"} =>
           Settled(t) \/ (r.payment = "FAILED" /\ airtime[t] = "none" /\ NoSubmit(t)),
         l.sale = t \/ l.at = "idle", l.at \in Plain \cup {"submit"},
         l.at = "submit" => /\ NoSubmit(t) /\ r.claimed /\ airtime[t] = "none" /\ sent[t] = 0
                            /\ ~row[t].claimed /\ r.status = "PENDING" /\ row[t].payment # "FAILED"
  PROVE  StoreInv'
<1>0. StoreTypes /\ BooksInv /\ SalesFit
  BY DEF StoreInv
<1>1. UNCHANGED <<store, entries, journal, order, customer, airtime, sent>>
  BY DEF money, outside
<1>2. work'[h] = l /\ \A g \in Handlers \ {h} : work'[g] = work[g]
  BY <1>0 DEF StoreTypes
<1>3. row'[t] = r /\ \A x \in Sales \ {t} : row'[x] = row[x]
  BY <1>0 DEF StoreTypes
<1>4. GoesOn(t)
  BY <1>1, <1>2, <1>3 DEF GoesOn, Follows, NoSubmit, Plain
<1>5. l.at # "submit" => (NoSubmit(t) => NoSubmit(t)')
  BY <1>2 DEF NoSubmit
<1>6. SaleFits(t)'
  <2>1. SaleFits(t)
    BY <1>0 DEF SalesFit
  <2>2. Settled(t) => Settled(t)'
    BY <1>4, SettledStays
  <2>3. r.status \in {"FAILED", "REFUNDED"} => Settled(t)'
    <3>1. l.at = "submit" => r.status = "PENDING"
      OBVIOUS
    <3> QED BY <1>1, <1>3, <1>5, <2>2, <3>1 DEF Settled
  <2>4. order[t].status = "REFUNDED" => Settled(t)'
    BY <2>1, <2>2 DEF SaleFits
  <2> QED BY <1>1, <1>3, <2>1, <2>3, <2>4 DEF SaleFits
<1>7. WorkFits(l)'
  BY <1>1, <1>3 DEF WorkFits, Plain
<1>8. SalesFit'
  BY <1>0, <1>1, <1>3, <1>4, <1>6, <1>7, SalesGoOn
<1>9. StoreTypes' /\ BooksInv'
  BY <1>0, <1>1, BooksRest DEF StoreTypes
<1> QED BY <1>8, <1>9 DEF StoreInv

---------------------------------------------------------------------------
LEMMA PurchaseHolds ==
  ASSUME StoreInv, NEW h \in Handlers, NEW t \in Sales, Purchase(h, t)
  PROVE  StoreInv'
<1>0. StoreTypes /\ SaleFits(t)
  BY DEF StoreInv, SalesFit
<1>1. PICK at \in {"revalidate", "authorize"} :
        /\ Start(h, t, at) /\ UNCHANGED <<money, outside, faults>>
        /\ row' = row \/ (row[t] = NoRow /\ row' = [row EXCEPT ![t] = Reserved])
  BY DEF Purchase
<1> DEFINE l == [Idle EXCEPT !.at = at, !.sale = t]
<1>2. l \in SaleWork /\ l.at = at /\ l.sale = t
  BY DEF Idle, SaleWork
<1>3. work' = [work EXCEPT ![h] = l]
  BY <1>1 DEF Start
<1> HIDE DEF l
<1>4. CASE row' = row
  BY <1>1, <1>2, <1>3, <1>4, HandlerStarts DEF Plain
<1>5. CASE row[t] = NoRow /\ row' = [row EXCEPT ![t] = Reserved]
  <2>1. order[t].status = "NONE"
    BY <1>0, <1>5, StoreFacts DEF SaleFits, StoreTypes, Order
  <2>2. at \in Plain
    BY DEF Plain
  <2> QED BY <1>1, <1>2, <1>3, <1>5, <2>1, <2>2, StoreFacts, RowIsWritten DEF Plain
<1> QED BY <1>1, <1>4, <1>5

\* The work of a handler with a sale, and where it goes.
LEMMA AtWork ==
  ASSUME StoreInv, NEW h \in Handlers, work[h].at # "idle"
  PROVE  work[h] \in SaleWork /\ work[h].sale \in Sales /\ SaleFits(work[h].sale) /\ WorkFits(work[h])
         /\ row[work[h].sale] \in Row /\ order[work[h].sale] \in Order
BY DEF StoreInv, StoreTypes, SalesFit, WorkFits

LEMMA GoesTo ==
  ASSUME NEW h, work[h] \in SaleWork, NEW at \in Plain \cup {"submit", "readTopUp", "recordRejected"}, Goto(h, at)
  PROVE  \E l \in SaleWork : l.at = at /\ l.sale = work[h].sale /\ work' = [work EXCEPT ![h] = l]
<1> DEFINE l == [work[h] EXCEPT !.at = at]
<1>1. l \in SaleWork /\ l.at = at /\ l.sale = work[h].sale
  BY DEF SaleWork, Plain
<1> QED BY <1>1 DEF Goto

LEMMA GoesOrEnds ==
  ASSUME NEW h, work[h] \in SaleWork, NEW at \in Plain, Goto(h, at) \/ Finish(h)
  PROVE  \E l \in SaleWork : /\ l.at \in {at, "idle"} /\ (l.sale = work[h].sale \/ l.at = "idle")
                             /\ work' = [work EXCEPT ![h] = l]
BY GoesTo, StoreFacts DEF Finish

LEMMA CancelHolds ==
  ASSUME StoreInv, NEW h \in Handlers, Cancel(h)
  PROVE  StoreInv'
<1> DEFINE t == work[h].sale
<1>1. work[h].at = "cancel" /\ Finish(h) /\ UNCHANGED <<money, faults, outside>>
  BY DEF Cancel
<1>2. t \in Sales /\ SaleFits(t) /\ row[t] \in Row /\ order[t] \in Order /\ work[h] \in SaleWork
  BY <1>1, AtWork
<1>3. CASE ~Abandoned(row[t])
  <2>1. "idle" \in Plain /\ UNCHANGED <<row>> /\ faults' \in 0..MaxFaults
    BY <1>1, <1>3 DEF Plain, Cancel, StoreInv, StoreTypes
  <2> QED BY <1>1, <2>1, HandlerGoes
<1>4. CASE Abandoned(row[t])
  <2> DEFINE r == [row[t] EXCEPT !.status = "FAILED", !.payment = "FAILED"]
  <2>1. r \in Row /\ r.status = "FAILED" /\ r.payment = "FAILED" /\ r.claimed = row[t].claimed /\ r.reference = row[t].reference
    BY <1>2 DEF Row, RowStatuses, Payments
  <2>2. row' = [row EXCEPT ![t] = r]
    BY <1>4 DEF Cancel
  <2>3. row[t].payment = "PENDING" /\ ~row[t].claimed /\ ~row[t].reference
    BY <1>4 DEF Abandoned
  <2>4. order[t].status = "NONE" /\ airtime[t] = "none"
    BY <1>2, <2>3 DEF SaleFits, StoreInv, StoreTypes, Order
  <2>5. NoSubmit(t)
    BY <2>3 DEF NoSubmit, StoreInv, SalesFit, WorkFits
  <2> HIDE DEF r
  <2>6. work' = [work EXCEPT ![h] = Idle]
    BY <1>1 DEF Finish
  <2> HIDE DEF t
  <2> QED BY <1>1, <1>2, <2>1, <2>2, <2>3, <2>4, <2>5, <2>6, StoreFacts, RowIsWritten DEF Plain
<1> QED BY <1>3, <1>4

LEMMA ClaimHolds ==
  ASSUME StoreInv, NEW h \in Handlers, ClaimFulfillment(h), Claimable(row[work[h].sale])
  PROVE  StoreInv'
<1> DEFINE t == work[h].sale
           r == [row[t] EXCEPT !.claimed = TRUE]
<1>1. work[h].at = "claim" /\ Goto(h, "submit") /\ UNCHANGED <<money, faults, outside>> /\ row' = [row EXCEPT ![t] = r]
  BY DEF ClaimFulfillment
<1>2. t \in Sales /\ SaleFits(t) /\ row[t] \in Row /\ order[t] \in Order /\ work[h] \in SaleWork
  BY <1>1, AtWork
<1>3. r \in Row /\ r.status = row[t].status /\ r.payment = row[t].payment /\ r.claimed /\ r.reference = row[t].reference
  BY <1>2 DEF Row
<1>4. row[t].status = "PENDING" /\ row[t].payment = "CAPTURED" /\ ~row[t].claimed /\ ~row[t].reference
  BY DEF Claimable
<1>5. order[t].status # "NONE" /\ airtime[t] = "none" /\ sent[t] = 0
  BY <1>2, <1>4 DEF SaleFits, StoreInv, StoreTypes
<1>6. NoSubmit(t)
  BY <1>4 DEF NoSubmit, StoreInv, SalesFit, WorkFits
<1>7. PICK l \in SaleWork : l.at = "submit" /\ l.sale = t /\ work' = [work EXCEPT ![h] = l]
  BY <1>1, <1>2, GoesTo
<1>8. row' = [row EXCEPT ![t] = r] /\ UNCHANGED <<money, outside, faults>>
  BY <1>1
<1>9. r.status = "PENDING" /\ r.payment = row[t].payment /\ ~r.reference /\ r.claimed
  BY <1>3, <1>4
<1>10. l.at \in Plain \cup {"submit"}
  BY <1>7
<1> HIDE DEF r, t
<1> QED BY <1>2, <1>3, <1>4, <1>5, <1>6, <1>7, <1>8, <1>9, <1>10, RowIsWritten

LEMMA RecordHolds ==
  ASSUME StoreInv, NEW h \in Handlers, RecordRejected(h) \/ RecordUnknown(h)
  PROVE  StoreInv'
<1> DEFINE t == work[h].sale
<1>0. work[h].at \in {"recordRejected", "recordUnknown"} /\ UNCHANGED <<money, faults, outside>>
  BY DEF RecordRejected, RecordUnknown
<1>1. t \in Sales /\ SaleFits(t) /\ row[t] \in Row /\ order[t] \in Order /\ work[h] \in SaleWork /\ WorkFits(work[h])
  BY <1>0, AtWork
<1>2. CASE RecordRejected(h)
  <2> DEFINE r == [row[t] EXCEPT !.status = "FAILED"]
  <2>1. r \in Row /\ r.status = "FAILED" /\ r.payment = row[t].payment /\ r.claimed = row[t].claimed /\ r.reference = row[t].reference
    BY <1>1 DEF Row, RowStatuses
  <2>2. row' = [row EXCEPT ![t] = r] /\ Goto(h, "refund")
    BY <1>2 DEF RecordRejected
  <2>3. Settled(t)
    BY <1>1, <1>2 DEF RecordRejected, WorkFits
  <2>4. PICK l \in SaleWork : l.at = "refund" /\ l.sale = t /\ work' = [work EXCEPT ![h] = l]
    BY <1>1, <2>2, GoesTo DEF Plain
  <2> HIDE DEF r, t
  <2> QED BY <1>0, <1>1, <2>1, <2>2, <2>3, <2>4, RowIsWritten DEF Plain, SaleFits
<1>3. CASE RecordUnknown(h)
  <2> DEFINE r == [row[t] EXCEPT !.status = "PROCESSING", !.unknown = TRUE]
  <2>1. r \in Row /\ r.status = "PROCESSING" /\ r.payment = row[t].payment /\ r.claimed = row[t].claimed /\ r.reference = row[t].reference
    BY <1>1 DEF Row, RowStatuses
  <2>2. row' = [row EXCEPT ![t] = r] /\ work' = [work EXCEPT ![h] = Idle]
    BY <1>3 DEF RecordUnknown, Finish
  <2> HIDE DEF r, t
  <2> QED BY <1>0, <1>1, <2>1, <2>2, StoreFacts, RowIsWritten DEF Plain, SaleFits
<1> QED BY <1>2, <1>3

LEMMA ApplyHolds ==
  ASSUME StoreInv, NEW h \in Handlers, Apply(h)
  PROVE  StoreInv'
<1>0. /\ work[h].at = "apply" /\ UNCHANGED <<money, faults, outside>>
  BY DEF Apply
<1>1. PICK t \in Sales : t = work[h].sale
  BY <1>0, AtWork
<1>2. SaleFits(t) /\ row[t] \in Row /\ order[t] \in Order /\ work[h] \in SaleWork /\ WorkFits(work[h])
  BY <1>0, <1>1, AtWork
<1>3. PICK status : status = mapProviderStatus(work[h].found)
  OBVIOUS
<1>4. /\ work[h].found \in Reports /\ status \in {"PENDING", "PROCESSING", "DELIVERED", "FAILED", "REFUNDED"}
      /\ status \in {"FAILED", "REFUNDED"} => work[h].found = status
  BY <1>0, <1>2, <1>3 DEF WorkFits, SaleWork, mapProviderStatus, Reports
<1>5. airtime[t] # "none" /\ (status \in {"FAILED", "REFUNDED"} => airtime[t] = status)
  BY <1>0, <1>1, <1>2, <1>4 DEF WorkFits
<1>6. PICK r : r = Applied(row[t], status)
  OBVIOUS
<1>7. /\ r \in Row /\ r.payment = row[t].payment /\ r.claimed = row[t].claimed
      /\ r.status \in {row[t].status, status}
  <2>1. [row[t] EXCEPT !.status = status, !.delivered = TRUE, !.reference = TRUE] \in Row
    BY <1>2, <1>4 DEF Row, RowStatuses
  <2>2. [row[t] EXCEPT !.status = status, !.reference = TRUE] \in Row
    BY <1>2, <1>4 DEF Row, RowStatuses
  <2>3. r \in {row[t], [row[t] EXCEPT !.status = status, !.delivered = TRUE, !.reference = TRUE],
               [row[t] EXCEPT !.status = status, !.reference = TRUE]}
    BY <1>6 DEF Applied
  <2> QED BY <1>2, <2>1, <2>2, <2>3 DEF Row
<1>8. row' = [row EXCEPT ![t] = r]
  BY <1>1, <1>3, <1>6 DEF Apply
<1>9. \E at \in Plain : Goto(h, at) \/ Finish(h)
  BY DEF Apply, Plain
<1>10. PICK l \in SaleWork : /\ l.at \in Plain /\ (l.sale = t \/ l.at = "idle")
                             /\ work' = [work EXCEPT ![h] = l]
  BY <1>1, <1>2, <1>9, GoesOrEnds DEF Plain
<1>11. r.status = row[t].status \/ Settled(t) \/ r.status \notin {"FAILED", "REFUNDED"}
  BY <1>5, <1>7 DEF Settled
<1>12. r.status # "NONE"
  <2>1. row[t].status # "NONE"
    BY <1>2, <1>5 DEF SaleFits, StoreInv, StoreTypes, Order
  <2> QED BY <1>4, <1>7, <2>1
<1>13. r.status \in {"FAILED", "REFUNDED"} => Settled(t)
  BY <1>2, <1>11 DEF SaleFits
<1>14. /\ r.claimed => order[t].status # "NONE"
       /\ l.at # "submit"
  BY <1>2, <1>7, <1>10 DEF SaleFits, Plain
<1> QED BY <1>0, <1>5, <1>7, <1>8, <1>10, <1>12, <1>13, <1>14, RowIsWritten

LEMMA SubmitHolds ==
  ASSUME StoreInv, NEW h \in Handlers, SubmitTopUp(h)
  PROVE  StoreInv'
<1>0. work[h].at = "submit" /\ UNCHANGED <<money, row, customer, expired>>
  BY DEF SubmitTopUp
<1>1. PICK t \in Sales : t = work[h].sale
  BY <1>0, AtWork
<1>2. SaleFits(t) /\ row[t] \in Row /\ order[t] \in Order /\ work[h] \in SaleWork /\ WorkFits(work[h])
  BY <1>0, <1>1, AtWork
<1>3. row[t].claimed /\ airtime[t] = "none" /\ sent[t] = 0
  BY <1>0, <1>1, <1>2 DEF WorkFits
<1>4. StoreTypes /\ BooksInv /\ SalesFit
  BY DEF StoreInv
<1>5. \A g \in Handlers \ {h} : ~(work[g].at = "submit" /\ work[g].sale = t)
  BY <1>0, <1>1, <1>4 DEF SalesFit, OneSubmits
<1>6. faults' \in 0..MaxFaults
  BY <1>4, StoreFacts DEF SubmitTopUp, Fault, StoreTypes
<1>7. CASE UNCHANGED <<airtime, sent>> /\ \E at \in {"recordRejected", "recordUnknown"} : Goto(h, at)
  <2>1. PICK at \in {"recordRejected", "recordUnknown"}, l \in SaleWork :
          l.at = at /\ l.sale = t /\ work' = [work EXCEPT ![h] = l]
    BY <1>1, <1>2, <1>7, GoesTo DEF Plain
  <2>2. work'[h] = l /\ \A g \in Handlers \ {h} : work'[g] = work[g]
    BY <1>4, <2>1 DEF StoreTypes
  <2>3. NoSubmit(t)'
    BY <1>5, <2>1, <2>2 DEF NoSubmit
  <2>4. GoesOn(t)
    BY <1>0, <1>7, <2>3 DEF GoesOn, Follows
  <2>5. SaleFits(t)'
    BY <1>0, <1>2, <1>7, <2>4, SaleStays DEF money
  <2>6. WorkFits(l)'
    BY <1>0, <1>3, <1>7, <2>1, <2>3 DEF WorkFits, Settled
  <2>7. SalesFit'
    BY <1>0, <1>1, <1>4, <1>7, <2>1, <2>4, <2>5, <2>6, SalesGoOn DEF money
  <2>8. StoreTypes' /\ BooksInv'
    BY <1>0, <1>4, <1>6, <1>7, <2>1, BooksRest DEF StoreTypes, money
  <2> QED BY <2>7, <2>8 DEF StoreInv
<1>8. ASSUME NEW a \in {"PROCESSING", "SUCCESSFUL", "FAILED", "CREATED"},
             airtime' = [airtime EXCEPT ![t] = a], sent' = [sent EXCEPT ![t] = @ + 1],
             Found(h, a) \/ Goto(h, "recordUnknown")
      PROVE  StoreInv'
  <2>1. PICK l \in SaleWork : /\ l.at \in {"apply", "recordUnknown"} /\ l.sale = t
                              /\ l.at = "apply" => l.found = a
                              /\ work' = [work EXCEPT ![h] = l]
    <3>1. CASE Goto(h, "recordUnknown")
      BY <1>1, <1>2, <3>1, GoesTo DEF Plain
    <3>2. CASE Found(h, a)
      <4> DEFINE l == [work[h] EXCEPT !.at = "apply", !.found = a]
      <4>1. l \in SaleWork /\ l.at = "apply" /\ l.sale = t /\ l.found = a
        BY <1>1, <1>2 DEF SaleWork, Reports
      <4>2. work' = [work EXCEPT ![h] = l]
        BY <3>2 DEF Found
      <4> HIDE DEF l
      <4> QED BY <4>1, <4>2
    <3> QED BY <1>8, <3>1, <3>2
  <2>2. work'[h] = l /\ \A g \in Handlers \ {h} : work'[g] = work[g]
    BY <1>4, <2>1 DEF StoreTypes
  <2>3. NoSubmit(t)' /\ ~NoSubmit(t)
    BY <1>0, <1>1, <1>5, <2>1, <2>2 DEF NoSubmit
  <2>4. airtime'[t] = a /\ sent'[t] = 1 /\ a \in Reports
        /\ \A x \in Sales \ {t} : airtime'[x] = airtime[x] /\ sent'[x] = sent[x]
    BY <1>3, <1>4, <1>8 DEF StoreTypes, Reports
  <2>5. GoesOn(t)
    BY <1>0, <1>3, <2>3 DEF GoesOn
  <2>6. SaleFits(t)'
    <3>1. row[t].status \notin {"FAILED", "REFUNDED"} /\ order[t].status # "REFUNDED"
      BY <1>2, <1>3, <2>3 DEF SaleFits, Settled
    <3> QED BY <1>0, <1>2, <1>3, <2>4, <3>1 DEF SaleFits, money, Reports
  <2>7. WorkFits(l)'
    BY <2>1, <2>4 DEF WorkFits, Reports
  <2>8. SalesFit'
    BY <1>0, <1>1, <1>4, <2>1, <2>3, <2>4, <2>5, <2>6, <2>7, SalesGoOn DEF money
  <2>9. StoreTypes' /\ BooksInv'
    <3>1. airtime' \in [Sales -> Reports \cup {"none"}] /\ sent' \in [Sales -> Nat]
      BY <1>4, <1>8, <2>4 DEF StoreTypes
    <3> QED BY <1>0, <1>4, <1>6, <2>1, <3>1, BooksRest DEF StoreTypes, money
  <2> QED BY <2>8, <2>9 DEF StoreInv
<1> QED BY <1>1, <1>7, <1>8 DEF SubmitTopUp

---------------------------------------------------------------------------
\* The money of a sale moves.
Line(lines, a) == IF a \in DOMAIN lines THEN lines[a] ELSE 0

LEMMA SaleIsBooked ==
  ASSUME StoreInv, NEW t \in Sales, NEW o \in Order, NEW cents \in Int,
         NEW kind \in {"purchase", "commission", "refund"}, NEW lines,
         Movement(<<kind, t>>, cents, store, [order EXCEPT ![t] = o]), Journal(lines),
         DOMAIN lines \subseteq Books, \A a \in DOMAIN lines : lines[a] \in Int,
         store.balance + cents >= 0, Line(lines, "BALANCE") = -cents,
         \/ order[t].status # "HELD" /\ o.status = "HELD" /\ Line(lines, "HELD") = -Total
         \/ order[t].status = "HELD" /\ o.status # "HELD" /\ Line(lines, "HELD") = Total
         \/ order[t].status # "HELD" /\ o.status # "HELD" /\ Line(lines, "HELD") = 0
  PROVE  /\ BooksInv' /\ store' \in Shop /\ journal' \in [Books -> Int]
         /\ entries' \in [DOMAIN entries' -> Int] /\ DOMAIN entries' \subseteq References
         /\ DOMAIN entries \subseteq DOMAIN entries' /\ <<kind, t>> \in DOMAIN entries'
         /\ order' \in [Sales -> Order] /\ order'[t] = o /\ \A x \in Sales \ {t} : order'[x] = order[x]
<1>0. StoreTypes /\ BooksInv
  BY DEF StoreInv
<1>1. <<kind, t>> \in References
  BY DEF References
<1>2. store \in Shop
  BY <1>0 DEF StoreTypes
<1>3. /\ store' \in Shop /\ store'.balance = store.balance + cents
      /\ entries' \in [DOMAIN entries' -> Int] /\ DOMAIN entries' \subseteq References
      /\ DOMAIN entries \subseteq DOMAIN entries' /\ <<kind, t>> \in DOMAIN entries'
      /\ IsFiniteSet(DOMAIN entries')
      /\ store'.balance = SumOver(entries', DOMAIN entries')
      /\ order' = [order EXCEPT ![t] = o]
  BY <1>0, <1>1, <1>2, MovementIsBooked
<1>4. order' \in [Sales -> Order] /\ order'[t] = o /\ \A x \in Sales \ {t} : order'[x] = order[x]
  BY <1>0, <1>3 DEF StoreTypes
<1>5. /\ journal' \in [Books -> Int]
      /\ \A a \in Books : journal'[a] = IF a \in DOMAIN lines THEN journal[a] + lines[a] ELSE journal[a]
  BY <1>0, JournalIsKept
<1>6. journal \in [Books -> Int]
  BY <1>0 DEF StoreTypes
<1>7. \A a \in Books : journal'[a] = journal[a] + Line(lines, a) /\ journal[a] \in Int /\ Line(lines, a) \in Int
  BY <1>5, <1>6 DEF Line
<1>8. IsFiniteSet(Held') /\ -Total * Cardinality(Held') = -Total * Cardinality(Held) + Line(lines, "HELD")
  <2>1. CASE order[t].status # "HELD" /\ o.status = "HELD" /\ Line(lines, "HELD") = -Total
    <3>1. IsFiniteSet(Held') /\ -Total * Cardinality(Held') = -Total * Cardinality(Held) - Total
      BY <1>0, <1>4, <2>1, HeldMore
    <3>2. Cardinality(Held) \in Nat
      BY <1>0, FS_CardinalityType DEF BooksInv
    <3>3. PICK m \in Int : m = -Total * Cardinality(Held)
      BY <3>2, StoreFacts
    <3>4. m - Total = m + -Total
      BY StoreFacts
    <3> QED BY <2>1, <3>1, <3>3, <3>4
  <2>2. CASE order[t].status = "HELD" /\ o.status # "HELD" /\ Line(lines, "HELD") = Total
    <3>1. IsFiniteSet(Held') /\ -Total * Cardinality(Held') = -Total * Cardinality(Held) + Total
      BY <1>0, <1>4, <2>2, HeldLess
    <3> QED BY <2>2, <3>1
  <2>3. CASE order[t].status # "HELD" /\ o.status # "HELD" /\ Line(lines, "HELD") = 0
    <3>1. Held' = Held
      BY <1>4, <2>3 DEF Held
    <3>2. IsFiniteSet(Held) /\ Cardinality(Held) \in Nat
      BY <1>0, FS_CardinalityType DEF BooksInv
    <3>3. PICK m \in Int : m = -Total * Cardinality(Held)
      BY <3>2, StoreFacts
    <3>4. m = m + 0
      BY <3>3
    <3> QED BY <2>3, <3>1, <3>2, <3>3, <3>4
  <2> QED BY <2>1, <2>2, <2>3
<1>9. /\ journal'["HELD"] = -Total * Cardinality(Held')
      /\ store'.balance = -journal'["BALANCE"]
  <2>1. /\ journal'["HELD"] = journal["HELD"] + Line(lines, "HELD")
        /\ journal'["BALANCE"] = journal["BALANCE"] + Line(lines, "BALANCE")
        /\ journal["BALANCE"] \in Int
    BY <1>7, StoreFacts
  <2>2. journal["HELD"] = -Total * Cardinality(Held) /\ store.balance = -journal["BALANCE"]
    BY <1>0 DEF BooksInv
  <2>3. journal'["HELD"] = -Total * Cardinality(Held')
    BY <1>8, <2>1, <2>2
  <2>4. store'.balance = -journal'["BALANCE"]
    BY <1>3, <2>1, <2>2
  <2> QED BY <2>3, <2>4
<1>10. BooksInv'
  BY <1>3, <1>8, <1>9 DEF BooksInv
<1> QED BY <1>3, <1>4, <1>5, <1>10

LEMMA SaleSettles ==
  ASSUME StoreInv, NEW h \in Handlers, NEW t \in Sales, NEW l \in SaleWork, NEW r \in Row, NEW o \in Order,
         work' = [work EXCEPT ![h] = l], row' = [row EXCEPT ![t] = r], UNCHANGED outside,
         r.status = row[t].status, r.claimed = row[t].claimed, r.reference = row[t].reference,
         row[t].payment \notin {"NONE", "FAILED"},
         order'[t] = o, \A x \in Sales \ {t} : order'[x] = order[x],
         DOMAIN entries \subseteq DOMAIN entries', <<"purchase", t>> \in DOMAIN entries', o.status # "NONE",
         o.status \in {"HELD", "DELIVERED"} <=> r.payment = "CAPTURED",
         o.status = "REFUNDED" <=> r.payment = "REFUNDED",
         o.status = "REFUNDED" => row[t].status \in {"FAILED", "REFUNDED"},
         l.sale = t \/ l.at = "idle", l.at \in Plain \cup {"readTopUp"},
         l.at = "readTopUp" => row[t].reference
  PROVE  SalesFit'
<1>0. StoreTypes /\ SalesFit /\ SaleFits(t) /\ UNCHANGED <<airtime, sent>>
  BY DEF StoreInv, SalesFit, outside
<1>1. row'[t] = r /\ \A x \in Sales \ {t} : row'[x] = row[x]
  BY <1>0 DEF StoreTypes
<1>2. work'[h] = l /\ \A g \in Handlers \ {h} : work'[g] = work[g]
  BY <1>0 DEF StoreTypes
<1>3. l.at # "submit"
  BY DEF Plain
<1>4. GoesOn(t)
  BY <1>0, <1>1, <1>2, <1>3 DEF GoesOn, Follows, NoSubmit
<1>5. Settled(t) => Settled(t)'
  BY <1>4, SettledStays
<1>6. SaleFits(t)'
  BY <1>0, <1>1, <1>5 DEF SaleFits
<1>7. WorkFits(l)'
  BY <1>0 DEF WorkFits, Plain, SaleFits
<1> QED BY <1>0, <1>1, <1>3, <1>4, <1>6, <1>7, SalesGoOn

LEMMA AuthorizeHolds ==
  ASSUME StoreInv, NEW h \in Handlers, Authorize(h)
  PROVE  StoreInv'
<1> DEFINE lines == [BALANCE |-> Total, HELD |-> -Total]
<1>0. StoreTypes /\ BooksInv /\ work[h].at = "authorize" /\ UNCHANGED <<funding, faults, outside>>
  BY DEF StoreInv, Authorize
<1>1. PICK t \in Sales : t = work[h].sale
  BY <1>0, AtWork
<1>2. SaleFits(t) /\ row[t] \in Row /\ order[t] \in Order /\ work[h] \in SaleWork
  BY <1>0, <1>1, AtWork
<1>3. PICK o : o = [status |-> "HELD", commission |-> storeCommission(store.rate)]
  OBVIOUS
<1>4. o \in Order /\ o.status = "HELD"
  <2>1. store.rate \in BasisPoints
    BY <1>0 DEF StoreTypes, Shop
  <2>4. storeCommission(store.rate) \in Commissions
    BY <2>1, CommissionFits
  <2> QED BY <1>3, <2>4 DEF Order
<1>5. PICK r : r = [row[t] EXCEPT !.payment = "CAPTURED"]
  OBVIOUS
<1>6. r \in Row /\ r.payment = "CAPTURED" /\ r.status = row[t].status /\ r.claimed = row[t].claimed /\ r.reference = row[t].reference
  BY <1>2, <1>5 DEF Row, Payments
<1>7. /\ Movement(<<"purchase", t>>, -Total, store, [order EXCEPT ![t] = o]) /\ Journal(lines)
      /\ row' = [row EXCEPT ![t] = r] /\ Goto(h, "look")
      /\ order[t] = NoOrder /\ row[t].payment = "PENDING" /\ store.balance >= Total
  BY <1>1, <1>3, <1>5 DEF Authorize, CanAuthorize
<1>8. order[t].status = "NONE" /\ -Total \in Int /\ store.balance \in Int
  BY <1>0, <1>7, StoreFacts DEF StoreTypes, Shop
<1>9. /\ DOMAIN lines \subseteq Books /\ (\A a \in DOMAIN lines : lines[a] \in Int)
      /\ Line(lines, "BALANCE") = -(-Total) /\ Line(lines, "HELD") = -Total
  <2>1. DOMAIN lines = {"BALANCE", "HELD"} /\ lines["BALANCE"] = Total /\ lines["HELD"] = -Total
    OBVIOUS
  <2> HIDE DEF lines
  <2> QED BY <2>1, StoreFacts DEF Line
<1>10. store.balance + (-Total) >= 0
  BY <1>7, <1>8, StoreFacts
<1> HIDE DEF lines
<1>11. /\ BooksInv' /\ store' \in Shop /\ journal' \in [Books -> Int]
       /\ entries' \in [DOMAIN entries' -> Int] /\ DOMAIN entries' \subseteq References
       /\ DOMAIN entries \subseteq DOMAIN entries' /\ <<"purchase", t>> \in DOMAIN entries'
       /\ order' \in [Sales -> Order] /\ order'[t] = o /\ \A x \in Sales \ {t} : order'[x] = order[x]
  BY <1>4, <1>7, <1>8, <1>9, <1>10, SaleIsBooked
<1>12. PICK l \in SaleWork : l.at = "look" /\ l.sale = t /\ work' = [work EXCEPT ![h] = l]
  BY <1>1, <1>2, <1>7, GoesTo DEF Plain
<1>13. SalesFit'
  <2>1. /\ l.sale = t /\ l.at \in Plain \cup {"readTopUp"} /\ l.at # "readTopUp"
        /\ work' = [work EXCEPT ![h] = l]
    BY <1>12 DEF Plain
  <2>2. /\ o.status # "NONE" /\ row[t].payment \notin {"NONE", "FAILED"}
        /\ o.status \in {"HELD", "DELIVERED"} <=> r.payment = "CAPTURED"
        /\ o.status = "REFUNDED" <=> r.payment = "REFUNDED"
        /\ o.status = "REFUNDED" => row[t].status \in {"FAILED", "REFUNDED"}
    BY <1>4, <1>6, <1>7
  <2>3. /\ UNCHANGED outside /\ row' = [row EXCEPT ![t] = r] /\ o \in Order /\ r \in Row
        /\ r.status = row[t].status /\ r.claimed = row[t].claimed /\ r.reference = row[t].reference
    BY <1>0, <1>4, <1>6, <1>7
  <2>4. /\ order'[t] = o /\ \A x \in Sales \ {t} : order'[x] = order[x]
        /\ DOMAIN entries \subseteq DOMAIN entries' /\ <<"purchase", t>> \in DOMAIN entries'
    BY <1>11
  <2> QED BY <2>1, <2>2, <2>3, <2>4, SaleSettles
<1>14. StoreTypes'
  BY <1>0, <1>6, <1>7, <1>11, <1>12 DEF StoreTypes, outside
<1> QED BY <1>11, <1>13, <1>14 DEF StoreInv

LEMMA DeliverHolds ==
  ASSUME StoreInv, NEW h \in Handlers, Deliver(h)
  PROVE  StoreInv'
<1>0. StoreTypes /\ BooksInv /\ work[h].at = "settle" /\ UNCHANGED <<funding, row, faults, outside>>
  BY DEF StoreInv, Deliver
<1>1. PICK t \in Sales : t = work[h].sale
  BY <1>0, AtWork
<1>2. SaleFits(t) /\ row[t] \in Row /\ order[t] \in Order /\ work[h] \in SaleWork
  BY <1>0, <1>1, AtWork
<1>3. PICK commission : commission = order[t].commission
  OBVIOUS
<1>4. commission \in Nat /\ commission <= Fee
  BY <1>2, <1>3, StoreFacts DEF Order, Commissions
<1> DEFINE lines == [HELD |-> Total, PROVIDER_SETTLEMENT |-> -Principal,
                     FEE_REVENUE |-> commission - Fee, BALANCE |-> -commission]
<1>5. PICK o : o = [order[t] EXCEPT !.status = "DELIVERED"]
  OBVIOUS
<1>6. o \in Order /\ o.status = "DELIVERED"
  BY <1>2, <1>5 DEF Order
<1>7. /\ Movement(<<"commission", t>>, commission, store, [order EXCEPT ![t] = o]) /\ Journal(lines)
      /\ order[t].status = "HELD" /\ row[t].status = "DELIVERED"
      /\ Finish(h) \/ (row[t].reference /\ Goto(h, "readTopUp"))
  BY <1>1, <1>3, <1>5 DEF Deliver, CanDeliver, AfterSettlement
<1>8. store.balance \in Int /\ store.balance >= 0
  BY <1>0 DEF StoreTypes, Shop, BooksInv
<1>9. /\ DOMAIN lines \subseteq Books /\ (\A a \in DOMAIN lines : lines[a] \in Int)
      /\ Line(lines, "BALANCE") = -commission /\ Line(lines, "HELD") = Total
  <2>1. /\ DOMAIN lines = {"HELD", "PROVIDER_SETTLEMENT", "FEE_REVENUE", "BALANCE"}
        /\ lines["BALANCE"] = -commission /\ lines["HELD"] = Total
        /\ lines["PROVIDER_SETTLEMENT"] = -Principal /\ lines["FEE_REVENUE"] = commission - Fee
    OBVIOUS
  <2>2. -commission \in Int /\ Total \in Int /\ -Principal \in Int /\ commission - Fee \in Int
    BY <1>4, StoreFacts
  <2> HIDE DEF lines
  <2> QED BY <2>1, <2>2, StoreFacts DEF Line
<1>10. store.balance + commission >= 0 /\ commission \in Int
  BY <1>4, <1>8
<1> HIDE DEF lines
<1>11. /\ BooksInv' /\ store' \in Shop /\ journal' \in [Books -> Int]
       /\ entries' \in [DOMAIN entries' -> Int] /\ DOMAIN entries' \subseteq References
       /\ DOMAIN entries \subseteq DOMAIN entries'
       /\ order' \in [Sales -> Order] /\ order'[t] = o /\ \A x \in Sales \ {t} : order'[x] = order[x]
  BY <1>6, <1>7, <1>9, <1>10, SaleIsBooked
<1>12. PICK l \in SaleWork : /\ l.at = "idle" \/ (l.at = "readTopUp" /\ l.sale = t /\ row[t].reference)
                             /\ work' = [work EXCEPT ![h] = l]
  <2>1. CASE Finish(h)
    BY <2>1, StoreFacts DEF Finish
  <2>2. CASE row[t].reference /\ Goto(h, "readTopUp")
    BY <1>1, <1>2, <2>2, GoesTo
  <2> QED BY <1>7, <2>1, <2>2
<1>13. SalesFit'
  <2>1. row' = [row EXCEPT ![t] = row[t]]
    BY <1>0 DEF StoreTypes
  <2>2. row[t].payment = "CAPTURED" /\ <<"purchase", t>> \in DOMAIN entries'
    BY <1>2, <1>7, <1>11 DEF SaleFits
  <2>3. /\ l.sale = t \/ l.at = "idle"
        /\ l.at \in Plain \cup {"readTopUp"} /\ (l.at = "readTopUp" => row[t].reference)
        /\ work' = [work EXCEPT ![h] = l]
    BY <1>12 DEF Plain
  <2>4. /\ o.status # "NONE" /\ row[t].payment \notin {"NONE", "FAILED"}
        /\ o.status \in {"HELD", "DELIVERED"} <=> row[t].payment = "CAPTURED"
        /\ o.status = "REFUNDED" <=> row[t].payment = "REFUNDED"
        /\ o.status = "REFUNDED" => row[t].status \in {"FAILED", "REFUNDED"}
    BY <1>6, <2>2
  <2>5. UNCHANGED outside /\ o \in Order /\ row[t] \in Row
    BY <1>0, <1>2, <1>6
  <2>6. /\ order'[t] = o /\ \A x \in Sales \ {t} : order'[x] = order[x]
        /\ DOMAIN entries \subseteq DOMAIN entries'
    BY <1>11
  <2> QED BY <2>1, <2>2, <2>3, <2>4, <2>5, <2>6, SaleSettles
<1>14. StoreTypes'
  BY <1>0, <1>11, <1>12 DEF StoreTypes, outside
<1> QED BY <1>11, <1>13, <1>14 DEF StoreInv

LEMMA RefundHolds ==
  ASSUME StoreInv, NEW h \in Handlers, Refund(h)
  PROVE  StoreInv'
<1>0. StoreTypes /\ BooksInv /\ work[h].at = "refund" /\ UNCHANGED <<funding, faults, outside>>
  BY DEF StoreInv, Refund
<1>1. PICK t \in Sales : t = work[h].sale
  BY <1>0, AtWork
<1>2. SaleFits(t) /\ row[t] \in Row /\ order[t] \in Order /\ work[h] \in SaleWork
  BY <1>0, <1>1, AtWork
<1>3. PICK earned : earned = IF order[t].status = "DELIVERED" THEN order[t].commission ELSE 0
  OBVIOUS
<1>4. earned \in Nat /\ earned <= Fee
  BY <1>2, <1>3, StoreFacts DEF Order, Commissions
<1>5. PICK o : o = [order[t] EXCEPT !.status = "REFUNDED"]
  OBVIOUS
<1>6. o \in Order /\ o.status = "REFUNDED"
  BY <1>2, <1>5 DEF Order
<1>a. PICK r : r = [row[t] EXCEPT !.payment = "REFUNDED"]
  OBVIOUS
<1>b. r \in Row /\ r.payment = "REFUNDED" /\ r.status = row[t].status /\ r.claimed = row[t].claimed /\ r.reference = row[t].reference
  BY <1>2, <1>a DEF Row, Payments
<1>c. PICK lines : lines = IF order[t].status = "DELIVERED"
             THEN [PROVIDER_SETTLEMENT |-> Principal, FEE_REVENUE |-> Fee - earned,
                   BALANCE |-> earned - Total]
             ELSE [HELD |-> Total, BALANCE |-> -Total]
  OBVIOUS
<1>7. /\ Movement(<<"refund", t>>, Total - earned, store, [order EXCEPT ![t] = o]) /\ Journal(lines)
      /\ order[t].status \in {"HELD", "DELIVERED"} /\ row[t].status \in {"FAILED", "REFUNDED"}
      /\ row' = [row EXCEPT ![t] = r] /\ Finish(h)
  BY <1>1, <1>3, <1>5, <1>a, <1>c DEF Refund, CanRefund
<1>8. store.balance \in Int /\ store.balance >= 0
  BY <1>0 DEF StoreTypes, Shop, BooksInv
<1>9. /\ DOMAIN lines \subseteq Books /\ (\A a \in DOMAIN lines : lines[a] \in Int)
      /\ Line(lines, "BALANCE") = -(Total - earned)
      /\ \/ order[t].status = "HELD" /\ Line(lines, "HELD") = Total
         \/ order[t].status # "HELD" /\ Line(lines, "HELD") = 0
  <2>0. /\ Principal \in Int /\ Fee - earned \in Int /\ earned - Total \in Int /\ -Total \in Int /\ Total \in Int
        /\ -(Total - earned) = earned - Total /\ -(Total - 0) = -Total
    BY <1>4, StoreFacts
  <2>1. CASE order[t].status = "DELIVERED"
    <3>1. /\ DOMAIN lines = {"PROVIDER_SETTLEMENT", "FEE_REVENUE", "BALANCE"}
          /\ lines["PROVIDER_SETTLEMENT"] = Principal /\ lines["FEE_REVENUE"] = Fee - earned
          /\ lines["BALANCE"] = earned - Total
      BY <1>c, <2>1
    <3> QED BY <2>0, <2>1, <3>1, StoreFacts DEF Line
  <2>2. CASE order[t].status = "HELD"
    <3>1. DOMAIN lines = {"HELD", "BALANCE"} /\ lines["HELD"] = Total /\ lines["BALANCE"] = -Total
      BY <1>c, <2>2
    <3>2. earned = 0
      BY <1>3, <2>2
    <3> QED BY <2>0, <2>2, <3>1, <3>2, StoreFacts DEF Line
  <2> QED BY <1>7, <2>1, <2>2
<1>10. store.balance + (Total - earned) >= 0 /\ Total - earned \in Int
  BY <1>4, <1>8, StoreFacts
<1>11. /\ BooksInv' /\ store' \in Shop /\ journal' \in [Books -> Int]
       /\ entries' \in [DOMAIN entries' -> Int] /\ DOMAIN entries' \subseteq References
       /\ DOMAIN entries \subseteq DOMAIN entries'
       /\ order' \in [Sales -> Order] /\ order'[t] = o /\ \A x \in Sales \ {t} : order'[x] = order[x]
  BY <1>6, <1>7, <1>9, <1>10, SaleIsBooked
<1>12. work' = [work EXCEPT ![h] = Idle]
  BY <1>7 DEF Finish
<1>13. SalesFit'
  <2>1. row[t].payment = "CAPTURED" /\ <<"purchase", t>> \in DOMAIN entries'
    BY <1>2, <1>7, <1>11 DEF SaleFits
  <2>2. Idle \in SaleWork /\ Idle.at = "idle" /\ Idle.at \in Plain \cup {"readTopUp"}
    BY StoreFacts DEF Plain
  <2>3. /\ o.status # "NONE" /\ row[t].payment \notin {"NONE", "FAILED"}
        /\ o.status \in {"HELD", "DELIVERED"} <=> r.payment = "CAPTURED"
        /\ o.status = "REFUNDED" <=> r.payment = "REFUNDED"
        /\ row[t].status \in {"FAILED", "REFUNDED"}
    BY <1>6, <1>7, <1>b, <2>1
  <2>4. /\ UNCHANGED outside /\ row' = [row EXCEPT ![t] = r] /\ o \in Order /\ r \in Row
        /\ r.status = row[t].status /\ r.claimed = row[t].claimed /\ r.reference = row[t].reference
    BY <1>0, <1>6, <1>7, <1>b
  <2>5. /\ order'[t] = o /\ \A x \in Sales \ {t} : order'[x] = order[x]
        /\ DOMAIN entries \subseteq DOMAIN entries'
    BY <1>11
  <2> QED BY <1>12, <2>1, <2>2, <2>3, <2>4, <2>5, SaleSettles
<1>14. StoreTypes'
  BY <1>0, <1>7, <1>b, <1>11, <1>12, StoreFacts DEF StoreTypes, outside
<1> QED BY <1>11, <1>13, <1>14 DEF StoreInv

---------------------------------------------------------------------------
LEMMA StoreOpens == ASSUME Init PROVE StoreInv
<1>1. StoreTypes
  <2>1. entries = [r \in {} |-> 0] /\ DOMAIN entries = {}
    BY DEF Init
  <2>2. store \in Shop
    BY DEF Init, Shop, BasisPoints, DefaultRate
  <2>3. faults \in 0..MaxFaults
    BY StoreFacts DEF Init
  <2>4. journal \in [Books -> Int]
    BY DEF Init
  <2>5. order \in [Sales -> Order] /\ row \in [Sales -> Row] /\ work \in [Handlers -> SaleWork]
    BY StoreFacts DEF Init
  <2> QED BY <2>1, <2>2, <2>3, <2>4, <2>5 DEF Init, StoreTypes
<1>2. BooksInv
  <2>1. DOMAIN entries = {} /\ store.balance = 0 /\ journal["BALANCE"] = 0 /\ journal["HELD"] = 0
    BY StoreFacts DEF Init
  <2>2. Held = {}
    BY StoreFacts DEF Init, Held
  <2>3. IsFiniteSet({}) /\ Cardinality({}) = 0
    BY FS_EmptySet
  <2>4. SumOver(entries, {}) = 0
    BY SumEmpty
  <2>5. \A p \in Int : p * 0 = 0 /\ (p = 0 => p = -p /\ p >= 0)
    OBVIOUS
  <2>9. Total \in Int /\ 0 \in Int
    BY StoreFacts
  <2>6. Total * Cardinality(Held) = 0
    <3>1. PICK p \in Int : p = Total
      BY <2>9
    <3> QED BY <2>2, <2>3, <2>5, <3>1
  <2>7. SumOver(entries, DOMAIN entries) = 0
    BY <2>1, <2>4
  <2>8. store.balance = -journal["BALANCE"] /\ store.balance >= 0
    BY <2>1, <2>5, <2>9
  <2> QED BY <2>1, <2>2, <2>3, <2>5, <2>6, <2>7, <2>8, <2>9 DEF BooksInv
<1>3. SalesFit
  <2>1. \A h \in Handlers : work[h].at = "idle"
    BY StoreFacts DEF Init
  <2>2. ASSUME NEW t \in Sales PROVE SaleFits(t)
    <3>1. row[t] = NoRow /\ order[t] = NoOrder /\ airtime[t] = "none" /\ sent[t] = 0
      BY DEF Init
    <3> QED BY <3>1, StoreFacts DEF SaleFits
  <2> QED BY <2>1, <2>2 DEF SalesFit, WorkFits, OneSubmits
<1> QED BY <1>1, <1>2, <1>3 DEF StoreInv

LEMMA StoreStep == ASSUME StoreInv, [Next]_vars PROVE StoreInv'
<1>1. ASSUME NEW h \in Handlers, SaleStep(h) PROVE StoreInv'
  <2>1. CASE ClaimFulfillment(h)
    BY <2>1, ClaimHolds, LooksHold
  <2>2. CASE FindTopUp(h)
    BY <2>2, AnswersHold, LooksHold
  <2> QED BY <1>1, <2>1, <2>2, LooksHold, AnswersHold, AuthorizeHolds, CancelHolds, SubmitHolds, RecordHolds,
             ApplyHolds, DeliverHolds, NotDeliveredHolds, RefundHolds DEF SaleStep
<1>2. ASSUME NEW d \in Deposits, RequestFunding(d) \/ ApproveFunding(d) \/ RejectFunding(d) PROVE StoreInv'
  BY <1>2, DepositHolds, StoreSurroundings
<1>3. ASSUME NEW t \in Sales, QuoteExpires(t) \/ AirtimeMoves(t) PROVE StoreInv'
  BY <1>3, StoreSurroundings
<1>4. CASE UNCHANGED vars
  BY <1>4, StoreSurroundings
<1>5. ASSUME NEW h \in Handlers, NEW t \in Sales, Purchase(h, t) \/ \E worker \in BOOLEAN : Refresh(h, t, worker)
      PROVE  StoreInv'
  BY <1>5, PurchaseHolds, RefreshHolds
<1>6. ASSUME NEW h \in Handlers, SaleStep(h) \/ Stop(h) PROVE StoreInv'
  BY <1>1, <1>6, StopHolds
<1>7. ASSUME NEW x \in Returns, NEW cents \in {Amount, store.balance}, RecordBalanceReturn(x, cents)
      PROVE  StoreInv'
  BY <1>7, ReturnHolds
<1>8. CASE \/ \E status \in {"ACTIVE", "SUSPENDED"}, rate \in Rates : Review(status, rate)
           \/ RequestDeletion \/ ProcessDeletion
  BY <1>8, StoreSurroundings
<1>9. CASE Next
  BY <1>2, <1>3, <1>5, <1>6, <1>7, <1>8, <1>9, Zenon DEF Next
<1> QED BY <1>4, <1>9

LEMMA StoreIsSound == ASSUME StoreInv PROVE StoreSalesAreSound
<1>0. StoreTypes /\ BooksInv /\ \A t \in Sales : SaleFits(t)
  BY DEF StoreInv, SalesFit
<1>1. TypeOK
  <2>1. store.status \in {"PENDING", "ACTIVE", "SUSPENDED", "REJECTED"} /\ store.rate \in BasisPoints
    BY <1>0 DEF StoreTypes, Shop
  <2>2. store.rate \in 0..5000
    BY <2>1 DEF BasisPoints
  <2> QED BY <1>0, <2>1, <2>2 DEF StoreTypes, TypeOK
<1>2. BooksAgree /\ NoOverdraft
  BY <1>0 DEF BooksInv, BooksAgree, NoOverdraft, SumOver, Held
<1>3. BoughtOnceWhenHeld /\ RefundedWithoutAirtime
  BY <1>0 DEF SaleFits, Settled, BoughtOnceWhenHeld, RefundedWithoutAirtime, StoreTypes
<1>4. HeldIsReconciled
  <2> SUFFICES ASSUME NEW t \in Sales, order[t].status = "HELD" PROVE Candidate(t)
    BY DEF HeldIsReconciled
  <2>1. row[t].payment = "CAPTURED" /\ row[t].status # "NONE" /\ row[t].status \in RowStatuses
    BY <1>0 DEF SaleFits, StoreTypes, Row
  <2> QED BY <2>1 DEF Candidate, RowStatuses
<1> QED BY <1>1, <1>2, <1>3, <1>4 DEF StoreSalesAreSound

(* The books of a store agree and are never overdrawn; airtime is bought   *)
(* once a sale and with money that is held; the money goes back only where *)
(* no airtime went; and a sale on hold that nobody works on is one the     *)
(* worker looks at: for any number of sales, handlers and faults           *)
(* (purchaseFromStore, settle, listReconciliationCandidates).              *)
THEOREM StoreKeepsItsBooks == Spec => []StoreSalesAreSound
<1>1. Init => StoreInv
  BY StoreOpens
<1>2. StoreInv /\ [Next]_vars => StoreInv'
  BY StoreStep
<1>3. StoreInv => StoreSalesAreSound
  BY StoreIsSound
<1> QED BY <1>1, <1>2, <1>3, PTL DEF Spec

---------------------------------------------------------------------------
(* The sign-in of a customer: its inductive invariant.                     *)

Places == {"idle", "entering", "failing", "issuing", "checking", "leaving", "deleting", "updating",
           "sending", "guessing", "clearing", "linking", "delivering"}
Visit == [at : Places, session : Session, code : Nat]

SignInTypes == IdentityTypeOK /\ visit \in [Requests -> Visit]

\* The requests that will make a session, if nothing stops them.
Entering(h) == visit[h].at \in {"entering", "issuing", "checking"}

(* What was read of the row and travels: a password is at most as new as   *)
(* the version, so that the same version means the same password.          *)
Fits(session) ==
  /\ session.version <= person.version
  /\ session.version = person.version => session.under = person.password

SessionsInv ==
  /\ \A session \in sessions : Fits(session)
  /\ \A h \in Requests : Entering(h) => Fits(visit[h].session)

(* A sign-in is in one place: in a session, or with a request.             *)
LoginsInv ==
  /\ \A s \in sessions : s.login \in 1..made.logins
  /\ \A h \in Requests : Entering(h) => visit[h].session.login \in 1..made.logins
  /\ \A s, t \in sessions : s.login = t.login => s = t
  /\ \A g, h \in Requests :
       Entering(g) /\ Entering(h) /\ visit[g].session.login = visit[h].session.login => g = h
  /\ \A s \in sessions, h \in Requests : Entering(h) => s.login # visit[h].session.login

RowInvariant ==
  /\ DeletedIsErased /\ VerifiedIsCurrent
  /\ person.status # "DELETED" => person.phone \in Phones

(* The codes that count when code c is sent, c among them.                 *)
Window(c) ==
  {d \in DOMAIN challenges : /\ challenges[d].created <= challenges[c].created
                             /\ challenges[d].created + Hour >= challenges[c].created}
Newest == Len(challenges)
Tries == [c \in DOMAIN challenges |-> challenges[c].attempts]

(* Only the newest code can be guessed, and was sent while the others let  *)
(* it.                                                                     *)
CodesInv ==
  /\ \A c \in DOMAIN challenges : /\ challenges[c].created <= clock
                                  /\ challenges[c].attempts <= AttemptsPerCode
                                  /\ c # Newest => challenges[c].consumed
  /\ \A c, d \in DOMAIN challenges : c <= d => challenges[c].created <= challenges[d].created
  /\ challenges # <<>> => SumOver(Tries, Window(Newest) \ {Newest}) <= GuessesPerHour - 1
  /\ \A c \in DOMAIN challenges :
       SumOver(Tries, Window(c)) <= GuessesPerHour - 1 + AttemptsPerCode

SignInInv == SignInTypes /\ SessionsInv /\ LoginsInv /\ RowInvariant /\ CodesInv

---------------------------------------------------------------------------
(* Sessions: what only lets requests and sessions go.                      *)

\* No session comes, and no request is nearer to one but the one it has.
NobodyEnters ==
  /\ sessions' \subseteq sessions /\ made'.logins >= made.logins
  /\ \A h \in Requests :
       Entering(h)' => Entering(h) /\ visit'[h].session = visit[h].session

\* The version says when the password changed.
VersionTells ==
  \/ person'.version = person.version /\ person'.password = person.password
  \/ person'.version > person.version

LEMMA SignInNumbers ==
  /\ SessionTtl \in Nat /\ ResetTtl \in Nat /\ CodeTtl \in Nat /\ LockTtl \in Nat /\ Hour \in Nat
  /\ MaxFailures \in Nat /\ AttemptsPerCode \in Nat /\ MaxLogins \in Nat /\ MaxResets \in Nat
  /\ MaxCodes \in Nat /\ Horizon \in Nat /\ MaxStops \in Nat
  /\ GuessesPerHour \in Nat /\ GuessesPerHour > 0
  /\ Phones \subseteq Nat /\ 0 \notin Phones /\ Phones # {}
<1>1. Phones \subseteq Nat /\ 0 \notin Phones /\ Phones # {} /\ GuessesPerHour > 0
  BY IdentityAssumption
<1>2. {SessionTtl, ResetTtl, CodeTtl, LockTtl, Hour, MaxFailures, AttemptsPerCode,
       CodesPerHour, GuessesPerHour, MaxLogins, MaxResets, MaxCodes, Horizon, MaxStops} \subseteq Nat
  BY IdentityAssumption
<1> QED BY <1>1, <1>2

LEMMA SignInFacts ==
  ASSUME SignInTypes
  PROVE  /\ clock \in Nat /\ person.version \in Nat /\ person.password \in Nat
         /\ made.logins \in Nat /\ made.resets \in Nat /\ visit \in [Requests -> Visit]
         /\ \A h \in Requests : visit[h] \in Visit /\ visit[h].session \in Session
         /\ \A s \in sessions : s \in Session
<1>1. MaxLogins \in Nat /\ MaxResets \in Nat /\ Horizon \in Nat
  BY SignInNumbers
<1>2. clock \in Nat /\ made.logins \in Nat /\ made.resets \in Nat
  BY <1>1 DEF SignInTypes, IdentityTypeOK
<1>3. person.version \in Nat /\ person.password \in Nat
  BY DEF SignInTypes, IdentityTypeOK
<1> QED BY <1>2, <1>3 DEF SignInTypes, IdentityTypeOK, Visit

LEMMA LoginsKept ==
  ASSUME SignInTypes, LoginsInv, NobodyEnters, made'.logins \in Nat
  PROVE  LoginsInv'
<1>1. \A n : n \in 1..made.logins => n \in 1..made'.logins
  BY SignInFacts DEF NobodyEnters
<1> QED BY <1>1 DEF LoginsInv, NobodyEnters, Entering

LEMMA SessionsKept ==
  ASSUME SignInTypes, SessionsInv, NobodyEnters, VersionTells, person'.version \in Nat
  PROVE  SessionsInv'
<1>1. ASSUME NEW s \in Session, Fits(s) PROVE Fits(s)'
  BY <1>1, SignInFacts DEF Fits, VersionTells, Session
<1>2. \A s \in sessions' : Fits(s)'
  BY <1>1, SignInFacts DEF SessionsInv, NobodyEnters
<1>3. ASSUME NEW h \in Requests, Entering(h)' PROVE Fits(visit[h].session)'
  <2>1. PICK s \in Session : s = visit[h].session
    BY SignInFacts
  <2>2. Fits(s) /\ visit'[h].session = s
    BY <1>3, <2>1 DEF SessionsInv, NobodyEnters
  <2>3. Fits(s)'
    BY <1>1, <2>2
  <2> QED BY <2>2, <2>3 DEF Fits
<1> QED BY <1>2, <1>3 DEF SessionsInv

---------------------------------------------------------------------------
(* Codes: how many guesses an hour.                                        *)

LEMMA CodesFacts ==
  ASSUME SignInTypes
  PROVE  /\ challenges \in Seq(Challenge) /\ Newest \in Nat /\ DOMAIN challenges = 1..Newest
         /\ IsFiniteSet(DOMAIN challenges) /\ (challenges = <<>> <=> Newest = 0)
         /\ \A c \in DOMAIN challenges :
              /\ challenges[c] \in Challenge /\ challenges[c].created \in Nat
              /\ challenges[c].attempts \in Nat /\ Tries[c] \in Nat
              /\ Tries[c] = challenges[c].attempts
<1>1. challenges \in Seq(Challenge)
  BY DEF SignInTypes, IdentityTypeOK
<1>2. Newest \in Nat /\ DOMAIN challenges = 1..Newest /\ (challenges = <<>> <=> Newest = 0)
  BY <1>1 DEF Newest
<1>3. IsFiniteSet(DOMAIN challenges)
  BY <1>2, FS_Interval
<1>4. \A c \in DOMAIN challenges : challenges[c] \in Challenge
  BY <1>1
<1>5. \A c \in DOMAIN challenges : challenges[c].created \in Nat /\ challenges[c].attempts \in Nat
  BY <1>4 DEF Challenge
<1> QED BY <1>1, <1>2, <1>3, <1>4, <1>5 DEF Tries

LEMMA GuessesAreSummed ==
  ASSUME SignInTypes, NEW S \in SUBSET DOMAIN challenges
  PROVE  Guesses(S) = SumOver(Tries, S)
<1> DEFINE Rec(g) == g = [s \in SUBSET S |->
                           IF s = {} THEN 0 ELSE Attempts(Some(s)) + g[s \ {Some(s)}]]
           G == CHOOSE g : Rec(g)
<1>0. IsFiniteSet(S)
  BY CodesFacts, FS_Subset
<1>1. Guesses(S) = G[S]
  BY DEF Guesses, MapThenSumSet, MapThenFoldSet, Some
<1>2. \A g : Sums(Tries, S, g) <=> Rec(g)
  <2>1. \A s \in SUBSET S : s # {} => Tries[Some(s)] = Attempts(Some(s))
    BY SomeIsElement DEF Tries, Attempts
  <2> QED BY <2>1 DEF Sums
<1>3. \E g : Rec(g)
  BY <1>0, <1>2, SumsExist
<1>4. Rec(G)
  BY <1>3
<1> HIDE DEF G, Rec
<1>5. Sums(Tries, S, G)
  BY <1>2, <1>4
<1>6. SumOver(Tries, S) = G[S]
  BY <1>0, <1>5, SumIsValue
<1> QED BY <1>1, <1>6

\* A code more adds its guesses.
LEMMA SumGains ==
  ASSUME NEW w, NEW E, IsFiniteSet(E), Weights(w, E), NEW S \in SUBSET E,
         NEW c \in E, c \notin S, NEW T, T = S \cup {c}
  PROVE  SumOver(w, S) \in Int /\ SumOver(w, T) = SumOver(w, S) + w[c]
BY SumAddElement

\* A set of codes whose guesses did not change weighs what it did.
LEMMA SameGuesses ==
  ASSUME SignInTypes, NEW S \in SUBSET DOMAIN challenges, S \in SUBSET DOMAIN challenges',
         \A c \in S : challenges'[c].attempts = challenges[c].attempts
  PROVE  SumOver(Tries', S) = SumOver(Tries, S)
<1>1. IsFiniteSet(S)
  BY CodesFacts, FS_Subset
<1>2. \A c \in S : Tries'[c] = Tries[c]
  BY DEF Tries
<1> QED BY <1>1, <1>2, SameWeights

\* No code is made, guessed or opened again.
NothingIsGuessed ==
  /\ Len(challenges') = Len(challenges) /\ DOMAIN challenges' = DOMAIN challenges
  /\ \A c \in DOMAIN challenges :
       /\ challenges'[c].created = challenges[c].created
       /\ challenges'[c].attempts = challenges[c].attempts
       /\ challenges[c].consumed => challenges'[c].consumed

LEMMA CodesKept ==
  ASSUME SignInTypes, SignInTypes', CodesInv, NothingIsGuessed, clock' >= clock
  PROVE  CodesInv'
<1>1. Newest' = Newest /\ (challenges' = <<>> <=> challenges = <<>>)
  BY CodesFacts DEF NothingIsGuessed, Newest, SignInTypes, IdentityTypeOK
<1>2. \A c \in DOMAIN challenges : Window(c)' = Window(c)
  BY DEF NothingIsGuessed, Window
<1>3. \A S \in SUBSET DOMAIN challenges : SumOver(Tries', S) = SumOver(Tries, S)
  BY SameGuesses DEF NothingIsGuessed
<1>4. \A c \in DOMAIN challenges : Window(c) \in SUBSET DOMAIN challenges
  BY DEF Window
<1>5. \A c \in DOMAIN challenges : SumOver(Tries, Window(c))' = SumOver(Tries, Window(c))
  BY <1>2, <1>3, <1>4
<1>6. challenges # <<>> =>
        SumOver(Tries, Window(Newest) \ {Newest})' = SumOver(Tries, Window(Newest) \ {Newest})
  <2> SUFFICES ASSUME challenges # <<>>
               PROVE  SumOver(Tries, Window(Newest) \ {Newest})' = SumOver(Tries, Window(Newest) \ {Newest})
    OBVIOUS
  <2>1. Newest \in DOMAIN challenges
    BY CodesFacts
  <2>2. Window(Newest)' = Window(Newest)
    BY <1>1, <2>1 DEF NothingIsGuessed, Window
  <2>3. Window(Newest) \ {Newest} \in SUBSET DOMAIN challenges
    BY <1>4, <2>1
  <2> QED BY <1>1, <1>3, <2>2, <2>3
<1>7. \A c \in DOMAIN challenges' : /\ challenges'[c].created <= clock'
                                    /\ challenges'[c].attempts <= AttemptsPerCode
                                    /\ c # Newest' => challenges'[c].consumed
  <2>1. clock \in Nat /\ clock' \in Nat
    BY SignInNumbers DEF SignInTypes, IdentityTypeOK
  <2>2. ASSUME NEW c \in DOMAIN challenges
        PROVE  challenges[c].created \in Nat /\ challenges[c].created <= clock
    BY CodesFacts DEF CodesInv
  <2>3. \A c \in DOMAIN challenges : challenges'[c].created <= clock'
    BY <2>1, <2>2 DEF NothingIsGuessed
  <2> QED BY <1>1, <2>3 DEF CodesInv, NothingIsGuessed
<1>8. \A c, d \in DOMAIN challenges' : c <= d => challenges'[c].created <= challenges'[d].created
  BY DEF CodesInv, NothingIsGuessed
<1> QED BY <1>1, <1>5, <1>6, <1>7, <1>8 DEF CodesInv, NothingIsGuessed

\* There are no codes.
LEMMA NoCodes == ASSUME challenges = <<>> PROVE CodesInv
BY DEF CodesInv

\* The rows are marked, and nothing else.
LEMMA ConsumedFacts ==
  ASSUME SignInTypes
  PROVE  /\ Consumed(challenges) \in Seq(Challenge) /\ Len(Consumed(challenges)) = Newest
         /\ DOMAIN Consumed(challenges) = DOMAIN challenges
         /\ \A c \in DOMAIN challenges :
              Consumed(challenges)[c] = [challenges[c] EXCEPT !.consumed = TRUE]
<1>1. \A c \in DOMAIN challenges : [challenges[c] EXCEPT !.consumed = TRUE] \in Challenge
  BY CodesFacts DEF Challenge
<1>2. Consumed(challenges) \in [1..Newest -> Challenge]
  BY <1>1, CodesFacts DEF Consumed
<1>3. Newest \in Nat
  BY CodesFacts
<1>4. Consumed(challenges) \in Seq(Challenge) /\ Len(Consumed(challenges)) = Newest
  BY <1>2, <1>3
<1> QED BY <1>4 DEF Consumed

\* A code is sent while the guesses of the last hour allow it.
LEMMA SendKeepsCodes ==
  ASSUME SignInTypes, SignInTypes', CodesInv, Sendable, clock' = clock, NEW code \in Challenge,
         code.created = clock, code.attempts = 0,
         challenges' = Append(Consumed(challenges), code)
  PROVE  CodesInv'
<1>a. PICK n : n = Newest
  OBVIOUS
<1>b. PICK m : m = n + 1
  OBVIOUS
<1>0. /\ n \in Nat /\ m \in Nat /\ DOMAIN challenges = 1..n /\ clock \in Nat /\ IsFiniteSet(DOMAIN challenges)
      /\ \A c \in 1..n : /\ challenges[c] \in Challenge /\ challenges[c].created \in Nat
                         /\ challenges[c].attempts \in Nat
  BY <1>a, <1>b, CodesFacts, SignInFacts
<1>1. /\ DOMAIN challenges' = 1..m /\ Newest' = m /\ challenges'[m] = code
      /\ \A c \in 1..n : challenges'[c] = [challenges[c] EXCEPT !.consumed = TRUE]
  <2>1. /\ Consumed(challenges) \in Seq(Challenge) /\ Len(Consumed(challenges)) = n
        /\ \A c \in 1..n : Consumed(challenges)[c] = [challenges[c] EXCEPT !.consumed = TRUE]
    BY <1>0, <1>a, ConsumedFacts
  <2>2. PICK s \in Seq(Challenge) : s = Consumed(challenges)
    BY <2>1
  <2>3. DOMAIN challenges' = 1..m /\ Len(challenges') = m /\ challenges'[m] = code
    BY <1>0, <1>b, <2>1, <2>2
  <2>4. \A c \in 1..n : challenges'[c] = s[c]
    BY <1>0, <2>1, <2>2
  <2> QED BY <2>1, <2>2, <2>3, <2>4 DEF Newest
<1>2. \A c \in 1..n : /\ challenges'[c].created = challenges[c].created
                      /\ challenges'[c].attempts = challenges[c].attempts
                      /\ challenges'[c].consumed
  BY <1>0, <1>1 DEF Challenge
<1>3. 1..n \subseteq 1..m /\ m \in 1..m /\ m \notin 1..n /\ 1..m \ {m} = 1..n
  BY <1>0, <1>b
<1>4. \A S \in SUBSET (1..n) : SumOver(Tries', S) = SumOver(Tries, S)
  BY <1>0, <1>1, <1>2, <1>3, SameGuesses
<1>5. ASSUME NEW S \in SUBSET (1..n)
      PROVE  SumOver(Tries', S \cup {m}) = SumOver(Tries, S) /\ SumOver(Tries, S) \in Int
  <2>1. Weights(Tries', 1..m) /\ Tries'[m] = 0
    <3>1. \A c \in 1..n : Tries'[c] \in Int
      BY <1>0, <1>1, <1>2, <1>3 DEF Tries
    <3>2. Tries'[m] = 0
      BY <1>1, <1>3 DEF Tries
    <3> QED BY <1>3, <3>1, <3>2 DEF Weights
  <2>2. IsFiniteSet(1..m) /\ S \in SUBSET (1..m) /\ m \in 1..m /\ m \notin S
    <3>1. 1 \in Int /\ m \in Int
      BY <1>0
    <3>2. IsFiniteSet(1..m)
      BY <3>1, FS_Interval
    <3> QED BY <1>3, <3>2
  <2>3. PICK w : w = Tries'
    OBVIOUS
  <2>4. SumOver(w, S) \in Int /\ SumOver(w, S \cup {m}) = SumOver(w, S) + w[m]
    <3>1. PICK E : E = 1..m
      OBVIOUS
    <3>2. Weights(w, E)
      BY <2>1, <2>3, <3>1
    <3>3. IsFiniteSet(E) /\ S \in SUBSET E /\ m \in E /\ m \notin S
      BY <2>2, <3>1
    <3>4. PICK T : T = S \cup {m}
      OBVIOUS
    <3> QED BY <3>2, <3>3, <3>4, SumGains
  <2> QED BY <1>4, <2>1, <2>3, <2>4
<1>6. \A c \in 1..n : Window(c)' \ {m} = Window(c) /\ Window(c) \in SUBSET (1..n)
  BY <1>0, <1>1, <1>2, <1>3 DEF Window
<1>7. Window(m)' = Recent \cup {m} /\ Recent \in SUBSET (1..n) /\ m \notin Recent
  <2>1. \A c \in 1..n : challenges[c].created <= clock
    BY <1>0 DEF CodesInv
  <2>2. clock + Hour >= clock
    BY <1>0, SignInNumbers
  <2>3. m \in Window(m)'
    BY <1>0, <1>1, <1>3, <2>2 DEF Window
  <2>4. ASSUME NEW c \in 1..n PROVE c \in Window(m)' <=> c \in Recent
    BY <1>0, <1>1, <1>2, <1>3, <2>1 DEF Window, Recent
  <2>5. Window(m)' \subseteq 1..m /\ Recent \subseteq 1..n
    BY <1>0, <1>1 DEF Window, Recent
  <2> QED BY <1>3, <2>3, <2>4, <2>5
<1>8. SumOver(Tries, Recent) <= GuessesPerHour - 1
  <2>1. Guesses(Recent) = SumOver(Tries, Recent)
    BY <1>0, <1>7, GuessesAreSummed
  <2>2. SumOver(Tries, Recent) \in Int
    BY <1>5, <1>7
  <2> QED BY <2>1, <2>2, SignInNumbers DEF Sendable
<1>9. SumOver(Tries', Window(m)' \ {m}) <= GuessesPerHour - 1
  <2>1. Window(m)' \ {m} = Recent
    BY <1>7
  <2> QED BY <1>4, <1>7, <1>8, <2>1
<1>10. SumOver(Tries', Window(m)') <= GuessesPerHour - 1 + AttemptsPerCode
  BY <1>5, <1>7, <1>8, SignInNumbers
<1>11. ASSUME NEW c \in 1..n
       PROVE  SumOver(Tries', Window(c)') <= GuessesPerHour - 1 + AttemptsPerCode
  <2>1. SumOver(Tries, Window(c)) <= GuessesPerHour - 1 + AttemptsPerCode
    BY <1>0 DEF CodesInv
  <2>2. Window(c)' = Window(c) \/ Window(c)' = Window(c) \cup {m}
    BY <1>6
  <2>3. SumOver(Tries', Window(c)') = SumOver(Tries, Window(c))
    BY <1>4, <1>5, <1>6, <2>2
  <2> QED BY <2>1, <2>3
<1>12. \A c \in 1..m : SumOver(Tries', Window(c)') <= GuessesPerHour - 1 + AttemptsPerCode
  BY <1>3, <1>10, <1>11
<1>13. \A c \in 1..m : /\ challenges'[c].created <= clock' /\ challenges'[c].attempts <= AttemptsPerCode
                       /\ c # m => challenges'[c].consumed
  <2>1. \A c \in 1..n : challenges[c].created <= clock /\ challenges[c].attempts <= AttemptsPerCode
    BY <1>0 DEF CodesInv
  <2>2. code.created <= clock' /\ code.attempts <= AttemptsPerCode
    BY <1>0, SignInNumbers
  <2>3. \A c \in 1..n : /\ challenges'[c].created <= clock'
                         /\ challenges'[c].attempts <= AttemptsPerCode /\ challenges'[c].consumed
    BY <1>2, <2>1
  <2> QED BY <1>1, <1>3, <2>2, <2>3
<1>14. \A c, d \in 1..m : c <= d => challenges'[c].created <= challenges'[d].created
  <2>1. \A c, d \in 1..n : c <= d => challenges[c].created <= challenges[d].created
    BY <1>0 DEF CodesInv
  <2>2. \A c \in 1..m : c <= m /\ challenges'[c].created <= challenges'[m].created
    BY <1>0, <1>1, <1>13
  <2>3. \A c, d \in 1..n : c <= d => challenges'[c].created <= challenges'[d].created
    BY <1>2, <2>1
  <2>4. \A d \in 1..n : ~(m <= d)
    BY <1>0, <1>b
  <2> QED BY <1>3, <2>2, <2>3, <2>4
<1> QED BY <1>1, <1>9, <1>12, <1>13, <1>14 DEF CodesInv

\* Only the newest code can be guessed, and so often.
LEMMA ConfirmKeepsCodes ==
  ASSUME SignInTypes, SignInTypes', CodesInv, clock' = clock,
         NEW c \in DOMAIN challenges, NEW right \in BOOLEAN, Guessable(challenges[c]),
         challenges' = [challenges EXCEPT ![c].attempts = @ + 1, ![c].consumed = right]
  PROVE  CodesInv'
<1>a. PICK n : n = Newest
  OBVIOUS
<1>b. PICK D : D = DOMAIN challenges
  OBVIOUS
<1>0. /\ n \in Nat /\ D = 1..n /\ clock \in Nat /\ IsFiniteSet(D)
      /\ \A d \in D : /\ challenges[d] \in Challenge /\ challenges[d].created \in Nat
                      /\ challenges[d].attempts \in Nat /\ Tries[d] \in Nat
  BY <1>a, <1>b, CodesFacts, SignInFacts
<1>c. challenges # <<>> /\ \A d \in D : d # n => challenges[d].consumed
  <2>1. challenges # <<>>
    BY CodesFacts
  <2> QED BY <1>a, <1>b, <2>1 DEF CodesInv
<1>d. \A d \in D : challenges[d].created <= clock /\ challenges[d].attempts <= AttemptsPerCode
  BY <1>b DEF CodesInv
<1>e. \A d, e \in D : d <= e => challenges[d].created <= challenges[e].created
  BY <1>b DEF CodesInv
<1>f. SumOver(Tries, Window(n) \ {n}) <= GuessesPerHour - 1
  BY <1>a, <1>c DEF CodesInv
<1>g. \A d \in D : SumOver(Tries, Window(d)) <= GuessesPerHour - 1 + AttemptsPerCode
  BY <1>b DEF CodesInv
<1>1. c = n /\ c \in D
  <2>1. ~challenges[c].consumed /\ c \in D
    BY <1>b DEF Guessable
  <2> QED BY <1>c, <2>1
<1>2. /\ DOMAIN challenges' = D /\ Newest' = n
      /\ \A d \in D : d # c => challenges'[d] = challenges[d]
      /\ challenges'[c] = [challenges[c] EXCEPT !.attempts = @ + 1, !.consumed = right]
  BY <1>0, <1>a, <1>b, CodesFacts DEF Newest
<1>3. /\ \A d \in D : challenges'[d].created = challenges[d].created
      /\ challenges'[c].attempts = challenges[c].attempts + 1
  BY <1>0, <1>1, <1>2 DEF Challenge
<1>4. \A d \in D : Window(d)' = Window(d) /\ Window(d) \in SUBSET D
  BY <1>b, <1>2, <1>3 DEF Window
<1>5. \A S \in SUBSET (D \ {c}) : SumOver(Tries', S) = SumOver(Tries, S)
  <2> SUFFICES ASSUME NEW S \in SUBSET (D \ {c}) PROVE SumOver(Tries', S) = SumOver(Tries, S)
    OBVIOUS
  <2>1. S \in SUBSET DOMAIN challenges /\ S \in SUBSET DOMAIN challenges'
    BY <1>b, <1>2
  <2>2. \A d \in S : challenges'[d].attempts = challenges[d].attempts
    BY <1>2
  <2> QED BY <2>1, <2>2, SameGuesses
<1>7. challenges[c].attempts + 1 <= AttemptsPerCode
  BY <1>0, <1>1, SignInNumbers DEF Guessable
<1>8. n \in Window(n)
  <2>1. challenges[n].created \in Nat /\ Hour \in Nat
    BY <1>0, <1>1, SignInNumbers
  <2>2. challenges[n].created + Hour >= challenges[n].created
    BY <2>1
  <2>3. challenges[n].created <= challenges[n].created
    BY <2>1
  <2> QED BY <1>1, <1>b, <2>2, <2>3 DEF Window
<1>9. SumOver(Tries', Window(n)) <= GuessesPerHour - 1 + AttemptsPerCode
  <2> DEFINE S == Window(n) \ {n}
  <2>1. Weights(Tries', D) /\ Tries'[n] = challenges[c].attempts + 1
    <3>1. \A d \in D : d # c => Tries'[d] \in Int
      BY <1>0, <1>2 DEF Tries
    <3>2. Tries'[c] = challenges[c].attempts + 1 /\ challenges[c].attempts \in Nat
      BY <1>0, <1>2, <1>3 DEF Tries
    <3> QED BY <1>1, <3>1, <3>2 DEF Weights
  <2>2. S \in SUBSET D /\ n \in D /\ n \notin S /\ S \cup {n} = Window(n) /\ S \in SUBSET (D \ {c})
    BY <1>1, <1>4, <1>8
  <2>a. PICK w : w = Tries'
    OBVIOUS
  <2>3. SumOver(w, S) \in Int /\ SumOver(w, S \cup {n}) = SumOver(w, S) + w[n]
    <3>1. Weights(w, D)
      BY <2>a, <2>1
    <3>2. IsFiniteSet(D)
      BY <1>0
    <3>3. PICK T : T = S \cup {n}
      OBVIOUS
    <3>4. PICK R : R = S
      OBVIOUS
    <3>5. R \in SUBSET D /\ n \in D /\ n \notin R /\ T = R \cup {n}
      BY <2>2, <3>3, <3>4
    <3>6. SumOver(w, R) \in Int /\ SumOver(w, T) = SumOver(w, R) + w[n]
      BY <3>1, <3>2, <3>5, SumGains
    <3> HIDE DEF S
    <3> QED BY <3>3, <3>4, <3>6
  <2>4. SumOver(Tries', S) = SumOver(Tries, S)
    BY <1>5, <2>2
  <2>5. challenges[c].attempts \in Nat
    BY <1>0, <1>1
  <2> HIDE DEF S
  <2>6. SumOver(Tries, S) <= GuessesPerHour - 1
    BY <1>f DEF S
  <2>7. SumOver(w, Window(n)) = SumOver(w, S) + (challenges[c].attempts + 1)
    BY <2>1, <2>2, <2>3, <2>a
  <2>8. SumOver(w, S) \in Int /\ SumOver(w, S) <= GuessesPerHour - 1
    BY <2>3, <2>4, <2>6, <2>a
  <2>9. SumOver(w, Window(n)) <= GuessesPerHour - 1 + AttemptsPerCode
    BY <1>7, <2>5, <2>7, <2>8, SignInNumbers
  <2> QED BY <2>9, <2>a
<1>10. ASSUME NEW d \in D
       PROVE  SumOver(Tries', Window(d)) <= GuessesPerHour - 1 + AttemptsPerCode
  <2>1. CASE n \in Window(d)
    <3>1. challenges[n].created = challenges[d].created
      <4>1. challenges[n].created <= challenges[d].created
        BY <2>1 DEF Window
      <4>2. d <= n /\ n \in D
        BY <1>0, <1>1
      <4>3. challenges[d].created <= challenges[n].created
        BY <4>2, <1>e
      <4> QED BY <1>0, <4>1, <4>2, <4>3
    <3>2. Window(d) = Window(n)
      BY <3>1 DEF Window
    <3> QED BY <1>9, <3>2
  <2>2. CASE n \notin Window(d)
    <3>1. Window(d) \in SUBSET (D \ {c})
      BY <1>1, <1>4, <2>2
    <3>2. SumOver(Tries, Window(d)) <= GuessesPerHour - 1 + AttemptsPerCode
      BY <1>g
    <3> QED BY <1>5, <3>1, <3>2
  <2> QED BY <2>1, <2>2
<1>11. \A d \in D : SumOver(Tries', Window(d)') <= GuessesPerHour - 1 + AttemptsPerCode
  BY <1>4, <1>10
<1>12. SumOver(Tries', Window(n)' \ {n}) <= GuessesPerHour - 1
  <2>1. Window(n)' = Window(n) /\ Window(n) \ {n} \in SUBSET (D \ {c})
    BY <1>1, <1>4
  <2> QED BY <1>5, <1>f, <2>1
<1>13. \A d \in D : /\ challenges'[d].created <= clock' /\ challenges'[d].attempts <= AttemptsPerCode
                    /\ d # n => challenges'[d].consumed
  <2>1. \A d \in D : /\ challenges[d].created <= clock /\ challenges[d].attempts <= AttemptsPerCode
                     /\ d # n => challenges[d].consumed
    BY <1>c, <1>d
  <2> QED BY <1>1, <1>2, <1>3, <1>7, <2>1
<1>14. \A d, e \in D : d <= e => challenges'[d].created <= challenges'[e].created
  <2>1. \A d, e \in D : d <= e => challenges[d].created <= challenges[e].created
    BY <1>e
  <2> QED BY <1>3, <2>1
<1> QED BY <1>2, <1>11, <1>12, <1>13, <1>14 DEF CodesInv

---------------------------------------------------------------------------
(* The steps of a request.                                                 *)

LEMMA NoVisitFacts == NoVisit \in Visit /\ NoSession \in Session
<1>1. NoSession \in Session
  BY DEF NoSession, Session
<1>2. PICK session \in Session : session = NoSession
  BY <1>1
<1>3. [at |-> "idle", session |-> session, code |-> 0] \in Visit
  BY DEF Visit, Places
<1> QED BY <1>2, <1>3 DEF NoVisit

LEMMA LeaveFacts ==
  ASSUME SignInTypes, NEW h \in Requests, Leave(h)
  PROVE  /\ visit' \in [Requests -> Visit] /\ ~Entering(h)'
         /\ \A g \in Requests : g # h => visit'[g] = visit[g]
         /\ \A g \in Requests : Entering(g)' => Entering(g) /\ visit'[g].session = visit[g].session
<1>1. visit' \in [Requests -> Visit] /\ visit'[h] = NoVisit
      /\ \A g \in Requests : g # h => visit'[g] = visit[g]
  BY NoVisitFacts DEF SignInTypes, Leave
<1>2. ~Entering(h)'
  BY <1>1 DEF Entering, NoVisit
<1> QED BY <1>1, <1>2 DEF Entering

LEMMA MoveToFacts ==
  ASSUME SignInTypes, NEW h \in Requests, NEW place \in Places, MoveTo(h, place)
  PROVE  /\ visit' \in [Requests -> Visit]
         /\ \A g \in Requests : visit'[g].session = visit[g].session
         /\ \A g \in Requests : g # h => visit'[g] = visit[g]
         /\ visit'[h].at = place
<1>1. visit' = [visit EXCEPT ![h] = [visit[h] EXCEPT !.at = place]]
  BY DEF MoveTo
<1>2. [visit[h] EXCEPT !.at = place] \in Visit /\ [visit[h] EXCEPT !.at = place].at = place
      /\ [visit[h] EXCEPT !.at = place].session = visit[h].session
  BY SignInFacts DEF Visit
<1> QED BY <1>1, <1>2, SignInFacts

LEMMA WithFacts ==
  ASSUME SignInTypes, NEW h \in Requests, NEW place \in Places, NEW session \in Session,
         With(h, place, session)
  PROVE  /\ visit' \in [Requests -> Visit]
         /\ \A g \in Requests : g # h => visit'[g] = visit[g]
         /\ visit'[h].at = place /\ visit'[h].session = session
<1>1. [NoVisit EXCEPT !.at = place, !.session = session]
        = [at |-> place, session |-> session, code |-> 0]
  <2>1. [NoVisit EXCEPT !.at = place] = [at |-> place, session |-> NoSession, code |-> 0]
    BY DEF NoVisit
  <2>2. [[at |-> place, session |-> NoSession, code |-> 0] EXCEPT !.session = session]
          = [at |-> place, session |-> session, code |-> 0]
    OBVIOUS
  <2> QED BY <2>1, <2>2
<1>2. [at |-> place, session |-> session, code |-> 0] \in Visit
  BY DEF Visit
<1> QED BY <1>1, <1>2 DEF With, SignInTypes

PersonRow == [status : {"ACTIVE", "CLOSED", "DELETION_PENDING", "DELETED"}, version : Nat,
              password : Nat, failures : Nat, lockedUntil : Nat,
              phone : Phones \cup {0}, verified : Phones \cup {0}]

LEMMA TypesFacts ==
  ASSUME SignInTypes
  PROVE  /\ person \in PersonRow /\ sessions \subseteq Session /\ resets \subseteq [id : Nat, expires : Nat]
         /\ made \in [logins : 0..MaxLogins, resets : 0..MaxResets]
BY DEF SignInTypes, IdentityTypeOK, PersonRow

\* The types, as a step of a request keeps them that makes no code.
LEMMA TypesKept ==
  ASSUME SignInTypes, visit' \in [Requests -> Visit], person' \in PersonRow, sessions' \subseteq Session,
         resets' \subseteq [id : Nat, expires : Nat], UNCHANGED <<clock, challenges, made, stops>>
  PROVE  SignInTypes'
<1>1. \A h \in Requests : visit'[h].session \in Session
  BY DEF Visit
<1> QED BY <1>1 DEF SignInTypes, IdentityTypeOK, PersonRow

\* What a step keeps that brings no session nearer.
LEMMA InvKept ==
  ASSUME SignInInv, SignInTypes', NobodyEnters, VersionTells, RowInvariant', CodesInv'
  PROVE  SignInInv'
<1>1. made'.logins \in Nat /\ person'.version \in Nat
  <2>1. MaxLogins \in Nat
    BY SignInNumbers
  <2> QED BY <2>1 DEF SignInTypes, IdentityTypeOK
<1>2. LoginsInv'
  BY <1>1, LoginsKept DEF SignInInv
<1>3. SessionsInv'
  BY <1>1, SessionsKept DEF SignInInv
<1> QED BY <1>2, <1>3 DEF SignInInv

LEMMA SameCodes ==
  ASSUME SignInInv, SignInTypes', challenges' = challenges, clock' = clock
  PROVE  CodesInv'
<1>1. NothingIsGuessed
  BY DEF NothingIsGuessed
<1> QED BY <1>1, SignInFacts, CodesKept DEF SignInInv

\* What a step of a request keeps that leaves the row and the codes alone.
LEMMA RestKept ==
  ASSUME SignInInv, SignInTypes', NobodyEnters, Insertable \/ resets' \subseteq resets,
         UNCHANGED <<clock, person, challenges>>
  PROVE  SignInInv'
<1>1. RowInvariant'
  BY DEF SignInInv, RowInvariant, DeletedIsErased, VerifiedIsCurrent, NobodyEnters, Insertable
<1> QED BY <1>1, InvKept, SameCodes DEF VersionTells

LEMMA TickKeeps == ASSUME SignInInv, Tick PROVE SignInInv'
<1>1. SignInTypes'
  BY SignInNumbers DEF SignInInv, Tick, secrets, SignInTypes, IdentityTypeOK
<1>2. NobodyEnters
  BY SignInFacts DEF SignInInv, Tick, secrets, NobodyEnters, Entering
<1>3. LoginsInv' /\ SessionsInv'
  BY <1>2, SignInFacts, LoginsKept, SessionsKept DEF SignInInv, Tick, VersionTells
<1>4. RowInvariant'
  BY DEF SignInInv, Tick, secrets, RowInvariant, DeletedIsErased, VerifiedIsCurrent
<1>5. CodesInv'
  <2>1. NothingIsGuessed
    BY DEF NothingIsGuessed, Tick, secrets
  <2>2. clock' >= clock
    BY SignInFacts DEF Tick, SignInInv
  <2> QED BY <1>1, <2>1, <2>2, CodesKept DEF SignInInv
<1> QED BY <1>1, <1>3, <1>4, <1>5 DEF SignInInv

(* A sign-in gets a number that no session and no request has.             *)
LEMMA LoginKeeps == ASSUME SignInInv, NEW h \in Requests, Login(h) PROVE SignInInv'
<1> DEFINE session == [login |-> made.logins + 1, version |-> person.version,
                       under |-> person.password, expires |-> 0]
<1>0. [NoSession EXCEPT !.login = made.logins + 1, !.version = person.version,
                         !.under = person.password] = session
  <2>1. PICK x, y, z : x = made.logins + 1 /\ y = person.version /\ z = person.password
    OBVIOUS
  <2>2. PICK r : r = [login |-> x, version |-> 0, under |-> 0, expires |-> 0]
    OBVIOUS
  <2>3. PICK q : q = [login |-> x, version |-> y, under |-> 0, expires |-> 0]
    OBVIOUS
  <2>4. [NoSession EXCEPT !.login = x] = r
    BY <2>2 DEF NoSession
  <2>5. [r EXCEPT !.version = y] = q
    BY <2>2, <2>3
  <2>6. [q EXCEPT !.under = z] = [login |-> x, version |-> y, under |-> z, expires |-> 0]
    BY <2>3
  <2>7. [NoSession EXCEPT !.login = x, !.version = y, !.under = z]
          = [[[NoSession EXCEPT !.login = x] EXCEPT !.version = y] EXCEPT !.under = z]
    OBVIOUS
  <2>8. @ = [[r EXCEPT !.version = y] EXCEPT !.under = z]
    BY <2>4
  <2>9. @ = [q EXCEPT !.under = z]
    BY <2>5
  <2>10. [NoSession EXCEPT !.login = x, !.version = y, !.under = z]
           = [login |-> x, version |-> y, under |-> z, expires |-> 0]
    BY <2>6, <2>7, <2>8, <2>9
  <2> QED BY <2>1, <2>10
<1>1. PICK place \in {"entering", "failing"} : With(h, place, session)
  BY <1>0 DEF Login
<1>2. session \in Session /\ place \in Places
  BY <1>1, SignInFacts DEF SignInInv, Session, Places
<1>3. /\ visit' \in [Requests -> Visit] /\ visit'[h].at = place /\ visit'[h].session = session
      /\ \A g \in Requests : g # h => visit'[g] = visit[g]
  BY <1>1, <1>2, WithFacts DEF SignInInv
<1>4. /\ made' = [made EXCEPT !.logins = made.logins + 1]
      /\ made'.logins = made.logins + 1 /\ made'.logins \in 0..MaxLogins
      /\ made' \in [logins : 0..MaxLogins, resets : 0..MaxResets]
  <2>1. made \in [logins : 0..MaxLogins, resets : 0..MaxResets] /\ made.logins < MaxLogins
    BY DEF Login, SignInInv, SignInTypes, IdentityTypeOK
  <2>2. made' = [made EXCEPT !.logins = made.logins + 1]
    BY DEF Login
  <2>3. made.logins + 1 \in 0..MaxLogins
    BY <2>1, SignInNumbers
  <2> QED BY <2>1, <2>2, <2>3
<1>5. SignInTypes'
  BY <1>3, <1>4 DEF Login, secrets, SignInInv, SignInTypes, IdentityTypeOK, Visit
<1>6. UNCHANGED <<clock, person, sessions, resets, challenges, stops>>
  BY DEF Login, secrets
<1>7. LoginsInv'
  <2>0. made.logins \in Nat
    BY SignInFacts DEF SignInInv
  <2>1. ASSUME NEW n \in 1..made.logins PROVE n \in 1..made'.logins /\ n # session.login
    BY <1>4, <2>0
  <2>2. session.login \in 1..made'.logins
    BY <1>4, <2>0
  <2>3. \A g \in Requests : g # h => Entering(g)' = Entering(g) /\ visit'[g].session = visit[g].session
    BY <1>3 DEF Entering
  <2> HIDE DEF session
  <2>4. \A s \in sessions' : s.login \in 1..made'.logins /\ s.login # session.login
    BY <1>6, <2>1 DEF SignInInv, LoginsInv
  <2>5. \A g \in Requests : g # h /\ Entering(g)' =>
          visit'[g].session.login \in 1..made'.logins /\ visit'[g].session.login # session.login
    BY <2>1, <2>3 DEF SignInInv, LoginsInv
  <2>6. \A g \in Requests : Entering(g)' => visit'[g].session.login \in 1..made'.logins
    BY <1>3, <2>2, <2>5
  <2>7. \A s, t \in sessions' : s.login = t.login => s = t
    BY <1>6 DEF SignInInv, LoginsInv
  <2>8. \A f, g \in Requests :
          Entering(f)' /\ Entering(g)' /\ visit'[f].session.login = visit'[g].session.login => f = g
    BY <1>3, <2>3, <2>5 DEF SignInInv, LoginsInv
  <2>9. \A s \in sessions', g \in Requests : Entering(g)' => s.login # visit'[g].session.login
    BY <1>3, <1>6, <2>3, <2>4 DEF SignInInv, LoginsInv
  <2> QED BY <2>4, <2>6, <2>7, <2>8, <2>9 DEF LoginsInv
<1>8. SessionsInv'
  <2>1. \A s : Fits(s)' <=> Fits(s)
    BY <1>6 DEF Fits
  <2>2. Fits(session)
    BY SignInFacts DEF Fits, SignInInv
  <2>3. \A g \in Requests : Entering(g)' => Fits(visit'[g].session)
    BY <1>3, <2>2 DEF SignInInv, SessionsInv, Entering
  <2>4. \A g \in Requests : Entering(g)' => Fits(visit[g].session)'
    BY <1>6, <2>3 DEF Fits
  <2> QED BY <1>6, <2>1, <2>4 DEF SignInInv, SessionsInv
<1>9. RowInvariant'
  BY <1>6 DEF SignInInv, RowInvariant, DeletedIsErased, VerifiedIsCurrent
<1>10. CodesInv'
  <2>1. NothingIsGuessed
    BY <1>6 DEF NothingIsGuessed
  <2> QED BY <1>5, <1>6, <2>1, SignInFacts, CodesKept DEF SignInInv
<1> QED BY <1>5, <1>7, <1>8, <1>9, <1>10 DEF SignInInv

---------------------------------------------------------------------------
(* Steps that bring no session nearer.                                     *)

LEMMA LeaveEnters ==
  ASSUME SignInTypes, NEW h \in Requests, Leave(h), sessions' \subseteq sessions, made' = made
  PROVE  NobodyEnters /\ visit' \in [Requests -> Visit]
<1>1. made'.logins >= made.logins
  BY SignInFacts
<1> QED BY <1>1, LeaveFacts DEF NobodyEnters

LEMMA AuthenticateKeeps == ASSUME SignInInv, NEW h \in Requests, Authenticate(h) PROVE SignInInv'
<1> USE DEF SignInInv
<1>1. PICK session \in sessions, place \in {"leaving", "deleting", "updating", "sending", "guessing"} :
        With(h, place, session)
  BY DEF Authenticate
<1>2. UNCHANGED <<clock, person, sessions, resets, challenges, made, stops>>
  BY DEF Authenticate, secrets
<1>3. place \in Places /\ session \in Session
  BY <1>1, SignInFacts DEF Places
<1>4. /\ visit' \in [Requests -> Visit] /\ visit'[h].at = place
      /\ \A g \in Requests : g # h => visit'[g] = visit[g]
  BY <1>1, <1>3, WithFacts
<1>5. NobodyEnters
  <2>1. made'.logins >= made.logins
    BY <1>2, SignInFacts
  <2>2. ~Entering(h)'
    BY <1>1, <1>4 DEF Entering
  <2> QED BY <1>2, <1>4, <2>1, <2>2 DEF NobodyEnters, Entering
<1>6. SignInTypes'
  BY <1>2, <1>4, TypesKept, TypesFacts
<1> QED BY <1>2, <1>5, <1>6, RestKept

LEMMA LogoutKeeps == ASSUME SignInInv, NEW h \in Requests, Logout(h) PROVE SignInInv'
<1> USE DEF SignInInv
<1>1. /\ UNCHANGED <<clock, person, resets, challenges, made, stops>>
      /\ sessions' \subseteq sessions /\ Leave(h)
  BY DEF Logout
<1>2. NobodyEnters /\ visit' \in [Requests -> Visit]
  BY <1>1, LeaveEnters
<1>3. SignInTypes'
  BY <1>1, <1>2, TypesKept, TypesFacts
<1> QED BY <1>1, <1>2, <1>3, RestKept

LEMMA MoveEnters ==
  ASSUME SignInTypes, NEW h \in Requests, NEW place \in Places, MoveTo(h, place),
         place \in {"entering", "issuing", "checking"} => Entering(h), sessions' \subseteq sessions,
         made' = made
  PROVE  NobodyEnters /\ visit' \in [Requests -> Visit]
<1>1. made'.logins >= made.logins
  BY SignInFacts
<1>2. /\ visit' \in [Requests -> Visit] /\ visit'[h].at = place
      /\ \A g \in Requests : visit'[g].session = visit[g].session
      /\ \A g \in Requests : g # h => visit'[g] = visit[g]
  BY MoveToFacts
<1>3. Entering(h)' => Entering(h)
  BY <1>2 DEF Entering
<1>4. \A g \in Requests : Entering(g)' => Entering(g)
  BY <1>2, <1>3 DEF Entering
<1> QED BY <1>1, <1>2, <1>4 DEF NobodyEnters

LEMMA CheckRefreshKeeps == ASSUME SignInInv, NEW h \in Requests, CheckRefresh(h) PROVE SignInInv'
<1> USE DEF SignInInv
<1>1. /\ UNCHANGED <<clock, person, sessions, resets, challenges, made, stops>>
      /\ Entering(h) /\ (MoveTo(h, "issuing") \/ Leave(h))
  BY DEF CheckRefresh, secrets, At, Entering
<1>2. "issuing" \in Places
  BY DEF Places
<1>3. NobodyEnters /\ visit' \in [Requests -> Visit]
  BY <1>1, <1>2, LeaveEnters, MoveEnters
<1>4. SignInTypes'
  BY <1>1, <1>3, TypesKept, TypesFacts
<1> QED BY <1>1, <1>3, <1>4, RestKept

LEMMA ClearResetsKeeps == ASSUME SignInInv, NEW h \in Requests, ClearResets(h) PROVE SignInInv'
<1> USE DEF SignInInv
<1>1. /\ UNCHANGED <<clock, person, sessions, challenges, made, stops>>
      /\ resets' = {} /\ MoveTo(h, "linking")
  BY DEF ClearResets
<1>2. "linking" \in Places
  BY DEF Places
<1>3. NobodyEnters /\ visit' \in [Requests -> Visit]
  BY <1>1, <1>2, MoveEnters
<1>4. SignInTypes'
  BY <1>1, <1>3, TypesKept, TypesFacts
<1> QED BY <1>1, <1>3, <1>4, RestKept

LEMMA CreateResetKeeps == ASSUME SignInInv, NEW h \in Requests, CreateReset(h) PROVE SignInInv'
<1> USE DEF SignInInv
<1>1. UNCHANGED <<clock, person, sessions, challenges, made, stops>> /\ Leave(h)
  BY DEF CreateReset
<1>2. NobodyEnters /\ visit' \in [Requests -> Visit]
  BY <1>1, LeaveEnters
<1>3. [id |-> visit[h].code, expires |-> clock + ResetTtl] \in [id : Nat, expires : Nat]
  BY SignInFacts, SignInNumbers DEF Visit
<1>4. resets' \subseteq [id : Nat, expires : Nat]
  BY <1>3, TypesFacts DEF CreateReset
<1>5. Insertable \/ resets' \subseteq resets
  BY DEF CreateReset
<1>6. SignInTypes'
  BY <1>1, <1>2, <1>4, TypesKept, TypesFacts
<1> QED BY <1>1, <1>2, <1>5, <1>6, RestKept

LEMMA ForgotPasswordKeeps == ASSUME SignInInv, NEW h \in Requests, ForgotPassword(h) PROVE SignInInv'
<1> USE DEF SignInInv
<1>1. /\ UNCHANGED <<clock, person, sessions, resets, challenges, stops>>
      /\ made' = [made EXCEPT !.resets = made.resets + 1] /\ made.resets < MaxResets
      /\ visit' = [visit EXCEPT ![h] = [NoVisit EXCEPT !.at = "clearing", !.code = made.resets + 1]]
  BY DEF ForgotPassword, secrets
<1>2. /\ made' \in [logins : 0..MaxLogins, resets : 0..MaxResets] /\ made'.logins = made.logins
      /\ made.resets + 1 \in Nat
  <2>1. made.resets + 1 \in 0..MaxResets /\ made.resets + 1 \in Nat
    BY <1>1, SignInFacts, SignInNumbers
  <2> QED BY <1>1, <2>1, TypesFacts
<1>3. PICK place \in Places : place = "clearing"
  BY DEF Places
<1>4. [NoVisit EXCEPT !.at = place, !.code = made.resets + 1]
        = [at |-> place, session |-> NoSession, code |-> made.resets + 1]
  <2>0. PICK n : n = made.resets + 1
    OBVIOUS
  <2>1. PICK r : r = [at |-> place, session |-> NoSession, code |-> 0]
    OBVIOUS
  <2>2. [NoVisit EXCEPT !.at = place] = r
    BY <2>1 DEF NoVisit
  <2>3. [r EXCEPT !.code = n] = [at |-> place, session |-> NoSession, code |-> n]
    BY <2>1
  <2>4. [NoVisit EXCEPT !.at = place, !.code = n] = [[NoVisit EXCEPT !.at = place] EXCEPT !.code = n]
    OBVIOUS
  <2>5. [NoVisit EXCEPT !.at = place, !.code = n] = [r EXCEPT !.code = n]
    BY <2>2, <2>4
  <2>6. [NoVisit EXCEPT !.at = place, !.code = n] = [at |-> place, session |-> NoSession, code |-> n]
    BY <2>3, <2>5
  <2> QED BY <2>0, <2>6
<1>5. [at |-> place, session |-> NoSession, code |-> made.resets + 1] \in Visit
  <2>1. NoSession \in Session
    BY NoVisitFacts
  <2> QED BY <1>2, <2>1 DEF Visit
<1>6. /\ visit' \in [Requests -> Visit] /\ visit'[h].at = "clearing"
      /\ \A g \in Requests : g # h => visit'[g] = visit[g]
  BY <1>1, <1>3, <1>4, <1>5, SignInFacts
<1>7. NobodyEnters
  <2>1. made'.logins >= made.logins
    BY <1>2, SignInFacts
  <2>2. ~Entering(h)'
    BY <1>6 DEF Entering
  <2> QED BY <1>1, <1>6, <2>1, <2>2 DEF NobodyEnters, Entering
<1>8. SignInTypes'
  <2>1. \A g \in Requests : visit'[g].session \in Session
    BY <1>6 DEF Visit
  <2> QED BY <1>1, <1>2, <1>6, <2>1 DEF SignInTypes, IdentityTypeOK
<1> QED BY <1>1, <1>7, <1>8, RestKept

LEMMA AbandonKeeps == ASSUME SignInInv, NEW h \in Requests, Abandon(h) PROVE SignInInv'
<1> USE DEF SignInInv
<1>1. /\ UNCHANGED <<clock, person, sessions, resets, challenges, made>> /\ Leave(h)
      /\ stops < MaxStops /\ stops' = stops + 1
  BY DEF Abandon, secrets
<1>2. NobodyEnters /\ visit' \in [Requests -> Visit]
  BY <1>1, LeaveEnters
<1>3. SignInTypes'
  <2>1. stops' \in 0..MaxStops
    BY <1>1, SignInNumbers DEF SignInTypes, IdentityTypeOK
  <2>2. \A g \in Requests : visit'[g].session \in Session
    BY <1>2 DEF Visit
  <2> QED BY <1>1, <1>2, <2>1, <2>2 DEF SignInTypes, IdentityTypeOK
<1> QED BY <1>1, <1>2, <1>3, RestKept

LEMMA NothingKeeps == ASSUME SignInInv, UNCHANGED identityVars PROVE SignInInv'
<1> USE DEF SignInInv
<1>1. UNCHANGED <<clock, person, sessions, resets, challenges, made, visit, stops>>
  BY DEF identityVars
<1>2. NobodyEnters
  BY <1>1, SignInFacts DEF NobodyEnters, Entering
<1>3. SignInTypes'
  BY <1>1, TypesKept, TypesFacts, SignInFacts
<1> QED BY <1>1, <1>2, <1>3, RestKept

---------------------------------------------------------------------------
(* Steps that change the row.                                              *)

\* A row with other numbers in it.
WithFailures(owner, n, m) == [owner EXCEPT !.failures = n, !.lockedUntil = m]
WithStatus(owner, status, n) == [owner EXCEPT !.status = status, !.version = n]
WithPassword(owner, n, m) == [owner EXCEPT !.password = n, !.version = m]

LEMMA RowOpens ==
  ASSUME NEW owner \in PersonRow, NEW n \in Nat, NEW m \in Nat,
         NEW r, r = WithFailures(owner, n, m)
  PROVE  /\ r \in PersonRow /\ r.status = owner.status /\ r.version = owner.version
         /\ r.password = owner.password /\ r.phone = owner.phone /\ r.verified = owner.verified
<1>1. [owner EXCEPT !.failures = n] \in PersonRow
  BY DEF PersonRow
<1>2. \A q \in PersonRow : [q EXCEPT !.lockedUntil = m] \in PersonRow
  BY DEF PersonRow
<1>3. r = [[owner EXCEPT !.failures = n] EXCEPT !.lockedUntil = m]
  BY DEF PersonRow, WithFailures
<1>4. /\ r.status = owner.status /\ r.version = owner.version
      /\ r.password = owner.password /\ r.phone = owner.phone /\ r.verified = owner.verified
  BY DEF PersonRow, WithFailures
<1> QED BY <1>1, <1>2, <1>3, <1>4

LEMMA RowCloses ==
  ASSUME NEW owner \in PersonRow, NEW n \in Nat, NEW status \in {"CLOSED", "DELETION_PENDING"},
         NEW r, r = WithStatus(owner, status, n)
  PROVE  /\ r \in PersonRow /\ r.status = status /\ r.version = n
         /\ r.phone = owner.phone /\ r.verified = owner.verified
<1>1. [owner EXCEPT !.status = status] \in PersonRow
  BY DEF PersonRow
<1>2. \A q \in PersonRow : [q EXCEPT !.version = n] \in PersonRow
  BY DEF PersonRow
<1>3. r = [[owner EXCEPT !.status = status] EXCEPT !.version = n]
  BY DEF PersonRow, WithStatus
<1>4. r.status = status /\ r.version = n /\ r.phone = owner.phone /\ r.verified = owner.verified
  BY DEF PersonRow, WithStatus
<1> QED BY <1>1, <1>2, <1>3, <1>4

LEMMA RowResets ==
  ASSUME NEW owner \in PersonRow, NEW n \in Nat, NEW m \in Nat,
         NEW r, r = WithPassword(owner, n, m)
  PROVE  /\ r \in PersonRow /\ r.status = owner.status /\ r.version = m
         /\ r.phone = owner.phone /\ r.verified = owner.verified
<1>1. [owner EXCEPT !.password = n] \in PersonRow
  BY DEF PersonRow
<1>2. \A q \in PersonRow : [q EXCEPT !.version = m] \in PersonRow
  BY DEF PersonRow
<1>3. r = [[owner EXCEPT !.password = n] EXCEPT !.version = m]
  BY DEF PersonRow, WithPassword
<1>4. r.status = owner.status /\ r.version = m /\ r.phone = owner.phone /\ r.verified = owner.verified
  BY DEF PersonRow, WithPassword
<1> QED BY <1>1, <1>2, <1>3, <1>4

LEMMA RecordLoginFailureKeeps ==
  ASSUME SignInInv, NEW h \in Requests, RecordLoginFailure(h) PROVE SignInInv'
<1> USE DEF SignInInv
<1>1. UNCHANGED <<clock, sessions, resets, challenges, made, stops>> /\ Leave(h)
  BY DEF RecordLoginFailure, secrets
<1>2. PICK n, until : /\ person' = [person EXCEPT !.failures = n, !.lockedUntil = until]
                      /\ n = person.failures + 1
                      /\ until = IF n >= MaxFailures THEN clock + LockTtl ELSE person.lockedUntil
  BY DEF RecordLoginFailure
<1>3. n \in Nat /\ until \in Nat
  BY <1>2, TypesFacts, SignInFacts, SignInNumbers DEF PersonRow
<1>4. /\ person' \in PersonRow /\ person'.status = person.status /\ person'.version = person.version
      /\ person'.password = person.password /\ person'.phone = person.phone
      /\ person'.verified = person.verified
  BY <1>2, <1>3, TypesFacts DEF PersonRow
<1>5. NobodyEnters /\ visit' \in [Requests -> Visit]
  BY <1>1, LeaveEnters
<1>6. SignInTypes'
  BY <1>1, <1>4, <1>5, TypesKept, TypesFacts
<1>7. RowInvariant'
  BY <1>1, <1>4 DEF RowInvariant, DeletedIsErased, VerifiedIsCurrent
<1> QED BY <1>1, <1>4, <1>5, <1>6, <1>7, InvKept, SameCodes DEF VersionTells

LEMMA CompleteLoginKeeps ==
  ASSUME SignInInv, NEW h \in Requests, CompleteLogin(h) PROVE SignInInv'
<1> USE DEF SignInInv
<1>1. /\ UNCHANGED <<clock, sessions, resets, challenges, made, stops>> /\ Entering(h)
      /\ MoveTo(h, "issuing") \/ Leave(h)
      /\ person' = person \/ person' = [person EXCEPT !.failures = 0, !.lockedUntil = 0]
  BY DEF CompleteLogin, secrets, At, Entering
<1>2. "issuing" \in Places
  BY DEF Places
<1>3. /\ person' \in PersonRow /\ person'.status = person.status /\ person'.version = person.version
      /\ person'.password = person.password /\ person'.phone = person.phone
      /\ person'.verified = person.verified
  <2>1. 0 \in Nat /\ person \in PersonRow
    BY TypesFacts
  <2>2. person' = person \/ person' = WithFailures(person, 0, 0)
    BY <1>1 DEF WithFailures
  <2> QED BY <2>1, <2>2, RowOpens
<1>4. NobodyEnters /\ visit' \in [Requests -> Visit]
  BY <1>1, <1>2, LeaveEnters, MoveEnters
<1>5. SignInTypes'
  BY <1>1, <1>3, <1>4, TypesKept, TypesFacts
<1>6. RowInvariant'
  BY <1>1, <1>3 DEF RowInvariant, DeletedIsErased, VerifiedIsCurrent
<1> QED BY <1>1, <1>3, <1>4, <1>5, <1>6, InvKept, SameCodes DEF VersionTells

\* Nobody is nearer to a session when there are none left.
LEMMA EmptyEnters ==
  ASSUME SignInTypes, sessions' = {}, made' = made, visit' = visit
  PROVE  NobodyEnters
<1>1. made'.logins >= made.logins
  BY SignInFacts
<1> QED BY <1>1 DEF NobodyEnters, Entering

LEMMA ResetPasswordKeeps == ASSUME SignInInv, ResetPassword PROVE SignInInv'
<1> USE DEF SignInInv
<1>1. /\ UNCHANGED <<clock, challenges, made, visit, stops>> /\ sessions' = {}
      /\ person' = PasswordReset /\ resets' \subseteq resets /\ IsActive
  BY DEF ResetPassword
<1>2. person' = [person EXCEPT !.password = person.password + 1, !.version = person.version + 1,
                               !.failures = 0, !.lockedUntil = 0]
  BY <1>1 DEF PasswordReset
<1>3. /\ person' \in PersonRow /\ person'.status = person.status
      /\ person'.version = person.version + 1 /\ person'.phone = person.phone
      /\ person'.verified = person.verified
  <2>1. PICK r \in PersonRow : r = person
    BY TypesFacts
  <2>2. PICK n \in Nat, m \in Nat : n = r.password + 1 /\ m = r.version + 1
    BY DEF PersonRow
  <2>3. PICK s : s = WithPassword(r, n, m)
    OBVIOUS
  <2>4. /\ s \in PersonRow /\ s.status = r.status /\ s.version = m
        /\ s.phone = r.phone /\ s.verified = r.verified
    BY <2>3, RowResets
  <2>5. person' = [[s EXCEPT !.failures = 0] EXCEPT !.lockedUntil = 0]
    BY <1>2, <2>1, <2>2, <2>3 DEF PersonRow, WithPassword
  <2>6. WithFailures(s, 0, 0) = [[s EXCEPT !.failures = 0] EXCEPT !.lockedUntil = 0]
    BY <2>4 DEF PersonRow, WithFailures
  <2>7. person' = WithFailures(s, 0, 0)
    BY <2>5, <2>6
  <2>8. 0 \in Nat
    OBVIOUS
  <2>9. /\ person' \in PersonRow /\ person'.status = s.status /\ person'.version = s.version
        /\ person'.phone = s.phone /\ person'.verified = s.verified
    BY <2>7, <2>4, <2>8, RowOpens
  <2> QED BY <2>1, <2>2, <2>4, <2>9
<1>4. NobodyEnters /\ visit' \in [Requests -> Visit]
  BY <1>1, EmptyEnters, SignInFacts
<1>5. SignInTypes'
  BY <1>1, <1>3, <1>4, TypesKept, TypesFacts
<1>6. RowInvariant'
  BY <1>1, <1>3 DEF RowInvariant, DeletedIsErased, VerifiedIsCurrent, IsActive
<1>7. VersionTells
  BY <1>3, SignInFacts DEF VersionTells
<1> QED BY <1>1, <1>4, <1>5, <1>6, <1>7, InvKept, SameCodes

LEMMA ClosedFacts ==
  ASSUME SignInInv, NEW status \in {"CLOSED", "DELETION_PENDING"}, IsActive, Closed(status)
  PROVE  /\ person' \in PersonRow /\ sessions' = {} /\ resets' = {} /\ VersionTells
         /\ challenges' = challenges => RowInvariant'
<1> USE DEF SignInInv
<1>1. /\ person' = [person EXCEPT !.status = status, !.version = person.version + 1]
      /\ sessions' = {} /\ resets' = {}
  BY DEF Closed
<1>2. /\ person' \in PersonRow /\ person'.status = status /\ person'.version = person.version + 1
      /\ person'.phone = person.phone /\ person'.verified = person.verified
  <2>1. person \in PersonRow /\ person.version + 1 \in Nat
    BY TypesFacts, SignInFacts
  <2>2. PICK n \in Nat : n = person.version + 1
    BY <2>1
  <2>3. person' = WithStatus(person, status, n)
    BY <1>1, <2>2 DEF WithStatus
  <2>4. PICK owner \in PersonRow : owner = person
    BY <2>1
  <2>5. PICK r : r = WithStatus(owner, status, n)
    OBVIOUS
  <2>6. /\ r \in PersonRow /\ r.status = status /\ r.version = n
        /\ r.phone = owner.phone /\ r.verified = owner.verified
    BY <2>5, RowCloses
  <2> QED BY <2>2, <2>3, <2>4, <2>5, <2>6
<1>3. VersionTells
  BY <1>2, SignInFacts DEF VersionTells
<1>4. challenges' = challenges => RowInvariant'
  BY <1>1, <1>2 DEF RowInvariant, DeletedIsErased, VerifiedIsCurrent, IsActive
<1> QED BY <1>1, <1>2, <1>3, <1>4

LEMMA DeactivateKeeps == ASSUME SignInInv, Deactivate PROVE SignInInv'
<1> USE DEF SignInInv
<1>1. UNCHANGED <<clock, challenges, made, visit, stops>> /\ IsActive /\ Closed("CLOSED")
  BY DEF Deactivate
<1>2. person' \in PersonRow /\ sessions' = {} /\ resets' = {} /\ VersionTells /\ RowInvariant'
  BY <1>1, ClosedFacts
<1>3. NobodyEnters /\ visit' \in [Requests -> Visit]
  BY <1>1, <1>2, EmptyEnters, SignInFacts
<1>4. SignInTypes'
  BY <1>1, <1>2, <1>3, TypesKept, TypesFacts
<1> QED BY <1>1, <1>2, <1>3, <1>4, InvKept, SameCodes

LEMMA BeginDeletionKeeps ==
  ASSUME SignInInv, NEW h \in Requests, BeginDeletion(h) PROVE SignInInv'
<1> USE DEF SignInInv
<1>1. UNCHANGED <<clock, challenges, made, stops>> /\ Leave(h)
  BY DEF BeginDeletion
<1>2. CASE UNCHANGED <<person, sessions, resets>>
  <2>1. NobodyEnters /\ visit' \in [Requests -> Visit]
    BY <1>1, <1>2, LeaveEnters
  <2>2. SignInTypes'
    BY <1>1, <1>2, <2>1, TypesKept, TypesFacts
  <2> QED BY <1>1, <1>2, <2>1, <2>2, RestKept
<1>3. CASE IsActive /\ Closed("DELETION_PENDING")
  <2>1. person' \in PersonRow /\ sessions' = {} /\ resets' = {} /\ VersionTells /\ RowInvariant'
    BY <1>1, <1>3, ClosedFacts
  <2>2. NobodyEnters /\ visit' \in [Requests -> Visit]
    BY <1>1, <2>1, LeaveEnters
  <2>3. SignInTypes'
    BY <1>1, <2>1, <2>2, TypesKept, TypesFacts
  <2> QED BY <1>1, <2>1, <2>2, <2>3, InvKept, SameCodes
<1> QED BY <1>2, <1>3 DEF BeginDeletion

LEMMA EraseKeeps == ASSUME SignInInv, Erase PROVE SignInInv'
<1> USE DEF SignInInv
<1>1. /\ UNCHANGED <<clock, made, visit, stops>>
      /\ sessions' = {} /\ resets' = {} /\ challenges' = <<>>
      /\ person' = [person EXCEPT !.status = "DELETED", !.version = person.version + 1,
                      !.password = 0, !.failures = 0, !.lockedUntil = 0, !.phone = 0, !.verified = 0]
  BY DEF Erase
<1>2. /\ person' \in PersonRow /\ person'.status = "DELETED" /\ person'.phone = 0
      /\ person'.version = person.version + 1 /\ person'.verified = 0
  <2>1. person \in PersonRow /\ person.version + 1 \in Nat
    BY TypesFacts DEF PersonRow
  <2>2. PICK p1 : p1 = [person EXCEPT !.status = "DELETED"]
    OBVIOUS
  <2>3. /\ p1 \in PersonRow
         /\ p1.status = "DELETED"
    BY <2>1, <2>2 DEF PersonRow
  <2>4. PICK p2 : p2 = [p1 EXCEPT !.version = person.version + 1]
    OBVIOUS
  <2>5. /\ p2 \in PersonRow
         /\ p2.status = "DELETED" /\ p2.version = person.version + 1
    BY <2>1, <2>3, <2>4 DEF PersonRow
  <2>6. PICK p3 : p3 = [p2 EXCEPT !.password = 0]
    OBVIOUS
  <2>7. /\ p3 \in PersonRow
         /\ p3.status = "DELETED" /\ p3.version = person.version + 1
    BY <2>1, <2>5, <2>6 DEF PersonRow
  <2>8. PICK p4 : p4 = [p3 EXCEPT !.failures = 0]
    OBVIOUS
  <2>9. /\ p4 \in PersonRow
         /\ p4.status = "DELETED" /\ p4.version = person.version + 1
    BY <2>1, <2>7, <2>8 DEF PersonRow
  <2>10. PICK p5 : p5 = [p4 EXCEPT !.lockedUntil = 0]
    OBVIOUS
  <2>11. /\ p5 \in PersonRow
         /\ p5.status = "DELETED" /\ p5.version = person.version + 1
    BY <2>1, <2>9, <2>10 DEF PersonRow
  <2>12. PICK p6 : p6 = [p5 EXCEPT !.phone = 0]
    OBVIOUS
  <2>13. /\ p6 \in PersonRow
         /\ p6.status = "DELETED" /\ p6.version = person.version + 1 /\ p6.phone = 0
    BY <2>1, <2>11, <2>12 DEF PersonRow
  <2>14. PICK p7 : p7 = [p6 EXCEPT !.verified = 0]
    OBVIOUS
  <2>15. /\ p7 \in PersonRow
         /\ p7.status = "DELETED" /\ p7.version = person.version + 1 /\ p7.phone = 0 /\ p7.verified = 0
    BY <2>1, <2>13, <2>14 DEF PersonRow
  <2>16. person' = p7
    BY <1>1, <2>2, <2>4, <2>6, <2>8, <2>10, <2>12, <2>14
  <2> QED BY <2>15, <2>16
<1>3. NobodyEnters /\ visit' \in [Requests -> Visit]
  BY <1>1, EmptyEnters, SignInFacts
<1>4. SignInTypes'
  <2>1. challenges' \in Seq(Challenge) /\ Len(challenges') <= MaxCodes
    BY <1>1, SignInNumbers
  <2> QED BY <1>1, <1>2, <1>3, <2>1 DEF SignInTypes, IdentityTypeOK, PersonRow
<1>5. RowInvariant'
  BY <1>1, <1>2 DEF RowInvariant, DeletedIsErased, VerifiedIsCurrent
<1>6. VersionTells
  BY <1>2, SignInFacts DEF VersionTells
<1>7. CodesInv'
  BY <1>1 DEF CodesInv
<1> QED BY <1>3, <1>4, <1>5, <1>6, <1>7, InvKept

---------------------------------------------------------------------------
(* Steps that change the codes.                                            *)

LEMMA CodesTypesKept ==
  ASSUME SignInTypes, visit' \in [Requests -> Visit], person' \in PersonRow,
         challenges' \in Seq(Challenge), Len(challenges') <= MaxCodes,
         UNCHANGED <<clock, sessions, resets, made, stops>>
  PROVE  SignInTypes'
<1>1. \A h \in Requests : visit'[h].session \in Session
  BY DEF Visit
<1> QED BY <1>1 DEF SignInTypes, IdentityTypeOK, PersonRow

LEMMA RowTakes ==
  ASSUME NEW owner \in PersonRow, NEW phone \in Phones \cup {0}
  PROVE  /\ [owner EXCEPT !.verified = phone] \in PersonRow
         /\ [owner EXCEPT !.phone = phone, !.verified = 0] \in PersonRow
<1>1. \A r \in PersonRow, p \in Phones \cup {0} : [r EXCEPT !.verified = p] \in PersonRow
  BY DEF PersonRow
<1>2. [owner EXCEPT !.phone = phone] \in PersonRow
  BY DEF PersonRow
<1>3. [owner EXCEPT !.phone = phone, !.verified = 0] = [[owner EXCEPT !.phone = phone] EXCEPT !.verified = 0]
  BY DEF PersonRow
<1> QED BY <1>1, <1>2, <1>3

LEMMA UpdateProfileKeeps ==
  ASSUME SignInInv, NEW h \in Requests, UpdateProfile(h) PROVE SignInInv'
<1> USE DEF SignInInv
<1>1. UNCHANGED <<clock, sessions, resets, made, stops>> /\ Leave(h)
  BY DEF UpdateProfile
<1>2. NobodyEnters /\ visit' \in [Requests -> Visit]
  BY <1>1, LeaveEnters
<1>3. CASE UNCHANGED <<person, challenges>>
  <2>1. SignInTypes'
    BY <1>1, <1>2, <1>3, TypesKept, TypesFacts
  <2> QED BY <1>1, <1>2, <1>3, <2>1, RestKept
<1>4. ASSUME NEW phone \in Phones, IsActive, challenges' = Consumed(challenges),
             person' = [person EXCEPT !.phone = phone, !.verified = 0]
      PROVE  SignInInv'
  <2>1. person \in PersonRow /\ phone \in Phones \cup {0}
    BY TypesFacts
  <2>2. person' \in PersonRow
    BY <1>4, <2>1, RowTakes
  <2>3. /\ person'.status = person.status /\ person'.version = person.version
        /\ person'.password = person.password /\ person'.phone = phone /\ person'.verified = 0
    BY <1>4, <2>1 DEF PersonRow
  <2>4. challenges' \in Seq(Challenge) /\ Len(challenges') <= MaxCodes
    <3>1. Len(challenges) <= MaxCodes
      BY DEF SignInTypes, IdentityTypeOK
    <3> QED BY <1>4, <3>1, ConsumedFacts DEF Newest
  <2>5. SignInTypes'
    BY <1>1, <1>2, <2>2, <2>4, CodesTypesKept
  <2>6. NothingIsGuessed
    <3>1. \A c \in DOMAIN challenges :
            /\ challenges[c] \in Challenge
            /\ challenges'[c] = [challenges[c] EXCEPT !.consumed = TRUE]
      BY <1>4, CodesFacts, ConsumedFacts
    <3>2. \A c \in DOMAIN challenges :
            /\ challenges'[c].created = challenges[c].created
            /\ challenges'[c].attempts = challenges[c].attempts
            /\ challenges'[c].consumed
      BY <3>1 DEF Challenge
    <3> QED BY <1>4, <3>2, ConsumedFacts DEF NothingIsGuessed, Newest
  <2>7. CodesInv'
    BY <1>1, <2>5, <2>6, CodesKept, SignInFacts
  <2>8. RowInvariant'
    BY <1>1, <1>4, <2>3 DEF RowInvariant, DeletedIsErased, VerifiedIsCurrent, IsActive
  <2> QED BY <1>2, <2>3, <2>5, <2>7, <2>8, InvKept DEF VersionTells
<1> QED BY <1>3, <1>4 DEF UpdateProfile

LEMMA SendCodeKeeps ==
  ASSUME SignInInv, NEW h \in Requests, SendCode(h) PROVE SignInInv'
<1> USE DEF SignInInv
<1>1. UNCHANGED <<clock, person, sessions, resets, made, stops>> /\ Len(challenges) < MaxCodes
  BY DEF SendCode
<1>2. CASE Leave(h) /\ UNCHANGED challenges
  <2>1. NobodyEnters /\ visit' \in [Requests -> Visit]
    BY <1>1, <1>2, LeaveEnters
  <2>2. SignInTypes'
    BY <1>1, <1>2, <2>1, TypesKept, TypesFacts
  <2> QED BY <1>1, <1>2, <2>1, <2>2, RestKept
<1>3. CASE Sendable /\ ~(Leave(h) /\ UNCHANGED challenges)
  <2>1. PICK code : code = [phone |-> person.phone, sent |-> FALSE, consumed |-> FALSE, attempts |-> 0,
                            created |-> clock, expires |-> clock + CodeTtl]
    OBVIOUS
  <2>2. /\ challenges' = Append(Consumed(challenges), code)
        /\ visit' = [visit EXCEPT ![h] = [NoVisit EXCEPT !.at = "delivering", !.code = Len(challenges) + 1]]
    BY <1>3, <2>1 DEF SendCode
  <2>3. code \in Challenge /\ code.created = clock /\ code.attempts = 0
    <3>1. person.phone \in Phones
      BY <1>3 DEF Sendable, IsActive, RowInvariant
    <3>2. clock \in Nat /\ clock + CodeTtl \in Nat
      BY SignInFacts, SignInNumbers
    <3> QED BY <2>1, <3>1, <3>2 DEF Challenge
  <2>4. challenges' \in Seq(Challenge) /\ Len(challenges') <= MaxCodes
    <3>1. PICK s \in Seq(Challenge) : s = Consumed(challenges) /\ Len(s) = Len(challenges)
      BY ConsumedFacts DEF Newest
    <3>2. challenges' = Append(s, code) /\ Len(challenges) < MaxCodes
      BY <1>1, <2>2, <3>1
    <3>3. Append(s, code) \in Seq(Challenge) /\ Len(Append(s, code)) = Len(s) + 1
      BY <2>3, <3>1
    <3>4. Len(s) \in Nat /\ Len(s) < MaxCodes
      BY <3>1, <3>2
    <3>5. Len(s) + 1 <= MaxCodes
      BY <3>4, SignInNumbers
    <3> QED BY <3>2, <3>3, <3>5
  <2>5. PICK place \in Places, n \in Nat : place = "delivering" /\ n = Len(challenges) + 1
    <3>1. Len(challenges) \in Nat /\ "delivering" \in Places
      BY CodesFacts DEF Newest, Places
    <3> QED BY <3>1
  <2>6. [NoVisit EXCEPT !.at = place, !.code = n] = [at |-> place, session |-> NoSession, code |-> n]
    <3>1. PICK r : r = [at |-> place, session |-> NoSession, code |-> 0]
      OBVIOUS
    <3>2. [NoVisit EXCEPT !.at = place] = r
      BY <3>1 DEF NoVisit
    <3>3. [r EXCEPT !.code = n] = [at |-> place, session |-> NoSession, code |-> n]
      BY <3>1
    <3>4. [NoVisit EXCEPT !.at = place, !.code = n] = [[NoVisit EXCEPT !.at = place] EXCEPT !.code = n]
      OBVIOUS
    <3>5. [NoVisit EXCEPT !.at = place, !.code = n] = [r EXCEPT !.code = n]
      BY <3>2, <3>4
    <3> QED BY <3>3, <3>5
  <2>7. [at |-> place, session |-> NoSession, code |-> n] \in Visit
    <3>1. NoSession \in Session
      BY NoVisitFacts
    <3> QED BY <3>1 DEF Visit
  <2>8. /\ visit' \in [Requests -> Visit] /\ visit'[h].at = "delivering"
        /\ \A g \in Requests : g # h => visit'[g] = visit[g]
    BY <2>2, <2>5, <2>6, <2>7, SignInFacts
  <2>9. NobodyEnters
    <3>1. made'.logins >= made.logins
      BY <1>1, SignInFacts
    <3>2. ~Entering(h)'
      BY <2>8 DEF Entering
    <3> QED BY <1>1, <2>8, <3>1, <3>2 DEF NobodyEnters, Entering
  <2>10. SignInTypes'
    BY <1>1, <2>4, <2>8, CodesTypesKept, TypesFacts
  <2>11. CodesInv'
    BY <1>1, <1>3, <2>2, <2>3, <2>10, SendKeepsCodes
  <2>12. RowInvariant'
    BY <1>1, <1>3 DEF RowInvariant, DeletedIsErased, VerifiedIsCurrent, Sendable, IsActive
  <2> QED BY <1>1, <2>9, <2>10, <2>11, <2>12, InvKept DEF VersionTells
<1> QED BY <1>2, <1>3 DEF SendCode

LEMMA DeliverCodeKeeps ==
  ASSUME SignInInv, NEW h \in Requests, DeliverCode(h) PROVE SignInInv'
<1> USE DEF SignInInv
<1>1. UNCHANGED <<clock, person, sessions, resets, made, stops>> /\ Leave(h)
  BY DEF DeliverCode
<1>2. NobodyEnters /\ visit' \in [Requests -> Visit]
  BY <1>1, LeaveEnters
<1>3. PICK code, good, consumed :
        Set(code, good, consumed) /\ good \in BOOLEAN /\ consumed \in BOOLEAN
  BY DEF DeliverCode
<1>4. \A c \in DOMAIN challenges :
        /\ challenges'[c] = challenges[c]
             \/ challenges'[c] = [challenges[c] EXCEPT !.sent = challenges[c].sent \/ good,
                                                       !.consumed = challenges[c].consumed \/ consumed]
  BY <1>3 DEF Set
<1>5. \A c \in DOMAIN challenges :
        /\ challenges'[c] \in Challenge /\ challenges'[c].created = challenges[c].created
        /\ challenges'[c].attempts = challenges[c].attempts
        /\ challenges[c].consumed => challenges'[c].consumed
  <2> SUFFICES ASSUME NEW c \in DOMAIN challenges
               PROVE  /\ challenges'[c] \in Challenge /\ challenges'[c].created = challenges[c].created
                      /\ challenges'[c].attempts = challenges[c].attempts
                      /\ challenges[c].consumed => challenges'[c].consumed
    OBVIOUS
  <2>1. PICK r \in Challenge : r = challenges[c]
    BY CodesFacts
  <2>2. PICK s \in BOOLEAN, k \in BOOLEAN : s = (r.sent \/ good) /\ k = (r.consumed \/ consumed)
    OBVIOUS
  <2>3. challenges'[c] = r \/ challenges'[c] = [r EXCEPT !.sent = s, !.consumed = k]
    BY <1>4, <2>1, <2>2
  <2>4. /\ [r EXCEPT !.sent = s, !.consumed = k] \in Challenge
        /\ [r EXCEPT !.sent = s, !.consumed = k].created = r.created
        /\ [r EXCEPT !.sent = s, !.consumed = k].attempts = r.attempts
        /\ [r EXCEPT !.sent = s, !.consumed = k].consumed = k
    BY DEF Challenge
  <2> QED BY <2>1, <2>2, <2>3, <2>4
<1>6. DOMAIN challenges' = DOMAIN challenges /\ challenges' \in [1..Newest -> Challenge]
  BY <1>3, <1>5, CodesFacts DEF Set
<1>7. challenges' \in Seq(Challenge) /\ Len(challenges') = Len(challenges)
  <2>1. Newest \in Nat
    BY CodesFacts
  <2> QED BY <1>6, <2>1 DEF Newest
<1>8. SignInTypes'
  <2>1. Len(challenges') <= MaxCodes
    BY <1>7 DEF SignInTypes, IdentityTypeOK
  <2> QED BY <1>1, <1>2, <1>7, <2>1, CodesTypesKept, TypesFacts
<1>9. NothingIsGuessed
  BY <1>5, <1>6, <1>7 DEF NothingIsGuessed
<1>10. CodesInv'
  BY <1>1, <1>8, <1>9, CodesKept, SignInFacts
<1>11. RowInvariant'
  <2>1. challenges = <<>> => challenges' = <<>>
    BY <1>7, CodesFacts
  <2> QED BY <1>1, <2>1 DEF RowInvariant, DeletedIsErased, VerifiedIsCurrent
<1> QED BY <1>1, <1>2, <1>8, <1>10, <1>11, InvKept DEF VersionTells

LEMMA ConfirmCodeKeeps ==
  ASSUME SignInInv, NEW h \in Requests, ConfirmCode(h) PROVE SignInInv'
<1> USE DEF SignInInv
<1>1. UNCHANGED <<clock, sessions, resets, made, stops>> /\ Leave(h)
  BY DEF ConfirmCode
<1>2. NobodyEnters /\ visit' \in [Requests -> Visit]
  BY <1>1, LeaveEnters
<1>3. CASE UNCHANGED <<person, challenges>>
  <2>1. SignInTypes'
    BY <1>1, <1>2, <1>3, TypesKept, TypesFacts
  <2> QED BY <1>1, <1>2, <1>3, <2>1, RestKept
<1>4. ASSUME NEW c \in DOMAIN challenges, NEW right \in BOOLEAN, Guessable(challenges[c]),
             challenges' = [challenges EXCEPT ![c].attempts = @ + 1, ![c].consumed = right],
             person' = IF right THEN [person EXCEPT !.verified = challenges[c].phone] ELSE person
      PROVE  SignInInv'
  <2>1. PICK r \in Challenge : r = challenges[c]
    BY CodesFacts
  <2>2. IsActive /\ r.phone = person.phone /\ r.phone \in Phones
    BY <1>4, <2>1 DEF Guessable, Challenge
  <2>3. PICK n \in Nat : n = r.attempts + 1
    BY DEF Challenge
  <2>4. [r EXCEPT !.attempts = n, !.consumed = right] \in Challenge
    BY DEF Challenge
  <2>5. /\ DOMAIN challenges' = DOMAIN challenges
        /\ challenges'[c] = [r EXCEPT !.attempts = n, !.consumed = right]
        /\ \A d \in DOMAIN challenges : d # c => challenges'[d] = challenges[d]
    BY <1>4, <2>1, <2>3, CodesFacts
  <2>6. challenges' \in Seq(Challenge) /\ Len(challenges') = Len(challenges)
    <3>1. \A d \in DOMAIN challenges : challenges'[d] \in Challenge
      BY <2>4, <2>5, CodesFacts
    <3>2. challenges' \in [1..Newest -> Challenge] /\ Newest \in Nat
      BY <1>4, <3>1, CodesFacts
    <3> QED BY <3>2 DEF Newest
  <2>7. person' \in PersonRow /\ person'.status = person.status /\ person'.version = person.version
        /\ person'.password = person.password /\ person'.phone = person.phone
        /\ person'.verified \in {person.verified, person.phone}
    <3>1. person \in PersonRow /\ r.phone \in Phones \cup {0}
      BY <2>2, TypesFacts
    <3>2. [person EXCEPT !.verified = r.phone] \in PersonRow
      BY <3>1, RowTakes
    <3> QED BY <1>4, <2>1, <2>2, <3>1, <3>2 DEF PersonRow
  <2>8. SignInTypes'
    <3>1. Len(challenges') <= MaxCodes
      BY <2>6 DEF SignInTypes, IdentityTypeOK
    <3> QED BY <1>1, <1>2, <2>6, <2>7, <3>1, CodesTypesKept
  <2>9. CodesInv'
    BY <1>1, <1>4, <2>8, ConfirmKeepsCodes
  <2>10. RowInvariant'
    BY <1>1, <2>2, <2>7 DEF RowInvariant, DeletedIsErased, VerifiedIsCurrent, IsActive
  <2> QED BY <1>2, <2>7, <2>8, <2>9, <2>10, InvKept DEF VersionTells
<1> QED BY <1>3, <1>4 DEF ConfirmCode

---------------------------------------------------------------------------
(* Steps that move a session.                                              *)

\* The session of a request that has finished is inserted, and the request
\* has it no longer.
LEMMA IssueSessionKeeps ==
  ASSUME SignInInv, NEW h \in Requests, IssueSession(h) PROVE SignInInv'
<1> USE DEF SignInInv
<1>1. UNCHANGED <<clock, person, resets, challenges, made, stops>> /\ Leave(h) /\ Entering(h)
  BY DEF IssueSession, At, Entering
<1>2. CASE ~Insertable
  <2>1. sessions' = sessions
    BY <1>2 DEF IssueSession
  <2>2. NobodyEnters /\ visit' \in [Requests -> Visit]
    BY <1>1, <2>1, LeaveEnters
  <2>3. SignInTypes'
    BY <1>1, <2>1, <2>2, TypesKept, TypesFacts
  <2> QED BY <1>1, <2>2, <2>3, RestKept
<1>3. CASE Insertable
  <2>1. PICK old \in Session, expires \in Nat : old = visit[h].session /\ expires = clock + SessionTtl
    BY SignInFacts, SignInNumbers
  <2>2. PICK new : new = [old EXCEPT !.expires = expires]
    OBVIOUS
  <2>3. /\ new \in Session /\ new.login = old.login /\ new.version = old.version
        /\ new.under = old.under
    BY <2>2 DEF Session
  <2>4. sessions' = sessions \cup {new}
    BY <1>3, <2>1, <2>2 DEF IssueSession
  <2>5. /\ visit' \in [Requests -> Visit] /\ ~Entering(h)'
        /\ \A g \in Requests : Entering(g)' => Entering(g) /\ visit'[g].session = visit[g].session
    BY <1>1, LeaveFacts
  <2>6. SignInTypes'
    BY <1>1, <2>3, <2>4, <2>5, TypesKept, TypesFacts
  <2>7. LoginsInv'
    <3>1. new.login = visit[h].session.login /\ new.login \in 1..made.logins
      BY <1>1, <2>1, <2>3 DEF LoginsInv
    <3>2. \A s \in sessions : s.login # new.login
      BY <1>1, <3>1 DEF LoginsInv
    <3>3. \A g \in Requests : Entering(g)' => visit'[g].session.login # new.login
      BY <1>1, <2>5, <3>1 DEF LoginsInv
    <3>4. \A s \in sessions' : s.login \in 1..made'.logins
      BY <1>1, <2>4, <3>1 DEF LoginsInv
    <3>5. \A g \in Requests : Entering(g)' => visit'[g].session.login \in 1..made'.logins
      BY <1>1, <2>5 DEF LoginsInv
    <3>6. \A s, t \in sessions' : s.login = t.login => s = t
      BY <2>4, <3>2 DEF LoginsInv
    <3>7. \A f, g \in Requests :
            Entering(f)' /\ Entering(g)' /\ visit'[f].session.login = visit'[g].session.login => f = g
      BY <2>5 DEF LoginsInv
    <3>8. \A s \in sessions', g \in Requests : Entering(g)' => s.login # visit'[g].session.login
      BY <2>4, <2>5, <3>3 DEF LoginsInv
    <3> QED BY <3>4, <3>5, <3>6, <3>7, <3>8 DEF LoginsInv
  <2>8. SessionsInv'
    <3>1. Fits(new)
      <4>1. Fits(old)
        BY <1>1, <2>1 DEF SessionsInv
      <4> QED BY <2>3, <4>1 DEF Fits
    <3>2. \A s : Fits(s)' <=> Fits(s)
      BY <1>1 DEF Fits
    <3>3. \A s \in sessions' : Fits(s)'
      BY <2>4, <3>1, <3>2 DEF SessionsInv
    <3>4. \A g \in Requests : Entering(g)' => Fits(visit[g].session)'
      <4>1. \A g \in Requests : Entering(g)' => Fits(visit'[g].session)
        BY <2>5 DEF SessionsInv
      <4> QED BY <1>1, <4>1 DEF Fits
    <3> QED BY <3>3, <3>4 DEF SessionsInv
  <2>9. RowInvariant'
    BY <1>1, <1>3 DEF RowInvariant, DeletedIsErased, VerifiedIsCurrent, Insertable
  <2> QED BY <1>1, <2>6, <2>7, <2>8, <2>9, SameCodes
<1> QED BY <1>2, <1>3

\* A session that is used up is with the request that used it.
LEMMA ConsumeSessionKeeps ==
  ASSUME SignInInv, NEW h \in Requests, ConsumeSession(h) PROVE SignInInv'
<1> USE DEF SignInInv
<1>1. UNCHANGED <<clock, person, resets, challenges, made, stops>>
  BY DEF ConsumeSession
<1>2. PICK session \in sessions : sessions' = sessions \ {session} /\ With(h, "checking", session)
  BY DEF ConsumeSession
<1>3. session \in Session /\ "checking" \in Places
  BY <1>2, SignInFacts DEF Places
<1>4. /\ visit' \in [Requests -> Visit] /\ visit'[h].session = session
      /\ \A g \in Requests : g # h => visit'[g] = visit[g]
  BY <1>2, <1>3, WithFacts
<1>5. \A g \in Requests : g # h /\ Entering(g)' => Entering(g) /\ visit'[g].session = visit[g].session
  BY <1>4 DEF Entering
<1>6. SignInTypes'
  BY <1>1, <1>2, <1>4, TypesKept, TypesFacts
<1>7. LoginsInv'
  <2>1. \A s \in sessions' : s \in sessions /\ s.login # session.login
    BY <1>2 DEF LoginsInv
  <2>2. \A g \in Requests : g # h /\ Entering(g)' => visit'[g].session.login # session.login
    BY <1>2, <1>5 DEF LoginsInv
  <2>3. \A s \in sessions' : s.login \in 1..made'.logins
    BY <1>1, <2>1 DEF LoginsInv
  <2>4. \A g \in Requests : Entering(g)' => visit'[g].session.login \in 1..made'.logins
    <3>1. session.login \in 1..made'.logins
      BY <1>1, <1>2 DEF LoginsInv
    <3> QED BY <1>1, <1>4, <1>5, <3>1 DEF LoginsInv
  <2>5. \A s, t \in sessions' : s.login = t.login => s = t
    BY <2>1 DEF LoginsInv
  <2>6. \A f, g \in Requests :
          Entering(f)' /\ Entering(g)' /\ visit'[f].session.login = visit'[g].session.login => f = g
    BY <1>4, <1>5, <2>2 DEF LoginsInv
  <2>7. \A s \in sessions', g \in Requests : Entering(g)' => s.login # visit'[g].session.login
    BY <1>4, <1>5, <2>1 DEF LoginsInv
  <2> QED BY <2>3, <2>4, <2>5, <2>6, <2>7 DEF LoginsInv
<1>8. SessionsInv'
  <2>1. \A s : Fits(s)' <=> Fits(s)
    BY <1>1 DEF Fits
  <2>2. Fits(session)
    BY <1>2 DEF SessionsInv
  <2>3. \A g \in Requests : Entering(g)' => Fits(visit[g].session)'
    <3>1. \A g \in Requests : Entering(g)' => Fits(visit'[g].session)
      BY <1>4, <1>5, <2>2 DEF SessionsInv
    <3> QED BY <1>1, <3>1 DEF Fits
  <2> QED BY <1>2, <2>1, <2>3 DEF SessionsInv
<1>9. RowInvariant'
  BY <1>1, <1>2 DEF RowInvariant, DeletedIsErased, VerifiedIsCurrent
<1> QED BY <1>1, <1>6, <1>7, <1>8, <1>9, SameCodes

---------------------------------------------------------------------------
(* The sign-in.                                                            *)

LEMMA SignInBegins == ASSUME IdentityInit PROVE SignInInv
<1>1. person.phone \in Phones /\ person.verified = 0 /\ person.status = "ACTIVE"
  <2>1. (CHOOSE phone \in Phones : TRUE) \in Phones
    BY SignInNumbers
  <2> QED BY <2>1 DEF IdentityInit
<1>2. \A h \in Requests : visit[h] = NoVisit
  BY DEF IdentityInit
<1>3. visit \in [Requests -> Visit]
  BY NoVisitFacts DEF IdentityInit
<1>4. person \in PersonRow
  <2>1. PICK phone \in Phones : phone = person.phone
    BY <1>1
  <2>2. person = [status |-> "ACTIVE", version |-> 0, password |-> 1, failures |-> 0,
                  lockedUntil |-> 0, phone |-> phone, verified |-> 0]
    BY <2>1 DEF IdentityInit
  <2> QED BY <2>2 DEF PersonRow
<1>5. SignInTypes
  <2>1. clock \in 0..Horizon /\ stops \in 0..MaxStops
    BY SignInNumbers DEF IdentityInit
  <2>2. made \in [logins : 0..MaxLogins, resets : 0..MaxResets]
    BY SignInNumbers DEF IdentityInit
  <2>3. challenges \in Seq(Challenge) /\ Len(challenges) <= MaxCodes
    BY SignInNumbers DEF IdentityInit
  <2>4. \A h \in Requests : visit[h].session \in Session
    BY <1>3 DEF Visit
  <2>5. sessions = {} /\ resets = {}
    BY DEF IdentityInit
  <2> QED BY <1>3, <1>4, <2>1, <2>2, <2>3, <2>4, <2>5 DEF SignInTypes, IdentityTypeOK, PersonRow
<1>6. \A h \in Requests : ~Entering(h)
  BY <1>2 DEF Entering, NoVisit
<1>7. SessionsInv /\ LoginsInv
  BY <1>6 DEF SessionsInv, LoginsInv, IdentityInit
<1>8. RowInvariant
  BY <1>1 DEF IdentityInit, RowInvariant, DeletedIsErased, VerifiedIsCurrent
<1>9. CodesInv
  BY NoCodes DEF IdentityInit
<1> QED BY <1>5, <1>7, <1>8, <1>9 DEF SignInInv

LEMMA SignInSteps == ASSUME SignInInv, [IdentityNext]_identityVars PROVE SignInInv'
<1>1. CASE Tick \/ ResetPassword \/ Deactivate \/ Erase
  BY <1>1, TickKeeps, ResetPasswordKeeps, DeactivateKeeps, EraseKeeps
<1>2. ASSUME NEW h \in Requests, Request(h) PROVE SignInInv'
  BY <1>2, LoginKeeps, ConsumeSessionKeeps, AuthenticateKeeps, ForgotPasswordKeeps DEF Request
<1>3. ASSUME NEW h \in Requests, Continue(h) PROVE SignInInv'
  BY <1>3, RecordLoginFailureKeeps, CompleteLoginKeeps, IssueSessionKeeps, CheckRefreshKeeps,
     LogoutKeeps, ClearResetsKeeps, CreateResetKeeps, BeginDeletionKeeps, UpdateProfileKeeps,
     SendCodeKeeps, DeliverCodeKeeps, ConfirmCodeKeeps DEF Continue
<1>4. ASSUME NEW h \in Requests, Abandon(h) PROVE SignInInv'
  BY <1>4, AbandonKeeps
<1>5. CASE UNCHANGED identityVars
  BY <1>5, NothingKeeps
<1> QED BY <1>1, <1>2, <1>3, <1>4, <1>5 DEF IdentityNext

\* A sign-in that is in one place has one session or one request.
LEMMA OneSuccessorFollows == ASSUME SignInInv PROVE OneSuccessor
<1> USE DEF SignInInv
<1> SUFFICES ASSUME NEW login \in 1..MaxLogins
             PROVE  Cardinality({s \in sessions : s.login = login})
                      + Cardinality({h \in Requests : visit[h].session.login = login
                                       /\ visit[h].at \in {"entering", "issuing", "checking"}}) <= 1
  BY DEF OneSuccessor
<1> DEFINE S == {s \in sessions : s.login = login}
           R == {h \in Requests : visit[h].session.login = login
                                    /\ visit[h].at \in {"entering", "issuing", "checking"}}
<1>1. \A s, t \in S : s = t
  BY DEF LoginsInv
<1>2. \A g, h \in R : g = h
  BY DEF LoginsInv, Entering
<1>3. S = {} \/ R = {}
  BY DEF LoginsInv, Entering
<1>4. ASSUME NEW T, \A s, t \in T : s = t PROVE Cardinality(T) \in {0, 1} /\ (T = {} => Cardinality(T) = 0)
  <2>1. CASE T = {}
    BY <2>1, FS_EmptySet
  <2>2. CASE T # {}
    <3>1. PICK t \in T : T = {t}
      BY <1>4, <2>2
    <3> QED BY <2>2, <3>1, FS_Singleton
  <2> QED BY <2>1, <2>2
<1> HIDE DEF S, R
<1>5. Cardinality(S) \in {0, 1} /\ Cardinality(R) \in {0, 1} /\ (S = {} => Cardinality(S) = 0)
        /\ (R = {} => Cardinality(R) = 0)
  BY <1>1, <1>2, <1>4
<1>6. Cardinality(S) + Cardinality(R) <= 1
  BY <1>3, <1>5
<1> QED BY <1>6 DEF S, R

LEMMA SoundFollows == ASSUME SignInInv PROVE SignInIsSound
<1> USE DEF SignInInv
<1>1. SessionsEndWithPassword
  BY DEF SessionsInv, Fits, SessionsEndWithPassword, Current
<1>2. GuessesAreBounded
  <2> SUFFICES ASSUME NEW c \in DOMAIN challenges
               PROVE  Guesses(Window(c)) <= GuessesPerHour - 1 + AttemptsPerCode
    BY DEF GuessesAreBounded, Window
  <2>1. Window(c) \in SUBSET DOMAIN challenges
    BY DEF Window
  <2>2. Guesses(Window(c)) = SumOver(Tries, Window(c))
    BY <2>1, GuessesAreSummed
  <2> QED BY <2>2 DEF CodesInv
<1> QED BY <1>1, <1>2, OneSuccessorFollows DEF SignInTypes, RowInvariant, SignInIsSound

(* The sign-in is sound, however many requests of the customer run at the  *)
(* same time: a session ends with the password it began with, a sign-in    *)
(* has one session at a time, nothing outlives the account, a verified     *)
(* number is the number of today, and the guesses of an hour are bounded   *)
(* (auth.ts, repository.ts, verification.ts of flupflap).                  *)
THEOREM SignInHolds == IdentitySpec => []SignInIsSound
<1>1. IdentitySpec => []SignInInv
  BY SignInBegins, SignInSteps, PTL DEF IdentitySpec
<1>2. SignInInv => SignInIsSound
  BY SoundFollows
<1> QED BY <1>1, <1>2, PTL
=============================================================================
