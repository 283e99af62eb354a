-------------------------- MODULE DatabaseMigration --------------------------
(***************************************************************************)
(* The guarded upgrade of the SQLite file: a lock file, a verified backup,  *)
(* the chain of revisions, the check of what came out and the restore of    *)
(* the backup when something failed; and the restore an operator asks for.  *)
(* Up to the first row it writes (a revision number or a copied table) an   *)
(* upgrade commits each DDL statement on its own, so that one that dies may *)
(* leave the file half migrated; from there it is one transaction.  A file  *)
(* without tables counts as no file.                                        *)
(***************************************************************************)
EXTENDS Naturals, Sequences

CONSTANTS
  Operations,    \* processes of the migration command
  HeadRevision,  \* length of the revision chain
  Known,         \* revisions whose fingerprint the service knows
  Stampable,     \* of these, the ones an unversioned file is recognised as
  MaxBackups,    \* bound: backups
  MaxWrites      \* bound: commits of the application

ASSUME MigrationRevisions ==
  /\ HeadRevision \in Nat /\ HeadRevision \in Known
  /\ Stampable \subseteq Known /\ Known \subseteq 1..HeadRevision
ASSUME MigrationBounds == MaxBackups \in Nat /\ MaxWrites \in Nat \ {0}
ASSUME MigrationNames == {"free", "kept"} \cap Operations = {}

VARIABLES
  db,        \* the file: revision of its tables, whether that is whole, stamp, commits
  lock,      \* "free", the operation that holds it, or "kept" for an operator to look at
  backups,   \* the backups with a manifest, oldest first
  operation, \* what each process does
  services,  \* the application that uses the file
  beside     \* an operation was started beside running services

migrationVars == <<db, lock, backups, operation, services, beside>>

NoFile == [tables |-> 0, whole |-> TRUE, stamp |-> 0, commits |-> 0]
Idle == [at |-> "idle", before |-> NoFile, manifest |-> 0, outcome |-> "none"]

HasTables(file) == file.tables > 0 \/ ~file.whole
\* The structure is the one its stamp names, or has none.
Consistent(file) == file.whole /\ file.stamp \in {0, file.tables}
AtHead(file) == file.whole /\ file.tables = HeadRevision /\ file.stamp = HeadRevision

MigrationInit ==
  /\ db \in {NoFile} \cup
       [tables : 1..HeadRevision, whole : {TRUE}, stamp : 0..HeadRevision, commits : {1}]
  /\ Consistent(db)
  /\ lock = "free"
  /\ backups = <<>>
  /\ operation = [p \in Operations |-> Idle]
  /\ services = "down"
  /\ beside = FALSE

OperationAt(p, at) == operation[p].at = at
OperationGoes(p, at) == operation' = [operation EXCEPT ![p].at = at]
OperationEnds(p, outcome) ==
  operation' = [operation EXCEPT ![p] = [@ EXCEPT !.at = "releasing", !.outcome = outcome]]
Offline == services # "writing"

-----------------------------------------------------------------------------
(* The lock file *)

\* Mutant: an existing lock file is taken over.
LockIgnored == TRUE
LockFree == lock = "free"

\* O_EXCL: a second operation is refused.
Acquire(p, first, manifest) ==
  /\ OperationAt(p, "idle") /\ LockFree
  /\ lock' = p
  /\ operation' = [operation EXCEPT ![p] =
       [at |-> first, before |-> db, manifest |-> manifest, outcome |-> "none"]]
  /\ beside' = (beside \/ services # "down")
  /\ UNCHANGED <<db, backups, services>>

StartUpgrade(p) == Acquire(p, "locked", 0)
RestoreBackup(p) == \E b \in DOMAIN backups : Acquire(p, "restoring", b)

\* The write of the token or its fsync fails: without the token the lock is kept.
TokenUnwritten(p) ==
  /\ operation[p].at \in {"locked", "restoring"} /\ operation[p].outcome = "none"
  /\ lock' \in IF lock = p THEN {"kept", "free"} ELSE {lock}
  /\ operation' = [operation EXCEPT ![p] = Idle]
  /\ UNCHANGED <<db, backups, services, beside>>

Release(p) ==
  /\ OperationAt(p, "releasing")
  /\ lock' = IF lock = p THEN "free" ELSE lock
  /\ operation' = [operation EXCEPT ![p] = Idle]
  /\ UNCHANGED <<db, backups, services, beside>>

OperationDies(p) ==
  /\ ~OperationAt(p, "idle")
  /\ lock' = IF lock = p THEN "kept" ELSE lock
  /\ operation' = [operation EXCEPT ![p] = Idle]
  /\ UNCHANGED <<db, backups, services, beside>>

RemoveKeptLock ==
  /\ lock = "kept"
  /\ lock' = "free"
  /\ UNCHANGED <<db, backups, operation, services, beside>>

-----------------------------------------------------------------------------
(* upgrade_sqlite_database *)

\* Offline check and first hash of a file that has something to lose.
BeginBackup(p) ==
  /\ OperationAt(p, "locked")
  /\ IF ~HasTables(db) THEN OperationGoes(p, "classifying")
     ELSE IF ~Offline THEN OperationEnds(p, "busy")
     ELSE operation' = [operation EXCEPT ![p] = [@ EXCEPT !.at = "copying", !.before = db]]
  /\ UNCHANGED <<db, lock, backups, services, beside>>

\* Mutant: a backup replaces the one before it.
OnlyLatest(file) == <<file>>
Keeping(file) == Append(backups, file)

\* The copy counts if the source's second hash is its first.
CreateBackup(p) ==
  /\ OperationAt(p, "copying")
  /\ Len(backups) < MaxBackups
  /\ IF db = operation[p].before
     THEN /\ backups' = Keeping(db)
          /\ operation' = [operation EXCEPT ![p] =
               [@ EXCEPT !.at = "classifying", !.manifest = Len(backups')]]
     ELSE UNCHANGED backups /\ OperationEnds(p, "unverified")
  /\ UNCHANGED <<db, lock, services, beside>>

Recognised(file) ==
  \/ ~HasTables(file)
  \/ /\ file.whole
     /\ \/ file.stamp = 0 /\ file.tables \in Stampable
        \/ file.stamp = file.tables /\ file.stamp \in Known

\* A known schema is stamped with its revision; an unknown one is left as it is.
AfterRefusal(o) ==
  IF o.manifest # 0 /\ db # backups[o.manifest] THEN "restoring" ELSE "releasing"

Classify(p) ==
  /\ OperationAt(p, "classifying")
  /\ IF Recognised(db)
     THEN db' = [db EXCEPT !.stamp = db.tables] /\ OperationGoes(p, "upgrading")
     ELSE /\ UNCHANGED db
          /\ operation' = [operation EXCEPT ![p] =
               [@ EXCEPT !.outcome = "incompatible", !.at = AfterRefusal(operation[p])]]
  /\ UNCHANGED <<lock, backups, services, beside>>

Revising(p) == OperationAt(p, "upgrading") /\ Offline /\ ~AtHead(db)

\* The statements of the first revision, each durable, ...
BeginRevision(p) ==
  /\ Revising(p) /\ db.whole /\ db.stamp = db.tables
  /\ db' = [db EXCEPT !.whole = FALSE]
  /\ UNCHANGED <<lock, backups, operation, services, beside>>

\* ... to the last of them when it copies no table, ...
EndRevision(p) ==
  /\ Revising(p) /\ ~db.whole
  /\ db' = [db EXCEPT !.tables = @ + 1, !.whole = TRUE]
  /\ UNCHANGED <<lock, backups, operation, services, beside>>

\* ... and the transaction of everything else.
CommitUpgrade(p) ==
  /\ Revising(p) /\ (~db.whole \/ db.stamp # db.tables)
  /\ db' = [db EXCEPT !.tables = HeadRevision, !.stamp = HeadRevision, !.whole = TRUE]
  /\ UNCHANGED <<lock, backups, operation, services, beside>>

FinishUpgrade(p) ==
  /\ OperationAt(p, "upgrading") /\ AtHead(db)
  /\ OperationEnds(p, "done")
  /\ UNCHANGED <<db, lock, backups, services, beside>>

\* Any error, of a revision or of the checks after the last one.
UpgradeFails(p) ==
  /\ operation[p].at \in {"classifying", "upgrading"}
  /\ IF operation[p].manifest # 0
     THEN /\ operation' = [operation EXCEPT ![p] =
               [@ EXCEPT !.at = "restoring", !.outcome = "failed"]]
          /\ UNCHANGED db
     ELSE db' = NoFile /\ OperationEnds(p, "failed")
  /\ UNCHANGED <<lock, backups, services, beside>>

Restore(p) ==
  /\ OperationAt(p, "restoring") /\ Offline
  /\ db' = backups[operation[p].manifest]
  /\ OperationGoes(p, "releasing")
  /\ UNCHANGED <<lock, backups, services, beside>>

\* Not offline, or the copy or the replacement fails: the file stays as it is.
RestoreFails(p) ==
  /\ OperationAt(p, "restoring")
  /\ OperationEnds(p, "unrestored")
  /\ UNCHANGED <<db, lock, backups, services, beside>>

-----------------------------------------------------------------------------
(* The application *)

\* Mutant: the status is asked for without a look at the lock.
LockUnseen == TRUE
LockAbsent == lock = "free"

\* get_database_migration_status looks at the lock, then at the file.
CheckLock ==
  /\ services = "down" /\ LockAbsent
  /\ services' = "checking"
  /\ UNCHANGED <<db, lock, backups, operation, beside>>

StartServices ==
  /\ services = "checking"
  /\ services' = IF AtHead(db) THEN "up" ELSE "down"
  /\ UNCHANGED <<db, lock, backups, operation, beside>>

BeginWrite ==
  /\ services = "up" /\ db.commits < MaxWrites
  /\ services' = "writing"
  /\ UNCHANGED <<db, lock, backups, operation, beside>>

CommitWrite ==
  /\ services = "writing"
  /\ db' = [db EXCEPT !.commits = @ + 1]
  /\ services' = "up"
  /\ UNCHANGED <<lock, backups, operation, beside>>

StopServices ==
  /\ services \in {"up", "writing"}
  /\ services' = "down"
  /\ UNCHANGED <<db, lock, backups, operation, beside>>

MigrationNext ==
  \/ \E p \in Operations :
       \/ StartUpgrade(p) \/ RestoreBackup(p) \/ TokenUnwritten(p) \/ Release(p)
       \/ OperationDies(p) \/ BeginBackup(p) \/ CreateBackup(p) \/ Classify(p)
       \/ BeginRevision(p) \/ EndRevision(p) \/ CommitUpgrade(p)
       \/ FinishUpgrade(p) \/ UpgradeFails(p) \/ Restore(p) \/ RestoreFails(p)
  \/ RemoveKeptLock
  \/ CheckLock \/ StartServices \/ BeginWrite \/ CommitWrite \/ StopServices

MigrationSpec == MigrationInit /\ [][MigrationNext]_migrationVars

-----------------------------------------------------------------------------
(* Properties *)

File == [tables : 0..HeadRevision, whole : BOOLEAN, stamp : 0..HeadRevision,
         commits : 0..MaxWrites]

Operation == [before : File, manifest : 0..MaxBackups,
  at : {"idle", "locked", "copying", "classifying", "upgrading", "restoring", "releasing"},
  outcome : {"none", "busy", "unverified", "incompatible", "failed", "unrestored", "done"}]

MigrationTypeOK ==
  /\ db \in File
  /\ lock \in {"free", "kept"} \cup Operations
  /\ backups \in Seq(File) /\ Len(backups) <= MaxBackups
  /\ operation \in [Operations -> Operation]
  /\ services \in {"down", "checking", "up", "writing"}
  /\ beside \in BOOLEAN

\* "Stop every process that can access the database before" an upgrade: then one that
\* ends without success, and did not fail to restore, has left every byte as it was,
\* whatever stopped it and however many other operations were tried meanwhile.
FailedUpgradeChangesNothing ==
  [][\A p \in Operations :
       ( /\ OperationAt(p, "releasing") /\ operation'[p].at = "idle" /\ ~beside
         /\ operation[p].outcome \in {"busy", "unverified", "incompatible", "failed"} )
       => db = operation[p].before]_migrationVars

\* With the services stopped, a file that holds data and is neither at a revision nor
\* recognisable, because an upgrade died or could not restore it, is no loss: a backup
\* is, and has every commit, through any number of further upgrades and restores.
DataIsRecoverable ==
  ~beside /\ db.commits > 0 /\ ~Consistent(db) =>
    \E b \in DOMAIN backups :
      Consistent(backups[b]) /\ backups[b].commits >= db.commits
=============================================================================
