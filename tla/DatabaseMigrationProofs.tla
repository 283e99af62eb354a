----------------------- MODULE DatabaseMigrationProofs -----------------------
(***************************************************************************)
(* Proofs about DatabaseMigration, for any number of operations, revisions, *)
(* backups and commits of the application.                                  *)
(*                                                                         *)
(* An operation works on the file with nothing beside it: whoever is at     *)
(* work holds the lock (LockHeld), and while somebody does the services are *)
(* down (ServedAtHead), unless they were up when it began.  So the file is  *)
(* what the operation remembers of it (KnowsItsFile), and a backup of it    *)
(* exists before the first statement changes anything.                      *)
(***************************************************************************)
EXTENDS DatabaseMigration, TLAPS

Files == {db} \cup {backups[b] : b \in DOMAIN backups}

\* What the types need: a half-migrated file lacks a revision, a manifest names a
\* backup, and a transaction of the application has room for its commit.
Fits ==
  /\ \A f \in Files : ~f.whole => f.tables < HeadRevision
  /\ \A p \in Operations :
       /\ operation[p].manifest \in 0..Len(backups)
       /\ operation[p].at = "restoring" => operation[p].manifest # 0
  /\ services = "writing" => db.commits < MaxWrites

LockHeld == \A p \in Operations : lock = p <=> operation[p].at # "idle"

\* Services run beside no operation, on a migrated file.
ServedAtHead ==
  /\ lock # "free" => services = "down"
  /\ services \in {"up", "writing"} => AtHead(db)

BackedUp(f) ==
  f.commits > 0 /\ ~Consistent(f) =>
    \E b \in DOMAIN backups : Consistent(backups[b]) /\ backups[b].commits >= f.commits

\* A file without tables holds nothing; one with commits can be brought back.
Recoverable == \A f \in Files : (~HasTables(f) => f = NoFile) /\ BackedUp(f)

\* The backup of an operation is the file it began with; there is none of no file.
HasItsBackup(o) ==
  IF o.manifest = 0 THEN o.before = NoFile ELSE backups[o.manifest] = o.before

KnowsItsFile(o) ==
  /\ o.at = "locked" => db = o.before /\ o.manifest = 0
  /\ o.at = "copying" => db = o.before
  /\ o.at = "classifying" => db = o.before /\ HasItsBackup(o)
  /\ o.at = "upgrading" =>
       Recognised(o.before) /\ db.commits = o.before.commits /\ HasItsBackup(o)
  /\ o.at = "restoring" /\ o.outcome # "none" => HasItsBackup(o)
  /\ o.at = "releasing" /\ o.outcome \in {"busy", "unverified", "incompatible", "failed"} =>
       db = o.before

Alone == ServedAtHead /\ Recoverable /\ \A p \in Operations : KnowsItsFile(operation[p])

MInv == MigrationTypeOK /\ Fits /\ LockHeld /\ (beside \/ Alone)

LEMMA Records ==
  /\ NoFile \in File /\ ~HasTables(NoFile) /\ Idle \in Operation /\ Idle.at = "idle"
  /\ HeadRevision \in Nat \ {0}
  /\ \A p \in Operations : p # "free" /\ p # "kept"
BY MigrationRevisions, MigrationBounds, MigrationNames
DEF NoFile, Idle, File, Operation, HasTables

\* The file changes: it is another file that can be brought back.
LEMMA ChangedFileIsRecoverable ==
  ASSUME Recoverable, UNCHANGED backups, ~HasTables(db') => db' = NoFile,
         db'.commits > 0 /\ ~Consistent(db') =>
           \E b \in DOMAIN backups : Consistent(backups[b]) /\ backups[b].commits >= db'.commits
  PROVE  Recoverable'
<1>1. \A b \in DOMAIN backups : backups[b] \in Files
  BY DEF Files
<1>2. \A f \in Files' : f = db' \/ \E b \in DOMAIN backups : f = backups[b]
  BY DEF Files
<1>3. \A f \in Files' : ~HasTables(f) => f = NoFile
  BY <1>1, <1>2 DEF Recoverable
<1>4. ASSUME NEW f \in Files' PROVE BackedUp(f)'
  <2>1. CASE f = db'
    BY <2>1 DEF BackedUp
  <2>2. CASE \E b \in DOMAIN backups : f = backups[b]
    BY <1>1, <2>2 DEF Recoverable, BackedUp
  <2> QED BY <1>2, <2>1, <2>2
<1> QED BY <1>3, <1>4 DEF Recoverable

-----------------------------------------------------------------------------
(* The kinds of steps *)

\* A step of an operation that stays at work.
LEMMA WorkKeepsMInv ==
  ASSUME MInv, NEW p \in Operations, operation[p].at # "idle",
         operation' \in [Operations -> Operation],
         \A q \in Operations : q # p => operation'[q] = operation[q],
         operation'[p].at # "idle", UNCHANGED <<lock, services, beside>>,
         db' \in File, backups' \in Seq(File), Len(backups') <= MaxBackups,
         Fits', ~beside => (Recoverable /\ KnowsItsFile(operation[p]))'
  PROVE  MInv'
<1>1. lock = p /\ \A q \in Operations : q # p => operation[q].at = "idle"
  BY DEF MInv, LockHeld
<1>2. MigrationTypeOK' /\ LockHeld'
  BY DEF MInv, MigrationTypeOK, LockHeld
<1>3. ASSUME ~beside PROVE Alone'
  <2>1. services = "down"
    BY <1>1, <1>3, Records DEF MInv, Alone, ServedAtHead
  <2>2. ServedAtHead'
    BY <2>1 DEF ServedAtHead
  <2>3. \A q \in Operations : KnowsItsFile(operation[q])'
    BY <1>1, <1>3 DEF KnowsItsFile
  <2> QED BY <1>3, <2>2, <2>3 DEF Alone
<1> QED BY <1>2, <1>3 DEF MInv

\* The same, when neither the file nor a backup changes.
LEMMA QuietWorkKeepsMInv ==
  ASSUME MInv, NEW p \in Operations, operation[p].at # "idle",
         operation' \in [Operations -> Operation],
         \A q \in Operations : q # p => operation'[q] = operation[q],
         operation'[p].at # "idle", UNCHANGED <<db, lock, backups, services, beside>>,
         operation'[p].manifest = operation[p].manifest,
         operation'[p].at = "restoring" => operation[p].manifest # 0,
         ~beside => KnowsItsFile(operation[p])'
  PROVE  MInv'
<1>1. Fits'
  BY DEF MInv, Fits, Files
<1>2. ~beside => Recoverable'
  BY DEF MInv, Alone, Recoverable, Files, BackedUp
<1> QED BY <1>1, <1>2, WorkKeepsMInv DEF MInv, MigrationTypeOK

\* An operation ends; its lock is removed or kept.
LEMMA EndKeepsMInv ==
  ASSUME MInv, NEW p \in Operations, operation[p].at # "idle", lock' \in {"free", "kept"},
         operation' = [operation EXCEPT ![p] = Idle], UNCHANGED <<db, backups, services, beside>>
  PROVE  MInv'
<1>1. lock = p /\ \A q \in Operations : q # p => operation[q].at = "idle"
  BY DEF MInv, LockHeld
<1>2. \A q \in Operations :
        operation'[q].at = "idle" /\ operation'[q].manifest \in 0..Len(backups)
  BY <1>1, Records DEF MInv, MigrationTypeOK, Fits, Idle
<1>3. MigrationTypeOK' /\ LockHeld'
  BY <1>2, Records DEF MInv, MigrationTypeOK, LockHeld
<1>4. Fits'
  BY <1>2 DEF MInv, Fits, Files
<1>5. ASSUME ~beside PROVE Alone'
  <2>1. ServedAtHead'
    BY <1>1, <1>5, Records DEF MInv, Alone, ServedAtHead
  <2>2. Recoverable'
    BY <1>5 DEF MInv, Alone, Recoverable, Files, BackedUp
  <2>3. \A q \in Operations : KnowsItsFile(operation[q])'
    BY <1>2 DEF KnowsItsFile
  <2> QED BY <2>1, <2>2, <2>3 DEF Alone
<1> QED BY <1>3, <1>4, <1>5 DEF MInv

\* The services change, and nothing else.
LEMMA ServicesKeepMInv ==
  ASSUME MInv, services' \in {"down", "checking", "up", "writing"},
         UNCHANGED <<db, lock, backups, operation, beside>>,
         services' = "writing" => db.commits < MaxWrites,
         ~beside => ServedAtHead'
  PROVE  MInv'
<1>1. MigrationTypeOK' /\ LockHeld' /\ Fits'
  BY DEF MInv, MigrationTypeOK, LockHeld, Fits, Files
<1>2. ASSUME ~beside PROVE Alone'
  <2>1. Recoverable' /\ \A p \in Operations : KnowsItsFile(operation[p])'
    BY <1>2 DEF MInv, Alone, Recoverable, Files, BackedUp, KnowsItsFile, HasItsBackup
  <2> QED BY <1>2, <2>1 DEF Alone
<1> QED BY <1>1, <1>2 DEF MInv

-----------------------------------------------------------------------------
(* The lock *)

LEMMA AcquireKeepsMInv ==
  ASSUME MInv, NEW p \in Operations, NEW first, NEW manifest \in 0..Len(backups),
         \/ first = "locked" /\ manifest = 0
         \/ first = "restoring" /\ manifest # 0,
         Acquire(p, first, manifest)
  PROVE  MInv'
<1> DEFINE o == [at |-> first, before |-> db, manifest |-> manifest, outcome |-> "none"]
<1>1. /\ operation[p].at = "idle" /\ lock = "free" /\ lock' = p
      /\ operation' = [operation EXCEPT ![p] = o]
      /\ beside' = (beside \/ services # "down") /\ UNCHANGED <<db, backups, services>>
  BY DEF Acquire, OperationAt, LockFree
<1>2. o \in Operation
  <2>1. manifest \in 0..MaxBackups
    BY MigrationBounds DEF MInv, MigrationTypeOK
  <2>2. db \in File /\ first \in {"locked", "restoring"}
    BY DEF MInv, MigrationTypeOK
  <2> QED BY <2>1, <2>2 DEF Operation
<1> HIDE DEF o
<1>3. operation'[p] = o /\ \A q \in Operations : q # p => operation'[q] = operation[q]
  BY <1>1 DEF MInv, MigrationTypeOK
<1>4. \A q \in Operations : operation[q].at = "idle"
  BY <1>1, Records DEF MInv, LockHeld
<1>5. MigrationTypeOK'
  BY <1>1, <1>2 DEF MInv, MigrationTypeOK
<1>6. Fits' /\ LockHeld'
  BY <1>1, <1>3, <1>4 DEF MInv, Fits, Files, LockHeld, o
<1>7. ASSUME ~beside' PROVE Alone'
  <2>1. ~beside /\ services = "down"
    BY <1>1, <1>7 DEF MInv, MigrationTypeOK
  <2>2. ServedAtHead' /\ Recoverable'
    BY <1>1, <2>1 DEF MInv, Alone, ServedAtHead, Recoverable, Files, BackedUp
  <2>3. \A q \in Operations : KnowsItsFile(operation[q])'
    BY <1>1, <1>3, <1>4 DEF KnowsItsFile, o
  <2> QED BY <2>2, <2>3 DEF Alone
<1> QED BY <1>5, <1>6, <1>7 DEF MInv

LEMMA StartUpgradeKeepsMInv ==
  ASSUME MInv, NEW p \in Operations, StartUpgrade(p)
  PROVE  MInv'
BY AcquireKeepsMInv DEF StartUpgrade, MInv, MigrationTypeOK

LEMMA RestoreBackupKeepsMInv ==
  ASSUME MInv, NEW p \in Operations, RestoreBackup(p)
  PROVE  MInv'
<1>1. PICK b \in DOMAIN backups : Acquire(p, "restoring", b)
  BY DEF RestoreBackup
<1>2. b \in 0..Len(backups) /\ b # 0
  BY DEF MInv, MigrationTypeOK
<1> QED BY <1>1, <1>2, AcquireKeepsMInv

LEMMA TokenUnwrittenKeepsMInv ==
  ASSUME MInv, NEW p \in Operations, TokenUnwritten(p)
  PROVE  MInv'
BY EndKeepsMInv DEF TokenUnwritten, MInv, LockHeld

LEMMA ReleaseKeepsMInv ==
  ASSUME MInv, NEW p \in Operations, Release(p)
  PROVE  MInv'
BY EndKeepsMInv DEF Release, OperationAt, MInv, LockHeld

LEMMA OperationDiesKeepsMInv ==
  ASSUME MInv, NEW p \in Operations, OperationDies(p)
  PROVE  MInv'
BY EndKeepsMInv DEF OperationDies, OperationAt, MInv, LockHeld

LEMMA RemoveKeptLockKeepsMInv ==
  ASSUME MInv, RemoveKeptLock
  PROVE  MInv'
<1>1. lock = "kept" /\ lock' = "free" /\ UNCHANGED <<db, backups, operation, services, beside>>
  BY DEF RemoveKeptLock
<1>2. MigrationTypeOK' /\ LockHeld' /\ Fits'
  BY <1>1, Records DEF MInv, MigrationTypeOK, LockHeld, Fits, Files
<1>3. ASSUME ~beside PROVE Alone'
  <2>1. ServedAtHead' /\ Recoverable' /\ \A p \in Operations : KnowsItsFile(operation[p])'
    BY <1>1, <1>3 DEF MInv, Alone, ServedAtHead, Recoverable, Files, BackedUp, KnowsItsFile,
                      HasItsBackup
  <2> QED BY <2>1 DEF Alone
<1> QED BY <1>1, <1>2, <1>3 DEF MInv

-----------------------------------------------------------------------------
(* The upgrade *)

LEMMA BeginBackupKeepsMInv ==
  ASSUME MInv, NEW p \in Operations, BeginBackup(p)
  PROVE  MInv'
<1>1. operation[p].at = "locked" /\ UNCHANGED <<db, lock, backups, services, beside>>
  BY DEF BeginBackup, OperationAt
<1>2. db \in File /\ operation \in [Operations -> Operation] /\ operation[p] \in Operation
  BY DEF MInv, MigrationTypeOK
<1>3. ~beside => db = operation[p].before /\ operation[p].manifest = 0
  BY <1>1 DEF MInv, Alone, KnowsItsFile
<1>4. CASE ~HasTables(db)
  <2>1. operation' = [operation EXCEPT ![p].at = "classifying"]
    BY <1>4 DEF BeginBackup, OperationGoes
  <2>2. operation'[p] = [operation[p] EXCEPT !.at = "classifying"]
    BY <1>2, <2>1
  <2>3. operation' \in [Operations -> Operation]
    BY <1>2, <2>1 DEF Operation
  <2>4. ~beside => KnowsItsFile(operation[p])'
    <3>1. ~beside => db = NoFile
      BY <1>4 DEF MInv, Alone, Recoverable, Files
    <3> QED BY <1>1, <1>2, <1>3, <2>2, <3>1 DEF KnowsItsFile, HasItsBackup, Operation
  <2> QED BY <1>1, <1>2, <2>1, <2>2, <2>3, <2>4, QuietWorkKeepsMInv DEF Operation
<1>5. CASE HasTables(db) /\ ~Offline
  <2>1. operation' = [operation EXCEPT ![p] = [@ EXCEPT !.at = "releasing", !.outcome = "busy"]]
    BY <1>5 DEF BeginBackup, OperationEnds
  <2>2. operation'[p] = [operation[p] EXCEPT !.at = "releasing", !.outcome = "busy"]
    BY <1>2, <2>1
  <2>3. operation' \in [Operations -> Operation]
    BY <1>2, <2>1 DEF Operation
  <2>4. ~beside => KnowsItsFile(operation[p])'
    BY <1>1, <1>2, <1>3, <2>2 DEF KnowsItsFile, Operation
  <2> QED BY <1>1, <1>2, <2>1, <2>2, <2>3, <2>4, QuietWorkKeepsMInv DEF Operation
<1>6. CASE HasTables(db) /\ Offline
  <2>1. operation' = [operation EXCEPT ![p] = [@ EXCEPT !.at = "copying", !.before = db]]
    BY <1>6 DEF BeginBackup
  <2>2. operation'[p] = [operation[p] EXCEPT !.at = "copying", !.before = db]
    BY <1>2, <2>1
  <2>3. operation' \in [Operations -> Operation]
    BY <1>2, <2>1 DEF Operation
  <2>4. ~beside => KnowsItsFile(operation[p])'
    BY <1>1, <1>2, <2>2 DEF KnowsItsFile, Operation
  <2> QED BY <1>1, <1>2, <2>1, <2>2, <2>3, <2>4, QuietWorkKeepsMInv DEF Operation
<1> QED BY <1>4, <1>5, <1>6

LEMMA CreateBackupKeepsMInv ==
  ASSUME MInv, NEW p \in Operations, CreateBackup(p)
  PROVE  MInv'
<1>1. /\ operation[p].at = "copying" /\ Len(backups) < MaxBackups
      /\ UNCHANGED <<db, lock, services, beside>>
  BY DEF CreateBackup, OperationAt
<1>2. /\ db \in File /\ operation \in [Operations -> Operation] /\ operation[p] \in Operation
      /\ backups \in Seq(File) /\ MaxBackups \in Nat
  BY MigrationBounds DEF MInv, MigrationTypeOK
<1>3. CASE db = operation[p].before
  <2>1. /\ backups' = Append(backups, db)
        /\ operation' = [operation EXCEPT ![p] =
             [@ EXCEPT !.at = "classifying", !.manifest = Len(backups')]]
    BY <1>3 DEF CreateBackup, Keeping
  <2>2. /\ backups' \in Seq(File) /\ Len(backups') = Len(backups) + 1 /\ Len(backups) \in Nat
        /\ backups'[Len(backups) + 1] = db /\ DOMAIN backups' = 1..Len(backups) + 1
        /\ \A b \in 1..Len(backups) : backups'[b] = backups[b]
        /\ DOMAIN backups = 1..Len(backups)
    BY <1>2, <2>1
  <2>3. operation'[p] = [operation[p] EXCEPT !.at = "classifying", !.manifest = Len(backups) + 1]
    BY <1>2, <2>1, <2>2
  <2>4. operation' \in [Operations -> Operation] /\ Len(backups') <= MaxBackups
    <3>1. Len(backups') \in 0..MaxBackups
      BY <1>1, <1>2, <2>2
    <3>2. [operation[p] EXCEPT !.at = "classifying", !.manifest = Len(backups')] \in Operation
      BY <1>2, <3>1 DEF Operation
    <3> QED BY <1>2, <2>1, <3>1, <3>2
  <2>5. \A f \in Files' : f \in Files
    <3>1. ASSUME NEW b \in DOMAIN backups' PROVE backups'[b] \in Files
      <4>1. CASE b = Len(backups) + 1
        BY <2>2, <4>1 DEF Files
      <4>2. CASE b # Len(backups) + 1
        <5>1. b \in 1..Len(backups)
          BY <2>2, <4>2
        <5> QED BY <2>2, <5>1 DEF Files
      <4> QED BY <4>1, <4>2
    <3> QED BY <1>1, <3>1 DEF Files
  <2>6. \A q \in Operations : q # p => operation'[q] = operation[q]
    BY <1>2, <2>1
  <2>7. Fits'
    <3>1. \A f \in Files' : ~f.whole => f.tables < HeadRevision
      BY <2>5 DEF MInv, Fits
    <3>2. \A q \in Operations : operation[q].manifest \in 0..Len(backups)
                             /\ (operation[q].at = "restoring" => operation[q].manifest # 0)
      BY DEF MInv, Fits
    <3>3. \A q \in Operations : operation'[q].manifest \in 0..Len(backups')
                             /\ (operation'[q].at = "restoring" => operation'[q].manifest # 0)
      <4>1. operation'[p].manifest = Len(backups') /\ operation'[p].at = "classifying"
        BY <1>2, <2>2, <2>3 DEF Operation
      <4>2. ASSUME NEW q \in Operations, q # p
            PROVE  operation'[q].manifest \in 0..Len(backups')
        BY <1>2, <2>2, <2>6, <3>2, <4>2 DEF Operation
      <4> QED BY <2>2, <2>6, <3>2, <4>1, <4>2
    <3>4. services' = "writing" => db'.commits < MaxWrites
      BY <1>1 DEF MInv, Fits
    <3> QED BY <3>1, <3>3, <3>4 DEF Fits
  <2>8. ASSUME ~beside PROVE (Recoverable /\ KnowsItsFile(operation[p]))'
    <3>1. \A f \in Files : (~HasTables(f) => f = NoFile) /\ BackedUp(f)
      BY <2>8 DEF MInv, Alone, Recoverable
    <3>2. \A f \in Files' : BackedUp(f)'
      <4>1. \A b \in DOMAIN backups : b \in DOMAIN backups' /\ backups'[b] = backups[b]
        BY <2>2
      <4> QED BY <2>5, <3>1, <4>1 DEF BackedUp
    <3>3. Recoverable'
      BY <2>5, <3>1, <3>2 DEF Recoverable
    <3>4. KnowsItsFile(operation[p])'
      <4>1. /\ operation'[p].at = "classifying" /\ operation'[p].before = operation[p].before
            /\ operation'[p].manifest = Len(backups) + 1
        BY <1>2, <2>3 DEF Operation
      <4>2. db' = operation'[p].before /\ backups'[operation'[p].manifest] = db
        BY <1>1, <1>3, <2>2, <4>1
      <4> QED BY <1>1, <2>2, <4>1, <4>2 DEF KnowsItsFile, HasItsBackup
    <3> QED BY <3>3, <3>4
  <2>9. operation[p].at # "idle" /\ operation'[p].at # "idle" /\ db' \in File
    BY <1>1, <1>2, <2>3 DEF Operation
  <2> QED BY <1>1, <2>2, <2>4, <2>6, <2>7, <2>8, <2>9, WorkKeepsMInv
<1>4. CASE db # operation[p].before
  <2>1. /\ UNCHANGED backups
        /\ operation' = [operation EXCEPT ![p] =
             [@ EXCEPT !.at = "releasing", !.outcome = "unverified"]]
    BY <1>4 DEF CreateBackup, OperationEnds
  <2>2. operation'[p] = [operation[p] EXCEPT !.at = "releasing", !.outcome = "unverified"]
    BY <1>2, <2>1
  <2>3. operation' \in [Operations -> Operation]
    BY <1>2, <2>1 DEF Operation
  <2>4. beside
    BY <1>1, <1>4 DEF MInv, Alone, KnowsItsFile
  <2> QED BY <1>1, <1>2, <2>1, <2>2, <2>3, <2>4, QuietWorkKeepsMInv DEF Operation
<1> QED BY <1>3, <1>4

LEMMA RecognisedIsConsistent ==
  ASSUME Recoverable, NEW f \in Files, Recognised(f)
  PROVE  Consistent(f)
BY DEF Recoverable, Recognised, Consistent, HasTables, NoFile

LEMMA ClassifyKeepsMInv ==
  ASSUME MInv, NEW p \in Operations, Classify(p)
  PROVE  MInv'
<1>1. operation[p].at = "classifying" /\ UNCHANGED <<lock, backups, services, beside>>
  BY DEF Classify, OperationAt
<1>2. db \in File /\ operation \in [Operations -> Operation] /\ operation[p] \in Operation
  BY DEF MInv, MigrationTypeOK
<1>3. ~beside => db = operation[p].before /\ HasItsBackup(operation[p])
  BY <1>1 DEF MInv, Alone, KnowsItsFile
<1>4. CASE Recognised(db)
  <2>1. /\ db' = [db EXCEPT !.stamp = db.tables]
        /\ operation' = [operation EXCEPT ![p].at = "upgrading"]
    BY <1>4 DEF Classify, OperationGoes
  <2>2. /\ db' \in File /\ db'.commits = db.commits /\ db'.whole = db.whole
        /\ db'.tables = db.tables /\ db'.stamp = db.tables
    BY <1>2, <2>1 DEF File
  <2>3. operation'[p] = [operation[p] EXCEPT !.at = "upgrading"]
    BY <1>2, <2>1
  <2>4. operation' \in [Operations -> Operation]
    BY <1>2, <2>1 DEF Operation
  <2>5. Fits'
    <3>1. \A f \in Files' : ~f.whole => f.tables < HeadRevision
      BY <1>1, <2>2 DEF MInv, Fits, Files
    <3>2. \A q \in Operations :
            /\ operation'[q].manifest = operation[q].manifest
            /\ operation'[q].at = "restoring" => operation[q].at = "restoring"
      BY <1>2, <2>1, <2>3 DEF Operation
    <3>3. services' = "writing" => db'.commits < MaxWrites
      BY <1>1, <2>2 DEF MInv, Fits
    <3> QED BY <1>1, <3>1, <3>2, <3>3 DEF MInv, Fits
  <2>6. ASSUME ~beside PROVE Recoverable'
    <3>1. ~HasTables(db) => db = NoFile
      BY <2>6 DEF MInv, Alone, Recoverable, Files
    <3>2. Consistent(db)
      BY <1>4, <2>6, RecognisedIsConsistent DEF MInv, Alone, Files
    <3>3. Consistent(db')
      BY <2>2, <3>2 DEF Consistent
    <3>4. ~HasTables(db') => db' = NoFile
      <4>1. ~HasTables(db') => ~HasTables(db)
        BY <2>2 DEF HasTables
      <4>2. [NoFile EXCEPT !.stamp = NoFile.tables] = NoFile
        BY DEF NoFile
      <4> QED BY <2>1, <3>1, <4>1, <4>2
    <3> QED BY <1>1, <2>6, <3>3, <3>4, ChangedFileIsRecoverable DEF MInv, Alone
  <2>7. ASSUME ~beside PROVE KnowsItsFile(operation[p])'
    <3>1. /\ operation'[p].at = "upgrading" /\ operation'[p].before = operation[p].before
          /\ operation'[p].manifest = operation[p].manifest
      BY <1>2, <2>3 DEF Operation
    <3> QED BY <1>1, <1>3, <1>4, <2>2, <2>7, <3>1 DEF KnowsItsFile, HasItsBackup, Recognised
  <2>8. \A q \in Operations : q # p => operation'[q] = operation[q]
    BY <1>2, <2>1
  <2>9. operation[p].at # "idle" /\ operation'[p].at # "idle"
    BY <1>1, <1>2, <2>3 DEF Operation
  <2>10. backups' \in Seq(File) /\ Len(backups') <= MaxBackups
    BY <1>1 DEF MInv, MigrationTypeOK
  <2> QED BY <1>1, <2>2, <2>4, <2>5, <2>6, <2>7, <2>8, <2>9, <2>10, WorkKeepsMInv
<1>5. CASE ~Recognised(db)
  <2>1. /\ UNCHANGED db
        /\ operation' = [operation EXCEPT ![p] =
             [@ EXCEPT !.outcome = "incompatible", !.at = AfterRefusal(operation[p])]]
    BY <1>5 DEF Classify
  <2>2. /\ operation'[p].at = AfterRefusal(operation[p])
        /\ operation'[p].before = operation[p].before
        /\ operation'[p].manifest = operation[p].manifest
    BY <1>2, <2>1 DEF Operation
  <2>3. AfterRefusal(operation[p]) \in {"restoring", "releasing"}
    BY DEF AfterRefusal
  <2>4. operation' \in [Operations -> Operation]
    BY <1>2, <2>1, <2>3 DEF Operation
  <2>5. AfterRefusal(operation[p]) = "restoring" => operation[p].manifest # 0
    BY DEF AfterRefusal
  <2>6. ~beside => KnowsItsFile(operation[p])'
    BY <1>1, <1>3, <2>1, <2>2, <2>3 DEF KnowsItsFile, HasItsBackup
  <2>7. \A q \in Operations : q # p => operation'[q] = operation[q]
    BY <1>2, <2>1
  <2> QED BY <1>1, <2>1, <2>2, <2>3, <2>4, <2>5, <2>6, <2>7, QuietWorkKeepsMInv
<1> QED BY <1>4, <1>5

\* A revision commits: whatever the file becomes, the backup is there.
LEMMA RevisionKeepsMInv ==
  ASSUME MInv, NEW p \in Operations, operation[p].at = "upgrading", db' \in File,
         db'.commits = db.commits, HasTables(db'), ~db'.whole => db'.tables < HeadRevision,
         UNCHANGED <<lock, backups, operation, services, beside>>
  PROVE  MInv'
<1>1. Fits'
  BY DEF MInv, Fits, Files
<1>2. ASSUME ~beside PROVE Recoverable'
  <2>1. /\ Recognised(operation[p].before) /\ db.commits = operation[p].before.commits
        /\ HasItsBackup(operation[p])
    BY <1>2 DEF MInv, Alone, KnowsItsFile
  <2>2. CASE operation[p].manifest = 0
    <3>1. db'.commits = 0
      BY <2>1, <2>2 DEF HasItsBackup, NoFile
    <3> QED BY <1>2, <3>1, ChangedFileIsRecoverable DEF MInv, Alone
  <2>3. CASE operation[p].manifest # 0
    <3>1. operation[p].manifest \in DOMAIN backups
      BY <2>3 DEF MInv, MigrationTypeOK, Fits
    <3>2. backups[operation[p].manifest] = operation[p].before
      BY <2>1, <2>3 DEF HasItsBackup
    <3>3. Consistent(operation[p].before)
      BY <1>2, <2>1, <3>1, <3>2, RecognisedIsConsistent DEF MInv, Alone, Files
    <3>4. db'.commits \in Nat /\ operation[p].before.commits >= db'.commits
      BY <2>1 DEF File
    <3> QED BY <1>2, <3>1, <3>2, <3>3, <3>4, ChangedFileIsRecoverable DEF MInv, Alone
  <2> QED BY <2>2, <2>3
<1>3. ~beside => KnowsItsFile(operation[p])'
  BY DEF MInv, Alone, KnowsItsFile, HasItsBackup
<1> QED BY <1>1, <1>2, <1>3, WorkKeepsMInv DEF MInv, MigrationTypeOK

LEMMA UpgradeKeepsMInv ==
  ASSUME MInv, NEW p \in Operations,
         BeginRevision(p) \/ EndRevision(p) \/ CommitUpgrade(p)
  PROVE  MInv'
<1>1. /\ operation[p].at = "upgrading" /\ ~AtHead(db)
      /\ UNCHANGED <<lock, backups, operation, services, beside>>
  BY DEF BeginRevision, EndRevision, CommitUpgrade, Revising, OperationAt
<1>2. db \in File /\ HeadRevision \in Nat \ {0}
  BY Records DEF MInv, MigrationTypeOK
<1>3. CASE BeginRevision(p)
  <2>1. db' = [db EXCEPT !.whole = FALSE] /\ db.whole /\ db.stamp = db.tables
    BY <1>3 DEF BeginRevision
  <2>2. db.tables < HeadRevision
    BY <1>1, <1>2, <2>1 DEF AtHead, File
  <2>3. /\ db' \in File /\ db'.commits = db.commits /\ ~db'.whole /\ db'.tables = db.tables
    BY <1>2, <2>1 DEF File
  <2> QED BY <1>1, <2>2, <2>3, RevisionKeepsMInv DEF HasTables
<1>4. CASE EndRevision(p)
  <2>1. db' = [db EXCEPT !.tables = @ + 1, !.whole = TRUE]
    BY <1>4 DEF EndRevision
  <2>2. db' \in File /\ db'.commits = db.commits /\ db'.tables > 0
    <3>1. db.tables < HeadRevision
      BY <1>4 DEF EndRevision, MInv, Fits, Files
    <3>2. db.tables + 1 \in 0..HeadRevision /\ db.tables + 1 > 0
      BY <1>2, <3>1 DEF File
    <3>3. db'.tables = db.tables + 1 /\ db'.commits = db.commits
      BY <1>2, <2>1 DEF File
    <3>4. [db EXCEPT !.tables = db.tables + 1, !.whole = TRUE] \in File
      BY <1>2, <3>2 DEF File
    <3> QED BY <2>1, <3>2, <3>3, <3>4
  <2>3. db'.whole
    <3>1. db'.whole = TRUE
      BY <1>2, <2>1 DEF File
    <3> QED BY <3>1
  <2>4. HasTables(db') /\ (~db'.whole => db'.tables < HeadRevision)
    BY <2>2, <2>3 DEF HasTables
  <2> QED BY <1>1, <2>2, <2>4, RevisionKeepsMInv
<1>5. CASE CommitUpgrade(p)
  <2>1. db' = [db EXCEPT !.tables = HeadRevision, !.stamp = HeadRevision, !.whole = TRUE]
    BY <1>5 DEF CommitUpgrade
  <2>2. db' \in File /\ db'.commits = db.commits /\ db'.tables > 0
    <3>1. HeadRevision \in 0..HeadRevision /\ HeadRevision > 0
      BY <1>2
    <3> QED BY <1>2, <2>1, <3>1 DEF File
  <2>3. db'.whole
    <3>1. db'.whole = TRUE
      BY <1>2, <2>1 DEF File
    <3> QED BY <3>1
  <2>4. HasTables(db') /\ (~db'.whole => db'.tables < HeadRevision)
    BY <2>2, <2>3 DEF HasTables
  <2> QED BY <1>1, <2>2, <2>4, RevisionKeepsMInv
<1> QED BY <1>3, <1>4, <1>5

LEMMA FinishUpgradeKeepsMInv ==
  ASSUME MInv, NEW p \in Operations, FinishUpgrade(p)
  PROVE  MInv'
<1>1. /\ operation[p].at = "upgrading" /\ UNCHANGED <<db, lock, backups, services, beside>>
      /\ operation' = [operation EXCEPT ![p] = [@ EXCEPT !.at = "releasing", !.outcome = "done"]]
  BY DEF FinishUpgrade, OperationAt, OperationEnds
<1>2. operation \in [Operations -> Operation] /\ operation[p] \in Operation
  BY DEF MInv, MigrationTypeOK
<1>3. operation'[p] = [operation[p] EXCEPT !.at = "releasing", !.outcome = "done"]
  BY <1>1, <1>2
<1>4. operation' \in [Operations -> Operation]
  BY <1>1, <1>2 DEF Operation
<1>5. KnowsItsFile(operation[p])'
  BY <1>2, <1>3 DEF KnowsItsFile, Operation
<1> QED BY <1>1, <1>2, <1>3, <1>4, <1>5, QuietWorkKeepsMInv DEF Operation

LEMMA UpgradeFailsKeepsMInv ==
  ASSUME MInv, NEW p \in Operations, UpgradeFails(p)
  PROVE  MInv'
<1>1. /\ operation[p].at \in {"classifying", "upgrading"}
      /\ UNCHANGED <<lock, backups, services, beside>>
  BY DEF UpgradeFails
<1>2. operation \in [Operations -> Operation] /\ operation[p] \in Operation
  BY DEF MInv, MigrationTypeOK
<1>3. ~beside => HasItsBackup(operation[p])
  BY <1>1 DEF MInv, Alone, KnowsItsFile
<1>4. CASE operation[p].manifest # 0
  <2>1. /\ operation' = [operation EXCEPT ![p] =
             [@ EXCEPT !.at = "restoring", !.outcome = "failed"]]
        /\ UNCHANGED db
    BY <1>4 DEF UpgradeFails
  <2>2. operation'[p] = [operation[p] EXCEPT !.at = "restoring", !.outcome = "failed"]
    BY <1>2, <2>1
  <2>3. operation' \in [Operations -> Operation]
    BY <1>2, <2>1 DEF Operation
  <2>4. ~beside => KnowsItsFile(operation[p])'
    BY <1>1, <1>2, <1>3, <2>1, <2>2 DEF KnowsItsFile, HasItsBackup, Operation
  <2> QED BY <1>1, <1>2, <1>4, <2>1, <2>2, <2>3, <2>4, QuietWorkKeepsMInv DEF Operation
<1>5. CASE operation[p].manifest = 0
  <2>1. /\ db' = NoFile
        /\ operation' = [operation EXCEPT ![p] =
             [@ EXCEPT !.at = "releasing", !.outcome = "failed"]]
    BY <1>5 DEF UpgradeFails, OperationEnds
  <2>2. operation'[p] = [operation[p] EXCEPT !.at = "releasing", !.outcome = "failed"]
    BY <1>2, <2>1
  <2>3. operation' \in [Operations -> Operation]
    BY <1>2, <2>1 DEF Operation
  <2>4. NoFile.whole /\ NoFile.commits = 0
    BY DEF NoFile
  <2>5. Fits'
    <3>1. \A f \in Files' : ~f.whole => f.tables < HeadRevision
      BY <1>1, <2>1, <2>4 DEF MInv, Fits, Files
    <3>2. \A q \in Operations :
            /\ operation'[q].manifest = operation[q].manifest
            /\ operation'[q].at = "restoring" => operation[q].at = "restoring"
      BY <1>2, <2>1, <2>2 DEF Operation
    <3>3. services' = "writing" => db'.commits < MaxWrites
      BY <2>1, <2>4, MigrationBounds
    <3> QED BY <1>1, <3>1, <3>2, <3>3 DEF MInv, Fits
  <2>6. ~beside => Recoverable'
    BY <1>1, <2>1, <2>4 DEF MInv, Alone, Recoverable, Files, BackedUp
  <2>7. ~beside => KnowsItsFile(operation[p])'
    BY <1>1, <1>2, <1>3, <1>5, <2>1, <2>2 DEF KnowsItsFile, HasItsBackup, Operation
  <2>8. operation[p].at # "idle" /\ operation'[p].at # "idle"
    BY <1>1, <1>2, <2>2 DEF Operation
  <2>9. \A q \in Operations : q # p => operation'[q] = operation[q]
    BY <1>2, <2>1
  <2> QED BY <1>1, <2>1, <2>3, <2>5, <2>6, <2>7, <2>8, <2>9, Records, WorkKeepsMInv
          DEF MInv, MigrationTypeOK
<1> QED BY <1>4, <1>5

LEMMA RestoreKeepsMInv ==
  ASSUME MInv, NEW p \in Operations, Restore(p)
  PROVE  MInv'
<1>1. /\ operation[p].at = "restoring" /\ db' = backups[operation[p].manifest]
      /\ operation' = [operation EXCEPT ![p].at = "releasing"]
      /\ services # "writing" /\ UNCHANGED <<lock, backups, services, beside>>
  BY DEF Restore, OperationAt, OperationGoes, Offline
<1>2. /\ operation \in [Operations -> Operation] /\ operation[p] \in Operation
      /\ backups \in Seq(File) /\ operation[p].manifest \in DOMAIN backups
  BY <1>1 DEF MInv, MigrationTypeOK, Fits
<1>3. operation'[p] = [operation[p] EXCEPT !.at = "releasing"]
  BY <1>1, <1>2
<1>4. operation' \in [Operations -> Operation]
  BY <1>1, <1>2 DEF Operation
<1>5. \A q \in Operations : q # p => operation'[q] = operation[q]
  BY <1>1, <1>2
<1>6. \A f \in Files' : f \in Files
  BY <1>1, <1>2 DEF Files
<1>7. Fits'
  <2>1. \A f \in Files' : ~f.whole => f.tables < HeadRevision
    BY <1>6 DEF MInv, Fits
  <2> QED BY <1>1, <1>2, <1>3, <1>5, <2>1 DEF MInv, Fits, Operation
<1>8. ~beside => Recoverable'
  BY <1>1, <1>6 DEF MInv, Alone, Recoverable, BackedUp
<1>9. ~beside => KnowsItsFile(operation[p])'
  <2>1. operation[p].manifest # 0
    BY <1>2 DEF MInv, MigrationTypeOK
  <2>2. /\ operation'[p].at = "releasing" /\ operation'[p].before = operation[p].before
        /\ operation'[p].outcome = operation[p].outcome
    BY <1>2, <1>3 DEF Operation
  <2>3. ~beside /\ operation[p].outcome # "none" => db' = operation[p].before
    BY <1>1, <2>1 DEF MInv, Alone, KnowsItsFile, HasItsBackup
  <2> QED BY <2>2, <2>3 DEF KnowsItsFile
<1>10. db' \in File /\ operation'[p].at # "idle"
  BY <1>1, <1>2, <1>3 DEF Operation
<1> QED BY <1>1, <1>4, <1>5, <1>7, <1>8, <1>9, <1>10, WorkKeepsMInv DEF MInv, MigrationTypeOK

LEMMA RestoreFailsKeepsMInv ==
  ASSUME MInv, NEW p \in Operations, RestoreFails(p)
  PROVE  MInv'
<1>1. /\ operation[p].at = "restoring" /\ UNCHANGED <<db, lock, backups, services, beside>>
      /\ operation' = [operation EXCEPT ![p] =
           [@ EXCEPT !.at = "releasing", !.outcome = "unrestored"]]
  BY DEF RestoreFails, OperationAt, OperationEnds
<1>2. operation \in [Operations -> Operation] /\ operation[p] \in Operation
  BY DEF MInv, MigrationTypeOK
<1>3. operation'[p] = [operation[p] EXCEPT !.at = "releasing", !.outcome = "unrestored"]
  BY <1>1, <1>2
<1>4. operation' \in [Operations -> Operation]
  BY <1>1, <1>2 DEF Operation
<1>5. KnowsItsFile(operation[p])'
  BY <1>2, <1>3 DEF KnowsItsFile, Operation
<1> QED BY <1>1, <1>2, <1>3, <1>4, <1>5, QuietWorkKeepsMInv DEF Operation

-----------------------------------------------------------------------------
(* The application *)

LEMMA ServiceStepsKeepMInv ==
  ASSUME MInv, CheckLock \/ StartServices \/ BeginWrite \/ StopServices
  PROVE  MInv'
<1>1. UNCHANGED <<db, lock, backups, operation, beside>>
  BY DEF CheckLock, StartServices, BeginWrite, StopServices
<1>2. services' \in {"down", "checking", "up", "writing"}
  BY DEF CheckLock, StartServices, BeginWrite, StopServices
<1>3. services' = "writing" => db.commits < MaxWrites
  BY DEF CheckLock, StartServices, BeginWrite, StopServices
<1>4. ~beside => ServedAtHead'
  BY <1>1 DEF MInv, Alone, ServedAtHead, CheckLock, LockAbsent, StartServices, BeginWrite,
              StopServices, AtHead
<1> QED BY <1>1, <1>2, <1>3, <1>4, ServicesKeepMInv

LEMMA CommitWriteKeepsMInv ==
  ASSUME MInv, CommitWrite
  PROVE  MInv'
<1>1. /\ services = "writing" /\ services' = "up" /\ db' = [db EXCEPT !.commits = @ + 1]
      /\ UNCHANGED <<lock, backups, operation, beside>>
  BY DEF CommitWrite
<1>2. db \in File /\ db.commits < MaxWrites
  BY <1>1 DEF MInv, MigrationTypeOK, Fits
<1>3. /\ db' \in File /\ db'.whole = db.whole /\ db'.tables = db.tables /\ db'.stamp = db.stamp
  BY <1>1, <1>2, MigrationBounds DEF File
<1>4. MigrationTypeOK' /\ LockHeld' /\ Fits'
  BY <1>1, <1>3 DEF MInv, MigrationTypeOK, LockHeld, Fits, Files
<1>5. ASSUME ~beside PROVE Alone'
  <2>1. lock = "free" /\ AtHead(db)
    BY <1>1, <1>5 DEF MInv, Alone, ServedAtHead
  <2>2. \A q \in Operations : operation[q].at = "idle"
    BY <2>1, Records DEF MInv, LockHeld
  <2>3. AtHead(db') /\ Consistent(db') /\ HasTables(db')
    BY <1>3, <2>1, Records DEF AtHead, Consistent, HasTables
  <2>4. ServedAtHead'
    BY <1>1, <2>1, <2>3 DEF ServedAtHead, AtHead
  <2>5. Recoverable'
    BY <1>1, <1>5, <2>3 DEF MInv, Alone, Recoverable, Files, BackedUp
  <2>6. \A q \in Operations : KnowsItsFile(operation[q])'
    BY <1>1, <2>2 DEF KnowsItsFile
  <2> QED BY <2>4, <2>5, <2>6 DEF Alone
<1> QED BY <1>1, <1>4, <1>5 DEF MInv

-----------------------------------------------------------------------------
(* The invariant of the specification *)

LEMMA InitKeepsMInv == MigrationInit => MInv
<1> SUFFICES ASSUME MigrationInit PROVE MInv
  OBVIOUS
<1>1. /\ lock = "free" /\ backups = <<>> /\ services = "down" /\ beside = FALSE
      /\ operation = [p \in Operations |-> Idle] /\ Consistent(db)
  BY DEF MigrationInit
<1>2. db \in File /\ (db = NoFile \/ db.tables > 0)
  <2>1. CASE db = NoFile
    BY <2>1, Records
  <2>2. CASE db \in [tables : 1..HeadRevision, whole : {TRUE}, stamp : 0..HeadRevision,
                     commits : {1}]
    <3>1. PICK t \in 1..HeadRevision, s \in 0..HeadRevision :
            db = [tables |-> t, whole |-> TRUE, stamp |-> s, commits |-> 1]
      BY <2>2
    <3>2. 1 \in 0..MaxWrites /\ t \in 0..HeadRevision /\ t > 0
      BY Records, MigrationBounds
    <3> QED BY <3>1, <3>2 DEF File
  <2> QED BY <2>1, <2>2 DEF MigrationInit
<1>3. \A p \in Operations : operation[p] = Idle /\ p # "free"
  BY <1>1, Records
<1>4. MigrationTypeOK
  <2>1. backups \in Seq(File) /\ Len(backups) = 0
    BY <1>1
  <2>2. operation \in [Operations -> Operation] /\ Len(backups) <= MaxBackups
    BY <1>1, <2>1, Records, MigrationBounds
  <2>3. db \in File /\ beside \in BOOLEAN /\ lock \in {"free", "kept"} \cup Operations
    BY <1>1, <1>2
  <2>4. services \in {"down", "checking", "up", "writing"}
    BY <1>1
  <2> QED BY <2>1, <2>2, <2>3, <2>4 DEF MigrationTypeOK
<1>5. Fits /\ LockHeld
  BY <1>1, <1>3 DEF Fits, Files, Consistent, LockHeld, Idle
<1>6. Recoverable
  BY <1>1, <1>2 DEF Recoverable, Files, BackedUp, HasTables
<1>7. ServedAtHead /\ \A p \in Operations : KnowsItsFile(operation[p])
  BY <1>1, <1>3 DEF ServedAtHead, KnowsItsFile, Idle
<1> QED BY <1>4, <1>5, <1>6, <1>7 DEF MInv, Alone

LEMMA NextKeepsMInv == MInv /\ [MigrationNext]_migrationVars => MInv'
<1> SUFFICES ASSUME MInv, [MigrationNext]_migrationVars PROVE MInv'
  OBVIOUS
<1>1. CASE UNCHANGED migrationVars
  BY <1>1 DEF MInv, MigrationTypeOK, Fits, Files, LockHeld, Alone, ServedAtHead, Recoverable,
              BackedUp, KnowsItsFile, HasItsBackup, migrationVars
<1>2. ASSUME NEW p \in Operations,
             \/ StartUpgrade(p) \/ RestoreBackup(p) \/ TokenUnwritten(p) \/ Release(p)
             \/ OperationDies(p) \/ BeginBackup(p) \/ CreateBackup(p) \/ Classify(p)
      PROVE  MInv'
  BY <1>2, StartUpgradeKeepsMInv, RestoreBackupKeepsMInv, TokenUnwrittenKeepsMInv,
     ReleaseKeepsMInv, OperationDiesKeepsMInv, BeginBackupKeepsMInv, CreateBackupKeepsMInv,
     ClassifyKeepsMInv
<1>3. ASSUME NEW p \in Operations,
             \/ BeginRevision(p) \/ EndRevision(p) \/ CommitUpgrade(p)
             \/ FinishUpgrade(p) \/ UpgradeFails(p) \/ Restore(p) \/ RestoreFails(p)
      PROVE  MInv'
  BY <1>3, UpgradeKeepsMInv, FinishUpgradeKeepsMInv, UpgradeFailsKeepsMInv, RestoreKeepsMInv,
     RestoreFailsKeepsMInv
<1>4. CASE RemoveKeptLock \/ CommitWrite
  BY <1>4, RemoveKeptLockKeepsMInv, CommitWriteKeepsMInv
<1>5. CASE CheckLock \/ StartServices \/ BeginWrite \/ StopServices
  BY <1>5, ServiceStepsKeepMInv
<1> QED BY <1>1, <1>2, <1>3, <1>4, <1>5 DEF MigrationNext

\* Stopping the services first, whatever upgrade or restore died or failed, at whichever
\* statement, and however often: the data is in the file or in a backup.
THEOREM DataCanBeRecovered == MigrationSpec => []DataIsRecoverable
<1>1. MInv => DataIsRecoverable
  BY DEF MInv, Alone, Recoverable, Files, BackedUp, DataIsRecoverable
<1> QED BY <1>1, InitKeepsMInv, NextKeepsMInv, PTL DEF MigrationSpec

\* And an upgrade that reports a failure has left the file as it was.
THEOREM FailuresChangeNothing == MigrationSpec => FailedUpgradeChangesNothing
<1>1. MInv /\ [MigrationNext]_migrationVars =>
        [\A p \in Operations :
           ( /\ OperationAt(p, "releasing") /\ operation'[p].at = "idle" /\ ~beside
             /\ operation[p].outcome \in {"busy", "unverified", "incompatible", "failed"} )
           => db = operation[p].before]_migrationVars
  BY DEF MInv, Alone, KnowsItsFile, OperationAt
<1> QED BY <1>1, InitKeepsMInv, NextKeepsMInv, PTL DEF MigrationSpec, FailedUpgradeChangesNothing
=============================================================================
