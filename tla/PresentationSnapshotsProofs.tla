--------------------- MODULE PresentationSnapshotsProofs ---------------------
(***************************************************************************)
(* Proofs about PresentationSnapshots, for any number of requests.          *)
(*                                                                         *)
(* A request that fails deletes the file it made if no row has its digest,  *)
(* so a request that is about to save such a row must not be under way:     *)
(* that is what the lock is for (OnePresenter).                             *)
(***************************************************************************)
EXTENDS PresentationSnapshots, TLAPS

\* A request that does anything is inside the lock, and is the only one.
OnePresenter ==
  /\ \A r \in Presenters : presenter[r].at # "idle" => r \in creating
  /\ \A q, r \in creating : q = r

\* The video of the row that is about to be written is in the store.
CopiedFirst ==
  \A r \in Presenters :
    presenter[r].at = "inserting" /\ presenter[r].digest.artifact =>
      CopyOf(presenter[r].digest, "whole") \in copied

SInv == SnapshotTypeOK /\ OnePresenter /\ CopiedFirst /\ SnapshotsKeepTheirVideo

LEMMA IdleType ==
  /\ FirstSource \in Sources
  /\ IdlePresenter \in [digest : Digest, created : BOOLEAN,
       at : {"idle", "entered", "copying", "inserting", "cleaning"}]
  /\ IdlePresenter.at = "idle"
BY SourcesAssumption DEF FirstSource, IdlePresenter, Digest

LEMMA InitKeepsVideo == SnapshotInit => SInv
BY IdleType
DEF SnapshotInit, SInv, SnapshotTypeOK, OnePresenter, CopiedFirst, SnapshotsKeepTheirVideo

LEMMA EnterKeepsVideo ==
  ASSUME SInv, NEW r \in Presenters, EnterCreation(r)
  PROVE  SInv'
BY DEF SInv, SnapshotTypeOK, OnePresenter, CopiedFirst, SnapshotsKeepTheirVideo,
       EnterCreation, PresenterAt, PresenterGoes, LockTaken

\* A request that leaves takes nothing with it.
LEMMA LeavingKeepsVideo ==
  ASSUME SInv, NEW r \in Presenters, PresenterLeaves(r), UNCHANGED <<source, video, snapshots>>,
         copied' = copied
  PROVE  SInv'
BY IdleType
DEF SInv, SnapshotTypeOK, OnePresenter, CopiedFirst, SnapshotsKeepTheirVideo, PresenterLeaves

LEMMA CaptureKeepsVideo ==
  ASSUME SInv, NEW r \in Presenters, CaptureSources(r)
  PROVE  SInv'
<1>1. PICK artifact \in BOOLEAN :
        IF (artifact /\ video = "spoilt") \/ Saved(Payload(artifact))
        THEN PresenterLeaves(r)
        ELSE /\ presenter' = [presenter EXCEPT ![r] =
                  [at |-> IF artifact THEN "copying" ELSE "inserting",
                   digest |-> Payload(artifact), created |-> FALSE]]
             /\ UNCHANGED creating
  BY DEF CaptureSources
<1>2. UNCHANGED <<source, video, snapshots, copied>> /\ presenter[r].at = "entered"
  BY DEF CaptureSources, PresenterAt
<1>3. Payload(artifact) \in Digest /\ Payload(artifact).artifact = artifact
  BY DEF SInv, SnapshotTypeOK, Payload, Digest
<1>4. CASE PresenterLeaves(r)
  BY <1>2, <1>4, LeavingKeepsVideo
<1>5. CASE /\ presenter' = [presenter EXCEPT ![r] =
                [at |-> IF artifact THEN "copying" ELSE "inserting",
                 digest |-> Payload(artifact), created |-> FALSE]]
           /\ UNCHANGED creating
  <2>1. /\ presenter'[r].at \in {"copying", "inserting"} /\ presenter'[r].digest = Payload(artifact)
        /\ presenter'[r].at = "inserting" => ~artifact
        /\ \A q \in Presenters : q # r => presenter'[q] = presenter[q]
    BY <1>5 DEF SInv, SnapshotTypeOK
  <2>2. SnapshotTypeOK'
    BY <1>2, <1>3, <1>5 DEF SInv, SnapshotTypeOK
  <2>3. OnePresenter'
    BY <1>2, <1>5, <2>1 DEF SInv, OnePresenter
  <2>4. CopiedFirst'
    BY <1>2, <1>3, <2>1 DEF SInv, CopiedFirst
  <2> QED BY <1>2, <2>2, <2>3, <2>4 DEF SInv, SnapshotsKeepTheirVideo
<1> QED BY <1>1, <1>4, <1>5

LEMMA CopyKeepsVideo ==
  ASSUME SInv, NEW r \in Presenters, CopyArtifact(r)
  PROVE  SInv'
<1> DEFINE copy == CopyOf(presenter[r].digest, video)
<1>1. /\ presenter[r].at = "copying" /\ presenter[r].digest \in Digest
      /\ copied' = copied \cup {copy} /\ UNCHANGED <<source, video, snapshots>>
  BY DEF CopyArtifact, PresenterAt, SInv, SnapshotTypeOK
<1>2. copy \in [digest : Digest, bytes : {"whole", "spoilt"}]
  BY <1>1 DEF CopyOf, SInv, SnapshotTypeOK
<1>3. SnapshotsKeepTheirVideo' /\ copied' \subseteq [digest : Digest, bytes : {"whole", "spoilt"}]
  BY <1>1, <1>2 DEF SInv, SnapshotsKeepTheirVideo, SnapshotTypeOK
<1>4. CASE video # "whole"
  <2>1. PresenterLeaves(r)
    BY <1>4 DEF CopyArtifact
  <2>2. presenter'[r].at = "idle" /\ \A q \in Presenters : q # r => presenter'[q] = presenter[q]
    BY <2>1, IdleType DEF PresenterLeaves, SInv, SnapshotTypeOK
  <2>3. SnapshotTypeOK'
    BY <1>1, <1>3, <2>1, IdleType DEF SInv, SnapshotTypeOK, PresenterLeaves
  <2>4. OnePresenter' /\ CopiedFirst'
    BY <1>1, <2>1, <2>2 DEF SInv, OnePresenter, CopiedFirst, PresenterLeaves
  <2> QED BY <1>3, <2>3, <2>4 DEF SInv
<1>5. CASE video = "whole"
  <2>1. /\ presenter' = [presenter EXCEPT ![r] =
             [@ EXCEPT !.at = "inserting", !.created = copy \notin copied]]
        /\ UNCHANGED creating
    BY <1>5 DEF CopyArtifact
  <2>2. /\ presenter'[r] = [presenter[r] EXCEPT !.at = "inserting",
                                                !.created = copy \notin copied]
        /\ \A q \in Presenters : q # r => presenter'[q] = presenter[q]
    BY <2>1 DEF SInv, SnapshotTypeOK
  <2> HIDE DEF copy
  <2>3. presenter'[r].digest = presenter[r].digest
    BY <2>2 DEF SInv, SnapshotTypeOK
  <2>4. SnapshotTypeOK'
    BY <1>1, <1>3, <2>1 DEF SInv, SnapshotTypeOK
  <2>5. OnePresenter'
    BY <1>1, <2>1, <2>2 DEF SInv, OnePresenter
  <2>6. CopiedFirst'
    BY <1>1, <1>5, <2>2, <2>3 DEF SInv, CopiedFirst, copy
  <2> QED BY <1>3, <2>4, <2>5, <2>6 DEF SInv
<1> QED BY <1>4, <1>5

\* The row is new or was there, and its video is in the store either way.
LEMMA InsertKeepsVideo ==
  ASSUME SInv, NEW r \in Presenters, InsertSnapshot(r)
  PROVE  SInv'
<1> DEFINE digest == presenter[r].digest
<1>1. /\ presenter[r].at = "inserting" /\ digest \in Digest
      /\ UNCHANGED <<source, video, copied>>
  BY DEF InsertSnapshot, PresenterAt, SInv, SnapshotTypeOK
<1>2. snapshots' = IF Saved(digest) THEN snapshots ELSE Append(snapshots, digest)
  BY DEF InsertSnapshot
<1>3. digest.artifact => CopyOf(digest, "whole") \in copied
  BY <1>1 DEF SInv, CopiedFirst
<1>4. snapshots' \in Seq(Digest)
  BY <1>1, <1>2 DEF SInv, SnapshotTypeOK
<1>5. SnapshotsKeepTheirVideo'
  <2> HIDE DEF digest
  <2>1. CASE Saved(digest)
    BY <1>1, <1>2, <2>1 DEF SInv, SnapshotsKeepTheirVideo
  <2>2. CASE ~Saved(digest)
    <3>1. /\ DOMAIN snapshots' = DOMAIN snapshots \cup {Len(snapshots) + 1}
          /\ snapshots'[Len(snapshots) + 1] = digest
          /\ \A s \in DOMAIN snapshots : snapshots'[s] = snapshots[s]
      BY <1>1, <1>2, <2>2 DEF SInv, SnapshotTypeOK
    <3>2. \A s \in DOMAIN snapshots : snapshots[s] # digest
      BY <2>2 DEF Saved
    <3> QED BY <1>1, <1>3, <3>1, <3>2 DEF SInv, SnapshotsKeepTheirVideo
  <2> QED BY <2>1, <2>2
<1>6. CASE PresenterLeaves(r)
  <2>1. presenter'[r].at = "idle" /\ \A q \in Presenters : q # r => presenter'[q] = presenter[q]
    BY <1>6, IdleType DEF PresenterLeaves, SInv, SnapshotTypeOK
  <2>2. SnapshotTypeOK'
    BY <1>1, <1>4, <1>6, IdleType DEF SInv, SnapshotTypeOK, PresenterLeaves
  <2>3. OnePresenter' /\ CopiedFirst'
    BY <1>1, <1>6, <2>1 DEF SInv, OnePresenter, CopiedFirst, PresenterLeaves
  <2> QED BY <1>5, <2>2, <2>3 DEF SInv
<1>7. CASE PresenterGoes(r, "cleaning") /\ UNCHANGED creating
  BY <1>1, <1>4, <1>5, <1>7
  DEF SInv, SnapshotTypeOK, OnePresenter, CopiedFirst, PresenterGoes
<1> QED BY <1>6, <1>7 DEF InsertSnapshot

LEMMA FailureKeepsVideo ==
  ASSUME SInv, NEW r \in Presenters, InsertFails(r)
  PROVE  SInv'
BY DEF SInv, SnapshotTypeOK, OnePresenter, CopiedFirst, SnapshotsKeepTheirVideo,
       InsertFails, PresenterAt, PresenterGoes

\* No row has the digest of a file that is deleted, and nobody else is about to write
\* one: the request that cleans up is alone.
LEMMA CleaningKeepsVideo ==
  ASSUME SInv, NEW r \in Presenters, CleanUpCopy(r)
  PROVE  SInv'
<1> DEFINE digest == presenter[r].digest
<1>1. presenter[r].at = "cleaning" /\ UNCHANGED <<source, video, snapshots>> /\ PresenterLeaves(r)
  BY DEF CleanUpCopy, PresenterAt
<1>2. /\ copied' \subseteq copied
      /\ \A c \in copied \ copied' : c = CopyOf(digest, "whole") /\ ~Saved(digest)
  BY DEF CleanUpCopy, Referenced
<1>3. \A q \in Presenters : presenter[q].at # "idle" => q = r
  BY <1>1 DEF SInv, OnePresenter
<1>4. \A q \in Presenters : presenter'[q].at = "idle"
  BY <1>1, <1>3, IdleType DEF PresenterLeaves, SInv, SnapshotTypeOK
<1>5. SnapshotTypeOK'
  BY <1>1, <1>2, IdleType DEF SInv, SnapshotTypeOK, PresenterLeaves
<1>6. OnePresenter' /\ CopiedFirst'
  BY <1>1, <1>4 DEF SInv, OnePresenter, CopiedFirst, PresenterLeaves
<1>7. SnapshotsKeepTheirVideo'
  <2>1. ASSUME NEW s \in DOMAIN snapshots, snapshots[s].artifact,
               CopyOf(snapshots[s], "whole") \notin copied'
        PROVE  FALSE
    <3>1. CopyOf(snapshots[s], "whole") = CopyOf(digest, "whole") /\ ~Saved(digest)
      BY <1>2, <2>1 DEF SInv, SnapshotsKeepTheirVideo
    <3>2. snapshots[s] = digest
      BY <3>1 DEF CopyOf
    <3> QED BY <3>1, <3>2 DEF Saved
  <2> QED BY <1>1, <2>1 DEF SInv, SnapshotsKeepTheirVideo
<1> QED BY <1>5, <1>6, <1>7 DEF SInv

LEMMA ServerDeathKeepsVideo ==
  ASSUME SInv, ServerDies
  PROVE  SInv'
BY IdleType
DEF SInv, SnapshotTypeOK, OnePresenter, CopiedFirst, SnapshotsKeepTheirVideo, ServerDies

LEMMA StepKeepsVideo ==
  ASSUME SInv, [SnapshotNext]_snapshotVars
  PROVE  SInv'
<1>1. CASE EditSource \/ VideoChanges \/ UNCHANGED snapshotVars
  BY <1>1
  DEF SInv, SnapshotTypeOK, OnePresenter, CopiedFirst, SnapshotsKeepTheirVideo, EditSource,
      VideoChanges, snapshotVars
<1>2. ASSUME NEW r \in Presenters, CreationFails(r)
      PROVE  SInv'
  BY <1>2, LeavingKeepsVideo DEF CreationFails
<1> QED
  BY <1>1, <1>2, EnterKeepsVideo, CaptureKeepsVideo, CopyKeepsVideo, InsertKeepsVideo,
     FailureKeepsVideo, CleaningKeepsVideo, ServerDeathKeepsVideo
  DEF SnapshotNext

\* One row per payload, and the video of each in the store, whatever fails in
\* PresentationSnapshotService.create.
THEOREM SnapshotsAreWhole == SnapshotSpec => []SnapshotsKeepTheirVideo
<1>1. SnapshotInit => SInv
  BY InitKeepsVideo
<1>2. SInv /\ [SnapshotNext]_snapshotVars => SInv'
  BY StepKeepsVideo
<1>3. SInv => SnapshotsKeepTheirVideo
  BY DEF SInv
<1> QED BY <1>1, <1>2, <1>3, PTL DEF SnapshotSpec
=============================================================================
