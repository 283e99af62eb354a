------------------------ MODULE PresentationSnapshots ------------------------
(***************************************************************************)
(* Immutable snapshots of what a product presents.  A snapshot is its        *)
(* digest, of the rows that were chosen and of the video; the video is       *)
(* copied before the row is written.  The threads of the one server create  *)
(* under a lock of the process.  Rows and video are abstracted to one value *)
(* each; the ids of the chosen rows always form one chain here.             *)
(***************************************************************************)
EXTENDS Naturals, Sequences

CONSTANTS
  Presenters,    \* requests that create a snapshot
  Sources,       \* contents the rows may have
  MaxSnapshots   \* bound: rows

ASSUME SourcesAssumption == Sources # {}

VARIABLES
  source,        \* what the chosen rows say
  video,         \* the bytes of the stable artifact: "whole" or "spoilt"
  snapshots,     \* the rows, by id
  copied,        \* the files in the store: the digest in the name, the bytes
  presenter,     \* what each request does
  creating       \* SNAPSHOT_CREATION_LOCK: the requests inside

snapshotVars == <<source, video, snapshots, copied, presenter, creating>>

Digest == [source : Sources, artifact : BOOLEAN]
FirstSource == CHOOSE s \in Sources : TRUE
IdlePresenter == [at |-> "idle", digest |-> [source |-> FirstSource, artifact |-> FALSE],
                  created |-> FALSE]
CopyOf(digest, bytes) == [digest |-> digest, bytes |-> bytes]

SnapshotInit ==
  /\ source = FirstSource
  /\ video = "whole"
  /\ snapshots = <<>>
  /\ copied = {}
  /\ presenter = [r \in Presenters |-> IdlePresenter]
  /\ creating = {}

PresenterAt(r, at) == presenter[r].at = at
PresenterGoes(r, at) == presenter' = [presenter EXCEPT ![r].at = at]
PresenterLeaves(r) ==
  /\ presenter' = [presenter EXCEPT ![r] = IdlePresenter]
  /\ creating' = creating \ {r}

EditSource ==
  /\ source' \in Sources \ {source}
  /\ UNCHANGED <<video, snapshots, copied, presenter, creating>>

VideoChanges ==
  /\ video' \in {"whole", "spoilt"} \ {video}
  /\ UNCHANGED <<source, snapshots, copied, presenter, creating>>

\* Mutant: requests create side by side.
LockOpen == FALSE
LockTaken == creating # {}

EnterCreation(r) ==
  /\ PresenterAt(r, "idle") /\ ~LockTaken
  /\ creating' = creating \cup {r}
  /\ PresenterGoes(r, "entered")
  /\ UNCHANGED <<source, video, snapshots, copied>>

\* What the chosen rows say now, and the hash of the video if one was chosen.
Payload(artifact) == [source |-> source, artifact |-> artifact]

Saved(digest) == \E s \in DOMAIN snapshots : snapshots[s] = digest

\* The payload and its digest; a video that is not what its row says is refused, and a
\* payload that was captured before has its snapshot.
CaptureSources(r) ==
  /\ PresenterAt(r, "entered")
  /\ \E artifact \in BOOLEAN :
       LET digest == Payload(artifact)
       IN IF (artifact /\ video = "spoilt") \/ Saved(digest)
          THEN PresenterLeaves(r)
          ELSE /\ presenter' = [presenter EXCEPT ![r] =
                    [at |-> IF artifact THEN "copying" ELSE "inserting",
                     digest |-> digest, created |-> FALSE]]
               /\ UNCHANGED creating
  /\ UNCHANGED <<source, video, snapshots, copied>>

\* store_immutable: a file of this name and these bytes is taken as it is.  Bytes that
\* changed since they were captured are stored under their own name, and refused.
CopyArtifact(r) ==
  /\ PresenterAt(r, "copying")
  /\ LET copy == CopyOf(presenter[r].digest, video)
     IN /\ copied' = copied \cup {copy}
        /\ IF video = "whole"
           THEN /\ presenter' = [presenter EXCEPT ![r] =
                     [@ EXCEPT !.at = "inserting", !.created = copy \notin copied]]
                /\ UNCHANGED creating
           ELSE PresenterLeaves(r)
  /\ UNCHANGED <<source, video, snapshots>>

\* The digest is unique: a row that came first is returned.
InsertSnapshot(r) ==
  /\ PresenterAt(r, "inserting")
  /\ Len(snapshots) < MaxSnapshots
  /\ snapshots' = IF Saved(presenter[r].digest) THEN snapshots
                  ELSE Append(snapshots, presenter[r].digest)
  /\ \/ PresenterLeaves(r)
     \/ PresenterGoes(r, "cleaning") /\ UNCHANGED creating   \* the refresh after it fails
  /\ UNCHANGED <<source, video, copied>>

InsertFails(r) ==
  /\ PresenterAt(r, "inserting")
  /\ PresenterGoes(r, "cleaning")
  /\ UNCHANGED <<source, video, snapshots, copied, creating>>

\* Mutant: a failed request deletes the file it made, whoever uses it.
ReferencedNever(digest) == FALSE
Referenced(digest) == Saved(digest)

CleanUpCopy(r) ==
  /\ PresenterAt(r, "cleaning")
  /\ copied' = IF presenter[r].created /\ ~Referenced(presenter[r].digest)
               THEN copied \ {CopyOf(presenter[r].digest, "whole")}
               ELSE copied
  /\ PresenterLeaves(r)
  /\ UNCHANGED <<source, video, snapshots>>

\* An error anywhere leaves the lock; the death of the server ends every request.
CreationFails(r) ==
  /\ presenter[r].at \in {"entered", "copying", "cleaning"}
  /\ PresenterLeaves(r)
  /\ UNCHANGED <<source, video, snapshots, copied>>

ServerDies ==
  /\ \E r \in Presenters : ~PresenterAt(r, "idle")
  /\ presenter' = [r \in Presenters |-> IdlePresenter]
  /\ creating' = {}
  /\ UNCHANGED <<source, video, snapshots, copied>>

SnapshotNext ==
  \/ EditSource \/ VideoChanges \/ ServerDies
  \/ \E r \in Presenters :
       \/ EnterCreation(r) \/ CaptureSources(r) \/ CopyArtifact(r) \/ InsertSnapshot(r)
       \/ InsertFails(r) \/ CleanUpCopy(r) \/ CreationFails(r)

SnapshotSpec == SnapshotInit /\ [][SnapshotNext]_snapshotVars

-----------------------------------------------------------------------------
(* Properties *)

SnapshotTypeOK ==
  /\ source \in Sources /\ video \in {"whole", "spoilt"}
  /\ snapshots \in Seq(Digest)
  /\ copied \subseteq [digest : Digest, bytes : {"whole", "spoilt"}]
  /\ presenter \in [Presenters -> [digest : Digest, created : BOOLEAN,
       at : {"idle", "entered", "copying", "inserting", "cleaning"}]]
  /\ creating \subseteq Presenters

\* "Immutable, self-contained evidence": one snapshot of a payload, and its video is in
\* the store as it was captured, whatever failed before, while or after it was saved.
SnapshotsKeepTheirVideo ==
  /\ \A s, t \in DOMAIN snapshots : snapshots[s] = snapshots[t] => s = t
  /\ \A s \in DOMAIN snapshots :
       snapshots[s].artifact => CopyOf(snapshots[s], "whole") \in copied
=============================================================================
