---------------------------- MODULE MCApplication ----------------------------
(***************************************************************************)
(* Bounded instances of the components that make a video's content (texts   *)
(* and scripts, batches of variants, brand kits, compositions), of the      *)
(* accounts it is published with, of the snapshots that present it and of   *)
(* the migration of the file that holds it.  What they share is written     *)
(* before any of them starts and never changed by another, so a behaviour   *)
(* takes the steps of one of them (focus) and its properties say nothing of *)
(* the others.                                                              *)
(***************************************************************************)
EXTENDS ContentChain, VideoScripts, BatchVideo, BrandKits, Compositions,
        SocialAccounts, PresentationSnapshots, DatabaseMigration, TLC

VARIABLE focus

contentVars == <<chainVars, scriptVars, batchVars, kitVars, compositionVars>>
vars == <<contentVars, accountVars, snapshotVars, migrationVars, focus>>

Init ==
  /\ focus \in {"requests", "jobs", "scripts", "batch", "kits", "compositions",
                "accounts", "snapshots", "migration"}
  /\ ChainInit /\ ScriptInit /\ BatchInit /\ KitInit /\ CompositionInit
  /\ AccountInit /\ SnapshotInit /\ MigrationInit
  \* The components without the focus start in one of their initial states.
  /\ focus \in {"requests", "jobs"} \/ (product = FirstDraft /\ strategies = <<>>)
  /\ focus = "scripts" \/ quota = 0
  /\ focus = "accounts" \/ network = "youtube"
  /\ focus = "migration" \/ db = NoFile

\* Steps of the first five components leave the last three alone.
ContentOnly == UNCHANGED <<accountVars, snapshotVars, migrationVars, focus>>

Next ==
  \/ /\ \/ focus = "requests" /\ RequestNext
        \/ focus = "jobs" /\ QueueNext
     /\ UNCHANGED <<scriptVars, batchVars, kitVars, compositionVars>> /\ ContentOnly
  \/ /\ focus = "scripts" /\ ScriptNext
     /\ UNCHANGED <<chainVars, batchVars, kitVars, compositionVars>> /\ ContentOnly
  \/ /\ focus = "batch" /\ BatchNext
     /\ UNCHANGED <<chainVars, scriptVars, kitVars, compositionVars>> /\ ContentOnly
  \/ /\ focus = "kits" /\ KitNext
     /\ UNCHANGED <<chainVars, scriptVars, batchVars, compositionVars>> /\ ContentOnly
  \/ /\ focus = "compositions" /\ CompositionNext
     /\ UNCHANGED <<chainVars, scriptVars, batchVars, kitVars>> /\ ContentOnly
  \/ /\ focus = "accounts" /\ AccountNext
     /\ UNCHANGED <<contentVars, snapshotVars, migrationVars, focus>>
  \/ /\ focus = "snapshots" /\ SnapshotNext
     /\ UNCHANGED <<contentVars, accountVars, migrationVars, focus>>
  \/ /\ focus = "migration" /\ MigrationNext
     /\ UNCHANGED <<contentVars, accountVars, snapshotVars, focus>>

Spec == Init /\ [][Next]_vars

\* The rows keep the types of their columns, and a request, run or handler is always
\* at one of its steps, in every component.
ApplicationTypeOK ==
  /\ ChainTypeOK /\ ScriptTypeOK /\ BatchTypeOK /\ KitTypeOK /\ CompositionTypeOK
  /\ AccountTypeOK /\ SnapshotTypeOK /\ MigrationTypeOK

\* What the application says of its work is true: a job that succeeded has its result,
\* one that failed or waits has not paid for one, a batch that is shown ready is, and an
\* editor that is told to give up was overtaken.
ReportsAreTrue ==
  /\ TextReportsAreTrue /\ ScriptReportsAreTrue /\ LocalReportsAreTrue
  /\ ShownReadyIsReady /\ ContestedGivesUp

\* The two actors that play every part of a request, runner or controller are alike.
Symmetry == Permutations(Clients)
=============================================================================
