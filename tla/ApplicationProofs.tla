---------------------------- MODULE ApplicationProofs ----------------------------
(***************************************************************************)
(* Proofs about the components that make a video's content: the texts, the  *)
(* scripts, the batches, the brand kits and the compositions, for any       *)
(* number of requests, runs, rows, retries and controls; and the two        *)
(* invariants MCApplication states of all its components at once.           *)
(*                                                                          *)
(* Texts: a run that told the queue is the last of its job (RunFits), so    *)
(* that a run that owns its job, and saw no first project of its chain,     *)
(* stays the only one that may still write one without doubt (Sole).        *)
(* Scripts: a batch counts its jobs (CallsCounted), a counter numbers the   *)
(* versions (Numbered), and a job says how far its run came (JobIsTrue).    *)
(* Batches: the CHECK constraints hold and a control loads no ended job.    *)
(* Kits: an editor was overtaken once for each retry it made (IsTrueOf).    *)
(* Compositions: an attempt with its lease names what is stored, and the    *)
(* enhancement stores in order, after its announcement.                     *)
(***************************************************************************)
EXTENDS MCApplication, SocialAccountsProofs, PresentationSnapshotsProofs,
        DatabaseMigrationProofs, FiniteSetTheorems

(***************************************************************************)
(* Strategy, copy and video project generation                             *)
(***************************************************************************)

Told == {"announced", "answered", "stored"}
Late == {"ready", "announced", "answered"}
Live == {"claimed", "checked"} \cup Late

\* Nothing goes beyond the tables, and only a job writes a first project.
TextsFit ==
  /\ Len(strategies) <= MaxTexts /\ Len(copies) <= MaxTexts /\ Len(projects) <= MaxTexts
  /\ Len(textJobs) <= MaxTextJobs
  /\ \A s \in DOMAIN strategies : strategies[s].exact
  /\ \A c \in DOMAIN copies : copies[c].kind = "copy" => copies[c].exact

ClientFits(record) ==
  /\ record.choice.kind # "initial"
  /\ record.at = "called" /\ record.choice.kind \in {"strategy", "copy"} => record.exact
  /\ record.at = "studio" => record.choice.kind = "studio"
  /\ record.at = "checked" => record.choice.kind \in {"v2 copy", "v2 project"}
  /\ record.at = "called" => record.choice.kind # "none"

JobFits(job) ==
  /\ job.choice.kind \in {"strategy", "copy", "initial"}
  /\ job.external => job.status \notin {"QUEUED", "FAILED"}
  /\ job.paid => job.external
  /\ job.status = "SUCCEEDED" => job.result
  /\ job.status = "QUEUED" => job.attempts < 2

\* A run that told the queue is the job's last one; one that did not is of a job that
\* called no one, or is an earlier run.
RunFits(turn, job) ==
  /\ turn.attempt <= job.attempts
  /\ turn.at \in Told => /\ job.external /\ turn.attempt = job.attempts
                         /\ job.status \in {"RUNNING", "SUBMIT_UNKNOWN"}
  /\ turn.at \in {"claimed", "checked", "ready"} /\ turn.attempt = job.attempts
     => ~job.external
  /\ turn.at = "checked" => job.choice.kind = "initial"
  /\ turn.at \in Late /\ job.choice.kind # "initial" => turn.exact
  /\ turn.at = "stored" => job.result

RunsFit ==
  \A w \in Runners : runner[w].at # "idle" =>
    runner[w].job \in DOMAIN textJobs /\ RunFits(runner[w], JobOf(w))

RunsDiffer ==
  \A v, w \in Runners :
    v # w /\ runner[v].at # "idle" /\ runner[w].at # "idle" /\ runner[v].job = runner[w].job
    => runner[v].attempt # runner[w].attempt

OneRunning ==
  \A j, k \in DOMAIN textJobs :
    ( /\ textJobs[j].status = "RUNNING" /\ textJobs[k].status = "RUNNING"
      /\ textJobs[j].choice.kind = textJobs[k].choice.kind ) => j = k

Initial == {p \in DOMAIN projects : projects[p].kind = "initial"}
OfChain(p, choice) ==
  projects[p].strategy = choice.strategy /\ projects[p].copy = choice.copy

\* The job of a first project has told the queue, and no run of it may write another.
InitialFits(p) ==
  /\ projects[p].job \in DOMAIN textJobs
  /\ LET job == textJobs[projects[p].job]
     IN /\ job.external /\ job.choice.kind = "initial"
        /\ \A w \in Runners : runner[w].job = projects[p].job /\ runner[w].at \in Live
                              => runner[w].attempt # job.attempts

InDoubt(p) == textJobs[projects[p].job].status = "SUBMIT_UNKNOWN"

\* A run that owns its job and found no project is the only one that may still write
\* one without doubt.
Sole(w, p) ==
  ( /\ runner[w].at \in Late /\ OwnsText(w) /\ JobOf(w).choice.kind = "initial"
    /\ OfChain(p, JobOf(w).choice) ) => InDoubt(p)

Once(p, q) == p < q /\ OfChain(p, projects[q]) => InDoubt(p) \/ InDoubt(q)

ProjectsFit ==
  /\ \A p \in Initial : InitialFits(p)
  /\ \A w \in Runners, p \in Initial : Sole(w, p)
  /\ \A p, q \in Initial : Once(p, q)

ChainInv ==
  /\ ChainTypeOK /\ TextsFit
  /\ \A c \in Clients : ClientFits(client[c])
  /\ \A j \in DOMAIN textJobs : JobFits(textJobs[j])
  /\ RunsFit /\ RunsDiffer /\ OneRunning
  /\ ProjectsFit

-----------------------------------------------------------------------------
(* Sequences *)

LEMMA ChangedSeq ==
  ASSUME NEW S, NEW s \in Seq(S), NEW j \in DOMAIN s, NEW row \in S,
         NEW t, t = [s EXCEPT ![j] = row]
  PROVE  /\ t \in Seq(S) /\ Len(t) = Len(s) /\ DOMAIN t = DOMAIN s
         /\ \A i \in DOMAIN s : t[i] = IF i = j THEN row ELSE s[i]
  OBVIOUS

LEMMA LongerSeq ==
  ASSUME NEW S, NEW s \in Seq(S), NEW row \in S, NEW t, t = Append(s, row)
  PROVE  /\ t \in Seq(S) /\ Len(t) = Len(s) + 1
         /\ DOMAIN t = DOMAIN s \cup {Len(s) + 1} /\ Len(s) + 1 \notin DOMAIN s
         /\ t[Len(s) + 1] = row /\ \A i \in DOMAIN s : t[i] = s[i]
  OBVIOUS

-----------------------------------------------------------------------------
(* Steps of a run and of its job *)

\* What every step but a claim does to a job.
JobFollows(old, new) ==
  /\ new \in TextJob /\ JobFits(new)
  /\ new.choice = old.choice /\ new.attempts = old.attempts
  /\ old.external => new.external
  /\ old.status = "SUBMIT_UNKNOWN" => new.status = "SUBMIT_UNKNOWN"
  /\ new.status = "RUNNING" => old.status = "RUNNING"

NoProject(choice) == \A p \in Initial : ~OfChain(p, choice)

\* And to a run that goes on.
RunFollows(old, new, job) ==
  /\ old.at # "idle" /\ new.job = old.job /\ new.attempt = old.attempt
  /\ new.at \in Live => old.at \in Live
  /\ new.at \in Late =>
       old.at \in Late \/ job.choice.kind # "initial" \/ NoProject(job.choice)

LEMMA SameJobFollows ==
  ASSUME ChainInv, NEW j \in DOMAIN textJobs
  PROVE  JobFollows(textJobs[j], textJobs[j])
  BY DEF ChainInv, ChainTypeOK, JobFollows

\* Jobs and runs that go on.
JobsGoOn ==
  /\ textJobs' \in Seq(TextJob) /\ Len(textJobs') = Len(textJobs)
  /\ \A j \in DOMAIN textJobs : JobFollows(textJobs[j], textJobs'[j])
  /\ runner' \in [Runners -> TextRunner]
  /\ \A w \in Runners : runner'[w].at # "idle" =>
       /\ RunFollows(runner[w], runner'[w], JobOf(w))
       /\ RunFits(runner'[w], textJobs'[runner[w].job])

LEMMA RunsStep ==
  ASSUME ChainInv, JobsGoOn
  PROVE  /\ DOMAIN textJobs' = DOMAIN textJobs
         /\ \A j \in DOMAIN textJobs' : JobFits(textJobs'[j])
         /\ \A w \in Runners : runner'[w].at # "idle" =>
              /\ runner[w].at # "idle" /\ runner'[w].job = runner[w].job
              /\ runner'[w].attempt = runner[w].attempt
              /\ runner[w].job \in DOMAIN textJobs
         /\ RunsFit' /\ RunsDiffer' /\ OneRunning'
<1>1. DOMAIN textJobs' = DOMAIN textJobs
  BY DEF ChainInv, ChainTypeOK, JobsGoOn
<1>2. \A j \in DOMAIN textJobs' : JobFits(textJobs'[j])
  BY <1>1 DEF JobsGoOn, JobFollows
<1>3. \A w \in Runners : runner'[w].at # "idle" =>
        /\ runner[w].at # "idle" /\ runner'[w].job = runner[w].job
        /\ runner'[w].attempt = runner[w].attempt
        /\ runner[w].job \in DOMAIN textJobs
  BY DEF ChainInv, JobsGoOn, RunsFit, RunFollows
<1>4. RunsFit'
  BY <1>1, <1>3 DEF JobsGoOn, RunsFit, JobOf
<1>5. RunsDiffer'
  BY <1>3 DEF ChainInv, RunsDiffer
<1>6. OneRunning'
  BY <1>1 DEF ChainInv, JobsGoOn, OneRunning, JobFollows
<1> QED
  BY <1>1, <1>2, <1>3, <1>4, <1>5, <1>6

\* What was written stays written.
LEMMA OldProjects ==
  ASSUME ChainInv, JobsGoOn, \A p \in Initial : projects'[p] = projects[p]
  PROVE  /\ \A p \in Initial : InitialFits(p)'
         /\ \A w \in Runners, p \in Initial : Sole(w, p)'
         /\ \A p, q \in Initial : Once(p, q)'
<1>1. ASSUME NEW p \in Initial
      PROVE  InitialFits(p)' /\ (InDoubt(p) => InDoubt(p)')
  <2>1. InitialFits(p) /\ projects'[p] = projects[p]
    BY DEF ChainInv, ProjectsFit
  <2>2. projects[p].job \in DOMAIN textJobs /\ DOMAIN textJobs' = DOMAIN textJobs
    BY <2>1, RunsStep DEF InitialFits
  <2>3. JobFollows(textJobs[projects[p].job], textJobs'[projects[p].job])
    BY <2>2 DEF JobsGoOn
  <2>4. \A w \in Runners : runner'[w].at \in Live =>
          /\ runner[w].at \in Live /\ runner'[w].job = runner[w].job
          /\ runner'[w].attempt = runner[w].attempt
    <3>1. \A w \in Runners : runner'[w].at \in Live => runner'[w].at # "idle"
      BY DEF Live, Late
    <3> QED
      BY <3>1 DEF JobsGoOn, RunFollows
  <2> QED
    BY <2>1, <2>2, <2>3, <2>4 DEF InitialFits, InDoubt, JobFollows
<1>2. ASSUME NEW w \in Runners, NEW p \in Initial,
             runner'[w].at \in Late, OwnsText(w)', (JobOf(w).choice.kind = "initial")',
             OfChain(p, JobOf(w).choice)'
      PROVE  InDoubt(p)'
  <2>1. runner'[w].at # "idle"
    BY <1>2 DEF Late
  <2>2. /\ RunFollows(runner[w], runner'[w], JobOf(w)) /\ runner[w].job \in DOMAIN textJobs
        /\ runner'[w].job = runner[w].job /\ runner'[w].attempt = runner[w].attempt
    BY <2>1, RunsStep DEF JobsGoOn
  <2>3. JobFollows(JobOf(w), textJobs'[runner[w].job])
    BY <2>2 DEF JobOf, JobsGoOn
  <2>4. OwnsText(w) /\ JobOf(w).choice.kind = "initial" /\ OfChain(p, JobOf(w).choice)
    BY <1>2, <2>2, <2>3 DEF OwnsText, JobOf, JobFollows, OfChain
  <2>5. runner[w].at \in Late
    BY <1>2, <2>2, <2>4 DEF RunFollows, NoProject
  <2> QED
    BY <1>1, <2>4, <2>5 DEF ChainInv, ProjectsFit, Sole
<1>3. \A w \in Runners, p \in Initial : Sole(w, p)'
  BY <1>2 DEF Sole
<1>4. \A p, q \in Initial : Once(p, q)'
  BY <1>1 DEF ChainInv, ProjectsFit, Once, OfChain
<1> QED
  BY <1>1, <1>3, <1>4

\* Rows that are not a first project may be added.
LEMMA QueueStep ==
  ASSUME ChainInv, JobsGoOn, ChainTypeOK', TextsFit',
         \A c \in Clients : ClientFits(client[c])',
         Initial' = Initial, \A p \in Initial : projects'[p] = projects[p]
  PROVE  ChainInv'
<1>1. ProjectsFit'
  BY OldProjects DEF ProjectsFit
<1> QED
  BY <1>1, RunsStep DEF ChainInv

LEMMA SameRows ==
  ASSUME ChainInv, JobsGoOn, UNCHANGED <<tables, client>>,
         product' \in Drafts, figures' \in 0..1
  PROVE  ChainInv'
<1>1. UNCHANGED <<strategies, copies, projects>>
  BY DEF tables
<1>2. ChainTypeOK'
  BY <1>1 DEF ChainInv, ChainTypeOK, JobsGoOn
<1>3. TextsFit' /\ \A c \in Clients : ClientFits(client[c])'
  BY <1>1 DEF ChainInv, TextsFit, JobsGoOn
<1>4. Initial' = Initial
  BY <1>1 DEF Initial
<1> QED
  BY <1>1, <1>2, <1>3, <1>4, QueueStep

\* A run that moves while no job changes.
LEMMA RunMoves ==
  ASSUME ChainInv, UNCHANGED <<productSide, tables, textJobs, client>>,
         NEW w \in Runners, NEW turn \in TextRunner, runner' = [runner EXCEPT ![w] = turn],
         turn.at # "idle" => /\ RunFollows(runner[w], turn, JobOf(w))
                            /\ RunFits(turn, JobOf(w))
  PROVE  ChainInv'
<1>1. \A v \in Runners : runner'[v] = IF v = w THEN turn ELSE runner[v]
  BY DEF ChainInv, ChainTypeOK
<1>2. runner' \in [Runners -> TextRunner]
  BY DEF ChainInv, ChainTypeOK
<1>3. product' \in Drafts /\ figures' \in 0..1 /\ textJobs' \in Seq(TextJob)
  BY DEF ChainInv, ChainTypeOK, productSide
<1>4. \A v \in Runners : runner[v].at # "idle" => RunFollows(runner[v], runner[v], JobOf(v))
  BY DEF RunFollows
<1>5. \A v \in Runners : runner'[v].at # "idle" =>
        /\ RunFollows(runner[v], runner'[v], JobOf(v))
        /\ RunFits(runner'[v], textJobs'[runner[v].job])
  BY <1>1, <1>4 DEF ChainInv, RunsFit, JobOf
<1> QED
  BY <1>2, <1>3, <1>5, SameJobFollows, SameRows DEF JobsGoOn

\* The other runs of a job are of earlier attempts when one is of the last.
LEMMA OthersFit ==
  ASSUME ChainInv, NEW w \in Runners, runner[w].at # "idle",
         runner[w].attempt = JobOf(w).attempts,
         NEW v \in Runners, v # w, runner[v].at # "idle", runner[v].job = runner[w].job,
         NEW row \in TextJob, row.attempts = JobOf(w).attempts, row.choice = JobOf(w).choice
  PROVE  RunFits(runner[v], row)
<1>1. runner[v].attempt # row.attempts
  BY DEF ChainInv, RunsDiffer
<1>2. RunFits(runner[v], JobOf(w))
  BY DEF ChainInv, RunsFit, JobOf
<1>3. runner[v].at \notin Told /\ runner[v].at # "stored"
  BY <1>1, <1>2 DEF RunFits, Told
<1> QED
  BY <1>1, <1>2, <1>3 DEF RunFits

\* The last run of a job moves and changes it.
OwnerGoesOn(w, turn, row) ==
  /\ runner[w].at # "idle" /\ runner[w].attempt = JobOf(w).attempts
  /\ turn \in TextRunner /\ runner' = [runner EXCEPT ![w] = turn]
  /\ JobFollows(JobOf(w), row) /\ textJobs' = [textJobs EXCEPT ![runner[w].job] = row]
  /\ turn.at # "idle" => RunFollows(runner[w], turn, JobOf(w)) /\ RunFits(turn, row)

LEMMA OwnerFollows ==
  ASSUME ChainInv, NEW w \in Runners, NEW turn, NEW row, OwnerGoesOn(w, turn, row)
  PROVE  /\ JobsGoOn
         /\ \A v \in Runners : runner'[v] = IF v = w THEN turn ELSE runner[v]
         /\ \A i \in DOMAIN textJobs :
              textJobs'[i] = IF i = runner[w].job THEN row ELSE textJobs[i]
<1> DEFINE j == runner[w].job
<1>1. \A v \in Runners : runner'[v] = IF v = w THEN turn ELSE runner[v]
  BY DEF ChainInv, ChainTypeOK, OwnerGoesOn
<1>2. runner' \in [Runners -> TextRunner]
  BY DEF ChainInv, ChainTypeOK, OwnerGoesOn
<1>3. row \in TextJob /\ j \in DOMAIN textJobs /\ textJobs \in Seq(TextJob)
  BY DEF ChainInv, ChainTypeOK, RunsFit, JobFollows, OwnerGoesOn
<1>4. /\ textJobs' \in Seq(TextJob) /\ Len(textJobs') = Len(textJobs)
      /\ \A i \in DOMAIN textJobs : textJobs'[i] = IF i = j THEN row ELSE textJobs[i]
  BY <1>3, ChangedSeq DEF OwnerGoesOn
<1>5. \A i \in DOMAIN textJobs : JobFollows(textJobs[i], textJobs'[i])
  BY <1>4, SameJobFollows DEF JobOf, OwnerGoesOn
<1>6. \A v \in Runners : runner[v].at # "idle" => RunFollows(runner[v], runner[v], JobOf(v))
  BY DEF RunFollows
<1>7. ASSUME NEW v \in Runners, runner'[v].at # "idle"
      PROVE  /\ RunFollows(runner[v], runner'[v], JobOf(v))
             /\ RunFits(runner'[v], textJobs'[runner[v].job])
  <2>1. CASE v = w
    BY <1>1, <1>3, <1>4, <1>7, <2>1 DEF OwnerGoesOn
  <2>2. CASE v # w /\ runner[v].job = j
    BY <1>1, <1>3, <1>4, <1>6, <1>7, <2>2, OthersFit DEF JobFollows, OwnerGoesOn
  <2>3. CASE v # w /\ runner[v].job # j
    BY <1>1, <1>4, <1>6, <1>7, <2>3 DEF ChainInv, RunsFit, JobOf
  <2> QED
    BY <2>1, <2>2, <2>3
<1> QED
  BY <1>1, <1>2, <1>4, <1>5, <1>7 DEF JobsGoOn

LEMMA OwnerMoves ==
  ASSUME ChainInv, UNCHANGED <<productSide, tables, client>>,
         NEW w \in Runners, NEW turn, NEW row, OwnerGoesOn(w, turn, row)
  PROVE  ChainInv'
<1>1. product' \in Drafts /\ figures' \in 0..1
  BY DEF ChainInv, ChainTypeOK, productSide
<1> QED
  BY <1>1, OwnerFollows, SameRows

\* What a run of the last attempt, and its job, satisfy.
LEMMA RunIsTrue ==
  ASSUME ChainInv, NEW w \in Runners, runner[w].at # "idle"
  PROVE  /\ runner[w] \in TextRunner /\ JobOf(w) \in TextJob
         /\ runner[w].job \in DOMAIN textJobs
         /\ RunFits(runner[w], JobOf(w)) /\ JobFits(JobOf(w))
  BY DEF ChainInv, ChainTypeOK, RunsFit, JobOf

LEMMA IdleIsARun == IdleRunner \in TextRunner /\ IdleRunner.at = "idle"
<1>1. 0 \in 0..MaxTextJobs
  BY ChainAssumption
<1> QED
  BY <1>1 DEF IdleRunner, TextRunner

\* A run that gives its job up, or dies.
LEMMA RunStops ==
  ASSUME ChainInv, UNCHANGED <<productSide, tables, textJobs, client>>,
         NEW w \in Runners, RunnerGoes(w, IdleRunner)
  PROVE  ChainInv'
  BY IdleIsARun, RunMoves DEF RunnerGoes

\* A report goes to the job of a run that still owns it.
LEMMA ReportStep ==
  ASSUME ChainInv, UNCHANGED <<productSide, tables, client>>,
         NEW w \in Runners, runner[w].at # "idle", NEW status, ReportText(w, status),
         \/ status = "FAILED" /\ (OwnsText(w) => ~JobOf(w).external)
         \/ status = "SUBMIT_UNKNOWN"
         \/ status = "SUCCEEDED" /\ runner[w].at = "stored"
  PROVE  ChainInv'
<1> DEFINE row == [JobOf(w) EXCEPT !.status = status]
<1>1. JobOf(w) \in TextJob /\ JobFits(JobOf(w)) /\ RunFits(runner[w], JobOf(w))
  BY RunIsTrue
<1>2. RunnerGoes(w, IdleRunner)
  BY DEF ReportText
<1>3. CASE OwnsText(w)
  <2>1. textJobs' = [textJobs EXCEPT ![runner[w].job] = row]
    BY <1>3 DEF ReportText, JobOf
  <2>2. /\ row \in TextJob /\ row.status = status /\ row.choice = JobOf(w).choice
        /\ row.attempts = JobOf(w).attempts /\ (row.external <=> JobOf(w).external)
        /\ (row.paid <=> JobOf(w).paid) /\ (row.result <=> JobOf(w).result)
    BY <1>1 DEF TextJob
  <2> HIDE DEF row
  <2>3. JobOf(w).status = "RUNNING" /\ runner[w].attempt = JobOf(w).attempts
    BY <1>3 DEF OwnsText
  <2>4. JobFits(row)
    BY <1>1, <1>3, <2>2, <2>3 DEF JobFits, RunFits
  <2>5. JobFollows(JobOf(w), row)
    BY <2>2, <2>3, <2>4 DEF JobFollows
  <2> QED
    BY <1>2, <2>1, <2>3, <2>5, IdleIsARun, OwnerMoves DEF OwnerGoesOn, RunnerGoes
<1>4. CASE ~OwnsText(w)
  <2>1. UNCHANGED textJobs
    BY <1>4 DEF ReportText
  <2> QED
    BY <1>2, <2>1, RunStops
<1> QED
  BY <1>3, <1>4

LEMMA CheckTextStep ==
  ASSUME ChainInv, NEW w \in Runners, CheckText(w)
  PROVE  ChainInv'
<1>1. runner[w].at = "claimed" /\ UNCHANGED <<productSide, tables, client>>
  BY DEF CheckText, RunnerAt
<1>2. /\ runner[w] \in TextRunner /\ JobOf(w) \in TextJob
      /\ RunFits(runner[w], JobOf(w)) /\ JobFits(JobOf(w))
  BY <1>1, RunIsTrue
<1>3. CASE JobOf(w).draft # product
  <2>1. ReportText(w, "FAILED")
    BY <1>3 DEF CheckText
  <2>2. OwnsText(w) => ~JobOf(w).external
    BY <1>1, <1>2 DEF OwnsText, RunFits
  <2> QED
    BY <1>1, <2>1, <2>2, ReportStep
<1>4. CASE JobOf(w).draft = product
  <2> DEFINE keeps == KeepsSources(JobOf(w).choice)
             turn == [runner[w] EXCEPT !.exact = TRUE,
                       !.at = IF keeps THEN "ready" ELSE "checked"]
  <2>1. runner' = [runner EXCEPT ![w] = turn] /\ UNCHANGED textJobs
    BY <1>4 DEF CheckText, RunnerGoes
  <2>2. /\ turn \in TextRunner /\ turn.exact = TRUE /\ turn.job = runner[w].job
        /\ turn.attempt = runner[w].attempt /\ turn.at \in {"ready", "checked"}
        /\ turn.at = "checked" => JobOf(w).choice.kind = "initial"
        /\ turn.at = "ready" => JobOf(w).choice.kind # "initial"
    BY <1>2 DEF TextRunner, KeepsSources
  <2> HIDE DEF turn
  <2>3. RunFits(turn, JobOf(w))
    BY <1>1, <1>2, <2>2 DEF RunFits, Told, Late
  <2>4. RunFollows(runner[w], turn, JobOf(w))
    BY <1>1, <2>2 DEF RunFollows, Live, Late
  <2> QED
    BY <1>1, <2>1, <2>2, <2>3, <2>4, RunMoves
<1> QED
  BY <1>3, <1>4

LEMMA FindStep ==
  ASSUME ChainInv, NEW w \in Runners, FindInitialProject(w)
  PROVE  ChainInv'
<1>1. runner[w].at = "checked" /\ UNCHANGED <<productSide, tables, client>>
  BY DEF FindInitialProject, RunnerAt
<1>2. /\ runner[w] \in TextRunner /\ JobOf(w) \in TextJob
      /\ RunFits(runner[w], JobOf(w)) /\ JobFits(JobOf(w))
  BY <1>1, RunIsTrue
<1>3. CASE InitialProjects(JobOf(w).choice) # {} /\ OwnsText(w)
  <2> DEFINE row == [JobOf(w) EXCEPT !.status = "SUCCEEDED", !.result = TRUE]
  <2>1. textJobs' = [textJobs EXCEPT ![runner[w].job] = row] /\ RunnerGoes(w, IdleRunner)
    BY <1>3 DEF FindInitialProject, JobOf
  <2>2. /\ row \in TextJob /\ row.status = "SUCCEEDED" /\ row.choice = JobOf(w).choice
        /\ row.attempts = JobOf(w).attempts /\ (row.external <=> JobOf(w).external)
        /\ (row.paid <=> JobOf(w).paid) /\ row.result
    BY <1>2 DEF TextJob
  <2> HIDE DEF row
  <2>3. JobOf(w).status = "RUNNING" /\ runner[w].attempt = JobOf(w).attempts
    BY <1>3 DEF OwnsText
  <2>4. JobFollows(JobOf(w), row)
    BY <1>2, <2>2, <2>3 DEF JobFollows, JobFits
  <2> QED
    BY <1>1, <2>1, <2>3, <2>4, IdleIsARun, OwnerMoves DEF OwnerGoesOn, RunnerGoes
<1>4. CASE InitialProjects(JobOf(w).choice) # {} /\ ~OwnsText(w)
  <2>1. UNCHANGED textJobs /\ RunnerGoes(w, IdleRunner)
    BY <1>4 DEF FindInitialProject
  <2> QED
    BY <1>1, <2>1, RunStops
<1>5. CASE InitialProjects(JobOf(w).choice) = {}
  <2> DEFINE turn == [runner[w] EXCEPT !.at = "ready", !.exact = (product = JobOf(w).draft)]
  <2>1. runner' = [runner EXCEPT ![w] = turn] /\ UNCHANGED textJobs
    BY <1>5 DEF FindInitialProject, RunnerGoes
  <2>2. /\ turn \in TextRunner /\ turn.job = runner[w].job
        /\ turn.attempt = runner[w].attempt /\ turn.at = "ready"
    BY <1>2 DEF TextRunner
  <2> HIDE DEF turn
  <2>3. RunFits(turn, JobOf(w))
    BY <1>1, <1>2, <2>2 DEF RunFits, Told, Late
  <2>4. NoProject(JobOf(w).choice)
    BY <1>5 DEF NoProject, InitialProjects, Initial, OfChain
  <2>5. RunFollows(runner[w], turn, JobOf(w))
    BY <1>1, <2>2, <2>4 DEF RunFollows, Live, Late
  <2> QED
    BY <1>1, <2>1, <2>2, <2>3, <2>5, RunMoves
<1> QED
  BY <1>3, <1>4, <1>5

LEMMA AnnounceStep ==
  ASSUME ChainInv, NEW w \in Runners, AnnounceText(w)
  PROVE  ChainInv'
<1>1. runner[w].at = "ready" /\ UNCHANGED <<productSide, tables, client>>
  BY DEF AnnounceText, RunnerAt
<1>2. /\ runner[w] \in TextRunner /\ JobOf(w) \in TextJob
      /\ RunFits(runner[w], JobOf(w)) /\ JobFits(JobOf(w))
  BY <1>1, RunIsTrue
<1>3. CASE OwnsText(w)
  <2> DEFINE row == [JobOf(w) EXCEPT !.external = TRUE]
             turn == [runner[w] EXCEPT !.at = "announced"]
  <2>1. /\ textJobs' = [textJobs EXCEPT ![runner[w].job] = row]
        /\ runner' = [runner EXCEPT ![w] = turn]
    BY <1>3 DEF AnnounceText, Announced, RunnerGoes, JobOf
  <2>2. /\ row \in TextJob /\ row.status = JobOf(w).status /\ row.choice = JobOf(w).choice
        /\ row.attempts = JobOf(w).attempts /\ row.external
        /\ (row.paid <=> JobOf(w).paid) /\ (row.result <=> JobOf(w).result)
    BY <1>2 DEF TextJob
  <2>3. /\ turn \in TextRunner /\ turn.job = runner[w].job /\ turn.at = "announced"
        /\ turn.attempt = runner[w].attempt /\ (turn.exact <=> runner[w].exact)
    BY <1>2 DEF TextRunner
  <2> HIDE DEF row, turn
  <2>4. JobOf(w).status = "RUNNING" /\ runner[w].attempt = JobOf(w).attempts
    BY <1>3 DEF OwnsText
  <2>5. JobFollows(JobOf(w), row)
    BY <1>2, <2>2, <2>4 DEF JobFollows, JobFits
  <2>6. RunFollows(runner[w], turn, JobOf(w))
    BY <1>1, <2>3 DEF RunFollows, Live, Late
  <2>7. RunFits(turn, row)
    BY <1>1, <1>2, <2>2, <2>3, <2>4 DEF RunFits, Told, Late
  <2> QED
    BY <1>1, <2>1, <2>3, <2>4, <2>5, <2>6, <2>7, OwnerMoves DEF OwnerGoesOn
<1>4. CASE ~OwnsText(w)
  <2>1. UNCHANGED textJobs /\ RunnerGoes(w, IdleRunner)
    BY <1>4 DEF AnnounceText
  <2> QED
    BY <1>1, <2>1, RunStops
<1> QED
  BY <1>3, <1>4

LEMMA CallStep ==
  ASSUME ChainInv, NEW w \in Runners, CallQwen(w)
  PROVE  ChainInv'
<1>1. runner[w].at = "announced" /\ UNCHANGED <<productSide, tables, client>>
  BY DEF CallQwen, RunnerAt
<1>2. /\ runner[w] \in TextRunner /\ JobOf(w) \in TextJob
      /\ RunFits(runner[w], JobOf(w)) /\ JobFits(JobOf(w))
  BY <1>1, RunIsTrue
<1> DEFINE row == [JobOf(w) EXCEPT !.paid = TRUE]
           turn == [runner[w] EXCEPT !.at = "answered"]
<1>3. /\ textJobs' = [textJobs EXCEPT ![runner[w].job] = row]
      /\ runner' = [runner EXCEPT ![w] = turn]
  BY DEF CallQwen, RunnerGoes, JobOf
<1>4. /\ row \in TextJob /\ row.status = JobOf(w).status /\ row.choice = JobOf(w).choice
      /\ row.attempts = JobOf(w).attempts /\ (row.external <=> JobOf(w).external)
      /\ row.paid /\ (row.result <=> JobOf(w).result)
  BY <1>2 DEF TextJob
<1>5. /\ turn \in TextRunner /\ turn.job = runner[w].job /\ turn.at = "answered"
      /\ turn.attempt = runner[w].attempt /\ (turn.exact <=> runner[w].exact)
  BY <1>2 DEF TextRunner
<1> HIDE DEF row, turn
<1>6. /\ JobOf(w).external /\ runner[w].attempt = JobOf(w).attempts
      /\ JobOf(w).status \in {"RUNNING", "SUBMIT_UNKNOWN"}
  BY <1>1, <1>2 DEF RunFits, Told
<1>7. JobFollows(JobOf(w), row)
  BY <1>2, <1>4, <1>6 DEF JobFollows, JobFits
<1>8. RunFollows(runner[w], turn, JobOf(w))
  BY <1>1, <1>5 DEF RunFollows, Live, Late
<1>9. RunFits(turn, row)
  BY <1>1, <1>2, <1>4, <1>5, <1>6 DEF RunFits, Told, Late
<1> QED
  BY <1>1, <1>3, <1>5, <1>6, <1>7, <1>8, <1>9, OwnerMoves DEF OwnerGoesOn

\* A lease that ends and a retry: the queue alone changes a job.
LEMMA QueueChanges ==
  ASSUME ChainInv, NEW j \in DOMAIN textJobs, TextLeaseEnds(j) \/ RetryText(j)
  PROVE  ChainInv'
<1>0. textJobs[j] \in TextJob /\ JobFits(textJobs[j]) /\ textJobs[j].attempts \in 0..2
  <2>1. textJobs[j] \in TextJob /\ JobFits(textJobs[j])
    BY DEF ChainInv, ChainTypeOK
  <2> QED
    BY <2>1 DEF TextJob
<1> DEFINE old == textJobs[j]
           status == IF RetryText(j) THEN "QUEUED" ELSE
                     IF old.external THEN "SUBMIT_UNKNOWN" ELSE
                     IF old.attempts < 2 THEN "QUEUED" ELSE "FAILED"
           row == [old EXCEPT !.status = status]
<1>1. old \in TextJob /\ JobFits(old) /\ old.attempts \in 0..2
  BY <1>0
<1>2. UNCHANGED <<productSide, tables, client, runner>>
  BY DEF TextLeaseEnds, RetryText
<1>3. textJobs' = [textJobs EXCEPT ![j] = row]
  <2>1. CASE RetryText(j)
    BY <2>1 DEF RetryText
  <2>2. CASE ~RetryText(j)
    BY <1>1, <2>2 DEF TextLeaseEnds, TextJob
  <2> QED
    BY <2>1, <2>2
<1>4. \/ old.status = "FAILED" /\ old.attempts < 2 /\ status = "QUEUED"
      \/ old.status = "RUNNING" /\ old.external /\ status = "SUBMIT_UNKNOWN"
      \/ old.status = "RUNNING" /\ ~old.external /\ old.attempts < 2 /\ status = "QUEUED"
      \/ old.status = "RUNNING" /\ ~old.external /\ status = "FAILED"
  BY DEF TextLeaseEnds, RetryText, Retryable
<1> HIDE DEF status
<1>5. /\ row \in TextJob /\ row.status = status /\ row.choice = old.choice
      /\ row.attempts = old.attempts /\ (row.external <=> old.external)
      /\ (row.paid <=> old.paid) /\ (row.result <=> old.result)
  BY <1>1, <1>4 DEF TextJob
<1> HIDE DEF row
<1>6. JobFollows(old, row)
  BY <1>1, <1>4, <1>5 DEF JobFollows, JobFits
<1>7. ASSUME NEW turn, RunFits(turn, old) PROVE RunFits(turn, row)
  BY <1>1, <1>4, <1>5, <1>7 DEF RunFits, JobFits
<1>8. textJobs \in Seq(TextJob) /\ row \in TextJob
  BY <1>5 DEF ChainInv, ChainTypeOK
<1>9. /\ textJobs' \in Seq(TextJob) /\ Len(textJobs') = Len(textJobs)
      /\ \A i \in DOMAIN textJobs : textJobs'[i] = IF i = j THEN row ELSE textJobs[i]
  BY <1>3, <1>8, ChangedSeq
<1> HIDE DEF old
<1>10. old = textJobs[j]
  BY DEF old
<1>11. \A i \in DOMAIN textJobs : JobFollows(textJobs[i], textJobs'[i])
  BY <1>6, <1>9, <1>10, SameJobFollows
<1>12. product' \in Drafts /\ figures' \in 0..1 /\ runner' \in [Runners -> TextRunner]
  BY <1>2 DEF ChainInv, ChainTypeOK, productSide
<1>13. \A w \in Runners : runner'[w].at # "idle" =>
         /\ RunFollows(runner[w], runner'[w], JobOf(w))
         /\ RunFits(runner'[w], textJobs'[runner[w].job])
  <2>1. \A w \in Runners : runner[w].at # "idle" =>
          runner[w].job \in DOMAIN textJobs /\ RunFits(runner[w], textJobs[runner[w].job])
    BY DEF ChainInv, RunsFit, JobOf
  <2>2. \A w \in Runners : runner[w].at # "idle" =>
          RunFits(runner[w], textJobs'[runner[w].job])
    BY <1>7, <1>9, <1>10, <2>1
  <2> QED
    BY <1>2, <2>2 DEF RunFollows
<1> QED
  BY <1>2, <1>9, <1>11, <1>12, <1>13, SameRows DEF JobsGoOn

\* The product's content and its figures are edited.
LEMMA EditStep ==
  ASSUME ChainInv, EditProduct \/ ImportFigures
  PROVE  ChainInv'
<1>1. UNCHANGED <<tables, textJobs, client, runner>>
  BY DEF EditProduct, ImportFigures
<1>2. product' \in Drafts /\ figures' \in 0..1
  BY DEF ChainInv, ChainTypeOK, EditProduct, ImportFigures
<1>3. textJobs' \in Seq(TextJob) /\ runner' \in [Runners -> TextRunner]
  BY <1>1 DEF ChainInv, ChainTypeOK
<1>4. \A w \in Runners : runner'[w].at # "idle" =>
        /\ RunFollows(runner[w], runner'[w], JobOf(w))
        /\ RunFits(runner'[w], textJobs'[runner[w].job])
  BY <1>1 DEF ChainInv, RunsFit, JobOf, RunFollows
<1> QED
  BY <1>1, <1>2, <1>3, <1>4, SameJobFollows, SameRows DEF JobsGoOn
-----------------------------------------------------------------------------
(* Rows *)

StudioChoices == [kind : {"studio"}, strategy : 1..MaxTexts, copy : 0..MaxTexts]

LEMMA ChoiceFields ==
  ASSUME NEW choice \in Choice
  PROVE  /\ choice.kind \in {"none", "strategy", "copy", "initial", "v2 copy", "v2 project",
                            "studio"}
         /\ choice.strategy \in 0..MaxTexts /\ choice.copy \in 0..MaxTexts
         /\ choice.kind = "studio" => choice \in StudioChoices
<1>1. choice \in TextChoices \/ choice = NoChoice \/ choice \in StudioChoices
  BY DEF Choice, StudioChoices
<1>2. CASE choice \in TextChoices
  BY <1>2 DEF TextChoices
<1>3. CASE choice = NoChoice
  <2>1. 0 \in 0..MaxTexts
    BY ChainAssumption
  <2> QED
    BY <1>3, <2>1 DEF NoChoice
<1>4. CASE choice \in StudioChoices
  <2>1. choice.kind = "studio" /\ choice.strategy \in 1..MaxTexts
        /\ choice.copy \in 0..MaxTexts
    BY <1>4 DEF StudioChoices
  <2>2. choice.strategy \in 0..MaxTexts
    BY <2>1, ChainAssumption
  <2> QED
    BY <1>4, <2>1, <2>2
<1> QED
  BY <1>1, <1>2, <1>3, <1>4

\* Each kind of text goes to the end of its table.
LEMMA StoreKeepsRows ==
  ASSUME ChainInv, NEW choice \in Choice, NEW exact \in BOOLEAN, NEW job \in 0..MaxTextJobs,
         choice.kind # "none", choice.kind \in {"strategy", "copy"} => exact,
         Store(choice, exact, job), Len(textJobs') <= MaxTextJobs
  PROVE  /\ strategies' \in Seq(Row) /\ copies' \in Seq(Row) /\ projects' \in Seq(Row)
         /\ TextsFit' /\ \A p \in DOMAIN projects : projects'[p] = projects[p]
         /\ \/ projects' = projects
            \/ /\ choice.kind \in {"initial", "v2 project", "studio"}
               /\ projects' = Append(projects, NewRow(choice, exact, job))
<1> DEFINE row == NewRow(choice, exact, job)
<1>1. /\ strategies \in Seq(Row) /\ copies \in Seq(Row) /\ projects \in Seq(Row)
      /\ Len(strategies) <= MaxTexts /\ Len(copies) <= MaxTexts
      /\ Len(projects) <= MaxTexts /\ MaxTexts \in Nat
  BY ChainAssumption DEF ChainInv, ChainTypeOK, TextsFit
<1>2. row \in Row /\ row.kind = choice.kind /\ row.exact = exact
  BY ChoiceFields DEF NewRow, Row
<1> HIDE DEF row
<1>3. CASE choice.kind = "strategy"
  <2>1. /\ strategies' = Append(strategies, row) /\ UNCHANGED <<copies, projects>>
        /\ Len(strategies) < MaxTexts
    BY <1>3 DEF Store, row
  <2>2. /\ strategies' \in Seq(Row) /\ Len(strategies') = Len(strategies) + 1
        /\ DOMAIN strategies' = DOMAIN strategies \cup {Len(strategies) + 1}
        /\ strategies'[Len(strategies) + 1] = row
        /\ \A i \in DOMAIN strategies : strategies'[i] = strategies[i]
    BY <1>1, <1>2, <2>1, LongerSeq
  <2>3. \A i \in DOMAIN strategies' : strategies'[i].exact
    BY <1>2, <1>3, <2>2 DEF ChainInv, TextsFit
  <2>4. TextsFit'
    BY <1>1, <2>1, <2>2, <2>3 DEF ChainInv, TextsFit
  <2> QED
    BY <1>1, <2>1, <2>2, <2>4
<1>4. CASE choice.kind \in {"copy", "v2 copy"}
  <2>1. /\ copies' = Append(copies, row) /\ UNCHANGED <<strategies, projects>>
        /\ Len(copies) < MaxTexts
    BY <1>4 DEF Store, row
  <2>2. /\ copies' \in Seq(Row) /\ Len(copies') = Len(copies) + 1
        /\ DOMAIN copies' = DOMAIN copies \cup {Len(copies) + 1}
        /\ copies'[Len(copies) + 1] = row
        /\ \A i \in DOMAIN copies : copies'[i] = copies[i]
    BY <1>1, <1>2, <2>1, LongerSeq
  <2>3. \A i \in DOMAIN copies' : copies'[i].kind = "copy" => copies'[i].exact
    BY <1>2, <1>4, <2>2 DEF ChainInv, TextsFit
  <2>4. TextsFit'
    BY <1>1, <2>1, <2>2, <2>3 DEF ChainInv, TextsFit
  <2> QED
    BY <1>1, <2>1, <2>2, <2>4
<1>5. CASE choice.kind \notin {"strategy", "copy", "v2 copy"}
  <2>1. /\ projects' = Append(projects, row) /\ UNCHANGED <<strategies, copies>>
        /\ Len(projects) < MaxTexts
    BY <1>5 DEF Store, row
  <2>2. /\ projects' \in Seq(Row) /\ Len(projects') = Len(projects) + 1
        /\ \A i \in DOMAIN projects : projects'[i] = projects[i]
    BY <1>1, <1>2, <2>1, LongerSeq
  <2>3. TextsFit'
    BY <1>1, <2>1, <2>2 DEF ChainInv, TextsFit
  <2>4. choice.kind \in {"initial", "v2 project", "studio"}
    BY <1>5, ChoiceFields
  <2> QED
    BY <1>1, <2>1, <2>2, <2>3, <2>4 DEF row
<1> QED
  BY <1>3, <1>4, <1>5

LEMMA NothingGoesOn ==
  ASSUME ChainInv, UNCHANGED <<textJobs, runner>>
  PROVE  JobsGoOn
<1>1. \A w \in Runners : runner[w].at # "idle" =>
        RunFollows(runner[w], runner[w], JobOf(w)) /\ RunFits(runner[w], JobOf(w))
  BY DEF ChainInv, RunsFit, RunFollows
<1> QED
  BY <1>1, SameJobFollows DEF ChainInv, ChainTypeOK, JobsGoOn, JobOf

LEMMA ClientMoves ==
  ASSUME ChainInv, UNCHANGED <<productSide, tables, textJobs, runner>>,
         NEW c \in Clients, NEW record \in TextClient, ClientFits(record),
         client' = [client EXCEPT ![c] = record]
  PROVE  ChainInv'
<1>1. UNCHANGED <<product, figures, strategies, copies, projects>>
  BY DEF tables, productSide
<1>2. /\ client' \in [Clients -> TextClient]
      /\ \A d \in Clients : client'[d] = IF d = c THEN record ELSE client[d]
  BY DEF ChainInv, ChainTypeOK
<1>3. ChainTypeOK'
  BY <1>1, <1>2 DEF ChainInv, ChainTypeOK
<1>4. TextsFit' /\ Initial' = Initial
  BY <1>1 DEF ChainInv, TextsFit, Initial
<1>5. \A d \in Clients : ClientFits(client[d])'
  BY <1>2 DEF ChainInv
<1> QED
  BY <1>1, <1>3, <1>4, <1>5, NothingGoesOn, QueueStep

LEMMA IdleIsAClient == IdleClient \in TextClient /\ ClientFits(IdleClient)
<1>1. 0 \in 0..MaxTexts
  BY ChainAssumption
<1>2. NoChoice \in Choice
  BY DEF Choice
<1>3. IdleClient \in TextClient /\ IdleClient.choice = NoChoice /\ IdleClient.at = "idle"
  BY <1>1, <1>2 DEF IdleClient, TextClient
<1> QED
  BY <1>3 DEF ClientFits, NoChoice

\* The fields of a record that a step of a request changes.
LEMMA ClientSteps ==
  ASSUME ChainInv, NEW c \in Clients,
         \/ GenerateText(c) \/ StudioReadsStrategy(c) \/ StudioReadsCopy(c)
         \/ CheckAgain(c) \/ ReadAgain(c) \/ GiveUpInRequest(c)
  PROVE  ChainInv'
<1>1. UNCHANGED <<productSide, tables, textJobs, runner>>
  BY DEF GenerateText, StudioReadsStrategy, StudioReadsCopy, CheckAgain, ReadAgain,
         GiveUpInRequest
<1>2. /\ client[c] \in TextClient /\ ClientFits(client[c]) /\ product \in Drafts
      /\ figures \in 0..1
      /\ Len(strategies) \in 0..MaxTexts /\ Len(copies) \in 0..MaxTexts
      /\ Len(projects) \in 0..MaxTexts
      /\ strategies # <<>> => Len(strategies) \in 1..MaxTexts
  BY ChainAssumption DEF ChainInv, ChainTypeOK, TextsFit
<1>3. IdleClient \in TextClient /\ ClientFits(IdleClient)
  BY IdleIsAClient
<1>4. CASE GenerateText(c)
  <2>1. PICK choice \in TextChoices :
          /\ StrategyReady(choice) \/ CopyReady(choice)
          /\ ClientGoes(c, [IdleClient EXCEPT !.at = "called", !.choice = choice,
                                              !.exact = TRUE])
    BY <1>4 DEF GenerateText
  <2> DEFINE record == [IdleClient EXCEPT !.at = "called", !.choice = choice, !.exact = TRUE]
  <2>2. /\ record \in TextClient /\ record.at = "called" /\ record.choice = choice
        /\ record.exact
    BY <1>3 DEF TextClient, Choice
  <2>3. client' = [client EXCEPT ![c] = record]
    BY <2>1 DEF ClientGoes
  <2> HIDE DEF record
  <2>4. ClientFits(record)
    BY <2>1, <2>2 DEF ClientFits, StrategyReady, CopyReady
  <2> QED
    BY <1>1, <2>2, <2>3, <2>4, ClientMoves
<1>5. CASE StudioReadsStrategy(c)
  <2> DEFINE choice == [kind |-> "studio", strategy |-> Len(strategies), copy |-> 0]
             record == [IdleClient EXCEPT !.at = "studio", !.choice = choice]
  <2>1. client' = [client EXCEPT ![c] = record] /\ strategies # <<>>
    BY <1>5 DEF StudioReadsStrategy, ClientGoes
  <2>2. Len(strategies) \in 1..MaxTexts /\ 0 \in 0..MaxTexts
    BY <1>2, <2>1, ChainAssumption
  <2>3. choice \in StudioChoices /\ choice.kind = "studio"
    BY <2>2 DEF StudioChoices
  <2>4. choice \in Choice
    BY <2>3 DEF Choice, StudioChoices
  <2> HIDE DEF choice
  <2>5. record \in TextClient /\ record.at = "studio" /\ record.choice = choice
    BY <1>3, <2>4 DEF TextClient
  <2> HIDE DEF record
  <2> QED
    BY <1>1, <2>1, <2>3, <2>5, ClientMoves DEF ClientFits
<1>6. CASE StudioReadsCopy(c)
  <2> DEFINE old == client[c]
             choice == [old.choice EXCEPT !.copy = Len(copies)]
             record == [old EXCEPT !.at = "called", !.choice = choice, !.exact = TRUE]
  <2>1. client' = [client EXCEPT ![c] = record] /\ old.at = "studio"
    BY <1>6 DEF StudioReadsCopy, ClientGoes
  <2>2. old.choice \in [kind : {"studio"}, strategy : 1..MaxTexts, copy : 0..MaxTexts]
    BY <1>2, <2>1, ChoiceFields DEF TextClient, ClientFits, StudioChoices
  <2>3. choice \in Choice /\ choice.kind = "studio"
    BY <1>2, <2>2 DEF Choice
  <2> HIDE DEF choice
  <2>4. record \in TextClient /\ record.at = "called" /\ record.choice = choice
    BY <1>2, <2>3 DEF TextClient
  <2> HIDE DEF record
  <2> QED
    BY <1>1, <2>1, <2>3, <2>4, ClientMoves DEF ClientFits
<1>7. CASE CheckAgain(c)
  <2>1. PICK choice \in TextChoices :
          /\ CopyAgainReady(choice) \/ ProjectAgainReady(choice)
          /\ ClientGoes(c, [IdleClient EXCEPT !.at = "checked", !.choice = choice,
                                              !.draft = product, !.context = Context])
    BY <1>7 DEF CheckAgain
  <2> DEFINE record == [IdleClient EXCEPT !.at = "checked", !.choice = choice,
                                          !.draft = product, !.context = Context]
  <2>2. Context \in (0..MaxTexts) \X (0..1)
    BY <1>2 DEF Context
  <2>3. record \in TextClient /\ record.at = "checked" /\ record.choice = choice
    BY <1>2, <1>3, <2>2 DEF TextClient, Choice
  <2>4. client' = [client EXCEPT ![c] = record]
    BY <2>1 DEF ClientGoes
  <2> HIDE DEF record
  <2>5. ClientFits(record)
    BY <2>1, <2>3 DEF ClientFits, CopyAgainReady, ProjectAgainReady
  <2> QED
    BY <1>1, <2>3, <2>4, <2>5, ClientMoves
<1>8. CASE ReadAgain(c) \/ GiveUpInRequest(c)
  <2> DEFINE exact == (product = client[c].draft)
             record == [client[c] EXCEPT !.at = "called", !.exact = exact]
  <2>1. \/ ClientGoes(c, IdleClient)
        \/ client[c].at = "checked" /\ ClientGoes(c, record)
    BY <1>8 DEF ReadAgain, GiveUpInRequest
  <2>2. exact \in BOOLEAN
    OBVIOUS
  <2> HIDE DEF exact
  <2>3. record \in TextClient /\ record.at = "called" /\ record.choice = client[c].choice
    BY <1>2, <2>2 DEF TextClient
  <2> HIDE DEF record
  <2>4. client[c].at = "checked" => ClientFits(record)
    BY <1>2, <2>3 DEF ClientFits
  <2> QED
    BY <1>1, <1>3, <2>1, <2>3, <2>4, ClientMoves DEF ClientGoes
<1> QED
  BY <1>4, <1>5, <1>6, <1>7, <1>8

LEMMA StoreInRequestStep ==
  ASSUME ChainInv, NEW c \in Clients, StoreInRequest(c)
  PROVE  ChainInv'
<1> DEFINE choice == client[c].choice
           exact == client[c].exact
<1>1. /\ client[c].at = "called" /\ Store(choice, exact, 0)
      /\ client' = [client EXCEPT ![c] = IdleClient]
      /\ UNCHANGED <<product, figures, textJobs, runner>>
  BY DEF StoreInRequest, ClientGoes, productSide
<1>2. client[c] \in TextClient /\ ClientFits(client[c]) /\ projects \in Seq(Row)
  BY DEF ChainInv, ChainTypeOK
<1>3. choice \in Choice /\ exact \in BOOLEAN
  BY <1>2 DEF TextClient
<1>4. /\ choice.kind \notin {"none", "initial"}
      /\ choice.kind \in {"strategy", "copy"} => exact
  BY <1>1, <1>2 DEF ClientFits
<1>5. 0 \in 0..MaxTextJobs /\ Len(textJobs') <= MaxTextJobs
  BY <1>1, ChainAssumption DEF ChainInv, TextsFit
<1> HIDE DEF choice, exact
<1>6. /\ strategies' \in Seq(Row) /\ copies' \in Seq(Row) /\ projects' \in Seq(Row)
      /\ TextsFit' /\ \A p \in DOMAIN projects : projects'[p] = projects[p]
      /\ \/ projects' = projects
         \/ projects' = Append(projects, NewRow(choice, exact, 0))
  BY <1>1, <1>3, <1>4, <1>5, StoreKeepsRows
<1>7. Initial' = Initial
  <2>1. CASE projects' = projects
    BY <2>1 DEF Initial
  <2>2. CASE projects' = Append(projects, NewRow(choice, exact, 0))
    <3>1. NewRow(choice, exact, 0).kind # "initial"
      BY <1>4 DEF NewRow
    <3> QED
      BY <1>2, <1>6, <2>2, <3>1 DEF Initial
  <2> QED
    BY <1>6, <2>1, <2>2
<1>8. /\ client' \in [Clients -> TextClient] /\ \A d \in Clients : ClientFits(client[d])'
  BY <1>1, IdleIsAClient DEF ChainInv, ChainTypeOK
<1>9. ChainTypeOK'
  BY <1>1, <1>6, <1>8 DEF ChainInv, ChainTypeOK
<1>10. \A p \in Initial : projects'[p] = projects[p]
  BY <1>6 DEF Initial
<1> QED
  BY <1>1, <1>6, <1>7, <1>8, <1>9, <1>10, NothingGoesOn, QueueStep
\* A run that keeps its answer: the only step that writes a first project.
LEMMA StoreTextStep ==
  ASSUME ChainInv, NEW w \in Runners, StoreText(w)
  PROVE  ChainInv'
<1> DEFINE choice == JobOf(w).choice
           exact == runner[w].exact
           j == runner[w].job
           row == [JobOf(w) EXCEPT !.result = TRUE]
           turn == [runner[w] EXCEPT !.at = "stored"]
<1>1. /\ runner[w].at = "answered" /\ Store(choice, exact, j)
      /\ UNCHANGED <<product, figures, client>>
  BY DEF StoreText, RunnerAt, productSide
<1>2. /\ runner[w] \in TextRunner /\ JobOf(w) \in TextJob /\ j \in DOMAIN textJobs
      /\ RunFits(runner[w], JobOf(w)) /\ JobFits(JobOf(w))
  BY <1>1, RunIsTrue
<1>3. /\ row \in TextJob /\ row.status = JobOf(w).status /\ row.choice = choice
      /\ row.attempts = JobOf(w).attempts /\ (row.external <=> JobOf(w).external)
      /\ (row.paid <=> JobOf(w).paid) /\ row.result
  BY <1>2 DEF TextJob
<1>4. /\ turn \in TextRunner /\ turn.job = j /\ turn.at = "stored"
      /\ turn.attempt = runner[w].attempt /\ (turn.exact <=> runner[w].exact)
  BY <1>2 DEF TextRunner
<1>5. /\ textJobs' = [textJobs EXCEPT ![j] = row]
      /\ runner' = [runner EXCEPT ![w] = turn]
  BY DEF StoreText, RunnerGoes, JobOf
<1>6. choice \in Choice /\ exact \in BOOLEAN /\ j \in 0..MaxTextJobs
  BY <1>2 DEF TextJob, TextRunner, Choice
<1>7. choice.kind \in {"strategy", "copy", "initial"}
  BY <1>2 DEF JobFits
<1>8. choice.kind \in {"strategy", "copy"} => exact
  BY <1>1, <1>2 DEF RunFits, Late
<1> HIDE DEF row, turn
<1>9. /\ JobOf(w).external /\ runner[w].attempt = JobOf(w).attempts
      /\ JobOf(w).status \in {"RUNNING", "SUBMIT_UNKNOWN"}
  BY <1>1, <1>2 DEF RunFits, Told
<1>10. JobFollows(JobOf(w), row)
  BY <1>2, <1>3, <1>9 DEF JobFollows, JobFits
<1>11. RunFollows(runner[w], turn, JobOf(w))
  BY <1>1, <1>4 DEF RunFollows, Live, Late
<1>12. RunFits(turn, row)
  BY <1>1, <1>2, <1>3, <1>4, <1>9 DEF RunFits, Told, Late
<1>13. OwnerGoesOn(w, turn, row)
  BY <1>1, <1>4, <1>5, <1>9, <1>10, <1>11, <1>12 DEF OwnerGoesOn
<1>14. /\ JobsGoOn
       /\ \A v \in Runners : runner'[v] = IF v = w THEN turn ELSE runner[v]
       /\ \A i \in DOMAIN textJobs : textJobs'[i] = IF i = j THEN row ELSE textJobs[i]
  BY <1>13, OwnerFollows
<1>15. Len(textJobs') <= MaxTextJobs
  BY <1>14 DEF JobsGoOn, ChainInv, TextsFit
<1>16. /\ strategies' \in Seq(Row) /\ copies' \in Seq(Row) /\ projects' \in Seq(Row)
       /\ TextsFit' /\ \A p \in DOMAIN projects : projects'[p] = projects[p]
       /\ \/ projects' = projects
          \/ choice.kind = "initial" /\ projects' = Append(projects, NewRow(choice, exact, j))
  BY <1>1, <1>6, <1>7, <1>8, <1>15, StoreKeepsRows
<1>17. ChainTypeOK' /\ \A c \in Clients : ClientFits(client[c])'
  BY <1>1, <1>14, <1>16 DEF ChainInv, ChainTypeOK, JobsGoOn
<1>18. CASE projects' = projects
  <2>1. Initial' = Initial /\ \A p \in Initial : projects'[p] = projects[p]
    BY <1>18 DEF Initial
  <2> QED
    BY <1>14, <1>16, <1>17, <2>1, QueueStep
<1>19. CASE choice.kind = "initial" /\ projects' = Append(projects, NewRow(choice, exact, j))
  <2>0. /\ projects \in Seq(Row) /\ DOMAIN projects = 1..Len(projects)
        /\ Len(projects) \in Nat
    BY DEF ChainInv, ChainTypeOK
  <2>1. PICK new \in Nat : new = Len(projects) + 1
    BY <2>0
  <2>2. /\ DOMAIN projects' = DOMAIN projects \cup {new}
        /\ projects'[new] = NewRow(choice, exact, j)
    BY <1>16, <1>19, <2>0, <2>1
  <2>3. /\ projects'[new].kind = "initial" /\ projects'[new].job = j
        /\ projects'[new].strategy = choice.strategy /\ projects'[new].copy = choice.copy
    BY <1>19, <2>2 DEF NewRow
  <2>4. /\ Initial' = Initial \cup {new}
        /\ \A p \in Initial : p < new /\ p \in DOMAIN projects /\ projects'[p] = projects[p]
    BY <1>16, <2>0, <2>1, <2>2, <2>3 DEF Initial
  <2>5. /\ \A p \in Initial : InitialFits(p)'
        /\ \A v \in Runners, p \in Initial : Sole(v, p)'
        /\ \A p, q \in Initial : Once(p, q)'
    BY <1>14, <2>4, OldProjects
  <2>6. /\ DOMAIN textJobs' = DOMAIN textJobs /\ RunsDiffer' /\ OneRunning' /\ RunsFit'
    BY <1>14, RunsStep
  <2>7. /\ textJobs'[j] = row /\ runner'[w] = turn /\ j \in DOMAIN textJobs'
    BY <1>2, <1>14, <2>6
  <2>8. \A v \in Runners : v # w /\ runner'[v].at # "idle" /\ runner'[v].job = j
                           => runner'[v].attempt # row.attempts
    BY <1>3, <1>4, <1>9, <2>6, <2>7 DEF RunsDiffer
  <2>9. InitialFits(new)'
    <3>1. row.external /\ row.choice.kind = "initial"
      BY <1>3, <1>9, <1>19
    <3>2. \A v \in Runners : runner'[v].job = j /\ runner'[v].at \in Live
                             => runner'[v].attempt # row.attempts
      BY <1>4, <2>7, <2>8 DEF Live, Late
    <3> QED
      BY <2>3, <2>7, <3>1, <3>2 DEF InitialFits
  <2>10. ASSUME NEW v \in Runners PROVE Sole(v, new)'
    <3> SUFFICES ASSUME runner'[v].at \in Late, OwnsText(v)',
                        (JobOf(v).choice.kind = "initial")'
                 PROVE  row.status = "SUBMIT_UNKNOWN"
      BY <2>3, <2>7 DEF Sole, InDoubt
    <3>1. v # w /\ runner'[v].at # "idle"
      BY <1>4, <2>7 DEF Late
    <3>2. runner'[v].job \in DOMAIN textJobs'
      BY <2>6, <3>1 DEF RunsFit
    <3>3. /\ textJobs'[runner'[v].job].status = "RUNNING"
          /\ textJobs'[runner'[v].job].choice.kind = row.choice.kind
          /\ runner'[v].attempt = textJobs'[runner'[v].job].attempts
      BY <1>3, <1>19 DEF OwnsText, JobOf
    <3>4. row.status = "RUNNING" => runner'[v].job = j
      BY <2>6, <2>7, <3>2, <3>3 DEF OneRunning
    <3>5. row.status # "RUNNING"
      BY <2>7, <2>8, <3>1, <3>3, <3>4
    <3> QED
      BY <1>3, <1>9, <3>5
  <2>11. ASSUME NEW p \in Initial PROVE Once(p, new)'
    <3> SUFFICES ASSUME OfChain(p, projects[new])' PROVE InDoubt(p)' \/ InDoubt(new)'
      BY DEF Once
    <3>1. OfChain(p, choice) /\ projects[p].job \in DOMAIN textJobs
      BY <2>3, <2>4 DEF OfChain, ChainInv, ProjectsFit, InitialFits
    <3>2. CASE OwnsText(w)
      <4>1. InDoubt(p)
        BY <1>1, <1>19, <3>1, <3>2 DEF ChainInv, ProjectsFit, Sole, Late
      <4> QED
        BY <1>14, <2>4, <3>1, <4>1 DEF InDoubt, JobsGoOn, JobFollows
    <3>3. CASE ~OwnsText(w)
      <4>1. JobOf(w).status = "SUBMIT_UNKNOWN"
        BY <1>9, <3>3 DEF OwnsText
      <4> QED
        BY <1>3, <2>3, <2>7, <4>1 DEF InDoubt
    <3> QED
      BY <3>2, <3>3
  <2>12. \A p \in Initial' : Once(new, p)'
    BY <2>0, <2>1, <2>4 DEF Once, Initial
  <2>13. ProjectsFit'
    BY <2>4, <2>5, <2>9, <2>10, <2>11, <2>12 DEF ProjectsFit
  <2> QED
    BY <1>14, <1>16, <1>17, <2>13, RunsStep DEF ChainInv
<1> QED
  BY <1>16, <1>18, <1>19

LEMMA ClaimStep ==
  ASSUME ChainInv, NEW w \in Runners, NEW j \in DOMAIN textJobs, ClaimText(w, j)
  PROVE  ChainInv'
<1> DEFINE old == textJobs[j]
           row == [old EXCEPT !.status = "RUNNING", !.attempts = old.attempts + 1]
           turn == [at |-> "claimed", job |-> j, attempt |-> old.attempts + 1, exact |-> FALSE]
<1>1. /\ old.status = "QUEUED" /\ runner[w].at = "idle" /\ SlotFree(j)
      /\ UNCHANGED <<product, figures, strategies, copies, projects, client>>
  BY DEF ClaimText, RunnerAt, productSide, tables
<1>2. textJobs' = [textJobs EXCEPT ![j] = row] /\ runner' = [runner EXCEPT ![w] = turn]
  BY DEF ClaimText, RunnerGoes
<1>3. /\ old \in TextJob /\ JobFits(old) /\ textJobs \in Seq(TextJob)
      /\ j \in 0..MaxTextJobs
  BY ChainAssumption DEF ChainInv, ChainTypeOK, TextsFit
<1>4. old.attempts \in 0..1 /\ ~old.external /\ ~old.paid
  BY <1>1, <1>3 DEF JobFits, TextJob
<1>5. old.attempts + 1 \in 0..2
  BY <1>4
<1>6. /\ row \in TextJob /\ row.status = "RUNNING" /\ row.choice = old.choice
      /\ row.attempts = old.attempts + 1 /\ (row.external <=> old.external)
      /\ (row.paid <=> old.paid) /\ (row.result <=> old.result)
  BY <1>3, <1>5 DEF TextJob
<1>7. /\ turn \in TextRunner /\ turn.at = "claimed" /\ turn.job = j
      /\ turn.attempt = old.attempts + 1
  BY <1>3, <1>5 DEF TextRunner
<1> HIDE DEF row, turn
<1>8. /\ textJobs' \in Seq(TextJob) /\ Len(textJobs') = Len(textJobs)
      /\ DOMAIN textJobs' = DOMAIN textJobs
      /\ \A i \in DOMAIN textJobs : textJobs'[i] = IF i = j THEN row ELSE textJobs[i]
  BY <1>2, <1>3, <1>6, ChangedSeq
<1>9. /\ runner' \in [Runners -> TextRunner]
      /\ \A v \in Runners : runner'[v] = IF v = w THEN turn ELSE runner[v]
  BY <1>2, <1>7 DEF ChainInv, ChainTypeOK
<1>10. ChainTypeOK' /\ TextsFit' /\ \A c \in Clients : ClientFits(client[c])'
  BY <1>1, <1>8, <1>9 DEF ChainInv, ChainTypeOK, TextsFit
<1>11. \A i \in DOMAIN textJobs' : JobFits(textJobs'[i])
  BY <1>3, <1>4, <1>6, <1>8 DEF ChainInv, JobFits
<1>12. ASSUME NEW v \in Runners, v # w, runner[v].at # "idle", runner[v].job = j
       PROVE  /\ RunFits(runner[v], row) /\ runner[v].attempt < row.attempts
  <2>1. RunFits(runner[v], old) /\ runner[v] \in TextRunner
    BY <1>12 DEF ChainInv, ChainTypeOK, RunsFit, JobOf
  <2>2. runner[v].attempt \in 0..2
    BY <2>1 DEF TextRunner
  <2>3. runner[v].attempt < row.attempts
    BY <1>4, <1>6, <2>1, <2>2 DEF RunFits
  <2>4. runner[v].at \notin Told /\ runner[v].at # "stored"
    BY <1>4, <2>1 DEF RunFits, Told
  <2> QED
    BY <1>4, <1>6, <2>1, <2>2, <2>3, <2>4 DEF RunFits
<1>13. RunFits(turn, row)
  BY <1>4, <1>6, <1>7 DEF RunFits, Told, Late
<1>14. RunsFit'
  <2> SUFFICES ASSUME NEW v \in Runners, runner'[v].at # "idle"
               PROVE  /\ runner'[v].job \in DOMAIN textJobs'
                      /\ RunFits(runner'[v], textJobs'[runner'[v].job])
    BY DEF RunsFit, JobOf
  <2>1. CASE v = w
    BY <1>7, <1>8, <1>9, <1>13, <2>1
  <2>2. CASE v # w /\ runner[v].job = j
    BY <1>8, <1>9, <1>12, <2>2
  <2>3. CASE v # w /\ runner[v].job # j
    BY <1>8, <1>9, <2>3 DEF ChainInv, RunsFit, JobOf
  <2> QED
    BY <2>1, <2>2, <2>3
<1>15. RunsDiffer'
  <2>1. \A v \in Runners :
          v # w /\ runner[v].at # "idle" /\ runner[v].job = j
          => runner[v].attempt # turn.attempt
    BY <1>4, <1>6, <1>7, <1>12
  <2> QED
    BY <1>7, <1>9, <2>1 DEF ChainInv, RunsDiffer
<1>16. OneRunning'
  BY <1>1, <1>6, <1>8 DEF ChainInv, OneRunning, SlotFree
<1>17. Initial' = Initial
  BY <1>1 DEF Initial
<1>18. \A p \in Initial : projects[p].job \in DOMAIN textJobs /\ projects[p].job # j
  BY <1>4 DEF ChainInv, ProjectsFit, InitialFits
<1>19. \A p \in Initial : InitialFits(p)'
  BY <1>1, <1>7, <1>8, <1>9, <1>18 DEF ChainInv, ProjectsFit, InitialFits
<1>20. ASSUME NEW v \in Runners, NEW p \in Initial PROVE Sole(v, p)'
  <2> SUFFICES ASSUME runner'[v].at \in Late, OwnsText(v)',
                      (JobOf(v).choice.kind = "initial")', OfChain(p, JobOf(v).choice)'
               PROVE  InDoubt(p)'
    BY DEF Sole
  <2>1. v # w /\ runner'[v] = runner[v] /\ runner[v].at # "idle"
    BY <1>7, <1>9 DEF Late
  <2>2. runner[v].job \in DOMAIN textJobs /\ runner[v] \in TextRunner
    BY <2>1 DEF ChainInv, ChainTypeOK, RunsFit
  <2>3. runner[v].job # j
    <3>1. SUFFICES ASSUME runner[v].job = j PROVE FALSE
      OBVIOUS
    <3>2. runner[v].attempt = row.attempts
      BY <1>8, <2>1, <2>2, <3>1 DEF OwnsText, JobOf
    <3> QED
      BY <1>4, <1>6, <1>12, <2>1, <3>1, <3>2
  <2>4. JobOf(v)' = JobOf(v)
    BY <1>8, <2>1, <2>2, <2>3 DEF JobOf
  <2>5. OwnsText(v) /\ JobOf(v).choice.kind = "initial" /\ OfChain(p, JobOf(v).choice)
    BY <1>1, <2>1, <2>4 DEF OwnsText, OfChain
  <2>6. InDoubt(p)
    BY <2>1, <2>5 DEF ChainInv, ProjectsFit, Sole
  <2> QED
    BY <1>1, <1>8, <1>18, <2>6 DEF InDoubt
<1>21. \A p, q \in Initial : Once(p, q)'
  BY <1>1, <1>8, <1>18 DEF ChainInv, ProjectsFit, Once, OfChain, InDoubt
<1>22. ProjectsFit'
  BY <1>17, <1>19, <1>20, <1>21 DEF ProjectsFit
<1> QED
  BY <1>10, <1>11, <1>14, <1>15, <1>16, <1>22 DEF ChainInv
LEMMA EnqueueStep ==
  ASSUME ChainInv, EnqueueText
  PROVE  ChainInv'
<1>1. PICK choice \in TextChoices :
        /\ StrategyReady(choice) \/ CopyReady(choice) \/ ProjectReady(choice)
        /\ textJobs' = Append(textJobs,
             [choice |-> choice, draft |-> product, status |-> "QUEUED", attempts |-> 0,
              external |-> FALSE, paid |-> FALSE, result |-> FALSE])
  BY DEF EnqueueText
<1> DEFINE row == [choice |-> choice, draft |-> product, status |-> "QUEUED", attempts |-> 0,
                   external |-> FALSE, paid |-> FALSE, result |-> FALSE]
<1>2. /\ UNCHANGED <<product, figures, strategies, copies, projects, client, runner>>
      /\ Len(textJobs) < MaxTextJobs
  BY DEF EnqueueText, productSide, tables
<1>3. product \in Drafts /\ textJobs \in Seq(TextJob) /\ Len(textJobs) \in Nat
  BY DEF ChainInv, ChainTypeOK
<1>4. /\ row \in TextJob /\ row.choice = choice /\ row.status = "QUEUED" /\ row.attempts = 0
      /\ row.external = FALSE /\ row.paid = FALSE
  BY <1>3 DEF TextJob
<1> HIDE DEF row
<1>5. /\ textJobs' \in Seq(TextJob) /\ Len(textJobs') = Len(textJobs) + 1
      /\ DOMAIN textJobs' = DOMAIN textJobs \cup {Len(textJobs) + 1}
      /\ Len(textJobs) + 1 \notin DOMAIN textJobs
      /\ textJobs'[Len(textJobs) + 1] = row
      /\ \A i \in DOMAIN textJobs : textJobs'[i] = textJobs[i]
  BY <1>1, <1>3, <1>4, LongerSeq DEF row
<1>6. choice.kind \in {"strategy", "copy", "initial"}
  BY <1>1 DEF StrategyReady, CopyReady, ProjectReady
<1>7. ChainTypeOK'
  BY <1>2, <1>5 DEF ChainInv, ChainTypeOK
<1>8. TextsFit' /\ \A c \in Clients : ClientFits(client[c])'
  BY <1>2, <1>3, <1>5, ChainAssumption DEF ChainInv, TextsFit
<1>9. JobFits(row)
  BY <1>4, <1>6 DEF JobFits
<1>10. \A j \in DOMAIN textJobs' : JobFits(textJobs'[j])
  BY <1>5, <1>9 DEF ChainInv
<1>11. RunsFit' /\ RunsDiffer'
  BY <1>2, <1>5 DEF ChainInv, RunsFit, JobOf, RunsDiffer
<1>12. OneRunning'
  BY <1>4, <1>5 DEF ChainInv, OneRunning
<1>13. Initial' = Initial
  BY <1>2 DEF Initial
<1>14. \A p \in Initial : projects[p].job \in DOMAIN textJobs
  BY DEF ChainInv, ProjectsFit, InitialFits
<1>15. \A p \in Initial : InitialFits(p)'
  BY <1>2, <1>5, <1>14 DEF ChainInv, ProjectsFit, InitialFits
<1>16. ASSUME NEW w \in Runners, NEW p \in Initial PROVE Sole(w, p)'
  <2>1. CASE runner[w].at \in Late
    <3>1. runner[w].job \in DOMAIN textJobs
      BY <2>1 DEF ChainInv, RunsFit, Late
    <3> QED
      BY <1>2, <1>5, <1>14, <3>1 DEF ChainInv, ProjectsFit, Sole, OwnsText, JobOf, OfChain,
           InDoubt
  <2>2. CASE runner[w].at \notin Late
    BY <1>2, <2>2 DEF Sole
  <2> QED
    BY <2>1, <2>2
<1>17. \A p, q \in Initial : Once(p, q)'
  BY <1>2, <1>5, <1>14 DEF ChainInv, ProjectsFit, Once, OfChain, InDoubt
<1>18. ProjectsFit'
  BY <1>13, <1>15, <1>16, <1>17 DEF ProjectsFit
<1> QED
  BY <1>7, <1>8, <1>10, <1>11, <1>12, <1>18 DEF ChainInv

-----------------------------------------------------------------------------
(* The invariant holds *)

LEMMA ChainStarts == ChainInit => ChainInv
<1> SUFFICES ASSUME ChainInit PROVE ChainInv
  OBVIOUS
<1>1. 0 \in 0..MaxTexts /\ 1 \in 0..MaxTexts /\ 0 \in 0..MaxTextJobs /\ 1 <= MaxTexts
  BY ChainAssumption
<1>2. FirstStrategy \in Row /\ FirstStrategy.exact
  BY <1>1 DEF FirstStrategy, NewRow, NoChoice, Row
<1>3. FirstCopy \in Row /\ FirstCopy.exact
  BY <1>1 DEF FirstCopy, NewRow, Row
<1>4. /\ strategies \in Seq(Row) /\ Len(strategies) <= MaxTexts
      /\ \A s \in DOMAIN strategies : strategies[s].exact
      /\ copies \in Seq(Row) /\ Len(copies) <= MaxTexts
      /\ \A c \in DOMAIN copies : copies[c].exact
  <2>1. CASE strategies = <<>> /\ copies = <<>>
    BY <1>1, <2>1
  <2>2. CASE strategies = <<FirstStrategy>> /\ copies = <<FirstCopy>>
    BY <1>1, <1>2, <1>3, <2>2
  <2> QED
    BY <2>1, <2>2 DEF ChainInit
<1>5. projects = <<>> /\ textJobs = <<>> /\ product \in Drafts /\ figures \in 0..1
  BY DEF ChainInit
<1>6. /\ client \in [Clients -> TextClient] /\ \A c \in Clients : client[c] = IdleClient
      /\ runner \in [Runners -> TextRunner] /\ \A w \in Runners : runner[w].at = "idle"
  BY IdleIsAClient, IdleIsARun DEF ChainInit
<1>7. ChainTypeOK
  BY <1>4, <1>5, <1>6 DEF ChainTypeOK
<1>8. TextsFit /\ \A c \in Clients : ClientFits(client[c])
  BY <1>1, <1>4, <1>5, <1>6, IdleIsAClient DEF TextsFit
<1>9. RunsFit /\ RunsDiffer /\ OneRunning
  BY <1>5, <1>6 DEF RunsFit, RunsDiffer, OneRunning
<1>10. ProjectsFit
  BY <1>5 DEF ProjectsFit, Initial
<1> QED
  BY <1>5, <1>7, <1>8, <1>9, <1>10 DEF ChainInv

LEMMA RunnerStep ==
  ASSUME ChainInv, NEW w \in Runners,
         \/ \E j \in DOMAIN textJobs : ClaimText(w, j)
         \/ CheckText(w) \/ FindInitialProject(w) \/ AnnounceText(w) \/ CallQwen(w)
         \/ RefuseText(w) \/ StoreText(w) \/ SucceedText(w) \/ RunnerDies(w)
  PROVE  ChainInv'
<1>1. CASE RefuseText(w)
  <2>1. /\ runner[w].at # "idle" /\ ReportText(w, "SUBMIT_UNKNOWN")
        /\ UNCHANGED <<productSide, tables, client>>
    BY <1>1 DEF RefuseText
  <2> QED
    BY <2>1, ReportStep
<1>2. CASE SucceedText(w)
  <2>1. /\ runner[w].at = "stored" /\ ReportText(w, "SUCCEEDED")
        /\ UNCHANGED <<productSide, tables, client>>
    BY <1>2 DEF SucceedText, RunnerAt
  <2> QED
    BY <2>1, ReportStep
<1>3. CASE RunnerDies(w)
  BY <1>3, RunStops DEF RunnerDies
<1> QED
  BY <1>1, <1>2, <1>3, ClaimStep, CheckTextStep, FindStep, AnnounceStep, CallStep,
     StoreTextStep

LEMMA ChainStep == ChainInv /\ [ChainNext]_chainVars => ChainInv'
<1> SUFFICES ASSUME ChainInv, [ChainNext]_chainVars PROVE ChainInv'
  OBVIOUS
<1>1. CASE RequestNext
  BY <1>1, EditStep, ClientSteps, StoreInRequestStep DEF RequestNext
<1>2. CASE QueueNext
  BY <1>2, EditStep, EnqueueStep, RunnerStep, QueueChanges DEF QueueNext
<1>3. CASE UNCHANGED chainVars
  <2>1. UNCHANGED <<product, figures, strategies, copies, projects, textJobs, client, runner>>
    BY <1>3 DEF chainVars
  <2>2. product' \in Drafts /\ figures' \in 0..1 /\ UNCHANGED <<tables, client>>
    BY <2>1 DEF ChainInv, ChainTypeOK, tables
  <2> QED
    BY <2>1, <2>2, NothingGoesOn, SameRows
<1> QED
  BY <1>1, <1>2, <1>3 DEF ChainNext

\* Requests, jobs, runs and the rows they write agree in every state.
THEOREM ChainInvariance == ChainSpec => []ChainInv
  BY ChainStarts, ChainStep, PTL DEF ChainSpec

\* What the queue pays Qwen for a strategy or a copy says what was confirmed for it,
\* however the product is edited while the job waits, runs, or is claimed again.
THEOREM PromptsStayConfirmed == ChainSpec => []PromptsAreConfirmed
<1>1. ChainInv => PromptsAreConfirmed
  <2> SUFFICES ASSUME ChainInv PROVE PromptsAreConfirmed
    OBVIOUS
  <2>1. \A w \in Runners :
          runner[w].at = "announced" /\ JobOf(w).choice.kind # "initial" => runner[w].exact
    BY DEF ChainInv, RunsFit, RunFits, Late
  <2> QED
    BY <2>1 DEF ChainInv, TextsFit, PromptsAreConfirmed
<1> QED
  BY <1>1, ChainInvariance, PTL

\* A worker that lost its lease may write a second first project of a chain, and then
\* one of the two jobs is shown in doubt; no other interleaving writes a second one.
THEOREM FirstProjectsAreSole == ChainSpec => []FirstProjectOnce
<1>1. ChainInv => FirstProjectOnce
  BY DEF ChainInv, ProjectsFit, Initial, Once, OfChain, InDoubt, FirstProjectOnce
<1> QED
  BY <1>1, ChainInvariance, PTL

\* A text job that is shown failed or waiting called no one, and one shown done is.
THEOREM TextReportsHold == ChainSpec => []TextReportsAreTrue
<1>1. ChainInv => TextReportsAreTrue
  BY DEF ChainInv, JobFits, TextReportsAreTrue
<1> QED
  BY <1>1, ChainInvariance, PTL
-----------------------------------------------------------------------------
(***************************************************************************)
(* Qwen video scripts and script versions                                  *)
(***************************************************************************)

ScriptJob ==
  [external : BOOLEAN, paid : BOOLEAN, draft : 0..MaxEdits,
   status : {"none", "QUEUED", "RUNNING", "SUCCEEDED", "FAILED", "SUBMIT_UNKNOWN"},
   outcome : {"none", "NOT_SUBMITTED", "EXPLICIT_FAILURE", "RESPONSE_RECEIVED"}]
ScriptRun ==
  [seen : Nat, at : {"none", "claimed", "loaded", "counted", "ready", "announced",
                     "answered", "stored", "over"}]

\* The batch counts its jobs, and reserves no more than its quota.
CallsCounted ==
  /\ IsFiniteSet(JobsOfBatch)
  /\ reserved = Cardinality(JobsOfBatch) /\ reserved <= quota

\* Versions are numbered by the counter, one of each key.
Numbered ==
  /\ IsFiniteSet(versions) /\ Cardinality(versions) = sequence
  /\ {v.number : v \in versions} = 1..sequence
  /\ \A v, w \in versions : v.key = w.key => v = w
  /\ active <= sequence

\* A version that Qwen wrote was paid for by its job.
WrittenAsPaid ==
  \A v \in versions : v.generated => v.key \in ScriptKeys /\ scriptJobs[v.key].paid

\* What the job of a key says, as far as its run has come.
Written(k) == \E v \in versions : v.key = k /\ v.generated
JobIsTrue(k, job, at) ==
  /\ job.status \in {"none", "QUEUED"} <=> at = "none"
  /\ job.paid => job.external
  /\ job.external => at \in {"announced", "answered", "stored", "over"}
  /\ at = "announced" => ~job.paid
  /\ at = "answered" => job.paid
  /\ at \in {"announced", "answered", "stored"} =>
       job.external /\ job.status \in {"RUNNING", "SUBMIT_UNKNOWN"}
  /\ at = "stored" \/ job.status = "SUCCEEDED" => Written(k)
  /\ job.status = "FAILED" /\ job.outcome \in {"none", "NOT_SUBMITTED"} => ~job.paid

AskedKeys ==
  /\ \A r \in Requests : request[r].at = "checked" => request[r].key \in ScriptKeys
  /\ \A e \in Writers : writer[e].at = "insert" => writer[e].key \in WriterKeys

ScriptInv ==
  /\ ScriptTypeOK /\ CallsCounted /\ Numbered /\ WrittenAsPaid /\ AskedKeys
  /\ \A k \in ScriptKeys : JobIsTrue(k, scriptJobs[k], run[k].at)

LEMMA ScriptStarts == ScriptInit => ScriptInv
<1> SUFFICES ASSUME ScriptInit PROVE ScriptInv
  OBVIOUS
<1>1. 0 \in 0..MaxEdits /\ 0 \in 0..MaxVersions /\ 0 \in Nat
  BY ScriptAssumption
<1>2. NoJob \in ScriptJob /\ NoRun \in ScriptRun
  BY <1>1 DEF NoJob, NoRun, ScriptJob, ScriptRun
<1>3. /\ IdleRequest \in [at : {"idle", "checked"}, key : ScriptKeys \cup {"none"},
                          draft : 0..MaxEdits]
      /\ IdleWriter \in [at : {"idle", "insert"}, key : WriterKeys \cup {"none"}]
  BY <1>1 DEF IdleRequest, IdleWriter
<1>4. ScriptTypeOK
  BY <1>1, <1>2, <1>3 DEF ScriptInit, ScriptTypeOK, ScriptJob, ScriptRun
<1>5. CallsCounted
  <2>1. JobsOfBatch = {}
    BY DEF ScriptInit, JobsOfBatch, NoJob
  <2>2. reserved = 0 /\ reserved <= quota
    BY <1>4 DEF ScriptInit, ScriptTypeOK
  <2> QED
    BY <2>1, <2>2, FS_EmptySet DEF CallsCounted
<1>6. Numbered
  BY FS_EmptySet DEF ScriptInit, Numbered
<1>7. WrittenAsPaid /\ AskedKeys
  BY DEF ScriptInit, WrittenAsPaid, AskedKeys, IdleRequest, IdleWriter
<1>8. \A k \in ScriptKeys : JobIsTrue(k, scriptJobs[k], run[k].at)
  BY DEF ScriptInit, JobIsTrue, NoJob, NoRun
<1> QED
  BY <1>4, <1>5, <1>6, <1>7, <1>8 DEF ScriptInv

-----------------------------------------------------------------------------
(* The run of a job *)

\* A step of the run of k, which leaves the versions alone.
LEMMA RunStep ==
  ASSUME ScriptInv, NEW k \in ScriptKeys, NEW job \in ScriptJob, NEW r \in ScriptRun,
         scriptJobs' = [scriptJobs EXCEPT ![k] = job], run' = [run EXCEPT ![k] = r],
         scriptJobs[k].status # "none", job.status # "none",
         scriptJobs[k].paid => job.paid,
         JobIsTrue(k, job, r.at),
         UNCHANGED <<brief, quota, reserved, request, versionSide>>
  PROVE  ScriptInv'
<1>1. ScriptTypeOK'
  BY DEF ScriptInv, ScriptTypeOK, ScriptJob, ScriptRun, versionSide
<1>2. scriptJobs'[k] = job /\ run'[k] = r
      /\ \A j \in ScriptKeys : j # k => scriptJobs'[j] = scriptJobs[j] /\ run'[j] = run[j]
  BY DEF ScriptInv, ScriptTypeOK
<1>3. JobsOfBatch' = JobsOfBatch
  BY <1>2 DEF JobsOfBatch
<1>4. CallsCounted'
  BY <1>3 DEF ScriptInv, CallsCounted
<1>5. Numbered' /\ AskedKeys'
  BY DEF ScriptInv, Numbered, AskedKeys, versionSide
<1>6. WrittenAsPaid'
  BY <1>2 DEF ScriptInv, WrittenAsPaid, versionSide
<1>7. \A j \in ScriptKeys : JobIsTrue(j, scriptJobs[j], run[j].at)'
  BY <1>2 DEF ScriptInv, JobIsTrue, Written, versionSide
<1> QED
  BY <1>1, <1>4, <1>5, <1>6, <1>7 DEF ScriptInv

\* The report of a run, which ends it.
LEMMA RunReports ==
  ASSUME ScriptInv, NEW k \in ScriptKeys, run[k].at # "none",
         NEW status \in {"SUCCEEDED", "FAILED", "SUBMIT_UNKNOWN"},
         NEW outcome \in {"none", "NOT_SUBMITTED", "EXPLICIT_FAILURE", "RESPONSE_RECEIVED"},
         ReportScript(k, status, outcome),
         status = "SUCCEEDED" => run[k].at = "stored",
         status = "FAILED" /\ outcome \in {"none", "NOT_SUBMITTED"} => ~scriptJobs[k].paid,
         UNCHANGED <<brief, quota, reserved, request, versionSide>>
  PROVE  ScriptInv'
<1> DEFINE told == [scriptJobs[k] EXCEPT !.status = status, !.outcome = outcome]
           over == [run[k] EXCEPT !.at = "over"]
           job == IF scriptJobs[k].status = "RUNNING" THEN told ELSE scriptJobs[k]
<1>1. scriptJobs[k] \in ScriptJob /\ run[k] \in ScriptRun
      /\ JobIsTrue(k, scriptJobs[k], run[k].at)
  BY DEF ScriptInv, ScriptTypeOK, ScriptJob, ScriptRun
<1>2. /\ told \in ScriptJob /\ told.status = status /\ told.outcome = outcome
      /\ told.paid <=> scriptJobs[k].paid
      /\ told.external <=> scriptJobs[k].external
  BY <1>1 DEF ScriptJob
<1>3. over \in ScriptRun /\ over.at = "over"
  BY <1>1 DEF ScriptRun
<1>4. scriptJobs' = [scriptJobs EXCEPT ![k] = job] /\ run' = [run EXCEPT ![k] = over]
  BY DEF ReportScript, RunAdvances, RunGoes, ScriptInv, ScriptTypeOK
<1> HIDE DEF told, over
<1>5. JobIsTrue(k, job, over.at)
  BY <1>1, <1>2, <1>3 DEF JobIsTrue
<1>6. /\ job \in ScriptJob /\ scriptJobs[k].status # "none" /\ job.status # "none"
      /\ scriptJobs[k].paid => job.paid
  BY <1>1, <1>2 DEF JobIsTrue
<1> HIDE DEF job
<1> QED
  BY <1>3, <1>4, <1>5, <1>6, RunStep

\* A run goes on, and says nothing.
LEMMA RunGoesOn ==
  ASSUME ScriptInv, NEW k \in ScriptKeys, NEW r \in ScriptRun,
         run' = [run EXCEPT ![k] = r], UNCHANGED scriptJobs,
         run[k].at # "none", JobIsTrue(k, scriptJobs[k], r.at),
         UNCHANGED <<brief, quota, reserved, request, versionSide>>
  PROVE  ScriptInv'
<1>1. scriptJobs[k] \in ScriptJob /\ JobIsTrue(k, scriptJobs[k], run[k].at)
      /\ scriptJobs' = [scriptJobs EXCEPT ![k] = scriptJobs[k]]
  BY DEF ScriptInv, ScriptTypeOK, ScriptJob
<1>2. scriptJobs[k].status # "none"
  BY <1>1 DEF JobIsTrue
<1> QED
  BY <1>1, <1>2, RunStep

LEMMA RunActions ==
  ASSUME ScriptInv, NEW k \in ScriptKeys,
         \/ ClaimScript(k) \/ ExpireScript(k) \/ LoadReservation(k) \/ CountReservations(k)
         \/ CheckScript(k) \/ AnnounceScript(k) \/ CallForScript(k) \/ RefuseConnection(k)
         \/ RefuseAnswer(k) \/ SucceedScript(k) \/ RunDies(k) \/ ScriptLeaseEnds(k)
  PROVE  ScriptInv'
<1>1. scriptJobs[k] \in ScriptJob /\ run[k] \in ScriptRun /\ reserved \in Nat
      /\ JobIsTrue(k, scriptJobs[k], run[k].at)
  BY DEF ScriptInv, ScriptTypeOK, ScriptJob, ScriptRun
<1>2. UNCHANGED <<brief, quota, reserved, request, versionSide>>
  BY DEF ClaimScript, ExpireScript, LoadReservation, CountReservations, CheckScript,
         AnnounceScript, CallForScript, RefuseConnection, RefuseAnswer, SucceedScript,
         RunDies, ScriptLeaseEnds, queueSide
\* Where a run may go without a word.
<1>3. ASSUME NEW at \in {"counted", "ready", "over"}, RunAdvances(k, at), UNCHANGED scriptJobs,
             run[k].at # "none",
             at # "over" => run[k].at \in {"loaded", "counted"}
      PROVE  ScriptInv'
  <2> DEFINE r == [run[k] EXCEPT !.at = at]
  <2>1. r \in ScriptRun /\ r.at = at
    BY <1>1 DEF ScriptRun
  <2>2. run' = [run EXCEPT ![k] = r]
    BY <1>3 DEF RunAdvances, RunGoes
  <2> HIDE DEF r
  <2>3. JobIsTrue(k, scriptJobs[k], r.at)
    BY <1>1, <1>3, <2>1 DEF JobIsTrue
  <2> QED
    BY <1>2, <1>3, <2>1, <2>2, <2>3, RunGoesOn
\* A step that writes a job and moves its run.
<1>4. ASSUME NEW job \in ScriptJob, NEW at \in {"claimed", "announced", "answered"},
             scriptJobs' = [scriptJobs EXCEPT ![k] = job], RunAdvances(k, at),
             scriptJobs[k].status # "none", job.status # "none",
             scriptJobs[k].paid => job.paid,
             JobIsTrue(k, job, at)
      PROVE  ScriptInv'
  <2> DEFINE r == [run[k] EXCEPT !.at = at]
  <2>1. r \in ScriptRun /\ r.at = at
    BY <1>1 DEF ScriptRun
  <2>2. run' = [run EXCEPT ![k] = r]
    BY <1>4 DEF RunAdvances, RunGoes
  <2> HIDE DEF r
  <2> QED
    BY <1>2, <1>4, <2>1, <2>2, RunStep
<1>5. CASE ClaimScript(k)
  <2> DEFINE job == [scriptJobs[k] EXCEPT !.status = "RUNNING"]
  <2>1. /\ scriptJobs' = [scriptJobs EXCEPT ![k] = job]
        /\ RunAdvances(k, "claimed") /\ run[k].at = "none"
    BY <1>5 DEF ClaimScript, RunAt
  <2>2. /\ job \in ScriptJob /\ job.status = "RUNNING"
        /\ job.external <=> scriptJobs[k].external
        /\ job.paid <=> scriptJobs[k].paid
    BY <1>1 DEF ScriptJob
  <2> HIDE DEF job
  <2>3. JobIsTrue(k, job, "claimed") /\ scriptJobs[k].status # "none"
    BY <1>1, <1>5, <2>1, <2>2 DEF JobIsTrue, ClaimScript
  <2> QED
    BY <1>4, <2>1, <2>2, <2>3
<1>6. CASE ExpireScript(k)
  <2>1. run[k].at = "claimed" /\ ReportScript(k, "FAILED", "none")
    BY <1>6 DEF ExpireScript, RunAt
  <2>2. ~scriptJobs[k].paid
    BY <1>1, <2>1 DEF JobIsTrue
  <2> QED
    BY <1>2, <2>1, <2>2, RunReports
<1>7. CASE LoadReservation(k)
  <2> DEFINE r == [run[k] EXCEPT !.at = "loaded", !.seen = reserved]
  <2>1. r \in ScriptRun /\ r.at = "loaded"
    BY <1>1 DEF ScriptRun
  <2>2. run' = [run EXCEPT ![k] = r] /\ UNCHANGED scriptJobs /\ run[k].at = "claimed"
    BY <1>7 DEF LoadReservation, RunGoes, RunAt, queueSide
  <2> HIDE DEF r
  <2>3. JobIsTrue(k, scriptJobs[k], r.at)
    BY <1>1, <2>1, <2>2 DEF JobIsTrue
  <2> QED
    BY <1>2, <2>1, <2>2, <2>3, RunGoesOn
<1>8. CASE CountReservations(k)
  <2>1. run[k].at = "loaded"
        /\ \/ RunAdvances(k, "counted") /\ UNCHANGED scriptJobs
           \/ ReportScript(k, "FAILED", "none")
    BY <1>8 DEF CountReservations, RunAt
  <2>2. ~scriptJobs[k].paid
    BY <1>1, <2>1 DEF JobIsTrue
  <2> QED
    BY <1>2, <1>3, <2>1, <2>2, RunReports
<1>9. CASE CheckScript(k)
  <2>1. run[k].at = "counted"
        /\ \/ RunAdvances(k, "ready") /\ UNCHANGED scriptJobs
           \/ ReportScript(k, "FAILED", "none")
    BY <1>9 DEF CheckScript, RunAt
  <2>2. ~scriptJobs[k].paid
    BY <1>1, <2>1 DEF JobIsTrue
  <2> QED
    BY <1>2, <1>3, <2>1, <2>2, RunReports
<1>10. CASE AnnounceScript(k)
  <2>1. run[k].at = "ready" /\ ~scriptJobs[k].paid
    BY <1>1, <1>10 DEF AnnounceScript, RunAt, JobIsTrue
  <2>2. CASE scriptJobs[k].status = "RUNNING"
    <3> DEFINE job == [scriptJobs[k] EXCEPT !.external = TRUE]
    <3>1. /\ scriptJobs' = [scriptJobs EXCEPT ![k] = job] /\ RunAdvances(k, "announced")
      BY <1>10, <2>2 DEF AnnounceScript, Marked
    <3>2. /\ job \in ScriptJob /\ job.status = "RUNNING" /\ job.external = TRUE
          /\ job.paid <=> scriptJobs[k].paid
      BY <1>1, <2>2 DEF ScriptJob
    <3> HIDE DEF job
    <3>3. JobIsTrue(k, job, "announced")
      BY <2>1, <3>2 DEF JobIsTrue
    <3> QED
      BY <1>4, <2>2, <3>1, <3>2, <3>3
  <2>3. CASE scriptJobs[k].status # "RUNNING"
    BY <1>3, <1>10, <2>1, <2>3 DEF AnnounceScript
  <2> QED
    BY <2>2, <2>3
<1>11. CASE CallForScript(k)
  <2> DEFINE job == [scriptJobs[k] EXCEPT !.paid = TRUE]
  <2>1. /\ scriptJobs' = [scriptJobs EXCEPT ![k] = job] /\ RunAdvances(k, "answered")
        /\ run[k].at = "announced"
    BY <1>11 DEF CallForScript, RunAt
  <2>2. /\ job \in ScriptJob /\ job.status = scriptJobs[k].status /\ job.paid = TRUE
        /\ job.external <=> scriptJobs[k].external
    BY <1>1 DEF ScriptJob
  <2> HIDE DEF job
  <2>3. JobIsTrue(k, job, "answered") /\ job.status # "none"
    BY <1>1, <2>1, <2>2 DEF JobIsTrue
  <2> QED
    BY <1>4, <2>1, <2>2, <2>3
<1>12. CASE RefuseConnection(k)
  <2>1. run[k].at = "announced" /\ ReportScript(k, "FAILED", "NOT_SUBMITTED")
    BY <1>12 DEF RefuseConnection, RunAt
  <2>2. ~scriptJobs[k].paid
    BY <1>1, <2>1 DEF JobIsTrue
  <2> QED
    BY <1>2, <2>1, <2>2, RunReports
<1>13. CASE RefuseAnswer(k)
  <2>1. run[k].at = "answered"
    BY <1>13 DEF RefuseAnswer, RunAt
  <2>2. \/ ReportScript(k, "SUBMIT_UNKNOWN", "none")
        \/ ReportScript(k, "FAILED", "EXPLICIT_FAILURE")
        \/ ReportScript(k, "FAILED", "RESPONSE_RECEIVED")
    BY <1>13 DEF RefuseAnswer
  <2> QED
    BY <1>2, <2>1, <2>2, RunReports
<1>14. CASE SucceedScript(k)
  <2>1. run[k].at = "stored" /\ ReportScript(k, "SUCCEEDED", "none")
    BY <1>14 DEF SucceedScript, RunAt
  <2> QED
    BY <1>2, <2>1, RunReports
<1>15. CASE RunDies(k)
  BY <1>3, <1>15 DEF RunDies, queueSide
<1>16. CASE ScriptLeaseEnds(k)
  <2> DEFINE told == IF scriptJobs[k].external THEN "SUBMIT_UNKNOWN" ELSE "FAILED"
             job == [scriptJobs[k] EXCEPT !.status = told]
  <2>1. /\ scriptJobs' = [scriptJobs EXCEPT ![k] = job]
        /\ run' = [run EXCEPT ![k] = run[k]]
        /\ scriptJobs[k].status = "RUNNING"
    BY <1>16 DEF ScriptLeaseEnds, ScriptInv, ScriptTypeOK
  <2>2. /\ job \in ScriptJob /\ job.status = told
        /\ job.external <=> scriptJobs[k].external
        /\ job.paid <=> scriptJobs[k].paid
    BY <1>1 DEF ScriptJob
  <2> HIDE DEF job
  <2>3. JobIsTrue(k, job, run[k].at) /\ job.status # "none"
    BY <1>1, <2>1, <2>2 DEF JobIsTrue
  <2> QED
    BY <1>1, <1>2, <2>1, <2>2, <2>3, RunStep
<1> QED
  BY <1>5, <1>6, <1>7, <1>8, <1>9, <1>10, <1>11, <1>12, <1>13, <1>14, <1>15, <1>16

-----------------------------------------------------------------------------
(* The versions and the reservations *)

\* The counter gives the next number, the unique constraint lets a new key in.
LEMMA NumberedOn ==
  ASSUME Numbered, sequence \in Nat, NEW key, KeyFree(key), NEW generated \in BOOLEAN,
         sequence' = sequence + 1, active' = active, active \in Nat,
         versions' = versions \cup
           {[number |-> sequence + 1, key |-> key, generated |-> generated]}
  PROVE  Numbered'
<1> DEFINE row == [number |-> sequence + 1, key |-> key, generated |-> generated]
<1>1. row.number = sequence + 1 /\ row.key = key
  OBVIOUS
<1>2. versions' = versions \cup {row}
  OBVIOUS
<1> HIDE DEF row
<1>3. row \notin versions
  <2>1. \A v \in versions : v.number \in 1..sequence
    BY DEF Numbered
  <2> QED
    BY <1>1, <2>1
<1>4. IsFiniteSet(versions') /\ Cardinality(versions') = sequence'
  BY <1>2, <1>3, FS_AddElement DEF Numbered
<1>5. {v.number : v \in versions'} = {v.number : v \in versions} \cup {sequence + 1}
  BY <1>1, <1>2
<1>6. (1..sequence) \cup {sequence + 1} = 1..(sequence + 1)
  OBVIOUS
<1>7. \A v \in versions : v.key # key
  BY DEF KeyFree, VersionOf
<1>8. \A v, w \in versions' : v.key = w.key => v = w
  BY <1>1, <1>2, <1>7 DEF Numbered
<1> QED
  BY <1>4, <1>5, <1>6, <1>8 DEF Numbered

LEMMA StoreStep ==
  ASSUME ScriptInv, NEW k \in ScriptKeys, StoreScript(k)
  PROVE  ScriptInv'
<1> DEFINE r == [run[k] EXCEPT !.at = "stored"]
           row == [number |-> sequence + 1, key |-> k, generated |-> TRUE]
<1>1. /\ scriptJobs[k] \in ScriptJob /\ run[k] \in ScriptRun
      /\ JobIsTrue(k, scriptJobs[k], run[k].at)
      /\ sequence \in Nat /\ sequence + 1 \in 0..MaxVersions /\ active \in Nat
      /\ sequence + 1 \in 1..MaxVersions
  BY ScriptAssumption DEF ScriptInv, ScriptTypeOK, ScriptJob, ScriptRun, StoreScript
<1>2. /\ run[k].at = "answered" /\ KeyFree(k) /\ sequence' = sequence + 1
      /\ versions' = versions \cup {row}
      /\ run' = [run EXCEPT ![k] = r]
      /\ UNCHANGED <<brief, quota, reserved, scriptJobs, request, active, writer>>
  BY DEF StoreScript, RunAt, RunAdvances, RunGoes, queueSide
<1>3. r \in ScriptRun /\ r.at = "stored"
  BY <1>1 DEF ScriptRun
<1>4. row \in Version /\ row.key = k /\ row.generated = TRUE
  BY <1>1 DEF Version
<1>5. Numbered'
  BY <1>1, <1>2, NumberedOn DEF ScriptInv
<1> HIDE DEF r, row
<1>6. ScriptTypeOK'
  BY <1>1, <1>2, <1>3, <1>4 DEF ScriptInv, ScriptTypeOK, ScriptRun
<1>7. CallsCounted' /\ AskedKeys'
  BY <1>2 DEF ScriptInv, CallsCounted, JobsOfBatch, AskedKeys
<1>8. WrittenAsPaid'
  BY <1>1, <1>2, <1>4 DEF ScriptInv, WrittenAsPaid, JobIsTrue
<1>9. \A j \in ScriptKeys : Written(j) => Written(j)'
  BY <1>2 DEF Written
<1>10. Written(k)'
  BY <1>2, <1>4 DEF Written
<1>11. ASSUME NEW j \in ScriptKeys PROVE JobIsTrue(j, scriptJobs[j], run[j].at)'
  <2>1. JobIsTrue(j, scriptJobs[j], run[j].at) /\ scriptJobs'[j] = scriptJobs[j]
    BY <1>2 DEF ScriptInv
  <2>2. run'[j] = IF j = k THEN r ELSE run[j]
    BY <1>2 DEF ScriptInv, ScriptTypeOK
  <2> QED
    BY <1>1, <1>2, <1>3, <1>9, <1>10, <2>1, <2>2 DEF JobIsTrue, Written
<1> QED
  BY <1>5, <1>6, <1>7, <1>8, <1>11 DEF ScriptInv

\* The reservation and the job it is for come in one transaction.
LEMMA ReserveStep ==
  ASSUME ScriptInv, NEW q \in Requests, ReserveAndCreate(q)
  PROVE  ScriptInv'
<1> DEFINE k == request[q].key
           job == [NoJob EXCEPT !.status = "QUEUED", !.draft = request[q].draft]
<1>1. /\ k \in ScriptKeys /\ request[q].draft \in 0..MaxEdits
      /\ reserved \in Nat /\ quota \in Nat /\ 0 \in 0..MaxEdits
  BY ScriptAssumption DEF ScriptInv, ScriptTypeOK, AskedKeys, ReserveAndCreate
<1>2. IdleRequest \in [at : {"idle", "checked"}, key : ScriptKeys \cup {"none"},
                       draft : 0..MaxEdits]
      /\ IdleRequest.at = "idle"
  BY <1>1 DEF IdleRequest
<1>3. request' = [request EXCEPT ![q] = IdleRequest]
      /\ UNCHANGED <<brief, quota, run, sequence, versions, active, writer>>
  BY DEF ReserveAndCreate, RequestGoes, versionSide
<1>4. AskedKeys' /\ Numbered'
  BY <1>2, <1>3 DEF ScriptInv, ScriptTypeOK, AskedKeys, Numbered
<1>5. CASE MayReserve /\ scriptJobs[k].status = "none"
  <2>1. reserved' = reserved + 1 /\ scriptJobs' = [scriptJobs EXCEPT ![k] = job]
    BY <1>5 DEF ReserveAndCreate
  <2>2. /\ job \in ScriptJob /\ job.status = "QUEUED" /\ job.paid = FALSE
        /\ job.external = FALSE
    BY <1>1 DEF NoJob, ScriptJob
  <2> HIDE DEF job
  <2>3. ScriptTypeOK'
    BY <1>1, <1>2, <1>3, <2>1, <2>2 DEF ScriptInv, ScriptTypeOK, ScriptJob
  <2>4. /\ scriptJobs'[k] = job
        /\ \A j \in ScriptKeys : j # k => scriptJobs'[j] = scriptJobs[j]
    BY <1>1, <2>1 DEF ScriptInv, ScriptTypeOK
  <2> HIDE DEF k
  <2>5. JobsOfBatch' = JobsOfBatch \cup {k} /\ k \notin JobsOfBatch
    BY <1>1, <1>5, <2>2, <2>4 DEF JobsOfBatch
  <2>6. IsFiniteSet(JobsOfBatch') /\ Cardinality(JobsOfBatch') = reserved + 1
    BY <2>5, FS_AddElement DEF ScriptInv, CallsCounted
  <2>7. CallsCounted'
    BY <1>1, <1>3, <1>5, <2>1, <2>6 DEF CallsCounted, MayReserve
  <2>8. JobIsTrue(k, scriptJobs[k], run[k].at)
    BY <1>1 DEF ScriptInv
  <2>9. WrittenAsPaid'
    BY <1>3, <1>5, <2>4, <2>8 DEF ScriptInv, WrittenAsPaid, JobIsTrue
  <2>10. ASSUME NEW j \in ScriptKeys PROVE JobIsTrue(j, scriptJobs[j], run[j].at)'
    <3>1. JobIsTrue(j, scriptJobs[j], run[j].at) /\ run'[j] = run[j]
      BY <1>3 DEF ScriptInv
    <3> QED
      BY <1>3, <1>5, <2>2, <2>4, <3>1 DEF JobIsTrue, Written
  <2> QED
    BY <1>4, <2>3, <2>7, <2>9, <2>10 DEF ScriptInv
<1>6. CASE ~(MayReserve /\ scriptJobs[k].status = "none")
  <2>1. UNCHANGED <<reserved, scriptJobs>>
    BY <1>6 DEF ReserveAndCreate
  <2>2. ScriptTypeOK'
    BY <1>2, <1>3, <2>1 DEF ScriptInv, ScriptTypeOK
  <2>3. CallsCounted' /\ WrittenAsPaid'
    BY <1>3, <2>1 DEF ScriptInv, CallsCounted, JobsOfBatch, WrittenAsPaid
  <2>4. \A j \in ScriptKeys : JobIsTrue(j, scriptJobs[j], run[j].at)'
    BY <1>3, <2>1 DEF ScriptInv, JobIsTrue, Written
  <2> QED
    BY <1>4, <2>2, <2>3, <2>4 DEF ScriptInv
<1> QED
  BY <1>5, <1>6

LEMMA WriteStep ==
  ASSUME ScriptInv, NEW e \in Writers, WriteVersion(e)
  PROVE  ScriptInv'
<1>1. /\ writer[e].key \in WriterKeys /\ sequence \in Nat /\ active \in Nat
      /\ sequence + 1 \in 0..MaxVersions /\ sequence + 1 \in 1..MaxVersions
  BY ScriptAssumption DEF ScriptInv, ScriptTypeOK, AskedKeys, WriteVersion
<1>2. IdleWriter \in [at : {"idle", "insert"}, key : WriterKeys \cup {"none"}]
      /\ IdleWriter.at = "idle"
  BY DEF IdleWriter
<1>3. writer' = [writer EXCEPT ![e] = IdleWriter]
      /\ UNCHANGED <<brief, quota, reserved, scriptJobs, request, run, active>>
  BY DEF WriteVersion, WriterGoes, queueSide
<1>4. AskedKeys' /\ CallsCounted'
  BY <1>2, <1>3 DEF ScriptInv, ScriptTypeOK, AskedKeys, CallsCounted, JobsOfBatch
<1>5. CASE KeyFree(writer[e].key)
  <2> DEFINE row == [number |-> sequence + 1, key |-> writer[e].key, generated |-> FALSE]
  <2>1. sequence' = sequence + 1 /\ versions' = versions \cup {row}
    BY <1>5 DEF WriteVersion
  <2>2. row \in Version /\ row.generated = FALSE
    BY <1>1 DEF Version
  <2>3. Numbered'
    BY <1>1, <1>3, <1>5, <2>1, NumberedOn DEF ScriptInv
  <2> HIDE DEF row
  <2>4. ScriptTypeOK'
    BY <1>1, <1>2, <1>3, <2>1, <2>2 DEF ScriptInv, ScriptTypeOK
  <2>5. WrittenAsPaid'
    BY <1>3, <2>1, <2>2 DEF ScriptInv, WrittenAsPaid
  <2>6. \A j \in ScriptKeys : JobIsTrue(j, scriptJobs[j], run[j].at)'
    BY <1>3, <2>1 DEF ScriptInv, JobIsTrue, Written
  <2> QED
    BY <1>4, <2>3, <2>4, <2>5, <2>6 DEF ScriptInv
<1>6. CASE ~KeyFree(writer[e].key)
  <2>1. UNCHANGED <<sequence, versions>>
    BY <1>6 DEF WriteVersion
  <2>2. ScriptTypeOK'
    BY <1>2, <1>3, <2>1 DEF ScriptInv, ScriptTypeOK
  <2>3. Numbered' /\ WrittenAsPaid'
    BY <1>3, <2>1 DEF ScriptInv, Numbered, WrittenAsPaid
  <2>4. \A j \in ScriptKeys : JobIsTrue(j, scriptJobs[j], run[j].at)'
    BY <1>3, <2>1 DEF ScriptInv, JobIsTrue, Written
  <2> QED
    BY <1>4, <2>2, <2>3, <2>4 DEF ScriptInv
<1> QED
  BY <1>5, <1>6

\* Steps that touch neither a job nor a version.
LEMMA AsideStep ==
  ASSUME ScriptInv, UNCHANGED <<quota, reserved, scriptJobs, run, sequence, versions>>,
         ScriptTypeOK', AskedKeys', active' <= sequence
  PROVE  ScriptInv'
<1>1. CallsCounted' /\ Numbered' /\ WrittenAsPaid'
  BY DEF ScriptInv, CallsCounted, JobsOfBatch, Numbered, WrittenAsPaid
<1>2. \A j \in ScriptKeys : JobIsTrue(j, scriptJobs[j], run[j].at)'
  BY DEF ScriptInv, JobIsTrue, Written
<1> QED
  BY <1>1, <1>2 DEF ScriptInv

LEMMA AsideActions ==
  ASSUME ScriptInv,
         \/ EditBrief \/ ActivateVersion
         \/ \E q \in Requests : CheckRequest(q) \/ LeaveRequest(q)
         \/ \E e \in Writers : ReadWriterKey(e)
  PROVE  ScriptInv'
<1>1. ScriptTypeOK /\ AskedKeys /\ active <= sequence
  BY DEF ScriptInv, Numbered
<1>2. UNCHANGED <<quota, reserved, scriptJobs, run, sequence, versions>>
  BY DEF EditBrief, ActivateVersion, CheckRequest, LeaveRequest, ReadWriterKey, queueSide,
         versionSide
<1>3. CASE EditBrief
  <2>1. brief' \in 0..MaxEdits
    BY <1>1, <1>3, ScriptAssumption DEF EditBrief, ScriptTypeOK
  <2>2. UNCHANGED <<active, request, writer>>
    BY <1>3 DEF EditBrief, queueSide, versionSide
  <2>3. ScriptTypeOK'
    BY <1>1, <1>2, <2>1, <2>2 DEF ScriptTypeOK
  <2>4. AskedKeys'
    BY <1>1, <2>2 DEF AskedKeys
  <2> QED
    BY <1>1, <1>2, <2>2, <2>3, <2>4, AsideStep
<1>4. CASE ActivateVersion
  <2>1. PICK v \in versions : active' = v.number
    BY <1>4 DEF ActivateVersion
  <2>2. UNCHANGED <<brief, request, writer>>
    BY <1>4 DEF ActivateVersion, queueSide
  <2>3. v.number \in 1..sequence /\ sequence \in 0..MaxVersions
    BY DEF ScriptInv, Numbered, ScriptTypeOK
  <2>4. active' \in 0..MaxVersions /\ active' <= sequence
    BY <2>1, <2>3, ScriptAssumption
  <2>5. ScriptTypeOK'
    BY <1>1, <1>2, <2>2, <2>4 DEF ScriptTypeOK
  <2>6. AskedKeys'
    BY <1>1, <2>2 DEF AskedKeys
  <2> QED
    BY <1>2, <2>4, <2>5, <2>6, AsideStep
<1>5. ASSUME NEW q \in Requests, CheckRequest(q) \/ LeaveRequest(q) PROVE ScriptInv'
  <2> DEFINE checked(k) == [at |-> "checked", key |-> k, draft |-> brief]
             Asked == [at : {"idle", "checked"}, key : ScriptKeys \cup {"none"},
                       draft : 0..MaxEdits]
  <2>1. \/ \E k \in ScriptKeys : request' = [request EXCEPT ![q] = checked(k)]
        \/ request' = [request EXCEPT ![q] = IdleRequest]
    BY <1>5 DEF CheckRequest, LeaveRequest, RequestGoes
  <2>2. \A k \in ScriptKeys :
          checked(k) \in Asked /\ checked(k).at = "checked" /\ checked(k).key = k
    BY <1>1 DEF ScriptTypeOK
  <2>3. IdleRequest \in Asked /\ IdleRequest.at = "idle"
    <3>1. 0 \in 0..MaxEdits
      BY ScriptAssumption
    <3> QED
      BY <3>1 DEF IdleRequest
  <2> HIDE DEF checked
  <2>4. UNCHANGED <<brief, active, writer>>
    BY <1>5 DEF CheckRequest, LeaveRequest, versionSide
  <2>5. ScriptTypeOK'
    BY <1>1, <1>2, <2>1, <2>2, <2>3, <2>4 DEF ScriptTypeOK
  <2>6. \A p \in Requests : p # q => request'[p] = request[p]
    BY <1>1, <2>1 DEF ScriptTypeOK
  <2>7. request'[q].at = "checked" => request'[q].key \in ScriptKeys
    <3>1. CASE request' = [request EXCEPT ![q] = IdleRequest]
      BY <1>1, <2>3, <3>1 DEF ScriptTypeOK
    <3>2. ASSUME NEW k \in ScriptKeys, request' = [request EXCEPT ![q] = checked(k)]
          PROVE  request'[q].key \in ScriptKeys
      BY <1>1, <2>2, <3>2 DEF ScriptTypeOK
    <3> QED
      BY <2>1, <3>1, <3>2
  <2>8. AskedKeys'
    BY <1>1, <2>4, <2>6, <2>7 DEF AskedKeys
  <2> QED
    BY <1>1, <1>2, <2>4, <2>5, <2>8, AsideStep
<1>6. ASSUME NEW e \in Writers, ReadWriterKey(e) PROVE ScriptInv'
  <2>1. PICK key \in WriterKeys :
          writer' = [writer EXCEPT ![e] = [at |-> "insert", key |-> key]]
    BY <1>6 DEF ReadWriterKey, WriterGoes
  <2> DEFINE row == [at |-> "insert", key |-> key]
  <2>2. row \in [at : {"idle", "insert"}, key : WriterKeys \cup {"none"}] /\ row.key = key
    OBVIOUS
  <2>3. writer' = [writer EXCEPT ![e] = row]
    BY <2>1
  <2> HIDE DEF row
  <2>4. UNCHANGED <<brief, active, request>>
    BY <1>6 DEF ReadWriterKey, queueSide
  <2>5. ScriptTypeOK'
    BY <1>1, <1>2, <2>2, <2>3, <2>4 DEF ScriptTypeOK
  <2>6. \A d \in Writers : writer'[d] = IF d = e THEN row ELSE writer[d]
    BY <1>1, <2>3 DEF ScriptTypeOK
  <2>7. AskedKeys'
    BY <1>1, <2>2, <2>4, <2>6 DEF AskedKeys
  <2> QED
    BY <1>1, <1>2, <2>4, <2>5, <2>7, AsideStep
<1> QED
  BY <1>3, <1>4, <1>5, <1>6

LEMMA ScriptStep == ScriptInv /\ [ScriptNext]_scriptVars => ScriptInv'
<1> SUFFICES ASSUME ScriptInv, [ScriptNext]_scriptVars PROVE ScriptInv'
  OBVIOUS
<1>1. CASE \/ EditBrief \/ ActivateVersion
           \/ \E q \in Requests : CheckRequest(q) \/ LeaveRequest(q)
           \/ \E e \in Writers : ReadWriterKey(e)
  BY <1>1, AsideActions
<1>2. ASSUME NEW q \in Requests, ReserveAndCreate(q) PROVE ScriptInv'
  BY <1>2, ReserveStep
<1>3. ASSUME NEW k \in ScriptKeys, StoreScript(k) PROVE ScriptInv'
  BY <1>3, StoreStep
<1>4. ASSUME NEW k \in ScriptKeys,
         \/ ClaimScript(k) \/ ExpireScript(k) \/ LoadReservation(k) \/ CountReservations(k)
         \/ CheckScript(k) \/ AnnounceScript(k) \/ CallForScript(k) \/ RefuseConnection(k)
         \/ RefuseAnswer(k) \/ SucceedScript(k) \/ RunDies(k) \/ ScriptLeaseEnds(k)
      PROVE  ScriptInv'
  BY <1>4, RunActions
<1>5. ASSUME NEW e \in Writers, WriteVersion(e) PROVE ScriptInv'
  BY <1>5, WriteStep
<1>6. CASE UNCHANGED scriptVars
  <2>1. ScriptTypeOK' /\ AskedKeys'
    BY <1>6 DEF ScriptInv, scriptVars, ScriptTypeOK, AskedKeys
  <2>2. active <= sequence
    BY DEF ScriptInv, Numbered
  <2> QED
    BY <1>6, <2>1, <2>2, AsideStep DEF scriptVars
<1> QED
  BY <1>1, <1>2, <1>3, <1>4, <1>5, <1>6 DEF ScriptNext

\* Reservations, runs and versions agree with one another in every state.
THEOREM ScriptInvariance == ScriptSpec => []ScriptInv
  BY ScriptStarts, ScriptStep, PTL DEF ScriptSpec

\* No interleaving of requests and runs spends a call that was not reserved, and no
\* reservation goes beyond the quota.
THEOREM CallsStayReserved == ScriptSpec => []CallsAreReserved
<1>1. ScriptInv => CallsAreReserved
  <2> SUFFICES ASSUME ScriptInv PROVE CallsAreReserved
    OBVIOUS
  <2> DEFINE paid == {k \in ScriptKeys : scriptJobs[k].paid}
  <2>1. paid \in SUBSET JobsOfBatch
    BY DEF ScriptInv, JobIsTrue, JobsOfBatch
  <2>2. Cardinality(paid) <= Cardinality(JobsOfBatch)
    BY <2>1, FS_Subset DEF ScriptInv, CallsCounted
  <2> QED
    BY <2>2 DEF ScriptInv, CallsCounted, CallsAreReserved
<1> QED
  BY <1>1, ScriptInvariance, PTL

\* Editors and runs that save at once leave a history without gap or double, and what
\* Qwen wrote in it was paid for.
THEOREM ScriptsKeepAHistory == ScriptSpec => []ScriptHistoryIsWhole
<1>1. ScriptInv => ScriptHistoryIsWhole
  BY DEF ScriptInv, Numbered, WrittenAsPaid, ScriptHistoryIsWhole
<1> QED
  BY <1>1, ScriptInvariance, PTL

\* What the queue says of a script job is true.
THEOREM ScriptReportsHold == ScriptSpec => []ScriptReportsAreTrue
<1>1. ScriptInv => ScriptReportsAreTrue
  BY DEF ScriptInv, JobIsTrue, Written, VersionOf, ScriptReportsAreTrue
<1> QED
  BY <1>1, ScriptInvariance, PTL

-----------------------------------------------------------------------------
(***************************************************************************)
(* Batch video jobs                                                        *)
(***************************************************************************)

\* What the CHECK constraints of the two tables hold in every state, a SUCCEEDED job
\* that has its result, a variant that was stored before its job is reported, and
\* controls that loaded no ended job.
RowsAreAllowed ==
  \A v \in Variants :
    /\ prepareJob[v].leased <=> prepareJob[v].status = "RUNNING"
    /\ prepareJob[v].result <=> prepareJob[v].status = "SUCCEEDED"
    /\ VariantAllowed(variant[v])
    /\ prepareJob[v].status = "SUCCEEDED" \/ prepare[v] = "succeeded" => variant[v].result
NoneLoadedEnded == \A c \in Controllers : control[c].ended = {}

BatchInv == BatchTypeOK /\ RowsAreAllowed /\ NoneLoadedEnded

LEMMA BatchStarts == BatchInit => BatchInv
<1> SUFFICES ASSUME BatchInit PROVE BatchInv
  OBVIOUS
<1>1. NewJob \in PrepareRow /\ NewVariant \in VariantRow /\ NoControl \in Control
  BY DEF NewJob, NewVariant, NoControl, PrepareRow, VariantRow, Control, PrepareStatuses,
         VariantStatuses, Actions
<1>2. BatchTypeOK
  BY <1>1 DEF BatchInit, BatchTypeOK
<1>3. RowsAreAllowed
  BY DEF BatchInit, RowsAreAllowed, NewJob, NewVariant, VariantAllowed
<1>4. NoneLoadedEnded
  BY DEF BatchInit, NoneLoadedEnded, NoControl
<1> QED
  BY <1>2, <1>3, <1>4 DEF BatchInv

\* A control loads no ended job: it acts on none.
LEMMA LoadKeeps ==
  ASSUME BatchInv, NEW c \in Controllers, NEW action \in Actions,
         NEW scope \in SUBSET Variants, NEW withVariants \in BOOLEAN,
         Loads(c, action, scope, withVariants)
  PROVE  BatchInv'
<1> DEFINE jobs == {v \in scope : prepareJob[v].status \in ActsOn(action)}
           loaded ==
             [action |-> action, jobs |-> jobs,
              variants |-> {v \in jobs : withVariants
                                         /\ variant[v].status # VariantBecomes(action)},
              ended |-> {v \in jobs : prepareJob[v].status \in Ended}]
<1>1. control' = [control EXCEPT ![c] = loaded]
      /\ UNCHANGED <<batch, variant, prepareJob, prepare>>
  BY DEF Loads
<1>2. loaded \in Control
  BY DEF Control
<1>3. loaded.ended = {}
  BY DEF ActsOn, Ended, Actions
<1> HIDE DEF loaded
<1>4. BatchTypeOK'
  BY <1>1, <1>2 DEF BatchInv, BatchTypeOK
<1>5. RowsAreAllowed'
  BY <1>1 DEF BatchInv, RowsAreAllowed, VariantAllowed
<1>6. NoneLoadedEnded'
  BY <1>1, <1>3 DEF BatchInv, BatchTypeOK, NoneLoadedEnded
<1> QED
  BY <1>4, <1>5, <1>6 DEF BatchInv

\* A flush writes statuses only, and rows the constraints allow.
LEMMA FlushKeeps ==
  ASSUME BatchInv, NEW c \in Controllers, FlushControl(c)
  PROVE  BatchInv'
<1>1. control[c] \in Control /\ \A v \in Variants : /\ prepareJob[v] \in PrepareRow
                                                    /\ variant[v] \in VariantRow
  BY DEF BatchInv, BatchTypeOK
<1>2. \A v \in Variants :
        /\ FlushedJob(c, v) \in PrepareRow
        /\ FlushedJob(c, v).leased = prepareJob[v].leased
        /\ FlushedJob(c, v).result = prepareJob[v].result
        /\ FlushedVariant(c, v) \in VariantRow
        /\ FlushedVariant(c, v).result = variant[v].result
  BY <1>1 DEF FlushedJob, FlushedVariant, Control, PrepareRow, VariantRow, PrepareStatuses,
              VariantStatuses, JobBecomes, VariantBecomes, Actions
<1>3. \A v \in Variants : JobAllowed(FlushedJob(c, v)) /\ VariantAllowed(FlushedVariant(c, v))
  BY DEF FlushControl
<1>4. /\ prepareJob' = [v \in Variants |-> FlushedJob(c, v)]
      /\ variant' = [v \in Variants |-> FlushedVariant(c, v)]
      /\ control' = [control EXCEPT ![c] = NoControl]
      /\ UNCHANGED <<batch, prepare>>
  BY DEF FlushControl
<1>5. BatchTypeOK'
  <2>1. NoControl \in Control
    BY DEF NoControl, Control, Actions
  <2> QED
    BY <1>2, <1>4, <2>1 DEF BatchInv, BatchTypeOK
<1>6. RowsAreAllowed'
  <2> SUFFICES ASSUME NEW v \in Variants
               PROVE  /\ prepareJob'[v].leased <=> prepareJob'[v].status = "RUNNING"
                      /\ prepareJob'[v].result <=> prepareJob'[v].status = "SUCCEEDED"
                      /\ VariantAllowed(variant'[v])
                      /\ prepareJob'[v].status = "SUCCEEDED" \/ prepare'[v] = "succeeded"
                           => variant'[v].result
    BY DEF RowsAreAllowed, VariantAllowed
  <2>1. prepareJob'[v] = FlushedJob(c, v) /\ variant'[v] = FlushedVariant(c, v)
    BY <1>4
  <2>2. FlushedJob(c, v).result => FlushedJob(c, v).status = "SUCCEEDED"
    BY <1>3 DEF JobAllowed
  <2>3. FlushedJob(c, v).status = "SUCCEEDED" => prepareJob[v].status = "SUCCEEDED"
    BY <1>1 DEF FlushedJob, Control, JobBecomes, Actions, PrepareRow
  <2> QED
    BY <1>2, <1>3, <1>4, <2>1, <2>2, <2>3 DEF BatchInv, RowsAreAllowed, JobAllowed
<1>7. NoneLoadedEnded'
  BY <1>4 DEF BatchInv, BatchTypeOK, NoneLoadedEnded, NoControl
<1> QED
  BY <1>5, <1>6, <1>7 DEF BatchInv

LEMMA WorkKeeps ==
  ASSUME BatchInv, NEW v \in Variants,
         \/ ClaimPrepare(v) \/ PrepareLeaseEnds(v) \/ LoadVariant(v)
         \/ PrepareVariant(v) \/ ReportPrepared(v) \/ PrepareDies(v)
  PROVE  BatchInv'
<1> DEFINE claimed == [prepareJob[v] EXCEPT !.status = "RUNNING", !.leased = TRUE,
                                            !.attempts = 1]
           over(status) == [prepareJob[v] EXCEPT !.status = status, !.leased = FALSE,
                                                 !.result = (status = "SUCCEEDED")]
           made == [status |-> "READY_FOR_SCRIPT", result |-> TRUE]
<1>1. prepareJob[v] \in PrepareRow
  BY DEF BatchInv, BatchTypeOK
<1>2. /\ claimed \in PrepareRow /\ claimed.status = "RUNNING" /\ claimed.leased = TRUE
      /\ claimed.result <=> prepareJob[v].result
  <2>1. claimed \in PrepareRow
    <3>1. 1 \in 0..1
      OBVIOUS
    <3> QED
      BY <1>1, <3>1 DEF PrepareRow, PrepareStatuses
  <2>2. claimed.status = "RUNNING"
    BY <1>1 DEF PrepareRow
  <2>3. claimed.leased = TRUE
    BY <1>1 DEF PrepareRow
  <2>4. claimed.result <=> prepareJob[v].result
    BY <1>1 DEF PrepareRow
  <2> QED
    BY <2>1, <2>2, <2>3, <2>4
<1>3. \A status \in {"SUCCEEDED", "FAILED"} :
        /\ over(status) \in PrepareRow /\ over(status).status = status
        /\ over(status).leased = FALSE
        /\ over(status).result = (status = "SUCCEEDED")
  BY <1>1 DEF PrepareRow, PrepareStatuses
<1>4. made \in VariantRow /\ made.result = TRUE /\ VariantAllowed(made)
  BY DEF VariantRow, VariantStatuses, VariantAllowed
<1>5. UNCHANGED <<batch, control>>
  BY DEF ClaimPrepare, PrepareLeaseEnds, LoadVariant, PrepareVariant, ReportPrepared,
         PrepareDies
<1>6. NoneLoadedEnded'
  BY <1>5 DEF BatchInv, NoneLoadedEnded
<1>7. CASE ClaimPrepare(v)
  <2>1. /\ prepareJob[v].status = "QUEUED"
        /\ prepareJob' = [prepareJob EXCEPT ![v] = claimed]
        /\ prepare' = [prepare EXCEPT ![v] = "load"] /\ variant' = variant
    BY <1>7 DEF ClaimPrepare
  <2> HIDE DEF claimed
  <2>2. BatchTypeOK'
    BY <1>2, <1>5, <2>1 DEF BatchInv, BatchTypeOK
  <2>3. RowsAreAllowed'
    BY <1>2, <2>1 DEF BatchInv, BatchTypeOK, RowsAreAllowed, VariantAllowed
  <2> QED
    BY <1>6, <2>2, <2>3 DEF BatchInv
<1>8. ASSUME NEW status \in {"SUCCEEDED", "FAILED"}, Ends(v, status),
             prepareJob[v].status = "RUNNING",
             status = "SUCCEEDED" => variant[v].result,
             prepare' = prepare \/ prepare' = [prepare EXCEPT ![v] = "none"],
             variant' = variant
      PROVE  BatchInv'
  <2>1. prepareJob' = [prepareJob EXCEPT ![v] = over(status)]
    BY <1>8 DEF Ends
  <2> HIDE DEF over
  <2>2. BatchTypeOK'
    BY <1>3, <1>5, <1>8, <2>1 DEF BatchInv, BatchTypeOK
  <2>3. RowsAreAllowed'
    BY <1>3, <1>8, <2>1 DEF BatchInv, BatchTypeOK, RowsAreAllowed, VariantAllowed
  <2> QED
    BY <1>6, <2>2, <2>3 DEF BatchInv
<1>9. CASE PrepareLeaseEnds(v)
  BY <1>8, <1>9 DEF PrepareLeaseEnds
<1>10. ASSUME UNCHANGED <<variant, prepareJob>>,
              NEW at \in {"none", "write", "failed"}, prepare' = [prepare EXCEPT ![v] = at]
       PROVE  BatchInv'
  <2>1. BatchTypeOK'
    BY <1>5, <1>10 DEF BatchInv, BatchTypeOK
  <2>2. RowsAreAllowed'
    BY <1>10 DEF BatchInv, BatchTypeOK, RowsAreAllowed, VariantAllowed
  <2> QED
    BY <1>6, <2>1, <2>2 DEF BatchInv
<1>11. CASE LoadVariant(v) \/ PrepareDies(v)
  BY <1>10, <1>11 DEF LoadVariant, PrepareDies
<1>12. CASE PrepareVariant(v)
  <2>1. CASE variant' = variant /\ prepare' = [prepare EXCEPT ![v] = "failed"]
    BY <1>10, <1>12, <2>1 DEF PrepareVariant
  <2>2. CASE variant' = Ready(v) /\ prepare' = [prepare EXCEPT ![v] = "succeeded"]
    <3>1. variant' = [variant EXCEPT ![v] = made] /\ prepareJob' = prepareJob
      BY <1>12, <2>2 DEF PrepareVariant, Ready
    <3> HIDE DEF made
    <3>2. BatchTypeOK'
      BY <1>4, <1>5, <2>2, <3>1 DEF BatchInv, BatchTypeOK
    <3>3. RowsAreAllowed'
      BY <1>4, <2>2, <3>1 DEF BatchInv, BatchTypeOK, RowsAreAllowed, VariantAllowed
    <3> QED
      BY <1>6, <3>2, <3>3 DEF BatchInv
  <2> QED
    BY <1>12, <2>1, <2>2 DEF PrepareVariant
<1>13. CASE ReportPrepared(v)
  <2>1. CASE prepareJob[v].status = "RUNNING"
    <3> DEFINE status == IF prepare[v] = "succeeded" THEN "SUCCEEDED" ELSE "FAILED"
    <3>1. Ends(v, status) /\ prepare' = [prepare EXCEPT ![v] = "none"] /\ variant' = variant
      BY <1>13, <2>1 DEF ReportPrepared
    <3>2. status = "SUCCEEDED" => variant[v].result
      BY DEF BatchInv, RowsAreAllowed
    <3>3. status \in {"SUCCEEDED", "FAILED"}
      OBVIOUS
    <3> HIDE DEF status
    <3> QED
      BY <1>8, <2>1, <3>1, <3>2, <3>3
  <2>2. CASE prepareJob[v].status # "RUNNING"
    BY <1>10, <1>13, <2>2 DEF ReportPrepared
  <2> QED
    BY <2>1, <2>2
<1> QED
  BY <1>7, <1>9, <1>11, <1>12, <1>13

LEMMA BatchStep == BatchInv /\ [BatchNext]_batchVars => BatchInv'
<1> SUFFICES ASSUME BatchInv, [BatchNext]_batchVars PROVE BatchInv'
  OBVIOUS
<1>1. CASE CreateBatch
  BY <1>1 DEF CreateBatch, BatchInv, BatchTypeOK, RowsAreAllowed, VariantAllowed,
              NoneLoadedEnded
<1>2. ASSUME NEW c \in Controllers, FlushControl(c) PROVE BatchInv'
  BY <1>2, FlushKeeps
<1>3. ASSUME NEW c \in Controllers, RollBackControl(c) PROVE BatchInv'
  <2>1. NoControl \in Control /\ NoControl.ended = {}
    BY DEF NoControl, Control, Actions
  <2>2. control' = [control EXCEPT ![c] = NoControl]
        /\ UNCHANGED <<batch, variant, prepareJob, prepare>>
    BY <1>3 DEF RollBackControl
  <2> QED
    BY <2>1, <2>2 DEF BatchInv, BatchTypeOK, RowsAreAllowed, VariantAllowed,
                      NoneLoadedEnded
<1>4. ASSUME NEW c \in Controllers, NEW action \in Actions, LoadBatch(c, action)
      PROVE  BatchInv'
  BY <1>4, LoadKeeps DEF LoadBatch
<1>5. ASSUME NEW c \in Controllers, NEW action \in Actions, NEW v \in Variants,
             LoadJob(c, action, v)
      PROVE  BatchInv'
  BY <1>5, LoadKeeps DEF LoadJob
<1>6. ASSUME NEW v \in Variants,
             \/ ClaimPrepare(v) \/ PrepareLeaseEnds(v) \/ LoadVariant(v)
             \/ PrepareVariant(v) \/ ReportPrepared(v) \/ PrepareDies(v)
      PROVE  BatchInv'
  BY <1>6, WorkKeeps
<1>7. CASE UNCHANGED batchVars
  BY <1>7 DEF batchVars, BatchInv, BatchTypeOK, RowsAreAllowed, VariantAllowed,
              NoneLoadedEnded
<1> QED
  BY <1>1, <1>2, <1>3, <1>4, <1>5, <1>6, <1>7 DEF BatchNext

\* Every row of a batch is one the constraints of its table allow, and each job is told
\* about its variant, in every state of creation, control and preparation.
THEOREM BatchInvariance == BatchSpec => []BatchInv
  BY BatchStarts, BatchStep, PTL DEF BatchSpec

\* A running job is leased, so no late control can write another status to it.
THEOREM ControlsLeaveRunningJobs == BatchSpec => RunningJobIsLeftAlone
<1> DEFINE LeftAlone ==
             \A v \in Variants :
               prepareJob[v].status = "RUNNING" /\ prepareJob'[v] # prepareJob[v] =>
                 prepareJob'[v].status \in {"SUCCEEDED", "FAILED"}
<1>1. ASSUME BatchInv, [BatchNext]_batchVars
      PROVE  LeftAlone
  <2> SUFFICES ASSUME NEW v \in Variants, prepareJob[v].status = "RUNNING",
                      prepareJob'[v] # prepareJob[v]
               PROVE  prepareJob'[v].status \in {"SUCCEEDED", "FAILED"}
    OBVIOUS
  <2>1. prepareJob \in [Variants -> PrepareRow] /\ control \in [Controllers -> Control]
        /\ prepareJob[v].leased
    BY <1>1 DEF BatchInv, BatchTypeOK, RowsAreAllowed
  <2>2. ASSUME NEW c \in Controllers, FlushControl(c) PROVE FALSE
    <3>1. JobAllowed(FlushedJob(c, v)) /\ prepareJob'[v] = FlushedJob(c, v)
      BY <2>2 DEF FlushControl
    <3>2. v \in control[c].jobs
          /\ FlushedJob(c, v) = [prepareJob[v] EXCEPT !.status = JobBecomes(control[c].action)]
      BY <3>1 DEF FlushedJob
    <3>3. FlushedJob(c, v).leased /\ FlushedJob(c, v).status # "RUNNING"
      BY <2>1, <3>2 DEF PrepareRow, Control, Actions, JobBecomes
    <3> QED
      BY <3>1, <3>3 DEF JobAllowed
  <2>3. ASSUME NEW u \in Variants, ClaimPrepare(u) PROVE FALSE
    BY <2>1, <2>3 DEF ClaimPrepare
  <2>4. ASSUME NEW u \in Variants, NEW status \in {"SUCCEEDED", "FAILED"}, Ends(u, status)
        PROVE  prepareJob'[v].status \in {"SUCCEEDED", "FAILED"}
    BY <2>1, <2>4 DEF Ends, PrepareRow
  <2>5. ASSUME NEW u \in Variants, PrepareLeaseEnds(u) \/ ReportPrepared(u)
        PROVE  prepareJob'[v].status \in {"SUCCEEDED", "FAILED"}
    BY <2>4, <2>5 DEF PrepareLeaseEnds, ReportPrepared
  <2>6. prepareJob' # prepareJob
    OBVIOUS
  <2> QED
    BY <1>1, <2>2, <2>3, <2>5, <2>6 DEF BatchNext, batchVars, CreateBatch, RollBackControl,
       LoadBatch, LoadJob, Loads, LoadVariant, PrepareVariant, PrepareDies
<1> QED
  BY <1>1, BatchInvariance, PTL DEF BatchSpec, RunningJobIsLeftAlone

\* What ended stays: only a control that had loaded the job before writes to it, and the
\* result of a SUCCEEDED job keeps even that one away.
THEOREM ControlsKeepEnds == BatchSpec => EndsAreKept
<1> DEFINE Kept ==
             \A v \in Variants :
               prepareJob[v].status \in Ended /\ prepareJob'[v] # prepareJob[v] =>
                 /\ prepareJob[v].status # "SUCCEEDED"
                 /\ \E c \in Controllers : /\ control'[c] # control[c]
                                           /\ v \in control[c].jobs \ control[c].ended
<1>1. ASSUME BatchInv, [BatchNext]_batchVars
      PROVE  Kept
  <2> SUFFICES ASSUME NEW v \in Variants, prepareJob[v].status \in Ended,
                      prepareJob'[v] # prepareJob[v]
               PROVE  /\ prepareJob[v].status # "SUCCEEDED"
                      /\ \E c \in Controllers : /\ control'[c] # control[c]
                                                /\ v \in control[c].jobs \ control[c].ended
    OBVIOUS
  <2>1. /\ prepareJob \in [Variants -> PrepareRow] /\ control \in [Controllers -> Control]
        /\ prepareJob[v].status = "SUCCEEDED" => prepareJob[v].result
        /\ prepareJob[v].status \notin {"RUNNING", "QUEUED"}
        /\ \A c \in Controllers : control[c].ended = {}
    BY <1>1 DEF BatchInv, BatchTypeOK, RowsAreAllowed, NoneLoadedEnded, Ended
  <2>2. \E c \in Controllers : FlushControl(c)
    <3>1. ASSUME NEW u \in Variants, ClaimPrepare(u) PROVE FALSE
      BY <2>1, <3>1 DEF ClaimPrepare
    <3>2. ASSUME NEW u \in Variants, PrepareLeaseEnds(u) \/ ReportPrepared(u) PROVE FALSE
      BY <2>1, <3>2 DEF PrepareLeaseEnds, ReportPrepared, Ends
    <3>3. prepareJob' # prepareJob
      OBVIOUS
    <3> QED
      BY <1>1, <3>1, <3>2, <3>3 DEF BatchNext, batchVars, CreateBatch, RollBackControl,
         LoadBatch, LoadJob, Loads, LoadVariant, PrepareVariant, PrepareDies
  <2>3. PICK c \in Controllers : FlushControl(c)
    BY <2>2
  <2>4. JobAllowed(FlushedJob(c, v)) /\ prepareJob'[v] = FlushedJob(c, v)
    BY <2>3 DEF FlushControl
  <2>5. v \in control[c].jobs
        /\ FlushedJob(c, v) = [prepareJob[v] EXCEPT !.status = JobBecomes(control[c].action)]
    BY <2>4 DEF FlushedJob
  <2>6. /\ FlushedJob(c, v).result <=> prepareJob[v].result
        /\ FlushedJob(c, v).status # "SUCCEEDED"
    BY <2>1, <2>5 DEF PrepareRow, Control, Actions, JobBecomes
  <2>7. prepareJob[v].status # "SUCCEEDED"
    BY <2>1, <2>4, <2>6 DEF JobAllowed
  <2>8. control'[c] # control[c]
    BY <2>1, <2>3 DEF FlushControl
  <2> QED
    BY <2>1, <2>5, <2>7, <2>8
<1> QED
  BY <1>1, BatchInvariance, PTL DEF BatchSpec, EndsAreKept

LEMMA ReadyWhenShown == BatchInv => ShownReadyIsReady
<1> SUFFICES ASSUME BatchInv PROVE ShownReadyIsReady
  OBVIOUS
<1>1. \A v \in Variants : prepareJob[v].status \in PrepareStatuses
  BY DEF BatchInv, BatchTypeOK, PrepareRow
<1>2. \A v \in Variants : VariantStatus(v) = "READY_FOR_SCRIPT" =>
        prepareJob[v].status = "SUCCEEDED"
  BY <1>1 DEF VariantStatus, PrepareStatuses
<1>3. \A v \in Variants : prepareJob[v].status = "SUCCEEDED" =>
        variant[v].status = "READY_FOR_SCRIPT" /\ variant[v].result
  BY DEF BatchInv, RowsAreAllowed, VariantAllowed
<1>4. AggregateStatus = "READY_FOR_SCRIPT" =>
        \A v \in Variants : VariantStatus(v) = "READY_FOR_SCRIPT"
  <2> DEFINE shown == {VariantStatus(v) : v \in Variants}
             Same == \E s \in {"WAITING", "READY_FOR_SCRIPT", "FAILED", "CANCELLED"} :
                       shown = {s}
  <2>1. SUFFICES ASSUME AggregateStatus = "READY_FOR_SCRIPT"
                 PROVE  shown = {"READY_FOR_SCRIPT"}
    OBVIOUS
  <2>2. Same
    BY <2>1 DEF AggregateStatus
  <2>3. PICK s \in {"WAITING", "READY_FOR_SCRIPT", "FAILED", "CANCELLED"} : shown = {s}
    BY <2>2
  <2>4. AggregateStatus = s
    <3>1. AggregateStatus = CHOOSE t \in shown : TRUE
      BY <2>2 DEF AggregateStatus
    <3>2. (CHOOSE t \in {s} : TRUE) = s
      OBVIOUS
    <3> QED
      BY <2>3, <3>1, <3>2
  <2> QED
    BY <2>1, <2>3, <2>4
<1> QED
  BY <1>2, <1>3, <1>4 DEF ShownReadyIsReady

\* A batch is never shown ready before its variants are stored.
THEOREM ReadyIsShownWhenReady == BatchSpec => []ShownReadyIsReady
  BY BatchInvariance, ReadyWhenShown, PTL

-----------------------------------------------------------------------------
(***************************************************************************)
(* Brand kits                                                              *)
(***************************************************************************)

KitNumbers == {v.number : v \in kitVersions}
KitContents == {v.content : v \in kitVersions}
Newest == Cardinality(kitVersions)

\* The history is numbered from 1 on, with one version of each content.
KitHistory ==
  /\ IsFiniteSet(kitVersions) /\ IsFiniteSet(KitContents)
  /\ Newest >= 1
  /\ KitNumbers = 1..Newest
  /\ Cardinality(KitContents) = Newest

BoundToTheKit == \A p \in Products : binding[p] \in {0} \cup KitNumbers

\* An editor was overtaken once for each retry it made, and once more when the number it
\* is about to insert, or has tried to, is taken.
IsTrueOf(record) ==
  /\ record.at = "idle" => record.tries = 0
  /\ record.at = "read" => record.tries <= record.passed
  /\ record.at = "insert" =>
       /\ record.number \in 1..Newest + 1
       /\ record.tries <= record.passed
       /\ record.number <= Newest => record.tries < record.passed
  /\ record.at = "reread" => HasContent(record.content) \/ record.tries < record.passed
  /\ record.at = "saved" => HasContent(record.content)
  /\ record.at = "gave up" => record.passed > MaxRetries

KInv == KitTypeOK /\ KitHistory /\ BoundToTheKit /\ \A e \in Editors : IsTrueOf(editor[e])

LEMMA KitStarts == KitInit => KInv
<1> SUFFICES ASSUME KitInit PROVE KInv
  OBVIOUS
<1> DEFINE first == [number |-> 1, content |-> FirstContent]
           idle == [at |-> "idle", content |-> FirstContent, number |-> 0,
                    tries |-> 0, passed |-> 0]
<1>1. FirstContent \in Contents /\ MaxRetries \in Nat
  BY BrandAssumption DEF FirstContent
<1>2. /\ kitVersions = {first} /\ binding = [p \in Products |-> 0]
      /\ editor = [e \in Editors |-> idle]
  BY DEF KitInit
<1>3. 0 \in 0..MaxRetries
  BY <1>1
<1>4. idle \in Editor /\ first \in KitVersion
  BY <1>1, <1>3 DEF Editor, KitVersion
<1>5. KitTypeOK
  BY <1>2, <1>4 DEF KitTypeOK
<1>6. KitNumbers = {1} /\ KitContents = {FirstContent}
  BY <1>2 DEF KitNumbers, KitContents
<1>7. KitHistory
  <2>1. Newest = 1 /\ IsFiniteSet(kitVersions)
    BY <1>2, FS_Singleton DEF Newest
  <2>2. IsFiniteSet(KitContents) /\ Cardinality(KitContents) = 1
    BY <1>6, FS_Singleton
  <2>3. KitNumbers = 1..1
    BY <1>6
  <2> QED
    BY <2>1, <2>2, <2>3 DEF KitHistory
<1>8. BoundToTheKit /\ \A e \in Editors : IsTrueOf(editor[e])
  BY <1>2 DEF BoundToTheKit, IsTrueOf
<1> QED
  BY <1>5, <1>7, <1>8 DEF KInv

\* The next number is one more than the versions that are there.
LEMMA NextNumber == ASSUME KitHistory PROVE NextVersionNumber = Newest + 1
<1>1. KitNumbers = 1..Newest /\ Newest \in Nat /\ Newest >= 1
  BY FS_CardinalityType DEF KitHistory, Newest
<1>2. Newest \in KitNumbers /\ \A y \in KitNumbers : Newest >= y
  BY <1>1
<1>3. Max(KitNumbers) \in KitNumbers /\ \A y \in KitNumbers : Max(KitNumbers) >= y
  BY <1>2 DEF Max
<1>4. Max(KitNumbers) = Newest
  BY <1>1, <1>2, <1>3
<1> QED
  BY <1>4 DEF NextVersionNumber, KitNumbers

\* An editor goes on while the versions stay.
LEMMA EditorGoesOn ==
  ASSUME KInv, NEW e \in Editors, NEW record \in Editor,
         editor' = [editor EXCEPT ![e] = record], UNCHANGED <<kitVersions, binding>>,
         IsTrueOf(record)
  PROVE  KInv'
<1>1. KitTypeOK'
  BY DEF KInv, KitTypeOK
<1>2. KitHistory' /\ BoundToTheKit'
  BY DEF KInv, KitHistory, BoundToTheKit, KitNumbers, KitContents, Newest
<1>3. ASSUME NEW d \in Editors PROVE IsTrueOf(editor[d])'
  <2>1. \A content : HasContent(content)' <=> HasContent(content)
    BY DEF HasContent
  <2>2. CASE d = e
    <3>1. editor'[d] = record
      BY <2>2 DEF KInv, KitTypeOK
    <3> QED
      BY <2>1, <3>1 DEF IsTrueOf, Newest, HasContent
  <2>3. CASE d # e
    <3>1. editor'[d] = editor[d] /\ IsTrueOf(editor[d])
      BY <2>3 DEF KInv, KitTypeOK
    <3> QED
      BY <2>1, <3>1 DEF IsTrueOf, Newest, HasContent
  <2> QED
    BY <2>2, <2>3
<1> QED
  BY <1>1, <1>2, <1>3 DEF KInv

LEMMA EditorStep ==
  ASSUME KInv, NEW e \in Editors,
         StartEdit(e) \/ ReadVersions(e) \/ ResolveConflict(e) \/ EditorDies(e)
  PROVE  KInv'
<1>1. /\ editor[e] \in Editor /\ IsTrueOf(editor[e]) /\ KitHistory
      /\ MaxRetries \in Nat /\ UNCHANGED <<kitVersions, binding>>
  BY BrandAssumption DEF KInv, KitTypeOK, StartEdit, ReadVersions, ResolveConflict, EditorDies
<1>2. Newest \in Nat
  BY <1>1, FS_CardinalityType DEF KitHistory, Newest
<1>3. /\ editor[e].tries \in 0..MaxRetries /\ editor[e].passed \in Nat
      /\ editor[e].content \in Contents /\ editor[e].number \in Nat
  BY <1>1 DEF Editor
\* Where an editor may go, its other fields as they are.
<1>4. ASSUME NEW at \in {"saved", "gave up", "died"}, EditorGoes(e, at),
             at = "saved" => HasContent(editor[e].content),
             at = "gave up" => editor[e].passed > MaxRetries
      PROVE  KInv'
  <2> DEFINE record == [editor[e] EXCEPT !.at = at]
  <2>1. /\ record \in Editor /\ record.at = at /\ record.content = editor[e].content
        /\ record.passed = editor[e].passed
    BY <1>1 DEF Editor
  <2>2. editor' = [editor EXCEPT ![e] = record]
    BY <1>4 DEF EditorGoes
  <2>3. IsTrueOf(record)
    BY <1>4, <2>1 DEF IsTrueOf
  <2> HIDE DEF record
  <2> QED
    BY <1>1, <2>1, <2>2, <2>3, EditorGoesOn
<1>5. CASE StartEdit(e)
  <2>1. PICK content \in Contents :
          editor' = [editor EXCEPT ![e] = [editor[e] EXCEPT !.at = "read",
                                                            !.content = content]]
    BY <1>5 DEF StartEdit
  <2> DEFINE record == [editor[e] EXCEPT !.at = "read", !.content = content]
  <2>2. /\ record \in Editor /\ record.at = "read"
        /\ record.tries = editor[e].tries /\ record.passed = editor[e].passed
    BY <1>1 DEF Editor
  <2>3. editor' = [editor EXCEPT ![e] = record]
    BY <2>1
  <2>4. editor[e].tries = 0
    BY <1>1, <1>5 DEF StartEdit, EditorAt, IsTrueOf
  <2> HIDE DEF record
  <2>5. IsTrueOf(record)
    BY <1>3, <2>2, <2>4 DEF IsTrueOf
  <2> QED
    BY <1>1, <2>2, <2>3, <2>5, EditorGoesOn
<1>6. CASE ReadVersions(e)
  <2>1. CASE HasContent(editor[e].content)
    BY <1>4, <1>6, <2>1 DEF ReadVersions
  <2>2. CASE ~HasContent(editor[e].content)
    <3> DEFINE record == [editor[e] EXCEPT !.at = "insert", !.number = NextVersionNumber]
    <3>1. editor' = [editor EXCEPT ![e] = record]
      BY <1>6, <2>2 DEF ReadVersions
    <3>2. NextVersionNumber = Newest + 1
      BY <1>1, NextNumber
    <3>3. Newest + 1 \in Nat
      BY <1>2
    <3>4. /\ record \in Editor /\ record.at = "insert" /\ record.number = Newest + 1
          /\ record.tries = editor[e].tries /\ record.passed = editor[e].passed
      BY <1>1, <3>2, <3>3 DEF Editor
    <3>5. editor[e].tries <= editor[e].passed
      BY <1>1, <1>6 DEF ReadVersions, EditorAt, IsTrueOf
    <3> HIDE DEF record
    <3>6. IsTrueOf(record)
      BY <1>2, <1>3, <3>4, <3>5 DEF IsTrueOf
    <3> QED
      BY <1>1, <3>1, <3>4, <3>6, EditorGoesOn
  <2> QED
    BY <2>1, <2>2
<1>7. CASE ResolveConflict(e)
  <2>1. editor[e].at = "reread"
    BY <1>7 DEF ResolveConflict, EditorAt
  <2>2. CASE HasContent(editor[e].content)
    BY <1>4, <1>7, <2>2 DEF ResolveConflict
  <2>3. CASE ~HasContent(editor[e].content)
    <3>1. editor[e].tries < editor[e].passed
      BY <1>1, <2>1, <2>3 DEF IsTrueOf
    <3>2. CASE ~MayRetry(e)
      <4>1. EditorGoes(e, "gave up")
        BY <1>7, <2>3, <3>2 DEF ResolveConflict
      <4>2. editor[e].passed > MaxRetries
        BY <1>1, <1>3, <3>1, <3>2 DEF MayRetry
      <4> QED
        BY <1>4, <4>1, <4>2
    <3>3. CASE MayRetry(e)
      <4> DEFINE record == [editor[e] EXCEPT !.at = "read", !.tries = editor[e].tries + 1]
      <4>1. editor' = [editor EXCEPT ![e] = record]
        BY <1>7, <2>2, <2>3, <3>3 DEF ResolveConflict
      <4>2. editor[e].tries + 1 \in 0..MaxRetries
        BY <1>1, <1>3, <3>3 DEF MayRetry
      <4>3. /\ record \in Editor /\ record.at = "read"
            /\ record.tries = editor[e].tries + 1 /\ record.passed = editor[e].passed
        BY <1>1, <4>2 DEF Editor
      <4> HIDE DEF record
      <4>4. IsTrueOf(record)
        BY <1>3, <3>1, <4>3 DEF IsTrueOf
      <4> QED
        BY <1>1, <4>1, <4>3, <4>4, EditorGoesOn
    <3> QED
      BY <3>2, <3>3
  <2> QED
    BY <2>2, <2>3
<1>8. CASE EditorDies(e)
  BY <1>4, <1>8 DEF EditorDies
<1> QED
  BY <1>5, <1>6, <1>7, <1>8

\* The constraints let a version in that is new in both respects: it is the next one, and
\* the editors that had read its number are overtaken.
LEMMA AppendStep ==
  ASSUME KInv, NEW e \in Editors, AppendVersion(e)
  PROVE  KInv'
<1> DEFINE row == [number |-> editor[e].number, content |-> editor[e].content]
<1>1. /\ editor[e] \in Editor /\ IsTrueOf(editor[e]) /\ KitHistory /\ editor[e].at = "insert"
      /\ UNCHANGED binding
  BY DEF KInv, KitTypeOK, AppendVersion, EditorAt
<1>2. Newest \in Nat /\ editor[e].number \in 1..Newest + 1
      /\ editor[e].number \in Nat /\ editor[e].content \in Contents
  BY <1>1, FS_CardinalityType DEF KitHistory, Newest, IsTrueOf, Editor
<1>3. row \in KitVersion /\ row.number = editor[e].number /\ row.content = editor[e].content
  BY <1>2 DEF KitVersion
<1>4. CASE UniqueVersion(row)
  <2>1. kitVersions' = kitVersions \cup {row}
    BY <1>4 DEF AppendVersion
  <2>2. row.number \notin KitNumbers /\ row.content \notin KitContents
        /\ row \notin kitVersions
    BY <1>3, <1>4 DEF UniqueVersion, KitNumbers, KitContents
  <2>3. row.number = Newest + 1
    BY <1>1, <1>2, <1>3, <2>2 DEF KitHistory
  <2> HIDE DEF row
  <2>4. KitNumbers' = KitNumbers \cup {row.number}
        /\ KitContents' = KitContents \cup {row.content}
    BY <2>1 DEF KitNumbers, KitContents
  <2>5. /\ IsFiniteSet(kitVersions') /\ Newest' = Newest + 1
        /\ IsFiniteSet(KitContents') /\ Cardinality(KitContents') = Newest + 1
    BY <1>1, <2>1, <2>2, <2>4, FS_AddElement DEF KitHistory, Newest
  <2>6. (1..Newest) \cup {Newest + 1} = 1..(Newest + 1)
    BY <1>2
  <2>7. KitHistory'
    BY <1>1, <1>2, <2>3, <2>4, <2>5, <2>6 DEF KitHistory
  <2>8. BoundToTheKit'
    BY <1>1, <2>4 DEF KInv, BoundToTheKit
  <2> DEFINE After(d) ==
               CASE d = e -> [editor[e] EXCEPT !.at = "saved"]
                 [] d # e /\ EditorAt(d, "insert") -> [editor[d] EXCEPT !.passed = @ + 1]
                 [] OTHER -> editor[d]
  <2>9. editor' = [d \in Editors |-> After(d)]
    BY <1>4 DEF AppendVersion, row
  <2> HIDE DEF After
  <2>10. ASSUME NEW d \in Editors
         PROVE  After(d) \in Editor /\ IsTrueOf(editor[d])'
    <3>1. editor[d] \in Editor /\ IsTrueOf(editor[d])
      BY DEF KInv, KitTypeOK
    <3>2. /\ editor'[d] = After(d)
          /\ editor[d].passed \in Nat /\ editor[d].tries \in Nat /\ editor[d].number \in Nat
      <4>1. editor'[d] = After(d)
        BY <2>9
      <4>2. /\ editor[d].passed \in Nat /\ editor[d].number \in Nat
            /\ editor[d].tries \in 0..MaxRetries
        BY <3>1 DEF Editor
      <4> QED
        BY <4>1, <4>2, BrandAssumption
    <3>3. CASE d = e
      <4>1. After(d) = [editor[e] EXCEPT !.at = "saved"]
        BY <3>3 DEF After
      <4>2. After(d) \in Editor /\ After(d).at = "saved" /\ After(d).content = row.content
        BY <1>1, <1>3, <4>1 DEF Editor
      <4>3. \E v \in kitVersions' : v.content = row.content
        BY <2>1
      <4> QED
        BY <3>2, <4>2, <4>3 DEF IsTrueOf, HasContent
    <3>4. CASE d # e /\ editor[d].at = "insert"
      <4>1. After(d) = [editor[d] EXCEPT !.passed = editor[d].passed + 1]
        BY <3>4 DEF EditorAt, After
      <4>2. editor[d].passed + 1 \in Nat
        BY <3>2
      <4>3. /\ After(d) \in Editor /\ After(d).at = "insert"
            /\ After(d).number = editor[d].number
            /\ After(d).tries = editor[d].tries /\ After(d).passed = editor[d].passed + 1
        BY <3>1, <3>4, <4>1, <4>2 DEF Editor
      <4>4. editor[d].number \in 1..Newest + 1 /\ editor[d].tries <= editor[d].passed
        BY <3>1, <3>4 DEF IsTrueOf
      <4> QED
        BY <1>2, <2>5, <3>2, <4>3, <4>4 DEF IsTrueOf
    <3>5. CASE d # e /\ editor[d].at # "insert"
      <4>1. After(d) = editor[d]
        BY <3>5 DEF EditorAt, After
      <4> QED
        BY <2>1, <3>1, <3>2, <3>5, <4>1 DEF IsTrueOf, HasContent
    <3> QED
      BY <3>3, <3>4, <3>5
  <2>11. KitTypeOK'
    BY <1>1, <1>3, <2>1, <2>9, <2>10 DEF KInv, KitTypeOK
  <2> QED
    BY <2>7, <2>8, <2>10, <2>11 DEF KInv
<1>5. CASE ~UniqueVersion(row)
  <2> DEFINE record == [editor[e] EXCEPT !.at = "reread"]
  <2>1. editor' = [editor EXCEPT ![e] = record] /\ kitVersions' = kitVersions
    BY <1>5 DEF AppendVersion, EditorGoes
  <2>2. /\ record \in Editor /\ record.at = "reread" /\ record.content = editor[e].content
        /\ record.tries = editor[e].tries /\ record.passed = editor[e].passed
    BY <1>1 DEF Editor
  <2>3. HasContent(editor[e].content) \/ editor[e].number \in KitNumbers
    BY <1>3, <1>5 DEF UniqueVersion, HasContent, KitNumbers
  <2>4. HasContent(editor[e].content) \/ editor[e].tries < editor[e].passed
    BY <1>1, <1>2, <2>3 DEF KitHistory, IsTrueOf
  <2> HIDE DEF record
  <2>5. IsTrueOf(record)
    BY <2>2, <2>4 DEF IsTrueOf
  <2> QED
    BY <1>1, <2>1, <2>2, <2>5, EditorGoesOn
<1> QED
  BY <1>4, <1>5

LEMMA KitStep == KInv /\ [KitNext]_kitVars => KInv'
<1> SUFFICES ASSUME KInv, [KitNext]_kitVars PROVE KInv'
  OBVIOUS
<1>1. ASSUME NEW e \in Editors, AppendVersion(e) PROVE KInv'
  BY <1>1, AppendStep
<1>2. ASSUME NEW e \in Editors,
             StartEdit(e) \/ ReadVersions(e) \/ ResolveConflict(e) \/ EditorDies(e)
      PROVE  KInv'
  BY <1>2, EditorStep
<1>3. ASSUME UNCHANGED <<kitVersions, editor>>,
             \/ UNCHANGED binding
             \/ \E p \in Products, n \in {0} \cup KitNumbers :
                  binding' = [binding EXCEPT ![p] = n]
      PROVE  KInv'
  <2>1. KitNumbers \subseteq Nat
    BY DEF KInv, KitTypeOK, KitVersion, KitNumbers
  <2>2. KitTypeOK' /\ BoundToTheKit'
    BY <1>3, <2>1 DEF KInv, KitTypeOK, BoundToTheKit, KitNumbers
  <2>3. KitHistory'
    BY <1>3 DEF KInv, KitHistory, KitNumbers, KitContents, Newest
  <2>4. \A e \in Editors : IsTrueOf(editor[e])'
    BY <1>3 DEF KInv, IsTrueOf, Newest, HasContent
  <2> QED
    BY <2>2, <2>3, <2>4 DEF KInv
<1>4. ASSUME NEW p \in Products, BindProduct(p) \/ UnbindProduct(p) PROVE KInv'
  BY <1>3, <1>4 DEF BindProduct, UnbindProduct, KitNumbers
<1>5. CASE UNCHANGED kitVars
  BY <1>3, <1>5 DEF kitVars
<1> QED
  BY <1>1, <1>2, <1>4, <1>5 DEF KitNext

\* The history, the bindings and what each editor has lived through, in every state.
THEOREM KitInvariance == KitSpec => []KInv
  BY KitStarts, KitStep, PTL DEF KitSpec

\* However many editors append at once, the versions of a kit are numbered without gap
\* or double, one of each content, and products are bound to versions that exist.
THEOREM KitsKeepAHistory == KitSpec => []VersionsAreAHistory
<1>1. KInv => VersionsAreAHistory
  BY DEF KInv, KitHistory, BoundToTheKit, VersionsAreAHistory, KitNumbers, KitContents, Newest
<1> QED
  BY <1>1, KitInvariance, PTL

\* An editor that is told to give up was overtaken more often than it may retry.
THEOREM OnlyContestedGiveUp == KitSpec => []ContestedGivesUp
<1>1. KInv => ContestedGivesUp
  BY DEF KInv, IsTrueOf, ContestedGivesUp, EditorAt
<1> QED
  BY <1>1, KitInvariance, PTL

-----------------------------------------------------------------------------
(***************************************************************************)
(* Video composition and its enhancement                                   *)
(***************************************************************************)

\* While no attempt without its lease has ended the composition: what the attempt with the
\* lease is about to name is stored, what a finished composition names is stored, and
\* only an attempt whose job succeeded named it.
OwnOutputIsStored ==
  \A r \in Attempts : RenderAt(r, "persist") /\ Owns(r) => render[r].content \in files
NamedIsStored == comp.status = "SUCCEEDED" => comp.artifact \in files
NamedBySuccess ==
  comp.artifact # "none" => compJob.status = "SUCCEEDED" /\ comp.status # "none"
OutputsAreEncodings ==
  \A r \in Attempts : render[r].at \in {"store", "persist", "recover", "undo"} =>
                        render[r].content \in Encodings
CompositionWhole ==
  OutputsAreEncodings /\ (~late => OwnOutputIsStored /\ NamedIsStored /\ NamedBySuccess)

\* The enhancement stores in order and only after its announcement, which keeps its job
\* from ever being FAILED.
StoredInOrder ==
  /\ enhance = "video" => "subtitle" \in enhFiles
  /\ enhance = "persist" => {"subtitle", "video"} \subseteq enhFiles
  /\ enh.status = "SUCCEEDED" => enh.artifact /\ {"subtitle", "video"} \subseteq enhFiles
StoredAsAnnounced ==
  /\ enhance \in {"subtitle", "video", "persist"} => enhJob.announced
  /\ ~enhJob.announced => enhFiles = {} /\ ~enh.artifact
  /\ enhJob.status = "FAILED" => ~enhJob.announced
EnhancementWhole == StoredInOrder /\ StoredAsAnnounced

CInv == CompositionTypeOK /\ CompositionWhole /\ EnhancementWhole

LEMMA CompositionStarts == CompositionInit => CInv
<1> SUFFICES ASSUME CompositionInit PROVE CInv
  OBVIOUS
<1>1. CompositionTypeOK
  <2>1. NoRender \in Render
    BY DEF NoRender, Render, Content
  <2>2. comp \in Composition /\ enh \in Enhancement
    BY DEF CompositionInit, Composition, Enhancement, Content, Renderable
  <2>3. compJob \in [status : LocalJobStatuses, attempts : 0..2]
    BY DEF CompositionInit, LocalJobStatuses
  <2>4. enhJob \in [status : LocalJobStatuses, announced : BOOLEAN]
    BY DEF CompositionInit, LocalJobStatuses
  <2> QED
    BY <2>1, <2>2, <2>3, <2>4 DEF CompositionInit, CompositionTypeOK
<1>2. CompositionWhole
  BY DEF CompositionInit, CompositionWhole, OutputsAreEncodings, OwnOutputIsStored, RenderAt,
         NamedIsStored, NamedBySuccess, NoRender
<1>3. EnhancementWhole
  BY DEF CompositionInit, EnhancementWhole, StoredInOrder, StoredAsAnnounced
<1> QED
  BY <1>1, <1>2, <1>3 DEF CInv

-----------------------------------------------------------------------------
(* The composition *)

LEMMA EnhancementApart == EnhancementWhole /\ UNCHANGED enhVars => EnhancementWhole'
  BY DEF EnhancementWhole, StoredInOrder, StoredAsAnnounced, enhVars
LEMMA CompositionApart == CompositionWhole /\ UNCHANGED compVars => CompositionWhole'
  BY DEF CompositionWhole, OutputsAreEncodings, OwnOutputIsStored, NamedIsStored,
         NamedBySuccess, RenderAt, Owns, compVars

\* The job changes hands outside the attempts: claimed, given up, retried.
LEMMA JobKeeps ==
  ASSUME CInv, UNCHANGED enhVars,
         \/ SourceSpoils \/ EnqueueComposition \/ CompositionLeaseEnds \/ RetryComposition
         \/ \E r \in Attempts : ClaimComposition(r)
  PROVE  CInv'
<1>1. CompositionTypeOK
  BY DEF CInv
<1>2. CompositionTypeOK' /\ CompositionWhole'
  <2>1. CASE SourceSpoils
    BY <2>1 DEF SourceSpoils, CInv, CompositionTypeOK, CompositionWhole, OutputsAreEncodings,
                OwnOutputIsStored, NamedIsStored, NamedBySuccess, RenderAt, Owns, enhVars
  <2>2. CASE EnqueueComposition
    <3>1. [comp EXCEPT !.status = "QUEUED"] \in Composition
      BY <1>1 DEF CompositionTypeOK, Composition, Renderable
    <3>2. [compJob EXCEPT !.status = "QUEUED"] \in [status : LocalJobStatuses, attempts : 0..2]
      BY <1>1 DEF CompositionTypeOK, LocalJobStatuses
    <3>3. CompositionTypeOK'
      BY <2>2, <3>1, <3>2, <1>1 DEF EnqueueComposition, CompositionTypeOK, enhVars
    <3>4. comp'.artifact = comp.artifact /\ comp'.status = "QUEUED"
          /\ compJob'.status = "QUEUED"
      BY <1>1, <2>2 DEF EnqueueComposition, CompositionTypeOK, Composition
    <3>5. \A r \in Attempts : ~Owns(r)'
      BY <3>4 DEF Owns
    <3>6. ~late' => OwnOutputIsStored' /\ NamedIsStored' /\ NamedBySuccess'
      BY <2>2, <3>4, <3>5 DEF EnqueueComposition, CInv, CompositionWhole, OwnOutputIsStored,
         NamedIsStored, NamedBySuccess
    <3>7. OutputsAreEncodings'
      BY <2>2 DEF EnqueueComposition, CInv, CompositionWhole, OutputsAreEncodings
    <3> QED
      BY <3>3, <3>6, <3>7 DEF CompositionWhole
  <2>3. CASE CompositionLeaseEnds \/ RetryComposition
    <3>1. compJob' \in [status : LocalJobStatuses, attempts : 0..2]
          /\ compJob.status # "SUCCEEDED" /\ compJob'.status \in {"QUEUED", "FAILED"}
      BY <1>1, <2>3 DEF CompositionLeaseEnds, RetryComposition, CompositionTypeOK,
                        LocalJobStatuses
    <3>2. CompositionTypeOK'
      BY <2>3, <3>1, <1>1 DEF CompositionLeaseEnds, RetryComposition, CompositionTypeOK,
                              enhVars
    <3>3. UNCHANGED <<comp, render, files, late>>
      BY <2>3 DEF CompositionLeaseEnds, RetryComposition
    <3>4. \A r \in Attempts : ~Owns(r)'
      BY <3>1 DEF Owns
    <3>5. ~late' => OwnOutputIsStored' /\ NamedIsStored' /\ NamedBySuccess'
      BY <3>1, <3>3, <3>4 DEF CInv, CompositionWhole, OwnOutputIsStored, NamedIsStored,
                              NamedBySuccess
    <3>6. OutputsAreEncodings'
      BY <3>3 DEF CInv, CompositionWhole, OutputsAreEncodings
    <3> QED
      BY <3>2, <3>5, <3>6 DEF CompositionWhole
  <2>4. ASSUME NEW r \in Attempts, ClaimComposition(r)
        PROVE  CompositionTypeOK' /\ CompositionWhole'
    <3> DEFINE claimed == [render[r] EXCEPT !.at = "load"]
    <3>1. render[r] \in Render
      BY <1>1 DEF CompositionTypeOK
    <3>2. claimed \in Render /\ claimed.at = "load"
      BY <3>1 DEF Render
    <3>3. /\ compJob = [status |-> "QUEUED", attempts |-> r - 1]
          /\ compJob' = [status |-> "RUNNING", attempts |-> r]
          /\ render' = [render EXCEPT ![r] = claimed]
          /\ UNCHANGED <<sources, comp, files, late>>
      BY <2>4 DEF ClaimComposition
    <3> HIDE DEF claimed
    <3>4. CompositionTypeOK'
      BY <1>1, <3>2, <3>3 DEF CompositionTypeOK, LocalJobStatuses, Attempts, enhVars
    <3>5. \A q \in Attempts : RenderAt(q, "persist")' => q # r
      BY <1>1, <3>2, <3>3 DEF CompositionTypeOK, RenderAt
    <3>6. CompositionWhole'
      BY <1>1, <3>2, <3>3, <3>5 DEF CInv, CompositionWhole, OutputsAreEncodings,
         OwnOutputIsStored, NamedIsStored, NamedBySuccess, RenderAt, Owns,
         CompositionTypeOK
    <3> QED
      BY <3>4, <3>6
  <2> QED
    BY <2>1, <2>2, <2>3, <2>4
<1>3. EnhancementWhole'
  BY EnhancementApart DEF CInv
<1> QED
  BY <1>2, <1>3 DEF CInv

\* An attempt ends: its result counts while it has its lease.
LEMMA RenderOver ==
  ASSUME CompositionTypeOK, NEW r \in Attempts,
         NEW status \in {"SUCCEEDED", "FAILED", "SUBMIT_UNKNOWN"}, RenderEnds(r, status)
  PROVE  /\ render' \in [Attempts -> Render] /\ render'[r].at = "over"
         /\ \A q \in Attempts \ {r} : render'[q] = render[q]
         /\ compJob' \in [status : LocalJobStatuses, attempts : 0..2]
         /\ Owns(r) => compJob'.status = status
         /\ ~Owns(r) => compJob' = compJob
         /\ \A q \in Attempts : Owns(q)' => Owns(q) /\ ~Owns(r)
<1>1. [NoRender EXCEPT !.at = "over"] \in Render
  BY DEF NoRender, Render, Content
<1>2. NoRender.at = "idle" /\ [NoRender EXCEPT !.at = "over"].at = "over"
  BY DEF NoRender
<1> DEFINE ended == [NoRender EXCEPT !.at = "over"]
<1>3. render' = [render EXCEPT ![r] = ended]
      /\ compJob' = IF Owns(r) THEN [compJob EXCEPT !.status = status] ELSE compJob
  BY DEF RenderEnds
<1>4. [compJob EXCEPT !.status = status] \in [status : LocalJobStatuses, attempts : 0..2]
      /\ [compJob EXCEPT !.status = status].status = status
  BY DEF CompositionTypeOK, LocalJobStatuses
<1> HIDE DEF ended
<1>5. render' \in [Attempts -> Render] /\ render'[r].at = "over"
      /\ \A q \in Attempts \ {r} : render'[q] = render[q]
  BY <1>1, <1>2, <1>3 DEF CompositionTypeOK, ended
<1>6. \A q \in Attempts : Owns(q)' => Owns(q) /\ ~Owns(r)
  BY <1>3, <1>4 DEF Owns
<1> QED
  BY <1>3, <1>4, <1>5, <1>6 DEF CompositionTypeOK

\* An attempt goes on.
LEMMA RenderOn ==
  ASSUME CompositionTypeOK, NEW r \in Attempts, NEW at, RenderGoes(r, at),
         at \in {"resolve", "compose", "recover", "undo"}
  PROVE  /\ render' \in [Attempts -> Render] /\ compJob' = compJob
         /\ render'[r].at = at /\ render'[r].content = render[r].content
         /\ \A q \in Attempts \ {r} : render'[q] = render[q]
<1> DEFINE gone == [render[r] EXCEPT !.at = at]
<1>1. render[r] \in Render
  BY DEF CompositionTypeOK
<1>2. gone \in Render /\ gone.at = at /\ gone.content = render[r].content
  BY <1>1 DEF Render
<1>3. render' = [render EXCEPT ![r] = gone] /\ compJob' = compJob
  BY DEF RenderGoes
<1> HIDE DEF gone
<1> QED
  BY <1>2, <1>3 DEF CompositionTypeOK

\* Steps that change at most the status of the composition, to one that does not say
\* it is finished, and leave what is stored and named alone.
LEMMA StatusKeeps ==
  ASSUME CInv, UNCHANGED enhVars, NEW r \in Attempts,
         render' \in [Attempts -> Render],
         \A q \in Attempts \ {r} : render'[q] = render[q],
         ~RenderAt(r, "persist")',
         render'[r].at \in {"recover", "undo", "store"} => render'[r].content \in Encodings,
         compJob' \in [status : LocalJobStatuses, attempts : 0..2],
         \A q \in Attempts : Owns(q)' => Owns(q),
         compJob.status = "SUCCEEDED" => compJob'.status = "SUCCEEDED",
         comp' = comp \/ \E status \in {"COMPOSING", "VERIFYING", "FAILED"} :
                           comp' = [comp EXCEPT !.status = status],
         UNCHANGED <<sources, files, late>>
  PROVE  CInv'
<1>1. /\ comp' \in Composition /\ comp'.artifact = comp.artifact
      /\ comp'.status = "SUCCEEDED" => comp.status = "SUCCEEDED"
      /\ comp'.status = "none" => comp.status = "none"
  BY DEF CInv, CompositionTypeOK, Composition, Renderable
<1>2. CompositionTypeOK'
  BY <1>1 DEF CInv, CompositionTypeOK, enhVars
<1>3. OutputsAreEncodings'
  BY DEF CInv, CompositionWhole, OutputsAreEncodings, RenderAt
<1>4. ~late => OwnOutputIsStored' /\ NamedIsStored' /\ NamedBySuccess'
  BY <1>1 DEF CInv, CompositionWhole, OwnOutputIsStored, NamedIsStored, NamedBySuccess,
         RenderAt
<1>5. EnhancementWhole'
  BY EnhancementApart DEF CInv
<1> QED
  BY <1>2, <1>3, <1>4, <1>5 DEF CInv, CompositionWhole

LEMMA AttemptKeeps ==
  ASSUME CInv, NEW r \in Attempts,
         \/ LoadComposition(r) \/ ResolveShots(r) \/ Compose(r) \/ RenderFails(r)
         \/ RecoverComposition(r) \/ RenderDies(r)
  PROVE  CInv'
<1>1. CompositionTypeOK /\ render[r] \in Render
  BY DEF CInv, CompositionTypeOK
<1>2. UNCHANGED enhVars /\ UNCHANGED <<sources, files, late>>
  BY DEF LoadComposition, ResolveShots, Compose, RenderFails, RecoverComposition, RenderDies
\* The three ways a step leaves the attempt and its job.
<1>3. ASSUME NEW status \in {"SUCCEEDED", "FAILED", "SUBMIT_UNKNOWN"}, RenderEnds(r, status),
             comp' = comp \/ \E s \in {"COMPOSING", "VERIFYING", "FAILED"} :
                               comp' = [comp EXCEPT !.status = s]
      PROVE  CInv'
  <2>1. /\ render' \in [Attempts -> Render] /\ render'[r].at = "over"
        /\ \A q \in Attempts \ {r} : render'[q] = render[q]
        /\ compJob' \in [status : LocalJobStatuses, attempts : 0..2]
        /\ \A q \in Attempts : Owns(q)' => Owns(q)
        /\ Owns(r) \/ compJob' = compJob
    BY <1>1, <1>3, RenderOver
  <2>2. compJob.status = "SUCCEEDED" => compJob'.status = "SUCCEEDED"
    BY <2>1 DEF Owns
  <2> QED
    BY <1>2, <1>3, <2>1, <2>2, StatusKeeps DEF RenderAt
<1>4. ASSUME NEW at \in {"resolve", "compose", "undo"}, RenderGoes(r, at),
             at = "undo" => render[r].content \in Encodings,
             comp' = comp \/ \E s \in {"COMPOSING", "VERIFYING", "FAILED"} :
                               comp' = [comp EXCEPT !.status = s]
      PROVE  CInv'
  <2>1. /\ render' \in [Attempts -> Render] /\ compJob' = compJob
        /\ render'[r].at = at /\ render'[r].content = render[r].content
        /\ \A q \in Attempts \ {r} : render'[q] = render[q]
    BY <1>1, <1>4, RenderOn
  <2>2. compJob' \in [status : LocalJobStatuses, attempts : 0..2]
        /\ \A q \in Attempts : Owns(q)' => Owns(q)
    BY <1>1, <2>1 DEF CompositionTypeOK, Owns
  <2> QED
    BY <1>2, <1>4, <2>1, <2>2, StatusKeeps DEF RenderAt
<1>5. CASE LoadComposition(r)
  <2>1. \/ RenderEnds(r, "SUCCEEDED") \/ RenderEnds(r, "FAILED")
        \/ RenderGoes(r, "resolve")
    BY <1>5 DEF LoadComposition
  <2>2. comp' = comp
    BY <1>5 DEF LoadComposition
  <2> QED
    BY <1>3, <1>4, <2>1, <2>2
<1>6. CASE ResolveShots(r)
  <2>1. \/ comp' = [comp EXCEPT !.status = "COMPOSING"] /\ RenderGoes(r, "compose")
        \/ comp' = [comp EXCEPT !.status = "FAILED"] /\ RenderEnds(r, "FAILED")
        \/ comp' = comp /\ RenderEnds(r, "FAILED")
    BY <1>6 DEF ResolveShots
  <2> QED
    BY <1>3, <1>4, <2>1
<1>7. CASE RenderFails(r)
  BY <1>3, <1>7 DEF RenderFails
<1>8. CASE RecoverComposition(r)
  <2>1. render[r].content \in Encodings
    BY <1>8 DEF RecoverComposition, RenderAt, CInv, CompositionWhole, OutputsAreEncodings
  <2>2. RenderEnds(r, "SUCCEEDED") \/ RenderGoes(r, "undo")
    BY <1>8 DEF RecoverComposition
  <2>3. comp' = comp
    BY <1>8 DEF RecoverComposition
  <2> QED
    BY <1>3, <1>4, <2>1, <2>2, <2>3
<1>9. CASE Compose(r)
  <2>1. PICK c \in Encodings :
          render' = [render EXCEPT ![r] = [render[r] EXCEPT !.at = "store", !.content = c]]
    BY <1>9 DEF Compose
  <2> DEFINE composed == [render[r] EXCEPT !.at = "store", !.content = c]
  <2>2. composed \in Render /\ composed.at = "store" /\ composed.content = c
    BY <1>1 DEF Render, Content
  <2>3. render' = [render EXCEPT ![r] = composed]
    BY <2>1
  <2> HIDE DEF composed
  <2>4. /\ render' \in [Attempts -> Render]
        /\ render'[r].at = "store" /\ render'[r].content = c
        /\ \A q \in Attempts \ {r} : render'[q] = render[q]
    BY <1>1, <2>2, <2>3 DEF CompositionTypeOK
  <2>5. comp' = [comp EXCEPT !.status = "VERIFYING"] /\ compJob' = compJob
    BY <1>9 DEF Compose
  <2>6. compJob' \in [status : LocalJobStatuses, attempts : 0..2]
        /\ \A q \in Attempts : Owns(q)' => Owns(q)
    BY <1>1, <2>5 DEF CompositionTypeOK, Owns
  <2> QED
    BY <1>2, <2>4, <2>5, <2>6, StatusKeeps DEF RenderAt
<1>10. CASE RenderDies(r)
  <2> DEFINE ended == [NoRender EXCEPT !.at = "over"]
  <2>1. ended \in Render /\ ended.at = "over"
    BY DEF NoRender, Render, Content
  <2>2. render' = [render EXCEPT ![r] = ended] /\ comp' = comp /\ compJob' = compJob
    BY <1>10 DEF RenderDies
  <2> HIDE DEF ended
  <2>3. /\ render' \in [Attempts -> Render] /\ render'[r].at = "over"
        /\ \A q \in Attempts \ {r} : render'[q] = render[q]
    BY <1>1, <2>1, <2>2 DEF CompositionTypeOK
  <2>4. compJob' \in [status : LocalJobStatuses, attempts : 0..2]
        /\ \A q \in Attempts : Owns(q)' => Owns(q)
    BY <1>1, <2>2 DEF CompositionTypeOK, Owns
  <2> QED
    BY <1>2, <2>2, <2>3, <2>4, StatusKeeps DEF RenderAt
<1> QED
  BY <1>5, <1>6, <1>7, <1>8, <1>9, <1>10

\* Storing only adds a file, the content of the attempt that goes on to name it.
LEMMA StoreKeeps ==
  ASSUME CInv, NEW r \in Attempts, StoreComposition(r)
  PROVE  CInv'
<1> DEFINE stored == [render[r] EXCEPT !.at = "persist",
                                       !.created = render[r].content \notin files]
<1>1. CompositionTypeOK /\ render[r] \in Render /\ render[r].at = "store"
      /\ render[r].content \in Encodings
  BY DEF CInv, CompositionTypeOK, CompositionWhole, OutputsAreEncodings, StoreComposition,
         RenderAt
<1>2. stored \in Render /\ stored.at = "persist" /\ stored.content = render[r].content
  BY <1>1 DEF Render
<1>3. /\ files' = files \cup {render[r].content} /\ render' = [render EXCEPT ![r] = stored]
      /\ UNCHANGED <<sources, comp, compJob, late>> /\ UNCHANGED enhVars
  BY DEF StoreComposition
<1> HIDE DEF stored
<1>4. CompositionTypeOK'
  BY <1>1, <1>2, <1>3 DEF CompositionTypeOK, enhVars
<1>5. OutputsAreEncodings'
  BY <1>1, <1>2, <1>3 DEF CInv, CompositionTypeOK, CompositionWhole, OutputsAreEncodings
<1>6. ~late => OwnOutputIsStored' /\ NamedIsStored' /\ NamedBySuccess'
  BY <1>1, <1>2, <1>3 DEF CInv, CompositionTypeOK, CompositionWhole, OwnOutputIsStored,
     NamedIsStored, NamedBySuccess, RenderAt, Owns
<1>7. EnhancementWhole'
  BY <1>3, EnhancementApart DEF CInv
<1> QED
  BY <1>3, <1>4, <1>5, <1>6, <1>7 DEF CInv, CompositionWhole

\* The attempt with the lease names what it stored, and its job succeeded by it.
LEMMA PersistKeeps ==
  ASSUME CInv, NEW r \in Attempts, PersistComposition(r)
  PROVE  CInv'
<1>1. CompositionTypeOK /\ render[r] \in Render /\ render[r].at = "persist"
      /\ render[r].content \in Encodings
      /\ UNCHANGED <<sources, files>> /\ UNCHANGED enhVars
  BY DEF CInv, CompositionTypeOK, CompositionWhole, OutputsAreEncodings, PersistComposition,
         RenderAt
<1>2. EnhancementWhole'
  BY <1>1, EnhancementApart DEF CInv
<1>3. CASE /\ comp' = [status |-> "SUCCEEDED", artifact |-> render[r].content]
           /\ late' = (late \/ ~Owns(r)) /\ RenderEnds(r, "SUCCEEDED")
  <2>1. /\ render' \in [Attempts -> Render] /\ render'[r].at = "over"
        /\ \A q \in Attempts \ {r} : render'[q] = render[q]
        /\ compJob' \in [status : LocalJobStatuses, attempts : 0..2]
        /\ Owns(r) => compJob'.status = "SUCCEEDED"
        /\ \A q \in Attempts : Owns(q)' => Owns(q) /\ ~Owns(r)
    BY <1>1, <1>3, RenderOver
  <2>2. comp' \in Composition /\ comp'.artifact = render[r].content
        /\ comp'.status = "SUCCEEDED"
    BY <1>1, <1>3 DEF Composition, Content
  <2>3. late' \in BOOLEAN
    BY <1>3
  <2>4. CompositionTypeOK'
    BY <1>1, <2>1, <2>2, <2>3 DEF CompositionTypeOK, enhVars
  <2>5. OutputsAreEncodings'
    BY <2>1 DEF CInv, CompositionWhole, OutputsAreEncodings
  <2>6. ~late' => OwnOutputIsStored' /\ NamedIsStored' /\ NamedBySuccess'
    <3>1. SUFFICES ASSUME ~late, Owns(r)
                   PROVE  OwnOutputIsStored' /\ NamedIsStored' /\ NamedBySuccess'
      BY <1>3
    <3>2. render[r].content \in files
      BY <1>1, <3>1 DEF CInv, CompositionWhole, OwnOutputIsStored, RenderAt
    <3> QED
      BY <1>1, <2>1, <2>2, <3>1, <3>2 DEF OwnOutputIsStored, NamedIsStored, NamedBySuccess
  <2> QED
    BY <1>2, <2>4, <2>5, <2>6 DEF CInv, CompositionWhole
<1>4. CASE RenderGoes(r, "recover") /\ UNCHANGED <<comp, late>>
  <2>1. /\ render' \in [Attempts -> Render] /\ compJob' = compJob
        /\ render'[r].at = "recover" /\ render'[r].content = render[r].content
        /\ \A q \in Attempts \ {r} : render'[q] = render[q]
    BY <1>1, <1>4, RenderOn
  <2>2. compJob' \in [status : LocalJobStatuses, attempts : 0..2]
        /\ \A q \in Attempts : Owns(q)' => Owns(q)
    BY <1>1, <2>1 DEF CompositionTypeOK, Owns
  <2> QED
    BY <1>1, <1>4, <2>1, <2>2, StatusKeeps DEF RenderAt
<1> QED
  BY <1>3, <1>4 DEF PersistComposition

\* What an attempt removes is not named by a finished composition any more; the one
\* with the lease, when it is another, makes the attempt late.
LEMMA UndoKeeps ==
  ASSUME CInv, NEW r \in Attempts, UndoComposition(r)
  PROVE  CInv'
<1>1. CompositionTypeOK /\ UNCHANGED sources /\ UNCHANGED enhVars
      /\ RenderEnds(r, "SUBMIT_UNKNOWN") /\ late' = (late \/ ~Owns(r))
      /\ comp' = [comp EXCEPT !.status = "PERSIST_UNKNOWN"]
      /\ files' \subseteq files
  BY DEF CInv, UndoComposition
<1>2. /\ render' \in [Attempts -> Render] /\ render'[r].at = "over"
      /\ \A q \in Attempts \ {r} : render'[q] = render[q]
      /\ compJob' \in [status : LocalJobStatuses, attempts : 0..2]
      /\ \A q \in Attempts : Owns(q)' => Owns(q) /\ ~Owns(r)
  BY <1>1, RenderOver
<1>3. comp' \in Composition /\ comp'.artifact = comp.artifact
      /\ comp'.status = "PERSIST_UNKNOWN"
  BY <1>1 DEF CompositionTypeOK, Composition, Renderable
<1>4. late' \in BOOLEAN
  BY <1>1
<1>5. CompositionTypeOK'
  BY <1>1, <1>2, <1>3, <1>4 DEF CompositionTypeOK, enhVars
<1>6. OutputsAreEncodings'
  BY <1>2 DEF CInv, CompositionWhole, OutputsAreEncodings
<1>7. ~late' => OwnOutputIsStored' /\ NamedIsStored' /\ NamedBySuccess'
  <2>1. SUFFICES ASSUME ~late, Owns(r)
                 PROVE  OwnOutputIsStored' /\ NamedIsStored' /\ NamedBySuccess'
    BY <1>1
  <2>2. compJob.status = "RUNNING"
    BY <2>1 DEF Owns
  <2>3. comp.artifact = "none"
    BY <2>1, <2>2 DEF CInv, CompositionWhole, NamedBySuccess
  <2> QED
    BY <1>2, <1>3, <2>1, <2>3 DEF OwnOutputIsStored, NamedIsStored, NamedBySuccess
<1>8. EnhancementWhole'
  BY <1>1, EnhancementApart DEF CInv
<1> QED
  BY <1>5, <1>6, <1>7, <1>8 DEF CInv, CompositionWhole

-----------------------------------------------------------------------------
(* The enhancement *)

\* The attempt ends: a job that announced is FAILED by nothing.
LEMMA EnhanceOver ==
  ASSUME CInv, NEW status \in {"SUCCEEDED", "FAILED", "SUBMIT_UNKNOWN"}, EnhanceEnds(status)
  PROVE  /\ enhance' = "over"
         /\ enhJob' \in [status : LocalJobStatuses, announced : BOOLEAN]
         /\ enhJob'.announced <=> enhJob.announced
         /\ enhJob'.status = "FAILED" => ~enhJob.announced
<1> DEFINE told == IF enhJob.announced THEN "SUBMIT_UNKNOWN" ELSE status
           said(s) == [enhJob EXCEPT !.status = s]
<1>1. enhJob \in [status : LocalJobStatuses, announced : BOOLEAN]
      /\ (enhJob.status = "FAILED" => ~enhJob.announced)
  BY DEF CInv, CompositionTypeOK, EnhancementWhole, StoredAsAnnounced
<1>2. \A s \in {"SUCCEEDED", "FAILED", "SUBMIT_UNKNOWN"} :
        /\ said(s) \in [status : LocalJobStatuses, announced : BOOLEAN]
        /\ said(s).status = s
        /\ said(s).announced <=> enhJob.announced
  BY <1>1 DEF LocalJobStatuses
<1>3. enhance' = "over"
      /\ enhJob' \in {enhJob, said(told)}
                       \cup (IF status = "SUCCEEDED" THEN {said(status)} ELSE {})
  BY DEF EnhanceEnds
<1>4. told \in {"SUCCEEDED", "FAILED", "SUBMIT_UNKNOWN"}
      /\ (told = "FAILED" => ~enhJob.announced)
  OBVIOUS
<1> HIDE DEF told, said
<1> QED
  BY <1>1, <1>2, <1>3, <1>4

\* Steps that store nothing: the job goes on or ends, and announces at most.
LEMMA EnhanceKeeps ==
  ASSUME CInv, UNCHANGED compVars,
         enhJob' \in [status : LocalJobStatuses, announced : BOOLEAN],
         enhJob.announced => enhJob'.announced,
         enhJob'.status = "FAILED" => ~enhJob'.announced,
         enhance' \in {"idle", "check", "encode", "announce", "subtitle", "over", enhance},
         enhance' = "subtitle" => enhJob'.announced,
         enh' = enh \/ \E status \in {"QUEUED", "ENHANCING", "VERIFYING", "FAILED",
                                      "PERSIST_UNKNOWN"} : enh' = [enh EXCEPT !.status = status],
         enhFiles' = enhFiles
  PROVE  CInv'
<1>1. /\ enh' \in Enhancement
      /\ enh'.artifact <=> enh.artifact
      /\ enh'.status = "SUCCEEDED" => enh.status = "SUCCEEDED"
  BY DEF CInv, CompositionTypeOK, Enhancement, Renderable
<1>2. CompositionTypeOK'
  BY <1>1 DEF CInv, CompositionTypeOK, compVars
<1>3. EnhancementWhole'
  BY <1>1 DEF CInv, EnhancementWhole, StoredInOrder, StoredAsAnnounced
<1>4. CompositionWhole'
  BY CompositionApart DEF CInv
<1> QED
  BY <1>2, <1>3, <1>4 DEF CInv

LEMMA EnhancementStep ==
  ASSUME CInv,
         \/ EnqueueEnhancement \/ ClaimEnhancement \/ EnhancementLeaseEnds
         \/ CheckEnhancement \/ Encode \/ AnnouncePersist \/ StoreSubtitle \/ StoreEnhanced
         \/ PersistEnhancement \/ EnhanceFails \/ EnhanceDies
  PROVE  CInv'
<1>1. /\ CompositionTypeOK /\ enhJob \in [status : LocalJobStatuses, announced : BOOLEAN]
      /\ StoredInOrder /\ StoredAsAnnounced
  BY DEF CInv, CompositionTypeOK, EnhancementWhole
<1>2. UNCHANGED compVars
  BY DEF EnqueueEnhancement, ClaimEnhancement, EnhancementLeaseEnds, CheckEnhancement, Encode,
         AnnouncePersist, StoreSubtitle, StoreEnhanced, PersistEnhancement, EnhanceFails,
         EnhanceDies
<1>3. \A status \in LocalJobStatuses :
        /\ [enhJob EXCEPT !.status = status]
             \in [status : LocalJobStatuses, announced : BOOLEAN]
        /\ [enhJob EXCEPT !.status = status].status = status
        /\ [enhJob EXCEPT !.status = status].announced <=> enhJob.announced
  BY <1>1
<1>4. CASE EnqueueEnhancement
  <2>1. /\ enhJob' = [enhJob EXCEPT !.status = "QUEUED"]
        /\ enh' = [enh EXCEPT !.status = "QUEUED"]
        /\ UNCHANGED <<enhance, enhFiles>>
    BY <1>4 DEF EnqueueEnhancement
  <2> QED
    BY <1>1, <1>2, <1>3, <2>1, EnhanceKeeps DEF LocalJobStatuses, StoredAsAnnounced
<1>5. CASE ClaimEnhancement
  <2>1. enhJob' = [enhJob EXCEPT !.status = "RUNNING"] /\ enhance' = "check"
        /\ UNCHANGED <<enh, enhFiles>>
    BY <1>5 DEF ClaimEnhancement
  <2> QED
    BY <1>1, <1>2, <1>3, <2>1, EnhanceKeeps DEF LocalJobStatuses
<1>6. CASE EnhancementLeaseEnds
  <2> DEFINE told == IF enhJob.announced THEN "SUBMIT_UNKNOWN" ELSE "FAILED"
  <2>1. enhJob' = [enhJob EXCEPT !.status = told] /\ UNCHANGED <<enh, enhance, enhFiles>>
    BY <1>6 DEF EnhancementLeaseEnds
  <2>2. told \in LocalJobStatuses /\ (told = "FAILED" => ~enhJob.announced)
    BY DEF LocalJobStatuses
  <2> HIDE DEF told
  <2> QED
    BY <1>1, <1>2, <1>3, <2>1, <2>2, EnhanceKeeps DEF StoredAsAnnounced
\* Ends and steps of the attempt that leave what is stored alone.
<1>7. ASSUME NEW status \in {"SUCCEEDED", "FAILED", "SUBMIT_UNKNOWN"}, EnhanceEnds(status),
             enh' = enh \/ \E s \in {"FAILED", "PERSIST_UNKNOWN"} :
                             enh' = [enh EXCEPT !.status = s],
             enhFiles' = enhFiles
      PROVE  CInv'
  <2>1. /\ enhance' = "over"
        /\ enhJob' \in [status : LocalJobStatuses, announced : BOOLEAN]
        /\ enhJob'.announced <=> enhJob.announced
        /\ enhJob'.status = "FAILED" => ~enhJob.announced
    BY <1>7, EnhanceOver
  <2> QED
    BY <1>2, <1>7, <2>1, EnhanceKeeps
<1>8. ASSUME NEW at \in {"encode", "announce"}, EnhanceGoes(at), enhFiles' = enhFiles,
             \E s \in {"ENHANCING", "VERIFYING"} : enh' = [enh EXCEPT !.status = s]
      PROVE  CInv'
  BY <1>1, <1>2, <1>8, EnhanceKeeps DEF EnhanceGoes, StoredAsAnnounced
<1>9. CASE CheckEnhancement
  <2>1. enhFiles' = enhFiles
        /\ \/ enh' = [enh EXCEPT !.status = "ENHANCING"] /\ EnhanceGoes("encode")
           \/ enh' = [enh EXCEPT !.status = "FAILED"] /\ EnhanceEnds("FAILED")
    BY <1>9 DEF CheckEnhancement
  <2> QED
    BY <1>7, <1>8, <2>1
<1>10. CASE Encode
  <2>1. enhFiles' = enhFiles
        /\ \/ enh' = [enh EXCEPT !.status = "VERIFYING"] /\ EnhanceGoes("announce")
           \/ enh' = [enh EXCEPT !.status = "FAILED"] /\ EnhanceEnds("FAILED")
    BY <1>10 DEF Encode
  <2> QED
    BY <1>7, <1>8, <2>1
<1>11. CASE AnnouncePersist
  <2>1. [enhJob EXCEPT !.announced = TRUE]
          \in [status : LocalJobStatuses, announced : BOOLEAN]
        /\ [enhJob EXCEPT !.announced = TRUE].announced = TRUE
        /\ [enhJob EXCEPT !.announced = TRUE].status = enhJob.status
    BY <1>1
  <2>2. CASE enhJob.status = "RUNNING"
    <3>1. enhance' = "subtitle" /\ enhJob' = [enhJob EXCEPT !.announced = TRUE]
          /\ UNCHANGED <<enh, enhFiles>>
      BY <1>11, <2>2 DEF AnnouncePersist
    <3> QED
      BY <1>1, <1>2, <2>1, <2>2, <3>1, EnhanceKeeps
  <2>3. CASE enhJob.status # "RUNNING"
    <3>1. enhance' = "over" /\ UNCHANGED <<enhJob, enh, enhFiles>>
      BY <1>11, <2>3 DEF AnnouncePersist
    <3> QED
      BY <1>1, <1>2, <3>1, EnhanceKeeps DEF StoredAsAnnounced
  <2> QED
    BY <2>2, <2>3
<1>12. CASE EnhanceFails
  BY <1>7, <1>12 DEF EnhanceFails
<1>13. CASE EnhanceDies
  <2>1. enhance' = "over" /\ UNCHANGED <<enhJob, enh, enhFiles>>
    BY <1>13 DEF EnhanceDies
  <2> QED
    BY <1>1, <1>2, <2>1, EnhanceKeeps DEF StoredAsAnnounced
<1>14. CompositionWhole'
  BY <1>2, CompositionApart DEF CInv
<1>15. CASE StoreSubtitle \/ StoreEnhanced
  <2>1. /\ enhJob' = enhJob /\ enh' = enh /\ enhFiles \subseteq enhFiles'
        /\ enhFiles' \subseteq enhFiles \cup {"subtitle", "video"}
        /\ \/ enhance = "subtitle" /\ enhance' = "video" /\ "subtitle" \in enhFiles'
           \/ enhance = "video" /\ enhance' = "persist" /\ "video" \in enhFiles'
    BY <1>15 DEF StoreSubtitle, StoreEnhanced, EnhanceGoes
  <2>2. CompositionTypeOK'
    BY <1>1, <1>2, <2>1 DEF CompositionTypeOK, compVars
  <2>3. EnhancementWhole'
    BY <1>1, <2>1 DEF EnhancementWhole, StoredInOrder, StoredAsAnnounced
  <2> QED
    BY <1>14, <2>2, <2>3 DEF CInv
<1>16. CASE PersistEnhancement
  <2>1. CASE enh' = [status |-> "SUCCEEDED", artifact |-> TRUE] /\ EnhanceEnds("SUCCEEDED")
    <3>1. /\ enhance' = "over"
          /\ enhJob' \in [status : LocalJobStatuses, announced : BOOLEAN]
          /\ enhJob'.announced <=> enhJob.announced
          /\ enhJob'.status = "FAILED" => ~enhJob.announced
      BY <2>1, EnhanceOver
    <3>2. enh' \in Enhancement /\ enh'.artifact = TRUE
      BY <2>1 DEF Enhancement
    <3>3. enhFiles' = enhFiles /\ enhance = "persist"
      BY <1>16 DEF PersistEnhancement
    <3>4. CompositionTypeOK'
      BY <1>1, <1>2, <3>1, <3>2, <3>3 DEF CompositionTypeOK, compVars
    <3>5. EnhancementWhole'
      BY <1>1, <3>1, <3>2, <3>3 DEF EnhancementWhole, StoredInOrder, StoredAsAnnounced
    <3> QED
      BY <1>14, <3>4, <3>5 DEF CInv
  <2>2. CASE enh' = [enh EXCEPT !.status = "PERSIST_UNKNOWN"]
             /\ EnhanceEnds("SUBMIT_UNKNOWN")
    BY <1>7, <1>16, <2>2 DEF PersistEnhancement
  <2> QED
    BY <1>16, <2>1, <2>2 DEF PersistEnhancement
<1> QED
  BY <1>4, <1>5, <1>6, <1>9, <1>10, <1>11, <1>12, <1>13, <1>15, <1>16

LEMMA CompositionStep == CInv /\ [CompositionNext]_compositionVars => CInv'
<1> SUFFICES ASSUME CInv, [CompositionNext]_compositionVars PROVE CInv'
  OBVIOUS
<1>1. CASE \/ SourceSpoils \/ EnqueueComposition \/ CompositionLeaseEnds
           \/ RetryComposition \/ \E r \in Attempts : ClaimComposition(r)
  <2>1. UNCHANGED enhVars
    BY <1>1 DEF SourceSpoils, EnqueueComposition, CompositionLeaseEnds, RetryComposition,
                ClaimComposition
  <2> QED
    BY <1>1, <2>1, JobKeeps
<1>2. ASSUME NEW r \in Attempts,
             \/ LoadComposition(r) \/ ResolveShots(r) \/ Compose(r) \/ RenderFails(r)
             \/ RecoverComposition(r) \/ RenderDies(r)
      PROVE  CInv'
  BY <1>2, AttemptKeeps
<1>3. ASSUME NEW r \in Attempts,
             StoreComposition(r) \/ PersistComposition(r) \/ UndoComposition(r)
      PROVE  CInv'
  BY <1>3, StoreKeeps, PersistKeeps, UndoKeeps
<1>4. CASE \/ EnqueueEnhancement \/ ClaimEnhancement \/ EnhancementLeaseEnds
           \/ CheckEnhancement \/ Encode \/ AnnouncePersist \/ StoreSubtitle \/ StoreEnhanced
           \/ PersistEnhancement \/ EnhanceFails \/ EnhanceDies
  BY <1>4, EnhancementStep
<1>5. CASE UNCHANGED compositionVars
  <2>1. UNCHANGED compVars /\ UNCHANGED enhVars
    BY <1>5 DEF compositionVars
  <2>2. CompositionTypeOK'
    BY <2>1 DEF CInv, CompositionTypeOK, compVars, enhVars
  <2> QED
    BY <2>1, <2>2, CompositionApart, EnhancementApart DEF CInv
<1> QED
  BY <1>1, <1>2, <1>3, <1>4, <1>5 DEF CompositionNext

\* However attempts fail, are repeated and meet, the invariant holds.
THEOREM CompositionInvariance == CompositionSpec => []CInv
  BY CompositionStarts, CompositionStep, PTL DEF CompositionSpec

\* A composition or enhancement that is listed as finished has its files, unless an
\* attempt that had lost its lease ended the composition or removed a file.
THEOREM FinishedAreThere == CompositionSpec => []FinishedVideosExist
<1>1. CInv => FinishedVideosExist
  BY DEF CInv, CompositionTypeOK, CompositionWhole, EnhancementWhole, NamedIsStored,
         StoredInOrder, FinishedVideosExist, CanServe
<1> QED
  BY <1>1, CompositionInvariance, PTL

\* A FAILED enhancement has stored nothing, and a composition of unknown outcome has no
\* artifact but one that a late attempt added.
THEOREM LocalReportsHold == CompositionSpec => []LocalReportsAreTrue
<1>1. CInv => LocalReportsAreTrue
  BY DEF CInv, CompositionWhole, EnhancementWhole, NamedBySuccess, StoredAsAnnounced,
         LocalReportsAreTrue
<1> QED
  BY <1>1, CompositionInvariance, PTL

-----------------------------------------------------------------------------
(***************************************************************************)
(* The components together                                                 *)
(***************************************************************************)

\* A step of the application is a step of each component or leaves it alone.
LEMMA StepsOfOne ==
  [Next]_vars =>
    /\ [ChainNext]_chainVars /\ [ScriptNext]_scriptVars /\ [BatchNext]_batchVars
    /\ [KitNext]_kitVars /\ [CompositionNext]_compositionVars
    /\ [AccountNext]_accountVars /\ [SnapshotNext]_snapshotVars
    /\ [MigrationNext]_migrationVars
<1> SUFFICES ASSUME [Next]_vars
             PROVE  /\ [ChainNext]_chainVars /\ [ScriptNext]_scriptVars
                    /\ [BatchNext]_batchVars /\ [KitNext]_kitVars
                    /\ [CompositionNext]_compositionVars /\ [AccountNext]_accountVars
                    /\ [SnapshotNext]_snapshotVars /\ [MigrationNext]_migrationVars
  OBVIOUS
<1>1. CASE UNCHANGED vars
  BY <1>1 DEF vars, contentVars
<1>2. CASE Next
  BY <1>2 DEF Next, ChainNext, ContentOnly, contentVars
<1> QED
  BY <1>1, <1>2

\* A behaviour of the application is one of each component: what is proved of a component
\* is true of it in the application.
THEOREM ComponentsRun ==
  Spec => /\ ChainSpec /\ ScriptSpec /\ BatchSpec /\ KitSpec /\ CompositionSpec
          /\ AccountSpec /\ SnapshotSpec /\ MigrationSpec
<1>1. Init => /\ ChainInit /\ ScriptInit /\ BatchInit /\ KitInit /\ CompositionInit
              /\ AccountInit /\ SnapshotInit /\ MigrationInit
  BY DEF Init
<1> QED
  BY <1>1, StepsOfOne, PTL
  DEF Spec, ChainSpec, ScriptSpec, BatchSpec, KitSpec, CompositionSpec, AccountSpec,
      SnapshotSpec, MigrationSpec

\* The rows keep the types of their columns and every request, run and handler is at one
\* of its steps, in all the components.
THEOREM ApplicationTypes == Spec => []ApplicationTypeOK
<1>1. ChainInv /\ ScriptInv /\ BatchInv /\ KInv /\ CInv =>
        ChainTypeOK /\ ScriptTypeOK /\ BatchTypeOK /\ KitTypeOK /\ CompositionTypeOK
  BY DEF ChainInv, ScriptInv, BatchInv, KInv, CInv
<1>2. AInv /\ SInv /\ MInv => AccountTypeOK /\ SnapshotTypeOK /\ MigrationTypeOK
  BY DEF AInv, SInv, MInv
<1>3. SnapshotSpec => []SInv
  BY InitKeepsVideo, StepKeepsVideo, PTL DEF SnapshotSpec
<1>4. MigrationSpec => []MInv
  BY InitKeepsMInv, NextKeepsMInv, PTL DEF MigrationSpec
<1>5. ApplicationTypeOK <=>
        /\ ChainTypeOK /\ ScriptTypeOK /\ BatchTypeOK /\ KitTypeOK /\ CompositionTypeOK
        /\ AccountTypeOK /\ SnapshotTypeOK /\ MigrationTypeOK
  BY DEF ApplicationTypeOK
<1> QED
  BY <1>1, <1>2, <1>3, <1>4, <1>5, ComponentsRun, ChainInvariance, ScriptInvariance,
     BatchInvariance, KitInvariance, CompositionInvariance, AccountInvariance, PTL

\* What is reported of a job, a batch or an edit is so: of texts and scripts in the queue,
\* of local compositions, of a batch shown ready, of an editor told to give up.
THEOREM ReportsStayTrue == Spec => []ReportsAreTrue
<1>1. ReportsAreTrue <=>
        /\ TextReportsAreTrue /\ ScriptReportsAreTrue /\ LocalReportsAreTrue
        /\ ShownReadyIsReady /\ ContestedGivesUp
  BY DEF ReportsAreTrue
<1> QED
  BY <1>1, ComponentsRun, TextReportsHold, ScriptReportsHold, LocalReportsHold,
     ReadyIsShownWhenReady, OnlyContestedGiveUp, PTL
=============================================================================
