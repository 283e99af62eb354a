---------------------------- MODULE ContentChain ----------------------------
(***************************************************************************)
(* The texts Qwen writes for one product: strategy, copy matrix, video      *)
(* project, and the second versions growth feedback asks for.  A client     *)
(* generates in its own request or puts a job in the execution queue; a     *)
(* runner of a worker executes it.  The operator confirms a digest of the   *)
(* input; the product may be edited at any time, so what the prompt says    *)
(* depends on when its parts are read.  A prompt is abstracted to whether   *)
(* it says what was confirmed.  Stored texts never change.                  *)
(***************************************************************************)
EXTENDS Naturals, Sequences, FiniteSets

CONSTANTS
  Clients,     \* requests that generate
  Runners,     \* worker processes, each executing one job at a time
  Drafts,      \* contents the product may have
  MaxTexts,    \* bound: rows of each table
  MaxTextJobs  \* bound: jobs

ASSUME ChainAssumption == MaxTexts \in Nat \ {0} /\ MaxTextJobs \in Nat /\ Drafts # {}

VARIABLES
  product,     \* the product's content
  figures,     \* the campaign figures imported for it
  strategies, copies, projects,   \* the rows, by id
  textJobs,    \* the jobs of the three types, by id
  client, runner

chainVars == <<product, figures, strategies, copies, projects, textJobs, client, runner>>
tables == <<strategies, copies, projects>>
productSide == <<product, figures>>

FirstDraft == CHOOSE draft \in Drafts : TRUE

NoChoice == [kind |-> "none", strategy |-> 0, copy |-> 0]
IdleClient == [at |-> "idle", choice |-> NoChoice, draft |-> "none", context |-> <<0, 0>>,
               exact |-> FALSE]
IdleRunner == [at |-> "idle", job |-> 0, attempt |-> 0, exact |-> FALSE]

\* job is 0 in a row a request wrote itself.
NewRow(choice, exact, job) ==
  [kind |-> choice.kind, strategy |-> choice.strategy, copy |-> choice.copy,
   exact |-> exact, job |-> job]
FirstStrategy == NewRow([NoChoice EXCEPT !.kind = "strategy"], TRUE, 0)
FirstCopy == NewRow([kind |-> "copy", strategy |-> 1, copy |-> 0], TRUE, 0)

ChainInit ==
  /\ product \in Drafts
  /\ figures = 0
  /\ \/ strategies = <<>> /\ copies = <<>>
     \/ strategies = <<FirstStrategy>> /\ copies = <<FirstCopy>>
  /\ projects = <<>>
  /\ textJobs = <<>>
  /\ client = [c \in Clients |-> IdleClient]
  /\ runner = [w \in Runners |-> IdleRunner]

-----------------------------------------------------------------------------
(* What is read, and what is ready *)

SameChain(strategy, copy) == copies[copy].strategy = strategy

\* The exact content chain of the feedback context: the latest project, whole.
ChainReady ==
  /\ projects # <<>>
  /\ LET p == projects[Len(projects)] IN copies[p.copy].strategy = p.strategy
\* Its digest: the latest project's id and the figures.
Context == <<Len(projects), figures>>
ContextReady == ChainReady /\ figures > 0
Latest == projects[Len(projects)]

\* The sources each preflight asks for and accepts.
StrategyReady(choice) == choice.kind = "strategy" /\ choice.strategy = 0 /\ choice.copy = 0
CopyReady(choice) ==
  choice.kind = "copy" /\ choice.strategy \in 1..Len(strategies) /\ choice.copy = 0
ProjectReady(choice) ==
  /\ choice.kind = "initial"
  /\ choice.strategy \in 1..Len(strategies) /\ choice.copy \in 1..Len(copies)
  /\ SameChain(choice.strategy, choice.copy)
CopyAgainReady(choice) ==
  /\ choice.kind = "v2 copy" /\ ContextReady
  /\ choice.strategy = Latest.strategy /\ choice.copy = 0
CandidateValid(choice) ==
  /\ choice.copy \in 1..Len(copies) \ {Latest.copy}
  /\ copies[choice.copy].strategy = choice.strategy
ProjectAgainReady(choice) ==
  /\ choice.kind = "v2 project" /\ ContextReady
  /\ choice.strategy = Latest.strategy
  /\ CandidateValid(choice)

TextChoices == [kind : {"strategy", "copy", "initial", "v2 copy", "v2 project"},
            strategy : 0..MaxTexts, copy : 0..MaxTexts]

-----------------------------------------------------------------------------
(* The product and its figures *)

EditProduct ==
  /\ product' \in Drafts \ {product}
  /\ UNCHANGED <<figures, tables, textJobs, client, runner>>

ImportFigures ==
  /\ figures < 1
  /\ figures' = figures + 1
  /\ UNCHANGED <<product, tables, textJobs, client, runner>>

\* The rows a finished generation of each kind inserts.
Store(choice, exact, job) ==
  LET row == NewRow(choice, exact, job)
  IN CASE choice.kind = "strategy" ->
            /\ Len(strategies) < MaxTexts
            /\ strategies' = Append(strategies, row) /\ UNCHANGED <<copies, projects>>
       [] choice.kind \in {"copy", "v2 copy"} ->
            /\ Len(copies) < MaxTexts
            /\ copies' = Append(copies, row) /\ UNCHANGED <<strategies, projects>>
       [] OTHER ->
            /\ Len(projects) < MaxTexts
            /\ projects' = Append(projects, row) /\ UNCHANGED <<strategies, copies>>

-----------------------------------------------------------------------------
(* Generation in the request *)

ClientGoes(c, record) == client' = [client EXCEPT ![c] = record]

\* Strategy and copy of a task, or of the product: the rows that are read first are
\* held until the prompt is built, so the prompt says what the preflight accepted.
GenerateText(c) ==
  /\ client[c].at = "idle"
  /\ \E choice \in TextChoices :
       /\ StrategyReady(choice) \/ CopyReady(choice)
       /\ ClientGoes(c, [IdleClient EXCEPT !.at = "called", !.choice = choice,
                                           !.exact = TRUE])
  /\ UNCHANGED <<productSide, tables, textJobs, runner>>

\* The content studio takes the latest strategy, then the latest copy.
StudioReadsStrategy(c) ==
  /\ client[c].at = "idle" /\ strategies # <<>>
  /\ ClientGoes(c, [IdleClient EXCEPT !.at = "studio",
         !.choice = [kind |-> "studio", strategy |-> Len(strategies), copy |-> 0]])
  /\ UNCHANGED <<productSide, tables, textJobs, runner>>

StudioReadsCopy(c) ==
  /\ client[c].at = "studio" /\ copies # <<>>
  /\ ClientGoes(c, [client[c] EXCEPT !.at = "called", !.choice.copy = Len(copies),
                                     !.exact = TRUE])
  /\ UNCHANGED <<productSide, tables, textJobs, runner>>

\* The preflight of a second version agrees with the digest that was confirmed.
CheckAgain(c) ==
  /\ client[c].at = "idle"
  /\ \E choice \in TextChoices :
       /\ CopyAgainReady(choice) \/ ProjectAgainReady(choice)
       /\ ClientGoes(c, [IdleClient EXCEPT !.at = "checked", !.choice = choice,
                                           !.draft = product, !.context = Context])
  /\ UNCHANGED <<productSide, tables, textJobs, runner>>

\* Context and product are read again; only the context is compared.
ReadAgain(c) ==
  /\ client[c].at = "checked"
  /\ IF client[c].context = Context /\ ContextReady
     THEN ClientGoes(c, [client[c] EXCEPT !.at = "called",
                                          !.exact = (product = client[c].draft)])
     ELSE ClientGoes(c, IdleClient)
  /\ UNCHANGED <<productSide, tables, textJobs, runner>>

StoreInRequest(c) ==
  /\ client[c].at = "called"
  /\ Store(client[c].choice, client[c].exact, 0)
  /\ ClientGoes(c, IdleClient)
  /\ UNCHANGED <<productSide, textJobs, runner>>

\* Refused, answered with nothing usable, or gone: no row.
GiveUpInRequest(c) ==
  /\ client[c].at # "idle"
  /\ ClientGoes(c, IdleClient)
  /\ UNCHANGED <<productSide, tables, textJobs, runner>>

-----------------------------------------------------------------------------
(* Generation through the queue *)

SameInput(j, choice) == textJobs[j].choice = choice /\ textJobs[j].draft = product

\* What is confirmed is the input as it is; an input has one job, whatever its state.
EnqueueText ==
  /\ Len(textJobs) < MaxTextJobs
  /\ \E choice \in TextChoices :
       /\ StrategyReady(choice) \/ CopyReady(choice) \/ ProjectReady(choice)
       /\ \A j \in DOMAIN textJobs : ~SameInput(j, choice)
       /\ textJobs' = Append(textJobs,
            [choice |-> choice, draft |-> product, status |-> "QUEUED", attempts |-> 0,
             external |-> FALSE, paid |-> FALSE, result |-> FALSE])
  /\ UNCHANGED <<productSide, tables, client, runner>>

RunnerGoes(w, record) == runner' = [runner EXCEPT ![w] = record]
RunnerAt(w, at) == runner[w].at = at
JobOf(w) == textJobs[runner[w].job]
OwnsText(w) == JobOf(w).status = "RUNNING" /\ JobOf(w).attempts = runner[w].attempt
ReportText(w, status) ==
  /\ textJobs' = IF OwnsText(w) THEN [textJobs EXCEPT ![runner[w].job].status = status]
                            ELSE textJobs
  /\ RunnerGoes(w, IdleRunner)

\* Mutant: jobs of one product run side by side.
SlotFreeAlways(j) == TRUE
SlotFree(j) ==
  \A k \in DOMAIN textJobs :
    textJobs[k].choice.kind = textJobs[j].choice.kind => textJobs[k].status # "RUNNING"

ClaimText(w, j) ==
  /\ RunnerAt(w, "idle")
  /\ textJobs[j].status = "QUEUED" /\ SlotFree(j)
  /\ textJobs' = [textJobs EXCEPT ![j].status = "RUNNING", ![j].attempts = @ + 1]
  /\ RunnerGoes(w, [at |-> "claimed", job |-> j, attempt |-> textJobs[j].attempts + 1,
                    exact |-> FALSE])
  /\ UNCHANGED <<productSide, tables, client>>

\* Mutant: as for a project, the prompt reads the product once more.
KeepsNothing(choice) == FALSE
\* The strategy and copy handlers hold the rows the digest is computed from.
KeepsSources(choice) == choice.kind # "initial"

CheckText(w) ==
  /\ RunnerAt(w, "claimed")
  /\ IF JobOf(w).draft # product
     THEN ReportText(w, "FAILED")
     ELSE /\ RunnerGoes(w, [runner[w] EXCEPT !.exact = TRUE,
               !.at = IF KeepsSources(JobOf(w).choice) THEN "ready" ELSE "checked"])
          /\ UNCHANGED textJobs
  /\ UNCHANGED <<productSide, tables, client>>

\* Mutant: an existing project is not looked for.
InitialNever(choice) == {}
InitialProjects(choice) ==
  {p \in DOMAIN projects : projects[p].strategy = choice.strategy
                           /\ projects[p].copy = choice.copy}

\* generate_frozen: reuse the project of this identity, or read the sources again.
\* Its lock is one of the process, whose handler thread is alone.
FindInitialProject(w) ==
  /\ RunnerAt(w, "checked")
  /\ IF InitialProjects(JobOf(w).choice) # {}
     THEN /\ textJobs' = IF OwnsText(w)
                         THEN [textJobs EXCEPT ![runner[w].job].status = "SUCCEEDED",
                                               ![runner[w].job].result = TRUE]
                         ELSE textJobs
          /\ RunnerGoes(w, IdleRunner)
     ELSE /\ RunnerGoes(w, [runner[w] EXCEPT !.at = "ready",
                                             !.exact = (product = JobOf(w).draft)])
          /\ UNCHANGED textJobs
  /\ UNCHANGED <<productSide, tables, client>>

\* Mutant: the queue is not told that something may be submitted.
AnnouncedNever(job) == job
Announced(job) == [job EXCEPT !.external = TRUE]

\* before_provider_call: a run that lost its lease ends here.
AnnounceText(w) ==
  /\ RunnerAt(w, "ready")
  /\ IF OwnsText(w)
     THEN /\ textJobs' = [textJobs EXCEPT ![runner[w].job] = Announced(@)]
          /\ RunnerGoes(w, [runner[w] EXCEPT !.at = "announced"])
     ELSE RunnerGoes(w, IdleRunner) /\ UNCHANGED textJobs
  /\ UNCHANGED <<productSide, tables, client>>

CallQwen(w) ==
  /\ RunnerAt(w, "announced")
  /\ textJobs' = [textJobs EXCEPT ![runner[w].job].paid = TRUE]
  /\ RunnerGoes(w, [runner[w] EXCEPT !.at = "answered"])
  /\ UNCHANGED <<productSide, tables, client>>

\* An error after the announcement, a refusal or an unusable answer as well, is
\* raised to the worker, which reports the submission unknown.
RefuseText(w) ==
  /\ runner[w].at \in {"announced", "answered"}
  /\ ReportText(w, "SUBMIT_UNKNOWN")
  /\ UNCHANGED <<productSide, tables, client>>

StoreText(w) ==
  /\ RunnerAt(w, "answered")
  /\ Store(JobOf(w).choice, runner[w].exact, runner[w].job)
  /\ textJobs' = [textJobs EXCEPT ![runner[w].job].result = TRUE]
  /\ RunnerGoes(w, [runner[w] EXCEPT !.at = "stored"])
  /\ UNCHANGED <<productSide, client>>

SucceedText(w) ==
  /\ RunnerAt(w, "stored")
  /\ ReportText(w, "SUCCEEDED")
  /\ UNCHANGED <<productSide, tables, client>>

RunnerDies(w) ==
  /\ ~RunnerAt(w, "idle")
  /\ RunnerGoes(w, IdleRunner)
  /\ UNCHANGED <<productSide, tables, textJobs, client>>

\* The lease of a job ends while its run lives on, or after it died.
TextLeaseEnds(j) ==
  /\ textJobs[j].status = "RUNNING"
  /\ textJobs' = [textJobs EXCEPT ![j].status =
       CASE textJobs[j].external -> "SUBMIT_UNKNOWN"
         [] ~textJobs[j].external /\ textJobs[j].attempts < 2 -> "QUEUED"
         [] OTHER -> "FAILED"]
  /\ UNCHANGED <<productSide, tables, client, runner>>

\* Mutant: attempts are not limited.
FailedJob(j) == textJobs[j].status = "FAILED"
Retryable(j) == textJobs[j].status = "FAILED" /\ textJobs[j].attempts < 2

RetryText(j) ==
  /\ Retryable(j)
  /\ textJobs' = [textJobs EXCEPT ![j].status = "QUEUED"]
  /\ UNCHANGED <<productSide, tables, client, runner>>

RequestNext ==
  \/ EditProduct \/ ImportFigures
  \/ \E c \in Clients :
       \/ GenerateText(c) \/ StudioReadsStrategy(c) \/ StudioReadsCopy(c)
       \/ CheckAgain(c) \/ ReadAgain(c) \/ StoreInRequest(c) \/ GiveUpInRequest(c)

QueueNext ==
  \/ EditProduct \/ EnqueueText
  \/ \E w \in Runners :
       \/ \E j \in DOMAIN textJobs : ClaimText(w, j)
       \/ CheckText(w) \/ FindInitialProject(w) \/ AnnounceText(w) \/ CallQwen(w)
       \/ RefuseText(w) \/ StoreText(w) \/ SucceedText(w) \/ RunnerDies(w)
  \/ \E j \in DOMAIN textJobs : TextLeaseEnds(j) \/ RetryText(j)

ChainNext == RequestNext \/ QueueNext

ChainSpec == ChainInit /\ [][ChainNext]_chainVars

-----------------------------------------------------------------------------
(* Properties *)

Choice == TextChoices \cup {NoChoice}
            \cup [kind : {"studio"}, strategy : 1..MaxTexts, copy : 0..MaxTexts]
Row == [kind : {"strategy", "copy", "v2 copy", "initial", "v2 project", "studio"},
        strategy : 0..MaxTexts, copy : 0..MaxTexts, exact : BOOLEAN, job : 0..MaxTextJobs]

TextJob ==
  [choice : TextChoices, draft : Drafts, attempts : 0..2,
   status : {"QUEUED", "RUNNING", "SUCCEEDED", "FAILED", "SUBMIT_UNKNOWN"},
   external : BOOLEAN, paid : BOOLEAN, result : BOOLEAN]
TextClient ==
  [at : {"idle", "studio", "checked", "called"}, exact : BOOLEAN, choice : Choice,
   draft : Drafts \cup {"none"}, context : (0..MaxTexts) \X (0..1)]
TextRunner ==
  [at : {"idle", "claimed", "checked", "ready", "announced", "answered", "stored"},
   job : 0..MaxTextJobs, attempt : 0..2, exact : BOOLEAN]

ChainTypeOK ==
  /\ product \in Drafts /\ figures \in 0..1
  /\ strategies \in Seq(Row) /\ copies \in Seq(Row) /\ projects \in Seq(Row)
  /\ textJobs \in Seq(TextJob)
  /\ client \in [Clients -> TextClient] /\ runner \in [Runners -> TextRunner]

\* A strategy or a copy that was paid for says what was confirmed for it, whatever is
\* edited while its job waits or runs.  (A project and a second version read the
\* product once more after the comparison, and may not.)
PromptsAreConfirmed ==
  /\ \A s \in DOMAIN strategies : strategies[s].exact
  /\ \A c \in DOMAIN copies : copies[c].kind = "copy" => copies[c].exact
  /\ \A w \in Runners :
       runner[w].at = "announced" /\ JobOf(w).choice.kind # "initial" => runner[w].exact

\* Two jobs that succeeded did not both generate the first project of one chain: a
\* second one exists only when a run outlived its lease.
FirstProjectOnce ==
  \A p, q \in DOMAIN projects :
    ( /\ p < q
      /\ projects[p].kind = "initial" /\ projects[q].kind = "initial"
      /\ projects[p].copy = projects[q].copy /\ projects[p].strategy = projects[q].strategy )
      => "SUBMIT_UNKNOWN" \in {textJobs[projects[p].job].status,
                               textJobs[projects[q].job].status}

\* A job that failed or waits for a retry has called no one, and one that succeeded has
\* its text.
TextReportsAreTrue ==
  \A j \in DOMAIN textJobs :
    /\ textJobs[j].status \in {"QUEUED", "FAILED"} => ~textJobs[j].paid
    /\ textJobs[j].status = "SUCCEEDED" => textJobs[j].result

\* A frozen source that changed fails the job before the provider is called: what a run
\* of an initial project is about to send is what was confirmed.
ChangedSourceFailsFirst ==
  \A w \in Runners : runner[w].at = "announced" => runner[w].exact
=============================================================================
