\* Texts by request and by job, scripts, a batch under control, editors of a brand kit,
\* a composition and its enhancement, a social account, snapshots, the migration of
\* the database.
SPECIFICATION Spec
CONSTANTS
  Clients = {a1, a2}
  Runners = {a1, a2}
  Drafts = {"a", "b"}
  MaxTexts = 2
  MaxTextJobs = 2
  Requests = {a1, a2}
  ScriptKeys = {"k", "l"}
  Writers = {a1, a2}
  WriterKeys = {"l"}
  MaxEdits = 1
  MaxQuota = 2
  MaxVersions = 2
  VariantCount = 2
  MaxConcurrency = 1
  Controllers = {a1, a2}
  Editors = {a1, a2, a3}
  Contents = {"a", "b", "c", "d"}
  Products = {p1}
  MaxRetries = 1
  Encodings = {"x", "y"}
  Callers = {a1, a2}
  States = {a1, a2}
  Browsers = {a1, a2}
  MaxTokens = 2
  Presenters = {a1, a2}
  Sources = {"a", "b"}
  MaxSnapshots = 3
  Operations = {a1, a2}
  HeadRevision = 4
  Known = {1, 3, 4}
  Stampable = {1, 4}
  MaxBackups = 2
  MaxWrites = 2
SYMMETRY Symmetry
INVARIANTS
  ApplicationTypeOK
  ReportsAreTrue
  PromptsAreConfirmed
  FirstProjectOnce
  CallsAreReserved
  ScriptHistoryIsWhole
  VersionsAreAHistory
  FinishedVideosExist
  StateUsedOnce
  TokensFollowTheStatus
  SnapshotsKeepTheirVideo
  DataIsRecoverable
PROPERTIES
  OnlyConsentConnects
  RunningJobIsLeftAlone
  EndsAreKept
  FailedUpgradeChangesNothing
CHECK_DEADLOCK FALSE
