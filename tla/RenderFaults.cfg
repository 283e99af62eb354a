\* Handlers and requests that meet, fail, lose their lease and die.
SPECIFICATION Spec
CONSTANTS
  Callers = {c1, c2}
  MaxEdits = 1
  MaxRefreshes = 1
  Faults <- AllFaults
SYMMETRY Symmetry
INVARIANTS
  SubmittedOnce
  ClaimsAreExclusive
  AdviceIsSafe
  ArtifactsAreWhole
PROPERTIES
  SubmitReportsAreTrue
  DeclaredUnlessCanceled
