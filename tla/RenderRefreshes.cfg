\* Refreshes that overlap and fail, in processes that live.
SPECIFICATION Spec
CONSTANTS
  Callers = {c1, c2}
  MaxEdits = 0
  MaxRefreshes = 2
  Faults <- FailedWrites
SYMMETRY Symmetry
INVARIANTS
  TasksMirrorTheProvider
  NoFileIsOrphaned
