\* Two requests for one video, then refreshes and publications, with every fault.
SPECIFICATION Spec
CONSTANTS
  MaxRequests = 2
  MaxFollowUps = 3
  MaxOutliving = 1
  Edits = {"account"}
  Faults <- AnyFault
INVARIANTS
  PTypeOK
  UploadedOnce
  FailureMeansNothingSent
  RepublishedInDoubtOnly
CHECK_DEADLOCK FALSE
