\* One review: facts in any order, erasure, a new epoch, a manager.
SPECIFICATION Spec
CONSTANTS
  Own = own
  Other = other
  NoReply = noReply
  Erased = erased
  Nothing = nothing
  ReadSources = {"provider_snapshot", "targeted_reconciliation"}
  Measured = TRUE
  MaxSequence = 3
  MaxEpoch = 1
  MaxReadings = 2
  MaxCycles = 3
INVARIANTS
  CyclesTypeOK
  OneCyclePerMaterialRevision
  AnsweredByItsOwnReading
  ReopenOutlivesOldReading
  InboxCatchesUp
  ErasedSourceCloses
  AnsweredReviewCloses
PROPERTIES
  OpenWorkNeedsLiveSource
