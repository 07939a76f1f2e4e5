\* The guest edits the review at any moment of a publication.
SPECIFICATION Spec
CONSTANTS
  Workers = {w1}
  w1 = w1
  Sweeps = {}
  Checks = {check}
  check = check
  Syncs = {}
  Drafts = {t1, t2}
  t1 = t1
  t2 = t2
  Foreign = {}
  Absent = absent
  NoProc = noProc
  MaxCycle = 2
  MaxRuns = 1
  MaxOutside = 0
  MaxEdits = 1
  GraceReads = 0
SYMMETRY DraftSymmetry
INVARIANTS
  TypeOK
  AttemptAgreesWithReply
PROPERTIES
  KeepsPublicationPromise
CHECK_DEADLOCK FALSE
