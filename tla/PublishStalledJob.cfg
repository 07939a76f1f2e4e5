\* Two overlapping executions of one publish job, retried once.
SPECIFICATION Spec
CONSTANTS
  Workers = {w1, w2}
  w1 = w1
  w2 = w2
  Sweeps = {}
  Checks = {}
  Syncs = {}
  Drafts = {t1}
  t1 = t1
  Foreign = {}
  Absent = absent
  NoProc = noProc
  MaxCycle = 1
  MaxRuns = 2
  MaxOutside = 0
  MaxEdits = 0
  GraceReads = 1
SYMMETRY WorkerSymmetry
INVARIANTS
  FailureIsHonest
  OneWritePerCycle
CHECK_DEADLOCK FALSE
