\* Why a refused, requeued cycle ends as provider truth.
SPECIFICATION Spec
CONSTANTS
  Workers = {w1}
  w1 = w1
  Sweeps = {}
  Checks = {check}
  check = check
  Syncs = {}
  Drafts = {t1}
  t1 = t1
  Foreign = {}
  Absent = absent
  NoProc = noProc
  MaxCycle = 1
  MaxRuns = 2
  MaxOutside = 0
  MaxEdits = 0
  GraceReads = 1
PROPERTIES
  EndsOnlyForAnUnseenReply
CHECK_DEADLOCK FALSE
