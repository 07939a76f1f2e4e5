\* One worker and the sweep; a manager may retry what failed.
SPECIFICATION FairSpec
CONSTANTS
  Workers = {w1}
  w1 = w1
  Sweeps = {sweep}
  sweep = sweep
  Checks = {}
  Syncs = {}
  Drafts = {t1}
  t1 = t1
  Foreign = {}
  Absent = absent
  NoProc = noProc
  MaxCycle = 2
  MaxRuns = 1
  MaxOutside = 0
  MaxEdits = 0
  GraceReads = 1
PROPERTIES
  OpenCyclesSettle
  NoNewCycleOverAnUnknown
CHECK_DEADLOCK FALSE
