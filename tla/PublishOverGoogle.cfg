\* Someone types or deletes a reply on Google; the sync may see it.
SPECIFICATION Spec
CONSTANTS
  Workers = {w1}
  w1 = w1
  Sweeps = {}
  Checks = {}
  Syncs = {sync}
  sync = sync
  Drafts = {t1}
  t1 = t1
  Foreign = {f1}
  f1 = f1
  Absent = absent
  NoProc = noProc
  MaxCycle = 1
  MaxRuns = 2
  MaxOutside = 2
  MaxEdits = 0
  GraceReads = 1
PROPERTIES
  NeverOverwritesASeenReply
CHECK_DEADLOCK FALSE
