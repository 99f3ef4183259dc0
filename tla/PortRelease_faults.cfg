SPECIFICATION FairSpec
CONSTANTS
  Pids = {2, 3, 4}
  Self = 4
  Inodes = {4}
  Units = {u1}
  NoUnit = NoUnit
  MaxBirth = 1
  MaxMoves = 0
  Kinds = {1, 2}
  Unreadable = {}
  Faults = {"dump", "short", "scan", "inspect", "signal", "wait", "stop", "bus"}
  AssumeYes = FALSE
  Grace = 1
  KindOf <- MCKindOf
  u1 = u1
INVARIANT EscalationDiscipline
INVARIANT ReleasedMeansFree
PROPERTY ReleaseEnds
PROPERTY KeepsReleaseContract
