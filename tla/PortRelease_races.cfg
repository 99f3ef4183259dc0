SPECIFICATION Spec
CONSTANTS
  Pids = {2, 3}
  Self = 9
  Inodes = {4, 6}
  Units = {u1}
  NoUnit = NoUnit
  MaxBirth = 1
  MaxMoves = 2
  Kinds = {1, 2}
  Unreadable = {}
  Faults = {"inspect", "stop", "bus"}
  AssumeYes = FALSE
  Grace = 1
  KindOf <- MCKindOf
  u1 = u1
INVARIANT TypeOK
INVARIANT RevalidatedTargets
INVARIANT StopsOnlyCommonUnit
INVARIANT GraceBeforeKill
