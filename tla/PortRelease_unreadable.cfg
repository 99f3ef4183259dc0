SPECIFICATION Spec
CONSTANTS
  Pids = {2, 3}
  Self = 9
  Inodes = {4}
  Units = {u1}
  NoUnit = NoUnit
  MaxBirth = 1
  MaxMoves = 0
  Kinds = {1, 2}
  Unreadable = {3}
  Faults = {}
  AssumeYes = FALSE
  Grace = 1
  KindOf <- MCKindOf
  u1 = u1
INVARIANT RecommendsOnlyReadable
