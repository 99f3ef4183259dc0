SPECIFICATION FairSpec
CONSTANTS
  u1 = u1
  u2 = u2
  p1 = p1
  p2 = p2
  Kind <- MCKind
  Unit = {u1}
  Pid = {p1}
  Instant = {2, 4}
  None = None
  MaxEntries = 3
  MaxLimit = 2
  Vacuums = TRUE
INVARIANT TypeOK
INVARIANT OnlyMatching
INVARIANT InOrder
INVARIANT NoHole
INVARIANT InitialIsRecent
INVARIANT AtMostOneAfterStop
PROPERTY StopEnds
PROPERTY EntriesArrive
