SPECIFICATION Spec
CONSTANTS
  s1 = s1
  s2 = s2
  s3 = s3
  u1 = u1
  Sockets = {s1, s2, s3}
  DumpOf <- MCDumpOf
  Connected = {s3}
  OnPort = {s1, s3}
  MaxDatagrams = 2
  DumpFaults = {"open", "send", "receive", "malformed", "refused", "interrupted"}
  Kernels = {"pidfd", "pidfd without send", "no pidfd"}
  MaxGen = 2
  Patience = 2
  MaxEintr = 1
  CmdFaults = {"inspect", "open", "send", "poll", "bus", "call", "reply"}
  TablePids = {2, 3}
  MaxReuse = 1
  MaxTicks = 1
  Matching <- MCMatching
  InUnit <- MCInUnit
  TableFaults = {"ids", "malformed", "unavailable", "bus", "metrics"}
  Pids = {2, 3}
  Self = 9
  Inodes = {4, 6}
  Units = {u1}
  NoUnit = NoUnit
  MaxBirth = 1
  MaxMoves = 1
  Number = 2
  AtPort = {4}
  Named <- MCInUnit
  NamedUnits = {u1, NoUnit}
  LogUnit <- MCLogUnit
  LogPid <- MCLogPid
  LogStart = 3
  LogLimit = 2
  Lookups = {"empty", "port:", "pid:", "service:", "number", "name", "find"}
  XFaults = {"process", "list", "dump", "partial", "scan", "bus", "unavailable", "journal"}
INVARIANT ExitIsOnlyAWarning
