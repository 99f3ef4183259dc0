SPECIFICATION FairSpec
CONSTANTS
  s1 = s1
  o1 = o1
  p1 = p1
  p2 = p2
  Nothing = Nothing
  Services = {s1}
  Ports = {o1}
  Processes = {p1, p2}
  Snapshots <- MCSnapshots
  Task <- Jobs
  MaxJobs = 1
  Garbage = {FALSE}
PROPERTY AcceptedRuns
PROPERTY LeavingEnds
