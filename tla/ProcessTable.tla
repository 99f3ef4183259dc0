---------------------------- MODULE ProcessTable ----------------------------
(***************************************************************************)
(* The process table with its CPU column, as `lx process` shows it         *)
(* (ProcessService::list, then MetricsService::measure) and as the         *)
(* dashboard does (MetricsService::capture and compare, then the list).    *)
(* Below both, ProcFsProcessProvider and ProcFsReader read /proc file by   *)
(* file while processes end, are reaped and have their PIDs reused.        *)
(*                                                                         *)
(* A process is <<p, b>>: the b-th process bearing PID p, b standing for   *)
(* the start time in /proc/<pid>/stat.                                     *)
(***************************************************************************)
EXTENDS Naturals

CONSTANTS
  TablePids,   \* the PIDs of the instance
  MaxReuse,    \* bound: how often a PID is reused
  MaxTicks,    \* bound: CPU ticks the processes consume
  Matching,    \* processes that pass the name and user filters
  InUnit,      \* processes of the service asked for with --service
  TableFaults  \* which of TableFaultKinds can happen

TableFaultKinds == {"ids", "denied", "malformed", "detail", "unavailable", "bus",
                    "sample", "metrics", "still"}

Processes == TablePids \X (0..MaxReuse)

ASSUME TableAssumption ==
  /\ TablePids \subseteq Nat \ {0}
  /\ MaxReuse \in Nat /\ MaxTicks \in Nat
  /\ Matching \subseteq Processes /\ InUnit \subseteq Processes
  /\ TableFaults \subseteq TableFaultKinds

VARIABLES
  tablePc,   \* where the command or the refresh is
  mode,      \* "cli" or "dashboard"
  byUnit,    \* --service was given
  up,        \* PIDs in use
  start,     \* start[p]: which process bears, or bore last, PID p
  ticks,     \* ticks[p]: CPU time of that process
  unread,    \* PIDs of the directory not read yet
  reading,   \* the PID being read and the file it is at
  opened,    \* the process the open file belongs to
  rows,      \* the rows read so far
  unasked,   \* rows whose unit has not been asked for yet
  units,     \* PIDs found to belong to the service
  samples,   \* the CPU samples taken
  cpu,       \* cpu[p]: what compare() computed for PID p
  warned,    \* a warning was given
  tableEnd   \* how it ended

\* History: the processes that have been there since the beginning, and those
\* that were there from the first capture to the second.
VARIABLES steady, between

tableVars == <<tablePc, mode, byUnit, up, start, ticks, unread, reading, opened,
               rows, unasked, units, samples, cpu, warned, tableEnd, steady,
               between>>

Files == <<"stat", "status", "cmdline">>

\* A row: the processes its core data and its user were read from.
Row == [pid : TablePids, core : 0..MaxReuse, user : 0..MaxReuse]

Sample == [TablePids -> [there : BOOLEAN, start : 0..MaxReuse, ticks : 0..MaxTicks]]

NoSample == [p \in TablePids |-> [there |-> FALSE, start |-> 0, ticks |-> 0]]

\* The share of the CPU is the ticks it was computed from.
NoCpu == [p \in TablePids |-> [shown |-> FALSE, of |-> 0, used |-> 0]]

Nothing == [pid |-> 0, file |-> 0, core |-> 0, user |-> 0]

(* Type invariant. *)
TableTypeOK ==
  /\ tablePc \in {"idle", "ids", "open", "read", "links", "unit", "sample", "compare",
                  "attach", "over"}
  /\ mode \in {"cli", "dashboard"} /\ byUnit \in BOOLEAN
  /\ up \in SUBSET TablePids
  /\ start \in [TablePids -> 0..MaxReuse]
  /\ ticks \in [TablePids -> 0..MaxTicks]
  /\ unread \in SUBSET TablePids
  /\ reading \in [pid : TablePids \cup {0}, file : 0..3, core : 0..MaxReuse,
                  user : 0..MaxReuse]
  /\ opened \in 0..MaxReuse
  /\ rows \in SUBSET Row
  /\ unasked \in SUBSET TablePids /\ units \in SUBSET TablePids
  /\ samples \in [n : 0..2, old : Sample, new : Sample]
  /\ cpu \in [TablePids -> [shown : BOOLEAN, of : 0..MaxReuse, used : 0..MaxTicks]]
  /\ warned \in BOOLEAN
  /\ tableEnd \in {"none", "ok", "IoError", "Unavailable", "aborted", "failed",
                  "InvalidArgument"}
  /\ steady \in SUBSET Processes
  /\ between \in SUBSET Processes

TableInit ==
  /\ tablePc = "idle" /\ mode = "cli" /\ byUnit = FALSE
  /\ up = TablePids /\ start = [p \in TablePids |-> 0]
  /\ ticks = [p \in TablePids |-> 0]
  /\ unread = {} /\ reading = Nothing /\ opened = 0
  /\ rows = {} /\ unasked = {} /\ units = {}
  /\ samples = [n |-> 0, old |-> NoSample, new |-> NoSample]
  /\ cpu = NoCpu /\ warned = FALSE /\ tableEnd = "none"
  /\ steady = {} /\ between = {}

-----------------------------------------------------------------------------
(* The host. *)

hostPart == <<up, start, ticks, steady, between>>
listPart == <<unread, reading, opened, rows>>
unitPart == <<unasked, units>>
cpuPart == <<samples, cpu>>

Ends(p) ==
  /\ p \in up
  /\ up' = up \ {p}
  /\ steady' = {pr \in steady : pr[1] # p}
  /\ between' = IF samples.n = 1 THEN {pr \in between : pr[1] # p} ELSE between
  /\ UNCHANGED <<start, ticks>>

Reuses(p) ==
  /\ p \in TablePids \ up
  /\ start[p] < MaxReuse
  /\ up' = up \cup {p}
  /\ start' = [start EXCEPT ![p] = @ + 1]
  /\ ticks' = [ticks EXCEPT ![p] = 0]
  /\ UNCHANGED <<steady, between>>

Runs(p) ==
  /\ p \in up /\ ticks[p] < MaxTicks
  /\ ticks' = [ticks EXCEPT ![p] = @ + 1]
  /\ UNCHANGED <<up, start, steady, between>>

\* compare() and attachCpu() read nothing, so that what happens meanwhile may
\* as well happen before.
HostChanges ==
  /\ tablePc \notin {"idle", "compare", "attach", "over"}
  /\ \E p \in TablePids : Ends(p) \/ Reuses(p) \/ Runs(p)
  /\ UNCHANGED <<tablePc, mode, byUnit, listPart, unitPart, cpuPart, warned, tableEnd>>

-----------------------------------------------------------------------------

Quit(how) == tablePc' = "over" /\ tableEnd' = how

Go(pc) == tablePc' = pc /\ UNCHANGED tableEnd

\* `lx process` lists first; the dashboard compares two captures first.
Start ==
  /\ tablePc = "idle"
  /\ \/ mode' = "cli" /\ byUnit' \in BOOLEAN /\ Go("ids")
     \/ mode' = "dashboard" /\ byUnit' = FALSE /\ Go("sample")
  /\ steady' = {<<p, start[p]>> : p \in up}
  /\ UNCHANGED <<up, start, ticks, between, listPart, unitPart, cpuPart, warned>>

\* ProcessService::list refuses an empty name or user and a malformed unit,
\* the command line a PID with filters.
RefuseFilters ==
  /\ tablePc = "idle"
  /\ Quit("InvalidArgument")
  /\ UNCHANGED <<mode, byUnit, hostPart, listPart, unitPart, cpuPart, warned>>

\* ProcFsReader::processIds.
ProcessIds ==
  /\ tablePc = "ids"
  /\ \/ /\ unread' = up
        /\ Go(IF up = {} THEN "unit" ELSE "open")
        /\ reading' = IF up = {} THEN Nothing
                      ELSE [Nothing EXCEPT !.pid = CHOOSE p \in up : \A q \in up : p <= q,
                                           !.file = 1]
     \/ "ids" \in TableFaults /\ Quit("IoError") /\ UNCHANGED <<unread, reading>>
  /\ UNCHANGED <<mode, byUnit, hostPart, opened, rows, unitPart, cpuPart, warned>>

\* ProcFsProcessProvider::list goes on with the next PID, or is finished.
NextPid(left) ==
  /\ unread' = left
  /\ IF left = {}
       THEN /\ tablePc' = "unit"
            /\ unasked' = {r.pid : r \in {r \in rows' : <<r.pid, r.core>> \in Matching}}
            /\ reading' = Nothing
       ELSE /\ tablePc' = "open"
            /\ reading' = [Nothing EXCEPT !.pid = CHOOSE p \in left : \A q \in left : p <= q,
                                          !.file = 1]
            /\ UNCHANGED unasked
  /\ UNCHANGED tableEnd

Optional == Files[reading.file] = "cmdline"

\* The process is left out, with a warning ...
LeaveOutSilently == UNCHANGED <<rows, warned>> /\ NextPid(unread \ {reading.pid})

LeaveOut == warned' = TRUE /\ UNCHANGED rows /\ NextPid(unread \ {reading.pid})

\* ... unless it is only the optional file that is missing.
Skip ==
  IF Optional THEN warned' = TRUE /\ Go("links") /\ UNCHANGED <<unread, reading, rows, unasked>>
  ELSE LeaveOut

\* ProcFsReader::readFile opens the file ...
OpenFile ==
  /\ tablePc = "open"
  /\ \/ /\ reading.pid \in up
        /\ opened' = start[reading.pid]
        /\ Go("read")
        /\ UNCHANGED <<unread, reading, rows, unasked, warned>>
     \/ /\ reading.pid \notin up \/ "denied" \in TableFaults
        /\ Skip
        /\ UNCHANGED opened
  /\ UNCHANGED <<mode, byUnit, hostPart, units, cpuPart>>

StillThere == reading.pid \in up /\ start[reading.pid] = opened

\* ... and reads it: the record is parsed, or malformed.
ReadFile ==
  /\ tablePc = "read"
  /\ StillThere
  /\ \/ /\ reading' = [reading EXCEPT !.file = IF @ < 3 THEN @ + 1 ELSE @,
                                      !.core = IF reading.file = 1 THEN opened ELSE @,
                                      !.user = IF reading.file = 2 THEN opened ELSE @]
        /\ Go(IF reading.file = 3 THEN "links" ELSE "open")
        /\ UNCHANGED <<unread, rows, unasked, warned>>
     \/ "malformed" \in TableFaults /\ ~Optional /\ LeaveOut
  /\ opened' = 0
  /\ UNCHANGED <<mode, byUnit, hostPart, units, cpuPart>>

\* A process that ended after the open makes the stream buffer throw; nothing
\* between here and main() catches it, but the dashboard's worker does.
Uncaught == IF mode = "cli" THEN "aborted" ELSE "failed"

ReadThrows ==
  /\ tablePc = "read"
  /\ ~StillThere
  /\ Quit(Uncaught)
  /\ UNCHANGED <<mode, byUnit, hostPart, listPart, unitPart, cpuPart, warned>>

\* User name, exe and cwd: all optional.  The row is complete.
ReadLinks ==
  /\ tablePc = "links"
  /\ \/ reading.pid \in up /\ UNCHANGED warned
     \/ (reading.pid \notin up \/ "detail" \in TableFaults) /\ warned' = TRUE
  /\ rows' = rows \cup {[pid |-> reading.pid, core |-> reading.core, user |-> reading.user]}
  /\ NextPid(unread \ {reading.pid})
  /\ UNCHANGED <<mode, byUnit, hostPart, opened, units, cpuPart>>

-----------------------------------------------------------------------------
(* ProcessService::list: filters, and the unit of every row. *)

\* SystemdServiceProvider::unitByPid answers for whoever bears the PID now.
UnitByPid(p) ==
  {IF p \in up /\ <<p, start[p]>> \in InUnit THEN "the service" ELSE "none or another"}
    \cup (TableFaults \cap {"bus", "unavailable"})

\* Without an answer a row has no unit; with --service an unreachable bus is
\* an error.
AskUnit(p) ==
  /\ tablePc = "unit" /\ p \in unasked
  /\ unasked' = unasked \ {p}
  /\ \E a \in UnitByPid(p) :
       /\ units' = IF a = "the service" THEN units \cup {p} ELSE units
       /\ warned' = IF a = "bus" THEN TRUE ELSE warned
       /\ IF a = "unavailable" /\ byUnit THEN Quit("Unavailable")
          ELSE UNCHANGED <<tablePc, tableEnd>>
  /\ UNCHANGED <<mode, byUnit, hostPart, listPart, cpuPart>>

Listed ==
  {r \in rows : <<r.pid, r.core>> \in Matching /\ (byUnit => r.pid \in units)}

\* The list is complete; the CLI measures now, the dashboard has measured.
ListDone ==
  /\ tablePc = "unit" /\ unasked = {}
  /\ Go(IF mode = "cli" THEN "sample" ELSE "attach")
  /\ rows' = Listed
  /\ UNCHANGED <<mode, byUnit, hostPart, unread, reading, opened, unitPart,
                 cpuPart, warned>>

-----------------------------------------------------------------------------
(* MetricsService *)

\* ProcFsProcessProvider::sample: every process that can be read, with its
\* start time; one that cannot is passed over.
SampleOf(seen) ==
  [p \in TablePids |->
     IF p \in seen THEN [there |-> TRUE, start |-> start[p], ticks |-> ticks[p]]
                   ELSE NoSample[p]]

\* capture(), twice; a failed one leaves the table without CPU shares.
Capture ==
  /\ tablePc = "sample"
  /\ \/ /\ \E seen \in SUBSET up :
             /\ seen = up \/ "sample" \in TableFaults
             /\ samples' = [n |-> samples.n + 1, old |-> samples.new, new |-> SampleOf(seen)]
        /\ Go(IF samples.n = 0 THEN "sample" ELSE "compare")
        /\ between' = IF samples.n = 0 THEN {<<p, start[p]>> : p \in up} ELSE between
     \/ /\ "metrics" \in TableFaults
        /\ Go(IF mode = "cli" THEN "attach" ELSE "ids")
        /\ UNCHANGED <<samples, between>>
  /\ UNCHANGED <<mode, byUnit, up, start, ticks, steady, listPart, unitPart, cpu, warned>>

\* A process ends between the open and the read of its stat file.
CaptureThrows ==
  /\ tablePc = "sample"
  /\ \E p \in TablePids : Ends(p)
  /\ Quit(Uncaught)
  /\ UNCHANGED <<mode, byUnit, listPart, unitPart, cpuPart, warned>>

\* compare(): only a process that is in both samples, with the same start
\* time and without going backwards, has a share; no process has one if the
\* CPU counters of the host did not advance.
ComparableByPid(p) ==
  /\ samples.old[p].there /\ samples.new[p].there
  /\ samples.old[p].ticks <= samples.new[p].ticks

Comparable(p) ==
  /\ samples.old[p].there /\ samples.new[p].there
  /\ samples.old[p].start = samples.new[p].start
  /\ samples.old[p].ticks <= samples.new[p].ticks

Compare ==
  /\ tablePc = "compare"
  /\ \/ cpu' = [p \in TablePids |->
                  IF Comparable(p)
                    THEN [shown |-> TRUE, of |-> samples.new[p].start,
                          used |-> samples.new[p].ticks - samples.old[p].ticks]
                    ELSE NoCpu[p]]
     \/ "still" \in TableFaults /\ cpu' = NoCpu
  /\ Go(IF mode = "cli" THEN "attach" ELSE "ids")
  /\ UNCHANGED <<mode, byUnit, hostPart, listPart, unitPart, samples, warned>>

\* attachCpu(): every row gets the share computed for its PID.
AttachCpu ==
  /\ tablePc = "attach"
  /\ Quit("ok")
  /\ UNCHANGED <<mode, byUnit, hostPart, listPart, unitPart, cpuPart, warned>>

TableNext ==
  \/ Start \/ RefuseFilters \/ ProcessIds \/ OpenFile \/ ReadFile \/ ReadThrows \/ ReadLinks
  \/ (\E p \in TablePids : AskUnit(p)) \/ ListDone
  \/ Capture \/ CaptureThrows \/ Compare \/ AttachCpu
  \/ HostChanges

TableSpec == TableInit /\ [][TableNext]_tableVars

-----------------------------------------------------------------------------

(* Whatever ends, starts or cannot be read while /proc is walked file by   *)
(* file and systemd is asked, a process that was there all along and       *)
(* passes the filters is in the table with its own data, unless a warning  *)
(* was given.                                                              *)
NothingDroppedSilently ==
  tableEnd = "ok" /\ ~warned =>
    \A pr \in steady \cap Matching :
      (byUnit => pr \in InUnit) =>
        [pid |-> pr[1], core |-> pr[2], user |-> pr[2]] \in rows

(* A CPU share is only computed for a process that lived from the first    *)
(* capture to the second, although the captures know PIDs and start times  *)
(* only: a new process never starts from the ticks of the one that bore    *)
(* its PID before (MetricsService::compare).                               *)
CpuOfOneProcess ==
  \A p \in TablePids : cpu[p].shown => <<p, cpu[p].of>> \in between

-----------------------------------------------------------------------------
(* What the documentation says, and the code does not do. *)

(* docs/development.md: process enumeration "treats processes that exit or *)
(* become unreadable during the scan as partial-result warnings".          *)
ExitIsOnlyAWarning == tableEnd # "aborted"

(* docs/development.md: "Process samples are matched by PID and procfs     *)
(* start time so PID reuse cannot transfer CPU usage to a new process."    *)
CpuNotTransferred ==
  mode = "dashboard" /\ tableEnd = "ok" =>
    \A r \in rows : cpu[r.pid].shown => cpu[r.pid].of = r.core

=============================================================================
