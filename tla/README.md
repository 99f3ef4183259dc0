# A verification project for LX

LX is a command-line and terminal-UI manager of Linux resources: it shows
processes, ports, services and logs and relates them to each other, and it acts
on them (signals, systemd jobs, the release of a port). This directory holds TLA+
models of the parts of it whose correctness depends on order, concurrency and
failure, TLC configurations that check them on small instances, and proofs that
hold for every instance.

## The system and its parts

Paths are relative to the repository.

| Part | State it keeps | Operations | Model |
| --- | --- | --- | --- |
| Port release: `PortService` and the `port free` command of `CliApp` | the plan shown to the user, what is left of it, deadlines | `prepareRelease`, `stopManagedService`, `terminate`, `force`, three prompts | `PortRelease`, promising `ReleaseContract` |
| Socket provider (`NetlinkSocketProvider`, `NetlinkSocket`, `InetDiagCodec`) | the receive queue of the netlink socket | `query`: four INET_DIAG dumps | `NetlinkDump`, promising `DumpContract`; by dump in `PortRelease` |
| Socket owner resolver (`SocketInodeResolver`) | none | `resolve`, a scan of `/proc/*/fd` | in `PortRelease` |
| Process signals (`ProcessService`, `LinuxSignalProvider`, `PidFd`) and the commands `process stop`, `process kill` | a process handle | `stop`, `kill`, `waitForExit` | `Commands`, promising `CommandContract` |
| Service actions (`ServiceService`, `SystemdServiceProvider::controlUnit`) and `service UNIT start\|stop\|restart` | none | one D-Bus call | `Commands` |
| Process list (`ProcessService::list`, `ProcFsProcessProvider`, `ProcFsReader`) | none | `list`, `get`, `sample` | `ProcessTable` |
| Metrics (`MetricsService`) | two captures | `capture`, `compare`, `measure` | `ProcessTable`, for processes |
| Resource resolver, inspect, find | the graph in the making | `resolve`, `inspect`, `find` | `Explorer` |
| Terminal UI (`FtxuiTuiRunner::run`) | panel, cursors, search field, help, prompt | one reaction per key | `Tui` |
| Task worker of the UI (`TaskWorker`) | slot, busy and stop flags, result text | `submit`, `clear`, destructor, thread | `TaskWorker` |
| Dashboard (`DashboardService`, `DashboardWorker`) | previous snapshot and metrics, published snapshot, stop flag | `refreshAt`, `start`, `stop`, thread | `Dashboard` |
| Log command, log service and journal provider (`LogService`, `SystemdJournalProvider`, `InterruptGuard`) | journal read pointer, stop flag | `read`, `follow`, the SIGINT handler | `JournalFollow` |
| Text of `--since`, of `/proc` files, of D-Bus and journal fields | none | parsers | not modelled |
| Options, tables, JSON, rendering, `doctor` | none | | not modelled |

How they interact. `CliApp` calls the services synchronously and asks the user
between the calls. `PortService` calls the socket provider, the owner resolver
and the process service, which calls the service service for the unit of a
process. The UI has three threads: the event loop, the dashboard worker, which
replaces the published snapshot every 1.5 s, and the task worker, to which the
event loop submits everything slow. The threads share the snapshot pointer and
the task worker's slot, each behind a mutex with a condition variable. Beyond LX
there is the host, which changes at any moment: processes exit, PIDs are reused,
sockets are opened, shared and closed. `lx log --follow` shares the journal with its
writers and a flag with its SIGINT handler. `inspect` and `find` put one answer
together from calls to all the services, made one after the other.

What is hard: an observation of the host takes many reads, and the host moves
between them; the user thinks between plan and action; every read, signal and
D-Bus call can fail alone; the UI's threads can meet in any order.

## Modules

- `Host` is the environment, not LX code: live processes, which process bears a
  PID (`birth`, the start time), who holds each socket, the unit of each process.
  It is modelled from what LX reads of it.
- `PortRelease` extends it with the command. `pc` is the position in the command,
  `phase` says which call of `prepareRelease` an observation belongs to (`plan`: the
  command's own; `termCheck`, `forceCheck`, `svcCheck`: the recheck at the start of
  `terminate`, `force`, `stopManagedService`; `termAfter`, `forceAfter`, `svcPoll`: the
  look afterwards). An observation is a sequence of steps: `Dump(k)` for each INET_DIAG
  dump, `ScanPid(p)` for each process directory, `Inspect(p)` for each owner. The pure
  part of `PortService` (`SameTargets`, `RemainingBelong`, `CommonUnit`, `PrepareCode`)
  is a set of operators on plans. A socket stands for its identity (protocol, family,
  address, port, inode), as in the code's comparisons. `failed` are the dumps that
  failed, `short` (history) those the kernel broke off unnoticed. A call that fails
  hands on one of the error codes its code can return (`DumpErrors`, `ScanErrors`,
  `SignalErrors`, `OpenErrors`, `CallErrors`), and the command goes by them: `NotFound`
  of `prepareRelease` means that the port is free, of `StopUnit` that it failed.
  `handle` is what a pidfd adds to a PID in `waitForExit`: it still tells of an exit
  when the PID is in use again. `signals`, `stops`, `before` and `seenBirth` are history
  for the properties.
- `ReleaseContract` is what the user of `port free` may count on, without sockets,
  observations or the host: nothing is done before the plan is shown and agreed to; a
  service is stopped or processes are signalled, never both; SIGTERM goes to the shown
  processes in the order of their PIDs, SIGKILL, after a consent of its own, to some of
  them once all had their SIGTERM; and the last word fits what was done. A service
  told to stop in vain ends the command with systemd's error, whichever it is; apart
  from that, "cancelled", "timeout", "released", "not found" (not after an accepted
  stop) and "unavailable" (the service was not told to stop) are said only after what
  they speak of, and nothing follows. `PortRelease` implements it (`KeepsReleaseContract`).
- `TaskWorker` has one step per critical section. `stopping` has the value
  `uninit` until the constructor has initialised the flag; the thread, which is
  already running, then reads any member of `Garbage`.
- `Tui` extends it with the event handler: one action per group of keys, each
  guarded by the conditions of the code's `if` chain up to it. A job carries what
  it does, to what, and (history) what the prompt showed and how often the user
  said yes.
- `Dashboard` reads the four sources one after the other, each succeeding or
  failing; data are abstracted to the cycle that read them, time to worker
  periods (1.5 s, so the service interval of 3 s is 2). `now` is taken when a refresh
  begins, and the next one begins after its reads, however slow, and the worker's
  wait. How old the services of a snapshot are is therefore not bounded by the interval,
  and no property claims it.
- `JournalFollow` is `lx log`, with a step for every call into libsystemd and every test
  of the stop flag; journald appends and removes entries, and SIGINT arrives, between
  any two. Entries are positions in the journal with the unit and PID they carry. The
  read pointer of a handle stands on an entry (`on`) or, after a seek, behind one.
  `window` is the result of the initial query (`queryTail`, `querySince`), `printed` the
  output; `atSeek` and `atSignal` are history. Of libsystemd it is assumed that
  different fields are joined with AND, that after `sd_journal_seek_tail`
  `sd_journal_previous` finds the last entry and `sd_journal_next` either nothing, now
  and later (version 254 and newer), or once the match that is the last by then (older
  ones), that `sd_journal_seek_cursor` goes to the closest entry when the cursor's own
  is gone, and that removed entries are not found any more.
- `NetlinkDump` is one socket query. The dumps share one netlink socket; `inbox` is
  its receive queue, a datagram is its sequence number, its sockets and how it ends.
  The kernel answers a request with up to `MaxDatagrams` of them (`Answers`); the last
  one may also be an error message, or an `NLMSG_DONE` with an error status (`failed`),
  which the code takes for the end of a complete dump (`short`, history). A
  dump that gives up leaves the rest of its answer in the queue. `seq` is the code's
  sequence counter.
- `DumpContract` says what callers build on: every dump is complete or lost with a
  warning, in order, and the query fails only when all are lost. A third outcome, a dump
  that is partly there without a warning, is kept apart (`cut`): it is for the dumps
  the kernel reported as failed in the status of `NLMSG_DONE` and no others. `NetlinkDump`
  implements it (`DumpsCompleteOrWarned`).
- `Commands` is one command that changes something, other than `port free`:
  arguments, `--json`, `--yes`, the prompt, the checks of the target, the pidfd or
  `kill(2)`, the D-Bus call and its outcomes; and `waitForExit`, which `PortRelease`
  uses. `gen` numbers the processes that bear the PID, `st` tells whether the present
  one runs, is a zombie or is gone; `kernel` is what the kernel offers.
- `CommandContract` is its promise: one effect at most, with consent, none with
  `--json`, and a final word that is true of the effect. `Commands` implements it
  (`EffectsAsPromised`).
- `ProcessTable` reads `/proc` file by file: directory, then `stat`, `status`,
  `cmdline` (an open and a read each) and the links of every PID, then the unit of
  every row; and two captures of the CPU ticks, before the list (dashboard) or after
  it (`lx process`). A process is a PID with its start time; a row records from which
  process each part of it was read. `steady` and `between` are history.
- `Explorer` extends `Host` with `ResourceResolver`, `InspectService` and
  `FindService`. A step is one call of a service, with every answer the call can give
  (`InspectProcess`, `ListProcesses`, `GetService`, `ListServices`); the host changes
  between calls. Which text matches which resource is a constant of the instance.
  `note` distinguishes an answer with a warning, one in which something is missing
  without a warning (a unit, because systemd was unreachable; sockets, because a dump
  was cut short), and an error that replaced the warnings collected (`dropped`).
  `written` is the length of the journal, which grows from `LogStart` on between the
  queries a log is merged from.
- `MCPortRelease`, `MCTui` and `MCJournalFollow` give the instances for TLC;
  `Dashboard` needs none. `MCOneCommand` puts the four modules of single commands side
  by side: the initial state chooses which of them runs. To keep it small, socket 6 is
  held by the process with the number asked for or by nobody.
- `PortReleaseProofs`, `TuiProofs` (with those about the task worker),
  `DashboardProofs`, `JournalFollowProofs`, `NetlinkDumpProofs`, `ProcessTableProofs`,
  `ExplorerProofs` and `OneCommandProofs` hold the theorems; the last one those about
  `Commands` and about the composition of the four modules in `MCOneCommand`.

Operators named after a definition with a suffix (`SameTargetsIgnoringOwners`,
`WaitImpatient`, ...) stand right before it and are never used by a
specification: each is the definition with a plausible mistake, under which the
property named in `PROJECT.json` fails.

## What the runs show

| Run | Question | Distinct states |
| --- | --- | --- |
| `PortRelease_races` | Two sockets, two processes, one service, two changes of the host besides exits, PIDs reused, units, the bus and StopUnit failing: are those about to be signalled the shown owners, found again after the confirmation (`RevalidatedTargets`)? Is a service stopped only if every surviving owner of the plan is in it (`StopsOnlyCommonUnit`), and is SIGKILL offered early only if the owners are gone (`GraceBeforeKill`)? | 7.9 M |
| `PortRelease_faults` | Every kind of failure at every step, LX itself among the owners: `EscalationDiscipline` (protected processes are never signalled, SIGTERM needs consent, SIGKILL an explicit one and an earlier SIGTERM); which sockets can still be there when it says "released", although dumps fail or are cut short and `/proc` is not there (`ReleasedMeansFree`); does the command implement `ReleaseContract` (`KeepsReleaseContract`); and does it always come to its next prompt or its end (`ReleaseEnds`)? | 0.66 M |
| `Tui_safety` | Two jobs, two processes changing places from one snapshot to the next, a snapshot that shrinks: `ActionsConfirmed`, `PromptModal`, `JobsRunOnce`, `LatestResult`. | 3.5 M |
| `Tui_progress` | `AcceptedRuns`, `LeavingEnds`: no wake-up is lost between `submit()` or the destructor and the thread's `wait()`. | 0.27 M |
| `JournalFollow_follow` | Reads and follows with and without `--since`, three entries of three kinds, appended and removed at any point, Ctrl-C at any point, both kinds of libsystemd: `OnlyMatching`, `InOrder`, `NoHole`, `InitialIsRecent`, `AtMostOneAfterStop`; and `StopEnds`, `EntriesArrive`. | 0.72 M |
| `Dashboard_refresh` | Three refreshes with every pattern of failing, throwing and slow sources: `KeepsLastGood`, `StaleHasWarning`, `CpuOfSameCycle`; and `StopReturns`. | 1.3 M |
| `OneCommand` | Socket query: does a dump that failed half-way spoil a later one (`DumpsCompleteOrWarned`) or leave it waiting (`NeverStarved`)? Changing commands on three kinds of kernel: `EffectsAsPromised`, `WaitTellsTheTruth`, `HandleNotOvertaken`. Process table: `NothingDroppedSilently`, `CpuOfOneProcess`. `inspect` and `find`: is an ambiguous number or name ever taken for one of its meanings (`NeverAGuess`), is an answer without a warning complete (`CompleteOrWarned`), is the merged log without doubles and, of what was in the journal at the start, without gaps although it grows between the queries (`RecentLogsWhole`)? | 3.4 M |

`ReleasedMeansFree`, `EntriesArrive`, `NeverAGuess`, `CompleteOrWarned` and
`RecentLogsWhole` are as strong as the code
allows; what they except is listed further down.

Five runs show that the code does not do what the documentation says, or what
its author must have meant:

- `PortRelease_recycled`: the recheck compares PIDs, and the signals go to PIDs.
  A PID that is given to a new process after the recheck (or before it, if the new
  process got hold of the same socket) is signalled. `docs/development.md:145`
  promises that a new owner "aborts the action with a conflict". A pidfd opened
  when the plan is made, or a comparison of start times, would close the gap.
- `PortRelease_unreadable`: a process whose `/proc/<pid>/fd` cannot be read is
  counted for a warning and otherwise ignored, so a socket it shares with a
  service's process is still offered for "stop the service";
  `docs/development.md:180` says LX recommends this "only when every owner is
  readable".
- `Tui_uninitialised`: `TaskWorker` declares `thread_` before `busy_` and
  `stopping_`, so the thread can read `stopping_` before it is initialised. If the
  byte reads as true the thread ends and every later task stays at "Loading...".
  Moving the two flags above `thread_` removes it.
- `JournalFollow_vacuumed`: `positionAfterInitial` seeks to the cursor of the last
  initial entry and steps on what it finds. If that entry has been removed by then
  and others were appended, it steps on one that was never printed, and goes on
  behind it. The error the code has for this ("Initial journal cursor disappeared
  before follow", `SystemdJournalProvider.cpp:265`) is only given when nothing
  follows at all; `sd_journal_test_cursor` would tell.
- `OneCommand_exit`: `ProcFsReader::readFile` reads through stream buffer iterators.
  If the process exits between the open and the read, `read(2)` fails, libstdc++'s
  file buffer throws, and the test of `input.bad()` behind it is never reached.
  Nothing in `CliApp` catches the exception, so the whole command aborts
  (the dashboard's worker and the UI's tasks do catch it); `docs/development.md:244-245`
  says such processes are "partial-result warnings".

Four more disagreements are stated as properties in the modules and have no
configuration of their own; TLC refutes each when it is added to the configuration named:

- `NewEntriesArrive` (`JournalFollow_follow.cfg`): when the initial query found nothing,
  `positionAfterInitial` calls `sd_journal_seek_tail` and the loop `sd_journal_next`,
  which does not get from the tail to an entry appended later. The follow waits for ever
  and prints nothing or, with an older libsystemd, prints first the one match that is the
  last when it looks, even if it is older than `--since`, and goes on from there.
  `docs/development.md:220` says that a follow prints the recent entries, "then waits".
  A call of `sd_journal_previous` after the seek would give it a place. `EntriesArrive`
  is what holds: once a follow has printed something, nothing is missed. How the two
  calls behave is assumed from libsystemd, whose source is not in this repository.
- `PublishesUntilStopped` (`Dashboard_refresh.cfg`): `DashboardWorker::work` catches
  exceptions outside its loop, so one thrown by a refresh (see `OneCommand_exit`) ends
  the thread. The last snapshot stays on display, neither stale nor with a warning;
  `docs/development.md:349` says a snapshot is published every 1.5 seconds.
- `NothingMissing` (`OneCommand.cfg`): a dump that fails inside the kernel ends with
  `NLMSG_DONE` and a negative status in it. `InetDiagCodec.cpp:35` takes every
  `NLMSG_DONE` for success, so sockets are missing without a warning, where
  `docs/development.md:104` says that responses are validated. What the kernel sends is
  assumed from the netlink protocol.
- `NotFoundIsTrue` (`OneCommand.cfg`): `find` returns "not found" in the place of the
  warnings it has collected (`FindService.cpp:130-136`), so that a process that could not
  be read is reported as one that is not there; `inspect` of a port does the same
  (`InspectService.cpp:116-123`, `:213`). `docs/development.md:244` says such processes
  are "partial-result warnings" (and `docs/json-schema-v1.md:21` that an error replaces
  warnings).

Seen while modelling besides:

- A failed dump is only a warning, one cut short not even that, and `terminate`,
  `force` and `stopManagedService` take an empty list for a released port. If the dump
  that would show the socket is lost, the command reports success without having
  released anything. It does so too when `/proc` is not there, which
  `SocketInodeResolver.cpp:22-24` reports with the code for a free port.
  `ReleasedMeansFree` says exactly what remains true.
- `submit()` refuses a task while another one is pending or running, and the
  event handler ignores its answer: an action confirmed meanwhile is dropped in
  silence.
- `inspect` merges its log from one query per unit and PID. An entry written while it
  does may be missing though an older one of another unit is shown, for its own unit was
  asked before; `RecentLogsWhole` is about those there at the start.
- `querySince` does not test the stop flag: Ctrl-C is noticed only after it has
  caught up with the journal.
- An owner that exits between dump and scan makes `prepareRelease` fail with
  "a socket owner is unresolved" although a moment later the port would be free.
- When the port is found free at the recheck, the message still says "released by
  stopping" or "released with SIGTERM", although nothing was done.
- While listing services fails it is retried in every cycle (1.5 s), not "at most
  every 3 seconds" (`docs/development.md:350-351`).
- `compare()` never mixes two processes (`CpuOfOneProcess`), but its results are
  attached to the rows by PID only (`CliApp.cpp:307-320`, `DashboardService.cpp:18-26`):
  a PID that changes hands between the captures and the list shows the share of the
  one process in the row of the other. `CpuNotTransferred` in `ProcessTable` states
  what `docs/development.md:321-323` says.
- When systemd is unreachable, processes are listed without a unit and without a
  warning (`ProcessService.cpp:37`), so that `inspect` and `find` leave services out in
  silence; `docs/development.md:271-272` says "unavailable related data is reported as a
  warning" (`MissingIsReported` in `Explorer`).
- A lookup of the resolver that fails counts as "does not exist"
  (`ResourceResolver.cpp:93-100`): a bare number that is a PID and a port is then
  resolved to one of them, where `docs/development.md:257-258` promises a conflict.
- `PidFd::waitForExit` starts `poll()` again with the whole timeout when it is
  interrupted, so the wait has no upper bound if signals keep coming.

### Bounds

`MaxMoves` bounds the host's changes other than exits, `MaxBirth`, `MaxGen` and
`MaxReuse` how often a PID is reused, `Grace` the ticks of the grace period, `MaxJobs`
the accepted tasks, `MaxCycles` the refreshes, `MaxSlow` the extra periods of a slow
cycle, `MaxEntries` the journal, `MaxLimit` the `--lines` (10000 in the code),
`MaxDatagrams` the datagrams of an answer, `Patience` the timeout of `waitForExit`,
`MaxEintr` its interruptions, `MaxTicks` the CPU ticks of a process, `LogLimit` the
recent entries of `inspect` (20 in the code), `LogStart` the journal entries there are
before it asks for the first log.

Two moves suffice for an owner to be replaced by another that holds the same socket, or
for a second socket to appear between two observations. Two jobs suffice for an earlier
and a later one; three cycles for a read, a skipped read and a failed one of the
services; three entries for one that is read, one that is lost and one that shows the
hole; two datagrams for an answer of which the first part is read and the last is left
behind; two reuses for a PID whose handle, bearer and successor differ; one tick for a
share that is not zero; four log entries and a limit of two for a merge that has to drop
something, the fourth being written while the logs are read. In `OneCommand` four kinds
of failure are left out because another takes the same branch: an open that is refused
(`denied`) behaves like that of a PID no longer in use, a missing detail (`detail`) like
that of a process that has ended, a process missing from a sample (`sample`) like one
that has gone, and a dump the kernel marks as interrupted (`interrupted`) like one it
refuses; unreadable owners (`hidden`) only shorten an answer that has a warning then.
The theorems include them. Deadlock is checked everywhere: a finished command, a closed
UI and a joined worker stutter.

### Fairness

`PortRelease` (`PortRelease_faults`): weak fairness of LX's own steps and of the passing
of time; none of the user, who may never answer, and none of the host. Calls LX makes
are assumed to return, with success or an error; LX sets no timeout on the netlink
socket or the bus, so this is an assumption about the kernel and systemd. `Tui`: the
worker thread, the construction and the destructor go on; the user and the snapshots owe
nothing, and tasks end. `Dashboard`: the worker goes on and `join()` returns once the
thread has ended. `JournalFollow`: the command goes on, and `sd_journal_wait` gives up
after the second it is given; no writer, no SIGINT and no failure is relied on.

## What is proved

The proofs assume only the named assumptions of the modules (`HostAssumption`,
`ReleaseAssumption`, `TaskAssumption`, `TuiAssumption`, `DashboardAssumption`,
`JournalAssumption`, `DumpAssumption`, `CommandsAssumption`, `TableAssumption`,
`ExplorerAssumption`): types of the constants, a non-empty set of dumps, a finite set of
PIDs for `Explorer` (it counts the processes of a name) and a journal whose entries have
a PID and a unit or none (`LogPid`, `LogUnit`), `Nothing` and `NoUnit` being no resource
and no unit. The theorems hold for every number of processes, sockets, services, jobs,
cycles, journal entries and datagrams, and for every set of faults.

- `PortReleaseProofs`: `TypeOK` is inductive. The order of the command is `OrderInv`:
  where the command is determines which prompts have been answered (`PositionInv`,
  `ConsentInv`); the PIDs to be signalled are those of the plan and of the observation
  in hand (`TargetInv`); before SIGKILL every owner that is left has had its SIGTERM
  (`TermedInv`; this needs that `terminate` signals the whole plan or fails, and that
  what is left is part of the plan). `RevalidatedTargets`, `EscalationDiscipline` and
  `ProtectedNeverSignalled` follow. For the refinement of `ReleaseContract`
  (`ReleaseContractKept`) bounds are not enough: `PromiseInv` says exactly which plan is
  shown (`PlanInv`), what has been agreed to (`AgreedInv`) and who was sent what
  (`SentInv`: those of the plan not in `todo`; those killed bear lower PIDs than those
  still to be) at each position; then each step is one of the contract, or nothing the
  user can see. `ReleasedMeansFree` needs `FreeInv`: an inode is never used twice
  (`SpentInv`), and a socket older than the observation whose dump has been made,
  neither failing nor cut short, is listed or gone (`SeenInv`). The other two are about
  PIDs that change hands. A PID's births only grow, and a process keeps its unit
  (`BirthsGrow`); so a unit that was read is that of the process seen in the plan or of
  a later one (`UnitInv`, `PlanUnitInv`), and `StopsOnlyCommonUnit` follows from
  comparing two observations. For `GraceBeforeKill`, `GraceInv`: a handle is of the
  plan's process or of a later one (`HandleInv`), whoever has been waited for with time
  left is gone (`WaitedInv`), and an owner that is found after that is another process
  (`AfterInv`). Of `ReleaseEnds`, the part without fairness: `WorkInv` says that a list
  the command works through is not empty, so it has a next dump, process or signal
  wherever it needs one (`NeverAtALoss`); and with an order of the calls of
  `prepareRelease()`, of the places within one and of what is left there, every step
  goes forward, but for another look at the port while the grace period lasts
  (`NoStepBack`).
- `TuiProofs`, for the task worker: `TaskInv` says who holds the last accepted job: the
  slot, the thread, or nobody, and that `busy` says which. `JobsRunOnce` and
  `LatestResult` hold for any caller, whatever the uninitialised flag reads as. Every
  step of the UI is a step of the worker's caller (`UsesTaskWorker`), which carries the
  worker's theorems over. `ActionsConfirmed`
  needs `PromptInv`: an open prompt shows a resource, its process is the one shown,
  and the answers so far are one less than the questions. `PromptModal` is part of
  the same induction. Under `AcceptedRuns` and `LeavingEnds` lies `NoWakeupLost`: the
  thread is never asleep while a job is pending or `stopping_` is set, and it ends early
  only if it can read `stopping_` uninitialised (`WakeupsArrive`, itself inductive).
  Once `stopping_` is set, every step of the thread takes it closer to its end and it
  begins no other job (`StopIsFinal`).
- `DashboardProofs`: `SnapshotInv` relates the snapshot in the making, the previous
  one and the published one to the last good and bad reads; it is needed because
  `KeepsLastGood` only speaks of complete snapshots. For `StopReturns`, `JoinInv`: the
  thread `join()` waits for was started and has been told to stop; each of its steps
  then takes it closer to its end, and no refresh is begun (`StopWithinOneRefresh`).
- `JournalFollowProofs`: `IInv` says that the handle filters on what was asked for,
  that the window and the output are increasing sequences of matching entries, where
  the read pointer stands with respect to them (`PositionInv`: at the first entry of
  a tail query, not before any entry of the window or the output later on), that the
  output is a prefix of the window while initial entries are left (`PrintInv`), and
  that a test of the flag lies between any two printed entries (`SignalInv`).
  `OnlyMatching`, `InOrder` and `AtMostOneAfterStop` are parts of it; `InOrder` alone
  is not inductive, for it does not know where the next entry will come from.
  `InitialIsRecent` and `NoHole` need `RecentInv`, which says what each loop has covered:
  on its way back, every entry passed is in the window (`BackInv`); on its way forward,
  it is there or was given up for as many newer ones as the limit (`ForthInv`); when the
  query is made, every entry asked for is in the window, is newer than the query, or
  older than a full window (`CoveredInv`); and while nothing was removed, the follow
  starts on the last entry of the window and has printed what lies behind it
  (`SeamInv`). That a move of the read pointer skips nothing is the least-number
  principle, from the well-foundedness of the natural numbers. For `StopEnds`: after
  SIGINT every step of the command is one closer to the end, the loop of a tail query is
  bounded by its limit, and that of `querySince` by the journal as it then is
  (`StopIsFinal`).
- `NetlinkDumpProofs`: `DumpInv`. While a dump is being read, the end of its answer is
  the end of the queue, nothing before it in the queue ends this dump, and the sockets
  of a complete answer that have not been read are still queued (`AnswerInv`); what is
  queued has the sequence number of this dump or of an earlier one (`QueueInv`). So
  `NeverStarved` holds, and a dump that is collected is complete unless the kernel said
  otherwise in the status nobody reads (`CollectInv`), from
  which `ContractImplemented` follows: each step is a step of `DumpContract` or none.
  Every step is one forward or takes a datagram from the queue (`DumpGoesOn`).
- `ProcessTableProofs`: `TableInv`. For CPU shares, `CaptureInv`: a process in the
  first capture whose start time is still that of its PID has been there since, since
  start times only grow. For rows, `RowsInv`: a process that was there from the
  beginning is read from its own files (`ReadInv`); without a warning it waits to be
  read or has its row (`WalkInv`), keeps it while units are asked for (`UnitInv`) and in
  the finished list (`ListDoneInv`). `NothingDropped` and `CpuIsOfOneProcess` are
  consequences. The walk starts at the least PID, which exists because the natural
  numbers are well-founded. No step leads back: a PID is left behind, or its next file
  is read (`TableGoesOn`).
- `ExplorerProofs`: `ExplorerInv`. What has been there all along can only get less, and
  is still the same process with the same unit (`PastInv`, `HostPast`): every claim
  below is about it, so the steps of the host keep them all. Where the command is says
  what was resolved (`KindInv`). A dump that was not reported as partial has every
  socket sought (`SocksInv`); without a warning every holder of one is among its owners
  and, for a port, is still to be asked about or known with its unit (`OwnersInv`), and
  then its unit is in the answer or still to be visited (`VisitInv`); the processes and
  services of the answer are those of the process, service or name (`RelatedInv`), the
  ports those they hold (`PortsInv`). `CompleteOrWarned` is what these say of the last
  step (`DoneInv`). `NeverAGuess` needs what the resolver has found out so far
  (`GuessInv`) and `SocksInv`. `RecentLogsWhole` needs `LogsInv`: no entry is twice in
  the log, and while units and PIDs are visited and the journal grows, each entry of one
  visited so far that was there at the start is in the log or was left out for at least
  `LogLimit` newer ones that are; that sorting and cutting then keep the newest of all
  is a fact about ranks in finite sets of numbers (`Ranks`). The types of the log come
  from the same lemmas, those of the places and outcomes from `WhereOK`
  (`ExplorerTypes`). No step leads back (`ExplorerGoesOn`).
- `OneCommandProofs`: `CmdInv` says that a command that still runs has had no effect
  (`RunningInv`), which verbs come to which place (`VerbInv`), that every place with
  an effect lies behind the consent it needs (`ConsentInv`), and which process handle
  and `since` refer to (`BearerInv`). `WaitIsTrue`, `HandleIsUsed` and the refinement
  of `CommandContract` (`PromiseKept`) rest on it. Nothing is asked, tried or sent twice;
  only interruptions of `poll()` let `waitForExit` wait longer than its timeout
  (`CmdGoesOn`). The composition implements each of its four modules
  (`OneCommandComposes`), so that everything proved of them holds of one invocation of
  lx: the types (`TypesCorrect`), the ten properties of the run (`OneCommandCorrect`)
  and that every step of its own brings it closer to its end (`OneCommandGoesOn`).

Each of these inductive invariants was checked by TLC on the instance of its run before it
was proved.

Only model-checked: the liveness properties (`ReleaseEnds`, `AcceptedRuns`,
`LeavingEnds`, `StopReturns`, `StopEnds`, `EntriesArrive`), since reasoning about
fairness is out of the prover's reach. For all but `EntriesArrive` the theorems above
have what remains when fairness is set aside: a next step is there, no wake-up is lost,
or no step leads back. That a bounded descent under fairness ends is left to TLC.

## Not modelled

Rendering, option parsing, printing and JSON have no state. The parsers of procfs
text, D-Bus properties and journal fields, and `parseSince`, are sequential functions
from text to a record with unit tests of their own; in the models a parser yields its
record or "malformed". The percentages of the whole host (`status`) are arithmetic on
two records; `doctor` prints what each provider says of itself; `lx process PID`,
`lx port` and `lx service` without an action print the answer of one call that the
models contain. A missing `/proc` is one of the failures of
`PortRelease`; elsewhere it is a list or scan that fails. Sockets
without an inode or held by the kernel are like sockets of an unreadable process: no
owner is found.

## Plan

`parseSince` as a function checked against a reference.
