------------------------------ MODULE Dashboard ------------------------------
(***************************************************************************)
(* The data side of the terminal UI: DashboardService::refreshAt builds a  *)
(* snapshot from four sources, any of which can fail, and DashboardWorker  *)
(* publishes it from a thread of its own until it is stopped.              *)
(*                                                                         *)
(* Data are abstracted to the cycle (call of refreshAt) that read them.    *)
(* Time is counted in worker periods of 1.5 s.  The one time the code uses *)
(* is refreshAt's argument, taken when the refresh begins, so only the     *)
(* time between two beginnings is modelled: how long the reads took and    *)
(* the period waited after them.                                           *)
(***************************************************************************)
EXTENDS Integers

CONSTANTS
  Interval,   \* serviceInterval: 3 s, in periods
  MaxCycles,  \* bound: refreshes in one run
  MaxSlow,    \* bound: periods the reads of a refresh may take
  Throws      \* whether a refresh can throw

ASSUME DashboardAssumption ==
  /\ Interval \in Nat \ {0}
  /\ MaxCycles \in Nat
  /\ MaxSlow \in Nat
  /\ Throws \in BOOLEAN

Sources == {"host", "processes", "ports", "services"}

VARIABLES
  worker,      \* where the worker thread is: the source it reads, or a step
  caller,      \* where the thread is that calls start() and stop()
  stopping,    \* stopping_
  cycle,       \* refreshes begun
  now,         \* refreshAt's argument: when the last refresh began
  next,        \* the snapshot being built
  metrics,     \* the cycle has a metrics view
  previous,    \* previous_: what the next refresh starts from
  servicesAt,  \* servicesRefreshedAt_: empty, or a time
  snapshot     \* snapshot_: empty, or the published snapshot

\* History: the last cycle in which each source was read, and whether the
\* last read of each source failed.
VARIABLES good, bad

vars == <<worker, caller, stopping, cycle, now, next, metrics, previous,
          servicesAt, snapshot, good, bad>>

Cycles == 0..MaxCycles
Times == Nat

\* data[s]: the cycle whose data of s are shown (0: none); cpu: the cycle of
\* the metrics from which the processes got their CPU share (0: none).
Snapshot == [data : [Sources -> Cycles], stale : [Sources -> BOOLEAN],
             warnings : SUBSET Sources, cpu : Cycles]

Empty == [data |-> [s \in Sources |-> 0], stale |-> [s \in Sources |-> FALSE],
          warnings |-> {}, cpu |-> 0]

(* Type invariant. *)
TypeOK ==
  /\ worker \in Sources \cup {"none", "publish", "notify", "wait", "ended"}
  /\ caller \in {"idle", "running", "stopping", "joined"}
  /\ stopping \in BOOLEAN
  /\ cycle \in Cycles
  /\ now \in Times
  /\ next \in Snapshot
  /\ metrics \in BOOLEAN
  /\ previous \in Snapshot
  /\ servicesAt \in [set : BOOLEAN, at : Times]
  /\ snapshot \in [set : BOOLEAN, value : Snapshot]
  /\ good \in [Sources -> Cycles]
  /\ bad \in [Sources -> BOOLEAN]

Init ==
  /\ worker = "none" /\ caller = "idle" /\ stopping = FALSE
  /\ cycle = 0 /\ now = 0
  /\ next = Empty /\ metrics = FALSE /\ previous = Empty
  /\ servicesAt = [set |-> FALSE, at |-> 0]
  /\ snapshot = [set |-> FALSE, value |-> Empty]
  /\ good = [s \in Sources |-> 0] /\ bad = [s \in Sources |-> FALSE]

-----------------------------------------------------------------------------
(* refreshAt() *)

BeginAfresh ==
  /\ cycle < MaxCycles
  /\ cycle' = cycle + 1
  /\ next' = Empty
  /\ metrics' = FALSE
  /\ worker' = "host"

\* Every refresh starts from the previous snapshot, without its warnings.
Begin ==
  /\ cycle < MaxCycles
  /\ cycle' = cycle + 1
  /\ next' = [previous EXCEPT !.warnings = {}]
  /\ metrics' = FALSE
  /\ worker' = "host"

\* The outcome of reading source s goes into the snapshot being built.  A
\* success may bring warnings of its own.
Succeeds(s) ==
  /\ \E w \in SUBSET {s} :
       next' = [next EXCEPT !.data[s] = cycle, !.stale[s] = FALSE,
                            !.warnings = @ \cup w,
                            !.cpu = IF s # "processes" THEN @
                                    ELSE IF metrics THEN cycle ELSE 0]
  /\ good' = [good EXCEPT ![s] = cycle]
  /\ bad' = [bad EXCEPT ![s] = FALSE]

Fails(s) ==
  /\ next' = [next EXCEPT !.stale[s] = TRUE, !.warnings = @ \cup {s}]
  /\ bad' = [bad EXCEPT ![s] = TRUE]
  /\ UNCHANGED good

ReadHost ==
  /\ worker = "host" /\ worker' = "processes"
  /\ \/ Succeeds("host") /\ metrics' = TRUE
     \/ Fails("host") /\ metrics' = FALSE
  /\ UNCHANGED <<caller, stopping, cycle, now, previous, servicesAt, snapshot>>

\* A process list gets its CPU shares from the metrics of the same cycle.
ReadProcessesKeepingCpu ==
  /\ worker = "processes" /\ worker' = "ports"
  /\ \/ /\ next' = [next EXCEPT !.data["processes"] = cycle,
                                !.stale["processes"] = FALSE,
                                !.cpu = IF metrics THEN cycle ELSE @]
        /\ good' = [good EXCEPT !["processes"] = cycle]
        /\ bad' = [bad EXCEPT !["processes"] = FALSE]
     \/ Fails("processes")
  /\ UNCHANGED <<caller, stopping, cycle, now, metrics, previous, servicesAt,
                 snapshot>>

ReadProcesses ==
  /\ worker = "processes" /\ worker' = "ports"
  /\ Succeeds("processes") \/ Fails("processes")
  /\ UNCHANGED <<caller, stopping, cycle, now, metrics, previous, servicesAt,
                 snapshot>>

ReadPorts ==
  /\ worker = "ports" /\ worker' = "services"
  /\ Succeeds("ports") \/ Fails("ports")
  /\ UNCHANGED <<caller, stopping, cycle, now, metrics, previous, servicesAt,
                 snapshot>>

\* Services are read when the last successful read is an interval ago; then
\* the snapshot is complete and becomes the previous one.
Due == ~servicesAt.set \/ now - servicesAt.at >= Interval

ReadServicesTimingFailures ==
  /\ worker = "services" /\ worker' = "publish"
  /\ \/ Due /\ Succeeds("services")
     \/ Due /\ Fails("services")
     \/ ~Due /\ UNCHANGED <<next, good, bad>>
  /\ servicesAt' = IF Due THEN [set |-> TRUE, at |-> now] ELSE servicesAt
  /\ previous' = next'
  /\ UNCHANGED <<caller, stopping, cycle, now, metrics, snapshot>>

ReadServicesBackdating ==
  /\ worker = "services" /\ worker' = "publish"
  /\ \/ /\ Due /\ Succeeds("services")
        /\ servicesAt' = [set |-> TRUE, at |-> now]
     \/ /\ Due /\ Fails("services")
        /\ servicesAt' = [set |-> TRUE, at |-> now - Interval]
     \/ ~Due /\ UNCHANGED <<next, servicesAt, good, bad>>
  /\ previous' = next'
  /\ UNCHANGED <<caller, stopping, cycle, now, metrics, snapshot>>

ReadServices ==
  /\ worker = "services" /\ worker' = "publish"
  /\ \/ /\ Due /\ Succeeds("services")
        /\ servicesAt' = [set |-> TRUE, at |-> now]
     \/ Due /\ Fails("services") /\ UNCHANGED servicesAt
     \/ ~Due /\ UNCHANGED <<next, servicesAt, good, bad>>
  /\ previous' = next'
  /\ UNCHANGED <<caller, stopping, cycle, now, metrics, snapshot>>

\* An exception ends the thread; what was published stays, and the reads of
\* the abandoned refresh are lost.
Throw ==
  /\ Throws
  /\ worker \in Sources
  /\ worker' = "ended"
  /\ good' = previous.data /\ bad' = previous.stale
  /\ UNCHANGED <<caller, stopping, cycle, now, next, metrics, previous,
                 servicesAt, snapshot>>

-----------------------------------------------------------------------------
(* DashboardWorker *)

Publish ==
  /\ worker = "publish" /\ worker' = "notify"
  /\ snapshot' = [set |-> TRUE, value |-> next]
  /\ UNCHANGED <<caller, stopping, cycle, now, next, metrics, previous,
                 servicesAt, good, bad>>

\* refreshed() is called.
Notify ==
  /\ worker = "notify" /\ worker' = "wait"
  /\ UNCHANGED <<caller, stopping, cycle, now, next, metrics, previous,
                 servicesAt, snapshot, good, bad>>

\* wait_for() with the predicate stopping_: the thread ends when it holds,
\* and refreshes again when a period is over without it.  The next refresh
\* begins that period, and the d periods the last one took, after its start.
WaitIgnoringStop ==
  /\ worker = "wait"
  /\ IF cycle = MaxCycles THEN UNCHANGED <<worker, now, cycle, next, metrics>>
     ELSE Begin /\ now' = now + 1
  /\ UNCHANGED <<caller, stopping, previous, servicesAt, snapshot, good, bad>>

Wait ==
  /\ worker = "wait"
  /\ \/ /\ stopping
        /\ worker' = "ended"
        /\ UNCHANGED <<now, cycle, next, metrics>>
     \/ /\ ~stopping
        /\ \E d \in 0..MaxSlow : now' = now + d + 1
        /\ Begin
  /\ UNCHANGED <<caller, stopping, previous, servicesAt, snapshot, good, bad>>

\* start() does nothing while the thread has not been joined.
Start ==
  /\ caller \in {"idle", "joined"} /\ caller' = "running"
  /\ stopping' = FALSE
  /\ \E d \in 0..MaxSlow : now' = now + d
  /\ Begin
  /\ UNCHANGED <<previous, servicesAt, snapshot, good, bad>>

Stop ==
  /\ caller = "running" /\ caller' = "stopping"
  /\ stopping' = TRUE
  /\ UNCHANGED <<worker, cycle, now, next, metrics, previous, servicesAt,
                 snapshot, good, bad>>

Join ==
  /\ caller = "stopping" /\ worker = "ended"
  /\ caller' = "joined"
  /\ UNCHANGED <<worker, stopping, cycle, now, next, metrics, previous,
                 servicesAt, snapshot, good, bad>>

Refresh == ReadHost \/ ReadProcesses \/ ReadPorts \/ ReadServices \/ Throw
Work == Refresh \/ Publish \/ Notify \/ Wait

Done == caller = "joined" /\ UNCHANGED vars

Next == Work \/ Start \/ Stop \/ Join \/ Done

Spec == Init /\ [][Next]_vars
FairSpec == Spec /\ WF_vars(Work) /\ WF_vars(Join)

-----------------------------------------------------------------------------
(* Properties. *)

(* A failing source keeps its previous data and is marked: a complete      *)
(* snapshot shows of each source what the last successful read brought,    *)
(* marked stale exactly when the last read failed.                         *)
KeepsLastGood ==
  worker = "publish" => next.data = good /\ next.stale = bad

(* A source marked stale has a warning in the same snapshot: warnings are  *)
(* dropped in every cycle, but a source that is skipped in a cycle         *)
(* (services, between two intervals) is never one that is marked.          *)
StaleHasWarning ==
  snapshot.set =>
    \A s \in Sources : snapshot.value.stale[s] => s \in snapshot.value.warnings

(* CPU shares belong to the process list they are shown with: they come    *)
(* from the metrics of the cycle that read the list, or there are none.    *)
CpuOfSameCycle ==
  snapshot.set =>
    snapshot.value.cpu \in {0, snapshot.value.data["processes"]}

(* stop() returns: the thread sees stopping_ after at most one refresh,    *)
(* also when stop() comes while it refreshes and its notification is lost. *)
StopReturns == [](caller = "stopping" => <>(caller = "joined"))

-----------------------------------------------------------------------------
(* What the documentation says, and the code does not do. *)

(* docs/development.md: "The dashboard publishes immutable snapshots from  *)
(* a worker thread every 1.5 seconds."  The thread goes on publishing      *)
(* until it is told to stop; in DashboardWorker::work() an exception ends  *)
(* it, and the last snapshot stays on display without a mark.              *)
PublishesUntilStopped == worker = "ended" => stopping

=============================================================================
