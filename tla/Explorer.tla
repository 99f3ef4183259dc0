------------------------------ MODULE Explorer ------------------------------
(***************************************************************************)
(* `lx inspect` and `lx find`: ResourceResolver, InspectService and        *)
(* FindService over the calls of the port, process, service and log        *)
(* services, while the host of module Host changes between two calls.      *)
(*                                                                         *)
(* One step is one call of a provider, with every answer it can give; what *)
(* happens inside the calls is in PortRelease, ProcessTable, NetlinkDump   *)
(* and JournalFollow.                                                      *)
(***************************************************************************)
EXTENDS Host, Sequences, FiniteSets

CONSTANTS
  Number,     \* the number given: a PID, and the number of a port
  AtPort,     \* sockets bound to that port
  Named,      \* processes <<p, b>> that match the name given
  NamedUnits, \* the service of that name, or NoUnit: either may be the case
  LogUnit,    \* LogUnit[n]: the unit of journal entry n; the order is that of time
  LogPid,     \* LogPid[n]: the PID that wrote it
  LogStart,   \* entries there when the command starts; the others may follow
  LogLimit,   \* recent entries shown
  Lookups,    \* what is asked for in the instance, a subset of LookupKinds
  XFaults     \* which of XFaultKinds can happen

LookupKinds == {"empty", "port:", "pid:", "service:", "number", "name", "find"}

XFaultKinds == {"process", "list", "dump", "partial", "short", "scan", "hidden", "bus",
                "unavailable", "journal"}

ASSUME ExplorerAssumption ==
  /\ IsFiniteSet(Pids)
  /\ Number \in Pids
  /\ AtPort \subseteq Inodes
  /\ Named \subseteq Pids \X (0..MaxBirth)
  /\ NamedUnits \subseteq Units \cup {NoUnit}
  /\ LogUnit \in Seq(Units \cup {NoUnit}) /\ LogPid \in Seq(Pids)
  /\ Len(LogUnit) = Len(LogPid)
  /\ LogStart \in 0..Len(LogUnit)
  /\ LogLimit \in Nat \ {0}
  /\ Lookups \subseteq LookupKinds
  /\ XFaults \subseteq XFaultKinds

VARIABLES
  written,    \* number of journal entries written so far
  xpc,        \* where the command is
  ask,        \* what was asked for
  root,       \* the ResourceTarget, once resolved
  probe,      \* the name's unit; lookups of the resolver: what exists, whether one failed
  socks,      \* PortService::inspect: the sockets of the dump,
  owned,      \* their ownerPids,
  unvisited,  \* owners, units or PIDs not asked about yet
  service,    \* service[p]: the unit found for process p
  portsOk,    \* and whether it succeeded
  graph,      \* the ResourceGraph or FindResult
  note,       \* "warning" once there is one, "dropped" if the error returned in the
              \* end does not have it; "silent" if data is missing without one
  xend,       \* how the command ended
  steadyProcs, steadyHolds, before0  \* history: what has been there all along

worldVars == <<hostVars, written>>
callVars == <<socks, owned, unvisited, service, portsOk>>
pastVars == <<steadyProcs, steadyHolds, before0>>
xVars == <<worldVars, xpc, ask, root, probe, callVars, graph, note, xend, pastVars>>

NoRoot == [kind |-> "none", pid |-> Number, unit |-> NoUnit]
NoGraph == [procs |-> {}, svcs |-> {}, ports |-> {}, logs |-> <<>>]
NoServices == [p \in Pids |-> NoUnit]
Entries == 1..Len(LogUnit)
NamedUnit == probe.unit

(* Type invariant. *)
ExplorerTypeOK ==
  /\ HostTypeOK
  /\ written \in LogStart..Len(LogUnit)
  /\ xpc \in {"idle", "probe", "name", "names", "process", "related", "service",
              "members", "dump", "scan", "owners", "ports", "visit", "logs",
              "finalize", "services", "processes", "over"}
  /\ ask \in LookupKinds
  /\ root \in [kind : {"none", "port", "pid", "unit"}, pid : Pids,
               unit : Units \cup {NoUnit}]
  /\ probe \in [unit : Units \cup {NoUnit}, exists : BOOLEAN, failed : BOOLEAN]
  /\ socks \in SUBSET Inodes
  /\ owned \in [Inodes -> SUBSET Pids]
  /\ unvisited \in SUBSET (Pids \cup Units)
  /\ service \in [Pids -> Units \cup {NoUnit}]
  /\ portsOk \in BOOLEAN
  /\ graph.procs \in SUBSET Pids /\ graph.svcs \in SUBSET Units
  /\ graph.ports \in SUBSET Inodes /\ graph.logs \in Seq(Entries)
  /\ note \in {"none", "silent", "warning", "dropped"}
  /\ xend \in {"none", "ok", "InvalidArgument", "NotFound", "Conflict", "failed",
                 "aborted"}

ExplorerInit ==
  /\ HostInit
  /\ written = LogStart
  /\ xpc = "idle" /\ ask = "empty" /\ root = NoRoot
  /\ probe = [unit |-> NoUnit, exists |-> FALSE, failed |-> FALSE]
  /\ socks = {} /\ owned = [i \in Inodes |-> {}] /\ unvisited = {}
  /\ service = NoServices /\ portsOk = TRUE
  /\ graph = NoGraph /\ note = "none" /\ xend = "none"
  /\ steadyProcs = {} /\ steadyHolds = {} /\ before0 = {}

-----------------------------------------------------------------------------
(* What the calls can answer. *)

Fails(f) == f \in XFaults

\* ProcessService::inspect: the process, with its unit as systemd knows it; no
\* unit and a warning, or no unit at all when systemd is unreachable.
InspectProcess(p) ==
  {a \in [ok : BOOLEAN, unit : {unitOf[p], NoUnit}, note : {"none", "silent", "warning"}] :
     \/ ~a.ok /\ (p \notin alive \/ Fails("process")) /\ a.unit = NoUnit /\ a.note = "warning"
     \/ /\ a.ok /\ p \in alive
        /\ CASE a.note = "none"    -> a.unit = unitOf[p]
             [] a.note = "warning" -> a.unit = NoUnit /\ Fails("bus")
             [] a.note = "silent"  -> a.unit = NoUnit /\ Fails("unavailable")}

\* ProcessService::list: rows may be missing, and units of rows.
ListProcesses ==
  {a \in [rows : SUBSET alive, unitless : SUBSET alive, note : {"none", "silent", "warning"}] :
     CASE a.note = "none"   -> a.rows = alive /\ a.unitless = {}
       [] a.note = "silent" -> a.rows = alive /\ a.unitless # {} /\ Fails("unavailable")
       [] a.note = "warning" -> \/ a.rows # alive /\ a.unitless = {} /\ Fails("list")
                                \/ a.rows = alive /\ a.unitless # {} /\ Fails("bus")}

UnitIn(a, p) == IF p \in a.unitless THEN NoUnit ELSE unitOf[p]

\* SystemdServiceProvider::get: some properties are optional.
GetService(u) ==
  (IF u # NoUnit THEN {"ok"} ELSE {"NotFound"})
    \cup (IF u # NoUnit /\ Fails("bus") THEN {"partial"} ELSE {})
    \cup (IF Fails("bus") \/ Fails("unavailable") THEN {"failed"} ELSE {})

\* SystemdServiceProvider::list: so are file states and main PIDs.
ListServices ==
  {"ok"} \cup (IF Fails("bus") THEN {"partial"} ELSE {})
         \cup (IF Fails("bus") \/ Fails("unavailable") THEN {"failed"} ELSE {})

Worse(n) == IF "warning" \in {note, n} THEN "warning"
            ELSE IF "silent" \in {note, n} THEN "silent" ELSE "none"

\* Returning an error leaves the warnings behind.
Dropped(n) == IF n = "warning" THEN "dropped" ELSE n

\* The entries of a unit or a PID among the first t.
Scope(x, t) == {n \in Entries : n <= t /\ (LogUnit[n] = x \/ LogPid[n] = x)}

\* LogService::read: the newest that are there now.
Newest(x) ==
  LET there == Scope(x, written)
  IN  {n \in there : Cardinality({m \in there : m > n}) < LogLimit}

\* The oldest first.
InOrder(S) ==
  [k \in 1..Cardinality(S) |-> CHOOSE n \in S : Cardinality({m \in S : m <= n}) = k]

-----------------------------------------------------------------------------

Over(how) == xpc' = "over" /\ xend' = how

To(pc) == xpc' = pc /\ UNCHANGED xend

\* journald appends an entry; it makes a difference only between two logs.
JournalGrows ==
  /\ xpc = "visit"
  /\ written < Len(LogUnit)
  /\ written' = written + 1
  /\ UNCHANGED hostVars

\* Processes, sockets and descriptors come and go while the command runs, and
\* the journal grows.  The steps that call nothing count as one with the call
\* before them.
HostGoesOn ==
  /\ xpc \notin {"idle", "ports", "finalize", "over"}
  /\ (HostNext /\ UNCHANGED written) \/ JournalGrows
  /\ steadyProcs' = {pr \in steadyProcs : pr[1] \in alive'}
  /\ steadyHolds' = {h \in steadyHolds : h[2] \in holders'[h[1]]}
  /\ UNCHANGED <<xpc, ask, root, probe, callVars, graph, note, xend, before0>>

\* The command line; an explicit target needs no resolving.
Explore ==
  /\ xpc = "idle"
  /\ ask' \in Lookups
  /\ CASE ask' = "empty"    -> Over("InvalidArgument") /\ UNCHANGED root
       [] ask' = "port:"    -> To("dump") /\ root' = [NoRoot EXCEPT !.kind = "port"]
       [] ask' = "pid:"     -> To("process") /\ root' = [NoRoot EXCEPT !.kind = "pid"]
       [] ask' = "service:" -> /\ To("service")
                               /\ \E u \in Units \cup {NoUnit} :
                                    root' = [NoRoot EXCEPT !.kind = "unit", !.unit = u]
       [] ask' = "number"   -> To("probe") /\ UNCHANGED root
       [] ask' = "name"     -> To("name") /\ UNCHANGED root
       [] ask' = "find"     -> To("services") /\ UNCHANGED root
  /\ steadyProcs' = {<<p, birth[p]>> : p \in alive}
  /\ steadyHolds' = {h \in Inodes \X Pids : h[2] \in holders[h[1]]}
  /\ before0' = Bound
  /\ \E u \in IF ask' \in {"name", "find"} THEN NamedUnits ELSE {NoUnit} :
       probe' = [probe EXCEPT !.unit = u]
  /\ UNCHANGED <<worldVars, callVars, graph, note>>

-----------------------------------------------------------------------------
(* ResourceResolver::resolve. *)

\* A bare number: a process that cannot be inspected does not exist.
ProbeProcess ==
  /\ xpc = "probe"
  /\ \E a \in InspectProcess(Number) :
       probe' = [probe EXCEPT !.exists = a.ok, !.failed = ~a.ok /\ Number \in alive]
  /\ To("dump")
  /\ UNCHANGED <<worldVars, ask, root, callVars, graph, note, pastVars>>

\* The port was looked up too; nor does a port that cannot be inspected exist.
NumberResolvedToPort ==
  /\ xpc = "ports" /\ ask = "number" /\ root = NoRoot
  /\ IF portsOk /\ socks # {}
       THEN root' = [NoRoot EXCEPT !.kind = "port"] /\ To("dump")
     ELSE IF probe.exists
       THEN root' = [NoRoot EXCEPT !.kind = "pid"] /\ To("process")
     ELSE Over("NotFound") /\ UNCHANGED root
  /\ probe' = [probe EXCEPT !.failed = @ \/ ~portsOk]
  /\ UNCHANGED <<worldVars, ask, callVars, graph, note, pastVars>>

NumberResolved ==
  /\ xpc = "ports" /\ ask = "number" /\ root = NoRoot
  /\ LET portExists == portsOk /\ socks # {}
     IN  CASE portExists /\ probe.exists -> Over("Conflict") /\ UNCHANGED root
           [] portExists /\ ~probe.exists ->
                root' = [NoRoot EXCEPT !.kind = "port"] /\ To("dump")
           [] ~portExists /\ probe.exists ->
                root' = [NoRoot EXCEPT !.kind = "pid"] /\ To("process")
           [] OTHER -> Over("NotFound") /\ UNCHANGED root
  /\ probe' = [probe EXCEPT !.failed = @ \/ ~portsOk \/ note = "warning"]
  /\ note' = "none"
  /\ UNCHANGED <<worldVars, ask, callVars, graph, pastVars>>

\* A bare name: a service, or else ...
NameLookedUp ==
  /\ xpc = "name"
  /\ \E a \in GetService(NamedUnit) :
       IF a \in {"ok", "partial"}
         THEN /\ root' = [NoRoot EXCEPT !.kind = "unit", !.unit = NamedUnit]
              /\ To("service") /\ UNCHANGED probe
         ELSE /\ To("names") /\ UNCHANGED root
              /\ probe' = [probe EXCEPT !.failed = a = "failed"]
  /\ UNCHANGED <<worldVars, ask, callVars, graph, note, pastVars>>

\* ... the one process of that name.
NamesListed ==
  /\ xpc = "names"
  /\ \/ \E a \in ListProcesses :
          LET found == {p \in a.rows : <<p, birth[p]>> \in Named}
          IN  /\ CASE Cardinality(found) = 1 ->
                        /\ \E p \in found : root' = [NoRoot EXCEPT !.kind = "pid", !.pid = p]
                        /\ To("process")
                   [] found = {} -> Over("NotFound") /\ UNCHANGED root
                   [] OTHER -> Over("Conflict") /\ UNCHANGED root
              /\ probe' = [probe EXCEPT !.failed = @ \/ a.rows # alive]
     \/ Fails("list") /\ Over("failed") /\ UNCHANGED <<root, probe>>
  /\ UNCHANGED <<worldVars, ask, callVars, graph, note, pastVars>>

-----------------------------------------------------------------------------
(* PortService::inspect, for one port or for all of them. *)

Wanted ==
  IF ask # "find" /\ root.kind \in {"none", "port"} THEN Bound \cap AtPort ELSE Bound

PortsFailed ==
  /\ To("ports") /\ portsOk' = FALSE
  /\ probe' = [probe EXCEPT !.failed = TRUE]
  /\ UNCHANGED <<socks, owned, unvisited, note>>

\* All of them, some and a warning, or some and no warning: see NetlinkDump.
DumpSockets ==
  /\ xpc = "dump"
  /\ \/ /\ socks' = Wanted
        /\ To("scan") /\ portsOk' = TRUE
        /\ UNCHANGED <<probe, owned, unvisited, note>>
     \/ /\ Fails("partial")
        /\ socks' \in SUBSET Wanted /\ note' = "warning"
        /\ probe' = [probe EXCEPT !.failed = TRUE]
        /\ To("scan") /\ portsOk' = TRUE
        /\ UNCHANGED <<owned, unvisited>>
     \/ /\ Fails("short")
        /\ socks' \in SUBSET Wanted /\ socks' # Wanted /\ note' = Worse("silent")
        /\ probe' = [probe EXCEPT !.failed = TRUE]
        /\ To("scan") /\ portsOk' = TRUE
        /\ UNCHANGED <<owned, unvisited>>
     \/ Fails("dump") /\ PortsFailed
  /\ service' = NoServices
  /\ UNCHANGED <<worldVars, ask, root, graph, pastVars>>

\* ProcFsSocketOwnerResolver::resolve.
ResolveOwners ==
  /\ xpc = "scan"
  /\ \/ /\ \E hidden \in SUBSET alive :
             /\ hidden = {} \/ Fails("hidden")
             /\ owned' = [i \in Inodes |-> IF i \in socks THEN holders[i] \ hidden ELSE {}]
             /\ note' = IF hidden = {} THEN note ELSE "warning"
        /\ unvisited' = UNION {owned'[i] : i \in socks}
        /\ To("owners")
        /\ UNCHANGED <<probe, socks, portsOk>>
     \/ Fails("scan") /\ PortsFailed
  /\ UNCHANGED <<worldVars, ask, root, service, graph, pastVars>>

\* An owner that cannot be inspected stays a PID, with a warning.
InspectOwner(p) ==
  /\ xpc = "owners" /\ p \in unvisited
  /\ unvisited' = unvisited \ {p}
  /\ \E a \in InspectProcess(p) :
       /\ service' = [service EXCEPT ![p] = a.unit]
       /\ note' = Worse(a.note)
       /\ graph' = IF a.ok /\ root.kind = "port"
                     THEN [graph EXCEPT !.procs = @ \cup {p}] ELSE graph
  /\ UNCHANGED <<worldVars, xpc, ask, root, probe, socks, owned, portsOk, xend, pastVars>>

\* A process ends while ProcFsReader has a file of it open: nothing up to
\* main() catches what the stream buffer throws then.
CallThrows ==
  /\ \/ xpc \in {"names", "members", "processes"} /\ alive # Pids
     \/ xpc = "owners" /\ unvisited \ alive # {}
     \/ xpc = "probe" /\ Number \notin alive
     \/ xpc = "process" /\ root.pid \notin alive
  /\ Over("aborted")
  /\ UNCHANGED <<worldVars, ask, root, probe, callVars, graph, note, pastVars>>

PortsInspected ==
  /\ xpc = "owners" /\ unvisited = {}
  /\ To("ports")
  /\ UNCHANGED <<worldVars, ask, root, probe, callVars, graph, note, pastVars>>

-----------------------------------------------------------------------------
(* InspectService::inspect: the root, then what is related to it. *)

\* addLogs: an entry already there is not added again.
Shown(logs) == {logs[i] : i \in DOMAIN logs}

AddLogsTwice(logs, x) == logs \o InOrder(Newest(x))

AddLogs(logs, x) == logs \o InOrder(Newest(x) \ Shown(logs))

\* port: the sockets must be there; then the services and the other owners.
PortRootUnsplit ==
  /\ xpc = "ports" /\ root.kind = "port"
  /\ IF ~portsOk \/ socks = {}
       THEN /\ Over(IF portsOk THEN "NotFound" ELSE "failed")
            /\ note' = Dropped(note)
            /\ UNCHANGED <<graph, unvisited>>
     ELSE /\ graph' = [graph EXCEPT !.ports = socks]
          /\ unvisited' = {service[p] : p \in graph.procs}
          /\ To("visit") /\ UNCHANGED note
  /\ UNCHANGED <<worldVars, ask, root, probe, socks, owned, service, portsOk, pastVars>>

PortRoot ==
  /\ xpc = "ports" /\ root.kind = "port"
  /\ IF ~portsOk \/ socks = {}
       THEN /\ Over(IF portsOk THEN "NotFound" ELSE "failed")
            /\ note' = Dropped(note)
            /\ UNCHANGED <<graph, unvisited>>
     ELSE /\ graph' = [graph EXCEPT !.ports = socks]
          /\ unvisited' = {IF service[p] = NoUnit THEN p ELSE service[p] : p \in graph.procs}
          /\ To("visit") /\ UNCHANGED note
  /\ UNCHANGED <<worldVars, ask, root, probe, socks, owned, service, portsOk, pastVars>>

\* serviceService_.inspect for a related unit, and its log: what is missing has
\* a warning.
Reads == IF Fails("journal") THEN BOOLEAN ELSE {TRUE}

WithLog(g, x, read) == IF read THEN [g EXCEPT !.logs = AddLogs(@, x)] ELSE g

WithService(g, u, a) == IF a \in {"ok", "partial"} THEN [g EXCEPT !.svcs = @ \cup {u}] ELSE g

VisitUnit(u) ==
  /\ xpc = "visit" /\ u \in unvisited \cap Units
  /\ unvisited' = unvisited \ {u}
  /\ \E a \in GetService(u), read \in Reads :
       /\ graph' = WithLog(WithService(graph, u, a), u, read)
       /\ note' = IF a = "ok" /\ read THEN note ELSE "warning"
  /\ UNCHANGED <<worldVars, xpc, ask, root, probe, socks, owned, service, portsOk, xend,
                 pastVars>>

\* After the units, the owners that have none.
VisitPid(p) ==
  /\ xpc = "visit" /\ unvisited \cap Units = {} /\ p \in unvisited
  /\ unvisited' = unvisited \ {p}
  /\ \E read \in Reads :
       /\ graph' = WithLog(graph, p, read)
       /\ note' = IF read THEN note ELSE "warning"
  /\ UNCHANGED <<worldVars, xpc, ask, root, probe, socks, owned, service, portsOk, xend,
                 pastVars>>

\* process: it must be there; then its service, ...
ProcessRoot ==
  /\ xpc = "process"
  /\ \E a \in InspectProcess(root.pid) :
       IF ~a.ok THEN Over("failed") /\ UNCHANGED <<graph, note, unvisited>>
       ELSE /\ graph' = [graph EXCEPT !.procs = {root.pid}]
            /\ note' = Worse(a.note)
            /\ unvisited' = {a.unit} \ {NoUnit}
            /\ To(IF a.unit = NoUnit THEN "dump" ELSE "related")
  /\ UNCHANGED <<worldVars, ask, root, probe, socks, owned, service, portsOk, pastVars>>

RelatedService(u) ==
  /\ xpc = "related" /\ u \in unvisited
  /\ unvisited' = {}
  /\ \E a \in GetService(u) :
       /\ graph' = WithService(graph, u, a)
       /\ note' = IF a = "ok" THEN note ELSE "warning"
  /\ To("dump")
  /\ UNCHANGED <<worldVars, ask, root, probe, socks, owned, service, portsOk, pastVars>>

\* service: it must be there; then its processes, ...
ServiceRoot ==
  /\ xpc = "service"
  /\ \E a \in GetService(root.unit) :
       IF a \notin {"ok", "partial"} THEN Over("failed") /\ UNCHANGED <<graph, note>>
       ELSE /\ graph' = WithService(graph, root.unit, a)
            /\ note' = IF a = "ok" THEN note ELSE "warning"
            /\ To("members")
  /\ UNCHANGED <<worldVars, ask, root, probe, callVars, pastVars>>

\* An unreachable systemd fails the whole list.
Members ==
  /\ xpc = "members"
  /\ \/ \E a \in {l \in ListProcesses : l.note # "silent"} :
          /\ graph' = [graph EXCEPT !.procs = {p \in a.rows : UnitIn(a, p) = root.unit}]
          /\ note' = Worse(a.note)
     \/ /\ Fails("list") \/ Fails("unavailable")
        /\ note' = "warning" /\ UNCHANGED graph
  /\ To("dump")
  /\ UNCHANGED <<worldVars, ask, root, probe, callVars, pastVars>>

\* ... and, for both, the ports they own and the log.
RelatedPortsSilently ==
  /\ xpc = "ports" /\ root.kind \in {"pid", "unit"}
  /\ graph' = IF portsOk THEN [graph EXCEPT !.ports =
                                 {i \in socks : owned[i] \cap graph.procs # {}}]
                         ELSE graph
  /\ To("logs")
  /\ UNCHANGED <<worldVars, ask, root, probe, callVars, note, pastVars>>

RelatedPorts ==
  /\ xpc = "ports" /\ root.kind \in {"pid", "unit"}
  /\ graph' = IF portsOk THEN [graph EXCEPT !.ports =
                                 {i \in socks : owned[i] \cap graph.procs # {}}]
                         ELSE graph
  /\ note' = IF portsOk THEN note ELSE "warning"
  /\ To("logs")
  /\ UNCHANGED <<worldVars, ask, root, probe, callVars, pastVars>>

RootLogs ==
  /\ xpc = "logs"
  /\ \E read \in Reads :
       /\ graph' = WithLog(graph, IF root.kind = "pid" THEN root.pid ELSE root.unit, read)
       /\ note' = IF read THEN note ELSE "warning"
  /\ To("finalize")
  /\ UNCHANGED <<worldVars, ask, root, probe, callVars, pastVars>>

\* Where a stable sort by time puts entry i.
Place(logs, i) ==
  Cardinality({j \in DOMAIN logs : logs[j] < logs[i] \/ (logs[j] = logs[i] /\ j <= i)})

\* finalizeLogs: by time, and no more than the limit, the newest.
FinalizeLogs(logs) ==
  LET erased == IF Len(logs) > LogLimit THEN Len(logs) - LogLimit ELSE 0
  IN  [k \in 1..(Len(logs) - erased) |->
         logs[CHOOSE i \in DOMAIN logs : Place(logs, i) = erased + k]]

Finalize ==
  /\ xpc = "finalize" \/ (xpc = "visit" /\ unvisited = {})
  /\ graph' = [graph EXCEPT !.logs = FinalizeLogs(@)]
  /\ Over("ok")
  /\ UNCHANGED <<worldVars, ask, root, probe, callVars, note, pastVars>>

-----------------------------------------------------------------------------
(* FindService::find. *)

FindServices ==
  /\ xpc = "services"
  /\ \E a \in ListServices :
       /\ graph' = IF a = "failed" THEN graph
                   ELSE [graph EXCEPT !.svcs = {NamedUnit} \ {NoUnit}]
       /\ note' = IF a = "ok" THEN note ELSE "warning"
  /\ To("processes")
  /\ UNCHANGED <<worldVars, ask, root, probe, callVars, pastVars>>

\* By name, or by a unit that was found.
FindProcesses ==
  /\ xpc = "processes"
  /\ \/ \E a \in ListProcesses :
          /\ graph' = [graph EXCEPT !.procs =
                         {p \in a.rows : <<p, birth[p]>> \in Named \/ UnitIn(a, p) \in graph.svcs}]
          /\ note' = Worse(a.note)
          /\ To("dump")
     \/ Fails("list") /\ Over("failed") /\ note' = Dropped(note) /\ UNCHANGED graph
  /\ UNCHANGED <<worldVars, ask, root, probe, callVars, pastVars>>

\* By number, by a process or by an owner's unit that was found.
FoundPorts ==
  {i \in socks : \/ i \in AtPort
                 \/ owned[i] \cap graph.procs # {}
                 \/ \E p \in owned[i] : service[p] \in graph.svcs}

FindPorts ==
  /\ xpc = "ports" /\ ask = "find"
  /\ graph' = IF portsOk THEN [graph EXCEPT !.ports = FoundPorts] ELSE graph
  /\ LET warned == IF portsOk THEN note ELSE "warning"
     IN  IF graph' = NoGraph THEN Over("NotFound") /\ note' = Dropped(warned)
                             ELSE Over("ok") /\ note' = warned
  /\ UNCHANGED <<worldVars, ask, root, probe, callVars, pastVars>>

-----------------------------------------------------------------------------

ExplorerNext ==
  \/ Explore
  \/ ProbeProcess \/ NumberResolved \/ NameLookedUp \/ NamesListed
  \/ DumpSockets \/ ResolveOwners \/ PortsInspected \/ CallThrows
  \/ (\E p \in Pids : InspectOwner(p) \/ VisitPid(p))
  \/ (\E u \in Units : VisitUnit(u) \/ RelatedService(u))
  \/ PortRoot \/ ProcessRoot \/ ServiceRoot \/ Members \/ RelatedPorts
  \/ RootLogs \/ Finalize
  \/ FindServices \/ FindProcesses \/ FindPorts
  \/ HostGoesOn

ExplorerSpec == ExplorerInit /\ [][ExplorerNext]_xVars

-----------------------------------------------------------------------------

SteadyPids == {pr[1] : pr \in steadyProcs}
SteadySocks == before0 \cap Bound
HeldBy(S) == {h[1] : h \in {h \in steadyHolds : h[2] \in S}}

(* A bare number or name is never silently taken for one of two things     *)
(* that were both there from beginning to end, unless a lookup of the      *)
(* resolver failed (a failed lookup counts as "does not exist").           *)
NeverAGuess ==
  ~probe.failed =>
    /\ ask = "number" => /\ root.kind = "port" => Number \notin SteadyPids
                         /\ root.kind = "pid" => SteadySocks \cap AtPort = {}
    /\ ask = "name" /\ root.kind = "pid" =>
         NamedUnit = NoUnit /\ steadyProcs \cap Named \subseteq {<<root.pid, b>> : b \in 0..MaxBirth}

\* What has to be in the answer: everything related that was there throughout.
Related ==
  CASE root.kind = "port" ->
         LET owners == {h[2] : h \in {h \in steadyHolds : h[1] \in AtPort}}
         IN  [procs |-> owners, ports |-> SteadySocks \cap AtPort,
              svcs |-> {unitOf[p] : p \in owners} \ {NoUnit}]
    [] root.kind = "pid" ->
         [procs |-> {root.pid}, ports |-> HeldBy({root.pid} \cap SteadyPids),
          svcs |-> {unitOf[p] : p \in {root.pid} \cap SteadyPids} \ {NoUnit}]
    [] root.kind = "unit" ->
         LET members == {p \in SteadyPids : unitOf[p] = root.unit}
         IN  [procs |-> members, ports |-> HeldBy(members), svcs |-> {root.unit}]
    [] ask = "find" ->
         LET named == {p \in SteadyPids :
                         <<p, birth[p]>> \in Named \/ unitOf[p] \in {NamedUnit} \ {NoUnit}}
         IN  [procs |-> named, ports |-> HeldBy(named) \cup (SteadySocks \cap AtPort),
              svcs |-> {NamedUnit} \ {NoUnit}]
    [] OTHER -> [procs |-> {}, ports |-> {}, svcs |-> {}]

Complete ==
  /\ Related.procs \subseteq graph.procs
  /\ Related.ports \subseteq graph.ports
  /\ Related.svcs \subseteq graph.svcs

(* An answer of `inspect` or `find` for which no call gave a warning       *)
(* leaves out nothing related that was there throughout, although every    *)
(* part is observed at a different moment; and "not found" then means      *)
(* there was nothing.  It says nothing of answers that miss data in        *)
(* silence (units an unreachable systemd cannot name, sockets of a dump    *)
(* the kernel cut short), nor of a "not found" whose warnings were         *)
(* dropped: see NotFoundIsTrue.                                            *)
CompleteOrWarned ==
  note = "none" /\ (xend = "ok" \/ (xend = "NotFound" /\ ask \in {"port:", "find"}))
    => Complete

(* The recent log of `inspect port:` is put together from one query per    *)
(* unit and one per remaining PID, while entries are written between them: *)
(* no entry is shown twice, and of those that were there when the command  *)
(* started none is left out unless the limit is reached with newer ones.   *)
(* (An entry written while it runs may be missing though an older one is   *)
(* shown: its unit's log may have been read before.)                       *)
RecentLogsWhole ==
  root.kind = "port" /\ xend = "ok" /\ note = "none" =>
    LET shown == Shown(graph.logs)
        early == UNION {Scope(IF service[p] = NoUnit THEN p ELSE service[p], LogStart) :
                          p \in graph.procs}
    IN  /\ Cardinality(shown) = Len(graph.logs)
        /\ \A n \in early \ shown : Len(graph.logs) = LogLimit /\ \A m \in shown : m > n

(* docs/development.md: "unavailable related data is reported as a warning *)
(* without hiding the root result."                                        *)
MissingIsReported ==
  root.kind # "none" /\ xend = "ok" /\ note # "warning" => Complete

(* docs/development.md: process enumeration "treats processes that exit or *)
(* become unreadable during the scan as partial-result warnings."  What    *)
(* was there throughout and matches is not reported as "not found" without *)
(* a word about what could not be read.  But an error has no place for     *)
(* warnings: find, and inspect of a port, return it in their stead.        *)
NotFoundIsTrue ==
  xend = "NotFound" /\ ask \in {"port:", "find"} /\ note # "warning" => Complete

=============================================================================
