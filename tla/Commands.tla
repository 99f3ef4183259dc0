------------------------------ MODULE Commands ------------------------------
(***************************************************************************)
(* The commands that change something, other than `port free`:             *)
(*   lx process stop PID, lx process kill PID [--yes],                     *)
(*   lx service UNIT start|stop|restart [--yes],                           *)
(* with ProcessService::stop/kill, LinuxSignalProvider, PidFd,             *)
(* ServiceService and SystemdServiceProvider::controlUnit below them, and  *)
(* LinuxSignalProvider::waitForExit, which `port free` uses.               *)
(* The process bearing the PID may exit, be reaped and be replaced between *)
(* any two steps.                                                          *)
(***************************************************************************)
EXTENDS Naturals, Sequences

CONSTANTS
  Kernels,    \* what the kernel offers: a subset of KernelKinds
  MaxGen,     \* bound: how often the PID is reused
  Patience,   \* timeout of waitForExit, in ticks
  MaxEintr,   \* bound: interruptions of one poll()
  CmdFaults   \* which of CmdFaultKinds can happen

KernelKinds == {"pidfd", "pidfd without send", "no pidfd"}
CmdFaultKinds == {"inspect", "open", "send", "poll", "bus", "call", "reply"}

ASSUME CommandsAssumption ==
  /\ Kernels \subseteq KernelKinds
  /\ MaxGen \in Nat /\ Patience \in Nat /\ MaxEintr \in Nat
  /\ CmdFaults \subseteq CmdFaultKinds

VARIABLES
  cmdPc,    \* where the command is
  inv,      \* what was asked for
  kernel,   \* what this kernel offers
  st,       \* the process of the PID: "running", "zombie" or "gone"
  gen,      \* which process bears the PID
  handle,   \* the process the pidfd refers to
  since,    \* the process that bore the PID when waitForExit began
  waited,   \* ticks waited since poll() or the loop began
  eintrs,   \* interruptions so far
  reply,    \* the answer at the prompt
  sent,     \* signals delivered, in order
  queued,   \* systemd jobs submitted, in order
  ending    \* how it ended: "ok", "Cancelled", or the error reported

cmdVars == <<cmdPc, inv, kernel, st, gen, handle, since, waited, eintrs, reply,
             sent, queued, ending>>

ProcessVerbs == {"stop", "kill", "wait"}
UnitVerbs == {"unit start", "unit stop", "unit restart"}

\* target: PID 1, LX's own PID or another one.  child: LX is its parent.
\* goodName: the unit name passes ServiceService::normalizeUnit.
Invocations ==
  [verb : ProcessVerbs, target : {"init", "self", "other"}, child : BOOLEAN,
   goodName : {TRUE}, json : BOOLEAN, yes : BOOLEAN]
  \cup
  [verb : UnitVerbs, target : {"other"}, child : {FALSE}, goodName : BOOLEAN,
   json : BOOLEAN, yes : BOOLEAN]

NoInvocation ==
  [verb |-> "none", target |-> "other", child |-> FALSE, goodName |-> TRUE,
   json |-> FALSE, yes |-> FALSE]

Errors == {"InvalidArgument", "NotFound", "PermissionDenied", "IoError", "Conflict",
           "Timeout", "Unavailable", "ProtocolError", "OperationFailed"}

\* How a command can end; "exited" and "in use" are the answers of waitForExit.
Exits == Errors \cup {"none", "ok", "Cancelled", "exited", "in use"}

(* Type invariant. *)
CmdTypeOK ==
  /\ cmdPc \in {"idle", "validate", "inspect", "confirm", "open", "pidfd", "kill",
                "poll", "loop", "unit", "bus", "over"}
  /\ inv \in Invocations \cup {NoInvocation}
  /\ kernel \in KernelKinds
  /\ st \in {"running", "zombie", "gone"}
  /\ gen \in 0..MaxGen /\ handle \in 0..MaxGen /\ since \in 0..MaxGen
  /\ waited \in 0..Patience /\ eintrs \in 0..MaxEintr
  /\ reply \in {"none", "yes", "empty", "no", "eof"}
  /\ sent \in Seq([proc : 0..MaxGen, verb : {"stop", "kill"}])
  /\ queued \in Seq(UnitVerbs)
  /\ ending \in Exits

CmdInit ==
  /\ cmdPc = "idle" /\ inv = NoInvocation /\ kernel = "pidfd"
  /\ st = "running" /\ gen = 0 /\ handle = 0 /\ since = 0
  /\ waited = 0 /\ eintrs = 0 /\ reply = "none"
  /\ sent = <<>> /\ queued = <<>> /\ ending = "none"

-----------------------------------------------------------------------------
(* The host. *)

ProcessEnds ==
  /\ st = "running" /\ inv.target = "other"
  /\ st' = "zombie" /\ UNCHANGED gen

Reaped == st = "zombie" /\ st' = "gone" /\ UNCHANGED gen

PidReused == st = "gone" /\ gen < MaxGen /\ st' = "running" /\ gen' = gen + 1

HostStep ==
  /\ cmdPc \notin {"idle", "over"}
  /\ ProcessEnds \/ Reaped \/ PidReused
  /\ UNCHANGED <<cmdPc, inv, kernel, handle, since, waited, eintrs, reply, sent,
                 queued, ending>>

-----------------------------------------------------------------------------
(* The command line. *)

End(how) == cmdPc' = "over" /\ ending' = how

Goto(pc) == cmdPc' = pc /\ UNCHANGED ending

\* Where a command begins once its arguments are accepted.
FirstStep(i) ==
  IF i.verb \in ProcessVerbs THEN "validate"
  ELSE IF i.verb \in {"unit stop", "unit restart"} /\ ~i.yes THEN "confirm" ELSE "unit"

\* CliApp::run() has parsed the command: JSON output and changes exclude each
\* other.  waitForExit is a call of PortService, not a command.
Invoke ==
  /\ cmdPc = "idle"
  /\ inv' \in {i \in Invocations : i.verb = "wait" => ~i.json}
  /\ kernel' \in Kernels
  /\ IF inv'.json THEN End("InvalidArgument") ELSE Goto(FirstStep(inv'))
  /\ UNCHANGED <<st, gen, handle, since, waited, eintrs, reply, sent, queued>>

\* ProcessService::validateSignalTarget.
Validate ==
  /\ cmdPc = "validate"
  /\ IF inv.target # "other" THEN End("Conflict")
     ELSE Goto(IF inv.verb = "kill" THEN "inspect" ELSE "open")
  /\ since' = gen
  /\ UNCHANGED <<inv, kernel, st, gen, handle, waited, eintrs, reply, sent, queued>>

\* `process kill` names the process it asks about.
InspectTarget ==
  /\ cmdPc = "inspect"
  /\ \/ st # "gone" /\ Goto(IF inv.yes THEN "open" ELSE "confirm")
     \/ st = "gone" /\ End("NotFound")
     \/ "inspect" \in CmdFaults /\ End("IoError")
  /\ UNCHANGED <<inv, kernel, st, gen, handle, since, waited, eintrs, reply, sent,
                 queued>>

\* A default-no prompt.
Prompt ==
  /\ cmdPc = "confirm"
  /\ reply' \in {"yes", "empty", "no", "eof"}
  /\ IF reply' # "yes" THEN End("Cancelled")
     ELSE Goto(IF inv.verb = "kill" THEN "open" ELSE "unit")
  /\ UNCHANGED <<inv, kernel, st, gen, handle, since, waited, eintrs, sent, queued>>

-----------------------------------------------------------------------------
(* LinuxSignalProvider. *)

Signalled(who) ==
  /\ sent' = Append(sent, [proc |-> who, verb |-> inv.verb])
  /\ End("ok")

\* PidFd::open: without pidfds kill(2) is used instead, any other failure
\* ends the call, except that a PID not in use has exited.
OpenHandle ==
  /\ cmdPc = "open"
  /\ \/ /\ kernel = "no pidfd"
        /\ Goto(IF inv.verb = "wait" THEN "loop" ELSE "kill")
        /\ UNCHANGED handle
     \/ /\ kernel # "no pidfd" /\ st # "gone"
        /\ handle' = gen
        /\ Goto(IF inv.verb = "wait" THEN "poll" ELSE "pidfd")
     \/ /\ kernel # "no pidfd" /\ st = "gone"
        /\ End(IF inv.verb = "wait" THEN "exited" ELSE "NotFound")
        /\ UNCHANGED handle
     \/ "open" \in CmdFaults /\ End("IoError") /\ UNCHANGED handle
  /\ UNCHANGED <<inv, kernel, st, gen, since, waited, eintrs, reply, sent, queued>>

\* PidFd::send: the handle never reaches another process.
PidfdSendElseKill ==
  /\ cmdPc = "pidfd"
  /\ \/ kernel = "pidfd" /\ handle = gen /\ st # "gone" /\ Signalled(handle)
     \/ ~(kernel = "pidfd" /\ handle = gen /\ st # "gone") /\ Goto("kill") /\ UNCHANGED sent
  /\ UNCHANGED <<inv, kernel, st, gen, handle, since, waited, eintrs, reply, queued>>

PidfdSend ==
  /\ cmdPc = "pidfd"
  /\ \/ kernel = "pidfd" /\ handle = gen /\ st # "gone" /\ Signalled(handle)
     \/ /\ kernel = "pidfd" /\ (handle # gen \/ st = "gone")
        /\ End("NotFound") /\ UNCHANGED sent
     \/ kernel = "pidfd without send" /\ Goto("kill") /\ UNCHANGED sent
     \/ "send" \in CmdFaults /\ End("PermissionDenied") /\ UNCHANGED sent
  /\ UNCHANGED <<inv, kernel, st, gen, handle, since, waited, eintrs, reply, queued>>

\* sendWithKill.
KillSend ==
  /\ cmdPc = "kill"
  /\ \/ st # "gone" /\ Signalled(gen)
     \/ st = "gone" /\ End("NotFound") /\ UNCHANGED sent
     \/ "send" \in CmdFaults /\ End("PermissionDenied") /\ UNCHANGED sent
  /\ UNCHANGED <<inv, kernel, st, gen, handle, since, waited, eintrs, reply, queued>>

\* PidFd::waitForExit: the handle is readable once its process has ended.
\* Interrupted, poll() starts again with the whole timeout.
Poll ==
  /\ cmdPc = "poll"
  /\ \/ (handle # gen \/ st # "running") /\ End("exited")
     \/ handle = gen /\ st = "running" /\ waited = Patience /\ End("in use")
     \/ "poll" \in CmdFaults /\ End("IoError")
  /\ UNCHANGED <<inv, kernel, st, gen, handle, since, waited, eintrs, reply, sent,
                 queued>>

PollInterrupted ==
  /\ cmdPc = "poll" /\ eintrs < MaxEintr
  /\ eintrs' = eintrs + 1 /\ waited' = 0
  /\ UNCHANGED <<cmdPc, inv, kernel, st, gen, handle, since, reply, sent, queued, ending>>

\* exitedWithKill: kill(pid, 0) finds a zombie too; only for a child of LX
\* does waitid() tell that it has ended.
ExitedWithKillAnyChild == st = "gone" \/ inv.child

ExitedWithKill == st = "gone" \/ (st = "zombie" /\ inv.child)

LoopCheck ==
  /\ cmdPc = "loop"
  /\ \/ ExitedWithKill /\ End("exited")
     \/ ~ExitedWithKill /\ waited = Patience /\ End("in use")
     \/ "poll" \in CmdFaults /\ End("IoError")
  /\ UNCHANGED <<inv, kernel, st, gen, handle, since, waited, eintrs, reply, sent,
                 queued>>

\* Time passes in poll() or between two checks of the loop.
Wait ==
  /\ cmdPc \in {"poll", "loop"} /\ waited < Patience
  /\ waited' = waited + 1
  /\ UNCHANGED <<cmdPc, inv, kernel, st, gen, handle, since, eintrs, reply, sent,
                 queued, ending>>

-----------------------------------------------------------------------------
(* ServiceService and SystemdServiceProvider::controlUnit. *)

NormalizeUnit ==
  /\ cmdPc = "unit"
  /\ IF inv.goodName THEN Goto("bus") ELSE End("InvalidArgument")
  /\ UNCHANGED <<inv, kernel, st, gen, handle, since, waited, eintrs, reply, sent,
                 queued>>

\* busError: what a failed call is reported as, and which of these also stand
\* for a call that was made but whose answer never came.
CallErrors == {"NotFound", "PermissionDenied", "Timeout", "Unavailable", "OperationFailed"}
Unanswered == {"Timeout", "OperationFailed"}

\* The bus cannot be reached; the call is refused; it is not answered, with or
\* without a job queued; the answer has no job path; or the job is submitted.
ControlUnitRetried ==
  /\ cmdPc = "bus"
  /\ queued' = Append(queued, inv.verb)
  /\ End("ok") \/ ("reply" \in CmdFaults /\ Goto("bus"))
  /\ UNCHANGED <<inv, kernel, st, gen, handle, since, waited, eintrs, reply, sent>>

ControlUnit ==
  /\ cmdPc = "bus"
  /\ \/ queued' = Append(queued, inv.verb) /\ End("ok")
     \/ "reply" \in CmdFaults /\ queued' = Append(queued, inv.verb) /\ End("ProtocolError")
     \/ /\ "call" \in CmdFaults
        /\ \/ UNCHANGED queued /\ \E e \in CallErrors : End(e)
           \/ queued' = Append(queued, inv.verb) /\ \E e \in Unanswered : End(e)
     \/ "bus" \in CmdFaults /\ UNCHANGED queued /\ End("Unavailable")
  /\ UNCHANGED <<inv, kernel, st, gen, handle, since, waited, eintrs, reply, sent>>

-----------------------------------------------------------------------------

CmdNext ==
  \/ Invoke \/ Validate \/ InspectTarget \/ Prompt
  \/ OpenHandle \/ PidfdSend \/ KillSend
  \/ Poll \/ PollInterrupted \/ LoopCheck \/ Wait
  \/ NormalizeUnit \/ ControlUnit
  \/ HostStep

CmdSpec == CmdInit /\ [][CmdNext]_cmdVars

-----------------------------------------------------------------------------

(* When waitForExit says a process has exited, the process that bore the   *)
(* PID when it was called has ended, on kernels with and without pidfds,   *)
(* reused PIDs and unreaped zombies included.                              *)
WaitTellsTheTruth == ending = "exited" => gen # since \/ st # "running"

(* On a kernel with pidfds no signal of LX reaches a process that was not  *)
(* there when the signal call began: the handle that was opened is used,   *)
(* and kill(2) only replaces it where pidfds are unsupported.              *)
HandleNotOvertaken ==
  kernel = "pidfd" => \A n \in 1..Len(sent) : sent[n].proc = handle

(* The commands keep the promise of CommandContract: one effect at most,   *)
(* with consent where it is needed, none with --json, and a final word     *)
(* that is true of the effect.                                             *)
Promise == INSTANCE CommandContract WITH
  bearer <- gen,
  exists <- st # "gone",
  asks   <- inv.verb,
  json   <- inv.json,
  agreed <- inv.yes \/ reply = "yes",
  hits   <- sent,
  jobs   <- queued,
  told   <- ending

EffectsAsPromised == Promise!PromiseSpec

=============================================================================
