---------------------------- MODULE PortRelease -----------------------------
(***************************************************************************)
(* `lx port free PORT`: the command of CliApp, PortService::prepareRelease *)
(* / stopManagedService / terminate / force, ProcessService, and the       *)
(* providers they call, running against a host that changes meanwhile.     *)
(*                                                                         *)
(* Every observation of the host is a sequence of separate reads: one      *)
(* socket dump per protocol and family, one descriptor scan per process,   *)
(* one inspection per owner.  The host may move between any two of them.   *)
(* A plan is what one complete observation yields:                         *)
(*   listed  the sockets found on the port,                                *)
(*   owners  the PIDs found to hold each of them,                          *)
(*   unit    the recommended service (NoUnit when there is none).          *)
(***************************************************************************)
EXTENDS Host

CONSTANTS
  Kinds,       \* the socket dumps, numbered in the order they are made
  KindOf,      \* KindOf[i]: the dump that reports socket i
  Unreadable,  \* PIDs whose descriptor directory LX may not read
  Faults,      \* which of FaultKinds can happen
  AssumeYes,   \* --yes was given
  Grace        \* ticks of the grace period

FaultKinds == {"dump", "short", "scan", "inspect", "signal", "wait", "stop", "bus"}

ASSUME ReleaseAssumption ==
  /\ Kinds \subseteq Nat
  /\ Kinds # {}
  /\ KindOf \in [Inodes -> Kinds]
  /\ Unreadable \subseteq Pids
  /\ Faults \subseteq FaultKinds
  /\ AssumeYes \in BOOLEAN
  /\ Grace \in Nat

VARIABLES
  pc,          \* where the command is
  phase,       \* which call of prepareRelease an observation belongs to
  undumped,    \* dumps not made yet in this observation
  failed,      \* dumps of this observation that failed
  short,       \* dumps the kernel broke off without LX noticing (history)
  listed,      \* sockets reported so far
  unscanned,   \* processes whose descriptors are not read yet
  owners,      \* owners[i]: holders of listed socket i found so far
  uninspected, \* owners not inspected yet
  units,       \* units[p]: the service found for owner p
  plan,        \* the plan shown to the user
  remaining,   \* what terminate() found still occupied
  todo,        \* PIDs still to be signalled, or still to be waited for
  clock,       \* ticks since the grace period began
  handle,      \* handle[p]: the process bearing p when the wait for p began
  answers,     \* the user's answer to each prompt
  outcome      \* how the command ended

\* History, read by the properties only.
VARIABLES
  signals,     \* signals delivered
  stops,       \* services for which StopUnit was called
  before,      \* sockets that existed when the last observation began
  seenBirth    \* the process each PID named when the plan was observed

lookVars == <<undumped, failed, short, listed, unscanned, owners, uninspected,
              units>>
planVars == <<plan, remaining>>
timeVars == <<clock, handle>>
lxVars == <<pc, phase, lookVars, planVars, todo, timeVars, answers, outcome,
            signals, stops, before, seenBirth>>
vars == <<hostVars, lxVars>>

-----------------------------------------------------------------------------
(* Plans: the pure part of PortService. *)

Plan == [listed : SUBSET Inodes,
         owners : [Inodes -> SUBSET Pids],
         unit   : Units \cup {NoUnit}]

NoPlan == [listed |-> {}, owners |-> [i \in Inodes |-> {}], unit |-> NoUnit]

OwnerPids(pl) == {p \in Pids : \E i \in pl.listed : p \in pl.owners[i]}

SameTargetsIgnoringOwners(expected, current) ==
  expected.listed = current.listed

SameTargets(expected, current) ==
  /\ expected.listed = current.listed
  /\ \A i \in expected.listed : expected.owners[i] = current.owners[i]

RemainingBelongBySocket(original, current) ==
  current.listed \subseteq original.listed

RemainingBelong(original, current) ==
  \A i \in current.listed :
    /\ i \in original.listed
    /\ current.owners[i] \subseteq original.owners[i]

ValidateSignalTarget(p) == p > 1 /\ p # Self

\* The service that every one of the PIDs own was found in, if there is one.
CommonUnitOfKnown(own, found) ==
  LET known == {p \in own : found[p] # NoUnit}
      of    == {u \in Units : known # {} /\ \A p \in known : found[p] = u}
  IN  IF of = {} THEN NoUnit ELSE CHOOSE u \in of : TRUE

CommonUnit(own, found) ==
  LET of == {u \in Units : own # {} /\ \A p \in own : found[p] = u}
  IN  IF of = {} THEN NoUnit ELSE CHOOSE u \in of : TRUE

PrepareCodeUnresolvedIsFree(pl) ==
  IF OwnerPids(pl) = {} THEN "NotFound"
  ELSE IF \E p \in OwnerPids(pl) : ~ValidateSignalTarget(p) THEN "Conflict"
  ELSE "ok"

\* How prepareRelease ends once the observation is complete.
PrepareCode(pl) ==
  IF pl.listed = {} THEN "NotFound"
  ELSE IF \E i \in pl.listed : pl.owners[i] = {} THEN "PermissionDenied"
  ELSE IF \E p \in OwnerPids(pl) : ~ValidateSignalTarget(p) THEN "Conflict"
  ELSE "ok"

\* What an answer to a prompt means: only --yes, "y"/"yes", or an empty line
\* at a default-yes prompt go on; anything else and end of input do not.
ConfirmEmptyIsYes(a, defaultYes) == a \in {"flag", "yes", "empty"}

Confirm(a, defaultYes) == a \in {"flag", "yes"} \/ (a = "empty" /\ defaultYes)

Answers == IF AssumeYes THEN {"flag"} ELSE {"yes", "empty", "no", "eof"}

Lowest(S) == {x \in S : \A y \in S : x <= y}

-----------------------------------------------------------------------------

\* What a failed dump, an unreadable /proc, a signal or wait that fails, a bus
\* that cannot be opened and a failed StopUnit call are reported as.
DumpErrors == {"IoError", "PermissionDenied", "ProtocolError"}
ScanErrors == {"IoError", "PermissionDenied", "NotFound"}
SignalErrors == {"IoError", "PermissionDenied"}
OpenErrors == {"Unavailable", "PermissionDenied"}
CallErrors == {"NotFound", "PermissionDenied", "Timeout", "Unavailable",
               "OperationFailed", "ProtocolError"}

Codes == DumpErrors \cup ScanErrors \cup CallErrors \cup {"Conflict"}
Outcomes == Codes \cup {"none", "Cancelled", "Released", "Aborted"}
Phases == {"plan", "svcCheck", "svcPoll",
           "termCheck", "termAfter", "forceCheck", "forceAfter"}
Prompts == {"confirmStop", "confirmTerm", "confirmKill"}
Pcs == {"dump", "scan", "inspect", "signal", "wait", "stopUnit", "done"}
         \cup Prompts
Signals == [pid : Pids, sig : {"TERM", "KILL"}, stray : BOOLEAN]

(* Type invariant. *)
TypeOK ==
  /\ HostTypeOK
  /\ pc \in Pcs
  /\ phase \in Phases
  /\ undumped \in SUBSET Kinds
  /\ failed \in SUBSET Kinds
  /\ short \in SUBSET Kinds
  /\ listed \in SUBSET Inodes
  /\ unscanned \in SUBSET Pids
  /\ owners \in [Inodes -> SUBSET Pids]
  /\ uninspected \in SUBSET Pids
  /\ units \in [Pids -> Units \cup {NoUnit}]
  /\ plan \in Plan
  /\ remaining \in Plan
  /\ todo \in SUBSET Pids
  /\ clock \in 0..Grace
  /\ handle \in [Pids -> 0..MaxBirth]
  /\ answers \in [Prompts -> {"none", "flag", "yes", "empty", "no", "eof"}]
  /\ outcome \in Outcomes
  /\ signals \in SUBSET Signals
  /\ stops \in SUBSET (Units \cup {NoUnit})
  /\ before \in SUBSET Inodes
  /\ seenBirth \in [Pids -> 0..MaxBirth]

\* What the observation in hand amounts to.
Current == [listed |-> listed, owners |-> owners,
            unit |-> CommonUnit({p \in Pids : \E i \in listed : p \in owners[i]},
                                units)]

\* The plan handed to the running operation: terminate() and
\* stopManagedService() get the plan, force() gets what terminate() left.
Target == IF phase \in {"forceCheck", "forceAfter"} THEN remaining ELSE plan

Init ==
  /\ HostInit
  /\ pc = "dump" /\ phase = "plan"
  /\ undumped = Kinds /\ failed = {} /\ short = {} /\ listed = {}
  /\ unscanned = {} /\ owners = [i \in Inodes |-> {}]
  /\ uninspected = {} /\ units = [p \in Pids |-> NoUnit]
  /\ plan = NoPlan /\ remaining = NoPlan
  /\ todo = {} /\ clock = 0 /\ handle = [p \in Pids |-> 0]
  /\ answers = [q \in Prompts |-> "none"]
  /\ outcome = "none"
  /\ signals = {} /\ stops = {} /\ before = Bound
  /\ seenBirth = [p \in Pids |-> 0]

-----------------------------------------------------------------------------
(* The command ends: with a message, or with an error and its exit code. *)
Finish(how) ==
  /\ pc' = "done"
  /\ outcome' = how

(* prepareRelease() is called. *)
Observe(ph) ==
  /\ pc' = "dump"
  /\ phase' = ph
  /\ undumped' = Kinds
  /\ failed' = {}
  /\ short' = {}
  /\ listed' = {}
  /\ unscanned' = {}
  /\ owners' = [i \in Inodes |-> {}]
  /\ uninspected' = {}
  /\ units' = [p \in Pids |-> NoUnit]
  /\ before' = Bound

-----------------------------------------------------------------------------
(* One observation: PortService::inspect(). *)

\* One INET_DIAG dump; failing is fatal only if all of them do.  A dump that
\* the kernel breaks off ends like any other, with a status that is not read:
\* the sockets sent until then are taken for all (when nothing is missing, they
\* are).  The owners are not looked for when no socket was found.
Dump(k) ==
  /\ pc = "dump"
  /\ k \in Lowest(undumped)
  /\ undumped' = undumped \ {k}
  /\ \/ /\ listed' = listed \cup {i \in Bound : KindOf[i] = k}
        /\ UNCHANGED <<failed, short>>
     \/ /\ "dump" \in Faults
        /\ failed' = failed \cup {k}
        /\ UNCHANGED <<listed, short>>
     \/ /\ "short" \in Faults
        /\ short' = short \cup {k}
        /\ \E sent \in SUBSET {i \in Bound : KindOf[i] = k} :
             /\ sent # {i \in Bound : KindOf[i] = k}
             /\ listed' = listed \cup sent
        /\ UNCHANGED failed
  /\ IF undumped' # {}
       THEN UNCHANGED <<pc, outcome, unscanned>>
     ELSE IF failed' = Kinds
       THEN (\E e \in DumpErrors : Finish(e)) /\ UNCHANGED unscanned
     ELSE /\ pc' = IF listed' = {} THEN "inspect" ELSE "scan"
          /\ unscanned' = IF listed' = {} THEN {} ELSE Pids
          /\ UNCHANGED outcome
  /\ UNCHANGED <<hostVars, phase, owners, uninspected, units, planVars, todo,
                 timeVars, answers, signals, stops, before, seenBirth>>

\* The owners found so far are inspected once no process is left to scan.
EndScan(left) ==
  IF left = {}
    THEN /\ pc' = "inspect"
         /\ uninspected' = {p \in Pids : \E i \in listed : p \in owners'[i]}
    ELSE UNCHANGED <<pc, uninspected>>

\* /proc/<p>/fd is read.  It is empty for a process that is gone and hidden
\* for an unreadable one; a read error loses some of the descriptors.
ScanPid(p) ==
  /\ pc = "scan"
  /\ p \in unscanned
  /\ \E seen \in SUBSET {i \in listed : p \in holders[i]} :
       /\ IF p \in Unreadable THEN seen = {}
          ELSE "scan" \in Faults \/ seen = {i \in listed : p \in holders[i]}
       /\ owners' = [i \in Inodes |->
                       IF i \in seen THEN owners[i] \cup {p} ELSE owners[i]]
       /\ seenBirth' = IF phase = "plan" /\ seen # {}
                         THEN [seenBirth EXCEPT ![p] = birth[p]]
                         ELSE seenBirth
  /\ unscanned' = unscanned \ {p}
  /\ EndScan(unscanned')
  /\ UNCHANGED <<hostVars, phase, undumped, failed, short, listed, units, planVars,
                 todo, timeVars, answers, outcome, signals, stops, before>>

\* An error while iterating over /proc ends the scan early, with a warning.
ScanCut ==
  /\ pc = "scan"
  /\ "scan" \in Faults
  /\ unscanned' = {}
  /\ UNCHANGED owners
  /\ EndScan({})
  /\ UNCHANGED <<hostVars, phase, undumped, failed, short, listed, units, planVars,
                 todo, timeVars, answers, outcome, signals, stops, before,
                 seenBirth>>

\* /proc itself cannot be opened.  If it is missing the error is NotFound, and
\* that is what the operations take for a released port.
ScanFails ==
  /\ pc = "scan"
  /\ "scan" \in Faults
  /\ unscanned = Pids
  /\ \E e \in ScanErrors :
       Finish(IF e = "NotFound" /\ phase # "plan" THEN "Released" ELSE e)
  /\ UNCHANGED <<hostVars, phase, lookVars, planVars, todo, timeVars, answers,
                 signals, stops, before, seenBirth>>

\* An owner is read again, now for its service.  It may be gone, and it may be
\* another process by now; without an answer it counts as having no service.
Inspect(p) ==
  /\ pc = "inspect"
  /\ p \in uninspected
  /\ uninspected' = uninspected \ {p}
  /\ \/ p \in alive /\ units' = [units EXCEPT ![p] = unitOf[p]]
     \/ (p \notin alive \/ "inspect" \in Faults) /\ UNCHANGED units
  /\ UNCHANGED <<hostVars, pc, phase, undumped, failed, short, listed,
                 unscanned, owners, planVars, todo, timeVars, answers, outcome, signals,
                 stops, before, seenBirth>>

\* If it ends while its files are being read, the stream buffer throws and LX
\* with it: nothing up to main() catches that.
InspectThrows ==
  /\ pc = "inspect"
  /\ uninspected \ alive # {}
  /\ Finish("Aborted")
  /\ UNCHANGED <<hostVars, phase, lookVars, planVars, todo, timeVars, answers,
                 signals, stops, before, seenBirth>>

\* The observation of phase ph is complete.
Observed(ph) == pc = "inspect" /\ uninspected = {} /\ phase = ph

-----------------------------------------------------------------------------
(* The command, and what the operations do with an observation. *)

\* The plan is shown; the user is asked about the service or about SIGTERM.
PlanReady ==
  /\ Observed("plan")
  /\ IF PrepareCode(Current) = "ok"
       THEN /\ plan' = Current
            /\ pc' = IF Current.unit # NoUnit THEN "confirmStop"
                                              ELSE "confirmTerm"
            /\ UNCHANGED outcome
       ELSE Finish(PrepareCode(Current)) /\ UNCHANGED plan
  /\ UNCHANGED <<hostVars, phase, lookVars, remaining, todo, timeVars, answers,
                 signals, stops, before, seenBirth>>

\* The prompt q is answered: the call that starts with the observation ph
\* begins, or the command is cancelled.
Ask(q, defaultYes, ph) ==
  /\ pc = q
  /\ \E a \in Answers :
       /\ answers' = [answers EXCEPT ![q] = a]
       /\ IF Confirm(a, defaultYes)
            THEN Observe(ph) /\ UNCHANGED outcome
            ELSE Finish("Cancelled") /\ UNCHANGED <<phase, lookVars, before>>
  /\ UNCHANGED <<hostVars, planVars, todo, timeVars, signals, stops, seenBirth>>

ConfirmStop == Ask("confirmStop", TRUE, "svcCheck")
ConfirmTerm == Ask("confirmTerm", TRUE, "termCheck")
ConfirmKill == Ask("confirmKill", FALSE, "forceCheck")

\* What an observation means to the operation that asked for it: the port is
\* free, an error ends the command, the targets changed, or they fit.
Verdict(fits) ==
  LET code == PrepareCode(Current)
  IN  IF code = "NotFound" THEN "Released"
      ELSE IF code # "ok" THEN code
      ELSE IF fits THEN "ok" ELSE "Conflict"

\* The recheck before acting; todo becomes the owners to be signalled.
Recheck(ph, verdict, goOn, targets) ==
  /\ Observed(ph)
  /\ IF verdict = "ok"
       THEN pc' = goOn /\ todo' = targets /\ UNCHANGED outcome
       ELSE Finish(verdict) /\ UNCHANGED todo
  /\ UNCHANGED <<hostVars, phase, lookVars, planVars, timeVars, answers, signals,
                 stops, before, seenBirth>>

SvcCheckFallsBack ==
  Recheck("svcCheck",
          Verdict(SameTargets(plan, Current)),
          IF Current.unit = plan.unit THEN "stopUnit" ELSE "signal",
          OwnerPids(plan))

SvcCheck ==
  Recheck("svcCheck",
          Verdict(SameTargets(plan, Current) /\ Current.unit = plan.unit),
          "stopUnit", {})

TermCheck ==
  Recheck("termCheck", Verdict(SameTargets(plan, Current)),
          "signal", OwnerPids(plan))

ForceCheck ==
  Recheck("forceCheck", Verdict(SameTargets(remaining, Current)),
          "signal", OwnerPids(remaining))

\* The bus is opened and StopUnit called; systemd may have queued the job even
\* when the answer is an error, and whatever the error it ends the command.
\* After success the grace period starts and polling begins.
StopUnit ==
  /\ pc = "stopUnit"
  /\ \/ /\ stops' = stops \cup {plan.unit}
        /\ Observe("svcPoll") /\ clock' = 0 /\ UNCHANGED <<handle, outcome>>
     \/ /\ \/ /\ "stop" \in Faults
              /\ stops' = stops \cup {plan.unit}
              /\ \E e \in CallErrors : Finish(e)
           \/ /\ "bus" \in Faults
              /\ \E e \in OpenErrors : Finish(e)
              /\ UNCHANGED stops
        /\ UNCHANGED <<phase, lookVars, before, timeVars>>
  /\ UNCHANGED <<hostVars, planVars, todo, answers, signals, seenBirth>>

\* The port is observed until it is free, changes hands or the time is up.
PollUntil(timeIsUp) ==
  /\ Observed("svcPoll")
  /\ LET verdict == Verdict(RemainingBelong(plan, Current))
     IN  IF verdict = "ok" /\ ~timeIsUp
           THEN Observe("svcPoll") /\ UNCHANGED outcome
           ELSE /\ Finish(IF verdict = "ok" THEN "Timeout" ELSE verdict)
                /\ UNCHANGED <<phase, lookVars, before>>
  /\ UNCHANGED <<hostVars, planVars, todo, timeVars, answers, signals, stops,
                 seenBirth>>

SvcPollForever == PollUntil(FALSE)

SvcPoll == PollUntil(clock >= Grace)

\* One signal of terminate() or force(), the lowest PID first.  Any failure,
\* the target being gone included, ends the command with the rest unsent.
Sig == IF phase = "termCheck" THEN "TERM" ELSE "KILL"

Signal(p) ==
  /\ pc = "signal"
  /\ p \in Lowest(todo)
  /\ \/ /\ ValidateSignalTarget(p)
        /\ p \in alive
        /\ signals' = signals \cup
             {[pid |-> p, sig |-> Sig, stray |-> birth[p] # seenBirth[p]]}
        /\ IF todo = {p}
             THEN /\ pc' = "wait"
                  /\ todo' = OwnerPids(Target)
                  /\ clock' = 0 /\ handle' = birth
             ELSE todo' = todo \ {p} /\ UNCHANGED <<pc, timeVars>>
        /\ UNCHANGED outcome
     \/ /\ \/ ~ValidateSignalTarget(p) /\ Finish("Conflict")
           \/ p \notin alive /\ Finish("NotFound")
           \/ "signal" \in Faults /\ \E e \in SignalErrors : Finish(e)
        /\ UNCHANGED <<todo, timeVars, signals>>
  /\ UNCHANGED <<hostVars, phase, lookVars, planVars, answers, stops, before,
                 seenBirth>>

\* waitForExit() for one owner after the other, all within one grace period;
\* whether the owner exited makes no difference.  A pidfd opened when the
\* wait began also tells of an exit after which the PID was used again.
WaitImpatient(p) ==
  /\ pc = "wait"
  /\ p \in Lowest(todo)
  /\ todo' = todo \ {p}
  /\ IF todo = {p}
       THEN Observe(IF phase = "termCheck" THEN "termAfter" ELSE "forceAfter")
       ELSE UNCHANGED <<pc, phase, lookVars, before>>
  /\ handle' = birth
  /\ UNCHANGED <<hostVars, planVars, clock, answers, outcome, signals, stops,
                 seenBirth>>

Wait(p) ==
  /\ pc = "wait"
  /\ p \in Lowest(todo)
  /\ p \notin alive \/ birth[p] # handle[p] \/ clock >= Grace
  /\ todo' = todo \ {p}
  /\ IF todo = {p}
       THEN Observe(IF phase = "termCheck" THEN "termAfter" ELSE "forceAfter")
       ELSE UNCHANGED <<pc, phase, lookVars, before>>
  /\ handle' = birth
  /\ UNCHANGED <<hostVars, planVars, clock, answers, outcome, signals, stops,
                 seenBirth>>

WaitFails ==
  /\ pc = "wait"
  /\ "wait" \in Faults
  /\ \E e \in SignalErrors : Finish(e)
  /\ UNCHANGED <<hostVars, phase, lookVars, planVars, todo, timeVars, answers,
                 signals, stops, before, seenBirth>>

\* terminate() looks again: still occupied by original owners means asking
\* for SIGKILL.
TermAfter ==
  /\ Observed("termAfter")
  /\ LET verdict == Verdict(RemainingBelong(plan, Current))
     IN  IF verdict = "ok"
           THEN remaining' = Current /\ pc' = "confirmKill" /\ UNCHANGED outcome
           ELSE Finish(verdict) /\ UNCHANGED remaining
  /\ UNCHANGED <<hostVars, phase, lookVars, plan, todo, timeVars, answers,
                 signals, stops, before, seenBirth>>

\* force() looks again: still occupied is a failure.
ForceAfter ==
  /\ Observed("forceAfter")
  /\ LET verdict == Verdict(RemainingBelong(remaining, Current))
     IN  Finish(IF verdict = "ok" THEN "Timeout" ELSE verdict)
  /\ UNCHANGED <<hostVars, phase, lookVars, planVars, todo, timeVars, answers,
                 signals, stops, before, seenBirth>>

\* Time passes while a deadline is running.
TickPastGrace ==
  /\ pc = "wait" \/ (phase = "svcPoll" /\ pc # "done")
  /\ clock' = clock + 1
  /\ UNCHANGED <<hostVars, pc, phase, lookVars, planVars, todo, handle, answers,
                 outcome, signals, stops, before, seenBirth>>

Tick ==
  /\ pc = "wait" \/ (phase = "svcPoll" /\ pc # "done")
  /\ clock < Grace
  /\ clock' = clock + 1
  /\ UNCHANGED <<hostVars, pc, phase, lookVars, planVars, todo, handle, answers,
                 outcome, signals, stops, before, seenBirth>>

-----------------------------------------------------------------------------

Look == \/ \E k \in Kinds : Dump(k)
        \/ \E p \in Pids : ScanPid(p) \/ Inspect(p)
        \/ ScanCut \/ ScanFails \/ InspectThrows

Act == \/ \E p \in Pids : Signal(p) \/ Wait(p)
       \/ WaitFails \/ StopUnit

Decide == \/ PlanReady
          \/ SvcCheck \/ SvcPoll
          \/ TermCheck \/ TermAfter
          \/ ForceCheck \/ ForceAfter

User == ConfirmStop \/ ConfirmTerm \/ ConfirmKill

\* What the command does by itself, without waiting for the user.
Lx == Look \/ Act \/ Decide

\* The host goes on changing until the command has ended.
Environment == pc # "done" /\ HostNext /\ UNCHANGED lxVars

Done == pc = "done" /\ UNCHANGED vars

Next == Lx \/ User \/ Tick \/ Environment \/ Done

Spec == Init /\ [][Next]_vars

\* LX runs, and time passes; the user need not answer, the host need not move.
FairSpec == Spec /\ WF_vars(Lx) /\ WF_vars(Tick)

-----------------------------------------------------------------------------
(* Safety. *)

(* Whatever the host does between the reads and the signals, LX never      *)
(* signals PID 1 or itself (ProcessService::validateSignalTarget, asked    *)
(* when a plan is made and again before each signal).                      *)
ProtectedNeverSignalled ==
  \A s \in signals : s.pid # 1 /\ s.pid # Self

(* A process about to be signalled was shown to the user as an owner of    *)
(* the port, and was found again as an owner of one of its sockets after   *)
(* the confirmation (the recheck at the start of terminate() and force()). *)
RevalidatedTargets ==
  pc = "signal" =>
    \A p \in todo : p \in OwnerPids(plan) /\ p \in OwnerPids(Current)

(* Neither PID 1 nor LX itself is signalled, nobody without consent, and   *)
(* escalation has an order: SIGTERM needs an agreement to the default-yes  *)
(* prompt; SIGKILL needs --yes or a typed yes, and only reaches PIDs of    *)
(* the shown plan that were sent SIGTERM before.                           *)
EscalationDiscipline ==
  /\ ProtectedNeverSignalled
  /\ \A s \in signals :
       /\ s.pid \in OwnerPids(plan)
       /\ answers["confirmTerm"] \in {"flag", "yes", "empty"}
       /\ s.sig = "KILL" =>
            /\ answers["confirmKill"] \in {"flag", "yes"}
            /\ \E t \in signals : t.pid = s.pid /\ t.sig = "TERM"

(* When the command says "released", a socket that existed when its last   *)
(* look at the port began and still exists can only be one whose dump      *)
(* failed or was broken off by the kernel: no other socket was overlooked  *)
(* or lost on the way through inspect() and prepareRelease().  The one     *)
(* exception is a look that found /proc missing and so read no process:    *)
(* SocketInodeResolver reports that as NotFound, the word for a free port. *)
ReleasedMeansFree ==
  (outcome = "Released" /\ unscanned = {}) =>
    \A i \in before \cap Bound : KindOf[i] \in failed \cup short

(* The user is offered SIGKILL before the grace period is over only when   *)
(* every owner was seen to exit: whoever holds the port then is not a      *)
(* process of the plan but another one bearing its PID.                    *)
GraceBeforeKill ==
  (pc = "confirmKill" /\ clock < Grace) =>
    \A p \in OwnerPids(remaining) : birth[p] # seenBirth[p]

(* A service is stopped only if every owner shown in the plan that is      *)
(* still the same process belongs to that service, although the units are  *)
(* read one by one, after the owners (the recommendation in                *)
(* prepareRelease(), compared again in stopManagedService()).              *)
StopsOnlyCommonUnit ==
  pc = "stopUnit" =>
    /\ plan.unit \in Units
    /\ \A p \in OwnerPids(plan) :
         birth[p] = seenBirth[p] => unitOf[p] = plan.unit

\* The prompts the user agreed to, and who was sent which signal.
AgreedTo == {q \in Prompts : \/ answers[q] \in {"flag", "yes"}
                             \/ q # "confirmKill" /\ answers[q] = "empty"}
SentTo(sig) == {s.pid : s \in {t \in signals : t.sig = sig}}

(* The command keeps the promise of ReleaseContract, seen through what the *)
(* host and the user see of it: the plan shown, the answers given, the     *)
(* signals delivered, the service told to stop and the last word, which    *)
(* for a call to systemd that failed is systemd's own error.  In           *)
(* particular the service path of freePort() never falls back to signals,  *)
(* and nothing follows a cancellation.                                     *)
Contract == INSTANCE ReleaseContract WITH
  Protected <- {1, Self},
  shown     <- OwnerPids(plan),
  unit      <- plan.unit,
  agreed    <- AgreedTo,
  termed    <- SentTo("TERM"),
  killed    <- SentTo("KILL"),
  stopped   <- stops,
  told      <- outcome

KeepsReleaseContract == Contract!ContractSpec

-----------------------------------------------------------------------------
(* Liveness. *)

(* Left to itself, the command always comes to its next prompt or to an    *)
(* end: observations, signals, the wait for exits and the polling loop of  *)
(* stopManagedService() all finish, whatever the host does meanwhile.      *)
ReleaseEnds == [](pc \notin Prompts => <>(pc \in Prompts \cup {"done"}))

-----------------------------------------------------------------------------
(* What the documentation says, and the code does not do. *)

(* docs/development.md: "A new inode or owner aborts the action with a     *)
(* conflict instead of signaling the new process."  A PID that changed     *)
(* hands since the plan was observed is never signalled.                   *)
NoRecycledTarget == \A s \in signals : ~s.stray

(* docs/development.md: LX "recommends stopping a service only when every  *)
(* owner is readable and all owners map to exactly the same `.service`".   *)
RecommendsOnlyReadable ==
  pc = "confirmStop" =>
    \A i \in plan.listed : holders[i] \cap Unreadable = {}

=============================================================================
