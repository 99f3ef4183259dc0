-------------------------- MODULE OneCommandProofs --------------------------
(***************************************************************************)
(* Proofs about the signal and service commands, for every kernel, every   *)
(* timeout, every number of reuses of the PID and every set of faults; and *)
(* about one invocation of lx, which is one of the four commands: it       *)
(* behaves as the module of that command says, so what is proved of the    *)
(* four modules holds of it.                                               *)
(***************************************************************************)
EXTENDS MCOneCommand, NetlinkDumpProofs, ProcessTableProofs, ExplorerProofs, TLAPS

-----------------------------------------------------------------------------
(* The signal and service commands. *)

\* Verbs whose effect needs consent.
GraveVerbs == {"kill", "unit stop", "unit restart"}

\* While the command runs nothing has been said and nothing has been done; with
\* --json it does not run.
RunningInv ==
  /\ cmdPc # "over" <=> ending = "none"
  /\ cmdPc # "over" => sent = <<>> /\ queued = <<>> /\ ~inv.json
  /\ cmdPc = "idle" <=> inv.verb = "none"

\* Where the command is determines what was asked for ...
VerbInv ==
  /\ cmdPc \in {"validate", "open"} => inv.verb \in ProcessVerbs
  /\ cmdPc = "inspect" => inv.verb = "kill"
  /\ cmdPc = "confirm" => inv.verb \in GraveVerbs
  /\ cmdPc \in {"pidfd", "kill"} => inv.verb \in {"stop", "kill"}
  /\ cmdPc \in {"poll", "loop"} => inv.verb = "wait"
  /\ cmdPc \in {"unit", "bus"} => inv.verb \in UnitVerbs

\* ... and that the user agreed where that is needed.
ConsentInv ==
  /\ cmdPc \in {"idle", "validate", "inspect", "confirm"} => reply = "none"
  /\ cmdPc \in {"open", "pidfd", "kill", "unit", "bus"} /\ inv.verb \in GraveVerbs =>
       inv.yes \/ reply = "yes"

\* The process waited for and the process of the handle came one after the
\* other, and neither after the bearer of the PID.  With working pidfds LX does
\* not come to kill(2).
BearerInv ==
  /\ since <= gen
  /\ cmdPc = "poll" => since <= handle /\ handle <= gen
  /\ kernel = "pidfd" => cmdPc # "kill"

CmdInv ==
  RunningInv /\ VerbInv /\ ConsentInv /\ BearerInv /\ WaitTellsTheTruth /\ HandleNotOvertaken

-----------------------------------------------------------------------------
(* Types. *)

LEMMA CmdTypeInit == CmdInit => CmdTypeOK
<1> SUFFICES ASSUME CmdInit PROVE CmdTypeOK
  OBVIOUS
<1>1. sent \in Seq([proc : 0..MaxGen, verb : {"stop", "kill"}]) /\ queued \in Seq(UnitVerbs)
  BY DEF CmdInit
<1>2. kernel \in KernelKinds /\ inv \in Invocations \cup {NoInvocation} /\ ending \in Exits
  BY DEF CmdInit, KernelKinds, Exits
<1>3. QED
  BY <1>1, <1>2, CommandsAssumption DEF CmdInit, CmdTypeOK

(* The parts of a command line the proofs look at. *)
LEMMA InvocationType ==
  ASSUME NEW i \in Invocations \cup {NoInvocation}
  PROVE  /\ i.verb \in ProcessVerbs \cup UnitVerbs \cup {"none"}
         /\ i.json \in BOOLEAN /\ i.yes \in BOOLEAN
         /\ i \in Invocations => i.verb # "none"
<1>1. CASE i \in [verb : ProcessVerbs, target : {"init", "self", "other"}, child : BOOLEAN,
                  goodName : {TRUE}, json : BOOLEAN, yes : BOOLEAN]
  BY <1>1 DEF ProcessVerbs, UnitVerbs
<1>2. CASE i \in [verb : UnitVerbs, target : {"other"}, child : {FALSE}, goodName : BOOLEAN,
                  json : BOOLEAN, yes : BOOLEAN]
  BY <1>2 DEF ProcessVerbs, UnitVerbs
<1>3. CASE i = NoInvocation /\ i \notin Invocations
  BY <1>3 DEF NoInvocation
<1>4. QED
  BY <1>1, <1>2, <1>3 DEF Invocations

LEMMA CmdTypeNext == CmdTypeOK /\ VerbInv /\ [CmdNext]_cmdVars => CmdTypeOK'
<1> SUFFICES ASSUME CmdTypeOK, VerbInv, [CmdNext]_cmdVars PROVE CmdTypeOK'
  OBVIOUS
<1>. USE CommandsAssumption DEF CmdTypeOK, End, Goto
<1>1. CASE Invoke
  <2>1. inv' \in Invocations \cup {NoInvocation} /\ kernel' \in KernelKinds
    BY <1>1 DEF Invoke
  <2>2. cmdPc' \in {"over", "validate", "confirm", "unit"} /\ ending' \in Exits
    BY <1>1 DEF Invoke, FirstStep, Exits, Errors
  <2>3. QED
    BY <1>1, <2>1, <2>2 DEF Invoke
<1>2. CASE Validate
  BY <1>2 DEF Validate, Exits, Errors
<1>3. CASE InspectTarget
  BY <1>3 DEF InspectTarget, Exits, Errors
<1>4. CASE Prompt
  BY <1>4 DEF Prompt, Exits, Errors
<1>5. CASE OpenHandle
  BY <1>5 DEF OpenHandle, Exits, Errors
<1>6. ASSUME NEW who \in 0..MaxGen, Signalled(who), inv.verb \in {"stop", "kill"},
             UNCHANGED <<inv, kernel, st, gen, handle, since, waited, eintrs, reply, queued>>
      PROVE  CmdTypeOK'
  <2>1. [proc |-> who, verb |-> inv.verb] \in [proc : 0..MaxGen, verb : {"stop", "kill"}]
    BY <1>6
  <2>2. sent' \in Seq([proc : 0..MaxGen, verb : {"stop", "kill"}])
    BY <1>6, <2>1 DEF Signalled
  <2>3. cmdPc' = "over" /\ ending' \in Exits
    BY <1>6 DEF Signalled, Exits
  <2>4. QED
    BY <1>6, <2>2, <2>3
<1>7. CASE PidfdSend
  <2>1. CASE Signalled(handle)
    BY <1>6, <1>7, <2>1 DEF PidfdSend, VerbInv
  <2>2. CASE UNCHANGED sent
    BY <1>7, <2>2 DEF PidfdSend, Signalled, Exits, Errors
  <2>3. QED
    BY <1>7, <2>1, <2>2 DEF PidfdSend
<1>8. CASE KillSend
  <2>1. CASE Signalled(gen)
    BY <1>6, <1>8, <2>1 DEF KillSend, VerbInv
  <2>2. CASE UNCHANGED sent
    BY <1>8, <2>2 DEF KillSend, Signalled, Exits, Errors
  <2>3. QED
    BY <1>8, <2>1, <2>2 DEF KillSend
<1>9. CASE Poll
  BY <1>9 DEF Poll, Exits, Errors
<1>10. CASE PollInterrupted
  BY <1>10 DEF PollInterrupted
<1>11. CASE LoopCheck
  BY <1>11 DEF LoopCheck, Exits, Errors
<1>12. CASE Wait
  BY <1>12 DEF Wait
<1>13. CASE NormalizeUnit
  BY <1>13 DEF NormalizeUnit, Exits, Errors
<1>14. CASE ControlUnit
  <2>1. inv.verb \in UnitVerbs
    BY <1>14 DEF ControlUnit, VerbInv
  <2>2. queued' \in Seq(UnitVerbs)
    <3>1. queued' = queued \/ queued' = Append(queued, inv.verb)
      BY <1>14 DEF ControlUnit
    <3>2. queued \in Seq(UnitVerbs)
      OBVIOUS
    <3>3. QED
      BY ONLY <2>1, <3>1, <3>2
  <2>3. cmdPc' = "over" /\ ending' \in Exits
    BY <1>14 DEF ControlUnit, CallErrors, Unanswered, Exits, Errors
  <2>4. QED
    BY <1>14, <2>2, <2>3 DEF ControlUnit
<1>15. CASE HostStep
  BY <1>15 DEF HostStep, ProcessEnds, Reaped, PidReused
<1>16. CASE UNCHANGED cmdVars
  BY <1>16 DEF cmdVars
<1>17. QED
  BY <1>1, <1>2, <1>3, <1>4, <1>5, <1>7, <1>8, <1>9, <1>10, <1>11, <1>12, <1>13,
     <1>14, <1>15, <1>16 DEF CmdNext

-----------------------------------------------------------------------------
(* The invariant. *)

LEMMA Numbers == CmdTypeOK => gen \in Nat /\ handle \in Nat /\ since \in Nat
BY CommandsAssumption DEF CmdTypeOK

LEMMA CmdInvInit == CmdInit => CmdInv
<1> SUFFICES ASSUME CmdInit PROVE CmdInv
  OBVIOUS
<1>1. RunningInv
  BY DEF CmdInit, RunningInv, NoInvocation
<1>2. VerbInv /\ ConsentInv
  BY DEF CmdInit, VerbInv, ConsentInv
<1>3. BearerInv /\ WaitTellsTheTruth
  BY DEF CmdInit, BearerInv, WaitTellsTheTruth
<1>4. HandleNotOvertaken
  BY DEF CmdInit, HandleNotOvertaken
<1>5. QED
  BY <1>1, <1>2, <1>3, <1>4 DEF CmdInv

(* A step that ends the command, with or without an effect. *)
LEMMA EndStep ==
  ASSUME CmdTypeOK, CmdInv, cmdPc # "over", cmdPc # "idle", NEW how, End(how), how # "none",
         UNCHANGED <<inv, gen, st, kernel>>,
         since' \in {since, gen},
         how = "exited" => gen # since' \/ st # "running",
         kernel = "pidfd" => \A n \in 1..Len(sent') : sent'[n].proc = handle'
  PROVE  CmdInv'
<1>1. RunningInv'
  BY DEF CmdInv, RunningInv, End
<1>2. VerbInv' /\ ConsentInv'
  BY DEF VerbInv, ConsentInv, End
<1>3. BearerInv'
  BY DEF CmdInv, BearerInv, End, CmdTypeOK
<1>4. WaitTellsTheTruth' /\ HandleNotOvertaken'
  BY DEF WaitTellsTheTruth, HandleNotOvertaken, End
<1>5. QED
  BY <1>1, <1>2, <1>3, <1>4 DEF CmdInv

(* A step that ends the command without a signal. *)
LEMMA EndQuietly ==
  ASSUME CmdTypeOK, CmdInv, cmdPc # "over", cmdPc # "idle", NEW how, End(how), how # "none",
         UNCHANGED <<inv, gen, st, kernel, since, sent>>,
         how = "exited" => gen # since \/ st # "running"
  PROVE  CmdInv'
<1>1. sent' = <<>>
  BY DEF CmdInv, RunningInv
<1>2. \A n \in 1..Len(sent') : sent'[n].proc = handle'
  BY <1>1
<1>3. QED
  BY <1>2, EndStep

(* A step on which the command goes on: nothing has been done or said.     *)
LEMMA GoOn ==
  ASSUME CmdTypeOK, CmdInv, cmdPc # "over", cmdPc # "idle",
         NEW pc \in {"validate", "inspect", "confirm", "open", "pidfd", "kill", "poll",
                     "loop", "unit", "bus"},
         Goto(pc), UNCHANGED <<inv, kernel, sent, queued>>,
         VerbInv', ConsentInv', BearerInv'
  PROVE  CmdInv'
<1>1. RunningInv'
  BY DEF CmdInv, RunningInv, Goto
<1>2. ending' = "none" /\ Len(sent') = 0
  BY DEF CmdInv, RunningInv, Goto
<1>3. WaitTellsTheTruth' /\ HandleNotOvertaken'
  BY <1>2 DEF WaitTellsTheTruth, HandleNotOvertaken
<1>4. QED
  BY <1>1, <1>3 DEF CmdInv

LEMMA CmdInvNext == CmdTypeOK /\ CmdInv /\ [CmdNext]_cmdVars => CmdInv'
<1> SUFFICES ASSUME CmdTypeOK, CmdInv, [CmdNext]_cmdVars PROVE CmdInv'
  OBVIOUS
<1>. USE CommandsAssumption
<1>1. CASE Invoke
  <2>1. /\ inv' \in Invocations /\ inv'.verb \in ProcessVerbs \cup UnitVerbs
        /\ inv'.json \in BOOLEAN /\ inv'.yes \in BOOLEAN
    <3>1. inv' \in Invocations
      BY <1>1 DEF Invoke
    <3>2. QED
      BY <3>1, InvocationType
  <2>2. CASE inv'.json
    <3>1. cmdPc' = "over" /\ ending' = "InvalidArgument"
      BY <1>1, <2>2 DEF Invoke, End
    <3>2. RunningInv'
      BY <2>1, <3>1 DEF RunningInv, ProcessVerbs, UnitVerbs
    <3>3. VerbInv' /\ ConsentInv'
      BY <3>1 DEF VerbInv, ConsentInv
    <3>4. QED
      BY <1>1, <3>1, <3>2, <3>3
         DEF Invoke, CmdInv, BearerInv, WaitTellsTheTruth, HandleNotOvertaken, RunningInv
  <2>3. CASE ~inv'.json
    <3>1. cmdPc' = FirstStep(inv') /\ ending' = ending
      BY <1>1, <2>3 DEF Invoke, Goto
    <3>2. RunningInv'
      BY <1>1, <2>1, <2>3, <3>1
         DEF Invoke, CmdInv, RunningInv, FirstStep, ProcessVerbs, UnitVerbs
    <3>3. VerbInv'
      BY <2>1, <3>1 DEF VerbInv, FirstStep, ProcessVerbs, UnitVerbs, GraveVerbs
    <3>4. ConsentInv'
      BY <1>1, <2>1, <3>1 DEF Invoke, CmdInv, ConsentInv, FirstStep, ProcessVerbs, UnitVerbs,
         GraveVerbs
    <3>5. BearerInv'
      BY <1>1, <3>1 DEF Invoke, CmdInv, BearerInv, FirstStep
    <3>6. ending' = "none" /\ Len(sent') = 0
      BY <1>1, <3>1 DEF Invoke, CmdInv, RunningInv
    <3>7. WaitTellsTheTruth' /\ HandleNotOvertaken'
      BY <3>6 DEF WaitTellsTheTruth, HandleNotOvertaken
    <3>8. QED
      BY <3>2, <3>3, <3>4, <3>5, <3>7 DEF CmdInv
  <2>4. QED
    BY <2>2, <2>3
<1>2. CASE Validate
  <2>1. CASE End("Conflict")
    BY <1>2, <2>1, EndStep DEF Validate, CmdInv, RunningInv
  <2>2. CASE Goto(IF inv.verb = "kill" THEN "inspect" ELSE "open")
    <3>1. VerbInv' /\ ConsentInv'
      BY <1>2, <2>2 DEF Validate, Goto, CmdInv, VerbInv, ConsentInv, GraveVerbs, ProcessVerbs
    <3>2. BearerInv'
      BY <1>2, <2>2, Numbers DEF Validate, Goto, BearerInv
    <3>3. QED
      BY <1>2, <2>2, <3>1, <3>2, GoOn DEF Validate
  <2>3. QED
    BY <1>2, <2>1, <2>2 DEF Validate
<1>3. CASE InspectTarget
  <2>1. CASE End("NotFound") \/ End("IoError")
    BY <1>3, <2>1, EndStep DEF InspectTarget, CmdInv, RunningInv
  <2>2. CASE Goto(IF inv.yes THEN "open" ELSE "confirm")
    <3>1. VerbInv' /\ ConsentInv' /\ BearerInv'
      BY <1>3, <2>2 DEF InspectTarget, Goto, CmdInv, VerbInv, ConsentInv, BearerInv,
         GraveVerbs, ProcessVerbs
    <3>2. QED
      BY <1>3, <2>2, <3>1, GoOn DEF InspectTarget
  <2>3. QED
    BY <1>3, <2>1, <2>2 DEF InspectTarget
<1>4. CASE Prompt
  <2>1. CASE End("Cancelled")
    BY <1>4, <2>1, EndStep DEF Prompt, CmdInv, RunningInv
  <2>2. CASE reply' = "yes" /\ Goto(IF inv.verb = "kill" THEN "open" ELSE "unit")
    <3>1. VerbInv' /\ ConsentInv' /\ BearerInv'
      BY <1>4, <2>2 DEF Prompt, Goto, CmdInv, VerbInv, ConsentInv, BearerInv,
         GraveVerbs, ProcessVerbs, UnitVerbs
    <3>2. QED
      BY <1>4, <2>2, <3>1, GoOn DEF Prompt
  <2>3. QED
    BY <1>4, <2>1, <2>2 DEF Prompt
<1>5. CASE OpenHandle
  <2>1. ASSUME NEW how \in {"exited", "NotFound", "IoError"}, End(how),
               how = "exited" => st = "gone"
        PROVE  CmdInv'
    <3>1. how = "exited" => gen # since \/ st # "running"
      BY <2>1
    <3>2. QED
      BY <1>5, <2>1, <3>1, EndQuietly DEF OpenHandle
  <2>2. CASE kernel = "no pidfd" /\ Goto(IF inv.verb = "wait" THEN "loop" ELSE "kill")
             /\ UNCHANGED handle
    <3>1. VerbInv' /\ ConsentInv' /\ BearerInv'
      BY <1>5, <2>2 DEF OpenHandle, Goto, CmdInv, VerbInv, ConsentInv, BearerInv,
         GraveVerbs, ProcessVerbs
    <3>2. QED
      BY <1>5, <2>2, <3>1, GoOn DEF OpenHandle
  <2>3. CASE handle' = gen /\ Goto(IF inv.verb = "wait" THEN "poll" ELSE "pidfd")
    <3>1. VerbInv' /\ ConsentInv'
      BY <1>5, <2>3 DEF OpenHandle, Goto, CmdInv, VerbInv, ConsentInv, GraveVerbs,
         ProcessVerbs
    <3>2. BearerInv'
      <4>1. UNCHANGED <<since, gen>> /\ handle' = gen /\ cmdPc' # "kill" /\ since <= gen
        BY <1>5, <2>3 DEF OpenHandle, Goto, CmdInv, BearerInv
      <4>2. QED
        BY <4>1, Numbers DEF BearerInv
    <3>3. QED
      BY <1>5, <2>3, <3>1, <3>2, GoOn DEF OpenHandle
  <2>4. QED
    BY <1>5, <2>1, <2>2, <2>3 DEF OpenHandle
<1>6. CASE PidfdSend
  <2>1. CASE Signalled(handle)
    <3>1. sent = <<>> /\ sent' = Append(sent, [proc |-> handle, verb |-> inv.verb])
      BY <1>6, <2>1 DEF PidfdSend, Signalled, CmdInv, RunningInv
    <3>2. \A n \in 1..Len(sent') : sent'[n].proc = handle
      BY ONLY <3>1
    <3>3. \A n \in 1..Len(sent') : sent'[n].proc = handle'
      BY <1>6, <3>2 DEF PidfdSend
    <3>4. QED
      BY <1>6, <2>1, <3>3, EndStep DEF PidfdSend, Signalled
  <2>2. CASE UNCHANGED sent /\ (End("NotFound") \/ End("PermissionDenied"))
    BY <1>6, <2>2, EndQuietly DEF PidfdSend
  <2>3. CASE kernel # "pidfd" /\ UNCHANGED sent /\ Goto("kill")
    <3>1. VerbInv' /\ ConsentInv' /\ BearerInv'
      BY <1>6, <2>3 DEF PidfdSend, Goto, CmdInv, VerbInv, ConsentInv, BearerInv
    <3>2. QED
      BY <1>6, <2>3, <3>1, GoOn DEF PidfdSend
  <2>4. QED
    BY <1>6, <2>1, <2>2, <2>3 DEF PidfdSend
<1>7. CASE KillSend
  <2>1. kernel # "pidfd" /\ UNCHANGED kernel
    BY <1>7 DEF KillSend, CmdInv, BearerInv
  <2>2. \E how \in {"ok", "NotFound", "PermissionDenied"} : End(how)
    BY <1>7 DEF KillSend, Signalled
  <2>3. QED
    BY <1>7, <2>1, <2>2, EndStep DEF KillSend
<1>8. CASE Poll
  <2>1. since <= handle /\ handle <= gen
    BY <1>8 DEF Poll, CmdInv, BearerInv
  <2>2. handle # gen => gen # since
    BY ONLY <2>1, CmdTypeOK, Numbers
  <2>3. \E how \in {"exited", "in use", "IoError"} :
          End(how) /\ (how = "exited" => gen # since \/ st # "running")
    BY <1>8, <2>2 DEF Poll
  <2>4. QED
    BY <1>8, <2>3, EndQuietly DEF Poll
<1>9. CASE PollInterrupted \/ Wait
  BY <1>9 DEF PollInterrupted, Wait, CmdInv, RunningInv, VerbInv, ConsentInv, BearerInv,
     WaitTellsTheTruth, HandleNotOvertaken
<1>10. CASE LoopCheck
  <2>1. \E how \in {"exited", "in use", "IoError"} :
          End(how) /\ (how = "exited" => st # "running")
    BY <1>10 DEF LoopCheck, ExitedWithKill
  <2>2. QED
    BY <1>10, <2>1, EndQuietly DEF LoopCheck
<1>11. CASE NormalizeUnit
  <2>1. CASE End("InvalidArgument")
    BY <1>11, <2>1, EndStep DEF NormalizeUnit, CmdInv, RunningInv
  <2>2. CASE Goto("bus")
    <3>1. VerbInv' /\ ConsentInv' /\ BearerInv'
      BY <1>11, <2>2 DEF NormalizeUnit, Goto, CmdInv, VerbInv, ConsentInv, BearerInv
    <3>2. QED
      BY <1>11, <2>2, <3>1, GoOn DEF NormalizeUnit
  <2>3. QED
    BY <1>11, <2>1, <2>2 DEF NormalizeUnit
<1>12. CASE ControlUnit
  <2>1. Len(sent) = 0 /\ UNCHANGED sent
    BY <1>12 DEF ControlUnit, CmdInv, RunningInv
  <2>2. \E how \in {"ok", "ProtocolError", "Unavailable"} \cup CallErrors \cup Unanswered : End(how)
    BY <1>12 DEF ControlUnit
  <2>3. QED
    BY <1>12, <2>1, <2>2, EndStep DEF ControlUnit, CallErrors, Unanswered
<1>13. CASE HostStep
  <2>1. gen' \in {gen, gen + 1} /\ gen \in Nat /\ since \in Nat /\ handle \in Nat
    BY <1>13 DEF HostStep, ProcessEnds, Reaped, PidReused, CmdTypeOK
  <2>2. ending' = "none" /\ Len(sent') = 0
    BY <1>13 DEF HostStep, CmdInv, RunningInv
  <2>3. BearerInv'
    BY <1>13, <2>1 DEF HostStep, CmdInv, BearerInv
  <2>4. QED
    BY <1>13, <2>2, <2>3 DEF HostStep, CmdInv, RunningInv, VerbInv, ConsentInv,
       WaitTellsTheTruth, HandleNotOvertaken
<1>14. CASE UNCHANGED cmdVars
  BY <1>14 DEF cmdVars, CmdInv, RunningInv, VerbInv, ConsentInv, BearerInv,
     WaitTellsTheTruth, HandleNotOvertaken
<1>15. QED
  BY <1>1, <1>2, <1>3, <1>4, <1>5, <1>6, <1>7, <1>8, <1>9, <1>10, <1>11, <1>12,
     <1>13, <1>14 DEF CmdNext

(* Every variable keeps its type. *)
THEOREM CmdTypes == CmdSpec => []CmdTypeOK
<1>1. CmdInv => VerbInv
  BY DEF CmdInv
<1>2. QED
  BY <1>1, CmdTypeInit, CmdTypeNext, CmdInvInit, CmdInvNext, PTL DEF CmdSpec

LEMMA CmdInvariance == CmdSpec => [](CmdTypeOK /\ CmdInv)
<1>1. CmdInv => VerbInv
  BY DEF CmdInv
<1>2. QED
  BY <1>1, CmdTypeInit, CmdTypeNext, CmdInvInit, CmdInvNext, PTL DEF CmdSpec

(* waitForExit never says "exited" of a process that is still running,     *)
(* with or without pidfds and however often the PID changes hands.         *)
THEOREM WaitIsTrue == CmdSpec => []WaitTellsTheTruth
<1>1. CmdInv => WaitTellsTheTruth
  BY DEF CmdInv
<1>2. QED
  BY <1>1, CmdInvariance, PTL

(* On a kernel with pidfds a signal goes to the process the handle was     *)
(* opened for, or to nobody.                                               *)
THEOREM HandleIsUsed == CmdSpec => []HandleNotOvertaken
<1>1. CmdInv => HandleNotOvertaken
  BY DEF CmdInv
<1>2. QED
  BY <1>1, CmdInvariance, PTL

-----------------------------------------------------------------------------
(* Why a command ends. *)

CmdPlace(pc) ==
  CASE pc = "idle" -> 0 [] pc = "validate" -> 1 [] pc = "inspect" -> 2
    [] pc = "confirm" -> 3 [] pc \in {"unit", "open"} -> 4
    [] pc \in {"pidfd", "poll", "loop"} -> 5 [] pc \in {"kill", "bus"} -> 6 [] OTHER -> 7

\* Further on, or closer to the timeout of waitForExit; but an interrupted
\* poll() starts its timeout again.
CmdOnward ==
  \/ CmdPlace(cmdPc') > CmdPlace(cmdPc)
  \/ cmdPc' = cmdPc /\ eintrs' > eintrs
  \/ cmdPc' = cmdPc /\ eintrs' = eintrs /\ waited' > waited

(* No step of a signal or service command leads back: nothing is asked,    *)
(* tried or sent twice.  Only interruptions of poll() let waitForExit wait *)
(* longer than its timeout.                                                *)
THEOREM CmdGoesOn == CmdSpec => [][CmdOnward \/ HostStep]_cmdVars
<1>1. ASSUME CmdTypeOK, [CmdNext]_cmdVars PROVE [CmdOnward \/ HostStep]_cmdVars
  <2> SUFFICES ASSUME CmdNext, ~HostStep PROVE CmdOnward
    BY <1>1
  <2>. USE DEF End, Goto
  <2>1. CASE Invoke
    <3>1. cmdPc = "idle" /\ cmdPc' \in {"over", "validate", "confirm", "unit"}
      BY <2>1 DEF Invoke, FirstStep
    <3>2. QED
      BY <3>1 DEF CmdOnward, CmdPlace
  <2>2. CASE Validate \/ InspectTarget \/ Prompt
    <3>1. \/ cmdPc = "validate" /\ cmdPc' \in {"over", "inspect", "open"}
          \/ cmdPc = "inspect" /\ cmdPc' \in {"over", "confirm", "open"}
          \/ cmdPc = "confirm" /\ cmdPc' \in {"over", "open", "unit"}
      BY <2>2 DEF Validate, InspectTarget, Prompt
    <3>2. QED
      BY <3>1 DEF CmdOnward, CmdPlace
  <2>3. CASE OpenHandle
    <3>1. cmdPc = "open" /\ cmdPc' \in {"over", "loop", "kill", "poll", "pidfd"}
      BY <2>3 DEF OpenHandle
    <3>2. QED
      BY <3>1 DEF CmdOnward, CmdPlace
  <2>4. CASE PidfdSend \/ KillSend
    <3>1. \/ cmdPc = "pidfd" /\ cmdPc' \in {"over", "kill"}
          \/ cmdPc = "kill" /\ cmdPc' = "over"
      BY <2>4 DEF PidfdSend, KillSend, Signalled
    <3>2. QED
      BY <3>1 DEF CmdOnward, CmdPlace
  <2>5. CASE Poll \/ LoopCheck
    <3>1. cmdPc \in {"poll", "loop"} /\ cmdPc' = "over"
      BY <2>5 DEF Poll, LoopCheck
    <3>2. QED
      BY <3>1 DEF CmdOnward, CmdPlace
  <2>6. CASE PollInterrupted \/ Wait
    BY <1>1, <2>6, CommandsAssumption DEF PollInterrupted, Wait, CmdOnward, CmdTypeOK
  <2>7. CASE NormalizeUnit \/ ControlUnit
    <3>1. \/ cmdPc = "unit" /\ cmdPc' \in {"over", "bus"}
          \/ cmdPc = "bus" /\ cmdPc' = "over"
      BY <2>7 DEF NormalizeUnit, ControlUnit
    <3>2. QED
      BY <3>1 DEF CmdOnward, CmdPlace
  <2>8. QED
    BY <2>1, <2>2, <2>3, <2>4, <2>5, <2>6, <2>7 DEF CmdNext
<1>2. QED
  BY <1>1, CmdTypes, PTL DEF CmdSpec

-----------------------------------------------------------------------------
(* The contract. *)

(* A step that says nothing and does nothing the contract speaks of. *)
LEMMA Silent ==
  ASSUME UNCHANGED <<gen, st, inv, reply, sent, queued, ending>>
  PROVE  UNCHANGED Promise!promiseVars
BY DEF Promise!promiseVars

(* An end without an effect. *)
LEMMA Declines ==
  ASSUME CmdInv, cmdPc \notin {"idle", "over"}, NEW how, End(how), how \notin {"none", "ok"},
         UNCHANGED <<gen, st, inv, sent, queued>>,
         reply' = reply \/ (reply # "yes" /\ reply' # "yes")
  PROVE  Promise!Decline
<1>1. inv.verb # "none" /\ ending = "none" /\ sent = <<>> /\ queued = <<>>
  BY DEF CmdInv, RunningInv
<1>2. ending' = how
  BY DEF End
<1>3. (inv.yes \/ reply = "yes")' = (inv.yes \/ reply = "yes")
  OBVIOUS
<1>4. QED
  BY <1>1, <1>2, <1>3 DEF Promise!Decline, Promise!Quiet

(* The signal is delivered to the bearer of the PID, with consent. *)
LEMMA Strikes ==
  ASSUME CmdInv, cmdPc \in {"pidfd", "kill"}, st # "gone", Signalled(gen),
         UNCHANGED <<gen, st, inv, reply, queued>>
  PROVE  Promise!Strike
<1>1. /\ ending = "none" /\ sent = <<>> /\ queued = <<>> /\ ~inv.json
      /\ inv.verb \in {"stop", "kill"}
      /\ inv.verb \in GraveVerbs => inv.yes \/ reply = "yes"
  BY DEF CmdInv, RunningInv, VerbInv, ConsentInv
<1>2. sent' = <<[proc |-> gen, verb |-> inv.verb]>> /\ ending' = "ok"
  BY <1>1 DEF Signalled, End
<1>3. QED
  BY <1>1, <1>2 DEF Promise!Strike, Promise!Permitted, Promise!Quiet, Promise!Grave, GraveVerbs

(* Every step of the commands is a step of the contract, or none. *)
LEMMA PromiseStep ==
  CmdTypeOK /\ CmdInv /\ [CmdNext]_cmdVars => [Promise!PromiseNext]_(Promise!promiseVars)
<1> SUFFICES ASSUME CmdTypeOK, CmdInv, [CmdNext]_cmdVars
             PROVE  Promise!PromiseNext \/ UNCHANGED Promise!promiseVars
  OBVIOUS
<1>. USE DEF Promise!PromiseNext
<1>1. CASE Invoke
  <2>1. /\ inv' \in Invocations /\ inv'.verb # "none"
        /\ inv'.json \in BOOLEAN /\ inv'.yes \in BOOLEAN
    <3>1. inv' \in Invocations
      BY <1>1 DEF Invoke
    <3>2. QED
      BY <3>1, InvocationType
  <2>2. inv.verb = "none" /\ ending = "none"
    BY <1>1 DEF Invoke, CmdInv, RunningInv
  <2>3. ending' \in {"none", "InvalidArgument"}
    BY <1>1, <2>2 DEF Invoke, End, Goto
  <2>4. UNCHANGED <<gen, st, sent, queued>>
    BY <1>1 DEF Invoke
  <2>5. Promise!Request
    BY <2>1, <2>2, <2>3, <2>4 DEF Promise!Request
  <2>6. QED
    BY <2>5
<1>2. CASE Validate
  <2>1. CASE End("Conflict")
    BY <1>2, <2>1, Declines DEF Validate
  <2>2. CASE UNCHANGED ending
    BY <1>2, <2>2, Silent DEF Validate
  <2>3. QED
    BY <1>2, <2>1, <2>2 DEF Validate, Goto
<1>3. CASE InspectTarget
  <2>1. CASE End("NotFound") \/ End("IoError")
    BY <1>3, <2>1, Declines DEF InspectTarget
  <2>2. CASE UNCHANGED ending
    BY <1>3, <2>2, Silent DEF InspectTarget
  <2>3. QED
    BY <1>3, <2>1, <2>2 DEF InspectTarget, Goto
<1>4. CASE Prompt
  <2>1. inv.verb \in GraveVerbs /\ reply = "none" /\ ending = "none"
    BY <1>4 DEF Prompt, CmdInv, VerbInv, ConsentInv, RunningInv
  <2>2. CASE reply' # "yes" /\ End("Cancelled")
    BY <1>4, <2>1, <2>2, Declines DEF Prompt
  <2>3. CASE reply' = "yes" /\ UNCHANGED ending
    <3>1. UNCHANGED <<gen, st, inv, sent, queued, ending>>
      BY <1>4, <2>3 DEF Prompt
    <3>2. Promise!Agree
      BY <2>1, <2>3, <3>1 DEF Promise!Agree, Promise!Grave, GraveVerbs
    <3>3. QED
      BY <3>2
  <2>4. QED
    BY <1>4, <2>2, <2>3 DEF Prompt, Goto
<1>5. CASE OpenHandle
  <2>1. CASE \E how \in {"exited", "NotFound", "IoError"} : End(how)
    BY <1>5, <2>1, Declines DEF OpenHandle
  <2>2. CASE UNCHANGED ending
    BY <1>5, <2>2, Silent DEF OpenHandle
  <2>3. QED
    BY <1>5, <2>1, <2>2 DEF OpenHandle, Goto
<1>6. CASE PidfdSend
  <2>1. CASE handle = gen /\ st # "gone" /\ Signalled(handle)
    BY <1>6, <2>1, Strikes DEF PidfdSend
  <2>2. CASE UNCHANGED sent /\ (End("NotFound") \/ End("PermissionDenied"))
    BY <1>6, <2>2, Declines DEF PidfdSend
  <2>3. CASE UNCHANGED sent /\ Goto("kill")
    BY <1>6, <2>3, Silent DEF PidfdSend, Goto
  <2>4. QED
    BY <1>6, <2>1, <2>2, <2>3 DEF PidfdSend
<1>7. CASE KillSend
  <2>1. CASE st # "gone" /\ Signalled(gen)
    BY <1>7, <2>1, Strikes DEF KillSend
  <2>2. CASE UNCHANGED sent /\ (End("NotFound") \/ End("PermissionDenied"))
    BY <1>7, <2>2, Declines DEF KillSend
  <2>3. QED
    BY <1>7, <2>1, <2>2 DEF KillSend
<1>8. CASE Poll
  BY <1>8, Declines DEF Poll
<1>9. CASE PollInterrupted \/ Wait
  BY <1>9, Silent DEF PollInterrupted, Wait
<1>10. CASE LoopCheck
  BY <1>10, Declines DEF LoopCheck
<1>11. CASE NormalizeUnit
  <2>1. CASE End("InvalidArgument")
    BY <1>11, <2>1, Declines DEF NormalizeUnit
  <2>2. CASE Goto("bus")
    BY <1>11, <2>2, Silent DEF NormalizeUnit, Goto
  <2>3. QED
    BY <1>11, <2>1, <2>2 DEF NormalizeUnit
<1>12. CASE ControlUnit
  <2>1. CASE /\ UNCHANGED queued
             /\ \E how \in CallErrors \cup {"Unavailable"} : End(how)
    BY <1>12, <2>1, Declines DEF ControlUnit, CallErrors
  <2>2. CASE /\ queued' = Append(queued, inv.verb)
             /\ \E how \in {"ok", "ProtocolError"} \cup Unanswered : End(how)
    <3>1. /\ ending = "none" /\ sent = <<>> /\ queued = <<>> /\ ~inv.json
          /\ inv.verb \in UnitVerbs
          /\ inv.verb \in GraveVerbs => inv.yes \/ reply = "yes"
      BY <1>12 DEF ControlUnit, CmdInv, RunningInv, VerbInv, ConsentInv
    <3>2. queued' = <<inv.verb>>
      BY ONLY <2>2, <3>1
    <3>3. ending' \in {"ok", "ProtocolError"} \cup Unanswered
      BY <2>2 DEF End
    <3>4. UNCHANGED <<gen, st, inv, reply, sent>>
      BY <1>12 DEF ControlUnit
    <3>5. Promise!Submit
      BY <3>1, <3>2, <3>3, <3>4
         DEF Promise!Submit, Promise!Permitted, Promise!Quiet, Promise!Grave, Promise!Doubtful,
             Unanswered, GraveVerbs, UnitVerbs
    <3>6. QED
      BY <3>5
  <2>3. QED
    BY <1>12, <2>1, <2>2 DEF ControlUnit
<1>13. CASE HostStep
  <2>1. gen' \in {gen, gen + 1} /\ UNCHANGED <<inv, reply, sent, queued, ending>>
    BY <1>13 DEF HostStep, ProcessEnds, Reaped, PidReused
  <2>2. Promise!HostMoves
    BY <2>1 DEF Promise!HostMoves
  <2>3. QED
    BY <2>2
<1>14. CASE UNCHANGED cmdVars
  BY <1>14, Silent DEF cmdVars
<1>15. QED
  BY <1>1, <1>2, <1>3, <1>4, <1>5, <1>6, <1>7, <1>8, <1>9, <1>10, <1>11, <1>12,
     <1>13, <1>14 DEF CmdNext

(* The commands keep their promise: at most one effect, with consent where *)
(* it is needed, none with --json, and a final word that is true.          *)
THEOREM PromiseKept == CmdSpec => EffectsAsPromised
<1>1. CmdInit => Promise!PromiseInit
  BY DEF CmdInit, Promise!PromiseInit, NoInvocation
<1>2. QED
  BY <1>1, CmdInvariance, PromiseStep, PTL DEF CmdSpec, EffectsAsPromised, Promise!PromiseSpec

-----------------------------------------------------------------------------
(* One invocation. *)

(* A step of lx is a step of the command that was given, and leaves the    *)
(* others where they are.                                                  *)
LEMMA OneCommandStep ==
  [Next]_allVars => /\ [DumpNext]_dumpVars /\ [CmdNext]_cmdVars
                    /\ [TableNext]_tableVars /\ [ExplorerNext]_xVars
<1> SUFFICES ASSUME [Next]_allVars
             PROVE  /\ DumpNext \/ UNCHANGED dumpVars
                    /\ CmdNext \/ UNCHANGED cmdVars
                    /\ TableNext \/ UNCHANGED tableVars
                    /\ ExplorerNext \/ UNCHANGED xVars
  OBVIOUS
<1>1. CASE UNCHANGED allVars
  BY <1>1 DEF allVars
<1>2. CASE Next
  BY <1>1, <1>2 DEF Next, Ended
<1>3. QED
  BY <1>1, <1>2

(* One invocation of lx behaves as each of the four modules says: the      *)
(* command given takes its steps, the other three take none.               *)
THEOREM OneCommandComposes == Spec => DumpSpec /\ CmdSpec /\ TableSpec /\ ExplorerSpec
<1>1. Init => DumpInit /\ CmdInit /\ TableInit /\ ExplorerInit
  BY DEF Init
<1>2. QED
  BY <1>1, OneCommandStep, PTL DEF Spec, DumpSpec, CmdSpec, TableSpec, ExplorerSpec

(* Every variable of the four commands keeps its type, whichever of them   *)
(* is given and whatever the host does meanwhile.                          *)
THEOREM TypesCorrect == Spec => []TypesOK
<1>1. DumpTypeOK /\ CmdTypeOK /\ TableTypeOK /\ ExplorerTypeOK => TypesOK
  BY DEF TypesOK
<1>2. QED
  BY <1>1, OneCommandComposes, DumpTypes, CmdTypes, TableTypes, ExplorerTypes, PTL

(* What is proved of the socket query, of the signal and service commands, *)
(* of the process table and of `inspect` and `find` holds of an invocation *)
(* of lx, whichever command is given.                                      *)
THEOREM OneCommandCorrect ==
  Spec => /\ []NeverStarved /\ DumpsCompleteOrWarned
          /\ []WaitTellsTheTruth /\ []HandleNotOvertaken /\ EffectsAsPromised
          /\ []CpuOfOneProcess /\ []NothingDroppedSilently
          /\ []NeverAGuess /\ []CompleteOrWarned /\ []RecentLogsWhole
BY OneCommandComposes, AnswerComes, ContractImplemented, WaitIsTrue, HandleIsUsed,
   PromiseKept, CpuIsOfOneProcess, NothingDropped, NoSilentGuess, NothingLeftOut, LogsWhole,
   PTL

(* Whichever command is given, lx comes closer to the end of it with every *)
(* step of its own.                                                        *)
THEOREM OneCommandGoesOn ==
  Spec => /\ [][DumpOnward]_dumpVars
          /\ [][CmdOnward \/ HostStep]_cmdVars
          /\ [][TableOnward \/ HostChanges]_tableVars
          /\ [][ExplorerOnward \/ HostGoesOn]_xVars
BY OneCommandComposes, DumpGoesOn, CmdGoesOn, TableGoesOn, ExplorerGoesOn, PTL

=============================================================================
