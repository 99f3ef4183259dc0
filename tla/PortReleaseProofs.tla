-------------------------- MODULE PortReleaseProofs --------------------------
(***************************************************************************)
(* Proofs, for every set of PIDs, sockets and services, every set of       *)
(* faults, every grace period and every number of host steps, of the       *)
(* safety properties of `lx port free` stated in PortRelease.              *)
(***************************************************************************)
EXTENDS PortRelease, WellFoundedInduction, TLAPS

-----------------------------------------------------------------------------
(* Operators. *)

(* The recommended unit is a service or NoUnit. *)
LEMMA CommonUnitType ==
  ASSUME NEW own, NEW found
  PROVE  CommonUnit(own, found) \in Units \cup {NoUnit}
BY DEF CommonUnit

(* A recommended service is the one found for every owner. *)
LEMMA CommonUnitFound ==
  ASSUME NEW own, NEW found, CommonUnit(own, found) # NoUnit
  PROVE  /\ CommonUnit(own, found) \in Units
         /\ \A p \in own : found[p] = CommonUnit(own, found)
BY DEF CommonUnit

(* An observation is a plan. *)
LEMMA CurrentType == TypeOK => Current \in Plan
BY CommonUnitType DEF TypeOK, Current, Plan

(* The code of prepareRelease() is one of its error codes, or ok. *)
LEMMA PrepareCodeType ==
  ASSUME NEW pl PROVE PrepareCode(pl) \in Codes \cup {"ok"}
BY DEF PrepareCode, Codes, DumpErrors, ScanErrors, CallErrors

(* Every error a failing call is reported as ends the command with it. *)
LEMMA ErrorsAreCodes ==
  /\ DumpErrors \subseteq Codes /\ ScanErrors \subseteq Codes
  /\ SignalErrors \subseteq Codes
  /\ OpenErrors \subseteq Codes /\ CallErrors \subseteq Codes
  /\ Codes \subseteq Outcomes /\ "Released" \notin Codes /\ "none" \notin Codes
  /\ {"NotFound", "PermissionDenied", "Conflict", "IoError", "Timeout"} \subseteq Codes
BY DEF DumpErrors, ScanErrors, SignalErrors, OpenErrors, CallErrors, Codes, Outcomes

(* A verdict other than ok is an outcome of the command. *)
LEMMA VerdictType ==
  ASSUME NEW fits PROVE Verdict(fits) \in Outcomes \cup {"ok"}
BY PrepareCodeType, ErrorsAreCodes DEF Verdict, Outcomes

-----------------------------------------------------------------------------
(* Type correctness. *)

LEMMA TypeInit == Init => TypeOK
<1>. USE HostAssumption, ReleaseAssumption
<1> SUFFICES ASSUME Init PROVE TypeOK
  OBVIOUS
<1>1. HostTypeOK
  BY DEF Init, HostInit, HostTypeOK, Bound
<1>2. NoPlan \in Plan
  BY DEF NoPlan, Plan
<1>3. QED
  BY <1>1, <1>2 DEF Init, TypeOK, Pcs, Phases, Prompts, Outcomes, Bound

LEMMA HostTypeNext == HostTypeOK /\ HostNext => HostTypeOK'
<1>. USE HostAssumption DEF HostTypeOK
<1> SUFFICES ASSUME HostTypeOK, HostNext PROVE HostTypeOK'
  OBVIOUS
<1>1. CASE \E p \in Pids : Exit(p)
  BY <1>1 DEF Exit
<1>2. CASE \E p \in Pids : Spawn(p)
  BY <1>2 DEF Spawn, Move
<1>3. CASE \E p \in Pids, i \in Inodes : Bind(p, i)
  BY <1>3 DEF Bind, Move
<1>4. CASE \E p \in Pids, i \in Inodes : Share(p, i)
  BY <1>4 DEF Share, Move
<1>5. CASE \E p \in Pids, i \in Inodes : Close(p, i)
  BY <1>5 DEF Close, Move
<1>6. QED
  BY <1>1, <1>2, <1>3, <1>4, <1>5 DEF HostNext

(* Starting an observation keeps the types. *)
LEMMA ObserveType ==
  ASSUME TypeOK, NEW ph \in Phases, Observe(ph)
  PROVE  /\ pc' \in Pcs
         /\ phase' \in Phases
         /\ undumped' \in SUBSET Kinds
         /\ failed' \in SUBSET Kinds
         /\ short' \in SUBSET Kinds
         /\ listed' \in SUBSET Inodes
         /\ unscanned' \in SUBSET Pids
         /\ owners' \in [Inodes -> SUBSET Pids]
         /\ uninspected' \in SUBSET Pids
         /\ units' \in [Pids -> Units \cup {NoUnit}]
         /\ before' \in SUBSET Inodes
BY DEF Observe, Pcs, Bound

LEMMA TypeNext == TypeOK /\ [Next]_vars => TypeOK'
<1>. USE HostAssumption, ReleaseAssumption, ErrorsAreCodes DEF timeVars
<1> SUFFICES ASSUME TypeOK, [Next]_vars PROVE TypeOK'
  OBVIOUS
<1>1. ASSUME NEW k \in Kinds, Dump(k) PROVE TypeOK'
  <2>1. listed' \in SUBSET Inodes /\ failed' \in SUBSET Kinds /\ short' \in SUBSET Kinds
    BY <1>1 DEF TypeOK, Dump, Bound
  <2>2. pc' \in Pcs /\ outcome' \in Outcomes /\ unscanned' \in SUBSET Pids
    BY <1>1 DEF TypeOK, Dump, Finish, Pcs, Outcomes
  <2>3. QED
    BY <1>1, <2>1, <2>2 DEF TypeOK, Dump, hostVars, planVars, HostTypeOK
<1>2. ASSUME NEW p \in Pids, ScanPid(p) PROVE TypeOK'
  <2>1. PICK seen \in SUBSET {i \in listed : p \in holders[i]} :
          /\ owners' = [i \in Inodes |->
                         IF i \in seen THEN owners[i] \cup {p} ELSE owners[i]]
          /\ seenBirth' = IF phase = "plan" /\ seen # {}
                            THEN [seenBirth EXCEPT ![p] = birth[p]]
                            ELSE seenBirth
    BY <1>2 DEF ScanPid
  <2>2. owners' \in [Inodes -> SUBSET Pids]
    BY <2>1 DEF TypeOK
  <2>3. seenBirth' \in [Pids -> 0..MaxBirth]
    BY <2>1 DEF TypeOK, HostTypeOK
  <2>4. pc' \in Pcs /\ uninspected' \in SUBSET Pids
    BY <1>2 DEF TypeOK, ScanPid, EndScan, Pcs
  <2>5. QED
    BY <1>2, <2>2, <2>3, <2>4
       DEF TypeOK, ScanPid, hostVars, planVars, HostTypeOK
<1>3. ASSUME ScanCut PROVE TypeOK'
  BY <1>3 DEF TypeOK, ScanCut, EndScan, Pcs, hostVars, planVars, HostTypeOK
<1>4. ASSUME ScanFails PROVE TypeOK'
  BY <1>4 DEF TypeOK, ScanFails, Finish, Pcs, Outcomes, hostVars,
              lookVars, planVars, HostTypeOK
<1>5. ASSUME NEW p \in Pids, Inspect(p) PROVE TypeOK'
  BY <1>5 DEF TypeOK, Inspect, hostVars, planVars, HostTypeOK
<1>5a. ASSUME InspectThrows PROVE TypeOK'
  BY <1>5a DEF TypeOK, InspectThrows, Finish, Pcs, Outcomes, hostVars,
               lookVars, planVars, HostTypeOK
<1>6. ASSUME PlanReady PROVE TypeOK'
  BY <1>6, CurrentType, PrepareCodeType
     DEF TypeOK, PlanReady, Finish, Pcs, Prompts, Outcomes, hostVars, lookVars,
         HostTypeOK
<1>7. ASSUME NEW q \in Prompts, NEW d, NEW ph \in Phases, Ask(q, d, ph)
      PROVE  TypeOK'
  <2>1. PICK a \in Answers :
          /\ answers' = [answers EXCEPT ![q] = a]
          /\ IF Confirm(a, d)
               THEN Observe(ph) /\ UNCHANGED outcome
               ELSE Finish("Cancelled") /\ UNCHANGED <<phase, lookVars, before>>
    BY <1>7 DEF Ask
  <2>2. answers' \in [Prompts -> {"none", "flag", "yes", "empty", "no", "eof"}]
    BY <2>1 DEF TypeOK, Answers
  <2>3. CASE Confirm(a, d)
    BY <1>7, <2>1, <2>2, <2>3, ObserveType
       DEF Ask, TypeOK, hostVars, planVars, HostTypeOK
  <2>4. CASE ~Confirm(a, d)
    BY <1>7, <2>1, <2>2, <2>4
       DEF Ask, TypeOK, Finish, Pcs, Outcomes, hostVars, lookVars, planVars,
           HostTypeOK
  <2>5. QED
    BY <2>3, <2>4
<1>8. ASSUME NEW ph, NEW fits, NEW g \in Pcs, NEW t \in SUBSET Pids,
             Recheck(ph, Verdict(fits), g, t)
      PROVE  TypeOK'
  BY <1>8, VerdictType
     DEF Recheck, TypeOK, Finish, Pcs, hostVars, lookVars, planVars, HostTypeOK
<1>9. ASSUME StopUnit PROVE TypeOK'
  <2>1. plan.unit \in Units \cup {NoUnit}
    BY DEF TypeOK, Plan
  <2>2. CASE Observe("svcPoll") /\ clock' = 0 /\ UNCHANGED outcome
    BY <1>9, <2>1, <2>2, ObserveType
       DEF StopUnit, TypeOK, Phases, hostVars, planVars, HostTypeOK
  <2>3. CASE /\ \E e \in CallErrors \cup OpenErrors : Finish(e)
             /\ UNCHANGED <<phase, lookVars, before, timeVars>>
    BY <1>9, <2>1, <2>3
       DEF StopUnit, TypeOK, Finish, Pcs, Outcomes, hostVars, lookVars,
           planVars, HostTypeOK
  <2>4. QED
    BY <1>9, <2>2, <2>3 DEF StopUnit
<1>10. ASSUME NEW up, PollUntil(up) PROVE TypeOK'
  <2>. DEFINE verdict == Verdict(RemainingBelong(plan, Current))
  <2>1. verdict \in Outcomes \cup {"ok"}
    BY VerdictType
  <2>2. CASE verdict = "ok" /\ ~up
    BY <1>10, <2>2, ObserveType
       DEF PollUntil, TypeOK, Phases, hostVars, planVars, HostTypeOK
  <2>3. CASE ~(verdict = "ok" /\ ~up)
    BY <1>10, <2>1, <2>3
       DEF PollUntil, TypeOK, Finish, Pcs, Outcomes, hostVars, lookVars,
           planVars, HostTypeOK
  <2>4. QED
    BY <2>2, <2>3
<1>11. ASSUME NEW p \in Pids, Signal(p) PROVE TypeOK'
  <2>1. [pid |-> p, sig |-> Sig, stray |-> birth[p] # seenBirth[p]] \in Signals
    BY DEF Signals, Sig
  <2>2. OwnerPids(Target) \in SUBSET Pids
    BY DEF OwnerPids
  <2>3. signals' \in SUBSET Signals
    BY <1>11, <2>1 DEF Signal, TypeOK
  <2>4. pc' \in Pcs /\ todo' \in SUBSET Pids
    BY <1>11, <2>2 DEF Signal, TypeOK, Finish, Pcs
  <2>5. clock' \in 0..Grace /\ outcome' \in Outcomes
    BY <1>11 DEF Signal, TypeOK, Finish, Outcomes
  <2>6. QED
    BY <1>11, <2>3, <2>4, <2>5
       DEF Signal, TypeOK, hostVars, lookVars, planVars, HostTypeOK
<1>12. ASSUME NEW p \in Pids, Wait(p) PROVE TypeOK'
  <2>1. CASE todo = {p}
    <3>. DEFINE ph == IF phase = "termCheck" THEN "termAfter" ELSE "forceAfter"
    <3>1. ph \in Phases /\ Observe(ph)
      BY <1>12, <2>1 DEF Wait, Phases
    <3>2. QED
      BY <1>12, <2>1, <3>1, ObserveType
         DEF Wait, TypeOK, hostVars, planVars, HostTypeOK
  <2>2. CASE todo # {p}
    BY <1>12, <2>2 DEF Wait, TypeOK, hostVars, lookVars, planVars, HostTypeOK
  <2>3. QED
    BY <2>1, <2>2
<1>13. ASSUME WaitFails PROVE TypeOK'
  BY <1>13 DEF WaitFails, TypeOK, Finish, Pcs, Outcomes, hostVars,
               lookVars, planVars, HostTypeOK
<1>14. ASSUME TermAfter PROVE TypeOK'
  BY <1>14, CurrentType, VerdictType
     DEF TermAfter, TypeOK, Finish, Pcs, Prompts, hostVars, lookVars, HostTypeOK
<1>15. ASSUME ForceAfter PROVE TypeOK'
  BY <1>15, VerdictType
     DEF ForceAfter, TypeOK, Finish, Pcs, Outcomes, hostVars, lookVars,
         planVars, HostTypeOK
<1>16. ASSUME Tick PROVE TypeOK'
  BY <1>16 DEF Tick, TypeOK, hostVars, lookVars, planVars, HostTypeOK
<1>17. ASSUME Environment PROVE TypeOK'
  BY <1>17, HostTypeNext DEF Environment, TypeOK, lxVars, lookVars, planVars
<1>18. ASSUME UNCHANGED vars PROVE TypeOK'
  BY <1>18 DEF vars, lxVars, TypeOK, hostVars, lookVars, planVars, HostTypeOK
<1>19. ASSUME Decide PROVE TypeOK'
  <2>1. OwnerPids(plan) \in SUBSET Pids /\ OwnerPids(remaining) \in SUBSET Pids
    BY DEF OwnerPids
  <2>2. {"stopUnit", "signal"} \subseteq Pcs
    BY DEF Pcs
  <2>3. QED
    BY <1>6, <1>8, <1>10, <1>14, <1>15, <1>19, <2>1, <2>2
       DEF Decide, SvcCheck, SvcPoll, TermCheck, ForceCheck
<1>20. ASSUME User PROVE TypeOK'
  BY <1>7, <1>20
     DEF User, ConfirmStop, ConfirmTerm, ConfirmKill, Prompts, Phases
<1>21. QED
  BY <1>1, <1>2, <1>3, <1>4, <1>5, <1>5a, <1>9, <1>11, <1>12, <1>13, <1>16, <1>17,
     <1>18, <1>19, <1>20
     DEF Next, Lx, Look, Act, Done

(* Type correctness: whatever the host does, every variable of the command *)
(* keeps its type; among other things the clock never passes the grace     *)
(* period and only PIDs are ever signalled or waited for.                  *)
THEOREM TypeCorrect == Spec => []TypeOK
BY TypeInit, TypeNext, PTL DEF Spec

-----------------------------------------------------------------------------
(* The order of the command: what its position says about the answers      *)
(* given, the signals sent, and the targets in hand.                       *)

TermPhases == {"termCheck", "termAfter", "forceCheck", "forceAfter"}
ForcePhases == {"forceCheck", "forceAfter"}
Agreed == {"flag", "yes", "empty"}

\* SIGTERM was sent to PID p.
Termed(p) == \E t \in signals : t.pid = p /\ t.sig = "TERM"

PositionInv ==
  /\ pc \in {"confirmStop", "confirmTerm"} => phase = "plan"
  /\ pc = "confirmKill" => phase = "termAfter"
  /\ pc = "stopUnit" => phase = "svcCheck"
  /\ pc \in {"signal", "wait"} => phase \in {"termCheck", "forceCheck"}

ConsentInv ==
  /\ (phase = "plan" /\ pc # "done") => \A q \in Prompts : answers[q] = "none"
  /\ phase \in {"svcCheck", "svcPoll"} => answers["confirmStop"] \in Agreed
  /\ phase \in TermPhases => /\ answers["confirmStop"] = "none"
                             /\ answers["confirmTerm"] \in Agreed
                             /\ stops = {}
  /\ phase \in ForcePhases => answers["confirmKill"] \in {"flag", "yes"}
  /\ phase = "plan" => stops = {}
  /\ phase \notin TermPhases => signals = {}

TargetInv ==
  /\ pc = "signal" => /\ SameTargets(Target, Current)
                      /\ todo \subseteq OwnerPids(Target)
  /\ (pc = "confirmKill" \/ phase \in ForcePhases) =>
       RemainingBelong(plan, remaining)

TermedInv ==
  /\ \A s \in signals : /\ s.pid \in OwnerPids(plan)
                        /\ s.sig = "KILL" => /\ phase \in ForcePhases
                                             /\ Termed(s.pid)
  /\ (pc = "signal" /\ phase = "termCheck") =>
       \A p \in OwnerPids(plan) \ todo : Termed(p)
  /\ (pc = "wait" \/ phase \in TermPhases \ {"termCheck"}) =>
       \A p \in OwnerPids(plan) : Termed(p)

OrderInv == PositionInv /\ ConsentInv /\ TargetInv /\ TermedInv

LEMMA OrderInit == Init => OrderInv
BY DEF Init, OrderInv, PositionInv, ConsentInv, TargetInv, TermedInv,
       TermPhases, ForcePhases, Prompts

(* The owners of what terminate() left are owners of the plan. *)
LEMMA RemainingOwners ==
  ASSUME NEW a, NEW b, RemainingBelong(a, b)
  PROVE  OwnerPids(b) \subseteq OwnerPids(a)
BY DEF RemainingBelong, OwnerPids

(* An observation in progress, and the end of the command, disturb none of *)
(* it: the position moves within the same call or to "done".               *)
LEMMA OrderFrame ==
  ASSUME OrderInv,
         pc' \in {"dump", "scan", "inspect", "done"},
         phase' = phase, planVars' = planVars, answers' = answers,
         signals' = signals, stops' = stops,
         phase = "plan" => (pc # "done" \/ pc' = "done")
  PROVE  OrderInv'
<1>. USE DEF planVars
<1>1. PositionInv'
  BY DEF OrderInv, PositionInv
<1>2. ConsentInv'
  BY DEF OrderInv, ConsentInv, TermPhases, ForcePhases
<1>3. TargetInv'
  BY DEF OrderInv, TargetInv, ForcePhases
<1>4. TermedInv'
  BY DEF OrderInv, TermedInv, TermPhases, ForcePhases, Termed, OwnerPids
<1>5. QED
  BY <1>1, <1>2, <1>3, <1>4 DEF OrderInv

LEMMA OrderNext == TypeOK /\ OrderInv /\ [Next]_vars => OrderInv'
<1> SUFFICES ASSUME TypeOK, OrderInv, [Next]_vars PROVE OrderInv'
  OBVIOUS
<1>. USE DEF planVars, TermPhases, ForcePhases, Prompts
<1>1. ASSUME Look PROVE OrderInv'
  <2>1. ASSUME NEW k \in Kinds, Dump(k) PROVE OrderInv'
    BY <2>1, OrderFrame DEF Dump, Finish
  <2>2. ASSUME NEW p \in Pids, ScanPid(p) PROVE OrderInv'
    BY <2>2, OrderFrame DEF ScanPid, EndScan
  <2>3. ASSUME NEW p \in Pids, Inspect(p) PROVE OrderInv'
    BY <2>3, OrderFrame DEF Inspect
  <2>4. CASE ScanCut
    BY <2>4, OrderFrame DEF ScanCut, EndScan
  <2>5. CASE ScanFails
    BY <2>5, OrderFrame DEF ScanFails, Finish
  <2>6. CASE InspectThrows
    BY <2>6, OrderFrame DEF InspectThrows, Finish
  <2>7. QED
    BY <1>1, <2>1, <2>2, <2>3, <2>4, <2>5, <2>6 DEF Look
<1>2. ASSUME PlanReady PROVE OrderInv'
  <2>1. CASE PrepareCode(Current) # "ok"
    BY <1>2, <2>1, OrderFrame DEF PlanReady, Observed, Finish
  <2>2. CASE PrepareCode(Current) = "ok"
    <3>1. phase = "plan" /\ phase' = phase /\ pc' \in {"confirmStop", "confirmTerm"}
      BY <1>2, <2>2 DEF PlanReady, Observed
    <3>2. UNCHANGED <<answers, signals, stops>> /\ pc = "inspect"
      BY <1>2 DEF PlanReady, Observed
    <3>3. QED
      BY <3>1, <3>2
         DEF OrderInv, PositionInv, ConsentInv, TargetInv, TermedInv
  <2>3. QED
    BY <2>1, <2>2
<1>3. ASSUME ConfirmStop PROVE OrderInv'
  <2>1. phase = "plan" /\ signals' = {} /\ stops' = {}
    BY <1>3 DEF ConfirmStop, Ask, OrderInv, PositionInv, ConsentInv
  <2>2. CASE pc' = "done"
    BY <1>3, <2>1, <2>2 DEF ConfirmStop, Ask, Observe, OrderInv, PositionInv,
       ConsentInv, TargetInv, TermedInv
  <2>3. CASE pc' # "done"
    <3>1. phase' = "svcCheck" /\ pc' = "dump"
      BY <1>3, <2>3 DEF ConfirmStop, Ask, Observe, Finish
    <3>2. answers'["confirmStop"] \in Agreed
      BY <1>3, <2>3 DEF ConfirmStop, Ask, Finish, Confirm, Agreed, TypeOK
    <3>3. QED
      BY <2>1, <3>1, <3>2
         DEF OrderInv, PositionInv, ConsentInv, TargetInv, TermedInv
  <2>4. QED
    BY <2>2, <2>3
<1>4. ASSUME ConfirmTerm PROVE OrderInv'
  <2>1. phase = "plan" /\ signals' = {} /\ stops' = {}
    BY <1>4 DEF ConfirmTerm, Ask, OrderInv, PositionInv, ConsentInv
  <2>2. CASE pc' = "done"
    BY <1>4, <2>1, <2>2 DEF ConfirmTerm, Ask, Observe, OrderInv, PositionInv,
       ConsentInv, TargetInv, TermedInv
  <2>3. CASE pc' # "done"
    <3>1. phase' = "termCheck" /\ pc' = "dump"
      BY <1>4, <2>3 DEF ConfirmTerm, Ask, Observe, Finish
    <3>2. answers'["confirmTerm"] \in Agreed /\ answers'["confirmStop"] = "none"
      BY <1>4, <2>1, <2>3 DEF ConfirmTerm, Ask, Finish, Confirm, Agreed, TypeOK,
         OrderInv, ConsentInv
    <3>3. QED
      BY <2>1, <3>1, <3>2
         DEF OrderInv, PositionInv, ConsentInv, TargetInv, TermedInv
  <2>4. QED
    BY <2>2, <2>3
<1>5. ASSUME ConfirmKill PROVE OrderInv'
  <2>1. phase = "termAfter" /\ UNCHANGED <<plan, remaining, signals, stops>>
    BY <1>5 DEF ConfirmKill, Ask, OrderInv, PositionInv
  <2>2. answers'["confirmStop"] = "none" /\ answers'["confirmTerm"] \in Agreed
    BY <1>5, <2>1 DEF ConfirmKill, Ask, TypeOK, OrderInv, ConsentInv
  <2>3. RemainingBelong(plan, remaining)'
    BY <1>5, <2>1 DEF ConfirmKill, Ask, OrderInv, TargetInv, RemainingBelong
  <2>4. (\A p \in OwnerPids(plan) : Termed(p))'
    BY <2>1 DEF OrderInv, TermedInv, Termed, OwnerPids
  <2>5. \A s \in signals' : s.pid \in OwnerPids(plan)' /\ s.sig # "KILL"
    BY <2>1 DEF OrderInv, TermedInv, OwnerPids
  <2>6. CASE pc' = "done"
    <3>1. phase' = "termAfter"
      BY <1>5, <2>1, <2>6 DEF ConfirmKill, Ask, Observe
    <3>2. QED
      BY <2>1, <2>2, <2>3, <2>4, <2>5, <2>6, <3>1
         DEF OrderInv, PositionInv, ConsentInv, TargetInv, TermedInv
  <2>7. CASE pc' # "done"
    <3>1. phase' = "forceCheck" /\ pc' = "dump"
      BY <1>5, <2>7 DEF ConfirmKill, Ask, Observe, Finish
    <3>2. answers'["confirmKill"] \in {"flag", "yes"}
      BY <1>5, <2>7 DEF ConfirmKill, Ask, Finish, Confirm, TypeOK
    <3>3. QED
      BY <2>1, <2>2, <2>3, <2>4, <2>5, <3>1, <3>2
         DEF OrderInv, PositionInv, ConsentInv, TargetInv, TermedInv
  <2>8. QED
    BY <2>6, <2>7
<1>6. ASSUME SvcCheck PROVE OrderInv'
  <2>1. CASE pc' = "done"
    BY <1>6, <2>1, OrderFrame DEF SvcCheck, Recheck, Observed
  <2>2. CASE pc' # "done"
    <3>1. pc' = "stopUnit" /\ phase = "svcCheck" /\ pc = "inspect"
      BY <1>6, <2>2 DEF SvcCheck, Recheck, Observed, Finish
    <3>2. UNCHANGED <<phase, answers, signals, stops, plan, remaining>>
      BY <1>6 DEF SvcCheck, Recheck
    <3>3. QED
      BY <3>1, <3>2
         DEF OrderInv, PositionInv, ConsentInv, TargetInv, TermedInv
  <2>3. QED
    BY <2>1, <2>2
<1>7. ASSUME TermCheck PROVE OrderInv'
  <2>1. CASE pc' = "done"
    BY <1>7, <2>1, OrderFrame DEF TermCheck, Recheck, Observed
  <2>2. CASE pc' # "done"
    <3>1. /\ pc' = "signal" /\ phase = "termCheck" /\ pc = "inspect"
          /\ todo' = OwnerPids(plan)
          /\ SameTargets(plan, Current)
      BY <1>7, <2>2 DEF TermCheck, Recheck, Observed, Finish, Verdict
    <3>2. UNCHANGED <<phase, answers, signals, stops, plan, remaining, listed,
                      owners, units>>
      BY <1>7 DEF TermCheck, Recheck, lookVars
    <3>3. TargetInv'
      BY <3>1, <3>2 DEF TargetInv, Target, SameTargets, Current, OwnerPids
    <3>4. TermedInv'
      BY <3>1, <3>2 DEF OrderInv, TermedInv, OwnerPids, Termed
    <3>5. QED
      BY <3>1, <3>2, <3>3, <3>4 DEF OrderInv, PositionInv, ConsentInv
  <2>3. QED
    BY <2>1, <2>2
<1>8. ASSUME ForceCheck PROVE OrderInv'
  <2>1. CASE pc' = "done"
    BY <1>8, <2>1, OrderFrame DEF ForceCheck, Recheck, Observed
  <2>2. CASE pc' # "done"
    <3>1. /\ pc' = "signal" /\ phase = "forceCheck" /\ pc = "inspect"
          /\ todo' = OwnerPids(remaining)
          /\ SameTargets(remaining, Current)
      BY <1>8, <2>2 DEF ForceCheck, Recheck, Observed, Finish, Verdict
    <3>2. UNCHANGED <<phase, answers, signals, stops, plan, remaining, listed,
                      owners, units>>
      BY <1>8 DEF ForceCheck, Recheck, lookVars
    <3>3. TargetInv'
      BY <3>1, <3>2 DEF OrderInv, TargetInv, Target, SameTargets, Current,
         OwnerPids, RemainingBelong
    <3>4. TermedInv'
      BY <3>1, <3>2 DEF OrderInv, TermedInv, OwnerPids, Termed
    <3>5. QED
      BY <3>1, <3>2, <3>3, <3>4 DEF OrderInv, PositionInv, ConsentInv
  <2>3. QED
    BY <2>1, <2>2
<1>9. ASSUME StopUnit PROVE OrderInv'
  <2>1. phase = "svcCheck" /\ signals' = {} /\ UNCHANGED <<answers, plan, remaining>>
    BY <1>9 DEF StopUnit, OrderInv, PositionInv, ConsentInv
  <2>2. \/ pc' = "dump" /\ phase' = "svcPoll"
        \/ pc' = "done" /\ phase' = "svcCheck"
    BY <1>9, <2>1 DEF StopUnit, Observe, Finish
  <2>3. QED
    BY <2>1, <2>2 DEF OrderInv, PositionInv, ConsentInv, TargetInv, TermedInv
<1>10. ASSUME SvcPoll PROVE OrderInv'
  BY <1>10, OrderFrame DEF SvcPoll, PollUntil, Observed, Observe, Finish
<1>11. ASSUME NEW p \in Pids, Signal(p) PROVE OrderInv'
  <2>1. CASE pc' = "done"
    <3>1. signals' = signals
      BY <1>11, <2>1 DEF Signal
    <3>2. QED
      BY <1>11, <2>1, <3>1, OrderFrame DEF Signal
  <2>2. CASE pc' # "done"
    <3>. DEFINE new == [pid |-> p, sig |-> Sig, stray |-> birth[p] # seenBirth[p]]
    <3>1. /\ pc = "signal" /\ p \in todo
          /\ signals' = signals \cup {new}
          /\ IF todo = {p}
               THEN pc' = "wait" /\ todo' = OwnerPids(Target)
               ELSE todo' = todo \ {p} /\ pc' = "signal"
      BY <1>11, <2>2 DEF Signal, Finish, Lowest
    <3>2. UNCHANGED <<phase, answers, stops, plan, remaining, listed, owners, units>>
      BY <1>11 DEF Signal, lookVars
    <3>3. phase \in {"termCheck", "forceCheck"}
      BY <3>1 DEF OrderInv, PositionInv
    <3>4. p \in OwnerPids(Target)
      BY <3>1 DEF OrderInv, TargetInv
    <3>5. p \in OwnerPids(plan)
      BY <3>3, <3>4, RemainingOwners DEF OrderInv, TargetInv, Target
    <3>6. \A x : Termed(x) => Termed(x)'
      BY <3>1 DEF Termed
    <3>7. phase = "termCheck" => Termed(p)'
      <4>1. new \in signals' /\ new.pid = p
        BY <3>1
      <4>2. phase = "termCheck" => new.sig = "TERM"
        BY DEF Sig
      <4>3. QED
        BY <4>1, <4>2 DEF Termed
    <3>8. phase = "forceCheck" => \A x \in OwnerPids(plan) : Termed(x)
      BY DEF OrderInv, TermedInv
    <3>9. OwnerPids(plan)' = OwnerPids(plan) /\ OwnerPids(Target)' = OwnerPids(Target)
      BY <3>2 DEF OwnerPids, Target
    <3>10. TargetInv'
      BY <3>1, <3>2, <3>9 DEF OrderInv, TargetInv, SameTargets, Target, Current,
         RemainingBelong
    <3>11. \A s \in signals' : /\ s.pid \in OwnerPids(plan)'
                               /\ s.sig = "KILL" => /\ phase' \in ForcePhases
                                                    /\ Termed(s.pid)'
      <4>1. \A s \in signals : /\ s.pid \in OwnerPids(plan)'
                               /\ s.sig = "KILL" => /\ phase' \in ForcePhases
                                                    /\ Termed(s.pid)'
        BY <3>2, <3>6, <3>9 DEF OrderInv, TermedInv
      <4>2. /\ new.pid \in OwnerPids(plan)'
            /\ new.sig = "KILL" => phase' \in ForcePhases /\ Termed(new.pid)'
        BY <3>2, <3>3, <3>5, <3>6, <3>8, <3>9 DEF Sig
      <4>3. QED
        BY <3>1, <4>1, <4>2
    <3>12. TermedInv'
      <4>1. CASE todo = {p}
        <5>1. pc' = "wait" /\ \A x \in OwnerPids(plan)' : Termed(x)'
          BY <3>1, <3>3, <3>6, <3>7, <3>8, <3>9, <4>1 DEF OrderInv, TermedInv
        <5>2. QED
          BY <3>11, <5>1 DEF TermedInv
      <4>2. CASE todo # {p}
        <5>1. pc' = "signal" /\ todo' = todo \ {p}
          BY <3>1, <4>2
        <5>2. phase = "termCheck" => \A x \in OwnerPids(plan)' \ todo' : Termed(x)'
          BY <3>1, <3>6, <3>7, <3>9, <5>1 DEF OrderInv, TermedInv
        <5>3. QED
          BY <3>2, <3>3, <3>6, <3>8, <3>9, <3>11, <5>1, <5>2 DEF TermedInv
      <4>3. QED
        BY <4>1, <4>2
    <3>13. QED
      BY <3>1, <3>2, <3>3, <3>10, <3>12 DEF OrderInv, PositionInv, ConsentInv
  <2>3. QED
    BY <2>1, <2>2
<1>12. ASSUME NEW p \in Pids, Wait(p) PROVE OrderInv'
  <2>1. pc = "wait" /\ phase \in {"termCheck", "forceCheck"}
    BY <1>12 DEF Wait, OrderInv, PositionInv
  <2>2. UNCHANGED <<plan, remaining, answers, signals, stops>>
    BY <1>12 DEF Wait
  <2>3. \/ pc' = "wait" /\ phase' = phase
        \/ pc' = "dump" /\ phase = "termCheck" /\ phase' = "termAfter"
        \/ pc' = "dump" /\ phase = "forceCheck" /\ phase' = "forceAfter"
    BY <1>12, <2>1 DEF Wait, Observe
  <2>4. ConsentInv'
    BY <2>1, <2>2, <2>3 DEF OrderInv, ConsentInv
  <2>5. TargetInv'
    BY <2>1, <2>2, <2>3 DEF OrderInv, TargetInv, RemainingBelong
  <2>6. TermedInv'
    BY <2>1, <2>2, <2>3 DEF OrderInv, TermedInv, Termed, OwnerPids
  <2>7. QED
    BY <2>1, <2>3, <2>4, <2>5, <2>6 DEF OrderInv, PositionInv
<1>13. ASSUME WaitFails PROVE OrderInv'
  BY <1>13, OrderFrame DEF WaitFails, Finish
<1>14. ASSUME TermAfter PROVE OrderInv'
  <2>1. CASE pc' = "done"
    <3>1. remaining' = remaining
      BY <1>14, <2>1 DEF TermAfter
    <3>2. QED
      BY <1>14, <2>1, <3>1, OrderFrame DEF TermAfter
  <2>2. CASE pc' # "done"
    <3>1. /\ phase = "termAfter" /\ pc' = "confirmKill" /\ pc = "inspect"
          /\ remaining' = Current
          /\ RemainingBelong(plan, Current)
      BY <1>14, <2>2 DEF TermAfter, Observed, Finish, Verdict
    <3>2. UNCHANGED <<phase, answers, signals, stops, plan>>
      BY <1>14 DEF TermAfter
    <3>3. RemainingBelong(plan, remaining)'
      BY <3>1, <3>2 DEF RemainingBelong
    <3>4. TermedInv'
      BY <3>1, <3>2 DEF OrderInv, TermedInv, Termed, OwnerPids
    <3>5. QED
      BY <3>1, <3>2, <3>3, <3>4 DEF OrderInv, PositionInv, ConsentInv, TargetInv
  <2>3. QED
    BY <2>1, <2>2
<1>15. ASSUME ForceAfter PROVE OrderInv'
  BY <1>15, OrderFrame DEF ForceAfter, Finish
<1>16. ASSUME UNCHANGED <<pc, phase, listed, owners, units, plan, remaining,
                          todo, answers, signals, stops>>
       PROVE  OrderInv'
  <2>1. PositionInv' /\ ConsentInv'
    BY <1>16 DEF OrderInv, PositionInv, ConsentInv
  <2>2. TargetInv'
    BY <1>16 DEF OrderInv, TargetInv, SameTargets, Target, Current, OwnerPids,
       RemainingBelong
  <2>3. TermedInv'
    BY <1>16 DEF OrderInv, TermedInv, Termed, OwnerPids
  <2>4. QED
    BY <2>1, <2>2, <2>3 DEF OrderInv
<1>17. ASSUME Tick \/ Environment \/ UNCHANGED vars PROVE OrderInv'
  BY <1>16, <1>17 DEF Tick, Environment, vars, lxVars, lookVars
<1>18. QED
  BY <1>1, <1>2, <1>3, <1>4, <1>5, <1>6, <1>7, <1>8, <1>9, <1>10, <1>11,
     <1>12, <1>13, <1>14, <1>15, <1>17
     DEF Next, Lx, Act, Decide, User, Done

-----------------------------------------------------------------------------
(* PID 1 and LX itself. *)

LEMMA ProtectedNext ==
  ProtectedNeverSignalled /\ [Next]_vars => ProtectedNeverSignalled'
<1> SUFFICES ASSUME ProtectedNeverSignalled, [Next]_vars
             PROVE  ProtectedNeverSignalled'
  OBVIOUS
<1>1. ASSUME signals' = signals PROVE ProtectedNeverSignalled'
  BY <1>1 DEF ProtectedNeverSignalled
<1>2. ASSUME NEW p \in Pids, Signal(p) PROVE ProtectedNeverSignalled'
  <2>1. \/ signals' = signals
        \/ /\ ValidateSignalTarget(p)
           /\ \A s \in signals' : s \in signals \/ s.pid = p
    BY <1>2 DEF Signal
  <2>2. QED
    BY <1>1, <2>1 DEF ProtectedNeverSignalled, ValidateSignalTarget
<1>3. ASSUME [Next]_vars, ~ \E p \in Pids : Signal(p) PROVE signals' = signals
  BY <1>3 DEF Next, Lx, Look, Act, Decide, User, Done, Dump, ScanPid, ScanCut,
     ScanFails, Inspect, InspectThrows, PlanReady, ConfirmStop, ConfirmTerm, ConfirmKill, Ask,
     SvcCheck, TermCheck, ForceCheck, Recheck, StopUnit, SvcPoll, PollUntil,
     Wait, WaitFails, TermAfter, ForceAfter, Tick, Environment, vars, lxVars
<1>4. QED
  BY <1>1, <1>2, <1>3

(* PID 1 and the running LX are never signalled, whatever owners the scan  *)
(* of /proc reports.                                                       *)
THEOREM NeverSignalsProtected == Spec => []ProtectedNeverSignalled
<1>1. Init => ProtectedNeverSignalled
  BY DEF Init, ProtectedNeverSignalled
<1>2. QED
  BY <1>1, ProtectedNext, PTL DEF Spec

-----------------------------------------------------------------------------
(* What the invariant is for. *)
LEMMA OrderImplies ==
  TypeOK /\ OrderInv /\ ProtectedNeverSignalled =>
    RevalidatedTargets /\ EscalationDiscipline
<1> SUFFICES ASSUME TypeOK, OrderInv, ProtectedNeverSignalled
             PROVE  RevalidatedTargets /\ EscalationDiscipline
  OBVIOUS
<1>1. RevalidatedTargets
  <2> SUFFICES ASSUME pc = "signal", NEW p \in todo
               PROVE  p \in OwnerPids(plan) /\ p \in OwnerPids(Current)
    BY DEF RevalidatedTargets
  <2>1. p \in OwnerPids(Target) /\ SameTargets(Target, Current)
    BY DEF OrderInv, TargetInv
  <2>2. p \in OwnerPids(plan)
    BY <2>1, RemainingOwners DEF OrderInv, TargetInv, Target, ForcePhases
  <2>3. p \in OwnerPids(Current)
    BY <2>1 DEF OwnerPids, SameTargets
  <2>4. QED
    BY <2>2, <2>3
<1>2. EscalationDiscipline
  <2> SUFFICES ASSUME NEW s \in signals
               PROVE  /\ s.pid \in OwnerPids(plan)
                      /\ answers["confirmTerm"] \in {"flag", "yes", "empty"}
                      /\ s.sig = "KILL" =>
                           /\ answers["confirmKill"] \in {"flag", "yes"}
                           /\ Termed(s.pid)
    BY DEF EscalationDiscipline, Termed
  <2>1. phase \in TermPhases
    BY DEF OrderInv, ConsentInv
  <2>2. QED
    BY <2>1 DEF OrderInv, ConsentInv, TermedInv, Agreed
<1>3. QED
  BY <1>1, <1>2

(* Every process LX is about to signal was shown to the user and found     *)
(* again as an owner after the confirmation.                               *)
THEOREM TargetsRevalidated == Spec => []RevalidatedTargets
BY TypeInit, TypeNext, OrderInit, OrderNext, OrderImplies, NeverSignalsProtected, PTL
   DEF Spec

(* No signal without consent or to PID 1 or LX itself; SIGKILL only after  *)
(* SIGTERM and an explicit yes, and only to owners of the shown plan.      *)
THEOREM EscalationOrdered == Spec => []EscalationDiscipline
BY TypeInit, TypeNext, OrderInit, OrderNext, OrderImplies, NeverSignalsProtected, PTL
   DEF Spec

-----------------------------------------------------------------------------
(* "Released" means free. *)

\* A socket number is never used twice, and what existed before is spent.
SpentInv == Bound \subseteq spent /\ before \subseteq spent

\* A socket that outlives the observation is listed, still to be dumped, or
\* of a dump that failed or was broken off; a look that ended before any
\* process was read is one that found /proc missing.
SeenInv ==
  /\ pc # "dump" => undumped = {}
  /\ \A i \in before \cap Bound :
       i \in listed \/ KindOf[i] \in undumped \cup failed \cup short
  /\ listed # {} => Pids # {}
  /\ pc = "scan" => unscanned # {}
  /\ pc # "done" => outcome # "Released"
  /\ outcome = "Released" => listed = {} \/ unscanned # {}

FreeInv == SpentInv /\ SeenInv

LEMMA FreeInit == Init => FreeInv
BY ReleaseAssumption
   DEF Init, HostInit, FreeInv, SpentInv, SeenInv, Bound

(* Sockets only disappear or are new: the host never revives one. *)
LEMMA HostSockets ==
  ASSUME TypeOK, Bound \subseteq spent, HostNext
  PROVE  /\ spent \subseteq spent'
         /\ Bound' \subseteq spent'
         /\ Bound' \cap spent \subseteq Bound
<1>. USE DEF TypeOK, HostTypeOK, Bound
<1>1. CASE \E p \in Pids : Exit(p)
  BY <1>1 DEF Exit
<1>2. CASE \E p \in Pids : Spawn(p)
  BY <1>2 DEF Spawn
<1>3. CASE \E p \in Pids, i \in Inodes : Bind(p, i)
  BY <1>3 DEF Bind
<1>4. CASE \E p \in Pids, i \in Inodes : Share(p, i)
  BY <1>4 DEF Share
<1>5. CASE \E p \in Pids, i \in Inodes : Close(p, i)
  BY <1>5 DEF Close
<1>6. QED
  BY <1>1, <1>2, <1>3, <1>4, <1>5 DEF HostNext

(* An observation that starts has everything still to be dumped. *)
LEMMA FreeObserve ==
  ASSUME TypeOK, FreeInv, NEW ph, Observe(ph), UNCHANGED <<hostVars, outcome>>,
         pc # "done"
  PROVE  FreeInv'
<1>1. Bound' = Bound /\ spent' = spent /\ before' = Bound
  BY DEF Observe, Bound, hostVars
<1>2. QED
  BY <1>1, ReleaseAssumption
     DEF Observe, FreeInv, SpentInv, SeenInv, Bound

(* A step within an observation, or away from it, that neither dumps nor   *)
(* declares the port free.                                                 *)
LEMMA FreeFrame ==
  ASSUME FreeInv, UNCHANGED <<hostVars, undumped, failed, short, listed, before>>,
         pc # "dump", pc # "done", pc' # "dump", pc' = "scan" => unscanned' # {},
         \/ outcome' = outcome
         \/ outcome' # "Released"
         \/ pc' = "done" /\ (listed = {} \/ unscanned' # {})
  PROVE  FreeInv'
<1>1. Bound' = Bound /\ spent' = spent
  BY DEF Bound, hostVars
<1>2. QED
  BY <1>1 DEF FreeInv, SpentInv, SeenInv

(* Only an observation without a socket is taken for a free port. *)
LEMMA ReleasedVerdict ==
  ASSUME NEW fits, Verdict(fits) = "Released"
  PROVE  listed = {}
BY DEF Verdict, PrepareCode, Current

LEMMA FreeNext == TypeOK /\ FreeInv /\ [Next]_vars => FreeInv'
<1> SUFFICES ASSUME TypeOK, FreeInv, [Next]_vars PROVE FreeInv'
  OBVIOUS
<1>. USE DEF lookVars
<1>1. ASSUME NEW k \in Kinds, Dump(k) PROVE FreeInv'
  <2>1. Bound' = Bound /\ spent' = spent /\ before' = before
    BY <1>1 DEF Dump, Bound, hostVars
  <2>2. \A i \in before \cap Bound :
          i \in listed' \/ KindOf[i] \in undumped' \cup failed' \cup short'
    BY <1>1 DEF Dump, FreeInv, SeenInv
  <2>3. pc' # "dump" => undumped' = {}
    BY <1>1 DEF Dump
  <2>4. outcome' # "Released"
    BY <1>1, ErrorsAreCodes DEF Dump, Finish, FreeInv, SeenInv
  <2>5. listed' # {} => Pids # {}
    <3>1. \A i \in Bound : Pids # {}
      BY DEF Bound, TypeOK, HostTypeOK
    <3>2. QED
      BY <1>1, <3>1 DEF Dump, FreeInv, SeenInv
  <2>6. pc' = "scan" => listed' # {} /\ unscanned' = Pids
    BY <1>1 DEF Dump, Finish
  <2>7. QED
    BY <2>1, <2>2, <2>3, <2>4, <2>5, <2>6 DEF FreeInv, SpentInv, SeenInv
<1>2. ASSUME NEW p \in Pids, ScanPid(p) PROVE FreeInv'
  BY <1>2, FreeFrame DEF ScanPid, EndScan
<1>3. CASE ScanCut
  BY <1>3, FreeFrame DEF ScanCut, EndScan
<1>4. CASE ScanFails
  BY <1>4, FreeFrame DEF ScanFails, Finish, FreeInv, SeenInv
<1>5. ASSUME NEW p \in Pids, Inspect(p) PROVE FreeInv'
  BY <1>5, FreeFrame DEF Inspect
<1>5a. CASE InspectThrows
  BY <1>5a, FreeFrame DEF InspectThrows, Finish
<1>6. CASE PlanReady
  BY <1>6, FreeFrame, PrepareCodeType, ErrorsAreCodes DEF PlanReady, Observed, Finish
<1>7. ASSUME NEW q \in Prompts, NEW d, NEW ph, Ask(q, d, ph) PROVE FreeInv'
  <2>1. CASE Observe(ph) /\ UNCHANGED outcome
    BY <1>7, <2>1, FreeObserve DEF Ask, Prompts
  <2>2. CASE Finish("Cancelled") /\ UNCHANGED <<phase, lookVars, before>>
    BY <1>7, <2>2, FreeFrame DEF Ask, Finish, Prompts
  <2>3. QED
    BY <1>7, <2>1, <2>2 DEF Ask
<1>8. ASSUME NEW ph, NEW fits, NEW g, NEW t, Recheck(ph, Verdict(fits), g, t),
             g \in {"stopUnit", "signal"}
      PROVE  FreeInv'
  BY <1>8, FreeFrame, ReleasedVerdict DEF Recheck, Observed, Finish
<1>9. CASE StopUnit
  <2>1. CASE Observe("svcPoll") /\ UNCHANGED outcome
    BY <1>9, <2>1, FreeObserve DEF StopUnit
  <2>2. CASE /\ \E e \in CallErrors \cup OpenErrors : Finish(e)
             /\ UNCHANGED <<phase, lookVars, before>>
    BY <1>9, <2>2, FreeFrame, ErrorsAreCodes DEF StopUnit, Finish
  <2>3. QED
    BY <1>9, <2>1, <2>2 DEF StopUnit
<1>10. CASE SvcPoll
  <2>1. CASE Observe("svcPoll") /\ UNCHANGED outcome
    BY <1>10, <2>1, FreeObserve DEF SvcPoll, PollUntil, Observed
  <2>2. CASE ~(Observe("svcPoll") /\ UNCHANGED outcome)
    BY <1>10, <2>2, FreeFrame, ReleasedVerdict
       DEF SvcPoll, PollUntil, Observed, Finish
  <2>3. QED
    BY <2>1, <2>2
<1>11. ASSUME NEW p \in Pids, Signal(p) PROVE FreeInv'
  BY <1>11, FreeFrame, ErrorsAreCodes DEF Signal, Finish
<1>12. ASSUME NEW p \in Pids, Wait(p) PROVE FreeInv'
  <2>1. CASE todo = {p}
    BY <1>12, <2>1, FreeObserve DEF Wait
  <2>2. CASE todo # {p}
    BY <1>12, <2>2, FreeFrame DEF Wait
  <2>3. QED
    BY <2>1, <2>2
<1>13. CASE WaitFails
  BY <1>13, FreeFrame, ErrorsAreCodes DEF WaitFails, Finish
<1>14. CASE TermAfter
  BY <1>14, FreeFrame, ReleasedVerdict DEF TermAfter, Observed, Finish
<1>15. CASE ForceAfter
  BY <1>15, FreeFrame, ReleasedVerdict DEF ForceAfter, Observed, Finish
<1>16. CASE Tick \/ UNCHANGED vars
  BY <1>16 DEF Tick, vars, lxVars, hostVars, FreeInv, SpentInv, SeenInv, Bound
<1>17. CASE Environment
  <2>1. UNCHANGED <<pc, outcome, undumped, failed, short, listed, unscanned, before>>
    BY <1>17 DEF Environment, lxVars
  <2>2. /\ spent \subseteq spent'
        /\ Bound' \subseteq spent'
        /\ Bound' \cap spent \subseteq Bound
    BY <1>17, HostSockets DEF Environment, FreeInv, SpentInv
  <2>3. QED
    BY <2>1, <2>2 DEF FreeInv, SpentInv, SeenInv
<1>18. QED
  BY <1>1, <1>2, <1>3, <1>4, <1>5, <1>5a, <1>6, <1>7, <1>8, <1>9, <1>10, <1>11,
     <1>12, <1>13, <1>14, <1>15, <1>16, <1>17
     DEF Next, Lx, Look, Act, Decide, User, Done, SvcCheck, TermCheck,
         ForceCheck, ConfirmStop, ConfirmTerm, ConfirmKill, Prompts

(* When LX reports the port released, any socket that was there when its   *)
(* last look began and still is, is of a protocol or family whose dump     *)
(* failed or was broken off; without such losses there is none, unless     *)
(* /proc itself was missing.                                               *)
THEOREM ReleasedIsFree == Spec => []ReleasedMeansFree
<1>1. FreeInv => ReleasedMeansFree
  BY DEF FreeInv, SeenInv, ReleasedMeansFree
<1>2. QED
  BY <1>1, TypeInit, TypeNext, FreeInit, FreeNext, PTL DEF Spec

-----------------------------------------------------------------------------
(* Births: which process a PID names, and what the host may change of it. *)

\* Only live processes hold sockets, and no PID was given to an earlier
\* process than the one seen when the plan was made.
BirthInv ==
  /\ \A i \in Inodes : holders[i] \subseteq alive
  /\ \A p \in Pids : seenBirth[p] <= birth[p]

\* A step leaves the process bearing p as it is, ends it, or replaces it by a
\* later one.
Ages(p) ==
  /\ birth[p] <= birth'[p]
  /\ birth'[p] = birth[p] => /\ unitOf'[p] = unitOf[p]
                             /\ p \in alive' => p \in alive

LEMMA BirthInit == Init => BirthInv
BY HostAssumption DEF Init, HostInit, BirthInv

LEMMA HostAges ==
  ASSUME TypeOK, HostNext, \A i \in Inodes : holders[i] \subseteq alive
  PROVE  /\ \A p \in Pids : Ages(p)
         /\ \A i \in Inodes : holders'[i] \subseteq alive'
<1>. USE HostAssumption DEF TypeOK, HostTypeOK, Ages
<1>1. CASE \E p \in Pids : Exit(p)
  BY <1>1 DEF Exit
<1>2. CASE \E p \in Pids : Spawn(p)
  BY <1>2 DEF Spawn
<1>3. CASE \E p \in Pids, i \in Inodes : Bind(p, i)
  BY <1>3 DEF Bind
<1>4. CASE \E p \in Pids, i \in Inodes : Share(p, i)
  BY <1>4 DEF Share
<1>5. CASE \E p \in Pids, i \in Inodes : Close(p, i)
  BY <1>5 DEF Close
<1>6. QED
  BY <1>1, <1>2, <1>3, <1>4, <1>5 DEF HostNext

(* A step of the command leaves the host alone: processes end and start    *)
(* only by steps of the environment.                                       *)
LEMMA HostOrLx ==
  ASSUME [Next]_vars
  PROVE  UNCHANGED hostVars \/ Environment
BY DEF Next, Lx, Look, Act, Decide, User, Done, Dump, ScanPid, ScanCut,
   ScanFails, Inspect, InspectThrows, PlanReady, ConfirmStop, ConfirmTerm,
   ConfirmKill, Ask, SvcCheck, TermCheck, ForceCheck, Recheck, StopUnit,
   SvcPoll, PollUntil, Signal, Wait, WaitFails, TermAfter, ForceAfter, Tick, vars

(* The process a PID was seen to name changes only while the plan is being *)
(* made, when its descriptors are read.                                    *)
LEMMA SeenBirthOrScan ==
  ASSUME [Next]_vars
  PROVE  \/ UNCHANGED seenBirth
         \/ phase = "plan" /\ \E p \in Pids : ScanPid(p)
<1>1. ASSUME NEW p \in Pids, ScanPid(p)
      PROVE  UNCHANGED seenBirth \/ phase = "plan"
  BY <1>1 DEF ScanPid
<1>2. QED
  BY <1>1 DEF Next, Lx, Look, Act, Decide, User, Done, Dump, ScanCut,
     ScanFails, Inspect, InspectThrows, PlanReady, ConfirmStop, ConfirmTerm,
     ConfirmKill, Ask, SvcCheck, TermCheck, ForceCheck, Recheck, StopUnit,
     SvcPoll, PollUntil, Signal, Wait, WaitFails, TermAfter, ForceAfter, Tick,
     Environment, vars, lxVars

LEMMA BirthNext ==
  ASSUME TypeOK, BirthInv, [Next]_vars
  PROVE  BirthInv' /\ \A p \in Pids : Ages(p)
<1>. USE HostAssumption
<1>1. /\ \A p \in Pids : Ages(p)
      /\ \A i \in Inodes : holders'[i] \subseteq alive'
  <2>1. CASE UNCHANGED hostVars
    BY <2>1 DEF hostVars, Ages, BirthInv, TypeOK, HostTypeOK
  <2>2. CASE Environment
    BY <2>2, HostAges DEF Environment, BirthInv
  <2>3. QED
    BY <2>1, <2>2, HostOrLx
<1>2. \A p \in Pids : seenBirth'[p] <= birth'[p]
  <2>1. \A p \in Pids : /\ seenBirth[p] \in Nat /\ birth[p] \in Nat
                        /\ birth'[p] \in Nat
    BY TypeNext DEF TypeOK, HostTypeOK
  <2>2. CASE UNCHANGED seenBirth
    <3> SUFFICES ASSUME NEW p \in Pids PROVE seenBirth[p] <= birth'[p]
      BY <2>2
    <3>1. seenBirth[p] <= birth[p] /\ birth[p] <= birth'[p]
      BY <1>1 DEF Ages, BirthInv
    <3>2. QED
      BY <2>1, <3>1
  <2>3. CASE phase = "plan" /\ \E p \in Pids : ScanPid(p)
    <3>1. UNCHANGED birth
      BY <2>3 DEF ScanPid, hostVars
    <3>2. PICK p \in Pids : seenBirth' = seenBirth
                              \/ seenBirth' = [seenBirth EXCEPT ![p] = birth[p]]
      BY <2>3 DEF ScanPid
    <3>3. QED
      BY <2>1, <3>1, <3>2 DEF BirthInv, TypeOK
  <2>4. QED
    BY <2>2, <2>3, SeenBirthOrScan
<1>3. QED
  BY <1>1, <1>2 DEF BirthInv

(* No step of the command or of the host gives a PID back to an earlier    *)
(* process, or moves a living process to another service.                  *)
THEOREM BirthsGrow == Spec => [][\A p \in Pids : Ages(p)]_vars
BY TypeInit, TypeNext, BirthInit, BirthNext, PTL DEF Spec

-----------------------------------------------------------------------------
(* A service is stopped only for its own processes. *)

\* A unit that was read belongs to the process the PID named in the plan, or
\* to a later one.
UnitInv ==
  /\ pc \in {"dump", "scan"} => \A p \in Pids : units[p] = NoUnit
  /\ \A p \in Pids :
       (units[p] # NoUnit /\ birth[p] = seenBirth[p]) => unitOf[p] = units[p]

\* There is no plan before it was shown; the service path has one with a unit.
PlanUnitInv ==
  /\ (phase = "plan" /\ pc \in {"dump", "scan", "inspect"}) => plan.unit = NoUnit
  /\ (pc = "confirmStop" \/ phase = "svcCheck") => plan.unit # NoUnit
  /\ plan.unit # NoUnit =>
       \A p \in OwnerPids(plan) : birth[p] = seenBirth[p] => unitOf[p] = plan.unit

LEMMA UnitInit == Init => UnitInv /\ PlanUnitInv
BY DEF Init, UnitInv, PlanUnitInv, NoPlan

(* A PID that still names the process it named in the plan after a step    *)
(* did so before the step, and is in the same service.                     *)
LEMMA KeptUnit ==
  ASSUME TypeOK, BirthInv, [Next]_vars, UNCHANGED seenBirth,
         NEW p \in Pids, birth'[p] = seenBirth'[p]
  PROVE  birth[p] = seenBirth[p] /\ unitOf'[p] = unitOf[p]
<1>1. Ages(p) /\ seenBirth[p] <= birth[p]
  BY BirthNext DEF BirthInv
<1>2. seenBirth[p] \in Nat /\ birth[p] \in Nat /\ birth'[p] \in Nat
  BY TypeNext, HostAssumption DEF TypeOK, HostTypeOK
<1>3. QED
  BY <1>1, <1>2 DEF Ages

(* Steps that read no unit and make no plan. *)
LEMMA UnitFrame ==
  ASSUME TypeOK, BirthInv, UnitInv, PlanUnitInv, [Next]_vars,
         UNCHANGED <<units, plan, seenBirth>>,
         pc' \in {"dump", "scan"} => pc \in {"dump", "scan"},
         (phase' = "plan" /\ pc' \in {"dump", "scan", "inspect"}) =>
           (phase = "plan" /\ pc \in {"dump", "scan", "inspect"}),
         (pc' = "confirmStop" \/ phase' = "svcCheck") =>
           (pc = "confirmStop" \/ phase = "svcCheck")
  PROVE  UnitInv' /\ PlanUnitInv'
<1>1. UnitInv'
  <2>1. pc' \in {"dump", "scan"} => \A p \in Pids : units'[p] = NoUnit
    BY DEF UnitInv
  <2>2. ASSUME NEW p \in Pids, units'[p] # NoUnit, birth'[p] = seenBirth'[p]
        PROVE  unitOf'[p] = units'[p]
    BY <2>2, KeptUnit DEF UnitInv
  <2>3. QED
    BY <2>1, <2>2 DEF UnitInv
<1>2. PlanUnitInv'
  <2>1. ASSUME plan.unit # NoUnit, NEW p \in OwnerPids(plan),
               birth'[p] = seenBirth'[p]
        PROVE  unitOf'[p] = plan.unit
    <3>1. p \in Pids
      BY DEF OwnerPids
    <3>2. QED
      BY <2>1, <3>1, KeptUnit DEF PlanUnitInv
  <2>2. OwnerPids(plan)' = OwnerPids(plan)
    BY DEF OwnerPids
  <2>3. QED
    BY <2>1, <2>2 DEF PlanUnitInv
<1>3. QED
  BY <1>1, <1>2

(* A call of prepareRelease() after the plan was made. *)
LEMMA UnitObserve ==
  ASSUME TypeOK, BirthInv, UnitInv, PlanUnitInv, [Next]_vars,
         NEW ph, Observe(ph), UNCHANGED <<plan, seenBirth>>,
         ph # "plan", ph = "svcCheck" => pc = "confirmStop"
  PROVE  UnitInv' /\ PlanUnitInv'
<1>1. UnitInv'
  BY DEF Observe, UnitInv
<1>2. PlanUnitInv'
  <2>1. ASSUME plan.unit # NoUnit, NEW p \in OwnerPids(plan),
               birth'[p] = seenBirth'[p]
        PROVE  unitOf'[p] = plan.unit
    <3>1. p \in Pids
      BY DEF OwnerPids
    <3>2. QED
      BY <2>1, <3>1, KeptUnit DEF PlanUnitInv
  <2>2. OwnerPids(plan)' = OwnerPids(plan)
    BY DEF OwnerPids
  <2>3. QED
    BY <2>1, <2>2 DEF Observe, PlanUnitInv
<1>3. QED
  BY <1>1, <1>2

LEMMA UnitNext ==
  ASSUME TypeOK, OrderInv, BirthInv, UnitInv, PlanUnitInv, [Next]_vars
  PROVE  UnitInv' /\ PlanUnitInv'
<1>. USE DEF lookVars, planVars
<1>1. ASSUME NEW k \in Kinds, Dump(k) PROVE UnitInv' /\ PlanUnitInv'
  BY <1>1, UnitFrame DEF Dump, Finish
<1>2. ASSUME NEW p \in Pids, ScanPid(p) PROVE UnitInv' /\ PlanUnitInv'
  <2>1. /\ pc = "scan" /\ pc' \in {"scan", "inspect"}
        /\ UNCHANGED <<phase, units, plan>>
    BY <1>2 DEF ScanPid, EndScan
  <2>2. CASE UNCHANGED seenBirth
    BY <2>1, <2>2, UnitFrame
  <2>3. CASE phase = "plan"
    BY <2>1, <2>3 DEF UnitInv, PlanUnitInv
  <2>4. QED
    BY <1>2, <2>2, <2>3 DEF ScanPid
<1>3. CASE ScanCut
  BY <1>3, UnitFrame DEF ScanCut, EndScan
<1>4. CASE ScanFails
  BY <1>4, UnitFrame DEF ScanFails, Finish
<1>5. ASSUME NEW p \in Pids, Inspect(p) PROVE UnitInv' /\ PlanUnitInv'
  <2>1. CASE UNCHANGED units
    BY <1>5, <2>1, UnitFrame DEF Inspect
  <2>2. CASE units' = [units EXCEPT ![p] = unitOf[p]]
    <3>1. /\ pc = "inspect" /\ UNCHANGED <<pc, phase, plan, seenBirth>>
          /\ UNCHANGED <<birth, unitOf>>
      BY <1>5 DEF Inspect, hostVars
    <3>2. UnitInv'
      BY <2>2, <3>1 DEF UnitInv, TypeOK
    <3>3. PlanUnitInv'
      BY <3>1 DEF PlanUnitInv, OwnerPids
    <3>4. QED
      BY <3>2, <3>3
  <2>3. QED
    BY <1>5, <2>1, <2>2 DEF Inspect
<1>6. CASE InspectThrows
  BY <1>6, UnitFrame DEF InspectThrows, Finish
<1>7. CASE PlanReady
  <2>1. CASE PrepareCode(Current) # "ok"
    BY <1>7, <2>1, UnitFrame DEF PlanReady, Finish
  <2>2. CASE PrepareCode(Current) = "ok"
    <3>1. /\ plan' = Current /\ phase = "plan"
          /\ pc' = IF Current.unit # NoUnit THEN "confirmStop" ELSE "confirmTerm"
          /\ UNCHANGED <<phase, units, seenBirth>>
          /\ UNCHANGED <<birth, unitOf>>
      BY <1>7, <2>2 DEF PlanReady, Observed, hostVars
    <3>2. UnitInv'
      BY <3>1 DEF UnitInv
    <3>3. ASSUME Current.unit # NoUnit, NEW p \in OwnerPids(Current),
                 birth[p] = seenBirth[p]
          PROVE  unitOf[p] = Current.unit
      <4>1. p \in Pids /\ p \in {x \in Pids : \E i \in listed : x \in owners[i]}
        BY <3>3 DEF OwnerPids, Current
      <4>2. units[p] = Current.unit
        BY <3>3, <4>1, CommonUnitFound DEF Current
      <4>3. QED
        BY <3>3, <4>1, <4>2 DEF UnitInv
    <3>4. OwnerPids(plan)' = OwnerPids(Current)
      BY <3>1 DEF OwnerPids
    <3>5. PlanUnitInv'
      BY <3>1, <3>3, <3>4 DEF PlanUnitInv
    <3>6. QED
      BY <3>2, <3>5
  <2>3. QED
    BY <2>1, <2>2
<1>8. ASSUME NEW q \in Prompts, NEW d, NEW ph, Ask(q, d, ph), ph # "plan",
             ph = "svcCheck" => q = "confirmStop"
      PROVE  UnitInv' /\ PlanUnitInv'
  <2>1. pc = q /\ UNCHANGED <<plan, seenBirth>>
    BY <1>8 DEF Ask
  <2>2. CASE Observe(ph)
    BY <1>8, <2>1, <2>2, UnitObserve
  <2>3. CASE Finish("Cancelled") /\ UNCHANGED <<phase, lookVars, before>>
    BY <2>1, <2>3, UnitFrame DEF Finish
  <2>4. QED
    BY <1>8, <2>2, <2>3 DEF Ask
<1>9. ASSUME NEW ph, NEW verdict, NEW g, NEW t, Recheck(ph, verdict, g, t),
             g \in {"stopUnit", "signal"}
      PROVE  UnitInv' /\ PlanUnitInv'
  BY <1>9, UnitFrame DEF Recheck, Finish
<1>10. CASE StopUnit
  <2>1. UNCHANGED <<plan, seenBirth>>
    BY <1>10 DEF StopUnit
  <2>2. CASE Observe("svcPoll")
    BY <2>1, <2>2, UnitObserve
  <2>3. CASE /\ \E e \in CallErrors \cup OpenErrors : Finish(e)
             /\ UNCHANGED <<phase, lookVars, before>>
    BY <2>1, <2>3, UnitFrame DEF Finish
  <2>4. QED
    BY <1>10, <2>2, <2>3 DEF StopUnit
<1>11. CASE SvcPoll
  <2>1. UNCHANGED <<plan, seenBirth>>
    BY <1>11 DEF SvcPoll, PollUntil
  <2>2. CASE Observe("svcPoll")
    BY <2>1, <2>2, UnitObserve
  <2>3. CASE pc' = "done" /\ UNCHANGED <<phase, lookVars, before>>
    BY <2>1, <2>3, UnitFrame
  <2>4. QED
    BY <1>11, <2>2, <2>3 DEF SvcPoll, PollUntil, Finish
<1>12. ASSUME NEW p \in Pids, Signal(p) PROVE UnitInv' /\ PlanUnitInv'
  BY <1>12, UnitFrame DEF Signal, Finish
<1>13. ASSUME NEW p \in Pids, Wait(p) PROVE UnitInv' /\ PlanUnitInv'
  <2>1. UNCHANGED <<plan, seenBirth>>
    BY <1>13 DEF Wait
  <2>2. CASE \E ph \in {"termAfter", "forceAfter"} : Observe(ph)
    BY <2>1, <2>2, UnitObserve
  <2>3. CASE UNCHANGED <<pc, phase, lookVars, before>>
    BY <2>1, <2>3, UnitFrame
  <2>4. QED
    BY <1>13, <2>2, <2>3 DEF Wait
<1>14. CASE WaitFails
  BY <1>14, UnitFrame DEF WaitFails, Finish
<1>15. CASE TermAfter
  BY <1>15, UnitFrame DEF TermAfter, Finish
<1>16. CASE ForceAfter
  BY <1>16, UnitFrame DEF ForceAfter, Finish
<1>17. CASE Tick \/ Environment \/ UNCHANGED vars
  BY <1>17, UnitFrame DEF Tick, Environment, vars, lxVars
<1>18. QED
  BY <1>1, <1>2, <1>3, <1>4, <1>5, <1>6, <1>7, <1>8, <1>9, <1>10, <1>11,
     <1>12, <1>13, <1>14, <1>15, <1>16, <1>17
     DEF Next, Lx, Look, Act, Decide, User, Done, SvcCheck, TermCheck,
         ForceCheck, ConfirmStop, ConfirmTerm, ConfirmKill, Prompts

(* StopUnit is called for a service that every owner shown in the plan     *)
(* belongs to, unless its PID meanwhile names another process: the units   *)
(* are read one by one and after the owners, yet none of them can be that  *)
(* of an earlier process.                                                  *)
THEOREM StopsCommonUnit == Spec => []StopsOnlyCommonUnit
<1>1. TypeOK /\ OrderInv /\ PlanUnitInv => StopsOnlyCommonUnit
  <2> SUFFICES ASSUME TypeOK, OrderInv, PlanUnitInv, pc = "stopUnit"
               PROVE  /\ plan.unit \in Units
                      /\ \A p \in OwnerPids(plan) :
                           birth[p] = seenBirth[p] => unitOf[p] = plan.unit
    BY DEF StopsOnlyCommonUnit
  <2>1. plan.unit # NoUnit
    BY DEF OrderInv, PositionInv, PlanUnitInv
  <2>2. QED
    BY <2>1 DEF PlanUnitInv, TypeOK, Plan
<1>2. QED
  BY <1>1, TypeInit, TypeNext, OrderInit, OrderNext, BirthInit, BirthNext,
     UnitInit, UnitNext, PTL DEF Spec

-----------------------------------------------------------------------------
(* SIGKILL is offered early only for other processes than the plan's. *)

\* The process that bore p when the plan was made is no longer alive.
Gone(p) == p \in alive => seenBirth[p] < birth[p]

\* What waitForExit() has learnt.  A handle is never of an earlier process
\* than the plan's; while time is left, whoever was waited for is gone, and
\* an owner found afterwards is another process.
HandleInv ==
  pc = "wait" => \A p \in Pids : seenBirth[p] <= handle[p] /\ handle[p] <= birth[p]

WaitedInv ==
  (pc = "wait" /\ phase = "termCheck" /\ clock < Grace) =>
    \A p \in OwnerPids(plan) \ todo : Gone(p)

AfterInv ==
  (phase = "termAfter" /\ clock < Grace) =>
    \A p \in OwnerPids(plan) :
      /\ Gone(p)
      /\ (\E i \in Inodes : p \in owners[i]) => seenBirth[p] < birth[p]
      /\ (pc = "confirmKill" /\ p \in OwnerPids(remaining)) =>
           seenBirth[p] < birth[p]

GraceInv == HandleInv /\ WaitedInv /\ AfterInv

LEMMA GraceInit == Init => GraceInv
BY DEF Init, GraceInv, HandleInv, WaitedInv, AfterInv

(* Outside the making of the plan, the PIDs' processes are numbers that    *)
(* only grow, and the process that was seen stays the same.                *)
LEMMA LaterBirth ==
  ASSUME TypeOK, BirthInv, [Next]_vars, NEW p \in Pids, UNCHANGED seenBirth
  PROVE  /\ seenBirth[p] \in Nat /\ birth[p] \in Nat /\ birth'[p] \in Nat
         /\ handle[p] \in Nat
         /\ birth[p] <= birth'[p]
         /\ seenBirth[p] <= birth[p]
         /\ seenBirth[p] < birth[p] => seenBirth'[p] < birth'[p]
         /\ Gone(p) => Gone(p)'
<1>1. /\ seenBirth[p] \in Nat /\ birth[p] \in Nat /\ birth'[p] \in Nat
      /\ handle[p] \in Nat
  BY TypeNext, HostAssumption DEF TypeOK, HostTypeOK
<1>2. /\ birth[p] <= birth'[p]
      /\ seenBirth[p] <= birth[p]
      /\ birth'[p] = birth[p] => (p \in alive' => p \in alive)
  BY BirthNext DEF Ages, BirthInv
<1>3. seenBirth[p] < birth[p] => seenBirth'[p] < birth'[p]
  BY <1>1, <1>2
<1>4. Gone(p) => Gone(p)'
  BY <1>1, <1>2, <1>3 DEF Gone
<1>5. QED
  BY <1>1, <1>2, <1>3, <1>4

(* A step that is not one of waiting or of finding owners. *)
LEMMA GraceFrame ==
  ASSUME TypeOK, BirthInv, GraceInv, [Next]_vars,
         UNCHANGED <<phase, plan, seenBirth, clock>>,
         pc' # "wait" \/ UNCHANGED <<pc, todo, handle>>,
         phase # "termAfter" \/ UNCHANGED owners,
         pc' # "confirmKill" \/ UNCHANGED <<pc, remaining>>
  PROVE  GraceInv'
<1>1. HandleInv'
  <2> SUFFICES ASSUME pc' = "wait", NEW p \in Pids
               PROVE  seenBirth'[p] <= handle'[p] /\ handle'[p] <= birth'[p]
    BY DEF HandleInv
  <2>1. seenBirth[p] <= handle[p] /\ handle[p] <= birth[p]
    BY DEF GraceInv, HandleInv
  <2>2. QED
    BY <2>1, LaterBirth
<1>2. OwnerPids(plan)' = OwnerPids(plan) /\ OwnerPids(plan) \subseteq Pids
  BY DEF OwnerPids
<1>3. WaitedInv'
  <2> SUFFICES ASSUME pc' = "wait", phase = "termCheck", clock < Grace,
                      NEW p \in OwnerPids(plan) \ todo
               PROVE  Gone(p)'
    BY <1>2 DEF WaitedInv
  <2>1. QED
    BY <1>2, LaterBirth DEF GraceInv, WaitedInv
<1>4. AfterInv'
  <2> SUFFICES ASSUME phase = "termAfter", clock < Grace, NEW p \in OwnerPids(plan)
               PROVE  /\ Gone(p)'
                      /\ (\E i \in Inodes : p \in owners[i]) =>
                           seenBirth'[p] < birth'[p]
                      /\ (pc' = "confirmKill" /\ p \in OwnerPids(remaining)') =>
                           seenBirth'[p] < birth'[p]
    BY <1>2 DEF AfterInv
  <2>1. /\ Gone(p)
        /\ (\E i \in Inodes : p \in owners[i]) => seenBirth[p] < birth[p]
        /\ (pc = "confirmKill" /\ p \in OwnerPids(remaining)) =>
             seenBirth[p] < birth[p]
    BY DEF GraceInv, AfterInv
  <2>2. pc' = "confirmKill" =>
          pc = "confirmKill" /\ OwnerPids(remaining)' = OwnerPids(remaining)
    BY DEF OwnerPids
  <2>3. QED
    BY <1>2, <2>1, <2>2, LaterBirth
<1>5. QED
  BY <1>1, <1>3, <1>4 DEF GraceInv

(* A call of prepareRelease() other than the one after the wait. *)
LEMMA GraceObserve ==
  ASSUME NEW ph, Observe(ph), ph # "termAfter"
  PROVE  GraceInv'
BY DEF Observe, GraceInv, HandleInv, WaitedInv, AfterInv

LEMMA GraceNext ==
  ASSUME TypeOK, OrderInv, BirthInv, GraceInv, [Next]_vars
  PROVE  GraceInv'
<1>. USE DEF lookVars, planVars, timeVars
<1>1. ASSUME NEW k \in Kinds, Dump(k) PROVE GraceInv'
  BY <1>1, GraceFrame DEF Dump, Finish
<1>2. ASSUME NEW p \in Pids, ScanPid(p) PROVE GraceInv'
  <2>1. /\ pc = "scan" /\ pc' \in {"scan", "inspect"}
        /\ UNCHANGED <<phase, plan, remaining, clock, hostVars>>
    BY <1>2 DEF ScanPid, EndScan
  <2>2. CASE phase # "termAfter"
    BY <2>1, <2>2 DEF GraceInv, HandleInv, WaitedInv, AfterInv
  <2>3. CASE phase = "termAfter"
    <3>1. UNCHANGED seenBirth
      BY <1>2, <2>3 DEF ScanPid
    <3>2. ASSUME NEW x \in Pids, NEW i \in Inodes, x \in owners'[i]
          PROVE  x \in owners[i] \/ x \in alive
      <4>1. PICK seen \in SUBSET {j \in listed : p \in holders[j]} :
              owners' = [j \in Inodes |->
                           IF j \in seen THEN owners[j] \cup {p} ELSE owners[j]]
        BY <1>2 DEF ScanPid
      <4>2. x \in owners[i] \/ (x = p /\ p \in holders[i])
        BY <3>2, <4>1
      <4>3. QED
        BY <4>2 DEF BirthInv
    <3>3. ASSUME clock < Grace, NEW x \in OwnerPids(plan)
          PROVE  /\ Gone(x)'
                 /\ (\E i \in Inodes : x \in owners'[i]) =>
                      seenBirth'[x] < birth'[x]
      <4>1. x \in Pids
        BY <3>3 DEF OwnerPids
      <4>2. /\ Gone(x)
            /\ (\E i \in Inodes : x \in owners[i]) => seenBirth[x] < birth[x]
        BY <2>3, <3>3 DEF GraceInv, AfterInv
      <4>3. UNCHANGED <<birth, alive>>
        BY <2>1 DEF hostVars
      <4>4. QED
        BY <3>1, <3>2, <4>1, <4>2, <4>3 DEF Gone
    <3>4. OwnerPids(plan)' = OwnerPids(plan)
      BY <2>1 DEF OwnerPids
    <3>5. QED
      BY <2>1, <2>3, <3>3, <3>4 DEF GraceInv, HandleInv, WaitedInv, AfterInv
  <2>4. QED
    BY <2>2, <2>3
<1>3. CASE ScanCut
  BY <1>3, GraceFrame DEF ScanCut, EndScan
<1>4. CASE ScanFails
  BY <1>4, GraceFrame DEF ScanFails, Finish
<1>5. ASSUME NEW p \in Pids, Inspect(p) PROVE GraceInv'
  BY <1>5, GraceFrame DEF Inspect
<1>6. CASE InspectThrows
  BY <1>6, GraceFrame DEF InspectThrows, Finish
<1>7. CASE PlanReady
  <2>1. /\ phase' = "plan" /\ pc' \notin {"wait", "confirmKill"}
    BY <1>7 DEF PlanReady, Observed, Finish
  <2>2. QED
    BY <2>1 DEF GraceInv, HandleInv, WaitedInv, AfterInv
<1>8. ASSUME NEW q \in Prompts, NEW d, NEW ph, Ask(q, d, ph), ph # "termAfter"
      PROVE  GraceInv'
  <2>1. CASE Observe(ph)
    BY <1>8, <2>1, GraceObserve
  <2>2. CASE Finish("Cancelled") /\ UNCHANGED <<phase, lookVars, before>>
    BY <1>8, <2>2, GraceFrame DEF Ask, Finish
  <2>3. QED
    BY <1>8, <2>1, <2>2 DEF Ask
<1>9. ASSUME NEW ph, NEW verdict, NEW g, NEW t, Recheck(ph, verdict, g, t),
             g \in {"stopUnit", "signal"}
      PROVE  GraceInv'
  BY <1>9, GraceFrame DEF Recheck, Finish
<1>10. CASE StopUnit
  <2>1. CASE Observe("svcPoll")
    BY <2>1, GraceObserve
  <2>2. CASE /\ \E e \in CallErrors \cup OpenErrors : Finish(e)
             /\ UNCHANGED <<phase, lookVars, before, timeVars>>
    BY <1>10, <2>2, GraceFrame DEF StopUnit, Finish
  <2>3. QED
    BY <1>10, <2>1, <2>2 DEF StopUnit
<1>11. CASE SvcPoll
  <2>1. CASE Observe("svcPoll")
    BY <2>1, GraceObserve
  <2>2. CASE pc' = "done" /\ UNCHANGED <<phase, lookVars, before>>
    BY <1>11, <2>2, GraceFrame DEF SvcPoll, PollUntil
  <2>3. QED
    BY <1>11, <2>1, <2>2 DEF SvcPoll, PollUntil, Finish
<1>12. ASSUME NEW p \in Pids, Signal(p) PROVE GraceInv'
  <2>1. /\ pc = "signal" /\ phase \in {"termCheck", "forceCheck"}
        /\ UNCHANGED <<hostVars, phase, plan, remaining, seenBirth, owners>>
    BY <1>12 DEF Signal, OrderInv, PositionInv
  <2>2. CASE pc' # "wait"
    BY <2>1, <2>2 DEF GraceInv, HandleInv, WaitedInv, AfterInv
  <2>3. CASE pc' = "wait"
    <3>1. todo' = OwnerPids(Target) /\ handle' = birth
      BY <1>12, <2>1, <2>3 DEF Signal, Finish
    <3>2. HandleInv'
      <4>1. \A x \in Pids : seenBirth[x] <= birth[x] /\ birth[x] <= birth[x]
        BY <2>1, LaterBirth DEF hostVars
      <4>2. QED
        BY <2>1, <3>1, <4>1 DEF HandleInv, hostVars
    <3>3. WaitedInv'
      BY <2>1, <3>1 DEF WaitedInv, Target, OwnerPids
    <3>4. AfterInv'
      BY <2>1 DEF AfterInv
    <3>5. QED
      BY <3>2, <3>3, <3>4 DEF GraceInv
  <2>4. QED
    BY <2>2, <2>3
<1>13. ASSUME NEW p \in Pids, Wait(p) PROVE GraceInv'
  <2>1. /\ pc = "wait" /\ phase \in {"termCheck", "forceCheck"}
        /\ p \notin alive \/ birth[p] # handle[p] \/ clock >= Grace
        /\ todo' = todo \ {p} /\ handle' = birth
        /\ UNCHANGED <<hostVars, plan, clock, seenBirth>>
    BY <1>13 DEF Wait, OrderInv, PositionInv
  <2>2. UNCHANGED <<alive, birth>> /\ OwnerPids(plan)' = OwnerPids(plan)
    BY <2>1 DEF hostVars, OwnerPids
  <2>3. \A x \in Pids : /\ seenBirth[x] <= birth[x] /\ birth[x] <= birth[x]
                        /\ Gone(x) => Gone(x)'
    BY <2>1, LaterBirth
  <2>4. clock < Grace => Gone(p)
    <3>1. /\ seenBirth[p] <= handle[p] /\ handle[p] <= birth[p]
          /\ seenBirth[p] \in Nat /\ handle[p] \in Nat /\ birth[p] \in Nat
      BY <2>1, LaterBirth DEF GraceInv, HandleInv
    <3>2. clock \in Nat /\ Grace \in Nat
      BY ReleaseAssumption DEF TypeOK
    <3>3. QED
      BY <2>1, <3>1, <3>2 DEF Gone
  <2>5. (phase = "termCheck" /\ clock < Grace) =>
          \A x \in OwnerPids(plan) \ todo' : Gone(x)'
    <3>1. OwnerPids(plan) \subseteq Pids
      BY DEF OwnerPids
    <3>2. QED
      BY <2>1, <2>3, <2>4, <3>1 DEF GraceInv, WaitedInv
  <2>6. CASE todo # {p}
    <3>1. UNCHANGED <<pc, phase>>
      BY <1>13, <2>6 DEF Wait
    <3>2. QED
      BY <2>1, <2>2, <2>3, <2>5, <3>1 DEF GraceInv, HandleInv, WaitedInv, AfterInv
  <2>7. CASE todo = {p}
    <3>1. /\ pc' = "dump" /\ todo' = {} /\ owners' = [i \in Inodes |-> {}]
          /\ phase' = IF phase = "termCheck" THEN "termAfter" ELSE "forceAfter"
      BY <1>13, <2>1, <2>7 DEF Wait, Observe
    <3>2. AfterInv'
      BY <2>1, <2>2, <2>5, <3>1 DEF AfterInv
    <3>3. QED
      BY <3>1, <3>2 DEF GraceInv, HandleInv, WaitedInv
  <2>8. QED
    BY <2>6, <2>7
<1>14. CASE WaitFails
  BY <1>14, GraceFrame DEF WaitFails, Finish
<1>15. CASE TermAfter
  <2>1. CASE pc' # "confirmKill"
    BY <1>15, <2>1, GraceFrame DEF TermAfter, Finish
  <2>2. CASE pc' = "confirmKill"
    <3>1. /\ remaining' = Current /\ phase = "termAfter"
          /\ UNCHANGED <<phase, plan, clock, owners, seenBirth, hostVars>>
      BY <1>15, <2>2 DEF TermAfter, Observed, Finish
    <3>2. UNCHANGED <<alive, birth>> /\ OwnerPids(plan)' = OwnerPids(plan)
      BY <3>1 DEF hostVars, OwnerPids
    <3>3. \A p \in OwnerPids(remaining)' : \E i \in Inodes : p \in owners[i]
      BY <3>1 DEF OwnerPids, Current, TypeOK
    <3>4. AfterInv'
      BY <3>1, <3>2, <3>3 DEF GraceInv, AfterInv, Gone
    <3>5. QED
      BY <2>2, <3>4 DEF GraceInv, HandleInv, WaitedInv
  <2>3. QED
    BY <2>1, <2>2
<1>16. CASE ForceAfter
  BY <1>16, GraceFrame DEF ForceAfter, Finish
<1>17. CASE Tick
  <2>1. /\ pc = "wait" \/ phase = "svcPoll"
        /\ clock' = clock + 1
        /\ UNCHANGED <<hostVars, pc, phase, plan, todo, handle, seenBirth>>
    BY <1>17 DEF Tick
  <2>2. clock \in Nat /\ Grace \in Nat
    BY ReleaseAssumption DEF TypeOK
  <2>3. clock' < Grace => clock < Grace
    BY <2>1, <2>2
  <2>4. HandleInv'
    BY <2>1 DEF GraceInv, HandleInv, hostVars
  <2>5. WaitedInv'
    BY <2>1, <2>3 DEF GraceInv, WaitedInv, Gone, OwnerPids, hostVars
  <2>6. AfterInv'
    BY <2>1 DEF AfterInv, OrderInv, PositionInv
  <2>7. QED
    BY <2>4, <2>5, <2>6 DEF GraceInv
<1>18. CASE Environment \/ UNCHANGED vars
  BY <1>18, GraceFrame DEF Environment, vars, lxVars
<1>19. QED
  BY <1>1, <1>2, <1>3, <1>4, <1>5, <1>6, <1>7, <1>8, <1>9, <1>10, <1>11,
     <1>12, <1>13, <1>14, <1>15, <1>16, <1>17, <1>18
     DEF Next, Lx, Look, Act, Decide, User, Done, SvcCheck, TermCheck,
         ForceCheck, ConfirmStop, ConfirmTerm, ConfirmKill, Prompts

(* SIGKILL is offered before the grace period is over only when no process *)
(* of the plan is left: whoever holds the port then bears the PID of one.  *)
THEOREM NoEarlyKill == Spec => []GraceBeforeKill
<1>1. TypeOK /\ OrderInv /\ BirthInv /\ GraceInv => GraceBeforeKill
  <2> SUFFICES ASSUME TypeOK, OrderInv, BirthInv, GraceInv, pc = "confirmKill",
                      clock < Grace, NEW p \in OwnerPids(remaining)
               PROVE  birth[p] # seenBirth[p]
    BY DEF GraceBeforeKill
  <2>1. phase = "termAfter" /\ p \in OwnerPids(plan)
    BY RemainingOwners DEF OrderInv, PositionInv, TargetInv
  <2>2. seenBirth[p] < birth[p]
    BY <2>1 DEF GraceInv, AfterInv
  <2>3. /\ p \in Pids
        /\ seenBirth \in [Pids -> 0..MaxBirth] /\ birth \in [Pids -> 0..MaxBirth]
    BY DEF OwnerPids, TypeOK, HostTypeOK
  <2>4. seenBirth[p] \in Nat /\ birth[p] \in Nat
    BY <2>3, HostAssumption
  <2>5. QED
    BY <2>2, <2>4
<1>2. QED
  BY <1>1, TypeInit, TypeNext, OrderInit, OrderNext, BirthInit, BirthNext,
     GraceInit, GraceNext, PTL DEF Spec

-----------------------------------------------------------------------------
(* The contract: what the plan, the answers and the signals are at each    *)
(* position of the command, exactly.                                       *)

Looking == {"dump", "scan", "inspect"}

PlanInv ==
  /\ pc # "done" => outcome = "none"
  /\ (phase = "plan" /\ pc \notin {"confirmStop", "confirmTerm", "done"}) =>
       plan = NoPlan
  /\ (pc \in Prompts \/ phase # "plan") => OwnerPids(plan) # {}
  /\ pc = "confirmStop" => plan.unit # NoUnit
  /\ pc = "confirmTerm" => plan.unit = NoUnit

AgreedInv ==
  pc # "done" =>
    /\ phase = "plan" => AgreedTo = {}
    /\ phase \in {"svcCheck", "svcPoll"} => AgreedTo = {"confirmStop"}
    /\ phase \in {"termCheck", "termAfter"} => AgreedTo = {"confirmTerm"}
    /\ phase \in ForcePhases => AgreedTo = {"confirmTerm", "confirmKill"}

SentInv ==
  pc # "done" =>
    /\ phase = "svcCheck" => stops = {}
    /\ phase = "svcPoll" => stops # {}
    /\ (phase = "termCheck" /\ pc \in Looking) => signals = {}
    /\ (phase = "termCheck" /\ pc = "signal") =>
         SentTo("TERM") = OwnerPids(plan) \ todo
    /\ (phase = "forceCheck" /\ pc \in Looking) => SentTo("KILL") = {}
    /\ (phase = "forceCheck" /\ pc = "signal") =>
         /\ SentTo("KILL") = OwnerPids(remaining) \ todo
         /\ \A r \in SentTo("KILL"), x \in todo : r < x
    /\ (phase = "forceAfter" \/ (phase = "forceCheck" /\ pc = "wait")) =>
         SentTo("KILL") # {}

PromiseInv == PlanInv /\ AgreedInv /\ SentInv

LEMMA PromiseInit == Init => PromiseInv
<1> SUFFICES ASSUME Init PROVE PromiseInv
  OBVIOUS
<1>1. AgreedTo = {}
  BY DEF Init, AgreedTo, Prompts
<1>2. QED
  BY <1>1 DEF Init, PromiseInv, PlanInv, AgreedInv, SentInv, Prompts, ForcePhases

(* An operation that was asked for takes an observation for a free port,   *)
(* for one of two errors, or for one that fits.                            *)
LEMMA VerdictWords ==
  ASSUME NEW fits
  PROVE  Verdict(fits) \in {"ok", "Released", "PermissionDenied", "Conflict"}
BY DEF Verdict, PrepareCode

(* A plan that may be acted on names somebody, and nobody protected. *)
LEMMA PlanNames ==
  ASSUME NEW pl \in Plan, PrepareCode(pl) = "ok"
  PROVE  OwnerPids(pl) # {} /\ OwnerPids(pl) \cap {1, Self} = {}
<1>1. PICK i \in pl.listed : pl.owners[i] # {}
  BY DEF PrepareCode
<1>2. i \in Inodes /\ pl.owners[i] \subseteq Pids
  BY <1>1 DEF Plan
<1>3. OwnerPids(pl) # {}
  BY <1>1, <1>2 DEF OwnerPids
<1>4. \A p \in OwnerPids(pl) : ValidateSignalTarget(p)
  BY DEF PrepareCode
<1>5. QED
  BY <1>3, <1>4 DEF ValidateSignalTarget

(* What an answer agrees to: Confirm() and the prompt's default. *)
LEMMA AnswerAgrees ==
  ASSUME TypeOK, NEW q \in Prompts, NEW a \in Answers,
         answers' = [answers EXCEPT ![q] = a], q \notin AgreedTo
  PROVE  /\ Confirm(a, q # "confirmKill") => AgreedTo' = AgreedTo \cup {q}
         /\ ~Confirm(a, q # "confirmKill") => AgreedTo' = AgreedTo
<1>1. /\ answers'[q] = a
      /\ \A r \in Prompts : r # q => answers'[r] = answers[r]
  BY DEF TypeOK
<1>2. q \in AgreedTo' <=> Confirm(a, q # "confirmKill")
  BY <1>1 DEF AgreedTo, Confirm
<1>3. \A r \in Prompts : r # q => (r \in AgreedTo' <=> r \in AgreedTo)
  BY <1>1 DEF AgreedTo
<1>4. AgreedTo \subseteq Prompts /\ AgreedTo' \subseteq Prompts
  BY DEF AgreedTo
<1>5. QED
  BY <1>2, <1>3, <1>4

(* The end of the command; a step within an observation. *)
LEMMA PromiseDone ==
  ASSUME PromiseInv, pc' = "done", UNCHANGED <<phase, plan>>
  PROVE  PromiseInv'
BY DEF PromiseInv, PlanInv, AgreedInv, SentInv, Prompts, OwnerPids

LEMMA PromiseFrame ==
  ASSUME PromiseInv, pc \in Looking, pc' \in Looking,
         UNCHANGED <<phase, plan, answers, signals, stops, outcome>>
  PROVE  PromiseInv'
<1>1. AgreedTo' = AgreedTo
  BY DEF AgreedTo
<1>2. SentTo("TERM")' = SentTo("TERM") /\ SentTo("KILL")' = SentTo("KILL")
  BY DEF SentTo
<1>3. OwnerPids(plan)' = OwnerPids(plan)
  BY DEF OwnerPids
<1>4. PlanInv'
  BY <1>3 DEF PromiseInv, PlanInv, Looking, Prompts
<1>5. AgreedInv'
  BY <1>1 DEF PromiseInv, AgreedInv, Looking
<1>6. SentInv'
  BY <1>2 DEF PromiseInv, SentInv, Looking
<1>7. QED
  BY <1>4, <1>5, <1>6 DEF PromiseInv

LEMMA PromiseStill ==
  ASSUME PromiseInv,
         UNCHANGED <<pc, phase, plan, remaining, todo, answers, signals, stops, outcome>>
  PROVE  PromiseInv'
BY DEF PromiseInv, PlanInv, AgreedInv, SentInv, AgreedTo, SentTo, OwnerPids

(* A prompt is answered: the command goes on with the consent, or ends. *)
LEMMA AskStep ==
  ASSUME TypeOK, NEW q \in Prompts, NEW d \in BOOLEAN, d <=> q # "confirmKill",
         NEW ph, Ask(q, d, ph), q \notin AgreedTo
  PROVE  /\ UNCHANGED <<plan, remaining, signals, stops>>
         /\ \/ /\ pc' = "done" /\ outcome' = "Cancelled"
               /\ phase' = phase /\ AgreedTo' = AgreedTo
            \/ /\ pc' = "dump" /\ outcome' = outcome
               /\ phase' = ph /\ AgreedTo' = AgreedTo \cup {q}
<1>1. PICK a \in Answers :
        /\ answers' = [answers EXCEPT ![q] = a]
        /\ IF Confirm(a, d)
             THEN Observe(ph) /\ UNCHANGED outcome
             ELSE Finish("Cancelled") /\ UNCHANGED <<phase, lookVars, before>>
  BY DEF Ask
<1>2. /\ Confirm(a, d) => AgreedTo' = AgreedTo \cup {q}
      /\ ~Confirm(a, d) => AgreedTo' = AgreedTo
  BY <1>1, AnswerAgrees
<1>3. UNCHANGED <<plan, remaining, signals, stops>>
  BY DEF Ask, planVars
<1>4. QED
  BY <1>1, <1>2, <1>3 DEF Observe, Finish

(* A signal that is delivered goes to one more process. *)
LEMMA SignalSent ==
  ASSUME NEW p \in Pids, Signal(p), pc' # "done",
         phase \in {"termCheck", "forceCheck"}
  PROVE  /\ phase = "termCheck" => /\ SentTo("TERM")' = SentTo("TERM") \cup {p}
                                   /\ SentTo("KILL")' = SentTo("KILL")
         /\ phase = "forceCheck" => /\ SentTo("KILL")' = SentTo("KILL") \cup {p}
                                    /\ SentTo("TERM")' = SentTo("TERM")
<1>. DEFINE new == [pid |-> p, sig |-> Sig, stray |-> birth[p] # seenBirth[p]]
<1>1. signals' = signals \cup {new}
  BY DEF Signal, Finish
<1>2. new.pid = p /\ new.sig = Sig
  OBVIOUS
<1>. HIDE DEF new
<1>3. ASSUME NEW sig, Sig = sig PROVE SentTo(sig)' = SentTo(sig) \cup {p}
  BY <1>1, <1>2, <1>3 DEF SentTo
<1>4. ASSUME NEW sig, Sig # sig PROVE SentTo(sig)' = SentTo(sig)
  BY <1>1, <1>2, <1>4 DEF SentTo
<1>5. /\ phase = "termCheck" => Sig = "TERM"
      /\ phase = "forceCheck" => Sig = "KILL"
  BY DEF Sig
<1>6. QED
  BY <1>3, <1>4, <1>5

(* Every process of the plan, and no other, was sent SIGTERM once the wait *)
(* began; SIGKILL is for the second round only.                            *)
LEMMA SentFacts ==
  ASSUME TypeOK, OrderInv
  PROVE  /\ (pc = "wait" \/ phase \in TermPhases \ {"termCheck"}) =>
              SentTo("TERM") = OwnerPids(plan)
         /\ SentTo("KILL") \subseteq SentTo("TERM")
         /\ phase \notin ForcePhases => SentTo("KILL") = {}
         /\ signals = {} => SentTo("TERM") = {} /\ SentTo("KILL") = {}
<1>1. \A p : p \in SentTo("TERM") <=> Termed(p)
  BY DEF SentTo, Termed
<1>2. SentTo("TERM") \subseteq OwnerPids(plan)
  BY DEF SentTo, OrderInv, TermedInv
<1>3. SentTo("KILL") \subseteq SentTo("TERM")
  BY <1>1 DEF SentTo, OrderInv, TermedInv
<1>4. phase \notin ForcePhases => SentTo("KILL") = {}
  BY DEF SentTo, OrderInv, TermedInv
<1>5. signals = {} => SentTo("TERM") = {} /\ SentTo("KILL") = {}
  BY DEF SentTo
<1>6. QED
  BY <1>1, <1>2, <1>3, <1>4, <1>5 DEF OrderInv, TermedInv

LEMMA PromiseNext ==
  ASSUME TypeOK, OrderInv, PromiseInv, [Next]_vars
  PROVE  PromiseInv'
<1>. USE DEF planVars, Looking
<1>1. ASSUME NEW k \in Kinds, Dump(k) PROVE PromiseInv'
  BY <1>1, PromiseFrame, PromiseDone DEF Dump, Finish
<1>2. ASSUME NEW p \in Pids, ScanPid(p) PROVE PromiseInv'
  BY <1>2, PromiseFrame DEF ScanPid, EndScan
<1>3. CASE ScanCut
  BY <1>3, PromiseFrame DEF ScanCut, EndScan
<1>4. CASE ScanFails \/ InspectThrows
  BY <1>4, PromiseDone DEF ScanFails, InspectThrows, Finish
<1>5. ASSUME NEW p \in Pids, Inspect(p) PROVE PromiseInv'
  BY <1>5, PromiseFrame DEF Inspect
<1>6. CASE PlanReady
  <2>1. CASE PrepareCode(Current) # "ok"
    BY <1>6, <2>1, PromiseDone DEF PlanReady, Finish
  <2>2. CASE PrepareCode(Current) = "ok"
    <3>1. /\ phase = "plan" /\ phase' = "plan" /\ pc = "inspect" /\ plan' = Current
          /\ pc' = IF plan'.unit # NoUnit THEN "confirmStop" ELSE "confirmTerm"
          /\ UNCHANGED <<answers, signals, stops, outcome>>
      BY <1>6, <2>2 DEF PlanReady, Observed
    <3>2. OwnerPids(plan)' # {}
      <4>1. OwnerPids(Current) # {}
        BY <2>2, CurrentType, PlanNames
      <4>2. OwnerPids(plan)' = OwnerPids(Current)
        BY <3>1 DEF OwnerPids
      <4>3. QED
        BY <4>1, <4>2
    <3>3. AgreedTo' = AgreedTo
      BY <3>1 DEF AgreedTo
    <3>4. PlanInv'
      BY <3>1, <3>2 DEF PromiseInv, PlanInv
    <3>5. AgreedInv' /\ SentInv'
      BY <3>1, <3>3 DEF PromiseInv, AgreedInv, SentInv, ForcePhases
    <3>6. QED
      BY <3>4, <3>5 DEF PromiseInv
  <2>3. QED
    BY <2>1, <2>2
<1>7. ASSUME NEW q \in {"confirmStop", "confirmTerm"}, NEW ph,
             Ask(q, TRUE, ph), ph = (IF q = "confirmStop" THEN "svcCheck" ELSE "termCheck")
      PROVE  PromiseInv'
  <2>1. /\ phase = "plan" /\ pc = q /\ AgreedTo = {} /\ signals = {} /\ stops = {}
        /\ outcome = "none" /\ OwnerPids(plan) # {}
    BY <1>7 DEF Ask, OrderInv, PositionInv, ConsentInv, PromiseInv, PlanInv, AgreedInv,
       Prompts, TermPhases
  <2>2. /\ UNCHANGED <<plan, remaining, signals, stops>>
        /\ \/ /\ pc' = "done" /\ phase' = phase
           \/ /\ pc' = "dump" /\ outcome' = outcome
              /\ phase' = ph /\ AgreedTo' = {q}
    <3>1. q \in Prompts /\ q # "confirmKill" /\ q \notin AgreedTo
      BY <1>7, <2>1 DEF Prompts
    <3>2. AgreedTo \cup {q} = {q}
      BY <2>1
    <3>3. QED
      BY <1>7, <3>1, <3>2, AskStep
  <2>3. OwnerPids(plan)' = OwnerPids(plan)
    BY <2>2 DEF OwnerPids
  <2>4. CASE pc' = "done" /\ phase' = phase
    BY <2>2, <2>4, PromiseDone
  <2>5. CASE pc' = "dump" /\ outcome' = outcome /\ phase' = ph /\ AgreedTo' = {q}
    BY <1>7, <2>1, <2>2, <2>3, <2>5
       DEF PromiseInv, PlanInv, AgreedInv, SentInv, ForcePhases, Prompts
  <2>6. QED
    BY <2>2, <2>4, <2>5
<1>8. CASE ConfirmKill
  <2>1. /\ phase = "termAfter" /\ pc = "confirmKill" /\ AgreedTo = {"confirmTerm"}
        /\ outcome = "none" /\ OwnerPids(plan) # {}
    BY <1>8 DEF ConfirmKill, Ask, OrderInv, PositionInv, PromiseInv, PlanInv, AgreedInv,
       Prompts
  <2>2. /\ UNCHANGED <<plan, remaining, signals, stops>>
        /\ \/ /\ pc' = "done" /\ phase' = phase
           \/ /\ pc' = "dump" /\ outcome' = outcome
              /\ phase' = "forceCheck" /\ AgreedTo' = {"confirmTerm", "confirmKill"}
    BY <1>8, <2>1, AskStep DEF ConfirmKill, Prompts
  <2>3. OwnerPids(plan)' = OwnerPids(plan) /\ SentTo("KILL")' = SentTo("KILL")
    BY <2>2 DEF OwnerPids, SentTo
  <2>4. SentTo("KILL") = {}
    BY <2>1, SentFacts DEF ForcePhases
  <2>5. QED
    BY <2>1, <2>2, <2>3, <2>4, PromiseDone
       DEF PromiseInv, PlanInv, AgreedInv, SentInv, ForcePhases
<1>9. ASSUME NEW ph, NEW fits, NEW g, NEW t, Recheck(ph, Verdict(fits), g, t), pc' = "done"
      PROVE  PromiseInv'
  BY <1>9, PromiseDone DEF Recheck
<1>10. ASSUME NEW ph, NEW fits, NEW g, NEW t, Recheck(ph, Verdict(fits), g, t), pc' # "done"
       PROVE  /\ pc = "inspect" /\ phase = ph /\ pc' = g /\ todo' = t
              /\ UNCHANGED <<phase, plan, remaining, answers, signals, stops, outcome>>
              /\ OwnerPids(plan)' = OwnerPids(plan)
              /\ OwnerPids(remaining)' = OwnerPids(remaining)
              /\ AgreedTo' = AgreedTo
              /\ SentTo("TERM")' = SentTo("TERM") /\ SentTo("KILL")' = SentTo("KILL")
  <2>1. /\ pc = "inspect" /\ phase = ph /\ pc' = g /\ todo' = t
        /\ UNCHANGED <<phase, plan, remaining, answers, signals, stops, outcome>>
    BY <1>10 DEF Recheck, Observed, Finish
  <2>2. QED
    BY <2>1 DEF OwnerPids, AgreedTo, SentTo
<1>11. CASE SvcCheck
  BY <1>9, <1>10, <1>11
     DEF SvcCheck, PromiseInv, PlanInv, AgreedInv, SentInv, ForcePhases, Prompts
<1>12. CASE TermCheck
  <2>1. signals = {} => SentTo("TERM") = {}
    BY SentFacts
  <2>2. QED
    BY <1>9, <1>10, <1>12, <2>1
       DEF TermCheck, PromiseInv, PlanInv, AgreedInv, SentInv, ForcePhases, Prompts
<1>13. CASE ForceCheck
  BY <1>9, <1>10, <1>13
     DEF ForceCheck, PromiseInv, PlanInv, AgreedInv, SentInv, ForcePhases, Prompts
<1>14. CASE StopUnit
  <2>1. pc = "stopUnit" /\ phase = "svcCheck" /\ UNCHANGED <<plan, answers>>
    BY <1>14 DEF StopUnit, OrderInv, PositionInv
  <2>2. CASE Observe("svcPoll") /\ UNCHANGED outcome
    <3>1. /\ pc' = "dump" /\ phase' = "svcPoll" /\ stops' # {} /\ outcome' = outcome
          /\ AgreedTo' = AgreedTo /\ OwnerPids(plan)' = OwnerPids(plan)
      BY <1>14, <2>1, <2>2 DEF StopUnit, Observe, AgreedTo, OwnerPids
    <3>2. QED
      BY <2>1, <3>1 DEF PromiseInv, PlanInv, AgreedInv, SentInv, ForcePhases, Prompts
  <2>3. CASE (\E e \in CallErrors \cup OpenErrors : Finish(e)) /\ UNCHANGED phase
    BY <2>1, <2>3, PromiseDone DEF Finish
  <2>4. QED
    BY <1>14, <2>2, <2>3 DEF StopUnit
<1>15. CASE SvcPoll
  BY <1>15, PromiseFrame, PromiseDone DEF SvcPoll, PollUntil, Observed, Observe, Finish
<1>16. ASSUME NEW p \in Pids, Signal(p) PROVE PromiseInv'
  <2>1. CASE pc' = "done"
    BY <1>16, <2>1, PromiseDone DEF Signal
  <2>2. CASE pc' # "done"
    <3>1. /\ pc = "signal" /\ p \in todo /\ \A x \in todo : p <= x
          /\ IF todo = {p} THEN pc' = "wait" ELSE todo' = todo \ {p} /\ pc' = "signal"
          /\ UNCHANGED <<phase, plan, remaining, answers, stops, outcome>>
      BY <1>16, <2>2 DEF Signal, Finish, Lowest
    <3>2. phase \in {"termCheck", "forceCheck"}
      BY <3>1 DEF OrderInv, PositionInv
    <3>3. /\ AgreedTo' = AgreedTo /\ OwnerPids(plan)' = OwnerPids(plan)
          /\ OwnerPids(remaining)' = OwnerPids(remaining)
      BY <3>1 DEF AgreedTo, OwnerPids
    <3>4. PlanInv' /\ AgreedInv'
      BY <3>1, <3>2, <3>3 DEF PromiseInv, PlanInv, AgreedInv, ForcePhases, Prompts
    <3>5. CASE phase = "termCheck"
      <4>1. SentTo("TERM")' = SentTo("TERM") \cup {p}
        BY <1>16, <2>2, <3>2, <3>5, SignalSent
      <4>2. p \in OwnerPids(plan)
        BY <3>1, <3>5 DEF OrderInv, TargetInv, Target
      <4>3. pc' = "signal" => SentTo("TERM")' = OwnerPids(plan)' \ todo'
        BY <3>1, <3>3, <3>5, <4>1, <4>2 DEF PromiseInv, SentInv
      <4>4. QED
        BY <3>1, <3>4, <3>5, <4>3 DEF PromiseInv, SentInv
    <3>6. CASE phase = "forceCheck"
      <4>1. SentTo("KILL")' = SentTo("KILL") \cup {p}
        BY <1>16, <2>2, <3>2, <3>6, SignalSent
      <4>2. p \in OwnerPids(remaining)
        BY <3>1, <3>6 DEF OrderInv, TargetInv, Target
      <4>3. /\ SentTo("KILL") = OwnerPids(remaining) \ todo
            /\ \A r \in SentTo("KILL"), x \in todo : r < x
        BY <3>1, <3>6 DEF PromiseInv, SentInv
      <4>4. pc' = "signal" => /\ SentTo("KILL")' = OwnerPids(remaining)' \ todo'
                              /\ \A r \in SentTo("KILL")', x \in todo' : r < x
        <5>1. \A x \in todo : x \in Nat
          BY HostAssumption DEF TypeOK
        <5>2. \A x \in todo \ {p} : p < x
          BY <3>1, <5>1
        <5>3. QED
          BY <3>1, <3>3, <4>1, <4>2, <4>3, <5>2
      <4>5. QED
        BY <3>1, <3>4, <3>6, <4>1, <4>4 DEF PromiseInv, SentInv
    <3>7. QED
      BY <3>2, <3>5, <3>6
  <2>3. QED
    BY <2>1, <2>2
<1>17. ASSUME NEW p \in Pids, Wait(p) PROVE PromiseInv'
  <2>1. /\ pc = "wait" /\ phase \in {"termCheck", "forceCheck"}
        /\ UNCHANGED <<plan, remaining, answers, signals, stops, outcome>>
    BY <1>17 DEF Wait, OrderInv, PositionInv
  <2>2. \/ pc' = "wait" /\ phase' = phase
        \/ pc' = "dump" /\ phase = "termCheck" /\ phase' = "termAfter"
        \/ pc' = "dump" /\ phase = "forceCheck" /\ phase' = "forceAfter"
    BY <1>17, <2>1 DEF Wait, Observe
  <2>3. /\ AgreedTo' = AgreedTo /\ OwnerPids(plan)' = OwnerPids(plan)
        /\ SentTo("KILL")' = SentTo("KILL")
    BY <2>1 DEF AgreedTo, OwnerPids, SentTo
  <2>4. PlanInv' /\ AgreedInv'
    BY <2>1, <2>2, <2>3 DEF PromiseInv, PlanInv, AgreedInv, ForcePhases, Prompts
  <2>5. SentInv'
    BY <2>1, <2>2, <2>3 DEF PromiseInv, SentInv
  <2>6. QED
    BY <2>4, <2>5 DEF PromiseInv
<1>18. CASE WaitFails \/ ForceAfter
  BY <1>18, PromiseDone DEF WaitFails, ForceAfter, Finish
<1>19. CASE TermAfter
  <2>1. CASE pc' = "done"
    BY <1>19, <2>1, PromiseDone DEF TermAfter
  <2>2. CASE pc' # "done"
    <3>1. /\ pc' = "confirmKill" /\ pc = "inspect" /\ phase = "termAfter"
          /\ UNCHANGED <<phase, plan, answers, signals, stops, outcome>>
      BY <1>19, <2>2 DEF TermAfter, Observed, Finish
    <3>2. AgreedTo' = AgreedTo /\ OwnerPids(plan)' = OwnerPids(plan)
      BY <3>1 DEF AgreedTo, OwnerPids
    <3>3. QED
      BY <3>1, <3>2 DEF PromiseInv, PlanInv, AgreedInv, SentInv, ForcePhases, Prompts
  <2>3. QED
    BY <2>1, <2>2
<1>20. CASE Tick \/ Environment \/ UNCHANGED vars
  BY <1>20, PromiseStill DEF Tick, Environment, vars, lxVars
<1>21. QED
  BY <1>1, <1>2, <1>3, <1>4, <1>5, <1>6, <1>7, <1>8, <1>11, <1>12, <1>13, <1>14,
     <1>15, <1>16, <1>17, <1>18, <1>19, <1>20
     DEF Next, Lx, Look, Act, Decide, User, Done, ConfirmStop, ConfirmTerm

(* Nothing to be seen of the command changes. *)
LEMMA NothingSeen ==
  ASSUME UNCHANGED <<plan, answers, signals, stops, outcome>>
  PROVE  UNCHANGED Contract!contractVars
BY DEF Contract!contractVars, OwnerPids, AgreedTo, SentTo

(* The command ends with a word the contract allows here. *)
LEMMA EndsAs ==
  ASSUME NEW word \in Contract!Words, outcome = "none", outcome' = word,
         UNCHANGED <<plan, AgreedTo, signals, stops>>,
         word = "Cancelled" =>
           /\ OwnerPids(plan) # {} /\ SentTo("KILL") = {} /\ stops = {}
           /\ \/ AgreedTo = {} /\ SentTo("TERM") = {}
              \/ AgreedTo = {"confirmTerm"} /\ SentTo("TERM") = OwnerPids(plan),
         word = "Timeout" => stops # {} \/ SentTo("KILL") # {},
         word = "Released" => AgreedTo # {},
         word = "NotFound" => stops = {},
         word = "Unavailable" => AgreedTo = {"confirmStop"} /\ stops = {}
  PROVE  Contract!ContractNext
<1>1. /\ OwnerPids(plan)' = OwnerPids(plan)
      /\ SentTo("TERM")' = SentTo("TERM") /\ SentTo("KILL")' = SentTo("KILL")
      /\ plan.unit' = plan.unit
  BY DEF OwnerPids, SentTo
<1>2. Contract!End(word)
  BY <1>1 DEF Contract!End
<1>3. QED
  BY <1>2 DEF Contract!ContractNext

LEMMA ReleaseStep ==
  ASSUME TypeOK, OrderInv, PromiseInv, [Next]_vars
  PROVE  [Contract!ContractNext]_(Contract!contractVars)
<1> SUFFICES Contract!ContractNext \/ UNCHANGED Contract!contractVars
  OBVIOUS
<1>. USE DEF planVars
<1>1. ASSUME NEW word \in {"IoError", "Aborted", "Conflict", "PermissionDenied",
                          "ProtocolError"},
             pc # "done", outcome' = word, UNCHANGED <<plan, answers, signals, stops>>
      PROVE  Contract!ContractNext
  <2>1. UNCHANGED AgreedTo /\ outcome = "none" /\ word \in Contract!Words
    BY <1>1 DEF AgreedTo, PromiseInv, PlanInv, Contract!Words
  <2>2. QED
    BY <1>1, <2>1, EndsAs
<1>2a. ASSUME phase # "plan", pc # "done", outcome' = "Released",
              UNCHANGED <<plan, answers, signals, stops>>
       PROVE  Contract!ContractNext
  <2>1. /\ UNCHANGED AgreedTo /\ outcome = "none"
        /\ "Released" \in Contract!Words /\ AgreedTo # {}
    BY <1>2a DEF AgreedTo, PromiseInv, PlanInv, AgreedInv, TypeOK, Phases, ForcePhases,
       Contract!Words
  <2>2. QED
    BY <1>2a, <2>1, EndsAs
<1>2. ASSUME NEW fits, pc # "done", phase # "plan", Verdict(fits) # "ok",
             outcome' = Verdict(fits), UNCHANGED <<plan, answers, signals, stops>>
      PROVE  Contract!ContractNext
  <2>1. CASE Verdict(fits) # "Released"
    BY <1>1, <1>2, <2>1, VerdictWords
  <2>2. CASE Verdict(fits) = "Released"
    BY <1>2, <1>2a, <2>2
  <2>3. QED
    BY <2>1, <2>2
<1>2b. ASSUME phase = "plan", pc # "done", outcome' = "NotFound",
              UNCHANGED <<plan, answers, signals, stops>>
       PROVE  Contract!ContractNext
  <2>1. UNCHANGED AgreedTo /\ outcome = "none" /\ stops = {} /\ "NotFound" \in Contract!Words
    BY <1>2b DEF AgreedTo, PromiseInv, PlanInv, OrderInv, ConsentInv, Contract!Words
  <2>2. QED
    BY <1>2b, <2>1, EndsAs
<1>3. ASSUME NEW k \in Kinds, Dump(k) PROVE Contract!ContractNext \/ UNCHANGED Contract!contractVars
  <2>1. CASE UNCHANGED outcome
    BY <1>3, <2>1, NothingSeen DEF Dump
  <2>2. CASE outcome' \in DumpErrors
    BY <1>1, <1>3, <2>2 DEF Dump, DumpErrors
  <2>3. QED
    BY <1>3, <2>1, <2>2 DEF Dump, Finish
<1>4. ASSUME NEW p \in Pids, ScanPid(p) \/ Inspect(p) PROVE UNCHANGED Contract!contractVars
  BY <1>4, NothingSeen DEF ScanPid, Inspect
<1>5. CASE ScanCut
  BY <1>5, NothingSeen DEF ScanCut
<1>6. CASE ScanFails \/ InspectThrows \/ WaitFails
  <2>1. CASE ScanFails
    BY <1>1, <1>2a, <1>2b, <2>1 DEF ScanFails, ScanErrors, Finish
  <2>2. CASE InspectThrows
    BY <1>1, <2>2 DEF InspectThrows, Finish
  <2>3. CASE WaitFails
    BY <1>1, <2>3 DEF WaitFails, SignalErrors, Finish
  <2>4. QED
    BY <1>6, <2>1, <2>2, <2>3
<1>7. CASE PlanReady
  <2>1. CASE PrepareCode(Current) # "ok"
    <3>1. /\ pc # "done" /\ phase = "plan" /\ outcome' = PrepareCode(Current)
          /\ UNCHANGED <<plan, answers, signals, stops>>
      BY <1>7, <2>1 DEF PlanReady, Observed, Finish
    <3>2. PrepareCode(Current) \in {"NotFound", "Conflict", "PermissionDenied"}
      BY <2>1 DEF PrepareCode
    <3>3. CASE PrepareCode(Current) = "NotFound"
      BY <1>2b, <3>1, <3>3
    <3>4. QED
      BY <1>1, <3>1, <3>2, <3>3
  <2>2. CASE PrepareCode(Current) = "ok"
    <3>1. /\ pc = "inspect" /\ phase = "plan" /\ plan' = Current
          /\ UNCHANGED <<answers, signals, stops, outcome>>
      BY <1>7, <2>2 DEF PlanReady, Observed
    <3>2. OwnerPids(plan)' # {} /\ OwnerPids(plan)' \cap {1, Self} = {}
      <4>1. OwnerPids(Current) # {} /\ OwnerPids(Current) \cap {1, Self} = {}
        BY <2>2, CurrentType, PlanNames
      <4>2. OwnerPids(plan)' = OwnerPids(Current)
        BY <3>1 DEF OwnerPids
      <4>3. QED
        BY <4>1, <4>2
    <3>3. OwnerPids(plan) = {} /\ outcome = "none"
      BY <3>1 DEF PromiseInv, PlanInv, NoPlan, OwnerPids
    <3>4. (plan.unit)' \in Units \cup {NoUnit}
      BY <3>1, CurrentType DEF Plan
    <3>5. UNCHANGED <<AgreedTo, SentTo("TERM"), SentTo("KILL")>>
      BY <3>1 DEF AgreedTo, SentTo
    <3>6. Contract!Present
      BY <3>1, <3>2, <3>3, <3>4, <3>5 DEF Contract!Present
    <3>7. QED
      BY <3>6 DEF Contract!ContractNext
  <2>3. QED
    BY <2>1, <2>2
<1>8. CASE ConfirmStop \/ ConfirmTerm \/ ConfirmKill
  <2>1. PICK q \in Prompts, ph \in Phases : Ask(q, q # "confirmKill", ph)
    BY <1>8 DEF ConfirmStop, ConfirmTerm, ConfirmKill, Prompts, Phases
  <2>2. /\ pc = q /\ outcome = "none" /\ OwnerPids(plan) # {} /\ SentTo("KILL") = {}
        /\ stops = {}
        /\ \/ /\ AgreedTo = {} /\ SentTo("TERM") = {}
              /\ \/ q = "confirmStop" /\ plan.unit # NoUnit
                 \/ q = "confirmTerm" /\ plan.unit = NoUnit
           \/ /\ AgreedTo = {"confirmTerm"} /\ SentTo("TERM") = OwnerPids(plan)
              /\ q = "confirmKill"
    <3>1. /\ pc = q /\ outcome = "none" /\ OwnerPids(plan) # {}
          /\ q = "confirmStop" => plan.unit # NoUnit
          /\ q = "confirmTerm" => plan.unit = NoUnit
      BY <2>1 DEF Ask, PromiseInv, PlanInv, Prompts
    <3>2. CASE q = "confirmKill"
      <4>1. phase = "termAfter"
        BY <3>1, <3>2 DEF OrderInv, PositionInv
      <4>2. /\ AgreedTo = {"confirmTerm"} /\ stops = {}
        BY <3>1, <3>2, <4>1 DEF PromiseInv, AgreedInv, OrderInv, ConsentInv, TermPhases
      <4>3. SentTo("TERM") = OwnerPids(plan) /\ SentTo("KILL") = {}
        BY <4>1, SentFacts DEF TermPhases, ForcePhases
      <4>4. QED
        BY <3>1, <3>2, <4>2, <4>3
    <3>3. CASE q # "confirmKill"
      <4>1. phase = "plan" /\ q \in {"confirmStop", "confirmTerm"}
        BY <2>1, <3>1, <3>3 DEF OrderInv, PositionInv, Prompts
      <4>2. AgreedTo = {} /\ stops = {} /\ signals = {}
        BY <3>1, <4>1 DEF PromiseInv, AgreedInv, OrderInv, ConsentInv, TermPhases
      <4>3. SentTo("TERM") = {} /\ SentTo("KILL") = {}
        BY <4>2, SentFacts
      <4>4. QED
        BY <3>1, <4>1, <4>2, <4>3
    <3>4. QED
      BY <3>2, <3>3
  <2>3. q \notin AgreedTo
    BY <2>2
  <2>4. /\ UNCHANGED <<plan, remaining, signals, stops>>
        /\ \/ outcome' = "Cancelled" /\ AgreedTo' = AgreedTo
           \/ outcome' = outcome /\ AgreedTo' = AgreedTo \cup {q}
    BY <2>1, <2>3, AskStep
  <2>5. CASE outcome' = "Cancelled" /\ AgreedTo' = AgreedTo
    <3>1. "Cancelled" \in Contract!Words
      BY DEF Contract!Words
    <3>2. QED
      BY <2>2, <2>4, <2>5, <3>1, EndsAs
  <2>6. CASE outcome' = outcome /\ AgreedTo' = AgreedTo \cup {q}
    <3>1. UNCHANGED <<OwnerPids(plan), plan.unit, SentTo("TERM"), SentTo("KILL"), stops, outcome>>
      BY <2>4, <2>6 DEF OwnerPids, SentTo
    <3>2. Contract!Agree(q)
      BY <2>2, <2>6, <3>1 DEF Contract!Agree
    <3>3. q \in {"confirmStop", "confirmTerm", "confirmKill"}
      BY <2>1 DEF Prompts
    <3>4. QED
      BY <3>2, <3>3 DEF Contract!ContractNext
  <2>7. QED
    BY <2>4, <2>5, <2>6
<1>9. ASSUME NEW ph, NEW fits, NEW g, NEW t, Recheck(ph, Verdict(fits), g, t), ph # "plan"
      PROVE  Contract!ContractNext \/ UNCHANGED Contract!contractVars
  <2>1. CASE Verdict(fits) = "ok"
    BY <1>9, <2>1, NothingSeen DEF Recheck
  <2>2. CASE Verdict(fits) # "ok"
    BY <1>2, <1>9, <2>2 DEF Recheck, Observed, Finish
  <2>3. QED
    BY <2>1, <2>2
<1>10. CASE StopUnit
  <2>1. /\ pc = "stopUnit" /\ phase = "svcCheck" /\ UNCHANGED <<plan, answers, signals>>
        /\ \/ /\ stops' = stops \cup {plan.unit}
              /\ UNCHANGED outcome \/ outcome' \in CallErrors
           \/ UNCHANGED stops /\ outcome' \in OpenErrors
    BY <1>10 DEF StopUnit, Finish, OrderInv, PositionInv
  <2>2. outcome = "none" /\ AgreedTo = {"confirmStop"} /\ stops = {}
    BY <2>1 DEF PromiseInv, PlanInv, AgreedInv, SentInv
  <2>3. UNCHANGED <<OwnerPids(plan), plan.unit, AgreedTo, SentTo("TERM"), SentTo("KILL")>>
    BY <2>1 DEF OwnerPids, AgreedTo, SentTo
  <2>4. CASE stops' = stops \cup {plan.unit} /\ (UNCHANGED outcome \/ outcome' \in CallErrors)
    <3>1. Contract!Stop
      BY <2>1, <2>2, <2>3, <2>4 DEF Contract!Stop, Contract!StopFailures, CallErrors
    <3>2. QED
      BY <3>1 DEF Contract!ContractNext
  <2>5. CASE UNCHANGED stops /\ outcome' \in OpenErrors
    <3>1. outcome' \in Contract!Words /\ outcome' \in {"Unavailable", "PermissionDenied"}
      BY <2>5 DEF OpenErrors, Contract!Words
    <3>2. QED
      BY <2>1, <2>2, <2>3, <2>5, <3>1, EndsAs
  <2>6. QED
    BY <2>1, <2>4, <2>5
<1>11. ASSUME SvcPoll \/ TermAfter \/ ForceAfter
       PROVE  Contract!ContractNext \/ UNCHANGED Contract!contractVars
  <2>1. PICK fits : /\ pc = "inspect" /\ UNCHANGED <<plan, answers, signals, stops>>
                    /\ \/ UNCHANGED outcome /\ phase # "plan"
                       \/ outcome' = Verdict(fits) /\ Verdict(fits) # "ok" /\ phase # "plan"
                       \/ outcome' = "Timeout" /\ phase \in {"svcPoll", "forceAfter"}
    <3>1. CASE SvcPoll
      BY <3>1 DEF SvcPoll, PollUntil, Observed, Finish
    <3>2. CASE TermAfter
      BY <3>2 DEF TermAfter, Observed, Finish
    <3>3. CASE ForceAfter
      BY <3>3 DEF ForceAfter, Observed, Finish
    <3>4. QED
      BY <1>11, <3>1, <3>2, <3>3
  <2>2. CASE UNCHANGED outcome
    BY <2>1, <2>2, NothingSeen
  <2>3. CASE outcome' = Verdict(fits) /\ Verdict(fits) # "ok" /\ phase # "plan"
    BY <1>2, <2>1, <2>3
  <2>4. CASE outcome' = "Timeout" /\ phase \in {"svcPoll", "forceAfter"}
    <3>1. UNCHANGED AgreedTo /\ outcome = "none" /\ "Timeout" \in Contract!Words
      BY <2>1 DEF AgreedTo, PromiseInv, PlanInv, Contract!Words
    <3>2. stops # {} \/ SentTo("KILL") # {}
      BY <2>1, <2>4 DEF PromiseInv, SentInv
    <3>3. QED
      BY <2>1, <2>4, <3>1, <3>2, EndsAs
  <2>5. QED
    BY <2>1, <2>2, <2>3, <2>4
<1>12. ASSUME NEW p \in Pids, Signal(p) PROVE Contract!ContractNext
  <2>1. /\ pc = "signal" /\ p \in todo /\ \A x \in todo : p <= x
        /\ phase \in {"termCheck", "forceCheck"} /\ UNCHANGED <<plan, answers, stops>>
        /\ outcome = "none" /\ stops = {}
    BY <1>12 DEF Signal, Lowest, OrderInv, PositionInv, ConsentInv, TermPhases,
       PromiseInv, PlanInv
  <2>2. CASE pc' = "done"
    <3>1. signals' = signals /\ outcome' \in {"Conflict", "NotFound", "PermissionDenied", "IoError"}
      BY <1>12, <2>2 DEF Signal, SignalErrors, Finish
    <3>2. CASE outcome' # "NotFound"
      BY <1>1, <2>1, <3>1, <3>2
    <3>3. CASE outcome' = "NotFound"
      <4>1. UNCHANGED AgreedTo /\ "NotFound" \in Contract!Words
        BY <2>1 DEF AgreedTo, Contract!Words
      <4>2. QED
        BY <2>1, <3>1, <3>3, <4>1, EndsAs
    <3>4. QED
      BY <3>2, <3>3
  <2>3. CASE pc' # "done"
    <3>1. UNCHANGED <<OwnerPids(plan), plan.unit, AgreedTo, stops, outcome>>
      BY <1>12, <2>1, <2>3 DEF Signal, Finish, OwnerPids, AgreedTo
    <3>2. p \in OwnerPids(Target)
      BY <2>1 DEF OrderInv, TargetInv
    <3>3. CASE phase = "termCheck"
      <4>1. /\ SentTo("TERM")' = SentTo("TERM") \cup {p} /\ UNCHANGED SentTo("KILL")
        BY <1>12, <2>1, <2>3, <3>3, SignalSent
      <4>2. /\ AgreedTo = {"confirmTerm"} /\ SentTo("TERM") = OwnerPids(plan) \ todo
            /\ p \in OwnerPids(plan)
        BY <2>1, <3>2, <3>3 DEF PromiseInv, AgreedInv, SentInv, Target
      <4>3. /\ p \in OwnerPids(plan) \ SentTo("TERM")
            /\ \A r \in OwnerPids(plan) \ SentTo("TERM") : p <= r
        BY <2>1, <4>2
      <4>4. Contract!Term(p)
        BY <2>1, <3>1, <4>1, <4>2, <4>3 DEF Contract!Term
      <4>5. QED
        BY <4>2, <4>4 DEF Contract!ContractNext
    <3>4. CASE phase = "forceCheck"
      <4>1. /\ SentTo("KILL")' = SentTo("KILL") \cup {p} /\ UNCHANGED SentTo("TERM")
        BY <1>12, <2>1, <2>3, <3>4, SignalSent
      <4>2. /\ AgreedTo = {"confirmTerm", "confirmKill"}
            /\ SentTo("KILL") = OwnerPids(remaining) \ todo
            /\ \A r \in SentTo("KILL") : r < p
        BY <2>1, <3>4 DEF PromiseInv, AgreedInv, SentInv, ForcePhases
      <4>3. p \in OwnerPids(plan) /\ SentTo("TERM") = OwnerPids(plan)
        BY <2>1, <3>2, <3>4, RemainingOwners, SentFacts
           DEF Target, OrderInv, TargetInv, ForcePhases, TermPhases
      <4>4. p \in SentTo("TERM") \ SentTo("KILL")
        BY <2>1, <4>2, <4>3
      <4>5. Contract!Kill(p)
        BY <2>1, <3>1, <4>1, <4>2, <4>4 DEF Contract!Kill
      <4>6. QED
        BY <4>3, <4>5 DEF Contract!ContractNext
    <3>5. QED
      BY <2>1, <3>3, <3>4
  <2>4. QED
    BY <2>2, <2>3
<1>13. ASSUME NEW p \in Pids, Wait(p) PROVE UNCHANGED Contract!contractVars
  BY <1>13, NothingSeen DEF Wait
<1>14. CASE Tick \/ Environment \/ UNCHANGED vars
  BY <1>14, NothingSeen DEF Tick, Environment, vars, lxVars
<1>15. QED
  BY <1>3, <1>4, <1>5, <1>6, <1>7, <1>8, <1>9, <1>10, <1>11, <1>12, <1>13, <1>14
     DEF Next, Lx, Look, Act, Decide, User, Done, SvcCheck, TermCheck, ForceCheck

(* `lx port free` keeps its promise to the user: whatever the host does    *)
(* and whatever fails, the plan, the consents, the signals, the stop and   *)
(* the last word come in the order of ReleaseContract and agree with it.   *)
THEOREM ReleaseContractKept == Spec => KeepsReleaseContract
<1>1. Init => Contract!ContractInit
  BY DEF Init, Contract!ContractInit, NoPlan, OwnerPids, AgreedTo, SentTo, Prompts
<1>2. QED
  BY <1>1, TypeInit, TypeNext, OrderInit, OrderNext, PromiseInit, PromiseNext,
     ReleaseStep, PTL
     DEF Spec, KeepsReleaseContract, Contract!ContractSpec

-----------------------------------------------------------------------------
(* Why the command ends: it is never without a next step, and no step goes *)
(* back.  (That it therefore reaches a prompt or its end, under the        *)
(* fairness of FairSpec, is ReleaseEnds, which the prover cannot state.)   *)

\* The command has its next dump, process, signal or wait wherever it is at
\* one; elsewhere an answer or an observation lets it go on.
CanGoOn ==
  /\ pc = "dump" => Lowest(undumped) # {}
  /\ pc = "scan" => unscanned # {}
  /\ pc \in {"signal", "wait"} => Lowest(todo) # {}

WorkInv ==
  /\ pc = "dump" => undumped # {}
  /\ pc = "scan" => unscanned # {}
  /\ pc \in {"signal", "wait"} => todo # {}
  /\ listed # {} => Pids # {}

LEMMA LowestExists ==
  ASSUME NEW S, S \subseteq Nat, S # {}
  PROVE  Lowest(S) # {}
<1>. DEFINE R == OpToRel(<, Nat)
<1>1. \A m, n \in Nat : m < n <=> <<m, n>> \in R
  BY DEF OpToRel
<1>2. IsWellFoundedOn(R, Nat)
  BY NatLessThanWellFounded
<1>. HIDE DEF R
<1>3. PICK x \in S : \A y \in S : ~(<<y, x>> \in R)
  BY <1>2, WFMin
<1>4. ASSUME NEW y \in S PROVE x <= y
  <2>1. x \in Nat /\ y \in Nat /\ ~(<<y, x>> \in R)
    BY <1>3
  <2>2. ~(y < x)
    BY <1>1, <2>1, Zenon
  <2>3. QED
    BY ONLY <2>1, <2>2
<1>5. QED
  BY <1>3, <1>4 DEF Lowest

(* A plan that was found again as it was has somebody to signal. *)
LEMMA SomebodyToSignal ==
  ASSUME TypeOK, NEW pl, Verdict(SameTargets(pl, Current)) = "ok"
  PROVE  OwnerPids(pl) # {}
<1>1. PrepareCode(Current) = "ok" /\ SameTargets(pl, Current)
  BY DEF Verdict
<1>2. listed # {} /\ \A i \in listed : owners[i] # {}
  BY <1>1 DEF PrepareCode, Current
<1>3. pl.listed = listed /\ \A i \in listed : pl.owners[i] = owners[i]
  BY <1>1 DEF SameTargets, Current
<1>4. PICK i \in listed : owners[i] # {}
  BY <1>2
<1>5. PICK p : p \in owners[i]
  BY <1>4
<1>6. p \in Pids
  BY <1>5 DEF TypeOK
<1>7. p \in OwnerPids(pl)
  BY <1>3, <1>5, <1>6 DEF OwnerPids
<1>8. QED
  BY <1>7

(* A step to a place where nothing is left to be taken in hand. *)
LEMMA WorkElsewhere ==
  ASSUME WorkInv, pc' \notin {"dump", "scan", "signal", "wait"}, listed' = listed
  PROVE  WorkInv'
BY DEF WorkInv

LEMMA WorkObserve ==
  ASSUME NEW ph, Observe(ph)
  PROVE  WorkInv'
BY ReleaseAssumption DEF Observe, WorkInv

LEMMA WorkNext == TypeOK /\ OrderInv /\ WorkInv /\ [Next]_vars => WorkInv'
<1> SUFFICES ASSUME TypeOK, OrderInv, WorkInv, [Next]_vars PROVE WorkInv'
  OBVIOUS
<1>. USE DEF lookVars
<1>1. ASSUME NEW k \in Kinds, Dump(k) PROVE WorkInv'
  <2>1. \A i \in Bound : Pids # {}
    BY DEF Bound, TypeOK, HostTypeOK
  <2>2. listed' # {} => Pids # {}
    BY <1>1, <2>1 DEF Dump, WorkInv
  <2>3. QED
    BY <1>1, <2>2 DEF Dump, Finish, WorkInv
<1>2. ASSUME NEW p \in Pids, ScanPid(p) PROVE WorkInv'
  BY <1>2 DEF ScanPid, EndScan, WorkInv
<1>3. ASSUME ScanCut \/ ScanFails \/ InspectThrows \/ WaitFails PROVE WorkInv'
  BY <1>3, WorkElsewhere DEF ScanCut, EndScan, ScanFails, InspectThrows, WaitFails, Finish
<1>4. ASSUME NEW p \in Pids, Inspect(p) PROVE WorkInv'
  BY <1>4, WorkElsewhere DEF Inspect
<1>5. ASSUME PlanReady \/ TermAfter \/ ForceAfter PROVE WorkInv'
  BY <1>5, WorkElsewhere DEF PlanReady, TermAfter, ForceAfter, Finish
<1>6. ASSUME NEW q, NEW d, NEW ph, Ask(q, d, ph) PROVE WorkInv'
  BY <1>6, WorkObserve, WorkElsewhere DEF Ask, Finish
<1>7. ASSUME SvcCheck PROVE WorkInv'
  BY <1>7, WorkElsewhere DEF SvcCheck, Recheck, Finish
<1>8. ASSUME NEW ph, NEW pl,
             Recheck(ph, Verdict(SameTargets(pl, Current)), "signal", OwnerPids(pl))
      PROVE  WorkInv'
  BY <1>8, SomebodyToSignal, WorkElsewhere DEF Recheck, Finish, WorkInv
<1>9. ASSUME StopUnit PROVE WorkInv'
  BY <1>9, WorkObserve, WorkElsewhere DEF StopUnit, Finish
<1>10. ASSUME SvcPoll PROVE WorkInv'
  BY <1>10, WorkObserve, WorkElsewhere DEF SvcPoll, PollUntil, Finish
<1>11. ASSUME NEW p \in Pids, Signal(p) PROVE WorkInv'
  <2>1. p \in todo /\ p \in OwnerPids(Target) /\ pc = "signal"
    BY <1>11 DEF Signal, Lowest, OrderInv, TargetInv
  <2>2. QED
    BY <1>11, <2>1 DEF Signal, Finish, WorkInv
<1>12. ASSUME NEW p \in Pids, Wait(p) PROVE WorkInv'
  <2>1. p \in todo /\ todo' = todo \ {p} /\ pc = "wait"
    BY <1>12 DEF Wait, Lowest
  <2>2. CASE todo = {p}
    BY <1>12, <2>2, WorkObserve DEF Wait
  <2>3. CASE todo # {p}
    BY <1>12, <2>1, <2>3 DEF Wait, WorkInv
  <2>4. QED
    BY <2>2, <2>3
<1>13. CASE Tick \/ Environment \/ UNCHANGED vars
  BY <1>13 DEF Tick, Environment, vars, lxVars, WorkInv
<1>14. QED
  BY <1>1, <1>2, <1>3, <1>4, <1>5, <1>6, <1>7, <1>8, <1>9, <1>10, <1>11, <1>12, <1>13
     DEF Next, Lx, Look, Act, Decide, User, Done, TermCheck, ForceCheck, ConfirmStop,
         ConfirmTerm, ConfirmKill

(* `lx port free` is never at a loss: while it dumps, scans, signals or    *)
(* waits there is a dump, a process or a PID that is next, whatever the    *)
(* host did since; an emptied list of targets would hang the command.      *)
THEOREM NeverAtALoss == Spec => []CanGoOn
<1>1. Init => WorkInv
  BY ReleaseAssumption DEF Init, WorkInv
<1>2. TypeOK /\ WorkInv => CanGoOn
  <2>1. ASSUME TypeOK PROVE undumped \subseteq Nat /\ todo \subseteq Nat
    BY <2>1, HostAssumption, ReleaseAssumption DEF TypeOK
  <2>2. QED
    BY <2>1, LowestExists DEF WorkInv, CanGoOn
<1>3. QED
  BY <1>1, <1>2, TypeInit, TypeNext, OrderInit, OrderNext, WorkNext, PTL DEF Spec

\* The calls of prepareRelease() in their order, and the places of the command
\* within one of them.
PhaseRank(ph) ==
  CASE ph = "plan" -> 1 [] ph = "svcCheck" -> 2 [] ph = "svcPoll" -> 3
    [] ph = "termCheck" -> 4 [] ph = "termAfter" -> 5
    [] ph = "forceCheck" -> 6 [] ph = "forceAfter" -> 7

PcRank(at) ==
  CASE at = "dump" -> 1 [] at = "scan" -> 2 [] at = "inspect" -> 3
    [] at = "stopUnit" -> 4 [] at = "signal" -> 4 [] at = "wait" -> 5

\* What is left to do where the command is.
Work ==
  CASE pc = "dump" -> undumped
    [] pc = "scan" -> unscanned
    [] pc = "inspect" -> uninspected
    [] pc \in {"signal", "wait"} -> todo
    [] OTHER -> {}

\* A step that brings the command closer to a prompt or to its end, or polls
\* once more before the time is up.
Forward ==
  \/ pc' \in Prompts \cup {"done"}
  \/ PhaseRank(phase') > PhaseRank(phase)
  \/ phase' = phase /\ PcRank(pc') > PcRank(pc)
  \/ phase' = phase /\ pc' = pc /\ Work' \subseteq Work /\ Work' # Work
  \/ /\ phase = "svcPoll" /\ phase' = "svcPoll"
     /\ pc = "inspect" /\ pc' = "dump" /\ clock < Grace

LEMMA ForwardStep == TypeOK /\ OrderInv /\ (Lx \/ User) => Forward
<1> SUFFICES ASSUME TypeOK, OrderInv, Lx \/ User PROVE Forward
  OBVIOUS
<1>1. ASSUME NEW k \in Kinds, Dump(k) PROVE Forward
  <2>1. k \in undumped /\ undumped' = undumped \ {k} /\ phase' = phase /\ pc = "dump"
    BY <1>1 DEF Dump, Lowest
  <2>2. pc' \in {"dump", "done", "inspect", "scan"}
    BY <1>1, <2>1 DEF Dump, Finish
  <2>3. QED
    BY <2>1, <2>2 DEF Forward, Work, PcRank
<1>2. ASSUME NEW p \in Pids, ScanPid(p) PROVE Forward
  <2>1. p \in unscanned /\ unscanned' = unscanned \ {p} /\ phase' = phase /\ pc = "scan"
    BY <1>2 DEF ScanPid
  <2>2. pc' \in {"scan", "inspect"}
    BY <1>2, <2>1 DEF ScanPid, EndScan
  <2>3. QED
    BY <2>1, <2>2 DEF Forward, Work, PcRank
<1>3. ASSUME ScanCut PROVE Forward
  BY <1>3 DEF ScanCut, EndScan, Forward, PcRank
<1>4. ASSUME ScanFails \/ InspectThrows \/ WaitFails \/ PlanReady \/ TermAfter \/ ForceAfter
      PROVE  pc' \in Prompts \cup {"done"}
  BY <1>4 DEF ScanFails, InspectThrows, WaitFails, PlanReady, TermAfter, ForceAfter, Finish,
              Prompts
<1>5. ASSUME NEW p \in Pids, Inspect(p) PROVE Forward
  BY <1>5 DEF Inspect, Forward, Work
<1>6. ASSUME NEW q, NEW d, NEW ph, Ask(q, d, ph) PROVE pc' = "done" \/ phase' = ph
  BY <1>6 DEF Ask, Observe, Finish
<1>7. ASSUME User PROVE Forward
  <2>1. CASE ConfirmStop
    <3>1. phase = "plan"
      BY <2>1 DEF ConfirmStop, Ask, OrderInv, PositionInv
    <3>2. pc' = "done" \/ phase' = "svcCheck"
      BY <1>6, <2>1 DEF ConfirmStop
    <3>3. QED
      BY <3>1, <3>2 DEF Forward, PhaseRank
  <2>2. CASE ConfirmTerm
    <3>1. phase = "plan"
      BY <2>2 DEF ConfirmTerm, Ask, OrderInv, PositionInv
    <3>2. pc' = "done" \/ phase' = "termCheck"
      BY <1>6, <2>2 DEF ConfirmTerm
    <3>3. QED
      BY <3>1, <3>2 DEF Forward, PhaseRank
  <2>3. CASE ConfirmKill
    <3>1. phase = "termAfter"
      BY <2>3 DEF ConfirmKill, Ask, OrderInv, PositionInv
    <3>2. pc' = "done" \/ phase' = "forceCheck"
      BY <1>6, <2>3 DEF ConfirmKill
    <3>3. QED
      BY <3>1, <3>2 DEF Forward, PhaseRank
  <2>4. QED
    BY <1>7, <2>1, <2>2, <2>3 DEF User
<1>8. ASSUME NEW ph, NEW v, NEW goOn \in {"stopUnit", "signal"}, NEW t, Recheck(ph, v, goOn, t)
      PROVE  Forward
  <2>1. pc = "inspect" /\ phase' = phase /\ pc' \in {"done", "stopUnit", "signal"}
    BY <1>8 DEF Recheck, Observed, Finish
  <2>2. QED
    BY <2>1 DEF Forward, PcRank
<1>9. ASSUME StopUnit PROVE Forward
  <2>1. phase = "svcCheck" /\ (pc' = "done" \/ phase' = "svcPoll")
    BY <1>9 DEF StopUnit, Observe, Finish, OrderInv, PositionInv
  <2>2. QED
    BY <2>1 DEF Forward, PhaseRank
<1>10. ASSUME SvcPoll PROVE Forward
  <2>1. /\ phase = "svcPoll" /\ pc = "inspect"
        /\ pc' = "done" \/ (pc' = "dump" /\ phase' = "svcPoll" /\ ~(clock >= Grace))
    BY <1>10 DEF SvcPoll, PollUntil, Observed, Observe, Finish
  <2>2. clock \in Nat /\ Grace \in Nat
    BY ReleaseAssumption DEF TypeOK
  <2>3. QED
    BY <2>1, <2>2 DEF Forward
<1>11. ASSUME NEW p \in Pids, Signal(p) PROVE Forward
  <2>1. p \in todo /\ pc = "signal" /\ phase' = phase
    BY <1>11 DEF Signal, Lowest
  <2>2. \/ pc' \in {"wait", "done"}
        \/ pc' = "signal" /\ todo' = todo \ {p}
    BY <1>11, <2>1 DEF Signal, Finish
  <2>3. QED
    BY <2>1, <2>2 DEF Forward, Work, PcRank
<1>12. ASSUME NEW p \in Pids, Wait(p) PROVE Forward
  <2>1. /\ p \in todo /\ todo' = todo \ {p} /\ pc = "wait"
        /\ phase \in {"termCheck", "forceCheck"}
    BY <1>12 DEF Wait, Lowest, OrderInv, PositionInv
  <2>2. \/ phase' = IF phase = "termCheck" THEN "termAfter" ELSE "forceAfter"
        \/ phase' = phase /\ pc' = pc
    BY <1>12 DEF Wait, Observe
  <2>3. QED
    BY <2>1, <2>2 DEF Forward, Work, PhaseRank
<1>13. QED
  BY <1>1, <1>2, <1>3, <1>4, <1>5, <1>7, <1>8, <1>9, <1>10, <1>11, <1>12
     DEF Lx, Look, Act, Decide, SvcCheck, TermCheck, ForceCheck, Forward

(* No step of `lx port free` goes back: each comes to a prompt or the end, *)
(* to a later call of prepareRelease(), to a later place within one, or    *)
(* leaves less to do where it is; but for stopManagedService(), which may  *)
(* look at the port again only while the grace period lasts.  So between   *)
(* two prompts the command takes finitely many steps.                      *)
THEOREM NoStepBack == Spec => [][Lx \/ User => Forward]_vars
BY TypeInit, TypeNext, OrderInit, OrderNext, ForwardStep, PTL DEF Spec

=============================================================================
