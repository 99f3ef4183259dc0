----------------------------- MODULE TuiProofs ------------------------------
(***************************************************************************)
(* Proofs about the terminal UI, for every set of resources, every list of *)
(* snapshots, every number of jobs and whatever uninitialised memory reads *)
(* as: the task worker in the hands of any caller, the prompts of the      *)
(* event handler, and what reaches the task worker through them.           *)
(***************************************************************************)
EXTENDS Tui, TLAPS

-----------------------------------------------------------------------------
(* The task worker, in the hands of any caller. *)

\* Who holds the last accepted job, and what it says about the flags.
HandOverInv ==
  /\ pending # 0 => pending = Len(jobs) /\ thread \notin {"running", "ran"}
  /\ busy <=> thread \in {"running", "ran"}
  /\ thread \in {"running", "ran"} => job = Len(jobs) /\ job # 0

\* Jobs that were never accepted, or wait, or are about to run, have not run.
RunsInv ==
  \A n \in 1..MaxJobs :
    runs[n] = IF n > Len(jobs) \/ n = pending \/ (n = job /\ thread = "running")
                THEN 0 ELSE 1

TaskInv == HandOverInv /\ RunsInv /\ LatestResult

LEMMA TaskTypeInit == TaskInit => TaskTypeOK /\ TaskInv
<1> SUFFICES ASSUME TaskInit PROVE TaskTypeOK /\ TaskInv
  OBVIOUS
<1>. USE TaskAssumption
<1>1. jobs \in Seq(Task) /\ Len(jobs) = 0
  BY DEF TaskInit
<1>2. result \in Text
  BY DEF TaskInit, NoText, Text
<1>3. runs \in [1..MaxJobs -> Nat]
  BY DEF TaskInit
<1>4. TaskTypeOK
  <2>1. pending \in 0..MaxJobs /\ job \in 0..MaxJobs /\ Len(jobs) <= MaxJobs
    BY <1>1 DEF TaskInit
  <2>2. busy \in BOOLEAN
    BY DEF TaskInit
  <2>3. /\ thread \in {"check", "asleep", "running", "ran", "notify", "ended"}
        /\ stopping \in {"uninit", "no", "yes"}
    BY DEF TaskInit
  <2>4. QED
    BY <1>1, <1>2, <1>3, <2>1, <2>2, <2>3 DEF TaskTypeOK
<1>5. HandOverInv
  <2>1. pending = 0 /\ ~busy /\ thread \notin {"running", "ran"}
    BY DEF TaskInit
  <2>2. QED
    BY <2>1 DEF HandOverInv
<1>6. RunsInv
  <2>1. \A n \in 1..MaxJobs : runs[n] = 0 /\ n > Len(jobs)
    BY <1>1 DEF TaskInit
  <2>2. QED
    BY <2>1 DEF RunsInv
<1>7. LatestResult
  BY DEF TaskInit, LatestResult, NoText
<1>8. QED
  BY <1>4, <1>5, <1>6, <1>7 DEF TaskInv

(* submit(): an accepted job is the last one, and has the slot to itself. *)
LEMMA SubmitStep ==
  ASSUME TaskTypeOK, TaskInv, NEW t \in Task, Submit(t)
  PROVE  TaskTypeOK' /\ TaskInv'
<1>. USE TaskAssumption
<1>1. CASE pending = 0 /\ ~busy
  <2>1. /\ Len(jobs) < MaxJobs
        /\ jobs' = Append(jobs, t)
        /\ pending' = Len(jobs')
        /\ result' = [kind |-> "loading", of |-> Len(jobs')]
        /\ thread' = IF thread = "asleep" THEN "check" ELSE thread
        /\ UNCHANGED <<busy, stopping, job, runs>>
    BY <1>1 DEF Submit, Wake
  <2>2. jobs' \in Seq(Task) /\ Len(jobs') = Len(jobs) + 1 /\ Len(jobs) \in Nat
    BY <2>1 DEF TaskTypeOK
  <2>3. Len(jobs') \in 1..MaxJobs
    BY <2>1, <2>2
  <2>4. TaskTypeOK'
    BY <2>1, <2>2, <2>3 DEF TaskTypeOK, Text
  <2>5. thread \notin {"running", "ran"}
    BY <1>1 DEF TaskInv, HandOverInv
  <2>6. HandOverInv'
    BY <1>1, <2>1, <2>5 DEF TaskInv, HandOverInv
  <2>7. RunsInv'
    BY <1>1, <2>1, <2>2, <2>3, <2>5 DEF TaskInv, RunsInv
  <2>8. LatestResult'
    BY <2>1 DEF LatestResult
  <2>9. QED
    BY <2>4, <2>6, <2>7, <2>8 DEF TaskInv
<1>2. CASE ~(pending = 0 /\ ~busy)
  BY <1>2 DEF Submit, TaskTypeOK, TaskInv, HandOverInv, RunsInv, LatestResult
<1>3. QED
  BY <1>1, <1>2

LEMMA TaskStep ==
  TaskTypeOK /\ TaskInv /\ [TaskNext]_taskVars => TaskTypeOK' /\ TaskInv'
<1> SUFFICES ASSUME TaskTypeOK, TaskInv, [TaskNext]_taskVars
             PROVE  TaskTypeOK' /\ TaskInv'
  OBVIOUS
<1>. USE TaskAssumption
<1>1. CASE Constructed
  BY <1>1 DEF Constructed, TaskTypeOK, TaskInv, HandOverInv, RunsInv, LatestResult
<1>2. CASE Clear
  <2>1. NoText \in Text
    BY DEF NoText, Text
  <2>2. QED
    BY <1>2, <2>1 DEF Clear, TaskTypeOK, TaskInv, HandOverInv, RunsInv,
       LatestResult, NoText
<1>3. CASE Stop
  BY <1>3 DEF Stop, Wake, TaskTypeOK, TaskInv, HandOverInv, RunsInv, LatestResult
<1>4. CASE \E t \in Task : Submit(t)
  BY <1>4, SubmitStep
<1>5. CASE Check
  <2>1. thread = "check" /\ ~busy
    BY <1>5 DEF Check, TaskInv, HandOverInv
  <2>2. UNCHANGED <<stopping, result, jobs, runs>>
    BY <1>5 DEF Check
  <2>3. CASE thread' \in {"ended", "asleep"} /\ UNCHANGED <<pending, busy, job>>
    BY <2>1, <2>2, <2>3 DEF TaskTypeOK, TaskInv, HandOverInv, RunsInv,
       LatestResult
  <2>4. CASE /\ pending # 0 /\ thread' = "running" /\ job' = pending
             /\ pending' = 0 /\ busy' = TRUE
    <3>1. TaskTypeOK'
      BY <2>1, <2>2, <2>4 DEF TaskTypeOK
    <3>2. pending = Len(jobs)
      BY <2>4 DEF TaskInv, HandOverInv
    <3>3. HandOverInv' /\ LatestResult'
      BY <2>1, <2>2, <2>4, <3>2 DEF TaskInv, HandOverInv, LatestResult
    <3>4. RunsInv'
      BY <2>1, <2>2, <2>4, <3>2 DEF TaskInv, RunsInv, TaskTypeOK
    <3>5. QED
      BY <3>1, <3>3, <3>4 DEF TaskInv
  <2>5. QED
    BY <1>5, <2>3, <2>4 DEF Check
<1>6. CASE Run
  <2>1. /\ thread = "running" /\ thread' = "ran"
        /\ runs' = [runs EXCEPT ![job] = @ + 1]
        /\ UNCHANGED <<pending, busy, stopping, result, job, jobs>>
    BY <1>6 DEF Run
  <2>2. job \in 1..MaxJobs /\ job = Len(jobs) /\ pending = 0
    BY <2>1 DEF TaskTypeOK, TaskInv, HandOverInv
  <2>3. TaskTypeOK'
    BY <2>1, <2>2 DEF TaskTypeOK
  <2>4. HandOverInv' /\ LatestResult'
    BY <2>1 DEF TaskInv, HandOverInv, LatestResult
  <2>5. RunsInv'
    BY <2>1, <2>2 DEF TaskInv, RunsInv, TaskTypeOK
  <2>6. QED
    BY <2>3, <2>4, <2>5 DEF TaskInv
<1>7. CASE Publish
  <2>1. [kind |-> "value", of |-> job] \in Text
    BY DEF TaskTypeOK, Text
  <2>2. TaskTypeOK'
    BY <1>7, <2>1 DEF Publish, TaskTypeOK
  <2>3. HandOverInv'
    BY <1>7 DEF Publish, TaskInv, HandOverInv
  <2>4. RunsInv'
    BY <1>7 DEF Publish, TaskInv, RunsInv
  <2>5. LatestResult'
    BY <1>7 DEF Publish, TaskInv, HandOverInv, LatestResult
  <2>6. QED
    BY <2>2, <2>3, <2>4, <2>5 DEF TaskInv
<1>8. CASE Notify
  BY <1>8 DEF Notify, TaskTypeOK, TaskInv, HandOverInv, RunsInv, LatestResult
<1>9. CASE SpuriousWakeup
  BY <1>9 DEF SpuriousWakeup, TaskTypeOK, TaskInv, HandOverInv, RunsInv,
     LatestResult
<1>10. CASE UNCHANGED taskVars
  BY <1>10 DEF taskVars, TaskTypeOK, TaskInv, HandOverInv, RunsInv, LatestResult
<1>11. QED
  BY <1>1, <1>2, <1>3, <1>4, <1>5, <1>6, <1>7, <1>8, <1>9, <1>10
     DEF TaskNext, Worker

LEMMA TaskInvImplies == TaskTypeOK /\ TaskInv => JobsRunOnce /\ LatestResult
<1> SUFFICES ASSUME TaskTypeOK, TaskInv PROVE JobsRunOnce /\ LatestResult
  OBVIOUS
<1>1. pending # 0 => ~busy
  BY DEF TaskInv, HandOverInv
<1>2. ASSUME NEW n \in 1..Len(jobs)
      PROVE  runs[n] = IF n = pending \/ (n = job /\ thread = "running")
                         THEN 0 ELSE 1
  <2>1. Len(jobs) \in Nat /\ Len(jobs) <= MaxJobs
    BY DEF TaskTypeOK
  <2>2. n \in 1..MaxJobs /\ ~(n > Len(jobs))
    BY <1>2, <2>1, TaskAssumption
  <2>3. QED
    BY <2>2 DEF TaskInv, RunsInv
<1>3. QED
  BY <1>1, <1>2 DEF JobsRunOnce, TaskInv

(* Whoever calls the task worker, jobs never overlap, and an accepted job  *)
(* runs exactly once before the next one is accepted.                      *)
THEOREM JobsExactlyOnce == TaskSpec => []JobsRunOnce
BY TaskTypeInit, TaskStep, TaskInvImplies, PTL DEF TaskSpec

(* The text on display is never that of a job older than the last one.     *)
THEOREM ResultIsLatest == TaskSpec => []LatestResult
BY TaskTypeInit, TaskStep, TaskInvImplies, PTL DEF TaskSpec

-----------------------------------------------------------------------------
(* Why tasks are run and the destructor returns.  (That they are, under    *)
(* the fairness of FairSpec, is AcceptedRuns and LeavingEnds.)             *)

\* The thread never sleeps on a job or on the end of the UI, and, unless it
\* read stopping_ too early, it is there until it is told to stop.
NoWakeupLost ==
  /\ thread = "asleep" => pending = 0 /\ stopping # "yes"
  /\ thread = "ended" => stopping = "yes" \/ TRUE \in Garbage

LEMMA WakeupStep ==
  TaskTypeOK /\ NoWakeupLost /\ [TaskNext]_taskVars => NoWakeupLost'
<1> SUFFICES ASSUME TaskTypeOK, NoWakeupLost, [TaskNext]_taskVars PROVE NoWakeupLost'
  OBVIOUS
<1>1. CASE Constructed
  BY <1>1 DEF Constructed, NoWakeupLost
<1>2. CASE Clear \/ UNCHANGED taskVars
  BY <1>2 DEF Clear, taskVars, NoWakeupLost
<1>3. CASE Stop
  BY <1>3 DEF Stop, Wake, NoWakeupLost
<1>4. ASSUME NEW t \in Task, Submit(t) PROVE NoWakeupLost'
  BY <1>4 DEF Submit, Wake, NoWakeupLost
<1>5. CASE Check
  <2>1. PICK stop \in ReadsStopping :
          IF stop THEN thread' = "ended" /\ UNCHANGED <<pending, busy, job>>
          ELSE IF pending # 0 THEN thread' = "running"
          ELSE thread' = "asleep" /\ UNCHANGED <<pending, busy, job>>
    BY <1>5 DEF Check
  <2>2. stopping' = stopping
    BY <1>5 DEF Check
  <2>3. CASE stop
    <3>1. stopping = "yes" \/ TRUE \in Garbage
      BY <2>3, TaskAssumption DEF ReadsStopping
    <3>2. QED
      BY <2>1, <2>2, <2>3, <3>1 DEF NoWakeupLost
  <2>4. CASE ~stop
    <3>1. stopping # "yes"
      BY <2>4 DEF ReadsStopping
    <3>2. QED
      BY <2>1, <2>2, <2>4, <3>1 DEF NoWakeupLost
  <2>5. QED
    BY <2>3, <2>4
<1>6. CASE Run \/ Publish \/ Notify \/ SpuriousWakeup
  BY <1>6 DEF Run, Publish, Notify, SpuriousWakeup, NoWakeupLost
<1>7. QED
  BY <1>1, <1>2, <1>3, <1>4, <1>5, <1>6 DEF TaskNext, Worker

(* Whatever the order in which submit(), the destructor and the thread get *)
(* the mutex, the thread is not asleep while a job is pending or the UI    *)
(* waits for it to end; and it ends early only if it can read stopping_    *)
(* before the constructor has set it.                                      *)
THEOREM WakeupsArrive == TaskSpec => []NoWakeupLost
<1>1. TaskInit => NoWakeupLost
  BY DEF TaskInit, NoWakeupLost
<1>2. QED
  BY <1>1, TaskTypeInit, TaskStep, WakeupStep, PTL DEF TaskSpec

ToTheEnd(t) ==
  CASE t = "running" -> 0 [] t = "ran" -> 1 [] t = "notify" -> 2
    [] t = "check" -> 3 [] t = "ended" -> 4 [] OTHER -> 0

\* Told to stop, the thread finishes the job in hand and begins no other.
StopFinishes ==
  stopping = "yes" =>
    /\ thread' = thread \/ ToTheEnd(thread') > ToTheEnd(thread)
    /\ job' \in {job, 0}

(* Once the destructor has set stopping_ every step of the thread takes it *)
(* closer to its end, which is at most four steps away, and no job that    *)
(* was still pending is begun.                                             *)
THEOREM StopIsFinal == TaskSpec => [][StopFinishes]_taskVars
<1>1. ASSUME TaskTypeOK, NoWakeupLost, [TaskNext]_taskVars PROVE [StopFinishes]_taskVars
  <2> SUFFICES ASSUME stopping = "yes", TaskNext
               PROVE  /\ thread' = thread \/ ToTheEnd(thread') > ToTheEnd(thread)
                      /\ job' \in {job, 0}
    BY <1>1 DEF StopFinishes
  <2>1. thread # "asleep"
    BY <1>1 DEF NoWakeupLost
  <2>2. CASE Constructed \/ Clear \/ Stop \/ SpuriousWakeup
    BY <2>1, <2>2 DEF Constructed, Clear, Stop, SpuriousWakeup
  <2>3. CASE \E t \in Task : Submit(t)
    BY <2>1, <2>3 DEF Submit, Wake
  <2>4. CASE Check
    <3>1. ReadsStopping = {TRUE}
      BY DEF ReadsStopping
    <3>2. thread = "check" /\ thread' = "ended" /\ job' = job
      BY <2>4, <3>1 DEF Check
    <3>3. QED
      BY <3>2 DEF ToTheEnd
  <2>5. CASE Run \/ Publish \/ Notify
    BY <2>5 DEF Run, Publish, Notify, ToTheEnd
  <2>6. QED
    BY <2>2, <2>3, <2>4, <2>5 DEF TaskNext, Worker
<1>2. TaskInit => NoWakeupLost
  BY DEF TaskInit, NoWakeupLost
<1>3. QED
  BY <1>1, <1>2, TaskTypeInit, TaskStep, WakeupStep, PTL DEF TaskSpec

-----------------------------------------------------------------------------
(* The prompts and the views. *)


\* What an open prompt holds: the target it shows is a resource, the process
\* of a process action is that target, and the user has said yes once less
\* than there are questions.
PromptInv ==
  /\ action # "None" => actionTarget # Nothing
  /\ action \in ProcessActions => actionPid = actionTarget
  /\ action # "None" => yes = 0 \/ (yes = 1 /\ action = "KillProcess")

TuiInv == TypeOK /\ PromptModal /\ PromptInv /\ ActionsConfirmed

\* The variables of the prompt and of the views have their types.
ViewTypeOK ==
  /\ ui \in {"constructing", "loop", "leaving", "closed"}
  /\ tab \in Tabs
  /\ selected \in [Tabs -> Nat]
  /\ searching \in BOOLEAN /\ query \in BOOLEAN /\ help \in BOOLEAN
  /\ action \in Actions \cup {"None"}
  /\ step \in 0..2
  /\ actionTarget \in Resources \cup {Nothing}
  /\ actionPid \in Processes \cup {Nothing}
  /\ snapshot \in {<<>>} \cup {<<s>> : s \in Snapshots}
  /\ yes \in 0..2

LEMMA TypeSplit == TypeOK <=> TaskTypeOK /\ ViewTypeOK
BY DEF TypeOK, ViewTypeOK

(* A row of a published snapshot is a resource of its panel. *)
LEMMA RowsTyped ==
  ASSUME TypeOK, snapshot # <<>>
  PROVE  /\ Rows(0) \in Seq(Services)
         /\ Rows(1) \in Seq(Ports)
         /\ Rows(2) \in Seq(Processes)
         /\ ItemCount(tab) \in Nat
<1>1. PICK s \in Snapshots : snapshot = <<s>>
  BY DEF TypeOK
<1>2. s \in [services : Seq(Services), ports : Seq(Ports),
             processes : Seq(Processes)]
  BY TuiAssumption
<1>3. /\ s.services \in Seq(Services)
      /\ s.ports \in Seq(Ports)
      /\ s.processes \in Seq(Processes)
  BY <1>2
<1>4. snapshot[1] = s
  BY <1>1
<1>5. /\ Rows(0) = s.services
      /\ Rows(1) = s.ports
      /\ Rows(2) = s.processes
  BY <1>4 DEF Rows
<1>6. tab = 0 \/ tab = 1 \/ tab = 2
  BY DEF TypeOK, Tabs
<1>7. Len(s.services) \in Nat /\ Len(s.ports) \in Nat /\ Len(s.processes) \in Nat
  BY <1>3
<1>8. ItemCount(tab) \in Nat
  BY <1>5, <1>6, <1>7 DEF ItemCount
<1>9. QED
  BY <1>3, <1>5, <1>8

(* The selected row is a resource of the panel shown, or nothing. *)
LEMMA SelectedTyped ==
  ASSUME TypeOK, snapshot # <<>>
  PROVE  /\ SelectedResource \in Resources \cup {Nothing}
         /\ tab = 2 => SelectedResource \in Processes \cup {Nothing}
<1>1. selected[tab] \in Nat /\ tab \in 0..2
  BY DEF TypeOK, Tabs
<1>2. CASE ~(selected[tab] < ItemCount(tab))
  BY <1>2 DEF SelectedResource
<1>3. CASE selected[tab] < ItemCount(tab)
  <2>1. selected[tab] + 1 \in 1..Len(Rows(tab))
    BY <1>1, <1>3, RowsTyped DEF ItemCount
  <2>2. SelectedResource = Rows(tab)[selected[tab] + 1]
    BY <1>3 DEF SelectedResource
  <2>3. CASE tab = 0
    <3>1. SelectedResource \in Services
      BY <2>1, <2>2, <2>3, RowsTyped
    <3>2. QED
      BY <2>3, <3>1 DEF Resources
  <2>4. CASE tab = 1
    <3>1. SelectedResource \in Ports
      BY <2>1, <2>2, <2>4, RowsTyped
    <3>2. QED
      BY <2>4, <3>1 DEF Resources
  <2>5. CASE tab = 2
    <3>1. SelectedResource \in Processes
      BY <2>1, <2>2, <2>5, RowsTyped
    <3>2. QED
      BY <2>5, <3>1 DEF Resources
  <2>6. QED
    BY <1>1, <2>3, <2>4, <2>5
<1>4. QED
  BY <1>2, <1>3

LEMMA LookTyped ==
  ASSUME NEW r \in Resources \cup {Nothing}
  PROVE  Look(r) \in Task /\ Look(r).op \notin Actions
<1>1. Look(r) \in Jobs
  BY DEF Look, Jobs
<1>2. Look(r).op \notin Actions
  BY DEF Look, Actions, ServiceActions, ProcessActions
<1>3. QED
  BY <1>1, <1>2, TuiAssumption

-----------------------------------------------------------------------------
(* What reaches the worker. *)

\* A job the user confirmed, if it is an action.
Confirmed(t) ==
  t.op \in Actions =>
    /\ t.target = t.shown
    /\ t.target # Nothing
    /\ t.yes = IF t.op = "KillProcess" THEN 2 ELSE 1

(* submit() of a confirmed job keeps the accepted actions confirmed. *)
LEMMA SubmitConfirmed ==
  ASSUME TypeOK, ActionsConfirmed, NEW t \in Task, Confirmed(t), Submit(t)
  PROVE  ActionsConfirmed'
<1>1. jobs \in Seq(Task)
  BY DEF TypeOK, TaskTypeOK
<1>2. CASE jobs' = Append(jobs, t)
  <2>1. ASSUME NEW n \in 1..Len(jobs')
        PROVE  Confirmed(jobs'[n])
    <3>1. Len(jobs') = Len(jobs) + 1 /\ Len(jobs) \in Nat
      BY <1>1, <1>2
    <3>2. CASE n \in 1..Len(jobs)
      <4>1. jobs'[n] = jobs[n]
        BY <1>1, <1>2, <3>1, <3>2
      <4>2. QED
        BY <3>2, <4>1 DEF ActionsConfirmed, Confirmed
    <3>3. CASE n = Len(jobs) + 1
      <4>1. jobs'[n] = t
        BY <1>1, <1>2, <3>3
      <4>2. QED
        BY <4>1
    <3>4. QED
      BY <2>1, <3>1, <3>2, <3>3
  <2>2. QED
    BY <2>1 DEF ActionsConfirmed, Confirmed
<1>3. CASE UNCHANGED jobs
  BY <1>3 DEF ActionsConfirmed
<1>4. QED
  BY <1>2, <1>3 DEF Submit

\* The job that the last yes to a prompt submits.
PromptJob ==
  [op |-> action,
   target |-> IF action \in ServiceActions THEN actionTarget ELSE actionPid,
   shown |-> actionTarget, yes |-> yes + 1]

(* The job of an answered prompt is for what the prompt showed. *)
LEMMA PromptJobConfirmed ==
  ASSUME TypeOK, PromptModal, PromptInv, action # "None",
         ~(action = "KillProcess" /\ step = 1)
  PROVE  PromptJob \in Task /\ Confirmed(PromptJob)
<1>1. action \in Actions
  BY DEF TypeOK
<1>2. action \in ProcessActions => actionPid = actionTarget
  BY DEF PromptInv
<1>3. actionTarget # Nothing /\ actionTarget \in Resources \cup {Nothing}
  BY DEF PromptInv, TypeOK
<1>4. yes + 1 = IF action = "KillProcess" THEN 2 ELSE 1
  BY DEF PromptInv, PromptModal
<1>5. PromptJob.op = action /\ PromptJob.shown = actionTarget
      /\ PromptJob.target = actionTarget /\ PromptJob.yes = yes + 1
  BY <1>1, <1>2 DEF PromptJob, Actions
<1>6. PromptJob \in Jobs
  BY <1>1, <1>2, <1>3, <1>4 DEF PromptJob, Jobs, Actions
<1>7. QED
  BY <1>3, <1>4, <1>5, <1>6, TuiAssumption DEF Confirmed

(* Every step of the UI is a step of the task worker or leaves it alone,   *)
(* and what it submits was confirmed.                                      *)
LEMMA StepForTask ==
  ASSUME TuiInv, [Next]_vars
  PROVE  [TaskNext]_taskVars /\ ActionsConfirmed'
<1>1. SUFFICES \/ \E t \in Task : Submit(t) /\ Confirmed(t)
               \/ (Constructed \/ Clear \/ Stop \/ Worker \/ SpuriousWakeup)
               \/ UNCHANGED taskVars
  <2>1. CASE \E t \in Task : Submit(t) /\ Confirmed(t)
    BY <2>1, SubmitConfirmed DEF TuiInv, TaskNext
  <2>2. CASE Constructed \/ Clear \/ Stop \/ Worker \/ SpuriousWakeup
    <3>1. UNCHANGED jobs
      BY <2>2 DEF Constructed, Clear, Stop, Worker, SpuriousWakeup, Check, Run,
         Publish, Notify
    <3>2. QED
      BY <2>2, <3>1 DEF TaskNext, TuiInv, ActionsConfirmed
  <2>3. CASE UNCHANGED taskVars
    BY <2>3 DEF taskVars, TuiInv, ActionsConfirmed
  <2>4. QED
    BY <1>1, <2>1, <2>2, <2>3
<1>2. Nothing \in Resources \cup {Nothing}
  OBVIOUS
<1>3. CASE PressYes
  <2>1. CASE action = "KillProcess" /\ step = 1
    BY <1>3, <2>1 DEF PressYes
  <2>2. CASE ~(action = "KillProcess" /\ step = 1)
    <3>1. Submit(PromptJob) /\ action # "None"
      BY <1>3, <2>2 DEF PressYes, PromptJob
    <3>2. QED
      BY <2>2, <3>1, PromptJobConfirmed DEF TuiInv
  <2>3. QED
    BY <2>1, <2>2
<1>4. CASE EnterSearch
  BY <1>2, <1>4, LookTyped DEF EnterSearch, Confirmed
<1>5. CASE InspectSelected
  BY <1>5, LookTyped, SelectedTyped DEF InspectSelected, Confirmed, TuiInv
<1>6. CASE ShowLogs
  <2>1. (IF tab = 1 THEN Nothing ELSE SelectedResource) \in Resources \cup {Nothing}
    BY <1>2, <1>6, SelectedTyped DEF ShowLogs, TuiInv
  <2>2. QED
    BY <1>6, <2>1, LookTyped DEF ShowLogs, Confirmed
<1>7. CASE PressServiceAction \/ PressProcessAction \/ CloseView \/ ToggleHelp
  BY <1>7 DEF PressServiceAction, PressProcessAction, CloseView, ToggleHelp
<1>8. CASE PressNo \/ TypeQuery \/ Quit \/ StartSearch \/ SwitchTab \/ MoveUp
             \/ MoveDown \/ JoinTasks \/ NewSnapshot
  BY <1>8 DEF PressNo, TypeQuery, Quit, StartSearch, SwitchTab, MoveUp, MoveDown,
     JoinTasks, NewSnapshot
<1>9. CASE EnterLoop \/ StopTasks \/ Thread
  BY <1>9 DEF EnterLoop, StopTasks, Thread
<1>10. CASE Closed \/ UNCHANGED vars
  BY <1>10 DEF Closed, vars
<1>11. QED
  BY <1>3, <1>4, <1>5, <1>6, <1>7, <1>8, <1>9, <1>10 DEF Next, Key

-----------------------------------------------------------------------------
(* What the keys do to the prompt. *)

LEMMA StepForPrompt ==
  ASSUME TuiInv, [Next]_vars
  PROVE  ViewTypeOK' /\ PromptModal' /\ PromptInv'
<1>. USE DEF TuiInv
<1>1. ViewTypeOK
  BY TypeSplit
<1>2. CASE PressNo
  <2>1. UNCHANGED <<ui, modeVars, actionTarget, actionPid, snapshot, yes>>
        /\ action' = "None" /\ step' = 0
    BY <1>2 DEF PressNo, Dismiss
  <2>2. QED
    BY <1>1, <2>1 DEF ViewTypeOK, modeVars, PromptModal, PromptInv, Actions,
       ServiceActions, ProcessActions
<1>3. CASE PressYes
  <2>1. /\ action # "None" /\ yes' = yes + 1
        /\ UNCHANGED <<ui, modeVars, actionTarget, actionPid, snapshot>>
    BY <1>3 DEF PressYes
  <2>2. yes \in {0, 1} /\ step = yes + 1 /\ ~searching
    BY <2>1 DEF PromptInv, PromptModal
  <2>3. CASE action = "KillProcess" /\ step = 1
    <3>1. step' = 2 /\ UNCHANGED <<action>>
      BY <1>3, <2>3 DEF PressYes
    <3>2. yes = 0 /\ yes' = 1
      BY <2>1, <2>2, <2>3
    <3>3. ViewTypeOK'
      BY <1>1, <2>1, <3>1, <3>2 DEF ViewTypeOK, modeVars
    <3>4. PromptModal'
      BY <2>1, <2>2, <2>3, <3>1, <3>2 DEF PromptModal, modeVars
    <3>5. PromptInv'
      BY <2>1, <2>3, <3>1, <3>2 DEF PromptInv
    <3>6. QED
      BY <3>3, <3>4, <3>5
  <2>4. CASE ~(action = "KillProcess" /\ step = 1)
    <3>1. action' = "None" /\ step' = 0
      BY <1>3, <2>4 DEF PressYes, Dismiss
    <3>2. yes' \in 0..2
      BY <2>1, <2>2
    <3>3. ViewTypeOK'
      BY <1>1, <2>1, <3>1, <3>2 DEF ViewTypeOK, modeVars
    <3>4. PromptModal' /\ PromptInv'
      BY <3>1 DEF PromptModal, PromptInv, ProcessActions
    <3>5. QED
      BY <3>3, <3>4
  <2>5. QED
    BY <2>3, <2>4
<1>4. CASE PressServiceAction
  <2>1. /\ action' \in ServiceActions /\ step' = 1 /\ yes' = 0
        /\ actionTarget' = SelectedResource /\ SelectedResource # Nothing
        /\ UNCHANGED <<ui, modeVars, actionPid, snapshot>>
        /\ ~searching
    BY <1>4 DEF PressServiceAction, Browsing
  <2>2. SelectedResource \in Resources \cup {Nothing}
    BY <1>4, SelectedTyped DEF PressServiceAction
  <2>3. ViewTypeOK'
    BY <1>1, <2>1, <2>2 DEF ViewTypeOK, modeVars, Actions
  <2>4. action' # "None" /\ action' \notin ProcessActions
    BY <2>1 DEF ServiceActions, ProcessActions
  <2>5. PromptModal'
    BY <2>1, <2>4 DEF PromptModal, modeVars
  <2>6. PromptInv'
    BY <2>1, <2>4 DEF PromptInv
  <2>7. QED
    BY <2>3, <2>5, <2>6
<1>5. CASE PressProcessAction
  <2>1. /\ action' \in ProcessActions /\ step' = 1 /\ yes' = 0
        /\ actionTarget' = SelectedResource /\ actionPid' = SelectedResource
        /\ SelectedResource # Nothing
        /\ UNCHANGED <<ui, modeVars, snapshot>>
        /\ ~searching
    BY <1>5 DEF PressProcessAction, Browsing
  <2>2. /\ SelectedResource \in Resources \cup {Nothing}
        /\ SelectedResource \in Processes \cup {Nothing}
    BY <1>5, SelectedTyped DEF PressProcessAction
  <2>3. ViewTypeOK'
    BY <1>1, <2>1, <2>2 DEF ViewTypeOK, modeVars, Actions
  <2>4. action' # "None"
    BY <2>1 DEF ProcessActions
  <2>5. PromptModal'
    BY <2>1, <2>4 DEF PromptModal, modeVars
  <2>6. PromptInv'
    BY <2>1, <2>4 DEF PromptInv
  <2>7. QED
    BY <2>3, <2>5, <2>6
<1>6. CASE EnterSearch \/ TypeQuery \/ CloseView \/ ToggleHelp \/ StartSearch
  <2>1. /\ UNCHANGED <<ui, tab, selected, promptVars, snapshot>>
        /\ searching' => action = "None"
    BY <1>6 DEF EnterSearch, TypeQuery, CloseView, ToggleHelp, StartSearch,
       Browsing
  <2>2. searching' \in BOOLEAN /\ query' \in BOOLEAN /\ help' \in BOOLEAN
    BY <1>1, <1>6 DEF EnterSearch, TypeQuery, CloseView, ToggleHelp, StartSearch,
       ViewTypeOK
  <2>3. ViewTypeOK'
    BY <1>1, <2>1, <2>2 DEF ViewTypeOK, promptVars
  <2>4. PromptModal' /\ PromptInv'
    BY <2>1, <2>2 DEF PromptModal, PromptInv, promptVars
  <2>5. QED
    BY <2>3, <2>4
<1>7. CASE SwitchTab
  <2>1. tab' \in Tabs
    BY <1>1, <1>7 DEF SwitchTab, ViewTypeOK, Tabs
  <2>2. UNCHANGED <<ui, selected, searching, query, help, promptVars, snapshot>>
    BY <1>7 DEF SwitchTab
  <2>3. QED
    BY <1>1, <2>1, <2>2 DEF ViewTypeOK, promptVars, PromptModal, PromptInv
<1>8. CASE MoveUp \/ MoveDown
  <2>1. UNCHANGED <<ui, tab, searching, query, help, promptVars, snapshot>>
        /\ snapshot # <<>>
    BY <1>8 DEF MoveUp, MoveDown
  <2>2. ItemCount(tab) \in Nat /\ selected[tab] \in Nat
    BY <1>1, <2>1, RowsTyped DEF ViewTypeOK
  <2>3. \E k \in Nat : selected' = [selected EXCEPT ![tab] = k]
    BY <1>8, <2>2 DEF MoveUp, MoveDown
  <2>4. selected' \in [Tabs -> Nat]
    BY <1>1, <2>3 DEF ViewTypeOK
  <2>5. QED
    BY <1>1, <2>1, <2>4 DEF ViewTypeOK, promptVars, PromptModal, PromptInv
<1>9. CASE Quit \/ EnterLoop \/ JoinTasks
  <2>1. /\ UNCHANGED <<modeVars, promptVars, snapshot>>
        /\ ui' \in {"leaving", "loop", "closed"}
    BY <1>9 DEF Quit, EnterLoop, JoinTasks
  <2>2. QED
    BY <1>1, <2>1 DEF ViewTypeOK, modeVars, promptVars, PromptModal, PromptInv
<1>10. CASE NewSnapshot
  BY <1>1, <1>10 DEF NewSnapshot, ViewTypeOK, modeVars, promptVars, PromptModal,
     PromptInv
<1>11. CASE InspectSelected \/ ShowLogs \/ StopTasks \/ Thread \/ Closed
              \/ UNCHANGED vars
  <2>1. UNCHANGED <<ui, modeVars, promptVars, snapshot>>
    BY <1>11 DEF InspectSelected, ShowLogs, StopTasks, Thread, Closed, vars
  <2>2. QED
    BY <1>1, <2>1 DEF ViewTypeOK, modeVars, promptVars, PromptModal, PromptInv
<1>12. QED
  BY <1>2, <1>3, <1>4, <1>5, <1>6, <1>7, <1>8, <1>9, <1>10, <1>11 DEF Next, Key

-----------------------------------------------------------------------------

LEMMA TuiInit == Init => TuiInv /\ TaskInv
<1> SUFFICES ASSUME Init PROVE TuiInv /\ TaskInv
  OBVIOUS
<1>1. TaskTypeOK /\ TaskInv
  BY TaskTypeInit DEF Init
<1>2. ViewTypeOK
  <2>1. step \in 0..2 /\ yes \in 0..2 /\ tab \in Tabs
    BY DEF Init, Tabs
  <2>2. searching \in BOOLEAN /\ query \in BOOLEAN /\ help \in BOOLEAN
    BY DEF Init
  <2>3. selected \in [Tabs -> Nat]
    BY DEF Init
  <2>4. QED
    BY <2>1, <2>2, <2>3 DEF Init, ViewTypeOK
<1>3. PromptModal /\ PromptInv
  BY DEF Init, PromptModal, PromptInv, ProcessActions
<1>4. ActionsConfirmed
  <2>1. Len(jobs) = 0
    BY DEF Init, TaskInit
  <2>2. QED
    BY <2>1 DEF ActionsConfirmed
<1>5. QED
  BY <1>1, <1>2, <1>3, <1>4, TypeSplit DEF TuiInv

LEMMA TuiStep ==
  TuiInv /\ TaskInv /\ [Next]_vars => TuiInv' /\ TaskInv' /\ [TaskNext]_taskVars
<1> SUFFICES ASSUME TuiInv, TaskInv, [Next]_vars
             PROVE  TuiInv' /\ TaskInv' /\ [TaskNext]_taskVars
  OBVIOUS
<1>1. [TaskNext]_taskVars /\ ActionsConfirmed'
  BY StepForTask
<1>2. TaskTypeOK' /\ TaskInv'
  BY <1>1, TaskStep DEF TuiInv, TypeOK
<1>3. ViewTypeOK' /\ PromptModal' /\ PromptInv'
  BY StepForPrompt
<1>4. TypeOK'
  BY <1>2, <1>3 DEF TypeOK, ViewTypeOK
<1>5. QED
  BY <1>1, <1>2, <1>3, <1>4 DEF TuiInv

(* Every variable of the event handler and of the worker keeps its type. *)
THEOREM TypeCorrect == Spec => []TypeOK
<1>1. TuiInv => TypeOK
  BY DEF TuiInv
<1>2. QED
  BY <1>1, TuiInit, TuiStep, PTL DEF Spec

(* The event handler uses the worker the way the worker is specified: what *)
(* is proved of TaskSpec holds in the UI.                                  *)
THEOREM UsesTaskWorker == Spec => TaskSpec
<1>1. Init => TaskInit
  BY DEF Init
<1>2. QED
  BY <1>1, TuiInit, TuiStep, PTL DEF Spec, TaskSpec

(* An action that reaches the worker was confirmed as often as it must be, *)
(* for the target that the prompt showed.                                  *)
THEOREM OnlyConfirmedActions == Spec => []ActionsConfirmed
<1>1. TuiInv => ActionsConfirmed
  BY DEF TuiInv
<1>2. QED
  BY <1>1, TuiInit, TuiStep, PTL DEF Spec

(* No search field is open behind a prompt, and a dismissed prompt leaves  *)
(* no confirmation behind.                                                 *)
THEOREM PromptsAreModal == Spec => []PromptModal
<1>1. TuiInv => PromptModal
  BY DEF TuiInv
<1>2. QED
  BY <1>1, TuiInit, TuiStep, PTL DEF Spec

(* In the UI, too, every accepted job runs exactly once before the next. *)
THEOREM TuiJobsExactlyOnce == Spec => []JobsRunOnce
BY UsesTaskWorker, JobsExactlyOnce, PTL

=============================================================================
