----------------------------- MODULE TaskWorker -----------------------------
(***************************************************************************)
(* The background task worker of the terminal UI (class TaskWorker in      *)
(* FtxuiTuiRunner.cpp): one slot for a pending task, one thread that runs  *)
(* it, one result text, a mutex and a condition variable.  Each critical   *)
(* section is one step; the thread and the UI thread interleave freely.    *)
(*                                                                         *)
(* The thread is started by the constructor's initialiser of thread_,      *)
(* which comes before those of busy_ and stopping_: until the constructor  *)
(* reaches them their bytes are indeterminate, and what the thread reads   *)
(* there is any member of Garbage.                                         *)
(***************************************************************************)
EXTENDS Naturals, Sequences

CONSTANTS
  Task,      \* what can be submitted
  MaxJobs,   \* bound: tasks submitted in one run
  Garbage    \* what an uninitialised bool can read as in the build

ASSUME TaskAssumption ==
  /\ MaxJobs \in Nat
  /\ Garbage \subseteq BOOLEAN
  /\ Garbage # {}

VARIABLES
  thread,    \* where the worker thread is
  pending,   \* pending_: the number of the job waiting for the thread, or 0
  busy,      \* busy_
  stopping,  \* stopping_, "uninit" until the constructor has set it
  result,    \* result_: no text, "Loading...", or the text of a job
  job,       \* the job in the thread's hands, or 0
  jobs,      \* the accepted tasks, in order; history
  runs       \* runs[n]: how often job n was executed; history

taskVars == <<thread, pending, busy, stopping, result, job, jobs, runs>>

Text == [kind : {"none", "loading", "value"}, of : 0..MaxJobs]

(* Type invariant. *)
TaskTypeOK ==
  /\ thread \in {"check", "asleep", "running", "ran", "notify", "ended"}
  /\ pending \in 0..MaxJobs
  /\ busy \in BOOLEAN
  /\ stopping \in {"uninit", "no", "yes"}
  /\ result \in Text
  /\ job \in 0..MaxJobs
  /\ jobs \in Seq(Task)
  /\ Len(jobs) <= MaxJobs
  /\ runs \in [1..MaxJobs -> Nat]

NoText == [kind |-> "none", of |-> 0]

\* The initialisers up to thread_ are done; busy_ is not read before the
\* constructor has finished, so its uninitialised value is not modelled.
TaskInit ==
  /\ thread = "check"
  /\ pending = 0
  /\ busy = FALSE
  /\ stopping = "uninit"
  /\ result = NoText
  /\ job = 0
  /\ jobs = <<>>
  /\ runs = [n \in 1..MaxJobs |-> 0]

\* The constructor's last initialisers.
Constructed ==
  /\ stopping = "uninit"
  /\ stopping' = "no"
  /\ UNCHANGED <<thread, pending, busy, result, job, jobs, runs>>

-----------------------------------------------------------------------------
(* Calls of the UI thread. *)

\* notify_one() and notify_all(): there is one waiter at most.
Wake == thread' = IF thread = "asleep" THEN "check" ELSE thread

SubmitWhileBusy(t) ==
  /\ stopping # "uninit"
  /\ IF pending = 0 /\ Len(jobs) < MaxJobs
       THEN /\ jobs' = Append(jobs, t)
            /\ pending' = Len(jobs')
            /\ result' = [kind |-> "loading", of |-> Len(jobs')]
            /\ Wake
       ELSE UNCHANGED <<jobs, pending, result, thread>>
  /\ UNCHANGED <<busy, stopping, job, runs>>

SubmitSilently(t) ==
  /\ stopping # "uninit"
  /\ IF pending = 0 /\ ~busy
       THEN /\ Len(jobs) < MaxJobs
            /\ jobs' = Append(jobs, t)
            /\ pending' = Len(jobs')
            /\ result' = [kind |-> "loading", of |-> Len(jobs')]
       ELSE UNCHANGED <<jobs, pending, result>>
  /\ UNCHANGED <<thread, busy, stopping, job, runs>>

\* submit(): a task is taken only when none is pending or running.
Submit(t) ==
  /\ stopping # "uninit"
  /\ IF pending = 0 /\ ~busy
       THEN /\ Len(jobs) < MaxJobs
            /\ jobs' = Append(jobs, t)
            /\ pending' = Len(jobs')
            /\ result' = [kind |-> "loading", of |-> Len(jobs')]
            /\ Wake
       ELSE UNCHANGED <<jobs, pending, result, thread>>
  /\ UNCHANGED <<busy, stopping, job, runs>>

Clear ==
  /\ result' = NoText
  /\ UNCHANGED <<thread, pending, busy, stopping, job, jobs, runs>>

\* The destructor up to join().
StopSilently ==
  /\ stopping = "no"
  /\ stopping' = "yes"
  /\ UNCHANGED <<thread, pending, busy, result, job, jobs, runs>>

Stop ==
  /\ stopping = "no"
  /\ stopping' = "yes"
  /\ Wake
  /\ UNCHANGED <<pending, busy, result, job, jobs, runs>>

-----------------------------------------------------------------------------
(* work(): the thread. *)

ReadsStopping == IF stopping = "uninit" THEN Garbage ELSE {stopping = "yes"}

\* With the mutex held: the predicate of wait(), then the test of stopping_,
\* then the task is moved out of the slot.  Waiting releases the mutex.
CheckKeepingSlot ==
  /\ thread = "check"
  /\ \E stop \in ReadsStopping :
       IF stop THEN thread' = "ended" /\ UNCHANGED <<pending, busy, job>>
       ELSE IF pending # 0
         THEN /\ thread' = "running"
              /\ job' = pending
              /\ busy' = TRUE
              /\ UNCHANGED pending
       ELSE thread' = "asleep" /\ UNCHANGED <<pending, busy, job>>
  /\ UNCHANGED <<stopping, result, jobs, runs>>

Check ==
  /\ thread = "check"
  /\ \E stop \in ReadsStopping :
       IF stop THEN thread' = "ended" /\ UNCHANGED <<pending, busy, job>>
       ELSE IF pending # 0
         THEN /\ thread' = "running"
              /\ job' = pending
              /\ pending' = 0
              /\ busy' = TRUE
       ELSE thread' = "asleep" /\ UNCHANGED <<pending, busy, job>>
  /\ UNCHANGED <<stopping, result, jobs, runs>>

\* wait() may return without a notification; its predicate is tested again.
SpuriousWakeup ==
  /\ thread = "asleep"
  /\ thread' = "check"
  /\ UNCHANGED <<pending, busy, stopping, result, job, jobs, runs>>

\* The task runs without the mutex; an exception becomes its text.
Run ==
  /\ thread = "running"
  /\ thread' = "ran"
  /\ runs' = [runs EXCEPT ![job] = @ + 1]
  /\ UNCHANGED <<pending, busy, stopping, result, job, jobs>>

Publish ==
  /\ thread = "ran"
  /\ thread' = "notify"
  /\ result' = [kind |-> "value", of |-> job]
  /\ busy' = FALSE
  /\ UNCHANGED <<pending, stopping, job, jobs, runs>>

\* updated_() is called without the mutex.
Notify ==
  /\ thread = "notify"
  /\ thread' = "check"
  /\ job' = 0
  /\ UNCHANGED <<pending, busy, stopping, result, jobs, runs>>

Worker == Check \/ Run \/ Publish \/ Notify

\* The worker in the hands of any caller.
TaskNext ==
  \/ Constructed \/ Clear \/ Stop \/ (\E t \in Task : Submit(t))
  \/ Worker \/ SpuriousWakeup

TaskSpec == TaskInit /\ [][TaskNext]_taskVars

-----------------------------------------------------------------------------
(* Properties. *)

(* Jobs never overlap and none is lost or repeated on the way: when a job  *)
(* is accepted, every earlier one has run exactly once, and the slot and   *)
(* the busy flag together say whether the last one has (submit() and       *)
(* work() hand the task over under the mutex).                             *)
JobsRunOnce ==
  /\ pending # 0 => ~busy
  /\ \A n \in 1..Len(jobs) :
       runs[n] = IF n = pending \/ (n = job /\ thread = "running") THEN 0 ELSE 1

(* A text on display is that of the last accepted job: a job accepted      *)
(* later never shows the text of an earlier one, although texts are        *)
(* published some time after the job ran and may follow a clear().         *)
LatestResult ==
  result.kind = "none" \/ result.of = Len(jobs)

=============================================================================
