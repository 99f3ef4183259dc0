-------------------------------- MODULE Tui ---------------------------------
(***************************************************************************)
(* The terminal UI (FtxuiTuiRunner::run): the event handler of the UI      *)
(* thread with its modes (search, help, confirmation prompt), composed     *)
(* with the TaskWorker it submits to and with the snapshots the dashboard  *)
(* worker publishes behind its back.  One action per group of keys; a key  *)
(* is handled completely before the next, and the worker threads move      *)
(* between keys.                                                           *)
(***************************************************************************)
EXTENDS TaskWorker, Integers

CONSTANTS
  Services, Ports, Processes,  \* resources by panel
  Nothing,                     \* "no resource"
  Snapshots                    \* snapshots the dashboard worker may publish

Tabs == 0..2
Resources == Services \cup Ports \cup Processes

ServiceActions == {"StopService", "RestartService"}
ProcessActions == {"TerminateProcess", "KillProcess"}
Actions == ServiceActions \cup ProcessActions

\* A job: what is done to what.  shown and yes are history: the target the
\* prompt showed, and how many times the user said yes to it.
Jobs == [op : Actions \cup {"look"}, target : Resources \cup {Nothing},
         shown : Resources \cup {Nothing}, yes : 0..2]

ASSUME TuiAssumption ==
  /\ Nothing \notin Resources
  /\ Task = Jobs
  /\ Snapshots \subseteq [services : Seq(Services), ports : Seq(Ports),
                          processes : Seq(Processes)]

VARIABLES
  ui,            \* where the UI thread is
  tab, selected, \* the panel shown, and the selected row of each panel
  searching, query, help,
  action,        \* pendingAction
  step,          \* confirmationStep
  actionTarget,  \* what the prompt shows
  actionPid,     \* the process an action of the third panel is for
  snapshot,      \* published snapshots: none yet, or the last one
  yes            \* how often the user said yes to this prompt; history

modeVars == <<tab, selected, searching, query, help>>
promptVars == <<action, step, actionTarget, actionPid, yes>>
vars == <<taskVars, ui, modeVars, promptVars, snapshot>>

(* Type invariant. *)
TypeOK ==
  /\ TaskTypeOK
  /\ ui \in {"constructing", "loop", "leaving", "closed"}
  /\ tab \in Tabs
  /\ selected \in [Tabs -> Nat]
  /\ searching \in BOOLEAN /\ query \in BOOLEAN /\ help \in BOOLEAN
  /\ action \in Actions \cup {"None"}
  /\ step \in 0..2
  /\ actionTarget \in Resources \cup {Nothing}
  /\ actionPid \in Processes \cup {Nothing}
  /\ snapshot \in {<<>>} \cup {<<s>> : s \in Snapshots}
  /\ yes \in 0..2

Init ==
  /\ TaskInit
  /\ ui = "constructing"
  /\ tab = 0 /\ selected = [t \in Tabs |-> 0]
  /\ searching = FALSE /\ query = FALSE /\ help = FALSE
  /\ action = "None" /\ step = 0
  /\ actionTarget = Nothing /\ actionPid = Nothing
  /\ snapshot = <<>>
  /\ yes = 0

-----------------------------------------------------------------------------
(* What the handler sees. *)

Rows(t) == IF t = 0 THEN snapshot[1].services
           ELSE IF t = 1 THEN snapshot[1].ports ELSE snapshot[1].processes

ItemCount(t) == Len(Rows(t))

\* The row under the cursor, if the snapshot (still) has it.
SelectedResource ==
  IF selected[tab] < ItemCount(tab) THEN Rows(tab)[selected[tab] + 1] ELSE Nothing

Listening == ui = "loop"
Browsing == Listening /\ action = "None" /\ ~searching

Look(target) == [op |-> "look", target |-> target, shown |-> Nothing, yes |-> 0]

-----------------------------------------------------------------------------
(* Prompts. *)

Dismiss == action' = "None" /\ step' = 0

PressNo ==
  /\ Listening /\ action # "None"
  /\ Dismiss
  /\ UNCHANGED <<taskVars, ui, modeVars, actionTarget, actionPid, snapshot, yes>>

\* SIGKILL asks again; anything else is handed to the worker, which may be
\* busy: submit()'s answer is not looked at.
YesOnce ==
  /\ Listening /\ action # "None"
  /\ Dismiss
  /\ yes' = yes + 1
  /\ Submit([op |-> action,
             target |-> IF action \in ServiceActions THEN actionTarget ELSE actionPid,
             shown |-> actionTarget, yes |-> yes'])
  /\ UNCHANGED <<ui, modeVars, actionTarget, actionPid, snapshot>>

PressYes ==
  /\ Listening /\ action # "None"
  /\ yes' = yes + 1
  /\ IF action = "KillProcess" /\ step = 1
       THEN /\ step' = 2
            /\ UNCHANGED <<taskVars, action>>
       ELSE /\ Dismiss
            /\ Submit([op |-> action,
                       target |-> IF action \in ServiceActions
                                    THEN actionTarget ELSE actionPid,
                       shown |-> actionTarget, yes |-> yes'])
  /\ UNCHANGED <<ui, modeVars, actionTarget, actionPid, snapshot>>

PressServiceAction ==
  /\ Browsing
  /\ snapshot # <<>> /\ tab = 0 /\ SelectedResource # Nothing
  /\ action' \in ServiceActions
  /\ step' = 1
  /\ actionTarget' = SelectedResource
  /\ yes' = 0
  /\ Clear
  /\ UNCHANGED <<ui, modeVars, actionPid, snapshot>>

PressProcessActionStalePid ==
  /\ Browsing
  /\ snapshot # <<>> /\ tab = 2 /\ SelectedResource # Nothing
  /\ action' \in ProcessActions
  /\ step' = 1
  /\ actionTarget' = SelectedResource
  /\ actionPid' = IF actionPid = Nothing THEN SelectedResource ELSE actionPid
  /\ yes' = 0
  /\ Clear
  /\ UNCHANGED <<ui, modeVars, snapshot>>

PressProcessAction ==
  /\ Browsing
  /\ snapshot # <<>> /\ tab = 2 /\ SelectedResource # Nothing
  /\ action' \in ProcessActions
  /\ step' = 1
  /\ actionTarget' = SelectedResource
  /\ actionPid' = SelectedResource
  /\ yes' = 0
  /\ Clear
  /\ UNCHANGED <<ui, modeVars, snapshot>>

-----------------------------------------------------------------------------
(* Everything else. *)

\* Enter while searching submits the query, if there is one.
EnterSearch ==
  /\ Listening /\ searching
  /\ searching' = FALSE
  /\ IF query THEN Submit(Look(Nothing)) ELSE UNCHANGED taskVars
  /\ UNCHANGED <<ui, tab, selected, query, help, promptVars, snapshot>>

\* The search field takes the other characters.
TypeQuery ==
  /\ Listening /\ action = "None" /\ searching
  /\ query' \in BOOLEAN
  /\ UNCHANGED <<taskVars, ui, tab, selected, searching, help, promptVars,
                 snapshot>>

\* Esc closes the search field, the help page or the text on display.
CloseView ==
  /\ Listening /\ action = "None"
  /\ searching \/ help \/ result.kind # "none"
  /\ searching' = FALSE /\ help' = FALSE
  /\ Clear
  /\ UNCHANGED <<ui, tab, selected, query, promptVars, snapshot>>

\* q, or Esc with nothing to close.
Quit ==
  /\ Browsing
  /\ ui' = "leaving"
  /\ UNCHANGED <<taskVars, modeVars, promptVars, snapshot>>

ToggleHelp ==
  /\ Browsing
  /\ help' = ~help
  /\ Clear
  /\ UNCHANGED <<ui, tab, selected, searching, query, promptVars, snapshot>>

StartSearchAnywhere ==
  /\ Listening /\ ~searching
  /\ searching' = TRUE /\ query' = FALSE /\ help' = FALSE
  /\ UNCHANGED <<taskVars, ui, tab, selected, promptVars, snapshot>>

StartSearch ==
  /\ Browsing
  /\ searching' = TRUE /\ query' = FALSE /\ help' = FALSE
  /\ UNCHANGED <<taskVars, ui, tab, selected, promptVars, snapshot>>

\* Tab, Right and Left, also while searching.
SwitchTab ==
  /\ Listening /\ action = "None"
  /\ \E d \in {1, 2} : tab' = (tab + d) % 3
  /\ UNCHANGED <<taskVars, ui, selected, searching, query, help, promptVars,
                 snapshot>>

\* Enter inspects the selected row.
InspectSelected ==
  /\ Browsing
  /\ snapshot # <<>> /\ SelectedResource # Nothing
  /\ Submit(Look(SelectedResource))
  /\ UNCHANGED <<ui, modeVars, promptVars, snapshot>>

\* l reads the log of a service or process, or submits a hint.
ShowLogs ==
  /\ Browsing
  /\ snapshot # <<>>
  /\ Submit(Look(IF tab = 1 THEN Nothing ELSE SelectedResource))
  /\ UNCHANGED <<ui, modeVars, promptVars, snapshot>>

MoveUpUnclamped ==
  /\ Listening /\ action = "None" /\ snapshot # <<>>
  /\ selected' = [selected EXCEPT ![tab] = @ - 1]
  /\ UNCHANGED <<taskVars, ui, tab, searching, query, help, promptVars, snapshot>>

MoveUp ==
  /\ Listening /\ action = "None" /\ snapshot # <<>>
  /\ selected' = [selected EXCEPT ![tab] = IF @ = 0 THEN 0 ELSE @ - 1]
  /\ UNCHANGED <<taskVars, ui, tab, searching, query, help, promptVars, snapshot>>

MoveDown ==
  /\ Listening /\ action = "None" /\ snapshot # <<>>
  /\ LET last == IF ItemCount(tab) = 0 THEN 0 ELSE ItemCount(tab) - 1
     IN  selected' = [selected EXCEPT ![tab] = IF @ + 1 < last THEN @ + 1 ELSE last]
  /\ UNCHANGED <<taskVars, ui, tab, searching, query, help, promptVars, snapshot>>

-----------------------------------------------------------------------------

\* The constructor of TaskWorker returns and the loop starts.
EnterLoop ==
  /\ ui = "constructing" /\ ui' = "loop"
  /\ Constructed
  /\ UNCHANGED <<modeVars, promptVars, snapshot>>

\* The destructor of TaskWorker: stop, then join.
StopTasks ==
  /\ ui = "leaving"
  /\ Stop
  /\ UNCHANGED <<ui, modeVars, promptVars, snapshot>>

JoinTasks ==
  /\ ui = "leaving" /\ stopping = "yes" /\ thread = "ended"
  /\ ui' = "closed"
  /\ UNCHANGED <<taskVars, modeVars, promptVars, snapshot>>

\* The dashboard worker is started just before the loop and joined right
\* after it.
NewSnapshot ==
  /\ ui = "loop"
  /\ \E s \in Snapshots : snapshot' = <<s>>
  /\ UNCHANGED <<taskVars, ui, modeVars, promptVars>>

Key == \/ PressNo \/ PressYes \/ PressServiceAction \/ PressProcessAction
       \/ EnterSearch \/ TypeQuery \/ CloseView \/ Quit \/ ToggleHelp
       \/ StartSearch \/ SwitchTab \/ InspectSelected \/ ShowLogs
       \/ MoveUp \/ MoveDown

Thread == (Worker \/ SpuriousWakeup)
          /\ UNCHANGED <<ui, modeVars, promptVars, snapshot>>

Closed == ui = "closed" /\ UNCHANGED vars

Next == EnterLoop \/ Key \/ StopTasks \/ JoinTasks \/ NewSnapshot \/ Thread
          \/ Closed

Spec == Init /\ [][Next]_vars

\* The threads run; the user need not press a key, and tasks end.
FairSpec ==
  /\ Spec
  /\ WF_vars(EnterLoop) /\ WF_vars(StopTasks) /\ WF_vars(JoinTasks)
  /\ WF_vars(Worker /\ UNCHANGED <<ui, modeVars, promptVars, snapshot>>)

-----------------------------------------------------------------------------
(* Safety. *)

(* An action the worker is given was asked for and confirmed: SIGKILL      *)
(* twice, the others once, for the very target that the prompt showed,     *)
(* although snapshots are replaced while the prompt is open.               *)
ActionsConfirmed ==
  \A n \in 1..Len(jobs) :
    jobs[n].op \in Actions =>
      /\ jobs[n].target = jobs[n].shown
      /\ jobs[n].target # Nothing
      /\ jobs[n].yes = IF jobs[n].op = "KillProcess" THEN 2 ELSE 1

(* A prompt is modal: while one is open no search field is, so a letter    *)
(* typed into the field is never taken for an answer, and a prompt that    *)
(* was dismissed leaves no confirmation behind.                            *)
PromptModal ==
  /\ action # "None" => ~searching /\ step = yes + 1
  /\ action = "None" => step = 0

-----------------------------------------------------------------------------
(* Liveness. *)

(* A task that submit() accepted is run, unless the user leaves first: no  *)
(* wake-up is lost between submit() and the worker's wait().               *)
AcceptedRuns == [](pending # 0 => <>(pending = 0 \/ ui # "loop"))

(* Leaving the dashboard always ends: the destructor's join() returns.     *)
LeavingEnds == [](ui = "leaving" => <>(ui = "closed"))

=============================================================================
