-------------------------- MODULE CommandContract ---------------------------
(***************************************************************************)
(* What one `lx process stop`, `lx process kill` or `lx service UNIT       *)
(* start|stop|restart` promises: at most one effect, a signal to the       *)
(* process that bears the PID at that moment or one job submitted to       *)
(* systemd; consent before any effect that needs it, none at all with      *)
(* --json; and a final word that tells the truth about the effect.         *)
(***************************************************************************)
EXTENDS Naturals, Sequences

VARIABLES
  bearer,   \* the process bearing the PID; each has a number of its own
  exists,   \* whether the PID is in use
  asks,     \* what the user asked for, "none" before that
  json,     \* --json was given
  agreed,   \* the user agreed, by --yes or at a prompt
  hits,     \* signals delivered
  jobs,     \* jobs submitted
  told      \* how the command says it ended, "none" while it runs

promiseVars == <<bearer, exists, asks, json, agreed, hits, jobs, told>>

\* Verbs whose effect needs consent.
Grave == {"kill", "unit stop", "unit restart"}

\* Failures of systemd after which a job may have been queued.
Doubtful == {"OperationFailed", "Timeout", "ProtocolError"}

Quiet == hits = <<>> /\ jobs = <<>>

PromiseInit ==
  /\ bearer = 0 /\ exists \in BOOLEAN /\ asks = "none" /\ json = FALSE /\ agreed = FALSE
  /\ hits = <<>> /\ jobs = <<>> /\ told = "none"

\* The PID's process goes away, or a new one gets the PID.
HostMoves ==
  /\ bearer' \in {bearer, bearer + 1}
  /\ exists' \in BOOLEAN
  /\ UNCHANGED <<asks, json, agreed, hits, jobs, told>>

Request ==
  /\ asks = "none" /\ asks' # "none"
  /\ json' \in BOOLEAN
  /\ agreed' \in BOOLEAN
  /\ told' \in {"none", "InvalidArgument"}
  /\ UNCHANGED <<bearer, exists, hits, jobs>>

Agree ==
  /\ asks \in Grave /\ told = "none"
  /\ agreed' = TRUE
  /\ UNCHANGED <<bearer, exists, asks, json, hits, jobs, told>>

Permitted == told = "none" /\ ~json /\ Quiet /\ (asks \in Grave => agreed)

\* The signal is delivered and said to be; a job is submitted.
Strike ==
  /\ Permitted /\ asks \in {"stop", "kill"} /\ exists
  /\ hits' = <<[proc |-> bearer, verb |-> asks]>>
  /\ told' = "ok"
  /\ UNCHANGED <<bearer, exists, asks, json, agreed, jobs>>

Submit ==
  /\ Permitted /\ asks \in {"unit start", "unit stop", "unit restart"}
  /\ jobs' = <<asks>>
  /\ told' \in {"ok"} \cup Doubtful
  /\ UNCHANGED <<bearer, exists, asks, json, agreed, hits>>

\* An end without any effect is never called a success.
Decline ==
  /\ asks # "none" /\ told = "none" /\ Quiet
  /\ told' \notin {"none", "ok"}
  /\ UNCHANGED <<bearer, exists, asks, json, agreed, hits, jobs>>

PromiseNext == HostMoves \/ Request \/ Agree \/ Strike \/ Submit \/ Decline

PromiseSpec == PromiseInit /\ [][PromiseNext]_promiseVars

=============================================================================
