--------------------------- MODULE ReleaseContract --------------------------
(***************************************************************************)
(* What `lx port free` promises its user, whatever happens on the host:    *)
(* nothing is done before the plan is shown and agreed to; a service is    *)
(* stopped or processes are signalled, never both; SIGTERM goes to the     *)
(* shown processes, the lowest PID first, and SIGKILL, with a consent of   *)
(* its own, to some of them once all had theirs; the command ends once,    *)
(* does nothing afterwards, and its last word is true of what it did.      *)
(***************************************************************************)
EXTENDS Naturals

CONSTANTS
  Protected,  \* PIDs that are never signalled
  Units,      \* services
  NoUnit      \* "no service"

VARIABLES
  shown,      \* the processes of the plan, once it is shown
  unit,       \* the service it recommends to stop, or NoUnit
  agreed,     \* the prompts the user agreed to
  termed,     \* processes sent SIGTERM
  killed,     \* processes sent SIGKILL
  stopped,    \* services told to stop
  told        \* the last word, "none" until the command ends

\* What the command may say of itself, and what a failed StopUnit call makes
\* it say instead: systemd's error is handed on as it is.
Words == {"Cancelled", "Released", "Timeout", "NotFound", "PermissionDenied",
          "Conflict", "IoError", "ProtocolError", "Unavailable", "Aborted"}
StopFailures == {"NotFound", "PermissionDenied", "Timeout", "Unavailable",
                 "OperationFailed", "ProtocolError"}

contractVars == <<shown, unit, agreed, termed, killed, stopped, told>>

ContractInit ==
  /\ shown = {} /\ unit = NoUnit /\ agreed = {}
  /\ termed = {} /\ killed = {} /\ stopped = {}
  /\ told = "none"

\* The plan is shown: who holds the port, and which service they belong to.
Present ==
  /\ told = "none" /\ shown = {}
  /\ shown' # {} /\ shown' \cap Protected = {}
  /\ unit' \in Units \cup {NoUnit}
  /\ UNCHANGED <<agreed, termed, killed, stopped, told>>

\* One of the two ways is agreed to, as the plan recommends; SIGKILL comes
\* up only when every process of the plan was sent SIGTERM.
Agree(q) ==
  /\ told = "none" /\ shown # {}
  /\ \/ q = "confirmStop" /\ unit # NoUnit /\ agreed = {}
     \/ q = "confirmTerm" /\ unit = NoUnit /\ agreed = {}
     \/ q = "confirmKill" /\ agreed = {"confirmTerm"} /\ termed = shown
  /\ agreed' = agreed \cup {q}
  /\ UNCHANGED <<shown, unit, termed, killed, stopped, told>>

\* The service is told to stop, once.  Only a stop that systemd accepted lets
\* the command go on.
Stop ==
  /\ told = "none" /\ agreed = {"confirmStop"} /\ stopped = {}
  /\ stopped' = {unit}
  /\ UNCHANGED told \/ told' \in StopFailures
  /\ UNCHANGED <<shown, unit, agreed, termed, killed>>

Term(p) ==
  /\ told = "none" /\ agreed = {"confirmTerm"}
  /\ p \in shown \ termed
  /\ \A r \in shown \ termed : p <= r
  /\ termed' = termed \cup {p}
  /\ UNCHANGED <<shown, unit, agreed, killed, stopped, told>>

Kill(p) ==
  /\ told = "none" /\ agreed = {"confirmTerm", "confirmKill"}
  /\ p \in termed \ killed
  /\ \A r \in killed : r < p
  /\ killed' = killed \cup {p}
  /\ UNCHANGED <<shown, unit, agreed, termed, stopped, told>>

\* The last word.  "Cancelled" means that what was asked last is not done:
\* nothing at all, or no SIGKILL.  Once nothing is left to fail, "Timeout" is
\* the answer to a service that was stopped or to processes that were killed,
\* in vain; "NotFound" is not said after a stop that was accepted, where a
\* port that is free is "Released", an answer to somebody who agreed to
\* something.  "Unavailable" means that the service agreed upon was not even
\* told to stop.
End(word) ==
  /\ told = "none"
  /\ word = "Cancelled" => /\ shown # {} /\ killed = {} /\ stopped = {}
                           /\ \/ agreed = {} /\ termed = {}
                              \/ agreed = {"confirmTerm"} /\ termed = shown
  /\ word = "Timeout"   => stopped # {} \/ killed # {}
  /\ word = "Released"  => agreed # {}
  /\ word = "NotFound"  => stopped = {}
  /\ word = "Unavailable" => agreed = {"confirmStop"} /\ stopped = {}
  /\ told' = word
  /\ UNCHANGED <<shown, unit, agreed, termed, killed, stopped>>

ContractNext ==
  \/ Present \/ Stop
  \/ \E q \in {"confirmStop", "confirmTerm", "confirmKill"} : Agree(q)
  \/ \E p \in shown : Term(p) \/ Kill(p)
  \/ \E word \in Words : End(word)

ContractSpec == ContractInit /\ [][ContractNext]_contractVars

=============================================================================
