-------------------------------- MODULE Host --------------------------------
(***************************************************************************)
(* The Linux host that LX observes and acts upon: live processes, the      *)
(* sockets bound to the port being released, the processes that hold a     *)
(* descriptor of each socket, and the systemd unit of each process.  None  *)
(* of this is LX code: the module is the environment of the code under     *)
(* src/, modelled from what that code reads (/proc/<pid>/fd, INET_DIAG,    *)
(* GetUnitByPID) and from what it guards against (exits, PID reuse, new    *)
(* sockets, shared descriptors).                                           *)
(***************************************************************************)
EXTENDS Naturals

CONSTANTS
  Pids,      \* the PIDs of the instance
  Self,      \* the PID of the running LX (outside Pids when it holds no socket)
  Inodes,    \* socket inodes; the kernel never uses one twice
  Units,     \* systemd services
  NoUnit,    \* "no .service unit"
  MaxBirth,  \* bound: how often a PID can be reused
  MaxMoves   \* bound: environment steps other than process exits

ASSUME HostAssumption ==
  /\ Pids \subseteq Nat \ {0}
  /\ Self \in Nat \ {0}
  /\ NoUnit \notin Units
  /\ MaxBirth \in Nat
  /\ MaxMoves \in Nat

VARIABLES
  alive,     \* PIDs in use
  birth,     \* birth[p]: which process bears PID p (its start time)
  holders,   \* holders[i]: processes with a descriptor of socket i
  spent,     \* inodes handed out so far
  unitOf,    \* unitOf[p]: the service of the process bearing PID p
  moves      \* environment steps taken, for the bound MaxMoves

hostVars == <<alive, birth, holders, spent, unitOf, moves>>

HostTypeOK ==
  /\ alive \in SUBSET Pids
  /\ birth \in [Pids -> 0..MaxBirth]
  /\ holders \in [Inodes -> SUBSET Pids]
  /\ spent \in SUBSET Inodes
  /\ unitOf \in [Pids -> Units \cup {NoUnit}]
  /\ moves \in 0..MaxMoves

\* A socket exists for as long as some process holds it.
Bound == {i \in Inodes : holders[i] # {}}

\* PID 1 and LX itself live for the whole run.
Immortal == {1, Self}

-----------------------------------------------------------------------------

HostInit ==
  /\ alive = Pids
  /\ birth = [p \in Pids |-> 0]
  /\ holders \in [Inodes -> SUBSET Pids]
  /\ spent = Bound
  /\ unitOf \in [Pids -> Units \cup {NoUnit}]
  /\ moves = 0

\* A process ends, by itself or because of a signal: its descriptors close.
Exit(p) ==
  /\ p \in alive \ Immortal
  /\ alive' = alive \ {p}
  /\ holders' = [i \in Inodes |-> holders[i] \ {p}]
  /\ UNCHANGED <<birth, spent, unitOf, moves>>

Move == moves < MaxMoves /\ moves' = moves + 1

\* PID p is given to a new process.
Spawn(p) ==
  /\ Move
  /\ p \in Pids \ alive
  /\ birth[p] < MaxBirth
  /\ alive' = alive \cup {p}
  /\ birth' = [birth EXCEPT ![p] = @ + 1]
  /\ \E u \in Units \cup {NoUnit} : unitOf' = [unitOf EXCEPT ![p] = u]
  /\ UNCHANGED <<holders, spent>>

\* A process binds the port with a fresh socket.
Bind(p, i) ==
  /\ Move
  /\ p \in alive \ {Self}
  /\ i \notin spent
  /\ spent' = spent \cup {i}
  /\ holders' = [holders EXCEPT ![i] = {p}]
  /\ UNCHANGED <<alive, birth, unitOf>>

\* Process q receives a descriptor of socket i (fork, SCM_RIGHTS).
Share(q, i) ==
  /\ Move
  /\ i \in Bound
  /\ q \in alive \ (holders[i] \cup {Self})
  /\ holders' = [holders EXCEPT ![i] = @ \cup {q}]
  /\ UNCHANGED <<alive, birth, spent, unitOf>>

\* A process closes its descriptor of socket i and lives on.
Close(p, i) ==
  /\ Move
  /\ p \in holders[i] \ {Self}
  /\ holders' = [holders EXCEPT ![i] = @ \ {p}]
  /\ UNCHANGED <<alive, birth, spent, unitOf>>

HostNext ==
  \/ \E p \in Pids : Exit(p) \/ Spawn(p)
  \/ \E p \in Pids, i \in Inodes : Bind(p, i) \/ Share(p, i) \/ Close(p, i)

=============================================================================
