-------------------------- MODULE MCJournalFollow --------------------------
(***************************************************************************)
(* An instance of JournalFollow for TLC: the unit asked for logs from the  *)
(* PID asked for and from another one, and that PID also logs elsewhere.   *)
(***************************************************************************)
EXTENDS JournalFollow

CONSTANTS u1, u2, p1, p2

MCKind == {[unit |-> u1, pid |-> p1], [unit |-> u1, pid |-> p2],
           [unit |-> u2, pid |-> p1]}

=============================================================================
