--------------------------- MODULE MCOneCommand ----------------------------
(***************************************************************************)
(* One invocation of lx for TLC: a socket query, a signal or service       *)
(* command, a process table, or `inspect` and `find`.  Which of the four   *)
(* modules runs is chosen in the initial state; the others stay where they *)
(* are.                                                                    *)
(*                                                                         *)
(* Sockets: two in the first dump and one, connected, in the third.        *)
(* Processes: both PIDs are reused once; the first process of PID 2 and    *)
(* the second of PID 3 belong to the service.  For `inspect` and `find`,   *)
(* socket 4 is at the port asked for and may be shared, socket 6 is of     *)
(* another port.  Journal: entries of the unit, of a PID and of both.      *)
(***************************************************************************)
EXTENDS NetlinkDump, Commands, ProcessTable, Explorer

CONSTANTS s1, s2, s3, u1

MCDumpOf == [s \in Sockets |-> IF s = s3 THEN 3 ELSE 1]

MCMatching == {<<2, 0>>, <<3, 0>>, <<3, 1>>}
MCInUnit == {<<2, 0>>, <<3, 1>>}

MCLogUnit == <<u1, u1, NoUnit, u1>>
MCLogPid == <<3, 2, 3, 3>>

VARIABLE command

allVars == <<command, dumpVars, cmdVars, tableVars, xVars>>

Init ==
  /\ command \in {"sockets", "act", "processes", "explore"}
  /\ DumpInit /\ CmdInit /\ TableInit /\ ExplorerInit
  /\ holders[6] \subseteq {Number}
  /\ command = "explore" \/ (Bound = {} /\ \A p \in Pids : unitOf[p] = NoUnit)

Ended == "over" \in {dumpPc, cmdPc, tablePc, xpc} /\ UNCHANGED allVars

Next ==
  \/ /\ command = "sockets" /\ DumpNext
     /\ UNCHANGED <<command, cmdVars, tableVars, xVars>>
  \/ /\ command = "act" /\ CmdNext
     /\ UNCHANGED <<command, dumpVars, tableVars, xVars>>
  \/ /\ command = "processes" /\ TableNext
     /\ UNCHANGED <<command, dumpVars, cmdVars, xVars>>
  \/ /\ command = "explore" /\ ExplorerNext
     /\ UNCHANGED <<command, dumpVars, cmdVars, tableVars>>
  \/ Ended

Spec == Init /\ [][Next]_allVars

(* The type invariants of the four modules.                                *)
TypesOK == DumpTypeOK /\ CmdTypeOK /\ TableTypeOK /\ ExplorerTypeOK

=============================================================================
