--------------------------- MODULE DashboardProofs ---------------------------
(***************************************************************************)
(* Proofs, for every service interval, every number and duration of        *)
(* refreshes and every pattern of failures, exceptions, stops and          *)
(* restarts, of the properties of the dashboard's snapshots.               *)
(***************************************************************************)
EXTENDS Dashboard, TLAPS

(* What the reads of one source do to the types. *)
LEMMA ReadType ==
  ASSUME TypeOK, NEW s \in Sources, Succeeds(s) \/ Fails(s)
  PROVE  next' \in Snapshot /\ good' \in [Sources -> Cycles]
                            /\ bad' \in [Sources -> BOOLEAN]
<1>1. CASE Succeeds(s)
  <2>1. PICK w \in SUBSET {s} :
          next' = [next EXCEPT !.data[s] = cycle, !.stale[s] = FALSE,
                               !.warnings = @ \cup w,
                               !.cpu = IF s # "processes" THEN @
                                       ELSE IF metrics THEN cycle ELSE 0]
    BY <1>1 DEF Succeeds
  <2>2. 0 \in Cycles
    BY DashboardAssumption DEF Cycles
  <2>3. next' \in Snapshot
    BY <2>1, <2>2, ZenonT(30) DEF TypeOK, Snapshot
  <2>4. QED
    BY <1>1, <2>3 DEF Succeeds, TypeOK
<1>2. CASE Fails(s)
  BY <1>2 DEF Fails, TypeOK, Snapshot
<1>3. QED
  BY <1>1, <1>2

LEMMA BeginType ==
  ASSUME TypeOK, Begin
  PROVE  /\ cycle' \in Cycles
         /\ next' \in Snapshot
         /\ metrics' \in BOOLEAN
         /\ worker' = "host"
<1>1. cycle' \in Cycles
  BY DashboardAssumption DEF TypeOK, Begin, Cycles
<1>2. next' \in Snapshot
  BY DEF TypeOK, Begin, Snapshot
<1>3. QED
  BY <1>1, <1>2 DEF Begin

LEMMA TypeInit == Init => TypeOK
<1>1. Empty \in Snapshot
  BY DashboardAssumption DEF Empty, Snapshot, Cycles
<1>2. 0 \in Cycles /\ 0 \in Times
  BY DashboardAssumption DEF Cycles, Times
<1>3. /\ [set |-> FALSE, at |-> 0] \in [set : BOOLEAN, at : Times]
      /\ [set |-> FALSE, value |-> Empty] \in [set : BOOLEAN, value : Snapshot]
  BY <1>1, <1>2
<1>4. QED
  BY <1>1, <1>2, <1>3 DEF Init, TypeOK

LEMMA TypeNext == TypeOK /\ [Next]_vars => TypeOK'
<1> SUFFICES ASSUME TypeOK, [Next]_vars PROVE TypeOK'
  OBVIOUS
<1>. USE DashboardAssumption
<1>1. CASE ReadHost
  BY <1>1, ReadType DEF ReadHost, TypeOK, Sources
<1>2. CASE ReadProcesses
  BY <1>2, ReadType DEF ReadProcesses, TypeOK, Sources
<1>3. CASE ReadPorts
  BY <1>3, ReadType DEF ReadPorts, TypeOK, Sources
<1>4. CASE ReadServices
  <2>1. next' \in Snapshot /\ good' \in [Sources -> Cycles]
                           /\ bad' \in [Sources -> BOOLEAN]
    <3>1. CASE Succeeds("services") \/ Fails("services")
      BY <3>1, ReadType DEF Sources
    <3>2. CASE UNCHANGED <<next, good, bad>>
      BY <3>2 DEF TypeOK
    <3>3. QED
      BY <1>4, <3>1, <3>2 DEF ReadServices
  <2>2. servicesAt' \in [set : BOOLEAN, at : Times]
    <3>1. now \in Times => [set |-> TRUE, at |-> now] \in [set : BOOLEAN, at : Times]
      OBVIOUS
    <3>2. QED
      BY <1>4, <3>1 DEF ReadServices, TypeOK
  <2>3. QED
    BY <1>4, <2>1, <2>2 DEF ReadServices, TypeOK
<1>5. CASE Throw
  BY <1>5 DEF Throw, TypeOK, Snapshot
<1>6. CASE Publish
  BY <1>6 DEF Publish, TypeOK
<1>7. CASE Notify
  BY <1>7 DEF Notify, TypeOK
<1>8. CASE Wait
  <2>1. CASE stopping
    BY <1>8, <2>1 DEF Wait, TypeOK
  <2>2. CASE ~stopping
    BY <1>8, <2>2, BeginType DEF Wait, TypeOK, Times, Sources
  <2>3. QED
    BY <2>1, <2>2
<1>9. CASE Start
  <2>1. now' \in Times
    BY <1>9 DEF Start, TypeOK, Times
  <2>2. QED
    BY <1>9, <2>1, BeginType DEF Start, TypeOK, Sources
<1>10. CASE Stop
  BY <1>10 DEF Stop, TypeOK
<1>11. CASE Join
  BY <1>11 DEF Join, TypeOK
<1>12. CASE UNCHANGED vars
  BY <1>12 DEF vars, TypeOK
<1>13. QED
  BY <1>1, <1>2, <1>3, <1>4, <1>5, <1>6, <1>7, <1>8, <1>9, <1>10, <1>11, <1>12
     DEF Next, Work, Refresh, Done

(* Type correctness of the dashboard service and its worker. *)
THEOREM TypeCorrect == Spec => []TypeOK
BY TypeInit, TypeNext, PTL DEF Spec

-----------------------------------------------------------------------------
(* The inductive invariant. *)

\* The caller and the thread it started.
ThreadInv ==
  /\ caller = "idle" => worker = "none"
  /\ caller = "joined" => worker = "ended"

\* The snapshot in hand and the one to start from agree with the reads.
GoodInv ==
  /\ worker \in Sources \cup {"publish"} => next.data = good /\ next.stale = bad
  /\ worker \notin Sources => previous.data = good /\ previous.stale = bad

\* The sources this refresh is through with.
ReadSoFar ==
  CASE worker = "host" -> {}
    [] worker = "processes" -> {"host"}
    [] worker = "ports" -> {"host", "processes"}
    [] worker = "services" -> {"host", "processes", "ports"}
    [] OTHER -> Sources

\* Services marked stale are due, hence read, and warned about, again.
WarnInv ==
  /\ worker \in Sources \cup {"publish"} =>
       \A s \in ReadSoFar : next.stale[s] => s \in next.warnings
  /\ worker \in Sources => (next.stale["services"] => Due)
  /\ previous.stale["services"] => Due

CpuInv ==
  /\ next.cpu \in {0, next.data["processes"]}
  /\ previous.cpu \in {0, previous.data["processes"]}
  /\ CpuOfSameCycle

SnapshotInv ==
  ThreadInv /\ GoodInv /\ WarnInv /\ StaleHasWarning /\ CpuInv

LEMMA SnapshotInit == Init => SnapshotInv
BY DEF Init, SnapshotInv, ThreadInv, GoodInv, WarnInv, StaleHasWarning, CpuInv, CpuOfSameCycle, Empty, Sources

(* A refresh begins. *)
LEMMA SnapshotBegin ==
  ASSUME TypeOK, SnapshotInv, Begin, worker \notin Sources,
         caller' \in {"running", "stopping"},
         now' \in Nat, now' >= now,
         UNCHANGED <<previous, servicesAt, snapshot, good, bad>>
  PROVE  SnapshotInv'
<1>1. next' = [previous EXCEPT !.warnings = {}] /\ worker' = "host"
  BY DEF Begin
<1>2. /\ next'.data = previous.data /\ next'.stale = previous.stale
      /\ next'.cpu = previous.cpu
  BY <1>1 DEF TypeOK, Snapshot
<1>3. ThreadInv'
  BY DEF ThreadInv
<1>4. GoodInv'
  BY <1>1, <1>2 DEF SnapshotInv, GoodInv, Sources
<1>5. Due => Due'
  BY DashboardAssumption DEF Due, TypeOK, Times
<1>6. WarnInv'
  BY <1>1, <1>2, <1>5 DEF SnapshotInv, WarnInv, ReadSoFar
<1>7. StaleHasWarning'
  BY <1>1 DEF SnapshotInv, StaleHasWarning, TypeOK, Times
<1>8. CpuInv'
  BY <1>1, <1>2 DEF SnapshotInv, CpuInv, CpuOfSameCycle
<1>9. QED
  BY <1>3, <1>4, <1>6, <1>7, <1>8 DEF SnapshotInv

(* What reading source s does to the snapshot being built. *)
LEMMA ReadEffect ==
  ASSUME TypeOK, NEW s \in Sources, Succeeds(s) \/ Fails(s)
  PROVE  /\ (next.data = good /\ next.stale = bad) =>
              (next'.data = good' /\ next'.stale = bad')
         /\ next'.stale[s] => s \in next'.warnings
         /\ \A t \in Sources \ {s} : next'.stale[t] = next.stale[t]
         /\ next.warnings \subseteq next'.warnings
         /\ next.cpu \in {0, next.data["processes"]} =>
              next'.cpu \in {0, next'.data["processes"]}
  <1>1. CASE Succeeds(s)
    <2>1. PICK w \in SUBSET {s} :
            next' = [next EXCEPT !.data[s] = cycle, !.stale[s] = FALSE,
                                 !.warnings = @ \cup w,
                                 !.cpu = IF s # "processes" THEN @
                                         ELSE IF metrics THEN cycle ELSE 0]
      BY <1>1 DEF Succeeds
    <2>2. /\ next'.data = [next.data EXCEPT ![s] = cycle]
          /\ next'.stale = [next.stale EXCEPT ![s] = FALSE]
          /\ next'.warnings = next.warnings \cup w
          /\ next'.cpu = IF s # "processes" THEN next.cpu
                         ELSE IF metrics THEN cycle ELSE 0
      BY <2>1 DEF TypeOK, Snapshot
    <2>3. next.data \in [Sources -> Cycles] /\ next.stale \in [Sources -> BOOLEAN]
      BY DEF TypeOK, Snapshot
    <2>4. (next.data = good /\ next.stale = bad) =>
            (next'.data = good' /\ next'.stale = bad')
      BY <1>1, <2>2 DEF Succeeds
    <2>5. /\ ~next'.stale[s]
          /\ \A t \in Sources \ {s} : next'.stale[t] = next.stale[t]
      BY <2>2, <2>3
    <2>6. next.cpu \in {0, next.data["processes"]} =>
            next'.cpu \in {0, next'.data["processes"]}
      BY <2>2, <2>3 DEF Sources
    <2>7. QED
      BY <2>2, <2>4, <2>5, <2>6
  <1>2. CASE Fails(s)
    <2>1. next' = [next EXCEPT !.stale[s] = TRUE, !.warnings = @ \cup {s}]
      BY <1>2 DEF Fails
    <2>2. /\ next'.data = next.data /\ next'.cpu = next.cpu
          /\ next'.stale = [next.stale EXCEPT ![s] = TRUE]
          /\ next'.warnings = next.warnings \cup {s}
      BY <2>1 DEF TypeOK, Snapshot
    <2>3. next.stale \in [Sources -> BOOLEAN]
      BY DEF TypeOK, Snapshot
    <2>4. next.stale = bad => next'.stale = bad'
      BY <1>2, <2>2 DEF Fails
    <2>5. next.data = good => next'.data = good'
      BY <1>2, <2>2 DEF Fails
    <2>6. /\ s \in next'.warnings
          /\ \A t \in Sources \ {s} : next'.stale[t] = next.stale[t]
      BY <2>2, <2>3
    <2>7. QED
      BY <2>2, <2>4, <2>5, <2>6
  <1>3. QED
    BY <1>1, <1>2

LEMMA SnapshotNext == TypeOK /\ SnapshotInv /\ [Next]_vars => SnapshotInv'
<1> SUFFICES ASSUME TypeOK, SnapshotInv, [Next]_vars PROVE SnapshotInv'
  OBVIOUS
<1>1. ASSUME NEW s \in Sources \ {"services"}, worker = s,
             NEW t \in Sources \ {"host"}, worker' = t,
             ReadSoFar' = ReadSoFar \cup {s},
             Succeeds(s) \/ Fails(s),
             UNCHANGED <<caller, now, previous, servicesAt, snapshot>>
      PROVE  SnapshotInv'
  <2>1. ThreadInv'
    BY <1>1 DEF SnapshotInv, ThreadInv, Sources
  <2>2. GoodInv'
    BY <1>1, ReadEffect DEF SnapshotInv, GoodInv, Sources
  <2>3. WarnInv'
    <3>1. s \in Sources /\ "services" \in Sources \ {s} /\ ReadSoFar \subseteq Sources
      BY <1>1 DEF Sources, ReadSoFar
    <3>2. \A r \in ReadSoFar' : next'.stale[r] => r \in next'.warnings
      BY <1>1, <3>1, ReadEffect DEF SnapshotInv, WarnInv
    <3>3. next'.stale["services"] => Due'
      BY <1>1, <3>1, ReadEffect DEF SnapshotInv, WarnInv, Due
    <3>4. previous'.stale["services"] => Due'
      BY <1>1 DEF SnapshotInv, WarnInv, Due
    <3>5. QED
      BY <3>2, <3>3, <3>4 DEF WarnInv
  <2>4. StaleHasWarning'
    BY <1>1 DEF SnapshotInv, StaleHasWarning, Sources
  <2>5. CpuInv'
    BY <1>1, ReadEffect DEF SnapshotInv, CpuInv, CpuOfSameCycle
  <2>6. QED
    BY <2>1, <2>2, <2>3, <2>4, <2>5 DEF SnapshotInv
<1>2. CASE ReadHost
  BY <1>1, <1>2 DEF ReadHost, Sources, ReadSoFar
<1>3. CASE ReadProcesses
  BY <1>1, <1>3 DEF ReadProcesses, Sources, ReadSoFar
<1>4. CASE ReadPorts
  BY <1>1, <1>4 DEF ReadPorts, Sources, ReadSoFar
<1>5. CASE ReadServices
  <2>1. /\ worker = "services" /\ worker' = "publish" /\ previous' = next'
        /\ UNCHANGED <<caller, now, snapshot>>
    BY <1>5 DEF ReadServices
  <2>2. now \in Int /\ Interval \in Int /\ Interval > 0
    BY DashboardAssumption DEF TypeOK, Times
  <2>3. ThreadInv' /\ StaleHasWarning'
    BY <2>1 DEF SnapshotInv, ThreadInv, StaleHasWarning
  <2>4. next'.data = good' /\ next'.stale = bad'
    BY <1>5, <2>1, ReadEffect DEF ReadServices, SnapshotInv, GoodInv, Sources
  <2>5. \A r \in Sources : next'.stale[r] => r \in next'.warnings
    <3>1. CASE Due /\ (Succeeds("services") \/ Fails("services"))
      BY <2>1, <3>1, ReadEffect DEF SnapshotInv, WarnInv, ReadSoFar, Sources
    <3>2. CASE ~Due /\ UNCHANGED next
      BY <2>1, <3>2 DEF SnapshotInv, WarnInv, ReadSoFar, Sources
    <3>3. QED
      BY <1>5, <3>1, <3>2 DEF ReadServices
  <2>6. next'.stale["services"] => Due'
    <3>1. CASE Succeeds("services")
      <4>1. next'.stale["services"] = FALSE
        BY <3>1 DEF Succeeds, TypeOK, Snapshot, Sources
      <4>2. QED
        BY <4>1
    <3>2. CASE UNCHANGED servicesAt
      BY <1>5, <2>1, <3>2 DEF ReadServices, Due, SnapshotInv, WarnInv, Sources
    <3>3. QED
      BY <1>5, <3>1, <3>2 DEF ReadServices
  <2>7. GoodInv' /\ WarnInv'
    BY <2>1, <2>4, <2>5, <2>6 DEF GoodInv, WarnInv, ReadSoFar, Sources
  <2>8. CpuInv'
    BY <1>5, <2>1, ReadEffect
       DEF ReadServices, SnapshotInv, CpuInv, CpuOfSameCycle, Sources
  <2>9. QED
    BY <2>3, <2>7, <2>8 DEF SnapshotInv
<1>6. CASE Throw
  BY <1>6 DEF Throw, SnapshotInv, ThreadInv, GoodInv, WarnInv, StaleHasWarning,
     CpuInv, CpuOfSameCycle, Due, Sources
<1>7. CASE Publish
  <2>1. /\ worker = "publish" /\ worker' = "notify"
        /\ snapshot' = [set |-> TRUE, value |-> next]
        /\ UNCHANGED <<caller, now, next, previous, servicesAt, good, bad>>
    BY <1>7 DEF Publish
  <2>2. StaleHasWarning' /\ CpuOfSameCycle'
    BY <2>1 DEF SnapshotInv, WarnInv, ReadSoFar, CpuInv, StaleHasWarning,
       CpuOfSameCycle
  <2>3. QED
    BY <2>1, <2>2 DEF SnapshotInv, ThreadInv, GoodInv, WarnInv, CpuInv,
       Due, Sources
<1>8. ASSUME UNCHANGED <<now, next, previous, servicesAt, snapshot, good, bad>>,
             ThreadInv', worker' \notin Sources \cup {"publish"}, worker \notin Sources
      PROVE  SnapshotInv'
  BY <1>8 DEF SnapshotInv, GoodInv, WarnInv, StaleHasWarning, CpuInv,
     CpuOfSameCycle, Due
<1>9. CASE Notify
  BY <1>8, <1>9 DEF Notify, SnapshotInv, ThreadInv, Sources
<1>10. CASE Wait
  <2>1. CASE stopping
    BY <1>8, <1>10, <2>1 DEF Wait, SnapshotInv, ThreadInv, Sources
  <2>2. CASE ~stopping
    <3>1. caller \in {"running", "stopping"}
      BY <1>10 DEF Wait, SnapshotInv, ThreadInv, TypeOK
    <3>2. now' \in Nat /\ now' >= now
      BY <1>10, <2>2, DashboardAssumption DEF Wait, TypeOK, Times
    <3>3. QED
      BY <1>10, <2>2, <3>1, <3>2, SnapshotBegin DEF Wait, Sources
  <2>3. QED
    BY <2>1, <2>2
<1>11. CASE Start
  <2>1. worker \notin Sources
    BY <1>11 DEF Start, SnapshotInv, ThreadInv, Sources
  <2>2. now' \in Nat /\ now' >= now
    BY <1>11, DashboardAssumption DEF Start, TypeOK, Times
  <2>3. QED
    BY <1>11, <2>1, <2>2, SnapshotBegin DEF Start
<1>12. ASSUME UNCHANGED <<worker, now, next, previous, servicesAt, snapshot,
                          good, bad>>,
              ThreadInv'
       PROVE  SnapshotInv'
  BY <1>12 DEF SnapshotInv, GoodInv, WarnInv, StaleHasWarning, CpuInv,
     CpuOfSameCycle, Due, ReadSoFar
<1>13. CASE Stop \/ Join \/ UNCHANGED vars
  BY <1>12, <1>13 DEF Stop, Join, vars, SnapshotInv, ThreadInv
<1>14. QED
  BY <1>2, <1>3, <1>4, <1>5, <1>6, <1>7, <1>9, <1>10, <1>11, <1>13
     DEF Next, Work, Refresh, Done

(* Every complete snapshot shows what the last successful read of each     *)
(* source brought, and marks exactly the sources whose last read failed.   *)
THEOREM LastGoodKept == Spec => []KeepsLastGood
<1>1. SnapshotInv => KeepsLastGood
  BY DEF SnapshotInv, GoodInv, KeepsLastGood
<1>2. QED
  BY <1>1, TypeInit, TypeNext, SnapshotInit, SnapshotNext, PTL DEF Spec

(* No published snapshot marks a source stale without a warning for it.    *)
THEOREM StaleIsWarned == Spec => []StaleHasWarning
<1>1. SnapshotInv => StaleHasWarning
  BY DEF SnapshotInv
<1>2. QED
  BY <1>1, TypeInit, TypeNext, SnapshotInit, SnapshotNext, PTL DEF Spec

(* CPU shares are those of the cycle that read the process list.           *)
THEOREM CpuBelongsToList == Spec => []CpuOfSameCycle
<1>1. SnapshotInv => CpuOfSameCycle
  BY DEF SnapshotInv, CpuInv
<1>2. QED
  BY <1>1, TypeInit, TypeNext, SnapshotInit, SnapshotNext, PTL DEF Spec

-----------------------------------------------------------------------------
(* Why stop() returns.  (That it does, under the fairness of FairSpec, is  *)
(* StopReturns.)                                                           *)

\* The thread that join() waits for was started and is told to stop.
JoinInv ==
  /\ caller = "idle" => worker = "none"
  /\ caller \in {"running", "stopping"} => worker # "none"
  /\ caller = "stopping" => stopping

ToTheEnd(w) ==
  CASE w = "host" -> 1 [] w = "processes" -> 2 [] w = "ports" -> 3
    [] w = "services" -> 4 [] w = "publish" -> 5 [] w = "notify" -> 6
    [] w = "wait" -> 7 [] w = "ended" -> 8 [] OTHER -> 0

\* A thread that is told to stop finishes its refresh and begins no other.
StopFinishes ==
  caller = "stopping" =>
    /\ cycle' = cycle
    /\ worker' = worker \/ ToTheEnd(worker') > ToTheEnd(worker)
    /\ stopping' = stopping

LEMMA JoinNext == TypeOK /\ JoinInv /\ [Next]_vars => JoinInv'
<1> SUFFICES ASSUME TypeOK, JoinInv, [Next]_vars PROVE JoinInv'
  OBVIOUS
<1>1. CASE Refresh \/ Publish \/ Notify
  BY <1>1 DEF Refresh, ReadHost, ReadProcesses, ReadPorts, ReadServices, Throw, Publish,
     Notify, JoinInv, Sources
<1>2. CASE Wait
  BY <1>2 DEF Wait, Begin, JoinInv
<1>3. CASE Start
  BY <1>3 DEF Start, Begin, JoinInv
<1>4. CASE Stop \/ Join
  BY <1>4 DEF Stop, Join, JoinInv
<1>5. CASE UNCHANGED vars
  BY <1>5 DEF vars, JoinInv
<1>6. QED
  BY <1>1, <1>2, <1>3, <1>4, <1>5 DEF Next, Work, Done

(* While stop() waits in join() the thread is there, sees stopping_, comes *)
(* closer to its end with each of its steps and begins no new refresh.     *)
THEOREM StopWithinOneRefresh == Spec => []JoinInv /\ [][StopFinishes]_vars
<1>1. Init => JoinInv
  BY DEF Init, JoinInv
<1>2. ASSUME JoinInv, [Next]_vars PROVE [StopFinishes]_vars
  <2> SUFFICES ASSUME caller = "stopping", Next
               PROVE  /\ cycle' = cycle
                      /\ worker' = worker \/ ToTheEnd(worker') > ToTheEnd(worker)
                      /\ stopping' = stopping
    BY <1>2 DEF StopFinishes
  <2>1. stopping
    BY <1>2 DEF JoinInv
  <2>2. CASE ReadHost \/ ReadProcesses \/ ReadPorts \/ ReadServices
    BY <2>2 DEF ReadHost, ReadProcesses, ReadPorts, ReadServices, ToTheEnd
  <2>3. CASE Throw
    BY <2>3 DEF Throw, Sources, ToTheEnd
  <2>4. CASE Publish \/ Notify
    BY <2>4 DEF Publish, Notify, ToTheEnd
  <2>5. CASE Wait
    BY <2>1, <2>5 DEF Wait, ToTheEnd
  <2>6. CASE Start \/ Stop \/ Join \/ Done
    BY <2>6 DEF Start, Stop, Join, Done, vars
  <2>7. QED
    BY <2>2, <2>3, <2>4, <2>5, <2>6 DEF Next, Work, Refresh
<1>3. QED
  BY <1>1, <1>2, TypeInit, TypeNext, JoinNext, PTL DEF Spec

=============================================================================
