------------------------- MODULE ProcessTableProofs -------------------------
(***************************************************************************)
(* Proofs about the process table, for any number of PIDs, reuses and      *)
(* ticks, any filter and every set of faults.                              *)
(***************************************************************************)
EXTENDS ProcessTable, WellFoundedInduction, TLAPS

\* The type invariant, by parts of the state.
ControlType ==
  /\ tablePc \in {"idle", "ids", "open", "read", "links", "unit", "sample", "compare",
                  "attach", "over"}
  /\ mode \in {"cli", "dashboard"} /\ byUnit \in BOOLEAN /\ warned \in BOOLEAN
  /\ tableEnd \in {"none", "ok", "IoError", "Unavailable", "aborted", "failed",
                   "InvalidArgument"}

HostType ==
  /\ up \in SUBSET TablePids
  /\ start \in [TablePids -> 0..MaxReuse]
  /\ ticks \in [TablePids -> 0..MaxTicks]
  /\ steady \in SUBSET Processes
  /\ between \in SUBSET Processes

ReadingType ==
  [pid : TablePids \cup {0}, file : 0..3, core : 0..MaxReuse, user : 0..MaxReuse]

ListType ==
  /\ unread \in SUBSET TablePids
  /\ reading \in ReadingType
  /\ opened \in 0..MaxReuse
  /\ rows \in SUBSET Row
  /\ unasked \in SUBSET TablePids /\ units \in SUBSET TablePids

CpuType ==
  /\ samples \in [n : 0..2, old : Sample, new : Sample]
  /\ cpu \in [TablePids -> [shown : BOOLEAN, of : 0..MaxReuse, used : 0..MaxTicks]]

LEMMA TypeParts == TableTypeOK <=> ControlType /\ HostType /\ ListType /\ CpuType
<1>1. TableTypeOK => ControlType /\ HostType /\ ListType /\ CpuType
  BY Zenon DEF TableTypeOK, ControlType, HostType, ListType, CpuType, ReadingType
<1>2. ControlType /\ HostType /\ ListType /\ CpuType => TableTypeOK
  BY Zenon DEF TableTypeOK, ControlType, HostType, ListType, CpuType, ReadingType
<1>3. QED
  BY <1>1, <1>2

Walking == {"open", "read", "links"}

\* Where the command is determines what is being read and how many captures
\* there have been.
StageInv ==
  /\ tablePc \in Walking => reading.pid \in unread /\ reading.file \in 1..3
  /\ tablePc = "links" => reading.file = 3
  /\ tablePc = "idle" => samples.n = 0
  /\ tablePc = "sample" => samples.n <= 1
  /\ mode = "cli" /\ tablePc \in Walking \cup {"ids", "unit"} => samples.n = 0
  /\ tablePc = "compare" => samples.n = 2
  /\ tablePc # "over" => tableEnd = "none"

\* A process in both captures was there in between: a PID that was reused has
\* another start time.
CaptureInv ==
  /\ samples.n = 1 =>
       \A p \in TablePids : samples.new[p].there =>
         /\ samples.new[p].start <= start[p]
         /\ p \in up /\ start[p] = samples.new[p].start => <<p, start[p]>> \in between
  /\ samples.n = 2 =>
       \A p \in TablePids :
         /\ samples.old[p].there /\ samples.new[p].there
         /\ samples.old[p].start = samples.new[p].start
         => <<p, samples.new[p].start>> \in between
  /\ samples.n # 2 => \A p \in TablePids : ~cpu[p].shown

RowOf(pr) == [pid |-> pr[1], core |-> pr[2], user |-> pr[2]]

\* What was there from the beginning is there.
AliveInv == \A pr \in steady : pr[1] \in up /\ start[pr[1]] = pr[2]

\* It is read from its own files ...
ReadInv ==
  tablePc \in Walking =>
    \A pr \in steady : pr[1] = reading.pid =>
      /\ reading.file >= 2 => reading.core = pr[2]
      /\ reading.file = 3 => reading.user = pr[2]

\* ... and, as long as there is no warning, waits to be read or has its row, ...
WalkInv ==
  tablePc \in Walking /\ ~warned =>
    \A pr \in steady : pr[1] \in unread \/ RowOf(pr) \in rows

\* ... which keeps its place until the unit is known ...
UnitInv ==
  tablePc = "unit" /\ ~warned =>
    \A pr \in steady \cap Matching :
      /\ RowOf(pr) \in rows
      /\ byUnit /\ pr \in InUnit => pr[1] \in unasked \cup units

\* ... and afterwards.
ListDoneInv ==
  (tablePc = "attach" \/ (mode = "cli" /\ tablePc \in {"sample", "compare"}) \/ tableEnd = "ok")
     /\ ~warned =>
    \A pr \in steady \cap Matching : (byUnit => pr \in InUnit) => RowOf(pr) \in rows

RowsInv == AliveInv /\ ReadInv /\ WalkInv /\ UnitInv /\ ListDoneInv

-----------------------------------------------------------------------------

LEMMA LeastPid ==
  ASSUME NEW S, S \subseteq Nat, S # {}
  PROVE  \E p \in S : \A q \in S : p <= q
<1>. DEFINE R == OpToRel(<, Nat)
<1>1. \A m, n \in Nat : m < n <=> <<m, n>> \in R
  BY DEF OpToRel
<1>2. IsWellFoundedOn(R, Nat)
  BY NatLessThanWellFounded
<1>. HIDE DEF R
<1>3. PICK p \in S : \A q \in S : ~(<<q, p>> \in R)
  BY <1>2, WFMin
<1>4. ASSUME NEW q \in S PROVE p <= q
  <2>1. p \in Nat /\ q \in Nat /\ ~(<<q, p>> \in R)
    BY <1>3
  <2>2. ~(q < p)
    BY <1>1, <2>1, Zenon
  <2>3. QED
    BY ONLY <2>1, <2>2
<1>5. QED
  BY <1>3, <1>4

LEMMA ReadingAt ==
  ASSUME NEW c \in TablePids, NEW r, r = [Nothing EXCEPT !.pid = c, !.file = 1]
  PROVE  r \in ReadingType /\ r.pid = c /\ r.file = 1
<1>1. r = [pid |-> c, file |-> 1, core |-> 0, user |-> 0]
  BY DEF Nothing
<1>2. QED
  BY ONLY <1>1, TableAssumption, c \in TablePids DEF ReadingType

(* The walk through the directory starts at a PID of it. *)
LEMMA FirstReading ==
  ASSUME NEW S, S \subseteq TablePids, S # {}, NEW r,
         r = [Nothing EXCEPT !.pid = CHOOSE p \in S : \A q \in S : p <= q, !.file = 1]
  PROVE  r \in ReadingType /\ r.pid \in S /\ r.file = 1
<1>1. S \subseteq Nat
  BY TableAssumption
<1>2. PICK c : c = CHOOSE p \in S : \A q \in S : p <= q
  OBVIOUS
<1>3. c \in S
  BY <1>1, <1>2, LeastPid
<1>4. r = [Nothing EXCEPT !.pid = c, !.file = 1]
  BY <1>2, Zenon
<1>5. QED
  BY <1>3, <1>4, ReadingAt

LEMMA NothingType == Nothing \in ReadingType
BY TableAssumption DEF Nothing, ReadingType

(* On to the next PID, or to the units. *)
LEMMA NextPidStep ==
  ASSUME ListType, NextPid(unread \ {reading.pid})
  PROVE  /\ unread' = unread \ {reading.pid} /\ unread' \in SUBSET TablePids
         /\ reading' \in ReadingType
         /\ tablePc' \in {"open", "unit"} /\ tableEnd' = tableEnd
         /\ tablePc' = "open" => /\ reading'.pid \in unread' /\ reading'.file = 1
                                 /\ unasked' = unasked
         /\ tablePc' = "unit" =>
              /\ unread' = {}
              /\ unasked' = {r.pid : r \in {r \in rows' : <<r.pid, r.core>> \in Matching}}
<1>1. unread \ {reading.pid} \subseteq TablePids
  BY DEF ListType
<1>2. CASE unread \ {reading.pid} = {}
  BY <1>1, <1>2, NothingType DEF NextPid
<1>3. CASE unread \ {reading.pid} # {}
  BY <1>1, <1>3, FirstReading, ZenonT(30) DEF NextPid
<1>4. QED
  BY <1>2, <1>3

-----------------------------------------------------------------------------
(* Types. *)

LEMMA SampleOfType ==
  ASSUME HostType, NEW seen \in SUBSET up
  PROVE  /\ SampleOf(seen) \in Sample
         /\ \A p \in TablePids :
              /\ SampleOf(seen)[p].there <=> p \in seen
              /\ p \in seen => SampleOf(seen)[p].start = start[p]
<1>1. \A p \in TablePids : NoSample[p] = [there |-> FALSE, start |-> 0, ticks |-> 0]
  BY DEF NoSample
<1>2. \A p \in TablePids : SampleOf(seen)[p] =
        IF p \in seen THEN [there |-> TRUE, start |-> start[p], ticks |-> ticks[p]]
                      ELSE [there |-> FALSE, start |-> 0, ticks |-> 0]
  BY <1>1 DEF SampleOf
<1>3. \A p \in TablePids :
        SampleOf(seen)[p] \in [there : BOOLEAN, start : 0..MaxReuse, ticks : 0..MaxTicks]
  <2>1. SUFFICES ASSUME NEW p \in TablePids
                 PROVE  SampleOf(seen)[p] \in [there : BOOLEAN, start : 0..MaxReuse,
                                               ticks : 0..MaxTicks]
    OBVIOUS
  <2>2. start[p] \in 0..MaxReuse /\ ticks[p] \in 0..MaxTicks /\ 0 \in 0..MaxReuse
        /\ 0 \in 0..MaxTicks
    BY TableAssumption DEF HostType
  <2>3. CASE p \in seen
    <3>1. SampleOf(seen)[p] = [there |-> TRUE, start |-> start[p], ticks |-> ticks[p]]
      BY <1>2, <2>3
    <3>2. QED
      BY <2>2, <3>1
  <2>4. CASE p \notin seen
    <3>1. SampleOf(seen)[p] = [there |-> FALSE, start |-> 0, ticks |-> 0]
      BY <1>2, <2>4
    <3>2. QED
      BY <2>2, <3>1
  <2>5. QED
    BY <2>3, <2>4
<1>4. SampleOf(seen) \in [TablePids -> [there : BOOLEAN, start : 0..MaxReuse,
                                        ticks : 0..MaxTicks]]
  BY ONLY <1>3 DEF SampleOf
<1>5. \A p \in TablePids :
        /\ SampleOf(seen)[p].there <=> p \in seen
        /\ p \in seen => SampleOf(seen)[p].start = start[p]
  <2>1. SUFFICES ASSUME NEW p \in TablePids
                 PROVE  /\ SampleOf(seen)[p].there <=> p \in seen
                        /\ p \in seen => SampleOf(seen)[p].start = start[p]
    OBVIOUS
  <2>2. CASE p \in seen
    <3>1. SampleOf(seen)[p] = [there |-> TRUE, start |-> start[p], ticks |-> ticks[p]]
      BY <1>2, <2>2
    <3>2. QED
      BY <2>2, <3>1
  <2>3. CASE p \notin seen
    <3>1. SampleOf(seen)[p] = [there |-> FALSE, start |-> 0, ticks |-> 0]
      BY <1>2, <2>3
    <3>2. QED
      BY <2>3, <3>1
  <2>4. QED
    BY <2>2, <2>3
<1>6. QED
  BY <1>4, <1>5 DEF Sample

LEMMA NoSampleType == NoSample \in Sample /\ \A p \in TablePids : ~NoSample[p].there
BY TableAssumption DEF NoSample, Sample

LEMMA NoCpuType ==
  /\ NoCpu \in [TablePids -> [shown : BOOLEAN, of : 0..MaxReuse, used : 0..MaxTicks]]
  /\ \A p \in TablePids : ~NoCpu[p].shown /\ NoCpu[p] = [shown |-> FALSE, of |-> 0, used |-> 0]
BY TableAssumption DEF NoCpu

LEMMA TypeInit == TableInit => ControlType /\ HostType /\ ListType /\ CpuType
<1> SUFFICES ASSUME TableInit PROVE ControlType /\ HostType /\ ListType /\ CpuType
  OBVIOUS
<1>1. ControlType
  BY DEF TableInit, ControlType
<1>2. HostType
  BY TableAssumption DEF TableInit, HostType
<1>3. ListType
  BY TableAssumption, NothingType DEF TableInit, ListType
<1>4. CpuType
  BY NoSampleType, NoCpuType DEF TableInit, CpuType
<1>5. QED
  BY <1>1, <1>2, <1>3, <1>4

LEMMA ControlNext == ControlType /\ [TableNext]_tableVars => ControlType'
<1> SUFFICES ASSUME ControlType, [TableNext]_tableVars PROVE ControlType'
  OBVIOUS
<1>. USE DEF ControlType, Quit, Go
<1>1. CASE Start
  BY <1>1 DEF Start
<1>2. CASE RefuseFilters \/ ProcessIds
  BY <1>2 DEF RefuseFilters, ProcessIds
<1>3. CASE OpenFile
  BY <1>3 DEF OpenFile, Skip, LeaveOut, NextPid
<1>4. CASE ReadFile
  BY <1>4 DEF ReadFile, LeaveOut, NextPid
<1>5. CASE ReadThrows \/ ReadLinks
  BY <1>5 DEF ReadThrows, ReadLinks, NextPid, Uncaught
<1>6. ASSUME NEW p \in TablePids, AskUnit(p) PROVE ControlType'
  BY <1>6 DEF AskUnit
<1>7. CASE ListDone \/ Capture \/ CaptureThrows \/ Compare \/ AttachCpu
  BY <1>7 DEF ListDone, Capture, CaptureThrows, Compare, AttachCpu, Uncaught
<1>8. CASE HostChanges \/ UNCHANGED tableVars
  BY <1>8 DEF HostChanges, tableVars
<1>9. QED
  BY <1>1, <1>2, <1>3, <1>4, <1>5, <1>6, <1>7, <1>8 DEF TableNext

(* The host keeps its types, a process that ends is not revived, and what  *)
(* was there from the beginning or between the captures only shrinks.      *)
LEMMA HostStepProps ==
  ASSUME HostType, AliveInv, NEW p \in TablePids, Ends(p) \/ Reuses(p) \/ Runs(p)
  PROVE  HostType' /\ AliveInv' /\ steady' \subseteq steady
<1>. USE DEF HostType, AliveInv
<1>1. CASE Ends(p)
  <2>1. steady' \subseteq steady /\ between' \subseteq between /\ UNCHANGED <<start, ticks>>
    BY <1>1 DEF Ends
  <2>2. up' = up \ {p} /\ \A pr \in steady' : pr[1] # p
    BY <1>1 DEF Ends
  <2>3. QED
    BY <2>1, <2>2
<1>2. CASE Reuses(p)
  <2>1. start[p] \in 0..MaxReuse /\ start[p] + 1 \in 0..MaxReuse
    BY <1>2, TableAssumption DEF Reuses
  <2>2. start' \in [TablePids -> 0..MaxReuse] /\ \A q \in TablePids \ {p} : start'[q] = start[q]
    BY <1>2, <2>1 DEF Reuses
  <2>3. ticks' \in [TablePids -> 0..MaxTicks]
    BY <1>2, TableAssumption DEF Reuses
  <2>4. UNCHANGED <<steady, between>> /\ up' = up \cup {p} /\ p \notin up
    BY <1>2 DEF Reuses
  <2>5. \A pr \in steady : pr[1] \in TablePids \ {p}
    BY <2>4
  <2>6. QED
    BY <2>2, <2>3, <2>4, <2>5
<1>3. CASE Runs(p)
  <2>1. ticks[p] \in 0..MaxTicks /\ ticks[p] + 1 \in 0..MaxTicks
    BY <1>3, TableAssumption DEF Runs
  <2>2. ticks' \in [TablePids -> 0..MaxTicks]
    BY <1>3, <2>1 DEF Runs
  <2>3. UNCHANGED <<up, start, steady, between>>
    BY <1>3 DEF Runs
  <2>4. QED
    BY <2>2, <2>3
<1>4. QED
  BY <1>1, <1>2, <1>3

\* The processes there are now.
LEMMA PresentType ==
  ASSUME HostType
  PROVE  {<<p, start[p]>> : p \in up} \in SUBSET Processes
BY DEF HostType, Processes

LEMMA HostTypeNext == HostType /\ AliveInv /\ [TableNext]_tableVars => HostType' /\ AliveInv'
<1> SUFFICES ASSUME HostType, AliveInv, [TableNext]_tableVars PROVE HostType' /\ AliveInv'
  OBVIOUS
<1>1. CASE UNCHANGED hostPart
  BY <1>1 DEF hostPart, HostType, AliveInv
<1>2. CASE Start
  <2>1. UNCHANGED <<up, start, ticks, between>> /\ steady' = {<<p, start[p]>> : p \in up}
    BY <1>2 DEF Start
  <2>2. HostType'
    BY <2>1, PresentType DEF HostType
  <2>3. AliveInv'
    BY <2>1 DEF AliveInv
  <2>4. QED
    BY <2>2, <2>3
<1>3. CASE Capture
  <2>1. UNCHANGED <<up, start, ticks, steady>>
        /\ between' \in {between, {<<p, start[p]>> : p \in up}}
    BY <1>3 DEF Capture
  <2>2. HostType'
    BY <2>1, PresentType DEF HostType
  <2>3. QED
    BY <2>1, <2>2 DEF AliveInv
<1>4. CASE CaptureThrows \/ HostChanges
  BY <1>4, HostStepProps DEF CaptureThrows, HostChanges
<1>5. CASE RefuseFilters \/ ProcessIds \/ OpenFile \/ ReadFile \/ ReadThrows \/ ReadLinks
  BY <1>1, <1>5 DEF RefuseFilters, ProcessIds, OpenFile, ReadFile, ReadThrows, ReadLinks
<1>6. CASE (\E p \in TablePids : AskUnit(p)) \/ ListDone \/ Compare \/ AttachCpu
  BY <1>1, <1>6 DEF AskUnit, ListDone, Compare, AttachCpu
<1>7. CASE UNCHANGED tableVars
  BY <1>1, <1>7 DEF tableVars, hostPart
<1>8. QED
  BY <1>2, <1>3, <1>4, <1>5, <1>6, <1>7 DEF TableNext

(* The PID in hand was listed by the directory. *)
LEMMA ReadingPid ==
  ASSUME ListType, StageInv, tablePc \in Walking
  PROVE  /\ reading.pid \in TablePids /\ reading.pid \in unread
         /\ reading.file \in 1..3 /\ reading.core \in 0..MaxReuse /\ reading.user \in 0..MaxReuse
BY DEF ListType, StageInv, ReadingType

(* One more file has been read of the process in hand. *)
LEMMA FileRead ==
  ASSUME ListType, StageInv, HostType, tablePc = "read", StillThere,
         reading' = [reading EXCEPT !.file = IF @ < 3 THEN @ + 1 ELSE @,
                                    !.core = IF reading.file = 1 THEN opened ELSE @,
                                    !.user = IF reading.file = 2 THEN opened ELSE @]
  PROVE  /\ reading' \in ReadingType
         /\ reading'.pid = reading.pid
         /\ reading'.file = IF reading.file < 3 THEN reading.file + 1 ELSE 3
         /\ reading'.core = IF reading.file = 1 THEN start[reading.pid] ELSE reading.core
         /\ reading'.user = IF reading.file = 2 THEN start[reading.pid] ELSE reading.user
<1>1. /\ reading.pid \in TablePids /\ reading.file \in 1..3
      /\ reading.core \in 0..MaxReuse /\ reading.user \in 0..MaxReuse
  BY ReadingPid DEF Walking
<1>2. opened = start[reading.pid] /\ opened \in 0..MaxReuse
  BY DEF StillThere, ListType
<1>3. reading' = [pid |-> reading.pid,
                  file |-> IF reading.file < 3 THEN reading.file + 1 ELSE reading.file,
                  core |-> IF reading.file = 1 THEN opened ELSE reading.core,
                  user |-> IF reading.file = 2 THEN opened ELSE reading.user]
  BY DEF ListType, ReadingType
<1>4. /\ reading'.pid = reading.pid
      /\ reading'.file = IF reading.file < 3 THEN reading.file + 1 ELSE 3
      /\ reading'.core = IF reading.file = 1 THEN start[reading.pid] ELSE reading.core
      /\ reading'.user = IF reading.file = 2 THEN start[reading.pid] ELSE reading.user
  BY <1>1, <1>2, <1>3
<1>5. \E f \in 0..3, c, u \in 0..MaxReuse :
        reading' = [pid |-> reading.pid, file |-> f, core |-> c, user |-> u]
  <2>1. (IF reading.file < 3 THEN reading.file + 1 ELSE reading.file) \in 0..3
    BY <1>1
  <2>2. /\ (IF reading.file = 1 THEN opened ELSE reading.core) \in 0..MaxReuse
        /\ (IF reading.file = 2 THEN opened ELSE reading.user) \in 0..MaxReuse
    BY <1>1, <1>2
  <2>3. QED
    BY ONLY <1>3, <2>1, <2>2
<1>6. reading' \in ReadingType
  BY ONLY <1>1, <1>5 DEF ReadingType
<1>7. QED
  BY <1>4, <1>6

LEMMA ListNext ==
  ListType /\ StageInv /\ HostType /\ [TableNext]_tableVars => ListType'
<1> SUFFICES ASSUME ListType, StageInv, HostType, [TableNext]_tableVars PROVE ListType'
  OBVIOUS
<1>1. ASSUME NextPid(unread \ {reading.pid}), rows' \in SUBSET Row
      PROVE  /\ unread' \in SUBSET TablePids /\ reading' \in ReadingType
             /\ unasked' \in SUBSET TablePids
  <2>1. \A r \in rows' : r.pid \in TablePids
    BY <1>1 DEF Row
  <2>2. QED
    BY <1>1, <2>1, NextPidStep DEF ListType
<1>2. CASE UNCHANGED <<listPart, unitPart>>
  BY <1>2 DEF listPart, unitPart, ListType
<1>3. CASE ProcessIds
  <2>1. UNCHANGED <<opened, rows, unasked, units>>
    BY <1>3 DEF ProcessIds, unitPart
  <2>2. unread' \in SUBSET TablePids
    BY <1>3 DEF ProcessIds, HostType, ListType
  <2>3. reading' \in ReadingType
    BY <1>3, NothingType, FirstReading DEF ProcessIds, HostType, ListType
  <2>4. QED
    BY <2>1, <2>2, <2>3 DEF ListType
<1>4. CASE OpenFile
  <2>1. UNCHANGED <<rows, units>> /\ opened' \in 0..MaxReuse
    BY <1>4 DEF OpenFile, Skip, LeaveOut, HostType, ListType
  <2>2. CASE UNCHANGED <<unread, reading, unasked>>
    BY <2>1, <2>2 DEF ListType
  <2>3. CASE NextPid(unread \ {reading.pid})
    BY <1>1, <2>1, <2>3 DEF ListType
  <2>4. QED
    BY <1>4, <2>2, <2>3 DEF OpenFile, Skip, LeaveOut
<1>5. CASE ReadFile
  <2>1. UNCHANGED <<rows, units>> /\ opened' \in 0..MaxReuse
    BY <1>5, TableAssumption DEF ReadFile, LeaveOut
  <2>2. CASE NextPid(unread \ {reading.pid})
    BY <1>1, <2>1, <2>2 DEF ListType
  <2>3. CASE ~NextPid(unread \ {reading.pid})
    BY <1>5, <2>1, <2>3, FileRead DEF ReadFile, LeaveOut, ListType
  <2>4. QED
    BY <2>2, <2>3
<1>6. CASE ReadLinks
  <2>1. [pid |-> reading.pid, core |-> reading.core, user |-> reading.user] \in Row
    BY <1>6, ReadingPid DEF ReadLinks, Row, Walking
  <2>2. rows' \in SUBSET Row
    BY <1>6, <2>1 DEF ReadLinks, ListType
  <2>3. QED
    BY <1>1, <1>6, <2>2 DEF ReadLinks, ListType
<1>7. ASSUME NEW p \in TablePids, AskUnit(p) PROVE ListType'
  <2>1. UNCHANGED listPart /\ unasked' \subseteq unasked /\ units' \subseteq units \cup {p}
    BY <1>7 DEF AskUnit
  <2>2. QED
    BY <2>1 DEF ListType, listPart
<1>8. CASE ListDone
  BY <1>8 DEF ListDone, ListType, Listed, unitPart
<1>9. CASE Start \/ RefuseFilters \/ ReadThrows \/ Capture \/ CaptureThrows \/ Compare
           \/ AttachCpu \/ HostChanges
  BY <1>2, <1>9 DEF Start, RefuseFilters, ReadThrows, Capture, CaptureThrows, Compare,
     AttachCpu, HostChanges
<1>10. CASE UNCHANGED tableVars
  BY <1>2, <1>10 DEF tableVars, listPart, unitPart
<1>11. QED
  BY <1>3, <1>4, <1>5, <1>6, <1>7, <1>8, <1>9, <1>10 DEF TableNext

-----------------------------------------------------------------------------
(* The stages. *)

LEMMA StageNext ==
  ControlType /\ ListType /\ HostType /\ CpuType /\ StageInv /\ [TableNext]_tableVars => StageInv'
<1> SUFFICES ASSUME ControlType, ListType, HostType, CpuType, StageInv, [TableNext]_tableVars
             PROVE  StageInv'
  OBVIOUS
<1>. USE DEF StageInv, Go, Quit, cpuPart
<1>1. CASE Start
  BY <1>1 DEF Start, Walking
<1>2. ASSUME tablePc' = "over" PROVE StageInv'
  BY <1>2 DEF Walking
<1>3. CASE RefuseFilters \/ ReadThrows \/ CaptureThrows \/ AttachCpu
  BY <1>2, <1>3 DEF RefuseFilters, ReadThrows, CaptureThrows, AttachCpu
<1>4. CASE ProcessIds
  <2>1. CASE tablePc' = "over"
    BY <1>2, <2>1
  <2>2. CASE tablePc' = "unit" \/ tablePc' = "open"
    <3>1. tablePc' = "open" => reading'.pid \in unread' /\ reading'.file = 1
      BY <1>4, <2>2, FirstReading, ZenonT(30) DEF ProcessIds, HostType
    <3>2. UNCHANGED <<samples, mode>> /\ tableEnd' = "none" /\ tablePc = "ids"
      BY <1>4, <2>2 DEF ProcessIds
    <3>3. QED
      BY <2>2, <3>1, <3>2 DEF Walking
  <2>3. QED
    BY <1>4, <2>1, <2>2 DEF ProcessIds
<1>5. ASSUME tablePc \in Walking, NextPid(unread \ {reading.pid}), UNCHANGED <<samples, mode>>
      PROVE  StageInv'
  <2>1. tablePc' \in {"open", "unit"} /\ tableEnd' = tableEnd
        /\ (tablePc' = "open" => reading'.pid \in unread' /\ reading'.file = 1)
    BY <1>5, NextPidStep
  <2>2. QED
    BY <1>5, <2>1 DEF Walking
<1>6. CASE OpenFile
  <2>1. CASE LeaveOut
    BY <1>5, <1>6, <2>1 DEF OpenFile, LeaveOut, Walking
  <2>2. CASE ~LeaveOut
    <3>1. \/ tablePc' = "read"
          \/ tablePc' = "links" /\ Optional
      BY <1>6, <2>2 DEF OpenFile, Skip
    <3>2. Optional => reading.file = 3
      BY <1>6, ReadingPid DEF Optional, Files, OpenFile, Walking
    <3>3. UNCHANGED <<samples, mode, reading, unread, tableEnd>>
      BY <1>6, <2>2 DEF OpenFile, Skip
    <3>4. QED
      BY <1>6, <3>1, <3>2, <3>3 DEF OpenFile, Walking
  <2>3. QED
    BY <2>1, <2>2
<1>7. CASE ReadFile
  <2>1. CASE LeaveOut
    BY <1>5, <1>7, <2>1 DEF ReadFile, LeaveOut, Walking
  <2>2. CASE ~LeaveOut
    <3>1. /\ reading'.pid = reading.pid
          /\ reading'.file = IF reading.file < 3 THEN reading.file + 1 ELSE 3
      BY <1>7, <2>2, FileRead DEF ReadFile
    <3>2. /\ tablePc' = IF reading.file = 3 THEN "links" ELSE "open"
          /\ UNCHANGED <<samples, mode, unread, tableEnd>>
      BY <1>7, <2>2 DEF ReadFile
    <3>3. reading.file \in 1..3 /\ tablePc = "read"
      BY <1>7 DEF ReadFile, Walking
    <3>4. QED
      BY <3>1, <3>2, <3>3 DEF Walking
  <2>3. QED
    BY <2>1, <2>2
<1>8. CASE ReadLinks
  BY <1>5, <1>8 DEF ReadLinks, Walking
<1>9. ASSUME NEW p \in TablePids, AskUnit(p) PROVE StageInv'
  <2>1. tablePc = "unit" /\ UNCHANGED <<samples, mode>>
    BY <1>9 DEF AskUnit
  <2>2. tablePc' = "over" \/ UNCHANGED <<tablePc, tableEnd>>
    BY <1>9 DEF AskUnit
  <2>3. QED
    BY <1>2, <2>1, <2>2 DEF Walking
<1>10. CASE ListDone
  BY <1>10 DEF ListDone, Walking
<1>11. CASE Capture
  <2>1. tablePc = "sample" /\ UNCHANGED <<mode, tableEnd>> /\ samples.n \in {0, 1, 2}
        /\ samples.n <= 1
    BY <1>11 DEF Capture, CpuType
  <2>2. \/ /\ samples'.n = samples.n + 1
           /\ tablePc' = IF samples.n = 0 THEN "sample" ELSE "compare"
        \/ /\ samples' = samples
           /\ tablePc' = IF mode = "cli" THEN "attach" ELSE "ids"
    BY <1>11 DEF Capture
  <2>3. QED
    BY <2>1, <2>2 DEF Walking
<1>12. CASE Compare
  BY <1>12 DEF Compare, Walking
<1>13. CASE HostChanges
  BY <1>13 DEF HostChanges, listPart
<1>14. CASE UNCHANGED tableVars
  BY <1>14 DEF tableVars
<1>15. QED
  BY <1>1, <1>3, <1>4, <1>6, <1>7, <1>8, <1>9, <1>10, <1>11, <1>12, <1>13, <1>14
     DEF TableNext

-----------------------------------------------------------------------------
(* CPU shares. *)

\* What compare() computes for one PID.
LEMMA CompareStep ==
  ASSUME CpuType, Compare
  PROVE  /\ cpu' \in [TablePids -> [shown : BOOLEAN, of : 0..MaxReuse, used : 0..MaxTicks]]
         /\ \A p \in TablePids :
              cpu'[p].shown => Comparable(p) /\ cpu'[p].of = samples.new[p].start
<1>. DEFINE Share == [shown : BOOLEAN, of : 0..MaxReuse, used : 0..MaxTicks]
<1>1. CASE cpu' = NoCpu
  BY <1>1, NoCpuType
<1>2. CASE cpu' = [p \in TablePids |->
                    IF Comparable(p)
                      THEN [shown |-> TRUE, of |-> samples.new[p].start,
                            used |-> samples.new[p].ticks - samples.old[p].ticks]
                      ELSE NoCpu[p]]
  <2>1. ASSUME NEW p \in TablePids
        PROVE  /\ cpu'[p] \in Share
               /\ cpu'[p].shown => Comparable(p) /\ cpu'[p].of = samples.new[p].start
    <3>1. CASE ~Comparable(p)
      BY <1>2, <3>1, NoCpuType
    <3>2. CASE Comparable(p)
      <4>1. cpu'[p] = [shown |-> TRUE, of |-> samples.new[p].start,
                       used |-> samples.new[p].ticks - samples.old[p].ticks]
        BY <1>2, <3>2
      <4>2. /\ samples.new[p].start \in 0..MaxReuse
            /\ samples.new[p].ticks \in 0..MaxTicks /\ samples.old[p].ticks \in 0..MaxTicks
        BY DEF CpuType, Sample
      <4>3. samples.new[p].ticks - samples.old[p].ticks \in 0..MaxTicks
        BY <3>2, <4>2, TableAssumption DEF Comparable
      <4>4. QED
        BY <3>2, <4>1, <4>2, <4>3
    <3>3. QED
      BY <3>1, <3>2
  <2>2. cpu' \in [TablePids -> Share]
    BY <1>2, <2>1
  <2>3. QED
    BY <2>1, <2>2
<1>3. QED
  BY <1>1, <1>2 DEF Compare

LEMMA CaptureStep ==
  ASSUME CpuType, HostType, StageInv, Capture
  PROVE  \/ UNCHANGED <<samples, between>>
         \/ \E seen \in SUBSET up :
              /\ samples' = [n |-> samples.n + 1, old |-> samples.new, new |-> SampleOf(seen)]
              /\ samples.n \in {0, 1}
              /\ between' = IF samples.n = 0 THEN {<<p, start[p]>> : p \in up} ELSE between
<1>1. samples.n \in {0, 1}
  BY DEF CpuType, StageInv, Capture
<1>2. QED
  BY <1>1 DEF Capture

LEMMA CpuNext ==
  CpuType /\ HostType /\ StageInv /\ [TableNext]_tableVars => CpuType'
<1> SUFFICES ASSUME CpuType, HostType, StageInv, [TableNext]_tableVars PROVE CpuType'
  OBVIOUS
<1>1. CASE UNCHANGED cpuPart
  BY <1>1 DEF cpuPart, CpuType
<1>2. CASE Capture
  <2>1. CASE UNCHANGED <<samples, between>>
    BY <1>1, <1>2, <2>1 DEF Capture, cpuPart
  <2>2. CASE ~UNCHANGED <<samples, between>>
    <3>1. PICK seen \in SUBSET up :
            /\ samples' = [n |-> samples.n + 1, old |-> samples.new, new |-> SampleOf(seen)]
            /\ samples.n \in {0, 1}
      BY <1>2, <2>2, CaptureStep
    <3>2. SampleOf(seen) \in Sample /\ samples.new \in Sample
      BY SampleOfType DEF CpuType
    <3>3. samples' \in [n : 0..2, old : Sample, new : Sample]
      BY <3>1, <3>2
    <3>4. QED
      BY <1>2, <3>3 DEF Capture, CpuType
  <2>3. QED
    BY <2>1, <2>2
<1>3. CASE Compare
  BY <1>3, CompareStep DEF Compare, CpuType
<1>4. CASE Start \/ RefuseFilters \/ ProcessIds \/ OpenFile \/ ReadFile \/ ReadThrows \/ ReadLinks
  BY <1>1, <1>4 DEF Start, RefuseFilters, ProcessIds, OpenFile, ReadFile, ReadThrows, ReadLinks
<1>5. CASE (\E p \in TablePids : AskUnit(p)) \/ ListDone \/ AttachCpu \/ CaptureThrows \/ HostChanges
  BY <1>1, <1>5 DEF AskUnit, ListDone, AttachCpu, CaptureThrows, HostChanges
<1>6. CASE UNCHANGED tableVars
  BY <1>1, <1>6 DEF tableVars, cpuPart
<1>7. QED
  BY <1>2, <1>3, <1>4, <1>5, <1>6 DEF TableNext

(* A change of the host while one capture has been made. *)
LEMMA CaptureHost ==
  ASSUME CpuType, HostType, CaptureInv, CpuOfOneProcess, UNCHANGED cpuPart,
         NEW p \in TablePids, Ends(p) \/ Reuses(p) \/ Runs(p)
  PROVE  CaptureInv' /\ CpuOfOneProcess'
<1>1. UNCHANGED <<samples, cpu>>
  BY DEF cpuPart
<1>2. samples.n # 1 => between' = between
  BY DEF Ends, Reuses, Runs
<1>3. \A q \in TablePids : start[q] \in Nat /\ start'[q] \in Nat /\ start[q] <= start'[q]
  <2>1. \A q \in TablePids : start[q] \in Nat
    BY TableAssumption DEF HostType
  <2>2. \A q \in TablePids : start'[q] = start[q] \/ start'[q] = start[q] + 1
    BY DEF Ends, Reuses, Runs, HostType
  <2>3. QED
    BY ONLY <2>1, <2>2
<1>4. ASSUME NEW q \in TablePids, samples.n = 1, samples.new[q].there
      PROVE  /\ samples.new[q].start <= start'[q]
             /\ q \in up' /\ start'[q] = samples.new[q].start => <<q, start'[q]>> \in between'
  <2>1. samples.new[q].start \in Nat
    BY TableAssumption DEF CpuType, Sample
  <2>2. /\ samples.new[q].start <= start[q]
        /\ q \in up /\ start[q] = samples.new[q].start => <<q, start[q]>> \in between
    BY <1>4 DEF CaptureInv
  <2>3. samples.new[q].start <= start'[q]
    BY ONLY <1>3, <2>1, <2>2, q \in TablePids
  <2>4. ASSUME q \in up', start'[q] = samples.new[q].start PROVE <<q, start'[q]>> \in between'
    <3>1. start'[q] = start[q]
      BY ONLY <1>3, <2>1, <2>2, <2>4, q \in TablePids
    <3>2. q \in up /\ (Ends(p) => q # p)
      <4>1. CASE Ends(p) \/ Runs(p)
        BY <2>4, <4>1 DEF Ends, Runs
      <4>2. CASE Reuses(p)
        <5>1. q # p
          <6>1. start'[p] = start[p] + 1 /\ start[p] \in Nat
            BY <1>3, <4>2 DEF Reuses, HostType
          <6>2. QED
            BY <3>1, <6>1
        <5>2. ~Ends(p)
          BY <4>2 DEF Reuses, Ends
        <5>3. QED
          BY <2>4, <4>2, <5>1, <5>2 DEF Reuses
      <4>3. QED
        BY <4>1, <4>2
    <3>3. <<q, start[q]>> \in between
      BY <2>2, <2>4, <3>1, <3>2
    <3>4. <<q, start[q]>> \in between'
      <4>1. CASE Ends(p)
        BY <3>2, <3>3, <4>1 DEF Ends
      <4>2. CASE Reuses(p) \/ Runs(p)
        BY <3>3, <4>2 DEF Reuses, Runs
      <4>3. QED
        BY <4>1, <4>2
    <3>5. QED
      BY <3>1, <3>4
  <2>5. QED
    BY <2>3, <2>4
<1>5. CaptureInv'
  BY <1>1, <1>2, <1>4 DEF CaptureInv
<1>6. CpuOfOneProcess'
  BY <1>1, <1>2 DEF CaptureInv, CpuOfOneProcess
<1>7. QED
  BY <1>5, <1>6

LEMMA CaptureNext ==
  CpuType /\ HostType /\ StageInv /\ CaptureInv /\ CpuOfOneProcess /\ [TableNext]_tableVars
    => CaptureInv' /\ CpuOfOneProcess'
<1> SUFFICES ASSUME CpuType, HostType, StageInv, CaptureInv, CpuOfOneProcess,
                    [TableNext]_tableVars
             PROVE  CaptureInv' /\ CpuOfOneProcess'
  OBVIOUS
<1>1. CASE UNCHANGED <<cpuPart, up, start, between>>
  BY <1>1 DEF cpuPart, CaptureInv, CpuOfOneProcess
<1>2. CASE HostChanges \/ CaptureThrows
  BY <1>2, CaptureHost DEF HostChanges, CaptureThrows
<1>3. CASE Capture
  <2>1. CASE UNCHANGED <<samples, between>>
    BY <1>1, <1>3, <2>1 DEF Capture, cpuPart
  <2>2. CASE ~UNCHANGED <<samples, between>>
    <3>1. PICK seen \in SUBSET up :
            /\ samples' = [n |-> samples.n + 1, old |-> samples.new, new |-> SampleOf(seen)]
            /\ samples.n \in {0, 1}
            /\ between' = IF samples.n = 0 THEN {<<p, start[p]>> : p \in up} ELSE between
      BY <1>3, <2>2, CaptureStep
    <3>2. UNCHANGED <<up, start, cpu>>
      BY <1>3 DEF Capture
    <3>3. /\ samples'.n = samples.n + 1 /\ samples'.old = samples.new
          /\ samples'.new = SampleOf(seen)
      BY <3>1
    <3>4. \A p \in TablePids : ~cpu[p].shown
      BY <3>1 DEF CaptureInv
    <3>5. CpuOfOneProcess'
      BY <3>2, <3>4 DEF CpuOfOneProcess
    <3>6. \A p \in TablePids :
            /\ SampleOf(seen)[p].there <=> p \in seen
            /\ p \in seen => SampleOf(seen)[p].start = start[p]
      BY SampleOfType
    <3>7. CASE samples.n = 0
      <4>1. \A p \in TablePids : start[p] \in Nat
        BY TableAssumption DEF HostType
      <4>2. ASSUME NEW p \in TablePids, samples'.new[p].there
            PROVE  /\ samples'.new[p].start <= start[p]
                   /\ <<p, start[p]>> \in between'
        <5>1. p \in seen /\ samples'.new[p].start = start[p]
          BY <3>3, <3>6, <4>2
        <5>2. between' = {<<q, start[q]>> : q \in up}
          BY <3>1, <3>7
        <5>3. QED
          BY <4>1, <5>1, <5>2
      <4>3. samples'.n = 1
        BY <3>3, <3>7
      <4>4. QED
        BY <3>2, <3>4, <3>5, <4>2, <4>3 DEF CaptureInv
    <3>8. CASE samples.n = 1
      <4>1. samples'.n = 2 /\ between' = between
        BY <3>1, <3>3, <3>8
      <4>2. ASSUME NEW p \in TablePids, samples'.old[p].there, samples'.new[p].there,
                   samples'.old[p].start = samples'.new[p].start
            PROVE  <<p, samples'.new[p].start>> \in between'
        <5>1. p \in up /\ samples'.new[p].start = start[p]
          BY <3>3, <3>6, <4>2
        <5>2. samples.new[p].there /\ samples.new[p].start = start[p]
          BY <3>3, <4>2, <5>1
        <5>3. QED
          BY <3>8, <4>1, <5>1, <5>2 DEF CaptureInv
      <4>3. QED
        BY <3>5, <4>1, <4>2 DEF CaptureInv
    <3>9. QED
      BY <3>1, <3>7, <3>8
  <2>3. QED
    BY <2>1, <2>2
<1>4. CASE Compare
  <2>1. samples.n = 2 /\ UNCHANGED <<up, start, between, samples>>
    BY <1>4 DEF Compare, StageInv, hostPart
  <2>2. CaptureInv'
    BY <2>1 DEF CaptureInv
  <2>3. \A p \in TablePids : cpu'[p].shown =>
          Comparable(p) /\ cpu'[p].of = samples.new[p].start
    BY <1>4, CompareStep
  <2>4. CpuOfOneProcess'
    BY <2>1, <2>3 DEF CpuOfOneProcess, CaptureInv, Comparable
  <2>5. QED
    BY <2>2, <2>4
<1>5. CASE Start \/ RefuseFilters \/ ProcessIds \/ OpenFile \/ ReadFile \/ ReadThrows \/ ReadLinks
  BY <1>1, <1>5 DEF Start, RefuseFilters, ProcessIds, OpenFile, ReadFile, ReadThrows, ReadLinks,
     hostPart
<1>6. CASE (\E p \in TablePids : AskUnit(p)) \/ ListDone \/ AttachCpu
  BY <1>1, <1>6 DEF AskUnit, ListDone, AttachCpu, hostPart
<1>7. CASE UNCHANGED tableVars
  BY <1>1, <1>7 DEF tableVars, cpuPart
<1>8. QED
  BY <1>2, <1>3, <1>4, <1>5, <1>6, <1>7 DEF TableNext

-----------------------------------------------------------------------------
(* Rows. *)

LEMMA PairIs ==
  ASSUME HostType, NEW pr \in steady
  PROVE  pr[1] \in TablePids /\ pr[2] \in 0..MaxReuse /\ pr = <<pr[1], pr[2]>>
BY DEF HostType, Processes

(* The row in hand when the links are read is the row of its process. *)
LEMMA RowInHand ==
  ASSUME ListType, StageInv, ReadInv, tablePc = "links",
         NEW pr \in steady, pr[1] = reading.pid
  PROVE  [pid |-> reading.pid, core |-> reading.core, user |-> reading.user] = RowOf(pr)
<1>1. reading.file = 3
  BY DEF StageInv
<1>2. reading.core = pr[2] /\ reading.user = pr[2]
  BY <1>1 DEF ReadInv, Walking
<1>3. QED
  BY <1>2 DEF RowOf

(* When the walk goes on after the row of the PID in hand was added, no    *)
(* process that was there from the beginning is missing.                   *)
LEMMA WalkOn ==
  ASSUME ListType, StageInv, HostType, RowsInv, ReadLinks
  PROVE  WalkInv' /\ UnitInv'
<1>1. steady' = steady /\ tablePc = "links" /\ tablePc \in Walking
  BY DEF ReadLinks, hostPart, Walking
<1>2. rows' = rows \cup {[pid |-> reading.pid, core |-> reading.core, user |-> reading.user]}
  BY DEF ReadLinks
<1>3. NextPid(unread \ {reading.pid})
  BY DEF ReadLinks
<1>4. ~warned' => ~warned
  BY DEF ReadLinks
<1>5. ASSUME NEW pr \in steady, ~warned PROVE pr[1] \in unread' \/ RowOf(pr) \in rows'
  <2>1. pr[1] \in unread \/ RowOf(pr) \in rows
    BY <1>1, <1>5 DEF RowsInv, WalkInv
  <2>2. CASE pr[1] = reading.pid
    BY <1>1, <1>2, <2>2, RowInHand DEF RowsInv
  <2>3. CASE pr[1] # reading.pid
    BY <1>2, <1>3, <2>1, <2>3, NextPidStep
  <2>4. QED
    BY <2>2, <2>3
<1>6. WalkInv'
  BY <1>1, <1>4, <1>5 DEF WalkInv
<1>7. ASSUME tablePc' = "unit", ~warned', NEW pr \in steady, pr \in Matching
      PROVE  RowOf(pr) \in rows' /\ pr[1] \in unasked'
  <2>1. RowOf(pr) \in rows'
    BY <1>3, <1>4, <1>5, <1>7, NextPidStep
  <2>2. unasked' = {r.pid : r \in {r \in rows' : <<r.pid, r.core>> \in Matching}}
    BY <1>3, <1>7, NextPidStep
  <2>3. RowOf(pr).pid = pr[1] /\ <<RowOf(pr).pid, RowOf(pr).core>> = pr
    BY PairIs DEF RowOf
  <2>4. QED
    BY <1>7, <2>1, <2>2, <2>3
<1>8. UnitInv'
  BY <1>1, <1>7 DEF UnitInv
<1>9. QED
  BY <1>6, <1>8

(* An answer about the unit of a process that is still there is about it. *)
LEMMA UnitAsked ==
  ASSUME HostType, StageInv, RowsInv, NEW p \in TablePids, AskUnit(p)
  PROVE  UnitInv'
<1>1. tablePc = "unit" /\ UNCHANGED <<rows, byUnit, steady>> /\ unasked' = unasked \ {p}
  BY DEF AskUnit, hostPart, listPart
<1>2. ~warned' => ~warned
  BY DEF AskUnit
<1>3. units \subseteq units'
  BY DEF AskUnit
<1>4. ASSUME NEW pr \in steady, pr[1] = p, pr \in InUnit, byUnit, tablePc' = "unit", ~warned'
      PROVE  p \in units'
  <2>1. p \in up /\ <<p, start[p]>> = pr
    BY <1>4, PairIs DEF RowsInv, AliveInv
  <2>2. UnitByPid(p) \subseteq {"the service", "bus", "unavailable"}
    BY <1>4, <2>1 DEF UnitByPid
  <2>3. PICK a \in UnitByPid(p) :
          /\ units' = IF a = "the service" THEN units \cup {p} ELSE units
          /\ warned' = IF a = "bus" THEN TRUE ELSE warned
          /\ IF a = "unavailable" /\ byUnit THEN Quit("Unavailable")
             ELSE UNCHANGED <<tablePc, tableEnd>>
    BY DEF AskUnit
  <2>4. a # "bus" /\ a # "unavailable"
    BY <1>4, <2>3 DEF Quit
  <2>5. QED
    BY <2>2, <2>3, <2>4
<1>5. ASSUME tablePc' = "unit", ~warned', NEW pr \in steady, pr \in Matching
      PROVE  /\ RowOf(pr) \in rows'
             /\ byUnit' /\ pr \in InUnit => pr[1] \in unasked' \cup units'
  <2>1. RowOf(pr) \in rows /\ (byUnit /\ pr \in InUnit => pr[1] \in unasked \cup units)
    BY <1>1, <1>2, <1>5 DEF RowsInv, UnitInv
  <2>2. QED
    BY <1>1, <1>3, <1>4, <1>5, <2>1
<1>6. QED
  BY <1>1, <1>5 DEF UnitInv

(* The finished list keeps them. *)
LEMMA ListKept ==
  ASSUME HostType, StageInv, RowsInv, ListDone
  PROVE  ListDoneInv'
<1>1. tablePc = "unit" /\ unasked = {} /\ rows' = Listed
      /\ UNCHANGED <<byUnit, steady, warned, mode>>
  BY DEF ListDone, hostPart
<1>2. ASSUME ~warned, NEW pr \in steady, pr \in Matching, byUnit => pr \in InUnit
      PROVE  RowOf(pr) \in Listed
  <2>1. RowOf(pr) \in rows /\ (byUnit => pr[1] \in units)
    BY <1>1, <1>2 DEF RowsInv, UnitInv
  <2>2. RowOf(pr).pid = pr[1] /\ <<RowOf(pr).pid, RowOf(pr).core>> = pr
    BY PairIs DEF RowOf
  <2>3. QED
    BY <1>2, <2>1, <2>2 DEF Listed
<1>3. QED
  BY <1>1, <1>2 DEF ListDoneInv

LEMMA RowsNext ==
  ControlType /\ ListType /\ HostType /\ StageInv /\ RowsInv /\ [TableNext]_tableVars
    => RowsInv'
<1> SUFFICES ASSUME ControlType, ListType, HostType, StageInv, RowsInv, [TableNext]_tableVars
             PROVE  RowsInv'
  OBVIOUS
<1>1. AliveInv'
  BY HostTypeNext DEF RowsInv
<1>. DEFINE Rest == ReadInv /\ WalkInv /\ UnitInv /\ ListDoneInv
<1>2. ASSUME tablePc' = "over", tableEnd' # "ok" PROVE Rest'
  BY <1>2 DEF ReadInv, WalkInv, UnitInv, ListDoneInv, Walking
<1>3. CASE Start
  <2>1. tablePc' \in {"ids", "sample"} /\ (tablePc' = "sample" => mode' = "dashboard")
        /\ tableEnd' = "none"
    BY <1>3 DEF Start, Go, StageInv
  <2>2. Rest'
    BY <2>1 DEF ReadInv, WalkInv, UnitInv, ListDoneInv, Walking
  <2>3. QED
    BY <1>1, <2>2 DEF RowsInv
<1>4. CASE RefuseFilters \/ ReadThrows \/ CaptureThrows
  <2>1. tablePc' = "over" /\ tableEnd' # "ok"
    BY <1>4 DEF RefuseFilters, ReadThrows, CaptureThrows, Quit, Uncaught
  <2>2. QED
    BY <1>1, <1>2, <2>1 DEF RowsInv
<1>5. CASE ProcessIds
  <2>1. CASE tablePc' = "over"
    <3>1. tableEnd' # "ok"
      BY <1>5, <2>1 DEF ProcessIds, Go, Quit
    <3>2. QED
      BY <1>1, <1>2, <2>1, <3>1 DEF RowsInv
  <2>2. CASE tablePc' # "over"
    <3>1. /\ unread' = up /\ tablePc' = (IF up = {} THEN "unit" ELSE "open")
          /\ UNCHANGED <<tableEnd, steady, up, start>> /\ tableEnd = "none"
      BY <1>5, <2>2 DEF ProcessIds, Go, Quit, hostPart, StageInv
    <3>2. \A pr \in steady : pr[1] \in up
      BY DEF RowsInv, AliveInv
    <3>3. tablePc' = "open" => reading'.file = 1
      <4>1. SUFFICES ASSUME tablePc' = "open" PROVE reading'.file = 1
        OBVIOUS
      <4>2. up # {} /\ up \subseteq TablePids
        BY <3>1, <4>1 DEF HostType
      <4>3. reading' = [Nothing EXCEPT !.pid = CHOOSE p \in up : \A q \in up : p <= q,
                                       !.file = 1]
        BY <1>5, <4>1, <4>2 DEF ProcessIds, Quit
      <4>4. QED
        BY <4>2, <4>3, FirstReading
    <3>4. ReadInv' /\ WalkInv'
      BY <3>1, <3>2, <3>3 DEF ReadInv, WalkInv, Walking
    <3>5. UnitInv' /\ ListDoneInv'
      BY <3>1, <3>2 DEF UnitInv, ListDoneInv
    <3>6. QED
      BY <1>1, <3>4, <3>5 DEF RowsInv
  <2>3. QED
    BY <2>1, <2>2
<1>6. ASSUME tablePc \in Walking, NextPid(unread \ {reading.pid})
      PROVE  ReadInv' /\ ListDoneInv'
  <2>1. tableEnd = "none"
    BY <1>6 DEF StageInv, Walking
  <2>2. /\ tablePc' \in {"open", "unit"} /\ tableEnd' = "none"
        /\ tablePc' = "open" => reading'.file = 1
    BY <1>6, <2>1, NextPidStep
  <2>3. QED
    BY <2>2 DEF ReadInv, ListDoneInv, Walking
<1>7. ASSUME tablePc \in Walking, LeaveOut PROVE RowsInv'
  <2>1. warned' /\ NextPid(unread \ {reading.pid})
    BY <1>7 DEF LeaveOut
  <2>2. WalkInv' /\ UnitInv'
    BY <2>1 DEF WalkInv, UnitInv
  <2>3. QED
    BY <1>1, <1>6, <1>7, <2>1, <2>2 DEF RowsInv
<1>8. CASE OpenFile
  <2>1. CASE LeaveOut
    BY <1>7, <1>8, <2>1 DEF OpenFile, Walking
  <2>2. CASE ~LeaveOut
    <3>1. /\ tablePc = "open" /\ tablePc' \in {"read", "links"} /\ (~warned' => ~warned)
          /\ UNCHANGED <<reading, unread, rows, tableEnd, steady>> /\ tableEnd = "none"
      BY <1>8, <2>2 DEF OpenFile, Skip, Go, hostPart, StageInv
    <3>2. ReadInv' /\ WalkInv' /\ UnitInv' /\ ListDoneInv'
      BY <3>1 DEF RowsInv, ReadInv, WalkInv, UnitInv, ListDoneInv, Walking
    <3>3. QED
      BY <1>1, <3>2 DEF RowsInv
  <2>3. QED
    BY <2>1, <2>2
<1>9. CASE ReadFile
  <2>1. CASE LeaveOut
    BY <1>7, <1>9, <2>1 DEF ReadFile, Walking
  <2>2. CASE ~LeaveOut
    <3>1. /\ tablePc = "read" /\ tablePc' \in {"open", "links"} /\ StillThere
          /\ UNCHANGED <<unread, rows, tableEnd, steady, warned>> /\ tableEnd = "none"
      BY <1>9, <2>2 DEF ReadFile, Go, hostPart, StageInv
    <3>2. /\ reading'.pid = reading.pid
          /\ reading'.file = IF reading.file < 3 THEN reading.file + 1 ELSE 3
          /\ reading'.core = IF reading.file = 1 THEN start[reading.pid] ELSE reading.core
          /\ reading'.user = IF reading.file = 2 THEN start[reading.pid] ELSE reading.user
      BY <1>9, <2>2, FileRead DEF ReadFile
    <3>3. reading.file \in 1..3
      BY <3>1 DEF StageInv, Walking
    <3>4. ASSUME NEW pr \in steady, pr[1] = reading.pid
          PROVE  /\ reading'.file >= 2 => reading'.core = pr[2]
                 /\ reading'.file = 3 => reading'.user = pr[2]
      <4>1. start[reading.pid] = pr[2]
        BY <3>4 DEF RowsInv, AliveInv
      <4>2. /\ reading.file >= 2 => reading.core = pr[2]
            /\ reading.file = 3 => reading.user = pr[2]
        BY <3>1, <3>4 DEF RowsInv, ReadInv, Walking
      <4>3. QED
        BY <3>2, <3>3, <4>1, <4>2
    <3>5. ReadInv'
      BY <3>1, <3>2, <3>4 DEF ReadInv
    <3>6. WalkInv' /\ UnitInv' /\ ListDoneInv'
      BY <3>1 DEF RowsInv, WalkInv, UnitInv, ListDoneInv, Walking
    <3>7. QED
      BY <1>1, <3>5, <3>6 DEF RowsInv
  <2>3. QED
    BY <2>1, <2>2
<1>10. CASE ReadLinks
  BY <1>1, <1>6, <1>10, WalkOn DEF ReadLinks, RowsInv, Walking
<1>11. ASSUME NEW p \in TablePids, AskUnit(p) PROVE RowsInv'
  <2>1. tablePc' \in {"unit", "over"} /\ tableEnd' # "ok"
    BY <1>11 DEF AskUnit, Quit, StageInv
  <2>2. ReadInv' /\ WalkInv' /\ ListDoneInv'
    BY <2>1 DEF ReadInv, WalkInv, ListDoneInv, Walking
  <2>3. QED
    BY <1>1, <1>11, <2>2, UnitAsked DEF RowsInv
<1>12. CASE ListDone
  <2>1. tablePc' \in {"sample", "attach"}
    BY <1>12 DEF ListDone, Go
  <2>2. ReadInv' /\ WalkInv' /\ UnitInv'
    BY <2>1 DEF ReadInv, WalkInv, UnitInv, Walking
  <2>3. QED
    BY <1>1, <1>12, <2>2, ListKept DEF RowsInv
<1>13. CASE Capture \/ Compare
  <2>1. /\ tablePc \in {"sample", "compare"} /\ tableEnd = "none" /\ tableEnd' = "none"
        /\ tablePc' \in {"sample", "compare", "ids", "attach"}
        /\ tablePc' # "ids" /\ tablePc' = "attach" => mode = "cli"
        /\ UNCHANGED <<mode, byUnit, rows, steady, warned>>
    BY <1>13 DEF Capture, Compare, Go, StageInv, listPart, hostPart
  <2>2. ReadInv' /\ WalkInv' /\ UnitInv'
    BY <2>1 DEF ReadInv, WalkInv, UnitInv, Walking
  <2>3. ListDoneInv'
    BY <2>1 DEF RowsInv, ListDoneInv
  <2>4. QED
    BY <1>1, <2>2, <2>3 DEF RowsInv
<1>14. CASE AttachCpu
  <2>1. tablePc = "attach" /\ tablePc' = "over" /\ UNCHANGED <<byUnit, rows, steady, warned>>
    BY <1>14 DEF AttachCpu, Quit, listPart, hostPart
  <2>2. ReadInv' /\ WalkInv' /\ UnitInv' /\ ListDoneInv'
    BY <2>1 DEF RowsInv, ReadInv, WalkInv, UnitInv, ListDoneInv, Walking
  <2>3. QED
    BY <1>1, <2>2 DEF RowsInv
<1>15. CASE HostChanges
  <2>1. steady' \subseteq steady
    BY <1>15, HostStepProps DEF HostChanges, RowsInv
  <2>2. UNCHANGED <<tablePc, mode, byUnit, reading, unread, rows, unasked, units, warned, tableEnd>>
    BY <1>15 DEF HostChanges, listPart, unitPart
  <2>3. ReadInv' /\ WalkInv'
    BY <2>1, <2>2 DEF RowsInv, ReadInv, WalkInv
  <2>4. UnitInv' /\ ListDoneInv'
    BY <2>1, <2>2 DEF RowsInv, UnitInv, ListDoneInv
  <2>5. QED
    BY <1>1, <2>3, <2>4 DEF RowsInv
<1>16. CASE UNCHANGED tableVars
  BY <1>16 DEF tableVars, RowsInv, AliveInv, ReadInv, WalkInv, UnitInv, ListDoneInv
<1>17. QED
  BY <1>3, <1>4, <1>5, <1>8, <1>9, <1>10, <1>11, <1>12, <1>13, <1>14, <1>15, <1>16
     DEF TableNext

-----------------------------------------------------------------------------

\* The inductive invariant.
TableInv ==
  /\ ControlType /\ HostType /\ ListType /\ CpuType
  /\ StageInv /\ CaptureInv /\ CpuOfOneProcess /\ RowsInv

LEMMA InvInit == TableInit => TableInv
<1> SUFFICES ASSUME TableInit PROVE TableInv
  OBVIOUS
<1>1. ControlType /\ HostType /\ ListType /\ CpuType
  BY TypeInit
<1>2. StageInv
  BY DEF TableInit, StageInv, Walking
<1>3. CaptureInv /\ CpuOfOneProcess
  BY NoCpuType DEF TableInit, CaptureInv, CpuOfOneProcess
<1>4. RowsInv
  BY DEF TableInit, RowsInv, AliveInv, ReadInv, WalkInv, UnitInv, ListDoneInv, Walking
<1>5. QED
  BY <1>1, <1>2, <1>3, <1>4 DEF TableInv

LEMMA InvNext == TableInv /\ [TableNext]_tableVars => TableInv'
<1> SUFFICES ASSUME TableInv, [TableNext]_tableVars PROVE TableInv'
  OBVIOUS
<1>1. ControlType' /\ HostType'
  BY ControlNext, HostTypeNext DEF TableInv, RowsInv
<1>2. ListType' /\ CpuType'
  BY ListNext, CpuNext DEF TableInv
<1>3. StageInv'
  BY StageNext DEF TableInv
<1>4. CaptureInv' /\ CpuOfOneProcess'
  BY CaptureNext DEF TableInv
<1>5. RowsInv'
  BY RowsNext DEF TableInv
<1>6. QED
  BY <1>1, <1>2, <1>3, <1>4, <1>5 DEF TableInv

LEMMA InvAlways == TableSpec => []TableInv
<1>1. TableInit => TableInv
  BY InvInit
<1>2. TableInv /\ [TableNext]_tableVars => TableInv'
  BY InvNext
<1>3. QED
  BY <1>1, <1>2, PTL DEF TableSpec

(* Every variable of the process table keeps its type. *)
THEOREM TableTypes == TableSpec => []TableTypeOK
<1>1. TableInv => TableTypeOK
  BY TypeParts DEF TableInv
<1>2. QED
  BY <1>1, InvAlways, PTL

(* MetricsService::compare never computes a share over a reused PID: the   *)
(* process it is shown for lived from one capture to the other.            *)
THEOREM CpuIsOfOneProcess == TableSpec => []CpuOfOneProcess
<1>1. TableInv => CpuOfOneProcess
  BY DEF TableInv
<1>2. QED
  BY <1>1, InvAlways, PTL

(* A process that was there during the whole of ProcessService::list and   *)
(* passes the filters is in the finished table with its own data, unless a *)
(* warning was given.                                                      *)
THEOREM NothingDropped == TableSpec => []NothingDroppedSilently
<1>1. TableInv => NothingDroppedSilently
  <2>1. SUFFICES ASSUME TableInv, tableEnd = "ok", ~warned, NEW pr \in steady \cap Matching,
                        byUnit => pr \in InUnit
                 PROVE  [pid |-> pr[1], core |-> pr[2], user |-> pr[2]] \in rows
    BY DEF NothingDroppedSilently
  <2>2. RowOf(pr) \in rows
    BY <2>1 DEF TableInv, RowsInv, ListDoneInv
  <2>3. QED
    BY <2>2 DEF RowOf
<1>2. QED
  BY <1>1, InvAlways, PTL

-----------------------------------------------------------------------------
(* Why a table is finished. *)

\* `lx process` lists first, the dashboard measures first.
TablePlace(m, pc) ==
  CASE pc = "idle" -> 0
    [] pc = "ids" -> IF m = "cli" THEN 1 ELSE 3
    [] pc \in Walking -> IF m = "cli" THEN 2 ELSE 4
    [] pc = "unit" -> IF m = "cli" THEN 3 ELSE 5
    [] pc = "sample" -> IF m = "cli" THEN 4 ELSE 1
    [] pc = "compare" -> IF m = "cli" THEN 5 ELSE 2
    [] pc = "attach" -> 6
    [] OTHER -> 7

FilePlace(pc, file) ==
  CASE pc = "open" -> 2 * file [] pc = "read" -> 2 * file + 1 [] OTHER -> 8

\* The second capture, one unit less to ask for, one process less to read, or
\* on to the next file of the one in hand.
SamePlaceLess ==
  \/ tablePc = "sample" /\ tablePc' = "sample" /\ samples'.n > samples.n
  \/ /\ tablePc = "unit" /\ tablePc' = "unit"
     /\ unasked' \subseteq unasked /\ unasked' # unasked
  \/ /\ tablePc \in Walking /\ tablePc' \in Walking
     /\ unread' \subseteq unread
     /\ unread' = unread =>
          FilePlace(tablePc', reading'.file) > FilePlace(tablePc, reading.file)

TableOnward ==
  \/ TablePlace(mode', tablePc') > TablePlace(mode, tablePc)
  \/ mode' = mode /\ SamePlaceLess

(* The walk leaves a process behind, whatever became of it. *)
LEMMA WalkGoesOn ==
  ASSUME ListType, StageInv, tablePc \in Walking, NextPid(unread \ {reading.pid}), mode' = mode
  PROVE  TableOnward
<1>1. reading.pid \in unread
  BY DEF StageInv
<1>2. unread' = unread \ {reading.pid} /\ tablePc' \in {"open", "unit"}
  BY DEF NextPid
<1>3. CASE tablePc' = "open"
  <2>1. unread' \subseteq unread /\ unread' # unread /\ tablePc' \in Walking
    BY <1>1, <1>2, <1>3 DEF Walking
  <2>2. QED
    BY <2>1 DEF TableOnward, SamePlaceLess
<1>4. CASE tablePc' = "unit"
  BY <1>4 DEF TableOnward, TablePlace, Walking
<1>5. QED
  BY <1>2, <1>3, <1>4

(* No step of a listing leads back: a process that ends, changes hands or  *)
(* cannot be read is not tried again, a unit is asked for once, and there  *)
(* are two captures.  However the host goes on, the command ends after as  *)
(* many steps of its own as it has processes and files to read.            *)
THEOREM TableGoesOn == TableSpec => [][TableOnward \/ HostChanges]_tableVars
<1>1. ASSUME TableInv, [TableNext]_tableVars PROVE [TableOnward \/ HostChanges]_tableVars
  <2> SUFFICES ASSUME TableNext, ~HostChanges PROVE TableOnward
    BY <1>1
  <2>. USE DEF Go, Quit
  <2>1. ListType /\ StageInv /\ HostType /\ CpuType
    BY <1>1 DEF TableInv
  <2>2. ASSUME tablePc \in {"unit", "sample", "attach"} \cup Walking, tablePc' = "over"
        PROVE  TableOnward
    BY <2>2 DEF TableOnward, TablePlace, Walking
  <2>3. CASE Start \/ RefuseFilters
    BY <2>3 DEF Start, RefuseFilters, TableOnward, TablePlace, Walking
  <2>4. CASE ProcessIds
    <3>1. tablePc = "ids" /\ mode' = mode /\ tablePc' \in {"unit", "open", "over"}
      BY <2>4 DEF ProcessIds
    <3>2. QED
      BY <3>1 DEF TableOnward, TablePlace, Walking
  <2>5. CASE OpenFile
    <3>1. tablePc = "open" /\ tablePc \in Walking /\ mode' = mode
      BY <2>5 DEF OpenFile, Walking
    <3>2. CASE LeaveOut
      BY <2>1, <3>1, <3>2, WalkGoesOn DEF LeaveOut
    <3>3. CASE ~LeaveOut
      <4>1. UNCHANGED <<unread, reading>> /\ tablePc' \in {"read", "links"}
        BY <2>5, <3>3 DEF OpenFile, Skip
      <4>2. reading.file \in 1..3
        BY <2>1, <3>1 DEF StageInv
      <4>3. FilePlace(tablePc', reading'.file) > FilePlace(tablePc, reading.file)
        BY <3>1, <4>1, <4>2 DEF FilePlace
      <4>4. tablePc' \in Walking /\ unread' = unread
        BY <4>1 DEF Walking
      <4>5. QED
        BY <3>1, <4>3, <4>4, Zenon DEF TableOnward, SamePlaceLess
    <3>4. QED
      BY <3>2, <3>3
  <2>6. CASE ReadFile
    <3>1. tablePc = "read" /\ tablePc \in Walking /\ mode' = mode
      BY <2>6 DEF ReadFile, Walking
    <3>2. CASE LeaveOut
      BY <2>1, <3>1, <3>2, WalkGoesOn DEF LeaveOut
    <3>3. CASE ~LeaveOut
      <4>1. /\ unread' = unread
            /\ tablePc' = IF reading.file = 3 THEN "links" ELSE "open"
        BY <2>6, <3>3 DEF ReadFile
      <4>2. reading'.file = IF reading.file < 3 THEN reading.file + 1 ELSE 3
        BY <2>1, <2>6, <3>3, FileRead DEF ReadFile
      <4>3. reading.file \in 1..3
        BY <2>1, <3>1 DEF StageInv
      <4>4. FilePlace(tablePc', reading'.file) > FilePlace(tablePc, reading.file)
        BY <3>1, <4>1, <4>2, <4>3 DEF FilePlace
      <4>5. tablePc' \in Walking
        BY <4>1 DEF Walking
      <4>6. QED
        BY <3>1, <4>1, <4>4, <4>5, Zenon DEF TableOnward, SamePlaceLess
    <3>4. QED
      BY <3>2, <3>3
  <2>7. CASE ReadLinks
    BY <2>1, <2>7, WalkGoesOn DEF ReadLinks, Walking
  <2>8. CASE ReadThrows \/ CaptureThrows \/ AttachCpu
    BY <2>2, <2>8 DEF ReadThrows, CaptureThrows, AttachCpu, Walking
  <2>9. ASSUME NEW p \in TablePids, AskUnit(p) PROVE TableOnward
    <3>1. /\ tablePc = "unit" /\ p \in unasked /\ unasked' = unasked \ {p} /\ mode' = mode
          /\ tablePc' \in {"unit", "over"}
      BY <2>9 DEF AskUnit
    <3>2. QED
      BY <2>2, <3>1 DEF TableOnward, SamePlaceLess
  <2>10. CASE ListDone
    BY <2>10 DEF ListDone, TableOnward, TablePlace, Walking
  <2>11. CASE Capture
    <3>1. tablePc = "sample" /\ mode' = mode /\ samples.n \in Nat
      BY <2>1, <2>11 DEF Capture, CpuType
    <3>2. CASE tablePc' = "sample"
      <4>1. samples'.n = samples.n + 1
        BY <2>11, <3>1, <3>2 DEF Capture
      <4>2. QED
        BY <3>1, <3>2, <4>1 DEF TableOnward, SamePlaceLess
    <3>3. CASE tablePc' # "sample"
      <4>1. tablePc' \in {"compare", IF mode = "cli" THEN "attach" ELSE "ids"}
        BY <2>11, <3>3 DEF Capture
      <4>2. QED
        BY <3>1, <4>1 DEF TableOnward, TablePlace, Walking
    <3>4. QED
      BY <3>2, <3>3
  <2>12. CASE Compare
    <3>1. /\ tablePc = "compare" /\ mode' = mode
          /\ tablePc' = IF mode = "cli" THEN "attach" ELSE "ids"
      BY <2>12 DEF Compare
    <3>2. QED
      BY <3>1 DEF TableOnward, TablePlace, Walking
  <2>13. QED
    BY <2>3, <2>4, <2>5, <2>6, <2>7, <2>8, <2>9, <2>10, <2>11, <2>12 DEF TableNext
<1>2. QED
  BY <1>1, InvAlways, PTL DEF TableSpec

=============================================================================
