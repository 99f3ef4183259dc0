------------------------ MODULE JournalFollowProofs ------------------------
(***************************************************************************)
(* Proofs about JournalFollow, for journals and limits of any size.        *)
(***************************************************************************)
EXTENDS JournalFollow, WellFoundedInduction, TLAPS

Reading == {"seek", "tail", "since", "position", "after"}
Printing == {"check", "print", "next", "more", "wait", "interrupted"}

\* The handle filters on exactly what the user asked for.
FilterInv == pc \in Reading \cup Printing => filters = Wanted

\* s holds entries of the journal that match.
Matching(s) ==
  \A i \in 1..Len(s) : s[i] \in 1..Len(journal) /\ Carries(s[i], Wanted)

Increasing(s) == \A i, j \in 1..Len(s) : i < j => s[i] < s[j]

\* Where the read pointer stands with respect to what was collected.
PositionInv ==
  /\ pc \in Unopened \cup {"seek"} => window = <<>>
  /\ pc = "tail" => IF on THEN window # <<>> /\ window[1] = pos ELSE window = <<>>
  /\ pc = "since" => \A i \in 1..Len(window) : window[i] <= pos
  /\ pc = "after" => window # <<>> /\ pos = window[Len(window)] - 1
  /\ pc \in Printing => /\ \A i \in 1..Len(window) : window[i] <= pos
                        /\ \A i \in 1..Len(printed) : printed[i] <= pos
                        /\ ~on => window = <<>> /\ printed = <<>>

\* While initial entries are left, the output is a prefix of them.
PrintInv ==
  /\ pc \in Unopened \cup Reading => printed = <<>>
  /\ pc = "after" => unprinted = Len(window)
  /\ pc = "print" => unprinted > 0
  /\ pc \in Printing \ {"check", "print"} => unprinted = 0
  /\ (pc \in Printing /\ unprinted > 0) =>
       /\ unprinted <= Len(window)
       /\ Len(printed) = Len(window) - unprinted
       /\ \A i \in 1..Len(printed) : printed[i] = window[i]

\* A test of the flag lies between any two printed entries.
SignalInv ==
  /\ (pc = "install" \/ guarded \/ requested) => query.follow
  /\ requested => /\ atSignal >= 0
                  /\ Len(printed) <= atSignal + 1
                  /\ pc \in {"print", "next", "wait"} => Len(printed) <= atSignal

IInv ==
  /\ TypeOK
  /\ FilterInv
  /\ Matching(window)
  /\ Matching(printed)
  /\ Increasing(window)
  /\ Increasing(printed)
  /\ PositionInv
  /\ PrintInv
  /\ SignalInv

-----------------------------------------------------------------------------
(* Sequences that grow at either end or lose their first element. *)

LEMMA AppendFacts ==
  ASSUME NEW S, NEW s \in Seq(S), NEW e \in S
  PROVE  /\ Append(s, e) \in Seq(S)
         /\ Len(Append(s, e)) = Len(s) + 1
         /\ \A i \in 1..Len(s) : Append(s, e)[i] = s[i]
         /\ Append(s, e)[Len(s) + 1] = e
OBVIOUS

LEMMA PrependFacts ==
  ASSUME NEW S, NEW s \in Seq(S), NEW e \in S
  PROVE  /\ <<e>> \o s \in Seq(S)
         /\ Len(<<e>> \o s) = Len(s) + 1
         /\ (<<e>> \o s)[1] = e
         /\ \A i \in 2..(Len(s) + 1) : (<<e>> \o s)[i] = s[i - 1]
OBVIOUS

LEMMA TailFacts ==
  ASSUME NEW S, NEW s \in Seq(S), s # <<>>
  PROVE  /\ Tail(s) \in Seq(S)
         /\ Len(Tail(s)) = Len(s) - 1
         /\ \A i \in 1..(Len(s) - 1) : Tail(s)[i] = s[i + 1]
OBVIOUS

LEMMA AppendIncreasing ==
  ASSUME NEW s \in Seq(Entry), NEW e \in Entry, Increasing(s),
         \A i \in 1..Len(s) : s[i] < e
  PROVE  Increasing(Append(s, e))
<1> DEFINE t == Append(s, e)
<1> SUFFICES ASSUME NEW i \in 1..Len(t), NEW j \in 1..Len(t), i < j
             PROVE  t[i] < t[j]
  BY DEF Increasing
<1>1. i \in 1..Len(s) /\ t[i] = s[i]
  BY AppendFacts
<1>2. CASE j = Len(s) + 1
  BY <1>1, <1>2, AppendFacts
<1>3. CASE j \in 1..Len(s)
  BY <1>1, <1>3, AppendFacts DEF Increasing
<1> QED
  BY <1>2, <1>3, AppendFacts

LEMMA PrependIncreasing ==
  ASSUME NEW s \in Seq(Entry), NEW e \in Entry, Increasing(s),
         \A i \in 1..Len(s) : e < s[i]
  PROVE  Increasing(<<e>> \o s)
<1> DEFINE t == <<e>> \o s
<1> SUFFICES ASSUME NEW i \in 1..Len(t), NEW j \in 1..Len(t), i < j
             PROVE  t[i] < t[j]
  BY DEF Increasing
<1>1. j - 1 \in 1..Len(s) /\ t[j] = s[j - 1]
  BY PrependFacts
<1>2. CASE i = 1
  BY <1>1, <1>2, PrependFacts
<1>3. CASE i \in 2..Len(t)
  <2>1. i - 1 \in 1..Len(s) /\ t[i] = s[i - 1]
    BY <1>3, PrependFacts
  <2> QED
    BY <1>1, <2>1 DEF Increasing
<1> QED
  BY <1>2, <1>3

LEMMA TailIncreasing ==
  ASSUME NEW s \in Seq(Entry), s # <<>>, Increasing(s)
  PROVE  Increasing(Tail(s))
BY TailFacts, JournalAssumption DEF Increasing, Entry

LEMMA AppendMatching ==
  ASSUME NEW s \in Seq(Entry), NEW e \in Entry, Matching(s),
         e \in 1..Len(journal), Carries(e, Wanted)
  PROVE  Matching(Append(s, e))
BY AppendFacts DEF Matching

LEMMA PrependMatching ==
  ASSUME NEW s \in Seq(Entry), NEW e \in Entry, Matching(s),
         e \in 1..Len(journal), Carries(e, Wanted)
  PROVE  Matching(<<e>> \o s)
BY PrependFacts DEF Matching

LEMMA TailMatching ==
  ASSUME NEW s \in Seq(Entry), s # <<>>, Matching(s)
  PROVE  Matching(Tail(s))
BY TailFacts DEF Matching

\* What libsystemd returns is an entry of the journal that matches.
LEMMA VisibleFacts ==
  ASSUME IInv, pc \in Reading \cup Printing, NEW e \in Visible
  PROVE  e \in Entry /\ e \in 1..Len(journal) /\ Carries(e, Wanted)
BY JournalAssumption DEF IInv, TypeOK, FilterInv, Visible, Entry

-----------------------------------------------------------------------------
(* Init, and the steps that leave the sequences alone. *)

LEMMA InitIInv == Init => IInv
<1> SUFFICES ASSUME Init PROVE IInv
  OBVIOUS
<1> USE JournalAssumption DEF Init, Unopened, Reading, Printing, Ends
<1>1. journal \in Seq(Kind) /\ Len(journal) <= MaxEntries
  OBVIOUS
<1>2. pc \in Unopened
  OBVIOUS
<1>3. TypeOK
  <2>1. window \in Seq(Entry) /\ printed \in Seq(Entry)
    OBVIOUS
  <2>2. on \in BOOLEAN /\ guarded \in BOOLEAN /\ requested \in BOOLEAN
    OBVIOUS
  <2>3. oldest \in 1..(MaxEntries + 1) /\ pos \in 0..MaxEntries /\ atSeek \in 0..MaxEntries
    OBVIOUS
  <2> QED
    BY <1>1, <1>2, <2>1, <2>2, <2>3 DEF TypeOK
<1>4. FilterInv /\ PositionInv /\ PrintInv /\ SignalInv
  BY <1>2 DEF FilterInv, PositionInv, PrintInv, SignalInv
<1>5. Matching(window) /\ Matching(printed) /\ Increasing(window) /\ Increasing(printed)
  BY DEF Matching, Increasing
<1> QED
  BY <1>3, <1>4, <1>5 DEF IInv

LEMMA InstallHandlerIInv == IInv /\ InstallHandler => IInv'
<1> SUFFICES ASSUME IInv, InstallHandler PROVE IInv'
  OBVIOUS
<1> USE JournalAssumption
    DEF InstallHandler, Finish, IInv, TypeOK, FilterInv, Matching, Increasing, PositionInv, PrintInv,
        SignalInv, Ends, Unopened, Reading, Printing, Wanted, Carries, journalVars,
        queryVars, readVars, printVars, signalVars
<1>1. TypeOK' /\ FilterInv'
  OBVIOUS
<1>2. Matching(window)' /\ Matching(printed)' /\ Increasing(window)' /\ Increasing(printed)'
  OBVIOUS
<1>3. PositionInv' /\ PrintInv'
  OBVIOUS
<1>4. SignalInv'
  OBVIOUS
<1> QED
  BY ONLY <1>1, <1>2, <1>3, <1>4 DEF IInv

LEMMA NormalizeIInv == IInv /\ Normalize => IInv'
<1> SUFFICES ASSUME IInv, Normalize PROVE IInv'
  OBVIOUS
<1> USE JournalAssumption
    DEF Normalize, Finish, Goto, IInv, TypeOK, FilterInv, Matching, Increasing, PositionInv, PrintInv,
        SignalInv, Ends, Unopened, Reading, Printing, Wanted, Carries, journalVars,
        queryVars, readVars, printVars, signalVars
<1>1. TypeOK' /\ FilterInv'
  OBVIOUS
<1>2. Matching(window)' /\ Matching(printed)' /\ Increasing(window)' /\ Increasing(printed)'
  OBVIOUS
<1>3. PositionInv' /\ PrintInv'
  OBVIOUS
<1>4. SignalInv'
  OBVIOUS
<1> QED
  BY ONLY <1>1, <1>2, <1>3, <1>4 DEF IInv

LEMMA OpenIInv == IInv /\ Open => IInv'
<1> SUFFICES ASSUME IInv, Open PROVE IInv'
  OBVIOUS
<1> USE JournalAssumption
    DEF Open, Finish, Goto, IInv, TypeOK, FilterInv, Matching, Increasing, PositionInv, PrintInv,
        SignalInv, Ends, Unopened, Reading, Printing, Wanted, Carries, journalVars,
        queryVars, readVars, printVars, signalVars
<1>1. TypeOK' /\ FilterInv'
  OBVIOUS
<1>2. Matching(window)' /\ Matching(printed)' /\ Increasing(window)' /\ Increasing(printed)'
  OBVIOUS
<1>3. PositionInv' /\ PrintInv'
  OBVIOUS
<1>4. SignalInv'
  OBVIOUS
<1> QED
  BY ONLY <1>1, <1>2, <1>3, <1>4 DEF IInv

LEMMA CheckStopIInv == IInv /\ CheckStop => IInv'
<1> SUFFICES ASSUME IInv, CheckStop PROVE IInv'
  OBVIOUS
<1> USE JournalAssumption
    DEF CheckStop, Finish, Goto, IInv, TypeOK, FilterInv, Matching, Increasing, PositionInv, PrintInv,
        SignalInv, Ends, Unopened, Reading, Printing, Wanted, Carries, journalVars,
        queryVars, readVars, printVars, signalVars
<1>1. TypeOK' /\ FilterInv'
  OBVIOUS
<1>2. Matching(window)' /\ Matching(printed)' /\ Increasing(window)' /\ Increasing(printed)'
  OBVIOUS
<1>3. PositionInv' /\ PrintInv'
  OBVIOUS
<1>4. SignalInv'
  OBVIOUS
<1> QED
  BY ONLY <1>1, <1>2, <1>3, <1>4 DEF IInv

LEMMA CheckMoreIInv == IInv /\ CheckMore => IInv'
<1> SUFFICES ASSUME IInv, CheckMore PROVE IInv'
  OBVIOUS
<1> USE JournalAssumption
    DEF CheckMore, Finish, Goto, IInv, TypeOK, FilterInv, Matching, Increasing, PositionInv, PrintInv,
        SignalInv, Ends, Unopened, Reading, Printing, Wanted, Carries, journalVars,
        queryVars, readVars, printVars, signalVars
<1>1. TypeOK' /\ FilterInv'
  OBVIOUS
<1>2. Matching(window)' /\ Matching(printed)' /\ Increasing(window)' /\ Increasing(printed)'
  OBVIOUS
<1>3. PositionInv' /\ PrintInv'
  OBVIOUS
<1>4. SignalInv'
  OBVIOUS
<1> QED
  BY ONLY <1>1, <1>2, <1>3, <1>4 DEF IInv

LEMMA WaitReturnsIInv == IInv /\ WaitReturns => IInv'
<1> SUFFICES ASSUME IInv, WaitReturns PROVE IInv'
  OBVIOUS
<1> USE JournalAssumption
    DEF WaitReturns, Goto, IInv, TypeOK, FilterInv, Matching, Increasing, PositionInv, PrintInv,
        SignalInv, Ends, Unopened, Reading, Printing, Wanted, Carries, journalVars,
        queryVars, readVars, printVars, signalVars
<1>1. TypeOK' /\ FilterInv'
  OBVIOUS
<1>2. Matching(window)' /\ Matching(printed)' /\ Increasing(window)' /\ Increasing(printed)'
  OBVIOUS
<1>3. PositionInv' /\ PrintInv'
  OBVIOUS
<1>4. SignalInv'
  OBVIOUS
<1> QED
  BY ONLY <1>1, <1>2, <1>3, <1>4 DEF IInv

LEMMA WaitInterruptedIInv == IInv /\ WaitInterrupted => IInv'
<1> SUFFICES ASSUME IInv, WaitInterrupted PROVE IInv'
  OBVIOUS
<1> USE JournalAssumption
    DEF WaitInterrupted, Finish, IInv, TypeOK, FilterInv, Matching, Increasing, PositionInv, PrintInv,
        SignalInv, Ends, Unopened, Reading, Printing, Wanted, Carries, journalVars,
        queryVars, readVars, printVars, signalVars
<1>1. TypeOK' /\ FilterInv'
  OBVIOUS
<1>2. Matching(window)' /\ Matching(printed)' /\ Increasing(window)' /\ Increasing(printed)'
  OBVIOUS
<1>3. PositionInv' /\ PrintInv'
  OBVIOUS
<1>4. SignalInv'
  OBVIOUS
<1> QED
  BY ONLY <1>1, <1>2, <1>3, <1>4 DEF IInv

LEMMA JournalFailsIInv == IInv /\ JournalFails => IInv'
<1> SUFFICES ASSUME IInv, JournalFails PROVE IInv'
  OBVIOUS
<1> USE JournalAssumption
    DEF JournalFails, Finish, IInv, TypeOK, FilterInv, Matching, Increasing, PositionInv, PrintInv,
        SignalInv, Ends, Unopened, Reading, Printing, Wanted, Carries, journalVars,
        queryVars, readVars, printVars, signalVars
<1>1. TypeOK' /\ FilterInv'
  OBVIOUS
<1>2. Matching(window)' /\ Matching(printed)' /\ Increasing(window)' /\ Increasing(printed)'
  OBVIOUS
<1>3. PositionInv' /\ PrintInv'
  OBVIOUS
<1>4. SignalInv'
  OBVIOUS
<1> QED
  BY ONLY <1>1, <1>2, <1>3, <1>4 DEF IInv

LEMMA VacuumIInv == IInv /\ Vacuum => IInv'
<1> SUFFICES ASSUME IInv, Vacuum PROVE IInv'
  OBVIOUS
<1> USE JournalAssumption
    DEF Vacuum, IInv, TypeOK, FilterInv, Matching, Increasing, PositionInv, PrintInv,
        SignalInv, Ends, Unopened, Reading, Printing, Wanted, Carries, journalVars,
        queryVars, readVars, printVars, signalVars
<1>1. TypeOK' /\ FilterInv'
  OBVIOUS
<1>2. Matching(window)' /\ Matching(printed)' /\ Increasing(window)' /\ Increasing(printed)'
  OBVIOUS
<1>3. PositionInv' /\ PrintInv'
  OBVIOUS
<1>4. SignalInv'
  OBVIOUS
<1> QED
  BY ONLY <1>1, <1>2, <1>3, <1>4 DEF IInv

\* A signal is recorded before the entries that follow it are printed.
LEMMA SigintIInv == IInv /\ Sigint => IInv'
<1> SUFFICES ASSUME IInv, Sigint PROVE IInv'
  OBVIOUS
<1> USE JournalAssumption
    DEF Sigint, IInv, TypeOK, FilterInv, Matching, Increasing, PositionInv, PrintInv,
        SignalInv, Ends, Unopened, Reading, Printing, Wanted, Carries, journalVars,
        queryVars, readVars, printVars, signalVars
<1>1. TypeOK'
  <2>1. requested' \in BOOLEAN
    OBVIOUS
  <2>2. Len(printed) \in Int
    OBVIOUS
  <2>3. atSignal' \in Int
    BY <2>2
  <2>4. pc' \in {"interrupted", "killed", pc}
    OBVIOUS
  <2> QED
    BY <2>1, <2>3, <2>4
<1>2. FilterInv' /\ PositionInv' /\ PrintInv'
  OBVIOUS
<1>3. Matching(window)' /\ Matching(printed)' /\ Increasing(window)' /\ Increasing(printed)'
  OBVIOUS
<1>4. SignalInv'
  OBVIOUS
<1> QED
  BY ONLY <1>1, <1>2, <1>3, <1>4 DEF IInv

LEMMA AppendEntryIInv == IInv /\ AppendEntry => IInv'
<1> SUFFICES ASSUME IInv, AppendEntry PROVE IInv'
  OBVIOUS
<1> USE JournalAssumption
    DEF AppendEntry, IInv, TypeOK, FilterInv, Matching, Increasing, PositionInv, PrintInv,
        SignalInv, Ends, Unopened, Reading, Printing, Wanted, Carries, journalVars,
        queryVars, readVars, printVars, signalVars
<1>1. TypeOK' /\ FilterInv'
  OBVIOUS
<1>2. Matching(window)'
  BY SMTT(30)
<1>3. Matching(printed)'
  OBVIOUS
<1>4. Increasing(window)' /\ Increasing(printed)'
  OBVIOUS
<1>5. PositionInv' /\ PrintInv' /\ SignalInv'
  OBVIOUS
<1> QED
  BY ONLY <1>1, <1>2, <1>3, <1>4, <1>5 DEF IInv

LEMMA SeekIInv == IInv /\ Seek => IInv'
<1> SUFFICES ASSUME IInv, Seek PROVE IInv'
  OBVIOUS
<1> USE JournalAssumption
    DEF Seek, SeekBehind, Goto, IInv, TypeOK, FilterInv, Matching, Increasing, PositionInv, PrintInv,
        SignalInv, Ends, Unopened, Reading, Printing, Wanted, Carries, journalVars,
        queryVars, readVars, printVars, signalVars
<1>1. TypeOK'
  <2>1. query.since = None \/ query.since \in 1..(MaxEntries + 1)
    BY DEF LogQuery
  <2>2. Len(journal) \in 0..MaxEntries
    OBVIOUS
  <2>3. pos' \in 0..MaxEntries /\ atSeek' \in 0..MaxEntries
    BY <2>1, <2>2
  <2>4. on' \in BOOLEAN
    OBVIOUS
  <2> QED
    BY <2>3, <2>4
<1>2. FilterInv' /\ PositionInv' /\ PrintInv' /\ SignalInv'
  OBVIOUS
<1>3. Matching(window)' /\ Matching(printed)' /\ Increasing(window)' /\ Increasing(printed)'
  OBVIOUS
<1> QED
  BY ONLY <1>1, <1>2, <1>3 DEF IInv

-----------------------------------------------------------------------------
(* The initial query. *)

\* Its end copies the window to the output of a plain read.
LEMMA QueriedIInv ==
  ASSUME IInv, Queried, pc \in {"tail", "since"}
  PROVE  IInv'
<1> USE JournalAssumption
    DEF Queried, Goto, Finish, IInv, TypeOK, FilterInv, Matching, Increasing, PositionInv, PrintInv,
        SignalInv, Ends, Unopened, Reading, Printing, Wanted, Carries, journalVars,
        queryVars, readVars, printVars, signalVars
<1>1. TypeOK' /\ FilterInv'
  OBVIOUS
<1>2. Matching(window)' /\ Matching(printed)'
  OBVIOUS
<1>3. Increasing(window)' /\ Increasing(printed)'
  OBVIOUS
<1>4. PositionInv' /\ PrintInv' /\ SignalInv'
  OBVIOUS
<1> QED
  BY ONLY <1>1, <1>2, <1>3, <1>4 DEF IInv

\* One entry joins the window: what remains to be shown is about the window.
LEMMA CollectIInv ==
  ASSUME IInv, pc \in {"tail", "since"}, NEW e \in Visible, StepTo(e),
         UNCHANGED <<journalVars, pc, queryVars, printVars, signalVars, outcome>>,
         window' \in Seq(Entry), Matching(window'), Increasing(window'),
         pc = "tail" => window' # <<>> /\ window'[1] = e,
         pc = "since" => \A i \in 1..Len(window') : window'[i] <= e
  PROVE  IInv'
<1> USE JournalAssumption
    DEF StepTo, IInv, TypeOK, FilterInv, Matching, Increasing, PositionInv, PrintInv,
        SignalInv, Ends, Unopened, Reading, Printing, Wanted, Carries, journalVars,
        queryVars, readVars, printVars, signalVars
<1>1. e \in Entry
  BY ONLY IInv, pc \in {"tail", "since"}, e \in Visible, VisibleFacts DEF Reading, Printing
<1>2. TypeOK'
  <2>1. pos' \in 0..MaxEntries /\ on' \in BOOLEAN
    BY <1>1 DEF Entry
  <2> QED
    BY <2>1
<1>3. FilterInv' /\ PositionInv' /\ PrintInv' /\ SignalInv'
  OBVIOUS
<1>4. Matching(window)' /\ Matching(printed)' /\ Increasing(window)' /\ Increasing(printed)'
  OBVIOUS
<1> QED
  BY ONLY <1>2, <1>3, <1>4 DEF IInv

LEMMA QueryTailIInv == IInv /\ QueryTail => IInv'
<1> SUFFICES ASSUME IInv, QueryTail PROVE IInv'
  OBVIOUS
<1>1. pc = "tail" /\ window \in Seq(Entry) /\ Matching(window) /\ Increasing(window)
  BY DEF QueryTail, IInv, TypeOK
<1>2. CASE Queried
  BY <1>1, <1>2, QueriedIInv
<1>3. ASSUME NEW e \in Visible, IsPrevious(e), TailEntry(e)
      PROVE  IInv'
  <2>1. e \in Entry /\ e \in 1..Len(journal) /\ Carries(e, Wanted)
    BY <1>1, VisibleFacts DEF Reading
  <2>2. \A i \in 1..Len(window) : e < window[i]
    <3>1. CASE on
      <4>1. e < pos /\ window # <<>> /\ window[1] = pos
        BY <1>1, <1>3, <3>1 DEF IsPrevious, IInv, PositionInv
      <4>2. Len(window) \in Nat \ {0} /\ \A i \in 1..Len(window) : window[i] \in Int
        BY <1>1, <4>1, JournalAssumption DEF Entry
      <4>3. ASSUME NEW i \in 1..Len(window)
            PROVE  e < window[i]
        <5>1. i = 1 \/ window[1] < window[i]
          BY <1>1, <4>2 DEF Increasing
        <5> QED
          BY <2>1, <4>1, <4>2, <5>1
      <4> QED
        BY <4>3
    <3>2. CASE ~on
      <4>1. window = <<>>
        BY <1>1, <3>2 DEF IInv, PositionInv
      <4> QED
        BY <4>1
    <3> QED
      BY <3>1, <3>2
  <2>3. /\ window' = <<e>> \o window
        /\ StepTo(e)
        /\ UNCHANGED <<journalVars, pc, queryVars, printVars, signalVars, outcome>>
    BY <1>3 DEF TailEntry
  <2>4. window' \in Seq(Entry) /\ window' # <<>> /\ window'[1] = e
    BY <1>1, <2>1, <2>3, PrependFacts
  <2>5. Matching(window')
    BY <1>1, <2>1, <2>3, PrependMatching
  <2>6. Increasing(window')
    BY <1>1, <2>1, <2>2, <2>3, PrependIncreasing
  <2> QED
    BY <1>1, <2>3, <2>4, <2>5, <2>6, CollectIInv
<1> QED
  BY <1>2, <1>3 DEF QueryTail

LEMMA QuerySinceIInv == IInv /\ QuerySince => IInv'
<1> SUFFICES ASSUME IInv, QuerySince PROVE IInv'
  OBVIOUS
<1>1. /\ pc = "since" /\ window \in Seq(Entry) /\ Matching(window) /\ Increasing(window)
      /\ query.limit \in 1..MaxLimit /\ pos \in 0..MaxEntries
  BY DEF QuerySince, IInv, TypeOK, LogQuery
<1>2. CASE Queried
  BY <1>1, <1>2, QueriedIInv
<1>3. ASSUME NEW e \in Visible, IsNext(e), StepTo(e),
             window' = IF Len(window) < query.limit
                         THEN Append(window, e) ELSE Append(Tail(window), e),
             UNCHANGED <<journalVars, pc, queryVars, printVars, signalVars, outcome>>
      PROVE  IInv'
  <2>1. e \in Entry /\ e \in 1..Len(journal) /\ Carries(e, Wanted)
    BY <1>1, VisibleFacts DEF Reading
  <2>2. PICK kept \in Seq(Entry) :
          /\ window' = Append(kept, e)
          /\ Matching(kept)
          /\ Increasing(kept)
          /\ \A i \in 1..Len(kept) : \E j \in 1..Len(window) : kept[i] = window[j]
    <3>1. CASE Len(window) < query.limit
      BY <1>1, <1>3, <3>1
    <3>2. CASE ~(Len(window) < query.limit)
      <4>1. window # <<>>
        BY <1>1, <3>2
      <4>2. /\ Tail(window) \in Seq(Entry)
            /\ \A i \in 1..Len(Tail(window)) :
                 i + 1 \in 1..Len(window) /\ Tail(window)[i] = window[i + 1]
        BY <1>1, <4>1, TailFacts
      <4>3. Matching(Tail(window)) /\ Increasing(Tail(window))
        BY <1>1, <4>1, TailMatching, TailIncreasing
      <4> QED
        BY <1>3, <3>2, <4>2, <4>3
    <3> QED
      BY <3>1, <3>2
  <2>3. \A i \in 1..Len(kept) : kept[i] < e
    <3>1. \A j \in 1..Len(window) : window[j] <= pos
      BY <1>1 DEF IInv, PositionInv
    <3>2. pos < e
      BY <1>1, <1>3, <2>1 DEF IsNext, Entry
    <3>3. pos \in Int /\ e \in Int /\ \A j \in 1..Len(window) : window[j] \in Int
      BY <1>1, <2>1, JournalAssumption DEF Entry
    <3> QED
      BY <2>2, <3>1, <3>2, <3>3
  <2>4. window' \in Seq(Entry) /\ Matching(window')
    BY <2>1, <2>2, AppendFacts, AppendMatching
  <2>5. Increasing(window')
    BY <2>1, <2>2, <2>3, AppendIncreasing
  <2>6. \A i \in 1..Len(window') : window'[i] <= e
    BY <2>1, <2>2, <2>3, AppendFacts, JournalAssumption DEF Entry
  <2> QED
    BY <1>1, <1>3, <2>4, <2>5, <2>6, CollectIInv
<1> QED
  BY <1>2, <1>3 DEF QuerySince

-----------------------------------------------------------------------------
(* The follow loop. *)

LEMMA PositionIInv == IInv /\ Position => IInv'
<1> SUFFICES ASSUME IInv, Position PROVE IInv'
  OBVIOUS
<1> USE JournalAssumption
    DEF Position, SeekBehind, Goto, IInv, TypeOK, FilterInv, Matching, Increasing, PositionInv, PrintInv,
        SignalInv, Ends, Unopened, Reading, Printing, Wanted, Carries, journalVars,
        queryVars, readVars, printVars, signalVars
<1>1. TypeOK'
  <2>1. Len(journal) \in 0..MaxEntries
    OBVIOUS
  <2>2. window # <<>> => window[Len(window)] - 1 \in 0..MaxEntries
    BY DEF Entry
  <2>3. pos' \in 0..MaxEntries
    BY <2>1, <2>2
  <2>4. on' \in BOOLEAN
    OBVIOUS
  <2> QED
    BY <2>3, <2>4
<1>2. FilterInv' /\ PositionInv' /\ PrintInv' /\ SignalInv'
  OBVIOUS
<1>3. Matching(window)' /\ Matching(printed)' /\ Increasing(window)' /\ Increasing(printed)'
  OBVIOUS
<1> QED
  BY ONLY <1>1, <1>2, <1>3 DEF IInv

\* The entry stepped on is not before the last initial one.
LEMMA PositionNextIInv == IInv /\ PositionNext => IInv'
<1> SUFFICES ASSUME IInv, PositionNext PROVE IInv'
  OBVIOUS
<1> USE JournalAssumption
    DEF PositionNext, Finish, Goto, StepTo, IsNext, IInv, TypeOK, FilterInv, Matching, Increasing, PositionInv, PrintInv,
        SignalInv, Ends, Unopened, Reading, Printing, Wanted, Carries, journalVars,
        queryVars, readVars, printVars, signalVars
<1>1. \A e \in Visible : e \in Entry
  BY ONLY IInv, PositionNext, VisibleFacts DEF PositionNext, Reading
<1>2. TypeOK'
  <2>1. pos' \in 0..MaxEntries
    BY <1>1 DEF Entry
  <2>2. on' \in BOOLEAN
    OBVIOUS
  <2> QED
    BY <2>1, <2>2
<1>3. FilterInv' /\ PrintInv' /\ SignalInv'
  OBVIOUS
<1>4. PositionInv'
  <2>1. CASE pc' = "check"
    <3>1. window # <<>> /\ pos' > window[Len(window)] - 1
      BY <2>1, <1>1
    <3>2. \A i \in 1..Len(window) : window[i] <= window[Len(window)]
      BY <3>1 DEF Entry
    <3>3. pos' \in Int /\ \A i \in 1..Len(window) : window[i] \in Int
      BY <1>2 DEF Entry
    <3>4. \A i \in 1..Len(window) : window[i] <= pos'
      BY <3>1, <3>2, <3>3
    <3>5. printed' = <<>>
      OBVIOUS
    <3> QED
      BY <2>1, <3>4, <3>5
  <2>2. CASE pc' = "done"
    BY <2>2
  <2> QED
    BY <2>1, <2>2
<1>5. Matching(window)' /\ Matching(printed)' /\ Increasing(window)' /\ Increasing(printed)'
  OBVIOUS
<1> QED
  BY ONLY <1>2, <1>3, <1>4, <1>5 DEF IInv

\* The next initial entry goes out: the output is the next longer prefix.
LEMMA PrintInitialIInv == IInv /\ PrintInitial => IInv'
<1> SUFFICES ASSUME IInv, PrintInitial PROVE IInv'
  OBVIOUS
<1> DEFINE n == Len(printed) + 1
<1>1. /\ pc = "print" /\ pc' = "check"
      /\ window \in Seq(Entry) /\ printed \in Seq(Entry) /\ unprinted \in Nat
      /\ unprinted > 0 /\ unprinted <= Len(window)
      /\ Len(printed) = Len(window) - unprinted
      /\ \A i \in 1..Len(printed) : printed[i] = window[i]
  BY DEF PrintInitial, Goto, IInv, TypeOK, PrintInv, Printing
<1>2. n \in 1..Len(window) /\ window[n] \in Entry /\ printed' = Append(printed, window[n])
  <2>1. n = Len(window) - unprinted + 1 /\ n \in 1..Len(window)
    BY <1>1
  <2>2. printed' = Append(printed, window[Len(window) - unprinted + 1])
    BY DEF PrintInitial
  <2>3. window[n] \in Entry
    BY <1>1, <2>1
  <2> QED
    BY <2>1, <2>2, <2>3
<1>3. /\ printed' \in Seq(Entry)
      /\ Len(printed') = n
      /\ \A i \in 1..n : printed'[i] = window[i]
  <2>1. /\ printed' \in Seq(Entry)
        /\ Len(printed') = Len(printed) + 1
        /\ \A i \in 1..Len(printed) : printed'[i] = printed[i]
        /\ printed'[Len(printed) + 1] = window[n]
    <3>1. PICK w \in Entry : w = window[n] /\ printed' = Append(printed, w)
      BY <1>2
    <3> QED
      BY ONLY <1>1, <3>1, AppendFacts
  <2>2. \A i \in 1..n : i = n \/ i \in 1..Len(printed)
    <3>1. Len(printed) \in Nat
      BY <1>1
    <3> QED
      BY <3>1
  <2> QED
    BY <1>1, <2>1, <2>2
<1>4. unprinted' \in Nat /\ unprinted' <= Len(window) /\ n = Len(window) - unprinted'
  BY <1>1 DEF PrintInitial
<1> USE JournalAssumption
    DEF PrintInitial, Goto, IInv, TypeOK, FilterInv, Matching, Increasing, PositionInv, PrintInv,
        SignalInv, Ends, Unopened, Reading, Printing, Wanted, Carries, journalVars,
        queryVars, readVars, printVars, signalVars
<1>5. TypeOK' /\ FilterInv'
  BY <1>3, <1>4
<1>6. Matching(window)' /\ Increasing(window)'
  OBVIOUS
<1>7. /\ \A i \in 1..Len(printed') : i \in 1..Len(window) /\ printed'[i] = window[i]
      /\ Len(printed') = Len(window) - unprinted'
  BY ONLY <1>1, <1>2, <1>3, <1>4
<1>8. Matching(printed)' /\ Increasing(printed)'
  <2>1. Matching(printed)'
    <3>1. \A i \in 1..Len(printed') : printed'[i] \in 1..Len(journal) /\ Carries(printed'[i], Wanted)
      BY ONLY <1>7, IInv DEF IInv, Matching
    <3> QED
      BY <3>1
  <2>2. Increasing(printed)'
    BY ONLY <1>7, IInv DEF IInv, Increasing
  <2> QED
    BY ONLY <2>1, <2>2
<1>9. PositionInv'
  BY <1>1, <1>7
<1>10. PrintInv'
  BY <1>1, <1>4, <1>7
<1>11. SignalInv'
  BY <1>1, <1>3
<1> QED
  BY ONLY <1>5, <1>6, <1>8, <1>9, <1>10, <1>11 DEF IInv

LEMMA FollowNextIInv == IInv /\ FollowNext => IInv'
<1> SUFFICES ASSUME IInv, FollowNext PROVE IInv'
  OBVIOUS
<1>1. /\ pc = "next" /\ pos \in 0..MaxEntries /\ unprinted = 0
      /\ window \in Seq(Entry) /\ printed \in Seq(Entry)
      /\ Matching(printed) /\ Increasing(printed)
      /\ \A i \in 1..Len(window) : window[i] <= pos
      /\ \A i \in 1..Len(printed) : printed[i] <= pos
      /\ ~on => window = <<>> /\ printed = <<>>
  BY DEF FollowNext, IInv, TypeOK, PrintInv, PositionInv, Printing
<1>2. CASE pc' = "wait" /\ UNCHANGED <<pos, on, printed>>
  <2> USE JournalAssumption
      DEF FollowNext, Goto, IInv, TypeOK, FilterInv, Matching, Increasing, PositionInv, PrintInv,
          SignalInv, Ends, Unopened, Reading, Printing, Wanted, Carries, journalVars,
          queryVars, readVars, printVars, signalVars
  <2>1. TypeOK' /\ FilterInv' /\ PositionInv' /\ PrintInv' /\ SignalInv'
    BY <1>2
  <2>2. Matching(window)' /\ Matching(printed)' /\ Increasing(window)' /\ Increasing(printed)'
    BY <1>2
  <2> QED
    BY ONLY <2>1, <2>2 DEF IInv
<1>3. ASSUME NEW e \in Visible, on => IsNext(e), StepTo(e), printed' = Append(printed, e),
             Goto("more")
      PROVE  IInv'
  <2>1. e \in Entry /\ e \in 1..Len(journal) /\ Carries(e, Wanted)
    BY <1>1, VisibleFacts DEF Printing
  <2>2. /\ on => pos < e
        /\ pos \in Int /\ e \in 1..MaxEntries
        /\ \A i \in 1..Len(window) : window[i] \in Int
        /\ \A i \in 1..Len(printed) : printed[i] \in Int
    BY <1>1, <1>3, <2>1, JournalAssumption DEF IsNext, Entry
  <2>3. printed' \in Seq(Entry) /\ Len(printed') = Len(printed) + 1
    BY <1>1, <1>3, <2>1, AppendFacts
  <2>4. Matching(printed') /\ Increasing(printed')
    <3>1. \A i \in 1..Len(printed) : printed[i] < e
      BY <1>1, <2>2
    <3> QED
      BY <1>1, <1>3, <2>1, <3>1, AppendMatching, AppendIncreasing
  <2>5. \A i \in 1..Len(printed') : printed'[i] <= e
    BY <1>1, <1>3, <2>1, <2>2, AppendFacts
  <2>6. \A i \in 1..Len(window) : window[i] <= e
    BY <1>1, <2>2
  <2> USE JournalAssumption
      DEF FollowNext, Goto, StepTo, IInv, TypeOK, FilterInv, Matching, Increasing, PositionInv, PrintInv,
          SignalInv, Ends, Unopened, Reading, Printing, Wanted, Carries, journalVars,
          queryVars, readVars, printVars, signalVars
  <2>7. TypeOK' /\ FilterInv'
    <3>1. pos' \in 0..MaxEntries /\ on' \in BOOLEAN
      BY <1>3, <2>2
    <3> QED
      BY <1>3, <2>3, <3>1
  <2>8. Matching(window)' /\ Increasing(window)'
    OBVIOUS
  <2>9. Matching(printed)' /\ Increasing(printed)'
    BY <2>4
  <2>10. PositionInv' /\ PrintInv'
    BY <1>1, <1>3, <2>5, <2>6
  <2>11. SignalInv'
    BY <1>1, <1>3, <2>3
  <2> QED
    BY ONLY <2>7, <2>8, <2>9, <2>10, <2>11 DEF IInv
<1> QED
  BY <1>2, <1>3 DEF FollowNext, Goto

-----------------------------------------------------------------------------
(* The theorems. *)

LEMMA StutterIInv == IInv /\ UNCHANGED vars => IInv'
<1> SUFFICES ASSUME IInv, UNCHANGED vars PROVE IInv'
  OBVIOUS
<1> USE DEF vars, IInv, TypeOK, FilterInv, Matching, Increasing, PositionInv, PrintInv,
        SignalInv, Ends, Unopened, Reading, Printing, Wanted, Carries, journalVars,
        queryVars, readVars, printVars, signalVars
<1>1. TypeOK' /\ FilterInv'
  OBVIOUS
<1>2. Matching(window)' /\ Matching(printed)' /\ Increasing(window)' /\ Increasing(printed)'
  OBVIOUS
<1>3. PositionInv' /\ PrintInv' /\ SignalInv'
  OBVIOUS
<1> QED
  BY ONLY <1>1, <1>2, <1>3 DEF IInv

(* The invariant the theorems rest on holds in every state of the command. *)
THEOREM Inductive == Spec => []IInv
<1>1. IInv /\ [Next]_vars => IInv'
  BY InstallHandlerIInv, NormalizeIInv, OpenIInv, SeekIInv, QueryTailIInv,
     QuerySinceIInv, PositionIInv, PositionNextIInv, CheckStopIInv,
     PrintInitialIInv, FollowNextIInv, CheckMoreIInv, WaitReturnsIInv,
     WaitInterruptedIInv, JournalFailsIInv, AppendEntryIInv, VacuumIInv,
     SigintIInv, StutterIInv
  DEF Next, Step, Done
<1> QED
  BY InitIInv, <1>1, PTL DEF Spec

(* Type correctness of the log command. *)
THEOREM TypeCorrect == Spec => []TypeOK
<1>1. IInv => TypeOK
  BY DEF IInv
<1> QED
  BY Inductive, <1>1, PTL

(* configureJournal's matches, and every path from a handle to the output:  *)
(* whatever is appended or removed meanwhile, only entries with the unit    *)
(* and the PID asked for are printed.                                       *)
THEOREM PrintsOnlyMatching == Spec => []OnlyMatching
<1>1. IInv => OnlyMatching
  BY DEF IInv, Matching, OnlyMatching
<1> QED
  BY Inductive, <1>1, PTL

(* queryTail, querySince, positionAfterInitial and the follow loop together *)
(* print in journal order and nothing twice, for any journal and limit.     *)
THEOREM PrintsInOrder == Spec => []InOrder
<1>1. IInv => InOrder
  BY DEF IInv, Increasing, InOrder
<1> QED
  BY Inductive, <1>1, PTL

(* After SIGINT at most one more entry is printed, for any rate of logging. *)
THEOREM StopsPrinting == Spec => []AtMostOneAfterStop
<1>1. IInv => AtMostOneAfterStop
  BY DEF IInv, SignalInv, AtMostOneAfterStop
<1> QED
  BY Inductive, <1>1, PTL

-----------------------------------------------------------------------------
(* What the initial query gives, and what the output passes over. *)

In(s, k) == \E i \in 1..Len(s) : s[i] = k

\* The entries that are there and that the query asks for.
Due == {k \in oldest..Len(journal) :
          Carries(k, Wanted) /\ (query.since = None \/ query.since <= k)}

AllBefore(k) == \A i \in 1..Len(window) : window[i] < k
AllAfter(k) == \A i \in 1..Len(window) : k < window[i]

\* What sd_journal_previous() can still return.
Ahead(k) == IF on THEN k < pos ELSE k <= pos

SizeInv ==
  /\ Len(window) <= query.limit
  /\ atSeek <= Len(journal)
  /\ query.since # None => \A i \in 1..Len(window) : query.since <= window[i]
  /\ pc \in Printing => pos <= Len(journal)
  /\ outcome = "Ok" => pc = "done"

\* queryTail on its way back: what it has passed, it has.
BackInv ==
  pc = "tail" =>
    /\ query.since = None
    /\ pos <= atSeek
    /\ \A i \in 1..Len(window) : window[i] <= atSeek
    /\ \A k \in Due : In(window, k) \/ k > atSeek \/ Ahead(k)

\* querySince on its way forward: what it has passed, it has, or had and gave
\* up for newer ones.
ForthInv ==
  pc = "since" =>
    /\ query.since # None
    /\ query.since <= pos + 1
    /\ pos = query.since - 1 \/ pos <= Len(journal)
    /\ \A k \in Due :
         k <= pos => In(window, k) \/ (Len(window) = query.limit /\ AllAfter(k))

\* The result of either: all that was there, up to the limit.
CoveredInv ==
  (pc \in {"position", "after"} \cup Printing \/ outcome = "Ok") =>
    \A k \in Due : \/ In(window, k)
                   \/ k > atSeek /\ AllBefore(k)
                   \/ Len(window) = query.limit /\ AllAfter(k)

\* The seam, while nothing was removed: the follow starts on the last entry of
\* the query, and everything up to the read pointer has been printed.
SeamInv ==
  (pc \in Printing /\ oldest = 1) =>
    /\ unprinted > 0 => pos = window[Len(window)]
    /\ unprinted = 0 =>
         \A k \in 1..Len(journal) :
           (/\ Carries(k, Wanted)
            /\ k <= pos
            /\ \E i \in 1..Len(printed) : printed[i] < k) => In(printed, k)

EndInv == pc \in Ends => NoHole

RecentInv == SizeInv /\ BackInv /\ ForthInv /\ CoveredInv /\ SeamInv /\ EndInv

-----------------------------------------------------------------------------
(* Numbers, and the entries libsystemd finds. *)

LEMMA Numbers ==
  ASSUME IInv
  PROVE  /\ Len(journal) \in Nat /\ oldest \in Nat /\ oldest >= 1
         /\ pos \in Nat /\ atSeek \in Nat /\ unprinted \in Nat
         /\ window \in Seq(Entry) /\ printed \in Seq(Entry)
         /\ Len(window) \in Nat /\ Len(printed) \in Nat
         /\ \A i \in 1..Len(window) : window[i] \in Nat /\ window[i] <= Len(journal)
         /\ \A i \in 1..Len(printed) : printed[i] \in Nat /\ printed[i] <= Len(journal)
         /\ query.limit \in Nat /\ query.limit >= 1
         /\ query.since # None => query.since \in Nat /\ query.since >= 1
<1>1. /\ journal \in Seq(Kind) /\ window \in Seq(Entry) /\ printed \in Seq(Entry)
      /\ oldest \in 1..(MaxEntries + 1) /\ pos \in 0..MaxEntries
      /\ atSeek \in 0..MaxEntries /\ unprinted \in Nat
  BY DEF IInv, TypeOK
<1>2. Len(journal) \in Nat /\ Len(window) \in Nat /\ Len(printed) \in Nat
  BY <1>1
<1>3. query.limit \in 1..MaxLimit /\ query.since \in Instant \cup {None}
  BY DEF IInv, TypeOK, LogQuery
<1>4. /\ \A i \in 1..Len(window) : window[i] \in Nat /\ window[i] <= Len(journal)
      /\ \A i \in 1..Len(printed) : printed[i] \in Nat /\ printed[i] <= Len(journal)
  BY <1>2 DEF IInv, Matching
<1>5. query.since # None => query.since \in Nat /\ query.since >= 1
  <2>1. \A s \in Instant : s \in Nat /\ s >= 1
    BY JournalAssumption
  <2>2. QED
    BY ONLY <1>3, <2>1
<1>6. oldest \in Nat /\ oldest >= 1 /\ pos \in Nat /\ atSeek \in Nat
  BY <1>1, JournalAssumption
<1>7. query.limit \in Nat /\ query.limit >= 1
  BY <1>3, JournalAssumption
<1>8. QED
  BY ONLY <1>1, <1>2, <1>4, <1>5, <1>6, <1>7

LEMMA LeastNumber ==
  ASSUME NEW S, S \subseteq Nat, S # {}
  PROVE  \E p \in S : \A q \in S : p <= q
<1>. DEFINE R == OpToRel(<, Nat)
<1>1. \A m, n \in Nat : m < n <=> <<m, n>> \in R
  BY DEF OpToRel
<1>2. IsWellFoundedOn(R, Nat)
  BY NatLessThanWellFounded
<1>. HIDE DEF R
<1>3. PICK p \in S : \A q \in S : ~(<<q, p>> \in R)
  BY <1>2, WFMin
<1>4. ASSUME NEW q \in S PROVE p <= q
  <2>1. p \in Nat /\ q \in Nat /\ ~(<<q, p>> \in R)
    BY <1>3
  <2>2. ~(q < p)
    BY <1>1, <2>1, Zenon
  <2>3. QED
    BY ONLY <2>1, <2>2
<1>5. QED
  BY <1>3, <1>4

(* A bounded set has a greatest element: the one least far from the bound. *)
LEMMA GreatestNumber ==
  ASSUME NEW S, NEW b \in Nat, S \subseteq 0..b, S # {}
  PROVE  \E p \in S : \A q \in S : q <= p
<1>. DEFINE T == {n \in Nat : \E k \in S : k = b - n}
<1>1. \A k \in S : b - k \in T
  <2> SUFFICES ASSUME NEW k \in S PROVE b - k \in T
    OBVIOUS
  <2>1. k \in 0..b
    OBVIOUS
  <2>2. b - k \in Nat /\ k = b - (b - k)
    BY <2>1
  <2>3. QED
    BY <2>2
<1>2. T \subseteq Nat /\ T # {}
  BY <1>1
<1>3. PICK n \in T : \A m \in T : n <= m
  BY <1>2, LeastNumber
<1>4. PICK p \in S : p = b - n
  BY <1>3
<1>5. ASSUME NEW q \in S PROVE q <= p
  <2>1. n <= b - q
    BY <1>1, <1>3
  <2>2. n \in Nat /\ q \in 0..b
    BY <1>3
  <2>3. QED
    BY ONLY <1>4, <2>1, <2>2, b \in Nat
<1>6. QED
  BY <1>5

(* sd_journal_next() fails to move only when nothing matches behind the    *)
(* pointer, and sd_journal_previous() only when nothing does before it.    *)
LEMMA NextExists ==
  ASSUME IInv, NEW k \in Visible, k > pos
  PROVE  \E e \in Visible : IsNext(e)
<1>. DEFINE S == {e \in Visible : e > pos}
<1>1. S \subseteq Nat /\ S # {}
  BY Numbers DEF Visible
<1>2. PICK e \in S : \A q \in S : e <= q
  BY <1>1, LeastNumber
<1>3. QED
  BY <1>2 DEF IsNext

LEMMA PreviousExists ==
  ASSUME IInv, NEW k \in Visible, Ahead(k)
  PROVE  \E e \in Visible : IsPrevious(e)
<1>. DEFINE S == {e \in Visible : Ahead(e)}
<1>1. S \subseteq 0..Len(journal) /\ S # {} /\ Len(journal) \in Nat
  BY Numbers DEF Visible
<1>2. PICK e \in S : \A q \in S : q <= e
  BY <1>1, GreatestNumber
<1>3. QED
  BY <1>2 DEF IsPrevious, Ahead

LEMMA DueVisible ==
  ASSUME IInv, pc \in Reading \cup Printing
  PROVE  /\ \A k \in Due : k \in Visible
         /\ \A k \in oldest..Len(journal) : Carries(k, Wanted) => k \in Visible
BY DEF IInv, FilterInv, Due, Visible

(* Where the journal and the query stay the same, so does what they ask.   *)
LEMMA SameDue ==
  ASSUME UNCHANGED <<journal, oldest, query>>
  PROVE  Due' = Due /\ \A k : Carries(k, Wanted)' <=> Carries(k, Wanted)
<1>1. Wanted' = Wanted
  BY DEF Wanted
<1>2. \A k : Carries(k, Wanted)' <=> Carries(k, Wanted)
  BY <1>1 DEF Carries
<1>3. QED
  BY <1>2 DEF Due

-----------------------------------------------------------------------------
(* The invariants imply the properties. *)

LEMMA NoHoleHolds == IInv /\ RecentInv => NoHole
<1> SUFFICES ASSUME IInv, RecentInv, oldest = 1, NEW k \in Skipped
             PROVE  FALSE
  BY DEF NoHole
<1>1. /\ k \in 1..Len(journal) /\ Carries(k, Wanted)
      /\ \A i \in 1..Len(printed) : printed[i] # k
  BY DEF Skipped
<1>2. PICK i \in 1..Len(printed), j \in 1..Len(printed) :
        printed[i] < k /\ k < printed[j]
  BY DEF Skipped
<1>3. CASE pc \in Unopened \cup Reading
  BY <1>2, <1>3 DEF IInv, PrintInv
<1>4. CASE pc \in Ends
  BY <1>4 DEF RecentInv, EndInv, NoHole
<1>5. CASE pc \in Printing /\ unprinted = 0
  <2>1. printed[j] <= pos /\ printed[j] \in Nat /\ pos \in Nat /\ k \in Nat
    BY <1>1, <1>5, Numbers DEF IInv, PositionInv
  <2>2. k <= pos
    BY <1>2, <2>1
  <2>3. In(printed, k)
    BY <1>1, <1>2, <1>5, <2>2 DEF RecentInv, SeamInv
  <2>4. QED
    BY <1>1, <2>3 DEF In
<1>6. CASE pc \in Printing /\ unprinted > 0
  <2>1. /\ Len(printed) <= Len(window)
        /\ \A n \in 1..Len(printed) : n \in 1..Len(window) /\ printed[n] = window[n]
    <3>1. /\ unprinted <= Len(window)
          /\ Len(printed) = Len(window) - unprinted
          /\ \A n \in 1..Len(printed) : printed[n] = window[n]
      BY <1>6 DEF IInv, PrintInv
    <3>2. QED
      BY <3>1, Numbers
  <2>2. window[i] < k /\ k < window[j] /\ i \in 1..Len(window) /\ j \in 1..Len(window)
    BY <1>2, <2>1
  <2>3. /\ window[i] \in Nat /\ window[j] \in Nat /\ k \in Nat
        /\ query.since # None => query.since <= window[i] /\ query.since \in Nat
    BY <1>1, <2>2, Numbers DEF RecentInv, SizeInv
  <2>4. k \in Due
    <3>1. query.since = None \/ query.since <= k
      BY <2>2, <2>3
    <3>2. QED
      BY <1>1, <3>1 DEF Due
  <2>5. In(window, k)
    <3>1. ~AllBefore(k) /\ ~AllAfter(k)
      BY <2>2, <2>3 DEF AllBefore, AllAfter
    <3>2. QED
      BY <1>6, <2>4, <3>1 DEF RecentInv, CoveredInv
  <2>6. PICK m \in 1..Len(window) : window[m] = k
    BY <2>5 DEF In
  <2>7. m < j
    <3>1. ~(j < m) /\ j # m
      BY <2>2, <2>3, <2>6 DEF IInv, Increasing
    <3>2. j \in Nat /\ m \in Nat
      BY <2>2, <2>6
    <3>3. QED
      BY <3>1, <3>2
  <2>8. m \in 1..Len(printed)
    BY <1>2, <2>6, <2>7, Numbers
  <2>9. QED
    BY <1>1, <2>1, <2>6, <2>8
<1>7. pc \in Unopened \cup Reading \cup Ends \cup Printing /\ (unprinted = 0 \/ unprinted > 0)
  BY Numbers DEF IInv, TypeOK, Unopened, Reading, Ends, Printing
<1>8. QED
  BY <1>3, <1>4, <1>5, <1>6, <1>7

LEMMA InitialIsRecentHolds == IInv /\ RecentInv => InitialIsRecent
<1> SUFFICES ASSUME IInv, RecentInv, HasQueried
             PROVE  /\ Len(window) <= query.limit
                    /\ \A k \in oldest..atSeek :
                         (/\ Carries(k, Wanted)
                          /\ query.since = None \/ query.since <= k
                          /\ \A i \in 1..Len(window) : window[i] # k)
                         => Len(window) = query.limit /\ k < window[1]
  BY DEF InitialIsRecent
<1>1. Len(window) <= query.limit /\ atSeek <= Len(journal)
  BY DEF RecentInv, SizeInv
<1>2. ASSUME NEW k \in oldest..atSeek, Carries(k, Wanted),
             query.since = None \/ query.since <= k,
             \A i \in 1..Len(window) : window[i] # k
      PROVE  Len(window) = query.limit /\ k < window[1]
  <2>1. k \in Due /\ ~(k > atSeek)
    BY <1>1, <1>2, Numbers DEF Due
  <2>2. ~In(window, k)
    BY <1>2 DEF In
  <2>3. Len(window) = query.limit /\ AllAfter(k)
    BY <2>1, <2>2 DEF HasQueried, RecentInv, CoveredInv, Printing
  <2>4. 1 \in 1..Len(window)
    BY <2>3, Numbers
  <2>5. QED
    BY <2>3, <2>4 DEF AllAfter
<1>3. QED
  BY <1>1, <1>2

-----------------------------------------------------------------------------
(* Every step keeps them. *)

LEMMA RecentInit == Init => RecentInv
<1> SUFFICES ASSUME Init PROVE RecentInv
  OBVIOUS
<1>1. pc \in Unopened /\ window = <<>> /\ atSeek = 0 /\ outcome = "running"
  BY DEF Init, Unopened
<1>3. IInv
  BY InitIInv
<1>4. SizeInv
  BY <1>1, <1>3, Numbers DEF SizeInv, Unopened, Printing
<1>5. QED
  BY <1>1, <1>4 DEF RecentInv, BackInv, ForthInv, CoveredInv, SeamInv, EndInv,
     Unopened, Printing, Ends

(* Steps that neither read nor print: the pointer and the collected        *)
(* entries stay, and the command moves on within what it is doing, or ends.*)
LEMMA RecentFrame ==
  ASSUME IInv, RecentInv,
         UNCHANGED <<journal, oldest, query, pos, on, window, atSeek,
                     unprinted, printed>>,
         \/ pc' \in Ends \cup Unopened \cup {"seek", pc}
         \/ pc \in Printing /\ pc' \in Printing,
         outcome' = "Ok" => outcome = "Ok" /\ pc' = "done"
  PROVE  RecentInv'
<1>1. Due' = Due /\ \A k : Carries(k, Wanted)' <=> Carries(k, Wanted)
  BY SameDue
<1>2. SizeInv'
  BY DEF RecentInv, SizeInv, Ends, Unopened, Printing
<1>3. BackInv'
  BY <1>1 DEF RecentInv, BackInv, Ahead, In, Ends, Unopened, Printing
<1>4. ForthInv'
  BY <1>1 DEF RecentInv, ForthInv, AllAfter, In, Ends, Unopened, Printing
<1>5. CoveredInv'
  BY <1>1 DEF RecentInv, CoveredInv, AllBefore, AllAfter, In, Ends, Unopened, Printing
<1>6. SeamInv'
  BY <1>1 DEF RecentInv, SeamInv, In, Ends, Unopened, Printing
<1>7. EndInv'
  <2>1. Skipped' = Skipped
    BY <1>1 DEF Skipped
  <2>2. QED
    BY <2>1, NoHoleHolds DEF EndInv, NoHole
<1>8. QED
  BY <1>2, <1>3, <1>4, <1>5, <1>6, <1>7 DEF RecentInv

LEMMA QuietRecent ==
  ASSUME IInv, RecentInv,
         \/ InstallHandler \/ Normalize \/ Open \/ CheckStop \/ CheckMore
         \/ WaitReturns \/ WaitInterrupted \/ JournalFails \/ Sigint
         \/ UNCHANGED vars
  PROVE  RecentInv'
<1>. USE DEF journalVars, queryVars, readVars, printVars, Finish, Goto, Printing,
             Unopened, Ends
<1>0. outcome = "Ok" => pc = "done"
  BY DEF RecentInv, SizeInv
<1>1. CASE InstallHandler
  BY <1>0, <1>1, RecentFrame DEF InstallHandler
<1>2. CASE Normalize
  BY <1>0, <1>2, RecentFrame DEF Normalize
<1>3. CASE Open
  BY <1>0, <1>3, RecentFrame DEF Open
<1>4. CASE CheckStop
  BY <1>0, <1>4, RecentFrame DEF CheckStop
<1>5. CASE CheckMore
  BY <1>0, <1>5, RecentFrame DEF CheckMore
<1>6. CASE WaitReturns
  BY <1>0, <1>6, RecentFrame DEF WaitReturns
<1>7. CASE WaitInterrupted
  BY <1>0, <1>7, RecentFrame DEF WaitInterrupted
<1>8. CASE JournalFails
  BY <1>0, <1>8, RecentFrame DEF JournalFails
<1>9. CASE Sigint
  BY <1>0, <1>9, RecentFrame DEF Sigint
<1>10. CASE UNCHANGED vars
  BY <1>0, <1>10, RecentFrame DEF vars
<1>11. QED
  BY <1>1, <1>2, <1>3, <1>4, <1>5, <1>6, <1>7, <1>8, <1>9, <1>10

(* A new entry is behind everything that was read. *)
LEMMA AppendEntryRecent == IInv /\ RecentInv /\ AppendEntry => RecentInv'
<1> SUFFICES ASSUME IInv, RecentInv, AppendEntry PROVE RecentInv'
  OBVIOUS
<1>1. /\ UNCHANGED <<oldest, pc, query, atSeek, pos, on, window, unprinted,
                     printed, outcome>>
      /\ pc \notin Ends
  BY DEF AppendEntry, queryVars, readVars, printVars
<1>2. PICK new \in Kind : journal' = Append(journal, new)
  BY DEF AppendEntry
<1>3. /\ Len(journal') = Len(journal) + 1
      /\ \A k \in 1..Len(journal) : journal'[k] = journal[k]
  BY <1>2, AppendFacts DEF IInv, TypeOK
<1>4. \A k \in 1..Len(journal) : Carries(k, Wanted)' <=> Carries(k, Wanted)
  <2>1. Wanted' = Wanted
    BY <1>1 DEF Wanted
  <2>2. QED
    BY <1>1, <1>3, <2>1 DEF Carries
<1>5. \A k \in Due' : \/ k \in Due
                      \/ k = Len(journal) + 1 /\ (query.since = None \/ query.since <= k)
  <2> SUFFICES ASSUME NEW k \in Due', k # Len(journal) + 1 PROVE k \in Due
    BY <1>1 DEF Due
  <2>1. k \in oldest..Len(journal) /\ k \in 1..Len(journal)
    BY <1>1, <1>3, Numbers DEF Due
  <2>2. QED
    BY <1>1, <1>4, <2>1 DEF Due
<1>6. SizeInv'
  <2>1. Len(journal) <= Len(journal')
    BY <1>3, Numbers
  <2>2. atSeek <= Len(journal') /\ (pc \in Printing => pos <= Len(journal'))
    BY <1>3, <2>1, Numbers DEF RecentInv, SizeInv
  <2>3. QED
    BY <1>1, <2>2 DEF RecentInv, SizeInv
<1>7. BackInv'
  <2>1. atSeek < Len(journal) + 1
    BY Numbers DEF RecentInv, SizeInv
  <2>2. QED
    BY <1>1, <1>5, <2>1, Numbers DEF RecentInv, BackInv, Ahead, In
<1>8. ForthInv'
  <2> SUFFICES ASSUME pc = "since"
               PROVE  /\ query.since # None
                      /\ query.since <= pos + 1
                      /\ pos = query.since - 1 \/ pos <= Len(journal')
                      /\ \A k \in Due' : k <= pos => 
                           In(window, k) \/ (Len(window) = query.limit /\ AllAfter(k))
    BY <1>1 DEF ForthInv, In, AllAfter
  <2>1. /\ query.since # None
        /\ query.since <= pos + 1
        /\ pos = query.since - 1 \/ pos <= Len(journal)
        /\ \A k \in Due : k <= pos =>
             In(window, k) \/ (Len(window) = query.limit /\ AllAfter(k))
    BY DEF RecentInv, ForthInv
  <2>2. pos = query.since - 1 \/ pos <= Len(journal')
    BY <1>3, <2>1, Numbers
  <2>3. ASSUME NEW k \in Due', k <= pos PROVE k \in Due
    BY <1>5, <2>1, <2>3, Numbers
  <2>4. QED
    BY <2>1, <2>2, <2>3
<1>9. CoveredInv'
  <2>1. /\ Len(journal) + 1 > atSeek
        /\ \A i \in 1..Len(window) : window[i] < Len(journal) + 1
    BY Numbers DEF RecentInv, SizeInv
  <2>2. QED
    BY <1>1, <1>5, <2>1 DEF RecentInv, CoveredInv, AllBefore, AllAfter, In
<1>10. SeamInv'
  <2> SUFFICES ASSUME pc \in Printing, oldest = 1, unprinted = 0,
                      NEW k \in 1..Len(journal'), Carries(k, Wanted)', k <= pos,
                      \E i \in 1..Len(printed) : printed[i] < k
               PROVE  In(printed, k)
    BY <1>1 DEF RecentInv, SeamInv, In
  <2>1. pos <= Len(journal)
    BY DEF RecentInv, SizeInv
  <2>2. k \in 1..Len(journal)
    BY <1>3, <2>1, Numbers
  <2>3. QED
    BY <1>4, <2>2 DEF RecentInv, SeamInv
<1>11. EndInv'
  BY <1>1 DEF EndInv
<1>12. QED
  BY <1>6, <1>7, <1>8, <1>9, <1>10, <1>11 DEF RecentInv

(* What is removed is no longer asked for. *)
LEMMA VacuumRecent == IInv /\ RecentInv /\ Vacuum => RecentInv'
<1> SUFFICES ASSUME IInv, RecentInv, Vacuum PROVE RecentInv'
  OBVIOUS
<1>1. /\ UNCHANGED <<journal, pc, query, atSeek, pos, on, window, unprinted,
                     printed, outcome>>
      /\ pc \notin Ends /\ oldest' = oldest + 1
  BY DEF Vacuum, queryVars, readVars, printVars
<1>2. oldest' # 1
  BY <1>1, Numbers
<1>3. \A k \in Due' : k \in Due
  <2>1. Wanted' = Wanted
    BY <1>1 DEF Wanted
  <2>2. \A k : Carries(k, Wanted)' <=> Carries(k, Wanted)
    BY <1>1, <2>1 DEF Carries
  <2>3. \A k \in oldest'..Len(journal) : k \in oldest..Len(journal)
    BY <1>1, Numbers
  <2>4. QED
    BY <1>1, <2>2, <2>3 DEF Due
<1>4. SizeInv'
  BY <1>1 DEF RecentInv, SizeInv
<1>5. BackInv'
  BY <1>1, <1>3 DEF RecentInv, BackInv, Ahead, In
<1>6. ForthInv'
  BY <1>1, <1>3 DEF RecentInv, ForthInv, AllAfter, In
<1>7. CoveredInv'
  BY <1>1, <1>3 DEF RecentInv, CoveredInv, AllBefore, AllAfter, In
<1>8. SeamInv' /\ EndInv'
  BY <1>1, <1>2 DEF SeamInv, EndInv
<1>9. QED
  BY <1>4, <1>5, <1>6, <1>7, <1>8 DEF RecentInv

LEMMA SeekRecent == IInv /\ RecentInv /\ Seek => RecentInv'
<1> SUFFICES ASSUME IInv, RecentInv, Seek PROVE RecentInv'
  OBVIOUS
<1>1. /\ UNCHANGED <<journal, oldest, query, window, unprinted, printed, outcome>>
      /\ window = <<>> /\ atSeek' = Len(journal) /\ on' = FALSE
      /\ outcome # "Ok"
  BY DEF Seek, SeekBehind, Goto, journalVars, printVars, IInv, PositionInv,
     RecentInv, SizeInv
<1>2. Due' = Due /\ \A k : Carries(k, Wanted)' <=> Carries(k, Wanted)
  BY <1>1, SameDue
<1>3. CASE query.since = None
  <2>1. pc' = "tail" /\ pos' = Len(journal)
    BY <1>3 DEF Seek, SeekBehind, Goto
  <2>2. SizeInv'
    BY <1>1, <1>3, <2>1, Numbers DEF RecentInv, SizeInv, Printing
  <2>3. BackInv'
    <3>1. \A k \in Due : k <= Len(journal)
      BY Numbers DEF Due
    <3>2. QED
      BY <1>1, <1>2, <1>3, <2>1, <3>1, Numbers DEF BackInv, Ahead
  <2>4. QED
    BY <1>1, <2>1, <2>2, <2>3 DEF RecentInv, ForthInv, CoveredInv, SeamInv, EndInv,
       Printing, Ends
<1>4. CASE query.since # None
  <2>1. pc' = "since" /\ pos' = query.since - 1
    BY <1>4 DEF Seek, SeekBehind, Goto
  <2>2. SizeInv'
    BY <1>1, <2>1, Numbers DEF RecentInv, SizeInv, Printing
  <2>3. ForthInv'
    <3>1. \A k \in Due : ~(k <= pos')
      BY <1>4, <2>1, Numbers DEF Due
    <3>2. query.since <= pos' + 1
      BY <1>4, <2>1, Numbers
    <3>3. QED
      BY <1>1, <1>2, <1>4, <2>1, <3>1, <3>2 DEF ForthInv
  <2>4. QED
    BY <1>1, <2>1, <2>2, <2>3 DEF RecentInv, BackInv, CoveredInv, SeamInv, EndInv,
       Printing, Ends
<1>5. QED
  BY <1>3, <1>4

(* The end of the initial query, once all it should give is covered. *)
LEMMA QueriedRecent ==
  ASSUME IInv, RecentInv, Queried, pc \in {"tail", "since"},
         \A k \in Due : \/ In(window, k)
                        \/ k > atSeek /\ AllBefore(k)
                        \/ Len(window) = query.limit /\ AllAfter(k)
  PROVE  RecentInv'
<1>1. UNCHANGED <<journal, oldest, query, atSeek, pos, on, window>>
  BY DEF Queried, journalVars, queryVars, readVars
<1>2. Due' = Due /\ \A k : Carries(k, Wanted)' <=> Carries(k, Wanted)
  BY <1>1, SameDue
<1>3. \/ pc' = "position" /\ outcome' = outcome /\ outcome # "Ok"
      \/ pc' = "done" /\ printed' = window
  BY DEF Queried, Goto, Finish, RecentInv, SizeInv
<1>4. SizeInv'
  BY <1>1, <1>3 DEF RecentInv, SizeInv, Printing
<1>5. CoveredInv'
  BY <1>1, <1>2 DEF CoveredInv, In, AllBefore, AllAfter
<1>6. BackInv' /\ ForthInv' /\ SeamInv'
  BY <1>3 DEF BackInv, ForthInv, SeamInv, Printing
<1>7. EndInv'
  <2> SUFFICES ASSUME pc' = "done", oldest = 1, NEW k \in Skipped'
               PROVE  FALSE
    BY <1>1, <1>3 DEF EndInv, NoHole, Ends
  <2>1. printed' = window
    BY <1>3
  <2>2. /\ k \in 1..Len(journal) /\ Carries(k, Wanted)
        /\ \A i \in 1..Len(window) : window[i] # k
    BY <1>1, <1>2, <2>1 DEF Skipped
  <2>3. PICK i \in 1..Len(window), j \in 1..Len(window) :
          window[i] < k /\ k < window[j]
    BY <2>1 DEF Skipped
  <2>4. /\ window[i] \in Nat /\ window[j] \in Nat /\ k \in Nat
        /\ query.since # None => query.since <= window[i] /\ query.since \in Nat
    BY <2>2, <2>3, Numbers DEF RecentInv, SizeInv
  <2>5. k \in Due
    <3>1. query.since = None \/ query.since <= k
      BY <2>3, <2>4
    <3>2. QED
      BY <2>2, <3>1 DEF Due
  <2>6. ~AllBefore(k) /\ ~AllAfter(k) /\ ~In(window, k)
    BY <2>2, <2>3, <2>4 DEF AllBefore, AllAfter, In
  <2>7. QED
    BY <2>5, <2>6
<1>8. QED
  BY <1>4, <1>5, <1>6, <1>7 DEF RecentInv

LEMMA QueryTailRecent == IInv /\ RecentInv /\ QueryTail => RecentInv'
<1> SUFFICES ASSUME IInv, RecentInv, QueryTail PROVE RecentInv'
  OBVIOUS
<1>1. /\ pc = "tail" /\ query.since = None /\ pos <= atSeek
      /\ \A i \in 1..Len(window) : window[i] <= atSeek
      /\ \A k \in Due : In(window, k) \/ k > atSeek \/ Ahead(k)
      /\ IF on THEN window # <<>> /\ window[1] = pos ELSE window = <<>>
      /\ Increasing(window)
      /\ Len(window) <= query.limit
  BY DEF QueryTail, RecentInv, BackInv, SizeInv, IInv, PositionInv
<1>2. /\ window \in Seq(Entry) /\ Len(window) \in Nat
      /\ pos \in Nat /\ atSeek \in Nat /\ query.limit \in Nat /\ query.limit >= 1
      /\ \A i \in 1..Len(window) : window[i] \in Nat
      /\ \A k \in Due : k \in Nat /\ k \in Visible
  BY <1>1, Numbers, DueVisible DEF Due, Reading
<1>3. CASE Queried /\ (Len(window) >= query.limit \/ \A e \in Visible : ~IsPrevious(e))
  <2>1. ASSUME NEW k \in Due, ~In(window, k)
        PROVE  \/ k > atSeek /\ AllBefore(k)
               \/ Len(window) = query.limit /\ AllAfter(k)
    <3>1. CASE k > atSeek
      BY <1>1, <1>2, <3>1 DEF AllBefore
    <3>2. CASE Ahead(k)
      <4>1. Len(window) >= query.limit
        BY <1>2, <1>3, <3>2, PreviousExists
      <4>2. Len(window) = query.limit /\ 1 \in 1..Len(window)
        BY <1>1, <1>2, <4>1
      <4>3. on /\ k < window[1]
        BY <1>1, <3>2, <4>2 DEF Ahead
      <4>4. \A i \in 1..Len(window) : i = 1 \/ window[1] < window[i]
        BY <1>1, <1>2, <4>2 DEF Increasing
      <4>5. AllAfter(k)
        BY <1>2, <4>2, <4>3, <4>4 DEF AllAfter
      <4>6. QED
        BY <4>2, <4>5
    <3>3. QED
      BY <1>1, <2>1, <3>1, <3>2
  <2>2. QED
    BY <1>1, <1>3, <2>1, QueriedRecent
<1>4. ASSUME NEW e \in Visible, Len(window) < query.limit, IsPrevious(e), TailEntry(e)
      PROVE  RecentInv'
  <2>1. /\ window' = <<e>> \o window /\ pos' = e /\ on' = TRUE
        /\ UNCHANGED <<journal, oldest, pc, query, atSeek, unprinted, printed, outcome>>
    BY <1>4 DEF TailEntry, StepTo, journalVars, queryVars, printVars
  <2>2. Due' = Due
    BY <2>1, SameDue
  <2>3. e \in Entry /\ e \in Nat /\ Ahead(e) /\ e <= atSeek
    <3>1. e \in Entry
      BY <1>1, VisibleFacts DEF Reading
    <3>2. Ahead(e) /\ e \in Nat
      BY <1>4, <3>1, JournalAssumption DEF IsPrevious, Ahead, Entry
    <3>3. QED
      BY <1>1, <1>2, <3>1, <3>2 DEF Ahead
  <2>4. /\ Len(window') = Len(window) + 1
        /\ window'[1] = e
        /\ \A i \in 2..(Len(window) + 1) : window'[i] = window[i - 1]
    BY <1>2, <2>1, <2>3, PrependFacts
  <2>5. \A i \in 1..Len(window') : window'[i] = e \/ \E j \in 1..Len(window) : window'[i] = window[j]
    <3> SUFFICES ASSUME NEW i \in 1..Len(window'), i # 1
                 PROVE  \E j \in 1..Len(window) : window'[i] = window[j]
      BY <2>4
    <3>1. i \in 2..(Len(window) + 1) /\ i - 1 \in 1..Len(window)
      BY <1>2, <2>4
    <3>2. QED
      BY <2>4, <3>1
  <2>6. /\ In(window', e)
        /\ \A k : In(window, k) => In(window', k)
    <3>1. 1 \in 1..Len(window')
      BY <1>2, <2>4
    <3>2. In(window', e)
      BY <2>4, <3>1 DEF In
    <3>3. ASSUME NEW j \in 1..Len(window) PROVE In(window', window[j])
      <4>1. /\ j + 1 \in 2..(Len(window) + 1) /\ (j + 1) - 1 = j
            /\ j + 1 \in 1..Len(window')
        BY <1>2, <2>4
      <4>2. window'[j + 1] = window[j]
        BY <2>4, <4>1
      <4>3. QED
        BY <4>1, <4>2 DEF In
    <3>4. QED
      BY <3>2, <3>3 DEF In
  <2>7. SizeInv'
    <3>1. Len(window') <= query.limit
      BY <1>2, <1>4, <2>4
    <3>2. QED
      BY <1>1, <2>1, <3>1 DEF RecentInv, SizeInv, Printing
  <2>8. BackInv'
    <3>1. \A i \in 1..Len(window') : window'[i] <= atSeek
      BY <1>1, <2>3, <2>5
    <3>2. ASSUME NEW k \in Due, ~In(window', k), ~(k > atSeek)
          PROVE  k < e
      <4>1. Ahead(k) /\ k # e
        BY <1>1, <2>6, <3>2
      <4>2. k <= e
        BY <1>2, <1>4, <4>1 DEF IsPrevious, Ahead
      <4>3. QED
        BY <1>2, <2>3, <4>1, <4>2
    <3>3. QED
      BY <1>1, <2>1, <2>2, <2>3, <3>1, <3>2 DEF BackInv, Ahead, In
  <2>9. QED
    BY <1>1, <2>1, <2>7, <2>8 DEF RecentInv, SizeInv, ForthInv, CoveredInv, SeamInv,
       EndInv, Printing, Ends
<1>5. QED
  BY <1>3, <1>4 DEF QueryTail

LEMMA QuerySinceRecent == IInv /\ RecentInv /\ QuerySince => RecentInv'
<1> SUFFICES ASSUME IInv, RecentInv, QuerySince PROVE RecentInv'
  OBVIOUS
<1>1. /\ pc = "since" /\ query.since # None /\ query.since <= pos + 1
      /\ \A k \in Due : k <= pos =>
           In(window, k) \/ (Len(window) = query.limit /\ AllAfter(k))
      /\ Increasing(window)
      /\ \A i \in 1..Len(window) : window[i] <= pos
      /\ \A i \in 1..Len(window) : query.since <= window[i]
      /\ Len(window) <= query.limit
  BY DEF QuerySince, RecentInv, ForthInv, SizeInv, IInv, PositionInv
<1>2. /\ window \in Seq(Entry) /\ Len(window) \in Nat /\ query.since \in Nat
      /\ pos \in Nat /\ query.limit \in Nat /\ query.limit >= 1
      /\ \A i \in 1..Len(window) : window[i] \in Nat
      /\ \A k \in Due : k \in Nat /\ k \in Visible
  BY <1>1, Numbers, DueVisible DEF Due, Reading
<1>3. CASE Queried /\ \A e \in Visible : ~IsNext(e)
  <2>1. \A k \in Due : k <= pos
    BY <1>2, <1>3, NextExists
  <2>2. QED
    BY <1>1, <1>3, <2>1, QueriedRecent
<1>4. ASSUME NEW e \in Visible, IsNext(e), StepTo(e),
             window' = IF Len(window) < query.limit
                         THEN Append(window, e) ELSE Append(Tail(window), e),
             UNCHANGED <<journalVars, pc, queryVars, printVars, signalVars, outcome>>
      PROVE  RecentInv'
  <2>1. /\ pos' = e
        /\ UNCHANGED <<journal, oldest, pc, query, atSeek, unprinted, printed, outcome>>
    BY <1>4 DEF StepTo, journalVars, queryVars, printVars
  <2>2. Due' = Due
    BY <2>1, SameDue
  <2>3. /\ e \in Entry /\ e \in Nat /\ e <= Len(journal) /\ pos < e
        /\ query.since <= e
    <3>1. e \in Entry /\ e \in 1..Len(journal)
      BY <1>1, VisibleFacts DEF Reading
    <3>2. e \in Nat /\ e <= Len(journal) /\ pos < e
      BY <1>2, <1>4, <3>1, Numbers DEF IsNext
    <3>3. QED
      BY <1>1, <1>2, <3>1, <3>2
  <2>4. \A k \in Due : k <= pos \/ e <= k
    BY <1>2, <1>4 DEF IsNext
  <2>5. PICK kept \in Seq(Entry) :
          /\ window' = Append(kept, e)
          /\ \A i \in 1..Len(kept) : \E j \in 1..Len(window) : kept[i] = window[j]
          /\ \/ kept = window /\ Len(window) < query.limit
             \/ /\ Len(window) = query.limit /\ Len(kept) = Len(window) - 1
                /\ \A j \in 2..Len(window) : In(kept, window[j])
                /\ \A i \in 1..Len(kept) : window[1] < kept[i]
    <3>1. CASE Len(window) < query.limit
      BY <1>2, <1>4, <3>1
    <3>2. CASE ~(Len(window) < query.limit)
      <4>1. window # <<>> /\ Len(window) = query.limit /\ 1 \in 1..Len(window)
        BY <1>1, <1>2, <3>2
      <4>2. /\ Tail(window) \in Seq(Entry)
            /\ Len(Tail(window)) = Len(window) - 1
            /\ \A i \in 1..(Len(window) - 1) : Tail(window)[i] = window[i + 1]
        BY <1>2, <4>1, TailFacts
      <4>3. ASSUME NEW i \in 1..Len(Tail(window))
            PROVE  /\ \E j \in 1..Len(window) : Tail(window)[i] = window[j]
                   /\ window[1] < Tail(window)[i]
        <5>1. /\ i \in 1..(Len(window) - 1) /\ i + 1 \in 1..Len(window) /\ 1 < i + 1
              /\ Tail(window)[i] = window[i + 1]
          BY <1>2, <4>2
        <5>2. QED
          BY <1>1, <4>1, <5>1 DEF Increasing
      <4>4. ASSUME NEW j \in 2..Len(window) PROVE In(Tail(window), window[j])
        <5>1. j - 1 \in 1..(Len(window) - 1) /\ (j - 1) + 1 = j
          BY <1>2
        <5>2. QED
          BY <4>2, <5>1 DEF In
      <4>5. QED
        BY <1>4, <3>2, <4>1, <4>2, <4>3, <4>4
    <3>3. QED
      BY <3>1, <3>2
  <2>6. /\ Len(window') = Len(kept) + 1
        /\ \A i \in 1..Len(kept) : window'[i] = kept[i]
        /\ window'[Len(kept) + 1] = e
        /\ Len(kept) \in Nat
    BY <2>3, <2>5, AppendFacts
  <2>7. \A i \in 1..Len(window') : window'[i] = e \/ i \in 1..Len(kept)
    BY <2>6
  <2>8. In(window', e) /\ \A k : In(kept, k) => In(window', k)
    <3>1. \A i \in 1..Len(kept) : i \in 1..Len(window')
      BY <2>6
    <3>2. Len(kept) + 1 \in 1..Len(window')
      BY <2>6
    <3>3. QED
      BY <2>6, <3>1, <3>2 DEF In
  <2>9. SizeInv'
    <3>1. Len(window') <= query.limit
      BY <1>2, <2>5, <2>6
    <3>2. \A i \in 1..Len(window') : query.since <= window'[i]
      BY <1>1, <2>3, <2>5, <2>6, <2>7
    <3>3. QED
      BY <1>1, <2>1, <3>1, <3>2 DEF RecentInv, SizeInv, Printing
  <2>10. ForthInv'
    <3>1. ASSUME NEW k \in Due, k <= e, ~In(window', k)
          PROVE  Len(window') = query.limit /\ \A i \in 1..Len(window') : k < window'[i]
      <4>1. k <= pos /\ k \in Nat /\ k < e
        BY <1>2, <2>3, <2>4, <2>8, <3>1
      <4>2. In(window, k) \/ (Len(window) = query.limit /\ AllAfter(k))
        BY <1>1, <4>1
      <4>3. CASE kept = window /\ Len(window) < query.limit
        BY <1>2, <2>8, <3>1, <4>2, <4>3
      <4>4. CASE /\ Len(window) = query.limit /\ Len(kept) = Len(window) - 1
                 /\ \A j \in 2..Len(window) : In(kept, window[j])
                 /\ \A i \in 1..Len(kept) : window[1] < kept[i]
        <5>1. Len(window') = query.limit
          BY <1>2, <2>6, <4>4
        <5>2. \A i \in 1..Len(kept) : k < kept[i]
          <6>1. CASE In(window, k)
            <7>1. PICK j \in 1..Len(window) : window[j] = k
              BY <6>1 DEF In
            <7>2. j = 1
              <8>1. j \notin 2..Len(window)
                BY <2>8, <3>1, <4>4, <7>1
              <8>2. QED
                BY <1>2, <7>1, <8>1
            <7>3. QED
              BY <4>4, <7>1, <7>2
          <6>2. CASE AllAfter(k)
            BY <2>5, <6>2 DEF AllAfter
          <6>3. QED
            BY <4>2, <6>1, <6>2
        <5>3. QED
          BY <2>6, <2>7, <4>1, <5>1, <5>2
      <4>5. QED
        BY <2>5, <4>3, <4>4
    <3>2. query.since <= e + 1
      BY <1>2, <2>3
    <3>3. QED
      BY <1>1, <2>1, <2>2, <2>3, <3>1, <3>2 DEF ForthInv, In, AllAfter
  <2>11. QED
    BY <1>1, <2>1, <2>9, <2>10 DEF RecentInv, SizeInv, BackInv, CoveredInv, SeamInv,
       EndInv, Printing, Ends
<1>5. QED
  BY <1>3, <1>4 DEF QuerySince

(* The end of the queue of initial entries does not matter to what they    *)
(* cover.                                                                  *)
LEMMA CoveredFrame ==
  ASSUME CoveredInv, UNCHANGED <<journal, oldest, query, atSeek, window, outcome>>,
         pc \in {"position", "after"} \cup Printing
  PROVE  CoveredInv'
<1>1. Due' = Due
  BY SameDue
<1>2. QED
  BY <1>1 DEF CoveredInv, In, AllBefore, AllAfter

LEMMA PositionRecent == IInv /\ RecentInv /\ Position => RecentInv'
<1> SUFFICES ASSUME IInv, RecentInv, Position PROVE RecentInv'
  OBVIOUS
<1>1. /\ pc = "position" /\ printed = <<>> /\ unprinted' = Len(window)
      /\ UNCHANGED <<journal, oldest, query, atSeek, window, printed, outcome>>
      /\ outcome # "Ok"
  BY DEF Position, Goto, journalVars, queryVars, IInv, PrintInv, Reading,
     RecentInv, SizeInv
<1>2. \/ pc' = "check" /\ window = <<>> /\ pos' = Len(journal)
      \/ pc' = "after"
  BY DEF Position, SeekBehind, Goto
<1>3. SizeInv'
  BY <1>1, <1>2, Numbers DEF RecentInv, SizeInv, Printing
<1>4. CoveredInv'
  BY <1>1, CoveredFrame DEF RecentInv
<1>5. SeamInv'
  <2>1. CASE pc' = "check" /\ window = <<>>
    BY <1>1, <2>1 DEF SeamInv
  <2>2. CASE pc' = "after"
    BY <2>2 DEF SeamInv, Printing
  <2>3. QED
    BY <1>2, <2>1, <2>2
<1>6. BackInv' /\ ForthInv' /\ EndInv'
  BY <1>2 DEF BackInv, ForthInv, EndInv, Ends
<1>7. QED
  BY <1>3, <1>4, <1>5, <1>6 DEF RecentInv

(* While nothing is removed, the entry stepped on is the last initial one. *)
LEMMA PositionNextRecent == IInv /\ RecentInv /\ PositionNext => RecentInv'
<1> SUFFICES ASSUME IInv, RecentInv, PositionNext PROVE RecentInv'
  OBVIOUS
<1>1. /\ pc = "after" /\ window # <<>> /\ pos = window[Len(window)] - 1
      /\ unprinted = Len(window)
      /\ UNCHANGED <<journal, oldest, query, atSeek, window, unprinted, printed>>
      /\ outcome # "Ok"
  BY DEF PositionNext, journalVars, queryVars, printVars, IInv, PositionInv, PrintInv,
     RecentInv, SizeInv
<1>2. CASE pc' = "done"
  BY <1>1, <1>2, RecentFrame DEF PositionNext, Finish, Goto, Ends
<1>3. ASSUME NEW e \in Visible, IsNext(e), StepTo(e), Goto("check")
      PROVE  RecentInv'
  <2>1. pos' = e /\ pc' = "check" /\ outcome' = outcome
    BY <1>3 DEF StepTo, Goto
  <2>2. e \in 1..Len(journal)
    BY <1>1, VisibleFacts DEF Reading
  <2>3. Len(window) \in 1..Len(window) /\ Len(window) > 0
    BY <1>1, Numbers
  <2>4. oldest = 1 => e = window[Len(window)]
    <3> SUFFICES ASSUME oldest = 1 PROVE e = window[Len(window)]
      OBVIOUS
    <3>1. window[Len(window)] \in 1..Len(journal) /\ Carries(window[Len(window)], Wanted)
      BY <2>3 DEF IInv, Matching
    <3>2. window[Len(window)] \in Visible
      BY <1>1, <3>1, DueVisible DEF Reading
    <3>3. e <= window[Len(window)] /\ e > window[Len(window)] - 1
      BY <1>1, <1>3, <3>1, <3>2, Numbers DEF IsNext
    <3>4. e \in Nat /\ window[Len(window)] \in Nat
      BY <2>2, <3>1
    <3>5. QED
      BY <3>3, <3>4
  <2>5. SizeInv'
    BY <1>1, <2>1, <2>2, Numbers DEF RecentInv, SizeInv
  <2>6. CoveredInv'
    BY <1>1, <2>1, CoveredFrame DEF RecentInv
  <2>7. SeamInv'
    BY <1>1, <2>1, <2>3, <2>4 DEF SeamInv
  <2>8. QED
    BY <2>1, <2>5, <2>6, <2>7 DEF RecentInv, BackInv, ForthInv, EndInv, Ends
<1>4. QED
  BY <1>2, <1>3 DEF PositionNext, Finish

(* The last initial entry goes out: all up to the read pointer is printed. *)
LEMMA PrintInitialRecent == IInv /\ RecentInv /\ PrintInitial => RecentInv'
<1> SUFFICES ASSUME IInv, RecentInv, PrintInitial PROVE RecentInv'
  OBVIOUS
<1>1. /\ pc = "print" /\ pc' = "check" /\ outcome' = outcome /\ outcome # "Ok"
      /\ unprinted' = unprinted - 1
      /\ UNCHANGED <<journal, oldest, query, atSeek, pos, on, window>>
      /\ unprinted > 0 /\ unprinted <= Len(window)
      /\ Len(printed) = Len(window) - unprinted
      /\ \A i \in 1..Len(printed) : printed[i] = window[i]
      /\ printed' = Append(printed, window[Len(window) - unprinted + 1])
  BY DEF PrintInitial, Goto, journalVars, queryVars, readVars, IInv, PrintInv, Printing,
     RecentInv, SizeInv
<1>2. SizeInv'
  BY <1>1 DEF RecentInv, SizeInv, Printing
<1>3. CoveredInv'
  BY <1>1, CoveredFrame DEF RecentInv, Printing
<1>4. SeamInv'
  <2>1. \A k : Carries(k, Wanted)' <=> Carries(k, Wanted)
    BY <1>1, SameDue
  <2>2. (oldest = 1) => pos = window[Len(window)]
    BY <1>1 DEF RecentInv, SeamInv, Printing
  <2>3. ASSUME oldest = 1, unprinted' = 0, NEW k \in 1..Len(journal), Carries(k, Wanted),
               k <= pos, NEW i \in 1..Len(printed'), printed'[i] < k
        PROVE  In(printed', k)
    <3>1. /\ Len(printed') = Len(window)
          /\ \A n \in 1..Len(window) : printed'[n] = window[n]
      <4>1. Len(printed) + 1 = Len(window) /\ Len(window) - unprinted + 1 = Len(window)
            /\ Len(window) \in 1..Len(window)
        BY <1>1, <2>3, Numbers
      <4>2. PICK w \in Entry : w = window[Len(window)] /\ printed' = Append(printed, w)
        <5>1. window[Len(window)] \in Entry
          BY <4>1, Numbers
        <5>2. printed' = Append(printed, window[Len(window)])
          BY <1>1, <4>1
        <5>3. QED
          BY ONLY <5>1, <5>2
      <4>3. /\ Len(printed') = Len(printed) + 1
            /\ \A n \in 1..Len(printed) : printed'[n] = printed[n]
            /\ printed'[Len(printed) + 1] = w
        BY ONLY <4>2, Numbers, IInv, AppendFacts
      <4>4. \A n \in 1..Len(window) : n = Len(window) \/ n \in 1..Len(printed)
        <5>1. Len(window) \in Nat /\ Len(printed) \in Nat
          BY Numbers
        <5>2. QED
          BY ONLY <4>1, <5>1
      <4>5. QED
        BY <1>1, <4>1, <4>2, <4>3, <4>4
    <3>2. /\ i \in 1..Len(window) /\ window[i] < k
          /\ window[i] \in Nat /\ k \in Nat
          /\ Len(window) \in 1..Len(window) /\ window[Len(window)] \in Nat
          /\ query.since # None => query.since <= window[i] /\ query.since \in Nat
      BY <1>1, <2>3, <3>1, Numbers, SMTT(30) DEF RecentInv, SizeInv
    <3>3. k \in Due
      <4>1. query.since = None \/ query.since <= k
        BY <3>2
      <4>2. QED
        BY <2>3, <4>1 DEF Due
    <3>4. ~AllBefore(k) /\ ~AllAfter(k)
      BY <2>2, <2>3, <3>2 DEF AllBefore, AllAfter
    <3>5. In(window, k)
      BY <1>1, <3>3, <3>4 DEF RecentInv, CoveredInv, Printing
    <3>6. QED
      BY <3>1, <3>5 DEF In
  <2>4. unprinted' > 0 => unprinted > 0
    BY <1>1
  <2>5. QED
    BY <1>1, <2>1, <2>2, <2>3, <2>4 DEF SeamInv
<1>5. BackInv' /\ ForthInv' /\ EndInv'
  BY <1>1 DEF BackInv, ForthInv, EndInv, Ends
<1>6. QED
  BY <1>2, <1>3, <1>4, <1>5 DEF RecentInv

(* A followed entry is the next one that matches. *)
LEMMA FollowNextRecent == IInv /\ RecentInv /\ FollowNext => RecentInv'
<1> SUFFICES ASSUME IInv, RecentInv, FollowNext PROVE RecentInv'
  OBVIOUS
<1>1. /\ pc = "next" /\ unprinted = 0 /\ outcome # "Ok"
      /\ UNCHANGED <<journal, oldest, query, atSeek, window, unprinted>>
  BY DEF FollowNext, journalVars, queryVars, IInv, PrintInv, Printing, RecentInv, SizeInv
<1>2. CASE pc' = "wait" /\ UNCHANGED <<pos, on, printed, outcome>>
  BY <1>1, <1>2, RecentFrame DEF Printing
<1>3. ASSUME NEW e \in Visible, on => IsNext(e), StepTo(e), printed' = Append(printed, e),
             Goto("more")
      PROVE  RecentInv'
  <2>1. pos' = e /\ pc' = "more" /\ outcome' = outcome
    BY <1>3 DEF StepTo, Goto
  <2>2. e \in Entry /\ e \in 1..Len(journal) /\ e \in Nat
    BY <1>1, VisibleFacts DEF Printing
  <2>3. /\ Len(printed') = Len(printed) + 1
        /\ \A n \in 1..Len(printed) : printed'[n] = printed[n]
        /\ printed'[Len(printed) + 1] = e
    BY <1>3, <2>2, Numbers, AppendFacts
  <2>4. In(printed', e) /\ \A k : In(printed, k) => In(printed', k)
    <3>1. Len(printed) + 1 \in 1..Len(printed') /\ \A n \in 1..Len(printed) : n \in 1..Len(printed')
      BY <2>3, Numbers
    <3>2. QED
      BY <2>3, <3>1 DEF In
  <2>5. SizeInv'
    BY <1>1, <2>1, <2>2, Numbers DEF RecentInv, SizeInv
  <2>6. CoveredInv'
    BY <1>1, <2>1, CoveredFrame DEF RecentInv, Printing
  <2>7. SeamInv'
    <3>1. \A k : Carries(k, Wanted)' <=> Carries(k, Wanted)
      BY <1>1, SameDue
    <3>2. ASSUME oldest = 1, NEW k \in 1..Len(journal), Carries(k, Wanted), k <= e,
                 NEW i \in 1..Len(printed'), printed'[i] < k
          PROVE  In(printed', k)
      <4>1. CASE k = e
        BY <2>4, <4>1
      <4>2. CASE k # e
        <5>0. on
          <6>1. on \/ printed = <<>>
            BY <1>1 DEF IInv, PositionInv, Printing
          <6>2. ASSUME printed = <<>> PROVE FALSE
            <7>1. i = 1 /\ printed'[i] = e
              BY <2>3, <3>2, <6>2
            <7>2. QED
              BY <2>2, <3>2, <7>1
          <6>3. QED
            BY <6>1, <6>2
        <5>1. k \in Visible
          BY <1>1, <3>2, DueVisible DEF Printing
        <5>2. k <= pos /\ k < e
          <6>1. k > pos => e <= k
            BY <1>3, <5>0, <5>1 DEF IsNext
          <6>2. QED
            BY <2>2, <3>2, <4>2, <6>1, Numbers
        <5>3. i \in 1..Len(printed) /\ printed[i] < k
          <6>1. i # Len(printed) + 1
            BY <2>2, <2>3, <3>2, <5>2
          <6>2. i \in 1..Len(printed)
            BY <2>3, <6>1, Numbers
          <6>3. QED
            BY <2>3, <3>2, <6>2
        <5>4. In(printed, k)
          BY <1>1, <3>2, <5>2, <5>3 DEF RecentInv, SeamInv, Printing
        <5>5. QED
          BY <2>4, <5>4
      <4>3. QED
        BY <4>1, <4>2
    <3>3. QED
      BY <1>1, <2>1, <3>1, <3>2 DEF SeamInv
  <2>8. QED
    BY <2>1, <2>5, <2>6, <2>7 DEF RecentInv, BackInv, ForthInv, EndInv, Ends
<1>4. QED
  BY <1>2, <1>3 DEF FollowNext, Goto

LEMMA RecentNext == IInv /\ RecentInv /\ [Next]_vars => RecentInv'
BY QuietRecent, AppendEntryRecent, VacuumRecent, SeekRecent, QueryTailRecent,
   QuerySinceRecent, PositionRecent, PositionNextRecent, PrintInitialRecent,
   FollowNextRecent
DEF Next, Step, Done

(* queryTail and querySince: the initial query gives every matching entry  *)
(* that was there when it began and still is, unless --lines newer ones    *)
(* push it out.                                                            *)
THEOREM InitialQueryRecent == Spec => []InitialIsRecent
BY Inductive, RecentInit, RecentNext, InitialIsRecentHolds, PTL DEF Spec

(* As long as nothing is removed, no matching entry between two printed    *)
(* ones is missing: not within the initial query, not at the seam between  *)
(* it and the follow loop, and not in the loop.                            *)
THEOREM PrintsWithoutHole == Spec => []NoHole
BY Inductive, RecentInit, RecentNext, NoHoleHolds, PTL DEF Spec

-----------------------------------------------------------------------------
(* Why Ctrl-C ends a follow.  (That it does, under the fairness of         *)
(* FairSpec, is StopEnds.)                                                 *)

\* The way from anywhere to the end once the flag is set: at most one entry is
\* printed and at most one wait begun before the flag is tested.
ToTheEnd(p) ==
  CASE p = "install" -> 0 [] p = "normalize" -> 1 [] p = "open" -> 2 [] p = "seek" -> 3
    [] p \in {"tail", "since"} -> 4 [] p = "position" -> 5 [] p = "after" -> 6
    [] p \in {"print", "next"} -> 7 [] p \in {"more", "wait", "interrupted"} -> 8
    [] p = "check" -> 9 [] OTHER -> 10

\* Closer to the end; or one more entry in the initial query, whose loops do
\* not test the flag.
StopFinishes ==
  \/ ToTheEnd(pc') > ToTheEnd(pc)
  \/ pc = "tail" /\ pc' = "tail" /\ Len(window') = Len(window) + 1
                 /\ Len(window') <= query.limit
  \/ pc = "since" /\ pc' = "since" /\ pos' > pos /\ pos' <= Len(journal)

(* Once SIGINT has set the flag, every step of the command takes it closer *)
(* to its end, however fast the journal grows; only querySince, which does *)
(* not test the flag, has further to go the more is appended.              *)
THEOREM StopIsFinal == Spec => [][requested => StopFinishes \/ AppendEntry \/ Vacuum]_vars
<1>1. ASSUME IInv, [Next]_vars
      PROVE  [requested => StopFinishes \/ AppendEntry \/ Vacuum]_vars
  <2> SUFFICES ASSUME requested, Next, ~AppendEntry, ~Vacuum, vars' # vars PROVE StopFinishes
    BY <1>1
  <2>. USE DEF Goto, Finish
  <2>1. TypeOK
    BY <1>1 DEF IInv
  <2>2. CASE InstallHandler \/ Normalize \/ Open \/ Seek
    <3>1. \/ pc = "install" /\ pc' \in {"normalize", "done"}
          \/ pc = "normalize" /\ pc' \in {"open", "done"}
          \/ pc = "open" /\ pc' \in {"seek", "done"}
          \/ pc = "seek" /\ pc' \in {"tail", "since"}
      BY <2>2 DEF InstallHandler, Normalize, Open, Seek
    <3>2. QED
      BY <3>1 DEF StopFinishes, ToTheEnd
  <2>3. ASSUME pc \in {"tail", "since"}, Queried PROVE StopFinishes
    <3>1. pc' \in {"position", "done"}
      BY <2>3 DEF Queried
    <3>2. QED
      BY <2>3, <3>1 DEF StopFinishes, ToTheEnd
  <2>4. CASE QueryTail
    <3>1. pc = "tail"
      BY <2>4 DEF QueryTail
    <3>2. CASE Queried
      BY <2>3, <3>1, <3>2
    <3>3. CASE ~Queried
      <4>1. PICK e \in Visible : Len(window) < query.limit /\ TailEntry(e)
        BY <2>4, <3>3 DEF QueryTail
      <4>2. window \in Seq(Entry) /\ e \in Int /\ query.limit \in Nat
        BY <2>1, JournalAssumption DEF TypeOK, Visible, LogQuery
      <4>3. window' = <<e>> \o window /\ pc' = pc
        BY <4>1 DEF TailEntry
      <4>4. Len(window') = Len(window) + 1 /\ Len(window) \in Nat
        BY <4>2, <4>3
      <4>5. QED
        BY <3>1, <4>1, <4>2, <4>3, <4>4 DEF StopFinishes
    <3>4. QED
      BY <3>2, <3>3
  <2>5. CASE QuerySince
    <3>1. pc = "since"
      BY <2>5 DEF QuerySince
    <3>2. CASE Queried
      BY <2>3, <3>1, <3>2
    <3>3. CASE ~Queried
      <4>1. PICK e \in Visible : IsNext(e) /\ StepTo(e) /\ pc' = pc
        BY <2>5, <3>3 DEF QuerySince
      <4>2. e > pos /\ e <= Len(journal)
        BY <2>1, <4>1 DEF IsNext, Visible, TypeOK
      <4>3. QED
        BY <3>1, <4>1, <4>2 DEF StepTo, StopFinishes
    <3>4. QED
      BY <3>2, <3>3
  <2>6. CASE Position \/ PositionNext \/ PrintInitial \/ FollowNext
    <3>1. \/ pc = "position" /\ pc' \in {"check", "after"}
          \/ pc = "after" /\ pc' \in {"check", "done"}
          \/ pc = "print" /\ pc' = "check"
          \/ pc = "next" /\ pc' \in {"more", "wait"}
      BY <2>6 DEF Position, PositionNext, PrintInitial, FollowNext
    <3>2. QED
      BY <3>1 DEF StopFinishes, ToTheEnd
  <2>7. CASE CheckStop \/ CheckMore \/ WaitReturns \/ WaitInterrupted
    <3>1. \/ pc \in {"check", "more", "interrupted"} /\ pc' = "done"
          \/ pc = "wait" /\ pc' = "check"
      BY <2>7 DEF CheckStop, CheckMore, WaitReturns, WaitInterrupted
    <3>2. QED
      BY <3>1 DEF StopFinishes, ToTheEnd
  <2>8. CASE JournalFails
    <3>1. /\ pc \in {"seek", "tail", "since", "position", "after", "next", "wait"}
          /\ pc' = "done"
      BY <2>8 DEF JournalFails
    <3>2. QED
      BY <3>1 DEF StopFinishes, ToTheEnd
  <2>9. CASE Sigint \/ Done
    BY <2>9 DEF Sigint, Done
  <2>10. QED
    BY <2>2, <2>4, <2>5, <2>6, <2>7, <2>8, <2>9 DEF Next, Step
<1>2. QED
  BY <1>1, Inductive, PTL DEF Spec

=============================================================================
