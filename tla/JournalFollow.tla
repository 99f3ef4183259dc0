--------------------------- MODULE JournalFollow ---------------------------
(***************************************************************************)
(* "lx log": LogService over SystemdJournalProvider.  A command reads the  *)
(* newest matching entries and, with --follow, goes on printing entries as *)
(* they are appended until Ctrl-C.  The journal is written, and its oldest *)
(* entries are removed, between any two calls into libsystemd; SIGINT can  *)
(* arrive between any two steps.                                           *)
(*                                                                         *)
(* Entries are named by their position in the journal, which is also the   *)
(* order of their timestamps.  The read pointer of an sd_journal handle    *)
(* stands on an entry or, after a seek, behind one without being on it; in *)
(* the follow loop the latter means that it is where seek_tail left it.    *)
(***************************************************************************)
EXTENDS Integers, Sequences

CONSTANTS
  Kind,          \* what entries carry: records of _SYSTEMD_UNIT and _PID
  Unit, Pid,     \* the units and PIDs a user asks for
  Instant,       \* the instants of --since: first entries not older than it
  None,          \* an absent option
  MaxEntries,    \* bound: entries ever in the journal
  MaxLimit,      \* bound of --lines (10000 in the code)
  Vacuums        \* may old entries be removed while the command runs?

ASSUME JournalAssumption ==
  /\ MaxEntries \in Nat
  /\ MaxLimit \in Nat \ {0}
  /\ Vacuums \in BOOLEAN
  /\ Instant \subseteq 1..(MaxEntries + 1)
  /\ None \notin Unit \cup Pid \cup Instant

VARIABLES
  journal,    \* every entry ever appended
  oldest,     \* entries before this one have been removed
  pc,         \* where the command is
  query,      \* its LogQuery
  filters,    \* the fields sd_journal_add_match was called for
  pos, on,    \* the read pointer: its entry, and whether it stands on it
  window,     \* the entries of the initial query, oldest first
  atSeek,     \* length of the journal when the initial query began; history
  unprinted,  \* how many of them are still to be printed
  printed,    \* what reached the output, in order
  guarded,    \* the SIGINT handler is installed
  requested,  \* InterruptGuard::requested_
  atSignal,   \* number of entries printed when SIGINT came; history
  outcome     \* how the command ended

journalVars == <<journal, oldest>>
queryVars == <<query, filters, atSeek>>
readVars == <<pos, on, window>>
printVars == <<unprinted, printed>>
signalVars == <<guarded, requested, atSignal>>
vars == <<journalVars, pc, queryVars, readVars, printVars, signalVars, outcome>>

Entry == 1..MaxEntries

\* LogQuery as the command line can fill it: --pid and --lines are range
\* checked there, a unit name is not ("malformed").
LogQuery == [follow : BOOLEAN,
             unit   : Unit \cup {None, "malformed"},
             pid    : Pid \cup {None},
             limit  : 1..MaxLimit,
             since  : Instant \cup {None}]

Ends == {"done", "killed"}

(* Type invariant. *)
TypeOK ==
  /\ journal \in Seq(Kind)
  /\ Len(journal) <= MaxEntries
  /\ oldest \in 1..(MaxEntries + 1)
  /\ pc \in {"install", "normalize", "open", "seek", "tail", "since",
             "position", "after", "check", "print", "next", "more", "wait",
             "interrupted"} \cup Ends
  /\ query \in LogQuery
  /\ filters \subseteq {"unit", "pid"}
  /\ pos \in 0..MaxEntries
  /\ on \in BOOLEAN
  /\ window \in Seq(Entry)
  /\ atSeek \in 0..MaxEntries
  /\ unprinted \in Nat
  /\ printed \in Seq(Entry)
  /\ guarded \in BOOLEAN
  /\ requested \in BOOLEAN
  /\ atSignal \in Int
  /\ outcome \in {"running", "Ok", "InvalidArgument", "OperationFailed",
                  "Unavailable", "IoError", "Conflict", "Interrupted"}

-----------------------------------------------------------------------------
(* libsystemd's view of the journal. *)

\* Entry e carries the wanted value of every field in fs.
Carries(e, fs) ==
  /\ "unit" \in fs => journal[e].unit = query.unit
  /\ "pid" \in fs => journal[e].pid = query.pid

Visible == {e \in oldest..Len(journal) : Carries(e, filters)}

\* sd_journal_next() and sd_journal_previous() go to e.
IsNext(e) ==
  /\ e \in Visible
  /\ e > pos
  /\ \A k \in Visible : k > pos => e <= k

IsPrevious(e) ==
  /\ e \in Visible
  /\ IF on THEN e < pos ELSE e <= pos
  /\ \A k \in Visible : (IF on THEN k < pos ELSE k <= pos) => k <= e

\* sd_journal_next() when seek_tail was the last seek: it does not wait for
\* what is appended behind the tail.  Since version 254 of libsystemd it finds
\* nothing and stays at the tail, before that it goes to the last match there
\* is, whenever that was appended.
IsLast(e) == e \in Visible /\ \A k \in Visible : k <= e

\* The seeks leave the pointer right behind entry e.
SeekBehind(e) ==
  /\ pos' = e
  /\ on' = FALSE

StepTo(e) ==
  /\ pos' = e
  /\ on' = TRUE

-----------------------------------------------------------------------------
Init ==
  /\ journal \in UNION {[1..n -> Kind] : n \in 0..MaxEntries}
  /\ oldest = 1
  /\ query \in LogQuery
  /\ pc = IF query.follow THEN "install" ELSE "normalize"
  /\ filters = {}
  /\ pos = 0
  /\ on = FALSE
  /\ window = <<>>
  /\ atSeek = 0
  /\ unprinted = 0
  /\ printed = <<>>
  /\ guarded = FALSE
  /\ requested = FALSE
  /\ atSignal = -1
  /\ outcome = "running"

\* The command returns; ~InterruptGuard restores the previous handler.
Finish(result) ==
  /\ pc' = "done"
  /\ outcome' = result
  /\ guarded' = FALSE
  /\ UNCHANGED <<requested, atSignal>>

Goto(label) ==
  /\ pc' = label
  /\ UNCHANGED <<outcome, signalVars>>

-----------------------------------------------------------------------------
(* The journal's writers, and SIGINT. *)

\* Nothing looks at the journal here: what it holds when it is opened is what
\* it holds initially.
Unopened == {"install", "normalize", "open"}

AppendEntry ==
  /\ pc \notin Unopened \cup Ends
  /\ Len(journal) < MaxEntries
  /\ \E e \in Kind : journal' = Append(journal, e)
  /\ UNCHANGED <<oldest, pc, queryVars, readVars, printVars, signalVars, outcome>>

Vacuum ==
  /\ Vacuums
  /\ pc \notin Unopened \cup Ends
  /\ oldest <= Len(journal)
  /\ oldest' = oldest + 1
  /\ UNCHANGED <<journal, pc, queryVars, readVars, printVars, signalVars, outcome>>

\* Without the handler SIGINT ends the process; with it, handle() sets
\* requested_, and a blocked sd_journal_wait returns -EINTR.
Sigint ==
  /\ pc \notin Ends
  /\ ~requested
  /\ IF guarded
       THEN /\ requested' = TRUE
            /\ atSignal' = Len(printed)
            /\ pc' = IF pc = "wait" THEN "interrupted" ELSE pc
       ELSE /\ pc' = "killed"
            /\ UNCHANGED <<requested, atSignal>>
  /\ UNCHANGED <<journalVars, queryVars, readVars, printVars, guarded, outcome>>

-----------------------------------------------------------------------------
(* From the command line to the initial query. *)

\* InterruptGuard::install: the flag is cleared before the handler is set.
InstallHandler ==
  /\ pc = "install"
  /\ \/ /\ pc' = "normalize"
        /\ requested' = FALSE
        /\ guarded' = TRUE
        /\ UNCHANGED <<atSignal, outcome>>
     \/ Finish("OperationFailed")
  /\ UNCHANGED <<journalVars, queryVars, readVars, printVars>>

\* LogService::normalize.
Normalize ==
  /\ pc = "normalize"
  /\ IF query.unit = "malformed" \/ (query.unit = None /\ query.pid = None)
       THEN Finish("InvalidArgument")
       ELSE Goto("open")
  /\ UNCHANGED <<journalVars, queryVars, readVars, printVars>>

\* SdJournal::openLocal and configureJournal: one match per given option.
OpenIgnoringPid ==
  /\ pc = "open"
  /\ \/ /\ filters' = {f \in {"unit"} : query[f] # None}
        /\ Goto("seek")
     \/ /\ Finish("Unavailable")
        /\ UNCHANGED filters
  /\ UNCHANGED <<journalVars, query, atSeek, readVars, printVars>>

Open ==
  /\ pc = "open"
  /\ \/ /\ filters' = {f \in {"unit", "pid"} : query[f] # None}
        /\ Goto("seek")
     \/ /\ Finish("Unavailable")
        /\ UNCHANGED filters
  /\ UNCHANGED <<journalVars, query, atSeek, readVars, printVars>>

\* The seeks of queryTail and querySince.
SeekPastSince ==
  /\ pc = "seek"
  /\ IF query.since = None
       THEN SeekBehind(Len(journal)) /\ Goto("tail")
       ELSE SeekBehind(query.since) /\ Goto("since")
  /\ atSeek' = Len(journal)
  /\ UNCHANGED <<journalVars, query, filters, window, printVars>>

Seek ==
  /\ pc = "seek"
  /\ IF query.since = None
       THEN SeekBehind(Len(journal)) /\ Goto("tail")
       ELSE SeekBehind(query.since - 1) /\ Goto("since")
  /\ atSeek' = Len(journal)
  /\ UNCHANGED <<journalVars, query, filters, window, printVars>>

\* The initial query is complete: read prints it, follow goes on.
Queried ==
  /\ IF query.follow
       THEN Goto("position") /\ UNCHANGED printVars
       ELSE Finish("Ok") /\ printed' = window /\ UNCHANGED unprinted
  /\ UNCHANGED <<journalVars, queryVars, readVars>>

TailEntry(e) ==
  /\ window' = <<e>> \o window
  /\ StepTo(e)
  /\ UNCHANGED <<journalVars, pc, queryVars, printVars, signalVars, outcome>>

\* One turn of queryTail's loop: back from the tail, up to the limit.
QueryTail ==
  /\ pc = "tail"
  /\ \/ \E e \in Visible :
          Len(window) < query.limit /\ IsPrevious(e) /\ TailEntry(e)
     \/ /\ Len(window) >= query.limit \/ \A e \in Visible : ~IsPrevious(e)
        /\ Queried

\* One turn of querySince's loop: forward from the instant to the end, in a
\* window that forgets its oldest entry when it outgrows the limit.
QuerySinceFirst ==
  /\ pc = "since"
  /\ \/ \E e \in Visible :
          /\ IsNext(e)
          /\ window' = IF Len(window) < query.limit THEN Append(window, e) ELSE window
          /\ StepTo(e)
          /\ UNCHANGED <<journalVars, pc, queryVars, printVars, signalVars, outcome>>
     \/ /\ \A e \in Visible : ~IsNext(e)
        /\ Queried

QuerySince ==
  /\ pc = "since"
  /\ \/ \E e \in Visible :
          /\ IsNext(e)
          /\ window' = IF Len(window) < query.limit
                         THEN Append(window, e)
                         ELSE Append(Tail(window), e)
          /\ StepTo(e)
          /\ UNCHANGED <<journalVars, pc, queryVars, printVars, signalVars, outcome>>
     \/ /\ \A e \in Visible : ~IsNext(e)
        /\ Queried

-----------------------------------------------------------------------------
(* SystemdJournalProvider::follow after its initial query. *)

\* positionAfterInitial seeks: the tail, or the last initial entry.
PositionAtTail ==
  /\ pc = "position"
  /\ SeekBehind(Len(journal))
  /\ Goto("check")
  /\ unprinted' = Len(window)
  /\ UNCHANGED <<journalVars, queryVars, window, printed>>

Position ==
  /\ pc = "position"
  /\ IF window = <<>>
       THEN SeekBehind(Len(journal)) /\ Goto("check")
       ELSE SeekBehind(window[Len(window)] - 1) /\ Goto("after")
  /\ unprinted' = Len(window)
  /\ UNCHANGED <<journalVars, queryVars, window, printed>>

\* ... and steps on the entry it finds there, whichever that is.
PositionNextDropped ==
  /\ pc = "after"
  /\ Goto("check")
  /\ UNCHANGED <<journalVars, queryVars, readVars, printVars>>

PositionNext ==
  /\ pc = "after"
  /\ \/ \E e \in Visible : IsNext(e) /\ StepTo(e) /\ Goto("check")
     \/ /\ \A e \in Visible : ~IsNext(e)
        /\ Finish("Conflict")
        /\ UNCHANGED <<pos, on>>
  /\ UNCHANGED <<journalVars, queryVars, window, printVars>>

\* The tests of stopRequested() before each initial entry and before each
\* turn of the outer loop.
CheckStop ==
  /\ pc = "check"
  /\ IF requested
       THEN Finish("Interrupted")
       ELSE Goto(IF unprinted > 0 THEN "print" ELSE "next")
  /\ UNCHANGED <<journalVars, queryVars, readVars, printVars>>

PrintInitial ==
  /\ pc = "print"
  /\ printed' = Append(printed, window[Len(window) - unprinted + 1])
  /\ unprinted' = unprinted - 1
  /\ Goto("check")
  /\ UNCHANGED <<journalVars, queryVars, readVars>>

\* One sd_journal_next of the inner loop, and the sink's call for its entry.
\* The pointer is still at the tail when the initial query found nothing.
FollowNext ==
  /\ pc = "next"
  /\ \/ \E e \in Visible :
          /\ IF on THEN IsNext(e) ELSE IsLast(e)
          /\ StepTo(e)
          /\ printed' = Append(printed, e)
          /\ Goto("more")
     \/ /\ on => \A e \in Visible : ~IsNext(e)
        /\ Goto("wait")
        /\ UNCHANGED <<pos, on, printed>>
  /\ UNCHANGED <<journalVars, queryVars, window, unprinted>>

\* The test of stopRequested() after a followed entry.
CheckMoreIgnoringStop ==
  /\ pc = "more"
  /\ Goto("next")
  /\ UNCHANGED <<journalVars, queryVars, readVars, printVars>>

CheckMore ==
  /\ pc = "more"
  /\ IF requested THEN Finish("Interrupted") ELSE Goto("next")
  /\ UNCHANGED <<journalVars, queryVars, readVars, printVars>>

\* sd_journal_wait returns: entries were appended, or its second is over.
WaitForAppend ==
  /\ pc = "wait"
  /\ \E e \in Visible : IsNext(e)
  /\ Goto("check")
  /\ UNCHANGED <<journalVars, queryVars, readVars, printVars>>

WaitUntilStop ==
  /\ pc = "wait"
  /\ Goto(IF requested THEN "check" ELSE "wait")
  /\ UNCHANGED <<journalVars, queryVars, readVars, printVars>>

WaitReturns ==
  /\ pc = "wait"
  /\ Goto("check")
  /\ UNCHANGED <<journalVars, queryVars, readVars, printVars>>

\* -EINTR, and stopRequested() holds.
WaitInterrupted ==
  /\ pc = "interrupted"
  /\ Finish("Interrupted")
  /\ UNCHANGED <<journalVars, queryVars, readVars, printVars>>

\* Any other negative status of a call into libsystemd ends the command;
\* -EINTR, which takes a signal, is reported as Interrupted, and every other
\* code of journalError stands for IoError.
JournalFails ==
  /\ pc \in {"seek", "tail", "since", "position", "after", "next", "wait"}
  /\ \/ Finish("IoError")
     \/ requested /\ Finish("Interrupted")
  /\ UNCHANGED <<journalVars, queryVars, readVars, printVars>>

-----------------------------------------------------------------------------
\* The command's thread.
Step ==
  \/ InstallHandler \/ Normalize \/ Open \/ Seek
  \/ QueryTail \/ QuerySince \/ Position \/ PositionNext \/ CheckStop
  \/ PrintInitial \/ FollowNext \/ CheckMore \/ WaitReturns
  \/ WaitInterrupted

Done == pc \in Ends /\ UNCHANGED vars

Next == Step \/ JournalFails \/ AppendEntry \/ Vacuum \/ Sigint \/ Done

Spec == Init /\ [][Next]_vars

\* The thread is scheduled, and sd_journal_wait gives up after a second; no
\* failure of libsystemd is relied on.
FairSpec == Spec /\ WF_vars(Step)

-----------------------------------------------------------------------------
(* Properties. *)

\* The fields the user asked for.
Wanted == {f \in {"unit", "pid"} : query[f] # None}

(* "combined filters use AND semantics": every printed entry carries the    *)
(* unit and the PID that were asked for.                                    *)
OnlyMatching == \A i \in 1..Len(printed) : Carries(printed[i], Wanted)

(* Entries are printed in journal order and none twice, across the seam     *)
(* between the initial query and the follow loop, whatever is appended or   *)
(* removed around it.                                                       *)
InOrder == \A i, j \in 1..Len(printed) : i < j => printed[i] < printed[j]

\* Matching entries the output passed over.
Skipped ==
  {k \in 1..Len(journal) :
     /\ Carries(k, Wanted)
     /\ \E i, j \in 1..Len(printed) : printed[i] < k /\ k < printed[j]
     /\ \A i \in 1..Len(printed) : printed[i] # k}

(* As long as nothing is removed from the journal, the output has no hole:  *)
(* an entry appended between the initial query and the first followed one   *)
(* is printed.                                                              *)
NoHole == oldest = 1 => Skipped = {}

\* The initial query has been made.
HasQueried ==
  \/ pc \in {"position", "after", "check", "print", "next", "more", "wait"}
  \/ outcome = "Ok"

(* The initial query gives the newest matching entries, not older than      *)
(* --since, and no more than --lines of them: an entry that was there when  *)
(* it began and still is can be missing only because --lines newer ones     *)
(* were given.                                                              *)
InitialIsRecent ==
  HasQueried =>
    /\ Len(window) <= query.limit
    /\ \A k \in oldest..atSeek :
         (/\ Carries(k, Wanted)
          /\ query.since = None \/ query.since <= k
          /\ \A i \in 1..Len(window) : window[i] # k)
         => Len(window) = query.limit /\ k < window[1]

(* Ctrl-C is noticed before a second entry is printed, however fast the     *)
(* journal grows.                                                           *)
AtMostOneAfterStop == requested => Len(printed) <= atSignal + 1

(* A follow that was asked to stop ends: a SIGINT that falls between the    *)
(* test of the flag and sd_journal_wait is noticed when the wait is over.   *)
StopEnds == requested ~> pc \in Ends

\* Entry e lies ahead of a follow that has printed its initial entries.
ToCome(e) == pc \in {"next", "more", "wait"} /\ e \in Visible /\ e > pos

\* It was printed, or the follow ended or the entry was removed first.
Arrived(e) == (\E i \in 1..Len(printed) : printed[i] = e) \/ pc \in Ends \/ e < oldest

(* Once a follow has printed something, what is appended is printed too,    *)
(* unless the follow ends or the entry is removed first.                    *)
EntriesArrive == \A e \in Entry : (ToCome(e) /\ printed # <<>>) ~> Arrived(e)

(* "Follow mode prints the same initial recent entries, then waits": what   *)
(* is appended is printed, whether or not the initial query found entries.  *)
(* After an empty query positionAfterInitial leaves the pointer at the      *)
(* tail, from where sd_journal_next() does not reach appended entries.      *)
NewEntriesArrive == \A e \in Entry : ToCome(e) ~> Arrived(e)

(* "Initial journal cursor disappeared before follow": the follow passes    *)
(* over an entry only when the entry itself is gone from the journal.       *)
LostCursorReported == \A k \in Skipped : k < oldest

=============================================================================
