---------------------------- MODULE DumpContract ----------------------------
(***************************************************************************)
(* What a socket query promises its callers (PortService::inspect, and     *)
(* through it `port`, `port free`, `inspect`, `find` and the dashboard):   *)
(* one dump per protocol and family, in order, and each of them is         *)
(* complete, lost with a warning, or cut short by the kernel.  The third   *)
(* outcome, a dump that is only partly there and has no warning, is kept   *)
(* apart: it is for dumps the kernel reports as failed in the status of    *)
(* NLMSG_DONE and for no others.  No socket is reported under another      *)
(* dump's protocol.  The query fails only when every dump is lost.         *)
(***************************************************************************)
EXTENDS Naturals

VARIABLES
  asked,     \* the dumps of the query, a set of numbers
  truth,     \* truth[k]: what a complete dump k contributes
  over,      \* dumps that are over
  gone,      \* dumps that were lost
  cut,       \* dumps the kernel cut short
  report,    \* what the query reports
  verdict    \* "none" until the query returns

contractVars == <<asked, truth, over, gone, cut, report, verdict>>

ContractInit ==
  /\ asked = {} /\ truth = <<>> /\ over = {} /\ gone = {} /\ cut = {} /\ report = {}
  /\ verdict = "none"

\* The query is made: which dumps, of which sockets, is up to the caller and
\* the kernel.
Ask ==
  /\ asked = {} /\ asked' # {}
  /\ UNCHANGED <<over, gone, cut, report, verdict>>

DumpOver(k) ==
  /\ k \in asked \ over
  /\ \A j \in asked \ over : k <= j
  /\ over' = over \cup {k}
  /\ \/ report' = report \cup truth[k] /\ UNCHANGED <<gone, cut>>
     \/ gone' = gone \cup {k} /\ UNCHANGED <<report, cut>>
     \/ /\ cut' = cut \cup {k} /\ UNCHANGED gone
        /\ \E part \in SUBSET truth[k] : report' = report \cup part
  /\ UNCHANGED <<asked, truth, verdict>>

Return ==
  /\ verdict = "none"
  /\ asked # {} /\ over = asked
  /\ verdict' = IF gone = asked THEN "error" ELSE "ok"
  /\ UNCHANGED <<asked, truth, over, gone, cut, report>>

\* The socket itself could not be opened: there is no dump at all.
Refuse ==
  /\ verdict = "none" /\ asked # {} /\ over = {}
  /\ verdict' = "error"
  /\ UNCHANGED <<asked, truth, over, gone, cut, report>>

ContractNext == Ask \/ (\E k \in asked : DumpOver(k)) \/ Return \/ Refuse

ContractSpec == ContractInit /\ [][ContractNext]_contractVars

=============================================================================
