---------------------------- MODULE NetlinkDump -----------------------------
(***************************************************************************)
(* NetlinkSocketProvider::query over one NETLINK_SOCK_DIAG socket, with    *)
(* the INET_DIAG codec and NetlinkSocket under it.                         *)
(*                                                                         *)
(* All dumps of a query share the socket.  A dump that fails before its    *)
(* last datagram was read leaves the rest of its answer in the receive     *)
(* queue, where the next dump finds it: only the sequence number of each   *)
(* message tells the answers apart, since an INET_DIAG message does not    *)
(* say which protocol it is about.                                         *)
(***************************************************************************)
EXTENDS Naturals, Sequences

CONSTANTS
  Sockets,       \* the sockets of the host
  DumpOf,        \* DumpOf[s]: the dump that reports s, see DumpNos
  Connected,     \* sockets with a remote endpoint
  OnPort,        \* sockets bound to the port asked for
  MaxDatagrams,  \* bound: datagrams in one answer
  DumpFaults     \* which of DumpFaultKinds can happen

\* TCP/IPv4, TCP/IPv6, UDP/IPv4, UDP/IPv6: the order of the two loops.
DumpNos == 1..4

Protocol(k) == IF k <= 2 THEN "tcp" ELSE "udp"

DumpFaultKinds ==
  {"open", "send", "receive", "malformed", "refused", "interrupted", "failed"}

ASSUME DumpAssumption ==
  /\ DumpOf \in [Sockets -> DumpNos]
  /\ Connected \subseteq Sockets
  /\ OnPort \subseteq Sockets
  /\ MaxDatagrams \in Nat \ {0}
  /\ DumpFaults \subseteq DumpFaultKinds

VARIABLES
  dumpPc,    \* where query() is
  query,     \* the SocketQuery, with the dumps it needs
  seq,       \* sequence number of the dump in progress, 0 before the first
  inbox,     \* the socket's receive queue
  batch,     \* sockets of the dump in progress read so far
  found,     \* observed.value: sockets, each with the protocol it is listed under
  lost,      \* dumps that ended in a warning
  short,     \* history: dumps read as complete although the kernel's dump failed
  answer     \* how query() ended

dumpVars == <<dumpPc, query, seq, inbox, batch, found, lost, short, answer>>

Ranges == {<<1, 4>>, <<1, 2>>, <<3, 4>>}

Queries ==
  {q \in [first : {1, 3}, last : {2, 4}, listeningOnly : BOOLEAN, byPort : BOOLEAN] :
     <<q.first, q.last>> \in Ranges}

\* "failed": NLMSG_DONE with the error the kernel's dump ended with.
Endings == {"more", "done", "failed", "interrupted", "refused", "malformed"}

Datagram == [seq : DumpNos, socks : SUBSET Sockets, end : Endings]

\* The dump that has sequence number n.
DumpNo(n) == query.first + n - 1

Asked == query.first .. query.last

\* The last filter of dump k: connected UDP sockets, and other ports.
Keep(s, k) ==
  /\ ~(Protocol(k) = "udp" /\ query.listeningOnly /\ s \in Connected)
  /\ query.byPort => s \in OnPort

(* Type invariant. *)
DumpTypeOK ==
  /\ dumpPc \in {"idle", "open", "send", "receive", "collect", "return", "over"}
  /\ query \in Queries
  /\ seq \in 0..5
  /\ inbox \in Seq(Datagram)
  /\ batch \in SUBSET Sockets
  /\ found \in SUBSET (Sockets \X {"tcp", "udp"})
  /\ lost \in SUBSET DumpNos
  /\ short \in SUBSET DumpNos
  /\ answer \in {"none", "ok", "error"}

DumpInit ==
  /\ dumpPc = "idle"
  /\ query = [first |-> 1, last |-> 4, listeningOnly |-> FALSE, byPort |-> FALSE]
  /\ seq = 0 /\ inbox = <<>> /\ batch = {}
  /\ found = {} /\ lost = {} /\ short = {} /\ answer = "none"

-----------------------------------------------------------------------------

\* query() is called: all protocols, or one.
Query ==
  /\ dumpPc = "idle"
  /\ dumpPc' = "open"
  /\ query' \in Queries
  /\ UNCHANGED <<seq, inbox, batch, found, lost, short, answer>>

\* NetlinkSocket::open().
Open ==
  /\ dumpPc = "open"
  /\ \/ dumpPc' = "send" /\ seq' = 1 /\ UNCHANGED answer
     \/ /\ "open" \in DumpFaults
        /\ dumpPc' = "over" /\ answer' = "error" /\ UNCHANGED seq
  /\ UNCHANGED <<query, inbox, batch, found, lost, short>>

\* The dump in progress failed: a warning, and on to the next one.
GiveUp ==
  /\ lost' = lost \cup {DumpNo(seq)}
  /\ seq' = seq + 1
  /\ dumpPc' = IF DumpNo(seq) = query.last THEN "return" ELSE "send"
  /\ batch' = {}
  /\ UNCHANGED <<query, found, short, answer>>

\* The kernel's answers to dump k: its sockets spread over some datagrams.
\* Only an answer that ends with DONE and no error is complete: it may be
\* refused at once, interrupted, or end early with DONE and the error of the
\* kernel's dump (no module for the protocol, no memory), which makes a
\* difference if a socket is missing.  What a datagram the codec rejects
\* carries makes none.
Answers(k) ==
  {r \in UNION {[1..n -> [seq : {seq}, socks : SUBSET {s \in Sockets : DumpOf[s] = k},
                          end : Endings]] : n \in 1..MaxDatagrams} :
     /\ \A j \in 1..Len(r) :
          r[j].end \in (IF j = Len(r) THEN {"done", "failed", "interrupted", "refused"}
                                       ELSE {"more", "malformed"})
     /\ \A j \in 1..Len(r) :
          /\ r[j].end \in {"more", "done"} \cup DumpFaults
          /\ r[j].end \notin {"more", "done", "failed"} => r[j].socks = {}
          /\ \A i \in 1..(j - 1) : r[i].socks \cap r[j].socks = {}
     /\ r[Len(r)].end = "done" =>
          \A s \in Sockets : DumpOf[s] = k => \E j \in 1..Len(r) : s \in r[j].socks
     /\ r[Len(r)].end = "failed" =>
          \E s \in Sockets : DumpOf[s] = k /\ \A j \in 1..Len(r) : s \notin r[j].socks}

\* NetlinkSocket::send(); the kernel answers.
Send ==
  /\ dumpPc = "send"
  /\ \/ /\ \E r \in Answers(DumpNo(seq)) : inbox' = inbox \o r
        /\ dumpPc' = "receive"
        /\ UNCHANGED <<query, seq, batch, found, lost, short, answer>>
     \/ "send" \in DumpFaults /\ GiveUp /\ UNCHANGED inbox

\* NetlinkSocket::receive() and parseInetDiagDatagram(): every message must
\* bear the sequence number of the dump; DONE ends it, unless the dump was
\* interrupted, and the status DONE carries is not read; an error answer, a
\* malformed message or an overrun is an error.
ParseAnySequence(d) ==
  CASE d.end \in {"interrupted", "refused", "malformed"} -> "error"
    [] d.end = "failed" -> "done"
    [] OTHER -> d.end

Parse(d) == IF d.seq = seq THEN ParseAnySequence(d) ELSE "error"

ReceiveAfterDone ==
  /\ dumpPc = "receive"
  /\ inbox # <<>>
  /\ inbox' = Tail(inbox)
  /\ IF Parse(Head(inbox)) = "error" THEN GiveUp
     ELSE /\ batch' = batch \cup Head(inbox).socks
          /\ UNCHANGED <<dumpPc, query, seq, found, lost, short, answer>>

Receive ==
  /\ dumpPc = "receive"
  /\ inbox # <<>>
  /\ inbox' = Tail(inbox)
  /\ IF Parse(Head(inbox)) = "error" THEN GiveUp
     ELSE /\ batch' = batch \cup Head(inbox).socks
          /\ dumpPc' = IF Parse(Head(inbox)) = "done" THEN "collect" ELSE "receive"
          /\ short' = IF Head(inbox).end = "failed" THEN short \cup {DumpNo(seq)} ELSE short
          /\ UNCHANGED <<query, seq, found, lost, answer>>

\* recv() fails, for instance because the queue overflowed (ENOBUFS): what is
\* queued stays queued.
ReceiveFails ==
  /\ dumpPc = "receive"
  /\ "receive" \in DumpFaults
  /\ GiveUp
  /\ UNCHANGED inbox

\* The dump is taken for complete: its sockets are filtered and listed.
Collect ==
  /\ dumpPc = "collect"
  /\ found' = found \cup ({s \in batch : Keep(s, DumpNo(seq))} \X {Protocol(DumpNo(seq))})
  /\ seq' = seq + 1
  /\ dumpPc' = IF DumpNo(seq) = query.last THEN "return" ELSE "send"
  /\ batch' = {}
  /\ UNCHANGED <<query, inbox, lost, short, answer>>

\* query() fails only if every dump did.
ReturnQuery ==
  /\ dumpPc = "return"
  /\ dumpPc' = "over"
  /\ answer' = IF lost = Asked THEN "error" ELSE "ok"
  /\ UNCHANGED <<query, seq, inbox, batch, found, lost, short>>

DumpNext == Query \/ Open \/ Send \/ Receive \/ ReceiveFails \/ Collect \/ ReturnQuery

DumpSpec == DumpInit /\ [][DumpNext]_dumpVars

-----------------------------------------------------------------------------

(* query() never waits on an empty receive queue: whatever earlier dumps   *)
(* left behind or consumed, the datagram that ends the dump in progress,   *)
(* with a result or with an error, is still to come (there is no timeout   *)
(* on recv()).                                                             *)
NeverStarved == dumpPc = "receive" => inbox # <<>>

\* What a complete dump k contributes.
Entitled(k) ==
  {s \in Sockets : DumpOf[s] = k /\ Keep(s, k)} \X {Protocol(k)}

(* NetlinkSocketProvider::query implements its contract: every dump of the *)
(* query is complete or has a warning, unless the kernel itself ended it   *)
(* with an error inside NLMSG_DONE; such a dump adds some of its sockets   *)
(* and no others.  So what a failed dump left in the queue is never taken  *)
(* for the answer of a later one, and no socket is listed under a protocol *)
(* that is not its own.                                                    *)
Contract == INSTANCE DumpContract WITH
  asked   <- IF dumpPc = "idle" THEN {} ELSE Asked,
  truth   <- IF dumpPc = "idle" THEN <<>> ELSE [k \in DumpNos |-> Entitled(k)],
  over    <- {k \in Asked : k < query.first + seq - 1},
  gone    <- lost,
  cut     <- {k \in short : k < query.first + seq - 1},
  report  <- found,
  verdict <- answer

DumpsCompleteOrWarned == Contract!ContractSpec

(* A query that succeeds reports every socket of every dump without a      *)
(* warning, as the documented validation of multipart responses has it.    *)
(* The codec takes any NLMSG_DONE for the end of a complete dump and never *)
(* reads the status in it.                                                 *)
NothingMissing ==
  answer = "ok" => \A k \in Asked \ lost : Entitled(k) \subseteq found

=============================================================================
