-------------------------- MODULE NetlinkDumpProofs --------------------------
(***************************************************************************)
(* Proofs about the socket query, for any number of sockets and datagrams  *)
(* and every set of faults: it never waits for an answer that is not       *)
(* coming, and it implements DumpContract.                                 *)
(***************************************************************************)
EXTENDS NetlinkDump, SequenceTheorems, TLAPS

\* How the last datagram of an answer ends.
Final == {"done", "failed", "interrupted", "refused"}

SocketsOf(k) == {s \in Sockets : DumpOf[s] = k}

Dumping == {"send", "receive", "collect"}

\* Where the query is determines which dump is in progress and whether it has
\* been answered.
PlaceInv ==
  /\ dumpPc \in {"idle", "open"} => seq = 0 /\ found = {} /\ lost = {} /\ short = {}
  /\ dumpPc \in Dumping => seq >= 1 /\ DumpNo(seq) <= query.last
  /\ dumpPc = "return" => DumpNo(seq) = query.last + 1
  /\ dumpPc # "over" => answer = "none"
  /\ dumpPc \notin {"receive", "collect"} => batch = {}
  /\ dumpPc \in {"send", "receive", "return"} => \A k \in short : k < DumpNo(seq)
  /\ dumpPc = "collect" => \A k \in short : k <= DumpNo(seq)

\* What is queued was sent for this dump or for an earlier one.
QueueInv ==
  \A j \in 1..Len(inbox) :
    inbox[j].seq <= seq /\ (dumpPc = "send" => inbox[j].seq < seq)

\* While a dump is being read, the end of its answer is the end of the queue,
\* and what is missing of its sockets is still in the queue.
AnswerInv ==
  dumpPc = "receive" =>
    /\ Len(inbox) > 0
    /\ inbox[Len(inbox)].seq = seq /\ inbox[Len(inbox)].end \in Final
    /\ \A j \in 1..(Len(inbox) - 1) : inbox[j].seq = seq => inbox[j].end \notin Final
    /\ \A j \in 1..Len(inbox) :
         inbox[j].seq = seq => inbox[j].socks \subseteq SocketsOf(DumpNo(seq))
    /\ batch \subseteq SocketsOf(DumpNo(seq))
    /\ inbox[Len(inbox)].end = "done" =>
         \A s \in SocketsOf(DumpNo(seq)) :
           s \in batch \/ \E j \in 1..Len(inbox) : inbox[j].seq = seq /\ s \in inbox[j].socks

\* A dump that is collected is complete, unless the kernel cut it short.
CollectInv ==
  dumpPc = "collect" =>
    /\ batch \subseteq SocketsOf(DumpNo(seq))
    /\ DumpNo(seq) \notin short => batch = SocketsOf(DumpNo(seq))

DumpInv == PlaceInv /\ QueueInv /\ AnswerInv /\ CollectInv

LEMMA QueryType ==
  DumpTypeOK => /\ query.first \in {1, 3} /\ query.last \in {2, 4}
                /\ query.first < query.last
BY DEF DumpTypeOK, Queries, Ranges

LEMMA FunctionIsSeq ==
  ASSUME NEW E, NEW n \in Nat, NEW r \in [1..n -> E]
  PROVE  r \in Seq(E) /\ Len(r) = n
OBVIOUS

LEMMA ParseResult ==
  ASSUME NEW d, Parse(d) # "error"
  PROVE  /\ d.seq = seq /\ d.end \notin {"interrupted", "refused", "malformed"}
         /\ Parse(d) = IF d.end = "failed" THEN "done" ELSE d.end
<1>1. d.seq = seq
  BY DEF Parse
<1>2. d.end \notin {"interrupted", "refused", "malformed"}
  BY <1>1 DEF Parse, ParseAnySequence
<1>3. QED
  BY <1>1, <1>2 DEF Parse, ParseAnySequence

LEMMA AnswerType ==
  ASSUME DumpTypeOK, seq \in DumpNos, NEW k \in DumpNos, NEW r \in Answers(k)
  PROVE  /\ r \in Seq(Datagram) /\ Len(r) > 0
         /\ \A j \in 1..Len(r) : r[j].seq = seq /\ r[j].socks \subseteq SocketsOf(k)
         /\ r[Len(r)].end \in Final
         /\ \A j \in 1..(Len(r) - 1) : r[j].end \notin Final
         /\ r[Len(r)].end = "done" =>
              \A s \in SocketsOf(k) : \E j \in 1..Len(r) : s \in r[j].socks
<1> DEFINE D == [seq : {seq}, socks : SUBSET {s \in Sockets : DumpOf[s] = k}, end : Endings]
<1>1. PICK n \in 1..MaxDatagrams : r \in [1..n -> D]
  BY DEF Answers
<1>2. D \subseteq Datagram
  BY DEF Datagram
<1>3. r \in Seq(D) /\ Len(r) = n /\ n \in Nat \ {0}
  <2>1. n \in Nat \ {0}
    BY DumpAssumption
  <2>2. QED
    BY <1>1, <2>1, FunctionIsSeq
<1>4. r \in Seq(Datagram)
  BY <1>2, <1>3, SeqMonotonic
<1>5. \A j \in 1..Len(r) : r[j] \in D
  BY <1>1, <1>3
<1>6. \A j \in 1..Len(r) : r[j].seq = seq /\ r[j].socks \subseteq SocketsOf(k)
  BY <1>5 DEF SocketsOf
<1>7. \A j \in 1..Len(r) :
        r[j].end \in (IF j = Len(r) THEN {"done", "failed", "interrupted", "refused"}
                                     ELSE {"more", "malformed"})
  BY DEF Answers
<1>8. r[Len(r)].end = "done" =>
        \A s \in Sockets : DumpOf[s] = k => \E j \in 1..Len(r) : s \in r[j].socks
  BY DEF Answers
<1>9. r[Len(r)].end \in Final /\ \A j \in 1..(Len(r) - 1) : r[j].end \notin Final
  BY <1>3, <1>7 DEF Final
<1>10. QED
  BY <1>3, <1>4, <1>6, <1>8, <1>9 DEF SocketsOf

-----------------------------------------------------------------------------
(* Types. *)

LEMMA DumpTypeInit == DumpInit => DumpTypeOK
<1> SUFFICES ASSUME DumpInit PROVE DumpTypeOK
  OBVIOUS
<1>1. query \in Queries
  BY DEF DumpInit, Queries, Ranges
<1>2. inbox \in Seq(Datagram)
  BY DEF DumpInit
<1>3. QED
  BY <1>1, <1>2 DEF DumpInit, DumpTypeOK

\* The dump in progress is one of the four.
LEMMA CurrentDump ==
  ASSUME DumpTypeOK, PlaceInv, dumpPc \in Dumping
  PROVE  /\ seq \in DumpNos /\ DumpNo(seq) \in DumpNos /\ DumpNo(seq) \in Asked
         /\ seq \in Nat /\ query.first \in Nat /\ query.last \in Nat
BY QueryType DEF DumpTypeOK, PlaceInv, DumpNo, DumpNos, Asked

LEMMA GiveUpType ==
  ASSUME DumpTypeOK, PlaceInv, dumpPc \in Dumping, GiveUp, inbox' \in Seq(Datagram)
  PROVE  DumpTypeOK'
<1>1. seq \in DumpNos /\ DumpNo(seq) \in DumpNos
  BY CurrentDump
<1>2. seq' \in 0..5
  BY <1>1 DEF GiveUp, DumpNos
<1>3. lost' \in SUBSET DumpNos
  BY <1>1 DEF GiveUp, DumpTypeOK
<1>4. QED
  BY <1>2, <1>3 DEF GiveUp, DumpTypeOK

LEMMA DumpTypeNext == DumpTypeOK /\ PlaceInv /\ [DumpNext]_dumpVars => DumpTypeOK'
<1> SUFFICES ASSUME DumpTypeOK, PlaceInv, [DumpNext]_dumpVars PROVE DumpTypeOK'
  OBVIOUS
<1>1. CASE Query
  BY <1>1 DEF Query, DumpTypeOK
<1>2. CASE Open
  BY <1>2 DEF Open, DumpTypeOK
<1>3. CASE Send
  <2>1. CASE GiveUp /\ UNCHANGED inbox
    BY <1>3, <2>1, GiveUpType DEF Send, DumpTypeOK, Dumping
  <2>2. CASE /\ \E r \in Answers(DumpNo(seq)) : inbox' = inbox \o r
             /\ dumpPc' = "receive"
             /\ UNCHANGED <<query, seq, batch, found, lost, short, answer>>
    <3>1. PICK r \in Answers(DumpNo(seq)) : inbox' = inbox \o r
      BY <2>2
    <3>2. r \in Seq(Datagram)
      BY <1>3, CurrentDump, AnswerType DEF Send, Dumping
    <3>3. inbox' \in Seq(Datagram)
      BY <3>1, <3>2, ConcatProperties DEF DumpTypeOK
    <3>4. QED
      BY <2>2, <3>3 DEF DumpTypeOK
  <2>3. QED
    BY <1>3, <2>1, <2>2 DEF Send
<1>4. CASE Receive
  <2>1. Head(inbox) \in Datagram /\ inbox' \in Seq(Datagram)
    BY <1>4, HeadTailProperties DEF Receive, DumpTypeOK
  <2>2. CASE GiveUp
    BY <1>4, <2>1, <2>2, GiveUpType DEF Receive, Dumping
  <2>3. CASE ~GiveUp
    <3>1. batch' \in SUBSET Sockets
      BY <1>4, <2>1, <2>3 DEF Receive, Datagram, DumpTypeOK
    <3>2. short' \in SUBSET DumpNos
      BY <1>4, <2>3, CurrentDump DEF Receive, DumpTypeOK, Dumping
    <3>3. QED
      BY <1>4, <2>1, <2>3, <3>1, <3>2 DEF Receive, DumpTypeOK
  <2>4. QED
    BY <2>2, <2>3
<1>5. CASE ReceiveFails
  BY <1>5, GiveUpType DEF ReceiveFails, DumpTypeOK, Dumping
<1>6. CASE Collect
  <2>1. seq' \in 0..5 /\ found' \in SUBSET (Sockets \X {"tcp", "udp"})
    <3>1. seq \in DumpNos
      BY <1>6, CurrentDump DEF Collect, Dumping
    <3>2. Protocol(DumpNo(seq)) \in {"tcp", "udp"}
      BY DEF Protocol
    <3>3. QED
      BY <1>6, <3>1, <3>2 DEF Collect, DumpTypeOK, DumpNos
  <2>2. QED
    BY <1>6, <2>1 DEF Collect, DumpTypeOK
<1>7. CASE ReturnQuery
  BY <1>7 DEF ReturnQuery, DumpTypeOK
<1>8. CASE UNCHANGED dumpVars
  BY <1>8 DEF dumpVars, DumpTypeOK
<1>9. QED
  BY <1>1, <1>2, <1>3, <1>4, <1>5, <1>6, <1>7, <1>8 DEF DumpNext

-----------------------------------------------------------------------------
(* The invariant. *)

LEMMA DumpInvInit == DumpInit => DumpInv
BY DEF DumpInit, DumpInv, PlaceInv, QueueInv, AnswerInv, CollectInv, Dumping

\* The next dump, or the end of the query, after the dump in progress.
LEMMA NextDump ==
  ASSUME DumpTypeOK, DumpInv, dumpPc \in Dumping, seq' = seq + 1, batch' = {},
         dumpPc' = IF DumpNo(seq) = query.last THEN "return" ELSE "send",
         UNCHANGED <<query, short, answer>>,
         inbox' \in Seq(Datagram),
         \A j \in 1..Len(inbox') : inbox'[j].seq <= seq
  PROVE  DumpInv'
<1>1. PlaceInv'
  <2>1. /\ seq \in Nat /\ query.first \in Nat /\ query.last \in Nat
        /\ seq >= 1 /\ query.first + seq - 1 <= query.last
    BY CurrentDump DEF DumpInv, PlaceInv, DumpNo
  <2>2. answer' = "none"
    BY DEF DumpInv, PlaceInv, Dumping
  <2>3. \A k \in short' : k < DumpNo(seq)'
    <3>1. \A k \in short : k <= DumpNo(seq) /\ k \in Nat
      BY CurrentDump DEF DumpTypeOK, DumpInv, PlaceInv, Dumping, DumpNos
    <3>2. QED
      BY <2>1, <3>1 DEF DumpNo
  <2>4. /\ dumpPc' = "send" => seq' >= 1 /\ DumpNo(seq)' <= query'.last
        /\ dumpPc' = "return" => DumpNo(seq)' = query'.last + 1
        /\ dumpPc' \in {"send", "return"}
    <3>1. DumpNo(seq)' = query.first + seq /\ DumpNo(seq) = query.first + seq - 1 /\ query' = query
      BY <2>1 DEF DumpNo
    <3>2. seq' >= 1
      BY <2>1
    <3>3. CASE DumpNo(seq) = query.last
      <4>1. dumpPc' = "return"
        BY <3>3
      <4>2. query.first + seq = query.last + 1
        BY <2>1, <3>1, <3>3
      <4>3. QED
        BY <3>1, <4>1, <4>2
    <3>4. CASE DumpNo(seq) # query.last
      <4>1. dumpPc' = "send"
        BY <3>4
      <4>2. query.first + seq <= query.last
        BY <2>1, <3>1, <3>4
      <4>3. QED
        BY <3>1, <3>2, <4>1, <4>2
    <3>5. QED
      BY <3>3, <3>4
  <2>5. QED
    BY <2>2, <2>3, <2>4 DEF PlaceInv, Dumping
<1>2. QueueInv'
  <2>1. seq \in Nat
    BY CurrentDump DEF DumpInv
  <2>2. \A j \in 1..Len(inbox') : inbox'[j] \in Datagram
    BY ElementOfSeq
  <2>3. \A j \in 1..Len(inbox') : inbox'[j].seq \in Nat
    BY <2>2 DEF Datagram, DumpNos
  <2>4. QED
    BY <2>1, <2>3 DEF QueueInv
<1>3. AnswerInv' /\ CollectInv'
  BY DEF AnswerInv, CollectInv
<1>4. QED
  BY <1>1, <1>2, <1>3 DEF DumpInv

LEMMA SendStep ==
  ASSUME DumpTypeOK, DumpInv, dumpPc = "send", NEW r \in Answers(DumpNo(seq)),
         inbox' = inbox \o r, dumpPc' = "receive",
         UNCHANGED <<query, seq, batch, found, lost, short, answer>>
  PROVE  DumpInv'
<1>1. seq \in DumpNos /\ DumpNo(seq) \in DumpNos /\ seq \in Nat
  BY CurrentDump DEF DumpInv, Dumping
<1>2. /\ r \in Seq(Datagram) /\ Len(r) > 0 /\ Len(r) \in Nat
      /\ \A j \in 1..Len(r) : r[j].seq = seq /\ r[j].socks \subseteq SocketsOf(DumpNo(seq))
      /\ r[Len(r)].end \in Final
      /\ \A j \in 1..(Len(r) - 1) : r[j].end \notin Final
      /\ r[Len(r)].end = "done" =>
           \A s \in SocketsOf(DumpNo(seq)) : \E j \in 1..Len(r) : s \in r[j].socks
  BY <1>1, AnswerType, LenProperties
<1>3. inbox \in Seq(Datagram) /\ Len(inbox) \in Nat
  BY LenProperties DEF DumpTypeOK
<1>4. /\ Len(inbox') = Len(inbox) + Len(r)
      /\ \A i \in 1..Len(inbox') :
           inbox'[i] = IF i <= Len(inbox) THEN inbox[i] ELSE r[i - Len(inbox)]
  BY <1>2, <1>3, ConcatProperties
<1>5. \A i \in 1..Len(inbox) : inbox[i].seq < seq /\ inbox[i].seq \in Nat
  <2>1. \A i \in 1..Len(inbox) : inbox[i] \in Datagram
    BY <1>3, ElementOfSeq
  <2>2. QED
    BY <2>1 DEF DumpInv, QueueInv, Datagram, DumpNos
<1>6. \A i \in 1..Len(inbox') :
        \/ i \in 1..Len(inbox) /\ inbox'[i] = inbox[i] /\ inbox'[i].seq < seq
        \/ i - Len(inbox) \in 1..Len(r) /\ inbox'[i] = r[i - Len(inbox)] /\ inbox'[i].seq = seq
  BY <1>2, <1>3, <1>4, <1>5
<1>7. \A j \in 1..Len(r) :
        Len(inbox) + j \in 1..Len(inbox') /\ inbox'[Len(inbox) + j] = r[j]
  BY <1>2, <1>3, <1>4
<1>8. PlaceInv'
  BY DEF DumpInv, PlaceInv, Dumping, DumpNo
<1>9. QueueInv'
  BY <1>1, <1>5, <1>6 DEF QueueInv
<1>10. AnswerInv'
  <2>1. DumpNo(seq)' = DumpNo(seq) /\ SocketsOf(DumpNo(seq))' = SocketsOf(DumpNo(seq))
    BY DEF DumpNo, SocketsOf
  <2>2. Len(inbox') > 0 /\ inbox'[Len(inbox')] = r[Len(r)] /\ Len(r) \in 1..Len(r)
    BY <1>2, <1>3, <1>4, <1>7
  <2>3. \A j \in 1..(Len(inbox') - 1) : inbox'[j].seq = seq => inbox'[j].end \notin Final
    <3>1. SUFFICES ASSUME NEW j \in 1..(Len(inbox') - 1), inbox'[j].seq = seq
                   PROVE  inbox'[j].end \notin Final
      OBVIOUS
    <3>2. j - Len(inbox) \in 1..Len(r) /\ inbox'[j] = r[j - Len(inbox)]
      BY <1>1, <1>2, <1>3, <1>4, <1>6, <3>1
    <3>3. j - Len(inbox) \in 1..(Len(r) - 1)
      BY <1>2, <1>3, <1>4, <3>2
    <3>4. QED
      BY <1>2, <3>2, <3>3
  <2>4. \A j \in 1..Len(inbox') :
          inbox'[j].seq = seq => inbox'[j].socks \subseteq SocketsOf(DumpNo(seq))
    <3>1. SUFFICES ASSUME NEW j \in 1..Len(inbox'), inbox'[j].seq = seq
                   PROVE  inbox'[j].socks \subseteq SocketsOf(DumpNo(seq))
      OBVIOUS
    <3>2. j - Len(inbox) \in 1..Len(r) /\ inbox'[j] = r[j - Len(inbox)]
      BY <1>1, <1>6, <3>1
    <3>3. QED
      BY <1>2, <3>2
  <2>5. batch' = {}
    BY DEF DumpInv, PlaceInv
  <2>6. ASSUME r[Len(r)].end = "done", NEW s \in SocketsOf(DumpNo(seq))
        PROVE  \E j \in 1..Len(inbox') : inbox'[j].seq = seq /\ s \in inbox'[j].socks
    <3>1. PICK j \in 1..Len(r) : s \in r[j].socks
      BY <1>2, <2>6
    <3>2. QED
      BY <1>2, <1>7, <3>1
  <2>7. QED
    BY <1>2, <2>1, <2>2, <2>3, <2>4, <2>5, <2>6 DEF AnswerInv
<1>11. QED
  BY <1>8, <1>9, <1>10 DEF DumpInv, CollectInv

(* A datagram is taken from the queue and understood. *)
LEMMA ReceiveStep ==
  ASSUME DumpTypeOK, DumpInv, Receive, Parse(Head(inbox)) # "error"
  PROVE  DumpInv'
<1>1. /\ dumpPc = "receive" /\ inbox # <<>> /\ inbox' = Tail(inbox)
      /\ batch' = batch \cup Head(inbox).socks
      /\ dumpPc' = IF Parse(Head(inbox)) = "done" THEN "collect" ELSE "receive"
      /\ short' = IF Head(inbox).end = "failed" THEN short \cup {DumpNo(seq)} ELSE short
      /\ UNCHANGED <<query, seq, found, lost, answer>>
  BY DEF Receive
<1>2. inbox \in Seq(Datagram) /\ Len(inbox) \in Nat /\ Len(inbox) > 0 /\ seq \in Nat
  BY <1>1, LenProperties, CurrentDump DEF DumpTypeOK, DumpInv, AnswerInv, Dumping
<1>3. /\ Len(inbox') = Len(inbox) - 1
      /\ \A i \in 1..Len(inbox') : i + 1 \in 1..Len(inbox) /\ inbox'[i] = inbox[i + 1]
  BY <1>1, <1>2, HeadTailProperties
<1>4. /\ Head(inbox) = inbox[1] /\ Head(inbox).seq = seq
      /\ Head(inbox).end \in {"more", "done", "failed"}
      /\ Parse(Head(inbox)) = IF Head(inbox).end = "failed" THEN "done" ELSE Head(inbox).end
  <2>1. Head(inbox) = inbox[1] /\ Head(inbox) \in Datagram
    BY <1>1, <1>2, HeadTailProperties
  <2>2. Head(inbox).end \in Endings
    BY <2>1 DEF Datagram
  <2>3. /\ Head(inbox).seq = seq /\ Head(inbox).end \notin {"interrupted", "refused", "malformed"}
        /\ Parse(Head(inbox)) = IF Head(inbox).end = "failed" THEN "done" ELSE Head(inbox).end
    BY ParseResult
  <2>4. QED
    BY <2>1, <2>2, <2>3 DEF Endings
<1>. DEFINE S == SocketsOf(DumpNo(seq))
<1>5. SocketsOf(DumpNo(seq))' = S
  BY <1>1 DEF SocketsOf, DumpNo
<1>6. /\ inbox[Len(inbox)].seq = seq /\ inbox[Len(inbox)].end \in Final
      /\ \A j \in 1..(Len(inbox) - 1) : inbox[j].seq = seq => inbox[j].end \notin Final
      /\ \A j \in 1..Len(inbox) : inbox[j].seq = seq => inbox[j].socks \subseteq S
      /\ batch \subseteq S
      /\ inbox[Len(inbox)].end = "done" =>
           \A s \in S :
             s \in batch \/ \E j \in 1..Len(inbox) : inbox[j].seq = seq /\ s \in inbox[j].socks
  BY <1>1 DEF DumpInv, AnswerInv
<1>7. batch' \subseteq S
  BY <1>1, <1>2, <1>4, <1>6
<1>8. PlaceInv'
  <2>1. DumpNo(seq)' = DumpNo(seq) /\ DumpNo(seq) \in DumpNos
    BY <1>1, CurrentDump DEF DumpInv, Dumping, DumpNo
  <2>2. \A k \in short : k < DumpNo(seq) /\ k \in DumpNos
    BY <1>1 DEF DumpTypeOK, DumpInv, PlaceInv
  <2>3. \A k \in short' : k <= DumpNo(seq)
    BY <1>1, <2>1, <2>2 DEF DumpNos
  <2>4. dumpPc' = "receive" => short' = short
    BY <1>1, <1>4
  <2>5. QED
    BY <1>1, <2>1, <2>2, <2>3, <2>4 DEF DumpInv, PlaceInv, Dumping
<1>9. QueueInv'
  BY <1>1, <1>3 DEF DumpInv, QueueInv
<1>10. CASE Head(inbox).end \in {"done", "failed"}
  <2>1. Len(inbox) = 1
    <3>1. inbox[1].seq = seq /\ inbox[1].end \in Final
      BY <1>4, <1>10 DEF Final
    <3>2. 1 \notin 1..(Len(inbox) - 1)
      BY <1>6, <3>1
    <3>3. QED
      BY <1>2, <3>2
  <2>2. dumpPc' = "collect" /\ DumpNo(seq)' = DumpNo(seq)
    BY <1>1, <1>4, <1>10 DEF DumpNo
  <2>3. CASE Head(inbox).end = "done"
    <3>1. batch' = S
      BY <1>1, <1>4, <1>6, <1>7, <2>1, <2>3
    <3>2. QED
      BY <1>5, <1>8, <1>9, <2>2, <3>1 DEF DumpInv, AnswerInv, CollectInv
  <2>4. CASE Head(inbox).end = "failed"
    <3>1. DumpNo(seq) \in short'
      BY <1>1, <2>4
    <3>2. QED
      BY <1>5, <1>7, <1>8, <1>9, <2>2, <3>1 DEF DumpInv, AnswerInv, CollectInv
  <2>5. QED
    BY <1>10, <2>3, <2>4
<1>11. CASE Head(inbox).end = "more"
  <2>1. Len(inbox) > 1
    BY <1>2, <1>4, <1>6, <1>11 DEF Final
  <2>2. Len(inbox') > 0 /\ inbox'[Len(inbox')] = inbox[Len(inbox)]
    BY <1>2, <1>3, <2>1
  <2>3. \A j \in 1..(Len(inbox') - 1) : inbox'[j].seq = seq => inbox'[j].end \notin Final
    BY <1>2, <1>3, <1>6, SMTT(30)
  <2>4. \A j \in 1..Len(inbox') : inbox'[j].seq = seq => inbox'[j].socks \subseteq S
    BY <1>2, <1>3, <1>6
  <2>5. ASSUME inbox[Len(inbox)].end = "done", NEW s \in S, s \notin batch'
        PROVE  \E j \in 1..Len(inbox') : inbox'[j].seq = seq /\ s \in inbox'[j].socks
    <3>1. PICK j \in 1..Len(inbox) : inbox[j].seq = seq /\ s \in inbox[j].socks
      BY <1>1, <1>6, <2>5
    <3>2. j # 1
      BY <1>1, <1>4, <2>5, <3>1
    <3>3. j - 1 \in 1..Len(inbox') /\ inbox'[j - 1] = inbox[j]
      BY <1>2, <1>3, <3>2
    <3>4. QED
      BY <3>1, <3>3
  <2>6. AnswerInv'
    BY <1>1, <1>5, <1>6, <1>7, <2>2, <2>3, <2>4, <2>5 DEF AnswerInv
  <2>7. QED
    BY <1>1, <1>4, <1>8, <1>9, <1>11, <2>6 DEF DumpInv, CollectInv
<1>12. QED
  BY <1>4, <1>10, <1>11

LEMMA DumpInvNext == DumpTypeOK /\ DumpInv /\ [DumpNext]_dumpVars => DumpInv'
<1> SUFFICES ASSUME DumpTypeOK, DumpInv, [DumpNext]_dumpVars PROVE DumpInv'
  OBVIOUS
<1>1. CASE Query
  BY <1>1 DEF Query, DumpInv, PlaceInv, QueueInv, AnswerInv, CollectInv, Dumping
<1>2. CASE Open
  <2>1. query' = query /\ inbox' = inbox /\ batch' = batch /\ found' = found /\ lost' = lost
        /\ short' = short
    BY <1>2 DEF Open
  <2>2. seq = 0 /\ answer = "none" /\ batch = {} /\ short = {}
    BY <1>2 DEF Open, DumpInv, PlaceInv
  <2>3. \/ dumpPc' = "send" /\ seq' = 1 /\ answer' = "none"
        \/ dumpPc' = "over" /\ seq' = 0
    BY <1>2, <2>2 DEF Open
  <2>4. PlaceInv'
    BY <2>1, <2>2, <2>3, QueryType DEF PlaceInv, DumpNo, Dumping
  <2>5. QueueInv'
    <3>1. \A j \in 1..Len(inbox) : inbox[j] \in Datagram
      BY ElementOfSeq DEF DumpTypeOK
    <3>2. \A j \in 1..Len(inbox) : inbox[j].seq <= 0 /\ inbox[j].seq \in Nat
      BY <2>2, <3>1 DEF DumpInv, QueueInv, Datagram, DumpNos
    <3>3. QED
      BY <2>1, <2>3, <3>2 DEF QueueInv
  <2>6. QED
    BY <2>3, <2>4, <2>5 DEF DumpInv, AnswerInv, CollectInv
<1>3. ASSUME GiveUp, dumpPc \in Dumping, inbox' \in Seq(Datagram),
             \A j \in 1..Len(inbox') : inbox'[j].seq <= seq
      PROVE  DumpInv'
  BY <1>3, NextDump DEF GiveUp
<1>4. inbox \in Seq(Datagram) /\ \A j \in 1..Len(inbox) : inbox[j].seq <= seq
  BY DEF DumpTypeOK, DumpInv, QueueInv
<1>5. CASE Send
  <2>1. CASE GiveUp /\ UNCHANGED inbox
    BY <1>3, <1>4, <1>5, <2>1 DEF Send, Dumping
  <2>2. CASE ~(GiveUp /\ UNCHANGED inbox)
    BY <1>5, <2>2, SendStep DEF Send
  <2>3. QED
    BY <2>1, <2>2
<1>6. CASE Receive
  <2>1. CASE Parse(Head(inbox)) = "error"
    <3>1. /\ inbox' \in Seq(Datagram) /\ Len(inbox') = Len(inbox) - 1
          /\ \A i \in 1..Len(inbox') : inbox'[i] = inbox[i + 1]
      BY <1>4, <1>6, HeadTailProperties DEF Receive
    <3>2. Len(inbox) \in Nat
      BY <1>4, LenProperties
    <3>3. \A j \in 1..Len(inbox') : inbox'[j].seq <= seq
      BY <1>4, <3>1, <3>2
    <3>4. QED
      BY <1>3, <1>6, <2>1, <3>1, <3>3 DEF Receive, Dumping
  <2>2. QED
    BY <1>6, <2>1, ReceiveStep
<1>7. CASE ReceiveFails
  BY <1>3, <1>4, <1>7 DEF ReceiveFails, Dumping
<1>8. CASE Collect
  BY <1>4, <1>8, NextDump DEF Collect, Dumping
<1>9. CASE ReturnQuery
  BY <1>9 DEF ReturnQuery, DumpInv, PlaceInv, QueueInv, AnswerInv, CollectInv, Dumping
<1>10. CASE UNCHANGED dumpVars
  BY <1>10 DEF dumpVars, DumpInv, PlaceInv, QueueInv, AnswerInv, CollectInv, DumpNo, SocketsOf
<1>11. QED
  BY <1>1, <1>2, <1>5, <1>6, <1>7, <1>8, <1>9, <1>10 DEF DumpNext

LEMMA DumpInvariance == DumpSpec => [](DumpTypeOK /\ DumpInv)
<1>1. DumpInv => PlaceInv
  BY DEF DumpInv
<1>2. QED
  BY <1>1, DumpTypeInit, DumpTypeNext, DumpInvInit, DumpInvNext, PTL DEF DumpSpec

(* Every variable keeps its type. *)
THEOREM DumpTypes == DumpSpec => []DumpTypeOK
BY DumpInvariance, PTL

(* recv() is only called when an answer is there or on its way, whatever   *)
(* earlier dumps of the query left in the queue or took from it.           *)
THEOREM AnswerComes == DumpSpec => []NeverStarved
<1>1. DumpTypeOK /\ DumpInv => NeverStarved
  BY DEF DumpTypeOK, DumpInv, AnswerInv, NeverStarved
<1>2. QED
  BY <1>1, DumpInvariance, PTL

-----------------------------------------------------------------------------
(* The contract. *)

\* What the contract's variables are mapped to.
AskedOf == IF dumpPc = "idle" THEN {} ELSE Asked
TruthOf == IF dumpPc = "idle" THEN <<>> ELSE [k \in DumpNos |-> Entitled(k)]
OverOf == {k \in Asked : k < query.first + seq - 1}
CutOf == {k \in short : k < query.first + seq - 1}

LEMMA OverNext ==
  ASSUME DumpTypeOK, DumpInv, dumpPc \in Dumping, seq' = seq + 1, query' = query
  PROVE  /\ DumpNo(seq) \in Asked \ OverOf
         /\ \A j \in Asked \ OverOf : DumpNo(seq) <= j
         /\ OverOf' = OverOf \cup {DumpNo(seq)}
<1>1. /\ seq \in Nat /\ query.first \in Nat /\ query.last \in Nat
      /\ DumpNo(seq) \in Asked
  BY CurrentDump DEF DumpInv
<1>2. Asked' = Asked /\ \A j \in Asked : j \in Int
  BY <1>1 DEF Asked
<1>3. OverOf' = {k \in Asked : k < query.first + (seq + 1) - 1}
  BY <1>2 DEF OverOf
<1>4. QED
  BY <1>1, <1>2, <1>3 DEF OverOf, DumpNo

(* A dump in progress that is over is a step of the contract. *)
LEMMA DumpEnds ==
  ASSUME DumpTypeOK, DumpInv, dumpPc \in Dumping, seq' = seq + 1, dumpPc' # "idle",
         UNCHANGED <<query, short, answer>>,
         \/ found' = found \cup Entitled(DumpNo(seq)) /\ UNCHANGED lost /\ DumpNo(seq) \notin short
         \/ lost' = lost \cup {DumpNo(seq)} /\ UNCHANGED found /\ DumpNo(seq) \notin short
         \/ /\ DumpNo(seq) \in short /\ UNCHANGED lost
            /\ \E part \in SUBSET Entitled(DumpNo(seq)) : found' = found \cup part
  PROVE  Contract!ContractNext
<1>1. PICK k \in DumpNos : k = DumpNo(seq) /\ k \in Asked
  BY CurrentDump DEF DumpInv
<1>2. /\ AskedOf = Asked /\ AskedOf' = Asked
      /\ TruthOf = [n \in DumpNos |-> Entitled(n)] /\ TruthOf' = TruthOf
  BY DEF AskedOf, TruthOf, Dumping, Asked, Entitled, Keep
<1>3. TruthOf[k] = Entitled(k)
  BY <1>1, <1>2
<1>4. k \in AskedOf \ OverOf /\ (\A j \in AskedOf \ OverOf : k <= j) /\ OverOf' = OverOf \cup {k}
  BY <1>1, <1>2, OverNext
<1>5. Contract!DumpOver(k)
  <2>0. CutOf' = IF k \in short THEN CutOf \cup {k} ELSE CutOf
    <3>1. /\ seq \in Nat /\ query.first \in Nat /\ k = query.first + seq - 1
      BY <1>1, CurrentDump DEF DumpInv, DumpNo
    <3>2. CutOf' = {n \in short : n < query.first + (seq + 1) - 1}
      BY DEF CutOf
    <3>3. \A n \in short : n \in Nat /\ n <= k
      BY <1>1, CurrentDump DEF DumpTypeOK, DumpInv, PlaceInv, Dumping, DumpNos
    <3>4. QED
      BY <3>1, <3>2, <3>3 DEF CutOf
  <2>1. /\ k \in AskedOf \ OverOf
        /\ \A j \in AskedOf \ OverOf : k <= j
        /\ OverOf' = OverOf \cup {k}
        /\ \/ found' = found \cup TruthOf[k] /\ UNCHANGED <<lost, CutOf>>
           \/ lost' = lost \cup {k} /\ UNCHANGED <<found, CutOf>>
           \/ /\ CutOf' = CutOf \cup {k} /\ UNCHANGED lost
              /\ \E part \in SUBSET TruthOf[k] : found' = found \cup part
        /\ UNCHANGED <<AskedOf, TruthOf, answer>>
    BY <1>1, <1>2, <1>3, <1>4, <2>0
  <2>2. QED
    BY <2>1 DEF Contract!DumpOver, AskedOf, TruthOf, OverOf, CutOf
<1>6. \E n \in AskedOf : Contract!DumpOver(n)
  BY <1>4, <1>5
<1>7. QED
  BY ONLY <1>6 DEF Contract!ContractNext, AskedOf

LEMMA ContractStep ==
  DumpTypeOK /\ DumpInv /\ [DumpNext]_dumpVars => [Contract!ContractNext]_(Contract!contractVars)
<1> SUFFICES ASSUME DumpTypeOK, DumpInv, [DumpNext]_dumpVars
             PROVE  Contract!ContractNext \/ UNCHANGED Contract!contractVars
  OBVIOUS
<1>1. ASSUME UNCHANGED <<query, seq, found, lost, short, answer>>, dumpPc # "idle", dumpPc' # "idle"
      PROVE  UNCHANGED Contract!contractVars
  BY <1>1 DEF Contract!contractVars, Asked, Entitled, Keep
<1>2. ASSUME GiveUp, dumpPc \in {"send", "receive"} PROVE Contract!ContractNext
  <2>1. DumpNo(seq) \notin short
    BY <1>2, CurrentDump DEF DumpInv, PlaceInv, Dumping, DumpNos
  <2>2. QED
    BY <1>2, <2>1, DumpEnds DEF GiveUp, Dumping
<1>3. CASE Query
  <2>1. DumpTypeOK'
    BY <1>3, DumpTypeNext DEF DumpInv
  <2>2. Asked' # {}
    BY <2>1, QueryType, SMTT(30) DEF Asked, Query, DumpTypeOK, Queries, Ranges
  <2>3. seq = 0 /\ seq' = 0
    BY <1>3 DEF Query, DumpInv, PlaceInv
  <2>4. OverOf = {} /\ OverOf' = {} /\ CutOf = {} /\ CutOf' = {}
    <3>1. OverOf = {} /\ OverOf' = {}
      BY <2>1, <2>3, QueryType DEF OverOf, Asked, DumpTypeOK, Queries
    <3>2. short = {} /\ short' = {}
      BY <1>3 DEF Query, DumpInv, PlaceInv
    <3>3. QED
      BY <3>1, <3>2 DEF CutOf
  <2>5. Contract!Ask
    BY <1>3, <2>2, <2>4 DEF Contract!Ask, OverOf, CutOf, Query
  <2>6. QED
    BY <2>5 DEF Contract!ContractNext
<1>4. CASE Open
  <2>1. seq = 0 /\ answer = "none"
    BY <1>4 DEF Open, DumpInv, PlaceInv
  <2>2. OverOf = {} /\ Asked # {} /\ short = {} /\ CutOf = {}
    <3>1. query.first \in Nat /\ query.last \in Nat /\ query.first < query.last
      BY QueryType
    <3>2. query.first \in Asked
      BY <3>1 DEF Asked
    <3>3. OverOf = {}
      BY <2>1, <3>1 DEF OverOf, Asked
    <3>4. short = {}
      BY <1>4 DEF Open, DumpInv, PlaceInv
    <3>5. QED
      BY <3>2, <3>3, <3>4 DEF CutOf
  <2>3. CASE dumpPc' = "send" /\ seq' = 1 /\ UNCHANGED answer
    <3>1. OverOf' = {} /\ CutOf' = {}
      BY <1>4, <2>2, <2>3, QueryType DEF Open, OverOf, CutOf, Asked
    <3>2. QED
      BY <1>4, <2>2, <2>3, <3>1
         DEF Open, Contract!contractVars, OverOf, CutOf, Asked, Entitled, Keep
  <2>4. CASE dumpPc' = "over" /\ answer' = "error" /\ UNCHANGED seq
    <3>1. Contract!Refuse
      BY <1>4, <2>1, <2>2, <2>4 DEF Open, Contract!Refuse, OverOf, Asked, Entitled, Keep
    <3>2. QED
      BY <3>1 DEF Contract!ContractNext
  <2>5. QED
    BY <1>4, <2>3, <2>4 DEF Open
<1>5. CASE Send
  BY <1>1, <1>2, <1>5 DEF Send, Dumping
<1>6. CASE Receive
  <2>1. CASE GiveUp
    BY <1>2, <1>6, <2>1 DEF Receive
  <2>2. CASE ~GiveUp
    <3>1. /\ dumpPc # "idle" /\ dumpPc' # "idle" /\ UNCHANGED <<query, seq, found, lost, answer>>
          /\ short' \in {short, short \cup {DumpNo(seq)}}
      BY <1>6, <2>2 DEF Receive
    <3>2. CutOf' = CutOf
      <4>1. DumpNo(seq) \in Nat /\ DumpNo(seq) = query.first + seq - 1
        BY <1>6, CurrentDump DEF Receive, DumpInv, Dumping, DumpNos, DumpNo
      <4>2. CutOf' = {k \in short' : k < query.first + seq - 1}
        BY <3>1 DEF CutOf
      <4>3. QED
        BY <3>1, <4>1, <4>2 DEF CutOf
    <3>3. QED
      BY <3>1, <3>2 DEF Contract!contractVars, CutOf, Asked, Entitled, Keep
  <2>3. QED
    BY <2>1, <2>2
<1>7. CASE ReceiveFails
  BY <1>2, <1>7 DEF ReceiveFails, Dumping
<1>8. CASE Collect
  <2> DEFINE K == {s \in batch : Keep(s, DumpNo(seq))}
             E == {s \in Sockets : DumpOf[s] = DumpNo(seq) /\ Keep(s, DumpNo(seq))}
             P == {Protocol(DumpNo(seq))}
  <2>1. /\ batch \subseteq SocketsOf(DumpNo(seq))
        /\ DumpNo(seq) \notin short => batch = SocketsOf(DumpNo(seq))
    BY <1>8 DEF Collect, DumpInv, CollectInv
  <2>2. K \subseteq E /\ (DumpNo(seq) \notin short => K = E)
    BY <2>1 DEF SocketsOf
  <2>3. Entitled(DumpNo(seq)) = E \X P
    BY DEF Entitled
  <2>4. K \X P \in SUBSET (E \X P) /\ (DumpNo(seq) \notin short => K \X P = E \X P)
    <3> HIDE DEF K, E, P
    <3> QED
      BY <2>2
  <2>5. found' = found \cup (K \X P)
    BY <1>8 DEF Collect
  <2>6. \/ found' = found \cup Entitled(DumpNo(seq)) /\ DumpNo(seq) \notin short
        \/ /\ DumpNo(seq) \in short
           /\ \E part \in SUBSET Entitled(DumpNo(seq)) : found' = found \cup part
    <3> HIDE DEF K, E, P
    <3> QED
      BY <2>3, <2>4, <2>5
  <2>7. QED
    BY <1>8, <2>6, DumpEnds DEF Collect, Dumping
<1>9. CASE ReturnQuery
  <2>1. DumpNo(seq) = query.last + 1 /\ answer = "none"
    BY <1>9 DEF ReturnQuery, DumpInv, PlaceInv
  <2>2. OverOf = Asked /\ Asked # {}
    <3>1. \A k \in Asked : k < query.first + seq - 1
      BY <2>1, QueryType DEF Asked, DumpNo
    <3>2. QED
      BY <3>1, QueryType DEF OverOf, Asked
  <2>3. Contract!Return
    BY <1>9, <2>1, <2>2 DEF ReturnQuery, Contract!Return, OverOf, Asked, Entitled, Keep
  <2>4. QED
    BY <2>3 DEF Contract!ContractNext
<1>10. CASE UNCHANGED dumpVars
  BY <1>10 DEF dumpVars, Contract!contractVars, Asked, Entitled, Keep
<1>11. QED
  BY <1>3, <1>4, <1>5, <1>6, <1>7, <1>8, <1>9, <1>10 DEF DumpNext

(* The query implements its contract: every dump is complete or lost with  *)
(* a warning, in order, except the dumps that the kernel itself ended with *)
(* an error status in NLMSG_DONE, which the codec does not read; those add *)
(* some of their sockets.  Nothing else is reported.                       *)
THEOREM ContractImplemented == DumpSpec => DumpsCompleteOrWarned
<1>1. DumpInit => Contract!ContractInit
  BY DEF DumpInit, Contract!ContractInit, Asked
<1>2. QED
  BY <1>1, DumpInvariance, ContractStep, PTL
     DEF DumpSpec, DumpsCompleteOrWarned, Contract!ContractSpec

-----------------------------------------------------------------------------
(* Why a query ends. *)

DumpPlace(pc) ==
  CASE pc = "idle" -> 0 [] pc = "open" -> 1 [] pc = "send" -> 2 [] pc = "receive" -> 3
    [] pc = "collect" -> 4 [] pc = "return" -> 5 [] OTHER -> 6

\* On to the next dump, further on in this one, or one datagram less to read.
DumpOnward ==
  \/ seq' > seq
  \/ seq' = seq /\ DumpPlace(dumpPc') > DumpPlace(dumpPc)
  \/ seq' = seq /\ dumpPc' = dumpPc /\ Len(inbox') = Len(inbox) - 1

(* No step of query() leads back: a failed dump is not repeated, and the   *)
(* loop around recv() takes a datagram with every turn.  Since there are   *)
(* four dumps and a datagram always comes (AnswerComes), it ends.          *)
THEOREM DumpGoesOn == DumpSpec => [][DumpOnward]_dumpVars
<1>1. ASSUME DumpTypeOK, DumpInv, [DumpNext]_dumpVars PROVE [DumpOnward]_dumpVars
  <2> SUFFICES ASSUME DumpNext PROVE DumpOnward
    BY <1>1
  <2>1. seq \in Nat /\ inbox \in Seq(Datagram) /\ PlaceInv
    BY <1>1 DEF DumpTypeOK, DumpInv
  <2>2. CASE Query
    BY <2>1, <2>2 DEF Query, DumpPlace, DumpOnward
  <2>3. CASE Open
    BY <2>1, <2>3 DEF Open, PlaceInv, DumpPlace, DumpOnward
  <2>4. ASSUME GiveUp PROVE DumpOnward
    BY <2>1, <2>4 DEF GiveUp, DumpOnward
  <2>5. CASE Send
    BY <2>1, <2>4, <2>5 DEF Send, DumpPlace, DumpOnward
  <2>6. CASE Receive
    <3>1. Len(inbox') = Len(inbox) - 1
      BY <2>1, <2>6, HeadTailProperties DEF Receive
    <3>2. \/ GiveUp
          \/ dumpPc = "receive" /\ dumpPc' \in {"collect", "receive"} /\ seq' = seq
      BY <2>6 DEF Receive
    <3>3. QED
      BY <2>4, <3>1, <3>2 DEF DumpPlace, DumpOnward
  <2>7. CASE ReceiveFails
    BY <2>4, <2>7 DEF ReceiveFails
  <2>8. CASE Collect
    BY <2>1, <2>8 DEF Collect, DumpOnward
  <2>9. CASE ReturnQuery
    BY <2>1, <2>9 DEF ReturnQuery, DumpPlace, DumpOnward
  <2>10. QED
    BY <2>2, <2>3, <2>5, <2>6, <2>7, <2>8, <2>9 DEF DumpNext
<1>2. QED
  BY <1>1, DumpInvariance, PTL DEF DumpSpec

=============================================================================
