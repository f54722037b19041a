-------------------------- MODULE EdcaTxopNProofs --------------------------
(***************************************************************************)
(* What the queue of an access category promises, for any number of        *)
(* MSDUs and recipients.                                                   *)
(*                                                                         *)
(* A packet is in one place at a time: in the queue, in m_currentPacket    *)
(* or settled (CoreInv), so it is reported once.  The other invariants     *)
(* rest on that: whom access was requested for, which sequence numbers are *)
(* in use, and in which order packets are passed up.                       *)
(***************************************************************************)
EXTENDS EdcaTxopN, SequenceTheorems, TLAPS

USE ConstantsAssumption

-----------------------------------------------------------------------------
(* Queues *)

\* The queue q is s without its packet i.
Without(q, s, i) ==
  /\ i \in 1 .. Len(s) /\ q \in Seq(Packets) /\ Len(q) = Len(s) - 1
  /\ \A j \in 1 .. Len(q) : q[j] = IF j < i THEN s[j] ELSE s[j + 1]

LEMMA RemoveAtWithout ==
  ASSUME NEW s \in Seq(Packets), NEW i \in 1 .. Len(s)
  PROVE  Without(RemoveAt(s, i), s, i)
<1> DEFINE a == SubSeq(s, 1, i - 1)
           b == SubSeq(s, i + 1, Len(s))
<1>1. a \in Seq(Packets) /\ Len(a) = i - 1 /\ \A j \in 1 .. i - 1 : a[j] = s[j]
  OBVIOUS
<1>2. b \in Seq(Packets) /\ Len(b) = Len(s) - i /\ \A j \in 1 .. Len(s) - i : b[j] = s[i + j]
  OBVIOUS
<1>3. RemoveAt(s, i) = a \o b
  BY DEF RemoveAt
<1> HIDE DEF a, b
<1>4. a \o b \in Seq(Packets) /\ Len(a \o b) = Len(s) - 1
  BY <1>1, <1>2, ConcatProperties
<1>5. ASSUME NEW j \in 1 .. Len(s) - 1
      PROVE  (a \o b)[j] = IF j < i THEN s[j] ELSE s[j + 1]
  <2>1. CASE j < i
    BY <1>1, <1>2, <2>1
  <2>2. CASE ~(j < i)
    <3>1. (a \o b)[j] = b[j - (i - 1)]
      BY <1>1, <1>2, <2>2
    <3>2. j - (i - 1) \in 1 .. Len(s) - i /\ i + (j - (i - 1)) = j + 1
      BY <2>2
    <3> QED BY <1>2, <2>2, <3>1, <3>2
  <2> QED BY <2>1, <2>2
<1> QED BY <1>3, <1>4, <1>5 DEF Without

LEMMA TailWithout ==
  ASSUME NEW s \in Seq(Packets), s # << >>
  PROVE  Without(Tail(s), s, 1)
  BY DEF Without

\* The number of the head of a queue.
LEMMA HeadIdType ==
  ASSUME NEW q \in Seq(Packets)
  PROVE  /\ HeadId(q) \in 0 .. MaxMsdus
         /\ HeadId(q) = 0 <=> q = << >>
         /\ q # << >> => 1 \in 1 .. Len(q) /\ HeadId(q) = q[1].id /\ q[1] \in Packets
<1>1. q # << >> => 1 \in 1 .. Len(q) /\ q[1] \in Packets
  OBVIOUS
<1>2. \A p \in Packets : p.id \in 1 .. MaxMsdus
  BY DEF Packets, Msdus
<1> QED BY <1>1, <1>2 DEF HeadId

-----------------------------------------------------------------------------
(* Types, and the place of a packet *)

Positions == 1 .. Len(queue)

\* A packet is in one place: no two packets of the queue are the same, none is the
\* current one, and none of these is settled; the next packet given to Queue is new.
Distinct ==
  /\ \A i, j \in Positions : queue[i].id = queue[j].id => i = j
  /\ \A i \in Positions : queue[i].id # tx.packet /\ queue[i].id \notin Settled /\ queue[i].id <= queued
  /\ tx.packet \notin Settled /\ tx.packet <= queued
  /\ \A m \in Settled : m <= queued

\* A packet is settled in one way.
Disjoint ==
  done.ok \cap (done.failed \cup done.gone) = {} /\ done.failed \cap done.gone = {}

\* The inductive invariant of ReportedOnce.
CoreInv == TypeOK /\ Distinct /\ Disjoint

\* The parts of TypeOK.
QueueTyped == queued \in 0 .. MaxMsdus /\ queue \in Seq(Packets)
HeaderTyped == tx \in Headers /\ asked \in 0 .. MaxMsdus
NumbersTyped ==
  /\ next \in [Dests -> 0 .. SeqSpace - 1] /\ last \in [Recipients -> 0 .. SeqSpace]
  /\ up \in [Recipients -> Seq(Msdus)]
LinkTyped ==
  /\ link \in Links
  /\ link.st \in {"group", "rts", "data", "ack"} => tx.packet # 0 /\ (link.st = "group" <=> tx.to = Group)
  /\ link.st \in {"sifs", "asleep"} => tx.packet = 0
Reports == [ok : SUBSET Msdus, failed : SUBSET Msdus, gone : SUBSET Msdus, early : SUBSET Msdus]
DoneTyped ==
  /\ done \in Reports
  /\ hist \in [tail : SUBSET Msdus, reused : SUBSET Msdus, pauses : 0 .. MaxSleeps]

LEMMA TypeOKParts ==
  TypeOK <=> QueueTyped /\ HeaderTyped /\ NumbersTyped /\ LinkTyped /\ DoneTyped
  BY DEF TypeOK, QueueTyped, HeaderTyped, NumbersTyped, LinkTyped, DoneTyped, Reports

LEMMA TypeOKNext ==
  ASSUME QueueTyped', HeaderTyped', NumbersTyped', LinkTyped', DoneTyped'
  PROVE  TypeOK'
  BY DEF TypeOK, QueueTyped, HeaderTyped, NumbersTyped, LinkTyped, DoneTyped, Reports

\* A packet of the queue and its fields.
LEMMA QueuePackets ==
  ASSUME QueueTyped, NEW i \in Positions
  PROVE  queue[i] \in Packets /\ queue[i].id \in Msdus /\ queue[i].to \in Dests
<1>1. queue[i] \in Packets
  BY DEF QueueTyped, Positions
<1> QED BY <1>1 DEF Packets

\* The fields of the header.
LEMMA HeaderFields ==
  ASSUME tx \in Headers
  PROVE  /\ tx.packet \in 0 .. MaxMsdus /\ tx.to \in Dests /\ tx.seq \in 0 .. SeqSpace - 1
         /\ tx.retry \in BOOLEAN
  BY DEF Headers

\* A header that is changed in its number or retry bit is a header.
LEMMA HeaderChanged ==
  ASSUME tx \in Headers, NEW p \in 0 .. MaxMsdus
  PROVE  /\ [tx EXCEPT !.packet = p] \in Headers
         /\ [tx EXCEPT !.packet = p].packet = p /\ [tx EXCEPT !.packet = p].to = tx.to
         /\ [tx EXCEPT !.packet = p].seq = tx.seq /\ [tx EXCEPT !.packet = p].retry = tx.retry
         /\ [tx EXCEPT !.retry = TRUE] \in Headers
         /\ [tx EXCEPT !.retry = TRUE].packet = tx.packet /\ [tx EXCEPT !.retry = TRUE].to = tx.to
         /\ [tx EXCEPT !.retry = TRUE].seq = tx.seq /\ [tx EXCEPT !.retry = TRUE].retry
  BY DEF Headers

\* A request is for a packet, or for none.
LEMMA RequestType ==
  ASSUME queue' \in Seq(Packets), tx' \in Headers, NEW a \in 0 .. MaxMsdus
  PROVE  RestartAccessIfNeeded(a) \in 0 .. MaxMsdus
  BY HeadIdType DEF RestartAccessIfNeeded, First, Headers
-----------------------------------------------------------------------------
(* What a step does to the packets *)

\* What a step reports.
Reported(ok, failed, gone) ==
  /\ done'.ok = done.ok \cup ok /\ done'.failed = done.failed \cup failed
  /\ done'.gone = done.gone \cup gone

\* The kinds of steps.
PlacesKept == queue' = queue /\ queued' = queued /\ tx'.packet = tx.packet /\ Reported({}, {}, {})

Settles ==
  /\ queue' = queue /\ queued' = queued /\ tx.packet # 0 /\ tx'.packet = 0
  /\ \/ Reported({tx.packet}, {}, {}) \/ Reported({}, {tx.packet}, {}) \/ Reported({}, {}, {tx.packet})

Takes(i) ==
  /\ Without(queue', queue, i) /\ queued' = queued
  /\ tx.packet = 0 /\ tx'.packet = queue[i].id /\ Reported({}, {}, {})

Drops(i) ==
  /\ Without(queue', queue, i) /\ queued' = queued
  /\ tx'.packet = tx.packet /\ Reported({}, {}, {queue[i].id})

Appends ==
  /\ queue' \in Seq(Packets) /\ Len(queue') = Len(queue) + 1
  /\ \A j \in Positions : queue'[j] = queue[j]
  /\ queue'[Len(queue) + 1].id = queued' /\ queued' = queued + 1
  /\ tx'.packet = tx.packet /\ Reported({}, {}, {})

PutsBack ==
  /\ queue' \in Seq(Packets) /\ Len(queue') = Len(queue) + 1
  /\ \A j \in Positions : queue'[j + 1] = queue[j]
  /\ queue'[1] = [id |-> tx.packet, to |-> tx.to] /\ queued' = queued
  /\ tx.packet # 0 /\ tx'.packet = 0 /\ Reported({}, {}, {})

Flushes ==
  /\ queue' = << >> /\ queued' = queued /\ tx'.packet = 0
  /\ Reported({}, {}, {queue[i].id : i \in Positions} \cup ({tx.packet} \ {0}))

Moves ==
  \/ PlacesKept \/ Settles \/ (\E i \in Positions : Takes(i) \/ Drops(i))
  \/ Appends \/ PutsBack \/ Flushes

\* An MSDU more in a report is a report, as is a packet more in the history.
LEMMA ReportsChanged ==
  ASSUME done \in Reports, NEW M \in SUBSET Msdus
  PROVE  /\ [done EXCEPT !.ok = @ \cup M] \in Reports
         /\ [done EXCEPT !.failed = @ \cup M] \in Reports
         /\ [done EXCEPT !.gone = @ \cup M] \in Reports
         /\ [done EXCEPT !.early = @ \cup M] \in Reports
         /\ done' = done => Reported({}, {}, {})
         /\ done' = [done EXCEPT !.ok = @ \cup M] => Reported(M, {}, {})
         /\ done' = [done EXCEPT !.failed = @ \cup M] => Reported({}, M, {})
         /\ done' = [done EXCEPT !.gone = @ \cup M] => Reported({}, {}, M)
         /\ done' = [done EXCEPT !.early = @ \cup M] => Reported({}, {}, {})
  BY DEF Reports, Reported

\* MacLow starts an exchange for a packet.
LEMMA StartType ==
  ASSUME NEW t \in Headers, tx' = t, t.packet # 0, StartTransmission(t)
  PROVE  LinkTyped' /\ link' \in {In("group"), In("rts"), In("data")} /\ (link' = In("group") <=> t.to = Group)
<1>1. link' \in {In("group"), In("rts"), In("data")} /\ (link' = In("group") <=> t.to = Group)
  BY DEF StartTransmission, In
<1>2. LinkTyped'
  BY <1>1 DEF In, LinkTyped, Links
<1> QED BY <1>1, <1>2

LEMMA QueueMoves == ASSUME TypeOK, NEW d \in Dests, Queue(d) PROVE TypeOK' /\ Appends
<1> USE TypeOKParts
<1>1. queue \in Seq(Packets) /\ queued \in 0 .. MaxMsdus
  BY DEF QueueTyped
<1>2. [id |-> queued', to |-> d] \in Packets /\ queued' = queued + 1
  BY <1>1 DEF Queue, Packets, Msdus
<1>3. queue' = Append(queue, [id |-> queued', to |-> d])
  BY DEF Queue
<1>4. /\ queue' \in Seq(Packets) /\ Len(queue') = Len(queue) + 1
      /\ \A j \in Positions : queue'[j] = queue[j]
      /\ queue'[Len(queue) + 1] = [id |-> queued', to |-> d]
  BY <1>1, <1>2, <1>3, AppendProperties DEF Positions
<1>5. tx' = tx /\ UNCHANGED <<next, link, last, up, done, hist>>
  BY DEF Queue
<1>6. asked' \in 0 .. MaxMsdus
  BY <1>4, HeadIdType DEF Queue, StartAccessIfNeeded, HeaderTyped
<1>7. Appends
  BY <1>2, <1>4, <1>5 DEF Appends, Reported
<1>8. QueueTyped' /\ HeaderTyped' /\ NumbersTyped' /\ LinkTyped' /\ DoneTyped'
  BY <1>2, <1>4, <1>5, <1>6 DEF Queue, QueueTyped, HeaderTyped, NumbersTyped, LinkTyped, DoneTyped
<1> QED BY <1>7, <1>8, TypeOKNext

LEMMA ExpireMoves == ASSUME TypeOK, Expire PROVE TypeOK' /\ \E i \in Positions : Drops(i)
<1> USE TypeOKParts
<1>1. queue # << >> /\ queue \in Seq(Packets)
  BY DEF Expire, QueueTyped
<1>2. PICK i \in {1} \cup (IF hist.pauses = 0 THEN {} ELSE {2} \cap DOMAIN queue) :
        queue' = RemoveAt(queue, i) /\ done' = [done EXCEPT !.gone = @ \cup {queue[i].id}]
  BY DEF Expire
<1>3. i \in Positions
  BY <1>1, <1>2 DEF Positions
<1>4. Without(queue', queue, i)
  BY <1>1, <1>2, <1>3, RemoveAtWithout DEF Positions
<1>5. {queue[i].id} \in SUBSET Msdus
  BY <1>3, QueuePackets
<1>6. done' \in Reports /\ Reported({}, {}, {queue[i].id})
  BY <1>2, <1>5, ReportsChanged DEF DoneTyped
<1>7. UNCHANGED <<queued, tx, asked, next, link, last, up, hist>>
  BY DEF Expire
<1>8. QueueTyped' /\ HeaderTyped' /\ NumbersTyped' /\ LinkTyped' /\ DoneTyped'
  BY <1>4, <1>6, <1>7 DEF Without, QueueTyped, HeaderTyped, NumbersTyped, LinkTyped, DoneTyped
<1>9. Drops(i)
  BY <1>4, <1>6, <1>7 DEF Drops
<1> QED BY <1>3, <1>8, <1>9, TypeOKNext

\* The history of a packet that is sent.
LEMMA SentType ==
  ASSUME TypeOK, NEW t \in Headers, NEW tail \in SUBSET Msdus, t.packet # 0, Sent(t, tail)
  PROVE  /\ hist' \in [tail : SUBSET Msdus, reused : SUBSET Msdus, pauses : 0 .. MaxSleeps]
         /\ hist'.tail = hist.tail \cup tail /\ hist'.pauses = hist.pauses
         /\ hist.reused \subseteq hist'.reused
         /\ t.retry /\ t.packet \in hist'.tail => t.packet \in hist'.reused
<1> DEFINE again == IF t.retry THEN hist.reused \cup ({t.packet} \cap (hist.tail \cup tail)) ELSE hist.reused
<1>1. hist \in [tail : SUBSET Msdus, reused : SUBSET Msdus, pauses : 0 .. MaxSleeps]
  BY TypeOKParts DEF DoneTyped
<1>2. hist' = [hist EXCEPT !.tail = hist.tail \cup tail, !.reused = again]
  BY <1>1 DEF Sent
<1>3. again \in SUBSET Msdus /\ hist.reused \subseteq again
  BY <1>1 DEF Headers, Msdus
<1>4. t.retry /\ t.packet \in hist.tail \cup tail => t.packet \in again
  OBVIOUS
<1> HIDE DEF again
<1> QED BY <1>1, <1>2, <1>3, <1>4
LEMMA GrantNothingMoves == ASSUME TypeOK, GrantNothing PROVE TypeOK' /\ PlacesKept
<1>1. UNCHANGED <<queued, queue, tx, next, link, last, up, done, hist>> /\ asked' = 0
  BY DEF GrantNothing
<1>2. QueueTyped' /\ HeaderTyped' /\ NumbersTyped' /\ LinkTyped' /\ DoneTyped'
  BY <1>1, TypeOKParts DEF QueueTyped, HeaderTyped, NumbersTyped, LinkTyped, DoneTyped
<1> QED BY <1>1, <1>2, TypeOKNext DEF PlacesKept, Reported

\* A packet is taken with the next number of its destination.
LEMMA DequeuedType ==
  ASSUME TypeOK, queue # << >>, Dequeued
  PROVE  /\ tx' \in Headers /\ next' \in [Dests -> 0 .. SeqSpace - 1]
         /\ tx'.packet = queue[1].id /\ tx'.packet # 0 /\ tx'.to = queue[1].to
         /\ tx'.seq = next[queue[1].to] /\ ~tx'.retry
<1>1. 1 \in Positions /\ queue[1].id \in Msdus /\ queue[1].to \in Dests
  BY TypeOKParts, QueuePackets DEF QueueTyped, Positions
<1>2. \A d \in Dests : next[d] \in 0 .. SeqSpace - 1 /\ (next[d] + 1) % SeqSpace \in 0 .. SeqSpace - 1
  BY TypeOKParts DEF NumbersTyped
<1> QED BY <1>1, <1>2, TypeOKParts DEF Dequeued, Headers, Msdus, NumbersTyped

LEMMA GrantNextMoves ==
  ASSUME TypeOK, GrantNext
  PROVE  TypeOK' /\ 1 \in Positions /\ Takes(1) /\ (link' = In("group") <=> tx'.to = Group)
         /\ link' \in {In("group"), In("rts"), In("data")}
<1>1. queue # << >> /\ queue \in Seq(Packets) /\ Dequeued /\ StartTransmission(tx')
  BY TypeOKParts DEF GrantNext, QueueTyped
<1>2. /\ tx' \in Headers /\ next' \in [Dests -> 0 .. SeqSpace - 1]
      /\ tx'.packet = queue[1].id /\ tx'.packet # 0
  BY <1>1, DequeuedType
<1>3. LinkTyped' /\ link' \in {In("group"), In("rts"), In("data")} /\ (link' = In("group") <=> tx'.to = Group)
  BY <1>1, <1>2, StartType
<1>4. Without(queue', queue, 1) /\ 1 \in Positions
  BY <1>1, TailWithout DEF GrantNext, Positions
<1>5. UNCHANGED <<queued, last, up, done, hist>> /\ asked' = 0 /\ tx.packet = 0
  BY DEF GrantNext
<1>6. QueueTyped' /\ HeaderTyped' /\ NumbersTyped' /\ DoneTyped'
  BY <1>2, <1>4, <1>5, TypeOKParts DEF QueueTyped, HeaderTyped, NumbersTyped, DoneTyped, Without
<1> QED BY <1>2, <1>3, <1>4, <1>5, <1>6, TypeOKNext DEF Takes, Reported

LEMMA GrantAgainMoves ==
  ASSUME TypeOK, GrantAgain
  PROVE  TypeOK' /\ PlacesKept /\ hist'.tail = hist.tail /\ hist'.pauses = hist.pauses
         /\ hist.reused \subseteq hist'.reused
         /\ (tx.retry /\ tx.packet \in hist.tail => tx.packet \in hist'.reused)
         /\ (link' = In("group") <=> tx.to = Group) /\ link' \in {In("group"), In("rts"), In("data")}
<1>1. tx \in Headers /\ tx.packet # 0 /\ tx' = tx /\ StartTransmission(tx) /\ Sent(tx, {})
  BY TypeOKParts DEF GrantAgain, HeaderTyped
<1>2. LinkTyped' /\ link' \in {In("group"), In("rts"), In("data")} /\ (link' = In("group") <=> tx.to = Group)
  BY <1>1, StartType
<1>3. /\ hist' \in [tail : SUBSET Msdus, reused : SUBSET Msdus, pauses : 0 .. MaxSleeps]
      /\ hist'.tail = hist.tail \cup {} /\ hist'.pauses = hist.pauses
      /\ hist.reused \subseteq hist'.reused
      /\ tx.retry /\ tx.packet \in hist'.tail => tx.packet \in hist'.reused
  BY <1>1, SentType
<1>4. UNCHANGED <<queued, queue, next, last, up, done>> /\ asked' = 0
  BY DEF GrantAgain
<1>5. QueueTyped' /\ HeaderTyped' /\ NumbersTyped' /\ DoneTyped'
  BY <1>1, <1>3, <1>4, TypeOKParts DEF QueueTyped, HeaderTyped, NumbersTyped, DoneTyped
<1> QED BY <1>1, <1>2, <1>3, <1>4, <1>5, TypeOKNext DEF PlacesKept, Reported

LEMMA InternalCollisionMoves ==
  ASSUME TypeOK, InternalCollisionOfCurrent \/ InternalCollisionOfHead
  PROVE  TypeOK' /\ (Settles \/ PlacesKept)
<1>1. UNCHANGED <<queued, queue, asked, next, link, last, up, hist>> /\ link = Idle
  BY DEF InternalCollisionOfCurrent, InternalCollisionOfHead
<1>2. tx \in Headers /\ done \in Reports
  BY TypeOKParts DEF HeaderTyped, DoneTyped
<1>3. CASE InternalCollisionOfCurrent
  <2>1. tx.packet # 0 /\ {tx.packet} \in SUBSET Msdus
    BY <1>2, <1>3 DEF InternalCollisionOfCurrent, Headers, Msdus
  <2>2. done' \in Reports /\ Reported({}, {tx.packet}, {})
    BY <1>2, <1>3, <2>1, ReportsChanged DEF InternalCollisionOfCurrent
  <2>3. tx' \in Headers /\ tx'.packet = 0
    BY <1>2, <1>3, HeaderChanged DEF InternalCollisionOfCurrent
  <2>4. QueueTyped' /\ HeaderTyped' /\ NumbersTyped' /\ LinkTyped' /\ DoneTyped'
    BY <1>1, <2>2, <2>3, TypeOKParts
       DEF QueueTyped, HeaderTyped, NumbersTyped, LinkTyped, DoneTyped, Idle, In
  <2> QED BY <1>1, <2>1, <2>2, <2>3, <2>4, TypeOKNext DEF Settles
<1>4. CASE InternalCollisionOfHead
  <2>1. tx' = tx /\ {queue[1].id} \in SUBSET Msdus
    BY <1>4, TypeOKParts, QueuePackets DEF InternalCollisionOfHead, Positions, QueueTyped
  <2>2. done' \in Reports /\ Reported({}, {}, {})
    BY <1>2, <1>4, <2>1, ReportsChanged DEF InternalCollisionOfHead
  <2>3. QueueTyped' /\ HeaderTyped' /\ NumbersTyped' /\ LinkTyped' /\ DoneTyped'
    BY <1>1, <2>1, <2>2, TypeOKParts DEF QueueTyped, HeaderTyped, NumbersTyped, LinkTyped, DoneTyped
  <2> QED BY <1>1, <2>1, <2>2, <2>3, TypeOKNext DEF PlacesKept
<1> QED BY <1>3, <1>4

\* The current packet is given up.
LEMMA GiveUpMoves ==
  ASSUME TypeOK, GiveUp, tx.packet # 0, queue' = queue, queued' = queued
  PROVE  tx' \in Headers /\ tx'.to = tx.to /\ tx'.seq = tx.seq /\ tx'.retry = tx.retry
         /\ done' \in Reports /\ Settles
<1>1. tx \in Headers /\ done \in Reports
  BY TypeOKParts DEF HeaderTyped, DoneTyped
<1>2. {tx.packet} \in SUBSET Msdus
  BY <1>1 DEF Headers, Msdus
<1>3. done' \in Reports /\ Reported({}, {tx.packet}, {})
  BY <1>1, <1>2, ReportsChanged DEF GiveUp
<1>4. tx' = [tx EXCEPT !.packet = 0] /\ 0 \in 0 .. MaxMsdus
  BY DEF GiveUp
<1> QED BY <1>1, <1>3, <1>4, HeaderChanged DEF Settles

\* The current packet is kept, to be sent again.
LEMMA RetransmitMoves ==
  ASSUME TypeOK, Retransmit, queue' = queue, queued' = queued
  PROVE  tx' \in Headers /\ tx'.packet = tx.packet /\ tx'.to = tx.to /\ tx'.seq = tx.seq
         /\ tx'.retry /\ PlacesKept
<1>1. tx \in Headers
  BY TypeOKParts DEF HeaderTyped
<1>2. tx.packet \in 0 .. MaxMsdus
  BY <1>1, HeaderFields
<1> QED BY <1>1, <1>2, HeaderChanged DEF Retransmit, PlacesKept, Reported
LEMMA GotCtsMoves == ASSUME TypeOK, GotCts PROVE TypeOK' /\ PlacesKept
<1>1. /\ UNCHANGED <<queued, queue, tx, asked, next, last, up, done, hist>>
      /\ link = In("rts") /\ link' = In("data")
  BY DEF GotCts
<1>2. QueueTyped' /\ HeaderTyped' /\ NumbersTyped' /\ LinkTyped' /\ DoneTyped'
  BY <1>1, TypeOKParts DEF QueueTyped, HeaderTyped, NumbersTyped, LinkTyped, DoneTyped, Links, In
<1> QED BY <1>1, <1>2, TypeOKNext DEF PlacesKept, Reported

\* In an exchange there is a current packet, to a recipient unless it goes to the group.
LEMMA InExchange ==
  ASSUME TypeOK, link.st \in {"rts", "data", "ack"}
  PROVE  tx.packet \in Msdus /\ tx.packet # 0 /\ tx.to \in Recipients
<1>1. tx.packet # 0 /\ tx.to # Group /\ tx \in Headers
  BY TypeOKParts DEF LinkTyped, HeaderTyped
<1> QED BY <1>1 DEF Headers, Msdus, Dests

\* The end of an exchange: the medium is left, a request is made, and the packet is
\* settled or kept.
LEMMA EndType ==
  ASSUME TypeOK, tx' \in Headers, done' \in Reports, link' = Idle, asked' \in 0 .. MaxMsdus,
         UNCHANGED <<queued, queue, next, last, up, hist>>
  PROVE  TypeOK'
<1>1. QueueTyped' /\ HeaderTyped' /\ NumbersTyped' /\ LinkTyped' /\ DoneTyped'
  BY TypeOKParts DEF QueueTyped, HeaderTyped, NumbersTyped, LinkTyped, DoneTyped, Idle, In, Links
<1> QED BY <1>1, TypeOKNext

LEMMA MissedMoves ==
  ASSUME TypeOK, MissedCts \/ MissedAck
  PROVE  /\ TypeOK' /\ tx'.to = tx.to /\ tx'.seq = tx.seq
         /\ Settles \/ (PlacesKept /\ (tx'.retry \/ (link = In("rts") /\ tx'.retry = tx.retry)))
<1>1. /\ UNCHANGED <<queued, queue, next, last, up, hist>> /\ link' = Idle
      /\ asked' = RestartAccessIfNeeded(asked)
  BY DEF MissedCts, MissedAck
<1>2. tx \in Headers /\ tx.packet # 0 /\ asked \in 0 .. MaxMsdus /\ queue \in Seq(Packets) /\ done \in Reports
  <2>1. link.st \in {"rts", "data", "ack"}
    BY DEF MissedCts, MissedAck, In
  <2> QED BY <2>1, InExchange, TypeOKParts DEF HeaderTyped, QueueTyped, DoneTyped
<1>3. tx' \in Headers /\ done' \in Reports => TypeOK'
  BY <1>1, <1>2, RequestType, EndType
<1>4. CASE GiveUp
  BY <1>1, <1>2, <1>3, <1>4, GiveUpMoves
<1>5. CASE Retransmit
  <2>1. done' = done
    BY <1>5 DEF Retransmit
  <2> QED BY <1>1, <1>2, <1>3, <1>5, <2>1, RetransmitMoves
<1>6. CASE link = In("rts") /\ UNCHANGED <<tx, done>>
  BY <1>1, <1>2, <1>3, <1>6 DEF PlacesKept, Reported
<1> QED BY <1>4, <1>5, <1>6 DEF MissedCts, MissedAck

\* A packet that is passed up is the last one of its recipient.
LEMMA ArriveMoves ==
  ASSUME TypeOK, Arrive
  PROVE  TypeOK' /\ PlacesKept
<1>1. /\ UNCHANGED <<queued, queue, tx, asked, next, done, hist>>
      /\ link = In("data") /\ link' = In("ack")
  BY DEF Arrive
<1>2. tx.packet \in Msdus /\ tx.to \in Recipients
  BY <1>1, InExchange DEF In
<1>3. last' \in [Recipients -> 0 .. SeqSpace] /\ up' \in [Recipients -> Seq(Msdus)]
  <2>1. tx.seq \in 0 .. SeqSpace /\ Append(up[tx.to], tx.packet) \in Seq(Msdus)
    BY <1>2, TypeOKParts DEF HeaderTyped, Headers, NumbersTyped
  <2> QED BY <1>2, <2>1, TypeOKParts DEF Arrive, NumbersTyped
<1>4. QueueTyped' /\ HeaderTyped' /\ NumbersTyped' /\ LinkTyped' /\ DoneTyped'
  BY <1>1, <1>3, TypeOKParts DEF QueueTyped, HeaderTyped, NumbersTyped, LinkTyped, DoneTyped, Links, In
<1> QED BY <1>1, <1>4, TypeOKNext DEF PlacesKept, Reported

LEMMA GotAckMoves ==
  ASSUME TypeOK, GotAck
  PROVE  /\ TypeOK' /\ Settles /\ link'.st = "sifs"
         /\ asked' = asked \/ asked' = RestartAccessIfNeeded(asked)
<1>1. /\ UNCHANGED <<queued, queue, next, last, up, hist>> /\ link = In("ack")
      /\ done' = [done EXCEPT !.ok = @ \cup {tx.packet}]
      /\ tx' = [tx EXCEPT !.packet = 0]
  BY DEF GotAck
<1>2. /\ tx \in Headers /\ tx.packet \in Msdus /\ tx.packet # 0
      /\ asked \in 0 .. MaxMsdus /\ queue \in Seq(Packets) /\ done \in Reports
  BY <1>1, InExchange, TypeOKParts DEF HeaderTyped, QueueTyped, DoneTyped, In
<1>3. tx' \in Headers /\ tx'.packet = 0
  BY <1>1, <1>2, HeaderChanged
<1>4. done' \in Reports /\ Reported({tx.packet}, {}, {})
  BY <1>1, <1>2, ReportsChanged
<1>5. asked' \in 0 .. MaxMsdus /\ (asked' = asked \/ asked' = RestartAccessIfNeeded(asked))
  BY <1>1, <1>2, <1>3, RequestType DEF GotAck
<1>6. \E over \in 0 .. MaxMsdus : link' = Sifs(over)
  <2>1. ASSUME NEW i \in PeekByTidAndAddress(tx.to) PROVE queue[i].id \in 0 .. MaxMsdus
    BY QueuePackets, TypeOKParts DEF PeekByTidAndAddress, Positions, Msdus
  <2>2. 0 \in 0 .. MaxMsdus
    OBVIOUS
  <2> QED BY <2>1, <2>2 DEF GotAck
<1>7. link' \in Links /\ link'.st = "sifs"
  BY <1>6 DEF Links, Sifs
<1>8. QueueTyped' /\ HeaderTyped' /\ NumbersTyped' /\ LinkTyped' /\ DoneTyped'
  BY <1>1, <1>3, <1>4, <1>5, <1>7, TypeOKParts
     DEF QueueTyped, HeaderTyped, NumbersTyped, LinkTyped, DoneTyped
<1> QED BY <1>1, <1>2, <1>3, <1>4, <1>5, <1>7, <1>8, TypeOKNext DEF Settles

LEMMA StartNextNothingMoves == ASSUME TypeOK, StartNextNothing PROVE TypeOK' /\ PlacesKept
<1>1. /\ UNCHANGED <<queued, queue, tx, asked, next, last, up, done, hist>> /\ link' = Idle
  BY DEF StartNextNothing
<1>2. QueueTyped' /\ HeaderTyped' /\ NumbersTyped' /\ LinkTyped' /\ DoneTyped'
  BY <1>1, TypeOKParts DEF QueueTyped, HeaderTyped, NumbersTyped, LinkTyped, DoneTyped, Links, Idle, In
<1> QED BY <1>1, <1>2, TypeOKNext DEF PlacesKept, Reported
\* StartNext takes the first packet to the recipient of the packet before, and sends it
\* with what is left of that one's header.
LEMMA StartNextMoves ==
  ASSUME TypeOK, StartNext
  PROVE  /\ TypeOK' /\ tx'.to = tx.to /\ tx'.seq = tx.seq /\ tx'.retry = tx.retry
         /\ \E i \in Positions :
              /\ Takes(i) /\ queue[i].to = tx.to /\ \A j \in 1 .. i - 1 : queue[j].to # tx.to
              /\ hist'.tail = hist.tail \cup {queue[i].id}
         /\ hist'.pauses = hist.pauses /\ hist.reused \subseteq hist'.reused
         /\ tx'.retry => tx'.packet \in hist'.reused
         /\ link' \in {In("group"), In("rts"), In("data")} /\ (link' = In("group") <=> tx.to = Group)
<1>1. PICK i \in PeekByTidAndAddress(tx.to) :
        /\ tx' = [tx EXCEPT !.packet = queue[i].id]
        /\ queue' = RemoveAt(queue, i)
        /\ Sent(tx', {queue[i].id})
  BY DEF StartNext
<1>2. i \in Positions /\ queue[i].to = tx.to /\ \A j \in 1 .. i - 1 : queue[j].to # tx.to
  BY DEF PeekByTidAndAddress, Positions
<1>3. queue[i].id \in Msdus /\ queue \in Seq(Packets) /\ tx \in Headers
  BY <1>2, TypeOKParts, QueuePackets DEF QueueTyped, HeaderTyped
<1>4. queue[i].id \in 0 .. MaxMsdus /\ queue[i].id # 0
  BY <1>3 DEF Msdus
<1>5. /\ tx' \in Headers /\ tx'.packet = queue[i].id /\ tx'.to = tx.to
      /\ tx'.seq = tx.seq /\ tx'.retry = tx.retry
  BY <1>1, <1>3, <1>4, HeaderChanged
<1>6. Without(queue', queue, i)
  BY <1>1, <1>2, <1>3, RemoveAtWithout DEF Positions
<1>7. /\ UNCHANGED <<queued, asked, next, last, up, done>> /\ StartTransmission(tx') /\ tx.packet = 0
  BY TypeOKParts DEF StartNext, LinkTyped
<1>8. LinkTyped' /\ link' \in {In("group"), In("rts"), In("data")} /\ (link' = In("group") <=> tx'.to = Group)
  BY <1>4, <1>5, <1>7, StartType
<1>9. /\ hist' \in [tail : SUBSET Msdus, reused : SUBSET Msdus, pauses : 0 .. MaxSleeps]
      /\ hist'.tail = hist.tail \cup {queue[i].id} /\ hist'.pauses = hist.pauses
      /\ hist.reused \subseteq hist'.reused
      /\ tx'.retry /\ tx'.packet \in hist'.tail => tx'.packet \in hist'.reused
  <2>1. {queue[i].id} \in SUBSET Msdus
    BY <1>3
  <2> QED BY <1>1, <1>4, <1>5, <2>1, SentType
<1>10. QueueTyped' /\ HeaderTyped' /\ NumbersTyped' /\ DoneTyped'
  BY <1>5, <1>6, <1>7, <1>9, TypeOKParts DEF QueueTyped, HeaderTyped, NumbersTyped, DoneTyped, Without
<1>11. Takes(i)
  BY <1>5, <1>6, <1>7 DEF Takes, Reported
<1> QED BY <1>2, <1>5, <1>8, <1>9, <1>10, <1>11, TypeOKNext

LEMMA EndTxNoAckMoves ==
  ASSUME TypeOK, EndTxNoAck
  PROVE  /\ TypeOK' /\ Settles /\ link' = Idle
         /\ asked' = IF asked # 0 THEN asked ELSE HeadId(queue)
<1>1. /\ UNCHANGED <<queued, queue, next, last, up, hist>> /\ link = In("group") /\ link' = Idle
      /\ done' = [done EXCEPT !.gone = @ \cup {tx.packet}]
      /\ tx' = [tx EXCEPT !.packet = 0] /\ asked' = StartAccessIfNeeded
  BY DEF EndTxNoAck
<1>2. /\ tx \in Headers /\ tx.packet # 0 /\ asked \in 0 .. MaxMsdus
      /\ queue \in Seq(Packets) /\ done \in Reports
  BY <1>1, TypeOKParts DEF HeaderTyped, QueueTyped, DoneTyped, LinkTyped, In
<1>3. tx' \in Headers /\ tx'.packet = 0
  BY <1>1, <1>2, HeaderChanged
<1>4. {tx.packet} \in SUBSET Msdus
  BY <1>2 DEF Headers, Msdus
<1>5. done' \in Reports /\ Reported({}, {}, {tx.packet})
  BY <1>1, <1>2, <1>4, ReportsChanged
<1>6. asked' = IF asked # 0 THEN asked ELSE HeadId(queue)
  BY <1>1, <1>3 DEF StartAccessIfNeeded
<1>7. TypeOK'
  BY <1>1, <1>2, <1>3, <1>5, <1>6, HeadIdType, EndType
<1> QED BY <1>1, <1>2, <1>3, <1>5, <1>6, <1>7 DEF Settles

\* A sleep or a switch more.
LEMMA PauseType ==
  ASSUME TypeOK, Pause
  PROVE  /\ hist' \in [tail : SUBSET Msdus, reused : SUBSET Msdus, pauses : 0 .. MaxSleeps]
         /\ hist'.tail = hist.tail /\ hist'.reused = hist.reused /\ hist'.pauses = hist.pauses + 1
         /\ hist.pauses \in Nat
<1>1. hist \in [tail : SUBSET Msdus, reused : SUBSET Msdus, pauses : 0 .. MaxSleeps]
  BY TypeOKParts DEF DoneTyped
<1>2. hist.pauses + 1 \in 0 .. MaxSleeps
  BY <1>1 DEF Pause
<1> QED BY <1>1, <1>2 DEF Pause

LEMMA NotifySleepMoves ==
  ASSUME TypeOK, NotifySleep
  PROVE  TypeOK' /\ (PutsBack \/ PlacesKept)
<1>1. /\ UNCHANGED <<queued, asked, next, last, up, done>> /\ link' = In("asleep")
      /\ tx' = [tx EXCEPT !.packet = 0] /\ Pause
      /\ queue' = IF tx.packet = 0 THEN queue ELSE << [id |-> tx.packet, to |-> tx.to] >> \o queue
  BY DEF NotifySleep
<1>2. tx \in Headers /\ queue \in Seq(Packets)
  BY TypeOKParts DEF HeaderTyped, QueueTyped
<1>3. tx' \in Headers /\ tx'.packet = 0
  BY <1>1, <1>2, HeaderChanged
<1>4. hist' \in [tail : SUBSET Msdus, reused : SUBSET Msdus, pauses : 0 .. MaxSleeps]
  BY <1>1, PauseType
<1>5. queue' \in Seq(Packets) => TypeOK'
  <2>1. queue' \in Seq(Packets) => QueueTyped' /\ HeaderTyped' /\ NumbersTyped' /\ LinkTyped' /\ DoneTyped'
    BY <1>1, <1>3, <1>4, TypeOKParts DEF QueueTyped, HeaderTyped, NumbersTyped, LinkTyped, DoneTyped, In, Links
  <2> QED BY <2>1, TypeOKNext
<1>6. CASE tx.packet = 0
  BY <1>1, <1>2, <1>3, <1>5, <1>6 DEF PlacesKept, Reported
<1>7. CASE tx.packet # 0
  <2> DEFINE p == [id |-> tx.packet, to |-> tx.to]
  <2>1. p \in Packets
    BY <1>2, <1>7 DEF Headers, Packets, Msdus
  <2>2. queue' = << p >> \o queue
    BY <1>1, <1>7
  <2> HIDE DEF p
  <2>3. << p >> \in Seq(Packets) /\ Len(<< p >>) = 1 /\ << p >>[1] = p
    BY <2>1
  <2>4. queue' \in Seq(Packets) /\ Len(queue') = Len(queue) + 1
    BY <1>2, <2>2, <2>3, ConcatProperties
  <2>5. queue'[1] = p /\ \A j \in Positions : queue'[j + 1] = queue[j]
    BY <1>2, <2>2, <2>3, ConcatProperties DEF Positions
  <2>6. PutsBack
    BY <1>1, <1>3, <1>7, <2>4, <2>5 DEF PutsBack, Reported, p
  <2> QED BY <1>5, <2>4, <2>6
<1> QED BY <1>6, <1>7

LEMMA NotifyWakeUpMoves == ASSUME TypeOK, NotifyWakeUp PROVE TypeOK' /\ PlacesKept
<1>1. /\ UNCHANGED <<queued, queue, tx, next, last, up, done, hist>> /\ link' = Idle
      /\ asked' = RestartAccessIfNeeded(0)
  BY DEF NotifyWakeUp
<1>2. asked' \in 0 .. MaxMsdus
  BY <1>1, RequestType, TypeOKParts DEF QueueTyped, HeaderTyped
<1>3. QueueTyped' /\ HeaderTyped' /\ NumbersTyped' /\ LinkTyped' /\ DoneTyped'
  BY <1>1, <1>2, TypeOKParts DEF QueueTyped, HeaderTyped, NumbersTyped, LinkTyped, DoneTyped, Links, Idle, In
<1> QED BY <1>1, <1>3, TypeOKNext DEF PlacesKept, Reported

LEMMA NotifyChannelSwitchingMoves == ASSUME TypeOK, NotifyChannelSwitching PROVE TypeOK' /\ Flushes
<1> DEFINE flushed == {queue[i].id : i \in Positions} \cup ({tx.packet} \ {0})
<1>1. /\ UNCHANGED <<queued, next, last, up>> /\ link' = Idle /\ asked' = 0
      /\ tx' = [tx EXCEPT !.packet = 0] /\ Pause /\ queue' = << >>
  BY DEF NotifyChannelSwitching
<1>2. tx \in Headers /\ done \in Reports /\ queue \in Seq(Packets)
  BY TypeOKParts DEF HeaderTyped, DoneTyped, QueueTyped
<1>3. tx' \in Headers /\ tx'.packet = 0
  BY <1>1, <1>2, HeaderChanged
<1>4. hist' \in [tail : SUBSET Msdus, reused : SUBSET Msdus, pauses : 0 .. MaxSleeps]
  BY <1>1, PauseType
<1>5. {p.id : p \in ToSet(queue)} = {queue[i].id : i \in Positions}
  BY <1>2 DEF ToSet, Positions
<1>6. flushed \in SUBSET Msdus
  BY <1>2, QueuePackets, TypeOKParts DEF Headers, Msdus
<1>7. done' = [done EXCEPT !.gone = @ \cup flushed]
  <2>1. done' = [done EXCEPT !.gone = @ \cup {p.id : p \in ToSet(queue)} \cup ({tx.packet} \ {0})]
    BY DEF NotifyChannelSwitching
  <2> QED BY <1>5, <2>1
<1> HIDE DEF flushed
<1>8. done' \in Reports /\ Reported({}, {}, flushed)
  BY <1>2, <1>6, <1>7, ReportsChanged
<1>9. QueueTyped' /\ HeaderTyped' /\ NumbersTyped' /\ LinkTyped' /\ DoneTyped'
  BY <1>1, <1>3, <1>4, <1>8, TypeOKParts
     DEF QueueTyped, HeaderTyped, NumbersTyped, LinkTyped, DoneTyped, Idle, In, Links
<1> QED BY <1>1, <1>3, <1>8, <1>9, TypeOKNext DEF Flushes, flushed

\* Every step moves the packets in one of the ways above.
LEMMA StepMoves == ASSUME TypeOK, Next PROVE TypeOK' /\ Moves
  BY QueueMoves, ExpireMoves, GrantNothingMoves, GrantNextMoves, GrantAgainMoves, InternalCollisionMoves,
     GotCtsMoves, MissedMoves, ArriveMoves, GotAckMoves, StartNextNothingMoves, StartNextMoves,
     EndTxNoAckMoves, NotifySleepMoves, NotifyWakeUpMoves, NotifyChannelSwitchingMoves, Zenon
  DEF Next, Moves
-----------------------------------------------------------------------------
(* A packet is in one place, and reported once *)

\* A step that reports nothing leaves what is settled.
LEMMA SettledNext ==
  ASSUME NEW ok, NEW failed, NEW gone, Reported(ok, failed, gone)
  PROVE  Settled' = Settled \cup ok \cup failed \cup gone
  BY DEF Reported, Settled

LEMMA NothingReported ==
  ASSUME Reported({}, {}, {}), Disjoint
  PROVE  Settled' = Settled /\ Disjoint'
<1>1. done'.ok = done.ok /\ done'.failed = done.failed /\ done'.gone = done.gone
  BY DEF Reported
<1> QED BY <1>1 DEF Settled, Disjoint

\* A packet leaves the queue.
LEMMA WithoutDistinct ==
  ASSUME TypeOK, Distinct, NEW i \in Positions, Without(queue', queue, i)
  PROVE  /\ \A j, k \in Positions' : queue'[j].id = queue'[k].id => j = k
         /\ \A j \in Positions' : /\ queue'[j].id # queue[i].id /\ queue'[j].id # tx.packet
                                  /\ queue'[j].id \notin Settled /\ queue'[j].id <= queued
<1> DEFINE at(j) == IF j < i THEN j ELSE j + 1
<1>1. Len(queue) \in Nat /\ Len(queue') = Len(queue) - 1
  BY TypeOKParts DEF QueueTyped, Without
<1>2. \A j \in Positions' : at(j) \in Positions /\ at(j) # i /\ queue'[j] = queue[at(j)] /\ j \in Nat
  BY <1>1 DEF Positions, Without
<1>3. \A j, k \in Positions' : at(j) = at(k) => j = k
  BY <1>1, <1>2 DEF Positions
<1> HIDE DEF at
<1> QED BY <1>2, <1>3 DEF Distinct

LEMMA DistinctStep ==
  ASSUME TypeOK, TypeOK', Distinct, Disjoint, Moves
  PROVE  Distinct' /\ Disjoint'
<1>0. /\ tx.packet \in Nat /\ queued \in Nat /\ Len(queue) \in Nat
      /\ \A i \in Positions : queue[i].id \in Nat \ {0}
      /\ \A m \in Settled : m \in Nat \ {0}
  <2>1. \A i \in Positions : queue[i].id \in Nat \ {0}
    BY TypeOKParts, QueuePackets DEF Msdus
  <2>2. \A m \in Settled : m \in Nat \ {0}
    BY TypeOKParts DEF DoneTyped, Reports, Settled, Msdus
  <2> QED BY <2>1, <2>2, TypeOKParts, HeaderFields DEF QueueTyped, HeaderTyped
<1>1. CASE PlacesKept
  <2>1. Settled' = Settled /\ Disjoint'
    BY <1>1, NothingReported DEF PlacesKept
  <2> QED BY <1>1, <2>1 DEF PlacesKept, Distinct, Positions
<1>2. CASE Settles
  <2>1. Settled' = Settled \cup {tx.packet}
    BY <1>2, SettledNext DEF Settles
  <2>2. Disjoint'
    BY <1>2 DEF Settles, Reported, Disjoint, Distinct, Settled
  <2>3. Distinct'
    BY <1>0, <1>2, <2>1 DEF Settles, Distinct, Positions
  <2> QED BY <2>2, <2>3
<1>3. ASSUME NEW i \in Positions, Takes(i) PROVE Distinct' /\ Disjoint'
  <2>1. Settled' = Settled /\ Disjoint'
    BY <1>3, NothingReported DEF Takes
  <2>2. /\ \A j, k \in Positions' : queue'[j].id = queue'[k].id => j = k
        /\ \A j \in Positions' : /\ queue'[j].id # queue[i].id
                                 /\ queue'[j].id \notin Settled /\ queue'[j].id <= queued
    BY <1>3, WithoutDistinct DEF Takes
  <2> QED BY <1>3, <2>1, <2>2 DEF Takes, Distinct
<1>4. ASSUME NEW i \in Positions, Drops(i) PROVE Distinct' /\ Disjoint'
  <2>1. Settled' = Settled \cup {queue[i].id}
    BY <1>4, SettledNext DEF Drops
  <2>2. Disjoint'
    BY <1>4 DEF Drops, Reported, Disjoint, Distinct, Settled
  <2>3. /\ \A j, k \in Positions' : queue'[j].id = queue'[k].id => j = k
        /\ \A j \in Positions' : /\ queue'[j].id # queue[i].id /\ queue'[j].id # tx.packet
                                 /\ queue'[j].id \notin Settled /\ queue'[j].id <= queued
    BY <1>4, WithoutDistinct DEF Drops
  <2> QED BY <1>4, <2>1, <2>2, <2>3 DEF Drops, Distinct
<1>5. CASE Appends
  <2>1. Settled' = Settled /\ Disjoint'
    BY <1>5, NothingReported DEF Appends
  <2>2. \A j \in Positions' : \/ j \in Positions /\ queue'[j] = queue[j]
                              \/ j = Len(queue) + 1 /\ queue'[j].id = queued + 1
    BY <1>0, <1>5 DEF Appends, Positions
  <2>3. tx'.packet = tx.packet /\ queued' = queued + 1
    BY <1>5 DEF Appends
  <2>4. \A j, k \in Positions' : queue'[j].id = queue'[k].id => j = k
    BY <1>0, <2>2 DEF Distinct
  <2>5. \A j \in Positions' : queue'[j].id # tx.packet /\ queue'[j].id \notin Settled /\ queue'[j].id <= queued + 1
    BY <1>0, <2>2 DEF Distinct
  <2> QED BY <1>0, <2>1, <2>3, <2>4, <2>5 DEF Distinct
<1>6. CASE PutsBack
  <2>1. Settled' = Settled /\ Disjoint'
    BY <1>6, NothingReported DEF PutsBack
  <2>2. \A j \in Positions' : \/ j = 1 /\ queue'[j].id = tx.packet
                              \/ j - 1 \in Positions /\ queue'[j] = queue[j - 1]
    <3>1. ASSUME NEW j \in Positions', j # 1 PROVE j - 1 \in Positions /\ queue'[j] = queue[j - 1]
      <4>1. j - 1 \in Positions /\ (j - 1) + 1 = j
        BY <1>0, <1>6, <3>1 DEF PutsBack, Positions
      <4> QED BY <1>6, <4>1 DEF PutsBack
    <3> QED BY <1>6, <3>1 DEF PutsBack
  <2>3. \A j, k \in Positions' : queue'[j].id = queue'[k].id => j = k
    <3>1. \A j \in Positions' : j \in Int
      BY <1>0, <1>6 DEF PutsBack, Positions
    <3> QED BY <2>2, <3>1 DEF Distinct
  <2>4. tx'.packet = 0 /\ queued' = queued /\ tx.packet # 0
    BY <1>6 DEF PutsBack
  <2>5. \A j \in Positions' : queue'[j].id # 0 /\ queue'[j].id \notin Settled /\ queue'[j].id <= queued
    BY <1>0, <2>2, <2>4 DEF Distinct
  <2> QED BY <1>0, <2>1, <2>3, <2>4, <2>5 DEF Distinct
<1>7. CASE Flushes
  <2>1. Positions' = {} /\ tx'.packet = 0 /\ queued' = queued
    BY <1>7 DEF Flushes, Positions
  <2>2. Settled' = Settled \cup {queue[i].id : i \in Positions} \cup ({tx.packet} \ {0})
    BY <1>7, SettledNext DEF Flushes
  <2>3. Disjoint'
    BY <1>7 DEF Flushes, Reported, Disjoint, Distinct, Settled
  <2> QED BY <1>0, <2>1, <2>2, <2>3 DEF Distinct
<1> QED BY <1>1, <1>2, <1>3, <1>4, <1>5, <1>6, <1>7 DEF Moves

LEMMA InitCore == Init => CoreInv
<1> SUFFICES ASSUME Init PROVE CoreInv
  OBVIOUS
<1>1. Len(queue) = 0 /\ queue \in Seq(Packets) /\ Positions = {}
  BY DEF Init, Positions
<1>2. Settled = {}
  BY DEF Init, Settled
<1>3. TypeOK
  <2>1. << >> \in Seq(Msdus) /\ 0 \in 0 .. SeqSpace - 1 /\ Group \in Dests
    BY DEF Dests
  <2> QED BY <1>1, <2>1 DEF Init, TypeOK, Headers, Links, Idle, In
<1> QED BY <1>1, <1>2, <1>3 DEF Init, CoreInv, Distinct, Disjoint

LEMMA CoreStep == ASSUME CoreInv, [Next]_vars PROVE CoreInv'
<1>1. CASE Next
  BY <1>1, StepMoves, DistinctStep DEF CoreInv
<1>2. CASE UNCHANGED vars
  BY <1>2 DEF vars, CoreInv, TypeOK, Distinct, Disjoint, Positions, Settled
<1> QED BY <1>1, <1>2

THEOREM PacketsInOnePlace == Spec => []CoreInv
  BY InitCore, CoreStep, PTL DEF Spec

\* A packet is reported once, as sent, failed or neither, and never sent after that
\* (m_txOkCallback and m_txFailedCallback of EdcaTxopN), through collisions, retries,
\* TXOPs, sleeps and switches of the channel.
THEOREM EveryReportOnce == Spec => []ReportedOnce
<1>1. CoreInv => ReportedOnce
  <2> SUFFICES ASSUME CoreInv PROVE ReportedOnce
    OBVIOUS
  <2>1. ToSet(queue) = {queue[i] : i \in Positions}
    BY TypeOKParts DEF CoreInv, QueueTyped, ToSet, Positions
  <2> QED BY <2>1 DEF CoreInv, ReportedOnce, Distinct, Disjoint
<1> QED BY <1>1, PacketsInOnePlace, PTL
-----------------------------------------------------------------------------
(* What access was requested for *)

\* A packet that waits for its next transmission has asked for access.
PacketAsked == link = Idle /\ tx.packet # 0 => asked # 0

\* While the PHY is awake, access was requested for a packet that is settled by now, for
\* the current one, or for the head of the queue, which only a TXOP overtakes.
AskedFor ==
  link.st # "asleep" /\ asked # 0 =>
    \/ asked \in Settled
    \/ asked = tx.packet
    \/ asked = HeadId(queue) /\ (tx.packet = 0 \/ tx.packet \in hist.tail)

AskedInv == CoreInv /\ PacketAsked /\ AskedFor

\* A new request is for the current packet, or the head of the queue if there is none.
LEMMA NewRequest ==
  ASSUME asked' = RestartAccessIfNeeded(0)
  PROVE  /\ tx'.packet # 0 => asked' = tx'.packet
         /\ tx'.packet = 0 => asked' = HeadId(queue')
  BY DEF RestartAccessIfNeeded, First

LEMMA OldRequest ==
  ASSUME NEW a, a # 0
  PROVE  RestartAccessIfNeeded(a) = a
  BY DEF RestartAccessIfNeeded

\* What is settled stays settled, and what the kinds of steps settle.
LEMMA SettledGrows ==
  ASSUME Moves
  PROVE  /\ Settled \subseteq Settled'
         /\ Settles => tx.packet \in Settled'
         /\ \A i \in Positions : Drops(i) => queue[i].id \in Settled'
<1>1. ASSUME NEW ok, NEW failed, NEW gone, Reported(ok, failed, gone)
      PROVE  Settled \subseteq Settled' /\ ok \subseteq Settled' /\ failed \subseteq Settled' /\ gone \subseteq Settled'
  BY <1>1, SettledNext
<1>2. Settled \subseteq Settled'
  BY <1>1 DEF Moves, PlacesKept, Settles, Takes, Drops, Appends, PutsBack, Flushes
<1>3. Settles => tx.packet \in Settled'
  BY <1>1 DEF Settles
<1>4. ASSUME NEW i \in Positions, Drops(i) PROVE queue[i].id \in Settled'
  BY <1>1, <1>4 DEF Drops
<1> QED BY <1>2, <1>3, <1>4

\* The head of the queue stays when another packet is taken.
LEMMA HeadStays ==
  ASSUME queue \in Seq(Packets), NEW i \in Positions, Without(queue', queue, i)
  PROVE  HeadId(queue) = queue[i].id \/ HeadId(queue') = HeadId(queue)
<1>1. CASE i = 1
  BY <1>1, HeadIdType DEF Positions
<1>2. CASE i # 1
  <2>1. Len(queue) \in Nat /\ i \in 2 .. Len(queue)
    BY <1>2 DEF Positions
  <2>2. queue' \in Seq(Packets) /\ 1 \in 1 .. Len(queue')
    BY <2>1 DEF Without
  <2>3. queue'[1] = queue[1]
    BY <2>1, <2>2 DEF Without
  <2>4. queue # << >> /\ queue' # << >>
    BY <2>1, <2>2
  <2> QED BY <2>2, <2>3, <2>4, HeadIdType
<1> QED BY <1>1, <1>2

\* The types that the requests need.
LEMMA RequestTypes ==
  ASSUME CoreInv
  PROVE  queue \in Seq(Packets) /\ tx.packet \in 0 .. MaxMsdus /\ asked \in 0 .. MaxMsdus
         /\ hist.tail \subseteq Msdus
         /\ (link.st \in {"sifs", "asleep"} => tx.packet = 0)
  BY TypeOKParts, HeaderFields DEF CoreInv, QueueTyped, HeaderTyped, LinkTyped, DoneTyped

\* The end of an exchange that has settled or kept its packet.
LEMMA EndAsked ==
  ASSUME AskedInv, CoreInv', Moves, Settles \/ PlacesKept, link.st # "asleep",
         asked' = RestartAccessIfNeeded(asked), hist' = hist
  PROVE  PacketAsked' /\ AskedFor'
<1>1. queue' = queue /\ Settled \subseteq Settled' /\ (Settles => tx.packet \in Settled')
  BY SettledGrows DEF Settles, PlacesKept
<1>2. CASE asked = 0
  BY <1>2, NewRequest DEF PacketAsked, AskedFor
<1>3. CASE asked # 0
  <2>1. asked' = asked
    BY <1>3, OldRequest
  <2>2. (tx'.packet = 0 /\ Settles) \/ tx'.packet = tx.packet
    BY DEF Settles, PlacesKept
  <2> QED BY <1>1, <1>3, <2>1, <2>2 DEF AskedInv, PacketAsked, AskedFor
<1> QED BY <1>2, <1>3

\* A step that changes neither the packets nor the requests.
LEMMA SameAsked ==
  ASSUME AskedInv, PlacesKept, asked' = asked, hist'.tail = hist.tail, link.st # "asleep",
         link' = Idle => tx.packet = 0 \/ asked # 0
  PROVE  PacketAsked' /\ AskedFor'
<1>1. Settled' = Settled /\ queue' = queue /\ tx'.packet = tx.packet
  BY NothingReported DEF PlacesKept, AskedInv, CoreInv
<1> QED BY <1>1 DEF AskedInv, PacketAsked, AskedFor

LEMMA QueueAsked ==
  ASSUME AskedInv, Moves, NEW d \in Dests, Queue(d), Appends
  PROVE  PacketAsked' /\ AskedFor'
<1>1. tx' = tx /\ link' = link /\ hist' = hist /\ Settled \subseteq Settled'
  BY SettledGrows DEF Queue
<1>2. link.st # "asleep" => asked' = IF asked # 0 \/ tx.packet # 0 THEN asked ELSE HeadId(queue')
  BY <1>1 DEF Queue, StartAccessIfNeeded
<1>3. queue # << >> => HeadId(queue') = HeadId(queue)
  <2>1. queue \in Seq(Packets) /\ queue' \in Seq(Packets) /\ Len(queue') = Len(queue) + 1
    BY RequestTypes DEF AskedInv, Appends
  <2>2. queue # << >> => queue'[1] = queue[1] /\ queue' # << >>
    BY <2>1 DEF Appends, Positions
  <2> QED BY <2>1, <2>2, HeadIdType
<1>4. HeadId(queue) # 0 => queue # << >>
  BY DEF HeadId
<1>5. link = Idle => link.st # "asleep"
  BY DEF Idle, In
<1> QED BY <1>1, <1>2, <1>3, <1>4, <1>5 DEF AskedInv, PacketAsked, AskedFor

LEMMA ExpireAsked ==
  ASSUME AskedInv, Moves, Expire, NEW i \in Positions, Drops(i)
  PROVE  PacketAsked' /\ AskedFor'
<1>1. UNCHANGED <<tx, asked, link, hist>>
  BY DEF Expire
<1>2. Settled \subseteq Settled' /\ queue[i].id \in Settled'
  BY SettledGrows
<1>3. HeadId(queue) = queue[i].id \/ HeadId(queue') = HeadId(queue)
  BY HeadStays, RequestTypes DEF AskedInv, Drops
<1> QED BY <1>1, <1>2, <1>3 DEF AskedInv, PacketAsked, AskedFor

LEMMA StartNextAsked ==
  ASSUME AskedInv, Moves, StartNext
  PROVE  PacketAsked' /\ AskedFor'
<1>1. PICK i \in Positions : Takes(i) /\ hist'.tail = hist.tail \cup {queue[i].id}
  BY StartNextMoves DEF AskedInv, CoreInv
<1>2. link' # Idle
  BY StartNextMoves DEF AskedInv, CoreInv, Idle, In
<1>3. tx.packet = 0 /\ link.st # "asleep" /\ asked' = asked
  BY RequestTypes DEF AskedInv, StartNext
<1>4. Settled \subseteq Settled'
  BY SettledGrows
<1>5. HeadId(queue) = queue[i].id \/ HeadId(queue') = HeadId(queue)
  BY <1>1, HeadStays, RequestTypes DEF AskedInv, Takes
<1>6. tx'.packet = queue[i].id /\ tx'.packet \in hist'.tail
  BY <1>1 DEF Takes
<1> QED BY <1>2, <1>3, <1>4, <1>5, <1>6 DEF AskedInv, PacketAsked, AskedFor

LEMMA AskedStep ==
  ASSUME AskedInv, Next
  PROVE  AskedInv'
<1>1. CoreInv' /\ TypeOK /\ Moves
  BY CoreStep, StepMoves DEF AskedInv, CoreInv
<1>2. SUFFICES PacketAsked' /\ AskedFor'
  BY <1>1 DEF AskedInv
<1>3. ASSUME asked' = 0, tx'.packet = 0 \/ link' # Idle PROVE PacketAsked' /\ AskedFor'
  BY <1>3 DEF PacketAsked, AskedFor
<1>4. ASSUME NEW d \in Dests, Queue(d) PROVE PacketAsked' /\ AskedFor'
  BY <1>1, <1>4, QueueMoves, QueueAsked
<1>5. CASE Expire
  BY <1>1, <1>5, ExpireMoves, ExpireAsked
<1>6. CASE GrantNothing
  BY <1>3, <1>6 DEF GrantNothing
<1>7. CASE GrantNext \/ GrantAgain
  <2>1. link' \in {In("group"), In("rts"), In("data")} /\ asked' = 0
    BY <1>1, <1>7, GrantNextMoves, GrantAgainMoves DEF GrantNext, GrantAgain
  <2> QED BY <1>3, <2>1 DEF Idle, In
<1>8. CASE InternalCollisionOfCurrent \/ InternalCollisionOfHead
  <2>1. /\ asked' = RestartAccessIfNeeded(asked) /\ hist' = hist /\ link.st # "asleep"
        /\ Settles \/ PlacesKept
    BY <1>1, <1>8, InternalCollisionMoves, OldRequest
       DEF InternalCollisionOfCurrent, InternalCollisionOfHead, Idle, In
  <2> QED BY <1>1, <2>1, EndAsked
<1>9. CASE GotCts \/ Arrive
  <2>1. PlacesKept
    BY <1>1, <1>9, GotCtsMoves, ArriveMoves
  <2> QED BY <1>9, <2>1, SameAsked DEF GotCts, Arrive, Idle, In
<1>10. CASE MissedCts \/ MissedAck
  <2>1. Settles \/ PlacesKept
    BY <1>1, <1>10, MissedMoves
  <2> QED BY <1>1, <1>10, <2>1, EndAsked DEF MissedCts, MissedAck, In
<1>11. CASE GotAck
  <2>1. /\ Settles /\ link'.st = "sifs" /\ hist' = hist /\ link.st # "asleep"
        /\ asked' = asked \/ asked' = RestartAccessIfNeeded(asked)
    BY <1>1, <1>11, GotAckMoves DEF GotAck, In
  <2>2. CASE asked = 0 /\ asked' = asked
    <3>1. link' # Idle
      BY <2>1 DEF Idle, In
    <3> QED BY <1>3, <2>2, <3>1
  <2>3. CASE asked' = RestartAccessIfNeeded(asked)
    BY <1>1, <2>1, <2>3, EndAsked
  <2> QED BY <2>1, <2>2, <2>3, OldRequest
<1>12. CASE StartNextNothing
  <2>1. PlacesKept /\ tx.packet = 0
    BY <1>1, <1>12, StartNextNothingMoves, RequestTypes DEF AskedInv, StartNextNothing
  <2> QED BY <1>12, <2>1, SameAsked DEF StartNextNothing
<1>13. CASE StartNext
  BY <1>1, <1>13, StartNextAsked
<1>14. CASE EndTxNoAck
  <2>1. Settles /\ asked' = IF asked # 0 THEN asked ELSE HeadId(queue)
    BY <1>1, <1>14, EndTxNoAckMoves
  <2>2. asked' = RestartAccessIfNeeded(asked)
    BY <2>1 DEF RestartAccessIfNeeded, First, Settles
  <2> QED BY <1>1, <1>14, <2>1, <2>2, EndAsked DEF EndTxNoAck, In
<1>15. CASE NotifySleep
  BY <1>15 DEF NotifySleep, PacketAsked, AskedFor, Idle, In
<1>16. CASE NotifyWakeUp
  <2>1. tx'.packet = 0 /\ asked' = RestartAccessIfNeeded(0)
    BY <1>16, RequestTypes DEF AskedInv, NotifyWakeUp
  <2> QED BY <2>1, NewRequest DEF PacketAsked, AskedFor
<1>17. CASE NotifyChannelSwitching
  <2>1. tx'.packet = 0 /\ asked' = 0
    BY <1>1, <1>17, NotifyChannelSwitchingMoves DEF Flushes, NotifyChannelSwitching
  <2> QED BY <1>3, <2>1
<1> QED
  BY <1>4, <1>5, <1>6, <1>7, <1>8, <1>9, <1>10, <1>11, <1>12, <1>13, <1>14, <1>15, <1>16, <1>17 DEF Next

LEMMA AskedStutter == ASSUME AskedInv, UNCHANGED vars PROVE AskedInv'
<1>1. CoreInv'
  BY CoreStep DEF AskedInv
<1> QED BY <1>1 DEF AskedInv, PacketAsked, AskedFor, vars, Settled

LEMMA AskedAlways == Spec => []AskedInv
<1>1. Init => AskedInv
  BY InitCore DEF Init, AskedInv, PacketAsked, AskedFor
<1>2. AskedInv /\ [Next]_vars => AskedInv'
  BY AskedStep, AskedStutter
<1> QED BY <1>1, <1>2, PTL DEF Spec

\* The packet that access was requested for is the one that a grant or a collision
\* finds, unless it is settled or a TXOP has overtaken it (m_isAccessRequestedForRts and
\* the assertion in EdcaTxopN::NotifyInternalCollision rely on it).
THEOREM RequestIsForFirst == Spec => []AskedForFirst
<1>1. AskedInv => AskedForFirst
  <2> SUFFICES ASSUME AskedInv, link = Idle, asked # 0
               PROVE  LET p == First(tx.packet, queue) IN asked = p \/ asked \in Settled \/ p \in hist.tail
    BY DEF AskedForFirst
  <2>1. link.st # "asleep"
    BY DEF Idle, In
  <2>2. First(tx.packet, queue) = IF tx.packet # 0 THEN tx.packet ELSE HeadId(queue)
    BY DEF First
  <2>3. \/ asked \in Settled
        \/ asked = tx.packet
        \/ asked = HeadId(queue) /\ (tx.packet = 0 \/ tx.packet \in hist.tail)
    BY <2>1 DEF AskedInv, AskedFor
  <2>4. tx.packet \in hist.tail => tx.packet # 0
    BY RequestTypes DEF AskedInv, Msdus
  <2> QED BY <2>2, <2>3, <2>4
<1> QED BY <1>1, AskedAlways, PTL
\* What an end of an exchange leaves without a request.
LEMMA NothingForgotten ==
  ASSUME queue' \in Seq(Packets), NEW a, asked' = RestartAccessIfNeeded(a)
  PROVE  ~Forgotten'
<1>1. CASE a = 0
  BY <1>1, NewRequest DEF Forgotten, First
<1>2. CASE a # 0
  BY <1>2, OldRequest DEF Forgotten
<1> QED BY <1>1, <1>2

LEMMA ForgottenStep ==
  ASSUME AskedInv, Next
  PROVE  /\ Forgotten' => Forgotten \/ link.st = "sifs"
         /\ Forgotten /\ queued' # queued => ~Forgotten'
<1>1. CoreInv' /\ TypeOK /\ queue' \in Seq(Packets) /\ queue \in Seq(Packets)
  BY CoreStep, StepMoves, TypeOKParts DEF AskedInv, CoreInv, TypeOK, QueueTyped
<1>2. ASSUME NEW d \in Dests, Queue(d)
      PROVE  (Forgotten' => Forgotten) /\ (Forgotten => ~Forgotten')
  <2>1. UNCHANGED <<tx, link>>
    BY <1>2 DEF Queue
  <2>2. link = Idle => asked' = IF asked # 0 \/ tx.packet # 0 THEN asked ELSE HeadId(queue')
    BY <1>2, <2>1 DEF Queue, StartAccessIfNeeded, Idle, In
  <2>3. HeadId(queue') # 0
    <3>1. queue' # << >>
      BY <1>1, <1>2, QueueMoves DEF Appends
    <3> QED BY <1>1, <3>1, HeadIdType
  <2>4. link = Idle /\ tx.packet # 0 => asked # 0
    BY DEF AskedInv, PacketAsked
  <2> QED BY <2>1, <2>2, <2>3, <2>4 DEF Forgotten
<1>3. CASE Expire
  <2>1. UNCHANGED <<queued, tx, asked, link>> /\ queue # << >>
    BY <1>3 DEF Expire
  <2> QED BY <1>1, <2>1, HeadIdType DEF Forgotten, First
<1>4. CASE GrantNothing
  BY <1>4 DEF GrantNothing, Forgotten, First, HeadId
<1>5. ASSUME link' # Idle, queued' = queued PROVE ~Forgotten' /\ queued' = queued
  BY <1>5 DEF Forgotten
<1>6. CASE GrantNext \/ GrantAgain
  <2>1. link' \in {In("group"), In("rts"), In("data")} /\ queued' = queued
    BY <1>1, <1>6, GrantNextMoves, GrantAgainMoves DEF GrantNext, GrantAgain
  <2> QED BY <1>5, <2>1 DEF Idle, In
<1>7. CASE InternalCollisionOfCurrent \/ InternalCollisionOfHead
  BY <1>7 DEF InternalCollisionOfCurrent, InternalCollisionOfHead, Forgotten
<1>8. CASE GotCts \/ Arrive \/ NotifySleep
  BY <1>5, <1>8 DEF GotCts, Arrive, NotifySleep, Idle, In
<1>9. CASE MissedCts \/ MissedAck \/ NotifyWakeUp
  BY <1>1, <1>9, NothingForgotten DEF MissedCts, MissedAck, NotifyWakeUp
<1>10. CASE GotAck
  <2>1. link' # Idle /\ queued' = queued
    BY <1>1, <1>10, GotAckMoves DEF GotAck, Idle, In
  <2> QED BY <1>5, <2>1
<1>11. CASE StartNextNothing \/ StartNext
  BY <1>11 DEF StartNextNothing, StartNext
<1>12. CASE EndTxNoAck
  <2>1. Settles /\ queued' = queued /\ asked' = IF asked # 0 THEN asked ELSE HeadId(queue)
    BY <1>1, <1>12, EndTxNoAckMoves DEF EndTxNoAck
  <2> QED BY <2>1 DEF Forgotten, First, Settles
<1>13. CASE NotifyChannelSwitching
  BY <1>1, <1>13, NotifyChannelSwitchingMoves DEF Flushes, Forgotten, First, HeadId
<1> QED
  BY <1>2, <1>3, <1>4, <1>6, <1>7, <1>8, <1>9, <1>10, <1>11, <1>12, <1>13 DEF Next

\* Packets are left without a request only by the end of a TXOP, and only until the next
\* call of EdcaTxopN::Queue (EdcaTxopN::GotAck makes no request if it expects
\* StartNextPacket to send, and EdcaTxopN::StartNext may find that the packet does not
\* fit any more).
THEOREM TxopForgets == Spec => OnlyTxopForgets
<1>1. AskedInv /\ [Next]_vars =>
        [/\ Forgotten' => Forgotten \/ link.st = "sifs"
         /\ Forgotten /\ queued' # queued => ~Forgotten']_vars
  BY ForgottenStep
<1> QED BY <1>1, AskedAlways, PTL DEF Spec, OnlyTxopForgets

-----------------------------------------------------------------------------
(* Sequence numbers *)

\* Fewer packets are taken from the queue than there are sequence numbers: a packet
\* that a sleep puts back is taken again.
NoWrap == MaxMsdus + MaxSleeps < SeqSpace

\* The numbers that are still to be used for the packets to come.
NumbersLeft == \A d \in Dests : next[d] + Len(queue) <= queued + hist.pauses

\* A number in use is below the next one of its destination.
NumbersUsed ==
  /\ \A r \in Recipients : last[r] = SeqSpace \/ last[r] < next[r]
  /\ tx.to \in Recipients => tx.seq < next[tx.to]

\* The recipient knows the number of the current packet only if it has passed it up,
\* unless StartNext has sent it with the number of another.
SameNumber ==
  tx.packet \notin {0} \cup hist.tail /\ tx.to \in Recipients /\ last[tx.to] = tx.seq =>
    tx.packet \in ToSet(up[tx.to])

\* A packet that StartNext has sent is sent with a retry bit.
Reuse ==
  link.st \in {"rts", "data", "ack"} /\ tx.retry /\ tx.packet \in hist.tail => tx.packet \in hist.reused

\* A packet whose ACK is on its way was passed up.
Answered == link.st = "ack" => tx.packet \in ToSet(up[tx.to]) \cup hist.reused

NumberInv ==
  /\ CoreInv
  /\ NumbersLeft /\ NumbersUsed /\ SameNumber /\ Reuse /\ Answered /\ TxOkForwarded

\* The types that the numbers need.
LEMMA NumberTypes ==
  ASSUME TypeOK
  PROVE  /\ \A d \in Dests : next[d] \in 0 .. SeqSpace - 1
         /\ \A r \in Recipients : last[r] \in 0 .. SeqSpace /\ up[r] \in Seq(Msdus) /\ r \in Dests
         /\ Len(queue) \in Nat /\ queued \in 0 .. MaxMsdus /\ hist.pauses \in 0 .. MaxSleeps
         /\ tx.packet \in 0 .. MaxMsdus /\ tx.to \in Dests /\ tx.seq \in 0 .. SeqSpace - 1
         /\ tx.retry \in BOOLEAN
  BY TypeOKParts, HeaderFields DEF QueueTyped, HeaderTyped, NumbersTyped, DoneTyped, Dests

\* A step that gives no number.
LEMMA LeftStep ==
  ASSUME TypeOK, TypeOK', NumbersLeft, Moves, next' = next,
         hist'.pauses = hist.pauses \/ hist'.pauses = hist.pauses + 1,
         PutsBack => hist'.pauses = hist.pauses + 1
  PROVE  NumbersLeft'
<1>1. /\ Len(queue) \in Nat /\ queued \in Nat /\ hist.pauses \in Nat /\ queued' \in Nat
      /\ Len(queue') \in Nat /\ hist'.pauses \in Nat
  BY NumberTypes DEF TypeOK
<1>2. \/ Len(queue') <= Len(queue) /\ queued' = queued
      \/ Len(queue') = Len(queue) + 1 /\ queued' = queued + 1
      \/ Len(queue') = Len(queue) + 1 /\ queued' = queued /\ hist'.pauses = hist.pauses + 1
  <2>1. CASE PlacesKept \/ Settles \/ Flushes
    BY <1>1, <2>1 DEF PlacesKept, Settles, Flushes
  <2>2. ASSUME NEW i \in Positions, Takes(i) \/ Drops(i) PROVE Len(queue') <= Len(queue) /\ queued' = queued
    BY <1>1, <2>2 DEF Takes, Drops, Without
  <2>3. CASE Appends \/ PutsBack
    BY <2>3 DEF Appends, PutsBack
  <2> QED BY <2>1, <2>2, <2>3 DEF Moves
<1>3. \A d \in Dests : next[d] \in Nat
  BY NumberTypes
<1>4. ASSUME NEW d \in Dests PROVE next'[d] + Len(queue') <= queued' + hist'.pauses
  <2>1. next[d] + Len(queue) <= queued + hist.pauses /\ next'[d] = next[d]
    BY DEF NumbersLeft
  <2>2. next[d] \in Nat
    BY <1>3
  <2>3. hist'.pauses >= hist.pauses
    BY <1>1
  <2> HIDE DEF NumbersLeft
  <2> QED BY <1>1, <1>2, <2>1, <2>2, <2>3
<1> QED BY <1>4 DEF NumbersLeft
\* What is reported as sent, packet by packet.
LEMMA Passed ==
  TxOkForwarded <=>
    \A m \in done.ok : (\E r \in Recipients : m \in ToSet(up[r])) \/ m \in hist.reused
  BY DEF TxOkForwarded

LEMMA PassedNext ==
  ASSUME \A m \in done'.ok : (\E r \in Recipients : m \in ToSet(up'[r])) \/ m \in hist'.reused
  PROVE  TxOkForwarded'
  BY DEF TxOkForwarded

\* A step that leaves the header's destination and number and what the recipients know.
LEMMA HeaderKept ==
  ASSUME NumberInv, CoreInv', Moves, UNCHANGED <<next, last, up>>,
         tx'.to = tx.to, tx'.seq = tx.seq,
         \/ tx'.packet = tx.packet /\ hist'.tail = hist.tail
         \/ tx'.packet \in {0} \cup hist'.tail,
         hist.reused \subseteq hist'.reused,
         hist'.pauses = hist.pauses \/ hist'.pauses = hist.pauses + 1,
         PutsBack => hist'.pauses = hist.pauses + 1,
         link'.st = "ack" => link.st = "ack" /\ tx'.packet = tx.packet,
         Reuse',
         done'.ok \subseteq done.ok \cup (IF link.st = "ack" THEN {tx.packet} ELSE {})
  PROVE  NumberInv'
<1>1. NumbersLeft'
  BY LeftStep DEF NumberInv, CoreInv
<1>2. NumbersUsed' /\ SameNumber' /\ Answered'
  BY DEF NumberInv, NumbersUsed, SameNumber, Answered
<1>3. TxOkForwarded'
  <2>1. link.st = "ack" => tx.to \in Recipients
    BY InExchange DEF NumberInv, CoreInv
  <2>2. ASSUME NEW m \in done'.ok
        PROVE  (\E r \in Recipients : m \in ToSet(up[r])) \/ m \in hist.reused
    <3>1. CASE m \in done.ok
      BY <3>1, Passed DEF NumberInv
    <3>2. CASE link.st = "ack" /\ m = tx.packet
      BY <2>1, <3>2 DEF NumberInv, Answered
    <3> QED BY <2>2, <3>1, <3>2
  <2> QED BY <2>2, PassedNext
<1> QED BY <1>1, <1>2, <1>3 DEF NumberInv

\* A step that leaves the exchange and its packet.
LEMMA ExchangeKept ==
  ASSUME NumberInv, CoreInv', Moves, UNCHANGED <<next, last, up, tx, hist>>, ~PutsBack,
         link'.st \in {"rts", "data", "ack"} => link.st \in {"rts", "data", "ack"},
         link'.st = "ack" => link.st = "ack", done'.ok = done.ok
  PROVE  NumberInv'
<1>1. Reuse'
  BY DEF NumberInv, Reuse
<1> QED BY <1>1, HeaderKept

\* A step after which no exchange is under way, and which settles the packet or not.
LEMMA ExchangeOver ==
  ASSUME NumberInv, CoreInv', Moves, UNCHANGED <<next, last, up, hist>>, ~PutsBack,
         tx'.to = tx.to, tx'.seq = tx.seq, tx'.packet \in {tx.packet, 0},
         link'.st \in {"idle", "sifs"},
         done'.ok \subseteq done.ok \cup (IF link.st = "ack" THEN {tx.packet} ELSE {})
  PROVE  NumberInv'
<1>1. Reuse'
  BY DEF Reuse
<1> QED BY <1>1, HeaderKept

\* A packet of the queue gets a number that its recipient does not know.
LEMMA GrantNextNumber ==
  ASSUME NoWrap, NumberInv, CoreInv', GrantNext
  PROVE  NumberInv'
<1>1. TypeOK /\ queue # << >> /\ Dequeued /\ UNCHANGED <<queued, last, up, done, hist>>
  BY DEF GrantNext, NumberInv, CoreInv
<1> DEFINE to == queue[1].to
<1>2. tx'.packet # 0 /\ tx'.to = to /\ tx'.seq = next[to] /\ ~tx'.retry
  BY <1>1, DequeuedType
<1>3. to \in Dests /\ Len(queue) \in Nat \ {0}
  BY <1>1, TypeOKParts, QueuePackets DEF QueueTyped, Positions
<1>4. Takes(1) /\ link' \in {In("group"), In("rts"), In("data")}
  BY <1>1, GrantNextMoves
<1>5. next' = [next EXCEPT ![to] = (@ + 1) % SeqSpace]
  BY <1>1 DEF Dequeued
<1> HIDE DEF to
<1>6. next[to] + 1 < SeqSpace /\ (next[to] + 1) % SeqSpace = next[to] + 1
  <2>1. next[to] + Len(queue) <= queued + hist.pauses
    BY <1>3 DEF NumberInv, NumbersLeft
  <2>2. next[to] \in Nat /\ queued \in 0 .. MaxMsdus /\ hist.pauses \in 0 .. MaxSleeps
    BY <1>1, <1>3, NumberTypes
  <2>3. next[to] + 1 < SeqSpace
    BY <1>3, <2>1, <2>2 DEF NoWrap
  <2> QED BY <2>2, <2>3
<1>7. \A d \in Dests : next'[d] = IF d = to THEN next[to] + 1 ELSE next[d]
  BY <1>1, <1>5, <1>6, NumberTypes, TypeOKParts DEF NumbersTyped
<1>8. Len(queue') = Len(queue) - 1
  BY <1>4 DEF Takes, Without
<1>9. NumbersLeft'
  <2>1. ASSUME NEW d \in Dests PROVE next'[d] + Len(queue') <= queued + hist.pauses
    <3>1. next[d] + Len(queue) <= queued + hist.pauses
      BY DEF NumberInv, NumbersLeft
    <3>2. next[d] \in Nat /\ queued \in Nat /\ hist.pauses \in Nat
      BY <1>1, NumberTypes
    <3> QED BY <1>3, <1>7, <1>8, <3>1, <3>2
  <2> QED BY <1>1, <2>1 DEF NumbersLeft
<1>10. NumbersUsed'
  <2>1. ASSUME NEW r \in Recipients PROVE last'[r] = SeqSpace \/ last'[r] < next'[r]
    <3>1. (last[r] = SeqSpace \/ last[r] < next[r]) /\ last[r] \in Nat /\ next[r] \in Nat /\ r \in Dests
      BY <1>1, NumberTypes DEF NumberInv, NumbersUsed
    <3> QED BY <1>1, <1>7, <3>1
  <2>2. tx'.seq < next'[tx'.to]
    BY <1>1, <1>2, <1>3, <1>7, NumberTypes
  <2> QED BY <2>1, <2>2 DEF NumbersUsed
<1>11. SameNumber'
  <2>1. ASSUME tx'.to \in Recipients PROVE last'[tx'.to] # tx'.seq
    <3>1. (last[to] = SeqSpace \/ last[to] < next[to]) /\ last[to] \in Nat /\ next[to] \in 0 .. SeqSpace - 1
      BY <1>1, <1>2, <1>3, <2>1, NumberTypes DEF NumberInv, NumbersUsed
    <3> QED BY <1>1, <1>2, <3>1
  <2> QED BY <2>1 DEF SameNumber
<1>12. Reuse' /\ Answered'
  BY <1>2, <1>4 DEF Reuse, Answered, In
<1>13. TxOkForwarded'
  BY <1>1 DEF NumberInv, TxOkForwarded
<1> QED BY <1>9, <1>10, <1>11, <1>12, <1>13 DEF NumberInv

\* What a sequence holds when one more element is appended.
LEMMA AppendToSet ==
  ASSUME NEW S, NEW s \in Seq(S), NEW e \in S
  PROVE  ToSet(Append(s, e)) = ToSet(s) \cup {e}
<1>1. Len(Append(s, e)) = Len(s) + 1 /\ Append(s, e)[Len(s) + 1] = e
      /\ \A i \in 1 .. Len(s) : Append(s, e)[i] = s[i]
  BY AppendProperties
<1> QED BY <1>1 DEF ToSet

\* The data reaches its recipient: it was passed up already, or is now.
LEMMA ArriveNumber ==
  ASSUME NumberInv, CoreInv', Arrive
  PROVE  NumberInv'
<1>1. /\ TypeOK /\ UNCHANGED <<queued, queue, tx, asked, next, done, hist>>
      /\ link = In("data") /\ link' = In("ack")
  BY DEF Arrive, NumberInv, CoreInv
<1>2. tx.packet \in Msdus /\ tx.packet # 0 /\ tx.to \in Recipients
  BY <1>1, InExchange DEF In
<1>3. NumbersLeft'
  BY <1>1 DEF NumberInv, NumbersLeft
<1>4. Reuse'
  BY <1>1 DEF NumberInv, Reuse, In
<1>5. CASE tx.retry /\ last[tx.to] = tx.seq
  <2>1. UNCHANGED <<last, up>>
    BY <1>5 DEF Arrive
  <2>2. tx.packet \in ToSet(up[tx.to]) \cup hist.reused
    <3>1. CASE tx.packet \in hist.tail
      BY <1>1, <1>5, <3>1 DEF NumberInv, Reuse, In
    <3>2. CASE tx.packet \notin hist.tail
      BY <1>2, <1>5, <3>2 DEF NumberInv, SameNumber
    <3> QED BY <3>1, <3>2
  <2> QED BY <1>1, <1>3, <1>4, <2>1, <2>2
       DEF NumberInv, NumbersUsed, SameNumber, Answered, TxOkForwarded
<1>6. CASE ~(tx.retry /\ last[tx.to] = tx.seq)
  <2>1. /\ last' = [last EXCEPT ![tx.to] = tx.seq]
        /\ up' = [up EXCEPT ![tx.to] = Append(@, tx.packet)]
    BY <1>6 DEF Arrive
  <2>2. \A r \in Recipients : last'[r] = IF r = tx.to THEN tx.seq ELSE last[r]
    BY <1>1, <2>1, TypeOKParts DEF NumbersTyped
  <2>3. \A r \in Recipients : ToSet(up'[r]) = IF r = tx.to THEN ToSet(up[r]) \cup {tx.packet} ELSE ToSet(up[r])
    <3>1. up \in [Recipients -> Seq(Msdus)]
      BY <1>1, TypeOKParts DEF NumbersTyped
    <3>2. up'[tx.to] = Append(up[tx.to], tx.packet) /\ \A r \in Recipients \ {tx.to} : up'[r] = up[r]
      BY <1>2, <2>1, <3>1
    <3>3. ToSet(up'[tx.to]) = ToSet(up[tx.to]) \cup {tx.packet}
      BY <1>2, <3>1, <3>2, AppendToSet
    <3> QED BY <3>2, <3>3
  <2>4. NumbersUsed'
    BY <1>1, <1>2, <2>2 DEF NumberInv, NumbersUsed
  <2>5. SameNumber' /\ Answered'
    BY <1>1, <1>2, <2>3 DEF SameNumber, Answered
  <2>6. TxOkForwarded'
    <3>1. ASSUME NEW m \in done'.ok
          PROVE  (\E r \in Recipients : m \in ToSet(up'[r])) \/ m \in hist'.reused
      BY <1>1, <2>3, Passed DEF NumberInv
    <3> QED BY <3>1, PassedNext
  <2> QED BY <1>3, <1>4, <2>4, <2>5, <2>6 DEF NumberInv
<1> QED BY <1>5, <1>6
LEMMA NumberStep ==
  ASSUME NoWrap, NumberInv, Next
  PROVE  NumberInv'
<1>1. CoreInv' /\ TypeOK /\ Moves
  BY CoreStep, StepMoves DEF NumberInv, CoreInv
<1>2. \A failed, gone : Reported({}, failed, gone) => done'.ok = done.ok
  BY DEF Reported
<1>3. ASSUME NEW d \in Dests, Queue(d) PROVE NumberInv'
  <2>1. Appends /\ ~PutsBack /\ done'.ok = done.ok
    <3>1. Appends
      BY <1>1, <1>3, QueueMoves
    <3>2. queued' # queued
      BY <1>1, <3>1, NumberTypes DEF Appends
    <3> QED BY <1>2, <3>1, <3>2 DEF Appends, PutsBack
  <2> QED BY <1>1, <1>3, <2>1, ExchangeKept DEF Queue
<1>4. CASE Expire
  <2>1. ~PutsBack /\ done'.ok = done.ok
    <3>1. PICK i \in Positions : Drops(i)
      BY <1>1, <1>4, ExpireMoves
    <3>2. Len(queue') = Len(queue) - 1 /\ Len(queue) \in Nat
      BY <1>1, <3>1, NumberTypes DEF Drops, Without
    <3> QED BY <1>2, <3>1, <3>2 DEF Drops, PutsBack
  <2> QED BY <1>1, <1>4, <2>1, ExchangeKept DEF Expire
<1>5. ASSUME PlacesKept \/ Settles PROVE ~PutsBack /\ tx'.packet \in {tx.packet, 0}
  BY <1>1, <1>5, NumberTypes DEF PutsBack, PlacesKept, Settles
<1>6. ASSUME PlacesKept PROVE done'.ok = done.ok
  BY <1>2, <1>6 DEF PlacesKept
<1>7. CASE GrantNothing
  BY <1>1, <1>5, <1>6, <1>7, GrantNothingMoves, ExchangeKept DEF GrantNothing
<1>8. CASE GrantNext
  BY <1>1, <1>8, GrantNextNumber
<1>9. CASE GrantAgain
  <2>1. /\ PlacesKept /\ hist'.tail = hist.tail /\ hist'.pauses = hist.pauses
        /\ hist.reused \subseteq hist'.reused
        /\ (tx.retry /\ tx.packet \in hist.tail => tx.packet \in hist'.reused)
        /\ link' \in {In("group"), In("rts"), In("data")}
    BY <1>1, <1>9, GrantAgainMoves
  <2>2. UNCHANGED <<next, last, up, tx>>
    BY <1>9 DEF GrantAgain
  <2>3. Reuse'
    BY <2>1, <2>2 DEF Reuse
  <2>4. link'.st # "ack"
    BY <2>1 DEF In
  <2> QED BY <1>1, <1>5, <1>6, <2>1, <2>2, <2>3, <2>4, HeaderKept
<1>10. CASE InternalCollisionOfCurrent \/ InternalCollisionOfHead
  <2>1. /\ UNCHANGED <<queue, next, link, last, up, hist>> /\ link.st = "idle"
        /\ tx'.to = tx.to /\ tx'.seq = tx.seq /\ done'.ok = done.ok
    <3>1. tx \in Headers /\ done \in Reports /\ 0 \in 0 .. MaxMsdus
      BY <1>1, TypeOKParts DEF HeaderTyped, DoneTyped
    <3>2. tx' = tx \/ tx' = [tx EXCEPT !.packet = 0]
      BY <1>10 DEF InternalCollisionOfCurrent, InternalCollisionOfHead
    <3>3. tx'.to = tx.to /\ tx'.seq = tx.seq
      <4>1. [tx EXCEPT !.packet = 0].to = tx.to /\ [tx EXCEPT !.packet = 0].seq = tx.seq
        BY <3>1, HeaderChanged
      <4> QED BY <3>2, <4>1
    <3>4. done'.ok = done.ok
      BY <1>10, <3>1 DEF InternalCollisionOfCurrent, InternalCollisionOfHead, Reports
    <3> QED BY <1>10, <3>3, <3>4 DEF InternalCollisionOfCurrent, InternalCollisionOfHead, Idle, In
  <2>2. Settles \/ PlacesKept
    BY <1>1, <1>10, InternalCollisionMoves
  <2> QED BY <1>1, <1>5, <2>1, <2>2, ExchangeOver
<1>11. CASE GotCts
  <2>1. link'.st = "data" /\ link.st = "rts"
    BY <1>11 DEF GotCts, In
  <2> QED BY <1>1, <1>5, <1>6, <1>11, <2>1, GotCtsMoves, ExchangeKept DEF GotCts
<1>12. CASE Arrive
  BY <1>1, <1>12, ArriveNumber
<1>13. CASE MissedCts \/ MissedAck
  <2>1. tx'.to = tx.to /\ tx'.seq = tx.seq /\ (Settles \/ PlacesKept)
    BY <1>1, <1>13, MissedMoves
  <2>2. UNCHANGED <<next, last, up, hist>> /\ link'.st = "idle"
    BY <1>13 DEF MissedCts, MissedAck, Idle, In
  <2>3. done'.ok = done.ok
    <3>1. done \in Reports
      BY <1>1, TypeOKParts DEF DoneTyped
    <3>2. done' = done \/ done' = [done EXCEPT !.failed = @ \cup {tx.packet}]
      BY <1>13 DEF MissedCts, MissedAck, GiveUp, Retransmit
    <3> QED BY <3>1, <3>2 DEF Reports
  <2> QED BY <1>1, <1>5, <2>1, <2>2, <2>3, ExchangeOver
<1>14. CASE GotAck
  <2>1. Settles /\ link'.st = "sifs" /\ UNCHANGED <<next, last, up, hist>> /\ link.st = "ack"
    BY <1>1, <1>14, GotAckMoves DEF GotAck, In
  <2>2. tx'.to = tx.to /\ tx'.seq = tx.seq
    <3>1. tx \in Headers /\ 0 \in 0 .. MaxMsdus
      BY <1>1, TypeOKParts DEF HeaderTyped
    <3> QED BY <1>14, <3>1, HeaderChanged DEF GotAck
  <2>3. done'.ok = done.ok \cup {tx.packet}
    <3>1. done \in Reports
      BY <1>1, TypeOKParts DEF DoneTyped
    <3> QED BY <1>14, <3>1 DEF GotAck, Reports
  <2> QED BY <1>1, <1>5, <2>1, <2>2, <2>3, ExchangeOver
<1>15. CASE StartNextNothing
  <2>1. PlacesKept /\ UNCHANGED <<tx, next, last, up, hist>> /\ link'.st = "idle"
    BY <1>1, <1>15, StartNextNothingMoves DEF StartNextNothing, Idle, In
  <2> QED BY <1>1, <1>5, <1>6, <2>1, ExchangeOver
<1>16. CASE StartNext
  <2>1. PICK i \in Positions : Takes(i) /\ hist'.tail = hist.tail \cup {queue[i].id}
    BY <1>1, <1>16, StartNextMoves
  <2>2. /\ tx'.to = tx.to /\ tx'.seq = tx.seq /\ hist'.pauses = hist.pauses
        /\ hist.reused \subseteq hist'.reused /\ (tx'.retry => tx'.packet \in hist'.reused)
        /\ link' \in {In("group"), In("rts"), In("data")}
    BY <1>1, <1>16, StartNextMoves
  <2>3. tx'.packet \in hist'.tail /\ ~PutsBack /\ done'.ok = done.ok
    BY <1>1, <1>2, <2>1 DEF Takes, PutsBack
  <2>4. Reuse' /\ link'.st # "ack"
    BY <2>2 DEF Reuse, In
  <2> QED BY <1>1, <1>16, <2>2, <2>3, <2>4, HeaderKept DEF StartNext
<1>17. CASE EndTxNoAck
  <2>1. Settles /\ UNCHANGED <<next, last, up, hist>> /\ link'.st = "idle"
    BY <1>1, <1>17, EndTxNoAckMoves DEF EndTxNoAck, Idle, In
  <2>2. tx'.to = tx.to /\ tx'.seq = tx.seq
    <3>1. tx \in Headers /\ 0 \in 0 .. MaxMsdus
      BY <1>1, TypeOKParts DEF HeaderTyped
    <3> QED BY <1>17, <3>1, HeaderChanged DEF EndTxNoAck
  <2>3. done'.ok = done.ok
    <3>1. done \in Reports
      BY <1>1, TypeOKParts DEF DoneTyped
    <3> QED BY <1>17, <3>1 DEF EndTxNoAck, Reports
  <2> QED BY <1>1, <1>5, <2>1, <2>2, <2>3, ExchangeOver
<1>18. ASSUME Pause, tx' = [tx EXCEPT !.packet = 0], UNCHANGED <<next, last, up>>,
              link'.st \in {"asleep", "idle"}, done'.ok = done.ok
       PROVE  NumberInv'
  <2>1. tx'.to = tx.to /\ tx'.seq = tx.seq /\ tx'.packet = 0
    <3>1. tx \in Headers /\ 0 \in 0 .. MaxMsdus
      BY <1>1, TypeOKParts DEF HeaderTyped
    <3> QED BY <1>18, <3>1, HeaderChanged
  <2>2. /\ hist'.pauses = hist.pauses + 1
        /\ hist.reused \subseteq hist'.reused
    BY <1>1, <1>18, PauseType
  <2>3. Reuse'
    BY <1>18 DEF Reuse
  <2> QED BY <1>1, <1>18, <2>1, <2>2, <2>3, HeaderKept
<1>19. CASE NotifySleep
  BY <1>18, <1>19 DEF NotifySleep, In
<1>20. CASE NotifyWakeUp
  <2>1. PlacesKept /\ UNCHANGED <<tx, next, last, up, hist>> /\ link'.st = "idle"
    BY <1>1, <1>20, NotifyWakeUpMoves DEF NotifyWakeUp, Idle, In
  <2> QED BY <1>1, <1>5, <1>6, <2>1, ExchangeOver
<1>21. CASE NotifyChannelSwitching
  <2>1. done'.ok = done.ok
    <3>1. Flushes
      BY <1>1, <1>21, NotifyChannelSwitchingMoves
    <3> QED BY <1>2, <3>1 DEF Flushes
  <2> QED BY <1>18, <1>21, <2>1 DEF NotifyChannelSwitching, Idle, In
<1> QED
  BY <1>3, <1>4, <1>7, <1>8, <1>9, <1>10, <1>11, <1>12, <1>13, <1>14, <1>15, <1>16, <1>17, <1>19,
     <1>20, <1>21 DEF Next

LEMMA InitNumber == Init => NumberInv
<1> SUFFICES ASSUME Init PROVE NumberInv
  OBVIOUS
<1>1. NumbersLeft /\ NumbersUsed
  BY DEF Init, NumbersLeft, NumbersUsed
<1>2. SameNumber /\ Reuse /\ Answered /\ TxOkForwarded
  BY Passed DEF Init, SameNumber, Reuse, Answered, Idle, In
<1> QED BY <1>1, <1>2, InitCore DEF NumberInv

\* What is reported as sent was passed up by its recipient (the duplicate detection of
\* MacRxMiddle knows the numbers of MacTxMiddle apart), except the packets that
\* EdcaTxopN::StartNext has sent under the number of the packet before, if a queue
\* sends fewer packets than there are sequence numbers.
THEOREM SentIsForwarded == NoWrap /\ Spec => []TxOkForwarded
<1> SUFFICES ASSUME NoWrap PROVE Spec => []TxOkForwarded
  OBVIOUS
<1>1. ASSUME NumberInv, UNCHANGED vars PROVE NumberInv'
  <2>1. CoreInv'
    BY <1>1, CoreStep DEF NumberInv
  <2> QED BY <1>1, <2>1 DEF NumberInv, NumbersLeft, NumbersUsed, SameNumber, Reuse, Answered, TxOkForwarded, vars
<1>2. NumberInv /\ [Next]_vars => NumberInv'
  BY <1>1, NumberStep
<1>3. NumberInv => TxOkForwarded
  BY DEF NumberInv
<1> QED BY <1>2, <1>3, InitNumber, PTL DEF Spec
-----------------------------------------------------------------------------
(* The order in which packets are passed up *)

\* The numbers of MSDUs count the calls of Queue: the queue is in their order.
QueueOrder == \A i, j \in Positions : i < j => queue[i].id < queue[j].id

\* What was passed up precedes what waits for the same recipient.
UpBehind ==
  \A r \in Recipients : \A i \in 1 .. Len(up[r]) :
    up[r][i] <= queued /\ \A j \in Positions : queue[j].to = r => up[r][i] < queue[j].id

\* So does the current packet.
CurrentBehind ==
  tx.packet # 0 => \A j \in Positions : queue[j].to = tx.to => tx.packet < queue[j].id

\* What was passed up precedes the current packet, or is the current packet: then its
\* recipient remembers its number, and the packet is sent again with a retry bit.
Current ==
  tx.packet # 0 /\ tx.to \in Recipients =>
    \A i \in 1 .. Len(up[tx.to]) :
      \/ up[tx.to][i] < tx.packet
      \/ up[tx.to][i] = tx.packet /\ last[tx.to] = tx.seq /\ (tx.retry \/ link.st = "ack")

UpOrder == \A r \in Recipients : \A i, j \in 1 .. Len(up[r]) : i < j => up[r][i] < up[r][j]

InOrder == QueueOrder /\ UpBehind /\ CurrentBehind /\ Current /\ UpOrder

OrderInv == CoreInv /\ (hist.pauses = 0 => InOrder)

\* The types that the order needs.
LEMMA OrderTypes ==
  ASSUME CoreInv
  PROVE  /\ queue \in Seq(Packets) /\ Len(queue) \in Nat /\ tx.packet \in Nat /\ queued \in Nat
         /\ tx.packet <= queued /\ tx.seq \in Nat
         /\ \A i \in Positions : queue[i].id \in Nat /\ queue[i].id <= queued /\ queue[i].to \in Dests
         /\ \A r \in Recipients : /\ up[r] \in Seq(Msdus) /\ Len(up[r]) \in Nat
                                  /\ \A i \in 1 .. Len(up[r]) : up[r][i] \in Nat
<1>1. TypeOK /\ Distinct
  BY DEF CoreInv
<1>2. \A i \in Positions : queue[i].id \in Nat /\ queue[i].to \in Dests
  BY <1>1, TypeOKParts, QueuePackets DEF Msdus
<1>3. \A r \in Recipients : up[r] \in Seq(Msdus)
  BY <1>1, NumberTypes
<1>4. \A r \in Recipients : \A i \in 1 .. Len(up[r]) : up[r][i] \in Nat
  BY <1>3 DEF Msdus
<1> QED BY <1>1, <1>2, <1>3, <1>4, NumberTypes, TypeOKParts DEF QueueTyped, Distinct

\* The packets stay where they are, or the current one is settled.
LEMMA StayOrder ==
  ASSUME CoreInv, InOrder, queue' = queue, queued' = queued, up' = up, tx'.to = tx.to,
         \/ tx'.packet = 0
         \/ /\ tx'.packet = tx.packet /\ last' = last /\ tx'.seq = tx.seq
            /\ tx'.retry \/ link'.st = "ack" \/ (tx'.retry = tx.retry /\ link.st # "ack")
  PROVE  InOrder'
<1>1. QueueOrder' /\ UpBehind' /\ UpOrder'
  BY DEF InOrder, QueueOrder, UpBehind, UpOrder, Positions
<1>2. CurrentBehind' /\ Current'
  BY DEF InOrder, CurrentBehind, Current, Positions
<1> QED BY <1>1, <1>2 DEF InOrder

\* A packet leaves the queue: the others keep their order.
LEMMA WithoutOrder ==
  ASSUME CoreInv, QueueOrder, NEW i \in Positions, Without(queue', queue, i)
  PROVE  /\ QueueOrder'
         /\ \A j \in Positions' : \E k \in Positions \ {i} : queue'[j] = queue[k]
<1> DEFINE at(j) == IF j < i THEN j ELSE j + 1
<1>1. Len(queue) \in Nat /\ Len(queue') = Len(queue) - 1
  BY OrderTypes DEF Without
<1>2. \A j \in Positions' : at(j) \in Positions \ {i} /\ queue'[j] = queue[at(j)] /\ j \in Nat
  BY <1>1 DEF Positions, Without
<1>3. \A j, k \in Positions' : j < k => at(j) < at(k)
  BY <1>1, <1>2 DEF Positions
<1> HIDE DEF at
<1>4. QueueOrder'
  BY <1>2, <1>3 DEF QueueOrder
<1> QED BY <1>2, <1>4

LEMMA DropsOrder ==
  ASSUME CoreInv, InOrder, NEW i \in Positions, Drops(i), UNCHANGED <<tx, link, last, up>>
  PROVE  InOrder'
<1>1. QueueOrder' /\ \A j \in Positions' : \E k \in Positions : queue'[j] = queue[k]
  BY WithoutOrder DEF InOrder, Drops
<1>2. queued' = queued
  BY DEF Drops
<1>3. UpBehind' /\ CurrentBehind'
  BY <1>1, <1>2 DEF InOrder, UpBehind, CurrentBehind
<1>4. Current' /\ UpOrder'
  BY DEF InOrder, Current, UpOrder
<1> QED BY <1>1, <1>3, <1>4 DEF InOrder

\* The first packet to its recipient becomes the current one.
LEMMA TakesOrder ==
  ASSUME CoreInv, InOrder, NEW i \in Positions, Takes(i), UNCHANGED <<last, up>>,
         tx'.to = queue[i].to, \A j \in 1 .. i - 1 : queue[j].to # queue[i].to
  PROVE  InOrder'
<1>1. QueueOrder' /\ \A j \in Positions' : \E k \in Positions \ {i} : queue'[j] = queue[k]
  BY WithoutOrder DEF InOrder, Takes
<1>2. queued' = queued /\ tx'.packet = queue[i].id
  BY DEF Takes
<1>3. UpBehind'
  BY <1>1, <1>2 DEF InOrder, UpBehind
<1>4. CurrentBehind'
  <2>1. ASSUME NEW k \in Positions \ {i}, queue[k].to = queue[i].to PROVE queue[i].id < queue[k].id
    <3>1. i < k
      BY <2>1, OrderTypes DEF Positions
    <3> QED BY <3>1 DEF InOrder, QueueOrder
  <2> QED BY <1>1, <1>2, <2>1 DEF CurrentBehind
<1>5. Current' /\ UpOrder'
  BY <1>2 DEF InOrder, UpBehind, Current, UpOrder
<1> QED BY <1>1, <1>3, <1>4, <1>5 DEF InOrder

LEMMA AppendsOrder ==
  ASSUME CoreInv, InOrder, Appends, UNCHANGED <<tx, link, last, up>>
  PROVE  InOrder'
<1>1. \A j \in Positions' : \/ j \in Positions /\ queue'[j] = queue[j]
                            \/ j = Len(queue) + 1 /\ queue'[j].id = queued + 1
  BY OrderTypes DEF Appends, Positions
<1>2. queued' = queued + 1
  BY DEF Appends
<1>3. QueueOrder'
  <2>1. ASSUME NEW j \in Positions', NEW k \in Positions', j < k PROVE queue'[j].id < queue'[k].id
    <3>1. j \in Positions /\ queue'[j] = queue[j]
      BY <1>1, <2>1, OrderTypes DEF Positions, Appends
    <3>2. CASE k \in Positions /\ queue'[k] = queue[k]
      BY <2>1, <3>1, <3>2 DEF InOrder, QueueOrder
    <3>3. CASE queue'[k].id = queued + 1
      BY <3>1, <3>3, OrderTypes
    <3> QED BY <1>1, <3>2, <3>3
  <2> QED BY <2>1 DEF QueueOrder
<1>4. UpBehind'
  <2>1. ASSUME NEW r \in Recipients, NEW i \in 1 .. Len(up[r])
        PROVE  /\ up[r][i] <= queued + 1
               /\ \A j \in Positions' : queue'[j].to = r => up[r][i] < queue'[j].id
    <3>1. up[r][i] \in Nat /\ queued \in Nat /\ up[r][i] <= queued
      BY OrderTypes DEF InOrder, UpBehind
    <3>2. ASSUME NEW j \in Positions', queue'[j].to = r PROVE up[r][i] < queue'[j].id
      <4>1. CASE j \in Positions /\ queue'[j] = queue[j]
        BY <3>2, <4>1 DEF InOrder, UpBehind
      <4>2. CASE queue'[j].id = queued + 1
        BY <3>1, <4>2
      <4> QED BY <1>1, <4>1, <4>2
    <3> QED BY <3>1, <3>2
  <2> QED BY <1>2, <2>1 DEF UpBehind
<1>5. CurrentBehind'
  <2>1. ASSUME tx.packet # 0, NEW j \in Positions', queue'[j].to = tx.to PROVE tx.packet < queue'[j].id
    <3>1. CASE j \in Positions /\ queue'[j] = queue[j]
      BY <2>1, <3>1 DEF InOrder, CurrentBehind
    <3>2. CASE queue'[j].id = queued + 1
      BY <3>2, OrderTypes
    <3> QED BY <1>1, <3>1, <3>2
  <2> QED BY <2>1 DEF CurrentBehind
<1>6. Current' /\ UpOrder'
  BY DEF InOrder, Current, UpOrder
<1> QED BY <1>3, <1>4, <1>5, <1>6 DEF InOrder

\* A packet that is passed up follows all that were passed up before.
LEMMA ArriveOrder ==
  ASSUME CoreInv, InOrder, Arrive
  PROVE  InOrder'
<1>1. UNCHANGED <<queued, queue, tx>> /\ link.st = "data" /\ link'.st = "ack"
  BY DEF Arrive, In
<1>2. tx.packet \in Msdus /\ tx.packet # 0 /\ tx.to \in Recipients /\ tx.packet \in Nat
  BY <1>1, InExchange, OrderTypes DEF CoreInv
<1>3. QueueOrder' /\ CurrentBehind'
  BY <1>1 DEF InOrder, QueueOrder, CurrentBehind, Positions
<1>4. CASE tx.retry /\ last[tx.to] = tx.seq
  <2>1. UNCHANGED <<last, up>>
    BY <1>4 DEF Arrive
  <2> QED BY <1>1, <1>2, <2>1, StayOrder
<1>5. CASE ~(tx.retry /\ last[tx.to] = tx.seq)
  <2> DEFINE to == tx.to
             n == Len(up[to])
  <2>1. /\ last' = [last EXCEPT ![to] = tx.seq]
        /\ up' = [up EXCEPT ![to] = Append(@, tx.packet)]
    BY <1>5 DEF Arrive
  <2>2. up \in [Recipients -> Seq(Msdus)] /\ last \in [Recipients -> 0 .. SeqSpace] /\ to \in Recipients
    BY <1>2, TypeOKParts DEF CoreInv, NumbersTyped
  <2>3. last'[to] = tx.seq /\ up'[to] = Append(up[to], tx.packet) /\ \A r \in Recipients \ {to} : up'[r] = up[r]
    BY <2>1, <2>2
  <2>4. /\ n \in Nat /\ Len(up'[to]) = n + 1 /\ up'[to][n + 1] = tx.packet
        /\ \A i \in 1 .. n : up'[to][i] = up[to][i]
    BY <1>2, <2>2, <2>3, AppendProperties
  <2>5. \A i \in 1 .. n : up[to][i] < tx.packet
    BY <1>1, <1>2, <1>5 DEF InOrder, Current
  <2> HIDE DEF to, n
  <2>6. \A i \in 1 .. Len(up'[to]) : \/ i \in 1 .. n /\ up'[to][i] = up[to][i]
                                     \/ i = n + 1 /\ up'[to][i] = tx.packet
    BY <2>4
  <2>7. UpOrder'
    <3>1. ASSUME NEW i \in 1 .. Len(up'[to]), NEW j \in 1 .. Len(up'[to]), i < j
          PROVE  up'[to][i] < up'[to][j]
      <4>1. i \in 1 .. n /\ up'[to][i] = up[to][i]
        BY <2>4, <2>6, <3>1
      <4>2. CASE j \in 1 .. n /\ up'[to][j] = up[to][j]
        BY <2>2, <3>1, <4>1, <4>2 DEF InOrder, UpOrder, n
      <4>3. CASE up'[to][j] = tx.packet
        BY <2>5, <4>1, <4>3
      <4> QED BY <2>6, <4>2, <4>3
    <3> QED BY <2>3, <3>1 DEF InOrder, UpOrder
  <2>8. UpBehind'
    <3>1. ASSUME NEW i \in 1 .. Len(up'[to])
          PROVE  up'[to][i] <= queued /\ \A j \in Positions : queue[j].to = to => up'[to][i] < queue[j].id
      <4>1. CASE i \in 1 .. n /\ up'[to][i] = up[to][i]
        BY <2>2, <4>1 DEF InOrder, UpBehind, n
      <4>2. CASE up'[to][i] = tx.packet
        BY <1>2, <4>2, OrderTypes DEF InOrder, CurrentBehind, to
      <4> QED BY <2>6, <4>1, <4>2
    <3> QED BY <1>1, <2>3, <3>1 DEF InOrder, UpBehind, Positions
  <2>9. Current'
    <3>1. ASSUME NEW i \in 1 .. Len(up'[to])
          PROVE  up'[to][i] < tx.packet \/ up'[to][i] = tx.packet
      BY <2>5, <2>6
    <3> QED BY <1>1, <2>3, <3>1 DEF Current, to
  <2> QED BY <1>3, <2>7, <2>8, <2>9 DEF InOrder
<1> QED BY <1>4, <1>5
\* A header that is changed in its number keeps its destination.
LEMMA HeaderStays ==
  ASSUME TypeOK, tx' = tx \/ tx' = [tx EXCEPT !.packet = 0]
  PROVE  tx'.to = tx.to /\ tx'.seq = tx.seq /\ tx'.retry = tx.retry
<1>1. tx \in Headers /\ 0 \in 0 .. MaxMsdus
  BY TypeOKParts DEF HeaderTyped
<1>2. CASE tx' = [tx EXCEPT !.packet = 0]
  BY <1>1, <1>2, HeaderChanged
<1> QED BY <1>2

LEMMA OrderStep ==
  ASSUME CoreInv, InOrder, Next, hist'.pauses = hist.pauses
  PROVE  InOrder'
<1>1. TypeOK
  BY DEF CoreInv
<1>2. ASSUME NEW d \in Dests, Queue(d) PROVE InOrder'
  BY <1>1, <1>2, QueueMoves, AppendsOrder DEF Queue
<1>3. CASE Expire
  BY <1>1, <1>3, ExpireMoves, DropsOrder DEF Expire
<1>4. CASE GrantNothing
  BY <1>4, StayOrder, OrderTypes DEF GrantNothing
<1>5. CASE GrantNext
  <2>1. Takes(1) /\ 1 \in Positions /\ UNCHANGED <<last, up>> /\ tx'.to = queue[1].to
    BY <1>1, <1>5, GrantNextMoves, DequeuedType DEF GrantNext
  <2>2. \A j \in 1 .. 1 - 1 : queue[j].to # queue[1].to
    OBVIOUS
  <2> QED BY <2>1, <2>2, TakesOrder
<1>6. CASE GrantAgain
  <2>1. link.st # "ack"
    BY <1>6 DEF GrantAgain, Idle, In
  <2> QED BY <1>6, <2>1, StayOrder DEF GrantAgain
<1>7. CASE InternalCollisionOfCurrent \/ InternalCollisionOfHead
  <2>1. /\ UNCHANGED <<queued, queue, last, up>> /\ link.st # "ack"
        /\ tx' = tx \/ tx' = [tx EXCEPT !.packet = 0]
    BY <1>7 DEF InternalCollisionOfCurrent, InternalCollisionOfHead, Idle, In
  <2>2. tx'.packet = 0 \/ tx'.packet = tx.packet
    BY <1>1, <1>7, InternalCollisionMoves DEF Settles, PlacesKept
  <2> QED BY <1>1, <2>1, <2>2, HeaderStays, StayOrder
<1>8. CASE GotCts
  <2>1. link.st # "ack"
    BY <1>8 DEF GotCts, In
  <2> QED BY <1>8, <2>1, StayOrder DEF GotCts
<1>9. CASE MissedCts \/ MissedAck
  <2>1. /\ tx'.to = tx.to /\ tx'.seq = tx.seq
        /\ Settles \/ (PlacesKept /\ (tx'.retry \/ (link = In("rts") /\ tx'.retry = tx.retry)))
    BY <1>1, <1>9, MissedMoves
  <2>2. UNCHANGED <<queued, queue, last, up>>
    BY <1>9 DEF MissedCts, MissedAck
  <2>3. tx'.packet = 0 \/ (tx'.packet = tx.packet /\ (tx'.retry \/ (tx'.retry = tx.retry /\ link.st # "ack")))
    BY <2>1 DEF Settles, PlacesKept, In
  <2> QED BY <2>1, <2>2, <2>3, StayOrder
<1>10. CASE Arrive
  BY <1>10, ArriveOrder
<1>11. CASE GotAck \/ EndTxNoAck
  <2>1. tx'.packet = 0 /\ UNCHANGED <<queued, queue, last, up>> /\ tx' = [tx EXCEPT !.packet = 0]
    BY <1>1, <1>11, GotAckMoves, EndTxNoAckMoves DEF GotAck, EndTxNoAck, Settles
  <2> QED BY <1>1, <2>1, HeaderStays, StayOrder
<1>12. CASE StartNextNothing \/ NotifyWakeUp
  <2>1. tx.packet = 0 /\ UNCHANGED <<queued, queue, tx, last, up>>
    BY <1>12, RequestTypes DEF StartNextNothing, NotifyWakeUp
  <2> QED BY <2>1, StayOrder
<1>13. CASE StartNext
  <2>1. PICK i \in Positions :
          Takes(i) /\ queue[i].to = tx.to /\ \A j \in 1 .. i - 1 : queue[j].to # tx.to
    BY <1>1, <1>13, StartNextMoves
  <2>2. tx'.to = tx.to /\ UNCHANGED <<last, up>>
    BY <1>1, <1>13, StartNextMoves DEF StartNext
  <2> QED BY <2>1, <2>2, TakesOrder
<1>14. CASE NotifySleep \/ NotifyChannelSwitching
  <2>1. hist'.pauses = hist.pauses + 1 /\ hist.pauses \in Nat
    BY <1>1, <1>14, PauseType DEF NotifySleep, NotifyChannelSwitching
  <2> QED BY <2>1
<1> QED
  BY <1>2, <1>3, <1>4, <1>5, <1>6, <1>7, <1>8, <1>9, <1>10, <1>11, <1>12, <1>13, <1>14 DEF Next

\* The number of sleeps and switches does not fall.
LEMMA PausesGrow ==
  ASSUME TypeOK, Next
  PROVE  hist'.pauses = hist.pauses \/ (hist'.pauses = hist.pauses + 1 /\ hist.pauses \in Nat)
<1>1. CASE NotifySleep \/ NotifyChannelSwitching
  BY <1>1, PauseType DEF NotifySleep, NotifyChannelSwitching
<1>2. CASE GrantAgain \/ StartNext
  BY <1>2, GrantAgainMoves, StartNextMoves
<1>3. CASE hist' = hist
  BY <1>3
<1> QED
  BY <1>1, <1>2, <1>3 DEF Next, Queue, Expire, GrantNothing, GrantNext, InternalCollisionOfCurrent,
     InternalCollisionOfHead, GotCts, MissedCts, Arrive, MissedAck, GotAck, StartNextNothing, EndTxNoAck,
     NotifyWakeUp

LEMMA InitOrder == Init => OrderInv
<1> SUFFICES ASSUME Init PROVE OrderInv
  OBVIOUS
<1>1. Positions = {} /\ \A r \in Recipients : Len(up[r]) = 0 /\ 1 .. Len(up[r]) = {}
  BY DEF Init, Positions
<1>2. QueueOrder /\ UpBehind /\ UpOrder
  BY <1>1 DEF QueueOrder, UpBehind, UpOrder
<1>3. CurrentBehind /\ Current
  BY DEF Init, CurrentBehind, Current
<1> QED BY <1>2, <1>3, InitCore DEF OrderInv, InOrder

\* While the PHY neither sleeps nor switches, each recipient passes its packets up in the
\* order in which they were queued, and each once (EdcaTxopN sends a packet until it is
\* acknowledged or given up, and MacRxMiddle drops what it has passed up last).
THEOREM PassedUpInOrder == Spec => []ForwardedOnce
<1>1. ASSUME OrderInv, Next PROVE OrderInv'
  <2>1. CoreInv' /\ TypeOK
    BY <1>1, CoreStep DEF OrderInv, CoreInv
  <2>2. ASSUME hist'.pauses = 0 PROVE hist'.pauses = hist.pauses /\ hist.pauses = 0
    BY <1>1, <2>1, <2>2, PausesGrow
  <2>3. hist'.pauses = 0 => InOrder'
    BY <1>1, <2>2, OrderStep DEF OrderInv
  <2> QED BY <2>1, <2>3 DEF OrderInv
<1>2. ASSUME OrderInv, UNCHANGED vars PROVE OrderInv'
  <2>1. CoreInv'
    BY <1>2, CoreStep DEF OrderInv
  <2> QED BY <1>2, <2>1 DEF OrderInv, InOrder, QueueOrder, UpBehind, CurrentBehind, Current, UpOrder,
                            Positions, vars
<1>3. OrderInv /\ [Next]_vars => OrderInv'
  BY <1>1, <1>2
<1>4. OrderInv => ForwardedOnce
  <2> SUFFICES ASSUME OrderInv, hist.pauses = 0, NEW r \in Recipients, NEW i \in 1 .. Len(up[r]) - 1
               PROVE  up[r][i] < up[r][i + 1]
    BY DEF ForwardedOnce
  <2>1. i \in 1 .. Len(up[r]) /\ i + 1 \in 1 .. Len(up[r]) /\ i < i + 1
    BY OrderTypes DEF OrderInv
  <2> QED BY <2>1 DEF OrderInv, InOrder, UpOrder
<1> QED BY <1>3, <1>4, InitOrder, PTL DEF Spec
=============================================================================
