------------------------------ MODULE EdcaTxopN ------------------------------
(***************************************************************************)
(* The queue of one access category (wifi/model/edca-txop-n.cc) that sends *)
(* QoS MSDUs to several recipients and to a group: its requests for        *)
(* access, collisions inside the station, retries, and TXOPs in which      *)
(* MacLow asks for the next packet a SIFS after an ACK, with the           *)
(* selective dequeues of WifiMacQueue, the sequence numbers of             *)
(* MacTxMiddle and the duplicate detection of MacRxMiddle.                 *)
(*                                                                         *)
(* MSDUs are below the fragmentation threshold, no block ack agreement     *)
(* exists and no aggregator is installed.  DcfManager grants access or     *)
(* reports a collision at any time outside an exchange, and every frame    *)
(* may be lost.  How often a packet is sent again is left open: the        *)
(* station manager counts the failures of a recipient over all categories. *)
(***************************************************************************)
EXTENDS Integers, SequencesExt

CONSTANTS
  MaxMsdus,    \* bound: MSDUs that are queued
  Recipients,  \* stations, each with the TID of this category
  Group,       \* the broadcast address
  SeqSpace,    \* sequence numbers, 4096
  UseRts,      \* may a frame be longer than the RTS threshold?
  MaxSleeps    \* bound: how often the PHY sleeps or switches its channel

Msdus == 1 .. MaxMsdus
Dests == Recipients \cup {Group}

ASSUME ConstantsAssumption ==
  /\ MaxMsdus \in Nat /\ SeqSpace \in Nat \ {0} /\ MaxSleeps \in Nat
  /\ Group \notin Recipients
  /\ UseRts \in BOOLEAN

VARIABLES
  queued,  \* MSDUs given to Queue so far
  queue,   \* m_queue: packets [id, to]
  tx,      \* m_currentPacket (its number, 0 if there is none) and m_currentHdr
  asked,   \* m_accessRequested: the packet for which access was requested, or 0
  next,    \* MacTxMiddle: the next sequence number of each destination
  link,    \* the exchange in MacLow
  last,    \* MacRxMiddle: the last sequence number from here, at each recipient
  up,      \* the packets that each recipient has passed up
  done,    \* MSDUs reported (ok, failed), left unreported (gone: expired, flushed or
           \* sent to the group), and reported as failed while they stay queued (early)
  hist     \* to state properties and bounds: the MSDUs that StartNext has sent and
           \* that were sent with a retry bit, and the number of sleeps and switches

vars == <<queued, queue, tx, asked, next, link, last, up, done, hist>>

\* The exchange.  In the SIFS after an ACK, over is the packet that GotAck found
\* to be too long for the TXOP, or 0.
In(st) == [st |-> st, over |-> 0]
Sifs(over) == [st |-> "sifs", over |-> over]
Idle == In("idle")

-----------------------------------------------------------------------------
(* Queue and requests *)

\* WifiMacQueue::PeekByTidAndAddress: the place of the first packet to d, if any.
PeekByTidAndAddress(d) ==
  {i \in 1 .. Len(queue) : queue[i].to = d /\ \A j \in 1 .. i - 1 : queue[j].to # d}

HeadId(q) == IF q = << >> THEN 0 ELSE q[1].id

\* The packet that a grant or a collision is about: m_currentPacket, or the head.
First(cur, q) == IF cur # 0 THEN cur ELSE HeadId(q)

(* Mutant of RestartAccessIfNeeded: the queue is looked at first. *)
RestartAccessQueueFirst(a) ==
  IF a # 0 THEN a ELSE IF queue' # << >> THEN HeadId(queue') ELSE tx'.packet

(* Mutant of RestartAccessIfNeeded: like StartAccessIfNeeded. *)
RestartAccessIfIdle(a) == IF a # 0 \/ tx'.packet # 0 THEN a ELSE HeadId(queue')

\* RestartAccessIfNeeded and DcfManager::RequestReaccess, in the state that the
\* action leaves behind; a is the request before.
RestartAccessIfNeeded(a) == IF a # 0 THEN a ELSE First(tx'.packet, queue')

\* StartAccessIfNeeded and DcfManager::RequestAccess
StartAccessIfNeeded == IF asked # 0 \/ tx'.packet # 0 THEN asked ELSE HeadId(queue')

\* Queue; a sleeping DcfManager takes no request.
Queue(d) ==
  /\ queued < MaxMsdus
  /\ queued' = queued + 1
  /\ queue' = Append(queue, [id |-> queued', to |-> d])
  /\ UNCHANGED tx
  /\ asked' = IF link.st = "asleep" THEN asked ELSE StartAccessIfNeeded
  /\ UNCHANGED <<next, link, last, up, done, hist>>

\* WifiMacQueue::Cleanup: the lifetime of a packet is over; all have the same, but
\* that of a packet put back by a sleep began when it was put back.
Expire ==
  /\ queue # << >>
  /\ \E i \in {1} \cup (IF hist.pauses = 0 THEN {} ELSE {2} \cap DOMAIN queue) :
       /\ queue' = RemoveAt(queue, i)
       /\ done' = [done EXCEPT !.gone = @ \cup {queue[i].id}]
  /\ UNCHANGED <<queued, tx, asked, next, link, last, up, hist>>

-----------------------------------------------------------------------------
(* Access *)

\* History: t is sent, and tail is what StartNext sends.
Sent(t, tail) ==
  hist' = [hist EXCEPT !.tail = @ \cup tail,
                       !.reused = IF t.retry THEN @ \cup ({t.packet} \cap (hist.tail \cup tail)) ELSE @]

\* MacLow::StartTransmission
StartTransmission(t) ==
  link' \in IF t.to = Group THEN {In("group")}
            ELSE {In("data")} \cup (IF UseRts THEN {In("rts")} ELSE {})

(* Mutant of Dequeued: the number is only looked at (PeekNextSequenceNumberfor). *)
DequeuedPeek ==
  /\ tx' = [packet |-> queue[1].id, to |-> queue[1].to, seq |-> next[queue[1].to], retry |-> FALSE]
  /\ UNCHANGED next

\* The header of a packet that is dequeued, with the next number of its destination.
Dequeued ==
  /\ tx' = [packet |-> queue[1].id, to |-> queue[1].to, seq |-> next[queue[1].to], retry |-> FALSE]
  /\ next' = [next EXCEPT ![queue[1].to] = (@ + 1) % SeqSpace]

\* NotifyAccessGranted for nothing, for the head of the queue, and for a packet
\* that is sent again.
GrantNothing ==
  /\ link = Idle /\ asked # 0
  /\ tx.packet = 0 /\ queue = << >>
  /\ asked' = 0
  /\ UNCHANGED <<queued, queue, tx, next, link, last, up, done, hist>>

GrantNext ==
  /\ link = Idle /\ asked # 0
  /\ tx.packet = 0 /\ queue # << >>
  /\ asked' = 0
  /\ Dequeued
  /\ queue' = Tail(queue)
  /\ StartTransmission(tx')
  /\ UNCHANGED <<queued, last, up, done, hist>>

GrantAgain ==
  /\ link = Idle /\ asked # 0
  /\ tx.packet # 0
  /\ asked' = 0
  /\ StartTransmission(tx)
  /\ Sent(tx, {})
  /\ UNCHANGED <<queued, queue, tx, next, last, up, done>>

\* NotifyInternalCollision that uses up the retries: the current packet is discarded,
\* the head of the queue is only looked at.  Access stays requested.  A collision
\* that leaves retries changes the backoff alone, which is not part of this module;
\* so does one with neither packet, whose assertion a debug build does not survive.
InternalCollisionOfCurrent ==
  /\ link = Idle /\ asked # 0
  /\ tx.packet # 0 /\ tx.to # Group
  /\ done' = [done EXCEPT !.failed = @ \cup {tx.packet}]
  /\ tx' = [tx EXCEPT !.packet = 0]
  /\ UNCHANGED <<queued, queue, asked, next, link, last, up, hist>>

InternalCollisionOfHead ==
  /\ link = Idle /\ asked # 0
  /\ tx.packet = 0 /\ queue # << >> /\ queue[1].to # Group
  /\ done' = [done EXCEPT !.early = @ \cup {queue[1].id}]
  /\ UNCHANGED <<queued, queue, tx, asked, next, link, last, up, hist>>

-----------------------------------------------------------------------------
(* Exchanges *)

GotCts ==
  /\ link = In("rts")
  /\ link' = In("data")
  /\ UNCHANGED <<queued, queue, tx, asked, next, last, up, done, hist>>

(* Mutant of GiveUp: the packet is kept. *)
GiveUpKept ==
  /\ done' = [done EXCEPT !.failed = @ \cup {tx.packet}]
  /\ UNCHANGED tx

\* The retries are used up: the packet is reported and dropped.
GiveUp ==
  /\ done' = [done EXCEPT !.failed = @ \cup {tx.packet}]
  /\ tx' = [tx EXCEPT !.packet = 0]

(* Mutant of Retransmit: the retry bit is not set. *)
RetransmitUnmarked == UNCHANGED <<tx, done>>

\* The packet is kept, to be sent again.
Retransmit == tx' = [tx EXCEPT !.retry = TRUE] /\ UNCHANGED done

MissedCts ==
  /\ link = In("rts")
  /\ GiveUp \/ UNCHANGED <<tx, done>>
  /\ link' = Idle
  /\ UNCHANGED <<queued, queue, next, last, up, hist>>
  /\ asked' = RestartAccessIfNeeded(asked)

\* The data reaches its recipient, which answers with an ACK in any case: MacRxMiddle
\* passes the packet up unless it is a duplicate.
Arrive ==
  /\ link = In("data")
  /\ IF tx.retry /\ last[tx.to] = tx.seq
       THEN UNCHANGED <<last, up>>
       ELSE /\ last' = [last EXCEPT ![tx.to] = tx.seq]
            /\ up' = [up EXCEPT ![tx.to] = Append(@, tx.packet)]
  /\ link' = In("ack")
  /\ UNCHANGED <<queued, queue, tx, asked, next, done, hist>>

\* The data or its ACK is lost: MacLow::NormalAckTimeout and MissedAck.
MissedAck ==
  /\ link \in {In("data"), In("ack")}
  /\ GiveUp \/ Retransmit
  /\ link' = Idle
  /\ UNCHANGED <<queued, queue, next, last, up, hist>>
  /\ asked' = RestartAccessIfNeeded(asked)

\* GotAck: if HasTxop, with a packet to the same recipient that fits into the TXOP,
\* there is neither a backoff nor a request.  The times of packets are left open.
GotAck ==
  /\ link = In("ack")
  /\ done' = [done EXCEPT !.ok = @ \cup {tx.packet}]
  /\ tx' = [tx EXCEPT !.packet = 0]
  /\ UNCHANGED <<queued, queue, next, last, up, hist>>
  /\ \/ /\ PeekByTidAndAddress(tx.to) # {}
        /\ link' = Sifs(0)
        /\ UNCHANGED asked
     \/ /\ \/ PeekByTidAndAddress(tx.to) = {} /\ link' = Sifs(0)
           \/ \E i \in PeekByTidAndAddress(tx.to) : link' = Sifs(queue[i].id)
        /\ asked' = RestartAccessIfNeeded(asked)

\* A SIFS after the ACK MacLow calls StartNext in any case: there is no packet, or it
\* is too long for what is left of the TXOP by now, or it is sent with the header of
\* the packet before.
StartNextNothing ==
  /\ link.st = "sifs"
  /\ link' = Idle
  /\ UNCHANGED <<queued, queue, tx, asked, next, last, up, done, hist>>

StartNext ==
  /\ link.st = "sifs"
  /\ \E i \in PeekByTidAndAddress(tx.to) :
       /\ queue[i].id # link.over
       /\ tx' = [tx EXCEPT !.packet = queue[i].id]
       /\ queue' = RemoveAt(queue, i)
       /\ Sent(tx', {queue[i].id})
  /\ StartTransmission(tx')
  /\ UNCHANGED <<queued, asked, next, last, up, done>>

\* MacLow::EndTxNoAck after a frame to the group.
EndTxNoAck ==
  /\ link = In("group")
  /\ done' = [done EXCEPT !.gone = @ \cup {tx.packet}]
  /\ tx' = [tx EXCEPT !.packet = 0]
  /\ link' = Idle
  /\ UNCHANGED <<queued, queue, next, last, up, hist>>
  /\ asked' = StartAccessIfNeeded

-----------------------------------------------------------------------------
(* Power and channels.  The PHY waits for the end of its own transmission. *)

Pause == hist.pauses < MaxSleeps /\ hist' = [hist EXCEPT !.pauses = @ + 1]

\* NotifySleep: the current packet goes back to the front of the queue.
NotifySleep ==
  /\ Pause /\ link.st \notin {"asleep", "group"}
  /\ queue' = IF tx.packet = 0 THEN queue ELSE << [id |-> tx.packet, to |-> tx.to] >> \o queue
  /\ tx' = [tx EXCEPT !.packet = 0]
  /\ link' = In("asleep")
  /\ UNCHANGED <<queued, asked, next, last, up, done>>

\* DcfManager::NotifyWakeupNow forgets the request before NotifyWakeUp.
NotifyWakeUp ==
  /\ link.st = "asleep"
  /\ link' = Idle
  /\ UNCHANGED <<queued, queue, tx, next, last, up, done, hist>>
  /\ asked' = RestartAccessIfNeeded(0)

\* NotifyChannelSwitching; DcfManager forgets the request.
NotifyChannelSwitching ==
  /\ Pause /\ link.st \notin {"asleep", "group"}
  /\ done' = [done EXCEPT !.gone = @ \cup {p.id : p \in ToSet(queue)} \cup ({tx.packet} \ {0})]
  /\ queue' = << >>
  /\ tx' = [tx EXCEPT !.packet = 0]
  /\ asked' = 0
  /\ link' = Idle
  /\ UNCHANGED <<queued, next, last, up>>

-----------------------------------------------------------------------------
Init ==
  /\ queued = 0 /\ queue = << >>
  /\ tx = [packet |-> 0, to |-> Group, seq |-> 0, retry |-> FALSE]
  /\ asked = 0
  /\ next = [d \in Dests |-> 0]
  /\ link = Idle
  /\ last = [r \in Recipients |-> SeqSpace]
  /\ up = [r \in Recipients |-> << >>]
  /\ done = [ok |-> {}, failed |-> {}, gone |-> {}, early |-> {}]
  /\ hist = [tail |-> {}, reused |-> {}, pauses |-> 0]

Next ==
  \/ \E d \in Dests : Queue(d)
  \/ Expire
  \/ GrantNothing \/ GrantNext \/ GrantAgain
  \/ InternalCollisionOfCurrent \/ InternalCollisionOfHead
  \/ GotCts \/ MissedCts \/ Arrive \/ MissedAck \/ GotAck
  \/ StartNextNothing \/ StartNext \/ EndTxNoAck
  \/ NotifySleep \/ NotifyWakeUp \/ NotifyChannelSwitching

Spec == Init /\ [][Next]_vars

-----------------------------------------------------------------------------
(* Properties *)

Packets == [id : Msdus, to : Dests]
Headers == [packet : 0 .. MaxMsdus, to : Dests, seq : 0 .. SeqSpace - 1, retry : BOOLEAN]
Links == [st : {"idle", "group", "rts", "data", "ack", "sifs", "asleep"}, over : 0 .. MaxMsdus]

\* Types.  There is a packet to send from a grant to the answer to its frame.
TypeOK ==
  /\ queued \in 0 .. MaxMsdus /\ queue \in Seq(Packets)
  /\ tx \in Headers /\ asked \in 0 .. MaxMsdus
  /\ next \in [Dests -> 0 .. SeqSpace - 1] /\ last \in [Recipients -> 0 .. SeqSpace]
  /\ link \in Links
  /\ link.st \in {"group", "rts", "data", "ack"} => tx.packet # 0 /\ (link.st = "group" <=> tx.to = Group)
  /\ link.st \in {"sifs", "asleep"} => tx.packet = 0
  /\ up \in [Recipients -> Seq(Msdus)]
  /\ done \in [ok : SUBSET Msdus, failed : SUBSET Msdus, gone : SUBSET Msdus, early : SUBSET Msdus]
  /\ hist \in [tail : SUBSET Msdus, reused : SUBSET Msdus, pauses : 0 .. MaxSleeps]

Settled == done.ok \cup done.failed \cup done.gone

\* Packets wait, and nobody has asked for access.
Forgotten == link = Idle /\ asked = 0 /\ First(tx.packet, queue) # 0

\* Packets are left without a request only at the end of a TXOP, by a StartNext that
\* sends nothing (GotAck asked for nothing, as there was a packet to send), and only
\* until the next call of Queue.
OnlyTxopForgets ==
  [][/\ Forgotten' => Forgotten \/ link.st = "sifs"
     /\ Forgotten /\ queued' # queued => ~Forgotten']_vars

\* The packet that access was requested for (m_isAccessRequestedForRts is about it)
\* is the one that a grant sends or a collision finds, unless a TXOP got in between
\* and has to send its packet again, or the packet has expired, went in a TXOP, or was
\* given up after collisions: only then can a request be left with no packet at all
\* (the assertion in NotifyInternalCollision).
AskedForFirst ==
  link = Idle /\ asked # 0 =>
    LET p == First(tx.packet, queue) IN asked = p \/ asked \in Settled \/ p \in hist.tail

\* With the types above a packet is reported once and then never sent, except one that
\* a collision found at the head of the queue: it is reported as failed, and sent and
\* reported later.
ReportedOnce ==
  /\ TypeOK
  /\ ({tx.packet} \cup {p.id : p \in ToSet(queue)}) \cap Settled = {}
  /\ done.ok \cap (done.failed \cup done.gone) = {} /\ done.failed \cap done.gone = {}

\* What is reported as sent was passed up by its recipient, except packets that
\* StartNext has sent under the number of the packet before, and with a retry bit.
TxOkForwarded ==
  done.ok \subseteq (UNION {ToSet(up[r]) : r \in Recipients}) \cup hist.reused

\* While the PHY neither sleeps nor switches, each recipient passes its packets up in
\* the order in which they were queued, and each at most once.
ForwardedOnce ==
  hist.pauses = 0 =>
    \A r \in Recipients : \A i \in 1 .. Len(up[r]) - 1 : up[r][i] < up[r][i + 1]
=============================================================================
