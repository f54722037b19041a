----------------------------- MODULE DcaTransfer -----------------------------
(***************************************************************************)
(* The transfer of unicast MSDUs, in fragments or whole, by the DcaTxop of *)
(* a station (wifi/model/dca-txop.cc) to another one: sequence numbers     *)
(* from MacTxMiddle, retries as WifiRemoteStationManager counts them, and  *)
(* the duplicate detection and defragmentation of MacRxMiddle.             *)
(*                                                                         *)
(* Access to the medium is granted at any time outside an exchange         *)
(* (DcfManager), and every frame may be lost.  MSDUs are numbered in the   *)
(* order in which they are queued; as PushFront only puts back the one     *)
(* that was taken last, a queue is the set of its MSDUs, lowest first.     *)
(***************************************************************************)
EXTENDS Integers, FiniteSets, Sequences

CONSTANTS
  MaxMsdus,   \* bound: MSDUs that are queued
  Frags,      \* [1 .. MaxMsdus -> fragments]: 1 for an MSDU below the threshold, and
              \* at most 11, as the threshold is at least 256 and an MSDU has 2304 octets
  SeqMod,     \* sequence numbers, 4096
  MaxSlrc,    \* retry limit of data frames
  MaxSsrc,    \* retry limit of RTS frames
  UseRts,     \* may a frame be longer than the RTS threshold?
  MaxSize,    \* MaxPacketNumber of the WifiMacQueue
  CanSleep, CanSwitch,  \* may the PHY of the sender sleep, or switch its channel?
  MaxDrawn    \* bound: sequence numbers drawn before the last group frame or sleep

Msdus == 1 .. MaxMsdus

ASSUME SizesAssumption ==
  /\ MaxMsdus \in Nat /\ Frags \in [Msdus -> 1 .. 15]
  /\ SeqMod \in Nat \ {0}
  /\ MaxSlrc \in Nat /\ MaxSsrc \in Nat /\ MaxSize \in Nat /\ MaxDrawn \in Nat
ASSUME FlagsAssumption ==
  /\ UseRts \in BOOLEAN /\ CanSleep \in BOOLEAN /\ CanSwitch \in BOOLEAN

VARIABLES
  queued,  \* MSDUs given to Queue so far
  queue,   \* those that wait in m_queue
  drawn,   \* sequence numbers drawn so far: m_sequence is drawn % SeqMod
  tx,      \* m_currentPacket (msdu, 0 if there is none), m_currentHdr,
           \* m_fragmentNumber, and the retry counters of the receiving station
  link,    \* what MacLow is waiting for
  rx,      \* the OriginatorRxStatus of the sender at the receiver
  up,      \* the packets that the receiver has passed up, each by its fragments
  done     \* MSDUs that were reported (ok, failed), or lost from the queue (gone)

vars == <<queued, queue, drawn, tx, link, rx, up, done>>

-----------------------------------------------------------------------------
(* The receiver: MacRxMiddle *)

Control(h) == <<h.seq, h.frag>>
Part(h) == <<h.msdu, h.frag>>

(* Mutant of IsDuplicate: the fragment number is not compared. *)
IsDuplicateMsdu(h) == h.retry /\ rx.last[1] = h.seq

IsDuplicate(h) == h.retry /\ rx.last = Control(h)

(* Mutant of IsNextFragment: any MSDU may continue the one before. *)
IsNextOfAny(h) == h.frag = rx.last[2] + 1

IsNextFragment(h) == h.seq = rx.last[1] /\ h.frag = rx.last[2] + 1

(* Mutant of Accepted: also group frames are remembered. *)
AcceptedAll(h) == [rx EXCEPT !.last = Control(h)]

\* A whole packet is passed up; only a unicast one is remembered.
Accepted(h) == IF h.group THEN rx ELSE [rx EXCEPT !.last = Control(h)]

\* HandleFragments: what is left of the status, and what is passed up.
Accumulate(h) ==
  /\ rx' = [defrag |-> TRUE, last |-> Control(h), frags |-> Append(rx.frags, Part(h))]
  /\ UNCHANGED up

AccumulateLast(h) ==
  /\ rx' = [defrag |-> FALSE, last |-> Control(h), frags |-> << >>]
  /\ up' = Append(up, Append(rx.frags, Part(h)))

Forward(h) ==
  /\ rx' = Accepted(h)
  /\ up' = IF h.group THEN up ELSE Append(up, << Part(h) >>)

Receive(h) ==
  \/ /\ IsDuplicate(h) \/ (rx.defrag /\ ~IsNextFragment(h))
     /\ UNCHANGED <<rx, up>>
  \/ /\ ~IsDuplicate(h)
     /\ \/ rx.defrag /\ IsNextFragment(h) /\ h.more /\ Accumulate(h)
        \/ rx.defrag /\ IsNextFragment(h) /\ ~h.more /\ AccumulateLast(h)
        \/ ~rx.defrag /\ h.more /\ Accumulate(h)
        \/ ~rx.defrag /\ ~h.more /\ Forward(h)

-----------------------------------------------------------------------------
(* The sender: DcaTxop *)

NextSequence == drawn % SeqMod

\* m_currentPacket = 0; the rest is set again when an MSDU is dequeued.
Released(t) ==
  [msdu |-> 0, seq |-> 0, frag |-> 0, retry |-> FALSE, slrc |-> t.slrc, ssrc |-> t.ssrc]

IsLastFragment == tx.frag = Frags[tx.msdu] - 1

\* GetFragmentPacket: the header of the fragment to be sent.
Header ==
  [msdu |-> tx.msdu, seq |-> tx.seq, frag |-> tx.frag, retry |-> tx.retry,
   more |-> ~IsLastFragment, group |-> FALSE]

\* MacLow::StartTransmission
StartTransmission == link' = "data" \/ (UseRts /\ link' = "rts")

(* Mutant of IsFront: new MSDUs are put to the front. *)
IsBack(m) == \A k \in queue : k <= m

\* Is m the front of m_queue?
IsFront(m) == \A k \in queue : m <= k

\* WifiMacQueue: MSDUs leave the queue unreported.
Lost(ms) == done' = [done EXCEPT !.gone = @ \cup ms]

\* Queue: a full queue drops the MSDU.
Queue ==
  /\ queued < MaxMsdus
  /\ queued' = queued + 1
  /\ IF Cardinality(queue) = MaxSize
       THEN Lost({queued'}) /\ UNCHANGED queue
       ELSE queue' = queue \cup {queued'} /\ UNCHANGED done
  /\ UNCHANGED <<drawn, tx, link, rx, up>>

\* WifiMacQueue::Cleanup: the lifetime of the MSDU that has waited longest is over;
\* one that a sleep has put back has a new lifetime.
Expire ==
  /\ \E m \in queue :
       /\ \/ IsFront(m)
          \/ CanSleep /\ Cardinality({k \in queue : k < m}) = 1
       /\ queue' = queue \ {m}
       /\ Lost({m})
  /\ UNCHANGED <<queued, drawn, tx, link, rx, up>>

\* NotifyAccessGranted: the next MSDU, with a new sequence number.
SendNext ==
  /\ link = "idle" /\ tx.msdu = 0
  /\ \E m \in queue :
       /\ IsFront(m)
       /\ tx' = [tx EXCEPT !.msdu = m, !.seq = NextSequence, !.frag = 0, !.retry = FALSE]
       /\ queue' = queue \ {m}
  /\ drawn' = drawn + 1
  /\ StartTransmission
  /\ UNCHANGED <<queued, rx, up, done>>

\* NotifyAccessGranted: the current fragment again.
SendAgain ==
  /\ link = "idle" /\ tx.msdu # 0
  /\ StartTransmission
  /\ UNCHANGED <<queued, queue, drawn, tx, rx, up, done>>

\* MacLow::ReceiveOk of the CTS, ReportRtsOk and SendDataAfterCts.
GotCts ==
  /\ link = "rts"
  /\ tx' = [tx EXCEPT !.ssrc = 0]
  /\ link' = "data"
  /\ UNCHANGED <<queued, queue, drawn, rx, up, done>>

\* The retries are used up: the MSDU is reported as failed.
Failed(t) == tx' = Released(t) /\ done' = [done EXCEPT !.failed = @ \cup {t.msdu}]

\* MacLow::CtsTimeout and MissedCts.
MissedCts ==
  /\ link = "rts"
  /\ IF tx.ssrc + 1 < MaxSsrc
       THEN tx' = [tx EXCEPT !.ssrc = @ + 1] /\ UNCHANGED done
       ELSE Failed([tx EXCEPT !.ssrc = 0])
  /\ link' = "idle"
  /\ UNCHANGED <<queued, queue, drawn, rx, up>>

\* The fragment reaches the receiver, which answers with an ACK in any case.
Arrive ==
  /\ link = "data"
  /\ Receive(Header)
  /\ link' = "ack"
  /\ UNCHANGED <<queued, queue, drawn, tx, done>>

(* Mutant of MissedAck: the retry bit is not set. *)
MissedAckNoRetry ==
  /\ link \in {"data", "ack"}
  /\ IF tx.slrc + 1 < MaxSlrc
       THEN tx' = [tx EXCEPT !.slrc = @ + 1] /\ UNCHANGED done
       ELSE Failed([tx EXCEPT !.slrc = 0])
  /\ link' = "idle"
  /\ UNCHANGED <<queued, queue, drawn, rx, up>>

(* Mutant of MissedAck: the failure is not counted. *)
MissedAckUncounted ==
  /\ link \in {"data", "ack"}
  /\ IF tx.slrc + 1 < MaxSlrc
       THEN tx' = [tx EXCEPT !.retry = TRUE] /\ UNCHANGED done
       ELSE Failed([tx EXCEPT !.slrc = 0])
  /\ link' = "idle"
  /\ UNCHANGED <<queued, queue, drawn, rx, up>>

\* The fragment or its ACK is lost: MacLow::NormalAckTimeout and MissedAck.
MissedAck ==
  /\ link \in {"data", "ack"}
  /\ IF tx.slrc + 1 < MaxSlrc
       THEN tx' = [tx EXCEPT !.slrc = @ + 1, !.retry = TRUE] /\ UNCHANGED done
       ELSE Failed([tx EXCEPT !.slrc = 0])
  /\ link' = "idle"
  /\ UNCHANGED <<queued, queue, drawn, rx, up>>

\* MacLow::ReceiveOk of the ACK, ReportDataOk and GotAck.
GotAck ==
  /\ link = "ack"
  /\ IF IsLastFragment
       THEN /\ tx' = Released([tx EXCEPT !.slrc = 0])
            /\ done' = [done EXCEPT !.ok = @ \cup {tx.msdu}]
            /\ link' = "idle"
       ELSE /\ tx' = [tx EXCEPT !.slrc = 0]
            /\ link' = "sifs"
            /\ UNCHANGED done
  /\ UNCHANGED <<queued, queue, drawn, rx, up>>

\* A SIFS after the ACK: WaitSifsAfterEndTxFragment and StartNextFragment.
StartNextFragment ==
  /\ link = "sifs"
  /\ tx' = [tx EXCEPT !.frag = @ + 1]
  /\ StartTransmission
  /\ UNCHANGED <<queued, queue, drawn, rx, up, done>>

\* Another DcaTxop of the sender sends a frame to a group, or to a station other
\* than the receiver, between two exchanges; a group frame may reach the receiver.
OtherFrame ==
  /\ link = "idle" /\ drawn < MaxDrawn
  /\ drawn' = drawn + 1
  /\ \/ Receive([msdu |-> 0, seq |-> NextSequence, frag |-> 0, retry |-> FALSE,
                 more |-> FALSE, group |-> TRUE])
     \/ UNCHANGED <<rx, up>>
  /\ UNCHANGED <<queued, queue, tx, link, done>>

\* NotifySleep: the MSDU goes back to the queue, if there is room.
NotifySleep ==
  /\ CanSleep /\ link # "asleep" /\ drawn < MaxDrawn
  /\ link' = "asleep"
  /\ tx' = Released(tx)
  /\ IF tx.msdu = 0 THEN UNCHANGED <<queue, done>>
     ELSE IF Cardinality(queue) = MaxSize
       THEN Lost({tx.msdu}) /\ UNCHANGED queue
       ELSE queue' = queue \cup {tx.msdu} /\ UNCHANGED done
  /\ UNCHANGED <<queued, drawn, rx, up>>

NotifyWakeUp ==
  /\ link = "asleep"
  /\ link' = "idle"
  /\ UNCHANGED <<queued, queue, drawn, tx, rx, up, done>>

\* NotifyChannelSwitching; the station manager forgets its stations.
NotifyChannelSwitching ==
  /\ CanSwitch /\ link # "asleep"
  /\ link' = "idle"
  /\ tx' = Released([slrc |-> 0, ssrc |-> 0])
  /\ queue' = {}
  /\ Lost(queue \cup ({tx.msdu} \ {0}))
  /\ UNCHANGED <<queued, drawn, rx, up>>

-----------------------------------------------------------------------------
Init ==
  /\ queued = 0 /\ queue = {} /\ drawn = 0
  /\ tx = [msdu |-> 0, seq |-> 0, frag |-> 0, retry |-> FALSE, slrc |-> 0, ssrc |-> 0]
  /\ link = "idle"
  /\ rx = [defrag |-> FALSE, last |-> <<SeqMod - 1, 15>>, frags |-> << >>]
  /\ up = << >>
  /\ done = [ok |-> {}, failed |-> {}, gone |-> {}]

\* The steps of an exchange, none of which waits for anything but time.
Exchange ==
  \/ SendNext \/ SendAgain
  \/ GotCts \/ MissedCts
  \/ Arrive \/ GotAck \/ MissedAck
  \/ StartNextFragment

Next ==
  \/ Queue \/ Expire
  \/ Exchange
  \/ OtherFrame
  \/ NotifySleep \/ NotifyWakeUp \/ NotifyChannelSwitching

Spec == Init /\ [][Next]_vars

\* Timeouts fire, access is granted to who asks for it, and whoever lets the PHY
\* sleep resumes it, and does so finitely often: each time the MSDU that is sent goes
\* back to the queue, and no code keeps the user from doing it again before access.
FairSpec ==
  /\ Spec
  /\ WF_vars(Exchange) /\ WF_vars(NotifyWakeUp)
  /\ <>[][~NotifySleep]_vars

-----------------------------------------------------------------------------
(* Properties *)

Headers == [msdu : 0 .. MaxMsdus, seq : 0 .. SeqMod - 1, frag : 0 .. 15, retry : BOOLEAN,
            slrc : 0 .. MaxSlrc, ssrc : 0 .. MaxSsrc]
Reports == [ok : SUBSET Msdus, failed : SUBSET Msdus, gone : SUBSET Msdus]
Parts == (1 .. MaxMsdus) \X (0 .. 15)
Statuses == [defrag : BOOLEAN, last : (0 .. SeqMod - 1) \X (0 .. 15), frags : Seq(Parts)]

\* Types.  No exchange is under way without an MSDU, fragments stay within it,
\* and the receiver holds fragments exactly while it is defragmenting.
TypeOK ==
  /\ queued \in 0 .. MaxMsdus /\ queue \subseteq 1 .. queued
  /\ drawn \in Nat
  /\ tx \in Headers
  /\ tx.msdu \in 0 .. queued /\ tx.msdu \notin queue
  /\ tx.msdu # 0 => tx.frag < Frags[tx.msdu]
  /\ link \in {"idle", "rts", "data", "ack", "sifs", "asleep"}
  /\ link \in {"rts", "data", "ack", "sifs"} => tx.msdu # 0
  /\ link = "sifs" => ~IsLastFragment
  /\ link = "asleep" => tx.msdu = 0
  /\ rx \in Statuses
  /\ rx.defrag <=> rx.frags # << >>
  /\ up \in Seq(Seq(Parts))
  /\ done \in Reports

Whole(m) == [i \in 1 .. Frags[m] |-> <<m, i - 1>>]
Last(p) == p[Len(p)]
Delivered == {Last(up[i])[1] : i \in 1 .. Len(up)}

\* What is passed up is a whole MSDU with its fragments in order: never a part of
\* one, or parts of two (HandleFragments).
WholeMsdus == \A i \in 1 .. Len(up) : \E m \in Msdus : up[i] = Whole(m)

\* MSDUs are passed up in the order in which they were queued, and each at most
\* once although a lost ACK makes DcaTxop send its fragment again (IsDuplicate).
ForwardedOnce ==
  \A i, j \in 1 .. Len(up) : i < j => Last(up[i])[1] < Last(up[j])[1]

\* MSDUs are passed up in the order in which they were queued, possibly twice.
InOrder ==
  \A i, j \in 1 .. Len(up) : i < j => Last(up[i])[1] <= Last(up[j])[1]

\* TxOk is called for what the receiver has received (regular-wifi-mac.h).
TxOkForwarded == done.ok \subseteq Delivered

\* Every MSDU is reported to the sender's MAC in the end, or has left its queue.
Settled ==
  \A m \in Msdus : m <= queued ~> m \in done.ok \cup done.failed \cup done.gone

\* The hypothesis of what follows: sequence numbers have not come round yet.
NoWrap == drawn <= SeqMod

\* The sequence numbers in use have been drawn before.
SeqsDrawn ==
  /\ tx.msdu # 0 => tx.seq < drawn
  /\ rx.last[1] < drawn \/ (~rx.defrag /\ rx.last[2] = 15)

\* What the receiver holds is the beginning of one MSDU.
Partial ==
  rx.defrag =>
    LET m == rx.frags[1][1] IN
    /\ Len(rx.frags) = rx.last[2] + 1 /\ Len(rx.frags) < Frags[m]
    /\ \A i \in 1 .. Len(rx.frags) : rx.frags[i] = <<m, i - 1>>

\* What the receiver has of the MSDU that is sent: nothing yet, its first fragments,
\* all of them, or nothing because it is waiting for fragments of another one.
Unheard == ~rx.defrag /\ tx.frag = 0 /\ link \notin {"ack", "sifs"}
           /\ (rx.last[1] = tx.seq => rx.last[2] = 15)
Started ==
  /\ rx.defrag /\ rx.last[1] = tx.seq /\ rx.frags[1][1] = tx.msdu
  /\ \/ tx.frag = rx.last[2] /\ ~IsLastFragment /\ (link \in {"ack", "sifs"} \/ tx.retry)
     \/ tx.frag = rx.last[2] + 1 /\ link \notin {"ack", "sifs"}
Complete == ~rx.defrag /\ rx.last = <<tx.seq, tx.frag>> /\ IsLastFragment
            /\ link # "sifs" /\ (link = "ack" \/ tx.retry)
Ignored == rx.defrag /\ rx.last[1] # tx.seq

\* The inductive invariant, whatever the PHY of the sender does.
Sync ==
  /\ SeqsDrawn /\ Partial
  /\ tx.msdu # 0 => Unheard \/ Started \/ Complete \/ Ignored
  /\ WholeMsdus

Quiet == ~CanSleep /\ ~CanSwitch

\* With neither sleep nor switching an MSDU has one sequence number, and what was
\* sent before has lower numbers than what is sent.
Before(S) ==
  \A k \in S : k \in 1 .. queued /\ (\A q \in queue : k < q) /\ (tx.msdu # 0 => k < tx.msdu)
Ordered ==
  /\ Before(done.ok \cup done.failed)
  /\ Before(Delivered \ {tx.msdu})
  /\ \A q \in queue : tx.msdu < q
  /\ rx.defrag => rx.frags[1][1] \notin Delivered /\ Before({rx.frags[1][1]} \ {tx.msdu})
  /\ tx.msdu # 0 => (tx.msdu \in Delivered <=> Complete)
  /\ tx.msdu # 0 /\ Ignored => rx.frags[1][1] # tx.msdu
  /\ ForwardedOnce

\* The abstract transfer; its receiver is blocked when this one holds fragments of
\* another MSDU than the one that is sent.
D == INSTANCE Delivery WITH
       current <- tx.msdu, delivered <- Delivered, ok <- done.ok, failed <- done.failed,
       blocked <- rx.defrag /\ rx.frags[1][1] # tx.msdu

\* The code delivers what the abstract transfer promises.
Delivers == D!Spec
=============================================================================
