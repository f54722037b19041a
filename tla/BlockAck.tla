------------------------------ MODULE BlockAck ------------------------------
(***************************************************************************)
(* An established HT-immediate block ack agreement between one originator  *)
(* (wifi/model/block-ack-manager.cc, edca-txop-n.cc and                    *)
(* MacLow::AggregateToAmpdu) and one recipient (MacLow::ReceiveMpdu and    *)
(* block-ack-cache.cc) for one TID, with compressed block acks, over a     *)
(* medium that loses frames of either direction.                           *)
(*                                                                         *)
(* An MSDU is the number of its turn in the queue of the originator.  Both *)
(* ends work on its sequence number, Sn(n), which wraps around.  The queue *)
(* of the originator holds all of them from the start, a grant sends one   *)
(* frame (no TXOP), and no lifetime ends.                                  *)
(***************************************************************************)
EXTENDS Integers, SequencesExt, FiniteSets

CONSTANTS
  MaxMsdus,     \* bound: the MSDUs 1 .. MaxMsdus are sent
  SeqSpace,     \* 4096, the sequence numbers are 0 .. SeqSpace - 1
  Window,       \* 64, of an A-MPDU, a bitmap and the cache of the recipient
  BufferSize,   \* 1024, the reorder buffer of the recipient
  Agreements    \* bound: the sequence number of the first MSDU, and how many
                \* transmissions are given up after too many retries

Half == SeqSpace \div 2

ASSUME SizesAssumption ==
  /\ MaxMsdus \in Nat /\ SeqSpace \in Nat
  /\ Window \in Nat \ {0} /\ 2 * Window < Half /\ BufferSize \in Window .. Half - 1
  /\ \A a \in Agreements : a.first \in 0 .. SeqSpace - 1 /\ a.failures \in Nat

Msdus == 1 .. MaxMsdus

VARIABLES
  first,    \* the sequence number of the first MSDU
  orig,     \* EdcaTxopN, its BlockAckManager and the aggregate queue of its MacLow
  rcpt,     \* the agreement and the block ack cache in the MacLow of the recipient
  air,      \* the frame exchange
  hist      \* to state properties: the MSDUs acknowledged to the originator, how many
            \* transmissions it has given up, and how many it may still

vars == <<first, orig, rcpt, air, hist>>

Sn(n) == (first + n - 1) % SeqSpace

\* m_currentPacket: nothing, an MSDU or a block ack request.
NoPacket == [type |-> "none"]
Data(n) == [type |-> "data", msdu |-> n]
Bar(s) == [type |-> "bar", start |-> s]

\* The frame exchange.  Of an A-MPDU the rest is still to arrive, and the recipient
\* has heard some of it or not.
Idle == [st |-> "idle"]
Rts == [st |-> "rts"]
Single == [st |-> "single"]
Ampdu(rest, heard) == [st |-> "ampdu", rest |-> rest, heard |-> heard]
BarFrame == [st |-> "bar"]
Ack == [st |-> "ack"]
BlockAckFrame(s, bits) == [st |-> "ba", start |-> s, bits |-> bits]

\* QosUtilsIsOldPacket, MacLow::IsInWindow
IsOld(start, s) == (s - start) % SeqSpace >= Half
IsInWindow(s, start, size) == (s - start) % SeqSpace < size

\* How many elements at the front of a sequence are in S.
Leading(s, S) ==
  CHOOSE k \in 0 .. Len(s) : (\A i \in 1 .. k : s[i] \in S) /\ (k < Len(s) => s[k + 1] \notin S)

\* The elements at the places I of a sequence, in their order.
Selected(s, I) ==
  LET upTo[i \in 0 .. Len(s)] == IF i = 0 THEN <<>>
                                ELSE IF i \in I THEN Append(upTo[i - 1], s[i]) ELSE upTo[i - 1]
  IN upTo[Len(s)]

\* The insertion loops of StorePacket and InsertInRetryQueue, for one packet and for
\* those of t in turn.
InsertBySn(s, n) == InsertAt(s, 1 + Leading(s, {m \in Msdus : ~IsOld(Sn(m), Sn(n))}), n)

InsertAll(s, t) ==
  LET upTo[i \in 0 .. Len(t)] == IF i = 0 THEN s ELSE InsertBySn(upTo[i - 1], t[i])
  IN upTo[Len(t)]

-----------------------------------------------------------------------------
(* Block ack manager *)

Without(s, S) == Selected(s, {i \in DOMAIN s : s[i] \notin S})

\* BlockAckManager::CleanupBuffers, as long as no lifetime ends.
CleanupBuffers(o) == IF o.pkts = <<>> THEN o ELSE [o EXCEPT !.start = Sn(o.pkts[1])]

\* The loops of GetNextPacket and PeekNextPacketByTidAndAddress to the next packet
\* that is not older than the window.  The window is moved to a packet beyond it,
\* which is a comparison of numbers that have wrapped around or not.
NextRetry(o) ==
  LET c == CleanupBuffers(o)
      old == ToSet(SubSeq(c.retry, 1, Leading(c.retry, {n \in Msdus : IsOld(c.start, Sn(n))})))
      left == Without(c.retry, old)
      beyond == left # <<>> /\ Sn(left[1]) > (c.start + Window - 1) % SeqSpace
  IN [c EXCEPT !.retry = left, !.pkts = Without(@, old), !.start = IF beyond THEN Sn(left[1]) ELSE @]

\* A mutant: the packet leaves m_retryPackets but not the buffer.
GetNextPacketKept(o) ==
  IF o.retry # <<>> THEN [o EXCEPT !.cur = Data(o.retry[1]), !.retry = Tail(@)]
  ELSE IF o.next <= MaxMsdus THEN [o EXCEPT !.cur = Data(o.next), !.next = @ + 1] ELSE o

\* BlockAckManager::GetNextPacket after its search, and the dequeuing in
\* NotifyAccessGranted, if the queue has an available packet.
GetNextPacket(o) ==
  IF o.retry # <<>> THEN [o EXCEPT !.cur = Data(o.retry[1]), !.retry = Tail(@),
                                   !.pkts = Without(@, {o.retry[1]})]
  ELSE IF o.next <= MaxMsdus THEN [o EXCEPT !.cur = Data(o.next), !.next = @ + 1] ELSE o

\* Packets to send after n in one A-MPDU: those to be sent again, then new ones.
Candidates(o, n) ==
  LET all == o.retry \o [i \in 1 .. MaxMsdus - o.next + 1 |-> o.next + i - 1]
  IN SubSeq(all, 1, Leading(all, {m \in Msdus : IsInWindow(Sn(m), Sn(n), Window)}))

\* MacLow::AggregateToAmpdu puts some of them behind n; BlockAckManager::StorePacket
\* has all stored at once, with an RTS to come or not: m_txParams asks for the RTS only
\* later.  A packet that stays alone is not stored.
AggregateToAmpdu(o, n, more) ==
  IF more = <<>> THEN o
  ELSE [o EXCEPT !.low = <<n>> \o more,
                 !.retry = Without(@, ToSet(more)),
                 !.pkts = InsertAll(Without(@, ToSet(more)), <<n>> \o more),
                 !.next = IF Last(more) < @ THEN @ ELSE Last(more) + 1]

\* EdcaTxopN::RestartAccessIfNeeded looks for the next packet (PeekNextPacket).
RestartAccessIfNeeded(o) == IF o.cur = NoPacket /\ o.retry # <<>> THEN CleanupBuffers(o) ELSE o

\* A mutant: BlockAckManager::HasPackets is not asked.
HasQueued(o) == o.cur # NoPacket \/ o.next <= MaxMsdus

\* What RestartAccessIfNeeded and NotifyAccessGranted ask: is there something to send?
HasWork(o) == o.cur # NoPacket \/ o.next <= MaxMsdus \/ o.retry # <<>>

-----------------------------------------------------------------------------
(* Originator *)

DataFrame(o) == IF o.low = <<>> THEN Single ELSE Ampdu(o.low, FALSE)

\* EdcaTxopN::NotifyAccessGranted and MacLow::StartTransmission.  The sizes of packets
\* decide how many fit and whether there is an RTS; they are left open.  An A-MPDU
\* whose RTS failed is sent as it is.  If the search has discarded all that there was,
\* nothing is sent.
NotifyAccessGranted ==
  /\ air = Idle /\ HasWork(orig)
  /\ \E o \in {IF orig.cur = NoPacket THEN GetNextPacket(NextRetry(orig)) ELSE orig} :
       \/ /\ o.cur.type # "data"
          /\ orig' = o /\ air' = IF o.cur = NoPacket THEN Idle ELSE BarFrame
       \/ /\ o.low # <<>>
          /\ orig' = o /\ air' = Rts
       \/ /\ o.cur.type = "data" /\ o.low = <<>>
          /\ \E c \in {NextRetry(o)} :
             \E all \in {Candidates(c, o.cur.msdu)} :
             \E k \in 0 .. Len(all) :
               orig' = AggregateToAmpdu(c, o.cur.msdu, SubSeq(all, 1, k))
          /\ air' \in {Rts, DataFrame(orig')}
  /\ UNCHANGED <<first, rcpt, hist>>

\* MacLow::SendDataAfterCts
GotCts ==
  /\ air = Rts
  /\ air' = DataFrame(orig)
  /\ UNCHANGED <<first, orig, rcpt, hist>>

\* What MissedCts and MissedAck do when the retries are used up: a block ack request
\* that starts at the next new packet takes the place of the packet.
GiveUp ==
  /\ hist.left > 0
  /\ orig' = [orig EXCEPT !.cur = Bar(Sn(orig.next)), !.low = <<>>]
  /\ hist' = [hist EXCEPT !.failed = @ + 1, !.left = @ - 1]

\* EdcaTxopN::MissedCts; the counts of retries of the station manager are left open.
MissedCts ==
  /\ air = Rts
  /\ GiveUp \/ UNCHANGED <<orig, hist>>
  /\ air' = Idle
  /\ UNCHANGED <<first, rcpt>>

\* EdcaTxopN::GotAck
GotAck ==
  /\ air = Ack
  /\ orig' = RestartAccessIfNeeded([orig EXCEPT !.cur = NoPacket])
  /\ hist' = [hist EXCEPT !.acked = @ \cup {orig.cur.msdu}]
  /\ air' = Idle
  /\ UNCHANGED <<first, rcpt>>

\* MacLow::NormalAckTimeout and EdcaTxopN::MissedAck: the packet or its ACK is lost.
MissedAck ==
  /\ air \in {Single, Ack}
  /\ GiveUp \/ UNCHANGED <<orig, hist>>
  /\ air' = Idle
  /\ UNCHANGED <<first, rcpt>>

\* CtrlBAckResponseHeader::IsPacketReceived
IsPacketReceived(ba, n) == IsInWindow(Sn(n), ba.start, Window) /\ Sn(n) \in ba.bits

\* BlockAckManager::NotifyGotBlockAck; with the default threshold of 0
\* SwitchToBlockAckIfNeeded sets the start of the window in any case.
NotifyGotBlockAck(o, lost) ==
  [o EXCEPT !.pkts = lost,
            !.retry = InsertAll(@, Without(lost, ToSet(@))),
            !.start = IF lost = <<>> THEN Sn(o.next) ELSE Sn(lost[1])]

\* EdcaTxopN::GotBlockAck; MacLow flushes its aggregate queue.
GotBlockAck ==
  /\ air.st = "ba"
  /\ \E lost \in {Selected(orig.pkts, {i \in DOMAIN orig.pkts :
                                            ~IsPacketReceived(air, orig.pkts[i])})} :
       /\ orig' = RestartAccessIfNeeded(
                    [NotifyGotBlockAck(orig, lost) EXCEPT !.cur = NoPacket, !.low = <<>>])
       /\ hist' = [hist EXCEPT !.acked = @ \cup (ToSet(orig.pkts) \ ToSet(lost))]
  /\ air' = Idle
  /\ UNCHANGED <<first, rcpt>>

\* BlockAckManager::NeedBarRetransmission: both are sequence numbers.
NeedBarRetransmission(o, s) == s + Window - 1 >= o.start

\* MacLow::BlockAckTimeout and EdcaTxopN::MissedBlockAck: a block ack request for the
\* A-MPDU, or the request again.
MissedBlockAck ==
  /\ air.st = "ba" \/ air = BarFrame \/ air = Ampdu(<<>>, FALSE)
  /\ \E c \in {[CleanupBuffers(orig) EXCEPT !.low = <<>>]},
        s \in {IF orig.cur.type = "data" THEN Sn(orig.cur.msdu) ELSE orig.cur.start} :
       orig' = IF NeedBarRetransmission(c, s) THEN [c EXCEPT !.cur = Bar(s)]
               ELSE RestartAccessIfNeeded([c EXCEPT !.cur = NoPacket])
  /\ air' = Idle
  /\ UNCHANGED <<first, rcpt, hist>>

-----------------------------------------------------------------------------
(* Recipient *)

Abs(x) == IF x < 0 THEN -x ELSE x

\* BlockAckCache::UpdateWithMpdu; ResetPortionOfBitmap clears what the window enters.
UpdateWithMpdu(r, s) ==
  LET end == r.wstart + Window - 1
      delta == (s - end) % SeqSpace
      entered == {(end + i) % SeqSpace : i \in 1 .. delta - 1}
  IN IF IsOld(r.wstart, s) THEN r
     ELSE IF IsInWindow(s, r.wstart, Window) THEN [r EXCEPT !.bits = @ \cup {s}]
     ELSE [r EXCEPT !.bits = (@ \ entered) \cup {s}, !.wstart = (@ + delta) % SeqSpace]

\* A mutant: the bitmap is cleared from the new start on, also if the window overlaps.
UpdateWithBlockAckReqAll(r, s) ==
  IF IsOld(r.wstart, s) THEN r
  ELSE [r EXCEPT !.bits = {t \in @ : ~IsInWindow(t, s, Window)}, !.wstart = s]

\* BlockAckCache::UpdateWithBlockAckReq
UpdateWithBlockAckReq(r, s) ==
  LET entered == {t \in 0 .. SeqSpace - 1 : IsInWindow(t, s, Window) /\ ~IsInWindow(t, r.wstart, Window)}
  IN IF IsOld(r.wstart, s) THEN r ELSE [r EXCEPT !.bits = @ \ entered, !.wstart = s]

\* MacLow::StoreMpduIfNeeded
StoreMpduIfNeeded(r, n) ==
  LET Rank(m) == (Sn(m) - r.start + Half) % SeqSpace
      at == 1 + Leading(r.buffer, {m \in Msdus : Rank(m) < Rank(n)})
  IN [UpdateWithMpdu(r, Sn(n)) EXCEPT !.buffer = InsertAt(@, at, n)]

\* MacLow::RxCompleteBufferedPacketsWithSmallerSequence than the start of the window,
\* each sequence number once.
ForwardSmaller(r) ==
  LET k == Leading(r.buffer, {m \in Msdus : IsOld(r.start, Sn(m))})
      once == {i \in 1 .. k : i = 1 \/ r.buffer[i] # r.buffer[i - 1]}
  IN [r EXCEPT !.up = @ \o Selected(r.buffer, once),
               !.buffer = SubSeq(@, k + 1, Len(@))]

\* MacLow::RxCompleteBufferedPacketsUntilFirstLost
ForwardUntilFirstLost(r) ==
  LET inTurn == {i \in DOMAIN r.buffer : Sn(r.buffer[i]) = (r.start + i - 1) % SeqSpace}
      k == Leading([i \in DOMAIN r.buffer |-> i], inTurn)
  IN [r EXCEPT !.up = @ \o SubSeq(r.buffer, 1, k), !.buffer = SubSeq(@, k + 1, Len(@)),
               !.start = (@ + k) % SeqSpace]

\* A mutant: an old packet is stored like a new one.
ReceiveMpduOld(r, n) == ForwardUntilFirstLost(StoreMpduIfNeeded(r, n))

\* MacLow::ReceiveMpdu.  The end of the window is always BufferSize - 1 after its start.
ReceiveMpdu(r, n) ==
  LET s == Sn(n)
      stored == StoreMpduIfNeeded(r, n)
      after == (s - (r.start + BufferSize - 1)) % SeqSpace
      moved == IF IsInWindow(s, r.start, BufferSize) \/ after <= 1 THEN stored
               ELSE ForwardSmaller([stored EXCEPT !.start = Abs(s - BufferSize + 1) % SeqSpace])
  IN IF IsOld(r.start, s) THEN r ELSE ForwardUntilFirstLost(moved)

\* MacLow::ReceiveOk for a QoS data frame that is answered with an ACK.
ReceiveSingle ==
  /\ air = Single
  /\ \E r \in {ReceiveMpdu(rcpt, orig.cur.msdu)} : rcpt' = ForwardUntilFirstLost(ForwardSmaller(r))
  /\ air' = Ack
  /\ UNCHANGED <<first, orig, hist>>

\* MacLow::DeaggregateAmpduAndReceive, MPDU by MPDU: one arrives, or is lost.
ReceiveInAmpdu(n) ==
  /\ air.st = "ampdu" /\ air.rest # <<>> /\ Head(air.rest) = n
  /\ rcpt' = ReceiveMpdu(rcpt, n)
  /\ air' = Ampdu(Tail(air.rest), TRUE)
  /\ UNCHANGED <<first, orig, hist>>

LoseInAmpdu ==
  /\ air.st = "ampdu" /\ air.rest # <<>>
  /\ air' = Ampdu(Tail(air.rest), air.heard)
  /\ UNCHANGED <<first, orig, rcpt, hist>>

\* BlockAckCache::FillBlockAckBitmap
FillBlockAckBitmap(r, s) == {t \in r.bits : IsInWindow(t, s, Window)}

\* MacLow::SendBlockAckAfterAmpdu
SendBlockAckAfterAmpdu ==
  /\ air = Ampdu(<<>>, TRUE)
  /\ air' = BlockAckFrame(rcpt.wstart, FillBlockAckBitmap(rcpt, rcpt.wstart))
  /\ UNCHANGED <<first, orig, rcpt, hist>>

\* MacLow::ReceiveOk for a block ack request, and SendBlockAckAfterBlockAckRequest.
ReceiveBar ==
  /\ air = BarFrame
  /\ \E s \in {orig.cur.start} : \E c \in {UpdateWithBlockAckReq(rcpt, s)} :
       /\ rcpt' = IF IsOld(c.start, s) THEN c
                  ELSE ForwardUntilFirstLost(ForwardSmaller([c EXCEPT !.start = s]))
       /\ air' = BlockAckFrame(s, FillBlockAckBitmap(c, s))
  /\ UNCHANGED <<first, orig, hist>>

-----------------------------------------------------------------------------
\* The agreement is set up (BlockAckManager::CreateAgreement and UpdateAgreement,
\* MacLow::CreateBlockAckAgreement) and the MSDUs are queued.
Init ==
  /\ \E a \in Agreements : first = a.first /\ hist = [acked |-> {}, failed |-> 0, left |-> a.failures]
  /\ orig = [next |-> 1, start |-> first, pkts |-> <<>>, retry |-> <<>>, cur |-> NoPacket, low |-> <<>>]
  /\ rcpt = [start |-> first, buffer |-> <<>>, wstart |-> first, bits |-> {}, up |-> <<>>]
  /\ air = Idle

Next ==
  \/ NotifyAccessGranted \/ GotCts \/ MissedCts \/ GotAck \/ MissedAck
  \/ GotBlockAck \/ MissedBlockAck
  \/ ReceiveSingle \/ (\E n \in Msdus : ReceiveInAmpdu(n)) \/ LoseInAmpdu
  \/ SendBlockAckAfterAmpdu \/ ReceiveBar

Spec == Init /\ [][Next]_vars

\* An exchange goes on; a frame that is sent again and again gets through, and so
\* does its answer.
Fairness ==
  /\ WF_vars(Next)
  /\ SF_vars(GotCts) /\ SF_vars(ReceiveSingle) /\ SF_vars(ReceiveBar)
  /\ \A n \in Msdus : SF_vars(ReceiveInAmpdu(n))
  /\ SF_vars(GotAck) /\ SF_vars(GotBlockAck)

FairSpec == Spec /\ Fairness

-----------------------------------------------------------------------------
(* Properties *)

\* Types and ranges: the windows of both ends stay within the sequence numbers.
TypeOK ==
  /\ first \in 0 .. SeqSpace - 1
  /\ orig.next \in 1 .. MaxMsdus + 1 /\ orig.start \in 0 .. SeqSpace - 1
  /\ \A s \in {orig.pkts, orig.retry, orig.low, rcpt.buffer, rcpt.up} : s \in Seq(Msdus)
  /\ orig.cur \in {NoPacket} \cup {Data(n) : n \in Msdus} \cup {Bar(s) : s \in 0 .. SeqSpace - 1}
  /\ {rcpt.start, rcpt.wstart} \cup rcpt.bits \subseteq 0 .. SeqSpace - 1
  /\ air.st \in {"idle", "rts", "single", "ampdu", "bar", "ack", "ba"}
  /\ hist.acked \subseteq Msdus /\ hist.failed \in Nat /\ hist.left \in Nat

Buffered == ToSet(rcpt.buffer)
Forwarded == ToSet(rcpt.up)
NothingGivenUp == hist.failed = 0

\* The next block ack tells of the packets that are in the buffer of the originator.
Awaited == air # Idle \/ orig.cur.type = "bar" \/ orig.low # <<>>

\* Given up and come round: NeedBarRetransmission may then throw a request away.
BarsInsisted == NothingGivenUp \/ first + MaxMsdus < SeqSpace

\* With the types above no packet is forgotten by the originator: while no block ack is
\* awaited, each one in its buffer (StorePacket) is to be sent again (m_retryPackets),
\* and nothing is to be sent again that has left the buffer (the iterators of
\* m_retryPackets stay valid).
Tracked ==
  /\ TypeOK
  /\ BarsInsisted => /\ ToSet(orig.retry) \subseteq ToSet(orig.pkts)
                     /\ Awaited \/ ToSet(orig.pkts) = ToSet(orig.retry)

\* Whatever is lost or given up, the recipient passes packets up in order, and each
\* at most once (MacLow::RxCompleteBufferedPackets...); unless the originator gives up,
\* none is left out either, at any time.
InSequence ==
  /\ BarsInsisted => \A i \in 1 .. Len(rcpt.up) - 1 : rcpt.up[i] < rcpt.up[i + 1]
  /\ NothingGivenUp => \A i \in 1 .. Len(rcpt.up) : rcpt.up[i] = i

\* Unless the originator gives up, the two ends agree, over any losses of block acks:
\* what is acknowledged was passed up or is buffered, and what is so is not sent again.
EndsAgree ==
  NothingGivenUp => /\ hist.acked \subseteq Forwarded \cup Buffered
                    /\ ToSet(orig.retry) \cap (Forwarded \cup Buffered) = {}

\* Everything is passed up in the end, unless the originator gives up.
AllForwarded == <>(Forwarded = Msdus \/ ~NothingGivenUp)
=============================================================================
