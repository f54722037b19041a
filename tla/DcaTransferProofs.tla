-------------------------- MODULE DcaTransferProofs --------------------------
(***************************************************************************)
(* Proofs about DcaTransfer, for any number of MSDUs, any fragments, retry *)
(* limits and queue sizes: its types, whole packets, each MSDU passed up   *)
(* at most once, and the abstract transfer of Delivery implemented.        *)
(***************************************************************************)
EXTENDS DcaTransfer, SequenceTheorems, TLAPS

Group == [msdu |-> 0, seq |-> NextSequence, frag |-> 0, retry |-> FALSE,
          more |-> FALSE, group |-> TRUE]

\* A group frame leaves nothing at the receiver (MacRxMiddle::Receive).
LEMMA GroupIgnored ==
  ASSUME TypeOK, Receive(Group)
  PROVE  UNCHANGED <<rx, up>>
<1>1. rx.last[2] \in Nat
  BY DEF TypeOK, Statuses
<1>2. ~IsNextFragment(Group) /\ ~IsDuplicate(Group)
  BY <1>1 DEF IsNextFragment, IsDuplicate, Group
<1>3. CASE rx.defrag
  BY <1>2, <1>3 DEF Receive
<1>4. CASE ~rx.defrag
  <2>1. Forward(Group) \/ UNCHANGED <<rx, up>>
    BY <1>2, <1>4 DEF Receive, Group
  <2>2. Forward(Group) => UNCHANGED <<rx, up>>
    BY DEF Forward, Accepted, Group
  <2> QED BY <2>1, <2>2
<1> QED BY <1>3, <1>4

\* An unfinished MSDU has between one and fifteen fragments.
LEMMA FragsType ==
  ASSUME TypeOK, tx.msdu # 0
  PROVE  /\ tx.msdu \in Msdus /\ Frags[tx.msdu] \in 1 .. 15
         /\ tx.frag \in 0 .. 14 /\ Part(Header) \in Parts
         /\ Control(Header) \in (0 .. SeqMod - 1) \X (0 .. 15)
<1>1. tx.msdu \in Msdus
  BY SizesAssumption DEF TypeOK, Headers, Msdus
<1>2. Frags[tx.msdu] \in 1 .. 15
  BY <1>1, SizesAssumption
<1>3. tx.frag \in 0 .. 14
  <2>1. tx.frag \in 0 .. 15
    BY DEF TypeOK, Headers
  <2>2. tx.frag < Frags[tx.msdu]
    BY DEF TypeOK
  <2> QED BY <1>2, <2>1, <2>2
<1>4. Part(Header) = <<tx.msdu, tx.frag>> /\ Control(Header) = <<tx.seq, tx.frag>>
  BY DEF Part, Header, Control
<1>5. tx.seq \in 0 .. SeqMod - 1
  BY DEF TypeOK, Headers
<1> QED BY <1>1, <1>2, <1>3, <1>4, <1>5 DEF Parts, Msdus

\* What the receiver holds keeps its type (HandleFragments).
LEMMA ReceiveType ==
  ASSUME TypeOK, tx.msdu # 0, Receive(Header)
  PROVE  /\ rx' \in Statuses /\ (rx'.defrag <=> rx'.frags # << >>)
         /\ up' \in Seq(Seq(Parts))
<1>1. Part(Header) \in Parts /\ Control(Header) \in (0 .. SeqMod - 1) \X (0 .. 15)
  BY FragsType
<1>2. rx \in Statuses /\ rx.frags \in Seq(Parts) /\ up \in Seq(Seq(Parts)) /\ (rx.defrag <=> rx.frags # << >>)
  BY DEF TypeOK, Statuses
<1>3. CASE UNCHANGED <<rx, up>>
  BY <1>2, <1>3
<1>4. CASE Accumulate(Header)
  <2> DEFINE f == Append(rx.frags, Part(Header))
  <2>1. f \in Seq(Parts) /\ f # << >>
    <3>1. f \in Seq(Parts) /\ Len(f) = Len(rx.frags) + 1 /\ Len(rx.frags) \in Nat
      BY <1>1, <1>2
    <3> HIDE DEF f
    <3>2. Len(f) # 0
      BY <3>1
    <3> QED BY <3>1, <3>2
  <2>2. rx' \in Statuses /\ rx'.defrag /\ rx'.frags # << >>
    BY <1>1, <1>4, <2>1 DEF Accumulate, Statuses
  <2> QED BY <1>2, <1>4, <2>2 DEF Accumulate
<1>5. CASE AccumulateLast(Header)
  <2>1. Append(rx.frags, Part(Header)) \in Seq(Parts)
    BY <1>1, <1>2
  <2>2. rx' \in Statuses /\ ~rx'.defrag /\ rx'.frags = << >>
    <3>1. << >> \in Seq(Parts)
      OBVIOUS
    <3> QED BY <1>1, <1>5, <3>1 DEF AccumulateLast, Statuses
  <2>3. up' \in Seq(Seq(Parts))
    <3> DEFINE P == Seq(Parts)
    <3>1. up \in Seq(P) /\ Append(rx.frags, Part(Header)) \in P
      BY <1>2, <2>1
    <3> HIDE DEF P
    <3>2. up' \in Seq(P)
      BY <1>5, <3>1 DEF AccumulateLast
    <3> QED BY <3>2 DEF P
  <2> QED BY <2>2, <2>3
<1>6. CASE Forward(Header) /\ ~rx.defrag
  <2>1. << Part(Header) >> \in Seq(Parts)
    BY <1>1
  <2>2. rx' = [rx EXCEPT !.last = Control(Header)] /\ up' = Append(up, << Part(Header) >>)
    BY <1>6 DEF Forward, Accepted, Header
  <2>3. rx' \in Statuses /\ rx'.defrag = rx.defrag /\ rx'.frags = rx.frags
    BY <1>1, <1>2, <2>2 DEF Statuses
  <2>4. up' \in Seq(Seq(Parts))
    <3> DEFINE P == Seq(Parts)
    <3>1. up \in Seq(P) /\ << Part(Header) >> \in P
      BY <1>2, <2>1
    <3> HIDE DEF P
    <3>2. up' \in Seq(P)
      BY <2>2, <3>1
    <3> QED BY <3>2 DEF P
  <2> QED BY <1>2, <2>3, <2>4
<1> QED BY <1>3, <1>4, <1>5, <1>6 DEF Receive

-----------------------------------------------------------------------------
(* Types *)

\* The parts of TypeOK that concern the sender.
Sender ==
  /\ queued \in 0 .. MaxMsdus /\ queue \subseteq 1 .. queued
  /\ drawn \in Nat
  /\ tx \in Headers
  /\ tx.msdu \in 0 .. queued /\ tx.msdu \notin queue
  /\ tx.msdu # 0 => tx.frag < Frags[tx.msdu]
  /\ link \in {"idle", "rts", "data", "ack", "sifs", "asleep"}
  /\ link \in {"rts", "data", "ack", "sifs"} => tx.msdu # 0
  /\ link = "sifs" => ~IsLastFragment
  /\ link = "asleep" => tx.msdu = 0
  /\ done \in Reports

Receiver ==
  /\ rx \in Statuses /\ (rx.defrag <=> rx.frags # << >>)
  /\ up \in Seq(Seq(Parts))

LEMMA TypeParts == TypeOK <=> Sender /\ Receiver
  BY DEF TypeOK, Sender, Receiver

LEMMA InitType == Init => TypeOK
<1> SUFFICES ASSUME Init PROVE TypeOK
  OBVIOUS
<1>1. Sender
  <2>1. /\ 0 \in 0 .. MaxMsdus /\ 0 \in 0 .. SeqMod - 1 /\ 0 \in 0 .. 15
        /\ 0 \in 0 .. MaxSlrc /\ 0 \in 0 .. MaxSsrc
    BY SizesAssumption
  <2>2. tx \in Headers
    BY <2>1 DEF Init, Headers
  <2>3. done \in Reports
    BY DEF Init, Reports
  <2> QED BY <2>1, <2>2, <2>3 DEF Init, Sender
<1>2. << >> \in Seq(Parts) /\ << >> \in Seq(Seq(Parts))
  OBVIOUS
<1>3. <<SeqMod - 1, 15>> \in (0 .. SeqMod - 1) \X (0 .. 15)
  BY SizesAssumption
<1>4. Receiver
  BY <1>2, <1>3 DEF Init, Receiver, Statuses
<1> QED BY <1>1, <1>4, TypeParts

\* The receiver changes in Arrive and in OtherFrame only.
LEMMA NextReceiverType == TypeOK /\ [Next]_vars => Receiver'
<1> SUFFICES ASSUME TypeOK, [Next]_vars PROVE Receiver'
  OBVIOUS
<1>0. Receiver
  BY TypeParts
<1>1. CASE Arrive
  <2>1. tx.msdu # 0 /\ Receive(Header)
    BY <1>1 DEF Arrive, TypeOK
  <2> QED BY <2>1, ReceiveType DEF Receiver
<1>2. CASE OtherFrame
  <2>1. Receive(Group) \/ UNCHANGED <<rx, up>>
    BY <1>2 DEF OtherFrame, Group
  <2>2. UNCHANGED <<rx, up>>
    BY <2>1, GroupIgnored
  <2> QED BY <2>2, <1>0 DEF Receiver
<1>3. CASE UNCHANGED <<rx, up>>
  BY <1>0, <1>3 DEF Receiver
<1>4. [Next]_vars => Arrive \/ OtherFrame \/ UNCHANGED <<rx, up>>
  BY DEF Next, Exchange, Queue, Expire, SendNext, SendAgain, GotCts, MissedCts, GotAck, MissedAck,
         StartNextFragment, NotifySleep, NotifyWakeUp, NotifyChannelSwitching, vars
<1> QED BY <1>1, <1>2, <1>3, <1>4

\* The edits of the header and of the counters of the current MSDU.
LEMMA EditType ==
  ASSUME NEW t \in Headers
  PROVE  /\ \A n \in 0 .. MaxSlrc : /\ [t EXCEPT !.slrc = n] \in Headers
                                  /\ [t EXCEPT !.slrc = n, !.retry = TRUE] \in Headers
                                  /\ Released([t EXCEPT !.slrc = n]) \in Headers
         /\ \A n \in 0 .. MaxSsrc : /\ [t EXCEPT !.ssrc = n] \in Headers
                                  /\ Released([t EXCEPT !.ssrc = n]) \in Headers
         /\ Released(t) \in Headers
<1>1. 0 \in 0 .. MaxMsdus /\ 0 \in 0 .. SeqMod - 1 /\ 0 \in 0 .. 15
  BY SizesAssumption
<1>2. \A r \in Headers : Released(r) \in Headers
  BY <1>1 DEF Headers, Released
<1>3. \A n \in 0 .. MaxSlrc : /\ [t EXCEPT !.slrc = n] \in Headers
                             /\ [t EXCEPT !.slrc = n, !.retry = TRUE] \in Headers
  BY DEF Headers
<1>4. \A n \in 0 .. MaxSsrc : [t EXCEPT !.ssrc = n] \in Headers
  BY DEF Headers
<1> QED BY <1>2, <1>3, <1>4

\* The reports only ever get MSDUs.
LEMMA ReportType ==
  ASSUME NEW d \in Reports, NEW S \in SUBSET Msdus
  PROVE  /\ [d EXCEPT !.ok = @ \cup S] \in Reports
         /\ [d EXCEPT !.failed = @ \cup S] \in Reports
         /\ [d EXCEPT !.gone = @ \cup S] \in Reports
  BY DEF Reports

\* A frame that is missed: a counter goes up, or the MSDU is reported.
LEMMA MissedType ==
  ASSUME TypeOK, MissedCts \/ MissedAck
  PROVE  /\ tx' \in Headers /\ done' \in Reports
         /\ tx'.msdu = 0 \/ (tx'.msdu = tx.msdu /\ tx'.frag = tx.frag)
<1>0. tx \in Headers /\ done \in Reports /\ {tx.msdu} \in SUBSET Msdus
  BY SizesAssumption DEF TypeOK, MissedCts, MissedAck, Msdus, Headers
<1>1. CASE MissedCts
  <2>1. tx.ssrc \in 0 .. MaxSsrc /\ 0 \in 0 .. MaxSsrc
    BY <1>0, SizesAssumption DEF Headers
  <2>2. CASE tx.ssrc + 1 < MaxSsrc
    <3>1. tx' = [tx EXCEPT !.ssrc = tx.ssrc + 1] /\ done' = done /\ tx.ssrc + 1 \in 0 .. MaxSsrc
      BY <1>1, <2>1, <2>2, SizesAssumption DEF MissedCts
    <3> QED BY <1>0, <3>1, EditType DEF Headers
  <2>3. CASE ~(tx.ssrc + 1 < MaxSsrc)
    <3>1. tx' = Released([tx EXCEPT !.ssrc = 0]) /\ done' = [done EXCEPT !.failed = @ \cup {tx.msdu}]
      BY <1>0, <1>1, <2>3 DEF MissedCts, Failed, Headers
    <3>2. tx'.msdu = 0
      BY <3>1 DEF Released
    <3> QED BY <1>0, <2>1, <3>1, <3>2, EditType, ReportType
  <2> QED BY <2>2, <2>3
<1>2. CASE MissedAck
  <2>1. tx.slrc \in 0 .. MaxSlrc /\ 0 \in 0 .. MaxSlrc
    BY <1>0, SizesAssumption DEF Headers
  <2>2. CASE tx.slrc + 1 < MaxSlrc
    <3>1. /\ tx' = [tx EXCEPT !.slrc = tx.slrc + 1, !.retry = TRUE] /\ done' = done
          /\ tx.slrc + 1 \in 0 .. MaxSlrc
      BY <1>2, <2>1, <2>2, SizesAssumption DEF MissedAck
    <3> QED BY <1>0, <3>1, EditType DEF Headers
  <2>3. CASE ~(tx.slrc + 1 < MaxSlrc)
    <3>1. tx' = Released([tx EXCEPT !.slrc = 0]) /\ done' = [done EXCEPT !.failed = @ \cup {tx.msdu}]
      BY <1>0, <1>2, <2>3 DEF MissedAck, Failed, Headers
    <3>2. tx'.msdu = 0
      BY <3>1 DEF Released
    <3> QED BY <1>0, <2>1, <3>1, <3>2, EditType, ReportType
  <2> QED BY <2>2, <2>3
<1> QED BY <1>1, <1>2

\* Each step of the sender.
LEMMA NextSenderType == TypeOK /\ [Next]_vars => Sender'
<1> SUFFICES ASSUME TypeOK, [Next]_vars PROVE Sender'
  OBVIOUS
<1>0. Sender
  BY TypeParts
<1> USE DEF Sender, Headers, Msdus
<1>1. CASE Queue
  <2>1. queued' \in 1 .. MaxMsdus /\ queued' = queued + 1 /\ queue' \subseteq queue \cup {queued'}
    BY <1>0, <1>1, SizesAssumption DEF Queue
  <2>2. UNCHANGED <<tx, link, drawn, IsLastFragment>>
    BY <1>1 DEF Queue, IsLastFragment
  <2>3. done' \in Reports
    <3>1. {queued'} \in SUBSET Msdus
      BY <2>1
    <3>2. done' = done \/ done' = [done EXCEPT !.gone = @ \cup {queued'}]
      BY <1>1 DEF Queue, Lost
    <3> HIDE DEF Msdus
    <3> QED BY <1>0, <3>1, <3>2, ReportType
  <2> QED BY <1>0, <2>1, <2>2, <2>3, SizesAssumption
<1>2. CASE Expire
  <2>1. PICK m \in queue : queue' = queue \ {m} /\ Lost({m})
    BY <1>2 DEF Expire
  <2>2. UNCHANGED <<queued, tx, link, drawn, IsLastFragment>>
    BY <1>2 DEF Expire, IsLastFragment
  <2>3. done' \in Reports
    <3>1. {m} \in SUBSET Msdus
      BY <1>0, <2>1, SizesAssumption
    <3> QED BY <1>0, <2>1, <3>1, ReportType DEF Lost
  <2> QED BY <1>0, <2>1, <2>2, <2>3
<1>3. CASE SendNext
  <2>1. PICK m \in queue :
          /\ tx' = [tx EXCEPT !.msdu = m, !.seq = NextSequence, !.frag = 0, !.retry = FALSE]
          /\ queue' = queue \ {m}
    BY <1>3 DEF SendNext
  <2>2. drawn' = drawn + 1 /\ link' \in {"data", "rts"} /\ UNCHANGED <<queued, done>>
    BY <1>3 DEF SendNext, StartTransmission
  <2>3. NextSequence \in 0 .. SeqMod - 1
    BY <1>0, SizesAssumption DEF NextSequence
  <2>4. Frags[m] \in 1 .. 15
    BY <1>0, SizesAssumption
  <2>5. m \in 1 .. queued /\ m \in 0 .. MaxMsdus /\ m \notin queue'
    BY <1>0, <2>1, SizesAssumption
  <2>6. tx' \in Headers /\ tx'.msdu = m /\ tx'.frag = 0
    <3>1. 0 \in 0 .. 15 /\ FALSE \in BOOLEAN
      OBVIOUS
    <3> QED BY <1>0, <2>1, <2>3, <2>5, <3>1
  <2> QED BY <1>0, <2>1, <2>2, <2>4, <2>5, <2>6
<1>4. CASE SendAgain
  BY <1>0, <1>4 DEF SendAgain, StartTransmission, IsLastFragment
<1>5. CASE GotCts
  <2>1. tx' = [tx EXCEPT !.ssrc = 0] /\ 0 \in 0 .. MaxSsrc /\ link' = "data" /\ link = "rts"
    BY <1>5, SizesAssumption DEF GotCts
  <2>2. tx' \in Headers /\ tx'.msdu = tx.msdu /\ tx'.frag = tx.frag
    BY <1>0, <2>1, EditType
  <2>3. UNCHANGED <<queued, queue, drawn, done>>
    BY <1>5 DEF GotCts
  <2> QED BY <1>0, <2>1, <2>2, <2>3
<1>6. CASE MissedCts \/ MissedAck
  <2>1. tx.msdu \in 1 .. queued /\ tx.msdu \in Msdus /\ link' = "idle" /\ UNCHANGED <<queued, queue, drawn>>
    BY <1>0, <1>6 DEF MissedCts, MissedAck
  <2> QED BY <1>0, <1>6, <2>1, MissedType
<1>7. CASE Arrive
  BY <1>0, <1>7 DEF Arrive, IsLastFragment
<1>8. CASE GotAck
  <2>1. tx.msdu \in 1 .. queued /\ tx.msdu \in Msdus /\ UNCHANGED <<queued, queue, drawn>>
    BY <1>0, <1>8 DEF GotAck
  <2>2. 0 \in 0 .. MaxSlrc
    BY SizesAssumption
  <2>3. CASE IsLastFragment
    <3>1. /\ tx' = Released([tx EXCEPT !.slrc = 0]) /\ link' = "idle"
          /\ done' = [done EXCEPT !.ok = @ \cup {tx.msdu}]
      BY <1>8, <2>3 DEF GotAck
    <3>2. tx' \in Headers
      BY <1>0, <2>2, <3>1, EditType
    <3>3. tx'.msdu = 0
      BY <3>1 DEF Released
    <3>4. done' \in Reports
      BY <1>0, <2>1, <3>1, ReportType
    <3> QED BY <1>0, <2>1, <3>1, <3>2, <3>3, <3>4
  <2>4. CASE ~IsLastFragment
    <3>1. tx' = [tx EXCEPT !.slrc = 0] /\ link' = "sifs" /\ done' = done
      BY <1>8, <2>4 DEF GotAck
    <3>2. tx' \in Headers
      BY <1>0, <2>2, <3>1, EditType
    <3>3. tx'.msdu = tx.msdu /\ tx'.frag = tx.frag
      BY <1>0, <3>1
    <3> QED BY <1>0, <2>1, <2>4, <3>1, <3>2, <3>3 DEF IsLastFragment
  <2> QED BY <2>3, <2>4
<1>9. CASE StartNextFragment
  <2>1. tx.msdu # 0 /\ tx.frag + 1 < Frags[tx.msdu] /\ tx.frag + 1 \in 0 .. 15
    BY <1>0, <1>9, FragsType DEF StartNextFragment, IsLastFragment
  <2>2. tx' = [tx EXCEPT !.frag = tx.frag + 1] /\ link' \in {"data", "rts"} /\ UNCHANGED <<queued, queue, drawn, done>>
    BY <1>9 DEF StartNextFragment, StartTransmission
  <2> QED BY <1>0, <2>1, <2>2
<1>10. CASE OtherFrame
  BY <1>0, <1>10 DEF OtherFrame, IsLastFragment
<1>11. CASE NotifySleep
  <2>1. tx' = Released(tx) /\ link' = "asleep" /\ UNCHANGED <<queued, drawn>>
    BY <1>11 DEF NotifySleep
  <2>2. tx' \in Headers /\ tx'.msdu = 0
    BY <1>0, <2>1, EditType DEF Released
  <2>3. queue' \subseteq 1 .. queued
    <3>1. queue' = queue \/ (tx.msdu # 0 /\ queue' = queue \cup {tx.msdu})
      BY <1>11 DEF NotifySleep
    <3>2. tx.msdu # 0 => tx.msdu \in 1 .. queued
      BY <1>0
    <3>3. \A q \in queue : q \in 1 .. queued
      BY <1>0
    <3>4. \A q \in queue' : q \in 1 .. queued
      BY <3>1, <3>2, <3>3
    <3> QED BY <3>4
  <2>4. done' \in Reports
    <3>1. tx.msdu # 0 => {tx.msdu} \in SUBSET Msdus
      BY <1>0
    <3> QED BY <1>0, <1>11, <3>1, ReportType DEF NotifySleep, Lost
  <2> QED BY <1>0, <2>1, <2>2, <2>3, <2>4
<1>12. CASE NotifyWakeUp
  BY <1>0, <1>12 DEF NotifyWakeUp, IsLastFragment
<1>13. CASE NotifyChannelSwitching
  <2>1. tx' \in Headers /\ tx'.msdu = 0 /\ link' = "idle" /\ queue' = {} /\ UNCHANGED <<queued, drawn>>
    <3>1. 0 \in 0 .. MaxMsdus /\ 0 \in 0 .. SeqMod - 1 /\ 0 \in 0 .. MaxSlrc /\ 0 \in 0 .. MaxSsrc
      BY SizesAssumption
    <3>2. /\ tx' = Released([slrc |-> 0, ssrc |-> 0])
          /\ link' = "idle" /\ queue' = {} /\ UNCHANGED <<queued, drawn>>
      BY <1>13 DEF NotifyChannelSwitching
    <3> QED BY <3>1, <3>2 DEF Released
  <2>2. done' \in Reports
    <3>1. queue \cup ({tx.msdu} \ {0}) \in SUBSET Msdus
      <4>1. queue \subseteq Msdus
        BY <1>0, SizesAssumption
      <4>2. {tx.msdu} \ {0} \subseteq Msdus
        BY <1>0, SizesAssumption
      <4> QED BY <4>1, <4>2
    <3> QED BY <1>0, <1>13, <3>1, ReportType DEF NotifyChannelSwitching, Lost
  <2> QED BY <1>0, <2>1, <2>2
<1>14. CASE UNCHANGED vars
  BY <1>0, <1>14 DEF vars, IsLastFragment
<1> QED BY <1>1, <1>2, <1>3, <1>4, <1>5, <1>6, <1>7, <1>8, <1>9, <1>10, <1>11, <1>12, <1>13, <1>14
     DEF Next, Exchange

\* TypeOK holds in every behaviour: no fragment beyond the last is sent and no
\* retry counter exceeds its limit (DcaTxop, WifiRemoteStationManager).
THEOREM TypeCorrect == Spec => []TypeOK
<1>1. TypeOK /\ [Next]_vars => TypeOK'
  BY NextReceiverType, NextSenderType, TypeParts DEF TypeOK, Sender, Receiver
<1> QED BY <1>1, InitType, PTL DEF Spec

-----------------------------------------------------------------------------
(* Whole packets *)

\* Before it wraps, m_sequence is a number that no frame has had.
LEMMA NewSequence ==
  ASSUME TypeOK, drawn < SeqMod
  PROVE  NextSequence = drawn
<1>1. drawn \in Nat /\ SeqMod \in Nat \ {0}
  BY SizesAssumption DEF TypeOK
<1>2. \A a, b \in Nat : a < b => a % b = a
  OBVIOUS
<1> QED BY <1>1, <1>2 DEF NextSequence

\* What the receiver has of the MSDU that is being sent.
Heard == Unheard \/ Started \/ Complete \/ Ignored

\* The fragments that are held, and the one that follows them, are typed.
LEMMA HeldType ==
  ASSUME TypeOK
  PROVE  /\ rx.frags \in Seq(Parts) /\ Len(rx.frags) \in Nat
         /\ rx.last = <<rx.last[1], rx.last[2]>>
         /\ rx.last[1] \in 0 .. SeqMod - 1 /\ rx.last[2] \in 0 .. 15
         /\ rx.defrag => Len(rx.frags) # 0 /\ rx.frags[1] \in Parts
         /\ ~rx.defrag => rx.frags = << >>
<1>1. rx.frags \in Seq(Parts) /\ rx.last \in (0 .. SeqMod - 1) \X (0 .. 15)
  BY DEF TypeOK, Statuses
<1>2. Len(rx.frags) \in Nat /\ (rx.frags # << >> => Len(rx.frags) # 0)
  BY <1>1, EmptySeq
<1> QED BY <1>1, <1>2 DEF TypeOK

\* The first fragments of an MSDU and the next one are its first fragments.
LEMMA Longer ==
  ASSUME NEW s \in Seq(Parts), NEW m, NEW n \in Nat, Len(s) = n, <<m, n>> \in Parts,
         \A i \in 1 .. n : s[i] = <<m, i - 1>>
  PROVE  LET t == Append(s, <<m, n>>) IN
         /\ t \in Seq(Parts) /\ Len(t) = n + 1
         /\ \A i \in 1 .. n + 1 : t[i] = <<m, i - 1>>
  OBVIOUS

\* All fragments of an MSDU in order are the MSDU.
LEMMA IsWhole ==
  ASSUME NEW m \in Msdus, NEW t \in Seq(Parts), Len(t) = Frags[m],
         \A i \in 1 .. Frags[m] : t[i] = <<m, i - 1>>
  PROVE  t = Whole(m)
<1>1. t \in [1 .. Frags[m] -> Parts]
  BY LenProperties
<1> QED BY <1>1 DEF Whole

\* A whole MSDU is passed up.
LEMMA OneMore ==
  ASSUME TypeOK, WholeMsdus, NEW m \in Msdus, up' = Append(up, Whole(m)), Whole(m) \in Seq(Parts)
  PROVE  WholeMsdus'
<1> DEFINE P == Seq(Parts)
           w == Whole(m)
<1>1. up \in Seq(P) /\ w \in P /\ up' = Append(up, w)
  BY DEF TypeOK
<1>2. \A i \in 1 .. Len(up) : \E k \in Msdus : up[i] = Whole(k)
  BY DEF WholeMsdus
<1>3. w = Whole(m)
  OBVIOUS
<1> HIDE DEF P, w
<1>4. Len(up') = Len(up) + 1 /\ Len(up) \in Nat
  BY <1>1
<1>5. \A i \in 1 .. Len(up') : up'[i] = w \/ (i \in 1 .. Len(up) /\ up'[i] = up[i])
  BY <1>1, <1>4
<1>6. \A i \in 1 .. Len(up') : \E k \in Msdus : up'[i] = Whole(k)
  BY <1>2, <1>3, <1>5
<1>7. \A k : Whole(k)' = Whole(k)
  BY DEF Whole
<1> QED BY <1>6 DEF WholeMsdus, Whole

\* The header says whether there are more fragments, and does not repeat the last one
\* that was received, unless the receiver has this very fragment.
LEMMA HeaderMore == Header.more <=> ~IsLastFragment
  BY DEF Header

LEMMA NotDuplicate ==
  ASSUME rx.last[1] # tx.seq \/ rx.last[2] # tx.frag
  PROVE  ~IsDuplicate(Header)
<1>1. Control(Header) = <<tx.seq, tx.frag>>
  BY DEF Control, Header
<1> QED BY <1>1 DEF IsDuplicate

\* A fragment that is ignored: a duplicate, or not the one that is waited for.
LEMMA ArriveIgnored ==
  ASSUME TypeOK, Sync, Arrive, Ignored \/ Complete \/ (Started /\ tx.frag = rx.last[2])
  PROVE  UNCHANGED <<rx, up>>
<1>1. link = "data" /\ Receive(Header)
  BY DEF Arrive
<1>2. CASE Ignored
  <2>1. ~IsNextFragment(Header) /\ rx.defrag
    BY <1>2 DEF Ignored, IsNextFragment, Header
  <2> QED BY <1>1, <2>1 DEF Receive
<1>3. CASE Complete
  <2>1. IsDuplicate(Header)
    BY <1>1, <1>3 DEF Complete, IsDuplicate, Header, Control
  <2> QED BY <1>1, <2>1 DEF Receive
<1>4. CASE Started /\ tx.frag = rx.last[2]
  <2>1. tx.retry /\ rx.last = <<tx.seq, tx.frag>>
    <3>1. rx.last[2] \in 0 .. 15 /\ rx.last = <<rx.last[1], rx.last[2]>>
      BY HeldType
    <3> QED BY <1>1, <1>4, <3>1 DEF Started
  <2>2. IsDuplicate(Header)
    BY <2>1 DEF IsDuplicate, Header, Control
  <2> QED BY <1>1, <2>2 DEF Receive
<1> QED BY <1>2, <1>3, <1>4

\* The first fragment of an MSDU arrives and is not the last: it is held.
LEMMA ArriveFirst ==
  ASSUME TypeOK, Sync, Arrive, Unheard, ~IsLastFragment
  PROVE  Accumulate(Header)
<1>1. ~IsDuplicate(Header)
  BY NotDuplicate DEF Unheard
<1>2. Header.more
  BY HeaderMore
<1> QED BY <1>1, <1>2 DEF Arrive, Receive, Unheard

\* An MSDU that is not fragmented arrives: it is passed up.
LEMMA ArriveOnly ==
  ASSUME TypeOK, Sync, Arrive, Unheard, IsLastFragment
  PROVE  Forward(Header)
<1>1. ~IsDuplicate(Header)
  BY NotDuplicate DEF Unheard
<1>2. ~Header.more
  BY HeaderMore
<1> QED BY <1>1, <1>2 DEF Arrive, Receive, Unheard

\* The next fragment arrives: it is held, or the MSDU is passed up.
LEMMA ArriveNext ==
  ASSUME TypeOK, Sync, Arrive, Started, tx.frag # rx.last[2]
  PROVE  /\ tx.frag = rx.last[2] + 1
         /\ IF IsLastFragment THEN AccumulateLast(Header) ELSE Accumulate(Header)
<1>1. tx.frag = rx.last[2] + 1 /\ rx.defrag /\ rx.last[1] = tx.seq
  BY DEF Started
<1>2. IsNextFragment(Header)
  BY <1>1 DEF IsNextFragment, Header
<1>3. ~IsDuplicate(Header)
  BY NotDuplicate
<1> QED BY <1>1, <1>2, <1>3, HeaderMore DEF Arrive, Receive

\* The fragments that are then held are the first ones of the MSDU.
LEMMA Held ==
  ASSUME TypeOK, Sync, tx.msdu # 0,
         Unheard \/ (Started /\ tx.frag = rx.last[2] + 1),
         NEW t, t = Append(rx.frags, Part(Header))
  PROVE  /\ t \in Seq(Parts) /\ Len(t) = tx.frag + 1
         /\ \A i \in 1 .. tx.frag + 1 : t[i] = <<tx.msdu, i - 1>>
<1>1. tx.frag \in 0 .. 14 /\ Part(Header) = <<tx.msdu, tx.frag>> /\ Part(Header) \in Parts
  BY FragsType DEF Part, Header
<1>2. Len(rx.frags) = tx.frag /\ \A i \in 1 .. tx.frag : rx.frags[i] = <<tx.msdu, i - 1>>
  <2>1. CASE Unheard
    BY <2>1, HeldType DEF Unheard
  <2>2. CASE Started /\ tx.frag = rx.last[2] + 1
    BY <2>2, HeldType DEF Started, Sync, Partial
  <2> QED BY <2>1, <2>2
<1> QED BY <1>1, <1>2, HeldType, Longer

\* A fragment is held, and the receiver knows the MSDU that is sent.
LEMMA HeldSync ==
  ASSUME TypeOK, Sync, tx.msdu # 0, UNCHANGED <<tx, drawn>>, link' = "ack",
         Unheard \/ (Started /\ tx.frag = rx.last[2] + 1),
         ~IsLastFragment, Accumulate(Header)
  PROVE  Sync' /\ Started'
<1>1. /\ rx'.defrag /\ rx'.last = <<tx.seq, tx.frag>> /\ rx'.frags = Append(rx.frags, Part(Header))
      /\ up' = up
  BY DEF Accumulate, Control, Header
<1>2. /\ rx'.frags \in Seq(Parts) /\ Len(rx'.frags) = tx.frag + 1
      /\ \A i \in 1 .. tx.frag + 1 : rx'.frags[i] = <<tx.msdu, i - 1>>
  BY <1>1, Held
<1>3. /\ tx.frag \in 0 .. 14 /\ Frags[tx.msdu] \in 1 .. 15 /\ tx.frag + 1 < Frags[tx.msdu]
  <2>1. tx.frag \in 0 .. 14 /\ Frags[tx.msdu] \in 1 .. 15
    BY FragsType
  <2>2. tx.frag < Frags[tx.msdu]
    BY DEF TypeOK
  <2> QED BY <2>1, <2>2 DEF IsLastFragment
<1>4. rx'.frags[1][1] = tx.msdu
  BY <1>2, <1>3
<1>5. Partial'
  BY <1>1, <1>2, <1>3, <1>4 DEF Partial
<1>6. Started'
  BY <1>1, <1>4 DEF Started, IsLastFragment
<1>7. SeqsDrawn'
  BY <1>1 DEF Sync, SeqsDrawn
<1>8. WholeMsdus'
  BY <1>1 DEF Sync, WholeMsdus, Whole
<1> QED BY <1>5, <1>6, <1>7, <1>8 DEF Sync

\* The last fragment arrives: the MSDU is passed up, and the receiver has it all.
LEMMA WholeSync ==
  ASSUME TypeOK, Sync, tx.msdu # 0, UNCHANGED <<tx, drawn>>, link' = "ack",
         Unheard \/ (Started /\ tx.frag = rx.last[2] + 1), IsLastFragment,
         ~rx'.defrag, rx'.last = Control(Header), up' = Append(up, Append(rx.frags, Part(Header)))
  PROVE  Sync' /\ Complete' /\ up' = Append(up, Whole(tx.msdu)) /\ Whole(tx.msdu) \in Seq(Parts)
<1>1. tx.msdu \in Msdus /\ tx.frag \in 0 .. 14 /\ tx.frag + 1 = Frags[tx.msdu]
  <2>1. tx.msdu \in Msdus /\ tx.frag \in 0 .. 14 /\ Frags[tx.msdu] \in 1 .. 15
    BY FragsType
  <2>2. tx.frag = Frags[tx.msdu] - 1
    BY DEF IsLastFragment
  <2> QED BY <2>1, <2>2
<1>2. Append(rx.frags, Part(Header)) \in Seq(Parts) /\ Append(rx.frags, Part(Header)) = Whole(tx.msdu)
  <2> DEFINE t == Append(rx.frags, Part(Header))
  <2>1. /\ t \in Seq(Parts) /\ Len(t) = tx.frag + 1
        /\ \A i \in 1 .. tx.frag + 1 : t[i] = <<tx.msdu, i - 1>>
    BY Held
  <2> HIDE DEF t
  <2>2. t = Whole(tx.msdu)
    BY <1>1, <2>1, IsWhole
  <2> QED BY <2>1, <2>2 DEF t
<1>3. WholeMsdus'
  BY <1>1, <1>2, OneMore DEF Sync
<1>4. Complete'
  BY DEF Complete, Control, Header, IsLastFragment
<1>5. SeqsDrawn' /\ Partial'
  BY DEF Sync, SeqsDrawn, Partial, Control, Header
<1> QED BY <1>2, <1>3, <1>4, <1>5 DEF Sync

\* The fragment arrives.  The receiver passes an MSDU up only if it is whole, and only
\* the one that is being sent, which it has not had yet.
LEMMA ArriveSync ==
  ASSUME TypeOK, Sync, Arrive
  PROVE  /\ Sync'
         /\ \/ UNCHANGED <<rx, up>>
            \/ Started' /\ UNCHANGED up /\ (Unheard \/ Started)
            \/ /\ Complete' /\ (Unheard \/ Started) /\ Whole(tx.msdu) \in Seq(Parts)
               /\ up' = Append(up, Whole(tx.msdu))
<1>1. tx.msdu # 0 /\ link = "data" /\ link' = "ack" /\ UNCHANGED <<tx, drawn>> /\ Receive(Header)
  BY DEF Arrive, TypeOK
<1>2. CASE Ignored \/ Complete \/ (Started /\ tx.frag = rx.last[2])
  <2>1. UNCHANGED <<rx, up>>
    BY <1>2, ArriveIgnored
  <2>2. Ignored' \/ Complete' \/ Started'
    <3>1. Ignored => Ignored'
      BY <1>1, <2>1 DEF Ignored
    <3>2. Complete => Complete'
      BY <1>1, <2>1 DEF Complete, IsLastFragment
    <3>3. Started /\ tx.frag = rx.last[2] => Started'
      <4>1. rx.last[2] \in 0 .. 15
        BY HeldType
      <4> QED BY <1>1, <2>1, <4>1 DEF Started, IsLastFragment
    <3> QED BY <1>2, <3>1, <3>2, <3>3
  <2>3. SeqsDrawn' /\ Partial' /\ WholeMsdus'
    BY <1>1, <2>1 DEF Sync, SeqsDrawn, Partial, WholeMsdus, Whole
  <2> QED BY <2>1, <2>2, <2>3 DEF Sync
<1>3. CASE Unheard /\ ~IsLastFragment
  <2>1. Accumulate(Header)
    BY <1>3, ArriveFirst
  <2> QED BY <1>1, <1>3, <2>1, HeldSync DEF Accumulate
<1>4. CASE Unheard /\ IsLastFragment
  <2>1. Forward(Header)
    BY <1>4, ArriveOnly
  <2>2. /\ ~rx'.defrag /\ rx'.last = Control(Header)
        /\ up' = Append(up, << Part(Header) >>)
    <3>1. rx' = [rx EXCEPT !.last = Control(Header)] /\ up' = Append(up, << Part(Header) >>)
      BY <2>1 DEF Forward, Accepted, Header
    <3>2. rx \in Statuses
      BY DEF TypeOK
    <3> QED BY <1>4, <3>1, <3>2 DEF Unheard, Statuses
  <2>3. Append(rx.frags, Part(Header)) = << Part(Header) >>
    <3>1. rx.frags = << >>
      BY <1>4, HeldType DEF Unheard
    <3>2. \A p : Append(<< >>, p) = << p >>
      OBVIOUS
    <3> QED BY <3>1, <3>2
  <2> QED BY <1>1, <1>4, <2>2, <2>3, WholeSync
<1>5. CASE Started /\ tx.frag # rx.last[2] /\ ~IsLastFragment
  <2>1. Accumulate(Header) /\ tx.frag = rx.last[2] + 1
    BY <1>5, ArriveNext
  <2> QED BY <1>1, <1>5, <2>1, HeldSync DEF Accumulate
<1>6. CASE Started /\ tx.frag # rx.last[2] /\ IsLastFragment
  <2>1. AccumulateLast(Header) /\ tx.frag = rx.last[2] + 1
    BY <1>6, ArriveNext
  <2>2. /\ ~rx'.defrag /\ rx'.last = Control(Header)
        /\ up' = Append(up, Append(rx.frags, Part(Header)))
    BY <2>1 DEF AccumulateLast
  <2> QED BY <1>1, <1>6, <2>1, <2>2, WholeSync
<1> QED BY <1>1, <1>2, <1>3, <1>4, <1>5, <1>6 DEF Sync

\* A frame that is missed leaves the MSDU as it is, but for the retry bit, or drops it.
LEMMA MissedSame ==
  ASSUME TypeOK, MissedCts \/ MissedAck
  PROVE  \/ tx'.msdu = 0
         \/ /\ tx'.msdu = tx.msdu /\ tx'.seq = tx.seq /\ tx'.frag = tx.frag
            /\ (tx'.retry = tx.retry /\ link = "rts") \/ tx'.retry
<1>1. tx \in Headers
  BY DEF TypeOK
<1>2. CASE MissedCts
  <2>1. CASE tx.ssrc + 1 < MaxSsrc
    BY <1>1, <1>2, <2>1 DEF MissedCts, Headers
  <2>2. CASE ~(tx.ssrc + 1 < MaxSsrc)
    BY <1>2, <2>2 DEF MissedCts, Failed, Released
  <2> QED BY <2>1, <2>2
<1>3. CASE MissedAck
  <2>1. CASE tx.slrc + 1 < MaxSlrc
    BY <1>1, <1>3, <2>1 DEF MissedAck, Headers
  <2>2. CASE ~(tx.slrc + 1 < MaxSlrc)
    BY <1>3, <2>2 DEF MissedAck, Failed, Released
  <2> QED BY <2>1, <2>2
<1> QED BY <1>2, <1>3

\* Every other step leaves the receiver alone: it is enough that the MSDU that is sent
\* then, if any, is one the receiver still has the same of.
LEMMA SameReceiver ==
  ASSUME TypeOK, Sync, UNCHANGED <<rx, up>>, drawn' \in Nat, drawn <= drawn',
         tx'.msdu # 0 => tx'.seq < drawn' /\ Heard'
  PROVE  Sync'
<1>1. WholeMsdus' /\ Partial'
  BY DEF Sync, WholeMsdus, Whole, Partial
<1>2. drawn \in Nat /\ rx.last[1] \in Nat
  BY HeldType, SizesAssumption DEF TypeOK
<1>3. SeqsDrawn'
  BY <1>2 DEF Sync, SeqsDrawn
<1> QED BY <1>1, <1>3 DEF Sync, Heard

LEMMA NextSync == TypeOK /\ NoWrap' /\ Sync /\ [Next]_vars => Sync'
<1> SUFFICES ASSUME TypeOK, NoWrap', Sync, [Next]_vars PROVE Sync'
  OBVIOUS
<1>0. /\ drawn \in Nat /\ tx \in Headers
      /\ tx.msdu # 0 => tx.seq < drawn /\ tx.seq \in Nat /\ Heard
  BY SizesAssumption DEF TypeOK, Sync, SeqsDrawn, Heard, Headers
<1>1. CASE Queue \/ Expire \/ SendAgain \/ NotifyWakeUp \/ UNCHANGED vars
  <2>1. UNCHANGED <<rx, up, tx, drawn>>
    BY <1>1 DEF Queue, Expire, SendAgain, NotifyWakeUp, vars
  <2>2. tx.msdu # 0 => link' = link \/ (link = "idle" /\ link' \in {"data", "rts"})
    BY <1>1 DEF Queue, Expire, SendAgain, StartTransmission, NotifyWakeUp, vars, TypeOK
  <2>3. tx.msdu # 0 => Heard'
    BY <1>0, <2>1, <2>2 DEF Heard, Unheard, Started, Complete, Ignored, IsLastFragment
  <2> QED BY <1>0, <2>1, <2>3, SameReceiver
<1>2. CASE SendNext
  <2>1. PICK m \in queue :
          tx' = [tx EXCEPT !.msdu = m, !.seq = NextSequence, !.frag = 0, !.retry = FALSE]
    BY <1>2 DEF SendNext
  <2>2. drawn' = drawn + 1 /\ link' \in {"data", "rts"} /\ UNCHANGED <<rx, up>>
    BY <1>2 DEF SendNext, StartTransmission
  <2>3. drawn < SeqMod
    BY <1>0, <2>2, SizesAssumption DEF NoWrap
  <2>4. tx'.seq = drawn /\ tx'.frag = 0
    BY <1>0, <2>1, <2>3, NewSequence DEF Headers
  <2>5. rx.last[1] # drawn \/ (~rx.defrag /\ rx.last[2] = 15)
    BY <1>0, HeldType, SizesAssumption DEF Sync, SeqsDrawn
  <2>6. Heard'
    BY <2>2, <2>4, <2>5 DEF Heard, Unheard, Ignored
  <2> QED BY <1>0, <2>2, <2>4, <2>6, SameReceiver
<1>3. CASE GotCts
  <2>1. /\ tx' = [tx EXCEPT !.ssrc = 0] /\ link = "rts" /\ link' = "data"
        /\ UNCHANGED <<rx, up, drawn>>
    BY <1>3 DEF GotCts
  <2>2. /\ tx'.msdu = tx.msdu /\ tx'.seq = tx.seq /\ tx'.frag = tx.frag /\ tx'.retry = tx.retry
    BY <1>0, <2>1 DEF Headers
  <2>3. tx.msdu # 0 => Heard'
    BY <1>0, <2>1, <2>2 DEF Heard, Unheard, Started, Complete, Ignored, IsLastFragment
  <2> QED BY <1>0, <2>1, <2>2, <2>3, SameReceiver
<1>4. CASE MissedCts \/ MissedAck
  <2>1. tx.msdu # 0 /\ link' = "idle" /\ UNCHANGED <<rx, up, drawn>>
    BY <1>4 DEF MissedCts, MissedAck, TypeOK
  <2>2. tx'.msdu # 0 => Heard'
    BY <1>0, <1>4, <2>1, MissedSame DEF Heard, Unheard, Started, Complete, Ignored, IsLastFragment
  <2>3. tx'.msdu # 0 => tx'.seq < drawn'
    BY <1>0, <1>4, <2>1, MissedSame
  <2> QED BY <1>0, <2>1, <2>2, <2>3, SameReceiver
<1>5. CASE Arrive
  BY <1>5, ArriveSync
<1>6. CASE GotAck
  <2>1. tx.msdu # 0 /\ link = "ack" /\ UNCHANGED <<rx, up, drawn>>
    BY <1>6 DEF GotAck, TypeOK
  <2>2. CASE IsLastFragment
    <3>1. tx'.msdu = 0
      BY <1>6, <2>2 DEF GotAck, Released
    <3> QED BY <1>0, <2>1, <3>1, SameReceiver
  <2>3. CASE ~IsLastFragment
    <3>1. tx' = [tx EXCEPT !.slrc = 0] /\ link' = "sifs"
      BY <1>6, <2>3 DEF GotAck
    <3>2. /\ tx'.msdu = tx.msdu /\ tx'.seq = tx.seq /\ tx'.frag = tx.frag /\ tx'.retry = tx.retry
      BY <1>0, <3>1 DEF Headers
    <3>3. Heard'
      BY <1>0, <2>1, <2>3, <3>1, <3>2 DEF Heard, Unheard, Started, Complete, Ignored, IsLastFragment
    <3> QED BY <1>0, <2>1, <3>2, <3>3, SameReceiver
  <2> QED BY <2>2, <2>3
<1>7. CASE StartNextFragment
  <2>1. /\ tx' = [tx EXCEPT !.frag = tx.frag + 1] /\ link = "sifs" /\ link' \in {"data", "rts"}
        /\ UNCHANGED <<rx, up, drawn>> /\ tx.msdu # 0 /\ ~IsLastFragment
    BY <1>7 DEF StartNextFragment, StartTransmission, TypeOK
  <2>2. tx'.msdu = tx.msdu /\ tx'.seq = tx.seq /\ tx'.frag = tx.frag + 1
    BY <1>0, <2>1 DEF Headers
  <2>3. tx.frag \in Nat /\ rx.last[2] \in Nat
    <3>1. tx.frag \in Nat
      BY <1>0 DEF Headers
    <3>2. rx.last[2] \in 0 .. 15
      BY HeldType
    <3> QED BY <3>1, <3>2
  <2>4. Heard'
    BY <1>0, <2>1, <2>2, <2>3 DEF Heard, Unheard, Started, Complete, Ignored
  <2> QED BY <1>0, <2>1, <2>2, <2>4, SameReceiver
<1>8. CASE OtherFrame
  <2>1. Receive(Group) \/ UNCHANGED <<rx, up>>
    BY <1>8 DEF OtherFrame, Group
  <2>2. UNCHANGED <<rx, up, tx, link>> /\ drawn' = drawn + 1
    BY <1>8, <2>1, GroupIgnored DEF OtherFrame
  <2>3. tx.msdu # 0 => Heard'
    BY <1>0, <2>2 DEF Heard, Unheard, Started, Complete, Ignored, IsLastFragment
  <2> QED BY <1>0, <2>2, <2>3, SameReceiver
<1>9. CASE NotifySleep \/ NotifyChannelSwitching
  <2>1. tx'.msdu = 0 /\ UNCHANGED <<rx, up, drawn>>
    BY <1>9 DEF NotifySleep, NotifyChannelSwitching, Released
  <2> QED BY <1>0, <2>1, SameReceiver
<1> QED BY <1>1, <1>2, <1>3, <1>4, <1>5, <1>6, <1>7, <1>8, <1>9 DEF Next, Exchange

LEMMA InitSync == Init => Sync
  BY DEF Init, Sync, SeqsDrawn, Partial, WholeMsdus

\* As long as sequence numbers have not come round, sender and receiver agree on what
\* the receiver has, whatever is lost, and whether or not the PHY sleeps or switches.
THEOREM InStep == Spec /\ []NoWrap => []Sync
<1>1. Init => Sync
  BY InitSync
<1>2. TypeOK /\ NoWrap' /\ Sync /\ [Next]_vars => Sync'
  BY NextSync
<1> QED BY <1>1, <1>2, TypeCorrect, PTL DEF Spec

\* What MacRxMiddle passes up is a whole MSDU with its fragments in order.
THEOREM OnlyWhole == Spec /\ []NoWrap => []WholeMsdus
<1>1. Sync => WholeMsdus
  BY DEF Sync
<1> QED BY <1>1, InStep, PTL

-----------------------------------------------------------------------------
(* Each MSDU at most once, and in order *)

\* The receiver has all of the MSDU if it is not waiting for a fragment and remembers
\* the number of the one that is sent.
LEMMA CompleteIff ==
  TypeOK /\ Sync /\ tx.msdu # 0 => (Complete <=> ~rx.defrag /\ rx.last = <<tx.seq, tx.frag>>)
<1> SUFFICES ASSUME TypeOK, Sync, tx.msdu # 0, ~rx.defrag, rx.last = <<tx.seq, tx.frag>>
             PROVE  Complete
  BY DEF Complete
<1>1. ~Started /\ ~Ignored
  BY DEF Started, Ignored
<1>2. ~Unheard
  BY DEF Unheard
<1> QED BY <1>1, <1>2 DEF Sync

LEMMA CompleteIffNext ==
  (TypeOK /\ Sync /\ tx.msdu # 0 => (Complete <=> ~rx.defrag /\ rx.last = <<tx.seq, tx.frag>>))'
  BY CompleteIff, PTL

\* The MSDU whose fragments are held.
Pending == rx.frags[1][1]

\* The last fragment of an MSDU tells which MSDU it is.
LEMMA LastOfWhole ==
  ASSUME NEW m \in Msdus
  PROVE  Whole(m) \in Seq(Parts) /\ Last(Whole(m))[1] = m
<1>1. Frags[m] \in 1 .. 15 /\ m \in 1 .. MaxMsdus
  BY SizesAssumption DEF Msdus
<1>2. Whole(m) \in [1 .. Frags[m] -> Parts]
  BY <1>1 DEF Whole, Parts
<1>3. Whole(m) \in Seq(Parts)
  BY <1>1, <1>2, SeqDef
<1>4. Len(Whole(m)) = Frags[m]
  <2>1. DOMAIN Whole(m) = 1 .. Len(Whole(m)) /\ Len(Whole(m)) \in Nat
    BY <1>3, LenProperties
  <2>2. 1 .. Len(Whole(m)) = 1 .. Frags[m]
    BY <2>1 DEF Whole
  <2> QED BY <1>1, <2>1, <2>2
<1> QED BY <1>1, <1>3, <1>4 DEF Last, Whole

\* Only MSDUs are passed up, and only their fragments are held.
LEMMA DeliveredMsdus ==
  ASSUME TypeOK, Sync
  PROVE  Delivered \subseteq Msdus /\ (rx.defrag => Pending \in Msdus)
<1>1. \A i \in 1 .. Len(up) : Last(up[i])[1] \in Msdus
  BY LastOfWhole DEF Sync, WholeMsdus
<1> QED BY <1>1, HeldType DEF Delivered, Pending, Parts, Msdus

\* What Ordered says, in parts.
Reported == Before(done.ok \cup done.failed)
Earlier == Before(Delivered \ {tx.msdu})
Waiting == \A q \in queue : tx.msdu < q
Missing == rx.defrag => Pending \notin Delivered /\ Before({Pending} \ {tx.msdu})
Arrived == tx.msdu # 0 => (tx.msdu \in Delivered <=> Complete)
Blocking == tx.msdu # 0 /\ Ignored => Pending # tx.msdu

LEMMA OrderedParts ==
  Ordered <=> Reported /\ Earlier /\ Waiting /\ Missing /\ Arrived /\ Blocking /\ ForwardedOnce
  BY DEF Ordered, Reported, Earlier, Waiting, Missing, Arrived, Blocking, Pending

\* The receiver does not change, the sender goes on with the same MSDU.
LEMMA SameMsdu ==
  ASSUME TypeOK, Ordered, UNCHANGED <<rx, up, queued>>, queue' \subseteq queue,
         done'.ok = done.ok, done'.failed = done.failed, tx'.msdu = tx.msdu,
         tx.msdu # 0 => (Complete' <=> Complete) /\ (Ignored' <=> Ignored)
  PROVE  Ordered' /\ UNCHANGED <<Delivered, Pending>>
<1>1. UNCHANGED <<Delivered, Pending>>
  BY DEF Delivered, Last, Pending
<1> HIDE DEF Delivered, Pending
<1>3. Reported' /\ Earlier' /\ Missing'
  BY <1>1 DEF Before, Ordered, Reported, Earlier, Missing, Pending
<1>4. Waiting' /\ Arrived' /\ Blocking'
  BY <1>1 DEF Ordered, Waiting, Arrived, Blocking, Pending
<1>5. ForwardedOnce'
  BY DEF Ordered, ForwardedOnce, Last
<1> QED BY <1>1, <1>3, <1>4, <1>5 DEF Ordered, Reported, Earlier, Waiting, Missing, Arrived, Blocking, Pending

\* The MSDU that was sent is reported, and none is being sent.
LEMMA MsduFinished ==
  ASSUME TypeOK, Ordered, UNCHANGED <<rx, up, queued, queue>>, tx.msdu # 0, tx'.msdu = 0,
         done'.ok \cup done'.failed = done.ok \cup done.failed \cup {tx.msdu}
  PROVE  Ordered' /\ UNCHANGED <<Delivered, Pending>>
<1>1. UNCHANGED <<Delivered, Pending>>
  BY DEF Delivered, Last, Pending
<1>2. tx.msdu \in 1 .. queued
  BY DEF TypeOK
<1>3. Reported /\ Earlier /\ Waiting /\ Missing /\ ForwardedOnce
  BY OrderedParts
<1>4. Reported' /\ Earlier' /\ Missing'
  BY <1>1, <1>2, <1>3 DEF Before, Reported, Earlier, Waiting, Missing
<1>5. Waiting' /\ Arrived' /\ Blocking'
  BY <1>2 DEF Waiting, Arrived, Blocking, TypeOK
<1>6. ForwardedOnce'
  BY <1>3 DEF ForwardedOnce, Last
<1> QED BY <1>1, <1>4, <1>5, <1>6 DEF Ordered, Reported, Earlier, Waiting, Missing, Arrived, Blocking, Pending

\* A new MSDU waits, or is dropped.
LEMMA QueueOrdered ==
  ASSUME TypeOK, Ordered, Queue
  PROVE  Ordered' /\ UNCHANGED <<Delivered, Pending>>
<1>1. UNCHANGED <<Delivered, Pending, rx, up, tx, link>>
  BY DEF Queue, Delivered, Last, Pending
<1>2. /\ queued' = queued + 1 /\ queued \in Nat /\ queue' \subseteq queue \cup {queued'}
      /\ done'.ok = done.ok /\ done'.failed = done.failed
  BY DEF Queue, Lost, TypeOK, Reports
<1>3. Reported /\ Earlier /\ Waiting /\ Missing /\ Arrived /\ Blocking /\ ForwardedOnce
  BY OrderedParts
<1>4. tx.msdu \in 0 .. queued
  BY DEF TypeOK
<1>5. Reported' /\ Earlier' /\ Missing'
  BY <1>1, <1>2, <1>3 DEF Before, Reported, Earlier, Missing
<1>6. Waiting' /\ Arrived' /\ Blocking'
  BY <1>1, <1>2, <1>3, <1>4 DEF Waiting, Arrived, Blocking, Complete, Ignored, IsLastFragment
<1>7. ForwardedOnce'
  BY <1>1, <1>3 DEF ForwardedOnce, Last
<1> QED BY <1>1, <1>5, <1>6, <1>7 DEF Ordered, Reported, Earlier, Waiting, Missing, Arrived, Blocking, Pending

\* The next MSDU is sent.
LEMMA SendNextOrdered ==
  ASSUME TypeOK, Sync, NoWrap', Ordered, SendNext
  PROVE  Ordered' /\ UNCHANGED <<Delivered, Pending>> /\ tx'.msdu \in queue
<1>1. PICK m \in queue :
        /\ IsFront(m) /\ queue' = queue \ {m}
        /\ tx' = [tx EXCEPT !.msdu = m, !.seq = NextSequence, !.frag = 0, !.retry = FALSE]
  BY DEF SendNext
<1>2. UNCHANGED <<Delivered, Pending, rx, up, done, queued>> /\ tx.msdu = 0 /\ drawn' = drawn + 1
  BY DEF SendNext, Delivered, Last, Pending
<1>3. drawn < SeqMod /\ drawn \in Nat
  BY <1>2, SizesAssumption DEF NoWrap, TypeOK
<1>4. tx'.msdu = m /\ tx'.seq = drawn /\ tx'.frag = 0
  BY <1>1, <1>3, NewSequence DEF TypeOK, Headers
<1>5. Reported /\ Earlier /\ Waiting /\ Missing /\ ForwardedOnce
  BY OrderedParts
<1>6. m \in 1 .. queued /\ queue \subseteq 1 .. queued /\ \A q \in queue' : m < q
  BY <1>1 DEF TypeOK, IsFront
<1>7. Reported' /\ Waiting'
  BY <1>1, <1>2, <1>4, <1>5, <1>6 DEF Before, Reported, Waiting
<1>0. 0 \notin Delivered /\ (rx.defrag => Pending # 0)
  BY DeliveredMsdus DEF Msdus
<1>8. m \notin Delivered /\ (rx.defrag => Pending # m)
  BY <1>0, <1>1, <1>2, <1>5, <1>6 DEF Before, Earlier, Missing
<1>9. Earlier'
  BY <1>0, <1>1, <1>2, <1>4, <1>5, <1>6 DEF Before, Earlier
<1>10. Missing'
  BY <1>0, <1>1, <1>2, <1>4, <1>5, <1>6 DEF Before, Missing
<1>11. ~Complete'
  BY <1>2, <1>3, <1>4, HeldType DEF Complete, Sync, SeqsDrawn
<1>12. Arrived' /\ Blocking'
  BY <1>2, <1>4, <1>8, <1>11 DEF Arrived, Blocking, Ignored
<1>13. ForwardedOnce'
  BY <1>2, <1>5 DEF ForwardedOnce, Last
<1> QED BY <1>1, <1>2, <1>4, <1>7, <1>9, <1>10, <1>12, <1>13
     DEF Ordered, Reported, Earlier, Waiting, Missing, Arrived, Blocking, Pending

\* The receiver passes up the MSDU that is sent.
LEMMA DeliveredNow ==
  ASSUME TypeOK, Sync, NEW m \in Msdus, up' = Append(up, Whole(m))
  PROVE  /\ Len(up') = Len(up) + 1 /\ Len(up) \in Nat /\ Last(up'[Len(up) + 1])[1] = m
         /\ \A i \in 1 .. Len(up) : up'[i] = up[i]
         /\ Delivered' = Delivered \cup {m}
<1> DEFINE P == Seq(Parts)
           w == Whole(m)
           Msdu(p) == Last(p)[1]
<1>1. up \in Seq(P) /\ w \in P /\ Msdu(w) = m /\ up' = Append(up, w)
  BY LastOfWhole DEF TypeOK
<1> HIDE DEF P, w, Msdu
<1>2. Len(up') = Len(up) + 1 /\ Len(up) \in Nat /\ up'[Len(up) + 1] = w
  BY <1>1
<1>3. \A i \in 1 .. Len(up) : up'[i] = up[i]
  BY <1>1
<1>4. Delivered = {Msdu(up[i]) : i \in 1 .. Len(up)} /\ Delivered' = {Msdu(up'[i]) : i \in 1 .. Len(up')}
  BY DEF Delivered, Msdu, Last
<1>5. Delivered' = Delivered \cup {m}
  <2>1. 1 .. Len(up') = (1 .. Len(up)) \cup {Len(up) + 1}
    BY <1>2
  <2>2. \A d : d \in Delivered <=> \E i \in 1 .. Len(up) : d = Msdu(up[i])
    BY <1>4
  <2>3. \A d : d \in Delivered' <=> \E i \in 1 .. Len(up') : d = Msdu(up'[i])
    BY <1>4
  <2>4. \A d : d \in Delivered' <=> (\E i \in 1 .. Len(up) : d = Msdu(up[i])) \/ d = m
    BY <1>1, <1>2, <1>3, <2>1, <2>3
  <2> QED BY <2>2, <2>4
<1> QED BY <1>1, <1>2, <1>3, <1>5 DEF Msdu

LEMMA ArriveOrdered ==
  ASSUME TypeOK, Sync, Ordered, Arrive
  PROVE  /\ Ordered'
         /\ \/ UNCHANGED <<rx, up, Delivered, Pending>>
            \/ UNCHANGED <<up, Delivered>> /\ (Unheard \/ Started) /\ Pending' = tx.msdu
            \/ /\ Delivered' = Delivered \cup {tx.msdu} /\ tx.msdu \notin Delivered
               /\ (Unheard \/ Started) /\ ~rx'.defrag
<1>1. /\ tx.msdu # 0 /\ tx.msdu \in Msdus /\ link = "data" /\ link' = "ack"
      /\ UNCHANGED <<tx, queued, queue, done>>
  BY FragsType DEF Arrive, TypeOK
<1>2. tx.msdu \in 1 .. queued
  BY <1>1 DEF TypeOK
<1>3. Reported /\ Earlier /\ Waiting /\ Missing /\ Arrived /\ Blocking /\ ForwardedOnce
  BY OrderedParts
<1>4. (Unheard \/ Started) => ~Complete
  BY DEF Unheard, Started, Complete
<1>5. CASE UNCHANGED <<rx, up>>
  <2>1. Complete' <=> Complete
    <3>1. Complete => Complete'
      BY <1>1, <1>5 DEF Complete, IsLastFragment
    <3>2. Complete' => Complete
      BY <1>1, <1>5, CompleteIff DEF Complete
    <3> QED BY <3>1, <3>2
  <2>2. Ignored' <=> Ignored
    BY <1>1, <1>5 DEF Ignored
  <2> QED BY <1>1, <1>5, <2>1, <2>2, SameMsdu
<1>6. CASE Started' /\ UNCHANGED up /\ (Unheard \/ Started)
  <2>1. UNCHANGED Delivered /\ Pending' = tx.msdu
    BY <1>1, <1>6 DEF Delivered, Last, Started, Pending
  <2>2. tx.msdu \notin Delivered
    BY <1>1, <1>3, <1>4, <1>6 DEF Arrived
  <2>3. ~Complete' /\ ~Ignored' /\ rx'.defrag
    BY <1>1, <1>6 DEF Complete, Ignored, Started
  <2>4. Reported' /\ Earlier' /\ Waiting' /\ Missing'
    BY <1>1, <1>3, <2>1, <2>2 DEF Before, Reported, Earlier, Waiting, Missing
  <2>5. Arrived' /\ Blocking'
    BY <1>1, <2>1, <2>2, <2>3 DEF Arrived, Blocking
  <2>6. ForwardedOnce'
    BY <1>3, <1>6 DEF ForwardedOnce, Last
  <2> QED BY <1>6, <2>1, <2>4, <2>5, <2>6
       DEF Ordered, Reported, Earlier, Waiting, Missing, Arrived, Blocking, Pending
<1>7. CASE Complete' /\ (Unheard \/ Started) /\ up' = Append(up, Whole(tx.msdu))
  <2>1. Delivered' = Delivered \cup {tx.msdu} /\ ~rx'.defrag
    BY <1>1, <1>7, DeliveredNow DEF Complete
  <2>2. tx.msdu \notin Delivered
    BY <1>1, <1>3, <1>4, <1>7 DEF Arrived
  <2>3. Reported' /\ Earlier' /\ Waiting' /\ Missing'
    BY <1>1, <1>3, <2>1, <2>2 DEF Before, Reported, Earlier, Waiting, Missing
  <2>4. Arrived' /\ Blocking'
    BY <1>1, <1>7, <2>1 DEF Arrived, Blocking, Ignored
  <2>5. ForwardedOnce'
    <3> DEFINE Msdu(p) == Last(p)[1]
    <3>1. /\ Len(up') = Len(up) + 1 /\ Len(up) \in Nat /\ Msdu(up'[Len(up) + 1]) = tx.msdu
          /\ \A i \in 1 .. Len(up) : up'[i] = up[i]
      BY <1>1, <1>7, DeliveredNow
    <3>2. \A i \in 1 .. Len(up) : Msdu(up[i]) \in Delivered
      BY DEF Delivered
    <3>3. \A k \in Delivered : k < tx.msdu
      BY <1>1, <1>3, <2>2 DEF Earlier, Before
    <3>4. \A i, j \in 1 .. Len(up) : i < j => Msdu(up[i]) < Msdu(up[j])
      BY <1>3 DEF ForwardedOnce
    <3> HIDE DEF Msdu
    <3>5. \A i, j \in 1 .. Len(up') : i < j => Msdu(up'[i]) < Msdu(up'[j])
      <4> SUFFICES ASSUME NEW i \in 1 .. Len(up'), NEW j \in 1 .. Len(up'), i < j
                   PROVE  Msdu(up'[i]) < Msdu(up'[j])
        OBVIOUS
      <4>1. i \in 1 .. Len(up) /\ up'[i] = up[i]
        BY <3>1
      <4>2. CASE j \in 1 .. Len(up)
        BY <3>1, <3>4, <4>1, <4>2
      <4>3. CASE j = Len(up) + 1
        BY <3>1, <3>2, <3>3, <4>1, <4>3
      <4> QED BY <3>1, <4>2, <4>3
    <3> QED BY <3>5 DEF ForwardedOnce, Last, Msdu
  <2> QED BY <1>7, <2>1, <2>2, <2>3, <2>4, <2>5
       DEF Ordered, Reported, Earlier, Waiting, Missing, Arrived, Blocking, Pending
<1> QED BY <1>5, <1>6, <1>7, ArriveSync

\* Steps by which the sender goes on with the MSDU it sends, if any.
GoesOn == /\ UNCHANGED <<rx, up, queued>> /\ queue' \subseteq queue
          /\ tx'.msdu = tx.msdu /\ done'.ok = done.ok /\ done'.failed = done.failed

\* Steps that end its transfer.
Ends == /\ UNCHANGED <<rx, up, queued, queue>> /\ tx.msdu # 0 /\ tx'.msdu = 0
        /\ \/ done'.ok = done.ok \cup {tx.msdu} /\ done'.failed = done.failed /\ GotAck
           \/ done'.ok = done.ok /\ done'.failed = done.failed \cup {tx.msdu}

\* A frame that is missed, or an ACK, is one or the other.
LEMMA AnswerKinds ==
  ASSUME TypeOK, MissedCts \/ MissedAck \/ GotAck
  PROVE  \/ GoesOn /\ tx'.seq = tx.seq /\ tx'.frag = tx.frag
         \/ Ends /\ (GotAck => IsLastFragment)
<1>0. tx \in Headers /\ done \in Reports /\ tx.msdu # 0
  BY DEF TypeOK, MissedCts, MissedAck, GotAck
<1>1. CASE MissedCts
  <2>1. CASE tx.ssrc + 1 < MaxSsrc
    BY <1>0, <1>1, <2>1 DEF MissedCts, GoesOn, Headers
  <2>2. CASE ~(tx.ssrc + 1 < MaxSsrc)
    BY <1>0, <1>1, <2>2 DEF MissedCts, Failed, Released, Ends, Reports, Headers, GotAck
  <2> QED BY <2>1, <2>2
<1>2. CASE MissedAck
  <2>1. CASE tx.slrc + 1 < MaxSlrc
    BY <1>0, <1>2, <2>1 DEF MissedAck, GoesOn, Headers
  <2>2. CASE ~(tx.slrc + 1 < MaxSlrc)
    <3>1. /\ tx'.msdu = 0 /\ done' = [done EXCEPT !.failed = @ \cup {tx.msdu}]
          /\ UNCHANGED <<rx, up, queued, queue>>
      BY <1>0, <1>2, <2>2 DEF MissedAck, Failed, Released, Headers
    <3>2. GotAck => IsLastFragment
      BY <1>0, <3>1 DEF GotAck, Headers
    <3> QED BY <1>0, <3>1, <3>2 DEF Ends, Reports
  <2> QED BY <2>1, <2>2
<1>3. CASE GotAck
  <2>1. CASE IsLastFragment
    BY <1>0, <1>3, <2>1 DEF GotAck, Released, Ends, Reports
  <2>2. CASE ~IsLastFragment
    BY <1>0, <1>3, <2>2 DEF GotAck, GoesOn, Headers
  <2> QED BY <2>1, <2>2
<1> QED BY <1>1, <1>2, <1>3

LEMMA NextOrdered ==
  ASSUME Quiet, TypeOK, TypeOK', NoWrap', Sync, Sync', Ordered, [Next]_vars
  PROVE  Ordered'
<1>0. tx \in Headers /\ Quiet
  BY DEF TypeOK
<1>1. CASE \/ Expire \/ SendAgain \/ GotCts \/ OtherFrame \/ NotifyWakeUp
           \/ UNCHANGED vars
  <2>1. GoesOn
    <3>1. CASE Expire
      BY <3>1 DEF Expire, Lost, GoesOn, TypeOK, Reports
    <3>2. CASE GotCts
      BY <1>0, <3>2 DEF GotCts, GoesOn, Headers
    <3>3. CASE OtherFrame
      <4>1. Receive(Group) \/ UNCHANGED <<rx, up>>
        BY <3>3 DEF OtherFrame, Group
      <4> QED BY <3>3, <4>1, GroupIgnored DEF OtherFrame, GoesOn
    <3>4. CASE SendAgain \/ NotifyWakeUp \/ UNCHANGED vars
      BY <3>4 DEF SendAgain, NotifyWakeUp, vars, GoesOn
    <3> QED BY <1>1, <3>1, <3>2, <3>3, <3>4
  <2>2. tx'.seq = tx.seq /\ tx'.frag = tx.frag
    BY <1>0, <1>1 DEF Expire, SendAgain, GotCts, OtherFrame, NotifyWakeUp, vars, Headers
  <2>3. tx.msdu # 0 => (Complete' <=> Complete) /\ (Ignored' <=> Ignored)
    BY <2>1, <2>2, CompleteIff, CompleteIffNext DEF GoesOn, Ignored
  <2> QED BY <2>1, <2>3, SameMsdu DEF GoesOn
<1>2. CASE Queue
  BY <1>2, QueueOrdered
<1>3. CASE SendNext
  BY <1>3, SendNextOrdered
<1>4. CASE MissedCts \/ MissedAck \/ GotAck
  <2>1. CASE GoesOn /\ tx'.seq = tx.seq /\ tx'.frag = tx.frag
    <3>1. tx.msdu # 0 => (Complete' <=> Complete) /\ (Ignored' <=> Ignored)
      BY <2>1, CompleteIff, CompleteIffNext DEF GoesOn, Ignored
    <3> QED BY <2>1, <3>1, SameMsdu DEF GoesOn
  <2>2. CASE Ends
    BY <2>2, MsduFinished DEF Ends
  <2> QED BY <1>4, <2>1, <2>2, AnswerKinds
<1>5. CASE Arrive
  BY <1>5, ArriveOrdered
<1>6. CASE StartNextFragment
  <2>1. /\ tx' = [tx EXCEPT !.frag = @ + 1] /\ link = "sifs" /\ UNCHANGED <<rx, up, queued, queue, done>>
        /\ tx.msdu # 0 /\ ~IsLastFragment
    BY <1>6 DEF StartNextFragment, TypeOK
  <2>2. tx'.msdu = tx.msdu /\ tx'.seq = tx.seq
    BY <1>0, <2>1 DEF Headers
  <2>3. rx.defrag /\ ~Complete
    BY <2>1 DEF Sync, Unheard, Started, Complete, Ignored
  <2>4. ~Complete' /\ (Ignored' <=> Ignored)
    BY <2>1, <2>2, <2>3 DEF Complete, Ignored
  <2> QED BY <2>1, <2>2, <2>3, <2>4, SameMsdu
<1>7. ~NotifySleep /\ ~NotifyChannelSwitching
  BY <1>0 DEF Quiet, NotifySleep, NotifyChannelSwitching
<1> QED BY <1>1, <1>2, <1>3, <1>4, <1>5, <1>6, <1>7 DEF Next, Exchange

LEMMA InitOrdered == Init => Ordered
  BY DEF Init, Ordered, Before, Delivered, ForwardedOnce

\* With neither sleep nor switching, and before sequence numbers come round.
THEOREM InSequence == Quiet /\ Spec /\ []NoWrap => []Ordered
<1> SUFFICES ASSUME Quiet PROVE Spec /\ []NoWrap => []Ordered
  OBVIOUS
<1>1. Init => Ordered
  BY InitOrdered
<1>2. TypeOK /\ TypeOK' /\ NoWrap' /\ Sync /\ Sync' /\ Ordered /\ [Next]_vars => Ordered'
  BY NextOrdered
<1> QED BY <1>1, <1>2, TypeCorrect, InStep, PTL DEF Spec

\* MacRxMiddle passes each MSDU up at most once, in the order in which DcaTxop was
\* given them, although fragments and ACKs are lost and sent again.
THEOREM OnceInOrder == Quiet /\ Spec /\ []NoWrap => []ForwardedOnce
<1>1. Ordered => ForwardedOnce
  BY DEF Ordered
<1> QED BY <1>1, InSequence, PTL

-----------------------------------------------------------------------------
(* The abstract transfer *)

\* What blocked stands for.
Blocked == rx.defrag /\ rx.frags[1][1] # tx.msdu

\* A step that the abstract transfer does not see.
Stutter == UNCHANGED <<tx.msdu, Delivered, done.ok, done.failed, Blocked>>

LEMMA StutterMaps == Stutter => UNCHANGED D!vars
  BY DEF Stutter, D!vars, Blocked

LEMMA GoesOnStutters == GoesOn => Stutter
  BY DEF GoesOn, Stutter, Delivered, Last, Blocked

LEMMA SendNextMaps ==
  ASSUME TypeOK, Sync, NoWrap', Ordered, SendNext
  PROVE  D!Begin(tx'.msdu) /\ tx'.msdu \in Msdus
<1>1. UNCHANGED <<Delivered, Pending>> /\ tx'.msdu \in queue
  BY SendNextOrdered
<1>2. UNCHANGED <<done, rx>> /\ tx.msdu = 0
  BY DEF SendNext
<1>3. \A k \in Delivered \cup done.ok \cup done.failed : k < tx'.msdu
  BY <1>1, <1>2, DeliveredMsdus, OrderedParts DEF Before, Reported, Earlier, Msdus
<1>4. rx.defrag => Pending # 0 /\ Pending < tx'.msdu
  BY <1>1, <1>2, DeliveredMsdus, OrderedParts DEF Before, Missing, Msdus
<1>5. tx'.msdu \in Msdus /\ tx'.msdu \in Nat
  <2>1. queue \subseteq 1 .. queued /\ queued \in 0 .. MaxMsdus
    BY DEF TypeOK
  <2>2. tx'.msdu \in 1 .. queued
    BY <1>1, <2>1
  <2>3. MaxMsdus \in Nat
    BY SizesAssumption
  <2> QED BY <2>1, <2>2, <2>3 DEF Msdus
<1>6. rx.defrag => Pending \in Msdus
  BY DeliveredMsdus
<1>7. UNCHANGED Blocked
  BY <1>2, <1>4, <1>5, <1>6 DEF Blocked, Pending, Msdus
<1> QED BY <1>1, <1>2, <1>3, <1>5, <1>7 DEF D!Begin, Blocked

LEMMA ArriveMaps ==
  ASSUME TypeOK, Sync, Ordered, Arrive
  PROVE  Stutter \/ D!Deliver
<1>1. tx.msdu # 0 /\ UNCHANGED <<tx, done>>
  BY DEF Arrive, TypeOK
<1>2. (Unheard \/ Started) => ~Blocked
  BY DEF Unheard, Started, Blocked
<1>3. CASE UNCHANGED <<rx, up, Delivered, Pending>>
  BY <1>1, <1>3 DEF Stutter, Blocked
<1>4. CASE UNCHANGED <<up, Delivered>> /\ (Unheard \/ Started) /\ Pending' = tx.msdu
  BY <1>1, <1>2, <1>4 DEF Stutter, Blocked, Pending
<1>5. CASE /\ Delivered' = Delivered \cup {tx.msdu} /\ tx.msdu \notin Delivered
           /\ (Unheard \/ Started) /\ ~rx'.defrag
  BY <1>1, <1>2, <1>5 DEF D!Deliver, Blocked
<1> QED BY <1>3, <1>4, <1>5, ArriveOrdered

LEMMA EndsMaps ==
  ASSUME TypeOK, Sync, Ordered, MissedCts \/ MissedAck \/ GotAck, Ends, GotAck => IsLastFragment
  PROVE  D!Confirm \/ D!Fail
<1>1. tx.msdu # 0 /\ tx'.msdu = 0 /\ UNCHANGED <<rx, up, Delivered>> /\ (tx.msdu \in Delivered <=> Complete)
  BY OrderedParts DEF Ends, Delivered, Last, Arrived
<1>2. Pending # 0 \/ ~rx.defrag
  BY DeliveredMsdus DEF Msdus
<1>3. Blocked' <=> rx.defrag
  BY <1>1, <1>2 DEF Blocked, Pending
<1>4. CASE GotAck /\ done'.ok = done.ok \cup {tx.msdu} /\ done'.failed = done.failed
  <2>1. Complete \/ Ignored
    BY <1>1, <1>4 DEF Sync, Unheard, Started, GotAck
  <2>2. Ignored => Blocked
    BY <1>1, OrderedParts DEF Blocking, Blocked, Pending, Ignored
  <2>3. Complete => ~rx.defrag
    BY DEF Complete
  <2>4. Blocked <=> rx.defrag
    BY <2>1, <2>2, <2>3 DEF Blocked
  <2>5. Blocked' = Blocked
    BY <1>3, <2>4 DEF Blocked
  <2> QED BY <1>1, <1>4, <2>1, <2>2, <2>5 DEF D!Confirm, Blocked
<1>5. CASE done'.ok = done.ok /\ done'.failed = done.failed \cup {tx.msdu}
  <2>1. CASE Complete \/ ~rx.defrag
    <3>1. Blocked' = Blocked
      BY <1>3, <2>1 DEF Blocked, Complete
    <3> QED BY <1>1, <1>5, <3>1 DEF D!Fail, Blocked
  <2>2. CASE ~Complete /\ rx.defrag
    <3>1. tx.msdu \notin Delivered /\ Blocked' = TRUE
      BY <1>1, <1>3, <2>2 DEF Blocked
    <3> QED BY <1>1, <1>5, <3>1 DEF D!Fail, Blocked
  <2> QED BY <2>1, <2>2
<1> QED BY <1>4, <1>5 DEF Ends

LEMMA NextMaps ==
  ASSUME Quiet, TypeOK, NoWrap', Sync, Ordered, [Next]_vars
  PROVE  [D!Next]_(D!vars)
<1>1. CASE SendNext
  BY <1>1, SendNextMaps DEF D!Next
<1>2. CASE Arrive
  BY <1>2, ArriveMaps, StutterMaps DEF D!Next
<1>3. CASE MissedCts \/ MissedAck \/ GotAck
  <2>1. CASE GoesOn
    BY <2>1, GoesOnStutters, StutterMaps
  <2>2. CASE Ends /\ (GotAck => IsLastFragment)
    BY <1>3, <2>2, EndsMaps DEF D!Next
  <2> QED BY <1>3, <2>1, <2>2, AnswerKinds
<1>4. CASE Queue
  <2>1. UNCHANGED <<Delivered, Pending, rx, tx>> /\ done'.ok = done.ok /\ done'.failed = done.failed
    BY <1>4 DEF Queue, Lost, Delivered, Last, Pending, TypeOK, Reports
  <2>2. Stutter
    BY <2>1 DEF Stutter, Blocked
  <2> QED BY <2>2, StutterMaps
<1>5. CASE Expire \/ SendAgain \/ GotCts \/ StartNextFragment \/ OtherFrame \/ NotifyWakeUp \/ UNCHANGED vars
  <2>0. tx \in Headers /\ done \in Reports
    BY DEF TypeOK
  <2>1. GoesOn
    <3>1. CASE Expire
      BY <2>0, <3>1 DEF Expire, Lost, GoesOn, Reports
    <3>2. CASE GotCts
      BY <2>0, <3>2 DEF GotCts, GoesOn, Headers
    <3>3. CASE StartNextFragment
      BY <2>0, <3>3 DEF StartNextFragment, GoesOn, Headers
    <3>4. CASE OtherFrame
      <4>1. Receive(Group) \/ UNCHANGED <<rx, up>>
        BY <3>4 DEF OtherFrame, Group
      <4> QED BY <3>4, <4>1, GroupIgnored DEF OtherFrame, GoesOn
    <3>5. CASE SendAgain \/ NotifyWakeUp \/ UNCHANGED vars
      BY <3>5 DEF SendAgain, NotifyWakeUp, vars, GoesOn
    <3> QED BY <1>5, <3>1, <3>2, <3>3, <3>4, <3>5
  <2> QED BY <2>1, GoesOnStutters, StutterMaps
<1>6. ~NotifySleep /\ ~NotifyChannelSwitching
  BY DEF Quiet, NotifySleep, NotifyChannelSwitching
<1> QED BY <1>1, <1>2, <1>3, <1>4, <1>5, <1>6 DEF Next, Exchange

LEMMA InitMaps == Init => D!Init
  BY DEF Init, D!Init, Delivered

\* DcaTxop and MacRxMiddle implement the abstract transfer: what is reported as sent
\* was passed up, unless the receiver waits for fragments of an MSDU that has failed.
THEOREM Refinement == Quiet /\ Spec /\ []NoWrap => Delivers
<1> SUFFICES ASSUME Quiet PROVE Spec /\ []NoWrap => Delivers
  OBVIOUS
<1>1. Init => D!Init
  BY InitMaps
<1>2. TypeOK /\ NoWrap' /\ Sync /\ Ordered /\ [Next]_vars => [D!Next]_(D!vars)
  BY NextMaps
<1>3. Spec /\ []NoWrap => []Ordered
  BY InSequence
<1> QED BY <1>1, <1>2, <1>3, TypeCorrect, InStep, PTL DEF Spec, Delivers, D!Spec
-----------------------------------------------------------------------------
(* The order of packets, whatever the PHY does *)

\* The MSDU of the last fragment of a packet.
MsduOf(p) == Last(p)[1]

\* What was passed up is not ahead of what is sent, nor this of what waits: an MSDU
\* that a sleep puts back to the queue is still the lowest.
Ahead ==
  /\ \A d \in Delivered : /\ d \in 1 .. queued /\ \A q \in queue : d <= q
                          /\ tx.msdu # 0 => d <= tx.msdu
  /\ tx.msdu # 0 => \A q \in queue : tx.msdu < q
  /\ InOrder

\* A packet that is passed up ends with the fragment that is sent.
LEMMA PassedUp ==
  ASSUME TypeOK, tx.msdu # 0, Receive(Header)
  PROVE  \/ up' = up
         \/ \E p : up' = Append(up, p) /\ MsduOf(p) = tx.msdu
<1>1. Part(Header) = <<tx.msdu, tx.frag>> /\ Part(Header) \in Parts
  BY FragsType DEF Part, Header
<1>2. CASE AccumulateLast(Header)
  <2> DEFINE p == Append(rx.frags, Part(Header))
  <2>1. rx.frags \in Seq(Parts)
    BY DEF TypeOK, Statuses
  <2>2. Len(p) = Len(rx.frags) + 1 /\ p[Len(rx.frags) + 1] = Part(Header)
    BY <1>1, <2>1
  <2> HIDE DEF p
  <2>3. MsduOf(p) = tx.msdu
    BY <1>1, <2>2 DEF MsduOf, Last
  <2> QED BY <1>2, <2>3 DEF AccumulateLast, p
<1>3. CASE Forward(Header)
  <2>1. up' = Append(up, << Part(Header) >>)
    BY <1>3 DEF Forward, Header
  <2>2. MsduOf(<< Part(Header) >>) = tx.msdu
    BY <1>1 DEF MsduOf, Last
  <2> QED BY <2>1, <2>2
<1> QED BY <1>2, <1>3 DEF Receive, Accumulate

LEMMA ArriveAhead ==
  ASSUME TypeOK, TypeOK', Ahead, Arrive
  PROVE  Ahead'
<1>1. /\ tx.msdu # 0 /\ tx.msdu \in 1 .. queued /\ Receive(Header)
      /\ UNCHANGED <<tx, queued, queue>>
  BY DEF Arrive, TypeOK
<1>2. CASE up' = up
  BY <1>1, <1>2 DEF Ahead, Delivered, Last, InOrder
<1>3. ASSUME NEW p, up' = Append(up, p), MsduOf(p) = tx.msdu PROVE Ahead'
  <2>1. /\ Len(up') = Len(up) + 1 /\ Len(up) \in Nat /\ up'[Len(up) + 1] = p
        /\ \A i \in 1 .. Len(up) : up'[i] = up[i]
    BY <1>3 DEF TypeOK
  <2>2. \A i \in 1 .. Len(up') : i \in 1 .. Len(up) \/ i = Len(up) + 1
    BY <2>1
  <2>3. \A i \in 1 .. Len(up) : MsduOf(up[i]) \in Delivered /\ MsduOf(up'[i]) = MsduOf(up[i])
    BY <2>1 DEF Delivered, MsduOf
  <2>4. MsduOf(up'[Len(up) + 1]) = tx.msdu
    BY <1>3, <2>1
  <2>5. \A i \in 1 .. Len(up') : MsduOf(up'[i]) \in Delivered \cup {tx.msdu}
    BY <2>2, <2>3, <2>4
  <2>6. Delivered' \subseteq Delivered \cup {tx.msdu}
    BY <2>5 DEF Delivered, MsduOf
  <2>7. \A d \in Delivered \cup {tx.msdu} :
          /\ d \in 1 .. queued /\ \A q \in queue : d <= q
          /\ d <= tx.msdu
    <3>1. queue \subseteq 1 .. queued /\ queued \in Nat
      BY SizesAssumption DEF TypeOK
    <3> QED BY <1>1, <3>1 DEF Ahead
  <2>8. \A i, j \in 1 .. Len(up') : i < j => MsduOf(up'[i]) <= MsduOf(up'[j])
    <3> SUFFICES ASSUME NEW i \in 1 .. Len(up'), NEW j \in 1 .. Len(up'), i < j
                 PROVE  MsduOf(up'[i]) <= MsduOf(up'[j])
      OBVIOUS
    <3>1. i \in 1 .. Len(up)
      BY <2>1
    <3>2. CASE j \in 1 .. Len(up)
      <4>1. \A k, n \in 1 .. Len(up) : k < n => MsduOf(up[k]) <= MsduOf(up[n])
        BY DEF Ahead, InOrder, MsduOf
      <4> QED BY <2>3, <3>1, <3>2, <4>1
    <3>3. CASE j = Len(up) + 1
      BY <2>3, <2>4, <2>7, <3>1, <3>3
    <3> QED BY <2>2, <3>2, <3>3
  <2>9. InOrder'
    BY <2>8 DEF InOrder, MsduOf
  <2>10. \A d \in Delivered' : /\ d \in 1 .. queued' /\ \A q \in queue' : d <= q
                               /\ tx'.msdu # 0 => d <= tx'.msdu
    BY <1>1, <2>6, <2>7
  <2> QED BY <1>1, <2>9, <2>10 DEF Ahead
<1> QED BY <1>1, <1>2, <1>3, PassedUp

\* The other steps pass nothing up, and keep the order of what is sent and waits.
LEMMA NextAhead == TypeOK /\ TypeOK' /\ Ahead /\ [Next]_vars => Ahead'
<1> SUFFICES ASSUME TypeOK, TypeOK', Ahead, [Next]_vars PROVE Ahead'
  OBVIOUS
<1>0. /\ tx \in Headers /\ queued \in Nat /\ queue \subseteq 1 .. queued /\ tx.msdu \in 0 .. queued
      /\ tx.msdu \notin queue
  BY SizesAssumption DEF TypeOK
<1>1. CASE Arrive
  BY <1>1, ArriveAhead
<1>2. ASSUME ~Arrive PROVE UNCHANGED <<rx, up>>
  <2>1. CASE OtherFrame
    <3>1. Receive(Group) \/ UNCHANGED <<rx, up>>
      BY <2>1 DEF OtherFrame, Group
    <3> QED BY <3>1, GroupIgnored
  <2> QED BY <1>2, <2>1
       DEF Next, Exchange, Queue, Expire, SendNext, SendAgain, GotCts, MissedCts, GotAck, MissedAck,
           StartNextFragment, NotifySleep, NotifyWakeUp, NotifyChannelSwitching, vars
<1>3. ASSUME UNCHANGED up, queued' \in Nat, queued <= queued',
             tx'.msdu # 0 => tx'.msdu = tx.msdu \/ tx'.msdu \in queue,
             \A q \in queue' : q \in queue \/ (q = tx.msdu /\ tx'.msdu = 0) \/ q > queued,
             tx'.msdu # 0 => \A q \in queue' : tx'.msdu < q
      PROVE  Ahead'
  <2>1. Delivered' = Delivered /\ InOrder'
    BY <1>3 DEF Delivered, Last, InOrder, Ahead
  <2>2. ASSUME NEW d \in Delivered
        PROVE  /\ d \in 1 .. queued' /\ \A q \in queue' : d <= q
               /\ tx'.msdu # 0 => d <= tx'.msdu
    <3>1. d \in 1 .. queued /\ (\A q \in queue : d <= q) /\ (tx.msdu # 0 => d <= tx.msdu)
      BY <2>2 DEF Ahead
    <3>2. \A q \in queue' : d <= q
      <4> SUFFICES ASSUME NEW q \in queue' PROVE d <= q
        OBVIOUS
      <4>1. q \in 1 .. queued'
        BY DEF TypeOK
      <4> QED BY <1>0, <1>3, <3>1, <4>1
    <3>3. d \in 1 .. queued'
      BY <1>0, <1>3, <3>1
    <3>4. tx'.msdu # 0 => d <= tx'.msdu
      BY <1>3, <3>1
    <3> QED BY <3>2, <3>3, <3>4
  <2> QED BY <1>3, <2>1, <2>2 DEF Ahead
<1>4. CASE Queue
  <2>1. UNCHANGED <<up, tx>> /\ queued' = queued + 1 /\ (queue' = queue \/ queue' = queue \cup {queued'})
    BY <1>4 DEF Queue
  <2>2. tx.msdu # 0 => \A q \in queue' : tx.msdu < q
    <3>1. tx.msdu # 0 => \A q \in queue : tx.msdu < q
      BY DEF Ahead
    <3>2. tx.msdu < queued'
      BY <1>0, <2>1
    <3> QED BY <2>1, <3>1, <3>2
  <2> QED BY <1>0, <1>3, <2>1, <2>2
<1>5. CASE Expire
  BY <1>0, <1>2, <1>3, <1>5 DEF Expire, Ahead
<1>6. CASE SendNext
  <2>1. PICK m \in queue : /\ tx'.msdu = m /\ queue' = queue \ {m} /\ IsFront(m) /\ queued' = queued
    BY <1>0, <1>6 DEF SendNext, Headers
  <2>2. \A q \in queue' : m < q
    BY <1>0, <2>1 DEF IsFront
  <2>3. UNCHANGED up
    BY <1>6 DEF SendNext
  <2> QED BY <1>0, <1>3, <2>1, <2>2, <2>3
<1>7. CASE NotifySleep
  <2>1. tx'.msdu = 0 /\ queued' = queued /\ UNCHANGED up
    BY <1>7 DEF NotifySleep, Released
  <2>2. \A q \in queue' : q \in queue \/ q = tx.msdu
    BY <1>7 DEF NotifySleep
  <2> QED BY <1>0, <1>3, <2>1, <2>2
<1>8. CASE NotifyChannelSwitching
  BY <1>0, <1>3, <1>8 DEF NotifyChannelSwitching, Released
<1>9. CASE MissedCts \/ MissedAck \/ GotAck
  <2>1. UNCHANGED <<up, queue, queued>> /\ (tx'.msdu = tx.msdu \/ tx'.msdu = 0)
    BY <1>9, AnswerKinds DEF GoesOn, Ends, MissedCts, MissedAck, GotAck
  <2> QED BY <1>0, <1>3, <2>1 DEF Ahead
<1>10. CASE SendAgain \/ GotCts \/ StartNextFragment \/ OtherFrame \/ NotifyWakeUp \/ UNCHANGED vars
  <2>1. UNCHANGED <<queue, queued, tx.msdu>>
    BY <1>0, <1>10 DEF SendAgain, GotCts, StartNextFragment, OtherFrame, NotifyWakeUp, vars, Headers
  <2>2. UNCHANGED up
    BY <1>2, <1>10 DEF SendAgain, GotCts, StartNextFragment, OtherFrame, NotifyWakeUp, vars, Arrive
  <2> QED BY <1>0, <1>3, <2>1, <2>2 DEF Ahead
<1> QED BY <1>1, <1>4, <1>5, <1>6, <1>7, <1>8, <1>9, <1>10 DEF Next, Exchange

\* MSDUs are passed up in the order in which DcaTxop was given them, and one that a
\* sleep has put back (WifiMacQueue::PushFront) only again, whatever the PHY of the
\* sender does and however often sequence numbers come round.
THEOREM NeverOvertaken == Spec => []InOrder
<1>1. Init => Ahead
  BY DEF Init, Ahead, Delivered, InOrder
<1>2. Ahead => InOrder
  BY DEF Ahead
<1> QED BY <1>1, <1>2, NextAhead, TypeCorrect, PTL DEF Spec
=============================================================================
