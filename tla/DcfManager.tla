----------------------------- MODULE DcfManager -----------------------------
(***************************************************************************)
(* Channel access of one radio: ns3::DcfManager and the ns3::DcfState      *)
(* objects registered with it (wifi/model/dcf-manager.{h,cc}).             *)
(*                                                                         *)
(* The states are numbered in the order of DcfManager::Add, so 1 has the   *)
(* highest priority.  Time is the simulator's clock in ticks, and advances *)
(* from event to event: Tick stops at every pending event.  The users of   *)
(* the states (EdcaTxopN, DcaTxop), the MAC low and the PHY appear by what *)
(* they may do to the manager: which calls they make, in which order, and  *)
(* with which random backoffs and durations.                               *)
(***************************************************************************)
EXTENDS Integers

CONSTANTS
  N,              \* number of DcfStates, 1 is the highest priority
  Aifsn,          \* [States -> Nat \ {0}], DcfState::SetAifsn
  Edca,           \* the states whose IsEdca() is TRUE; the users of the others are DcaTxops
  CwMin, CwMax,   \* bounds of the contention window
  Slot, Sifs,     \* SetSlot, SetSifs
  EifsNoDifs,     \* SetEifsNoDifs
  AckTimeout,     \* delay of the ACK, CTS and block ack timers after the tx

  TokenStates,    \* states whose user may be given the token (NETSYS)
  Silent,         \* may a granted user find that it has nothing to send?
  RxErrors,       \* may a reception fail?
  CanPowerDown,   \* does the PHY sleep and switch channels?
  PowerAtTxEnd,   \* may it do so at the very time a transmission ends?

  FrameTimes,     \* durations of frames sent and received
  Durations,      \* durations of busy periods, NAVs and channel switches
  MaxRequests,    \* bound: calls of RequestAccess and RequestReaccess
  MaxDisturbances,\* bound: medium, token and power events
  Horizon         \* bound: time up to which an idle radio is observed

States == 1 .. N
Off == -1         \* a timer that is not running

ASSUME SizeAssumption ==
  /\ N \in Nat \ {0}
  /\ Aifsn \in [States -> Nat \ {0}]
  /\ Edca \subseteq States
  /\ TokenStates \subseteq Edca
ASSUME TimingAssumption ==
  /\ CwMin \in Nat /\ CwMax \in Nat /\ CwMin <= CwMax
  /\ Slot \in Nat \ {0}
  /\ Sifs \in Nat \ {0}
  /\ EifsNoDifs \in Nat
  /\ AckTimeout \in Nat \ {0}
  /\ Durations \subseteq Nat \ {0}
  /\ FrameTimes \subseteq Nat /\ \A dur \in FrameTimes : dur > Sifs
ASSUME BoundAssumption ==
  /\ {Silent, RxErrors, CanPowerDown, PowerAtTxEnd} \subseteq BOOLEAN
  /\ MaxRequests \in Nat /\ MaxDisturbances \in Nat /\ Horizon \in Nat

VARIABLES
  now,       \* Simulator::Now
  dcf,       \* the DcfStates: slots, start, cw, requested and the user's token
  med,       \* what the manager has been told of the medium
  timer,     \* m_accessTimeout: the time it fires, or Off
  sleeping,  \* m_sleeping
  waking,    \* states NotifyWakeupNow has still to visit
  exch,      \* the frame exchange of this radio: owner, what it awaits, until when
  reply,     \* time of the response frame MacLow has scheduled, or Off
  requests, disturbances  \* counters of the bounds

vars == <<now, dcf, med, timer, sleeping, waking, exch, reply, requests, disturbances>>
bounds == <<requests, disturbances>>

MostRecent(a, b) == IF a > b THEN a ELSE b
Least(a, b) == IF a < b THEN a ELSE b

NoExchange == [owner |-> 0, awaits |-> "none", due |-> Off]

-----------------------------------------------------------------------------
(* The queries of the manager, on states d and medium m *)

IsBusy(m) == m.rxing \/ m.txEnd > now \/ m.navEnd > now \/ m.busyEnd > now

RxAccessStart(m) ==
  IF m.rxing THEN m.rxStart + m.rxDur + Sifs
  ELSE m.rxEnd + Sifs + (IF m.rxOk THEN 0 ELSE EifsNoDifs)

(* Mutants of GetAccessGrantStart, each of which forgets one end. *)
GrantStartWithoutTx(m) ==
  MostRecent(RxAccessStart(m),
    Sifs + MostRecent(MostRecent(m.busyEnd, MostRecent(m.navEnd, m.ackEnd)),
                      MostRecent(m.ctsEnd, m.switchEnd)))
GrantStartWithoutAck(m) ==
  MostRecent(RxAccessStart(m),
    Sifs + MostRecent(MostRecent(MostRecent(m.busyEnd, m.txEnd), m.navEnd),
                      MostRecent(m.ctsEnd, m.switchEnd)))
GrantStartWithoutCts(m) ==
  MostRecent(RxAccessStart(m),
    Sifs + MostRecent(MostRecent(MostRecent(m.busyEnd, m.txEnd),
                                 MostRecent(m.navEnd, m.ackEnd)), m.switchEnd))

GetAccessGrantStart(m) ==
  MostRecent(RxAccessStart(m),
    Sifs + MostRecent(MostRecent(MostRecent(m.busyEnd, m.txEnd),
                                 MostRecent(m.navEnd, m.ackEnd)),
                      MostRecent(m.ctsEnd, m.switchEnd)))

IsWithinAifs(s, m) == GetAccessGrantStart(m) + Aifsn[s] * Slot > now

\* A state that holds the token waits one slot instead of its AIFS (NETSYS).
Ifs(s, d) == (IF d[s].token THEN 1 ELSE Aifsn[s]) * Slot

GetBackoffStartFor(s, d, m) ==
  MostRecent(d[s].start, GetAccessGrantStart(m) + Ifs(s, d))

GetBackoffEndFor(s, d, m) == GetBackoffStartFor(s, d, m) + d[s].slots * Slot

(* Mutant of ElapsedSlots: no minimum with the slots that are left. *)
OvercountedSlots(s, d, m) ==
  ((now - GetBackoffStartFor(s, d, m)) \div Slot) + (IF s \in Edca THEN 1 ELSE 0)

\* The slots that have gone by since the backoff of s started; an EDCA state
\* counts one more, at the boundary where its AIFS ends.
ElapsedSlots(s, d, m) ==
  Least(((now - GetBackoffStartFor(s, d, m)) \div Slot) + (IF s \in Edca THEN 1 ELSE 0),
        d[s].slots)

(* Mutant of UpdateBackoff: the part of a slot that has gone by is lost. *)
UpdateBackoffToNow(d, m) ==
  [s \in States |->
     IF GetBackoffStartFor(s, d, m) > now THEN d[s]
     ELSE [d[s] EXCEPT !.slots = @ - ElapsedSlots(s, d, m), !.start = now]]

UpdateBackoff(d, m) ==
  [s \in States |->
     IF GetBackoffStartFor(s, d, m) > now THEN d[s]
     ELSE [d[s] EXCEPT !.slots = @ - ElapsedSlots(s, d, m),
                       !.start = GetBackoffStartFor(s, d, m) + ElapsedSlots(s, d, m) * Slot]]

\* The states that DoGrantAccess finds with an expired backoff.
Ready(d, m) == {s \in States : d[s].requested /\ GetBackoffEndFor(s, d, m) <= now}

\* The states for which an access timeout is needed.
Waiting(d, m) == {s \in States : d[s].requested /\ GetBackoffEndFor(s, d, m) > now}

-----------------------------------------------------------------------------
(* What the calls do to the states *)

StartBackoff(d, s, cw, slots) ==
  [d EXCEPT ![s].cw = cw, ![s].slots = slots, ![s].start = now]

FailedCw(cw) == Least(2 * (cw + 1) - 1, CwMax)

Request(d, s) == [d EXCEPT ![s].requested = TRUE]

ResetBackoff(d) == [s \in States |-> [d[s] EXCEPT !.slots = 0, !.start = now]]

\* NotifySwitchingStartNow and NotifyWakeupNow: the backoff is given up.
Forget(r) == [r EXCEPT !.slots = 0, !.start = IF r.slots > 0 THEN now ELSE @,
                       !.cw = CwMin, !.requested = FALSE]

(* What the calls do to the medium *)

(* Mutant of RxEnded: m_lastRxEnd is not set. *)
RxForgotten(m, ok) == [m EXCEPT !.rxOk = ok, !.rxing = FALSE]

RxEnded(m, ok) == [m EXCEPT !.rxEnd = now, !.rxOk = ok, !.rxing = FALSE]

\* A transmission cuts a reception short; the frame counts as received well if
\* it began within the last SIFS.
RxCut(m) ==
  IF m.rxing THEN [RxEnded(m, now - m.rxStart <= Sifs) EXCEPT !.rxDur = now - m.rxStart] ELSE m

TxStarted(m, dur) == [RxCut(m) EXCEPT !.txEnd = now + dur]

SwitchingStarted(m, dur) ==
  [IF m.rxing THEN [RxEnded(m, TRUE) EXCEPT !.rxDur = now - m.rxStart] ELSE m
     EXCEPT !.navEnd = Least(@, now), !.busyEnd = Least(@, now),
            !.ackEnd = Least(@, now), !.ctsEnd = Least(@, now),
            !.switchEnd = now + dur]

\* MacLow starts the timer of the answer that an exchange of this kind awaits.
TimerStarted(m, kind, dur) ==
  CASE kind = "ack" -> [m EXCEPT !.ackEnd = now + dur + AckTimeout]
    [] kind = "cts" -> [m EXCEPT !.ctsEnd = now + dur + AckTimeout]
    [] OTHER -> m

Exchange(s, kind, dur) ==
  [owner |-> s, awaits |-> kind, due |-> now + dur + (IF kind = "end" THEN 0 ELSE AckTimeout)]

\* MacLow::CancelAllEvents, for a sleep or a switch: the listener is forgotten,
\* but the event of EndTxNoAck was never stored, and stays.
Cancelled(e) == IF e.awaits = "end" THEN [e EXCEPT !.owner = 0] ELSE NoExchange

-----------------------------------------------------------------------------
(* DoRestartAccessTimeoutIfNeeded: the timer after the call, if it was t.    *)
(* It is moved only to an earlier time.                                     *)
First(d, m) ==
  {s \in Waiting(d, m) : \A r \in Waiting(d, m) : GetBackoffEndFor(s, d, m) <= GetBackoffEndFor(r, d, m)}

(* Mutant of Restarts: a timer that has fired is not scheduled again. *)
RestartsRunning(t, d, m) ==
  IF Waiting(d, m) = {} THEN {t}
  ELSE {IF t # Off /\ t > GetBackoffEndFor(s, d, m) THEN GetBackoffEndFor(s, d, m) ELSE t : s \in First(d, m)}

Restarts(t, d, m) ==
  IF Waiting(d, m) = {} THEN {t}
  ELSE {IF t = Off \/ t > GetBackoffEndFor(s, d, m) THEN GetBackoffEndFor(s, d, m) ELSE t : s \in First(d, m)}

Settle(d, m, t, e) ==
  /\ dcf' = d /\ med' = m /\ exch' = e
  /\ timer' \in Restarts(t, d, m)

\* After an internal collision an EDCA user doubles its contention window, or
\* resets it if it gives the frame up; a DCA user keeps it.
CollisionCw(s, cw) == IF s \in Edca THEN {CwMin, FailedCw(cw)} ELSE {cw}

\* The windows and backoffs that the users of the states of S may draw.
IsDraw(d, S, cw, draw) == \A s \in S : cw[s] \in CollisionCw(s, d[s].cw) /\ draw[s] <= cw[s]

Collided(d, S, cw, draw) ==
  [s \in States |-> IF s \in S THEN [d[s] EXCEPT !.cw = cw[s], !.slots = draw[s], !.start = now]
                    ELSE d[s]]

(* Mutant of NotifyAccessGranted: the request is not taken back. *)
GrantedStillAsks(d, s) == d

\* DcfState::NotifyAccessGranted
NotifyAccessGranted(d, s) == [d EXCEPT ![s].requested = FALSE]

(* DoGrantAccess and the restart of the timer that follows every call of    *)
(* it.  The highest ready state is granted, and its user starts an exchange *)
(* or has nothing to send; the other ready states collide.  The PHY drops a *)
(* frame that is sent while it sleeps.                                      *)
GrantAccess(d, m, t, e) ==
  \/ Ready(d, m) = {} /\ Settle(d, m, t, e)
  \/ \E s \in Ready(d, m) :
       LET losers == Ready(d, m) \ {s}
           granted == NotifyAccessGranted(d, s)
       IN /\ \A r \in Ready(d, m) : s <= r
          /\ \E cw \in [losers -> CwMin .. CwMax], draw \in [losers -> 0 .. CwMax] :
               /\ IsDraw(d, losers, cw, draw)
               /\ \/ /\ Silent
                     /\ Settle(Collided(granted, losers, cw, draw), m, t, e)
                  \/ \E kind \in {"ack", "cts", "end"}, dur \in FrameTimes :
                       LET d1 == IF sleeping THEN granted ELSE UpdateBackoff(granted, RxCut(m))
                           m1 == IF sleeping THEN m ELSE TxStarted(m, dur)
                       IN Settle(Collided(d1, losers, cw, draw),
                                 TimerStarted(m1, kind, dur), t, Exchange(s, kind, dur))

InternalCollision(d, s, m, t, e) ==
  \E cw \in [{s} -> CwMin .. CwMax], draw \in [{s} -> 0 .. CwMax] :
    /\ IsDraw(d, {s}, cw, draw)
    /\ Settle(Collided(d, {s}, cw, draw), m, t, e)

\* There is no backoff to wait for, and the medium is not idle.
MustDefer(s, d, m) ==
  m.txEnd <= now /\ d[s].slots = 0 /\ (IsBusy(m) \/ IsWithinAifs(s, m))

\* DcfManager::RequestReaccess (NETSYS), and DcfManager::RequestAccess, which
\* also draws a backoff when it must defer.
DoRequestReaccess(s, d0, m, t, e) ==
  LET d == Request(UpdateBackoff(d0, m), s) IN
  IF m.txEnd > now THEN InternalCollision(d, s, m, t, e) ELSE GrantAccess(d, m, t, e)

DoRequestAccess(s, d0, m, t, e) ==
  IF MustDefer(s, UpdateBackoff(d0, m), m)
  THEN \E n \in 0 .. d0[s].cw :
         Settle(StartBackoff(Request(UpdateBackoff(d0, m), s), s, d0[s].cw, n), m, t, e)
  ELSE DoRequestReaccess(s, d0, m, t, e)

(* Mutant of CanRequest: access is not denied in sleep mode. *)
CanRequestAsleep(s, d) ==
  /\ ~d[s].requested
  /\ requests < MaxRequests
  /\ requests' = requests + 1

\* A user asks only if it has not asked yet, and gets no answer in sleep mode.
CanRequest(s, d) ==
  /\ ~sleeping /\ ~d[s].requested
  /\ requests < MaxRequests
  /\ requests' = requests + 1

\* RestartAccessIfNeeded of the user, which may have nothing more to send.  Only
\* EdcaTxopN asks through RequestReaccess.
RestartAccessIfNeeded(s, d, m, t, e) ==
  \/ dcf' = d /\ med' = m /\ timer' = t /\ exch' = e /\ UNCHANGED requests
  \/ CanRequest(s, d) /\ s \in Edca /\ DoRequestReaccess(s, d, m, t, e)
  \/ CanRequest(s, d) /\ s \notin Edca /\ DoRequestAccess(s, d, m, t, e)

-----------------------------------------------------------------------------
Init ==
  /\ now = 0
  /\ \E draw \in [States -> 0 .. CwMin] :
       dcf = [s \in States |-> [slots |-> draw[s], start |-> 0, cw |-> CwMin,
                                requested |-> FALSE, token |-> FALSE]]
  /\ med = [rxStart |-> 0, rxDur |-> 0, rxEnd |-> 0, rxOk |-> TRUE, rxing |-> FALSE,
            txEnd |-> 0, busyEnd |-> 0, navEnd |-> 0, ackEnd |-> 0, ctsEnd |-> 0,
            switchEnd |-> 0]
  /\ timer = Off
  /\ sleeping = FALSE
  /\ waking = {}
  /\ exch = NoExchange
  /\ reply = Off
  /\ requests = 0 /\ disturbances = 0

\* Nothing runs inside the loop of NotifyWakeupNow.
Running == waking = {}

Disturb == /\ Running
           /\ disturbances < MaxDisturbances
           /\ disturbances' = disturbances + 1

Deadlines == {timer, reply, exch.due} \cup (IF med.rxing THEN {med.rxStart + med.rxDur} ELSE {})

\* The simulator moves its clock on when no event is left at this time.
Tick ==
  /\ Running
  /\ now \notin Deadlines
  /\ now < Horizon \/ \E t \in Deadlines : now < t
  /\ now' = now + 1
  /\ UNCHANGED <<dcf, med, timer, sleeping, waking, exch, reply, bounds>>

-----------------------------------------------------------------------------
(* Calls of the users *)

\* StartAccessIfNeeded of a user that is not in an exchange and queues a frame.
RequestAccess(s) ==
  /\ Running
  /\ exch.owner # s
  /\ CanRequest(s, dcf)
  /\ DoRequestAccess(s, dcf, med, timer, exch)
  /\ UNCHANGED <<now, sleeping, waking, reply, disturbances>>

AccessTimeout ==
  /\ Running
  /\ timer = now
  /\ GrantAccess(UpdateBackoff(dcf, med), med, Off, exch)
  /\ UNCHANGED <<now, sleeping, waking, reply, bounds>>

\* EdcaTxopN::SetToken: a token that is gained resets the backoff of every
\* state of the manager.
SetToken(s, cmd) ==
  /\ Disturb
  /\ s \in TokenStates
  /\ dcf[s].token # cmd
  /\ LET d == [dcf EXCEPT ![s].token = cmd] IN
     IF cmd THEN Settle(ResetBackoff(d), med, timer, exch)
     ELSE dcf' = d /\ UNCHANGED <<med, timer, exch>>
  /\ UNCHANGED <<now, sleeping, waking, reply, requests>>

-----------------------------------------------------------------------------
(* The exchange of this radio, driven by the timers of MacLow *)

\* NormalAckTimeout, BlockAckTimeout and CtsTimeout: MissedAck, MissedBlockAck
\* and MissedCts of the user.
AnswerTimeout ==
  /\ Running
  /\ exch.awaits \in {"ack", "cts"} /\ exch.due = now
  /\ LET s == exch.owner IN
     \E cw \in {FailedCw(dcf[s].cw), CwMin}, n \in 0 .. CwMax :
       /\ n <= cw
       /\ RestartAccessIfNeeded(s, StartBackoff(dcf, s, cw, n), med, timer, NoExchange)
  /\ UNCHANGED <<now, sleeping, waking, reply, disturbances>>

\* MacLow::EndTxNoAck: the user asks again through StartAccessIfNeeded.  With
\* no listener left the program stops here, on a null pointer.
EndTxNoAck ==
  /\ Running
  /\ exch.awaits = "end" /\ exch.due = now /\ exch.owner # 0
  /\ \E n \in 0 .. CwMin :
       \/ /\ dcf' = StartBackoff(dcf, exch.owner, CwMin, n)
          /\ exch' = NoExchange
          /\ UNCHANGED <<med, timer, requests>>
       \/ /\ CanRequest(exch.owner, dcf)
          /\ DoRequestAccess(exch.owner, StartBackoff(dcf, exch.owner, CwMin, n), med, timer, NoExchange)
  /\ UNCHANGED <<now, sleeping, waking, reply, disturbances>>

Transmit(kind, dur) ==
  /\ dcf' = UpdateBackoff(dcf, RxCut(med))
  /\ med' = TimerStarted(TxStarted(med, dur), kind, dur)

\* SIFS after a CTS: MacLow::SendDataAfterCts.
SendDataAfterCts ==
  /\ Running
  /\ exch.awaits = "data" /\ exch.due = now
  /\ \E dur \in FrameTimes :
       /\ Transmit("ack", dur)
       /\ exch' = Exchange(exch.owner, "ack", dur)
  /\ UNCHANGED <<now, timer, sleeping, waking, reply, bounds>>

\* SIFS after an ACK: the user sends its next frame in the same TXOP, or not.
StartNext ==
  /\ Running
  /\ exch.awaits = "next" /\ exch.due = now
  /\ \/ exch' = NoExchange /\ UNCHANGED <<dcf, med>>
     \/ \E kind \in {"ack", "cts"}, dur \in FrameTimes :
          /\ Transmit(kind, dur)
          /\ exch' = Exchange(exch.owner, kind, dur)
  /\ UNCHANGED <<now, timer, sleeping, waking, reply, bounds>>

\* SIFS after a frame for this station: its ACK, CTS or block ack leaves.
SendReply ==
  /\ Running
  /\ reply = now
  /\ reply' = Off
  /\ \E dur \in FrameTimes : Transmit("reply", dur)
  /\ UNCHANGED <<now, timer, sleeping, waking, exch, bounds>>

-----------------------------------------------------------------------------
(* Events of the medium, from the PHY and from MacLow *)

RxStart(dur) ==
  /\ Disturb
  /\ ~sleeping /\ ~med.rxing /\ med.txEnd <= now /\ med.switchEnd <= now
  /\ dcf' = UpdateBackoff(dcf, med)
  /\ med' = [med EXCEPT !.rxStart = now, !.rxDur = dur, !.rxing = TRUE]
  /\ UNCHANGED <<now, timer, sleeping, waking, exch, reply, requests>>

RxDue == Running /\ med.rxing /\ med.rxStart + med.rxDur = now

RxEndError ==
  /\ RxDue
  /\ RxErrors
  /\ med' = RxEnded(med, FALSE)
  /\ UNCHANGED <<now, dcf, timer, sleeping, waking, exch, reply, bounds>>

(* NotifyRxEndOk, then MacLow::ReceiveOk with the frame, m the medium with  *)
(* the reception ended.                                                     *)

\* A frame for another station: its NAV is taken only if it ends later.
RxOther(m) ==
  /\ \E dur \in {0} \cup Durations :
       /\ dcf' = UpdateBackoff(dcf, m)
       /\ med' = [m EXCEPT !.navEnd = MostRecent(@, now + dur)]
  /\ UNCHANGED <<timer, exch, reply, bounds>>

\* A frame to answer SIFS later.
RxForMe(m) ==
  /\ reply' = now + Sifs
  /\ med' = m
  /\ UNCHANGED <<dcf, timer, exch, bounds>>

RxCts(m) ==
  /\ exch.awaits = "cts"
  /\ med' = [m EXCEPT !.ctsEnd = now]
  /\ timer' \in Restarts(timer, dcf, med')
  /\ exch' = [exch EXCEPT !.awaits = "data", !.due = now + Sifs]
  /\ UNCHANGED <<dcf, reply, bounds>>

\* The ACK: GotAck or GotBlockAck of the user.  SIFS later it may send its next
\* fragment, or the next frame of an EDCA user.
RxAck(m) ==
  /\ exch.awaits = "ack"
  /\ LET s == exch.owner
         acked == [m EXCEPT !.ackEnd = now]
         next == [exch EXCEPT !.awaits = "next", !.due = now + Sifs]
     IN \E t \in Restarts(timer, dcf, acked) :
          \* more fragments
          \/ /\ dcf' = dcf /\ exch' = next
             /\ med' = acked /\ timer' = t /\ UNCHANGED requests
          \* the TXOP goes on
          \/ /\ s \in Edca
             /\ dcf' = [dcf EXCEPT ![s].cw = CwMin] /\ exch' \in {NoExchange, next}
             /\ med' = acked /\ timer' = t /\ UNCHANGED requests
          \* the user draws a backoff: none with the token (NETSYS)
          \/ \E n \in IF dcf[s].token THEN {0} ELSE 0 .. CwMin,
                e \in {NoExchange} \cup (IF s \in Edca THEN {next} ELSE {}) :
               RestartAccessIfNeeded(s, StartBackoff(dcf, s, CwMin, n), acked, t, e)
  /\ UNCHANGED <<reply, disturbances>>

RxEndOk ==
  /\ RxDue
  /\ LET m == RxEnded(med, TRUE) IN
     RxOther(m) \/ RxForMe(m) \/ RxCts(m) \/ RxAck(m)
  /\ UNCHANGED <<now, sleeping, waking>>

\* The energy on the medium, as SwitchMaybeToCcaBusy reports it, lasts at
\* least as long as reported before.
MaybeCcaBusyStart(dur) ==
  /\ Disturb
  /\ ~sleeping /\ med.busyEnd <= now + dur
  /\ dcf' = UpdateBackoff(dcf, med)
  /\ med' = [med EXCEPT !.busyEnd = now + dur]
  /\ UNCHANGED <<now, timer, sleeping, waking, exch, reply, requests>>

\* NavCounterResetCtsMissed: no frame followed the RTS that set the NAV.
NavReset ==
  /\ Disturb
  /\ ~sleeping /\ ~med.rxing /\ med.navEnd > now
  /\ LET m == [med EXCEPT !.navEnd = now] IN
     Settle(UpdateBackoff(dcf, med), m, timer, exch)
  /\ UNCHANGED <<now, sleeping, waking, reply, requests>>

-----------------------------------------------------------------------------
(* Power and channel *)

\* A sleep or a switch that was postponed to the end of a transmission runs
\* after the EndTxNoAck of that time; one scheduled on its own may run before.
AfterEndTx == exch.awaits = "end" /\ exch.due = now => PowerAtTxEnd

PhyIdle == ~sleeping /\ ~med.rxing /\ med.txEnd <= now /\ med.switchEnd <= now

\* The pending events of MacLow are cancelled with the exchange.
SwitchingStart(dur) ==
  /\ Disturb
  /\ CanPowerDown
  /\ ~sleeping /\ med.txEnd <= now /\ med.switchEnd <= now /\ AfterEndTx
  /\ med' = SwitchingStarted(med, dur)
  /\ dcf' = [s \in States |-> Forget(dcf[s])]
  /\ timer' = Off /\ exch' = Cancelled(exch) /\ reply' = Off
  /\ UNCHANGED <<now, sleeping, waking, requests>>

(* Mutant of Sleep: m_accessTimeout is not cancelled. *)
SleepKeepsTimer ==
  /\ Disturb
  /\ CanPowerDown
  /\ PhyIdle /\ AfterEndTx
  /\ sleeping' = TRUE
  /\ exch' = Cancelled(exch) /\ reply' = Off
  /\ UNCHANGED <<now, dcf, med, timer, waking, requests>>

\* A request survives the sleep, without the timer.
Sleep ==
  /\ Disturb
  /\ CanPowerDown
  /\ PhyIdle /\ AfterEndTx
  /\ sleeping' = TRUE
  /\ timer' = Off /\ exch' = Cancelled(exch) /\ reply' = Off
  /\ UNCHANGED <<now, dcf, med, waking, requests>>

\* NotifyWakeupNow begins, and then visits the states in their order.
Wakeup ==
  /\ Running
  /\ sleeping
  /\ sleeping' = FALSE
  /\ waking' = States
  /\ UNCHANGED <<now, dcf, med, timer, exch, reply, bounds>>

NotifyWakeUp(s) ==
  /\ s \in waking /\ \A r \in waking : s <= r
  /\ waking' = waking \ {s}
  /\ RestartAccessIfNeeded(s, [dcf EXCEPT ![s] = Forget(@)], med, timer, exch)
  /\ UNCHANGED <<now, sleeping, reply, disturbances>>

-----------------------------------------------------------------------------
Due == AnswerTimeout \/ EndTxNoAck \/ SendDataAfterCts \/ StartNext \/ SendReply
User ==
  \/ \E s \in States : RequestAccess(s) \/ \E cmd \in BOOLEAN : SetToken(s, cmd)
Medium ==
  \/ \E dur \in FrameTimes : RxStart(dur)
  \/ \E dur \in Durations : MaybeCcaBusyStart(dur) \/ SwitchingStart(dur)
  \/ RxEndError \/ RxEndOk \/ NavReset
  \/ Sleep \/ Wakeup \/ \E s \in States : NotifyWakeUp(s)

Next == Tick \/ AccessTimeout \/ User \/ Due \/ Medium

Spec == Init /\ [][Next]_vars

\* The simulator runs every event it has scheduled, and moves its clock on only
\* when none is left at the present time.
Fairness ==
  /\ WF_vars(Tick) /\ WF_vars(AccessTimeout) /\ WF_vars(Due)
  /\ WF_vars(RxEndOk \/ RxEndError)
  /\ WF_vars(\E s \in States : NotifyWakeUp(s))

FairSpec == Spec /\ Fairness

-----------------------------------------------------------------------------
(* Properties *)

\* The backoffs, windows and timers keep their types; m_backoffSlots is
\* unsigned in dcf-manager.h, so no update may take it below zero.
TypeOK ==
  /\ now \in Nat
  /\ dcf \in [States -> [slots : Nat, start : Nat, cw : CwMin .. CwMax,
                         requested : BOOLEAN, token : BOOLEAN]]
  /\ med \in [rxStart : Nat, rxDur : Nat, rxEnd : Nat, rxOk : BOOLEAN, rxing : BOOLEAN,
              txEnd : Nat, busyEnd : Nat, navEnd : Nat, ackEnd : Nat, ctsEnd : Nat,
              switchEnd : Nat]
  /\ timer \in Nat \cup {Off}
  /\ sleeping \in BOOLEAN
  /\ waking \subseteq States
  /\ exch \in [owner : 0 .. N, awaits : {"none", "ack", "cts", "end", "data", "next"},
               due : Nat \cup {Off}]
  /\ reply \in Nat \cup {Off}
  /\ requests \in Nat /\ disturbances \in Nat

\* Every pending event is due now or later, and nothing but a request is left
\* pending in sleep mode.
EventsAhead ==
  /\ \A t \in {timer, reply, exch.due} : t = Off \/ now <= t
  /\ sleeping => /\ timer = Off /\ reply = Off /\ exch = NoExchange
                 /\ ~med.rxing /\ waking = {} /\ CanPowerDown

\* A reception has begun after the last transmission ended and lasts until the
\* PHY reports its end.
Receiving ==
  med.rxing => /\ med.rxStart <= now /\ now <= med.rxStart + med.rxDur
               /\ Sifs < med.rxDur /\ med.txEnd <= now

\* While this radio awaits an answer, the end of its own frame, or the SIFS
\* before its next frame, some end that the manager has been told of keeps
\* every backoff from expiring.
ExchangeHeld ==
  /\ exch.awaits = "none" <=> exch = NoExchange
  /\ exch.awaits # "none" => exch.owner \in States /\ exch.due \in Nat
  /\ exch.awaits = "ack" => med.ackEnd = exch.due
  /\ exch.awaits = "cts" => med.ctsEnd = exch.due /\ med.ackEnd <= now
  /\ exch.awaits = "end" => med.txEnd = exch.due
  /\ exch.awaits = "data" => exch.due <= med.ctsEnd + Sifs
  /\ exch.awaits = "next" => exch.due <= med.ackEnd + Sifs
  /\ exch.awaits \in {"data", "next"} =>
       /\ exch.due <= now + Sifs /\ med.ackEnd < exch.due /\ med.txEnd <= now
       /\ med.rxing => exch.due < med.rxStart + med.rxDur

\* The same of the SIFS before the answer to a frame for this station, which
\* never coincides with the SIFS of an exchange.
ReplyHeld ==
  reply # Off =>
    /\ reply <= now + Sifs /\ reply <= RxAccessStart(med) /\ med.txEnd < reply
    /\ med.rxing => reply < med.rxStart + med.rxDur
    /\ exch.awaits \notin {"data", "next"}

\* The five together are inductive.
IInv == TypeOK /\ EventsAhead /\ Receiving /\ ExchangeHeld /\ ReplyHeld

\* A state whose access has been requested is never left without the timer
\* that will grant it (DcfManager::DoRestartAccessTimeoutIfNeeded); in
\* NotifyWakeupNow this holds of the states already visited.
AccessTimerRunning ==
  ~sleeping => \A s \in States \ waking : dcf[s].requested => timer # Off

\* UpdateBackoff may be called at any moment: it moves slots that have gone by
\* into the start of the backoff and leaves its end where it was.
BackoffEndKept ==
  \A s \in States :
    GetBackoffEndFor(s, UpdateBackoff(dcf, med), med) = GetBackoffEndFor(s, dcf, med)

\* DcfState::NotifyAccessGranted is called for s in this step; a request is
\* also dropped when the radio wakes up or switches its channel.
Granted(s) ==
  /\ dcf[s].requested /\ ~dcf'[s].requested
  /\ s \notin waking \ waking'
  /\ med'.switchEnd = med.switchEnd

\* No access is granted in the middle of a frame exchange of this radio, nor in
\* the SIFS before it answers a frame: DcfManager knows of both only through
\* the notifications of the PHY and of MacLow.
ExchangeAlone == [][\A s \in States : Granted(s) => exch.owner = 0 /\ reply = Off]_vars

\* The radio never starts a frame, of its own or in answer, before its last one
\* has ended (the assertions on the PHY state of SwitchToTx).
TxNeverOverlaps == [][med'.txEnd # med.txEnd => med.txEnd <= now]_vars

\* The assertion of NotifyAckTimeoutStartNow: the last ACK timeout is over when
\* the next one starts, also within a TXOP and after a CTS.
AckTimeoutOver == [][med'.ackEnd > med.ackEnd => med.ackEnd < now]_vars

\* What the manager learns, a NAV reset or a cancelled timeout included, never
\* moves the start of access into the past: it moves back at most to one SIFS
\* from now, so that no backoff appears to have expired in the past.
GrantStartNotRetroactive ==
  [][GetAccessGrantStart(med') >= Least(GetAccessGrantStart(med), now + Sifs)]_vars

\* RequestAccess and RequestReaccess deny access in sleep mode, and so must the
\* timer.
NoGrantInSleep == [][\A s \in States : Granted(s) => ~sleeping]_vars

\* Every request is granted, unless the radio goes to sleep or the manager loses its
\* timer; AccessTimerRunning says where it cannot.
RequestServed ==
  \A s \in States : dcf[s].requested ~> (~dcf[s].requested \/ sleeping \/ timer = Off)
=============================================================================
