-------------------------- MODULE DcfManagerSafety --------------------------
(***************************************************************************)
(* The invariant of DcfManager, and what it gives: grants are exclusive to  *)
(* the frame exchange of the radio, no backoff is lost, and no request is   *)
(* left without the access timer, if no token is given and every user that  *)
(* is granted access sends a frame.  Both conditions of the last are        *)
(* needed: the run dcf_token_stall has a token, and a silent winner of an   *)
(* internal collision leaves the loser without the timer.  Under no         *)
(* condition does the start of access move into the past.                   *)
(***************************************************************************)
EXTENDS DcfManagerProofs

Held == EventsAhead /\ Receiving /\ ExchangeHeld /\ ReplyHeld

\* A radio that sleeps or switches is never given the token: SetToken would start
\* the timer, and access be granted in its sleep.  It does so after the EndTxNoAck of
\* that time, which otherwise finds that its listener is gone.
QuietPower == CanPowerDown => TokenStates = {} /\ ~PowerAtTxEnd

Keeps(d) == \A s \in States : d[s].requested => dcf'[s].requested

GrantAlone == \A s \in States : Granted(s) => exch.owner = 0 /\ reply = Off /\ ~sleeping
TxApart == med'.txEnd # med.txEnd => med.txEnd <= now
AckOver == med'.ackEnd > med.ackEnd => med.ackEnd < now
StepSafe == GrantAlone /\ TxApart /\ AckOver

-----------------------------------------------------------------------------
\* Before a slot has gone by since the start of access no frame starts, and no
\* request is granted.
LEMMA NotStarted ==
  ASSUME NEW d, NEW m, NEW t, NEW e, Effect(d, m, t, e), ~(GetAccessGrantStart(m) + Slot <= now)
  PROVE  med' = m /\ exch' = e /\ Keeps(d)
  BY DEF Effect, Keeps

\* Once a slot has gone by since the start of access, the radio is in no frame
\* exchange and owes no answer.
LEMMA HeldLate ==
  ASSUME Typed, Held, GetAccessGrantStart(med) + Slot <= now
  PROVE  /\ exch = NoExchange /\ reply = Off /\ ~med.rxing
         /\ med.txEnd <= now /\ med.ackEnd < now
<1> USE TimingAssumption
<1>0. med \in Meds /\ now \in Nat /\ exch \in Exchs /\ reply \in Timers
  BY DEF Typed, Timely
<1>1. /\ RxAccessStart(med) \in Nat /\ RxAccessStart(med) < now
      /\ \A end \in {med.busyEnd, med.txEnd, med.navEnd, med.ackEnd, med.ctsEnd, med.switchEnd} :
           end + Sifs < now
  <2>1. /\ RxAccessStart(med) \in Nat /\ GetAccessGrantStart(med) \in Nat
        /\ RxAccessStart(med) <= GetAccessGrantStart(med)
        /\ \A end \in {med.busyEnd, med.txEnd, med.navEnd, med.ackEnd, med.ctsEnd, med.switchEnd} :
              end + Sifs <= GetAccessGrantStart(med)
    BY <1>0, GrantStart
  <2> QED BY <1>0, <2>1 DEF Meds
<1>2. med.txEnd < now /\ med.ackEnd < now /\ med.ctsEnd + Sifs < now /\ med.ackEnd + Sifs < now
  BY <1>0, <1>1 DEF Meds
<1>3. ~med.rxing
  BY <1>0, <1>1 DEF Held, Receiving, RxAccessStart, Meds
<1>4. reply = Off
  BY <1>0, <1>1 DEF Held, ReplyHeld, EventsAhead, Timers
<1>5. exch = NoExchange
  <2>1. SUFFICES ASSUME exch.awaits # "none" PROVE FALSE
    BY DEF Held, ExchangeHeld
  <2>2. exch.due \in Nat /\ now <= exch.due
    BY <2>1 DEF Held, ExchangeHeld, EventsAhead, Off
  <2>3. exch.awaits \in {"ack", "cts", "end", "data", "next"}
    BY <1>0, <2>1 DEF Exchs
  <2>4. med.ctsEnd \in Nat /\ med.ackEnd \in Nat /\ med.txEnd \in Nat
    BY <1>0 DEF Meds
  <2> QED BY <1>0, <1>2, <2>2, <2>3, <2>4 DEF Held, ExchangeHeld
<1> QED BY <1>0, <1>2, <1>3, <1>4, <1>5 DEF Meds

\* A request or a grant preserves the invariant, and what it grants is alone.
LEMMA StartHeld ==
  ASSUME Typed, Held, ~sleeping, NEW d, NEW t \in {timer, Off}, Effect(d, med, t, exch),
         UNCHANGED <<now, sleeping, reply>>
  PROVE  Held' /\ TxApart /\ AckOver
         /\ (~Keeps(d) => exch.owner = 0 /\ reply = Off)
<1> USE TimingAssumption
<1>0. med \in Meds /\ now \in Nat /\ exch \in Exchs /\ reply \in Timers /\ timer \in Timers
  BY DEF Typed, Timely
<1>1. timer' = Off \/ now <= timer'
  <2>1. timer' \in Timers /\ (timer' = t \/ now < timer')
    BY DEF Effect
  <2>2. t = Off \/ now <= t
    BY DEF Held, EventsAhead
  <2> QED BY <1>0, <2>1, <2>2 DEF Timers
<1>2. ~Keeps(d) => exch.owner = 0 /\ reply = Off
  <2>1. ~Keeps(d) => GetAccessGrantStart(med) + Slot <= now
    BY DEF Effect, Keeps
  <2> QED BY <2>1, HeldLate DEF NoExchange
<1>3. CASE med' = med /\ exch' = exch
  BY <1>0, <1>1, <1>2, <1>3
     DEF Held, EventsAhead, Receiving, ExchangeHeld, ReplyHeld, RxAccessStart, TxApart, AckOver, Meds
<1>4. CASE GetAccessGrantStart(med) + Slot <= now /\ Started(med)
  <2>1. /\ exch = NoExchange /\ reply = Off /\ ~med.rxing
        /\ med.txEnd <= now /\ med.ackEnd < now
    BY <1>4, HeldLate
  <2>2. PICK s \in States, kind \in {"ack", "cts", "end"}, dur \in FrameTimes :
          /\ med' = TimerStarted(TxStarted(med, dur), kind, dur)
          /\ exch' = Exchange(s, kind, dur)
    BY <1>4 DEF Started
  <2> DEFINE m == TxStarted(med, dur)
  <2>3. m \in Meds /\ ~m.rxing /\ m.txEnd = now + dur /\ m.ackEnd = med.ackEnd
    BY <1>0, Tx DEF Typed
  <2>4. med' = TimerStarted(m, kind, dur)
    BY <2>2
  <2> HIDE DEF m
  <2>5. /\ ~med'.rxing /\ med'.txEnd = now + dur
        /\ kind = "ack" => med'.ackEnd = now + dur + AckTimeout
        /\ kind = "cts" => med'.ctsEnd = now + dur + AckTimeout /\ med'.ackEnd = med.ackEnd
    BY <1>0, <2>3, <2>4, Answer
  <2>6. exch' = [owner |-> s, awaits |-> kind,
                 due |-> now + dur + (IF kind = "end" THEN 0 ELSE AckTimeout)]
    BY <2>2 DEF Exchange
  <2>7. dur \in Nat /\ exch'.due \in Nat /\ now <= exch'.due
    BY <1>0, <2>6
  <2>8. EventsAhead'
    BY <1>0, <1>1, <2>1, <2>7 DEF EventsAhead
  <2>9. Receiving' /\ ReplyHeld'
    BY <2>1, <2>5 DEF Receiving, ReplyHeld
  <2>10. ExchangeHeld'
    <3>1. exch' # NoExchange
      BY <2>6 DEF NoExchange
    <3>2. med.ackEnd <= now
      BY <1>0, <2>1 DEF Meds
    <3>3. exch'.awaits = kind /\ exch'.owner = s
      BY <2>6
    <3>4. CASE kind = "ack"
      BY <2>5, <2>6, <2>7, <3>1, <3>3, <3>4 DEF ExchangeHeld
    <3>5. CASE kind = "cts"
      BY <2>5, <2>6, <2>7, <3>1, <3>2, <3>3, <3>5 DEF ExchangeHeld
    <3>6. CASE kind = "end"
      BY <1>0, <2>5, <2>6, <2>7, <3>1, <3>3, <3>6 DEF ExchangeHeld
    <3> QED BY <3>4, <3>5, <3>6
  <2> QED BY <1>2, <2>1, <2>8, <2>9, <2>10 DEF Held, TxApart, AckOver
<1> QED BY <1>3, <1>4 DEF Effect

\* A step keeps the requests, or the radio is in no exchange.
LEMMA Alone ==
  ASSUME ~sleeping, NEW d, Keeps(d) \/ (exch.owner = 0 /\ reply = Off),
         \A s \in States : dcf[s].requested => d[s].requested \/ s \in waking \ waking'
  PROVE  GrantAlone
  BY DEF GrantAlone, Granted, Keeps

\* A radio that powers down after the end of its transmission has no event left
\* that CancelAllEvents does not cancel.
LEMMA AllCancelled ==
  ASSUME Typed, Held, QuietPower, CanPowerDown, AfterEndTx, med.txEnd <= now
  PROVE  Cancelled(exch) = NoExchange
<1>1. exch.awaits = "end" => exch.due = now
  <2>1. now \in Nat /\ med.txEnd \in Nat
    BY DEF Typed, Timely, Meds
  <2>2. exch.awaits = "end" => exch.due = med.txEnd /\ exch.due \in Nat
    BY DEF Held, ExchangeHeld
  <2>3. exch.due = Off \/ now <= exch.due
    BY DEF Held, EventsAhead
  <2> QED BY <2>1, <2>2, <2>3 DEF Off
<1> QED BY <1>1 DEF Cancelled, AfterEndTx, QuietPower

\* In sleep mode only the clock moves on, or the radio wakes up.
LEMMA Asleep ==
  ASSUME Typed, Held, sleeping, Next, QuietPower
  PROVE  Tick \/ Wakeup
<1> USE DEF Held, EventsAhead, bounds, Running
<1>1. now \in Nat /\ TokenStates = {}
  BY DEF Typed, QuietPower
<1>2. ~AccessTimeout /\ ~SendReply
  <2>1. timer # now /\ reply # now
    BY <1>1 DEF Off
  <2> QED BY <2>1 DEF AccessTimeout, SendReply
<1>3. ~AnswerTimeout /\ ~EndTxNoAck /\ ~SendDataAfterCts /\ ~StartNext
  <2>1. exch.awaits = "none"
    BY DEF NoExchange
  <2> QED BY <2>1 DEF AnswerTimeout, EndTxNoAck, SendDataAfterCts, StartNext
<1>4. ~RxEndOk /\ ~RxEndError /\ ~NavReset /\ ~Sleep
  BY DEF RxEndOk, RxEndError, RxDue, NavReset, Sleep, PhyIdle
<1>5. \A dur \in FrameTimes \cup Durations :
        ~RxStart(dur) /\ ~MaybeCcaBusyStart(dur) /\ ~SwitchingStart(dur)
  BY DEF RxStart, MaybeCcaBusyStart, SwitchingStart
<1>6. \A s \in States : ~RequestAccess(s) /\ ~NotifyWakeUp(s) /\ \A cmd \in BOOLEAN : ~SetToken(s, cmd)
  BY <1>1 DEF RequestAccess, CanRequest, NotifyWakeUp, SetToken
<1> QED BY <1>2, <1>3, <1>4, <1>5, <1>6 DEF Next, User, Due, Medium

\* A frame that is sent within an exchange, or in answer.
LEMMA TransmitHeld ==
  ASSUME Typed, NEW kind \in {"ack", "cts", "reply"}, NEW dur \in FrameTimes, Transmit(kind, dur)
  PROVE  /\ Keeps(dcf)
         /\ med'.txEnd = now + dur /\ ~med'.rxing
         /\ kind = "ack" => /\ med'.ackEnd = now + dur + AckTimeout
                            /\ med'.ctsEnd = med.ctsEnd
         /\ kind = "cts" => /\ med'.ctsEnd = now + dur + AckTimeout
                            /\ med'.ackEnd = med.ackEnd
         /\ kind = "reply" => med'.ackEnd = med.ackEnd /\ med'.ctsEnd = med.ctsEnd
<1> DEFINE m == TxStarted(med, dur)
<1>1. Timely(med) /\ now \in Nat /\ dcf \in Dcfs
  BY DEF Typed
<1>2. m \in Meds /\ ~m.rxing /\ m.txEnd = now + dur /\ m.ackEnd = med.ackEnd /\ m.ctsEnd = med.ctsEnd
  BY <1>1, Tx
<1>3. dcf' = UpdateBackoff(dcf, RxCut(med)) /\ med' = TimerStarted(m, kind, dur)
  BY DEF Transmit
<1> HIDE DEF m
<1>4. Keeps(dcf)
  BY <1>1, <1>3, Cut, Updated DEF Keeps
<1>5. /\ med'.rxing = m.rxing /\ med'.txEnd = m.txEnd
      /\ kind = "ack" => med'.ackEnd = now + dur + AckTimeout /\ med'.ctsEnd = m.ctsEnd
      /\ kind = "cts" => med'.ctsEnd = now + dur + AckTimeout /\ med'.ackEnd = m.ackEnd
      /\ kind = "reply" => med' = m
  BY <1>1, <1>2, <1>3, Answer
<1> QED BY <1>2, <1>4, <1>5

-----------------------------------------------------------------------------
(* One step *)

\* Every action preserves the invariant, and takes only the steps that the
\* safety properties allow.
LEMMA HeldStep ==
  ASSUME Typed, Held, Next, QuietPower
  PROVE  Held' /\ StepSafe
<1> USE TimingAssumption
<1>0. /\ now \in Nat /\ dcf \in Dcfs /\ med \in Meds /\ Timely(med) /\ timer \in Timers
      /\ exch \in Exchs /\ reply \in Timers /\ waking \subseteq States /\ requests \in Nat
  BY DEF Typed, Timely
<1>n. med.ackEnd \in Nat /\ med.txEnd \in Nat /\ ~(med.ackEnd > med.ackEnd)
  BY <1>0 DEF Meds
<1>h. EventsAhead /\ Receiving /\ ExchangeHeld /\ ReplyHeld
  BY DEF Held
<1>1. CASE Tick
  <2>1. /\ now' = now + 1 /\ timer # now /\ reply # now /\ exch.due # now
        /\ UNCHANGED <<dcf, med, timer, sleeping, waking, exch, reply>>
        /\ med.rxing => med.rxStart + med.rxDur # now
    BY <1>1 DEF Tick, Deadlines, bounds
  <2>2. EventsAhead'
    <3>1. ASSUME NEW t \in {timer, reply, exch.due} PROVE t = Off \/ now + 1 <= t
      <4>1. t \in Timers /\ (t = Off \/ now <= t) /\ t # now
        BY <1>0, <1>h, <2>1 DEF EventsAhead, Exchs
      <4> QED BY <1>0, <4>1 DEF Timers
    <3> QED BY <1>h, <2>1, <3>1 DEF EventsAhead
  <2>3. Receiving'
    BY <1>0, <1>h, <2>1 DEF Receiving, Meds
  <2>4. ExchangeHeld'
    <3>1. exch.awaits # "none" => exch.due \in Nat
      BY <1>h DEF ExchangeHeld
    <3> QED BY <1>0, <1>h, <2>1, <3>1 DEF ExchangeHeld, Meds
  <2>5. ReplyHeld'
    BY <1>0, <1>h, <2>1 DEF ReplyHeld, RxAccessStart, Meds, Timers
  <2>6. StepSafe
    BY <1>n, <2>1 DEF StepSafe, GrantAlone, Granted, TxApart, AckOver
  <2> QED BY <2>2, <2>3, <2>4, <2>5, <2>6 DEF Held
<1>2. CASE Wakeup
  <2>1. /\ sleeping' = FALSE /\ waking' = States
        /\ UNCHANGED <<now, dcf, med, timer, exch, reply>>
    BY <1>2 DEF Wakeup, bounds
  <2>2. Held'
    BY <1>h, <2>1 DEF Held, EventsAhead, Receiving, ExchangeHeld, ReplyHeld, RxAccessStart
  <2> QED BY <1>n, <2>1, <2>2 DEF StepSafe, GrantAlone, Granted, TxApart, AckOver
<1> SUFFICES ASSUME ~sleeping PROVE Held' /\ StepSafe
  BY <1>1, <1>2, Asleep
<1>3. CASE AccessTimeout
  <2> DEFINE u == UpdateBackoff(dcf, med)
  <2>1. u \in Dcfs /\ Off \in Timers /\ \A s \in States : u[s].requested = dcf[s].requested
    BY <1>0, Updated DEF Timers
  <2>2. GrantAccess(u, med, Off, exch) /\ UNCHANGED <<now, sleeping, waking, reply>>
    BY <1>3 DEF AccessTimeout
  <2> HIDE DEF u
  <2>3. Effect(u, med, Off, exch)
    BY <1>0, <2>1, <2>2, GrantEffect
  <2>4. Held' /\ TxApart /\ AckOver /\ (~Keeps(u) => exch.owner = 0 /\ reply = Off)
    BY <2>2, <2>3, StartHeld
  <2> QED BY <2>1, <2>4, Alone DEF StepSafe
<1>4. ASSUME NEW s \in States, RequestAccess(s) PROVE Held' /\ StepSafe
  <2>1. Effect(dcf, med, timer, exch) /\ UNCHANGED <<now, sleeping, waking, reply>>
    BY <1>0, <1>4, RequestEffect DEF RequestAccess
  <2>2. Held' /\ TxApart /\ AckOver /\ (~Keeps(dcf) => exch.owner = 0 /\ reply = Off)
    BY <2>1, StartHeld
  <2> QED BY <2>2, Alone DEF StepSafe
<1>5. ASSUME NEW s \in States, NEW cmd \in BOOLEAN, SetToken(s, cmd) PROVE Held' /\ StepSafe
  <2>1. /\ UNCHANGED <<now, med, exch, sleeping, waking, reply>>
        /\ Keeps(dcf)
        /\ timer' \in Timers /\ (timer' = timer \/ now < timer')
    <3> DEFINE d == [dcf EXCEPT ![s].token = cmd]
               r == ResetBackoff(d)
    <3>1. d \in Dcfs /\ \A q \in States : d[q].requested = dcf[q].requested
      BY <1>0 DEF Dcfs
    <3>2. UNCHANGED <<now, sleeping, waking, reply>>
      BY <1>5 DEF SetToken
    <3>3. CASE cmd
      <4>1. dcf' = r /\ med' = med /\ exch' = exch /\ timer' \in Restarts(timer, r, med)
        BY <1>5, <3>3 DEF SetToken, Settle
      <4> HIDE DEF d
      <4>2. r \in Dcfs /\ \A q \in States : r[q].requested = d[q].requested
        <5>1. ASSUME NEW q \in States
              PROVE  /\ r[q] \in [slots : Nat, start : Nat, cw : CwMin .. CwMax,
                                  requested : BOOLEAN, token : BOOLEAN]
                     /\ r[q].requested = d[q].requested
          <6>1. d[q] \in [slots : Nat, start : Nat, cw : CwMin .. CwMax,
                          requested : BOOLEAN, token : BOOLEAN]
            BY <3>1 DEF Dcfs
          <6> QED BY <1>0, <6>1 DEF ResetBackoff
        <5> QED BY <5>1 DEF ResetBackoff, Dcfs
      <4> HIDE DEF r
      <4> QED BY <1>0, <3>1, <3>2, <4>1, <4>2, Restarted DEF Keeps
    <3>4. CASE ~cmd
      <4>1. dcf' = d /\ UNCHANGED <<med, timer, exch>>
        BY <1>5, <3>4 DEF SetToken
      <4> HIDE DEF d
      <4> QED BY <1>0, <3>1, <3>2, <4>1 DEF Keeps
    <3> QED BY <3>3, <3>4
  <2>2. timer' = Off \/ now <= timer'
    BY <1>0, <1>h, <2>1 DEF EventsAhead, Timers
  <2>3. Held'
    BY <1>h, <2>1, <2>2 DEF Held, EventsAhead, Receiving, ExchangeHeld, ReplyHeld, RxAccessStart
  <2> QED BY <1>n, <2>1, <2>3, Alone DEF StepSafe, TxApart, AckOver
<1>6. CASE AnswerTimeout \/ EndTxNoAck
  <2> DEFINE s == exch.owner
  <2>0. /\ UNCHANGED <<now, sleeping, waking, reply>>
        /\ exch.awaits \in {"ack", "cts", "end"} /\ exch.due = now
    BY <1>6 DEF AnswerTimeout, EndTxNoAck
  <2>1. s \in States /\ ~(GetAccessGrantStart(med) + Slot <= now)
    <3>1. now \in {med.ackEnd, med.ctsEnd, med.txEnd}
      BY <1>h, <2>0 DEF ExchangeHeld
    <3>2. now + Sifs <= GetAccessGrantStart(med) /\ GetAccessGrantStart(med) \in Nat
      BY <1>0, <3>1, GrantStart
    <3> QED BY <1>0, <1>h, <2>0, <3>2 DEF ExchangeHeld
  <2>2. \E d \in Dcfs : /\ \A r \in States : d[r].requested = dcf[r].requested
                        /\ \/ dcf' = d /\ exch' = NoExchange /\ UNCHANGED <<med, timer>>
                           \/ Effect(d, med, timer, NoExchange)
    <3>1. CASE AnswerTimeout
      <4>1. PICK cw \in {FailedCw(dcf[s].cw), CwMin}, n \in 0 .. CwMax :
              RestartAccessIfNeeded(s, StartBackoff(dcf, s, cw, n), med, timer, NoExchange)
        BY <3>1 DEF AnswerTimeout
      <4>2. cw \in CwMin .. CwMax /\ n \in Nat
        <5>1. dcf[s].cw \in CwMin .. CwMax
          BY <1>0, <2>1 DEF Dcfs
        <5> QED BY <5>1, Failed
      <4> HIDE DEF s
      <4> DEFINE d == StartBackoff(dcf, s, cw, n)
      <4>3. d \in Dcfs /\ \A r \in States : d[r].requested = dcf[r].requested
        BY <1>0, <2>1, <4>2, BackoffStarted
      <4>4. RestartAccessIfNeeded(s, d, med, timer, NoExchange)
        BY <4>1
      <4> HIDE DEF d
      <4>5. Effect(d, med, timer, NoExchange)
        BY <1>0, <2>1, <4>3, <4>4, RestartEffect
      <4> QED BY <4>3, <4>5
    <3>2. CASE EndTxNoAck
      <4>1. PICK n \in 0 .. CwMin :
           \/ /\ dcf' = StartBackoff(dcf, s, CwMin, n)
              /\ exch' = NoExchange
              /\ UNCHANGED <<med, timer, requests>>
           \/ /\ CanRequest(s, dcf)
              /\ DoRequestAccess(s, StartBackoff(dcf, s, CwMin, n), med, timer, NoExchange)
        BY <3>2 DEF EndTxNoAck
      <4>2. n \in Nat /\ CwMin \in CwMin .. CwMax
        OBVIOUS
      <4> HIDE DEF s
      <4> DEFINE d == StartBackoff(dcf, s, CwMin, n)
      <4>3. d \in Dcfs /\ \A r \in States : d[r].requested = dcf[r].requested
        BY <1>0, <2>1, <4>2, BackoffStarted
      <4>4. \/ dcf' = d /\ exch' = NoExchange /\ UNCHANGED <<med, timer>>
            \/ DoRequestAccess(s, d, med, timer, NoExchange)
        BY <4>1
      <4> HIDE DEF d
      <4>5. DoRequestAccess(s, d, med, timer, NoExchange) => Effect(d, med, timer, NoExchange)
        BY <1>0, <2>1, <4>3, RequestEffect
      <4> QED BY <4>3, <4>4, <4>5
    <3> QED BY <1>6, <3>1, <3>2
  <2>3. /\ med' = med /\ exch' = NoExchange /\ Keeps(dcf)
        /\ timer' \in Timers /\ (timer' = timer \/ now < timer')
    BY <1>0, <2>1, <2>2, NotStarted DEF Effect, Keeps
  <2>4. timer' = Off \/ now <= timer'
    BY <1>0, <1>h, <2>3 DEF EventsAhead, Timers
  <2>5. Held'
    BY <1>h, <2>0, <2>3, <2>4
       DEF Held, EventsAhead, Receiving, ExchangeHeld, ReplyHeld, RxAccessStart, NoExchange
  <2> QED BY <1>n, <2>0, <2>3, <2>5, Alone DEF StepSafe, TxApart, AckOver
<1>7. CASE SendDataAfterCts \/ StartNext
  <2>0. /\ exch.awaits \in {"data", "next"} /\ exch.due = now
        /\ UNCHANGED <<now, timer, sleeping, waking, reply>>
    BY <1>7 DEF SendDataAfterCts, StartNext, bounds
  <2>1. /\ reply = Off /\ med.ackEnd < now /\ med.txEnd <= now /\ exch.owner \in States
    BY <1>h, <2>0 DEF ExchangeHeld, ReplyHeld
  <2>2. ASSUME NEW kind \in {"ack", "cts"}, NEW dur \in FrameTimes,
               Transmit(kind, dur), exch' = Exchange(exch.owner, kind, dur)
        PROVE  Held' /\ StepSafe
    <3>1. /\ Keeps(dcf) /\ med'.txEnd = now + dur /\ ~med'.rxing
          /\ kind = "ack" => med'.ackEnd = now + dur + AckTimeout
          /\ kind = "cts" => med'.ctsEnd = now + dur + AckTimeout /\ med'.ackEnd = med.ackEnd
      BY <2>2, TransmitHeld
    <3>2. /\ exch'.owner = exch.owner /\ exch'.awaits = kind /\ exch' # NoExchange
          /\ exch'.due = now + dur + AckTimeout /\ exch'.due \in Nat /\ now <= exch'.due
      <4>1. /\ exch' = [owner |-> exch.owner, awaits |-> kind,
                        due |-> now + dur + AckTimeout]
            /\ kind # "none"
        BY <2>2, Zenon DEF Exchange
      <4>2. dur \in Nat /\ now \in Nat /\ AckTimeout \in Nat
        BY <1>0, <2>2
      <4> QED BY <4>1, <4>2 DEF NoExchange
    <3>3. EventsAhead'
      BY <1>h, <2>0, <3>2 DEF EventsAhead
    <3>4. Receiving' /\ ReplyHeld'
      BY <2>0, <2>1, <3>1 DEF Receiving, ReplyHeld
    <3>5. ExchangeHeld'
      <4>1. med.ackEnd <= now
        BY <1>0, <1>n, <2>1
      <4> QED BY <2>0, <2>1, <3>1, <3>2, <4>1 DEF ExchangeHeld
    <3> QED BY <2>0, <2>1, <3>1, <3>3, <3>4, <3>5, Alone DEF Held, StepSafe, TxApart, AckOver
  <2>3. CASE exch' = NoExchange /\ UNCHANGED <<dcf, med>>
    <3>1. Held'
      BY <1>h, <2>0, <2>1, <2>3
         DEF Held, EventsAhead, Receiving, ExchangeHeld, ReplyHeld, NoExchange
    <3> QED BY <1>n, <2>0, <2>3, <3>1, Alone DEF StepSafe, TxApart, AckOver, Keeps
  <2> QED BY <1>7, <2>2, <2>3 DEF SendDataAfterCts, StartNext
<1>8. CASE SendReply
  <2>1. PICK dur \in FrameTimes : Transmit("reply", dur)
    BY <1>8 DEF SendReply
  <2>2. /\ reply = now /\ reply' = Off
        /\ UNCHANGED <<now, timer, sleeping, waking, exch>>
    BY <1>8 DEF SendReply, bounds
  <2>3. /\ Keeps(dcf) /\ med'.txEnd = now + dur /\ ~med'.rxing
        /\ med'.ackEnd = med.ackEnd /\ med'.ctsEnd = med.ctsEnd
    BY <2>1, TransmitHeld
  <2>4. med.txEnd < now /\ exch.awaits \notin {"data", "next"}
    BY <1>0, <1>h, <2>2 DEF ReplyHeld, Off
  <2>5. exch.awaits # "end"
    BY <1>0, <1>n, <1>h, <2>4 DEF ExchangeHeld, EventsAhead, Off
  <2>6. Held'
    BY <1>h, <2>2, <2>3, <2>4, <2>5 DEF Held, EventsAhead, Receiving, ExchangeHeld, ReplyHeld
  <2>7. med.txEnd <= now
    BY <1>0, <1>n, <2>4
  <2> QED BY <1>n, <2>2, <2>3, <2>6, <2>7, Alone DEF StepSafe, TxApart, AckOver
<1>9. ASSUME NEW dur \in FrameTimes, RxStart(dur) PROVE Held' /\ StepSafe
  <2>1. /\ med' = [med EXCEPT !.rxStart = now, !.rxDur = dur, !.rxing = TRUE]
        /\ dcf' = UpdateBackoff(dcf, med) /\ med.txEnd <= now
        /\ UNCHANGED <<now, timer, sleeping, waking, exch, reply>>
    BY <1>9 DEF RxStart
  <2>2. Keeps(dcf)
    BY <1>0, <2>1, Updated DEF Keeps
  <2>3. /\ med'.rxStart = now /\ med'.rxDur = dur /\ med'.rxing /\ med'.txEnd = med.txEnd
        /\ med'.ackEnd = med.ackEnd /\ med'.ctsEnd = med.ctsEnd
    BY <1>0, <2>1 DEF Meds
  <2>4. dur \in Nat /\ Sifs < dur
    OBVIOUS
  <2>5. EventsAhead' /\ Receiving'
    BY <1>0, <1>h, <2>1, <2>3, <2>4 DEF EventsAhead, Receiving
  <2>6. ExchangeHeld'
    <3>1. exch.awaits \in {"data", "next"} => exch.due < now + dur
      BY <1>0, <1>h, <2>4 DEF ExchangeHeld
    <3> QED BY <1>h, <2>1, <2>3, <3>1 DEF ExchangeHeld
  <2>7. ReplyHeld'
    <3>1. reply # Off => reply \in Nat
      BY <1>0 DEF Timers
    <3> QED BY <1>0, <1>h, <2>1, <2>3, <2>4, <3>1 DEF ReplyHeld, RxAccessStart
  <2> QED BY <1>n, <2>1, <2>2, <2>3, <2>5, <2>6, <2>7, Alone DEF Held, StepSafe, TxApart, AckOver
<1>10. ASSUME RxDue PROVE /\ reply = Off /\ exch.awaits \notin {"data", "next"}
                          /\ med.txEnd <= now
  <2>1. med.rxing /\ med.rxStart + med.rxDur = now
    BY <1>10 DEF RxDue
  <2>2. reply # Off => reply < now /\ now <= reply /\ reply \in Nat
    BY <1>0, <1>h, <2>1 DEF ReplyHeld, EventsAhead, Timers
  <2>3. exch.awaits \in {"data", "next"} => exch.due < now /\ now <= exch.due /\ exch.due \in Nat
    BY <1>h, <2>1 DEF ExchangeHeld, EventsAhead, Off
  <2> QED BY <1>0, <1>h, <2>1, <2>2, <2>3 DEF Receiving
<1>11. CASE RxEndError
  <2>1. /\ med' = RxEnded(med, FALSE) /\ RxDue
        /\ UNCHANGED <<now, dcf, timer, sleeping, waking, exch, reply>>
    BY <1>11 DEF RxEndError, bounds
  <2>2. /\ ~med'.rxing /\ med'.txEnd = med.txEnd
        /\ med'.ackEnd = med.ackEnd /\ med'.ctsEnd = med.ctsEnd
    BY <1>0, <2>1 DEF RxEnded, Meds
  <2>3. Held'
    BY <1>h, <1>10, <2>1, <2>2 DEF Held, EventsAhead, Receiving, ExchangeHeld, ReplyHeld
  <2> QED BY <1>n, <2>1, <2>2, <2>3, Alone DEF StepSafe, TxApart, AckOver, Keeps
<1>12. CASE RxEndOk
  <2> DEFINE m == RxEnded(med, TRUE)
  <2>1. /\ m \in Meds /\ ~m.rxing /\ m.txEnd = med.txEnd /\ m.rxEnd = now /\ m.rxOk
        /\ m.ackEnd = med.ackEnd /\ m.ctsEnd = med.ctsEnd
    BY <1>0 DEF RxEnded, Meds
  <2>2. RxOther(m) \/ RxForMe(m) \/ RxCts(m) \/ RxAck(m)
    BY <1>12 DEF RxEndOk
  <2>3. UNCHANGED <<now, sleeping, waking>> /\ RxDue
    BY <1>12 DEF RxEndOk
  <2>4. reply = Off /\ exch.awaits \notin {"data", "next"} /\ med.txEnd <= now
    BY <1>10, <2>3
  <2> HIDE DEF m
  <2>5. CASE RxOther(m)
    <3>1. PICK dur \in {0} \cup Durations :
            /\ dcf' = UpdateBackoff(dcf, m)
            /\ med' = [m EXCEPT !.navEnd = MostRecent(@, now + dur)]
      BY <2>5 DEF RxOther
    <3>2. UNCHANGED <<timer, exch, reply>>
      BY <2>5 DEF RxOther
    <3>3. /\ ~med'.rxing /\ med'.txEnd = med.txEnd
          /\ med'.ackEnd = med.ackEnd /\ med'.ctsEnd = med.ctsEnd
      BY <2>1, <3>1 DEF Meds
    <3>4. Keeps(dcf)
      BY <1>0, <2>1, <3>1, Updated DEF Keeps
    <3>5. Held'
      BY <1>h, <2>3, <2>4, <3>2, <3>3 DEF Held, EventsAhead, Receiving, ExchangeHeld, ReplyHeld
    <3> QED BY <1>n, <3>3, <3>4, <3>5, Alone DEF StepSafe, TxApart, AckOver
  <2>6. CASE RxForMe(m)
    <3>1. reply' = now + Sifs /\ med' = m /\ UNCHANGED <<dcf, timer, exch>>
      BY <2>6 DEF RxForMe
    <3>2. EventsAhead' /\ Receiving' /\ ExchangeHeld'
      BY <1>0, <1>h, <2>1, <2>3, <2>4, <3>1 DEF EventsAhead, Receiving, ExchangeHeld
    <3>3. ReplyHeld'
      <4>1. RxAccessStart(m) = now + Sifs /\ med.txEnd < now + Sifs
        BY <1>0, <1>n, <2>1, <2>4 DEF RxAccessStart
      <4>2. reply' <= RxAccessStart(m) /\ reply' <= now + Sifs
        BY <1>0, <3>1, <4>1
      <4> QED BY <2>1, <2>3, <2>4, <3>1, <4>1, <4>2 DEF ReplyHeld, RxAccessStart
    <3> QED BY <1>n, <2>1, <3>1, <3>2, <3>3, Alone DEF Held, StepSafe, TxApart, AckOver, Keeps
  <2>7. CASE RxCts(m)
    <3>1. /\ exch.awaits = "cts" /\ med' = [m EXCEPT !.ctsEnd = now]
          /\ timer' \in Restarts(timer, dcf, med')
          /\ exch' = [exch EXCEPT !.awaits = "data", !.due = now + Sifs]
          /\ UNCHANGED <<dcf, reply>>
      BY <2>7 DEF RxCts
    <3>2. /\ med' \in Meds /\ ~med'.rxing /\ med'.txEnd = med.txEnd
          /\ med'.ackEnd = med.ackEnd /\ med'.ctsEnd = now
      BY <1>0, <2>1, <3>1 DEF Meds
    <3>3. timer' \in Timers /\ (timer' = timer \/ now < timer')
      BY <1>0, <3>1, <3>2, Restarted
    <3>4. /\ exch'.awaits = "data" /\ exch'.due = now + Sifs /\ exch'.owner = exch.owner
          /\ exch' # NoExchange
      BY <1>0, <3>1 DEF Exchs, NoExchange
    <3>5. now + Sifs \in Nat /\ now < now + Sifs /\ exch.owner \in States /\ med.ackEnd <= now
      BY <1>0, <1>h, <3>1 DEF ExchangeHeld
    <3>6. EventsAhead' /\ Receiving' /\ ReplyHeld'
      <4>1. timer' = Off \/ now <= timer'
        BY <1>0, <1>h, <3>3 DEF EventsAhead, Timers
      <4> QED BY <1>0, <2>3, <2>4, <3>1, <3>2, <3>4, <3>5, <4>1 DEF EventsAhead, Receiving, ReplyHeld
    <3>7. ExchangeHeld'
      BY <1>0, <1>n, <2>3, <2>4, <3>2, <3>4, <3>5 DEF ExchangeHeld
    <3> QED BY <1>n, <3>1, <3>2, <3>6, <3>7, Alone DEF Held, StepSafe, TxApart, AckOver, Keeps
  <2>8. CASE RxAck(m)
    <3> DEFINE s == exch.owner
               acked == [m EXCEPT !.ackEnd = now]
               next == [exch EXCEPT !.awaits = "next", !.due = now + Sifs]
    <3>1. s \in States
      BY <1>h, <2>8 DEF RxAck, ExchangeHeld
    <3>2. /\ acked \in Meds /\ Timely(acked) /\ ~acked.rxing /\ acked.txEnd = med.txEnd
          /\ acked.ackEnd = now
      BY <1>0, <2>1 DEF Timely, Meds
    <3>3. /\ next.awaits = "next" /\ next.due = now + Sifs /\ next.owner = s /\ next # NoExchange
      BY <1>0 DEF Exchs, NoExchange
    <3>4. PICK t \in Restarts(timer, dcf, acked) :
          \/ /\ dcf' = dcf /\ exch' = next
             /\ med' = acked /\ timer' = t /\ UNCHANGED requests
          \/ /\ s \in Edca
             /\ dcf' = [dcf EXCEPT ![s].cw = CwMin] /\ exch' \in {NoExchange, next}
             /\ med' = acked /\ timer' = t /\ UNCHANGED requests
          \/ \E n \in IF dcf[s].token THEN {0} ELSE 0 .. CwMin,
                e \in {NoExchange} \cup (IF s \in Edca THEN {next} ELSE {}) :
               RestartAccessIfNeeded(s, StartBackoff(dcf, s, CwMin, n), acked, t, e)
      BY <2>8 DEF RxAck
    <3>5. UNCHANGED reply
      BY <2>8 DEF RxAck
    <3> HIDE DEF s, acked, next
    <3>6. t \in Timers /\ (t = timer \/ now < t)
      BY <1>0, <3>2, Restarted
    <3>7. CwMin \in CwMin .. CwMax /\ 0 .. CwMin \subseteq Nat /\ 0 \in Nat
      OBVIOUS
    <3>8. ASSUME NEW n \in Nat, NEW e \in {NoExchange, next},
                 RestartAccessIfNeeded(s, StartBackoff(dcf, s, CwMin, n), acked, t, e)
          PROVE  /\ Keeps(dcf) /\ med' = acked /\ exch' \in {NoExchange, next}
                 /\ timer' \in Timers /\ (timer' = t \/ now < timer')
      <4> DEFINE d == StartBackoff(dcf, s, CwMin, n)
      <4>1. d \in Dcfs /\ \A r \in States : d[r].requested = dcf[r].requested
        BY <1>0, <3>1, <3>7, BackoffStarted
      <4>2. RestartAccessIfNeeded(s, d, acked, t, e)
        BY <3>8
      <4> HIDE DEF d
      <4>3. Effect(d, acked, t, e)
        BY <1>0, <3>1, <3>2, <3>6, <4>1, <4>2, RestartEffect
      <4>4. ~(GetAccessGrantStart(acked) + Slot <= now)
        <5>1. acked.ackEnd + Sifs <= GetAccessGrantStart(acked) /\ GetAccessGrantStart(acked) \in Nat
          BY <3>2, GrantStart
        <5> QED BY <1>0, <3>2, <5>1
      <4>5. med' = acked /\ exch' = e /\ Keeps(d)
        BY <4>3, <4>4, NotStarted
      <4>6. timer' \in Timers /\ (timer' = t \/ now < timer')
        BY <4>3 DEF Effect
      <4> QED BY <4>1, <4>5, <4>6 DEF Keeps
    <3>9. /\ Keeps(dcf) /\ med' = acked /\ exch' \in {NoExchange, next}
          /\ timer' \in Timers /\ (timer' = t \/ now < timer')
      <4>1. CASE /\ dcf' = dcf /\ exch' = next
                 /\ med' = acked /\ timer' = t /\ UNCHANGED requests
        BY <3>6, <4>1 DEF Keeps
      <4>2. CASE /\ s \in Edca
                 /\ dcf' = [dcf EXCEPT ![s].cw = CwMin] /\ exch' \in {NoExchange, next}
                 /\ med' = acked /\ timer' = t /\ UNCHANGED requests
        <5>1. Keeps(dcf)
          BY <1>0, <3>1, <4>2 DEF Keeps, Dcfs
        <5> QED BY <3>6, <4>2, <5>1
      <4>3. CASE \E n \in IF dcf[s].token THEN {0} ELSE 0 .. CwMin,
                    e \in {NoExchange} \cup (IF s \in Edca THEN {next} ELSE {}) :
                      RestartAccessIfNeeded(s, StartBackoff(dcf, s, CwMin, n), acked, t, e)
        BY <3>7, <3>8, <4>3
      <4> QED BY <3>4, <4>1, <4>2, <4>3
    <3>10. /\ now + Sifs \in Nat /\ now < now + Sifs /\ now <= now + Sifs
      BY <1>0
    <3>11. timer' = Off \/ now <= timer'
      BY <1>0, <1>h, <3>6, <3>9 DEF EventsAhead, Timers
    <3>12. EventsAhead' /\ Receiving' /\ ReplyHeld'
      BY <1>0, <2>3, <2>4, <3>2, <3>3, <3>5, <3>9, <3>10, <3>11
         DEF EventsAhead, Receiving, ReplyHeld, NoExchange
    <3>13. ExchangeHeld'
      BY <1>0, <1>n, <2>3, <2>4, <3>1, <3>2, <3>3, <3>9, <3>10 DEF ExchangeHeld, NoExchange
    <3>14. TxApart /\ AckOver
      BY <1>0, <1>n, <2>4, <3>2, <3>9 DEF TxApart, AckOver
    <3> QED BY <3>9, <3>12, <3>13, <3>14, Alone DEF Held, StepSafe
  <2> QED BY <2>2, <2>5, <2>6, <2>7, <2>8
<1>13. CASE NavReset \/ \E dur \in Durations : MaybeCcaBusyStart(dur)
  <2>1. /\ UNCHANGED <<now, sleeping, waking, exch, reply>>
        /\ \E b \in Nat : med' \in {[med EXCEPT !.navEnd = b], [med EXCEPT !.busyEnd = b]}
        /\ dcf' = UpdateBackoff(dcf, med)
        /\ timer' = timer \/ timer' \in Restarts(timer, dcf', med')
    <3>1. CASE NavReset
      BY <1>0, <3>1 DEF NavReset, Settle
    <3>2. ASSUME NEW dur \in Durations, MaybeCcaBusyStart(dur)
          PROVE  /\ UNCHANGED <<now, sleeping, waking, exch, reply, timer>>
                 /\ med' = [med EXCEPT !.busyEnd = now + dur]
                 /\ dcf' = UpdateBackoff(dcf, med)
      BY <3>2 DEF MaybeCcaBusyStart
    <3>3. \A dur \in Durations : now + dur \in Nat
      BY <1>0
    <3> QED BY <1>13, <3>1, <3>2, <3>3
  <2>2. /\ med'.rxing = med.rxing /\ med'.rxStart = med.rxStart /\ med'.rxDur = med.rxDur
        /\ med'.rxEnd = med.rxEnd /\ med'.rxOk = med.rxOk /\ med'.txEnd = med.txEnd
        /\ med'.ackEnd = med.ackEnd /\ med'.ctsEnd = med.ctsEnd /\ med' \in Meds
    BY <1>0, <2>1 DEF Meds
  <2>3. dcf' \in Dcfs /\ Keeps(dcf)
    BY <1>0, <2>1, Updated DEF Keeps
  <2>4. timer' \in Timers /\ (timer' = timer \/ now < timer')
    BY <1>0, <2>1, <2>2, <2>3, Restarted
  <2>5. timer' = Off \/ now <= timer'
    BY <1>0, <1>h, <2>4 DEF EventsAhead, Timers
  <2>6. Held'
    BY <1>h, <2>1, <2>2, <2>5
       DEF Held, EventsAhead, Receiving, ExchangeHeld, ReplyHeld, RxAccessStart
  <2> QED BY <1>n, <2>2, <2>3, <2>6, Alone DEF StepSafe, TxApart, AckOver
<1>14. ASSUME NEW dur \in Durations, SwitchingStart(dur) PROVE Held' /\ StepSafe
  <2>1. /\ timer' = Off /\ exch' = NoExchange /\ reply' = Off
        /\ med' = SwitchingStarted(med, dur) /\ med.switchEnd <= now
        /\ UNCHANGED <<now, sleeping, waking>>
    BY <1>14, AllCancelled DEF SwitchingStart
  <2>2. /\ ~med'.rxing /\ med'.txEnd = med.txEnd /\ med'.ackEnd = Least(med.ackEnd, now)
        /\ med'.switchEnd = now + dur
    <3> DEFINE m == IF med.rxing THEN [RxEnded(med, TRUE) EXCEPT !.rxDur = now - med.rxStart] ELSE med
    <3>1. m \in Meds /\ ~m.rxing /\ m.txEnd = med.txEnd /\ m.ackEnd = med.ackEnd
      <4>1. med.rxing => now - med.rxStart \in Nat
        BY <1>0 DEF Timely, Meds
      <4> QED BY <1>0, <4>1 DEF RxEnded, Meds
    <3>2. med' = [m EXCEPT !.navEnd = Least(@, now), !.busyEnd = Least(@, now),
                           !.ackEnd = Least(@, now), !.ctsEnd = Least(@, now),
                           !.switchEnd = now + dur]
      BY <2>1 DEF SwitchingStarted
    <3> HIDE DEF m
    <3> QED BY <3>1, <3>2 DEF Meds
  <2>3. med'.switchEnd # med.switchEnd /\ ~(med'.ackEnd > med.ackEnd)
    BY <1>0, <1>n, <2>1, <2>2 DEF Least, Meds
  <2>4. Held'
    BY <2>1, <2>2 DEF Held, EventsAhead, Receiving, ExchangeHeld, ReplyHeld, NoExchange
  <2> QED BY <2>2, <2>3, <2>4 DEF StepSafe, GrantAlone, Granted, TxApart, AckOver
<1>15. CASE Sleep
  <2>1. /\ timer' = Off /\ exch' = NoExchange /\ reply' = Off /\ ~med.rxing
        /\ UNCHANGED <<now, dcf, med, waking>> /\ waking = {} /\ CanPowerDown
    BY <1>15, AllCancelled DEF Sleep, PhyIdle, Disturb, Running
  <2>2. Held'
    BY <2>1 DEF Held, EventsAhead, Receiving, ExchangeHeld, ReplyHeld, NoExchange
  <2> QED BY <1>n, <2>1, <2>2, Alone DEF StepSafe, TxApart, AckOver, Keeps
<1>16. ASSUME NEW s \in States, NotifyWakeUp(s) PROVE Held' /\ StepSafe
  <2> DEFINE d == [dcf EXCEPT ![s] = Forget(@)]
  <2>1. d \in Dcfs /\ \A r \in States : dcf[r].requested => d[r].requested \/ r = s
    BY <1>0, Forgotten DEF Dcfs
  <2>2. /\ RestartAccessIfNeeded(s, d, med, timer, exch)
        /\ UNCHANGED <<now, sleeping, reply>> /\ s \in waking \ waking'
    BY <1>16 DEF NotifyWakeUp
  <2> HIDE DEF d
  <2>3. Effect(d, med, timer, exch)
    BY <1>0, <2>1, <2>2, RestartEffect
  <2>4. Held' /\ TxApart /\ AckOver /\ (~Keeps(d) => exch.owner = 0 /\ reply = Off)
    BY <2>2, <2>3, StartHeld
  <2> QED BY <2>1, <2>2, <2>4, Alone DEF StepSafe
<1> QED
  BY <1>1, <1>2, <1>3, <1>4, <1>5, <1>6, <1>7, <1>8, <1>9, <1>11, <1>12, <1>13, <1>14, <1>15, <1>16
     DEF Next, User, Due, Medium

-----------------------------------------------------------------------------
(* The theorems *)

\* The invariant holds initially.
LEMMA HeldInit == Init => Held
<1> SUFFICES ASSUME Init PROVE Held
  OBVIOUS
<1>1. EventsAhead /\ Receiving /\ ExchangeHeld /\ ReplyHeld
  BY DEF Init, EventsAhead, Receiving, ExchangeHeld, ReplyHeld, NoExchange
<1> QED BY <1>1 DEF Held

\* A stuttering step keeps the invariant.
LEMMA HeldUnchanged == Held /\ UNCHANGED vars => Held'
<1> SUFFICES ASSUME Held, UNCHANGED vars PROVE Held'
  OBVIOUS
<1> QED BY DEF vars, Held, EventsAhead, Receiving, ExchangeHeld, ReplyHeld, RxAccessStart

\* The inductive invariant holds in every behaviour.
LEMMA SpecHeld == QuietPower /\ Spec => [](Typed /\ Held)
<1> SUFFICES ASSUME QuietPower PROVE Spec => [](Typed /\ Held)
  OBVIOUS
<1>1. Init => Typed /\ Held
  BY TypedInit, HeldInit
<1>2. Typed /\ Held /\ [Next]_vars => (Typed /\ Held)'
  BY TypedStep, HeldStep, HeldUnchanged
<1> QED BY <1>1, <1>2, PTL DEF Spec

\* Every frame exchange, reception and pending answer is covered by an end that
\* DcfManager has been told of, whatever the durations, if no token is given
\* to a radio that may sleep.
THEOREM InvariantHolds == QuietPower /\ Spec => []IInv
<1>1. Typed /\ Held => IInv
  BY TypedTypeOK DEF Held, IInv
<1> QED BY <1>1, SpecHeld, PTL

\* No access is granted in the middle of a frame exchange of this radio, nor in
\* the SIFS before it answers a frame.
THEOREM GrantsAlone == QuietPower /\ Spec => ExchangeAlone
<1> SUFFICES ASSUME QuietPower PROVE Spec => ExchangeAlone
  OBVIOUS
<1>1. Typed /\ Held /\ [Next]_vars => [\A s \in States : Granted(s) => exch.owner = 0 /\ reply = Off]_vars
  BY HeldStep DEF StepSafe, GrantAlone
<1> QED BY <1>1, SpecHeld, PTL DEF Spec, ExchangeAlone

\* The radio never starts a frame before its last one has ended.
THEOREM TxApartAlways == QuietPower /\ Spec => TxNeverOverlaps
<1> SUFFICES ASSUME QuietPower PROVE Spec => TxNeverOverlaps
  OBVIOUS
<1>1. Typed /\ Held /\ [Next]_vars => [med'.txEnd # med.txEnd => med.txEnd <= now]_vars
  BY HeldStep DEF StepSafe, TxApart
<1> QED BY <1>1, SpecHeld, PTL DEF Spec, TxNeverOverlaps

\* The assertion of NotifyAckTimeoutStartNow never fails.
THEOREM AckTimeoutsApart == QuietPower /\ Spec => AckTimeoutOver
<1> SUFFICES ASSUME QuietPower PROVE Spec => AckTimeoutOver
  OBVIOUS
<1>1. Typed /\ Held /\ [Next]_vars => [med'.ackEnd > med.ackEnd => med.ackEnd < now]_vars
  BY HeldStep DEF StepSafe, AckOver
<1> QED BY <1>1, SpecHeld, PTL DEF Spec, AckTimeoutOver

\* A radio that sleeps grants no access, by a request or by the timer, if the
\* token is not given to it.
THEOREM SleepGrantsNothing == QuietPower /\ Spec => NoGrantInSleep
<1> SUFFICES ASSUME QuietPower PROVE Spec => NoGrantInSleep
  OBVIOUS
<1>1. Typed /\ Held /\ [Next]_vars => [\A s \in States : Granted(s) => ~sleeping]_vars
  BY HeldStep DEF StepSafe, GrantAlone
<1> QED BY <1>1, SpecHeld, PTL DEF Spec, NoGrantInSleep

\* UpdateBackoff never loses or adds a slot, however often it is called.
THEOREM BackoffsKept == Spec => []BackoffEndKept
<1>1. Typed => BackoffEndKept
  BY EndKept DEF Typed, Timely, BackoffEndKept
<1>2. Typed /\ [Next]_vars => Typed'
  BY TypedStep
<1> QED BY <1>1, <1>2, TypedInit, PTL DEF Spec

-----------------------------------------------------------------------------
\* The two conditions.
GrantsUsed == ~Silent /\ TokenStates = {}

NoTokens == \A s \in States : ~dcf[s].token

Armed == \A s \in States : dcf'[s].requested => timer' # Off

TokensKept(d) == \A s \in States : dcf'[s].token = d[s].token

-----------------------------------------------------------------------------
\* The timer runs after the call if every requested backoff has still to end.
LEMMA WaitingArmed ==
  ASSUME NEW d \in Dcfs, NEW m \in Meds, NEW t \in Timers, NEW e, now \in Nat,
         \A s \in States : d[s].requested => GetBackoffEndFor(s, d, m) > now,
         Settle(d, m, t, e)
  PROVE  Armed
<1>1. dcf' = d /\ timer' \in Restarts(t, d, m)
  BY DEF Settle
<1>2. ASSUME NEW s \in States, d[s].requested PROVE timer' # Off
  BY <1>1, <1>2, Restarted DEF Waiting
<1> QED BY <1>1, <1>2 DEF Armed

\* So it does before the start of access.
LEMMA BusyArmed ==
  ASSUME NEW d \in Dcfs, NEW m \in Meds, NEW t \in Timers, NEW e, now \in Nat,
         now < GetAccessGrantStart(m),
         Settle(d, m, t, e)
  PROVE  Armed
<1>1. ASSUME NEW s \in States PROVE GetBackoffEndFor(s, d, m) > now
  BY Backoff, GrantStart, TimingAssumption
<1> QED BY <1>1, WaitingArmed

\* DoGrantAccess leaves no request without the timer: the frame of the winner
\* keeps the other backoffs from having expired.
LEMMA GrantArmed ==
  ASSUME NEW d \in Dcfs, NEW m, Timely(m), NEW t \in Timers, NEW e, now \in Nat,
         ~Silent, ~sleeping, GrantAccess(d, m, t, e)
  PROVE  Armed
<1>0. m \in Meds
  BY DEF Timely
<1>1. CASE Ready(d, m) = {} /\ Settle(d, m, t, e)
  <2>1. ASSUME NEW s \in States, d[s].requested PROVE GetBackoffEndFor(s, d, m) > now
    <3>1. GetBackoffEndFor(s, d, m) \in Nat
      BY <1>0, Backoff
    <3>2. ~(GetBackoffEndFor(s, d, m) <= now)
      BY <1>1, <2>1 DEF Ready
    <3> QED BY <3>1, <3>2
  <2> QED BY <1>0, <1>1, <2>1, WaitingArmed
<1>2. CASE Ready(d, m) # {}
  <2>1. PICK s \in Ready(d, m) :
          LET losers == Ready(d, m) \ {s}
              granted == [d EXCEPT ![s].requested = FALSE]
          IN \E cw \in [losers -> CwMin .. CwMax], draw \in [losers -> 0 .. CwMax] :
               /\ IsDraw(d, losers, cw, draw)
               /\ \/ /\ Silent
                     /\ Settle(Collided(granted, losers, cw, draw), m, t, e)
                  \/ \E kind \in {"ack", "cts", "end"}, dur \in FrameTimes :
                       LET d1 == IF sleeping THEN granted ELSE UpdateBackoff(granted, RxCut(m))
                           m1 == IF sleeping THEN m ELSE TxStarted(m, dur)
                       IN Settle(Collided(d1, losers, cw, draw),
                                 TimerStarted(m1, kind, dur), t, Exchange(s, kind, dur))
    BY <1>2 DEF GrantAccess, NotifyAccessGranted
  <2> DEFINE losers == Ready(d, m) \ {s}
             granted == [d EXCEPT ![s].requested = FALSE]
  <2>2. granted \in Dcfs /\ losers \in SUBSET States
    BY DEF Dcfs, Ready
  <2> HIDE DEF losers, granted
  <2>3. PICK cw \in [losers -> CwMin .. CwMax], draw \in [losers -> 0 .. CwMax] :
             \E kind \in {"ack", "cts", "end"}, dur \in FrameTimes :
                LET d1 == IF sleeping THEN granted ELSE UpdateBackoff(granted, RxCut(m))
                    m1 == IF sleeping THEN m ELSE TxStarted(m, dur)
                IN Settle(Collided(d1, losers, cw, draw),
                          TimerStarted(m1, kind, dur), t, Exchange(s, kind, dur))
    BY <2>1 DEF losers, granted
  <2>4. PICK kind \in {"ack", "cts", "end"}, dur \in FrameTimes :
           Settle(Collided(UpdateBackoff(granted, RxCut(m)), losers, cw, draw),
                  TimerStarted(TxStarted(m, dur), kind, dur), t, Exchange(s, kind, dur))
    BY <2>3
  <2> DEFINE d1 == UpdateBackoff(granted, RxCut(m))
             c == Collided(d1, losers, cw, draw)
             m1 == TxStarted(m, dur)
             m2 == TimerStarted(m1, kind, dur)
  <2>5. d1 \in Dcfs /\ m1 \in Meds /\ m1.txEnd = now + dur
    BY <2>2, Cut, Tx, Updated
  <2>6. Settle(c, m2, t, Exchange(s, kind, dur))
    BY <2>4
  <2> HIDE DEF d1, m1
  <2>7. c \in Dcfs
    BY <2>2, <2>5, CollidedStates
  <2>8. m2 \in Meds /\ m2.txEnd = m1.txEnd
    BY <2>5, Answer
  <2> HIDE DEF c, m2
  <2>9. now < GetAccessGrantStart(m2)
    <3>1. now + dur + Sifs <= GetAccessGrantStart(m2) /\ GetAccessGrantStart(m2) \in Nat
      BY <2>5, <2>8, GrantStart
    <3> QED BY <3>1, TimingAssumption
  <2> QED BY <2>6, <2>7, <2>8, <2>9, BusyArmed
<1> QED BY <1>1, <1>2 DEF GrantAccess

\* RequestReaccess leaves no request without the timer.
LEMMA ReaccessArmed ==
  ASSUME NEW d0 \in Dcfs, NEW m, Timely(m), NEW t \in Timers, NEW e, now \in Nat, NEW s \in States,
         ~Silent, ~sleeping, DoRequestReaccess(s, d0, m, t, e)
  PROVE  Armed
<1> DEFINE d == Request(UpdateBackoff(d0, m), s)
<1>1. m \in Meds
  BY DEF Timely
<1>2. d \in Dcfs
  BY <1>1, Requesting
<1>3. \/ m.txEnd > now /\ InternalCollision(d, s, m, t, e)
      \/ GrantAccess(d, m, t, e)
  BY DEF DoRequestReaccess
<1> HIDE DEF d
<1>4. CASE m.txEnd > now /\ InternalCollision(d, s, m, t, e)
  <2>1. PICK cw \in [{s} -> CwMin .. CwMax], draw \in [{s} -> 0 .. CwMax] :
          Settle(Collided(d, {s}, cw, draw), m, t, e)
    BY <1>4 DEF InternalCollision
  <2> DEFINE c == Collided(d, {s}, cw, draw)
  <2>2. c \in Dcfs
    <3>1. {s} \in SUBSET States
      OBVIOUS
    <3> QED BY <1>2, <3>1, CollidedStates
  <2>3. Settle(c, m, t, e)
    BY <2>1
  <2> HIDE DEF c
  <2>4. now < GetAccessGrantStart(m)
    <3>1. m.txEnd + Sifs <= GetAccessGrantStart(m) /\ GetAccessGrantStart(m) \in Nat /\ m.txEnd \in Nat
      BY <1>1, GrantStart DEF Meds
    <3> QED BY <1>4, <3>1, TimingAssumption
  <2> QED BY <1>1, <2>2, <2>3, <2>4, BusyArmed
<1>5. CASE GrantAccess(d, m, t, e)
  BY <1>2, <1>5, GrantArmed
<1> QED BY <1>3, <1>4, <1>5

\* RequestAccess draws a backoff when it defers, and without the token that
\* backoff has still to end.
LEMMA RequestArmed ==
  ASSUME NEW d0 \in Dcfs, NEW m, Timely(m), NEW t \in Timers, NEW e, now \in Nat, NEW s \in States,
         ~Silent, ~sleeping, ~d0[s].token, m.rxing => now <= m.rxStart + m.rxDur,
         DoRequestAccess(s, d0, m, t, e)
  PROVE  Armed
<1>1. CASE MustDefer(s, UpdateBackoff(d0, m), m)
  <2> DEFINE d == Request(UpdateBackoff(d0, m), s)
  <2>0. m \in Meds /\ d0[s].cw \in CwMin .. CwMax
    BY DEF Timely, Dcfs
  <2>1. PICK n \in 0 .. d0[s].cw : Settle(StartBackoff(d, s, d0[s].cw, n), m, t, e)
    BY <1>1 DEF DoRequestAccess
  <2>2. n \in Nat
    OBVIOUS
  <2>3. d \in Dcfs /\ ~d[s].token /\ d[s].requested
    <3>1. d \in Dcfs /\ d[s].token = d0[s].token
      BY <2>0, Requesting
    <3>2. d[s].requested
      BY <2>0, Updated DEF Request, Dcfs
    <3> QED BY <3>1, <3>2
  <2> HIDE DEF d
  <2> DEFINE b == StartBackoff(d, s, d0[s].cw, n)
  <2>4. b \in Dcfs /\ ~b[s].token /\ b[s].requested
    BY <2>0, <2>2, <2>3, BackoffStarted
  <2>5. dcf' = b /\ timer' \in Restarts(t, b, m)
    BY <2>1 DEF Settle
  <2> HIDE DEF b
  <2>6. now < GetAccessGrantStart(m) + Aifsn[s] * Slot
    <3>0. /\ RxAccessStart(m) \in Nat /\ GetAccessGrantStart(m) \in Nat
          /\ RxAccessStart(m) <= GetAccessGrantStart(m)
          /\ m.navEnd + Sifs <= GetAccessGrantStart(m)
          /\ m.busyEnd + Sifs <= GetAccessGrantStart(m)
      BY <2>0, GrantStart
    <3>1. Aifsn[s] * Slot \in Nat
      BY SizeAssumption, TimingAssumption, ProductNat
    <3>2. CASE IsWithinAifs(s, m)
      BY <3>2 DEF IsWithinAifs
    <3>3. CASE m.rxing
      <4>1. now < RxAccessStart(m)
        BY <2>0, <3>3, TimingAssumption DEF RxAccessStart, Meds
      <4> QED BY <3>0, <3>1, <4>1
    <3>4. CASE m.navEnd > now \/ m.busyEnd > now
      <4>1. m.navEnd \in Nat /\ m.busyEnd \in Nat
        BY <2>0 DEF Meds
      <4> QED BY <3>0, <3>1, <3>4, <4>1, TimingAssumption
    <3>5. m.txEnd <= now /\ m.txEnd \in Nat
      BY <1>1, <2>0 DEF MustDefer, Meds
    <3> QED BY <1>1, <3>2, <3>3, <3>4, <3>5 DEF MustDefer, IsBusy
  <2>7. s \in Waiting(b, m)
    <3>1. Ifs(s, b) = Aifsn[s] * Slot
      BY <2>4 DEF Ifs
    <3>2. /\ GetAccessGrantStart(m) + Ifs(s, b) <= GetBackoffStartFor(s, b, m)
          /\ GetBackoffStartFor(s, b, m) <= GetBackoffEndFor(s, b, m)
          /\ GetBackoffStartFor(s, b, m) \in Nat /\ GetBackoffEndFor(s, b, m) \in Nat
          /\ Ifs(s, b) \in Nat /\ GetAccessGrantStart(m) \in Nat
      BY <2>0, <2>4, Backoff, GrantStart
    <3> QED BY <2>4, <2>6, <3>1, <3>2 DEF Waiting
  <2> QED BY <2>0, <2>4, <2>5, <2>7, Restarted DEF Armed
<1>2. CASE ~MustDefer(s, UpdateBackoff(d0, m), m)
  BY <1>2, ReaccessArmed DEF DoRequestAccess
<1> QED BY <1>1, <1>2

\* RestartAccessIfNeeded asks, with the timer, or changes nothing.
LEMMA RestartArmed ==
  ASSUME NEW d \in Dcfs, NEW m, Timely(m), NEW t \in Timers, NEW e, now \in Nat, NEW s \in States,
         ~Silent, ~d[s].token, m.rxing => now <= m.rxStart + m.rxDur,
         RestartAccessIfNeeded(s, d, m, t, e)
  PROVE  Armed \/ (dcf' = d /\ timer' = t)
<1>1. CASE CanRequest(s, d) /\ DoRequestReaccess(s, d, m, t, e)
  BY <1>1, ReaccessArmed DEF CanRequest
<1>2. CASE CanRequest(s, d) /\ DoRequestAccess(s, d, m, t, e)
  BY <1>2, RequestArmed DEF CanRequest
<1> QED BY <1>1, <1>2 DEF RestartAccessIfNeeded

-----------------------------------------------------------------------------
(* One step *)

\* A step that keeps the timer running, asks for nothing and gives no token.
LEMMA ArmedKept ==
  ASSUME AccessTimerRunning, NoTokens, ~sleeping, waking = {},
         \A s \in States : /\ dcf'[s].requested => dcf[s].requested
                           /\ dcf'[s].token = dcf[s].token,
         timer # Off => timer' # Off
  PROVE  AccessTimerRunning' /\ NoTokens'
  BY DEF AccessTimerRunning, NoTokens

\* A step that keeps the tokens gives none.
LEMMA NoTokensNow ==
  ASSUME NoTokens, NEW d, TokensKept(d), \A s \in States : d[s].token = dcf[s].token
  PROVE  NoTokens'
  BY DEF NoTokens, TokensKept

\* Every action leaves the timer running for the requests that are left.
LEMMA TimerStep ==
  ASSUME Typed, Held, NoTokens, AccessTimerRunning, GrantsUsed, QuietPower, Next
  PROVE  AccessTimerRunning' /\ NoTokens'
<1>0. /\ now \in Nat /\ dcf \in Dcfs /\ med \in Meds /\ Timely(med) /\ timer \in Timers
      /\ exch \in Exchs /\ waking \subseteq States /\ requests \in Nat
      /\ ~Silent /\ TokenStates = {} /\ QuietPower
  BY DEF Typed, Timely, GrantsUsed
<1>h. EventsAhead /\ Receiving /\ ExchangeHeld /\ (med.rxing => now <= med.rxStart + med.rxDur)
  BY DEF Held, Receiving
<1>1. CASE Tick
  BY <1>1 DEF Tick, bounds, AccessTimerRunning, NoTokens
<1>2. CASE Wakeup
  BY <1>2 DEF Wakeup, bounds, AccessTimerRunning, NoTokens
<1> SUFFICES ASSUME ~sleeping PROVE AccessTimerRunning' /\ NoTokens'
  BY <1>0, <1>1, <1>2, Asleep
<1>3. CASE AccessTimeout
  <2> DEFINE u == UpdateBackoff(dcf, med)
  <2>1. u \in Dcfs /\ Off \in Timers /\ \A s \in States : u[s].token = dcf[s].token
    BY <1>0, Updated DEF Timers
  <2>2. GrantAccess(u, med, Off, exch)
    BY <1>3 DEF AccessTimeout
  <2> HIDE DEF u
  <2>3. Effect(u, med, Off, exch) /\ Armed
    BY <1>0, <2>1, <2>2, GrantEffect, GrantArmed
  <2> QED BY <2>1, <2>3, NoTokensNow DEF Effect, TokensKept, Armed, AccessTimerRunning
<1>4. ASSUME NEW s \in States, RequestAccess(s) PROVE AccessTimerRunning' /\ NoTokens'
  <2>1. DoRequestAccess(s, dcf, med, timer, exch)
    BY <1>4 DEF RequestAccess
  <2>2. Effect(dcf, med, timer, exch) /\ Armed
    BY <1>0, <1>h, <2>1, RequestEffect, RequestArmed DEF NoTokens
  <2> QED BY <2>2, NoTokensNow DEF Effect, TokensKept, Armed, AccessTimerRunning
<1>5. ASSUME NEW s \in States, NEW cmd \in BOOLEAN, SetToken(s, cmd) PROVE FALSE
  BY <1>0, <1>5 DEF SetToken
<1>6. CASE AnswerTimeout \/ EndTxNoAck
  <2> DEFINE s == exch.owner
  <2>0. waking = {} /\ exch.awaits \in {"ack", "cts", "end"}
    BY <1>6 DEF AnswerTimeout, EndTxNoAck, Running
  <2>1. s \in States
    BY <1>h, <2>0 DEF ExchangeHeld
  <2>2. \E d \in Dcfs : /\ \A r \in States : /\ d[r].requested = dcf[r].requested
                                             /\ d[r].token = dcf[r].token
                        /\ TokensKept(d)
                        /\ Armed \/ (dcf' = d /\ timer' = timer)
    <3>1. CASE AnswerTimeout
      <4>1. PICK cw \in {FailedCw(dcf[s].cw), CwMin}, n \in 0 .. CwMax :
              RestartAccessIfNeeded(s, StartBackoff(dcf, s, cw, n), med, timer, NoExchange)
        BY <3>1 DEF AnswerTimeout
      <4>2. cw \in CwMin .. CwMax /\ n \in Nat
        <5>1. dcf[s].cw \in CwMin .. CwMax
          BY <1>0, <2>1 DEF Dcfs
        <5> QED BY <5>1, Failed, TimingAssumption
      <4> HIDE DEF s
      <4> DEFINE d == StartBackoff(dcf, s, cw, n)
      <4>3. d \in Dcfs /\ \A r \in States : d[r].requested = dcf[r].requested /\ d[r].token = dcf[r].token
        BY <1>0, <2>1, <4>2, BackoffStarted
      <4>4. RestartAccessIfNeeded(s, d, med, timer, NoExchange)
        BY <4>1
      <4> HIDE DEF d
      <4>5. TokensKept(d)
        BY <1>0, <2>1, <4>3, <4>4, RestartEffect DEF Effect, TokensKept
      <4>6. Armed \/ (dcf' = d /\ timer' = timer)
        BY <1>0, <1>h, <2>1, <4>3, <4>4, RestartArmed DEF NoTokens
      <4> QED BY <4>3, <4>5, <4>6
    <3>2. CASE EndTxNoAck
      <4>1. PICK n \in 0 .. CwMin :
           \/ /\ dcf' = StartBackoff(dcf, s, CwMin, n)
              /\ exch' = NoExchange
              /\ UNCHANGED <<med, timer, requests>>
           \/ /\ CanRequest(s, dcf)
              /\ DoRequestAccess(s, StartBackoff(dcf, s, CwMin, n), med, timer, NoExchange)
        BY <3>2 DEF EndTxNoAck
      <4>2. n \in Nat /\ CwMin \in CwMin .. CwMax
        BY TimingAssumption
      <4> HIDE DEF s
      <4> DEFINE d == StartBackoff(dcf, s, CwMin, n)
      <4>3. d \in Dcfs /\ \A r \in States : d[r].requested = dcf[r].requested /\ d[r].token = dcf[r].token
        BY <1>0, <2>1, <4>2, BackoffStarted
      <4>4. \/ dcf' = d /\ timer' = timer
            \/ DoRequestAccess(s, d, med, timer, NoExchange)
        BY <4>1
      <4> HIDE DEF d
      <4>5. DoRequestAccess(s, d, med, timer, NoExchange) => Effect(d, med, timer, NoExchange) /\ Armed
        BY <1>0, <1>h, <2>1, <4>3, RequestEffect, RequestArmed DEF NoTokens
      <4> QED BY <4>3, <4>4, <4>5 DEF Effect, TokensKept
    <3> QED BY <1>6, <3>1, <3>2
  <2> QED BY <2>0, <2>2, ArmedKept, NoTokensNow DEF Armed, AccessTimerRunning, TokensKept
<1>7. CASE SendDataAfterCts \/ StartNext \/ SendReply
  <2>1. waking = {} /\ timer' = timer
    BY <1>7 DEF SendDataAfterCts, StartNext, SendReply, Running, bounds
  <2>2. dcf' = dcf \/ dcf' = UpdateBackoff(dcf, RxCut(med))
    BY <1>7 DEF SendDataAfterCts, StartNext, SendReply, Transmit
  <2>3. \A s \in States : dcf'[s].requested = dcf[s].requested /\ dcf'[s].token = dcf[s].token
    BY <1>0, <2>2, Cut, Updated
  <2> QED BY <2>1, <2>3, ArmedKept
<1>8. CASE \/ \E dur \in FrameTimes : RxStart(dur)
           \/ \E dur \in Durations : MaybeCcaBusyStart(dur)
           \/ RxEndError
  <2>1. waking = {} /\ timer' = timer
    BY <1>8 DEF RxStart, MaybeCcaBusyStart, RxEndError, RxDue, Disturb, Running, bounds
  <2>2. dcf' = dcf \/ dcf' = UpdateBackoff(dcf, med)
    BY <1>8 DEF RxStart, MaybeCcaBusyStart, RxEndError
  <2>3. \A s \in States : dcf'[s].requested = dcf[s].requested /\ dcf'[s].token = dcf[s].token
    BY <1>0, <2>2, Updated
  <2> QED BY <2>1, <2>3, ArmedKept
<1>9. CASE RxEndOk
  <2> DEFINE m == RxEnded(med, TRUE)
  <2>1. m \in Meds /\ ~m.rxing
    BY <1>0 DEF RxEnded, Meds
  <2>2. RxOther(m) \/ RxForMe(m) \/ RxCts(m) \/ RxAck(m)
    BY <1>9 DEF RxEndOk
  <2>3. waking = {}
    BY <1>9 DEF RxEndOk, RxDue, Running
  <2> HIDE DEF m
  <2>4. CASE RxOther(m) \/ RxForMe(m)
    <3>1. timer' = timer /\ (dcf' = dcf \/ dcf' = UpdateBackoff(dcf, m))
      BY <2>4 DEF RxOther, RxForMe
    <3>2. \A s \in States : dcf'[s].requested = dcf[s].requested /\ dcf'[s].token = dcf[s].token
      BY <1>0, <2>1, <3>1, Updated
    <3> QED BY <2>3, <3>1, <3>2, ArmedKept
  <2>5. CASE RxCts(m)
    <3>1. med' \in Meds /\ timer' \in Restarts(timer, dcf, med') /\ dcf' = dcf
      <4>1. /\ med' = [m EXCEPT !.ctsEnd = now] /\ dcf' = dcf
            /\ timer' \in Restarts(timer, dcf, med')
        BY <2>5 DEF RxCts
      <4>2. med' \in Meds
        BY <1>0, <2>1, <4>1 DEF Meds
      <4> QED BY <4>1, <4>2
    <3>2. timer # Off => timer' # Off
      BY <1>0, <3>1, Restarted
    <3> QED BY <2>3, <3>1, <3>2, ArmedKept
  <2>6. CASE RxAck(m)
    <3> DEFINE s == exch.owner
               acked == [m EXCEPT !.ackEnd = now]
               next == [exch EXCEPT !.awaits = "next", !.due = now + Sifs]
    <3>1. s \in States
      BY <1>h, <2>6 DEF RxAck, ExchangeHeld
    <3>2. acked \in Meds /\ Timely(acked) /\ ~acked.rxing
      BY <1>0, <2>1 DEF Timely, Meds
    <3>3. PICK t \in Restarts(timer, dcf, acked) :
          \/ dcf' = dcf /\ timer' = t
          \/ dcf' = [dcf EXCEPT ![s].cw = CwMin] /\ timer' = t
          \/ \E n \in IF dcf[s].token THEN {0} ELSE 0 .. CwMin,
                e \in {NoExchange} \cup (IF s \in Edca THEN {next} ELSE {}) :
               RestartAccessIfNeeded(s, StartBackoff(dcf, s, CwMin, n), acked, t, e)
      BY <2>6 DEF RxAck
    <3> HIDE DEF s, acked, next
    <3>4. t \in Timers /\ (timer # Off => t # Off)
      BY <1>0, <3>2, Restarted
    <3>5. CwMin \in CwMin .. CwMax /\ 0 .. CwMin \subseteq Nat /\ 0 \in Nat
      BY TimingAssumption
    <3>6. CASE dcf' = dcf /\ timer' = t
      BY <2>3, <3>4, <3>6, ArmedKept
    <3>7. CASE dcf' = [dcf EXCEPT ![s].cw = CwMin] /\ timer' = t
      <4>1. \A r \in States : dcf'[r].requested = dcf[r].requested /\ dcf'[r].token = dcf[r].token
        BY <1>0, <3>7 DEF Dcfs
      <4> QED BY <2>3, <3>4, <3>7, <4>1, ArmedKept
    <3>8. ASSUME NEW n \in Nat, NEW e,
                 RestartAccessIfNeeded(s, StartBackoff(dcf, s, CwMin, n), acked, t, e)
          PROVE  AccessTimerRunning' /\ NoTokens'
      <4> DEFINE d == StartBackoff(dcf, s, CwMin, n)
      <4>1. d \in Dcfs /\ \A r \in States : d[r].requested = dcf[r].requested /\ d[r].token = dcf[r].token
        BY <1>0, <3>1, <3>5, BackoffStarted
      <4>2. RestartAccessIfNeeded(s, d, acked, t, e)
        BY <3>8
      <4> HIDE DEF d
      <4>3. TokensKept(d)
        BY <1>0, <3>1, <3>2, <3>4, <4>1, <4>2, RestartEffect DEF Effect, TokensKept
      <4>4. Armed \/ (dcf' = d /\ timer' = t)
        BY <1>0, <3>1, <3>2, <3>4, <4>1, <4>2, RestartArmed DEF NoTokens
      <4>5. CASE Armed
        BY <4>1, <4>3, <4>5, NoTokensNow DEF Armed, AccessTimerRunning
      <4>6. CASE dcf' = d /\ timer' = t
        BY <2>3, <3>4, <4>1, <4>6, ArmedKept
      <4> QED BY <4>4, <4>5, <4>6
    <3> QED BY <3>3, <3>5, <3>6, <3>7, <3>8
  <2> QED BY <2>2, <2>4, <2>5, <2>6
<1>10. CASE NavReset
  <2> DEFINE u == UpdateBackoff(dcf, med)
             m == [med EXCEPT !.navEnd = now]
  <2>1. u \in Dcfs /\ \A s \in States : u[s].requested = dcf[s].requested /\ u[s].token = dcf[s].token
    BY <1>0, Updated
  <2>2. m \in Meds
    BY <1>0 DEF Meds
  <2>3. waking = {} /\ dcf' = u /\ timer' \in Restarts(timer, u, m)
    BY <1>10 DEF NavReset, Disturb, Running, Settle
  <2> HIDE DEF u, m
  <2>4. timer # Off => timer' # Off
    BY <1>0, <2>1, <2>2, <2>3, Restarted
  <2> QED BY <2>1, <2>3, <2>4, ArmedKept
<1>11. ASSUME NEW dur \in Durations, SwitchingStart(dur) PROVE AccessTimerRunning' /\ NoTokens'
  <2>1. \A s \in States : ~dcf'[s].requested /\ dcf'[s].token = dcf[s].token
    BY <1>0, <1>11, Forgotten DEF SwitchingStart
  <2> QED BY <2>1 DEF AccessTimerRunning, NoTokens
<1>12. CASE Sleep
  BY <1>12 DEF Sleep, AccessTimerRunning, NoTokens
<1>13. ASSUME NEW s \in States, NotifyWakeUp(s) PROVE AccessTimerRunning' /\ NoTokens'
  <2> DEFINE d == [dcf EXCEPT ![s] = Forget(@)]
  <2>1. /\ d \in Dcfs /\ ~d[s].requested
        /\ \A r \in States : d[r].token = dcf[r].token /\ (d[r].requested => dcf[r].requested)
    BY <1>0, Forgotten DEF Dcfs
  <2>2. RestartAccessIfNeeded(s, d, med, timer, exch) /\ waking' = waking \ {s}
    BY <1>13 DEF NotifyWakeUp
  <2> HIDE DEF d
  <2>3. TokensKept(d)
    BY <1>0, <2>1, <2>2, RestartEffect DEF Effect, TokensKept
  <2>4. Armed \/ (dcf' = d /\ timer' = timer)
    BY <1>0, <1>h, <2>1, <2>2, RestartArmed DEF NoTokens
  <2>5. NoTokens'
    BY <2>1, <2>3, NoTokensNow
  <2> QED BY <2>1, <2>2, <2>4, <2>5 DEF Armed, AccessTimerRunning
<1> QED
  BY <1>1, <1>2, <1>3, <1>4, <1>5, <1>6, <1>7, <1>8, <1>9, <1>10, <1>11, <1>12, <1>13
     DEF Next, User, Due, Medium

\* Nothing is requested initially.
LEMMA TimerInit == Init => AccessTimerRunning /\ NoTokens
  BY DEF Init, AccessTimerRunning, NoTokens

\* A stuttering step keeps the timer.
LEMMA TimerUnchanged == AccessTimerRunning /\ NoTokens /\ UNCHANGED vars => (AccessTimerRunning /\ NoTokens)'
  BY DEF vars, AccessTimerRunning, NoTokens

\* If every granted user sends and no token is given, a requested state that
\* the wake-up loop is not about to visit always has the access timer running.
THEOREM TimerRuns == GrantsUsed /\ QuietPower /\ Spec => []AccessTimerRunning
<1> SUFFICES ASSUME GrantsUsed, QuietPower PROVE Spec => []AccessTimerRunning
  OBVIOUS
<1>1. Init => AccessTimerRunning /\ NoTokens
  BY TimerInit
<1>2. Typed /\ Held /\ AccessTimerRunning /\ NoTokens /\ [Next]_vars
        => (AccessTimerRunning /\ NoTokens)'
  BY TimerStep, TimerUnchanged
<1> QED BY <1>1, <1>2, SpecHeld, PTL DEF Spec

-----------------------------------------------------------------------------
(* The start of access.  Nothing that the manager learns moves it into the past. *)

NotBack(a, b) == GetAccessGrantStart(b) >= Least(GetAccessGrantStart(a), now + Sifs)

\* It is enough that each end moves back to the present at most.
LEMMA EndsNotBack ==
  ASSUME NEW a \in Meds, NEW b \in Meds, now \in Nat,
         b.busyEnd >= Least(a.busyEnd, now), b.txEnd >= Least(a.txEnd, now),
         b.navEnd >= Least(a.navEnd, now), b.ackEnd >= Least(a.ackEnd, now),
         b.ctsEnd >= Least(a.ctsEnd, now), b.switchEnd >= Least(a.switchEnd, now),
         RxAccessStart(b) >= Least(RxAccessStart(a), now + Sifs)
  PROVE  NotBack(a, b)
<1>1. RxAccessStart(a) \in Nat /\ RxAccessStart(b) \in Nat
  BY GrantStart
<1>2. /\ a.busyEnd \in Nat /\ a.txEnd \in Nat /\ a.navEnd \in Nat /\ a.ackEnd \in Nat
      /\ a.ctsEnd \in Nat /\ a.switchEnd \in Nat
      /\ b.busyEnd \in Nat /\ b.txEnd \in Nat /\ b.navEnd \in Nat /\ b.ackEnd \in Nat
      /\ b.ctsEnd \in Nat /\ b.switchEnd \in Nat
  BY DEF Meds
<1>3. Sifs \in Nat
  BY TimingAssumption
<1> QED BY <1>1, <1>2, <1>3 DEF NotBack, GetAccessGrantStart, MostRecent, Least

\* A medium does not move back from itself.
LEMMA SameNotBack == ASSUME NEW m \in Meds, now \in Nat PROVE NotBack(m, m)
<1>1. GetAccessGrantStart(m) \in Nat /\ Sifs \in Nat
  BY GrantStart, TimingAssumption
<1> QED BY <1>1 DEF NotBack, Least

\* The end of a reception, also one that is cut short.
LEMMA CutNotBack ==
  ASSUME NEW m, Timely(m), now \in Nat, NEW ok \in BOOLEAN
  PROVE  /\ RxAccessStart(RxEnded(m, ok)) >= Least(RxAccessStart(m), now + Sifs)
         /\ RxAccessStart(RxCut(m)) >= Least(RxAccessStart(m), now + Sifs)
         /\ RxAccessStart(m) >= Least(RxAccessStart(m), now + Sifs)
<1> USE TimingAssumption
<1>1. RxAccessStart(m) \in Nat
  BY GrantStart DEF Timely
<1>2. RxAccessStart(RxEnded(m, ok)) = now + Sifs + (IF ok THEN 0 ELSE EifsNoDifs)
  BY DEF RxAccessStart, RxEnded, Timely, Meds
<1>3. CASE ~m.rxing
  BY <1>1, <1>2, <1>3 DEF RxCut, Least
<1>4. CASE m.rxing
  <2>1. /\ RxCut(m).rxEnd = now /\ ~RxCut(m).rxing
        /\ RxCut(m).rxOk \in BOOLEAN
    BY <1>4, Cut DEF Meds
  <2>2. RxAccessStart(RxCut(m)) = now + Sifs + (IF RxCut(m).rxOk THEN 0 ELSE EifsNoDifs)
    BY <2>1 DEF RxAccessStart
  <2> QED BY <1>1, <1>2, <2>2 DEF Least
<1> QED BY <1>3, <1>4

\* A frame that is sent.
LEMMA TxNotBack ==
  ASSUME NEW m, Timely(m), now \in Nat, NEW dur \in FrameTimes,
         NEW kind \in {"ack", "cts", "end", "reply"}
  PROVE  /\ NotBack(m, TimerStarted(TxStarted(m, dur), kind, dur))
         /\ NotBack(m, TimerStarted(m, kind, dur))
<1> USE TimingAssumption
<1>0. m \in Meds /\ dur \in Nat
  BY DEF Timely
<1>1. ASSUME NEW a \in Meds, a.busyEnd = m.busyEnd, a.navEnd = m.navEnd, a.ackEnd = m.ackEnd,
             a.ctsEnd = m.ctsEnd, a.switchEnd = m.switchEnd, a.txEnd = m.txEnd \/ a.txEnd = now + dur,
             RxAccessStart(a) >= Least(RxAccessStart(m), now + Sifs)
      PROVE  NotBack(m, TimerStarted(a, kind, dur))
  <2> DEFINE b == TimerStarted(a, kind, dur)
  <2>1. b \in Meds
    BY Answer
  <2>2. /\ b.busyEnd = a.busyEnd /\ b.navEnd = a.navEnd /\ b.switchEnd = a.switchEnd /\ b.txEnd = a.txEnd
        /\ b.ackEnd = a.ackEnd \/ b.ackEnd = now + dur + AckTimeout
        /\ b.ctsEnd = a.ctsEnd \/ b.ctsEnd = now + dur + AckTimeout
    BY <1>1 DEF TimerStarted, Meds
  <2>3. RxAccessStart(b) = RxAccessStart(a)
    BY <1>1 DEF TimerStarted, Meds, RxAccessStart
  <2> HIDE DEF b
  <2>4. /\ m.busyEnd \in Nat /\ m.txEnd \in Nat /\ m.navEnd \in Nat /\ m.ackEnd \in Nat
        /\ m.ctsEnd \in Nat /\ m.switchEnd \in Nat
    BY <1>0 DEF Meds
  <2>5. /\ b.busyEnd >= Least(m.busyEnd, now) /\ b.txEnd >= Least(m.txEnd, now)
        /\ b.navEnd >= Least(m.navEnd, now) /\ b.ackEnd >= Least(m.ackEnd, now)
        /\ b.ctsEnd >= Least(m.ctsEnd, now) /\ b.switchEnd >= Least(m.switchEnd, now)
    BY <1>0, <1>1, <2>2, <2>4 DEF Least
  <2>6. RxAccessStart(b) >= Least(RxAccessStart(m), now + Sifs)
    BY <1>1, <2>3
  <2>7. NotBack(m, b)
    BY <1>0, <2>1, <2>5, <2>6, EndsNotBack
  <2> QED BY <2>7 DEF b
<1>2. NotBack(m, TimerStarted(m, kind, dur))
  BY <1>0, <1>1, CutNotBack
<1>3. NotBack(m, TimerStarted(TxStarted(m, dur), kind, dur))
  <2> DEFINE c == RxCut(m)
             a == TxStarted(m, dur)
  <2>1. c \in Meds /\ a \in Meds /\ RxAccessStart(c) >= Least(RxAccessStart(m), now + Sifs)
    BY Cut, CutNotBack, Tx
  <2>2. /\ c.busyEnd = m.busyEnd /\ c.navEnd = m.navEnd /\ c.ackEnd = m.ackEnd
        /\ c.ctsEnd = m.ctsEnd /\ c.switchEnd = m.switchEnd
    BY <1>0 DEF RxCut, RxEnded, Meds
  <2>3. a = [c EXCEPT !.txEnd = now + dur]
    BY DEF TxStarted
  <2> HIDE DEF a, c
  <2>4. /\ a.busyEnd = c.busyEnd /\ a.navEnd = c.navEnd /\ a.ackEnd = c.ackEnd
        /\ a.ctsEnd = c.ctsEnd /\ a.switchEnd = c.switchEnd /\ a.txEnd = now + dur
        /\ RxAccessStart(a) = RxAccessStart(c)
    BY <2>1, <2>3 DEF Meds, RxAccessStart
  <2>5. NotBack(m, TimerStarted(a, kind, dur))
    BY <1>1, <2>1, <2>2, <2>4
  <2> QED BY <2>5 DEF a
<1> QED BY <1>2, <1>3

\* Nor does it by a request or a grant.
LEMMA EffectNotBack ==
  ASSUME NEW d, NEW m, NEW t, NEW e, Timely(m), now \in Nat, Effect(d, m, t, e)
  PROVE  NotBack(m, med')
<1>1. CASE med' = m
  BY <1>1, SameNotBack DEF Timely
<1>2. CASE Started(m)
  <2>1. PICK kind \in {"ack", "cts", "end"}, dur \in FrameTimes :
          med' = TimerStarted(IF sleeping THEN m ELSE TxStarted(m, dur), kind, dur)
    BY <1>2 DEF Started
  <2> QED BY <2>1, TxNotBack
<1> QED BY <1>1, <1>2 DEF Effect

-----------------------------------------------------------------------------
\* Nor by any action.
LEMMA StartStep ==
  ASSUME Typed, Next
  PROVE  NotBack(med, med')
<1> USE TimingAssumption
<1>0. /\ now \in Nat /\ dcf \in Dcfs /\ med \in Meds /\ Timely(med) /\ timer \in Timers
      /\ exch \in Exchs /\ requests \in Nat
  BY DEF Typed, Timely
<1>1. CASE med' = med
  BY <1>0, <1>1, SameNotBack
<1>2. CASE AccessTimeout
  <2> DEFINE u == UpdateBackoff(dcf, med)
  <2>1. u \in Dcfs /\ Off \in Timers
    BY <1>0, Updated DEF Timers
  <2>2. GrantAccess(u, med, Off, exch)
    BY <1>2 DEF AccessTimeout
  <2> HIDE DEF u
  <2> QED BY <1>0, <2>1, <2>2, GrantEffect, EffectNotBack
<1>3. ASSUME NEW s \in States, RequestAccess(s) PROVE NotBack(med, med')
  BY <1>0, <1>3, RequestEffect, EffectNotBack DEF RequestAccess
<1>4. ASSUME NEW s \in States, NEW cmd \in BOOLEAN, SetToken(s, cmd) PROVE NotBack(med, med')
  BY <1>1, <1>4 DEF SetToken, Settle
<1>5. CASE AnswerTimeout
  <2> DEFINE s == exch.owner
  <2>1. s \in States
    BY <1>0, <1>5 DEF AnswerTimeout, Exchs
  <2>2. PICK cw \in {FailedCw(dcf[s].cw), CwMin}, n \in 0 .. CwMax :
          RestartAccessIfNeeded(s, StartBackoff(dcf, s, cw, n), med, timer, NoExchange)
    BY <1>5 DEF AnswerTimeout
  <2>3. cw \in CwMin .. CwMax /\ n \in Nat
    <3>1. dcf[s].cw \in CwMin .. CwMax
      BY <1>0, <2>1 DEF Dcfs
    <3> QED BY <3>1, Failed
  <2> HIDE DEF s
  <2> DEFINE d == StartBackoff(dcf, s, cw, n)
  <2>4. d \in Dcfs
    BY <1>0, <2>1, <2>3, BackoffStarted
  <2>5. RestartAccessIfNeeded(s, d, med, timer, NoExchange)
    BY <2>2
  <2> HIDE DEF d
  <2> QED BY <1>0, <2>1, <2>4, <2>5, RestartEffect, EffectNotBack
<1>6. CASE EndTxNoAck
  <2> DEFINE s == exch.owner
  <2>1. s \in States
    BY <1>0, <1>6, SizeAssumption DEF EndTxNoAck, Exchs, States
  <2>2. PICK n \in 0 .. CwMin :
       \/ med' = med
       \/ DoRequestAccess(s, StartBackoff(dcf, s, CwMin, n), med, timer, NoExchange)
    BY <1>6 DEF EndTxNoAck
  <2> HIDE DEF s
  <2> DEFINE d == StartBackoff(dcf, s, CwMin, n)
  <2>3. d \in Dcfs
    <3>1. CwMin \in CwMin .. CwMax /\ n \in Nat
      OBVIOUS
    <3> QED BY <1>0, <2>1, <3>1, BackoffStarted
  <2>4. CASE DoRequestAccess(s, d, med, timer, NoExchange)
    <3> HIDE DEF d
    <3> QED BY <1>0, <2>1, <2>3, <2>4, RequestEffect, EffectNotBack
  <2> QED BY <1>1, <2>2, <2>4
<1>7. ASSUME NEW kind \in {"ack", "cts", "reply"}, NEW dur \in FrameTimes, Transmit(kind, dur)
      PROVE NotBack(med, med')
  BY <1>0, <1>7, TxNotBack DEF Transmit
<1>8. CASE SendDataAfterCts \/ StartNext \/ SendReply
  BY <1>1, <1>7, <1>8 DEF SendDataAfterCts, StartNext, SendReply
<1>9. ASSUME NEW dur \in FrameTimes, RxStart(dur) PROVE NotBack(med, med')
  <2>1. med' = [med EXCEPT !.rxStart = now, !.rxDur = dur, !.rxing = TRUE] /\ dur \in Nat
    BY <1>9 DEF RxStart
  <2>2. /\ med' \in Meds
        /\ med'.busyEnd = med.busyEnd /\ med'.txEnd = med.txEnd /\ med'.navEnd = med.navEnd
        /\ med'.ackEnd = med.ackEnd /\ med'.ctsEnd = med.ctsEnd /\ med'.switchEnd = med.switchEnd
        /\ RxAccessStart(med') = now + dur + Sifs
    BY <1>0, <2>1 DEF Meds, RxAccessStart
  <2>3. /\ med.busyEnd \in Nat /\ med.txEnd \in Nat /\ med.navEnd \in Nat /\ med.ackEnd \in Nat
        /\ med.ctsEnd \in Nat /\ med.switchEnd \in Nat /\ RxAccessStart(med) \in Nat
    BY <1>0, GrantStart DEF Meds
  <2>4. /\ med'.busyEnd >= Least(med.busyEnd, now) /\ med'.txEnd >= Least(med.txEnd, now)
        /\ med'.navEnd >= Least(med.navEnd, now) /\ med'.ackEnd >= Least(med.ackEnd, now)
        /\ med'.ctsEnd >= Least(med.ctsEnd, now) /\ med'.switchEnd >= Least(med.switchEnd, now)
        /\ RxAccessStart(med') >= Least(RxAccessStart(med), now + Sifs)
    BY <1>0, <2>1, <2>2, <2>3 DEF Least
  <2> QED BY <1>0, <2>2, <2>4, EndsNotBack
<1>10. ASSUME NEW ok \in BOOLEAN, NEW b \in Meds,
              b.busyEnd >= Least(med.busyEnd, now), b.txEnd = med.txEnd,
              b.navEnd >= Least(med.navEnd, now), b.ackEnd >= Least(med.ackEnd, now),
              b.ctsEnd >= Least(med.ctsEnd, now), b.switchEnd >= Least(med.switchEnd, now),
              RxAccessStart(b) \in {RxAccessStart(med), RxAccessStart(RxEnded(med, ok))}
       PROVE  NotBack(med, b)
  <2>1. RxAccessStart(b) >= Least(RxAccessStart(med), now + Sifs)
    BY <1>0, <1>10, CutNotBack
  <2>2. b.txEnd >= Least(med.txEnd, now)
    BY <1>0, <1>10 DEF Meds, Least
  <2> QED BY <1>0, <1>10, <2>1, <2>2, EndsNotBack
<1>11. \A t \in Nat : t >= Least(t, now) /\ now >= Least(t, now)
  BY <1>0 DEF Least
<1>12. /\ med.busyEnd \in Nat /\ med.txEnd \in Nat /\ med.navEnd \in Nat /\ med.ackEnd \in Nat
       /\ med.ctsEnd \in Nat /\ med.switchEnd \in Nat
  BY <1>0 DEF Meds
<1>13. CASE RxEndError
  <2> DEFINE b == RxEnded(med, FALSE)
  <2>1. /\ b \in Meds
        /\ b.busyEnd = med.busyEnd /\ b.txEnd = med.txEnd /\ b.navEnd = med.navEnd
        /\ b.ackEnd = med.ackEnd /\ b.ctsEnd = med.ctsEnd /\ b.switchEnd = med.switchEnd
    BY <1>0 DEF RxEnded, Meds
  <2>2. med' = b
    BY <1>13 DEF RxEndError
  <2> QED BY <1>10, <1>11, <1>12, <2>1, <2>2
<1>14. CASE RxEndOk
  <2> DEFINE m == RxEnded(med, TRUE)
  <2>1. /\ m \in Meds /\ ~m.rxing /\ Timely(m)
        /\ m.busyEnd = med.busyEnd /\ m.txEnd = med.txEnd /\ m.navEnd = med.navEnd
        /\ m.ackEnd = med.ackEnd /\ m.ctsEnd = med.ctsEnd /\ m.switchEnd = med.switchEnd
    BY <1>0 DEF RxEnded, Meds, Timely
  <2>2. RxOther(m) \/ RxForMe(m) \/ RxCts(m) \/ RxAck(m)
    BY <1>14 DEF RxEndOk
  <2>3. ASSUME NEW b \in Meds,
               b.busyEnd >= Least(m.busyEnd, now), b.txEnd = m.txEnd,
               b.navEnd >= Least(m.navEnd, now), b.ackEnd >= Least(m.ackEnd, now),
               b.ctsEnd >= Least(m.ctsEnd, now), b.switchEnd >= Least(m.switchEnd, now),
               RxAccessStart(b) = RxAccessStart(m)
        PROVE  NotBack(med, b)
    BY <1>10, <2>1, <2>3
  <2> HIDE DEF m
  <2>4. CASE RxOther(m) \/ RxForMe(m) \/ RxCts(m)
    <3>1. \E t \in Nat : med' \in {m, [m EXCEPT !.ctsEnd = now], [m EXCEPT !.navEnd = MostRecent(@, t)]}
      <4>1. \A dur \in {0} \cup Durations : now + dur \in Nat
        BY <1>0
      <4> QED BY <2>4, <4>1 DEF RxOther, RxForMe, RxCts
    <3>2. PICK t \in Nat : med' \in {m, [m EXCEPT !.ctsEnd = now], [m EXCEPT !.navEnd = MostRecent(@, t)]}
      BY <3>1
    <3>3. /\ med' \in Meds
          /\ med'.busyEnd = m.busyEnd /\ med'.txEnd = m.txEnd
          /\ med'.navEnd = m.navEnd \/ med'.navEnd = MostRecent(m.navEnd, t)
          /\ med'.ackEnd = m.ackEnd /\ (med'.ctsEnd = m.ctsEnd \/ med'.ctsEnd = now)
          /\ med'.switchEnd = m.switchEnd /\ RxAccessStart(med') = RxAccessStart(m)
      BY <1>0, <2>1, <3>2 DEF Meds, MostRecent, RxAccessStart
    <3>4. MostRecent(m.navEnd, t) >= Least(m.navEnd, now)
      BY <1>0, <1>12, <2>1 DEF MostRecent, Least
    <3> QED BY <1>11, <1>12, <2>1, <2>3, <3>3, <3>4
  <2>5. CASE RxAck(m)
    <3> DEFINE s == exch.owner
               acked == [m EXCEPT !.ackEnd = now]
               next == [exch EXCEPT !.awaits = "next", !.due = now + Sifs]
    <3>1. s \in States
      BY <1>0, <2>5 DEF RxAck, Exchs
    <3>2. /\ acked \in Meds /\ Timely(acked) /\ acked.ackEnd = now
          /\ acked.busyEnd = m.busyEnd /\ acked.txEnd = m.txEnd /\ acked.navEnd = m.navEnd
          /\ acked.ctsEnd = m.ctsEnd /\ acked.switchEnd = m.switchEnd
          /\ RxAccessStart(acked) = RxAccessStart(m)
      BY <1>0, <2>1 DEF Meds, Timely, RxAccessStart
    <3>3. PICK t \in Restarts(timer, dcf, acked) :
          \/ med' = acked
          \/ \E n \in IF dcf[s].token THEN {0} ELSE 0 .. CwMin,
                e \in {NoExchange} \cup (IF s \in Edca THEN {next} ELSE {}) :
               RestartAccessIfNeeded(s, StartBackoff(dcf, s, CwMin, n), acked, t, e)
      BY <2>5 DEF RxAck
    <3> HIDE DEF s, acked, next
    <3>4. CwMin \in CwMin .. CwMax /\ 0 .. CwMin \subseteq Nat /\ 0 \in Nat /\ t \in Timers
      BY <1>0, <3>2, Restarted
    <3>5. ASSUME NEW n \in Nat, NEW e,
                 RestartAccessIfNeeded(s, StartBackoff(dcf, s, CwMin, n), acked, t, e)
          PROVE  med' = acked
      <4> DEFINE d == StartBackoff(dcf, s, CwMin, n)
      <4>1. d \in Dcfs
        BY <1>0, <3>1, <3>4, BackoffStarted
      <4>2. RestartAccessIfNeeded(s, d, acked, t, e)
        BY <3>5
      <4> HIDE DEF d
      <4>3. Effect(d, acked, t, e)
        BY <1>0, <3>1, <3>2, <3>4, <4>1, <4>2, RestartEffect
      <4>4. ~(GetAccessGrantStart(acked) + Slot <= now)
        <5>1. acked.ackEnd + Sifs <= GetAccessGrantStart(acked) /\ GetAccessGrantStart(acked) \in Nat
          BY <3>2, GrantStart
        <5> QED BY <1>0, <3>2, <5>1
      <4> QED BY <4>3, <4>4 DEF Effect
    <3>6. med' = acked
      BY <3>3, <3>4, <3>5
    <3> QED BY <1>11, <1>12, <2>1, <2>3, <3>2, <3>6
  <2> QED BY <2>2, <2>4, <2>5
<1>15. CASE NavReset \/ \E dur \in Durations : MaybeCcaBusyStart(dur)
  <2>1. \/ med' = [med EXCEPT !.navEnd = now]
        \/ \E dur \in Durations : med' = [med EXCEPT !.busyEnd = now + dur] /\ med.busyEnd <= now + dur
    BY <1>15 DEF NavReset, MaybeCcaBusyStart, Settle
  <2>2. PICK b \in Nat : med' \in {[med EXCEPT !.navEnd = now], [med EXCEPT !.busyEnd = b]} /\ now <= b
    <3>1. \A dur \in Durations : now + dur \in Nat /\ now <= now + dur
      BY <1>0
    <3>2. now \in Nat /\ now <= now
      BY <1>0
    <3> QED BY <2>1, <3>1, <3>2
  <2>3. /\ med' \in Meds /\ RxAccessStart(med') = RxAccessStart(med)
        /\ med'.busyEnd = med.busyEnd \/ med'.busyEnd = b
        /\ med'.txEnd = med.txEnd /\ (med'.navEnd = med.navEnd \/ med'.navEnd = now)
        /\ med'.ackEnd = med.ackEnd /\ med'.ctsEnd = med.ctsEnd /\ med'.switchEnd = med.switchEnd
    BY <1>0, <2>2 DEF Meds, RxAccessStart
  <2>4. b >= Least(med.busyEnd, now)
    BY <1>0, <1>12, <2>2 DEF Least
  <2> QED BY <1>10, <1>11, <1>12, <2>3, <2>4
<1>16. ASSUME NEW dur \in Durations, SwitchingStart(dur) PROVE NotBack(med, med')
  <2> DEFINE m == IF med.rxing THEN [RxEnded(med, TRUE) EXCEPT !.rxDur = now - med.rxStart] ELSE med
  <2>1. /\ m \in Meds /\ m.txEnd = med.txEnd /\ m.busyEnd = med.busyEnd /\ m.navEnd = med.navEnd
        /\ m.ackEnd = med.ackEnd /\ m.ctsEnd = med.ctsEnd /\ m.switchEnd = med.switchEnd
        /\ RxAccessStart(m) \in {RxAccessStart(med), RxAccessStart(RxEnded(med, TRUE))}
    <3>1. med.rxing => now - med.rxStart \in Nat
      BY <1>0 DEF Timely, Meds
    <3> QED BY <1>0, <3>1 DEF RxEnded, Meds, RxAccessStart
  <2>2. med' = [m EXCEPT !.navEnd = Least(@, now), !.busyEnd = Least(@, now),
                         !.ackEnd = Least(@, now), !.ctsEnd = Least(@, now),
                         !.switchEnd = now + dur]
    BY <1>16 DEF SwitchingStart, SwitchingStarted
  <2> HIDE DEF m
  <2>3. /\ Least(m.navEnd, now) \in Nat /\ Least(m.busyEnd, now) \in Nat
        /\ Least(m.ackEnd, now) \in Nat /\ Least(m.ctsEnd, now) \in Nat /\ now + dur \in Nat
        /\ now + dur >= Least(med.switchEnd, now)
    BY <1>0, <1>12, <2>1 DEF Least
  <2>4. /\ med' \in Meds /\ med'.txEnd = med.txEnd /\ RxAccessStart(med') = RxAccessStart(m)
        /\ med'.busyEnd = Least(med.busyEnd, now) /\ med'.navEnd = Least(med.navEnd, now)
        /\ med'.ackEnd = Least(med.ackEnd, now) /\ med'.ctsEnd = Least(med.ctsEnd, now)
        /\ med'.switchEnd = now + dur
    BY <2>1, <2>2, <2>3 DEF Meds, RxAccessStart
  <2>5. \A x \in Nat : Least(x, now) >= Least(x, now)
    BY <1>0 DEF Least
  <2> QED BY <1>10, <1>12, <2>1, <2>3, <2>4, <2>5
<1>17. ASSUME NEW s \in States, NotifyWakeUp(s) PROVE NotBack(med, med')
  <2> DEFINE d == [dcf EXCEPT ![s] = Forget(@)]
  <2>1. d \in Dcfs
    BY <1>0, Forgotten DEF Dcfs
  <2>2. RestartAccessIfNeeded(s, d, med, timer, exch)
    BY <1>17 DEF NotifyWakeUp
  <2> HIDE DEF d
  <2> QED BY <1>0, <2>1, <2>2, RestartEffect, EffectNotBack
<1>18. CASE Tick \/ Sleep \/ Wakeup
  BY <1>1, <1>18 DEF Tick, Sleep, Wakeup, bounds
<1> QED
  BY <1>2, <1>3, <1>4, <1>5, <1>6, <1>8, <1>9, <1>13, <1>14, <1>15, <1>16, <1>17, <1>18
     DEF Next, User, Due, Medium

\* Whatever the manager is told, the start of access moves back to SIFS after
\* the present at most.
THEOREM StartNotRetroactive == Spec => GrantStartNotRetroactive
<1>1. Typed /\ [Next]_vars => [GetAccessGrantStart(med') >= Least(GetAccessGrantStart(med), now + Sifs)]_vars
  BY StartStep DEF NotBack
<1>2. Typed /\ [Next]_vars => Typed'
  BY TypedStep
<1> QED BY <1>1, <1>2, TypedInit, PTL DEF Spec, GrantStartNotRetroactive
=============================================================================
