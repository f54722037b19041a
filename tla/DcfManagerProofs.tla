-------------------------- MODULE DcfManagerProofs --------------------------
(***************************************************************************)
(* What is proved of DcfManager for every number of states, every timing   *)
(* and every bound.                                                        *)
(***************************************************************************)
EXTENDS DcfManager, TLAPS

Dcfs == [States -> [slots : Nat, start : Nat, cw : CwMin .. CwMax,
                    requested : BOOLEAN, token : BOOLEAN]]
Meds == [rxStart : Nat, rxDur : Nat, rxEnd : Nat, rxOk : BOOLEAN, rxing : BOOLEAN,
         txEnd : Nat, busyEnd : Nat, navEnd : Nat, ackEnd : Nat, ctsEnd : Nat,
         switchEnd : Nat]
Timers == Nat \cup {Off}

-----------------------------------------------------------------------------
(* Arithmetic of slots *)

\* A product of naturals is a natural.
LEMMA ProductNat == ASSUME NEW a \in Nat, NEW b \in Nat PROVE a * b \in Nat
  OBVIOUS

\* A positive multiple is no smaller.
LEMMA AtLeastOne == ASSUME NEW a \in Nat \ {0}, NEW b \in Nat PROVE b <= a * b
  OBVIOUS

\* A quotient of naturals is a natural.
LEMMA DivNat == ASSUME NEW a \in Nat, NEW b \in Nat \ {0} PROVE a \div b \in Nat
  OBVIOUS

\* Slots that are taken from a backoff and added to its start keep its end.
LEMMA SlotsMoved ==
  ASSUME NEW a \in Nat, NEW b \in Nat, NEW c \in 0 .. a PROVE c * b + (a - c) * b = a * b
  OBVIOUS

-----------------------------------------------------------------------------
(* The queries of the manager *)

\* The start of access is no earlier than SIFS after every end it knows of.
LEMMA GrantStart ==
  ASSUME NEW m \in Meds
  PROVE  /\ RxAccessStart(m) \in Nat /\ GetAccessGrantStart(m) \in Nat
         /\ RxAccessStart(m) <= GetAccessGrantStart(m)
         /\ \A end \in {m.busyEnd, m.txEnd, m.navEnd, m.ackEnd, m.ctsEnd, m.switchEnd} :
              end + Sifs <= GetAccessGrantStart(m)
<1> USE TimingAssumption DEF Meds
<1>1. RxAccessStart(m) \in Nat
  BY DEF RxAccessStart
<1> QED BY <1>1 DEF GetAccessGrantStart, MostRecent

\* A backoff starts at least one slot after the start of access, with or
\* without the token.
LEMMA Backoff ==
  ASSUME NEW d \in Dcfs, NEW m \in Meds, NEW s \in States
  PROVE  /\ GetBackoffStartFor(s, d, m) \in Nat
         /\ Ifs(s, d) \in Nat /\ Slot <= Ifs(s, d)
         /\ GetAccessGrantStart(m) + Ifs(s, d) <= GetBackoffStartFor(s, d, m)
         /\ GetAccessGrantStart(m) + Slot <= GetBackoffStartFor(s, d, m)
         /\ d[s].start <= GetBackoffStartFor(s, d, m)
         /\ d[s].slots * Slot \in Nat
         /\ GetBackoffEndFor(s, d, m) \in Nat
         /\ GetBackoffStartFor(s, d, m) <= GetBackoffEndFor(s, d, m)
<1> USE TimingAssumption, SizeAssumption
<1>1. d[s].start \in Nat /\ d[s].slots \in Nat
  BY DEF Dcfs
<1>2. Ifs(s, d) \in Nat /\ Slot <= Ifs(s, d)
  <2>1. Aifsn[s] \in Nat \ {0}
    OBVIOUS
  <2>2. Aifsn[s] * Slot \in Nat /\ Slot <= Aifsn[s] * Slot
    BY <2>1, ProductNat, AtLeastOne
  <2>3. 1 * Slot = Slot
    OBVIOUS
  <2> QED BY <2>2, <2>3 DEF Ifs
<1>3. GetAccessGrantStart(m) \in Nat
  BY GrantStart
<1>4. d[s].slots * Slot \in Nat
  BY <1>1, ProductNat
<1> QED BY <1>1, <1>2, <1>3, <1>4 DEF GetBackoffStartFor, GetBackoffEndFor, MostRecent

\* UpdateBackoff counts no more slots than are left.
LEMMA Elapsed ==
  ASSUME NEW d \in Dcfs, NEW m \in Meds, NEW s \in States, now \in Nat,
         GetBackoffStartFor(s, d, m) <= now
  PROVE  ElapsedSlots(s, d, m) \in 0 .. d[s].slots
<1>1. d[s].slots \in Nat
  BY DEF Dcfs
<1>2. now - GetBackoffStartFor(s, d, m) \in Nat
  BY Backoff
<1>3. (now - GetBackoffStartFor(s, d, m)) \div Slot \in Nat
  BY <1>2, DivNat, TimingAssumption
<1> QED BY <1>1, <1>3 DEF ElapsedSlots, Least

\* UpdateBackoff changes nothing but the slots and the start of the backoffs.
LEMMA Updated ==
  ASSUME NEW d \in Dcfs, NEW m \in Meds, now \in Nat
  PROVE  /\ UpdateBackoff(d, m) \in Dcfs
         /\ \A s \in States : /\ UpdateBackoff(d, m)[s].requested = d[s].requested
                              /\ UpdateBackoff(d, m)[s].token = d[s].token
                              /\ UpdateBackoff(d, m)[s].cw = d[s].cw
<1> SUFFICES ASSUME NEW s \in States
             PROVE  /\ UpdateBackoff(d, m)[s] \in [slots : Nat, start : Nat, cw : CwMin .. CwMax,
                                                   requested : BOOLEAN, token : BOOLEAN]
                    /\ UpdateBackoff(d, m)[s].requested = d[s].requested
                    /\ UpdateBackoff(d, m)[s].token = d[s].token
                    /\ UpdateBackoff(d, m)[s].cw = d[s].cw
  BY DEF Dcfs, UpdateBackoff
<1> DEFINE n == ElapsedSlots(s, d, m)
           b == GetBackoffStartFor(s, d, m)
<1>1. d[s] \in [slots : Nat, start : Nat, cw : CwMin .. CwMax, requested : BOOLEAN, token : BOOLEAN]
  BY DEF Dcfs
<1>2. CASE b > now
  BY <1>1, <1>2 DEF UpdateBackoff
<1>3. CASE ~(b > now)
  <2>1. b \in Nat /\ b <= now
    BY <1>3, Backoff
  <2>2. n \in 0 .. d[s].slots
    BY <2>1, Elapsed
  <2>3. d[s].slots - n \in Nat /\ b + n * Slot \in Nat
    BY <1>1, <2>1, <2>2, ProductNat, TimingAssumption
  <2>4. UpdateBackoff(d, m)[s] = [d[s] EXCEPT !.slots = @ - n, !.start = b + n * Slot]
    BY <1>3 DEF UpdateBackoff
  <2> HIDE DEF n, b
  <2> QED BY <1>1, <2>3, <2>4
<1> QED BY <1>2, <1>3

\* UpdateBackoff may be called at any moment (DcfManager::UpdateBackoff is, at
\* every event): it leaves the end of every backoff where it was.
LEMMA EndKept ==
  ASSUME NEW d \in Dcfs, NEW m \in Meds, NEW s \in States, now \in Nat
  PROVE  GetBackoffEndFor(s, UpdateBackoff(d, m), m) = GetBackoffEndFor(s, d, m)
<1> DEFINE u == UpdateBackoff(d, m)
           n == ElapsedSlots(s, d, m)
           b == GetBackoffStartFor(s, d, m)
<1>1. d[s] \in [slots : Nat, start : Nat, cw : CwMin .. CwMax, requested : BOOLEAN, token : BOOLEAN]
  BY DEF Dcfs
<1>2. b \in Nat /\ Ifs(s, d) \in Nat /\ GetAccessGrantStart(m) + Ifs(s, d) <= b
  BY Backoff
<1>3. CASE b > now
  <2>1. u[s] = d[s]
    BY <1>3 DEF UpdateBackoff
  <2> QED BY <2>1 DEF GetBackoffEndFor, GetBackoffStartFor, Ifs
<1>4. CASE ~(b > now)
  <2>1. n \in 0 .. d[s].slots
    BY <1>2, <1>4, Elapsed
  <2>2. n * Slot \in Nat
    BY <1>1, <2>1, ProductNat, TimingAssumption
  <2>3. u[s] = [d[s] EXCEPT !.slots = @ - n, !.start = b + n * Slot]
    BY <1>4 DEF UpdateBackoff
  <2>4. u[s].slots = d[s].slots - n /\ u[s].start = b + n * Slot /\ u[s].token = d[s].token
    BY <1>1, <2>3
  <2>5. Ifs(s, u) = Ifs(s, d)
    BY <2>4 DEF Ifs
  <2>6. GetBackoffStartFor(s, u, m) = b + n * Slot
    <3>1. GetAccessGrantStart(m) + Ifs(s, d) <= b + n * Slot
      BY <1>2, <2>2, GrantStart
    <3> QED BY <1>2, <2>2, <2>4, <2>5, <3>1, GrantStart DEF GetBackoffStartFor, MostRecent
  <2>7. n * Slot + (d[s].slots - n) * Slot = d[s].slots * Slot
    BY <1>1, <2>1, SlotsMoved, TimingAssumption
  <2>8. (d[s].slots - n) * Slot \in Nat
    BY <1>1, <2>1, ProductNat, TimingAssumption
  <2>9. /\ GetBackoffEndFor(s, u, m) = b + n * Slot + (d[s].slots - n) * Slot
        /\ GetBackoffEndFor(s, d, m) = b + d[s].slots * Slot
    BY <2>4, <2>6 DEF GetBackoffEndFor
  <2> HIDE DEF n, b
  <2> QED BY <1>2, <2>2, <2>7, <2>8, <2>9
<1> QED BY <1>3, <1>4

-----------------------------------------------------------------------------
(* The calls *)

\* DoRestartAccessTimeoutIfNeeded leaves the timer or moves it to a time in the
\* future, and starts it when a backoff has still to end.
LEMMA Restarted ==
  ASSUME NEW d \in Dcfs, NEW m \in Meds, NEW t \in Timers, NEW u \in Restarts(t, d, m),
         now \in Nat
  PROVE  /\ u \in Timers
         /\ u = t \/ now < u
         /\ t # Off => u # Off
         /\ Waiting(d, m) # {} => u # Off
<1>1. CASE Waiting(d, m) = {}
  BY <1>1 DEF Restarts
<1>2. CASE Waiting(d, m) # {}
  <2>1. PICK s \in First(d, m) :
          u = IF t = Off \/ t > GetBackoffEndFor(s, d, m) THEN GetBackoffEndFor(s, d, m) ELSE t
    BY <1>2 DEF Restarts
  <2>2. s \in States /\ now < GetBackoffEndFor(s, d, m) /\ GetBackoffEndFor(s, d, m) \in Nat
    BY <2>1, Backoff DEF First, Waiting
  <2> QED BY <2>1, <2>2 DEF Timers, Off
<1> QED BY <1>1, <1>2

\* DcfState::UpdateFailedCw stays within the bounds of the window.
LEMMA Failed == ASSUME NEW cw \in CwMin .. CwMax PROVE FailedCw(cw) \in CwMin .. CwMax
  BY TimingAssumption DEF FailedCw, Least

\* An internal collision keeps the types, the requests and the tokens.
LEMMA CollidedStates ==
  ASSUME NEW d \in Dcfs, NEW S \in SUBSET States, now \in Nat,
         NEW cw \in [S -> CwMin .. CwMax], NEW draw \in [S -> 0 .. CwMax]
  PROVE  /\ Collided(d, S, cw, draw) \in Dcfs
         /\ \A s \in States : /\ Collided(d, S, cw, draw)[s].requested = d[s].requested
                              /\ Collided(d, S, cw, draw)[s].token = d[s].token
<1>1. ASSUME NEW s \in States
      PROVE  /\ Collided(d, S, cw, draw)[s] \in [slots : Nat, start : Nat, cw : CwMin .. CwMax,
                                                 requested : BOOLEAN, token : BOOLEAN]
             /\ Collided(d, S, cw, draw)[s].requested = d[s].requested
             /\ Collided(d, S, cw, draw)[s].token = d[s].token
  <2>1. d[s] \in [slots : Nat, start : Nat, cw : CwMin .. CwMax, requested : BOOLEAN, token : BOOLEAN]
    BY DEF Dcfs
  <2>2. CASE s \in S
    <3>1. cw[s] \in CwMin .. CwMax /\ draw[s] \in Nat
      BY <2>2, TimingAssumption
    <3> QED BY <2>1, <2>2, <3>1 DEF Collided
  <2>3. CASE s \notin S
    BY <2>1, <2>3 DEF Collided
  <2> QED BY <2>2, <2>3
<1> QED BY <1>1 DEF Collided, Dcfs

\* DcfState::StartBackoffNow keeps the types, the requests and the tokens.
LEMMA BackoffStarted ==
  ASSUME NEW d \in Dcfs, NEW s \in States, NEW cw \in CwMin .. CwMax, NEW n \in Nat, now \in Nat
  PROVE  /\ StartBackoff(d, s, cw, n) \in Dcfs
         /\ \A r \in States : /\ StartBackoff(d, s, cw, n)[r].requested = d[r].requested
                              /\ StartBackoff(d, s, cw, n)[r].token = d[r].token
  BY DEF StartBackoff, Dcfs

\* A medium that the clock is consistent with.
Timely(m) == m \in Meds /\ (m.rxing => m.rxStart <= now)

\* A reception that a transmission cuts short ends now; no other end moves.
LEMMA Cut ==
  ASSUME NEW m, Timely(m), now \in Nat
  PROVE  /\ RxCut(m) \in Meds /\ ~RxCut(m).rxing
         /\ RxCut(m).txEnd = m.txEnd /\ RxCut(m).ackEnd = m.ackEnd /\ RxCut(m).ctsEnd = m.ctsEnd
         /\ RxCut(m).switchEnd = m.switchEnd
         /\ ~m.rxing => RxCut(m) = m
         /\ m.rxing => RxCut(m).rxEnd = now
<1>1. CASE m.rxing
  <2>1. now - m.rxStart \in Nat
    BY <1>1 DEF Timely, Meds
  <2>2. (now - m.rxStart <= Sifs) \in BOOLEAN
    OBVIOUS
  <2> QED BY <1>1, <2>1, <2>2 DEF Timely, Meds, RxCut, RxEnded
<1>2. CASE ~m.rxing
  BY <1>2 DEF Timely, Meds, RxCut
<1> QED BY <1>1, <1>2

\* NotifyTxStartNow sets the end of the transmission, and no other one.
LEMMA Tx ==
  ASSUME NEW m, Timely(m), now \in Nat, NEW dur \in FrameTimes
  PROVE  /\ TxStarted(m, dur) \in Meds /\ ~TxStarted(m, dur).rxing
         /\ TxStarted(m, dur).txEnd = now + dur
         /\ TxStarted(m, dur).ackEnd = m.ackEnd /\ TxStarted(m, dur).ctsEnd = m.ctsEnd
         /\ TxStarted(m, dur).switchEnd = m.switchEnd
  BY Cut, TimingAssumption DEF TxStarted, Meds

\* The timer of the awaited answer sets the end that the exchange is due at.
LEMMA Answer ==
  ASSUME NEW m \in Meds, now \in Nat, NEW dur \in FrameTimes, NEW kind \in {"ack", "cts", "end", "reply"}
  PROVE  /\ TimerStarted(m, kind, dur) \in Meds
         /\ TimerStarted(m, kind, dur).rxing = m.rxing
         /\ TimerStarted(m, kind, dur).rxStart = m.rxStart
         /\ TimerStarted(m, kind, dur).txEnd = m.txEnd
         /\ TimerStarted(m, kind, dur).switchEnd = m.switchEnd
         /\ kind = "ack" => /\ TimerStarted(m, kind, dur).ackEnd = now + dur + AckTimeout
                            /\ TimerStarted(m, kind, dur).ctsEnd = m.ctsEnd
         /\ kind = "cts" => /\ TimerStarted(m, kind, dur).ctsEnd = now + dur + AckTimeout
                            /\ TimerStarted(m, kind, dur).ackEnd = m.ackEnd
         /\ kind \in {"end", "reply"} => TimerStarted(m, kind, dur) = m
  BY TimingAssumption DEF TimerStarted, Meds

\* A frame of state s leaves, and its exchange begins.  The PHY drops the frame
\* if it sleeps.
Started(m) ==
  \E s \in States, kind \in {"ack", "cts", "end"}, dur \in FrameTimes :
    /\ med' = TimerStarted(IF sleeping THEN m ELSE TxStarted(m, dur), kind, dur)
    /\ exch' = Exchange(s, kind, dur)

\* What a request or a grant may do: it starts a frame, and drops a request,
\* only a slot or more after the start of access.
Effect(d, m, t, e) ==
  /\ dcf' \in Dcfs /\ timer' \in Timers
  /\ timer' = t \/ now < timer'
  /\ t # Off => timer' # Off
  /\ \A s \in States : dcf'[s].token = d[s].token
  /\ (med' = m /\ exch' = e) \/ (GetAccessGrantStart(m) + Slot <= now /\ Started(m))
  /\ (\E s \in States : d[s].requested /\ ~dcf'[s].requested) => GetAccessGrantStart(m) + Slot <= now

\* A backoff has ended only if a slot has gone by since the start of access.
LEMMA ReadyLate ==
  ASSUME NEW d \in Dcfs, NEW m \in Meds, now \in Nat, NEW s \in Ready(d, m)
  PROVE  s \in States /\ GetAccessGrantStart(m) + Slot <= now
<1>1. s \in States /\ GetBackoffEndFor(s, d, m) <= now
  BY DEF Ready
<1> QED BY <1>1, Backoff, GrantStart, TimingAssumption

\* DoRestartAccessTimeoutIfNeeded after a call that starts no frame.
LEMMA SettleEffect ==
  ASSUME NEW d \in Dcfs, NEW m \in Meds, NEW t \in Timers, NEW e, now \in Nat,
         NEW d0 \in Dcfs,
         \A s \in States : d[s].token = d0[s].token /\ (d0[s].requested => d[s].requested),
         Settle(d, m, t, e)
  PROVE  Effect(d0, m, t, e)
  BY Restarted DEF Settle, Effect

\* DoGrantAccess, whatever its winner and its losers do.
LEMMA GrantEffect ==
  ASSUME NEW d \in Dcfs, NEW m, Timely(m), NEW t \in Timers, NEW e, now \in Nat,
         GrantAccess(d, m, t, e)
  PROVE  Effect(d, m, t, e)
<1>0. m \in Meds
  BY DEF Timely
<1>1. CASE Ready(d, m) = {} /\ Settle(d, m, t, e)
  BY <1>0, <1>1, SettleEffect
<1>2. CASE Ready(d, m) # {}
  <2>1. PICK s \in Ready(d, m) :
          LET losers == Ready(d, m) \ {s}
              granted == [d EXCEPT ![s].requested = FALSE]
          IN \E cw \in [losers -> CwMin .. CwMax], draw \in [losers -> 0 .. CwMax] :
               /\ IsDraw(d, losers, cw, draw)
               /\ \/ /\ Silent
                     /\ Settle(Collided(granted, losers, cw, draw), m, t, e)
                  \/ \E kind \in {"ack", "cts", "end"}, dur \in FrameTimes :
                       LET d1 == IF sleeping THEN granted ELSE UpdateBackoff(granted, RxCut(m))
                           m1 == IF sleeping THEN m ELSE TxStarted(m, dur)
                       IN Settle(Collided(d1, losers, cw, draw),
                                 TimerStarted(m1, kind, dur), t, Exchange(s, kind, dur))
    BY <1>2 DEF GrantAccess, NotifyAccessGranted
  <2> DEFINE losers == Ready(d, m) \ {s}
             granted == [d EXCEPT ![s].requested = FALSE]
  <2>2. s \in States /\ GetAccessGrantStart(m) + Slot <= now
    BY <1>0, ReadyLate
  <2>3. granted \in Dcfs /\ losers \in SUBSET States /\ \A r \in States : granted[r].token = d[r].token
    BY <2>2 DEF Dcfs, Ready
  <2> HIDE DEF losers, granted
  <2>4. PICK cw \in [losers -> CwMin .. CwMax], draw \in [losers -> 0 .. CwMax] :
               \/ Settle(Collided(granted, losers, cw, draw), m, t, e)
               \/ \E kind \in {"ack", "cts", "end"}, dur \in FrameTimes :
                       Settle(Collided(IF sleeping THEN granted ELSE UpdateBackoff(granted, RxCut(m)),
                                       losers, cw, draw),
                              TimerStarted(IF sleeping THEN m ELSE TxStarted(m, dur), kind, dur),
                              t, Exchange(s, kind, dur))
    BY <2>1 DEF losers, granted
  <2>5. CASE Settle(Collided(granted, losers, cw, draw), m, t, e)
    <3> DEFINE c == Collided(granted, losers, cw, draw)
    <3>1. c \in Dcfs /\ \A r \in States : c[r].token = granted[r].token
      BY <2>3, CollidedStates
    <3>2. dcf' = c /\ med' = m /\ exch' = e /\ timer' \in Restarts(t, c, m)
      BY <2>5 DEF Settle
    <3> HIDE DEF c
    <3> QED BY <1>0, <2>2, <2>3, <3>1, <3>2, Restarted DEF Effect
  <2>6. ASSUME NEW kind \in {"ack", "cts", "end"}, NEW dur \in FrameTimes,
               Settle(Collided(IF sleeping THEN granted ELSE UpdateBackoff(granted, RxCut(m)),
                               losers, cw, draw),
                      TimerStarted(IF sleeping THEN m ELSE TxStarted(m, dur), kind, dur),
                      t, Exchange(s, kind, dur))
        PROVE Effect(d, m, t, e)
    <3> DEFINE d1 == IF sleeping THEN granted ELSE UpdateBackoff(granted, RxCut(m))
               m1 == IF sleeping THEN m ELSE TxStarted(m, dur)
               c == Collided(d1, losers, cw, draw)
               m2 == TimerStarted(m1, kind, dur)
    <3>1. RxCut(m) \in Meds /\ m1 \in Meds
      BY <1>0, Cut, Tx
    <3>2. d1 \in Dcfs /\ \A r \in States : d1[r].token = granted[r].token
      BY <2>3, <3>1, Updated
    <3>3. dcf' = c /\ med' = m2 /\ exch' = Exchange(s, kind, dur) /\ timer' \in Restarts(t, c, m2)
      BY <2>6 DEF Settle
    <3>4. Started(m)
      BY <2>2, <3>3 DEF Started
    <3> HIDE DEF m1, d1
    <3>5. c \in Dcfs /\ \A r \in States : c[r].token = d1[r].token
      BY <2>3, <3>2, CollidedStates
    <3>6. m2 \in Meds
      BY <3>1, Answer
    <3> HIDE DEF c, m2
    <3> QED BY <2>2, <2>3, <3>2, <3>3, <3>4, <3>5, <3>6, Restarted DEF Effect
  <2> QED BY <2>4, <2>5, <2>6
<1> QED BY <1>1, <1>2 DEF GrantAccess

\* A request changes neither the types nor the tokens.
LEMMA Requested ==
  ASSUME NEW d \in Dcfs, NEW s \in States
  PROVE  /\ Request(d, s) \in Dcfs
         /\ \A r \in States : /\ Request(d, s)[r].token = d[r].token
                              /\ d[r].requested => Request(d, s)[r].requested
  BY DEF Request, Dcfs

\* The same of the update and the request that open every call.
LEMMA Requesting ==
  ASSUME NEW d \in Dcfs, NEW m \in Meds, NEW s \in States, now \in Nat
  PROVE  /\ Request(UpdateBackoff(d, m), s) \in Dcfs
         /\ \A r \in States :
              /\ Request(UpdateBackoff(d, m), s)[r].token = d[r].token
              /\ d[r].requested => Request(UpdateBackoff(d, m), s)[r].requested
<1> DEFINE u == UpdateBackoff(d, m)
<1>1. u \in Dcfs /\ \A r \in States : u[r].token = d[r].token /\ u[r].requested = d[r].requested
  BY Updated
<1>2. /\ Request(u, s) \in Dcfs
      /\ \A r \in States : /\ Request(u, s)[r].token = d[r].token
                           /\ d[r].requested => Request(u, s)[r].requested
  <2> HIDE DEF u
  <2> QED BY <1>1, Requested
<1> QED BY <1>2

\* NotifyInternalCollision starts no frame.
LEMMA InternalCollisionEffect ==
  ASSUME NEW d \in Dcfs, NEW m \in Meds, NEW t \in Timers, NEW e, now \in Nat, NEW s \in States,
         InternalCollision(d, s, m, t, e)
  PROVE  Effect(d, m, t, e)
<1>1. PICK cw \in [{s} -> CwMin .. CwMax], draw \in [{s} -> 0 .. CwMax] :
        Settle(Collided(d, {s}, cw, draw), m, t, e)
  BY DEF InternalCollision
<1>2. {s} \in SUBSET States
  OBVIOUS
<1> DEFINE c == Collided(d, {s}, cw, draw)
<1>3. c \in Dcfs /\ \A r \in States : c[r].token = d[r].token /\ c[r].requested = d[r].requested
  BY <1>2, CollidedStates
<1>4. Settle(c, m, t, e)
  BY <1>1
<1> HIDE DEF c
<1> QED BY <1>3, <1>4, SettleEffect

\* Effect looks only at the tokens and the requests of the states.
LEMMA EffectOn ==
  ASSUME NEW d, NEW d0, NEW m, NEW t, NEW e, Effect(d, m, t, e),
         \A s \in States : d[s].token = d0[s].token /\ (d0[s].requested => d[s].requested)
  PROVE  Effect(d0, m, t, e)
  BY DEF Effect

\* DcfManager::RequestReaccess.
LEMMA ReaccessEffect ==
  ASSUME NEW d0 \in Dcfs, NEW m, Timely(m), NEW t \in Timers, NEW e, now \in Nat, NEW s \in States,
         DoRequestReaccess(s, d0, m, t, e)
  PROVE  Effect(d0, m, t, e)
<1> DEFINE d == Request(UpdateBackoff(d0, m), s)
<1>1. m \in Meds
  BY DEF Timely
<1>2. d \in Dcfs /\ \A r \in States : d[r].token = d0[r].token /\ (d0[r].requested => d[r].requested)
  BY <1>1, Requesting
<1>3. InternalCollision(d, s, m, t, e) \/ GrantAccess(d, m, t, e)
  BY DEF DoRequestReaccess
<1> HIDE DEF d
<1>4. Effect(d, m, t, e)
  BY <1>1, <1>2, <1>3, InternalCollisionEffect, GrantEffect
<1> QED BY <1>2, <1>4, EffectOn

\* DcfManager::RequestAccess.
LEMMA RequestEffect ==
  ASSUME NEW d0 \in Dcfs, NEW m, Timely(m), NEW t \in Timers, NEW e, now \in Nat, NEW s \in States,
         DoRequestAccess(s, d0, m, t, e)
  PROVE  Effect(d0, m, t, e)
<1>1. CASE MustDefer(s, UpdateBackoff(d0, m), m)
  <2> DEFINE d == Request(UpdateBackoff(d0, m), s)
  <2>1. PICK n \in 0 .. d0[s].cw : Settle(StartBackoff(d, s, d0[s].cw, n), m, t, e)
    BY <1>1 DEF DoRequestAccess
  <2>2. m \in Meds /\ n \in Nat /\ d0[s].cw \in CwMin .. CwMax
    BY DEF Timely, Dcfs
  <2>3. d \in Dcfs /\ \A r \in States : d[r].token = d0[r].token /\ (d0[r].requested => d[r].requested)
    BY <2>2, Requesting
  <2> HIDE DEF d
  <2> DEFINE b == StartBackoff(d, s, d0[s].cw, n)
  <2>4. b \in Dcfs /\ \A r \in States : b[r].token = d[r].token /\ b[r].requested = d[r].requested
    <3>1. \A cw \in CwMin .. CwMax :
            /\ StartBackoff(d, s, cw, n) \in Dcfs
            /\ \A r \in States : /\ StartBackoff(d, s, cw, n)[r].requested = d[r].requested
                                 /\ StartBackoff(d, s, cw, n)[r].token = d[r].token
      BY <2>2, <2>3, BackoffStarted
    <3> QED BY <2>2, <3>1
  <2>5. Settle(b, m, t, e)
    BY <2>1
  <2> HIDE DEF b
  <2> QED BY <2>2, <2>3, <2>4, <2>5, SettleEffect
<1>2. CASE ~MustDefer(s, UpdateBackoff(d0, m), m)
  BY <1>2, ReaccessEffect DEF DoRequestAccess
<1> QED BY <1>1, <1>2

\* RestartAccessIfNeeded of the users.
LEMMA RestartEffect ==
  ASSUME NEW d \in Dcfs, NEW m, Timely(m), NEW t \in Timers, NEW e, now \in Nat, NEW s \in States,
         requests \in Nat,
         RestartAccessIfNeeded(s, d, m, t, e)
  PROVE  Effect(d, m, t, e) /\ requests' \in Nat
<1>1. CASE dcf' = d /\ med' = m /\ timer' = t /\ exch' = e /\ UNCHANGED requests
  BY <1>1 DEF Effect
<1>2. CASE CanRequest(s, d) /\ DoRequestReaccess(s, d, m, t, e)
  BY <1>2, ReaccessEffect DEF CanRequest
<1>3. CASE CanRequest(s, d) /\ DoRequestAccess(s, d, m, t, e)
  BY <1>3, RequestEffect DEF CanRequest
<1> QED BY <1>1, <1>2, <1>3 DEF RestartAccessIfNeeded

-----------------------------------------------------------------------------
(* Types *)

Exchs == {e \in [owner : 0 .. N, awaits : {"none", "ack", "cts", "end", "data", "next"}, due : Timers] :
            e.awaits \notin {"none", "end"} => e.owner \in States}

\* TypeOK with the two facts that make it inductive: a reception does not begin
\* in the future, and an exchange has an owner.
Typed ==
  /\ now \in Nat /\ dcf \in Dcfs /\ Timely(med) /\ timer \in Timers
  /\ sleeping \in BOOLEAN /\ waking \subseteq States
  /\ exch \in Exchs /\ reply \in Timers
  /\ requests \in Nat /\ disturbances \in Nat

\* Typed implies the type invariant.
LEMMA TypedTypeOK == Typed => TypeOK
  BY DEF Typed, TypeOK, Dcfs, Timely, Meds, Timers, Exchs

\* No exchange is an exchange record.
LEMMA NoneTyped == NoExchange \in Exchs
  BY SizeAssumption DEF NoExchange, Exchs, Timers

\* The exchange that a frame begins, and when it is due.
LEMMA ExchangeTyped ==
  ASSUME NEW s \in States, NEW kind \in {"ack", "cts", "end"}, NEW dur \in FrameTimes, now \in Nat
  PROVE  /\ Exchange(s, kind, dur) \in Exchs
         /\ Exchange(s, kind, dur).owner = s /\ Exchange(s, kind, dur).awaits = kind
         /\ Exchange(s, kind, dur).due \in Nat /\ now <= Exchange(s, kind, dur).due
<1>1. 0 .. N = {0} \cup States
  BY SizeAssumption DEF States
<1> QED BY <1>1, TimingAssumption DEF Exchange, Exchs, Timers

\* A request or a grant keeps the types.
LEMMA EffectTyped ==
  ASSUME NEW d, NEW m, NEW t, NEW e \in Exchs, Timely(m), now \in Nat, Effect(d, m, t, e)
  PROVE  /\ dcf' \in Dcfs /\ timer' \in Timers /\ exch' \in Exchs
         /\ med' \in Meds /\ (med'.rxing => med'.rxStart <= now)
<1>1. dcf' \in Dcfs /\ timer' \in Timers
  BY DEF Effect
<1>2. CASE med' = m /\ exch' = e
  BY <1>1, <1>2 DEF Timely
<1>3. CASE Started(m)
  <2>1. PICK s \in States, kind \in {"ack", "cts", "end"}, dur \in FrameTimes :
          /\ med' = TimerStarted(IF sleeping THEN m ELSE TxStarted(m, dur), kind, dur)
          /\ exch' = Exchange(s, kind, dur)
    BY <1>3 DEF Started
  <2> DEFINE m1 == IF sleeping THEN m ELSE TxStarted(m, dur)
  <2>2. m1 \in Meds /\ (m1.rxing => m1.rxStart <= now)
    BY Tx DEF Timely
  <2>3. med' = TimerStarted(m1, kind, dur)
    BY <2>1
  <2> HIDE DEF m1
  <2>4. med' \in Meds /\ (med'.rxing => med'.rxStart <= now)
    BY <2>2, <2>3, Answer
  <2> QED BY <1>1, <2>1, <2>4, ExchangeTyped
<1> QED BY <1>2, <1>3 DEF Effect

\* A frame within an exchange, or in answer, keeps the types.
LEMMA TransmitTyped ==
  ASSUME Typed, NEW kind \in {"ack", "cts", "reply"}, NEW dur \in FrameTimes, Transmit(kind, dur)
  PROVE  dcf' \in Dcfs /\ med' \in Meds /\ ~med'.rxing /\ \A s \in States : dcf'[s].token = dcf[s].token
<1> USE DEF Typed
<1>1. RxCut(med) \in Meds
  BY Cut
<1>2. TxStarted(med, dur) \in Meds /\ ~TxStarted(med, dur).rxing
  BY Tx
<1>3. dcf' = UpdateBackoff(dcf, RxCut(med)) /\ med' = TimerStarted(TxStarted(med, dur), kind, dur)
  BY DEF Transmit
<1>4. med' \in Meds /\ ~med'.rxing
  BY <1>2, <1>3, Answer
<1>5. dcf' \in Dcfs /\ \A s \in States : dcf'[s].token = dcf[s].token
  BY <1>1, <1>3, Updated
<1> QED BY <1>4, <1>5

\* An exchange that goes on after SIFS keeps its owner.
LEMMA NextTyped ==
  ASSUME NEW e \in Exchs, e.awaits \notin {"none", "end"}, NEW kind \in {"data", "next"}, NEW due \in Nat
  PROVE  [e EXCEPT !.awaits = kind, !.due = due] \in Exchs
<1> DEFINE f == [e EXCEPT !.awaits = kind, !.due = due]
<1>1. e \in [owner : 0 .. N, awaits : {"none", "ack", "cts", "end", "data", "next"}, due : Timers]
  BY DEF Exchs
<1>2. f \in [owner : 0 .. N, awaits : {"none", "ack", "cts", "end", "data", "next"}, due : Timers]
  BY <1>1 DEF Timers
<1>3. f.owner = e.owner /\ e.owner \in States
  BY <1>1 DEF Exchs
<1> QED BY <1>2, <1>3 DEF Exchs

\* What CancelAllEvents leaves of an exchange.
LEMMA CancelledTyped == ASSUME NEW e \in Exchs PROVE Cancelled(e) \in Exchs
<1>1. CASE e.awaits = "end"
  <2>1. e \in [owner : 0 .. N, awaits : {"none", "ack", "cts", "end", "data", "next"}, due : Timers]
    BY DEF Exchs
  <2>2. 0 \in 0 .. N
    BY SizeAssumption
  <2>3. [e EXCEPT !.owner = 0] \in [owner : 0 .. N, awaits : {"none", "ack", "cts", "end", "data", "next"}, due : Timers]
    BY <2>1, <2>2
  <2>4. [e EXCEPT !.owner = 0].awaits = "end"
    BY <1>1, <2>1
  <2> QED BY <1>1, <2>3, <2>4 DEF Cancelled, Exchs
<1>2. CASE e.awaits # "end"
  BY <1>2, NoneTyped DEF Cancelled
<1> QED BY <1>1, <1>2

\* The backoff that NotifyWakeupNow gives up, and its request.
LEMMA Forgotten ==
  ASSUME NEW d \in Dcfs, NEW s \in States, now \in Nat
  PROVE  /\ Forget(d[s]) \in [slots : Nat, start : Nat, cw : CwMin .. CwMax,
                               requested : BOOLEAN, token : BOOLEAN]
         /\ ~Forget(d[s]).requested /\ Forget(d[s]).token = d[s].token
<1>1. d[s] \in [slots : Nat, start : Nat, cw : CwMin .. CwMax, requested : BOOLEAN, token : BOOLEAN]
  BY DEF Dcfs
<1>2. (IF d[s].slots > 0 THEN now ELSE d[s].start) \in Nat
  BY <1>1
<1>3. CwMin \in CwMin .. CwMax
  BY TimingAssumption
<1> QED BY <1>1, <1>2, <1>3 DEF Forget

\* The types hold initially.
LEMMA TypedInit == Init => Typed
<1> SUFFICES ASSUME Init PROVE Typed
  OBVIOUS
<1>1. dcf \in Dcfs
  BY TimingAssumption DEF Init, Dcfs
<1>2. Timely(med)
  BY DEF Init, Timely, Meds
<1> QED BY <1>1, <1>2, NoneTyped DEF Init, Typed, Timers

\* Every action keeps the types.
LEMMA TypedStep == Typed /\ [Next]_vars => Typed'
<1> SUFFICES ASSUME Typed, [Next]_vars PROVE Typed'
  OBVIOUS
<1> USE DEF Typed, bounds
<1>0. med \in Meds
  BY DEF Timely
<1>1. CASE UNCHANGED vars
  BY <1>1 DEF vars, Timely
<1>2. CASE Tick
  BY <1>0, <1>2 DEF Tick, Timely, Meds
<1>3. CASE AccessTimeout
  <2> DEFINE u == UpdateBackoff(dcf, med)
  <2>1. u \in Dcfs /\ Off \in Timers
    BY <1>0, Updated DEF Timers
  <2>2. GrantAccess(u, med, Off, exch)
    BY <1>3 DEF AccessTimeout
  <2> HIDE DEF u
  <2>3. Effect(u, med, Off, exch)
    BY <2>1, <2>2, GrantEffect
  <2> QED BY <1>3, <2>3, EffectTyped DEF AccessTimeout, Timely
<1>4. ASSUME NEW s \in States, RequestAccess(s) PROVE Typed'
  <2>1. Effect(dcf, med, timer, exch) /\ requests' \in Nat
    BY <1>4, RequestEffect DEF RequestAccess, CanRequest
  <2> QED BY <1>4, <2>1, EffectTyped DEF RequestAccess, Timely
<1>5. ASSUME NEW s \in States, NEW cmd \in BOOLEAN, SetToken(s, cmd) PROVE Typed'
  <2> DEFINE d == [dcf EXCEPT ![s].token = cmd]
  <2>1. d \in Dcfs
    BY DEF Dcfs
  <2>2. disturbances' \in Nat
    BY <1>5 DEF SetToken, Disturb
  <2>3. CASE cmd
    <3>1. Settle(ResetBackoff(d), med, timer, exch)
      BY <1>5, <2>3 DEF SetToken
    <3> HIDE DEF d
    <3> DEFINE r == ResetBackoff(d)
    <3>2. r \in Dcfs
      BY <2>1 DEF ResetBackoff, Dcfs
    <3>3. dcf' = r /\ med' = med /\ exch' = exch /\ timer' \in Restarts(timer, r, med)
      BY <3>1 DEF Settle
    <3> HIDE DEF r
    <3>4. timer' \in Timers
      BY <1>0, <3>2, <3>3, Restarted
    <3> QED BY <1>5, <2>2, <3>2, <3>3, <3>4 DEF SetToken, Timely
  <2>4. CASE ~cmd
    BY <1>5, <2>1, <2>2, <2>4 DEF SetToken, Timely
  <2> QED BY <2>3, <2>4
<1>6. CASE AnswerTimeout
  <2> DEFINE s == exch.owner
  <2>1. s \in States
    BY <1>6 DEF AnswerTimeout, Exchs
  <2>2. PICK cw \in {FailedCw(dcf[s].cw), CwMin}, n \in 0 .. CwMax :
          RestartAccessIfNeeded(s, StartBackoff(dcf, s, cw, n), med, timer, NoExchange)
    BY <1>6 DEF AnswerTimeout
  <2>3. cw \in CwMin .. CwMax /\ n \in Nat
    <3>1. dcf[s].cw \in CwMin .. CwMax
      BY <2>1 DEF Dcfs
    <3> QED BY <3>1, Failed, TimingAssumption
  <2> HIDE DEF s
  <2> DEFINE d == StartBackoff(dcf, s, cw, n)
  <2>4. d \in Dcfs
    BY <2>1, <2>3, BackoffStarted
  <2>5. RestartAccessIfNeeded(s, d, med, timer, NoExchange)
    BY <2>2
  <2> HIDE DEF d
  <2>6. Effect(d, med, timer, NoExchange) /\ requests' \in Nat
    BY <2>1, <2>4, <2>5, RestartEffect
  <2> QED BY <1>6, <2>6, EffectTyped, NoneTyped DEF AnswerTimeout, Timely
<1>7. CASE EndTxNoAck
  <2> DEFINE s == exch.owner
  <2>1. s \in States
    BY <1>7, SizeAssumption DEF EndTxNoAck, Exchs, States
  <2>2. PICK n \in 0 .. CwMin :
       \/ /\ dcf' = StartBackoff(dcf, s, CwMin, n)
          /\ exch' = NoExchange
          /\ UNCHANGED <<med, timer, requests>>
       \/ /\ CanRequest(s, dcf)
          /\ DoRequestAccess(s, StartBackoff(dcf, s, CwMin, n), med, timer, NoExchange)
    BY <1>7 DEF EndTxNoAck
  <2> HIDE DEF s
  <2> DEFINE d == StartBackoff(dcf, s, CwMin, n)
  <2>3. d \in Dcfs
    <3>1. CwMin \in CwMin .. CwMax /\ n \in Nat
      BY TimingAssumption
    <3> QED BY <2>1, <3>1, BackoffStarted
  <2>4. CASE dcf' = d /\ exch' = NoExchange /\ UNCHANGED <<med, timer, requests>>
    BY <1>7, <2>3, <2>4, NoneTyped DEF EndTxNoAck, Timely
  <2>5. CASE CanRequest(s, dcf) /\ DoRequestAccess(s, d, med, timer, NoExchange)
    <3> HIDE DEF d
    <3>1. Effect(d, med, timer, NoExchange) /\ requests' \in Nat
      BY <2>1, <2>3, <2>5, RequestEffect DEF CanRequest
    <3> QED BY <1>7, <3>1, EffectTyped, NoneTyped DEF EndTxNoAck, Timely
  <2> QED BY <2>2, <2>4, <2>5
<1>8. CASE SendDataAfterCts
  <2>1. PICK dur \in FrameTimes : Transmit("ack", dur) /\ exch' = Exchange(exch.owner, "ack", dur)
    BY <1>8 DEF SendDataAfterCts
  <2>2. exch.owner \in States
    BY <1>8 DEF SendDataAfterCts, Exchs
  <2>3. dcf' \in Dcfs /\ med' \in Meds /\ ~med'.rxing /\ exch' \in Exchs
    BY <2>1, <2>2, TransmitTyped, ExchangeTyped
  <2> QED BY <1>8, <2>3 DEF SendDataAfterCts, Timely
<1>9. CASE StartNext
  <2>1. exch.owner \in States
    BY <1>9 DEF StartNext, Exchs
  <2>2. CASE exch' = NoExchange /\ UNCHANGED <<dcf, med>>
    BY <1>9, <2>2, NoneTyped DEF StartNext, Timely
  <2>3. ASSUME NEW kind \in {"ack", "cts"}, NEW dur \in FrameTimes,
               Transmit(kind, dur), exch' = Exchange(exch.owner, kind, dur)
        PROVE Typed'
    <3>1. dcf' \in Dcfs /\ med' \in Meds /\ ~med'.rxing /\ exch' \in Exchs
      BY <2>1, <2>3, TransmitTyped, ExchangeTyped
    <3> QED BY <1>9, <3>1 DEF StartNext, Timely
  <2> QED BY <1>9, <2>2, <2>3 DEF StartNext
<1>10. CASE SendReply
  <2>1. PICK dur \in FrameTimes : Transmit("reply", dur)
    BY <1>10 DEF SendReply
  <2>2. dcf' \in Dcfs /\ med' \in Meds /\ ~med'.rxing
    BY <2>1, TransmitTyped
  <2>3. /\ UNCHANGED <<now, timer, sleeping, waking, exch, requests, disturbances>>
        /\ reply' \in Timers
    BY <1>10 DEF SendReply, Timers
  <2> QED BY <2>2, <2>3 DEF Timely
<1>11. ASSUME NEW dur \in FrameTimes, RxStart(dur) PROVE Typed'
  <2>1. dcf' \in Dcfs
    BY <1>0, <1>11, Updated DEF RxStart
  <2>2. dur \in Nat
    BY TimingAssumption
  <2>3. med' \in Meds /\ med'.rxStart = now
    BY <1>0, <1>11, <2>2 DEF RxStart, Meds
  <2> QED BY <1>11, <2>1, <2>3 DEF RxStart, Disturb, Timely
<1>12. CASE RxEndError
  BY <1>0, <1>12 DEF RxEndError, RxEnded, Timely, Meds
<1>13. CASE RxEndOk
  <2> DEFINE m == RxEnded(med, TRUE)
  <2>1. m \in Meds /\ ~m.rxing
    BY <1>0 DEF RxEnded, Meds
  <2>2. RxOther(m) \/ RxForMe(m) \/ RxCts(m) \/ RxAck(m)
    BY <1>13 DEF RxEndOk
  <2>3. UNCHANGED <<now, sleeping, waking>>
    BY <1>13 DEF RxEndOk
  <2> HIDE DEF m
  <2>4. CASE RxOther(m)
    <3>1. PICK dur \in {0} \cup Durations :
            /\ dcf' = UpdateBackoff(dcf, m)
            /\ med' = [m EXCEPT !.navEnd = MostRecent(@, now + dur)]
      BY <2>4 DEF RxOther
    <3>2. med' \in Meds /\ ~med'.rxing
      BY <2>1, <3>1, TimingAssumption DEF Meds, MostRecent
    <3> QED BY <2>1, <2>3, <2>4, <3>1, <3>2, Updated DEF RxOther, Timely
  <2>5. CASE RxForMe(m)
    BY <2>1, <2>3, <2>5, TimingAssumption DEF RxForMe, Timely, Timers
  <2>6. CASE RxCts(m)
    <3>1. med' \in Meds /\ ~med'.rxing
      BY <2>1, <2>6 DEF RxCts, Meds
    <3>2. timer' \in Timers
      BY <2>6, <3>1, Restarted DEF RxCts
    <3>3. exch' \in Exchs
      <4>1. now + Sifs \in Nat
        BY TimingAssumption
      <4> QED BY <2>6, <4>1, NextTyped DEF RxCts
    <3> QED BY <2>3, <2>6, <3>1, <3>2, <3>3 DEF RxCts, Timely
  <2>7. CASE RxAck(m)
    <3> DEFINE s == exch.owner
               acked == [m EXCEPT !.ackEnd = now]
               next == [exch EXCEPT !.awaits = "next", !.due = now + Sifs]
    <3>1. s \in States
      BY <2>7 DEF RxAck, Exchs
    <3>2. Timely(acked)
      BY <2>1 DEF Timely, Meds
    <3>3. next \in Exchs
      <4>1. now + Sifs \in Nat
        BY TimingAssumption
      <4> QED BY <2>7, <4>1, NextTyped DEF RxAck
    <3>4. PICK t \in Restarts(timer, dcf, acked) :
          \/ /\ dcf' = dcf /\ exch' = next
             /\ med' = acked /\ timer' = t /\ UNCHANGED requests
          \/ /\ s \in Edca
             /\ dcf' = [dcf EXCEPT ![s].cw = CwMin] /\ exch' \in {NoExchange, next}
             /\ med' = acked /\ timer' = t /\ UNCHANGED requests
          \/ \E n \in IF dcf[s].token THEN {0} ELSE 0 .. CwMin,
                e \in {NoExchange} \cup (IF s \in Edca THEN {next} ELSE {}) :
               RestartAccessIfNeeded(s, StartBackoff(dcf, s, CwMin, n), acked, t, e)
      BY <2>7 DEF RxAck
    <3>5. UNCHANGED <<reply, disturbances>>
      BY <2>7 DEF RxAck
    <3> HIDE DEF s, acked, next
    <3>6. acked \in Meds
      BY <3>2 DEF Timely
    <3>7. t \in Timers
      BY <3>6, Restarted
    <3>8. CwMin \in CwMin .. CwMax /\ 0 .. CwMin \subseteq Nat /\ 0 \in Nat
      BY TimingAssumption
    <3>9. CASE dcf' = dcf /\ exch' = next /\ med' = acked /\ timer' = t /\ UNCHANGED requests
      BY <2>3, <3>2, <3>3, <3>5, <3>7, <3>9 DEF Timely
    <3>10. CASE /\ dcf' = [dcf EXCEPT ![s].cw = CwMin] /\ exch' \in {NoExchange, next}
                /\ med' = acked /\ timer' = t /\ UNCHANGED requests
      <4>1. dcf' \in Dcfs
        BY <3>8, <3>10 DEF Dcfs
      <4> QED BY <2>3, <3>2, <3>3, <3>5, <3>7, <3>10, <4>1, NoneTyped DEF Timely
    <3>11. ASSUME NEW n \in Nat, NEW e \in {NoExchange, next},
                  RestartAccessIfNeeded(s, StartBackoff(dcf, s, CwMin, n), acked, t, e)
           PROVE Typed'
      <4> DEFINE d == StartBackoff(dcf, s, CwMin, n)
      <4>1. d \in Dcfs
        BY <3>1, <3>8, BackoffStarted
      <4>2. RestartAccessIfNeeded(s, d, acked, t, e)
        BY <3>11
      <4>3. e \in Exchs
        BY <3>3, NoneTyped
      <4> HIDE DEF d
      <4>4. Effect(d, acked, t, e) /\ requests' \in Nat
        BY <3>1, <3>2, <3>7, <4>1, <4>2, RestartEffect
      <4> QED BY <2>3, <3>2, <3>5, <4>3, <4>4, EffectTyped DEF Timely
    <3>12. CASE \E n \in IF dcf[s].token THEN {0} ELSE 0 .. CwMin,
                  e \in {NoExchange} \cup (IF s \in Edca THEN {next} ELSE {}) :
                    RestartAccessIfNeeded(s, StartBackoff(dcf, s, CwMin, n), acked, t, e)
      BY <3>8, <3>11, <3>12
    <3> QED BY <3>4, <3>9, <3>10, <3>12
  <2> QED BY <2>2, <2>4, <2>5, <2>6, <2>7
<1>14. ASSUME NEW dur \in Durations, MaybeCcaBusyStart(dur) PROVE Typed'
  <2>1. dcf' \in Dcfs
    BY <1>0, <1>14, Updated DEF MaybeCcaBusyStart
  <2>2. med' \in Meds /\ (med'.rxing => med'.rxStart <= now)
    BY <1>0, <1>14, TimingAssumption DEF MaybeCcaBusyStart, Timely, Meds
  <2> QED BY <1>14, <2>1, <2>2 DEF MaybeCcaBusyStart, Disturb, Timely
<1>15. CASE NavReset
  <2> DEFINE u == UpdateBackoff(dcf, med)
             m == [med EXCEPT !.navEnd = now]
  <2>1. u \in Dcfs
    BY <1>0, Updated
  <2>2. m \in Meds /\ (m.rxing => m.rxStart <= now)
    BY <1>0 DEF Timely, Meds
  <2>3. Settle(u, m, timer, exch)
    BY <1>15 DEF NavReset
  <2> HIDE DEF u, m
  <2>4. dcf' = u /\ med' = m /\ exch' = exch /\ timer' \in Restarts(timer, u, m)
    BY <2>3 DEF Settle
  <2>5. timer' \in Timers
    BY <2>1, <2>2, <2>4, Restarted
  <2> QED BY <1>15, <2>1, <2>2, <2>4, <2>5 DEF NavReset, Disturb, Timely
<1>16. ASSUME NEW dur \in Durations, SwitchingStart(dur) PROVE Typed'
  <2>1. dcf' \in Dcfs
    BY <1>16, Forgotten DEF SwitchingStart, Dcfs
  <2>2. med' \in Meds /\ ~med'.rxing
    <3> DEFINE m == IF med.rxing THEN [RxEnded(med, TRUE) EXCEPT !.rxDur = now - med.rxStart] ELSE med
    <3>1. m \in Meds /\ ~m.rxing
      <4>1. med.rxing => now - med.rxStart \in Nat
        BY <1>0 DEF Timely, Meds
      <4> QED BY <1>0, <4>1 DEF RxEnded, Meds
    <3>2. med' = [m EXCEPT !.navEnd = Least(@, now), !.busyEnd = Least(@, now),
                           !.ackEnd = Least(@, now), !.ctsEnd = Least(@, now),
                           !.switchEnd = now + dur]
      BY <1>16 DEF SwitchingStart, SwitchingStarted
    <3> HIDE DEF m
    <3>3. /\ Least(m.navEnd, now) \in Nat /\ Least(m.busyEnd, now) \in Nat
          /\ Least(m.ackEnd, now) \in Nat /\ Least(m.ctsEnd, now) \in Nat /\ now + dur \in Nat
      BY <3>1, TimingAssumption DEF Meds, Least
    <3> QED BY <3>1, <3>2, <3>3 DEF Meds
  <2>3. Cancelled(exch) \in Exchs
    BY <1>0, NoneTyped, CancelledTyped
  <2> QED BY <1>16, <2>1, <2>2, <2>3, NoneTyped DEF SwitchingStart, Disturb, Timely, Timers
<1>17. CASE Sleep
  <2>1. Cancelled(exch) \in Exchs
    BY <1>0, NoneTyped, CancelledTyped
  <2> QED BY <1>17, <2>1, NoneTyped DEF Sleep, Disturb, Timely, Timers
<1>18. CASE Wakeup
  BY <1>18 DEF Wakeup, Timely
<1>19. ASSUME NEW s \in States, NotifyWakeUp(s) PROVE Typed'
  <2> DEFINE d == [dcf EXCEPT ![s] = Forget(@)]
  <2>1. d \in Dcfs
    BY Forgotten DEF Dcfs
  <2>2. RestartAccessIfNeeded(s, d, med, timer, exch)
    BY <1>19 DEF NotifyWakeUp
  <2> HIDE DEF d
  <2>3. Effect(d, med, timer, exch) /\ requests' \in Nat
    BY <2>1, <2>2, RestartEffect
  <2> QED BY <1>19, <2>3, EffectTyped DEF NotifyWakeUp, Timely
<1> QED
  BY <1>1, <1>2, <1>3, <1>4, <1>5, <1>6, <1>7, <1>8, <1>9, <1>10, <1>11, <1>12, <1>13, <1>14,
     <1>15, <1>16, <1>17, <1>18, <1>19 DEF Next, User, Due, Medium

\* The backoffs, windows and timers of DcfManager keep their types in every
\* behaviour.
THEOREM TypeCorrect == Spec => []TypeOK
<1>1. Typed /\ [Next]_vars => Typed'
  BY TypedStep
<1> QED BY <1>1, TypedInit, TypedTypeOK, PTL DEF Spec
=============================================================================
