--------------------------- MODULE MrWifiProofs ----------------------------
(***************************************************************************)
(* The token is exclusive, for any number of stations and radios.          *)
(*                                                                         *)
(* The argument follows one block ack of the first channel: while it is on *)
(* its way, every holder of the token is the station that it answers or is *)
(* about to overhear it (Handover), so that the station which has got it   *)
(* is the only holder when the medium is idle again.                       *)
(***************************************************************************)
EXTENDS MrWifi, FiniteSetTheorems, WellFoundedInduction, TLAPS

USE NodesAssumption, SizesAssumption

-----------------------------------------------------------------------------
(* The operators on a queue *)

\* There is a first radio.
LEMMA FirstRadio == 0 \in Radios
  BY DEF Radios

\* Enqueued leaves a queue, and its token as it was.
LEMMA EnqueuedType ==
  ASSUME NEW r \in BeQueues, NEW e \in Enqueued(r)
  PROVE  e \in BeQueues /\ e.token = r.token
<1> DEFINE longer == IF r.queue = MaxSize THEN r ELSE [r EXCEPT !.queue = @ + 1]
<1>1. longer \in BeQueues /\ longer.token = r.token
  BY DEF BeQueues
<1>2. e = longer \/ \E n \in 0 .. Cw : e = [longer EXCEPT !.slots = n]
  BY DEF Enqueued
<1> HIDE DEF longer
<1> QED
  BY <1>1, <1>2 DEF BeQueues

\* So does the end of an exchange.
LEMMA EndedType ==
  ASSUME NEW r \in BeQueues, NEW B \in SUBSET (0 .. Cw), NEW e \in Ended(r, B)
  PROVE  e \in BeQueues /\ e.token = r.token
<1>1. PICK n \in B : e \in {[r EXCEPT !.more = m, !.slots = n] : m \in BOOLEAN}
  BY Zenon DEF Ended
<1>2. PICK m \in BOOLEAN : e = [r EXCEPT !.more = m, !.slots = n]
  BY <1>1, Zenon
<1>3. e = [queue |-> r.queue, more |-> m, slots |-> n, token |-> r.token]
  BY <1>2 DEF BeQueues
<1>4. n \in 0 .. Cw
  OBVIOUS
<1> QED BY <1>3, <1>4 DEF BeQueues

\* So does its start.
LEMMA TakenType ==
  ASSUME NEW r \in BeQueues, NEW e \in Taken(r)
  PROVE  e \in BeQueues /\ e.token = r.token
<1>1. PICK left \in 0 .. r.queue : e = [r EXCEPT !.queue = left, !.more = TRUE]
  BY DEF Taken
<1>2. left \in 0 .. MaxSize
  BY DEF BeQueues
<1> QED BY <1>1, <1>2 DEF BeQueues

\* A wait is a number of slots, at least one.
LEMMA WaitNat ==
  ASSUME NEW r \in BeQueues
  PROVE  Ifs(r) \in Nat \ {0} /\ Wait(r) \in Nat /\ Ifs(r) <= Wait(r)
  BY DEF Ifs, Wait, BeQueues

\* Slots that go by leave no more of the backoff.
LEMMA ElapsedType ==
  ASSUME NEW r \in BeQueues, NEW w \in Nat
  PROVE  Elapsed(r, w) \in BeQueues /\ Elapsed(r, w).token = r.token
<1>1. Ifs(r) \in Nat \ {0}
  BY WaitNat
<1>2. CASE w < Ifs(r)
  BY <1>2 DEF Elapsed
<1>3. CASE ~(w < Ifs(r))
  <2> DEFINE left == IF r.slots <= w - Ifs(r) + 1 THEN 0 ELSE r.slots - (w - Ifs(r) + 1)
  <2>1. left \in 0 .. Cw
    BY <1>1, <1>3 DEF BeQueues
  <2>2. Elapsed(r, w) = [r EXCEPT !.slots = left]
    BY <1>3 DEF Elapsed
  <2> HIDE DEF left
  <2> QED BY <2>1, <2>2 DEF BeQueues
<1> QED BY <1>2, <1>3

\* SetTokens sets the token of the later radios and of these alone.
LEMMA SetTokensType ==
  ASSUME NEW radios \in [Radios -> BeQueues], NEW cmd \in BOOLEAN
  PROVE  /\ SetTokens(radios, cmd) \in [Radios -> BeQueues]
         /\ \A k \in Radios : SetTokens(radios, cmd)[k].token =
                                IF k \in Later THEN cmd ELSE radios[k].token
<1>1. ASSUME NEW r \in BeQueues
      PROVE  SetToken(r, cmd) \in BeQueues /\ SetToken(r, cmd).token = cmd
  <2>1. CASE cmd /\ ~r.token
    <3>1. SetToken(r, cmd) = [r EXCEPT !.token = TRUE, !.slots = 0]
      BY <2>1 DEF SetToken
    <3>2. 0 \in 0 .. Cw /\ cmd = TRUE
      BY <2>1
    <3> QED BY <3>1, <3>2 DEF BeQueues
  <2>2. CASE ~(cmd /\ ~r.token)
    <3>1. SetToken(r, cmd) = [r EXCEPT !.token = cmd]
      BY <2>2 DEF SetToken
    <3> QED BY <3>1 DEF BeQueues
  <2> QED BY <2>1, <2>2
<1> QED BY <1>1 DEF SetTokens, Later

-----------------------------------------------------------------------------
(* The types *)

\* The variables have their types.
Typed ==
  /\ radio \in [Nodes -> [Radios -> BeQueues]]
  /\ dev \in [Nodes -> Devices]
  /\ air \in [Radios -> Ongoing]

\* A step leaves every token as it was.
TokensKept ==
  \A n \in Nodes :
    /\ dev'[n].token = dev[n].token
    /\ \A k \in Radios : radio'[n][k].token = radio[n][k].token

LEMMA EnqueueTypes ==
  ASSUME Typed, NEW n \in Nodes, NEW k \in Radios, Enqueue(n, k)
  PROVE  Typed' /\ TokensKept
<1>1. PICK r \in Enqueued(radio[n][k]) : radio' = [radio EXCEPT ![n][k] = r]
  BY DEF Enqueue
<1>2. r \in BeQueues /\ r.token = radio[n][k].token
  BY EnqueuedType DEF Typed
<1>3. UNCHANGED <<dev, air>>
  BY DEF Enqueue
<1>4. /\ radio' \in [Nodes -> [Radios -> BeQueues]]
      /\ \A m \in Nodes, j \in Radios : radio'[m][j].token = radio[m][j].token
  BY <1>1, <1>2 DEF Typed
<1> QED BY <1>3, <1>4 DEF Typed, TokensKept

LEMMA ResetStatisticsTypes ==
  ASSUME Typed, NEW n \in Nodes, ResetStatistics(n)
  PROVE  Typed' /\ TokensKept
<1>1. [k \in Radios |-> 0] \in Counts /\ [k \in Radios |-> IF Awaiting(n, k) THEN 1 ELSE 0] \in Counts
  BY DEF Counts
<1>2. dev' \in [Nodes -> Devices] /\ \A m \in Nodes : dev'[m].token = dev[m].token
  <2>1. PICK none \in Counts, begun \in Counts :
          dev' = [dev EXCEPT ![n].received = none, ![n].missed = none, ![n].begun = begun]
    BY <1>1 DEF ResetStatistics
  <2>2. dev[n] \in Devices
    BY DEF Typed
  <2>3. /\ [dev[n] EXCEPT !.received = none, !.missed = none, !.begun = begun] \in Devices
        /\ [dev[n] EXCEPT !.received = none, !.missed = none, !.begun = begun].token = dev[n].token
    BY <2>2 DEF Devices
  <2> QED BY <2>1, <2>3 DEF Typed
<1> QED BY <1>2 DEF ResetStatistics, Typed, TokensKept

LEMMA AccessTypes ==
  ASSUME Typed, NEW k \in Radios, Access(k)
  PROVE  /\ Typed' /\ TokensKept
         /\ \E from \in SUBSET Nodes :
              \E ba \in SUBSET from :
                /\ \A n \in ba : Peers[n] # {}
                /\ air' = [air EXCEPT ![k] = Data(from, ba)]
<1>1. First(k) \subseteq Nodes
  BY DEF First, Contenders
<1>2. PICK w \in {Wait(radio[n][k]) : n \in First(k)},
           ba \in SUBSET {n \in First(k) : Peers[n] # {} /\ dev[n].begun[k] < MaxExchanges},
           taken \in [First(k) -> UNION {Taken(radio[n][k]) : n \in First(k)}] :
        /\ \A n \in First(k) : taken[n] \in Taken(radio[n][k])
        /\ radio' = [n \in Nodes |->
                       [radio[n] EXCEPT ![k] = IF n \in First(k) THEN taken[n] ELSE Elapsed(@, w)]]
        /\ air' = [air EXCEPT ![k] = Data(First(k), ba)]
        /\ dev' = [n \in Nodes |-> [dev[n] EXCEPT !.begun[k] = IF n \in ba THEN @ + 1 ELSE @]]
  BY Zenon DEF Access
<1>3. w \in Nat
  BY <1>1, WaitNat DEF Typed
<1> DEFINE next(n) == IF n \in First(k) THEN taken[n] ELSE Elapsed(radio[n][k], w)
<1>4. ASSUME NEW n \in Nodes
      PROVE  next(n) \in BeQueues /\ next(n).token = radio[n][k].token
  <2>1. radio[n][k] \in BeQueues
    BY DEF Typed
  <2>2. CASE n \in First(k)
    BY <1>2, <2>1, <2>2, TakenType
  <2>3. CASE n \notin First(k)
    BY <1>3, <2>1, <2>3, ElapsedType
  <2> QED BY <2>2, <2>3
<1>5. /\ radio' \in [Nodes -> [Radios -> BeQueues]]
      /\ \A m \in Nodes, j \in Radios : radio'[m][j].token = radio[m][j].token
  <2>1. radio' = [n \in Nodes |-> [radio[n] EXCEPT ![k] = next(n)]]
    BY <1>2
  <2> HIDE DEF next
  <2> QED BY <1>4, <2>1 DEF Typed
<1>6. dev' \in [Nodes -> Devices] /\ \A m \in Nodes : dev'[m].token = dev[m].token
  <2> DEFINE begun(n) == [dev[n].begun EXCEPT ![k] = IF n \in ba THEN @ + 1 ELSE @]
  <2>1. ASSUME NEW n \in Nodes PROVE dev[n] \in Devices /\ begun(n) \in Counts
    BY DEF Typed, Devices, Counts
  <2>2. dev' = [n \in Nodes |-> [dev[n] EXCEPT !.begun = begun(n)]]
    BY <1>2
  <2> HIDE DEF begun
  <2> QED BY <2>1, <2>2 DEF Devices
<1>7. Data(First(k), ba) \in Ongoing
  BY <1>1 DEF Data, Ongoing
<1>8. air' \in [Radios -> Ongoing]
  BY <1>2, <1>7 DEF Typed
<1> QED BY <1>1, <1>2, <1>5, <1>6, <1>8 DEF Typed, TokensKept

LEMMA AnswerTypes ==
  ASSUME Typed, NEW k \in Radios, Answer(k)
  PROVE  /\ Typed' /\ TokensKept
         /\ \E n \in air[k].ba : \E r \in Peers[n] :
              air' = [air EXCEPT ![k] = BlockAck(r, n, Nodes \ {r})]
<1>1. PICK n \in air[k].ba :
        \E r \in Peers[n] : air' = [air EXCEPT ![k] = BlockAck(r, n, Nodes \ {r})]
  BY DEF Answer
<1>2. PICK r \in Peers[n] : air' = [air EXCEPT ![k] = BlockAck(r, n, Nodes \ {r})]
  BY <1>1
<1>3. n \in Nodes
  BY DEF Answer, Typed, Ongoing
<1>4. BlockAck(r, n, Nodes \ {r}) \in Ongoing
  BY <1>3 DEF BlockAck, Ongoing
<1> QED BY <1>2, <1>3, <1>4 DEF Answer, Typed, TokensKept

\* One more miss is counted; the token is as it was.
LEMMA MissedAckType ==
  ASSUME Typed, NEW n \in Nodes, NEW k \in Radios
  PROVE  MissedAck(n, k) \in Devices /\ MissedAck(n, k).token = dev[n].token
<1>1. [dev[n].missed EXCEPT ![k] = @ + 1] \in Counts
  BY DEF Typed, Devices, Counts
<1>2. MissedAck(n, k) = [dev[n] EXCEPT !.missed = [dev[n].missed EXCEPT ![k] = @ + 1]]
  BY DEF MissedAck
<1>3. dev[n] \in Devices
  BY DEF Typed
<1> QED BY <1>1, <1>2, <1>3 DEF Devices

LEMMA UnansweredTypes ==
  ASSUME Typed, NEW k \in Radios, Unanswered(k)
  PROVE  Typed' /\ TokensKept /\ air' = [air EXCEPT ![k] = Idle]
<1>1. PICK ended \in [air[k].from -> UNION {Ended(radio[n][k], 0 .. Cw) : n \in air[k].from}] :
        /\ \A n \in air[k].from : ended[n] \in Ended(radio[n][k], 0 .. Cw)
        /\ radio' = [n \in Nodes |->
                       IF n \in air[k].from THEN [radio[n] EXCEPT ![k] = ended[n]] ELSE radio[n]]
  BY Zenon DEF Unanswered
<1>2. ASSUME NEW n \in Nodes, n \in air[k].from
      PROVE  ended[n] \in BeQueues /\ ended[n].token = radio[n][k].token
  BY <1>1, <1>2, EndedType DEF Typed
<1>3. /\ radio' \in [Nodes -> [Radios -> BeQueues]]
      /\ \A m \in Nodes, j \in Radios : radio'[m][j].token = radio[m][j].token
  BY <1>1, <1>2 DEF Typed
<1>4. dev' = [n \in Nodes |-> IF n \in air[k].ba THEN MissedAck(n, k) ELSE dev[n]]
  BY DEF Unanswered
<1>5. dev' \in [Nodes -> Devices] /\ \A m \in Nodes : dev'[m].token = dev[m].token
  BY <1>4, MissedAckType DEF Typed
<1>6. air' = [air EXCEPT ![k] = Idle] /\ Idle \in Ongoing
  BY DEF Unanswered, Idle, Ongoing
<1> QED BY <1>3, <1>5, <1>6 DEF Typed, TokensKept

\* When one more station has been reached, the channel is idle or the block ack
\* is pending for the others.
LEMMA ReachedTypes ==
  ASSUME Typed, NEW k \in Radios, NEW n \in Nodes, air[k].st = "ba", Reached(k, n)
  PROVE  /\ air' \in [Radios -> Ongoing]
         /\ \A j \in Radios \ {k} : air'[j] = air[j]
         /\ \/ air'[k] = Idle /\ air[k].pending \subseteq {n}
            \/ air'[k] = BlockAck(air[k].from, air[k].to, air[k].pending \ {n})
<1> DEFINE left == air[k].pending \ {n}
           rest == IF left = {} THEN Idle ELSE BlockAck(air[k].from, air[k].to, left)
<1>1. rest \in Ongoing
  BY DEF Typed, Ongoing, Idle, BlockAck
<1>2. air' = [air EXCEPT ![k] = rest]
  BY DEF Reached
<1>3. (rest = Idle /\ air[k].pending \subseteq {n}) \/ rest = BlockAck(air[k].from, air[k].to, left)
  OBVIOUS
<1> HIDE DEF rest
<1> QED BY <1>1, <1>2, <1>3 DEF Typed

\* A block ack that is got is counted; on the first channel it gives the token.
LEMMA GotBlockAckTypes ==
  ASSUME Typed, NEW k \in Radios, GotBlockAck(k)
  PROVE  LET n == air[k].to
             gained == k = 0 /\ n \in Proposed
         IN /\ n \in Nodes /\ n \in air[k].pending /\ air[k].st = "ba" /\ Reached(k, n)
            /\ Typed'
            /\ \A m \in Nodes : dev'[m].token = IF m = n /\ gained THEN TRUE ELSE dev[m].token
            /\ \A m \in Nodes, j \in Radios :
                 radio'[m][j].token = IF m = n /\ gained /\ j \in Later THEN TRUE ELSE radio[m][j].token
<1> DEFINE n == air[k].to
           gained == k = 0 /\ n \in Proposed
<1>1. n \in Nodes /\ n \in air[k].pending /\ air[k].st = "ba" /\ Reached(k, n)
  BY DEF GotBlockAck, Typed, Ongoing
<1>2. PICK e \in Ended(radio[n][k], IF radio[n][k].token THEN {0} ELSE 0 .. Cw) :
        GotAck(n, k, [radio[n] EXCEPT ![k] = e])
  BY DEF GotBlockAck
<1>3. e \in BeQueues /\ e.token = radio[n][k].token
  <2>1. (IF radio[n][k].token THEN {0} ELSE 0 .. Cw) \in SUBSET (0 .. Cw)
    OBVIOUS
  <2> QED BY <1>1, <1>2, <2>1, EndedType DEF Typed
<1> DEFINE radios == [radio[n] EXCEPT ![k] = e]
<1>4. radios \in [Radios -> BeQueues] /\ \A j \in Radios : radios[j].token = radio[n][j].token
  BY <1>1, <1>3 DEF Typed
<1>5. dev' = [dev EXCEPT ![n] = [dev[n] EXCEPT !.token = @ \/ gained, !.received[k] = @ + 1]]
  BY <1>1, <1>2 DEF GotAck, Typed
<1>6. radio' = [radio EXCEPT ![n] = IF gained THEN SetTokens(radios, TRUE) ELSE radios]
  BY <1>2 DEF GotAck
<1>7. /\ radio' \in [Nodes -> [Radios -> BeQueues]]
      /\ \A m \in Nodes, j \in Radios :
           radio'[m][j].token = IF m = n /\ gained /\ j \in Later THEN TRUE ELSE radio[m][j].token
  <2> HIDE DEF n, gained, radios
  <2>1. CASE gained
    <3>1. /\ SetTokens(radios, TRUE) \in [Radios -> BeQueues]
          /\ \A j \in Radios : SetTokens(radios, TRUE)[j].token =
                                 IF j \in Later THEN TRUE ELSE radios[j].token
      BY <1>4, SetTokensType
    <3>2. radio' = [radio EXCEPT ![n] = SetTokens(radios, TRUE)]
      BY <1>6, <2>1
    <3> QED BY <1>1, <1>4, <2>1, <3>1, <3>2 DEF Typed
  <2>2. CASE ~gained
    BY <1>1, <1>4, <1>6, <2>2 DEF Typed
  <2> QED BY <2>1, <2>2
<1>8. /\ dev' \in [Nodes -> Devices]
      /\ \A m \in Nodes : dev'[m].token = IF m = n /\ gained THEN TRUE ELSE dev[m].token
  <2> DEFINE received == [dev[n].received EXCEPT ![k] = @ + 1]
             d == [dev[n] EXCEPT !.token = dev[n].token \/ gained, !.received = received]
  <2>1. received \in Counts /\ dev[n] \in Devices
    BY <1>1 DEF Typed, Devices, Counts
  <2>2. (dev[n].token \/ gained) \in BOOLEAN
    BY <1>1 DEF Typed, Devices
  <2>3. dev' = [dev EXCEPT ![n] = d]
    BY <1>5
  <2>4. d \in Devices /\ d.token = (dev[n].token \/ gained)
    <3> HIDE DEF n, gained, received
    <3> QED BY <2>1, <2>2 DEF Devices
  <2>5. d.token = IF gained THEN TRUE ELSE dev[n].token
    <3> HIDE DEF n, gained, d
    <3>1. CASE gained
      BY <2>4, <3>1
    <3>2. CASE ~gained
      <4>1. dev[n].token \in BOOLEAN
        BY <2>1 DEF Devices
      <4>2. (dev[n].token \/ gained) = dev[n].token
        BY <3>2, <4>1
      <4> QED BY <2>4, <3>2, <4>2
    <3> QED BY <3>1, <3>2
  <2> HIDE DEF n, gained, d
  <2> QED BY <1>1, <2>3, <2>4, <2>5 DEF Typed
<1>9. air' \in [Radios -> Ongoing]
  BY <1>1, ReachedTypes
<1> QED BY <1>1, <1>7, <1>8, <1>9 DEF Typed

\* On another channel than the first it leaves the tokens as they were.
LEMMA GotElsewhere ==
  ASSUME Typed, NEW k \in Radios, k # 0, GotBlockAck(k)
  PROVE  TokensKept /\ air[k].to \in Nodes /\ air[k].st = "ba" /\ Reached(k, air[k].to)
<1> DEFINE n == air[k].to
           gained == k = 0 /\ n \in Proposed
<1>1. /\ n \in Nodes /\ air[k].st = "ba" /\ Reached(k, n)
      /\ \A m \in Nodes : dev'[m].token = IF m = n /\ gained THEN TRUE ELSE dev[m].token
      /\ \A m \in Nodes, j \in Radios :
           radio'[m][j].token = IF m = n /\ gained /\ j \in Later THEN TRUE ELSE radio[m][j].token
  BY GotBlockAckTypes
<1>2. ~gained
  OBVIOUS
<1> HIDE DEF n, gained
<1>3. TokensKept
  BY <1>1, <1>2 DEF TokensKept
<1> QED BY <1>1, <1>3 DEF n

\* OverheardAck takes the token of a station, and nothing else.
LEMMA OverheardAckTypes ==
  ASSUME Typed, NEW n \in Nodes, OverheardAck(n), air' \in [Radios -> Ongoing]
  PROVE  /\ Typed'
         /\ \A m \in Nodes : dev'[m].token = IF m = n THEN FALSE ELSE dev[m].token
         /\ \A m \in Nodes, j \in Radios :
              radio'[m][j].token = IF m = n /\ j \in Later THEN FALSE ELSE radio[m][j].token
<1>1. /\ SetTokens(radio[n], FALSE) \in [Radios -> BeQueues]
      /\ \A j \in Radios : SetTokens(radio[n], FALSE)[j].token =
                             IF j \in Later THEN FALSE ELSE radio[n][j].token
  BY SetTokensType DEF Typed
<1>2. radio' = [radio EXCEPT ![n] = SetTokens(radio[n], FALSE)]
  BY DEF OverheardAck
<1>3. dev' \in [Nodes -> Devices]
      /\ \A m \in Nodes : dev'[m].token = IF m = n THEN FALSE ELSE dev[m].token
  BY DEF OverheardAck, Typed, Devices
<1> QED BY <1>1, <1>2, <1>3 DEF Typed

LEMMA UndecodedTypes ==
  ASSUME Typed, NEW k \in Radios, NEW n \in Nodes, Undecoded(k, n)
  PROVE  Typed' /\ TokensKept
<1>1. air' \in [Radios -> Ongoing]
  BY ReachedTypes DEF Undecoded
<1>2. CASE UNCHANGED <<radio, dev>>
  BY <1>1, <1>2 DEF Typed, TokensKept
<1>3. CASE /\ \E e \in Ended(radio[n][k], 0 .. Cw) : radio' = [radio EXCEPT ![n][k] = e]
           /\ dev' = [dev EXCEPT ![n] = MissedAck(n, k)]
  <2>1. PICK e \in Ended(radio[n][k], 0 .. Cw) : radio' = [radio EXCEPT ![n][k] = e]
    BY <1>3
  <2>2. e \in BeQueues /\ e.token = radio[n][k].token
    BY <2>1, EndedType DEF Typed
  <2>3. /\ radio' \in [Nodes -> [Radios -> BeQueues]]
        /\ \A m \in Nodes, j \in Radios : radio'[m][j].token = radio[m][j].token
    BY <2>1, <2>2 DEF Typed
  <2>4. dev' \in [Nodes -> Devices] /\ \A m \in Nodes : dev'[m].token = dev[m].token
    BY <1>3, MissedAckType DEF Typed
  <2> QED BY <1>1, <2>3, <2>4 DEF Typed, TokensKept
<1> QED BY <1>2, <1>3 DEF Undecoded

-----------------------------------------------------------------------------
(* Type correctness *)

\* m_token of a device is the token of its later radios, and of these alone.
Agreement ==
  /\ \A n \in Nodes : ~radio[n][0].token /\ \A k \in Later : radio[n][k].token = dev[n].token
  /\ \A n \in Nodes : dev[n].token => n \in Proposed

LEMMA TypeOKParts == TypeOK <=> Typed /\ Agreement
  BY DEF TypeOK, Typed, Agreement

\* A step that keeps the tokens keeps the agreement.
LEMMA AgreementKept == ASSUME Agreement, TokensKept PROVE Agreement'
  BY FirstRadio DEF Agreement, TokensKept, Later

LEMMA InitType == Init => TypeOK
<1> SUFFICES ASSUME Init PROVE TypeOK
  OBVIOUS
<1>1. [queue |-> 0, more |-> FALSE, slots |-> 0, token |-> FALSE] \in BeQueues
  BY DEF BeQueues
<1>2. [k \in Radios |-> 0] \in Counts
  BY DEF Counts
<1>3. Idle \in Ongoing
  BY DEF Idle, Ongoing
<1>4. Typed
  BY <1>1, <1>2, <1>3 DEF Init, Typed, Devices
<1>5. Agreement
  BY FirstRadio DEF Init, Agreement, Later
<1> QED BY <1>4, <1>5, TypeOKParts

\* What a step does to the tokens: a block ack on the first channel gives it to
\* one station or takes it from one, and nothing else changes it.
LEMMA TypeStep ==
  ASSUME TypeOK, Next
  PROVE  /\ TypeOK'
         /\ \/ TokensKept
            \/ GotBlockAck(0)
            \/ \E n \in Nodes : Overhear(0, n)
<1> USE FirstRadio
<1>1. Typed /\ Agreement
  BY TypeOKParts
<1>2. ASSUME Typed', TokensKept PROVE TypeOK' /\ TokensKept
  <2>1. Agreement'
    BY <1>1, <1>2, AgreementKept
  <2> QED BY <1>2, <2>1 DEF TypeOK, Typed, Agreement
<1>3. ASSUME NEW n \in Nodes, NEW k \in Radios, Enqueue(n, k) PROVE TypeOK' /\ TokensKept
  BY <1>1, <1>2, <1>3, EnqueueTypes
<1>4. ASSUME NEW n \in Nodes, ResetStatistics(n) PROVE TypeOK' /\ TokensKept
  BY <1>1, <1>2, <1>4, ResetStatisticsTypes
<1>5. ASSUME NEW k \in Radios, Access(k) \/ Answer(k) \/ Unanswered(k)
      PROVE  TypeOK' /\ TokensKept
  BY <1>1, <1>2, <1>5, AccessTypes, AnswerTypes, UnansweredTypes
<1>6. ASSUME NEW k \in Radios, NEW n \in Nodes, Undecoded(k, n) PROVE TypeOK' /\ TokensKept
  BY <1>1, <1>2, <1>6, UndecodedTypes
<1>7. ASSUME NEW k \in Radios, GotBlockAck(k)
      PROVE  TypeOK' /\ (k # 0 => TokensKept)
  <2> DEFINE n == air[k].to
             gained == k = 0 /\ n \in Proposed
  <2>1. /\ n \in Nodes
        /\ Typed'
        /\ \A m \in Nodes : dev'[m].token = IF m = n /\ gained THEN TRUE ELSE dev[m].token
        /\ \A m \in Nodes, j \in Radios :
             radio'[m][j].token = IF m = n /\ gained /\ j \in Later THEN TRUE ELSE radio[m][j].token
    BY <1>1, <1>7, GotBlockAckTypes
  <2> HIDE DEF n
  <2>2. Agreement'
    BY <1>1, <2>1 DEF Agreement, Later
  <2>3. k # 0 => TokensKept
    BY <1>1, <1>7, GotElsewhere
  <2> QED BY <2>1, <2>2, <2>3 DEF TypeOK, Typed, Agreement
<1>8. ASSUME NEW k \in Radios, NEW n \in Nodes, Overhear(k, n)
      PROVE  TypeOK' /\ (k # 0 => TokensKept)
  <2>1. air' \in [Radios -> Ongoing]
    BY <1>1, <1>8, ReachedTypes DEF Overhear
  <2>2. CASE k = 0
    <3>1. /\ Typed'
          /\ \A m \in Nodes : dev'[m].token = IF m = n THEN FALSE ELSE dev[m].token
          /\ \A m \in Nodes, j \in Radios :
               radio'[m][j].token = IF m = n /\ j \in Later THEN FALSE ELSE radio[m][j].token
      BY <1>1, <1>8, <2>1, <2>2, OverheardAckTypes DEF Overhear
    <3>2. Agreement'
      BY <1>1, <3>1 DEF Agreement, Later
    <3> QED BY <2>2, <3>1, <3>2 DEF TypeOK, Typed, Agreement
  <2>3. CASE k # 0
    <3>1. UNCHANGED <<radio, dev>>
      BY <1>8, <2>3 DEF Overhear
    <3>2. Typed' /\ TokensKept
      BY <1>1, <2>1, <3>1 DEF Typed, TokensKept
    <3> QED BY <1>2, <3>2
  <2> QED BY <2>2, <2>3
<1> QED
  BY <1>3, <1>4, <1>5, <1>6, <1>7, <1>8, <1>2 DEF Next, Send, SendFirst

\* The types are right in every reachable state, the tokens of the radios those
\* of their devices (MrWifiNetDevice::GotAck, OverheardAck).
THEOREM TypeCorrect == Spec => []TypeOK
<1>1. ASSUME TypeOK, UNCHANGED vars PROVE TypeOK'
  BY <1>1 DEF TypeOK, vars
<1>2. TypeOK /\ [Next]_vars => TypeOK'
  BY <1>1, TypeStep
<1> QED BY <1>2, InitType, PTL DEF Spec

-----------------------------------------------------------------------------
(* The token is exclusive *)

LEMMA InitInv == Init => IInv
<1> SUFFICES ASSUME Init PROVE IInv
  OBVIOUS
<1>1. air[0].st = "idle" /\ \A n \in Nodes : ~dev[n].token
  BY FirstRadio DEF Init, Idle
<1> QED BY <1>1, InitType DEF IInv, Senders, Handover, TokenExclusive

\* A step that leaves the tokens and the first channel alone.
LEMMA ElsewhereStep ==
  ASSUME Senders, Handover, TokenExclusive, TokensKept, air'[0] = air[0]
  PROVE  Senders' /\ Handover' /\ TokenExclusive'
  BY DEF Senders, Handover, TokenExclusive, TokensKept

\* A frame that starts on the first channel.
LEMMA DataStep ==
  ASSUME Senders, TokenExclusive, TokensKept, air[0].st # "ba",
         NEW from, NEW ba \in SUBSET Nodes, air'[0] = Data(from, ba),
         \A n \in ba : Peers[n] # {}
  PROVE  Senders' /\ Handover' /\ TokenExclusive'
  BY DEF Senders, Handover, TokenExclusive, TokensKept, Data

\* The first channel becomes idle, with one holder of the token at most.
LEMMA IdleStep ==
  ASSUME TokensKept, Senders, TokenExclusive, air[0].st # "ba", air'[0] = Idle
  PROVE  Senders' /\ Handover' /\ TokenExclusive'
  BY DEF Senders, Handover, TokenExclusive, TokensKept, Idle

\* A block ack starts on the first channel: its sender is not a holder.
LEMMA AnswerStep ==
  ASSUME Reliable, Senders, TokenExclusive, TokensKept, air[0].st = "data",
         air[0].ba \subseteq Nodes,
         NEW n \in air[0].ba, NEW r \in Peers[n], air'[0] = BlockAck(r, n, Nodes \ {r})
  PROVE  Senders' /\ Handover' /\ TokenExclusive'
<1>1. Peers[r] = {} /\ Peers[n] # {}
  BY DEF Reliable, OneWay
<1>2. air'[0].st = "ba" /\ air'[0].to = n /\ air'[0].pending = Nodes \ {r}
  BY DEF BlockAck
<1>3. \A m \in Nodes : dev'[m].token => m # r /\ Peers[m] # {}
  BY <1>1 DEF Senders, TokensKept
<1>4. Senders' /\ Handover'
  BY <1>1, <1>2, <1>3 DEF Senders, Handover
<1>5. TokenExclusive'
  BY DEF TokenExclusive, TokensKept
<1> QED BY <1>4, <1>5

\* The block ack reaches the station that it answers, which may get the token.
LEMMA GotStep ==
  ASSUME TypeOK, Senders, Handover, TokenExclusive, GotBlockAck(0)
  PROVE  Senders' /\ Handover' /\ TokenExclusive'
<1> DEFINE n == air[0].to
<1>1. /\ n \in Nodes /\ n \in air[0].pending /\ air[0].st = "ba" /\ Reached(0, n)
      /\ \A m \in Nodes : m # n => dev'[m].token = dev[m].token
  BY FirstRadio, TypeOKParts, GotBlockAckTypes
<1>2. \/ air'[0] = Idle /\ air[0].pending \subseteq {n}
      \/ air'[0] = BlockAck(air[0].from, n, air[0].pending \ {n})
  BY <1>1, FirstRadio, TypeOKParts, ReachedTypes
<1>3. Peers[n] # {}
  BY <1>1 DEF Senders
<1>4. \A m \in Nodes : dev'[m].token /\ m # n => m \in air[0].pending \ {n} /\ Peers[m] # {}
  BY <1>1 DEF Handover, Senders
<1>5. \A m \in Nodes, l \in Nodes : dev'[m].token /\ dev'[l].token /\ m # l => m = n \/ l = n
  BY <1>1 DEF TokenExclusive
<1> HIDE DEF n
<1>6. CASE air'[0] = Idle /\ air[0].pending \subseteq {n}
  <2>1. \A m \in Nodes : dev'[m].token => m = n
    BY <1>4, <1>6
  <2> QED BY <1>3, <1>4, <1>6, <2>1 DEF Senders, Handover, TokenExclusive, Idle
<1>7. CASE air'[0] = BlockAck(air[0].from, n, air[0].pending \ {n})
  <2>1. air'[0].st = "ba" /\ air'[0].to = n /\ air'[0].pending = air[0].pending \ {n}
    BY <1>7 DEF BlockAck
  <2> QED BY <1>3, <1>4, <1>5, <2>1 DEF Senders, Handover, TokenExclusive
<1> QED BY <1>2, <1>6, <1>7

\* The block ack reaches another station, which releases the token.
LEMMA OverhearStep ==
  ASSUME TypeOK, Senders, Handover, TokenExclusive, NEW n \in Nodes, Overhear(0, n)
  PROVE  Senders' /\ Handover' /\ TokenExclusive'
<1>1. air[0].st = "ba" /\ n # air[0].to /\ Reached(0, n) /\ OverheardAck(n)
  BY DEF Overhear
<1>2. /\ air' \in [Radios -> Ongoing]
      /\ \/ air'[0] = Idle /\ air[0].pending \subseteq {n}
         \/ air'[0] = BlockAck(air[0].from, air[0].to, air[0].pending \ {n})
  BY <1>1, FirstRadio, TypeOKParts, ReachedTypes
<1>3. \A m \in Nodes : dev'[m].token = IF m = n THEN FALSE ELSE dev[m].token
  BY <1>1, <1>2, TypeOKParts, OverheardAckTypes
<1>4. \A m \in Nodes : dev'[m].token => m # n /\ dev[m].token /\ Peers[m] # {}
  BY <1>3 DEF Senders
<1>5. Peers[air[0].to] # {}
  BY <1>1 DEF Senders
<1>6. \A m \in Nodes : dev'[m].token => m = air[0].to \/ m \in air[0].pending \ {n}
  BY <1>1, <1>4 DEF Handover
<1>7. CASE air'[0] = Idle /\ air[0].pending \subseteq {n}
  <2>1. \A m \in Nodes : dev'[m].token => m = air[0].to
    BY <1>6, <1>7
  <2> QED BY <1>4, <1>7, <2>1 DEF Senders, Handover, TokenExclusive, Idle
<1>8. CASE air'[0] = BlockAck(air[0].from, air[0].to, air[0].pending \ {n})
  <2>1. /\ air'[0].st = "ba" /\ air'[0].to = air[0].to
        /\ air'[0].pending = air[0].pending \ {n}
    BY <1>8 DEF BlockAck
  <2>2. TokenExclusive'
    BY <1>4, <2>1 DEF TokenExclusive
  <2> QED BY <1>4, <1>5, <1>6, <2>1, <2>2 DEF Senders, Handover
<1> QED BY <1>2, <1>7, <1>8

\* One step per action; those of another channel than the first are all alike.
LEMMA InvStep ==
  ASSUME Reliable, IInv, Next
  PROVE  IInv'
<1> USE FirstRadio DEF IInv
<1>1. Typed /\ TypeOK'
  BY TypeOKParts, TypeStep
<1>2. ASSUME TokensKept, air'[0] = air[0] PROVE IInv'
  BY <1>1, <1>2, ElsewhereStep
<1>3. ASSUME NEW n \in Nodes, NEW k \in Radios, Enqueue(n, k) PROVE IInv'
  BY <1>1, <1>2, <1>3, EnqueueTypes DEF Enqueue
<1>4. ASSUME NEW n \in Nodes, ResetStatistics(n) PROVE IInv'
  BY <1>1, <1>2, <1>4, ResetStatisticsTypes DEF ResetStatistics
<1>5. ASSUME NEW k \in Radios, Access(k) PROVE IInv'
  <2>1. PICK from \in SUBSET Nodes, ba \in SUBSET Nodes :
          (\A n \in ba : Peers[n] # {}) /\ air' = [air EXCEPT ![k] = Data(from, ba)]
    BY <1>1, <1>5, AccessTypes
  <2>2. TokensKept
    BY <1>1, <1>5, AccessTypes
  <2>3. CASE k = 0
    <3>1. air'[0] = Data(from, ba) /\ air[0].st # "ba"
      BY <1>1, <1>5, <2>1, <2>3 DEF Access, Idle, Typed
    <3> QED BY <1>1, <2>1, <2>2, <3>1, DataStep
  <2>4. CASE k # 0
    BY <1>1, <1>2, <2>1, <2>2, <2>4 DEF Typed
  <2> QED BY <2>3, <2>4
<1>6. ASSUME NEW k \in Radios, Answer(k) PROVE IInv'
  <2>1. PICK n \in air[k].ba :
          \E r \in Peers[n] : air' = [air EXCEPT ![k] = BlockAck(r, n, Nodes \ {r})]
    BY <1>1, <1>6, AnswerTypes
  <2>2. PICK r \in Peers[n] : air' = [air EXCEPT ![k] = BlockAck(r, n, Nodes \ {r})]
    BY <2>1
  <2>3. TokensKept /\ air[k].st = "data" /\ air[k].ba \subseteq Nodes
    BY <1>1, <1>6, AnswerTypes DEF Answer, Typed, Ongoing
  <2>4. CASE k = 0
    <3>1. air'[0] = BlockAck(r, n, Nodes \ {r})
      BY <1>1, <2>2, <2>4 DEF Typed
    <3> QED BY <1>1, <2>3, <2>4, <3>1, AnswerStep
  <2>5. CASE k # 0
    BY <1>1, <1>2, <2>2, <2>3, <2>5 DEF Typed
  <2> QED BY <2>4, <2>5
<1>7. ASSUME NEW k \in Radios, Unanswered(k) PROVE IInv'
  <2>1. TokensKept /\ air' = [air EXCEPT ![k] = Idle] /\ air[k].st # "ba"
    BY <1>1, <1>7, UnansweredTypes DEF Unanswered
  <2>2. CASE k = 0
    BY <1>1, <2>1, <2>2, IdleStep DEF Typed
  <2>3. CASE k # 0
    BY <1>1, <1>2, <2>1, <2>3 DEF Typed
  <2> QED BY <2>2, <2>3
<1>8. ASSUME NEW k \in Radios, GotBlockAck(k) PROVE IInv'
  <2>1. CASE k = 0
    BY <1>1, <1>8, <2>1, GotStep
  <2>2. CASE k # 0
    <3>1. TokensKept /\ air[k].to \in Nodes /\ air[k].st = "ba" /\ Reached(k, air[k].to)
      BY <1>1, <1>8, <2>2, GotElsewhere
    <3>2. air'[0] = air[0]
      BY <1>1, <2>2, <3>1, ReachedTypes
    <3> QED BY <1>2, <3>1, <3>2
  <2> QED BY <2>1, <2>2
<1>9. ASSUME NEW k \in Radios, NEW n \in Nodes, Overhear(k, n) PROVE IInv'
  <2>1. CASE k = 0
    BY <1>1, <1>9, <2>1, OverhearStep
  <2>2. CASE k # 0
    <3>1. UNCHANGED <<radio, dev>> /\ air[k].st = "ba" /\ Reached(k, n)
      BY <1>9, <2>2 DEF Overhear
    <3>2. air'[0] = air[0]
      BY <1>1, <2>2, <3>1, ReachedTypes
    <3> QED BY <1>2, <3>1, <3>2 DEF TokensKept
  <2> QED BY <2>1, <2>2
<1>10. ASSUME NEW k \in Radios, NEW n \in Nodes, Undecoded(k, n) PROVE IInv'
  BY <1>10 DEF Undecoded, Reliable
<1> QED
  BY <1>3, <1>4, <1>5, <1>6, <1>7, <1>8, <1>9, <1>10 DEF Next, Send, SendFirst

\* If aggregates go one way and no block ack is missed, two stations hold the
\* token only while one hands it to the other (MrWifiNetDevice::GotAck and
\* OverheardAck of all the stations), for any number of stations and radios.
THEOREM TokenHandedOn == Reliable /\ Spec => []IInv
<1> SUFFICES ASSUME Reliable PROVE Spec => []IInv
  OBVIOUS
<1>1. ASSUME IInv, UNCHANGED vars PROVE IInv'
  BY <1>1 DEF IInv, TypeOK, Senders, Handover, TokenExclusive, vars
<1>2. IInv /\ [Next]_vars => IInv'
  BY <1>1, InvStep
<1> QED BY <1>2, InitInv, PTL DEF Spec

THEOREM TokenAlone == Reliable /\ Spec => []TokenExclusive
  BY TokenHandedOn, PTL DEF IInv

\* The wait of the only holder of the token, without a backoff, is the shortest.
LEMMA HolderFirst ==
  ASSUME TypeOK, NEW k \in Later, NEW n \in Nodes,
         dev[n].token, \A m \in Nodes : dev[m].token => m = n,
         Wants(radio[n][k]), radio[n][k].slots = 0
  PROVE  First(k) = {n}
<1> USE TypeOKParts
<1>1. \A m \in Nodes : radio[m][k] \in BeQueues /\ radio[m][k].token = dev[m].token
  BY DEF Typed, Agreement, Later
<1>2. Wait(radio[n][k]) = 1
  BY <1>1 DEF Wait, Ifs
<1>3. ASSUME NEW m \in Nodes, m # n PROVE Wait(radio[m][k]) \in Nat /\ Wait(radio[m][k]) > 1
  BY <1>1, <1>3 DEF Wait, Ifs, BeQueues
<1>4. n \in Contenders(k)
  BY DEF Contenders
<1> QED BY <1>2, <1>3, <1>4 DEF First, Contenders

\* A frame on an idle channel starts by Access of that channel.
LEMMA IdleThenData ==
  ASSUME Typed, Next, NEW k \in Radios, air[k] = Idle, air'[k].st = "data"
  PROVE  Access(k)
<1>1. air[k].st = "idle" /\ air'[k] # air[k]
  BY DEF Idle
<1>2. ASSUME NEW n \in Nodes, Send(n) \/ SendFirst(n) \/ ResetStatistics(n) PROVE FALSE
  BY <1>1, <1>2 DEF Send, SendFirst, Enqueue, ResetStatistics
<1>3. ASSUME NEW j \in Radios, Access(j) \/ Answer(j) \/ Unanswered(j) PROVE j = k /\ Access(k)
  <2>1. j = k
    <3>1. CASE Access(j)
      <4>1. \E frame : air' = [air EXCEPT ![j] = frame]
        BY <3>1, AccessTypes
      <4> QED BY <1>1, <4>1 DEF Typed
    <3>2. CASE Answer(j)
      <4>1. \E ba : air' = [air EXCEPT ![j] = ba]
        BY <3>2, AnswerTypes
      <4> QED BY <1>1, <4>1 DEF Typed
    <3>3. CASE Unanswered(j)
      BY <1>1, <3>3, UnansweredTypes DEF Typed
    <3> QED BY <1>3, <3>1, <3>2, <3>3
  <2> QED BY <1>1, <1>3, <2>1 DEF Answer, Unanswered
<1>4. ASSUME NEW j \in Radios, NEW n \in Nodes, air[j].st = "ba", Reached(j, n) PROVE FALSE
  BY <1>1, <1>4, ReachedTypes
<1>5. ASSUME NEW j \in Radios, GotBlockAck(j) PROVE FALSE
  BY <1>4, <1>5, GotBlockAckTypes
<1>6. ASSUME NEW j \in Radios, NEW n \in Nodes, Overhear(j, n) \/ Undecoded(j, n) PROVE FALSE
  BY <1>4, <1>6 DEF Overhear, Undecoded
<1> QED BY <1>2, <1>3, <1>5, <1>6 DEF Next

\* The token decides who uses a later channel (EdcaTxopN::SetToken through
\* DcfManager::ResetBackoff, and the wait of one slot that it earns).
THEOREM HolderWins == Reliable /\ Spec => TokenWins
<1> SUFFICES ASSUME Reliable PROVE Spec => TokenWins
  OBVIOUS
<1>1. IInv /\ [Next]_vars =>
        [\A k \in Later, n \in Nodes :
           /\ air[k] = Idle /\ air'[k].st = "data" /\ air[0].st # "ba"
           /\ dev[n].token /\ Wants(radio[n][k]) /\ radio[n][k].slots = 0
           => air'[k].from = {n}]_vars
  <2> SUFFICES ASSUME IInv, Next, NEW k \in Later, NEW n \in Nodes,
                      air[k] = Idle, air'[k].st = "data", air[0].st # "ba",
                      dev[n].token, Wants(radio[n][k]), radio[n][k].slots = 0
               PROVE  air'[k].from = {n}
    OBVIOUS
  <2>1. Typed /\ k \in Radios
    BY TypeOKParts DEF IInv, Later
  <2>2. Access(k)
    BY <2>1, IdleThenData
  <2>3. First(k) = {n}
    BY HolderFirst DEF IInv, TokenExclusive
  <2>4. air'[k].from = First(k)
    BY <2>1, <2>2 DEF Access, Data, Typed
  <2> QED BY <2>3, <2>4
<1> QED BY <1>1, TokenHandedOn, PTL DEF TokenWins, Spec
-----------------------------------------------------------------------------
(* Every exchange is counted once *)

\* A station that awaits a block ack sends in the frame on the air: the inductive
\* invariant that EachCountedOnce needs, because two stations whose frames
\* collide get no answer.
AwaitedSent == \A k \in Radios : air[k].st = "data" => air[k].ba \subseteq air[k].from

CountInv == TypeOK /\ AwaitedSent /\ EachCountedOnce

\* One exchange more that begins or that is counted, of this station and radio.
Account(n, k) ==
  dev'[n].received[k] + dev'[n].missed[k] + (IF Awaiting(n, k)' THEN 1 ELSE 0) = dev'[n].begun[k]

\* What is counted of a radio is a number.
LEMMA CountsNat ==
  ASSUME Typed, NEW n \in Nodes, NEW k \in Radios
  PROVE  dev[n].received[k] \in Nat /\ dev[n].missed[k] \in Nat /\ dev[n].begun[k] \in Nat
<1>1. dev[n] \in Devices
  BY DEF Typed
<1> QED BY <1>1 DEF Devices, Counts

\* Nothing happens to the account of a radio whose counts and channel stay.
LEMMA AccountKept ==
  ASSUME EachCountedOnce, NEW n \in Nodes, NEW k \in Radios,
         dev'[n].received[k] = dev[n].received[k], dev'[n].missed[k] = dev[n].missed[k],
         dev'[n].begun[k] = dev[n].begun[k], Awaiting(n, k)' <=> Awaiting(n, k)
  PROVE  Account(n, k)
  BY DEF EachCountedOnce, Account

\* A channel that stays leaves its exchange as it was.
LEMMA AwaitingKept ==
  ASSUME NEW n, NEW k, air'[k] = air[k]
  PROVE  Awaiting(n, k)' <=> Awaiting(n, k)
  BY DEF Awaiting

LEMMA AccountOfAccess ==
  ASSUME CountInv, NEW k \in Radios, Access(k), NEW n \in Nodes, NEW j \in Radios
  PROVE  Account(n, j)
<1>1. Typed
  BY TypeOKParts DEF CountInv
<1>2. PICK ba \in SUBSET {m \in First(k) : Peers[m] # {} /\ dev[m].begun[k] < MaxExchanges} :
        /\ air' = [air EXCEPT ![k] = Data(First(k), ba)]
        /\ dev' = [m \in Nodes |-> [dev[m] EXCEPT !.begun[k] = IF m \in ba THEN @ + 1 ELSE @]]
  BY Zenon DEF Access
<1>3. dev[n] \in Devices
  BY <1>1 DEF Typed
<1>4. /\ dev'[n].received = dev[n].received /\ dev'[n].missed = dev[n].missed
      /\ dev'[n].begun = [dev[n].begun EXCEPT ![k] = IF n \in ba THEN @ + 1 ELSE @]
  BY <1>2, <1>3 DEF Devices
<1>5. CASE j # k
  <2>1. dev'[n].begun[j] = dev[n].begun[j] /\ air'[j] = air[j]
    BY <1>1, <1>2, <1>3, <1>4, <1>5 DEF Devices, Counts, Typed
  <2>2. Awaiting(n, j)' <=> Awaiting(n, j)
    BY <2>1, AwaitingKept
  <2> QED BY <1>4, <2>1, <2>2, AccountKept DEF CountInv
<1>6. CASE j = k
  <2>1. dev'[n].begun[k] = IF n \in ba THEN dev[n].begun[k] + 1 ELSE dev[n].begun[k]
    BY <1>3, <1>4 DEF Devices, Counts
  <2>2. air[k].st = "idle"
    BY DEF Access, Idle
  <2>3. air'[k].st = "data" /\ air'[k].ba = ba
    BY <1>1, <1>2 DEF Typed, Data
  <2>4. ~Awaiting(n, k) /\ (Awaiting(n, k)' <=> n \in ba)
    BY <2>2, <2>3 DEF Awaiting
  <2>5. dev[n].received[k] + dev[n].missed[k] = dev[n].begun[k]
    BY <1>1, <2>4, CountsNat DEF CountInv, EachCountedOnce
  <2> QED BY <1>1, <1>4, <1>6, <2>1, <2>4, <2>5, CountsNat DEF Account
<1> QED BY <1>5, <1>6

\* The station that is answered is the only one that sent, and awaits the block
\* ack still: its sender is another station.
LEMMA AccountOfAnswer ==
  ASSUME CountInv, NEW k \in Radios, Answer(k), NEW n \in Nodes, NEW j \in Radios
  PROVE  Account(n, j)
<1>1. Typed /\ dev' = dev
  BY TypeOKParts DEF CountInv, Answer
<1>2. PICK m \in air[k].ba : air[k].from = {m} /\ \E r \in Peers[m] :
        air' = [air EXCEPT ![k] = BlockAck(r, m, Nodes \ {r})]
  BY DEF Answer
<1>3. PICK r \in Peers[m] : air' = [air EXCEPT ![k] = BlockAck(r, m, Nodes \ {r})]
  BY <1>2
<1>4. air[k].ba = {m} /\ air[k].st = "data" /\ m \in Nodes
  BY <1>1, <1>2 DEF CountInv, AwaitedSent, Answer, Typed, Ongoing
<1>5. m # r
  BY <1>4
<1>6. CASE j # k
  BY <1>1, <1>3, <1>6, AccountKept, AwaitingKept DEF CountInv, Typed
<1>7. CASE j = k
  <2>1. air'[k].st = "ba" /\ air'[k].to = m /\ air'[k].pending = Nodes \ {r}
    BY <1>1, <1>3 DEF Typed, BlockAck
  <2>2. (Awaiting(n, k)' <=> n = m) /\ (Awaiting(n, k) <=> n = m)
    BY <1>4, <1>5, <2>1 DEF Awaiting
  <2> QED BY <1>1, <1>7, <2>2, AccountKept DEF CountInv
<1> QED BY <1>6, <1>7

\* What MissedAck counts.
LEMMA MissedAckCounts ==
  ASSUME Typed, NEW n \in Nodes, NEW k \in Radios, NEW j \in Radios
  PROVE  /\ MissedAck(n, k).received = dev[n].received /\ MissedAck(n, k).begun = dev[n].begun
         /\ MissedAck(n, k).missed[j] = IF j = k THEN dev[n].missed[j] + 1 ELSE dev[n].missed[j]
<1>1. dev[n] \in Devices
  BY DEF Typed
<1> QED BY <1>1 DEF MissedAck, Devices, Counts

LEMMA AccountOfUnanswered ==
  ASSUME CountInv, NEW k \in Radios, Unanswered(k), NEW n \in Nodes, NEW j \in Radios
  PROVE  Account(n, j)
<1>1. Typed
  BY TypeOKParts DEF CountInv
<1>2. /\ air' = [air EXCEPT ![k] = Idle] /\ air[k].st = "data"
      /\ dev'[n] = IF n \in air[k].ba THEN MissedAck(n, k) ELSE dev[n]
  BY DEF Unanswered
<1>3. CASE j # k
  <2>1. air'[j] = air[j]
    BY <1>1, <1>2, <1>3 DEF Typed
  <2>2. /\ dev'[n].received[j] = dev[n].received[j] /\ dev'[n].begun[j] = dev[n].begun[j]
        /\ dev'[n].missed[j] = dev[n].missed[j]
    BY <1>1, <1>2, <1>3, MissedAckCounts
  <2> QED BY <2>1, <2>2, AccountKept, AwaitingKept DEF CountInv
<1>4. CASE j = k
  <2>1. ~Awaiting(n, k)' /\ (Awaiting(n, k) <=> n \in air[k].ba)
    BY <1>1, <1>2 DEF Typed, Idle, Awaiting
  <2>2. /\ dev'[n].received[k] = dev[n].received[k] /\ dev'[n].begun[k] = dev[n].begun[k]
        /\ dev'[n].missed[k] = IF n \in air[k].ba THEN dev[n].missed[k] + 1 ELSE dev[n].missed[k]
    BY <1>1, <1>2, MissedAckCounts
  <2>3. dev[n].received[k] + dev[n].missed[k] + (IF n \in air[k].ba THEN 1 ELSE 0) = dev[n].begun[k]
    BY <2>1 DEF CountInv, EachCountedOnce
  <2> QED BY <1>1, <1>4, <2>1, <2>2, <2>3, CountsNat DEF Account
<1> QED BY <1>3, <1>4

\* The block ack that reaches a station is awaited by the others as it was.
LEMMA ReachedAwaiting ==
  ASSUME Typed, NEW k \in Radios, NEW m \in Nodes, air[k].st = "ba", m \in air[k].pending, Reached(k, m),
         NEW n \in Nodes, NEW j \in Radios
  PROVE  Awaiting(n, j)' <=> Awaiting(n, j) /\ ~(j = k /\ n = m)
<1>1. /\ \A i \in Radios \ {k} : air'[i] = air[i]
      /\ \/ air'[k] = Idle /\ air[k].pending \subseteq {m}
         \/ air'[k] = BlockAck(air[k].from, air[k].to, air[k].pending \ {m})
  BY ReachedTypes
<1>2. CASE j # k
  BY <1>1, <1>2, AwaitingKept
<1>3. CASE j = k /\ air'[k] = Idle /\ air[k].pending \subseteq {m}
  BY <1>3 DEF Awaiting, Idle
<1>4. CASE j = k /\ air'[k] = BlockAck(air[k].from, air[k].to, air[k].pending \ {m})
  BY <1>4 DEF Awaiting, BlockAck
<1> QED BY <1>1, <1>2, <1>3, <1>4

\* The block ack that a station awaits reaches it: it is got or missed.
LEMMA AccountOfReached ==
  ASSUME CountInv, NEW k \in Radios, NEW m \in Nodes,
         air[k].st = "ba", m = air[k].to, m \in air[k].pending, Reached(k, m),
         \A n \in Nodes \ {m} : dev'[n] = dev[n],
         dev'[m].begun = dev[m].begun,
         \A j \in Radios : dev'[m].received[j] + dev'[m].missed[j] =
            dev[m].received[j] + dev[m].missed[j] + (IF j = k THEN 1 ELSE 0),
         NEW n \in Nodes, NEW j \in Radios
  PROVE  Account(n, j)
<1>1. Typed
  BY TypeOKParts DEF CountInv
<1>2. Awaiting(n, j)' <=> Awaiting(n, j) /\ ~(j = k /\ n = m)
  BY <1>1, ReachedAwaiting
<1>3. CASE n # m
  <2>1. Awaiting(n, j)' <=> Awaiting(n, j)
    BY <1>2, <1>3
  <2>2. dev'[n] = dev[n]
    BY <1>3
  <2> QED BY <2>1, <2>2, AccountKept DEF CountInv
<1>4. CASE n = m /\ j # k
  <2>1. dev[n].received[j] + dev[n].missed[j] + (IF Awaiting(n, j) THEN 1 ELSE 0) = dev[n].begun[j]
    BY DEF CountInv, EachCountedOnce
  <2> QED BY <1>1, <1>2, <1>4, <2>1, CountsNat DEF Account
<1>5. CASE n = m /\ j = k
  <2>1. Awaiting(n, j)
    BY <1>5 DEF Awaiting
  <2>2. dev[n].received[j] + dev[n].missed[j] + 1 = dev[n].begun[j]
    BY <2>1 DEF CountInv, EachCountedOnce
  <2> QED BY <1>1, <1>2, <1>5, <2>2, CountsNat DEF Account
<1> QED BY <1>3, <1>4, <1>5

LEMMA AccountOfGot ==
  ASSUME CountInv, NEW k \in Radios, GotBlockAck(k), NEW n \in Nodes, NEW j \in Radios
  PROVE  Account(n, j)
<1> DEFINE m == air[k].to
           gained == k = 0 /\ m \in Proposed
<1>1. Typed
  BY TypeOKParts DEF CountInv
<1>2. m \in Nodes /\ m \in air[k].pending /\ air[k].st = "ba" /\ Reached(k, m)
  BY <1>1, GotBlockAckTypes
<1>3. dev' = [dev EXCEPT ![m] = [dev[m] EXCEPT !.token = @ \/ gained, !.received[k] = @ + 1]]
  BY <1>1, <1>2 DEF GotBlockAck, GotAck, Typed
<1>4. /\ \A l \in Nodes \ {m} : dev'[l] = dev[l]
      /\ dev'[m] = [dev[m] EXCEPT !.token = @ \/ gained, !.received[k] = @ + 1]
  BY <1>1, <1>2, <1>3 DEF Typed
<1>5. dev[m] \in Devices
  BY <1>1, <1>2 DEF Typed
<1> HIDE DEF m, gained
<1>6. /\ dev'[m].begun = dev[m].begun /\ dev'[m].missed = dev[m].missed
      /\ dev'[m].received = [dev[m].received EXCEPT ![k] = @ + 1]
  BY <1>4, <1>5 DEF Devices
<1>7. \A i \in Radios : dev'[m].received[i] + dev'[m].missed[i] =
            dev[m].received[i] + dev[m].missed[i] + (IF i = k THEN 1 ELSE 0)
  BY <1>5, <1>6 DEF Devices, Counts
<1> QED BY <1>2, <1>4, <1>6, <1>7, AccountOfReached DEF m

\* The block ack reaches a station that it does not answer.
LEMMA AccountOfOverheard ==
  ASSUME CountInv, NEW k \in Radios, NEW m \in Nodes,
         air[k].st = "ba", m # air[k].to, m \in air[k].pending, Reached(k, m),
         \A n \in Nodes : /\ dev'[n].received = dev[n].received /\ dev'[n].missed = dev[n].missed
                          /\ dev'[n].begun = dev[n].begun,
         NEW n \in Nodes, NEW j \in Radios
  PROVE  Account(n, j)
<1>1. Typed
  BY TypeOKParts DEF CountInv
<1>2. Awaiting(n, j)' <=> Awaiting(n, j) /\ ~(j = k /\ n = m)
  BY <1>1, ReachedAwaiting
<1>3. Awaiting(n, j) => ~(j = k /\ n = m)
  BY DEF Awaiting
<1>4. Awaiting(n, j)' <=> Awaiting(n, j)
  BY <1>2, <1>3
<1> QED BY <1>4, AccountKept DEF CountInv

LEMMA AccountOfReset ==
  ASSUME CountInv, NEW m \in Nodes, ResetStatistics(m), NEW n \in Nodes, NEW j \in Radios
  PROVE  Account(n, j)
<1>1. Typed /\ air' = air
  BY TypeOKParts DEF CountInv, ResetStatistics
<1>2. Awaiting(n, j)' <=> Awaiting(n, j)
  BY <1>1, AwaitingKept
<1>3. CASE n # m
  <2>1. dev'[n] = dev[n]
    BY <1>1, <1>3 DEF ResetStatistics, Typed
  <2> QED BY <1>2, <2>1, AccountKept DEF CountInv
<1>4. CASE n = m
  <2>1. dev[m] \in Devices
    BY <1>1 DEF Typed
  <2>2. /\ dev'[m].received = [k \in Radios |-> 0] /\ dev'[m].missed = [k \in Radios |-> 0]
        /\ dev'[m].begun = [k \in Radios |-> IF Awaiting(m, k) THEN 1 ELSE 0]
    BY <1>1, <2>1 DEF ResetStatistics, Typed, Devices
  <2> QED BY <1>2, <1>4, <2>2 DEF Account
<1> QED BY <1>3, <1>4

\* A frame that is on the air was sent by the stations that await its block ack.
LEMMA AwaitedSentStep ==
  ASSUME Typed, AwaitedSent, Next
  PROVE  AwaitedSent'
<1>1. ASSUME air' = air PROVE AwaitedSent'
  BY <1>1 DEF AwaitedSent
<1>2. ASSUME NEW n \in Nodes, Send(n) \/ SendFirst(n) \/ ResetStatistics(n) PROVE AwaitedSent'
  BY <1>1, <1>2 DEF Send, SendFirst, Enqueue, ResetStatistics
<1>3. ASSUME NEW k \in Radios, Access(k) PROVE AwaitedSent'
  <2>1. PICK from \in SUBSET Nodes : \E ba \in SUBSET from : air' = [air EXCEPT ![k] = Data(from, ba)]
    BY <1>1, <1>3, AccessTypes
  <2>2. PICK ba \in SUBSET from : air' = [air EXCEPT ![k] = Data(from, ba)]
    BY <2>1
  <2> QED BY <2>2 DEF AwaitedSent, Typed, Data
<1>4. ASSUME NEW k \in Radios, Answer(k) PROVE AwaitedSent'
  <2>1. PICK n, r : air' = [air EXCEPT ![k] = BlockAck(r, n, Nodes \ {r})]
    BY <1>4, AnswerTypes
  <2> QED BY <2>1 DEF AwaitedSent, Typed, BlockAck
<1>5. ASSUME NEW k \in Radios, Unanswered(k) PROVE AwaitedSent'
  BY <1>5, UnansweredTypes DEF AwaitedSent, Typed, Idle
<1>6. ASSUME NEW k \in Radios, NEW n \in Nodes, air[k].st = "ba", Reached(k, n) PROVE AwaitedSent'
  <2>1. /\ \A j \in Radios \ {k} : air'[j] = air[j]
        /\ \/ air'[k] = Idle
           \/ air'[k] = BlockAck(air[k].from, air[k].to, air[k].pending \ {n})
    BY <1>6, ReachedTypes
  <2>2. air'[k].st # "data"
    BY <2>1 DEF Idle, BlockAck
  <2> QED BY <2>1, <2>2 DEF AwaitedSent
<1>7. ASSUME NEW k \in Radios, GotBlockAck(k) PROVE AwaitedSent'
  BY <1>6, <1>7, GotBlockAckTypes
<1>8. ASSUME NEW k \in Radios, NEW n \in Nodes, Overhear(k, n) \/ Undecoded(k, n) PROVE AwaitedSent'
  BY <1>6, <1>8 DEF Overhear, Undecoded
<1> QED BY <1>2, <1>3, <1>4, <1>5, <1>7, <1>8 DEF Next

LEMMA AccountStep ==
  ASSUME CountInv, Next, NEW n \in Nodes, NEW j \in Radios
  PROVE  Account(n, j)
<1>1. Typed
  BY TypeOKParts DEF CountInv
<1>2. ASSUME NEW m \in Nodes, Send(m) \/ SendFirst(m) PROVE Account(n, j)
  <2>1. UNCHANGED <<dev, air>>
    BY <1>2 DEF Send, SendFirst, Enqueue
  <2> QED BY <2>1, AccountKept, AwaitingKept DEF CountInv
<1>3. ASSUME NEW m \in Nodes, ResetStatistics(m) PROVE Account(n, j)
  BY <1>3, AccountOfReset
<1>4. ASSUME NEW k \in Radios, Access(k) \/ Answer(k) \/ Unanswered(k) \/ GotBlockAck(k)
      PROVE  Account(n, j)
  BY <1>4, AccountOfAccess, AccountOfAnswer, AccountOfUnanswered, AccountOfGot
<1>5. ASSUME NEW k \in Radios, NEW m \in Nodes, Overhear(k, m) PROVE Account(n, j)
  <2>1. \A l \in Nodes : /\ dev'[l].received = dev[l].received /\ dev'[l].missed = dev[l].missed
                         /\ dev'[l].begun = dev[l].begun
    <3>1. CASE k = 0
      <4>1. \A l \in Nodes : dev[l] \in Devices
        BY <1>1 DEF Typed
      <4> QED BY <1>1, <1>5, <3>1, <4>1 DEF Overhear, OverheardAck, Typed, Devices
    <3>2. CASE k # 0
      BY <1>5, <3>2 DEF Overhear
    <3> QED BY <3>1, <3>2
  <2> QED BY <1>5, <2>1, AccountOfOverheard DEF Overhear
<1>6. ASSUME NEW k \in Radios, NEW m \in Nodes, Undecoded(k, m) PROVE Account(n, j)
  <2>1. air[k].st = "ba" /\ m \in air[k].pending /\ Reached(k, m)
    BY <1>6 DEF Undecoded
  <2>2. CASE m # air[k].to
    <3>1. dev' = dev
      BY <1>6, <2>2 DEF Undecoded
    <3> QED BY <2>1, <2>2, <3>1, AccountOfOverheard
  <2>3. CASE m = air[k].to
    <3>1. dev' = [dev EXCEPT ![m] = MissedAck(m, k)]
      BY <1>6, <2>3 DEF Undecoded
    <3>2. dev'[m] = MissedAck(m, k) /\ \A l \in Nodes \ {m} : dev'[l] = dev[l]
      BY <1>1, <3>1 DEF Typed
    <3>3. \A i \in Radios : dev'[m].received[i] + dev'[m].missed[i] =
             dev[m].received[i] + dev[m].missed[i] + (IF i = k THEN 1 ELSE 0)
      <4>1. dev[m] \in Devices
        BY <1>1 DEF Typed
      <4>2. dev'[m].missed = [dev[m].missed EXCEPT ![k] = @ + 1] /\ dev'[m].received = dev[m].received
        BY <3>2, <4>1 DEF MissedAck, Devices
      <4> QED BY <4>1, <4>2 DEF Devices, Counts
    <3>4. dev'[m].begun = dev[m].begun
      BY <1>1, <3>2, FirstRadio, MissedAckCounts
    <3> QED BY <2>1, <2>3, <3>2, <3>3, <3>4, AccountOfReached
  <2> QED BY <2>2, <2>3
<1> QED BY <1>2, <1>3, <1>4, <1>5, <1>6 DEF Next

\* The statistics add up: an exchange that awaits a block ack is counted once, as
\* received or as missed (MrWifiNetDevice::GotAck and MissedAck, called in
\* EdcaTxopN::GotBlockAck and MissedBlockAck), with frames that collide, block acks
\* that are lost and statistics reset at any time, whoever sends to whom.
THEOREM CountedOnce == Spec => []EachCountedOnce
<1>1. Init => CountInv
  <2> SUFFICES ASSUME Init PROVE CountInv
    OBVIOUS
  <2>1. AwaitedSent
    BY DEF Init, AwaitedSent, Idle
  <2>2. EachCountedOnce
    BY DEF Init, EachCountedOnce, Awaiting, Idle
  <2> QED BY <2>1, <2>2, InitType DEF CountInv
<1>2. ASSUME CountInv, Next PROVE CountInv'
  <2>1. TypeOK' /\ AwaitedSent'
    BY <1>2, TypeStep, AwaitedSentStep, TypeOKParts DEF CountInv
  <2>2. EachCountedOnce'
    BY <1>2, AccountStep DEF EachCountedOnce, Account
  <2> QED BY <2>1, <2>2 DEF CountInv
<1>3. ASSUME CountInv, UNCHANGED vars PROVE CountInv'
  BY <1>3 DEF CountInv, TypeOK, AwaitedSent, EachCountedOnce, Awaiting, vars
<1>4. CountInv /\ [Next]_vars => CountInv'
  BY <1>2, <1>3
<1> QED BY <1>1, <1>4, PTL DEF Spec, CountInv
-----------------------------------------------------------------------------
(* The shortest queue *)

\* A set of numbers has a least one: what an induction over a loop rests on.  The
\* intervals up to a number of the set are finite, and one is in none of the others.
LEMMA LeastNatural ==
  ASSUME NEW T \in SUBSET Nat, T # {}
  PROVE  \E m \in T : \A n \in T : m <= n
<1>1. PICK t \in T : TRUE
  OBVIOUS
<1> DEFINE Upto == {0 .. m : m \in {n \in T : n <= t}}
           R == StrictSubsetOrdering(0 .. t)
<1>2. IsFiniteSet(0 .. t)
  BY FS_Interval
<1>3. IsWellFoundedOn(R, SUBSET (0 .. t))
  BY <1>2, FS_FiniteSubsetsOfFinite, FS_StrictSubsetOrderingWellFounded
<1>4. Upto \subseteq SUBSET (0 .. t) /\ 0 .. t \in Upto
  OBVIOUS
<1> HIDE DEF R, Upto
<1>5. PICK least \in Upto : \A other \in Upto : <<other, least>> \notin R
  <2>1. Upto # {}
    BY <1>4
  <2> QED BY <1>3, <1>4, <2>1, WFMin, Zenon
<1>6. PICK m \in {n \in T : n <= t} : least = 0 .. m
  BY <1>5 DEF Upto
<1>7. ASSUME NEW n \in T, ~(m <= n) PROVE FALSE
  <2>1. n < m /\ n <= t /\ 0 .. n \in Upto
    BY <1>6, <1>7 DEF Upto
  <2>2. 0 .. n \subseteq 0 .. m /\ m \in 0 .. m /\ m \notin 0 .. n
    BY <2>1
  <2>3. 0 .. n \in SUBSET (0 .. t) /\ 0 .. m \in SUBSET (0 .. t)
    BY <1>6, <2>1
  <2>4. <<0 .. n, 0 .. m>> \in R
    BY <2>2, <2>3 DEF R, StrictSubsetOrdering
  <2> QED BY <1>5, <1>6, <2>1, <2>4
<1> QED BY <1>6, <1>7

\* The best radio of each prefix of the loop of SelectInterface, up to radio j.
Loop(n, best, j) ==
  best = [k \in 0 .. j |-> IF k = 0 THEN 0
                           ELSE IF Adjusted(n, k) < Adjusted(n, best[k - 1]) THEN k ELSE best[k - 1]]

\* The loop comes to an end.
LEMMA LoopEnds ==
  ASSUME NEW n
  PROVE  \A j \in Radios : \E best : Loop(n, best, j)
<1> DEFINE T == {j \in Radios : ~ \E best : Loop(n, best, j)}
<1>1. SUFFICES ASSUME T # {} PROVE FALSE
  OBVIOUS
<1>2. T \in SUBSET Nat
  BY DEF Radios
<1> HIDE DEF T
<1>3. PICK m \in T : \A l \in T : m <= l
  BY <1>1, <1>2, LeastNatural
<1>4. m \in Radios /\ ~ \E best : Loop(n, best, m)
  BY DEF T
<1>5. CASE m = 0
  <2>1. [k \in 0 .. 0 |-> 0] = [k \in 0 .. 0 |-> IF k = 0 THEN 0
                           ELSE IF Adjusted(n, k) < Adjusted(n, [i \in 0 .. 0 |-> 0][k - 1]) THEN k
                           ELSE [i \in 0 .. 0 |-> 0][k - 1]]
    OBVIOUS
  <2> QED BY <1>4, <1>5, <2>1 DEF Loop
<1>6. CASE m # 0
  <2>1. m - 1 \in Radios /\ m - 1 \notin T /\ m \in Nat
    BY <1>3, <1>4, <1>6 DEF Radios
  <2>2. PICK best : Loop(n, best, m - 1)
    BY <2>1 DEF T
  <2> DEFINE last == IF Adjusted(n, m) < Adjusted(n, best[m - 1]) THEN m ELSE best[m - 1]
             longer == [k \in 0 .. m |-> IF k = m THEN last ELSE best[k]]
             Body(f, k) == IF k = 0 THEN 0
                           ELSE IF Adjusted(n, k) < Adjusted(n, f[k - 1]) THEN k ELSE f[k - 1]
  <2>3. ASSUME NEW k \in 0 .. m PROVE longer[k] = Body(longer, k)
    <3>1. CASE k = m
      <4>1. longer[k - 1] = best[k - 1] /\ longer[k] = last
        BY <1>6, <2>1, <3>1
      <4> HIDE DEF longer
      <4> QED BY <1>6, <3>1, <4>1
    <3>2. CASE k # m
      <4>1. best[k] = Body(best, k)
        BY <2>1, <2>2, <3>2 DEF Loop
      <4>2. k # 0 => longer[k - 1] = best[k - 1]
        BY <2>1, <3>2
      <4>3. longer[k] = best[k]
        BY <3>2
      <4> HIDE DEF longer
      <4> QED BY <4>1, <4>2, <4>3
    <3> QED BY <3>1, <3>2
  <2>4. longer = [k \in 0 .. m |-> longer[k]]
    OBVIOUS
  <2> HIDE DEF longer
  <2>5. longer = [k \in 0 .. m |-> Body(longer, k)]
    BY <2>3, <2>4, Zenon
  <2>6. Loop(n, longer, m)
    BY <2>5 DEF Loop
  <2> QED BY <1>4, <2>6
<1> QED BY <1>5, <1>6

\* The best radio so far: no radio up to j counts as shorter, nor one before the
\* best as equally short.
Best(n, k, j) ==
  /\ k \in 0 .. j
  /\ \A i \in 0 .. j : Adjusted(n, k) <= Adjusted(n, i) /\ (Adjusted(n, i) = Adjusted(n, k) => k <= i)

\* The length of a queue is a number.
LEMMA AdjustedNat == ASSUME Typed, NEW n \in Nodes, NEW k \in Radios PROVE Adjusted(n, k) \in Nat
<1>1. radio[n][k] \in BeQueues
  BY DEF Typed
<1> QED BY <1>1 DEF Adjusted, BeQueues

\* The loop keeps the best radio so far.
LEMMA LoopBest ==
  ASSUME Typed, NEW n \in Nodes, NEW best, Loop(n, best, NumRadios - 1)
  PROVE  \A j \in Radios : Best(n, best[j], j)
<1> DEFINE T == {j \in Radios : ~Best(n, best[j], j)}
<1>1. SUFFICES ASSUME T # {} PROVE FALSE
  OBVIOUS
<1>2. T \in SUBSET Nat
  BY DEF Radios
<1> HIDE DEF T
<1>3. PICK m \in T : \A l \in T : m <= l
  BY <1>1, <1>2, LeastNatural
<1>4. m \in Radios /\ ~Best(n, best[m], m) /\ m \in Nat
  BY DEF T, Radios
<1>5. best[m] = IF m = 0 THEN 0
                ELSE IF Adjusted(n, m) < Adjusted(n, best[m - 1]) THEN m ELSE best[m - 1]
  BY <1>4 DEF Loop, Radios
<1>6. CASE m = 0
  BY <1>4, <1>5, <1>6, AdjustedNat DEF Best
<1>7. CASE m # 0
  <2>1. m - 1 \in Radios /\ m - 1 \notin T
    BY <1>3, <1>4, <1>7 DEF Radios
  <2>2. Best(n, best[m - 1], m - 1)
    BY <2>1 DEF T
  <2>3. \A i \in 0 .. m : i \in Radios
    BY <1>4 DEF Radios
  <2>4. \A i \in 0 .. m : Adjusted(n, i) \in Nat
    BY <2>3, AdjustedNat
  <2>5. best[m - 1] \in 0 .. m - 1 /\ best[m - 1] \in 0 .. m
    BY <1>4, <1>7, <2>2 DEF Best
  <2>6. CASE Adjusted(n, m) < Adjusted(n, best[m - 1])
    <3>1. best[m] = m
      BY <1>5, <1>7, <2>6
    <3>2. ASSUME NEW i \in 0 .. m, i # m PROVE Adjusted(n, m) < Adjusted(n, i)
      <4>1. i \in 0 .. m - 1
        BY <1>4, <3>2
      <4>2. Adjusted(n, best[m - 1]) <= Adjusted(n, i)
        BY <2>2, <4>1 DEF Best
      <4> QED BY <1>4, <2>4, <2>5, <2>6, <4>2
    <3>3. m \in 0 .. m
      BY <1>4
    <3>4. Best(n, m, m)
      BY <1>4, <2>4, <3>2, <3>3 DEF Best
    <3> QED BY <1>4, <3>1, <3>4
  <2>7. CASE ~(Adjusted(n, m) < Adjusted(n, best[m - 1]))
    <3>1. best[m] = best[m - 1]
      BY <1>5, <1>7, <2>7
    <3>2. ASSUME NEW i \in 0 .. m
          PROVE  /\ Adjusted(n, best[m - 1]) <= Adjusted(n, i)
                 /\ Adjusted(n, i) = Adjusted(n, best[m - 1]) => best[m - 1] <= i
      <4>1. CASE i = m
        BY <1>4, <2>4, <2>5, <2>7, <4>1
      <4>2. CASE i # m
        <5>1. i \in 0 .. m - 1
          BY <1>4, <4>2
        <5> QED BY <2>2, <5>1 DEF Best
      <4> QED BY <4>1, <4>2
    <3>3. Best(n, best[m - 1], m)
      BY <2>5, <3>2 DEF Best
    <3> QED BY <1>4, <3>1, <3>3
  <2> QED BY <2>6, <2>7
<1> QED BY <1>6, <1>7

\* SelectInterface returns what the loop has found.
LEMMA SelectInterfaceLoop ==
  ASSUME NEW n
  PROVE  \E best : Loop(n, best, NumRadios - 1) /\ SelectInterface(n) = best[NumRadios - 1]
<1> DEFINE best == CHOOSE f : f = [k \in Radios |->
                     IF k = 0 THEN 0 ELSE IF Adjusted(n, k) < Adjusted(n, f[k - 1]) THEN k ELSE f[k - 1]]
<1>1. NumRadios - 1 \in Radios
  BY DEF Radios
<1>2. PICK f : Loop(n, f, NumRadios - 1)
  BY <1>1, LoopEnds
<1>3. f = [k \in Radios |->
             IF k = 0 THEN 0 ELSE IF Adjusted(n, k) < Adjusted(n, f[k - 1]) THEN k ELSE f[k - 1]]
  BY <1>2 DEF Loop, Radios
<1>4. Loop(n, best, NumRadios - 1)
  BY <1>3, Zenon DEF Loop, Radios
<1>5. SelectInterface(n) = best[NumRadios - 1]
  BY Zenon DEF SelectInterface
<1> QED BY <1>4, <1>5

\* A unicast frame takes the radio whose queue is the shortest, the later ones with
\* their handicap counted, and of these the first (MrWifiNetDevice::SelectInterface),
\* for any number of radios; a full queue drops it only if no other radio has more
\* free places than the handicap.
THEOREM ShortestQueue == Spec => []LeastLoaded
<1>1. TypeOK => LeastLoaded
  <2> SUFFICES ASSUME TypeOK, NEW n \in Nodes
               PROVE  /\ \A j \in Radios :
                           /\ Adjusted(n, SelectInterface(n)) <= Adjusted(n, j)
                           /\ Adjusted(n, j) = Adjusted(n, SelectInterface(n)) => SelectInterface(n) <= j
                      /\ radio[n][SelectInterface(n)].queue = MaxSize =>
                           \A j \in Radios : MaxSize - radio[n][j].queue <= Handicap
    BY DEF LeastLoaded
  <2>1. PICK best : Loop(n, best, NumRadios - 1) /\ SelectInterface(n) = best[NumRadios - 1]
    BY SelectInterfaceLoop
  <2>2. Best(n, best[NumRadios - 1], NumRadios - 1)
    BY <2>1, LoopBest, TypeOKParts DEF Radios
  <2> DEFINE k == SelectInterface(n)
  <2>3. /\ k \in Radios
        /\ \A j \in Radios : Adjusted(n, k) <= Adjusted(n, j) /\ (Adjusted(n, j) = Adjusted(n, k) => k <= j)
    BY <2>1, <2>2 DEF Best, Radios
  <2> HIDE DEF k
  <2>4. ASSUME radio[n][k].queue = MaxSize, NEW j \in Radios PROVE MaxSize - radio[n][j].queue <= Handicap
    <3>1. radio[n][k].queue \in Nat /\ radio[n][j].queue \in Nat /\ MaxSize \in Nat /\ Handicap \in Nat
      BY <2>3, <2>4, SizesAssumption DEF TypeOK, BeQueues
    <3>2. MaxSize <= Adjusted(n, k) /\ Adjusted(n, j) <= radio[n][j].queue + Handicap
      BY <2>4, <3>1 DEF Adjusted
    <3>3. Adjusted(n, k) \in Nat /\ Adjusted(n, j) \in Nat /\ Adjusted(n, k) <= Adjusted(n, j)
      BY <2>3, <3>1 DEF Adjusted
    <3> QED BY <3>1, <3>2, <3>3
  <2> QED BY <2>3, <2>4 DEF k
<1> QED BY <1>1, TypeCorrect, PTL
=============================================================================
