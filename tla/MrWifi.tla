------------------------------- MODULE MrWifi -------------------------------
(***************************************************************************)
(* Stations with several radios: ns3::MrWifiNetDevice (NETSYS,             *)
(* wifi/model/mr-wifi-net-device.{h,cc}) on top of one WifiNetDevice per   *)
(* channel, and the token that a block ack on the first channel gives.     *)
(*                                                                         *)
(* Radio k of every station is tuned to channel k.  A channel is a         *)
(* sequence of contentions, in which the stations with frames wait for     *)
(* their inter-frame space and their backoff, counted in slots since the   *)
(* medium is idle (DcfManager::GetBackoffEndFor), and of frame exchanges.  *)
(* A block ack reaches every station in an event of its own.               *)
(***************************************************************************)
EXTENDS Integers, FiniteSets

CONSTANTS
  Nodes,         \* the stations, the access point included
  Peers,         \* [Nodes -> SUBSET Nodes], whom a station sends aggregates to
  NumRadios,     \* m_numRadios
  Proposed,      \* the stations with m_proposed, set before the simulation runs
  Aifsn,         \* of the best-effort queues, in slots
  Cw,            \* bound: largest backoff
  Handicap,      \* what SelectInterface adds to the queue of a later radio
  MaxSize,       \* MaxPacketNumber of a WifiMacQueue
  Lossy,         \* may a station fail to decode a frame?
  MaxExchanges   \* bound: exchanges of one radio that await a block ack

Radios == 0 .. NumRadios - 1
Later == Radios \ {0}

ASSUME NodesAssumption ==
  /\ Peers \in [Nodes -> SUBSET Nodes] /\ \A n \in Nodes : n \notin Peers[n]
  /\ Proposed \subseteq Nodes
  /\ Lossy \in BOOLEAN
ASSUME SizesAssumption ==
  /\ NumRadios \in Nat \ {0}
  /\ Aifsn \in Nat /\ Aifsn > 1
  /\ Cw \in Nat /\ Handicap \in Nat /\ MaxSize \in Nat /\ MaxExchanges \in Nat

VARIABLES
  radio,  \* the best-effort queue of a radio: its frames, whether one is in
          \* transmission or to be sent again, its backoff and its token
  dev,    \* the MrWifiNetDevice: m_token and the acks counted; to state properties, the
          \* exchanges begun
  air     \* what happens on a channel

vars == <<radio, dev, air>>

Idle == [st |-> "idle"]
Data(from, ba) == [st |-> "data", from |-> from, ba |-> ba]
BlockAck(from, to, pending) == [st |-> "ba", from |-> from, to |-> to, pending |-> pending]

-----------------------------------------------------------------------------
(* Queues *)

\* The length that SelectInterface compares.
Adjusted(n, k) == radio[n][k].queue + (IF k = 0 THEN 0 ELSE Handicap)

(* Mutant of SelectInterface: the handicap is forgotten in the comparison. *)
SelectLastShorter(n) ==
  LET best[k \in Radios] == IF k = 0 THEN 0
                            ELSE IF radio[n][k].queue < Adjusted(n, best[k - 1]) THEN k ELSE best[k - 1]
  IN best[NumRadios - 1]

\* The loop over the radios.
SelectInterface(n) ==
  LET best[k \in Radios] == IF k = 0 THEN 0
                            ELSE IF Adjusted(n, k) < Adjusted(n, best[k - 1]) THEN k ELSE best[k - 1]
  IN best[NumRadios - 1]

\* Has the queue a reason to ask for access?
Wants(r) == r.queue > 0 \/ r.more

\* WifiMacQueue::Enqueue and StartAccessIfNeeded: a full queue drops the frame; a
\* first frame with no backoff draws one if the medium is busy.
Enqueued(r) ==
  LET longer == IF r.queue = MaxSize THEN r ELSE [r EXCEPT !.queue = @ + 1] IN
  IF Wants(r) \/ r.slots > 0 THEN {longer} ELSE {[longer EXCEPT !.slots = n] : n \in 0 .. Cw}

Enqueue(n, k) ==
  /\ \E r \in Enqueued(radio[n][k]) : radio' = [radio EXCEPT ![n][k] = r]
  /\ UNCHANGED <<dev, air>>

\* MrWifiNetDevice::Send to one station, which reports success in any case.
Send(n) == Peers[n] # {} /\ \E k \in Radios : k = SelectInterface(n) /\ Enqueue(n, k)

\* Send of a broadcast packet, and SendFrom.
SendFirst(n) == Enqueue(n, 0)

-----------------------------------------------------------------------------
(* The token *)

\* EdcaTxopN::SetToken: a token that is gained resets the backoff.
SetToken(r, cmd) ==
  IF cmd /\ ~r.token THEN [r EXCEPT !.token = TRUE, !.slots = 0] ELSE [r EXCEPT !.token = cmd]

\* The loop over the later radios, as GotAck and OverheardAck call it.
SetTokens(radios, cmd) ==
  [k \in Radios |-> IF k = 0 THEN radios[k] ELSE SetToken(radios[k], cmd)]

(* Mutant of GotAck: an exchange on any radio gives the token. *)
GotAckAnywhere(n, k, radios) ==
  /\ radio' = [radio EXCEPT ![n] = IF n \in Proposed THEN SetTokens(radios, TRUE) ELSE radios]
  /\ dev' = [dev EXCEPT ![n] = [dev[n] EXCEPT !.token = @ \/ n \in Proposed, !.received[k] = @ + 1]]

\* MrWifiNetDevice::GotAck, called in EdcaTxopN::GotBlockAck of radio k.
GotAck(n, k, radios) ==
  LET gained == k = 0 /\ n \in Proposed IN
  /\ radio' = [radio EXCEPT ![n] = IF gained THEN SetTokens(radios, TRUE) ELSE radios]
  /\ dev' = [dev EXCEPT ![n] = [dev[n] EXCEPT !.token = @ \/ gained, !.received[k] = @ + 1]]

\* MrWifiNetDevice::OverheardAck; WifiNetDevice forwards that of its first radio.
OverheardAck(n) ==
  /\ radio' = [radio EXCEPT ![n] = SetTokens(radio[n], FALSE)]
  /\ dev' = [dev EXCEPT ![n].token = FALSE]

-----------------------------------------------------------------------------
(* Contention and exchanges *)

(* Mutant of Ifs: the holder of the token waits as long as the others. *)
IfsOfAll(r) == Aifsn

\* Slots to wait after the medium has become idle (DcfManager::GetBackoffEndFor).
Ifs(r) == IF r.token THEN 1 ELSE Aifsn
Wait(r) == Ifs(r) + r.slots

Contenders(k) == {n \in Nodes : Wants(radio[n][k])}
First(k) == {n \in Contenders(k) : \A m \in Contenders(k) : Wait(radio[n][k]) <= Wait(radio[m][k])}

\* DcfManager::UpdateBackoff after w idle slots; an EDCA state counts one more.
Elapsed(r, w) ==
  IF w < Ifs(r) THEN r
  ELSE [r EXCEPT !.slots = IF @ <= w - Ifs(r) + 1 THEN 0 ELSE @ - (w - Ifs(r) + 1)]

\* EdcaTxopN::NotifyAccessGranted takes frames from the queue, or sends again.
Taken(r) ==
  {[r EXCEPT !.queue = left, !.more = TRUE] : left \in {q \in 0 .. r.queue : r.more \/ q < r.queue}}

\* The stations with the shortest wait start a frame each; those of ba await a
\* block ack.
Access(k) ==
  /\ air[k] = Idle /\ Contenders(k) # {}
  /\ \E w \in {Wait(radio[n][k]) : n \in First(k)},
        ba \in SUBSET {n \in First(k) : Peers[n] # {} /\ dev[n].begun[k] < MaxExchanges},
        taken \in [First(k) -> UNION {Taken(radio[n][k]) : n \in First(k)}] :
       /\ \A n \in First(k) : taken[n] \in Taken(radio[n][k])
       /\ radio' = [n \in Nodes |->
                      [radio[n] EXCEPT ![k] = IF n \in First(k) THEN taken[n] ELSE Elapsed(@, w)]]
       /\ air' = [air EXCEPT ![k] = Data(First(k), ba)]
       /\ dev' = [n \in Nodes |-> [dev[n] EXCEPT !.begun[k] = IF n \in ba THEN @ + 1 ELSE @]]

\* The radio has frames left to send again or not, and a new backoff.
Ended(r, backoffs) == UNION {{[r EXCEPT !.more = m, !.slots = n] : m \in BOOLEAN} : n \in backoffs}

(* Mutant of MissedAck: an exchange that had been lost before is not counted. *)
MissedAckOnce(n, k) == [dev[n] EXCEPT !.missed[k] = IF @ = 0 THEN 1 ELSE @]

\* MrWifiNetDevice::MissedAck.
MissedAck(n, k) == [dev[n] EXCEPT !.missed[k] = @ + 1]

\* The frame was decoded, and its receiver answers with a block ack.
Answer(k) ==
  /\ air[k].st = "data" /\ air[k].ba # {}
  /\ \E n \in air[k].ba :
       /\ air[k].from = {n}
       /\ \E r \in Peers[n] : air' = [air EXCEPT ![k] = BlockAck(r, n, Nodes \ {r})]
  /\ UNCHANGED <<radio, dev>>

\* The exchange ends with no block ack: its frames have collided or were lost, or
\* none was awaited (EdcaTxopN::MissedBlockAck, GotAck, MissedAck, EndTxNoAck).
Unanswered(k) ==
  /\ air[k].st = "data"
  /\ Cardinality(air[k].from) > 1 \/ air[k].ba = {} \/ Lossy
  /\ \E ended \in [air[k].from -> UNION {Ended(radio[n][k], 0 .. Cw) : n \in air[k].from}] :
       /\ \A n \in air[k].from : ended[n] \in Ended(radio[n][k], 0 .. Cw)
       /\ radio' = [n \in Nodes |->
                      IF n \in air[k].from THEN [radio[n] EXCEPT ![k] = ended[n]] ELSE radio[n]]
  /\ dev' = [n \in Nodes |-> IF n \in air[k].ba THEN MissedAck(n, k) ELSE dev[n]]
  /\ air' = [air EXCEPT ![k] = Idle]

\* The medium is idle again when the block ack has reached every station.
Reached(k, n) ==
  LET left == air[k].pending \ {n} IN
  air' = [air EXCEPT ![k] = IF left = {} THEN Idle ELSE BlockAck(air[k].from, air[k].to, left)]

\* The block ack reaches the station that it answers: EdcaTxopN::GotBlockAck, with
\* no backoff for the holder of the token.
GotBlockAck(k) ==
  /\ air[k].st = "ba" /\ air[k].to \in air[k].pending
  /\ LET n == air[k].to
         r == radio[n][k]
     IN /\ \E e \in Ended(r, IF r.token THEN {0} ELSE 0 .. Cw) : GotAck(n, k, [radio[n] EXCEPT ![k] = e])
        /\ Reached(k, n)

\* The block ack reaches another station.
Overhear(k, n) ==
  /\ air[k].st = "ba" /\ n \in air[k].pending /\ n # air[k].to
  /\ IF k = 0 THEN OverheardAck(n) ELSE UNCHANGED <<radio, dev>>
  /\ Reached(k, n)

\* A station fails to decode the block ack; the one that awaits it runs into
\* its timeout.
Undecoded(k, n) ==
  /\ Lossy
  /\ air[k].st = "ba" /\ n \in air[k].pending
  /\ \/ n # air[k].to /\ UNCHANGED <<radio, dev>>
     \/ /\ n = air[k].to
        /\ \E e \in Ended(radio[n][k], 0 .. Cw) : radio' = [radio EXCEPT ![n][k] = e]
        /\ dev' = [dev EXCEPT ![n] = MissedAck(n, k)]
  /\ Reached(k, n)

\* Does the exchange of this radio still await its block ack?
Awaiting(n, k) ==
  \/ air[k].st = "data" /\ n \in air[k].ba
  \/ air[k].st = "ba" /\ n = air[k].to /\ n \in air[k].pending

\* MrWifiNetDevice::ResetStatistics; begun restarts with the open exchanges.
ResetStatistics(n) ==
  /\ dev' = [dev EXCEPT ![n].received = [k \in Radios |-> 0], ![n].missed = [k \in Radios |-> 0],
                        ![n].begun = [k \in Radios |-> IF Awaiting(n, k) THEN 1 ELSE 0]]
  /\ UNCHANGED <<radio, air>>

-----------------------------------------------------------------------------
Init ==
  /\ radio = [n \in Nodes |-> [k \in Radios |-> [queue |-> 0, more |-> FALSE, slots |-> 0, token |-> FALSE]]]
  /\ dev = [n \in Nodes |-> [token |-> FALSE, received |-> [k \in Radios |-> 0],
                             missed |-> [k \in Radios |-> 0], begun |-> [k \in Radios |-> 0]]]
  /\ air = [k \in Radios |-> Idle]

Next ==
  \/ \E n \in Nodes : Send(n) \/ SendFirst(n) \/ ResetStatistics(n)
  \/ \E k \in Radios :
       \/ Access(k) \/ Answer(k) \/ Unanswered(k) \/ GotBlockAck(k)
       \/ \E n \in Nodes : Overhear(k, n) \/ Undecoded(k, n)

Spec == Init /\ [][Next]_vars

-----------------------------------------------------------------------------
(* Properties *)

BeQueues == [queue : 0 .. MaxSize, more : BOOLEAN, slots : 0 .. Cw, token : BOOLEAN]
Counts == [Radios -> Nat]
Devices == [token : BOOLEAN, received : Counts, missed : Counts, begun : Counts]
Ongoing == [st : {"idle"}]
  \cup [st : {"data"}, from : SUBSET Nodes, ba : SUBSET Nodes]
  \cup [st : {"ba"}, from : Nodes, to : Nodes, pending : SUBSET Nodes]

\* Types.  m_token of the device says what its later radios hold, which only a
\* proposed station does, and the first radio never has the token.
TypeOK ==
  /\ radio \in [Nodes -> [Radios -> BeQueues]]
  /\ dev \in [Nodes -> Devices]
  /\ air \in [Radios -> Ongoing]
  /\ \A n \in Nodes : ~radio[n][0].token /\ \A k \in Later : radio[n][k].token = dev[n].token
  /\ \A n \in Nodes : dev[n].token => n \in Proposed

\* The stations that are sent aggregates send none (scratch/multi.cc), and no
\* station misses a block ack.
OneWay == \A n \in Nodes : \A m \in Peers[n] : Peers[m] = {}
Reliable == OneWay /\ ~Lossy

\* Two stations hold the token at a time only while a block ack of the first
\* channel reaches them: the one it answers has got it, and the other has yet to
\* overhear it (GotAck and OverheardAck of two devices, in either order).
TokenExclusive ==
  \A m, n \in Nodes : dev[m].token /\ dev[n].token /\ m # n =>
    /\ air[0].st = "ba"
    /\ \/ air[0].to = m /\ n \in air[0].pending
       \/ air[0].to = n /\ m \in air[0].pending

\* A station that holds the token, or that may get it from the exchange on the
\* first channel, sends aggregates.
Senders ==
  /\ \A n \in Nodes : dev[n].token => Peers[n] # {}
  /\ air[0].st = "data" => \A n \in air[0].ba : Peers[n] # {}
  /\ air[0].st = "ba" => Peers[air[0].to] # {}

\* Once the block ack is on its way, who holds the token is about to overhear it
\* or is the station that it answers; that one has got it before the holder has
\* released it, or gets it later.
Handover ==
  air[0].st = "ba" =>
    \A n \in Nodes : dev[n].token => n \in air[0].pending \/ n = air[0].to

\* The inductive invariant.
IInv == TypeOK /\ Senders /\ Handover /\ TokenExclusive

\* A station with the token, frames and no backoff takes a later channel alone,
\* unless a block ack of the first channel is just handing the token on.
TokenWins ==
  [][\A k \in Later, n \in Nodes :
       /\ air[k] = Idle /\ air'[k].st = "data" /\ air[0].st # "ba"
       /\ dev[n].token /\ Wants(radio[n][k]) /\ radio[n][k].slots = 0
       => air'[k].from = {n}]_vars

\* An exchange that awaits a block ack is counted exactly once, in GotAck or in
\* MissedAck, also when the statistics are reset while it is under way.
EachCountedOnce ==
  \A n \in Nodes, k \in Radios :
    dev[n].received[k] + dev[n].missed[k] + (IF Awaiting(n, k) THEN 1 ELSE 0) = dev[n].begun[k]

\* A unicast frame of an idle channel lengthens a queue only if no other radio
\* has a queue that counts as shorter: a later radio is used once the queue of
\* the first is longer than its own by more than the handicap.  So a full queue
\* drops the frame only if no other has more free places than the handicap; with
\* fewer it does, since the first radio is preferred although it is full.
LeastLoaded ==
  \A n \in Nodes :
    LET k == SelectInterface(n) IN
    /\ \A j \in Radios : Adjusted(n, k) <= Adjusted(n, j) /\ (Adjusted(n, j) = Adjusted(n, k) => k <= j)
    /\ radio[n][k].queue = MaxSize => \A j \in Radios : MaxSize - radio[n][j].queue <= Handicap
=============================================================================
