# Verification of the multi-radio Wi-Fi MAC of ns-3

This directory holds TLA+ models, TLC configurations and TLAPS proofs for the
parts of the repository that carry their own control logic: the 802.11 MAC of
`src/ns-3.26-170802/src/wifi/model/`, as changed for stations with several
radios (the `NETSYS` changes), and the two concurrent programs written in Python,
the test driver `src/ns-3.26-170802/test.py` and the visualizer
`src/ns-3.26-170802/src/visualizer/visualizer/core.py`. Other paths below are
relative to the Wi-Fi directory unless they begin with `src/`.

## 1. The system

The repository is a copy of the network simulator ns-3.26 with a new device,
`MrWifiNetDevice`, that bundles several Wi-Fi radios under one MAC address. The
scenario it was written for (`scratch/multi.cc`) has stations that send UDP one
way to an access point over several channels. A station whose exchange on the
first channel is answered by a block ack gets a *token*: on all its other
channels it then waits one slot instead of its AIFS and draws no backoff, so
that the contention won on one channel decides the others as well.

ns-3 is a discrete-event program: one thread, one clock, and a queue of events.
Its "concurrency" is the order of events, of several stations, several queues
of a station and several layers, each of which keeps its own idea of the
medium, and the callbacks that one event makes into other layers before it
returns. The two Python programs are concurrent in the usual sense: the test
driver has one thread per processor, joined by two queues, and the visualizer
runs the simulator in a thread of its own beside the one of the GTK main loop.

### Inventory

| Component | State | Operations | Interacts with | Hard behaviour |
|---|---|---|---|---|
| Channel access: `dcf-manager.{h,cc}` (`DcfManager`, `DcfState`) | per queue: backoff slots, start of the backoff, contention window, request flag; per radio: seven remembered ends (reception, transmission, busy, NAV, ACK and CTS timeout, switch), the access timer, sleep | `RequestAccess`, `RequestReaccess` (NETSYS), `AccessTimeout`, `DoGrantAccess`, `ResetBackoff` (NETSYS), a `Notify...Now` for every event of the medium, of MacLow and of the PHY | PHY listener; users (`EdcaTxopN`, `DcaTxop`) by call and callback; `MacLow` by notifications | lazy deduction of slots, internal collisions, a timer that is only ever moved forward, sleep in between |
| Frame exchanges: `mac-low.{h,cc}` | listener, current packet, timers of CTS, ACK, block ack, SIFS answers | `StartTransmission`, `ReceiveOk`, timeouts, `SendDataAfterCts`, `CancelAllEvents` | users by callbacks, PHY, `DcfManager` | which of ten pending events is cancelled when |
| EDCA queues: `edca-txop-n.cc` | queue, current packet, agreements, token | `Queue`, `NotifyAccessGranted`, `NotifyInternalCollision`, `GotAck`, `MissedAck`, `GotBlockAck`, `StartNext`, `SetToken` | all of the above | TXOP continuation, block ack requests before data, collisions that nobody caused |
| DCF queue: `dca-txop.cc`, with `mac-tx-middle.cc`, `mac-rx-middle.cc` | queue, current MSDU, header, fragment; sequence counter; the receiver's last sequence control and fragments | `Queue`, `NotifyAccessGranted`, `GotCts`, `MissedCts`, `GotAck`, `MissedAck`, `StartNextFragment`, `Receive`, `HandleFragments`, sleep and switch | retry counters of `WifiRemoteStationManager` | lost ACKs, abandoned fragments, repeated numbers |
| Multi-radio device: `mr-wifi-net-device.{h,cc}`, `wifi-net-device.cc` | token, `m_proposed`, counters of exchanges, the radios | `Send`, `SelectInterface`, `GotAck`, `MissedAck`, `OverheardAck`, `ResetStatistics` | the block acks of the first radio; `SetToken` of the other radios | each station has its own view of who holds the token |
| Block acks: `block-ack-manager.cc`, `block-ack-agreement.cc`, `block-ack-cache.cc`, and their part of `edca-txop-n.cc` and `mac-low.cc` | originator's buffer, window and retry queue, MacLow's aggregate queue; recipient's bitmap and reorder buffer, with a window each | `StorePacket`, `GetNextPacket`, `AggregateToAmpdu`, `NotifyGotBlockAck`, `MissedBlockAck`, `ReceiveMpdu`, block ack requests | `EdcaTxopN`, `MacLow`, the medium | five windows over one circular number space, kept in step only by frames that may be lost |
| MAC queue: `wifi-mac-queue.cc` | packets with time stamps | enqueue, dequeue (also by TID and address), peek, push front, clean up | its owner | drops that nobody is told of |
| PHY: `wifi-phy-state-helper.cc`, `yans-wifi-phy.cc`, `interference-helper.cc` | state and its ends | switch to TX, RX, CCA busy, sleep; notify listeners | `DcfManager` as listener | order of notifications at one time |
| Association: `sta-wifi-mac.cc`, `ap-wifi-mac.cc` | state of association | beacons, probes, requests, timeouts | queues, PHY | missed beacons against answers |
| Test driver: `src/ns-3.26-170802/test.py` (`run_tests`) | two queues, the jobs, `thread_exit`, the tallies, `results.xml` | dispatch, `run_job_synchronously`, collect, join, report, `sigint_hook` | worker threads, the processes of the tests | an interrupt between two looks at `thread_exit`; a process that dies with half a file |
| Visualizer: `core.py` and `pyviz.cc` of `src/ns-3.26-170802/src/visualizer/` | lock, `go` event, `quit`, timers, pause messages, play button | the loop of `SimulationThread.run`, `update_view_timeout`, `update_model`, play, speed, quit | GTK main loop, the simulator | a handler that serves the main loop while it waits for the lock; signals set and cleared by two threads |
| Rate control, error models, helpers, other technologies, internet stack | | | | not part of this project |

What makes each of them correct: a request for access is never forgotten and is
granted only when the radio may send (channel access); no frame is sent into an
exchange of the same radio (exchanges); one station at a time holds the token
and really gets the other channels (multi-radio device); a packet that is
passed up is whole, in order and passed up once, and one that is reported as
sent was passed up (transfer); the two ends of a block ack agreement agree on
what has arrived, pass it up in order and once, and never stand still (block
acks); success is reported only for tests that ran and passed, and every run
ends (test driver); the simulator's state is used by one thread at a time, a
view that plays advances, no message is lost and the window can be closed
(visualizer). `PROJECT.json` lists for each hazard the line of
code where it bites and the properties that would show it.

## 2. Modules

| Module | Models |
|---|---|
| `DcfManager` | `dcf-manager.cc` whole, with its users, MacLow and the PHY as the environment that calls it |
| `DcfManagerProofs`, `DcfManagerSafety` | proofs about it |
| `EdcaTxopN`, `EdcaTxopNProofs` | one access category of `edca-txop-n.cc` with several destinations, its queue (`wifi-mac-queue.cc`) and its recipients |
| `MrWifi`, `MrWifiProofs` | `mr-wifi-net-device.cc` of all stations, over channels that contend as `DcfManager` does |
| `Delivery` | what a transfer of MSDUs promises, without sequence numbers, fragments and retries |
| `DcaTransfer`, `DcaTransferProofs` | `dca-txop.cc`, `mac-tx-middle.cc` and `mac-rx-middle.cc` composed over a lossy link; it implements `Delivery` |
| `BlockAck`, `BlockAckProofs` | both ends of a block ack agreement over a lossy medium: `block-ack-manager.cc`, `block-ack-cache.cc`, and the parts of `edca-txop-n.cc` and `mac-low.cc` that use them |
| `TestRunner`, `TestRunnerProofs` | `run_tests` of `test.py` with its worker threads |
| `Visualizer`, `VisualizerProofs` | the two threads of `core.py`, with `PyViz::SimulatorRunUntil` |
| `MCDcfManager`, `MCEdcaTxopN`, `MCMrWifi`, `MCDcaTransfer`, `MCBlockAck`, `MCTestRunner`, `MCVisualizer` | instances, symmetry and views for TLC |

### DcfManager

State. `dcf[s]` is the `DcfState` s (`m_backoffSlots`, `m_backoffStart`, `m_cw`,
`m_accessRequested`) with the token of its user; `med` holds the ends that the
manager remembers (`m_lastRxEnd`, `m_lastNavStart` plus duration, ...); `timer`
is `m_accessTimeout`; `sleeping` is `m_sleeping`. `waking` is the rest of the
loop of `NotifyWakeupNow`. `exch` and `reply` are the exchange and the SIFS answer
that MacLow has under way.

Actions. One per event: `RequestAccess`, `AccessTimeout`, `SetToken` (users and
timer); `AnswerTimeout`, `EndTxNoAck`, `SendDataAfterCts`, `StartNext`, `SendReply`
(events of MacLow); `RxStart`, `RxEndOk`, `RxEndError`, `MaybeCcaBusyStart`, `NavReset`
(medium); `SwitchingStart`, `Sleep`, `Wakeup`, `NotifyWakeUp` (power); and `Tick`, which
moves the clock and stops at every pending event. A handler with the callbacks
it makes is one action: a grant (`GrantAccess`) contains the granted user's
`StartTransmission` with the notifications that it causes, the internal
collisions of the losers with their new backoffs, and the restart of the timer.
Only `NotifyWakeupNow` is cut into the visits of its loop, since each visit may
ask for access again; nothing else runs between them (`Running`). Backoffs, frame
durations and the users' choices (retry or give up, something to send or not)
are nondeterministic.

### EdcaTxopN

State. `queue` is `m_queue`, `tx` is `m_currentPacket` with `m_currentHdr`, which outlives
it: destination, number and retry bit. `asked` is `m_accessRequested` of the `DcfState`
together with the packet that the request was made for. `next` holds the counters of
`MacTxMiddle`, one for each recipient; `last` and `up` are the recipients'
`OriginatorRxStatus` and what they passed up. `link` is the exchange in MacLow,
with the SIFS after an ACK as a state of its own. `done` says what was reported; an
entry of `early` is a packet that was reported while it stayed in the queue. `hist`
serves properties and the bound on sleeps. In `Expire`, and only there, it matters
which packets may be old: those that a sleep put back got a new time stamp.

Actions. `Queue`, `Expire`; `GrantNothing`, `GrantNext`, `GrantAgain` are the ways through
`NotifyAccessGranted`, `InternalCollisionOfCurrent` and `InternalCollisionOfHead` those
through `NotifyInternalCollision` that use up the retries; `GotCts`, `MissedCts`, `Arrive`,
`MissedAck`, `GotAck`, `StartNext`, `StartNextNothing`, `EndTxNoAck`, `NotifySleep`, `NotifyWakeUp`,
`NotifyChannelSwitching` the callbacks. `DcfManager`, which has its own module, is seen
here as an environment that may grant a request, or report a collision, at any
time between exchanges. Sizes are left open: whether a frame has an RTS, and
whether a packet fits into what is left of the TXOP, is a choice. When retries
end is one too, since the station manager counts them per recipient and not per
packet.

### MrWifi

State. `radio[n][k]` is the best-effort queue of radio k of station n, with its
backoff and token; `dev[n]` is the `MrWifiNetDevice` (token and counters); `air[k]` is
the channel k. `dev[n].begun`, the number of exchanges begun, is the only history
variable.

Actions. `Send` (with `SelectInterface`), `SendFirst` (broadcast, `SendFrom`),
`ResetStatistics`; `Access` is one contention: the stations with the shortest wait
start a frame, the others deduct the slots that have gone by, by the rules of
`DcfManager`; `Answer`, `Unanswered` end the frame; `GotBlockAck`, `Overhear`,
`Undecoded` are the arrival of the block ack at *one* station. That each station
hears it in an event of its own is what makes the handing over of the token
interesting.

### DcaTransfer

State. `queue` is `m_queue` as a set of MSDUs (numbered in the order of `Queue`; since
`PushFront` puts back only the MSDU taken last, lowest first is the order of the
queue); `tx` is `m_currentPacket`, `m_currentHdr`, `m_fragmentNumber` and the
station's retry counters; `drawn` is the counter of sequence numbers before the
modulo; `link` says which event MacLow waits for; `rx` is the receiver's
`OriginatorRxStatus`; `up` is what was passed up, each packet by its fragments; `done`
is what was reported.

Actions. `Queue`, `Expire` (lifetimes); `SendNext` and `SendAgain` are the two halves of
`NotifyAccessGranted`; `GotCts`, `MissedCts`, `Arrive` (reception: duplicate detection
and defragmentation, and the ACK), `GotAck`, `MissedAck` (the fragment or its ACK is
lost), `StartNextFragment`; `OtherFrame` (other queues draw from the same sequence
numbers, and group frames reach the receiver's status); `NotifySleep`,
`NotifyWakeUp`, `NotifyChannelSwitching`.

`Delivers` is the abstract transfer `Delivery` under the mapping `D`: the MSDU being
sent, the MSDUs passed up, those reported, and *blocked*: the receiver holds
fragments of another MSDU than the one that is being sent. `Delivery` says what
can be relied on (once, in order, reported implies passed up) and the one
exception the code makes (a blocked receiver).

### BlockAck

State. `first` is the sequence number of the first MSDU; an MSDU is known by its
turn n in the queue and has the number `Sn(n)`, which wraps around. `orig` is the
originator: the packet in hand (`m_currentPacket`), the buffer `pkts` and retry queue
of the `BlockAckManager` with the start of its window, and the aggregate queue `low`
of its MacLow. `rcpt` is the recipient: the reorder buffer with the start of its
window, the cache (`wstart`, `bits`), which has a window of its own, and what was
passed up. `air` is the exchange: an RTS, a single frame, the rest of an A-MPDU, a
block ack request, an ACK, a block ack. `hist` holds what was acknowledged and given
up; only `hist.left`, a bound, guards anything.

Actions. `NotifyAccessGranted` takes a packet (one to be sent again before a new
one), discards what is older than the window, and aggregates; how many packets fit
and whether there is an RTS depends on sizes and is left open. `GotCts`, `MissedCts`,
`GotAck`, `MissedAck`, `GotBlockAck`, `MissedBlockAck` are the callbacks of MacLow;
`ReceiveSingle`, `ReceiveInAmpdu` with `LoseInAmpdu`, `ReceiveBar` and
`SendBlockAckAfterAmpdu` the receptions. An A-MPDU arrives MPDU by MPDU, each
of them lost or not. The operators below them (`IsOld`, `CleanupBuffers`, `NextRetry`,
`NotifyGotBlockAck`, `UpdateWithMpdu`, `ReceiveMpdu`, ...) are the functions of
the code, with the code's own arithmetic: where it compares two sequence
numbers without a modulo, so does the model.

### TestRunner

State. `put` and `got` count the objects of `input_queue` (the tests, then a break job
for each worker), `out` is all that was put to `output_queue` and `main.taken` how much
of it was taken; `worker` and `job` say what each thread and each test is doing, with the
return code and the state of the temporary file; `tally` and `xml` are the statistics
and `results.xml`.

Actions. Of a worker: `Get`, `HandBack` (a test that is skipped, or any after an
interrupt), `Launch`, `Finish`, and `Die`, when `Popen` raises. Of the main thread:
`Dispatch`, `Collect`, `Join`, `Return`; and `Sigint`, at any moment. A process passes, fails or
crashes, its suite leaves a whole file, a torn one or none, and valgrind or the
decoding of its output may change the return code.

### Visualizer

State. `lock`, `go`, `quit` are what the threads share; `spc` is the place in
`SimulationThread.run`; the view thread is described by one program counter `vpc` and
the stack of timers whose handlers are being executed, since `update_view_timeout`
serves the main loop while it waits for the lock. `live` are the timers that GLib
knows, `timeoutId` the one that the visualizer remembers. A pause message is
counted where it is: `helper`, `pending`, `taken`, `shown`.

Actions. One per step of the simulation thread at which the other can come in
between (`SimTest` to `SimRelease`); the user's `Play`, `Pause`, `SpeedChanged`, `Touch`
(any other handler that takes the lock), `Quit`; `Expire(t)`, `TryFails`, `TryAgain`, `UpdateView`,
`ViewRelease`, `Settle` of the handler of a timer; `UpdateModel`, `Acquire`,
`Release`; `QuitGo`, `QuitJoin`. GLib's priorities decide which source is dispatched.

## 3. Runs

| Run | Properties | Shows |
|---|---|---|
| `dcf_access` | IInv, AccessTimerRunning, TxNeverOverlaps, AckTimeoutOver, GrantStartNotRetroactive, NoGrantInSleep | two queues, failed receptions, busy periods, NAVs, sleep, wake-up and switching: no request without a timer, no overlapping transmissions |
| `dcf_token` | TypeOK, BackoffEndKept, ExchangeAlone, RequestServed | the same with the token and grants that are not used; under fairness each request is granted |
| `edca_txop` | AskedForFirst, ReportedOnce, TxOkForwarded, ForwardedOnce, OnlyTxopForgets | one access category: three destinations, internal collisions, lost frames, expiry, TXOPs, sleep and switching |
| `mr_token` | IInv, TokenWins | two stations and an access point, two channels, no bound on the run |
| `mr_counts` | EachCountedOnce, LeastLoaded | collisions, lost frames and lost block acks; queues of every length, full ones too |
| `transfer_quiet` | ForwardedOnce, Delivers | lost frames and ACKs, fragments, RTS, expiry, group frames; refinement |
| `transfer_power` | InOrder, WholeMsdus, Sync, Settled | the same with sleep and switching; every MSDU is settled |
| `block_ack` | Tracked, InSequence, EndsAgree, AllForwarded | any frame lost, A-MPDUs of every size, block ack requests, numbers that come round, packets given up |
| `test_runner` | IInv, SuccessHonest, ReportHonest, Ends | crashes, torn files, valgrind errors, Control-C at any moment, a worker that dies |
| `visualizer` | IInv, PlayRuns, MessagesOnce, QuitEnds, Advances, PauseHolds, MessagesShown | two threads, nested handlers, plays, pauses, changes of the speed, pause messages, quit |

Where a type invariant is not in the list, it is a conjunct of an invariant that is
(`IInv`, `ReportedOnce`, `Tracked`) or, in `DcaTransfer`, proved.

`RequestServed` counts a request as served when the manager loses its timer. By
itself that would say little of a manager that loses it often; together with
`AccessTimerRunning` (checked in `dcf_access`, proved as `TimerRuns`: without a token
and with grants that are used the timer is never lost) it says that each request
is granted, and with a token that nothing but the loss shown in
`dcf_token_stall` and the silent winner below keeps a request waiting for ever.

Three runs show where the code does something else than its documentation says
(the lines are quoted under "findings"); the first two with a counterexample:

* `dcf_token_stall`: `IsWithinAifs` waits for the AIFS and the backoff of a token
  holder for one slot. A request between the two is neither granted nor timed.
* `transfer_black_hole`: an MSDU that is given up after its first fragment leaves
  the receiver defragmenting; it acknowledges every later MSDU of that sender,
  which reports it as sent, and passes none up.
* `test_runner`: the comment at `test.py:1743-1748` promises that a suite which passes
  and fails valgrind has a PASS entry in `results.xml` followed by a VALGR entry. The
  branch that writes the second one (line 1772, return code 2) is nested in the `else`
  of the test for return codes 0, 1 and 2 (line 1758) and is never taken. This is no
  counterexample but a conjunct of `ReportHonest`, which holds of every report: a suite
  counted as VALGR has its own verdict as its only result (`OwnWord`).

Modelling met some more such places. They are in the models, and the properties
exclude them by a named condition, so that the rest of the property keeps its
force:

* `DcfManager`, constant `Silent`: the winner of an internal collision has nothing
  to send, the loser draws no backoff and is left requested, with no timer, for
  ever. (`AccessTimerRunning` is checked without silent winners.)
* `DcfManager`, constant `PowerAtTxEnd`: `EndTxNoAck` is scheduled but not kept, so
  that a sleep at the very end of the transmission clears the listener of an
  event that still fires.
* `EdcaTxopN`, `OnlyTxopForgets`: `GotAck` neither draws a backoff nor asks for access
  if `HasTxop` finds a packet, but `StartNext`, a SIFS later, may find that it has
  expired or no longer fits. Packets, of other destinations too, then wait
  without a request until the next call of `Queue`.
* `EdcaTxopN`, `AskedForFirst`: a request outlives the packet that it was made for, if
  that packet expires, is sent in a TXOP, or is given up after collisions. The
  queue may then be empty at an internal collision (`edca-txop-n.cc:723` asserts
  that it is not), and `m_isAccessRequestedForRts` may be that of another packet.
* `EdcaTxopN`, `ReportedOnce`: if collisions use up the retries of the packet at the
  head of the queue, the code says "Dequeueing and discarding head of queue"
  and calls `Peek` (`edca-txop-n.cc:774`): the packet is reported as failed and sent
  later all the same.
* `EdcaTxopN`, `TxOkForwarded`: `StartNext` sends its packet under `m_currentHdr`, the
  header of the packet before (`edca-txop-n.cc:1402`). If that one was sent again, the
  next has its number and its retry bit too: the recipient acknowledges it as a
  duplicate, the sender reports it as sent, and nobody passes it up. The same
  happens to a next packet that is lost once and sent again.
* `BlockAck`, `NothingGivenUp`: `AggregateToAmpdu` looks for the RTS in `m_txParams`
  (`mac-low.cc:3166`) before `StartTransmission` has decided on it (line 849), so that
  an A-MPDU is stored with the block ack manager before its RTS is answered. If
  the RTS is given up, a request that starts at the next new packet moves the
  recipient's window past packets which the originator keeps and sends again:
  alone, they are acknowledged and dropped; in an A-MPDU, they are not
  acknowledged until their lifetime ends. The comments at `mac-low.cc:1147` and in
  `GetNextPacket` say that such packets are buffered and are not sent.
* `BlockAck`, `BarsInsisted`: `NeedBarRetransmission` (`block-ack-manager.cc:871`) compares
  two sequence numbers without a modulo. After a packet was given up, and if the numbers come round, it
  throws away a request that is needed: the packets stay in the buffer, neither
  sent again nor removed, and the recipient waits for them. Only then is the
  branch of `ReceiveMpdu` with `abs` (`mac-low.cc:2502`) reached with its arithmetic
  wrong.
* `TestRunner`, `OwnWord`: a suite whose output cannot be decoded gets return code 1
  whatever became of it (`test.py:775`). It is counted as failed, while its own file,
  copied to `results.xml`, may say PASS. If it has crashed, the file is torn or
  missing, and the document is ill-formed or `test.py` raises, although the comment at
  line 1743 says of return codes 0, 1 and 2 that "we have a valid xml file".
* `TestRunner`, `Ends`: a worker whose `Popen` raises is gone with its job, and the main
  thread waits for it for ever; no success is ever reported then (`SuccessHonest`).
* `MrWifi`, `LeastLoaded`: the first radio is preferred although its queue is full, and
  drops the frame, if the others have no more free places than the handicap.

### Bounds

*DcfManager.* One DCF queue with AIFSN 1 and one EDCA queue with AIFSN 2, a slot of
two ticks and a SIFS of one, so that events fall on slot boundaries, between
them, and inside a SIFS; contention windows of one or two, so that a backoff of
zero, one and two slots occurs; frames of two or three ticks. `MaxRequests` = 3
and `MaxDisturbances` = 1 or 2 bound the calls and the medium events: three requests
are enough for a request, a collision and a request again while the first one
is served, and two disturbances for a reception that is cut short or a NAV that
is reset or a sleep with its wake-up. `Horizon` is out of reach: time itself is not
bounded.

`VIEW MCView`. The clock only ever grows, so TLC fingerprints states by times relative
to now. Two states with the same view have the same future up to a shift: an
end that has passed matters only through `GetAccessGrantStart`, which is in the
view; the start of a backoff only through `GetBackoffStartFor`, which is too, and a
start that is hidden behind the grant start stays hidden, since it is at most
now and `GetAccessGrantStart` never falls below the smaller of its old value and
now + SIFS (checked and proved, `GrantStartNotRetroactive`); a backoff that began
longer ago than the largest one lasts is over. Properties compare times with
now or with each other and are invariant under the shift. As the view is a
bisimulation it is also sound for the liveness run. `TokenView` in `mr_token`
leaves out the counters, which guard nothing but the bound `MaxExchanges`, there
out of reach.

*EdcaTxopN.* Four MSDUs to two recipients and a group, one sleep or switch (3.7
million states up to the symmetry of the recipients): enough for a packet in the air, one to the same
recipient that continues the TXOP, one to another destination that waits, and
one that arrives meanwhile. The 4096 sequence numbers do not come round. Losses
and retries are not bounded. Each exception in the five properties was left out
once to see that the property then fails.

*MrWifi.* Two stations that are symmetric and an access point (`mr_token`), the
smallest instance in which the token changes hands while a third station
overhears; queues of one frame and backoffs of zero or one. `mr_counts` has one
station and the access point, two channels, queues of up to three frames with a
handicap of one, so that equal loads and full queues occur, and two exchanges
per radio.

*DcaTransfer.* Four or five MSDUs of one to three fragments, a queue of two, up to
three tries, sixteen sequence numbers. With four MSDUs an abandoned one, its
successor, one that waits and one that is dropped exist at a time. `MaxDrawn`
bounds the frames of other queues, and the sleeps, by the numbers drawn so far.

*BlockAck.* Six MSDUs, sixteen sequence numbers, a window of three and a reorder
buffer of four. Six MSDUs are two full windows, so that the window moves past a gap
while a packet of the one before is missing; the sizes are in the order of the
code's (window below buffer below half the numbers), and both moves of the cache,
overlapping and not, occur. Two agreements: one starts at 13, so that the
numbers come round in the middle of a window, and gives nothing up; the other
starts at 2 and gives up to two transmissions up. Losses are not bounded. A
window is less than a quarter of the numbers (64 of 4096 in the code): the originator
may be two windows ahead of the recipient's cache, and what it compares has to lie
within half of the numbers.

*TestRunner.* Four jobs (three suites, one of them to be skipped, and an example)
on two workers, one of which may die: a worker has a job while the other has
taken the break job, and every kind of entry of `results.xml` occurs. *Visualizer.*
Two timers, the remembered one and one whose handler is nested or is about to be
dropped, and two messages, one taken while the next is raised. What the user does is not bounded.
`MaxTimers` bounds the identifiers that are in use at one time: a change of the
speed while the handlers of both timers are nested has to wait.

Deadlock is checked, except in the runs of `EdcaTxopN`, `DcaTransfer`, `BlockAck` and `TestRunner`,
where the system stops when all MSDUs are settled or all tests have ended. In the
visualizer the state after `gtk.main` has returned has a step of its own, `Finished`.

### Fairness

The simulator executes every event that it has scheduled, and its clock moves
on when none is left: weak fairness of `Tick`, of the timer, of the events of
MacLow, of the end of a reception and of the loop of `NotifyWakeupNow`
(`RequestServed`). New requests, receptions, sleeps and tokens are not assumed to
happen. `Settled` assumes that an exchange goes on (a timeout fires, and access is
granted to who asks, which `RequestServed` shows of the layer below), that a
sleeping PHY is resumed, and that it is put to sleep finitely often: each sleep
puts the current MSDU back to its queue, and with a sleep before each access it
would stay there.

`AllForwarded` assumes that an exchange goes on, and, strongly, that a frame of a
kind that is sent again and again gets through in the end (CTS, data, each MPDU of
an A-MPDU, request, ACK, block ack). Nothing weaker will do on a medium that may
lose every frame, and nothing is assumed of the originator's choices: how many
packets an A-MPDU takes may always be the worst.

`Ends` assumes that threads run and that each process ends; neither an interrupt nor
the death of a worker is assumed. In the visualizer both threads are scheduled; a
lock that is free again and again is got in the end (Python's locks are not
fair, but the simulation thread gives way to the view thread between two
periods, when it waits for `go`); the inner main loop runs out of events
between two events of the user (`TryAgain`), and a timer that is due is dispatched
again and again (`Expire`). Nothing makes the user play, pause or quit.

## 4. Proofs

All theorems hold for every number of queues, stations, radios and MSDUs, every
timing and every size that the named assumptions of the modules allow. None
depends on the bounds of TLC: the bounds are parameters, with no upper limit.

### Channel access

* `TypeCorrect` (`DcfManagerProofs`): the backoffs never go below zero, windows stay
  within their bounds.
* `InvariantHolds` (`DcfManagerSafety`): the inductive invariant `IInv`. That no access
  is granted inside an exchange is not inductive: it holds since, for each event
  that MacLow has pending, the manager remembers an end that keeps backoffs from
  expiring. `ExchangeHeld` and `ReplyHeld` say which end covers which event,
  `Receiving` that a reception began after the last transmission, and `EventsAhead`
  that nothing pending has been passed over. From it follow `GrantsAlone`,
  `TxApartAlways`, `AckTimeoutsApart`, `SleepGrantsNothing`; `BackoffsKept` needs types only.
* `TimerRuns`: no request without a timer.
* `StartNotRetroactive`: the start of access does not move into the past.

Hypotheses, each of them necessary. `QuietPower`: if the PHY sleeps or switches, no
user is given the token, and neither happens before the `EndTxNoAck` of its very
time; with a token in its sleep a radio is granted access while it sleeps, and the
other case is the second of the list in section 3. `GrantsUsed` (for `TimerRuns`):
a granted user sends, and no token is given; `dcf_token_stall` shows the second
case, the first is the silent winner of section 3.

### Multi-radio device

* `TypeCorrect`: among others, the token of a device is that of all its later
  radios, and the first never has it.
* `TokenHandedOn`, `TokenAlone`: two stations hold the token only while a block ack is
  handing it over. This alone is not inductive: `Handover` says that a block ack that
  is on its way still has to reach every holder but the station that it
  answers, and `Senders` that a holder sends aggregates, so that the receiver of an
  aggregate never holds the token.
* `HolderWins`: the holder takes each later channel alone.
* `CountedOnce`: every exchange that was begun is under way or was counted, with no
  hypothesis. Its invariant `CountInv` adds that who is answered has sent
  (`AwaitedSent`).
* `ShortestQueue`: the loop of `SelectInterface` finds the first of the radios whose
  queue, handicap included, is as short as any, for any number of radios, again with
  no hypothesis. A frame is dropped at a full queue only if no other radio has more
  free places than the handicap. The loop is a
  recursive function; `LeastNatural` (a set of naturals has a least element, from
  the well-founded order of finite sets) gives that the function exists and what
  it returns.

Hypothesis `Reliable` of the first four: aggregates go one way (as in `scratch/multi.cc`), and every
station decodes every block ack. With a block ack that one station misses two
may hold the token until the next one.

### EDCA queue

* `EveryReportOnce`, from `PacketsInOnePlace`: `CoreInv` is inductive. A packet is in one
  place of the queue, or current, or settled in one way.
* `RequestIsForFirst`: `AskedInv` adds that a current packet between two exchanges has
  its request (`PacketAsked`), and that a request was made for a settled packet, the
  current one, or the head of the queue, which only a TXOP overtakes (`AskedFor`).
* `TxopForgets`: an action property, from the same invariant.
* `SentIsForwarded`: `NumberInv` says that the numbers still to be drawn do not come
  round (`NumbersLeft`), that those which the recipients remember and the current
  packet has were drawn before (`NumbersUsed`), and that a recipient which remembers
  the number of the current packet has passed that packet up, unless its number was
  used before (`SameNumber`).
* `PassedUpInOrder`: `OrderInv`: until the first sleep or switch, a recipient has
  passed up packets in order, which are at most the current one.

Hypothesis `NoWrap` of `SentIsForwarded` alone: packets and sleeps together are fewer
than the sequence numbers (a sleep draws a number twice). If the 4096 numbers came round
between a packet and its first copy, the recipient would take it for a duplicate; with `SeqSpace` = 1 TLC shows it.

### Transfer

* `TypeCorrect`: no fragment beyond the last, no retry counter beyond its limit.
* `InStep`: `Sync` is inductive. Of the MSDU that is sent the receiver has nothing,
  its first fragments, or all of it, or it waits for fragments of another one;
  the four cases say how its last sequence control, the retry bit and the
  progress of the exchange go together. The point is that a lost ACK leaves the
  receiver one step ahead, and the retry bit is set then.
* `OnlyWhole`: what is passed up is a whole MSDU, its fragments in order.
* `InSequence` (of the invariant `Ordered`), `OnceInOrder`: each MSDU is passed up at most once, in order.
* `Refinement`: the code implements `Delivery`.
* `NeverOvertaken`: packets are passed up in the order in which they were queued, with
  no hypothesis at all. `Ahead` is inductive: what was passed up is not ahead of what is
  sent, nor this of what waits. A packet that a sleep puts back is the lowest of
  its queue again (`PushFront`), and whatever the receiver has put together ends
  with the fragment that has just come.

Hypotheses of the others. `NoWrap`: the sequence counter has not come round; with more than 4096
frames between the fragments of an abandoned MSDU and another one with its
number the two may be put together. `Quiet`, for `InSequence`, `OnceInOrder` and `Refinement`: no sleep and no
switch. A sleep that cuts off the last ACK puts the MSDU back to the queue,
where it gets a new sequence number and is passed up twice; `transfer_power`
checks what is left then (`InOrder`, `WholeMsdus`, `Sync`), and all three are proved.

### Block acks

* `TypeCorrect`, `TrackedHolds`, `InSequenceHolds` (of `InSequence`), `EndsAgreeHolds` (of
  `EndsAgree`): for any number of MSDUs and of sequence numbers, any start, window and reorder
  buffer that `SizesAssumption` allows, any losses, and any number of transmissions that are given up.

None of the three properties is inductive, and they are proved together. The
invariant (`Types` and `Sync`, which implies each of them) speaks of packets where the
code has numbers only: there are two packets w and r at which the windows of the
recipient's cache and of its reorder buffer start, such that

* `Queues`: the originator's packets are in ascending order, within one window, and
  those that are not to be sent again are the aggregate that is under way; a block ack
  request is for the first of them, or, after a packet was given up, for the next
  new one;
* `Recipient`: w, r and the next new packet are at most two windows apart; within the
  window the bitmap says what was passed up or is buffered, and the buffer is in
  order, without r and without packets beyond the cache's window;
* `Settled`: what was sent and is no more with the originator has reached the
  recipient, unless the request that says otherwise is still to be answered;
* `Unheard`: what is to be sent again, and what of an A-MPDU is still to arrive, has not
  been heard, but for the first packet: sent alone, its ACK may have been lost,
  and the recipient then gets it twice;
* `Answered`: a block ack on the air tells what the recipient has, from the place
  where its window is;
* `Complete`: if nothing was given up, all before r was passed up, and the cache's
  window has not left a packet of the originator behind.

The last is where the design shows: the window of the cache moves as soon as a
packet beyond it is heard, before the originator knows; that a packet left behind
would never be acknowledged again is excluded only since the originator sends
nothing a window beyond the first packet that it keeps.

The proofs rest on lemmas about the circular numbers (`ModShift`, `ModMinus` and the
comparisons of two numbers less than half the space apart) and about the loops of the code
(`Selected`, `InsertAll`, `Leading`): each is a recursive function over the places of a
sequence, whose existence and result are got from the least place at which they
would fail. Before it was proved the invariant was checked by TLC on six further
instances, from four MSDUs in six numbers with a window of one, to nine in ten with
a window of two (1.25 million states), with up to three transmissions given up.

The condition `BarsInsisted` of `Tracked` and of the order of packets is in the
properties, and is that of section 3: if a packet is given up *and* the numbers come round,
`NeedBarRetransmission` may throw away a request. (The checked instance that starts
at 2 does not come round.) Types hold without any condition.

### Test driver

* `InvariantHolds`: `IInv`, for any jobs and any number of workers. That success is
  honest is not inductive by itself: `Accounted` says that a job taken from
  `input_queue` is with one worker or was handed over once, `Tallied` that the
  statistics are those of the jobs taken from `output_queue` and that a job with a
  result of its own has run, `Concluded` that the main thread goes on only when it
  has all of them.
* `SuccessIsHonest`: the exit status is 0 exactly if every test ran and passed, or
  was to be skipped, whenever an interrupt comes, and there is none if a worker has
  died. There is no hypothesis.
* `ReportIsHonest`: likewise for `results.xml`, from the moment it is closed and whether it
  can be parsed or not: an entry for each test that was not interrupted, with the
  result that was counted. The exceptions are those of `OwnWord`, and they are stated
  exactly: what the suite says of itself, or nothing if it has crashed. Nothing but
  a crash of a suite makes the document ill-formed or ends `test.py` with an
  exception. `Reported`, inductive beside `IInv`, ties
  each entry to one job that was taken from `output_queue`, with what the job says
  of itself (`Value`), each such job that has an entry (`Written`) to one of them, and an
  ill-formed document to a job that spoils it (`Spoils`).

### Visualizer

* `InvariantHolds`: `IInv`, for any number of timers and messages. `Exclusive` ties
  the lock to the places of both threads, `Nested` the hands of a handler to the
  stack, `StopsInOrder` the order in which the threads end.
* `PlayingHasTimer`, `EachMessageOnce`: from it, each inductive beside `IInv`.

### Only model-checked

`RequestServed`, `Settled`, `AllForwarded`, `Ends`, `QuitEnds`, `Advances`, `PauseHolds` and
`MessagesShown` are liveness properties under fairness, out of the prover's reach.
All invariants that a run checks are proved; among the action properties, those that
are left are the liveness properties above.

## 5. Not modelled, and the plan

Left out for good: powers, error rates and propagation (real-valued, no control
state); rate control (heuristics over measured rates); the internet stack, the
other link technologies and the routing protocols (unchanged from ns-3.26, each
the size of a project); helpers and tracing; the Python bindings
(`modulegen__gcc_*.py`, by far most of the Python lines of the repository), which are
generated registrations without any control.

Left out of modelled components: frame contents, durations computed from rates,
addresses, logging; in `EdcaTxopN` fragments of QoS MSDUs, A-MSDUs, the set-up of
agreements with the destinations that it blocks, and a full queue; in
`DcaTransfer` a fragmentation threshold that changes during a run; in `MrWifi` the other access categories. In
`BlockAck`: setting up and tearing down an agreement (ADDBA, DELBA, the inactivity
timeout), the end of lifetimes, agreements of stations without HT and delayed ones,
A-MSDUs, fragments, VHT single MPDUs, a TXOP with more than one exchange, and several
receivers that share one aggregate queue. In `TestRunner`: the build by waf, the
selection of tests, the rendering of the report. In `Visualizer`: what is drawn, the
samples of transmissions and drops, the IPython shell, and `autoscale_view`, which
runs once, 200 ms after the window is built, and reads positions without the lock.

Planned, in this order, each with its module, instance, abstract specification
and proofs:

1. Agreements: ADDBA, DELBA and the inactivity timeout around `BlockAck`, with the
   lifetimes of packets and the destinations that an agreement being set up blocks.
2. `WifiPhyStateHelper`: the states and the order in which listeners are told, as
   the environment that `DcfManager` assumes.
3. `StaWifiMac`: association with beacons, probes and timeouts.
4. Further proofs: that both ends of `BlockAck` implement a transfer like `Delivery`, and
   that a channel of `MrWifi` implements the contention of `DcfManager`.
