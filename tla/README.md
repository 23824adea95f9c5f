# TLA+ models of Swift over TCP in ns-3

The repository is ns-3 3.43 with a research addition: the Swift
congestion control (`src/src/internet/model/tcp-swift.{h,cc}`), a packet tag that
measures link delays and counts hops (`src/scratch/Swift/my-delay-tag.h`, hooked
into the IP layer and the TCP socket), and the experiment that uses them
(`src/scratch/swiftSim.cc`). This directory models that addition, the TCP socket it
lives in, the queues and links of the experiment and the event engine that runs
them, checks the models with TLC on small instances and proves the central
properties for every size with TLAPS.

The modules and `PROJECT.json` name source files from the directory that holds the
checkout, so their paths begin with `src/`, the repository's root. In the tables
below `internet/` stands for `src/src/internet/model/`, `scratch/` for
`src/scratch/`, and other parts are directories of `src/src/`.

## 1. The system

| Part | State | Operations | Hard because |
| --- | --- | --- | --- |
| **Swift** `internet/tcp-swift.*` | `m_rtt`, `m_tLastDecrease`, `m_retransmitCount`, and `m_cWnd` of the socket | `IncreaseWindow`, `PktsAcked`, `GetSsThresh`, `CwndEvent`, `CongestionStateSet`, `Init` | rounding to segments on every ACK, a once-per-RTT guard, the socket overwrites the window after some hooks |
| **TCP socket** `internet/tcp-socket-base.*` | congestion state, duplicate ACK count, recovery point, timers, retries | `SendPendingData`, `ReceivedAck`, `ProcessAck`, `DupAck`, `EnterRecovery`, `NewAck`, `DoRetransmit`, `ReTxTimeout`, `ReceivedData`, `DelAckTimeout` | five congestion states, ACKs that are partial, duplicate, late or overtaken, a timer racing an ACK |
| **Send buffer and scoreboard** `internet/tcp-tx-buffer.*` | sent and unsent items with flags sacked/lost/retransmitted, three running counters, `m_highestSack` | `Add`, `CopyFromSequence`, `Update`, `DiscardUpTo`, `NextSeg`, `IsLost`, `SetSentListLost`, `MarkHeadAsLost`, `BytesInFlight` | counters kept by increments beside the flags, an unsigned pipe |
| **PRR** `internet/tcp-prr-recovery.*` | `m_prrDelivered`, `m_prrOut`, `m_recoveryFlightSize` | `EnterRecovery`, `DoRecovery`, `UpdateBytesSent` | unsigned subtraction, division by the flight |
| **Receive buffer** `internet/tcp-rx-buffer.*` | next expected byte, stored segments, SACK list, room left | `Add`, `Extract`, SACK list, `SetFinSequence` | what is SACKed may not be forgotten; the window it announces is stale when used |
| **Flow control** `internet/tcp-socket-base.cc` | `m_rWnd`, persist timer | `UpdateWindowSize`, `PersistTimeout`, silly window avoidance, `Recv` | one of two timers must be pending; probes and window updates may be lost |
| **Connection** `internet/tcp-socket-base.cc`, `tcp-l4-protocol.cc` | state of each end, FIN, retries, four timers | `Connect`, `Close`, `ShutdownSend`, `Process*`, `PeerClose`, `DoPeerClose`, `SendEmptyPacket`, timers | both ends act at once; FINs before data; an endpoint that goes away inside a handler |
| **Delay tag** `internet/ipv4-l3-protocol.cc`, `scratch/Swift/my-delay-tag.h`, `TcpSocketBase::ForwardUp` | tag in each packet; `m_maxDelay`, `m_hops` of the socket | tag update at each node, reading at the socket, reset by Swift | uninitialised fields, value copied before it is incremented, packets on different paths |
| **Experiment** `scratch/swiftSim.cc` | topology, flows | `RetrieveTcb` swaps the congestion control of a running socket | swap in any congestion state |
| **Queue disc and link** `traffic-control`, `network/utils`, `point-to-point` | RED queue, device queue, two stop flags, byte queue limits, transmit state, channel | `Enqueue`, `Run`, `Restart`, `Send`, `TransmitComplete`, `PacketEnqueued`, `PacketDequeued`, `Receive` | flow control is told by events that run late; two reasons to stop; a quota |
| **Simulator core** `core` | scheduler, clock, current uid, events of other threads, destroy events | `Schedule`, `Cancel`, `Remove`, `IsExpired`, `Run`, `Stop`, `Destroy`, `ScheduleWithContext` | expiry inferred from clock and uid; a flag read without its lock; five data structures for one queue |
| **The rest of ns-3** (Wi-Fi, LTE, ad hoc routing, ...) | | | library modules the experiment does not use |

How they interact. A packet arrives at the socket through
`Ipv4L3Protocol::Receive` (tag update) and `ForwardUp` (tag read into the socket).
`ReceivedAck` feeds the SACK blocks and the cumulative ACK to the scoreboard, then
runs `ProcessAck`, which calls Swift's hooks and PRR according to the congestion
state, and ends in `SendPendingData`, which asks the scoreboard (`NextSeg`,
`BytesInFlight`) what fits in Swift's window. `SendDataPacket` arms the
retransmission timer, `NewAck` restarts or cancels it, `ReTxTimeout` marks
everything lost and overwrites the window. The receiver acknowledges out-of-order
data at once and in-order data every second segment or by its delayed-ACK timer.
Below IP a packet goes through the queue disc and the device queue to the
transmit machine, whose completion wakes the queue again. The simulator runs all
of this in one thread: concurrency is the order of events, chosen by the network
and by timers. Only `ScheduleWithContext` may be called from other threads.

What makes each part correct: Swift's window stays within the bounds its rules
imply; the scoreboard's counters describe its flags, so that the pipe is right; the
socket always has an event that will move a stuck transfer, never believes more
than the receiver holds, keeps its own assertions and leaves recovery with clean
state; PRR sends in proportion to what was delivered; the sender never overruns the
receiver and a closed window is always probed; both ends of a connection agree on
what was sent before a close, and none waits without a timer; the socket's
`m_maxDelay` and `m_hops` should be those of the packets it got; a link is a FIFO that
loses only at its ends; every event runs once, in order, unless it was cancelled.

The hazards of this code, each at its line with the properties that cover it, are
in `PROJECT.json` under `hazards`.

## 2. Modules

```
TcpSwift ----------> SwiftFlow <------- SwiftFlow_proofs
   |                     ^  (abstract specification)
   v                     | implements
TcpPrrRecovery ----> TcpSender <---- TcpTxBuffer ----> Scoreboard <-- Scoreboard_proofs
                         ^                                                  |
                         +------------- TcpSender_proofs <------------------+

TcpWindow <-- TcpWindow_proofs       TcpConnection <-- TcpConnection_proofs
DelayTag <--- DelayTag_proofs        (one socket pair each)

Link ---- implements ----> LossyFifo       (Link <-- Link_proofs)

SchedulerQueues ---> SimulatorQueues ---- implements ----> Simulator <-- Simulator_proofs

MCSwiftFlow, MCScoreboard, MCTcpSender, MCTcpWindow, MCTcpConnection, MCDelayTag,
MCLink, MCSimulator: small instances for TLC
```

* **TcpSwift** - the hooks of `tcp-swift.cc` as operators on a controller record
  (`cWnd`, `rtt`, `since`, `retransmitCount`). Times count 100 ns. The code's
  doubles are exact quotients, truncated where the code casts to `uint32_t`;
  `alpha / sqrt(cwnd)` is the integer root in thousandths. `since` is
  `Now() - m_tLastDecrease`. `m_canDecrease` is assigned before each use and so is
  not state. Log files and `Fork` are left out.
* **SwiftFlow** - one flow seen from its window: in which order and in which
  congestion state the socket calls the hooks. An ACK runs the stages of
  `ReceivedAck` (ECN, `DupAck`, the state machine of `ProcessAck`); what the
  scoreboard, PRR and the network decide is open (`RecoveryWindows`, `\E dup`).
  It includes the swap of the algorithm by `RetrieveTcb`, which the detailed model
  does not have. It is the abstract specification of TcpSender.
* **TcpTxBuffer** - the scoreboard as operators on a record. Sequence numbers count
  segments, so items are never split or merged; the counters `m_sackedOut`,
  `m_lostOut`, `m_retrans` are separate fields, changed by increments as in the
  code. With SACK.
* **Scoreboard** - the buffer under every sequence of calls a TCP sender can make:
  application writes, first transmissions, retransmissions, ACKs with SACK blocks
  of a receiver that never forgets, timeouts, forced losses of the head.
* **TcpPrrRecovery** - PRR as operators, with the unsigned wrap of
  `m_prrDelivered - m_prrOut` and the division by an empty flight (recorded as a
  failed assertion).
* **TcpSender** - a whole transfer: the sending socket (scoreboard, Swift, PRR,
  timers, retries, classic ECN), the receiving socket (reassembly, delayed ACKs,
  SACK, ECN echo), and two channels. `path` says what the network may do in a
  behaviour: how many packets it drops and marks, whether one may overtake
  another, whether the timer may fire while packets travel. One action is one
  simulator event with all it does before it returns: `SendPendingDataEvent`,
  `DeliverAck` (ReceivedAck to the last segment sent), `ReTxTimeout`,
  `DeliverData`, `DelAckTimeout`; `LoseData`, `LoseAck`, `MarkData` and `Elapse`
  are the network and the clock. The assertions of the code are `Check`s that
  collect failures in `snd.failed`.
* **TcpWindow** - flow control of an established connection, in bytes. The sender
  has `SendPendingDataEvent`, `DeliverAck`, `ReTxTimeout` and `PersistTimeout`; the
  receiver `DeliverData`, `DelAckTimeout` and the application's `Recv`; the network
  loses probes and ACKs. `snd.crashed` records the null pointer `PersistTimeout`
  dereferences when there is no byte to probe with. The congestion window is chosen
  freely from `CWnds` and is never below a segment; data segments arrive in order.
* **TcpConnection** - both ends of a connection from `Connect` to `CLOSED`: every
  `Process*` function, `PeerClose` and `DoPeerClose`, `SendEmptyPacket` with its
  retries, the timers behind SYN, FIN, LAST_ACK, TIME_WAIT and the delayed ACK, the
  listener that forks and may close, the refusal by RST (which the client ignores
  for want of a timestamp option). Each side writes at most one segment, so
  sequence numbers are those of SYN, segment and FIN. What each application may
  call is a member of `Scripts`; calls come at any time and in any order. `Then`
  composes the steps of a handler.
* **DelayTag** - packets travelling over paths of different lengths, each node
  updating the tag, the socket reading it or refusing the segment
  (`IsValidTcpSegment`). `times`, `base`, `delivered` and
  `newest` are history variables for the properties. The uninitialised
  `m_maxDelay` and `m_hops` start as an arbitrary member of `Garbage`.
* **Link** - one direction of a link: `Send` runs RED's decision, the queue disc's
  `Run` and the device; `TransmitComplete`, `PacketDequeued` (the event that reports
  completed bytes and wakes the queue) and `Receive` are the others. The random
  number of `DropEarly` is a free choice between the thresholds, and the average is
  the length, as with the weight 1 the experiment sets. `DynamicQueueLimits` is
  modelled with its arithmetic. **LossyFifo** is what this promises to IP.
* **Simulator** - `DefaultSimulatorImpl` with the scheduler as a set of events.
  `phase` is where the main thread is; handlers are arbitrary, they may make any
  call. `ReadFlag` and `Swap` split `ProcessEventsWithContext` where the flag is
  read without the lock. A call of another thread has two steps as well:
  `ThreadSchedule` takes `m_eventsWithContextMutex` and appends, `ThreadReturns`
  writes the flag and unlocks. `ReadFlag` may come before, between or after them
  (the racing read of the `bool` gives the old or the new value); `Swap` needs the
  lock, and so does `DoDispose` when it finds the flag cleared.
* **SchedulerQueues** - list, heap and calendar by their algorithms (sifting,
  buckets, resize, the new width from samples); map and priority queue hold library
  containers and are sets. **SimulatorQueues** runs the simulator on them: the
  event that is processed is the one the queue hands out.

`PROJECT.json` maps every definition to the lines it models. A definition whose
comment starts with "Mutant:" is a deliberately wrong version of the one after it;
`PROJECT.json` names the property that each of them breaks.

## 3. What the runs check

Runs that pass:

| Run | Checks | Instance |
| --- | --- | --- |
| `flow` | `TypeOK`; `GrowthCeiling`: outside recovery the window never passes `Ceiling` + 1 segments, however many ACKs arrive at however low a delay | 4-byte segments, windows PRR may leave {0, 3, 9, 22}, RTTs below, between and above the targets, up to 4 timeouts in a row |
| `scoreboard` | `CountsConsistent`, `PipeNeverWraps`, `SackPointerSound`, `TimeoutFindsHead`: a timeout always finds something to send | 7 segments, buffer of 6, threshold 3 |
| `sender` | `NoAssertionFails`, `RecoveryPoint`, `RestsClean`, `PrrOvershootBounded`, `TimerArmed`, `SenderBehindReceiver`; steps: `NoDoubleRetransmission`, `CutOncePerWindow` | up to 8 segments, thresholds 2, initial window 5, 1 retry; four paths: two losses; a loss with overtaking and early timers; two marks; a mark with overtaking; `NoAssertionFails` is about every assertion but the one of `sender_ecn` |
| `sender_live` | `Delivers`: the transfer completes; `ImplementsSwiftFlow`: refinement | 5 segments, thresholds 3, 3 retries, two losses or two marks, under fairness |
| `window` | `NothingTrimmed`: a segment fits when it arrives; `PersistOnlyIdle`: a probe never pops a real segment off the sent list; `StallsOnlyOnSillyWindow`; `TransferEnds` under fairness | 11 bytes in segments of 2, buffer of 5, reads of 1, 3 or 5, 2 losses |
| `connection` | `TimerPending`: no waiting state without a timer; `QuietWhenClosed`; `EndsAgree`: what one end takes as acknowledged the other has; `CloseAgreed`: nobody leaves ESTABLISHED before the peer's data; `PeerClosesOnce`: the assertion of `DoPeerClose`; `HandshakeEnds` under fairness | four pairs of scripts, 2 SYN retries, 1 data retry, one lost segment or early timer |
| `delay_tag` | `MaxDelayIsLargest` | 2 packets, paths of up to 3 nodes, clock up to 5, symmetric packets |
| `link` | `LinkTypeOK` (with the assertion of `DynamicQueueLimits::Completed`), `DeviceNeverDrops`: the "BUG!" branch of the device is dead; `EctLostOnlyWhenFull`; `ImplementsLossyFifo`: refinement; `Drains` under fairness | 10 packets, long ones before short ones, queue disc of 5, device queue of 4, quota 2, with and without byte limits |
| `simulator` | `ExpiredMeansGone`, `CancelledNeverRuns`, `NoEventLost`, `QueueHoldsEvents`; steps: `RunsInOrder`, `ThreadEventsTaken`; `ImplementsSimulator`: refinement | six programs of up to 7 calls on every kind of queue, delays 0 to 2, up to three calls of other threads; no removal from a heap |

Runs that show where the code and what is written about it part (each is a finding
in `PROJECT.json`):

| Run | Statement in the repository | What the code does |
| --- | --- | --- |
| `scoreboard_loss` | `tcp-tx-buffer.h`: more than DupAckThresh SACKed segments above a hole make it lost | `Update` may move `m_highestSack` down by one segment, because it compares with the end of the item; the count then misses segments above it |
| `sender_ecn` | `DupAck` asserts that OPEN meets its first duplicate ACK with a count of one | CWR is left without resetting the count; if the ACK that ends CWR also reports a new SACK, the assertion fails |
| `simulator_heap` | `ProcessOneEvent` asserts that the clock never goes back | `HeapScheduler::Remove` puts the last element into the hole and sifts it down only; it may belong further up |

The assertion that `sender_ecn` refutes is excluded from `NoAssertionFails`, which
says that no other one fails before it; with the constants of `MCTcpSenderEcn.cfg`
`NoAssertionFails` and the other properties of `sender` hold too (608,188 states,
some two minutes). The case of `simulator_heap` is excluded from `simulator`, which
removes no event from a heap: `RunsInOrder` and `ImplementsSimulator` are checked
for every queue under insertion, for removals from map, list and calendar, and for
changes of the scheduler.

### Further observations

These follow from the models and are not runs of their own. To reproduce one, add
the formula to the module, if it is not there, and check it with the named
configuration.

* *Stall on a silly window* (`tcp-socket-base.cc:3480`): with everything
  acknowledged and a receiver window of at least one byte but less than a segment
  and than the data left, `SendPendingData` stops, no timer is armed (the persist
  timer runs only while the window is zero, 1474 and 1540), and `Recv` sends no
  window update. `MCTcpWindow.cfg` with the invariant `~(Stalled /\ Quiet)` shows it
  in six states. `StallsOnlyOnSillyWindow` says that it is the only way to stall.
* *FINs without end* (`tcp-socket-base.cc:2948`): if the last ACK is lost and the
  peer has left TIME_WAIT, the FIN of LAST_ACK is repeated by `m_retxEvent`, which
  has no limit, although `DoPeerClose` sets the retries to "prevent endless FINs"
  (2763). `FairSpec` of TcpConnection with a property that every socket in LAST_ACK
  leaves it shows the loop.
* `ProcessClosing` (2634) and `ProcessLastAck` (2670) take any ACK in sequence for
  the ACK of the FIN; `ShutdownSend` with data in flight (852) sends its FIN only
  with a later data segment.
* A segment that was retransmitted and then SACKed still counts in `m_retrans` and
  so in the pipe (`tcp-tx-buffer.cc:1067`, against `tcp-tx-buffer.h:69`).
* With SACK a partial ACK may send new data instead of the hole
  (`tcp-socket-base.cc:4124`, against the comment at 2126).
* `ReTxTimeout` lowers `ssThresh` on every timeout, because `SetSentListLost` has
  cleared the flags its condition asks for (3989, against the comment at 3986).
* Swift's decreases on ACKs have no floor of one segment (`tcp-swift.cc:193`,
  against `tcp-swift.h:51`); the socket then waits for its timer.
* The first `AddHops` is applied to the local copy of the tag after it was attached
  to the packet (`ipv4-l3-protocol.cc:654`), so `m_hops`, and with it the hops in
  Swift's target delay, is one short of the "Number of hops traversed" of
  `my-delay-tag.h:95`. `HopsTraversed` of DelayTag states what that line says; as an
  invariant of `MCDelayTag.cfg` it fails with the first packet that arrives.
* With byte queue limits a wake-up may move more than one packet, and a `Run` that
  ends by its quota is not scheduled again (`queue-disc.cc:946`, a \todo): what is
  left in the queue disc, with the device free, waits for the next packet. `Drains`
  admits this case and no other; with `node.disc = <<>>` in its place it fails on
  `MCLink.cfg`, where the quota is below the size of the device queue as in the
  code (64 and 100 packets). Without byte limits, as in the experiment, a wake-up
  has room for one packet, and `Drains` shows that nothing is left.

### Bounds, and why they are enough

* `N` and `segments` (of a transfer), `MaxSeq`, `MaxBuffer`: one hole needs
  DupAckThresh segments above it; two holes with enough above them fit in 7 with a
  threshold of 2. Overtaking needs two packets at a time and thresholds small enough
  to be reached by it. With at most 2 losses the receiver never has more SACK
  blocks than an ACK can carry, so the limit on their number, which is not
  modelled, has no effect.
* `SegmentSize = 4` bytes (TcpSender, SwiftFlow): a fraction of a segment exists and
  is dropped by the code's conversions. `Rtts`: one below and one above every target
  delay of the instance, so each ACK may increase or decrease. `MaxRtt` caps
  `since`, which is only compared with an RTT.
* `Paths`: what the network may do. Without `spurious` the retransmission timer
  fires only when nothing else can happen (an RTO much longer than the path); with
  it at any time.
* `DataRetries`, `SynRetries`, `MaxTimeouts`: the socket's own bounds on consecutive
  attempts, set low. `Delivers` holds with more retries than losses. With as many
  retries as losses it does not: a window below one segment costs one timeout
  without any loss.
* TcpWindow: a buffer that is no multiple of the segment, reads smaller and larger
  than a segment, and enough bytes to close and reopen the window twice; two losses
  take a probe and the ACK that reopens the window.
* TcpConnection: `MaxFaults` bounds losses and timers that fire early together; one
  of them meets every segment of every order of calls. With `MaxFaults = 2` the
  same properties hold (457,675 states, some four minutes).
* Link: both queues fill, RED decides below, between and above its thresholds, and
  the byte limit rises and falls. Short packets behind long ones let one completion
  make room for several, so that the quota, which is below the size of the device
  queue, ends a `Run`; `Drains` also holds with a quota of 1. Delays are not modelled: completion, arrival and
  wake-up come in any order that one event after the other allows, and the wake-up
  event, scheduled with delay zero, before the next completion.
* Simulator: `MaxUid` is never reached by the programs; delay 0 gives events of the
  present instant, five events make the calendar resize up and down and give the
  heap three levels. Three calls of other threads: one taken, one whose flag is
  written and one between its two writes.
* `MaxPath`, `MaxTime`, two packets: two links of different delay on a path and two
  packets that overtake each other.
* Deadlock is not checked where the system may really stop: a finished transfer, a
  closed socket, packets all delivered, a program that is over.

### Fairness

The simulator runs every event it has scheduled (module Simulator is the model of
that promise), and a packet in flight is such an event. `FairSpec` of TcpSender,
TcpWindow, TcpConnection and Link asks weak fairness of events and arrivals.
Losses, marks and calls of the application are not fair, they are bounded; the
exception is TcpWindow's reader, which reads as long as there is data, as a sink
does. Timers that the models let fire only in quiet (their time is much longer than
the path) get strong fairness: pending again and again in quiet, they fire. Some
conjuncts are written with the action's guard in the place of ENABLED, which is the
same formula because each of these actions changes a variable whenever its guard
holds.

## 4. What is proved

With TLAPS, for every value of the constants that satisfies the named assumptions
(`SwiftAssumption`, `FlowAssumption`, `BufferAssumption`, `SeqAssumption`,
`SimulatorAssumption`, `TagAssumption`, `LinkAssumption`, `WindowAssumption`,
`ConnectionAssumption`, `SenderAssumption`: positive sizes and thresholds, `MaxMdf`
a percentage, RTTs within `MaxRtt`, PRR's windows within `MaxRecoveryWindow`, delays
that are natural numbers, congestion windows of at least a segment, at least one
SYN, scripts made of the three calls).

**SwiftFlow_proofs**: `TypeCorrect` and `WindowBelowCeiling` (`GrowthCeiling`).
`GrowthCeiling` is not inductive: leaving recovery or CWR copies `ssThresh` into
the window, and `ssThresh` was computed from a window PRR had set. The invariant
`IInv` adds that in CWR and RECOVERY `ssThresh` is below the bound and the window
is below it or is one PRR may choose. The core is `AdditiveBound`: with n segments,
n + AI * segs / n stays below `Ceiling` + 1 because the quotient is below one when n
exceeds AI * segs, and the code drops the fraction on the next ACK. There is one
lemma per hook and one per stage of `ReceivedAck`.

**Scoreboard_proofs**: `BufferTypeCorrect`, `CountsAlwaysConsistent`,
`PipeAlwaysSound`, `SackPointerAlwaysSound`, `TimeoutAlwaysFindsHead`. The
invariant `BufInv` joins the type, `ConsistencyCheck`, "the head is not SACKed", "no
item is lost and SACKed" and the soundness of `m_highestSack`; none of them is
inductive alone: counting correctly on a SACK needs lost and SACKed to be disjoint,
which a timeout keeps only because it passes over the SACKed items, and discarding
needs the flags to lie in the sent list. `With*` lemmas say when a buffer with some
fields replaced satisfies the invariant, and each operator of the buffer has one
lemma built on them.

**Simulator_proofs**: `SimTypeCorrect`, `ExpiredCorrect` (`ExpiredMeansGone`),
`CancelCorrect` (`CancelledNeverRuns`), `OrderCorrect` (`RunsInOrder`),
`ThreadsCorrect` (`ThreadEventsTaken`), `CountCorrect` (`NoEventLost`), for every
set of delays, every number of events and every order of calls of program, handlers
and other threads. `IsExpired` compares the event's time and uid with the clock and
the current uid, so the invariant has to say what that comparison means. `IInv`
joins the types; `UidInv` (uids are given once and stay below `m_uid`); `FutureInv`
(what waits is later, in the order of time and uid, than the event that runs);
`GoneInv` (an id that is not waiting is in the past or cancelled); `NotifiedInv`
(nothing is both notified and cancelled, and what waits was not notified);
`DestroyInv` (the destroy list has no id twice) and `FlagInv` (a flag that says the
list of the other threads is empty hides at most the one event of the thread that
holds the lock and has not written the flag yet). `OrderCorrect` follows from
`FutureInv`, `CancelCorrect` from `NotifiedInv`. `m_unscheduledEvents` has an
invariant of its own, `CountInv`, whose steps count finite sets.

**DelayTag_proofs**: `MaxDelayCorrect` (`MaxDelayIsLargest`), for any packets, path
lengths and clock. The tag of a packet
under way is only part of what the socket will read, so `IInv` says of every packet
what its tag means in terms of the times at which it was seen (`TagSaysTimes`), and
of the socket that `m_maxDelay` is the largest of what was delivered and of the
garbage it started from (`MaxOfCovered`).

**Link_proofs**: `LinkTypeCorrect` (`LinkTypeOK`), `RoomInDevice`
(`DeviceNeverDrops`), `EctKept` (`EctLostOnlyWhenFull`) and `LinkIsLossyFifo`
(`ImplementsLossyFifo`, the refinement), for any packet sizes, thresholds, queue
sizes, quota and limits. `NodeOK` holds at every step inside a handler, between two
rounds of `Run` too: a full device queue has stopped the queue disc (`FullStops`),
the transmit machine rests only with an empty queue (`MachineOK`), and the bytes
queued and not completed are those of the device queue and of the one packet that
waits to be reported (`BytesOK`). The last is what the assertion of
`DynamicQueueLimits::Completed` needs; the sum over a queue is described by a
function (`SumsUp`) instead of a recursion. The refinement maps the contents of
wire, device and disc to the fifo; `MovedOn` says that what happens between `Send`
and the wire moves packets along this stream and drops none.

**TcpWindow_proofs**: `NeverTrimmed` (`NothingTrimmed`), `PersistIdle`
(`PersistOnlyIdle`), `StallIsSilly` (`StallsOnlyOnSillyWindow`), in bytes, for any
sizes of segment, buffer and reads, any congestion windows and any losses of probes
and ACKs. That nothing is trimmed depends on every ACK on its way: `AcksOK` and
`EdgesOK` say that acknowledged plus advertised never goes back, from the sender
through the queue to the receiver. The probe breaks the grid of segments, so the
invariant follows it: it travels alone (`ProbeAlone`), the receiver may be ahead by
its byte (`AheadByProbe`), and is off the grid until the segment that holds that
byte arrives (`OffGrid`). The sender therefore stays on the grid, and no segment is
acknowledged in part. `SendPendingData` is a loop: the module starts with facts
about iterated functions, stated over sets so that the provers can instantiate
them (Link_proofs and TcpSender_proofs have them too), and one lemma per loop says
what it preserves.

**TcpSender_proofs**: `SenderAlwaysBehindReceiver` (`SenderBehindReceiver`),
`TimerAlwaysArmed` (`TimerArmed`), `RecoveryPointAlwaysSound` (`RecoveryPoint`),
`AlwaysRestsClean` (`RestsClean`), `CutsOncePerWindow` (`CutOncePerWindow`) and
`NeverRetransmitsTwice` (`NoDoubleRetransmission`), for every length of transfer,
window, threshold, number of retries, RTT, and any losses, marks, overtakings and
early timeouts. The lemmas about the buffer are those of Scoreboard_proofs, which
are stated for a buffer `b` and not for its variable; its specification is called
`ScoreboardSpec` so that both modules can be extended. `SenderInv` has three parts.

* `SenderOK`: the scoreboard satisfies `BufInv`; `PointAtRest` says where the
  recovery point may be in each congestion state. It is stronger than
  `RecoveryPoint`: in OPEN and DISORDER even a recovery point that is not active
  is at or below the head, which is why the next cut for an echo comes after it,
  and in RECOVERY it is strictly above the head, because the ACK that reaches it
  leaves RECOVERY in the same event.
* `WiresOK`: `NetOK` ties both ends and the packets between them. The receiver has
  only what was sent; every ACK on the wire, however old, is at most what the
  receiver has, reports only what it holds, and never asks for a segment that
  another ACK on the wire, or the sender's scoreboard, reports as held. The last is
  what makes every ACK a legal one for the scoreboard when it arrives (`AckFits`),
  overtaken or not.
* `StartOK`: until the send event fires nothing has happened.

A handler is a chain of changes to one record, and inside it the invariant does not
hold. Each function has a lemma on what it keeps (`Keeps`, `Stage`, `SentFrom`) and
where it leaves the recovery point: `PointInAck` holds between `DiscardUpTo` and the
end of `ProcessAck`, when the head is already new and the state still old.
`ReceivedAckStage` and `TimeoutStage` sum the two large handlers up. `OutOK(s, F)`
says that no segment of F was sent, and `Covers(b, F)` that F is still flagged as
retransmitted or SACKed; together they go through the loop of `SendPendingData` and
give `NoDoubleRetransmission`.

**TcpConnection_proofs**: `NothingScheduled` (`QuietWhenClosed`),
`NeverWithoutTimer` (`TimerPending`), `FinTakenOnce` (`PeerClosesOnce`),
`NumbersAgree` (`EndsAgree`), `ClosesAgreed` (`CloseAgreed`), for any retries, any
scripts and any number of losses and early timers, so for every order of segments,
calls and timeouts. There are three invariants.

* `SocketsSound` is about one socket. `Sound` says that a socket without endpoint
  has nothing scheduled and one with an endpoint is `Open`: a retransmission timer
  that resends data has data to resend, unless a FIN was sent (without this
  `ReTxTimeout` could return in FIN_WAIT_1 with no timer), a socket that has sent its
  FIN was told to (`Shut`), and LAST_ACK without its own timer still has the
  retransmission timer. Each handler has a lemma that it keeps `Sound`.
* `EndsTied` is about both ends and what travels between them. `Local` says where
  the numbers of one socket are in each state. `Tied` says that acknowledgments,
  data and FINs, held or on their way, never exceed what the other end has received
  or sent, and that the peer of an application that may still write has seen
  nothing of it. `Early` and `InOrder` are about the handshake: a SYN never travels
  behind an ACK, and as long as one travels to the server neither end has more than
  the SYN of the other; therefore a late SYN on which the listener forks anew finds
  a client that has nothing of the earlier connection. Each handler is shown to be
  a step `Moves` (`Emits` what it may, `Hears` no more than the segment says,
  `Holds` back while nothing was written); `Moves` is transitive, which fits the
  way handlers are composed, and `MoveStep` turns it into the step of the whole.
* `EndsClose` is about the FINs. `Receives` says that the states after the peer's
  FIN, and only they, have taken it, and with the data before it; `Transmits` that
  no timer sends a FIN before the application closed. `Closes` relates the ends: as
  long as one has not taken the FIN of the other, that FIN, noted or on its way,
  stands where the data of its sender ends, and the sender is `Sealed`, past every
  state in which it could write more. An ACK behind that place therefore proves
  that the FIN was taken, which is what FIN_WAIT_2 relies on. A FIN that is sent
  again with the number behind an acknowledged one comes only from a socket that has
  heard the other's FIN, so it never meets a receiver in CLOSE_WAIT that got no data,
  since such a receiver has sent none; this is why `Closes` asks whether data came.
  Each handler is shown to be a step `Ends` (`Speaks` and `Listens`), and
  `CloseStep` turns it into the step of the whole, with the help of `EndsTied`.

Through the refinements the theorems reach further on the checked instances: what
is proved of SwiftFlow holds of TcpSender's window (`ImplementsSwiftFlow`), what is
proved of Simulator of the simulator on its real queues as long as no event is
removed from a heap (`ImplementsSimulator`).

Only model-checked:

* `NoAssertionFails`, whose checks lie inside the handlers, where the invariants of
  TcpSender_proofs say nothing of the duplicate ACK count; `PrrOvershootBounded` and
  the refinement `ImplementsSwiftFlow`, whose bounds (one segment, `LargestWindow`) are those of
  the checked instances;
* all liveness (`Delivers`, `TransferEnds`, `HandshakeEnds`, `Drains`), which is out
  of the prover's reach;
* `QueueHoldsEvents` and `ImplementsSimulator` (no removals from a heap), because the sifting and resizing of
  SchedulerQueues are recursive operators.

## 5. What is not modelled

The repository contains all of ns-3, some 760,000 lines, of which the Swift
experiment executes a small part. The models cover the code of that addition and,
of the library, what its result depends on: about 6,000 lines. The protocol modules
it does not use (Wi-Fi, LTE, ad hoc routing and so on, listed one by one in
`PROJECT.json`), propagation and antenna numerics, topology and trace helpers and
the visualizer are outside.

Inside the experiment's reach and left out:

* floating point beyond the truncations above, the RTT estimator (its results are
  arbitrary), the other congestion controls, pacing, DCTCP-style ECN, Nagle;
* connections without SACK (`AddRenoSack`, `ResetRenoSack`), items of the send
  buffer that are split or merged, the limit on SACK blocks, the 32-bit product
  `m_prrDelivered * m_ssThresh` of PRR (TLC's integers have 32 bits too);
* window scaling, urgent data, simultaneous open, sockets used again after CLOSED,
  `Close` with unread data, IPv6;
* several transmission queues, and with them requeueing; the other queue discs;
  the average of RED with weights below 1;
* routing, ARP and ICMP, which the models see as a path that delays, drops and
  overtakes; the real-time and the MPI engines.

What would come next, in this order: the step simulation behind
`ImplementsSwiftFlow` with a bound on the window for every instance; the scoreboard
without SACK; routing and ARP under the link.
