-------------------------------- MODULE Link --------------------------------
(***************************************************************************)
(* One direction of a point-to-point link of the experiment: RED queue     *)
(* disc, device queue with flow control and byte queue limits, transmit    *)
(* machine and channel (src/src/traffic-control/model/queue-disc.cc,       *)
(* red-queue-disc.cc, traffic-control-layer.cc, src/src/network/utils/     *)
(* net-device-queue-interface.*, dynamic-queue-limits.cc, src/src/point-   *)
(* to-point/model/).                                                       *)
(*                                                                         *)
(* The device has one transmission queue, so DequeuePacket and Transmit    *)
(* test the same flag and nothing is ever requeued; the wake callback runs *)
(* in an event of its own, so Run never meets itself (m_running).          *)
(***************************************************************************)
EXTENDS Integers, Sequences, FiniteSetsExt

CONSTANTS
    Packets,     \* bound: packets that IP hands to the link
    SizeOf(_),   \* the bytes of packet p
    Ect,         \* the packets that are ECN capable
    MinTh,       \* RedQueueDisc::m_minTh
    MaxTh,       \* RedQueueDisc::m_maxTh
    DiscMax,     \* maximum size of the queue disc, packets
    DevMax,      \* maximum size of the device queue, packets
    Quota,       \* QueueDisc::m_quota
    MinLimit,    \* DynamicQueueLimits::m_minLimit
    MaxLimit,    \* DynamicQueueLimits::m_maxLimit
    Limits       \* may queue limits be installed? a set of BOOLEANs

ASSUME LinkAssumption ==
    /\ Packets \in Nat
    /\ \A p \in 1 .. Packets : SizeOf(p) \in Nat \ {0}
    /\ Ect \subseteq 1 .. Packets
    /\ MinTh \in Nat /\ MaxTh \in Nat
    /\ DiscMax \in Nat \ {0} /\ DevMax \in Nat \ {0} /\ Quota \in Nat \ {0}
    /\ MinLimit \in Nat /\ MaxLimit \in Nat
    /\ Limits \subseteq BOOLEAN

VARIABLES
    node,       \* queue disc and device at the sending end
    wire,       \* the packets the channel has scheduled for the far end
    handed,     \* packets that IP handed over so far
    delivered,  \* the packets the far end took, in order
    lost        \* the packets dropped or found corrupt

vars == <<node, wire, handed, delivered, lost>>

-----------------------------------------------------------------------------
(* Byte queue limits.                                                       *)

\* DynamicQueueLimits::Reset.  `noSlack` stands for m_lowestSlack = UINTMAX.
NoSlack == -1

EmptyLimits ==
    [limit |-> 0, adjLimit |-> 0, numQueued |-> 0, numCompleted |-> 0,
     lastObjCnt |-> 0, prevNumQueued |-> 0, prevLastObjCnt |-> 0,
     prevOvlimit |-> 0, lowestSlack |-> NoSlack]

Posdiff(a, b) == Max({a - b, 0})

Queued(q, count) == [q EXCEPT !.lastObjCnt = count, !.numQueued = @ + count]

Available(q) == q.adjLimit - q.numQueued

\* `held`: the hold time of the slack is over.
Completed(q, count, held) ==
    LET completed  == q.numCompleted + count
        ovlimit    == Posdiff(q.numQueued - q.numCompleted, q.limit)
        inprogress == q.numQueued - completed
        prevInprogress == q.prevNumQueued - q.numCompleted
        allPrev    == completed >= q.prevNumQueued
        starved    == \/ ovlimit > 0 /\ inprogress = 0
                      \/ q.prevOvlimit > 0 /\ allPrev
        lastObjs   == IF q.prevOvlimit > 0
                      THEN Posdiff(q.prevLastObjCnt, q.prevOvlimit) ELSE 0
        slack      == Max({Posdiff(q.limit + q.prevOvlimit, 2 * count), lastObjs})
        lowest     == IF q.lowestSlack = NoSlack THEN slack ELSE Min({slack, q.lowestSlack})
        decreases  == ~ starved /\ inprogress > 0 /\ prevInprogress > 0 /\ ~ allPrev
        wanted     == CASE starved -> q.limit + Posdiff(completed, q.prevNumQueued)
                                              + q.prevOvlimit
                        [] decreases /\ held -> Posdiff(q.limit, lowest)
                        [] OTHER -> q.limit
        limit      == Min({Max({wanted, MinLimit}), MaxLimit})
    IN  [q EXCEPT !.limit = limit,
                  !.adjLimit = limit + completed,
                  !.prevOvlimit = IF limit # q.limit THEN 0 ELSE ovlimit,
                  !.prevLastObjCnt = q.lastObjCnt,
                  !.numCompleted = completed,
                  !.prevNumQueued = q.numQueued,
                  !.lowestSlack = CASE starved \/ (decreases /\ held) -> NoSlack
                                    [] decreases /\ ~ held -> lowest
                                    [] OTHER -> @]

-----------------------------------------------------------------------------
(* The device.                                                              *)

Init ==
    /\ \E l \in Limits :
         node = [disc |-> <<>>, old |-> FALSE, dev |-> <<>>, tx |-> "READY",
                 stoppedByDevice |-> FALSE, stoppedByQueueLimits |-> FALSE,
                 queueLimits |-> l, dql |-> EmptyLimits,
                 dequeued |-> <<>>, sent |-> <<>>, dropped |-> {}]
    /\ wire = <<>>
    /\ handed = 0
    /\ delivered = <<>>
    /\ lost = {}

IsStopped(s) == s.stoppedByDevice \/ s.stoppedByQueueLimits

WouldOverflow(s) == Len(s.dev) + 1 > DevMax

NotifyQueuedBytes(s, bytes) ==
    LET dql == Queued(s.dql, bytes)
    IN  IF ~ s.queueLimits THEN s
        ELSE [s EXCEPT !.dql = dql,
                       !.stoppedByQueueLimits = @ \/ Available(dql) < 0]

\* Mutant: the queue is stopped only when a packet did not fit.
PacketEnqueuedLate(s, p) ==
    LET told == NotifyQueuedBytes(s, SizeOf(p))
    IN  [told EXCEPT !.stoppedByDevice = @ \/ Len(s.dev) > DevMax]

\* Mutant: a packet that fills the device queue is not reported to the limits.
PacketEnqueuedUntold(s, p) ==
    IF WouldOverflow(s) THEN [s EXCEPT !.stoppedByDevice = TRUE]
    ELSE NotifyQueuedBytes(s, SizeOf(p))

\* The trace callback of the device queue: stop if the next would not fit.
PacketEnqueued(s, p) ==
    LET told == NotifyQueuedBytes(s, SizeOf(p))
    IN  [told EXCEPT !.stoppedByDevice = @ \/ WouldOverflow(s)]

\* The transmit machine takes the packet at the head of the device queue.  The
\* callback of the queue schedules PacketDequeued's event, the channel the
\* arrival at the far end.
TransmitStart(s) ==
    [s EXCEPT !.tx = "BUSY", !.dev = Tail(@),
              !.dequeued = Append(@, SizeOf(Head(s.dev))),
              !.sent = Append(@, Head(s.dev))]

\* PointToPointNetDevice::Send.
DeviceSend(s, p) ==
    LET queued == PacketEnqueued([s EXCEPT !.dev = Append(@, p)], p)
    IN  CASE WouldOverflow(s) -> [s EXCEPT !.dropped = @ \cup {p}, !.stoppedByDevice = TRUE]
          [] ~ WouldOverflow(s) /\ s.tx = "READY" -> TransmitStart(queued)
          [] OTHER -> queued

-----------------------------------------------------------------------------
(* The queue disc.                                                          *)

Transmit(s) == DeviceSend([s EXCEPT !.disc = Tail(@)], Head(s.disc))

\* Restart finds a packet to send.
CanRestart(s) == s.disc # <<>> /\ ~ IsStopped(s)

Restart(s) == IF CanRestart(s) THEN Transmit(s) ELSE s

\* The loop ends when nothing is left, the device stops or the quota is used.
Run(s) ==
    LET after[k \in 0 .. Quota] == IF k = 0 THEN s ELSE Restart(after[k - 1])
    IN  after[Quota]

\* Estimator: with the queue weight 1 of the experiment the average is the
\* queue itself.
QAvg(s) == Len(s.disc)

\* What DropEarly may return: a random number decides.
DropEarly == BOOLEAN

\* Is the average above the lower threshold, and twice above the upper one,
\* where gentle mode drops or marks for certain?
AboveMin(s) == QAvg(s) >= MinTh /\ Len(s.disc) > 1
AboveMax(s) == QAvg(s) >= 2 * MaxTh

\* Mutant: packets above the threshold are dropped although they could be marked.
RedVerdictHard(s, p, early) ==
    IF AboveMin(s) /\ (AboveMax(s) \/ (s.old /\ early)) THEN "drop" ELSE "accept"

\* A packet that is to go is marked instead if it is ECN capable.
RedVerdict(s, p, early) ==
    IF AboveMin(s) /\ (AboveMax(s) \/ (s.old /\ early)) /\ p \notin Ect
    THEN "drop" ELSE "accept"

\* m_old: has the average been above the threshold already?
RedOld(s) == AboveMin(s) /\ (AboveMax(s) => s.old)

\* Mutant: a full queue makes room at its head.
EnqueueDropOldest(s, p, early) ==
    LET full == Len(s.disc) + 1 > DiscMax
    IN  IF RedVerdict(s, p, early) = "drop"
        THEN [s EXCEPT !.old = RedOld(s), !.dropped = @ \cup {p}]
        ELSE [s EXCEPT !.old = RedOld(s),
                       !.disc = Append(IF full THEN Tail(@) ELSE @, p)]

\* QueueDisc::Enqueue with RedQueueDisc::DoEnqueue and its internal queue.
Enqueue(s, p, early) ==
    LET full == Len(s.disc) + 1 > DiscMax
    IN  IF RedVerdict(s, p, early) = "drop" \/ full
        THEN [s EXCEPT !.old = RedOld(s), !.dropped = @ \cup {p}]
        ELSE [s EXCEPT !.old = RedOld(s), !.disc = Append(@, p)]

-----------------------------------------------------------------------------
(* Waking the queue disc.                                                   *)

NotifyTransmittedBytes(s, bytes, held) ==
    LET dql   == Completed(s.dql, bytes, held)
        told  == [s EXCEPT !.dql = dql]
        freed == [told EXCEPT !.stoppedByQueueLimits = FALSE]
    IN  CASE ~ s.queueLimits -> s
          [] s.queueLimits /\ Available(dql) < 0 -> told
          [] OTHER -> IF s.stoppedByQueueLimits THEN Run(freed) ELSE freed

Wake(s) ==
    LET started == [s EXCEPT !.stoppedByDevice = FALSE]
    IN  IF s.stoppedByDevice THEN Run(started) ELSE started

-----------------------------------------------------------------------------
(* The events.                                                              *)

\* What the handler sent goes on the wire, what it dropped is lost.
Becomes(result) ==
    \E s \in {result} :
        /\ node' = [s EXCEPT !.sent = <<>>, !.dropped = {}]
        /\ wire' = wire \o s.sent
        /\ lost' = lost \cup s.dropped

\* TrafficControlLayer::Send.
Send ==
    /\ handed < Packets
    /\ handed' = handed + 1
    /\ \E early \in DropEarly : Becomes(Run(Enqueue(node, handed + 1, early)))
    /\ UNCHANGED delivered

\* Mutant: the machine is READY and does not look into the queue.
TransmitCompleteIdle ==
    /\ node.tx = "BUSY" /\ node.dequeued = <<>>
    /\ Becomes([node EXCEPT !.tx = "READY"])
    /\ UNCHANGED <<handed, delivered>>

\* A transmission takes time, so the events scheduled for the instant at which
\* it started have run.
TransmitComplete ==
    /\ node.tx = "BUSY" /\ node.dequeued = <<>>
    /\ Becomes(IF node.dev = <<>> THEN [node EXCEPT !.tx = "READY"] ELSE TransmitStart(node))
    /\ UNCHANGED <<handed, delivered>>

\* The event PacketDequeued schedules for this instant.
PacketDequeued ==
    /\ node.dequeued # <<>>
    /\ \E held \in BOOLEAN :
         LET told == NotifyTransmittedBytes([node EXCEPT !.dequeued = Tail(@)],
                                            Head(node.dequeued), held)
         IN  Becomes(IF WouldOverflow(told) THEN told ELSE Wake(told))
    /\ UNCHANGED <<handed, delivered>>

\* PointToPointNetDevice::Receive; the error model decides.
Receive ==
    /\ wire # <<>>
    /\ wire' = Tail(wire)
    /\ \/ delivered' = Append(delivered, Head(wire)) /\ UNCHANGED lost
       \/ lost' = lost \cup {Head(wire)} /\ UNCHANGED delivered
    /\ UNCHANGED <<node, handed>>

Next == Send \/ TransmitComplete \/ PacketDequeued \/ Receive

Spec == Init /\ [][Next]_vars

\* The simulator runs every event it has scheduled: weak fairness of the
\* events, with their guards for ENABLED (every event changes the state).
Fairness ==
    /\ ([]<>(node.dequeued = <<>>) \/ []<><<PacketDequeued>>_vars)
    /\ ([]<>(node.tx # "BUSY" \/ node.dequeued # <<>>) \/ []<><<TransmitComplete>>_vars)
    /\ WF_vars(Receive)

FairSpec == Spec /\ Fairness

-----------------------------------------------------------------------------
(* Properties.                                                              *)

\* The queues stay within their sizes and the counters of the byte limits in
\* step: nothing is completed that was not queued (the assertion of
\* DynamicQueueLimits::Completed), although completions are reported by
\* events that run after further packets were queued.
LinkTypeOK ==
    /\ Len(node.disc) <= DiscMax /\ Len(node.dev) <= DevMax
    /\ node.tx \in {"READY", "BUSY"}
    /\ node.dql.limit \in 0 .. MaxLimit
    /\ node.dql.numCompleted <= node.dql.numQueued
    /\ node.dql.prevNumQueued \in node.dql.numCompleted .. node.dql.numQueued

\* The device queue has room for every packet the queue disc may pass down, so
\* the branch that reports "BUG! No room in the device queue" is dead: the
\* flags that stop the queue are never stale, however transmissions, wake-up
\* events and new packets are ordered.
DeviceNeverDrops == ~ IsStopped(node) => ~ WouldOverflow(node)

\* RED with ECN loses an ECN capable packet only for want of room or on the
\* wire; no device queue and no early drop takes it.
EctLostOnlyWhenFull ==
    [][\A p \in Ect \cap (lost' \ lost) :
          Len(node.disc) = DiscMax \/ (wire # <<>> /\ p = Head(wire))]_vars

\* Wire and device queue run empty again and again if the simulator runs its
\* events, and no packet is then left in the queue disc behind a flag that
\* nobody clears: flow control alone, as in the experiment, strands none,
\* whatever the quota.  With byte queue limits a wake-up may send more than one
\* packet and end by the quota; Run is not scheduled again (the \todo in
\* QueueDisc::Run), and what is left, with the device free, waits for the next
\* packet to be handed over.
Drains ==
    []<>(/\ wire = <<>> /\ node.dev = <<>>
         /\ node.disc = <<>> \/ (node.queueLimits /\ CanRestart(node)))

Fifo == INSTANCE LossyFifo WITH inside <- wire \o node.dev \o node.disc

\* Queue disc, device queue, transmit machine and channel together are a FIFO
\* that loses packets at its two ends: no order of wake-ups, runs and
\* transmissions reorders or duplicates packets or drops one in the middle.
ImplementsLossyFifo == Fifo!FifoSpec
=============================================================================
