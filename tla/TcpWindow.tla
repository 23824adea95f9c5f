----------------------------- MODULE TcpWindow ------------------------------
(***************************************************************************)
(* Flow control of one TCP connection, in bytes: the advertised window,    *)
(* silly window avoidance, and the persist timer that probes a zero window *)
(* (src/src/internet/model/tcp-socket-base.cc, tcp-rx-buffer.cc).  The     *)
(* connection is established and the sender's application has written all  *)
(* its data; the receiver's application reads when it likes, and reading   *)
(* sends nothing.  Data segments arrive in order, probes and ACKs may be   *)
(* lost; the congestion window is never below one segment, TcpNoDelay is   *)
(* on and windows are not scaled.                                          *)
(***************************************************************************)
EXTENDS Integers, Sequences

CONSTANTS
    SegmentSize,   \* tcb->m_segmentSize, bytes
    Bytes,         \* bytes the application writes
    MaxBuffer,     \* m_maxBuffer of the receive buffer, bytes
    CWnds,         \* congestion windows the controller may choose, bytes
    Reads,         \* bytes the receiving application asks for at a time
    DelAckCount,   \* m_delAckMaxCount
    DataRetries,   \* m_dataRetries
    MaxLosses      \* bound: probes and ACKs the network drops

ASSUME WindowAssumption ==
    /\ SegmentSize \in Nat \ {0}
    /\ Bytes \in Nat \ {0}
    /\ MaxBuffer \in Nat \ {0}
    /\ CWnds \subseteq Nat /\ SegmentSize \in CWnds
    /\ \A w \in CWnds : w >= SegmentSize
    /\ Reads \subseteq Nat \ {0}
    /\ DelAckCount \in Nat \ {0}
    /\ DataRetries \in Nat
    /\ MaxLosses \in Nat

VARIABLES
    snd,      \* the sending socket
    rcv,      \* the receiving socket
    dataNet,  \* segments and probes on their way
    ackNet,   \* ACKs on their way
    losses    \* packets dropped so far

vars == <<snd, rcv, dataNet, ackNet, losses>>

\* una, nxt and end delimit the sent and the unsent data; bytes below lostTo
\* were taken for lost by a timeout, those below rxt were sent again since.
InitSnd(w) ==
    [una |-> 1, nxt |-> 1, end |-> Bytes + 1, lostTo |-> 1, rxt |-> 1,
     cWnd |-> w, rWnd |-> MaxBuffer, highRxAckMark |-> 1,
     dataRetrCount |-> DataRetries, retxEvent |-> FALSE, persistEvent |-> FALSE,
     sendPendingDataEvent |-> TRUE, closed |-> FALSE, crashed |-> FALSE, out |-> <<>>]

Init ==
    /\ \E w \in CWnds : snd = InitSnd(w)
    /\ rcv = [nextRxSeq |-> 1, unread |-> 0, delAckCount |-> 0]
    /\ dataNet = <<>> /\ ackNet = <<>>
    /\ losses = 0

Smaller(a, b) == IF a < b THEN a ELSE b
Larger(a, b) == IF a < b THEN b ELSE a

-----------------------------------------------------------------------------
(* Sending.                                                                 *)

\* Everything sent, less what is lost, plus what of it was sent again.
InFlight(s) == (s.nxt - s.una) - (Larger(s.lostTo, s.una) - s.una)
               + (Larger(s.rxt, s.una) - s.una)

AvailableWindow(s) == Larger(Smaller(s.rWnd, s.cWnd) - InFlight(s), 0)

\* NextSeg: a lost segment first, then new data the receiver's window admits.
\* A length of zero says that there is nothing to send.
NextSeg(s) ==
    LET again == Larger(s.rxt, s.una)
        room  == Smaller(s.end, s.una + s.rWnd) - s.nxt
    IN  CASE again < s.lostTo ->
                 [seq |-> again, len |-> Smaller(SegmentSize, s.lostTo - again)]
          [] again >= s.lostTo ->
                 [seq |-> s.nxt, len |-> Larger(Smaller(SegmentSize, room), 0)]

\* The window is too small for a segment and for the rest of the data.
SillyWindow(s, seq) ==
    AvailableWindow(s) < SegmentSize /\ s.end - seq > AvailableWindow(s)

SendDataPacket(s, p) ==
    [s EXCEPT !.out = Append(@, [seq |-> p.seq, len |-> p.len, probe |-> FALSE]),
              !.nxt = Larger(@, p.seq + p.len),
              !.rxt = IF p.seq < s.nxt THEN p.seq + p.len ELSE @,
              !.retxEvent = TRUE]

\* May the next round of the loop not send?
Blocked(s) ==
    \/ AvailableWindow(s) = 0
    \/ NextSeg(s).len = 0
    \/ SillyWindow(s, NextSeg(s).seq)

SendRound(s) ==
    IF Blocked(s) THEN s
    ELSE SendDataPacket(s, [NextSeg(s) EXCEPT !.len = Smaller(@, AvailableWindow(s))])

SendPendingData(s) ==
    LET after[k \in 0 .. MaxBuffer] == IF k = 0 THEN s ELSE SendRound(after[k - 1])
    IN  after[MaxBuffer]

-----------------------------------------------------------------------------
(* An ACK: DoForwardUp of the sender.                                       *)

\* Mutant: only an ACK of new data updates the window.
UpdateWindowSizeNewAckOnly(s, a) ==
    IF a.ack > s.highRxAckMark
    THEN [s EXCEPT !.rWnd = a.wnd, !.highRxAckMark = a.ack] ELSE s

UpdateWindowSize(s, a) ==
    IF a.ack > s.highRxAckMark \/ (a.ack = s.highRxAckMark /\ a.wnd > s.rWnd)
    THEN [s EXCEPT !.rWnd = a.wnd, !.highRxAckMark = a.ack] ELSE s

EnterPersist(s) ==
    IF s.rWnd = 0 /\ ~ s.persistEvent
    THEN [s EXCEPT !.retxEvent = FALSE, !.persistEvent = TRUE] ELSE s

\* An ACK of new data restarts the retransmission timer while any data is
\* left, sent or not, and the controller chooses a window.
NewAck(s, ack, w) ==
    [s EXCEPT !.una = ack, !.cWnd = w, !.dataRetrCount = DataRetries,
              !.retxEvent = ack < s.end]

\* An ACK above m_highTxMark, as an accepted probe causes, is answered and
\* dropped.
ProcessEstablished(s, ack, w) ==
    CASE ack < s.una \/ ack > s.nxt -> s
      [] ack = s.una -> SendPendingData(s)
      [] s.una < ack /\ ack <= s.nxt -> SendPendingData(NewAck(s, ack, w))

\* Mutant: the persist timer survives the end of the zero window.
LeavePersistNot(s) ==
    IF s.rWnd # 0 /\ s.persistEvent THEN SendPendingData(s) ELSE s

LeavePersist(s) ==
    IF s.rWnd # 0 /\ s.persistEvent
    THEN SendPendingData([s EXCEPT !.persistEvent = FALSE]) ELSE s

DoForwardUp(s, a, w) ==
    LeavePersist(ProcessEstablished(EnterPersist(UpdateWindowSize(s, a)), a.ack, w))

-----------------------------------------------------------------------------
(* The events of the sender.                                                *)

Becomes(s) ==
    /\ snd' = [s EXCEPT !.out = <<>>]
    /\ dataNet' = dataNet \o s.out

Alive == ~ snd.closed /\ ~ snd.crashed

SendPendingDataEvent ==
    /\ snd.sendPendingDataEvent
    /\ Becomes(SendPendingData([snd EXCEPT !.sendPendingDataEvent = FALSE]))
    /\ UNCHANGED <<rcv, ackNet, losses>>

DeliverAck ==
    /\ Alive
    /\ ackNet # <<>>
    /\ ackNet' = Tail(ackNet)
    /\ \E w \in CWnds : Becomes(DoForwardUp(snd, Head(ackNet), w))
    /\ UNCHANGED <<rcv, losses>>

\* The timers are longer than a round trip and a delayed ACK.
Quiet ==
    /\ dataNet = <<>> /\ ackNet = <<>>
    /\ rcv.delAckCount = 0
    /\ ~ snd.sendPendingDataEvent

\* Everything sent counts as lost, one segment goes out if the window lets it.
ReTxTimeout ==
    /\ Alive /\ snd.retxEvent /\ Quiet
    /\ IF snd.dataRetrCount = 0
       THEN Becomes([snd EXCEPT !.closed = TRUE, !.retxEvent = FALSE,
                                !.persistEvent = FALSE])
       ELSE Becomes(SendPendingData(
                [snd EXCEPT !.retxEvent = FALSE, !.dataRetrCount = @ - 1,
                            !.lostTo = snd.nxt, !.rxt = snd.una,
                            !.cWnd = SegmentSize]))
    /\ UNCHANGED <<rcv, ackNet, losses>>

\* Mutant: the probe is not repeated.
PersistTimeoutOnce ==
    /\ Alive /\ snd.persistEvent /\ Quiet
    /\ IF snd.nxt = snd.end
       THEN Becomes([snd EXCEPT !.crashed = TRUE])
       ELSE Becomes([snd EXCEPT !.persistEvent = FALSE,
                       !.out = <<[seq |-> snd.nxt, len |-> 1, probe |-> TRUE]>>])
    /\ UNCHANGED <<rcv, ackNet, losses>>

\* The probe is one byte of new data, copied from the buffer and put back.
\* With no byte left the copy is a null pointer, and the program dies on it.
PersistTimeout ==
    /\ Alive /\ snd.persistEvent /\ Quiet
    /\ IF snd.nxt = snd.end
       THEN Becomes([snd EXCEPT !.crashed = TRUE])
       ELSE Becomes([snd EXCEPT
                       !.out = <<[seq |-> snd.nxt, len |-> 1, probe |-> TRUE]>>])
    /\ UNCHANGED <<rcv, ackNet, losses>>

-----------------------------------------------------------------------------
(* The receiver.                                                            *)

MaxRxSequence(r) == r.nextRxSeq + MaxBuffer - r.unread

\* Mutant: the window is the size of the buffer.
AdvertisedWindowSizeWhole(r) == MaxBuffer

AdvertisedWindowSize(r) == MaxRxSequence(r) - r.nextRxSeq

SendAck(r) ==
    /\ rcv' = [r EXCEPT !.delAckCount = 0]
    /\ ackNet' = Append(ackNet, [ack |-> r.nextRxSeq, wnd |-> AdvertisedWindowSize(r)])

OutOfRange(r, p) == p.seq + p.len < r.nextRxSeq \/ MaxRxSequence(r) <= p.seq

\* The application takes k bytes, or what there is of them.
Extract(r, k) == [r EXCEPT !.unread = Larger(@ - k, 0)]

\* Add trims what is already there and, unless the buffer is empty, what does
\* not fit; a duplicate or an unacceptable segment is acknowledged at once.
\* The application, told of new data, may read before the ACK is made.
DeliverData ==
    /\ dataNet # <<>>
    /\ dataNet' = Tail(dataNet)
    /\ LET p    == Head(dataNet)
           tail == IF rcv.unread = 0 THEN p.seq + p.len
                   ELSE Smaller(p.seq + p.len, MaxRxSequence(rcv))
           new  == Larger(tail - rcv.nextRxSeq, 0)
           added == [rcv EXCEPT !.nextRxSeq = @ + new, !.unread = @ + new,
                                !.delAckCount = @ + 1]
       IN  IF OutOfRange(rcv, p) \/ new = 0 THEN SendAck(rcv)
           ELSE \E k \in Reads \cup {0} :
                    IF added.delAckCount >= DelAckCount THEN SendAck(Extract(added, k))
                    ELSE rcv' = Extract(added, k) /\ UNCHANGED ackNet
    /\ UNCHANGED <<snd, losses>>

DelAckTimeout ==
    /\ rcv.delAckCount > 0
    /\ SendAck(rcv)
    /\ UNCHANGED <<snd, dataNet, losses>>

\* Recv of the application: nothing tells the sender that there is room.
Recv ==
    /\ rcv.unread > 0
    /\ \E k \in Reads : rcv' = Extract(rcv, k)
    /\ UNCHANGED <<snd, dataNet, ackNet, losses>>

LoseProbe ==
    /\ losses < MaxLosses
    /\ dataNet # <<>> /\ Head(dataNet).probe
    /\ dataNet' = Tail(dataNet)
    /\ losses' = losses + 1
    /\ UNCHANGED <<snd, rcv, ackNet>>

LoseAck ==
    /\ losses < MaxLosses
    /\ ackNet # <<>>
    /\ ackNet' = Tail(ackNet)
    /\ losses' = losses + 1
    /\ UNCHANGED <<snd, rcv, dataNet>>

Next ==
    \/ SendPendingDataEvent \/ DeliverAck \/ ReTxTimeout \/ PersistTimeout
    \/ DeliverData \/ DelAckTimeout \/ Recv
    \/ LoseProbe \/ LoseAck

Spec == Init /\ [][Next]_vars

\* Scheduled events run, packets that are not lost arrive, and an application
\* with data to read reads.  A timer that is pending again and again in quiet
\* fires, hence strong fairness.  Guards stand for ENABLED: every action
\* changes the state whenever its guard holds.
Fairness ==
    /\ WF_vars(DeliverData) /\ WF_vars(DelAckTimeout) /\ WF_vars(Recv)
    /\ []<>(~ snd.sendPendingDataEvent) \/ []<><<SendPendingDataEvent>>_vars
    /\ []<>(~ Alive \/ ackNet = <<>>) \/ []<><<DeliverAck>>_vars
    /\ <>[](~ (Alive /\ snd.retxEvent /\ Quiet)) \/ []<><<ReTxTimeout>>_vars
    /\ <>[](~ (Alive /\ snd.persistEvent /\ Quiet)) \/ []<><<PersistTimeout>>_vars

FairSpec == Spec /\ Fairness

-----------------------------------------------------------------------------
(* Properties.                                                              *)

\* A segment that is no probe fits into the receiver's buffer when it arrives,
\* however stale the window the sender used: nothing of it is trimmed.
NothingTrimmed ==
    \A i \in DOMAIN dataNet :
        ~ dataNet[i].probe => dataNet[i].seq + dataNet[i].len <= MaxRxSequence(rcv)

\* The persist timer runs only while the window is zero and everything sent is
\* acknowledged, so the segment PersistTimeout takes from the end of the sent
\* list and puts back is the probe it just made.
PersistOnlyIdle == snd.persistEvent => snd.rWnd = 0 /\ snd.una = snd.nxt

\* Does data wait with no event of the sender that would send it?
Stalled ==
    /\ Alive /\ snd.una < snd.end
    /\ ~ snd.retxEvent /\ ~ snd.persistEvent /\ ~ snd.sendPendingDataEvent

\* The only way to stall is silly window avoidance: the receiver's window is
\* open by less than a segment and nothing is in flight.
StallsOnlyOnSillyWindow ==
    Stalled => /\ 0 < snd.rWnd /\ snd.rWnd < SegmentSize
               /\ snd.una = snd.nxt

\* Unless it stalls in that way, or gives up, every transfer is acknowledged:
\* lost probes and lost window updates are made up for, and the null pointer
\* PersistTimeout dereferences when it has no byte to probe with is met only
\* after the last byte.
TransferEnds == <>(snd.una = snd.end \/ Stalled \/ snd.closed)
=============================================================================
