----------------------------- MODULE TcpSender ------------------------------
(***************************************************************************)
(* A bulk transfer over one TCP connection: the sending socket with its    *)
(* scoreboard, Swift and PRR, the receiving socket with delayed ACKs, and  *)
(* a network that loses, overtakes and marks (src/src/internet/model/      *)
(* tcp-socket-base.cc, tcp-rx-buffer.cc).  The connection is established,  *)
(* SACK is on, ECN is classic or off, pacing is off, the receiver window   *)
(* never limits.                                                           *)
(*                                                                         *)
(* Every action is one event of the simulator with everything it does      *)
(* before it returns; `snd.out` collects the segments it puts on the wire. *)
(***************************************************************************)
EXTENDS TcpPrrRecovery, TcpTxBuffer, SequencesExt

CONSTANTS
    N,             \* bound: no transfer is longer, segments
    InitialCwnd,   \* tcb->m_initialCWnd, segments
    SsThreshInf,   \* tcb->m_initialSsThresh, bytes
    RetxThresh,    \* m_retxThresh, duplicate ACKs
    DataRetries,   \* m_dataRetries, timeouts in a row before giving up
    DelAckCount,   \* m_delAckMaxCount
    Rtts,          \* smoothed RTTs the estimator may return, 100 ns
    MaxRtt,        \* no smoothed RTT is larger
    HopCount,      \* tcb->m_hops
    Paths          \* the transfers and networks to start with

\* A transfer of some segments over a network that may still drop and mark
\* some packets, lets a packet overtake some others, and whose delay may let
\* the retransmission timer fire while packets travel.  ECN is on if the
\* network marks.
PathRecords ==
    [segments: 1 .. N, losses: Nat, marks: Nat, overtake: Nat, spurious: BOOLEAN]

ASSUME SenderAssumption ==
    /\ N \in Nat \ {0}
    /\ MaxBuffer >= N
    /\ InitialCwnd \in Nat \ {0}
    /\ SsThreshInf \in Nat
    /\ RetxThresh \in Nat \ {0}
    /\ DataRetries \in Nat
    /\ DelAckCount \in Nat \ {0}
    /\ MaxRtt \in Nat \ {0}
    /\ Rtts \subseteq 1 .. MaxRtt
    /\ HopCount \in Nat
    /\ Paths \subseteq PathRecords

VARIABLES
    snd,      \* the sending socket
    srtt,     \* tcb->m_srtt of the sender
    rcv,      \* the receiving socket: m_nextRxSeq, what lies beyond, m_delAckCount, ECN
    dataNet,  \* segments on their way to the receiver
    ackNet,   \* ACKs on their way to the sender
    path      \* what the network may still do

vars == <<snd, srtt, rcv, dataNet, ackNet, path>>

InitSnd(p) ==
    [cWnd |-> InitialCwnd * SegmentSize, rtt |-> 0, since |-> 0,
     retransmitCount |-> 0, ssThresh |-> SsThreshInf, congState |-> "OPEN",
     buf |-> [EmptyBuffer EXCEPT !.end = p.segments + 1],
     dupAckCount |-> 0, recover |-> 0, recoverActive |-> FALSE,
     isFirstPartialAck |-> TRUE, isRetransDataAcked |-> FALSE,
     prrDelivered |-> 0, prrOut |-> 0, prrFlight |-> 0,
     dataRetrCount |-> DataRetries, retxEvent |-> FALSE,
     sendPendingDataEvent |-> TRUE, closed |-> FALSE,
     ecnState |-> IF p.marks > 0 THEN "IDLE" ELSE "DISABLED",
     ecnEchoSeq |-> 0, ecnCWRSeq |-> 0,
     out |-> <<>>, failed |-> {}]

Init ==
    /\ path \in Paths
    /\ snd = InitSnd(path)
    /\ srtt \in Rtts
    /\ rcv = [nextRxSeq |-> 1, beyond |-> {}, delAckCount |-> 0,
              ecnState |-> "IDLE", ecnCESeq |-> 0]
    /\ dataNet = <<>>
    /\ ackNet = <<>>

-----------------------------------------------------------------------------
(* Sending.                                                                 *)

InFlight(s) == BytesInFlight(s.buf) * SegmentSize

\* m_highRxAckMark and HeadSequence() are the same sequence number whenever
\* the code reads them; m_highTxMark is the end of the sent list.
HighTxMark(s) == s.buf.nxt

\* The answer to an ECN echo travels on new data only, which alone is ECT.
SendDataPacket(s, seq) ==
    LET copied == CopyFromSequence(s.buf, seq)
        again  == seq \in copied.retrans
        cwr    == s.ecnState = "ECE_RCVD" /\ s.ecnEchoSeq > s.ecnCWRSeq /\ ~ again
        packet == [seq |-> seq, cwr |-> cwr, ce |-> FALSE,
                   ect |-> ~ again /\ s.ecnState # "DISABLED"]
        t == [s EXCEPT !.buf = copied,
                       !.out = Append(@, packet),
                       !.ecnState = IF cwr THEN "CWR_SENT" ELSE @,
                       !.ecnCWRSeq = IF cwr THEN seq ELSE @,
                       !.retxEvent = TRUE]
    IN  IF s.congState \in {"RECOVERY", "CWR"} THEN UpdateBytesSent(t, SegmentSize)
                                               ELSE t

\* The sequence SendPendingData would send next, if the window has room for a
\* whole segment (silly window avoidance; Nagle never holds a full segment).
NextToSend(s) ==
    IF InFlight(s) + SegmentSize <= s.cWnd
    THEN NextSeg(s.buf, N, s.congState = "RECOVERY")
    ELSE NoSegment

\* Each turn of the loop puts one more segment in flight.
SendPendingData(s) ==
    LET after[k \in 0 .. s.cWnd \div SegmentSize] ==
            IF k = 0 THEN s
            ELSE LET t == after[k - 1]
                 IN  IF NextToSend(t) = NoSegment THEN t
                     ELSE SendDataPacket(t, NextToSend(t))
    IN  after[s.cWnd \div SegmentSize]

\* The first lost segment not yet sent again; the head if there is none.
DoRetransmit(s) ==
    LET next == NextSeg(s.buf, N, FALSE)
    IN  SendDataPacket(s, IF next = NoSegment THEN s.buf.una ELSE next)

-----------------------------------------------------------------------------
(* An ACK.                                                                  *)

\* Mutant: the timer is cancelled and not started again.
NewAckNoRestart(s, resetRTO) ==
    [s EXCEPT !.dataRetrCount = DataRetries,
              !.retxEvent = ~ resetRTO /\ @]

\* Mutant: the timer keeps running when everything is acknowledged.
NewAckNoCancel(s, resetRTO) ==
    [s EXCEPT !.dataRetrCount = DataRetries,
              !.retxEvent = resetRTO \/ @]

NewAck(s, resetRTO) ==
    [s EXCEPT !.dataRetrCount = DataRetries,
              !.retxEvent = Size(s.buf) # 0 /\ (resetRTO \/ @)]

\* Mutant: ssThresh is computed before the hook cuts the window.
EnterRecoveryThreshFirst(s, delivered) ==
    LET marked == [s EXCEPT !.buf = IF IsLost(@, @.una) THEN @ ELSE MarkHeadAsLost(@),
                            !.recover = HighTxMark(s),
                            !.recoverActive = TRUE,
                            !.ssThresh = GetSsThresh(s)]
        cut    == [CongestionStateSet(marked, "RECOVERY") EXCEPT !.congState = "RECOVERY"]
        prr    == PrrEnterRecovery(cut, delivered, InFlight(cut), s.isRetransDataAcked)
    IN  SendDataPacket(prr, s.buf.una)

EnterRecovery(s, delivered) ==
    LET marked == [s EXCEPT !.buf = IF IsLost(@, @.una) THEN @ ELSE MarkHeadAsLost(@),
                            !.recover = HighTxMark(s),
                            !.recoverActive = TRUE]
        cut    == [CongestionStateSet(marked, "RECOVERY") EXCEPT !.congState = "RECOVERY"]
        thresh == [cut EXCEPT !.ssThresh = GetSsThresh(cut)]
        prr    == PrrEnterRecovery(thresh, delivered, InFlight(thresh),
                                   s.isRetransDataAcked)
    IN  SendDataPacket(prr, s.buf.una)

DupAck(s, delivered) ==
    LET counted  == [s EXCEPT !.dupAckCount = @ + 1]
        disorder == IF s.congState = "OPEN"
                    THEN [Check(counted, counted.dupAckCount = 1,
                                "OPEN to DISORDER with one dupack")
                             EXCEPT !.congState = "DISORDER"]
                    ELSE counted
        checked  == Check(disorder,
                          \/ disorder.dupAckCount <= RetxThresh
                          \/ disorder.recoverActive,
                          "dupack count in DISORDER")
        third    == /\ checked.dupAckCount = RetxThresh
                    /\ s.buf.una >= s.recover \/ ~ s.recoverActive
    IN  CASE s.congState = "LOSS"     -> s
          [] s.congState = "CWR"      -> counted
          [] s.congState = "RECOVERY" ->
                 DoRecovery(s, delivered, TRUE, InFlight(s), s.isRetransDataAcked)
          [] OTHER -> IF third \/ IsLost(s.buf, s.buf.una)
                      THEN EnterRecovery(checked, delivered) ELSE checked

BackToOpen(s) == [CongestionStateSet(s, "OPEN") EXCEPT !.congState = "OPEN"]

\* A cumulative ACK below the recovery point, in RECOVERY.
PartialAck(s, ack, delivered, t) ==
    LET prr  == IF delivered = 0 THEN s
                ELSE DoRecovery(s, delivered, FALSE, InFlight(s), s.isRetransDataAcked)
        sent == IF IsRetransmittedDataAcked(s.buf, ack + 1) THEN prr
                                                            ELSE DoRetransmit(prr)
        done == NewAck(PktsAcked(sent, t), s.isFirstPartialAck)
    IN  [done EXCEPT !.isFirstPartialAck = FALSE]

\* Mutant: an ACK of exactly the recovery point does not count.
DeactivateLate(s, ack) == [s EXCEPT !.recoverActive = @ /\ ack <= s.recover]

\* The recovery point is given up once it is acknowledged.
Deactivate(s, ack) == [s EXCEPT !.recoverActive = @ /\ ack < s.recover]

\* What a cumulative ACK does in each state; `segs` are the segments it
\* newly reports, `dups` the duplicate ACKs counted before it.
CumulativeAck(s, ack, oldHead, isDupack, segs, dups, t) ==
    LET open(c, k) == NewAck(IncreaseWindow(c, HopCount, k), TRUE)
        acked == PktsAcked(s, t)
    IN  CASE s.congState = "RECOVERY" /\ ack < s.recover ->
                 PartialAck(s, ack, segs * SegmentSize, t)
          [] s.congState = "LOSS" /\ ack < s.recover -> open(acked, segs)
          [] s.congState = "CWR" ->
                 NewAck(IF segs = 0 THEN acked
                        ELSE DoRecovery(acked, segs * SegmentSize, FALSE,
                                        InFlight(s), s.isRetransDataAcked),
                        TRUE)
          [] s.congState = "OPEN" -> open(Deactivate(acked, ack), segs)
          [] s.congState = "DISORDER" ->
                 LET told == Deactivate(IF segs >= dups THEN acked ELSE s, ack)
                 IN  IF isDupack THEN told ELSE open(BackToOpen(told), segs)
          [] s.congState = "RECOVERY" /\ ack >= s.recover ->
                 LET left == [Deactivate(BackToOpen(acked), ack) EXCEPT
                                !.isFirstPartialAck = TRUE, !.dupAckCount = 0,
                                !.cWnd = s.ssThresh]
                 IN  open(left, ack - oldHead)
          [] s.congState = "LOSS" /\ ack >= s.recover ->
                 open([Deactivate(BackToOpen(acked), ack) EXCEPT
                         !.isFirstPartialAck = TRUE], ack - s.recover)

ProcessAck(s, ack, oldHead, isDupack, segs, t) ==
    LET dup == IF isDupack THEN DupAck(s, segs * SegmentSize) ELSE s
    IN  CASE ack = oldHead /\ ack = HighTxMark(s) -> dup
          [] ack = oldHead /\ ack # HighTxMark(s) -> PktsAcked(dup, t)
          [] ack > oldHead ->
                 CumulativeAck(IF isDupack THEN dup ELSE [dup EXCEPT !.dupAckCount = 0],
                               ack, oldHead, isDupack, segs, s.dupAckCount, t)

\* Mutant: CWR ends with the next ACK.
LeaveCwrEarly(s, ack) ==
    IF s.congState = "CWR"
    THEN [s EXCEPT !.congState = "OPEN", !.cWnd = s.ssThresh] ELSE s

\* CWR ends when the ACK exceeds the recovery point; m_dupAckCount stays.
LeaveCwr(s, ack) ==
    IF s.congState = "CWR" /\ ack > s.recover
    THEN [s EXCEPT !.congState = "OPEN", !.cWnd = s.ssThresh] ELSE s

EnterCwr(s, delivered) ==
    LET cut == [s EXCEPT !.ssThresh = GetSsThresh(s), !.congState = "CWR",
                         !.recover = HighTxMark(s)]
    IN  PrrEnterRecovery(cut, delivered, InFlight(cut), s.isRetransDataAcked)

\* An ECN echo on an ACK of new data.
EcnEcho(s, ack, oldHead, ece, delivered) ==
    LET heard == [s EXCEPT !.ecnEchoSeq = ack, !.ecnState = "ECE_RCVD"]
    IN  CASE ack > oldHead /\ s.ecnState # "DISABLED" /\ ece ->
                 IF s.ecnEchoSeq >= ack THEN s
                 ELSE IF s.congState = "CWR" THEN heard ELSE EnterCwr(heard, delivered)
          [] s.ecnState = "ECE_RCVD" /\ ~ ece -> [s EXCEPT !.ecnState = "IDLE"]
          [] OTHER -> s

\* ReceivedAck, from the scoreboard update to the last segment sent.
ReceivedAck(s, ack, blocks, ece, t) ==
    LET seen    == Update(s.buf, blocks)
        newSack == NewlySacked(s.buf, blocks)
        oldHead == seen.una
        safe    == /\ s.congState = "RECOVERY" /\ ack < s.recover
                   /\ \E a \in oldHead + 1 .. ack : IsRetransmittedDataAcked(seen, a)
        segs    == Cardinality(newSack) + Cardinality((oldHead .. ack - 1) \ seen.sacked)
        told    == [s EXCEPT !.buf = DiscardUpTo(seen, ack), !.isRetransDataAcked = safe]
        cwr     == EcnEcho(LeaveCwr(told, ack), ack, oldHead, ece, segs * SegmentSize)
        done    == ProcessAck(cwr, ack, oldHead, newSack # {}, segs, t)
    IN  SendPendingData([done EXCEPT !.isRetransDataAcked = FALSE])

-----------------------------------------------------------------------------
(* The events.                                                              *)

\* What the handler sent goes on the wire when it returns.
Becomes(s) ==
    /\ snd' = [s EXCEPT !.out = <<>>]
    /\ dataNet' = dataNet \o s.out

SendPendingDataEvent ==
    /\ snd.sendPendingDataEvent
    /\ Becomes(SendPendingData([snd EXCEPT !.sendPendingDataEvent = FALSE]))
    /\ UNCHANGED <<srtt, rcv, ackNet, path>>

\* The next packets a network with this much overtaking may deliver.
Arriving(net) == {i \in 1 .. Len(net) : i <= path.overtake + 1}

\* An ACK below the head is ignored; only an ACK of new data yields an RTT.
DeliverAck ==
    /\ ~ snd.closed
    /\ \E i \in Arriving(ackNet) :
         LET a == ackNet[i]
         IN  /\ ackNet' = RemoveAt(ackNet, i)
             /\ srtt' \in IF a.ack > snd.buf.una THEN Rtts \cup {srtt} ELSE {srtt}
             /\ Becomes(IF a.ack < snd.buf.una THEN snd
                        ELSE ReceivedAck(snd, a.ack, a.blocks, a.ece, srtt'))
    /\ UNCHANGED <<rcv, path>>

\* Is everything quiet but the retransmission timer?
Quiet ==
    /\ dataNet = <<>> /\ ackNet = <<>>
    /\ rcv.delAckCount = 0
    /\ ~ snd.sendPendingDataEvent

TimeoutSender(s) ==
    LET lost == [s EXCEPT !.dataRetrCount = @ - 1, !.dupAckCount = 0,
                          !.buf = SetSentListLost(@),
                          !.recover = HighTxMark(s), !.recoverActive = TRUE,
                          !.retxEvent = FALSE]
        thresh == IF lost.congState # "LOSS" \/ ~ IsHeadRetransmitted(lost.buf)
                  THEN [lost EXCEPT !.ssThresh = GetSsThresh(lost)] ELSE lost
        cut == [CongestionStateSet(CwndEventLoss(thresh), "LOSS") EXCEPT
                  !.congState = "LOSS", !.cWnd = SegmentSize]
        sent == SendPendingData(Check(cut, InFlight(cut) = 0, "in flight after an RTO"))
    IN  Check(sent, InFlight(sent) <= SegmentSize, "more than one segment after an RTO")

\* The last timeout closes the socket instead: timers and endpoint are gone.
ReTxTimeout ==
    /\ snd.retxEvent
    /\ path.spurious \/ Quiet
    /\ IF snd.dataRetrCount = 0
       THEN Becomes([snd EXCEPT !.closed = TRUE, !.retxEvent = FALSE,
                                !.sendPendingDataEvent = FALSE])
       ELSE Becomes(TimeoutSender(snd))
    /\ UNCHANGED <<srtt, rcv, ackNet, path>>

\* The receiver answers with what it has; an ACK cancels the delayed one.
\* It echoes a CE mark until the sender says CWR.
SendAck(r) ==
    LET echo == r.ecnState \in {"CE_RCVD", "SENDING_ECE"}
    IN  /\ rcv' = [r EXCEPT !.delAckCount = 0,
                            !.ecnState = IF echo THEN "SENDING_ECE" ELSE @]
        /\ ackNet' = Append(ackNet, [ack |-> r.nextRxSeq, blocks |-> r.beyond,
                                     ece |-> echo])

\* A segment wholly below the window gets an ACK without an echo, before its
\* ECN field is looked at.
AckOutOfRange(r) ==
    /\ rcv' = [r EXCEPT !.delAckCount = 0]
    /\ ackNet' = Append(ackNet, [ack |-> r.nextRxSeq, blocks |-> r.beyond, ece |-> FALSE])

\* ForwardUp takes a CE mark of a later segment; a CWR flag ends the echo,
\* unless the mark has just been taken and not been echoed yet.
EcnForwardUp(r, p) ==
    LET marked == IF p.ce /\ r.ecnCESeq < p.seq
                  THEN [r EXCEPT !.ecnCESeq = p.seq, !.ecnState = "CE_RCVD"] ELSE r
    IN  IF p.cwr /\ marked.ecnState # "CE_RCVD"
        THEN [marked EXCEPT !.ecnState = "IDLE"] ELSE marked

\* Mutant: a segment that opens a new gap replaces what was stored.
AddSegmentReneging(r, seq) ==
    LET have == IF r.nextRxSeq < seq THEN {seq} ELSE r.beyond \cup {seq}
        next == Min({k \in r.nextRxSeq .. N + 1 : k \notin have})
    IN  [r EXCEPT !.nextRxSeq = next, !.beyond = {k \in have : k > next}]

\* TcpRxBuffer::Add of one segment.
AddSegment(r, seq) ==
    LET have == r.beyond \cup {seq}
        next == Min({k \in r.nextRxSeq .. N + 1 : k \notin have})
    IN  [r EXCEPT !.nextRxSeq = next, !.beyond = {k \in have : k > next}]

\* ReceivedData: nothing new, a gap, or a filled gap is acknowledged at once,
\* a segment in sequence only when enough are waiting.
DeliverData ==
    \E i \in Arriving(dataNet) :
        LET seq == dataNet[i].seq
            new == AddSegment(EcnForwardUp(rcv, dataNet[i]), seq)
            old == seq < rcv.nextRxSeq \/ seq \in rcv.beyond
            waiting == [new EXCEPT !.delAckCount = @ + 1]
        IN  /\ dataNet' = RemoveAt(dataNet, i)
            /\ CASE seq + 1 < rcv.nextRxSeq -> AckOutOfRange(rcv)
                 [] seq + 1 >= rcv.nextRxSeq /\ (\/ old
                                                 \/ new.beyond # {}
                                                 \/ new.nextRxSeq > rcv.nextRxSeq + 1
                                                 \/ waiting.delAckCount >= DelAckCount)
                      -> SendAck(new)
                 [] OTHER -> rcv' = waiting /\ UNCHANGED ackNet
            /\ UNCHANGED <<snd, srtt, path>>

DelAckTimeout ==
    /\ rcv.delAckCount > 0
    /\ SendAck(rcv)
    /\ UNCHANGED <<snd, srtt, dataNet, path>>

\* A queue on the path drops its next packet.
LoseData ==
    /\ path.losses > 0
    /\ dataNet # <<>>
    /\ dataNet' = Tail(dataNet)
    /\ path' = [path EXCEPT !.losses = @ - 1]
    /\ UNCHANGED <<snd, srtt, rcv, ackNet>>

LoseAck ==
    /\ path.losses > 0
    /\ ackNet # <<>>
    /\ ackNet' = Tail(ackNet)
    /\ path' = [path EXCEPT !.losses = @ - 1]
    /\ UNCHANGED <<snd, srtt, rcv, dataNet>>

\* A queue on the path marks its next packet instead, if it is ECT.
MarkData ==
    /\ path.marks > 0
    /\ dataNet # <<>>
    /\ Head(dataNet).ect /\ ~ Head(dataNet).ce
    /\ dataNet' = [dataNet EXCEPT ![1].ce = TRUE]
    /\ path' = [path EXCEPT !.marks = @ - 1]
    /\ UNCHANGED <<snd, srtt, rcv, ackNet>>

\* An RTT passes; `since` is only compared with an RTT.
Elapse ==
    /\ snd' = [snd EXCEPT !.since = MaxRtt]
    /\ UNCHANGED <<srtt, rcv, dataNet, ackNet, path>>

Next ==
    \/ SendPendingDataEvent
    \/ DeliverAck
    \/ ReTxTimeout
    \/ DeliverData
    \/ DelAckTimeout
    \/ LoseData
    \/ LoseAck
    \/ MarkData
    \/ Elapse

Spec == Init /\ [][Next]_vars

\* The simulator executes every scheduled event, and every packet the network
\* keeps arrives.  For the sender's own events the action's guard stands for
\* ENABLED: the action changes a variable whenever its guard holds.
Fairness ==
    /\ WF_vars(DeliverData) /\ WF_vars(DelAckTimeout)
    /\ []<>(~ snd.sendPendingDataEvent) \/ []<><<SendPendingDataEvent>>_vars
    /\ []<>(snd.closed \/ ackNet = <<>>) \/ []<><<DeliverAck>>_vars
    /\ []<>(~ snd.retxEvent \/ ~ (path.spurious \/ Quiet)) \/ []<><<ReTxTimeout>>_vars

FairSpec == Spec /\ Fairness

-----------------------------------------------------------------------------
(* Properties.                                                              *)

\* DupAck asserts, when OPEN meets a duplicate ACK, that m_dupAckCount == 1:
\* "From OPEN->DISORDER but with N dup ACKs".
FirstDupackInOpen == "OPEN to DISORDER with one dupack" \notin snd.failed

\* Apart from that one, which an ACK that ends CWR can bring to fail, and which
\* then stops the program, no assertion of TcpSocketBase fails and PRR never
\* divides by an empty flight: the count of duplicate ACKs never passes the
\* threshold in DISORDER, and a timeout leaves nothing in flight and sends one
\* segment at most, whatever was lost, retransmitted or SACKed before.
NoAssertionFails == FirstDupackInOpen => snd.failed = {}

\* While data waits, the retransmission timer or the send event is pending,
\* whatever NewAck cancelled: a socket whose window is below one segment, or
\* whose last retransmission was lost, is never left without an event.
TimerArmed ==
    (~ snd.closed /\ Size(snd.buf) > 0) => snd.retxEvent \/ snd.sendPendingDataEvent

\* What the sender takes for acknowledged or SACKed the receiver holds, and the
\* receiver holds nothing that was never sent, across losses, overtaking and
\* retransmissions.
SenderBehindReceiver ==
    /\ snd.buf.una <= rcv.nextRxSeq /\ rcv.nextRxSeq <= snd.buf.nxt
    /\ \A k \in snd.buf.sacked : k < rcv.nextRxSeq \/ k \in rcv.beyond

\* m_recoverActive is set in RECOVERY and LOSS, may last into a CWR entered
\* from them, and is clear in OPEN and DISORDER; while it is set m_recover is
\* within the sent data: the states are left by the ACK that reaches it, and
\* the comparison `m_highRxAckMark >= m_recover` of DupAck never uses the
\* recovery point of an earlier congestion event.
RecoveryPoint ==
    /\ snd.congState \in {"RECOVERY", "LOSS"} => snd.recoverActive
    /\ snd.recoverActive => snd.congState \in {"RECOVERY", "LOSS", "CWR"}
    /\ snd.recoverActive => snd.buf.una <= snd.recover /\ snd.recover <= snd.buf.nxt

\* When everything is acknowledged the socket is at rest: state OPEN, or CWR
\* if the last ACK only reached its recovery point, no duplicate ACKs counted,
\* nothing in flight, and no timer left to fire on an empty buffer.
RestsClean ==
    Size(snd.buf) = 0 =>
        /\ snd.congState \in {"OPEN", "CWR"} /\ snd.dupAckCount = 0 /\ ~ snd.retxEvent
        /\ BytesInFlight(snd.buf) = 0

\* In RECOVERY the socket sends at most one segment more than PRR counted as
\* delivered, although partial ACKs retransmit without asking for window.
\* The subtraction m_prrDelivered - m_prrOut may therefore wrap, by no more
\* than that segment.
PrrOvershootBounded ==
    snd.congState = "RECOVERY" => snd.prrOut <= snd.prrDelivered + SegmentSize

\* The window is cut for an ECN echo only once per window: the echoes that
\* arrive until the sender's CWR gets through do not cut it again, and a new
\* cut follows only when everything in flight at the last one, or at the last
\* recovery, is acknowledged.
CutOncePerWindow ==
    [][(snd.congState \in {"OPEN", "DISORDER"} /\ snd'.congState = "CWR")
          => snd'.buf.una > snd.recover]_vars

\* Within a recovery no segment goes out that was already retransmitted or is
\* SACKed: NextSeg, DoRetransmit and the check of IsRetransmittedDataAcked in
\* the partial ACK never pick the same hole twice.
NoDoubleRetransmission ==
    [][(snd.congState = "RECOVERY" /\ snd'.congState = "RECOVERY") =>
          \A i \in Len(dataNet) + 1 .. Len(dataNet') :
              dataNet'[i].seq \notin snd.buf.retrans \cup snd.buf.sacked]_vars

\* With fewer losses than retries every byte is acknowledged in the end: no
\* combination of lost segments, lost ACKs, delayed ACKs and windows below one
\* segment leaves the transfer stuck or gives it up.  Fewer, because a window
\* below one segment may cost a timeout, and a retry, without any loss.
Delivers == <>(Size(snd.buf) = 0)

-----------------------------------------------------------------------------
(* The congestion window of this socket is that of a SwiftFlow.             *)

Controller ==
    [cWnd |-> snd.cWnd, rtt |-> snd.rtt, since |-> snd.since,
     retransmitCount |-> snd.retransmitCount, ssThresh |-> snd.ssThresh,
     congState |-> snd.congState]

LargestWindow == 2 * N * SegmentSize

Flow == INSTANCE SwiftFlow WITH
            flow <- Controller, hops <- HopCount, Hops <- {HopCount},
            MaxSegsAcked <- N, MaxTimeouts <- DataRetries, Ticks <- {MaxRtt},
            MaxRecoveryWindow <- LargestWindow,
            RecoveryWindows <- 0 .. LargestWindow

\* Every event of the socket is a step of SwiftFlow or leaves the controller
\* alone: the hooks of Swift are called in the order and in the congestion
\* states SwiftFlow says, with ssThresh computed from the window the hook cut,
\* so the theorems on SwiftFlow hold of this socket's window.
ImplementsSwiftFlow == Flow!Spec

=============================================================================
