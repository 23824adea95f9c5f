----------------------------- MODULE Scoreboard -----------------------------
(***************************************************************************)
(* TcpTxBuffer under every sequence of calls a socket with SACK may make:  *)
(* the application adds data, segments are sent and sent again, ACKs with  *)
(* and without SACK blocks arrive, a timeout or a third duplicate ACK      *)
(* marks segments as lost.  The socket's reasons for a call are left open  *)
(* (TcpSender has them); only what the peer can truthfully report bounds   *)
(* an ACK.                                                                 *)
(***************************************************************************)
EXTENDS TcpTxBuffer

CONSTANT MaxSeq   \* bound: segments the application writes

ASSUME SeqAssumption == MaxSeq \in Nat \ {0}

VARIABLE buf

Segments == 1 .. MaxSeq

Buffers ==
    [una: 1 .. MaxSeq + 1, nxt: 1 .. MaxSeq + 1, end: 1 .. MaxSeq + 1,
     sacked: SUBSET Segments, lost: SUBSET Segments, retrans: SUBSET Segments,
     sackedOut: Nat, lostOut: Nat, retransOut: Nat, highestSack: 0 .. MaxSeq]

ScoreboardInit == buf = EmptyBuffer

\* TcpSocketBase::Send hands over one segment of application data.
AppSend ==
    /\ buf.end <= MaxSeq
    /\ CanAdd(buf)
    /\ buf' = Add(buf)

\* SendDataPacket of unsent data.
SendNew ==
    /\ buf.nxt < buf.end
    /\ buf' = CopyFromSequence(buf, buf.nxt)

\* SendDataPacket of a sent item: the head (EnterRecovery and DoRetransmit may
\* send it again), or what NextSeg picks.
SendAgain ==
    /\ buf.una < buf.nxt
    /\ \E s \in {buf.una} \cup
                {NextSeg(buf, MaxSeq, recovery) : recovery \in BOOLEAN} :
          /\ s \in SentList(buf)
          /\ buf' = CopyFromSequence(buf, s)

\* An ACK: the receiver holds everything before `ack`, not `ack` itself, and
\* the segments of `blocks` above it.  Whatever it reported earlier it still
\* holds.
ReceiveAck ==
    \E ack \in buf.una .. buf.nxt :
       \E blocks \in SUBSET (ack + 1 .. buf.nxt - 1) :
          /\ ack \notin buf.sacked
          /\ buf' = DiscardUpTo(Update(buf, blocks), ack)

\* ReTxTimeout.
Timeout ==
    /\ Size(buf) > 0
    /\ buf' = SetSentListLost(buf)

\* EnterRecovery finds that the head is not marked as lost.
HeadLost ==
    /\ buf.una < buf.nxt
    /\ ~ IsLost(buf, buf.una)
    /\ buf' = MarkHeadAsLost(buf)

ScoreboardNext == AppSend \/ SendNew \/ SendAgain \/ ReceiveAck \/ Timeout \/ HeadLost

ScoreboardSpec == ScoreboardInit /\ [][ScoreboardNext]_buf

-----------------------------------------------------------------------------
(* Properties.                                                              *)

\* The buffer is a record of the declared shape, the flags belong to items of
\* the sent list, and una <= nxt <= end.
BufferTypeOK ==
    /\ buf \in Buffers
    /\ buf.una <= buf.nxt /\ buf.nxt <= buf.end
    /\ buf.sacked \cup buf.lost \cup buf.retrans \subseteq SentList(buf)

\* ConsistencyCheck(): after any sequence of SACKs, ACKs, retransmissions and
\* timeouts the counters behind BytesInFlight equal the numbers of flagged
\* items, so no increment or decrement is ever missed or done twice.
CountsConsistent == ConsistencyCheck(buf)

\* NS_ASSERT(m_sackedOut + m_lostOut <= m_sentSize): the pipe never wraps
\* below zero, whatever the order in which items are lost, SACKed and sent
\* again, because no item is lost and SACKed at once and the head is never
\* SACKed.
PipeNeverWraps ==
    HeadNotSacked(buf) /\ LostXorSacked(buf) /\ NoUnderflow(buf)

\* m_sackSeen and m_highestSack stay in step with the flags: NextSeg, which
\* excludes everything above m_highestSack, hides no segment behind a SACK
\* mark that was already discarded.
SackPointerSound == HighestSackSound(buf)

\* A timeout leaves a segment to send first: the head, which NextSeg returns
\* whatever was SACKed, so the retransmission timer is armed again.
TimeoutFindsHead ==
    (buf.una < buf.nxt /\ buf.lost = SentList(buf) \ buf.sacked /\ buf.retrans = {})
        => \A rWnd \in 0 .. MaxSeq : NextSeg(buf, rWnd, FALSE) = buf.una

-----------------------------------------------------------------------------
(* What the header's documentation says of the buffer.                      *)

\* UpdateLostCount, tcp-tx-buffer.h: "if more than Dupack thresh (e.g., 3)
\* sacked segments above the sequence, then we can consider the sequence
\* lost".
LossDetected ==
    \A s \in SentList(buf) \ buf.sacked :
        Cardinality({t \in buf.sacked : t > s}) > DupAckThresh => s \in buf.lost
=============================================================================
