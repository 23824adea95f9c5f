--------------------------- MODULE TcpPrrRecovery ---------------------------
(***************************************************************************)
(* Proportional Rate Reduction, the recovery algorithm of                  *)
(* src/src/internet/model/tcp-prr-recovery.{h,cc}, as operators on a       *)
(* record s that holds tcb->m_cWnd, tcb->m_ssThresh and                    *)
(*                                                                         *)
(*   s.prrDelivered  m_prrDelivered, bytes                                 *)
(*   s.prrOut        m_prrOut, bytes                                       *)
(*   s.prrFlight     m_recoveryFlightSize, bytes                           *)
(*   s.failed        names of assertions that failed so far                *)
(*                                                                         *)
(* `inflight` is tcb->m_bytesInFlight, `safeACK` tcb->m_isRetransDataAcked. *)
(***************************************************************************)
EXTENDS TcpSwift

\* NS_ASSERT(cond): the failure is remembered and the run goes on.
Check(s, cond, name) ==
    IF cond THEN s ELSE [s EXCEPT !.failed = @ \cup {name}]

CeilDiv(a, b) == (a + b - 1) \div b

\* The proportional part.  With an empty flight the quotient of doubles is
\* infinite and its conversion to int undefined.
ProportionalCount(s) ==
    CeilDiv(s.prrDelivered * s.ssThresh, s.prrFlight) - s.prrOut

\* The conservative part.  The subtraction is on uint32_t: when more was sent
\* than delivered it wraps, std::max keeps the huge value, and as an int it
\* is the negative difference again.
ReductionBoundCount(s, delivered, inflight, safeACK) ==
    LET limit == IF s.prrDelivered >= s.prrOut
                 THEN Larger(s.prrDelivered - s.prrOut, delivered)
                 ELSE s.prrDelivered - s.prrOut
    IN  Smaller(limit + (IF safeACK THEN SegmentSize ELSE 0),
                s.ssThresh - inflight)

\* A fast retransmit is forced when recovery is entered, and only then.
ForcedCount(s) == IF s.prrOut > 0 THEN 0 ELSE SegmentSize

DoRecovery(s, deliveredBytes, isDupAck, inflight, safeACK) ==
    LET delivered == deliveredBytes +
                     (IF isDupAck /\ s.prrDelivered < s.prrFlight
                      THEN SegmentSize ELSE 0)
        t == [s EXCEPT !.prrDelivered = @ + delivered]
        window(count) == [t EXCEPT !.cWnd = inflight + Larger(count, ForcedCount(s))]
    IN  CASE delivered = 0 -> s
          [] delivered > 0 /\ inflight > s.ssThresh /\ s.prrFlight = 0 ->
                 Check(t, FALSE, "PRR divides by an empty flight")
          [] delivered > 0 /\ inflight > s.ssThresh /\ s.prrFlight > 0 ->
                 window(ProportionalCount(t))
          [] delivered > 0 /\ inflight <= s.ssThresh ->
                 window(ReductionBoundCount(t, delivered, inflight, safeACK))

PrrEnterRecovery(s, deliveredBytes, inflight, safeACK) ==
    DoRecovery([s EXCEPT !.prrOut = 0, !.prrDelivered = 0, !.prrFlight = inflight],
               deliveredBytes, TRUE, inflight, safeACK)

UpdateBytesSent(s, bytes) == [s EXCEPT !.prrOut = @ + bytes]
=============================================================================
