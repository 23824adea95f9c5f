------------------------------ MODULE TcpSwift ------------------------------
(***************************************************************************)
(* The Swift congestion control of src/src/internet/model/tcp-swift.{h,cc} *)
(* as operators on a controller record c:                                  *)
(*                                                                         *)
(*   c.cWnd             tcb->m_cWnd, in bytes                              *)
(*   c.rtt              m_rtt, the smoothed RTT last copied from the tcb   *)
(*   c.since            Simulator::Now() - m_tLastDecrease                 *)
(*   c.retransmitCount  m_retransmitCount                                  *)
(*                                                                         *)
(* Each public hook of the class is one operator that returns the record   *)
(* after the call.  m_canDecrease is no part of the record: every function *)
(* that reads it assigns CanDecrease() to it first.                        *)
(*                                                                         *)
(* Times count 100 ns.  The doubles of the code are exact quotients here,  *)
(* truncated only where the code casts to uint32_t; the one irrational,    *)
(* alpha / sqrt(cwnd), is rounded down to thousandths.                     *)
(***************************************************************************)
EXTENDS Integers, FiniteSets

CONSTANTS
    SegmentSize,          \* tcb->m_segmentSize, bytes
    AI,                   \* attribute "AI": additive increment, segments
    MaxMdf,               \* attribute "MaxMdf", in percent (the default 1.0 is 100)
    BaseTarget,           \* attribute "BaseTarget", microseconds
    RetrxResetThreshold   \* attribute "RetrxResetThreshold"

ASSUME SwiftAssumption ==
    /\ SegmentSize \in Nat \ {0}
    /\ AI \in Nat \ {0}
    /\ MaxMdf \in 0 .. 100
    /\ BaseTarget \in Nat \ {0}
    /\ RetrxResetThreshold \in Nat

Larger(a, b)  == IF a >= b THEN a ELSE b
Smaller(a, b) == IF a <= b THEN a ELSE b

\* tcb->GetCwndInSegments(): an integer division, the fraction is dropped.
GetCwndInSegments(c) == c.cWnd \div SegmentSize

MinCwnd == SegmentSize

\* One RTT must have passed since the last decrease; no sample, no decrease.
CanDecrease(c) == c.rtt # 0 /\ c.since >= c.rtt

-----------------------------------------------------------------------------
(* The target delay.  alpha = 4 / (1/sqrt(0.1) - 1/sqrt(32)) = 1.33981, so  *)
(* alpha/sqrt(n) >= k/1000 exactly when k*k*n <= 1339.81^2; beta is -0.237. *)
(* An empty window makes the quotient infinite and std::min picks 4.0.      *)

AlphaThousandths == 1339

AlphaOverSqrt(n) ==
    Cardinality({k \in 1 .. AlphaThousandths : k * k * n <= 1795091})

FlowScaling(n) ==
    IF n = 0 THEN 4000 ELSE Smaller(4000, AlphaOverSqrt(n) - 237)

ComputeTargetDelay(c, hops) ==
    (BaseTarget * (1000 + FlowScaling(GetCwndInSegments(c)))) \div 100
        + hops * 825

-----------------------------------------------------------------------------
(* SwiftUpdateCwndOnAck.                                                    *)

\* Mutant: the increment is not divided by the window.
AdditiveIncreaseUndivided(n, segs) == (n + AI * segs) * SegmentSize

\* ai/cwnd per acknowledged segment, or ai below one segment.
AdditiveIncrease(n, segs) ==
    IF n >= 1 THEN n * SegmentSize + (AI * segs * SegmentSize) \div n
              ELSE AI * segs * SegmentSize

\* Mutant: the excess is taken relative to the target and nothing bounds it.
MultiplicativeDecreaseByTarget(n, measured, target) ==
    (n * SegmentSize * (14 * target - 4 * measured)) \div (10 * target)

\* factor = max(1 - 0.4 * (measured - target) / measured, 1 - maxMdf).
MultiplicativeDecrease(n, measured, target) ==
    Larger((n * SegmentSize * (6 * measured + 4 * target)) \div (10 * measured),
           (n * SegmentSize * (100 - MaxMdf)) \div 100)

SwiftUpdateCwndOnAck(c, hops, segs) ==
    LET n      == GetCwndInSegments(c)
        target == ComputeTargetDelay(c, hops)
        acked  == [c EXCEPT !.retransmitCount = 0]
    IN  IF c.rtt < target
        THEN [acked EXCEPT !.cWnd = AdditiveIncrease(n, segs)]
        ELSE IF CanDecrease(c)
        THEN [acked EXCEPT !.cWnd = MultiplicativeDecrease(n, c.rtt, target),
                           !.since = 0]
        ELSE [acked EXCEPT !.cWnd = n * SegmentSize]

IncreaseWindow(c, hops, segs) == SwiftUpdateCwndOnAck(c, hops, segs)

-----------------------------------------------------------------------------
(* The other hooks.                                                         *)

\* Init, as SetCongestionControlAlgorithm calls it on a new TcpSwift object:
\* m_rtt is the default-constructed Time, zero, and the window is kept.
InitSwift(c) == [c EXCEPT !.rtt = 0, !.since = 0, !.retransmitCount = 0]

PktsAcked(c, srtt) == IF srtt # 0 THEN [c EXCEPT !.rtt = srtt] ELSE c

GetSsThresh(c) == Larger(2 * SegmentSize, c.cWnd \div 2)

\* cwnd * (1 - maxMdf), at least one segment, and the decrease is dated.
CutByMaxMdf(c) ==
    [c EXCEPT !.cWnd = Larger(1, (GetCwndInSegments(c) * (100 - MaxMdf)) \div 100)
                       * SegmentSize,
              !.since = 0]

\* CwndEvent(CA_EVENT_LOSS); every other event only refreshes m_canDecrease.
CwndEventLoss(c) ==
    LET counted == [c EXCEPT !.retransmitCount = @ + 1]
    IN  IF counted.retransmitCount >= RetrxResetThreshold
        THEN [counted EXCEPT !.cWnd = MinCwnd]
        ELSE IF CanDecrease(counted) THEN CutByMaxMdf(counted)
        ELSE counted

CongestionStateSet(c, newState) ==
    LET reset == [c EXCEPT !.retransmitCount = 0]
    IN  CASE newState = "OPEN"     -> reset
          [] newState = "RECOVERY" -> IF CanDecrease(reset) THEN CutByMaxMdf(reset)
                                                            ELSE reset
          [] OTHER                 -> c
=============================================================================
