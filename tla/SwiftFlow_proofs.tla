-------------------------- MODULE SwiftFlow_proofs --------------------------
(***************************************************************************)
(* Proofs about SwiftFlow, checked by TLAPS: the types and the ceiling of  *)
(* the window, for every value of the constants.                           *)
(***************************************************************************)
EXTENDS SwiftFlow, FiniteSetTheorems, TLAPS

-----------------------------------------------------------------------------
(* Integer division and products.                                           *)

\* Integer division by a positive number, by the two inequalities that
\* define it.
LEMMA DivNat ==
    ASSUME NEW a \in Nat, NEW b \in Nat \ {0}
    PROVE  /\ a \div b \in Nat
           /\ b * (a \div b) <= a
           /\ a < b * (a \div b) + b
  BY SMT

\* A product of naturals is a natural.
LEMMA MulNat ==
    ASSUME NEW a \in Nat, NEW b \in Nat
    PROVE  a * b \in Nat
  BY SMT

\* Multiplication is monotone.
LEMMA MulMono ==
    ASSUME NEW a \in Nat, NEW b \in Nat, NEW x \in Nat, a <= b
    PROVE  a * x <= b * x
  BY SMT

\* A quotient is below any number whose product with the divisor exceeds
\* the dividend.
LEMMA DivLess ==
    ASSUME NEW a \in Nat, NEW b \in Nat \ {0}, NEW c \in Nat, a < b * c
    PROVE  a \div b < c
  BY DivNat, SMT

\* The same for "at most".
LEMMA DivAtMost ==
    ASSUME NEW a \in Nat, NEW b \in Nat \ {0}, NEW c \in Nat, a <= b * c
    PROVE  a \div b <= c
  <1>1. /\ a \div b \in Nat
        /\ b * (a \div b) <= a
    BY DivNat
  <1>2. b * (a \div b) <= b * c
    BY <1>1, MulNat, SMT
  <1> QED
    BY <1>1, <1>2, SMT

-----------------------------------------------------------------------------
(* The target delay.                                                        *)

\* A set of integers between two bounds has a natural cardinality.
LEMMA BoundedCardinality ==
    ASSUME NEW lo \in Int, NEW hi \in Int, NEW S, S \subseteq lo .. hi
    PROVE  Cardinality(S) \in Nat
  <1>1. IsFiniteSet(lo .. hi)
    BY FS_Interval, Zenon
  <1>2. IsFiniteSet(S)
    BY <1>1, FS_Subset, Zenon
  <1> QED
    BY <1>2, FS_CardinalityType, Zenon

\* The rounded alpha/sqrt(n) is a natural number.
LEMMA AlphaType ==
    ASSUME NEW n \in Nat
    PROVE  AlphaOverSqrt(n) \in Nat
  <1> DEFINE S == {k \in 1 .. AlphaThousandths : k * k * n <= 1795091}
  <1> AlphaThousandths \in Int
    BY SMT DEF AlphaThousandths
  <1>1. \E lo, hi \in Int : S \subseteq lo .. hi
    <2> WITNESS 1 \in Int, AlphaThousandths \in Int
    <2> QED
      BY SMT
  <1>2. Cardinality(S) \in Nat
    <2> HIDE DEF S
    <2> QED
      BY <1>1, BoundedCardinality, Zenon
  <1> QED
    BY <1>2, SMT DEF AlphaOverSqrt

\* The window in whole segments is a natural number and its bytes are no
\* more than the window.
LEMMA SegmentsType ==
    ASSUME NEW c \in Flows
    PROVE  /\ GetCwndInSegments(c) \in Nat
           /\ GetCwndInSegments(c) * SegmentSize <= c.cWnd
  <1>1. c.cWnd \in Nat /\ SegmentSize \in Nat \ {0}
    BY SwiftAssumption DEF Flows
  <1>2. c.cWnd \div SegmentSize \in Nat /\ SegmentSize * (c.cWnd \div SegmentSize) <= c.cWnd
    BY <1>1, DivNat
  <1> QED
    BY <1>1, <1>2, SMT DEF GetCwndInSegments

\* The target delay is a natural number: beta > -1.
LEMMA TargetType ==
    ASSUME NEW c \in Flows, NEW h \in Nat
    PROVE  ComputeTargetDelay(c, h) \in Nat
  <1> DEFINE fs == FlowScaling(GetCwndInSegments(c))
  <1>1. GetCwndInSegments(c) \in Nat
    BY SegmentsType
  <1>2. AlphaOverSqrt(GetCwndInSegments(c)) \in Nat
    BY <1>1, AlphaType
  <1>3. fs \in Int /\ 1000 + fs \in Nat
    BY <1>2, SMT DEF FlowScaling, Smaller
  <1> HIDE DEF fs
  <1>4. BaseTarget * (1000 + fs) \in Nat
    BY <1>3, MulNat, SwiftAssumption
  <1>5. (BaseTarget * (1000 + fs)) \div 100 \in Nat
    BY <1>4, DivNat
  <1> QED
    BY <1>5, SMT DEF ComputeTargetDelay, fs
-----------------------------------------------------------------------------
(* The window arithmetic of SwiftUpdateCwndOnAck stays below the ceiling.   *)

\* The window, in bytes, that no ACK carries the flow to.
Bound == (Ceiling + 1) * SegmentSize

\* The ceiling covers the initial window, one full increment and half of what
\* PRR may leave.
LEMMA CeilingFacts ==
    /\ Ceiling \in Nat
    /\ InitialCwnd <= Ceiling
    /\ AI * MaxSegsAcked + 1 <= Ceiling
    /\ MaxRecoveryWindow \div (2 * SegmentSize) <= Ceiling
    /\ Bound \in Nat
  <1>1. AI * MaxSegsAcked \in Nat
    BY SwiftAssumption, FlowAssumption, MulNat
  <1>2. MaxRecoveryWindow \div (2 * SegmentSize) \in Nat
    BY SwiftAssumption, FlowAssumption, DivNat
  <1>3. Ceiling \in Nat
    BY <1>1, <1>2, FlowAssumption DEF Ceiling, Larger
  <1>4. Bound \in Nat
    BY <1>3, MulNat, SwiftAssumption DEF Bound
  <1> QED
    BY <1>1, <1>2, <1>3, <1>4, FlowAssumption DEF Ceiling, Larger

\* The additive increase: n + AI*segs/n is at most AI*segs + 1 while the
\* increment is a segment or more, and adds less than a segment after that.
LEMMA AdditiveBound ==
    ASSUME NEW n \in Nat, n <= Ceiling, NEW segs \in 0 .. MaxSegsAcked
    PROVE  /\ AdditiveIncrease(n, segs) \in Nat
           /\ AdditiveIncrease(n, segs) < Bound
  <1> DEFINE P == AI * segs
             q == (P * SegmentSize) \div n
  <1>1. SegmentSize \in Nat \ {0} /\ AI \in Nat /\ segs \in Nat /\ segs <= MaxSegsAcked
        /\ MaxSegsAcked \in Nat
    BY SwiftAssumption, FlowAssumption
  <1>2. P \in Nat /\ P * SegmentSize \in Nat
    BY <1>1, MulNat
  <1>3. P <= AI * MaxSegsAcked /\ AI * MaxSegsAcked \in Nat
    BY <1>1, MulNat, SMT
  <1>4. P + 1 <= Ceiling /\ Ceiling \in Nat
    BY <1>2, <1>3, CeilingFacts
  <1> HIDE DEF P
  <1>5. \A k \in Nat : k <= Ceiling => k * SegmentSize <= Ceiling * SegmentSize
    BY <1>1, <1>4, MulMono
  <1>6. Bound = Ceiling * SegmentSize + SegmentSize /\ Ceiling * SegmentSize \in Nat
    BY <1>1, <1>4, MulNat, SMT DEF Bound
  <1>7. CASE n = 0
    <2>1. P * SegmentSize <= Ceiling * SegmentSize
      BY <1>2, <1>4, <1>5
    <2> QED
      BY <1>1, <1>2, <1>6, <1>7, <2>1 DEF AdditiveIncrease, P
  <1>8. CASE n >= 1
    <2>1. q \in Nat /\ n * SegmentSize \in Nat
      BY <1>1, <1>2, <1>8, DivNat, MulNat
    <2>2. AdditiveIncrease(n, segs) = n * SegmentSize + q
      BY <1>8 DEF AdditiveIncrease, P
    <2>3. n * SegmentSize + q < Ceiling * SegmentSize + SegmentSize
      <3>1. CASE P < n
        <4>1. P * SegmentSize < n * SegmentSize
          BY <1>1, <1>2, <3>1, SMT
        <4>2. q < SegmentSize
          BY <1>1, <1>2, <1>8, <4>1, DivLess
        <4> QED
          BY <1>1, <1>5, <1>6, <2>1, <4>2
      <3>2. CASE n <= P
        <4> DEFINE r == P + 1 - n
        <4>1. r \in Nat /\ P = (n - 1) + r
          BY <1>2, <3>2, <1>8
        <4>2. P <= n * r
          <5>1. (n - 1) * (r - 1) >= 0
            BY <4>1, <3>2, <1>8, <1>2, SMT
          <5> QED
            BY <5>1, <4>1, <1>8, SMT
        <4> HIDE DEF r
        <4>3. n * r \in Nat /\ r * SegmentSize \in Nat
          BY <4>1, <1>1, MulNat
        <4>4. P * SegmentSize <= (n * r) * SegmentSize
          BY <4>2, <4>3, <1>1, <1>2, MulMono
        <4>5. (n * r) * SegmentSize = n * (r * SegmentSize)
          BY <4>1, <1>1, SMT
        <4>6. q <= r * SegmentSize
          BY <4>3, <4>4, <4>5, <1>2, <1>8, DivAtMost
        <4>7. n * SegmentSize + r * SegmentSize = (P + 1) * SegmentSize
          BY <4>1, <1>1, SMT
        <4>8. (P + 1) * SegmentSize <= Ceiling * SegmentSize
          BY <1>2, <1>4, <1>5
        <4> QED
          BY <4>3, <4>6, <4>7, <4>8, <2>1, <1>6, <1>1
      <3> QED
        BY <3>1, <3>2, <1>2
    <2> QED
      BY <1>6, <2>1, <2>2, <2>3
  <1> QED
    BY <1>7, <1>8

\* The multiplicative decrease never raises the whole-segment window: above
\* the target the factor is at most one.
LEMMA DecreaseBound ==
    ASSUME NEW n \in Nat, NEW m \in Nat \ {0}, NEW t \in Nat, t <= m
    PROVE  /\ MultiplicativeDecrease(n, m, t) \in Nat
           /\ MultiplicativeDecrease(n, m, t) <= n * SegmentSize
  <1> DEFINE w == n * SegmentSize
  <1>1. w \in Nat
    BY SwiftAssumption, MulNat
  <1> HIDE DEF w
  <1>2. 6 * m + 4 * t \in Nat /\ 6 * m + 4 * t <= 10 * m /\ 10 * m \in Nat \ {0}
    OBVIOUS
  <1>3. w * (6 * m + 4 * t) \in Nat /\ w * (6 * m + 4 * t) <= (10 * m) * w
    BY <1>1, <1>2, MulNat, SMT
  <1>4. /\ (w * (6 * m + 4 * t)) \div (10 * m) \in Nat
        /\ (w * (6 * m + 4 * t)) \div (10 * m) <= w
    BY <1>1, <1>2, <1>3, DivNat, DivAtMost
  <1>5. 100 - MaxMdf \in Nat /\ 100 - MaxMdf <= 100
    BY SwiftAssumption, SMT
  <1>6. w * (100 - MaxMdf) \in Nat /\ w * (100 - MaxMdf) <= 100 * w
    BY <1>1, <1>5, MulNat, SMT
  <1>7. /\ (w * (100 - MaxMdf)) \div 100 \in Nat
        /\ (w * (100 - MaxMdf)) \div 100 <= w
    BY <1>1, <1>6, DivNat, DivAtMost, SMT
  <1> QED
    BY <1>4, <1>7, SMT DEF MultiplicativeDecrease, Larger, w
-----------------------------------------------------------------------------
(* The hooks.                                                               *)

\* A record whose window an ACK may have left.
Low(f) == f \in Flows /\ f.cWnd < Bound

\* A record PRR may have left: its window may exceed the bound, but not what
\* PRR may choose.
Reduced(f) == f \in Flows /\ (f.cWnd < Bound \/ f.cWnd <= MaxRecoveryWindow)

\* IncreaseWindow keeps the window below the bound and leaves the congestion
\* state and ssThresh alone.
LEMMA IncreaseWindowLow ==
    ASSUME NEW f, Low(f), NEW h \in Nat, NEW segs \in 0 .. MaxSegsAcked
    PROVE  /\ Low(IncreaseWindow(f, h, segs))
           /\ IncreaseWindow(f, h, segs).congState = f.congState
  <1> DEFINE n == GetCwndInSegments(f)
             t == ComputeTargetDelay(f, h)
  <1>1. f \in Flows /\ f.cWnd \in Nat /\ f.rtt \in Nat /\ f.cWnd < Bound
    BY FlowAssumption DEF Low, Flows
  <1>2. n \in Nat /\ n * SegmentSize <= f.cWnd /\ n * SegmentSize \in Nat
    BY <1>1, SegmentsType, MulNat, SwiftAssumption
  <1>3. t \in Nat
    BY <1>1, TargetType
  <1>4. n <= Ceiling
    <2>1. f.cWnd < SegmentSize * (Ceiling + 1) /\ Ceiling + 1 \in Nat
      BY <1>1, CeilingFacts, SwiftAssumption, SMT DEF Bound
    <2>2. n < Ceiling + 1
      BY <1>1, <2>1, DivLess, SwiftAssumption DEF GetCwndInSegments
    <2> QED
      BY <1>2, <2>2, CeilingFacts
  <1>5. AdditiveIncrease(n, segs) \in Nat /\ AdditiveIncrease(n, segs) < Bound
    BY <1>2, <1>4, AdditiveBound
  <1>6. ASSUME ~(f.rtt < t), CanDecrease(f)
        PROVE  /\ MultiplicativeDecrease(n, f.rtt, t) \in Nat
               /\ MultiplicativeDecrease(n, f.rtt, t) < Bound
    <2>1. f.rtt \in Nat \ {0} /\ t <= f.rtt
      BY <1>1, <1>3, <1>6 DEF CanDecrease
    <2>2. MultiplicativeDecrease(n, f.rtt, t) \in Nat
          /\ MultiplicativeDecrease(n, f.rtt, t) <= n * SegmentSize
      BY <1>2, <1>3, <2>1, DecreaseBound
    <2> QED
      BY <1>1, <1>2, <2>2, CeilingFacts
  <1>7. n * SegmentSize < Bound
    BY <1>1, <1>2, CeilingFacts
  <1>8. 0 \in 0 .. MaxRtt /\ 0 \in Nat
    BY FlowAssumption
  <1> HIDE DEF n, t
  <1> DEFINE r == IncreaseWindow(f, h, segs)
  <1>9. CASE f.rtt < t
    <2>1. r = [[f EXCEPT !.retransmitCount = 0] EXCEPT !.cWnd = AdditiveIncrease(n, segs)]
      BY <1>9 DEF IncreaseWindow, SwiftUpdateCwndOnAck, n, t
    <2> QED
      BY <2>1, <1>1, <1>5, <1>8 DEF Low, Flows
  <1>10. CASE ~(f.rtt < t) /\ CanDecrease(f)
    <2>1. r = [[f EXCEPT !.retransmitCount = 0]
                 EXCEPT !.cWnd = MultiplicativeDecrease(n, f.rtt, t), !.since = 0]
      BY <1>10 DEF IncreaseWindow, SwiftUpdateCwndOnAck, n, t
    <2> QED
      BY <2>1, <1>1, <1>6, <1>8, <1>10 DEF Low, Flows
  <1>11. CASE ~(f.rtt < t) /\ ~CanDecrease(f)
    <2>1. r = [[f EXCEPT !.retransmitCount = 0] EXCEPT !.cWnd = n * SegmentSize]
      BY <1>11 DEF IncreaseWindow, SwiftUpdateCwndOnAck, n, t
    <2> QED
      BY <2>1, <1>1, <1>2, <1>7, <1>8 DEF Low, Flows
  <1> QED
    BY <1>9, <1>10, <1>11

\* ssThresh is computed below the bound, whoever left the window.
LEMMA SsThreshLow ==
    ASSUME NEW f, Reduced(f)
    PROVE  GetSsThresh(f) \in Nat /\ GetSsThresh(f) < Bound
  <1>1. f.cWnd \in Nat /\ SegmentSize \in Nat \ {0} /\ MaxRecoveryWindow \in Nat
    BY SwiftAssumption, FlowAssumption DEF Reduced, Flows
  <1>2. f.cWnd \div 2 \in Nat /\ f.cWnd \div 2 <= f.cWnd
    BY <1>1, SMT
  <1>3. 2 * SegmentSize < Bound
    <2>1. 2 <= Ceiling
      BY CeilingFacts, SwiftAssumption, FlowAssumption, SMT
    <2>2. 3 * SegmentSize <= (Ceiling + 1) * SegmentSize
      BY <1>1, <2>1, CeilingFacts, MulMono
    <2> QED
      BY <1>1, <2>2, CeilingFacts, SMT DEF Bound
  <1>4. f.cWnd \div 2 < Bound
    <2>1. CASE f.cWnd < Bound
      BY <1>2, <2>1, CeilingFacts, <1>1
    <2>2. CASE f.cWnd <= MaxRecoveryWindow
      <3> DEFINE d == MaxRecoveryWindow \div (2 * SegmentSize)
      <3>1. d \in Nat /\ MaxRecoveryWindow < (2 * SegmentSize) * d + 2 * SegmentSize
        <4>1. 2 * SegmentSize \in Nat \ {0}
          BY <1>1
        <4> QED
          BY <1>1, <4>1, DivNat, Zenon
      <3>2. d + 1 <= Ceiling + 1
        BY <3>1, CeilingFacts
      <3> HIDE DEF d
      <3>3. (d + 1) * SegmentSize <= Bound
        BY <3>1, <3>2, <1>1, CeilingFacts, MulMono DEF Bound
      <3>4. (2 * SegmentSize) * d + 2 * SegmentSize = 2 * ((d + 1) * SegmentSize)
        BY <3>1, <1>1, SMT
      <3>5. (d + 1) * SegmentSize \in Nat
        BY <3>1, <1>1, MulNat
      <3> QED
        BY <1>1, <2>2, <3>1, <3>3, <3>4, <3>5, CeilingFacts, SMT
    <2> QED
      BY <2>1, <2>2 DEF Reduced
  <1> QED
    BY <1>1, <1>2, <1>3, <1>4 DEF GetSsThresh, Larger

\* The cut by MaxMdf leaves at least one segment and never more than the
\* window had, if the window had one.
LEMMA CutLow ==
    ASSUME NEW f \in Flows
    PROVE  /\ CutByMaxMdf(f) \in Flows
           /\ CutByMaxMdf(f).congState = f.congState
           /\ Low(f) => Low(CutByMaxMdf(f))
  <1> DEFINE n == GetCwndInSegments(f)
             k == (n * (100 - MaxMdf)) \div 100
             w == Larger(1, k) * SegmentSize
  <1>1. f.cWnd \in Nat /\ SegmentSize \in Nat \ {0}
    BY SwiftAssumption DEF Flows
  <1>2. n \in Nat /\ n * SegmentSize <= f.cWnd
    BY SegmentsType
  <1> HIDE DEF n
  <1>3. 100 - MaxMdf \in Nat /\ 100 - MaxMdf <= 100
    BY SwiftAssumption, SMT
  <1>4. n * (100 - MaxMdf) \in Nat /\ n * (100 - MaxMdf) <= 100 * n
    BY <1>2, <1>3, MulNat, SMT
  <1>5. k \in Nat /\ k <= n
    BY <1>2, <1>4, DivNat, DivAtMost, SMT
  <1> HIDE DEF k
  <1>6. w \in Nat /\ (f.cWnd < Bound => w < Bound)
    <2>1. CASE k >= 1
      <3>1. k * SegmentSize <= n * SegmentSize /\ k * SegmentSize \in Nat
            /\ n * SegmentSize \in Nat
        BY <1>1, <1>2, <1>5, MulMono, MulNat
      <3> QED
        BY <1>1, <1>2, <1>5, <2>1, <3>1, CeilingFacts DEF Larger
    <2>2. CASE k = 0
      <3>1. w = SegmentSize
        BY <1>1, <2>2 DEF Larger
      <3>2. 2 * SegmentSize <= (Ceiling + 1) * SegmentSize
        BY <1>1, CeilingFacts, MulMono, SwiftAssumption, FlowAssumption, SMT
      <3> QED
        BY <1>1, <3>1, <3>2, CeilingFacts, SMT DEF Bound
    <2> QED
      BY <1>5, <2>1, <2>2
  <1> HIDE DEF w
  <1>7. CutByMaxMdf(f) = [f EXCEPT !.cWnd = w, !.since = 0]
    BY DEF CutByMaxMdf, w, k, n
  <1>8. 0 \in 0 .. MaxRtt
    BY FlowAssumption
  <1> QED
    BY <1>6, <1>7, <1>8 DEF Low, Flows
-----------------------------------------------------------------------------
(* The inductive invariant and the stages of ReceivedAck.                   *)

\* What every stage keeps.  GrowthCeiling alone is not inductive: leaving
\* recovery or CWR copies ssThresh into the window, and ssThresh was computed
\* from a window that PRR may have set.
FlowInv(f) ==
    /\ f \in Flows
    /\ f.congState \in {"OPEN", "DISORDER", "LOSS"} => f.cWnd < Bound
    /\ f.congState \in {"CWR", "RECOVERY"} =>
          /\ f.ssThresh < Bound
          /\ f.cWnd < Bound \/ f.cWnd <= MaxRecoveryWindow

IInv == FlowInv(flow) /\ srtt \in 0 .. MaxRtt /\ hops \in Nat

\* PktsAcked only stores an RTT.
LEMMA PktsAckedInv ==
    ASSUME NEW f, FlowInv(f), NEW s \in 0 .. MaxRtt
    PROVE  /\ FlowInv(PktsAcked(f, s))
           /\ PktsAcked(f, s).congState = f.congState
           /\ PktsAcked(f, s).ssThresh = f.ssThresh
  BY DEF FlowInv, PktsAcked, Flows

\* PRR sets a window within its range and keeps the state.
LEMMA PrrInv ==
    ASSUME NEW f, Reduced(f), f.congState \in {"CWR", "RECOVERY"}, f.ssThresh < Bound,
           NEW g \in Prr(f)
    PROVE  FlowInv(g) /\ g.congState = f.congState
  <1>1. PICK w \in RecoveryWindows \cup {f.cWnd} : g = [f EXCEPT !.cWnd = w]
    BY DEF Prr, SetWindow
  <1>2. w \in Nat /\ (w <= MaxRecoveryWindow \/ w = f.cWnd)
    BY FlowAssumption DEF Reduced, Flows
  <1> QED
    BY <1>1, <1>2 DEF FlowInv, Flows, Reduced

\* Either side of the CWR boundary, and the entry into CWR.
LEMMA EcnInv ==
    ASSUME NEW f, FlowInv(f), NEW g \in EcnStage(f)
    PROVE  FlowInv(g)
  <1> DEFINE after == IF f.congState = "CWR" THEN ExitCwr(f) ELSE f
  <1>1. FlowInv(after)
    BY DEF FlowInv, Flows, ExitCwr, InState, SetWindow, CongStates
  <1>2. ASSUME NEW h, FlowInv(h), NEW e \in EnterCwr(h)
        PROVE  FlowInv(e)
    <2> DEFINE base == InState([h EXCEPT !.ssThresh = GetSsThresh(h)], "CWR")
    <2>1. Reduced(h) /\ h \in Flows
      BY <1>2 DEF FlowInv, Reduced, Flows, CongStates
    <2>2. GetSsThresh(h) \in Nat /\ GetSsThresh(h) < Bound
      BY <2>1, SsThreshLow
    <2>3. base.congState = "CWR" /\ base.ssThresh < Bound /\ base.cWnd = h.cWnd
          /\ base \in Flows
      BY <2>1, <2>2 DEF InState, Flows, CongStates
    <2>4. Reduced(base)
      BY <2>1, <2>3 DEF Reduced
    <2>5. e \in Prr(base)
      BY <1>2 DEF EnterCwr
    <2> HIDE DEF base
    <2> QED
      BY <2>3, <2>4, <2>5, PrrInv
  <1>3. g = f \/ g = after \/ g \in EnterCwr(after)
    BY DEF EcnStage
  <1> HIDE DEF after
  <1> QED
    BY <1>1, <1>2, <1>3

\* Setting the congestion state to OPEN, DISORDER or LOSS, and the hook calls
\* that go with it.
LEMMA StateSetInv ==
    ASSUME NEW f, Low(f)
    PROVE  /\ FlowInv(InState(f, "DISORDER")) /\ Low(InState(f, "DISORDER"))
           /\ Low(BackToOpen(f)) /\ BackToOpen(f).congState = "OPEN"
           /\ Low(CongestionStateSet(f, "RECOVERY"))
  <1>1. CASE CanDecrease([f EXCEPT !.retransmitCount = 0])
    <2> DEFINE r == [f EXCEPT !.retransmitCount = 0]
    <2>1. Low(r) /\ r \in Flows
      BY DEF Low, Flows
    <2>2. CongestionStateSet(f, "RECOVERY") = CutByMaxMdf(r)
      BY <1>1 DEF CongestionStateSet
    <2> HIDE DEF r
    <2>3. Low(CongestionStateSet(f, "RECOVERY"))
      BY <2>1, <2>2, CutLow
    <2> QED
      BY <2>3 DEF Low, FlowInv, InState, BackToOpen, CongestionStateSet, Flows, CongStates
  <1>2. CASE ~CanDecrease([f EXCEPT !.retransmitCount = 0])
    BY <1>2 DEF Low, FlowInv, InState, BackToOpen, CongestionStateSet, Flows, CongStates
  <1> QED
    BY <1>1, <1>2

\* Entering fast recovery.
LEMMA EnterRecoveryInv ==
    ASSUME NEW f, Low(f), NEW g \in EnterRecovery(f)
    PROVE  FlowInv(g) /\ g.congState = "RECOVERY"
  <1> DEFINE c == CongestionStateSet(f, "RECOVERY")
             cut == InState(c, "RECOVERY")
             base == [cut EXCEPT !.ssThresh = GetSsThresh(cut)]
  <1>1. Low(c)
    BY StateSetInv
  <1> HIDE DEF c
  <1>2. Low(cut) /\ cut \in Flows /\ cut.congState = "RECOVERY"
    BY <1>1 DEF Low, InState, Flows, CongStates
  <1> HIDE DEF cut
  <1>3. Reduced(cut)
    BY <1>2 DEF Low, Reduced
  <1>4. GetSsThresh(cut) \in Nat /\ GetSsThresh(cut) < Bound
    BY <1>3, SsThreshLow
  <1>5. base.congState = "RECOVERY" /\ base.ssThresh < Bound /\ base.cWnd = cut.cWnd
        /\ base \in Flows
    BY <1>2, <1>4 DEF Flows
  <1>6. Reduced(base)
    BY <1>3, <1>5 DEF Reduced
  <1>7. g \in Prr(base)
    BY DEF EnterRecovery, base, cut, c
  <1> HIDE DEF base
  <1> QED
    BY <1>5, <1>6, <1>7, PrrInv

\* DupAck.
LEMMA DupInv ==
    ASSUME NEW f, FlowInv(f), NEW g \in DupStage(f)
    PROVE  FlowInv(g)
  <1>1. CASE f.congState \in {"OPEN", "DISORDER"}
    <2>1. Low(f)
      BY <1>1 DEF FlowInv, Low
    <2> DEFINE d == InState(f, "DISORDER")
    <2>2. FlowInv(d) /\ Low(d)
      BY <2>1, StateSetInv
    <2>3. g = d \/ g \in EnterRecovery(d)
      BY <1>1 DEF DupStage
    <2> HIDE DEF d
    <2> QED
      BY <2>2, <2>3, EnterRecoveryInv
  <1>2. CASE f.congState = "RECOVERY"
    <2>1. Reduced(f) /\ f.ssThresh < Bound /\ g \in Prr(f)
      BY <1>2 DEF FlowInv, Reduced, DupStage
    <2> QED
      BY <1>2, <2>1, PrrInv
  <1>3. CASE f.congState \in {"CWR", "LOSS"}
    BY <1>3 DEF DupStage
  <1> QED
    BY <1>1, <1>2, <1>3 DEF FlowInv, Flows, CongStates
\* IncreaseWindow in one of the states where no recovery algorithm runs.
LEMMA OpenInv ==
    ASSUME NEW f, Low(f), f.congState \in {"OPEN", "DISORDER", "LOSS"},
           NEW h \in Nat, NEW segs \in 0 .. MaxSegsAcked
    PROVE  FlowInv(IncreaseWindow(f, h, segs))
  <1>1. Low(IncreaseWindow(f, h, segs)) /\ IncreaseWindow(f, h, segs).congState = f.congState
    BY IncreaseWindowLow
  <1> QED
    BY <1>1 DEF FlowInv, Low

\* The congestion state machine of ProcessAck.
LEMMA AckInv ==
    ASSUME NEW f, FlowInv(f), NEW before, NEW dup \in BOOLEAN,
           NEW s \in 0 .. MaxRtt, NEW h \in Nat, NEW segs \in 0 .. MaxSegsAcked,
           NEW g \in AckStage(f, before, dup, s, h, segs)
    PROVE  FlowInv(g)
  <1> DEFINE acked == PktsAcked(f, s)
  <1>1. FlowInv(acked) /\ acked.congState = f.congState /\ acked.ssThresh = f.ssThresh
    BY PktsAckedInv
  <1>2. CASE f.congState = "OPEN"
    <2>1. g = IncreaseWindow(acked, h, segs)
      BY <1>2 DEF AckStage
    <2> HIDE DEF acked
    <2>2. Low(acked)
      BY <1>1, <1>2 DEF FlowInv, Low
    <2> QED
      BY <1>1, <1>2, <2>1, <2>2, OpenInv
  <1>3. CASE f.congState = "DISORDER"
    <2>1. \/ g = f
          \/ g = acked
          \/ g = IncreaseWindow(BackToOpen(f), h, segs)
          \/ g = IncreaseWindow(BackToOpen(acked), h, segs)
      BY <1>3 DEF AckStage
    <2> HIDE DEF acked
    <2>2. Low(f) /\ Low(acked)
      BY <1>1, <1>3 DEF FlowInv, Low
    <2>3. /\ Low(BackToOpen(f)) /\ BackToOpen(f).congState = "OPEN"
          /\ Low(BackToOpen(acked)) /\ BackToOpen(acked).congState = "OPEN"
      BY <2>2, StateSetInv
    <2> QED
      BY <1>1, <2>1, <2>3, OpenInv
  <1>4. CASE f.congState = "CWR"
    <2>1. g \in Prr(acked)
      BY <1>4 DEF AckStage
    <2> HIDE DEF acked
    <2>2. Reduced(acked) /\ acked.ssThresh < Bound
      BY <1>1, <1>4 DEF FlowInv, Reduced
    <2> QED
      BY <1>1, <1>4, <2>1, <2>2, PrrInv
  <1>5. CASE f.congState = "RECOVERY"
    <2> DEFINE out == SetWindow(BackToOpen(acked), f.ssThresh)
    <2>1. g \in Prr(acked) \/ g = IncreaseWindow(out, h, segs)
      BY <1>5 DEF AckStage
    <2> HIDE DEF acked
    <2>2. Reduced(acked) /\ acked.ssThresh < Bound /\ acked \in Flows
      BY <1>1, <1>5 DEF FlowInv, Reduced
    <2>3. Low(out) /\ out.congState = "OPEN"
      BY <1>1, <2>2
         DEF BackToOpen, InState, SetWindow, CongestionStateSet, Low, Flows, CongStates
    <2> HIDE DEF out
    <2>4. g \in Prr(acked) => FlowInv(g)
      BY <1>1, <1>5, <2>2, PrrInv
    <2> QED
      BY <2>1, <2>3, <2>4, OpenInv
  <1>6. CASE f.congState = "LOSS"
    <2>1. g = IncreaseWindow(acked, h, segs) \/ g = IncreaseWindow(BackToOpen(acked), h, segs)
      BY <1>6 DEF AckStage
    <2> HIDE DEF acked
    <2>2. Low(acked)
      BY <1>1, <1>6 DEF FlowInv, Low
    <2>3. Low(BackToOpen(acked)) /\ BackToOpen(acked).congState = "OPEN"
      BY <2>2, StateSetInv
    <2> QED
      BY <1>1, <1>6, <2>1, <2>2, <2>3, OpenInv
  <1> QED
    BY <1>2, <1>3, <1>4, <1>5, <1>6 DEF FlowInv, Flows, CongStates

-----------------------------------------------------------------------------
(* The invariant of the specification.                                      *)

\* The initial window is below the ceiling.
LEMMA InitInv == Init => IInv
  <1> SUFFICES ASSUME Init PROVE IInv
    OBVIOUS
  <1>1. InitialCwnd * SegmentSize \in Nat /\ InitialCwnd * SegmentSize < Bound
    <2>1. InitialCwnd * SegmentSize <= Ceiling * SegmentSize
      BY CeilingFacts, SwiftAssumption, FlowAssumption, MulMono
    <2>2. Bound = Ceiling * SegmentSize + SegmentSize /\ Ceiling * SegmentSize \in Nat
          /\ InitialCwnd * SegmentSize \in Nat
      BY CeilingFacts, SwiftAssumption, FlowAssumption, MulNat, SMT DEF Bound
    <2> QED
      BY <2>1, <2>2, SwiftAssumption
  <1>2. /\ flow.cWnd = InitialCwnd * SegmentSize /\ flow.congState = "OPEN"
        /\ flow \in Flows
    BY <1>1, FlowAssumption DEF Init, Flows, CongStates
  <1> QED
    BY <1>1, <1>2, FlowAssumption DEF Init, IInv, FlowInv

\* Every step keeps the invariant.
LEMMA NextInv == IInv /\ [Next]_vars => IInv'
  <1> SUFFICES ASSUME IInv, [Next]_vars PROVE IInv'
    OBVIOUS
  <1>1. CASE ReceivedAck
    <2>1. PICK s \in Rtts \cup {srtt}, h \in Hops, segs \in 0 .. MaxSegsAcked :
            /\ srtt' = s /\ hops' = h
            /\ \E f1 \in EcnStage(flow) :
               \E dup \in BOOLEAN :
               \E f2 \in IF dup THEN DupStage(f1) ELSE {f1} :
                  flow' \in {f2, PktsAcked(f2, s)}
                            \cup AckStage(f2, f1.congState, dup, s, h, segs)
      BY <1>1 DEF ReceivedAck
    <2>2. PICK f1 \in EcnStage(flow), dup \in BOOLEAN :
            \E f2 \in IF dup THEN DupStage(f1) ELSE {f1} :
               flow' \in {f2, PktsAcked(f2, s)}
                         \cup AckStage(f2, f1.congState, dup, s, h, segs)
      BY <2>1
    <2>3. PICK f2 \in (IF dup THEN DupStage(f1) ELSE {f1}) :
            flow' \in {f2, PktsAcked(f2, s)}
                      \cup AckStage(f2, f1.congState, dup, s, h, segs)
      BY <2>2
    <2>4. s \in 0 .. MaxRtt /\ h \in Nat
      BY FlowAssumption DEF IInv
    <2>5. FlowInv(f1)
      BY EcnInv DEF IInv
    <2>6. FlowInv(f2)
      BY <2>3, <2>5, DupInv
    <2>7. FlowInv(PktsAcked(f2, s))
      BY <2>4, <2>6, PktsAckedInv
    <2>8. FlowInv(flow')
      BY <2>3, <2>4, <2>6, <2>7, AckInv
    <2> QED
      BY <2>1, <2>4, <2>8 DEF IInv, FlowInv
  <1>2. CASE ReTxTimeout
    <2> DEFINE thresh == [flow EXCEPT !.ssThresh = GetSsThresh(flow)]
               counted == [thresh EXCEPT !.retransmitCount = @ + 1]
               lost == CwndEventLoss(thresh)
    <2>1. flow \in Flows /\ Reduced(flow)
      BY DEF IInv, FlowInv, Reduced, Flows, CongStates
    <2>2. GetSsThresh(flow) \in Nat
      BY <2>1, SsThreshLow
    <2>3. thresh \in Flows
      BY <2>1, <2>2 DEF Flows
    <2> HIDE DEF thresh
    <2>4. counted \in Flows
      BY <2>3 DEF Flows
    <2>5. lost = [counted EXCEPT !.cWnd = MinCwnd] \/ lost = CutByMaxMdf(counted)
          \/ lost = counted
      BY DEF CwndEventLoss
    <2> HIDE DEF counted
    <2>6. lost \in Flows
      BY <2>4, <2>5, CutLow, SwiftAssumption DEF Flows, MinCwnd
    <2>7. flow' = [[lost EXCEPT !.congState = "LOSS"] EXCEPT !.cWnd = SegmentSize]
      BY <1>2 DEF ReTxTimeout, CongestionStateSet, InState, SetWindow, thresh
    <2> HIDE DEF lost
    <2>8. flow' \in Flows /\ flow'.congState = "LOSS" /\ flow'.cWnd = SegmentSize
      BY <2>6, <2>7, SwiftAssumption DEF Flows, CongStates
    <2>9. SegmentSize < Bound
      <3>1. 2 * SegmentSize <= (Ceiling + 1) * SegmentSize
        BY CeilingFacts, MulMono, SwiftAssumption, FlowAssumption, SMT
      <3> QED
        BY <3>1, CeilingFacts, SwiftAssumption, SMT DEF Bound
    <2>10. FlowInv(flow')
      BY <2>8, <2>9 DEF FlowInv
    <2> QED
      BY <1>2, <2>10 DEF IInv, ReTxTimeout, FlowInv
  <1>3. CASE SetCongestionControlAlgorithm
    <2>0. 0 \in 0 .. MaxRtt /\ FlowInv(flow)
      BY FlowAssumption DEF IInv
    <2>1. FlowInv(flow')
      BY <1>3, <2>0 DEF SetCongestionControlAlgorithm, InitSwift, FlowInv, Flows
    <2> QED
      BY <1>3, <2>1 DEF IInv, SetCongestionControlAlgorithm, FlowInv
  <1>4. CASE Elapse
    <2>1. PICK d \in Ticks : flow' = [flow EXCEPT !.since = Smaller(MaxRtt, @ + d)]
      BY <1>4 DEF Elapse
    <2>2. flow \in Flows /\ flow.since \in 0 .. MaxRtt
      BY DEF IInv, FlowInv, Flows
    <2>3. Smaller(MaxRtt, flow.since + d) \in 0 .. MaxRtt
      BY <2>2, FlowAssumption DEF Smaller
    <2>4. FlowInv(flow')
      BY <2>1, <2>2, <2>3 DEF IInv, FlowInv, Flows
    <2> QED
      BY <1>4, <2>4 DEF IInv, Elapse, FlowInv
  <1>5. CASE UNCHANGED vars
    BY <1>5 DEF IInv, FlowInv, vars
  <1> QED
    BY <1>1, <1>2, <1>3, <1>4, <1>5 DEF Next

\* The inductive invariant implies the two invariants the runs check.
LEMMA InvImplies == IInv => TypeOK /\ GrowthCeiling
  BY DEF IInv, FlowInv, TypeOK, GrowthCeiling, Bound

\* The controller record keeps its types under every order of ACKs,
\* timeouts, swaps and delays: in particular no window arithmetic of
\* SwiftUpdateCwndOnAck or CutByMaxMdf leaves the naturals.
THEOREM TypeCorrect == Spec => []TypeOK
  BY InitInv, NextInv, InvImplies, PTL DEF Spec

\* Outside of PRR's reign the window stays below Ceiling + 1 segments, for
\* every increment, segment size, delay and path (SwiftUpdateCwndOnAck).
THEOREM WindowBelowCeiling == Spec => []GrowthCeiling
  BY InitInv, NextInv, InvImplies, PTL DEF Spec
=============================================================================
