-------------------------- MODULE TcpSender_proofs --------------------------
(***************************************************************************)
(* Proofs about TcpSender, checked by TLAPS: sender and receiver agree on  *)
(* what was delivered, the retransmission timer is armed while data waits, *)
(* the recovery point is that of the current congestion event, the socket  *)
(* comes to rest clean, no echo cuts the window twice and no recovery      *)
(* sends a segment twice; for transfers of every length and networks that  *)
(* lose, mark and overtake as much as they like.                           *)
(*                                                                         *)
(* The facts about the transmission buffer come from Scoreboard_proofs;    *)
(* its variable and its specification play no part here.                   *)
(***************************************************************************)
EXTENDS TcpSender, Scoreboard_proofs, SequenceTheorems

-----------------------------------------------------------------------------
(* Iteration: SendPendingData is a loop.  The facts are stated over sets,   *)
(* not over predicates, so that the provers can instantiate them.           *)

\* A set of natural numbers that is not empty has a least element.
LEMMA LeastNat ==
    ASSUME NEW T \in SUBSET Nat, T # {}
    PROVE  \E m \in T : \A k \in T : m <= k
  <1> DEFINE R == OpToRel(<, Nat)
  <1>1. IsWellFoundedOn(R, Nat)
    BY NatLessThanWellFounded
  <1>2. PICK m \in T : \A k \in T : ~ (<<k, m>> \in R)
    <2> HIDE DEF R
    <2> QED
      BY <1>1, WFMin, Zenon
  <1>3. ASSUME NEW k \in T PROVE m <= k
    <2>1. <<k, m>> \notin R
      BY <1>2
    <2>2. <<k, m>> \in Nat \X Nat
      OBVIOUS
    <2>3. ~ (k < m)
      BY <2>1, <2>2 DEF OpToRel
    <2> QED
      BY <2>3
  <1> QED
    BY <1>3

\* Induction on the natural numbers.
LEMMA NatInduct ==
    ASSUME NEW S, 0 \in S, \A n \in Nat : n \in S => n + 1 \in S
    PROVE  Nat \subseteq S
  <1> SUFFICES ASSUME NEW n0 \in Nat, n0 \notin S PROVE FALSE
    OBVIOUS
  <1> DEFINE T == {n \in Nat : n \notin S}
  <1>1. PICK m \in T : \A k \in T : m <= k
    BY LeastNat
  <1>2. m # 0
    OBVIOUS
  <1>3. m - 1 \in Nat /\ m - 1 \notin T
    BY <1>1, <1>2
  <1> QED
    BY <1>3

\* g[k] is what k rounds of F make of s, for k up to n.
Iterates(F, s, n, g) ==
    g[0] = s /\ \A k \in 1 .. n : g[k] = F[g[k - 1]]

\* A function on X can be iterated n times from s.
LEMMA IterExists ==
    ASSUME NEW X, NEW F \in [X -> X], NEW s \in X, NEW n \in Nat
    PROVE  \E g \in [0 .. n -> X] : Iterates(F, s, n, g)
  <1> DEFINE S == {m \in Nat : \E g \in [0 .. m -> X] : Iterates(F, s, m, g)}
  <1>1. 0 \in S
    <2> DEFINE g0 == [k \in 0 .. 0 |-> s]
    <2>1. g0 \in [0 .. 0 -> X]
      OBVIOUS
    <2>2. Iterates(F, s, 0, g0)
      BY DEF Iterates
    <2> QED
      BY <2>1, <2>2
  <1>2. ASSUME NEW m \in Nat, m \in S PROVE m + 1 \in S
    <2>1. PICK g \in [0 .. m -> X] : Iterates(F, s, m, g)
      BY <1>2
    <2> DEFINE h == [k \in 0 .. m + 1 |-> IF k <= m THEN g[k] ELSE F[g[m]]]
    <2>2. h \in [0 .. m + 1 -> X]
      OBVIOUS
    <2>3. h[0] = s
      BY <2>1 DEF Iterates
    <2>4. ASSUME NEW k \in 1 .. m + 1 PROVE h[k] = F[h[k - 1]]
      BY <2>1 DEF Iterates
    <2>5. Iterates(F, s, m + 1, h)
      BY <2>3, <2>4 DEF Iterates
    <2> QED
      BY <2>2, <2>5
  <1>3. Nat \subseteq S
    <2> HIDE DEF S
    <2> QED
      BY <1>1, <1>2, NatInduct
  <1> QED
    BY <1>3

\* A loop that starts in X and whose body stays in X ends in X.
LEMMA LoopInvariant ==
    ASSUME NEW X, NEW n \in Nat, NEW f, f[0] \in X,
           \A k \in 1 .. n : f[k - 1] \in X => f[k] \in X
    PROVE  f[n] \in X
  <1> DEFINE S == {k \in Nat : k <= n => f[k] \in X}
  <1>1. 0 \in S
    OBVIOUS
  <1>2. ASSUME NEW k \in Nat, k \in S PROVE k + 1 \in S
    <2> SUFFICES ASSUME k + 1 <= n PROVE f[k + 1] \in X
      OBVIOUS
    <2>1. f[k] \in X /\ k + 1 \in 1 .. n /\ (k + 1) - 1 = k
      BY <1>2
    <2> QED
      BY <2>1
  <1>3. n \in S
    <2> HIDE DEF S
    <2>1. Nat \subseteq S
      BY <1>1, <1>2, NatInduct
    <2> QED
      BY <2>1
  <1> QED
    BY <1>3

-----------------------------------------------------------------------------
(* The types.                                                               *)

CongStates == {"OPEN", "DISORDER", "CWR", "RECOVERY", "LOSS"}

EcnStates == {"DISABLED", "IDLE", "ECE_RCVD", "CWR_SENT"}

Assertions ==
    {"PRR divides by an empty flight", "OPEN to DISORDER with one dupack",
     "dupack count in DISORDER", "in flight after an RTO",
     "more than one segment after an RTO"}

Packets == [seq: Nat, cwr: BOOLEAN, ce: BOOLEAN, ect: BOOLEAN]

Acks == [ack: Nat, blocks: SUBSET Nat, ece: BOOLEAN]

Senders ==
    [cWnd: Nat, rtt: Nat, since: Nat, retransmitCount: Nat, ssThresh: Nat,
     congState: CongStates, buf: BufferRecords,
     dupAckCount: Nat, recover: Nat, recoverActive: BOOLEAN,
     isFirstPartialAck: BOOLEAN, isRetransDataAcked: BOOLEAN,
     prrDelivered: Nat, prrOut: Nat, prrFlight: Nat,
     dataRetrCount: Nat, retxEvent: BOOLEAN,
     sendPendingDataEvent: BOOLEAN, closed: BOOLEAN,
     ecnState: EcnStates, ecnEchoSeq: Nat, ecnCWRSeq: Nat,
     out: Seq(Packets), failed: SUBSET Assertions]

\* The fields the properties are about: the hooks of Swift and PRR, the
\* assertions and the ECN bookkeeping leave them alone.
SameControl(s, t) ==
    /\ t.congState = s.congState /\ t.buf = s.buf /\ t.dupAckCount = s.dupAckCount
    /\ t.recover = s.recover /\ t.recoverActive = s.recoverActive
    /\ t.retxEvent = s.retxEvent
    /\ t.sendPendingDataEvent = s.sendPendingDataEvent
    /\ t.closed = s.closed /\ t.out = s.out

Keeps(s, t) == t \in Senders /\ SameControl(s, t)

LEMMA KeepsTrans ==
    ASSUME NEW s, NEW t, NEW u, Keeps(s, t), Keeps(t, u)
    PROVE  Keeps(s, u)
  BY DEF Keeps, SameControl

\* The constants in the form the provers want.
LEMMA Sizes ==
    /\ SegmentSize \in Nat /\ SegmentSize > 0 /\ AI \in Nat
    /\ 100 - MaxMdf \in Nat /\ BaseTarget \in Nat /\ HopCount \in Nat
    /\ N \in Nat /\ N > 0 /\ RetxThresh \in Nat /\ RetxThresh > 0
    /\ DataRetries \in Nat /\ InitialCwnd \in Nat /\ InitialCwnd > 0
  BY SwiftAssumption, SenderAssumption

-----------------------------------------------------------------------------
(* The window arithmetic stays in the naturals.                             *)

LEMMA DivNat ==
    ASSUME NEW a \in Nat, NEW b \in Nat, b > 0
    PROVE  a \div b \in Nat
  BY SMT

LEMMA MulNat ==
    ASSUME NEW a \in Nat, NEW b \in Nat
    PROVE  a * b \in Nat
  BY SMT

\* The target delay, for windows in the naturals.
LEMMA TargetType ==
    ASSUME NEW c, c.cWnd \in Nat
    PROVE  /\ GetCwndInSegments(c) \in Nat
           /\ ComputeTargetDelay(c, HopCount) \in Int
  <1> DEFINE n == GetCwndInSegments(c)
             S == {k \in 1 .. AlphaThousandths : k * k * n <= 1795091}
             fs == FlowScaling(n)
  <1>1. n \in Nat
    BY Sizes, DivNat DEF GetCwndInSegments
  <1>2. Cardinality(S) \in Nat
    <2> AlphaThousandths \in Int
      BY SMT DEF AlphaThousandths
    <2>1. \E lo, hi \in Int : S \subseteq lo .. hi
      <3> WITNESS 1 \in Int, AlphaThousandths \in Int
      <3> QED
        BY SMT
    <2> HIDE DEF S
    <2> QED
      BY <2>1, BoundedFinite, Zenon
  <1>3. AlphaOverSqrt(n) \in Nat
    BY <1>2, SMT DEF AlphaOverSqrt
  <1> HIDE DEF n
  <1>4. fs \in Int
    BY <1>3, SMT DEF FlowScaling, Smaller
  <1>5. ComputeTargetDelay(c, HopCount) = (BaseTarget * (1000 + fs)) \div 100 + HopCount * 825
    BY DEF ComputeTargetDelay, n
  <1> HIDE DEF fs
  <1>6. BaseTarget * (1000 + fs) \in Int
    BY <1>4, Sizes, SMT
  <1>7. (BaseTarget * (1000 + fs)) \div 100 \in Int
    BY <1>6, SMT
  <1> QED
    BY <1>1, <1>5, <1>7, Sizes, SMT DEF n

LEMMA LargerNat ==
    ASSUME NEW a \in Int, NEW b \in Nat
    PROVE  Larger(a, b) \in Nat /\ Larger(b, a) \in Nat
  BY DEF Larger

\* SwiftUpdateCwndOnAck.
LEMMA IncreaseWindowKeeps ==
    ASSUME NEW s \in Senders, NEW k \in Nat
    PROVE  Keeps(s, IncreaseWindow(s, HopCount, k))
  <1> DEFINE n == GetCwndInSegments(s)
             target == ComputeTargetDelay(s, HopCount)
             up == AdditiveIncrease(n, k)
             down == MultiplicativeDecrease(n, s.rtt, target)
  <1>0. s.cWnd \in Nat /\ s.rtt \in Nat /\ s.since \in Nat
    BY DEF Senders
  <1>1. n \in Nat /\ target \in Int
    BY <1>0, TargetType
  <1> HIDE DEF n, target
  <1>2. n * SegmentSize \in Nat
    BY <1>1, Sizes, MulNat
  <1>3. up \in Nat
    <2>1. AI * k \in Nat
      BY Sizes, MulNat
    <2>2. AI * k * SegmentSize \in Nat
      BY <2>1, Sizes, MulNat
    <2>3. n >= 1 => (AI * k * SegmentSize) \div n \in Nat
      BY <1>1, <2>2, DivNat
    <2> QED
      BY <1>1, <1>2, <2>2, <2>3 DEF AdditiveIncrease
  <1>4. s.rtt # 0 => down \in Nat
    <2> SUFFICES ASSUME s.rtt # 0 PROVE down \in Nat
      OBVIOUS
    <2> DEFINE x == n * SegmentSize
               y == x * (6 * s.rtt + 4 * target)
               z == x * (100 - MaxMdf)
    <2>1. x \in Nat
      BY <1>2
    <2> HIDE DEF x
    <2>2. y \in Int
      BY <1>0, <1>1, <2>1, SMT
    <2>3. z \in Nat
      BY <2>1, Sizes, MulNat
    <2> HIDE DEF y, z
    <2>4. 10 * s.rtt \in Nat /\ 10 * s.rtt > 0
      BY <1>0
    <2>5. y \div (10 * s.rtt) \in Int
      BY <2>2, <2>4, SMT
    <2>6. z \div 100 \in Nat
      BY <2>3, DivNat
    <2>7. Larger(y \div (10 * s.rtt), z \div 100) \in Nat
      BY <2>5, <2>6, LargerNat
    <2> QED
      BY <2>7 DEF MultiplicativeDecrease, y, z, x
  <1> HIDE DEF up, down
  <1> DEFINE acked == [s EXCEPT !.retransmitCount = 0]
  <1>5. \/ IncreaseWindow(s, HopCount, k) = [acked EXCEPT !.cWnd = up]
        \/ s.rtt # 0 /\ IncreaseWindow(s, HopCount, k) = [acked EXCEPT !.cWnd = down, !.since = 0]
        \/ IncreaseWindow(s, HopCount, k) = [acked EXCEPT !.cWnd = n * SegmentSize]
    BY DEF IncreaseWindow, SwiftUpdateCwndOnAck, CanDecrease, n, target, up, down
  <1>6. Keeps(s, [acked EXCEPT !.cWnd = up])
    BY <1>3 DEF Keeps, SameControl, Senders
  <1>7. s.rtt # 0 => Keeps(s, [acked EXCEPT !.cWnd = down, !.since = 0])
    BY <1>4 DEF Keeps, SameControl, Senders
  <1>8. Keeps(s, [acked EXCEPT !.cWnd = n * SegmentSize])
    BY <1>2 DEF Keeps, SameControl, Senders
  <1> QED
    BY <1>5, <1>6, <1>7, <1>8

\* The other hooks of Swift.
LEMMA PktsAckedKeeps ==
    ASSUME NEW s \in Senders, NEW t \in Nat
    PROVE  Keeps(s, PktsAcked(s, t))
  BY DEF PktsAcked, Keeps, SameControl, Senders

LEMMA SsThreshType ==
    ASSUME NEW s \in Senders
    PROVE  GetSsThresh(s) \in Nat
  <1>0. s.cWnd \in Nat
    BY DEF Senders
  <1>1. s.cWnd \div 2 \in Nat /\ 2 * SegmentSize \in Nat
    BY <1>0, Sizes, DivNat
  <1> QED
    BY <1>1, LargerNat DEF GetSsThresh

LEMMA CutKeeps ==
    ASSUME NEW s \in Senders
    PROVE  Keeps(s, CutByMaxMdf(s))
  <1> DEFINE x == (GetCwndInSegments(s) * (100 - MaxMdf)) \div 100
             w == Larger(1, x) * SegmentSize
  <1>1. GetCwndInSegments(s) \in Nat
    BY TargetType DEF Senders
  <1>2. GetCwndInSegments(s) * (100 - MaxMdf) \in Nat
    BY <1>1, Sizes, MulNat
  <1>3. x \in Nat
    BY <1>2, DivNat
  <1> HIDE DEF x
  <1>4. w \in Nat
    <2>1. Larger(1, x) \in Nat
      BY <1>3 DEF Larger
    <2> QED
      BY <2>1, MulNat, Sizes
  <1>5. CutByMaxMdf(s) = [s EXCEPT !.cWnd = w, !.since = 0]
    BY DEF CutByMaxMdf, x
  <1> HIDE DEF w
  <1>6. Keeps(s, [s EXCEPT !.cWnd = w, !.since = 0])
    BY <1>4 DEF Keeps, SameControl, Senders
  <1> QED
    BY <1>5, <1>6

LEMMA LossEventKeeps ==
    ASSUME NEW s \in Senders
    PROVE  Keeps(s, CwndEventLoss(s))
  <1> DEFINE k == s.retransmitCount + 1
             c == [s EXCEPT !.retransmitCount = k]
  <1>0. k \in Nat
    BY DEF Senders
  <1> HIDE DEF k
  <1>1. Keeps(s, c)
    BY <1>0 DEF Keeps, SameControl, Senders
  <1>2. \/ CwndEventLoss(s) = [c EXCEPT !.cWnd = MinCwnd]
        \/ CwndEventLoss(s) = CutByMaxMdf(c)
        \/ CwndEventLoss(s) = c
    BY DEF CwndEventLoss, k
  <1> HIDE DEF c
  <1>3. c \in Senders
    BY <1>1 DEF Keeps
  <1>4. Keeps(c, [c EXCEPT !.cWnd = MinCwnd])
    BY <1>3, Sizes DEF Keeps, SameControl, Senders, MinCwnd
  <1>5. Keeps(c, CutByMaxMdf(c))
    BY <1>3, CutKeeps
  <1>6. CASE CwndEventLoss(s) = [c EXCEPT !.cWnd = MinCwnd]
    BY <1>1, <1>4, <1>6, KeepsTrans
  <1>7. CASE CwndEventLoss(s) = CutByMaxMdf(c)
    BY <1>1, <1>5, <1>7, KeepsTrans
  <1> QED
    BY <1>1, <1>2, <1>6, <1>7

LEMMA StateSetKeeps ==
    ASSUME NEW s \in Senders, NEW st
    PROVE  Keeps(s, CongestionStateSet(s, st))
  <1> DEFINE c == [s EXCEPT !.retransmitCount = 0]
  <1>1. Keeps(s, c)
    BY DEF Keeps, SameControl, Senders
  <1>2. Keeps(s, s)
    BY DEF Keeps, SameControl
  <1>3. \/ CongestionStateSet(s, st) = c
        \/ CongestionStateSet(s, st) = CutByMaxMdf(c)
        \/ CongestionStateSet(s, st) = s
    <2>1. CASE st = "OPEN"
      BY <2>1 DEF CongestionStateSet
    <2>2. CASE st = "RECOVERY"
      BY <2>2 DEF CongestionStateSet
    <2>3. CASE st # "OPEN" /\ st # "RECOVERY"
      BY <2>3 DEF CongestionStateSet
    <2> QED
      BY <2>1, <2>2, <2>3
  <1> HIDE DEF c
  <1>4. c \in Senders
    BY <1>1 DEF Keeps
  <1>5. Keeps(c, CutByMaxMdf(c))
    BY <1>4, CutKeeps
  <1>6. Keeps(s, CutByMaxMdf(c))
    BY <1>1, <1>5, KeepsTrans
  <1> QED
    BY <1>1, <1>2, <1>3, <1>6

-----------------------------------------------------------------------------
(* The assertions and PRR.                                                  *)

LEMMA FailedKeeps ==
    ASSUME NEW s \in Senders, NEW name \in Assertions
    PROVE  Keeps(s, [s EXCEPT !.failed = @ \cup {name}])
  <1> DEFINE F == s.failed \cup {name}
  <1>1. F \in SUBSET Assertions
    BY DEF Senders
  <1> HIDE DEF F
  <1>2. Keeps(s, [s EXCEPT !.failed = F])
    BY <1>1 DEF Keeps, SameControl, Senders
  <1> QED
    BY <1>2 DEF F

LEMMA CheckKeeps ==
    ASSUME NEW s \in Senders, NEW cond, NEW name \in Assertions
    PROVE  Keeps(s, Check(s, cond, name))
  <1>1. Keeps(s, s)
    BY DEF Keeps, SameControl
  <1>2. Keeps(s, [s EXCEPT !.failed = @ \cup {name}])
    BY FailedKeeps
  <1>3. CASE cond
    BY <1>1, <1>3 DEF Check
  <1>4. CASE ~ cond
    BY <1>2, <1>4 DEF Check
  <1> QED
    BY <1>3, <1>4

\* What DoRecovery adds to the flight is an integer that is not negative.
LEMMA DoRecoveryKeeps ==
    ASSUME NEW s \in Senders, NEW d \in Nat, NEW dup \in BOOLEAN, NEW f \in Nat,
           NEW safe \in BOOLEAN
    PROVE  Keeps(s, DoRecovery(s, d, dup, f, safe))
  <1> DEFINE delivered == d + (IF dup /\ s.prrDelivered < s.prrFlight
                               THEN SegmentSize ELSE 0)
             p == s.prrDelivered + delivered
             t == [s EXCEPT !.prrDelivered = p]
             pc == ProportionalCount(t)
             rb == ReductionBoundCount(t, delivered, f, safe)
             fc == ForcedCount(s)
  <1>0. /\ s.prrDelivered \in Nat /\ s.prrFlight \in Nat /\ s.prrOut \in Nat
        /\ s.ssThresh \in Nat
    BY DEF Senders
  <1>1. delivered \in Nat
    BY <1>0, Sizes
  <1> HIDE DEF delivered
  <1>p. p \in Nat
    BY <1>0, <1>1
  <1> HIDE DEF p
  <1>2. /\ Keeps(s, t)
        /\ t.prrDelivered = p /\ t.prrFlight = s.prrFlight
        /\ t.prrOut = s.prrOut /\ t.ssThresh = s.ssThresh
    BY <1>p DEF Keeps, SameControl, Senders
  <1> HIDE DEF t
  <1>3. s.prrFlight > 0 => pc \in Int
    <2>1. t.prrDelivered * t.ssThresh \in Nat
      BY <1>0, <1>p, <1>2, MulNat
    <2> DEFINE y == t.prrDelivered * t.ssThresh
    <2> HIDE DEF y
    <2>2. y \in Nat
      BY <2>1 DEF y
    <2>3. s.prrFlight > 0 => (y + s.prrFlight - 1) \div s.prrFlight \in Int
      BY <1>0, <2>2, SMT
    <2>4. pc = (y + s.prrFlight - 1) \div s.prrFlight - s.prrOut
      BY <1>2 DEF ProportionalCount, CeilDiv, y
    <2> QED
      BY <1>0, <2>3, <2>4
  <1>4. rb \in Int
    BY <1>0, <1>1, <1>p, <1>2, Sizes DEF ReductionBoundCount, Larger, Smaller
  <1>5. fc \in Nat
    BY Sizes DEF ForcedCount
  <1> HIDE DEF pc, rb, fc
  <1>6. ASSUME NEW c \in Int
        PROVE  Keeps(s, [t EXCEPT !.cWnd = f + Larger(c, fc)])
    <2>1. f + Larger(c, fc) \in Nat
      BY <1>5, LargerNat
    <2> DEFINE w == f + Larger(c, fc)
    <2> HIDE DEF w
    <2>2. w \in Nat
      BY <2>1 DEF w
    <2>3. t \in Senders
      BY <1>2 DEF Keeps
    <2>4. Keeps(t, [t EXCEPT !.cWnd = w])
      BY <2>2, <2>3 DEF Keeps, SameControl, Senders
    <2> QED
      BY <1>2, <2>4, KeepsTrans DEF w
  <1>7. Keeps(s, s)
    BY DEF Keeps, SameControl
  <1>8. CASE delivered = 0
    <2>1. ~ (delivered > 0)
      BY <1>8
    <2>2. DoRecovery(s, d, dup, f, safe) = s
      BY <1>8, <2>1 DEF DoRecovery, delivered
    <2> QED
      BY <1>7, <2>2
  <1>9. CASE delivered > 0 /\ f > s.ssThresh /\ s.prrFlight = 0
    <2> DEFINE name == "PRR divides by an empty flight"
    <2>1. DoRecovery(s, d, dup, f, safe) = [t EXCEPT !.failed = @ \cup {name}]
      <3>1. /\ delivered # 0 /\ ~ (s.prrFlight > 0) /\ ~ (f <= s.ssThresh)
        BY <1>0, <1>1, <1>9
      <3> QED
        BY <1>9, <3>1 DEF DoRecovery, Check, delivered, t, p
    <2>2. t \in Senders
      BY <1>2 DEF Keeps
    <2>3. name \in Assertions
      BY DEF Assertions
    <2> HIDE DEF name
    <2>4. Keeps(t, [t EXCEPT !.failed = @ \cup {name}])
      BY <2>2, <2>3, FailedKeeps
    <2> QED
      BY <1>2, <2>1, <2>4, KeepsTrans
  <1>10. CASE delivered > 0 /\ f > s.ssThresh /\ s.prrFlight > 0
    <2>1. DoRecovery(s, d, dup, f, safe) = [t EXCEPT !.cWnd = f + Larger(pc, fc)]
      <3>1. /\ delivered # 0 /\ ~ (s.prrFlight = 0) /\ ~ (f <= s.ssThresh)
        BY <1>0, <1>1, <1>10
      <3> QED
        BY <1>10, <3>1 DEF DoRecovery, delivered, t, p, pc, fc
    <2> QED
      BY <1>3, <1>6, <1>10, <2>1
  <1>11. CASE delivered > 0 /\ f <= s.ssThresh
    <2>1. DoRecovery(s, d, dup, f, safe) = [t EXCEPT !.cWnd = f + Larger(rb, fc)]
      <3>1. /\ delivered # 0 /\ ~ (f > s.ssThresh)
        BY <1>0, <1>1, <1>11
      <3> QED
        BY <1>11, <3>1 DEF DoRecovery, delivered, t, p, rb, fc
    <2> QED
      BY <1>4, <1>6, <2>1
  <1> QED
    BY <1>0, <1>1, <1>8, <1>9, <1>10, <1>11

LEMMA PrrEnterKeeps ==
    ASSUME NEW s \in Senders, NEW d \in Nat, NEW f \in Nat, NEW safe \in BOOLEAN
    PROVE  Keeps(s, PrrEnterRecovery(s, d, f, safe))
  <1> DEFINE t == [s EXCEPT !.prrOut = 0, !.prrDelivered = 0, !.prrFlight = f]
  <1>1. Keeps(s, t)
    BY DEF Keeps, SameControl, Senders
  <1>2. PrrEnterRecovery(s, d, f, safe) = DoRecovery(t, d, TRUE, f, safe)
    BY DEF PrrEnterRecovery
  <1> HIDE DEF t
  <1>3. t \in Senders
    BY <1>1 DEF Keeps
  <1>4. Keeps(t, DoRecovery(t, d, TRUE, f, safe))
    BY <1>3, DoRecoveryKeeps
  <1> QED
    BY <1>1, <1>2, <1>4, KeepsTrans

-----------------------------------------------------------------------------
(* Sending.                                                                 *)

\* The fields of a buffer that satisfies the invariant.
LEMMA BufFacts ==
    ASSUME NEW b, BufInv(b)
    PROVE  /\ b \in BufferRecords
           /\ b.una \in Nat /\ b.una >= 1 /\ b.nxt \in Nat /\ b.end \in Nat
           /\ b.una <= b.nxt /\ b.nxt <= b.end
           /\ b.sacked \subseteq b.una .. b.nxt - 1
           /\ b.retrans \subseteq b.una .. b.nxt - 1
           /\ b.una \notin b.sacked
  <1>1. b \in BufferRecords /\ BufParts(b)
    BY InvParts
  <1>2. PartsOK(b.una, b.nxt, b.end, b.sacked, b.lost, b.retrans, b.highestSack)
    BY <1>1 DEF BufParts
  <1> QED
    BY <1>1, <1>2 DEF PartsOK

\* The pipe is a natural number of bytes.
LEMMA FlightType ==
    ASSUME NEW s, BufInv(s.buf)
    PROVE  BytesInFlight(s.buf) \in Nat /\ InFlight(s) \in Nat
  <1> DEFINE b == s.buf
  <1>1. /\ b.sackedOut \in Nat /\ b.lostOut \in Nat /\ b.retransOut \in Nat
        /\ b.una \in Nat /\ b.nxt \in Nat
    BY BufFacts DEF BufferRecords
  <1>2. b.sackedOut + b.lostOut <= b.nxt - b.una
    BY PipeSound DEF NoUnderflow, SentSize
  <1>3. BytesInFlight(b) \in Nat
    BY <1>1, <1>2 DEF BytesInFlight, SentSize
  <1> QED
    BY <1>3, Sizes, MulNat DEF InFlight

\* The least element of a set of naturals.
LEMMA MinOfNats ==
    ASSUME NEW S \in SUBSET Nat, S # {}
    PROVE  Min(S) \in S /\ \A k \in S : Min(S) <= k
  <1>1. PICK m \in S : \A k \in S : m <= k
    BY LeastNat
  <1> QED
    BY <1>1, Zenon DEF Min

\* What NextSeg returns is a sent segment neither retransmitted nor SACKed,
\* or the first unsent one.
Picked(b, seq) ==
    \/ seq \in SentList(b) /\ seq \notin b.retrans \cup b.sacked
    \/ seq = b.nxt /\ b.nxt < b.end

LEMMA NextSegPicks ==
    ASSUME NEW b, BufInv(b), NEW rWnd, NEW rec,
           NextSeg(b, rWnd, rec) # NoSegment
    PROVE  Picked(b, NextSeg(b, rWnd, rec))
  <1> DEFINE eligible == {s \in SentList(b) :
                            /\ s \notin b.retrans \cup b.sacked
                            /\ b.highestSack # NoSack => s < b.highestSack}
             first(S) == IF S = {} THEN NoSegment ELSE Min(S)
  <1>1. eligible \subseteq Nat /\ eligible \cap b.lost \subseteq Nat
    BY BufFacts, SMT DEF SentList
  <1>2. \A e \in eligible : Picked(b, e)
    BY DEF Picked
  <1>3. /\ NextSeg(b, rWnd, rec) =
           IF eligible \cap b.lost # {} THEN first(eligible \cap b.lost)
           ELSE IF b.nxt < b.end THEN (IF SentSize(b) < rWnd THEN b.nxt ELSE NoSegment)
           ELSE IF rec THEN first(eligible)
           ELSE NoSegment
    BY Zenon DEF NextSeg
  <1> HIDE DEF eligible
  <1>4. CASE eligible \cap b.lost # {}
    <2>1. Min(eligible \cap b.lost) \in eligible \cap b.lost
      BY <1>1, <1>4, MinOfNats
    <2>2. NextSeg(b, rWnd, rec) = Min(eligible \cap b.lost)
      BY <1>3, <1>4
    <2> QED
      BY <1>2, <2>1, <2>2
  <1>5. CASE eligible \cap b.lost = {} /\ b.nxt < b.end
    BY <1>3, <1>5 DEF Picked
  <1>6. CASE eligible \cap b.lost = {} /\ ~ (b.nxt < b.end)
    <2>1. NextSeg(b, rWnd, rec) = IF rec THEN first(eligible) ELSE NoSegment
      BY <1>3, <1>6
    <2>2. rec /\ eligible # {}
      BY <2>1
    <2>3. Min(eligible) \in eligible
      BY <1>1, <2>2, MinOfNats
    <2>4. NextSeg(b, rWnd, rec) = Min(eligible)
      BY <2>1, <2>2
    <2> QED
      BY <1>2, <2>3, <2>4
  <1> QED
    BY <1>4, <1>5, <1>6

\* With nothing to send NextSeg returns nothing.
LEMMA NextSegEmpty ==
    ASSUME NEW b, BufInv(b), Size(b) = 0, NEW rWnd, NEW rec
    PROVE  NextSeg(b, rWnd, rec) = NoSegment
  <1>1. b.una = b.nxt /\ b.nxt = b.end
    BY BufFacts DEF Size
  <1>2. SentList(b) = {}
    BY <1>1, BufFacts DEF SentList
  <1>3. NextSeg(b, rWnd, rec) # NoSegment => Picked(b, NextSeg(b, rWnd, rec))
    BY NextSegPicks
  <1>4. ~ Picked(b, NextSeg(b, rWnd, rec))
    BY <1>1, <1>2, BufFacts DEF Picked
  <1> QED
    BY <1>3, <1>4

\* t is s after sending some segments.
SentFrom(s, t) ==
    /\ t \in Senders /\ BufInv(t.buf)
    /\ t.buf.una = s.buf.una /\ t.buf.end = s.buf.end /\ t.buf.sacked = s.buf.sacked
    /\ s.buf.retrans \subseteq t.buf.retrans /\ s.buf.nxt <= t.buf.nxt
    /\ t.congState = s.congState /\ t.dupAckCount = s.dupAckCount
    /\ t.recover = s.recover /\ t.recoverActive = s.recoverActive
    /\ t.sendPendingDataEvent = s.sendPendingDataEvent /\ t.closed = s.closed
    /\ t.cWnd = s.cWnd
    /\ s.retxEvent => t.retxEvent

LEMMA SentRefl ==
    ASSUME NEW s \in Senders, BufInv(s.buf)
    PROVE  SentFrom(s, s)
  BY BufFacts DEF SentFrom

LEMMA SentTrans ==
    ASSUME NEW s \in Senders, NEW t, NEW u, BufInv(s.buf), SentFrom(s, t), SentFrom(t, u)
    PROVE  SentFrom(s, u)
  <1>1. s.buf.nxt \in Nat /\ t.buf.nxt \in Nat /\ u.buf.nxt \in Nat
    BY BufFacts DEF SentFrom
  <1> QED
    BY <1>1 DEF SentFrom

\* The segments a handler has put on the wire are in the sent list, and none
\* of them is in F.
OutOK(s, F) ==
    \A i \in 1 .. Len(s.out) :
        s.out[i].seq \in 1 .. s.buf.nxt - 1 /\ s.out[i].seq \notin F

\* The segments of F not yet acknowledged were sent again or are SACKed.
Covers(b, F) == \A k \in F : k >= b.una => k \in b.retrans \cup b.sacked

\* SendDataPacket of a segment that is not in F.
LEMMA SendDataPacketSends ==
    ASSUME NEW s \in Senders, BufInv(s.buf), NEW F, OutOK(s, F),
           NEW seq, seq \notin F,
           \/ seq \in SentList(s.buf)
           \/ seq = s.buf.nxt /\ s.buf.nxt < s.buf.end
    PROVE  /\ SentFrom(s, SendDataPacket(s, seq))
           /\ SendDataPacket(s, seq).retxEvent = TRUE
           /\ OutOK(SendDataPacket(s, seq), F)
  <1> DEFINE copied == CopyFromSequence(s.buf, seq)
             again  == seq \in copied.retrans
             cwr    == s.ecnState = "ECE_RCVD" /\ s.ecnEchoSeq > s.ecnCWRSeq /\ ~ again
             packet == [seq |-> seq, cwr |-> cwr, ce |-> FALSE,
                        ect |-> ~ again /\ s.ecnState # "DISABLED"]
             out == Append(s.out, packet)
             es == IF cwr THEN "CWR_SENT" ELSE s.ecnState
             cs == IF cwr THEN seq ELSE s.ecnCWRSeq
             t == [s EXCEPT !.buf = copied, !.out = out, !.ecnState = es,
                            !.ecnCWRSeq = cs, !.retxEvent = TRUE]
             po == s.prrOut + SegmentSize
             u == [t EXCEPT !.prrOut = po]
  <1>1. s.buf \in BufferRecords /\ s.buf.una \in Nat /\ s.buf.una >= 1 /\ s.buf.nxt \in Nat
    BY BufFacts
  <1>2. seq \in Nat /\ seq >= 1 /\ seq <= s.buf.nxt
    <2>1. CASE seq \in SentList(s.buf)
      BY <1>1, <2>1 DEF SentList
    <2>2. CASE seq = s.buf.nxt
      <3>1. s.buf.una <= s.buf.nxt
        BY BufFacts
      <3> QED
        BY <1>1, <2>2, <3>1
    <2> QED
      BY <2>1, <2>2
  <1>3. BufInv(copied)
    BY CopyNewInv, CopyOldInv
  <1>4. /\ copied.una = s.buf.una /\ copied.end = s.buf.end
        /\ copied.nxt = (IF seq < s.buf.nxt THEN s.buf.nxt ELSE s.buf.nxt + 1)
        /\ copied.sacked = s.buf.sacked
        /\ s.buf.retrans \subseteq copied.retrans
    <2>0. copied = CopyFromSequence(s.buf, seq)
      OBVIOUS
    <2> HIDE DEF copied
    <2>1. /\ copied.una = s.buf.una /\ copied.end = s.buf.end
          /\ copied.nxt = (IF seq < s.buf.nxt THEN s.buf.nxt ELSE s.buf.nxt + 1)
          /\ copied.sacked = s.buf.sacked /\ copied.lost = s.buf.lost
          /\ copied.retrans = (IF seq < s.buf.nxt THEN s.buf.retrans \cup {seq}
                                                 ELSE s.buf.retrans)
      BY <1>1, <2>0, CopyFrame
    <2> QED
      BY <2>1
  <1>5. copied \in BufferRecords
    BY <1>3, BufFacts
  <1> HIDE DEF copied
  <1>6. again \in BOOLEAN /\ cwr \in BOOLEAN
    BY DEF again, cwr
  <1> HIDE DEF again
  <1>7. es \in EcnStates /\ cs \in Nat
    BY <1>2 DEF EcnStates, Senders
  <1> HIDE DEF cwr
  <1>8. packet \in Packets /\ packet.seq = seq
    BY <1>2, <1>6 DEF Packets
  <1> HIDE DEF packet, es, cs
  <1>9. /\ out \in Seq(Packets) /\ Len(out) = Len(s.out) + 1
        /\ \A i \in 1 .. Len(s.out) : out[i] = s.out[i]
        /\ out[Len(s.out) + 1] = packet
    BY <1>8 DEF Senders
  <1>10. po \in Nat
    BY Sizes DEF Senders
  <1> HIDE DEF out, po
  <1>11. /\ t \in Senders /\ t.buf = copied /\ t.out = out /\ t.retxEvent = TRUE
         /\ t.congState = s.congState /\ t.dupAckCount = s.dupAckCount
         /\ t.recover = s.recover /\ t.recoverActive = s.recoverActive
         /\ t.sendPendingDataEvent = s.sendPendingDataEvent /\ t.closed = s.closed
         /\ t.cWnd = s.cWnd /\ t.prrOut = s.prrOut
    BY <1>5, <1>7, <1>9 DEF Senders
  <1> HIDE DEF t
  <1>12. Keeps(t, u) /\ u.cWnd = t.cWnd
    BY <1>10, <1>11 DEF Keeps, SameControl, Senders
  <1>13. \/ SendDataPacket(s, seq) = t
         \/ SendDataPacket(s, seq) = u
    <2>1. CASE s.congState \in {"RECOVERY", "CWR"}
      <3>1. SendDataPacket(s, seq) = UpdateBytesSent(t, SegmentSize)
        BY <2>1, Zenon DEF SendDataPacket, t, out, es, cs, packet, cwr, again, copied
      <3>2. UpdateBytesSent(t, SegmentSize) = u
        BY <1>11, Zenon DEF UpdateBytesSent, po
      <3> QED
        BY <3>1, <3>2
    <2>2. CASE s.congState \notin {"RECOVERY", "CWR"}
      BY <2>2, Zenon DEF SendDataPacket, t, out, es, cs, packet, cwr, again, copied
    <2> QED
      BY <2>1, <2>2
  <1> HIDE DEF u
  <1> DEFINE r == SendDataPacket(s, seq)
  <1>14. /\ r \in Senders /\ r.buf = copied /\ r.out = out /\ r.retxEvent = TRUE
         /\ r.congState = s.congState /\ r.dupAckCount = s.dupAckCount
         /\ r.recover = s.recover /\ r.recoverActive = s.recoverActive
         /\ r.sendPendingDataEvent = s.sendPendingDataEvent /\ r.closed = s.closed
         /\ r.cWnd = s.cWnd
    BY <1>11, <1>12, <1>13 DEF Keeps, SameControl
  <1> HIDE DEF r
  <1>15. SentFrom(s, r)
    BY <1>1, <1>3, <1>4, <1>14 DEF SentFrom
  <1>16. OutOK(r, F)
    <2> SUFFICES ASSUME NEW i \in 1 .. Len(out)
                 PROVE  out[i].seq \in 1 .. copied.nxt - 1 /\ out[i].seq \notin F
      BY <1>14 DEF OutOK
    <2>0. Len(s.out) \in Nat
      BY DEF Senders
    <2>1. CASE i \in 1 .. Len(s.out)
      <3>1. s.out[i].seq \in 1 .. s.buf.nxt - 1 /\ s.out[i].seq \notin F
        BY <2>1 DEF OutOK
      <3> QED
        BY <1>1, <1>4, <1>9, <2>1, <3>1
    <2>2. CASE i = Len(s.out) + 1
      BY <1>1, <1>2, <1>4, <1>8, <1>9, <2>2
    <2> QED
      BY <1>9, <2>0, <2>1, <2>2
  <1> QED
    BY <1>14, <1>15, <1>16 DEF r

\* One turn of the loop of SendPendingData.
Round(t) ==
    IF NextToSend(t) = NoSegment THEN t ELSE SendDataPacket(t, NextToSend(t))

\* What a turn preserves, the loop preserves; if the window has room for one
\* turn, from the first turn on.
LEMMA LoopPreserves ==
    ASSUME NEW X, NEW s \in X, s.cWnd \in Nat, \A t \in X : Round(t) \in X
    PROVE  /\ SendPendingData(s) \in X
           /\ \A Y : /\ Round(s) \in Y /\ (\A t \in Y : Round(t) \in Y)
                     /\ s.cWnd >= SegmentSize
                     => SendPendingData(s) \in Y
  <1> DEFINE n       == s.cWnd \div SegmentSize
             Body(g) == [k \in 0 .. n |-> IF k = 0 THEN s ELSE Round(g[k - 1])]
             after   == CHOOSE g : g = Body(g)
             F       == [t \in X |-> Round(t)]
  <1>1. n \in Nat
    BY Sizes, DivNat
  <1>1a. s.cWnd >= SegmentSize => n >= 1
    BY Sizes, SMT
  <1>5. SendPendingData(s) = after[n]
    BY DEF SendPendingData, Round
  <1> HIDE DEF n
  <1>2. F \in [X -> X]
    OBVIOUS
  <1>3. \E g : g = Body(g)
    <2> HIDE DEF F
    <2>1. PICK g \in [0 .. n -> X] : Iterates(F, s, n, g)
      BY <1>1, <1>2, IterExists
    <2>2. ASSUME NEW k \in 0 .. n PROVE g[k] = Body(g)[k]
      <3>1. CASE k = 0
        BY <2>1, <3>1 DEF Iterates
      <3>2. CASE k # 0
        <4>1. k \in 1 .. n /\ k - 1 \in 0 .. n
          BY <1>1, <3>2
        <4>2. g[k] = F[g[k - 1]] /\ g[k - 1] \in X
          BY <2>1, <4>1 DEF Iterates
        <4>3. F[g[k - 1]] = Round(g[k - 1])
          BY <4>2 DEF F
        <4> QED
          BY <3>2, <4>2, <4>3
      <3> QED
        BY <3>1, <3>2
    <2>3. g = Body(g)
      BY <2>2
    <2> QED
      BY <2>3
  <1>4. after = Body(after)
    BY <1>3
  <1> HIDE DEF after
  <1>6. after[0] = s /\ \A k \in 1 .. n : after[k] = Round(after[k - 1])
    BY <1>1, <1>4
  <1>7. after[n] \in X
    <2>1. after[0] \in X
      BY <1>6
    <2>2. \A k \in 1 .. n : after[k - 1] \in X => after[k] \in X
      BY <1>6
    <2> QED
      BY <1>1, <2>1, <2>2, LoopInvariant
  <1>8. ASSUME NEW Y, Round(s) \in Y, \A t \in Y : Round(t) \in Y,
               s.cWnd >= SegmentSize
        PROVE  after[n] \in Y
    <2> DEFINE m    == n - 1
               from == [k \in 0 .. m |-> after[k + 1]]
    <2>0. n >= 1
      BY <1>1a, <1>8
    <2>1. m \in Nat
      BY <1>1, <2>0
    <2>2. from[0] \in Y
      <3>1. 1 \in 1 .. n /\ 0 \in 0 .. m
        BY <1>1, <2>0
      <3>2. after[1] = Round(after[1 - 1])
        BY <1>6, <3>1
      <3> QED
        BY <1>6, <1>8, <3>1, <3>2
    <2>3. ASSUME NEW k \in 1 .. m, from[k - 1] \in Y PROVE from[k] \in Y
      <3>1. k + 1 \in 1 .. n /\ (k + 1) - 1 = k /\ (k - 1) + 1 = k
        BY <1>1, <2>0
      <3>2. from[k] = after[k + 1] /\ from[k - 1] = after[k]
        <4>1. k \in 0 .. m /\ k - 1 \in 0 .. m
          BY <2>1
        <4> HIDE DEF m
        <4>2. from[k] = after[k + 1] /\ from[k - 1] = after[(k - 1) + 1]
          BY <4>1
        <4> QED
          BY <3>1, <4>2
      <3>3. after[k + 1] = Round(after[k])
        BY <1>6, <3>1
      <3> HIDE DEF from
      <3> QED
        BY <1>8, <2>3, <3>2, <3>3
    <2>4. from[m] = after[n]
      BY <1>1, <2>0
    <2> HIDE DEF from, m
    <2>5. from[m] \in Y
      BY <2>1, <2>2, <2>3, LoopInvariant
    <2> QED
      BY <2>4, <2>5
  <1> QED
    BY <1>5, <1>7, <1>8

\* One turn sends a segment outside F, if it sends one.
LEMMA RoundSends ==
    ASSUME NEW t \in Senders, BufInv(t.buf), NEW F, OutOK(t, F), Covers(t.buf, F)
    PROVE  /\ SentFrom(t, Round(t)) /\ OutOK(Round(t), F) /\ Covers(Round(t).buf, F)
           /\ NextToSend(t) # NoSegment => Round(t).retxEvent
  <1> DEFINE seq == NextToSend(t)
             r == Round(t)
  <1>1. CASE seq = NoSegment
    <2>1. r = t
      BY <1>1 DEF Round
    <2> QED
      BY <1>1, <2>1, SentRefl
  <1>2. CASE seq # NoSegment
    <2>1. Picked(t.buf, seq)
      BY <1>2, NextSegPicks DEF NextToSend
    <2>2. r = SendDataPacket(t, seq)
      BY <1>2 DEF Round
    <2> HIDE DEF seq, r
    <2>3. \/ seq \in SentList(t.buf)
          \/ seq = t.buf.nxt /\ t.buf.nxt < t.buf.end
      BY <2>1 DEF Picked
    <2>4. seq \notin F
      <3>1. /\ t.buf.una \in Nat /\ t.buf.nxt \in Nat /\ t.buf.una <= t.buf.nxt
            /\ t.buf.sacked \subseteq t.buf.una .. t.buf.nxt - 1
            /\ t.buf.retrans \subseteq t.buf.una .. t.buf.nxt - 1
        BY BufFacts
      <3>2. seq >= t.buf.una
        BY <2>3, <3>1 DEF SentList
      <3>3. seq \notin t.buf.retrans \cup t.buf.sacked
        BY <2>1, <3>1 DEF Picked
      <3> QED
        BY <3>2, <3>3 DEF Covers
    <2>5. SentFrom(t, r) /\ OutOK(r, F) /\ r.retxEvent = TRUE
      BY <2>2, <2>3, <2>4, SendDataPacketSends
    <2>6. Covers(r.buf, F)
      BY <2>5 DEF Covers, SentFrom
    <2> QED
      BY <2>5, <2>6 DEF r
  <1> QED
    BY <1>1, <1>2

\* SendPendingData: it keeps the control state, sends only segments outside
\* F, and arms the timer if it can send at all.
LEMMA PendingSends ==
    ASSUME NEW s \in Senders, BufInv(s.buf), NEW F, OutOK(s, F), Covers(s.buf, F)
    PROVE  /\ SentFrom(s, SendPendingData(s)) /\ OutOK(SendPendingData(s), F)
           /\ NextToSend(s) = NoSegment => SendPendingData(s) = s
           /\ NextToSend(s) # NoSegment /\ s.cWnd >= SegmentSize
                => SendPendingData(s).retxEvent
  <1> DEFINE X == {t \in Senders : SentFrom(s, t) /\ OutOK(t, F) /\ Covers(t.buf, F)}
             Y == {t \in X : t.retxEvent}
             Z == {s}
  <1>0. s.cWnd \in Nat
    BY DEF Senders
  <1>1. s \in X
    BY SentRefl
  <1>2. ASSUME NEW t \in X
        PROVE  /\ Round(t) \in X
               /\ t.retxEvent => Round(t).retxEvent
               /\ NextToSend(t) # NoSegment => Round(t).retxEvent
    <2>1. BufInv(t.buf)
      BY DEF SentFrom
    <2>2. /\ SentFrom(t, Round(t)) /\ OutOK(Round(t), F) /\ Covers(Round(t).buf, F)
          /\ NextToSend(t) # NoSegment => Round(t).retxEvent
      BY <2>1, RoundSends
    <2>3. SentFrom(s, Round(t))
      BY <2>2, SentTrans
    <2>4. Round(t) \in Senders /\ (t.retxEvent => Round(t).retxEvent)
      BY <2>2 DEF SentFrom
    <2> QED
      BY <2>2, <2>3, <2>4
  <1>3. \A t \in X : Round(t) \in X
    BY <1>2
  <1>4. \A t \in Y : Round(t) \in Y
    BY <1>2
  <1>5. NextToSend(s) # NoSegment => Round(s) \in Y
    BY <1>1, <1>2
  <1>6. NextToSend(s) = NoSegment => \A t \in Z : Round(t) \in Z
    BY DEF Round
  <1> HIDE DEF X, Y, Z
  <1>7. SendPendingData(s) \in X
    BY <1>0, <1>1, <1>3, LoopPreserves
  <1>8. NextToSend(s) # NoSegment /\ s.cWnd >= SegmentSize => SendPendingData(s) \in Y
    BY <1>0, <1>1, <1>3, <1>4, <1>5, LoopPreserves
  <1>9. NextToSend(s) = NoSegment => SendPendingData(s) \in Z
    <2>1. s \in Z
      BY DEF Z
    <2> QED
      BY <1>0, <1>6, <2>1, LoopPreserves
  <1> QED
    BY <1>7, <1>8, <1>9 DEF X, Y, Z

-----------------------------------------------------------------------------
(* The handlers of an ACK, once the scoreboard is updated.                  *)

\* t is a later stage of the handler that was at s.
Stage(s, t) ==
    /\ t \in Senders /\ BufInv(t.buf)
    /\ t.buf.una = s.buf.una /\ t.buf.end = s.buf.end
    /\ t.buf.sacked \subseteq s.buf.sacked /\ s.buf.nxt <= t.buf.nxt
    /\ t.sendPendingDataEvent = s.sendPendingDataEvent /\ t.closed = s.closed
    /\ Size(s.buf) # 0 /\ s.retxEvent => t.retxEvent

\* The control fields that a stage may leave alone.
SameState(s, t) ==
    /\ t.congState = s.congState /\ t.recover = s.recover
    /\ t.recoverActive = s.recoverActive /\ t.dupAckCount = s.dupAckCount

LEMMA StageTrans ==
    ASSUME NEW s, NEW t, NEW u, BufInv(s.buf), Stage(s, t), Stage(t, u)
    PROVE  Stage(s, u)
  <1>1. s.buf.nxt \in Nat /\ t.buf.nxt \in Nat /\ u.buf.nxt \in Nat
    BY BufFacts DEF Stage
  <1>2. Size(t.buf) = Size(s.buf)
    BY DEF Stage, Size
  <1>3. Size(s.buf) # 0 /\ s.retxEvent => u.retxEvent
    BY <1>2 DEF Stage
  <1> QED
    BY <1>1, <1>3 DEF Stage

LEMMA StateTrans ==
    ASSUME NEW s, NEW t, NEW u, SameState(s, t), SameState(t, u)
    PROVE  SameState(s, u)
  BY DEF SameState

LEMMA KeepsStage ==
    ASSUME NEW s, NEW t, BufInv(s.buf), Keeps(s, t), NEW F
    PROVE  /\ Stage(s, t) /\ SameState(s, t) /\ t.retxEvent = s.retxEvent
           /\ OutOK(s, F) => OutOK(t, F)
           /\ Covers(s.buf, F) => Covers(t.buf, F)
           /\ t.buf = s.buf /\ t \in Senders
  <1>1. t.buf = s.buf /\ t.out = s.out /\ t \in Senders /\ t.retxEvent = s.retxEvent
    BY DEF Keeps, SameControl
  <1>2. s.buf.nxt \in Nat
    BY BufFacts
  <1>3. Stage(s, t) /\ SameState(s, t)
    BY <1>1, <1>2 DEF Keeps, SameControl, Stage, SameState
  <1>4. OutOK(s, F) => OutOK(t, F)
    BY <1>1 DEF OutOK
  <1> QED
    BY <1>1, <1>3, <1>4

LEMMA SentStage ==
    ASSUME NEW s, NEW t, SentFrom(s, t)
    PROVE  Stage(s, t) /\ SameState(s, t)
  BY DEF SentFrom, Stage, SameState

\* NewAck restarts the timer, or cancels it if nothing is left.
LEMMA NewAckStage ==
    ASSUME NEW s \in Senders, BufInv(s.buf), NEW r \in BOOLEAN, NEW F
    PROVE  /\ Stage(s, NewAck(s, r)) /\ SameState(s, NewAck(s, r))
           /\ OutOK(s, F) => OutOK(NewAck(s, r), F)
           /\ NewAck(s, r).buf = s.buf
           /\ Size(s.buf) = 0 => ~ NewAck(s, r).retxEvent
  <1> DEFINE x == Size(s.buf) # 0 /\ (r \/ s.retxEvent)
             t == [s EXCEPT !.dataRetrCount = DataRetries, !.retxEvent = x]
  <1>1. NewAck(s, r) = t
    BY DEF NewAck
  <1>2. /\ x \in BOOLEAN /\ (Size(s.buf) # 0 /\ s.retxEvent => x)
        /\ (Size(s.buf) = 0 => ~ x)
    OBVIOUS
  <1> HIDE DEF x
  <1>3. /\ t \in Senders /\ t.retxEvent = x /\ t.buf = s.buf /\ t.out = s.out
        /\ t.sendPendingDataEvent = s.sendPendingDataEvent /\ t.closed = s.closed
        /\ t.congState = s.congState /\ t.recover = s.recover
        /\ t.recoverActive = s.recoverActive /\ t.dupAckCount = s.dupAckCount
    BY <1>2, Sizes DEF Senders
  <1> HIDE DEF t
  <1>4. s.buf.nxt \in Nat
    BY BufFacts
  <1>5. Stage(s, t)
    BY <1>2, <1>3, <1>4 DEF Stage
  <1>6. SameState(s, t)
    BY <1>3 DEF SameState
  <1>7. OutOK(s, F) => OutOK(t, F)
    BY <1>3 DEF OutOK
  <1> QED
    BY <1>1, <1>2, <1>3, <1>5, <1>6, <1>7

\* EnterRecovery, which sends the head again.
LEMMA EnterRecoveryStage ==
    ASSUME NEW s \in Senders, BufInv(s.buf), s.buf.una < s.buf.nxt, NEW d \in Nat,
           OutOK(s, {})
    PROVE  /\ Stage(s, EnterRecovery(s, d))
           /\ EnterRecovery(s, d).congState = "RECOVERY"
           /\ EnterRecovery(s, d).recover = s.buf.nxt
           /\ EnterRecovery(s, d).recoverActive
           /\ EnterRecovery(s, d).retxEvent
           /\ OutOK(EnterRecovery(s, d), {})
  <1> DEFINE b == IF IsLost(s.buf, s.buf.una) THEN s.buf ELSE MarkHeadAsLost(s.buf)
             n == s.buf.nxt
             marked == [s EXCEPT !.buf = b, !.recover = n, !.recoverActive = TRUE]
             hooked == CongestionStateSet(marked, "RECOVERY")
             cut == [hooked EXCEPT !.congState = "RECOVERY"]
             g == GetSsThresh(cut)
             thresh == [cut EXCEPT !.ssThresh = g]
             prr == PrrEnterRecovery(thresh, d, InFlight(thresh), s.isRetransDataAcked)
             e == SendDataPacket(prr, s.buf.una)
  <1>1. /\ s.buf \in BufferRecords /\ s.buf.una \in Nat /\ s.buf.una >= 1 /\ n \in Nat
    BY BufFacts
  <1>2. /\ BufInv(b) /\ b.una = s.buf.una /\ b.nxt = n /\ b.end = s.buf.end
        /\ b.sacked \subseteq s.buf.sacked
    <2>1. CASE IsLost(s.buf, s.buf.una)
      BY <2>1
    <2>2. CASE ~ IsLost(s.buf, s.buf.una)
      <3>1. b = MarkHeadAsLost(s.buf)
        BY <2>2
      <3>2. BufInv(b)
        BY <3>1, HeadLostInv
      <3> HIDE DEF b
      <3> QED
        BY <1>1, <3>1, <3>2, HeadLostFrame
    <2> QED
      BY <2>1, <2>2
  <1>3. EnterRecovery(s, d) = e
    BY DEF EnterRecovery, HighTxMark
  <1>4. b \in BufferRecords
    BY <1>2, BufFacts
  <1> HIDE DEF b, n
  <1>5. /\ marked \in Senders /\ marked.buf = b /\ marked.recover = n
        /\ marked.recoverActive = TRUE /\ marked.out = s.out
        /\ marked.sendPendingDataEvent = s.sendPendingDataEvent
        /\ marked.closed = s.closed
    BY <1>1, <1>4 DEF Senders
  <1> HIDE DEF marked
  <1>6. Keeps(marked, hooked)
    BY <1>5, StateSetKeeps
  <1> HIDE DEF hooked
  <1>7. /\ hooked \in Senders /\ hooked.buf = b /\ hooked.recover = n
        /\ hooked.recoverActive = TRUE /\ hooked.out = s.out
        /\ hooked.sendPendingDataEvent = s.sendPendingDataEvent
        /\ hooked.closed = s.closed
    BY <1>5, <1>6 DEF Keeps, SameControl
  <1>8. /\ cut \in Senders /\ cut.buf = b /\ cut.recover = n
        /\ cut.recoverActive = TRUE /\ cut.out = s.out /\ cut.congState = "RECOVERY"
        /\ cut.sendPendingDataEvent = s.sendPendingDataEvent
        /\ cut.closed = s.closed
    BY <1>7 DEF Senders, CongStates
  <1> HIDE DEF cut
  <1>9. g \in Nat
    BY <1>8, SsThreshType
  <1> HIDE DEF g
  <1>10. Keeps(cut, thresh)
    BY <1>8, <1>9 DEF Keeps, SameControl, Senders
  <1> HIDE DEF thresh
  <1>11. thresh \in Senders /\ thresh.buf = b
    BY <1>8, <1>10 DEF Keeps, SameControl
  <1>12. InFlight(thresh) \in Nat /\ s.isRetransDataAcked \in BOOLEAN
    BY <1>2, <1>11, FlightType DEF Senders
  <1>13. Keeps(thresh, prr)
    BY <1>11, <1>12, PrrEnterKeeps
  <1> HIDE DEF prr
  <1>14. Keeps(cut, prr)
    BY <1>10, <1>13, KeepsTrans
  <1>15. /\ prr \in Senders /\ prr.buf = b /\ prr.recover = n
         /\ prr.recoverActive = TRUE /\ prr.out = s.out /\ prr.congState = "RECOVERY"
         /\ prr.sendPendingDataEvent = s.sendPendingDataEvent
         /\ prr.closed = s.closed
    BY <1>8, <1>14 DEF Keeps, SameControl
  <1>16. OutOK(prr, {})
    BY <1>2, <1>15 DEF OutOK, n
  <1>17. s.buf.una \in SentList(prr.buf)
    BY <1>1, <1>2, <1>15, SMT DEF SentList, n
  <1>18. SentFrom(prr, e) /\ e.retxEvent = TRUE /\ OutOK(e, {})
    <2> DEFINE seq == s.buf.una
    <2>1. prr \in Senders /\ BufInv(prr.buf) /\ seq \notin {} /\ seq \in SentList(prr.buf)
      BY <1>2, <1>15, <1>17
    <2> HIDE DEF seq
    <2>2. /\ SentFrom(prr, SendDataPacket(prr, seq))
          /\ SendDataPacket(prr, seq).retxEvent = TRUE
          /\ OutOK(SendDataPacket(prr, seq), {})
      BY <1>16, <2>1, SendDataPacketSends
    <2> QED
      BY <2>2 DEF seq
  <1> HIDE DEF e
  <1>19. Stage(s, e)
    BY <1>1, <1>2, <1>15, <1>18 DEF SentFrom, Stage, n
  <1> QED
    BY <1>3, <1>15, <1>18, <1>19 DEF SentFrom, n


-----------------------------------------------------------------------------
(* The recovery point.  At rest, between two events, it lies in the sent    *)
(* data that is not acknowledged, unless the socket is in OPEN or DISORDER. *)

PointAtRest(s) ==
    /\ s.congState = "RECOVERY" =>
           s.recoverActive /\ s.buf.una < s.recover /\ s.recover <= s.buf.nxt
    /\ s.congState = "LOSS" =>
           s.recoverActive /\ s.buf.una <= s.recover /\ s.recover <= s.buf.nxt
    /\ s.congState = "CWR" => s.buf.una <= s.recover /\ s.recover <= s.buf.nxt
    /\ s.congState \in {"OPEN", "DISORDER"} =>
           ~ s.recoverActive /\ s.recover <= s.buf.una

\* In the handler of an ACK of a, which came when h was the head: the state
\* is still the one that h calls for, except that CWR was left, or entered,
\* already.
PointInAck(s, a, h) ==
    /\ s.congState = "RECOVERY" =>
           s.recoverActive /\ h < s.recover /\ s.recover <= s.buf.nxt
    /\ s.congState = "LOSS" =>
           s.recoverActive /\ h <= s.recover /\ s.recover <= s.buf.nxt
    /\ s.congState = "CWR" => a <= s.recover /\ s.recover <= s.buf.nxt
    /\ s.congState \in {"OPEN", "DISORDER"} =>
           /\ s.recover <= a
           /\ s.recoverActive => s.recover < a /\ h < a

LEMMA RestStage ==
    ASSUME NEW s \in Senders, NEW t, BufInv(s.buf), Stage(s, t), SameState(s, t)
    PROVE  /\ PointAtRest(s) => PointAtRest(t)
           /\ \A a, h : PointInAck(s, a, h) => PointInAck(t, a, h)
  <1>1. /\ s.buf.nxt \in Nat /\ t.buf.nxt \in Nat /\ s.buf.nxt <= t.buf.nxt
        /\ s.recover \in Nat /\ t.buf.una = s.buf.una
    BY BufFacts DEF Stage, Senders
  <1>2. /\ t.congState = s.congState /\ t.recover = s.recover
        /\ t.recoverActive = s.recoverActive
    BY DEF SameState
  <1>3. s.recover <= s.buf.nxt => s.recover <= t.buf.nxt
    BY <1>1
  <1>4. PointAtRest(s) => PointAtRest(t)
    BY <1>1, <1>2, <1>3, Zenon DEF PointAtRest
  <1>5. \A a, h : PointInAck(s, a, h) => PointInAck(t, a, h)
    BY <1>2, <1>3, Zenon DEF PointInAck
  <1> QED
    BY <1>4, <1>5

\* DupAck.  `a` is the head after the ACK, `h` the head before it.
LEMMA DupAckStage ==
    ASSUME NEW s \in Senders, BufInv(s.buf), s.buf.una < s.buf.nxt, NEW d \in Nat,
           NEW h \in Nat, h <= s.buf.una, OutOK(s, {}), PointInAck(s, s.buf.una, h)
    PROVE  /\ Stage(s, DupAck(s, d)) /\ OutOK(DupAck(s, d), {})
           /\ PointInAck(DupAck(s, d), s.buf.una, h)
           /\ s.congState = "CWR" <=> DupAck(s, d).congState = "CWR"
           /\ s.congState = "RECOVERY" => Keeps(s, DupAck(s, d))
  <1> DEFINE k == s.dupAckCount + 1
             counted == [s EXCEPT !.dupAckCount = k]
             one == Check(counted, counted.dupAckCount = 1, "OPEN to DISORDER with one dupack")
             moved == [one EXCEPT !.congState = "DISORDER"]
             disorder == IF s.congState = "OPEN" THEN moved ELSE counted
             fine == \/ disorder.dupAckCount <= RetxThresh
                     \/ disorder.recoverActive
             checked == Check(disorder, fine, "dupack count in DISORDER")
             third == /\ checked.dupAckCount = RetxThresh
                      /\ s.buf.una >= s.recover \/ ~ s.recoverActive
             u == DupAck(s, d)
             a == s.buf.una
  <1>1. /\ a \in Nat /\ s.buf.nxt \in Nat /\ k \in Nat /\ s.recover \in Nat
        /\ s.congState \in CongStates
    BY BufFacts DEF Senders
  <1>2. InFlight(s) \in Nat /\ s.isRetransDataAcked \in BOOLEAN
    BY FlightType DEF Senders
  <1> HIDE DEF k
  <1>3. /\ counted \in Senders /\ counted.buf = s.buf /\ counted.out = s.out
        /\ counted.congState = s.congState /\ counted.recover = s.recover
        /\ counted.recoverActive = s.recoverActive /\ counted.retxEvent = s.retxEvent
        /\ counted.sendPendingDataEvent = s.sendPendingDataEvent
        /\ counted.closed = s.closed
    BY <1>1 DEF Senders
  <1>4. Stage(s, counted) /\ OutOK(counted, {}) /\ PointInAck(counted, a, h)
    BY <1>1, <1>3 DEF Stage, OutOK, PointInAck
  <1>5. CASE s.congState = "LOSS"
    <2>1. u = s
      BY <1>5 DEF DupAck
    <2>2. Stage(s, s)
      BY <1>1 DEF Stage
    <2> HIDE DEF u
    <2> QED
      BY <1>5, <2>1, <2>2 DEF u
  <1>6. CASE s.congState = "CWR"
    <2>1. u = counted
      BY <1>6 DEF DupAck, k
    <2> HIDE DEF u, counted
    <2> QED
      BY <1>3, <1>4, <1>6, <2>1 DEF u
  <1>7. CASE s.congState = "RECOVERY"
    <2>1. u = DoRecovery(s, d, TRUE, InFlight(s), s.isRetransDataAcked)
      BY <1>7 DEF DupAck
    <2> HIDE DEF u
    <2>2. Keeps(s, u)
      BY <1>2, <2>1, DoRecoveryKeeps
    <2>3. Stage(s, u) /\ SameState(s, u) /\ OutOK(u, {})
      BY <2>2, KeepsStage
    <2>4. PointInAck(u, a, h) /\ u.congState = "RECOVERY"
      BY <1>7, <2>3, RestStage DEF SameState
    <2> QED
      BY <1>7, <2>2, <2>3, <2>4 DEF u
  <1>8. CASE s.congState \in {"OPEN", "DISORDER"}
    <2>1. u = IF third \/ IsLost(s.buf, s.buf.una)
              THEN EnterRecovery(checked, d) ELSE checked
      BY <1>8, Zenon DEF DupAck, k
    <2>2. Keeps(counted, one)
      <3> DEFINE cond == counted.dupAckCount = 1
                 name == "OPEN to DISORDER with one dupack"
      <3>1. name \in Assertions /\ one = Check(counted, cond, name)
        BY DEF Assertions
      <3> HIDE DEF cond, name, counted, one
      <3> QED
        BY <1>3, <3>1, CheckKeeps
    <2> HIDE DEF counted, one
    <2>3. /\ one \in Senders /\ one.buf = s.buf /\ one.out = s.out
          /\ one.recover = s.recover
          /\ one.recoverActive = s.recoverActive /\ one.retxEvent = s.retxEvent
          /\ one.sendPendingDataEvent = s.sendPendingDataEvent
          /\ one.closed = s.closed
      BY <1>3, <2>2 DEF Keeps, SameControl
    <2>4. /\ moved \in Senders /\ moved.buf = s.buf /\ moved.out = s.out
          /\ moved.congState = "DISORDER" /\ moved.recover = s.recover
          /\ moved.recoverActive = s.recoverActive /\ moved.retxEvent = s.retxEvent
          /\ moved.sendPendingDataEvent = s.sendPendingDataEvent
          /\ moved.closed = s.closed
      BY <2>3 DEF Senders, CongStates
    <2> HIDE DEF moved
    <2>5. /\ disorder \in Senders /\ disorder.buf = s.buf /\ disorder.out = s.out
          /\ disorder.congState = "DISORDER" /\ disorder.recover = s.recover
          /\ disorder.recoverActive = s.recoverActive /\ disorder.retxEvent = s.retxEvent
          /\ disorder.sendPendingDataEvent = s.sendPendingDataEvent
          /\ disorder.closed = s.closed
      BY <1>3, <1>8, <2>4
    <2> HIDE DEF disorder
    <2>6. Keeps(disorder, checked)
      <3> DEFINE name == "dupack count in DISORDER"
      <3>1. name \in Assertions
        BY Zenon DEF Assertions
      <3> HIDE DEF fine, name
      <3>2. Keeps(disorder, Check(disorder, fine, name))
        BY <2>5, <3>1, CheckKeeps
      <3> QED
        BY <3>2, Zenon DEF name
    <2> HIDE DEF checked
    <2>7. /\ checked \in Senders /\ checked.buf = s.buf /\ checked.out = s.out
          /\ checked.congState = "DISORDER" /\ checked.recover = s.recover
          /\ checked.recoverActive = s.recoverActive /\ checked.retxEvent = s.retxEvent
          /\ checked.sendPendingDataEvent = s.sendPendingDataEvent
          /\ checked.closed = s.closed
      BY <2>5, <2>6 DEF Keeps, SameControl
    <2>8. Stage(s, checked) /\ OutOK(checked, {}) /\ PointInAck(checked, a, h)
      BY <1>1, <1>8, <2>7 DEF Stage, OutOK, PointInAck
    <2>9. CASE third \/ IsLost(s.buf, s.buf.una)
      <3>1. u = EnterRecovery(checked, d)
        BY <2>1, <2>9
      <3> HIDE DEF u
      <3>2. /\ Stage(checked, u) /\ u.congState = "RECOVERY"
            /\ u.recover = s.buf.nxt /\ u.recoverActive /\ OutOK(u, {})
        BY <2>7, <2>8, <3>1, EnterRecoveryStage
      <3>3. Stage(s, u)
        BY <2>8, <3>2, StageTrans
      <3>4. PointInAck(u, a, h)
        <4>1. s.buf.nxt <= u.buf.nxt /\ h < s.buf.nxt
          BY <1>1, <3>3 DEF Stage
        <4> QED
          BY <3>2, <4>1 DEF PointInAck
      <3> QED
        BY <1>8, <3>2, <3>3, <3>4 DEF u
    <2>10. CASE ~ (third \/ IsLost(s.buf, s.buf.una))
      <3>1. u = checked
        BY <2>1, <2>10
      <3> HIDE DEF u
      <3> QED
        BY <1>8, <2>7, <2>8, <3>1 DEF u
    <2> QED
      BY <2>9, <2>10
  <1> QED
    BY <1>1, <1>5, <1>6, <1>7, <1>8 DEF CongStates


\* DoRetransmit, with the head neither sent again nor in F.
LEMMA DoRetransmitSends ==
    ASSUME NEW s \in Senders, BufInv(s.buf), s.buf.una < s.buf.nxt, NEW F,
           OutOK(s, F), Covers(s.buf, F), s.buf.una \notin F
    PROVE  SentFrom(s, DoRetransmit(s)) /\ OutOK(DoRetransmit(s), F)
  <1> DEFINE next == NextSeg(s.buf, N, FALSE)
             seq == IF next = NoSegment THEN s.buf.una ELSE next
  <1>1. DoRetransmit(s) = SendDataPacket(s, seq)
    BY DEF DoRetransmit
  <1>2. next # NoSegment => Picked(s.buf, next)
    BY NextSegPicks
  <1> HIDE DEF next
  <1>3. /\ s.buf.una \in Nat /\ s.buf.nxt \in Nat
        /\ s.buf.sacked \subseteq s.buf.una .. s.buf.nxt - 1
        /\ s.buf.retrans \subseteq s.buf.una .. s.buf.nxt - 1
    BY BufFacts
  <1>4. CASE next = NoSegment
    <2>1. seq = s.buf.una /\ seq \in SentList(s.buf) /\ seq \notin F
      BY <1>3, <1>4 DEF SentList
    <2> HIDE DEF seq
    <2> QED
      BY <1>1, <2>1, SendDataPacketSends
  <1>5. CASE next # NoSegment
    <2>1. seq = next /\ Picked(s.buf, seq)
      BY <1>2, <1>5
    <2> HIDE DEF seq
    <2>2. \/ seq \in SentList(s.buf)
          \/ seq = s.buf.nxt /\ s.buf.nxt < s.buf.end
      BY <2>1 DEF Picked
    <2>3. seq >= s.buf.una
      BY <1>3, <2>2 DEF SentList
    <2>4. seq \notin s.buf.retrans \cup s.buf.sacked
      BY <1>3, <2>1 DEF Picked
    <2>5. seq \notin F
      BY <2>3, <2>4 DEF Covers
    <2> QED
      BY <1>1, <2>2, <2>5, SendDataPacketSends
  <1> QED
    BY <1>4, <1>5

LEMMA SentCovers ==
    ASSUME NEW s, NEW t, NEW F, SentFrom(s, t), Covers(s.buf, F)
    PROVE  Covers(t.buf, F)
  BY DEF SentFrom, Covers

\* A partial ACK in RECOVERY sends nothing of F.
LEMMA PartialAckStage ==
    ASSUME NEW s \in Senders, BufInv(s.buf), s.buf.una < s.buf.nxt, NEW d \in Nat,
           NEW t \in Nat, NEW F, OutOK(s, F), Covers(s.buf, F)
    PROVE  /\ Stage(s, PartialAck(s, s.buf.una, d, t))
           /\ SameState(s, PartialAck(s, s.buf.una, d, t))
           /\ OutOK(PartialAck(s, s.buf.una, d, t), F)
           /\ Covers(PartialAck(s, s.buf.una, d, t).buf, F)
  <1> DEFINE a == s.buf.una
             prr == IF d = 0 THEN s
                    ELSE DoRecovery(s, d, FALSE, InFlight(s), s.isRetransDataAcked)
             sent == IF IsRetransmittedDataAcked(s.buf, a + 1) THEN prr
                                                               ELSE DoRetransmit(prr)
             told == PktsAcked(sent, t)
             done == NewAck(told, s.isFirstPartialAck)
             u == [done EXCEPT !.isFirstPartialAck = FALSE]
  <1>1. PartialAck(s, a, d, t) = u
    BY DEF PartialAck
  <1>2. /\ InFlight(s) \in Nat /\ s.isRetransDataAcked \in BOOLEAN
        /\ s.isFirstPartialAck \in BOOLEAN
    BY FlightType DEF Senders
  <1>3. Keeps(s, prr)
    <2>1. CASE d = 0
      <3>1. prr = s
        BY <2>1
      <3> QED
        BY <3>1 DEF Keeps, SameControl
    <2>2. CASE d # 0
      <3>1. prr = DoRecovery(s, d, FALSE, InFlight(s), s.isRetransDataAcked)
        BY <2>2
      <3> HIDE DEF prr
      <3> QED
        BY <1>2, <3>1, DoRecoveryKeeps
    <2> QED
      BY <2>1, <2>2
  <1> HIDE DEF prr
  <1>4. /\ Stage(s, prr) /\ SameState(s, prr) /\ OutOK(prr, F) /\ Covers(prr.buf, F)
        /\ prr.buf = s.buf /\ prr \in Senders
    BY <1>3, KeepsStage
  <1>5. SentFrom(prr, sent) /\ OutOK(sent, F)
    <2>1. CASE IsRetransmittedDataAcked(s.buf, a + 1)
      <3>1. sent = prr
        BY <2>1
      <3> HIDE DEF sent
      <3> QED
        BY <1>4, <3>1, SentRefl
    <2>2. CASE ~ IsRetransmittedDataAcked(s.buf, a + 1)
      <3>1. sent = DoRetransmit(prr)
        BY <2>2
      <3> HIDE DEF sent
      <3>2. a \in Nat /\ s.buf.nxt \in Nat /\ a \notin s.buf.sacked
        BY BufFacts
      <3>3. a \notin s.buf.retrans
        <4>1. (a + 1) - 1 = a /\ a \in SentList(s.buf)
          BY <3>2 DEF SentList
        <4> QED
          BY <2>2, <3>2, <4>1 DEF IsRetransmittedDataAcked
      <3>4. a \notin F
        BY <3>2, <3>3 DEF Covers
      <3> QED
        BY <1>4, <3>1, <3>4, DoRetransmitSends
    <2> QED
      BY <2>1, <2>2
  <1> HIDE DEF sent
  <1>6. Stage(prr, sent) /\ SameState(prr, sent) /\ Covers(sent.buf, F)
    BY <1>4, <1>5, SentStage, SentCovers
  <1>7. sent \in Senders /\ BufInv(sent.buf)
    BY <1>5 DEF SentFrom
  <1>8. Keeps(sent, told)
    BY <1>7, PktsAckedKeeps
  <1> HIDE DEF told
  <1>9. /\ Stage(sent, told) /\ SameState(sent, told) /\ OutOK(told, F)
        /\ Covers(told.buf, F) /\ told.buf = sent.buf /\ told \in Senders
    BY <1>5, <1>6, <1>7, <1>8, KeepsStage
  <1>10. /\ Stage(told, done) /\ SameState(told, done) /\ OutOK(done, F)
         /\ done.buf = told.buf
    BY <1>2, <1>7, <1>9, NewAckStage
  <1> HIDE DEF done
  <1>11. done \in Senders /\ BufInv(done.buf)
    BY <1>10 DEF Stage
  <1>12. Keeps(done, u)
    BY <1>11 DEF Keeps, SameControl, Senders
  <1> HIDE DEF u
  <1>13. /\ Stage(done, u) /\ SameState(done, u) /\ OutOK(u, F) /\ u.buf = done.buf
    BY <1>10, <1>11, <1>12, KeepsStage
  <1>14. Stage(s, sent) /\ SameState(s, sent)
    BY <1>4, <1>6, StageTrans, StateTrans
  <1>15. Stage(s, told) /\ SameState(s, told)
    BY <1>9, <1>14, StageTrans, StateTrans
  <1>16. Stage(s, done) /\ SameState(s, done)
    BY <1>10, <1>15, StageTrans, StateTrans
  <1>17. Stage(s, u) /\ SameState(s, u)
    BY <1>13, <1>16, StageTrans, StateTrans
  <1>18. Covers(u.buf, F)
    BY <1>9, <1>10, <1>13
  <1> QED
    BY <1>1, <1>13, <1>17, <1>18

\* open: NewAck after SwiftUpdateCwndOnAck.
LEMMA OpenStage ==
    ASSUME NEW s \in Senders, BufInv(s.buf), NEW k \in Nat, NEW F
    PROVE  LET u == NewAck(IncreaseWindow(s, HopCount, k), TRUE)
           IN  /\ Stage(s, u) /\ SameState(s, u) /\ u.buf = s.buf
               /\ OutOK(s, F) => OutOK(u, F)
               /\ Size(s.buf) = 0 => ~ u.retxEvent
  <1> DEFINE w == IncreaseWindow(s, HopCount, k)
             u == NewAck(w, TRUE)
  <1>1. Keeps(s, w)
    BY IncreaseWindowKeeps
  <1> HIDE DEF w
  <1>2. /\ Stage(s, w) /\ SameState(s, w) /\ (OutOK(s, F) => OutOK(w, F))
        /\ w.buf = s.buf /\ w \in Senders
    BY <1>1, KeepsStage
  <1>3. /\ Stage(w, u) /\ SameState(w, u) /\ (OutOK(w, F) => OutOK(u, F))
        /\ u.buf = w.buf /\ (Size(w.buf) = 0 => ~ u.retxEvent)
    BY <1>2, NewAckStage
  <1> HIDE DEF u
  <1>4. Stage(s, u) /\ SameState(s, u)
    BY <1>2, <1>3, StageTrans, StateTrans
  <1>5. /\ Stage(s, u) /\ SameState(s, u) /\ u.buf = s.buf
        /\ (OutOK(s, F) => OutOK(u, F))
        /\ (Size(s.buf) = 0 => ~ u.retxEvent)
    BY <1>2, <1>3, <1>4
  <1> QED
    BY <1>5 DEF u, w

\* Leaving a state for OPEN.
LEMMA BackToOpenFrame ==
    ASSUME NEW s \in Senders, NEW t, t = BackToOpen(s)
    PROVE  /\ t \in Senders /\ t.congState = "OPEN" /\ t.buf = s.buf /\ t.out = s.out
           /\ t.dupAckCount = s.dupAckCount /\ t.recover = s.recover
           /\ t.recoverActive = s.recoverActive /\ t.retxEvent = s.retxEvent
           /\ t.sendPendingDataEvent = s.sendPendingDataEvent /\ t.closed = s.closed
  <1> DEFINE w == CongestionStateSet(s, "OPEN")
  <1>1. Keeps(s, w)
    BY StateSetKeeps
  <1>2. t = [w EXCEPT !.congState = "OPEN"]
    BY DEF BackToOpen
  <1> HIDE DEF w
  <1>3. w \in Senders
    BY <1>1 DEF Keeps
  <1>4. /\ t \in Senders /\ t.congState = "OPEN" /\ t.buf = w.buf /\ t.out = w.out
        /\ t.dupAckCount = w.dupAckCount /\ t.recover = w.recover
        /\ t.recoverActive = w.recoverActive /\ t.retxEvent = w.retxEvent
        /\ t.sendPendingDataEvent = w.sendPendingDataEvent /\ t.closed = w.closed
    BY <1>2, <1>3 DEF Senders, CongStates
  <1> QED
    BY <1>1, <1>4 DEF Keeps, SameControl

\* t differs from s in the congestion state and its bookkeeping only.
Alike(s, t) ==
    /\ t \in Senders /\ t.buf = s.buf /\ t.out = s.out /\ t.retxEvent = s.retxEvent
    /\ t.sendPendingDataEvent = s.sendPendingDataEvent /\ t.closed = s.closed

\* The end of most cases: the state is p, then `open`.
LEMMA OpenFrom ==
    ASSUME NEW s \in Senders, BufInv(s.buf), NEW p, Alike(s, p), NEW k \in Nat, NEW F,
           OutOK(s, F), Covers(s.buf, F), PointAtRest(p),
           NEW u, u = NewAck(IncreaseWindow(p, HopCount, k), TRUE)
    PROVE  /\ Stage(s, u) /\ SameState(p, u) /\ PointAtRest(u)
           /\ OutOK(u, F) /\ Covers(u.buf, F)
           /\ Size(s.buf) = 0 => ~ u.retxEvent
  <1>1. /\ p \in Senders /\ p.buf = s.buf /\ p.out = s.out /\ s.buf.nxt \in Nat
    BY BufFacts DEF Alike
  <1>2. Stage(s, p)
    BY <1>1 DEF Alike, Stage
  <1>3. OutOK(p, F)
    BY <1>1 DEF OutOK
  <1>4. /\ Stage(p, u) /\ SameState(p, u) /\ u.buf = p.buf
        /\ OutOK(u, F) /\ (Size(p.buf) = 0 => ~ u.retxEvent)
    BY <1>1, <1>3, OpenStage
  <1>5. Stage(s, u)
    BY <1>2, <1>4, StageTrans
  <1>6. PointAtRest(u)
    BY <1>1, <1>4, RestStage
  <1> QED
    BY <1>1, <1>4, <1>5, <1>6

\* Giving up the recovery point.
LEMMA DeactivateAlike ==
    ASSUME NEW s, NEW q, Alike(s, q), q.recover \in Nat, NEW a \in Nat,
           NEW t, t = Deactivate(q, a)
    PROVE  /\ t.congState = q.congState /\ t.recover = q.recover /\ t.buf = q.buf
           /\ t.dupAckCount = q.dupAckCount /\ Alike(s, t)
           /\ ~ (a < q.recover) => ~ t.recoverActive
  <1> DEFINE x == q.recoverActive /\ a < q.recover
  <1>1. q \in Senders
    BY DEF Alike
  <1>2. x \in BOOLEAN /\ (~ (a < q.recover) => ~ x)
    BY <1>1 DEF Senders
  <1>3. t = [q EXCEPT !.recoverActive = x]
    BY DEF Deactivate
  <1> HIDE DEF x
  <1>4. /\ t \in Senders /\ t.congState = q.congState /\ t.buf = q.buf /\ t.out = q.out
        /\ t.dupAckCount = q.dupAckCount /\ t.recover = q.recover
        /\ t.retxEvent = q.retxEvent
        /\ t.sendPendingDataEvent = q.sendPendingDataEvent /\ t.closed = q.closed
        /\ t.recoverActive = x
    BY <1>1, <1>2, <1>3 DEF Senders
  <1>5. Alike(s, t)
    BY <1>4 DEF Alike
  <1> QED
    BY <1>2, <1>4, <1>5

\* CumulativeAck leaves the recovery point at rest, and the socket clean if
\* nothing is left to acknowledge.
LEMMA CumulativeAckStage ==
    ASSUME NEW s \in Senders, BufInv(s.buf), NEW h \in Nat, h < s.buf.una,
           NEW isDup \in BOOLEAN, NEW k \in Nat, NEW dups \in Nat, NEW t \in Nat,
           NEW F, OutOK(s, F), Covers(s.buf, F), PointInAck(s, s.buf.una, h),
           NEW u, u = CumulativeAck(s, s.buf.una, h, isDup, k, dups, t)
    PROVE  /\ Stage(s, u) /\ PointAtRest(u) /\ OutOK(u, F) /\ Covers(u.buf, F)
           /\ s.congState = "CWR" <=> u.congState = "CWR"
           /\ (~ isDup /\ Size(s.buf) = 0 /\ s.dupAckCount = 0) =>
                  u.congState \in {"OPEN", "CWR"} /\ u.dupAckCount = 0 /\ ~ u.retxEvent
  <1> DEFINE a == s.buf.una
             acked == PktsAcked(s, t)
             open(c, n) == NewAck(IncreaseWindow(c, HopCount, n), TRUE)
  <1>1. /\ a \in Nat /\ s.buf.nxt \in Nat /\ a <= s.buf.nxt /\ s.recover \in Nat
        /\ s.buf.end \in Nat /\ s.buf.nxt <= s.buf.end /\ Covers(s.buf, F)
        /\ s.congState \in {"OPEN", "DISORDER", "CWR", "RECOVERY", "LOSS"}
    BY BufFacts DEF Senders, CongStates
  <1>2. Keeps(s, acked)
    BY PktsAckedKeeps
  <1>3. /\ s.congState = "RECOVERY" /\ a < s.recover =>
               u = PartialAck(s, a, k * SegmentSize, t)
        /\ s.congState = "LOSS" /\ a < s.recover => u = open(acked, k)
        /\ s.congState = "CWR" =>
               u = NewAck(IF k = 0 THEN acked
                          ELSE DoRecovery(acked, k * SegmentSize, FALSE,
                                          InFlight(s), s.isRetransDataAcked),
                          TRUE)
        /\ s.congState = "OPEN" => u = open(Deactivate(acked, a), k)
        /\ s.congState = "DISORDER" =>
               LET told == Deactivate(IF k >= dups THEN acked ELSE s, a)
               IN  u = IF isDup THEN told ELSE open(BackToOpen(told), k)
        /\ s.congState = "RECOVERY" /\ ~ (a < s.recover) =>
               u = open([Deactivate(BackToOpen(acked), a) EXCEPT
                           !.isFirstPartialAck = TRUE, !.dupAckCount = 0,
                           !.cWnd = s.ssThresh], a - h)
        /\ s.congState = "LOSS" /\ ~ (a < s.recover) =>
               u = open([Deactivate(BackToOpen(acked), a) EXCEPT
                           !.isFirstPartialAck = TRUE], a - s.recover)
    <2>0. a \in Nat /\ u = CumulativeAck(s, a, h, isDup, k, dups, t)
      BY <1>1
    <2> HIDE DEF a
    <2>1. /\ ~ (a < s.recover) => a >= s.recover
          /\ a < s.recover => ~ (a >= s.recover)
      <3>1. s.recover \in Nat
        BY DEF Senders
      <3> QED
        BY <2>0, <3>1, SMT
    <2>2. /\ "RECOVERY" # "LOSS" /\ "RECOVERY" # "CWR" /\ "RECOVERY" # "OPEN"
          /\ "RECOVERY" # "DISORDER" /\ "LOSS" # "CWR" /\ "LOSS" # "OPEN"
          /\ "LOSS" # "DISORDER" /\ "CWR" # "OPEN" /\ "CWR" # "DISORDER"
          /\ "OPEN" # "DISORDER"
      OBVIOUS
    <2>3. CASE s.congState = "RECOVERY" /\ a < s.recover
      BY <2>1, <2>2, <2>3, <2>0, Zenon DEF CumulativeAck
    <2>4. CASE s.congState = "LOSS" /\ a < s.recover
      BY <2>1, <2>2, <2>4, <2>0, Zenon DEF CumulativeAck
    <2>5. CASE s.congState = "CWR"
      BY <2>1, <2>2, <2>5, <2>0, Zenon DEF CumulativeAck
    <2>6. CASE s.congState = "OPEN"
      BY <2>1, <2>2, <2>6, <2>0, Zenon DEF CumulativeAck
    <2>7. CASE s.congState = "DISORDER"
      BY <2>1, <2>2, <2>7, <2>0, Zenon DEF CumulativeAck
    <2>8. CASE s.congState = "RECOVERY" /\ ~ (a < s.recover)
      BY <2>1, <2>2, <2>8, <2>0, Zenon DEF CumulativeAck
    <2>9. CASE s.congState = "LOSS" /\ ~ (a < s.recover)
      BY <2>1, <2>2, <2>9, <2>0, Zenon DEF CumulativeAck
    <2>10. s.congState \in {"OPEN", "DISORDER", "CWR", "RECOVERY", "LOSS"}
      BY DEF Senders, CongStates
    <2> QED
      BY <2>3, <2>4, <2>5, <2>6, <2>7, <2>8, <2>9, <2>10, Zenon
  <1> HIDE DEF acked
  <1>4. k * SegmentSize \in Nat
    BY Sizes, MulNat
  <1>5. /\ acked \in Senders /\ Alike(s, acked) /\ acked.buf = s.buf
        /\ acked.congState = s.congState /\ acked.recover = s.recover
        /\ acked.recoverActive = s.recoverActive /\ acked.dupAckCount = s.dupAckCount
    BY <1>2 DEF Keeps, SameControl, Alike
  <1>6. a <= s.buf.nxt /\ (Size(s.buf) = 0 => s.buf.nxt = a)
    BY <1>1 DEF Size
  <1>7. CASE s.congState = "RECOVERY" /\ a < s.recover
    <2>1. u = PartialAck(s, a, k * SegmentSize, t)
      BY <1>3, <1>7
    <2>2. s.recover <= s.buf.nxt /\ s.recoverActive
      BY <1>7 DEF PointInAck
    <2>3. a < s.buf.nxt
      BY <1>1, <1>7, <2>2
    <2>4. Stage(s, u) /\ SameState(s, u) /\ OutOK(u, F) /\ Covers(u.buf, F)
      BY <1>4, <2>1, <2>3, PartialAckStage
    <2>5. PointAtRest(s)
      BY <1>7, <2>2 DEF PointAtRest
    <2>6. PointAtRest(u) /\ u.congState = "RECOVERY"
      BY <1>7, <2>4, <2>5, RestStage DEF SameState
    <2>7. Size(s.buf) # 0
      BY <1>1, <1>6, <2>3
    <2> QED
      BY <1>7, <2>4, <2>6, <2>7
  <1>8. CASE s.congState = "LOSS" /\ a < s.recover
    <2>1. u = open(acked, k)
      BY <1>3, <1>8
    <2>2. s.recover <= s.buf.nxt /\ s.recoverActive
      BY <1>8 DEF PointInAck
    <2>3. PointAtRest(acked)
      BY <1>1, <1>5, <1>8, <2>2 DEF PointAtRest
    <2>4. /\ Stage(s, u) /\ SameState(acked, u) /\ PointAtRest(u)
          /\ OutOK(u, F) /\ Covers(u.buf, F)
      BY <1>5, <2>1, <2>3, OpenFrom
    <2>5. Size(s.buf) # 0
      BY <1>1, <1>6, <1>8, <2>2
    <2> QED
      BY <1>5, <1>8, <2>4, <2>5 DEF SameState
  <1>9. CASE s.congState = "CWR"
    <2> DEFINE p == IF k = 0 THEN acked
                    ELSE DoRecovery(acked, k * SegmentSize, FALSE,
                                    InFlight(s), s.isRetransDataAcked)
    <2>1. u = NewAck(p, TRUE)
      BY <1>3, <1>9
    <2>2. InFlight(s) \in Nat /\ s.isRetransDataAcked \in BOOLEAN
      BY FlightType DEF Senders
    <2>3. Keeps(s, p)
      <3>1. CASE k = 0
        <4>1. p = acked
          BY <3>1
        <4> QED
          BY <1>2, <4>1
      <3>2. CASE k # 0
        <4>1. p = DoRecovery(acked, k * SegmentSize, FALSE, InFlight(s), s.isRetransDataAcked)
          BY <3>2
        <4> HIDE DEF p
        <4>2. Keeps(acked, p)
          BY <1>4, <1>5, <2>2, <4>1, DoRecoveryKeeps
        <4> QED
          BY <1>2, <4>2, KeepsTrans
      <3> QED
        BY <3>1, <3>2
    <2> HIDE DEF p
    <2>4. /\ Stage(s, p) /\ SameState(s, p) /\ OutOK(p, F) /\ p.buf = s.buf /\ p \in Senders
      BY <2>3, KeepsStage
    <2>5. /\ Stage(p, u) /\ SameState(p, u) /\ OutOK(u, F) /\ u.buf = p.buf
          /\ (Size(p.buf) = 0 => ~ u.retxEvent)
      BY <2>1, <2>4, NewAckStage
    <2>6. Stage(s, u) /\ SameState(s, u)
      BY <2>4, <2>5, StageTrans, StateTrans
    <2>7. PointAtRest(s)
      BY <1>9 DEF PointAtRest, PointInAck
    <2>8. PointAtRest(u)
      BY <2>6, <2>7, RestStage
    <2> QED
      BY <1>1, <1>9, <2>4, <2>5, <2>6, <2>8 DEF SameState
  <1>10. CASE s.congState = "OPEN"
    <2> DEFINE p == Deactivate(acked, a)
    <2>1. u = open(p, k)
      BY <1>3, <1>10
    <2>2. /\ p.congState = "OPEN" /\ p.buf = s.buf /\ p.recover = s.recover
          /\ p.dupAckCount = s.dupAckCount /\ Alike(s, p)
          /\ ~ (a < s.recover) => ~ p.recoverActive
      <3> p = Deactivate(acked, a)
        OBVIOUS
      <3> HIDE DEF p
      <3> QED
        BY <1>1, <1>5, <1>10, DeactivateAlike
    <2>3. s.recover <= a
      BY <1>10 DEF PointInAck
    <2> HIDE DEF p
    <2>4. PointAtRest(p)
      BY <1>1, <2>2, <2>3 DEF PointAtRest
    <2>5. /\ Stage(s, u) /\ SameState(p, u) /\ PointAtRest(u)
          /\ OutOK(u, F) /\ Covers(u.buf, F) /\ (Size(s.buf) = 0 => ~ u.retxEvent)
      BY <2>1, <2>2, <2>4, OpenFrom
    <2> QED
      BY <1>10, <2>2, <2>5 DEF SameState
  <1>11. CASE s.congState = "DISORDER"
    <2> DEFINE q == IF k >= dups THEN acked ELSE s
               told == Deactivate(q, a)
               p == BackToOpen(told)
    <2>1. u = IF isDup THEN told ELSE open(p, k)
      BY <1>3, <1>11
    <2>2. /\ q \in Senders /\ q.congState = "DISORDER" /\ q.buf = s.buf
          /\ q.recover = s.recover /\ q.recoverActive = s.recoverActive
          /\ q.dupAckCount = s.dupAckCount /\ Alike(s, q)
      BY <1>5, <1>11 DEF Alike
    <2> HIDE DEF q
    <2>3. /\ told.congState = "DISORDER" /\ told.buf = s.buf /\ told.recover = s.recover
          /\ told.dupAckCount = s.dupAckCount /\ Alike(s, told) /\ told \in Senders
          /\ ~ (a < s.recover) => ~ told.recoverActive
      <3> told = Deactivate(q, a)
        OBVIOUS
      <3> HIDE DEF told
      <3> QED
        BY <1>1, <2>2, DeactivateAlike DEF Alike
    <2>4. s.recover <= a
      BY <1>11 DEF PointInAck
    <2> HIDE DEF told
    <2>5. CASE isDup
      <3>1. u = told
        BY <2>1, <2>5
      <3>2. PointAtRest(u) /\ Stage(s, u) /\ OutOK(u, F)
        <4>1. ~ u.recoverActive
          BY <1>1, <2>3, <2>4, <3>1
        <4>2. PointAtRest(u)
          BY <1>1, <2>3, <2>4, <3>1, <4>1 DEF PointAtRest
        <4>3. Stage(s, u) /\ OutOK(u, F)
          BY <1>1, <2>3, <3>1 DEF Stage, Alike, OutOK
        <4> QED
          BY <4>2, <4>3
      <3> QED
        BY <1>1, <1>11, <2>3, <2>5, <3>1, <3>2
    <2>6. CASE ~ isDup
      <3>1. u = open(p, k)
        BY <2>1, <2>6
      <3>2. /\ p \in Senders /\ p.congState = "OPEN" /\ p.buf = s.buf
            /\ p.recover = s.recover /\ p.recoverActive = told.recoverActive
            /\ p.dupAckCount = s.dupAckCount /\ Alike(s, p)
        BY <2>3, BackToOpenFrame DEF Alike
      <3> HIDE DEF p
      <3>3. PointAtRest(p)
        BY <1>1, <2>3, <2>4, <3>2 DEF PointAtRest
      <3>4. /\ Stage(s, u) /\ SameState(p, u) /\ PointAtRest(u)
            /\ OutOK(u, F) /\ Covers(u.buf, F) /\ (Size(s.buf) = 0 => ~ u.retxEvent)
        BY <3>1, <3>2, <3>3, OpenFrom
      <3> QED
        BY <1>11, <3>2, <3>4 DEF SameState
    <2> QED
      BY <2>5, <2>6
  <1>12. CASE s.congState \in {"RECOVERY", "LOSS"} /\ ~ (a < s.recover)
    <2> DEFINE q == BackToOpen(acked)
               r == Deactivate(q, a)
               p == IF s.congState = "RECOVERY"
                    THEN [r EXCEPT !.isFirstPartialAck = TRUE, !.dupAckCount = 0,
                                   !.cWnd = s.ssThresh]
                    ELSE [r EXCEPT !.isFirstPartialAck = TRUE]
               n == IF s.congState = "RECOVERY" THEN a - h ELSE a - s.recover
    <2>1. u = open(p, n)
      <3>1. CASE s.congState = "RECOVERY"
        <4>1. n = a - h /\ p = [r EXCEPT !.isFirstPartialAck = TRUE, !.dupAckCount = 0,
                                         !.cWnd = s.ssThresh]
          BY <3>1
        <4> HIDE DEF n, p
        <4> QED
          BY <1>3, <1>12, <3>1, <4>1, Zenon
      <3>2. CASE s.congState = "LOSS"
        <4>1. n = a - s.recover /\ p = [r EXCEPT !.isFirstPartialAck = TRUE]
          BY <3>2
        <4> HIDE DEF n, p
        <4> QED
          BY <1>3, <1>12, <3>2, <4>1, Zenon
      <3> QED
        BY <1>12, <3>1, <3>2
    <2>2. n \in Nat
      BY <1>1, <1>12
    <2>3. /\ q \in Senders /\ q.congState = "OPEN" /\ q.buf = s.buf
          /\ q.recover = s.recover /\ q.recoverActive = s.recoverActive
          /\ q.dupAckCount = s.dupAckCount /\ Alike(s, q)
      BY <1>5, BackToOpenFrame DEF Alike
    <2> HIDE DEF q
    <2>4. /\ r.congState = "OPEN" /\ r.buf = s.buf /\ r.recover = s.recover
          /\ r.dupAckCount = s.dupAckCount /\ Alike(s, r) /\ r \in Senders
          /\ ~ (a < s.recover) => ~ r.recoverActive
      <3> r = Deactivate(q, a)
        OBVIOUS
      <3> HIDE DEF r
      <3> QED
        BY <1>1, <2>3, DeactivateAlike DEF Alike
    <2> HIDE DEF r
    <2>5. s.ssThresh \in Nat
      BY DEF Senders
    <2>6. /\ p \in Senders /\ p.congState = "OPEN" /\ p.buf = s.buf
          /\ p.recover = s.recover /\ p.recoverActive = r.recoverActive
          /\ p.dupAckCount \in {0, s.dupAckCount} /\ Alike(s, p)
      <3>1. CASE s.congState = "RECOVERY"
        BY <2>4, <2>5, <3>1 DEF Senders, Alike
      <3>2. CASE s.congState # "RECOVERY"
        BY <2>4, <3>2 DEF Senders, Alike
      <3> QED
        BY <3>1, <3>2
    <2> HIDE DEF p, n
    <2>7. PointAtRest(p)
      BY <1>1, <1>12, <2>4, <2>6 DEF PointAtRest
    <2>8. /\ Stage(s, u) /\ SameState(p, u) /\ PointAtRest(u)
          /\ OutOK(u, F) /\ Covers(u.buf, F) /\ (Size(s.buf) = 0 => ~ u.retxEvent)
      BY <2>1, <2>2, <2>6, <2>7, OpenFrom
    <2> QED
      BY <1>12, <2>6, <2>8 DEF SameState
  <1> QED
    BY <1>1, <1>7, <1>8, <1>9, <1>10, <1>11, <1>12


\* ProcessAck, once the scoreboard is updated and CWR left or entered.  `F`
\* are the segments that this recovery must not send again.
LEMMA ProcessAckStage ==
    ASSUME NEW s \in Senders, BufInv(s.buf), NEW h \in Nat, h <= s.buf.una,
           NEW isDup \in BOOLEAN, isDup => s.buf.una < s.buf.nxt,
           NEW k \in Nat, NEW t \in Nat,
           NEW F, OutOK(s, F), OutOK(s, {}), Covers(s.buf, F),
           s.congState # "RECOVERY" => F = {},
           PointInAck(s, s.buf.una, h),
           NEW u, u = ProcessAck(s, s.buf.una, h, isDup, k, t)
    PROVE  /\ Stage(s, u) /\ PointAtRest(u) /\ OutOK(u, F) /\ Covers(u.buf, F)
           /\ s.congState = "CWR" <=> u.congState = "CWR"
           /\ (h < s.buf.una /\ ~ isDup /\ Size(s.buf) = 0) =>
                  u.congState \in {"OPEN", "CWR"} /\ u.dupAckCount = 0 /\ ~ u.retxEvent
           /\ (h = s.buf.una /\ ~ isDup /\ s.buf.una = s.buf.nxt) => u = s
  <1> DEFINE a == s.buf.una
             dup == IF isDup THEN DupAck(s, k * SegmentSize) ELSE s
             base == IF isDup THEN dup ELSE [s EXCEPT !.dupAckCount = 0]
             cum == CumulativeAck(base, a, h, isDup, k, s.dupAckCount, t)
  <1>1. a \in Nat /\ s.buf.nxt \in Nat /\ s.recover \in Nat /\ s.dupAckCount \in Nat
    BY BufFacts DEF Senders
  <1>2. /\ h = a /\ a = s.buf.nxt => u = dup
        /\ h = a /\ a # s.buf.nxt => u = PktsAcked(dup, t)
        /\ h < a => u = cum
    <2>1. u = ProcessAck(s, a, h, isDup, k, t)
      OBVIOUS
    <2> HIDE DEF a
    <2>2. /\ (h = a => ~ (a > h)) /\ (h < a => a > h /\ a # h)
      BY <1>1
    <2>3. CASE h = a /\ a = s.buf.nxt
      BY <2>1, <2>2, <2>3 DEF ProcessAck, HighTxMark
    <2>4. CASE h = a /\ a # s.buf.nxt
      BY <2>1, <2>2, <2>4 DEF ProcessAck, HighTxMark
    <2>5. CASE h < a
      <3>1. a > h /\ a # h /\ ~ (h = a)
        BY <2>2, <2>5
      <3>2. CASE isDup
        BY <2>1, <3>1, <3>2, Zenon DEF ProcessAck
      <3>3. CASE ~ isDup
        BY <2>1, <3>1, <3>3, Zenon DEF ProcessAck
      <3> QED
        BY <3>2, <3>3
    <2> QED
      BY <2>2, <2>3, <2>4, <2>5
  <1>3. k * SegmentSize \in Nat
    BY Sizes, MulNat
  <1>4. /\ dup \in Senders /\ BufInv(dup.buf) /\ dup.buf.una = a
        /\ Stage(s, dup) /\ PointInAck(dup, a, h) /\ OutOK(dup, F) /\ Covers(dup.buf, F)
        /\ (s.congState = "CWR" <=> dup.congState = "CWR")
    <2>1. CASE ~ isDup
      <3>1. dup = s
        BY <2>1
      <3>2. Stage(s, s)
        BY <1>1 DEF Stage
      <3> QED
        BY <3>1, <3>2
    <2>2. CASE isDup
      <3>1. dup = DupAck(s, k * SegmentSize)
        BY <2>2
      <3> HIDE DEF dup
      <3>2. /\ Stage(s, dup) /\ OutOK(dup, {}) /\ PointInAck(dup, a, h)
            /\ (s.congState = "CWR" <=> dup.congState = "CWR")
            /\ (s.congState = "RECOVERY" => Keeps(s, dup))
        <4> DEFINE d == k * SegmentSize
        <4>1. d \in Nat /\ dup = DupAck(s, d)
          BY <1>3, <3>1
        <4> HIDE DEF d
        <4> QED
          BY <2>2, <4>1, DupAckStage
      <3>3. dup \in Senders /\ BufInv(dup.buf) /\ dup.buf.una = a
        BY <3>2 DEF Stage
      <3>4. OutOK(dup, F) /\ Covers(dup.buf, F)
        <4>1. CASE s.congState = "RECOVERY"
          BY <3>2, <4>1, KeepsStage
        <4>2. CASE s.congState # "RECOVERY"
          BY <3>2, <4>2 DEF Covers
        <4> QED
          BY <4>1, <4>2
      <3> QED
        BY <3>2, <3>3, <3>4
    <2> QED
      BY <2>1, <2>2
  <1>5. h = a => PointAtRest(dup)
    <2>1. dup.recover \in Nat
      BY <1>4 DEF Senders
    <2> HIDE DEF dup
    <2> QED
      BY <1>1, <1>4, <2>1 DEF PointAtRest, PointInAck
  <1>6. CASE h = a /\ a = s.buf.nxt
    <2>1. u = dup /\ ~ (h < a)
      BY <1>1, <1>2, <1>6
    <2>2. ~ isDup => u = s
      BY <2>1
    <2> HIDE DEF dup
    <2> QED
      BY <1>4, <1>5, <1>6, <2>1, <2>2
  <1>7. CASE h = a /\ a # s.buf.nxt
    <2>1. u = PktsAcked(dup, t) /\ ~ (h < a)
      BY <1>1, <1>2, <1>7
    <2> HIDE DEF dup
    <2>2. Keeps(dup, u)
      BY <1>4, <2>1, PktsAckedKeeps
    <2>3. /\ Stage(dup, u) /\ SameState(dup, u) /\ OutOK(u, F) /\ Covers(u.buf, F)
      BY <1>4, <2>2, KeepsStage
    <2>4. Stage(s, u)
      BY <1>4, <2>3, StageTrans
    <2>5. PointAtRest(u)
      BY <1>4, <1>5, <1>7, <2>3, RestStage
    <2> QED
      BY <1>4, <1>7, <2>1, <2>3, <2>4, <2>5 DEF SameState
  <1>8. CASE h < a
    <2>1. u = cum
      BY <1>2, <1>8
    <2>2. /\ base \in Senders /\ BufInv(base.buf) /\ base.buf.una = a
          /\ Stage(s, base) /\ PointInAck(base, a, h) /\ OutOK(base, F)
          /\ Covers(base.buf, F)
          /\ (s.congState = "CWR" <=> base.congState = "CWR")
          /\ (~ isDup => base.dupAckCount = 0 /\ base.buf = s.buf)
      <3>1. CASE isDup
        <4>1. base = dup
          BY <3>1
        <4> HIDE DEF dup, base
        <4> QED
          BY <1>4, <3>1, <4>1
      <3>2. CASE ~ isDup
        <4>1. base = [s EXCEPT !.dupAckCount = 0]
          BY <3>2
        <4> HIDE DEF base
        <4>2. /\ base \in Senders /\ base.buf = s.buf /\ base.out = s.out
              /\ base.congState = s.congState /\ base.recover = s.recover
              /\ base.recoverActive = s.recoverActive /\ base.retxEvent = s.retxEvent
              /\ base.sendPendingDataEvent = s.sendPendingDataEvent
              /\ base.closed = s.closed /\ base.dupAckCount = 0
          BY <4>1 DEF Senders
        <4>3. Stage(s, base)
          BY <1>1, <4>2 DEF Stage
        <4>4. PointInAck(base, a, h) /\ OutOK(base, F)
          BY <4>2 DEF PointInAck, OutOK
        <4> QED
          BY <4>2, <4>3, <4>4
      <3> QED
        BY <3>1, <3>2
    <2> HIDE DEF base, dup
    <2>3. /\ Stage(base, u) /\ PointAtRest(u) /\ OutOK(u, F) /\ Covers(u.buf, F)
          /\ (base.congState = "CWR" <=> u.congState = "CWR")
          /\ ((~ isDup /\ Size(base.buf) = 0 /\ base.dupAckCount = 0) =>
                 u.congState \in {"OPEN", "CWR"} /\ u.dupAckCount = 0 /\ ~ u.retxEvent)
      <3>1. u = CumulativeAck(base, base.buf.una, h, isDup, k, s.dupAckCount, t)
        BY <2>1, <2>2
      <3>2. h < base.buf.una /\ PointInAck(base, base.buf.una, h)
        BY <1>8, <2>2
      <3> DEFINE dups == s.dupAckCount
      <3>3. /\ base \in Senders /\ BufInv(base.buf) /\ OutOK(base, F)
            /\ Covers(base.buf, F) /\ dups \in Nat
            /\ u = CumulativeAck(base, base.buf.una, h, isDup, k, dups, t)
        BY <1>1, <2>2, <3>1
      <3> HIDE DEF dups
      <3> QED
        BY <3>2, <3>3, CumulativeAckStage
    <2>4. Stage(s, u)
      BY <2>2, <2>3, StageTrans
    <2>5. h # a
      BY <1>1, <1>8
    <2> QED
      BY <2>2, <2>3, <2>4, <2>5
  <1> QED
    BY <1>1, <1>6, <1>7, <1>8


\* LeaveCwr and EcnEcho, from a state at rest whose head has just moved from
\* h to a: CWR is entered on an ACK of new data only.
EcnFrame(s, c, a, h) ==
    /\ Alike(s, c) /\ c.dupAckCount = s.dupAckCount
    /\ PointInAck(c, a, h)
    /\ c.congState = "CWR" => s.congState = "CWR" \/ h < a
    /\ c.congState = "RECOVERY" => s.congState = "RECOVERY"
    /\ s.congState = "RECOVERY" => c.congState \in {"RECOVERY", "CWR"}
    /\ h = a => c.congState = s.congState /\ c.recover = s.recover
                  /\ c.recoverActive = s.recoverActive

\* The recovery point of a state at rest, seen from the head h before the ACK.
PointBefore(s, h) ==
    /\ s.congState = "RECOVERY" =>
           s.recoverActive /\ h < s.recover /\ s.recover <= s.buf.nxt
    /\ s.congState = "LOSS" =>
           s.recoverActive /\ h <= s.recover /\ s.recover <= s.buf.nxt
    /\ s.congState = "CWR" => h <= s.recover /\ s.recover <= s.buf.nxt
    /\ s.congState \in {"OPEN", "DISORDER"} => ~ s.recoverActive /\ s.recover <= h

LEMMA LeaveCwrFrame ==
    ASSUME NEW s \in Senders, NEW a \in Nat, NEW h \in Nat, h <= a, PointBefore(s, h),
           NEW l, l = LeaveCwr(s, a)
    PROVE  EcnFrame(s, l, a, h) /\ l \in Senders
  <1>1. s.recover \in Nat /\ s.ssThresh \in Nat
    BY DEF Senders
  <1>2. CASE s.congState = "CWR" /\ a > s.recover
    <2> DEFINE w == s.ssThresh
    <2>1. w \in Nat
      BY <1>1
    <2> DEFINE v == [s EXCEPT !.congState = "OPEN", !.cWnd = w]
    <2>1a. l = v
      BY <1>2, Zenon DEF LeaveCwr
    <2> HIDE DEF w
    <2>1b. /\ v \in Senders /\ v.buf = s.buf /\ v.out = s.out /\ v.retxEvent = s.retxEvent
           /\ v.sendPendingDataEvent = s.sendPendingDataEvent /\ v.closed = s.closed
           /\ v.dupAckCount = s.dupAckCount /\ v.congState = "OPEN"
           /\ v.recover = s.recover /\ v.recoverActive = s.recoverActive
      BY <2>1 DEF Senders, CongStates
    <2> HIDE DEF v
    <2>2. /\ l \in Senders /\ l.buf = s.buf /\ l.out = s.out /\ l.retxEvent = s.retxEvent
          /\ l.sendPendingDataEvent = s.sendPendingDataEvent /\ l.closed = s.closed
          /\ l.dupAckCount = s.dupAckCount /\ l.congState = "OPEN"
          /\ l.recover = s.recover /\ l.recoverActive = s.recoverActive
      BY <2>1a, <2>1b
    <2>3. Alike(s, l)
      BY <2>2 DEF Alike
    <2>4. h < a /\ s.recover < a
      BY <1>1, <1>2 DEF PointBefore
    <2>5. PointInAck(l, a, h)
      BY <1>1, <2>2, <2>4 DEF PointInAck
    <2> QED
      BY <1>2, <2>2, <2>3, <2>4, <2>5 DEF EcnFrame
  <1>3. CASE ~ (s.congState = "CWR" /\ a > s.recover)
    <2>1. l = s
      BY <1>3 DEF LeaveCwr
    <2>2. Alike(s, s)
      BY DEF Alike
    <2>3. PointInAck(s, a, h)
      <3>1. s.congState = "CWR" => a <= s.recover
        BY <1>1, <1>3
      <3>2. s.recover <= h => s.recover <= a
        BY <1>1
      <3> QED
        BY <3>1, <3>2 DEF PointInAck, PointBefore
    <2> QED
      BY <2>1, <2>2, <2>3 DEF EcnFrame
  <1> QED
    BY <1>2, <1>3

LEMMA EnterCwrFrame ==
    ASSUME NEW s \in Senders, BufInv(s.buf), NEW d \in Nat, NEW c, c = EnterCwr(s, d)
    PROVE  /\ Alike(s, c) /\ c.dupAckCount = s.dupAckCount
           /\ c.congState = "CWR" /\ c.recover = s.buf.nxt
  <1> DEFINE g == GetSsThresh(s)
             n == s.buf.nxt
             cut == [s EXCEPT !.ssThresh = g, !.congState = "CWR", !.recover = n]
  <1>1. g \in Nat /\ n \in Nat
    BY SsThreshType, BufFacts
  <1>2. c = PrrEnterRecovery(cut, d, InFlight(cut), s.isRetransDataAcked)
    BY DEF EnterCwr, HighTxMark
  <1> HIDE DEF g, n
  <1>3. /\ cut \in Senders /\ cut.buf = s.buf /\ cut.out = s.out
        /\ cut.retxEvent = s.retxEvent
        /\ cut.sendPendingDataEvent = s.sendPendingDataEvent /\ cut.closed = s.closed
        /\ cut.dupAckCount = s.dupAckCount /\ cut.congState = "CWR" /\ cut.recover = n
    BY <1>1 DEF Senders, CongStates
  <1> HIDE DEF cut
  <1>4. InFlight(cut) \in Nat /\ s.isRetransDataAcked \in BOOLEAN
    BY <1>3, FlightType DEF Senders
  <1>5. Keeps(cut, c)
    BY <1>2, <1>3, <1>4, PrrEnterKeeps
  <1> QED
    BY <1>3, <1>5 DEF Keeps, SameControl, Alike, n

LEMMA EcnEchoFrame ==
    ASSUME NEW s \in Senders, BufInv(s.buf), NEW l \in Senders, NEW a \in Nat, NEW h \in Nat,
           EcnFrame(s, l, a, h), a <= s.buf.nxt, NEW ece \in BOOLEAN, NEW d \in Nat,
           NEW c, c = EcnEcho(l, a, h, ece, d)
    PROVE  EcnFrame(s, c, a, h)
  <1> DEFINE heard == [l EXCEPT !.ecnEchoSeq = a, !.ecnState = "ECE_RCVD"]
             idle == [l EXCEPT !.ecnState = "IDLE"]
  <1>1. Keeps(l, heard)
    BY DEF Keeps, SameControl, Senders, EcnStates
  <1>2. Keeps(l, idle)
    BY DEF Keeps, SameControl, Senders, EcnStates
  <1>3. Keeps(l, l)
    BY DEF Keeps, SameControl
  <1>4. \/ c = l \/ c = heard \/ c = idle
        \/ a > h /\ l.congState # "CWR" /\ c = EnterCwr(heard, d)
    <2>1. CASE a > h /\ l.ecnState # "DISABLED" /\ ece
      BY <2>1, Zenon DEF EcnEcho
    <2>2. CASE ~ (a > h /\ l.ecnState # "DISABLED" /\ ece) /\ l.ecnState = "ECE_RCVD" /\ ~ ece
      BY <2>2, Zenon DEF EcnEcho
    <2>3. CASE /\ ~ (a > h /\ l.ecnState # "DISABLED" /\ ece)
               /\ ~ (l.ecnState = "ECE_RCVD" /\ ~ ece)
      BY <2>3, Zenon DEF EcnEcho
    <2> QED
      BY <2>1, <2>2, <2>3
  <1> HIDE DEF heard, idle
  <1>5. l.buf = s.buf /\ l.recover \in Nat /\ s.buf.nxt \in Nat
    BY BufFacts DEF EcnFrame, Alike, Senders
  <1>6. CASE \/ c = l \/ c = heard \/ c = idle
    <2>1. Keeps(l, c)
      BY <1>1, <1>2, <1>3, <1>6
    <2>2. /\ c \in Senders /\ c.buf = l.buf /\ c.out = l.out /\ c.retxEvent = l.retxEvent
          /\ c.sendPendingDataEvent = l.sendPendingDataEvent /\ c.closed = l.closed
          /\ c.dupAckCount = l.dupAckCount /\ c.congState = l.congState
          /\ c.recover = l.recover /\ c.recoverActive = l.recoverActive
      BY <2>1 DEF Keeps, SameControl
    <2>3. Alike(s, c)
      BY <2>2 DEF EcnFrame, Alike
    <2>4. PointInAck(c, a, h)
      BY <2>2 DEF EcnFrame, PointInAck
    <2> QED
      BY <2>2, <2>3, <2>4 DEF EcnFrame
  <1>7. CASE a > h /\ l.congState # "CWR" /\ c = EnterCwr(heard, d)
    <2>1. heard \in Senders /\ heard.buf = s.buf /\ BufInv(heard.buf)
      BY <1>1, <1>5 DEF Keeps, SameControl
    <2>2. /\ Alike(heard, c) /\ c.dupAckCount = heard.dupAckCount
          /\ c.congState = "CWR" /\ c.recover = heard.buf.nxt
      BY <1>7, <2>1, EnterCwrFrame
    <2>3. Alike(s, c) /\ c.dupAckCount = s.dupAckCount /\ c.recover = s.buf.nxt
      BY <1>1, <2>1, <2>2 DEF Keeps, SameControl, EcnFrame, Alike
    <2>4. PointInAck(c, a, h)
      <3>1. c.buf.nxt = s.buf.nxt /\ c.recover <= c.buf.nxt /\ a <= c.recover
        BY <1>5, <2>3 DEF Alike
      <3> QED
        BY <2>2, <3>1 DEF PointInAck
    <2>5. h < a /\ h # a
      BY <1>7
    <2> QED
      BY <2>2, <2>3, <2>4, <2>5 DEF EcnFrame
  <1> QED
    BY <1>4, <1>6, <1>7


\* The socket is at rest: OPEN or CWR, no duplicate ACKs counted, no timer.
AtRest(s) ==
    s.congState \in {"OPEN", "CWR"} /\ s.dupAckCount = 0 /\ ~ s.retxEvent

\* An ACK the receiver may have sent: of sent data, not of a SACKed segment,
\* with blocks above it.
AckFits(b, a, blocks) ==
    /\ a \in b.una .. b.nxt /\ a \notin b.sacked
    /\ blocks \subseteq a + 1 .. b.nxt - 1

\* The scoreboard after the blocks and the cumulative part of an ACK.
Acked(b, a, B, seen, c) ==
    /\ BufInv(c) /\ seen.una = b.una /\ c.una = a /\ c.nxt = b.nxt /\ c.end = b.end
    /\ c.sacked \subseteq b.sacked \cup B
    /\ Covers(c, b.retrans \cup b.sacked)
    /\ Cardinality(NewlySacked(b, B)) \in Nat
    /\ Cardinality((seen.una .. a - 1) \ seen.sacked) \in Nat
    /\ NewlySacked(b, B) # {} => a < b.nxt

LEMMA AckedBuffer ==
    ASSUME NEW b, BufInv(b), NEW a, NEW B, AckFits(b, a, B),
           NEW seen, seen = Update(b, B), NEW c, c = DiscardUpTo(seen, a)
    PROVE  Acked(b, a, B, seen, c)
  <1>1. /\ b.una \in Nat /\ b.una >= 1 /\ b.nxt \in Nat /\ a \in Nat /\ b.una <= a
        /\ a <= b.nxt
    BY BufFacts DEF AckFits
  <1>2. B \subseteq b.una + 1 .. b.nxt - 1 /\ a \notin B
    BY <1>1 DEF AckFits
  <1>3. /\ BufInv(seen) /\ seen.una = b.una /\ seen.nxt = b.nxt /\ seen.end = b.end
        /\ seen.sacked = b.sacked \cup NewlySacked(b, B) /\ seen.retrans = b.retrans
    BY <1>2, UpdateInv
  <1>4. NewlySacked(b, B) \subseteq B
    BY DEF NewlySacked
  <1>5. a \notin seen.sacked /\ a \in seen.una .. seen.nxt
    BY <1>1, <1>2, <1>3, <1>4 DEF AckFits
  <1>6. BufInv(c)
    BY <1>3, <1>5, DiscardInv
  <1>7. /\ c.una = a /\ c.nxt = seen.nxt /\ c.end = seen.end
        /\ c.sacked = seen.sacked \ (seen.una .. a - 1)
        /\ c.retrans = seen.retrans \ (seen.una .. a - 1)
    <2>1. seen \in BufferRecords /\ seen.una <= a
      BY <1>1, <1>3, BufFacts
    <2> QED
      BY <1>1, <2>1, DiscardFrame
  <1>8. Covers(c, b.retrans \cup b.sacked)
    <2> SUFFICES ASSUME NEW k \in b.retrans \cup b.sacked, k >= a
                 PROVE  k \in c.retrans \cup c.sacked
      BY <1>7 DEF Covers
    <2>1. k \in Nat
      BY BufFacts DEF BufferRecords
    <2>2. k \notin seen.una .. a - 1
      BY <1>1, <1>3, <2>1
    <2> QED
      BY <1>3, <1>7, <2>2
  <1>9. Cardinality(NewlySacked(b, B)) \in Nat
    <2> DEFINE S == NewlySacked(b, B)
    <2>1. S \subseteq b.una + 1 .. b.nxt - 1
      BY <1>2, <1>4, Zenon
    <2>1a. b.una + 1 \in Int /\ b.nxt - 1 \in Int
      BY <1>1
    <2> HIDE DEF S
    <2>2. Cardinality(S) \in Nat
      BY <2>1, <2>1a, BoundedFinite
    <2> QED
      BY <2>2 DEF S
  <1>10. Cardinality((seen.una .. a - 1) \ seen.sacked) \in Nat
    <2> DEFINE S == (seen.una .. a - 1) \ seen.sacked
    <2>1. S \subseteq b.una .. a - 1 /\ b.una \in Int /\ a - 1 \in Int
      BY <1>1, <1>3
    <2> HIDE DEF S
    <2>2. Cardinality(S) \in Nat
      BY <2>1, BoundedFinite
    <2> QED
      BY <2>2 DEF S
  <1>11. NewlySacked(b, B) # {} => a < b.nxt
    <2> SUFFICES ASSUME NEW k \in NewlySacked(b, B) PROVE a < b.nxt
      OBVIOUS
    <2>1. k \in a + 1 .. b.nxt - 1
      BY <1>4 DEF AckFits
    <2> QED
      BY <1>1, <2>1
  <1>12. c.sacked \subseteq b.sacked \cup B
    BY <1>3, <1>4, <1>7
  <1> QED
    BY <1>3, <1>6, <1>7, <1>8, <1>9, <1>10, <1>11, <1>12, Zenon DEF Acked

\* What the sender s becomes, u, by an ACK a with blocks B.
AfterAck(s, a, B, u) ==
    /\ u \in Senders /\ BufInv(u.buf)
    /\ u.buf.una = a /\ u.buf.end = s.buf.end /\ s.buf.nxt <= u.buf.nxt
    /\ u.buf.sacked \subseteq s.buf.sacked \cup B
    /\ u.sendPendingDataEvent = s.sendPendingDataEvent /\ u.closed = s.closed
    /\ PointAtRest(u) /\ OutOK(u, {})
    /\ Size(u.buf) # 0 /\ s.retxEvent => u.retxEvent
    /\ Size(u.buf) = 0 => AtRest(u)
    /\ s.congState \in {"OPEN", "DISORDER"} /\ u.congState = "CWR" => a > s.recover
    /\ s.congState = "RECOVERY" /\ u.congState = "RECOVERY" =>
           OutOK(u, s.buf.retrans \cup s.buf.sacked)

\* ReceivedAck, as a whole.
LEMMA ReceivedAckStage ==
    ASSUME NEW s \in Senders, BufInv(s.buf), PointAtRest(s), s.out = << >>,
           NEW a, NEW B, AckFits(s.buf, a, B), NEW ece \in BOOLEAN, NEW t \in Nat,
           Size(s.buf) = 0 => AtRest(s),
           NEW u, u = ReceivedAck(s, a, B, ece, t)
    PROVE  AfterAck(s, a, B, u)
  <1> DEFINE seen == Update(s.buf, B)
             new == NewlySacked(s.buf, B)
             isDup == new # {}
             h == seen.una
             safe == /\ s.congState = "RECOVERY" /\ a < s.recover
                     /\ \E x \in h + 1 .. a : IsRetransmittedDataAcked(seen, x)
             k == Cardinality(new) + Cardinality((h .. a - 1) \ seen.sacked)
             b == DiscardUpTo(seen, a)
             told == [s EXCEPT !.buf = b, !.isRetransDataAcked = safe]
             l == LeaveCwr(told, a)
             c == EcnEcho(l, a, h, ece, k * SegmentSize)
             done == ProcessAck(c, a, h, isDup, k, t)
             fin == [done EXCEPT !.isRetransDataAcked = FALSE]
             All == s.buf.retrans \cup s.buf.sacked
             F == IF c.congState = "RECOVERY" THEN All ELSE {}
  <1>1. u = SendPendingData(fin)
    BY Zenon DEF ReceivedAck
  <1>2. /\ BufInv(b) /\ h = s.buf.una /\ b.una = a /\ b.nxt = s.buf.nxt
        /\ b.end = s.buf.end /\ b.sacked \subseteq s.buf.sacked \cup B
        /\ Covers(b, All)
        /\ Cardinality(new) \in Nat /\ Cardinality((h .. a - 1) \ seen.sacked) \in Nat
        /\ (isDup => a < s.buf.nxt)
    <2> DEFINE b0 == s.buf
    <2>1. /\ seen = Update(b0, B) /\ b = DiscardUpTo(seen, a)
          /\ BufInv(b0) /\ AckFits(b0, a, B)
      OBVIOUS
    <2> HIDE DEF seen, b, b0
    <2>2. Acked(b0, a, B, seen, b)
      BY <2>1, AckedBuffer
    <2> QED
      BY <2>2, Zenon DEF b0, Acked
  <1>3. isDup \in BOOLEAN /\ safe \in BOOLEAN
    OBVIOUS
  <1>4. k \in Nat
    BY <1>2
  <1>5. /\ s.buf.una \in Nat /\ s.buf.nxt \in Nat /\ a \in Nat /\ s.buf.una <= a
        /\ a <= s.buf.nxt /\ s.buf.end \in Nat /\ s.buf.nxt <= s.buf.end
        /\ s.recover \in Nat /\ b \in BufferRecords
    BY <1>2, BufFacts DEF AckFits, Senders
  <1> HIDE DEF seen, new, isDup, h, safe, k, b
  <1>6. /\ told \in Senders /\ told.buf = b /\ told.out = s.out
        /\ told.retxEvent = s.retxEvent
        /\ told.sendPendingDataEvent = s.sendPendingDataEvent /\ told.closed = s.closed
        /\ told.dupAckCount = s.dupAckCount /\ told.congState = s.congState
        /\ told.recover = s.recover /\ told.recoverActive = s.recoverActive
    BY <1>3, <1>5 DEF Senders
  <1> HIDE DEF told
  <1>7. PointBefore(told, h)
    BY <1>2, <1>6 DEF PointBefore, PointAtRest
  <1>8. EcnFrame(told, l, a, h) /\ l \in Senders
    BY <1>2, <1>5, <1>6, <1>7, LeaveCwrFrame
  <1> HIDE DEF l
  <1>9. EcnFrame(told, c, a, h)
    <2> DEFINE d == k * SegmentSize
    <2>1. d \in Nat /\ c = EcnEcho(l, a, h, ece, d)
      BY <1>4, Sizes, MulNat
    <2> HIDE DEF c, d
    <2>2. BufInv(told.buf) /\ a <= told.buf.nxt /\ h \in Nat
      BY <1>2, <1>5, <1>6
    <2> QED
      BY <1>5, <1>6, <1>8, <2>1, <2>2, EcnEchoFrame
  <1> HIDE DEF c
  <1>10. /\ c \in Senders /\ c.buf = b /\ c.out = << >> /\ c.retxEvent = s.retxEvent
         /\ c.sendPendingDataEvent = s.sendPendingDataEvent /\ c.closed = s.closed
         /\ c.dupAckCount = s.dupAckCount /\ PointInAck(c, a, h)
         /\ (c.congState = "CWR" => s.congState = "CWR" \/ h < a)
         /\ (c.congState = "RECOVERY" => s.congState = "RECOVERY")
         /\ (s.congState = "RECOVERY" => c.congState \in {"RECOVERY", "CWR"})
         /\ (h = a => c.congState = s.congState)
    BY <1>6, <1>9 DEF EcnFrame, Alike
  <1>11. OutOK(c, F) /\ OutOK(c, {}) /\ Covers(c.buf, F)
         /\ (c.congState # "RECOVERY" => F = {})
    <2>1. Len(c.out) = 0
      BY <1>10
    <2>2. \A G : OutOK(c, G)
      BY <2>1 DEF OutOK
    <2>3. Covers(c.buf, F)
      BY <1>2, <1>10 DEF Covers
    <2> QED
      BY <2>2, <2>3
  <1> HIDE DEF F
  <1>12. /\ Stage(c, done) /\ PointAtRest(done) /\ OutOK(done, F) /\ Covers(done.buf, F)
         /\ (c.congState = "CWR" <=> done.congState = "CWR")
         /\ ((h < a /\ ~ isDup /\ Size(c.buf) = 0) => AtRest(done))
         /\ ((h = a /\ ~ isDup /\ a = c.buf.nxt) => done = c)
    <2>1. /\ c.buf.una = a /\ BufInv(c.buf) /\ h \in Nat /\ h <= c.buf.una
          /\ (isDup => c.buf.una < c.buf.nxt) /\ PointInAck(c, c.buf.una, h)
      BY <1>2, <1>5, <1>10
    <2>2. done = ProcessAck(c, c.buf.una, h, isDup, k, t)
      BY <2>1
    <2> HIDE DEF done
    <2> QED
      BY <1>3, <1>4, <1>10, <1>11, <2>1, <2>2, ProcessAckStage DEF AtRest
  <1> HIDE DEF done
  <1>13. done \in Senders /\ BufInv(done.buf)
    BY <1>12 DEF Stage
  <1>14. Keeps(done, fin)
    BY <1>13 DEF Keeps, SameControl, Senders
  <1> HIDE DEF fin
  <1>15. /\ Stage(done, fin) /\ SameState(done, fin) /\ fin.retxEvent = done.retxEvent
         /\ OutOK(fin, F) /\ Covers(fin.buf, F) /\ fin.buf = done.buf /\ fin \in Senders
    BY <1>12, <1>13, <1>14, KeepsStage
  <1>16. /\ SentFrom(fin, u) /\ OutOK(u, F)
         /\ (NextToSend(fin) = NoSegment => u = fin)
    <2>1. BufInv(fin.buf)
      BY <1>13, <1>15
    <2> QED
      BY <1>1, <1>15, <2>1, PendingSends
  <1>17. Stage(fin, u) /\ SameState(fin, u)
    BY <1>16, SentStage
  <1>18. Stage(c, u) /\ SameState(done, u)
    <2>1. BufInv(c.buf)
      BY <1>2, <1>10
    <2>2. Stage(c, fin)
      BY <1>12, <1>15, <2>1, StageTrans
    <2> QED
      BY <1>15, <1>17, <2>1, <2>2, StageTrans, StateTrans
  <1>19. /\ u \in Senders /\ BufInv(u.buf)
         /\ u.buf.una = a /\ u.buf.end = s.buf.end /\ s.buf.nxt <= u.buf.nxt
         /\ u.buf.sacked \subseteq s.buf.sacked \cup B
         /\ u.sendPendingDataEvent = s.sendPendingDataEvent /\ u.closed = s.closed
    BY <1>2, <1>10, <1>18 DEF Stage
  <1>20. PointAtRest(u)
    BY <1>12, <1>13, <1>18, <1>15, <1>17, RestStage
  <1>21. OutOK(u, {})
    BY <1>16 DEF OutOK
  <1>22. Size(u.buf) = Size(b)
    BY <1>2, <1>19 DEF Size
  <1>23. Size(u.buf) # 0 /\ s.retxEvent => u.retxEvent
    BY <1>10, <1>18, <1>22 DEF Stage
  <1>24. Size(u.buf) = 0 => AtRest(u)
    <2> SUFFICES ASSUME Size(u.buf) = 0 PROVE AtRest(u)
      OBVIOUS
    <2>1. a = b.end /\ a = b.nxt
      <3>1. b.end - a = 0
        BY <1>2, <1>22 DEF Size
      <3> QED
        BY <1>2, <1>5, <3>1
    <2>2. ~ isDup
      <3>1. ~ (a < s.buf.nxt)
        BY <1>2, <1>5, <2>1
      <3> QED
        BY <1>2, <3>1, Zenon
    <2>3. fin.buf.una = a /\ fin.buf.end = b.end /\ BufInv(fin.buf)
      BY <1>2, <1>10, <1>12, <1>13, <1>15 DEF Stage
    <2>4. Size(fin.buf) = 0
      <3>1. fin.buf.end = a /\ fin.buf.una = a /\ a - a = 0
        <4>1. fin.buf.end = b.end /\ b.end = a /\ fin.buf.una = a
          BY <2>1, <2>3, Zenon
        <4>2. a - a = 0
          BY <1>5, SMT
        <4> QED
          BY <4>1, <4>2, Zenon
      <3> QED
        BY <3>1, Zenon DEF Size
    <2>5. NextToSend(fin) = NoSegment
      BY <2>3, <2>4, NextSegEmpty DEF NextToSend
    <2>6. u = fin
      BY <1>16, <2>5
    <2>7. AtRest(done)
      <3>1. CASE h < a
        BY <1>10, <1>12, <1>22, <2>2, <3>1
      <3>2. CASE h = a
        <4>1. Size(s.buf) = 0
          BY <1>2, <1>5, <2>1, <3>2 DEF Size
        <4>2. done = c
          BY <1>2, <1>10, <1>12, <2>1, <2>2, <3>2
        <4> QED
          BY <1>10, <3>2, <4>1, <4>2 DEF AtRest
      <3> QED
        BY <1>2, <1>5, <3>1, <3>2
    <2> QED
      BY <1>15, <2>6, <2>7 DEF AtRest, SameState
  <1>25. s.congState \in {"OPEN", "DISORDER"} /\ u.congState = "CWR" => a > s.recover
    <2> SUFFICES ASSUME s.congState \in {"OPEN", "DISORDER"}, u.congState = "CWR"
                 PROVE  a > s.recover
      OBVIOUS
    <2>1. c.congState = "CWR"
      BY <1>12, <1>18 DEF SameState
    <2>2. h < a
      BY <1>10, <2>1
    <2>3. s.recover <= s.buf.una
      BY DEF PointAtRest
    <2> QED
      BY <1>2, <1>5, <2>2, <2>3
  <1>26. s.congState = "RECOVERY" /\ u.congState = "RECOVERY" => OutOK(u, All)
    <2> SUFFICES ASSUME s.congState = "RECOVERY", u.congState = "RECOVERY"
                 PROVE  OutOK(u, All)
      OBVIOUS
    <2>1. done.congState = "RECOVERY"
      BY <1>18 DEF SameState
    <2>2. c.congState = "RECOVERY"
      BY <1>10, <1>12, <2>1
    <2>3. F = All
      BY <2>2 DEF F
    <2> QED
      BY <1>16, <2>3
  <1> QED
    BY <1>19, <1>20, <1>21, <1>23, <1>24, <1>25, <1>26 DEF AfterAck


-----------------------------------------------------------------------------
(* The retransmission timeout.                                              *)

\* Nothing of the data was sent or all of it acknowledged: the pipe is empty,
\* and what waits is sent from its start.
LEMMA NothingSent ==
    ASSUME NEW b, BufInv(b), b.una = b.nxt
    PROVE  /\ BytesInFlight(b) = 0
           /\ Size(b) # 0 => \A rec : NextSeg(b, N, rec) # NoSegment
  <1>1. /\ b.una \in Nat /\ b.una >= 1 /\ b.nxt \in Nat /\ b.end \in Nat
        /\ b.nxt <= b.end /\ b.retrans \subseteq b.una .. b.nxt - 1
        /\ b.sacked \subseteq b.una .. b.nxt - 1
        /\ b.lost \subseteq b.una .. b.nxt - 1
        /\ ConsistencyCheck(b)
    BY BufFacts, InvParts DEF BufParts, PartsOK
  <1>2. SentList(b) = {} /\ SentSize(b) = 0 /\ b.retrans = {} /\ b.sacked = {} /\ b.lost = {}
    BY <1>1 DEF SentList, SentSize
  <1>3. BytesInFlight(b) = 0
    BY <1>1, <1>2, FS_EmptySet DEF BytesInFlight, ConsistencyCheck
  <1>4. ASSUME Size(b) # 0, NEW rec
        PROVE  NextSeg(b, N, rec) # NoSegment
    <2>1. b.nxt < b.end /\ SentSize(b) < N /\ b.nxt # 0
      BY <1>1, <1>2, <1>4, Sizes DEF Size
    <2>2. NextSeg(b, N, rec) = b.nxt
      BY <1>2, <2>1, Zenon DEF NextSeg
    <2> QED
      BY <2>1, <2>2 DEF NoSegment
  <1> QED
    BY <1>3, <1>4


\* SetSentListLost leaves nothing in flight, and something to send.
LEMMA TimeoutBuffer ==
    ASSUME NEW b, BufInv(b), Size(b) # 0, NEW c, c = SetSentListLost(b), NEW rec
    PROVE  /\ BufInv(c) /\ BytesInFlight(c) = 0 /\ NextSeg(c, N, rec) # NoSegment
           /\ c.una = b.una /\ c.nxt = b.nxt /\ c.end = b.end /\ c.sacked = b.sacked
  <1>1. BufInv(c)
    BY TimeoutInv
  <1>2. /\ c.una = b.una /\ c.nxt = b.nxt /\ c.end = b.end /\ c.sacked = b.sacked
        /\ c.lost = SentList(b) \ b.sacked /\ c.retrans = {} /\ c.retransOut = 0
    BY BufFacts, TimeoutFrame
  <1>3. /\ b.una \in Nat /\ b.una >= 1 /\ b.nxt \in Nat /\ b.end \in Nat
        /\ b.una <= b.nxt /\ b.nxt <= b.end
        /\ b.sacked \subseteq b.una .. b.nxt - 1
    BY BufFacts
  <1>4. SentList(c) = SentList(b)
    BY <1>2 DEF SentList
  <1>5. c.sacked \cup c.lost = SentList(c)
    BY <1>2, <1>3, <1>4 DEF SentList
  <1>6. BytesInFlight(c) = 0
    <2>1. c.sackedOut + c.lostOut = SentSize(c)
      BY <1>1, <1>5, PipeSound
    <2>2. SentSize(c) \in Nat
      BY <1>2, <1>3 DEF SentSize
    <2> QED
      BY <1>2, <2>1, <2>2 DEF BytesInFlight
  <1>7. NextSeg(c, N, rec) # NoSegment
    <2>1. CASE b.una < b.nxt
      <3>1. NextSeg(c, N, rec) = c.una
        <4>1. c.una < c.nxt /\ c.lost = SentList(c) \ c.sacked /\ c.retrans = {}
          BY <1>2, <1>4, <2>1
        <4> QED
          BY <1>1, <4>1, HeadFirst
      <3> QED
        BY <1>2, <1>3, <3>1 DEF NoSegment
    <2>2. CASE b.una = b.nxt
      <3>1. c.una = c.nxt /\ Size(c) # 0
        BY <1>2, <2>2 DEF Size
      <3> QED
        BY <1>1, <3>1, NothingSent
    <2> QED
      BY <1>3, <2>1, <2>2
  <1> QED
    BY <1>1, <1>2, <1>6, <1>7

\* ReTxTimeout of a socket that is not given up.
LEMMA TimeoutStage ==
    ASSUME NEW s \in Senders, BufInv(s.buf), Size(s.buf) # 0, s.dataRetrCount # 0,
           s.out = << >>, NEW u, u = TimeoutSender(s)
    PROVE  /\ u \in Senders /\ BufInv(u.buf)
           /\ u.buf.una = s.buf.una /\ u.buf.end = s.buf.end /\ s.buf.nxt <= u.buf.nxt
           /\ u.buf.sacked = s.buf.sacked
           /\ u.sendPendingDataEvent = s.sendPendingDataEvent /\ u.closed = s.closed
           /\ u.congState = "LOSS" /\ u.recoverActive /\ u.recover = s.buf.nxt
           /\ u.retxEvent /\ OutOK(u, {})
  <1> DEFINE b == SetSentListLost(s.buf)
             n == s.buf.nxt
             d == s.dataRetrCount - 1
             lost == [s EXCEPT !.dataRetrCount = d, !.dupAckCount = 0, !.buf = b,
                               !.recover = n, !.recoverActive = TRUE, !.retxEvent = FALSE]
             g == GetSsThresh(lost)
             thresh == IF lost.congState # "LOSS" \/ ~ IsHeadRetransmitted(lost.buf)
                       THEN [lost EXCEPT !.ssThresh = g] ELSE lost
             event == CwndEventLoss(thresh)
             set == CongestionStateSet(event, "LOSS")
             cut == [set EXCEPT !.congState = "LOSS", !.cWnd = SegmentSize]
             none == InFlight(cut) = 0
             chk == Check(cut, none, "in flight after an RTO")
             sent == SendPendingData(chk)
             one == InFlight(sent) <= SegmentSize
  <1>1. u = Check(sent, one, "more than one segment after an RTO")
    BY Zenon DEF TimeoutSender, HighTxMark
  <1>2. /\ BufInv(b) /\ BytesInFlight(b) = 0
        /\ b.una = s.buf.una /\ b.nxt = s.buf.nxt /\ b.end = s.buf.end
        /\ b.sacked = s.buf.sacked /\ b \in BufferRecords
        /\ \A rec : NextSeg(b, N, rec) # NoSegment
    <2> DEFINE b0 == s.buf
    <2>1. BufInv(b0) /\ Size(b0) # 0 /\ b = SetSentListLost(b0)
      OBVIOUS
    <2> HIDE DEF b0, b
    <2>2. ASSUME NEW rec
          PROVE  /\ BufInv(b) /\ BytesInFlight(b) = 0 /\ NextSeg(b, N, rec) # NoSegment
                 /\ b.una = b0.una /\ b.nxt = b0.nxt /\ b.end = b0.end
                 /\ b.sacked = b0.sacked
      BY <2>1, TimeoutBuffer, Zenon
    <2>3. b \in BufferRecords
      BY <2>2, BufFacts
    <2> QED
      BY <2>2, <2>3, Zenon DEF b0
  <1>3. n \in Nat /\ d \in Nat
    BY BufFacts DEF Senders
  <1> HIDE DEF b, n, d
  <1>4. /\ lost \in Senders /\ lost.buf = b /\ lost.out = s.out /\ lost.dupAckCount = 0
        /\ lost.recover = n /\ lost.recoverActive = TRUE
        /\ lost.sendPendingDataEvent = s.sendPendingDataEvent /\ lost.closed = s.closed
    BY <1>2, <1>3 DEF Senders
  <1> HIDE DEF lost
  <1>5. g \in Nat
    BY <1>4, SsThreshType
  <1> HIDE DEF g
  <1>6. Keeps(lost, thresh)
    <2>1. Keeps(lost, [lost EXCEPT !.ssThresh = g])
      BY <1>4, <1>5 DEF Keeps, SameControl, Senders
    <2>2. Keeps(lost, lost)
      BY <1>4 DEF Keeps, SameControl
    <2> QED
      BY <2>1, <2>2, Zenon
  <1> HIDE DEF thresh
  <1>7. thresh \in Senders
    BY <1>6 DEF Keeps
  <1>8. Keeps(thresh, event)
    BY <1>7, LossEventKeeps
  <1> HIDE DEF event
  <1>9. event \in Senders
    BY <1>8 DEF Keeps
  <1>10. Keeps(event, set)
    BY <1>9, StateSetKeeps
  <1> HIDE DEF set
  <1>11. Keeps(lost, set)
    BY <1>6, <1>8, <1>10, KeepsTrans
  <1>12. /\ set \in Senders /\ set.buf = b /\ set.out = s.out
         /\ set.recover = n /\ set.recoverActive = TRUE
         /\ set.sendPendingDataEvent = s.sendPendingDataEvent /\ set.closed = s.closed
    BY <1>4, <1>11 DEF Keeps, SameControl
  <1>13. /\ cut \in Senders /\ cut.buf = b /\ cut.out = << >>
         /\ cut.recover = n /\ cut.recoverActive = TRUE /\ cut.congState = "LOSS"
         /\ cut.sendPendingDataEvent = s.sendPendingDataEvent /\ cut.closed = s.closed
         /\ cut.cWnd = SegmentSize
    BY <1>12, Sizes DEF Senders, CongStates
  <1> HIDE DEF cut
  <1>14. chk = cut
    <2>1. 0 * SegmentSize = 0
      BY Sizes
    <2>2. none
      BY <1>2, <1>13, <2>1 DEF InFlight
    <2> HIDE DEF none
    <2> QED
      BY <2>2, Zenon DEF Check
  <1> HIDE DEF chk, none
  <1>15. NextToSend(cut) # NoSegment /\ cut.cWnd >= SegmentSize
    <2>1. 0 * SegmentSize = 0 /\ 0 + SegmentSize <= SegmentSize /\ SegmentSize >= SegmentSize
      BY Sizes
    <2>2. InFlight(cut) + SegmentSize <= cut.cWnd
      BY <1>2, <1>13, <2>1 DEF InFlight
    <2>3. NextSeg(cut.buf, N, cut.congState = "RECOVERY") # NoSegment
      BY <1>2, <1>13, Zenon
    <2> QED
      BY <1>13, <2>1, <2>2, <2>3, Zenon DEF NextToSend
  <1>16. OutOK(cut, {}) /\ Covers(cut.buf, {})
    <2>1. Len(cut.out) = 0
      BY <1>13
    <2> QED
      BY <2>1 DEF OutOK, Covers
  <1>17. SentFrom(cut, sent) /\ OutOK(sent, {}) /\ sent.retxEvent
    <2>1. sent = SendPendingData(cut)
      BY <1>14
    <2> HIDE DEF sent
    <2> QED
      BY <1>2, <1>13, <1>15, <1>16, <2>1, PendingSends
  <1> HIDE DEF sent
  <1>18. /\ sent \in Senders /\ BufInv(sent.buf)
         /\ sent.buf.una = s.buf.una /\ sent.buf.end = s.buf.end
         /\ s.buf.nxt <= sent.buf.nxt /\ sent.buf.sacked = s.buf.sacked
         /\ sent.sendPendingDataEvent = s.sendPendingDataEvent /\ sent.closed = s.closed
         /\ sent.congState = "LOSS" /\ sent.recoverActive /\ sent.recover = n
    BY <1>2, <1>13, <1>17 DEF SentFrom
  <1>19. Keeps(sent, u)
    <2> DEFINE name == "more than one segment after an RTO"
    <2>1. name \in Assertions
      BY Zenon DEF Assertions
    <2> HIDE DEF name, one
    <2>2. Keeps(sent, Check(sent, one, name))
      BY <1>18, <2>1, CheckKeeps
    <2> QED
      BY <1>1, <2>2, Zenon DEF name
  <1>20. u.out = sent.out /\ u.buf = sent.buf
    BY <1>19 DEF Keeps, SameControl
  <1>21. OutOK(u, {})
    BY <1>17, <1>20 DEF OutOK
  <1> QED
    BY <1>17, <1>18, <1>19, <1>20, <1>21 DEF Keeps, SameControl, n


-----------------------------------------------------------------------------
(* Packets on the wire: what leaves, joins or is marked.                    *)

LEMMA ToSetDef ==
    ASSUME NEW S, NEW q \in Seq(S)
    PROVE  /\ ToSet(q) = {q[i] : i \in 1 .. Len(q)} /\ ToSet(q) \subseteq S
           /\ \A i \in 1 .. Len(q) : q[i] \in ToSet(q) /\ q[i] \in S
  <1>1. DOMAIN q = 1 .. Len(q) /\ \A i \in 1 .. Len(q) : q[i] \in S
    BY LenProperties, ElementOfSeq
  <1> QED
    BY <1>1 DEF ToSet

LEMMA RemoveAtSet ==
    ASSUME NEW S, NEW q \in Seq(S), NEW i \in 1 .. Len(q)
    PROVE  /\ RemoveAt(q, i) \in Seq(S) /\ ToSet(RemoveAt(q, i)) \subseteq ToSet(q)
           /\ Len(q) \in Nat /\ Len(RemoveAt(q, i)) = Len(q) - 1
  <1> DEFINE T == ToSet(q)
             a == SubSeq(q, 1, i - 1)
             b == SubSeq(q, i + 1, Len(q))
  <1>1. Len(q) \in Nat /\ T \subseteq S /\ \A j \in 1 .. Len(q) : q[j] \in T
    BY ToSetDef, LenProperties
  <1> HIDE DEF T
  <1>2. a \in Seq(T) /\ Len(a) = i - 1
    <2>1. \A j \in 1 .. i - 1 : q[j] \in T
      BY <1>1
    <2> QED
      BY <1>1, <2>1, SubSeqProperties
  <1>3. b \in Seq(T) /\ Len(b) = Len(q) - i
    <2>1. \A j \in i + 1 .. Len(q) : q[j] \in T
      BY <1>1
    <2> QED
      BY <1>1, <2>1, SubSeqProperties
  <1> HIDE DEF a, b
  <1>4. a \o b \in Seq(T) /\ Len(a \o b) = Len(q) - 1
    <2>1. a \o b \in Seq(T) /\ Len(a \o b) = Len(a) + Len(b)
      BY <1>2, <1>3, ConcatProperties
    <2> QED
      BY <1>1, <1>2, <1>3, <2>1
  <1>5. RemoveAt(q, i) = a \o b
    BY DEF RemoveAt, a, b
  <1>6. ToSet(a \o b) \subseteq T
    BY <1>4, ToSetDef
  <1>7. a \o b \in Seq(S)
    BY <1>1, <1>4, SeqMonotonic
  <1> QED
    BY <1>1, <1>4, <1>5, <1>6, <1>7 DEF T

LEMMA TailSet ==
    ASSUME NEW S, NEW q \in Seq(S), q # << >>
    PROVE  /\ Tail(q) \in Seq(S) /\ ToSet(Tail(q)) \subseteq ToSet(q)
           /\ Len(q) \in Nat /\ Len(Tail(q)) = Len(q) - 1
  <1>1. /\ Tail(q) \in Seq(S) /\ Len(Tail(q)) = Len(q) - 1 /\ Len(q) \in Nat
        /\ \A i \in 1 .. Len(Tail(q)) : Tail(q)[i] = q[i + 1]
    BY HeadTailProperties, LenProperties
  <1>2. ASSUME NEW i \in 1 .. Len(Tail(q)) PROVE Tail(q)[i] \in ToSet(q)
    <2>1. i + 1 \in 1 .. Len(q)
      BY <1>1
    <2> QED
      BY <1>1, <2>1, ToSetDef
  <1>3. ToSet(Tail(q)) = {Tail(q)[i] : i \in 1 .. Len(Tail(q))}
    BY <1>1, ToSetDef
  <1> QED
    BY <1>1, <1>2, <1>3

LEMMA AppendSet ==
    ASSUME NEW S, NEW q \in Seq(S), NEW e \in S
    PROVE  Append(q, e) \in Seq(S) /\ ToSet(Append(q, e)) \subseteq ToSet(q) \cup {e}
  <1> DEFINE r == Append(q, e)
  <1>1. /\ r \in Seq(S) /\ Len(r) = Len(q) + 1 /\ Len(q) \in Nat
        /\ \A i \in 1 .. Len(q) : r[i] = q[i]
        /\ r[Len(q) + 1] = e
    BY AppendProperties, LenProperties
  <1> HIDE DEF r
  <1>2. ASSUME NEW i \in 1 .. Len(r) PROVE r[i] \in ToSet(q) \cup {e}
    <2>1. CASE i \in 1 .. Len(q)
      BY <1>1, <2>1, ToSetDef
    <2>2. CASE i = Len(q) + 1
      BY <1>1, <2>2
    <2> QED
      BY <1>1, <2>1, <2>2
  <1>3. ToSet(r) = {r[i] : i \in 1 .. Len(r)}
    BY <1>1, ToSetDef
  <1> QED
    BY <1>1, <1>2, <1>3 DEF r

LEMMA ConcatSet ==
    ASSUME NEW S, NEW q \in Seq(S), NEW p \in Seq(S)
    PROVE  /\ q \o p \in Seq(S)
           /\ \A i \in 1 .. Len(q \o p) :
                  (q \o p)[i] \in ToSet(q) \/ \E j \in 1 .. Len(p) : (q \o p)[i] = p[j]
           /\ \A i \in Len(q) + 1 .. Len(q \o p) :
                  \E j \in 1 .. Len(p) : (q \o p)[i] = p[j]
  <1> DEFINE r == q \o p
  <1>1. /\ r \in Seq(S) /\ Len(r) = Len(q) + Len(p) /\ Len(q) \in Nat /\ Len(p) \in Nat
        /\ \A i \in 1 .. Len(q) + Len(p) :
               r[i] = IF i <= Len(q) THEN q[i] ELSE p[i - Len(q)]
    BY ConcatProperties, LenProperties
  <1> HIDE DEF r
  <1>2. ASSUME NEW i \in 1 .. Len(r), i <= Len(q) PROVE r[i] \in ToSet(q)
    <2>1. i \in 1 .. Len(q) /\ r[i] = q[i]
      BY <1>1, <1>2
    <2> QED
      BY <2>1, ToSetDef
  <1>3. ASSUME NEW i \in 1 .. Len(r), ~ (i <= Len(q))
        PROVE  \E j \in 1 .. Len(p) : r[i] = p[j]
    <2>1. i - Len(q) \in 1 .. Len(p) /\ r[i] = p[i - Len(q)]
      BY <1>1, <1>3
    <2> QED
      BY <2>1
  <1>4. \A i \in Len(q) + 1 .. Len(r) : i \in 1 .. Len(r) /\ ~ (i <= Len(q))
    BY <1>1
  <1> QED
    BY <1>1, <1>2, <1>3, <1>4 DEF r

-----------------------------------------------------------------------------
(* What the network may hold.                                               *)

Receivers ==
    [nextRxSeq: Nat, beyond: SUBSET Nat, delAckCount: Nat,
     ecnState: {"IDLE", "CE_RCVD", "SENDING_ECE"}, ecnCESeq: Nat]

Received(r, k) == k \in 1 .. r.nextRxSeq - 1 \/ k \in r.beyond

\* Sender b, receiver r, segments D and ACKs A on the wire: the receiver has
\* only what was sent, the sender takes for received only what is, and no ACK
\* on the wire, however old, asks for a segment that another reports as held.
NetOK(b, r, D, A) ==
    /\ r.nextRxSeq \in 1 .. b.nxt
    /\ r.beyond \subseteq r.nextRxSeq + 1 .. b.nxt - 1
    /\ b.una <= r.nextRxSeq
    /\ \A k \in b.sacked : Received(r, k)
    /\ \A p \in D : p.seq \in 1 .. b.nxt - 1
    /\ \A x \in A : /\ x.ack \in 1 .. r.nextRxSeq
                    /\ x.ack \notin b.sacked
                    /\ x.blocks \subseteq x.ack + 1 .. b.nxt - 1
                    /\ \A k \in x.blocks : Received(r, k)
    /\ \A x, y \in A : x.ack \notin y.blocks

\* Packets are lost, delivered or marked.
LEMMA NetShrinks ==
    ASSUME NEW b, NEW r, NEW D, NEW A, NetOK(b, r, D, A), NEW D2, NEW A2, A2 \subseteq A,
           \A p \in D2 : p.seq \in 1 .. b.nxt - 1
    PROVE  NetOK(b, r, D2, A2)
  BY Zenon DEF NetOK

\* The receiver gets more.
LEMMA NetReceives ==
    ASSUME NEW b, b.nxt \in Nat, b.una \in Nat, NEW r \in Receivers, NEW D, NEW A,
           NetOK(b, r, D, A), NEW r2 \in Receivers,
           r.nextRxSeq <= r2.nextRxSeq, r2.nextRxSeq <= b.nxt,
           r2.beyond \subseteq r2.nextRxSeq + 1 .. b.nxt - 1,
           \A k : Received(r, k) => Received(r2, k)
    PROVE  NetOK(b, r2, D, A)
  <1>1. r.nextRxSeq \in Nat /\ r2.nextRxSeq \in Nat /\ r.nextRxSeq >= 1
    BY DEF Receivers, NetOK
  <1>2. r2.nextRxSeq \in 1 .. b.nxt /\ b.una <= r2.nextRxSeq
    BY <1>1 DEF NetOK
  <1>3. \A x \in A : x.ack \in 1 .. r2.nextRxSeq
    <2> SUFFICES ASSUME NEW x \in A PROVE x.ack \in 1 .. r2.nextRxSeq
      OBVIOUS
    <2>1. x.ack \in 1 .. r.nextRxSeq
      BY DEF NetOK
    <2> QED
      BY <1>1, <2>1
  <1> QED
    BY <1>2, <1>3, Zenon DEF NetOK

\* The receiver sends an ACK.
LEMMA NetAcks ==
    ASSUME NEW b, b.nxt \in Nat, NEW r \in Receivers, NEW D, NEW A, NetOK(b, r, D, A),
           NEW x, x.ack = r.nextRxSeq, x.blocks = r.beyond
    PROVE  NetOK(b, r, D, A \cup {x})
  <1>1. r.nextRxSeq \in Nat /\ r.nextRxSeq >= 1
    BY DEF Receivers, NetOK
  <1>2. ~ Received(r, r.nextRxSeq)
    <2>1. r.nextRxSeq \notin r.nextRxSeq + 1 .. b.nxt - 1
      BY <1>1
    <2>2. r.nextRxSeq \notin 1 .. r.nextRxSeq - 1
      BY <1>1
    <2> QED
      BY <2>1, <2>2, Zenon DEF NetOK, Received
  <1>3. /\ x.ack \in 1 .. r.nextRxSeq /\ x.ack \notin b.sacked
        /\ x.blocks \subseteq x.ack + 1 .. b.nxt - 1
        /\ \A k \in x.blocks : Received(r, k)
    BY <1>1, <1>2 DEF NetOK, Received
  <1>4. \A y \in A : x.ack \notin y.blocks /\ y.ack \notin x.blocks
    <2> SUFFICES ASSUME NEW y \in A PROVE x.ack \notin y.blocks /\ y.ack \notin x.blocks
      OBVIOUS
    <2>1. y.ack \in 1 .. r.nextRxSeq /\ \A k \in y.blocks : Received(r, k)
      BY DEF NetOK
    <2>2. y.ack \notin r.nextRxSeq + 1 .. b.nxt - 1
      BY <1>1, <2>1
    <2>3. r.beyond \subseteq r.nextRxSeq + 1 .. b.nxt - 1
      BY DEF NetOK
    <2> QED
      BY <1>2, <2>1, <2>2, <2>3
  <1>5. x.ack \notin x.blocks
    BY <1>2 DEF Received
  <1>6. \A y, z \in A \cup {x} : y.ack \notin z.blocks
    BY <1>4, <1>5, Zenon DEF NetOK
  <1>7. \A y \in A \cup {x} : /\ y.ack \in 1 .. r.nextRxSeq
                              /\ y.ack \notin b.sacked
                              /\ y.blocks \subseteq y.ack + 1 .. b.nxt - 1
                              /\ \A k \in y.blocks : Received(r, k)
    BY <1>3, Zenon DEF NetOK
  <1> QED
    BY <1>6, <1>7, Zenon DEF NetOK

\* The sender sends, and takes an ACK for what it says.
LEMMA NetSends ==
    ASSUME NEW b, b.nxt \in Nat, NEW r \in Receivers, NEW D, NEW A, NetOK(b, r, D, A),
           NEW c, c.nxt \in Nat, b.nxt <= c.nxt, c.una <= r.nextRxSeq,
           \A k \in c.sacked : Received(r, k),
           NEW A2, A2 \subseteq A, \A x \in A2 : x.ack \notin c.sacked,
           NEW D2, \A p \in D2 : p \in D \/ p.seq \in 1 .. c.nxt - 1
    PROVE  NetOK(c, r, D2, A2)
  <1>1. r.nextRxSeq \in Nat
    BY DEF Receivers
  <1>2. \A n \in Nat : n .. b.nxt - 1 \subseteq n .. c.nxt - 1
    OBVIOUS
  <1>3. r.nextRxSeq \in 1 .. c.nxt
    BY <1>1 DEF NetOK
  <1>4. r.beyond \subseteq r.nextRxSeq + 1 .. c.nxt - 1
    <2>1. r.nextRxSeq + 1 \in Nat
      BY <1>1
    <2> QED
      BY <1>2, <2>1, Zenon DEF NetOK
  <1>5. \A p \in D2 : p.seq \in 1 .. c.nxt - 1
    BY <1>2 DEF NetOK
  <1>6. \A x \in A2 : x.blocks \subseteq x.ack + 1 .. c.nxt - 1
    <2> SUFFICES ASSUME NEW x \in A2 PROVE x.blocks \subseteq x.ack + 1 .. c.nxt - 1
      OBVIOUS
    <2>1. x.ack \in 1 .. r.nextRxSeq /\ x.blocks \subseteq x.ack + 1 .. b.nxt - 1
      BY DEF NetOK
    <2>2. x.ack + 1 \in Nat
      BY <1>1, <2>1
    <2> QED
      BY <1>2, <2>1, <2>2, Zenon
  <1> QED
    BY <1>3, <1>4, <1>5, <1>6, Zenon DEF NetOK


-----------------------------------------------------------------------------
(* The receiver.                                                            *)

LEMMA EcnForwardUpFrame ==
    ASSUME NEW r \in Receivers, NEW p \in Packets, NEW e, e = EcnForwardUp(r, p)
    PROVE  /\ e \in Receivers /\ e.nextRxSeq = r.nextRxSeq /\ e.beyond = r.beyond
           /\ e.delAckCount = r.delAckCount
  <1> DEFINE m == IF p.ce /\ r.ecnCESeq < p.seq
                  THEN [r EXCEPT !.ecnCESeq = p.seq, !.ecnState = "CE_RCVD"] ELSE r
             i == [m EXCEPT !.ecnState = "IDLE"]
  <1>1. /\ m \in Receivers /\ m.nextRxSeq = r.nextRxSeq /\ m.beyond = r.beyond
        /\ m.delAckCount = r.delAckCount
    BY DEF Receivers, Packets
  <1>2. e = i \/ e = m
    BY Zenon DEF EcnForwardUp
  <1> HIDE DEF m
  <1>3. /\ i \in Receivers /\ i.nextRxSeq = m.nextRxSeq /\ i.beyond = m.beyond
        /\ i.delAckCount = m.delAckCount
    BY <1>1 DEF Receivers
  <1> HIDE DEF i
  <1> QED
    BY <1>1, <1>2, <1>3

\* r2 has all r has, and nothing that was not sent.
Gets(r, r2, n) ==
    /\ r2 \in Receivers
    /\ r.nextRxSeq <= r2.nextRxSeq /\ r2.nextRxSeq <= n
    /\ r2.beyond \subseteq r2.nextRxSeq + 1 .. n - 1
    /\ \A k : Received(r, k) => Received(r2, k)

LEMMA AddSegmentGets ==
    ASSUME NEW r \in Receivers, NEW n \in Nat, n <= N + 1, r.nextRxSeq \in 1 .. n,
           r.beyond \subseteq r.nextRxSeq + 1 .. n - 1, NEW seq \in 1 .. n - 1,
           NEW e, e = AddSegment(r, seq)
    PROVE  Gets(r, e, n) /\ e.delAckCount = r.delAckCount
  <1> DEFINE have == r.beyond \cup {seq}
             S == {k \in r.nextRxSeq .. N + 1 : k \notin have}
             next == Min(S)
             B == {k \in have : k > next}
  <1>1. N \in Nat /\ r.nextRxSeq \in Nat
    BY Sizes DEF Receivers
  <1>2. have \subseteq 1 .. n - 1
    BY <1>1
  <1>3. n \in S
    BY <1>1, <1>2
  <1>4. S \subseteq Nat
    BY <1>1
  <1>5. next \in S /\ next <= n
    <2> HIDE DEF S
    <2> QED
      BY <1>3, <1>4, MinOfNats
  <1>6. e = [r EXCEPT !.nextRxSeq = next, !.beyond = B]
    BY DEF AddSegment
  <1> HIDE DEF next
  <1>7. next \in Nat /\ r.nextRxSeq <= next /\ next \notin have
    BY <1>1, <1>5
  <1> HIDE DEF S
  <1>8. B \in SUBSET Nat /\ B \subseteq next + 1 .. n - 1
    BY <1>2, <1>7
  <1>9. \A k : Received(r, k) => k \in 1 .. next - 1 \/ k \in B
    <2> SUFFICES ASSUME NEW k, Received(r, k) PROVE k \in 1 .. next - 1 \/ k \in B
      OBVIOUS
    <2>1. CASE k \in 1 .. r.nextRxSeq - 1
      BY <1>1, <1>7, <2>1
    <2>2. CASE k \in r.beyond
      <3>1. k \in have /\ k \in 1 .. n - 1 /\ k # next
        BY <1>2, <1>7, <2>2
      <3> QED
        BY <1>7, <3>1
    <2> QED
      BY <2>1, <2>2 DEF Received
  <1> HIDE DEF B
  <1>10. /\ e \in Receivers /\ e.nextRxSeq = next /\ e.beyond = B
         /\ e.delAckCount = r.delAckCount
    BY <1>6, <1>7, <1>8 DEF Receivers
  <1> QED
    BY <1>5, <1>7, <1>8, <1>9, <1>10 DEF Gets, Received


-----------------------------------------------------------------------------
(* The inductive invariant.                                                 *)

SenderOK(s) ==
    /\ s \in Senders /\ BufInv(s.buf) /\ s.out = << >> /\ s.buf.end <= N + 1
    /\ PointAtRest(s)
    /\ Size(s.buf) = 0 => AtRest(s)
    /\ (~ s.closed /\ Size(s.buf) # 0) => (s.retxEvent \/ s.sendPendingDataEvent)

\* Until the send event fires nothing has happened yet.
StartOK(s, r, d, a) ==
    s.sendPendingDataEvent =>
        /\ s.buf.una = s.buf.nxt /\ Size(s.buf) # 0
        /\ s.cWnd = InitialCwnd * SegmentSize /\ ~ s.retxEvent
        /\ r.delAckCount = 0 /\ d = << >> /\ a = << >>

WiresOK(b, r, d, a) ==
    /\ r \in Receivers /\ d \in Seq(Packets) /\ a \in Seq(Acks)
    /\ NetOK(b, r, ToSet(d), ToSet(a))

SenderInv ==
    /\ SenderOK(snd) /\ srtt \in Rtts
    /\ WiresOK(snd.buf, rcv, dataNet, ackNet)
    /\ StartOK(snd, rcv, dataNet, ackNet)

\* What one step of CutOncePerWindow and of NoDoubleRetransmission says.
CutStep ==
    (snd.congState \in {"OPEN", "DISORDER"} /\ snd'.congState = "CWR")
        => snd'.buf.una > snd.recover

ResendStep ==
    (snd.congState = "RECOVERY" /\ snd'.congState = "RECOVERY") =>
        \A i \in Len(dataNet) + 1 .. Len(dataNet') :
            dataNet'[i].seq \notin snd.buf.retrans \cup snd.buf.sacked

SenderStep == SenderInv' /\ CutStep /\ ResendStep

\* A fresh buffer with n segments written.
LEMMA FreshBuffer ==
    ASSUME NEW n \in 1 .. N, NEW b, b = [EmptyBuffer EXCEPT !.end = n + 1]
    PROVE  /\ BufInv(b) /\ b.una = 1 /\ b.nxt = 1 /\ b.end = n + 1 /\ b.sacked = {}
           /\ Size(b) # 0
  <1>1. N \in Nat /\ n \in Nat /\ n >= 1
    BY Sizes
  <1> DEFINE m == n + 1
  <1>2. m \in Nat \ {0} /\ 1 <= m
    BY <1>1
  <1>3. b = [una |-> 1, nxt |-> 1, end |-> m, sacked |-> {}, lost |-> {},
             retrans |-> {}, sackedOut |-> 0, lostOut |-> 0, retransOut |-> 0,
             highestSack |-> 0]
    BY DEF EmptyBuffer, NoSack
  <1> HIDE DEF m
  <1>4. /\ b.una = 1 /\ b.nxt = 1 /\ b.end = m /\ b.sacked = {} /\ b.lost = {}
        /\ b.retrans = {} /\ b.highestSack = 0
        /\ b.sackedOut = 0 /\ b.lostOut = 0 /\ b.retransOut = 0
    BY <1>3
  <1>5. b \in BufferRecords
    <2>1. EmptyBuffer \in BufferRecords
      BY SMT DEF EmptyBuffer, BufferRecords, NoSack
    <2>2. b = [EmptyBuffer EXCEPT !.end = m]
      BY DEF m
    <2> QED
      BY <1>2, <2>1, <2>2, SMT DEF BufferRecords
  <1>6. BufParts(b)
    BY <1>2, <1>4 DEF BufParts, PartsOK
  <1>7. ConsistencyCheck(b)
    BY <1>4, FS_EmptySet DEF ConsistencyCheck
  <1>8. BufInv(b)
    BY <1>5, <1>6, <1>7, PartsInv
  <1> QED
    BY <1>1, <1>4, <1>8 DEF Size, m

LEMMA SenderInit == Init => SenderInv
  <1> SUFFICES ASSUME Init PROVE SenderInv
    OBVIOUS
  <1> DEFINE b == [EmptyBuffer EXCEPT !.end = path.segments + 1]
             w == InitialCwnd * SegmentSize
             e == IF path.marks > 0 THEN "IDLE" ELSE "DISABLED"
  <1>1. path.segments \in 1 .. N
    BY SenderAssumption DEF Init, PathRecords
  <1>2. /\ BufInv(b) /\ b.una = 1 /\ b.nxt = 1 /\ b.end = path.segments + 1
        /\ b.sacked = {} /\ Size(b) # 0
    BY <1>1, FreshBuffer
  <1>3. /\ snd.buf = b /\ snd.cWnd = w /\ snd.out = << >> /\ snd.recover = 0
        /\ snd.congState = "OPEN" /\ snd.recoverActive = FALSE
        /\ snd.retxEvent = FALSE /\ snd.sendPendingDataEvent = TRUE
    BY DEF Init, InitSnd
  <1>4. snd \in Senders
    <2>1. b \in BufferRecords
      BY <1>2, BufFacts
    <2>2. e \in EcnStates
      BY DEF EcnStates
    <2>3. w \in Nat /\ SsThreshInf \in Nat /\ DataRetries \in Nat
      BY Sizes, MulNat, SenderAssumption
    <2>4. << >> \in Seq(Packets) /\ {} \in SUBSET Assertions
      OBVIOUS
    <2>5. snd = [cWnd |-> w, rtt |-> 0, since |-> 0,
                 retransmitCount |-> 0, ssThresh |-> SsThreshInf, congState |-> "OPEN",
                 buf |-> b, dupAckCount |-> 0, recover |-> 0, recoverActive |-> FALSE,
                 isFirstPartialAck |-> TRUE, isRetransDataAcked |-> FALSE,
                 prrDelivered |-> 0, prrOut |-> 0, prrFlight |-> 0,
                 dataRetrCount |-> DataRetries, retxEvent |-> FALSE,
                 sendPendingDataEvent |-> TRUE, closed |-> FALSE,
                 ecnState |-> e, ecnEchoSeq |-> 0, ecnCWRSeq |-> 0,
                 out |-> << >>, failed |-> {}]
      BY Zenon DEF Init, InitSnd
    <2> HIDE DEF b, w, e
    <2> QED
      BY <2>1, <2>2, <2>3, <2>4, <2>5 DEF Senders, CongStates
  <1> HIDE DEF b, w
  <1>5. SenderOK(snd)
    <2>1. snd.buf.end <= N + 1
      BY <1>1, <1>2, <1>3, Sizes
    <2>2. PointAtRest(snd)
      BY <1>2, <1>3 DEF PointAtRest
    <2> QED
      BY <1>2, <1>3, <1>4, <2>1, <2>2 DEF SenderOK
  <1>6. StartOK(snd, rcv, dataNet, ackNet)
    BY <1>2, <1>3 DEF StartOK, Init, w
  <1>7. rcv \in Receivers /\ rcv.nextRxSeq = 1 /\ rcv.beyond = {}
    BY DEF Init, Receivers
  <1>8. ToSet(dataNet) = {} /\ ToSet(ackNet) = {}
    BY DEF Init, ToSet
  <1>9. NetOK(snd.buf, rcv, {}, {})
    BY <1>2, <1>3, <1>7 DEF NetOK
  <1>10. WiresOK(snd.buf, rcv, dataNet, ackNet)
    <2>1. dataNet \in Seq(Packets) /\ ackNet \in Seq(Acks)
      BY DEF Init
    <2> QED
      BY <1>7, <1>8, <1>9, <2>1, Zenon DEF WiresOK
  <1> QED
    BY <1>5, <1>6, <1>10 DEF SenderInv, Init

-----------------------------------------------------------------------------
(* Every event preserves it.                                                *)

\* The sender after a handler that ends with u, whatever it did to the ACKs on
\* the wire: what u sent is on the wire now.
LEMMA HandlerReturns ==
    ASSUME SenderInv, NEW u \in Senders, Becomes(u),
           BufInv(u.buf), u.buf.end <= N + 1, PointAtRest(u),
           Size(u.buf) = 0 => AtRest(u),
           (~ u.closed /\ Size(u.buf) # 0) => u.retxEvent, ~ u.sendPendingDataEvent,
           OutOK(u, {}), snd.buf.nxt <= u.buf.nxt, u.buf.una <= rcv.nextRxSeq,
           \A k \in u.buf.sacked : Received(rcv, k),
           rcv' = rcv, srtt' \in Rtts, ackNet' \in Seq(Acks),
           ToSet(ackNet') \subseteq ToSet(ackNet),
           \A x \in ToSet(ackNet') : x.ack \notin u.buf.sacked
    PROVE  /\ SenderInv' /\ snd'.buf = u.buf /\ snd'.congState = u.congState
           /\ \A F : OutOK(u, F) =>
                  \A i \in Len(dataNet) + 1 .. Len(dataNet') : dataNet'[i].seq \notin F
  <1> DEFINE e == << >>
             v == [u EXCEPT !.out = e]
             p == u.out
  <1>1. /\ snd' = v /\ dataNet' = dataNet \o p /\ p \in Seq(Packets)
    BY DEF Becomes, Senders
  <1>2. e \in Seq(Packets)
    OBVIOUS
  <1> HIDE DEF e
  <1>3. /\ v \in Senders /\ v.buf = u.buf /\ v.out = e /\ v.congState = u.congState
        /\ v.recover = u.recover /\ v.recoverActive = u.recoverActive
        /\ v.dupAckCount = u.dupAckCount /\ v.retxEvent = u.retxEvent
        /\ v.sendPendingDataEvent = u.sendPendingDataEvent /\ v.closed = u.closed
    BY <1>2 DEF Senders
  <1> HIDE DEF v, p
  <1>4. SenderOK(v)
    <2>1. PointAtRest(v)
      BY <1>3, Zenon DEF PointAtRest
    <2>2. Size(v.buf) = 0 => AtRest(v)
      BY <1>3, Zenon DEF AtRest
    <2> QED
      BY <1>3, <2>1, <2>2, Zenon DEF SenderOK, e
  <1>5. /\ rcv \in Receivers /\ dataNet \in Seq(Packets)
        /\ NetOK(snd.buf, rcv, ToSet(dataNet), ToSet(ackNet))
        /\ snd.buf.nxt \in Nat /\ u.buf.nxt \in Nat
    BY BufFacts DEF SenderInv, SenderOK, WiresOK
  <1>6. /\ dataNet' \in Seq(Packets)
        /\ \A i \in 1 .. Len(dataNet') :
               dataNet'[i] \in ToSet(dataNet) \/ \E j \in 1 .. Len(p) : dataNet'[i] = p[j]
        /\ \A i \in Len(dataNet) + 1 .. Len(dataNet') :
               \E j \in 1 .. Len(p) : dataNet'[i] = p[j]
    BY <1>1, <1>5, ConcatSet
  <1>7. \A x \in ToSet(dataNet') :
            x \in ToSet(dataNet) \/ x.seq \in 1 .. u.buf.nxt - 1
    <2>1. ToSet(dataNet') = {dataNet'[i] : i \in 1 .. Len(dataNet')}
      BY <1>6, ToSetDef
    <2>2. \A j \in 1 .. Len(p) : p[j].seq \in 1 .. u.buf.nxt - 1
      BY Zenon DEF OutOK, p
    <2> QED
      BY <1>6, <2>1, <2>2, Zenon
  <1>8. NetOK(u.buf, rcv, ToSet(dataNet'), ToSet(ackNet'))
    <2> DEFINE b == snd.buf
               c == u.buf
               D == ToSet(dataNet)
               A == ToSet(ackNet)
               D2 == ToSet(dataNet')
               A2 == ToSet(ackNet')
    <2>1. /\ b.nxt \in Nat /\ NetOK(b, rcv, D, A) /\ c.nxt \in Nat /\ b.nxt <= c.nxt
          /\ c.una <= rcv.nextRxSeq /\ \A k \in c.sacked : Received(rcv, k)
          /\ A2 \subseteq A /\ \A x \in A2 : x.ack \notin c.sacked
          /\ \A x \in D2 : x \in D \/ x.seq \in 1 .. c.nxt - 1
      BY <1>5, <1>7, Zenon
    <2> HIDE DEF b, c, D, A, D2, A2
    <2>2. NetOK(c, rcv, D2, A2)
      BY <1>5, <2>1, NetSends
    <2> QED
      BY <2>2 DEF c, D2, A2
  <1>9. WiresOK(v.buf, rcv', dataNet', ackNet')
    BY <1>3, <1>5, <1>6, <1>8, Zenon DEF WiresOK
  <1>10. StartOK(v, rcv', dataNet', ackNet')
    BY <1>3, Zenon DEF StartOK
  <1>11. SenderInv'
    BY <1>1, <1>4, <1>9, <1>10, Zenon DEF SenderInv
  <1>12. ASSUME NEW F, OutOK(u, F)
         PROVE  \A i \in Len(dataNet) + 1 .. Len(dataNet') : dataNet'[i].seq \notin F
    <2>1. \A j \in 1 .. Len(p) : p[j].seq \notin F
      BY <1>12, Zenon DEF OutOK, p
    <2> QED
      BY <1>6, <2>1, Zenon
  <1> QED
    BY <1>1, <1>3, <1>11, <1>12

\* What SenderInv says of the sender, in the form the events need.
LEMMA SenderFacts ==
    ASSUME SenderInv
    PROVE  /\ snd \in Senders /\ BufInv(snd.buf) /\ snd.out = << >>
           /\ snd.buf.end <= N + 1 /\ PointAtRest(snd)
           /\ Size(snd.buf) = 0 => AtRest(snd)
           /\ (~ snd.closed /\ Size(snd.buf) # 0)
                => (snd.retxEvent \/ snd.sendPendingDataEvent)
           /\ srtt \in Rtts /\ srtt \in Nat
           /\ rcv \in Receivers /\ dataNet \in Seq(Packets) /\ ackNet \in Seq(Acks)
           /\ NetOK(snd.buf, rcv, ToSet(dataNet), ToSet(ackNet))
           /\ snd.buf.una <= rcv.nextRxSeq
           /\ \A k \in snd.buf.sacked : Received(rcv, k)
           /\ \A x \in ToSet(ackNet) : x.ack \notin snd.buf.sacked
  <1>1. srtt \in Nat
    BY SenderAssumption DEF SenderInv
  <1> QED
    BY <1>1, Zenon DEF SenderInv, SenderOK, WiresOK, NetOK


\* The application's data is sent, as far as the initial window lets it.
LEMMA SendPendingDataEventStep == SenderInv /\ SendPendingDataEvent => SenderStep
  <1> SUFFICES ASSUME SenderInv, SendPendingDataEvent PROVE SenderStep
    OBVIOUS
  <1> DEFINE s == [snd EXCEPT !.sendPendingDataEvent = FALSE]
             u == SendPendingData(s)
  <1>1. /\ Becomes(u) /\ rcv' = rcv /\ srtt' = srtt /\ ackNet' = ackNet
        /\ snd.sendPendingDataEvent
    BY DEF SendPendingDataEvent
  <1>2. /\ snd.buf.una = snd.buf.nxt /\ Size(snd.buf) # 0
        /\ snd.cWnd = InitialCwnd * SegmentSize
    BY <1>1, Zenon DEF SenderInv, StartOK
  <1>3. /\ s \in Senders /\ s.buf = snd.buf /\ s.out = snd.out /\ s.cWnd = snd.cWnd
        /\ s.congState = snd.congState /\ s.recover = snd.recover
        /\ s.recoverActive = snd.recoverActive /\ ~ s.sendPendingDataEvent
    BY SenderFacts DEF Senders
  <1> HIDE DEF s
  <1>4. BufInv(s.buf) /\ s.out = << >> /\ PointAtRest(s)
    BY <1>3, SenderFacts, Zenon DEF PointAtRest
  <1>5. s.cWnd \in Nat /\ s.cWnd >= SegmentSize
    <2> DEFINE i == InitialCwnd
               z == SegmentSize
    <2>1. i \in Nat /\ i >= 1 /\ z \in Nat
      BY Sizes
    <2>2. s.cWnd = i * z
      BY <1>2, <1>3
    <2> HIDE DEF i, z
    <2>3. i * z \in Nat /\ i * z >= z
      BY <2>1
    <2> QED
      BY <2>2, <2>3 DEF z
  <1>6. NextToSend(s) # NoSegment
    <2>1. BytesInFlight(s.buf) = 0 /\ \A rec : NextSeg(s.buf, N, rec) # NoSegment
      BY <1>2, <1>3, <1>4, NothingSent
    <2>2. InFlight(s) + SegmentSize <= s.cWnd
      BY <1>5, <2>1, Sizes DEF InFlight
    <2> QED
      BY <2>1, <2>2, Zenon DEF NextToSend
  <1>7. OutOK(s, {}) /\ Covers(s.buf, {})
    BY <1>4 DEF OutOK, Covers
  <1>8. SentFrom(s, u) /\ OutOK(u, {}) /\ u.retxEvent
    BY <1>3, <1>4, <1>5, <1>6, <1>7, PendingSends
  <1> HIDE DEF u
  <1>9. /\ u \in Senders /\ BufInv(u.buf) /\ u.buf.una = snd.buf.una
        /\ u.buf.end = snd.buf.end /\ u.buf.sacked = snd.buf.sacked
        /\ snd.buf.nxt <= u.buf.nxt /\ u.congState = snd.congState
        /\ u.recover = snd.recover /\ u.recoverActive = snd.recoverActive
        /\ ~ u.sendPendingDataEvent
    BY <1>3, <1>8, Zenon DEF SentFrom
  <1>10. PointAtRest(u)
    <2>1. /\ snd.recover \in Nat /\ snd.buf.nxt \in Nat /\ u.buf.nxt \in Nat
          /\ PointAtRest(snd)
      BY <1>9, SenderFacts, BufFacts DEF Senders
    <2> QED
      BY <1>9, <2>1 DEF PointAtRest
  <1>11. Size(u.buf) # 0
    BY <1>2, <1>9 DEF Size
  <1>12. u.buf.end <= N + 1 /\ u.buf.una <= rcv.nextRxSeq
    BY <1>9, SenderFacts
  <1>13. /\ \A k \in u.buf.sacked : Received(rcv, k)
         /\ \A x \in ToSet(ackNet') : x.ack \notin u.buf.sacked
         /\ ackNet' \in Seq(Acks) /\ ToSet(ackNet') \subseteq ToSet(ackNet)
         /\ srtt' \in Rtts
    BY <1>1, <1>9, SenderFacts, Zenon
  <1>14. /\ SenderInv' /\ snd'.congState = u.congState
         /\ \A F : OutOK(u, F) =>
                \A i \in Len(dataNet) + 1 .. Len(dataNet') : dataNet'[i].seq \notin F
    BY <1>1, <1>8, <1>9, <1>10, <1>11, <1>12, <1>13, HandlerReturns
  <1>15. snd.congState # "RECOVERY"
    <2>1. snd.recover \in Nat /\ snd.buf.nxt \in Nat /\ PointAtRest(snd)
      BY SenderFacts, BufFacts DEF Senders
    <2> QED
      BY <1>2, <2>1 DEF PointAtRest
  <1> QED
    BY <1>9, <1>14, <1>15 DEF SenderStep, CutStep, ResendStep


\* The retransmission timer fires: the socket closes, or enters LOSS with the
\* timer armed again.
LEMMA ReTxTimeoutStep == SenderInv /\ ReTxTimeout => SenderStep
  <1> SUFFICES ASSUME SenderInv, ReTxTimeout PROVE SenderStep
    OBVIOUS
  <1> DEFINE shut == [snd EXCEPT !.closed = TRUE, !.retxEvent = FALSE,
                                 !.sendPendingDataEvent = FALSE]
  <1>1. /\ snd.retxEvent /\ rcv' = rcv /\ srtt' = srtt /\ ackNet' = ackNet
        /\ \/ snd.dataRetrCount = 0 /\ Becomes(shut)
           \/ snd.dataRetrCount # 0 /\ Becomes(TimeoutSender(snd))
    BY DEF ReTxTimeout
  <1>2. Size(snd.buf) # 0 /\ snd.sendPendingDataEvent = FALSE
    <2>1. Size(snd.buf) # 0
      BY <1>1, SenderFacts DEF AtRest
    <2>2. ~ snd.sendPendingDataEvent /\ snd.sendPendingDataEvent \in BOOLEAN
      BY <1>1, SenderFacts DEF SenderInv, StartOK, Senders
    <2> QED
      BY <2>1, <2>2
  <1>3. /\ \A x \in ToSet(ackNet') : x.ack \notin snd.buf.sacked
        /\ ackNet' \in Seq(Acks) /\ ToSet(ackNet') \subseteq ToSet(ackNet)
        /\ srtt' \in Rtts
    BY <1>1, SenderFacts, Zenon
  <1>4. snd.buf.nxt \in Nat /\ snd.buf.una \in Nat /\ snd.buf.una <= snd.buf.nxt
    BY SenderFacts, BufFacts
  <1>5. CASE snd.dataRetrCount = 0 /\ Becomes(shut)
    <2>1. /\ shut \in Senders /\ shut.buf = snd.buf /\ shut.out = snd.out
          /\ shut.congState = snd.congState /\ shut.recover = snd.recover
          /\ shut.recoverActive = snd.recoverActive
          /\ shut.closed /\ ~ shut.sendPendingDataEvent
      BY SenderFacts DEF Senders
    <2> HIDE DEF shut
    <2>2. BufInv(shut.buf) /\ PointAtRest(shut) /\ Size(shut.buf) # 0
      BY <1>2, <2>1, SenderFacts, Zenon DEF PointAtRest
    <2>3. \A F : OutOK(shut, F)
      BY <2>1, SenderFacts DEF OutOK
    <2>4. /\ shut.buf.end <= N + 1 /\ snd.buf.nxt <= shut.buf.nxt
          /\ shut.buf.una <= rcv.nextRxSeq
      BY <1>4, <2>1, SenderFacts
    <2>5. /\ \A k \in shut.buf.sacked : Received(rcv, k)
          /\ \A x \in ToSet(ackNet') : x.ack \notin shut.buf.sacked
      BY <1>3, <2>1, SenderFacts, Zenon
    <2>6. /\ SenderInv' /\ snd'.congState = shut.congState
          /\ \A F : OutOK(shut, F) =>
                 \A i \in Len(dataNet) + 1 .. Len(dataNet') : dataNet'[i].seq \notin F
      BY <1>1, <1>3, <1>5, <2>1, <2>2, <2>3, <2>4, <2>5, HandlerReturns
    <2> QED
      BY <2>1, <2>3, <2>6 DEF SenderStep, CutStep, ResendStep
  <1>6. CASE snd.dataRetrCount # 0 /\ Becomes(TimeoutSender(snd))
    <2> DEFINE u == TimeoutSender(snd)
    <2>1. Becomes(u) /\ u = TimeoutSender(snd)
      BY <1>6
    <2> HIDE DEF u
    <2>2. /\ u \in Senders /\ BufInv(u.buf)
          /\ u.buf.una = snd.buf.una /\ u.buf.end = snd.buf.end
          /\ snd.buf.nxt <= u.buf.nxt /\ u.buf.sacked = snd.buf.sacked
          /\ u.sendPendingDataEvent = snd.sendPendingDataEvent
          /\ u.congState = "LOSS" /\ u.recoverActive /\ u.recover = snd.buf.nxt
          /\ u.retxEvent /\ OutOK(u, {})
      <3> DEFINE s == snd
      <3>1. /\ s \in Senders /\ BufInv(s.buf) /\ Size(s.buf) # 0 /\ s.dataRetrCount # 0
            /\ s.out = << >> /\ u = TimeoutSender(s)
        BY <1>2, <1>6, <2>1, SenderFacts
      <3> HIDE DEF s
      <3> QED
        BY <3>1, TimeoutStage DEF s
    <2>3. PointAtRest(u)
      BY <1>4, <2>2 DEF PointAtRest
    <2>4. Size(u.buf) # 0
      BY <1>2, <2>2 DEF Size
    <2>5. u.buf.end <= N + 1 /\ u.buf.una <= rcv.nextRxSeq
      BY <2>2, SenderFacts
    <2>6. /\ \A k \in u.buf.sacked : Received(rcv, k)
          /\ \A x \in ToSet(ackNet') : x.ack \notin u.buf.sacked
      BY <1>3, <2>2, SenderFacts, Zenon
    <2>7. SenderInv' /\ snd'.congState = u.congState
      BY <1>1, <1>2, <1>3, <2>1, <2>2, <2>3, <2>4, <2>5, <2>6, HandlerReturns
    <2> QED
      BY <2>2, <2>7 DEF SenderStep, CutStep, ResendStep
  <1> QED
    BY <1>1, <1>5, <1>6

\* An ACK arrives.
LEMMA DeliverAckStep == SenderInv /\ DeliverAck => SenderStep
  <1> SUFFICES ASSUME SenderInv, DeliverAck PROVE SenderStep
    OBVIOUS
  <1>1. ~ snd.closed /\ rcv' = rcv
    BY DEF DeliverAck
  <1>2. PICK i \in Arriving(ackNet) :
            /\ ackNet' = RemoveAt(ackNet, i)
            /\ srtt' \in IF ackNet[i].ack > snd.buf.una THEN Rtts \cup {srtt} ELSE {srtt}
            /\ Becomes(IF ackNet[i].ack < snd.buf.una THEN snd
                       ELSE ReceivedAck(snd, ackNet[i].ack, ackNet[i].blocks,
                                        ackNet[i].ece, srtt'))
    BY Zenon DEF DeliverAck
  <1> DEFINE x == ackNet[i]
             a == x.ack
             B == x.blocks
             t == srtt'
  <1>3. /\ ackNet \in Seq(Acks) /\ i \in 1 .. Len(ackNet)
    BY SenderFacts DEF Arriving
  <1>4. x \in ToSet(ackNet) /\ x \in Acks
    BY <1>3, ToSetDef
  <1>5. /\ ackNet' \in Seq(Acks) /\ ToSet(ackNet') \subseteq ToSet(ackNet)
    BY <1>2, <1>3, RemoveAtSet
  <1>6. t \in Rtts /\ t \in Nat
    <2>1. t \in Rtts \/ t = srtt
      <3>1. t \in IF ackNet[i].ack > snd.buf.una THEN Rtts \cup {srtt} ELSE {srtt}
        BY <1>2
      <3> QED
        BY <3>1
    <2>2. t \in Rtts
      BY <2>1, SenderFacts
    <2> QED
      BY <2>2, SenderAssumption
  <1>7. /\ a \in Nat /\ x.ece \in BOOLEAN /\ a >= 1 /\ a <= rcv.nextRxSeq
        /\ rcv.nextRxSeq \in Nat /\ rcv.nextRxSeq <= snd.buf.nxt
        /\ snd.buf.nxt \in Nat /\ snd.buf.una \in Nat /\ snd.buf.una <= snd.buf.nxt
        /\ snd.buf.end \in Nat /\ snd.buf.nxt <= snd.buf.end
    <2>1. /\ a \in 1 .. rcv.nextRxSeq /\ rcv.nextRxSeq \in 1 .. snd.buf.nxt
      BY <1>4, SenderFacts DEF NetOK
    <2>2. rcv.nextRxSeq \in Nat
      BY SenderFacts DEF Receivers
    <2>3. a \in Nat /\ x.ece \in BOOLEAN
      BY <1>4 DEF Acks
    <2>4. BufInv(snd.buf)
      BY SenderFacts
    <2> QED
      BY <2>1, <2>2, <2>3, <2>4, BufFacts
  <1>8. /\ a \notin snd.buf.sacked /\ B \subseteq a + 1 .. snd.buf.nxt - 1
        /\ \A k \in B : Received(rcv, k)
        /\ \A y \in ToSet(ackNet) : y.ack \notin B
    BY <1>4, SenderFacts, Zenon DEF NetOK
  <1>9. ~ snd.sendPendingDataEvent
    <2>1. ackNet # << >>
      BY <1>3
    <2> QED
      BY <2>1, Zenon DEF SenderInv, StartOK
  <1>10. CASE a < snd.buf.una
    <2>1. Becomes(snd)
      BY <1>2, <1>10
    <2>2. \A F : OutOK(snd, F)
      BY SenderFacts DEF OutOK
    <2>3. \A y \in ToSet(ackNet') : y.ack \notin snd.buf.sacked
      BY <1>5, SenderFacts, Zenon
    <2>4. snd.buf.nxt <= snd.buf.nxt
      BY <1>7
    <2>5. (~ snd.closed /\ Size(snd.buf) # 0) => snd.retxEvent
      BY <1>9, SenderFacts
    <2> DEFINE u == snd
    <2>6. /\ u \in Senders /\ Becomes(u) /\ BufInv(u.buf) /\ u.buf.end <= N + 1
          /\ PointAtRest(u) /\ (Size(u.buf) = 0 => AtRest(u))
          /\ ((~ u.closed /\ Size(u.buf) # 0) => u.retxEvent)
          /\ ~ u.sendPendingDataEvent /\ (\A F : OutOK(u, F))
          /\ snd.buf.nxt <= u.buf.nxt /\ u.buf.una <= rcv.nextRxSeq
          /\ (\A k \in u.buf.sacked : Received(rcv, k))
          /\ \A y \in ToSet(ackNet') : y.ack \notin u.buf.sacked
      BY <1>9, <2>1, <2>2, <2>3, <2>4, <2>5, SenderFacts, Zenon
    <2> HIDE DEF u
    <2>7. /\ SenderInv' /\ snd'.congState = u.congState
          /\ \A F : OutOK(u, F) =>
                 \A j \in Len(dataNet) + 1 .. Len(dataNet') : dataNet'[j].seq \notin F
      BY <1>1, <1>5, <1>6, <2>6, HandlerReturns
    <2> QED
      BY <2>2, <2>7 DEF SenderStep, CutStep, ResendStep, u
  <1>11. CASE ~ (a < snd.buf.una)
    <2> DEFINE u == ReceivedAck(snd, a, B, x.ece, t)
    <2>1. Becomes(u) /\ u = ReceivedAck(snd, a, B, x.ece, t)
      BY <1>2, <1>11
    <2>2. AckFits(snd.buf, a, B)
      BY <1>7, <1>8, <1>11 DEF AckFits
    <2> HIDE DEF u, x, a, B, t
    <2>3. /\ u \in Senders /\ BufInv(u.buf)
          /\ u.buf.una = a /\ u.buf.end = snd.buf.end /\ snd.buf.nxt <= u.buf.nxt
          /\ u.buf.sacked \subseteq snd.buf.sacked \cup B
          /\ u.sendPendingDataEvent = snd.sendPendingDataEvent /\ u.closed = snd.closed
          /\ PointAtRest(u) /\ OutOK(u, {})
          /\ (Size(u.buf) # 0 /\ snd.retxEvent => u.retxEvent)
          /\ (Size(u.buf) = 0 => AtRest(u))
          /\ (snd.congState \in {"OPEN", "DISORDER"} /\ u.congState = "CWR"
                 => a > snd.recover)
          /\ (snd.congState = "RECOVERY" /\ u.congState = "RECOVERY" =>
                 OutOK(u, snd.buf.retrans \cup snd.buf.sacked))
      <3> DEFINE s == snd
                 e == x.ece
      <3>1. /\ s \in Senders /\ BufInv(s.buf) /\ PointAtRest(s) /\ s.out = << >>
            /\ (Size(s.buf) = 0 => AtRest(s)) /\ AckFits(s.buf, a, B)
            /\ u = ReceivedAck(s, a, B, e, t)
        BY <2>1, <2>2, SenderFacts
      <3>2. e \in BOOLEAN /\ t \in Nat
        BY <1>6, <1>7
      <3> HIDE DEF s, e
      <3>3. AfterAck(s, a, B, u)
        BY <3>1, <3>2, ReceivedAckStage
      <3> QED
        BY <3>3, Zenon DEF s, AfterAck
    <2>4. Size(u.buf) # 0 => u.retxEvent
      <3>1. Size(u.buf) # 0 => Size(snd.buf) # 0
        BY <1>7, <1>11, <2>3 DEF Size
      <3> QED
        BY <1>1, <1>9, <2>3, <3>1, SenderFacts
    <2>5. u.buf.end <= N + 1 /\ u.buf.una <= rcv.nextRxSeq
      BY <1>7, <2>3, SenderFacts
    <2>6. /\ \A k \in u.buf.sacked : Received(rcv, k)
          /\ \A y \in ToSet(ackNet') : y.ack \notin u.buf.sacked
      BY <1>5, <1>8, <2>3, SenderFacts
    <2>7. /\ SenderInv' /\ snd'.buf = u.buf /\ snd'.congState = u.congState
          /\ \A F : OutOK(u, F) =>
                 \A j \in Len(dataNet) + 1 .. Len(dataNet') : dataNet'[j].seq \notin F
      BY <1>1, <1>5, <1>6, <1>9, <2>1, <2>3, <2>4, <2>5, <2>6, HandlerReturns DEF t
    <2>8. CutStep
      BY <2>3, <2>7, Zenon DEF CutStep
    <2>9. ResendStep
      BY <2>3, <2>7, Zenon DEF ResendStep
    <2> QED
      BY <2>7, <2>8, <2>9 DEF SenderStep
  <1> QED
    BY <1>10, <1>11


\* What the receiver or the network does leaves the sender alone and puts no
\* segment on the wire.
LEMMA NetworkMoves ==
    ASSUME SenderInv, snd' = snd, srtt' = srtt, ~ snd.sendPendingDataEvent,
           WiresOK(snd.buf, rcv', dataNet', ackNet'), Len(dataNet') <= Len(dataNet)
    PROVE  SenderStep
  <1>1. SenderOK(snd') /\ srtt' \in Rtts /\ WiresOK(snd'.buf, rcv', dataNet', ackNet')
    BY Zenon DEF SenderInv
  <1>2. StartOK(snd', rcv', dataNet', ackNet')
    BY Zenon DEF StartOK
  <1>3. SenderInv'
    BY <1>1, <1>2, Zenon DEF SenderInv
  <1>4. Len(dataNet) \in Nat /\ Len(dataNet') \in Nat
    BY LenProperties DEF SenderInv, WiresOK
  <1>5. \A i \in Len(dataNet) + 1 .. Len(dataNet') : FALSE
    BY <1>4
  <1>6. CutStep
    BY DEF CutStep
  <1>7. ResendStep
    BY <1>5, Zenon DEF ResendStep
  <1> QED
    BY <1>3, <1>6, <1>7 DEF SenderStep

\* The receiver r sends the ACK x.
LEMMA AckLeaves ==
    ASSUME NEW b, b.nxt \in Nat, NEW r \in Receivers, NEW d \in Seq(Packets),
           NEW q \in Seq(Acks), NetOK(b, r, ToSet(d), ToSet(q)),
           NEW r2 \in Receivers, r2.nextRxSeq = r.nextRxSeq, r2.beyond = r.beyond,
           NEW x \in Acks, x.ack = r.nextRxSeq, x.blocks = r.beyond
    PROVE  WiresOK(b, r2, d, Append(q, x))
  <1> DEFINE D == ToSet(d)
             A == ToSet(q)
             q2 == Append(q, x)
  <1>1. \A k : Received(r, k) <=> Received(r2, k)
    BY Zenon DEF Received
  <1>2. NetOK(b, r2, D, A)
    BY <1>1, Zenon DEF NetOK
  <1>3. q2 \in Seq(Acks) /\ ToSet(q2) \subseteq A \cup {x}
    BY AppendSet
  <1> HIDE DEF D, A, q2
  <1>4. NetOK(b, r2, D, A \cup {x})
    BY <1>2, NetAcks
  <1>5. NetOK(b, r2, D, ToSet(q2))
    <2>1. \A p \in D : p.seq \in 1 .. b.nxt - 1
      BY <1>2, Zenon DEF NetOK
    <2> QED
      BY <1>3, <1>4, <2>1, NetShrinks
  <1> QED
    BY <1>3, <1>5, Zenon DEF WiresOK, D, q2

LEMMA SendAckLeaves ==
    ASSUME NEW b, b.nxt \in Nat, NEW r \in Receivers, NEW d \in Seq(Packets),
           ackNet \in Seq(Acks), NetOK(b, r, ToSet(d), ToSet(ackNet)),
           SendAck(r) \/ AckOutOfRange(r)
    PROVE  WiresOK(b, rcv', d, ackNet')
  <1> DEFINE echo == r.ecnState \in {"CE_RCVD", "SENDING_ECE"}
             ecn == IF echo THEN "SENDING_ECE" ELSE r.ecnState
             told == [r EXCEPT !.delAckCount = 0, !.ecnState = ecn]
             silent == [r EXCEPT !.delAckCount = 0]
             Ack(e) == [ack |-> r.nextRxSeq, blocks |-> r.beyond, ece |-> e]
  <1>1. ecn \in {"IDLE", "CE_RCVD", "SENDING_ECE"} /\ echo \in BOOLEAN
    BY DEF Receivers
  <1>2. \/ rcv' = told /\ ackNet' = Append(ackNet, Ack(echo))
        \/ rcv' = silent /\ ackNet' = Append(ackNet, Ack(FALSE))
    BY Zenon DEF SendAck, AckOutOfRange
  <1> HIDE DEF echo, ecn
  <1>3. /\ told \in Receivers /\ told.nextRxSeq = r.nextRxSeq /\ told.beyond = r.beyond
        /\ silent \in Receivers /\ silent.nextRxSeq = r.nextRxSeq
        /\ silent.beyond = r.beyond
    BY <1>1 DEF Receivers
  <1>4. r.nextRxSeq \in Nat /\ r.beyond \in SUBSET Nat
    BY DEF Receivers
  <1>5. \A e \in BOOLEAN :
            Ack(e) \in Acks /\ Ack(e).ack = r.nextRxSeq /\ Ack(e).blocks = r.beyond
    BY <1>4 DEF Acks
  <1> HIDE DEF told, silent, Ack
  <1>6. PICK e \in BOOLEAN : ackNet' = Append(ackNet, Ack(e))
    BY <1>1, <1>2, Zenon
  <1> DEFINE x == Ack(e)
             r2 == rcv'
             q == ackNet
  <1>7. x \in Acks /\ x.ack = r.nextRxSeq /\ x.blocks = r.beyond
    BY <1>5, Zenon
  <1>8. r2 \in Receivers /\ r2.nextRxSeq = r.nextRxSeq /\ r2.beyond = r.beyond
    BY <1>2, <1>3, Zenon
  <1>9. q \in Seq(Acks) /\ NetOK(b, r, ToSet(d), ToSet(q))
    OBVIOUS
  <1> HIDE DEF x, r2, q
  <1>10. WiresOK(b, r2, d, Append(q, x))
    BY <1>7, <1>8, <1>9, AckLeaves
  <1> QED
    BY <1>6, <1>10 DEF x, r2, q


\* A segment arrives: the receiver stores it and answers, or waits.
LEMMA DeliverDataStep == SenderInv /\ DeliverData => SenderStep
  <1> SUFFICES ASSUME SenderInv, DeliverData PROVE SenderStep
    OBVIOUS
  <1>1. PICK i \in Arriving(dataNet) :
            LET seq == dataNet[i].seq
                new == AddSegment(EcnForwardUp(rcv, dataNet[i]), seq)
                old == seq < rcv.nextRxSeq \/ seq \in rcv.beyond
                waiting == [new EXCEPT !.delAckCount = @ + 1]
            IN  /\ dataNet' = RemoveAt(dataNet, i)
                /\ CASE seq + 1 < rcv.nextRxSeq -> AckOutOfRange(rcv)
                     [] seq + 1 >= rcv.nextRxSeq /\ (\/ old
                                                     \/ new.beyond # {}
                                                     \/ new.nextRxSeq > rcv.nextRxSeq + 1
                                                     \/ waiting.delAckCount >= DelAckCount)
                          -> SendAck(new)
                     [] OTHER -> rcv' = waiting /\ UNCHANGED ackNet
                /\ UNCHANGED <<snd, srtt, path>>
    BY Zenon DEF DeliverData
  <1> DEFINE p == dataNet[i]
             seq == p.seq
             b == snd.buf
             n == b.nxt
             f == EcnForwardUp(rcv, p)
             new == AddSegment(f, seq)
             w == new.delAckCount + 1
             waiting == [new EXCEPT !.delAckCount = w]
             far == seq + 1 < rcv.nextRxSeq
             near == seq + 1 >= rcv.nextRxSeq
             now == \/ seq < rcv.nextRxSeq \/ seq \in rcv.beyond
                    \/ new.beyond # {}
                    \/ new.nextRxSeq > rcv.nextRxSeq + 1
                    \/ waiting.delAckCount >= DelAckCount
  <1>2. /\ dataNet' = RemoveAt(dataNet, i) /\ snd' = snd /\ srtt' = srtt
        /\ \/ AckOutOfRange(rcv)
           \/ SendAck(new)
           \/ rcv' = waiting /\ ackNet' = ackNet
    <2>1. /\ dataNet' = RemoveAt(dataNet, i) /\ UNCHANGED <<snd, srtt, path>>
          /\ CASE far -> AckOutOfRange(rcv)
               [] near /\ now -> SendAck(new)
               [] OTHER -> rcv' = waiting /\ UNCHANGED ackNet
      BY <1>1, Zenon
    <2> HIDE DEF far, near, now, new, waiting
    <2> QED
      BY <2>1
  <1>3. /\ dataNet \in Seq(Packets) /\ i \in 1 .. Len(dataNet) /\ rcv \in Receivers
        /\ ackNet \in Seq(Acks) /\ BufInv(b) /\ b.end <= N + 1
        /\ NetOK(b, rcv, ToSet(dataNet), ToSet(ackNet))
    BY SenderFacts DEF Arriving
  <1>4. /\ p \in ToSet(dataNet) /\ p \in Packets
    BY <1>3, ToSetDef
  <1>5. /\ dataNet' \in Seq(Packets) /\ ToSet(dataNet') \subseteq ToSet(dataNet)
        /\ Len(dataNet') <= Len(dataNet)
    <2>1. /\ dataNet' \in Seq(Packets) /\ ToSet(dataNet') \subseteq ToSet(dataNet)
          /\ Len(dataNet) \in Nat /\ Len(dataNet') = Len(dataNet) - 1
      BY <1>2, <1>3, RemoveAtSet
    <2> QED
      BY <2>1
  <1>6. ~ snd.sendPendingDataEvent
    <2>1. dataNet # << >>
      BY <1>3
    <2> QED
      BY <2>1, Zenon DEF SenderInv, StartOK
  <1>7. /\ n \in Nat /\ b.una \in Nat /\ n <= N + 1 /\ seq \in 1 .. n - 1
        /\ rcv.nextRxSeq \in 1 .. n /\ rcv.beyond \subseteq rcv.nextRxSeq + 1 .. n - 1
    <2>1. /\ seq \in 1 .. n - 1 /\ rcv.nextRxSeq \in 1 .. n
          /\ rcv.beyond \subseteq rcv.nextRxSeq + 1 .. n - 1
      BY <1>3, <1>4, Zenon DEF NetOK
    <2>2. /\ n \in Nat /\ b.una \in Nat /\ b.end \in Nat /\ n <= b.end
      BY <1>3, BufFacts
    <2>3. n <= N + 1
      <3> DEFINE e == b.end
      <3>1. n \in Nat /\ e \in Nat /\ N \in Nat /\ n <= e /\ e <= N + 1
        BY <1>3, <2>2, Sizes
      <3> HIDE DEF n, e
      <3> QED
        BY <3>1
    <2> QED
      BY <2>1, <2>2, <2>3, Zenon
  <1> DEFINE D == ToSet(dataNet)
             A == ToSet(ackNet)
             D2 == ToSet(dataNet')
  <1>8. NetOK(b, rcv, D2, A)
    <2>1. /\ NetOK(b, rcv, D, A) /\ D2 \subseteq D
      BY <1>3, <1>5
    <2> HIDE DEF b, D, A, D2
    <2>2. \A x \in D2 : x.seq \in 1 .. b.nxt - 1
      BY <2>1, Zenon DEF NetOK
    <2> QED
      BY <2>1, <2>2, NetShrinks
  <1>9. /\ f \in Receivers /\ f.nextRxSeq = rcv.nextRxSeq /\ f.beyond = rcv.beyond
    BY <1>3, <1>4, EcnForwardUpFrame
  <1> HIDE DEF f
  <1>10. Gets(f, new, n)
    BY <1>7, <1>9, AddSegmentGets
  <1> HIDE DEF new
  <1>11. new \in Receivers /\ NetOK(b, new, D2, A)
    <2>1. /\ new \in Receivers /\ rcv.nextRxSeq <= new.nextRxSeq /\ new.nextRxSeq <= n
          /\ new.beyond \subseteq new.nextRxSeq + 1 .. n - 1
          /\ \A k : Received(rcv, k) => Received(new, k)
      BY <1>9, <1>10, Zenon DEF Gets, Received
    <2>2. b.nxt \in Nat /\ b.una \in Nat /\ b.nxt = n
      BY <1>7
    <2> HIDE DEF b, n, D2, A
    <2> QED
      BY <1>3, <1>8, <2>1, <2>2, NetReceives
  <1>12. WiresOK(b, rcv', dataNet', ackNet')
    <2> DEFINE d == dataNet'
    <2>1. d \in Seq(Packets) /\ b.nxt \in Nat
      BY <1>5, <1>7
    <2>2. CASE AckOutOfRange(rcv)
      <3>1. NetOK(b, rcv, ToSet(d), ToSet(ackNet))
        BY <1>8
      <3> HIDE DEF b, d
      <3>2. WiresOK(b, rcv', d, ackNet')
        BY <1>3, <2>1, <2>2, <3>1, SendAckLeaves
      <3> QED
        BY <3>2 DEF d
    <2>3. CASE SendAck(new)
      <3>1. NetOK(b, new, ToSet(d), ToSet(ackNet))
        BY <1>11
      <3> HIDE DEF b, d
      <3>2. WiresOK(b, rcv', d, ackNet')
        BY <1>3, <1>11, <2>1, <2>3, <3>1, SendAckLeaves
      <3> QED
        BY <3>2 DEF d
    <2>4. CASE rcv' = waiting /\ ackNet' = ackNet
      <3>1. w \in Nat
        BY <1>11 DEF Receivers
      <3> HIDE DEF w, b, d
      <3>2. /\ waiting \in Receivers /\ waiting.nextRxSeq = new.nextRxSeq
            /\ waiting.beyond = new.beyond
        BY <1>11, <3>1 DEF Receivers
      <3> HIDE DEF waiting
      <3>3. NetOK(b, waiting, D2, A)
        <4>1. \A k : Received(new, k) <=> Received(waiting, k)
          BY <3>2, Zenon DEF Received
        <4> HIDE DEF D2, A
        <4> QED
          BY <1>11, <3>2, <4>1, Zenon DEF NetOK
      <3> QED
        BY <1>3, <1>5, <2>4, <3>2, <3>3, Zenon DEF WiresOK
    <2> QED
      BY <1>2, <2>2, <2>3, <2>4
  <1> QED
    BY <1>2, <1>5, <1>6, <1>12, NetworkMoves

\* The delayed ACK is sent.
LEMMA DelAckTimeoutStep == SenderInv /\ DelAckTimeout => SenderStep
  <1> SUFFICES ASSUME SenderInv, DelAckTimeout PROVE SenderStep
    OBVIOUS
  <1>1. /\ rcv.delAckCount > 0 /\ SendAck(rcv)
        /\ snd' = snd /\ srtt' = srtt /\ dataNet' = dataNet
    BY DEF DelAckTimeout
  <1>2. ~ snd.sendPendingDataEvent
    BY <1>1 DEF SenderInv, StartOK
  <1> DEFINE b == snd.buf
             d == dataNet
  <1>3. /\ rcv \in Receivers /\ d \in Seq(Packets) /\ ackNet \in Seq(Acks)
        /\ NetOK(b, rcv, ToSet(d), ToSet(ackNet)) /\ b.nxt \in Nat
        /\ Len(dataNet') <= Len(dataNet)
    <2>1. BufInv(b) /\ d \in Seq(Packets)
      BY SenderFacts
    <2>2. b.nxt \in Nat /\ Len(d) \in Nat
      BY <2>1, BufFacts, LenProperties
    <2> QED
      BY <1>1, <2>2, SenderFacts
  <1> HIDE DEF b, d
  <1>4. WiresOK(b, rcv', d, ackNet')
    BY <1>1, <1>3, SendAckLeaves
  <1>5. WiresOK(snd.buf, rcv', dataNet', ackNet')
    BY <1>1, <1>4 DEF b, d
  <1> QED
    BY <1>1, <1>2, <1>3, <1>5, NetworkMoves

\* Packets are lost.
LEMMA LoseStep == SenderInv /\ (LoseData \/ LoseAck) => SenderStep
  <1> SUFFICES ASSUME SenderInv, LoseData \/ LoseAck PROVE SenderStep
    OBVIOUS
  <1>1. /\ snd' = snd /\ srtt' = srtt /\ rcv' = rcv
        /\ \/ dataNet # << >> /\ dataNet' = Tail(dataNet) /\ ackNet' = ackNet
           \/ ackNet # << >> /\ ackNet' = Tail(ackNet) /\ dataNet' = dataNet
    BY DEF LoseData, LoseAck
  <1>2. ~ snd.sendPendingDataEvent
    BY <1>1, Zenon DEF SenderInv, StartOK
  <1>3. /\ rcv \in Receivers /\ dataNet \in Seq(Packets) /\ ackNet \in Seq(Acks)
        /\ NetOK(snd.buf, rcv, ToSet(dataNet), ToSet(ackNet)) /\ Len(dataNet) \in Nat
    BY SenderFacts, LenProperties
  <1>4. /\ dataNet' \in Seq(Packets) /\ ToSet(dataNet') \subseteq ToSet(dataNet)
        /\ ackNet' \in Seq(Acks) /\ ToSet(ackNet') \subseteq ToSet(ackNet)
        /\ Len(dataNet') <= Len(dataNet)
    <2>1. CASE dataNet # << >> /\ dataNet' = Tail(dataNet) /\ ackNet' = ackNet
      <3>1. /\ dataNet' \in Seq(Packets) /\ ToSet(dataNet') \subseteq ToSet(dataNet)
            /\ Len(dataNet') = Len(dataNet) - 1
        BY <1>3, <2>1, TailSet
      <3> QED
        BY <1>3, <2>1, <3>1
    <2>2. CASE ackNet # << >> /\ ackNet' = Tail(ackNet) /\ dataNet' = dataNet
      <3>1. ackNet' \in Seq(Acks) /\ ToSet(ackNet') \subseteq ToSet(ackNet)
        BY <1>3, <2>2, TailSet
      <3> QED
        BY <1>3, <2>2, <3>1
    <2> QED
      BY <1>1, <2>1, <2>2
  <1> DEFINE b == snd.buf
             D == ToSet(dataNet)
             A == ToSet(ackNet)
             D2 == ToSet(dataNet')
             A2 == ToSet(ackNet')
  <1>5. /\ NetOK(b, rcv, D, A) /\ D2 \subseteq D /\ A2 \subseteq A
    BY <1>3, <1>4
  <1> HIDE DEF b, D, A, D2, A2
  <1>6. \A x \in D2 : x.seq \in 1 .. b.nxt - 1
    BY <1>5, Zenon DEF NetOK
  <1>7. NetOK(b, rcv, D2, A2)
    BY <1>5, <1>6, NetShrinks
  <1>8. WiresOK(snd.buf, rcv', dataNet', ackNet')
    BY <1>1, <1>3, <1>4, <1>7, Zenon DEF WiresOK, b, D2, A2
  <1> QED
    BY <1>1, <1>2, <1>4, <1>8, NetworkMoves

\* A queue marks a segment: its number stays.
LEMMA MarkDataStep == SenderInv /\ MarkData => SenderStep
  <1> SUFFICES ASSUME SenderInv, MarkData PROVE SenderStep
    OBVIOUS
  <1> DEFINE h == [dataNet[1] EXCEPT !.ce = TRUE]
             d == [dataNet EXCEPT ![1] = h]
  <1>1. /\ snd' = snd /\ srtt' = srtt /\ rcv' = rcv /\ ackNet' = ackNet
        /\ dataNet # << >> /\ dataNet' = d
    BY DEF MarkData
  <1>2. ~ snd.sendPendingDataEvent
    BY <1>1, Zenon DEF SenderInv, StartOK
  <1>3. /\ rcv \in Receivers /\ dataNet \in Seq(Packets) /\ ackNet \in Seq(Acks)
        /\ NetOK(snd.buf, rcv, ToSet(dataNet), ToSet(ackNet)) /\ Len(dataNet) \in Nat
    BY SenderFacts, LenProperties
  <1>4. 1 \in 1 .. Len(dataNet)
    BY <1>1, <1>3, EmptySeq
  <1>5. dataNet[1] \in Packets /\ dataNet[1] \in ToSet(dataNet)
    BY <1>3, <1>4, ToSetDef
  <1>6. h \in Packets /\ h.seq = dataNet[1].seq
    BY <1>5 DEF Packets
  <1> HIDE DEF h
  <1>7. /\ d \in Seq(Packets) /\ Len(d) = Len(dataNet) /\ d[1] = h
        /\ \A i \in 1 .. Len(dataNet) : i # 1 => d[i] = dataNet[i]
    BY <1>3, <1>4, <1>6, ExceptSeq
  <1> HIDE DEF d
  <1>8. \A x \in ToSet(d) : x.seq \in 1 .. snd.buf.nxt - 1
    <2>1. ToSet(d) = {d[i] : i \in 1 .. Len(d)}
      BY <1>7, ToSetDef
    <2>2. \A x \in ToSet(dataNet) : x.seq \in 1 .. snd.buf.nxt - 1
      BY <1>3, Zenon DEF NetOK
    <2>3. \A i \in 1 .. Len(dataNet) : dataNet[i] \in ToSet(dataNet)
      BY <1>3, ToSetDef
    <2>4. ASSUME NEW i \in 1 .. Len(d) PROVE d[i].seq \in 1 .. snd.buf.nxt - 1
      <3>1. d[i].seq = dataNet[i].seq
        BY <1>6, <1>7
      <3> QED
        BY <1>7, <2>2, <2>3, <3>1, Zenon
    <2> QED
      BY <2>1, <2>4, Zenon
  <1> DEFINE b == snd.buf
             D == ToSet(dataNet)
             A == ToSet(ackNet)
             D2 == ToSet(d)
  <1>9. NetOK(b, rcv, D, A) /\ (\A x \in D2 : x.seq \in 1 .. b.nxt - 1) /\ A \subseteq A
    BY <1>3, <1>8
  <1> HIDE DEF b, D, A, D2
  <1>10. NetOK(b, rcv, D2, A)
    BY <1>9, NetShrinks
  <1>11. WiresOK(snd.buf, rcv', dataNet', ackNet')
    BY <1>1, <1>3, <1>7, <1>10, Zenon DEF WiresOK, b, D2, A
  <1>12. Len(dataNet') <= Len(dataNet)
    BY <1>1, <1>3, <1>7
  <1> QED
    BY <1>1, <1>2, <1>11, <1>12, NetworkMoves


\* Time passes.
LEMMA ElapseStep == SenderInv /\ Elapse => SenderStep
  <1> SUFFICES ASSUME SenderInv, Elapse PROVE SenderStep
    OBVIOUS
  <1> DEFINE v == [snd EXCEPT !.since = MaxRtt]
  <1>1. /\ snd' = v /\ srtt' = srtt /\ rcv' = rcv
        /\ dataNet' = dataNet /\ ackNet' = ackNet
    BY DEF Elapse
  <1>2. MaxRtt \in Nat
    BY SenderAssumption
  <1>3. /\ v \in Senders /\ v.buf = snd.buf /\ v.out = snd.out
        /\ v.congState = snd.congState /\ v.recover = snd.recover
        /\ v.recoverActive = snd.recoverActive /\ v.dupAckCount = snd.dupAckCount
        /\ v.retxEvent = snd.retxEvent /\ v.cWnd = snd.cWnd
        /\ v.sendPendingDataEvent = snd.sendPendingDataEvent /\ v.closed = snd.closed
    BY <1>2, SenderFacts DEF Senders
  <1> HIDE DEF v
  <1>4. SenderOK(v)
    BY <1>3, Zenon DEF SenderInv, SenderOK, PointAtRest, AtRest
  <1>5. StartOK(v, rcv, dataNet, ackNet)
    BY <1>3, Zenon DEF SenderInv, StartOK
  <1>6. SenderInv'
    BY <1>1, <1>3, <1>4, <1>5, Zenon DEF SenderInv
  <1>7. CutStep
    BY <1>1, <1>3 DEF CutStep
  <1>8. ResendStep
    <2>1. Len(dataNet) \in Nat
      BY SenderFacts, LenProperties
    <2>2. \A i \in Len(dataNet) + 1 .. Len(dataNet') : FALSE
      BY <1>1, <2>1
    <2> QED
      BY <2>2, Zenon DEF ResendStep
  <1> QED
    BY <1>6, <1>7, <1>8 DEF SenderStep

\* One step per event.
LEMMA SenderNext == SenderInv /\ Next => SenderStep
  BY SendPendingDataEventStep, DeliverAckStep, ReTxTimeoutStep, DeliverDataStep,
     DelAckTimeoutStep, LoseStep, MarkDataStep, ElapseStep DEF Next

LEMMA SenderStutter == SenderInv /\ UNCHANGED vars => SenderInv'
  BY DEF vars, SenderInv, SenderOK, StartOK, WiresOK, PointAtRest, AtRest, NetOK, Received

\* What the properties ask of a state follows.
LEMMA SenderInvImplies ==
    SenderInv => SenderBehindReceiver /\ TimerArmed /\ RecoveryPoint /\ RestsClean
  <1> SUFFICES ASSUME SenderInv
               PROVE  SenderBehindReceiver /\ TimerArmed /\ RecoveryPoint /\ RestsClean
    OBVIOUS
  <1>1. /\ snd.buf.una \in Nat /\ snd.buf.nxt \in Nat /\ snd.buf.end \in Nat
        /\ snd.buf.una <= snd.buf.nxt /\ snd.buf.nxt <= snd.buf.end
        /\ snd.recover \in Nat /\ rcv.nextRxSeq \in Nat /\ snd.congState \in CongStates
    BY SenderFacts, BufFacts DEF Senders, Receivers
  <1>2. SenderBehindReceiver
    <2>1. rcv.nextRxSeq \in 1 .. snd.buf.nxt
      BY SenderFacts DEF NetOK
    <2>2. \A k \in snd.buf.sacked : k < rcv.nextRxSeq \/ k \in rcv.beyond
      BY <1>1, SenderFacts DEF Received
    <2> QED
      BY <1>1, <2>1, <2>2, SenderFacts DEF SenderBehindReceiver
  <1>3. TimerArmed
    <2>1. Size(snd.buf) > 0 => Size(snd.buf) # 0
      BY <1>1 DEF Size
    <2> QED
      BY <2>1, SenderFacts, Zenon DEF TimerArmed
  <1>4. RecoveryPoint
    BY <1>1, SenderFacts DEF RecoveryPoint, PointAtRest, CongStates
  <1>5. RestsClean
    <2> SUFFICES ASSUME Size(snd.buf) = 0
                 PROVE  AtRest(snd) /\ BytesInFlight(snd.buf) = 0
      BY Zenon DEF RestsClean, AtRest
    <2>1. snd.buf.una = snd.buf.nxt
      BY <1>1 DEF Size
    <2> QED
      BY <2>1, SenderFacts, NothingSent
  <1> QED
    BY <1>2, <1>3, <1>4, <1>5

-----------------------------------------------------------------------------
(* The theorems.                                                            *)

\* Between two events of the simulator the sending socket, the receiving socket
\* and the packets on the wire satisfy SenderInv, for every transfer, window,
\* number of losses, marks and overtakings.
THEOREM SenderInvariant == Spec => []SenderInv
  <1>1. SenderInv /\ [Next]_vars => SenderInv'
    BY SenderNext, SenderStutter DEF SenderStep
  <1> QED
    BY SenderInit, <1>1, PTL DEF Spec


\* TcpSocketBase never takes for acknowledged or SACKed what the peer does not
\* hold, and TcpRxBuffer never holds what was not sent, however packets are
\* lost, overtaken or retransmitted.
THEOREM SenderAlwaysBehindReceiver == Spec => []SenderBehindReceiver
  BY SenderInvariant, SenderInvImplies, PTL

\* NewAck, ReTxTimeout and SendPendingData leave m_retxEvent or the send event
\* pending while the buffer of an open socket holds data.
THEOREM TimerAlwaysArmed == Spec => []TimerArmed
  BY SenderInvariant, SenderInvImplies, PTL

\* m_recoverActive and m_recover agree with the congestion state, and the
\* recovery point lies within the sent data: DupAck never compares with the
\* point of an earlier congestion event.
THEOREM RecoveryPointAlwaysSound == Spec => []RecoveryPoint
  BY SenderInvariant, SenderInvImplies, PTL

\* A socket whose data is all acknowledged is in OPEN or CWR, has counted no
\* duplicate ACK, has nothing in flight and no retransmission timer.
THEOREM AlwaysRestsClean == Spec => []RestsClean
  BY SenderInvariant, SenderInvImplies, PTL

\* EnterCwr cuts the window for an echo only when an ACK passes the recovery
\* point of the last congestion event.
THEOREM CutsOncePerWindow == Spec => CutOncePerWindow
  <1>1. SenderInv /\ [Next]_vars => [CutStep]_vars
    BY SenderNext DEF SenderStep
  <1>2. [][CutStep]_vars => CutOncePerWindow
    BY PTL DEF CutOncePerWindow, CutStep
  <1> QED
    BY <1>1, <1>2, SenderInvariant, PTL DEF Spec

\* In RECOVERY neither NextSeg nor DoRetransmit picks a segment that was
\* retransmitted in this recovery or is SACKed.
THEOREM NeverRetransmitsTwice == Spec => NoDoubleRetransmission
  <1>1. SenderInv /\ [Next]_vars => [ResendStep]_vars
    BY SenderNext DEF SenderStep
  <1>2. [][ResendStep]_vars => NoDoubleRetransmission
    BY PTL DEF NoDoubleRetransmission, ResendStep
  <1> QED
    BY <1>1, <1>2, SenderInvariant, PTL DEF Spec
=============================================================================
