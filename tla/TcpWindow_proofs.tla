-------------------------- MODULE TcpWindow_proofs --------------------------
(***************************************************************************)
(* Proofs about TcpWindow, for any segment size, amount of data, buffer,   *)
(* congestion windows, reads and losses.                                   *)
(***************************************************************************)
EXTENDS TcpWindow, SequenceTheorems, WellFoundedInduction, TLAPS

-----------------------------------------------------------------------------
(* Iteration: SendPendingData is a loop.  The facts are stated over sets,   *)
(* not over predicates, so that the provers can instantiate them.           *)

\* A set of natural numbers that is not empty has a least element.
LEMMA LeastNat ==
    ASSUME NEW T \in SUBSET Nat, T # {}
    PROVE  \E m \in T : \A k \in T : m <= k
  <1> DEFINE R == OpToRel(<, Nat)
  <1>1. IsWellFoundedOn(R, Nat)
    BY NatLessThanWellFounded
  <1>2. PICK m \in T : \A k \in T : ~ (<<k, m>> \in R)
    <2> HIDE DEF R
    <2> QED
      BY <1>1, WFMin, Zenon
  <1>3. ASSUME NEW k \in T PROVE m <= k
    <2>1. <<k, m>> \notin R
      BY <1>2
    <2>2. <<k, m>> \in Nat \X Nat
      OBVIOUS
    <2>3. ~ (k < m)
      BY <2>1, <2>2 DEF OpToRel
    <2> QED
      BY <2>3
  <1> QED
    BY <1>3

\* Induction on the natural numbers.
LEMMA NatInduct ==
    ASSUME NEW S, 0 \in S, \A n \in Nat : n \in S => n + 1 \in S
    PROVE  Nat \subseteq S
  <1> SUFFICES ASSUME NEW n0 \in Nat, n0 \notin S PROVE FALSE
    OBVIOUS
  <1> DEFINE T == {n \in Nat : n \notin S}
  <1>1. PICK m \in T : \A k \in T : m <= k
    BY LeastNat
  <1>2. m # 0
    OBVIOUS
  <1>3. m - 1 \in Nat /\ m - 1 \notin T
    BY <1>1, <1>2
  <1> QED
    BY <1>3

\* g[k] is what k rounds of F make of s, for k up to n.
Iterates(F, s, n, g) ==
    g[0] = s /\ \A k \in 1 .. n : g[k] = F[g[k - 1]]

\* A function on X can be iterated n times from s.
LEMMA IterExists ==
    ASSUME NEW X, NEW F \in [X -> X], NEW s \in X, NEW n \in Nat
    PROVE  \E g \in [0 .. n -> X] : Iterates(F, s, n, g)
  <1> DEFINE S == {m \in Nat : \E g \in [0 .. m -> X] : Iterates(F, s, m, g)}
  <1>1. 0 \in S
    <2> DEFINE g0 == [k \in 0 .. 0 |-> s]
    <2>1. g0 \in [0 .. 0 -> X]
      OBVIOUS
    <2>2. Iterates(F, s, 0, g0)
      BY DEF Iterates
    <2> QED
      BY <2>1, <2>2
  <1>2. ASSUME NEW m \in Nat, m \in S PROVE m + 1 \in S
    <2>1. PICK g \in [0 .. m -> X] : Iterates(F, s, m, g)
      BY <1>2
    <2> DEFINE h == [k \in 0 .. m + 1 |-> IF k <= m THEN g[k] ELSE F[g[m]]]
    <2>2. h \in [0 .. m + 1 -> X]
      OBVIOUS
    <2>3. h[0] = s
      BY <2>1 DEF Iterates
    <2>4. ASSUME NEW k \in 1 .. m + 1 PROVE h[k] = F[h[k - 1]]
      BY <2>1 DEF Iterates
    <2>5. Iterates(F, s, m + 1, h)
      BY <2>3, <2>4 DEF Iterates
    <2> QED
      BY <2>2, <2>5
  <1>3. Nat \subseteq S
    <2> HIDE DEF S
    <2> QED
      BY <1>1, <1>2, NatInduct
  <1> QED
    BY <1>3

\* A loop that starts in X and whose body stays in X ends in X.
LEMMA LoopInvariant ==
    ASSUME NEW X, NEW n \in Nat, NEW f, f[0] \in X,
           \A k \in 1 .. n : f[k - 1] \in X => f[k] \in X
    PROVE  f[n] \in X
  <1> DEFINE S == {k \in Nat : k <= n => f[k] \in X}
  <1>1. 0 \in S
    OBVIOUS
  <1>2. ASSUME NEW k \in Nat, k \in S PROVE k + 1 \in S
    <2> SUFFICES ASSUME k + 1 <= n PROVE f[k + 1] \in X
      OBVIOUS
    <2>1. f[k] \in X /\ k + 1 \in 1 .. n /\ (k + 1) - 1 = k
      BY <1>2
    <2> QED
      BY <2>1
  <1>3. n \in S
    <2> HIDE DEF S
    <2>1. Nat \subseteq S
      BY <1>1, <1>2, NatInduct
    <2> QED
      BY <2>1
  <1> QED
    BY <1>3

-----------------------------------------------------------------------------
(* The inductive invariant.                                                 *)

\* A sequence number at which a segment may begin or end: data is cut into
\* whole segments, and what is left at its end.
OnGrid(x) == \E k \in 0 .. x : x = 1 + k * SegmentSize
Aligned(x) == x = Bytes + 1 \/ OnGrid(x)

Segment == [seq : Nat, len : Nat, probe : BOOLEAN]
Ack == [ack : Nat, wnd : Nat]

SndType ==
    [una : Nat, nxt : Nat, end : {Bytes + 1}, lostTo : Nat, rxt : Nat,
     cWnd : CWnds, rWnd : Nat, highRxAckMark : Nat, dataRetrCount : Nat,
     retxEvent : BOOLEAN, persistEvent : BOOLEAN, sendPendingDataEvent : BOOLEAN,
     closed : BOOLEAN, crashed : BOOLEAN, out : Seq(Segment)]

RcvType == [nextRxSeq : Nat, unread : 0 .. MaxBuffer, delAckCount : Nat]

\* The right edge of the window as the sender knows it.
KnownEdge(s) == s.highRxAckMark + s.rWnd

\* Data on its way has been cut at the grid and lies below nxt.
WellCut(p, nxt) ==
    ~ p.probe => p.seq + p.len <= nxt /\ Aligned(p.seq + p.len)

\* The sender, at every step of a handler.
SndOK(s) ==
    /\ s \in SndType
    /\ s.una <= s.nxt /\ s.nxt <= s.end
    /\ s.rxt <= s.lostTo /\ s.lostTo <= s.nxt
    /\ Aligned(s.una) /\ Aligned(s.nxt) /\ Aligned(s.lostTo) /\ Aligned(s.rxt)
    /\ s.una <= s.highRxAckMark
    /\ s.nxt <= KnownEdge(s)
    /\ \A i \in DOMAIN s.out : WellCut(s.out[i], s.nxt)

\* What is in flight was sent within the window above what is acknowledged.
WithinWindow(s) == s.una < s.nxt => s.nxt <= s.una + s.rWnd

\* A zero window is probed.
ZeroIsProbed(s) == s.rWnd = 0 => s.persistEvent \/ s.closed \/ s.crashed

\* The sender stalls only below a silly window.
StallOK(s) ==
    /\ ~ s.closed /\ ~ s.crashed /\ s.una < s.end
    /\ ~ s.retxEvent /\ ~ s.persistEvent /\ ~ s.sendPendingDataEvent
    => 0 < s.rWnd /\ s.rWnd < SegmentSize /\ s.una = s.nxt

\* ACKs are in order, and none advertises less than one before it.
AcksOK ==
    /\ \A i \in DOMAIN ackNet :
         /\ snd.highRxAckMark <= ackNet[i].ack /\ ackNet[i].ack <= rcv.nextRxSeq
         /\ KnownEdge(snd) <= ackNet[i].ack + ackNet[i].wnd
         /\ ackNet[i].ack + ackNet[i].wnd <= MaxRxSequence(rcv)
         /\ Aligned(ackNet[i].ack) \/ ackNet[i].ack > snd.nxt
    /\ \A i, j \in DOMAIN ackNet : i <= j =>
         /\ ackNet[i].ack <= ackNet[j].ack
         /\ ackNet[i].ack + ackNet[i].wnd <= ackNet[j].ack + ackNet[j].wnd

EdgesOK ==
    /\ snd.highRxAckMark <= rcv.nextRxSeq
    /\ KnownEdge(snd) <= MaxRxSequence(rcv)

\* A probe travels alone, while the sender waits for it.
ProbeAlone ==
    \A i \in DOMAIN dataNet : dataNet[i].probe =>
        /\ Len(dataNet) = 1 /\ ackNet = <<>> /\ rcv.delAckCount = 0
        /\ snd.persistEvent /\ ~ snd.sendPendingDataEvent
        /\ dataNet[i].seq = snd.nxt /\ dataNet[i].len = 1

\* The receiver is ahead of the sender only by the byte of a probe, and then
\* at most one packet is on its way.
AheadByProbe ==
    rcv.nextRxSeq > snd.nxt =>
        /\ rcv.nextRxSeq = snd.nxt + 1 /\ snd.una = snd.nxt
        /\ ~ snd.sendPendingDataEvent
        /\ \/ dataNet = <<>> /\ ackNet = <<>> /\ rcv.delAckCount = 0
           \/ /\ snd.persistEvent
              /\ \/ /\ \A i \in DOMAIN dataNet : dataNet[i].probe
                    /\ ackNet = <<>> /\ rcv.delAckCount = 0
                 \/ dataNet = <<>> /\ Len(ackNet) = 1 /\ rcv.delAckCount = 0
                 \/ dataNet = <<>> /\ ackNet = <<>>

\* A probe's byte puts the receiver off the grid until the segment it belongs
\* to arrives, and no ACK tells the sender.
OffGrid ==
    rcv.nextRxSeq <= snd.nxt /\ ~ Aligned(rcv.nextRxSeq) =>
        /\ ackNet = <<>> /\ rcv.delAckCount = 0
        /\ dataNet # <<>> /\ ~ Head(dataNet).probe
        /\ Head(dataNet).seq < rcv.nextRxSeq
        /\ Head(dataNet).seq + Head(dataNet).len > rcv.nextRxSeq

\* Until the first SendPendingData nothing has been sent.
NotYetSent ==
    snd.sendPendingDataEvent =>
        /\ dataNet = <<>> /\ ackNet = <<>> /\ rcv.delAckCount = 0
        /\ snd.una = snd.nxt

IInv ==
    /\ SndOK(snd) /\ snd.out = <<>>
    /\ WithinWindow(snd) /\ ZeroIsProbed(snd) /\ PersistOnlyIdle /\ StallOK(snd)
    /\ rcv \in RcvType /\ dataNet \in Seq(Segment) /\ ackNet \in Seq(Ack)
    /\ losses \in Nat
    /\ \A i \in DOMAIN dataNet : WellCut(dataNet[i], snd.nxt)
    /\ EdgesOK /\ AcksOK
    /\ ProbeAlone /\ AheadByProbe /\ OffGrid /\ NotYetSent

-----------------------------------------------------------------------------
(* The grid.                                                                *)

LEMMA Constants ==
    /\ SegmentSize \in Nat /\ SegmentSize > 0
    /\ Bytes \in Nat /\ Bytes > 0 /\ MaxBuffer \in Nat /\ MaxBuffer > 0
    /\ \A w \in CWnds : w \in Nat /\ w >= SegmentSize
    /\ SegmentSize \in CWnds
    /\ \A k \in Reads : k \in Nat
  BY WindowAssumption

LEMMA GridStarts == Aligned(1)
  <1>1. 0 \in 0 .. 1 /\ 1 = 1 + 0 * SegmentSize
    BY Constants
  <1> QED
    BY <1>1 DEF Aligned, OnGrid

LEMMA GridNext ==
    ASSUME NEW x \in Nat, OnGrid(x)
    PROVE  OnGrid(x + SegmentSize)
  <1>1. PICK k \in 0 .. x : x = 1 + k * SegmentSize
    BY DEF OnGrid
  <1>2. k + 1 \in 0 .. x + SegmentSize
    BY Constants
  <1>3. (k + 1) * SegmentSize = k * SegmentSize + SegmentSize
    BY Constants
  <1>4. k * SegmentSize \in Nat
    BY Constants
  <1>5. x + SegmentSize = 1 + (k + 1) * SegmentSize
    BY <1>1, <1>3, <1>4, Constants
  <1> QED
    BY <1>2, <1>5 DEF OnGrid

LEMMA GridGap ==
    ASSUME NEW x \in Nat, NEW y \in Nat, OnGrid(x), OnGrid(y), x < y
    PROVE  x + SegmentSize <= y
  <1>1. PICK k \in 0 .. x : x = 1 + k * SegmentSize
    BY DEF OnGrid
  <1>2. PICK l \in 0 .. y : y = 1 + l * SegmentSize
    BY DEF OnGrid
  <1>3. /\ k \in Nat /\ l \in Nat /\ SegmentSize \in Nat
        /\ k * SegmentSize \in Nat /\ l * SegmentSize \in Nat
    BY Constants
  <1>4. k < l
    <2>1. \A i, j, n \in Nat : j <= i => j * n <= i * n
      OBVIOUS
    <2>2. ~ (l * SegmentSize <= k * SegmentSize)
      BY <1>1, <1>2, <1>3
    <2>3. ~ (l <= k)
      BY <1>3, <2>1, <2>2
    <2> QED
      BY <1>3, <2>3
  <1>5. (k + 1) * SegmentSize <= l * SegmentSize
    <2>1. \A i, j, n \in Nat : j <= i => j * n <= i * n
      OBVIOUS
    <2>2. k + 1 \in Nat /\ k + 1 <= l
      BY <1>3, <1>4
    <2> QED
      BY <1>3, <2>1, <2>2
  <1>6. (k + 1) * SegmentSize = k * SegmentSize + SegmentSize
    BY <1>3
  <1> QED
    BY <1>1, <1>2, <1>3, <1>5, <1>6

\* Two points of the grid are a segment apart, or the second is the end.
LEMMA AlignedGap ==
    ASSUME NEW x \in Nat, NEW y \in Nat, Aligned(x), Aligned(y), x < y, y <= Bytes + 1
    PROVE  y = Bytes + 1 \/ x + SegmentSize <= y
  BY GridGap, Constants DEF Aligned

\* Cutting a segment, or what is left, at a point of the grid leads to one.
LEMMA AlignedCut ==
    ASSUME NEW x \in Nat, Aligned(x), NEW y \in Nat, Aligned(y), x < y, y <= Bytes + 1
    PROVE  Aligned(x + Smaller(SegmentSize, y - x)) /\ x + Smaller(SegmentSize, y - x) <= y
  <1>1. OnGrid(x)
    BY Constants DEF Aligned
  <1>2. CASE SegmentSize < y - x
    BY <1>1, <1>2, GridNext, Constants DEF Smaller, Aligned
  <1>3. CASE ~ (SegmentSize < y - x)
    BY <1>3, Constants DEF Smaller
  <1> QED
    BY <1>2, <1>3

-----------------------------------------------------------------------------
(* One round of the loop of SendPendingData.                                *)

LEMMA SndFields ==
    ASSUME NEW s, SndOK(s)
    PROVE  /\ s \in SndType
           /\ s.una \in Nat /\ s.nxt \in Nat /\ s.end = Bytes + 1 /\ s.lostTo \in Nat
           /\ s.rxt \in Nat /\ s.rWnd \in Nat /\ s.highRxAckMark \in Nat
           /\ s.cWnd \in CWnds /\ s.cWnd \in Nat /\ s.cWnd >= SegmentSize
           /\ s.dataRetrCount \in Nat
           /\ s.una <= s.nxt /\ s.nxt <= Bytes + 1
           /\ s.rxt <= s.lostTo /\ s.lostTo <= s.nxt
           /\ s.out \in Seq(Segment)
  BY Constants DEF SndOK, SndType

\* Where sending goes on: below lostTo it is a retransmission.
Again(s) == Larger(s.rxt, s.una)

LEMMA InFlightFacts ==
    ASSUME NEW s, SndOK(s)
    PROVE  /\ Again(s) \in Nat /\ Again(s) >= s.una
           /\ InFlight(s) \in Nat
           /\ Again(s) >= s.lostTo => InFlight(s) = s.nxt - s.una
           /\ AvailableWindow(s) \in Nat
           /\ AvailableWindow(s) <= s.rWnd /\ AvailableWindow(s) <= s.cWnd
           /\ AvailableWindow(s) > 0 => AvailableWindow(s) + InFlight(s) <= s.rWnd
           /\ InFlight(s) = 0 => AvailableWindow(s) = Smaller(s.rWnd, s.cWnd)
  <1>1. /\ s.una \in Nat /\ s.nxt \in Nat /\ s.lostTo \in Nat /\ s.rxt \in Nat
        /\ s.rWnd \in Nat /\ s.cWnd \in Nat
        /\ s.una <= s.nxt /\ s.rxt <= s.lostTo /\ s.lostTo <= s.nxt
    BY SndFields
  <1>2. /\ Again(s) \in Nat /\ Again(s) >= s.una
        /\ InFlight(s) \in Nat
        /\ Again(s) >= s.lostTo => InFlight(s) = s.nxt - s.una
    BY <1>1 DEF Again, InFlight, Larger
  <1> HIDE DEF InFlight
  <1> QED
    BY <1>1, <1>2 DEF AvailableWindow, Larger, Smaller

\* A round that sends, sends a whole segment or the last one: one taken for
\* lost, or the next new one within the window.
LEMMA NextSegFacts ==
    ASSUME NEW s, SndOK(s), ~ Blocked(s)
    PROVE  LET seq == NextSeg(s).seq
               len == Smaller(NextSeg(s).len, AvailableWindow(s))
           IN  /\ seq \in Nat /\ len \in Nat /\ len > 0 /\ seq >= s.una
               /\ Aligned(seq + len)
               /\ \/ seq < s.nxt /\ seq + len <= s.lostTo
                  \/ /\ seq = s.nxt /\ seq + len <= Bytes + 1
                     /\ seq + len <= s.una + s.rWnd
  <1> DEFINE again == Again(s)
             av    == AvailableWindow(s)
             room  == Smaller(s.end, s.una + s.rWnd) - s.nxt
             seq   == NextSeg(s).seq
             len   == Smaller(NextSeg(s).len, av)
  <1>1. /\ s.una \in Nat /\ s.nxt \in Nat /\ s.lostTo \in Nat /\ s.rWnd \in Nat
        /\ s.end = Bytes + 1 /\ s.una <= s.nxt /\ s.lostTo <= s.nxt /\ s.nxt <= Bytes + 1
        /\ SegmentSize \in Nat /\ SegmentSize > 0 /\ Bytes \in Nat
    BY SndFields, Constants
  <1>2. /\ again \in Nat /\ again >= s.una /\ av \in Nat
        /\ InFlight(s) \in Nat
        /\ again >= s.lostTo => InFlight(s) = s.nxt - s.una
        /\ av > 0 => av + InFlight(s) <= s.rWnd
    BY InFlightFacts
  <1>3. /\ av # 0 /\ NextSeg(s).len # 0
        /\ av >= SegmentSize \/ s.end - seq <= av
    <2>1. av # 0 /\ NextSeg(s).len # 0 /\ ~ SillyWindow(s, seq)
      BY DEF Blocked
    <2>2. av >= SegmentSize \/ s.end - seq <= av
      <3>1. seq \in Int
        BY <1>1, <1>2 DEF NextSeg, Again
      <3> QED
        BY <1>1, <1>2, <2>1, <3>1 DEF SillyWindow
    <2> QED
      BY <2>1, <2>2
  <1>4. CASE again < s.lostTo
    <2>1. seq = again /\ NextSeg(s).len = Smaller(SegmentSize, s.lostTo - again)
      BY <1>1, <1>2, <1>4 DEF NextSeg, Again
    <2>2. Aligned(again) /\ Aligned(s.lostTo)
      BY DEF SndOK, Again, Larger
    <2> HIDE DEF again, av
    <2>3. len = Smaller(SegmentSize, s.lostTo - again)
      BY <1>1, <1>2, <1>3, <1>4, <2>1 DEF Smaller
    <2>4. /\ Aligned(again + Smaller(SegmentSize, s.lostTo - again))
          /\ again + Smaller(SegmentSize, s.lostTo - again) <= s.lostTo
      BY <1>1, <1>2, <1>4, <2>2, AlignedCut
    <2>5. len \in Nat /\ len > 0
      BY <1>1, <1>2, <1>4, <2>3 DEF Smaller
    <2> HIDE DEF seq, len
    <2> QED
      BY <1>1, <1>2, <1>4, <2>1, <2>3, <2>4, <2>5 DEF seq, len, av
  <1>5. CASE ~ (again < s.lostTo)
    <2>1. seq = s.nxt /\ NextSeg(s).len = Larger(Smaller(SegmentSize, room), 0)
      BY <1>1, <1>2, <1>5 DEF NextSeg, Again
    <2> HIDE DEF again, av
    <2>2. av + (s.nxt - s.una) <= s.rWnd /\ room \in Int
      BY <1>1, <1>2, <1>3, <1>5 DEF Smaller
    <2>3. s.nxt < Bytes + 1
      BY <1>1, <1>3, <2>1 DEF Smaller, Larger
    <2>4. len = Smaller(SegmentSize, (Bytes + 1) - s.nxt)
      BY <1>1, <1>2, <1>3, <2>1, <2>2, <2>3 DEF Smaller, Larger
    <2>5. Aligned(s.nxt) /\ Aligned(Bytes + 1) /\ Bytes + 1 \in Nat
      BY <1>1 DEF SndOK, Aligned
    <2>6. /\ Aligned(s.nxt + Smaller(SegmentSize, (Bytes + 1) - s.nxt))
          /\ s.nxt + Smaller(SegmentSize, (Bytes + 1) - s.nxt) <= Bytes + 1
      BY <1>1, <2>3, <2>5, AlignedCut
    <2>7. len \in Nat /\ len > 0 /\ s.nxt + len <= s.una + s.rWnd
      BY <1>1, <1>2, <1>3, <2>1, <2>2, <2>3, <2>4 DEF Smaller
    <2> HIDE DEF seq, len
    <2> QED
      BY <1>1, <2>1, <2>4, <2>6, <2>7 DEF seq, len, av
  <1> QED
    BY <1>4, <1>5

\* t is what sending makes of b, which had sent nothing yet: new segments, in
\* the window and cut at the grid, and the retransmission timer if there are
\* any.
SentFrom(b, t) ==
    /\ SndOK(t)
    /\ t.una = b.una /\ t.cWnd = b.cWnd /\ t.rWnd = b.rWnd
    /\ t.highRxAckMark = b.highRxAckMark /\ t.dataRetrCount = b.dataRetrCount
    /\ t.sendPendingDataEvent = b.sendPendingDataEvent
    /\ t.closed = b.closed /\ t.crashed = b.crashed
    /\ b.nxt <= t.nxt
    /\ t.nxt = b.nxt \/ t.nxt <= b.una + b.rWnd
    /\ \A i \in DOMAIN t.out : ~ t.out[i].probe
    /\ t.out = <<>> => t.nxt = b.nxt /\ t.retxEvent = b.retxEvent
    /\ t.out # <<>> => /\ t.retxEvent
                       /\ b.una = b.nxt => /\ Head(t.out).seq = b.nxt
                                           /\ Head(t.out).len > 0

LEMMA RoundSends ==
    ASSUME NEW b, SndOK(b), NEW s, SentFrom(b, s)
    PROVE  /\ SentFrom(b, SendRound(s))
           /\ SendRound(s).persistEvent = s.persistEvent
           /\ ~ Blocked(s) => SendRound(s).retxEvent
  <1>1. CASE Blocked(s)
    BY <1>1 DEF SendRound
  <1>2. CASE ~ Blocked(s)
    <2> DEFINE seq == NextSeg(s).seq
               len == Smaller(NextSeg(s).len, AvailableWindow(s))
               seg == [seq |-> seq, len |-> len, probe |-> FALSE]
               nxt == Larger(s.nxt, seq + len)
               rxt == IF seq < s.nxt THEN seq + len ELSE s.rxt
               out == Append(s.out, seg)
               t   == SendRound(s)
    <2>1. SndOK(s)
      BY DEF SentFrom
    <2>2. /\ s \in SndType /\ s.una \in Nat /\ s.nxt \in Nat /\ s.end = Bytes + 1
          /\ s.lostTo \in Nat /\ s.rxt \in Nat /\ s.rWnd \in Nat /\ s.highRxAckMark \in Nat
          /\ s.una <= s.nxt /\ s.nxt <= Bytes + 1 /\ s.lostTo <= s.nxt /\ s.rxt <= s.lostTo
          /\ s.out \in Seq(Segment) /\ Bytes \in Nat
      BY <2>1, SndFields, Constants
    <2>3. /\ seq \in Nat /\ len \in Nat /\ len > 0 /\ seq >= s.una
          /\ Aligned(seq + len)
          /\ \/ seq < s.nxt /\ seq + len <= s.lostTo
             \/ /\ seq = s.nxt /\ seq + len <= Bytes + 1
                /\ seq + len <= s.una + s.rWnd
      BY <1>2, <2>1, NextSegFacts
    <2>4. t = [s EXCEPT !.out = out, !.nxt = nxt, !.rxt = rxt, !.retxEvent = TRUE]
      <3>1. t = SendDataPacket(s, [NextSeg(s) EXCEPT !.len = len])
        BY <1>2 DEF SendRound
      <3>2. NextSeg(s) = [seq |-> seq, len |-> NextSeg(s).len]
        <4>1. Again(s) \in Nat
          BY <2>1, InFlightFacts
        <4> QED
          BY <2>2, <4>1 DEF NextSeg, Again
      <3> HIDE DEF seq, len
      <3>3. [NextSeg(s) EXCEPT !.len = len] = [seq |-> seq, len |-> len]
        BY <3>2
      <3> QED
        BY <3>1, <3>3 DEF SendDataPacket
    <2> HIDE DEF seq, len, t
    <2>5. /\ nxt \in Nat /\ nxt >= s.nxt /\ nxt <= Bytes + 1 /\ seq + len <= nxt
          /\ nxt = s.nxt \/ (nxt = seq + len /\ nxt <= s.una + s.rWnd)
          /\ rxt \in Nat /\ rxt <= s.lostTo
      BY <2>2, <2>3 DEF Larger
    <2>6. Aligned(nxt) /\ Aligned(rxt)
      BY <2>1, <2>3, <2>5 DEF SndOK
    <2> HIDE DEF nxt, rxt
    <2>7. seg \in Segment /\ WellCut(seg, nxt) /\ ~ seg.probe /\ seg.seq = seq /\ seg.len = len
      BY <2>3, <2>5 DEF Segment, WellCut
    <2> HIDE DEF seg
    <2>8. /\ out \in Seq(Segment) /\ out # <<>> /\ Len(out) = Len(s.out) + 1
          /\ Len(s.out) \in Nat
          /\ \A i \in 1 .. Len(s.out) : out[i] = s.out[i]
          /\ out[Len(s.out) + 1] = seg
          /\ Head(out) = IF s.out = <<>> THEN seg ELSE Head(s.out)
      BY <2>2, <2>7, HeadTailAppend
    <2>9. /\ t \in SndType /\ t.una = s.una /\ t.nxt = nxt /\ t.end = s.end
          /\ t.lostTo = s.lostTo /\ t.rxt = rxt /\ t.cWnd = s.cWnd /\ t.rWnd = s.rWnd
          /\ t.highRxAckMark = s.highRxAckMark /\ t.dataRetrCount = s.dataRetrCount
          /\ t.retxEvent = TRUE /\ t.persistEvent = s.persistEvent
          /\ t.sendPendingDataEvent = s.sendPendingDataEvent
          /\ t.closed = s.closed /\ t.crashed = s.crashed /\ t.out = out
      <3> HIDE DEF out
      <3> QED
        BY <2>2, <2>4, <2>5, <2>8 DEF SndType
    <2>10. \A i \in DOMAIN out : WellCut(out[i], nxt) /\ ~ out[i].probe
      <3> SUFFICES ASSUME NEW i \in DOMAIN out PROVE WellCut(out[i], nxt) /\ ~ out[i].probe
        OBVIOUS
      <3>1. i \in 1 .. Len(s.out) + 1
        BY <2>8
      <3>2. CASE i \in 1 .. Len(s.out)
        <4>1. i \in DOMAIN s.out /\ out[i] = s.out[i] /\ s.out[i] \in Segment
          BY <2>2, <2>8, <3>2
        <4>2. WellCut(s.out[i], s.nxt) /\ ~ s.out[i].probe
          BY <2>1, <4>1 DEF SndOK, SentFrom
        <4> QED
          BY <2>2, <2>5, <4>1, <4>2 DEF WellCut, Segment
      <3>3. CASE i = Len(s.out) + 1
        BY <2>7, <2>8, <3>3
      <3> QED
        BY <2>8, <3>1, <3>2, <3>3
    <2> HIDE DEF out
    <2>11. s.una <= s.highRxAckMark /\ nxt <= s.highRxAckMark + s.rWnd
      BY <2>1, <2>2, <2>5 DEF SndOK, KnownEdge
    <2>12. SndOK(t)
      BY <2>1, <2>2, <2>5, <2>6, <2>9, <2>10, <2>11 DEF SndOK, KnownEdge
    <2>13. b.una = b.nxt => Head(out).seq = b.nxt /\ Head(out).len > 0
      <3> SUFFICES ASSUME b.una = b.nxt PROVE Head(out).seq = b.nxt /\ Head(out).len > 0
        OBVIOUS
      <3>1. CASE s.out = <<>>
        <4>1. s.nxt = b.nxt /\ s.una = b.una
          BY <3>1 DEF SentFrom
        <4>2. seq = s.nxt
          BY <2>2, <2>3, <4>1
        <4> QED
          BY <2>3, <2>7, <2>8, <3>1, <4>1, <4>2
      <3>2. CASE s.out # <<>>
        BY <2>8, <3>2 DEF SentFrom
      <3> QED
        BY <3>1, <3>2
    <2>14. b.nxt <= nxt /\ (nxt = b.nxt \/ nxt <= b.una + b.rWnd)
      <3>1. b.nxt \in Nat /\ b.nxt <= s.nxt
        BY SndFields DEF SentFrom
      <3> QED
        BY <2>2, <2>5, <3>1 DEF SentFrom
    <2> QED
      BY <2>8, <2>9, <2>10, <2>12, <2>13, <2>14 DEF SentFrom, t
  <1> QED
    BY <1>1, <1>2

-----------------------------------------------------------------------------
(* The loop.                                                                *)

\* What a round preserves, the loop preserves, from its first round on.
LEMMA LoopPreserves ==
    ASSUME NEW X, NEW s \in X, \A t \in X : SendRound(t) \in X,
           NEW Y, SendRound(s) \in Y, \A t \in Y : SendRound(t) \in Y
    PROVE  SendPendingData(s) \in Y
  <1> DEFINE Body(g) == [k \in 0 .. MaxBuffer |-> IF k = 0 THEN s ELSE SendRound(g[k - 1])]
             after   == CHOOSE g : g = Body(g)
             F       == [t \in X |-> SendRound(t)]
  <1>1. MaxBuffer \in Nat /\ MaxBuffer > 0
    BY Constants
  <1>2. F \in [X -> X]
    OBVIOUS
  <1>3. \E g : g = Body(g)
    <2> HIDE DEF F
    <2>1. PICK g \in [0 .. MaxBuffer -> X] : Iterates(F, s, MaxBuffer, g)
      BY <1>1, <1>2, IterExists
    <2>2. ASSUME NEW k \in 0 .. MaxBuffer PROVE g[k] = Body(g)[k]
      <3>1. CASE k = 0
        BY <2>1, <3>1 DEF Iterates
      <3>2. CASE k # 0
        <4>1. k \in 1 .. MaxBuffer /\ k - 1 \in 0 .. MaxBuffer
          BY <1>1, <3>2
        <4>2. g[k] = F[g[k - 1]] /\ g[k - 1] \in X
          BY <2>1, <4>1 DEF Iterates
        <4>3. F[g[k - 1]] = SendRound(g[k - 1])
          BY <4>2 DEF F
        <4> QED
          BY <3>2, <4>2, <4>3
      <3> QED
        BY <3>1, <3>2
    <2>3. g = Body(g)
      BY <2>2
    <2> QED
      BY <2>3
  <1>4. after = Body(after)
    BY <1>3
  <1>5. SendPendingData(s) = after[MaxBuffer]
    BY DEF SendPendingData
  <1> HIDE DEF after
  <1>6. after[0] = s /\ \A k \in 1 .. MaxBuffer : after[k] = SendRound(after[k - 1])
    BY <1>1, <1>4
  <1> DEFINE n    == MaxBuffer - 1
             from == [k \in 0 .. n |-> after[k + 1]]
  <1>7. from[n] \in Y
    <2>1. n \in Nat
      BY <1>1
    <2>2. from[0] \in Y
      BY <1>1, <1>6
    <2>3. ASSUME NEW k \in 1 .. n, from[k - 1] \in Y PROVE from[k] \in Y
      <3>1. k + 1 \in 1 .. MaxBuffer /\ (k + 1) - 1 = k /\ (k - 1) + 1 = k
        BY <1>1
      <3>2. from[k] = after[k + 1] /\ from[k - 1] = after[k]
        <4>1. k \in 0 .. n /\ k - 1 \in 0 .. n
          BY <2>1
        <4> HIDE DEF n
        <4>2. from[k] = after[k + 1] /\ from[k - 1] = after[(k - 1) + 1]
          BY <4>1
        <4> QED
          BY <3>1, <4>2
      <3>3. after[k + 1] = SendRound(after[k])
        BY <1>6, <3>1
      <3> HIDE DEF from
      <3> QED
        BY <2>3, <3>2, <3>3
    <2> HIDE DEF from, n
    <2> QED
      BY <2>1, <2>2, <2>3, LoopInvariant
  <1>8. from[n] = after[MaxBuffer]
    BY <1>1
  <1> QED
    BY <1>5, <1>7, <1>8

\* SendPendingData sends what it may, and nothing only if it is blocked.
LEMMA PendingSends ==
    ASSUME NEW b, SndOK(b), NEW s, SentFrom(b, s)
    PROVE  /\ SentFrom(b, SendPendingData(s))
           /\ SendPendingData(s).persistEvent = s.persistEvent
           /\ Blocked(s) => SendPendingData(s) = s
           /\ ~ Blocked(s) => SendPendingData(s).retxEvent
  <1> DEFINE X == {t \in SndType : SentFrom(b, t) /\ t.persistEvent = s.persistEvent}
             Y == {t \in X : t.retxEvent}
  <1>1. s \in X
    BY DEF SentFrom, SndOK
  <1>2. ASSUME NEW t \in X PROVE SendRound(t) \in X
    <2>1. SentFrom(b, SendRound(t)) /\ SendRound(t).persistEvent = t.persistEvent
      BY RoundSends
    <2>2. SendRound(t) \in SndType
      BY <2>1 DEF SentFrom, SndOK
    <2> QED
      BY <2>1, <2>2
  <1>3. SendPendingData(s) \in X
    <2>1. SendRound(s) \in X
      BY <1>1, <1>2
    <2> HIDE DEF X
    <2> QED
      BY <1>1, <1>2, <2>1, LoopPreserves
  <1>4. ASSUME Blocked(s) PROVE SendPendingData(s) = s
    <2>1. SendRound(s) = s
      BY <1>4 DEF SendRound
    <2> HIDE DEF X
    <2>2. SendRound(s) \in {s} /\ \A t \in {s} : SendRound(t) \in {s}
      BY <2>1
    <2>3. SendPendingData(s) \in {s}
      BY <1>1, <1>2, <2>2, LoopPreserves
    <2> QED
      BY <2>3
  <1>5. ASSUME ~ Blocked(s) PROVE SendPendingData(s) \in Y
    <2>1. SendRound(s) \in Y
      BY <1>1, <1>2, <1>5, RoundSends
    <2>2. ASSUME NEW t \in Y PROVE SendRound(t) \in Y
      <3>1. SendRound(t) \in X /\ t.retxEvent
        BY <1>2
      <3>2. SendRound(t).retxEvent
        <4>1. CASE Blocked(t)
          BY <3>1, <4>1 DEF SendRound
        <4>2. CASE ~ Blocked(t)
          BY <4>2, RoundSends
        <4> QED
          BY <4>1, <4>2
      <3> QED
        BY <3>1, <3>2
    <2> HIDE DEF X, Y
    <2> QED
      BY <1>1, <1>2, <2>1, <2>2, LoopPreserves
  <1> QED
    BY <1>3, <1>4, <1>5

\* What keeps a sender with an open window from sending.
LEMMA BlockedMeans ==
    ASSUME NEW s, SndOK(s), Blocked(s), s.rWnd > 0, s.una < s.end,
           \/ s.una = s.nxt
           \/ s.una < s.nxt /\ s.lostTo = s.nxt /\ s.rxt <= s.una /\ WithinWindow(s)
    PROVE  s.una = s.nxt /\ s.rWnd < SegmentSize
  <1> DEFINE av == AvailableWindow(s)
  <1>1. /\ s.una \in Nat /\ s.nxt \in Nat /\ s.lostTo \in Nat /\ s.rWnd \in Nat
        /\ s.end = Bytes + 1 /\ s.una <= s.nxt /\ s.lostTo <= s.nxt /\ s.nxt <= Bytes + 1
        /\ s.rxt \in Nat /\ s.rxt <= s.lostTo
        /\ s.cWnd \in Nat /\ s.cWnd >= SegmentSize
        /\ SegmentSize \in Nat /\ SegmentSize > 0 /\ Bytes \in Nat
    BY SndFields, Constants
  <1>2. InFlight(s) = 0 /\ Again(s) = s.una
    BY <1>1 DEF InFlight, Again, Larger
  <1>3. av = Smaller(s.rWnd, s.cWnd)
    BY <1>2, InFlightFacts
  <1>4. NextSeg(s) = IF s.una < s.lostTo
                     THEN [seq |-> s.una, len |-> Smaller(SegmentSize, s.lostTo - s.una)]
                     ELSE [seq |-> s.nxt,
                           len |-> Larger(Smaller(SegmentSize,
                                     Smaller(s.end, s.una + s.rWnd) - s.nxt), 0)]
    BY <1>1, <1>2 DEF NextSeg, Again
  <1>5. av # 0 /\ av \in Nat
    BY <1>1, <1>3 DEF Smaller
  <1>6. NextSeg(s).len # 0
    BY <1>1, <1>4 DEF Smaller, Larger
  <1>7. SillyWindow(s, NextSeg(s).seq)
    BY <1>5, <1>6 DEF Blocked
  <1>8. av < SegmentSize /\ s.rWnd < SegmentSize /\ av = s.rWnd
    BY <1>1, <1>3, <1>7 DEF SillyWindow, Smaller
  <1>9. CASE s.una < s.nxt
    <2>1. NextSeg(s).seq = s.una /\ s.end - s.una > s.rWnd
      BY <1>1, <1>4, <1>7, <1>8, <1>9 DEF SillyWindow
    <2>2. s.nxt <= s.una + s.rWnd
      BY <1>1, <1>9 DEF WithinWindow
    <2>3. s.nxt = Bytes + 1 \/ s.una + SegmentSize <= s.nxt
      BY <1>1, <1>9, AlignedGap DEF SndOK
    <2> QED
      BY <1>1, <1>8, <2>1, <2>2, <2>3
  <1> QED
    BY <1>1, <1>8, <1>9

\* A closed window blocks.
LEMMA ZeroBlocks ==
    ASSUME NEW s, SndOK(s), s.rWnd = 0
    PROVE  Blocked(s)
  <1>1. AvailableWindow(s) \in Nat /\ AvailableWindow(s) <= 0
    BY InFlightFacts
  <1> QED
    BY <1>1 DEF Blocked

-----------------------------------------------------------------------------
(* What an event makes of the sender.                                       *)

\* r is what an event of the sender makes of s.
Handled(s, r) ==
    /\ SndOK(r) /\ WithinWindow(r) /\ ZeroIsProbed(r) /\ StallOK(r)
    /\ r.persistEvent => r.rWnd = 0 /\ r.una = r.nxt /\ r.out = <<>>
    /\ ~ r.sendPendingDataEvent
    /\ s.nxt <= r.nxt
    /\ \A i \in DOMAIN r.out : ~ r.out[i].probe
    /\ r.out = <<>> => r.nxt = s.nxt
    /\ s.una = s.nxt => /\ r.una = s.una
                        /\ r.out # <<>> => Head(r.out).seq = s.nxt /\ Head(r.out).len > 0

\* A sender that has put nothing out has sent nothing.
LEMMA SentNothing ==
    ASSUME NEW b, SndOK(b), b.out = <<>>
    PROVE  SentFrom(b, b)
  <1>1. b.nxt \in Nat
    BY SndFields
  <1> QED
    BY <1>1 DEF SentFrom

\* From a base b that has put nothing out, sending leads to a handled state,
\* when a base that is blocked cannot have stalled.
LEMMA SendHandles ==
    ASSUME NEW s, NEW b, SndOK(b), b.nxt = s.nxt,
           s.una = s.nxt => b.una = s.una,
           WithinWindow(b), ~ b.sendPendingDataEvent,
           NEW r, SentFrom(b, r), ZeroIsProbed(r), StallOK(r),
           r.persistEvent => r.rWnd = 0 /\ r.una = r.nxt /\ r.out = <<>>
    PROVE  Handled(s, r)
  <1>1. /\ SndOK(r) /\ r.una = b.una /\ r.rWnd = b.rWnd
        /\ r.nxt = b.nxt \/ r.nxt <= b.una + b.rWnd
        /\ b.nxt <= r.nxt
        /\ r.out = <<>> => r.nxt = b.nxt
        /\ r.sendPendingDataEvent = b.sendPendingDataEvent
        /\ \A i \in DOMAIN r.out : ~ r.out[i].probe
        /\ r.out # <<>> => (b.una = b.nxt => /\ Head(r.out).seq = b.nxt
                                             /\ Head(r.out).len > 0)
    BY DEF SentFrom
  <1>2. WithinWindow(r)
    BY <1>1 DEF WithinWindow
  <1> QED
    BY <1>1, <1>2 DEF Handled

\* The window of an ACK, which is never behind what the sender knows.
LEMMA WindowTaken ==
    ASSUME NEW s, SndOK(s), NEW a \in Ack,
           s.highRxAckMark <= a.ack, KnownEdge(s) <= a.ack + a.wnd
    PROVE  UpdateWindowSize(s, a) = [s EXCEPT !.rWnd = a.wnd, !.highRxAckMark = a.ack]
  <1>1. /\ s \in SndType /\ s.rWnd \in Nat /\ s.highRxAckMark \in Nat
        /\ a.ack \in Nat /\ a.wnd \in Nat
    BY SndFields DEF Ack
  <1>2. CASE a.ack = s.highRxAckMark /\ a.wnd = s.rWnd
    <2>1. s = [s EXCEPT !.rWnd = a.wnd, !.highRxAckMark = a.ack]
      BY <1>1, <1>2 DEF SndType
    <2> QED
      BY <1>1, <1>2, <2>1 DEF UpdateWindowSize
  <1>3. CASE ~ (a.ack = s.highRxAckMark /\ a.wnd = s.rWnd)
    <2>1. a.ack > s.highRxAckMark \/ (a.ack = s.highRxAckMark /\ a.wnd > s.rWnd)
      BY <1>1, <1>3 DEF KnownEdge
    <2> QED
      BY <2>1 DEF UpdateWindowSize
  <1> QED
    BY <1>2, <1>3

\* Updating the timers, the window and what is acknowledged.
LEMMA BaseOK ==
    ASSUME NEW s, SndOK(s), s.out = <<>>, NEW a \in Ack,
           s.highRxAckMark <= a.ack, KnownEdge(s) <= a.ack + a.wnd,
           NEW una \in Nat, s.una <= una, una <= s.nxt, una <= a.ack, Aligned(una),
           NEW b \in SndType, b.una = una, b.rWnd = a.wnd, b.highRxAckMark = a.ack,
           b.nxt = s.nxt, b.end = s.end, b.lostTo = s.lostTo, b.rxt = s.rxt,
           b.out = <<>>
    PROVE  SndOK(b)
  <1>1. /\ s.nxt \in Nat /\ s.rWnd \in Nat /\ s.highRxAckMark \in Nat
        /\ a.ack \in Nat /\ a.wnd \in Nat
    BY SndFields DEF Ack
  <1>2. s.nxt <= s.highRxAckMark + s.rWnd /\ KnownEdge(s) = s.highRxAckMark + s.rWnd
    BY DEF SndOK, KnownEdge
  <1>3. b.nxt <= KnownEdge(b)
    BY <1>1, <1>2 DEF KnownEdge
  <1>4. DOMAIN b.out = {}
    OBVIOUS
  <1> QED
    BY <1>1, <1>3, <1>4 DEF SndOK

LEMMA NewAckFields ==
    ASSUME NEW s \in SndType, NEW ack \in Nat, NEW w \in CWnds
    PROVE  LET n == NewAck(s, ack, w)
           IN  /\ n \in SndType /\ n.una = ack /\ n.nxt = s.nxt /\ n.end = s.end
               /\ n.lostTo = s.lostTo /\ n.rxt = s.rxt /\ n.rWnd = s.rWnd
               /\ n.highRxAckMark = s.highRxAckMark /\ n.persistEvent = s.persistEvent
               /\ n.sendPendingDataEvent = s.sendPendingDataEvent /\ n.out = s.out
               /\ n.retxEvent = (ack < s.end)
  <1> DEFINE more == ack < s.end
             n    == [s EXCEPT !.una = ack, !.cWnd = w, !.dataRetrCount = DataRetries,
                               !.retxEvent = more]
  <1>1. DataRetries \in Nat /\ more \in BOOLEAN
    BY WindowAssumption
  <1>2. NewAck(s, ack, w) = n
    BY DEF NewAck
  <1> HIDE DEF more
  <1>3. /\ n \in SndType /\ n.una = ack /\ n.nxt = s.nxt /\ n.end = s.end
        /\ n.lostTo = s.lostTo /\ n.rxt = s.rxt /\ n.rWnd = s.rWnd
        /\ n.highRxAckMark = s.highRxAckMark /\ n.persistEvent = s.persistEvent
        /\ n.sendPendingDataEvent = s.sendPendingDataEvent /\ n.out = s.out
        /\ n.retxEvent = more
    BY <1>1 DEF SndType
  <1> HIDE DEF n
  <1> QED
    BY <1>2, <1>3 DEF more

\* An ACK is handled, whatever it acknowledges.
LEMMA AckHandled ==
    ASSUME NEW s, SndOK(s), s.out = <<>>, ~ s.closed, ~ s.crashed,
           WithinWindow(s), StallOK(s), ~ s.sendPendingDataEvent,
           s.persistEvent => s.rWnd = 0 /\ s.una = s.nxt,
           NEW a \in Ack, NEW w \in CWnds,
           s.highRxAckMark <= a.ack, KnownEdge(s) <= a.ack + a.wnd,
           Aligned(a.ack) \/ a.ack > s.nxt,
           a.ack > s.nxt => s.una = s.nxt /\ s.persistEvent
    PROVE  LET r == DoForwardUp(s, a, w)
           IN  /\ Handled(s, r)
               /\ r.highRxAckMark = a.ack /\ r.rWnd = a.wnd
  <1> DEFINE u == [s EXCEPT !.rWnd = a.wnd, !.highRxAckMark = a.ack]
             e == EnterPersist(u)
             q == ProcessEstablished(e, a.ack, w)
             r == LeavePersist(q)
  <1>1. /\ s \in SndType /\ s.una \in Nat /\ s.nxt \in Nat /\ s.end = Bytes + 1
        /\ s.rWnd \in Nat /\ s.highRxAckMark \in Nat /\ s.una <= s.nxt
        /\ s.nxt <= Bytes + 1 /\ Bytes \in Nat
        /\ a.ack \in Nat /\ a.wnd \in Nat
    BY SndFields, Constants DEF Ack
  <1>2. s.una <= a.ack /\ s.nxt <= a.ack + a.wnd /\ Aligned(s.una)
    <2>1. /\ s.nxt <= s.highRxAckMark + s.rWnd /\ s.una <= s.highRxAckMark
          /\ KnownEdge(s) = s.highRxAckMark + s.rWnd /\ Aligned(s.una)
      BY DEF SndOK, KnownEdge
    <2> QED
      BY <1>1, <2>1
  <1>3. DoForwardUp(s, a, w) = r
    BY WindowTaken DEF DoForwardUp
  <1>4. /\ u \in SndType /\ u.una = s.una /\ u.nxt = s.nxt /\ u.end = s.end
        /\ u.lostTo = s.lostTo /\ u.rxt = s.rxt /\ u.rWnd = a.wnd
        /\ u.highRxAckMark = a.ack /\ u.retxEvent = s.retxEvent
        /\ u.persistEvent = s.persistEvent /\ ~ u.sendPendingDataEvent
        /\ ~ u.closed /\ ~ u.crashed /\ u.out = <<>>
    BY <1>1 DEF SndType
  <1> HIDE DEF u
  <1>5. SndOK(u)
    BY <1>1, <1>2, <1>4, BaseOK
  <1>6. CASE a.ack > s.nxt
    <2>1. e = u
      BY <1>4, <1>6 DEF EnterPersist
    <2>2. q = u
      BY <1>1, <1>4, <1>6, <2>1 DEF ProcessEstablished
    <2>3. CASE a.wnd = 0
      <3>1. r = u
        BY <1>4, <2>2, <2>3 DEF LeavePersist
      <3>2. SentFrom(u, u)
        BY <1>4, <1>5, SentNothing
      <3>3. WithinWindow(u) /\ ZeroIsProbed(u) /\ StallOK(u)
        BY <1>1, <1>4, <1>6 DEF WithinWindow, ZeroIsProbed, StallOK
      <3>4. Handled(s, u)
        BY <1>4, <1>5, <1>6, <2>3, <3>2, <3>3, SendHandles
      <3> QED
        BY <1>3, <1>4, <3>1, <3>4
    <2>4. CASE a.wnd # 0
      <3> DEFINE v == [u EXCEPT !.persistEvent = FALSE]
                 t == SendPendingData(v)
      <3>1. r = t
        BY <1>4, <1>6, <2>2, <2>4 DEF LeavePersist
      <3>2. /\ v \in SndType /\ v.una = s.una /\ v.nxt = s.nxt /\ v.end = s.end
            /\ v.lostTo = s.lostTo /\ v.rxt = s.rxt /\ v.rWnd = a.wnd
            /\ v.highRxAckMark = a.ack /\ ~ v.persistEvent
            /\ ~ v.sendPendingDataEvent /\ v.out = <<>>
        BY <1>4 DEF SndType
      <3> HIDE DEF v
      <3>3. SndOK(v)
        BY <1>1, <1>2, <3>2, BaseOK
      <3>4. SentFrom(v, v)
        BY <3>2, <3>3, SentNothing
      <3>5. /\ SentFrom(v, t) /\ t.persistEvent = v.persistEvent
            /\ Blocked(v) => t = v
            /\ ~ Blocked(v) => t.retxEvent
        BY <3>3, <3>4, PendingSends
      <3> HIDE DEF t
      <3>6. t.rWnd = a.wnd /\ t.highRxAckMark = a.ack /\ t.una = v.una /\ t \in SndType
        BY <3>2, <3>5 DEF SentFrom, SndOK
      <3>7. StallOK(t)
        <4>1. CASE Blocked(v) /\ v.una < v.end
          <5>1. v.una = v.nxt /\ v.rWnd < SegmentSize
            BY <1>1, <1>6, <2>4, <3>2, <3>3, <4>1, BlockedMeans
          <5> QED
            BY <1>1, <2>4, <3>2, <3>5, <4>1, <5>1 DEF StallOK
        <4>2. CASE Blocked(v) /\ ~ (v.una < v.end)
          BY <3>5, <4>2 DEF StallOK
        <4>3. CASE ~ Blocked(v)
          BY <3>5, <4>3 DEF StallOK
        <4> QED
          BY <4>1, <4>2, <4>3
      <3>8. WithinWindow(v) /\ ZeroIsProbed(t)
        BY <1>1, <1>6, <2>4, <3>2, <3>6 DEF WithinWindow, ZeroIsProbed
      <3>9. Handled(s, t)
        BY <3>2, <3>3, <3>5, <3>7, <3>8, SendHandles
      <3> QED
        BY <1>3, <3>1, <3>6, <3>9
    <2> QED
      BY <2>3, <2>4
  <1>7. CASE a.ack <= s.nxt /\ a.wnd = 0
    <2>1. s.nxt = a.ack /\ Aligned(a.ack)
      BY <1>1, <1>2, <1>7
    <2>2. /\ e \in SndType /\ e.una = s.una /\ e.nxt = s.nxt /\ e.end = s.end
          /\ e.lostTo = s.lostTo /\ e.rxt = s.rxt /\ e.rWnd = a.wnd
          /\ e.highRxAckMark = a.ack /\ e.persistEvent
          /\ ~ e.sendPendingDataEvent /\ e.out = <<>>
      BY <1>4, <1>7 DEF EnterPersist, SndType
    <2> HIDE DEF e
    <2> DEFINE n == IF a.ack = s.una THEN e ELSE NewAck(e, a.ack, w)
    <2>3. /\ n \in SndType /\ n.una = a.ack /\ n.nxt = s.nxt /\ n.end = s.end
          /\ n.lostTo = s.lostTo /\ n.rxt = s.rxt /\ n.rWnd = a.wnd
          /\ n.highRxAckMark = a.ack /\ n.persistEvent
          /\ ~ n.sendPendingDataEvent /\ n.out = <<>>
      <3>1. CASE a.ack = s.una
        BY <2>2, <3>1
      <3>2. CASE a.ack # s.una
        <4> DEFINE m == NewAck(e, a.ack, w)
        <4>1. n = m
          BY <3>2
        <4>2. /\ m \in SndType /\ m.una = a.ack /\ m.nxt = e.nxt /\ m.end = e.end
              /\ m.lostTo = e.lostTo /\ m.rxt = e.rxt /\ m.rWnd = e.rWnd
              /\ m.highRxAckMark = e.highRxAckMark /\ m.persistEvent = e.persistEvent
              /\ m.sendPendingDataEvent = e.sendPendingDataEvent /\ m.out = e.out
          <5>1. e \in SndType /\ a.ack \in Nat
            BY <1>1, <2>2
          <5> QED
            BY <5>1, NewAckFields
        <4> HIDE DEF n, m
        <4> QED
          BY <2>2, <4>1, <4>2
      <3> QED
        BY <3>1, <3>2
    <2>4. q = SendPendingData(n)
      BY <1>1, <1>2, <1>7, <2>2 DEF ProcessEstablished
    <2> HIDE DEF n
    <2>5. SndOK(n)
      BY <1>1, <1>2, <1>7, <2>1, <2>3, BaseOK
    <2>6. SentFrom(n, n) /\ Blocked(n)
      BY <1>7, <2>3, <2>5, SentNothing, ZeroBlocks
    <2>7. SendPendingData(n) = n
      BY <2>5, <2>6, PendingSends
    <2>8. r = n
      BY <1>7, <2>3, <2>4, <2>7 DEF LeavePersist
    <2>9. WithinWindow(n) /\ ZeroIsProbed(n) /\ StallOK(n)
      BY <1>1, <2>1, <2>3 DEF WithinWindow, ZeroIsProbed, StallOK
    <2>10. Handled(s, n)
      BY <1>1, <1>7, <2>1, <2>3, <2>5, <2>6, <2>9, SendHandles
    <2> QED
      BY <1>3, <2>3, <2>8, <2>10
  <1>8. CASE a.ack <= s.nxt /\ a.wnd # 0 /\ a.ack = s.una
    <2>1. e = u /\ q = SendPendingData(u)
      BY <1>1, <1>4, <1>8 DEF EnterPersist, ProcessEstablished
    <2>2. SentFrom(u, u)
      BY <1>4, <1>5, SentNothing
    <2>3. /\ SentFrom(u, q) /\ q.persistEvent = u.persistEvent
          /\ Blocked(u) => q = u
          /\ ~ Blocked(u) => q.retxEvent
      BY <1>5, <2>1, <2>2, PendingSends
    <2> HIDE DEF q, e
    <2>4. /\ SndOK(q) /\ q \in SndType /\ q.rWnd = a.wnd /\ q.highRxAckMark = a.ack
          /\ q.una = u.una
      BY <1>4, <2>3 DEF SentFrom, SndOK
    <2>5. WithinWindow(u)
      BY <1>1, <1>2, <1>4, <1>8 DEF WithinWindow
    <2>6. CASE ~ s.persistEvent
      <3>1. r = q
        BY <1>4, <2>3, <2>6 DEF LeavePersist
      <3>2. StallOK(q)
        <4>1. CASE Blocked(u) /\ u.una < u.end /\ ~ u.retxEvent
          <5>1. s.una = s.nxt
            BY <1>1, <1>4, <2>6, <4>1 DEF StallOK
          <5>2. u.una = u.nxt /\ u.rWnd < SegmentSize
            BY <1>1, <1>4, <1>5, <1>8, <4>1, <5>1, BlockedMeans
          <5> QED
            BY <1>1, <1>4, <1>8, <2>3, <4>1, <5>2 DEF StallOK
        <4>2. CASE Blocked(u) /\ ~ (u.una < u.end /\ ~ u.retxEvent)
          BY <2>3, <4>2 DEF StallOK
        <4>3. CASE ~ Blocked(u)
          BY <2>3, <4>3 DEF StallOK
        <4> QED
          BY <4>1, <4>2, <4>3
      <3>3. ZeroIsProbed(q)
        BY <1>8, <2>4 DEF ZeroIsProbed
      <3>4. Handled(s, q)
        BY <1>4, <1>5, <2>3, <2>5, <2>6, <3>2, <3>3, SendHandles
      <3> QED
        BY <1>3, <2>4, <3>1, <3>4
    <2>7. CASE s.persistEvent
      <3> DEFINE v == [u EXCEPT !.persistEvent = FALSE]
                 f == [q EXCEPT !.persistEvent = FALSE]
                 t == SendPendingData(f)
      <3>1. r = t
        BY <1>4, <1>8, <2>3, <2>4, <2>7 DEF LeavePersist
      <3>2. /\ v \in SndType /\ v.una = s.una /\ v.nxt = s.nxt /\ v.end = s.end
            /\ v.lostTo = s.lostTo /\ v.rxt = s.rxt /\ v.rWnd = a.wnd
            /\ v.highRxAckMark = a.ack /\ ~ v.persistEvent
            /\ ~ v.sendPendingDataEvent /\ v.out = <<>>
            /\ v.retxEvent = u.retxEvent /\ v.cWnd = u.cWnd
            /\ v.dataRetrCount = u.dataRetrCount /\ v.closed = u.closed
            /\ v.crashed = u.crashed /\ v.sendPendingDataEvent = u.sendPendingDataEvent
        BY <1>4 DEF SndType
      <3>3. /\ f \in SndType /\ f.una = q.una /\ f.nxt = q.nxt /\ f.end = q.end
            /\ f.lostTo = q.lostTo /\ f.rxt = q.rxt /\ f.rWnd = q.rWnd
            /\ f.highRxAckMark = q.highRxAckMark /\ ~ f.persistEvent
            /\ f.sendPendingDataEvent = q.sendPendingDataEvent /\ f.out = q.out
            /\ f.retxEvent = q.retxEvent /\ f.cWnd = q.cWnd
            /\ f.dataRetrCount = q.dataRetrCount /\ f.closed = q.closed
            /\ f.crashed = q.crashed
        BY <2>4 DEF SndType
      <3> HIDE DEF v, f
      <3>4. SndOK(v)
        BY <1>1, <1>2, <3>2, BaseOK
      <3>5. SndOK(f)
        BY <2>4, <3>3 DEF SndOK, KnownEdge
      <3>6. SentFrom(v, f)
        <4>1. v.una = u.una /\ v.nxt = u.nxt /\ v.rWnd = u.rWnd
              /\ v.highRxAckMark = u.highRxAckMark
          BY <1>4, <3>2
        <4> QED
          BY <2>3, <3>2, <3>3, <3>5, <4>1 DEF SentFrom
      <3>7. /\ SentFrom(v, t) /\ t.persistEvent = f.persistEvent
            /\ Blocked(f) => t = f
            /\ ~ Blocked(f) => t.retxEvent
        BY <3>4, <3>6, PendingSends
      <3> HIDE DEF t
      <3>8. t.rWnd = a.wnd /\ t.highRxAckMark = a.ack /\ t.una = v.una /\ t \in SndType
        BY <3>2, <3>7 DEF SentFrom, SndOK
      <3>9. StallOK(t)
        <4>1. CASE Blocked(f) /\ Blocked(u) /\ f.una < f.end
          <5>1. f.una = f.nxt /\ f.rWnd > 0
            BY <1>1, <1>4, <1>8, <2>3, <2>4, <2>7, <3>3, <4>1
          <5>2. f.una = f.nxt /\ f.rWnd < SegmentSize
            BY <3>5, <4>1, <5>1, BlockedMeans
          <5> QED
            BY <3>7, <4>1, <5>1, <5>2 DEF StallOK
        <4>2. CASE Blocked(f) /\ ~ (f.una < f.end)
          BY <3>7, <4>2 DEF StallOK
        <4>3. CASE ~ Blocked(f)
          BY <3>7, <4>3 DEF StallOK
        <4>4. CASE Blocked(f) /\ ~ Blocked(u)
          BY <2>3, <3>3, <3>7, <4>4 DEF StallOK
        <4> QED
          BY <4>1, <4>2, <4>3, <4>4
      <3>10. WithinWindow(v) /\ ZeroIsProbed(t)
        BY <1>1, <1>8, <2>7, <3>2, <3>8 DEF WithinWindow, ZeroIsProbed
      <3>11. Handled(s, t)
        BY <3>2, <3>3, <3>4, <3>7, <3>9, <3>10, SendHandles
      <3> QED
        BY <1>3, <3>1, <3>8, <3>11
    <2> QED
      BY <2>6, <2>7
  <1>9. CASE a.ack <= s.nxt /\ a.wnd # 0 /\ a.ack # s.una
    <2> DEFINE n == NewAck(u, a.ack, w)
               t == SendPendingData(n)
    <2>1. s.una < a.ack /\ ~ s.persistEvent /\ Aligned(a.ack)
      BY <1>1, <1>2, <1>9
    <2>2. q = t
      <3>1. e = u
        BY <1>4, <1>9 DEF EnterPersist
      <3> QED
        BY <1>1, <1>4, <1>9, <2>1, <3>1 DEF ProcessEstablished
    <2>3. /\ n \in SndType /\ n.una = a.ack /\ n.nxt = s.nxt /\ n.end = s.end
          /\ n.lostTo = s.lostTo /\ n.rxt = s.rxt /\ n.rWnd = a.wnd
          /\ n.highRxAckMark = a.ack /\ ~ n.persistEvent
          /\ ~ n.sendPendingDataEvent /\ n.out = <<>>
          /\ n.retxEvent = (a.ack < s.end)
      <3>1. /\ n \in SndType /\ n.una = a.ack /\ n.nxt = u.nxt /\ n.end = u.end
            /\ n.lostTo = u.lostTo /\ n.rxt = u.rxt /\ n.rWnd = u.rWnd
            /\ n.highRxAckMark = u.highRxAckMark /\ n.persistEvent = u.persistEvent
            /\ n.sendPendingDataEvent = u.sendPendingDataEvent /\ n.out = u.out
            /\ n.retxEvent = (a.ack < u.end)
        <4>1. u \in SndType /\ a.ack \in Nat
          BY <1>1, <1>4
        <4> QED
          BY <4>1, NewAckFields
      <3> HIDE DEF n
      <3> QED
        BY <1>4, <2>1, <3>1
    <2> HIDE DEF n
    <2>4. SndOK(n)
      BY <1>1, <1>2, <1>9, <2>1, <2>3, BaseOK
    <2>5. SentFrom(n, n)
      BY <2>3, <2>4, SentNothing
    <2>6. /\ SentFrom(n, t) /\ t.persistEvent = n.persistEvent
          /\ Blocked(n) => t = n
          /\ ~ Blocked(n) => t.retxEvent
      BY <2>4, <2>5, PendingSends
    <2> HIDE DEF t
    <2>7. t.rWnd = a.wnd /\ t.highRxAckMark = a.ack
      BY <2>3, <2>6 DEF SentFrom
    <2>8. r = t
      BY <2>2, <2>3, <2>6 DEF LeavePersist
    <2>9. StallOK(t)
      BY <2>3, <2>6 DEF StallOK
    <2>10. WithinWindow(n) /\ ZeroIsProbed(t)
      BY <1>2, <1>9, <2>3, <2>7 DEF WithinWindow, ZeroIsProbed
    <2>11. s.una # s.nxt
      BY <1>1, <1>9, <2>1
    <2>12. Handled(s, t)
      BY <2>3, <2>4, <2>6, <2>9, <2>10, <2>11, SendHandles
    <2> QED
      BY <1>3, <2>7, <2>8, <2>12
  <1> QED
    BY <1>1, <1>6, <1>7, <1>8, <1>9

-----------------------------------------------------------------------------
(* The events of the sender.                                                *)

\* What a handler puts out goes to the end of the data on its way.
LEMMA DataSent ==
    ASSUME NEW d \in Seq(Segment), NEW o \in Seq(Segment)
    PROVE  /\ d \o o \in Seq(Segment)
           /\ \A i \in DOMAIN (d \o o) :
                 \/ i \in DOMAIN d /\ (d \o o)[i] = d[i]
                 \/ \E j \in DOMAIN o : (d \o o)[i] = o[j]
           /\ d # <<>> => d \o o # <<>> /\ Head(d \o o) = Head(d)
           /\ d = <<>> => d \o o = o
           /\ o = <<>> => d \o o = d
  <1>1. /\ d \o o \in Seq(Segment) /\ Len(d \o o) = Len(d) + Len(o)
        /\ \A i \in 1 .. Len(d) + Len(o) :
              (d \o o)[i] = IF i <= Len(d) THEN d[i] ELSE o[i - Len(d)]
    BY ConcatProperties
  <1>2. Len(d) \in Nat /\ Len(o) \in Nat /\ DOMAIN d = 1 .. Len(d) /\ DOMAIN o = 1 .. Len(o)
    OBVIOUS
  <1>3. ASSUME NEW i \in DOMAIN (d \o o)
        PROVE  \/ i \in DOMAIN d /\ (d \o o)[i] = d[i]
               \/ \E j \in DOMAIN o : (d \o o)[i] = o[j]
    <2>1. i \in 1 .. Len(d) + Len(o)
      BY <1>1
    <2>2. CASE i <= Len(d)
      <3>1. i \in DOMAIN d
        BY <1>2, <2>1, <2>2
      <3>2. (d \o o)[i] = d[i]
        BY <1>1, <2>1, <2>2
      <3> QED
        BY <3>1, <3>2
    <2>3. CASE ~ (i <= Len(d))
      <3>1. i - Len(d) \in DOMAIN o
        BY <1>2, <2>1, <2>3
      <3>2. (d \o o)[i] = o[i - Len(d)]
        BY <1>1, <2>1, <2>3
      <3> QED
        BY <3>1, <3>2
    <2> QED
      BY <2>2, <2>3
  <1>4. d # <<>> => d \o o # <<>> /\ Head(d \o o) = Head(d)
    OBVIOUS
  <1>5. (d = <<>> => d \o o = o) /\ (o = <<>> => d \o o = d)
    OBVIOUS
  <1> QED
    BY <1>1, <1>3, <1>4, <1>5

\* The rest of the ACKs.
LEMMA AcksLeft ==
    ASSUME NEW q \in Seq(Ack), q # <<>>
    PROVE  /\ Tail(q) \in Seq(Ack) /\ Head(q) = q[1] /\ 1 \in DOMAIN q /\ q[1] \in Ack
           /\ \A i \in DOMAIN Tail(q) : i + 1 \in DOMAIN q /\ Tail(q)[i] = q[i + 1]
           /\ \A i, j \in DOMAIN Tail(q) : i <= j => i + 1 <= j + 1
           /\ \A i \in DOMAIN q : 1 <= i
           /\ Len(q) = 1 => Tail(q) = <<>>
  <1>1. Len(q) \in Nat /\ Len(q) > 0 /\ DOMAIN q = 1 .. Len(q)
    OBVIOUS
  <1>2. /\ Tail(q) \in Seq(Ack) /\ Len(Tail(q)) = Len(q) - 1 /\ Head(q) = q[1]
        /\ \A i \in 1 .. Len(q) - 1 : Tail(q)[i] = q[i + 1]
    OBVIOUS
  <1>3. DOMAIN Tail(q) = 1 .. Len(q) - 1
    BY <1>2
  <1>4. ASSUME Len(q) = 1 PROVE Tail(q) = <<>>
    <2>1. Tail(q) \in Seq(Ack) /\ Len(Tail(q)) = 0
      BY <1>2, <1>4
    <2> QED
      BY <2>1, EmptySeq
  <1> QED
    BY <1>1, <1>2, <1>3, <1>4

\* The fields of the sender between events.
LEMMA OutTaken ==
    ASSUME NEW r, SndOK(r)
    PROVE  LET t == [r EXCEPT !.out = <<>>]
           IN  /\ SndOK(t) /\ t.out = <<>> /\ t.una = r.una /\ t.nxt = r.nxt /\ t.end = r.end
               /\ t.lostTo = r.lostTo /\ t.rxt = r.rxt /\ t.rWnd = r.rWnd
               /\ t.highRxAckMark = r.highRxAckMark /\ t.retxEvent = r.retxEvent
               /\ t.persistEvent = r.persistEvent
               /\ t.sendPendingDataEvent = r.sendPendingDataEvent
               /\ t.closed = r.closed /\ t.crashed = r.crashed
  <1> DEFINE t == [r EXCEPT !.out = <<>>]
             e == <<>>
  <1>1. r \in SndType /\ e \in Seq(Segment)
    BY DEF SndOK
  <1>2. /\ t \in SndType /\ t.out = <<>> /\ t.una = r.una /\ t.nxt = r.nxt /\ t.end = r.end
        /\ t.lostTo = r.lostTo /\ t.rxt = r.rxt /\ t.rWnd = r.rWnd
        /\ t.highRxAckMark = r.highRxAckMark /\ t.retxEvent = r.retxEvent
        /\ t.persistEvent = r.persistEvent
        /\ t.sendPendingDataEvent = r.sendPendingDataEvent
        /\ t.closed = r.closed /\ t.crashed = r.crashed
    <2>1. t = [r EXCEPT !.out = e]
      OBVIOUS
    <2> HIDE DEF t
    <2>2. /\ t \in SndType /\ t.out = e /\ t.una = r.una /\ t.nxt = r.nxt /\ t.end = r.end
          /\ t.lostTo = r.lostTo /\ t.rxt = r.rxt /\ t.rWnd = r.rWnd
          /\ t.highRxAckMark = r.highRxAckMark /\ t.retxEvent = r.retxEvent
          /\ t.persistEvent = r.persistEvent
          /\ t.sendPendingDataEvent = r.sendPendingDataEvent
          /\ t.closed = r.closed /\ t.crashed = r.crashed
      <3> HIDE DEF e
      <3> QED
        BY <1>1, <2>1 DEF SndType
    <2> QED
      BY <2>2
  <1> HIDE DEF t
  <1>3. SndOK(t)
    BY <1>2 DEF SndOK, KnownEdge
  <1> QED
    BY <1>2, <1>3 DEF t

\* An event of the sender, with no probe on its way, preserves the invariant.
LEMMA SenderStep ==
    ASSUME IInv, NEW r, Handled(snd, r), Becomes(r), rcv' = rcv, losses' = losses,
           \A i \in DOMAIN dataNet : ~ dataNet[i].probe,
           \/ /\ dataNet = <<>> /\ ackNet = <<>> /\ rcv.delAckCount = 0
              /\ ackNet' = ackNet
              /\ r.highRxAckMark = snd.highRxAckMark /\ r.rWnd = snd.rWnd
           \/ /\ ackNet # <<>> /\ ackNet' = Tail(ackNet)
              /\ r.highRxAckMark = Head(ackNet).ack /\ r.rWnd = Head(ackNet).wnd
    PROVE  IInv'
  <1>1. /\ snd' = [r EXCEPT !.out = <<>>] /\ dataNet' = dataNet \o r.out /\ SndOK(r)
    BY DEF Becomes, Handled
  <1>2. /\ SndOK(snd') /\ snd'.out = <<>> /\ snd'.una = r.una /\ snd'.nxt = r.nxt
        /\ snd'.end = r.end /\ snd'.rWnd = r.rWnd
        /\ snd'.highRxAckMark = r.highRxAckMark /\ snd'.retxEvent = r.retxEvent
        /\ snd'.persistEvent = r.persistEvent
        /\ snd'.sendPendingDataEvent = r.sendPendingDataEvent
        /\ snd'.closed = r.closed /\ snd'.crashed = r.crashed
    BY <1>1, OutTaken
  <1>3. /\ SndOK(snd) /\ dataNet \in Seq(Segment) /\ ackNet \in Seq(Ack) /\ rcv \in RcvType
        /\ EdgesOK /\ AcksOK /\ AheadByProbe /\ OffGrid
        /\ \A i \in DOMAIN dataNet : WellCut(dataNet[i], snd.nxt)
    BY DEF IInv
  <1>4. /\ r.nxt \in Nat /\ snd.nxt \in Nat /\ snd.una \in Nat /\ r.una \in Nat
        /\ r.out \in Seq(Segment) /\ r.rWnd \in Nat /\ r.highRxAckMark \in Nat
        /\ snd.rWnd \in Nat /\ snd.highRxAckMark \in Nat
        /\ snd.nxt <= r.nxt
        /\ rcv.nextRxSeq \in Nat
    <2>1. snd.nxt <= r.nxt
      BY DEF Handled
    <2>2. rcv.nextRxSeq \in Nat
      BY <1>3 DEF RcvType
    <2> QED
      BY <1>1, <1>3, <2>1, <2>2, SndFields
  <1>5. /\ WithinWindow(snd') /\ ZeroIsProbed(snd') /\ StallOK(snd')
        /\ PersistOnlyIdle' /\ NotYetSent'
    <2>1. /\ WithinWindow(r) /\ ZeroIsProbed(r) /\ StallOK(r) /\ ~ r.sendPendingDataEvent
          /\ r.persistEvent => r.rWnd = 0 /\ r.una = r.nxt
      BY DEF Handled
    <2> QED
      BY <1>2, <2>1 DEF WithinWindow, ZeroIsProbed, StallOK, PersistOnlyIdle, NotYetSent
  <1>6. /\ dataNet' \in Seq(Segment)
        /\ \A i \in DOMAIN dataNet' :
              \/ i \in DOMAIN dataNet /\ dataNet'[i] = dataNet[i]
              \/ \E j \in DOMAIN r.out : dataNet'[i] = r.out[j]
        /\ dataNet # <<>> => dataNet' # <<>> /\ Head(dataNet') = Head(dataNet)
        /\ dataNet = <<>> => dataNet' = r.out
        /\ r.out = <<>> => dataNet' = dataNet
    BY <1>1, <1>3, <1>4, DataSent
  <1>7. \A i \in DOMAIN dataNet' : WellCut(dataNet'[i], snd'.nxt) /\ ~ dataNet'[i].probe
    <2> SUFFICES ASSUME NEW i \in DOMAIN dataNet'
                 PROVE  WellCut(dataNet'[i], r.nxt) /\ ~ dataNet'[i].probe
      BY <1>2
    <2>1. CASE i \in DOMAIN dataNet /\ dataNet'[i] = dataNet[i]
      <3>1. WellCut(dataNet[i], snd.nxt) /\ dataNet[i] \in Segment /\ ~ dataNet[i].probe
        BY <1>3, <2>1
      <3> QED
        BY <1>4, <2>1, <3>1 DEF WellCut, Segment
    <2>2. CASE \E j \in DOMAIN r.out : dataNet'[i] = r.out[j]
      BY <1>1, <2>2 DEF SndOK, Handled
    <2> QED
      BY <1>6, <2>1, <2>2
  <1>8. ProbeAlone'
    BY <1>7 DEF ProbeAlone
  <1>9. ackNet' \in Seq(Ack) /\ losses' \in Nat /\ rcv' \in RcvType
    BY <1>3, AcksLeft DEF IInv
  <1>10. EdgesOK' /\ AcksOK'
    <2>1. CASE ackNet = <<>> /\ ackNet' = ackNet
      <3>1. KnownEdge(snd') = KnownEdge(snd) /\ snd'.highRxAckMark = snd.highRxAckMark
        BY <1>2, <2>1 DEF KnownEdge
      <3>2. EdgesOK'
        BY <1>3, <3>1 DEF EdgesOK, MaxRxSequence
      <3>3. DOMAIN ackNet' = {}
        BY <2>1
      <3> QED
        BY <3>2, <3>3 DEF AcksOK
    <2>2. CASE ackNet # <<>> /\ ackNet' = Tail(ackNet)
      <3>1. /\ Head(ackNet) = ackNet[1] /\ 1 \in DOMAIN ackNet /\ ackNet[1] \in Ack
            /\ \A i \in DOMAIN ackNet' : i + 1 \in DOMAIN ackNet /\ ackNet'[i] = ackNet[i + 1]
            /\ \A i, j \in DOMAIN ackNet' : i <= j => i + 1 <= j + 1
            /\ \A i \in DOMAIN ackNet : 1 <= i
            /\ Len(ackNet) = 1 => ackNet' = <<>>
        BY <1>3, <2>2, AcksLeft
      <3>2. /\ snd'.highRxAckMark = ackNet[1].ack
            /\ KnownEdge(snd') = ackNet[1].ack + ackNet[1].wnd
        BY <1>2, <2>2, <3>1 DEF KnownEdge
      <3>3. EdgesOK'
        BY <1>3, <3>1, <3>2 DEF EdgesOK, AcksOK, MaxRxSequence
      <3>4. ASSUME NEW i \in DOMAIN ackNet'
            PROVE  /\ snd'.highRxAckMark <= ackNet'[i].ack /\ ackNet'[i].ack <= rcv'.nextRxSeq
                   /\ KnownEdge(snd') <= ackNet'[i].ack + ackNet'[i].wnd
                   /\ ackNet'[i].ack + ackNet'[i].wnd <= MaxRxSequence(rcv')
                   /\ Aligned(ackNet'[i].ack)
        <4>1. i + 1 \in DOMAIN ackNet /\ ackNet'[i] = ackNet[i + 1] /\ 1 <= i + 1
          BY <3>1
        <4>2. /\ ackNet[1].ack <= ackNet[i + 1].ack
              /\ ackNet[1].ack + ackNet[1].wnd <= ackNet[i + 1].ack + ackNet[i + 1].wnd
              /\ ackNet[i + 1].ack <= rcv.nextRxSeq
              /\ ackNet[i + 1].ack + ackNet[i + 1].wnd <= MaxRxSequence(rcv)
              /\ Aligned(ackNet[i + 1].ack) \/ ackNet[i + 1].ack > snd.nxt
          BY <1>3, <3>1, <4>1 DEF AcksOK
        <4>3. ~ (ackNet[i + 1].ack > snd.nxt)
          <5> SUFFICES ASSUME ackNet[i + 1].ack > snd.nxt PROVE FALSE
            OBVIOUS
          <5>1. ackNet[i + 1] \in Ack
            BY <1>3, <4>1
          <5>2. rcv.nextRxSeq > snd.nxt
            BY <1>4, <4>2, <5>1 DEF Ack
          <5>3. Len(ackNet) = 1
            BY <1>3, <2>2, <5>2 DEF AheadByProbe
          <5> QED
            BY <3>1, <3>4, <5>3
        <4> QED
          BY <3>2, <4>1, <4>2, <4>3
      <3>5. ASSUME NEW i \in DOMAIN ackNet', NEW j \in DOMAIN ackNet', i <= j
            PROVE  /\ ackNet'[i].ack <= ackNet'[j].ack
                   /\ ackNet'[i].ack + ackNet'[i].wnd <= ackNet'[j].ack + ackNet'[j].wnd
        BY <1>3, <3>1, <3>5 DEF AcksOK
      <3> QED
        BY <3>3, <3>4, <3>5 DEF AcksOK
    <2> QED
      BY <2>1, <2>2
  <1>11. CASE rcv.nextRxSeq > snd.nxt
    <2>1. /\ rcv.nextRxSeq = snd.nxt + 1 /\ snd.una = snd.nxt
          /\ dataNet = <<>> /\ ackNet' = <<>> /\ rcv.delAckCount = 0
      <3>1. dataNet = <<>>
        <4>1. CASE \A i \in DOMAIN dataNet : dataNet[i].probe
          <5>1. DOMAIN dataNet = {}
            BY <4>1
          <5> QED
            BY <1>3, <5>1
        <4> QED
          BY <1>3, <1>11, <4>1 DEF AheadByProbe
      <3>2. ackNet = <<>> \/ (Len(ackNet) = 1 /\ rcv.delAckCount = 0)
        BY <1>3, <1>11 DEF AheadByProbe
      <3>3. ackNet' = <<>> /\ rcv.delAckCount = 0
        BY <1>3, <3>2, AcksLeft
      <3> QED
        BY <1>3, <1>11, <3>1, <3>3 DEF AheadByProbe
    <2>2. /\ r.una = snd.una
          /\ r.out = <<>> => r.nxt = snd.nxt
          /\ r.out # <<>> => Head(r.out).seq = snd.nxt /\ Head(r.out).len > 0
      BY <2>1 DEF Handled
    <2>3. CASE r.out = <<>>
      <3>1. snd'.nxt = snd.nxt /\ snd'.una = snd.una /\ dataNet' = <<>>
        BY <1>2, <1>6, <2>1, <2>2, <2>3
      <3>2. AheadByProbe' /\ OffGrid'
        <4>1. ~ snd'.sendPendingDataEvent
          BY <1>2 DEF Handled
        <4> QED
          BY <1>4, <1>11, <2>1, <3>1, <4>1 DEF AheadByProbe, OffGrid
      <3> QED
        BY <1>2, <1>5, <1>6, <1>7, <1>8, <1>9, <1>10, <3>2 DEF IInv
    <2>4. CASE r.out # <<>>
      <3> DEFINE h == Head(r.out)
      <3>1. h \in Segment /\ h = r.out[1] /\ 1 \in DOMAIN r.out
        BY <1>4, <2>4
      <3>2. ~ h.probe /\ WellCut(h, r.nxt)
        BY <1>1, <3>1 DEF SndOK, Handled
      <3>3. /\ h.seq = snd.nxt /\ h.len > 0 /\ h.seq \in Nat /\ h.len \in Nat
            /\ h.seq + h.len <= r.nxt /\ Aligned(h.seq + h.len)
        BY <2>2, <2>4, <3>1, <3>2 DEF WellCut, Segment
      <3>4. dataNet' # <<>> /\ Head(dataNet') = h
        BY <1>6, <2>1, <2>4
      <3> HIDE DEF h
      <3>5. AheadByProbe'
        BY <1>2, <1>4, <2>1, <3>3 DEF AheadByProbe
      <3>6. CASE h.len = 1
        <4>1. Aligned(rcv.nextRxSeq)
          BY <2>1, <3>3, <3>6
        <4>2. OffGrid'
          BY <4>1 DEF OffGrid, Aligned, OnGrid
        <4> QED
          BY <1>2, <1>5, <1>6, <1>7, <1>8, <1>9, <1>10, <3>5, <4>2 DEF IInv
      <3>7. CASE h.len # 1
        <4>1. h.seq < rcv.nextRxSeq /\ h.seq + h.len > rcv.nextRxSeq
          BY <1>4, <2>1, <3>3, <3>7
        <4>2. OffGrid'
          BY <2>1, <3>2, <3>4, <4>1 DEF OffGrid
        <4> QED
          BY <1>2, <1>5, <1>6, <1>7, <1>8, <1>9, <1>10, <3>5, <4>2 DEF IInv
      <3> QED
        BY <3>6, <3>7
    <2> QED
      BY <2>3, <2>4
  <1>12. CASE ~ (rcv.nextRxSeq > snd.nxt)
    <2>1. rcv.nextRxSeq <= snd.nxt /\ ~ (rcv'.nextRxSeq > snd'.nxt)
      BY <1>2, <1>4, <1>12
    <2>2. AheadByProbe'
      BY <2>1 DEF AheadByProbe
    <2>3. OffGrid'
      <3>1. CASE Aligned(rcv.nextRxSeq)
        BY <3>1 DEF OffGrid, Aligned, OnGrid
      <3>2. CASE ~ Aligned(rcv.nextRxSeq)
        <4>1. /\ ackNet = <<>> /\ rcv.delAckCount = 0
              /\ dataNet # <<>> /\ ~ Head(dataNet).probe
              /\ Head(dataNet).seq < rcv.nextRxSeq
              /\ Head(dataNet).seq + Head(dataNet).len > rcv.nextRxSeq
          BY <1>3, <2>1, <3>2 DEF OffGrid
        <4> QED
          BY <1>6, <4>1 DEF OffGrid
      <3> QED
        BY <3>1, <3>2
    <2> QED
      BY <1>2, <1>5, <1>6, <1>7, <1>8, <1>9, <1>10, <2>2, <2>3 DEF IInv
  <1> QED
    BY <1>11, <1>12

\* Nothing is on its way.
LEMMA NoProbe ==
    ASSUME dataNet = <<>>
    PROVE  \A i \in DOMAIN dataNet : ~ dataNet[i].probe
  OBVIOUS

LEMMA AckStep ==
    ASSUME IInv, DeliverAck
    PROVE  IInv'
  <1> DEFINE a == Head(ackNet)
  <1>1. PICK w \in CWnds : Becomes(DoForwardUp(snd, a, w))
    BY DEF DeliverAck
  <1>2. /\ ackNet # <<>> /\ ackNet' = Tail(ackNet) /\ rcv' = rcv /\ losses' = losses
        /\ ~ snd.closed /\ ~ snd.crashed
    BY DEF DeliverAck, Alive
  <1>3. /\ SndOK(snd) /\ snd.out = <<>> /\ WithinWindow(snd) /\ StallOK(snd)
        /\ snd.persistEvent => snd.rWnd = 0 /\ snd.una = snd.nxt
        /\ ackNet \in Seq(Ack) /\ rcv \in RcvType
    BY DEF IInv, PersistOnlyIdle
  <1>4. ~ snd.sendPendingDataEvent
    BY <1>2 DEF IInv, NotYetSent
  <1>5. a = ackNet[1] /\ 1 \in DOMAIN ackNet /\ a \in Ack
    BY <1>2, <1>3, AcksLeft
  <1>6. /\ snd.highRxAckMark <= a.ack /\ KnownEdge(snd) <= a.ack + a.wnd
        /\ a.ack <= rcv.nextRxSeq
        /\ Aligned(a.ack) \/ a.ack > snd.nxt
    BY <1>5 DEF IInv, AcksOK
  <1>7. a.ack > snd.nxt => snd.una = snd.nxt /\ snd.persistEvent
    <2> SUFFICES ASSUME a.ack > snd.nxt PROVE snd.una = snd.nxt /\ snd.persistEvent
      OBVIOUS
    <2>1. a.ack \in Nat /\ rcv.nextRxSeq \in Nat /\ snd.nxt \in Nat
      BY <1>3, <1>5, SndFields DEF Ack, RcvType
    <2> HIDE DEF a
    <2>2. rcv.nextRxSeq > snd.nxt
      BY <1>6, <2>1
    <2> QED
      BY <1>2, <2>2 DEF IInv, AheadByProbe
  <1>8. \A i \in DOMAIN dataNet : ~ dataNet[i].probe
    BY <1>2 DEF IInv, ProbeAlone
  <1> HIDE DEF a
  <1>9. LET r == DoForwardUp(snd, a, w)
        IN  Handled(snd, r) /\ r.highRxAckMark = a.ack /\ r.rWnd = a.wnd
    BY <1>2, <1>3, <1>4, <1>5, <1>6, <1>7, AckHandled
  <1> QED
    BY <1>1, <1>2, <1>8, <1>9, SenderStep DEF a

\* Sending once more, with the same window and nothing acknowledged.
LEMMA SendAgain ==
    ASSUME IInv, NEW b, SndOK(b), b.out = <<>>, ~ b.sendPendingDataEvent,
           b.una = snd.una, b.nxt = snd.nxt, b.rWnd = snd.rWnd,
           b.highRxAckMark = snd.highRxAckMark, b.persistEvent = snd.persistEvent,
           b.closed = snd.closed, b.crashed = snd.crashed,
           b.una = b.nxt \/ (b.lostTo = b.nxt /\ b.rxt = b.una)
    PROVE  LET r == SendPendingData(b)
           IN  /\ Handled(snd, r)
               /\ r.highRxAckMark = snd.highRxAckMark /\ r.rWnd = snd.rWnd
  <1> DEFINE r == SendPendingData(b)
  <1>1. SentFrom(b, b)
    BY SentNothing
  <1>2. /\ SentFrom(b, r) /\ r.persistEvent = b.persistEvent
        /\ Blocked(b) => r = b
        /\ ~ Blocked(b) => r.retxEvent
    BY <1>1, PendingSends
  <1> HIDE DEF r
  <1>3. /\ r.una = b.una /\ r.rWnd = b.rWnd /\ r.highRxAckMark = b.highRxAckMark
        /\ r.closed = b.closed /\ r.crashed = b.crashed
    BY <1>2 DEF SentFrom
  <1>4. /\ b.una \in Nat /\ b.nxt \in Nat /\ b.rWnd \in Nat /\ b.una <= b.nxt
        /\ b.rxt \in Nat
    BY SndFields
  <1>5. WithinWindow(b) /\ ZeroIsProbed(b) /\ ZeroIsProbed(r)
    <2>1. WithinWindow(snd) /\ ZeroIsProbed(snd)
      BY DEF IInv
    <2> QED
      BY <1>2, <1>3, <2>1 DEF WithinWindow, ZeroIsProbed
  <1>6. StallOK(r)
    <2>1. CASE ~ Blocked(b)
      BY <1>2, <2>1 DEF StallOK
    <2>2. CASE Blocked(b) /\ b.rWnd = 0
      BY <1>2, <1>5, <2>2 DEF StallOK, ZeroIsProbed
    <2>3. CASE Blocked(b) /\ ~ (b.una < b.end)
      BY <1>2, <2>3 DEF StallOK
    <2>4. CASE Blocked(b) /\ b.rWnd # 0 /\ b.una < b.end
      <3>1. b.rWnd > 0 /\ (b.una = b.nxt \/ (b.una < b.nxt /\ b.lostTo = b.nxt /\ b.rxt <= b.una))
        BY <1>4, <2>4
      <3>2. b.una = b.nxt /\ b.rWnd < SegmentSize
        BY <1>5, <2>4, <3>1, BlockedMeans
      <3> QED
        BY <1>2, <2>4, <3>1, <3>2 DEF StallOK
    <2> QED
      BY <2>1, <2>2, <2>3, <2>4
  <1>7. r.persistEvent => r.rWnd = 0 /\ r.una = r.nxt /\ r.out = <<>>
    <2> SUFFICES ASSUME r.persistEvent PROVE r.rWnd = 0 /\ r.una = r.nxt /\ r.out = <<>>
      OBVIOUS
    <2>1. b.rWnd = 0 /\ b.una = b.nxt
      BY <1>2 DEF IInv, PersistOnlyIdle
    <2>2. r = b
      BY <1>2, <2>1, ZeroBlocks
    <2> QED
      BY <2>1, <2>2
  <1>8. Handled(snd, r)
    BY <1>2, <1>5, <1>6, <1>7, SendHandles
  <1> QED
    BY <1>3, <1>8 DEF r

LEMMA SendEventStep ==
    ASSUME IInv, SendPendingDataEvent
    PROVE  IInv'
  <1> DEFINE b == [snd EXCEPT !.sendPendingDataEvent = FALSE]
             r == SendPendingData(b)
  <1>1. /\ Becomes(r) /\ rcv' = rcv /\ ackNet' = ackNet /\ losses' = losses
        /\ dataNet = <<>> /\ ackNet = <<>> /\ rcv.delAckCount = 0 /\ snd.una = snd.nxt
    BY DEF SendPendingDataEvent, IInv, NotYetSent
  <1>2. SndOK(snd) /\ snd.out = <<>> /\ snd \in SndType
    BY DEF IInv, SndOK
  <1>3. /\ b \in SndType /\ b.una = snd.una /\ b.nxt = snd.nxt /\ b.end = snd.end
        /\ b.lostTo = snd.lostTo /\ b.rxt = snd.rxt /\ b.rWnd = snd.rWnd
        /\ b.highRxAckMark = snd.highRxAckMark /\ b.persistEvent = snd.persistEvent
        /\ ~ b.sendPendingDataEvent /\ b.closed = snd.closed /\ b.crashed = snd.crashed
        /\ b.out = snd.out
    BY <1>2 DEF SndType
  <1> HIDE DEF b
  <1>4. SndOK(b)
    BY <1>2, <1>3 DEF SndOK, KnownEdge
  <1>5. /\ Handled(snd, r) /\ r.highRxAckMark = snd.highRxAckMark /\ r.rWnd = snd.rWnd
    BY <1>1, <1>2, <1>3, <1>4, SendAgain
  <1> HIDE DEF r
  <1> QED
    BY <1>1, <1>5, NoProbe, SenderStep

LEMMA ReTxStep ==
    ASSUME IInv, ReTxTimeout
    PROVE  IInv'
  <1>1. /\ rcv' = rcv /\ ackNet' = ackNet /\ losses' = losses
        /\ dataNet = <<>> /\ ackNet = <<>> /\ rcv.delAckCount = 0
        /\ ~ snd.sendPendingDataEvent
    BY DEF ReTxTimeout, Quiet
  <1>2. SndOK(snd) /\ snd.out = <<>> /\ snd \in SndType
    BY DEF IInv, SndOK
  <1>3. CASE snd.dataRetrCount = 0
    <2> DEFINE r == [snd EXCEPT !.closed = TRUE, !.retxEvent = FALSE,
                                !.persistEvent = FALSE]
    <2>1. Becomes(r)
      BY <1>3 DEF ReTxTimeout
    <2>2. /\ r \in SndType /\ r.una = snd.una /\ r.nxt = snd.nxt /\ r.end = snd.end
          /\ r.lostTo = snd.lostTo /\ r.rxt = snd.rxt /\ r.rWnd = snd.rWnd
          /\ r.highRxAckMark = snd.highRxAckMark /\ ~ r.persistEvent
          /\ ~ r.sendPendingDataEvent /\ r.closed /\ r.out = <<>>
      BY <1>1, <1>2 DEF SndType
    <2> HIDE DEF r
    <2>3. SndOK(r)
      BY <1>2, <2>2 DEF SndOK, KnownEdge
    <2>4. WithinWindow(r) /\ ZeroIsProbed(r) /\ StallOK(r)
      BY <2>2 DEF IInv, WithinWindow, ZeroIsProbed, StallOK
    <2>5. snd.nxt <= r.nxt
      BY <1>2, <2>2, SndFields
    <2>6. Handled(snd, r)
      BY <2>2, <2>3, <2>4, <2>5 DEF Handled
    <2> QED
      BY <1>1, <2>1, <2>2, <2>6, NoProbe, SenderStep
  <1>4. CASE snd.dataRetrCount # 0
    <2> DEFINE c == snd.dataRetrCount - 1
               b == [snd EXCEPT !.retxEvent = FALSE, !.dataRetrCount = c,
                                !.lostTo = snd.nxt, !.rxt = snd.una, !.cWnd = SegmentSize]
               r == SendPendingData(b)
    <2>1. Becomes(r)
      BY <1>4 DEF ReTxTimeout
    <2>2. /\ c \in Nat /\ SegmentSize \in CWnds /\ snd.nxt \in Nat /\ snd.una \in Nat
          /\ snd.una <= snd.nxt
      BY <1>2, <1>4, SndFields, Constants
    <2>3. /\ b \in SndType /\ b.una = snd.una /\ b.nxt = snd.nxt /\ b.end = snd.end
          /\ b.lostTo = snd.nxt /\ b.rxt = snd.una /\ b.rWnd = snd.rWnd
          /\ b.highRxAckMark = snd.highRxAckMark /\ b.persistEvent = snd.persistEvent
          /\ ~ b.sendPendingDataEvent /\ b.closed = snd.closed /\ b.crashed = snd.crashed
          /\ b.out = <<>>
      <3> HIDE DEF c
      <3> QED
        BY <1>1, <1>2, <2>2 DEF SndType
    <2> HIDE DEF b
    <2>4. SndOK(b)
      BY <1>2, <2>2, <2>3 DEF SndOK, KnownEdge
    <2>5. /\ Handled(snd, r) /\ r.highRxAckMark = snd.highRxAckMark /\ r.rWnd = snd.rWnd
      BY <2>3, <2>4, SendAgain
    <2> HIDE DEF r
    <2> QED
      BY <1>1, <2>1, <2>5, NoProbe, SenderStep
  <1> QED
    BY <1>3, <1>4

LEMMA PersistStep ==
    ASSUME IInv, PersistTimeout
    PROVE  IInv'
  <1>1. /\ rcv' = rcv /\ ackNet' = ackNet /\ losses' = losses
        /\ dataNet = <<>> /\ ackNet = <<>> /\ rcv.delAckCount = 0
        /\ ~ snd.sendPendingDataEvent /\ snd.persistEvent
    BY DEF PersistTimeout, Quiet
  <1>2. SndOK(snd) /\ snd.out = <<>> /\ snd \in SndType /\ snd.nxt \in Nat
    <2>1. SndOK(snd) /\ snd.out = <<>>
      BY DEF IInv
    <2> QED
      BY <2>1, SndFields
  <1>3. CASE snd.nxt = snd.end
    <2> DEFINE r == [snd EXCEPT !.crashed = TRUE]
    <2>1. snd' = [r EXCEPT !.out = <<>>] /\ dataNet' = dataNet \o r.out
      BY <1>3 DEF PersistTimeout, Becomes
    <2>2. /\ r \in SndType /\ r.una = snd.una /\ r.nxt = snd.nxt /\ r.end = snd.end
          /\ r.lostTo = snd.lostTo /\ r.rxt = snd.rxt /\ r.rWnd = snd.rWnd
          /\ r.highRxAckMark = snd.highRxAckMark /\ r.persistEvent = snd.persistEvent
          /\ ~ r.sendPendingDataEvent /\ r.crashed /\ r.out = <<>>
      BY <1>1, <1>2 DEF SndType
    <2> HIDE DEF r
    <2>3. SndOK(r)
      BY <1>2, <2>2 DEF SndOK, KnownEdge
    <2>4. dataNet' = <<>>
      BY <1>1, <2>1, <2>2
    <2>5. WithinWindow(r) /\ ZeroIsProbed(r) /\ StallOK(r)
      BY <2>2 DEF IInv, WithinWindow, ZeroIsProbed, StallOK
    <2>6. snd.nxt <= r.nxt
      BY <1>2, <2>2
    <2>7. Handled(snd, r)
      BY <1>1, <2>2, <2>3, <2>5, <2>6 DEF Handled, IInv, PersistOnlyIdle
    <2>8. Becomes(r)
      BY <2>1 DEF Becomes
    <2> QED
      BY <1>1, <2>2, <2>7, <2>8, NoProbe, SenderStep
  <1>4. CASE snd.nxt # snd.end
    <2> DEFINE p == [seq |-> snd.nxt, len |-> 1, probe |-> TRUE]
               o == <<p>>
               r == [snd EXCEPT !.out = o]
    <2>1. snd' = [r EXCEPT !.out = <<>>] /\ dataNet' = dataNet \o r.out
      BY <1>4 DEF PersistTimeout, Becomes
    <2>2. p \in Segment /\ p.probe /\ p.seq = snd.nxt /\ p.len = 1
      BY <1>2 DEF Segment
    <2> HIDE DEF p
    <2>3. /\ o \in Seq(Segment) /\ Len(o) = 1 /\ DOMAIN o = {1} /\ o[1] = p
          /\ Head(o) = p
      BY <2>2
    <2> HIDE DEF o
    <2>4. r.out = o
      BY <1>2 DEF SndType
    <2>5. snd' = snd
      <3>1. snd' = [snd EXCEPT !.out = <<>>]
        BY <1>2, <2>1 DEF SndType
      <3>2. snd = [snd EXCEPT !.out = snd.out]
        BY <1>2 DEF SndType
      <3> QED
        BY <1>2, <3>1, <3>2
    <2>6. dataNet' = o
      BY <1>1, <2>1, <2>3, <2>4
    <2>7. /\ \A i \in DOMAIN dataNet' : dataNet'[i] = p
      BY <2>3, <2>6
    <2>8. ProbeAlone'
      BY <1>1, <2>2, <2>3, <2>5, <2>6, <2>7 DEF ProbeAlone
    <2>9. AheadByProbe'
      BY <1>1, <2>2, <2>5, <2>7 DEF AheadByProbe, IInv
    <2>10. OffGrid' /\ NotYetSent'
      <3>1. ~ (rcv.nextRxSeq <= snd.nxt /\ ~ Aligned(rcv.nextRxSeq))
        BY <1>1 DEF IInv, OffGrid
      <3>2. ~ (rcv'.nextRxSeq <= snd'.nxt /\ ~ Aligned(rcv'.nextRxSeq))
        BY <1>1, <2>5, <3>1
      <3>3. OffGrid'
        BY <3>2 DEF OffGrid, Aligned, OnGrid
      <3> QED
        BY <1>1, <2>5, <3>3 DEF NotYetSent
    <2>11. \A i \in DOMAIN dataNet' : WellCut(dataNet'[i], snd'.nxt)
      BY <2>2, <2>7 DEF WellCut
    <2>12. /\ SndOK(snd') /\ WithinWindow(snd') /\ ZeroIsProbed(snd') /\ StallOK(snd')
      BY <2>5 DEF IInv
    <2>13. EdgesOK' /\ AcksOK' /\ PersistOnlyIdle'
      <3>1. EdgesOK /\ AcksOK /\ PersistOnlyIdle
        BY DEF IInv
      <3> QED
        BY <1>1, <2>5, <3>1 DEF EdgesOK, AcksOK, PersistOnlyIdle, KnownEdge,
                                 MaxRxSequence, Aligned, OnGrid
    <2> QED
      BY <1>1, <1>2, <2>3, <2>5, <2>6, <2>8, <2>9, <2>10, <2>11, <2>12, <2>13 DEF IInv
  <1> QED
    BY <1>3, <1>4

-----------------------------------------------------------------------------
(* The events of the receiver and of the network.                           *)

\* An ACK says what the receiver has and how far its window reaches.
NewAckOf(r) == [ack |-> r.nextRxSeq, wnd |-> AdvertisedWindowSize(r)]

LEMMA RcvFields ==
    ASSUME NEW r \in RcvType
    PROVE  /\ r.nextRxSeq \in Nat /\ r.unread \in Nat /\ r.unread <= MaxBuffer
           /\ r.delAckCount \in Nat
           /\ MaxRxSequence(r) \in Nat /\ r.nextRxSeq <= MaxRxSequence(r)
           /\ NewAckOf(r) \in Ack /\ NewAckOf(r).ack = r.nextRxSeq
           /\ NewAckOf(r).ack + NewAckOf(r).wnd = MaxRxSequence(r)
  <1>1. /\ r.nextRxSeq \in Nat /\ r.unread \in Nat /\ r.unread <= MaxBuffer
        /\ r.delAckCount \in Nat /\ MaxBuffer \in Nat
    BY Constants DEF RcvType
  <1> DEFINE m == MaxRxSequence(r)
             w == AdvertisedWindowSize(r)
  <1>2. m \in Nat /\ r.nextRxSeq <= m
    BY <1>1 DEF MaxRxSequence
  <1>3. w = m - r.nextRxSeq
    BY DEF AdvertisedWindowSize
  <1> HIDE DEF m, w
  <1>4. w \in Nat /\ r.nextRxSeq + w = m
    BY <1>1, <1>2, <1>3
  <1>5. NewAckOf(r) = [ack |-> r.nextRxSeq, wnd |-> w]
    BY DEF NewAckOf, w
  <1> QED
    BY <1>1, <1>2, <1>4, <1>5 DEF Ack, m

LEMMA AckFields ==
    ASSUME NEW q \in Seq(Ack), NEW i \in DOMAIN q
    PROVE  q[i] \in Ack /\ q[i].ack \in Nat /\ q[i].wnd \in Nat
  <1>1. q[i] \in Ack
    OBVIOUS
  <1> QED
    BY <1>1 DEF Ack

\* An ACK goes to the end of those on their way.
LEMMA AckAppended ==
    ASSUME NEW q \in Seq(Ack), NEW a \in Ack
    PROVE  /\ Append(q, a) \in Seq(Ack) /\ Len(Append(q, a)) = Len(q) + 1
           /\ Len(q) \in Nat /\ DOMAIN q = 1 .. Len(q)
           /\ DOMAIN Append(q, a) = 1 .. Len(q) + 1
           /\ \A i \in 1 .. Len(q) : Append(q, a)[i] = q[i]
           /\ Append(q, a)[Len(q) + 1] = a
  OBVIOUS

\* A step that leaves the sender alone, moves neither edge of the receiver
\* back and sends at most an ACK of where the receiver is.
LEMMA ReceiverStep ==
    ASSUME IInv, snd' = snd, losses' \in Nat, rcv' \in RcvType,
           rcv.nextRxSeq <= rcv'.nextRxSeq,
           MaxRxSequence(rcv) <= MaxRxSequence(rcv'),
           dataNet' \in Seq(Segment),
           \A i \in DOMAIN dataNet' : \E j \in DOMAIN dataNet : dataNet'[i] = dataNet[j],
           \/ ackNet' = ackNet
           \/ ackNet # <<>> /\ ackNet' = Tail(ackNet)
           \/ /\ ackNet' = Append(ackNet, NewAckOf(rcv'))
              /\ Aligned(rcv'.nextRxSeq) \/ rcv'.nextRxSeq > snd.nxt,
           ProbeAlone', AheadByProbe', OffGrid', NotYetSent'
    PROVE  IInv'
  <1>1. /\ SndOK(snd) /\ rcv \in RcvType /\ ackNet \in Seq(Ack) /\ EdgesOK /\ AcksOK
        /\ \A i \in DOMAIN dataNet : WellCut(dataNet[i], snd.nxt)
    BY DEF IInv
  <1>2. /\ SndOK(snd') /\ snd'.out = <<>> /\ WithinWindow(snd') /\ ZeroIsProbed(snd')
        /\ StallOK(snd') /\ PersistOnlyIdle'
    BY DEF IInv, PersistOnlyIdle
  <1>3. \A i \in DOMAIN dataNet' : WellCut(dataNet'[i], snd'.nxt)
    BY <1>1
  <1>4. /\ snd.highRxAckMark \in Nat /\ snd.rWnd \in Nat /\ KnownEdge(snd) \in Nat
        /\ KnownEdge(snd') = KnownEdge(snd)
        /\ rcv.nextRxSeq \in Nat /\ rcv'.nextRxSeq \in Nat
        /\ MaxRxSequence(rcv) \in Nat /\ MaxRxSequence(rcv') \in Nat
    <2>1. snd.highRxAckMark \in Nat /\ snd.rWnd \in Nat
      BY <1>1, SndFields
    <2>2. KnownEdge(snd) \in Nat /\ KnownEdge(snd') = KnownEdge(snd)
      BY <2>1 DEF KnownEdge
    <2> QED
      BY <1>1, <2>1, <2>2, RcvFields
  <1>5. EdgesOK'
    <2>1. /\ snd.highRxAckMark <= rcv.nextRxSeq /\ KnownEdge(snd) <= MaxRxSequence(rcv)
      BY <1>1 DEF EdgesOK
    <2> QED
      BY <1>4, <2>1 DEF EdgesOK
  <1>6. ASSUME NEW i \in DOMAIN ackNet
        PROVE  /\ ackNet[i] \in Ack /\ ackNet[i].ack \in Nat /\ ackNet[i].wnd \in Nat
               /\ snd.highRxAckMark <= ackNet[i].ack /\ ackNet[i].ack <= rcv.nextRxSeq
               /\ ackNet[i].ack <= rcv'.nextRxSeq
               /\ KnownEdge(snd) <= ackNet[i].ack + ackNet[i].wnd
               /\ ackNet[i].ack + ackNet[i].wnd <= MaxRxSequence(rcv)
               /\ ackNet[i].ack + ackNet[i].wnd <= MaxRxSequence(rcv')
               /\ Aligned(ackNet[i].ack) \/ ackNet[i].ack > snd.nxt
    <2>1. ackNet[i] \in Ack /\ ackNet[i].ack \in Nat /\ ackNet[i].wnd \in Nat
      BY <1>1, AckFields
    <2>2. /\ snd.highRxAckMark <= ackNet[i].ack /\ ackNet[i].ack <= rcv.nextRxSeq
          /\ KnownEdge(snd) <= ackNet[i].ack + ackNet[i].wnd
          /\ ackNet[i].ack + ackNet[i].wnd <= MaxRxSequence(rcv)
          /\ Aligned(ackNet[i].ack) \/ ackNet[i].ack > snd.nxt
      BY <1>1 DEF AcksOK
    <2>3. /\ ackNet[i].ack <= rcv'.nextRxSeq
          /\ ackNet[i].ack + ackNet[i].wnd <= MaxRxSequence(rcv')
      BY <1>4, <2>1, <2>2
    <2> QED
      BY <2>1, <2>2, <2>3
  <1>7. \A i, j \in DOMAIN ackNet : i <= j =>
           /\ ackNet[i].ack <= ackNet[j].ack
           /\ ackNet[i].ack + ackNet[i].wnd <= ackNet[j].ack + ackNet[j].wnd
    BY <1>1 DEF AcksOK
  <1>8. ackNet' \in Seq(Ack) /\ AcksOK'
    <2>1. CASE ackNet' = ackNet
      <3>1. ASSUME NEW i \in DOMAIN ackNet'
            PROVE  /\ snd'.highRxAckMark <= ackNet'[i].ack /\ ackNet'[i].ack <= rcv'.nextRxSeq
                   /\ KnownEdge(snd') <= ackNet'[i].ack + ackNet'[i].wnd
                   /\ ackNet'[i].ack + ackNet'[i].wnd <= MaxRxSequence(rcv')
                   /\ Aligned(ackNet'[i].ack) \/ ackNet'[i].ack > snd'.nxt
        <4>1. i \in DOMAIN ackNet /\ ackNet'[i] = ackNet[i]
          BY <2>1
        <4> QED
          BY <1>4, <1>6, <4>1
      <3>2. \A i, j \in DOMAIN ackNet' : i <= j =>
               /\ ackNet'[i].ack <= ackNet'[j].ack
               /\ ackNet'[i].ack + ackNet'[i].wnd <= ackNet'[j].ack + ackNet'[j].wnd
        BY <1>7, <2>1
      <3> QED
        BY <1>1, <2>1, <3>1, <3>2 DEF AcksOK
    <2>2. CASE ackNet # <<>> /\ ackNet' = Tail(ackNet)
      <3>1. /\ Tail(ackNet) \in Seq(Ack)
            /\ \A i \in DOMAIN ackNet' : i + 1 \in DOMAIN ackNet /\ ackNet'[i] = ackNet[i + 1]
            /\ \A i, j \in DOMAIN ackNet' : i <= j => i + 1 <= j + 1
        BY <1>1, <2>2, AcksLeft
      <3> QED
        BY <1>4, <1>6, <1>7, <2>2, <3>1 DEF AcksOK
    <2>3. CASE /\ ackNet' = Append(ackNet, NewAckOf(rcv'))
               /\ Aligned(rcv'.nextRxSeq) \/ rcv'.nextRxSeq > snd.nxt
      <3> DEFINE a == NewAckOf(rcv')
                 n == Len(ackNet)
      <3>1. /\ a \in Ack /\ a.ack = rcv'.nextRxSeq /\ a.ack \in Nat
            /\ a.ack + a.wnd = MaxRxSequence(rcv')
        BY RcvFields DEF Ack
      <3>2. ackNet' = Append(ackNet, a)
        BY <2>3
      <3> HIDE DEF a
      <3>3. /\ ackNet' \in Seq(Ack) /\ n \in Nat /\ DOMAIN ackNet = 1 .. n
            /\ DOMAIN ackNet' = 1 .. n + 1
            /\ \A i \in 1 .. n : ackNet'[i] = ackNet[i]
            /\ ackNet'[n + 1] = a
        BY <1>1, <3>1, <3>2, AckAppended
      <3> HIDE DEF n
      <3>4. /\ snd.highRxAckMark <= a.ack /\ a.ack <= rcv'.nextRxSeq
            /\ KnownEdge(snd) <= a.ack + a.wnd
            /\ a.ack + a.wnd <= MaxRxSequence(rcv')
            /\ Aligned(a.ack) \/ a.ack > snd.nxt
        <4>1. /\ snd.highRxAckMark <= rcv'.nextRxSeq /\ KnownEdge(snd) <= MaxRxSequence(rcv')
          BY <1>4, <1>5 DEF EdgesOK
        <4> QED
          BY <1>4, <2>3, <3>1, <4>1
      <3>5. ASSUME NEW i \in DOMAIN ackNet'
            PROVE  /\ snd'.highRxAckMark <= ackNet'[i].ack /\ ackNet'[i].ack <= rcv'.nextRxSeq
                   /\ KnownEdge(snd') <= ackNet'[i].ack + ackNet'[i].wnd
                   /\ ackNet'[i].ack + ackNet'[i].wnd <= MaxRxSequence(rcv')
                   /\ Aligned(ackNet'[i].ack) \/ ackNet'[i].ack > snd'.nxt
        <4>1. i \in 1 .. n \/ i = n + 1
          BY <3>3
        <4>2. CASE i \in 1 .. n
          BY <1>4, <1>6, <3>3, <4>2
        <4>3. CASE i = n + 1
          BY <1>4, <3>3, <3>4, <4>3
        <4> QED
          BY <4>1, <4>2, <4>3
      <3>6. ASSUME NEW i \in DOMAIN ackNet', NEW j \in DOMAIN ackNet', i <= j
            PROVE  /\ ackNet'[i].ack <= ackNet'[j].ack
                   /\ ackNet'[i].ack + ackNet'[i].wnd <= ackNet'[j].ack + ackNet'[j].wnd
        <4>1. i \in 1 .. n + 1 /\ j \in 1 .. n + 1
          BY <3>3
        <4>2. CASE j \in 1 .. n
          <5>1. i \in 1 .. n
            BY <3>3, <3>6, <4>1, <4>2
          <5> QED
            BY <1>7, <3>3, <3>6, <4>2, <5>1
        <4>3. CASE j = n + 1 /\ i \in 1 .. n
          <5>1. /\ ackNet'[j] = a /\ ackNet'[i] = ackNet[i] /\ ackNet[i].ack <= rcv'.nextRxSeq
                /\ ackNet[i].ack + ackNet[i].wnd <= MaxRxSequence(rcv')
            BY <1>6, <3>3, <4>3
          <5> QED
            BY <3>1, <5>1
        <4>4. CASE j = n + 1 /\ i = n + 1
          <5>1. ackNet'[j] = a /\ ackNet'[i] = a
            BY <3>3, <4>4
          <5>2. a.ack <= a.ack /\ a.ack + a.wnd <= a.ack + a.wnd
            BY <1>4, <3>1
          <5> QED
            BY <5>1, <5>2
        <4> QED
          BY <3>3, <4>1, <4>2, <4>3, <4>4
      <3> QED
        BY <3>3, <3>5, <3>6 DEF AcksOK
    <2> QED
      BY <2>1, <2>2, <2>3
  <1> QED
    BY <1>2, <1>3, <1>5, <1>8 DEF IInv

\* The data still on its way after the first packet is taken.
LEMMA DataLeft ==
    ASSUME NEW d \in Seq(Segment), d # <<>>
    PROVE  /\ Tail(d) \in Seq(Segment) /\ Head(d) = d[1] /\ 1 \in DOMAIN d /\ d[1] \in Segment
           /\ \A i \in DOMAIN Tail(d) : i + 1 \in DOMAIN d /\ Tail(d)[i] = d[i + 1]
           /\ \A i \in DOMAIN Tail(d) : \E j \in DOMAIN d : Tail(d)[i] = d[j]
           /\ \A i \in DOMAIN Tail(d) : Len(d) # 1
           /\ Len(d) = 1 => Tail(d) = <<>>
  <1>1. Len(d) \in Nat /\ Len(d) > 0 /\ DOMAIN d = 1 .. Len(d)
    OBVIOUS
  <1>2. /\ Tail(d) \in Seq(Segment) /\ Len(Tail(d)) = Len(d) - 1 /\ Head(d) = d[1]
        /\ \A i \in 1 .. Len(d) - 1 : Tail(d)[i] = d[i + 1]
    OBVIOUS
  <1>3. DOMAIN Tail(d) = 1 .. Len(d) - 1
    BY <1>2
  <1>4. ASSUME Len(d) = 1 PROVE Tail(d) = <<>>
    <2>1. Tail(d) \in Seq(Segment) /\ Len(Tail(d)) = 0
      BY <1>2, <1>4
    <2> QED
      BY <2>1, EmptySeq
  <1>5. \A i \in DOMAIN Tail(d) : i + 1 \in DOMAIN d /\ Tail(d)[i] = d[i + 1]
    BY <1>1, <1>2, <1>3
  <1> QED
    BY <1>1, <1>2, <1>3, <1>4, <1>5

\* The application reads: the receiver's window grows.
LEMMA ExtractFields ==
    ASSUME NEW r \in RcvType, NEW k \in Nat
    PROVE  LET e == Extract(r, k)
           IN  /\ e \in RcvType /\ e.nextRxSeq = r.nextRxSeq
               /\ e.delAckCount = r.delAckCount /\ e.unread <= r.unread
               /\ MaxRxSequence(r) <= MaxRxSequence(e)
  <1> DEFINE u == Larger(r.unread - k, 0)
             e == [r EXCEPT !.unread = u]
  <1>1. r.nextRxSeq \in Nat /\ r.unread \in Nat /\ r.unread <= MaxBuffer /\ MaxBuffer \in Nat
    BY RcvFields, Constants
  <1>2. u \in 0 .. MaxBuffer /\ u <= r.unread
    BY <1>1 DEF Larger
  <1>3. Extract(r, k) = e
    BY DEF Extract
  <1> HIDE DEF u
  <1>4. /\ e \in RcvType /\ e.nextRxSeq = r.nextRxSeq /\ e.unread = u
        /\ e.delAckCount = r.delAckCount
    BY <1>2 DEF RcvType
  <1> HIDE DEF e
  <1>5. MaxRxSequence(r) <= MaxRxSequence(e)
    BY <1>1, <1>2, <1>4 DEF MaxRxSequence
  <1> QED
    BY <1>2, <1>3, <1>4, <1>5


\* SendAck, with the fields of what it leaves of the receiver.
LEMMA AckSent ==
    ASSUME NEW r \in RcvType, SendAck(r)
    PROVE  /\ rcv' \in RcvType /\ rcv'.nextRxSeq = r.nextRxSeq /\ rcv'.unread = r.unread
           /\ rcv'.delAckCount = 0 /\ MaxRxSequence(rcv') = MaxRxSequence(r)
           /\ ackNet' = Append(ackNet, NewAckOf(rcv'))
  <1>1. /\ rcv' \in RcvType /\ rcv'.nextRxSeq = r.nextRxSeq /\ rcv'.unread = r.unread
        /\ rcv'.delAckCount = 0
    BY DEF SendAck, RcvType
  <1>2. MaxRxSequence(rcv') = MaxRxSequence(r)
    BY <1>1 DEF MaxRxSequence
  <1>3. NewAckOf(rcv') = [ack |-> r.nextRxSeq, wnd |-> AdvertisedWindowSize(r)]
    BY <1>1, <1>2 DEF NewAckOf, AdvertisedWindowSize
  <1> QED
    BY <1>1, <1>2, <1>3 DEF SendAck

\* New data that fits is added, and either an ACK is sent or one is due.
LEMMA DataAdded ==
    ASSUME rcv \in RcvType, NEW new \in Nat, new <= MaxBuffer - rcv.unread,
           NEW added, added = [rcv EXCEPT !.nextRxSeq = @ + new, !.unread = @ + new,
                                          !.delAckCount = @ + 1],
           NEW k \in Reads \cup {0},
           IF added.delAckCount >= DelAckCount THEN SendAck(Extract(added, k))
           ELSE rcv' = Extract(added, k) /\ UNCHANGED ackNet
    PROVE  /\ rcv' \in RcvType /\ rcv'.nextRxSeq = rcv.nextRxSeq + new
           /\ MaxRxSequence(rcv) <= MaxRxSequence(rcv')
           /\ \/ ackNet' = ackNet
              \/ ackNet' = Append(ackNet, NewAckOf(rcv')) /\ rcv'.delAckCount = 0
  <1> DEFINE e == Extract(added, k)
             n == rcv.nextRxSeq + new
             u == rcv.unread + new
             d == rcv.delAckCount + 1
  <1>1. /\ rcv.nextRxSeq \in Nat /\ rcv.unread \in Nat /\ rcv.delAckCount \in Nat
        /\ MaxBuffer \in Nat /\ k \in Nat
    BY RcvFields, Constants
  <1>2. n \in Nat /\ u \in 0 .. MaxBuffer /\ d \in Nat
    BY <1>1
  <1>3. added = [rcv EXCEPT !.nextRxSeq = n, !.unread = u, !.delAckCount = d]
    OBVIOUS
  <1>4. n + MaxBuffer - u = rcv.nextRxSeq + MaxBuffer - rcv.unread
    BY <1>1
  <1> HIDE DEF n, u, d
  <1>5. added \in RcvType /\ added.nextRxSeq = n /\ added.unread = u
    BY <1>2, <1>3 DEF RcvType
  <1>6. MaxRxSequence(added) = MaxRxSequence(rcv)
    BY <1>4, <1>5 DEF MaxRxSequence
  <1>7. e \in RcvType /\ e.nextRxSeq = n /\ MaxRxSequence(rcv) <= MaxRxSequence(e)
    BY <1>1, <1>5, <1>6, ExtractFields
  <1>8. SendAck(e) \/ (rcv' = e /\ ackNet' = ackNet)
    OBVIOUS
  <1> HIDE DEF e
  <1>9. CASE SendAck(e)
    BY <1>7, <1>9, AckSent DEF n
  <1>10. CASE rcv' = e /\ ackNet' = ackNet
    BY <1>7, <1>10 DEF n
  <1> QED
    BY <1>8, <1>9, <1>10

\* A probe arrives at a receiver that has all that was sent, or its byte too.
LEMMA ProbeStep ==
    ASSUME IInv, DeliverData, Head(dataNet).probe
    PROVE  IInv'
  <1> DEFINE p    == Head(dataNet)
             tail == IF rcv.unread = 0 THEN p.seq + p.len
                     ELSE Smaller(p.seq + p.len, MaxRxSequence(rcv))
             new  == Larger(tail - rcv.nextRxSeq, 0)
             added == [rcv EXCEPT !.nextRxSeq = @ + new, !.unread = @ + new,
                                  !.delAckCount = @ + 1]
  <1>1. /\ dataNet # <<>> /\ dataNet' = Tail(dataNet) /\ snd' = snd /\ losses' = losses
        /\ SndOK(snd) /\ rcv \in RcvType /\ ackNet \in Seq(Ack) /\ dataNet \in Seq(Segment)
        /\ losses \in Nat
    BY DEF DeliverData, IInv
  <1>2. /\ p = dataNet[1] /\ 1 \in DOMAIN dataNet /\ dataNet' \in Seq(Segment)
        /\ Len(dataNet) = 1 => dataNet' = <<>>
        /\ \A i \in DOMAIN dataNet' : \E j \in DOMAIN dataNet : dataNet'[i] = dataNet[j]
    BY <1>1, DataLeft
  <1>3. /\ Len(dataNet) = 1 /\ ackNet = <<>> /\ rcv.delAckCount = 0
        /\ snd.persistEvent /\ ~ snd.sendPendingDataEvent
        /\ p.seq = snd.nxt /\ p.len = 1
    BY <1>2 DEF IInv, ProbeAlone
  <1>4. /\ snd.nxt \in Nat /\ rcv.nextRxSeq \in Nat /\ rcv.unread \in Nat
        /\ rcv.unread <= MaxBuffer /\ MaxBuffer \in Nat /\ MaxBuffer > 0
        /\ MaxRxSequence(rcv) = rcv.nextRxSeq + MaxBuffer - rcv.unread
    BY <1>1, SndFields, RcvFields, Constants DEF MaxRxSequence
  <1>5. snd.una = snd.nxt /\ snd.nxt <= rcv.nextRxSeq /\ rcv.nextRxSeq <= snd.nxt + 1
    <2>1. snd.una = snd.nxt
      BY <1>3 DEF IInv, PersistOnlyIdle
    <2>2. snd.una <= snd.highRxAckMark /\ snd.highRxAckMark <= rcv.nextRxSeq
      BY DEF IInv, SndOK, EdgesOK
    <2>3. snd.highRxAckMark \in Nat
      BY <1>1, SndFields
    <2>4. rcv.nextRxSeq > snd.nxt => rcv.nextRxSeq = snd.nxt + 1
      BY DEF IInv, AheadByProbe
    <2> QED
      BY <1>4, <2>1, <2>2, <2>3, <2>4
  <1>6. Aligned(rcv.nextRxSeq) \/ rcv.nextRxSeq > snd.nxt
    <2>1. ~ (rcv.nextRxSeq <= snd.nxt /\ ~ Aligned(rcv.nextRxSeq))
      BY DEF IInv, OffGrid
    <2> QED
      BY <1>4, <2>1
  <1>7. dataNet' = <<>>
    BY <1>2, <1>3
  <1>8. ProbeAlone' /\ NotYetSent'
    BY <1>1, <1>3, <1>7 DEF ProbeAlone, NotYetSent
  <1>9. CASE SendAck(rcv)
    <2>1. /\ rcv' \in RcvType /\ rcv'.nextRxSeq = rcv.nextRxSeq /\ rcv'.delAckCount = 0
          /\ MaxRxSequence(rcv') = MaxRxSequence(rcv)
          /\ ackNet' = Append(ackNet, NewAckOf(rcv'))
      BY <1>1, <1>9, AckSent
    <2>2. Len(ackNet') = 1
      BY <1>3, <2>1
    <2>3. AheadByProbe'
      <3>1. rcv.nextRxSeq > snd.nxt => rcv.nextRxSeq = snd.nxt + 1
        BY <1>4, <1>5
      <3> QED
        BY <1>1, <1>3, <1>5, <1>7, <2>1, <2>2, <3>1 DEF AheadByProbe
    <2>4. ~ (rcv'.nextRxSeq <= snd'.nxt /\ ~ Aligned(rcv'.nextRxSeq))
      BY <1>1, <1>4, <1>6, <2>1
    <2>5. OffGrid'
      BY <2>4 DEF OffGrid, Aligned, OnGrid
    <2>6. rcv.nextRxSeq <= rcv'.nextRxSeq /\ MaxRxSequence(rcv) <= MaxRxSequence(rcv')
      BY <1>1, <1>4, <2>1, RcvFields
    <2>7. Aligned(rcv'.nextRxSeq) \/ rcv'.nextRxSeq > snd.nxt
      BY <1>6, <2>1
    <2> HIDE DEF p, tail, new, added
    <2> QED
      BY <1>1, <1>2, <1>8, <2>1, <2>3, <2>5, <2>6, <2>7, ReceiverStep
  <1>10. CASE ~ SendAck(rcv)
    <2>1. /\ ~ (OutOfRange(rcv, p) \/ new = 0)
          /\ \E k \in Reads \cup {0} :
                IF added.delAckCount >= DelAckCount THEN SendAck(Extract(added, k))
                ELSE rcv' = Extract(added, k) /\ UNCHANGED ackNet
      BY <1>10 DEF DeliverData
    <2>2. PICK k \in Reads \cup {0} :
             IF added.delAckCount >= DelAckCount THEN SendAck(Extract(added, k))
             ELSE rcv' = Extract(added, k) /\ UNCHANGED ackNet
      BY <2>1
    <2>3. rcv.nextRxSeq = snd.nxt /\ new = 1 /\ new <= MaxBuffer - rcv.unread
      <3>1. new # 0
        BY <2>1
      <3>2. tail \in Int /\ tail <= snd.nxt + 1 /\ tail <= rcv.nextRxSeq + MaxBuffer - rcv.unread
        <4> DEFINE m == MaxRxSequence(rcv)
        <4>1. p.seq + p.len = snd.nxt + 1 /\ m = rcv.nextRxSeq + MaxBuffer - rcv.unread
          BY <1>3, <1>4
        <4> HIDE DEF m
        <4>2. CASE rcv.unread = 0
          <5>1. tail = snd.nxt + 1
            BY <4>1, <4>2
          <5> QED
            BY <1>4, <1>5, <4>2, <5>1
        <4>3. CASE rcv.unread # 0
          <5>1. tail = Smaller(snd.nxt + 1, m)
            BY <4>1, <4>3 DEF m
          <5> HIDE DEF tail
          <5>2. m \in Int
            BY <1>4, <4>1
          <5> QED
            BY <1>4, <4>1, <5>1, <5>2 DEF Smaller
        <4> QED
          BY <4>2, <4>3
      <3> HIDE DEF tail
      <3> QED
        BY <1>4, <1>5, <3>1, <3>2 DEF Larger
    <2> HIDE DEF new
    <2>4. /\ rcv' \in RcvType /\ rcv'.nextRxSeq = rcv.nextRxSeq + new
          /\ MaxRxSequence(rcv) <= MaxRxSequence(rcv')
          /\ \/ ackNet' = ackNet
             \/ ackNet' = Append(ackNet, NewAckOf(rcv')) /\ rcv'.delAckCount = 0
      <3>1. new \in Nat
        BY <2>3
      <3> QED
        BY <1>1, <2>2, <2>3, <3>1, DataAdded
    <2> HIDE DEF added, tail, p
    <2>5. rcv'.nextRxSeq = snd.nxt + 1 /\ rcv'.nextRxSeq > snd.nxt
      BY <1>4, <2>3, <2>4
    <2>6. AheadByProbe'
      <3>1. ackNet' = <<>> \/ (Len(ackNet') = 1 /\ rcv'.delAckCount = 0)
        BY <1>3, <2>4
      <3> QED
        BY <1>1, <1>3, <1>5, <1>7, <2>5, <3>1 DEF AheadByProbe
    <2>7. OffGrid'
      BY <1>1, <1>4, <2>5 DEF OffGrid
    <2>8. rcv.nextRxSeq <= rcv'.nextRxSeq
      BY <1>4, <2>3, <2>5
    <2> QED
      BY <1>1, <1>2, <1>8, <2>4, <2>5, <2>6, <2>7, <2>8, ReceiverStep
  <1> QED
    BY <1>9, <1>10

\* A segment arrives and fits.
LEMMA SegmentStep ==
    ASSUME IInv, DeliverData, ~ Head(dataNet).probe
    PROVE  IInv'
  <1> DEFINE p    == Head(dataNet)
             tail == IF rcv.unread = 0 THEN p.seq + p.len
                     ELSE Smaller(p.seq + p.len, MaxRxSequence(rcv))
             new  == Larger(tail - rcv.nextRxSeq, 0)
             added == [rcv EXCEPT !.nextRxSeq = @ + new, !.unread = @ + new,
                                  !.delAckCount = @ + 1]
  <1>1. /\ dataNet # <<>> /\ dataNet' = Tail(dataNet) /\ snd' = snd /\ losses' = losses
        /\ SndOK(snd) /\ rcv \in RcvType /\ ackNet \in Seq(Ack) /\ dataNet \in Seq(Segment)
        /\ losses \in Nat
    BY DEF DeliverData, IInv
  <1>2. /\ p = dataNet[1] /\ 1 \in DOMAIN dataNet /\ dataNet' \in Seq(Segment)
        /\ p \in Segment
        /\ \A i \in DOMAIN dataNet' : i + 1 \in DOMAIN dataNet /\ dataNet'[i] = dataNet[i + 1]
        /\ \A i \in DOMAIN dataNet' : \E j \in DOMAIN dataNet : dataNet'[i] = dataNet[j]
        /\ \A i \in DOMAIN dataNet' : Len(dataNet) # 1
    BY <1>1, DataLeft
  <1>3. /\ snd.nxt \in Nat /\ rcv.nextRxSeq \in Nat /\ rcv.unread \in Nat
        /\ rcv.unread <= MaxBuffer /\ MaxBuffer \in Nat /\ MaxBuffer > 0
        /\ MaxRxSequence(rcv) = rcv.nextRxSeq + MaxBuffer - rcv.unread
        /\ p.seq \in Nat /\ p.len \in Nat
    BY <1>1, <1>2, SndFields, RcvFields, Constants DEF MaxRxSequence, Segment
  <1>4. rcv.nextRxSeq <= snd.nxt
    <2> SUFFICES ASSUME rcv.nextRxSeq > snd.nxt PROVE FALSE
      BY <1>3
    <2>1. \A i \in DOMAIN dataNet : dataNet[i].probe
      BY <1>1 DEF IInv, AheadByProbe
    <2> QED
      BY <1>2, <2>1
  <1>5. p.seq + p.len <= snd.nxt /\ Aligned(p.seq + p.len) /\ p.seq + p.len <= MaxRxSequence(rcv)
    <2>1. WellCut(p, snd.nxt)
      BY <1>2 DEF IInv
    <2>2. snd.nxt <= KnownEdge(snd) /\ KnownEdge(snd) <= MaxRxSequence(rcv)
      BY DEF IInv, SndOK, EdgesOK
    <2>3. KnownEdge(snd) \in Nat
      BY <1>1, SndFields DEF KnownEdge
    <2>4. p.seq + p.len <= snd.nxt /\ Aligned(p.seq + p.len)
      BY <2>1 DEF WellCut
    <2> QED
      BY <1>3, <2>2, <2>3, <2>4
  <1>6. \A i \in DOMAIN dataNet' : ~ dataNet'[i].probe
    BY <1>2 DEF IInv, ProbeAlone
  <1>7. ProbeAlone' /\ NotYetSent'
    <2>1. ~ snd.sendPendingDataEvent
      BY <1>1 DEF IInv, NotYetSent
    <2> QED
      BY <1>1, <1>6, <2>1 DEF ProbeAlone, NotYetSent
  <1>8. tail = p.seq + p.len
    BY <1>3, <1>5 DEF Smaller
  <1> HIDE DEF tail
  <1>9. CASE OutOfRange(rcv, p) \/ new = 0
    <2>1. SendAck(rcv)
      BY <1>9 DEF DeliverData, tail
    <2>2. /\ rcv' \in RcvType /\ rcv'.nextRxSeq = rcv.nextRxSeq /\ rcv'.delAckCount = 0
          /\ MaxRxSequence(rcv') = MaxRxSequence(rcv)
          /\ ackNet' = Append(ackNet, NewAckOf(rcv'))
      BY <1>1, <2>1, AckSent
    <2>3. Aligned(rcv.nextRxSeq)
      <3> SUFFICES ASSUME ~ Aligned(rcv.nextRxSeq) PROVE FALSE
        OBVIOUS
      <3>1. p.seq < rcv.nextRxSeq /\ p.seq + p.len > rcv.nextRxSeq
        BY <1>4 DEF IInv, OffGrid
      <3> QED
        BY <1>3, <1>8, <1>9, <3>1 DEF OutOfRange, Larger
    <2>4. AheadByProbe'
      BY <1>1, <1>3, <1>4, <2>2 DEF AheadByProbe
    <2>5. OffGrid'
      BY <2>2, <2>3 DEF OffGrid, Aligned, OnGrid
    <2>6. rcv.nextRxSeq <= rcv'.nextRxSeq /\ MaxRxSequence(rcv) <= MaxRxSequence(rcv')
      BY <1>1, <1>3, <2>2, RcvFields
    <2>7. Aligned(rcv'.nextRxSeq)
      BY <2>2, <2>3
    <2> HIDE DEF p, new, added
    <2> QED
      BY <1>1, <1>2, <1>7, <2>2, <2>4, <2>5, <2>6, <2>7, ReceiverStep
  <1>10. CASE ~ (OutOfRange(rcv, p) \/ new = 0)
    <2>1. PICK k \in Reads \cup {0} :
             IF added.delAckCount >= DelAckCount THEN SendAck(Extract(added, k))
             ELSE rcv' = Extract(added, k) /\ UNCHANGED ackNet
      BY <1>10 DEF DeliverData, tail
    <2>2. /\ new \in Nat /\ new <= MaxBuffer - rcv.unread
          /\ rcv.nextRxSeq + new = p.seq + p.len
      BY <1>3, <1>5, <1>8, <1>10 DEF Larger
    <2> HIDE DEF new
    <2>3. /\ rcv' \in RcvType /\ rcv'.nextRxSeq = rcv.nextRxSeq + new
          /\ MaxRxSequence(rcv) <= MaxRxSequence(rcv')
          /\ \/ ackNet' = ackNet
             \/ ackNet' = Append(ackNet, NewAckOf(rcv')) /\ rcv'.delAckCount = 0
      BY <1>1, <2>1, <2>2, DataAdded
    <2> HIDE DEF added
    <2>4. /\ rcv'.nextRxSeq = p.seq + p.len /\ rcv'.nextRxSeq <= snd.nxt
          /\ rcv'.nextRxSeq \in Nat /\ rcv.nextRxSeq <= rcv'.nextRxSeq
      BY <1>3, <1>5, <2>2, <2>3
    <2>5. Aligned(rcv'.nextRxSeq)
      BY <1>5, <2>4
    <2>6. AheadByProbe'
      BY <1>1, <1>3, <2>4 DEF AheadByProbe
    <2>7. OffGrid'
      BY <2>5 DEF OffGrid, Aligned, OnGrid
    <2> HIDE DEF p
    <2> QED
      BY <1>1, <1>2, <1>7, <2>3, <2>4, <2>5, <2>6, <2>7, ReceiverStep
  <1> QED
    BY <1>9, <1>10

LEMMA DelAckStep ==
    ASSUME IInv, DelAckTimeout
    PROVE  IInv'
  <1>1. /\ rcv.delAckCount > 0 /\ SendAck(rcv) /\ snd' = snd /\ dataNet' = dataNet
        /\ losses' = losses /\ SndOK(snd) /\ rcv \in RcvType /\ ackNet \in Seq(Ack)
        /\ dataNet \in Seq(Segment) /\ losses \in Nat
    BY DEF DelAckTimeout, IInv
  <1>2. rcv.delAckCount # 0 /\ snd.nxt \in Nat /\ rcv.nextRxSeq \in Nat
    BY <1>1, RcvFields, SndFields
  <1>3. /\ rcv' \in RcvType /\ rcv'.nextRxSeq = rcv.nextRxSeq /\ rcv'.delAckCount = 0
        /\ MaxRxSequence(rcv') = MaxRxSequence(rcv)
        /\ ackNet' = Append(ackNet, NewAckOf(rcv'))
    BY <1>1, AckSent
  <1>4. Aligned(rcv.nextRxSeq) \/ rcv.nextRxSeq > snd.nxt
    <2>1. ~ (rcv.nextRxSeq <= snd.nxt /\ ~ Aligned(rcv.nextRxSeq))
      BY <1>2 DEF IInv, OffGrid
    <2> QED
      BY <1>2, <2>1
  <1>5. ProbeAlone' /\ NotYetSent'
    <2>1. (\A i \in DOMAIN dataNet : ~ dataNet[i].probe) /\ ~ snd.sendPendingDataEvent
      BY <1>2 DEF IInv, ProbeAlone, NotYetSent
    <2> QED
      BY <1>1, <2>1 DEF ProbeAlone, NotYetSent
  <1>6. AheadByProbe'
    <2>1. rcv.nextRxSeq > snd.nxt =>
             /\ rcv.nextRxSeq = snd.nxt + 1 /\ snd.una = snd.nxt
             /\ ~ snd.sendPendingDataEvent /\ snd.persistEvent
             /\ dataNet = <<>> /\ ackNet = <<>>
      BY <1>2 DEF IInv, AheadByProbe
    <2>2. ackNet = <<>> => Len(ackNet') = 1
      BY <1>3
    <2> QED
      BY <1>1, <1>3, <2>1, <2>2 DEF AheadByProbe
  <1>7. ~ (rcv'.nextRxSeq <= snd'.nxt /\ ~ Aligned(rcv'.nextRxSeq))
    BY <1>1, <1>2, <1>3, <1>4
  <1>8. OffGrid'
    BY <1>7 DEF OffGrid, Aligned, OnGrid
  <1>9. rcv.nextRxSeq <= rcv'.nextRxSeq /\ MaxRxSequence(rcv) <= MaxRxSequence(rcv')
    BY <1>1, <1>2, <1>3, RcvFields
  <1>10. Aligned(rcv'.nextRxSeq) \/ rcv'.nextRxSeq > snd.nxt
    BY <1>3, <1>4
  <1>11. \A i \in DOMAIN dataNet' : \E j \in DOMAIN dataNet : dataNet'[i] = dataNet[j]
    BY <1>1
  <1> QED
    BY <1>1, <1>3, <1>5, <1>6, <1>8, <1>9, <1>10, <1>11, ReceiverStep

LEMMA RecvStep ==
    ASSUME IInv, Recv
    PROVE  IInv'
  <1>1. PICK k \in Reads : rcv' = Extract(rcv, k)
    BY DEF Recv
  <1>2. /\ snd' = snd /\ dataNet' = dataNet /\ ackNet' = ackNet /\ losses' = losses
        /\ rcv \in RcvType /\ dataNet \in Seq(Segment) /\ losses \in Nat
    BY DEF Recv, IInv
  <1>3. /\ rcv' \in RcvType /\ rcv'.nextRxSeq = rcv.nextRxSeq
        /\ rcv'.delAckCount = rcv.delAckCount
        /\ MaxRxSequence(rcv) <= MaxRxSequence(rcv')
    BY <1>1, <1>2, ExtractFields, Constants
  <1>4. rcv.nextRxSeq <= rcv'.nextRxSeq
    BY <1>2, <1>3, RcvFields
  <1>5. ProbeAlone' /\ AheadByProbe' /\ NotYetSent'
    BY <1>2, <1>3 DEF IInv, ProbeAlone, AheadByProbe, NotYetSent
  <1>6. OffGrid'
    <2>1. OffGrid
      BY DEF IInv
    <2> QED
      BY <1>2, <1>3, <2>1 DEF OffGrid, Aligned, OnGrid
  <1>7. \A i \in DOMAIN dataNet' : \E j \in DOMAIN dataNet : dataNet'[i] = dataNet[j]
    BY <1>2
  <1> QED
    BY <1>2, <1>3, <1>4, <1>5, <1>6, <1>7, ReceiverStep

LEMMA LoseProbeStep ==
    ASSUME IInv, LoseProbe
    PROVE  IInv'
  <1>1. /\ dataNet # <<>> /\ Head(dataNet).probe /\ dataNet' = Tail(dataNet)
        /\ losses' = losses + 1 /\ snd' = snd /\ rcv' = rcv /\ ackNet' = ackNet
        /\ rcv \in RcvType /\ dataNet \in Seq(Segment) /\ losses \in Nat
    BY DEF LoseProbe, IInv
  <1>2. /\ Head(dataNet) = dataNet[1] /\ 1 \in DOMAIN dataNet /\ dataNet' \in Seq(Segment)
        /\ Len(dataNet) = 1 => dataNet' = <<>>
        /\ \A i \in DOMAIN dataNet' : \E j \in DOMAIN dataNet : dataNet'[i] = dataNet[j]
    BY <1>1, DataLeft
  <1>3. /\ Len(dataNet) = 1 /\ ackNet = <<>> /\ rcv.delAckCount = 0
        /\ snd.persistEvent /\ ~ snd.sendPendingDataEvent
    BY <1>1, <1>2 DEF IInv, ProbeAlone
  <1>4. dataNet' = <<>> /\ losses' \in Nat
    BY <1>1, <1>2, <1>3
  <1>5. ProbeAlone' /\ NotYetSent'
    BY <1>1, <1>3, <1>4 DEF ProbeAlone, NotYetSent
  <1>6. AheadByProbe'
    BY <1>1, <1>3, <1>4 DEF IInv, AheadByProbe
  <1>7. OffGrid'
    <2>1. ~ (rcv.nextRxSeq <= snd.nxt /\ ~ Aligned(rcv.nextRxSeq))
      BY <1>1 DEF IInv, OffGrid
    <2> QED
      BY <1>1, <2>1 DEF OffGrid, Aligned, OnGrid
  <1>8. rcv.nextRxSeq <= rcv'.nextRxSeq /\ MaxRxSequence(rcv) <= MaxRxSequence(rcv')
    BY <1>1, RcvFields
  <1>9. rcv' \in RcvType
    BY <1>1
  <1> QED
    BY <1>1, <1>2, <1>4, <1>5, <1>6, <1>7, <1>8, <1>9, ReceiverStep

LEMMA LoseAckStep ==
    ASSUME IInv, LoseAck
    PROVE  IInv'
  <1>1. /\ ackNet # <<>> /\ ackNet' = Tail(ackNet) /\ losses' = losses + 1
        /\ snd' = snd /\ rcv' = rcv /\ dataNet' = dataNet
        /\ rcv \in RcvType /\ dataNet \in Seq(Segment) /\ losses \in Nat /\ ackNet \in Seq(Ack)
    BY DEF LoseAck, IInv
  <1>2. ProbeAlone' /\ NotYetSent'
    <2>1. (\A i \in DOMAIN dataNet : ~ dataNet[i].probe) /\ ~ snd.sendPendingDataEvent
      BY <1>1 DEF IInv, ProbeAlone, NotYetSent
    <2> QED
      BY <1>1, <2>1 DEF ProbeAlone, NotYetSent
  <1>3. AheadByProbe'
    <2>1. rcv.nextRxSeq > snd.nxt =>
             /\ rcv.nextRxSeq = snd.nxt + 1 /\ snd.una = snd.nxt
             /\ ~ snd.sendPendingDataEvent /\ snd.persistEvent
             /\ dataNet = <<>> /\ Len(ackNet) = 1 /\ rcv.delAckCount = 0
      BY <1>1 DEF IInv, AheadByProbe
    <2>2. Len(ackNet) = 1 => ackNet' = <<>>
      BY <1>1, AcksLeft
    <2> QED
      BY <1>1, <2>1, <2>2 DEF AheadByProbe
  <1>4. OffGrid'
    <2>1. ~ (rcv.nextRxSeq <= snd.nxt /\ ~ Aligned(rcv.nextRxSeq))
      BY <1>1 DEF IInv, OffGrid
    <2> QED
      BY <1>1, <2>1 DEF OffGrid, Aligned, OnGrid
  <1>5. rcv.nextRxSeq <= rcv'.nextRxSeq /\ MaxRxSequence(rcv) <= MaxRxSequence(rcv')
    BY <1>1, RcvFields
  <1>6. /\ rcv' \in RcvType /\ losses' \in Nat /\ dataNet' \in Seq(Segment)
        /\ \A i \in DOMAIN dataNet' : \E j \in DOMAIN dataNet : dataNet'[i] = dataNet[j]
    BY <1>1
  <1> QED
    BY <1>1, <1>2, <1>3, <1>4, <1>5, <1>6, ReceiverStep

-----------------------------------------------------------------------------
(* The theorems.                                                            *)

LEMMA InitHolds ==
    ASSUME Init
    PROVE  IInv
  <1>1. PICK w \in CWnds : snd = InitSnd(w)
    BY DEF Init
  <1>2. /\ rcv = [nextRxSeq |-> 1, unread |-> 0, delAckCount |-> 0]
        /\ dataNet = <<>> /\ ackNet = <<>> /\ losses = 0
    BY DEF Init
  <1>3. /\ snd.una = 1 /\ snd.nxt = 1 /\ snd.end = Bytes + 1 /\ snd.lostTo = 1
        /\ snd.rxt = 1 /\ snd.rWnd = MaxBuffer /\ snd.highRxAckMark = 1
        /\ ~ snd.retxEvent /\ ~ snd.persistEvent /\ snd.sendPendingDataEvent
        /\ ~ snd.closed /\ ~ snd.crashed /\ snd.out = <<>>
    BY <1>1 DEF InitSnd
  <1>4. snd \in SndType
    <2> DEFINE e == <<>>
    <2>1. e \in Seq(Segment) /\ DataRetries \in Nat /\ Bytes \in Nat /\ MaxBuffer \in Nat
      BY WindowAssumption, Constants
    <2> HIDE DEF e
    <2> QED
      BY <1>1, <2>1 DEF InitSnd, SndType, e
  <1>5. Bytes \in Nat /\ Bytes > 0 /\ MaxBuffer \in Nat /\ MaxBuffer > 0
    BY Constants
  <1>6. Aligned(1)
    BY GridStarts
  <1>7. SndOK(snd)
    BY <1>3, <1>4, <1>5, <1>6 DEF SndOK, KnownEdge
  <1>8. WithinWindow(snd) /\ ZeroIsProbed(snd) /\ PersistOnlyIdle /\ StallOK(snd)
    BY <1>3, <1>5 DEF WithinWindow, ZeroIsProbed, PersistOnlyIdle, StallOK
  <1>9. rcv \in RcvType /\ rcv.nextRxSeq = 1 /\ rcv.unread = 0 /\ rcv.delAckCount = 0
    BY <1>2, <1>5 DEF RcvType
  <1>10. EdgesOK
    BY <1>3, <1>5, <1>9 DEF EdgesOK, KnownEdge, MaxRxSequence
  <1>11. DOMAIN dataNet = {} /\ DOMAIN ackNet = {}
    BY <1>2
  <1>12. AcksOK /\ ProbeAlone
    BY <1>11 DEF AcksOK, ProbeAlone
  <1>13. AheadByProbe /\ OffGrid /\ NotYetSent
    BY <1>2, <1>3, <1>6, <1>9 DEF AheadByProbe, OffGrid, NotYetSent
  <1>14. dataNet \in Seq(Segment) /\ ackNet \in Seq(Ack) /\ losses \in Nat
    BY <1>2
  <1> QED
    BY <1>3, <1>7, <1>8, <1>9, <1>10, <1>11, <1>12, <1>13, <1>14 DEF IInv

LEMMA NextPreserves ==
    ASSUME IInv, [Next]_vars
    PROVE  IInv'
  <1>1. CASE SendPendingDataEvent
    BY <1>1, SendEventStep
  <1>2. CASE DeliverAck
    BY <1>2, AckStep
  <1>3. CASE ReTxTimeout
    BY <1>3, ReTxStep
  <1>4. CASE PersistTimeout
    BY <1>4, PersistStep
  <1>5. CASE DeliverData
    BY <1>5, ProbeStep, SegmentStep
  <1>6. CASE DelAckTimeout
    BY <1>6, DelAckStep
  <1>7. CASE Recv
    BY <1>7, RecvStep
  <1>8. CASE LoseProbe
    BY <1>8, LoseProbeStep
  <1>9. CASE LoseAck
    BY <1>9, LoseAckStep
  <1>10. CASE UNCHANGED vars
    BY <1>10 DEF vars, IInv, PersistOnlyIdle, EdgesOK, AcksOK, ProbeAlone, AheadByProbe,
                 OffGrid, NotYetSent, KnownEdge, MaxRxSequence
  <1> QED
    BY <1>1, <1>2, <1>3, <1>4, <1>5, <1>6, <1>7, <1>8, <1>9, <1>10 DEF Next

LEMMA Invariance == Spec => []IInv
  <1>1. Init => IInv
    BY InitHolds
  <1>2. IInv /\ [Next]_vars => IInv'
    BY NextPreserves
  <1> QED
    BY <1>1, <1>2, PTL DEF Spec

\* However stale the window it was sent under, no segment is trimmed by the
\* receive buffer: the sender never sends beyond the right edge it knows, and
\* the receiver's right edge never moves back.
THEOREM NeverTrimmed == Spec => []NothingTrimmed
  <1>1. IInv => NothingTrimmed
    <2> SUFFICES ASSUME IInv, NEW i \in DOMAIN dataNet, ~ dataNet[i].probe
                 PROVE  dataNet[i].seq + dataNet[i].len <= MaxRxSequence(rcv)
      BY DEF NothingTrimmed
    <2>1. dataNet[i] \in Segment
      BY DEF IInv
    <2>2. dataNet[i].seq \in Nat /\ dataNet[i].len \in Nat
      BY <2>1 DEF Segment
    <2>3. dataNet[i].seq + dataNet[i].len <= snd.nxt
      BY DEF IInv, WellCut
    <2>4. snd.nxt <= KnownEdge(snd) /\ KnownEdge(snd) <= MaxRxSequence(rcv)
      BY DEF IInv, SndOK, EdgesOK
    <2>5. snd.nxt \in Nat /\ KnownEdge(snd) \in Nat /\ MaxRxSequence(rcv) \in Nat
      <3>1. SndOK(snd) /\ rcv \in RcvType
        BY DEF IInv
      <3> QED
        BY <3>1, SndFields, RcvFields DEF KnownEdge
    <2> QED
      BY <2>2, <2>3, <2>4, <2>5
  <1> QED
    BY <1>1, Invariance, PTL

\* The persist timer runs only while the window is zero and nothing is in
\* flight, so that what PersistTimeout takes off the sent list is its probe.
THEOREM PersistIdle == Spec => []PersistOnlyIdle
  <1>1. IInv => PersistOnlyIdle
    BY DEF IInv
  <1> QED
    BY <1>1, Invariance, PTL

\* A transfer stalls, with data left and no timer, only below a window that is
\* open by less than a segment, with everything sent acknowledged.
THEOREM StallIsSilly == Spec => []StallsOnlyOnSillyWindow
  <1>1. IInv => StallsOnlyOnSillyWindow
    BY DEF IInv, StallOK, StallsOnlyOnSillyWindow, Stalled, Alive
  <1> QED
    BY <1>1, Invariance, PTL
=============================================================================
