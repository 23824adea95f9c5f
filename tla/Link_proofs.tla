---------------------------- MODULE Link_proofs -----------------------------
(***************************************************************************)
(* Proofs about Link, for any number and sizes of packets and any sizes of *)
(* the queues, thresholds, quota and limits.                               *)
(***************************************************************************)
EXTENDS Link, SequenceTheorems, WellFoundedInduction, TLAPS

-----------------------------------------------------------------------------
(* Iteration: Run is a loop.  The facts are stated over sets, not over      *)
(* predicates, so that the provers can instantiate them.                    *)

\* A set of natural numbers that is not empty has a least element.
LEMMA LeastNat ==
    ASSUME NEW T \in SUBSET Nat, T # {}
    PROVE  \E m \in T : \A k \in T : m <= k
  <1> DEFINE R == OpToRel(<, Nat)
  <1>1. IsWellFoundedOn(R, Nat)
    BY NatLessThanWellFounded
  <1>2. PICK m \in T : \A k \in T : ~ (<<k, m>> \in R)
    <2> HIDE DEF R
    <2> QED
      BY <1>1, WFMin, Zenon
  <1>3. ASSUME NEW k \in T PROVE m <= k
    <2>1. <<k, m>> \notin R
      BY <1>2
    <2>2. <<k, m>> \in Nat \X Nat
      OBVIOUS
    <2>3. ~ (k < m)
      BY <2>1, <2>2 DEF OpToRel
    <2> QED
      BY <2>3
  <1> QED
    BY <1>3

\* Induction on the natural numbers.
LEMMA NatInduct ==
    ASSUME NEW S, 0 \in S, \A n \in Nat : n \in S => n + 1 \in S
    PROVE  Nat \subseteq S
  <1> SUFFICES ASSUME NEW n0 \in Nat, n0 \notin S PROVE FALSE
    OBVIOUS
  <1> DEFINE T == {n \in Nat : n \notin S}
  <1>1. PICK m \in T : \A k \in T : m <= k
    BY LeastNat
  <1>2. m # 0
    OBVIOUS
  <1>3. m - 1 \in Nat /\ m - 1 \notin T
    BY <1>1, <1>2
  <1> QED
    BY <1>3

\* g[k] is what k rounds of F make of s, for k up to n.
Iterates(F, s, n, g) ==
    g[0] = s /\ \A k \in 1 .. n : g[k] = F[g[k - 1]]

\* A function on X can be iterated n times from s.
LEMMA IterExists ==
    ASSUME NEW X, NEW F \in [X -> X], NEW s \in X, NEW n \in Nat
    PROVE  \E g \in [0 .. n -> X] : Iterates(F, s, n, g)
  <1> DEFINE S == {m \in Nat : \E g \in [0 .. m -> X] : Iterates(F, s, m, g)}
  <1>1. 0 \in S
    <2> DEFINE g0 == [k \in 0 .. 0 |-> s]
    <2>1. g0 \in [0 .. 0 -> X]
      OBVIOUS
    <2>2. Iterates(F, s, 0, g0)
      BY DEF Iterates
    <2> QED
      BY <2>1, <2>2
  <1>2. ASSUME NEW m \in Nat, m \in S PROVE m + 1 \in S
    <2>1. PICK g \in [0 .. m -> X] : Iterates(F, s, m, g)
      BY <1>2
    <2> DEFINE h == [k \in 0 .. m + 1 |-> IF k <= m THEN g[k] ELSE F[g[m]]]
    <2>2. h \in [0 .. m + 1 -> X]
      OBVIOUS
    <2>3. h[0] = s
      BY <2>1 DEF Iterates
    <2>4. ASSUME NEW k \in 1 .. m + 1 PROVE h[k] = F[h[k - 1]]
      BY <2>1 DEF Iterates
    <2>5. Iterates(F, s, m + 1, h)
      BY <2>3, <2>4 DEF Iterates
    <2> QED
      BY <2>2, <2>5
  <1>3. Nat \subseteq S
    <2> HIDE DEF S
    <2> QED
      BY <1>1, <1>2, NatInduct
  <1> QED
    BY <1>3

\* A loop that starts in X and whose body stays in X ends in X.
LEMMA LoopInvariant ==
    ASSUME NEW X, NEW n \in Nat, NEW f, f[0] \in X,
           \A k \in 1 .. n : f[k - 1] \in X => f[k] \in X
    PROVE  f[n] \in X
  <1> DEFINE S == {k \in Nat : k <= n => f[k] \in X}
  <1>1. 0 \in S
    OBVIOUS
  <1>2. ASSUME NEW k \in Nat, k \in S PROVE k + 1 \in S
    <2> SUFFICES ASSUME k + 1 <= n PROVE f[k + 1] \in X
      OBVIOUS
    <2>1. f[k] \in X /\ k + 1 \in 1 .. n /\ (k + 1) - 1 = k
      BY <1>2
    <2> QED
      BY <2>1
  <1>3. n \in S
    <2> HIDE DEF S
    <2>1. Nat \subseteq S
      BY <1>1, <1>2, NatInduct
    <2> QED
      BY <2>1
  <1> QED
    BY <1>3

-----------------------------------------------------------------------------
(* The loop of QueueDisc::Run.                                              *)

\* What Restart preserves, Run preserves.
LEMMA RunPreserves ==
    ASSUME NEW X, NEW s \in X, \A t \in X : Restart(t) \in X
    PROVE  Run(s) \in X
  <1> DEFINE Body(g) == [k \in 0 .. Quota |-> IF k = 0 THEN s ELSE Restart(g[k - 1])]
             after   == CHOOSE g : g = Body(g)
             F       == [t \in X |-> Restart(t)]
  <1>1. Quota \in Nat
    BY LinkAssumption
  <1>2. F \in [X -> X]
    OBVIOUS
  <1>3. \E g : g = Body(g)
    <2> HIDE DEF F
    <2>1. PICK g \in [0 .. Quota -> X] : Iterates(F, s, Quota, g)
      BY <1>1, <1>2, IterExists
    <2>2. ASSUME NEW k \in 0 .. Quota PROVE g[k] = Body(g)[k]
      <3>1. CASE k = 0
        BY <2>1, <3>1 DEF Iterates
      <3>2. CASE k # 0
        <4>1. k \in 1 .. Quota /\ k - 1 \in 0 .. Quota
          BY <1>1, <3>2
        <4>2. g[k] = F[g[k - 1]] /\ g[k - 1] \in X
          BY <2>1, <4>1 DEF Iterates
        <4>3. F[g[k - 1]] = Restart(g[k - 1])
          BY <4>2 DEF F
        <4> QED
          BY <3>2, <4>2, <4>3
      <3> QED
        BY <3>1, <3>2
    <2>3. g = Body(g)
      BY <2>2
    <2> QED
      BY <2>3
  <1>4. after = Body(after)
    BY <1>3
  <1>5. Run(s) = after[Quota]
    BY DEF Run
  <1> HIDE DEF after
  <1>6. after[0] = s /\ \A k \in 1 .. Quota : after[k] = Restart(after[k - 1])
    BY <1>1, <1>4
  <1>7. after[Quota] \in X
    <2>1. after[0] \in X
      BY <1>6
    <2>2. \A k \in 1 .. Quota : after[k - 1] \in X => after[k] \in X
      BY <1>6
    <2> QED
      BY <1>1, <2>1, <2>2, LoopInvariant
  <1> QED
    BY <1>5, <1>7

-----------------------------------------------------------------------------
(* Bytes in a queue.                                                        *)

\* f sums up the sizes of the packets of a queue.
SumsUp(q, f) ==
    /\ f \in [0 .. Len(q) -> Nat]
    /\ f[0] = 0
    /\ \A i \in 1 .. Len(q) : f[i] = f[i - 1] + SizeOf(q[i])
    /\ \A i, j \in 0 .. Len(q) : i <= j => f[i] <= f[j]

\* The packets of the queue have b bytes in all.
Weighs(q, b) == \E f : SumsUp(q, f) /\ f[Len(q)] = b

Packet == 1 .. Packets

LEMMA SizePositive == \A p \in Packet : SizeOf(p) \in Nat /\ SizeOf(p) > 0
  BY LinkAssumption DEF Packet

LEMMA WeighsEmpty == Weighs(<<>>, 0)
  <1> DEFINE f == [i \in 0 .. 0 |-> 0]
  <1>1. SumsUp(<<>>, f) /\ f[Len(<<>>)] = 0
    BY DEF SumsUp
  <1> QED
    BY <1>1 DEF Weighs

LEMMA WeighsNat ==
    ASSUME NEW q \in Seq(Packet), NEW b, Weighs(q, b)
    PROVE  b \in Nat
  BY DEF Weighs, SumsUp

LEMMA WeighsAppend ==
    ASSUME NEW q \in Seq(Packet), NEW p \in Packet, NEW b, Weighs(q, b)
    PROVE  Weighs(Append(q, p), b + SizeOf(p))
  <1> DEFINE n == Len(q)
             r == Append(q, p)
  <1>1. PICK f : SumsUp(q, f) /\ f[n] = b
    BY DEF Weighs
  <1>2. n \in Nat /\ b \in Nat /\ SizeOf(p) \in Nat
    BY SizePositive, WeighsNat
  <1>3. /\ Len(r) = n + 1 /\ r[n + 1] = p
        /\ \A i \in 1 .. n : r[i] = q[i]
    OBVIOUS
  <1> DEFINE g == [i \in 0 .. n + 1 |-> IF i <= n THEN f[i] ELSE b + SizeOf(p)]
  <1> HIDE DEF n, r
  <1>4. /\ f \in [0 .. n -> Nat] /\ f[0] = 0
        /\ \A i \in 1 .. n : f[i] = f[i - 1] + SizeOf(q[i])
        /\ \A i, j \in 0 .. n : i <= j => f[i] <= f[j]
    BY <1>1 DEF SumsUp, n
  <1>5. g \in [0 .. n + 1 -> Nat] /\ g[0] = 0 /\ g[n + 1] = b + SizeOf(p)
    BY <1>2, <1>4
  <1>6. ASSUME NEW i \in 1 .. n + 1 PROVE g[i] = g[i - 1] + SizeOf(r[i])
    BY <1>1, <1>2, <1>3, <1>4
  <1>7. ASSUME NEW i \in 0 .. n + 1, NEW j \in 0 .. n + 1, i <= j PROVE g[i] <= g[j]
    <2>1. CASE j <= n
      BY <2>1, <1>2, <1>4, <1>7
    <2>2. CASE j = n + 1 /\ i <= n
      <3>1. i \in 0 .. n /\ n \in 0 .. n
        BY <2>2, <1>2
      <3>2. f[i] <= b /\ f[i] \in Nat
        BY <3>1, <1>1, <1>2, <1>4
      <3> QED
        BY <2>2, <3>1, <3>2, <1>2
    <2>3. CASE j = n + 1 /\ i = n + 1
      BY <2>3, <1>2, <1>5
    <2> QED
      BY <2>1, <2>2, <2>3, <1>2, <1>7
  <1> HIDE DEF g
  <1>8. SumsUp(r, g)
    BY <1>3, <1>5, <1>6, <1>7 DEF SumsUp
  <1> QED
    BY <1>3, <1>5, <1>8 DEF Weighs, r

LEMMA WeighsTail ==
    ASSUME NEW q \in Seq(Packet), q # <<>>, NEW b, Weighs(q, b)
    PROVE  \E c \in Nat : Weighs(Tail(q), c) /\ b = c + SizeOf(Head(q))
  <1> DEFINE n == Len(q) - 1
             r == Tail(q)
             h == SizeOf(Head(q))
  <1>1. PICK f : SumsUp(q, f) /\ f[Len(q)] = b
    BY DEF Weighs
  <1>2. n \in Nat /\ Len(q) = n + 1 /\ Len(r) = n /\ \A i \in 1 .. n : r[i] = q[i + 1]
    OBVIOUS
  <1>3. Head(q) = q[1] /\ Head(q) \in Packet /\ h \in Nat
    BY SizePositive
  <1>4. /\ f \in [0 .. n + 1 -> Nat] /\ f[0] = 0
        /\ \A i \in 1 .. n + 1 : f[i] = f[i - 1] + SizeOf(q[i])
        /\ \A i, j \in 0 .. n + 1 : i <= j => f[i] <= f[j]
        /\ f[n + 1] = b
    BY <1>1, <1>2 DEF SumsUp
  <1>5. f[1] = h
    BY <1>2, <1>3, <1>4
  <1> HIDE DEF n, r, h
  <1> DEFINE g == [i \in 0 .. n |-> f[i + 1] - h]
  <1>6. ASSUME NEW i \in 0 .. n PROVE f[i + 1] - h \in Nat
    <2>1. 1 \in 0 .. n + 1 /\ i + 1 \in 0 .. n + 1 /\ 1 <= i + 1
      BY <1>2
    <2>2. f[1] <= f[i + 1] /\ f[i + 1] \in Nat
      BY <2>1, <1>4
    <2> QED
      BY <2>2, <1>3, <1>5
  <1>7. g \in [0 .. n -> Nat] /\ g[0] = 0
    BY <1>2, <1>3, <1>5, <1>6
  <1>8. ASSUME NEW i \in 1 .. n PROVE g[i] = g[i - 1] + SizeOf(r[i])
    <2>1. /\ i + 1 \in 1 .. n + 1 /\ i \in 0 .. n /\ i - 1 \in 0 .. n
          /\ (i - 1) + 1 = i /\ (i + 1) - 1 = i
      BY <1>2
    <2>2. f[i + 1] = f[i] + SizeOf(r[i])
      BY <2>1, <1>2, <1>4
    <2>3. g[i] = f[i + 1] - h /\ g[i - 1] = f[i] - h
      BY <2>1
    <2>4. f[i] \in Nat /\ f[i + 1] \in Nat
      <3>1. i \in 0 .. n + 1 /\ i + 1 \in 0 .. n + 1
        BY <2>1, <1>2
      <3> QED
        BY <3>1, <1>4
    <2>5. q[i + 1] \in Packet /\ r[i] = q[i + 1]
      BY <2>1, <1>2
    <2>6. SizeOf(r[i]) \in Nat
      BY <2>5, SizePositive
    <2> QED
      BY <2>2, <2>3, <2>4, <2>6, <1>3
  <1>9. ASSUME NEW i \in 0 .. n, NEW j \in 0 .. n, i <= j PROVE g[i] <= g[j]
    <2>1. i + 1 \in 0 .. n + 1 /\ j + 1 \in 0 .. n + 1 /\ i + 1 <= j + 1
      BY <1>2, <1>9
    <2>2. f[i + 1] <= f[j + 1] /\ f[i + 1] \in Nat /\ f[j + 1] \in Nat
      BY <2>1, <1>4
    <2> QED
      BY <2>2, <1>3
  <1>10. g[n] \in Nat /\ b = g[n] + h
    <2>1. n \in 0 .. n /\ f[n + 1] \in Nat
      BY <1>2, <1>4
    <2> QED
      BY <2>1, <1>3, <1>4, <1>7
  <1> HIDE DEF g
  <1>11. SumsUp(r, g)
    BY <1>2, <1>7, <1>8, <1>9 DEF SumsUp
  <1> QED
    BY <1>2, <1>10, <1>11 DEF Weighs, r, h

-----------------------------------------------------------------------------
(* The inductive invariant.                                                 *)

DqlType ==
    [limit : 0 .. MaxLimit, adjLimit : Nat, numQueued : Nat, numCompleted : Nat,
     lastObjCnt : Nat, prevNumQueued : Nat, prevLastObjCnt : Nat,
     prevOvlimit : Nat, lowestSlack : Int]

NodeType ==
    [disc : Seq(Packet), old : BOOLEAN, dev : Seq(Packet), tx : {"READY", "BUSY"},
     stoppedByDevice : BOOLEAN, stoppedByQueueLimits : BOOLEAN,
     queueLimits : BOOLEAN, dql : DqlType,
     dequeued : Seq(Nat), sent : Seq(Packet), dropped : SUBSET Packet]

\* A full device queue has stopped the queue disc.
FullStops(s) == WouldOverflow(s) => s.stoppedByDevice

\* The machine rests only when there is nothing to send, and at most one
\* dequeued packet waits to be reported.
MachineOK(s) ==
    /\ s.tx = "READY" => s.dev = <<>> /\ s.dequeued = <<>>
    /\ Len(s.dequeued) <= 1

\* The bytes dequeued but not yet reported.
Unreported(s) == IF s.dequeued = <<>> THEN 0 ELSE Head(s.dequeued)

\* The bytes queued and not completed are those of the device queue and of
\* the packet that waits to be reported.
BytesOK(s) ==
    /\ s.dql.prevNumQueued \in s.dql.numCompleted .. s.dql.numQueued
    /\ s.queueLimits =>
         \E b \in Nat : /\ Weighs(s.dev, b)
                        /\ s.dql.numQueued = s.dql.numCompleted + b + Unreported(s)

\* Holds at every step of a handler, between two rounds of Run too.
NodeOK(s) ==
    /\ s \in NodeType
    /\ Len(s.disc) <= DiscMax /\ Len(s.dev) <= DevMax
    /\ FullStops(s)
    /\ MachineOK(s)
    /\ BytesOK(s)

\* Holds between the events.
IInv ==
    /\ NodeOK(node)
    /\ node.sent = <<>> /\ node.dropped = {}
    /\ wire \in Seq(Packet)
    /\ handed \in 0 .. Packets
    /\ delivered \in Seq(Packet)
    /\ lost \subseteq Packet

-----------------------------------------------------------------------------
(* The byte queue limits.                                                   *)

LEMMA MaxOfTwo ==
    ASSUME NEW a \in Int, NEW b \in Int
    PROVE  Max({a, b}) = IF a >= b THEN a ELSE b
  <1>1. \E x \in {a, b} : \A y \in {a, b} : x >= y
    OBVIOUS
  <1>2. Max({a, b}) \in {a, b} /\ \A y \in {a, b} : Max({a, b}) >= y
    BY <1>1 DEF Max
  <1> QED
    BY <1>2

LEMMA MinOfTwo ==
    ASSUME NEW a \in Int, NEW b \in Int
    PROVE  Min({a, b}) = IF a <= b THEN a ELSE b
  <1>1. \E x \in {a, b} : \A y \in {a, b} : x <= y
    OBVIOUS
  <1>2. Min({a, b}) \in {a, b} /\ \A y \in {a, b} : Min({a, b}) <= y
    BY <1>1 DEF Min
  <1> QED
    BY <1>2

LEMMA PosdiffNat ==
    ASSUME NEW a \in Int, NEW b \in Int
    PROVE  Posdiff(a, b) \in Nat
  <1>1. a - b \in Int /\ 0 \in Int
    OBVIOUS
  <1>2. Max({a - b, 0}) = IF a - b >= 0 THEN a - b ELSE 0
    BY <1>1, MaxOfTwo
  <1> QED
    BY <1>2 DEF Posdiff

LEMMA QueuedBooks ==
    ASSUME NEW q \in DqlType, NEW count \in Nat
    PROVE  /\ Queued(q, count) \in DqlType
           /\ Queued(q, count).numCompleted = q.numCompleted
           /\ Queued(q, count).prevNumQueued = q.prevNumQueued
           /\ Queued(q, count).numQueued = q.numQueued + count
  <1>1. q.numQueued + count \in Nat
    BY DEF DqlType
  <1>2. Queued(q, count) = [q EXCEPT !.lastObjCnt = count, !.numQueued = q.numQueued + count]
    BY DEF Queued
  <1> QED
    BY <1>1, <1>2 DEF DqlType

\* Completed books the bytes and keeps the limit within its bounds.
LEMMA CompletedBooks ==
    ASSUME NEW q \in DqlType, NEW count \in Nat, NEW held \in BOOLEAN
    PROVE  /\ Completed(q, count, held) \in DqlType
           /\ Completed(q, count, held).numCompleted = q.numCompleted + count
           /\ Completed(q, count, held).prevNumQueued = q.numQueued
           /\ Completed(q, count, held).numQueued = q.numQueued
  <1> DEFINE completed  == q.numCompleted + count
             ovlimit    == Posdiff(q.numQueued - q.numCompleted, q.limit)
             inprogress == q.numQueued - completed
             prevInprogress == q.prevNumQueued - q.numCompleted
             allPrev    == completed >= q.prevNumQueued
             starved    == \/ ovlimit > 0 /\ inprogress = 0
                           \/ q.prevOvlimit > 0 /\ allPrev
             lastObjs   == IF q.prevOvlimit > 0
                           THEN Posdiff(q.prevLastObjCnt, q.prevOvlimit) ELSE 0
             slack      == Max({Posdiff(q.limit + q.prevOvlimit, 2 * count), lastObjs})
             lowest     == IF q.lowestSlack = NoSlack THEN slack
                           ELSE Min({slack, q.lowestSlack})
             decreases  == ~ starved /\ inprogress > 0 /\ prevInprogress > 0 /\ ~ allPrev
             wanted     == CASE starved -> q.limit + Posdiff(completed, q.prevNumQueued)
                                              + q.prevOvlimit
                             [] decreases /\ held -> Posdiff(q.limit, lowest)
                             [] OTHER -> q.limit
             limit      == Min({Max({wanted, MinLimit}), MaxLimit})
             prevOv     == IF limit # q.limit THEN 0 ELSE ovlimit
             low        == CASE starved \/ (decreases /\ held) -> NoSlack
                             [] decreases /\ ~ held -> lowest
                             [] OTHER -> q.lowestSlack
  <1>1. /\ q.limit \in 0 .. MaxLimit /\ q.limit \in Nat /\ q.adjLimit \in Nat
        /\ q.numQueued \in Nat /\ q.numCompleted \in Nat /\ q.lastObjCnt \in Nat
        /\ q.prevNumQueued \in Nat /\ q.prevLastObjCnt \in Nat
        /\ q.prevOvlimit \in Nat /\ q.lowestSlack \in Int
    BY LinkAssumption DEF DqlType
  <1>2. Completed(q, count, held) =
          [q EXCEPT !.limit = limit, !.adjLimit = limit + completed,
                    !.prevOvlimit = prevOv, !.prevLastObjCnt = q.lastObjCnt,
                    !.numCompleted = completed, !.prevNumQueued = q.numQueued,
                    !.lowestSlack = low]
    BY DEF Completed
  <1>3. completed \in Nat /\ ovlimit \in Nat
    <2>1. q.numQueued - q.numCompleted \in Int /\ q.limit \in Int
      BY <1>1
    <2>2. ovlimit \in Nat
      BY <2>1, PosdiffNat, Zenon
    <2> QED
      BY <2>2, <1>1
  <1>4. slack \in Nat
    <2>1. lastObjs \in Nat
      <3>1. q.prevLastObjCnt \in Int /\ q.prevOvlimit \in Int
        BY <1>1
      <3>2. Posdiff(q.prevLastObjCnt, q.prevOvlimit) \in Nat
        BY <3>1, PosdiffNat, Zenon
      <3> QED
        BY <3>2
    <2>2. Posdiff(q.limit + q.prevOvlimit, 2 * count) \in Nat
      <3>1. q.limit + q.prevOvlimit \in Int /\ 2 * count \in Int
        BY <1>1
      <3> QED
        BY <3>1, PosdiffNat, Zenon
    <2> HIDE DEF lastObjs
    <2> QED
      BY <2>1, <2>2, MaxOfTwo
  <1> HIDE DEF slack, ovlimit
  <1>5. lowest \in Int
    BY <1>1, <1>4, MinOfTwo
  <1> HIDE DEF lowest, starved, decreases
  <1>6. wanted \in Nat
    <2>1. completed \in Int /\ q.prevNumQueued \in Int /\ q.limit \in Int
      BY <1>1, <1>3
    <2>2. Posdiff(completed, q.prevNumQueued) \in Nat /\ Posdiff(q.limit, lowest) \in Nat
      BY <2>1, <1>5, PosdiffNat, Zenon
    <2> QED
      BY <2>2, <1>1
  <1>7. low \in Int
    BY <1>1, <1>5 DEF NoSlack
  <1> HIDE DEF wanted, low, completed
  <1>8. limit \in 0 .. MaxLimit
    <2>1. MinLimit \in Nat /\ MaxLimit \in Nat
      BY LinkAssumption
    <2>2. Max({wanted, MinLimit}) \in Nat
      BY <1>6, <2>1, MaxOfTwo
    <2> QED
      BY <2>1, <2>2, MinOfTwo
  <1>9. prevOv \in Nat
    BY <1>3
  <1> HIDE DEF limit, prevOv
  <1>10. limit + completed \in Nat
    BY <1>3, <1>8, LinkAssumption
  <1>11. Completed(q, count, held) \in DqlType
    BY <1>1, <1>2, <1>3, <1>7, <1>8, <1>9, <1>10 DEF DqlType
  <1> QED
    BY <1>2, <1>11 DEF DqlType, completed

-----------------------------------------------------------------------------
(* The device.                                                              *)

LEMMA ConcatAppend ==
    ASSUME NEW S, NEW s \in Seq(S), NEW u \in Seq(S), NEW e \in S
    PROVE  s \o Append(u, e) = Append(s \o u, e)
  <1> DEFINE l == s \o Append(u, e)
             r == Append(s \o u, e)
             n == Len(s) + Len(u)
  <1>1. /\ l \in Seq(S) /\ r \in Seq(S) /\ Len(l) = n + 1 /\ Len(r) = n + 1
        /\ Len(s) \in Nat /\ Len(u) \in Nat
    OBVIOUS
  <1>2. ASSUME NEW i \in 1 .. n + 1 PROVE l[i] = r[i]
    <2>1. CASE i <= Len(s)
      BY <2>1, <1>1
    <2>2. CASE i > Len(s) /\ i <= n
      BY <2>2, <1>1
    <2>3. CASE i = n + 1
      BY <2>3, <1>1
    <2> QED
      BY <2>1, <2>2, <2>3, <1>1
  <1> HIDE DEF l, r, n
  <1>3. l = r
    BY <1>1, <1>2, SeqEqual
  <1> QED
    BY <1>3 DEF l, r

LEMMA ConcatHead ==
    ASSUME NEW S, NEW s \in Seq(S), NEW d \in Seq(S), d # <<>>
    PROVE  Append(s, Head(d)) \o Tail(d) = s \o d
  <1> DEFINE l == Append(s, Head(d)) \o Tail(d)
             r == s \o d
             n == Len(s) + Len(d)
  <1>1. /\ l \in Seq(S) /\ r \in Seq(S) /\ Len(l) = n /\ Len(r) = n
        /\ Len(s) \in Nat /\ Len(d) \in Nat
    OBVIOUS
  <1>2. ASSUME NEW i \in 1 .. n PROVE l[i] = r[i]
    <2>1. CASE i <= Len(s)
      BY <2>1, <1>1
    <2>2. CASE i = Len(s) + 1
      BY <2>2, <1>1
    <2>3. CASE i > Len(s) + 1
      BY <2>3, <1>1
    <2> QED
      BY <2>1, <2>2, <2>3, <1>1
  <1> HIDE DEF l, r, n
  <1>3. l = r
    BY <1>1, <1>2, SeqEqual
  <1> QED
    BY <1>3 DEF l, r

\* The packets of a node, in the order in which they are on their way.
Stream(s) == (s.sent \o s.dev) \o s.disc

\* The trace callback of the device queue changes flags and counters only.
LEMMA PacketEnqueuedFacts ==
    ASSUME NEW s \in NodeType, NEW p \in Packet
    PROVE  LET t == PacketEnqueued(s, p)
           IN  /\ t \in NodeType
               /\ t.disc = s.disc /\ t.dev = s.dev /\ t.tx = s.tx
               /\ t.dequeued = s.dequeued /\ t.sent = s.sent /\ t.dropped = s.dropped
               /\ t.queueLimits = s.queueLimits
               /\ t.stoppedByDevice <=> s.stoppedByDevice \/ WouldOverflow(s)
               /\ t.dql.numCompleted = s.dql.numCompleted
               /\ t.dql.prevNumQueued = s.dql.prevNumQueued
               /\ t.dql.numQueued >= s.dql.numQueued
               /\ s.queueLimits => t.dql.numQueued = s.dql.numQueued + SizeOf(p)
  <1> DEFINE dql  == Queued(s.dql, SizeOf(p))
             byLimits == s.stoppedByQueueLimits \/ Available(dql) < 0
             told == NotifyQueuedBytes(s, SizeOf(p))
             byDevice == told.stoppedByDevice \/ WouldOverflow(s)
  <1>1. SizeOf(p) \in Nat /\ s.dql \in DqlType /\ s.dql.numQueued \in Nat
    BY SizePositive DEF NodeType, DqlType
  <1>2. /\ dql \in DqlType
        /\ dql.numCompleted = s.dql.numCompleted
        /\ dql.prevNumQueued = s.dql.prevNumQueued
        /\ dql.numQueued = s.dql.numQueued + SizeOf(p)
    BY <1>1, QueuedBooks
  <1> HIDE DEF dql
  <1>3. byLimits \in BOOLEAN /\ byDevice \in BOOLEAN
    OBVIOUS
  <1>4. told = IF ~ s.queueLimits THEN s
               ELSE [s EXCEPT !.dql = dql, !.stoppedByQueueLimits = byLimits]
    BY DEF NotifyQueuedBytes, dql
  <1> HIDE DEF byLimits
  <1>5. /\ told \in NodeType
        /\ told.disc = s.disc /\ told.dev = s.dev /\ told.tx = s.tx
        /\ told.dequeued = s.dequeued /\ told.sent = s.sent /\ told.dropped = s.dropped
        /\ told.queueLimits = s.queueLimits /\ told.stoppedByDevice = s.stoppedByDevice
        /\ told.dql = IF s.queueLimits THEN dql ELSE s.dql
    BY <1>2, <1>3, <1>4 DEF NodeType
  <1>6. PacketEnqueued(s, p) = [told EXCEPT !.stoppedByDevice = byDevice]
    BY DEF PacketEnqueued
  <1> HIDE DEF told, byDevice
  <1>7. /\ PacketEnqueued(s, p) \in NodeType
        /\ PacketEnqueued(s, p).stoppedByDevice = byDevice
        /\ PacketEnqueued(s, p).disc = s.disc /\ PacketEnqueued(s, p).dev = s.dev
        /\ PacketEnqueued(s, p).tx = s.tx /\ PacketEnqueued(s, p).dequeued = s.dequeued
        /\ PacketEnqueued(s, p).sent = s.sent /\ PacketEnqueued(s, p).dropped = s.dropped
        /\ PacketEnqueued(s, p).queueLimits = s.queueLimits
        /\ PacketEnqueued(s, p).dql = told.dql
    BY <1>3, <1>5, <1>6 DEF NodeType
  <1>8. byDevice <=> s.stoppedByDevice \/ WouldOverflow(s)
    BY <1>5 DEF byDevice
  <1> QED
    BY <1>1, <1>2, <1>5, <1>7, <1>8

\* Taking the head of the device queue does not change the stream.
LEMMA TransmitStartFacts ==
    ASSUME NEW s \in NodeType, s.dev # <<>>
    PROVE  LET t == TransmitStart(s)
           IN  /\ t \in NodeType
               /\ t.disc = s.disc /\ t.dev = Tail(s.dev) /\ t.tx = "BUSY"
               /\ t.dequeued = Append(s.dequeued, SizeOf(Head(s.dev)))
               /\ t.dropped = s.dropped /\ t.queueLimits = s.queueLimits
               /\ t.stoppedByDevice = s.stoppedByDevice /\ t.dql = s.dql
               /\ t.sent \o t.dev = s.sent \o s.dev
  <1> DEFINE h == Head(s.dev)
             r == Tail(s.dev)
  <1>1. s.dev \in Seq(Packet) /\ s.sent \in Seq(Packet) /\ s.dequeued \in Seq(Nat)
    BY DEF NodeType
  <1>2. /\ h \in Packet /\ SizeOf(h) \in Nat /\ r \in Seq(Packet)
        /\ Append(s.dequeued, SizeOf(h)) \in Seq(Nat)
        /\ Append(s.sent, h) \in Seq(Packet)
    BY <1>1, SizePositive
  <1>3. TransmitStart(s) =
          [s EXCEPT !.tx = "BUSY", !.dev = r, !.dequeued = Append(s.dequeued, SizeOf(h)),
                    !.sent = Append(s.sent, h)]
    BY DEF TransmitStart, NodeType
  <1>4. Append(s.sent, h) \o r = s.sent \o s.dev
    BY <1>1, ConcatHead
  <1> HIDE DEF h, r
  <1> QED
    BY <1>2, <1>3, <1>4 DEF NodeType, h, r

\* A device that may be sent to takes the packet and puts it after the others.
LEMMA DeviceSendOK ==
    ASSUME NEW s, NodeOK(s), NEW p \in Packet, ~ IsStopped(s)
    PROVE  LET t == DeviceSend(s, p)
           IN  /\ NodeOK(t)
               /\ t.disc = s.disc /\ t.dropped = s.dropped
               /\ t.sent \o t.dev = Append(s.sent \o s.dev, p)
  <1> DEFINE a == [s EXCEPT !.dev = Append(s.dev, p)]
             q == PacketEnqueued(a, p)
             t == DeviceSend(s, p)
  <1>1. /\ s \in NodeType /\ s.dev \in Seq(Packet) /\ s.sent \in Seq(Packet)
        /\ s.disc \in Seq(Packet)
        /\ s.dequeued \in Seq(Nat) /\ s.tx \in {"READY", "BUSY"}
        /\ s.queueLimits \in BOOLEAN /\ SizeOf(p) \in Nat
        /\ s.dql.numQueued \in Nat /\ s.dql.numCompleted \in Nat
        /\ s.dql.prevNumQueued \in Nat
    BY SizePositive DEF NodeOK, NodeType, DqlType
  <1>2. ~ WouldOverflow(s) /\ Len(s.dev) + 1 <= DevMax
    BY <1>1, LinkAssumption DEF NodeOK, FullStops, IsStopped, WouldOverflow
  <1>3. /\ a \in NodeType /\ a.dev = Append(s.dev, p) /\ a.disc = s.disc /\ a.tx = s.tx
        /\ a.sent = s.sent /\ a.dropped = s.dropped /\ a.dequeued = s.dequeued
        /\ a.queueLimits = s.queueLimits /\ a.dql = s.dql
    <2>1. Append(s.dev, p) \in Seq(Packet)
      BY <1>1
    <2> QED
      BY <1>1, <2>1 DEF NodeType
  <1>4. t = IF s.tx = "READY" THEN TransmitStart(q) ELSE q
    <2>1. t = CASE WouldOverflow(s) -> [s EXCEPT !.dropped = s.dropped \cup {p}, !.stoppedByDevice = TRUE]
                [] ~ WouldOverflow(s) /\ s.tx = "READY" -> TransmitStart(q)
                [] OTHER -> q
      BY DEF DeviceSend
    <2> HIDE DEF a, q, t
    <2> QED
      BY <1>2, <2>1
  <1> HIDE DEF a
  <1>5. /\ q \in NodeType
        /\ q.disc = s.disc /\ q.dev = Append(s.dev, p) /\ q.tx = s.tx
        /\ q.dequeued = s.dequeued /\ q.sent = s.sent /\ q.dropped = s.dropped
        /\ q.queueLimits = s.queueLimits
        /\ WouldOverflow(a) => q.stoppedByDevice
        /\ q.dql.numCompleted = s.dql.numCompleted
        /\ q.dql.prevNumQueued = s.dql.prevNumQueued
        /\ q.dql.numQueued >= s.dql.numQueued
        /\ s.queueLimits => q.dql.numQueued = s.dql.numQueued + SizeOf(p)
    BY <1>3, PacketEnqueuedFacts
  <1>6. FullStops(q) /\ Len(q.dev) = Len(s.dev) + 1 /\ q.dql.numQueued \in Nat
    BY <1>1, <1>3, <1>5 DEF FullStops, WouldOverflow, NodeType, DqlType
  <1>7. s.sent \o Append(s.dev, p) = Append(s.sent \o s.dev, p)
    <2>1. ASSUME NEW x \in Seq(Packet), NEW y \in Seq(Packet)
          PROVE  x \o Append(y, p) = Append(x \o y, p)
      BY ConcatAppend
    <2> QED
      BY <1>1, <2>1
  <1>8. q.dql.prevNumQueued \in q.dql.numCompleted .. q.dql.numQueued
    BY <1>1, <1>5, <1>6 DEF NodeOK, BytesOK
  <1>9. ASSUME s.queueLimits
        PROVE  \E b \in Nat : /\ Weighs(s.dev, b) /\ Weighs(Append(s.dev, p), b + SizeOf(p))
                              /\ q.dql.numQueued = q.dql.numCompleted + b + SizeOf(p) + Unreported(s)
    <2>1. PICK b \in Nat : /\ Weighs(s.dev, b)
                           /\ s.dql.numQueued = s.dql.numCompleted + b + Unreported(s)
      BY <1>9 DEF NodeOK, BytesOK
    <2>2. Weighs(Append(s.dev, p), b + SizeOf(p))
      BY <1>1, <2>1, WeighsAppend
    <2>3. Unreported(s) \in Nat
      BY <1>1 DEF Unreported
    <2> QED
      BY <1>1, <1>5, <1>9, <2>1, <2>2, <2>3
  <1> HIDE DEF q, t
  <1>10. CASE s.tx # "READY"
    <2>1. t = q
      BY <1>4, <1>10
    <2>2. MachineOK(q)
      BY <1>5, <1>10 DEF MachineOK, NodeOK
    <2>3. BytesOK(q)
      <3>1. Unreported(q) = Unreported(s)
        BY <1>5 DEF Unreported
      <3>2. Unreported(s) \in Nat
        BY <1>1 DEF Unreported
      <3>3. ASSUME q.queueLimits
            PROVE  \E b \in Nat : /\ Weighs(q.dev, b)
                                  /\ q.dql.numQueued = q.dql.numCompleted + b + Unreported(q)
        <4>1. PICK b \in Nat : /\ Weighs(Append(s.dev, p), b + SizeOf(p))
                               /\ q.dql.numQueued = q.dql.numCompleted + b + SizeOf(p) + Unreported(s)
          BY <1>5, <1>9, <3>3
        <4>2. b + SizeOf(p) \in Nat
          BY <1>1
        <4>3. q.dql.numQueued = q.dql.numCompleted + (b + SizeOf(p)) + Unreported(q)
          BY <1>1, <1>5, <3>1, <3>2, <4>1
        <4> QED
          BY <1>5, <4>1, <4>2, <4>3
      <3> QED
        BY <1>8, <3>3 DEF BytesOK
    <2>4. NodeOK(q)
      BY <1>1, <1>2, <1>5, <1>6, <2>2, <2>3 DEF NodeOK
    <2> QED
      BY <1>5, <1>7, <2>1, <2>4 DEF t
  <1>11. CASE s.tx = "READY"
    <2>1. t = TransmitStart(q) /\ s.dev = <<>> /\ s.dequeued = <<>>
      BY <1>4, <1>11 DEF NodeOK, MachineOK
    <2>2. q.dev = <<p>> /\ q.dev # <<>> /\ Head(q.dev) = p /\ Tail(q.dev) = <<>>
      BY <1>5, <2>1
    <2>3. /\ t \in NodeType
          /\ t.disc = q.disc /\ t.dev = <<>> /\ t.tx = "BUSY"
          /\ t.dequeued = <<SizeOf(p)>>
          /\ t.dropped = q.dropped /\ t.queueLimits = q.queueLimits
          /\ t.stoppedByDevice = q.stoppedByDevice /\ t.dql = q.dql
          /\ t.sent \o t.dev = q.sent \o q.dev
      <3>1. /\ t \in NodeType
            /\ t.disc = q.disc /\ t.dev = Tail(q.dev) /\ t.tx = "BUSY"
            /\ t.dequeued = Append(q.dequeued, SizeOf(Head(q.dev)))
            /\ t.dropped = q.dropped /\ t.queueLimits = q.queueLimits
            /\ t.stoppedByDevice = q.stoppedByDevice /\ t.dql = q.dql
            /\ t.sent \o t.dev = q.sent \o q.dev
        BY <1>5, <2>1, <2>2, TransmitStartFacts
      <3>2. Append(q.dequeued, SizeOf(Head(q.dev))) = <<SizeOf(p)>>
        BY <1>5, <2>1, <2>2
      <3> QED
        BY <2>2, <3>1, <3>2
    <2>4. FullStops(t) /\ Len(t.dev) <= DevMax
      BY <2>3, LinkAssumption DEF FullStops, WouldOverflow
    <2>5. MachineOK(t)
      BY <2>3 DEF MachineOK
    <2>6. BytesOK(t)
      <3>1. Unreported(t) = SizeOf(p) /\ Unreported(s) = 0
        BY <2>1, <2>3 DEF Unreported
      <3>2. ASSUME t.queueLimits
            PROVE  \E b \in Nat : /\ Weighs(t.dev, b)
                                  /\ t.dql.numQueued = t.dql.numCompleted + b + Unreported(t)
        <4>1. PICK b \in Nat : /\ Weighs(Append(s.dev, p), b + SizeOf(p))
                               /\ q.dql.numQueued = q.dql.numCompleted + b + SizeOf(p) + Unreported(s)
          BY <1>5, <1>9, <2>3, <3>2
        <4>2. PICK c \in Nat : Weighs(<<>>, c) /\ b + SizeOf(p) = c + SizeOf(p)
          <5>1. Weighs(q.dev, b + SizeOf(p)) /\ q.dev \in Seq(Packet)
            BY <1>5, <4>1 DEF NodeType
          <5>2. \E c \in Nat : Weighs(Tail(q.dev), c) /\ b + SizeOf(p) = c + SizeOf(Head(q.dev))
            BY <2>2, <5>1, WeighsTail
          <5> QED
            BY <2>2, <5>2
        <4>3. q.dql.numQueued = q.dql.numCompleted + c + SizeOf(p)
          BY <1>1, <1>5, <3>1, <4>1, <4>2
        <4> QED
          BY <2>3, <3>1, <4>2, <4>3
      <3> QED
        BY <1>8, <2>3, <3>2 DEF BytesOK
    <2>7. NodeOK(t)
      BY <1>5, <2>3, <2>4, <2>5, <2>6 DEF NodeOK
    <2> QED
      BY <1>5, <1>7, <2>3, <2>7 DEF t
  <1> QED
    BY <1>10, <1>11

-----------------------------------------------------------------------------
(* The queue disc.                                                          *)

\* t is s with packets moved along, none lost and none out of order.
MovedOn(s, t) == NodeOK(t) /\ t.dropped = s.dropped /\ Stream(t) = Stream(s)

LEMMA RestartMovesOn ==
    ASSUME NEW s, NodeOK(s)
    PROVE  MovedOn(s, Restart(s))
  <1>1. CASE ~ CanRestart(s)
    BY <1>1 DEF Restart, MovedOn
  <1>2. CASE CanRestart(s)
    <2> DEFINE h == Head(s.disc)
               a == [s EXCEPT !.disc = Tail(s.disc)]
               t == DeviceSend(a, h)
    <2>1. Restart(s) = t
      BY <1>2 DEF Restart, Transmit
    <2>2. /\ s \in NodeType /\ s.disc \in Seq(Packet) /\ s.disc # <<>> /\ ~ IsStopped(s)
          /\ s.sent \in Seq(Packet) /\ s.dev \in Seq(Packet)
      BY <1>2 DEF NodeOK, NodeType, CanRestart
    <2>3. h \in Packet /\ Tail(s.disc) \in Seq(Packet) /\ Len(Tail(s.disc)) <= Len(s.disc)
      BY <2>2
    <2>4. /\ a \in NodeType /\ a.disc = Tail(s.disc) /\ a.dev = s.dev /\ a.tx = s.tx
          /\ a.sent = s.sent /\ a.dropped = s.dropped /\ a.dequeued = s.dequeued
          /\ a.queueLimits = s.queueLimits /\ a.dql = s.dql
          /\ a.stoppedByDevice = s.stoppedByDevice
          /\ a.stoppedByQueueLimits = s.stoppedByQueueLimits
      BY <2>2, <2>3 DEF NodeType
    <2> HIDE DEF a, h
    <2>5. NodeOK(a)
      <3>1. Len(a.disc) <= DiscMax
        BY <2>2, <2>3, <2>4, LinkAssumption DEF NodeOK
      <3>2. Unreported(a) = Unreported(s)
        BY <2>4 DEF Unreported
      <3>3. BytesOK(a)
        BY <2>4, <3>2 DEF NodeOK, BytesOK
      <3>4. FullStops(a) /\ MachineOK(a)
        BY <2>4 DEF NodeOK, FullStops, WouldOverflow, MachineOK
      <3> QED
        BY <2>4, <3>1, <3>3, <3>4 DEF NodeOK
    <2>6. ~ IsStopped(a)
      BY <2>2, <2>4 DEF IsStopped
    <2>7. /\ NodeOK(t) /\ t.disc = a.disc /\ t.dropped = a.dropped
          /\ t.sent \o t.dev = Append(a.sent \o a.dev, h)
      BY <2>3, <2>5, <2>6, DeviceSendOK
    <2>8. Append(s.sent \o s.dev, h) \o Tail(s.disc) = (s.sent \o s.dev) \o s.disc
      <3>1. s.sent \o s.dev \in Seq(Packet)
        BY <2>2
      <3> HIDE DEF t
      <3> QED
        BY <2>2, <3>1, ConcatHead DEF h
    <2> HIDE DEF t
    <2> QED
      BY <2>1, <2>4, <2>7, <2>8 DEF MovedOn, Stream
  <1> QED
    BY <1>1, <1>2

LEMMA RunMovesOn ==
    ASSUME NEW s, NodeOK(s)
    PROVE  MovedOn(s, Run(s))
  <1> DEFINE X == {t \in NodeType : MovedOn(s, t)}
  <1>1. s \in X
    BY DEF MovedOn, NodeOK
  <1>2. ASSUME NEW t \in X PROVE Restart(t) \in X
    <2>1. NodeOK(t) /\ MovedOn(t, Restart(t))
      BY RestartMovesOn DEF MovedOn
    <2>2. MovedOn(s, Restart(t)) /\ Restart(t) \in NodeType
      BY <2>1 DEF MovedOn, NodeOK
    <2> QED
      BY <2>2
  <1>3. Run(s) \in X
    <2> HIDE DEF X
    <2> QED
      BY <1>1, <1>2, RunPreserves
  <1> QED
    BY <1>3

\* Enqueue takes the packet in at the end or drops it, and drops one that is
\* ECN capable only if there is no room.
LEMMA EnqueueFacts ==
    ASSUME NEW s, NodeOK(s), NEW p \in Packet, NEW early \in BOOLEAN
    PROVE  LET t == Enqueue(s, p, early)
           IN  /\ NodeOK(t) /\ t.sent = s.sent /\ t.dev = s.dev
               /\ \/ /\ t.disc = s.disc /\ t.dropped = s.dropped \cup {p}
                     /\ p \notin Ect \/ Len(s.disc) = DiscMax
                  \/ t.disc = Append(s.disc, p) /\ t.dropped = s.dropped
  <1> DEFINE full == Len(s.disc) + 1 > DiscMax
             out  == RedVerdict(s, p, early) = "drop" \/ full
             old  == RedOld(s)
             t    == Enqueue(s, p, early)
             lose == [s EXCEPT !.old = old, !.dropped = s.dropped \cup {p}]
             keep == [s EXCEPT !.old = old, !.disc = Append(s.disc, p)]
  <1>1. /\ s \in NodeType /\ s.disc \in Seq(Packet) /\ s.dropped \subseteq Packet
        /\ Len(s.disc) \in Nat /\ DiscMax \in Nat /\ Len(s.disc) <= DiscMax
    BY LinkAssumption DEF NodeOK, NodeType
  <1>2. old \in BOOLEAN
    BY DEF RedOld
  <1>3. t = IF out THEN lose ELSE keep
    BY DEF Enqueue
  <1>4. s.dropped \cup {p} \subseteq Packet /\ Append(s.disc, p) \in Seq(Packet)
    BY <1>1
  <1> HIDE DEF old, t
  <1>5. /\ lose \in NodeType /\ lose.disc = s.disc /\ lose.dropped = s.dropped \cup {p}
        /\ lose.dev = s.dev /\ lose.sent = s.sent /\ lose.tx = s.tx
        /\ lose.dequeued = s.dequeued /\ lose.stoppedByDevice = s.stoppedByDevice
        /\ lose.dql = s.dql /\ lose.queueLimits = s.queueLimits
    BY <1>1, <1>2, <1>4 DEF NodeType
  <1>6. /\ keep \in NodeType /\ keep.disc = Append(s.disc, p) /\ keep.dropped = s.dropped
        /\ keep.dev = s.dev /\ keep.sent = s.sent /\ keep.tx = s.tx
        /\ keep.dequeued = s.dequeued /\ keep.stoppedByDevice = s.stoppedByDevice
        /\ keep.dql = s.dql /\ keep.queueLimits = s.queueLimits
    BY <1>1, <1>2, <1>4 DEF NodeType
  <1> HIDE DEF lose, keep
  <1>7. CASE out
    <2>1. t = lose
      BY <1>3, <1>7
    <2>2. NodeOK(t)
      <3>1. Unreported(t) = Unreported(s)
        BY <2>1, <1>5 DEF Unreported
      <3>2. BytesOK(t) /\ FullStops(t) /\ MachineOK(t)
        BY <2>1, <1>5, <3>1 DEF NodeOK, BytesOK, FullStops, WouldOverflow, MachineOK
      <3> QED
        BY <2>1, <1>5, <3>2 DEF NodeOK
    <2>3. p \notin Ect \/ Len(s.disc) = DiscMax
      BY <1>1, <1>7 DEF RedVerdict
    <2> QED
      BY <2>1, <2>2, <2>3, <1>5 DEF t
  <1>8. CASE ~ out
    <2>1. t = keep
      BY <1>3, <1>8
    <2>2. NodeOK(t)
      <3>1. Unreported(t) = Unreported(s)
        BY <2>1, <1>6 DEF Unreported
      <3>2. BytesOK(t) /\ FullStops(t) /\ MachineOK(t)
        BY <2>1, <1>6, <3>1 DEF NodeOK, BytesOK, FullStops, WouldOverflow, MachineOK
      <3>3. Len(t.disc) <= DiscMax
        BY <2>1, <1>1, <1>6, <1>8
      <3> QED
        BY <2>1, <1>6, <3>2, <3>3 DEF NodeOK
    <2> QED
      BY <2>1, <2>2, <1>6 DEF t
  <1> QED
    BY <1>7, <1>8

-----------------------------------------------------------------------------
(* Waking the queue disc.                                                   *)

\* The flags that stop the queue and the dequeued packets aside, t is s; the
\* counters are dql.
Reported(s, t, dql) ==
    /\ t \in NodeType
    /\ t.disc = s.disc /\ t.dev = s.dev /\ t.tx = s.tx /\ t.sent = s.sent
    /\ t.dropped = s.dropped /\ t.queueLimits = s.queueLimits
    /\ t.stoppedByDevice = s.stoppedByDevice
    /\ t.dequeued = <<>> /\ t.dql = dql

\* Reporting the one packet that waits keeps the books.
LEMMA ReportedOK ==
    ASSUME NEW s, NodeOK(s), s.dequeued # <<>>, NEW t, NEW dql, Reported(s, t, dql),
           dql.prevNumQueued \in dql.numCompleted .. dql.numQueued,
           s.queueLimits => /\ dql.numCompleted = s.dql.numCompleted + Head(s.dequeued)
                            /\ dql.numQueued = s.dql.numQueued
    PROVE  MovedOn(s, t)
  <1>1. MachineOK(t) /\ FullStops(t)
    BY DEF NodeOK, MachineOK, FullStops, WouldOverflow, Reported
  <1>2. ASSUME t.queueLimits
        PROVE  \E b \in Nat : /\ Weighs(t.dev, b)
                              /\ t.dql.numQueued = t.dql.numCompleted + b + Unreported(t)
    <2>1. s.queueLimits /\ Unreported(t) = 0 /\ Unreported(s) = Head(s.dequeued)
      BY <1>2 DEF Reported, Unreported
    <2>2. PICK b \in Nat : /\ Weighs(s.dev, b)
                           /\ s.dql.numQueued = s.dql.numCompleted + b + Unreported(s)
      BY <2>1 DEF NodeOK, BytesOK
    <2>3. Head(s.dequeued) \in Nat /\ s.dql.numCompleted \in Nat
      BY DEF NodeOK, NodeType, DqlType
    <2>4. t.dql.numQueued = t.dql.numCompleted + b + Unreported(t)
      BY <2>1, <2>2, <2>3 DEF Reported
    <2> QED
      BY <2>2, <2>4 DEF Reported
  <1>3. BytesOK(t)
    BY <1>2 DEF BytesOK, Reported
  <1> QED
    BY <1>1, <1>3 DEF MovedOn, NodeOK, Reported, Stream

LEMMA MovedOnTwice ==
    ASSUME NEW s, NEW t, NEW u, MovedOn(s, t), MovedOn(t, u)
    PROVE  MovedOn(s, u)
  BY DEF MovedOn

LEMMA NotifyMovesOn ==
    ASSUME NEW s, NodeOK(s), s.dequeued # <<>>, NEW held \in BOOLEAN
    PROVE  MovedOn(s, NotifyTransmittedBytes([s EXCEPT !.dequeued = Tail(s.dequeued)],
                                             Head(s.dequeued), held))
  <1> DEFINE bytes == Head(s.dequeued)
             a     == [s EXCEPT !.dequeued = Tail(s.dequeued)]
             dql   == Completed(a.dql, bytes, held)
             told  == [a EXCEPT !.dql = dql]
             freed == [told EXCEPT !.stoppedByQueueLimits = FALSE]
             res   == NotifyTransmittedBytes(a, bytes, held)
  <1>1. /\ s \in NodeType /\ s.dequeued \in Seq(Nat) /\ Len(s.dequeued) = 1
        /\ s.dql \in DqlType /\ s.queueLimits \in BOOLEAN
    <2>1. /\ s \in NodeType /\ s.dequeued \in Seq(Nat)
          /\ s.dql \in DqlType /\ s.queueLimits \in BOOLEAN
      BY DEF NodeOK, NodeType
    <2>2. Len(s.dequeued) <= 1
      BY DEF NodeOK, MachineOK
    <2>3. Len(s.dequeued) \in Nat /\ Len(s.dequeued) # 0
      <3>1. \A q \in Seq(Nat) : q # <<>> => Len(q) \in Nat /\ Len(q) # 0
        OBVIOUS
      <3> QED
        BY <2>1, <3>1
    <2>4. Len(s.dequeued) = 1
      <3>1. \A n \in Nat : n <= 1 /\ n # 0 => n = 1
        OBVIOUS
      <3> QED
        BY <2>2, <2>3, <3>1, Zenon
    <2> QED
      BY <2>1, <2>4, Zenon
  <1>2. bytes \in Nat /\ Tail(s.dequeued) = <<>>
    <2>1. bytes \in Nat /\ Tail(s.dequeued) \in Seq(Nat) /\ Len(Tail(s.dequeued)) = 0
      BY <1>1
    <2> QED
      BY <2>1, EmptySeq
  <1>3. Reported(s, a, s.dql) /\ a.stoppedByQueueLimits = s.stoppedByQueueLimits
    <2>1. <<>> \in Seq(Nat)
      OBVIOUS
    <2>2. a = [s EXCEPT !.dequeued = <<>>]
      BY <1>2
    <2> HIDE DEF a
    <2> QED
      BY <1>1, <2>1, <2>2 DEF Reported, NodeType
  <1>4. res = CASE ~ a.queueLimits -> a
                [] a.queueLimits /\ Available(dql) < 0 -> told
                [] OTHER -> IF a.stoppedByQueueLimits THEN Run(freed) ELSE freed
    BY DEF NotifyTransmittedBytes
  <1>5. /\ dql \in DqlType /\ dql.numCompleted = s.dql.numCompleted + bytes
        /\ dql.prevNumQueued = s.dql.numQueued /\ dql.numQueued = s.dql.numQueued
    BY <1>1, <1>2, <1>3, CompletedBooks DEF Reported
  <1> HIDE DEF a, dql, res
  <1>6. Reported(s, told, dql) /\ Reported(s, freed, dql)
    BY <1>3, <1>5 DEF Reported, NodeType
  <1> HIDE DEF told, freed
  <1>7. CASE ~ s.queueLimits
    <2>1. res = a
      BY <1>3, <1>4, <1>7 DEF Reported
    <2>2. s.dql.prevNumQueued \in s.dql.numCompleted .. s.dql.numQueued
      BY DEF NodeOK, BytesOK
    <2>3. MovedOn(s, a)
      BY <1>3, <1>7, <2>2, ReportedOK
    <2> QED
      BY <2>1, <2>3 DEF res, a
  <1>8. CASE s.queueLimits
    <2>1. dql.prevNumQueued \in dql.numCompleted .. dql.numQueued
      <3>1. PICK b \in Nat : /\ Weighs(s.dev, b)
                             /\ s.dql.numQueued = s.dql.numCompleted + b + Unreported(s)
        BY <1>8 DEF NodeOK, BytesOK
      <3>2. Unreported(s) = bytes /\ s.dql.numQueued \in Nat /\ s.dql.numCompleted \in Nat
        BY <1>1 DEF Unreported, DqlType
      <3> QED
        BY <1>2, <1>5, <3>1, <3>2
    <2>2. MovedOn(s, told) /\ MovedOn(s, freed)
      BY <1>5, <1>6, <2>1, ReportedOK
    <2>3. MovedOn(freed, Run(freed))
      BY <2>2, RunMovesOn DEF MovedOn
    <2>4. MovedOn(s, Run(freed))
      BY <2>2, <2>3, MovedOnTwice
    <2>5. res \in {told, freed, Run(freed)}
      BY <1>3, <1>4, <1>8 DEF Reported
    <2> QED
      BY <2>2, <2>4, <2>5 DEF res, a
  <1> QED
    BY <1>1, <1>7, <1>8

LEMMA WakeMovesOn ==
    ASSUME NEW s, NodeOK(s), ~ WouldOverflow(s)
    PROVE  MovedOn(s, Wake(s))
  <1> DEFINE a == [s EXCEPT !.stoppedByDevice = FALSE]
  <1>1. s \in NodeType
    BY DEF NodeOK
  <1>2. /\ a \in NodeType /\ a.disc = s.disc /\ a.dev = s.dev /\ a.tx = s.tx
        /\ a.sent = s.sent /\ a.dropped = s.dropped /\ a.dequeued = s.dequeued
        /\ a.queueLimits = s.queueLimits /\ a.dql = s.dql
    BY <1>1 DEF NodeType
  <1>3. Wake(s) = IF s.stoppedByDevice THEN Run(a) ELSE a
    BY DEF Wake
  <1> HIDE DEF a
  <1>4. MovedOn(s, a)
    <2>1. Unreported(a) = Unreported(s)
      BY <1>2 DEF Unreported
    <2>2. BytesOK(a) /\ MachineOK(a) /\ FullStops(a)
      BY <1>2, <2>1 DEF NodeOK, BytesOK, MachineOK, FullStops, WouldOverflow
    <2> QED
      BY <1>2, <2>2 DEF NodeOK, MovedOn, Stream
  <1>5. MovedOn(s, Run(a))
    <2>1. MovedOn(a, Run(a))
      BY <1>4, RunMovesOn DEF MovedOn
    <2> QED
      BY <1>4, <2>1, MovedOnTwice
  <1> QED
    BY <1>3, <1>4, <1>5

\* The transmit machine is done with a packet.
LEMMA TransmitCompleteMovesOn ==
    ASSUME NEW s, NodeOK(s), s.dequeued = <<>>
    PROVE  MovedOn(s, IF s.dev = <<>> THEN [s EXCEPT !.tx = "READY"] ELSE TransmitStart(s))
  <1>1. s \in NodeType /\ s.dev \in Seq(Packet) /\ s.sent \in Seq(Packet)
    BY DEF NodeOK, NodeType
  <1>2. CASE s.dev = <<>>
    <2> DEFINE a == [s EXCEPT !.tx = "READY"]
    <2>1. /\ a \in NodeType /\ a.disc = s.disc /\ a.dev = s.dev /\ a.tx = "READY"
          /\ a.sent = s.sent /\ a.dropped = s.dropped /\ a.dequeued = s.dequeued
          /\ a.queueLimits = s.queueLimits /\ a.dql = s.dql
          /\ a.stoppedByDevice = s.stoppedByDevice
      BY <1>1 DEF NodeType
    <2> HIDE DEF a
    <2>2. Unreported(a) = Unreported(s)
      BY <2>1 DEF Unreported
    <2>3. BytesOK(a) /\ MachineOK(a) /\ FullStops(a)
      BY <1>2, <2>1, <2>2 DEF NodeOK, BytesOK, MachineOK, FullStops, WouldOverflow
    <2>4. MovedOn(s, a)
      BY <2>1, <2>3 DEF NodeOK, MovedOn, Stream
    <2> QED
      BY <1>2, <2>4 DEF a
  <1>3. CASE s.dev # <<>>
    <2> DEFINE t == TransmitStart(s)
               h == SizeOf(Head(s.dev))
    <2>1. /\ t \in NodeType
          /\ t.disc = s.disc /\ t.dev = Tail(s.dev) /\ t.tx = "BUSY"
          /\ t.dequeued = Append(s.dequeued, h)
          /\ t.dropped = s.dropped /\ t.queueLimits = s.queueLimits
          /\ t.stoppedByDevice = s.stoppedByDevice /\ t.dql = s.dql
          /\ t.sent \o t.dev = s.sent \o s.dev
      BY <1>1, <1>3, TransmitStartFacts
    <2>2. t.dequeued = <<h>> /\ h \in Nat /\ Len(s.dev) \in Nat /\ Len(t.dev) = Len(s.dev) - 1
      BY <1>1, <1>3, <2>1, SizePositive
    <2> HIDE DEF t, h
    <2>3. MachineOK(t) /\ FullStops(t) /\ Len(t.dev) <= DevMax
      BY <2>1, <2>2, LinkAssumption DEF MachineOK, FullStops, WouldOverflow, NodeOK
    <2>4. ASSUME s.queueLimits
          PROVE  \E b \in Nat : /\ Weighs(t.dev, b)
                                /\ t.dql.numQueued = t.dql.numCompleted + b + Unreported(t)
      <3>1. PICK b \in Nat : /\ Weighs(s.dev, b)
                             /\ s.dql.numQueued = s.dql.numCompleted + b + Unreported(s)
        BY <2>4 DEF NodeOK, BytesOK
      <3>2. PICK c \in Nat : Weighs(Tail(s.dev), c) /\ b = c + h
        BY <1>1, <1>3, <3>1, WeighsTail DEF h
      <3>3. Unreported(s) = 0 /\ Unreported(t) = h /\ s.dql.numCompleted \in Nat
        BY <2>2, <1>1 DEF Unreported, NodeType, DqlType
      <3>4. t.dql.numQueued = t.dql.numCompleted + c + Unreported(t)
        BY <2>1, <2>2, <3>1, <3>2, <3>3
      <3> QED
        BY <2>1, <3>2, <3>4
    <2>5. BytesOK(t)
      BY <2>1, <2>4 DEF NodeOK, BytesOK
    <2>6. MovedOn(s, t)
      BY <2>1, <2>3, <2>5 DEF NodeOK, MovedOn, Stream
    <2> QED
      BY <1>3, <2>6 DEF t
  <1> QED
    BY <1>2, <1>3

-----------------------------------------------------------------------------
(* The events.                                                              *)

\* Everything under way on the link, as the refinement mapping of Fifo has it.
Inside == wire \o node.dev \o node.disc

\* What a handler sent goes to the end of the wire: nothing is out of order.
LEMMA BecomesKeeps ==
    ASSUME NEW r, NodeOK(r), Becomes(r), wire \in Seq(Packet), lost \subseteq Packet
    PROVE  /\ NodeOK(node') /\ node'.sent = <<>> /\ node'.dropped = {}
           /\ wire' \in Seq(Packet) /\ lost' = lost \cup r.dropped /\ lost' \subseteq Packet
           /\ Inside' = wire \o Stream(r)
  <1> DEFINE a == [r EXCEPT !.sent = <<>>, !.dropped = {}]
  <1>1. node' = a /\ wire' = wire \o r.sent /\ lost' = lost \cup r.dropped
    BY DEF Becomes
  <1>2. /\ r \in NodeType /\ r.sent \in Seq(Packet) /\ r.dev \in Seq(Packet)
        /\ r.disc \in Seq(Packet) /\ r.dropped \subseteq Packet
    BY DEF NodeOK, NodeType
  <1>3. /\ a \in NodeType /\ a.disc = r.disc /\ a.dev = r.dev /\ a.tx = r.tx
        /\ a.sent = <<>> /\ a.dropped = {} /\ a.dequeued = r.dequeued
        /\ a.queueLimits = r.queueLimits /\ a.dql = r.dql
        /\ a.stoppedByDevice = r.stoppedByDevice
    <2>1. <<>> \in Seq(Packet)
      OBVIOUS
    <2> QED
      BY <1>2, <2>1 DEF NodeType
  <1> HIDE DEF a
  <1>4. NodeOK(a)
    <2>1. Unreported(a) = Unreported(r)
      BY <1>3 DEF Unreported
    <2>2. BytesOK(a) /\ MachineOK(a) /\ FullStops(a)
      BY <1>3, <2>1 DEF NodeOK, BytesOK, MachineOK, FullStops, WouldOverflow
    <2> QED
      BY <1>3, <2>2 DEF NodeOK
  <1>5. Inside' = ((wire \o r.sent) \o r.dev) \o r.disc
    BY <1>1, <1>3 DEF Inside
  <1>6. ((wire \o r.sent) \o r.dev) \o r.disc = wire \o Stream(r)
    <2>1. \A x, y, z \in Seq(Packet) : x \o y \in Seq(Packet) /\ (x \o y) \o z = x \o (y \o z)
      BY ConcatAssociative, ConcatProperties
    <2>2. (wire \o r.sent) \o r.dev = wire \o (r.sent \o r.dev) /\ r.sent \o r.dev \in Seq(Packet)
      BY <1>2, <2>1
    <2>3. (wire \o (r.sent \o r.dev)) \o r.disc = wire \o ((r.sent \o r.dev) \o r.disc)
      BY <1>2, <2>1, <2>2
    <2> QED
      BY <2>2, <2>3 DEF Stream
  <1>7. wire' \in Seq(Packet) /\ lost' \subseteq Packet
    BY <1>1, <1>2, ConcatProperties
  <1> QED
    BY <1>1, <1>3, <1>4, <1>5, <1>6, <1>7

\* Between the events nothing waits in `sent`.
LEMMA StreamAtRest ==
    ASSUME IInv
    PROVE  /\ wire \o Stream(node) = Inside
           /\ node.dev \in Seq(Packet) /\ node.disc \in Seq(Packet)
           /\ wire \o node.dev \in Seq(Packet) /\ Inside \in Seq(Packet)
  <1>1. /\ node.dev \in Seq(Packet) /\ node.disc \in Seq(Packet) /\ wire \in Seq(Packet)
        /\ node.sent = <<>>
    BY DEF IInv, NodeOK, NodeType
  <1>2. \A x, y, z \in Seq(Packet) : x \o y \in Seq(Packet) /\ (x \o y) \o z = x \o (y \o z)
    BY ConcatAssociative, ConcatProperties
  <1>3. <<>> \o node.dev = node.dev
    BY <1>1, ConcatEmptySeq
  <1>4. wire \o (node.dev \o node.disc) = Inside
    BY <1>1, <1>2 DEF Inside
  <1>5. wire \o node.dev \in Seq(Packet) /\ Inside \in Seq(Packet)
    BY <1>1, <1>2 DEF Inside
  <1> QED
    BY <1>1, <1>3, <1>4, <1>5 DEF Stream

\* TrafficControlLayer::Send hands a packet to the FIFO, or drops it.
LEMMA SendStep ==
    ASSUME IInv, Send
    PROVE  /\ IInv'
           /\ Inside' \in {Inside, Append(Inside, handed + 1)}
           /\ \A p \in Ect \cap (lost' \ lost) : Len(node.disc) = DiscMax
  <1> DEFINE p == handed + 1
  <1>1. /\ p \in Packet /\ handed' = handed + 1 /\ delivered' = delivered
        /\ handed' \in 0 .. Packets /\ NodeOK(node) /\ node.dropped = {}
        /\ wire \in Seq(Packet) /\ lost \subseteq Packet /\ delivered \in Seq(Packet)
    BY LinkAssumption DEF Send, IInv, Packet
  <1>2. PICK early \in BOOLEAN : Becomes(Run(Enqueue(node, p, early)))
    BY DEF Send, DropEarly
  <1> HIDE DEF p
  <1> DEFINE e == Enqueue(node, p, early)
             r == Run(e)
  <1>3. /\ NodeOK(e) /\ e.sent = node.sent /\ e.dev = node.dev
        /\ \/ /\ e.disc = node.disc /\ e.dropped = node.dropped \cup {p}
              /\ p \notin Ect \/ Len(node.disc) = DiscMax
           \/ e.disc = Append(node.disc, p) /\ e.dropped = node.dropped
    BY <1>1, EnqueueFacts
  <1> HIDE DEF e
  <1>4. NodeOK(r) /\ r.dropped = e.dropped /\ Stream(r) = Stream(e)
    BY <1>3, RunMovesOn DEF MovedOn
  <1>5. Becomes(r)
    BY <1>2 DEF e
  <1> HIDE DEF r
  <1>6. /\ NodeOK(node') /\ node'.sent = <<>> /\ node'.dropped = {}
        /\ wire' \in Seq(Packet) /\ lost' = lost \cup r.dropped /\ lost' \subseteq Packet
        /\ Inside' = wire \o Stream(r)
    BY <1>1, <1>4, <1>5, BecomesKeeps
  <1>7. IInv'
    BY <1>1, <1>6 DEF IInv
  <1>8. Stream(e) \in {Stream(node), Append(Stream(node), p)}
    <2>1. CASE e.disc = node.disc
      BY <1>3, <2>1 DEF Stream
    <2>2. CASE e.disc = Append(node.disc, p)
      <3> DEFINE x == node.sent \o node.dev
      <3>1. x \in Seq(Packet) /\ node.disc \in Seq(Packet)
        BY ConcatProperties DEF IInv, NodeOK, NodeType
      <3>2. Stream(e) = x \o Append(node.disc, p) /\ Stream(node) = x \o node.disc
        BY <1>3, <2>2 DEF Stream
      <3> HIDE DEF x
      <3>3. \A y, z \in Seq(Packet) : y \o Append(z, p) = Append(y \o z, p)
        BY <1>1, ConcatAppend
      <3> QED
        BY <3>1, <3>2, <3>3
    <2> QED
      BY <1>3, <2>1, <2>2
  <1>9. wire \o Stream(e) \in {Inside, Append(Inside, p)}
    <2>1. wire \o Stream(node) = Inside
      BY StreamAtRest
    <2>2. Stream(node) \in Seq(Packet)
      BY ConcatProperties DEF Stream, IInv, NodeOK, NodeType
    <2>3. \A y, z \in Seq(Packet) : y \o Append(z, p) = Append(y \o z, p)
      BY <1>1, ConcatAppend
    <2>4. wire \o Append(Stream(node), p) = Append(Inside, p)
      BY <1>1, <2>1, <2>2, <2>3
    <2> QED
      BY <1>8, <2>1, <2>4
  <1>10. \A q \in Ect \cap (lost' \ lost) : Len(node.disc) = DiscMax
    BY <1>1, <1>3, <1>4, <1>6
  <1> QED
    BY <1>4, <1>6, <1>7, <1>9, <1>10 DEF p

\* An event of the device moves packets on, and loses none.
LEMMA DeviceStep ==
    ASSUME IInv, NEW r, MovedOn(node, r), Becomes(r), UNCHANGED <<handed, delivered>>
    PROVE  IInv' /\ Inside' = Inside /\ lost' = lost
  <1>1. /\ NodeOK(r) /\ r.dropped = {} /\ Stream(r) = Stream(node)
        /\ wire \in Seq(Packet) /\ lost \subseteq Packet
    BY DEF MovedOn, IInv
  <1>2. /\ NodeOK(node') /\ node'.sent = <<>> /\ node'.dropped = {}
        /\ wire' \in Seq(Packet) /\ lost' = lost \cup r.dropped /\ lost' \subseteq Packet
        /\ Inside' = wire \o Stream(r)
    BY <1>1, BecomesKeeps
  <1> QED
    BY <1>1, <1>2, StreamAtRest DEF IInv

LEMMA TransmitCompleteStep ==
    ASSUME IInv, TransmitComplete
    PROVE  IInv' /\ Inside' = Inside /\ lost' = lost /\ UNCHANGED <<handed, delivered>>
  <1> DEFINE r == IF node.dev = <<>> THEN [node EXCEPT !.tx = "READY"] ELSE TransmitStart(node)
  <1>1. MovedOn(node, r)
    BY TransmitCompleteMovesOn DEF IInv, TransmitComplete
  <1>2. Becomes(r) /\ UNCHANGED <<handed, delivered>>
    BY DEF TransmitComplete
  <1> HIDE DEF r
  <1> QED
    BY <1>1, <1>2, DeviceStep

LEMMA PacketDequeuedStep ==
    ASSUME IInv, PacketDequeued
    PROVE  IInv' /\ Inside' = Inside /\ lost' = lost /\ UNCHANGED <<handed, delivered>>
  <1>1. PICK held \in BOOLEAN :
          LET told == NotifyTransmittedBytes([node EXCEPT !.dequeued = Tail(node.dequeued)],
                                             Head(node.dequeued), held)
          IN  Becomes(IF WouldOverflow(told) THEN told ELSE Wake(told))
    BY DEF PacketDequeued
  <1> DEFINE told == NotifyTransmittedBytes([node EXCEPT !.dequeued = Tail(node.dequeued)],
                                            Head(node.dequeued), held)
             r    == IF WouldOverflow(told) THEN told ELSE Wake(told)
  <1>2. MovedOn(node, told)
    BY NotifyMovesOn DEF IInv, PacketDequeued
  <1>3. Becomes(r)
    BY <1>1
  <1> HIDE DEF told
  <1>4. MovedOn(node, r)
    <2>1. ~ WouldOverflow(told) => MovedOn(told, Wake(told))
      BY <1>2, WakeMovesOn DEF MovedOn
    <2> QED
      BY <1>2, <2>1, MovedOnTwice
  <1> HIDE DEF r
  <1> QED
    BY <1>3, <1>4, DeviceStep DEF PacketDequeued

\* A packet comes out of the wire.
LEMMA ReceiveStep ==
    ASSUME IInv, Receive
    PROVE  /\ IInv'
           /\ Inside # <<>> /\ Inside' = Tail(Inside) /\ handed' = handed
           /\ delivered' \in {delivered, Append(delivered, Head(Inside))}
  <1>1. /\ wire \in Seq(Packet) /\ wire # <<>> /\ wire' = Tail(wire)
        /\ Head(wire) \in Packet /\ Tail(wire) \in Seq(Packet)
        /\ node' = node /\ handed' = handed
        /\ delivered \in Seq(Packet) /\ lost \subseteq Packet
    BY DEF Receive, IInv
  <1>2. \/ delivered' = Append(delivered, Head(wire)) /\ lost' = lost
        \/ delivered' = delivered /\ lost' = lost \cup {Head(wire)}
    BY DEF Receive
  <1>3. IInv'
    <2>1. Append(delivered, Head(wire)) \in Seq(Packet)
      BY <1>1
    <2> QED
      BY <1>1, <1>2, <2>1 DEF IInv
  <1>4. ASSUME NEW x \in Seq(Packet), NEW y \in Seq(Packet), x # <<>>
        PROVE  x \o y # <<>> /\ Head(x \o y) = Head(x) /\ Tail(x \o y) = Tail(x) \o y
    <2>1. x \o y # <<>> /\ Head(x \o y) = Head(x)
      BY <1>4
    <2>2. /\ Tail(x \o y) \in Seq(Packet) /\ Tail(x) \o y \in Seq(Packet)
          /\ Len(Tail(x \o y)) = Len(x) + Len(y) - 1
          /\ Len(Tail(x) \o y) = Len(x) + Len(y) - 1
          /\ Len(x) \in Nat \ {0} /\ Len(y) \in Nat
      BY <1>4
    <2>3. ASSUME NEW i \in 1 .. Len(x) + Len(y) - 1
          PROVE  Tail(x \o y)[i] = (Tail(x) \o y)[i]
      BY <1>4, <2>2
    <2> QED
      BY <2>1, <2>2, <2>3, SeqEqual
  <1>5. /\ wire \o node.dev # <<>> /\ Head(wire \o node.dev) = Head(wire)
        /\ Tail(wire \o node.dev) = Tail(wire) \o node.dev
    BY <1>1, <1>4, StreamAtRest
  <1>6. /\ Inside # <<>> /\ Head(Inside) = Head(wire)
        /\ Tail(Inside) = Tail(wire \o node.dev) \o node.disc
    BY <1>4, <1>5, StreamAtRest DEF Inside
  <1>7. Inside' = Tail(Inside)
    BY <1>1, <1>5, <1>6 DEF Inside
  <1> QED
    BY <1>1, <1>2, <1>3, <1>6, <1>7

LEMMA InitIInv == Init => IInv
  <1> SUFFICES ASSUME Init PROVE IInv
    OBVIOUS
  <1>1. PICK l \in BOOLEAN :
         node = [disc |-> <<>>, old |-> FALSE, dev |-> <<>>, tx |-> "READY",
                 stoppedByDevice |-> FALSE, stoppedByQueueLimits |-> FALSE,
                 queueLimits |-> l, dql |-> EmptyLimits,
                 dequeued |-> <<>>, sent |-> <<>>, dropped |-> {}]
    BY LinkAssumption DEF Init
  <1>2. EmptyLimits \in DqlType
    BY LinkAssumption DEF EmptyLimits, DqlType, NoSlack
  <1>3. node \in NodeType
    BY <1>1, <1>2 DEF NodeType
  <1>4. Unreported(node) = 0 /\ Weighs(node.dev, 0)
    BY <1>1, WeighsEmpty DEF Unreported
  <1>5. BytesOK(node)
    BY <1>1, <1>4 DEF BytesOK, EmptyLimits
  <1>6. /\ FullStops(node) /\ MachineOK(node)
        /\ Len(node.disc) <= DiscMax /\ Len(node.dev) <= DevMax
    BY <1>1, LinkAssumption DEF FullStops, WouldOverflow, MachineOK
  <1>7. NodeOK(node)
    BY <1>3, <1>5, <1>6 DEF NodeOK
  <1> QED
    BY <1>1, <1>7, LinkAssumption DEF Init, IInv

LEMMA NextIInv == IInv /\ [Next]_vars => IInv'
  <1> SUFFICES ASSUME IInv, [Next]_vars PROVE IInv'
    OBVIOUS
  <1>1. CASE UNCHANGED vars
    BY <1>1 DEF vars, IInv
  <1> QED
    BY <1>1, SendStep, TransmitCompleteStep, PacketDequeuedStep, ReceiveStep DEF Next

LEMMA InvariantHolds == Spec => []IInv
  BY InitIInv, NextIInv, PTL DEF Spec

-----------------------------------------------------------------------------
(* The theorems.                                                            *)

\* The queues stay within their sizes, and DynamicQueueLimits never completes
\* more bytes than were queued.
THEOREM LinkTypeCorrect == Spec => []LinkTypeOK
  <1>1. IInv => LinkTypeOK
    <2> SUFFICES ASSUME IInv PROVE LinkTypeOK
      OBVIOUS
    <2>1. node \in NodeType /\ node.dql \in DqlType
      BY DEF IInv, NodeOK, NodeType
    <2>2. /\ node.tx \in {"READY", "BUSY"} /\ node.dql.limit \in 0 .. MaxLimit
          /\ node.dql.numCompleted \in Nat /\ node.dql.numQueued \in Nat
          /\ node.dql.prevNumQueued \in Nat
      BY <2>1 DEF NodeType, DqlType
    <2>3. node.dql.prevNumQueued \in node.dql.numCompleted .. node.dql.numQueued
      BY DEF IInv, NodeOK, BytesOK
    <2> QED
      BY <2>2, <2>3 DEF IInv, NodeOK, LinkTypeOK
  <1> QED
    BY <1>1, InvariantHolds, PTL

\* The device queue has room for every packet the queue disc may pass down.
THEOREM RoomInDevice == Spec => []DeviceNeverDrops
  <1>1. IInv => DeviceNeverDrops
    BY DEF IInv, NodeOK, FullStops, DeviceNeverDrops, IsStopped
  <1> QED
    BY <1>1, InvariantHolds, PTL

\* An ECN capable packet is lost only when the queue disc is full, or on the
\* wire.
THEOREM EctKept == Spec => EctLostOnlyWhenFull
  <1>1. ASSUME IInv, [Next]_vars
        PROVE  [\A p \in Ect \cap (lost' \ lost) :
                  Len(node.disc) = DiscMax \/ (wire # <<>> /\ p = Head(wire))]_vars
    <2>1. CASE Send
      BY <1>1, <2>1, SendStep
    <2>2. CASE TransmitComplete
      BY <1>1, <2>2, TransmitCompleteStep
    <2>3. CASE PacketDequeued
      BY <1>1, <2>3, PacketDequeuedStep
    <2>4. CASE Receive
      BY <2>4 DEF Receive
    <2> QED
      BY <1>1, <2>1, <2>2, <2>3, <2>4 DEF Next
  <1> QED
    BY <1>1, InvariantHolds, PTL DEF Spec, EctLostOnlyWhenFull

\* The layers below IP are a lossy FIFO: whatever the order of runs, wake-ups
\* and transmissions, packets are neither reordered nor duplicated, and are
\* lost only at the two ends.
THEOREM LinkIsLossyFifo == Spec => ImplementsLossyFifo
  <1>1. Init => Fifo!FifoInit
    <2> SUFFICES ASSUME Init PROVE Fifo!FifoInit
      OBVIOUS
    <2>1. wire \o node.dev \o node.disc = <<>>
      BY DEF Init
    <2> QED
      BY <2>1 DEF Init, Fifo!FifoInit
  <1>2. IInv /\ [Next]_vars => [Fifo!FifoNext]_(Fifo!fifoVars)
    <2> SUFFICES ASSUME IInv, [Next]_vars PROVE [Fifo!FifoNext]_(Fifo!fifoVars)
      OBVIOUS
    <2>1. CASE Send
      <3>1. Fifo!Hand
        BY <2>1, SendStep DEF Send, Fifo!Hand, Inside
      <3> QED
        BY <3>1 DEF Fifo!FifoNext
    <2>2. CASE TransmitComplete
      BY <2>2, TransmitCompleteStep DEF Fifo!fifoVars, Inside
    <2>3. CASE PacketDequeued
      BY <2>3, PacketDequeuedStep DEF Fifo!fifoVars, Inside
    <2>4. CASE Receive
      <3>1. Fifo!ComeOut
        BY <2>4, ReceiveStep DEF Fifo!ComeOut, Inside
      <3> QED
        BY <3>1 DEF Fifo!FifoNext
    <2>5. CASE UNCHANGED vars
      BY <2>5 DEF vars, Fifo!fifoVars
    <2> QED
      BY <2>1, <2>2, <2>3, <2>4, <2>5 DEF Next
  <1> QED
    BY <1>1, <1>2, InvariantHolds, PTL DEF Spec, ImplementsLossyFifo, Fifo!FifoSpec
=============================================================================
