-------------------------- MODULE DelayTag_proofs ---------------------------
(***************************************************************************)
(* Proofs about DelayTag: what the socket reads out of the tags, for any   *)
(* number of packets over paths of any length and any contents of the      *)
(* uninitialised memory.                                                   *)
(***************************************************************************)
EXTENDS DelayTag, TLAPS

-----------------------------------------------------------------------------
(* The largest element of a set.                                            *)

\* Whoever is in the set and above its elements is the maximum.
LEMMA MaxIs ==
    ASSUME NEW S \in SUBSET Int, NEW m \in S, \A y \in S : y <= m
    PROVE  Max(S) = m
  <1>1. \E x \in S : \A y \in S : x >= y
    OBVIOUS
  <1>2. Max(S) \in S /\ \A y \in S : Max(S) >= y
    BY <1>1 DEF Max
  <1>3. Max(S) \in Int /\ Max(S) <= m /\ m <= Max(S)
    BY <1>2, m \in Int
  <1> QED
    BY <1>3

LEMMA MaxOfTwo ==
    ASSUME NEW a \in Nat, NEW b \in Nat
    PROVE  Max({a, b}) = IF a >= b THEN a ELSE b
  <1>1. CASE a >= b
    BY <1>1, MaxIs
  <1>2. CASE ~ (a >= b)
    BY <1>2, MaxIs
  <1> QED
    BY <1>1, <1>2

-----------------------------------------------------------------------------
(* The inductive invariant.                                                 *)

TagType == [lastHop : Nat, maxDelay : Nat, hops : Nat, present : BOOLEAN]

PacketType == [state : States, path : 1 .. MaxPath, tag : TagType, times : Seq(Nat)]

\* The shape of the state.
TagTypeOK ==
    /\ now \in Nat
    /\ pkts \in [Packets -> PacketType]
    /\ maxDelay \in Nat /\ hops \in Nat /\ base \in Nat
    /\ delivered \subseteq Packets
    /\ newest \in Packets \cup {None}

\* m is the largest of the delays between the nodes that got a packet, 0 if
\* there is none.
LargestDelay(m, p) ==
    /\ m \in {0} \cup Delays(p)
    /\ \A d \in Delays(p) : d <= m

\* What the tag of a packet says is what happened to the packet.
TagSaysTimes(p) ==
    LET times == pkts[p].times
        tag   == pkts[p].tag
    IN  /\ \A i \in 1 .. Len(times) : times[i] <= now
        /\ tag.present <=> times # <<>>
        /\ times # <<>> => tag.lastHop = times[Len(times)]
        /\ LargestDelay(tag.maxDelay, p)

\* The packets the socket got have ended their journey.
DeliveredAreDone == \A p \in delivered : pkts[p].state = "delivered"

\* The delays m_maxDelay is to cover.
Covered == {base, 0} \cup UNION {Delays(p) : p \in delivered}

MaxOfCovered ==
    /\ Covered \subseteq Nat
    /\ maxDelay \in Covered
    /\ \A d \in Covered : d <= maxDelay

IInv ==
    /\ TagTypeOK
    /\ \A p \in Packets : TagSaysTimes(p) /\ Delays(p) \subseteq Nat
    /\ DeliveredAreDone
    /\ MaxOfCovered

-----------------------------------------------------------------------------
(* The delays of a packet.                                                  *)

\* The differences between the neighbours in a sequence of times.
Gaps(s) == {s[i + 1] - s[i] : i \in 1 .. Len(s) - 1}

LEMMA GapsOfAppend ==
    ASSUME NEW s \in Seq(Nat), NEW t \in Nat
    PROVE  Gaps(Append(s, t)) =
             Gaps(s) \cup (IF s = <<>> THEN {} ELSE {t - s[Len(s)]})
  <1> DEFINE u == Append(s, t)
  <1>1. /\ u \in Seq(Nat) /\ Len(u) = Len(s) + 1 /\ Len(s) \in Nat
        /\ \A i \in 1 .. Len(s) : u[i] = s[i]
        /\ u[Len(s) + 1] = t
        /\ s = <<>> <=> Len(s) = 0
    OBVIOUS
  <1> HIDE DEF u
  <1>2. ASSUME NEW d \in Gaps(u)
        PROVE  d \in Gaps(s) \cup (IF s = <<>> THEN {} ELSE {t - s[Len(s)]})
    <2>1. PICK i \in 1 .. Len(s) : d = u[i + 1] - u[i]
      BY <1>1, <1>2 DEF Gaps
    <2>2. CASE i = Len(s)
      BY <2>1, <2>2, <1>1
    <2>3. CASE i # Len(s)
      <3>1. i \in 1 .. Len(s) - 1 /\ i + 1 \in 1 .. Len(s)
        BY <2>3, <1>1
      <3>2. d = s[i + 1] - s[i]
        BY <2>1, <3>1, <1>1
      <3> QED
        BY <3>1, <3>2 DEF Gaps
    <2> QED
      BY <2>2, <2>3
  <1>3. ASSUME NEW d \in Gaps(s)
        PROVE  d \in Gaps(u)
    <2>1. PICK i \in 1 .. Len(s) - 1 : d = s[i + 1] - s[i]
      BY <1>3 DEF Gaps
    <2>2. i \in 1 .. Len(s) /\ i + 1 \in 1 .. Len(s) /\ i \in 1 .. Len(u) - 1
      BY <2>1, <1>1
    <2>3. d = u[i + 1] - u[i]
      BY <2>1, <2>2, <1>1
    <2> QED
      BY <2>2, <2>3 DEF Gaps
  <1>4. ASSUME s # <<>>
        PROVE  t - s[Len(s)] \in Gaps(u)
    <2>1. Len(s) \in 1 .. Len(s) /\ Len(s) \in 1 .. Len(u) - 1
      BY <1>4, <1>1
    <2>2. t - s[Len(s)] = u[Len(s) + 1] - u[Len(s)]
      BY <2>1, <1>1
    <2> QED
      BY <2>1, <2>2 DEF Gaps
  <1> QED
    BY <1>2, <1>3, <1>4 DEF u

LEMMA DelaysAreGaps ==
    ASSUME NEW p
    PROVE  Delays(p) = Gaps(pkts[p].times) /\ Delays(p)' = Gaps(pkts[p].times)'
  BY DEF Delays, Gaps

-----------------------------------------------------------------------------
(* The steps.                                                               *)

\* A step that leaves the times and the tag of a packet alone, and does not
\* turn the clock back, leaves its delays and what its tag says alone.
LEMMA PacketKept ==
    ASSUME NEW p, TagTypeOK, now' \in Nat, now' >= now,
           pkts[p].times \in Seq(Nat),
           pkts'[p].times = pkts[p].times, pkts'[p].tag = pkts[p].tag,
           TagSaysTimes(p)
    PROVE  Delays(p)' = Delays(p) /\ TagSaysTimes(p)'
  <1>1. Delays(p)' = Delays(p)
    BY DEF Delays
  <1>2. \A i \in 1 .. Len(pkts[p].times) : pkts[p].times[i] <= now'
    BY DEF TagTypeOK, TagSaysTimes
  <1> QED
    BY <1>1, <1>2 DEF TagSaysTimes, LargestDelay

\* Ipv4L3Protocol::Receive: the tag it leaves in the packet says what happened.
LEMMA ReceiveKeepsTag ==
    ASSUME TagTypeOK, NEW p \in Packets, TagSaysTimes(p), Delays(p) \subseteq Nat,
           now' = now,
           pkts'[p].times = Append(pkts[p].times, now),
           pkts'[p].tag = TagOnReceive(pkts[p].tag)
    PROVE  /\ TagOnReceive(pkts[p].tag) \in TagType
           /\ TagSaysTimes(p)'
           /\ Delays(p)' \subseteq Nat
  <1> DEFINE times == pkts[p].times
             tag   == pkts[p].tag
             after == Append(times, now)
             new   == TagOnReceive(tag)
  <1>1. /\ times \in Seq(Nat) /\ tag \in TagType /\ now \in Nat
        /\ tag.maxDelay \in Nat /\ tag.lastHop \in Nat /\ tag.hops \in Nat
        /\ tag.present \in BOOLEAN
    BY DEF TagTypeOK, PacketType, TagType
  <1>a. /\ \A i \in 1 .. Len(times) : times[i] <= now
        /\ tag.present <=> times # <<>>
        /\ times # <<>> => tag.lastHop = times[Len(times)]
        /\ tag.maxDelay \in {0} \cup Delays(p)
        /\ \A d \in Delays(p) : d <= tag.maxDelay
    BY DEF TagSaysTimes, LargestDelay
  <1>2. /\ after \in Seq(Nat) /\ after # <<>> /\ Len(after) = Len(times) + 1
        /\ after[Len(after)] = now
        /\ \A i \in 1 .. Len(times) : after[i] = times[i]
    BY <1>1
  <1>3. \A i \in 1 .. Len(after) : after[i] <= now
    BY <1>1, <1>2, <1>a
  <1>4. /\ Delays(p) = Gaps(times)
        /\ Delays(p)' = Gaps(after)
        /\ Gaps(after) = Gaps(times) \cup (IF times = <<>> THEN {} ELSE {now - times[Len(times)]})
    BY <1>1, GapsOfAppend, DelaysAreGaps
  <1>b. SUFFICES /\ new \in TagType
                 /\ new.present /\ new.lastHop = now
                 /\ new.maxDelay \in {0} \cup Gaps(after)
                 /\ \A d \in Gaps(after) : d <= new.maxDelay
                 /\ Gaps(after) \subseteq Nat
    BY <1>2, <1>3, <1>4 DEF TagSaysTimes, LargestDelay
  <1> HIDE DEF times, tag, after
  <1>5. CASE times = <<>>
    <2>1. new = [lastHop |-> now, maxDelay |-> 0, hops |-> 0, present |-> TRUE]
      BY <1>5, <1>a DEF TagOnReceive, FirstTag
    <2>2. Gaps(<<>>) = {}
      BY DEF Gaps
    <2>3. Gaps(after) = {}
      BY <1>4, <1>5, <2>2
    <2> QED
      BY <2>1, <2>3, <1>1 DEF TagType
  <1>6. CASE times # <<>>
    <2> DEFINE gap == now - tag.lastHop
               m   == IF tag.maxDelay >= gap THEN tag.maxDelay ELSE gap
    <2>1. /\ tag.present /\ tag.lastHop = times[Len(times)]
          /\ Len(times) \in 1 .. Len(times)
      BY <1>1, <1>a, <1>6
    <2>2. gap \in Nat
      BY <2>1, <1>1, <1>a
    <2> HIDE DEF gap
    <2>3. Max({tag.maxDelay, gap}) = m
      BY <2>2, <1>1, MaxOfTwo
    <2>4. new = [lastHop |-> now, maxDelay |-> m, hops |-> tag.hops + 1, present |-> TRUE]
      BY <2>1, <2>3, <1>1 DEF TagOnReceive, UpdatedTag, TagType, gap
    <2>5. new \in TagType
      BY <2>2, <2>4, <1>1 DEF TagType
    <2>6. Gaps(after) = Delays(p) \cup {gap}
      BY <2>1, <1>4, <1>6 DEF gap
    <2>7. /\ m \in {0} \cup Gaps(after)
          /\ \A d \in Gaps(after) : d <= m
          /\ Gaps(after) \subseteq Nat
      BY <2>2, <2>6, <1>1, <1>a
    <2> QED
      BY <2>4, <2>5, <2>7
  <1> QED
    BY <1>5, <1>6

LEMMA InitIInv == Init => IInv
  <1> SUFFICES ASSUME Init PROVE IInv
    OBVIOUS
  <1>1. TagTypeOK
    BY TagAssumption DEF Init, TagTypeOK, PacketType, TagType, States, NoTag
  <1>2. \A p \in Packets : Delays(p) = {}
    BY DEF Init, Delays
  <1>3. \A p \in Packets : TagSaysTimes(p) /\ Delays(p) \subseteq Nat
    BY <1>2 DEF Init, TagSaysTimes, LargestDelay, NoTag
  <1>4. MaxOfCovered
    BY <1>1 DEF Init, MaxOfCovered, Covered, TagTypeOK
  <1> QED
    BY <1>1, <1>3, <1>4 DEF Init, IInv, DeliveredAreDone

\* Steps that do not reach the socket: no time and no tag of a packet changes,
\* and a packet that has arrived stays where it is.
LEMMA QuietStep ==
    ASSUME IInv, TagTypeOK', now' >= now,
           UNCHANGED <<maxDelay, hops, base, delivered, newest>>,
           \A p \in Packets : /\ pkts'[p].times = pkts[p].times
                              /\ pkts'[p].tag = pkts[p].tag
                              /\ pkts[p].state = "delivered" => pkts'[p].state = "delivered"
    PROVE  IInv'
  <1>1. \A p \in Packets : Delays(p)' = Delays(p) /\ TagSaysTimes(p)'
    <2> SUFFICES ASSUME NEW p \in Packets
                 PROVE  Delays(p)' = Delays(p) /\ TagSaysTimes(p)'
      OBVIOUS
    <2>1. pkts[p].times \in Seq(Nat) /\ now' \in Nat
      BY DEF IInv, TagTypeOK, PacketType
    <2> QED
      BY <2>1, PacketKept DEF IInv
  <1>2. Covered' = Covered
    BY <1>1 DEF Covered, IInv, TagTypeOK
  <1>3. MaxOfCovered'
    BY <1>2 DEF IInv, MaxOfCovered
  <1>4. DeliveredAreDone'
    BY DEF IInv, DeliveredAreDone, TagTypeOK
  <1> QED
    BY <1>1, <1>3, <1>4 DEF IInv

\* The packet reaches its destination, and the socket reads the tag.
LEMMA ForwardUpStep ==
    ASSUME IInv, NEW p \in Packets, pkts[p].state = "travelling", TagTypeOK',
           pkts'[p].state = "delivered",
           pkts'[p].times = Append(pkts[p].times, now),
           \A q \in Packets \ {p} : pkts'[q] = pkts[q],
           TagSaysTimes(p)', Delays(p)' \subseteq Nat,
           ForwardUp(p, pkts'[p].tag)
    PROVE  MaxOfCovered' /\ DeliveredAreDone'
  <1>1. \A q \in delivered : q \in Packets /\ q # p /\ Delays(q)' = Delays(q)
    BY DEF IInv, DeliveredAreDone, TagTypeOK, Delays
  <1>2. DeliveredAreDone'
    BY <1>1 DEF ForwardUp, WindowUpdate, IInv, DeliveredAreDone
  <1>4. MaxOfCovered'
    <2>1. CASE WindowUpdate
      <3>1. Covered' = {0} /\ maxDelay' = 0
        BY <2>1 DEF WindowUpdate, Covered
      <3> QED
        BY <3>1 DEF MaxOfCovered
    <2>2. CASE /\ maxDelay' = Max({maxDelay, pkts'[p].tag.maxDelay})
               /\ delivered' = delivered \cup {p}
               /\ UNCHANGED base
      <3> DEFINE m == pkts'[p].tag.maxDelay
      <3>1. Covered' = Covered \cup Delays(p)'
        BY <1>1, <2>2 DEF Covered
      <3>2. /\ m \in Nat /\ m \in {0} \cup Delays(p)'
            /\ \A d \in Delays(p)' : d <= m
        BY DEF TagSaysTimes, LargestDelay, TagTypeOK, PacketType, TagType
      <3>3. /\ maxDelay \in Nat /\ Covered \subseteq Nat
            /\ maxDelay \in Covered /\ \A d \in Covered : d <= maxDelay
            /\ 0 \in Covered
        BY DEF IInv, TagTypeOK, MaxOfCovered, Covered
      <3> HIDE DEF m
      <3>4. maxDelay' = IF maxDelay >= m THEN maxDelay ELSE m
        BY <2>2, <3>2, <3>3, MaxOfTwo DEF m
      <3>5. Covered' \subseteq Nat /\ maxDelay' \in Covered'
        BY <3>1, <3>2, <3>3, <3>4
      <3>6. \A d \in Covered' : d <= maxDelay'
        <4>1. ASSUME NEW d \in Covered PROVE d <= maxDelay'
          BY <3>2, <3>3, <3>4, d \in Nat
        <4>2. ASSUME NEW d \in Delays(p)' PROVE d <= maxDelay'
          BY <3>2, <3>3, <3>4, d \in Nat
        <4> QED
          BY <3>1, <4>1, <4>2
      <3> QED
        BY <3>5, <3>6 DEF MaxOfCovered
    <2>3. CASE UNCHANGED <<maxDelay, base, delivered>>
      <3>1. Covered' = Covered
        BY <1>1, <2>3 DEF Covered
      <3> QED
        BY <2>3, <3>1 DEF IInv, MaxOfCovered
    <2> QED
      BY <2>1, <2>2, <2>3 DEF ForwardUp
  <1> QED
    BY <1>2, <1>4

LEMMA ReceiveStep ==
    ASSUME IInv, NEW p \in Packets, Receive(p)
    PROVE  IInv'
  <1> DEFINE tag  == TagOnReceive(pkts[p].tag)
             last == Len(pkts[p].times) + 1 = pkts[p].path
  <1>1. /\ TagTypeOK /\ TagSaysTimes(p) /\ Delays(p) \subseteq Nat
        /\ pkts[p] \in PacketType /\ pkts[p].state = "travelling" /\ now' = now
    BY DEF IInv, TagTypeOK, Receive
  <1>2. /\ pkts'[p].tag = tag
        /\ pkts'[p].times = Append(pkts[p].times, now)
        /\ pkts'[p].state = IF last THEN "delivered" ELSE pkts[p].state
        /\ \A q \in Packets \ {p} : pkts'[q] = pkts[q]
    BY DEF Receive, IInv, TagTypeOK, PacketType
  <1>3. tag \in TagType /\ TagSaysTimes(p)' /\ Delays(p)' \subseteq Nat
    BY <1>1, <1>2, ReceiveKeepsTag
  <1>4. /\ pkts' \in [Packets -> PacketType] /\ tag.maxDelay \in Nat /\ tag.hops \in Nat
    BY <1>1, <1>3 DEF Receive, TagTypeOK, PacketType, TagType, States
  <1>5. ASSUME NEW q \in Packets PROVE TagSaysTimes(q)' /\ Delays(q)' \subseteq Nat
    <2>1. CASE q = p
      BY <1>3, <2>1
    <2>2. CASE q # p
      <3>1. pkts'[q] = pkts[q] /\ pkts[q].times \in Seq(Nat) /\ TagSaysTimes(q)
        BY <1>2, <2>2 DEF IInv, TagTypeOK, PacketType
      <3>2. Delays(q)' = Delays(q) /\ TagSaysTimes(q)'
        BY <1>1, <3>1, PacketKept DEF TagTypeOK
      <3> QED
        BY <3>2 DEF IInv
    <2> QED
      BY <2>1, <2>2
  <1>6. CASE last
    <2>1. ForwardUp(p, tag)
      BY <1>6 DEF Receive
    <2>2. TagTypeOK'
      <3>1. maxDelay' \in Nat
        BY <1>1, <1>4, <2>1, MaxOfTwo DEF ForwardUp, WindowUpdate, TagTypeOK
      <3> QED
        BY <3>1, <1>1, <1>4, <2>1 DEF ForwardUp, WindowUpdate, TagTypeOK
    <2>3. MaxOfCovered' /\ DeliveredAreDone'
      BY <1>1, <1>2, <1>3, <1>6, <2>1, <2>2, ForwardUpStep
    <2> QED
      BY <1>5, <2>2, <2>3 DEF IInv
  <1>7. CASE ~ last
    <2>1. UNCHANGED <<maxDelay, hops, base, delivered, newest>>
      BY <1>7 DEF Receive
    <2>2. TagTypeOK'
      BY <1>1, <1>4, <2>1 DEF TagTypeOK
    <2>3. \A q \in delivered : q \in Packets /\ q # p /\ Delays(q)' = Delays(q)
      BY <1>1, <1>2 DEF IInv, DeliveredAreDone, TagTypeOK, Delays
    <2>4. Covered' = Covered
      BY <2>1, <2>3 DEF Covered
    <2>5. MaxOfCovered'
      BY <2>1, <2>4 DEF IInv, MaxOfCovered
    <2>7. DeliveredAreDone'
      BY <1>2, <2>1, <2>3 DEF IInv, DeliveredAreDone
    <2> QED
      BY <1>5, <2>2, <2>5, <2>7 DEF IInv
  <1> QED
    BY <1>6, <1>7

LEMMA NextIInv == IInv /\ [Next]_vars => IInv'
  <1> SUFFICES ASSUME IInv, [Next]_vars PROVE IInv'
    OBVIOUS
  <1>1. ASSUME NEW p \in Packets, Send(p) PROVE IInv'
    <2>1. PICK n \in 1 .. MaxPath :
            pkts' = [pkts EXCEPT ![p].state = "travelling", ![p].path = n]
      BY <1>1 DEF Send
    <2>2. TagTypeOK'
      <3>1. pkts \in [Packets -> PacketType] /\ pkts[p] \in PacketType
        BY DEF IInv, TagTypeOK
      <3>2. [pkts[p] EXCEPT !.state = "travelling", !.path = n] \in PacketType
        BY <3>1 DEF PacketType, States
      <3>3. pkts' = [pkts EXCEPT ![p] = [pkts[p] EXCEPT !.state = "travelling", !.path = n]]
        BY <2>1, <3>1 DEF PacketType
      <3>4. pkts' \in [Packets -> PacketType]
        BY <3>1, <3>2, <3>3
      <3> QED
        BY <1>1, <3>4 DEF Send, IInv, TagTypeOK
    <2>3. \A q \in Packets : /\ pkts'[q].times = pkts[q].times
                             /\ pkts'[q].tag = pkts[q].tag
                             /\ pkts[q].state = "delivered" => pkts'[q].state = "delivered"
      BY <1>1, <2>1 DEF Send, IInv, TagTypeOK, PacketType
    <2> QED
      BY <1>1, <2>2, <2>3, QuietStep DEF Send, IInv, TagTypeOK
  <1>2. ASSUME NEW p \in Packets, Drop(p) PROVE IInv'
    <2>1. TagTypeOK'
      BY <1>2 DEF Drop, IInv, TagTypeOK, PacketType, States
    <2>2. \A q \in Packets : /\ pkts'[q].times = pkts[q].times
                             /\ pkts'[q].tag = pkts[q].tag
                             /\ pkts[q].state = "delivered" => pkts'[q].state = "delivered"
      BY <1>2 DEF Drop, IInv, TagTypeOK, PacketType
    <2> QED
      BY <1>2, <2>1, <2>2, QuietStep DEF Drop, IInv, TagTypeOK
  <1>3. CASE Tick
    <2>1. TagTypeOK' /\ now' >= now
      BY <1>3 DEF Tick, IInv, TagTypeOK
    <2> QED
      BY <1>3, <2>1, QuietStep DEF Tick
  <1>4. CASE UNCHANGED vars
    <2>1. TagTypeOK' /\ now' >= now
      BY <1>4 DEF vars, IInv, TagTypeOK
    <2> QED
      BY <1>4, <2>1, QuietStep DEF vars
  <1> QED
    BY <1>1, <1>2, <1>3, <1>4, ReceiveStep DEF Next

LEMMA InvariantHolds == Spec => []IInv
  BY InitIInv, NextIInv, PTL DEF Spec

-----------------------------------------------------------------------------
(* The theorem.                                                             *)

\* tcb->m_maxDelay is the largest delay between two nodes of any packet the
\* socket took since Swift last updated its window, for any number of packets
\* over paths of any length, in any order of arrival and with any losses.
THEOREM MaxDelayCorrect == Spec => []MaxDelayIsLargest
  <1>1. IInv => MaxDelayIsLargest
    <2> SUFFICES ASSUME IInv PROVE maxDelay = Max(Covered)
      BY DEF MaxDelayIsLargest, Covered
    <2>1. Covered \in SUBSET Int /\ maxDelay \in Covered /\ \A d \in Covered : d <= maxDelay
      BY DEF IInv, MaxOfCovered
    <2> QED
      BY <2>1, MaxIs
  <1> QED
    BY <1>1, InvariantHolds, PTL
=============================================================================
