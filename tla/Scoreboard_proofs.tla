-------------------------- MODULE Scoreboard_proofs -------------------------
(***************************************************************************)
(* Proofs about Scoreboard, checked by TLAPS: the counters of TcpTxBuffer  *)
(* agree with its flags, the pipe never wraps and highestSack is sound,    *)
(* after any sequence of calls and for buffers of every size.              *)
(***************************************************************************)
EXTENDS Scoreboard, FiniteSetTheorems, WellFoundedInduction, TLAPS

-----------------------------------------------------------------------------
(* Finite sets of segments.                                                 *)

\* A set of integers between two bounds is finite.
LEMMA BoundedFinite ==
    ASSUME NEW lo \in Int, NEW hi \in Int, NEW S, S \subseteq lo .. hi
    PROVE  /\ IsFiniteSet(S)
           /\ Cardinality(S) \in Nat
  <1>1. IsFiniteSet(lo .. hi)
    BY FS_Interval, Zenon
  <1>2. IsFiniteSet(S)
    BY <1>1, FS_Subset, Zenon
  <1> QED
    BY <1>2, FS_CardinalityType, Zenon

\* Every nonempty set of segments has a greatest element, and Max picks it.
LEMMA MaxOfSegments ==
    ASSUME NEW n \in Nat, NEW S, S \subseteq 1 .. n, S # {}
    PROVE  /\ Max(S) \in S
           /\ \A y \in S : y <= Max(S)
  <1> DEFINE D == {n - s : s \in S}
  <1>1. D \subseteq Nat
    BY SMT
  <1>2. D # {}
    OBVIOUS
  <1> DEFINE R == OpToRel(<, Nat)
  <1>r. IsWellFoundedOn(R, Nat)
    BY NatLessThanWellFounded
  <1>3. PICK d \in D : \A e \in D : ~ (<<e, d>> \in R)
    <2> HIDE DEF D, R
    <2> QED BY <1>1, <1>2, <1>r, WFMin, Zenon
  <1>4. \A e \in D : ~ (e < d)
    <2>1. \A i \in Nat, j \in Nat : i < j => <<i, j>> \in R
      BY SMT DEF OpToRel
    <2> HIDE DEF D, R
    <2> QED BY <1>1, <1>3, <2>1, Zenon
  <1>5. PICK x \in S : d = n - x
    BY <1>3
  <1>6. \A y \in S : x >= y
    <2> SUFFICES ASSUME NEW y \in S PROVE x >= y
      OBVIOUS
    <2>1. n - y \in D
      OBVIOUS
    <2>2. ~ (n - y < n - x)
      BY <2>1, <1>4, <1>5, Zenon
    <2>3. x \in Int /\ y \in Int
      BY SMT
    <2> QED
      BY <2>2, <2>3, SMT
  <1>7. /\ Max(S) \in S
        /\ \A y \in S : Max(S) >= y
    BY <1>6, Zenon DEF Max
  <1> QED
    BY <1>7, SMT

-----------------------------------------------------------------------------
(* The inductive invariant.                                                 *)

\* The buffers of every size.
BufferRecords ==
    [una: Nat \ {0}, nxt: Nat \ {0}, end: Nat \ {0},
     sacked: SUBSET Nat, lost: SUBSET Nat, retrans: SUBSET Nat,
     sackedOut: Nat, lostOut: Nat, retransOut: Nat, highestSack: Nat]

Shape(b) ==
    /\ b \in BufferRecords
    /\ b.una <= b.nxt /\ b.nxt <= b.end
    /\ b.sacked \subseteq SentList(b)
    /\ b.lost \subseteq SentList(b)
    /\ b.retrans \subseteq SentList(b)

BufInv(b) ==
    /\ Shape(b)
    /\ ConsistencyCheck(b)
    /\ HeadNotSacked(b)
    /\ LostXorSacked(b)
    /\ HighestSackSound(b)

\* The flagged sets are finite.
LEMMA FlagsFinite ==
    ASSUME NEW b, Shape(b)
    PROVE  /\ IsFiniteSet(b.sacked) /\ Cardinality(b.sacked) \in Nat
           /\ IsFiniteSet(b.lost) /\ Cardinality(b.lost) \in Nat
           /\ IsFiniteSet(b.retrans) /\ Cardinality(b.retrans) \in Nat
           /\ IsFiniteSet(SentList(b)) /\ Cardinality(SentList(b)) \in Nat
  <1>1. b.una \in Int /\ b.nxt - 1 \in Int
    BY SMT DEF Shape, BufferRecords
  <1>2. /\ b.sacked \subseteq b.una .. b.nxt - 1
        /\ b.lost \subseteq b.una .. b.nxt - 1
        /\ b.retrans \subseteq b.una .. b.nxt - 1
        /\ SentList(b) \subseteq b.una .. b.nxt - 1
    BY DEF Shape, SentList
  <1> QED
    BY <1>1, <1>2, BoundedFinite, Zenon

-----------------------------------------------------------------------------
(* The invariant field by field: what has to hold of the window, the flags  *)
(* and highestSack.                                                         *)

PartsOK(u, n, e, S, L, R, h) ==
    /\ u \in Nat \ {0} /\ n \in Nat \ {0} /\ e \in Nat \ {0}
    /\ u <= n /\ n <= e
    /\ S \subseteq u .. n - 1 /\ L \subseteq u .. n - 1 /\ R \subseteq u .. n - 1
    /\ u \notin S
    /\ L \cap S = {}
    /\ h \in Nat
    /\ h = 0 <=> S = {}
    /\ h # 0 => h \in S
    /\ \A t \in S : \A s \in h .. t : s \in S

BufParts(b) ==
    PartsOK(b.una, b.nxt, b.end, b.sacked, b.lost, b.retrans, b.highestSack)

\* The parts of a buffer that satisfies the invariant are such, ...
LEMMA InvParts ==
    ASSUME NEW b, BufInv(b)
    PROVE  b \in BufferRecords /\ ConsistencyCheck(b) /\ BufParts(b)
  BY DEF BufInv, Shape, BufferRecords, SentList, HeadNotSacked, LostXorSacked,
         HighestSackSound, NoSack, PartsOK, BufParts

\* ... and they suffice.
LEMMA PartsInv ==
    ASSUME NEW c \in BufferRecords, ConsistencyCheck(c), BufParts(c)
    PROVE  BufInv(c)
  <1>1. Shape(c)
    BY DEF BufParts, PartsOK, Shape, SentList
  <1>2. HeadNotSacked(c) /\ LostXorSacked(c) /\ HighestSackSound(c)
    BY DEF BufParts, PartsOK, HeadNotSacked, LostXorSacked, HighestSackSound, NoSack
  <1> QED
    BY <1>1, <1>2 DEF BufInv

\* Such flags are finite sets of segments.
LEMMA PartsType ==
    ASSUME NEW u, NEW n, NEW e, NEW S, NEW L, NEW R, NEW h,
           PartsOK(u, n, e, S, L, R, h)
    PROVE  /\ S \in SUBSET Nat /\ L \in SUBSET Nat /\ R \in SUBSET Nat
           /\ IsFiniteSet(S) /\ IsFiniteSet(L) /\ IsFiniteSet(R)
           /\ Cardinality(S) \in Nat /\ Cardinality(L) \in Nat /\ Cardinality(R) \in Nat
  <1>1. u \in Int /\ n - 1 \in Int /\ u .. n - 1 \subseteq Nat
    BY SMT DEF PartsOK
  <1>2. /\ IsFiniteSet(S) /\ IsFiniteSet(L) /\ IsFiniteSet(R)
        /\ Cardinality(S) \in Nat /\ Cardinality(L) \in Nat /\ Cardinality(R) \in Nat
    BY <1>1, BoundedFinite, Zenon DEF PartsOK
  <1> QED
    BY <1>1, <1>2 DEF PartsOK

\* The part of a finite set that stays when some elements leave.
LEMMA RemainderCardinality ==
    ASSUME NEW S, NEW T, IsFiniteSet(S), NEW k, k = Cardinality(S)
    PROVE  k - Cardinality(S \cap T) = Cardinality(S \ T)
  BY FS_Difference, Zenon

\* Two disjoint finite sets.
LEMMA DisjointCardinality ==
    ASSUME NEW S, NEW T, IsFiniteSet(S), IsFiniteSet(T), S \cap T = {},
           NEW k, k = Cardinality(S)
    PROVE  k + Cardinality(T) = Cardinality(S \cup T)
  <1>1. Cardinality(S \cup T) = Cardinality(S) + Cardinality(T) - Cardinality(S \cap T)
    BY FS_Union, Zenon
  <1>2. Cardinality(S) \in Nat /\ Cardinality(T) \in Nat /\ Cardinality({}) = 0
    BY FS_CardinalityType, FS_EmptySet, Zenon
  <1>3. Cardinality(S \cap T) = 0
    BY <1>2, Zenon
  <1> QED
    BY <1>1, <1>2, <1>3, SMT

-----------------------------------------------------------------------------
(* A flag and its count that are replaced together keep the invariant: one  *)
(* lemma for each combination of fields that the operators update.          *)

\* The retransmitted items (GetTransmittedSegment).
LEMMA WithRetrans ==
    ASSUME NEW b, BufInv(b), NEW R, NEW r,
           PartsOK(b.una, b.nxt, b.end, b.sacked, b.lost, R, b.highestSack),
           r = Cardinality(R)
    PROVE  BufInv([b EXCEPT !.retrans = R, !.retransOut = r])
  <1> DEFINE c == [b EXCEPT !.retrans = R, !.retransOut = r]
  <1>1. R \in SUBSET Nat /\ r \in Nat
    BY PartsType, SMT
  <1>2. b \in BufferRecords /\ ConsistencyCheck(b)
    BY InvParts
  <1>3. c \in BufferRecords
    BY <1>1, <1>2 DEF BufferRecords
  <1>4. /\ c.una = b.una /\ c.nxt = b.nxt /\ c.end = b.end /\ c.sacked = b.sacked
        /\ c.lost = b.lost /\ c.retrans = R /\ c.sackedOut = b.sackedOut
        /\ c.lostOut = b.lostOut /\ c.retransOut = r /\ c.highestSack = b.highestSack
    BY <1>2 DEF BufferRecords
  <1> HIDE DEF c
  <1>5. ConsistencyCheck(c) /\ BufParts(c)
    BY <1>2, <1>4, Zenon DEF ConsistencyCheck, BufParts
  <1>6. BufInv(c)
    BY <1>3, <1>5, PartsInv, Zenon
  <1> QED
    BY <1>6 DEF c

\* The lost items (UpdateLostCount).
LEMMA WithLost ==
    ASSUME NEW b, BufInv(b), NEW L, NEW l,
           PartsOK(b.una, b.nxt, b.end, b.sacked, L, b.retrans, b.highestSack),
           l = Cardinality(L)
    PROVE  BufInv([b EXCEPT !.lost = L, !.lostOut = l])
  <1> DEFINE c == [b EXCEPT !.lost = L, !.lostOut = l]
  <1>1. L \in SUBSET Nat /\ l \in Nat
    BY PartsType, SMT
  <1>2. b \in BufferRecords /\ ConsistencyCheck(b)
    BY InvParts
  <1>3. c \in BufferRecords
    BY <1>1, <1>2 DEF BufferRecords
  <1>4. /\ c.una = b.una /\ c.nxt = b.nxt /\ c.end = b.end /\ c.sacked = b.sacked
        /\ c.lost = L /\ c.retrans = b.retrans /\ c.sackedOut = b.sackedOut
        /\ c.lostOut = l /\ c.retransOut = b.retransOut /\ c.highestSack = b.highestSack
    BY <1>2 DEF BufferRecords
  <1> HIDE DEF c
  <1>5. ConsistencyCheck(c) /\ BufParts(c)
    BY <1>2, <1>4, Zenon DEF ConsistencyCheck, BufParts
  <1>6. BufInv(c)
    BY <1>3, <1>5, PartsInv, Zenon
  <1> QED
    BY <1>6 DEF c

\* The lost and the retransmitted items (SetSentListLost).
LEMMA WithLostRetrans ==
    ASSUME NEW b, BufInv(b), NEW L, NEW l, NEW R, NEW r,
           PartsOK(b.una, b.nxt, b.end, b.sacked, L, R, b.highestSack),
           l = Cardinality(L), r = Cardinality(R)
    PROVE  BufInv([b EXCEPT !.lost = L, !.lostOut = l, !.retrans = R, !.retransOut = r])
  <1> DEFINE c == [b EXCEPT !.lost = L, !.lostOut = l, !.retrans = R, !.retransOut = r]
  <1>1. L \in SUBSET Nat /\ l \in Nat /\ R \in SUBSET Nat /\ r \in Nat
    BY PartsType, SMT
  <1>2. b \in BufferRecords /\ ConsistencyCheck(b)
    BY InvParts
  <1>3. c \in BufferRecords
    BY <1>1, <1>2 DEF BufferRecords
  <1>4. /\ c.una = b.una /\ c.nxt = b.nxt /\ c.end = b.end /\ c.sacked = b.sacked
        /\ c.lost = L /\ c.retrans = R /\ c.sackedOut = b.sackedOut
        /\ c.lostOut = l /\ c.retransOut = r /\ c.highestSack = b.highestSack
    BY <1>2 DEF BufferRecords
  <1> HIDE DEF c
  <1>5. ConsistencyCheck(c) /\ BufParts(c)
    BY <1>2, <1>4, Zenon DEF ConsistencyCheck, BufParts
  <1>6. BufInv(c)
    BY <1>3, <1>5, PartsInv, Zenon
  <1> QED
    BY <1>6 DEF c

\* All three flags (MarkHeadAsLost).
LEMMA WithFlags ==
    ASSUME NEW b, BufInv(b), NEW S, NEW s, NEW R, NEW r, NEW L, NEW l,
           PartsOK(b.una, b.nxt, b.end, S, L, R, b.highestSack),
           s = Cardinality(S), l = Cardinality(L), r = Cardinality(R)
    PROVE  BufInv([b EXCEPT !.sacked = S, !.sackedOut = s, !.retrans = R, !.retransOut = r,
                            !.lost = L, !.lostOut = l])
  <1> DEFINE c == [b EXCEPT !.sacked = S, !.sackedOut = s, !.retrans = R, !.retransOut = r,
                          !.lost = L, !.lostOut = l]
  <1>1. /\ S \in SUBSET Nat /\ s \in Nat
        /\ R \in SUBSET Nat /\ r \in Nat
        /\ L \in SUBSET Nat /\ l \in Nat
    BY PartsType, SMT
  <1>2. b \in BufferRecords /\ ConsistencyCheck(b)
    BY InvParts
  <1>3. c \in BufferRecords
    BY <1>1, <1>2 DEF BufferRecords
  <1>4. /\ c.una = b.una /\ c.nxt = b.nxt /\ c.end = b.end /\ c.sacked = S
        /\ c.lost = L /\ c.retrans = R /\ c.sackedOut = s
        /\ c.lostOut = l /\ c.retransOut = r /\ c.highestSack = b.highestSack
    BY <1>2 DEF BufferRecords
  <1> HIDE DEF c
  <1>5. ConsistencyCheck(c) /\ BufParts(c)
    BY <1>2, <1>4, Zenon DEF ConsistencyCheck, BufParts
  <1>6. BufInv(c)
    BY <1>3, <1>5, PartsInv, Zenon
  <1> QED
    BY <1>6 DEF c

\* The SACKed and the lost items and highestSack (Update).
LEMMA WithSack ==
    ASSUME NEW b, BufInv(b), NEW S, NEW s, NEW L, NEW l, NEW h,
           PartsOK(b.una, b.nxt, b.end, S, L, b.retrans, h),
           s = Cardinality(S), l = Cardinality(L)
    PROVE  BufInv([b EXCEPT !.sacked = S, !.sackedOut = s, !.lost = L, !.lostOut = l,
                            !.highestSack = h])
  <1> DEFINE c == [b EXCEPT !.sacked = S, !.sackedOut = s, !.lost = L, !.lostOut = l,
                          !.highestSack = h]
  <1>1. S \in SUBSET Nat /\ s \in Nat /\ L \in SUBSET Nat /\ l \in Nat
    BY PartsType, SMT
  <1>w. h \in Nat
    BY DEF PartsOK
  <1>2. b \in BufferRecords /\ ConsistencyCheck(b)
    BY InvParts
  <1>3. c \in BufferRecords
    BY <1>1, <1>w, <1>2 DEF BufferRecords
  <1>4. /\ c.una = b.una /\ c.nxt = b.nxt /\ c.end = b.end /\ c.sacked = S
        /\ c.lost = L /\ c.retrans = b.retrans /\ c.sackedOut = s
        /\ c.lostOut = l /\ c.retransOut = b.retransOut /\ c.highestSack = h
    BY <1>2 DEF BufferRecords
  <1> HIDE DEF c
  <1>5. ConsistencyCheck(c) /\ BufParts(c)
    BY <1>2, <1>4, Zenon DEF ConsistencyCheck, BufParts
  <1>6. BufInv(c)
    BY <1>3, <1>5, PartsInv, Zenon
  <1> QED
    BY <1>6 DEF c

\* The head and everything that depends on it (DiscardUpTo).
LEMMA WithHead ==
    ASSUME NEW b, BufInv(b), NEW u, NEW S, NEW s, NEW L, NEW l, NEW R, NEW r, NEW h,
           PartsOK(u, b.nxt, b.end, S, L, R, h),
           s = Cardinality(S), l = Cardinality(L), r = Cardinality(R)
    PROVE  BufInv([b EXCEPT !.una = u, !.sacked = S, !.sackedOut = s, !.lost = L,
                            !.lostOut = l, !.retrans = R, !.retransOut = r, !.highestSack = h])
  <1> DEFINE c == [b EXCEPT !.una = u, !.sacked = S, !.sackedOut = s, !.lost = L,
                          !.lostOut = l, !.retrans = R, !.retransOut = r, !.highestSack = h]
  <1>1. /\ S \in SUBSET Nat /\ s \in Nat
        /\ L \in SUBSET Nat /\ l \in Nat
        /\ R \in SUBSET Nat /\ r \in Nat
    BY PartsType, SMT
  <1>w. u \in Nat \ {0} /\ h \in Nat
    BY DEF PartsOK
  <1>2. b \in BufferRecords /\ ConsistencyCheck(b)
    BY InvParts
  <1>3. c \in BufferRecords
    BY <1>1, <1>w, <1>2 DEF BufferRecords
  <1>4. /\ c.una = u /\ c.nxt = b.nxt /\ c.end = b.end /\ c.sacked = S
        /\ c.lost = L /\ c.retrans = R /\ c.sackedOut = s
        /\ c.lostOut = l /\ c.retransOut = r /\ c.highestSack = h
    BY <1>2 DEF BufferRecords
  <1> HIDE DEF c
  <1>5. ConsistencyCheck(c) /\ BufParts(c)
    BY <1>2, <1>4, Zenon DEF ConsistencyCheck, BufParts
  <1>6. BufInv(c)
    BY <1>3, <1>5, PartsInv, Zenon
  <1> QED
    BY <1>6 DEF c

-----------------------------------------------------------------------------
(* Every operator preserves the invariant.                                  *)

\* Add.
LEMMA AddInv ==
    ASSUME NEW b, BufInv(b)
    PROVE  BufInv(Add(b))
  <1>1. Add(b) \in BufferRecords
    BY InvParts, SMT DEF Add, BufferRecords
  <1>2. BufParts(Add(b))
    BY InvParts, SMT DEF Add, BufferRecords, BufParts, PartsOK
  <1>3. ConsistencyCheck(Add(b))
    BY InvParts DEF Add, BufferRecords, ConsistencyCheck
  <1> QED
    BY <1>1, <1>2, <1>3, PartsInv

\* CopyFromSequence of the first unsent segment.
LEMMA CopyNewInv ==
    ASSUME NEW b, BufInv(b), b.nxt < b.end
    PROVE  BufInv(CopyFromSequence(b, b.nxt))
  <1> DEFINE c == [b EXCEPT !.nxt = @ + 1]
  <1>1. CopyFromSequence(b, b.nxt) = c
    BY InvParts, SMT DEF CopyFromSequence, GetNewSegment, BufferRecords
  <1>2. c \in BufferRecords
    BY InvParts, SMT DEF BufferRecords
  <1>3. BufParts(c)
    BY InvParts, SMT DEF BufferRecords, BufParts, PartsOK
  <1>4. ConsistencyCheck(c)
    BY InvParts DEF BufferRecords, ConsistencyCheck
  <1> QED
    BY <1>1, <1>2, <1>3, <1>4, PartsInv

\* CopyFromSequence of a sent segment.
LEMMA CopyOldInv ==
    ASSUME NEW b, BufInv(b), NEW s \in SentList(b)
    PROVE  BufInv(CopyFromSequence(b, s))
  <1>1. CopyFromSequence(b, s) = GetTransmittedSegment(b, s)
    BY InvParts, SMT DEF CopyFromSequence, BufferRecords, SentList
  <1>2. CASE s \in b.retrans
    BY <1>1, <1>2 DEF GetTransmittedSegment
  <1>3. CASE s \notin b.retrans
    <2> DEFINE R == b.retrans \cup {s}
               r == b.retransOut + 1
    <2>1. CopyFromSequence(b, s) = [b EXCEPT !.retrans = R, !.retransOut = r]
      BY <1>1, <1>3 DEF GetTransmittedSegment
    <2>2. PartsOK(b.una, b.nxt, b.end, b.sacked, b.lost, R, b.highestSack)
      BY InvParts DEF BufParts, PartsOK, SentList
    <2>3. r = Cardinality(R)
      <3>1. IsFiniteSet(b.retrans) /\ b.retransOut = Cardinality(b.retrans)
        BY FlagsFinite, Zenon DEF BufInv, ConsistencyCheck
      <3> QED
        BY <1>3, <3>1, FS_AddElement, Zenon
    <2> HIDE DEF R, r
    <2>4. BufInv([b EXCEPT !.retrans = R, !.retransOut = r])
      BY <2>2, <2>3, WithRetrans, Zenon
    <2> QED
      BY <2>1, <2>4, Zenon
  <1> QED
    BY <1>2, <1>3

\* UpdateLostCount, whatever its criterion; it leaves the window and the SACK
\* flags alone.
LEMMA UpdateLostCountInv ==
    ASSUME NEW b, BufInv(b)
    PROVE  /\ BufInv(UpdateLostCount(b))
           /\ UpdateLostCount(b).una = b.una
           /\ UpdateLostCount(b).nxt = b.nxt
           /\ UpdateLostCount(b).end = b.end
           /\ UpdateLostCount(b).sacked = b.sacked
           /\ UpdateLostCount(b).retrans = b.retrans
  <1> DEFINE F == {s \in SentList(b) :
                     /\ s \notin b.sacked \cup b.lost
                     /\ Cardinality({t \in b.sacked : s < t /\ t <= b.highestSack})
                          >= DupAckThresh}
             L == b.lost \cup F
             l == b.lostOut + Cardinality(F)
             c == [b EXCEPT !.lost = L, !.lostOut = l]
  <1>1. UpdateLostCount(b) = c
    BY DEF UpdateLostCount
  <1>2. F \subseteq SentList(b) /\ F \cap b.sacked = {} /\ b.lost \cap F = {}
    OBVIOUS
  <1> HIDE DEF F
  <1>3. PartsOK(b.una, b.nxt, b.end, b.sacked, L, b.retrans, b.highestSack)
    BY <1>2, InvParts DEF BufParts, PartsOK, SentList
  <1>4. l = Cardinality(L)
    <2>1. IsFiniteSet(F)
      BY <1>2, FlagsFinite, FS_Subset, Zenon DEF BufInv
    <2>2. IsFiniteSet(b.lost) /\ b.lostOut = Cardinality(b.lost)
      BY FlagsFinite, Zenon DEF BufInv, ConsistencyCheck
    <2> QED
      BY <1>2, <2>1, <2>2, DisjointCardinality, Zenon
  <1> HIDE DEF L, l
  <1>5. BufInv(c)
    BY <1>3, <1>4, WithLost, Zenon
  <1>6. /\ c.una = b.una /\ c.nxt = b.nxt /\ c.end = b.end
        /\ c.sacked = b.sacked /\ c.retrans = b.retrans
    BY InvParts DEF BufferRecords
  <1> HIDE DEF c
  <1> QED
    BY <1>1, <1>5, <1>6, Zenon

\* Update with truthful SACK blocks: none of them covers the head.
LEMMA UpdateInv ==
    ASSUME NEW b, BufInv(b), NEW B, B \subseteq b.una + 1 .. b.nxt - 1
    PROVE  /\ BufInv(Update(b, B))
           /\ Update(b, B).una = b.una
           /\ Update(b, B).nxt = b.nxt
           /\ Update(b, B).end = b.end
           /\ Update(b, B).sacked = b.sacked \cup NewlySacked(b, B)
           /\ Update(b, B).retrans = b.retrans
  <1> DEFINE N == NewlySacked(b, B)
             top == Max(N)
             S == b.sacked \cup N
             s == b.sackedOut + Cardinality(N)
             L == b.lost \ N
             l == b.lostOut - Cardinality(b.lost \cap N)
             h == IF b.highestSack = NoSack \/ b.highestSack <= top + 1
                  THEN top ELSE b.highestSack
             c == [b EXCEPT !.sacked = S, !.sackedOut = s, !.lost = L,
                            !.lostOut = l, !.highestSack = h]
  <1>1. CASE N = {}
    BY <1>1 DEF Update
  <1>2. CASE N # {}
    <2>1. Update(b, B) = UpdateLostCount(c)
      BY <1>2 DEF Update
    <2>2. /\ N \subseteq SentList(b)
          /\ b.una \notin N
          /\ b.sacked \cap N = {}
      BY InvParts, SMT DEF NewlySacked, BufferRecords
    <2> HIDE DEF N
    <2>3. top \in N /\ \A y \in N : y <= top
      <3>1. N \subseteq 1 .. b.nxt /\ b.nxt \in Nat
        BY <2>2, InvParts, SMT DEF SentList, BufferRecords
      <3> QED
        BY <1>2, <3>1, MaxOfSegments, Zenon
    <2>4. s = Cardinality(S) /\ l = Cardinality(L)
      <3>1. IsFiniteSet(N)
        BY <2>2, FlagsFinite, FS_Subset, Zenon DEF BufInv
      <3>2. /\ IsFiniteSet(b.sacked) /\ b.sackedOut = Cardinality(b.sacked)
            /\ IsFiniteSet(b.lost) /\ b.lostOut = Cardinality(b.lost)
        BY FlagsFinite, Zenon DEF BufInv, ConsistencyCheck
      <3>3. s = Cardinality(S)
        BY <2>2, <3>1, <3>2, DisjointCardinality, Zenon
      <3>4. l = Cardinality(L)
        BY <3>2, RemainderCardinality, Zenon
      <3> QED
        BY <3>3, <3>4
    <2> HIDE DEF top
    <2>5. PartsOK(b.una, b.nxt, b.end, S, L, b.retrans, h)
      <3>1. BufParts(b)
        BY InvParts
      <3>2. /\ S \subseteq b.una .. b.nxt - 1 /\ L \subseteq b.una .. b.nxt - 1
            /\ b.una \notin S /\ L \cap S = {} /\ S # {}
        BY <1>2, <2>2, <3>1 DEF BufParts, PartsOK, SentList
      <3>3. top \in Int /\ top \in b.una .. b.nxt - 1 /\ top \in S
        BY <2>2, <2>3, <3>1, SMT DEF BufParts, PartsOK, SentList
      <3>4. h \in Nat /\ h # 0 /\ h \in S
        BY <3>1, <3>3, SMT DEF BufParts, PartsOK, NoSack
      <3>5. ASSUME NEW t \in S, NEW i \in h .. t
            PROVE  i \in S
        <4>1. t \in Int /\ h \in Int /\ i \in Int /\ h <= i /\ i <= t
          BY <3>1, <3>2, <3>4, SMT DEF BufParts, PartsOK
        <4>2. CASE t \in N
          BY <4>1, <4>2, <2>3, <3>1, <3>3, SMT DEF NoSack, BufParts, PartsOK
        <4>3. CASE t \in b.sacked
          <5>1. b.highestSack # NoSack /\ b.highestSack \in Int
            BY <4>3, <3>1, SMT DEF BufParts, PartsOK, NoSack
          <5>2. CASE i = top
            BY <5>2, <3>3
          <5>3. CASE i # top
            <6>1. b.highestSack <= i
              BY <4>1, <5>1, <5>3, <3>3, SMT
            <6>2. i \in b.highestSack .. t
              BY <6>1, <4>1, <5>1, SMT
            <6> QED
              BY <6>2, <4>3, <3>1 DEF BufParts, PartsOK
          <5> QED
            BY <5>2, <5>3
        <4> QED
          BY <4>2, <4>3
      <3> HIDE DEF h, S, L
      <3> QED
        BY <3>1, <3>2, <3>4, <3>5 DEF BufParts, PartsOK
    <2> HIDE DEF S, s, L, l, h
    <2>6. BufInv(c)
      BY <2>4, <2>5, WithSack, Zenon
    <2>7. /\ c.una = b.una /\ c.nxt = b.nxt /\ c.end = b.end
          /\ c.sacked = S /\ c.retrans = b.retrans
      BY InvParts DEF BufferRecords
    <2> HIDE DEF c
    <2> QED
      BY <2>1, <2>6, <2>7, UpdateLostCountInv, Zenon DEF S, N
  <1> QED
    BY <1>1, <1>2

\* DiscardUpTo with an ACK whose next segment is not SACKed: whatever lies
\* before highestSack's run of SACKed segments, the run leaves as a whole.
LEMMA DiscardInv ==
    ASSUME NEW b, BufInv(b), NEW a \in b.una .. b.nxt, a \notin b.sacked
    PROVE  BufInv(DiscardUpTo(b, a))
  <1> DEFINE G == b.una .. a - 1
             S == b.sacked \ G
             s == b.sackedOut - Cardinality(b.sacked \cap G)
             L == b.lost \ G
             l == b.lostOut - Cardinality(b.lost \cap G)
             R == b.retrans \ G
             r == b.retransOut - Cardinality(b.retrans \cap G)
             h == IF b.highestSack <= a THEN NoSack ELSE b.highestSack
             c == [b EXCEPT !.una = a, !.sacked = S, !.sackedOut = s, !.lost = L,
                            !.lostOut = l, !.retrans = R, !.retransOut = r,
                            !.highestSack = h]
  <1>1. CASE b.una >= a
    BY <1>1 DEF DiscardUpTo
  <1>2. CASE ~ (b.una >= a)
    <2>1. DiscardUpTo(b, a) = c
      BY <1>2 DEF DiscardUpTo
    <2>2. s = Cardinality(S) /\ l = Cardinality(L) /\ r = Cardinality(R)
      <3>1. /\ IsFiniteSet(b.sacked) /\ b.sackedOut = Cardinality(b.sacked)
            /\ IsFiniteSet(b.lost) /\ b.lostOut = Cardinality(b.lost)
            /\ IsFiniteSet(b.retrans) /\ b.retransOut = Cardinality(b.retrans)
        BY FlagsFinite, Zenon DEF BufInv, ConsistencyCheck
      <3> HIDE DEF G
      <3> QED
        BY <3>1, RemainderCardinality, Zenon
    <2>3. PartsOK(a, b.nxt, b.end, S, L, R, h)
      <3>1. BufParts(b)
        BY InvParts
      <3>2. /\ a \in Nat \ {0} /\ a <= b.nxt /\ a \in Int
            /\ b.una \in Int /\ b.nxt \in Int /\ b.highestSack \in Int
        <4>1. b.una \in Nat \ {0} /\ b.nxt \in Nat \ {0}
          BY <3>1 DEF BufParts, PartsOK
        <4>2. b.highestSack \in Nat
          BY <3>1 DEF BufParts, PartsOK
        <4> QED
          BY <4>1, <4>2, SMT
      <3>3. /\ S \subseteq a .. b.nxt - 1
            /\ L \subseteq a .. b.nxt - 1
            /\ R \subseteq a .. b.nxt - 1
            /\ a \notin S /\ L \cap S = {}
        BY <3>1, <3>2, SMT DEF BufParts, PartsOK
      <3>4. CASE b.highestSack <= a
        <4>1. h = 0
          BY <3>4 DEF NoSack
        <4>2. ASSUME NEW t \in S PROVE FALSE
          <5>1. t \in Int /\ a <= t /\ t \in b.sacked
            BY <3>3, <3>2, SMT
          <5>2. a \in b.highestSack .. t
            BY <5>1, <3>2, <3>4, SMT
          <5> QED
            BY <5>1, <5>2, <3>1 DEF BufParts, PartsOK
        <4>3. S = {}
          BY <4>2
        <4> HIDE DEF S, L, R, h
        <4> QED
          BY <3>1, <3>2, <3>3, <4>1, <4>3 DEF BufParts, PartsOK
      <3>5. CASE ~ (b.highestSack <= a)
        <4>1. h = b.highestSack
          BY <3>5
        <4>2. b.highestSack # 0 /\ b.highestSack \in S
          BY <3>1, <3>2, <3>5, SMT DEF BufParts, PartsOK
        <4>3. ASSUME NEW t \in S, NEW i \in h .. t PROVE i \in S
          <5>1. t \in b.sacked /\ i \in b.sacked
            BY <4>1, <3>1 DEF BufParts, PartsOK
          <5>2. i \notin G
            BY <4>1, <3>1, <3>2, <3>5, SMT DEF BufParts, PartsOK
          <5> QED
            BY <5>1, <5>2
        <4> HIDE DEF S, L, R, h
        <4> QED
          BY <3>1, <3>2, <3>3, <4>1, <4>2, <4>3 DEF BufParts, PartsOK
      <3> QED
        BY <3>4, <3>5
    <2> HIDE DEF S, s, L, l, R, r, h
    <2>4. BufInv(c)
      BY <2>2, <2>3, WithHead, Zenon
    <2> QED
      BY <2>1, <2>4, Zenon
  <1> QED
    BY <1>1, <1>2

\* SetSentListLost.
LEMMA TimeoutInv ==
    ASSUME NEW b, BufInv(b)
    PROVE  BufInv(SetSentListLost(b))
  <1> DEFINE L == SentList(b) \ b.sacked
             l == Cardinality(L)
             R == {}
             r == 0
  <1>1. SetSentListLost(b)
          = [b EXCEPT !.lost = L, !.lostOut = l, !.retrans = R, !.retransOut = r]
    BY DEF SetSentListLost
  <1>2. PartsOK(b.una, b.nxt, b.end, b.sacked, L, R, b.highestSack)
    BY InvParts DEF BufParts, PartsOK, SentList
  <1>3. l = Cardinality(L) /\ r = Cardinality(R)
    BY FS_EmptySet, Zenon
  <1> HIDE DEF L, l, R, r
  <1>4. BufInv([b EXCEPT !.lost = L, !.lostOut = l, !.retrans = R, !.retransOut = r])
    BY <1>2, <1>3, WithLostRetrans, Zenon
  <1> QED
    BY <1>1, <1>4, Zenon

\* MarkHeadAsLost.
LEMMA HeadLostInv ==
    ASSUME NEW b, BufInv(b), b.una < b.nxt
    PROVE  BufInv(MarkHeadAsLost(b))
  <1> DEFINE H == {b.una}
             S == b.sacked \ H
             s == b.sackedOut - Cardinality(b.sacked \cap H)
             R == b.retrans \ H
             r == b.retransOut - Cardinality(b.retrans \cap H)
             L == b.lost \cup H
             l == b.lostOut + Cardinality(H \ b.lost)
             c == [b EXCEPT !.sacked = S, !.sackedOut = s, !.retrans = R,
                            !.retransOut = r, !.lost = L, !.lostOut = l]
  <1>1. MarkHeadAsLost(b) = c
    <2>1. b.una # b.nxt
      BY InvParts, SMT DEF BufferRecords
    <2> QED
      BY <2>1 DEF MarkHeadAsLost
  <1>2. PartsOK(b.una, b.nxt, b.end, S, L, R, b.highestSack)
    <2>1. BufParts(b)
      BY InvParts
    <2>2. S = b.sacked
      BY <2>1 DEF BufParts, PartsOK
    <2>3. b.una \in b.una .. b.nxt - 1
      BY <2>1, SMT DEF BufParts, PartsOK
    <2>4. /\ L \subseteq b.una .. b.nxt - 1 /\ R \subseteq b.una .. b.nxt - 1
          /\ L \cap S = {}
      BY <2>1, <2>2, <2>3 DEF BufParts, PartsOK
    <2> HIDE DEF L, R, S
    <2> QED
      BY <2>1, <2>2, <2>4 DEF BufParts, PartsOK
  <1>3. s = Cardinality(S) /\ r = Cardinality(R) /\ l = Cardinality(L)
    <2>1. /\ IsFiniteSet(b.sacked) /\ b.sackedOut = Cardinality(b.sacked)
          /\ IsFiniteSet(b.lost) /\ b.lostOut = Cardinality(b.lost)
          /\ IsFiniteSet(b.retrans) /\ b.retransOut = Cardinality(b.retrans)
      BY FlagsFinite, Zenon DEF BufInv, ConsistencyCheck
    <2>2. s = Cardinality(S) /\ r = Cardinality(R)
      <3> HIDE DEF H
      <3> QED
        BY <2>1, RemainderCardinality, Zenon
    <2>3. IsFiniteSet(H)
      BY FS_Singleton, Zenon
    <2>4. IsFiniteSet(H \ b.lost)
      BY <2>3, FS_Difference, Zenon
    <2>5. b.lost \cap (H \ b.lost) = {} /\ b.lost \cup (H \ b.lost) = L
      OBVIOUS
    <2>6. l = Cardinality(b.lost \cup (H \ b.lost))
      <3> HIDE DEF H
      <3> QED
        BY <2>1, <2>4, <2>5, DisjointCardinality, Zenon
    <2> QED
      BY <2>2, <2>5, <2>6, Zenon
  <1> HIDE DEF S, s, R, r, L, l
  <1>4. BufInv(c)
    BY <1>2, <1>3, WithFlags, Zenon
  <1> QED
    BY <1>1, <1>4, Zenon

\* What the operators do to the window and to the flags, field by field.
LEMMA CopyFrame ==
    ASSUME NEW b \in BufferRecords, NEW s, NEW c, c = CopyFromSequence(b, s)
    PROVE  /\ c.una = b.una /\ c.end = b.end
           /\ c.nxt = IF s < b.nxt THEN b.nxt ELSE b.nxt + 1
           /\ c.sacked = b.sacked /\ c.lost = b.lost
           /\ c.retrans = IF s < b.nxt THEN b.retrans \cup {s} ELSE b.retrans
  <1>1. CASE s < b.nxt
    <2>1. CASE s \in b.retrans
      BY <1>1, <2>1 DEF CopyFromSequence, GetTransmittedSegment
    <2>2. CASE s \notin b.retrans
      BY <1>1, <2>2 DEF CopyFromSequence, GetTransmittedSegment, BufferRecords
    <2> QED
      BY <2>1, <2>2
  <1>2. CASE ~ (s < b.nxt)
    BY <1>2 DEF CopyFromSequence, GetNewSegment, BufferRecords
  <1> QED
    BY <1>1, <1>2

LEMMA DiscardFrame ==
    ASSUME NEW b \in BufferRecords, NEW a \in Nat, b.una <= a,
           NEW c, c = DiscardUpTo(b, a)
    PROVE  /\ c.una = a /\ c.nxt = b.nxt /\ c.end = b.end
           /\ c.sacked = b.sacked \ (b.una .. a - 1)
           /\ c.lost = b.lost \ (b.una .. a - 1)
           /\ c.retrans = b.retrans \ (b.una .. a - 1)
  <1>0. b.una \in Nat
    BY DEF BufferRecords
  <1>1. CASE b.una >= a
    <2>1. c = b /\ b.una = a /\ b.una .. a - 1 = {}
      BY <1>0, <1>1, SMT DEF DiscardUpTo
    <2> QED
      BY <2>1
  <1>2. CASE ~ (b.una >= a)
    BY <1>2 DEF DiscardUpTo, BufferRecords
  <1> QED
    BY <1>1, <1>2

LEMMA TimeoutFrame ==
    ASSUME NEW b \in BufferRecords, NEW c, c = SetSentListLost(b)
    PROVE  /\ c.una = b.una /\ c.nxt = b.nxt /\ c.end = b.end
           /\ c.sacked = b.sacked
           /\ c.lost = SentList(b) \ b.sacked
           /\ c.retrans = {} /\ c.retransOut = 0
  BY DEF SetSentListLost, BufferRecords

LEMMA HeadLostFrame ==
    ASSUME NEW b \in BufferRecords, NEW c, c = MarkHeadAsLost(b)
    PROVE  /\ c.una = b.una /\ c.nxt = b.nxt /\ c.end = b.end
           /\ c.sacked \subseteq b.sacked
  <1>1. CASE b.una = b.nxt
    BY <1>1 DEF MarkHeadAsLost
  <1>2. CASE b.una # b.nxt
    BY <1>2 DEF MarkHeadAsLost, BufferRecords
  <1> QED
    BY <1>1, <1>2

\* What left the network is no more than what was sent.
LEMMA PipeSound ==
    ASSUME NEW b, BufInv(b)
    PROVE  /\ b.sackedOut + b.lostOut = Cardinality(b.sacked \cup b.lost)
           /\ Cardinality(SentList(b)) = SentSize(b)
           /\ NoUnderflow(b)
  <1>1. /\ IsFiniteSet(b.sacked) /\ Cardinality(b.sacked) \in Nat
        /\ IsFiniteSet(b.lost) /\ Cardinality(b.lost) \in Nat
        /\ IsFiniteSet(SentList(b))
    BY FlagsFinite, Zenon DEF BufInv
  <1>2. b.sacked \cap b.lost = {} /\ b.sacked \cup b.lost \subseteq SentList(b)
    BY DEF BufInv, LostXorSacked, Shape
  <1>3. b.sackedOut + b.lostOut = Cardinality(b.sacked \cup b.lost)
    <2>1. b.sackedOut = Cardinality(b.sacked) /\ b.lostOut = Cardinality(b.lost)
      BY DEF BufInv, ConsistencyCheck
    <2> QED
      BY <1>1, <1>2, <2>1, DisjointCardinality, Zenon
  <1>4. Cardinality(b.sacked \cup b.lost) <= Cardinality(SentList(b))
    BY <1>1, <1>2, FS_Subset, Zenon
  <1>5. Cardinality(SentList(b)) = SentSize(b)
    <2>1. b.una \in Int /\ b.nxt \in Int /\ b.una <= b.nxt
      BY SMT DEF BufInv, Shape, BufferRecords
    <2>2. Cardinality(b.una .. b.nxt - 1)
            = IF b.una > b.nxt - 1 THEN 0 ELSE (b.nxt - 1) - b.una + 1
      BY <2>1, FS_Interval, SMT
    <2> QED
      BY <2>1, <2>2, SMT DEF SentList, SentSize
  <1> QED
    BY <1>3, <1>4, <1>5 DEF NoUnderflow

\* After a timeout the head is eligible under rule (1), and the smallest.
LEMMA HeadFirst ==
    ASSUME NEW b, BufInv(b), b.una < b.nxt, b.lost = SentList(b) \ b.sacked,
           b.retrans = {}, NEW rWnd, NEW rec
    PROVE  NextSeg(b, rWnd, rec) = b.una
  <1> DEFINE eligible == {s \in SentList(b) :
                            /\ s \notin b.retrans \cup b.sacked
                            /\ b.highestSack # NoSack => s < b.highestSack}
             E == eligible \cap b.lost
  <1>1. BufParts(b)
    BY InvParts
  <1>2. /\ b.una \in Int /\ b.una \in SentList(b)
        /\ \A s \in SentList(b) : s \in Int /\ b.una <= s
    BY <1>1, SMT DEF BufParts, PartsOK, SentList
  <1>3. b.highestSack # NoSack => b.una < b.highestSack
    <2> SUFFICES ASSUME b.highestSack # 0 PROVE b.una < b.highestSack
      BY DEF NoSack
    <2>1. b.highestSack \in b.sacked /\ b.una \notin b.sacked
      BY <1>1 DEF BufParts, PartsOK
    <2>2. b.highestSack \in SentList(b)
      BY <1>1, <2>1 DEF BufParts, PartsOK, SentList
    <2> QED
      BY <1>2, <2>1, <2>2, SMT
  <1>4. b.una \in E
    BY <1>1, <1>2, <1>3 DEF BufParts, PartsOK
  <1>5. \A s \in E : s \in Int /\ b.una <= s
    BY <1>2
  <1>6. NextSeg(b, rWnd, rec) = Min(E)
    <2>1. E # {}
      BY <1>4
    <2> QED
      BY <2>1, Zenon DEF NextSeg
  <1> HIDE DEF E
  <1>7. Min(E) \in E /\ \A y \in E : Min(E) <= y
    BY <1>4, <1>5, Zenon DEF Min
  <1>8. Min(E) \in Int /\ b.una <= Min(E) /\ Min(E) <= b.una
    BY <1>4, <1>5, <1>7, Zenon
  <1>9. Min(E) = b.una
    <2> HIDE DEF Min
    <2> QED
      BY <1>2, <1>8, SMT
  <1> QED
    BY <1>6, <1>9, Zenon

-----------------------------------------------------------------------------
(* The theorems.                                                            *)

\* The invariant of the buffer, and the bound of the instance.
ScoreboardInv == BufInv(buf) /\ buf.end <= MaxSeq + 1

\* The empty buffer of a new socket.
LEMMA InitInv == ScoreboardInit => ScoreboardInv
  <1> SUFFICES ASSUME ScoreboardInit PROVE ScoreboardInv
    OBVIOUS
  <1>1. buf = EmptyBuffer
    BY DEF ScoreboardInit
  <1>2. EmptyBuffer \in BufferRecords
    BY SMT DEF EmptyBuffer, BufferRecords, NoSack
  <1>3. ConsistencyCheck(EmptyBuffer)
    BY FS_EmptySet DEF EmptyBuffer, ConsistencyCheck
  <1>4. BufParts(EmptyBuffer)
    BY SMT DEF EmptyBuffer, BufParts, PartsOK, NoSack
  <1>5. buf.end <= MaxSeq + 1
    BY <1>1, SeqAssumption, SMT DEF EmptyBuffer
  <1> QED
    BY <1>1, <1>2, <1>3, <1>4, <1>5, PartsInv DEF ScoreboardInv

\* One step per call the socket makes.
LEMMA NextInv == ScoreboardInv /\ [ScoreboardNext]_buf => ScoreboardInv'
  <1> SUFFICES ASSUME BufInv(buf), buf.end <= MaxSeq + 1, [ScoreboardNext]_buf
               PROVE  BufInv(buf') /\ buf'.end <= MaxSeq + 1
    BY DEF ScoreboardInv
  <1>0. buf \in BufferRecords
    BY InvParts
  <1>1. CASE AppSend
    <2>1. BufInv(buf')
      BY <1>1, AddInv DEF AppSend
    <2>2. buf'.end = buf.end + 1
      BY <1>0, <1>1 DEF AppSend, Add, BufferRecords
    <2> QED
      BY <1>0, <1>1, <2>1, <2>2, SeqAssumption DEF AppSend, BufferRecords
  <1>2. CASE SendNew
    BY <1>0, <1>2, CopyNewInv, CopyFrame DEF SendNew
  <1>3. CASE SendAgain
    <2>1. PICK s : s \in SentList(buf) /\ buf' = CopyFromSequence(buf, s)
      BY <1>3 DEF SendAgain
    <2> QED
      BY <1>0, <2>1, CopyOldInv, CopyFrame
  <1>4. CASE ReceiveAck
    <2>0. PICK a \in buf.una .. buf.nxt :
             \E B \in SUBSET (a + 1 .. buf.nxt - 1) :
                a \notin buf.sacked /\ buf' = DiscardUpTo(Update(buf, B), a)
      BY <1>4 DEF ReceiveAck
    <2>1. PICK B \in SUBSET (a + 1 .. buf.nxt - 1) :
             a \notin buf.sacked /\ buf' = DiscardUpTo(Update(buf, B), a)
      BY <2>0
    <2>2. B \subseteq buf.una + 1 .. buf.nxt - 1 /\ a \notin B
      BY InvParts, SMT DEF BufferRecords
    <2> DEFINE u == Update(buf, B)
    <2>3. /\ BufInv(u) /\ u.una = buf.una /\ u.nxt = buf.nxt /\ u.end = buf.end
          /\ u.sacked = buf.sacked \cup NewlySacked(buf, B)
      BY <2>2, UpdateInv
    <2> HIDE DEF u
    <2>4. a \in u.una .. u.nxt /\ a \notin u.sacked
      BY <2>1, <2>2, <2>3 DEF NewlySacked
    <2>5. BufInv(DiscardUpTo(u, a))
      BY <2>3, <2>4, DiscardInv
    <2>6. DiscardUpTo(u, a).end = u.end
      <3>1. u \in BufferRecords /\ a \in Nat /\ u.una <= a
        BY <1>0, <2>3, <2>4, InvParts, SMT DEF BufferRecords
      <3> QED
        BY <3>1, DiscardFrame
    <2> QED
      BY <2>1, <2>3, <2>5, <2>6 DEF u
  <1>5. CASE Timeout
    BY <1>0, <1>5, TimeoutInv, TimeoutFrame DEF Timeout
  <1>6. CASE HeadLost
    BY <1>0, <1>6, HeadLostInv, HeadLostFrame DEF HeadLost
  <1>7. CASE UNCHANGED buf
    BY <1>7
  <1> QED
    BY <1>1, <1>2, <1>3, <1>4, <1>5, <1>6, <1>7 DEF ScoreboardNext

\* The invariant gives the properties the runs check.
LEMMA InvImplies ==
    ASSUME ScoreboardInv
    PROVE  /\ BufferTypeOK /\ CountsConsistent /\ PipeNeverWraps
           /\ SackPointerSound /\ TimeoutFindsHead
  <1> USE DEF ScoreboardInv
  <1>1. BufferTypeOK
    <2>1. BufParts(buf) /\ buf \in BufferRecords
      BY InvParts
    <2>2. /\ buf.una \in 1 .. MaxSeq + 1 /\ buf.nxt \in 1 .. MaxSeq + 1
          /\ buf.end \in 1 .. MaxSeq + 1
      BY <2>1, SeqAssumption DEF BufParts, PartsOK
    <2>3. /\ buf.sacked \subseteq Segments /\ buf.lost \subseteq Segments
          /\ buf.retrans \subseteq Segments
      BY <2>1, <2>2, SeqAssumption DEF BufParts, PartsOK, Segments
    <2>4. buf.highestSack \in 0 .. MaxSeq
      BY <2>1, <2>3, SeqAssumption DEF BufParts, PartsOK, Segments
    <2>5. buf \in Buffers
      BY <2>1, <2>2, <2>3, <2>4 DEF BufferRecords, Buffers
    <2> QED
      BY <2>5 DEF BufInv, Shape, BufferTypeOK
  <1>2. CountsConsistent /\ SackPointerSound
    BY DEF BufInv, CountsConsistent, SackPointerSound
  <1>3. PipeNeverWraps
    BY PipeSound DEF BufInv, PipeNeverWraps
  <1>4. TimeoutFindsHead
    BY HeadFirst DEF TimeoutFindsHead
  <1> QED
    BY <1>1, <1>2, <1>3, <1>4

\* The inductive invariant holds throughout.
THEOREM BufferInvariant == ScoreboardSpec => []ScoreboardInv
  BY InitInv, NextInv, PTL DEF ScoreboardSpec

\* The flags of TcpTxBuffer belong to sent items, in every state.
THEOREM BufferTypeCorrect == ScoreboardSpec => []BufferTypeOK
  <1>1. ScoreboardInv => BufferTypeOK
    BY InvImplies
  <1> QED
    BY <1>1, BufferInvariant, PTL

\* ConsistencyCheck never fails: the counts behind BytesInFlight equal the
\* flags after any sequence of SACKs, ACKs, retransmissions and timeouts.
THEOREM CountsAlwaysConsistent == ScoreboardSpec => []CountsConsistent
  <1>1. ScoreboardInv => CountsConsistent
    BY InvImplies
  <1> QED
    BY <1>1, BufferInvariant, PTL

\* The assertions of Update, DiscardUpTo and BytesInFlight never fail: the
\* head is not SACKed, no item is lost and SACKed, the pipe does not wrap.
THEOREM PipeAlwaysSound == ScoreboardSpec => []PipeNeverWraps
  <1>1. ScoreboardInv => PipeNeverWraps
    BY InvImplies
  <1> QED
    BY <1>1, BufferInvariant, PTL

\* m_sackSeen and m_highestSack never outlive the SACKed items.
THEOREM SackPointerAlwaysSound == ScoreboardSpec => []SackPointerSound
  <1>1. ScoreboardInv => SackPointerSound
    BY InvImplies
  <1> QED
    BY <1>1, BufferInvariant, PTL

\* After every timeout NextSeg returns the head, so ReTxTimeout sends a
\* segment and arms its timer again.
THEOREM TimeoutAlwaysFindsHead == ScoreboardSpec => []TimeoutFindsHead
  <1>1. ScoreboardInv => TimeoutFindsHead
    BY InvImplies
  <1> QED
    BY <1>1, BufferInvariant, PTL
=============================================================================
