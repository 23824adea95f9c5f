---------------------------- MODULE TcpTxBuffer -----------------------------
(***************************************************************************)
(* The transmission buffer and SACK scoreboard of                          *)
(* src/src/internet/model/tcp-tx-buffer.{h,cc}, as operators on a record b *)
(* for a connection with SACK enabled.  Sequence numbers count segments:   *)
(* every item is one full segment, so items are never split or merged.     *)
(*                                                                         *)
(*   b.una          m_firstByteSeq                                         *)
(*   b.nxt          m_firstByteSeq + m_sentSize, first of m_appList        *)
(*   b.end          TailSequence()                                         *)
(*   b.sacked, b.lost, b.retrans      the items with that flag set         *)
(*   b.sackedOut, b.lostOut, b.retransOut                                  *)
(*                  m_sackedOut, m_lostOut, m_retrans: the running counts  *)
(*   b.highestSack  m_highestSack.second; NoSack when m_sackSeen is false  *)
(*                                                                         *)
(* The counts are kept beside the flags and updated by increments, as the  *)
(* code does: nothing but the discipline of the operators ties the two.    *)
(***************************************************************************)
EXTENDS Integers, FiniteSetsExt

CONSTANTS
    DupAckThresh,  \* m_dupAckThresh, SACKed items above a hole that make it lost
    MaxBuffer      \* m_maxBuffer, segments

ASSUME BufferAssumption ==
    /\ DupAckThresh \in Nat \ {0}
    /\ MaxBuffer \in Nat \ {0}

\* Segments are numbered from 1, so 0 is no segment.
NoSack == 0

EmptyBuffer ==
    [una |-> 1, nxt |-> 1, end |-> 1, sacked |-> {}, lost |-> {}, retrans |-> {},
     sackedOut |-> 0, lostOut |-> 0, retransOut |-> 0, highestSack |-> NoSack]

SentList(b) == b.una .. b.nxt - 1
SentSize(b) == b.nxt - b.una
Size(b) == b.end - b.una

\* TailSequence() - seq, or 0 beyond the tail.
SizeFromSequence(b, seq) == IF b.end >= seq THEN b.end - seq ELSE 0

\* Add() accepts one more segment while it has room.
CanAdd(b) == Size(b) < MaxBuffer
Add(b) == [b EXCEPT !.end = @ + 1]

-----------------------------------------------------------------------------
(* CopyFromSequence: a new item moves from the app list to the sent list, a *)
(* sent one is flagged as retransmitted, once.                              *)

GetNewSegment(b) == [b EXCEPT !.nxt = @ + 1]

GetTransmittedSegment(b, seq) ==
    IF seq \in b.retrans THEN b
    ELSE [b EXCEPT !.retrans = @ \cup {seq}, !.retransOut = @ + 1]

CopyFromSequence(b, seq) ==
    IF seq < b.nxt THEN GetTransmittedSegment(b, seq) ELSE GetNewSegment(b)

-----------------------------------------------------------------------------
(* A cumulative ACK.                                                        *)

IsRetransmittedDataAcked(b, ack) ==
    ack - 1 \in SentList(b) /\ ack - 1 \notin b.sacked /\ ack - 1 \in b.retrans

\* Mutant: RemoveFromCounts forgets the retransmitted items.
DiscardUpToKeepingRetrans(b, ack) ==
    LET gone == b.una .. ack - 1
    IN  IF b.una >= ack THEN b
        ELSE [b EXCEPT
                !.una = ack,
                !.sacked = @ \ gone, !.sackedOut = @ - Cardinality(b.sacked \cap gone),
                !.lost = @ \ gone,   !.lostOut = @ - Cardinality(b.lost \cap gone),
                !.retrans = @ \ gone,
                !.highestSack = IF @ <= ack THEN NoSack ELSE @]

\* Mutant: m_sackSeen and m_highestSack survive the SACKed items.
DiscardUpToKeepingSackSeen(b, ack) ==
    LET gone == b.una .. ack - 1
    IN  IF b.una >= ack THEN b
        ELSE [b EXCEPT
                !.una = ack,
                !.sacked = @ \ gone,  !.sackedOut = @ - Cardinality(b.sacked \cap gone),
                !.lost = @ \ gone,    !.lostOut = @ - Cardinality(b.lost \cap gone),
                !.retrans = @ \ gone, !.retransOut = @ - Cardinality(b.retrans \cap gone)]

\* Every item before ack leaves with its share of the counts.  The branch for
\* a SACKed new head is left out: it serves the Reno guesses, and with SACK
\* the head is never SACKed (HeadNotSacked below).
DiscardUpTo(b, ack) ==
    LET gone == b.una .. ack - 1
    IN  IF b.una >= ack THEN b
        ELSE [b EXCEPT
                !.una = ack,
                !.sacked = @ \ gone,  !.sackedOut = @ - Cardinality(b.sacked \cap gone),
                !.lost = @ \ gone,    !.lostOut = @ - Cardinality(b.lost \cap gone),
                !.retrans = @ \ gone, !.retransOut = @ - Cardinality(b.retrans \cap gone),
                !.highestSack = IF @ <= ack THEN NoSack ELSE @]

-----------------------------------------------------------------------------
(* A SACK option.                                                           *)

\* The unSACKed items that have DupAckThresh SACKed ones between them and
\* highestSack become lost; an item that is lost stays lost.
UpdateLostCount(b) ==
    LET above(s) == {t \in b.sacked : s < t /\ t <= b.highestSack}
        found == {s \in SentList(b) : /\ s \notin b.sacked \cup b.lost
                                      /\ Cardinality(above(s)) >= DupAckThresh}
    IN  [b EXCEPT !.lost = @ \cup found, !.lostOut = @ + Cardinality(found)]

\* The items of `blocks` that Update flags.
NewlySacked(b, blocks) == (blocks \cap SentList(b)) \ b.sacked

\* Mutant: a lost item that turns out to be received stays marked as lost.
UpdateKeepingLost(b, blocks) ==
    LET new == NewlySacked(b, blocks)
        top == Max(new)
        flagged ==
            [b EXCEPT
               !.sacked = @ \cup new, !.sackedOut = @ + Cardinality(new),
               !.highestSack = IF @ = NoSack \/ @ <= top + 1 THEN top ELSE @]
    IN  IF new = {} THEN b ELSE UpdateLostCount(flagged)

\* The comparison with highestSack uses the END of the item, so the segment
\* just below the highest one replaces it when it is SACKed later.
Update(b, blocks) ==
    LET new == NewlySacked(b, blocks)
        top == Max(new)
        flagged ==
            [b EXCEPT
               !.sacked = @ \cup new, !.sackedOut = @ + Cardinality(new),
               !.lost = @ \ new,      !.lostOut = @ - Cardinality(b.lost \cap new),
               !.highestSack = IF @ = NoSack \/ @ <= top + 1 THEN top ELSE @]
    IN  IF new = {} THEN b ELSE UpdateLostCount(flagged)

IsLost(b, seq) == seq < b.highestSack /\ seq \in b.lost

-----------------------------------------------------------------------------
(* A timeout, and the third duplicate ACK.                                  *)

\* Mutant: what was retransmitted before the timeout stays marked, and counted.
SetSentListLostKeepingRetrans(b) ==
    LET rest == SentList(b) \ b.sacked
    IN  [b EXCEPT !.lost = rest, !.lostOut = Cardinality(rest)]

\* SetSentListLost(resetSack = false).
SetSentListLost(b) ==
    LET rest == SentList(b) \ b.sacked
    IN  [b EXCEPT !.lost = rest, !.lostOut = Cardinality(rest),
                  !.retrans = {}, !.retransOut = 0]

MarkHeadAsLost(b) ==
    IF b.una = b.nxt THEN b
    ELSE [b EXCEPT
            !.sacked = @ \ {b.una},  !.sackedOut = @ - Cardinality(b.sacked \cap {b.una}),
            !.retrans = @ \ {b.una}, !.retransOut = @ - Cardinality(b.retrans \cap {b.una}),
            !.lost = @ \cup {b.una}, !.lostOut = @ + Cardinality({b.una} \ b.lost)]

IsHeadRetransmitted(b) == b.una \in b.retrans

-----------------------------------------------------------------------------
(* What to send next, and how much is in flight.                            *)

\* Rules (1) to (3) of NextSeg; NoSegment where the code returns false.  When
\* there is unsent data but no receiver window, rule (3) is not tried.
NoSegment == 0

\* Mutant: without the case !m_sackSeen of rule (1.b).
NextSegOnlyAfterSack(b, rWnd, isRecovery) ==
    LET eligible == {s \in SentList(b) : /\ s \notin b.retrans \cup b.sacked
                                         /\ s < b.highestSack}
        first(S) == IF S = {} THEN NoSegment ELSE Min(S)
    IN  IF eligible \cap b.lost # {} THEN first(eligible \cap b.lost)
        ELSE IF b.nxt < b.end THEN (IF SentSize(b) < rWnd THEN b.nxt ELSE NoSegment)
        ELSE IF isRecovery THEN first(eligible)
        ELSE NoSegment

\* Mutant: rule (1.a), "has not been retransmitted", is dropped.
NextSegAgain(b, rWnd, isRecovery) ==
    LET eligible == {s \in SentList(b) : /\ s \notin b.sacked
                                         /\ b.highestSack # NoSack => s < b.highestSack}
        first(S) == IF S = {} THEN NoSegment ELSE Min(S)
    IN  IF eligible \cap b.lost # {} THEN first(eligible \cap b.lost)
        ELSE IF b.nxt < b.end THEN (IF SentSize(b) < rWnd THEN b.nxt ELSE NoSegment)
        ELSE IF isRecovery THEN first(eligible)
        ELSE NoSegment

NextSeg(b, rWnd, isRecovery) ==
    LET eligible == {s \in SentList(b) : /\ s \notin b.retrans \cup b.sacked
                                         /\ b.highestSack # NoSack => s < b.highestSack}
        first(S) == IF S = {} THEN NoSegment ELSE Min(S)
    IN  IF eligible \cap b.lost # {} THEN first(eligible \cap b.lost)
        ELSE IF b.nxt < b.end THEN (IF SentSize(b) < rWnd THEN b.nxt ELSE NoSegment)
        ELSE IF isRecovery THEN first(eligible)
        ELSE NoSegment

BytesInFlight(b) == SentSize(b) - (b.sackedOut + b.lostOut) + b.retransOut

-----------------------------------------------------------------------------
(* What the class asserts of itself, as predicates of b.                    *)

\* ConsistencyCheck(), which the code compiles but never enables: the running
\* counts are the numbers of flagged items.
ConsistencyCheck(b) ==
    /\ b.sackedOut = Cardinality(b.sacked)
    /\ b.lostOut = Cardinality(b.lost)
    /\ b.retransOut = Cardinality(b.retrans)

\* The assertions of Update, DiscardUpTo and BytesInFlight: the head is never
\* SACKed, no item is both lost and SACKed, and what left the network is not
\* more than what was sent (the subtraction on uint32_t would wrap).
HeadNotSacked(b) == b.una \notin b.sacked
LostXorSacked(b) == b.lost \cap b.sacked = {}
NoUnderflow(b) == b.sackedOut + b.lostOut <= SentSize(b)

\* m_sackSeen is set exactly while some item is SACKed, highestSack is one of
\* them, and every item from it to the highest SACKed one is SACKed too.
HighestSackSound(b) ==
    /\ b.highestSack = NoSack <=> b.sacked = {}
    /\ b.highestSack # NoSack => b.highestSack \in b.sacked
    /\ \A t \in b.sacked : \A s \in b.highestSack .. t : s \in b.sacked
=============================================================================
