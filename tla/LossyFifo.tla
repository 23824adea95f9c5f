----------------------------- MODULE LossyFifo ------------------------------
(***************************************************************************)
(* What the layers below IP promise to it on one link: packets come out in *)
(* the order they went in, at most once each, and some never do.           *)
(* A packet is lost when it is handed over or at the far end, never in     *)
(* between.                                                                *)
(***************************************************************************)
EXTENDS Naturals, Sequences

CONSTANT Packets   \* how many packets are handed over, numbered in order

VARIABLES
    handed,     \* packets handed over so far
    inside,     \* the packets under way
    delivered   \* the packets that came out

fifoVars == <<handed, inside, delivered>>

FifoInit == handed = 0 /\ inside = <<>> /\ delivered = <<>>

\* A packet is handed over, and stays or is dropped.
Hand ==
    /\ handed < Packets
    /\ handed' = handed + 1
    /\ inside' \in {inside, Append(inside, handed + 1)}
    /\ UNCHANGED delivered

\* The oldest packet comes out, or is found corrupt.
ComeOut ==
    /\ inside # <<>>
    /\ inside' = Tail(inside)
    /\ delivered' \in {delivered, Append(delivered, Head(inside))}
    /\ UNCHANGED handed

FifoNext == Hand \/ ComeOut

FifoSpec == FifoInit /\ [][FifoNext]_fifoVars
=============================================================================
