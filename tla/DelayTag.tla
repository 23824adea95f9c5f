------------------------------ MODULE DelayTag ------------------------------
(***************************************************************************)
(* How Swift learns the delay and the length of a path: every node that    *)
(* receives an IP packet updates the MyDelayTag it carries                 *)
(* (src/src/internet/model/ipv4-l3-protocol.cc, scratch/Swift/             *)
(* my-delay-tag.h), and the socket it is for reads the tag in ForwardUp    *)
(* (tcp-socket-base.cc) into tcb->m_maxDelay and tcb->m_hops; when the     *)
(* packet makes Swift update its window, m_maxDelay starts again.          *)
(*                                                                         *)
(* Packets travel independently, over paths of different lengths, and may  *)
(* be dropped.  `times` is the history of a packet: when each node got it. *)
(***************************************************************************)
EXTENDS Integers, Sequences, FiniteSetsExt

CONSTANTS
    Packets,   \* packets for this socket
    None,      \* no packet
    MaxPath,   \* bound: nodes that receive a packet, the destination included
    MaxTime,   \* bound: the clock
    Garbage    \* what the memory of m_maxDelay and m_hops may hold

ASSUME TagAssumption ==
    /\ None \notin Packets
    /\ MaxPath \in Nat \ {0}
    /\ MaxTime \in Nat
    /\ Garbage \subseteq Nat /\ Garbage # {}

VARIABLES
    now,        \* Simulator::Now()
    pkts,       \* the packets: waiting, travelling or gone
    maxDelay,   \* tcb->m_maxDelay
    hops,       \* tcb->m_hops
    base,       \* history: the value m_maxDelay started from
    delivered,  \* history: the packets the socket took since it started
    newest      \* history: the packet the socket took last, None before

vars == <<now, pkts, maxDelay, hops, base, delivered, newest>>

States == {"waiting", "travelling", "delivered", "dropped"}
NoTag == [lastHop |-> 0, maxDelay |-> 0, hops |-> 0, present |-> FALSE]

\* TcpSocketState does not initialise the two fields.
Init ==
    /\ now = 0
    /\ pkts = [p \in Packets |-> [state |-> "waiting", path |-> MaxPath,
                                  tag |-> NoTag, times |-> <<>>]]
    /\ maxDelay \in Garbage /\ hops \in Garbage
    /\ base = maxDelay
    /\ delivered = {}
    /\ newest = None

\* The peer sends a packet over a path of n nodes.
Send(p) ==
    /\ pkts[p].state = "waiting"
    /\ \E n \in 1 .. MaxPath :
          pkts' = [pkts EXCEPT ![p].state = "travelling", ![p].path = n]
    /\ UNCHANGED <<now, maxDelay, hops, base, delivered, newest>>

\* The tag of a packet that has none.  AddHops comes after AddPacketTag has
\* copied the tag into the packet, so it does not count.
FirstTag == [lastHop |-> now, maxDelay |-> 0, hops |-> 0, present |-> TRUE]

UpdatedTag(tag) ==
    [tag EXCEPT !.maxDelay = Max({@, now - tag.lastHop}), !.hops = @ + 1,
                !.lastHop = now]

TagOnReceive(tag) == IF tag.present THEN UpdatedTag(tag) ELSE FirstTag

\* Mutant: the maximum survives the update of the window.
WindowUpdateKeepingMax ==
    /\ UNCHANGED maxDelay
    /\ base' = 0 /\ delivered' = {}

\* The last lines of SwiftUpdateCwndOnAck.
WindowUpdate ==
    /\ maxDelay' = 0
    /\ base' = 0 /\ delivered' = {}

\* The socket reads the tag and handles the packet, which may be the ACK that
\* calls IncreaseWindow; of a segment outside its window it reads nothing.
ForwardUp(p, tag) ==
    \/ /\ hops' = tag.hops
       /\ newest' = p
       /\ \/ WindowUpdate
          \/ /\ maxDelay' = Max({maxDelay, tag.maxDelay})
             /\ delivered' = delivered \cup {p}
             /\ UNCHANGED base
    \/ UNCHANGED <<maxDelay, hops, base, delivered, newest>>

\* Ipv4L3Protocol::Receive at the next node of the path: a router forwards the
\* packet, the last node hands it to the socket before anything else happens.
Receive(p) ==
    LET tag  == TagOnReceive(pkts[p].tag)
        last == Len(pkts[p].times) + 1 = pkts[p].path
    IN  /\ pkts[p].state = "travelling"
        /\ pkts' = [pkts EXCEPT ![p].tag = tag, ![p].times = Append(@, now),
                                ![p].state = IF last THEN "delivered" ELSE @]
        /\ IF last THEN ForwardUp(p, tag)
                   ELSE UNCHANGED <<maxDelay, hops, base, delivered, newest>>
        /\ UNCHANGED now

\* A queue on the path drops the packet.
Drop(p) ==
    /\ pkts[p].state = "travelling"
    /\ pkts' = [pkts EXCEPT ![p].state = "dropped"]
    /\ UNCHANGED <<now, maxDelay, hops, base, delivered, newest>>

Tick ==
    /\ now < MaxTime
    /\ now' = now + 1
    /\ UNCHANGED <<pkts, maxDelay, hops, base, delivered, newest>>

Next ==
    \/ \E p \in Packets : Send(p) \/ Receive(p) \/ Drop(p)
    \/ Tick

Spec == Init /\ [][Next]_vars

-----------------------------------------------------------------------------
(* Properties.                                                              *)

\* The delays between the nodes that received the packet.
Delays(p) ==
    {pkts[p].times[i + 1] - pkts[p].times[i] : i \in 1 .. Len(pkts[p].times) - 1}

\* tcb->m_maxDelay is the largest delay between two nodes met by any packet
\* the socket took since Swift last updated the window, whatever the paths, the
\* order of delivery and the packets dropped or refused; until the first update it also
\* covers what the uninitialised memory held.
MaxDelayIsLargest ==
    maxDelay = Max({base, 0} \cup UNION {Delays(p) : p \in delivered})

\* tcb->m_hops is the number of hops the packet that the socket took last has
\* traversed, as my-delay-tag.h says of the tag's m_hops, over whichever path:
\* each node that received it ends one hop.  The code is one short of it.
HopsTraversed ==
    newest # None => hops = Len(pkts[newest].times)
=============================================================================
