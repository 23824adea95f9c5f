--------------------------- MODULE TcpConnection ----------------------------
(***************************************************************************)
(* The life of one TCP connection: handshake, half close, simultaneous     *)
(* close, resets and the timers behind them (src/src/internet/model/       *)
(* tcp-socket-base.cc, tcp-l4-protocol.cc, tcp-rx-buffer.cc).  A client    *)
(* connects to a listening port; each side writes at most one segment.     *)
(* Applications read at once, so Close never finds unread data.            *)
(*                                                                         *)
(* Sequence numbers: 0 is the SYN, 1 the segment if there is one, and the  *)
(* FIN comes after it.  Every action is one event of the simulator.        *)
(***************************************************************************)
EXTENDS Integers, Sequences

CONSTANTS
    SynRetries,    \* m_synRetries
    DataRetries,   \* m_dataRetries
    Scripts,       \* bound: the calls each application may make on its socket
    MaxFaults      \* bound: segments dropped and timers that fire early

ASSUME ConnectionAssumption ==
    /\ SynRetries \in Nat \ {0} /\ DataRetries \in Nat
    /\ MaxFaults \in Nat
    /\ Scripts \subseteq [{"client", "server"} -> SUBSET {"Send", "ShutdownSend", "Close"}]

Peers == {"client", "server"}
Other(p) == IF p = "client" THEN "server" ELSE "client"

VARIABLES
    sock,       \* the two sockets; the server's is the one LISTEN forked
    listening,  \* does the port have a socket in LISTEN?
    net,        \* the segments on their way to each peer
    faults,     \* segments dropped and timers fired early so far
    app         \* the calls each application may still make

vars == <<sock, listening, net, faults, app>>

States == {"CLOSED", "SYN_SENT", "SYN_RCVD", "ESTABLISHED", "CLOSE_WAIT",
           "LAST_ACK", "FIN_WAIT_1", "FIN_WAIT_2", "CLOSING", "TIME_WAIT"}

\* A socket as its constructor (or Fork) leaves it.
NewSocket ==
    [state |-> "CLOSED", endPoint |-> FALSE,
     nextTx |-> 0, highTx |-> 0, una |-> 0, size |-> 0,
     rcvNext |-> 0, rxData |-> FALSE, gotFin |-> FALSE, finSeq |-> 0,
     synCount |-> 0, dataRetrCount |-> DataRetries,
     quickAck |-> FALSE, closeOnEmpty |-> FALSE, shutdownSend |-> FALSE,
     closeNotified |-> FALSE,
     retxEvent |-> "none", lastAckEvent |-> FALSE, timewaitEvent |-> FALSE,
     delAckEvent |-> FALSE, sendPendingDataEvent |-> FALSE,
     out |-> <<>>, failed |-> FALSE]

Init ==
    /\ sock = [p \in Peers |-> NewSocket]
    /\ listening = TRUE
    /\ net = [p \in Peers |-> <<>>]
    /\ faults = 0
    /\ app \in Scripts

\* One step of a handler after another: Step of what the first step left.
Then(s, Step(_)) == CHOOSE t \in {Step(x) : x \in {s}} : TRUE

-----------------------------------------------------------------------------
(* Leaving.                                                                 *)

CancelAllTimers(s) ==
    [s EXCEPT !.retxEvent = "none", !.lastAckEvent = FALSE, !.timewaitEvent = FALSE,
              !.delAckEvent = FALSE, !.sendPendingDataEvent = FALSE]

\* Mutant: the timers are left running.
DeallocateEndPointOnly(s) == [s EXCEPT !.endPoint = FALSE]

DeallocateEndPoint(s) == [CancelAllTimers(s) EXCEPT !.endPoint = FALSE]

CloseAndNotify(s) ==
    [DeallocateEndPoint(s) EXCEPT !.state = "CLOSED", !.closeNotified = TRUE]

TimeWait(s) ==
    [CancelAllTimers(s) EXCEPT !.state = "TIME_WAIT", !.closeNotified = TRUE,
                               !.timewaitEvent = TRUE]

-----------------------------------------------------------------------------
(* Sending.                                                                 *)

HasFin(kind) == kind = "FIN+ACK"
HasSyn(kind) == kind \in {"SYN", "SYN+ACK"}
HasAck(kind) == kind \in {"ACK", "SYN+ACK", "FIN+ACK", "RST+ACK"}

\* Mutant: after our FIN the peer's is acknowledged before it came.
EmptySegmentAckAhead(s, kind) ==
    LET afterFin == s.state \in {"FIN_WAIT_1", "LAST_ACK", "CLOSING"} /\ ~ HasFin(kind)
    IN  [kind |-> kind, len |-> 0, ack |-> IF afterFin THEN s.rcvNext + 1 ELSE s.rcvNext,
         seq |-> IF afterFin THEN s.nextTx + 1 ELSE s.nextTx]

\* The segment itself: a FIN counts in the sequence numbers of what follows.
EmptySegment(s, kind) ==
    LET afterFin == s.state \in {"FIN_WAIT_1", "LAST_ACK", "CLOSING"} /\ ~ HasFin(kind)
    IN  [kind |-> kind, len |-> 0, ack |-> s.rcvNext,
         seq |-> IF afterFin THEN s.nextTx + 1 ELSE s.nextTx]

\* Mutant: a SYN is not counted.
EmptySentUncounted(s, kind) ==
    [s EXCEPT !.out = Append(@, EmptySegment(s, kind)),
              !.delAckEvent = @ /\ ~ HasAck(kind),
              !.quickAck = @ /\ ~ HasAck(kind),
              !.retxEvent = IF @ = "none" /\ (HasSyn(kind) \/ HasFin(kind))
                            THEN kind ELSE @]

\* It is on its way: SYNs are counted, an ACK cancels the delayed one, a SYN
\* or FIN is guarded by the retransmission timer.
EmptySent(s, kind) ==
    [s EXCEPT !.out = Append(@, EmptySegment(s, kind)),
              !.synCount = IF HasSyn(kind) THEN @ - 1 ELSE @,
              !.delAckEvent = @ /\ ~ HasAck(kind),
              !.quickAck = @ /\ ~ HasAck(kind),
              !.retxEvent = IF @ = "none" /\ (HasSyn(kind) \/ HasFin(kind))
                            THEN kind ELSE @]

\* SYNs are limited by m_synCount; FINs are not limited.
SendEmptyPacket(s, kind) ==
    CASE ~ s.endPoint -> s
      [] s.endPoint /\ HasSyn(kind) /\ s.synCount = 0 ->
             [DeallocateEndPoint(s) EXCEPT !.state = "CLOSED"]
      [] OTHER -> EmptySent(s, kind)

SendRST(s) == DeallocateEndPoint(SendEmptyPacket(s, "RST"))

ResetAndClose(s) == CloseAndNotify(SendRST(s))

\* The data segment; it carries the FIN if the application has closed.
SendDataPacket(s) ==
    LET fin  == s.closeOnEmpty
        next == CASE fin /\ s.state = "ESTABLISHED" -> "FIN_WAIT_1"
                  [] fin /\ s.state = "CLOSE_WAIT"  -> "LAST_ACK"
                  [] OTHER -> s.state
    IN  [s EXCEPT !.state = next,
                  !.out = Append(@, [kind |-> IF fin THEN "FIN+ACK" ELSE "ACK", len |-> 1,
                                     seq |-> s.una, ack |-> s.rcvNext]),
                  !.nextTx = s.una + 1,
                  !.highTx = s.una + 1,
                  !.delAckEvent = FALSE, !.quickAck = FALSE,
                  !.retxEvent = IF @ = "none" THEN "data" ELSE @]

\* `resend`: a timeout has marked the head as lost (state CA_LOSS).  In state
\* CA_OPEN a socket in FIN_WAIT_1 sends nothing.
SendPendingData(s, resend) ==
    IF /\ s.size > 0 /\ s.endPoint
       /\ resend \/ (s.highTx = s.una /\ s.state # "FIN_WAIT_1")
    THEN SendDataPacket(s) ELSE s

-----------------------------------------------------------------------------
(* Closing.                                                                 *)

DoClose(s) ==
    CASE s.state \in {"SYN_RCVD", "ESTABLISHED"} ->
             [SendEmptyPacket(s, "FIN+ACK") EXCEPT !.state = "FIN_WAIT_1"]
      [] s.state = "CLOSE_WAIT" ->
             [SendEmptyPacket(s, "FIN+ACK") EXCEPT !.state = "LAST_ACK"]
      [] s.state \in {"SYN_SENT", "CLOSING"} -> ResetAndClose(s)
      [] OTHER -> s

\* With data that was never sent, Close waits for it.
Close(s) ==
    IF s.size > 0 /\ s.una + s.size > s.nextTx
    THEN [s EXCEPT !.closeOnEmpty = TRUE]
    ELSE DoClose(s)

ShutdownSend(s) ==
    LET shut == [s EXCEPT !.shutdownSend = TRUE, !.closeOnEmpty = TRUE]
    IN  IF s.size = 0 /\ s.state \in {"ESTABLISHED", "CLOSE_WAIT"}
        THEN DoClose(shut) ELSE shut

Finished(s) == s.gotFin /\ s.finSeq < s.rcvNext

\* Mutant: the FIN is taken although data before it is missing.
SetFinSequenceAtOnce(s, seq) ==
    [s EXCEPT !.gotFin = TRUE, !.finSeq = seq, !.rcvNext = seq + 1]

SetFinSequence(s, seq) ==
    [s EXCEPT !.gotFin = TRUE, !.finSeq = seq,
              !.rcvNext = IF @ = seq THEN @ + 1 ELSE @]

\* The FIN is in sequence.  `reacts`: the application calls Close from the
\* callback that tells it so.
DoPeerClose(s, reacts) ==
    LET wait  == [s EXCEPT !.state = "CLOSE_WAIT", !.closeNotified = TRUE,
                           !.failed = @ \/ s.state \notin {"ESTABLISHED", "SYN_RCVD",
                                                           "FIN_WAIT_1", "FIN_WAIT_2"}]
        told  == IF reacts /\ ~ s.closeNotified THEN Close(wait) ELSE wait
        Reply(x) == IF s.shutdownSend THEN Close(x) ELSE SendEmptyPacket(x, "ACK")
        Guard(x) == IF x.state = "LAST_ACK"
                    THEN [x EXCEPT !.dataRetrCount = DataRetries, !.lastAckEvent = TRUE]
                    ELSE x
    IN  Then(Then(told, Reply), Guard)

-----------------------------------------------------------------------------
(* Receiving.                                                               *)

\* TcpRxBuffer::Add of the one data segment.
AddData(s, seg) ==
    LET next == seg.seq + seg.len
    IN  [s EXCEPT !.rxData = TRUE,
                  !.rcvNext = IF s.gotFin /\ s.finSeq = next THEN next + 1 ELSE next]

\* Mutant: the peer's close is processed here and by PeerClose.
ReceivedDataClosing(s, seg, reacts) ==
    LET new == AddData(s, seg)
    IN  CASE seg.seq + seg.len <= s.rcvNext -> SendEmptyPacket(s, "ACK")
          [] seg.seq + seg.len > s.rcvNext ->
                 IF Finished(new) THEN DoPeerClose(new, reacts)
                 ELSE IF s.quickAck \/ new.rcvNext > seg.seq + seg.len
                 THEN SendEmptyPacket(new, "ACK")
                 ELSE [new EXCEPT !.delAckEvent = TRUE]

\* An old segment or one that fills a gap is acknowledged at once;
\* a FIN in this very segment is left to PeerClose.
ReceivedData(s, seg, reacts) ==
    LET new == AddData(s, seg)
    IN  CASE seg.seq + seg.len <= s.rcvNext -> SendEmptyPacket(s, "ACK")
          [] seg.seq + seg.len > s.rcvNext ->
                 IF Finished(new) /\ ~ HasFin(seg.kind) THEN DoPeerClose(new, reacts)
                 ELSE IF s.quickAck \/ new.rcvNext > seg.seq + seg.len
                 THEN SendEmptyPacket(new, "ACK")
                 ELSE [new EXCEPT !.delAckEvent = TRUE]

PiggybackedData(s, seg, reacts) ==
    IF seg.len > 0 THEN ReceivedData(s, seg, reacts) ELSE s

\* Mutant: an empty buffer stops the timer also while a FIN is out.
NewAckStopping(s, ack) ==
    [s EXCEPT !.dataRetrCount = DataRetries,
              !.nextTx = IF ack > @ THEN ack ELSE @,
              !.retxEvent = IF s.size = 0 THEN "none" ELSE "data"]

NewAck(s, ack) ==
    [s EXCEPT !.dataRetrCount = DataRetries,
              !.nextTx = IF ack > @ THEN ack ELSE @,
              !.retxEvent = IF s.size = 0 /\ s.state \notin {"FIN_WAIT_1", "CLOSING"}
                            THEN "none" ELSE "data"]

ReceivedAck(s, seg, reacts) ==
    LET discarded == [s EXCEPT !.una = seg.ack, !.size = 0]
        processed == CASE seg.ack > s.una -> NewAck(discarded, seg.ack)
                       [] seg.ack = s.una /\ seg.ack > s.highTx ->
                              [s EXCEPT !.nextTx = seg.ack]
                       [] OTHER -> s
        Store(x)    == PiggybackedData(x, seg, reacts)
        SendMore(x) == IF seg.ack < s.una THEN x ELSE SendPendingData(x, FALSE)
    IN  Then(Then(processed, Store), SendMore)

PeerClose(s, seg, reacts) ==
    LET noted    == SetFinSequence(s, seg.seq + seg.len)
        Store(x) == PiggybackedData(x, seg, reacts)
        Leave(x) == CASE ~ Finished(x) -> x
                      [] Finished(x) /\ x.state = "FIN_WAIT_1" ->
                             [x EXCEPT !.state = "CLOSING"]
                      [] OTHER -> DoPeerClose(x, reacts)
    IN  CASE \/ seg.seq < s.rcvNext
             \/ s.gotFin /\ seg.seq > s.finSeq -> s
          [] OTHER -> Then(Then(noted, Store), Leave)

ProcessEstablished(s, seg, reacts) ==
    CASE seg.kind = "ACK" -> CASE seg.ack < s.una    -> s
                               [] seg.ack > s.highTx -> SendEmptyPacket(s, "ACK")
                               [] OTHER              -> ReceivedAck(s, seg, reacts)
      [] HasSyn(seg.kind) -> s
      [] HasFin(seg.kind) -> PeerClose(s, seg, reacts)
      [] seg.kind = "RST" -> CloseAndNotify(s)
      [] OTHER            -> ResetAndClose(s)

\* The SYN is acknowledged: it takes its sequence number.
Connected(s) ==
    [s EXCEPT !.retxEvent = "none", !.nextTx = @ + 1, !.highTx = s.nextTx + 1,
              !.una = s.nextTx + 1]

\* An ACK without SYN is ignored.
ProcessSynSent(s, seg) ==
    LET joined == [Connected(s) EXCEPT !.state = "ESTABLISHED", !.rcvNext = seg.seq + 1]
        sent   == SendPendingData(SendEmptyPacket(joined, "ACK"), FALSE)
    IN  CASE seg.kind \in {"ACK", "FIN+ACK"} -> s
          [] seg.kind = "SYN+ACK" /\ seg.ack = s.nextTx + 1 -> [sent EXCEPT !.quickAck = TRUE]
          [] seg.kind = "RST" -> CloseAndNotify(s)
          [] OTHER -> ResetAndClose(s)

ProcessSynRcvd(s, seg, reacts) ==
    CASE seg.kind = "ACK" /\ seg.ack = s.nextTx + 1 ->
             ReceivedAck([Connected(s) EXCEPT !.state = "ESTABLISHED", !.quickAck = TRUE],
                         seg, reacts)
      [] seg.kind = "SYN" ->
             SendEmptyPacket([s EXCEPT !.rcvNext = seg.seq + 1], "SYN+ACK")
      [] HasFin(seg.kind) -> IF seg.seq = s.rcvNext
                             THEN PeerClose(Connected(s), seg, reacts) ELSE s
      [] seg.kind = "RST" -> CloseAndNotify(s)
      [] OTHER -> ResetAndClose(s)

\* FIN_WAIT_1, FIN_WAIT_2 and CLOSE_WAIT.
ProcessWait(s, seg, reacts) ==
    LET FinAcked(x) == x.size = 0 /\ seg.ack = x.highTx + 1
        Wait(x)  == IF HasFin(seg.kind) THEN SetFinSequence(x, seg.seq)
                    ELSE IF x.state = "FIN_WAIT_1" /\ FinAcked(x)
                         THEN [x EXCEPT !.state = "FIN_WAIT_2"] ELSE x
        Leave(x) == IF x.state = "FIN_WAIT_1" /\ ~ FinAcked(x)
                    THEN [x EXCEPT !.state = "CLOSING"] ELSE TimeWait(x)
        End(x)   == IF x.state \in {"FIN_WAIT_1", "FIN_WAIT_2"} /\ Finished(x)
                    THEN SendEmptyPacket(Leave(x), "ACK") ELSE x
    IN  CASE HasSyn(seg.kind) -> s
          [] seg.kind = "RST" -> CloseAndNotify(s)
          [] OTHER -> Then(Then(ReceivedAck(s, seg, reacts), Wait), End)

ProcessClosing(s, seg) ==
    CASE seg.kind = "ACK" -> IF seg.seq = s.rcvNext THEN TimeWait(s) ELSE s
      [] HasFin(seg.kind) -> CloseAndNotify(SendEmptyPacket(s, "ACK"))
      [] seg.kind = "RST" -> CloseAndNotify(s)
      [] OTHER -> ResetAndClose(s)

ProcessLastAck(s, seg) ==
    CASE seg.kind = "ACK" -> IF seg.seq = s.rcvNext THEN CloseAndNotify(s) ELSE s
      [] seg.kind \in {"FIN+ACK", "RST"} -> CloseAndNotify(s)
      [] OTHER -> ResetAndClose(s)

\* Payload the receive window has no place for is answered and dropped.
OutOfRange(s, seg) ==
    CASE s.state \in {"SYN_SENT", "SYN_RCVD"} -> FALSE
      [] s.state \in {"LAST_ACK", "CLOSING", "CLOSE_WAIT"} -> seg.seq # s.rcvNext
      [] OTHER -> \/ seg.seq + seg.len < s.rcvNext
                  \/ s.gotFin /\ s.finSeq <= seg.seq

\* The connection uses timestamps, and the refusal RST+ACK of a host without
\* endpoint carries none: it is discarded in every state.
ForwardUp(s, seg, reacts) ==
    CASE seg.len > 0 /\ OutOfRange(s, seg) -> SendEmptyPacket(s, "ACK")
      [] seg.kind = "RST+ACK" -> s
      [] OTHER ->
         CASE s.state = "ESTABLISHED" -> ProcessEstablished(s, seg, reacts)
           [] s.state = "SYN_SENT"    -> ProcessSynSent(s, seg)
           [] s.state = "SYN_RCVD"    -> ProcessSynRcvd(s, seg, reacts)
           [] s.state \in {"FIN_WAIT_1", "FIN_WAIT_2", "CLOSE_WAIT"} ->
                  ProcessWait(s, seg, reacts)
           [] s.state = "CLOSING"     -> ProcessClosing(s, seg)
           [] s.state = "LAST_ACK"    -> ProcessLastAck(s, seg)
           [] OTHER                   -> s

-----------------------------------------------------------------------------
(* Timers.                                                                  *)

ReTxTimeout(s) ==
    CASE s.size = 0 -> IF s.state \in {"FIN_WAIT_1", "CLOSING"}
                       THEN SendEmptyPacket(s, "FIN+ACK") ELSE s
      [] s.size > 0 /\ s.dataRetrCount = 0 -> DeallocateEndPoint(s)
      [] OTHER -> SendPendingData([s EXCEPT !.dataRetrCount = @ - 1], TRUE)

\* What m_retxEvent was scheduled with: ReTxTimeout or SendEmptyPacket.
Retransmit(s) ==
    LET fired == [s EXCEPT !.retxEvent = "none"]
    IN  IF s.retxEvent = "data" THEN ReTxTimeout(fired)
                                ELSE SendEmptyPacket(fired, s.retxEvent)

LastAckTimeout(s) ==
    LET fired == [s EXCEPT !.lastAckEvent = FALSE]
    IN  CASE s.state # "LAST_ACK" -> fired
          [] s.state = "LAST_ACK" /\ s.dataRetrCount = 0 -> DeallocateEndPoint(fired)
          [] OTHER -> [SendEmptyPacket([fired EXCEPT !.dataRetrCount = @ - 1], "FIN+ACK")
                         EXCEPT !.lastAckEvent = TRUE]

-----------------------------------------------------------------------------
(* The events.                                                              *)

\* What the handler sent goes on the wire when it returns.
Becomes(p, s) ==
    /\ sock' = [sock EXCEPT ![p] = [s EXCEPT !.out = <<>>]]
    /\ net' = [net EXCEPT ![Other(p)] = @ \o s.out]

Connect ==
    /\ sock["client"] = NewSocket
    /\ LET bound == [sock["client"] EXCEPT !.endPoint = TRUE, !.synCount = SynRetries]
       IN  Becomes("client", [SendEmptyPacket(bound, "SYN") EXCEPT !.state = "SYN_SENT"])
    /\ UNCHANGED <<listening, faults, app>>

\* The application has the client's socket from Connect on, the forked one
\* once the connection is created.
HasSocket(p) == sock[p].endPoint /\ sock[p].state # "SYN_RCVD"

\* Nobody writes after closing, or shutting down, the sending side.
Send(p) ==
    /\ HasSocket(p) /\ "Send" \in app[p] /\ ~ sock[p].closeOnEmpty
    /\ sock[p].state \in {"ESTABLISHED", "SYN_SENT", "CLOSE_WAIT"}
    /\ Becomes(p, [sock[p] EXCEPT
                     !.size = 1,
                     !.sendPendingDataEvent = sock[p].state # "SYN_SENT"])
    /\ app' = [app EXCEPT ![p] = @ \ {"Send"}]
    /\ UNCHANGED <<listening, faults>>

SendPendingDataEvent(p) ==
    /\ sock[p].sendPendingDataEvent
    /\ Becomes(p, SendPendingData([sock[p] EXCEPT !.sendPendingDataEvent = FALSE], FALSE))
    /\ UNCHANGED <<listening, faults, app>>

AppClose(p) ==
    /\ HasSocket(p) /\ "Close" \in app[p]
    /\ Becomes(p, Close(sock[p]))
    /\ app' = [app EXCEPT ![p] = {}]
    /\ UNCHANGED <<listening, faults>>

AppShutdownSend(p) ==
    /\ HasSocket(p) /\ "ShutdownSend" \in app[p]
    /\ Becomes(p, ShutdownSend(sock[p]))
    /\ app' = [app EXCEPT ![p] = @ \ {"ShutdownSend"}]
    /\ UNCHANGED <<listening, faults>>

\* The application closes the listening socket.
CloseListener ==
    /\ listening
    /\ listening' = FALSE
    /\ UNCHANGED <<sock, net, faults, app>>

\* A segment for the socket that has the endpoint.
Deliver(p) ==
    /\ net[p] # <<>> /\ sock[p].endPoint
    /\ \E reacts \in BOOLEAN : \E s \in {ForwardUp(sock[p], Head(net[p]), reacts)} :
         /\ sock' = [sock EXCEPT ![p] = [s EXCEPT !.out = <<>>]]
         /\ net' = [net EXCEPT ![p] = Tail(@), ![Other(p)] = @ \o s.out]
    /\ UNCHANGED <<listening, faults, app>>

\* ProcessListen forks the socket on a SYN and ignores anything else;
\* CompleteFork follows in the same instant of simulated time.
DeliverToListener ==
    /\ net["server"] # <<>> /\ ~ sock["server"].endPoint /\ listening
    /\ LET seg    == Head(net["server"])
           forked == [NewSocket EXCEPT !.endPoint = TRUE, !.state = "SYN_RCVD",
                                       !.synCount = SynRetries, !.rcvNext = seg.seq + 1]
           s      == IF seg.kind = "SYN" THEN SendEmptyPacket(forked, "SYN+ACK")
                                         ELSE sock["server"]
       IN  /\ sock' = [sock EXCEPT !["server"] = [s EXCEPT !.out = <<>>]]
           /\ net' = [net EXCEPT !["server"] = Tail(@), !["client"] = @ \o s.out]
    /\ UNCHANGED <<listening, faults, app>>

\* NoEndPointsFound: a segment for nobody is answered with a reset.
Refuse(p) ==
    /\ net[p] # <<>> /\ ~ sock[p].endPoint /\ ~ (p = "server" /\ listening)
    /\ LET seg == Head(net[p])
           rst == [kind |-> IF HasAck(seg.kind) THEN "RST" ELSE "RST+ACK", len |-> 0,
                   seq |-> IF HasAck(seg.kind) THEN seg.ack ELSE 0, ack |-> seg.seq + 1]
       IN  net' = [net EXCEPT ![p] = Tail(@),
                              ![Other(p)] = IF seg.kind \in {"RST", "RST+ACK"} THEN @
                                            ELSE Append(@, rst)]
    /\ UNCHANGED <<sock, listening, faults, app>>

\* Timers are far longer than a round trip: they fire when nothing travels.
\* An early one counts as a fault.
Fires ==
    IF \A q \in Peers : net[q] = <<>> /\ ~ sock[q].sendPendingDataEvent
    THEN UNCHANGED faults
    ELSE faults < MaxFaults /\ faults' = faults + 1

RetransmitEvent(p) ==
    /\ sock[p].retxEvent # "none" /\ Fires
    /\ Becomes(p, Retransmit(sock[p]))
    /\ UNCHANGED <<listening, app>>

LastAckEvent(p) ==
    /\ sock[p].lastAckEvent /\ Fires
    /\ Becomes(p, LastAckTimeout(sock[p]))
    /\ UNCHANGED <<listening, app>>

DelAckTimeout(p) ==
    /\ sock[p].delAckEvent /\ Fires
    /\ Becomes(p, SendEmptyPacket([sock[p] EXCEPT !.delAckEvent = FALSE], "ACK"))
    /\ UNCHANGED <<listening, app>>

TimeWaitEnds(p) ==
    /\ sock[p].timewaitEvent /\ Fires
    /\ Becomes(p, CloseAndNotify(sock[p]))
    /\ UNCHANGED <<listening, app>>

Lose(p) ==
    /\ faults < MaxFaults /\ net[p] # <<>>
    /\ net' = [net EXCEPT ![p] = Tail(@)]
    /\ faults' = faults + 1
    /\ UNCHANGED <<sock, listening, app>>

\* What the applications and the network choose to do.
Environment ==
    \/ Connect \/ CloseListener
    \/ \E p \in Peers : Send(p) \/ AppClose(p) \/ AppShutdownSend(p) \/ Lose(p)

\* What the simulator runs at peer p: segments that arrive and timers.
Events(p) ==
    \/ p = "server" /\ DeliverToListener
    \/ SendPendingDataEvent(p) \/ Deliver(p) \/ Refuse(p)
    \/ RetransmitEvent(p) \/ LastAckEvent(p) \/ DelAckTimeout(p) \/ TimeWaitEnds(p)

Next == Environment \/ \E p \in Peers : Events(p)

Spec == Init /\ [][Next]_vars

\* The simulator runs every scheduled event and every segment the network
\* keeps arrives.  A timer fires at its time, whatever arrives before; it is
\* enabled only while nothing travels, hence strong fairness.  Applications
\* promise nothing.
Fairness ==
    \A p \in Peers :
        /\ WF_vars(Events(p))
        /\ SF_vars(LastAckEvent(p)) /\ SF_vars(TimeWaitEnds(p))

FairSpec == Spec /\ Fairness

-----------------------------------------------------------------------------
(* Properties.                                                              *)

\* A socket that waits for the peer has a timer that will move it: no order
\* of ACKs, FINs, resets and calls of the application lets NewAck,
\* SendEmptyPacket or CancelAllTimers leave it in one of these states with
\* nothing scheduled.
TimerPending ==
    \A p \in Peers :
        LET s == sock[p]
        IN  (s.endPoint /\ s.state \in {"SYN_SENT", "SYN_RCVD", "FIN_WAIT_1", "CLOSING",
                                        "LAST_ACK", "TIME_WAIT"})
              => s.retxEvent # "none" \/ s.lastAckEvent \/ s.timewaitEvent

\* Once DeallocateEndPoint has run nothing is scheduled on the socket, also
\* when it ran in the middle of a handler that goes on to send or to close:
\* an event that fires later would run on a socket the simulation has freed.
QuietWhenClosed ==
    \A p \in Peers : ~ sock[p].endPoint => sock[p] = CancelAllTimers(sock[p])

\* No end takes more for acknowledged than the other has received, nor for
\* received than the other has sent, FIN included, although each side counts
\* its FIN in a different place (SendEmptyPacket, SetFinSequence, NewAck).
EndsAgree ==
    \A p \in Peers :
        LET s == sock[p]   t == sock[Other(p)]
        IN  s.endPoint /\ t.endPoint => s.una <= t.rcvNext /\ t.rcvNext <= s.nextTx + 1

\* A side closes its receiving direction only behind the peer's data and when
\* the peer has really closed, and FIN_WAIT_2 is entered only when the peer
\* has our FIN: lost data before the FIN, simultaneous closes and piggybacked
\* FINs included.
CloseAgreed ==
    \A p \in Peers :
        LET s == sock[p]   t == sock[Other(p)]
        IN  /\ s.state \in {"CLOSE_WAIT", "LAST_ACK", "CLOSING", "TIME_WAIT"} =>
                   /\ Finished(s) /\ (s.finSeq = 2 => s.rxData)
                   /\ t.state \notin {"ESTABLISHED", "SYN_SENT", "SYN_RCVD"}
            /\ s.state = "FIN_WAIT_2" => Finished(t)

\* The assertion of DoPeerClose holds: no FIN, on its own, with data or freed
\* by data that fills the gap before it, is processed in a state that has
\* already seen it.
PeerClosesOnce == \A p \in Peers : ~ sock[p].failed

\* A handshake ends, in a connection or in giving up: lost SYNs and ACKs, a
\* listener that closes meanwhile and a refusal that is ignored never leave a
\* socket in SYN_SENT or SYN_RCVD for good.
HandshakeEnds ==
    \A p \in Peers : sock[p].state \in {"SYN_SENT", "SYN_RCVD"}
                        ~> sock[p].state \notin {"SYN_SENT", "SYN_RCVD"}
=============================================================================
