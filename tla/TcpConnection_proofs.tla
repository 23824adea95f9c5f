------------------------ MODULE TcpConnection_proofs ------------------------
(***************************************************************************)
(* Proofs about TcpConnection, for any limits of retries, any scripts of   *)
(* the applications and any number of faults.                              *)
(***************************************************************************)
EXTENDS TcpConnection, TLAPS

Kinds == {"SYN", "SYN+ACK", "ACK", "FIN+ACK", "RST", "RST+ACK"}

Segment == [kind : Kinds, len : {0, 1}, ack : Nat, seq : Nat]

\* What m_retxEvent can be scheduled with.
RetxKinds == {"none", "data", "SYN", "SYN+ACK", "FIN+ACK"}

Socket ==
    [state : States, endPoint : BOOLEAN,
     nextTx : Nat, highTx : Nat, una : Nat, size : {0, 1},
     rcvNext : Nat, rxData : BOOLEAN, gotFin : BOOLEAN, finSeq : Nat,
     synCount : Nat, dataRetrCount : Nat,
     quickAck : BOOLEAN, closeOnEmpty : BOOLEAN, shutdownSend : BOOLEAN,
     closeNotified : BOOLEAN,
     retxEvent : RetxKinds, lastAckEvent : BOOLEAN, timewaitEvent : BOOLEAN,
     delAckEvent : BOOLEAN, sendPendingDataEvent : BOOLEAN,
     out : Seq(Segment), failed : BOOLEAN]

\* The segments of a queue.
Segs(q) == {q[i] : i \in DOMAIN q}

-----------------------------------------------------------------------------
(* Sequences of segments.                                                   *)

LEMMA SegsAppend ==
    ASSUME NEW q \in Seq(Segment), NEW m \in Segment
    PROVE  Append(q, m) \in Seq(Segment) /\ Segs(Append(q, m)) = Segs(q) \cup {m}
  <1> DEFINE r == Append(q, m)
  <1>1. r \in Seq(Segment) /\ Len(r) = Len(q) + 1 /\ Len(q) \in Nat
    OBVIOUS
  <1>2. DOMAIN r = 1 .. Len(q) + 1 /\ DOMAIN q = 1 .. Len(q)
    BY <1>1
  <1>3. \A i \in DOMAIN q : r[i] = q[i]
    BY <1>2
  <1>4. r[Len(q) + 1] = m
    OBVIOUS
  <1>5. \A i \in DOMAIN r : i \in DOMAIN q \/ i = Len(q) + 1
    BY <1>1, <1>2
  <1>6. Len(q) + 1 \in DOMAIN r /\ DOMAIN q \subseteq DOMAIN r
    BY <1>1, <1>2
  <1> HIDE DEF r
  <1>7. Segs(r) = Segs(q) \cup {m}
    BY <1>3, <1>4, <1>5, <1>6, Zenon DEF Segs
  <1> QED
    BY <1>1, <1>7 DEF r

-----------------------------------------------------------------------------
(* Sending an empty segment.                                                *)

\* t is s but for its state and what sending an empty segment changes.
Same(s, t) ==
    /\ t.endPoint = s.endPoint
    /\ t.nextTx = s.nextTx /\ t.highTx = s.highTx /\ t.una = s.una /\ t.size = s.size
    /\ t.rcvNext = s.rcvNext /\ t.rxData = s.rxData
    /\ t.gotFin = s.gotFin /\ t.finSeq = s.finSeq
    /\ t.dataRetrCount = s.dataRetrCount
    /\ t.closeOnEmpty = s.closeOnEmpty /\ t.shutdownSend = s.shutdownSend
    /\ t.closeNotified = s.closeNotified
    /\ t.lastAckEvent = s.lastAckEvent /\ t.timewaitEvent = s.timewaitEvent
    /\ t.sendPendingDataEvent = s.sendPendingDataEvent
    /\ t.failed = s.failed

Sends(s, t) == Same(s, t) /\ t.state = s.state /\ (t.delAckEvent => s.delAckEvent)

LEMMA EmptySegmentType ==
    ASSUME NEW s \in Socket, NEW k \in Kinds
    PROVE  /\ EmptySegment(s, k) \in Segment
           /\ EmptySegment(s, k).kind = k /\ EmptySegment(s, k).len = 0
           /\ EmptySegment(s, k).ack = s.rcvNext
           /\ EmptySegment(s, k).seq \in {s.nextTx, s.nextTx + 1}
           /\ s.state \in {"SYN_SENT", "SYN_RCVD"} => EmptySegment(s, k).seq = s.nextTx
           /\ k = "FIN+ACK" => EmptySegment(s, k).seq = s.nextTx
  BY DEF EmptySegment, Socket, Segment, HasFin

LEMMA EmptySentFields ==
    ASSUME NEW s \in Socket, NEW k \in Kinds, HasSyn(k) => s.synCount # 0
    PROVE  /\ EmptySent(s, k) \in Socket
           /\ Sends(s, EmptySent(s, k))
           /\ EmptySent(s, k).retxEvent =
                  IF s.retxEvent = "none" /\ (HasSyn(k) \/ HasFin(k)) THEN k ELSE s.retxEvent
           /\ Segs(EmptySent(s, k).out) = Segs(s.out) \cup {EmptySegment(s, k)}
  <1> DEFINE m == EmptySegment(s, k)
             o == Append(s.out, m)
             c == IF HasSyn(k) THEN s.synCount - 1 ELSE s.synCount
             d == s.delAckEvent /\ ~ HasAck(k)
             a == s.quickAck /\ ~ HasAck(k)
             r == IF s.retxEvent = "none" /\ (HasSyn(k) \/ HasFin(k)) THEN k ELSE s.retxEvent
             t == [s EXCEPT !.out = o, !.synCount = c, !.delAckEvent = d, !.quickAck = a,
                            !.retxEvent = r]
  <1>1. EmptySent(s, k) = t
    BY DEF EmptySent
  <1>2. m \in Segment
    BY EmptySegmentType
  <1>3. s.out \in Seq(Segment)
    BY DEF Socket
  <1>4. o \in Seq(Segment) /\ Segs(o) = Segs(s.out) \cup {m}
    <2> HIDE DEF m
    <2> QED
      BY <1>2, <1>3, SegsAppend
  <1>5. c \in Nat
    BY DEF Socket
  <1>6. d \in BOOLEAN /\ a \in BOOLEAN
    OBVIOUS
  <1>6a. d => s.delAckEvent
    OBVIOUS
  <1>7. r \in RetxKinds
    BY DEF Socket, RetxKinds, HasSyn, HasFin
  <1> HIDE DEF m, o, c, d, a, r
  <1>8. /\ t \in Socket /\ Same(s, t) /\ t.state = s.state /\ t.retxEvent = r /\ t.out = o
    BY <1>4, <1>5, <1>6, <1>7 DEF Socket, Same
  <1>9. t.delAckEvent => s.delAckEvent
    <2>1. t.delAckEvent = d
      BY DEF Socket
    <2> QED
      BY <1>6a, <2>1, Zenon
  <1> HIDE DEF t
  <1> QED
    BY <1>1, <1>4, <1>8, <1>9 DEF Sends, r, m

LEMMA SendEmpty ==
    ASSUME NEW s \in Socket, s.endPoint, NEW k \in {"ACK", "RST", "FIN+ACK"}
    PROVE  LET t == SendEmptyPacket(s, k)
           IN  /\ t \in Socket /\ Sends(s, t)
               /\ t.retxEvent = IF s.retxEvent = "none" /\ k = "FIN+ACK" THEN k
                                                                         ELSE s.retxEvent
               /\ Segs(t.out) = Segs(s.out) \cup {EmptySegment(s, k)}
  <1>1. k \in Kinds /\ ~ HasSyn(k) /\ (HasFin(k) <=> k = "FIN+ACK")
    BY DEF Kinds, HasSyn, HasFin
  <1>2. SendEmptyPacket(s, k) = EmptySent(s, k)
    BY <1>1 DEF SendEmptyPacket
  <1> QED
    BY <1>1, <1>2, EmptySentFields

-----------------------------------------------------------------------------
(* Leaving.                                                                 *)

Quiet(s) ==
    /\ s.retxEvent = "none" /\ ~ s.lastAckEvent /\ ~ s.timewaitEvent
    /\ ~ s.delAckEvent /\ ~ s.sendPendingDataEvent

LEMMA QuietIsCancelled ==
    ASSUME NEW s \in Socket
    PROVE  Quiet(s) <=> s = CancelAllTimers(s)
  <1>1. ASSUME Quiet(s) PROVE s = CancelAllTimers(s)
    <2>1. s.lastAckEvent = FALSE /\ s.timewaitEvent = FALSE /\ s.delAckEvent = FALSE
          /\ s.sendPendingDataEvent = FALSE /\ s.retxEvent = "none"
      BY <1>1 DEF Quiet, Socket
    <2> QED
      BY <2>1 DEF CancelAllTimers, Socket
  <1>2. ASSUME s = CancelAllTimers(s) PROVE Quiet(s)
    <2>1. CancelAllTimers(s).lastAckEvent = FALSE
          /\ CancelAllTimers(s).timewaitEvent = FALSE
          /\ CancelAllTimers(s).delAckEvent = FALSE
          /\ CancelAllTimers(s).sendPendingDataEvent = FALSE
          /\ CancelAllTimers(s).retxEvent = "none"
      BY DEF CancelAllTimers, Socket
    <2> QED
      BY <1>2, <2>1 DEF Quiet
  <1> QED
    BY <1>1, <1>2

\* t is s without endpoint and timers.
Leaves(s, t) ==
    /\ t \in Socket /\ ~ t.endPoint /\ Quiet(t)
    /\ t.nextTx = s.nextTx /\ t.highTx = s.highTx /\ t.una = s.una /\ t.size = s.size
    /\ t.rcvNext = s.rcvNext /\ t.rxData = s.rxData
    /\ t.gotFin = s.gotFin /\ t.finSeq = s.finSeq
    /\ t.closeOnEmpty = s.closeOnEmpty /\ t.failed = s.failed

LEMMA DeallocateFields ==
    ASSUME NEW s \in Socket
    PROVE  LET t == DeallocateEndPoint(s)
           IN  Leaves(s, t) /\ t.state = s.state /\ t.out = s.out
  BY DEF DeallocateEndPoint, CancelAllTimers, Leaves, Quiet, Socket, RetxKinds

LEMMA CloseAndNotifyFields ==
    ASSUME NEW s \in Socket
    PROVE  LET t == CloseAndNotify(s)
           IN  Leaves(s, t) /\ t.state = "CLOSED" /\ t.out = s.out
  <1> DEFINE u == DeallocateEndPoint(s)
  <1>1. Leaves(s, u) /\ u.out = s.out
    BY DeallocateFields
  <1> HIDE DEF u
  <1>2. Leaves(s, [u EXCEPT !.state = "CLOSED", !.closeNotified = TRUE])
    BY <1>1 DEF Leaves, Quiet, Socket, States
  <1> QED
    BY <1>1, <1>2 DEF CloseAndNotify, u, Leaves, Socket

\* ResetAndClose; the reset is the last segment.
LEMMA ResetFields ==
    ASSUME NEW s \in Socket, s.endPoint
    PROVE  LET t == ResetAndClose(s)
           IN  /\ Leaves(s, t) /\ t.state = "CLOSED"
               /\ Segs(t.out) = Segs(s.out) \cup {EmptySegment(s, "RST")}
  <1> DEFINE u == SendEmptyPacket(s, "RST")
             v == DeallocateEndPoint(u)
             t == CloseAndNotify(v)
  <1>1. u \in Socket /\ Sends(s, u) /\ Segs(u.out) = Segs(s.out) \cup {EmptySegment(s, "RST")}
    BY SendEmpty
  <1>2. Leaves(u, v) /\ v.out = u.out
    <2> HIDE DEF u
    <2> QED
      BY <1>1, DeallocateFields
  <1>3. v \in Socket
    BY <1>2 DEF Leaves
  <1>4. Leaves(v, t) /\ t.state = "CLOSED" /\ t.out = v.out
    <2> HIDE DEF v
    <2> QED
      BY <1>3, CloseAndNotifyFields
  <1>5. ResetAndClose(s) = t
    BY DEF ResetAndClose, SendRST
  <1> HIDE DEF u, v, t
  <1> QED
    BY <1>1, <1>2, <1>4, <1>5 DEF Leaves, Same, Sends

LEMMA TimeWaitFields ==
    ASSUME NEW s \in Socket
    PROVE  LET t == TimeWait(s)
           IN  /\ t \in Socket
               /\ t.state = "TIME_WAIT" /\ t.endPoint = s.endPoint
               /\ t.nextTx = s.nextTx /\ t.highTx = s.highTx /\ t.una = s.una
               /\ t.size = s.size /\ t.rcvNext = s.rcvNext /\ t.rxData = s.rxData
               /\ t.gotFin = s.gotFin /\ t.finSeq = s.finSeq
               /\ t.closeOnEmpty = s.closeOnEmpty /\ t.shutdownSend = s.shutdownSend
               /\ t.failed = s.failed /\ t.out = s.out
               /\ t.retxEvent = "none" /\ ~ t.lastAckEvent /\ t.timewaitEvent
  BY DEF TimeWait, CancelAllTimers, Socket, States, RetxKinds

-----------------------------------------------------------------------------
(* Sending data and closing.                                                *)

DataSegment(s) ==
    [kind |-> IF s.closeOnEmpty THEN "FIN+ACK" ELSE "ACK", len |-> 1,
     seq |-> s.una, ack |-> s.rcvNext]

\* t is s after its data segment was sent.
SendsData(s, t) ==
    /\ t \in Socket
    /\ t.endPoint = s.endPoint
    /\ t.state = CASE s.closeOnEmpty /\ s.state = "ESTABLISHED" -> "FIN_WAIT_1"
                   [] s.closeOnEmpty /\ s.state = "CLOSE_WAIT"  -> "LAST_ACK"
                   [] OTHER -> s.state
    /\ t.nextTx = s.una + 1 /\ t.highTx = s.una + 1 /\ t.una = s.una /\ t.size = s.size
    /\ t.rcvNext = s.rcvNext /\ t.rxData = s.rxData
    /\ t.gotFin = s.gotFin /\ t.finSeq = s.finSeq
    /\ t.closeOnEmpty = s.closeOnEmpty /\ t.shutdownSend = s.shutdownSend
    /\ t.closeNotified = s.closeNotified
    /\ t.lastAckEvent = s.lastAckEvent /\ t.timewaitEvent = s.timewaitEvent
    /\ t.failed = s.failed
    /\ t.retxEvent = IF s.retxEvent = "none" THEN "data" ELSE s.retxEvent
    /\ Segs(t.out) = Segs(s.out) \cup {DataSegment(s)}

LEMMA SendDataFields ==
    ASSUME NEW s \in Socket
    PROVE  SendsData(s, SendDataPacket(s))
  <1> DEFINE m == DataSegment(s)
             o == Append(s.out, m)
             r == IF s.retxEvent = "none" THEN "data" ELSE s.retxEvent
             n == CASE s.closeOnEmpty /\ s.state = "ESTABLISHED" -> "FIN_WAIT_1"
                    [] s.closeOnEmpty /\ s.state = "CLOSE_WAIT"  -> "LAST_ACK"
                    [] OTHER -> s.state
             h == s.una + 1
             t == [s EXCEPT !.state = n, !.out = o, !.nextTx = h, !.highTx = h,
                            !.delAckEvent = FALSE, !.quickAck = FALSE, !.retxEvent = r]
  <1>1. SendDataPacket(s) = t
    BY DEF SendDataPacket, DataSegment
  <1>2. m \in Segment /\ s.out \in Seq(Segment)
    BY DEF Socket, Segment, Kinds, DataSegment
  <1>3. o \in Seq(Segment) /\ Segs(o) = Segs(s.out) \cup {m}
    <2> HIDE DEF m
    <2> QED
      BY <1>2, SegsAppend
  <1>4. r \in RetxKinds
    BY DEF Socket, RetxKinds
  <1>5. n \in States
    BY DEF Socket, States
  <1>6. h \in Nat
    BY DEF Socket
  <1> HIDE DEF m, o, r, n, h
  <1>7. t \in Socket
    BY <1>3, <1>4, <1>5, <1>6 DEF Socket
  <1>8. /\ t.endPoint = s.endPoint /\ t.state = n
        /\ t.nextTx = h /\ t.highTx = h /\ t.una = s.una /\ t.size = s.size
        /\ t.rcvNext = s.rcvNext /\ t.rxData = s.rxData
        /\ t.gotFin = s.gotFin /\ t.finSeq = s.finSeq
        /\ t.closeOnEmpty = s.closeOnEmpty /\ t.shutdownSend = s.shutdownSend
        /\ t.closeNotified = s.closeNotified
        /\ t.lastAckEvent = s.lastAckEvent /\ t.timewaitEvent = s.timewaitEvent
        /\ t.failed = s.failed /\ t.retxEvent = r /\ t.out = o
    BY DEF Socket
  <1> HIDE DEF t
  <1> QED
    BY <1>1, <1>3, <1>7, <1>8 DEF SendsData, m, r, n, h

\* The FIN of DoClose: the state changes to st.
SendsFin(s, t, st) ==
    /\ t \in Socket /\ Same(s, t) /\ t.state = st
    /\ t.retxEvent = IF s.retxEvent = "none" THEN "FIN+ACK" ELSE s.retxEvent
    /\ Segs(t.out) = Segs(s.out) \cup {EmptySegment(s, "FIN+ACK")}

LEMMA DoCloseFields ==
    ASSUME NEW s \in Socket, s.endPoint
    PROVE  LET t == DoClose(s)
           IN  /\ s.state \in {"SYN_RCVD", "ESTABLISHED"} => SendsFin(s, t, "FIN_WAIT_1")
               /\ s.state = "CLOSE_WAIT" => SendsFin(s, t, "LAST_ACK")
               /\ s.state \in {"SYN_SENT", "CLOSING"} =>
                      /\ Leaves(s, t) /\ t.state = "CLOSED"
                      /\ Segs(t.out) = Segs(s.out) \cup {EmptySegment(s, "RST")}
               /\ s.state \notin {"SYN_RCVD", "ESTABLISHED", "CLOSE_WAIT", "SYN_SENT",
                                  "CLOSING"} => t = s
  <1> DEFINE u == SendEmptyPacket(s, "FIN+ACK")
  <1>1. /\ u \in Socket /\ Sends(s, u)
        /\ u.retxEvent = IF s.retxEvent = "none" THEN "FIN+ACK" ELSE s.retxEvent
        /\ Segs(u.out) = Segs(s.out) \cup {EmptySegment(s, "FIN+ACK")}
    BY SendEmpty
  <1>2. ASSUME NEW st \in States PROVE SendsFin(s, [u EXCEPT !.state = st], st)
    <2> HIDE DEF u
    <2> QED
      BY <1>1 DEF SendsFin, Same, Sends, Socket
  <1>3. CASE s.state \in {"SYN_RCVD", "ESTABLISHED"}
    <2>1. DoClose(s) = [u EXCEPT !.state = "FIN_WAIT_1"] /\ "FIN_WAIT_1" \in States
      BY <1>3 DEF DoClose, States
    <2> HIDE DEF u
    <2> QED
      BY <1>2, <1>3, <2>1
  <1>4. CASE s.state = "CLOSE_WAIT"
    <2>1. DoClose(s) = [u EXCEPT !.state = "LAST_ACK"] /\ "LAST_ACK" \in States
      BY <1>4 DEF DoClose, States
    <2> HIDE DEF u
    <2> QED
      BY <1>2, <1>4, <2>1
  <1>5. CASE s.state \in {"SYN_SENT", "CLOSING"}
    <2>1. DoClose(s) = ResetAndClose(s)
      BY <1>5 DEF DoClose
    <2> QED
      BY <1>5, <2>1, ResetFields
  <1>6. CASE s.state \notin {"SYN_RCVD", "ESTABLISHED", "CLOSE_WAIT", "SYN_SENT", "CLOSING"}
    <2>1. DoClose(s) = s
      BY <1>6 DEF DoClose
    <2> QED
      BY <1>6, <2>1
  <1> QED
    BY <1>3, <1>4, <1>5, <1>6

-----------------------------------------------------------------------------
(* The invariant of one socket.  `more`: the application may still close or  *)
(* shut down the sending side.                                              *)

Handshake == {"SYN_SENT", "SYN_RCVD"}

\* The sending side was closed, by ShutdownSend or else by Close.
Shut(s, more) == s.shutdownSend \/ ~ more

\* A timer that resends data has data to resend, except behind a FIN; and
\* what has sent its FIN, or will, has been told so.
Open(s, more) ==
    /\ s.state \in Handshake =>
           /\ s.retxEvent \notin {"none", "data"} /\ s.nextTx = 0 /\ ~ s.gotFin
           /\ ~ s.sendPendingDataEvent
    /\ s.state = "TIME_WAIT" => s.timewaitEvent
    /\ s.lastAckEvent => s.state = "LAST_ACK"
    /\ s.state = "ESTABLISHED" /\ s.retxEvent = "data" => s.size > 0
    /\ s.state = "CLOSE_WAIT" /\ s.retxEvent = "data" /\ s.size = 0 => ~ more
    /\ s.state \in {"FIN_WAIT_1", "FIN_WAIT_2"} => Shut(s, more)
    /\ s.closeOnEmpty /\ s.state \in Handshake \cup {"ESTABLISHED"} => Shut(s, more)
    /\ s.state = "LAST_ACK" /\ ~ s.lastAckEvent =>
           s.retxEvent # "none" /\ (s.retxEvent = "data" => s.size > 0)
    /\ s.state \in {"FIN_WAIT_1", "CLOSING"} => s.retxEvent # "none"

\* A socket between two events.
Sound(s, more) ==
    /\ s \in Socket
    /\ s.endPoint => Open(s, more) /\ s.state # "CLOSED"
    /\ ~ s.endPoint => Quiet(s)

LEMMA SoundMonotone ==
    ASSUME NEW s, Sound(s, TRUE)
    PROVE  Sound(s, FALSE)
  BY DEF Sound, Open, Shut

LEMMA LeavesSound ==
    ASSUME NEW s, NEW t, NEW more, Leaves(s, t)
    PROVE  Sound(t, more)
  BY DEF Sound, Leaves

\* t has lost nothing of s that Open is about, but the state and the timer.
LEMMA SendsSound ==
    ASSUME NEW s \in Socket, NEW t \in Socket, NEW more \in BOOLEAN,
           Open(s, more), Sends(s, t), t.retxEvent = s.retxEvent
    PROVE  Open(t, more)
  BY DEF Open, Shut, Sends, Same

\* Close and ShutdownSend, called by the application.
LEMMA CloseSound ==
    ASSUME NEW s \in Socket, s.endPoint, Open(s, TRUE), s.state \notin {"SYN_RCVD", "CLOSED"}
    PROVE  Sound(Close(s), FALSE)
  <1> DEFINE t == DoClose(s)
  <1>1. CASE s.size > 0 /\ s.una + s.size > s.nextTx
    <2> DEFINE u == [s EXCEPT !.closeOnEmpty = TRUE]
    <2>1. Close(s) = u
      BY <1>1 DEF Close
    <2>2. u \in Socket /\ Same([s EXCEPT !.closeOnEmpty = TRUE], u) /\ u.retxEvent = s.retxEvent
          /\ u.state = s.state /\ u.endPoint = s.endPoint /\ u.nextTx = s.nextTx
          /\ u.gotFin = s.gotFin /\ u.timewaitEvent = s.timewaitEvent
          /\ u.lastAckEvent = s.lastAckEvent /\ u.size = s.size
          /\ u.sendPendingDataEvent = s.sendPendingDataEvent
          /\ u.shutdownSend = s.shutdownSend
      BY DEF Socket, Same
    <2> HIDE DEF u
    <2>3. Open(u, FALSE)
      BY <2>2 DEF Open, Shut
    <2> QED
      BY <2>1, <2>2, <2>3 DEF Sound
  <1>2. CASE ~ (s.size > 0 /\ s.una + s.size > s.nextTx)
    <2>1. Close(s) = t
      BY <1>2 DEF Close
    <2>2. CASE s.state = "ESTABLISHED"
      <3>1. SendsFin(s, t, "FIN_WAIT_1")
        BY <2>2, DoCloseFields
      <3> HIDE DEF t
      <3>2. Open(t, FALSE) /\ t.endPoint /\ t \in Socket /\ t.state # "CLOSED"
        BY <2>2, <3>1 DEF SendsFin, Same, Open, Shut, Handshake, Socket
      <3> QED
        BY <2>1, <3>2 DEF Sound
    <2>3. CASE s.state = "CLOSE_WAIT"
      <3>1. SendsFin(s, t, "LAST_ACK")
        BY <2>3, DoCloseFields
      <3> HIDE DEF t
      <3>2. Open(t, FALSE) /\ t.endPoint /\ t \in Socket /\ t.state # "CLOSED"
        BY <2>3, <3>1 DEF SendsFin, Same, Open, Shut, Handshake, Socket
      <3> QED
        BY <2>1, <3>2 DEF Sound
    <2>4. CASE s.state \in {"SYN_SENT", "CLOSING"}
      <3>1. Leaves(s, t)
        BY <2>4, DoCloseFields
      <3> QED
        BY <2>1, <3>1, LeavesSound
    <2>5. CASE s.state \notin {"SYN_RCVD", "ESTABLISHED", "CLOSE_WAIT", "SYN_SENT", "CLOSING"}
      <3>1. t = s
        BY <2>5, DoCloseFields
      <3>2. Sound(s, TRUE)
        BY DEF Sound
      <3> QED
        BY <2>1, <3>1, <3>2, SoundMonotone
    <2> QED
      BY <2>2, <2>3, <2>4, <2>5
  <1> QED
    BY <1>1, <1>2

LEMMA ShutdownSendSound ==
    ASSUME NEW s \in Socket, s.endPoint, Open(s, TRUE), s.state \notin {"SYN_RCVD", "CLOSED"},
           NEW more \in BOOLEAN
    PROVE  Sound(ShutdownSend(s), more)
  <1> DEFINE u == [s EXCEPT !.shutdownSend = TRUE, !.closeOnEmpty = TRUE]
             t == DoClose(u)
  <1>1. /\ u \in Socket /\ u.retxEvent = s.retxEvent
        /\ u.state = s.state /\ u.endPoint = s.endPoint /\ u.nextTx = s.nextTx
        /\ u.gotFin = s.gotFin /\ u.timewaitEvent = s.timewaitEvent
        /\ u.lastAckEvent = s.lastAckEvent /\ u.size = s.size
        /\ u.sendPendingDataEvent = s.sendPendingDataEvent
        /\ u.shutdownSend
    BY DEF Socket
  <1> HIDE DEF u
  <1>2. Sound(u, more)
    <2>1. Open(u, more)
      BY <1>1 DEF Open, Shut
    <2> QED
      BY <1>1, <2>1 DEF Sound
  <1>3. CASE s.size = 0 /\ s.state = "ESTABLISHED"
    <2>1. SendsFin(u, t, "FIN_WAIT_1")
      BY <1>1, <1>3, DoCloseFields
    <2>2. ShutdownSend(s) = t
      BY <1>3 DEF ShutdownSend, u
    <2> HIDE DEF t
    <2>3. Open(t, more) /\ t.endPoint /\ t \in Socket /\ t.state # "CLOSED"
      BY <1>1, <1>3, <2>1 DEF SendsFin, Same, Open, Shut, Handshake, Socket
    <2> QED
      BY <2>2, <2>3 DEF Sound
  <1>4. CASE s.size = 0 /\ s.state = "CLOSE_WAIT"
    <2>1. SendsFin(u, t, "LAST_ACK")
      BY <1>1, <1>4, DoCloseFields
    <2>2. ShutdownSend(s) = t
      BY <1>4 DEF ShutdownSend, u
    <2> HIDE DEF t
    <2>3. Open(t, more) /\ t.endPoint /\ t \in Socket /\ t.state # "CLOSED"
      BY <1>1, <1>4, <2>1 DEF SendsFin, Same, Open, Shut, Handshake, Socket
    <2> QED
      BY <2>2, <2>3 DEF Sound
  <1>5. CASE ~ (s.size = 0 /\ s.state \in {"ESTABLISHED", "CLOSE_WAIT"})
    <2>1. ShutdownSend(s) = u
      BY <1>5 DEF ShutdownSend, u
    <2> QED
      BY <1>2, <2>1
  <1> QED
    BY <1>3, <1>4, <1>5

\* What Open says, but for the retransmission timer.
Told(s, more) ==
    /\ s.state = "TIME_WAIT" => s.timewaitEvent
    /\ s.lastAckEvent => s.state = "LAST_ACK"
    /\ s.state \in {"FIN_WAIT_1", "FIN_WAIT_2"} => Shut(s, more)
    /\ s.closeOnEmpty /\ s.state = "ESTABLISHED" => Shut(s, more)

LEMMA SendDataSound ==
    ASSUME NEW s \in Socket, s.endPoint, NEW more \in BOOLEAN, Told(s, more),
           s.size > 0, s.state \notin Handshake \cup {"CLOSED"}
    PROVE  Sound(SendDataPacket(s), more) /\ SendDataPacket(s).endPoint
  <1> DEFINE t == SendDataPacket(s)
  <1>1. SendsData(s, t)
    BY SendDataFields
  <1> HIDE DEF t
  <1>2. t \in Socket /\ t.endPoint /\ t.retxEvent # "none" /\ t.size > 0
    BY <1>1 DEF SendsData
  <1>3. /\ t.lastAckEvent = s.lastAckEvent /\ t.timewaitEvent = s.timewaitEvent
        /\ Shut(t, more) = Shut(s, more) /\ t.closeOnEmpty = s.closeOnEmpty
    BY <1>1 DEF SendsData, Shut
  <1>4. \/ s.state = "ESTABLISHED" /\ s.closeOnEmpty /\ t.state = "FIN_WAIT_1"
        \/ s.state = "CLOSE_WAIT" /\ s.closeOnEmpty /\ t.state = "LAST_ACK"
        \/ t.state = s.state
    BY <1>1 DEF SendsData
  <1>5. Open(t, more) /\ t.state # "CLOSED"
    BY <1>2, <1>3, <1>4 DEF Open, Told, Handshake
  <1> QED
    BY <1>2, <1>5 DEF Sound, t

LEMMA SendPendingSound ==
    ASSUME NEW s \in Socket, s.endPoint, NEW more \in BOOLEAN, Open(s, more),
           s.state \notin Handshake \cup {"CLOSED"}, NEW resend \in BOOLEAN
    PROVE  Sound(SendPendingData(s, resend), more) /\ SendPendingData(s, resend).endPoint
  <1>1. Told(s, more)
    BY DEF Open, Told
  <1>2. CASE SendPendingData(s, resend) = s
    BY <1>2 DEF Sound
  <1>3. CASE SendPendingData(s, resend) = SendDataPacket(s) /\ s.size > 0
    BY <1>1, <1>3, SendDataSound
  <1> QED
    BY <1>2, <1>3 DEF SendPendingData

-----------------------------------------------------------------------------
(* The peer has closed.                                                     *)

LEMMA OneOf == ASSUME NEW v PROVE (CHOOSE t \in {v} : TRUE) = v
  OBVIOUS

\* The parts of DoPeerClose.
PeerGone(s) ==
    [s EXCEPT !.state = "CLOSE_WAIT", !.closeNotified = TRUE,
              !.failed = @ \/ s.state \notin {"ESTABLISHED", "SYN_RCVD",
                                              "FIN_WAIT_1", "FIN_WAIT_2"}]
Reacted(s, reacts) ==
    IF reacts /\ ~ s.closeNotified THEN Close(PeerGone(s)) ELSE PeerGone(s)
Replied(s, x) == IF s.shutdownSend THEN Close(x) ELSE SendEmptyPacket(x, "ACK")
Guarded(x) ==
    IF x.state = "LAST_ACK"
    THEN [x EXCEPT !.dataRetrCount = DataRetries, !.lastAckEvent = TRUE] ELSE x

LEMMA DoPeerCloseIs ==
    ASSUME NEW s, NEW reacts
    PROVE  DoPeerClose(s, reacts) = Guarded(Replied(s, Reacted(s, reacts)))
  <1> DEFINE told     == Reacted(s, reacts)
             Reply(x) == Replied(s, x)
             u        == CHOOSE t \in {Reply(x) : x \in {told}} : TRUE
  <1>1. {Reply(x) : x \in {told}} = {Reply(told)}
    OBVIOUS
  <1>2. u = Reply(told)
    BY <1>1, OneOf
  <1>3. {Guarded(x) : x \in {u}} = {Guarded(u)}
    OBVIOUS
  <1>4. DoPeerClose(s, reacts) = CHOOSE t \in {Guarded(x) : x \in {u}} : TRUE
    BY DEF DoPeerClose, Then, PeerGone, Reacted, Replied, Guarded
  <1> HIDE DEF u
  <1> QED
    BY <1>2, <1>3, <1>4, OneOf

\* An ACK or FIN of s without data.
Reply(s, m) ==
    /\ m.len = 0 /\ m.ack = s.rcvNext /\ m.seq \in {s.nextTx, s.nextTx + 1}
    /\ m.kind \in {"ACK", "FIN+ACK"} /\ (m.kind = "FIN+ACK" => m.seq = s.nextTx)

\* Close need not wait for data.
Sent(s) == ~ (s.size > 0 /\ s.una + s.size > s.nextTx)

\* In CLOSE_WAIT or LAST_ACK: t is s after acknowledging or closing.
Waits(s, t) ==
    /\ t \in Socket /\ t.endPoint = s.endPoint
    /\ t.state = s.state \/ (s.state = "CLOSE_WAIT" /\ t.state = "LAST_ACK")
    /\ t.nextTx = s.nextTx /\ t.highTx = s.highTx /\ t.una = s.una /\ t.size = s.size
    /\ t.rcvNext = s.rcvNext /\ t.rxData = s.rxData
    /\ t.gotFin = s.gotFin /\ t.finSeq = s.finSeq
    /\ t.shutdownSend = s.shutdownSend /\ (s.closeOnEmpty => t.closeOnEmpty)
    /\ t.lastAckEvent = s.lastAckEvent /\ t.timewaitEvent = s.timewaitEvent
    /\ t.failed = s.failed
    /\ s.retxEvent # "none" => t.retxEvent = s.retxEvent
    /\ t.state = s.state => t.retxEvent = s.retxEvent
    /\ t.retxEvent # s.retxEvent => t.retxEvent = "FIN+ACK"
    /\ t.state # s.state => Sent(s)
    /\ \A m \in Segs(t.out) : m \in Segs(s.out) \/ Reply(s, m)
    /\ t.state = s.state => \A m \in Segs(t.out) : m \in Segs(s.out) \/ m.kind = "ACK"

LEMMA WaitsTrans ==
    ASSUME NEW s, NEW t, NEW u, Waits(s, t), Waits(t, u)
    PROVE  Waits(s, u)
  <1>1. \A m : Reply(t, m) => Reply(s, m)
    BY DEF Reply, Waits
  <1>2. \A m \in Segs(u.out) : m \in Segs(s.out) \/ Reply(s, m)
    BY <1>1 DEF Waits
  <1>3. u.state = s.state => \A m \in Segs(u.out) : m \in Segs(s.out) \/ m.kind = "ACK"
    BY DEF Waits
  <1>4. u.state = s.state => u.retxEvent = s.retxEvent
    BY DEF Waits
  <1>5. /\ s.retxEvent # "none" => u.retxEvent = s.retxEvent
        /\ u.retxEvent # s.retxEvent => u.retxEvent = "FIN+ACK"
    BY DEF Waits
  <1>6. u.state = s.state \/ (s.state = "CLOSE_WAIT" /\ u.state = "LAST_ACK")
    BY DEF Waits
  <1>7. u.state # s.state => Sent(s)
    BY DEF Waits, Sent
  <1> QED
    BY <1>2, <1>3, <1>4, <1>5, <1>6, <1>7 DEF Waits

LEMMA EmptyReply ==
    ASSUME NEW s \in Socket, NEW k \in {"ACK", "FIN+ACK"}
    PROVE  Reply(s, EmptySegment(s, k)) /\ EmptySegment(s, k).kind = k
  <1>1. k \in Kinds
    BY DEF Kinds
  <1> QED
    BY <1>1, EmptySegmentType DEF Reply

LEMMA AckWaits ==
    ASSUME NEW s \in Socket, s.endPoint
    PROVE  Waits(s, SendEmptyPacket(s, "ACK"))
  <1> DEFINE t == SendEmptyPacket(s, "ACK")
             e == EmptySegment(s, "ACK")
  <1>1. /\ t \in Socket /\ Sends(s, t) /\ t.retxEvent = s.retxEvent
        /\ Segs(t.out) = Segs(s.out) \cup {e}
    BY SendEmpty
  <1>2. Reply(s, e) /\ e.kind = "ACK"
    BY EmptyReply
  <1> HIDE DEF t, e
  <1> QED
    BY <1>1, <1>2 DEF Waits, Sends, Same, t

LEMMA CloseWaits ==
    ASSUME NEW s \in Socket, s.endPoint, s.state \in {"CLOSE_WAIT", "LAST_ACK"}
    PROVE  /\ Waits(s, Close(s))
           /\ Close(s).state = "CLOSE_WAIT" => Close(s).size > 0 /\ Close(s).closeOnEmpty
  <1>1. CASE s.size > 0 /\ s.una + s.size > s.nextTx
    <2> DEFINE u == [s EXCEPT !.closeOnEmpty = TRUE]
    <2>1. Close(s) = u
      BY <1>1 DEF Close
    <2>2. Waits(s, u) /\ u.size = s.size /\ u.closeOnEmpty
      BY DEF Waits, Socket
    <2> QED
      BY <1>1, <2>1, <2>2
  <1>2. CASE ~ (s.size > 0 /\ s.una + s.size > s.nextTx)
    <2> DEFINE t == DoClose(s)
               e == EmptySegment(s, "FIN+ACK")
    <2>1. Close(s) = t
      BY <1>2 DEF Close
    <2>2. CASE s.state = "CLOSE_WAIT"
      <3>1. SendsFin(s, t, "LAST_ACK")
        BY <2>2, DoCloseFields
      <3>2. Reply(s, e) /\ Segs(t.out) = Segs(s.out) \cup {e}
        BY <3>1, EmptyReply DEF SendsFin
      <3> HIDE DEF t, e
      <3>3. Waits(s, t) /\ t.state = "LAST_ACK"
        BY <1>2, <2>2, <3>1, <3>2 DEF Waits, SendsFin, Same, Sent
      <3> QED
        BY <2>1, <3>3
    <2>3. CASE s.state = "LAST_ACK"
      <3>1. t = s
        BY <2>3, DoCloseFields
      <3> QED
        BY <2>1, <2>3, <3>1 DEF Waits
    <2> QED
      BY <2>2, <2>3
  <1> QED
    BY <1>1, <1>2

\* What DoPeerClose makes of a socket.
PeerClosed(s, t) ==
    /\ t \in Socket /\ t.endPoint /\ t.state \in {"CLOSE_WAIT", "LAST_ACK"}
    /\ t.nextTx = s.nextTx /\ t.highTx = s.highTx /\ t.una = s.una /\ t.size = s.size
    /\ t.rcvNext = s.rcvNext /\ t.rxData = s.rxData
    /\ t.gotFin = s.gotFin /\ t.finSeq = s.finSeq
    /\ t.shutdownSend = s.shutdownSend /\ (s.closeOnEmpty => t.closeOnEmpty)
    /\ t.state = "LAST_ACK" => t.lastAckEvent /\ Sent(s)
    /\ t.state = "CLOSE_WAIT" =>
           /\ t.lastAckEvent = s.lastAckEvent /\ t.retxEvent = s.retxEvent
           /\ s.shutdownSend => t.size > 0 /\ t.closeOnEmpty
           /\ \A m \in Segs(t.out) : m \in Segs(s.out) \/ m.kind = "ACK"
    /\ t.failed <=> s.failed \/ s.state \notin {"ESTABLISHED", "SYN_RCVD", "FIN_WAIT_1",
                                                "FIN_WAIT_2"}
    /\ \A m \in Segs(t.out) : m \in Segs(s.out) \/ Reply(s, m)
    /\ t.retxEvent \in {s.retxEvent, "FIN+ACK"}

LEMMA DoPeerCloseFields ==
    ASSUME NEW s \in Socket, s.endPoint, NEW reacts \in BOOLEAN
    PROVE  PeerClosed(s, DoPeerClose(s, reacts))
  <1> DEFINE w == PeerGone(s)
             a == Reacted(s, reacts)
             b == Replied(s, a)
             t == Guarded(b)
  <1>1. /\ w \in Socket /\ w.endPoint /\ w.state = "CLOSE_WAIT"
        /\ w.nextTx = s.nextTx /\ w.highTx = s.highTx /\ w.una = s.una /\ w.size = s.size
        /\ w.rcvNext = s.rcvNext /\ w.rxData = s.rxData
        /\ w.gotFin = s.gotFin /\ w.finSeq = s.finSeq
        /\ w.shutdownSend = s.shutdownSend /\ w.closeOnEmpty = s.closeOnEmpty
        /\ w.lastAckEvent = s.lastAckEvent /\ w.timewaitEvent = s.timewaitEvent
        /\ w.retxEvent = s.retxEvent /\ w.out = s.out
    BY DEF PeerGone, Socket, States
  <1>2. w.failed <=> s.failed \/ s.state \notin {"ESTABLISHED", "SYN_RCVD", "FIN_WAIT_1",
                                                 "FIN_WAIT_2"}
    BY DEF PeerGone, Socket
  <1>3. Waits(w, a)
    <2>1. CASE reacts /\ ~ s.closeNotified
      <3>1. a = Close(w)
        BY <2>1 DEF Reacted
      <3> HIDE DEF w, a
      <3> QED
        BY <1>1, <3>1, CloseWaits
    <2>2. CASE ~ (reacts /\ ~ s.closeNotified)
      <3>1. a = w
        BY <2>2 DEF Reacted
      <3> HIDE DEF w, a
      <3> QED
        BY <1>1, <3>1 DEF Waits
    <2> QED
      BY <2>1, <2>2
  <1>4. a \in Socket /\ a.endPoint /\ a.state \in {"CLOSE_WAIT", "LAST_ACK"}
    <2> HIDE DEF w, a
    <2> QED
      BY <1>1, <1>3 DEF Waits
  <1>5. /\ Waits(a, b)
        /\ s.shutdownSend /\ b.state = "CLOSE_WAIT" => b.size > 0 /\ b.closeOnEmpty
    <2>1. CASE s.shutdownSend
      <3>1. b = Close(a)
        BY <2>1 DEF Replied
      <3> HIDE DEF a, b
      <3> QED
        BY <1>4, <2>1, <3>1, CloseWaits
    <2>2. CASE ~ s.shutdownSend
      <3>1. b = SendEmptyPacket(a, "ACK")
        BY <2>2 DEF Replied
      <3> HIDE DEF a, b
      <3> QED
        BY <1>4, <2>2, <3>1, AckWaits
    <2> QED
      BY <2>1, <2>2
  <1> HIDE DEF a, b, w
  <1>6. Waits(w, b)
    BY <1>3, <1>5, WaitsTrans
  <1>7. b \in Socket /\ b.state \in {"CLOSE_WAIT", "LAST_ACK"} /\ b.endPoint
    BY <1>1, <1>6 DEF Waits
  <1>8. /\ t \in Socket /\ t.endPoint = b.endPoint /\ t.state = b.state
        /\ t.nextTx = b.nextTx /\ t.highTx = b.highTx /\ t.una = b.una /\ t.size = b.size
        /\ t.rcvNext = b.rcvNext /\ t.rxData = b.rxData
        /\ t.gotFin = b.gotFin /\ t.finSeq = b.finSeq
        /\ t.shutdownSend = b.shutdownSend /\ t.closeOnEmpty = b.closeOnEmpty
        /\ t.failed = b.failed /\ t.retxEvent = b.retxEvent /\ t.out = b.out
        /\ t.state = "LAST_ACK" => t.lastAckEvent
        /\ t.state = "CLOSE_WAIT" => t.lastAckEvent = b.lastAckEvent
    <2>1. CASE b.state = "LAST_ACK"
      <3>1. t = [b EXCEPT !.dataRetrCount = DataRetries, !.lastAckEvent = TRUE]
        BY <2>1 DEF Guarded
      <3>2. DataRetries \in Nat
        BY ConnectionAssumption
      <3> HIDE DEF t
      <3> QED
        BY <1>7, <2>1, <3>1, <3>2 DEF Socket
    <2>2. CASE b.state # "LAST_ACK"
      <3>1. t = b
        BY <2>2 DEF Guarded
      <3> HIDE DEF t
      <3> QED
        BY <1>7, <2>2, <3>1
    <2> QED
      BY <2>1, <2>2
  <1> HIDE DEF t
  <1>9. \A m : Reply(w, m) => Reply(s, m)
    BY <1>1 DEF Reply
  <1>10. PeerClosed(s, t)
    <2>1. \A m \in Segs(t.out) : m \in Segs(s.out) \/ Reply(s, m)
      BY <1>1, <1>6, <1>8, <1>9 DEF Waits
    <2>2. t.state = "CLOSE_WAIT" =>
           /\ t.lastAckEvent = s.lastAckEvent /\ t.retxEvent = s.retxEvent
           /\ s.shutdownSend => t.size > 0 /\ t.closeOnEmpty
           /\ \A m \in Segs(t.out) : m \in Segs(s.out) \/ m.kind = "ACK"
      BY <1>1, <1>5, <1>6, <1>8 DEF Waits
    <2>3. t.retxEvent \in {s.retxEvent, "FIN+ACK"}
      BY <1>1, <1>6, <1>8 DEF Waits
    <2>4. t.state = "LAST_ACK" => Sent(s)
      BY <1>1, <1>6, <1>8 DEF Waits, Sent
    <2> QED
      BY <1>1, <1>2, <1>6, <1>7, <1>8, <2>1, <2>2, <2>3, <2>4 DEF Waits, PeerClosed
  <1>11. DoPeerClose(s, reacts) = t
    BY DoPeerCloseIs DEF t, b, a
  <1> QED
    BY <1>10, <1>11

\* A socket whose peer may close: what DoPeerClose relies on.
Half(s, more) ==
    /\ s.state \in {"ESTABLISHED", "SYN_RCVD", "FIN_WAIT_1", "FIN_WAIT_2", "CLOSE_WAIT"}
    /\ ~ s.lastAckEvent
    /\ s.state \in {"ESTABLISHED", "SYN_RCVD"} /\ s.retxEvent = "data" => s.size > 0
    /\ s.state = "CLOSE_WAIT" /\ s.retxEvent = "data" /\ s.size = 0 => ~ more
    /\ s.state \in {"FIN_WAIT_1", "FIN_WAIT_2"} => Shut(s, more)

LEMMA PeerClosedSound ==
    ASSUME NEW s \in Socket, NEW t, NEW more \in BOOLEAN, Half(s, more), PeerClosed(s, t)
    PROVE  Sound(t, more) /\ t.endPoint /\ Open(t, more) /\ t.state \in {"CLOSE_WAIT", "LAST_ACK"}
  <1>1. t \in Socket /\ t.endPoint /\ t.state \in {"CLOSE_WAIT", "LAST_ACK"}
    BY DEF PeerClosed
  <1>2. CASE t.state = "LAST_ACK"
    BY <1>1, <1>2 DEF PeerClosed, Sound, Open, Handshake
  <1>3. CASE t.state = "CLOSE_WAIT"
    <2>1. ~ t.lastAckEvent
      BY <1>3 DEF PeerClosed, Half
    <2>2. ASSUME t.retxEvent = "data", t.size = 0 PROVE ~ more
      <3>1. s.retxEvent = "data" /\ s.size = 0 /\ ~ s.shutdownSend
        BY <1>3, <2>2 DEF PeerClosed
      <3> QED
        BY <3>1 DEF Half, Shut
    <2> QED
      BY <1>1, <1>3, <2>1, <2>2 DEF Sound, Open, Handshake
  <1> QED
    BY <1>1, <1>2, <1>3

-----------------------------------------------------------------------------
(* Receiving data.                                                          *)

\* An acknowledgment without data.
Plain(t, m) == m.kind = "ACK" /\ m.len = 0 /\ m.ack = t.rcvNext

\* t is s after it has taken, and perhaps acknowledged, data.
Goes(s, t) ==
    /\ t \in Socket /\ t.endPoint = s.endPoint /\ t.state = s.state
    /\ t.nextTx = s.nextTx /\ t.highTx = s.highTx /\ t.una = s.una /\ t.size = s.size
    /\ t.gotFin = s.gotFin /\ t.finSeq = s.finSeq
    /\ t.shutdownSend = s.shutdownSend /\ t.closeOnEmpty = s.closeOnEmpty
    /\ t.lastAckEvent = s.lastAckEvent /\ t.timewaitEvent = s.timewaitEvent
    /\ t.sendPendingDataEvent = s.sendPendingDataEvent
    /\ t.failed = s.failed /\ t.retxEvent = s.retxEvent
    /\ t.rcvNext >= s.rcvNext
    /\ \A m \in Segs(t.out) : m \in Segs(s.out) \/ Plain(t, m)

LEMMA GoesOpen ==
    ASSUME NEW s \in Socket, NEW t, NEW more \in BOOLEAN, Goes(s, t), Open(s, more)
    PROVE  Open(t, more)
  BY DEF Goes, Open, Shut

\* An ACK changes nothing else.
LEMMA AckGoes ==
    ASSUME NEW s \in Socket, s.endPoint
    PROVE  LET t == SendEmptyPacket(s, "ACK")
           IN  Goes(s, t) /\ t.rcvNext = s.rcvNext /\ t.rxData = s.rxData
  <1> DEFINE t == SendEmptyPacket(s, "ACK")
             e == EmptySegment(s, "ACK")
  <1>1. /\ t \in Socket /\ Sends(s, t) /\ t.retxEvent = s.retxEvent
        /\ Segs(t.out) = Segs(s.out) \cup {e}
    BY SendEmpty
  <1>2. e.kind = "ACK" /\ e.len = 0 /\ e.ack = s.rcvNext
    BY EmptyReply DEF Reply
  <1> HIDE DEF t, e
  <1>3. \A m \in Segs(t.out) : m \in Segs(s.out) \/ Plain(t, m)
    BY <1>1, <1>2 DEF Plain, Sends, Same
  <1>4. t.rcvNext = s.rcvNext /\ t.rcvNext >= s.rcvNext /\ t.rxData = s.rxData
    BY <1>1 DEF Sends, Same, Socket
  <1>5. Goes(s, t)
    BY <1>1, <1>3, <1>4 DEF Goes, Sends, Same
  <1> QED
    BY <1>4, <1>5 DEF t

\* The new next byte, when the segment is new.
After(s, seg) ==
    IF s.gotFin /\ s.finSeq = seg.seq + seg.len THEN seg.seq + seg.len + 1
                                                ELSE seg.seq + seg.len

\* AddData.
LEMMA AddDataFields ==
    ASSUME NEW s \in Socket, NEW seg \in Segment, seg.seq + seg.len > s.rcvNext
    PROVE  LET t == AddData(s, seg)
           IN  /\ Goes(s, t) /\ t.rxData /\ t.out = s.out
               /\ t.rcvNext = After(s, seg) /\ t.rcvNext > s.rcvNext
  <1> DEFINE n == After(s, seg)
             t == [s EXCEPT !.rxData = TRUE, !.rcvNext = n]
  <1>1. n \in Nat /\ n > s.rcvNext /\ n >= s.rcvNext
    BY DEF Socket, Segment, After
  <1>2. AddData(s, seg) = t
    BY DEF AddData, After
  <1> HIDE DEF n
  <1>3. t \in Socket /\ t.rcvNext = n /\ t.out = s.out
    BY <1>1 DEF Socket
  <1>4. Goes(s, t) /\ t.rxData
    BY <1>1, <1>3 DEF Goes, Socket
  <1> HIDE DEF t
  <1> QED
    BY <1>1, <1>2, <1>3, <1>4 DEF n

\* What the data of a segment leads to.
Takes(s, t, seg) ==
    \/ /\ Goes(s, t) /\ t.rcvNext = s.rcvNext /\ seg.seq + seg.len <= s.rcvNext
       /\ t.rxData = s.rxData
    \/ /\ Goes(s, t) /\ t.rcvNext = After(s, seg) /\ seg.seq + seg.len > s.rcvNext
       /\ t.rxData
    \/ /\ seg.seq + seg.len > s.rcvNext /\ Finished(AddData(s, seg)) /\ ~ HasFin(seg.kind)
       /\ PeerClosed(AddData(s, seg), t)

LEMMA ReceivedDataFields ==
    ASSUME NEW s \in Socket, s.endPoint, NEW seg \in Segment, NEW reacts \in BOOLEAN
    PROVE  Takes(s, ReceivedData(s, seg, reacts), seg)
  <1> DEFINE new == AddData(s, seg)
             t   == ReceivedData(s, seg, reacts)
  <1>0. s.rcvNext \in Nat /\ seg.seq + seg.len \in Nat
    BY DEF Socket, Segment
  <1>1. CASE seg.seq + seg.len <= s.rcvNext
    <2>0. ~ (seg.seq + seg.len > s.rcvNext)
      BY <1>0, <1>1
    <2>1. t = SendEmptyPacket(s, "ACK")
      BY <1>1, <2>0 DEF ReceivedData
    <2> HIDE DEF t
    <2>2. Goes(s, t) /\ t.rcvNext = s.rcvNext /\ t.rxData = s.rxData
      BY <2>1, AckGoes
    <2> QED
      BY <1>1, <2>2 DEF Takes, t
  <1>2. CASE seg.seq + seg.len > s.rcvNext
    <2>1. /\ Goes(s, new) /\ new.out = s.out /\ new.rxData
          /\ new.rcvNext = After(s, seg) /\ new.rcvNext > s.rcvNext
      BY <1>2, AddDataFields
    <2>2. new \in Socket /\ new.endPoint
      BY <2>1 DEF Goes
    <2>3. CASE Finished(new) /\ ~ HasFin(seg.kind)
      <3>1. t = DoPeerClose(new, reacts)
        BY <1>0, <1>2, <2>3 DEF ReceivedData
      <3> HIDE DEF t
      <3>2. PeerClosed(new, t)
        <4> HIDE DEF new
        <4> QED
          BY <2>2, <3>1, DoPeerCloseFields
      <3> QED
        BY <1>2, <2>3, <3>2 DEF Takes, t
    <2>4. CASE t = SendEmptyPacket(new, "ACK")
      <3> HIDE DEF t
      <3>1. Goes(new, t) /\ t.rcvNext = new.rcvNext /\ t.rxData = new.rxData
        <4> HIDE DEF new
        <4> QED
          BY <2>2, <2>4, AckGoes
      <3> HIDE DEF new
      <3>2. Goes(s, t)
        BY <2>1, <2>2, <3>1 DEF Goes, Socket
      <3> QED
        BY <1>2, <2>1, <3>1, <3>2 DEF Takes, t
    <2>5. CASE t = [new EXCEPT !.delAckEvent = TRUE]
      <3> HIDE DEF t, new
      <3>1. Goes(s, t) /\ t.rcvNext = new.rcvNext /\ t.rxData = new.rxData
        BY <2>1, <2>2, <2>5 DEF Goes, Socket
      <3> QED
        BY <1>2, <2>1, <3>1 DEF Takes, t
    <2>6. ~ (seg.seq + seg.len <= s.rcvNext)
      BY <1>0, <1>2
    <2>7. t = IF Finished(new) /\ ~ HasFin(seg.kind) THEN DoPeerClose(new, reacts)
              ELSE IF s.quickAck \/ new.rcvNext > seg.seq + seg.len
              THEN SendEmptyPacket(new, "ACK")
              ELSE [new EXCEPT !.delAckEvent = TRUE]
      BY <1>2, <2>6 DEF ReceivedData
    <2> HIDE DEF new
    <2>8. \/ Finished(new) /\ ~ HasFin(seg.kind)
          \/ t = SendEmptyPacket(new, "ACK")
          \/ t = [new EXCEPT !.delAckEvent = TRUE]
      <3> HIDE DEF t
      <3> QED
        BY <2>7
    <2> QED
      BY <2>3, <2>4, <2>5, <2>8
  <1> QED
    BY <1>0, <1>1, <1>2

-----------------------------------------------------------------------------
(* Acknowledgments.                                                         *)

\* The parts of ReceivedAck.
Processed(s, seg) ==
    CASE seg.ack > s.una -> NewAck([s EXCEPT !.una = seg.ack, !.size = 0], seg.ack)
      [] seg.ack = s.una /\ seg.ack > s.highTx -> [s EXCEPT !.nextTx = seg.ack]
      [] OTHER -> s
SentMore(s, seg, x) == IF seg.ack < s.una THEN x ELSE SendPendingData(x, FALSE)

LEMMA ReceivedAckIs ==
    ASSUME NEW s, NEW seg, NEW reacts
    PROVE  ReceivedAck(s, seg, reacts) =
               SentMore(s, seg, PiggybackedData(Processed(s, seg), seg, reacts))
  <1> DEFINE p           == Processed(s, seg)
             Store(x)    == PiggybackedData(x, seg, reacts)
             SendMore(x) == SentMore(s, seg, x)
             u           == CHOOSE t \in {Store(x) : x \in {p}} : TRUE
  <1>1. {Store(x) : x \in {p}} = {Store(p)}
    OBVIOUS
  <1>2. u = Store(p)
    BY <1>1, OneOf
  <1>3. {SendMore(x) : x \in {u}} = {SendMore(u)}
    OBVIOUS
  <1>4. ReceivedAck(s, seg, reacts) = CHOOSE t \in {SendMore(x) : x \in {u}} : TRUE
    BY DEF ReceivedAck, Then, Processed, SentMore
  <1> HIDE DEF u
  <1> QED
    BY <1>2, <1>3, <1>4, OneOf

\* u is s after the acknowledgment of seg was processed.
Acked(s, u, seg) ==
    /\ u \in Socket /\ u.endPoint = s.endPoint /\ u.state = s.state
    /\ u.highTx = s.highTx /\ u.rcvNext = s.rcvNext /\ u.rxData = s.rxData
    /\ u.gotFin = s.gotFin /\ u.finSeq = s.finSeq
    /\ u.shutdownSend = s.shutdownSend /\ u.closeOnEmpty = s.closeOnEmpty
    /\ u.lastAckEvent = s.lastAckEvent /\ u.timewaitEvent = s.timewaitEvent
    /\ u.sendPendingDataEvent = s.sendPendingDataEvent
    /\ u.failed = s.failed /\ u.out = s.out
    /\ \/ /\ seg.ack <= s.una /\ u.una = s.una /\ u.size = s.size /\ u.retxEvent = s.retxEvent
          /\ u.nextTx = s.nextTx \/ (u.nextTx = s.una /\ s.una > s.highTx)
       \/ /\ seg.ack > s.una /\ u.una = seg.ack /\ u.size = 0
          /\ u.nextTx = (IF seg.ack > s.nextTx THEN seg.ack ELSE s.nextTx)
          /\ u.retxEvent = IF s.state \in {"FIN_WAIT_1", "CLOSING"} THEN "data" ELSE "none"

LEMMA ProcessedFields ==
    ASSUME NEW s \in Socket, NEW seg \in Segment
    PROVE  Acked(s, Processed(s, seg), seg)
  <1> DEFINE u == Processed(s, seg)
  <1>0. seg.ack \in Nat /\ s.una \in Nat /\ s.highTx \in Nat /\ s.nextTx \in Nat
    BY DEF Socket, Segment
  <1>1. CASE seg.ack > s.una
    <2> DEFINE n == IF seg.ack > s.nextTx THEN seg.ack ELSE s.nextTx
               r == IF s.state \in {"FIN_WAIT_1", "CLOSING"} THEN "data" ELSE "none"
               a == seg.ack
               v == [s EXCEPT !.una = a, !.size = 0]
               t == [v EXCEPT !.dataRetrCount = DataRetries, !.nextTx = n, !.retxEvent = r]
    <2>1. ~ (seg.ack = s.una)
      BY <1>0, <1>1
    <2>2. v \in Socket /\ v.nextTx = s.nextTx /\ v.state = s.state /\ v.size = 0
      BY <1>0 DEF Socket
    <2>3. u = NewAck(v, seg.ack)
      BY <1>1, <2>1 DEF Processed
    <2>4. NewAck(v, seg.ack) = t
      <3> HIDE DEF v
      <3> QED
        BY <2>2 DEF NewAck
    <2>5. /\ n \in Nat /\ n \in {s.nextTx, seg.ack} /\ n >= s.nextTx /\ n >= seg.ack
          /\ r \in RetxKinds /\ DataRetries \in Nat
      BY <1>0, ConnectionAssumption DEF RetxKinds
    <2> HIDE DEF n, r
    <2>6. t \in Socket /\ t.nextTx = n /\ t.retxEvent = r /\ t.una = a /\ t.size = 0
      BY <1>0, <2>5 DEF Socket
    <2>7. /\ t.endPoint = s.endPoint /\ t.state = s.state
          /\ t.highTx = s.highTx /\ t.rcvNext = s.rcvNext /\ t.rxData = s.rxData
          /\ t.gotFin = s.gotFin /\ t.finSeq = s.finSeq
          /\ t.shutdownSend = s.shutdownSend /\ t.closeOnEmpty = s.closeOnEmpty
          /\ t.lastAckEvent = s.lastAckEvent /\ t.timewaitEvent = s.timewaitEvent
          /\ t.sendPendingDataEvent = s.sendPendingDataEvent
          /\ t.failed = s.failed /\ t.out = s.out
      BY DEF Socket
    <2> HIDE DEF t, u
    <2>8. u = t
      BY <2>3, <2>4
    <2> QED
      BY <1>1, <2>5, <2>6, <2>7, <2>8 DEF Acked, u, r, n
  <1>2. CASE seg.ack = s.una /\ seg.ack > s.highTx
    <2>1. u = [s EXCEPT !.nextTx = seg.ack]
      BY <1>0, <1>2 DEF Processed
    <2> HIDE DEF u
    <2> QED
      BY <1>0, <1>2, <2>1 DEF Acked, Socket, u
  <1>3. CASE ~ (seg.ack > s.una) /\ ~ (seg.ack = s.una /\ seg.ack > s.highTx)
    <2>1. u = s
      BY <1>3 DEF Processed
    <2>2. seg.ack <= s.una
      BY <1>0, <1>3
    <2> HIDE DEF u
    <2> QED
      BY <2>1, <2>2 DEF Acked, u
  <1> QED
    BY <1>1, <1>2, <1>3

LEMMA AckedOpen ==
    ASSUME NEW s \in Socket, NEW u, NEW seg, NEW more \in BOOLEAN, Acked(s, u, seg), Open(s, more),
           s.state \in {"ESTABLISHED", "FIN_WAIT_1", "FIN_WAIT_2", "CLOSE_WAIT"}
    PROVE  Open(u, more) /\ u \in Socket /\ u.endPoint = s.endPoint /\ u.state = s.state
  <1>1. u \in Socket /\ u.endPoint = s.endPoint /\ u.state = s.state
    BY DEF Acked
  <1>2. /\ u.lastAckEvent = s.lastAckEvent /\ u.closeOnEmpty = s.closeOnEmpty
        /\ Shut(u, more) = Shut(s, more)
    BY DEF Acked, Shut
  <1>3. \/ u.size = s.size /\ u.retxEvent = s.retxEvent
        \/ u.retxEvent = "data" /\ s.state = "FIN_WAIT_1"
        \/ u.retxEvent = "none" /\ s.state # "FIN_WAIT_1"
    BY DEF Acked
  <1>4. Open(u, more)
    BY <1>1, <1>2, <1>3 DEF Open, Handshake
  <1> QED
    BY <1>1, <1>4

LEMMA OpenIsHalf ==
    ASSUME NEW s \in Socket, NEW more \in BOOLEAN, Open(s, more),
           s.state \in {"ESTABLISHED", "FIN_WAIT_1", "FIN_WAIT_2", "CLOSE_WAIT"}
    PROVE  Half(s, more)
  BY DEF Open, Half

LEMMA PiggybackedSound ==
    ASSUME NEW s \in Socket, s.endPoint, NEW seg \in Segment, NEW reacts \in BOOLEAN,
           NEW more \in BOOLEAN, Open(s, more),
           s.state \in {"ESTABLISHED", "FIN_WAIT_1", "FIN_WAIT_2", "CLOSE_WAIT"}
    PROVE  LET t == PiggybackedData(s, seg, reacts)
           IN  /\ t \in Socket /\ t.endPoint /\ Open(t, more)
               /\ t.state \in {s.state, "CLOSE_WAIT", "LAST_ACK"}
  <1> DEFINE t == PiggybackedData(s, seg, reacts)
             new == AddData(s, seg)
  <1>1. CASE ~ (seg.len > 0)
    BY <1>1 DEF PiggybackedData
  <1>2. CASE seg.len > 0
    <2>1. t = ReceivedData(s, seg, reacts)
      BY <1>2 DEF PiggybackedData
    <2>2. Takes(s, t, seg)
      BY <2>1, ReceivedDataFields
    <2> HIDE DEF t
    <2>3. CASE Goes(s, t)
      <3>1. Open(t, more)
        BY <2>3, GoesOpen
      <3> QED
        BY <2>3, <3>1 DEF Goes, t
    <2>4. CASE seg.seq + seg.len > s.rcvNext /\ PeerClosed(new, t)
      <3>1. Goes(s, new)
        BY <2>4, AddDataFields
      <3> HIDE DEF new
      <3>2. new \in Socket /\ Open(new, more) /\ new.state = s.state
        BY <3>1, GoesOpen DEF Goes
      <3>3. Half(new, more)
        BY <3>2, OpenIsHalf
      <3>4. Sound(t, more) /\ t.endPoint /\ Open(t, more) /\ t.state \in {"CLOSE_WAIT", "LAST_ACK"}
        BY <2>4, <3>2, <3>3, PeerClosedSound
      <3> QED
        BY <3>4 DEF Sound, t
    <2> QED
      BY <2>2, <2>3, <2>4 DEF Takes
  <1> QED
    BY <1>1, <1>2

LEMMA ReceivedAckSound ==
    ASSUME NEW s \in Socket, s.endPoint, NEW seg \in Segment, NEW reacts \in BOOLEAN,
           NEW more \in BOOLEAN, Open(s, more),
           s.state \in {"ESTABLISHED", "FIN_WAIT_1", "FIN_WAIT_2", "CLOSE_WAIT"}
    PROVE  LET t == ReceivedAck(s, seg, reacts)
           IN  Sound(t, more) /\ t.endPoint /\ t.state \notin Handshake
  <1> DEFINE p == Processed(s, seg)
             u == PiggybackedData(p, seg, reacts)
             t == SentMore(s, seg, u)
  <1>1. p \in Socket /\ p.endPoint /\ Open(p, more) /\ p.state = s.state
    <2>1. Acked(s, p, seg)
      BY ProcessedFields
    <2> HIDE DEF p
    <2> QED
      BY <2>1, AckedOpen
  <1>2. /\ u \in Socket /\ u.endPoint /\ Open(u, more)
        /\ u.state \in {s.state, "CLOSE_WAIT", "LAST_ACK"}
    <2> HIDE DEF p
    <2> QED
      BY <1>1, PiggybackedSound
  <1>3. ReceivedAck(s, seg, reacts) = t
    BY ReceivedAckIs
  <1> HIDE DEF p, u
  <1>4. u.state \notin Handshake \cup {"CLOSED"}
    BY <1>2 DEF Handshake
  <1>5. CASE t = u
    BY <1>2, <1>3, <1>4, <1>5 DEF Sound
  <1>6. CASE t = SendPendingData(u, FALSE)
    <2>1. Sound(t, more) /\ t.endPoint
      BY <1>2, <1>4, <1>6, SendPendingSound
    <2>2. t = u \/ SendsData(u, t)
      BY <1>2, <1>6, SendDataFields DEF SendPendingData
    <2>3. t.state \notin Handshake
      BY <1>4, <2>2 DEF SendsData, Handshake
    <2> QED
      BY <1>3, <2>1, <2>3
  <1> QED
    BY <1>5, <1>6 DEF SentMore

-----------------------------------------------------------------------------
(* A FIN outside the wait states.                                           *)

FinLeave(x, reacts) ==
    CASE ~ Finished(x) -> x
      [] Finished(x) /\ x.state = "FIN_WAIT_1" -> [x EXCEPT !.state = "CLOSING"]
      [] OTHER -> DoPeerClose(x, reacts)

FinIgnored(s, seg) == seg.seq < s.rcvNext \/ (s.gotFin /\ seg.seq > s.finSeq)

LEMMA PeerCloseIs ==
    ASSUME NEW s, NEW seg, NEW reacts, ~ FinIgnored(s, seg)
    PROVE  PeerClose(s, seg, reacts) =
               FinLeave(PiggybackedData(SetFinSequence(s, seg.seq + seg.len), seg, reacts),
                        reacts)
  <1> DEFINE n        == SetFinSequence(s, seg.seq + seg.len)
             Store(x) == PiggybackedData(x, seg, reacts)
             Leave(x) == FinLeave(x, reacts)
             u        == CHOOSE t \in {Store(x) : x \in {n}} : TRUE
  <1>1. {Store(x) : x \in {n}} = {Store(n)}
    OBVIOUS
  <1>2. u = Store(n)
    BY <1>1, OneOf
  <1>3. {Leave(x) : x \in {u}} = {Leave(u)}
    OBVIOUS
  <1>4. PeerClose(s, seg, reacts) = CHOOSE t \in {Leave(x) : x \in {u}} : TRUE
    BY DEF PeerClose, Then, FinLeave, FinIgnored
  <1> HIDE DEF u
  <1> QED
    BY <1>2, <1>3, <1>4, OneOf

\* x is s after the FIN of seg was noted and its data taken.
Fins(s, x, seg) ==
    /\ x \in Socket /\ x.endPoint = s.endPoint /\ x.state = s.state
    /\ x.nextTx = s.nextTx /\ x.highTx = s.highTx /\ x.una = s.una /\ x.size = s.size
    /\ x.gotFin /\ x.finSeq = seg.seq + seg.len
    /\ x.shutdownSend = s.shutdownSend /\ x.closeOnEmpty = s.closeOnEmpty
    /\ x.lastAckEvent = s.lastAckEvent /\ x.timewaitEvent = s.timewaitEvent
    /\ x.sendPendingDataEvent = s.sendPendingDataEvent
    /\ x.failed = s.failed /\ x.retxEvent = s.retxEvent
    /\ x.rcvNext >= s.rcvNext
    /\ x.rcvNext = s.rcvNext \/ x.rcvNext = seg.seq + seg.len + 1
    /\ seg.seq = s.rcvNext => x.rcvNext = seg.seq + seg.len + 1
    /\ s.rxData => x.rxData
    /\ x.rcvNext = s.rcvNext \/ x.rxData \/ (seg.len = 0 /\ seg.seq = s.rcvNext)
    /\ \A m \in Segs(x.out) : m \in Segs(s.out) \/ Plain(x, m)

LEMMA SetFinFields ==
    ASSUME NEW s \in Socket, NEW f \in Nat
    PROVE  LET n == SetFinSequence(s, f)
           IN  /\ n \in Socket /\ n.endPoint = s.endPoint /\ n.state = s.state
               /\ n.nextTx = s.nextTx /\ n.highTx = s.highTx /\ n.una = s.una
               /\ n.size = s.size /\ n.gotFin /\ n.finSeq = f
               /\ n.shutdownSend = s.shutdownSend /\ n.closeOnEmpty = s.closeOnEmpty
               /\ n.lastAckEvent = s.lastAckEvent /\ n.timewaitEvent = s.timewaitEvent
               /\ n.sendPendingDataEvent = s.sendPendingDataEvent
               /\ n.failed = s.failed /\ n.retxEvent = s.retxEvent
               /\ n.rcvNext = (IF s.rcvNext = f THEN s.rcvNext + 1 ELSE s.rcvNext)
               /\ n.rxData = s.rxData /\ n.out = s.out
  <1> DEFINE r == IF s.rcvNext = f THEN s.rcvNext + 1 ELSE s.rcvNext
             n == [s EXCEPT !.gotFin = TRUE, !.finSeq = f, !.rcvNext = r]
  <1>1. SetFinSequence(s, f) = n
    BY DEF SetFinSequence
  <1>2. r \in Nat
    BY DEF Socket
  <1> HIDE DEF r
  <1>3. n \in Socket
    BY <1>2 DEF Socket
  <1>4. /\ n.endPoint = s.endPoint /\ n.state = s.state
        /\ n.nextTx = s.nextTx /\ n.highTx = s.highTx /\ n.una = s.una
        /\ n.size = s.size /\ n.gotFin /\ n.finSeq = f
        /\ n.shutdownSend = s.shutdownSend /\ n.closeOnEmpty = s.closeOnEmpty
        /\ n.lastAckEvent = s.lastAckEvent /\ n.timewaitEvent = s.timewaitEvent
        /\ n.sendPendingDataEvent = s.sendPendingDataEvent
        /\ n.failed = s.failed /\ n.retxEvent = s.retxEvent
        /\ n.rcvNext = r /\ n.rxData = s.rxData /\ n.out = s.out
    BY DEF Socket
  <1> HIDE DEF n
  <1> QED
    BY <1>1, <1>3, <1>4 DEF r

LEMMA PeerCloseFields ==
    ASSUME NEW s \in Socket, s.endPoint, s.state \in {"ESTABLISHED", "SYN_RCVD"},
           NEW seg \in Segment, HasFin(seg.kind), NEW reacts \in BOOLEAN,
           ~ FinIgnored(s, seg)
    PROVE  LET t == PeerClose(s, seg, reacts)
           IN  \E x \in Socket :
                  /\ Fins(s, x, seg)
                  /\ \/ t = x /\ ~ Finished(x)
                     \/ PeerClosed(x, t) /\ Finished(x)
  <1> DEFINE f == seg.seq + seg.len
             n == SetFinSequence(s, f)
             x == PiggybackedData(n, seg, reacts)
             t == PeerClose(s, seg, reacts)
  <1>0. /\ f \in Nat /\ s.rcvNext \in Nat /\ seg.seq \in Nat /\ seg.len \in {0, 1}
        /\ seg.seq >= s.rcvNext
    BY DEF Socket, Segment, FinIgnored
  <1>1. /\ n \in Socket /\ n.endPoint = s.endPoint /\ n.state = s.state
        /\ n.nextTx = s.nextTx /\ n.highTx = s.highTx /\ n.una = s.una
        /\ n.size = s.size /\ n.gotFin /\ n.finSeq = f
        /\ n.shutdownSend = s.shutdownSend /\ n.closeOnEmpty = s.closeOnEmpty
        /\ n.lastAckEvent = s.lastAckEvent /\ n.timewaitEvent = s.timewaitEvent
        /\ n.sendPendingDataEvent = s.sendPendingDataEvent
        /\ n.failed = s.failed /\ n.retxEvent = s.retxEvent
        /\ n.rcvNext = (IF s.rcvNext = f THEN s.rcvNext + 1 ELSE s.rcvNext)
        /\ n.rxData = s.rxData /\ n.out = s.out
    BY <1>0, SetFinFields
  <1>2. t = FinLeave(x, reacts)
    BY PeerCloseIs
  <1>3. Fins(s, x, seg)
    <2>1. CASE seg.len = 0
      <3>1. x = n
        BY <2>1 DEF PiggybackedData
      <3>2. seg.seq + seg.len = seg.seq /\ seg.seq + seg.len + 1 = seg.seq + 1 /\ f = seg.seq
        BY <1>0, <2>1
      <3>3. /\ n.rcvNext >= s.rcvNext
            /\ n.rcvNext = s.rcvNext \/ n.rcvNext = seg.seq + seg.len + 1
            /\ seg.seq = s.rcvNext => n.rcvNext = seg.seq + seg.len + 1
            /\ n.rcvNext = s.rcvNext \/ seg.seq = s.rcvNext
        <4> HIDE DEF n
        <4> QED
          BY <1>0, <1>1, <3>2
      <3> HIDE DEF n, x
      <3> QED
        BY <1>1, <2>1, <3>1, <3>3 DEF Fins
    <2>2. CASE seg.len # 0
      <3>1. seg.len = 1 /\ f # s.rcvNext /\ f = seg.seq + 1 /\ f + 1 = seg.seq + seg.len + 1
        BY <1>0, <2>2
      <3>2. x = ReceivedData(n, seg, reacts)
        BY <1>0, <3>1 DEF PiggybackedData
      <3> HIDE DEF n, x
      <3>3. n.rcvNext = s.rcvNext /\ f > n.rcvNext /\ After(n, seg) = f + 1
        BY <1>0, <1>1, <3>1 DEF After
      <3>4. Takes(n, x, seg)
        BY <1>1, <3>2, ReceivedDataFields
      <3>5. Goes(n, x) /\ x.rcvNext = f + 1 /\ x.rxData
        BY <1>0, <3>3, <3>4 DEF Takes
      <3>6. /\ x.rcvNext >= s.rcvNext
            /\ x.rcvNext = seg.seq + seg.len + 1
        BY <1>0, <3>1, <3>5
      <3>7. \A m \in Segs(x.out) : m \in Segs(s.out) \/ Plain(x, m)
        BY <1>1, <3>5 DEF Goes
      <3> HIDE DEF f
      <3>8. /\ x \in Socket /\ x.endPoint = s.endPoint /\ x.state = s.state
            /\ x.nextTx = s.nextTx /\ x.highTx = s.highTx /\ x.una = s.una /\ x.size = s.size
            /\ x.gotFin /\ x.finSeq = f
            /\ x.shutdownSend = s.shutdownSend /\ x.closeOnEmpty = s.closeOnEmpty
            /\ x.lastAckEvent = s.lastAckEvent /\ x.timewaitEvent = s.timewaitEvent
            /\ x.sendPendingDataEvent = s.sendPendingDataEvent
            /\ x.failed = s.failed /\ x.retxEvent = s.retxEvent
        BY <1>1, <3>5 DEF Goes
      <3> QED
        BY <3>5, <3>6, <3>7, <3>8 DEF Fins, f
    <2> QED
      BY <2>1, <2>2
  <1> HIDE DEF n, x, t
  <1>4. x \in Socket /\ x.endPoint /\ x.state # "FIN_WAIT_1"
    BY <1>3 DEF Fins
  <1>5. CASE ~ Finished(x)
    <2>1. t = x
      BY <1>2, <1>5 DEF FinLeave
    <2> QED
      BY <1>3, <1>4, <1>5, <2>1 DEF t
  <1>6. CASE Finished(x)
    <2>1. t = DoPeerClose(x, reacts)
      BY <1>2, <1>4, <1>6 DEF FinLeave
    <2>2. PeerClosed(x, t)
      BY <1>4, <2>1, DoPeerCloseFields
    <2> QED
      BY <1>3, <1>4, <1>6, <2>2 DEF t
  <1> QED
    BY <1>5, <1>6

-----------------------------------------------------------------------------
(* A segment arrives.                                                       *)

LEMMA AckSound ==
    ASSUME NEW s \in Socket, s.endPoint, NEW more \in BOOLEAN, Open(s, more),
           s.state # "CLOSED"
    PROVE  LET t == SendEmptyPacket(s, "ACK")
           IN  Sound(t, more) /\ t.endPoint /\ t.state = s.state /\ Open(t, more)
  <1> DEFINE t == SendEmptyPacket(s, "ACK")
  <1>1. Goes(s, t)
    BY AckGoes
  <1> HIDE DEF t
  <1>2. Open(t, more)
    BY <1>1, GoesOpen
  <1> QED
    BY <1>1, <1>2 DEF Goes, Sound, t

\* A SYN or SYN+ACK is sent, or the socket gives up.
SynSent(s, t, k) ==
    \/ Leaves(s, t) /\ t.state = "CLOSED" /\ t.out = s.out
    \/ /\ t \in Socket /\ Sends(s, t)
       /\ t.retxEvent = IF s.retxEvent = "none" THEN k ELSE s.retxEvent
       /\ Segs(t.out) = Segs(s.out) \cup {EmptySegment(s, k)}

LEMMA SendSyn ==
    ASSUME NEW s \in Socket, s.endPoint, NEW k \in {"SYN", "SYN+ACK"}
    PROVE  /\ SynSent(s, SendEmptyPacket(s, k), k)
           /\ s.synCount # 0 => SendEmptyPacket(s, k).endPoint
  <1> DEFINE t == SendEmptyPacket(s, k)
             d == DeallocateEndPoint(s)
  <1>0. HasSyn(k) /\ k \in Kinds
    BY DEF HasSyn, Kinds
  <1>1. CASE s.synCount = 0
    <2>1. t = [d EXCEPT !.state = "CLOSED"]
      BY <1>0, <1>1 DEF SendEmptyPacket
    <2>2. Leaves(s, d) /\ d.out = s.out
      BY DeallocateFields
    <2> HIDE DEF d, t
    <2>3. Leaves(s, t) /\ t.state = "CLOSED" /\ t.out = s.out
      BY <2>1, <2>2 DEF Leaves, Quiet, Socket, States
    <2> QED
      BY <1>1, <2>3 DEF SynSent, t
  <1>2. CASE s.synCount # 0
    <2>1. t = EmptySent(s, k)
      BY <1>0, <1>2 DEF SendEmptyPacket
    <2>2. /\ t \in Socket /\ Sends(s, t)
          /\ t.retxEvent = IF s.retxEvent = "none" THEN k ELSE s.retxEvent
          /\ Segs(t.out) = Segs(s.out) \cup {EmptySegment(s, k)}
      BY <1>0, <1>2, <2>1, EmptySentFields
    <2> HIDE DEF t
    <2>3. t.endPoint
      BY <2>2 DEF Sends, Same
    <2> QED
      BY <2>2, <2>3 DEF SynSent, t
  <1> QED
    BY <1>1, <1>2

LEMMA ClosedSound ==
    ASSUME NEW s \in Socket, NEW more \in BOOLEAN
    PROVE  /\ Sound(CloseAndNotify(s), more)
           /\ s.endPoint => Sound(ResetAndClose(s), more)
  <1>1. Sound(CloseAndNotify(s), more)
    BY CloseAndNotifyFields, LeavesSound
  <1>2. ASSUME s.endPoint PROVE Sound(ResetAndClose(s), more)
    BY <1>2, ResetFields, LeavesSound
  <1> QED
    BY <1>1, <1>2

LEMMA PeerCloseSound ==
    ASSUME NEW s \in Socket, s.endPoint, NEW seg \in Segment, HasFin(seg.kind),
           NEW reacts \in BOOLEAN, NEW more \in BOOLEAN,
           \/ s.state = "ESTABLISHED" /\ Open(s, more)
           \/ s.state = "SYN_RCVD" /\ Half(s, more) /\ ~ s.gotFin /\ seg.seq = s.rcvNext
    PROVE  Sound(PeerClose(s, seg, reacts), more)
  <1> DEFINE t == PeerClose(s, seg, reacts)
  <1>0. seg.seq \in Nat /\ seg.len \in {0, 1} /\ s.rcvNext \in Nat
    BY DEF Socket, Segment
  <1>1. CASE FinIgnored(s, seg)
    <2>1. t = s
      BY <1>1 DEF PeerClose, FinIgnored
    <2>2. s.state = "ESTABLISHED" /\ Open(s, more)
      BY <1>0, <1>1 DEF FinIgnored
    <2> QED
      BY <2>1, <2>2 DEF Sound
  <1>2. CASE ~ FinIgnored(s, seg)
    <2>1. PICK x \in Socket :
                  /\ Fins(s, x, seg)
                  /\ \/ t = x /\ ~ Finished(x)
                     \/ PeerClosed(x, t) /\ Finished(x)
      BY <1>2, PeerCloseFields
    <2> HIDE DEF t
    <2>2. Half(x, more)
      <3>1. Half(s, more)
        BY OpenIsHalf
      <3> QED
        BY <2>1, <3>1 DEF Fins, Half, Shut
    <2>3. CASE PeerClosed(x, t)
      BY <2>2, <2>3, PeerClosedSound DEF t
    <2>4. CASE t = x /\ ~ Finished(x)
      <3>1. s.state = "ESTABLISHED" /\ Open(s, more)
        <4>1. ASSUME seg.seq = s.rcvNext PROVE Finished(x)
          <5>1. x.rcvNext = seg.seq + seg.len + 1 /\ x.gotFin /\ x.finSeq = seg.seq + seg.len
            BY <2>1, <4>1 DEF Fins
          <5> QED
            BY <1>0, <5>1 DEF Finished
        <4> QED
          BY <2>4, <4>1
      <3>2. x.state = "ESTABLISHED" /\ x.endPoint
        BY <2>1, <3>1 DEF Fins
      <3>3. Open(x, more)
        BY <2>1, <3>1, <3>2 DEF Fins, Open, Shut, Handshake
      <3> QED
        BY <2>4, <3>2, <3>3 DEF Sound, t
    <2> QED
      BY <2>1, <2>3, <2>4
  <1> QED
    BY <1>1, <1>2

LEMMA EstablishedSound ==
    ASSUME NEW s \in Socket, s.endPoint, NEW seg \in Segment, NEW reacts \in BOOLEAN,
           NEW more \in BOOLEAN, Open(s, more), s.state = "ESTABLISHED"
    PROVE  Sound(ProcessEstablished(s, seg, reacts), more)
  <1> DEFINE t == ProcessEstablished(s, seg, reacts)
  <1>1. CASE t = s
    BY <1>1 DEF Sound
  <1>2. CASE t = SendEmptyPacket(s, "ACK")
    BY <1>2, AckSound
  <1>3. CASE t = ReceivedAck(s, seg, reacts)
    BY <1>3, ReceivedAckSound
  <1>4. CASE HasFin(seg.kind) /\ t = PeerClose(s, seg, reacts)
    BY <1>4, PeerCloseSound
  <1>5. CASE t = CloseAndNotify(s) \/ t = ResetAndClose(s)
    BY <1>5, ClosedSound
  <1>6. \/ t = s \/ t = SendEmptyPacket(s, "ACK") \/ t = ReceivedAck(s, seg, reacts)
        \/ HasFin(seg.kind) /\ t = PeerClose(s, seg, reacts)
        \/ t = CloseAndNotify(s) \/ t = ResetAndClose(s)
    BY DEF ProcessEstablished, HasFin, HasSyn, Segment, Kinds
  <1> HIDE DEF t
  <1> QED
    BY <1>1, <1>2, <1>3, <1>4, <1>5, <1>6 DEF t

\* t is s after the SYN was acknowledged.
Joins(s, t) ==
    /\ t \in Socket /\ t.endPoint = s.endPoint
    /\ t.nextTx = s.nextTx + 1 /\ t.highTx = s.nextTx + 1 /\ t.una = s.nextTx + 1
    /\ t.size = s.size /\ t.rxData = s.rxData
    /\ t.gotFin = s.gotFin /\ t.finSeq = s.finSeq
    /\ t.shutdownSend = s.shutdownSend /\ t.closeOnEmpty = s.closeOnEmpty
    /\ t.lastAckEvent = s.lastAckEvent /\ t.timewaitEvent = s.timewaitEvent
    /\ t.sendPendingDataEvent = s.sendPendingDataEvent
    /\ t.failed = s.failed /\ t.retxEvent = "none" /\ t.out = s.out

LEMMA ConnectedFields ==
    ASSUME NEW s \in Socket
    PROVE  LET t == Connected(s)
           IN  Joins(s, t) /\ t.state = s.state /\ t.rcvNext = s.rcvNext
  <1> DEFINE h == s.nextTx + 1
             t == [s EXCEPT !.retxEvent = "none", !.nextTx = h, !.highTx = h, !.una = h]
  <1>1. h \in Nat
    BY DEF Socket
  <1>2. Connected(s) = t
    BY DEF Connected
  <1> HIDE DEF h
  <1>3. t \in Socket
    BY <1>1 DEF Socket, RetxKinds
  <1>4. /\ t.endPoint = s.endPoint /\ t.state = s.state /\ t.rcvNext = s.rcvNext
        /\ t.nextTx = h /\ t.highTx = h /\ t.una = h
        /\ t.size = s.size /\ t.rxData = s.rxData
        /\ t.gotFin = s.gotFin /\ t.finSeq = s.finSeq
        /\ t.shutdownSend = s.shutdownSend /\ t.closeOnEmpty = s.closeOnEmpty
        /\ t.lastAckEvent = s.lastAckEvent /\ t.timewaitEvent = s.timewaitEvent
        /\ t.sendPendingDataEvent = s.sendPendingDataEvent
        /\ t.failed = s.failed /\ t.retxEvent = "none" /\ t.out = s.out
    BY DEF Socket
  <1> HIDE DEF t
  <1> QED
    BY <1>2, <1>3, <1>4 DEF Joins, h

LEMMA JoinsOpen ==
    ASSUME NEW s \in Socket, NEW t, NEW more \in BOOLEAN, Open(s, more), Joins(s, t),
           s.state \in Handshake, t.state = "ESTABLISHED"
    PROVE  Open(t, more)
  BY DEF Joins, Open, Shut, Handshake

LEMMA SynSentSound ==
    ASSUME NEW s \in Socket, s.endPoint, NEW seg \in Segment,
           NEW more \in BOOLEAN, Open(s, more), s.state = "SYN_SENT"
    PROVE  Sound(ProcessSynSent(s, seg), more)
  <1> DEFINE c == Connected(s)
             n == seg.seq + 1
             j == [c EXCEPT !.state = "ESTABLISHED", !.rcvNext = n]
             a == SendEmptyPacket(j, "ACK")
             d == SendPendingData(a, FALSE)
             q == [d EXCEPT !.quickAck = TRUE]
             t == ProcessSynSent(s, seg)
  <1>1. Joins(s, c)
    BY ConnectedFields
  <1>2. n \in Nat
    BY DEF Segment
  <1>3. Joins(s, j) /\ j.state = "ESTABLISHED"
    <2> HIDE DEF c, n
    <2> QED
      BY <1>1, <1>2 DEF Joins, Socket, States
  <1>4. j \in Socket /\ j.endPoint /\ Open(j, more)
    <2> HIDE DEF j
    <2>1. j \in Socket /\ j.endPoint
      BY <1>3 DEF Joins
    <2> QED
      BY <1>3, <2>1, JoinsOpen DEF Handshake
  <1>5. a \in Socket /\ a.endPoint /\ Open(a, more) /\ a.state = "ESTABLISHED"
    <2> HIDE DEF j
    <2> QED
      BY <1>3, <1>4, AckSound DEF Sound
  <1>6. Sound(d, more) /\ d.endPoint
    <2> HIDE DEF a
    <2>1. a.state \notin Handshake \cup {"CLOSED"}
      BY <1>5 DEF Handshake
    <2> QED
      BY <1>5, <2>1, SendPendingSound
  <1>7. Sound(q, more)
    <2> HIDE DEF d
    <2>1. d \in Socket /\ Open(d, more) /\ d.state # "CLOSED"
      BY <1>6 DEF Sound
    <2>2. /\ q \in Socket /\ q.endPoint = d.endPoint /\ q.state = d.state
          /\ q.nextTx = d.nextTx /\ q.size = d.size /\ q.gotFin = d.gotFin
          /\ q.shutdownSend = d.shutdownSend /\ q.closeOnEmpty = d.closeOnEmpty
          /\ q.lastAckEvent = d.lastAckEvent /\ q.timewaitEvent = d.timewaitEvent
          /\ q.sendPendingDataEvent = d.sendPendingDataEvent /\ q.retxEvent = d.retxEvent
      BY <2>1 DEF Socket
    <2> HIDE DEF q
    <2>3. Open(q, more)
      BY <2>1, <2>2 DEF Open, Shut
    <2> QED
      BY <1>6, <2>1, <2>2, <2>3 DEF Sound
  <1>8. CASE t = s
    BY <1>8 DEF Sound
  <1>9. CASE t = CloseAndNotify(s) \/ t = ResetAndClose(s)
    BY <1>9, ClosedSound
  <1>10. t = s \/ t = q \/ t = CloseAndNotify(s) \/ t = ResetAndClose(s)
    BY DEF ProcessSynSent
  <1> HIDE DEF t, q
  <1> QED
    BY <1>7, <1>8, <1>9, <1>10 DEF t

LEMMA SynRcvdSound ==
    ASSUME NEW s \in Socket, s.endPoint, NEW seg \in Segment, NEW reacts \in BOOLEAN,
           NEW more \in BOOLEAN, Open(s, more), s.state = "SYN_RCVD"
    PROVE  Sound(ProcessSynRcvd(s, seg, reacts), more)
  <1> DEFINE c == Connected(s)
             n == seg.seq + 1
             j == [c EXCEPT !.state = "ESTABLISHED", !.quickAck = TRUE]
             r == [s EXCEPT !.rcvNext = n]
             t == ProcessSynRcvd(s, seg, reacts)
  <1>1. Joins(s, c) /\ c.state = s.state /\ c.rcvNext = s.rcvNext
    BY ConnectedFields
  <1>2. n \in Nat
    BY DEF Segment
  <1>3. CASE t = ReceivedAck(j, seg, reacts)
    <2>1. Joins(s, j) /\ j.state = "ESTABLISHED"
      <3> HIDE DEF c
      <3> QED
        BY <1>1 DEF Joins, Socket, States
    <2> HIDE DEF j, t
    <2>2. j \in Socket /\ j.endPoint
      BY <2>1 DEF Joins
    <2>3. Open(j, more)
      BY <2>1, <2>2, JoinsOpen DEF Handshake
    <2> QED
      BY <1>3, <2>1, <2>2, <2>3, ReceivedAckSound DEF t
  <1>4. CASE t = SendEmptyPacket(r, "SYN+ACK")
    <2> HIDE DEF n
    <2>1. /\ r \in Socket /\ r.endPoint = s.endPoint /\ r.state = s.state
          /\ r.nextTx = s.nextTx /\ r.size = s.size /\ r.gotFin = s.gotFin
          /\ r.shutdownSend = s.shutdownSend /\ r.closeOnEmpty = s.closeOnEmpty
          /\ r.lastAckEvent = s.lastAckEvent /\ r.timewaitEvent = s.timewaitEvent
          /\ r.sendPendingDataEvent = s.sendPendingDataEvent /\ r.retxEvent = s.retxEvent
      BY <1>2 DEF Socket
    <2> HIDE DEF r, t
    <2>2. Open(r, more)
      BY <2>1 DEF Open, Shut
    <2>3. SynSent(r, t, "SYN+ACK")
      BY <1>4, <2>1, SendSyn
    <2>4. CASE Leaves(r, t)
      BY <2>4, LeavesSound DEF t
    <2>5. CASE t \in Socket /\ Sends(r, t) /\ t.retxEvent = r.retxEvent
      <3>1. Open(t, more)
        BY <2>1, <2>2, <2>5, SendsSound
      <3> QED
        BY <2>1, <2>5, <3>1 DEF Sound, Sends, Same, t
    <2>6. r.retxEvent # "none"
      BY <2>1 DEF Open, Handshake
    <2> QED
      BY <2>3, <2>4, <2>5, <2>6 DEF SynSent
  <1>5. CASE HasFin(seg.kind) /\ seg.seq = s.rcvNext /\ t = PeerClose(c, seg, reacts)
    <2> HIDE DEF c, t
    <2>1. c \in Socket /\ c.endPoint /\ c.state = "SYN_RCVD" /\ ~ c.gotFin /\ seg.seq = c.rcvNext
      BY <1>1, <1>5 DEF Joins, Open, Handshake
    <2>2. Half(c, more)
      BY <1>1, <2>1 DEF Joins, Open, Half, Handshake
    <2> QED
      BY <1>5, <2>1, <2>2, PeerCloseSound DEF t
  <1>6. CASE t = s
    BY <1>6 DEF Sound
  <1>7. CASE t = CloseAndNotify(s) \/ t = ResetAndClose(s)
    BY <1>7, ClosedSound
  <1>8. \/ t = s \/ t = ReceivedAck(j, seg, reacts) \/ t = SendEmptyPacket(r, "SYN+ACK")
        \/ HasFin(seg.kind) /\ seg.seq = s.rcvNext /\ t = PeerClose(c, seg, reacts)
        \/ t = CloseAndNotify(s) \/ t = ResetAndClose(s)
    BY DEF ProcessSynRcvd
  <1> HIDE DEF t, j, r, c
  <1> QED
    BY <1>3, <1>4, <1>5, <1>6, <1>7, <1>8 DEF t

\* The parts of ProcessWait.
FinAck(seg, x) == x.size = 0 /\ seg.ack = x.highTx + 1
WaitOn(seg, x) ==
    IF HasFin(seg.kind) THEN SetFinSequence(x, seg.seq)
    ELSE IF x.state = "FIN_WAIT_1" /\ FinAck(seg, x)
         THEN [x EXCEPT !.state = "FIN_WAIT_2"] ELSE x
WaitLeave(seg, x) ==
    IF x.state = "FIN_WAIT_1" /\ ~ FinAck(seg, x)
    THEN [x EXCEPT !.state = "CLOSING"] ELSE TimeWait(x)
WaitEnd(seg, x) ==
    IF x.state \in {"FIN_WAIT_1", "FIN_WAIT_2"} /\ Finished(x)
    THEN SendEmptyPacket(WaitLeave(seg, x), "ACK") ELSE x

LEMMA ProcessWaitIs ==
    ASSUME NEW s, NEW seg, NEW reacts, ~ HasSyn(seg.kind), seg.kind # "RST"
    PROVE  ProcessWait(s, seg, reacts) =
               WaitEnd(seg, WaitOn(seg, ReceivedAck(s, seg, reacts)))
  <1> DEFINE p       == ReceivedAck(s, seg, reacts)
             Wait(x) == WaitOn(seg, x)
             End(x)  == WaitEnd(seg, x)
             u       == CHOOSE t \in {Wait(x) : x \in {p}} : TRUE
  <1>1. {Wait(x) : x \in {p}} = {Wait(p)}
    OBVIOUS
  <1>2. u = Wait(p)
    BY <1>1, OneOf
  <1>3. {End(x) : x \in {u}} = {End(u)}
    OBVIOUS
  <1>4. ProcessWait(s, seg, reacts) = CHOOSE t \in {End(x) : x \in {u}} : TRUE
    BY DEF ProcessWait, Then, WaitOn, WaitEnd, WaitLeave, FinAck
  <1> HIDE DEF u
  <1> QED
    BY <1>2, <1>3, <1>4, OneOf

LEMMA WaitSound ==
    ASSUME NEW s \in Socket, s.endPoint, NEW seg \in Segment, NEW reacts \in BOOLEAN,
           NEW more \in BOOLEAN, Open(s, more),
           s.state \in {"FIN_WAIT_1", "FIN_WAIT_2", "CLOSE_WAIT"}
    PROVE  Sound(ProcessWait(s, seg, reacts), more)
  <1> DEFINE p == ReceivedAck(s, seg, reacts)
             w == WaitOn(seg, p)
             l == WaitLeave(seg, w)
             e == WaitEnd(seg, w)
             t == ProcessWait(s, seg, reacts)
  <1>1. Sound(p, more) /\ p.endPoint /\ p.state \notin Handshake
    BY ReceivedAckSound
  <1>2. p \in Socket /\ Open(p, more) /\ p.state # "CLOSED"
    BY <1>1 DEF Sound
  <1>3. w \in Socket /\ w.endPoint /\ Open(w, more) /\ w.state # "CLOSED"
    <2>1. CASE w = SetFinSequence(p, seg.seq)
      <3> HIDE DEF w, p
      <3>0. seg.seq \in Nat
        BY DEF Segment
      <3>1. /\ w \in Socket /\ w.endPoint = p.endPoint /\ w.state = p.state
            /\ w.size = p.size
            /\ w.shutdownSend = p.shutdownSend /\ w.closeOnEmpty = p.closeOnEmpty
            /\ w.lastAckEvent = p.lastAckEvent /\ w.timewaitEvent = p.timewaitEvent
            /\ w.retxEvent = p.retxEvent
        BY <1>2, <2>1, <3>0, SetFinFields
      <3>2. Open(w, more)
        BY <1>1, <1>2, <3>1 DEF Open, Shut
      <3> QED
        BY <1>1, <1>2, <3>1, <3>2
    <2>2. CASE p.state = "FIN_WAIT_1" /\ w = [p EXCEPT !.state = "FIN_WAIT_2"]
      <3> HIDE DEF w, p
      <3>1. /\ w \in Socket /\ w.endPoint = p.endPoint /\ w.state = "FIN_WAIT_2"
            /\ w.shutdownSend = p.shutdownSend
            /\ w.lastAckEvent = p.lastAckEvent /\ w.timewaitEvent = p.timewaitEvent
        BY <1>2, <2>2 DEF Socket, States
      <3>2. Open(w, more)
        BY <1>2, <2>2, <3>1 DEF Open, Shut, Handshake
      <3> QED
        BY <1>1, <1>2, <3>1, <3>2
    <2>3. CASE w = p
      BY <1>1, <1>2, <2>3
    <2> QED
      BY <2>1, <2>2, <2>3 DEF WaitOn
  <1>4. ASSUME w.state \in {"FIN_WAIT_1", "FIN_WAIT_2"}
        PROVE  l \in Socket /\ l.endPoint /\ Open(l, more) /\ l.state # "CLOSED"
    <2> HIDE DEF w
    <2>1. CASE w.state = "FIN_WAIT_1" /\ l = [w EXCEPT !.state = "CLOSING"]
      <3> HIDE DEF l
      <3>1. /\ l \in Socket /\ l.endPoint = w.endPoint /\ l.state = "CLOSING"
            /\ l.lastAckEvent = w.lastAckEvent /\ l.retxEvent = w.retxEvent
        BY <1>3, <2>1 DEF Socket, States
      <3>2. Open(l, more)
        BY <1>3, <2>1, <3>1 DEF Open, Handshake
      <3> QED
        BY <1>3, <3>1, <3>2
    <2>2. CASE l = TimeWait(w)
      <3> HIDE DEF l
      <3>1. /\ l \in Socket /\ l.state = "TIME_WAIT" /\ l.endPoint = w.endPoint
            /\ ~ l.lastAckEvent /\ l.timewaitEvent
        BY <1>3, <2>2, TimeWaitFields
      <3>2. Open(l, more)
        BY <3>1 DEF Open, Handshake
      <3> QED
        BY <1>3, <3>1, <3>2
    <2> QED
      BY <2>1, <2>2 DEF WaitLeave
  <1>5. Sound(e, more)
    <2> HIDE DEF w
    <2>1. CASE e = w
      BY <1>3, <2>1 DEF Sound
    <2>2. CASE w.state \in {"FIN_WAIT_1", "FIN_WAIT_2"} /\ e = SendEmptyPacket(l, "ACK")
      <3> HIDE DEF l, e
      <3> QED
        BY <1>4, <2>2, AckSound
    <2> QED
      BY <2>1, <2>2 DEF WaitEnd
  <1>6. CASE HasSyn(seg.kind)
    <2>1. t = s
      BY <1>6 DEF ProcessWait, HasSyn
    <2> QED
      BY <2>1 DEF Sound
  <1>7. CASE seg.kind = "RST"
    <2>1. t = CloseAndNotify(s)
      BY <1>7 DEF ProcessWait, HasSyn
    <2> QED
      BY <2>1, ClosedSound
  <1>8. CASE ~ HasSyn(seg.kind) /\ seg.kind # "RST"
    <2>1. t = e
      BY <1>8, ProcessWaitIs
    <2> QED
      BY <1>5, <2>1
  <1> QED
    BY <1>6, <1>7, <1>8

LEMMA ClosingSound ==
    ASSUME NEW s \in Socket, s.endPoint, NEW seg \in Segment,
           NEW more \in BOOLEAN, Open(s, more), s.state \in {"CLOSING", "LAST_ACK"}
    PROVE  /\ s.state = "CLOSING" => Sound(ProcessClosing(s, seg), more)
           /\ s.state = "LAST_ACK" => Sound(ProcessLastAck(s, seg), more)
  <1> DEFINE a == SendEmptyPacket(s, "ACK")
             w == TimeWait(s)
  <1>1. Sound(s, more)
    BY DEF Sound
  <1>2. Sound(w, more)
    <2>1. /\ w \in Socket /\ w.state = "TIME_WAIT" /\ w.endPoint = s.endPoint
          /\ ~ w.lastAckEvent /\ w.timewaitEvent
      BY TimeWaitFields
    <2> HIDE DEF w
    <2>2. Open(w, more)
      BY <2>1 DEF Open, Handshake
    <2> QED
      BY <2>1, <2>2 DEF Sound
  <1>3. Sound(CloseAndNotify(a), more)
    <2>1. a \in Socket
      BY SendEmpty
    <2> HIDE DEF a
    <2> QED
      BY <2>1, ClosedSound
  <1>4. Sound(CloseAndNotify(s), more) /\ Sound(ResetAndClose(s), more)
    BY ClosedSound
  <1>5. ProcessClosing(s, seg) \in {s, w, CloseAndNotify(a), CloseAndNotify(s), ResetAndClose(s)}
    BY DEF ProcessClosing
  <1>6. ProcessLastAck(s, seg) \in {s, CloseAndNotify(s), ResetAndClose(s)}
    BY DEF ProcessLastAck
  <1> HIDE DEF a, w
  <1> QED
    BY <1>1, <1>2, <1>3, <1>4, <1>5, <1>6

\* Whatever arrives, the socket stays sound.
LEMMA ForwardUpSound ==
    ASSUME NEW s \in Socket, s.endPoint, NEW seg \in Segment, NEW reacts \in BOOLEAN,
           NEW more \in BOOLEAN, Sound(s, more)
    PROVE  Sound(ForwardUp(s, seg, reacts), more)
  <1> DEFINE t == ForwardUp(s, seg, reacts)
  <1>0. Open(s, more) /\ s.state # "CLOSED"
    BY DEF Sound
  <1>1. CASE t = SendEmptyPacket(s, "ACK")
    BY <1>0, <1>1, AckSound
  <1>2. CASE t = s
    BY <1>2
  <1>3. CASE s.state = "ESTABLISHED" /\ t = ProcessEstablished(s, seg, reacts)
    BY <1>0, <1>3, EstablishedSound
  <1>4. CASE s.state = "SYN_SENT" /\ t = ProcessSynSent(s, seg)
    BY <1>0, <1>4, SynSentSound
  <1>5. CASE s.state = "SYN_RCVD" /\ t = ProcessSynRcvd(s, seg, reacts)
    BY <1>0, <1>5, SynRcvdSound
  <1>6. CASE /\ s.state \in {"FIN_WAIT_1", "FIN_WAIT_2", "CLOSE_WAIT"}
             /\ t = ProcessWait(s, seg, reacts)
    BY <1>0, <1>6, WaitSound
  <1>7. CASE s.state = "CLOSING" /\ t = ProcessClosing(s, seg)
    BY <1>0, <1>7, ClosingSound
  <1>8. CASE s.state = "LAST_ACK" /\ t = ProcessLastAck(s, seg)
    BY <1>0, <1>8, ClosingSound
  <1>9. \/ t = SendEmptyPacket(s, "ACK") \/ t = s
        \/ s.state = "ESTABLISHED" /\ t = ProcessEstablished(s, seg, reacts)
        \/ s.state = "SYN_SENT" /\ t = ProcessSynSent(s, seg)
        \/ s.state = "SYN_RCVD" /\ t = ProcessSynRcvd(s, seg, reacts)
        \/ /\ s.state \in {"FIN_WAIT_1", "FIN_WAIT_2", "CLOSE_WAIT"}
           /\ t = ProcessWait(s, seg, reacts)
        \/ s.state = "CLOSING" /\ t = ProcessClosing(s, seg)
        \/ s.state = "LAST_ACK" /\ t = ProcessLastAck(s, seg)
    BY DEF ForwardUp
  <1> HIDE DEF t
  <1> QED
    BY <1>1, <1>2, <1>3, <1>4, <1>5, <1>6, <1>7, <1>8, <1>9 DEF t

-----------------------------------------------------------------------------
(* A timer fires.                                                           *)

\* The retransmission timer was running and is taken off.
Fired(s, f) ==
    /\ f \in Socket /\ Same(s, f) /\ f.state = s.state /\ f.retxEvent = "none" /\ f.out = s.out

\* A SYN or FIN that the timer sends again.
LEMMA ResendSound ==
    ASSUME NEW s \in Socket, s.endPoint, NEW more \in BOOLEAN, Sound(s, more), NEW f, Fired(s, f),
           NEW k \in {"SYN", "SYN+ACK", "FIN+ACK"}
    PROVE  Sound(SendEmptyPacket(f, k), more)
  <1> DEFINE t == SendEmptyPacket(f, k)
  <1>0. f \in Socket /\ f.endPoint /\ f.retxEvent = "none" /\ f.state # "CLOSED"
    BY DEF Fired, Same, Sound
  <1>1. CASE Leaves(f, t)
    BY <1>1, LeavesSound
  <1>2. CASE t \in Socket /\ Sends(f, t) /\ t.retxEvent = k
    <2> HIDE DEF t
    <2>1. Same(s, t) /\ t.state = s.state
      BY <1>2 DEF Fired, Sends, Same
    <2>2. Open(t, more)
      BY <1>2, <2>1 DEF Sound, Open, Shut, Same, Handshake
    <2> QED
      BY <1>0, <1>2, <2>1, <2>2 DEF Sound, Same, t
  <1>3. CASE k = "FIN+ACK"
    BY <1>0, <1>2, <1>3, SendEmpty
  <1>4. CASE k # "FIN+ACK"
    <2>1. SynSent(f, t, k)
      BY <1>0, <1>4, SendSyn
    <2> QED
      BY <1>0, <1>1, <1>2, <2>1 DEF SynSent
  <1> QED
    BY <1>3, <1>4

LEMMA ReTxTimeoutSound ==
    ASSUME NEW s \in Socket, s.endPoint, NEW more \in BOOLEAN, Sound(s, more),
           s.retxEvent = "data", NEW f, Fired(s, f)
    PROVE  Sound(ReTxTimeout(f), more)
  <1>0. Open(s, more) /\ f \in Socket /\ f.endPoint /\ f.retxEvent = "none" /\ f.size = s.size
        /\ f.state = s.state /\ s.state \notin Handshake \cup {"CLOSED"} /\ f.size \in {0, 1}
    BY DEF Sound, Fired, Same, Open, Socket
  <1>1. CASE f.size = 0
    <2>1. CASE s.state \in {"FIN_WAIT_1", "CLOSING"}
      <3>1. ReTxTimeout(f) = SendEmptyPacket(f, "FIN+ACK")
        BY <1>0, <1>1, <2>1 DEF ReTxTimeout
      <3> QED
        BY <3>1, ResendSound
    <2>2. CASE s.state \notin {"FIN_WAIT_1", "CLOSING"}
      <3>1. ReTxTimeout(f) = f
        BY <1>0, <1>1, <2>2 DEF ReTxTimeout
      <3>2. Open(f, more)
        BY <1>0, <1>1, <2>2 DEF Open, Shut, Fired, Same
      <3> QED
        BY <1>0, <3>1, <3>2 DEF Sound
    <2> QED
      BY <2>1, <2>2
  <1>2. CASE f.size > 0 /\ f.dataRetrCount = 0
    <2>0. f.size = 1 /\ f.size # 0
      BY <1>0, <1>2
    <2>1. ReTxTimeout(f) = DeallocateEndPoint(f)
      BY <1>2, <2>0, Zenon DEF ReTxTimeout
    <2> QED
      BY <1>0, <2>1, DeallocateFields, LeavesSound
  <1>3. CASE f.size > 0 /\ f.dataRetrCount # 0
    <2> DEFINE c == f.dataRetrCount - 1
               g == [f EXCEPT !.dataRetrCount = c]
    <2>0. f.size # 0
      BY <1>0, <1>3
    <2>1. c \in Nat
      BY <1>0, <1>3 DEF Socket
    <2>2. ReTxTimeout(f) = SendPendingData(g, TRUE)
      BY <1>3, <2>0, Zenon DEF ReTxTimeout
    <2> HIDE DEF c
    <2>3. /\ g \in Socket /\ g.endPoint = f.endPoint /\ g.state = f.state /\ g.size = f.size
          /\ g.shutdownSend = f.shutdownSend /\ g.closeOnEmpty = f.closeOnEmpty
          /\ g.lastAckEvent = f.lastAckEvent /\ g.timewaitEvent = f.timewaitEvent
      BY <1>0, <2>1 DEF Socket
    <2> HIDE DEF g
    <2>4. Told(g, more)
      BY <1>0, <2>3 DEF Told, Open, Shut, Fired, Same
    <2>5. SendPendingData(g, TRUE) = SendDataPacket(g)
      BY <1>0, <1>3, <2>3 DEF SendPendingData
    <2> QED
      BY <1>0, <1>3, <2>2, <2>3, <2>4, <2>5, SendDataSound
  <1> QED
    BY <1>0, <1>1, <1>2, <1>3

LEMMA RetransmitSound ==
    ASSUME NEW s \in Socket, NEW more \in BOOLEAN, Sound(s, more), s.retxEvent # "none"
    PROVE  Sound(Retransmit(s), more)
  <1> DEFINE f == [s EXCEPT !.retxEvent = "none"]
  <1>1. s.endPoint
    BY DEF Sound, Quiet
  <1>2. Fired(s, f)
    BY DEF Fired, Same, Socket, RetxKinds
  <1>3. CASE s.retxEvent = "data"
    <2>1. Retransmit(s) = ReTxTimeout(f)
      BY <1>3 DEF Retransmit
    <2> HIDE DEF f
    <2> QED
      BY <1>1, <1>2, <1>3, <2>1, ReTxTimeoutSound
  <1>4. CASE s.retxEvent # "data"
    <2>1. Retransmit(s) = SendEmptyPacket(f, s.retxEvent)
      BY <1>4 DEF Retransmit
    <2>2. s.retxEvent \in {"SYN", "SYN+ACK", "FIN+ACK"}
      BY <1>4 DEF Socket, RetxKinds
    <2> HIDE DEF f
    <2> QED
      BY <1>1, <1>2, <2>1, <2>2, ResendSound
  <1> QED
    BY <1>3, <1>4

LEMMA LastAckSound ==
    ASSUME NEW s \in Socket, NEW more \in BOOLEAN, Sound(s, more), s.lastAckEvent
    PROVE  Sound(LastAckTimeout(s), more)
  <1> DEFINE f == [s EXCEPT !.lastAckEvent = FALSE]
             t == LastAckTimeout(s)
  <1>1. s.endPoint /\ s.state = "LAST_ACK" /\ Open(s, more)
    BY DEF Sound, Quiet, Open
  <1>2. CASE s.dataRetrCount = 0
    <2>1. t = DeallocateEndPoint(f)
      BY <1>1, <1>2 DEF LastAckTimeout
    <2>2. f \in Socket
      BY DEF Socket
    <2> HIDE DEF f
    <2> QED
      BY <2>1, <2>2, DeallocateFields, LeavesSound
  <1>3. CASE s.dataRetrCount # 0
    <2> DEFINE c == s.dataRetrCount - 1
               g == [f EXCEPT !.dataRetrCount = c]
               a == SendEmptyPacket(g, "FIN+ACK")
    <2>1. c \in Nat
      BY <1>3 DEF Socket
    <2>2. t = [a EXCEPT !.lastAckEvent = TRUE]
      BY <1>1, <1>3 DEF LastAckTimeout
    <2> HIDE DEF c
    <2>3. g \in Socket /\ g.endPoint /\ g.state = "LAST_ACK"
      BY <1>1, <2>1 DEF Socket
    <2> HIDE DEF g
    <2>4. a \in Socket /\ a.endPoint /\ a.state = "LAST_ACK"
      BY <2>3, SendEmpty DEF Sends, Same
    <2> HIDE DEF a, t
    <2>5. t \in Socket /\ t.endPoint /\ t.state = "LAST_ACK" /\ t.lastAckEvent
      BY <2>2, <2>4 DEF Socket
    <2> QED
      BY <2>5 DEF Sound, Open, Handshake, t
  <1> QED
    BY <1>2, <1>3

-----------------------------------------------------------------------------
(* The invariant of the connection, and its steps.                          *)

Calls == {"Send", "ShutdownSend", "Close"}
MayClose(calls) == calls \cap {"Close", "ShutdownSend"} # {}

\* Types, and both sockets sound between two events.
SocketsSound ==
    /\ sock \in [Peers -> Socket]
    /\ net \in [Peers -> Seq(Segment)]
    /\ app \in [Peers -> SUBSET Calls]
    /\ \A p \in Peers : Sound(sock[p], MayClose(app[p])) /\ sock[p].out = <<>>

LEMMA OtherPeer ==
    ASSUME NEW p \in Peers
    PROVE  Other(p) \in Peers /\ Other(p) # p /\ \A q \in Peers : q = p \/ q = Other(p)
  BY DEF Peers, Other

LEMMA MayCloseBool == \A c : MayClose(c) \in BOOLEAN
  BY DEF MayClose

\* The segments leave the socket.
LEMMA FlushSound ==
    ASSUME NEW s, NEW more \in BOOLEAN, Sound(s, more)
    PROVE  LET t == [s EXCEPT !.out = <<>>]
           IN  t \in Socket /\ Sound(t, more) /\ t.out = <<>>
  <1> DEFINE e == <<>>
             t == [s EXCEPT !.out = e]
  <1>0. e \in Seq(Segment)
    OBVIOUS
  <1> HIDE DEF e
  <1>1. s \in Socket
    BY DEF Sound
  <1>2. /\ t \in Socket /\ t.endPoint = s.endPoint /\ t.state = s.state
        /\ t.nextTx = s.nextTx /\ t.size = s.size /\ t.gotFin = s.gotFin
        /\ t.shutdownSend = s.shutdownSend /\ t.closeOnEmpty = s.closeOnEmpty
        /\ t.lastAckEvent = s.lastAckEvent /\ t.timewaitEvent = s.timewaitEvent
        /\ t.sendPendingDataEvent = s.sendPendingDataEvent /\ t.retxEvent = s.retxEvent
        /\ t.delAckEvent = s.delAckEvent
        /\ t.out = e
    BY <1>0, <1>1 DEF Socket
  <1> HIDE DEF t
  <1>3. ASSUME t.endPoint PROVE Open(t, more) /\ t.state # "CLOSED"
    BY <1>2, <1>3 DEF Sound, Open, Shut
  <1>4. ASSUME ~ t.endPoint PROVE Quiet(t)
    BY <1>2, <1>4 DEF Sound, Quiet
  <1>5. Sound(t, more)
    BY <1>2, <1>3, <1>4 DEF Sound
  <1> QED
    BY <1>2, <1>5 DEF t, e

\* A step in which the socket of p becomes s.
LEMMA SocketStep ==
    ASSUME SocketsSound, NEW p \in Peers, NEW s,
           sock' = [sock EXCEPT ![p] = [s EXCEPT !.out = <<>>]],
           net' \in [Peers -> Seq(Segment)],
           app' \in [Peers -> SUBSET Calls],
           \A q \in Peers : q # p => app'[q] = app[q],
           Sound(s, MayClose(app'[p]))
    PROVE  SocketsSound'
  <1> DEFINE t == [s EXCEPT !.out = <<>>]
  <1>1. t \in Socket /\ Sound(t, MayClose(app'[p])) /\ t.out = <<>>
    <2>1. MayClose(app'[p]) \in BOOLEAN
      BY MayCloseBool
    <2> QED
      BY <2>1, FlushSound
  <1> HIDE DEF t
  <1>2. sock' = [sock EXCEPT ![p] = t]
    BY DEF t
  <1>3. sock' \in [Peers -> Socket]
    BY <1>1, <1>2 DEF SocketsSound
  <1>4. sock'[p] = t /\ \A q \in Peers : q # p => sock'[q] = sock[q]
    BY <1>2 DEF SocketsSound
  <1>5. ASSUME NEW q \in Peers PROVE Sound(sock'[q], MayClose(app'[q])) /\ sock'[q].out = <<>>
    <2>1. CASE q = p
      BY <1>1, <1>4, <2>1
    <2>2. CASE q # p
      <3>1. Sound(sock[q], MayClose(app[q])) /\ sock[q].out = <<>>
        BY DEF SocketsSound
      <3>2. sock'[q] = sock[q] /\ app'[q] = app[q]
        BY <1>4, <2>2
      <3> QED
        BY <3>1, <3>2
    <2> QED
      BY <2>1, <2>2
  <1> QED
    BY <1>3, <1>5 DEF SocketsSound

\* The step of a handler that takes nothing from the network.
LEMMA BecomesStep ==
    ASSUME SocketsSound, NEW p \in Peers, NEW s, Becomes(p, s),
           app' \in [Peers -> SUBSET Calls],
           \A q \in Peers : q # p => app'[q] = app[q],
           Sound(s, MayClose(app'[p]))
    PROVE  SocketsSound'
  <1>1. s.out \in Seq(Segment)
    BY DEF Sound, Socket
  <1>2. net[Other(p)] \in Seq(Segment) /\ Other(p) \in Peers
    BY OtherPeer DEF SocketsSound
  <1>3. net[Other(p)] \o s.out \in Seq(Segment)
    BY <1>1, <1>2
  <1>4. net' = [net EXCEPT ![Other(p)] = net[Other(p)] \o s.out]
    BY DEF Becomes
  <1>5. net' \in [Peers -> Seq(Segment)]
    BY <1>2, <1>3, <1>4 DEF SocketsSound
  <1>6. sock' = [sock EXCEPT ![p] = [s EXCEPT !.out = <<>>]]
    BY DEF Becomes
  <1> QED
    BY <1>5, <1>6, SocketStep

LEMMA NewSocketSound ==
    /\ NewSocket \in Socket /\ NewSocket.out = <<>>
    /\ \A more \in BOOLEAN : Sound(NewSocket, more)
  <1> DEFINE e == <<>>
  <1>1. e \in Seq(Segment) /\ DataRetries \in Nat
    BY ConnectionAssumption
  <1>2. NewSocket \in Socket
    <2> HIDE DEF e
    <2>1. NewSocket =
            [state |-> "CLOSED", endPoint |-> FALSE,
             nextTx |-> 0, highTx |-> 0, una |-> 0, size |-> 0,
             rcvNext |-> 0, rxData |-> FALSE, gotFin |-> FALSE, finSeq |-> 0,
             synCount |-> 0, dataRetrCount |-> DataRetries,
             quickAck |-> FALSE, closeOnEmpty |-> FALSE, shutdownSend |-> FALSE,
             closeNotified |-> FALSE,
             retxEvent |-> "none", lastAckEvent |-> FALSE, timewaitEvent |-> FALSE,
             delAckEvent |-> FALSE, sendPendingDataEvent |-> FALSE,
             out |-> e, failed |-> FALSE]
      BY DEF NewSocket, e
    <2> QED
      BY <1>1, <2>1 DEF Socket, States, RetxKinds
  <1>3. ~ NewSocket.endPoint /\ Quiet(NewSocket) /\ NewSocket.out = <<>>
    BY DEF NewSocket, Quiet
  <1> QED
    BY <1>2, <1>3 DEF Sound

\* A new socket that gets its endpoint and sends its SYN or SYN+ACK.
LEMMA OpeningSound ==
    ASSUME NEW b \in Socket, NEW k \in {"SYN", "SYN+ACK"}, NEW more \in BOOLEAN,
           NEW st \in Handshake,
           b.endPoint, b.synCount # 0, b.nextTx = 0, ~ b.gotFin, ~ b.sendPendingDataEvent,
           ~ b.lastAckEvent, ~ b.closeOnEmpty, b.retxEvent = "none"
    PROVE  Sound([SendEmptyPacket(b, k) EXCEPT !.state = st], more)
  <1> DEFINE a == SendEmptyPacket(b, k)
             t == [a EXCEPT !.state = st]
  <1>1. SynSent(b, a, k) /\ a.endPoint
    BY SendSyn
  <1> HIDE DEF a
  <1>2. a \in Socket /\ Sends(b, a) /\ a.retxEvent = k
    BY <1>1 DEF SynSent, Leaves
  <1>3. st \in States /\ st # "CLOSED"
    BY DEF States, Handshake
  <1>4. /\ t \in Socket /\ t.endPoint /\ t.state = st /\ t.nextTx = 0 /\ ~ t.gotFin
        /\ ~ t.sendPendingDataEvent /\ ~ t.lastAckEvent /\ ~ t.closeOnEmpty /\ t.retxEvent = k
    BY <1>2, <1>3 DEF Sends, Same, Socket
  <1> HIDE DEF t
  <1>5. Open(t, more)
    BY <1>4 DEF Open, Handshake
  <1> QED
    BY <1>3, <1>4, <1>5 DEF Sound, t, a

LEMMA InitSound == Init => SocketsSound
  <1> SUFFICES ASSUME Init PROVE SocketsSound
    OBVIOUS
  <1>1. app \in [Peers -> SUBSET Calls]
    BY ConnectionAssumption DEF Init, Peers, Calls
  <1>2. net \in [Peers -> Seq(Segment)]
    <2>1. <<>> \in Seq(Segment)
      OBVIOUS
    <2> QED
      BY <2>1 DEF Init
  <1>3. sock \in [Peers -> Socket] /\ \A p \in Peers : sock[p] = NewSocket
    BY NewSocketSound DEF Init
  <1>4. ASSUME NEW p \in Peers PROVE Sound(sock[p], MayClose(app[p])) /\ sock[p].out = <<>>
    BY <1>3, NewSocketSound, MayCloseBool
  <1> QED
    BY <1>1, <1>2, <1>3, <1>4 DEF SocketsSound

\* A step that moves segments and no socket.
LEMMA NetStep ==
    ASSUME SocketsSound, UNCHANGED <<sock, app>>, net' \in [Peers -> Seq(Segment)]
    PROVE  SocketsSound'
  BY DEF SocketsSound

LEMMA ConnectSound == SocketsSound /\ Connect => SocketsSound'
  <1> SUFFICES ASSUME SocketsSound, Connect PROVE SocketsSound'
    OBVIOUS
  <1> DEFINE n == SynRetries
             b == [sock["client"] EXCEPT !.endPoint = TRUE, !.synCount = n]
             s == [SendEmptyPacket(b, "SYN") EXCEPT !.state = "SYN_SENT"]
  <1>1. n \in Nat /\ n # 0
    BY ConnectionAssumption
  <1>2. sock["client"] = NewSocket /\ Becomes("client", s) /\ app' = app
    BY DEF Connect
  <1>3. /\ NewSocket.nextTx = 0 /\ ~ NewSocket.gotFin /\ ~ NewSocket.sendPendingDataEvent
        /\ ~ NewSocket.lastAckEvent /\ ~ NewSocket.closeOnEmpty
        /\ NewSocket.retxEvent = "none"
    BY DEF NewSocket
  <1> HIDE DEF n
  <1>4. /\ b \in Socket /\ b.endPoint /\ b.synCount # 0 /\ b.nextTx = 0 /\ ~ b.gotFin
        /\ ~ b.sendPendingDataEvent
        /\ ~ b.lastAckEvent /\ ~ b.closeOnEmpty /\ b.retxEvent = "none"
    BY <1>1, <1>2, <1>3, NewSocketSound DEF Socket
  <1>5. "client" \in Peers /\ MayClose(app["client"]) \in BOOLEAN /\ "SYN_SENT" \in Handshake
    BY MayCloseBool DEF Peers, Handshake
  <1> HIDE DEF b
  <1>6. Sound(s, MayClose(app["client"]))
    BY <1>4, <1>5, OpeningSound
  <1> HIDE DEF s
  <1>7. app' \in [Peers -> SUBSET Calls]
    BY <1>2 DEF SocketsSound
  <1> QED
    BY <1>2, <1>5, <1>6, <1>7, BecomesStep

LEMMA SendSound == ASSUME NEW p \in Peers PROVE SocketsSound /\ Send(p) => SocketsSound'
  <1> SUFFICES ASSUME SocketsSound, Send(p) PROVE SocketsSound'
    OBVIOUS
  <1> DEFINE e == sock[p].state # "SYN_SENT"
             s == [sock[p] EXCEPT !.size = 1, !.sendPendingDataEvent = e]
             m == MayClose(app[p])
  <1>1. /\ Becomes(p, s) /\ app' = [app EXCEPT ![p] = @ \ {"Send"}]
        /\ sock[p].endPoint /\ sock[p].state \in {"ESTABLISHED", "SYN_SENT", "CLOSE_WAIT"}
    BY DEF Send, HasSocket
  <1>2. app' \in [Peers -> SUBSET Calls] /\ MayClose(app'[p]) = m
        /\ \A q \in Peers : q # p => app'[q] = app[q]
    BY <1>1 DEF SocketsSound, MayClose
  <1>3. sock[p] \in Socket /\ Sound(sock[p], m) /\ m \in BOOLEAN /\ e \in BOOLEAN
    BY MayCloseBool DEF SocketsSound
  <1>4. e => sock[p].state # "SYN_SENT"
    OBVIOUS
  <1> HIDE DEF m, e
  <1>5. /\ s \in Socket /\ s.endPoint = sock[p].endPoint /\ s.state = sock[p].state
        /\ s.nextTx = sock[p].nextTx /\ s.size = 1 /\ s.gotFin = sock[p].gotFin
        /\ s.shutdownSend = sock[p].shutdownSend /\ s.closeOnEmpty = sock[p].closeOnEmpty
        /\ s.lastAckEvent = sock[p].lastAckEvent /\ s.timewaitEvent = sock[p].timewaitEvent
        /\ s.sendPendingDataEvent = e /\ s.retxEvent = sock[p].retxEvent
    BY <1>3 DEF Socket
  <1> HIDE DEF s
  <1>6. Open(s, m)
    BY <1>1, <1>3, <1>4, <1>5 DEF Sound, Open, Shut, Handshake
  <1>7. Sound(s, m)
    BY <1>1, <1>5, <1>6 DEF Sound
  <1> QED
    BY <1>1, <1>2, <1>7, BecomesStep

LEMMA PendingSound ==
    ASSUME NEW p \in Peers PROVE SocketsSound /\ SendPendingDataEvent(p) => SocketsSound'
  <1> SUFFICES ASSUME SocketsSound, SendPendingDataEvent(p) PROVE SocketsSound'
    OBVIOUS
  <1> DEFINE f == [sock[p] EXCEPT !.sendPendingDataEvent = FALSE]
             s == SendPendingData(f, FALSE)
             m == MayClose(app[p])
  <1>1. Becomes(p, s) /\ app' = app /\ sock[p].sendPendingDataEvent
    BY DEF SendPendingDataEvent
  <1>2. sock[p] \in Socket /\ Sound(sock[p], m) /\ m \in BOOLEAN
        /\ app' \in [Peers -> SUBSET Calls]
    BY <1>1, MayCloseBool DEF SocketsSound
  <1> HIDE DEF m
  <1>3. /\ f \in Socket /\ f.endPoint = sock[p].endPoint /\ f.state = sock[p].state
        /\ f.nextTx = sock[p].nextTx /\ f.size = sock[p].size /\ f.gotFin = sock[p].gotFin
        /\ f.shutdownSend = sock[p].shutdownSend /\ f.closeOnEmpty = sock[p].closeOnEmpty
        /\ f.lastAckEvent = sock[p].lastAckEvent /\ f.timewaitEvent = sock[p].timewaitEvent
        /\ ~ f.sendPendingDataEvent /\ f.retxEvent = sock[p].retxEvent
    BY <1>2 DEF Socket
  <1> HIDE DEF f
  <1>4. sock[p].endPoint /\ sock[p].state \notin Handshake \cup {"CLOSED"}
    BY <1>1, <1>2 DEF Sound, Open, Quiet
  <1>5. Open(f, m)
    BY <1>2, <1>3, <1>4 DEF Sound, Open, Shut
  <1>6. Sound(s, m)
    BY <1>2, <1>3, <1>4, <1>5, SendPendingSound
  <1> QED
    BY <1>1, <1>2, <1>6, BecomesStep DEF m

LEMMA AppCloseSound ==
    ASSUME NEW p \in Peers PROVE SocketsSound /\ AppClose(p) => SocketsSound'
  <1> SUFFICES ASSUME SocketsSound, AppClose(p) PROVE SocketsSound'
    OBVIOUS
  <1> DEFINE s == Close(sock[p])
  <1>1. /\ Becomes(p, s) /\ app' = [app EXCEPT ![p] = {}] /\ sock[p].endPoint
        /\ sock[p].state # "SYN_RCVD" /\ MayClose(app[p])
    BY DEF AppClose, HasSocket, MayClose
  <1>2. app' \in [Peers -> SUBSET Calls] /\ MayClose(app'[p]) = FALSE
        /\ \A q \in Peers : q # p => app'[q] = app[q]
    BY <1>1 DEF SocketsSound, MayClose
  <1>3. MayClose(app[p]) = TRUE
    BY <1>1, MayCloseBool
  <1>4. sock[p] \in Socket /\ Sound(sock[p], TRUE)
    BY <1>3 DEF SocketsSound
  <1>5. Open(sock[p], TRUE) /\ sock[p].state \notin {"SYN_RCVD", "CLOSED"}
    BY <1>1, <1>4 DEF Sound
  <1>6. Sound(s, FALSE)
    BY <1>1, <1>4, <1>5, CloseSound
  <1> HIDE DEF s
  <1>7. Sound(s, MayClose(app'[p]))
    BY <1>2, <1>6
  <1> QED
    BY <1>1, <1>2, <1>7, BecomesStep

LEMMA AppShutdownSound ==
    ASSUME NEW p \in Peers PROVE SocketsSound /\ AppShutdownSend(p) => SocketsSound'
  <1> SUFFICES ASSUME SocketsSound, AppShutdownSend(p) PROVE SocketsSound'
    OBVIOUS
  <1> DEFINE s == ShutdownSend(sock[p])
  <1>1. /\ Becomes(p, s) /\ app' = [app EXCEPT ![p] = @ \ {"ShutdownSend"}]
        /\ sock[p].endPoint /\ sock[p].state # "SYN_RCVD" /\ MayClose(app[p])
    BY DEF AppShutdownSend, HasSocket, MayClose
  <1>2. app' \in [Peers -> SUBSET Calls] /\ MayClose(app'[p]) \in BOOLEAN
        /\ \A q \in Peers : q # p => app'[q] = app[q]
    BY <1>1, MayCloseBool DEF SocketsSound
  <1>3. MayClose(app[p]) = TRUE
    BY <1>1, MayCloseBool
  <1>4. sock[p] \in Socket /\ Sound(sock[p], TRUE)
    BY <1>3 DEF SocketsSound
  <1>5. Open(sock[p], TRUE) /\ sock[p].state \notin {"SYN_RCVD", "CLOSED"}
    BY <1>1, <1>4 DEF Sound
  <1>6. Sound(s, MayClose(app'[p]))
    BY <1>1, <1>2, <1>4, <1>5, ShutdownSendSound
  <1> HIDE DEF s
  <1> QED
    BY <1>1, <1>2, <1>6, BecomesStep

LEMMA TailType ==
    ASSUME NEW q \in Seq(Segment), q # <<>>
    PROVE  Tail(q) \in Seq(Segment) /\ Head(q) \in Segment
  OBVIOUS

LEMMA DeliverSound ==
    ASSUME NEW p \in Peers PROVE SocketsSound /\ Deliver(p) => SocketsSound'
  <1> SUFFICES ASSUME SocketsSound, Deliver(p) PROVE SocketsSound'
    OBVIOUS
  <1> DEFINE m == MayClose(app[p])
             seg == Head(net[p])
             o   == Other(p)
  <1>1. PICK reacts \in BOOLEAN : \E s \in {ForwardUp(sock[p], seg, reacts)} :
         /\ sock' = [sock EXCEPT ![p] = [s EXCEPT !.out = <<>>]]
         /\ net' = [net EXCEPT ![p] = Tail(@), ![Other(p)] = @ \o s.out]
    BY DEF Deliver
  <1> DEFINE s == ForwardUp(sock[p], seg, reacts)
  <1>2. /\ sock' = [sock EXCEPT ![p] = [s EXCEPT !.out = <<>>]]
        /\ net' = [net EXCEPT ![p] = Tail(@), ![o] = @ \o s.out]
        /\ app' = app /\ net[p] # <<>> /\ sock[p].endPoint
    BY <1>1 DEF Deliver
  <1>3. sock[p] \in Socket /\ Sound(sock[p], m) /\ m \in BOOLEAN
        /\ app' \in [Peers -> SUBSET Calls]
    BY <1>2, MayCloseBool DEF SocketsSound
  <1>4. o \in Peers /\ o # p
    BY OtherPeer
  <1>5. net[p] \in Seq(Segment) /\ net[o] \in Seq(Segment)
    BY <1>4 DEF SocketsSound
  <1>6. Tail(net[p]) \in Seq(Segment) /\ seg \in Segment
    BY <1>2, <1>5, TailType
  <1>7. Sound(s, m)
    <2> HIDE DEF seg, m
    <2> QED
      BY <1>2, <1>3, <1>6, ForwardUpSound
  <1> HIDE DEF s, seg, o
  <1>8. s.out \in Seq(Segment)
    BY <1>7 DEF Sound, Socket
  <1>9. net[o] \o s.out \in Seq(Segment)
    BY <1>5, <1>8
  <1>10. net' = [net EXCEPT ![p] = Tail(net[p]), ![o] = net[o] \o s.out]
    BY <1>2, <1>4 DEF SocketsSound
  <1>11. net' \in [Peers -> Seq(Segment)]
    BY <1>4, <1>6, <1>9, <1>10 DEF SocketsSound
  <1> QED
    BY <1>2, <1>3, <1>7, <1>11, SocketStep DEF m

LEMMA ListenerSound == SocketsSound /\ DeliverToListener => SocketsSound'
  <1> SUFFICES ASSUME SocketsSound, DeliverToListener PROVE SocketsSound'
    OBVIOUS
  <1> DEFINE m == MayClose(app["server"])
             seg == Head(net["server"])
             n == SynRetries
             r == seg.seq + 1
             f == [NewSocket EXCEPT !.endPoint = TRUE, !.state = "SYN_RCVD",
                                    !.synCount = n, !.rcvNext = r]
             a == SendEmptyPacket(f, "SYN+ACK")
             s == IF seg.kind = "SYN" THEN a ELSE sock["server"]
  <1>1. /\ sock' = [sock EXCEPT !["server"] = [s EXCEPT !.out = <<>>]]
        /\ net' = [net EXCEPT !["server"] = Tail(@), !["client"] = @ \o s.out]
        /\ app' = app /\ net["server"] # <<>>
    BY DEF DeliverToListener
  <1>2. "server" \in Peers /\ "client" \in Peers /\ m \in BOOLEAN /\ n \in Nat /\ n # 0
    BY MayCloseBool, ConnectionAssumption DEF Peers
  <1>3. net["server"] \in Seq(Segment) /\ net["client"] \in Seq(Segment)
    BY <1>2 DEF SocketsSound
  <1>4. Tail(net["server"]) \in Seq(Segment) /\ seg \in Segment
    BY <1>1, <1>3, TailType
  <1>5. r \in Nat
    <2> HIDE DEF seg
    <2> QED
      BY <1>4 DEF Segment
  <1>6. /\ NewSocket.nextTx = 0 /\ ~ NewSocket.gotFin /\ ~ NewSocket.sendPendingDataEvent
        /\ ~ NewSocket.lastAckEvent /\ ~ NewSocket.closeOnEmpty
        /\ NewSocket.retxEvent = "none"
    BY DEF NewSocket
  <1> HIDE DEF n, r, seg, m
  <1>7. /\ f \in Socket /\ f.endPoint /\ f.synCount # 0 /\ f.nextTx = 0 /\ ~ f.gotFin
        /\ ~ f.sendPendingDataEvent /\ f.state = "SYN_RCVD"
        /\ ~ f.lastAckEvent /\ ~ f.closeOnEmpty /\ f.retxEvent = "none"
    BY <1>2, <1>5, <1>6, NewSocketSound DEF Socket, States
  <1> HIDE DEF f
  <1>8. Sound(a, m)
    <2>1. "SYN_RCVD" \in Handshake
      BY DEF Handshake
    <2>2. Sound([a EXCEPT !.state = "SYN_RCVD"], m)
      BY <1>2, <1>7, <2>1, OpeningSound
    <2>3. SynSent(f, a, "SYN+ACK") /\ a.endPoint
      BY <1>7, SendSyn
    <2> HIDE DEF a
    <2>4. a \in Socket /\ Sends(f, a)
      BY <2>3 DEF SynSent, Leaves
    <2>5. a = [a EXCEPT !.state = "SYN_RCVD"]
      BY <1>7, <2>4 DEF Sends, Socket
    <2> QED
      BY <2>2, <2>5
  <1>9. Sound(s, m)
    <2>1. Sound(sock["server"], m)
      BY <1>2 DEF SocketsSound, m
    <2> HIDE DEF a
    <2> QED
      BY <1>8, <2>1
  <1> HIDE DEF s
  <1>10. s.out \in Seq(Segment)
    BY <1>9 DEF Sound, Socket
  <1>11. net["client"] \o s.out \in Seq(Segment)
    BY <1>3, <1>10
  <1>12. net' = [net EXCEPT !["server"] = Tail(net["server"]), !["client"] = net["client"] \o s.out]
    BY <1>1, <1>2 DEF SocketsSound
  <1>13. net' \in [Peers -> Seq(Segment)]
    BY <1>2, <1>4, <1>11, <1>12 DEF SocketsSound
  <1>14. app' \in [Peers -> SUBSET Calls]
    BY <1>1 DEF SocketsSound
  <1> QED
    BY <1>1, <1>2, <1>9, <1>13, <1>14, SocketStep DEF m

LEMMA RefuseSound ==
    ASSUME NEW p \in Peers PROVE SocketsSound /\ Refuse(p) => SocketsSound'
  <1> SUFFICES ASSUME SocketsSound, Refuse(p) PROVE SocketsSound'
    OBVIOUS
  <1> DEFINE seg == Head(net[p])
             o   == Other(p)
             rst == [kind |-> IF HasAck(seg.kind) THEN "RST" ELSE "RST+ACK", len |-> 0,
                     seq |-> IF HasAck(seg.kind) THEN seg.ack ELSE 0, ack |-> seg.seq + 1]
             q   == IF seg.kind \in {"RST", "RST+ACK"} THEN net[o] ELSE Append(net[o], rst)
  <1>1. net[p] # <<>> /\ sock' = sock /\ app' = app
    BY DEF Refuse
  <1>2. o \in Peers /\ o # p
    BY OtherPeer
  <1>3. net' = [net EXCEPT ![p] = Tail(net[p]), ![o] = q]
    BY <1>2 DEF Refuse, SocketsSound
  <1>4. net[p] \in Seq(Segment) /\ net[o] \in Seq(Segment)
    BY <1>2 DEF SocketsSound
  <1>5. Tail(net[p]) \in Seq(Segment) /\ seg \in Segment
    BY <1>1, <1>4, TailType
  <1>6. rst \in Segment
    <2> HIDE DEF seg
    <2> QED
      BY <1>5 DEF Segment, Kinds
  <1>7. q \in Seq(Segment)
    <2> HIDE DEF rst
    <2> QED
      BY <1>4, <1>6
  <1> HIDE DEF q
  <1>8. net' \in [Peers -> Seq(Segment)]
    BY <1>2, <1>3, <1>5, <1>7 DEF SocketsSound
  <1> QED
    BY <1>1, <1>8, NetStep

LEMMA LoseSound ==
    ASSUME NEW p \in Peers PROVE SocketsSound /\ Lose(p) => SocketsSound'
  <1> SUFFICES ASSUME SocketsSound, Lose(p) PROVE SocketsSound'
    OBVIOUS
  <1>1. /\ net[p] # <<>> /\ net' = [net EXCEPT ![p] = Tail(net[p])]
        /\ sock' = sock /\ app' = app
    BY DEF Lose, SocketsSound
  <1>2. net[p] \in Seq(Segment)
    BY DEF SocketsSound
  <1>3. Tail(net[p]) \in Seq(Segment)
    BY <1>1, <1>2, TailType
  <1>4. net' \in [Peers -> Seq(Segment)]
    BY <1>1, <1>3 DEF SocketsSound
  <1> QED
    BY <1>1, <1>4, NetStep

LEMMA TimerSound ==
    ASSUME NEW p \in Peers
    PROVE  /\ SocketsSound /\ RetransmitEvent(p) => SocketsSound'
           /\ SocketsSound /\ LastAckEvent(p) => SocketsSound'
           /\ SocketsSound /\ DelAckTimeout(p) => SocketsSound'
           /\ SocketsSound /\ TimeWaitEnds(p) => SocketsSound'
  <1> DEFINE m == MayClose(app[p])
             d == [sock[p] EXCEPT !.delAckEvent = FALSE]
  <1>1. ASSUME SocketsSound, app' = app
        PROVE  /\ sock[p] \in Socket /\ Sound(sock[p], m) /\ m \in BOOLEAN
               /\ app' \in [Peers -> SUBSET Calls] /\ MayClose(app'[p]) = m
    BY <1>1, MayCloseBool DEF SocketsSound
  <1> HIDE DEF m
  <1>2. ASSUME SocketsSound, app' = app, NEW s, Becomes(p, s), Sound(s, m) PROVE SocketsSound'
    <2>1. Sound(s, MayClose(app'[p])) /\ app' \in [Peers -> SUBSET Calls]
      BY <1>1, <1>2
    <2> QED
      BY <1>2, <2>1, BecomesStep
  <1>3. ASSUME SocketsSound, RetransmitEvent(p) PROVE SocketsSound'
    <2>1. app' = app /\ sock[p].retxEvent # "none" /\ Becomes(p, Retransmit(sock[p]))
      BY <1>3 DEF RetransmitEvent
    <2>2. Sound(Retransmit(sock[p]), m)
      BY <1>1, <1>3, <2>1, RetransmitSound
    <2> QED
      BY <1>2, <1>3, <2>1, <2>2
  <1>4. ASSUME SocketsSound, LastAckEvent(p) PROVE SocketsSound'
    <2>1. app' = app /\ sock[p].lastAckEvent /\ Becomes(p, LastAckTimeout(sock[p]))
      BY <1>4 DEF LastAckEvent
    <2>2. Sound(LastAckTimeout(sock[p]), m)
      BY <1>1, <1>4, <2>1, LastAckSound
    <2> QED
      BY <1>2, <1>4, <2>1, <2>2
  <1>5. ASSUME SocketsSound, DelAckTimeout(p) PROVE SocketsSound'
    <2>1. app' = app /\ sock[p].delAckEvent /\ Becomes(p, SendEmptyPacket(d, "ACK"))
      BY <1>5 DEF DelAckTimeout
    <2>2. sock[p] \in Socket /\ Sound(sock[p], m) /\ m \in BOOLEAN
      BY <1>1, <1>5, <2>1
    <2>3. /\ d \in Socket /\ d.endPoint = sock[p].endPoint /\ d.state = sock[p].state
          /\ d.nextTx = sock[p].nextTx /\ d.size = sock[p].size /\ d.gotFin = sock[p].gotFin
          /\ d.shutdownSend = sock[p].shutdownSend /\ d.closeOnEmpty = sock[p].closeOnEmpty
          /\ d.lastAckEvent = sock[p].lastAckEvent /\ d.timewaitEvent = sock[p].timewaitEvent
          /\ d.sendPendingDataEvent = sock[p].sendPendingDataEvent
          /\ d.retxEvent = sock[p].retxEvent
      BY <2>2 DEF Socket
    <2> HIDE DEF d
    <2>4. sock[p].endPoint /\ Open(sock[p], m) /\ sock[p].state # "CLOSED"
      BY <2>1, <2>2 DEF Sound, Quiet
    <2>5. Open(d, m) /\ d.endPoint /\ d.state # "CLOSED"
      BY <2>3, <2>4 DEF Open, Shut
    <2>6. Sound(SendEmptyPacket(d, "ACK"), m)
      BY <2>2, <2>3, <2>5, AckSound
    <2> QED
      BY <1>2, <1>5, <2>1, <2>6
  <1>6. ASSUME SocketsSound, TimeWaitEnds(p) PROVE SocketsSound'
    <2>1. app' = app /\ Becomes(p, CloseAndNotify(sock[p]))
      BY <1>6 DEF TimeWaitEnds
    <2>2. Sound(CloseAndNotify(sock[p]), m)
      BY <1>1, <1>6, <2>1, ClosedSound
    <2> QED
      BY <1>2, <1>6, <2>1, <2>2
  <1> QED
    BY <1>3, <1>4, <1>5, <1>6

LEMMA NextSound == SocketsSound /\ [Next]_vars => SocketsSound'
  <1> SUFFICES ASSUME SocketsSound, [Next]_vars PROVE SocketsSound'
    OBVIOUS
  <1>1. CASE Connect
    BY <1>1, ConnectSound
  <1>2. CASE CloseListener
    <2>1. UNCHANGED <<sock, net, app>>
      BY <1>2 DEF CloseListener
    <2> QED
      BY <2>1 DEF SocketsSound
  <1>3. ASSUME NEW p \in Peers, Send(p) \/ AppClose(p) \/ AppShutdownSend(p) \/ Lose(p)
        PROVE  SocketsSound'
    BY <1>3, SendSound, AppCloseSound, AppShutdownSound, LoseSound
  <1>4. ASSUME NEW p \in Peers, Events(p) PROVE SocketsSound'
    <2>1. CASE DeliverToListener
      BY <2>1, ListenerSound
    <2>2. CASE SendPendingDataEvent(p) \/ Deliver(p) \/ Refuse(p)
      BY <2>2, PendingSound, DeliverSound, RefuseSound
    <2>3. CASE RetransmitEvent(p) \/ LastAckEvent(p) \/ DelAckTimeout(p) \/ TimeWaitEnds(p)
      BY <2>3, TimerSound
    <2> QED
      BY <1>4, <2>1, <2>2, <2>3 DEF Events
  <1>5. CASE UNCHANGED vars
    BY <1>5 DEF vars, SocketsSound
  <1> QED
    BY <1>1, <1>2, <1>3, <1>4, <1>5 DEF Next, Environment

-----------------------------------------------------------------------------
(* The theorems.                                                            *)

LEMMA AlwaysSound == Spec => []SocketsSound
  BY InitSound, NextSound, PTL DEF Spec

\* After DeallocateEndPoint nothing is scheduled on the socket, whatever the
\* handler that called it goes on to do, for any scripts, retries and faults.
THEOREM NothingScheduled == Spec => []QuietWhenClosed
  <1>1. SocketsSound => QuietWhenClosed
    <2> SUFFICES ASSUME SocketsSound, NEW p \in Peers, ~ sock[p].endPoint
                 PROVE  sock[p] = CancelAllTimers(sock[p])
      BY DEF QuietWhenClosed
    <2>1. sock[p] \in Socket /\ Quiet(sock[p])
      BY DEF SocketsSound, Sound
    <2> QED
      BY <2>1, QuietIsCancelled
  <1> QED
    BY <1>1, AlwaysSound, PTL

\* A socket that waits for the peer always has a timer pending.  The proof
\* rests on Open: a retransmission timer that resends data (NewAck's) has
\* data to resend or guards a FIN, and a socket in LAST_ACK without the
\* last-ACK timer still has the FIN or data to retransmit.
THEOREM NeverWithoutTimer == Spec => []TimerPending
  <1>1. SocketsSound => TimerPending
    <2> SUFFICES ASSUME SocketsSound, NEW p \in Peers, sock[p].endPoint,
                        sock[p].state \in {"SYN_SENT", "SYN_RCVD", "FIN_WAIT_1", "CLOSING",
                                           "LAST_ACK", "TIME_WAIT"}
                 PROVE  \/ sock[p].retxEvent # "none" \/ sock[p].lastAckEvent
                        \/ sock[p].timewaitEvent
      BY DEF TimerPending
    <2>1. Open(sock[p], MayClose(app[p]))
      BY DEF SocketsSound, Sound
    <2> QED
      BY <2>1 DEF Open, Handshake
  <1> QED
    BY <1>1, AlwaysSound, PTL

-----------------------------------------------------------------------------
(* The two ends together: what one end says and what the other has heard.   *)

\* Data or a FIN.
Carries(m) == m.len > 0 \/ m.kind = "FIN+ACK"

\* The sequence number after a segment.
End(m) == m.seq + m.len + (IF m.kind = "FIN+ACK" THEN 1 ELSE 0)

\* The kinds whose acknowledgment number is looked at.
Acking == {"ACK", "FIN+ACK", "SYN+ACK"}

SegOK(m) ==
    /\ m.len > 0 => m.seq <= 1 /\ m.kind \in {"ACK", "FIN+ACK"}
    /\ m.kind \in {"SYN", "SYN+ACK"} => m.seq = 0 /\ m.len = 0
    /\ m.kind \in Acking => m.ack >= 1

\* The assertion of DoPeerClose, and what it rests on in one socket: where the
\* receiver and the sender are in each state.
Local(s) ==
    /\ ~ s.failed
    /\ s.state \notin {"CLOSED", "SYN_SENT"} => s.rcvNext >= 1
    /\ s.state = "SYN_SENT" => s.rcvNext = 0
    /\ s.state = "CLOSE_WAIT" => s.rcvNext >= 2
    /\ s.size > 0 => s.una <= 1 /\ s.highTx <= s.una + 1
    /\ s.state \in Handshake => ~ s.delAckEvent /\ s.una = 0 /\ s.highTx = 0
    /\ s.state \in Handshake => s.retxEvent # "FIN+ACK"
    /\ s.retxEvent = "SYN" => s.state = "SYN_SENT"
    /\ s.retxEvent = "SYN+ACK" => s.state = "SYN_RCVD"
    /\ s.nextTx >= s.una /\ s.nextTx >= s.highTx /\ s.nextTx \in {s.una, s.highTx}

\* An application that may still write (`send`) has sent no FIN.
NoFinYet(s, send) ==
    s.endPoint /\ send /\ ~ s.closeOnEmpty =>
        /\ s.state \notin {"FIN_WAIT_1", "FIN_WAIT_2"}
        /\ s.state \in {"ESTABLISHED", "CLOSE_WAIT"} => s.retxEvent # "FIN+ACK"

MaySend(s, send) ==
    /\ send /\ s.endPoint /\ ~ s.closeOnEmpty
    /\ s.state \in Handshake \cup {"ESTABLISHED", "CLOSE_WAIT"}

\* Nothing was written.
Unsent(s) == s.size = 0 /\ s.una <= 1 /\ s.highTx <= 1

\* A segment that t may send.
Fresh(t, m) ==
    /\ m \in Segment /\ SegOK(m) /\ m.kind \notin {"SYN", "RST+ACK"}
    /\ m.kind \in Acking => m.ack <= t.rcvNext
    /\ Carries(m) => End(m) <= t.nextTx + 1

\* From s to t, the socket moves forward and sends what it may.
Emits(s, t) ==
    /\ t.rcvNext >= s.rcvNext /\ t.nextTx >= s.nextTx
    /\ t.state \in Handshake => t.state = s.state
    /\ \A m \in Segs(t.out) : m \in Segs(s.out) \/ Fresh(t, m)

\* From s to t, neither data nor a FIN is sent.
Silent(s, t) == \A m \in Segs(t.out) : m \in Segs(s.out) \/ ~ Carries(m)

\* What t has taken from seg.
Hears(s, t, seg) ==
    /\ \/ t.rcvNext = s.rcvNext
       \/ seg.kind \in {"SYN", "SYN+ACK"} /\ t.rcvNext = 1
       \/ Carries(seg) /\ t.rcvNext <= End(seg)
       \/ Carries(seg) /\ s.gotFin /\ t.rcvNext <= s.finSeq + 1
    /\ t.gotFin => \/ s.gotFin /\ t.finSeq = s.finSeq
                   \/ seg.kind = "FIN+ACK" /\ t.finSeq + 1 <= End(seg)
    /\ t.una <= s.una \/ (seg.kind \in Acking /\ t.una <= seg.ack)

\* A side that has written nothing stays so.
Holds(s, t, seg, send) ==
    MaySend(t, send) =>
        /\ MaySend(s, send)
        /\ Unsent(s) /\ (seg.kind \in Acking => seg.ack <= 1) => Unsent(t) /\ Silent(s, t)

Moves(s, t, seg, send) ==
    /\ t \in Socket /\ Local(t) /\ NoFinYet(t, send)
    /\ Emits(s, t) /\ Hears(s, t, seg) /\ Holds(s, t, seg, send)

LEMMA EmitsTrans ==
    ASSUME NEW s \in Socket, NEW t \in Socket, NEW u \in Socket, Emits(s, t), Emits(t, u)
    PROVE  Emits(s, u)
  <1>1. /\ s.rcvNext \in Nat /\ t.rcvNext \in Nat /\ u.rcvNext \in Nat
        /\ s.nextTx \in Nat /\ t.nextTx \in Nat /\ u.nextTx \in Nat
    BY DEF Socket
  <1>2. /\ t.rcvNext >= s.rcvNext /\ t.nextTx >= s.nextTx
        /\ u.rcvNext >= t.rcvNext /\ u.nextTx >= t.nextTx
    BY DEF Emits
  <1>3. ASSUME NEW m, Fresh(t, m) PROVE Fresh(u, m)
    <2>1. m.ack \in Nat /\ End(m) \in Nat
      BY <1>3 DEF Fresh, Segment, End
    <2>2. m.kind \in Acking => m.ack <= u.rcvNext
      BY <1>1, <1>2, <1>3, <2>1 DEF Fresh
    <2>3. Carries(m) => End(m) <= u.nextTx + 1
      BY <1>1, <1>2, <1>3, <2>1 DEF Fresh
    <2> QED
      BY <1>3, <2>2, <2>3 DEF Fresh
  <1>4. u.rcvNext >= s.rcvNext /\ u.nextTx >= s.nextTx
    BY <1>1, <1>2
  <1> QED
    BY <1>3, <1>4 DEF Emits

LEMMA SilentTrans ==
    ASSUME NEW s, NEW t, NEW u, Silent(s, t), Silent(t, u)
    PROVE  Silent(s, u)
  BY DEF Silent

\* The segments without data that a socket sends.
LEMMA ReplyFresh ==
    ASSUME NEW s \in Socket, NEW t \in Socket, NEW m \in Segment, Reply(s, m), s.rcvNext >= 1,
           t.rcvNext = s.rcvNext, t.nextTx = s.nextTx
    PROVE  Fresh(t, m)
  <1>1. /\ s.rcvNext \in Nat /\ s.nextTx \in Nat /\ m.ack = s.rcvNext /\ m.len = 0
        /\ m.kind \in {"ACK", "FIN+ACK"} /\ (m.kind = "FIN+ACK" => m.seq = s.nextTx)
    BY DEF Socket, Reply
  <1>2. Carries(m) => End(m) <= t.nextTx + 1
    BY <1>1 DEF Carries, End
  <1>3. SegOK(m) /\ m.kind \notin {"SYN", "RST+ACK"}
    BY <1>1 DEF SegOK, Acking
  <1>4. m.ack <= t.rcvNext
    BY <1>1
  <1> QED
    BY <1>2, <1>3, <1>4 DEF Fresh

LEMMA PlainFresh ==
    ASSUME NEW t \in Socket, NEW m \in Segment, Plain(t, m), t.rcvNext >= 1
    PROVE  Fresh(t, m) /\ ~ Carries(m)
  <1>1. t.rcvNext \in Nat /\ m.ack = t.rcvNext /\ m.len = 0 /\ m.kind = "ACK"
    BY DEF Socket, Plain
  <1>2. ~ Carries(m)
    BY <1>1 DEF Carries
  <1>3. SegOK(m) /\ m.kind \notin {"SYN", "RST+ACK"}
    BY <1>1 DEF SegOK, Acking
  <1>4. m.ack <= t.rcvNext
    BY <1>1
  <1> QED
    BY <1>2, <1>3, <1>4 DEF Fresh

LEMMA OutSegments ==
    ASSUME NEW t \in Socket
    PROVE  Segs(t.out) \subseteq Segment
  <1>1. t.out \in Seq(Segment)
    BY DEF Socket
  <1>2. \A i \in DOMAIN t.out : t.out[i] \in Segment
    BY <1>1
  <1> QED
    BY <1>2 DEF Segs

LEMMA GoesEmits ==
    ASSUME NEW s \in Socket, NEW t, Goes(s, t), s.rcvNext >= 1
    PROVE  Emits(s, t) /\ Silent(s, t)
  <1>1. t \in Socket /\ t.nextTx = s.nextTx /\ t.rcvNext >= s.rcvNext /\ t.state = s.state
    BY DEF Goes
  <1>2. t.rcvNext >= 1 /\ t.nextTx >= s.nextTx
    BY <1>1 DEF Socket
  <1>3. ASSUME NEW m \in Segs(t.out) PROVE m \in Segs(s.out) \/ (Fresh(t, m) /\ ~ Carries(m))
    <2>1. m \in Segment
      BY <1>1, OutSegments
    <2> QED
      BY <1>1, <1>2, <2>1, PlainFresh DEF Goes
  <1> QED
    BY <1>1, <1>2, <1>3 DEF Emits, Silent

LEMMA PeerClosedEmits ==
    ASSUME NEW s \in Socket, NEW t, PeerClosed(s, t), s.rcvNext >= 1
    PROVE  Emits(s, t) /\ (t.state = "CLOSE_WAIT" => Silent(s, t))
  <1>1. t \in Socket /\ t.nextTx = s.nextTx /\ t.rcvNext = s.rcvNext /\ t.state \notin Handshake
    BY DEF PeerClosed, Handshake
  <1>2. t.nextTx >= s.nextTx /\ t.rcvNext >= s.rcvNext
    BY <1>1 DEF Socket
  <1>3. ASSUME NEW m \in Segs(t.out) PROVE m \in Segs(s.out) \/ Fresh(t, m)
    <2>1. m \in Segment
      BY <1>1, OutSegments
    <2> QED
      BY <1>1, <2>1, ReplyFresh DEF PeerClosed
  <1>4. ASSUME NEW m \in Segs(t.out), t.state = "CLOSE_WAIT"
        PROVE  m \in Segs(s.out) \/ ~ Carries(m)
    BY <1>4 DEF PeerClosed, Reply, Carries
  <1> QED
    BY <1>1, <1>2, <1>3, <1>4 DEF Emits, Silent

LEMMA SendsDataEmits ==
    ASSUME NEW s \in Socket, NEW t, SendsData(s, t), s.rcvNext >= 1, s.size > 0, s.una <= 1,
           s.nextTx <= s.una + 1
    PROVE  Emits(s, t)
  <1> DEFINE d == DataSegment(s)
  <1>1. t \in Socket /\ t.nextTx = s.una + 1 /\ t.rcvNext = s.rcvNext
        /\ Segs(t.out) = Segs(s.out) \cup {d}
    BY DEF SendsData
  <1>2. t.nextTx >= s.nextTx /\ t.rcvNext >= s.rcvNext /\ s.una \in Nat /\ s.rcvNext \in Nat
    BY <1>1 DEF Socket
  <1>3. d \in Segs(t.out)
    BY <1>1
  <1>4. d \in Segment
    BY <1>1, <1>3, OutSegments
  <1>5. /\ d.kind \in {"ACK", "FIN+ACK"} /\ d.len = 1 /\ d.seq = s.una /\ d.ack = s.rcvNext
    BY DEF DataSegment
  <1> HIDE DEF d
  <1>6. SegOK(d)
    BY <1>2, <1>5 DEF SegOK, Acking
  <1>7. End(d) <= t.nextTx + 1
    BY <1>1, <1>2, <1>5 DEF End
  <1>8. d.ack <= t.rcvNext
    BY <1>1, <1>2, <1>5
  <1>9. Fresh(t, d)
    BY <1>4, <1>5, <1>6, <1>7, <1>8 DEF Fresh
  <1>10. t.state \in Handshake => t.state = s.state
    BY DEF SendsData, Handshake
  <1> QED
    BY <1>1, <1>2, <1>9, <1>10 DEF Emits

LEMMA SegmentNumbers ==
    ASSUME NEW m \in Segment
    PROVE  /\ m.seq \in Nat /\ m.ack \in Nat /\ m.len \in {0, 1} /\ m.kind \in Kinds
           /\ m.seq + m.len \in Nat /\ End(m) \in Nat
           /\ End(m) = m.seq + m.len \/ (m.kind = "FIN+ACK" /\ End(m) = m.seq + m.len + 1)
           /\ End(m) >= m.seq + m.len
           /\ m.kind = "FIN+ACK" => End(m) = m.seq + m.len + 1
  <1>1. m.seq \in Nat /\ m.ack \in Nat /\ m.len \in {0, 1} /\ m.kind \in Kinds
    BY DEF Segment
  <1> QED
    BY <1>1 DEF End

LEMMA SocketNumbers ==
    ASSUME NEW s \in Socket
    PROVE  /\ s.nextTx \in Nat /\ s.highTx \in Nat /\ s.una \in Nat /\ s.size \in {0, 1}
           /\ s.rcvNext \in Nat /\ s.finSeq \in Nat
  BY DEF Socket

LEMMA HearsTrans ==
    ASSUME NEW s \in Socket, NEW t \in Socket, NEW u \in Socket, NEW seg \in Segment,
           Hears(s, t, seg), Hears(t, u, seg)
    PROVE  Hears(s, u, seg)
  <1>1. /\ s.una \in Nat /\ t.una \in Nat /\ u.una \in Nat /\ seg.ack \in Nat
        /\ s.rcvNext \in Nat /\ t.rcvNext \in Nat /\ u.rcvNext \in Nat /\ End(seg) \in Nat
        /\ s.finSeq \in Nat /\ t.finSeq \in Nat /\ u.finSeq \in Nat
    BY SocketNumbers, SegmentNumbers
  <1>2. u.una <= s.una \/ (seg.kind \in Acking /\ u.una <= seg.ack)
    <2>1. t.una <= s.una \/ (seg.kind \in Acking /\ t.una <= seg.ack)
      BY DEF Hears
    <2>2. u.una <= t.una \/ (seg.kind \in Acking /\ u.una <= seg.ack)
      BY DEF Hears
    <2> QED
      BY <1>1, <2>1, <2>2
  <1>3. u.gotFin => \/ s.gotFin /\ u.finSeq = s.finSeq
                    \/ seg.kind = "FIN+ACK" /\ u.finSeq + 1 <= End(seg)
    BY DEF Hears
  <1>4. \/ u.rcvNext = s.rcvNext
        \/ seg.kind \in {"SYN", "SYN+ACK"} /\ u.rcvNext = 1
        \/ Carries(seg) /\ u.rcvNext <= End(seg)
        \/ Carries(seg) /\ s.gotFin /\ u.rcvNext <= s.finSeq + 1
    <2>1. CASE u.rcvNext = t.rcvNext
      BY <2>1 DEF Hears
    <2>2. CASE seg.kind \in {"SYN", "SYN+ACK"} /\ u.rcvNext = 1
      BY <2>2
    <2>3. CASE Carries(seg) /\ u.rcvNext <= End(seg)
      BY <2>3
    <2>4. CASE Carries(seg) /\ t.gotFin /\ u.rcvNext <= t.finSeq + 1
      <3>1. \/ s.gotFin /\ t.finSeq = s.finSeq
            \/ seg.kind = "FIN+ACK" /\ t.finSeq + 1 <= End(seg)
        BY <2>4 DEF Hears
      <3> QED
        BY <1>1, <2>4, <3>1
    <2> QED
      BY <2>1, <2>2, <2>3, <2>4 DEF Hears
  <1> QED
    BY <1>2, <1>3, <1>4 DEF Hears

LEMMA HoldsTrans ==
    ASSUME NEW s, NEW t, NEW u, NEW seg, NEW send, Holds(s, t, seg, send), Holds(t, u, seg, send)
    PROVE  Holds(s, u, seg, send)
  <1> SUFFICES ASSUME MaySend(u, send)
               PROVE  /\ MaySend(s, send)
                      /\ Unsent(s) /\ (seg.kind \in Acking => seg.ack <= 1) =>
                             Unsent(u) /\ Silent(s, u)
    BY DEF Holds
  <1>1. MaySend(t, send) /\ MaySend(s, send)
    BY DEF Holds
  <1>2. ASSUME Unsent(s), seg.kind \in Acking => seg.ack <= 1 PROVE Unsent(u) /\ Silent(s, u)
    <2>1. Unsent(t) /\ Silent(s, t)
      BY <1>1, <1>2 DEF Holds
    <2>2. Unsent(u) /\ Silent(t, u)
      BY <1>1, <1>2, <2>1 DEF Holds
    <2> QED
      BY <2>1, <2>2, SilentTrans
  <1> QED
    BY <1>1, <1>2

LEMMA MovesTrans ==
    ASSUME NEW s \in Socket, NEW t, NEW u, NEW seg \in Segment, NEW send,
           Moves(s, t, seg, send), Moves(t, u, seg, send)
    PROVE  Moves(s, u, seg, send)
  <1>1. t \in Socket /\ u \in Socket /\ Local(u) /\ NoFinYet(u, send)
    BY DEF Moves
  <1>2. Emits(s, u)
    BY <1>1, EmitsTrans DEF Moves
  <1>3. Hears(s, u, seg)
    BY <1>1, HearsTrans DEF Moves
  <1>4. Holds(s, u, seg, send)
    BY HoldsTrans DEF Moves
  <1> QED
    BY <1>1, <1>2, <1>3, <1>4 DEF Moves

\* Nothing happens.
LEMMA SameMoves ==
    ASSUME NEW s \in Socket, Local(s), NEW seg, NEW send, NoFinYet(s, send)
    PROVE  Moves(s, s, seg, send)
  <1>1. s.rcvNext >= s.rcvNext /\ s.nextTx >= s.nextTx /\ s.una <= s.una
    BY SocketNumbers
  <1>2. Emits(s, s) /\ Silent(s, s)
    BY <1>1 DEF Emits, Silent
  <1>3. Hears(s, s, seg)
    BY <1>1 DEF Hears
  <1>4. Holds(s, s, seg, send)
    BY <1>2 DEF Holds
  <1> QED
    BY <1>2, <1>3, <1>4 DEF Moves

Talking == {"ESTABLISHED", "FIN_WAIT_1", "FIN_WAIT_2", "CLOSE_WAIT"}

LEMMA AckedMoves ==
    ASSUME NEW s \in Socket, Local(s), NEW seg \in Segment, NEW send \in BOOLEAN,
           NoFinYet(s, send), s.state \in Talking, seg.kind \in {"ACK", "FIN+ACK"},
           NEW u, Acked(s, u, seg)
    PROVE  Moves(s, u, seg, send) /\ u.state = s.state /\ u.endPoint = s.endPoint
  <1>0. /\ u \in Socket /\ u.state = s.state /\ u.endPoint = s.endPoint
        /\ s.una \in Nat /\ s.nextTx \in Nat /\ s.highTx \in Nat /\ s.rcvNext \in Nat
        /\ seg.ack \in Nat /\ seg.kind \in Acking
    BY SocketNumbers, SegmentNumbers DEF Acked, Acking
  <1>1. s.nextTx >= s.una /\ s.nextTx >= s.highTx /\ s.nextTx \in {s.una, s.highTx}
    BY DEF Local
  <1>2. /\ u.highTx = s.highTx /\ u.rcvNext = s.rcvNext /\ u.out = s.out
        /\ u.gotFin = s.gotFin /\ u.finSeq = s.finSeq /\ u.failed = s.failed
        /\ u.closeOnEmpty = s.closeOnEmpty
    BY DEF Acked
  <1>3. \/ u.una = s.una /\ u.size = s.size /\ u.nextTx = s.nextTx
        \/ /\ seg.ack > s.una /\ u.una = seg.ack /\ u.size = 0
           /\ u.nextTx = (IF seg.ack > s.nextTx THEN seg.ack ELSE s.nextTx)
    BY <1>0, <1>1 DEF Acked
  <1>4. /\ u.nextTx >= u.una /\ u.nextTx >= u.highTx /\ u.nextTx \in {u.una, u.highTx}
        /\ u.nextTx >= s.nextTx
    BY <1>0, <1>1, <1>2, <1>3
  <1>5. u.size > 0 => u.una <= 1 /\ u.highTx <= u.una + 1
    BY <1>0, <1>2, <1>3 DEF Local
  <1>6. u.retxEvent \in {s.retxEvent, "none", "data"}
    BY DEF Acked
  <1>7. Local(u)
    BY <1>0, <1>2, <1>4, <1>5, <1>6 DEF Local, Talking, Handshake
  <1>8. NoFinYet(u, send)
    BY <1>0, <1>2, <1>6 DEF NoFinYet
  <1>9. Emits(s, u) /\ Silent(s, u)
    BY <1>0, <1>2, <1>4 DEF Emits, Silent
  <1>10. Hears(s, u, seg)
    <2>1. u.una <= s.una \/ u.una <= seg.ack
      BY <1>0, <1>3
    <2> QED
      BY <1>0, <1>2, <2>1 DEF Hears
  <1>11. Holds(s, u, seg, send)
    <2>1. MaySend(u, send) => MaySend(s, send)
      BY <1>0, <1>2 DEF MaySend
    <2>2. Unsent(s) /\ (seg.kind \in Acking => seg.ack <= 1) => Unsent(u)
      BY <1>0, <1>2, <1>3 DEF Unsent
    <2> QED
      BY <1>9, <2>1, <2>2 DEF Holds
  <1> QED
    BY <1>0, <1>7, <1>8, <1>9, <1>10, <1>11 DEF Moves

\* The same without the invariant of t.
Shifts(s, t, seg, send) ==
    t \in Socket /\ Emits(s, t) /\ Hears(s, t, seg) /\ Holds(s, t, seg, send)

LEMMA ShiftMoves ==
    ASSUME NEW s \in Socket, NEW t, NEW u, NEW seg \in Segment, NEW send,
           Shifts(s, t, seg, send), Moves(t, u, seg, send)
    PROVE  Moves(s, u, seg, send)
  <1>1. t \in Socket /\ u \in Socket /\ Local(u) /\ NoFinYet(u, send)
    BY DEF Moves, Shifts
  <1>2. Emits(s, u)
    BY <1>1, EmitsTrans DEF Moves, Shifts
  <1>3. Hears(s, u, seg)
    BY <1>1, HearsTrans DEF Moves, Shifts
  <1>4. Holds(s, u, seg, send)
    BY HoldsTrans DEF Moves, Shifts
  <1> QED
    BY <1>1, <1>2, <1>3, <1>4 DEF Moves

LEMMA GoesMoves ==
    ASSUME NEW s \in Socket, Local(s), NEW seg \in Segment, NEW send \in BOOLEAN,
           NoFinYet(s, send), s.state \notin Handshake, s.rcvNext >= 1, NEW t, Goes(s, t),
           t.rcvNext = s.rcvNext \/ (seg.len > 0 /\ t.rcvNext = After(s, seg))
    PROVE  Moves(s, t, seg, send) /\ t.state = s.state /\ t.endPoint = s.endPoint
  <1>0. /\ t \in Socket /\ t.state = s.state /\ t.endPoint = s.endPoint
        /\ s.una \in Nat /\ s.rcvNext \in Nat /\ t.rcvNext \in Nat /\ End(seg) >= seg.seq + seg.len
        /\ t.rcvNext >= s.rcvNext
    BY SocketNumbers, SegmentNumbers DEF Goes
  <1>1. /\ t.nextTx = s.nextTx /\ t.highTx = s.highTx /\ t.una = s.una /\ t.size = s.size
        /\ t.gotFin = s.gotFin /\ t.finSeq = s.finSeq /\ t.closeOnEmpty = s.closeOnEmpty
        /\ t.failed = s.failed /\ t.retxEvent = s.retxEvent
    BY DEF Goes
  <1>2. Local(t)
    <2>1. t.rcvNext >= 1 /\ (s.rcvNext >= 2 => t.rcvNext >= 2)
      BY <1>0
    <2>2. s.state # "SYN_SENT"
      BY DEF Handshake
    <2> QED
      BY <1>0, <1>1, <2>1, <2>2 DEF Local
  <1>3. NoFinYet(t, send)
    BY <1>0, <1>1 DEF NoFinYet
  <1>4. Emits(s, t) /\ Silent(s, t)
    BY GoesEmits
  <1>5. Hears(s, t, seg)
    <2>1. \/ t.rcvNext = s.rcvNext
          \/ Carries(seg) /\ t.rcvNext <= End(seg)
          \/ Carries(seg) /\ s.gotFin /\ t.rcvNext <= s.finSeq + 1
      <3>1. CASE t.rcvNext = s.rcvNext
        BY <3>1
      <3>2. CASE seg.len > 0 /\ t.rcvNext = After(s, seg)
        <4>1. Carries(seg)
          BY <3>2 DEF Carries
        <4>2. CASE s.gotFin /\ s.finSeq = seg.seq + seg.len
          <5>1. t.rcvNext = s.finSeq + 1
            BY <3>2, <4>2 DEF After
          <5>2. t.rcvNext <= s.finSeq + 1
            BY <1>0, <5>1
          <5> QED
            BY <4>1, <4>2, <5>2
        <4>3. CASE ~ (s.gotFin /\ s.finSeq = seg.seq + seg.len)
          <5>1. t.rcvNext = seg.seq + seg.len
            BY <3>2, <4>3 DEF After
          <5>2. t.rcvNext <= End(seg)
            BY <1>0, <5>1
          <5> QED
            BY <4>1, <5>2
        <4> QED
          BY <4>2, <4>3
      <3> QED
        BY <3>1, <3>2
    <2>2. t.una <= s.una
      BY <1>0, <1>1
    <2> QED
      BY <1>1, <2>1, <2>2 DEF Hears
  <1>6. Holds(s, t, seg, send)
    <2>1. MaySend(t, send) => MaySend(s, send)
      BY <1>0, <1>1 DEF MaySend
    <2>2. Unsent(s) => Unsent(t)
      BY <1>1 DEF Unsent
    <2> QED
      BY <1>4, <2>1, <2>2 DEF Holds
  <1> QED
    BY <1>0, <1>2, <1>3, <1>4, <1>5, <1>6 DEF Moves

\* What DoPeerClose needs of the socket for its assertion.
Ready(s) ==
    /\ ~ s.failed /\ s.endPoint
    /\ s.state \in {"ESTABLISHED", "SYN_RCVD", "FIN_WAIT_1", "FIN_WAIT_2"}
    /\ s.rcvNext >= 2
    /\ s.size > 0 => s.una <= 1 /\ s.highTx <= s.una + 1
    /\ s.retxEvent \notin {"SYN", "SYN+ACK"}
    /\ s.state = "SYN_RCVD" => s.retxEvent = "none"
    /\ s.nextTx >= s.una /\ s.nextTx >= s.highTx /\ s.nextTx \in {s.una, s.highTx}

LEMMA PeerClosedMoves ==
    ASSUME NEW s \in Socket, Ready(s), NEW seg \in Segment, NEW send \in BOOLEAN,
           NoFinYet(s, send), NEW t, PeerClosed(s, t)
    PROVE  Moves(s, t, seg, send) /\ t.endPoint /\ t.state \in {"CLOSE_WAIT", "LAST_ACK"}
  <1>0. /\ t \in Socket /\ t.endPoint /\ t.state \in {"CLOSE_WAIT", "LAST_ACK"}
        /\ s.una \in Nat /\ s.rcvNext \in Nat
    BY SocketNumbers DEF PeerClosed
  <1>1. /\ t.nextTx = s.nextTx /\ t.highTx = s.highTx /\ t.una = s.una /\ t.size = s.size
        /\ t.rcvNext = s.rcvNext
        /\ t.gotFin = s.gotFin /\ t.finSeq = s.finSeq /\ (s.closeOnEmpty => t.closeOnEmpty)
        /\ t.retxEvent \in {s.retxEvent, "FIN+ACK"}
        /\ t.state = "CLOSE_WAIT" => t.retxEvent = s.retxEvent
    BY DEF PeerClosed
  <1>2. ~ t.failed
    BY DEF PeerClosed, Ready
  <1>3. Local(t)
    <2>1. t.rcvNext >= 1 /\ t.rcvNext >= 2
      BY <1>0, <1>1 DEF Ready
    <2>2. /\ t.size > 0 => t.una <= 1 /\ t.highTx <= t.una + 1
          /\ t.nextTx >= t.una /\ t.nextTx >= t.highTx /\ t.nextTx \in {t.una, t.highTx}
      BY <1>1 DEF Ready
    <2>3. t.retxEvent \notin {"SYN", "SYN+ACK"}
      BY <1>1 DEF Ready
    <2> QED
      BY <1>0, <1>2, <2>1, <2>2, <2>3 DEF Local, Handshake
  <1>4. ASSUME send, ~ t.closeOnEmpty
        PROVE  s.state \in {"ESTABLISHED", "SYN_RCVD"} /\ ~ s.closeOnEmpty
    BY <1>1, <1>4 DEF Ready, NoFinYet
  <1>5. NoFinYet(t, send)
    <2> SUFFICES ASSUME send, ~ t.closeOnEmpty, t.state = "CLOSE_WAIT"
                 PROVE  t.retxEvent # "FIN+ACK"
      BY <1>0 DEF NoFinYet
    <2>1. CASE s.state = "ESTABLISHED"
      BY <1>1, <1>4, <2>1 DEF NoFinYet, Ready
    <2>2. CASE s.state = "SYN_RCVD"
      BY <1>1, <1>4, <2>2 DEF NoFinYet, Ready
    <2> QED
      BY <1>4, <2>1, <2>2
  <1>6. Emits(s, t) /\ (t.state = "CLOSE_WAIT" => Silent(s, t))
    <2>1. s.rcvNext >= 1
      BY <1>0 DEF Ready
    <2> QED
      BY <2>1, PeerClosedEmits
  <1>7. Hears(s, t, seg)
    <2>1. t.una <= s.una
      BY <1>0, <1>1
    <2> QED
      BY <1>1, <2>1 DEF Hears
  <1>8. Holds(s, t, seg, send)
    <2>1. MaySend(t, send) => MaySend(s, send) /\ t.state = "CLOSE_WAIT"
      BY <1>0, <1>4 DEF MaySend, Handshake, Ready
    <2>2. Unsent(s) => Unsent(t)
      BY <1>1 DEF Unsent
    <2> QED
      BY <1>6, <2>1, <2>2 DEF Holds
  <1> QED
    BY <1>0, <1>3, <1>5, <1>6, <1>7, <1>8 DEF Moves

LEMMA SendsDataMoves ==
    ASSUME NEW s \in Socket, Local(s), NEW seg \in Segment, NEW send \in BOOLEAN,
           NoFinYet(s, send), s.state \notin Handshake \cup {"CLOSED"}, s.size > 0,
           NEW t, SendsData(s, t)
    PROVE  Moves(s, t, seg, send)
  <1>0. /\ t \in Socket /\ t.endPoint = s.endPoint /\ s.una \in Nat /\ s.rcvNext \in Nat
        /\ s.nextTx \in Nat /\ s.highTx \in Nat
    BY SocketNumbers DEF SendsData
  <1>1. /\ t.nextTx = s.una + 1 /\ t.highTx = s.una + 1 /\ t.una = s.una /\ t.size = s.size
        /\ t.rcvNext = s.rcvNext
        /\ t.gotFin = s.gotFin /\ t.finSeq = s.finSeq /\ t.closeOnEmpty = s.closeOnEmpty
        /\ t.failed = s.failed
        /\ t.retxEvent = IF s.retxEvent = "none" THEN "data" ELSE s.retxEvent
    BY DEF SendsData
  <1>2. \/ s.state = "ESTABLISHED" /\ s.closeOnEmpty /\ t.state = "FIN_WAIT_1"
        \/ s.state = "CLOSE_WAIT" /\ s.closeOnEmpty /\ t.state = "LAST_ACK"
        \/ t.state = s.state
    BY DEF SendsData
  <1>3. /\ s.una <= 1 /\ s.highTx <= s.una + 1 /\ s.nextTx <= s.una + 1 /\ s.rcvNext >= 1
        /\ s.retxEvent \notin {"SYN", "SYN+ACK"} /\ s.state \notin Handshake
    BY <1>0 DEF Local, Handshake
  <1>4. Local(t)
    <2>1. t.nextTx >= t.una /\ t.nextTx >= t.highTx /\ t.nextTx \in {t.una, t.highTx}
          /\ t.highTx <= t.una + 1 /\ t.una <= 1
      BY <1>0, <1>1, <1>3
    <2>2. t.rcvNext >= 1 /\ (t.state = "CLOSE_WAIT" => t.rcvNext >= 2)
      BY <1>1, <1>2, <1>3 DEF Local
    <2>3. t.state \notin Handshake /\ t.state # "SYN_SENT" /\ t.retxEvent \notin {"SYN", "SYN+ACK"}
      BY <1>1, <1>2, <1>3 DEF Handshake
    <2>4. ~ t.failed
      BY <1>1 DEF Local
    <2> QED
      BY <2>1, <2>2, <2>3, <2>4 DEF Local
  <1>5. NoFinYet(t, send)
    BY <1>0, <1>1, <1>2 DEF NoFinYet
  <1>6. Emits(s, t)
    BY <1>3, SendsDataEmits
  <1>7. Hears(s, t, seg)
    <2>1. t.una <= s.una
      BY <1>0, <1>1
    <2> QED
      BY <1>1, <2>1 DEF Hears
  <1>8. Holds(s, t, seg, send)
    <2>1. MaySend(t, send) => MaySend(s, send)
      BY <1>0, <1>1, <1>2 DEF MaySend
    <2>2. ~ Unsent(s)
      BY DEF Unsent
    <2> QED
      BY <2>1, <2>2 DEF Holds
  <1> QED
    BY <1>0, <1>4, <1>5, <1>6, <1>7, <1>8 DEF Moves

LEMMA SendPendingMoves ==
    ASSUME NEW s \in Socket, Local(s), NEW seg \in Segment, NEW send \in BOOLEAN,
           NoFinYet(s, send), s.state \notin Handshake \cup {"CLOSED"}, NEW resend \in BOOLEAN
    PROVE  Moves(s, SendPendingData(s, resend), seg, send)
  <1>1. CASE SendPendingData(s, resend) = s
    BY <1>1, SameMoves
  <1>2. CASE SendPendingData(s, resend) = SendDataPacket(s) /\ s.size > 0
    BY <1>2, SendDataFields, SendsDataMoves
  <1> QED
    BY <1>1, <1>2 DEF SendPendingData

LEMMA SendPendingState ==
    ASSUME NEW s \in Socket, NEW resend \in BOOLEAN
    PROVE  LET t == SendPendingData(s, resend)
           IN  /\ t.endPoint = s.endPoint /\ t.rcvNext = s.rcvNext
               /\ t.state = s.state \/ t.state \in {"FIN_WAIT_1", "LAST_ACK"}
  <1>1. CASE SendPendingData(s, resend) = s
    BY <1>1
  <1>2. CASE SendPendingData(s, resend) = SendDataPacket(s)
    BY <1>2, SendDataFields DEF SendsData
  <1> QED
    BY <1>1, <1>2 DEF SendPendingData

\* t is s in another state.
Turns(s, t) ==
    /\ t \in Socket /\ t.endPoint = s.endPoint
    /\ t.nextTx = s.nextTx /\ t.highTx = s.highTx /\ t.una = s.una /\ t.size = s.size
    /\ t.rcvNext = s.rcvNext /\ t.gotFin = s.gotFin /\ t.finSeq = s.finSeq
    /\ t.closeOnEmpty = s.closeOnEmpty /\ t.failed = s.failed
    /\ t.retxEvent \in {s.retxEvent, "none"} /\ t.out = s.out
    /\ \/ t.state = s.state
       \/ t.state = "FIN_WAIT_2" /\ s.state = "FIN_WAIT_1"
       \/ t.state \in {"CLOSING", "TIME_WAIT"}

LEMMA TurnsMoves ==
    ASSUME NEW s \in Socket, Local(s), NEW seg \in Segment, NEW send \in BOOLEAN,
           NoFinYet(s, send), s.state \notin Handshake \cup {"CLOSED"}, NEW t, Turns(s, t)
    PROVE  Moves(s, t, seg, send)
  <1>0. t \in Socket /\ s.una \in Nat /\ s.rcvNext \in Nat /\ s.nextTx \in Nat
    BY SocketNumbers DEF Turns
  <1>1. /\ t.state \notin Handshake \cup {"CLOSED"}
        /\ t.state \in {"ESTABLISHED", "CLOSE_WAIT"} => t.state = s.state
    BY DEF Turns, Handshake
  <1>2. Local(t)
    BY <1>1 DEF Local, Turns, Handshake
  <1>3. NoFinYet(t, send)
    BY <1>1 DEF NoFinYet, Turns
  <1>4. Emits(s, t) /\ Silent(s, t)
    BY <1>0, <1>1 DEF Emits, Silent, Turns
  <1>5. Hears(s, t, seg)
    BY <1>0 DEF Hears, Turns
  <1>6. Holds(s, t, seg, send)
    <2>1. MaySend(t, send) => MaySend(s, send)
      BY <1>1 DEF MaySend, Turns
    <2>2. Unsent(s) => Unsent(t)
      BY DEF Unsent, Turns
    <2> QED
      BY <1>4, <2>1, <2>2 DEF Holds
  <1> QED
    BY <1>0, <1>2, <1>3, <1>4, <1>5, <1>6 DEF Moves

\* The socket is gone, perhaps with a reset.
LEMMA LeavesMoves ==
    ASSUME NEW s \in Socket, Local(s), NEW seg \in Segment, NEW send \in BOOLEAN,
           NEW t, Leaves(s, t), t.state \in {s.state, "CLOSED"},
           \A m \in Segs(t.out) : m \in Segs(s.out) \/ (m.kind = "RST" /\ m.len = 0)
    PROVE  Moves(s, t, seg, send) /\ Silent(s, t)
  <1>0. t \in Socket /\ s.una \in Nat /\ s.rcvNext \in Nat /\ s.nextTx \in Nat /\ ~ t.endPoint
    BY SocketNumbers DEF Leaves
  <1>1. Local(t)
    BY DEF Local, Leaves, Quiet, Handshake
  <1>2. NoFinYet(t, send)
    BY <1>0 DEF NoFinYet
  <1>3. ASSUME NEW m \in Segs(t.out), m \notin Segs(s.out) PROVE Fresh(t, m) /\ ~ Carries(m)
    <2>1. m \in Segment
      BY <1>0, OutSegments
    <2>2. m.kind = "RST" /\ m.len = 0
      BY <1>3
    <2> QED
      BY <2>1, <2>2 DEF Fresh, SegOK, Carries, Acking
  <1>4. Emits(s, t) /\ Silent(s, t)
    <2>1. t.rcvNext >= s.rcvNext /\ t.nextTx >= s.nextTx
      BY <1>0 DEF Leaves
    <2>2. t.state \in Handshake => t.state = s.state
      BY DEF Handshake
    <2> QED
      BY <1>3, <2>1, <2>2 DEF Emits, Silent
  <1>5. Hears(s, t, seg)
    BY <1>0 DEF Hears, Leaves
  <1>6. Holds(s, t, seg, send)
    BY <1>0 DEF Holds, MaySend
  <1> QED
    BY <1>0, <1>1, <1>2, <1>4, <1>5, <1>6 DEF Moves

LEMMA CloseMoves ==
    ASSUME NEW s \in Socket, Local(s), NEW seg \in Segment, NEW send \in BOOLEAN
    PROVE  /\ Moves(s, CloseAndNotify(s), seg, send) /\ Silent(s, CloseAndNotify(s))
           /\ CloseAndNotify(s).state = "CLOSED"
           /\ s.endPoint => /\ Moves(s, ResetAndClose(s), seg, send)
                            /\ Silent(s, ResetAndClose(s))
                            /\ ResetAndClose(s).state = "CLOSED"
  <1>1. /\ Moves(s, CloseAndNotify(s), seg, send) /\ Silent(s, CloseAndNotify(s))
        /\ CloseAndNotify(s).state = "CLOSED"
    <2> DEFINE t == CloseAndNotify(s)
    <2>1. Leaves(s, t) /\ t.state = "CLOSED" /\ t.out = s.out
      BY CloseAndNotifyFields
    <2> HIDE DEF t
    <2>2. Moves(s, t, seg, send) /\ Silent(s, t)
      BY <2>1, LeavesMoves
    <2> QED
      BY <2>1, <2>2 DEF t
  <1>2. ASSUME s.endPoint
        PROVE  /\ Moves(s, ResetAndClose(s), seg, send) /\ Silent(s, ResetAndClose(s))
               /\ ResetAndClose(s).state = "CLOSED"
    <2> DEFINE t == ResetAndClose(s)
    <2>1. Leaves(s, t) /\ t.state = "CLOSED" /\ Segs(t.out) = Segs(s.out) \cup {EmptySegment(s, "RST")}
      BY <1>2, ResetFields
    <2>2. EmptySegment(s, "RST").kind = "RST" /\ EmptySegment(s, "RST").len = 0
      BY EmptySegmentType DEF Kinds
    <2> HIDE DEF t
    <2>3. Moves(s, t, seg, send) /\ Silent(s, t)
      BY <2>1, <2>2, LeavesMoves
    <2> QED
      BY <2>1, <2>3 DEF t
  <1> QED
    BY <1>1, <1>2

LEMMA AckMoves ==
    ASSUME NEW s \in Socket, Local(s), NEW seg \in Segment, NEW send \in BOOLEAN,
           NoFinYet(s, send), s.state \notin Handshake \cup {"CLOSED"}, s.endPoint
    PROVE  LET t == SendEmptyPacket(s, "ACK")
           IN  Moves(s, t, seg, send) /\ t.state = s.state /\ t.endPoint /\ t.rcvNext = s.rcvNext
  <1> DEFINE t == SendEmptyPacket(s, "ACK")
  <1>1. Goes(s, t) /\ t.rcvNext = s.rcvNext
    BY AckGoes
  <1>2. s.rcvNext >= 1 /\ s.state \notin Handshake
    BY DEF Local, Handshake
  <1> HIDE DEF t
  <1>3. Moves(s, t, seg, send) /\ t.state = s.state /\ t.endPoint = s.endPoint
    BY <1>1, <1>2, GoesMoves
  <1> QED
    BY <1>1, <1>3 DEF t

\* SetFinSequence of a FIN that ends before, or with, the segment.
LEMMA SetFinMoves ==
    ASSUME NEW s \in Socket, Local(s), NEW seg \in Segment, NEW send \in BOOLEAN,
           NoFinYet(s, send), s.state \notin Handshake \cup {"CLOSED"}, seg.kind = "FIN+ACK",
           NEW f \in Nat, f + 1 <= End(seg)
    PROVE  LET t == SetFinSequence(s, f)
           IN  Moves(s, t, seg, send) /\ t.state = s.state /\ t.endPoint = s.endPoint
  <1> DEFINE t == SetFinSequence(s, f)
  <1>1. /\ t \in Socket /\ t.endPoint = s.endPoint /\ t.state = s.state
        /\ t.nextTx = s.nextTx /\ t.highTx = s.highTx /\ t.una = s.una
        /\ t.size = s.size /\ t.gotFin /\ t.finSeq = f
        /\ t.closeOnEmpty = s.closeOnEmpty
        /\ t.failed = s.failed /\ t.retxEvent = s.retxEvent
        /\ t.rcvNext = (IF s.rcvNext = f THEN s.rcvNext + 1 ELSE s.rcvNext)
        /\ t.out = s.out
    BY SetFinFields
  <1> HIDE DEF t
  <1>2. s.rcvNext \in Nat /\ s.una \in Nat /\ s.nextTx \in Nat /\ t.rcvNext \in Nat
    BY <1>1, SocketNumbers
  <1>3. t.rcvNext >= s.rcvNext /\ (t.rcvNext = s.rcvNext \/ t.rcvNext = f + 1) /\ t.una <= s.una
        /\ t.nextTx >= s.nextTx
    BY <1>1, <1>2
  <1>4. Local(t)
    <2>1. (s.rcvNext >= 1 => t.rcvNext >= 1) /\ (s.rcvNext >= 2 => t.rcvNext >= 2)
      BY <1>2, <1>3
    <2> QED
      BY <1>1, <2>1 DEF Local, Handshake
  <1>5. NoFinYet(t, send)
    BY <1>1 DEF NoFinYet
  <1>6. Emits(s, t) /\ Silent(s, t)
    BY <1>1, <1>3 DEF Emits, Silent
  <1>7. Hears(s, t, seg)
    <2>1. Carries(seg)
      BY DEF Carries
    <2> QED
      BY <1>1, <1>3, <2>1 DEF Hears
  <1>8. Holds(s, t, seg, send)
    <2>1. MaySend(t, send) => MaySend(s, send)
      BY <1>1 DEF MaySend
    <2>2. Unsent(s) => Unsent(t)
      BY <1>1 DEF Unsent
    <2> QED
      BY <1>6, <2>1, <2>2 DEF Holds
  <1> QED
    BY <1>1, <1>4, <1>5, <1>6, <1>7, <1>8 DEF Moves, t

LEMMA PiggybackedMoves ==
    ASSUME NEW s \in Socket, s.endPoint, Local(s), NEW seg \in Segment, NEW send \in BOOLEAN,
           NoFinYet(s, send), s.state \in Talking, NEW reacts \in BOOLEAN,
           seg.len > 0 => s.state # "CLOSE_WAIT"
    PROVE  LET t == PiggybackedData(s, seg, reacts)
           IN  /\ Moves(s, t, seg, send) /\ t.endPoint
               /\ t.state \in {s.state, "CLOSE_WAIT", "LAST_ACK"}
  <1> DEFINE t == PiggybackedData(s, seg, reacts)
             n == AddData(s, seg)
  <1>0. s.rcvNext \in Nat /\ s.rcvNext >= 1 /\ s.state \notin Handshake
    BY SocketNumbers DEF Local, Talking, Handshake
  <1>1. CASE seg.len = 0
    <2>1. t = s
      BY <1>1 DEF PiggybackedData
    <2> QED
      BY <2>1, SameMoves
  <1>2. CASE seg.len > 0
    <2>1. Takes(s, t, seg)
      BY <1>2, ReceivedDataFields DEF PiggybackedData
    <2> HIDE DEF t
    <2>2. CASE Goes(s, t) /\ t.rcvNext \in {s.rcvNext, After(s, seg)}
      <3>1. Moves(s, t, seg, send) /\ t.state = s.state /\ t.endPoint = s.endPoint
        BY <1>0, <1>2, <2>2, GoesMoves
      <3> QED
        BY <3>1 DEF t
    <2>3. CASE seg.seq + seg.len > s.rcvNext /\ PeerClosed(n, t)
      <3>1. /\ Goes(s, n) /\ n.rcvNext = After(s, seg) /\ n.rcvNext > s.rcvNext
        BY <2>3, AddDataFields
      <3> HIDE DEF n
      <3>2. Moves(s, n, seg, send) /\ n.state = s.state /\ n.endPoint = s.endPoint
        BY <1>0, <1>2, <3>1, GoesMoves
      <3>3. n \in Socket /\ Local(n) /\ NoFinYet(n, send) /\ n.rcvNext \in Nat
        BY <3>2, SocketNumbers DEF Moves
      <3>4. Ready(n)
        <4>1. n.rcvNext >= 2
          BY <1>0, <3>1, <3>3
        <4>2. n.state \in {"ESTABLISHED", "FIN_WAIT_1", "FIN_WAIT_2"}
          BY <1>2, <3>2 DEF Talking
        <4> QED
          BY <3>2, <3>3, <4>1, <4>2 DEF Ready, Local
      <3>5. Moves(n, t, seg, send) /\ t.endPoint /\ t.state \in {"CLOSE_WAIT", "LAST_ACK"}
        BY <2>3, <3>3, <3>4, PeerClosedMoves
      <3>6. Moves(s, t, seg, send)
        BY <3>2, <3>5, MovesTrans
      <3> QED
        BY <3>5, <3>6 DEF t
    <2> QED
      BY <2>1, <2>2, <2>3 DEF Takes
  <1>3. seg.len = 0 \/ seg.len > 0
    BY SegmentNumbers
  <1> QED
    BY <1>1, <1>2, <1>3

LEMMA ReceivedAckMoves ==
    ASSUME NEW s \in Socket, s.endPoint, Local(s), NEW seg \in Segment, NEW send \in BOOLEAN,
           NoFinYet(s, send), s.state \in Talking, NEW reacts \in BOOLEAN,
           seg.kind \in {"ACK", "FIN+ACK"}, seg.len > 0 => s.state # "CLOSE_WAIT"
    PROVE  LET t == ReceivedAck(s, seg, reacts)
           IN  Moves(s, t, seg, send) /\ t.endPoint /\ t.state \in Talking \cup {"LAST_ACK"}
  <1> DEFINE u == Processed(s, seg)
             x == PiggybackedData(u, seg, reacts)
             t == SentMore(s, seg, x)
  <1>1. Acked(s, u, seg)
    BY ProcessedFields
  <1> HIDE DEF u
  <1>2. Moves(s, u, seg, send) /\ u.state = s.state /\ u.endPoint = s.endPoint
    BY <1>1, AckedMoves
  <1>3. u \in Socket /\ Local(u) /\ NoFinYet(u, send)
    BY <1>2 DEF Moves
  <1>4. /\ Moves(u, x, seg, send) /\ x.endPoint /\ x.state \in {u.state, "CLOSE_WAIT", "LAST_ACK"}
    BY <1>2, <1>3, PiggybackedMoves
  <1> HIDE DEF x
  <1>5. x \in Socket /\ Local(x) /\ NoFinYet(x, send) /\ Moves(s, x, seg, send)
    BY <1>2, <1>4, MovesTrans DEF Moves
  <1>6. x.state \in Talking \cup {"LAST_ACK"} /\ x.state \notin Handshake \cup {"CLOSED"}
    BY <1>2, <1>4 DEF Talking, Handshake
  <1>7. Moves(s, t, seg, send) /\ t.endPoint /\ t.state \in Talking \cup {"LAST_ACK"}
    <2>1. CASE t = x
      BY <1>4, <1>5, <1>6, <2>1
    <2>2. CASE t = SendPendingData(x, FALSE)
      <3>1. Moves(x, t, seg, send)
        BY <1>5, <1>6, <2>2, SendPendingMoves
      <3>2. t.endPoint = x.endPoint /\ (t.state = x.state \/ t.state \in {"FIN_WAIT_1", "LAST_ACK"})
        BY <1>5, <2>2, SendPendingState
      <3>3. Moves(s, t, seg, send)
        BY <1>5, <3>1, MovesTrans
      <3> QED
        BY <1>4, <1>6, <3>2, <3>3 DEF Talking
    <2> QED
      BY <2>1, <2>2 DEF SentMore
  <1> QED
    BY <1>7, ReceivedAckIs DEF t, x, u

\* A FIN is noted and its data taken.
LEMMA FinsShifts ==
    ASSUME NEW s \in Socket, NEW seg \in Segment, NEW send \in BOOLEAN, s.rcvNext >= 1,
           seg.kind = "FIN+ACK", NEW x, Fins(s, x, seg)
    PROVE  Shifts(s, x, seg, send)
  <1>0. /\ x \in Socket /\ s.una \in Nat /\ s.nextTx \in Nat /\ s.rcvNext \in Nat
        /\ x.rcvNext \in Nat /\ End(seg) = seg.seq + seg.len + 1 /\ End(seg) \in Nat
    BY SocketNumbers, SegmentNumbers DEF Fins
  <1>1. x.rcvNext >= s.rcvNext /\ x.nextTx >= s.nextTx /\ x.una <= s.una /\ x.rcvNext >= 1
    BY <1>0 DEF Fins
  <1>2. ASSUME NEW m \in Segs(x.out) PROVE m \in Segs(s.out) \/ (Fresh(x, m) /\ ~ Carries(m))
    <2>1. m \in Segment
      BY <1>0, OutSegments
    <2> QED
      BY <1>0, <1>1, <2>1, PlainFresh DEF Fins
  <1>3. Emits(s, x) /\ Silent(s, x)
    BY <1>1, <1>2 DEF Emits, Silent, Fins
  <1>4. Hears(s, x, seg)
    <2>1. Carries(seg)
      BY DEF Carries
    <2>2. x.rcvNext = s.rcvNext \/ x.rcvNext <= End(seg)
      BY <1>0 DEF Fins
    <2>3. x.finSeq + 1 <= End(seg)
      BY <1>0 DEF Fins
    <2> QED
      BY <1>1, <2>1, <2>2, <2>3 DEF Hears
  <1>5. Holds(s, x, seg, send)
    <2>1. MaySend(x, send) => MaySend(s, send)
      BY DEF MaySend, Fins
    <2>2. Unsent(s) => Unsent(x)
      BY DEF Unsent, Fins
    <2> QED
      BY <1>3, <2>1, <2>2 DEF Holds
  <1> QED
    BY <1>0, <1>3, <1>4, <1>5 DEF Shifts

LEMMA PeerCloseMoves ==
    ASSUME NEW s \in Socket, s.endPoint, Local(s), NEW seg \in Segment, NEW send \in BOOLEAN,
           NoFinYet(s, send), s.state = "ESTABLISHED", NEW reacts \in BOOLEAN,
           seg.kind = "FIN+ACK"
    PROVE  Moves(s, PeerClose(s, seg, reacts), seg, send)
  <1> DEFINE t == PeerClose(s, seg, reacts)
  <1>0. s.rcvNext \in Nat /\ s.rcvNext >= 1 /\ seg.seq \in Nat /\ seg.len \in {0, 1}
    BY SocketNumbers, SegmentNumbers DEF Local
  <1>1. CASE FinIgnored(s, seg)
    <2>1. t = s
      BY <1>1 DEF PeerClose, FinIgnored
    <2> QED
      BY <2>1, SameMoves
  <1>2. CASE ~ FinIgnored(s, seg)
    <2>1. PICK x \in Socket : /\ Fins(s, x, seg)
                              /\ \/ t = x /\ ~ Finished(x)
                                 \/ PeerClosed(x, t) /\ Finished(x)
      <3>1. HasFin(seg.kind)
        BY DEF HasFin
      <3> QED
        BY <1>2, <3>1, PeerCloseFields
    <2> HIDE DEF t
    <2>2. Shifts(s, x, seg, send)
      BY <1>0, <2>1, FinsShifts
    <2>3. x.rcvNext \in Nat /\ x.rcvNext >= 1
      BY <1>0, <2>1, SocketNumbers DEF Fins
    <2>4. Local(x) /\ NoFinYet(x, send)
      BY <2>1, <2>3 DEF Local, NoFinYet, Fins, Handshake
    <2>5. CASE t = x
      BY <2>2, <2>4, <2>5 DEF Moves, Shifts, t
    <2>6. CASE PeerClosed(x, t) /\ Finished(x)
      <3>1. x.rcvNext >= 2
        <4>1. x.finSeq = seg.seq + seg.len /\ x.finSeq < x.rcvNext
          BY <2>1, <2>6 DEF Fins, Finished
        <4>2. seg.seq >= s.rcvNext
          BY <1>0, <1>2 DEF FinIgnored
        <4> QED
          BY <1>0, <2>3, <4>1, <4>2
      <3>2. x.state = "ESTABLISHED" /\ x.endPoint
        BY <2>1 DEF Fins
      <3>3. Ready(x)
        BY <2>4, <3>1, <3>2 DEF Ready, Local
      <3>4. Moves(x, t, seg, send)
        BY <2>4, <2>6, <3>3, PeerClosedMoves
      <3> QED
        BY <2>2, <3>4, ShiftMoves DEF t
    <2> QED
      BY <2>1, <2>5, <2>6
  <1> QED
    BY <1>1, <1>2

LEMMA EstablishedMoves ==
    ASSUME NEW s \in Socket, s.endPoint, Local(s), NEW seg \in Segment, NEW send \in BOOLEAN,
           NoFinYet(s, send), s.state = "ESTABLISHED", NEW reacts \in BOOLEAN
    PROVE  Moves(s, ProcessEstablished(s, seg, reacts), seg, send)
  <1> DEFINE t == ProcessEstablished(s, seg, reacts)
  <1>0. s.state \in Talking /\ s.state # "CLOSE_WAIT" /\ s.state \notin Handshake \cup {"CLOSED"}
    BY DEF Talking, Handshake
  <1>1. CASE t = s
    BY <1>1, SameMoves
  <1>2. CASE t = SendEmptyPacket(s, "ACK")
    BY <1>0, <1>2, AckMoves
  <1>3. CASE seg.kind = "ACK" /\ t = ReceivedAck(s, seg, reacts)
    <2>1. seg.kind \in {"ACK", "FIN+ACK"}
      BY <1>3
    <2> QED
      BY <1>0, <1>3, <2>1, ReceivedAckMoves
  <1>4. CASE HasFin(seg.kind) /\ t = PeerClose(s, seg, reacts)
    <2>1. seg.kind = "FIN+ACK"
      BY <1>4 DEF HasFin
    <2> QED
      BY <1>4, <2>1, PeerCloseMoves
  <1>5. CASE t = CloseAndNotify(s) \/ t = ResetAndClose(s)
    BY <1>5, CloseMoves
  <1>6. \/ t = s \/ t = SendEmptyPacket(s, "ACK")
        \/ seg.kind = "ACK" /\ t = ReceivedAck(s, seg, reacts)
        \/ HasFin(seg.kind) /\ t = PeerClose(s, seg, reacts)
        \/ t = CloseAndNotify(s) \/ t = ResetAndClose(s)
    BY DEF ProcessEstablished, HasFin, HasSyn, Segment, Kinds
  <1> HIDE DEF t
  <1> QED
    BY <1>1, <1>2, <1>3, <1>4, <1>5, <1>6 DEF t

\* The SYN is acknowledged.
LEMMA JoinsShifts ==
    ASSUME NEW s \in Socket, Local(s), NEW seg \in Segment, NEW send \in BOOLEAN,
           s.state \in Handshake, s.nextTx = 0, ~ s.gotFin,
           seg.kind \in Acking, seg.ack >= 1,
           NEW j, Joins(s, j), j.state \in {s.state, "ESTABLISHED"},
           \/ j.rcvNext = s.rcvNext
           \/ seg.kind = "SYN+ACK" /\ j.rcvNext = 1 /\ s.rcvNext = 0
    PROVE  /\ Shifts(s, j, seg, send)
           /\ j.nextTx = 1 /\ j.highTx = 1 /\ j.una = 1
           /\ j.state = "ESTABLISHED" /\ j.rcvNext >= 1 => Moves(s, j, seg, send)
  <1>0. j \in Socket /\ s.rcvNext \in Nat /\ j.rcvNext \in Nat /\ seg.ack \in Nat
    BY SocketNumbers, SegmentNumbers DEF Joins
  <1>1. /\ j.nextTx = 1 /\ j.highTx = 1 /\ j.una = 1 /\ j.size = s.size
        /\ ~ j.gotFin /\ j.closeOnEmpty = s.closeOnEmpty
        /\ j.failed = s.failed /\ j.retxEvent = "none" /\ j.out = s.out
        /\ j.endPoint = s.endPoint
    BY DEF Joins
  <1>2. Emits(s, j) /\ Silent(s, j)
    <2>1. j.rcvNext >= s.rcvNext /\ j.nextTx >= s.nextTx
      BY <1>0, <1>1
    <2>2. j.state \in Handshake => j.state = s.state
      BY DEF Handshake
    <2> QED
      BY <1>1, <2>1, <2>2 DEF Emits, Silent
  <1>3. Hears(s, j, seg)
    <2>1. j.una <= seg.ack
      BY <1>0, <1>1
    <2> QED
      BY <1>1, <2>1 DEF Hears
  <1>4. Holds(s, j, seg, send)
    <2>1. MaySend(j, send) => MaySend(s, send)
      BY <1>1 DEF MaySend
    <2>2. Unsent(s) => Unsent(j)
      BY <1>1 DEF Unsent
    <2> QED
      BY <1>2, <2>1, <2>2 DEF Holds
  <1>5. ASSUME j.state = "ESTABLISHED", j.rcvNext >= 1
        PROVE  Local(j) /\ NoFinYet(j, send)
    BY <1>1, <1>5 DEF Local, NoFinYet, Handshake
  <1> QED
    BY <1>0, <1>1, <1>2, <1>3, <1>4, <1>5 DEF Shifts, Moves

LEMMA SynSentMoves ==
    ASSUME NEW s \in Socket, s.endPoint, Local(s), NEW seg \in Segment, SegOK(seg),
           NEW send \in BOOLEAN, NoFinYet(s, send), s.state = "SYN_SENT",
           s.nextTx = 0, ~ s.gotFin
    PROVE  Moves(s, ProcessSynSent(s, seg), seg, send)
  <1> DEFINE c == Connected(s)
             n == seg.seq + 1
             j == [c EXCEPT !.state = "ESTABLISHED", !.rcvNext = n]
             a == SendEmptyPacket(j, "ACK")
             d == SendPendingData(a, FALSE)
             q == [d EXCEPT !.quickAck = TRUE]
             t == ProcessSynSent(s, seg)
  <1>1. CASE seg.kind = "SYN+ACK" /\ t = q
    <2>1. Joins(s, c)
      BY ConnectedFields
    <2>2. n = 1 /\ seg.kind \in Acking /\ seg.ack >= 1
      BY <1>1 DEF SegOK, Acking
    <2>3. Joins(s, j) /\ j.state = "ESTABLISHED" /\ j.rcvNext = 1
      <3>1. n \in Nat
        BY <2>2
      <3> HIDE DEF c, n
      <3>2. Joins(s, j) /\ j.state = "ESTABLISHED" /\ j.rcvNext = n
        BY <2>1, <3>1 DEF Joins, Socket, States
      <3> QED
        BY <2>2, <3>2
    <2> HIDE DEF c, n, j
    <2>4. s.state \in Handshake /\ s.rcvNext = 0 /\ j.rcvNext >= 1
      BY <2>3 DEF Handshake, Local
    <2>5. Moves(s, j, seg, send)
      BY <1>1, <2>2, <2>3, <2>4, JoinsShifts
    <2>6. /\ j \in Socket /\ Local(j) /\ NoFinYet(j, send) /\ j.endPoint
          /\ j.state \notin Handshake \cup {"CLOSED"}
      BY <2>3, <2>5 DEF Moves, Joins, Handshake
    <2>7. Moves(j, a, seg, send) /\ a.state = j.state
      BY <2>6, AckMoves
    <2> HIDE DEF a
    <2>8. a \in Socket /\ Local(a) /\ NoFinYet(a, send) /\ a.state \notin Handshake \cup {"CLOSED"}
      BY <2>6, <2>7 DEF Moves
    <2>9. Moves(a, d, seg, send)
      BY <2>8, SendPendingMoves
    <2>10. d.state = a.state \/ d.state \in {"FIN_WAIT_1", "LAST_ACK"}
      BY <2>8, SendPendingState
    <2> HIDE DEF d
    <2>11. d \in Socket /\ Local(d) /\ NoFinYet(d, send) /\ d.state \notin Handshake \cup {"CLOSED"}
      BY <2>8, <2>9, <2>10 DEF Moves, Handshake
    <2>12. Turns(d, q)
      BY <2>11 DEF Turns, Socket
    <2> HIDE DEF q
    <2>13. Moves(d, q, seg, send)
      BY <2>11, <2>12, TurnsMoves
    <2>14. Moves(s, a, seg, send)
      BY <2>5, <2>7, MovesTrans
    <2>15. Moves(s, d, seg, send)
      BY <2>9, <2>14, MovesTrans
    <2>16. Moves(s, q, seg, send)
      BY <2>13, <2>15, MovesTrans
    <2> QED
      BY <1>1, <2>16
  <1>2. CASE t = s
    BY <1>2, SameMoves
  <1>3. CASE t = CloseAndNotify(s) \/ t = ResetAndClose(s)
    BY <1>3, CloseMoves
  <1>4. t = s \/ (seg.kind = "SYN+ACK" /\ t = q) \/ t = CloseAndNotify(s) \/ t = ResetAndClose(s)
    BY DEF ProcessSynSent
  <1> HIDE DEF t, q
  <1> QED
    BY <1>1, <1>2, <1>3, <1>4 DEF t

\* A SYN+ACK is sent again, or the socket gives up.
LEMMA SynAckMoves ==
    ASSUME NEW s \in Socket, s.endPoint, Local(s), NEW seg \in Segment, NEW send \in BOOLEAN,
           s.state = "SYN_RCVD", s.nextTx = 0, NEW t, SynSent(s, t, "SYN+ACK")
    PROVE  /\ Moves(s, t, seg, send) /\ Silent(s, t)
           /\ t.state \in {"SYN_RCVD", "CLOSED"} /\ t.rcvNext = s.rcvNext
  <1>1. CASE Leaves(s, t) /\ t.state = "CLOSED" /\ t.out = s.out
    <2>1. Moves(s, t, seg, send) /\ Silent(s, t)
      BY <1>1, LeavesMoves
    <2> QED
      BY <1>1, <2>1 DEF Leaves
  <1>2. CASE /\ t \in Socket /\ Sends(s, t)
             /\ t.retxEvent = IF s.retxEvent = "none" THEN "SYN+ACK" ELSE s.retxEvent
             /\ Segs(t.out) = Segs(s.out) \cup {EmptySegment(s, "SYN+ACK")}
    <2> DEFINE m == EmptySegment(s, "SYN+ACK")
    <2>1. m \in Segment /\ m.kind = "SYN+ACK" /\ m.len = 0 /\ m.ack = s.rcvNext /\ m.seq = 0
      BY EmptySegmentType DEF Kinds
    <2> HIDE DEF m
    <2>2. s.rcvNext \in Nat /\ s.rcvNext >= 1 /\ s.una \in Nat
      BY SocketNumbers DEF Local
    <2>3. Fresh(t, m) /\ ~ Carries(m)
      <3>1. SegOK(m) /\ ~ Carries(m) /\ m.kind \notin {"SYN", "RST+ACK"}
        BY <2>1, <2>2 DEF SegOK, Carries, Acking
      <3>2. m.ack <= t.rcvNext
        BY <1>2, <2>1, <2>2 DEF Sends, Same
      <3> QED
        BY <2>1, <3>1, <3>2 DEF Fresh
    <2>4. /\ t.state = "SYN_RCVD" /\ t.rcvNext = s.rcvNext /\ t.nextTx = s.nextTx
          /\ t.highTx = s.highTx /\ t.una = s.una /\ t.size = s.size
          /\ t.gotFin = s.gotFin /\ t.finSeq = s.finSeq /\ t.failed = s.failed
          /\ t.closeOnEmpty = s.closeOnEmpty /\ t.endPoint = s.endPoint
          /\ t.retxEvent \in {"SYN+ACK", s.retxEvent} /\ (t.delAckEvent => s.delAckEvent)
      BY <1>2 DEF Sends, Same
    <2>5. Emits(s, t) /\ Silent(s, t)
      <3>1. t.rcvNext >= s.rcvNext /\ t.nextTx >= s.nextTx
        BY <2>2, <2>4
      <3> QED
        BY <1>2, <2>3, <2>4, <3>1 DEF Emits, Silent, m
    <2>6. Local(t)
      BY <2>4 DEF Local, Handshake
    <2>7. NoFinYet(t, send)
      BY <2>4 DEF NoFinYet
    <2>8. Hears(s, t, seg)
      BY <2>2, <2>4 DEF Hears
    <2>9. Holds(s, t, seg, send)
      <3>1. MaySend(t, send) => MaySend(s, send)
        BY <2>4 DEF MaySend
      <3>2. Unsent(s) => Unsent(t)
        BY <2>4 DEF Unsent
      <3> QED
        BY <2>5, <3>1, <3>2 DEF Holds
    <2> QED
      BY <1>2, <2>4, <2>5, <2>6, <2>7, <2>8, <2>9 DEF Moves
  <1> QED
    BY <1>1, <1>2 DEF SynSent

\* Only an ACK or a FIN takes a socket out of SYN_RCVD alive.
Waiting(s, t, seg) ==
    s.state = "SYN_RCVD" /\ seg.kind \notin {"ACK", "FIN+ACK"} =>
        t.state \in {"SYN_RCVD", "CLOSED"} /\ Silent(s, t)

LEMMA SynRcvdMoves ==
    ASSUME NEW s \in Socket, s.endPoint, Local(s), NEW seg \in Segment, SegOK(seg),
           NEW send \in BOOLEAN, NoFinYet(s, send), s.state = "SYN_RCVD", NEW reacts \in BOOLEAN,
           s.nextTx = 0, ~ s.gotFin, seg.kind = "SYN" => s.rcvNext <= 1
    PROVE  LET t == ProcessSynRcvd(s, seg, reacts)
           IN  Moves(s, t, seg, send) /\ Waiting(s, t, seg)
  <1> DEFINE c == Connected(s)
             n == seg.seq + 1
             j == [c EXCEPT !.state = "ESTABLISHED", !.quickAck = TRUE]
             r == [s EXCEPT !.rcvNext = n]
             t == ProcessSynRcvd(s, seg, reacts)
  <1>0. /\ s.rcvNext \in Nat /\ s.rcvNext >= 1 /\ s.state \in Handshake /\ seg.seq \in Nat
        /\ seg.len \in {0, 1}
    BY SocketNumbers, SegmentNumbers DEF Local, Handshake
  <1>1. Joins(s, c) /\ c.state = s.state /\ c.rcvNext = s.rcvNext
    BY ConnectedFields
  <1>2. CASE seg.kind = "ACK" /\ t = ReceivedAck(j, seg, reacts)
    <2>1. Joins(s, j) /\ j.state = "ESTABLISHED" /\ j.rcvNext = s.rcvNext
      <3> HIDE DEF c
      <3> QED
        BY <1>1 DEF Joins, Socket, States
    <2>2. seg.kind \in Acking /\ seg.ack >= 1
      BY <1>2 DEF SegOK, Acking
    <2> HIDE DEF j, t
    <2>3. Moves(s, j, seg, send)
      BY <1>0, <2>1, <2>2, JoinsShifts
    <2>4. /\ j \in Socket /\ Local(j) /\ NoFinYet(j, send) /\ j.endPoint /\ j.state \in Talking
          /\ j.state # "CLOSE_WAIT"
      BY <2>1, <2>3 DEF Moves, Joins, Talking
    <2>5. Moves(j, t, seg, send)
      BY <1>2, <2>4, ReceivedAckMoves
    <2>6. Moves(s, t, seg, send)
      BY <2>3, <2>5, MovesTrans
    <2> QED
      BY <1>2, <2>6 DEF Waiting, t
  <1>3. CASE seg.kind = "SYN" /\ t = SendEmptyPacket(r, "SYN+ACK")
    <2>1. n = 1 /\ s.rcvNext = 1
      BY <1>0, <1>3 DEF SegOK
    <2>2. r = s
      <3> HIDE DEF n
      <3> QED
        BY <2>1 DEF Socket
    <2> HIDE DEF r, t
    <2>3. SynSent(s, t, "SYN+ACK")
      BY <1>3, <2>2, SendSyn
    <2>4. Moves(s, t, seg, send) /\ Silent(s, t) /\ t.state \in {"SYN_RCVD", "CLOSED"}
      BY <2>3, SynAckMoves
    <2> QED
      BY <2>4 DEF Waiting, t
  <1>4. CASE HasFin(seg.kind) /\ seg.seq = s.rcvNext /\ t = PeerClose(c, seg, reacts)
    <2>0. seg.kind = "FIN+ACK" /\ seg.kind \in Acking /\ seg.ack >= 1
      BY <1>4 DEF HasFin, SegOK, Acking
    <2> HIDE DEF c, t
    <2>1. /\ c \in Socket /\ c.endPoint /\ c.state = "SYN_RCVD" /\ ~ c.gotFin
          /\ seg.seq = c.rcvNext /\ c.retxEvent = "none" /\ c.failed = s.failed
      BY <1>1, <1>4 DEF Joins
    <2>2. Shifts(s, c, seg, send) /\ c.nextTx = 1 /\ c.highTx = 1 /\ c.una = 1
      BY <1>0, <1>1, <2>0, JoinsShifts
    <2>3. ~ FinIgnored(c, seg)
      BY <1>0, <2>1 DEF FinIgnored
    <2>4. PICK x \in Socket : /\ Fins(c, x, seg)
                              /\ \/ t = x /\ ~ Finished(x)
                                 \/ PeerClosed(x, t) /\ Finished(x)
      BY <1>4, <2>1, <2>3, PeerCloseFields
    <2>5. /\ x.rcvNext = seg.seq + seg.len + 1 /\ x.finSeq = seg.seq + seg.len /\ x.gotFin
          /\ x.state = "SYN_RCVD" /\ x.endPoint /\ x.retxEvent = "none" /\ x.failed = s.failed
          /\ x.nextTx = 1 /\ x.highTx = 1 /\ x.una = 1
      BY <2>1, <2>2, <2>4 DEF Fins
    <2>6. x.rcvNext >= 2 /\ Finished(x)
      BY <1>0, <1>4, <2>5 DEF Finished
    <2>7. Ready(x)
      BY <2>5, <2>6 DEF Ready, Local
    <2>8. NoFinYet(x, send)
      BY <2>5 DEF NoFinYet
    <2>9. Moves(x, t, seg, send)
      BY <2>4, <2>6, <2>7, <2>8, PeerClosedMoves
    <2>10. Shifts(c, x, seg, send)
      BY <1>0, <1>1, <2>0, <2>1, <2>4, FinsShifts
    <2>11. Moves(c, t, seg, send)
      BY <2>1, <2>9, <2>10, ShiftMoves
    <2>12. Moves(s, t, seg, send)
      BY <2>2, <2>11, ShiftMoves
    <2> QED
      BY <2>0, <2>12 DEF Waiting, t
  <1>5. CASE t = s
    <2>1. Moves(s, s, seg, send) /\ Silent(s, s)
      BY SameMoves DEF Silent
    <2> QED
      BY <1>5, <2>1 DEF Waiting
  <1>6. CASE t = CloseAndNotify(s) \/ t = ResetAndClose(s)
    BY <1>6, CloseMoves DEF Waiting
  <1>7. \/ t = s
        \/ seg.kind = "ACK" /\ t = ReceivedAck(j, seg, reacts)
        \/ seg.kind = "SYN" /\ t = SendEmptyPacket(r, "SYN+ACK")
        \/ HasFin(seg.kind) /\ seg.seq = s.rcvNext /\ t = PeerClose(c, seg, reacts)
        \/ t = CloseAndNotify(s) \/ t = ResetAndClose(s)
    BY DEF ProcessSynRcvd
  <1> HIDE DEF t, j, r, c
  <1> QED
    BY <1>2, <1>3, <1>4, <1>5, <1>6, <1>7 DEF t

LEMMA WaitMoves ==
    ASSUME NEW s \in Socket, s.endPoint, Local(s), NEW seg \in Segment, NEW send \in BOOLEAN,
           NoFinYet(s, send), s.state \in {"FIN_WAIT_1", "FIN_WAIT_2", "CLOSE_WAIT"},
           NEW reacts \in BOOLEAN, seg.kind # "RST+ACK", seg.len > 0 => s.state # "CLOSE_WAIT"
    PROVE  Moves(s, ProcessWait(s, seg, reacts), seg, send)
  <1> DEFINE p == ReceivedAck(s, seg, reacts)
             w == WaitOn(seg, p)
             l == WaitLeave(seg, w)
             e == WaitEnd(seg, w)
             t == ProcessWait(s, seg, reacts)
  <1>0. s.state \in Talking /\ seg.seq \in Nat
    BY SegmentNumbers DEF Talking
  <1>1. CASE HasSyn(seg.kind)
    <2>1. t = s
      BY <1>1 DEF ProcessWait, HasSyn
    <2> QED
      BY <2>1, SameMoves
  <1>2. CASE seg.kind = "RST"
    <2>1. t = CloseAndNotify(s)
      BY <1>2 DEF ProcessWait, HasSyn
    <2> QED
      BY <2>1, CloseMoves
  <1>3. CASE ~ HasSyn(seg.kind) /\ seg.kind # "RST"
    <2>1. t = e
      BY <1>3, ProcessWaitIs
    <2>2. seg.kind \in {"ACK", "FIN+ACK"}
      BY <1>3 DEF HasSyn, Segment, Kinds
    <2>3. Moves(s, p, seg, send) /\ p.endPoint /\ p.state \in Talking \cup {"LAST_ACK"}
      BY <1>0, <2>2, ReceivedAckMoves
    <2> HIDE DEF p, t
    <2>4. /\ p \in Socket /\ Local(p) /\ NoFinYet(p, send)
          /\ p.state \notin Handshake \cup {"CLOSED"}
      BY <2>3 DEF Moves, Talking, Handshake
    <2>5. Moves(p, w, seg, send) /\ w.endPoint /\ w.state \notin Handshake \cup {"CLOSED"}
      <3>1. CASE seg.kind = "FIN+ACK" /\ w = SetFinSequence(p, seg.seq)
        <4>1. seg.seq + 1 <= End(seg)
          <5>1. seg.len \in {0, 1} /\ End(seg) = seg.seq + seg.len + 1
            BY <3>1, SegmentNumbers
          <5> QED
            BY <1>0, <5>1
        <4>2. Moves(p, w, seg, send) /\ w.state = p.state /\ w.endPoint = p.endPoint
          BY <1>0, <2>4, <3>1, <4>1, SetFinMoves
        <4> QED
          BY <2>3, <2>4, <4>2
      <3>2. CASE p.state = "FIN_WAIT_1" /\ w = [p EXCEPT !.state = "FIN_WAIT_2"]
        <4> HIDE DEF w
        <4>1. Turns(p, w) /\ w.state = "FIN_WAIT_2" /\ w.endPoint = p.endPoint
          BY <2>4, <3>2 DEF Turns, Socket, States
        <4>2. Moves(p, w, seg, send)
          BY <2>4, <4>1, TurnsMoves
        <4> QED
          BY <2>3, <4>1, <4>2 DEF Handshake
      <3>3. CASE w = p
        BY <2>3, <2>4, <3>3, SameMoves
      <3> QED
        BY <2>2, <3>1, <3>2, <3>3 DEF WaitOn, HasFin
    <2> HIDE DEF w
    <2>6. w \in Socket /\ Local(w) /\ NoFinYet(w, send)
      BY <2>5 DEF Moves
    <2>7. Moves(w, e, seg, send)
      <3>1. CASE e = w
        BY <2>6, <3>1, SameMoves
      <3>2. CASE w.state \in {"FIN_WAIT_1", "FIN_WAIT_2"} /\ e = SendEmptyPacket(l, "ACK")
        <4>1. Turns(w, l) /\ l.state \in {"CLOSING", "TIME_WAIT"} /\ l.endPoint = w.endPoint
          <5>1. CASE w.state = "FIN_WAIT_1" /\ l = [w EXCEPT !.state = "CLOSING"]
            <6> HIDE DEF l
            <6> QED
              BY <2>6, <5>1 DEF Turns, Socket, States
          <5>2. CASE l = TimeWait(w)
            <6> HIDE DEF l
            <6> QED
              BY <2>6, <5>2, TimeWaitFields DEF Turns
          <5> QED
            BY <3>2, <5>1, <5>2 DEF WaitLeave
        <4> HIDE DEF l, e
        <4>2. Moves(w, l, seg, send)
          BY <2>5, <2>6, <4>1, TurnsMoves
        <4>3. /\ l \in Socket /\ Local(l) /\ NoFinYet(l, send) /\ l.endPoint
              /\ l.state \notin Handshake \cup {"CLOSED"}
          BY <2>5, <4>1, <4>2 DEF Moves, Handshake
        <4>4. Moves(l, e, seg, send)
          BY <3>2, <4>3, AckMoves
        <4> QED
          BY <2>6, <4>2, <4>4, MovesTrans DEF e
      <3> QED
        BY <3>1, <3>2 DEF WaitEnd
    <2> HIDE DEF e
    <2>8. Moves(s, w, seg, send)
      BY <2>3, <2>5, MovesTrans
    <2>9. Moves(s, e, seg, send)
      BY <2>7, <2>8, MovesTrans
    <2> QED
      BY <2>1, <2>9 DEF t
  <1> QED
    BY <1>1, <1>2, <1>3

LEMMA ClosingMoves ==
    ASSUME NEW s \in Socket, s.endPoint, Local(s), NEW seg \in Segment, NEW send \in BOOLEAN,
           NoFinYet(s, send), s.state \in {"CLOSING", "LAST_ACK"}
    PROVE  /\ Moves(s, ProcessClosing(s, seg), seg, send)
           /\ Moves(s, ProcessLastAck(s, seg), seg, send)
  <1> DEFINE a == SendEmptyPacket(s, "ACK")
             w == TimeWait(s)
  <1>0. s.state \notin Handshake \cup {"CLOSED"}
    BY DEF Handshake
  <1>1. Moves(s, s, seg, send)
    BY SameMoves
  <1>2. Moves(s, w, seg, send)
    <2>1. Turns(s, w)
      BY TimeWaitFields DEF Turns
    <2> HIDE DEF w
    <2> QED
      BY <1>0, <2>1, TurnsMoves
  <1>3. Moves(s, CloseAndNotify(a), seg, send)
    <2>1. Moves(s, a, seg, send)
      BY <1>0, AckMoves
    <2> HIDE DEF a
    <2>2. a \in Socket /\ Local(a)
      BY <2>1 DEF Moves
    <2>3. Moves(a, CloseAndNotify(a), seg, send)
      BY <2>2, CloseMoves
    <2> QED
      BY <2>1, <2>3, MovesTrans
  <1>4. Moves(s, CloseAndNotify(s), seg, send) /\ Moves(s, ResetAndClose(s), seg, send)
    BY CloseMoves
  <1>5. ProcessClosing(s, seg) \in {s, w, CloseAndNotify(a), CloseAndNotify(s), ResetAndClose(s)}
    BY DEF ProcessClosing
  <1>6. ProcessLastAck(s, seg) \in {s, CloseAndNotify(s), ResetAndClose(s)}
    BY DEF ProcessLastAck
  <1> HIDE DEF a, w
  <1> QED
    BY <1>1, <1>2, <1>3, <1>4, <1>5, <1>6

\* Whatever arrives, the socket moves as the invariant of the two ends allows.
LEMMA ForwardUpMoves ==
    ASSUME NEW s \in Socket, s.endPoint, NEW more \in BOOLEAN, Sound(s, more), Local(s),
           NEW seg \in Segment, SegOK(seg), NEW send \in BOOLEAN, NoFinYet(s, send),
           NEW reacts \in BOOLEAN, s.state = "SYN_RCVD" /\ seg.kind = "SYN" => s.rcvNext <= 1
    PROVE  LET t == ForwardUp(s, seg, reacts)
           IN  Moves(s, t, seg, send) /\ Waiting(s, t, seg)
  <1> DEFINE t == ForwardUp(s, seg, reacts)
  <1>0. /\ Open(s, more) /\ s.state # "CLOSED" /\ s.state \in States
        /\ s.state \in Handshake => s.nextTx = 0 /\ ~ s.gotFin
    BY DEF Sound, Open, Socket
  <1>1. CASE s.state \notin Handshake /\ t = SendEmptyPacket(s, "ACK")
    <2>1. s.state \notin Handshake \cup {"CLOSED"} /\ s.state # "SYN_RCVD"
      BY <1>0, <1>1 DEF Handshake
    <2> QED
      BY <1>1, <2>1, AckMoves DEF Waiting
  <1>2. CASE t = s
    <2>1. Moves(s, s, seg, send) /\ Silent(s, s)
      BY SameMoves DEF Silent
    <2> QED
      BY <1>2, <2>1 DEF Waiting
  <1>3. CASE s.state = "ESTABLISHED" /\ t = ProcessEstablished(s, seg, reacts)
    BY <1>3, EstablishedMoves DEF Waiting
  <1>4. CASE s.state = "SYN_SENT" /\ t = ProcessSynSent(s, seg)
    <2>1. s.nextTx = 0 /\ ~ s.gotFin
      BY <1>0, <1>4 DEF Handshake
    <2> QED
      BY <1>4, <2>1, SynSentMoves DEF Waiting
  <1>5. CASE s.state = "SYN_RCVD" /\ t = ProcessSynRcvd(s, seg, reacts)
    <2>1. s.nextTx = 0 /\ ~ s.gotFin
      BY <1>0, <1>5 DEF Handshake
    <2> QED
      BY <1>5, <2>1, SynRcvdMoves
  <1>6. CASE /\ s.state \in {"FIN_WAIT_1", "FIN_WAIT_2", "CLOSE_WAIT"}
             /\ seg.kind # "RST+ACK" /\ ~ (seg.len > 0 /\ OutOfRange(s, seg))
             /\ t = ProcessWait(s, seg, reacts)
    <2>1. seg.len > 0 => s.state # "CLOSE_WAIT"
      <3> SUFFICES ASSUME seg.len > 0, s.state = "CLOSE_WAIT" PROVE FALSE
        OBVIOUS
      <3>1. seg.seq <= 1 /\ s.rcvNext >= 2 /\ seg.seq \in Nat /\ s.rcvNext \in Nat
        BY SocketNumbers, SegmentNumbers DEF SegOK, Local
      <3>2. seg.seq # s.rcvNext
        BY <3>1
      <3>3. OutOfRange(s, seg)
        BY <3>2 DEF OutOfRange
      <3> QED
        BY <1>6, <3>3
    <2> QED
      BY <1>6, <2>1, WaitMoves DEF Waiting
  <1>7. CASE s.state = "CLOSING" /\ t = ProcessClosing(s, seg)
    BY <1>7, ClosingMoves DEF Waiting
  <1>8. CASE s.state = "LAST_ACK" /\ t = ProcessLastAck(s, seg)
    BY <1>8, ClosingMoves DEF Waiting
  <1>9. \/ s.state \notin Handshake /\ t = SendEmptyPacket(s, "ACK")
        \/ t = s
        \/ s.state = "ESTABLISHED" /\ t = ProcessEstablished(s, seg, reacts)
        \/ s.state = "SYN_SENT" /\ t = ProcessSynSent(s, seg)
        \/ s.state = "SYN_RCVD" /\ t = ProcessSynRcvd(s, seg, reacts)
        \/ /\ s.state \in {"FIN_WAIT_1", "FIN_WAIT_2", "CLOSE_WAIT"}
           /\ seg.kind # "RST+ACK" /\ ~ (seg.len > 0 /\ OutOfRange(s, seg))
           /\ t = ProcessWait(s, seg, reacts)
        \/ s.state = "CLOSING" /\ t = ProcessClosing(s, seg)
        \/ s.state = "LAST_ACK" /\ t = ProcessLastAck(s, seg)
    <2>1. CASE seg.len > 0 /\ OutOfRange(s, seg)
      <3>0. seg.kind # "RST+ACK"
        BY <2>1 DEF SegOK
      <3>1. t = SendEmptyPacket(s, "ACK")
        BY <2>1, <3>0 DEF ForwardUp
      <3>2. s.state \notin Handshake
        BY <2>1 DEF OutOfRange, Handshake
      <3> QED
        BY <3>1, <3>2
    <2>2. CASE ~ (seg.len > 0 /\ OutOfRange(s, seg))
      BY <2>2 DEF ForwardUp
    <2> QED
      BY <2>1, <2>2
  <1> HIDE DEF t
  <1> QED
    BY <1>1, <1>2, <1>3, <1>4, <1>5, <1>6, <1>7, <1>8, <1>9 DEF t

\* A FIN is sent.
LEMMA FinMoves ==
    ASSUME NEW s \in Socket, Local(s), NEW seg \in Segment, NEW send \in BOOLEAN,
           s.state \notin Handshake \cup {"CLOSED"},
           NEW t \in Socket, Same(s, t), Segs(t.out) = Segs(s.out) \cup {EmptySegment(s, "FIN+ACK")},
           t.state \notin Handshake \cup {"CLOSED"},
           t.state = "CLOSE_WAIT" => s.state = "CLOSE_WAIT",
           t.retxEvent \in {s.retxEvent, "FIN+ACK"}, NoFinYet(t, send), ~ MaySend(t, send)
    PROVE  Moves(s, t, seg, send)
  <1> DEFINE m == EmptySegment(s, "FIN+ACK")
  <1>1. /\ m \in Segment /\ m.kind = "FIN+ACK" /\ m.len = 0 /\ m.ack = s.rcvNext
        /\ m.seq = s.nextTx
    BY EmptySegmentType DEF Kinds
  <1> HIDE DEF m
  <1>2. /\ s.rcvNext \in Nat /\ s.rcvNext >= 1 /\ s.una \in Nat /\ s.nextTx \in Nat
        /\ s.retxEvent \notin {"SYN", "SYN+ACK"}
    BY SocketNumbers DEF Local, Handshake
  <1>3. /\ t.nextTx = s.nextTx /\ t.highTx = s.highTx /\ t.una = s.una /\ t.size = s.size
        /\ t.rcvNext = s.rcvNext /\ t.gotFin = s.gotFin /\ t.finSeq = s.finSeq
        /\ t.failed = s.failed
    BY DEF Same
  <1>4. Fresh(t, m)
    <2>1. SegOK(m) /\ m.kind \notin {"SYN", "RST+ACK"}
      BY <1>1, <1>2 DEF SegOK, Acking
    <2>2. m.ack <= t.rcvNext /\ End(m) <= t.nextTx + 1
      BY <1>1, <1>2, <1>3 DEF End
    <2> QED
      BY <1>1, <2>1, <2>2 DEF Fresh
  <1>5. Emits(s, t)
    <2>1. t.rcvNext >= s.rcvNext /\ t.nextTx >= s.nextTx
      BY <1>2, <1>3
    <2> QED
      BY <1>4, <2>1 DEF Emits, m
  <1>6. Local(t)
    BY <1>2, <1>3 DEF Local, Handshake
  <1>7. Hears(s, t, seg)
    BY <1>2, <1>3 DEF Hears
  <1>8. Holds(s, t, seg, send)
    BY DEF Holds
  <1> QED
    BY <1>5, <1>6, <1>7, <1>8 DEF Moves

\* The FIN that a timer sends again.
LEMMA FinAgainMoves ==
    ASSUME NEW s \in Socket, Local(s), NEW seg \in Segment, NEW send \in BOOLEAN,
           s.endPoint, s.state \notin Handshake \cup {"CLOSED"},
           send /\ ~ s.closeOnEmpty => s.state \notin {"ESTABLISHED", "CLOSE_WAIT", "FIN_WAIT_1",
                                                       "FIN_WAIT_2"}
    PROVE  LET t == SendEmptyPacket(s, "FIN+ACK")
           IN  Moves(s, t, seg, send) /\ t.state = s.state
  <1> DEFINE t == SendEmptyPacket(s, "FIN+ACK")
  <1>1. /\ t \in Socket /\ Sends(s, t) /\ t.retxEvent \in {s.retxEvent, "FIN+ACK"}
        /\ Segs(t.out) = Segs(s.out) \cup {EmptySegment(s, "FIN+ACK")}
    BY SendEmpty
  <1> HIDE DEF t
  <1>2. Same(s, t) /\ t.state = s.state /\ t.closeOnEmpty = s.closeOnEmpty
    BY <1>1 DEF Sends, Same
  <1>3. NoFinYet(t, send) /\ ~ MaySend(t, send)
    BY <1>2 DEF NoFinYet, MaySend, Handshake
  <1>4. Moves(s, t, seg, send)
    BY <1>1, <1>2, <1>3, FinMoves
  <1> QED
    BY <1>2, <1>4 DEF t

-----------------------------------------------------------------------------
(* The timers and the applications move the sockets the same way.           *)

\* A timer is taken off.
Ticks(s, f) == Turns(s, f) /\ f.state = s.state /\ (f.delAckEvent => s.delAckEvent)

LEMMA TicksShifts ==
    ASSUME NEW s \in Socket, Local(s), NEW seg, NEW send \in BOOLEAN, NEW f, Ticks(s, f)
    PROVE  Shifts(s, f, seg, send) /\ Local(f)
  <1>1. /\ f \in Socket /\ s.una \in Nat /\ s.rcvNext \in Nat /\ s.nextTx \in Nat
        /\ f.state = s.state /\ (f.delAckEvent => s.delAckEvent)
    BY SocketNumbers DEF Ticks, Turns
  <1>2. /\ f.endPoint = s.endPoint
        /\ f.nextTx = s.nextTx /\ f.highTx = s.highTx /\ f.una = s.una /\ f.size = s.size
        /\ f.rcvNext = s.rcvNext /\ f.gotFin = s.gotFin /\ f.finSeq = s.finSeq
        /\ f.closeOnEmpty = s.closeOnEmpty /\ f.failed = s.failed
        /\ f.retxEvent \in {s.retxEvent, "none"} /\ f.out = s.out
    BY DEF Ticks, Turns
  <1>3. Local(f)
    BY <1>1, <1>2 DEF Local
  <1>4. Emits(s, f) /\ Silent(s, f)
    BY <1>1, <1>2 DEF Emits, Silent
  <1>5. Hears(s, f, seg)
    BY <1>1, <1>2 DEF Hears
  <1>6. Holds(s, f, seg, send)
    BY <1>1, <1>2, <1>4 DEF Holds, MaySend, Unsent
  <1> QED
    BY <1>1, <1>3, <1>4, <1>5, <1>6 DEF Shifts

LEMMA ReTxTimeoutMoves ==
    ASSUME NEW s \in Socket, s.endPoint, Local(s), NEW seg \in Segment, NEW send \in BOOLEAN,
           NoFinYet(s, send), s.state \notin Handshake \cup {"CLOSED"}
    PROVE  Moves(s, ReTxTimeout(s), seg, send)
  <1>0. s.size \in {0, 1}
    BY SocketNumbers
  <1>1. CASE s.size = 0
    <2>1. CASE s.state \in {"FIN_WAIT_1", "CLOSING"}
      <3>1. ReTxTimeout(s) = SendEmptyPacket(s, "FIN+ACK")
        BY <1>1, <2>1 DEF ReTxTimeout
      <3>2. send /\ ~ s.closeOnEmpty => s.state \notin {"ESTABLISHED", "CLOSE_WAIT", "FIN_WAIT_1",
                                                        "FIN_WAIT_2"}
        BY <2>1 DEF NoFinYet
      <3> QED
        BY <3>1, <3>2, FinAgainMoves
    <2>2. CASE s.state \notin {"FIN_WAIT_1", "CLOSING"}
      <3>1. ReTxTimeout(s) = s
        BY <1>1, <2>2 DEF ReTxTimeout
      <3> QED
        BY <3>1, SameMoves
    <2> QED
      BY <2>1, <2>2
  <1>2. CASE s.size > 0 /\ s.dataRetrCount = 0
    <2>0. s.size # 0
      BY <1>0, <1>2
    <2>1. ReTxTimeout(s) = DeallocateEndPoint(s)
      BY <1>2, <2>0, Zenon DEF ReTxTimeout
    <2> DEFINE t == DeallocateEndPoint(s)
    <2>2. Leaves(s, t) /\ t.state = s.state /\ t.out = s.out
      BY DeallocateFields
    <2> HIDE DEF t
    <2>3. Moves(s, t, seg, send)
      BY <2>2, LeavesMoves
    <2> QED
      BY <2>1, <2>3 DEF t
  <1>3. CASE s.size > 0 /\ s.dataRetrCount # 0
    <2> DEFINE c == s.dataRetrCount - 1
               g == [s EXCEPT !.dataRetrCount = c]
    <2>0. s.size # 0
      BY <1>0, <1>3
    <2>1. c \in Nat
      BY <1>3 DEF Socket
    <2>2. ReTxTimeout(s) = SendPendingData(g, TRUE)
      BY <1>3, <2>0, Zenon DEF ReTxTimeout
    <2> HIDE DEF c
    <2>3. Turns(s, g) /\ g.state = s.state
      BY <2>1 DEF Turns, Socket
    <2> HIDE DEF g
    <2>4. Moves(s, g, seg, send)
      BY <2>3, TurnsMoves
    <2>5. g \in Socket /\ Local(g) /\ NoFinYet(g, send)
      BY <2>4 DEF Moves
    <2>6. Moves(g, SendPendingData(g, TRUE), seg, send)
      BY <2>3, <2>5, SendPendingMoves
    <2> QED
      BY <2>2, <2>4, <2>6, MovesTrans
  <1> QED
    BY <1>0, <1>1, <1>2, <1>3

\* SYNs apart, which the client sends before it has heard anything.
LEMMA RetransmitMoves ==
    ASSUME NEW s \in Socket, NEW more \in BOOLEAN, Sound(s, more), Local(s), NEW seg \in Segment,
           NEW send \in BOOLEAN, NoFinYet(s, send), s.retxEvent \notin {"none", "SYN"}
    PROVE  LET t == Retransmit(s)
           IN  Moves(s, t, seg, send) /\ Waiting(s, t, seg)
  <1> DEFINE f == [s EXCEPT !.retxEvent = "none"]
             t == Retransmit(s)
  <1>0. /\ s.endPoint /\ Open(s, more) /\ s.state # "CLOSED"
        /\ s.state \in Handshake => s.nextTx = 0 /\ s.retxEvent # "data"
    BY DEF Sound, Quiet, Open
  <1>1. Ticks(s, f) /\ f.retxEvent = "none" /\ f.endPoint
    BY <1>0 DEF Ticks, Turns, Socket, RetxKinds
  <1>2. CASE s.retxEvent = "data"
    <2>1. t = ReTxTimeout(f)
      BY <1>2 DEF Retransmit
    <2> HIDE DEF f, t
    <2>2. s.state \notin Handshake \cup {"CLOSED"} /\ s.state # "SYN_RCVD"
      BY <1>0, <1>2 DEF Handshake
    <2>3. Moves(s, f, seg, send) /\ f.state = s.state
      BY <1>1, <2>2, TurnsMoves DEF Ticks
    <2>4. f \in Socket /\ Local(f) /\ NoFinYet(f, send)
      BY <2>3 DEF Moves
    <2>5. Moves(f, t, seg, send)
      BY <1>1, <2>1, <2>2, <2>3, <2>4, ReTxTimeoutMoves
    <2>6. Moves(s, t, seg, send)
      BY <2>3, <2>5, MovesTrans
    <2> QED
      BY <2>2, <2>6 DEF Waiting, t
  <1>3. CASE s.retxEvent = "SYN+ACK"
    <2>1. t = SendEmptyPacket(f, "SYN+ACK")
      BY <1>3 DEF Retransmit
    <2> HIDE DEF f, t
    <2>2. s.state = "SYN_RCVD"
      BY <1>3 DEF Local
    <2>3. Shifts(s, f, seg, send) /\ Local(f)
      BY <1>1, TicksShifts
    <2>4. f \in Socket /\ f.state = "SYN_RCVD" /\ f.nextTx = 0 /\ f.out = s.out
      BY <1>0, <1>1, <2>2 DEF Ticks, Turns, Handshake
    <2>5. SynSent(f, t, "SYN+ACK")
      BY <1>1, <2>1, <2>4, SendSyn
    <2>6. Moves(f, t, seg, send) /\ Silent(f, t) /\ t.state \in {"SYN_RCVD", "CLOSED"}
      BY <1>1, <2>3, <2>4, <2>5, SynAckMoves
    <2>7. Moves(s, t, seg, send)
      BY <2>3, <2>6, ShiftMoves
    <2>8. Silent(s, t)
      BY <2>4, <2>6 DEF Silent
    <2> QED
      BY <2>6, <2>7, <2>8 DEF Waiting, t
  <1>4. CASE s.retxEvent = "FIN+ACK"
    <2>1. t = SendEmptyPacket(f, "FIN+ACK")
      BY <1>4 DEF Retransmit
    <2> HIDE DEF f, t
    <2>2. s.state \notin Handshake \cup {"CLOSED"} /\ s.state # "SYN_RCVD"
      BY <1>0, <1>4 DEF Handshake, Local
    <2>3. Moves(s, f, seg, send) /\ f.state = s.state /\ f.closeOnEmpty = s.closeOnEmpty
      BY <1>1, <2>2, TurnsMoves DEF Ticks, Turns
    <2>4. f \in Socket /\ Local(f)
      BY <2>3 DEF Moves
    <2>5. send /\ ~ f.closeOnEmpty => f.state \notin {"ESTABLISHED", "CLOSE_WAIT", "FIN_WAIT_1",
                                                      "FIN_WAIT_2"}
      BY <1>0, <1>4, <2>3 DEF NoFinYet
    <2>6. Moves(f, t, seg, send)
      BY <1>1, <2>1, <2>2, <2>3, <2>4, <2>5, FinAgainMoves
    <2>7. Moves(s, t, seg, send)
      BY <2>3, <2>6, MovesTrans
    <2> QED
      BY <2>2, <2>7 DEF Waiting, t
  <1>5. s.retxEvent \in {"data", "SYN+ACK", "FIN+ACK"}
    BY DEF Socket, RetxKinds
  <1> QED
    BY <1>2, <1>3, <1>4, <1>5

LEMMA LastAckMoves ==
    ASSUME NEW s \in Socket, NEW more \in BOOLEAN, Sound(s, more), Local(s), NEW seg \in Segment,
           NEW send \in BOOLEAN, NoFinYet(s, send), s.lastAckEvent
    PROVE  Moves(s, LastAckTimeout(s), seg, send) /\ s.state = "LAST_ACK"
  <1> DEFINE f == [s EXCEPT !.lastAckEvent = FALSE]
             t == LastAckTimeout(s)
  <1>1. s.endPoint /\ s.state = "LAST_ACK" /\ s.state \notin Handshake \cup {"CLOSED"}
    BY DEF Sound, Quiet, Open, Handshake
  <1>2. CASE s.dataRetrCount = 0
    <2>1. t = DeallocateEndPoint(f)
      BY <1>1, <1>2 DEF LastAckTimeout
    <2>2. Turns(s, f) /\ f.state = s.state
      BY DEF Turns, Socket
    <2> HIDE DEF f, t
    <2>3. Moves(s, f, seg, send)
      BY <1>1, <2>2, TurnsMoves
    <2>4. f \in Socket /\ Local(f)
      BY <2>3 DEF Moves
    <2>5. Leaves(f, t) /\ t.state = f.state /\ t.out = f.out
      BY <2>1, <2>4, DeallocateFields
    <2>6. Moves(f, t, seg, send)
      BY <2>4, <2>5, LeavesMoves
    <2> QED
      BY <1>1, <2>3, <2>6, MovesTrans DEF t
  <1>3. CASE s.dataRetrCount # 0
    <2> DEFINE c == s.dataRetrCount - 1
               g == [f EXCEPT !.dataRetrCount = c]
               a == SendEmptyPacket(g, "FIN+ACK")
    <2>1. c \in Nat
      BY <1>3 DEF Socket
    <2>2. t = [a EXCEPT !.lastAckEvent = TRUE]
      BY <1>1, <1>3 DEF LastAckTimeout
    <2> HIDE DEF c
    <2>3. Turns(s, g) /\ g.state = "LAST_ACK" /\ g.endPoint
      BY <1>1, <2>1 DEF Turns, Socket
    <2> HIDE DEF g, t
    <2>4. Moves(s, g, seg, send)
      BY <1>1, <2>3, TurnsMoves
    <2>5. g \in Socket /\ Local(g) /\ g.state \notin Handshake \cup {"CLOSED"}
      BY <1>1, <2>3, <2>4 DEF Moves
    <2>6. Moves(g, a, seg, send) /\ a.state = g.state
      BY <2>3, <2>5, FinAgainMoves
    <2> HIDE DEF a
    <2>7. a \in Socket /\ Local(a) /\ NoFinYet(a, send) /\ a.state \notin Handshake \cup {"CLOSED"}
      BY <2>5, <2>6 DEF Moves
    <2>8. Turns(a, t)
      BY <2>2, <2>7 DEF Turns, Socket
    <2>9. Moves(a, t, seg, send)
      BY <2>7, <2>8, TurnsMoves
    <2>10. Moves(s, a, seg, send)
      BY <2>4, <2>6, MovesTrans
    <2>11. Moves(s, t, seg, send)
      BY <2>9, <2>10, MovesTrans
    <2> QED
      BY <1>1, <2>11 DEF t
  <1> QED
    BY <1>2, <1>3

\* The application has closed the sending side and data is still to be sent.
LEMMA ToldMoves ==
    ASSUME NEW s \in Socket, Local(s), NEW seg \in Segment, NEW send \in BOOLEAN, NEW t \in Socket,
           Same([s EXCEPT !.closeOnEmpty = t.closeOnEmpty, !.shutdownSend = t.shutdownSend], t),
           t.state = s.state, t.delAckEvent => s.delAckEvent, t.retxEvent = s.retxEvent,
           t.out = s.out, ~ send \/ t.closeOnEmpty
    PROVE  Moves(s, t, seg, send)
  <1>1. /\ t.endPoint = s.endPoint
        /\ t.nextTx = s.nextTx /\ t.highTx = s.highTx /\ t.una = s.una /\ t.size = s.size
        /\ t.rcvNext = s.rcvNext /\ t.gotFin = s.gotFin /\ t.finSeq = s.finSeq
        /\ t.failed = s.failed
    BY DEF Same, Socket
  <1>2. s.una \in Nat /\ s.rcvNext \in Nat /\ s.nextTx \in Nat
    BY SocketNumbers
  <1>3. Local(t)
    BY <1>1 DEF Local
  <1>4. NoFinYet(t, send) /\ ~ MaySend(t, send)
    BY DEF NoFinYet, MaySend
  <1>5. Emits(s, t)
    BY <1>1, <1>2 DEF Emits
  <1>6. Hears(s, t, seg)
    BY <1>1, <1>2 DEF Hears
  <1>7. Holds(s, t, seg, send)
    BY <1>4 DEF Holds
  <1> QED
    BY <1>3, <1>4, <1>5, <1>6, <1>7 DEF Moves

LEMMA DoCloseMoves ==
    ASSUME NEW s \in Socket, s.endPoint, Local(s), NEW seg \in Segment, NEW send \in BOOLEAN,
           s.state \notin {"SYN_RCVD", "CLOSED"}, ~ send \/ s.closeOnEmpty
    PROVE  Moves(s, DoClose(s), seg, send)
  <1> DEFINE t == DoClose(s)
  <1>1. CASE s.state \in {"ESTABLISHED", "CLOSE_WAIT"}
    <2>1. PICK st \in {"FIN_WAIT_1", "LAST_ACK"} : SendsFin(s, t, st)
      BY <1>1, DoCloseFields
    <2> HIDE DEF t
    <2>2. /\ t \in Socket /\ Same(s, t) /\ Segs(t.out) = Segs(s.out) \cup {EmptySegment(s, "FIN+ACK")}
          /\ t.retxEvent \in {s.retxEvent, "FIN+ACK"} /\ t.state \notin Handshake \cup {"CLOSED"}
          /\ t.state # "CLOSE_WAIT" /\ t.closeOnEmpty = s.closeOnEmpty
      BY <2>1 DEF SendsFin, Handshake, Same
    <2>3. NoFinYet(t, send) /\ ~ MaySend(t, send)
      BY <2>2 DEF NoFinYet, MaySend
    <2>4. s.state \notin Handshake \cup {"CLOSED"}
      BY <1>1 DEF Handshake
    <2> QED
      BY <2>2, <2>3, <2>4, FinMoves DEF t
  <1>2. CASE s.state \in {"SYN_SENT", "CLOSING"}
    <2>1. Leaves(s, t) /\ t.state = "CLOSED" /\ Segs(t.out) = Segs(s.out) \cup {EmptySegment(s, "RST")}
      BY <1>2, DoCloseFields
    <2>2. EmptySegment(s, "RST").kind = "RST" /\ EmptySegment(s, "RST").len = 0
      BY EmptySegmentType DEF Kinds
    <2> HIDE DEF t
    <2>3. Moves(s, t, seg, send)
      BY <2>1, <2>2, LeavesMoves
    <2> QED
      BY <2>3 DEF t
  <1>3. CASE s.state \notin {"ESTABLISHED", "CLOSE_WAIT", "SYN_SENT", "CLOSING"}
    <2>1. t = s
      BY <1>3, DoCloseFields
    <2>2. NoFinYet(s, send)
      BY DEF NoFinYet
    <2> QED
      BY <2>1, <2>2, SameMoves
  <1> QED
    BY <1>1, <1>2, <1>3

LEMMA AppCloseMoves ==
    ASSUME NEW s \in Socket, s.endPoint, Local(s), NEW seg \in Segment,
           s.state \notin {"SYN_RCVD", "CLOSED"}
    PROVE  Moves(s, Close(s), seg, FALSE)
  <1> DEFINE t == [s EXCEPT !.closeOnEmpty = TRUE]
  <1>1. CASE Close(s) = t
    <2>1. /\ t \in Socket /\ t.state = s.state /\ (t.delAckEvent => s.delAckEvent)
          /\ t.retxEvent = s.retxEvent /\ t.out = s.out
      BY DEF Socket
    <2>2. Same([s EXCEPT !.closeOnEmpty = t.closeOnEmpty, !.shutdownSend = t.shutdownSend], t)
      BY DEF Same, Socket
    <2> HIDE DEF t
    <2>3. Moves(s, t, seg, FALSE)
      BY <2>1, <2>2, ToldMoves
    <2> QED
      BY <1>1, <2>3
  <1>2. CASE Close(s) = DoClose(s)
    BY <1>2, DoCloseMoves
  <1> QED
    BY <1>1, <1>2 DEF Close

LEMMA AppShutdownMoves ==
    ASSUME NEW s \in Socket, s.endPoint, Local(s), NEW seg \in Segment, NEW send \in BOOLEAN,
           s.state \notin {"SYN_RCVD", "CLOSED"}
    PROVE  Moves(s, ShutdownSend(s), seg, send)
  <1> DEFINE t == [s EXCEPT !.shutdownSend = TRUE, !.closeOnEmpty = TRUE]
  <1>1. /\ t \in Socket /\ t.state = s.state /\ (t.delAckEvent => s.delAckEvent)
        /\ t.retxEvent = s.retxEvent /\ t.out = s.out /\ t.closeOnEmpty /\ t.endPoint
    BY DEF Socket
  <1>2. Same([s EXCEPT !.closeOnEmpty = t.closeOnEmpty, !.shutdownSend = t.shutdownSend], t)
    BY DEF Same, Socket
  <1>3. ShutdownSend(s) = t \/ ShutdownSend(s) = DoClose(t)
    BY DEF ShutdownSend
  <1> HIDE DEF t
  <1>4. Moves(s, t, seg, send)
    BY <1>1, <1>2, ToldMoves
  <1>5. Local(t)
    BY <1>4 DEF Moves
  <1>6. Moves(t, DoClose(t), seg, send)
    BY <1>1, <1>5, DoCloseMoves
  <1>7. Moves(s, DoClose(t), seg, send)
    BY <1>4, <1>6, MovesTrans
  <1> QED
    BY <1>3, <1>4, <1>7

LEMMA EventMoves ==
    ASSUME NEW s \in Socket, NEW more \in BOOLEAN, Sound(s, more), Local(s), NEW seg \in Segment,
           NEW send \in BOOLEAN, NoFinYet(s, send)
    PROVE  /\ s.delAckEvent =>
                  /\ Moves(s, SendEmptyPacket([s EXCEPT !.delAckEvent = FALSE], "ACK"), seg, send)
                  /\ s.state # "SYN_RCVD"
           /\ s.sendPendingDataEvent =>
                  /\ Moves(s, SendPendingData([s EXCEPT !.sendPendingDataEvent = FALSE], FALSE),
                           seg, send)
                  /\ s.state # "SYN_RCVD"
  <1>1. ASSUME s.delAckEvent
        PROVE  /\ Moves(s, SendEmptyPacket([s EXCEPT !.delAckEvent = FALSE], "ACK"), seg, send)
               /\ s.state # "SYN_RCVD"
    <2> DEFINE f == [s EXCEPT !.delAckEvent = FALSE]
    <2>1. s.endPoint /\ s.state \notin Handshake \cup {"CLOSED"} /\ s.state # "SYN_RCVD"
      BY <1>1 DEF Sound, Quiet, Local, Handshake
    <2>2. Turns(s, f) /\ f.state = s.state /\ f.endPoint = s.endPoint
      BY DEF Turns, Socket
    <2> HIDE DEF f
    <2>3. Moves(s, f, seg, send)
      BY <2>1, <2>2, TurnsMoves
    <2>4. f \in Socket /\ Local(f) /\ NoFinYet(f, send)
      BY <2>3 DEF Moves
    <2>5. Moves(f, SendEmptyPacket(f, "ACK"), seg, send)
      BY <2>1, <2>2, <2>4, AckMoves
    <2>6. Moves(s, SendEmptyPacket(f, "ACK"), seg, send)
      BY <2>3, <2>5, MovesTrans
    <2> QED
      BY <2>1, <2>6 DEF f
  <1>2. ASSUME s.sendPendingDataEvent
        PROVE  /\ Moves(s, SendPendingData([s EXCEPT !.sendPendingDataEvent = FALSE], FALSE),
                        seg, send)
               /\ s.state # "SYN_RCVD"
    <2> DEFINE f == [s EXCEPT !.sendPendingDataEvent = FALSE]
    <2>1. s.state \notin Handshake \cup {"CLOSED"} /\ s.state # "SYN_RCVD"
      BY <1>2 DEF Sound, Quiet, Open, Handshake
    <2>2. Turns(s, f) /\ f.state = s.state
      BY DEF Turns, Socket
    <2> HIDE DEF f
    <2>3. Moves(s, f, seg, send)
      BY <2>1, <2>2, TurnsMoves
    <2>4. f \in Socket /\ Local(f) /\ NoFinYet(f, send)
      BY <2>3 DEF Moves
    <2>5. Moves(f, SendPendingData(f, FALSE), seg, send)
      BY <2>1, <2>2, <2>4, SendPendingMoves
    <2>6. Moves(s, SendPendingData(f, FALSE), seg, send)
      BY <2>3, <2>5, MovesTrans
    <2> QED
      BY <2>1, <2>6 DEF f
  <1> QED
    BY <1>1, <1>2

-----------------------------------------------------------------------------
(* The invariant of the two ends.                                           *)

\* Between s and the other end o: I travels to s, O to o.  Nobody has more
\* acknowledged than the other has received, nor more received than the other
\* has sent, on the way neither; and while s may still write, the other end
\* has nothing of it but the SYN.
Tied(s, o, I, O, send) ==
    /\ Local(s) /\ NoFinYet(s, send)
    /\ s.una <= o.rcvNext
    /\ s.rcvNext <= o.nextTx + 1
    /\ s.gotFin => s.finSeq <= o.nextTx
    /\ \A m \in I : /\ SegOK(m)
                    /\ m.kind \in Acking => m.ack <= o.rcvNext
                    /\ Carries(m) => End(m) <= o.nextTx + 1
    /\ MaySend(s, send) => Unsent(s) /\ o.rcvNext <= 1 /\ \A m \in O : ~ Carries(m)

\* No segment: what the handlers of timers and of the applications hear.
Silence == [kind |-> "RST", len |-> 0, ack |-> 0, seq |-> 0]

LEMMA SilenceSegment ==
    /\ Silence \in Segment /\ SegOK(Silence) /\ ~ Carries(Silence) /\ Silence.kind = "RST"
    /\ Silence.kind \notin Acking /\ Silence.kind \notin {"ACK", "FIN+ACK", "SYN", "SYN+ACK"}
  BY DEF Silence, Segment, Kinds, SegOK, Carries, Acking

LEMMA TiedSelf ==
    ASSUME NEW s \in Socket, NEW o \in Socket, NEW I \in SUBSET Segment, NEW O \in SUBSET Segment,
           NEW send \in BOOLEAN, Tied(s, o, I, O, send), Segs(s.out) = {},
           NEW t, NEW seg \in I \cup {Silence}, NEW still \in BOOLEAN, still => send,
           Moves(s, t, seg, still), NEW J \in SUBSET I, NEW P \in SUBSET (O \cup Segs(t.out))
    PROVE  Tied(t, o, J, P, still)
  <1>0. /\ t \in Socket /\ Local(t) /\ NoFinYet(t, still) /\ Emits(s, t) /\ Hears(s, t, seg)
        /\ Holds(s, t, seg, still) /\ seg \in Segment
    BY SilenceSegment DEF Moves
  <1>1. /\ s.una \in Nat /\ s.rcvNext \in Nat /\ s.finSeq \in Nat
        /\ t.una \in Nat /\ t.rcvNext \in Nat /\ t.finSeq \in Nat
        /\ o.rcvNext \in Nat /\ o.nextTx \in Nat /\ seg.ack \in Nat /\ End(seg) \in Nat
    BY <1>0, SocketNumbers, SegmentNumbers
  <1>2. /\ seg.kind \in Acking => seg.ack <= o.rcvNext
        /\ Carries(seg) => End(seg) <= o.nextTx + 1
    BY SilenceSegment DEF Tied
  <1>3. t.una <= o.rcvNext
    <2>1. s.una <= o.rcvNext
      BY DEF Tied
    <2> QED
      BY <1>0, <1>1, <1>2, <2>1 DEF Hears
  <1>4. t.rcvNext <= o.nextTx + 1
    <2>1. s.rcvNext <= o.nextTx + 1 /\ (s.gotFin => s.finSeq + 1 <= o.nextTx + 1)
      BY <1>1 DEF Tied
    <2> QED
      BY <1>0, <1>1, <1>2, <2>1 DEF Hears
  <1>5. t.gotFin => t.finSeq <= o.nextTx
    <2>1. s.gotFin => s.finSeq <= o.nextTx
      BY DEF Tied
    <2>2. seg.kind = "FIN+ACK" => Carries(seg)
      BY DEF Carries
    <2> QED
      BY <1>0, <1>1, <1>2, <2>1, <2>2 DEF Hears
  <1>6. ASSUME MaySend(t, still)
        PROVE  Unsent(t) /\ o.rcvNext <= 1 /\ \A m \in P : ~ Carries(m)
    <2>1. MaySend(s, send)
      BY <1>0, <1>6 DEF Holds, MaySend
    <2>2. Unsent(s) /\ o.rcvNext <= 1 /\ \A m \in O : ~ Carries(m)
      BY <2>1 DEF Tied
    <2>3. seg.kind \in Acking => seg.ack <= 1
      BY <1>1, <1>2, <2>2
    <2>4. Unsent(t) /\ Silent(s, t)
      BY <1>0, <1>6, <2>2, <2>3 DEF Holds
    <2> QED
      BY <2>2, <2>4 DEF Silent
  <1>7. \A m \in J : /\ SegOK(m)
                     /\ m.kind \in Acking => m.ack <= o.rcvNext
                     /\ Carries(m) => End(m) <= o.nextTx + 1
    BY DEF Tied
  <1> QED
    BY <1>0, <1>3, <1>4, <1>5, <1>6, <1>7 DEF Tied

LEMMA TiedOther ==
    ASSUME NEW s \in Socket, NEW o \in Socket, NEW I \in SUBSET Segment, NEW O \in SUBSET Segment,
           NEW send \in BOOLEAN, Tied(o, s, O, I, send), Segs(s.out) = {},
           NEW t, NEW seg \in I \cup {Silence}, NEW still, Moves(s, t, seg, still),
           NEW J \in SUBSET I, NEW P \in SUBSET (O \cup Segs(t.out))
    PROVE  Tied(o, t, P, J, send)
  <1>0. t \in Socket /\ Emits(s, t) /\ Hears(s, t, seg) /\ seg \in Segment
    BY SilenceSegment DEF Moves
  <1>1. /\ s.rcvNext \in Nat /\ s.nextTx \in Nat /\ t.rcvNext \in Nat /\ t.nextTx \in Nat
        /\ o.una \in Nat /\ o.rcvNext \in Nat /\ o.finSeq \in Nat
    BY <1>0, SocketNumbers
  <1>2. t.rcvNext >= s.rcvNext /\ t.nextTx >= s.nextTx
    BY <1>0 DEF Emits
  <1>3. o.una <= t.rcvNext /\ o.rcvNext <= t.nextTx + 1 /\ (o.gotFin => o.finSeq <= t.nextTx)
    <2>1. o.una <= s.rcvNext /\ o.rcvNext <= s.nextTx + 1 /\ (o.gotFin => o.finSeq <= s.nextTx)
      BY DEF Tied
    <2> QED
      BY <1>1, <1>2, <2>1
  <1>4. ASSUME NEW m \in P
        PROVE  /\ SegOK(m)
               /\ m.kind \in Acking => m.ack <= t.rcvNext
               /\ Carries(m) => End(m) <= t.nextTx + 1
    <2>1. CASE m \in O
      <3>1. m.ack \in Nat /\ End(m) \in Nat
        BY <2>1, SegmentNumbers
      <3>2. /\ SegOK(m) /\ (m.kind \in Acking => m.ack <= s.rcvNext)
            /\ Carries(m) => End(m) <= s.nextTx + 1
        BY <2>1 DEF Tied
      <3> QED
        BY <1>1, <1>2, <3>1, <3>2
    <2>2. CASE m \in Segs(t.out)
      <3>1. Fresh(t, m)
        BY <1>0, <2>2 DEF Emits
      <3> QED
        BY <3>1 DEF Fresh
    <2> QED
      BY <2>1, <2>2
  <1>5. ASSUME MaySend(o, send)
        PROVE  Unsent(o) /\ t.rcvNext <= 1 /\ \A m \in J : ~ Carries(m)
    <2>1. Unsent(o) /\ s.rcvNext <= 1 /\ \A m \in I : ~ Carries(m)
      BY <1>5 DEF Tied
    <2>2. ~ Carries(seg)
      BY <2>1, SilenceSegment
    <2>3. t.rcvNext <= 1
      BY <1>0, <1>1, <2>1, <2>2 DEF Hears
    <2> QED
      BY <2>1, <2>3
  <1>6. Local(o) /\ NoFinYet(o, send)
    BY DEF Tied
  <1> QED
    BY <1>3, <1>4, <1>5, <1>6 DEF Tied

\* A segment of neither data, FIN nor acknowledgment.
Idle(m) == SegOK(m) /\ m.kind \notin Acking /\ ~ Carries(m)

\* Segments are lost, and idle ones added.
LEMMA TiedNet ==
    ASSUME NEW s, NEW o, NEW I, NEW O, NEW send, Tied(s, o, I, O, send),
           NEW J, \A m \in J : m \in I \/ Idle(m), NEW P, \A m \in P : m \in O \/ Idle(m)
    PROVE  Tied(s, o, J, P, send)
  BY DEF Tied, Idle

\* What an end reads of the other.
LEMMA TiedSame ==
    ASSUME NEW s, NEW o, NEW I, NEW O, NEW send, Tied(s, o, I, O, send),
           NEW u, u.rcvNext = o.rcvNext, u.nextTx = o.nextTx
    PROVE  Tied(s, u, I, O, send)
  BY DEF Tied

-----------------------------------------------------------------------------
(* The queues of segments.                                                  *)

\* No SYN travels behind an ACK or FIN.
InOrder(q) ==
    \A i, j \in DOMAIN q : i < j /\ q[i].kind \in {"ACK", "FIN+ACK"} => q[j].kind # "SYN"

LEMMA ConcatElement ==
    ASSUME NEW q \in Seq(Segment), NEW r \in Seq(Segment), NEW i \in DOMAIN (q \o r)
    PROVE  /\ i \in Nat /\ Len(q) \in Nat
           /\ \/ i \in DOMAIN q /\ i <= Len(q) /\ (q \o r)[i] = q[i]
              \/ i > Len(q) /\ i - Len(q) \in DOMAIN r /\ (q \o r)[i] = r[i - Len(q)]
  <1>1. Len(q) \in Nat /\ Len(r) \in Nat /\ Len(q \o r) = Len(q) + Len(r) /\ q \o r \in Seq(Segment)
    OBVIOUS
  <1>2. DOMAIN (q \o r) = 1 .. (Len(q) + Len(r)) /\ DOMAIN q = 1 .. Len(q) /\ DOMAIN r = 1 .. Len(r)
    BY <1>1
  <1>3. i \in Nat /\ i >= 1 /\ i <= Len(q) + Len(r)
    BY <1>1, <1>2
  <1>4. CASE i <= Len(q)
    <2>1. i \in DOMAIN q
      BY <1>1, <1>2, <1>3, <1>4
    <2>2. (q \o r)[i] = q[i]
      BY <1>1, <1>3, <1>4
    <2> QED
      BY <1>1, <1>3, <1>4, <2>1, <2>2
  <1>5. CASE i > Len(q)
    <2>1. i - Len(q) \in DOMAIN r
      BY <1>1, <1>2, <1>3, <1>5
    <2>2. (q \o r)[i] = r[i - Len(q)]
      BY <1>1, <1>3, <1>5
    <2> QED
      BY <1>1, <1>3, <1>5, <2>1, <2>2
  <1> QED
    BY <1>1, <1>3, <1>4, <1>5

LEMMA SegsConcat ==
    ASSUME NEW q \in Seq(Segment), NEW r \in Seq(Segment)
    PROVE  Segs(q \o r) \in SUBSET (Segs(q) \cup Segs(r))
  <1> SUFFICES ASSUME NEW i \in DOMAIN (q \o r) PROVE (q \o r)[i] \in Segs(q) \cup Segs(r)
    BY DEF Segs
  <1>1. \/ i \in DOMAIN q /\ (q \o r)[i] = q[i]
        \/ i - Len(q) \in DOMAIN r /\ (q \o r)[i] = r[i - Len(q)]
    BY ConcatElement
  <1> QED
    BY <1>1 DEF Segs

LEMMA InOrderConcat ==
    ASSUME NEW q \in Seq(Segment), NEW r \in Seq(Segment), InOrder(q),
           \/ \A m \in Segs(r) : m.kind # "SYN"
           \/ \A m \in Segs(q) \cup Segs(r) : m.kind \notin {"ACK", "FIN+ACK"}
    PROVE  InOrder(q \o r)
  <1> DEFINE x == q \o r
  <1> SUFFICES ASSUME NEW i \in DOMAIN x, NEW j \in DOMAIN x, i < j,
                      x[i].kind \in {"ACK", "FIN+ACK"}
               PROVE  x[j].kind # "SYN"
    BY DEF InOrder
  <1>1. /\ i \in Nat /\ Len(q) \in Nat
        /\ \/ i \in DOMAIN q /\ i <= Len(q) /\ x[i] = q[i]
           \/ i > Len(q) /\ i - Len(q) \in DOMAIN r /\ x[i] = r[i - Len(q)]
    BY ConcatElement
  <1>2. /\ j \in Nat
        /\ \/ j \in DOMAIN q /\ j <= Len(q) /\ x[j] = q[j]
           \/ j > Len(q) /\ j - Len(q) \in DOMAIN r /\ x[j] = r[j - Len(q)]
    BY ConcatElement
  <1> HIDE DEF x
  <1>3. CASE \A m \in Segs(r) : m.kind # "SYN"
    <2>1. CASE j \in DOMAIN q /\ j <= Len(q) /\ x[j] = q[j]
      <3>1. i \in DOMAIN q /\ x[i] = q[i]
        BY <1>1, <1>2, <2>1
      <3> QED
        BY <2>1, <3>1 DEF InOrder
    <2>2. CASE j - Len(q) \in DOMAIN r /\ x[j] = r[j - Len(q)]
      BY <1>3, <2>2 DEF Segs
    <2> QED
      BY <1>2, <2>1, <2>2
  <1>4. CASE \A m \in Segs(q) \cup Segs(r) : m.kind \notin {"ACK", "FIN+ACK"}
    <2>1. x[i] \in Segs(q) \cup Segs(r)
      BY <1>1 DEF Segs
    <2> QED
      BY <1>4, <2>1
  <1> QED
    BY <1>3, <1>4

LEMMA TailElements ==
    ASSUME NEW q \in Seq(Segment), q # <<>>
    PROVE  /\ Head(q) \in Segs(q) /\ Segs(Tail(q)) \in SUBSET Segs(q)
           /\ InOrder(q) => /\ InOrder(Tail(q))
                            /\ Head(q).kind \in {"ACK", "FIN+ACK"} =>
                                   \A m \in Segs(Tail(q)) : m.kind # "SYN"
  <1> DEFINE r == Tail(q)
  <1>1. Len(q) \in Nat /\ Len(q) >= 1 /\ r \in Seq(Segment) /\ Len(r) = Len(q) - 1 /\ Head(q) = q[1]
    OBVIOUS
  <1>2. DOMAIN q = 1 .. Len(q) /\ DOMAIN r = 1 .. (Len(q) - 1)
    BY <1>1
  <1>3. \A i \in DOMAIN r : /\ i \in Nat /\ i + 1 \in DOMAIN q /\ r[i] = q[i + 1] /\ 1 < i + 1
    <2> TAKE i \in DOMAIN r
    <2>1. i \in Nat /\ i >= 1 /\ i <= Len(q) - 1
      BY <1>1, <1>2
    <2>2. i + 1 \in DOMAIN q /\ 1 < i + 1
      BY <1>1, <1>2, <2>1
    <2>3. r[i] = q[i + 1]
      BY <1>1, <2>1
    <2> QED
      BY <2>1, <2>2, <2>3
  <1>4. 1 \in DOMAIN q
    BY <1>1, <1>2
  <1> HIDE DEF r
  <1>5. Head(q) \in Segs(q)
    BY <1>1, <1>4 DEF Segs
  <1>6. Segs(r) \in SUBSET Segs(q)
    BY <1>3 DEF Segs
  <1>7. ASSUME InOrder(q) PROVE InOrder(r)
    <2> SUFFICES ASSUME NEW i \in DOMAIN r, NEW j \in DOMAIN r, i < j,
                        r[i].kind \in {"ACK", "FIN+ACK"}
                 PROVE  r[j].kind # "SYN"
      BY DEF InOrder
    <2>1. /\ i + 1 \in DOMAIN q /\ r[i] = q[i + 1] /\ j + 1 \in DOMAIN q /\ r[j] = q[j + 1]
          /\ i \in Nat /\ j \in Nat
      BY <1>3
    <2>2. i + 1 < j + 1
      BY <2>1
    <2> QED
      BY <1>7, <2>1, <2>2 DEF InOrder
  <1>8. ASSUME InOrder(q), Head(q).kind \in {"ACK", "FIN+ACK"}, NEW m \in Segs(r)
        PROVE  m.kind # "SYN"
    <2>1. PICK i \in DOMAIN r : m = r[i]
      BY DEF Segs
    <2>2. i + 1 \in DOMAIN q /\ r[i] = q[i + 1] /\ 1 < i + 1
      BY <1>3
    <2> QED
      BY <1>1, <1>4, <1>8, <2>1, <2>2 DEF InOrder
  <1> QED
    BY <1>5, <1>6, <1>7, <1>8 DEF r

-----------------------------------------------------------------------------
(* The handshake.                                                           *)

\* As long as a SYN travels to the server, or the client has heard nothing,
\* the connection has not begun: C travels to the client, S to the server.
Early(client, server, C, S) ==
    client.rcvNext = 0 \/ (\E m \in S : m.kind = "SYN") =>
        /\ client.rcvNext <= 1 /\ ~ client.gotFin
        /\ server.state \in {"CLOSED", "SYN_RCVD"} /\ server.rcvNext <= 1
        /\ \A m \in C : ~ Carries(m)

\* The client moves.
LEMMA EarlyClient ==
    ASSUME NEW s \in Socket, NEW o, NEW I \in SUBSET Segment, NEW O, Early(s, o, I, O),
           Segs(s.out) = {}, NEW t, NEW seg \in I \cup {Silence}, NEW still,
           Moves(s, t, seg, still), NEW J \in SUBSET I, NEW P \in SUBSET (O \cup Segs(t.out))
    PROVE  Early(t, o, J, P)
  <1> SUFFICES ASSUME t.rcvNext = 0 \/ (\E m \in P : m.kind = "SYN")
               PROVE  /\ t.rcvNext <= 1 /\ ~ t.gotFin
                      /\ o.state \in {"CLOSED", "SYN_RCVD"} /\ o.rcvNext <= 1
                      /\ \A m \in J : ~ Carries(m)
    BY DEF Early
  <1>1. /\ t \in Socket /\ Emits(s, t) /\ Hears(s, t, seg)
        /\ s.rcvNext \in Nat /\ t.rcvNext \in Nat
    BY SocketNumbers DEF Moves
  <1>2. \A m \in Segs(t.out) : m.kind # "SYN"
    BY <1>1 DEF Emits, Fresh
  <1>3. s.rcvNext = 0 \/ (\E m \in O : m.kind = "SYN")
    <2>1. CASE t.rcvNext = 0
      BY <1>1, <2>1 DEF Emits
    <2>2. CASE \E m \in P : m.kind = "SYN"
      BY <1>2, <2>2
    <2> QED
      BY <2>1, <2>2
  <1>4. /\ s.rcvNext <= 1 /\ ~ s.gotFin
        /\ o.state \in {"CLOSED", "SYN_RCVD"} /\ o.rcvNext <= 1
        /\ \A m \in I : ~ Carries(m)
    BY <1>3 DEF Early
  <1>5. ~ Carries(seg)
    BY <1>4, SilenceSegment
  <1>6. t.rcvNext <= 1 /\ ~ t.gotFin
    BY <1>1, <1>4, <1>5 DEF Hears, Carries
  <1> QED
    BY <1>4, <1>6

\* The server moves.
LEMMA EarlyServer ==
    ASSUME NEW s \in Socket, NEW o, NEW I \in SUBSET Segment, NEW O, Early(o, s, O, I),
           s.state # "CLOSED", Segs(s.out) = {}, NEW t, NEW seg \in I \cup {Silence}, NEW still,
           Moves(s, t, seg, still), Waiting(s, t, seg),
           NEW J \in SUBSET I, NEW P \in SUBSET (O \cup Segs(t.out)),
           \A m \in I : SegOK(m),
           seg.kind \in {"ACK", "FIN+ACK"} =>
               o.rcvNext # 0 /\ \A m \in J : m.kind # "SYN"
    PROVE  Early(o, t, P, J)
  <1> SUFFICES ASSUME o.rcvNext = 0 \/ (\E m \in J : m.kind = "SYN")
               PROVE  /\ o.rcvNext <= 1 /\ ~ o.gotFin
                      /\ t.state \in {"CLOSED", "SYN_RCVD"} /\ t.rcvNext <= 1
                      /\ \A m \in P : ~ Carries(m)
    BY DEF Early
  <1>1. /\ t \in Socket /\ Emits(s, t) /\ Hears(s, t, seg)
        /\ s.rcvNext \in Nat /\ t.rcvNext \in Nat
    BY SocketNumbers DEF Moves
  <1>2. seg.kind \notin {"ACK", "FIN+ACK"}
    OBVIOUS
  <1>3. /\ o.rcvNext <= 1 /\ ~ o.gotFin
        /\ s.state = "SYN_RCVD" /\ s.rcvNext <= 1
        /\ \A m \in O : ~ Carries(m)
    BY DEF Early
  <1>4. t.state \in {"CLOSED", "SYN_RCVD"} /\ Silent(s, t)
    BY <1>2, <1>3 DEF Waiting
  <1>5. ~ Carries(seg)
    <2>1. SegOK(seg)
      BY SilenceSegment
    <2>2. seg.len > 0 => seg.kind \in {"ACK", "FIN+ACK"}
      BY <2>1 DEF SegOK
    <2> QED
      BY <1>2, <2>2 DEF Carries
  <1>6. t.rcvNext <= 1
    BY <1>1, <1>3, <1>5 DEF Hears
  <1>7. \A m \in P : ~ Carries(m)
    BY <1>3, <1>4 DEF Silent
  <1> QED
    BY <1>3, <1>4, <1>6, <1>7

LEMMA EarlyNet ==
    ASSUME NEW s, NEW o, NEW I, NEW O, Early(s, o, I, O),
           NEW J, \A m \in J : m \in I \/ ~ Carries(m), NEW P,
           \A m \in P : m \in O \/ m.kind # "SYN" \/ s.rcvNext = 0
    PROVE  Early(s, o, J, P)
  BY DEF Early

-----------------------------------------------------------------------------
(* The invariant of the connection, and its steps.                          *)

EndsTied ==
    /\ \A p \in Peers : Tied(sock[p], sock[Other(p)], Segs(net[p]), Segs(net[Other(p)]),
                             "Send" \in app[p])
    /\ Early(sock["client"], sock["server"], Segs(net["client"]), Segs(net["server"]))
    /\ InOrder(net["server"])
    /\ sock["client"].state # "SYN_RCVD" /\ sock["server"].state # "SYN_SENT"

\* Nothing of this is about the segments that a handler has not yet sent.
LEMMA FlushTied ==
    ASSUME NEW t \in Socket, NEW o, NEW I, NEW O, NEW send
    PROVE  LET u == [t EXCEPT !.out = <<>>]
           IN  /\ Tied(t, o, I, O, send) => Tied(u, o, I, O, send)
               /\ Tied(o, t, I, O, send) => Tied(o, u, I, O, send)
               /\ Early(t, o, I, O) => Early(u, o, I, O)
               /\ Early(o, t, I, O) => Early(o, u, I, O)
               /\ u.state = t.state /\ u \in Socket
  <1> DEFINE e == <<>>
             u == [t EXCEPT !.out = e]
  <1>0. e \in Seq(Segment)
    OBVIOUS
  <1> HIDE DEF e
  <1>1. /\ u \in Socket /\ u.endPoint = t.endPoint /\ u.state = t.state
        /\ u.nextTx = t.nextTx /\ u.highTx = t.highTx /\ u.una = t.una /\ u.size = t.size
        /\ u.rcvNext = t.rcvNext /\ u.gotFin = t.gotFin /\ u.finSeq = t.finSeq
        /\ u.closeOnEmpty = t.closeOnEmpty /\ u.failed = t.failed /\ u.retxEvent = t.retxEvent
        /\ u.delAckEvent = t.delAckEvent
    BY <1>0 DEF Socket
  <1> HIDE DEF u
  <1>2. /\ Local(t) => Local(u)
        /\ NoFinYet(t, send) => NoFinYet(u, send)
        /\ MaySend(u, send) => MaySend(t, send)
        /\ Unsent(t) => Unsent(u)
    BY <1>1 DEF Local, NoFinYet, MaySend, Unsent
  <1>3. Tied(t, o, I, O, send) => Tied(u, o, I, O, send)
    BY <1>1, <1>2 DEF Tied
  <1>4. Tied(o, t, I, O, send) => Tied(o, u, I, O, send)
    BY <1>1, TiedSame
  <1>5. (Early(t, o, I, O) => Early(u, o, I, O)) /\ (Early(o, t, I, O) => Early(o, u, I, O))
    BY <1>1 DEF Early
  <1> QED
    BY <1>1, <1>3, <1>4, <1>5 DEF u, e

LEMMA SocketsFacts ==
    ASSUME SocketsSound, NEW p \in Peers
    PROVE  /\ sock[p] \in Socket /\ net[p] \in Seq(Segment) /\ app[p] \in SUBSET Calls
           /\ Sound(sock[p], MayClose(app[p])) /\ MayClose(app[p]) \in BOOLEAN
           /\ sock[p].out = <<>> /\ Segs(sock[p].out) = {} /\ Segs(net[p]) \in SUBSET Segment
           /\ sock[p].endPoint => sock[p].state # "CLOSED"
  <1>1. /\ sock[p] \in Socket /\ net[p] \in Seq(Segment) /\ app[p] \in SUBSET Calls
        /\ Sound(sock[p], MayClose(app[p])) /\ sock[p].out = <<>>
    BY DEF SocketsSound
  <1>2. Segs(<<>>) = {}
    BY DEF Segs
  <1>3. \A i \in DOMAIN net[p] : net[p][i] \in Segment
    BY <1>1
  <1>4. Segs(net[p]) \in SUBSET Segment
    BY <1>3 DEF Segs
  <1>5. sock[p].endPoint => sock[p].state # "CLOSED"
    BY <1>1 DEF Sound
  <1> QED
    BY <1>1, <1>2, <1>4, <1>5, MayCloseBool

\* The socket of p moves, by a segment that arrives or by itself.
LEMMA MoveStep ==
    ASSUME SocketsSound, EndsTied, NEW p \in Peers, sock[p].endPoint, NEW t,
           NEW seg \in Segment,
           \/ net'[p] = net[p] /\ seg = Silence
           \/ net[p] # <<>> /\ net'[p] = Tail(net[p]) /\ seg = Head(net[p]),
           net'[Other(p)] = net[Other(p)] \o t.out,
           sock' = [sock EXCEPT ![p] = [t EXCEPT !.out = <<>>]],
           app'[p] \subseteq app[p], app'[Other(p)] = app[Other(p)],
           Moves(sock[p], t, seg, "Send" \in app'[p]), Waiting(sock[p], t, seg)
    PROVE  EndsTied'
  <1> DEFINE s == sock[p]   o == sock[Other(p)]
             I == Segs(net[p])   O == Segs(net[Other(p)])
             J == Segs(net'[p])  P == Segs(net'[Other(p)])
             u == [t EXCEPT !.out = <<>>]
             send == "Send" \in app[p]     still == "Send" \in app'[p]
             osend == "Send" \in app[Other(p)]
  <1>0. /\ Other(p) \in Peers /\ Other(p) # p /\ (\A q \in Peers : q = p \/ q = Other(p))
        /\ Other(Other(p)) = p
    BY OtherPeer DEF Peers, Other
  <1>1. /\ s \in Socket /\ o \in Socket /\ Segs(s.out) = {} /\ s.state # "CLOSED"
        /\ I \in SUBSET Segment /\ O \in SUBSET Segment
        /\ net[p] \in Seq(Segment) /\ net[Other(p)] \in Seq(Segment)
    BY <1>0, SocketsFacts
  <1>2. t \in Socket /\ t.out \in Seq(Segment)
    BY DEF Moves, Socket
  <1>3. seg \in I \cup {Silence} /\ J \in SUBSET I
    BY <1>1, TailElements
  <1>4. P \in SUBSET (O \cup Segs(t.out))
    BY <1>1, <1>2, SegsConcat
  <1>5. send \in BOOLEAN /\ still \in BOOLEAN /\ osend \in BOOLEAN /\ (still => send)
    OBVIOUS
  <1>6. Tied(s, o, I, O, send) /\ Tied(o, s, O, I, osend)
    BY <1>0 DEF EndsTied
  <1>7. sock'[p] = u /\ sock'[Other(p)] = o
    BY <1>0 DEF SocketsSound
  <1>8. Moves(s, t, seg, still) /\ Waiting(s, t, seg) /\ Emits(s, t)
    BY DEF Moves
  <1> HIDE DEF s, o, I, O, J, P, u, send, still, osend
  <1>9. Tied(t, o, J, P, still)
    BY <1>1, <1>3, <1>4, <1>5, <1>6, <1>8, TiedSelf
  <1>10. Tied(o, t, P, J, osend)
    BY <1>1, <1>3, <1>4, <1>5, <1>6, <1>8, TiedOther
  <1>11. Tied(u, o, J, P, still) /\ Tied(o, u, P, J, osend) /\ u.state = t.state
    BY <1>2, <1>9, <1>10, FlushTied DEF u
  <1>12. \A q \in Peers : Tied(sock'[q], sock'[Other(q)], Segs(net'[q]), Segs(net'[Other(q)]),
                               "Send" \in app'[q])
    BY <1>0, <1>7, <1>11 DEF J, P, still, osend
  <1>13. CASE p = "client"
    <2>1. Other(p) = "server"
      BY <1>13 DEF Other
    <2>2. Early(s, o, I, O) /\ InOrder(net["server"]) /\ s.state # "SYN_RCVD" /\ o.state # "SYN_SENT"
      BY <1>13, <2>1 DEF EndsTied, s, o, I, O
    <2>3. Early(t, o, J, P)
      BY <1>1, <1>3, <1>4, <1>8, <2>2, EarlyClient
    <2>4. Early(u, o, J, P)
      BY <1>2, <2>3, FlushTied DEF u
    <2>5. \A m \in Segs(t.out) : m.kind # "SYN"
      BY <1>1, <1>8 DEF Emits, Fresh
    <2>6. InOrder(net'["server"])
      BY <1>1, <1>2, <2>1, <2>2, <2>5, InOrderConcat
    <2>7. u.state # "SYN_RCVD"
      BY <1>8, <1>11, <2>2 DEF Emits, Handshake
    <2>8. Early(sock'["client"], sock'["server"], Segs(net'["client"]), Segs(net'["server"]))
      BY <1>7, <1>13, <2>1, <2>4 DEF J, P
    <2>9. sock'["client"].state # "SYN_RCVD" /\ sock'["server"].state # "SYN_SENT"
      BY <1>7, <1>13, <2>1, <2>2, <2>7
    <2> QED
      BY <1>12, <2>6, <2>8, <2>9 DEF EndsTied
  <1>14. CASE p = "server"
    <2>1. Other(p) = "client"
      BY <1>14 DEF Other
    <2>2. Early(o, s, O, I) /\ InOrder(net[p]) /\ o.state # "SYN_RCVD" /\ s.state # "SYN_SENT"
      BY <1>14, <2>1 DEF EndsTied, s, o, I, O
    <2>3. \A m \in I : SegOK(m)
      BY <1>6 DEF Tied
    <2>4. ASSUME seg.kind \in {"ACK", "FIN+ACK"}
          PROVE  o.rcvNext # 0 /\ \A m \in J : m.kind # "SYN"
      <3>1. seg # Silence
        BY <2>4, SilenceSegment
      <3>2. seg \in I /\ seg \in Segment
        BY <1>3, <3>1
      <3>3. seg.ack <= o.rcvNext /\ seg.ack >= 1
        BY <1>6, <2>3, <2>4, <3>2 DEF Tied, SegOK, Acking
      <3>4. o.rcvNext # 0
        BY <1>1, <3>2, <3>3, SocketNumbers, SegmentNumbers
      <3>5. net[p] # <<>> /\ net'[p] = Tail(net[p]) /\ seg = Head(net[p])
        BY <3>1
      <3>6. \A m \in J : m.kind # "SYN"
        BY <1>1, <2>2, <2>4, <3>5, TailElements DEF J
      <3> QED
        BY <3>4, <3>6
    <2>5. Early(o, t, P, J)
      BY <1>1, <1>3, <1>4, <1>8, <2>2, <2>3, <2>4, EarlyServer
    <2>6. Early(o, u, P, J)
      BY <1>2, <2>5, FlushTied DEF u
    <2>7. InOrder(net'["server"])
      BY <1>1, <1>14, <2>2, TailElements
    <2>8. u.state # "SYN_SENT"
      BY <1>8, <1>11, <2>2 DEF Emits, Handshake
    <2>9. Early(sock'["client"], sock'["server"], Segs(net'["client"]), Segs(net'["server"]))
      BY <1>7, <1>14, <2>1, <2>6 DEF J, P
    <2>10. sock'["client"].state # "SYN_RCVD" /\ sock'["server"].state # "SYN_SENT"
      BY <1>7, <1>14, <2>1, <2>2, <2>8
    <2> QED
      BY <1>12, <2>7, <2>9, <2>10 DEF EndsTied
  <1> QED
    BY <1>13, <1>14 DEF Peers

\* The same for a handler that takes nothing from the network.
LEMMA BecomesMove ==
    ASSUME SocketsSound, EndsTied, NEW p \in Peers, sock[p].endPoint, NEW t, Becomes(p, t),
           app'[p] \subseteq app[p], app'[Other(p)] = app[Other(p)],
           Moves(sock[p], t, Silence, "Send" \in app'[p]), Waiting(sock[p], t, Silence)
    PROVE  EndsTied'
  <1>1. Other(p) \in Peers /\ Other(p) # p
    BY OtherPeer
  <1>2. net' = [net EXCEPT ![Other(p)] = net[Other(p)] \o t.out]
    BY DEF Becomes
  <1>3. net'[p] = net[p] /\ net'[Other(p)] = net[Other(p)] \o t.out
    BY <1>1, <1>2 DEF SocketsSound
  <1>4. sock' = [sock EXCEPT ![p] = [t EXCEPT !.out = <<>>]]
    BY DEF Becomes
  <1> QED
    BY <1>3, <1>4, SilenceSegment, MoveStep

\* What the steps below use of an open socket.
LEMMA EndFacts ==
    ASSUME SocketsSound, EndsTied, NEW p \in Peers
    PROVE  /\ Local(sock[p]) /\ NoFinYet(sock[p], "Send" \in app[p])
           /\ \A m \in Segs(net[p]) : SegOK(m)
  BY DEF EndsTied, Tied

LEMMA DeliverTied ==
    ASSUME NEW p \in Peers PROVE SocketsSound /\ EndsTied /\ Deliver(p) => EndsTied'
  <1> SUFFICES ASSUME SocketsSound, EndsTied, Deliver(p) PROVE EndsTied'
    OBVIOUS
  <1> DEFINE seg == Head(net[p])
             o   == Other(p)
             send == "Send" \in app[p]
  <1>1. PICK reacts \in BOOLEAN : \E s \in {ForwardUp(sock[p], seg, reacts)} :
         /\ sock' = [sock EXCEPT ![p] = [s EXCEPT !.out = <<>>]]
         /\ net' = [net EXCEPT ![p] = Tail(@), ![Other(p)] = @ \o s.out]
    BY DEF Deliver
  <1> DEFINE t == ForwardUp(sock[p], seg, reacts)
  <1>2. /\ sock' = [sock EXCEPT ![p] = [t EXCEPT !.out = <<>>]]
        /\ net' = [net EXCEPT ![p] = Tail(@), ![o] = @ \o t.out]
        /\ app' = app /\ net[p] # <<>> /\ sock[p].endPoint
    BY <1>1 DEF Deliver
  <1>3. o \in Peers /\ o # p
    BY OtherPeer
  <1>4. /\ sock[p] \in Socket /\ net[p] \in Seq(Segment) /\ Sound(sock[p], MayClose(app[p]))
        /\ MayClose(app[p]) \in BOOLEAN
    BY SocketsFacts
  <1>5. seg \in Segs(net[p]) /\ seg \in Segment
    BY <1>2, <1>4, TailElements, TailType
  <1>6. Local(sock[p]) /\ NoFinYet(sock[p], send) /\ SegOK(seg) /\ send \in BOOLEAN
    BY <1>5, EndFacts
  <1>7. ASSUME sock[p].state = "SYN_RCVD", seg.kind = "SYN" PROVE sock[p].rcvNext <= 1
    <2>1. p = "server"
      BY <1>7 DEF EndsTied, Peers
    <2>2. Early(sock["client"], sock["server"], Segs(net["client"]), Segs(net["server"]))
      BY DEF EndsTied
    <2> HIDE DEF seg
    <2> QED
      BY <1>5, <1>7, <2>1, <2>2 DEF Early
  <1> HIDE DEF seg, send
  <1>8. Moves(sock[p], t, seg, send) /\ Waiting(sock[p], t, seg)
    BY <1>2, <1>4, <1>5, <1>6, <1>7, ForwardUpMoves
  <1> HIDE DEF t, o
  <1>9. net'[p] = Tail(net[p]) /\ net'[o] = net[o] \o t.out
    BY <1>2, <1>3 DEF SocketsSound
  <1>10. Moves(sock[p], t, seg, "Send" \in app'[p]) /\ app'[p] \subseteq app[p] /\ app'[o] = app[o]
    BY <1>2, <1>8 DEF send
  <1>11. net'[Other(p)] = net[Other(p)] \o t.out /\ app'[Other(p)] = app[Other(p)]
    BY <1>9, <1>10 DEF o
  <1>12. seg = Head(net[p])
    BY DEF seg
  <1> QED
    BY <1>2, <1>5, <1>8, <1>9, <1>10, <1>11, <1>12, MoveStep

\* A socket on which something is scheduled has its endpoint.
LEMMA ScheduledOpen ==
    ASSUME SocketsSound, NEW p \in Peers,
           \/ sock[p].retxEvent # "none" \/ sock[p].lastAckEvent \/ sock[p].delAckEvent
           \/ sock[p].sendPendingDataEvent \/ sock[p].timewaitEvent
    PROVE  sock[p].endPoint
  <1>1. Sound(sock[p], MayClose(app[p]))
    BY SocketsFacts
  <1> QED
    BY <1>1 DEF Sound, Quiet

LEMMA TimersTied ==
    ASSUME NEW p \in Peers, SocketsSound, EndsTied
    PROVE  /\ SendPendingDataEvent(p) => EndsTied'
           /\ RetransmitEvent(p) /\ sock[p].retxEvent # "SYN" => EndsTied'
           /\ LastAckEvent(p) => EndsTied'
           /\ DelAckTimeout(p) => EndsTied'
           /\ TimeWaitEnds(p) => EndsTied'
  <1> DEFINE send == "Send" \in app[p]
             s == sock[p]
             m == MayClose(app[p])
  <1>1. /\ s \in Socket /\ Sound(s, m) /\ m \in BOOLEAN /\ send \in BOOLEAN
        /\ Local(s) /\ NoFinYet(s, send)
    BY SocketsFacts, EndFacts
  <1> HIDE DEF m
  <1>2. ASSUME s.endPoint, app' = app, NEW t, Becomes(p, t), Moves(s, t, Silence, send),
               Waiting(s, t, Silence)
        PROVE  EndsTied'
    <2>1. app'[p] \subseteq app[p] /\ app'[Other(p)] = app[Other(p)]
      BY <1>2
    <2>2. Moves(sock[p], t, Silence, "Send" \in app'[p])
      BY <1>2
    <2> QED
      BY <1>2, <2>1, <2>2, BecomesMove
  <1>3. ASSUME NEW t, s.state # "SYN_RCVD" PROVE Waiting(s, t, Silence)
    BY <1>3 DEF Waiting
  <1>4. Silence \in Segment
    BY SilenceSegment
  <1>5. s.retxEvent # "none" \/ s.lastAckEvent \/ s.delAckEvent \/ s.sendPendingDataEvent
        \/ s.timewaitEvent => s.endPoint
    BY ScheduledOpen
  <1> HIDE DEF send, s
  <1>6. ASSUME SendPendingDataEvent(p) PROVE EndsTied'
    <2> DEFINE t == SendPendingData([s EXCEPT !.sendPendingDataEvent = FALSE], FALSE)
    <2>1. s.sendPendingDataEvent /\ Becomes(p, t) /\ app' = app
      BY <1>6 DEF SendPendingDataEvent, s
    <2>2. Moves(s, t, Silence, send) /\ s.state # "SYN_RCVD"
      BY <1>1, <1>4, <2>1, EventMoves
    <2> HIDE DEF t
    <2> QED
      BY <1>2, <1>3, <1>5, <2>1, <2>2
  <1>7. ASSUME RetransmitEvent(p), sock[p].retxEvent # "SYN" PROVE EndsTied'
    <2> DEFINE t == Retransmit(s)
    <2>1. s.retxEvent \notin {"none", "SYN"} /\ Becomes(p, t) /\ app' = app
      BY <1>7 DEF RetransmitEvent, s
    <2>2. Moves(s, t, Silence, send) /\ Waiting(s, t, Silence)
      BY <1>1, <1>4, <2>1, RetransmitMoves
    <2> HIDE DEF t
    <2> QED
      BY <1>2, <1>5, <2>1, <2>2
  <1>8. ASSUME LastAckEvent(p) PROVE EndsTied'
    <2> DEFINE t == LastAckTimeout(s)
    <2>1. s.lastAckEvent /\ Becomes(p, t) /\ app' = app
      BY <1>8 DEF LastAckEvent, s
    <2>2. Moves(s, t, Silence, send) /\ s.state = "LAST_ACK"
      BY <1>1, <1>4, <2>1, LastAckMoves
    <2> HIDE DEF t
    <2> QED
      BY <1>2, <1>3, <1>5, <2>1, <2>2
  <1>9. ASSUME DelAckTimeout(p) PROVE EndsTied'
    <2> DEFINE t == SendEmptyPacket([s EXCEPT !.delAckEvent = FALSE], "ACK")
    <2>1. s.delAckEvent /\ Becomes(p, t) /\ app' = app
      BY <1>9 DEF DelAckTimeout, s
    <2>2. Moves(s, t, Silence, send) /\ s.state # "SYN_RCVD"
      BY <1>1, <1>4, <2>1, EventMoves
    <2> HIDE DEF t
    <2> QED
      BY <1>2, <1>3, <1>5, <2>1, <2>2
  <1>10. ASSUME TimeWaitEnds(p) PROVE EndsTied'
    <2> DEFINE t == CloseAndNotify(s)
    <2>1. s.timewaitEvent /\ Becomes(p, t) /\ app' = app
      BY <1>10 DEF TimeWaitEnds, s
    <2>2. Moves(s, t, Silence, send) /\ Silent(s, t) /\ t.state = "CLOSED"
      BY <1>1, <1>4, CloseMoves
    <2> HIDE DEF t
    <2>3. Waiting(s, t, Silence)
      BY <2>2 DEF Waiting
    <2> QED
      BY <1>2, <1>5, <2>1, <2>2, <2>3
  <1> QED
    BY <1>6, <1>7, <1>8, <1>9, <1>10

LEMMA AppTied ==
    ASSUME NEW p \in Peers, SocketsSound, EndsTied
    PROVE  /\ AppClose(p) => EndsTied'
           /\ AppShutdownSend(p) => EndsTied'
  <1> DEFINE s == sock[p]
  <1>1. s \in Socket /\ Local(s) /\ (s.endPoint => s.state # "CLOSED") /\ Silence \in Segment
    BY SocketsFacts, EndFacts, SilenceSegment
  <1>2. Other(p) \in Peers /\ Other(p) # p
    BY OtherPeer
  <1>3. ASSUME NEW t, s.state # "SYN_RCVD" PROVE Waiting(s, t, Silence)
    BY <1>3 DEF Waiting
  <1>4. ASSUME AppClose(p) PROVE EndsTied'
    <2> DEFINE t == Close(s)
    <2>1. s.endPoint /\ s.state # "SYN_RCVD" /\ Becomes(p, t) /\ app' = [app EXCEPT ![p] = {}]
      BY <1>4 DEF AppClose, HasSocket
    <2>2. Moves(s, t, Silence, FALSE)
      BY <1>1, <2>1, AppCloseMoves
    <2> HIDE DEF t
    <2>3. app'[p] = {} /\ app'[Other(p)] = app[Other(p)]
      BY <1>2, <2>1 DEF SocketsSound
    <2>4. ("Send" \in app'[p]) = FALSE /\ app'[p] \subseteq app[p]
      BY <2>3
    <2>5. Moves(s, t, Silence, "Send" \in app'[p])
      BY <2>2, <2>4
    <2>6. Waiting(s, t, Silence)
      BY <1>3, <2>1
    <2> QED
      BY <2>1, <2>3, <2>4, <2>5, <2>6, BecomesMove
  <1>5. ASSUME AppShutdownSend(p) PROVE EndsTied'
    <2> DEFINE t == ShutdownSend(s)
               send == "Send" \in app'[p]
    <2>1. /\ s.endPoint /\ s.state # "SYN_RCVD" /\ Becomes(p, t)
          /\ app' = [app EXCEPT ![p] = app[p] \ {"ShutdownSend"}]
      BY <1>5 DEF AppShutdownSend, HasSocket
    <2>2. send \in BOOLEAN
      OBVIOUS
    <2>3. Moves(s, t, Silence, send)
      <3> HIDE DEF send
      <3> QED
        BY <1>1, <2>1, <2>2, AppShutdownMoves
    <2> HIDE DEF t
    <2>4. app'[p] \subseteq app[p] /\ app'[Other(p)] = app[Other(p)]
      BY <1>2, <2>1 DEF SocketsSound
    <2>5. Waiting(s, t, Silence)
      BY <1>3, <2>1
    <2> QED
      BY <2>1, <2>3, <2>4, <2>5, BecomesMove
  <1> QED
    BY <1>4, <1>5

\* What is written now is the first that is sent.
LEMMA SendTied ==
    ASSUME NEW p \in Peers PROVE SocketsSound /\ EndsTied /\ Send(p) => EndsTied'
  <1> SUFFICES ASSUME SocketsSound, EndsTied, Send(p) PROVE EndsTied'
    OBVIOUS
  <1> DEFINE s == sock[p]
             e == s.state # "SYN_SENT"
             t == [s EXCEPT !.size = 1, !.sendPendingDataEvent = e]
  <1>1. /\ s.endPoint /\ s.state \in {"ESTABLISHED", "SYN_SENT", "CLOSE_WAIT"}
        /\ ~ s.closeOnEmpty /\ "Send" \in app[p]
        /\ Becomes(p, t) /\ app' = [app EXCEPT ![p] = app[p] \ {"Send"}]
    BY DEF Send, HasSocket
  <1>2. s \in Socket /\ Local(s) /\ e \in BOOLEAN
    BY SocketsFacts, EndFacts
  <1>3. Unsent(s)
    <2>1. MaySend(s, "Send" \in app[p])
      BY <1>1 DEF MaySend, Handshake
    <2> QED
      BY <2>1 DEF EndsTied, Tied
  <1>4. s.una \in Nat /\ s.highTx \in Nat /\ s.nextTx \in Nat /\ s.rcvNext \in Nat
    BY <1>2, SocketNumbers
  <1>5. Other(p) \in Peers /\ Other(p) # p
    BY OtherPeer
  <1>6. app'[p] = app[p] \ {"Send"} /\ app'[Other(p)] = app[Other(p)]
    BY <1>1, <1>5 DEF SocketsSound
  <1> HIDE DEF s, e
  <1>7. /\ t \in Socket /\ t.endPoint = s.endPoint /\ t.state = s.state
        /\ t.nextTx = s.nextTx /\ t.highTx = s.highTx /\ t.una = s.una /\ t.size = 1
        /\ t.rcvNext = s.rcvNext /\ t.gotFin = s.gotFin /\ t.finSeq = s.finSeq
        /\ t.closeOnEmpty = s.closeOnEmpty /\ t.failed = s.failed
        /\ t.retxEvent = s.retxEvent /\ t.out = s.out /\ t.delAckEvent = s.delAckEvent
    BY <1>2 DEF Socket
  <1> HIDE DEF t
  <1>8. s.una <= 1 /\ s.highTx <= s.una + 1
    <2>1. s.una <= 1 /\ s.highTx <= 1
      BY <1>3 DEF Unsent
    <2> QED
      BY <1>4, <2>1
  <1>9. Local(t)
    BY <1>2, <1>7, <1>8 DEF Local
  <1>10. Emits(s, t) /\ Hears(s, t, Silence)
    BY <1>4, <1>7 DEF Emits, Hears
  <1>11. NoFinYet(t, FALSE) /\ Holds(s, t, Silence, FALSE)
    BY DEF NoFinYet, Holds, MaySend
  <1>12. Moves(s, t, Silence, FALSE)
    BY <1>7, <1>9, <1>10, <1>11 DEF Moves
  <1>13. ("Send" \in app'[p]) = FALSE /\ app'[p] \subseteq app[p]
    BY <1>6
  <1>14. Moves(s, t, Silence, "Send" \in app'[p])
    BY <1>12, <1>13
  <1>15. Waiting(s, t, Silence)
    BY <1>1 DEF Waiting
  <1> QED
    BY <1>1, <1>6, <1>13, <1>14, <1>15, BecomesMove DEF s

\* No socket moves: segments are lost, and resets added.
NetOnly ==
    /\ sock' = sock /\ app' = app
    /\ \A p \in Peers : \A m \in Segs(net'[p]) :
           m \in Segs(net[p]) \/ (Idle(m) /\ m.kind # "SYN")
    /\ InOrder(net'["server"])

LEMMA NetTied == EndsTied /\ NetOnly => EndsTied'
  <1> SUFFICES ASSUME EndsTied, NetOnly PROVE EndsTied'
    OBVIOUS
  <1> USE DEF NetOnly
  <1>1. ASSUME NEW p \in Peers
        PROVE  Tied(sock'[p], sock'[Other(p)], Segs(net'[p]), Segs(net'[Other(p)]),
                    "Send" \in app'[p])
    <2>1. Other(p) \in Peers
      BY OtherPeer
    <2>2. Tied(sock[p], sock[Other(p)], Segs(net[p]), Segs(net[Other(p)]), "Send" \in app[p])
      BY DEF EndsTied
    <2>3. Tied(sock[p], sock[Other(p)], Segs(net'[p]), Segs(net'[Other(p)]), "Send" \in app[p])
      BY <2>1, <2>2, TiedNet
    <2> QED
      BY <2>3
  <1>2. Early(sock'["client"], sock'["server"], Segs(net'["client"]), Segs(net'["server"]))
    <2>1. "client" \in Peers /\ "server" \in Peers
      BY DEF Peers
    <2>2. Early(sock["client"], sock["server"], Segs(net["client"]), Segs(net["server"]))
      BY DEF EndsTied
    <2>3. \A m \in Segs(net'["client"]) : m \in Segs(net["client"]) \/ ~ Carries(m)
      BY <2>1 DEF Idle
    <2>4. Early(sock["client"], sock["server"], Segs(net'["client"]), Segs(net'["server"]))
      BY <2>1, <2>2, <2>3, EarlyNet
    <2> QED
      BY <2>4
  <1>3. sock'["client"].state # "SYN_RCVD" /\ sock'["server"].state # "SYN_SENT"
    BY DEF EndsTied
  <1> QED
    BY <1>1, <1>2, <1>3 DEF EndsTied

LEMMA LoseNet ==
    ASSUME NEW p \in Peers PROVE SocketsSound /\ EndsTied /\ Lose(p) => NetOnly
  <1> SUFFICES ASSUME SocketsSound, EndsTied, Lose(p) PROVE NetOnly
    OBVIOUS
  <1>1. /\ net[p] # <<>> /\ net' = [net EXCEPT ![p] = Tail(net[p])] /\ sock' = sock /\ app' = app
    BY DEF Lose
  <1>2. net'[p] = Tail(net[p]) /\ \A q \in Peers : q # p => net'[q] = net[q]
    BY <1>1 DEF SocketsSound
  <1>3. net[p] \in Seq(Segment) /\ "server" \in Peers
    BY DEF SocketsSound, Peers
  <1>4. Segs(Tail(net[p])) \in SUBSET Segs(net[p]) /\ (InOrder(net[p]) => InOrder(Tail(net[p])))
    BY <1>1, <1>3, TailElements
  <1>5. ASSUME NEW q \in Peers, NEW m \in Segs(net'[q]) PROVE m \in Segs(net[q])
    BY <1>2, <1>4
  <1>6. InOrder(net'["server"])
    <2>1. InOrder(net["server"])
      BY DEF EndsTied
    <2> QED
      BY <1>2, <1>3, <1>4, <2>1
  <1> QED
    BY <1>1, <1>5, <1>6 DEF NetOnly

LEMMA RefuseNet ==
    ASSUME NEW p \in Peers PROVE SocketsSound /\ EndsTied /\ Refuse(p) => NetOnly
  <1> SUFFICES ASSUME SocketsSound, EndsTied, Refuse(p) PROVE NetOnly
    OBVIOUS
  <1> DEFINE seg == Head(net[p])
             o   == Other(p)
             k   == IF HasAck(seg.kind) THEN "RST" ELSE "RST+ACK"
             rst == [kind |-> k, len |-> 0,
                     seq |-> IF HasAck(seg.kind) THEN seg.ack ELSE 0, ack |-> seg.seq + 1]
             r   == IF seg.kind \in {"RST", "RST+ACK"} THEN <<>> ELSE <<rst>>
             q   == IF seg.kind \in {"RST", "RST+ACK"} THEN net[o] ELSE Append(net[o], rst)
  <1>1. net[p] # <<>> /\ sock' = sock /\ app' = app
    BY DEF Refuse
  <1>2. o \in Peers /\ o # p /\ "server" \in Peers /\ \A x \in Peers : x = p \/ x = o
    BY OtherPeer DEF Peers
  <1>3. net' = [net EXCEPT ![p] = Tail(net[p]), ![o] = q]
    BY <1>2 DEF Refuse, SocketsSound
  <1>4. net[p] \in Seq(Segment) /\ net[o] \in Seq(Segment)
    BY <1>2 DEF SocketsSound
  <1>5. Tail(net[p]) \in Seq(Segment) /\ seg \in Segment
    BY <1>1, <1>4, TailType
  <1>6. rst \in Segment /\ Idle(rst) /\ rst.kind # "SYN"
    <2> HIDE DEF seg
    <2>1. k \in {"RST", "RST+ACK"}
      OBVIOUS
    <2>2. rst \in Segment
      BY <1>5 DEF Segment, Kinds
    <2>3. rst.kind = k /\ rst.len = 0
      OBVIOUS
    <2> HIDE DEF rst, k
    <2> QED
      BY <2>1, <2>2, <2>3 DEF Idle, SegOK, Acking, Carries
  <1> HIDE DEF rst
  <1>7. r \in Seq(Segment) /\ q = net[o] \o r /\ \A m \in Segs(r) : m = rst
    <2>1. CASE seg.kind \in {"RST", "RST+ACK"}
      <3>1. r = <<>> /\ q = net[o]
        BY <2>1
      <3>2. net[o] \o <<>> = net[o]
        BY <1>4
      <3>3. \A m \in Segs(<<>>) : m = rst
        BY DEF Segs
      <3>4. <<>> \in Seq(Segment)
        OBVIOUS
      <3> HIDE DEF r, q
      <3> QED
        BY <3>1, <3>2, <3>3, <3>4
    <2>2. CASE seg.kind \notin {"RST", "RST+ACK"}
      <3>1. r = <<rst>> /\ q = Append(net[o], rst)
        BY <2>2
      <3>2. <<rst>> \in Seq(Segment) /\ DOMAIN <<rst>> = {1} /\ <<rst>>[1] = rst
        BY <1>6
      <3>3. Append(net[o], rst) = net[o] \o <<rst>>
        BY <1>4, <1>6
      <3>4. \A m \in Segs(<<rst>>) : m = rst
        BY <3>2 DEF Segs
      <3> HIDE DEF r, q
      <3> QED
        BY <3>1, <3>2, <3>3, <3>4
    <2> QED
      BY <2>1, <2>2
  <1> HIDE DEF q, r, seg, o
  <1>8. net'[p] = Tail(net[p]) /\ net'[o] = net[o] \o r
    BY <1>2, <1>3, <1>7 DEF SocketsSound
  <1>9. Segs(Tail(net[p])) \in SUBSET Segs(net[p]) /\ (InOrder(net[p]) => InOrder(Tail(net[p])))
    BY <1>1, <1>4, TailElements
  <1>10. \A m \in Segs(net[o] \o r) : m \in Segs(net[o]) \/ m = rst
    BY <1>4, <1>7, SegsConcat
  <1>11. ASSUME NEW x \in Peers, NEW m \in Segs(net'[x])
         PROVE  m \in Segs(net[x]) \/ (Idle(m) /\ m.kind # "SYN")
    BY <1>2, <1>6, <1>8, <1>9, <1>10
  <1>12. InOrder(net[o]) => InOrder(net[o] \o r)
    <2>1. \A m \in Segs(r) : m.kind # "SYN"
      BY <1>6, <1>7
    <2> QED
      BY <1>4, <1>7, <2>1, InOrderConcat
  <1>13. InOrder(net'["server"])
    <2>1. InOrder(net["server"])
      BY DEF EndsTied
    <2>2. "server" = p \/ "server" = o
      BY <1>2
    <2> QED
      BY <1>8, <1>9, <1>12, <2>1, <2>2
  <1> QED
    BY <1>1, <1>11, <1>13 DEF NetOnly

\* As long as the client has heard nothing, it has sent nothing but SYNs
\* and resets.
LEMMA OnlySyns ==
    ASSUME SocketsSound, EndsTied, sock["client"].rcvNext = 0, NEW m \in Segs(net["server"])
    PROVE  m.kind \notin {"ACK", "FIN+ACK"} /\ ~ Carries(m)
  <1>1. "server" \in Peers /\ Other("server") = "client"
    BY DEF Peers, Other
  <1>2. Tied(sock["server"], sock["client"], Segs(net["server"]), Segs(net["client"]),
             "Send" \in app["server"])
    BY <1>1 DEF EndsTied
  <1>3. SegOK(m) /\ (m.kind \in Acking => m.ack <= 0)
    BY <1>2 DEF Tied
  <1>4. m \in Segment
    BY <1>1, SocketsFacts
  <1>5. m.ack \in Nat
    BY <1>4, SegmentNumbers
  <1>6. m.kind \notin {"ACK", "FIN+ACK"}
    BY <1>3, <1>5 DEF SegOK, Acking
  <1> QED
    BY <1>3, <1>6 DEF SegOK, Carries

\* The client sends its SYN, once more or for the first time, or gives up.
LEMMA SynStep ==
    ASSUME SocketsSound, EndsTied, sock["client"].rcvNext = 0, NEW u, NEW r \in Seq(Segment),
           \A m \in Segs(r) : Idle(m),
           sock' = [sock EXCEPT !["client"] = u], app' = app,
           net'["client"] = net["client"], net'["server"] = net["server"] \o r,
           u.rcvNext = 0, u.nextTx = sock["client"].nextTx, ~ u.gotFin, u.state # "SYN_RCVD",
           Tied(u, sock["server"], Segs(net["client"]), Segs(net["server"]),
                "Send" \in app["client"])
    PROVE  EndsTied'
  <1> DEFINE s == sock["client"]   o == sock["server"]
             C == Segs(net["client"])   S == Segs(net["server"])   P == Segs(net["server"] \o r)
  <1>1. /\ "client" \in Peers /\ "server" \in Peers
        /\ Other("client") = "server" /\ Other("server") = "client"
        /\ \A p \in Peers : p = "client" \/ p = "server"
    BY DEF Peers, Other
  <1>2. net["server"] \in Seq(Segment)
    BY <1>1 DEF SocketsSound
  <1>3. \A m \in P : m \in S \/ Idle(m)
    BY <1>2, SegsConcat
  <1>4. Tied(o, s, S, C, "Send" \in app["server"]) /\ Early(s, o, C, S) /\ InOrder(net["server"])
        /\ o.state # "SYN_SENT"
    BY <1>1 DEF EndsTied
  <1>5. Tied(o, u, S, C, "Send" \in app["server"])
    BY <1>4, TiedSame
  <1>6. Tied(o, u, P, C, "Send" \in app["server"])
    <2> HIDE DEF o, S, C, P
    <2> QED
      BY <1>3, <1>5, TiedNet
  <1>7. Tied(u, o, C, P, "Send" \in app["client"])
    <2>1. Tied(u, o, C, S, "Send" \in app["client"])
      OBVIOUS
    <2> HIDE DEF o, S, C, P
    <2> QED
      BY <1>3, <2>1, TiedNet
  <1>8. Early(u, o, C, P)
    BY <1>4 DEF Early
  <1>9. InOrder(net["server"] \o r)
    <2>1. \A m \in S : m.kind \notin {"ACK", "FIN+ACK"}
      BY OnlySyns
    <2>2. \A m \in Segs(r) : m.kind \notin {"ACK", "FIN+ACK"}
      BY DEF Idle, Acking
    <2> QED
      BY <1>2, <1>4, <2>1, <2>2, InOrderConcat
  <1>10. sock'["client"] = u /\ sock'["server"] = o
    BY <1>1 DEF SocketsSound
  <1>11. \A p \in Peers : Tied(sock'[p], sock'[Other(p)], Segs(net'[p]), Segs(net'[Other(p)]),
                               "Send" \in app'[p])
    BY <1>1, <1>6, <1>7, <1>10
  <1>12. Early(sock'["client"], sock'["server"], Segs(net'["client"]), Segs(net'["server"]))
    BY <1>8, <1>10
  <1>13. sock'["client"].state # "SYN_RCVD" /\ sock'["server"].state # "SYN_SENT"
    BY <1>4, <1>10
  <1> QED
    BY <1>9, <1>11, <1>12, <1>13 DEF EndsTied

\* The SYN itself.
LEMMA SynIdle ==
    ASSUME NEW b \in Socket, b.nextTx = 0, b.state \notin {"FIN_WAIT_1", "LAST_ACK", "CLOSING"}
    PROVE  Idle(EmptySegment(b, "SYN")) /\ EmptySegment(b, "SYN") \in Segment
  <1> DEFINE m == EmptySegment(b, "SYN")
  <1>1. m.seq = 0
    BY DEF EmptySegment
  <1>2. m \in Segment /\ m.kind = "SYN" /\ m.len = 0
    BY EmptySegmentType DEF Kinds
  <1> HIDE DEF m
  <1>3. Idle(m)
    BY <1>1, <1>2 DEF Idle, SegOK, Acking, Carries
  <1> QED
    BY <1>2, <1>3 DEF m

LEMMA ConnectTied == SocketsSound /\ EndsTied /\ Connect => EndsTied'
  <1> SUFFICES ASSUME SocketsSound, EndsTied, Connect PROVE EndsTied'
    OBVIOUS
  <1> DEFINE n == SynRetries
             b == [sock["client"] EXCEPT !.endPoint = TRUE, !.synCount = n]
             a == SendEmptyPacket(b, "SYN")
             t == [a EXCEPT !.state = "SYN_SENT"]
             e == <<>>
             u == [t EXCEPT !.out = e]
             o == sock["server"]
             send == "Send" \in app["client"]
  <1>1. n \in Nat /\ n # 0 /\ e \in Seq(Segment)
    BY ConnectionAssumption
  <1>2. sock["client"] = NewSocket /\ Becomes("client", t) /\ app' = app
    BY DEF Connect
  <1>3. /\ NewSocket.nextTx = 0 /\ NewSocket.highTx = 0 /\ NewSocket.una = 0
        /\ NewSocket.size = 0 /\ NewSocket.rcvNext = 0 /\ ~ NewSocket.gotFin
        /\ ~ NewSocket.closeOnEmpty /\ ~ NewSocket.failed /\ ~ NewSocket.delAckEvent
        /\ NewSocket.retxEvent = "none" /\ NewSocket.state = "CLOSED" /\ NewSocket.out = <<>>
    BY DEF NewSocket
  <1>4. sock' = [sock EXCEPT !["client"] = u] /\ net' = [net EXCEPT !["server"] = @ \o t.out]
    BY <1>2 DEF Becomes, Other
  <1> HIDE DEF n
  <1>5. /\ b \in Socket /\ b.endPoint /\ b.synCount # 0 /\ b.nextTx = 0 /\ b.highTx = 0
        /\ b.una = 0 /\ b.size = 0 /\ b.rcvNext = 0 /\ b.state = "CLOSED"
        /\ b.retxEvent = "none" /\ b.out = <<>>
    BY <1>1, <1>2, <1>3, NewSocketSound DEF Socket
  <1>6. ~ b.gotFin /\ ~ b.closeOnEmpty /\ ~ b.failed /\ ~ b.delAckEvent
    BY <1>2, <1>3, NewSocketSound DEF Socket
  <1> HIDE DEF b
  <1>7. SynSent(b, a, "SYN") /\ a.endPoint
    BY <1>5, SendSyn
  <1> HIDE DEF a
  <1>8. /\ a \in Socket /\ Sends(b, a) /\ a.retxEvent = "SYN"
        /\ Segs(a.out) = Segs(b.out) \cup {EmptySegment(b, "SYN")}
    BY <1>5, <1>7 DEF SynSent, Leaves
  <1>9. "SYN_SENT" \in States
    BY DEF States
  <1>10. /\ t \in Socket /\ t.nextTx = 0 /\ t.highTx = 0 /\ t.una = 0 /\ t.size = 0
         /\ t.rcvNext = 0 /\ t.state = "SYN_SENT" /\ t.retxEvent = "SYN" /\ t.out = a.out
    BY <1>5, <1>8, <1>9 DEF Sends, Same, Socket
  <1>11. ~ t.gotFin /\ ~ t.closeOnEmpty /\ ~ t.failed /\ ~ t.delAckEvent
    <2>1. ~ a.gotFin /\ ~ a.closeOnEmpty /\ ~ a.failed /\ ~ a.delAckEvent
      BY <1>6, <1>8 DEF Sends, Same
    <2> QED
      BY <1>8, <2>1 DEF Socket
  <1> HIDE DEF t, e
  <1>12. /\ u \in Socket /\ u.nextTx = 0 /\ u.highTx = 0 /\ u.una = 0 /\ u.size = 0
         /\ u.rcvNext = 0 /\ u.state = "SYN_SENT" /\ u.retxEvent = "SYN"
    BY <1>1, <1>10 DEF Socket
  <1>13. ~ u.gotFin /\ ~ u.closeOnEmpty /\ ~ u.failed /\ ~ u.delAckEvent
    BY <1>1, <1>10, <1>11 DEF Socket
  <1> HIDE DEF u
  <1>14. Local(u) /\ NoFinYet(u, send) /\ Unsent(u)
    BY <1>12, <1>13 DEF Local, NoFinYet, Unsent, Handshake
  <1>15. "client" \in Peers /\ "server" \in Peers /\ Other("client") = "server"
    BY DEF Peers, Other
  <1>16. o \in Socket /\ o.rcvNext \in Nat /\ o.nextTx \in Nat
    BY <1>15, SocketNumbers DEF SocketsSound
  <1>17. Tied(sock["client"], o, Segs(net["client"]), Segs(net["server"]), send)
    BY <1>15 DEF EndsTied
  <1>18. o.rcvNext <= 1
    <2>1. Early(sock["client"], o, Segs(net["client"]), Segs(net["server"]))
      BY DEF EndsTied
    <2> QED
      BY <1>2, <1>3, <2>1 DEF Early
  <1>19. \A m \in Segs(net["server"]) : ~ Carries(m)
    BY <1>2, <1>3, OnlySyns
  <1> HIDE DEF o, send
  <1>20. Tied(u, o, Segs(net["client"]), Segs(net["server"]), send)
    BY <1>12, <1>13, <1>14, <1>16, <1>17, <1>18, <1>19 DEF Tied
  <1>21. net'["client"] = net["client"] /\ net'["server"] = net["server"] \o t.out
    BY <1>4, <1>15 DEF SocketsSound
  <1>22. t.out \in Seq(Segment) /\ \A m \in Segs(t.out) : Idle(m)
    <2>1. t.out \in Seq(Segment)
      BY <1>10 DEF Socket
    <2>2. Segs(<<>>) = {}
      BY DEF Segs
    <2> QED
      BY <1>5, <1>8, <1>10, <2>1, <2>2, SynIdle
  <1>23. /\ sock["client"].rcvNext = 0 /\ u.nextTx = sock["client"].nextTx
         /\ u.state # "SYN_RCVD"
    BY <1>2, <1>3, <1>12
  <1> QED
    BY <1>2, <1>4, <1>12, <1>13, <1>20, <1>21, <1>22, <1>23, SynStep DEF o, send

LEMMA SynAgainTied ==
    ASSUME NEW p \in Peers, SocketsSound, EndsTied, RetransmitEvent(p), sock[p].retxEvent = "SYN"
    PROVE  EndsTied'
  <1> DEFINE s == sock[p]
             f == [s EXCEPT !.retxEvent = "none"]
             t == SendEmptyPacket(f, "SYN")
             e == <<>>
             u == [t EXCEPT !.out = e]
             o == sock["server"]
             send == "Send" \in app["client"]
  <1>1. s \in Socket /\ Local(s) /\ s.out = <<>> /\ e \in Seq(Segment)
    BY SocketsFacts, EndFacts
  <1>2. s.endPoint
    BY ScheduledOpen
  <1>3. s.state = "SYN_SENT" /\ s.rcvNext = 0
    BY <1>1 DEF Local
  <1>4. p = "client"
    BY <1>3 DEF EndsTied, Peers
  <1>5. s.nextTx = 0 /\ ~ s.gotFin
    <2>1. Sound(s, MayClose(app[p]))
      BY SocketsFacts
    <2> QED
      BY <1>2, <1>3, <2>1 DEF Sound, Open, Handshake
  <1>6. Becomes(p, t) /\ app' = app
    BY DEF RetransmitEvent, Retransmit
  <1>7. sock' = [sock EXCEPT !["client"] = u] /\ net' = [net EXCEPT !["server"] = @ \o t.out]
    BY <1>4, <1>6 DEF Becomes, Other
  <1>8. /\ "client" \in Peers /\ "server" \in Peers /\ Other("client") = "server"
    BY DEF Peers, Other
  <1>9. Tied(s, o, Segs(net["client"]), Segs(net["server"]), send) /\ s = sock["client"]
    BY <1>4, <1>8 DEF EndsTied
  <1> HIDE DEF s, o, send
  <1>10. /\ f \in Socket /\ f.nextTx = s.nextTx /\ f.highTx = s.highTx /\ f.una = s.una
         /\ f.size = s.size /\ f.rcvNext = s.rcvNext /\ f.state = s.state
         /\ f.retxEvent = "none" /\ f.out = s.out /\ f.finSeq = s.finSeq
         /\ f.endPoint = s.endPoint /\ f.gotFin = s.gotFin /\ f.closeOnEmpty = s.closeOnEmpty
         /\ f.failed = s.failed /\ f.delAckEvent = s.delAckEvent
    BY <1>1 DEF Socket, RetxKinds
  <1> HIDE DEF f
  <1>11. f.endPoint
    BY <1>2, <1>10
  <1>12. SynSent(f, t, "SYN")
    BY <1>10, <1>11, SendSyn
  <1> HIDE DEF t
  <1>13. /\ t \in Socket /\ t.nextTx = s.nextTx /\ t.highTx = s.highTx /\ t.una = s.una
         /\ t.size = s.size /\ t.rcvNext = s.rcvNext /\ t.finSeq = s.finSeq
         /\ t.gotFin = s.gotFin /\ t.closeOnEmpty = s.closeOnEmpty /\ t.failed = s.failed
    BY <1>10, <1>12 DEF SynSent, Leaves, Sends, Same
  <1>14. \/ ~ t.endPoint /\ t.state = "CLOSED" /\ t.retxEvent = "none"
         \/ t.endPoint = s.endPoint /\ t.state = "SYN_SENT" /\ t.retxEvent = "SYN"
    BY <1>3, <1>10, <1>12 DEF SynSent, Leaves, Quiet, Sends, Same
  <1>15. t.delAckEvent => s.delAckEvent
    BY <1>10, <1>12 DEF SynSent, Leaves, Quiet, Sends
  <1>16. t.out \in Seq(Segment) /\ \A m \in Segs(t.out) : Idle(m)
    <2>1. t.out \in Seq(Segment)
      BY <1>13 DEF Socket
    <2>2. Segs(<<>>) = {}
      BY DEF Segs
    <2>3. Idle(EmptySegment(f, "SYN"))
      BY <1>3, <1>5, <1>10, SynIdle
    <2> QED
      BY <1>1, <1>10, <1>12, <2>1, <2>2, <2>3 DEF SynSent
  <1> HIDE DEF e
  <1>17. Tied(t, o, Segs(net["client"]), Segs(net["server"]), send)
    <2>1. Local(s) /\ NoFinYet(s, send)
      BY <1>9 DEF Tied
    <2>2. Local(t)
      BY <1>3, <1>13, <1>14, <1>15, <2>1 DEF Local, Handshake
    <2>3. NoFinYet(t, send)
      BY <1>14 DEF NoFinYet
    <2>4. MaySend(t, send) => MaySend(s, send)
      BY <1>2, <1>3, <1>13, <1>14 DEF MaySend, Handshake
    <2>5. Unsent(s) => Unsent(t)
      BY <1>13 DEF Unsent
    <2> QED
      BY <1>9, <1>13, <2>2, <2>3, <2>4, <2>5 DEF Tied
  <1>18. /\ Tied(u, o, Segs(net["client"]), Segs(net["server"]), send)
         /\ u.state = t.state /\ u \in Socket
    BY <1>13, <1>17, FlushTied DEF e
  <1>19. u.rcvNext = t.rcvNext /\ u.nextTx = t.nextTx /\ u.gotFin = t.gotFin
    BY <1>1, <1>13 DEF Socket
  <1>20. u.state # "SYN_RCVD" /\ u.rcvNext = 0 /\ u.nextTx = sock["client"].nextTx /\ ~ u.gotFin
    BY <1>3, <1>5, <1>9, <1>13, <1>14, <1>18, <1>19
  <1> HIDE DEF u
  <1>21. net'["client"] = net["client"] /\ net'["server"] = net["server"] \o t.out
    BY <1>7, <1>8 DEF SocketsSound
  <1>22. sock["client"].rcvNext = 0
    BY <1>3, <1>9
  <1> QED
    BY <1>6, <1>7, <1>16, <1>18, <1>20, <1>21, <1>22, SynStep DEF o, send

\* The listener forks: Early, which the SYN it takes makes true, says that no
\* earlier connection to this port got beyond its handshake.
LEMMA ForkTied ==
    ASSUME SocketsSound, EndsTied, DeliverToListener, Head(net["server"]).kind = "SYN"
    PROVE  EndsTied'
  <1> DEFINE seg == Head(net["server"])
             n == SynRetries
             r == seg.seq + 1
             f == [NewSocket EXCEPT !.endPoint = TRUE, !.state = "SYN_RCVD",
                                    !.synCount = n, !.rcvNext = r]
             t == SendEmptyPacket(f, "SYN+ACK")
             e == <<>>
             u == [t EXCEPT !.out = e]
             c == sock["client"]   s == sock["server"]
             C == Segs(net["client"])   S == Segs(net["server"])
             D == Segs(net'["client"])  T == Segs(net'["server"])
             csend == "Send" \in app["client"]   ssend == "Send" \in app["server"]
  <1>1. /\ sock' = [sock EXCEPT !["server"] = u]
        /\ net' = [net EXCEPT !["server"] = Tail(@), !["client"] = @ \o t.out]
        /\ app' = app /\ net["server"] # <<>>
    BY DEF DeliverToListener
  <1>2. /\ "server" \in Peers /\ "client" \in Peers /\ n \in Nat /\ n # 0 /\ e \in Seq(Segment)
        /\ Other("client") = "server" /\ Other("server") = "client"
        /\ \A p \in Peers : p = "client" \/ p = "server"
    BY ConnectionAssumption DEF Peers, Other
  <1>3. /\ net["server"] \in Seq(Segment) /\ net["client"] \in Seq(Segment)
        /\ c \in Socket /\ s \in Socket
    BY <1>2 DEF SocketsSound
  <1>4. seg \in S /\ T \in SUBSET S /\ InOrder(net'["server"])
    <2>1. net'["server"] = Tail(net["server"])
      BY <1>1, <1>2 DEF SocketsSound
    <2>2. InOrder(net["server"])
      BY DEF EndsTied
    <2> QED
      BY <1>1, <1>3, <2>1, <2>2, TailElements
  <1>5. Tied(c, s, C, S, csend) /\ Tied(s, c, S, C, ssend) /\ Early(c, s, C, S)
        /\ c.state # "SYN_RCVD"
    BY <1>2 DEF EndsTied
  <1>6. r = 1
    <2>1. SegOK(seg) /\ seg.kind = "SYN"
      BY <1>4, <1>5 DEF Tied
    <2> HIDE DEF seg
    <2> QED
      BY <2>1 DEF SegOK
  <1>7. /\ c.rcvNext <= 1 /\ ~ c.gotFin /\ s.rcvNext <= 1 /\ \A m \in C : ~ Carries(m)
    BY <1>4, <1>5 DEF Early
  <1>8. /\ NewSocket.nextTx = 0 /\ NewSocket.highTx = 0 /\ NewSocket.una = 0
        /\ NewSocket.size = 0 /\ NewSocket.retxEvent = "none" /\ NewSocket.out = <<>>
        /\ ~ NewSocket.gotFin
        /\ ~ NewSocket.closeOnEmpty /\ ~ NewSocket.failed /\ ~ NewSocket.delAckEvent
    BY DEF NewSocket
  <1> HIDE DEF n, r, seg, e, c, s, C, S, csend, ssend
  <1>9. /\ f \in Socket /\ f.endPoint /\ f.synCount # 0 /\ f.nextTx = 0 /\ f.highTx = 0
        /\ f.una = 0 /\ f.size = 0 /\ f.rcvNext = 1 /\ f.state = "SYN_RCVD"
        /\ f.retxEvent = "none" /\ f.out = <<>>
    BY <1>2, <1>6, <1>8, NewSocketSound DEF Socket, States
  <1>10. ~ f.gotFin /\ ~ f.closeOnEmpty /\ ~ f.failed /\ ~ f.delAckEvent
    BY <1>8, NewSocketSound DEF Socket
  <1> HIDE DEF f
  <1>11. SynSent(f, t, "SYN+ACK") /\ t.endPoint
    BY <1>9, SendSyn
  <1> HIDE DEF t
  <1>12. /\ t \in Socket /\ Sends(f, t) /\ t.retxEvent = "SYN+ACK"
         /\ Segs(t.out) = Segs(f.out) \cup {EmptySegment(f, "SYN+ACK")}
    BY <1>9, <1>11 DEF SynSent, Leaves
  <1>13. /\ t.nextTx = 0 /\ t.highTx = 0 /\ t.una = 0 /\ t.size = 0 /\ t.rcvNext = 1
         /\ t.state = "SYN_RCVD" /\ t.out \in Seq(Segment)
    BY <1>9, <1>12 DEF Sends, Same, Socket
  <1>14. ~ t.gotFin /\ ~ t.closeOnEmpty /\ ~ t.failed /\ ~ t.delAckEvent
    BY <1>10, <1>12 DEF Sends, Same
  <1>15. ASSUME NEW m \in Segs(t.out)
         PROVE  SegOK(m) /\ m.ack = 1 /\ ~ Carries(m)
    <2>1. Segs(<<>>) = {}
      BY DEF Segs
    <2>2. m = EmptySegment(f, "SYN+ACK")
      BY <1>9, <1>12, <2>1
    <2>3. m.kind = "SYN+ACK" /\ m.len = 0 /\ m.ack = 1 /\ m.seq = 0
      BY <1>9, <2>2, EmptySegmentType DEF Kinds
    <2> QED
      BY <2>3 DEF SegOK, Carries
  <1>16. net'["client"] = net["client"] \o t.out
    BY <1>1, <1>2 DEF SocketsSound
  <1>17. D \in SUBSET (C \cup Segs(t.out))
    BY <1>3, <1>13, <1>16, SegsConcat DEF C
  <1> HIDE DEF D, T
  <1>18. \A m \in D : ~ Carries(m)
    BY <1>7, <1>15, <1>17
  <1>19. /\ c.una \in Nat /\ c.rcvNext \in Nat /\ c.nextTx \in Nat /\ s.rcvNext \in Nat
    BY <1>3, SocketNumbers
  <1>20. Tied(c, t, D, T, csend)
    <2>1. Local(c) /\ NoFinYet(c, csend) /\ c.una <= s.rcvNext
      BY <1>5 DEF Tied
    <2>2. c.una <= t.rcvNext /\ c.rcvNext <= t.nextTx + 1
      BY <1>7, <1>13, <1>19, <2>1
    <2>3. ASSUME NEW m \in D
          PROVE  SegOK(m) /\ (m.kind \in Acking => m.ack <= t.rcvNext)
      <3>1. CASE m \in C
        <4>1. SegOK(m) /\ (m.kind \in Acking => m.ack <= s.rcvNext)
          BY <1>5, <3>1 DEF Tied
        <4>2. m \in Segment
          BY <1>2, <3>1, SocketsFacts DEF C
        <4>3. m.ack \in Nat
          BY <4>2, SegmentNumbers
        <4> QED
          BY <1>7, <1>13, <1>19, <4>1, <4>3
      <3>2. CASE m \in Segs(t.out)
        BY <1>13, <1>15, <3>2
      <3> QED
        BY <1>17, <3>1, <3>2
    <2>4. ASSUME MaySend(c, csend)
          PROVE  Unsent(c) /\ t.rcvNext <= 1 /\ \A m \in T : ~ Carries(m)
      BY <1>4, <1>5, <1>13, <2>4 DEF Tied
    <2> QED
      BY <1>7, <1>18, <2>1, <2>2, <2>3, <2>4 DEF Tied
  <1>21. Tied(t, c, T, D, ssend)
    <2>1. Local(t) /\ NoFinYet(t, ssend) /\ Unsent(t)
      BY <1>12, <1>13, <1>14 DEF Local, NoFinYet, Unsent, Handshake
    <2>2. t.una <= c.rcvNext /\ t.rcvNext <= c.nextTx + 1
      BY <1>13, <1>19
    <2>3. \A m \in T : /\ SegOK(m)
                       /\ m.kind \in Acking => m.ack <= c.rcvNext
                       /\ Carries(m) => End(m) <= c.nextTx + 1
      BY <1>4, <1>5 DEF Tied
    <2> QED
      BY <1>7, <1>14, <1>18, <2>1, <2>2, <2>3 DEF Tied
  <1>22. Early(c, t, D, T)
    BY <1>7, <1>13, <1>18 DEF Early
  <1>23. Tied(c, u, D, T, csend) /\ Tied(u, c, T, D, ssend) /\ u.state = "SYN_RCVD"
    BY <1>12, <1>13, <1>20, <1>21, FlushTied DEF e
  <1>24. Early(c, u, D, T)
    BY <1>12, <1>22, FlushTied DEF e
  <1> HIDE DEF u
  <1>25. sock'["client"] = c /\ sock'["server"] = u
    BY <1>1, <1>2 DEF SocketsSound, c
  <1>26. \A p \in Peers : Tied(sock'[p], sock'[Other(p)], Segs(net'[p]), Segs(net'[Other(p)]),
                               "Send" \in app'[p])
    BY <1>1, <1>2, <1>23, <1>25 DEF D, T, csend, ssend
  <1>27. Early(sock'["client"], sock'["server"], Segs(net'["client"]), Segs(net'["server"]))
    BY <1>24, <1>25 DEF D, T
  <1>28. sock'["client"].state # "SYN_RCVD" /\ sock'["server"].state # "SYN_SENT"
    BY <1>5, <1>23, <1>25
  <1> QED
    BY <1>4, <1>26, <1>27, <1>28 DEF EndsTied

LEMMA ListenerNet ==
    ASSUME SocketsSound, EndsTied, DeliverToListener, Head(net["server"]).kind # "SYN"
    PROVE  NetOnly
  <1> DEFINE s == sock["server"]
             e == <<>>
             u == [s EXCEPT !.out = e]
  <1>1. /\ sock' = [sock EXCEPT !["server"] = u]
        /\ net' = [net EXCEPT !["server"] = Tail(@), !["client"] = @ \o s.out]
        /\ app' = app /\ net["server"] # <<>>
    BY DEF DeliverToListener
  <1>2. "server" \in Peers /\ "client" \in Peers /\ \A p \in Peers : p = "client" \/ p = "server"
    BY DEF Peers
  <1>3. s \in Socket /\ s.out = e /\ net["server"] \in Seq(Segment) /\ net["client"] \in Seq(Segment)
    BY <1>2 DEF SocketsSound
  <1>4. net["client"] \o e = net["client"]
    BY <1>3
  <1>5. u = s
    <2> HIDE DEF s, e
    <2> QED
      BY <1>3 DEF Socket
  <1>6. sock' = sock
    BY <1>1, <1>2, <1>5 DEF SocketsSound
  <1>7. net'["client"] = net["client"] /\ net'["server"] = Tail(net["server"])
    BY <1>1, <1>2, <1>3, <1>4 DEF SocketsSound
  <1>8. /\ Segs(Tail(net["server"])) \in SUBSET Segs(net["server"])
        /\ InOrder(Tail(net["server"]))
    BY <1>1, <1>3, TailElements DEF EndsTied
  <1>9. \A p \in Peers : \A m \in Segs(net'[p]) : m \in Segs(net[p])
    BY <1>2, <1>7, <1>8
  <1>10. InOrder(net'["server"])
    BY <1>7, <1>8
  <1> QED
    BY <1>1, <1>6, <1>9, <1>10 DEF NetOnly

LEMMA InitTied == Init => EndsTied
  <1> SUFFICES ASSUME Init PROVE EndsTied
    OBVIOUS
  <1>1. "server" \in Peers /\ "client" \in Peers /\ \A p \in Peers : Other(p) \in Peers
    BY OtherPeer DEF Peers
  <1>2. \A p \in Peers : sock[p] = NewSocket /\ net[p] = <<>>
    BY DEF Init
  <1>3. Segs(<<>>) = {}
    BY DEF Segs
  <1>4. \A p \in Peers : Segs(net[p]) = {}
    BY <1>2, <1>3
  <1>5. /\ NewSocket.nextTx = 0 /\ NewSocket.highTx = 0 /\ NewSocket.una = 0
        /\ NewSocket.size = 0 /\ NewSocket.rcvNext = 0 /\ NewSocket.retxEvent = "none"
        /\ NewSocket.state = "CLOSED"
        /\ ~ NewSocket.gotFin /\ ~ NewSocket.failed /\ ~ NewSocket.endPoint
    BY DEF NewSocket
  <1>6. Local(NewSocket)
    BY <1>5 DEF Local, Handshake
  <1>7. ASSUME NEW send PROVE NoFinYet(NewSocket, send) /\ ~ MaySend(NewSocket, send)
    BY <1>5 DEF NoFinYet, MaySend
  <1>8. ASSUME NEW send PROVE Tied(NewSocket, NewSocket, {}, {}, send)
    BY <1>5, <1>6, <1>7 DEF Tied
  <1>9. \A p \in Peers : Tied(sock[p], sock[Other(p)], Segs(net[p]), Segs(net[Other(p)]),
                              "Send" \in app[p])
    BY <1>1, <1>2, <1>4, <1>8
  <1>10. Early(sock["client"], sock["server"], Segs(net["client"]), Segs(net["server"]))
    <2>1. Early(NewSocket, NewSocket, {}, {})
      BY <1>5 DEF Early
    <2> QED
      BY <1>1, <1>2, <1>4, <2>1
  <1>11. InOrder(net["server"])
    BY <1>1, <1>2 DEF InOrder
  <1>12. sock["client"].state # "SYN_RCVD" /\ sock["server"].state # "SYN_SENT"
    BY <1>1, <1>2, <1>5
  <1> QED
    BY <1>9, <1>10, <1>11, <1>12 DEF EndsTied

LEMMA NextTied == SocketsSound /\ EndsTied /\ [Next]_vars => EndsTied'
  <1> SUFFICES ASSUME SocketsSound, EndsTied, [Next]_vars PROVE EndsTied'
    OBVIOUS
  <1>1. CASE Connect
    BY <1>1, ConnectTied
  <1>2. ASSUME UNCHANGED <<sock, net, app>> PROVE EndsTied'
    BY <1>2 DEF EndsTied
  <1>3. CASE CloseListener
    BY <1>2, <1>3 DEF CloseListener
  <1>4. ASSUME NEW p \in Peers, Send(p) \/ AppClose(p) \/ AppShutdownSend(p) \/ Lose(p)
        PROVE  EndsTied'
    BY <1>4, SendTied, AppTied, LoseNet, NetTied
  <1>5. ASSUME NEW p \in Peers, Events(p) PROVE EndsTied'
    <2>1. CASE DeliverToListener
      BY <2>1, ForkTied, ListenerNet, NetTied
    <2>2. CASE Deliver(p) \/ Refuse(p)
      BY <2>2, DeliverTied, RefuseNet, NetTied
    <2>3. CASE RetransmitEvent(p)
      BY <2>3, TimersTied, SynAgainTied
    <2>4. CASE SendPendingDataEvent(p) \/ LastAckEvent(p) \/ DelAckTimeout(p) \/ TimeWaitEnds(p)
      BY <2>4, TimersTied
    <2> QED
      BY <1>5, <2>1, <2>2, <2>3, <2>4 DEF Events
  <1>6. CASE UNCHANGED vars
    BY <1>2, <1>6 DEF vars
  <1> QED
    BY <1>1, <1>3, <1>4, <1>5, <1>6 DEF Next, Environment

LEMMA AlwaysTied == Spec => [](SocketsSound /\ EndsTied)
  <1>1. Init => SocketsSound /\ EndsTied
    BY InitSound, InitTied
  <1>2. (SocketsSound /\ EndsTied) /\ [Next]_vars => (SocketsSound /\ EndsTied)'
    BY NextSound, NextTied
  <1> QED
    BY <1>1, <1>2, PTL DEF Spec

\* The assertion of DoPeerClose never fails: a FIN that is in sequence finds
\* the socket in a state that has not seen it.  The proof rests on Local: the
\* states that have seen the FIN are left only forward, and the data that
\* could free a second one is at most the one segment the peer wrote.
THEOREM FinTakenOnce == Spec => []PeerClosesOnce
  <1>1. SocketsSound /\ EndsTied => PeerClosesOnce
    BY DEF EndsTied, Tied, Local, PeerClosesOnce
  <1> QED
    BY <1>1, AlwaysTied, PTL

\* Neither end takes more for acknowledged than the other has received, nor
\* for received than the other has sent.  The proof rests on Tied, which says
\* the same of every segment on its way, and on Early and InOrder, by which a
\* SYN that arrives late forks no second connection under the first.
THEOREM NumbersAgree == Spec => []EndsAgree
  <1>1. SocketsSound /\ EndsTied => EndsAgree
    <2> SUFFICES ASSUME SocketsSound, EndsTied, NEW p \in Peers
                 PROVE  /\ sock[p].una <= sock[Other(p)].rcvNext
                        /\ sock[Other(p)].rcvNext <= sock[p].nextTx + 1
      BY DEF EndsAgree
    <2>1. Other(p) \in Peers /\ Other(Other(p)) = p
      BY DEF Peers, Other
    <2> QED
      BY <2>1 DEF EndsTied, Tied
  <1> QED
    BY <1>1, AlwaysTied, PTL

-----------------------------------------------------------------------------
(* Closing: where the FINs are.                                             *)

Fin(m) == m.kind = "FIN+ACK"

\* The sequence number after the data of a segment: that of its FIN.
Place(m) == m.seq + m.len

Late == {"CLOSE_WAIT", "LAST_ACK", "CLOSING", "TIME_WAIT"}

\* States in which no FIN was sent.  A socket that comes to CLOSE_WAIT from
\* FIN_WAIT_1 or FIN_WAIT_2 does so by data.
Before(s) ==
    \/ s.state \in Handshake \cup {"ESTABLISHED"}
    \/ s.state = "CLOSE_WAIT" /\ ~ s.rxData

\* What was written has been sent.
Settled(s) == s.state \notin Handshake /\ (s.size > 0 => s.highTx > s.una)

\* The receiving side of a socket: the peer's FIN is taken in the states that
\* say so and in no other, and behind the data before it.
Receives(s) ==
    /\ s.state \in Handshake \cup {"ESTABLISHED", "FIN_WAIT_1", "FIN_WAIT_2"} => ~ Finished(s)
    /\ s.state \in Late => Finished(s)
    /\ Finished(s) /\ s.finSeq = 2 => s.rxData
    /\ ~ Finished(s) /\ s.rcvNext >= 2 => s.rxData
    /\ s.gotFin => s.finSeq >= 1

\* The sending side: no timer sends a FIN before there was one, and a FIN that
\* was acknowledged is sent again only by a socket that has heard the peer's.
Transmits(s) ==
    /\ Before(s) => s.retxEvent # "FIN+ACK"
    /\ s.endPoint /\ s.una > s.highTx /\ ~ s.gotFin =>
           s.state = "FIN_WAIT_2" /\ s.retxEvent # "FIN+ACK"
    /\ s.retxEvent = "FIN+ACK" => Settled(s)
    /\ s.state \in {"FIN_WAIT_1", "FIN_WAIT_2", "CLOSING", "LAST_ACK"} => Settled(s)
    /\ s.state \notin Handshake \cup {"CLOSED"} => s.una >= 1 /\ s.highTx >= 1

\* A segment that t, which was s, may send.
Utters(s, t, m) ==
    /\ m.len > 0 => Place(m) <= t.highTx
    /\ Fin(m) => /\ ~ Before(t) /\ Settled(t) /\ m.seq >= 1 /\ t.highTx >= 1
                 /\ Place(m) = t.highTx \/ (t.una > t.highTx /\ s.gotFin)

\* From s to t, having heard seg, the socket sends what it may.
Speaks(s, t, seg) ==
    /\ Before(t) => Before(s)
    /\ t.highTx >= s.highTx
    /\ Settled(s) => /\ Settled(t) /\ t.highTx = s.highTx
                     /\ t.nextTx = s.nextTx \/ (seg.kind \in Acking /\ t.nextTx <= seg.ack)
    /\ t.state = "FIN_WAIT_2" =>
           \/ s.state = "FIN_WAIT_2"
           \/ seg.kind \in Acking /\ seg.ack = s.highTx + 1 /\ s.highTx >= 1
    /\ \A m \in Segs(t.out) : m \in Segs(s.out) \/ Utters(s, t, m)

\* From s to t, the socket takes data and FIN of seg.
Listens(s, t, seg) ==
    /\ t.gotFin => s.gotFin \/ Fin(seg)
    /\ ~ Finished(t) =>
           /\ ~ Finished(s)
           /\ t.rcvNext = s.rcvNext \/ t.rcvNext <= 1 \/ (seg.len > 0 /\ t.rcvNext = Place(seg))
           /\ t.gotFin => \/ s.gotFin /\ t.finSeq = s.finSeq
                          \/ Fin(seg) /\ t.finSeq = Place(seg)
    /\ t.state = "CLOSE_WAIT" =>
           \/ s.state = "CLOSE_WAIT"
           \/ ~ Finished(s) /\ Fin(seg) /\ t.rcvNext = Place(seg) + 1
           \/ ~ Finished(s) /\ s.gotFin /\ t.rcvNext = s.finSeq + 1
    /\ Finished(t) /\ ~ t.rxData =>
           /\ ~ s.rxData
           /\ Finished(s) \/ (Fin(seg) /\ Place(seg) <= 1)

Ends(s, t, seg) == Receives(t) /\ Transmits(t) /\ Speaks(s, t, seg) /\ Listens(s, t, seg)

\* Between s and o, of whom I travels to s: as long as s has not taken the FIN
\* of o, it is where the data of o ends; and o has sent it.
Sealed(o, send) == ~ Before(o) /\ ~ MaySend(o, send) /\ Settled(o)

Closes(s, o, I, send) ==
    /\ s.gotFin \/ (\E m \in I : Fin(m)) => Sealed(o, send)
    /\ \A m \in I : (Fin(m) => m.seq >= 1) /\ (m.len > 0 => Place(m) <= o.highTx)
    /\ ~ Finished(s) =>
           /\ s.rcvNext <= 1 \/ s.rcvNext <= o.highTx
           /\ s.gotFin => s.finSeq = o.highTx
           /\ \A m \in I : Fin(m) => Place(m) = o.highTx
    /\ s.state = "CLOSE_WAIT" => s.rcvNext >= o.nextTx
    /\ Finished(s) /\ ~ s.rxData => o.highTx <= 1
    /\ s.state = "CLOSE_WAIT" /\ ~ s.rxData => \A m \in I : Fin(m) => Place(m) <= 1
    /\ o.state = "FIN_WAIT_2" => Finished(s)

\* What a handler may rely on.
Apt(s, seg) ==
    /\ SegOK(seg) /\ (Fin(seg) => seg.seq >= 1)
    /\ s.state = "CLOSE_WAIT" /\ Fin(seg) =>
           seg.seq <= s.rcvNext /\ (~ s.rxData => Place(seg) <= 1)
    /\ seg.len > 0 /\ s.gotFin /\ ~ Finished(s) => Place(seg) <= s.finSeq
    /\ seg.kind \in Acking => seg.ack <= s.nextTx + 1

LEMMA PlaceNat ==
    ASSUME NEW m \in Segment
    PROVE  /\ Place(m) \in Nat /\ m.seq \in Nat /\ m.len \in {0, 1} /\ m.seq <= Place(m)
           /\ Fin(m) => End(m) = Place(m) + 1
           /\ Fin(m) => Carries(m)
  BY DEF Place, Segment, Fin, End, Carries

LEMMA SilenceApt ==
    ASSUME NEW s
    PROVE  Apt(s, Silence) /\ ~ Fin(Silence) /\ Silence.len = 0
  <1>1. ~ Fin(Silence) /\ Silence.len = 0
    BY DEF Silence, Fin
  <1> QED
    BY <1>1, SilenceSegment DEF Apt

LEMMA SegmentApt ==
    ASSUME NEW s \in Socket, NEW o \in Socket, NEW I \in SUBSET Segment, NEW O, NEW send, NEW to,
           Tied(s, o, I, O, to), Tied(o, s, O, I, send), Closes(s, o, I, send), NEW seg \in I
    PROVE  Apt(s, seg)
  <1>1. SegOK(seg) /\ (Fin(seg) => seg.seq >= 1)
    BY DEF Tied, Closes
  <1>2. ASSUME s.state = "CLOSE_WAIT", Fin(seg)
        PROVE  seg.seq <= s.rcvNext /\ (~ s.rxData => Place(seg) <= 1)
    <2>1. End(seg) <= o.nextTx + 1
      BY <1>2, PlaceNat DEF Tied
    <2>2. s.rcvNext >= o.nextTx /\ (~ s.rxData => Place(seg) <= 1)
      BY <1>2 DEF Closes
    <2> QED
      BY <1>2, <2>1, <2>2, PlaceNat, SocketNumbers
  <1>3. seg.len > 0 /\ s.gotFin /\ ~ Finished(s) => Place(seg) <= s.finSeq
    BY DEF Closes
  <1>4. seg.kind \in Acking => seg.ack <= s.nextTx + 1
    BY SocketNumbers, SegmentNumbers DEF Tied
  <1> QED
    BY <1>1, <1>2, <1>3, <1>4 DEF Apt

\* As long as s has not taken the FIN of o, o has nothing acknowledged behind
\* its data.
LEMMA Unacked ==
    ASSUME NEW s \in Socket, NEW o \in Socket, NEW I, NEW O, NEW to, NEW send,
           Tied(o, s, O, I, to), Closes(s, o, I, send), ~ Finished(s), o.highTx >= 1
    PROVE  o.una <= o.highTx /\ o.nextTx = o.highTx
  <1>1. o.una <= s.rcvNext /\ (s.rcvNext <= 1 \/ s.rcvNext <= o.highTx)
    BY DEF Tied, Closes
  <1>2. o.nextTx >= o.una /\ o.nextTx >= o.highTx /\ o.nextTx \in {o.una, o.highTx}
    BY DEF Tied, Local
  <1> QED
    BY <1>1, <1>2, SocketNumbers

\* The receiving end moves.
LEMMA ClosesSelf ==
    ASSUME NEW s \in Socket, NEW o \in Socket, NEW t \in Socket,
           NEW I \in SUBSET Segment, NEW O \in SUBSET Segment, NEW to, NEW send,
           Tied(o, s, O, I, to), Closes(s, o, I, send), Receives(s), Receives(t),
           NEW seg \in I \cup {Silence}, Listens(s, t, seg), t.rcvNext >= s.rcvNext,
           NEW J \in SUBSET I
    PROVE  Closes(t, o, J, send)
  <1>0. /\ s.rcvNext \in Nat /\ t.rcvNext \in Nat /\ s.finSeq \in Nat /\ t.finSeq \in Nat
        /\ o.highTx \in Nat /\ o.nextTx \in Nat /\ o.una \in Nat
    BY SocketNumbers
  <1>1. seg \in Segment /\ Place(seg) \in Nat /\ seg.seq <= Place(seg) /\ seg.seq \in Nat
    BY SilenceSegment, PlaceNat
  <1>2. Fin(seg) \/ seg.len > 0 => seg \in I
    BY SilenceApt
  <1>3. t.gotFin \/ (\E m \in J : Fin(m)) => Sealed(o, send)
    BY <1>2 DEF Closes, Listens
  <1>4. \A m \in J : (Fin(m) => m.seq >= 1) /\ (m.len > 0 => Place(m) <= o.highTx)
    BY DEF Closes
  <1>5. ASSUME ~ Finished(t)
        PROVE  /\ t.rcvNext <= 1 \/ t.rcvNext <= o.highTx
               /\ t.gotFin => t.finSeq = o.highTx
               /\ \A m \in J : Fin(m) => Place(m) = o.highTx
    <2>1. ~ Finished(s)
      BY <1>5 DEF Listens
    <2>2. /\ s.rcvNext <= 1 \/ s.rcvNext <= o.highTx
          /\ s.gotFin => s.finSeq = o.highTx
          /\ \A m \in I : Fin(m) => Place(m) = o.highTx
      BY <2>1 DEF Closes
    <2>3. seg.len > 0 => Place(seg) <= o.highTx
      BY <1>2 DEF Closes
    <2>4. t.rcvNext = s.rcvNext \/ t.rcvNext <= 1 \/ (seg.len > 0 /\ t.rcvNext = Place(seg))
      BY <1>5 DEF Listens
    <2>5. t.rcvNext <= 1 \/ t.rcvNext <= o.highTx
      BY <2>2, <2>3, <2>4
    <2>6. t.gotFin => t.finSeq = o.highTx
      BY <1>2, <1>5, <2>2 DEF Listens
    <2> QED
      BY <2>2, <2>5, <2>6
  <1>6. ASSUME t.state = "CLOSE_WAIT" PROVE t.rcvNext >= o.nextTx
    <2>1. CASE s.state = "CLOSE_WAIT"
      BY <1>0, <2>1 DEF Closes
    <2>2. CASE ~ Finished(s) /\ Fin(seg) /\ t.rcvNext = Place(seg) + 1
      <3>1. Place(seg) = o.highTx /\ seg.seq >= 1
        BY <1>2, <2>2 DEF Closes
      <3>2. o.nextTx = o.highTx
        BY <1>0, <1>1, <2>2, <3>1, Unacked
      <3> QED
        BY <1>0, <2>2, <3>1, <3>2
    <2>3. CASE ~ Finished(s) /\ s.gotFin /\ t.rcvNext = s.finSeq + 1
      <3>1. s.finSeq = o.highTx /\ s.finSeq >= 1
        BY <2>3 DEF Closes, Receives
      <3>2. o.nextTx = o.highTx
        BY <1>0, <2>3, <3>1, Unacked
      <3> QED
        BY <1>0, <2>3, <3>1, <3>2
    <2> QED
      BY <1>6, <2>1, <2>2, <2>3 DEF Listens
  <1>7. ASSUME Finished(t), ~ t.rxData PROVE o.highTx <= 1
    <2>1. ~ s.rxData /\ (Finished(s) \/ (Fin(seg) /\ Place(seg) <= 1))
      BY <1>7 DEF Listens
    <2>2. CASE Finished(s)
      BY <2>1, <2>2 DEF Closes
    <2>3. CASE ~ Finished(s)
      BY <1>2, <2>1, <2>3 DEF Closes
    <2> QED
      BY <2>2, <2>3
  <1>8. ASSUME t.state = "CLOSE_WAIT", ~ t.rxData
        PROVE  \A m \in J : Fin(m) => Place(m) <= 1
    <2>1. Finished(t)
      BY <1>8 DEF Receives, Late
    <2>2. ~ s.rxData /\ o.highTx <= 1
      BY <1>7, <1>8, <2>1 DEF Listens
    <2>3. CASE s.state = "CLOSE_WAIT"
      BY <2>2, <2>3 DEF Closes
    <2>4. CASE ~ Finished(s)
      BY <2>2, <2>4 DEF Closes
    <2> QED
      BY <1>8, <2>3, <2>4 DEF Listens
  <1>9. o.state = "FIN_WAIT_2" => Finished(t)
    BY DEF Closes, Listens
  <1> QED
    BY <1>3, <1>4, <1>5, <1>6, <1>7, <1>8, <1>9 DEF Closes

\* The end that closes moves: s receives from o, which becomes t.
LEMMA ClosesOther ==
    ASSUME NEW s \in Socket, NEW o \in Socket, NEW t \in Socket, NEW I \in SUBSET Segment,
           NEW send \in BOOLEAN, NEW still \in BOOLEAN, still => send, NEW seg \in Segment,
           Closes(s, o, I, send), o.gotFin => ~ Before(s), Receives(s),
           seg.kind \in Acking => seg.ack <= s.rcvNext,
           Speaks(o, t, seg), Holds(o, t, seg, still), t.una <= s.rcvNext,
           NEW J, \A m \in J : m \in I \/ Utters(o, t, m),
           MaySend(t, still) => \A m \in J : ~ Carries(m)
    PROVE  Closes(s, t, J, still)
  <1>0. /\ s.rcvNext \in Nat /\ s.finSeq \in Nat
        /\ o.highTx \in Nat /\ o.nextTx \in Nat /\ o.una \in Nat
        /\ t.highTx \in Nat /\ t.nextTx \in Nat /\ t.una \in Nat /\ seg.ack \in Nat
    BY SocketNumbers, SegmentNumbers
  <1>1. seg.kind \in Acking => seg.ack <= s.rcvNext
    OBVIOUS
  <1>2. \A m \in J : m \in I \/ Utters(o, t, m)
    OBVIOUS
  <1>3. Sealed(o, send) => Sealed(t, still) /\ t.highTx = o.highTx
    BY DEF Sealed, Speaks, Holds, MaySend
  <1>4. ASSUME s.gotFin \/ (\E m \in J : Fin(m)) PROVE Sealed(t, still)
    <2>1. CASE s.gotFin \/ (\E m \in I : Fin(m))
      BY <1>3, <2>1 DEF Closes
    <2>2. ASSUME NEW m \in J, Fin(m), Utters(o, t, m) PROVE Sealed(t, still)
      <3>1. ~ MaySend(t, still)
        BY <2>2 DEF Fin, Carries
      <3> QED
        BY <2>2, <3>1 DEF Utters, Sealed
    <2> QED
      BY <1>2, <1>4, <2>1, <2>2
  <1>5. ASSUME NEW m \in J
        PROVE  (Fin(m) => m.seq >= 1) /\ (m.len > 0 => Place(m) <= t.highTx)
    <2>1. CASE m \in I
      <3>1. m \in Segment /\ Place(m) \in Nat
        BY <2>1, PlaceNat
      <3> QED
        BY <1>0, <2>1, <3>1 DEF Closes, Speaks
    <2> QED
      BY <1>2, <2>1 DEF Utters
  <1>6. ASSUME ~ Finished(s)
        PROVE  /\ s.rcvNext <= 1 \/ s.rcvNext <= t.highTx
               /\ s.gotFin => s.finSeq = t.highTx
               /\ \A m \in J : Fin(m) => Place(m) = t.highTx
    <2>1. s.rcvNext <= 1 \/ s.rcvNext <= t.highTx
      BY <1>0, <1>6 DEF Closes, Speaks
    <2>2. s.gotFin => s.finSeq = t.highTx
      BY <1>3, <1>6 DEF Closes
    <2>3. ASSUME NEW m \in J, Fin(m) PROVE Place(m) = t.highTx
      <3>1. CASE m \in I
        BY <1>3, <1>6, <2>3, <3>1 DEF Closes
      <3>2. CASE Utters(o, t, m)
        <4>1. CASE t.una > t.highTx
          <5>1. t.highTx < 1
            BY <1>0, <2>1, <4>1
          <5> QED
            BY <1>0, <2>3, <3>2, <5>1 DEF Utters
        <4> QED
          BY <2>3, <3>2, <4>1 DEF Utters
      <3> QED
        BY <1>2, <3>1, <3>2
    <2> QED
      BY <2>1, <2>2, <2>3
  <1>7. Finished(s) => Sealed(o, send) /\ t.highTx = o.highTx
    BY <1>3 DEF Closes, Finished
  <1>8. ASSUME s.state = "CLOSE_WAIT" PROVE s.rcvNext >= t.nextTx
    <2>1. Settled(o)
      BY <1>7, <1>8 DEF Receives, Late, Sealed
    <2>2. t.nextTx = o.nextTx \/ t.nextTx <= s.rcvNext
      BY <1>0, <1>1, <2>1 DEF Speaks
    <2> QED
      BY <1>0, <1>8, <2>2 DEF Closes
  <1>9. Finished(s) /\ ~ s.rxData => t.highTx <= 1
    BY <1>7 DEF Closes
  <1>10. ASSUME s.state = "CLOSE_WAIT", ~ s.rxData, NEW m \in J, Fin(m)
         PROVE  Place(m) <= 1
    <2>1. Finished(s) /\ t.highTx <= 1
      BY <1>9, <1>10 DEF Receives, Late
    <2>2. CASE m \in I
      BY <1>10, <2>2 DEF Closes
    <2>3. CASE Utters(o, t, m)
      <3>1. ~ o.gotFin
        BY <1>10 DEF Before
      <3> QED
        BY <1>10, <2>1, <2>3, <3>1 DEF Utters
    <2> QED
      BY <1>2, <2>2, <2>3
  <1>11. ASSUME t.state = "FIN_WAIT_2" PROVE Finished(s)
    <2>1. CASE o.state = "FIN_WAIT_2"
      BY <2>1 DEF Closes
    <2>2. CASE seg.kind \in Acking /\ seg.ack = o.highTx + 1 /\ o.highTx >= 1
      BY <1>0, <1>1, <2>2 DEF Closes
    <2> QED
      BY <1>11, <2>1, <2>2 DEF Speaks
  <1> QED
    BY <1>4, <1>5, <1>6, <1>8, <1>9, <1>10, <1>11 DEF Closes

-----------------------------------------------------------------------------
(* The parts of the handlers.                                               *)

\* t is s in all that closing is about.
Rests(s, t) ==
    /\ t.nextTx = s.nextTx /\ t.highTx = s.highTx /\ t.una = s.una /\ t.size = s.size
    /\ t.rcvNext = s.rcvNext /\ t.rxData = s.rxData
    /\ t.gotFin = s.gotFin /\ t.finSeq = s.finSeq

LEMMA RestsEnds ==
    ASSUME NEW s \in Socket, NEW t \in Socket, NEW seg, Receives(s), Transmits(s), Rests(s, t),
           t.state = s.state, t.endPoint => s.endPoint,
           t.retxEvent = "FIN+ACK" => s.retxEvent = "FIN+ACK", Silent(s, t)
    PROVE  Ends(s, t, seg)
  <1>1. /\ Finished(t) = Finished(s) /\ Before(t) = Before(s) /\ Settled(t) = Settled(s)
    BY DEF Rests, Finished, Before, Settled
  <1>2. Receives(t)
    BY <1>1 DEF Receives, Rests
  <1>3. Transmits(t)
    BY <1>1 DEF Transmits, Rests
  <1>4. \A m : ~ Carries(m) => Utters(s, t, m)
    BY DEF Carries, Utters, Fin
  <1>5. t.highTx >= s.highTx
    BY SocketNumbers DEF Rests
  <1>6. Speaks(s, t, seg)
    BY <1>1, <1>4, <1>5 DEF Speaks, Rests, Silent
  <1>7. Listens(s, t, seg)
    BY <1>1 DEF Listens, Rests
  <1> QED
    BY <1>2, <1>3, <1>6, <1>7 DEF Ends

LEMMA LeavesEnds ==
    ASSUME NEW s \in Socket, NEW t, NEW seg, Receives(s), Transmits(s), Leaves(s, t),
           t.state \in {s.state, "CLOSED"}, Silent(s, t)
    PROVE  Ends(s, t, seg)
  <1>0. t \in Socket /\ ~ t.endPoint /\ Rests(s, t) /\ t.retxEvent = "none"
    BY DEF Leaves, Rests, Quiet
  <1>1. CASE t.state = s.state
    BY <1>0, <1>1, RestsEnds
  <1>2. CASE t.state = "CLOSED"
    <2>1. Finished(t) = Finished(s) /\ ~ Before(t) /\ (Settled(s) => Settled(t))
      BY <1>0, <1>2 DEF Rests, Finished, Before, Settled, Handshake
    <2>2. Receives(t)
      BY <1>0, <1>2, <2>1 DEF Receives, Rests, Handshake, Late
    <2>3. Transmits(t)
      BY <1>0, <1>2, <2>1 DEF Transmits, Rests
    <2>4. \A m : ~ Carries(m) => Utters(s, t, m)
      BY DEF Carries, Utters, Fin
    <2>5. t.highTx >= s.highTx
      BY <1>0, SocketNumbers DEF Rests
    <2>6. Speaks(s, t, seg)
      BY <1>0, <1>2, <2>1, <2>4, <2>5 DEF Speaks, Rests, Silent
    <2>7. Listens(s, t, seg)
      BY <1>0, <1>2, <2>1 DEF Listens, Rests
    <2> QED
      BY <2>2, <2>3, <2>6, <2>7 DEF Ends
  <1> QED
    BY <1>1, <1>2

\* From s to t, the socket sends what it may, having no acknowledgment.
Talks(s, t) ==
    /\ t \in Socket /\ t.una = s.una /\ t.gotFin = s.gotFin
    /\ Before(t) => Before(s)
    /\ t.highTx >= s.highTx
    /\ Settled(s) => Settled(t) /\ t.highTx = s.highTx /\ t.nextTx = s.nextTx
    /\ \A m \in Segs(t.out) : m \in Segs(s.out) \/ Utters(s, t, m)

LEMMA TalksTrans ==
    ASSUME NEW s \in Socket, NEW t, NEW u, Talks(s, t), Talks(t, u)
    PROVE  Talks(s, u)
  <1>1. /\ s.highTx \in Nat /\ t.highTx \in Nat /\ u.highTx \in Nat /\ u \in Socket
        /\ t.una = s.una /\ u.una = t.una /\ t \in Socket
    BY SocketNumbers DEF Talks
  <1>2. ASSUME NEW m \in Segs(u.out), m \notin Segs(s.out) PROVE Utters(s, u, m)
    <2>1. CASE m \in Segs(t.out)
      <3>1. Utters(s, t, m) /\ m \in Segment
        BY <1>1, <1>2, <2>1, OutSegments DEF Talks
      <3>2. Place(m) \in Nat
        BY <3>1, PlaceNat
      <3>3. m.len > 0 => Place(m) <= u.highTx
        BY <1>1, <3>1, <3>2 DEF Utters, Talks
      <3> QED
        BY <1>1, <3>1, <3>3 DEF Utters, Talks
    <2>2. CASE m \notin Segs(t.out)
      BY <2>2 DEF Talks, Utters
    <2> QED
      BY <2>1, <2>2
  <1>3. u.highTx >= s.highTx
    BY <1>1 DEF Talks
  <1> QED
    BY <1>1, <1>2, <1>3 DEF Talks

\* Nothing is sent that closing is about.
LEMMA SilentTalks ==
    ASSUME NEW s \in Socket, NEW t \in Socket, t.una = s.una, t.gotFin = s.gotFin,
           t.highTx = s.highTx, t.nextTx = s.nextTx, t.size = s.size,
           Before(t) => Before(s), t.state \in Handshake => s.state \in Handshake, Silent(s, t)
    PROVE  Talks(s, t)
  <1>1. \A m : ~ Carries(m) => Utters(s, t, m)
    BY DEF Carries, Utters, Fin
  <1>2. t.highTx >= s.highTx
    BY SocketNumbers
  <1>3. Settled(s) => Settled(t)
    BY DEF Settled
  <1> QED
    BY <1>1, <1>2, <1>3 DEF Talks, Silent

LEMMA GoesTalks ==
    ASSUME NEW s \in Socket, NEW t, Goes(s, t), s.rxData => t.rxData, s.rcvNext >= 1
    PROVE  Talks(s, t)
  <1>1. Silent(s, t)
    BY GoesEmits
  <1>2. /\ t \in Socket /\ t.state = s.state /\ t.una = s.una /\ t.gotFin = s.gotFin
        /\ t.highTx = s.highTx /\ t.nextTx = s.nextTx /\ t.size = s.size
    BY DEF Goes
  <1>3. Before(t) => Before(s)
    BY <1>2 DEF Before
  <1> QED
    BY <1>1, <1>2, <1>3, SilentTalks

\* The FIN of a socket that has sent its data.
LEMMA FinUtters ==
    ASSUME NEW s \in Socket, NEW t \in Socket, NEW m \in Segment, m.len = 0, m.seq = s.nextTx,
           t.una = s.una, t.highTx = s.highTx, s.highTx >= 1, ~ Before(t), Settled(t),
           s.nextTx >= s.highTx, s.nextTx \in {s.una, s.highTx},
           s.una <= s.highTx \/ s.gotFin
    PROVE  Utters(s, t, m)
  <1>1. s.nextTx \in Nat /\ s.highTx \in Nat /\ s.una \in Nat /\ Place(m) = s.nextTx
    BY SocketNumbers DEF Place
  <1>2. s.nextTx = s.highTx \/ (s.una > s.highTx /\ s.gotFin)
    BY <1>1
  <1>3. m.seq >= 1
    BY <1>1
  <1>4. ~ (m.len > 0)
    OBVIOUS
  <1> QED
    BY <1>1, <1>2, <1>3, <1>4 DEF Utters

\* What Close relies on, and what it means to have sent the data.
LEMMA SentSettled ==
    ASSUME NEW s \in Socket, Local(s), s.state \notin Handshake, Sent(s)
    PROVE  Settled(s)
  <1>1. /\ s.nextTx \in Nat /\ s.highTx \in Nat /\ s.una \in Nat /\ s.size \in {0, 1}
        /\ s.nextTx \in {s.una, s.highTx}
    BY SocketNumbers DEF Local
  <1> QED
    BY <1>1 DEF Sent, Settled

\* Where the sender of a connected socket is.
Placed(s) ==
    /\ s.highTx >= 1 /\ s.una >= 1
    /\ s.nextTx >= s.highTx /\ s.nextTx \in {s.una, s.highTx}
    /\ s.size > 0 => s.una <= 1 /\ s.highTx <= s.una + 1

LEMMA PeerClosedTalks ==
    ASSUME NEW s \in Socket, NEW t, PeerClosed(s, t), Placed(s), s.rxData \/ Before(s),
           s.gotFin \/ s.una <= s.highTx
    PROVE  Talks(s, t)
  <1>1. /\ t \in Socket /\ t.state \in {"CLOSE_WAIT", "LAST_ACK"}
        /\ t.una = s.una /\ t.gotFin = s.gotFin /\ t.rxData = s.rxData
        /\ t.highTx = s.highTx /\ t.nextTx = s.nextTx /\ t.size = s.size
    BY DEF PeerClosed
  <1>2. /\ s.nextTx \in Nat /\ s.highTx \in Nat /\ s.una \in Nat /\ s.size \in {0, 1}
    BY SocketNumbers
  <1>3. Before(t) => Before(s)
    BY <1>1 DEF Before, Handshake
  <1>4. t.highTx >= s.highTx /\ (Settled(s) => Settled(t))
    BY <1>1, <1>2 DEF Settled, Handshake
  <1>5. ASSUME NEW m \in Segs(t.out), m \notin Segs(s.out) PROVE Utters(s, t, m)
    <2>1. m \in Segment /\ Reply(s, m)
      BY <1>1, <1>5, OutSegments DEF PeerClosed
    <2>2. CASE m.kind = "ACK"
      BY <2>1, <2>2 DEF Reply, Utters, Fin
    <2>3. CASE m.kind = "FIN+ACK"
      <3>1. t.state = "LAST_ACK"
        BY <1>1, <1>5, <2>3 DEF PeerClosed
      <3>2. Sent(s)
        BY <3>1 DEF PeerClosed
      <3>3. Settled(t)
        BY <1>1, <1>2, <3>1, <3>2 DEF Sent, Settled, Placed, Handshake
      <3>4. ~ Before(t)
        BY <3>1 DEF Before, Handshake
      <3>5. m.len = 0 /\ m.seq = s.nextTx
        BY <2>1, <2>3 DEF Reply
      <3> QED
        BY <1>1, <2>1, <3>3, <3>4, <3>5, FinUtters DEF Placed
    <2> QED
      BY <2>1, <2>2, <2>3 DEF Reply
  <1> QED
    BY <1>1, <1>3, <1>4, <1>5 DEF Talks

LEMMA SendsDataTalks ==
    ASSUME NEW s \in Socket, NEW t, SendsData(s, t), Placed(s), s.size > 0,
           s.state \notin Handshake, s.closeOnEmpty /\ Before(s) => s.state \in {"ESTABLISHED", "CLOSE_WAIT"}
    PROVE  Talks(s, t) /\ Settled(t) /\ t.una <= t.highTx
  <1> DEFINE d == DataSegment(s)
  <1>1. /\ t \in Socket /\ t.una = s.una /\ t.gotFin = s.gotFin /\ t.rxData = s.rxData
        /\ t.highTx = s.una + 1 /\ t.nextTx = s.una + 1 /\ t.size = s.size
        /\ Segs(t.out) = Segs(s.out) \cup {d}
    BY DEF SendsData
  <1>2. /\ s.nextTx \in Nat /\ s.highTx \in Nat /\ s.una \in Nat /\ s.size \in {0, 1}
        /\ t.highTx \in Nat /\ t.una \in Nat
    BY <1>1, SocketNumbers
  <1>3. \/ s.state = "ESTABLISHED" /\ s.closeOnEmpty /\ t.state = "FIN_WAIT_1"
        \/ s.state = "CLOSE_WAIT" /\ s.closeOnEmpty /\ t.state = "LAST_ACK"
        \/ t.state = s.state /\ ~ (s.closeOnEmpty /\ s.state \in {"ESTABLISHED", "CLOSE_WAIT"})
    BY DEF SendsData
  <1>4. Before(t) => Before(s)
    BY <1>1, <1>3 DEF Before, Handshake
  <1>5. Settled(t) /\ t.una <= t.highTx /\ t.highTx >= s.highTx /\ t.highTx >= 1
    BY <1>1, <1>2, <1>3 DEF Settled, Placed, Handshake
  <1>6. Settled(s) => t.highTx = s.highTx /\ t.nextTx = s.nextTx
    BY <1>1, <1>2 DEF Settled, Placed
  <1>7. d.len = 1 /\ d.seq = s.una /\ (d.kind = "FIN+ACK" <=> s.closeOnEmpty)
    BY DEF DataSegment
  <1> HIDE DEF d
  <1>8. Place(d) = t.highTx /\ d.seq >= 1
    BY <1>1, <1>2, <1>7 DEF Place, Placed
  <1>9. s.closeOnEmpty => ~ Before(t)
    BY <1>3, <1>4 DEF Before, Handshake
  <1>10. Utters(s, t, d)
    BY <1>2, <1>5, <1>7, <1>8, <1>9 DEF Utters, Fin
  <1> QED
    BY <1>1, <1>4, <1>5, <1>6, <1>10 DEF Talks

LEMMA LocalPlaced ==
    ASSUME NEW s \in Socket, Local(s), Transmits(s), s.state \notin Handshake \cup {"CLOSED"}
    PROVE  Placed(s)
  BY DEF Local, Transmits, Placed

\* From the acknowledgment on.
LEMMA AckedSpeaks ==
    ASSUME NEW s \in Socket, NEW p, NEW t, NEW seg \in Segment, Acked(s, p, seg), Talks(p, t),
           seg.kind \in Acking, Local(s), s.state \notin Handshake,
           t.state = "FIN_WAIT_2" => s.state = "FIN_WAIT_2"
    PROVE  Speaks(s, t, seg)
  <1>1. /\ p \in Socket /\ t \in Socket /\ p.state = s.state /\ p.rxData = s.rxData
        /\ p.highTx = s.highTx /\ p.gotFin = s.gotFin /\ p.out = s.out
    BY DEF Acked, Talks
  <1>2. /\ s.nextTx \in Nat /\ s.highTx \in Nat /\ s.una \in Nat /\ s.size \in {0, 1}
        /\ p.nextTx \in Nat /\ p.una \in Nat /\ seg.ack \in Nat
    BY <1>1, SocketNumbers, SegmentNumbers
  <1>3. Before(p) = Before(s)
    BY <1>1 DEF Before
  <1>4. Settled(s) => Settled(p)
    BY <1>1, <1>2 DEF Settled, Acked
  <1>5. p.nextTx = s.nextTx \/ p.nextTx <= seg.ack
    BY <1>2 DEF Acked, Local
  <1>6. \A m : Utters(p, t, m) => Utters(s, t, m)
    BY <1>1 DEF Utters
  <1> QED
    BY <1>1, <1>3, <1>4, <1>5, <1>6 DEF Speaks, Talks

LEMMA AckedPlaced ==
    ASSUME NEW s \in Socket, NEW p, NEW seg \in Segment, Acked(s, p, seg), Placed(s), Local(s),
           seg.kind \in Acking
    PROVE  Placed(p)
  <1>1. /\ p \in Socket /\ p.highTx = s.highTx
    BY DEF Acked
  <1>2. /\ s.nextTx \in Nat /\ s.highTx \in Nat /\ s.una \in Nat /\ s.size \in {0, 1}
        /\ p.nextTx \in Nat /\ p.una \in Nat /\ seg.ack \in Nat /\ p.size \in {0, 1}
    BY <1>1, SocketNumbers, SegmentNumbers
  <1>3. s.nextTx >= s.una
    BY DEF Local
  <1> QED
    BY <1>1, <1>2, <1>3 DEF Acked, Placed

\* What the data of a segment leads to: nothing new, data with nothing behind
\* it, or data that frees the FIN.
Nothing(s, u, seg) ==
    /\ u.state = s.state /\ u.retxEvent = s.retxEvent
    /\ u.rcvNext = s.rcvNext /\ u.rxData = s.rxData
    /\ seg.len > 0 => Place(seg) <= s.rcvNext

Filled(s, u, seg) ==
    /\ u.state = s.state /\ u.retxEvent = s.retxEvent
    /\ ~ Finished(s) /\ ~ Finished(u)
    /\ seg.len > 0 /\ u.rcvNext = Place(seg) /\ u.rxData

Freed(s, u, seg) ==
    /\ ~ Finished(s) /\ seg.len > 0 /\ s.gotFin /\ s.finSeq = Place(seg)
    /\ u.rcvNext = Place(seg) + 1 /\ u.rxData
    /\ \/ u.state = s.state /\ u.retxEvent = s.retxEvent /\ Fin(seg)
       \/ /\ u.state \in {"CLOSE_WAIT", "LAST_ACK"} /\ ~ Fin(seg)
          /\ u.retxEvent \in {s.retxEvent, "FIN+ACK"}
          /\ u.retxEvent = "FIN+ACK" => s.retxEvent = "FIN+ACK" \/ Settled(u)
          /\ u.state = "LAST_ACK" => Settled(u)

Held(s, u) ==
    /\ Talks(s, u) /\ u.endPoint = s.endPoint
    /\ u.size = s.size /\ u.highTx = s.highTx /\ u.nextTx = s.nextTx
    /\ u.finSeq = s.finSeq

Stored(s, u, seg) ==
    Held(s, u) /\ (Nothing(s, u, seg) \/ Filled(s, u, seg) \/ Freed(s, u, seg))

LEMMA GoesHeld ==
    ASSUME NEW s \in Socket, NEW t, Goes(s, t), s.rxData => t.rxData, s.rcvNext >= 1
    PROVE  Held(s, t) /\ t.state = s.state /\ t.retxEvent = s.retxEvent /\ t.gotFin = s.gotFin
  <1>1. Talks(s, t)
    BY GoesTalks
  <1> QED
    BY <1>1 DEF Goes, Held

LEMMA SelfTalks ==
    ASSUME NEW s \in Socket
    PROVE  Talks(s, s)
  BY SilentTalks DEF Silent

LEMMA PiggybackedStored ==
    ASSUME NEW s \in Socket, s.endPoint, NEW seg \in Segment, NEW reacts \in BOOLEAN,
           s.state \in Talking, Placed(s), s.rcvNext >= 1,
           s.state = "CLOSE_WAIT" => s.rcvNext >= 2, Receives(s), SegOK(seg),
           seg.len > 0 /\ s.gotFin /\ ~ Finished(s) => Place(seg) <= s.finSeq
    PROVE  Stored(s, PiggybackedData(s, seg, reacts), seg)
  <1> DEFINE t == PiggybackedData(s, seg, reacts)
             new == AddData(s, seg)
  <1>0. /\ s.rcvNext \in Nat /\ s.finSeq \in Nat /\ seg.seq \in Nat /\ seg.len \in {0, 1}
        /\ Place(seg) \in Nat /\ Place(seg) = seg.seq + seg.len
    BY SocketNumbers, PlaceNat DEF Place
  <1>1. CASE seg.len = 0
    <2>1. t = s /\ ~ (seg.len > 0)
      BY <1>1 DEF PiggybackedData
    <2> HIDE DEF t
    <2>2. Held(s, t) /\ Nothing(s, t, seg)
      BY <2>1, SelfTalks DEF Held, Nothing
    <2> QED
      BY <2>2 DEF Stored, t
  <1>2. CASE seg.len # 0
    <2>0. seg.len > 0 /\ Place(seg) <= 2
      BY <1>0, <1>2 DEF SegOK
    <2>1. Takes(s, t, seg)
      BY <2>0, ReceivedDataFields DEF PiggybackedData
    <2> HIDE DEF t
    <2>2. CASE Goes(s, t) /\ t.rcvNext = s.rcvNext /\ Place(seg) <= s.rcvNext /\ t.rxData = s.rxData
      <3>1. Held(s, t) /\ Nothing(s, t, seg)
        BY <2>2, GoesHeld DEF Nothing
      <3> QED
        BY <3>1 DEF Stored, t
    <2>3. ASSUME Place(seg) > s.rcvNext
          PROVE  /\ ~ Finished(s)
                 /\ After(s, seg) = Place(seg) + 1 => s.gotFin /\ s.finSeq = Place(seg)
                 /\ After(s, seg) \in {Place(seg), Place(seg) + 1}
                 /\ After(s, seg) = Place(seg) => (s.gotFin => s.finSeq > Place(seg))
      <3>1. ~ Finished(s)
        BY <1>0, <2>0, <2>3 DEF Receives, Talking
      <3>2. s.gotFin => s.finSeq >= Place(seg)
        BY <1>0, <2>0, <3>1
      <3> QED
        BY <1>0, <3>1, <3>2 DEF After
    <2>4. CASE /\ Goes(s, t) /\ t.rcvNext = After(s, seg) /\ Place(seg) > s.rcvNext /\ t.rxData
               /\ ~ (After(s, seg) = Place(seg) + 1 /\ ~ Fin(seg))
      <3>1. Held(s, t) /\ t.state = s.state /\ t.retxEvent = s.retxEvent /\ t.gotFin = s.gotFin
        BY <2>4, GoesHeld
      <3>2. CASE After(s, seg) = Place(seg)
        <4>1. t.finSeq = s.finSeq
          BY <2>4 DEF Goes
        <4>2. ~ Finished(t)
          BY <1>0, <2>3, <2>4, <3>1, <3>2, <4>1 DEF Finished
        <4>3. Filled(s, t, seg)
          BY <2>0, <2>3, <2>4, <3>1, <3>2, <4>2 DEF Filled
        <4> QED
          BY <3>1, <4>3 DEF Stored, t
      <3>3. CASE After(s, seg) = Place(seg) + 1 /\ Fin(seg)
        <4>1. Freed(s, t, seg)
          BY <2>0, <2>3, <2>4, <3>1, <3>3 DEF Freed
        <4> QED
          BY <3>1, <4>1 DEF Stored, t
      <3> QED
        BY <2>3, <2>4, <3>2, <3>3
    <2>5. CASE /\ Place(seg) > s.rcvNext /\ Finished(new) /\ ~ HasFin(seg.kind)
               /\ PeerClosed(new, t)
      <3>1. /\ Goes(s, new) /\ new.rcvNext = After(s, seg) /\ new.rxData
        BY <1>0, <2>5, AddDataFields
      <3> HIDE DEF new
      <3>2. /\ new \in Socket /\ new.state = s.state /\ new.retxEvent = s.retxEvent
            /\ new.endPoint = s.endPoint
            /\ new.nextTx = s.nextTx /\ new.highTx = s.highTx /\ new.una = s.una
            /\ new.size = s.size /\ new.gotFin = s.gotFin /\ new.finSeq = s.finSeq
        BY <3>1 DEF Goes
      <3>3. Placed(new)
        BY <3>2 DEF Placed
      <3>4. new.gotFin /\ new.finSeq < new.rcvNext
        BY <2>5 DEF Finished
      <3>5. After(s, seg) = Place(seg) + 1
        BY <1>0, <2>3, <2>5, <3>1, <3>2, <3>4
      <3>6. Talks(s, new) /\ Talks(new, t)
        BY <3>1, <3>2, <3>3, <3>4, <2>5, GoesTalks, PeerClosedTalks
      <3>7. Talks(s, t)
        BY <3>6, TalksTrans
      <3>8. /\ t.endPoint /\ t.state \in {"CLOSE_WAIT", "LAST_ACK"}
            /\ t.size = s.size /\ t.highTx = s.highTx /\ t.nextTx = s.nextTx /\ t.una = s.una
            /\ t.finSeq = s.finSeq /\ t.rxData /\ t.rcvNext = Place(seg) + 1
            /\ t.retxEvent \in {s.retxEvent, "FIN+ACK"}
        BY <2>5, <3>1, <3>2, <3>5 DEF PeerClosed
      <3>9. ASSUME t.state = "LAST_ACK" PROVE Settled(t)
        <4>1. Sent(new)
          BY <2>5, <3>9 DEF PeerClosed
        <4> QED
          BY <3>2, <3>3, <3>8, <3>9, <4>1, SocketNumbers DEF Sent, Settled, Placed, Handshake
      <3>10. ASSUME t.retxEvent # s.retxEvent PROVE t.state = "LAST_ACK"
        BY <2>5, <3>2, <3>8, <3>10 DEF PeerClosed
      <3>11. ~ Fin(seg)
        BY <2>5 DEF Fin, HasFin
      <3>12. s.gotFin /\ s.finSeq = Place(seg) /\ ~ Finished(s)
        BY <2>3, <2>5, <3>5
      <3>13. Freed(s, t, seg)
        BY <2>0, <3>8, <3>9, <3>10, <3>11, <3>12 DEF Freed
      <3>14. Held(s, t)
        BY <3>7, <3>8 DEF Held
      <3> QED
        BY <3>13, <3>14 DEF Stored, t
    <2>6. \/ Goes(s, t) /\ t.rcvNext = s.rcvNext /\ Place(seg) <= s.rcvNext /\ t.rxData = s.rxData
          \/ Goes(s, t) /\ t.rcvNext = After(s, seg) /\ Place(seg) > s.rcvNext /\ t.rxData
          \/ /\ Place(seg) > s.rcvNext /\ Finished(new) /\ ~ HasFin(seg.kind)
             /\ PeerClosed(new, t)
      BY <1>0, <2>1 DEF Takes
    <2>7. ASSUME Place(seg) > s.rcvNext, After(s, seg) = Place(seg) + 1, ~ Fin(seg)
          PROVE  Finished(new) /\ ~ HasFin(seg.kind) /\ PeerClosed(new, t)
      <3>1. Goes(s, new) /\ new.rcvNext = After(s, seg)
        BY <1>0, <2>7, AddDataFields
      <3>2. Finished(new) /\ ~ HasFin(seg.kind)
        <4> HIDE DEF new
        <4> QED
          BY <1>0, <2>3, <2>7, <3>1 DEF Goes, Finished, Fin, HasFin
      <3>3. t = DoPeerClose(new, reacts)
        BY <1>0, <2>0, <2>7, <3>2 DEF t, PiggybackedData, ReceivedData
      <3> HIDE DEF new
      <3>4. PeerClosed(new, t)
        BY <3>1, <3>3, DoPeerCloseFields DEF Goes
      <3> QED
        BY <3>2, <3>4
    <2> HIDE DEF new
    <2> QED
      BY <2>2, <2>4, <2>5, <2>6, <2>7
  <1> QED
    BY <1>1, <1>2

\* The state is kept, or left by sending the FIN.
Keeps(s, t) ==
    \/ t.state = s.state
    \/ s.state = "ESTABLISHED" /\ t.state = "FIN_WAIT_1"
    \/ s.state = "CLOSE_WAIT" /\ t.state = "LAST_ACK"

\* What ReceivedAck does to the receiving side.
Heard(s, t, seg) ==
    \/ /\ Keeps(s, t) /\ t.rcvNext = s.rcvNext /\ t.rxData = s.rxData
       /\ seg.len > 0 => Place(seg) <= s.rcvNext
    \/ /\ Keeps(s, t) /\ ~ Finished(s) /\ ~ Finished(t)
       /\ seg.len > 0 /\ t.rcvNext = Place(seg) /\ t.rxData
    \/ /\ ~ Finished(s) /\ seg.len > 0 /\ s.gotFin /\ s.finSeq = Place(seg)
       /\ t.rcvNext = Place(seg) + 1 /\ t.rxData
       /\ \/ Keeps(s, t) /\ Fin(seg)
          \/ t.state \in {"CLOSE_WAIT", "LAST_ACK"} /\ ~ Fin(seg)

\* Transmits, but for a FIN that is acknowledged.
Ordered(t) ==
    /\ Before(t) => t.retxEvent # "FIN+ACK"
    /\ t.retxEvent = "FIN+ACK" => Settled(t)
    /\ t.state \in {"FIN_WAIT_1", "FIN_WAIT_2", "CLOSING", "LAST_ACK"} => Settled(t)
    /\ t.una >= 1 /\ t.highTx >= 1

Heeds(s, t, seg) ==
    /\ t \in Socket /\ t.endPoint = s.endPoint /\ t.gotFin = s.gotFin /\ t.finSeq = s.finSeq
    /\ Speaks(s, t, seg) /\ Ordered(t) /\ Heard(s, t, seg)
    /\ t.una = s.una \/ (t.una = seg.ack /\ seg.ack > s.una)
    /\ t.una > t.highTx /\ ~ t.gotFin =>
           /\ t.state = s.state /\ t.highTx = s.highTx
           /\ t.una = s.una => (t.retxEvent = "FIN+ACK" => s.retxEvent = "FIN+ACK")
           /\ t.una # s.una => t.size = 0 /\ t.retxEvent # "FIN+ACK"
    /\ s.state = "FIN_WAIT_1" => t.highTx = s.highTx

\* The acknowledgment, the data, and what is sent then.
LEMMA StoredHeeds ==
    ASSUME NEW s \in Socket, NEW p, NEW u, NEW t, NEW seg \in Segment,
           Local(s), Transmits(s), s.state \in Talking, seg.kind \in Acking, Acked(s, p, seg),
           Placed(p), Stored(p, u, seg), t = u \/ (SendsData(u, t) /\ u.size > 0 /\ u.highTx = u.una /\ u.state # "FIN_WAIT_1")
    PROVE  Heeds(s, t, seg)
  <1>1. /\ p \in Socket /\ p.endPoint = s.endPoint /\ p.state = s.state
        /\ p.highTx = s.highTx /\ p.rcvNext = s.rcvNext /\ p.rxData = s.rxData
        /\ p.gotFin = s.gotFin /\ p.finSeq = s.finSeq
        /\ Finished(p) = Finished(s)
    BY DEF Acked, Finished
  <1>2. /\ Held(p, u) /\ u \in Socket /\ u.una = p.una /\ u.gotFin = s.gotFin
        /\ u.endPoint = s.endPoint /\ u.finSeq = s.finSeq
        /\ u.size = p.size /\ u.highTx = p.highTx /\ u.nextTx = p.nextTx
    BY <1>1 DEF Stored, Held, Talks
  <1>3. Placed(u)
    BY <1>2 DEF Placed
  <1>4. u.state \in Talking \cup {"LAST_ACK"} /\ u.state \notin Handshake
    BY <1>1 DEF Stored, Nothing, Filled, Freed, Talking, Handshake
  <1>5. /\ t \in Socket /\ t.endPoint = s.endPoint /\ t.gotFin = s.gotFin /\ t.finSeq = s.finSeq
        /\ t.rcvNext = u.rcvNext /\ t.rxData = u.rxData /\ t.una = p.una /\ t.size = p.size
        /\ Finished(t) = Finished(u)
    BY <1>1, <1>2 DEF SendsData, Finished
  <1>6. /\ Talks(u, t)
        /\ t # u => Settled(t) /\ t.una <= t.highTx
    <2>1. CASE t = u
      BY <1>2, <2>1, SelfTalks
    <2>2. CASE SendsData(u, t) /\ u.size > 0
      BY <1>2, <1>3, <1>4, <2>2, SendsDataTalks DEF Before
    <2> QED
      BY <2>1, <2>2
  <1>7. Talks(p, t)
    BY <1>1, <1>2, <1>6, TalksTrans DEF Held
  <1>8. /\ t.state = u.state \/ (u.state = "ESTABLISHED" /\ t.state = "FIN_WAIT_1")
           \/ (u.state = "CLOSE_WAIT" /\ t.state = "LAST_ACK")
        /\ t.state # u.state => t # u
        /\ t.retxEvent = u.retxEvent \/ t.retxEvent = "data"
    BY DEF SendsData
  <1>9. Speaks(s, t, seg)
    <2>1. t.state = "FIN_WAIT_2" => s.state = "FIN_WAIT_2"
      BY <1>1, <1>8 DEF Stored, Nothing, Filled, Freed
    <2>2. s.state \notin Handshake
      BY DEF Talking, Handshake
    <2> QED
      BY <1>1, <1>7, <2>1, <2>2, AckedSpeaks
  <1>10. Settled(s) => Settled(t) /\ t.highTx = s.highTx
    BY <1>9 DEF Speaks
  <1>11. p.retxEvent = "FIN+ACK" => s.retxEvent = "FIN+ACK"
    BY DEF Acked
  <1>12. Heard(s, t, seg)
    <2>1. CASE Nothing(p, u, seg)
      BY <1>1, <1>5, <1>8, <2>1 DEF Nothing, Heard, Keeps
    <2>2. CASE Filled(p, u, seg)
      BY <1>1, <1>5, <1>8, <2>2 DEF Filled, Heard, Keeps
    <2>3. CASE Freed(p, u, seg)
      BY <1>1, <1>5, <1>8, <2>3 DEF Freed, Heard, Keeps
    <2> QED
      BY <2>1, <2>2, <2>3 DEF Stored
  <1>13. Ordered(t)
    <2>1. t.una >= 1 /\ t.highTx >= 1
      <3>1. t.highTx >= u.highTx /\ t.highTx \in Nat /\ u.highTx \in Nat /\ t.una = u.una
        BY <1>2, <1>5, <1>6, SocketNumbers DEF Talks
      <3> QED
        BY <1>3, <3>1 DEF Placed
    <2>2. CASE u.state = s.state /\ u.retxEvent = p.retxEvent
      <3>1. t.retxEvent = "FIN+ACK" => s.retxEvent = "FIN+ACK"
        BY <1>8, <1>11, <2>2
      <3>2. Before(t) => Before(s)
        BY <1>9 DEF Speaks
      <3>3. /\ Before(s) => s.retxEvent # "FIN+ACK"
            /\ s.retxEvent = "FIN+ACK" => Settled(s)
            /\ s.state \in {"FIN_WAIT_1", "FIN_WAIT_2", "CLOSING", "LAST_ACK"} => Settled(s)
        BY DEF Transmits
      <3>4. t.state # s.state => Settled(t)
        BY <1>6, <1>8, <2>2
      <3> QED
        BY <1>10, <2>1, <3>1, <3>2, <3>3, <3>4 DEF Ordered
    <2>3. CASE /\ u.state \in {"CLOSE_WAIT", "LAST_ACK"} /\ u.rxData
               /\ u.retxEvent = "FIN+ACK" => p.retxEvent = "FIN+ACK" \/ Settled(u)
               /\ u.state = "LAST_ACK" => Settled(u)
      <3>1. ~ Before(t)
        BY <1>5, <1>8, <2>3 DEF Before, Handshake
      <3>2. Settled(u) => Settled(t)
        BY <1>6 DEF Talks
      <3>3. s.retxEvent = "FIN+ACK" => Settled(s)
        BY DEF Transmits
      <3>4. t.state # u.state => Settled(t)
        BY <1>6, <1>8
      <3> QED
        BY <1>8, <1>10, <1>11, <2>1, <2>3, <3>1, <3>2, <3>3, <3>4 DEF Ordered
    <2> QED
      BY <1>1, <2>2, <2>3 DEF Stored, Nothing, Filled, Freed
  <1>14. t.una = s.una \/ (t.una = seg.ack /\ seg.ack > s.una)
    BY <1>5 DEF Acked
  <1>15. ASSUME t.una > t.highTx, ~ t.gotFin
         PROVE  /\ t.state = s.state /\ t.highTx = s.highTx
                /\ t.una = s.una => (t.retxEvent = "FIN+ACK" => s.retxEvent = "FIN+ACK")
                /\ t.una # s.una => t.size = 0 /\ t.retxEvent # "FIN+ACK"
    <2>1. t = u
      BY <1>5, <1>6, <1>15, SocketNumbers
    <2>2. ~ Freed(p, u, seg)
      BY <1>1, <1>5, <1>15 DEF Freed
    <2>3. u.state = p.state /\ u.retxEvent = p.retxEvent
      BY <2>2 DEF Stored, Nothing, Filled
    <2> QED
      BY <1>1, <1>2, <1>11, <2>1, <2>3 DEF Acked
  <1>16. ASSUME s.state = "FIN_WAIT_1" PROVE t.highTx = s.highTx
    BY <1>10, <1>16 DEF Transmits
  <1> QED
    BY <1>5, <1>9, <1>12, <1>13, <1>14, <1>15, <1>16 DEF Heeds

LEMMA ReceivedAckHeeds ==
    ASSUME NEW s \in Socket, s.endPoint, NEW seg \in Segment, NEW reacts \in BOOLEAN,
           Local(s), Receives(s), Transmits(s), Apt(s, seg),
           s.state \in Talking, seg.kind \in Acking
    PROVE  Heeds(s, ReceivedAck(s, seg, reacts), seg)
  <1> DEFINE p == Processed(s, seg)
             u == PiggybackedData(p, seg, reacts)
             t == SentMore(s, seg, u)
  <1>1. Acked(s, p, seg)
    BY ProcessedFields
  <1>2. ReceivedAck(s, seg, reacts) = t
    BY ReceivedAckIs
  <1> HIDE DEF p
  <1>3. Placed(s)
    BY LocalPlaced DEF Talking, Handshake
  <1>4. Placed(p)
    BY <1>1, <1>3, AckedPlaced
  <1>5. /\ p \in Socket /\ p.endPoint /\ p.state = s.state /\ p.rcvNext = s.rcvNext
        /\ p.rxData = s.rxData /\ p.gotFin = s.gotFin /\ p.finSeq = s.finSeq
        /\ Finished(p) = Finished(s)
    BY <1>1 DEF Acked, Finished
  <1>6. Receives(p)
    BY <1>5 DEF Receives
  <1>7. p.rcvNext >= 1 /\ (p.state = "CLOSE_WAIT" => p.rcvNext >= 2)
    BY <1>5 DEF Local, Talking
  <1>8. Stored(p, u, seg)
    BY <1>4, <1>5, <1>6, <1>7, PiggybackedStored DEF Apt
  <1>9. u \in Socket
    BY <1>8 DEF Stored, Held, Talks
  <1> HIDE DEF u
  <1>10. \/ t = u
         \/ SendsData(u, t) /\ u.size > 0 /\ u.highTx = u.una /\ u.state # "FIN_WAIT_1"
    BY <1>9, SendDataFields DEF SentMore, SendPendingData
  <1> HIDE DEF t
  <1> QED
    BY <1>1, <1>2, <1>4, <1>8, <1>10, StoredHeeds

-----------------------------------------------------------------------------
(* The handlers.                                                            *)

LEMMA SilentSpeaks ==
    ASSUME NEW s \in Socket, NEW t \in Socket, NEW seg, t.highTx = s.highTx,
           t.nextTx = s.nextTx, t.size = s.size, t.una = s.una,
           Before(t) => Before(s), t.state \in Handshake => s.state \in Handshake,
           t.state = "FIN_WAIT_2" => s.state = "FIN_WAIT_2", Silent(s, t)
    PROVE  Speaks(s, t, seg)
  <1>1. \A m : ~ Carries(m) => Utters(s, t, m)
    BY DEF Carries, Utters, Fin
  <1>2. t.highTx >= s.highTx
    BY SocketNumbers
  <1>3. Settled(s) => Settled(t)
    BY DEF Settled
  <1> QED
    BY <1>1, <1>2, <1>3 DEF Speaks, Silent

\* What closing is about stays as it was.
LEMMA EndsRests ==
    ASSUME NEW s \in Socket, NEW u \in Socket, NEW t \in Socket, NEW seg, Ends(s, u, seg),
           Rests(u, t), t.state = u.state, t.endPoint => u.endPoint,
           t.retxEvent = "FIN+ACK" => u.retxEvent = "FIN+ACK", Silent(u, t)
    PROVE  Ends(s, t, seg)
  <1>1. /\ Finished(t) = Finished(u) /\ Before(t) = Before(u) /\ Settled(t) = Settled(u)
    BY DEF Rests, Finished, Before, Settled
  <1>2. Receives(t)
    BY <1>1 DEF Ends, Receives, Rests
  <1>3. Transmits(t)
    BY <1>1 DEF Ends, Transmits, Rests
  <1>4. ASSUME NEW m, ~ Carries(m) \/ Utters(s, u, m) PROVE Utters(s, t, m)
    BY <1>1, <1>4 DEF Carries, Utters, Fin, Rests
  <1>5. Speaks(s, t, seg)
    BY <1>1, <1>4 DEF Ends, Speaks, Rests, Silent
  <1>6. Listens(s, t, seg)
    BY <1>1 DEF Ends, Listens, Rests
  <1> QED
    BY <1>2, <1>3, <1>5, <1>6 DEF Ends

LEMMA SelfEnds ==
    ASSUME NEW s \in Socket, NEW seg, Receives(s), Transmits(s)
    PROVE  Ends(s, s, seg)
  BY RestsEnds DEF Rests, Silent

\* An ACK changes nothing.
LEMMA AckRests ==
    ASSUME NEW s \in Socket, s.endPoint
    PROVE  LET t == SendEmptyPacket(s, "ACK")
           IN  /\ t \in Socket /\ Rests(s, t) /\ t.state = s.state /\ t.endPoint = s.endPoint
               /\ t.retxEvent = s.retxEvent /\ Silent(s, t) /\ Sends(s, t)
  <1> DEFINE t == SendEmptyPacket(s, "ACK")
             m == EmptySegment(s, "ACK")
  <1>1. /\ t \in Socket /\ Sends(s, t) /\ t.retxEvent = s.retxEvent
        /\ Segs(t.out) = Segs(s.out) \cup {m}
    BY SendEmpty
  <1>2. m.kind = "ACK" /\ m.len = 0
    BY EmptySegmentType DEF Kinds
  <1> HIDE DEF t, m
  <1>3. Silent(s, t)
    BY <1>1, <1>2 DEF Silent, Carries
  <1>4. Rests(s, t) /\ t.state = s.state /\ t.endPoint = s.endPoint
    BY <1>1 DEF Sends, Same, Rests
  <1> QED
    BY <1>1, <1>3, <1>4 DEF t

LEMMA AckEnds ==
    ASSUME NEW s \in Socket, s.endPoint, NEW seg, Receives(s), Transmits(s)
    PROVE  Ends(s, SendEmptyPacket(s, "ACK"), seg)
  <1> DEFINE t == SendEmptyPacket(s, "ACK")
  <1>1. /\ t \in Socket /\ Rests(s, t) /\ t.state = s.state /\ t.endPoint = s.endPoint
        /\ t.retxEvent = s.retxEvent /\ Silent(s, t)
    BY AckRests
  <1> HIDE DEF t
  <1>2. Ends(s, t, seg)
    BY <1>1, RestsEnds
  <1> QED
    BY <1>2 DEF t

LEMMA CloseEnds ==
    ASSUME NEW s \in Socket, NEW seg, Receives(s), Transmits(s)
    PROVE  /\ Ends(s, CloseAndNotify(s), seg)
           /\ s.endPoint => Ends(s, ResetAndClose(s), seg)
           /\ Ends(s, DeallocateEndPoint(s), seg)
  <1>1. Ends(s, CloseAndNotify(s), seg)
    <2> DEFINE t == CloseAndNotify(s)
    <2>1. Leaves(s, t) /\ t.state = "CLOSED" /\ t.out = s.out
      BY CloseAndNotifyFields
    <2> HIDE DEF t
    <2>2. Ends(s, t, seg)
      BY <2>1, LeavesEnds DEF Silent
    <2> QED
      BY <2>2 DEF t
  <1>2. Ends(s, DeallocateEndPoint(s), seg)
    <2> DEFINE t == DeallocateEndPoint(s)
    <2>1. Leaves(s, t) /\ t.state = s.state /\ t.out = s.out
      BY DeallocateFields
    <2> HIDE DEF t
    <2>2. Ends(s, t, seg)
      BY <2>1, LeavesEnds DEF Silent
    <2> QED
      BY <2>2 DEF t
  <1>3. ASSUME s.endPoint PROVE Ends(s, ResetAndClose(s), seg)
    <2> DEFINE t == ResetAndClose(s)
               m == EmptySegment(s, "RST")
    <2>1. Leaves(s, t) /\ t.state = "CLOSED" /\ Segs(t.out) = Segs(s.out) \cup {m}
      BY <1>3, ResetFields
    <2>2. m.kind = "RST" /\ m.len = 0
      BY EmptySegmentType DEF Kinds
    <2> HIDE DEF t, m
    <2>3. Silent(s, t)
      BY <2>1, <2>2 DEF Silent, Carries
    <2>4. Ends(s, t, seg)
      BY <2>1, <2>3, LeavesEnds
    <2> QED
      BY <2>4 DEF t
  <1> QED
    BY <1>1, <1>2, <1>3

\* ReceivedAck of a segment without FIN.
LEMMA HeedsEnds ==
    ASSUME NEW s \in Socket, NEW t, NEW seg \in Segment, Heeds(s, t, seg), Receives(s),
           s.state \in Talking, ~ Fin(seg)
    PROVE  /\ Receives(t) /\ Speaks(s, t, seg) /\ Listens(s, t, seg)
           /\ (t.una > t.highTx /\ ~ t.gotFin => t.state = "FIN_WAIT_2" /\ t.retxEvent # "FIN+ACK")
                  => Transmits(t)
  <1>1. /\ t.gotFin = s.gotFin /\ t.finSeq = s.finSeq /\ Ordered(t) /\ Speaks(s, t, seg)
        /\ t \in Socket
    BY DEF Heeds
  <1>2. /\ Place(seg) \in Nat /\ s.rcvNext \in Nat /\ t.rcvNext \in Nat /\ s.finSeq \in Nat
    BY <1>1, PlaceNat, SocketNumbers
  <1>3. s.state \notin Handshake
    BY DEF Talking, Handshake
  <1>4. CASE /\ Keeps(s, t) /\ t.rcvNext = s.rcvNext /\ t.rxData = s.rxData
    <2>1. Finished(t) = Finished(s)
      BY <1>1, <1>4 DEF Finished
    <2>2. Receives(t)
      BY <1>1, <1>4, <2>1 DEF Receives, Keeps, Late, Handshake
    <2>3. Listens(s, t, seg)
      BY <1>1, <1>4, <2>1 DEF Listens, Keeps
    <2> QED
      BY <1>1, <2>2, <2>3 DEF Transmits, Ordered
  <1>5. CASE /\ Keeps(s, t) /\ ~ Finished(s) /\ ~ Finished(t)
             /\ seg.len > 0 /\ t.rcvNext = Place(seg) /\ t.rxData
    <2>1. Receives(t)
      BY <1>1, <1>3, <1>5 DEF Receives, Keeps, Late
    <2>2. Listens(s, t, seg)
      BY <1>1, <1>5 DEF Listens, Keeps
    <2> QED
      BY <1>1, <2>1, <2>2 DEF Transmits, Ordered
  <1>6. CASE /\ ~ Finished(s) /\ seg.len > 0 /\ s.gotFin /\ s.finSeq = Place(seg)
             /\ t.rcvNext = Place(seg) + 1 /\ t.rxData
             /\ t.state \in {"CLOSE_WAIT", "LAST_ACK"}
    <2>1. Finished(t)
      BY <1>1, <1>2, <1>6 DEF Finished
    <2>2. Receives(t)
      BY <1>1, <1>6, <2>1 DEF Receives, Handshake
    <2>3. Listens(s, t, seg)
      BY <1>1, <1>6, <2>1 DEF Listens
    <2> QED
      BY <1>1, <2>2, <2>3 DEF Transmits, Ordered
  <1> QED
    BY <1>4, <1>5, <1>6 DEF Heeds, Heard

LEMMA PeerCloseEnds ==
    ASSUME NEW s \in Socket, s.endPoint, Placed(s), Receives(s), Transmits(s),
           s.state \in {"ESTABLISHED", "SYN_RCVD"}, NEW seg \in Segment, Fin(seg), seg.seq >= 1,
           NEW reacts \in BOOLEAN
    PROVE  LET t == PeerClose(s, seg, reacts)
           IN  Ends(s, t, seg) /\ t.state # "FIN_WAIT_2"
  <1> DEFINE t == PeerClose(s, seg, reacts)
  <1>0. /\ s.rcvNext \in Nat /\ seg.seq \in Nat /\ seg.len \in {0, 1} /\ s.finSeq \in Nat
        /\ Place(seg) \in Nat /\ seg.seq <= Place(seg) /\ Place(seg) = seg.seq + seg.len
    BY SocketNumbers, PlaceNat DEF Place
  <1>1. CASE FinIgnored(s, seg)
    <2>1. t = s
      BY <1>1 DEF PeerClose, FinIgnored
    <2> QED
      BY <2>1, SelfEnds
  <1>2. CASE ~ FinIgnored(s, seg)
    <2>1. PICK x \in Socket : /\ Fins(s, x, seg)
                              /\ \/ t = x /\ ~ Finished(x)
                                 \/ PeerClosed(x, t) /\ Finished(x)
      <3>1. HasFin(seg.kind)
        BY DEF HasFin, Fin
      <3> QED
        BY <1>2, <3>1, PeerCloseFields
    <2> HIDE DEF t
    <2>2. /\ x.endPoint = s.endPoint /\ x.state = s.state
          /\ x.nextTx = s.nextTx /\ x.highTx = s.highTx /\ x.una = s.una /\ x.size = s.size
          /\ x.gotFin /\ x.finSeq = Place(seg) /\ x.retxEvent = s.retxEvent
          /\ x.rcvNext \in Nat /\ (s.rxData => x.rxData)
          /\ x.rcvNext = s.rcvNext \/ x.rcvNext = Place(seg) + 1
          /\ x.rcvNext = s.rcvNext \/ x.rxData \/ (seg.len = 0 /\ seg.seq = s.rcvNext)
      BY <2>1, SocketNumbers DEF Fins, Place
    <2>3. Silent(s, x)
      BY <2>1 DEF Fins, Silent, Plain, Carries
    <2>4. seg.seq >= s.rcvNext /\ ~ Finished(s) /\ Before(s) /\ Before(x)
      BY <1>0, <1>2, <2>2 DEF FinIgnored, Receives, Before, Handshake
    <2>5. Speaks(s, x, seg)
      BY <2>2, <2>3, <2>4, SilentSpeaks
    <2>6. s.retxEvent # "FIN+ACK" /\ (s.una > s.highTx => s.gotFin)
      BY <2>4 DEF Transmits
    <2>7. CASE t = x /\ ~ Finished(x)
      <3>1. x.rcvNext = s.rcvNext
        BY <1>0, <2>2, <2>7 DEF Finished
      <3>2. Receives(x)
        BY <1>0, <2>2, <2>4, <2>7, <3>1 DEF Receives, Late
      <3>3. Transmits(x)
        BY <2>2, <2>4, <2>6 DEF Transmits, Placed
      <3>4. Listens(s, x, seg)
        BY <2>2, <2>4, <2>7, <3>1 DEF Listens
      <3> QED
        BY <2>2, <2>5, <2>7, <3>2, <3>3, <3>4 DEF Ends, t
    <2>8. CASE PeerClosed(x, t) /\ Finished(x)
      <3>1. x.rcvNext = Place(seg) + 1 /\ x.rcvNext # s.rcvNext
        BY <1>0, <2>2, <2>4, <2>8 DEF Finished
      <3>2. /\ t \in Socket /\ t.state \in {"CLOSE_WAIT", "LAST_ACK"} /\ t.rxData = x.rxData
            /\ t.nextTx = s.nextTx /\ t.highTx = s.highTx /\ t.una = s.una /\ t.size = s.size
            /\ t.gotFin /\ t.finSeq = Place(seg) /\ t.rcvNext = Place(seg) + 1
            /\ t.state = "CLOSE_WAIT" => t.retxEvent = s.retxEvent
            /\ t.state = "LAST_ACK" => Sent(x)
        BY <2>2, <2>8, <3>1 DEF PeerClosed
      <3>3. Finished(t) /\ ~ Finished(s)
        BY <1>0, <2>4, <3>2 DEF Finished
      <3>4. ~ x.rxData => ~ s.rxData /\ seg.len = 0 /\ seg.seq = s.rcvNext
        BY <2>2, <3>1
      <3>5. ~ x.rxData => ~ s.rxData /\ Place(seg) <= 1
        <4>1. ~ s.rxData => s.rcvNext <= 1
          BY <1>0, <2>4 DEF Receives
        <4> QED
          BY <1>0, <3>4, <4>1
      <3>6. Receives(t)
        BY <1>0, <3>2, <3>3, <3>5 DEF Receives, Handshake
      <3>7. Listens(s, t, seg)
        BY <3>2, <3>3, <3>5 DEF Listens
      <3>8. Placed(x)
        BY <2>2 DEF Placed
      <3>9. t.state = "LAST_ACK" => Settled(t)
        <4>1. /\ s.nextTx \in Nat /\ s.una \in Nat /\ s.highTx \in Nat /\ s.size \in {0, 1}
          BY SocketNumbers
        <4> QED
          BY <2>2, <3>2, <3>8, <4>1 DEF Sent, Settled, Placed, Handshake
      <3>10. Transmits(t)
        BY <2>6, <3>2, <3>8, <3>9, <2>2 DEF Transmits, Placed, Before, Handshake
      <3>11. Talks(x, t)
        BY <2>2, <2>4, <2>8, <3>8, PeerClosedTalks
      <3>12. Speaks(s, t, seg)
        <4>1. Settled(s) => Settled(x)
          BY <2>2 DEF Settled
        <4>2. t.highTx >= s.highTx
          BY <3>2, SocketNumbers
        <4>3. ASSUME NEW m \in Segs(t.out), m \notin Segs(s.out) PROVE Utters(s, t, m)
          <5>1. CASE m \in Segs(x.out)
            <6>1. ~ Carries(m)
              BY <2>3, <4>3, <5>1 DEF Silent
            <6> QED
              BY <6>1 DEF Carries, Utters, Fin
          <5>2. CASE m \notin Segs(x.out)
            <6>1. Utters(x, t, m)
              BY <3>11, <4>3, <5>2 DEF Talks
            <6> QED
              BY <2>6, <3>2, <6>1 DEF Utters
          <5> QED
            BY <5>1, <5>2
        <4> QED
          BY <2>4, <3>2, <3>11, <4>1, <4>2, <4>3 DEF Speaks, Talks
      <3> QED
        BY <3>2, <3>6, <3>7, <3>10, <3>12 DEF Ends, t
    <2> QED
      BY <2>1, <2>7, <2>8
  <1> QED
    BY <1>1, <1>2

LEMMA EstablishedEnds ==
    ASSUME NEW s \in Socket, s.endPoint, Local(s), Receives(s), Transmits(s),
           NEW seg \in Segment, Apt(s, seg), s.state = "ESTABLISHED", NEW reacts \in BOOLEAN
    PROVE  Ends(s, ProcessEstablished(s, seg, reacts), seg)
  <1> DEFINE t == ProcessEstablished(s, seg, reacts)
  <1>0. s.state \in Talking /\ s.state \notin Handshake \cup {"CLOSED"}
    BY DEF Talking, Handshake
  <1>1. CASE t = s
    BY <1>1, SelfEnds
  <1>2. CASE t = SendEmptyPacket(s, "ACK")
    BY <1>2, AckEnds
  <1>3. CASE seg.kind = "ACK" /\ t = ReceivedAck(s, seg, reacts) /\ ~ (seg.ack > s.highTx)
    <2>1. seg.kind \in Acking /\ ~ Fin(seg)
      BY <1>3 DEF Acking, Fin
    <2>2. Heeds(s, t, seg)
      BY <1>0, <1>3, <2>1, ReceivedAckHeeds
    <2> HIDE DEF t
    <2>3. /\ t \in Socket /\ t.gotFin = s.gotFin /\ t.highTx >= s.highTx
          /\ t.una = s.una \/ (t.una = seg.ack /\ seg.ack > s.una)
      BY <2>2 DEF Heeds, Speaks
    <2>4. s.una > s.highTx => s.gotFin
      BY <1>3 DEF Transmits
    <2>5. ~ (t.una > t.highTx /\ ~ t.gotFin)
      BY <1>3, <2>3, <2>4, SocketNumbers, SegmentNumbers
    <2> QED
      BY <1>0, <2>1, <2>2, <2>5, HeedsEnds DEF Ends, t
  <1>4. CASE HasFin(seg.kind) /\ t = PeerClose(s, seg, reacts)
    <2>1. Fin(seg) /\ seg.seq >= 1
      BY <1>4 DEF HasFin, Fin, Apt
    <2>2. Placed(s)
      BY <1>0, LocalPlaced
    <2> QED
      BY <1>4, <2>1, <2>2, PeerCloseEnds
  <1>5. CASE t = CloseAndNotify(s) \/ t = ResetAndClose(s)
    BY <1>5, CloseEnds
  <1>6. \/ t = s \/ t = SendEmptyPacket(s, "ACK")
        \/ seg.kind = "ACK" /\ t = ReceivedAck(s, seg, reacts) /\ ~ (seg.ack > s.highTx)
        \/ HasFin(seg.kind) /\ t = PeerClose(s, seg, reacts)
        \/ t = CloseAndNotify(s) \/ t = ResetAndClose(s)
    BY DEF ProcessEstablished, HasFin, HasSyn, Segment, Kinds
  <1> HIDE DEF t
  <1> QED
    BY <1>1, <1>2, <1>3, <1>4, <1>5, <1>6 DEF t

LEMMA RestsFirst ==
    ASSUME NEW s \in Socket, NEW f \in Socket, NEW t \in Socket, NEW seg, Rests(s, f),
           f.state = s.state, Silent(s, f), Ends(f, t, seg)
    PROVE  Ends(s, t, seg)
  <1>1. /\ Finished(f) = Finished(s) /\ Before(f) = Before(s) /\ Settled(f) = Settled(s)
    BY DEF Rests, Finished, Before, Settled
  <1>2. ASSUME NEW m, ~ Carries(m) \/ Utters(f, t, m) PROVE Utters(s, t, m)
    BY <1>2 DEF Carries, Utters, Fin, Rests
  <1>3. Speaks(s, t, seg)
    BY <1>1, <1>2 DEF Ends, Speaks, Rests, Silent
  <1>4. Listens(s, t, seg)
    BY <1>1 DEF Ends, Listens, Rests
  <1> QED
    BY <1>3, <1>4 DEF Ends

LEMMA SendsDataEnds ==
    ASSUME NEW s \in Socket, NEW t, SendsData(s, t), Placed(s), s.size > 0, NEW seg,
           s.state \notin Handshake, Receives(s), Transmits(s)
    PROVE  Ends(s, t, seg) /\ t \in Socket /\ (t.state = "FIN_WAIT_2" => s.state = "FIN_WAIT_2")
  <1>1. /\ t \in Socket /\ t.rcvNext = s.rcvNext /\ t.rxData = s.rxData /\ t.una = s.una
        /\ t.gotFin = s.gotFin /\ t.finSeq = s.finSeq
        /\ t.retxEvent = IF s.retxEvent = "none" THEN "data" ELSE s.retxEvent
    BY DEF SendsData
  <1>2. \/ s.state = "ESTABLISHED" /\ t.state = "FIN_WAIT_1"
        \/ s.state = "CLOSE_WAIT" /\ t.state = "LAST_ACK"
        \/ t.state = s.state
    BY DEF SendsData
  <1>3. Talks(s, t) /\ Settled(t) /\ t.una <= t.highTx
    <2>1. s.closeOnEmpty /\ Before(s) => s.state \in {"ESTABLISHED", "CLOSE_WAIT"}
      BY DEF Before
    <2> QED
      BY <2>1, SendsDataTalks
  <1>4. Finished(t) = Finished(s)
    BY <1>1 DEF Finished
  <1>5. Receives(t)
    BY <1>1, <1>2, <1>4 DEF Receives, Late, Handshake
  <1>6. Listens(s, t, seg)
    BY <1>1, <1>2, <1>4 DEF Listens
  <1>7. t.una >= 1 /\ t.highTx >= 1
    <2>1. t.una \in Nat /\ t.highTx \in Nat
      BY <1>1, SocketNumbers
    <2> QED
      BY <1>1, <1>3, <2>1 DEF Placed
  <1>8. ~ (t.una > t.highTx)
    BY <1>1, <1>3, SocketNumbers
  <1>9. Transmits(t)
    <2>1. Before(t) => Before(s)
      BY <1>3 DEF Talks
    <2> QED
      BY <1>1, <1>3, <1>7, <1>8, <2>1 DEF Transmits
  <1>10. Speaks(s, t, seg)
    BY <1>2, <1>3 DEF Talks, Speaks
  <1> QED
    BY <1>1, <1>2, <1>5, <1>6, <1>9, <1>10 DEF Ends

\* The SYN is acknowledged.
LEMMA JoinsEnds ==
    ASSUME NEW s \in Socket, Local(s), Receives(s), NEW seg, s.state \in Handshake,
           s.nextTx = 0, ~ s.gotFin, NEW j, Joins(s, j), j.state \in {s.state, "ESTABLISHED"},
           j.rcvNext = s.rcvNext \/ j.rcvNext <= 1
    PROVE  /\ Receives(j) /\ Transmits(j) /\ Placed(j) /\ j \in Socket
           /\ j.nextTx = 1 /\ j.highTx = 1 /\ j.una = 1
           /\ \A t \in Socket : t.state # "FIN_WAIT_2" /\ Ends(j, t, seg) => Ends(s, t, seg)
  <1>0. s.rcvNext \in Nat /\ j.rcvNext \in Nat /\ j \in Socket
    BY SocketNumbers DEF Joins
  <1>1. /\ j.nextTx = 1 /\ j.highTx = 1 /\ j.una = 1 /\ j.size = s.size
        /\ j.gotFin = s.gotFin /\ j.finSeq = s.finSeq /\ j.rxData = s.rxData
        /\ j.retxEvent = "none" /\ j.out = s.out /\ j.endPoint = s.endPoint
    BY DEF Joins
  <1>2. ~ Finished(s) /\ ~ Finished(j) /\ Before(s) /\ ~ Settled(s) /\ s.highTx = 0
    BY <1>1 DEF Finished, Before, Settled, Local
  <1>3. Receives(j)
    BY <1>0, <1>1, <1>2 DEF Receives, Late, Handshake
  <1>4. Transmits(j)
    BY <1>1 DEF Transmits, Handshake
  <1>5. Placed(j)
    BY <1>1 DEF Placed
  <1>6. ASSUME NEW t \in Socket, t.state # "FIN_WAIT_2", Ends(j, t, seg) PROVE Ends(s, t, seg)
    <2>1. t.highTx \in Nat /\ t.rcvNext \in Nat
      BY SocketNumbers
    <2>2. \A m : Utters(j, t, m) => Utters(s, t, m)
      BY <1>1 DEF Utters
    <2>3. Speaks(s, t, seg)
      BY <1>1, <1>2, <1>6, <2>1, <2>2 DEF Ends, Speaks
    <2>4. Listens(s, t, seg)
      <3>1. j.state # "CLOSE_WAIT"
        BY DEF Handshake
      <3>2. ASSUME t.rcvNext = j.rcvNext PROVE t.rcvNext = s.rcvNext \/ t.rcvNext <= 1
        BY <1>0, <3>2
      <3> QED
        BY <1>1, <1>2, <1>6, <3>1, <3>2 DEF Ends, Listens
    <2> QED
      BY <1>6, <2>3, <2>4 DEF Ends
  <1> QED
    BY <1>0, <1>1, <1>3, <1>4, <1>5, <1>6

LEMMA SynSentEnds ==
    ASSUME NEW s \in Socket, s.endPoint, Local(s), Receives(s), Transmits(s), NEW seg \in Segment,
           SegOK(seg), s.state = "SYN_SENT", s.nextTx = 0, ~ s.gotFin
    PROVE  Ends(s, ProcessSynSent(s, seg), seg)
  <1> DEFINE c == Connected(s)
             n == seg.seq + 1
             j == [c EXCEPT !.state = "ESTABLISHED", !.rcvNext = n]
             a == SendEmptyPacket(j, "ACK")
             d == SendPendingData(a, FALSE)
             q == [d EXCEPT !.quickAck = TRUE]
             t == ProcessSynSent(s, seg)
  <1>1. CASE seg.kind = "SYN+ACK" /\ t = q
    <2>1. Joins(s, c)
      BY ConnectedFields
    <2>2. n = 1
      BY <1>1 DEF SegOK
    <2>3. Joins(s, j) /\ j.state = "ESTABLISHED" /\ j.rcvNext = 1
      <3>1. n \in Nat
        BY <2>2
      <3> HIDE DEF c, n
      <3>2. Joins(s, j) /\ j.state = "ESTABLISHED" /\ j.rcvNext = n
        BY <2>1, <3>1 DEF Joins, Socket, States
      <3> QED
        BY <2>2, <3>2
    <2> HIDE DEF c, n, j, t
    <2>4. s.state \in Handshake /\ j.rcvNext <= 1
      BY <2>3 DEF Handshake
    <2>5. /\ Receives(j) /\ Transmits(j) /\ Placed(j) /\ j \in Socket
          /\ \A x \in Socket : x.state # "FIN_WAIT_2" /\ Ends(j, x, seg) => Ends(s, x, seg)
      BY <2>3, <2>4, JoinsEnds
    <2>6. j.endPoint
      BY <2>3 DEF Joins
    <2>7. /\ a \in Socket /\ Rests(j, a) /\ a.state = j.state /\ a.endPoint = j.endPoint
          /\ Silent(j, a) /\ Ends(j, a, seg)
      BY <2>5, <2>6, AckRests, AckEnds
    <2> HIDE DEF a
    <2>8. Receives(a) /\ Transmits(a) /\ Placed(a)
      BY <2>5, <2>7 DEF Ends, Rests, Placed
    <2>9. a.state \notin Handshake /\ a.state # "FIN_WAIT_2"
      BY <2>3, <2>7 DEF Handshake
    <2>10. Ends(a, d, seg) /\ d \in Socket /\ d.state # "FIN_WAIT_2"
      <3>1. CASE d = a
        BY <2>7, <2>8, <2>9, <3>1, SelfEnds
      <3>2. CASE d = SendDataPacket(a) /\ a.size > 0
        <4> HIDE DEF d
        <4>1. SendsData(a, d)
          BY <2>7, <3>2, SendDataFields
        <4> QED
          BY <2>7, <2>8, <2>9, <3>2, <4>1, SendsDataEnds
      <3> QED
        BY <3>1, <3>2 DEF SendPendingData
    <2> HIDE DEF d
    <2>11. Ends(j, d, seg)
      BY <2>5, <2>7, <2>10, RestsFirst
    <2>12. Ends(s, d, seg)
      BY <2>5, <2>10, <2>11
    <2>13. /\ q \in Socket /\ Rests(d, q) /\ q.state = d.state /\ q.endPoint = d.endPoint
           /\ q.retxEvent = d.retxEvent /\ q.out = d.out
      BY <2>10 DEF Rests, Socket
    <2> HIDE DEF q
    <2>14. Ends(s, q, seg)
      BY <2>10, <2>12, <2>13, EndsRests DEF Silent
    <2> QED
      BY <1>1, <2>14 DEF t
  <1>2. CASE t = s
    BY <1>2, SelfEnds
  <1>3. CASE t = CloseAndNotify(s) \/ t = ResetAndClose(s)
    BY <1>3, CloseEnds
  <1>4. t = s \/ (seg.kind = "SYN+ACK" /\ t = q) \/ t = CloseAndNotify(s) \/ t = ResetAndClose(s)
    BY DEF ProcessSynSent
  <1> HIDE DEF t, q
  <1> QED
    BY <1>1, <1>2, <1>3, <1>4 DEF t

\* A SYN or SYN+ACK is sent, or the socket gives up.
LEMMA SynEnds ==
    ASSUME NEW s \in Socket, Receives(s), Transmits(s), NEW k \in {"SYN", "SYN+ACK"}, NEW seg,
           NEW t, SynSent(s, t, k)
    PROVE  Ends(s, t, seg) /\ t \in Socket
  <1>1. CASE Leaves(s, t) /\ t.state = "CLOSED" /\ t.out = s.out
    BY <1>1, LeavesEnds DEF Silent, Leaves
  <1>2. CASE /\ t \in Socket /\ Sends(s, t)
             /\ t.retxEvent = IF s.retxEvent = "none" THEN k ELSE s.retxEvent
             /\ Segs(t.out) = Segs(s.out) \cup {EmptySegment(s, k)}
    <2> DEFINE m == EmptySegment(s, k)
    <2>1. m.kind = k /\ m.len = 0
      BY EmptySegmentType DEF Kinds
    <2> HIDE DEF m
    <2>2. Silent(s, t)
      BY <1>2, <2>1 DEF Silent, Carries, m
    <2>3. Rests(s, t) /\ t.state = s.state /\ t.endPoint = s.endPoint
      BY <1>2 DEF Sends, Same, Rests
    <2> QED
      BY <1>2, <2>2, <2>3, RestsEnds
  <1> QED
    BY <1>1, <1>2 DEF SynSent

LEMMA SynRcvdEnds ==
    ASSUME NEW s \in Socket, s.endPoint, Local(s), Receives(s), Transmits(s), NEW seg \in Segment,
           Apt(s, seg), s.state = "SYN_RCVD", NEW reacts \in BOOLEAN,
           s.nextTx = 0, ~ s.gotFin, seg.kind = "SYN" => s.rcvNext <= 1
    PROVE  Ends(s, ProcessSynRcvd(s, seg, reacts), seg)
  <1> DEFINE c == Connected(s)
             n == seg.seq + 1
             j == [c EXCEPT !.state = "ESTABLISHED", !.quickAck = TRUE]
             r == [s EXCEPT !.rcvNext = n]
             t == ProcessSynRcvd(s, seg, reacts)
  <1>0. /\ s.rcvNext \in Nat /\ s.rcvNext >= 1 /\ s.state \in Handshake /\ seg.seq \in Nat
        /\ seg.len \in {0, 1} /\ SegOK(seg)
    BY SocketNumbers, SegmentNumbers DEF Local, Handshake, Apt
  <1>1. Joins(s, c) /\ c.state = s.state /\ c.rcvNext = s.rcvNext
    BY ConnectedFields
  <1>2. CASE seg.kind = "ACK" /\ seg.ack = s.nextTx + 1 /\ t = ReceivedAck(j, seg, reacts)
    <2>1. Joins(s, j) /\ j.state = "ESTABLISHED" /\ j.rcvNext = s.rcvNext
      <3> HIDE DEF c
      <3> QED
        BY <1>1 DEF Joins, Socket, States
    <2>2. seg.kind \in Acking /\ seg.ack = 1 /\ ~ Fin(seg)
      BY <1>2 DEF Acking, Fin
    <2> HIDE DEF j, t
    <2>3. Moves(s, j, seg, FALSE)
      <3>1. seg.ack >= 1 /\ FALSE \in BOOLEAN /\ j.rcvNext >= 1
        BY <1>0, <2>1, <2>2
      <3>2. Shifts(s, j, seg, FALSE) /\ (j.state = "ESTABLISHED" /\ j.rcvNext >= 1 => Moves(s, j, seg, FALSE))
        BY <1>0, <2>1, <2>2, <3>1, JoinsShifts
      <3> QED
        BY <2>1, <3>1, <3>2
    <2>4. /\ j \in Socket /\ Local(j) /\ j.endPoint /\ j.state \in Talking /\ ~ j.gotFin
      BY <2>1, <2>3 DEF Moves, Joins, Talking
    <2>5. /\ Receives(j) /\ Transmits(j) /\ j.nextTx = 1 /\ j.highTx = 1 /\ j.una = 1
          /\ \A x \in Socket : x.state # "FIN_WAIT_2" /\ Ends(j, x, seg) => Ends(s, x, seg)
      BY <1>0, <2>1, JoinsEnds
    <2>6. Apt(j, seg)
      BY <1>0, <2>1, <2>2, <2>4, <2>5 DEF Apt
    <2>7. Heeds(j, t, seg)
      BY <1>2, <2>2, <2>4, <2>5, <2>6, ReceivedAckHeeds
    <2>8. /\ t \in Socket /\ t.highTx >= 1 /\ t.una = 1 /\ t.state # "FIN_WAIT_2"
      BY <2>1, <2>2, <2>5, <2>7 DEF Heeds, Speaks
    <2>9. ~ (t.una > t.highTx)
      BY <2>8, SocketNumbers
    <2>10. Ends(j, t, seg)
      BY <2>2, <2>4, <2>5, <2>7, <2>9, HeedsEnds DEF Ends
    <2> QED
      BY <2>5, <2>8, <2>10 DEF t
  <1>3. CASE seg.kind = "SYN" /\ t = SendEmptyPacket(r, "SYN+ACK")
    <2>1. n = 1 /\ s.rcvNext = 1
      BY <1>0, <1>3 DEF SegOK
    <2>2. r = s
      <3> HIDE DEF n
      <3> QED
        BY <2>1 DEF Socket
    <2> HIDE DEF r, t
    <2>3. SynSent(s, t, "SYN+ACK")
      BY <1>3, <2>2, SendSyn
    <2> QED
      BY <2>3, SynEnds DEF t
  <1>4. CASE HasFin(seg.kind) /\ t = PeerClose(c, seg, reacts)
    <2>1. Fin(seg) /\ seg.seq >= 1
      BY <1>4 DEF HasFin, Fin, Apt
    <2> HIDE DEF c
    <2>2. /\ Receives(c) /\ Transmits(c) /\ Placed(c) /\ c \in Socket
          /\ \A x \in Socket : x.state # "FIN_WAIT_2" /\ Ends(c, x, seg) => Ends(s, x, seg)
      BY <1>0, <1>1, JoinsEnds
    <2>3. c.endPoint /\ c.state = "SYN_RCVD"
      BY <1>1 DEF Joins
    <2>4. Ends(c, t, seg) /\ t.state # "FIN_WAIT_2"
      BY <1>4, <2>1, <2>2, <2>3, PeerCloseEnds
    <2>5. t \in Socket
      <3>1. CASE FinIgnored(c, seg)
        <4>1. t = c
          BY <1>4, <3>1 DEF PeerClose, FinIgnored
        <4> QED
          BY <2>2, <4>1
      <3>2. CASE ~ FinIgnored(c, seg)
        <4>1. PICK x \in Socket : Fins(c, x, seg) /\ (t = x \/ PeerClosed(x, t))
          BY <1>4, <2>2, <2>3, <3>2, PeerCloseFields
        <4> HIDE DEF t
        <4> QED
          BY <4>1 DEF PeerClosed
      <3> QED
        BY <3>1, <3>2
    <2> HIDE DEF t
    <2> QED
      BY <2>2, <2>4, <2>5 DEF t
  <1>5. CASE t = s
    BY <1>5, SelfEnds
  <1>6. CASE t = CloseAndNotify(s) \/ t = ResetAndClose(s)
    BY <1>6, CloseEnds
  <1>7. \/ t = s
        \/ seg.kind = "ACK" /\ seg.ack = s.nextTx + 1 /\ t = ReceivedAck(j, seg, reacts)
        \/ seg.kind = "SYN" /\ t = SendEmptyPacket(r, "SYN+ACK")
        \/ HasFin(seg.kind) /\ t = PeerClose(c, seg, reacts)
        \/ t = CloseAndNotify(s) \/ t = ResetAndClose(s)
    BY DEF ProcessSynRcvd
  <1> HIDE DEF t, j, r, c
  <1> QED
    BY <1>2, <1>3, <1>4, <1>5, <1>6, <1>7 DEF t

LEMMA ClosingEnds ==
    ASSUME NEW s \in Socket, s.endPoint, Receives(s), Transmits(s), NEW seg,
           s.state \in {"CLOSING", "LAST_ACK"}
    PROVE  /\ Ends(s, ProcessClosing(s, seg), seg)
           /\ Ends(s, ProcessLastAck(s, seg), seg)
  <1> DEFINE a == SendEmptyPacket(s, "ACK")
             w == TimeWait(s)
             t == CloseAndNotify(a)
  <1>1. Ends(s, s, seg) /\ Ends(s, CloseAndNotify(s), seg) /\ Ends(s, ResetAndClose(s), seg)
    BY SelfEnds, CloseEnds
  <1>2. Ends(s, w, seg)
    <2>1. /\ w \in Socket /\ w.state = "TIME_WAIT"
          /\ w.nextTx = s.nextTx /\ w.highTx = s.highTx /\ w.una = s.una
          /\ w.size = s.size /\ w.rcvNext = s.rcvNext /\ w.rxData = s.rxData
          /\ w.gotFin = s.gotFin /\ w.finSeq = s.finSeq /\ w.out = s.out /\ w.retxEvent = "none"
      BY TimeWaitFields
    <2> HIDE DEF w
    <2>2. Finished(s) /\ Finished(w) /\ w.gotFin /\ ~ Before(w)
      BY <2>1 DEF Receives, Late, Finished, Before, Handshake
    <2>3. Receives(w)
      BY <2>1, <2>2 DEF Receives, Handshake
    <2>4. Transmits(w)
      BY <2>1, <2>2 DEF Transmits, Handshake
    <2>5. Speaks(s, w, seg)
      BY <2>1, <2>2, SilentSpeaks DEF Silent, Handshake
    <2>6. Listens(s, w, seg)
      BY <2>1, <2>2 DEF Listens
    <2> QED
      BY <2>3, <2>4, <2>5, <2>6 DEF Ends
  <1>3. Ends(s, t, seg)
    <2>1. a \in Socket /\ Silent(s, a) /\ Rests(s, a) /\ Sends(s, a)
      BY AckRests
    <2> HIDE DEF a
    <2>2. Leaves(a, t) /\ t.state = "CLOSED" /\ t.out = a.out
      BY <2>1, CloseAndNotifyFields
    <2> HIDE DEF t
    <2>3. Leaves(s, t) /\ Silent(s, t)
      BY <2>1, <2>2 DEF Leaves, Sends, Same, Silent
    <2> QED
      BY <2>2, <2>3, LeavesEnds
  <1>4. ProcessClosing(s, seg) \in {s, w, t, CloseAndNotify(s), ResetAndClose(s)}
    BY DEF ProcessClosing
  <1>5. ProcessLastAck(s, seg) \in {s, CloseAndNotify(s), ResetAndClose(s)}
    BY DEF ProcessLastAck
  <1> HIDE DEF a, w, t
  <1> QED
    BY <1>1, <1>2, <1>3, <1>4, <1>5

\* A FIN arrives in FIN_WAIT_1, FIN_WAIT_2 or CLOSE_WAIT: the socket after
\* SetFinSequence.
Waited(w) ==
    /\ w.state \in {"CLOSE_WAIT", "LAST_ACK"} => Finished(w)
    /\ Finished(w) /\ w.finSeq = 2 => w.rxData
    /\ ~ Finished(w) /\ w.rcvNext >= 2 => w.rxData
    /\ w.gotFin /\ w.finSeq >= 1
    /\ w.state \in {"FIN_WAIT_1", "FIN_WAIT_2", "CLOSE_WAIT", "LAST_ACK"}

LEMMA WaitFinEnds ==
    ASSUME NEW s \in Socket, s.endPoint, Receives(s), NEW seg \in Segment, Apt(s, seg),
           s.state \in {"FIN_WAIT_1", "FIN_WAIT_2", "CLOSE_WAIT"}, Fin(seg),
           seg.len > 0 => s.state # "CLOSE_WAIT", NEW p, Heeds(s, p, seg)
    PROVE  LET w == SetFinSequence(p, seg.seq)
           IN  /\ w \in Socket /\ w.endPoint /\ Waited(w) /\ Transmits(w)
               /\ Speaks(s, w, seg) /\ Listens(s, w, seg)
  <1> DEFINE w == SetFinSequence(p, seg.seq)
  <1>0. /\ p \in Socket /\ p.endPoint /\ p.gotFin = s.gotFin /\ p.finSeq = s.finSeq
        /\ Ordered(p) /\ Speaks(s, p, seg) /\ Heard(s, p, seg)
    BY DEF Heeds
  <1>1. /\ seg.seq \in Nat /\ seg.seq >= 1 /\ seg.len \in {0, 1} /\ Place(seg) = seg.seq + seg.len
        /\ s.rcvNext \in Nat /\ p.rcvNext \in Nat /\ s.finSeq \in Nat
        /\ seg.len > 0 => seg.seq <= 1
    BY <1>0, SocketNumbers, PlaceNat DEF Place, Apt, SegOK
  <1>2. /\ w \in Socket /\ w.endPoint = p.endPoint /\ w.state = p.state
        /\ w.nextTx = p.nextTx /\ w.highTx = p.highTx /\ w.una = p.una
        /\ w.size = p.size /\ w.gotFin /\ w.finSeq = seg.seq /\ w.retxEvent = p.retxEvent
        /\ w.rcvNext = (IF p.rcvNext = seg.seq THEN p.rcvNext + 1 ELSE p.rcvNext)
        /\ w.rxData = p.rxData /\ w.out = p.out
    <2>1. p \in Socket /\ seg.seq \in Nat
      BY <1>0, <1>1
    <2> QED
      BY ONLY <2>1, SetFinFields
  <1> HIDE DEF w
  <1>3. Before(w) = Before(p) /\ Settled(w) = Settled(p)
    BY <1>2 DEF Before, Settled
  <1>4. Speaks(s, w, seg)
    <2>1. \A m : Utters(s, p, m) => Utters(s, w, m)
      BY <1>2, <1>3 DEF Utters
    <2> QED
      BY <1>0, <1>2, <1>3, <2>1 DEF Speaks
  <1>5. Transmits(w)
    BY <1>0, <1>2, <1>3 DEF Transmits, Ordered
  <1>6. Keeps(s, p) /\ p.state \in {"FIN_WAIT_1", "FIN_WAIT_2", "CLOSE_WAIT", "LAST_ACK"}
    BY <1>0 DEF Heard, Keeps
  <1>7. CASE s.state = "CLOSE_WAIT"
    <2>1. /\ seg.len = 0 /\ seg.seq <= s.rcvNext /\ (~ s.rxData => seg.seq <= 1) /\ Finished(s)
      BY <1>1, <1>7 DEF Apt, Receives, Late
    <2>2. p.rcvNext = s.rcvNext /\ p.rxData = s.rxData
      BY <1>0, <2>1 DEF Heard
    <2>3. Finished(w)
      BY <1>1, <1>2, <2>1, <2>2 DEF Finished
    <2>4. Waited(w)
      BY <1>1, <1>2, <1>6, <2>1, <2>2, <2>3 DEF Waited
    <2>5. Listens(s, w, seg)
      BY <1>2, <1>7, <2>1, <2>2, <2>3 DEF Listens
    <2> QED
      BY <1>0, <1>2, <1>4, <1>5, <2>4, <2>5 DEF w
  <1>8. CASE s.state # "CLOSE_WAIT"
    <2>1. ~ Finished(s) /\ p.state \in {"FIN_WAIT_1", "FIN_WAIT_2"}
      BY <1>6, <1>8 DEF Receives, Keeps
    <2>2. ~ s.rxData => s.rcvNext <= 1
      BY <1>1, <2>1 DEF Receives
    <2>3. CASE seg.len = 0
      <3>1. p.rcvNext = s.rcvNext /\ p.rxData = s.rxData
        BY <1>0, <2>3 DEF Heard
      <3>2. ~ Finished(w) <=> seg.seq > s.rcvNext
        BY <1>1, <1>2, <3>1 DEF Finished
      <3>3. Waited(w)
        BY <1>1, <1>2, <2>1, <2>2, <3>1, <3>2 DEF Waited
      <3>4. Listens(s, w, seg)
        BY <1>1, <1>2, <2>1, <2>2, <2>3, <3>1, <3>2 DEF Listens
      <3> QED
        BY <1>0, <1>2, <1>4, <1>5, <3>3, <3>4 DEF w
    <2>4. CASE seg.len = 1
      <3>1. /\ p.rcvNext >= Place(seg)
            /\ ~ p.rxData => p.rcvNext = s.rcvNext /\ ~ s.rxData
        BY <1>0, <1>1, <2>4 DEF Heard
      <3>2. Finished(w)
        BY <1>1, <1>2, <2>4, <3>1 DEF Finished
      <3>3. Waited(w)
        BY <1>1, <1>2, <2>1, <2>4, <3>2 DEF Waited
      <3>4. Listens(s, w, seg)
        BY <1>1, <1>2, <2>1, <2>2, <3>1, <3>2 DEF Listens
      <3> QED
        BY <1>0, <1>2, <1>4, <1>5, <3>3, <3>4 DEF w
    <2> QED
      BY <1>1, <2>3, <2>4
  <1> QED
    BY <1>7, <1>8

LEMMA WaitLeaveEnds ==
    ASSUME NEW s \in Socket, NEW seg, NEW w \in Socket, w.endPoint, Waited(w), Transmits(w),
           Speaks(s, w, seg), Listens(s, w, seg)
    PROVE  Ends(s, WaitEnd(seg, w), seg)
  <1> DEFINE l == WaitLeave(seg, w)
             a == SendEmptyPacket(l, "ACK")
             e == WaitEnd(seg, w)
  <1>1. CASE e = w /\ ~ (w.state \in {"FIN_WAIT_1", "FIN_WAIT_2"} /\ Finished(w))
    <2>1. Receives(w)
      BY <1>1 DEF Receives, Waited, Late, Handshake
    <2> HIDE DEF e
    <2> QED
      BY <1>1, <2>1 DEF Ends, e
  <1>2. CASE w.state \in {"FIN_WAIT_1", "FIN_WAIT_2"} /\ Finished(w) /\ e = a
    <2>1. /\ l \in Socket /\ l.endPoint = w.endPoint /\ l.state \in {"CLOSING", "TIME_WAIT"}
          /\ l.state = "CLOSING" => w.state = "FIN_WAIT_1"
          /\ Rests(w, l) /\ l.out = w.out /\ l.retxEvent \in {w.retxEvent, "none"}
      <3>1. CASE w.state = "FIN_WAIT_1" /\ l = [w EXCEPT !.state = "CLOSING"]
        <4> HIDE DEF l
        <4> QED
          BY <3>1 DEF Rests, Socket, States
      <3>2. CASE l = TimeWait(w)
        <4> HIDE DEF l
        <4> QED
          BY <3>2, TimeWaitFields DEF Rests
      <3> QED
        BY <3>1, <3>2 DEF WaitLeave
    <2> HIDE DEF l
    <2>2. /\ Finished(l) = Finished(w) /\ ~ Before(l) /\ Settled(l) = Settled(w)
      BY <1>2, <2>1 DEF Rests, Finished, Before, Settled, Handshake
    <2>3. Receives(l)
      BY <1>2, <2>1, <2>2 DEF Receives, Rests, Waited, Handshake
    <2>4. Transmits(l)
      BY <1>2, <2>1, <2>2 DEF Transmits, Rests, Waited, Handshake
    <2>5. \A m : Utters(s, w, m) => Utters(s, l, m)
      BY <2>1, <2>2 DEF Utters, Rests
    <2>6. Speaks(s, l, seg)
      BY <2>1, <2>2, <2>5 DEF Speaks, Rests
    <2>7. Listens(s, l, seg)
      BY <2>1, <2>2 DEF Listens, Rests
    <2>8. Ends(s, l, seg)
      BY <2>3, <2>4, <2>6, <2>7 DEF Ends
    <2>9. /\ a \in Socket /\ Rests(l, a) /\ a.state = l.state /\ a.endPoint = l.endPoint
          /\ a.retxEvent = l.retxEvent /\ Silent(l, a)
      BY <2>1, AckRests
    <2> HIDE DEF a, e
    <2>10. Ends(s, a, seg)
      BY <2>1, <2>8, <2>9, EndsRests
    <2> QED
      BY <1>2, <2>10 DEF e
  <1> QED
    BY <1>1, <1>2 DEF WaitEnd

LEMMA WaitAckEnds ==
    ASSUME NEW s \in Socket, s.endPoint, Local(s), Receives(s), Transmits(s), NEW seg \in Segment,
           Apt(s, seg), s.state \in {"FIN_WAIT_1", "FIN_WAIT_2", "CLOSE_WAIT"}, ~ Fin(seg),
           seg.kind \in Acking, NEW p, Heeds(s, p, seg)
    PROVE  LET w == WaitOn(seg, p) IN Ends(s, w, seg) /\ w.endPoint /\ WaitEnd(seg, w) = w
  <1> DEFINE w == WaitOn(seg, p)
             f == [p EXCEPT !.state = "FIN_WAIT_2"]
  <1>0. s.state \in Talking
    BY DEF Talking
  <1>1. /\ Receives(p) /\ Speaks(s, p, seg) /\ Listens(s, p, seg)
        /\ (p.una > p.highTx /\ ~ p.gotFin => p.state = "FIN_WAIT_2" /\ p.retxEvent # "FIN+ACK")
                  => Transmits(p)
    BY <1>0, HeedsEnds
  <1>2. /\ p \in Socket /\ p.endPoint /\ p.gotFin = s.gotFin /\ Ordered(p)
        /\ p.una = s.una \/ (p.una = seg.ack /\ seg.ack > s.una)
        /\ p.una > p.highTx /\ ~ p.gotFin =>
             /\ p.state = s.state /\ p.highTx = s.highTx
             /\ p.una = s.una => (p.retxEvent = "FIN+ACK" => s.retxEvent = "FIN+ACK")
             /\ p.una # s.una => p.size = 0 /\ p.retxEvent # "FIN+ACK"
    BY DEF Heeds
  <1>3. /\ s.una \in Nat /\ s.highTx \in Nat /\ s.nextTx \in Nat /\ p.una \in Nat
        /\ p.highTx \in Nat /\ seg.ack \in Nat
    BY <1>2, SocketNumbers, SegmentNumbers
  <1>4. ASSUME s.una > s.highTx, ~ s.gotFin
        PROVE  s.state = "FIN_WAIT_2" /\ s.retxEvent # "FIN+ACK"
    BY <1>4 DEF Transmits
  <1>5. CASE p.state = "FIN_WAIT_1" /\ FinAck(seg, p)
    <2>1. s.state = "FIN_WAIT_1" /\ p.highTx = s.highTx
      BY <1>5 DEF Heeds, Heard, Keeps
    <2>2. seg.ack = s.highTx + 1
      BY <1>5, <2>1 DEF FinAck
    <2>3. /\ f \in Socket /\ f.endPoint = p.endPoint /\ f.state = "FIN_WAIT_2" /\ Rests(p, f)
          /\ f.out = p.out /\ f.retxEvent = p.retxEvent
      BY <1>2 DEF Rests, Socket, States
    <2>4. w = f
      BY <1>5 DEF WaitOn, HasFin, Fin
    <2> HIDE DEF f, w
    <2>5. /\ Finished(f) = Finished(p) /\ ~ Before(f) /\ Settled(f) = Settled(p)
          /\ ~ Finished(p)
      BY <1>1, <1>5, <2>3 DEF Rests, Finished, Before, Settled, Handshake, Receives
    <2>6. Receives(f)
      BY <1>1, <2>3, <2>5 DEF Receives, Rests, Late
    <2>7. ASSUME f.una > f.highTx, ~ f.gotFin PROVE f.retxEvent # "FIN+ACK"
      BY <1>2, <1>4, <2>1, <2>3, <2>7 DEF Rests
    <2>8. Settled(p)
      BY <1>2, <1>5 DEF Ordered
    <2>9. Transmits(f)
      BY <1>2, <2>3, <2>5, <2>7, <2>8 DEF Transmits, Rests, Ordered
    <2>10. \A m : Utters(s, p, m) => Utters(s, f, m)
      BY <2>3, <2>5 DEF Utters, Rests
    <2>11. s.highTx >= 1
      BY <2>1 DEF Transmits, Handshake
    <2>12. Speaks(s, f, seg)
      BY <1>1, <2>2, <2>3, <2>5, <2>10, <2>11 DEF Speaks, Rests
    <2>13. Listens(s, f, seg)
      BY <1>1, <2>3, <2>5 DEF Listens, Rests
    <2>14. WaitEnd(seg, f) = f
      BY <2>5 DEF WaitEnd
    <2> QED
      BY <1>2, <2>3, <2>4, <2>6, <2>9, <2>12, <2>13, <2>14 DEF Ends, w
  <1>6. CASE ~ (p.state = "FIN_WAIT_1" /\ FinAck(seg, p))
    <2>1. w = p
      BY <1>6 DEF WaitOn, HasFin, Fin
    <2>2. ASSUME p.una > p.highTx, ~ p.gotFin
          PROVE  p.state = "FIN_WAIT_2" /\ p.retxEvent # "FIN+ACK"
      <3>1. CASE p.una = s.una
        BY <1>2, <1>4, <2>2, <3>1
      <3>2. CASE p.una # s.una
        <4>1. s.state # "CLOSE_WAIT"
          BY <1>2, <2>2 DEF Receives, Late, Finished
        <4>2. ASSUME s.state = "FIN_WAIT_1" PROVE FALSE
          <5>1. s.nextTx = s.highTx
            BY <1>2, <1>3, <1>4, <2>2, <4>2 DEF Local
          <5>2. seg.ack <= s.nextTx + 1
            BY DEF Apt
          <5>3. seg.ack = p.highTx + 1 /\ p.size = 0 /\ p.state = "FIN_WAIT_1"
            BY <1>2, <1>3, <2>2, <3>2, <4>2, <5>1, <5>2
          <5> QED
            BY <1>6, <5>3 DEF FinAck
        <4> QED
          BY <1>2, <2>2, <3>2, <4>1, <4>2
      <3> QED
        BY <3>1, <3>2
    <2>3. Transmits(p)
      BY <1>1, <2>2
    <2>4. WaitEnd(seg, p) = p
      BY <1>1 DEF WaitEnd, Receives
    <2> HIDE DEF w
    <2> QED
      BY <1>1, <1>2, <2>1, <2>3, <2>4 DEF Ends, w
  <1> QED
    BY <1>5, <1>6

LEMMA WaitEnds ==
    ASSUME NEW s \in Socket, s.endPoint, Local(s), Receives(s), Transmits(s), NEW seg \in Segment,
           Apt(s, seg), s.state \in {"FIN_WAIT_1", "FIN_WAIT_2", "CLOSE_WAIT"},
           NEW reacts \in BOOLEAN, seg.kind # "RST+ACK", seg.len > 0 => s.state # "CLOSE_WAIT"
    PROVE  Ends(s, ProcessWait(s, seg, reacts), seg)
  <1> DEFINE p == ReceivedAck(s, seg, reacts)
             w == WaitOn(seg, p)
             t == ProcessWait(s, seg, reacts)
  <1>1. CASE HasSyn(seg.kind)
    <2>1. t = s
      BY <1>1 DEF ProcessWait, HasSyn
    <2> QED
      BY <2>1, SelfEnds
  <1>2. CASE seg.kind = "RST"
    <2>1. t = CloseAndNotify(s)
      BY <1>2 DEF ProcessWait, HasSyn
    <2> QED
      BY <2>1, CloseEnds
  <1>3. CASE ~ HasSyn(seg.kind) /\ seg.kind # "RST"
    <2>1. t = WaitEnd(seg, w)
      BY <1>3, ProcessWaitIs
    <2>2. seg.kind \in {"ACK", "FIN+ACK"} /\ seg.kind \in Acking /\ s.state \in Talking
      BY <1>3 DEF HasSyn, Segment, Kinds, Acking, Talking
    <2>3. Heeds(s, p, seg)
      BY <2>2, ReceivedAckHeeds
    <2> HIDE DEF p, t
    <2>4. CASE Fin(seg)
      <3>1. w = SetFinSequence(p, seg.seq)
        BY <2>4 DEF WaitOn, HasFin, Fin
      <3> HIDE DEF w
      <3>2. /\ w \in Socket /\ w.endPoint /\ Waited(w) /\ Transmits(w)
            /\ Speaks(s, w, seg) /\ Listens(s, w, seg)
        BY <2>3, <2>4, <3>1, WaitFinEnds
      <3> QED
        BY <2>1, <3>2, WaitLeaveEnds DEF t
    <2>5. CASE ~ Fin(seg)
      <3>1. Ends(s, w, seg) /\ WaitEnd(seg, w) = w
        BY <2>2, <2>3, <2>5, WaitAckEnds
      <3> QED
        BY <2>1, <3>1 DEF t
    <2> QED
      BY <2>4, <2>5
  <1> QED
    BY <1>1, <1>2, <1>3

\* Whatever arrives, the FINs stay where they belong.
LEMMA ForwardUpEnds ==
    ASSUME NEW s \in Socket, s.endPoint, NEW more \in BOOLEAN, Sound(s, more), Local(s),
           Receives(s), Transmits(s), NEW seg \in Segment, Apt(s, seg),
           NEW reacts \in BOOLEAN, s.state = "SYN_RCVD" /\ seg.kind = "SYN" => s.rcvNext <= 1
    PROVE  Ends(s, ForwardUp(s, seg, reacts), seg)
  <1> DEFINE t == ForwardUp(s, seg, reacts)
  <1>0. /\ Open(s, more) /\ s.state # "CLOSED" /\ s.state \in States
        /\ s.state \in Handshake => s.nextTx = 0 /\ ~ s.gotFin
        /\ SegOK(seg)
    BY DEF Sound, Open, Socket, Apt
  <1>1. CASE t = SendEmptyPacket(s, "ACK")
    BY <1>1, AckEnds
  <1>2. CASE t = s
    BY <1>2, SelfEnds
  <1>3. CASE s.state = "ESTABLISHED" /\ t = ProcessEstablished(s, seg, reacts)
    BY <1>3, EstablishedEnds
  <1>4. CASE s.state = "SYN_SENT" /\ t = ProcessSynSent(s, seg)
    <2>1. s.nextTx = 0 /\ ~ s.gotFin
      BY <1>0, <1>4 DEF Handshake
    <2> QED
      BY <1>0, <1>4, <2>1, SynSentEnds
  <1>5. CASE s.state = "SYN_RCVD" /\ t = ProcessSynRcvd(s, seg, reacts)
    <2>1. s.nextTx = 0 /\ ~ s.gotFin
      BY <1>0, <1>5 DEF Handshake
    <2> QED
      BY <1>5, <2>1, SynRcvdEnds
  <1>6. CASE /\ s.state \in {"FIN_WAIT_1", "FIN_WAIT_2", "CLOSE_WAIT"}
             /\ seg.kind # "RST+ACK" /\ ~ (seg.len > 0 /\ OutOfRange(s, seg))
             /\ t = ProcessWait(s, seg, reacts)
    <2>1. seg.len > 0 => s.state # "CLOSE_WAIT"
      <3> SUFFICES ASSUME seg.len > 0, s.state = "CLOSE_WAIT" PROVE FALSE
        OBVIOUS
      <3>1. seg.seq <= 1 /\ s.rcvNext >= 2 /\ seg.seq \in Nat /\ s.rcvNext \in Nat
        BY <1>0, SocketNumbers, SegmentNumbers DEF SegOK, Local
      <3>2. seg.seq # s.rcvNext
        BY <3>1
      <3>3. OutOfRange(s, seg)
        BY <3>2 DEF OutOfRange
      <3> QED
        BY <1>6, <3>3
    <2> QED
      BY <1>6, <2>1, WaitEnds
  <1>7. CASE s.state = "CLOSING" /\ t = ProcessClosing(s, seg)
    BY <1>7, ClosingEnds
  <1>8. CASE s.state = "LAST_ACK" /\ t = ProcessLastAck(s, seg)
    BY <1>8, ClosingEnds
  <1>9. \/ t = SendEmptyPacket(s, "ACK")
        \/ t = s
        \/ s.state = "ESTABLISHED" /\ t = ProcessEstablished(s, seg, reacts)
        \/ s.state = "SYN_SENT" /\ t = ProcessSynSent(s, seg)
        \/ s.state = "SYN_RCVD" /\ t = ProcessSynRcvd(s, seg, reacts)
        \/ /\ s.state \in {"FIN_WAIT_1", "FIN_WAIT_2", "CLOSE_WAIT"}
           /\ seg.kind # "RST+ACK" /\ ~ (seg.len > 0 /\ OutOfRange(s, seg))
           /\ t = ProcessWait(s, seg, reacts)
        \/ s.state = "CLOSING" /\ t = ProcessClosing(s, seg)
        \/ s.state = "LAST_ACK" /\ t = ProcessLastAck(s, seg)
    <2>1. CASE seg.len > 0 /\ OutOfRange(s, seg)
      <3>0. seg.kind # "RST+ACK"
        BY <1>0, <2>1 DEF SegOK
      <3>1. t = SendEmptyPacket(s, "ACK")
        BY <2>1, <3>0 DEF ForwardUp
      <3> QED
        BY <3>1
    <2>2. CASE ~ (seg.len > 0 /\ OutOfRange(s, seg))
      BY <2>2 DEF ForwardUp
    <2> QED
      BY <2>1, <2>2
  <1> HIDE DEF t
  <1> QED
    BY <1>1, <1>2, <1>3, <1>4, <1>5, <1>6, <1>7, <1>8, <1>9 DEF t

-----------------------------------------------------------------------------
(* The timers and the applications.                                         *)

\* A FIN is sent, for the first time or again.
LEMMA FinEnds ==
    ASSUME NEW s \in Socket, Local(s), Receives(s), Transmits(s), NEW seg,
           s.state \notin Handshake \cup {"CLOSED"}, NEW t \in Socket, Same(s, t),
           Segs(t.out) = Segs(s.out) \cup {EmptySegment(s, "FIN+ACK")},
           t.retxEvent \in {s.retxEvent, "FIN+ACK"}, ~ Before(t), Settled(t),
           s.una > s.highTx => s.gotFin,
           \/ t.state = s.state
           \/ s.state = "ESTABLISHED" /\ t.state = "FIN_WAIT_1"
           \/ s.state = "CLOSE_WAIT" /\ t.state = "LAST_ACK"
    PROVE  Ends(s, t, seg)
  <1> DEFINE m == EmptySegment(s, "FIN+ACK")
  <1>1. m \in Segment /\ m.len = 0 /\ m.seq = s.nextTx
    BY EmptySegmentType DEF Kinds
  <1> HIDE DEF m
  <1>2. /\ Rests(s, t) /\ t.highTx >= s.highTx /\ t.una = s.una /\ t.highTx = s.highTx
        /\ t.gotFin = s.gotFin
    BY SocketNumbers DEF Same, Rests
  <1>3. Placed(s)
    BY LocalPlaced
  <1>4. s.una <= s.highTx \/ s.gotFin
    BY SocketNumbers
  <1>5. Utters(s, t, m)
    BY <1>1, <1>2, <1>3, <1>4, FinUtters DEF Placed
  <1>6. Speaks(s, t, seg)
    BY <1>2, <1>5 DEF Speaks, Rests, m
  <1>7. Finished(t) = Finished(s)
    BY <1>2 DEF Rests, Finished
  <1>8. Receives(t)
    BY <1>2, <1>7 DEF Receives, Rests, Late, Handshake
  <1>9. Listens(s, t, seg)
    BY <1>2, <1>7 DEF Listens, Rests
  <1>10. Transmits(t)
    BY <1>2, <1>3 DEF Transmits, Placed
  <1> QED
    BY <1>6, <1>8, <1>9, <1>10 DEF Ends

LEMMA FinAgainEnds ==
    ASSUME NEW s \in Socket, s.endPoint, Local(s), Receives(s), Transmits(s), NEW seg,
           s.state \notin Handshake \cup {"CLOSED"}, ~ Before(s), Settled(s),
           s.una > s.highTx => s.gotFin
    PROVE  LET t == SendEmptyPacket(s, "FIN+ACK")
           IN  Ends(s, t, seg) /\ t \in Socket
  <1> DEFINE t == SendEmptyPacket(s, "FIN+ACK")
  <1>1. /\ t \in Socket /\ Sends(s, t) /\ t.retxEvent \in {s.retxEvent, "FIN+ACK"}
        /\ Segs(t.out) = Segs(s.out) \cup {EmptySegment(s, "FIN+ACK")}
    BY SendEmpty
  <1> HIDE DEF t
  <1>2. Same(s, t) /\ t.state = s.state
    BY <1>1 DEF Sends
  <1>3. ~ Before(t) /\ Settled(t)
    BY <1>2 DEF Same, Before, Settled
  <1> QED
    BY <1>1, <1>2, <1>3, FinEnds DEF t

\* A timer is taken off, or the count of its retries.
Idles(s, f) ==
    /\ f \in Socket /\ Rests(s, f) /\ f.state = s.state /\ f.endPoint = s.endPoint
    /\ f.retxEvent \in {s.retxEvent, "none"} /\ f.out = s.out
    /\ f.closeOnEmpty = s.closeOnEmpty

LEMMA IdlesEnds ==
    ASSUME NEW s \in Socket, Local(s), Receives(s), Transmits(s), NEW f, Idles(s, f), NEW seg,
           f.delAckEvent => s.delAckEvent, f.failed = s.failed
    PROVE  /\ Receives(f) /\ Transmits(f) /\ Local(f) /\ Ends(s, f, seg)
           /\ Before(f) = Before(s) /\ Settled(f) = Settled(s)
           /\ \A t \in Socket : Ends(f, t, seg) => Ends(s, t, seg)
  <1>1. Silent(s, f)
    BY DEF Silent, Idles
  <1>2. Ends(s, f, seg)
    BY <1>1, RestsEnds DEF Idles
  <1>3. \A t \in Socket : Ends(f, t, seg) => Ends(s, t, seg)
    BY <1>1, RestsFirst DEF Idles
  <1>4. Local(f)
    BY DEF Local, Idles, Rests
  <1>5. Before(f) = Before(s) /\ Settled(f) = Settled(s)
    BY DEF Idles, Rests, Before, Settled
  <1> QED
    BY <1>2, <1>3, <1>4, <1>5 DEF Ends

LEMMA PendingEnds ==
    ASSUME NEW s \in Socket, Local(s), Receives(s), Transmits(s), NEW seg,
           s.state \notin Handshake \cup {"CLOSED"}, NEW resend \in BOOLEAN
    PROVE  LET t == SendPendingData(s, resend)
           IN  Ends(s, t, seg) /\ t \in Socket
  <1> DEFINE t == SendPendingData(s, resend)
  <1>1. CASE t = s
    BY <1>1, SelfEnds
  <1>2. CASE t = SendDataPacket(s) /\ s.size > 0
    <2>1. SendsData(s, t)
      BY <1>2, SendDataFields
    <2>2. Placed(s)
      BY LocalPlaced
    <2> HIDE DEF t
    <2>3. Ends(s, t, seg) /\ t \in Socket
      BY <1>2, <2>1, <2>2, SendsDataEnds
    <2> QED
      BY <2>3 DEF t
  <1> QED
    BY <1>1, <1>2 DEF SendPendingData

LEMMA ReTxTimeoutEnds ==
    ASSUME NEW s \in Socket, s.endPoint, Local(s), Receives(s), Transmits(s), NEW seg,
           s.state \notin Handshake \cup {"CLOSED"}
    PROVE  Ends(s, ReTxTimeout(s), seg) /\ ReTxTimeout(s) \in Socket
  <1>0. s.size \in {0, 1}
    BY SocketNumbers
  <1>1. CASE s.size = 0
    <2>1. CASE s.state \in {"FIN_WAIT_1", "CLOSING"}
      <3>1. ReTxTimeout(s) = SendEmptyPacket(s, "FIN+ACK")
        BY <1>1, <2>1 DEF ReTxTimeout
      <3>2. ~ Before(s) /\ Settled(s) /\ (s.una > s.highTx => s.gotFin)
        BY <2>1 DEF Before, Handshake, Transmits
      <3> QED
        BY <3>1, <3>2, FinAgainEnds
    <2>2. CASE s.state \notin {"FIN_WAIT_1", "CLOSING"}
      <3>1. ReTxTimeout(s) = s
        BY <1>1, <2>2 DEF ReTxTimeout
      <3> QED
        BY <3>1, SelfEnds
    <2> QED
      BY <2>1, <2>2
  <1>2. CASE s.size > 0 /\ s.dataRetrCount = 0
    <2>0. s.size # 0
      BY <1>0, <1>2
    <2>1. ReTxTimeout(s) = DeallocateEndPoint(s)
      BY <1>2, <2>0, Zenon DEF ReTxTimeout
    <2>2. DeallocateEndPoint(s) \in Socket
      BY DeallocateFields DEF Leaves
    <2> QED
      BY <2>1, <2>2, CloseEnds
  <1>3. CASE s.size > 0 /\ s.dataRetrCount # 0
    <2> DEFINE c == s.dataRetrCount - 1
               g == [s EXCEPT !.dataRetrCount = c]
    <2>0. s.size # 0
      BY <1>0, <1>3
    <2>1. c \in Nat
      BY <1>3 DEF Socket
    <2>2. ReTxTimeout(s) = SendPendingData(g, TRUE)
      BY <1>3, <2>0, Zenon DEF ReTxTimeout
    <2> HIDE DEF c
    <2>3. Idles(s, g) /\ g.delAckEvent = s.delAckEvent /\ g.failed = s.failed
      BY <2>1 DEF Idles, Rests, Socket
    <2> HIDE DEF g
    <2>4. g \in Socket /\ g.state \notin Handshake \cup {"CLOSED"}
      BY <2>3 DEF Idles
    <2>5. Receives(g) /\ Transmits(g) /\ Local(g) /\ \A t \in Socket : Ends(g, t, seg) => Ends(s, t, seg)
      BY <2>3, IdlesEnds
    <2>6. SendPendingData(g, TRUE) \in Socket /\ Ends(g, SendPendingData(g, TRUE), seg)
      BY <2>4, <2>5, PendingEnds
    <2> QED
      BY <2>2, <2>5, <2>6
  <1> QED
    BY <1>0, <1>1, <1>2, <1>3

\* What m_retxEvent runs.
LEMMA RetransmitEnds ==
    ASSUME NEW s \in Socket, NEW more \in BOOLEAN, Sound(s, more), Local(s), Receives(s),
           Transmits(s), NEW seg, s.retxEvent # "none"
    PROVE  Ends(s, Retransmit(s), seg) /\ Retransmit(s) \in Socket
  <1> DEFINE f == [s EXCEPT !.retxEvent = "none"]
             t == Retransmit(s)
  <1>0. /\ s.endPoint /\ Open(s, more) /\ s.state # "CLOSED"
        /\ s.state \in Handshake => s.nextTx = 0 /\ s.retxEvent # "data"
    BY DEF Sound, Quiet, Open
  <1>1. Idles(s, f) /\ f.delAckEvent = s.delAckEvent /\ f.failed = s.failed /\ f.endPoint
    BY <1>0 DEF Idles, Rests, Socket, RetxKinds
  <1>2. /\ s.retxEvent = "data" => t = ReTxTimeout(f)
        /\ s.retxEvent # "data" => t = SendEmptyPacket(f, s.retxEvent)
    BY DEF Retransmit
  <1> HIDE DEF f, t
  <1>3. f \in Socket /\ f.state = s.state /\ f.una = s.una /\ f.highTx = s.highTx /\ f.gotFin = s.gotFin
    BY <1>1 DEF Idles, Rests
  <1>4. /\ Receives(f) /\ Transmits(f) /\ Local(f)
        /\ Before(f) = Before(s) /\ Settled(f) = Settled(s)
        /\ \A x \in Socket : Ends(f, x, seg) => Ends(s, x, seg)
    BY <1>1, IdlesEnds
  <1>5. CASE s.retxEvent = "data"
    <2>1. f.state \notin Handshake \cup {"CLOSED"}
      BY <1>0, <1>3, <1>5
    <2>2. Ends(f, t, seg) /\ t \in Socket
      BY <1>1, <1>2, <1>3, <1>4, <1>5, <2>1, ReTxTimeoutEnds
    <2> QED
      BY <1>4, <2>2 DEF t
  <1>6. CASE s.retxEvent \in {"SYN", "SYN+ACK"}
    <2> DEFINE k == s.retxEvent
    <2>1. s.state \in Handshake
      BY <1>6 DEF Local, Handshake
    <2>2. k \in {"SYN", "SYN+ACK"} /\ t = SendEmptyPacket(f, k)
      BY <1>2, <1>6
    <2> HIDE DEF k
    <2>3. SynSent(f, t, k)
      BY <1>1, <1>3, <2>2, SendSyn
    <2>4. Ends(f, t, seg) /\ t \in Socket
      BY <1>3, <1>4, <2>2, <2>3, SynEnds
    <2> QED
      BY <1>4, <2>4 DEF t
  <1>7. CASE s.retxEvent = "FIN+ACK"
    <2>1. t = SendEmptyPacket(f, "FIN+ACK")
      BY <1>2, <1>7
    <2>2. f.state \notin Handshake \cup {"CLOSED"}
      BY <1>0, <1>3, <1>7 DEF Local
    <2>3. ~ Before(s) /\ Settled(s) /\ (s.una > s.highTx => s.gotFin)
      BY <1>0, <1>7 DEF Transmits
    <2>4. Ends(f, t, seg) /\ t \in Socket
      BY <1>1, <1>3, <1>4, <2>1, <2>2, <2>3, FinAgainEnds
    <2> QED
      BY <1>4, <2>4 DEF t
  <1>8. s.retxEvent \in {"data", "SYN", "SYN+ACK", "FIN+ACK"}
    BY DEF Socket, RetxKinds
  <1> QED
    BY <1>5, <1>6, <1>7, <1>8

LEMMA LastAckEnds ==
    ASSUME NEW s \in Socket, NEW more \in BOOLEAN, Sound(s, more), Local(s), Receives(s),
           Transmits(s), NEW seg, s.lastAckEvent
    PROVE  Ends(s, LastAckTimeout(s), seg)
  <1> DEFINE f == [s EXCEPT !.lastAckEvent = FALSE]
             t == LastAckTimeout(s)
  <1>1. s.endPoint /\ s.state = "LAST_ACK" /\ s.state \notin Handshake \cup {"CLOSED"}
    BY DEF Sound, Quiet, Open, Handshake
  <1>2. CASE s.dataRetrCount = 0
    <2>1. t = DeallocateEndPoint(f)
      BY <1>1, <1>2 DEF LastAckTimeout
    <2>2. Idles(s, f) /\ f.delAckEvent = s.delAckEvent /\ f.failed = s.failed
      BY DEF Idles, Rests, Socket
    <2> HIDE DEF f, t
    <2>3. f \in Socket
      BY <2>2 DEF Idles
    <2>4. Receives(f) /\ Transmits(f) /\ \A x \in Socket : Ends(f, x, seg) => Ends(s, x, seg)
      BY <2>2, IdlesEnds
    <2>5. Ends(f, t, seg) /\ t \in Socket
      BY <2>1, <2>3, <2>4, CloseEnds, DeallocateFields DEF Leaves
    <2> QED
      BY <2>4, <2>5 DEF t
  <1>3. CASE s.dataRetrCount # 0
    <2> DEFINE c == s.dataRetrCount - 1
               g == [f EXCEPT !.dataRetrCount = c]
               a == SendEmptyPacket(g, "FIN+ACK")
    <2>1. c \in Nat
      BY <1>3 DEF Socket
    <2>2. t = [a EXCEPT !.lastAckEvent = TRUE]
      BY <1>1, <1>3 DEF LastAckTimeout
    <2> HIDE DEF c
    <2>3. Idles(s, g) /\ g.delAckEvent = s.delAckEvent /\ g.failed = s.failed
      BY <2>1 DEF Idles, Rests, Socket
    <2> HIDE DEF g, t
    <2>4. /\ g \in Socket /\ g.endPoint /\ g.state = "LAST_ACK" /\ g.state \notin Handshake \cup {"CLOSED"}
      BY <1>1, <2>3 DEF Idles
    <2>5. /\ Receives(g) /\ Transmits(g) /\ Local(g)
          /\ \A x \in Socket : Ends(g, x, seg) => Ends(s, x, seg)
      BY <2>3, IdlesEnds
    <2>6. ~ Before(g) /\ Settled(g) /\ (g.una > g.highTx => g.gotFin)
      BY <2>4, <2>5 DEF Before, Transmits, Handshake
    <2>7. Ends(g, a, seg) /\ a \in Socket
      BY <2>4, <2>5, <2>6, FinAgainEnds
    <2> HIDE DEF a
    <2>8. /\ t \in Socket /\ Rests(a, t) /\ t.state = a.state /\ t.endPoint = a.endPoint
          /\ t.retxEvent = a.retxEvent /\ t.out = a.out
      BY <2>2, <2>7 DEF Rests, Socket
    <2>9. Ends(g, t, seg)
      BY <2>4, <2>7, <2>8, EndsRests DEF Silent
    <2> QED
      BY <2>5, <2>8, <2>9 DEF t
  <1> QED
    BY <1>2, <1>3

LEMMA EventEnds ==
    ASSUME NEW s \in Socket, NEW more \in BOOLEAN, Sound(s, more), Local(s), Receives(s),
           Transmits(s), NEW seg
    PROVE  /\ s.delAckEvent =>
                  Ends(s, SendEmptyPacket([s EXCEPT !.delAckEvent = FALSE], "ACK"), seg)
           /\ s.sendPendingDataEvent =>
                  Ends(s, SendPendingData([s EXCEPT !.sendPendingDataEvent = FALSE], FALSE), seg)
  <1>1. ASSUME s.delAckEvent
        PROVE  Ends(s, SendEmptyPacket([s EXCEPT !.delAckEvent = FALSE], "ACK"), seg)
    <2> DEFINE f == [s EXCEPT !.delAckEvent = FALSE]
    <2>1. s.endPoint
      BY <1>1 DEF Sound, Quiet
    <2>2. Idles(s, f) /\ ~ f.delAckEvent /\ f.failed = s.failed
      BY DEF Idles, Rests, Socket
    <2> HIDE DEF f
    <2>3. f \in Socket /\ f.endPoint
      BY <2>1, <2>2 DEF Idles
    <2>4. Receives(f) /\ Transmits(f) /\ \A x \in Socket : Ends(f, x, seg) => Ends(s, x, seg)
      BY <2>2, IdlesEnds
    <2>5. Ends(f, SendEmptyPacket(f, "ACK"), seg) /\ SendEmptyPacket(f, "ACK") \in Socket
      BY <2>3, <2>4, AckEnds, AckRests
    <2> QED
      BY <2>4, <2>5 DEF f
  <1>2. ASSUME s.sendPendingDataEvent
        PROVE  Ends(s, SendPendingData([s EXCEPT !.sendPendingDataEvent = FALSE], FALSE), seg)
    <2> DEFINE f == [s EXCEPT !.sendPendingDataEvent = FALSE]
    <2>1. s.state \notin Handshake \cup {"CLOSED"}
      BY <1>2 DEF Sound, Quiet, Open, Handshake
    <2>2. Idles(s, f) /\ f.delAckEvent = s.delAckEvent /\ f.failed = s.failed
      BY DEF Idles, Rests, Socket
    <2> HIDE DEF f
    <2>3. f \in Socket /\ f.state \notin Handshake \cup {"CLOSED"}
      BY <2>1, <2>2 DEF Idles
    <2>4. /\ Receives(f) /\ Transmits(f) /\ Local(f)
          /\ \A x \in Socket : Ends(f, x, seg) => Ends(s, x, seg)
      BY <2>2, IdlesEnds
    <2>5. Ends(f, SendPendingData(f, FALSE), seg) /\ SendPendingData(f, FALSE) \in Socket
      BY <2>3, <2>4, PendingEnds
    <2> QED
      BY <2>4, <2>5 DEF f
  <1> QED
    BY <1>1, <1>2

\* The FIN of DoClose is behind all that was written.
LEMMA DoCloseEnds ==
    ASSUME NEW s \in Socket, s.endPoint, Local(s), Receives(s), Transmits(s), NEW seg,
           s.state \notin {"SYN_RCVD", "CLOSED"}, Sent(s)
    PROVE  Ends(s, DoClose(s), seg) /\ DoClose(s) \in Socket
  <1> DEFINE t == DoClose(s)
  <1>1. CASE s.state \in {"ESTABLISHED", "CLOSE_WAIT"}
    <2>1. /\ s.state = "ESTABLISHED" => SendsFin(s, t, "FIN_WAIT_1")
          /\ s.state = "CLOSE_WAIT" => SendsFin(s, t, "LAST_ACK")
      BY DoCloseFields
    <2> HIDE DEF t
    <2>2. /\ t \in Socket /\ Same(s, t) /\ Segs(t.out) = Segs(s.out) \cup {EmptySegment(s, "FIN+ACK")}
          /\ t.retxEvent \in {s.retxEvent, "FIN+ACK"} /\ t.state \in {"FIN_WAIT_1", "LAST_ACK"}
          /\ s.state = "ESTABLISHED" => t.state = "FIN_WAIT_1"
          /\ s.state = "CLOSE_WAIT" => t.state = "LAST_ACK"
      BY <1>1, <2>1 DEF SendsFin
    <2>3. s.state \notin Handshake \cup {"CLOSED"}
      BY <1>1 DEF Handshake
    <2>4. Settled(s)
      BY <2>3, SentSettled
    <2>5. ~ Before(t) /\ Settled(t)
      BY <2>2, <2>4 DEF Same, Before, Settled, Handshake
    <2>6. s.una > s.highTx => s.gotFin
      BY <1>1 DEF Transmits
    <2> QED
      BY <1>1, <2>2, <2>3, <2>5, <2>6, FinEnds DEF t
  <1>2. CASE s.state \in {"SYN_SENT", "CLOSING"}
    <2>1. Leaves(s, t) /\ t.state = "CLOSED" /\ Segs(t.out) = Segs(s.out) \cup {EmptySegment(s, "RST")}
      BY <1>2, DoCloseFields
    <2>2. EmptySegment(s, "RST").kind = "RST" /\ EmptySegment(s, "RST").len = 0
      BY EmptySegmentType DEF Kinds
    <2> HIDE DEF t
    <2>3. Silent(s, t) /\ t \in Socket
      BY <2>1, <2>2 DEF Silent, Carries, Leaves
    <2> QED
      BY <2>1, <2>3, LeavesEnds DEF t
  <1>3. CASE s.state \notin {"ESTABLISHED", "CLOSE_WAIT", "SYN_SENT", "CLOSING"}
    <2>1. t = s
      BY <1>3, DoCloseFields
    <2> QED
      BY <2>1, SelfEnds
  <1> QED
    BY <1>1, <1>2, <1>3

LEMMA AppCloseEnds ==
    ASSUME NEW s \in Socket, s.endPoint, Local(s), Receives(s), Transmits(s), NEW seg,
           s.state \notin {"SYN_RCVD", "CLOSED"}
    PROVE  Ends(s, Close(s), seg) /\ Ends(s, ShutdownSend(s), seg)
  <1> DEFINE c == [s EXCEPT !.closeOnEmpty = TRUE]
             u == [s EXCEPT !.shutdownSend = TRUE, !.closeOnEmpty = TRUE]
  <1>1. c \in Socket /\ Rests(s, c) /\ c.state = s.state /\ c.endPoint = s.endPoint
        /\ c.retxEvent = s.retxEvent /\ c.out = s.out
    BY DEF Rests, Socket
  <1>2. /\ u \in Socket /\ Rests(s, u) /\ u.state = s.state /\ u.endPoint = s.endPoint
        /\ u.retxEvent = s.retxEvent /\ u.out = s.out /\ u.delAckEvent = s.delAckEvent
        /\ u.failed = s.failed
    BY DEF Rests, Socket
  <1>3. Close(s) = c \/ (Sent(s) /\ Close(s) = DoClose(s))
    BY DEF Close, Sent
  <1>4. ShutdownSend(s) = u \/ (s.size = 0 /\ ShutdownSend(s) = DoClose(u))
    BY DEF ShutdownSend
  <1> HIDE DEF c, u
  <1>5. Ends(s, c, seg) /\ Ends(s, u, seg) /\ Silent(s, u)
    BY <1>1, <1>2, RestsEnds DEF Silent
  <1>6. Ends(s, Close(s), seg)
    BY <1>3, <1>5, DoCloseEnds
  <1>7. ASSUME s.size = 0 PROVE Ends(s, DoClose(u), seg)
    <2>1. Sent(u) /\ Local(u)
      BY <1>2, <1>7 DEF Sent, Rests, Local
    <2>2. Ends(u, DoClose(u), seg) /\ DoClose(u) \in Socket
      BY <1>2, <1>5, <2>1, DoCloseEnds DEF Ends
    <2> QED
      BY <1>2, <1>5, <2>2, RestsFirst
  <1> QED
    BY <1>4, <1>5, <1>6, <1>7

-----------------------------------------------------------------------------
(* The close of the connection, and its steps.                              *)

EndsClose ==
    \A p \in Peers :
        /\ Receives(sock[p]) /\ Transmits(sock[p])
        /\ Closes(sock[p], sock[Other(p)], Segs(net[p]), "Send" \in app[Other(p)])

LEMMA FlushCloses ==
    ASSUME NEW t \in Socket, NEW o, NEW I, NEW O, NEW send
    PROVE  LET u == [t EXCEPT !.out = <<>>]
           IN  /\ Receives(t) /\ Transmits(t) => Receives(u) /\ Transmits(u)
               /\ Closes(t, o, I, send) => Closes(u, o, I, send)
               /\ Closes(o, t, I, send) => Closes(o, u, I, send)
               /\ Tied(u, o, I, O, send) => Tied(t, o, I, O, send)
  <1> DEFINE e == <<>>
             u == [t EXCEPT !.out = e]
  <1>0. e \in Seq(Segment)
    OBVIOUS
  <1> HIDE DEF e
  <1>1. /\ u \in Socket /\ u.endPoint = t.endPoint /\ u.state = t.state
        /\ u.nextTx = t.nextTx /\ u.highTx = t.highTx /\ u.una = t.una /\ u.size = t.size
        /\ u.rcvNext = t.rcvNext /\ u.gotFin = t.gotFin /\ u.finSeq = t.finSeq
        /\ u.closeOnEmpty = t.closeOnEmpty /\ u.failed = t.failed /\ u.retxEvent = t.retxEvent
        /\ u.delAckEvent = t.delAckEvent /\ u.rxData = t.rxData
    BY <1>0 DEF Socket
  <1> HIDE DEF u
  <1>2. /\ Local(u) => Local(t)
        /\ NoFinYet(u, send) => NoFinYet(t, send)
        /\ MaySend(u, send) <=> MaySend(t, send)
        /\ Unsent(u) => Unsent(t)
    BY <1>1 DEF Local, NoFinYet, MaySend, Unsent
  <1>3. (Finished(u) <=> Finished(t)) /\ (Before(u) <=> Before(t)) /\ (Settled(u) <=> Settled(t))
    BY <1>1 DEF Finished, Before, Settled
  <1>4. Receives(t) /\ Transmits(t) => Receives(u) /\ Transmits(u)
    BY <1>1, <1>3 DEF Receives, Transmits
  <1>5. Closes(t, o, I, send) => Closes(u, o, I, send)
    BY <1>1, <1>3 DEF Closes
  <1>6. Closes(o, t, I, send) => Closes(o, u, I, send)
    BY <1>1, <1>2, <1>3 DEF Closes, Sealed
  <1>7. Tied(u, o, I, O, send) => Tied(t, o, I, O, send)
    BY <1>1, <1>2 DEF Tied
  <1> QED
    BY <1>4, <1>5, <1>6, <1>7 DEF u, e

\* The socket of p moves, by a segment that arrives or by itself.
LEMMA CloseStep ==
    ASSUME SocketsSound, EndsTied, EndsClose, EndsTied', NEW p \in Peers, NEW t \in Socket,
           NEW seg \in Segment,
           \/ net'[p] = net[p] /\ seg = Silence
           \/ net[p] # <<>> /\ net'[p] = Tail(net[p]) /\ seg = Head(net[p]),
           net'[Other(p)] = net[Other(p)] \o t.out,
           sock' = [sock EXCEPT ![p] = [t EXCEPT !.out = <<>>]],
           app'[p] \subseteq app[p], app'[Other(p)] = app[Other(p)],
           Ends(sock[p], t, seg), Holds(sock[p], t, seg, "Send" \in app'[p]),
           t.rcvNext >= sock[p].rcvNext
    PROVE  EndsClose'
  <1> DEFINE s == sock[p]   o == sock[Other(p)]
             I == Segs(net[p])   O == Segs(net[Other(p)])
             J == Segs(net'[p])  P == Segs(net'[Other(p)])
             u == [t EXCEPT !.out = <<>>]
             send == "Send" \in app[p]     still == "Send" \in app'[p]
             osend == "Send" \in app[Other(p)]
  <1>0. /\ Other(p) \in Peers /\ Other(p) # p /\ (\A q \in Peers : q = p \/ q = Other(p))
        /\ Other(Other(p)) = p
    BY OtherPeer DEF Peers, Other
  <1>1. /\ s \in Socket /\ o \in Socket /\ Segs(s.out) = {}
        /\ I \in SUBSET Segment /\ O \in SUBSET Segment
        /\ net[p] \in Seq(Segment) /\ net[Other(p)] \in Seq(Segment)
    BY <1>0, SocketsFacts
  <1>2. t.out \in Seq(Segment)
    BY DEF Socket
  <1>3. seg \in I \cup {Silence} /\ J \in SUBSET I
    BY <1>1, TailElements
  <1>4. P \in SUBSET (O \cup Segs(t.out))
    BY <1>1, <1>2, SegsConcat
  <1>5. send \in BOOLEAN /\ still \in BOOLEAN /\ osend \in BOOLEAN /\ (still => send)
    OBVIOUS
  <1>6. Tied(s, o, I, O, send) /\ Tied(o, s, O, I, osend)
    BY <1>0 DEF EndsTied
  <1>7. sock'[p] = u /\ sock'[Other(p)] = o
    BY <1>0 DEF SocketsSound
  <1>8. /\ Receives(s) /\ Transmits(s) /\ Closes(s, o, I, osend)
        /\ Receives(o) /\ Transmits(o) /\ Closes(o, s, O, send)
    BY <1>0 DEF EndsClose
  <1>9. Tied(sock'[p], sock'[Other(p)], J, P, still)
    BY <1>0 DEF EndsTied
  <1>10. /\ Receives(t) /\ Transmits(t) /\ Speaks(s, t, seg) /\ Listens(s, t, seg)
         /\ Holds(s, t, seg, still) /\ t.rcvNext >= s.rcvNext
    BY DEF Ends
  <1> HIDE DEF s, o, I, O, J, P, u, send, still, osend
  <1>11. Tied(t, o, J, P, still)
    BY <1>7, <1>9, FlushCloses DEF u
  <1>12. Closes(t, o, J, osend)
    BY <1>1, <1>3, <1>6, <1>8, <1>10, ClosesSelf
  <1>13. Closes(o, t, P, still)
    <2>1. /\ o \in Socket /\ s \in Socket /\ t \in Socket
          /\ I \in SUBSET Segment /\ O \in SUBSET Segment /\ Segs(s.out) = {}
          /\ Closes(o, s, O, send) /\ (s.gotFin => ~ Before(o)) /\ Receives(o)
          /\ Speaks(s, t, seg) /\ Holds(s, t, seg, still)
      BY <1>1, <1>8, <1>10 DEF Closes, Sealed
    <2>2. t.una <= o.rcvNext /\ (MaySend(t, still) => \A m \in P : ~ Carries(m))
      BY <1>11 DEF Tied
    <2>3. seg.kind \in Acking => seg.ack <= o.rcvNext
      BY <1>3, <1>6, SilenceSegment DEF Tied
    <2>4. \A m \in P : m \in O \/ Utters(s, t, m)
      BY <1>1, <1>4, <1>10 DEF Speaks
    <2> QED
      BY <1>5, <2>1, <2>2, <2>3, <2>4, ClosesOther
  <1>14. Receives(u) /\ Transmits(u) /\ Closes(u, o, J, osend) /\ Closes(o, u, P, still)
    BY <1>10, <1>12, <1>13, FlushCloses DEF u
  <1>15. ASSUME NEW q \in Peers
         PROVE  /\ Receives(sock'[q]) /\ Transmits(sock'[q])
                /\ Closes(sock'[q], sock'[Other(q)], Segs(net'[q]), "Send" \in app'[Other(q)])
    BY <1>0, <1>7, <1>8, <1>14 DEF J, P, still, osend
  <1> QED
    BY <1>15 DEF EndsClose

\* The same for a handler that takes nothing from the network.
LEMMA BecomesClose ==
    ASSUME SocketsSound, EndsTied, EndsClose, EndsTied', NEW p \in Peers, NEW t \in Socket,
           Becomes(p, t), app'[p] \subseteq app[p], app'[Other(p)] = app[Other(p)],
           Ends(sock[p], t, Silence), Holds(sock[p], t, Silence, "Send" \in app'[p]),
           t.rcvNext >= sock[p].rcvNext
    PROVE  EndsClose'
  <1>1. Other(p) \in Peers /\ Other(p) # p
    BY OtherPeer
  <1>2. net' = [net EXCEPT ![Other(p)] = net[Other(p)] \o t.out]
    BY DEF Becomes
  <1>3. net'[p] = net[p] /\ net'[Other(p)] = net[Other(p)] \o t.out
    BY <1>1, <1>2 DEF SocketsSound
  <1>4. sock' = [sock EXCEPT ![p] = [t EXCEPT !.out = <<>>]]
    BY DEF Becomes
  <1> QED
    BY <1>3, <1>4, SilenceSegment, CloseStep

LEMMA CloseFacts ==
    ASSUME EndsClose, NEW p \in Peers
    PROVE  /\ Receives(sock[p]) /\ Transmits(sock[p])
           /\ Closes(sock[p], sock[Other(p)], Segs(net[p]), "Send" \in app[Other(p)])
  BY DEF EndsClose

LEMMA MovesClose ==
    ASSUME NEW s, NEW t, NEW seg, NEW send, Moves(s, t, seg, send)
    PROVE  t \in Socket /\ Holds(s, t, seg, send) /\ t.rcvNext >= s.rcvNext
  BY DEF Moves, Emits

LEMMA DeliverClose ==
    ASSUME NEW p \in Peers, SocketsSound, EndsTied, EndsClose, EndsTied', Deliver(p)
    PROVE  EndsClose'
  <1> DEFINE seg == Head(net[p])
             o   == Other(p)
             send == "Send" \in app[p]
  <1>1. PICK reacts \in BOOLEAN : \E s \in {ForwardUp(sock[p], seg, reacts)} :
         /\ sock' = [sock EXCEPT ![p] = [s EXCEPT !.out = <<>>]]
         /\ net' = [net EXCEPT ![p] = Tail(@), ![Other(p)] = @ \o s.out]
    BY DEF Deliver
  <1> DEFINE t == ForwardUp(sock[p], seg, reacts)
  <1>2. /\ sock' = [sock EXCEPT ![p] = [t EXCEPT !.out = <<>>]]
        /\ net' = [net EXCEPT ![p] = Tail(@), ![o] = @ \o t.out]
        /\ app' = app /\ net[p] # <<>> /\ sock[p].endPoint
    BY <1>1 DEF Deliver
  <1>3. o \in Peers /\ o # p /\ Other(o) = p
    BY OtherPeer DEF Peers, Other
  <1>4. /\ sock[p] \in Socket /\ net[p] \in Seq(Segment) /\ Sound(sock[p], MayClose(app[p]))
        /\ MayClose(app[p]) \in BOOLEAN /\ sock[o] \in Socket /\ Segs(net[p]) \in SUBSET Segment
    BY <1>3, SocketsFacts
  <1>5. seg \in Segs(net[p]) /\ seg \in Segment
    BY <1>2, <1>4, TailElements, TailType
  <1>6. Local(sock[p]) /\ NoFinYet(sock[p], send) /\ SegOK(seg) /\ send \in BOOLEAN
    BY <1>5, EndFacts
  <1>7. ASSUME sock[p].state = "SYN_RCVD", seg.kind = "SYN" PROVE sock[p].rcvNext <= 1
    <2>1. p = "server"
      BY <1>7 DEF EndsTied, Peers
    <2>2. Early(sock["client"], sock["server"], Segs(net["client"]), Segs(net["server"]))
      BY DEF EndsTied
    <2> HIDE DEF seg
    <2> QED
      BY <1>5, <1>7, <2>1, <2>2 DEF Early
  <1> HIDE DEF seg, send
  <1>8. Moves(sock[p], t, seg, send)
    BY <1>2, <1>4, <1>5, <1>6, <1>7, ForwardUpMoves
  <1>9. /\ Receives(sock[p]) /\ Transmits(sock[p])
        /\ Closes(sock[p], sock[o], Segs(net[p]), "Send" \in app[o])
    BY CloseFacts
  <1>10. /\ Tied(sock[p], sock[o], Segs(net[p]), Segs(net[o]), "Send" \in app[p])
         /\ Tied(sock[o], sock[p], Segs(net[o]), Segs(net[p]), "Send" \in app[o])
    BY <1>3 DEF EndsTied
  <1> HIDE DEF o
  <1>11. Apt(sock[p], seg)
    BY <1>4, <1>5, <1>9, <1>10, SegmentApt
  <1>12. Ends(sock[p], t, seg)
    BY <1>2, <1>4, <1>5, <1>6, <1>7, <1>9, <1>11, ForwardUpEnds
  <1> HIDE DEF t
  <1>13. t \in Socket /\ Holds(sock[p], t, seg, send) /\ t.rcvNext >= sock[p].rcvNext
    BY <1>8, MovesClose
  <1>14. net'[p] = Tail(net[p]) /\ net'[o] = net[o] \o t.out
    BY <1>2, <1>3 DEF SocketsSound
  <1>15. /\ net'[Other(p)] = net[Other(p)] \o t.out /\ app'[Other(p)] = app[Other(p)]
         /\ app'[p] \subseteq app[p] /\ seg = Head(net[p])
         /\ Holds(sock[p], t, seg, "Send" \in app'[p])
    BY <1>2, <1>13, <1>14 DEF o, seg, send
  <1> QED
    BY <1>2, <1>5, <1>12, <1>13, <1>14, <1>15, CloseStep

\* A SYN that is sent again changes nothing else.
LEMMA SynAgainHolds ==
    ASSUME NEW s \in Socket, s.endPoint, s.retxEvent = "SYN", NEW seg, NEW send
    PROVE  Holds(s, Retransmit(s), seg, send) /\ Retransmit(s).rcvNext = s.rcvNext
  <1> DEFINE f == [s EXCEPT !.retxEvent = "none"]
             t == SendEmptyPacket(f, "SYN")
  <1>1. Retransmit(s) = t
    BY DEF Retransmit
  <1>2. /\ f \in Socket /\ f.highTx = s.highTx /\ f.una = s.una
        /\ f.size = s.size /\ f.rcvNext = s.rcvNext /\ f.state = s.state /\ f.out = s.out
        /\ f.endPoint = s.endPoint /\ f.closeOnEmpty = s.closeOnEmpty
    BY DEF Socket, RetxKinds
  <1> HIDE DEF f
  <1>3. f.endPoint
    BY <1>2
  <1>4. SynSent(f, t, "SYN")
    BY <1>2, <1>3, SendSyn
  <1>5. ~ Carries(EmptySegment(f, "SYN"))
    BY DEF EmptySegment, Carries
  <1> HIDE DEF t
  <1>6. t.rcvNext = s.rcvNext
    BY <1>2, <1>4 DEF SynSent, Leaves, Sends, Same
  <1>7. ASSUME MaySend(t, send)
        PROVE  MaySend(s, send) /\ (Unsent(s) => Unsent(t)) /\ Silent(s, t)
    <2>1. t.endPoint
      BY <1>7 DEF MaySend
    <2>2. Sends(f, t) /\ Segs(t.out) = Segs(f.out) \cup {EmptySegment(f, "SYN")}
      BY <1>4, <2>1 DEF SynSent, Leaves
    <2>3. MaySend(s, send) /\ (Unsent(s) => Unsent(t))
      BY <1>2, <1>7, <2>2 DEF Sends, Same, MaySend, Unsent
    <2>4. Silent(s, t)
      BY <1>2, <1>5, <2>2 DEF Silent
    <2> QED
      BY <2>3, <2>4
  <1>8. Holds(s, t, seg, send)
    BY <1>7 DEF Holds
  <1> QED
    BY <1>1, <1>6, <1>8

LEMMA TimersClose ==
    ASSUME NEW p \in Peers, SocketsSound, EndsTied, EndsClose, EndsTied'
    PROVE  /\ SendPendingDataEvent(p) => EndsClose'
           /\ RetransmitEvent(p) => EndsClose'
           /\ LastAckEvent(p) => EndsClose'
           /\ DelAckTimeout(p) => EndsClose'
           /\ TimeWaitEnds(p) => EndsClose'
  <1> DEFINE send == "Send" \in app[p]
             s == sock[p]
             m == MayClose(app[p])
  <1>1. /\ s \in Socket /\ Sound(s, m) /\ m \in BOOLEAN /\ send \in BOOLEAN
        /\ Local(s) /\ NoFinYet(s, send) /\ Receives(s) /\ Transmits(s)
    BY SocketsFacts, EndFacts, CloseFacts
  <1> HIDE DEF m
  <1>2. ASSUME app' = app, NEW t \in Socket, Becomes(p, t), Ends(s, t, Silence),
               Holds(s, t, Silence, send), t.rcvNext >= s.rcvNext
        PROVE  EndsClose'
    <2>1. app'[p] \subseteq app[p] /\ app'[Other(p)] = app[Other(p)]
      BY <1>2
    <2>2. Holds(sock[p], t, Silence, "Send" \in app'[p])
      BY <1>2
    <2> QED
      BY <1>2, <2>1, <2>2, BecomesClose
  <1>3. Silence \in Segment
    BY SilenceSegment
  <1>4. s.retxEvent # "none" => s.endPoint
    BY ScheduledOpen
  <1> HIDE DEF send, s
  <1>5. ASSUME app' = app, NEW t, Becomes(p, t), Ends(s, t, Silence), Moves(s, t, Silence, send)
        PROVE  EndsClose'
    <2>1. t \in Socket /\ Holds(s, t, Silence, send) /\ t.rcvNext >= s.rcvNext
      BY <1>5, MovesClose
    <2> QED
      BY <1>2, <1>5, <2>1
  <1>6. ASSUME SendPendingDataEvent(p) PROVE EndsClose'
    <2> DEFINE t == SendPendingData([s EXCEPT !.sendPendingDataEvent = FALSE], FALSE)
    <2>1. s.sendPendingDataEvent /\ Becomes(p, t) /\ app' = app
      BY <1>6 DEF SendPendingDataEvent, s
    <2>2. Moves(s, t, Silence, send) /\ Ends(s, t, Silence)
      BY <1>1, <1>3, <2>1, EventMoves, EventEnds
    <2> HIDE DEF t
    <2> QED
      BY <1>5, <2>1, <2>2
  <1>7. ASSUME RetransmitEvent(p) PROVE EndsClose'
    <2> DEFINE t == Retransmit(s)
    <2>1. s.retxEvent # "none" /\ Becomes(p, t) /\ app' = app
      BY <1>7 DEF RetransmitEvent, s
    <2>2. Ends(s, t, Silence) /\ t \in Socket
      BY <1>1, <2>1, RetransmitEnds
    <2>3. CASE s.retxEvent = "SYN"
      <3>1. Holds(s, t, Silence, send) /\ t.rcvNext = s.rcvNext
        BY <1>1, <1>4, <2>3, SynAgainHolds
      <3>2. s.rcvNext \in Nat
        BY <1>1, SocketNumbers
      <3> HIDE DEF t
      <3>3. t.rcvNext >= s.rcvNext
        BY <3>1, <3>2
      <3> QED
        BY <1>2, <2>1, <2>2, <3>1, <3>3
    <2>4. CASE s.retxEvent # "SYN"
      <3>1. Moves(s, t, Silence, send)
        BY <1>1, <1>3, <2>1, <2>4, RetransmitMoves
      <3> HIDE DEF t
      <3> QED
        BY <1>5, <2>1, <2>2, <3>1
    <2> QED
      BY <2>3, <2>4
  <1>8. ASSUME LastAckEvent(p) PROVE EndsClose'
    <2> DEFINE t == LastAckTimeout(s)
    <2>1. s.lastAckEvent /\ Becomes(p, t) /\ app' = app
      BY <1>8 DEF LastAckEvent, s
    <2>2. Moves(s, t, Silence, send) /\ Ends(s, t, Silence)
      BY <1>1, <1>3, <2>1, LastAckMoves, LastAckEnds
    <2> HIDE DEF t
    <2> QED
      BY <1>5, <2>1, <2>2
  <1>9. ASSUME DelAckTimeout(p) PROVE EndsClose'
    <2> DEFINE t == SendEmptyPacket([s EXCEPT !.delAckEvent = FALSE], "ACK")
    <2>1. s.delAckEvent /\ Becomes(p, t) /\ app' = app
      BY <1>9 DEF DelAckTimeout, s
    <2>2. Moves(s, t, Silence, send) /\ Ends(s, t, Silence)
      BY <1>1, <1>3, <2>1, EventMoves, EventEnds
    <2> HIDE DEF t
    <2> QED
      BY <1>5, <2>1, <2>2
  <1>10. ASSUME TimeWaitEnds(p) PROVE EndsClose'
    <2> DEFINE t == CloseAndNotify(s)
    <2>1. Becomes(p, t) /\ app' = app
      BY <1>10 DEF TimeWaitEnds, s
    <2>2. Moves(s, t, Silence, send) /\ Ends(s, t, Silence)
      BY <1>1, <1>3, CloseMoves, CloseEnds
    <2> HIDE DEF t
    <2> QED
      BY <1>5, <2>1, <2>2
  <1> QED
    BY <1>6, <1>7, <1>8, <1>9, <1>10

LEMMA AppClosesClose ==
    ASSUME NEW p \in Peers, SocketsSound, EndsTied, EndsClose, EndsTied'
    PROVE  /\ AppClose(p) => EndsClose'
           /\ AppShutdownSend(p) => EndsClose'
  <1> DEFINE s == sock[p]
  <1>1. /\ s \in Socket /\ Local(s) /\ (s.endPoint => s.state # "CLOSED") /\ Silence \in Segment
        /\ Receives(s) /\ Transmits(s)
    BY SocketsFacts, EndFacts, CloseFacts, SilenceSegment
  <1>2. Other(p) \in Peers /\ Other(p) # p
    BY OtherPeer
  <1>3. ASSUME AppClose(p) PROVE EndsClose'
    <2> DEFINE t == Close(s)
    <2>1. s.endPoint /\ s.state # "SYN_RCVD" /\ Becomes(p, t) /\ app' = [app EXCEPT ![p] = {}]
      BY <1>3 DEF AppClose, HasSocket
    <2>2. Moves(s, t, Silence, FALSE) /\ Ends(s, t, Silence)
      BY <1>1, <2>1, AppCloseMoves, AppCloseEnds
    <2> HIDE DEF t
    <2>3. app'[p] = {} /\ app'[Other(p)] = app[Other(p)]
      BY <1>2, <2>1 DEF SocketsSound
    <2>4. ("Send" \in app'[p]) = FALSE /\ app'[p] \subseteq app[p]
      BY <2>3
    <2>5. t \in Socket /\ Holds(s, t, Silence, FALSE) /\ t.rcvNext >= s.rcvNext
      BY <2>2, MovesClose
    <2>6. Holds(s, t, Silence, "Send" \in app'[p])
      BY <2>4, <2>5
    <2> QED
      BY <2>1, <2>2, <2>3, <2>4, <2>5, <2>6, BecomesClose
  <1>4. ASSUME AppShutdownSend(p) PROVE EndsClose'
    <2> DEFINE t == ShutdownSend(s)
               send == "Send" \in app'[p]
    <2>1. /\ s.endPoint /\ s.state # "SYN_RCVD" /\ Becomes(p, t)
          /\ app' = [app EXCEPT ![p] = app[p] \ {"ShutdownSend"}]
      BY <1>4 DEF AppShutdownSend, HasSocket
    <2>2. send \in BOOLEAN
      OBVIOUS
    <2>3. Moves(s, t, Silence, send) /\ Ends(s, t, Silence)
      <3> HIDE DEF send
      <3> QED
        BY <1>1, <2>1, <2>2, AppShutdownMoves, AppCloseEnds
    <2> HIDE DEF t
    <2>4. app'[p] \subseteq app[p] /\ app'[Other(p)] = app[Other(p)]
      BY <1>2, <2>1 DEF SocketsSound
    <2>5. t \in Socket /\ Holds(s, t, Silence, "Send" \in app'[p]) /\ t.rcvNext >= s.rcvNext
      BY <2>3, MovesClose
    <2> QED
      BY <2>1, <2>3, <2>4, <2>5, BecomesClose
  <1> QED
    BY <1>3, <1>4

\* The sender t has not closed, and nothing of it was heard but the SYN.
LEMMA OpenSender ==
    ASSUME NEW s, NEW t, NEW J, NEW still, Receives(s), ~ s.gotFin, s.rcvNext <= 1,
           \A m \in J : ~ Carries(m), t.state # "FIN_WAIT_2"
    PROVE  Closes(s, t, J, still)
  <1>1. \A m \in J : ~ Fin(m) /\ ~ (m.len > 0)
    BY DEF Carries, Fin
  <1>2. ~ Finished(s) /\ s.state # "CLOSE_WAIT"
    BY DEF Receives, Finished, Late
  <1> QED
    BY <1>1, <1>2 DEF Closes

\* The receiver is replaced by one that has heard nothing but the SYN.
LEMMA OpenReceiver ==
    ASSUME NEW s, NEW o, NEW I, NEW send, ~ Finished(s), Closes(s, o, I, send),
           NEW t, ~ t.gotFin, t.rcvNext <= 1, t.state # "CLOSE_WAIT", NEW J, J \subseteq I
    PROVE  Closes(t, o, J, send)
  BY DEF Closes, Finished

\* The two ends, given one by one.
LEMMA CloseParts ==
    ASSUME NEW p \in Peers,
           Receives(sock'[p]), Transmits(sock'[p]),
           Receives(sock'[Other(p)]), Transmits(sock'[Other(p)]),
           Closes(sock'[p], sock'[Other(p)], Segs(net'[p]), "Send" \in app'[Other(p)]),
           Closes(sock'[Other(p)], sock'[p], Segs(net'[Other(p)]), "Send" \in app'[p])
    PROVE  EndsClose'
  <1>1. Other(Other(p)) = p /\ \A q \in Peers : q = p \/ q = Other(p)
    BY DEF Peers, Other
  <1>2. ASSUME NEW q \in Peers
        PROVE  /\ Receives(sock'[q]) /\ Transmits(sock'[q])
               /\ Closes(sock'[q], sock'[Other(q)], Segs(net'[q]), "Send" \in app'[Other(q)])
    BY <1>1
  <1> QED
    BY <1>2 DEF EndsClose

\* What is written now finds a peer that has heard of no end of the data.
LEMMA SendClose ==
    ASSUME NEW p \in Peers, SocketsSound, EndsTied, EndsClose, Send(p)
    PROVE  EndsClose'
  <1> DEFINE s == sock[p]
             o == sock[Other(p)]
             I == Segs(net[p])
             O == Segs(net[Other(p)])
             e == s.state # "SYN_SENT"
             t == [s EXCEPT !.size = 1, !.sendPendingDataEvent = e]
             u == [t EXCEPT !.out = <<>>]
             still == "Send" \in app'[p]
             osend == "Send" \in app[Other(p)]
  <1>1. /\ s.endPoint /\ s.state \in {"ESTABLISHED", "SYN_SENT", "CLOSE_WAIT"}
        /\ ~ s.closeOnEmpty /\ "Send" \in app[p]
        /\ Becomes(p, t) /\ app' = [app EXCEPT ![p] = app[p] \ {"Send"}]
    BY DEF Send, HasSocket
  <1>2. Other(p) \in Peers /\ Other(p) # p /\ Other(Other(p)) = p
    BY OtherPeer DEF Peers, Other
  <1>3. /\ s \in Socket /\ Local(s) /\ NoFinYet(s, "Send" \in app[p]) /\ e \in BOOLEAN
        /\ s.out = <<>> /\ net[p] \in Seq(Segment) /\ net[Other(p)] \in Seq(Segment)
    BY <1>2, SocketsFacts, EndFacts
  <1>4. s.retxEvent # "FIN+ACK"
    BY <1>1, <1>3 DEF NoFinYet, Local, Handshake
  <1>5. MaySend(s, "Send" \in app[p])
    BY <1>1 DEF MaySend, Handshake
  <1>6. o.rcvNext <= 1 /\ \A m \in O : ~ Carries(m)
    BY <1>5 DEF EndsTied, Tied
  <1>7. /\ Receives(s) /\ Transmits(s) /\ Closes(s, o, I, osend)
        /\ Receives(o) /\ Transmits(o) /\ Closes(o, s, O, "Send" \in app[p])
    BY <1>2, CloseFacts
  <1>8. ~ o.gotFin
    BY <1>5, <1>7 DEF Closes, Sealed
  <1>9. app'[Other(p)] = app[Other(p)]
    BY <1>1, <1>2 DEF SocketsSound
  <1>10. sock'[p] = u /\ sock'[Other(p)] = o /\ net' = [net EXCEPT ![Other(p)] = @ \o t.out]
    BY <1>1, <1>2 DEF SocketsSound, Becomes
  <1> HIDE DEF e
  <1>11. /\ t \in Socket /\ t.endPoint = s.endPoint /\ t.state = s.state
         /\ t.nextTx = s.nextTx /\ t.highTx = s.highTx /\ t.una = s.una
         /\ t.rcvNext = s.rcvNext /\ t.gotFin = s.gotFin /\ t.finSeq = s.finSeq
         /\ t.rxData = s.rxData /\ t.retxEvent = s.retxEvent /\ t.out = s.out
    BY <1>3 DEF Socket
  <1> HIDE DEF t
  <1>12. net[Other(p)] \o t.out = net[Other(p)]
    BY <1>3, <1>11
  <1>13. net'[p] = net[p] /\ net'[Other(p)] = net[Other(p)]
    BY <1>2, <1>10, <1>12 DEF SocketsSound
  <1> HIDE DEF s, o, I, O, u, still, osend
  <1>14. /\ Finished(t) <=> Finished(s)
         /\ Before(t) <=> Before(s)
    BY <1>11 DEF Finished, Before
  <1>15. Receives(t)
    BY <1>7, <1>11, <1>14 DEF Receives
  <1>16. Transmits(t)
    BY <1>1, <1>4, <1>7, <1>11, <1>14 DEF Transmits
  <1>17. Closes(t, o, I, osend)
    BY <1>7, <1>11, <1>14 DEF Closes
  <1>18. Closes(o, t, O, still)
    <2>1. t.state # "FIN_WAIT_2"
      BY <1>1, <1>11
    <2> QED
      BY <1>6, <1>7, <1>8, <2>1, OpenSender
  <1>19. Receives(u) /\ Transmits(u) /\ Closes(u, o, I, osend) /\ Closes(o, u, O, still)
    BY <1>11, <1>15, <1>16, <1>17, <1>18, FlushCloses DEF u
  <1> QED
    BY <1>7, <1>9, <1>10, <1>13, <1>19, CloseParts DEF I, O, still, osend

LEMMA NetClose == EndsClose /\ NetOnly => EndsClose'
  <1> SUFFICES ASSUME EndsClose, NetOnly PROVE EndsClose'
    OBVIOUS
  <1>1. ASSUME NEW p \in Peers
        PROVE  Closes(sock[p], sock[Other(p)], Segs(net'[p]), "Send" \in app[Other(p)])
    <2>1. Closes(sock[p], sock[Other(p)], Segs(net[p]), "Send" \in app[Other(p)])
      BY CloseFacts
    <2>2. \A m \in Segs(net'[p]) : m \in Segs(net[p]) \/ (~ Fin(m) /\ ~ (m.len > 0))
      BY DEF NetOnly, Idle, Carries, Fin
    <2> QED
      BY <2>1, <2>2 DEF Closes
  <1> QED
    BY <1>1 DEF EndsClose, NetOnly

\* The client of a new connection, and the server that heard nothing of it.
LEMMA ConnectClose ==
    ASSUME SocketsSound, EndsTied, EndsClose, Connect
    PROVE  EndsClose'
  <1> DEFINE n == SynRetries
             b == [sock["client"] EXCEPT !.endPoint = TRUE, !.synCount = n]
             a == SendEmptyPacket(b, "SYN")
             t == [a EXCEPT !.state = "SYN_SENT"]
             u == [t EXCEPT !.out = <<>>]
             c == sock["client"]   o == sock["server"]
             C == Segs(net["client"])   S == Segs(net["server"])   T == Segs(net'["server"])
             csend == "Send" \in app["client"]   ssend == "Send" \in app["server"]
  <1>1. n \in Nat /\ n # 0
    BY ConnectionAssumption
  <1>2. c = NewSocket /\ Becomes("client", t) /\ app' = app
    BY DEF Connect
  <1>3. /\ NewSocket.nextTx = 0 /\ NewSocket.highTx = 0 /\ NewSocket.una = 0
        /\ NewSocket.size = 0 /\ NewSocket.rcvNext = 0 /\ ~ NewSocket.gotFin
        /\ NewSocket.retxEvent = "none" /\ NewSocket.state = "CLOSED" /\ NewSocket.out = <<>>
    BY DEF NewSocket
  <1>4. sock' = [sock EXCEPT !["client"] = u] /\ net' = [net EXCEPT !["server"] = @ \o t.out]
    BY <1>2 DEF Becomes, Other
  <1> HIDE DEF n
  <1>5. /\ b \in Socket /\ b.endPoint /\ b.synCount # 0 /\ b.nextTx = 0 /\ b.highTx = 0
        /\ b.una = 0 /\ b.size = 0 /\ b.rcvNext = 0 /\ b.state = "CLOSED"
        /\ b.retxEvent = "none" /\ b.out = <<>> /\ ~ b.gotFin
    BY <1>1, <1>2, <1>3, NewSocketSound DEF Socket
  <1> HIDE DEF b
  <1>6. SynSent(b, a, "SYN") /\ a.endPoint
    BY <1>5, SendSyn
  <1> HIDE DEF a
  <1>7. /\ a \in Socket /\ Sends(b, a) /\ a.retxEvent = "SYN"
        /\ Segs(a.out) = Segs(b.out) \cup {EmptySegment(b, "SYN")}
    BY <1>5, <1>6 DEF SynSent, Leaves
  <1>8. ~ a.gotFin /\ a.highTx = 0 /\ a.una = 0 /\ a.rcvNext = 0
    BY <1>5, <1>7 DEF Sends, Same
  <1>9. /\ t \in Socket /\ t.highTx = 0 /\ t.una = 0 /\ t.rcvNext = 0 /\ t.state = "SYN_SENT"
        /\ t.retxEvent = "SYN" /\ t.out = a.out /\ ~ t.gotFin
    BY <1>7, <1>8 DEF Socket, States
  <1> HIDE DEF t
  <1>10. /\ "client" \in Peers /\ "server" \in Peers
         /\ Other("client") = "server" /\ Other("server") = "client"
    BY DEF Peers, Other
  <1>11. /\ net'["client"] = net["client"] /\ net'["server"] = net["server"] \o t.out
         /\ sock'["client"] = u /\ sock'["server"] = o
    BY <1>4, <1>10 DEF SocketsSound
  <1>12. net["server"] \in Seq(Segment) /\ t.out \in Seq(Segment) /\ o \in Socket
    BY <1>9, <1>10 DEF SocketsSound, Socket
  <1>13. /\ Receives(c) /\ Transmits(c) /\ Closes(c, o, C, ssend)
         /\ Receives(o) /\ Transmits(o) /\ Closes(o, c, S, csend)
    BY <1>10, CloseFacts
  <1>14. o.rcvNext <= 1
    <2>1. Early(c, o, C, S)
      BY DEF EndsTied
    <2> QED
      BY <1>2, <1>3, <2>1 DEF Early
  <1>15. ~ o.gotFin
    <2>1. o.gotFin => o.finSeq <= c.nextTx
      BY <1>10 DEF EndsTied, Tied
    <2>2. o.gotFin => o.finSeq >= 1
      BY <1>13 DEF Receives
    <2>3. o.finSeq \in Nat /\ c.nextTx = 0
      BY <1>2, <1>3, <1>12, SocketNumbers
    <2> HIDE DEF o, c
    <2> QED
      BY <2>1, <2>2, <2>3
  <1>16. \A m \in T : ~ Carries(m)
    <2>1. \A m \in S : ~ Carries(m)
      BY <1>2, <1>3, OnlySyns
    <2>2. Segs(<<>>) = {}
      BY DEF Segs
    <2>3. ~ Carries(EmptySegment(b, "SYN"))
      BY DEF EmptySegment, Carries
    <2>4. \A m \in Segs(t.out) : ~ Carries(m)
      BY <1>5, <1>7, <1>9, <2>2, <2>3
    <2> QED
      BY <1>11, <1>12, <2>1, <2>4, SegsConcat
  <1>17. ~ Finished(c)
    BY <1>2, <1>3 DEF Finished
  <1> HIDE DEF u, c, o, C, S, T, csend, ssend
  <1>18. Receives(t)
    BY <1>9 DEF Receives, Finished, Late, Handshake
  <1>19. Transmits(t)
    BY <1>9 DEF Transmits, Handshake
  <1>20. Closes(t, o, C, ssend)
    BY <1>9, <1>13, <1>17, OpenReceiver
  <1>21. Closes(o, t, T, csend)
    BY <1>9, <1>13, <1>14, <1>15, <1>16, OpenSender
  <1>22. Receives(u) /\ Transmits(u) /\ Closes(u, o, C, ssend) /\ Closes(o, u, T, csend)
    BY <1>9, <1>18, <1>19, <1>20, <1>21, FlushCloses DEF u
  <1> QED
    BY <1>2, <1>10, <1>11, <1>13, <1>22, CloseParts DEF C, T, csend, ssend

\* The listener forks: by Early the client has heard no data and no FIN, and
\* what was there before has heard none either.
LEMMA ForkClose ==
    ASSUME SocketsSound, EndsTied, EndsClose, DeliverToListener,
           Head(net["server"]).kind = "SYN"
    PROVE  EndsClose'
  <1> DEFINE seg == Head(net["server"])
             n == SynRetries
             r == seg.seq + 1
             f == [NewSocket EXCEPT !.endPoint = TRUE, !.state = "SYN_RCVD",
                                    !.synCount = n, !.rcvNext = r]
             t == SendEmptyPacket(f, "SYN+ACK")
             u == [t EXCEPT !.out = <<>>]
             c == sock["client"]   s == sock["server"]
             C == Segs(net["client"])   S == Segs(net["server"])
             D == Segs(net'["client"])  T == Segs(net'["server"])
             csend == "Send" \in app["client"]   ssend == "Send" \in app["server"]
  <1>1. /\ sock' = [sock EXCEPT !["server"] = u]
        /\ net' = [net EXCEPT !["server"] = Tail(@), !["client"] = @ \o t.out]
        /\ app' = app /\ net["server"] # <<>>
    BY DEF DeliverToListener
  <1>2. /\ "server" \in Peers /\ "client" \in Peers /\ n \in Nat /\ n # 0
        /\ Other("client") = "server" /\ Other("server") = "client"
    BY ConnectionAssumption DEF Peers, Other
  <1>3. /\ net["server"] \in Seq(Segment) /\ net["client"] \in Seq(Segment)
        /\ c \in Socket /\ s \in Socket
    BY <1>2 DEF SocketsSound
  <1>4. seg \in S /\ T \in SUBSET S
    <2>1. net'["server"] = Tail(net["server"])
      BY <1>1, <1>2 DEF SocketsSound
    <2> QED
      BY <1>1, <1>3, <2>1, TailElements
  <1>5. Tied(s, c, S, C, ssend) /\ Early(c, s, C, S)
    BY <1>2 DEF EndsTied
  <1>6. r = 1
    <2>1. SegOK(seg) /\ seg.kind = "SYN"
      BY <1>4, <1>5 DEF Tied
    <2> HIDE DEF seg
    <2> QED
      BY <2>1 DEF SegOK
  <1>7. /\ c.rcvNext <= 1 /\ ~ c.gotFin /\ s.rcvNext <= 1 /\ \A m \in C : ~ Carries(m)
    BY <1>4, <1>5 DEF Early
  <1>8. /\ NewSocket.highTx = 0 /\ NewSocket.una = 0
        /\ NewSocket.retxEvent = "none" /\ NewSocket.out = <<>> /\ ~ NewSocket.gotFin
    BY DEF NewSocket
  <1>9. /\ Receives(c) /\ Transmits(c) /\ Closes(c, s, C, ssend)
        /\ Receives(s) /\ Transmits(s) /\ Closes(s, c, S, csend)
    BY <1>2, CloseFacts
  <1> HIDE DEF n, r, seg, c, s, C, S, csend, ssend
  <1>10. /\ f \in Socket /\ f.endPoint /\ f.synCount # 0 /\ f.highTx = 0 /\ f.una = 0
         /\ f.rcvNext = 1 /\ f.state = "SYN_RCVD" /\ f.retxEvent = "none" /\ f.out = <<>>
         /\ ~ f.gotFin
    BY <1>2, <1>6, <1>8, NewSocketSound DEF Socket, States
  <1> HIDE DEF f
  <1>11. SynSent(f, t, "SYN+ACK") /\ t.endPoint
    BY <1>10, SendSyn
  <1> HIDE DEF t
  <1>12. /\ t \in Socket /\ Sends(f, t) /\ t.retxEvent = "SYN+ACK"
         /\ Segs(t.out) = Segs(f.out) \cup {EmptySegment(f, "SYN+ACK")}
    BY <1>10, <1>11 DEF SynSent, Leaves
  <1>13. /\ t.highTx = 0 /\ t.una = 0 /\ t.rcvNext = 1 /\ t.state = "SYN_RCVD" /\ ~ t.gotFin
         /\ t.out \in Seq(Segment)
    BY <1>10, <1>12 DEF Sends, Same, Socket
  <1>14. \A m \in D : ~ Carries(m)
    <2>1. Segs(<<>>) = {}
      BY DEF Segs
    <2>2. ~ Carries(EmptySegment(f, "SYN+ACK"))
      BY DEF EmptySegment, Carries
    <2>3. \A m \in Segs(t.out) : ~ Carries(m)
      BY <1>10, <1>12, <2>1, <2>2
    <2>4. net'["client"] = net["client"] \o t.out
      BY <1>1, <1>2 DEF SocketsSound
    <2> QED
      BY <1>3, <1>7, <1>13, <2>3, <2>4, SegsConcat DEF C
  <1>15. ~ Finished(s)
    <2>1. s.rcvNext \in Nat /\ s.finSeq \in Nat
      BY <1>3, SocketNumbers
    <2> QED
      BY <1>7, <1>9, <2>1 DEF Receives, Finished
  <1> HIDE DEF u, D, T
  <1>16. Receives(t)
    BY <1>13 DEF Receives, Finished, Late, Handshake
  <1>17. Transmits(t)
    BY <1>12, <1>13 DEF Transmits, Handshake
  <1>18. Closes(t, c, T, csend)
    BY <1>4, <1>9, <1>13, <1>15, OpenReceiver
  <1>19. Closes(c, t, D, ssend)
    BY <1>7, <1>9, <1>13, <1>14, OpenSender
  <1>20. Receives(u) /\ Transmits(u) /\ Closes(u, c, T, csend) /\ Closes(c, u, D, ssend)
    BY <1>12, <1>16, <1>17, <1>18, <1>19, FlushCloses DEF u
  <1>21. sock'["client"] = c /\ sock'["server"] = u
    BY <1>1, <1>2 DEF SocketsSound, c
  <1> QED
    BY <1>1, <1>2, <1>9, <1>20, <1>21, CloseParts DEF D, T, csend, ssend

LEMMA InitClose == Init => EndsClose
  <1> SUFFICES ASSUME Init, NEW p \in Peers
               PROVE  /\ Receives(sock[p]) /\ Transmits(sock[p])
                      /\ Closes(sock[p], sock[Other(p)], Segs(net[p]), "Send" \in app[Other(p)])
    BY DEF EndsClose
  <1>1. Other(p) \in Peers
    BY OtherPeer
  <1>2. sock[p] = NewSocket /\ sock[Other(p)] = NewSocket /\ net[p] = <<>>
    BY <1>1 DEF Init
  <1>3. Segs(net[p]) = {}
    BY <1>2 DEF Segs
  <1>4. /\ NewSocket.rcvNext = 0 /\ NewSocket.retxEvent = "none" /\ NewSocket.state = "CLOSED"
        /\ ~ NewSocket.gotFin /\ ~ NewSocket.endPoint
    BY DEF NewSocket
  <1>5. Receives(NewSocket)
    BY <1>4 DEF Receives, Finished, Late, Handshake
  <1>6. Transmits(NewSocket)
    BY <1>4 DEF Transmits, Handshake
  <1>7. Closes(NewSocket, NewSocket, {}, "Send" \in app[Other(p)])
    BY <1>4, <1>5, OpenSender
  <1> QED
    BY <1>2, <1>3, <1>5, <1>6, <1>7

LEMMA NextClose == SocketsSound /\ EndsTied /\ EndsClose /\ [Next]_vars => EndsClose'
  <1> SUFFICES ASSUME SocketsSound, EndsTied, EndsClose, [Next]_vars PROVE EndsClose'
    OBVIOUS
  <1>0. EndsTied'
    BY NextTied
  <1>1. CASE Connect
    BY <1>1, ConnectClose
  <1>2. ASSUME UNCHANGED <<sock, net, app>> PROVE EndsClose'
    BY <1>2 DEF EndsClose
  <1>3. CASE CloseListener
    BY <1>2, <1>3 DEF CloseListener
  <1>4. ASSUME NEW p \in Peers, Send(p) \/ AppClose(p) \/ AppShutdownSend(p) \/ Lose(p)
        PROVE  EndsClose'
    BY <1>0, <1>4, SendClose, AppClosesClose, LoseNet, NetClose
  <1>5. ASSUME NEW p \in Peers, Events(p) PROVE EndsClose'
    <2>1. CASE DeliverToListener
      BY <2>1, ForkClose, ListenerNet, NetClose
    <2>2. CASE Deliver(p) \/ Refuse(p)
      BY <1>0, <2>2, DeliverClose, RefuseNet, NetClose
    <2>3. CASE \/ RetransmitEvent(p) \/ SendPendingDataEvent(p) \/ LastAckEvent(p)
               \/ DelAckTimeout(p) \/ TimeWaitEnds(p)
      BY <1>0, <2>3, TimersClose
    <2> QED
      BY <1>5, <2>1, <2>2, <2>3 DEF Events
  <1>6. CASE UNCHANGED vars
    BY <1>2, <1>6 DEF vars
  <1> QED
    BY <1>1, <1>3, <1>4, <1>5, <1>6 DEF Next, Environment

LEMMA AlwaysClose == Spec => [](SocketsSound /\ EndsTied /\ EndsClose)
  <1>1. Init => SocketsSound /\ EndsTied /\ EndsClose
    BY InitSound, InitTied, InitClose
  <1>2. (SocketsSound /\ EndsTied /\ EndsClose) /\ [Next]_vars
            => (SocketsSound /\ EndsTied /\ EndsClose)'
    BY NextSound, NextTied, NextClose
  <1> QED
    BY <1>1, <1>2, PTL DEF Spec

\* A side closes its receiving direction only behind the peer's data and when
\* the peer has closed, and is in FIN_WAIT_2 only when the peer has its FIN.
\* The proof rests on Closes: as long as a FIN is not taken it stands where the
\* data of its sender ends, the sender is past the states in which it could
\* write more, and what is acknowledged beyond that place has taken the FIN.
THEOREM ClosesAgreed == Spec => []CloseAgreed
  <1>1. EndsClose => CloseAgreed
    <2> SUFFICES ASSUME EndsClose, NEW p \in Peers
                 PROVE  LET s == sock[p]   t == sock[Other(p)]
                        IN  /\ s.state \in {"CLOSE_WAIT", "LAST_ACK", "CLOSING", "TIME_WAIT"} =>
                                   /\ Finished(s) /\ (s.finSeq = 2 => s.rxData)
                                   /\ t.state \notin {"ESTABLISHED", "SYN_SENT", "SYN_RCVD"}
                            /\ s.state = "FIN_WAIT_2" => Finished(t)
      BY DEF CloseAgreed
    <2> DEFINE s == sock[p]
               t == sock[Other(p)]
    <2>1. Other(p) \in Peers /\ Other(Other(p)) = p
      BY OtherPeer DEF Peers, Other
    <2>2. /\ Receives(s) /\ Closes(s, t, Segs(net[p]), "Send" \in app[Other(p)])
          /\ Closes(t, s, Segs(net[Other(p)]), "Send" \in app[p])
      BY <2>1, CloseFacts
    <2> HIDE DEF s, t
    <2>3. ASSUME s.state \in Late
          PROVE  /\ Finished(s) /\ (s.finSeq = 2 => s.rxData)
                 /\ t.state \notin {"ESTABLISHED", "SYN_SENT", "SYN_RCVD"}
      <3>1. Finished(s) /\ s.gotFin /\ (s.finSeq = 2 => s.rxData)
        BY <2>2, <2>3 DEF Receives, Finished
      <3>2. ~ Before(t)
        BY <2>2, <3>1 DEF Closes, Sealed
      <3> QED
        BY <3>1, <3>2 DEF Before, Handshake
    <2>4. s.state = "FIN_WAIT_2" => Finished(t)
      BY <2>2 DEF Closes
    <2> QED
      BY <2>3, <2>4 DEF Late, s, t
  <1> QED
    BY <1>1, AlwaysClose, PTL
=============================================================================
