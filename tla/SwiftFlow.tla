----------------------------- MODULE SwiftFlow ------------------------------
(***************************************************************************)
(* One TCP flow seen from its congestion window: how TcpSocketBase calls   *)
(* the hooks of TcpSwift, in which order and in which congestion state,    *)
(* with the network, the scoreboard and the PRR arithmetic left open.      *)
(*                                                                         *)
(* TcpSender is the detailed specification; it implements this one.        *)
(***************************************************************************)
EXTENDS TcpSwift

CONSTANTS
    InitialCwnd,        \* tcb->m_initialCWnd, segments
    MaxSegsAcked,       \* most segments one ACK reports to IncreaseWindow
    RecoveryWindows,    \* windows PRR may leave in tcb->m_cWnd, bytes
    MaxRecoveryWindow,  \* PRR leaves none larger
    Rtts,               \* smoothed RTTs the estimator may return, 100 ns
    MaxRtt,             \* no smoothed RTT is larger
    Ticks,              \* by how much time may advance in one step
    Hops,               \* values the delay tag may put into tcb->m_hops
    SsThreshInf,        \* tcb->m_initialSsThresh
    MaxTimeouts         \* bound: timeouts in a row before the socket gives up

ASSUME FlowAssumption ==
    /\ InitialCwnd \in Nat \ {0}
    /\ MaxSegsAcked \in Nat \ {0}
    /\ MaxRecoveryWindow \in Nat
    /\ RecoveryWindows \subseteq 0 .. MaxRecoveryWindow
    /\ MaxRtt \in Nat \ {0}
    /\ Rtts \subseteq 1 .. MaxRtt
    /\ Ticks \subseteq Nat \ {0}
    /\ Hops \subseteq Nat
    /\ SsThreshInf \in Nat
    /\ MaxTimeouts \in Nat

VARIABLES
    flow,   \* the controller record of TcpSwift, with ssThresh and congState
    srtt,   \* tcb->m_srtt
    hops    \* tcb->m_hops

vars == <<flow, srtt, hops>>

CongStates == {"OPEN", "DISORDER", "CWR", "RECOVERY", "LOSS"}

Flows ==
    [cWnd: Nat, rtt: 0 .. MaxRtt, since: 0 .. MaxRtt, retransmitCount: Nat,
     ssThresh: Nat, congState: CongStates]

TypeOK ==
    /\ flow \in Flows
    /\ srtt \in 0 .. MaxRtt
    /\ hops \in Nat

Init ==
    /\ flow = [cWnd |-> InitialCwnd * SegmentSize, rtt |-> 0, since |-> 0,
               retransmitCount |-> 0, ssThresh |-> SsThreshInf,
               congState |-> "OPEN"]
    /\ srtt \in {0} \cup Rtts
    /\ hops \in Hops

-----------------------------------------------------------------------------
(* ReceivedAck, in the order of the code: the ECN part, then DupAck, then   *)
(* the congestion state machine of ProcessAck.  Each stage is the set of    *)
(* the records it may leave.                                                *)

InState(f, s) == [f EXCEPT !.congState = s]
SetWindow(f, w) == [f EXCEPT !.cWnd = w]

\* The window after a call of m_recoveryOps: PRR's choice, or no change when
\* nothing was delivered.
Prr(f) == {SetWindow(f, w) : w \in RecoveryWindows \cup {f.cWnd}}

ExitCwr(f) == SetWindow(InState(f, "OPEN"), f.ssThresh)

EnterCwr(f) == Prr(InState([f EXCEPT !.ssThresh = GetSsThresh(f)], "CWR"))

EcnStage(f) ==
    LET after == IF f.congState = "CWR" THEN ExitCwr(f) ELSE f
    IN  {f, after} \cup EnterCwr(after)

\* The window is cut by the hook before ssThresh is computed from it.
EnterRecovery(f) ==
    LET cut == InState(CongestionStateSet(f, "RECOVERY"), "RECOVERY")
    IN  Prr([cut EXCEPT !.ssThresh = GetSsThresh(cut)])

DupStage(f) ==
    CASE f.congState \in {"OPEN", "DISORDER"} ->
           {InState(f, "DISORDER")} \cup EnterRecovery(InState(f, "DISORDER"))
      [] f.congState = "RECOVERY" -> Prr(f)
      [] OTHER -> {f}

BackToOpen(f) == InState(CongestionStateSet(f, "OPEN"), "OPEN")

\* What a cumulative ACK does in each state.  `dup` says that it also carried
\* new SACK information, `before` is the state DupAck found: an ACK that
\* enters recovery does not also complete it.
AckStage(f, before, dup, s, h, segs) ==
    LET acked == PktsAcked(f, s)
        open(g) == IncreaseWindow(g, h, segs)
    IN  CASE f.congState = "OPEN"     -> {open(acked)}
          [] f.congState = "DISORDER" ->
                 IF dup THEN {f, acked}
                 ELSE {open(BackToOpen(f)), open(BackToOpen(acked))}
          [] f.congState = "CWR"      -> Prr(acked)
          [] f.congState = "RECOVERY" ->
                 Prr(acked) \cup
                 (IF before = "RECOVERY"
                  THEN {open(SetWindow(BackToOpen(acked), f.ssThresh))} ELSE {})
          [] f.congState = "LOSS"     -> {open(acked), open(BackToOpen(acked))}

\* The three stages in a row; a pure duplicate only reports the segment to
\* PktsAcked, and an ACK of everything already acknowledged does nothing.
ReceivedAck ==
    \E s \in Rtts \cup {srtt}, h \in Hops, segs \in 0 .. MaxSegsAcked :
        /\ srtt' = s
        /\ hops' = h
        /\ \E f1 \in EcnStage(flow) :
           \E dup \in BOOLEAN :
           \E f2 \in IF dup THEN DupStage(f1) ELSE {f1} :
              flow' \in {f2, PktsAcked(f2, s)}
                        \cup AckStage(f2, f1.congState, dup, s, h, segs)

\* ReTxTimeout: the socket overwrites whatever the hook made of the window.
ReTxTimeout ==
    LET thresh == [flow EXCEPT !.ssThresh = GetSsThresh(flow)]
        lost   == CongestionStateSet(CwndEventLoss(thresh), "LOSS")
    IN  /\ flow.retransmitCount < MaxTimeouts
        /\ flow' = SetWindow(InState(lost, "LOSS"), SegmentSize)
        /\ UNCHANGED <<srtt, hops>>

\* RetrieveTcb of swiftSim.cc gives a running socket a new TcpSwift.
SetCongestionControlAlgorithm ==
    /\ flow' = InitSwift(flow)
    /\ UNCHANGED <<srtt, hops>>

\* Time passes.  `since` is only ever compared with an RTT, so it may stop
\* at MaxRtt.
Elapse ==
    \E d \in Ticks :
        /\ flow' = [flow EXCEPT !.since = Smaller(MaxRtt, @ + d)]
        /\ UNCHANGED <<srtt, hops>>

Next ==
    \/ ReceivedAck
    \/ ReTxTimeout
    \/ SetCongestionControlAlgorithm
    \/ Elapse

Spec == Init /\ [][Next]_vars

-----------------------------------------------------------------------------
(* Properties.                                                              *)

\* The segments the additive increase can carry the window to.
Ceiling ==
    Larger(Larger(InitialCwnd, AI * MaxSegsAcked + 1),
           MaxRecoveryWindow \div (2 * SegmentSize))

\* SwiftUpdateCwndOnAck drops the fraction of a segment on every ACK, so the
\* increase dies out once AI * segmentsAcked < cwnd: outside of PRR's reign
\* the window stays below Ceiling + 1 segments however many ACKs arrive at
\* however low a delay, and neither ssThresh nor a swap of the algorithm
\* lifts it higher.
GrowthCeiling ==
    flow.congState \in {"OPEN", "DISORDER", "LOSS"} =>
        flow.cWnd < (Ceiling + 1) * SegmentSize
=============================================================================
