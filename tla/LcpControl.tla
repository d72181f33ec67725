----------------------------- MODULE LcpControl -----------------------------
(***************************************************************************)
(* The congestion control of sim/lcp.cpp: how LcpSrc moves _cwnd with each *)
(* ACK and each timeout, through additive and fast increase, the epochs    *)
(* that decide about a multiplicative decrease, and quick adapt (QA).      *)
(*                                                                         *)
(* The transport under it (LcpTransport) is cut down to what the control   *)
(* sees: which packets an ACK acknowledges anew, the time the sender notes *)
(* for them, the round trip time and the ECN mark of the copy, timeouts,   *)
(* and how much the window lets out.  The control's own time tests are     *)
(* kept.  A packet and its ACK are one message; the network loses it,      *)
(* loses only its ACK, delays and reorders it.                             *)
(*                                                                         *)
(* Modelled: cc_algorithm_type "lcp", lcp_type "aimd" and "aimd_phantom",  *)
(* use_ecn, no per-ACK decrease, no pacing, no erasure coding.  Bytes are  *)
(* scaled so that a packet has Mss = 25 of them, which makes the factor    *)
(* 0.96 of quick adapt exact; what other products leave of a byte is cut.  *)
(***************************************************************************)
EXTENDS Integers, FiniteSets, FiniteSetsExt, Loops

CONSTANTS
  Pkts,          \* number of packets of the flow
  MaxCwnd,       \* _maxcwnd
  StartCwnd,     \* _cwnd when the flow starts
  AiBytes,       \* ai_bytes
  BaseRtt,       \* _base_rtt, the least round trip time there is
  TargetRtt,     \* target_rtt
  QaTriggerRtt,  \* qa_trigger_rtt
  Rto,           \* _rto, with the service time of the host queue
  FiThreshold,   \* fi_threshold
  Keeps,         \* percents of the window a multiplicative decrease may leave
  Settings,      \* the combinations of options a run of the program may have
  MaxTime,       \* bound on the clock
  MaxRtt         \* bound: a copy that is under way for longer is lost

Mss == 25

ASSUME ControlAssumption ==
  /\ Pkts \in Nat \ {0}
  /\ MaxCwnd \in Nat /\ StartCwnd \in Mss .. MaxCwnd
  /\ AiBytes \in Nat /\ FiThreshold \in Nat
  /\ BaseRtt \in Nat \ {0} /\ TargetRtt \in Nat \ {0} /\ QaTriggerRtt \in Nat
  /\ Rto \in Nat \ {0}
  /\ Keeps \subseteq 0 .. 99
  /\ Settings \subseteq [type : {"aimd", "aimd_phantom"}, epochs : {"long", "short"},
                         useQa : BOOLEAN, useRtt : BOOLEAN, useFi : BOOLEAN,
                         aiPerEpoch : BOOLEAN, rtoReduces : BOOLEAN]
  /\ MaxTime \in Nat /\ MaxRtt \in Nat

Packets == 1 .. Pkts

VARIABLES
  now,     \* eventlist().now()
  options, \* the options of this run, which never change
  cc,      \* the fields of LcpSrc that the control reads and writes
  sent,    \* _sent_packets: what the sender knows of each packet
  network, \* the copies under way, each with the time it was sent
  rcvd     \* the packets the sink has

vars == <<now, options, cc, sent, network, rcvd>>

Entry == [state : {"unsent", "flying", "timedOut", "acked"}, at : Nat]
Copy  == [pkt : Packets, at : Nat]

Fields ==
  [cwnd : Int, unacked : Nat, rtxPending : BOOLEAN, wake : BOOLEAN,
   counter : Int, epochOn : BOOLEAN, epochEnd : Nat,
   epochBytes : Nat, epochMarked : BOOLEAN, ewmaIsNumber : BOOLEAN,
   goodEpochs : Nat, fastRounds : Nat, qaOn : BOOLEAN, qaEnd : Nat, qaBytes : Nat]

\* What a handler works on: out are the copies it hands to the network.
Handling == [cc : Fields, sent : [Packets -> Entry], out : SUBSET Copy]

-----------------------------------------------------------------------------
(* The window.                                                             *)

\* check_limits_cwnd.
CheckLimits(c) == [c EXCEPT !.cwnd = Max({Mss, Min({MaxCwnd, c.cwnd})})]

\* additive_increase.
AdditiveIncrease(c, bytes) ==
  LET step  == (AiBytes * bytes) \div c.cwnd
      times == IF options.useFi /\ c.goodEpochs >= FiThreshold THEN c.fastRounds ELSE 1
  IN  [c EXCEPT !.cwnd = @ + step * times]

\* resetEpochParams.
ResetEpoch(c) ==
  [c EXCEPT !.epochMarked = FALSE, !.epochBytes = 0, !.epochEnd = now]

Uncounted(c) == [c EXCEPT !.goodEpochs = 0, !.fastRounds = 0]

-----------------------------------------------------------------------------
(* Quick adapt: once in target_rtt, compare what was acknowledged with the *)
(* window.                                                                 *)

QaThreshold(c) == (50 * c.cwnd) \div 100      \* QA_CWND_RATIO_THRESHOLD

QaTriggered(c, rtt) ==
  (options.useRtt /\ rtt > QaTriggerRtt) \/ c.qaBytes < QaThreshold(c)

\* A faulty variant: the countdown to the next epoch is not started.
QuickAdaptNoCountdown(c) ==
  [ResetEpoch(Uncounted(c)) EXCEPT !.cwnd = (96 * c.qaBytes) \div 100,
     !.epochOn = FALSE, !.qaOn = FALSE, !.qaEnd = now]

\* A faulty variant: the epoch goes on.
QuickAdaptKeepsEpoch(c) ==
  LET window == (96 * c.qaBytes) \div 100
  IN  [Uncounted(c) EXCEPT !.cwnd = window, !.counter = window, !.qaOn = FALSE, !.qaEnd = now]

\* The decrease of processQaMeasurementEnd.  epoch_counter takes the window
\* before check_limits_cwnd has looked at it.
QuickAdapt(c) ==
  LET window == (96 * c.qaBytes) \div 100
  IN  [ResetEpoch(Uncounted(c)) EXCEPT !.cwnd = window, !.counter = window,
         !.epochOn = FALSE, !.qaOn = FALSE, !.qaEnd = now]

\* processQaMeasurementEnd.
QaPeriodEnds(c, rtt) ==
  LET d == IF QaTriggered(c, rtt) THEN QuickAdapt(c)
           ELSE [c EXCEPT !.qaEnd = now + TargetRtt]
  IN  CheckLimits([d EXCEPT !.qaBytes = 0])

\* A faulty variant: a measurement that begins keeps the end of the last one.
QaStepKeepsEnd(c, ackedAt, rtt) ==
  IF ~options.useQa THEN c
  ELSE IF ~c.qaOn THEN [c EXCEPT !.qaOn = ackedAt >= c.qaEnd]
  ELSE IF now >= c.qaEnd THEN QaPeriodEnds(c, rtt) ELSE c

\* The part of adjust_window_aimd that is about quick adapt.
QaStep(c, ackedAt, rtt) ==
  IF ~options.useQa THEN c
  ELSE IF ~c.qaOn THEN
         IF ackedAt >= c.qaEnd
         THEN [c EXCEPT !.qaOn = TRUE, !.qaEnd = now + TargetRtt]
         ELSE c
  ELSE IF now >= c.qaEnd THEN QaPeriodEnds(c, rtt) ELSE c

-----------------------------------------------------------------------------
(* Epochs.                                                                 *)

\* What a congested epoch does to the window.  ecn_fraction_ewma is not kept:
\* how much a decrease leaves, and whether aimd_phantom, whose average may
\* have fallen, increases instead or decreases by nothing, is a choice.
Decreases ==
  { [kind |-> "keep", percent |-> k] : k \in Keeps } \union
  IF options.type = "aimd_phantom"
  THEN { [kind |-> "keep", percent |-> 100], [kind |-> "increase"] }
  ELSE {}

CongestedEpoch(c, decrease) ==
  Uncounted(IF decrease.kind = "increase" THEN AdditiveIncrease(c, c.epochBytes)
            ELSE [c EXCEPT !.cwnd = (@ * decrease.percent) \div 100])

GoodEpoch(c) ==
  LET d == [c EXCEPT !.goodEpochs = @ + 1, !.fastRounds = @ + 1]
  IN  IF options.aiPerEpoch THEN AdditiveIncrease(d, d.epochBytes) ELSE d

\* processEpochEnd.  The fraction of marked bytes, and the average it goes
\* into for good, is a number only if the epoch acknowledged some byte.
EpochEnds(c, rtt, decrease) ==
  LET congested == c.epochMarked \/ (options.useRtt /\ rtt > TargetRtt)
      d == CheckLimits(IF congested THEN CongestedEpoch(c, decrease) ELSE GoodEpoch(c))
      e == ResetEpoch([d EXCEPT !.ewmaIsNumber = @ /\ c.epochBytes > 0])
  IN  IF options.epochs = "short" THEN [e EXCEPT !.epochEnd = c.epochEnd + rtt] ELSE e

\* shouldTriggerEpochEnd, which sees the time of the newest packet acknowledged.
EpochStep(c, ackedAt, rtt, decrease) ==
  IF c.epochOn /\ ackedAt >= c.epochEnd THEN EpochEnds(c, rtt, decrease) ELSE c

-----------------------------------------------------------------------------
(* adjust_window, for adjust_window_aimd and adjust_window_aimd_phantom.   *)

\* A faulty variant: adjust_window_aimd as its copy for phantom queues has it.
AckStepKeepsRounds(c, ecn, rtt, bytes) ==
  IF ~ecn /\ (~options.useRtt \/ rtt < TargetRtt)
  THEN IF options.aiPerEpoch THEN c ELSE AdditiveIncrease(c, bytes)
  ELSE [c EXCEPT !.goodEpochs = 0]

\* What an ACK does by itself: increase, or end the row of good epochs.
AckStep(c, ecn, rtt, bytes) ==
  IF ~ecn /\ (~options.useRtt \/ rtt < TargetRtt)
  THEN IF options.aiPerEpoch THEN c ELSE AdditiveIncrease(c, bytes)
  ELSE IF options.type = "aimd" THEN Uncounted(c)
  ELSE [c EXCEPT !.goodEpochs = 0]

\* The bytes processAck counts before it adjusts the window.
Count(c, ecn, bytes) ==
  [c EXCEPT !.epochBytes  = @ + IF c.epochOn THEN bytes ELSE 0,
            !.epochMarked = @ \/ (c.epochOn /\ ecn /\ bytes > 0),
            !.qaBytes     = @ + IF c.qaOn THEN bytes ELSE 0]

AdjustWindow(c, ecn, rtt, bytes, ackedAt, decrease) ==
  LET d == AckStep(QaStep(c, ackedAt, rtt), ecn, rtt, bytes)
  IN  CheckLimits(EpochStep(d, ackedAt, rtt, decrease))

-----------------------------------------------------------------------------
(* Sending.  The handlers thread s \in Handling through their loops.       *)

\* What send_packets and resend_packet take off epoch_counter for a packet; when
\* it runs out, the first epoch begins.
TakeOff(c) ==
  IF c.counter <= 0 THEN c
  ELSE LET d == [c EXCEPT !.counter = @ - Mss]
       IN  IF d.counter <= 0 THEN [ResetEpoch(d) EXCEPT !.epochOn = TRUE] ELSE d

Transmit(s, p) ==
  [cc   |-> TakeOff([s.cc EXCEPT !.unacked = @ + Mss]),
   sent |-> [s.sent EXCEPT ![p] = [state |-> "flying", at |-> now]],
   out  |-> s.out \union {[pkt |-> p, at |-> now]}]

\* resend_packet, asked of a packet that has timed out.
Resend(s, p) ==
  IF s.sent[p].state # "timedOut" THEN s
  ELSE IF s.cc.unacked >= s.cc.cwnd THEN [s EXCEPT !.cc.rtxPending = TRUE]
  ELSE Transmit(s, p)

ReduceUnacked(c, bytes) == [c EXCEPT !.unacked = Max({0, @ - bytes})]

\* A faulty variant: the window is not checked after a timeout.
TimeOutUnchecked(s, p) ==
  LET c == Uncounted(s.cc)
      d == IF options.rtoReduces THEN [c EXCEPT !.cwnd = @ - Mss] ELSE c
  IN  IF s.sent[p].state = "flying" /\ s.sent[p].at + Rto <= now
      THEN [s EXCEPT !.cc = ReduceUnacked(d, Mss), !.sent[p].state = "timedOut"]
      ELSE s

\* One packet times out in retransmit_packet.
TimeOut(s, p) ==
  LET c == Uncounted(s.cc)
      d == IF options.rtoReduces THEN [c EXCEPT !.cwnd = @ - Mss] ELSE c
  IN  IF s.sent[p].state = "flying" /\ s.sent[p].at + Rto <= now
      THEN [s EXCEPT !.cc = ReduceUnacked(CheckLimits(d), Mss), !.sent[p].state = "timedOut"]
      ELSE s

\* retransmit_packet: each packet of _sent_packets in turn.
RetransmitLoop == [p \in Packets |-> [s \in Handling |-> Resend(TimeOut(s, p), p)]]

RetransmitPacket(s) == RunLoop(RetransmitLoop, Pkts, [s EXCEPT !.cc.rtxPending = FALSE])

SendLoop(new) ==
  [p \in Packets |-> [s \in Handling |-> IF p \in new THEN Transmit(s, p) ELSE s]]

\* send_packets: what waits for its retransmission, then new packets while
\* the window of the moment the loop began has room.
SendPackets(s) ==
  LET t == IF s.cc.rtxPending THEN RetransmitPacket(s) ELSE s
      unsent == { p \in Packets : t.sent[p].state = "unsent" }
      room == Max({0, (t.cc.cwnd - t.cc.unacked) \div Mss})
      new == { p \in unsent : p < Min(unsent) + room }
  IN  RunLoop(SendLoop(new), Pkts, t)

-----------------------------------------------------------------------------
(* Acknowledgements.                                                       *)

Acked == { p \in Packets : sent[p].state = "acked" }
Finished == Acked = Packets

\* What the ACK of packet p, when the sink holds the packets of got, makes
\* update_pending_packets_list acknowledge: everything up to p and beyond, if
\* nothing before is missing, or p alone.
NewlyAcked(p, got) ==
  LET gaps == Packets \ got
      upTo == { q \in Packets : \A g \in gaps : q < g }
  IN  (IF p \in upTo THEN upTo ELSE {p}) \ Acked

\* A faulty variant: every ACK counts as one for a packet sent just now.
AckedAtArrival(new) == now

\* The time that goes with them: the latest the sender noted for one of them,
\* which is that of the last copy sent, whichever copy arrived; 0 for none.
AckedAt(new) == Max({0} \union { sent[p].at : p \in new })

\* receivePacket has each ACK give back a packet of _unacked, the list one for
\* each further packet it acknowledges.
GivenBack(new) == Mss * Max({1, Cardinality(new)})

-----------------------------------------------------------------------------
(* The program and the network.                                            *)

Fresh ==
  [cwnd |-> StartCwnd, unacked |-> 0, rtxPending |-> FALSE, wake |-> FALSE,
   counter |-> StartCwnd, epochOn |-> FALSE, epochEnd |-> 0,
   epochBytes |-> 0, epochMarked |-> FALSE, ewmaIsNumber |-> TRUE,
   goodEpochs |-> 0, fastRounds |-> 0, qaOn |-> FALSE, qaEnd |-> 0, qaBytes |-> 0]

\* startflow, at time 0.
Init ==
  /\ now = 0
  /\ options \in Settings
  /\ rcvd = {}
  /\ LET s == SendPackets([cc   |-> Fresh,
                           sent |-> [p \in Packets |-> [state |-> "unsent", at |-> 0]],
                           out  |-> {}])
     IN  cc = s.cc /\ sent = s.sent /\ network = s.out

Become(s) == cc' = s.cc /\ sent' = s.sent

\* Copy m reaches the sink and its ACK, with or without an ECN echo, the
\* sender: receivePacket and processAck.
AckArrives(m, ecn) ==
  LET new   == NewlyAcked(m.pkt, rcvd \union {m.pkt})
      bytes == Mss * Cardinality(new)
      c     == Count(ReduceUnacked(cc, GivenBack(new)), ecn, bytes)
      acked == [p \in Packets |-> IF p \in new THEN [sent[p] EXCEPT !.state = "acked"]
                                               ELSE sent[p]]
      done  == Acked \union new = Packets
  IN  /\ m \in network /\ ~Finished
      /\ now >= m.at + BaseRtt
      /\ rcvd' = rcvd \union {m.pkt}
      /\ \/ done /\ Become([cc |-> c, sent |-> acked])
            /\ network' = network \ {m}
         \/ ~done /\ \E decrease \in Decreases :
              LET d == AdjustWindow(c, ecn, now - m.at, bytes, AckedAt(new), decrease)
                  s == SendPackets([cc |-> d, sent |-> acked, out |-> network \ {m}])
              IN  /\ Become([s EXCEPT !.cc.wake = @ \/ s.cc.unacked < s.cc.cwnd])
                  /\ network' = s.out
      /\ UNCHANGED <<now, options>>

Handle(s) ==
  /\ Become(s)
  /\ network' = s.out
  /\ UNCHANGED <<now, options, rcvd>>

\* The retransmission timer scanner calls rtx_timer_hook.
Scan ==
  /\ ~Finished
  /\ Handle(RetransmitPacket([cc |-> cc, sent |-> sent, out |-> network]))

\* doNextEvent, which receivePacket schedules while the window has room.
WakeUp ==
  /\ cc.wake
  /\ Handle(SendPackets([cc |-> [cc EXCEPT !.wake = FALSE], sent |-> sent, out |-> network]))

\* The sink gets the copy and the ACK is lost.
LoseAck(m) ==
  /\ m \in network /\ ~Finished
  /\ network' = network \ {m}
  /\ rcvd' = rcvd \union {m.pkt}
  /\ UNCHANGED <<now, options, cc, sent>>

\* Time passes, and loses the copies it has passed for too long.
Tick ==
  /\ ~Finished
  /\ now < MaxTime
  /\ now' = now + 1
  /\ network' = { m \in network : now' <= m.at + MaxRtt }
  /\ UNCHANGED <<options, cc, sent, rcvd>>

Next ==
  \/ \E m \in network : (\E ecn \in BOOLEAN : AckArrives(m, ecn)) \/ LoseAck(m)
  \/ Scan
  \/ WakeUp
  \/ Tick

Spec == Init /\ [][Next]_vars
=============================================================================
