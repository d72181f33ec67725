------------------------------ MODULE LcpPacing ------------------------------
(***************************************************************************)
(* The pacer of an Lcp flow (src/sim/lcp_pacer.cpp) and the parts of       *)
(* LcpSrc that drive it and that it drives.  The pacer is an event source  *)
(* of its own: each of its events lets send_packets() send one packet, and *)
(* every change of the window cancels and schedules it anew, which may     *)
(* make it fire at once, inside the handler that changed the window.       *)
(*                                                                         *)
(* The transport is reduced to counts of packets: not yet sent, timed out  *)
(* and not yet sent again, in the network.  Which packet is sent is the    *)
(* business of LcpTransport.  Times are relative to the present, and a     *)
(* time past is kept up to Horizon, beyond which the code cannot tell      *)
(* times apart.                                                            *)
(***************************************************************************)
EXTENDS Integers, FiniteSetsExt

CONSTANTS Delays,      \* the values of pacing_delay, one per window size
          Windows,     \* the values of _cwnd, in packets
          FlowPkts,    \* packets of the flow
          Gate,        \* _base_rtt / 20, the time between two updates
          MaxTimeouts, \* bound: packets that time out
          Horizon      \* times past or to come are told apart up to here

ASSUME PacingAssumption ==
  /\ Delays \subseteq Nat \ {0} /\ Delays # {}
  /\ Windows \subseteq Nat \ {0} /\ Windows # {}
  /\ FlowPkts \in Nat \ {0} /\ Gate \in Nat /\ MaxTimeouts \in Nat
  /\ Horizon \in Nat /\ \A d \in Delays \cup {Gate + 1} : d <= Horizon

VARIABLES f,        \* the LcpSrc and its generic_pacer
          ages      \* history: the ages of the last three packets sent
vars == <<f, ages>>

Older(n, d) == Min({n + d, Horizon})

(* What the program is in once setup has called update_pacing_delay() and
   connect() has scheduled the flow: the pacer exists and is not pending. *)
Init ==
  /\ \E d \in Delays, w \in Windows :
       f = [delay |-> 0,            \* _interpacket_delay, 0 when not pending
            nextIn |-> 0,           \* _next_send
            since |-> 0,            \* _last_send, as an age
            pending |-> [t \in 0 .. Horizon |-> 0],  \* events of the pacer
            orphans |-> 0,          \* events of pacers replaced by a new one
            pacingDelay |-> d,
            updated |-> Gate + 1,   \* last_pac_change, as an age
            token |-> FALSE,        \* _paced_packet
            rtxPending |-> FALSE, window |-> w,
            fresh |-> FlowPkts, owed |-> 0, unacked |-> 0,
            wake |-> TRUE,          \* an event of the LcpSrc itself
            finished |-> FALSE,
            timeouts |-> MaxTimeouts,
            sends |-> 0]            \* packets sent in this step
  /\ ages = <<Horizon, Horizon, Horizon>>
-----------------------------------------------------------------------------
Arm(s, d) == [s EXCEPT !.nextIn = d, !.pending[d] = @ + 1]

(* EventList::cancelPendingSource(): the earliest event of the pacer. *)
Unschedule(s) ==
  LET due == {t \in DOMAIN s.pending : s.pending[t] > 0}
  IN IF due = {} THEN s ELSE [s EXCEPT !.pending[Min(due)] = @ - 1]

(* LcpSmarttPacer::cancel() *)
Cancel(s) == [Unschedule(s) EXCEPT !.delay = 0, !.nextIn = 0]

Room(s) == s.unacked < s.window

(* A packet leaves: LcpSrc counts it, just_sent() notes the time, and the
   right to send that the pacer gave is used up. *)
JustSent(s) == [s EXCEPT !.unacked = @ + 1, !.since = 0, !.token = FALSE, !.sends = @ + 1]

(* The loop of retransmit_packet() over the packets known to have timed out:
   resend_packet() sends one if it has the right, and refuses the others.
   It would start a pacer that is not pending, which OnePacerEvent excludes. *)
Resend(s) ==
  LET t == IF s.owed > 0 /\ Room(s) /\ s.token
           THEN [JustSent(s) EXCEPT !.owed = @ - 1] ELSE s
  IN [t EXCEPT !.rtxPending = t.owed > 0]

(* The loop of send_packets() up to the first packet the pacer holds back. *)
SendFresh(s) ==
  IF s.fresh > 0 /\ Room(s) /\ s.token THEN [JustSent(s) EXCEPT !.fresh = @ - 1] ELSE s

(* LcpSmarttPacer::doNextEvent() once pacedSend() has led from s to t: the
   next event, in place of one scheduled meanwhile, unless it was stopped.
   Faulty form: beside it. *)
RearmBeside(t) == Arm([t EXCEPT !.since = 0], t.delay)
Rearm(t) ==
  IF t.delay > 0 THEN Arm([Unschedule(t) EXCEPT !.since = 0], t.delay)
  ELSE [t EXCEPT !.since = 0, !.nextIn = 0]

(* doNextEvent() called by schedule_send(), when no packet times out meanwhile. *)
FireNow(s) ==
  LET t == [s EXCEPT !.token = TRUE]
  IN Rearm(SendFresh(IF t.rtxPending THEN Resend(t) ELSE t))

(* LcpSmarttPacer::schedule_send(): counted from the last packet sent, at
   once if that time is past. *)
ScheduleSend(s, d) ==
  LET t == [s EXCEPT !.delay = d]
  IN IF s.since >= d THEN FireNow([t EXCEPT !.nextIn = 0]) ELSE Arm(t, d - s.since)

(* update_pacing_delay(): a pending pacer is moved, any other is replaced.
   Faulty form: it is replaced whenever its delay changes. *)
NewPacer(s) ==
  [s EXCEPT !.since = 0, !.nextIn = 0, !.delay = 0, !.pending = [x \in DOMAIN @ |-> 0],
            !.orphans = @ + Cardinality({x \in DOMAIN s.pending : s.pending[x] > 0})]
UpdatePacingDelayAnew(s, d) ==
  IF s.updated <= Gate THEN s
  ELSE NewPacer([s EXCEPT !.pacingDelay = d, !.updated = 0])
UpdatePacingDelay(s, d) ==
  IF s.updated <= Gate THEN s
  ELSE LET t == [s EXCEPT !.pacingDelay = d, !.updated = 0]
       IN IF s.delay > 0 THEN ScheduleSend(Cancel(t), d) ELSE NewPacer(t)

(* retransmit_packet(): a packet found to have timed out leaves the window
   after check_limits_cwnd() has updated the pacer, then what is owed is sent
   again.  d = 0 when none has timed out. *)
TimeOut(s, d, w) ==
  IF d = 0 \/ s.unacked = 0 \/ s.timeouts = 0 THEN s
  ELSE LET t == UpdatePacingDelay([s EXCEPT !.window = Min({@, w}), !.timeouts = @ - 1], d)
       IN [t EXCEPT !.unacked = @ - 1, !.owed = @ + 1]
RetransmitPacket(s, d, w) == Resend(TimeOut([s EXCEPT !.rtxPending = FALSE], d, w))

(* send_packets(): the first packet it may not send starts an idle pacer. *)
SendAllowed(s, d, w) == SendFresh(IF s.rtxPending THEN RetransmitPacket(s, d, w) ELSE s)
SendPackets(s, d, w) ==
  LET t == SendAllowed(s, d, w)
  IN IF t.fresh > 0 /\ Room(t) /\ t.delay = 0 THEN ScheduleSend(t, t.pacingDelay) ELSE t

(* finish_flow().  Faulty form: the pacer goes on. *)
FinishFlowTicking(s) ==
  [s EXCEPT !.finished = TRUE, !.owed = 0, !.rtxPending = FALSE, !.wake = FALSE]
FinishFlow(s) ==
  [Cancel(s) EXCEPT !.finished = TRUE, !.owed = 0, !.rtxPending = FALSE, !.wake = FALSE]
-----------------------------------------------------------------------------
(* A handler takes the flow from f to s; the ages of the packets it sends. *)
Step(s) ==
  /\ f' = [s EXCEPT !.sends = 0]
  /\ ages' = [i \in 1 .. 3 |-> IF i <= s.sends THEN 0 ELSE ages[i - s.sends]]

(* LcpSrc::doNextEvent(): the start of the flow, and every wake-up. *)
DoNextEvent(d, w) ==
  /\ f.wake
  /\ Step(SendPackets([f EXCEPT !.wake = FALSE], d, w))

(* The end of receivePacket(): look again within a nanosecond. *)
WakeLater(s) ==
  [s EXCEPT !.wake = @ \/ (Room(s) /\ ~s.finished /\ (s.owed > 0 \/ s.unacked > 0))]

(* receivePacket() with an ACK that leaves the window at w; it ends the flow
   when it is the last one or completes the last group of an erasure coded
   flow, of which packets may then be left unsent. *)
ReceiveAck(d, w) ==
  LET s == UpdatePacingDelay([f EXCEPT !.unacked = @ - 1], d)
  IN /\ f.unacked > 0
     /\ \/ s.finished /\ Step(s)
        \/ ~s.finished /\ Step(FinishFlow(s))
        \/ /\ ~s.finished
           /\ \E late \in {0, d} :
                Step(WakeLater(SendPackets([s EXCEPT !.window = w], late, w)))

(* rtx_timer_hook(), when a packet has timed out. *)
RtxTimeout(d, w) ==
  /\ f.unacked > 0 /\ ~f.finished /\ f.timeouts > 0
  /\ Step(RetransmitPacket(f, d, w))

(* The pacer's event is due: doNextEvent(). *)
PacerTick(d, w) ==
  /\ f.pending[0] > 0
  /\ Step(Rearm(SendAllowed([f EXCEPT !.pending[0] = @ - 1, !.token = TRUE], d, w)))

(* Time passes when no event of the pacer is due. *)
Tick ==
  /\ f.pending[0] = 0
  /\ f' = [f EXCEPT !.pending = [t \in DOMAIN @ |-> IF t = Horizon THEN 0 ELSE @[t + 1]],
                    !.nextIn = @ - (IF f.delay > 0 THEN 1 ELSE 0),
                    !.since = Older(@, 1), !.updated = Older(@, 1)]
  /\ ages' = [i \in 1 .. 3 |-> Older(ages[i], 1)]

Ticks == \E d \in Delays \cup {0}, w \in Windows : PacerTick(d, w)
Wakes == \E d \in Delays \cup {0}, w \in Windows : DoNextEvent(d, w)
Next ==
  \/ Wakes
  \/ \E d \in Delays, w \in Windows : ReceiveAck(d, w)
  \/ \E d \in Delays, w \in Windows : RtxTimeout(d, w)
  \/ Ticks
  \/ Tick

(* The event list runs every event that is due, and time goes on. *)
Spec == Init /\ [][Next]_vars /\ WF_vars(Ticks) /\ WF_vars(Tick) /\ WF_vars(Wakes)
-----------------------------------------------------------------------------
(* The pacer that is_pending() has exactly one event in the event list, at
   _next_send (the assertion of its doNextEvent()), any other has none, and
   none is left of a pacer that was replaced: whatever cancels, moves or
   replaces it, also in the middle of its own event.  The pacer of a flow
   with packets on their way or timed out is pending. *)
OnePacerEvent ==
  /\ \A t \in DOMAIN f.pending :
       f.pending[t] = IF f.delay > 0 /\ t = f.nextIn THEN 1 ELSE 0
  /\ f.orphans = 0
  /\ ~f.finished /\ (f.unacked > 0 \/ f.owed > 0) => f.delay > 0

(* A flow that has finished sends nothing more and its pacer has stopped. *)
SilentAfterFinish ==
  [][f.finished => f'.fresh = f.fresh /\ f'.delay = 0 /\ f'.unacked <= f.unacked]_vars

(* Of three packets in a row the first and the last are an interpacket delay
   apart: the right to send that an event of the pacer left unused
   (_paced_packet) adds at most one packet. *)
BurstBounded == ages[3] = Horizon \/ ages[3] - ages[1] >= Min(Delays)

(* As long as the flow may send it sends: the pacer never leaves it for good
   with room in the window and a packet to send, whatever the ACKs do. *)
MaySend == ~f.finished /\ Room(f) /\ (f.fresh > 0 \/ f.owed > 0)
SendsOn == []<>~MaySend
=============================================================================
