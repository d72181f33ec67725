---------------------------- MODULE LcpTransport ----------------------------
(***************************************************************************)
(* The Lcp transport of sim/lcp.cpp: one LcpSrc, one LcpSink and the       *)
(* network between them, with erasure coding decided by the receiver       *)
(* (ec_handler = "dst") or without erasure coding.                         *)
(*                                                                         *)
(* Sequence numbers count bytes in the code and every data packet has the  *)
(* same size _mss, so a packet is named here by its index 1 .. NumPkts and *)
(* _unacked, _highest_sent and the acknowledgements count packets.  _cwnd  *)
(* is a double; the code compares it with _unacked + _mss after truncation *)
(* (a new packet) and with _unacked unrounded (a retransmission), so the   *)
(* window is kept in half packets, which is enough to tell the two apart.  *)
(*                                                                         *)
(* Modelled configuration: pacing off, trimming off (main_lcp_entry_modern *)
(* never enables it), no failure of the control code itself.               *)
(***************************************************************************)
EXTENDS Integers, FiniteSets, Bags, Loops

CONSTANTS
  FlowPkts,       \* _flow_size in packets, before erasure coding inflates it
  ErasureCoded,   \* use_erasure_coding with ec_handler = "dst"
  Group,          \* parity_group_size
  Capacity,       \* parity_correction_capacity
  RtoReduceCwnd,  \* use_rto_cwnd_reduction
  Windows,        \* the values of _cwnd adjust_window may leave, in half packets
  MaxWake,        \* bound: self-scheduled events pending within one nanosecond
  MaxLoss,        \* bound: packets, ACKs and NACKs the network loses
  MaxSpurious     \* bound: timeouts of packets that are not lost

ASSUME FlowAssumption ==
  /\ FlowPkts \in Nat \ {0}
  /\ ErasureCoded \in BOOLEAN
  /\ RtoReduceCwnd \in BOOLEAN
ASSUME CodeAssumption ==
  /\ Group \in Nat \ {0}
  /\ Capacity \in 0 .. Group - 1
ASSUME WindowAssumption ==
  /\ Windows \subseteq Nat
  /\ \A w \in Windows : w >= 2
ASSUME BoundAssumption ==
  /\ MaxWake \in Nat \ {0}
  /\ MaxLoss \in Nat
  /\ MaxSpurious \in Nat

-----------------------------------------------------------------------------
(* The size of the flow and its parity groups.                             *)

\* Packets of a group that suffice to decode it.
Needed == Group - Capacity

NumBatches == (FlowPkts + Needed - 1) \div Needed

\* _flow_size, in packets, once startflow has added the parity packets.
NumPkts == IF ErasureCoded THEN NumBatches * Group ELSE FlowPkts

Pkts == 1 .. NumPkts
Batches == IF ErasureCoded THEN 1 .. NumBatches ELSE {}

\* get_parity_id of the first byte of packet p.
ParityId(p) == 1 + (p - 1) \div Group

\* get_parity_id of the inflated _flow_size: one more than the last group.
HighestPossible == NumBatches + 1

Packets(b) == {p \in Pkts : ParityId(p) = b}

-----------------------------------------------------------------------------
VARIABLES
  src,       \* the LcpSrc
  sink,      \* the LcpSink
  dataNet,   \* data packets in the network: copies of each packet
  acks,      \* ACKs in the network, a bag
  nacks,     \* parity NACKs in the network, a bag
  wake,      \* doNextEvent calls of the LcpSrc pending in the event list
  budget     \* what is left of MaxLoss and MaxSpurious

vars == <<src, sink, dataNet, acks, nacks, wake, budget>>

(* An entry of _sent_packets: "inflight" has none of the flags acked,      *)
(* nacked and timedOut; "lost" has nacked or timedOut; "acked" has acked.  *)
(* "unsent" is not in the list yet, "erased" no longer.                    *)
Listed == {"inflight", "lost", "acked"}
EntryState == Listed \cup {"unsent", "erased"}

SrcState ==
  [highestSent : Nat, unacked : Nat, window : Nat,
   entry : [Pkts -> EntryState], rtxPending : BOOLEAN,
   completed : SUBSET Batches,    \* completed_parity_set
   highestCompleted : Nat,        \* highest_completed_parity_id
   finished : BOOLEAN,
   out : SUBSET Pkts]             \* sent by the handler that is running

TimerState == {"absent", "armed", "off"}

SinkState ==
  [cumulative : 0 .. NumPkts, received : SUBSET Pkts,
   batch : [Batches -> SUBSET Pkts], timer : [Batches -> TimerState],
   highestCompleted : 0 .. NumBatches]

(* A cumulative ACK (seqno 1) acknowledges 1 .. n, a selective one packet  *)
(* n.  Both tell the group just completed (0: none) and the highest group  *)
(* below which everything is completed.                                    *)
AckMsg == [cumulative : BOOLEAN, n : Pkts, completed : Nat, highest : Nat]

Init ==
  /\ \E w \in Windows :
       src = [highestSent |-> 0, unacked |-> 0, window |-> w,
              entry |-> [p \in Pkts |-> "unsent"], rtxPending |-> FALSE,
              completed |-> {}, highestCompleted |-> 0,
              finished |-> FALSE, out |-> {}]
  /\ sink = [cumulative |-> 0, received |-> {},
             batch |-> [b \in Batches |-> {}],
             timer |-> [b \in Batches |-> "absent"],
             highestCompleted |-> 0]
  /\ dataNet = [p \in Pkts |-> 0]
  /\ acks = EmptyBag
  /\ nacks = EmptyBag
  /\ wake = 1                       \* connect schedules the start of the flow
  /\ budget = [loss |-> MaxLoss, spurious |-> MaxSpurious]

-----------------------------------------------------------------------------
(* The list _sent_packets and the counter _unacked.                        *)

InList(s) == {p \in Pkts : s.entry[p] \in Listed}
InFlight(s) == {p \in Pkts : s.entry[p] = "inflight"}

Minus(a, b) == IF a >= b THEN a - b ELSE 0

ReduceUnacked(s, amount) == [s EXCEPT !.unacked = Minus(@, amount)]

\* The front of the list as long as it is in S or already acked.
Front(s, S) ==
  {p \in InList(s) :
     \A q \in InList(s) : q <= p => q \in S \/ s.entry[q] = "acked"}

Erase(s, S) ==
  [s EXCEPT !.entry = [p \in Pkts |-> IF p \in S THEN "erased" ELSE s.entry[p]]]

Oldest(s) == CHOOSE p \in InList(s) : \A q \in InList(s) : p <= q

\* A faulty variant: the packet the sink is waiting for counts as acked.
CumulativeAckOneTooMany(s, n) ==
  Erase(s, Front(s, 1 .. n + 1))

CumulativeAck(s, n) ==
  LET gone  == Front(s, 1 .. n)
      newly == {p \in gone : s.entry[p] # "acked"}
  IN  \* receivePacket has already counted the first one
      ReduceUnacked(Erase(s, gone), Minus(Cardinality(newly), 1))

\* A faulty variant: a selective ACK erases its entry wherever it stands.
SelectiveAckErases(s, n) == Erase(s, InList(s) \cap {n})

SelectiveAck(s, n) ==
  IF InList(s) = {} \/ (InList(s) # {} /\ Oldest(s) > n) THEN s
  ELSE IF n = Oldest(s) THEN Erase(s, Front(s, {n}))
  ELSE [s EXCEPT !.entry[n] = "acked"]

UpdatePendingPacketsList(s, a) ==
  IF a.cumulative THEN CumulativeAck(s, a.n) ELSE SelectiveAck(s, a.n)

-----------------------------------------------------------------------------
(* Sending.                                                                *)

\* The group of p needs no more packets as far as the sender knows.
KnownComplete(s, p) ==
  /\ ErasureCoded
  /\ \/ ParityId(p) <= s.highestCompleted
     \/ ParityId(p) \in s.completed

\* A faulty variant: a packet that finds no room is not remembered.
ResendPacketForgets(s, p) ==
  IF 2 * s.unacked < s.window
  THEN [s EXCEPT !.unacked = @ + 1, !.entry[p] = "inflight", !.out = @ \cup {p}]
  ELSE s

\* resend_packet: the caller sets _rtx_pending when there is no room.
ResendPacket(s, p) ==
  IF 2 * s.unacked < s.window
  THEN [s EXCEPT !.unacked = @ + 1, !.entry[p] = "inflight", !.out = @ \cup {p}]
  ELSE [s EXCEPT !.rtxPending = TRUE]

\* A faulty variant: the packet that timed out keeps its place in the window.
TimeOutKeepsUnacked(s, p) == [s EXCEPT !.entry[p] = "lost"]

TimeOut(s, p) ==
  [ReduceUnacked(s, 1) EXCEPT
     !.entry[p] = "lost",
     !.window = IF RtoReduceCwnd THEN IF @ >= 4 THEN @ - 2 ELSE 2 ELSE @]

\* One round of the loop of retransmit_packet: T are the entries whose timer
\* has expired.
RetransmitStep(s, p, T) ==
  LET t == IF s.entry[p] = "inflight" /\ p \in T THEN TimeOut(s, p) ELSE s
  IN  IF t.entry[p] # "lost" THEN t
      ELSE IF KnownComplete(t, p) THEN [t EXCEPT !.entry[p] = "acked"]
      ELSE ResendPacket(t, p)

\* One round of the loop of processParityNack for group b.
ParityNackStep(s, p, b) ==
  IF s.entry[p] \in {"inflight", "lost"} /\ ParityId(p) = b
  THEN ResendPacket([ReduceUnacked(s, 1) EXCEPT !.entry[p] = "lost"], p)
  ELSE s

RetransmitLoop(T) ==
  [p \in Pkts |-> [s \in SrcState |-> RetransmitStep(s, p, T)]]

\* With erasure coding the front of the list may have become acked.
DropAckedFront[s \in SrcState] ==
  IF ErasureCoded THEN Erase(s, Front(s, {})) ELSE s

RetransmitPacket(s, T) ==
  DropAckedFront[
    RunLoop(RetransmitLoop(T), NumPkts, [s EXCEPT !.rtxPending = FALSE])]

\* The new packets the window has room for.
SendNewPackets[s \in SrcState] ==
  LET room == Minus(s.window \div 2, s.unacked)
      left == Minus(NumPkts, s.highestSent)
      k    == IF room < left THEN room ELSE left
      new  == s.highestSent + 1 .. s.highestSent + k
  IN  [s EXCEPT !.highestSent = @ + k, !.unacked = @ + k,
                !.entry = [p \in Pkts |-> IF p \in new THEN "inflight" ELSE @[p]],
                !.out = @ \cup new]

SendPackets(s, T) ==
  SendNewPackets[IF s.rtxPending THEN RetransmitPacket(s, T) ELSE s]

-----------------------------------------------------------------------------
(* What the handlers of the LcpSrc have in common.                         *)

Outstanding(p) ==          \* a copy of p or an ACK for it is in the network
  \/ dataNet[p] > 0
  \/ \E a \in DOMAIN acks : IF a.cumulative THEN p <= a.n ELSE p = a.n

\* What send_packets may find expired: it looks only when a packet is waiting
\* to be retransmitted.
Expired(s) == IF s.rtxPending THEN SUBSET InFlight(s) ELSE {{}}

\* The timers of lost packets expire sooner or later; those of others only
\* while the budget lasts.

Spend(T) ==
  LET early == Cardinality({p \in T : Outstanding(p)})
  IN  /\ early <= budget.spurious
      /\ budget' = [budget EXCEPT !.spurious = @ - early]

\* The handler leaves the sender in state s and its packets to the network.
Leave(s) ==
  /\ src' = [s EXCEPT !.out = {}]
  /\ dataNet' = [p \in Pkts |-> IF p \in s.out THEN dataNet[p] + 1 ELSE dataNet[p]]

\* The end of receivePacket: look at the list again one nanosecond later.
WakeLater(s) ==
  IF 2 * s.unacked < s.window /\ ~s.finished /\ (InList(s) # {} \/ s.unacked > 0)
  THEN wake' = wake + 1
  ELSE wake' = wake

-----------------------------------------------------------------------------
(* The handlers of the LcpSrc.                                             *)

\* doNextEvent: startflow, then send_packets.
DoNextEvent ==
  /\ wake > 0
  /\ wake' = wake - 1
  /\ \E T \in Expired(src) :
       /\ Spend(T)
       /\ \E s \in {SendPackets(src, T)} : Leave(s)
  /\ UNCHANGED <<sink, acks, nacks>>

\* One scan of the LcpRtxTimerScanner in which the timers of T have expired.
RtxScan(T) ==
  /\ ~src.finished
  /\ Spend(T)
  /\ \E s \in {RetransmitPacket(src, T)} : Leave(s)
  /\ UNCHANGED <<sink, acks, nacks, wake>>

\* A faulty variant: a group completed out of sequence raises the highest one.
LearnCompletedOutOfSequence(s, a) ==
  [s EXCEPT !.highestCompleted = IF a.completed > @ THEN a.completed ELSE @]

\* A faulty variant: the group the sink waits for counts as completed.
LearnNextAwaited(s, a) ==
  [s EXCEPT !.highestCompleted = IF a.highest > 0 THEN a.highest + 1 ELSE @]

LearnCompleted(s, a) ==
  LET known == s.completed \cup (Batches \cap {a.completed})
  IN  IF ErasureCoded /\ a.highest > s.highestCompleted
      THEN [s EXCEPT !.completed = {b \in known : b >= a.highest},
                     !.highestCompleted = a.highest]
      ELSE [s EXCEPT !.completed = known]

LastBatchAllAcked(s) ==
  \A p \in InList(s) : ParityId(p) = HighestPossible => s.entry[p] = "acked"

\* A faulty variant: the ACK of the last packet ends the flow.
FinishTriggeredByLast(s, a) == a.n >= NumPkts \/ s.highestCompleted = NumBatches

FinishTriggered(s, a) ==
  \/ a.n >= NumPkts /\ InList(s) = {}
  \/ /\ ErasureCoded
     /\ \/ s.highestCompleted = HighestPossible
        \/ s.highestCompleted = HighestPossible - 1 /\ LastBatchAllAcked(s)

\* A faulty variant: the entry is removed whether there is one or not.
CancelWakeBlindly == wake' = wake - 1

\* cancelPendingSource removes one pending event, if there is one.
CancelWake == wake' = Minus(wake, 1)

FinishFlow(s) == [Erase(s, InList(s)) EXCEPT !.finished = TRUE]

AdjustWindow(s, a, w) ==
  [s EXCEPT !.highestSent = IF a.n >= @ THEN a.n ELSE @, !.window = w]

ReceiveAck(a) ==
  /\ a \in DOMAIN acks
  /\ wake < MaxWake
  /\ acks' = acks (-) SetToBag({a})
  /\ \E s \in {LearnCompleted(UpdatePendingPacketsList(ReduceUnacked(src, 1), a), a)} :
       \/ /\ s.finished
          /\ Leave(s)
          /\ UNCHANGED <<wake, budget>>
       \/ /\ ~s.finished
          /\ FinishTriggered(s, a)
          /\ Leave(FinishFlow(s))
          /\ CancelWake
          /\ UNCHANGED budget
       \/ /\ ~s.finished
          /\ ~FinishTriggered(s, a)
          /\ \E w \in Windows, T \in Expired(s) :
               /\ Spend(T)
               /\ \E t \in {SendPackets(AdjustWindow(s, a, w), T)} :
                    Leave(t) /\ WakeLater(t)
  /\ UNCHANGED <<sink, nacks>>

ParityNackLoop(b) ==
  [p \in Pkts |-> [s \in SrcState |-> ParityNackStep(s, p, b)]]

ProcessParityNack(s, b) ==
  IF b <= s.highestCompleted \/ b \in s.completed THEN s
  ELSE RunLoop(ParityNackLoop(b), NumPkts, s)

ReceiveNack(b) ==
  /\ b \in DOMAIN nacks
  /\ wake < MaxWake
  /\ nacks' = nacks (-) SetToBag({b})
  /\ \E s \in {ProcessParityNack(ReduceUnacked(src, 1), b)} :
       Leave(s) /\ WakeLater(s)
  /\ UNCHANGED <<sink, acks, budget>>

-----------------------------------------------------------------------------
(* The handlers of the LcpSink.                                            *)

Reached(k, b) == Cardinality(k.batch[b]) >= Needed

\* A faulty variant: what waits behind the gap stays in _received.
AdvanceByOne(k, p) == [k EXCEPT !.cumulative = p]

\* The packet fills the gap: take what _received holds behind it.
Advance(k, p) ==
  LET cum == CHOOSE n \in p .. NumPkts :
               /\ p + 1 .. n \subseteq k.received
               /\ n + 1 \notin k.received
  IN  [k EXCEPT !.cumulative = cum, !.received = @ \ (p + 1 .. cum)]

Store(k, p) ==
  IF p = k.cumulative + 1 THEN Advance(k, p)
  ELSE IF p <= k.cumulative THEN k
  ELSE [k EXCEPT !.received = @ \cup {p}]

\* The packet joins its group; its arrival starts the timer again.
JoinBatch(k, p) ==
  LET b == ParityId(p)
  IN  [k EXCEPT !.batch[b] = @ \cup {p}, !.timer[b] = "armed"]

\* The groups completed in sequence leave rcvd_batches_map.
CloseBatches(k) ==
  LET h == CHOOSE n \in k.highestCompleted .. NumBatches :
             /\ \A b \in k.highestCompleted + 1 .. n : Reached(k, b)
             /\ n < NumBatches => ~Reached(k, n + 1)
  IN  [k EXCEPT !.highestCompleted = h,
                !.batch = [b \in Batches |-> IF b <= h THEN {} ELSE k.batch[b]],
                !.timer = [b \in Batches |-> IF b <= h THEN "absent" ELSE k.timer[b]]]

\* A faulty variant: the group above the highest completed one is taken for
\* completed too.
OpensTooLate(k, p) == ErasureCoded /\ ParityId(p) > k.highestCompleted + 1

\* The group of p is not known to be completed in sequence.
Opens(k, p) == ErasureCoded /\ ParityId(p) > k.highestCompleted

ReceiveData(p) ==
  /\ dataNet[p] > 0
  /\ dataNet' = [dataNet EXCEPT ![p] = @ - 1]
  /\ \E k \in {Store(sink, p)} :
     \E j \in {IF Opens(k, p) THEN JoinBatch(k, p) ELSE k} :
     \E l \in {IF Opens(k, p) THEN CloseBatches(j) ELSE j} :
       /\ sink' = l
       /\ acks' = acks (+) SetToBag({
            [cumulative |-> p <= l.cumulative,
             n |-> IF p <= l.cumulative THEN l.cumulative ELSE p,
             completed |-> IF Opens(k, p) /\ Reached(j, ParityId(p))
                           THEN ParityId(p) ELSE 0,
             highest |-> l.highestCompleted]})
  /\ UNCHANGED <<src, nacks, wake, budget>>

\* Nothing of group b, no ACK and no NACK is on its way.
Quiet(b) ==
  /\ \A p \in Packets(b) : dataNet[p] = 0
  /\ acks = EmptyBag
  /\ b \notin DOMAIN nacks

\* One scan of the LcpParityTimerScanner in which the timers of the groups E
\* have expired.
ParityScan(E) ==
  /\ ~src.finished
  /\ E # {}
  /\ \A b \in E : sink.timer[b] = "armed" /\ ~Reached(sink, b)
  /\ LET early == Cardinality({b \in E : ~Quiet(b)})
     IN  /\ early <= budget.spurious
         /\ budget' = [budget EXCEPT !.spurious = @ - early]
  /\ sink' = [sink EXCEPT !.timer = [b \in Batches |-> IF b \in E THEN "off" ELSE sink.timer[b]]]
  /\ nacks' = nacks (+) SetToBag(E)
  /\ UNCHANGED <<src, dataNet, acks, wake>>

-----------------------------------------------------------------------------
(* The network drops packets of any kind.  It may also reorder them: the   *)
(* receive actions pick any packet in it.                                  *)

Lose ==
  /\ budget.loss > 0
  /\ budget' = [budget EXCEPT !.loss = @ - 1]
  /\ \/ /\ \E p \in Pkts : /\ dataNet[p] > 0
                           /\ dataNet' = [dataNet EXCEPT ![p] = @ - 1]
        /\ UNCHANGED <<acks, nacks>>
     \/ /\ \E a \in DOMAIN acks : acks' = acks (-) SetToBag({a})
        /\ UNCHANGED <<dataNet, nacks>>
     \/ /\ \E b \in DOMAIN nacks : nacks' = nacks (-) SetToBag({b})
        /\ UNCHANGED <<dataNet, acks>>
  /\ UNCHANGED <<src, sink, wake>>

Next ==
  \/ DoNextEvent
  \/ \E T \in SUBSET InFlight(src) : RtxScan(T)
  \/ \E a \in DOMAIN acks : ReceiveAck(a)
  \/ \E b \in DOMAIN nacks : ReceiveNack(b)
  \/ \E p \in Pkts : ReceiveData(p)
  \/ \E E \in SUBSET Batches : ParityScan(E)
  \/ Lose

Spec == Init /\ [][Next]_vars

-----------------------------------------------------------------------------
LostPkts == {p \in InFlight(src) : ~Outstanding(p)}

(* Fairness: the event list runs every pending event, the scanner runs     *)
(* every microsecond and finds a lost packet's timer expired some day, and *)
(* what the network does not lose it delivers.  Nothing is assumed of the  *)
(* parity timers.                                                          *)
Fairness ==
  /\ WF_vars(DoNextEvent)
  /\ WF_vars(RtxScan(LostPkts))
  /\ WF_vars(\E a \in DOMAIN acks : ReceiveAck(a))
  /\ WF_vars(\E b \in DOMAIN nacks : ReceiveNack(b))
  /\ WF_vars(\E p \in Pkts : ReceiveData(p))

FairSpec == Spec /\ Fairness

-----------------------------------------------------------------------------
(* Properties.                                                             *)

TypeOK ==
  /\ src \in SrcState
  /\ sink \in SinkState
  /\ dataNet \in [Pkts -> Nat]
  /\ IsABag(acks) /\ DOMAIN acks \subseteq AckMsg
  /\ IsABag(nacks) /\ DOMAIN nacks \subseteq Batches
  /\ wake \in 0 .. MaxWake
  /\ budget \in [loss : 0 .. MaxLoss, spurious : 0 .. MaxSpurious]

\* What the sink has: in order up to cumulative, then what _received holds.
Got == 1 .. sink.cumulative \cup sink.received

Complete(b) == b <= sink.highestCompleted \/ Reached(sink, b)

(* _unacked never counts a packet nobody waits for: while the flow runs it *)
(* is at most the number of entries neither acked, nacked nor timed out.   *)
(* Otherwise the window could close on packets no ACK or timeout gives back*)
(* and the sender would stall (reduce_unacked and its callers).            *)
InFlightBound == ~src.finished => src.unacked <= Cardinality(InFlight(src))

(* The assertion of update_pending_packets_list: the packet a selective    *)
(* ACK names is in the list, however late the ACK arrives.                 *)
SackFindsEntry ==
  \A a \in DOMAIN acks :
    ~a.cumulative /\ InList(src) # {} /\ Oldest(src) <= a.n => a.n \in InList(src)

(* The comment in update_pending_packets_list: a selective ACK never names *)
(* the oldest entry, because of the cumulative ones.  With erasure coding  *)
(* it may, and the code is right to handle it: the front of the list leaves*)
(* it when its group is completed without it.                              *)
SackNeverOldest ==
  \A a \in DOMAIN acks :
    ~a.cumulative /\ InList(src) # {} => a.n # Oldest(src)

(* A packet leaves the list or is marked acked only when the sink has it,  *)
(* or, with erasure coding, does not need it.                              *)
AckedWasReceived ==
  \A p \in Pkts :
    src.entry[p] \in {"acked", "erased"} =>
      p \in Got \/ (ErasureCoded /\ Complete(ParityId(p)))

(* Every packet declared lost and not sent again keeps _rtx_pending set,   *)
(* so that the next send_packets retries it before sending new data.       *)
LostIsPending ==
  (\E p \in Pkts : src.entry[p] = "lost") => src.rtxPending

(* The sink counts the packets of an unfinished group exactly: its set is  *)
(* what the reassembly has of that group.                                  *)
BatchMatchesReassembly ==
  \A b \in Batches :
    b > sink.highestCompleted => sink.batch[b] = Got \cap Packets(b)

(* What the sender knows of completed groups is never ahead of the sink,   *)
(* and never beyond highest_possible_parity_id (the abort of processAck).  *)
SenderBehindSink ==
  /\ src.highestCompleted <= sink.highestCompleted
  /\ src.highestCompleted <= HighestPossible
  /\ \A b \in src.completed : Complete(b)

(* The abort of send_packets: the next new packet is not of a group below  *)
(* the highest completed one.                                              *)
NewPacketNotStale ==
  ErasureCoded /\ src.highestSent < NumPkts =>
    ParityId(src.highestSent + 1) >= src.highestCompleted

Decodable(S) ==
  IF ErasureCoded THEN \A b \in Batches : Cardinality(S \cap Packets(b)) >= Needed
                  ELSE S = Pkts

(* The transport implements ReliableTransfer: finish_flow is called only   *)
(* when the sink can rebuild all of the flow, whichever of its conditions  *)
(* held, the sender's list and the sink's reassembly only move forward,    *)
(* and no doNextEvent or late ACK makes the sender of a finished flow send *)
(* new packets.                                                            *)
Abs == INSTANCE ReliableTransfer WITH
         N <- NumPkts, Enough <- Decodable,
         sent <- src.highestSent, got <- Got, done <- src.finished
AbsSpec == Abs!Spec

(* Every flow finishes, whatever is lost and reordered (finish_flow is     *)
(* reached from every state).                                              *)
FlowFinishes == <>src.finished

(* With erasure coding the list can empty before everything was sent, with *)
(* nobody left to call send_packets: retransmit_packet, called by the      *)
(* scanner, drops the last packet as one of a completed group.             *)
Stalled ==
  /\ InList(src) = {} /\ src.highestSent < NumPkts
  /\ \A p \in Pkts : dataNet[p] = 0
  /\ acks = EmptyBag /\ nacks = EmptyBag /\ wake = 0

(* That is the only way not to finish: whatever is lost, the flow finishes *)
(* or ends in such a state.                                                *)
FinishesOrStalls == <>(src.finished \/ Stalled)
=============================================================================
