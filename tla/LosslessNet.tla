----------------------------- MODULE LosslessNet -----------------------------
(***************************************************************************)
(* A lossless switch with the hosts that send through it: host queue,      *)
(* link, input queue, switching latency, output queue.  PAUSE frames go    *)
(* from an input queue straight to the host queue of its link, in no time, *)
(* also from within the output queue's completeService.  The queues behind *)
(* the outputs are the environment: they pause and resume as LosslessInput *)
(* queues do, in turns.  Time is what is left until each event.            *)
(***************************************************************************)
EXTENDS LosslessQueues

CONSTANTS
  Hosts, Outputs,
  Flows,             \* flow ids: FairPullQueue orders them
  Source, Dest,      \* of a flow: its host and the output it leaves by
  Prio,              \* of a flow: Q_HI for acknowledgments, Q_LO for data
  WireTime,          \* _delay of the pipe from a host to the switch
  SwitchTime,        \* _delay of the pipe within the switch
  Transports,        \* what programs give: timeout budgets, and exempt flows
  FlowPkts,          \* bound: packets each flow sends
  MaxPauses          \* bound: pauses from behind the outputs

ASSUME NetAssumption ==
  /\ Flows \subseteq Nat \ {0} /\ IsFiniteSet(Flows)
  /\ IsFiniteSet(Outputs)
  /\ Source \in [Flows -> Hosts] /\ Dest \in [Flows -> Outputs]
  /\ Prio \in [Flows -> Priorities]
  /\ WireTime \in Nat /\ SwitchTime \in Nat
  /\ Transports \subseteq [budget : [Flows -> Nat], exempt : SUBSET Flows]
  /\ FlowPkts \in [Flows -> Nat] /\ MaxPauses \in Nat

VARIABLES
  nic,        \* the FairPriorityQueue of each host
  wire,       \* the pipe behind it: packets and the time left for each
  inp,        \* the LosslessInputQueue at its end
  fabric,     \* the pipe of the switch
  out,        \* the LosslessOutputQueues
  pauses,     \* how often the environment has paused an output
  sent,       \* packets each flow has handed to its host queue
  arrived,    \* the last packet of each flow that has left the switch
  lost,       \* history: the packets of each flow that outputs have dropped
  transport   \* the transport of this program, one of Transports

vars == <<nic, wire, inp, fabric, out, pauses, sent, arrived, lost, transport>>

Init ==
  /\ nic = [h \in Hosts |-> NewHostQueue]
  /\ wire = [h \in Hosts |-> <<>>]
  /\ inp = [h \in Hosts |-> NewInput]
  /\ fabric = <<>>
  /\ out = [o \in Outputs |-> NewOutput]
  /\ pauses = 0
  /\ sent = [f \in Flows |-> 0]
  /\ arrived = [f \in Flows |-> 0]
  /\ lost = [f \in Flows |-> {}]
  /\ transport \in Transports

\* A transport hands its next packet to the host queue.
Send(f) ==
  /\ sent[f] < FlowPkts[f]
  /\ sent' = [sent EXCEPT ![f] = @ + 1]
  /\ nic' = [nic EXCEPT ![Source[f]] =
               HostReceive(@, [flow |-> f, seq |-> sent[f] + 1], Prio[f])]
  /\ UNCHANGED <<wire, inp, fabric, out, pauses, arrived, lost, transport>>

DueEvents(h) == {i \in 1 .. Len(nic[h].events) : nic[h].events[i] = 0}

\* The event list runs one event of a host queue.
HostEvent(h) ==
  \E i \in DueEvents(h) :
    LET es == nic[h].events
        q == [nic[h] EXCEPT
                !.events = [j \in 1 .. Len(es) - 1 |-> IF j < i THEN es[j] ELSE es[j + 1]]]
    IN  /\ nic' = [nic EXCEPT ![h] = HostComplete(q)]
        /\ wire' = IF HostSends(q)
                   THEN [wire EXCEPT ![h] = Append(@, [pkt |-> q.sending, left |-> WireTime])]
                   ELSE wire
        /\ UNCHANGED <<inp, fabric, out, pauses, sent, arrived, lost, transport>>

\* The link of a host delivers to the input queue, which forwards.
WireEvent(h) ==
  /\ wire[h] # <<>> /\ Head(wire[h]).left = 0
  /\ wire' = [wire EXCEPT ![h] = Tail(@)]
  /\ inp' = [inp EXCEPT ![h] = InputReceive(@)]
  /\ nic' = IF SendsPause(inp[h]) THEN [nic EXCEPT ![h] = HostPause(@)] ELSE nic
  /\ fabric' = Append(fabric, [pkt |-> Head(wire[h]).pkt, input |-> h, left |-> SwitchTime])
  /\ UNCHANGED <<out, pauses, sent, arrived, lost, transport>>

\* The pipe of the switch delivers to the output queue.
FabricEvent ==
  /\ fabric # <<>> /\ Head(fabric).left = 0
  /\ LET x == Head(fabric)
     IN  out' = [out EXCEPT ![Dest[x.pkt.flow]] =
                OutReceive(@, x.pkt, x.input, transport.budget[x.pkt.flow])]
  /\ fabric' = Tail(fabric)
  /\ UNCHANGED <<nic, wire, inp, pauses, sent, arrived, lost, transport>>

\* The packets of flow f that the filter of an output drops.
Dropped(o, f) ==
  {out[o].enqueued[i].seq :
     i \in {j \in DOMAIN out[o].enqueued \ Kept(out[o], transport.exempt) :
              out[o].enqueued[j].flow = f}}

\* completeService of an output, with the input queue and host it reaches.
OutEvent(o) ==
  /\ out[o].sending /\ out[o].left = 0
  /\ LET q == Filtered(out[o], transport.exempt)
     IN  /\ out' = [out EXCEPT ![o] = OutComplete(q)]
         /\ IF q.enqueued = <<>>
            THEN UNCHANGED <<nic, inp, arrived>>
            ELSE LET h == Head(q.vq)
                     p == Head(q.enqueued)
                 IN  /\ inp' = [inp EXCEPT ![h] = InputCompleted(@)]
                     /\ nic' = IF SendsResume(inp[h])
                               THEN [nic EXCEPT ![h] = HostResume(@)] ELSE nic
                     /\ arrived' = [arrived EXCEPT ![p.flow] = p.seq]
  /\ lost' = [f \in Flows |-> lost[f] \cup Dropped(o, f)]
  /\ UNCHANGED <<wire, fabric, pauses, sent, transport>>

\* A PAUSE frame from the input queue behind an output.
PausedFromBehind(o) ==
  /\ out[o].state = READY /\ pauses < MaxPauses
  /\ pauses' = pauses + 1
  /\ out' = [out EXCEPT ![o] = OutPause(@)]
  /\ UNCHANGED <<nic, wire, inp, fabric, sent, arrived, lost, transport>>

\* The PAUSE frame of no time that follows it.
ResumedFromBehind(o) ==
  /\ out[o].state # READY
  /\ out' = [out EXCEPT ![o] = OutResume(@)]
  /\ UNCHANGED <<nic, wire, inp, fabric, pauses, sent, arrived, lost, transport>>

EventDue ==
  \/ \E h \in Hosts : DueEvents(h) # {} \/ (wire[h] # <<>> /\ Head(wire[h]).left = 0)
  \/ fabric # <<>> /\ Head(fabric).left = 0
  \/ \E o \in Outputs : out[o].sending /\ out[o].left = 0

EventPending ==
  \/ \E h \in Hosts : nic[h].events # <<>> \/ wire[h] # <<>>
  \/ fabric # <<>>
  \/ \E o \in Outputs : out[o].sending

Sooner(s) == [i \in DOMAIN s |-> [s[i] EXCEPT !.left = @ - 1]]

\* The packets of an output have stayed longer, sent on or not.
Stayed(q) ==
  [q EXCEPT !.left = IF q.sending THEN @ - 1 ELSE @,
            !.spare = [i \in DOMAIN @ |-> IF @[i] > 0 THEN @[i] - 1 ELSE 0]]

\* Time goes on when no event is due.
Tick ==
  /\ EventPending /\ ~EventDue
  /\ nic' = [h \in Hosts |->
               [nic[h] EXCEPT !.events = [i \in DOMAIN @ |-> @[i] - 1]]]
  /\ wire' = [h \in Hosts |-> Sooner(wire[h])]
  /\ fabric' = Sooner(fabric)
  /\ out' = [o \in Outputs |-> Stayed(out[o])]
  /\ UNCHANGED <<inp, pauses, sent, arrived, lost, transport>>

\* What the event list does.
RunEvents ==
  \/ \E h \in Hosts : HostEvent(h) \/ WireEvent(h)
  \/ FabricEvent
  \/ \E o \in Outputs : OutEvent(o)
  \/ Tick

Next ==
  \/ \E f \in Flows : Send(f)
  \/ RunEvents
  \/ \E o \in Outputs : PausedFromBehind(o) \/ ResumedFromBehind(o)

Spec == Init /\ [][Next]_vars

(* The event list runs every event that is due and moves on in time, and   *)
(* the queue behind an output lifts a pause it has sent.                   *)
FairSpec ==
  /\ Spec
  /\ WF_vars(RunEvents)
  /\ \A o \in Outputs : WF_vars(ResumedFromBehind(o))
-----------------------------------------------------------------------------
Packets == UNION {[flow : {f}, seq : 1 .. FlowPkts[f]] : f \in Flows}

States == {READY, PAUSED, PAUSE_RECEIVED}

\* What an input queue is charged with: packets on their way to an output,
\* and entries for it in the outputs.
InFabric(h) == {i \in DOMAIN fabric : fabric[i].input = h}
InOutputs(h) ==
  {x \in UNION {{o} \X DOMAIN out[o].vq : o \in Outputs} : out[x[1]].vq[x[2]] = h}

\* The packets that output o has dropped.
LostAt(o) == UNION {{f} \X lost[f] : f \in {g \in Flows : Dest[g] = o}}

(* What the filter of an output drops stays charged for ever: an output    *)
(* has an entry for each packet in it and for each it has dropped, and an  *)
(* input queue is charged with the entries for it, which need not be those *)
(* of its own packets any more.                                            *)
DropsStayCharged ==
  /\ \A h \in Hosts :
       inp[h].size = Cardinality(InFabric(h)) + Cardinality(InOutputs(h))
  /\ \A o \in Outputs :
       Len(out[o].vq) = Len(out[o].enqueued) + Cardinality(LostAt(o))

(* A host queue is held exactly while the input queue of its link wants it *)
(* held, which is only as long as that queue is filled up to the low       *)
(* threshold: PAUSE frames may come at any point of a service.             *)
PauseAgrees ==
  \A h \in Hosts :
    /\ nic[h].state # READY <=> inp[h].state = PAUSED
    /\ inp[h].state = PAUSED => inp[h].size >= Low
    /\ inp[h].state = READY => inp[h].size <= High

(* Above the high threshold there is room for what is on the link and what *)
(* the host had begun to send when the PAUSE frame reached it.             *)
HeadroomSuffices ==
  \A h \in Hosts : inp[h].size <= High + (WireTime \div HostTime) + 2

\* The packets of a class in a host queue.
Held(q, c) == UNION {{f} \X DOMAIN q.queue[c].map[f] : f \in DOMAIN q.queue[c].map}

(* A host queue serves one packet at a time: its size is that of what      *)
(* waits and of the packet in service, for which one event is pending.     *)
OneServiceAtATime ==
  \A h \in Hosts :
    LET q == nic[h]
    IN  /\ \A c \in Priorities :
             q.size[c] = Cardinality(Held(q, c))
                         + (IF q.sending # None /\ q.servicing = c THEN 1 ELSE 0)
        /\ Len(q.events) = IF q.sending = None THEN 0 ELSE 1

(* The round robin's iterator is at an entry of its map, or at the end,    *)
(* although entries come and go: a flow's last packet takes its away.      *)
IteratorValid ==
  \A h \in Hosts, c \in Priorities :
    nic[h].queue[c].current \in DOMAIN nic[h].queue[c].map \cup {End}

(* The assertion of FairPriorityQueue::beginService: a packet was there.   *)
BeginFindsPacket ==
  \A h \in Hosts : nic[h].events # <<>> => nic[h].sending # None

\* Without exempt flows, a flow with no budget has none of its packets kept.
Doomed ==
  {f \in Flows : transport.exempt = {} /\ transport.budget[f] = 0}

(* To a flow the network is a channel that keeps the order and loses only  *)
(* what an output drops.  Every packet gets on, whatever pauses there are, *)
(* until as many are lost as may hold a host for good; and nothing passes  *)
(* of a flow that has no budget, the default, in a program without exempt  *)
(* packets.                                                                *)
Channel == INSTANCE FifoChannel WITH Tolerated <- Low, doomed <- Doomed
=============================================================================
