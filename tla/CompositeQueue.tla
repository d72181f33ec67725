---------------------------- MODULE CompositeQueue ----------------------------
(***************************************************************************)
(* The output queue of a switch (src/sim/compositequeue.cpp): two queues   *)
(* of data packets, low[0] and low[1], one of headers and ACKs, a          *)
(* scheduler that shares the link between them, and a phantom counter that *)
(* drains on a clock of its own.  The service of a packet and the phantom  *)
(* clock are both events of the same source, and doNextEvent() must tell   *)
(* them apart by their time alone.                                         *)
(*                                                                         *)
(* A packet in low[i] is its size, a packet in high its kind.  Times are   *)
(* relative to the present, one unit being the time to send one unit of    *)
(* data: pending[d] is the number of events due in d units, phantomNext    *)
(* the distance to _decrease_phantom_next, -1 once it is past.             *)
(***************************************************************************)
EXTENDS Integers, Sequences, FiniteSetsExt

CONSTANTS DataSizes,     \* the sizes of data packets
          HeaderSize,    \* the size of a header or an ACK
          MaxSize,       \* _maxsize, the limit of each low queue
          HighLimit,     \* the limit of the high queue (20000 * _maxsize)
          RatioHigh, RatioLow,
          PhantomSize,   \* _phantom_queue_size
          PhantomStep,   \* what one tick takes from the phantom counter
          PhantomDrain,  \* _draining_time_phantom
          UsePhantom,    \* _use_phantom
          FlowsActive,   \* FLOW_ACTIVE # 0
          Horizon        \* the furthest ahead that an event is scheduled

ASSUME CompositeAssumption ==
  /\ DataSizes \subseteq Nat \ {0}
  /\ {HeaderSize, MaxSize, HighLimit, RatioHigh, RatioLow, PhantomSize,
      PhantomStep, PhantomDrain, Horizon} \subseteq Nat \ {0}
  /\ \A d \in DataSizes \cup {HeaderSize, PhantomDrain} : d <= Horizon
  /\ {UsePhantom, FlowsActive} \subseteq BOOLEAN

Kinds == {"ack", "nack"}   \* "nack": a NACK or a trimmed packet

VARIABLES inSeries,   \* _phantom_in_series, an option of the program
          q,          \* the CompositeQueue object
          pending,    \* its entries in the event list
          passed      \* history: departures since the class was last served
vars == <<inSeries, q, pending, passed>>

Sched(p, d) == [p EXCEPT ![d] = @ + 1]

(* EventList::cancelPendingSource() removes the earliest entry only. *)
CancelFirst(p) ==
  LET due == {d \in DOMAIN p : p[d] > 0}
  IN IF due = {} THEN p ELSE [p EXCEPT ![Min(due)] = @ - 1]

LowEmpty(s) == s.low[0] = <<>> /\ s.low[1] = <<>>
Waiting(s) == {i \in {0, 1} : s.low[i] # <<>>}
Empty(s) == LowEmpty(s) /\ s.high = <<>>

Init ==
  /\ inSeries \in BOOLEAN
  /\ q = [low |-> [i \in {0, 1} |-> <<>>], lowBytes |-> [i \in {0, 1} |-> 0],
          high |-> <<>>, highBytes |-> 0, serv |-> "INVALID", crt |-> 0,
          weightCnt |-> 0, phantom |-> 0, firstTime |-> TRUE, phantomNext |-> -1]
  /\ pending = [d \in 0 .. Horizon |-> 0]
  /\ passed = [high |-> 0, data |-> 0, other |-> [i \in {0, 1} |-> 0]]
-----------------------------------------------------------------------------
AddPhantom(n, s) == [s EXCEPT !.phantom = Min({@ + n, PhantomSize})]
NotInSeries(n, s) == IF inSeries THEN s ELSE AddPhantom(n, s)
OnlyInSeries(n, s) == IF inSeries THEN AddPhantom(n, s) ELSE s

(* get_enqueue_low_min_drain_time() *)
MinDrain(s) == Min({Head(s.low[i]) : i \in Waiting(s)})

(* Faulty form: a turn is counted past the last one. *)
NextTurnUnwrapped(s) == IF s.crt + 1 > RatioHigh + RatioLow THEN 0 ELSE s.crt + 1
NextTurn(s) == IF s.crt + 1 >= RatioHigh + RatioLow THEN 0 ELSE s.crt + 1

Contended(s) == s.high # <<>> /\ ~LowEmpty(s)

(* Faulty form: a header takes the link whenever there is one. *)
ServesHighAlways(s) == s.high # <<>>
ServesHigh(s) == s.high # <<>> /\ (LowEmpty(s) \/ NextTurn(s) < RatioHigh)

(* beginService(): the new state and the delay of the event it schedules. *)
BeginService(s) ==
  [state |-> [s EXCEPT !.crt = IF Contended(s) THEN NextTurn(s) ELSE @,
                       !.serv = IF ServesHigh(s) THEN "HIGH" ELSE "LOW"],
   delay |-> IF ServesHigh(s) THEN HeaderSize ELSE MinDrain(s)]

(* Faulty form: data alone does not wake the link. *)
BeginsForHeaders(s) == s.serv = "INVALID" /\ s.high # <<>>
Begins(s) == s.serv = "INVALID" /\ ~Empty(s)

(* The queue s with events p, once the link has been given work if it is idle. *)
Serve(s, p) ==
  IF Begins(s) THEN LET b == BeginService(s)
                    IN /\ q' = b.state
                       /\ pending' = Sched(p, b.delay)
               ELSE q' = s /\ pending' = p
-----------------------------------------------------------------------------
(* receivePacket() with a data packet of the given size for low[i]: dropped
   when low[i] has no room (_drop_when_full). *)
ReceiveData(i, size) ==
  /\ IF q.lowBytes[i] + size <= MaxSize
     THEN Serve(NotInSeries(size, [q EXCEPT !.low[i] = Append(@, size),
                                            !.lowBytes[i] = @ + size]), pending)
     ELSE q' = NotInSeries(size, q) /\ UNCHANGED pending
  /\ UNCHANGED <<inSeries, passed>>

(* receivePacket() with a header, an ACK or a NACK; beyond the limit it is
   bounced or dropped and the queue stays as it is. *)
ReceiveHeader(kind) ==
  /\ q.highBytes + HeaderSize <= HighLimit
  /\ Serve([q EXCEPT !.high = Append(@, kind), !.highBytes = @ + HeaderSize], pending)
  /\ UNCHANGED <<inSeries, passed>>
-----------------------------------------------------------------------------
(* popLowQueue(): the queue it takes from, and the state after. *)
NextLow(s) ==
  IF Waiting(s) = {0, 1} THEN (IF s.weightCnt < 1 THEN 0 ELSE 1)
                         ELSE CHOOSE i \in Waiting(s) : TRUE

PopLowQueue(s) ==
  LET i == NextLow(s)
  IN OnlyInSeries(Head(s.low[i]),
       [s EXCEPT !.low[i] = Tail(@),
                 !.lowBytes[i] = @ - Head(s.low[i]),
                 !.weightCnt = IF Waiting(s) = {0, 1} THEN (@ + 1) % 2 ELSE @])

PopHigh(s) ==
  LET t == [s EXCEPT !.high = Tail(@), !.highBytes = @ - HeaderSize]
  IN IF Head(s.high) = "nack" THEN OnlyInSeries(PhantomStep, t) ELSE t

(* decreasePhantom(): one tick of the phantom clock.  Faulty form: the time
   of the next tick is not noted. *)
DecreasePhantomForgets(s) == [s EXCEPT !.phantom = Max({@ - PhantomStep, 0})]
DecreasePhantom(s) ==
  [s EXCEPT !.phantom = Max({@ - PhantomStep, 0}), !.phantomNext = PhantomDrain]

(* The next tick is armed; with no flow left it should be taken back, but
   cancelPendingSource() takes back whichever event of the queue comes first.
   Faulty form: so it is with flows left, too. *)
ArmPhantomAndCancel(p) == CancelFirst(Sched(p, PhantomDrain))
ArmPhantom(p) ==
  LET armed == Sched(p, PhantomDrain)
  IN IF FlowsActive THEN armed ELSE CancelFirst(armed)

(* The histories after a departure from the class that was served. *)
Overtake(i) ==
  passed' = IF q.serv = "HIGH"
            THEN [passed EXCEPT !.high = IF LowEmpty(q) THEN 0 ELSE @ + 1, !.data = 0]
            ELSE [high |-> 0,
                  data |-> IF q.high = <<>> THEN 0 ELSE passed.data + 1,
                  other |-> [j \in {0, 1} |->
                     IF j = i \/ q.low[j] = <<>> THEN 0 ELSE passed.other[j] + 1]]

(* completeService(): the packet leaves, the next service begins, and the
   first departure starts the phantom clock. *)
StartsClock == q.firstTime /\ UsePhantom
CompleteService(p) ==
  LET popped == IF q.serv = "LOW" THEN PopLowQueue(q) ELSE PopHigh(q)
      idle == [popped EXCEPT !.serv = "INVALID"]
      next == IF Begins(idle) THEN BeginService(idle) ELSE [state |-> idle, delay |-> 0]
      served == IF Begins(idle) THEN Sched(p, next.delay) ELSE p
  IN /\ q' = IF StartsClock THEN DecreasePhantom([next.state EXCEPT !.firstTime = FALSE])
                            ELSE next.state
     /\ pending' = IF StartsClock THEN ArmPhantom(served) ELSE served
     /\ Overtake(IF q.serv = "LOW" THEN NextLow(q) ELSE 0)

(* doNextEvent(): a phantom tick when it is time for one, else the end of a
   service. *)
IsTick(s) == s.phantomNext = 0 /\ UsePhantom
DoNextEvent ==
  LET rest == [pending EXCEPT ![0] = @ - 1]
  IN /\ pending[0] > 0
     /\ \/ /\ IsTick(q)
           /\ q' = DecreasePhantom(q)
           /\ pending' = ArmPhantom(rest)
           /\ UNCHANGED passed
        \/ ~IsTick(q) /\ CompleteService(rest)
     /\ UNCHANGED inSeries

(* EventList::doNextEvent(): time passes when nothing is due. *)
Tick ==
  /\ pending[0] = 0
  /\ pending' = [d \in DOMAIN pending |-> IF d = Horizon THEN 0 ELSE pending[d + 1]]
  /\ q' = [q EXCEPT !.phantomNext = Max({@ - 1, -1})]
  /\ UNCHANGED <<inSeries, passed>>

Next ==
  \/ \E i \in {0, 1}, size \in DataSizes : ReceiveData(i, size)
  \/ \E kind \in Kinds : ReceiveHeader(kind)
  \/ DoNextEvent
  \/ Tick

(* The event list runs every event that is due, and time goes on. *)
Spec == Init /\ [][Next]_vars /\ WF_vars(DoNextEvent) /\ WF_vars(Tick)
-----------------------------------------------------------------------------
Departs(i) == q.low[i] # <<>> /\ q'.low[i] = Tail(q.low[i])
HeaderDeparts == q.high # <<>> /\ q'.high = Tail(q.high)

(* The types, and the limits of the queues and of the phantom counter: the
   byte counts _queuesize_low and _queuesize_high, kept apart from the
   buffers, are the sizes of what the buffers hold. *)
TypeOK ==
  /\ inSeries \in BOOLEAN
  /\ \A i \in {0, 1} : /\ q.low[i] \in Seq(DataSizes)
                       /\ q.lowBytes[i] = MapThenSumSet(LAMBDA k : q.low[i][k], DOMAIN q.low[i])
                       /\ q.lowBytes[i] <= MaxSize
  /\ q.high \in Seq(Kinds)
  /\ q.highBytes = HeaderSize * Len(q.high) /\ q.highBytes <= HighLimit
  /\ q.serv \in {"INVALID", "LOW", "HIGH"}
  /\ q.crt \in 0 .. RatioHigh + RatioLow - 1 /\ q.weightCnt \in {0, 1}
  /\ q.phantom \in 0 .. PhantomSize /\ q.phantomNext \in -1 .. PhantomDrain
  /\ pending \in [0 .. Horizon -> 0 .. 2]

Ticking == UsePhantom /\ ~q.firstTime
Owed(d) == IF Ticking /\ d = q.phantomNext THEN 1 ELSE 0
Services == {d \in DOMAIN pending : pending[d] > Owed(d)}

(* The two clocks are never confused: the event list holds one event for the
   service in progress and one, at _decrease_phantom_next, for the phantom
   clock once it has started, and nothing else (_serv, doNextEvent() and the
   assert(0) of completeService()). *)
EventsMatch ==
  /\ Ticking => q.phantomNext >= 0
  /\ \A d \in DOMAIN pending : pending[d] \in Owed(d) .. Owed(d) + 1
  /\ Cardinality(Services) = IF q.serv = "INVALID" THEN 0 ELSE 1

(* The link is idle only when every queue is empty, and the class it serves
   has a packet (the assertions of completeService()). *)
WorkConserving ==
  /\ q.serv = "INVALID" <=> Empty(q)
  /\ q.serv = "HIGH" => q.high # <<>>
  /\ q.serv = "LOW" => ~LowEmpty(q)

(* No class waits for more than its share of the others: between two data
   packets at most RatioHigh headers (and the one on the link when the
   packet came), between two headers at most RatioLow data packets and one,
   between two packets of one low queue one of the other. *)
BoundedOvertaking ==
  /\ passed.high <= RatioHigh + 1
  /\ passed.data <= RatioLow + 1
  /\ \A i \in {0, 1} : passed.other[i] <= 1

(* A queue that is never empty is served again and again: "services headers
   with priority" (compositequeue.h:7), and data in between. *)
HeadersServed == <>[](q.high # <<>>) => []<><<HeaderDeparts>>_vars
EveryQueueServed ==
  /\ HeadersServed
  /\ \A i \in {0, 1} : <>[](q.low[i] # <<>>) => []<><<Departs(i)>>_vars
=============================================================================
