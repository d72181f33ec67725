-------------------------------- MODULE Pipe --------------------------------
(***************************************************************************)
(* A Pipe (sim/pipe.cpp), the wire between two queues, and its entries in  *)
(* the event list.  The buffer is CircularBuffer: Pipe::receivePacket      *)
(* repeats its push line by line and doNextEvent its pop.  Only one event  *)
(* of a pipe may be pending, for the packet at the head; the others follow *)
(* from the event before.                                                  *)
(***************************************************************************)
EXTENDS CircularBuffer, Bags

CONSTANTS
  Delay,         \* _delay
  InitialSize,   \* _size at first (16 in the code)
  MaxPkts,       \* bound: packets that enter the pipe
  MaxTime        \* bound: the time at which the clock stops

ASSUME PipeAssumption ==
  /\ Delay \in Nat
  /\ InitialSize \in Nat \ {0}
  /\ MaxPkts \in Nat
  /\ MaxTime \in Nat

VARIABLES
  now,        \* eventlist().now()
  inflight,   \* _inflight_v, _next_insert, _next_pop, _count and _size
  pending,    \* the times of the events of this pipe in the event list
  entered,    \* how many packets have entered; they are numbered
  delivered   \* the packet handed on last

vars == <<now, inflight, pending, entered, delivered>>

Init ==
  /\ now = 0
  /\ inflight = NewBuffer(InitialSize)
  /\ pending = EmptyBag
  /\ entered = 0
  /\ delivered = 0

ReceivePacket ==
  /\ entered < MaxPkts
  /\ entered' = entered + 1
  /\ pending' = IF inflight.count = 0 THEN pending (+) SetToBag({now + Delay})
                                      ELSE pending
  /\ inflight' = Push(inflight, [pkt |-> entered + 1, time |-> now + Delay])
  /\ UNCHANGED <<now, delivered>>

\* A faulty variant: the next event is one delay away.
NextAfterDelay(b) == now + Delay

\* The time of the event for the packet at the head.
NextEventTime(b) == Back(b).time

DoNextEvent ==
  /\ now \in DOMAIN pending
  /\ LET rest == pending (-) SetToBag({now})
         left == Pop(inflight)
     IN  IF inflight.count = 0
         THEN pending' = rest /\ UNCHANGED <<inflight, delivered>>
         ELSE /\ delivered' = Back(inflight).pkt
              /\ inflight' = left
              /\ pending' = IF left.count > 0
                            THEN rest (+) SetToBag({NextEventTime(left)})
                            ELSE rest
  /\ UNCHANGED <<now, entered>>

\* The event list moves on to a later time when nothing is due.
Tick ==
  /\ now < MaxTime
  /\ now \notin DOMAIN pending
  /\ now' = now + 1
  /\ UNCHANGED <<inflight, pending, entered, delivered>>

Next == ReceivePacket \/ DoNextEvent \/ Tick

Spec == Init /\ [][Next]_vars

-----------------------------------------------------------------------------
(* The positions of the buffer fit its count, through every growth.        *)
BufferWellFormed == WellFormed(inflight)

(* The event list holds one event of the pipe exactly when a packet is in  *)
(* flight, at the time the oldest one is due.                              *)
OneEventForHead ==
  pending = IF inflight.count = 0 THEN EmptyBag
            ELSE SetToBag({Back(inflight).time})

(* The pipe is a delay line: no packet is lost, overtaken, early or late.  *)
Line == INSTANCE DelayLine WITH line <- Contents(inflight), Packets <- 1 .. MaxPkts
LineSpec == Line!Spec
=============================================================================
