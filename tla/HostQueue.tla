----------------------------- MODULE HostQueue -----------------------------
(***************************************************************************)
(* The queue of a host's network card, FairPriorityQueue (sim/queue.cpp),  *)
(* with the round robin over flows of each priority, FairPullQueue         *)
(* (sim/fairpullqueue.cpp).  It takes PAUSE frames from the switch.        *)
(*                                                                         *)
(* A queue is a record; an operator here is a method on it.  The events of *)
(* the queue are the times left until each; there should never be two.     *)
(***************************************************************************)
EXTENDS Integers, Sequences, FiniteSets

CONSTANTS
  HostTime    \* drainTime of a packet on the link of a host

ASSUME HostQueueAssumption == HostTime \in Nat \ {0}

READY == "READY"
PAUSED == "PAUSED"
PAUSE_RECEIVED == "PAUSE_RECEIVED"

Q_LO == 0
Q_HI == 2
Q_NONE == 3
Priorities == {Q_LO, Q_HI}   \* no packet modelled here is of Q_MID

None == [flow |-> 0, seq |-> 0]   \* NULL
End == 0                          \* _queue_map.end(); flows are positive

-----------------------------------------------------------------------------
(* FairPullQueue: a map from flows to their packets, an entry only for     *)
(* flows that have some, and an iterator into it.                          *)

EmptyPull == [map |-> <<>>, current |-> End]

Enqueue(pq, p) ==
  LET flows == DOMAIN pq.map \cup {p.flow}
  IN  [pq EXCEPT !.map =
         [f \in flows |->
            IF f # p.flow THEN pq.map[f]
            ELSE IF f \in DOMAIN pq.map THEN Append(pq.map[f], p) ELSE <<p>>]]

Least(S) == CHOOSE f \in S : \A g \in S : f <= g

\* Where dequeue stands, after it has gone from the end to the beginning.
Turn(pq) == IF pq.current = End THEN Least(DOMAIN pq.map) ELSE pq.current

\* A faulty variant: the iterator stays on an entry that may be erased.
StayAt(pq, f) == f

\* ++_current_queue
Following(pq, f) ==
  LET later == {g \in DOMAIN pq.map : g > f}
  IN  IF later = {} THEN End ELSE Least(later)

\* What dequeue returns.
NextOut(pq) == IF DOMAIN pq.map = {} THEN None ELSE Head(pq.map[Turn(pq)])

Dequeue(pq) ==
  IF DOMAIN pq.map = {} THEN pq
  ELSE LET f == Turn(pq)
           rest == Tail(pq.map[f])
           flows == IF rest = <<>> THEN DOMAIN pq.map \ {f} ELSE DOMAIN pq.map
       IN  [map |-> [g \in flows |-> IF g = f THEN rest ELSE pq.map[g]],
            current |-> Following(pq, f)]

-----------------------------------------------------------------------------
NewHostQueue ==
  [queue |-> [c \in Priorities |-> EmptyPull],
   size |-> [c \in Priorities |-> 0],       \* _queuesize, in packets
   sending |-> None, servicing |-> Q_NONE, state |-> READY,
   events |-> <<>>]

QueueSize(q) == q.size[Q_LO] + q.size[Q_HI]

\* Takes the next packet, of the highest priority with a size, off its queue.
HostBegin(q) ==
  IF QueueSize(q) = 0 THEN q
  ELSE LET c == IF q.size[Q_HI] > 0 THEN Q_HI ELSE Q_LO
       IN  [q EXCEPT !.sending = NextOut(q.queue[c]),
                     !.queue[c] = Dequeue(@),
                     !.servicing = c,
                     !.events = Append(@, HostTime)]

\* A faulty variant: does not ask whether the queue was empty.
HostReceiveAtOnce(q, p, c) ==
  LET more == [q EXCEPT !.queue[c] = Enqueue(@, p), !.size[c] = @ + 1]
  IN  IF q.state = READY THEN HostBegin(more) ELSE more

HostReceive(q, p, c) ==
  LET more == [q EXCEPT !.queue[c] = Enqueue(@, p), !.size[c] = @ + 1]
  IN  IF QueueSize(q) = 0 /\ q.state = READY THEN HostBegin(more) ELSE more

\* A PAUSE frame that stops the queue.
HostPause(q) ==
  [q EXCEPT !.state = IF QueueSize(q) > 0 THEN PAUSE_RECEIVED ELSE PAUSED]


\* A PAUSE frame of no time, which lets it go on.
HostResume(q) ==
  LET go == [q EXCEPT !.state = READY]
  IN  IF QueueSize(go) > 0 THEN HostBegin(go) ELSE go

\* completeService hands on _sending, if it does.
HostSends(q) == q.state # PAUSED /\ q.servicing # Q_NONE /\ q.sending # None

\* A faulty variant: a pause that came during the service is forgotten.
HostCompleteUnpaused(q) ==
  LET left == IF HostSends(q)
              THEN [q EXCEPT !.size[q.servicing] = @ - 1, !.sending = None, !.state = READY]
              ELSE q
  IN  IF QueueSize(left) > 0 THEN HostBegin(left)
      ELSE [left EXCEPT !.servicing = Q_NONE]

HostComplete(q) ==
  IF q.state = PAUSED THEN q
  ELSE LET left == IF HostSends(q)
                   THEN [q EXCEPT !.size[q.servicing] = @ - 1, !.sending = None]
                   ELSE q
           held == [left EXCEPT !.state = IF @ = PAUSE_RECEIVED THEN PAUSED ELSE @]
       IN  IF QueueSize(held) > 0 /\ held.state = READY
           THEN HostBegin(held)
           ELSE [held EXCEPT !.servicing = Q_NONE]
=============================================================================
