--------------------------- MODULE LosslessQueues ---------------------------
(***************************************************************************)
(* The two halves of a lossless switch port: LosslessInputQueue            *)
(* (sim/queue_lossless_input.cpp), a counter that sends PAUSE frames to    *)
(* the queue at the other end of its link, and LosslessOutputQueue         *)
(* (sim/queue_lossless_output.cpp), which holds the packets, with the time *)
(* each may still stay, and the input queues they are charged to.  All     *)
(* sizes are in packets.                                                   *)
(***************************************************************************)
EXTENDS HostQueue

CONSTANTS
  High,      \* _high_threshold
  Low,       \* _low_threshold
  OutTime    \* drainTime of a packet on a link of the switch

ASSUME LosslessAssumption ==
  /\ High \in Nat /\ Low \in Nat /\ High > Low   \* asserted by the constructors
  /\ OutTime \in Nat \ {0}

-----------------------------------------------------------------------------
NewInput == [size |-> 0, state |-> READY]

\* A faulty variant: compares the size without the packet that comes.
SendsPauseLate(q) == q.size > High /\ q.state # PAUSED

\* receivePacket sends a PAUSE frame ...
SendsPause(q) == q.size + 1 > High /\ q.state # PAUSED

InputReceive(q) ==
  [size |-> q.size + 1, state |-> IF SendsPause(q) THEN PAUSED ELSE q.state]

\* ... and completedService one of no time.
SendsResume(q) == q.size - 1 < Low /\ q.state = PAUSED

\* A faulty variant: a packet that lifts the pause is not taken off.
InputCompletedKept(q) ==
  IF SendsResume(q) THEN [q EXCEPT !.state = READY] ELSE [q EXCEPT !.size = @ - 1]

InputCompleted(q) ==
  [size |-> q.size - 1, state |-> IF SendsResume(q) THEN READY ELSE q.state]

-----------------------------------------------------------------------------
NewOutput ==
  [enqueued |-> <<>>,   \* _enqueued, the oldest packet first
   spare |-> <<>>,      \* of each, its timeout_budget less its stay; 0 if used up
   popped |-> <<>>,     \* the flow of a popped packet left in the buffer's slot 0
   vq |-> <<>>,         \* _vq, the oldest first (the code has it last)
   sending |-> FALSE, state |-> READY,
   left |-> 0]          \* time left until completeService, if sending

OutBegin(q) == [q EXCEPT !.sending = TRUE, !.left = OutTime]

OutReceive(q, p, input, budget) ==
  LET more == [q EXCEPT !.enqueued = Append(@, p), !.spare = Append(@, budget),
                        !.vq = Append(@, input)]
  IN  IF q.enqueued = <<>> /\ q.state = READY THEN OutBegin(more) ELSE more

OutPause(q) == [q EXCEPT !.state = IF q.sending THEN PAUSE_RECEIVED ELSE PAUSED]

OutResume(q) ==
  LET go == [q EXCEPT !.state = READY]
  IN  IF go.enqueued # <<>> /\ ~go.sending THEN OutBegin(go) ELSE go

(* The positions completeService's filter keeps.  A packet past its budget *)
(* goes, unless the slot it would be moved to holds a packet of an exempt  *)
(* type, whichever packet that is; good[i] is count_good after i packets.  *)
Kept(q, exempt) ==
  LET slots == q.popped \o [i \in DOMAIN q.enqueued |-> q.enqueued[i].flow]
      good[i \in 0 .. Len(q.enqueued)] ==
        IF i = 0 THEN 0
        ELSE good[i - 1] +
             (IF q.spare[i] > 0 \/ slots[good[i - 1] + 1] \in exempt THEN 1 ELSE 0)
  IN  {i \in DOMAIN q.enqueued : q.spare[i] > 0 \/ slots[good[i - 1] + 1] \in exempt}

\* The element of S that i - 1 of its elements are below.
Nth(S, i) == CHOOSE k \in S : Cardinality({j \in S : j < k}) = i - 1

Picked(s, S) == [i \in 1 .. Cardinality(S) |-> s[Nth(S, i)]]

\* A faulty variant: takes entries off _vq, but tells no input queue.
FilteredOff(q, exempt) ==
  [q EXCEPT !.enqueued = Picked(@, Kept(q, exempt)),
            !.spare = Picked(@, Kept(q, exempt)), !.popped = <<>>,
            !.vq = SubSeq(@, Len(q.enqueued) - Cardinality(Kept(q, exempt)) + 1, Len(@))]

\* Nothing is taken off _vq for a packet that goes, and no input told of it.
Filtered(q, exempt) ==
  [q EXCEPT !.enqueued = Picked(@, Kept(q, exempt)),
            !.spare = Picked(@, Kept(q, exempt)), !.popped = <<>>]

\* completeService after its filter; with a packet left it credits Head(vq).
OutComplete(q) ==
  IF q.enqueued = <<>> THEN [q EXCEPT !.sending = FALSE]
  ELSE LET rest == [q EXCEPT !.enqueued = Tail(@), !.spare = Tail(@), !.vq = Tail(@),
                             !.popped = <<Head(q.enqueued).flow>>, !.sending = FALSE,
                             !.state = IF @ = PAUSE_RECEIVED THEN PAUSED ELSE @]
       IN  IF rest.enqueued # <<>> /\ rest.state = READY
           THEN OutBegin(rest) ELSE rest
=============================================================================
