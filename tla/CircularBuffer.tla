--------------------------- MODULE CircularBuffer ---------------------------
(***************************************************************************)
(* The growing circular buffer of sim/circular_buffer.h, which holds the   *)
(* packets of a CompositeQueue; Pipe (sim/pipe.cpp) has the same one of    *)
(* its own.  A buffer is a record: the slots _queue[0 .. _size - 1], the   *)
(* positions _next_push and _next_pop, and _count.                         *)
(***************************************************************************)
EXTENDS Integers, Sequences

\* What a slot holds that nothing was ever written to (vector::resize).
Blank == [pkt |-> 0, time |-> 0]

\* The constructor; the code starts with 256 slots, a Pipe with 16.
NewBuffer(n) ==
  [queue |-> [i \in 0 .. n - 1 |-> Blank], nextPush |-> 0, nextPop |-> 0,
   count |-> 0, size |-> n]

\* A faulty variant: what has wrapped around stays where it is.
GrowInPlace(b) ==
  [b EXCEPT
     !.queue = [i \in 0 .. 2 * b.size - 1 |-> IF i < b.size THEN b.queue[i] ELSE Blank],
     !.size = 2 * b.size]

\* Where position i lands in a buffer of n slots.
Wrap(i, n) == i % n

\* push doubles a full buffer: the part that has wrapped around to its start
\* moves to behind its old end.
Grow(b) ==
  LET wrapped == IF b.nextPush < b.nextPop THEN b.nextPush ELSE 0
  IN  [b EXCEPT
         !.queue = [i \in 0 .. 2 * b.size - 1 |->
                      IF i < b.size THEN b.queue[i]
                      ELSE IF i < b.size + wrapped THEN b.queue[i - b.size]
                      ELSE Blank],
         !.nextPush = IF b.nextPush < b.nextPop THEN @ + b.size ELSE @,
         !.size = 2 * b.size]

Push(b, x) ==
  LET c == IF b.count + 1 = b.size THEN Grow(b) ELSE b
  IN  [c EXCEPT !.queue[c.nextPush] = x,
                !.nextPush = Wrap(@ + 1, c.size),
                !.count = @ + 1]

\* back: the oldest element, the one pop returns.
Back(b) == b.queue[b.nextPop]

Pop(b) == [b EXCEPT !.nextPop = Wrap(@ + 1, b.size), !.count = @ - 1]

-----------------------------------------------------------------------------
\* The elements from the oldest to the newest.
Contents(b) == [i \in 1 .. b.count |-> b.queue[Wrap(b.nextPop + i - 1, b.size)]]

(* There is always a free slot, which tells a full buffer from an empty    *)
(* one, and the two positions are _count apart.                            *)
WellFormed(b) ==
  /\ b.size \in Nat \ {0} /\ b.count \in 0 .. b.size - 1
  /\ b.nextPop \in 0 .. b.size - 1 /\ b.nextPush \in 0 .. b.size - 1
  /\ b.nextPush = Wrap(b.nextPop + b.count, b.size)
  /\ DOMAIN b.queue = 0 .. b.size - 1
=============================================================================
