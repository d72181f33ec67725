------------------------------ MODULE DelayLine ------------------------------
(* What a Pipe promises: it delivers every packet exactly Delay after its  *)
(* arrival and in the order of arrival.                                    *)
EXTENDS Integers, Sequences

CONSTANTS Delay, Packets

VARIABLES
  now,        \* the time
  line,       \* what is in flight: packets and the times they are due
  delivered   \* the packet delivered last

lvars == <<now, line, delivered>>

Init == now = 0 /\ line = <<>> /\ delivered = 0

Enter ==
  /\ \E p \in Packets : line' = Append(line, [pkt |-> p, time |-> now + Delay])
  /\ UNCHANGED <<now, delivered>>

Deliver ==
  /\ line # <<>> /\ Head(line).time = now
  /\ delivered' = Head(line).pkt
  /\ line' = Tail(line)
  /\ UNCHANGED now

\* Time does not pass what is due.
Wait ==
  /\ line = <<>> \/ now < Head(line).time
  /\ now' = now + 1
  /\ UNCHANGED <<line, delivered>>

Next == Enter \/ Deliver \/ Wait

Spec == Init /\ [][Next]_lvars
=============================================================================
