-------------------------- MODULE ReliableTransfer --------------------------
(* What the Lcp transport promises whoever starts a flow, whatever the     *)
(* network does: packets are sent in order and first arrive after they are *)
(* sent, the flow is declared finished once, when the receiver has enough  *)
(* packets to rebuild it, and no new packet is sent afterwards.            *)
EXTENDS Integers

CONSTANTS
  N,             \* the packets of the flow are 1 .. N
  Enough(_)      \* the sets of packets from which the flow can be rebuilt

VARIABLES
  sent,          \* the packets 1 .. sent were sent
  got,           \* the packets that arrived
  done           \* the sender has declared the flow finished

vars == <<sent, got, done>>

Init == sent = 0 /\ got = {} /\ done = FALSE

Send ==
  /\ ~done
  /\ sent' \in sent + 1 .. N
  /\ UNCHANGED <<got, done>>

Arrive ==
  /\ \E p \in (1 .. sent) \ got : got' = got \cup {p}
  /\ UNCHANGED <<sent, done>>

Finish ==
  /\ ~done
  /\ Enough(got)
  /\ done' = TRUE
  /\ UNCHANGED <<sent, got>>

Next == Send \/ Arrive \/ Finish

Spec == Init /\ [][Next]_vars
=============================================================================
