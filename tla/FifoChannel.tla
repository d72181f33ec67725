---------------------------- MODULE FifoChannel ----------------------------
(***************************************************************************)
(* What a switch whose queues drop packets past their time still promises  *)
(* a flow: what comes out comes out in order, each packet once, and what   *)
(* is missing has been dropped by a queue.  A packet is known by its       *)
(* number.                                                                 *)
(***************************************************************************)
EXTENDS Naturals, FiniteSets

CONSTANTS
  Flows, FlowPkts,
  Tolerated    \* with fewer packets lost than this, every packet gets on

VARIABLES
  sent, arrived,   \* the last packet of a flow put in, and taken out
  lost,            \* the packets of a flow that were dropped
  doomed           \* the flows nothing comes out of

vars == <<sent, arrived, lost, doomed>>

Init ==
  /\ sent = [f \in Flows |-> 0]
  /\ arrived = [f \in Flows |-> 0]
  /\ lost = [f \in Flows |-> {}]
  /\ doomed \subseteq Flows

Send(f) ==
  /\ sent[f] < FlowPkts[f]
  /\ sent' = [sent EXCEPT ![f] = @ + 1]
  /\ UNCHANGED <<arrived, lost, doomed>>

\* The packets between the last that came out and the last put in.
Within(f) == (arrived[f] + 1) .. sent[f]

\* Some packets within are lost.
Lose ==
  /\ lost' \in [Flows -> SUBSET Nat]
  /\ \A f \in Flows :
       lost[f] \subseteq lost'[f] /\ lost'[f] \subseteq lost[f] \cup Within(f)

\* The first packet of a flow that is not lost comes out.
Arrive(f) ==
  /\ f \notin doomed
  /\ \E n \in Within(f) \ lost'[f] :
       /\ arrived' = [arrived EXCEPT ![f] = n]
       /\ (arrived[f] + 1) .. (n - 1) \subseteq lost'[f]

\* A queue ends a service.
Serve ==
  /\ Lose
  /\ UNCHANGED arrived \/ \E f \in Flows : Arrive(f)
  /\ UNCHANGED <<sent, doomed>>

Next == Serve \/ \E f \in Flows : Send(f)

Spec == Init /\ [][Next]_vars

AllLost == UNION {{f} \X lost[f] : f \in Flows}

FewLost == Cardinality(AllLost) < Tolerated

\* Every packet put in has come out or been lost.
Drained == \A f \in Flows : Within(f) \subseteq lost[f]

\* In the end every packet is through, if few have been lost.
GetsOn == <>[](FewLost => Drained)

FairSpec == Spec /\ GetsOn
=============================================================================
