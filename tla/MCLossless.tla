----------------------------- MODULE MCLossless -----------------------------
(* Instances of LosslessNet for TLC: two hosts, the second with data and   *)
(* acknowledgments, and the ways of their flows through the switch.        *)
EXTENDS LosslessNet, TLC

TwoHosts == {"h1", "h2"}
SharedOutput == {"o1"}
SharedFlows == {1, 2, 3}
SharedSource == (1 :> "h1") @@ (2 :> "h1") @@ (3 :> "h2")
SharedDest == [f \in SharedFlows |-> "o1"]
SharedPkts == (1 :> 5) @@ (2 :> 1) @@ (3 :> 1)
SharedPrio == (1 :> Q_LO) @@ (2 :> Q_LO) @@ (3 :> Q_HI)

\* As UEC_DROP gives them: more than enough to all data, or, with -use_mixed,
\* little to the flows of all tags but one; its acknowledgments have none, but
\* are of the exempt type.
AmpleBudgets ==
  [budget |-> (1 :> 30) @@ (2 :> 30) @@ (3 :> 0), exempt |-> {3}]
MixedBudgets ==
  [budget |-> (1 :> 2) @@ (2 :> 30) @@ (3 :> 0), exempt |-> {3}]

\* As all other transports do: the default of 0.
NoBudgets == [budget |-> [f \in SharedFlows |-> 0], exempt |-> {}]
SharedTransports == {AmpleBudgets, MixedBudgets, NoBudgets}

\* One host whose packets leave by three outputs.
OneHost == {"h1"}
SpreadOutputs == {"o1", "o2", "o3"}
SpreadFlows == {1, 2, 3}
SpreadSource == [f \in SpreadFlows |-> "h1"]
SpreadDest == (1 :> "o1") @@ (2 :> "o2") @@ (3 :> "o3")
SpreadPrio == [f \in SpreadFlows |-> Q_LO]
SpreadPkts == [f \in SpreadFlows |-> 2]
SpreadTransports == {[budget |-> [f \in SpreadFlows |-> 30], exempt |-> {}]}
=============================================================================
