----------------------------- MODULE MCTriggers -----------------------------
(* Matrices for TriggeredFlows: chains, a barrier and a multishot trigger. *)
EXTENDS TriggeredFlows

CONSTANTS none, single, barrier, multi

MCKind == single :> "SINGLE_SHOT" @@ barrier :> "BARRIER" @@ multi :> "MULTI_SHOT"
MCCount == single :> 0 @@ barrier :> 2 @@ multi :> 0

\* As gen_serialn_alltoall.py does, the multishot trigger's own targets go on
\* setting it off when it has released them all.
MCTriggeredBy == <<none, none, single, barrier, none, multi, multi, single>>
MCSendDone    == <<single, barrier, barrier, none, multi, multi, multi, none>>
MCStart == [f \in 1 .. 8 |-> IF MCTriggeredBy[f] # none THEN TRIGGER_START
                             ELSE IF f = 5 THEN 1 ELSE 0]
NoneDone == [f \in 1 .. 8 |-> none]

\* As gen_buttefly.py does: the receiver of one flow sets off the next.
RecvKind == single :> "SINGLE_SHOT"
RecvCount == single :> 0
RecvTriggeredBy == <<none, single>>
RecvSendDone == <<none, none>>
RecvRecvDone == <<single, none>>
RecvStart == <<0, TRIGGER_START>>
=============================================================================
