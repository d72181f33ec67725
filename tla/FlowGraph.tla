------------------------------ MODULE FlowGraph ------------------------------
(***************************************************************************)
(* What a traffic matrix with triggers asks for: a flow starts once, by    *)
(* itself or when enough of the flows that set off its trigger have        *)
(* finished, and finishes once.                                            *)
(***************************************************************************)
EXTENDS Integers, FiniteSets

CONSTANTS
  Flows,                     \* numbered in the order of the matrix
  Triggers, NoTrigger,
  Kind,                      \* of a trigger: how it counts
  Count,                     \* of a barrier: activations it needs
  TriggeredBy,               \* the trigger a flow waits for, or NoTrigger
  SendDone                   \* the trigger a flow sets off when done, or NoTrigger

Targets(t) == {f \in Flows : TriggeredBy[f] = t}
Causes(t) == {f \in Flows : SendDone[f] = t}

\* How many of its targets a trigger has released after n activations.
Released(t, n) ==
  CASE Kind[t] = "SINGLE_SHOT" -> IF n >= 1 THEN Cardinality(Targets(t)) ELSE 0
    [] Kind[t] = "MULTI_SHOT"  -> IF n <= Cardinality(Targets(t)) THEN n
                                                                  ELSE Cardinality(Targets(t))
    [] Kind[t] = "BARRIER"     -> IF n >= Count[t] THEN Cardinality(Targets(t)) ELSE 0

VARIABLES started, finished

gvars == <<started, finished>>

Init == started = {} /\ finished = {}

\* The targets of a trigger are released in the order of the matrix.
MayStart(f) ==
  LET t == TriggeredBy[f]
  IN  t # NoTrigger =>
        Cardinality({g \in Targets(t) : g <= f})
          <= Released(t, Cardinality(finished \cap Causes(t)))

Run(f) ==
  /\ f \notin started /\ MayStart(f)
  /\ started' = started \cup {f}
  /\ UNCHANGED finished

Finish(f) ==
  /\ f \in started \ finished
  /\ finished' = finished \cup {f}
  /\ UNCHANGED started

Next == \E f \in Flows : Run(f) \/ Finish(f)

Spec == Init /\ [][Next]_gvars
=============================================================================
