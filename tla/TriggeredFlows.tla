--------------------------- MODULE TriggeredFlows ---------------------------
(***************************************************************************)
(* The flows of a traffic matrix, the triggers that chain them (trigger.cpp*)
(* and ConnectionMatrix::getTrigger) and the event list that runs both.    *)
(* What the network does between startflow and the acknowledgments that    *)
(* finish a flow is how long it takes; LcpTransport is about that.         *)
(***************************************************************************)
EXTENDS EventList, Loops

CONSTANTS
  FlowCount,                 \* flows are numbered in the order of the matrix
  Triggers, NoTrigger,
  Kind, Count,               \* of a trigger: its type and its count
  Start,                     \* of a flow: its start time, or TRIGGER_START
  TriggeredBy,               \* of a flow: its trigger, or NoTrigger
  SendDone, RecvDone,        \* of a flow: _end_trigger of its source, of its sink
  Transfers,                 \* how long a flow may take from startflow on
  Straggle,                  \* how much later its last acknowledgment may come
  ScanPeriod,                \* of LcpRtxTimerScanner
  EndTimes                   \* what -end_time may be

Flows == 1 .. FlowCount
TRIGGER_START == 1000000     \* (simtime_picosec)-1: past any end
Scanner == 0                 \* the scanner as a source; flows are positive

\* add_target, once for each flow of the trigger, in the order of the matrix.
Targets(t) ==
  LET S == {f \in Flows : TriggeredBy[f] = t}
  IN  [n \in 1 .. Cardinality(S) |-> CHOOSE f \in S : Cardinality({g \in S : g <= f}) = n]

\* The flows that are told to activate t when they are done.
Causes(t) == {f \in Flows : SendDone[f] = t \/ RecvDone[f] = t}

ASSUME MatrixAssumption ==
  /\ FlowCount \in Nat /\ NoTrigger \notin Triggers
  /\ Kind \in [Triggers -> {"SINGLE_SHOT", "MULTI_SHOT", "BARRIER"}]
  /\ Count \in [Triggers -> Nat]
  /\ Start \in [Flows -> Nat]
  /\ TriggeredBy \in [Flows -> Triggers \cup {NoTrigger}]
  /\ SendDone \in [Flows -> Triggers \cup {NoTrigger}]
  /\ RecvDone \in [Flows -> Triggers \cup {NoTrigger}]
  /\ \A f \in Flows : TriggeredBy[f] # NoTrigger <=> Start[f] = TRIGGER_START
  /\ Transfers \subseteq Nat \ {0} /\ Straggle \in Nat
  /\ ScanPeriod \in Nat \ {0} /\ EndTimes \subseteq 1 .. TRIGGER_START

\* A single-shot or barrier trigger that is activated more often than it allows
\* aborts the program; a multishot one goes on without a word.
ASSUME ActivationsAssumption ==
  \A t \in Triggers :
    /\ Targets(t) # <<>>
    /\ Kind[t] = "SINGLE_SHOT" => Cardinality(Causes(t)) <= 1
    /\ Kind[t] = "BARRIER" => Count[t] >= 1 /\ Cardinality(Causes(t)) = Count[t]

VARIABLES
  el,         \* the event list
  trig,       \* the Trigger objects
  started,    \* the flows that are flow_started ...
  finished,   \* ... and that are _flow_finished
  ranAt       \* when each flow was started and finished (no such field in the code)

vars == <<el, trig, started, finished, ranAt>>

NewTrigger(t) == [done |-> FALSE, next |-> 0, remaining |-> Count[t]]

FlowSource(f) == [kind |-> "flow", flow |-> f]
AckSource(f) == [kind |-> "ack", flow |-> f]
ScanSource == [kind |-> "scan", flow |-> Scanner]

Sources ==
  {FlowSource(f) : f \in Flows} \cup {AckSource(f) : f \in Flows} \cup {ScanSource}

\* connect schedules each flow.
Connect ==
  [f \in Flows |-> [e \in EventLists(Sources, Flows) |->
     SourceIsPending(e, FlowSource(f), Start[f])]]

\* The scanner is made first.
Init ==
  /\ \E end \in EndTimes :
       el = RunLoop(Connect, FlowCount, SourceIsPending(NewEventList(end), ScanSource, 0))
  /\ trig = [t \in Triggers |-> NewTrigger(t)]
  /\ started = {} /\ finished = {}
  /\ ranAt = [f \in Flows |-> [start |-> -1, finish |-> -1]]

\* A faulty variant: a multishot trigger does not move on to its next target.
ActivatedAgain(t, x) ==
  [trig |-> [x EXCEPT !.done = TRUE, !.remaining = @ - 1],
   targets |-> CASE Kind[t] = "SINGLE_SHOT" -> Targets(t)
                 [] Kind[t] = "MULTI_SHOT" -> <<Targets(t)[x.next + 1]>>
                 [] Kind[t] = "BARRIER" -> IF x.remaining = 1 THEN Targets(t) ELSE <<>>]

\* A faulty variant: a barrier opens an activation early.
ActivatedEarly(t, x) ==
  [trig |-> [x EXCEPT !.remaining = @ - 1],
   targets |-> IF x.remaining <= 2 THEN Targets(t) ELSE <<>>]

\* Trigger::activate of each type: the trigger's new state, and the targets
\* it hands to the event list.
Activated(t, x) ==
  CASE Kind[t] = "SINGLE_SHOT" ->
         [trig |-> [x EXCEPT !.done = TRUE], targets |-> Targets(t)]
    [] Kind[t] = "MULTI_SHOT" ->
         IF x.next >= Len(Targets(t)) THEN [trig |-> x, targets |-> <<>>]
         ELSE [trig |-> [x EXCEPT !.next = @ + 1], targets |-> <<Targets(t)[x.next + 1]>>]
    [] Kind[t] = "BARRIER" ->
         [trig |-> [x EXCEPT !.remaining = @ - 1],
          targets |-> IF x.remaining = 1 THEN Targets(t) ELSE <<>>]

\* startflow, with the acknowledgments it leads to.
StartFlow(e, f) ==
  IF f \in started
  THEN el' = e /\ UNCHANGED <<started, ranAt>>
  ELSE /\ started' = started \cup {f}
       /\ ranAt' = [ranAt EXCEPT ![f].start = e.now]
       /\ \E d \in Transfers :
            el' = SourceIsPending(SourceIsPending(e, AckSource(f), e.now + d),
                                  AckSource(f), e.now + d + Straggle)

\* doNextEvent runs a target: activate starts the flow.
RunTarget ==
  /\ TargetPending(el)
  /\ StartFlow(TakeTarget(el), NextTarget(el))
  /\ UNCHANGED <<trig, finished>>

\* doNextEvent of a flow, at its start time.
RunFlow ==
  /\ SourcePending(el) /\ NextSource(el).kind = "flow"
  /\ StartFlow(TakeSource(el), NextSource(el).flow)
  /\ UNCHANGED <<trig, finished>>

\* finish_flow
FinishFlow(e, f) ==
  LET t == SendDone[f]
      fired == IF t = NoTrigger THEN [targets |-> <<>>] ELSE Activated(t, trig[t])
  IN  /\ finished' = finished \cup {f}
      /\ ranAt' = [ranAt EXCEPT ![f].finish = e.now]
      /\ trig' = IF t = NoTrigger THEN trig ELSE [trig EXCEPT ![t] = fired.trig]
      /\ el' = CancelPendingSource(TriggersArePending(e, fired.targets), FlowSource(f))

\* An acknowledgment reaches the source: the first that completes finishes it.
RunAck ==
  /\ SourcePending(el) /\ NextSource(el).kind = "ack"
  /\ LET f == NextSource(el).flow
     IN  IF f \in finished
         THEN el' = TakeSource(el) /\ UNCHANGED <<trig, finished, ranAt>>
         ELSE FinishFlow(TakeSource(el), f)
  /\ UNCHANGED started

\* The scanner, which schedules itself for ever.
RunScanner ==
  /\ SourcePending(el) /\ NextSource(el).kind = "scan"
  /\ LET e == TakeSource(el)
     IN  el' = SourceIsPending(e, ScanSource, e.now + ScanPeriod)
  /\ UNCHANGED <<trig, started, finished, ranAt>>

Next == RunTarget \/ RunFlow \/ RunAck \/ RunScanner

Spec == Init /\ [][Next]_vars

\* The loop of the program goes on as long as doNextEvent finds something.
FairSpec == Spec /\ WF_vars(Next)
-----------------------------------------------------------------------------
Matrix == INSTANCE FlowGraph

\* How often t has been activated: by the sources of the flows, once each.
Activations(t) == Cardinality(finished \cap Matrix!Causes(t))

(* No target is lost and none is run twice: those a trigger has released   *)
(* have started or wait in the event list, whatever order it takes them    *)
(* in, and they are as many as the flows that finished call for.           *)
ReleasedExactly ==
  \A t \in Triggers :
    LET waiting == {i \in DOMAIN el.triggers : TriggeredBy[el.triggers[i]] = t}
    IN  /\ Cardinality(started \cap Matrix!Targets(t)) + Cardinality(waiting)
             = Matrix!Released(t, Activations(t))
        /\ \A i, j \in waiting : el.triggers[i] = el.triggers[j] => i = j
        /\ \A i \in waiting : el.triggers[i] \notin started

(* Triggers take no time: a flow starts when the flow that released it     *)
(* finishes, although other events may be due then.                        *)
NoTimeInTriggers ==
  \A f \in started :
    TriggeredBy[f] # NoTrigger =>
      \E g \in finished \cap Causes(TriggeredBy[f]) : ranAt[g].finish = ranAt[f].start

\* The matrix is obeyed: flows start when it says and finish once.
MatrixSpec == Matrix!Spec

\* How long the flows may take when they go one after the other.
MaxOf(S) == CHOOSE m \in S : \A n \in S : n <= m
Horizon ==
  MaxOf({Start[f] : f \in {g \in Flows : TriggeredBy[g] = NoTrigger}})
  + FlowCount * MaxOf(Transfers)

\* With time enough every flow of the matrix runs, triggered ones too.
AllRun == (el.endtime > Horizon) ~> (finished = Flows)
=============================================================================
