------------------------------ MODULE EventList ------------------------------
(***************************************************************************)
(* The event list (sim/eventlist.cpp): sources with the times they are to  *)
(* run at, in the order of a multimap, and the targets of triggers, which  *)
(* run before any of them, the last first.  An event list is a record; an  *)
(* operator here is a method on it.                                        *)
(***************************************************************************)
EXTENDS Integers, SequencesExt, FiniteSets

\* The event lists over these sources and these targets.
EventLists(sources, targets) ==
  [now : Nat, endtime : Nat,
   pending : Seq([time : Nat, src : sources]), triggers : Seq(targets)]

NewEventList(endtime) ==
  [now |-> 0, endtime |-> endtime,
   pending |-> <<>>,      \* _pendingsources
   triggers |-> <<>>]     \* _pending_triggers

\* A multimap inserts behind what is of the same time.
Insert(s, x) ==
  InsertAt(s, Cardinality({i \in DOMAIN s : s[i].time <= x.time}) + 1, x)

\* What comes at the end of the simulation or later is not kept.
SourceIsPending(el, src, when) ==
  IF el.endtime # 0 /\ when >= el.endtime THEN el
  ELSE [el EXCEPT !.pending = Insert(@, [time |-> when, src |-> src])]

TriggersArePending(el, targets) == [el EXCEPT !.triggers = @ \o targets]

\* Takes the first entry of a source out.
CancelPendingSource(el, src) ==
  LET entries == {i \in DOMAIN el.pending : el.pending[i].src = src}
      first == CHOOSE i \in entries : \A j \in entries : i <= j
  IN  IF entries = {} THEN el
      ELSE [el EXCEPT !.pending = RemoveAt(@, first)]

ReschedulePendingSource(el, src, when) ==
  SourceIsPending(CancelPendingSource(el, src), src, when)

\* doNextEvent takes a target, if there is one, ...
TargetPending(el) == el.triggers # <<>>
NextTarget(el) == el.triggers[Len(el.triggers)]

\* A faulty variant: takes them all but runs one.
TakeAllTargets(el) == [el EXCEPT !.triggers = <<>>]

TakeTarget(el) == [el EXCEPT !.triggers = SubSeq(@, 1, Len(@) - 1)]

\* ... else the first source, whose time it then is.

\* A faulty variant: does not look at the targets first.
SourcePendingFirst(el) == el.pending # <<>>

SourcePending(el) == el.triggers = <<>> /\ el.pending # <<>>
NextSource(el) == Head(el.pending).src
TakeSource(el) == [el EXCEPT !.pending = Tail(@), !.now = Head(el.pending).time]
=============================================================================
