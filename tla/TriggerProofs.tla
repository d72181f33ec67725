---------------------------- MODULE TriggerProofs ----------------------------
(***************************************************************************)
(* Proofs about TriggeredFlows: what the triggers have released, for every *)
(* matrix, and that the flows obey the matrix (FlowGraph).                 *)
(***************************************************************************)
EXTENDS TriggeredFlows, LoopsProofs, FiniteSetTheorems, SequenceTheorems

\* The place of a flow among the targets of its trigger.
Rank(S, f) == Cardinality({g \in S : g <= f})

\* The first n targets of t, in the order of the matrix.
Foremost(t, n) == {f \in Matrix!Targets(t) : Rank(Matrix!Targets(t), f) <= n}

Queued == {el.triggers[i] : i \in DOMAIN el.triggers}

(* Event lists over a set of entries.                                      *)
Lists(D) == [now : Nat, endtime : Nat, pending : Seq(D), triggers : Seq(Flows)]

\* Of the sources, the event list runs flows of no trigger, and the
\* acknowledgments of flows that have started.
DueEvents(S) ==
  {e \in [time : Nat, src : Sources] :
     /\ e.src.kind = "flow" => TriggeredBy[e.src.flow] = NoTrigger
     /\ e.src.kind = "ack" => e.src.flow \in S}

TriggerStates == [done : BOOLEAN, next : Nat, remaining : Int]

Shape ==
  /\ el \in Lists(DueEvents(started)) /\ el.endtime \in 1 .. TRIGGER_START
  /\ trig \in [Triggers -> TriggerStates]
  /\ started \subseteq Flows /\ finished \subseteq started
  /\ ranAt \in [Flows -> [start : Int, finish : Int]]

Once ==
  /\ \A i, j \in DOMAIN el.triggers : el.triggers[i] = el.triggers[j] => i = j
  /\ \A i \in DOMAIN el.triggers : el.triggers[i] \notin started

\* The counters of a trigger that was activated n times.
CountedBy(t, x, n) ==
  /\ Kind[t] = "MULTI_SHOT" => x.next = Matrix!Released(t, n)
  /\ Kind[t] = "BARRIER" => x.remaining = Count[t] - n

Counted == \A t \in Triggers : CountedBy(t, trig[t], Activations(t))

\* The targets a trigger has released are its first ones.
ForemostReleased ==
  \A t \in Triggers :
    Matrix!Targets(t) \cap (started \cup Queued)
      = Foremost(t, Matrix!Released(t, Activations(t)))

\* What waits in the event list was put there by a flow that has just finished.
JustReleased(f) ==
  /\ TriggeredBy[f] # NoTrigger
  /\ \E g \in finished \cap Causes(TriggeredBy[f]) : ranAt[g].finish = el.now

AtOnce == \A i \in DOMAIN el.triggers : JustReleased(el.triggers[i])

IInv ==
  /\ Shape /\ Once /\ Counted /\ ForemostReleased /\ AtOnce
  /\ NoTimeInTriggers

-----------------------------------------------------------------------------
LEMMA RankRange ==
  ASSUME NEW S \in SUBSET Nat, IsFiniteSet(S), NEW f \in S
  PROVE  Rank(S, f) \in 1 .. Cardinality(S)
<1> DEFINE T == {g \in S : g <= f}
<1>1. T \in SUBSET S /\ f \in T
  OBVIOUS
<1> HIDE DEF T
<1>2. IsFiniteSet(T) /\ Cardinality(T) <= Cardinality(S)
  BY <1>1, FS_Subset
<1>3. Cardinality(T) \in Nat /\ Cardinality(S) \in Nat
  BY <1>2, FS_CardinalityType
<1>4. Cardinality(T) # 0
  BY <1>1, <1>2, FS_EmptySet
<1>5. Rank(S, f) = Cardinality(T)
  BY DEF Rank, T
<1> QED BY <1>2, <1>3, <1>4, <1>5

LEMMA RankGrows ==
  ASSUME NEW S \in SUBSET Nat, IsFiniteSet(S), NEW f \in S, NEW g \in S, f < g
  PROVE  Rank(S, f) < Rank(S, g)
<1> DEFINE T == {h \in S : h <= f}
           U == {h \in S : h <= g}
<1>a. f \in Nat /\ g \in Nat /\ \A h \in S : h \in Nat
  OBVIOUS
<1>b. \A h \in S : h <= f => h <= g
  BY <1>a
<1>c. g <= g /\ ~ (g <= f)
  BY <1>a
<1>1. T \in SUBSET U /\ U \in SUBSET S /\ g \in U /\ g \notin T
  BY <1>b, <1>c
<1> HIDE DEF T, U
<1>2. IsFiniteSet(U)
  BY <1>1, FS_Subset
<1>3. IsFiniteSet(T) /\ Cardinality(T) <= Cardinality(U)
      /\ (Cardinality(U) = Cardinality(T) => U = T)
  BY <1>1, <1>2, FS_Subset
<1>4. Cardinality(T) \in Nat /\ Cardinality(U) \in Nat
  BY <1>2, <1>3, FS_CardinalityType
<1>5. Rank(S, f) = Cardinality(T) /\ Rank(S, g) = Cardinality(U)
  BY DEF Rank, T, U
<1> QED BY <1>1, <1>3, <1>4, <1>5

(* Every place is taken, by one target.                                    *)
LEMMA RankOnto ==
  ASSUME NEW S \in SUBSET Nat, IsFiniteSet(S)
  PROVE  [f \in S |-> Rank(S, f)] \in Bijection(S, 1 .. Cardinality(S))
<1> DEFINE N == Cardinality(S)
           r == [f \in S |-> Rank(S, f)]
<1>1. N \in Nat
  BY FS_CardinalityType
<1>2. r \in [S -> 1 .. N]
  BY RankRange
<1>3. \A f, g \in S : r[f] = r[g] => f = g
  <2> TAKE f, g \in S
  <2> SUFFICES ASSUME r[f] = r[g], f # g PROVE FALSE
    OBVIOUS
  <2>1. f \in Nat /\ g \in Nat
    OBVIOUS
  <2>2. Rank(S, f) \in 1 .. N /\ Rank(S, g) \in 1 .. N
    BY RankRange
  <2>3. CASE f < g
    BY <2>2, <2>3, RankGrows
  <2>4. CASE g < f
    BY <2>2, <2>4, RankGrows
  <2> QED BY <2>1, <2>3, <2>4
<1> HIDE DEF r, N
<1>4. r \in Injection(S, 1 .. N)
  BY <1>2, <1>3 DEF Injection, IsInjective
<1>5. IsFiniteSet(1 .. N) /\ Cardinality(1 .. N) = N
  BY <1>1, FS_Interval
<1>6. r \in Surjection(S, 1 .. N)
  BY <1>4, <1>5, FS_Injection DEF N
<1> QED BY <1>4, <1>6 DEF Bijection, r, N

LEMMA RankTaken ==
  ASSUME NEW S \in SUBSET Nat, IsFiniteSet(S), NEW n \in 1 .. Cardinality(S)
  PROVE  \E f \in S : Rank(S, f) = n
BY RankOnto DEF Bijection, Surjection

LEMMA RankOnce ==
  ASSUME NEW S \in SUBSET Nat, IsFiniteSet(S), NEW f \in S, NEW g \in S,
         Rank(S, f) = Rank(S, g)
  PROVE  f = g
<1>1. f \in Nat /\ g \in Nat
  OBVIOUS
<1>2. Rank(S, f) \in Nat /\ Rank(S, g) \in Nat
  BY RankRange
<1>3. f < g => Rank(S, f) < Rank(S, g)
  BY RankGrows
<1>4. g < f => Rank(S, g) < Rank(S, f)
  BY RankGrows
<1> QED BY <1>1, <1>2, <1>3, <1>4

(* The first n are n.                                                      *)
LEMMA ForemostSize ==
  ASSUME NEW S \in SUBSET Nat, IsFiniteSet(S), NEW n \in 0 .. Cardinality(S)
  PROVE  Cardinality({f \in S : Rank(S, f) <= n}) = n
<1> DEFINE T == {f \in S : Rank(S, f) <= n}
           r == [f \in T |-> Rank(S, f)]
<1>1. Cardinality(S) \in Nat
  BY FS_CardinalityType
<1>2. \A f \in S : Rank(S, f) \in 1 .. Cardinality(S)
  BY RankRange
<1>a. \A f \in T : Rank(S, f) \in 1 .. n
  BY <1>1, <1>2
<1>3. r \in [T -> 1 .. n]
  BY <1>a
<1>4. \A f, g \in T : r[f] = r[g] => f = g
  BY RankOnce
<1>5. \A m \in 1 .. n : \E f \in T : r[f] = m
  <2> TAKE m \in 1 .. n
  <2>1. m \in 1 .. Cardinality(S) /\ m <= n
    BY <1>1
  <2>2. PICK f \in S : Rank(S, f) = m
    BY <2>1, RankTaken
  <2> QED BY <2>1, <2>2
<1> HIDE DEF r, T
<1>6. r \in Injection(T, 1 .. n) /\ r \in Surjection(T, 1 .. n)
  BY <1>3, <1>4, <1>5 DEF Injection, IsInjective, Surjection
<1>7. IsFiniteSet(1 .. n) /\ Cardinality(1 .. n) = n
  BY <1>1, FS_Interval
<1>8. Cardinality(T) = Cardinality(1 .. n)
  BY <1>6, <1>7, FS_Injection
<1> QED BY <1>7, <1>8 DEF T

-----------------------------------------------------------------------------
LEMMA InsertKeeps ==
  ASSUME NEW D, NEW s \in Seq(D), NEW x \in D
  PROVE  Insert(s, x) \in Seq(D)
<1> DEFINE C == {i \in DOMAIN s : s[i].time <= x.time}
           p == Cardinality(C) + 1
<1>1. Len(s) \in Nat /\ DOMAIN s = 1 .. Len(s)
  OBVIOUS
<1>2. IsFiniteSet(1 .. Len(s)) /\ Cardinality(1 .. Len(s)) = Len(s)
  BY <1>1, FS_Interval
<1>3. C \in SUBSET (1 .. Len(s))
  BY <1>1
<1>4. Insert(s, x) = InsertAt(s, p, x)
  BY DEF Insert
<1> HIDE DEF C
<1>5. IsFiniteSet(C) /\ Cardinality(C) <= Len(s)
  BY <1>2, <1>3, FS_Subset
<1>6. p \in 1 .. Len(s) + 1
  BY <1>1, <1>5, FS_CardinalityType
<1> HIDE DEF p
<1>7. SubSeq(s, 1, p - 1) \in Seq(D) /\ SubSeq(s, p, Len(s)) \in Seq(D)
  BY <1>1, <1>6
<1>8. InsertAt(s, p, x) \in Seq(D)
  BY <1>7 DEF InsertAt
<1> QED BY <1>4, <1>8

LEMMA RemoveKeeps ==
  ASSUME NEW D, NEW s \in Seq(D), NEW i \in DOMAIN s
  PROVE  RemoveAt(s, i) \in Seq(D)
<1>1. i \in 1 .. Len(s) /\ Len(s) \in Nat
  OBVIOUS
<1>2. SubSeq(s, 1, i - 1) \in Seq(D) /\ SubSeq(s, i + 1, Len(s)) \in Seq(D)
  BY <1>1
<1> QED BY <1>2 DEF RemoveAt

(* EventList::sourceIsPending                                              *)
LEMMA PendingKeeps ==
  ASSUME NEW D, NEW e \in Lists(D), NEW src, NEW when,
         [time |-> when, src |-> src] \in D
  PROVE  LET r == SourceIsPending(e, src, when)
         IN  /\ r \in Lists(D)
             /\ r.now = e.now /\ r.endtime = e.endtime /\ r.triggers = e.triggers
<1> DEFINE x == [time |-> when, src |-> src]
<1>1. Insert(e.pending, x) \in Seq(D)
  BY InsertKeeps DEF Lists
<1> QED BY <1>1 DEF SourceIsPending, Lists

(* EventList::cancelPendingSource                                          *)
LEMMA CancelKeeps ==
  ASSUME NEW D, NEW e \in Lists(D), NEW src
  PROVE  LET r == CancelPendingSource(e, src)
         IN  /\ r \in Lists(D)
             /\ r.now = e.now /\ r.endtime = e.endtime /\ r.triggers = e.triggers
<1> DEFINE entries == {i \in DOMAIN e.pending : e.pending[i].src = src}
           first == CHOOSE i \in entries : \A j \in entries : i <= j
<1>1. CASE entries = {}
  BY <1>1 DEF CancelPendingSource
<1>2. CASE entries # {}
  <2>1. entries \subseteq Nat
    BY DEF Lists
  <2>2. \E i \in entries : \A j \in entries : i <= j
    <3> HIDE DEF entries
    <3> QED BY <1>2, <2>1, LeastNat
  <2>3. first \in entries
    <3> HIDE DEF entries
    <3> QED BY <2>2, Zenon
  <2>4. first \in DOMAIN e.pending
    BY <2>3
  <2>5. CancelPendingSource(e, src) = [e EXCEPT !.pending = RemoveAt(@, first)]
    BY <1>2 DEF CancelPendingSource
  <2> HIDE DEF first
  <2>6. RemoveAt(e.pending, first) \in Seq(D)
    BY <2>4, RemoveKeeps DEF Lists
  <2> QED BY <2>5, <2>6 DEF Lists
<1> QED BY <1>1, <1>2

(* EventList::doNextEvent takes a source.                                  *)
LEMMA TakeSourceKeeps ==
  ASSUME NEW D, D \subseteq [time : Nat, src : Sources], NEW e \in Lists(D), SourcePending(e)
  PROVE  LET r == TakeSource(e)
         IN  /\ r \in Lists(D)
             /\ r.endtime = e.endtime /\ r.triggers = <<>>
             /\ Head(e.pending) \in D /\ NextSource(e) = Head(e.pending).src
             /\ r.now = Head(e.pending).time /\ r.now \in Nat
<1>1. e.pending # <<>> /\ e.triggers = <<>> /\ e.pending \in Seq(D)
  BY DEF SourcePending, Lists
<1>2. Head(e.pending) \in D /\ Tail(e.pending) \in Seq(D)
  BY <1>1
<1>3. Head(e.pending).time \in Nat
  BY <1>2
<1> QED BY <1>1, <1>2, <1>3 DEF TakeSource, NextSource, Lists

-----------------------------------------------------------------------------
LEMMA SameCardinality ==
  ASSUME NEW S
  PROVE  Matrix!Cardinality(S) = Cardinality(S)
BY DEF Cardinality, Matrix!Cardinality

LEMMA TargetsFinite ==
  ASSUME NEW t
  PROVE  /\ Matrix!Targets(t) \in SUBSET Nat /\ IsFiniteSet(Matrix!Targets(t))
         /\ Matrix!Targets(t) \in SUBSET Flows
         /\ Cardinality(Matrix!Targets(t)) \in Nat
<1>1. FlowCount \in Nat
  BY MatrixAssumption
<1>2. IsFiniteSet(Flows) /\ Flows \in SUBSET Nat
  BY <1>1, FS_Interval DEF Flows
<1>3. Matrix!Targets(t) \in SUBSET Flows
  BY DEF Matrix!Targets
<1>4. IsFiniteSet(Matrix!Targets(t))
  BY <1>2, <1>3, FS_Subset
<1> QED BY <1>2, <1>3, <1>4, FS_CardinalityType

LEMMA CausesFinite ==
  ASSUME NEW t, NEW F \in SUBSET Flows
  PROVE  /\ IsFiniteSet(F \cap Matrix!Causes(t))
         /\ Cardinality(F \cap Matrix!Causes(t)) \in Nat
         /\ Cardinality(F \cap Matrix!Causes(t)) <= Cardinality(Causes(t))
         /\ Cardinality(Causes(t)) \in Nat
<1>1. FlowCount \in Nat
  BY MatrixAssumption
<1>2. IsFiniteSet(Flows)
  BY <1>1, FS_Interval DEF Flows
<1>3. Causes(t) \in SUBSET Flows
  BY DEF Causes
<1>4. IsFiniteSet(Causes(t))
  BY <1>2, <1>3, FS_Subset
<1>5. F \cap Matrix!Causes(t) \in SUBSET Causes(t)
  BY DEF Matrix!Causes, Causes
<1>6. IsFiniteSet(F \cap Matrix!Causes(t))
      /\ Cardinality(F \cap Matrix!Causes(t)) <= Cardinality(Causes(t))
  BY <1>4, <1>5, FS_Subset
<1> QED BY <1>4, <1>6, FS_CardinalityType

(* Trigger::add_target: the targets in the order of the matrix.            *)
LEMMA TargetsInOrder ==
  ASSUME NEW t
  PROVE  /\ Targets(t) \in Seq(Flows)
         /\ Len(Targets(t)) = Cardinality(Matrix!Targets(t))
         /\ \A n \in 1 .. Len(Targets(t)) :
              /\ Targets(t)[n] \in Matrix!Targets(t)
              /\ Rank(Matrix!Targets(t), Targets(t)[n]) = n
<1> DEFINE S == Matrix!Targets(t)
           N == Cardinality(S)
           s == Targets(t)
<1>1. N \in Nat /\ S \in SUBSET Nat /\ IsFiniteSet(S) /\ S \in SUBSET Flows
  BY TargetsFinite
<1>2. s = [n \in 1 .. N |-> CHOOSE f \in S : Rank(S, f) = n]
  BY DEF Targets, Matrix!Targets, Rank
<1> HIDE DEF S, N, s
<1>3. \A n \in 1 .. N : s[n] \in S /\ Rank(S, s[n]) = n
  <2> TAKE n \in 1 .. N
  <2>1. \E f \in S : Rank(S, f) = n
    BY <1>1, RankTaken DEF N
  <2>2. s[n] = CHOOSE f \in S : Rank(S, f) = n
    BY <1>2
  <2> QED BY <2>1, <2>2, Zenon
<1>4. s \in [1 .. N -> Flows]
  BY <1>1, <1>2, <1>3
<1>5. s \in Seq(Flows) /\ Len(s) = N
  BY <1>1, <1>4
<1> QED BY <1>3, <1>5 DEF s, N, S

(* Each target once.                                                       *)
LEMMA TargetsOnce ==
  ASSUME NEW t, NEW m \in 1 .. Len(Targets(t)), NEW n \in 1 .. Len(Targets(t)),
         Targets(t)[m] = Targets(t)[n]
  PROVE  m = n
BY TargetsInOrder

LEMMA TargetsAll ==
  ASSUME NEW t, NEW f \in Matrix!Targets(t)
  PROVE  \E n \in 1 .. Len(Targets(t)) : Targets(t)[n] = f
<1> DEFINE S == Matrix!Targets(t)
           n == Rank(S, f)
<1>1. S \in SUBSET Nat /\ IsFiniteSet(S)
  BY TargetsFinite
<1>2. n \in 1 .. Cardinality(S)
  BY <1>1, RankRange
<1>3. n \in 1 .. Len(Targets(t))
  BY <1>2, TargetsInOrder
<1>4. Targets(t)[n] \in S /\ Rank(S, Targets(t)[n]) = n
  BY <1>3, TargetsInOrder
<1>5. Targets(t)[n] = f
  BY <1>1, <1>4, RankOnce
<1> QED BY <1>3, <1>5

(* Those a trigger has released are some number of its targets.            *)
LEMMA ReleasedRange ==
  ASSUME NEW t \in Triggers, NEW n \in Nat
  PROVE  Matrix!Released(t, n) \in 0 .. Cardinality(Matrix!Targets(t))
<1>1. Cardinality(Matrix!Targets(t)) \in Nat /\ Count[t] \in Nat
  BY TargetsFinite, MatrixAssumption
<1>2. Kind[t] \in {"SINGLE_SHOT", "MULTI_SHOT", "BARRIER"}
  BY MatrixAssumption
<1> QED BY <1>1, <1>2, SameCardinality DEF Matrix!Released

LEMMA ForemostEnds ==
  ASSUME NEW t
  PROVE  /\ Foremost(t, 0) = {}
         /\ Foremost(t, Cardinality(Matrix!Targets(t))) = Matrix!Targets(t)
<1> DEFINE S == Matrix!Targets(t)
<1>1. S \in SUBSET Nat /\ IsFiniteSet(S) /\ Cardinality(S) \in Nat
  BY TargetsFinite
<1>2. \A f \in S : Rank(S, f) \in 1 .. Cardinality(S)
  BY <1>1, RankRange
<1> HIDE DEF S
<1>3. \A f \in S : ~ (Rank(S, f) <= 0) /\ Rank(S, f) <= Cardinality(S)
  BY <1>1, <1>2
<1> QED BY <1>3 DEF Foremost, S

LEMMA ForemostGrows ==
  ASSUME NEW t \in Triggers, NEW n \in Nat
  PROVE  Foremost(t, Matrix!Released(t, n)) \subseteq Foremost(t, Matrix!Released(t, n + 1))
<1> DEFINE S == Matrix!Targets(t)
           N == Cardinality(S)
           m == Matrix!Released(t, n)
           k == Matrix!Released(t, n + 1)
<1>1. N \in Nat /\ S \in SUBSET Nat /\ IsFiniteSet(S) /\ Count[t] \in Nat
  BY TargetsFinite, MatrixAssumption
<1>2. Kind[t] \in {"SINGLE_SHOT", "MULTI_SHOT", "BARRIER"}
  BY MatrixAssumption
<1>3. m \in Int /\ k \in Int /\ m <= k
  BY <1>1, <1>2, SameCardinality DEF Matrix!Released
<1>4. \A f \in S : Rank(S, f) \in Nat
  BY <1>1, RankRange
<1> HIDE DEF m, k, S
<1>5. \A f \in S : Rank(S, f) <= m => Rank(S, f) <= k
  BY <1>3, <1>4
<1> QED BY <1>5 DEF Foremost, m, k, S

(* The targets in one list, as of a set and each once.                     *)
Listed(s, F) ==
  /\ s \in Seq(Flows)
  /\ \A i, j \in DOMAIN s : s[i] = s[j] => i = j
  /\ \A i \in DOMAIN s : s[i] \in F
  /\ \A f \in F : \E i \in DOMAIN s : s[i] = f

LEMMA ListedNone == Listed(<<>>, {})
BY DEF Listed

LEMMA ListedAll ==
  ASSUME NEW t
  PROVE  Listed(Targets(t), Matrix!Targets(t))
<1>1. Targets(t) \in Seq(Flows) /\ DOMAIN Targets(t) = 1 .. Len(Targets(t))
  BY TargetsInOrder
<1>2. \A i, j \in 1 .. Len(Targets(t)) : Targets(t)[i] = Targets(t)[j] => i = j
  BY TargetsOnce
<1>3. \A i \in 1 .. Len(Targets(t)) : Targets(t)[i] \in Matrix!Targets(t)
  BY TargetsInOrder
<1>4. \A f \in Matrix!Targets(t) : \E i \in 1 .. Len(Targets(t)) : Targets(t)[i] = f
  BY TargetsAll
<1> HIDE DEF Matrix!Targets
<1> QED BY <1>1, <1>2, <1>3, <1>4 DEF Listed

LEMMA ListedNext ==
  ASSUME NEW t, NEW n \in Nat, n < Cardinality(Matrix!Targets(t))
  PROVE  Listed(<<Targets(t)[n + 1]>>, Foremost(t, n + 1) \ Foremost(t, n))
<1> DEFINE S == Matrix!Targets(t)
           f == Targets(t)[n + 1]
<1>1. S \in SUBSET Nat /\ IsFiniteSet(S) /\ Cardinality(S) \in Nat /\ S \in SUBSET Flows
  BY TargetsFinite
<1>2. n + 1 \in 1 .. Len(Targets(t))
  BY <1>1, TargetsInOrder
<1>3. f \in S /\ Rank(S, f) = n + 1
  BY <1>2, TargetsInOrder
<1> HIDE DEF f, S
<1>4. \A g \in S : Rank(S, g) \in Nat
  BY <1>1, RankRange
<1>5. \A g \in S : (Rank(S, g) <= n + 1 /\ ~ (Rank(S, g) <= n)) => Rank(S, g) = n + 1
  BY <1>4
<1>6. \A g \in S : Rank(S, g) = n + 1 => g = f
  BY <1>1, <1>3, RankOnce
<1>7. f \in Foremost(t, n + 1) /\ f \notin Foremost(t, n)
  BY <1>3 DEF Foremost, S
<1>8. \A g \in Foremost(t, n + 1) \ Foremost(t, n) : g = f
  BY <1>5, <1>6 DEF Foremost, S
<1>9. f \in Flows
  BY <1>1, <1>3
<1>10. <<f>> \in Seq(Flows) /\ DOMAIN <<f>> = {1} /\ <<f>>[1] = f
  BY <1>9
<1>11. Listed(<<f>>, Foremost(t, n + 1) \ Foremost(t, n))
  BY <1>7, <1>8, <1>10 DEF Listed
<1> QED BY <1>11 DEF f

\* A trigger may be activated once more.
MayActivate(t, n) ==
  /\ Kind[t] = "SINGLE_SHOT" => n = 0
  /\ Kind[t] = "BARRIER" => n < Count[t]

(* Trigger::activate: the targets it hands over are those that one more    *)
(* activation releases.                                                    *)
LEMMA ActivatedReleases ==
  ASSUME NEW t \in Triggers, NEW x \in TriggerStates, NEW n \in Nat,
         CountedBy(t, x, n), MayActivate(t, n)
  PROVE  /\ Activated(t, x).trig \in TriggerStates
         /\ CountedBy(t, Activated(t, x).trig, n + 1)
         /\ Listed(Activated(t, x).targets,
                   Foremost(t, Matrix!Released(t, n + 1)) \ Foremost(t, Matrix!Released(t, n)))
<1> DEFINE N == Cardinality(Matrix!Targets(t))
           G(m) == Foremost(t, Matrix!Released(t, m))
           y == Activated(t, x).trig
           z == Activated(t, x).targets
<1>1. N \in Nat /\ Count[t] \in Nat /\ x.next \in Nat /\ x.remaining \in Int
  BY TargetsFinite, MatrixAssumption DEF TriggerStates
<1>2. Kind[t] \in {"SINGLE_SHOT", "MULTI_SHOT", "BARRIER"}
  BY MatrixAssumption
<1>3. Foremost(t, 0) = {} /\ Foremost(t, N) = Matrix!Targets(t)
  BY ForemostEnds
<1>4. Foremost(t, N) \ Foremost(t, 0) = Matrix!Targets(t)
  BY <1>3
<1>5. Len(Targets(t)) = N
  BY TargetsInOrder
<1>6. \A F : F \ F = {}
  OBVIOUS
<1>7. CASE Kind[t] = "SINGLE_SHOT"
  <2>1. Matrix!Released(t, n) = 0 /\ Matrix!Released(t, n + 1) = N
    BY <1>7, SameCardinality DEF MayActivate, Matrix!Released
  <2>2. Activated(t, x) = [trig |-> [x EXCEPT !.done = TRUE], targets |-> Targets(t)]
    BY <1>7 DEF Activated
  <2>3. Listed(z, G(n + 1) \ G(n))
    BY <2>1, <2>2, <1>4, ListedAll
  <2>4. y = [x EXCEPT !.done = TRUE]
    BY <2>2
  <2>5. y \in TriggerStates
    BY <2>4 DEF TriggerStates
  <2>6. CountedBy(t, y, n + 1)
    <3> HIDE DEF y
    <3> QED BY <1>7 DEF CountedBy
  <2> QED BY <2>3, <2>5, <2>6
<1>8. CASE Kind[t] = "MULTI_SHOT"
  <2>1. x.next = (IF n <= N THEN n ELSE N) /\ x.next = Matrix!Released(t, n)
    BY <1>8, SameCardinality DEF CountedBy, Matrix!Released
  <2>2. Matrix!Released(t, n + 1) = IF n + 1 <= N THEN n + 1 ELSE N
    BY <1>8, SameCardinality DEF Matrix!Released
  <2>3. CASE n >= N
    <3>1. Matrix!Released(t, n) = N /\ Matrix!Released(t, n + 1) = N
      BY <2>1, <2>2, <2>3, <1>1
    <3>2. Activated(t, x) = [trig |-> x, targets |-> <<>>]
      BY <1>8, <3>1, <2>1, <1>1, <1>5 DEF Activated
    <3>3. Listed(z, G(n + 1) \ G(n))
      BY <3>1, <3>2, <1>6, ListedNone
    <3>4. y \in TriggerStates /\ CountedBy(t, y, n + 1)
      BY <3>1, <3>2, <2>1, <1>8 DEF CountedBy
    <3> QED BY <3>3, <3>4
  <2>4. CASE n < N
    <3>1. Matrix!Released(t, n) = n /\ Matrix!Released(t, n + 1) = n + 1 /\ x.next = n
      BY <2>1, <2>2, <2>4, <1>1
    <3>2. Activated(t, x) = [trig |-> [x EXCEPT !.next = @ + 1],
                             targets |-> <<Targets(t)[x.next + 1]>>]
      BY <1>8, <3>1, <2>4, <1>1, <1>5 DEF Activated
    <3>3. Listed(z, G(n + 1) \ G(n))
      BY <3>1, <3>2, <2>4, ListedNext
    <3>4. y \in TriggerStates /\ CountedBy(t, y, n + 1)
      BY <3>1, <3>2, <1>8 DEF CountedBy, TriggerStates
    <3> QED BY <3>3, <3>4
  <2> QED BY <2>3, <2>4, <1>1
<1>9. CASE Kind[t] = "BARRIER"
  <2>1. x.remaining = Count[t] - n /\ n < Count[t]
    BY <1>9 DEF CountedBy, MayActivate
  <2>2. Matrix!Released(t, n) = 0
        /\ Matrix!Released(t, n + 1) = IF n + 1 >= Count[t] THEN N ELSE 0
    BY <1>9, <2>1, <1>1, SameCardinality DEF Matrix!Released
  <2>3. Activated(t, x) = [trig |-> [x EXCEPT !.remaining = @ - 1],
                           targets |-> IF x.remaining = 1 THEN Targets(t) ELSE <<>>]
    BY <1>9 DEF Activated
  <2>4. y \in TriggerStates /\ CountedBy(t, y, n + 1)
    BY <2>1, <2>3, <1>9, <1>1 DEF CountedBy, TriggerStates
  <2>5. CASE x.remaining = 1
    <3>1. Matrix!Released(t, n + 1) = N /\ z = Targets(t)
      BY <2>1, <2>2, <2>3, <2>5, <1>1
    <3> QED BY <3>1, <2>2, <2>4, <1>4, ListedAll
  <2>6. CASE x.remaining # 1
    <3>1. Matrix!Released(t, n + 1) = 0 /\ z = <<>>
      BY <2>1, <2>2, <2>3, <2>6, <1>1
    <3> QED BY <3>1, <2>2, <2>4, <1>6, ListedNone
  <2> QED BY <2>5, <2>6
<1> QED BY <1>2, <1>7, <1>8, <1>9

-----------------------------------------------------------------------------
LEMMA SeqGrows ==
  ASSUME NEW D, NEW E, D \subseteq E, NEW s \in Seq(D)
  PROVE  s \in Seq(E)
<1>1. s \in [1 .. Len(s) -> D] /\ Len(s) \in Nat
  OBVIOUS
<1>2. s \in [1 .. Len(s) -> E]
  BY <1>1
<1> QED BY <1>1, <1>2

LEMMA ListsGrow ==
  ASSUME NEW S, NEW T, S \subseteq T, NEW e \in Lists(DueEvents(S))
  PROVE  e \in Lists(DueEvents(T))
<1>1. DueEvents(S) \subseteq DueEvents(T)
  BY DEF DueEvents
<1> HIDE DEF DueEvents
<1>2. e.pending \in Seq(DueEvents(T))
  BY <1>1, SeqGrows DEF Lists
<1> QED BY <1>2 DEF Lists

(* LcpSrc::startflow: the acknowledgments it leads to.                     *)
LEMMA AcksPending ==
  ASSUME NEW S \in SUBSET Flows, NEW e \in Lists(DueEvents(S)), NEW f \in S,
         NEW d \in Transfers
  PROVE  LET r == SourceIsPending(SourceIsPending(e, AckSource(f), e.now + d),
                                  AckSource(f), e.now + d + Straggle)
         IN  /\ r \in Lists(DueEvents(S))
             /\ r.now = e.now /\ r.endtime = e.endtime /\ r.triggers = e.triggers
<1> DEFINE D == DueEvents(S)
           r1 == SourceIsPending(e, AckSource(f), e.now + d)
           r2 == SourceIsPending(r1, AckSource(f), e.now + d + Straggle)
<1>1. e.now \in Nat /\ d \in Nat /\ Straggle \in Nat
  BY MatrixAssumption DEF Lists
<1>2. AckSource(f) \in Sources /\ AckSource(f).kind = "ack" /\ AckSource(f).flow = f
  BY DEF Sources, AckSource
<1>3. \A n \in Nat : [time |-> n, src |-> AckSource(f)] \in D
  BY <1>2 DEF DueEvents
<1>4. e.now + d \in Nat /\ e.now + d + Straggle \in Nat
  BY <1>1
<1> HIDE DEF D
<1>5. [time |-> e.now + d, src |-> AckSource(f)] \in D
      /\ [time |-> e.now + d + Straggle, src |-> AckSource(f)] \in D
  BY <1>3, <1>4
<1>6. e \in Lists(D)
  BY DEF D
<1>7. r1 \in Lists(D)
      /\ r1.now = e.now /\ r1.endtime = e.endtime /\ r1.triggers = e.triggers
  BY <1>5, <1>6, PendingKeeps
<1> HIDE DEF r1
<1>8. r2 \in Lists(D)
      /\ r2.now = r1.now /\ r2.endtime = r1.endtime /\ r2.triggers = r1.triggers
  BY <1>5, <1>7, PendingKeeps
<1> QED BY <1>7, <1>8 DEF r1, r2, D

LEMMA NeverStarts == TRIGGER_START \in Nat
BY DEF TRIGGER_START

(* A flow of no trigger is scheduled to start; one of a trigger is not.    *)
LEMMA FlowPending ==
  ASSUME NEW S, NEW f \in Flows, NEW e \in Lists(DueEvents(S)),
         e.endtime \in 1 .. TRIGGER_START
  PROVE  LET r == SourceIsPending(e, FlowSource(f), Start[f])
         IN  /\ r \in Lists(DueEvents(S))
             /\ r.now = e.now /\ r.endtime = e.endtime /\ r.triggers = e.triggers
<1>1. CASE TriggeredBy[f] = NoTrigger
  <2>1. FlowSource(f) \in Sources /\ FlowSource(f).kind = "flow" /\ FlowSource(f).flow = f
    BY DEF Sources, FlowSource
  <2>2. Start[f] \in Nat
    BY MatrixAssumption
  <2>3. [time |-> Start[f], src |-> FlowSource(f)] \in DueEvents(S)
    BY <1>1, <2>1, <2>2 DEF DueEvents
  <2> HIDE DEF DueEvents
  <2> QED BY <2>3, PendingKeeps
<1>2. CASE TriggeredBy[f] # NoTrigger
  <2>1. Start[f] = TRIGGER_START
    BY <1>2, MatrixAssumption
  <2>2. e.endtime # 0 /\ Start[f] >= e.endtime
    BY <2>1, NeverStarts
  <2> QED BY <2>2 DEF SourceIsPending
<1> QED BY <1>1, <1>2

(* The source the event list runs next.                                    *)
LEMMA NextDue ==
  ASSUME NEW S \in SUBSET Flows, NEW e \in Lists(DueEvents(S)), SourcePending(e)
  PROVE  /\ TakeSource(e) \in Lists(DueEvents(S))
         /\ TakeSource(e).endtime = e.endtime /\ TakeSource(e).triggers = <<>>
         /\ NextSource(e).kind = "flow" =>
              NextSource(e).flow \in Flows /\ TriggeredBy[NextSource(e).flow] = NoTrigger
         /\ NextSource(e).kind = "ack" => NextSource(e).flow \in S
<1>1. DueEvents(S) \subseteq [time : Nat, src : Sources]
  BY DEF DueEvents
<1>2. /\ TakeSource(e) \in Lists(DueEvents(S))
      /\ TakeSource(e).endtime = e.endtime /\ TakeSource(e).triggers = <<>>
      /\ Head(e.pending) \in DueEvents(S) /\ NextSource(e) = Head(e.pending).src
  BY <1>1, TakeSourceKeeps
<1>3. NextSource(e) \in Sources
  BY <1>1, <1>2
<1>4. NextSource(e).kind = "flow" => NextSource(e).flow \in Flows
  BY <1>3 DEF Sources, FlowSource, AckSource, ScanSource
<1> QED BY <1>2, <1>4 DEF DueEvents

-----------------------------------------------------------------------------
LEMMA ReleasedNone ==
  ASSUME NEW t \in Triggers
  PROVE  Matrix!Released(t, 0) = 0
<1>1. Cardinality(Matrix!Targets(t)) \in Nat /\ Count[t] \in Nat
  BY TargetsFinite, MatrixAssumption
<1>2. Kind[t] \in {"SINGLE_SHOT", "MULTI_SHOT", "BARRIER"}
  BY MatrixAssumption
<1>3. Kind[t] = "BARRIER" => Count[t] >= 1
  BY ActivationsAssumption
<1> QED BY <1>1, <1>2, <1>3, SameCardinality DEF Matrix!Released

(* LcpSrc::connect, of every flow of the matrix.                           *)
LEMMA ConnectAll ==
  ASSUME NEW end \in EndTimes
  PROVE  LET r == RunLoop(Connect, FlowCount,
                          SourceIsPending(NewEventList(end), ScanSource, 0))
         IN  r \in Lists(DueEvents({})) /\ r.endtime = end /\ r.triggers = <<>>
<1> DEFINE D == DueEvents({})
           I == {e \in Lists(D) : e.endtime = end /\ e.triggers = <<>>}
           e0 == NewEventList(end)
           x == SourceIsPending(e0, ScanSource, 0)
<1>1. end \in 1 .. TRIGGER_START /\ end \in Nat
  BY MatrixAssumption, NeverStarts
<1>2. e0 \in Lists(D) /\ e0.endtime = end /\ e0.triggers = <<>>
  BY <1>1 DEF NewEventList, Lists
<1>3. [time |-> 0, src |-> ScanSource] \in D
  BY DEF DueEvents, Sources, ScanSource
<1> HIDE DEF D, e0
<1>4. x \in Lists(D) /\ x.endtime = e0.endtime /\ x.triggers = e0.triggers
  BY <1>2, <1>3, PendingKeeps
<1> HIDE DEF x
<1>5. x \in I
  BY <1>2, <1>4
<1>6. D \subseteq [time : Nat, src : Sources]
  BY DEF D, DueEvents
<1>7. \A y \in I : y \in EventLists(Sources, Flows)
  <2> TAKE y \in I
  <2>a. y.pending \in Seq(D)
    BY DEF Lists
  <2>1. y.pending \in Seq([time : Nat, src : Sources])
    BY <1>6, <2>a, SeqGrows
  <2> QED BY <2>1 DEF Lists, EventLists
<1>8. \A f \in 1 .. FlowCount : \A y \in I : Connect[f][y] \in I
  <2> TAKE f \in 1 .. FlowCount
  <2> TAKE y \in I
  <2>1. f \in Flows /\ y \in EventLists(Sources, Flows)
    BY <1>7 DEF Flows
  <2>2. Connect[f][y] = SourceIsPending(y, FlowSource(f), Start[f])
    BY <2>1 DEF Connect
  <2>3. y \in Lists(DueEvents({})) /\ y.endtime \in 1 .. TRIGGER_START
    BY <1>1 DEF D
  <2>4. Connect[f][y] \in Lists(DueEvents({}))
        /\ Connect[f][y].endtime = y.endtime /\ Connect[f][y].triggers = y.triggers
    BY <2>1, <2>2, <2>3, FlowPending
  <2> QED BY <2>4 DEF D
<1>9. FlowCount \in Nat
  BY MatrixAssumption
<1> HIDE DEF I
<1>10. RunLoop(Connect, FlowCount, x) \in I
  BY <1>5, <1>8, <1>9, LoopResult
<1> QED BY <1>10 DEF I, x, e0, D

LEMMA InitEstablishes == Init => IInv
<1> SUFFICES ASSUME Init PROVE IInv
  OBVIOUS
<1>1. el \in Lists(DueEvents({})) /\ el.endtime \in 1 .. TRIGGER_START /\ el.triggers = <<>>
  <2>1. PICK end \in EndTimes :
          el = RunLoop(Connect, FlowCount, SourceIsPending(NewEventList(end), ScanSource, 0))
    BY DEF Init
  <2>2. end \in 1 .. TRIGGER_START
    BY MatrixAssumption
  <2> QED BY <2>1, <2>2, ConnectAll
<1>2. /\ started = {} /\ finished = {}
      /\ trig = [t \in Triggers |-> NewTrigger(t)]
      /\ ranAt = [f \in Flows |-> [start |-> -1, finish |-> -1]]
  BY DEF Init
<1>3. \A t \in Triggers : trig[t] \in TriggerStates /\ trig[t].next = 0
                          /\ trig[t].remaining = Count[t]
  <2> TAKE t \in Triggers
  <2>1. Count[t] \in Int
    BY MatrixAssumption
  <2> QED BY <2>1, <1>2 DEF NewTrigger, TriggerStates
<1>4. Shape
  <2>1. trig \in [Triggers -> TriggerStates]
    BY <1>2, <1>3
  <2>2. ranAt \in [Flows -> [start : Int, finish : Int]]
    BY <1>2
  <2> QED BY <1>1, <1>2, <2>1, <2>2 DEF Shape
<1>5. Once /\ AtOnce
  BY <1>1 DEF Once, AtOnce
<1>6. NoTimeInTriggers
  BY <1>2 DEF NoTimeInTriggers
<1>7. \A t \in Triggers : Activations(t) = 0 /\ Matrix!Released(t, Activations(t)) = 0
  <2> TAKE t \in Triggers
  <2>1. finished \cap Matrix!Causes(t) = {}
    BY <1>2
  <2>2. Activations(t) = 0
    BY <2>1, FS_EmptySet DEF Activations
  <2> QED BY <2>2, ReleasedNone
<1>8. Counted
  <2> SUFFICES ASSUME NEW t \in Triggers PROVE CountedBy(t, trig[t], Activations(t))
    BY DEF Counted
  <2>1. Count[t] \in Nat
    BY MatrixAssumption
  <2> QED BY <1>3, <1>7, <2>1 DEF CountedBy
<1>9. ForemostReleased
  <2> SUFFICES ASSUME NEW t \in Triggers
               PROVE  Matrix!Targets(t) \cap (started \cup Queued)
                        = Foremost(t, Matrix!Released(t, Activations(t)))
    BY DEF ForemostReleased
  <2>1. Queued = {}
    BY <1>1 DEF Queued
  <2>2. Foremost(t, Matrix!Released(t, Activations(t))) = {}
    BY <1>7, ForemostEnds
  <2> QED BY <2>1, <2>2, <1>2
<1> QED BY <1>4, <1>5, <1>6, <1>8, <1>9 DEF IInv

(* RunTarget: the target that is taken has started, and no other.          *)
LEMMA TargetRuns == IInv /\ RunTarget => IInv'
<1> SUFFICES ASSUME IInv, RunTarget PROVE IInv'
  OBVIOUS
<1> DEFINE n == Len(el.triggers)
           f == NextTarget(el)
           e == TakeTarget(el)
<1>1. Shape /\ Once /\ Counted /\ ForemostReleased /\ AtOnce /\ NoTimeInTriggers
  BY DEF IInv
<1>2. /\ el \in Lists(DueEvents(started)) /\ el.endtime \in 1 .. TRIGGER_START
      /\ started \subseteq Flows /\ finished \subseteq started
      /\ ranAt \in [Flows -> [start : Int, finish : Int]]
  BY <1>1 DEF Shape
<1>3. el.triggers \in Seq(Flows) /\ el.triggers # <<>> /\ el.now \in Nat
  BY <1>2 DEF Lists, RunTarget, TargetPending
<1>4. n \in Nat /\ n # 0 /\ DOMAIN el.triggers = 1 .. n /\ f = el.triggers[n]
  BY <1>3 DEF NextTarget
<1>5. f \in Flows /\ f \notin started /\ JustReleased(f)
  <2>1. n \in DOMAIN el.triggers
    BY <1>4
  <2> QED BY <2>1, <1>1, <1>3, <1>4 DEF Once, AtOnce
<1>6. /\ e \in Lists(DueEvents(started)) /\ e.now = el.now /\ e.endtime = el.endtime
      /\ e.triggers = SubSeq(el.triggers, 1, n - 1)
  <2> HIDE DEF n
  <2>1. SubSeq(el.triggers, 1, n - 1) \in Seq(Flows)
    BY <1>3, <1>4
  <2>2. e = [el EXCEPT !.triggers = SubSeq(el.triggers, 1, n - 1)]
    BY DEF TakeTarget, n
  <2> HIDE DEF e
  <2> QED BY <1>2, <2>1, <2>2 DEF Lists
<1> HIDE DEF f, e
<1>7. /\ started' = started \cup {f} /\ finished' = finished /\ trig' = trig
      /\ ranAt' = [ranAt EXCEPT ![f].start = e.now]
      /\ \E d \in Transfers :
           el' = SourceIsPending(SourceIsPending(e, AckSource(f), e.now + d),
                                 AckSource(f), e.now + d + Straggle)
  BY <1>5 DEF RunTarget, StartFlow, f, e
<1>8. /\ el' \in Lists(DueEvents(started')) /\ el'.now = el.now
      /\ el'.endtime = el.endtime /\ el'.triggers = SubSeq(el.triggers, 1, n - 1)
  <2> DEFINE S == started \cup {f}
  <2>1. S \in SUBSET Flows /\ started \subseteq S /\ f \in S
    BY <1>2, <1>5
  <2> HIDE DEF S
  <2>2. e \in Lists(DueEvents(S))
    BY <1>6, <2>1, ListsGrow
  <2>3. PICK d \in Transfers :
           el' = SourceIsPending(SourceIsPending(e, AckSource(f), e.now + d),
                                 AckSource(f), e.now + d + Straggle)
    BY <1>7
  <2>4. /\ el' \in Lists(DueEvents(S)) /\ el'.now = e.now
        /\ el'.endtime = e.endtime /\ el'.triggers = e.triggers
    BY <2>1, <2>2, <2>3, AcksPending
  <2> QED BY <2>4, <1>6, <1>7 DEF S
<1>9. /\ DOMAIN el'.triggers = 1 .. n - 1 /\ \A i \in 1 .. n - 1 : i \in 1 .. n /\ i # n
      /\ \A i \in 1 .. n - 1 : el'.triggers[i] = el.triggers[i]
  <2> HIDE DEF n
  <2> QED BY <1>3, <1>4, <1>8
<1>10. /\ ranAt' \in [Flows -> [start : Int, finish : Int]]
       /\ ranAt'[f].start = el.now
       /\ \A g \in Flows : ranAt'[g].finish = ranAt[g].finish
       /\ \A g \in Flows : g # f => ranAt'[g].start = ranAt[g].start
  BY <1>2, <1>3, <1>5, <1>6, <1>7
<1>11. Shape'
  BY <1>1, <1>2, <1>5, <1>7, <1>8, <1>10 DEF Shape
<1>12. Once'
  <2>1. \A i, j \in DOMAIN el'.triggers : el'.triggers[i] = el'.triggers[j] => i = j
    BY <1>1, <1>4, <1>9 DEF Once
  <2>2. \A i \in DOMAIN el'.triggers : el'.triggers[i] \notin started'
    BY <1>1, <1>4, <1>7, <1>9 DEF Once
  <2> QED BY <2>1, <2>2 DEF Once
<1>13. \A t : Activations(t)' = Activations(t)
  BY <1>7 DEF Activations, Matrix!Causes
<1>14. Counted'
  BY <1>1, <1>7, <1>13 DEF Counted, CountedBy
<1>15. started' \cup Queued' = started \cup Queued
  <2>1. Queued = {el.triggers[i] : i \in 1 .. n}
    BY <1>4 DEF Queued
  <2>2. Queued' = {el.triggers[i] : i \in 1 .. n - 1}
    BY <1>9 DEF Queued
  <2>3. \A i \in 1 .. n : i = n \/ i \in 1 .. n - 1
    BY <1>4
  <2>4. n \in 1 .. n
    BY <1>4
  <2> HIDE DEF n
  <2>5. Queued = Queued' \cup {f}
    BY <1>4, <1>9, <2>1, <2>2, <2>3, <2>4
  <2> QED BY <2>5, <1>7
<1>16. ForemostReleased'
  BY <1>1, <1>13, <1>15 DEF ForemostReleased, Matrix!Targets, Foremost, Matrix!Released
<1>17. finished \subseteq Flows
  BY <1>2
<1>18. AtOnce'
  <2> SUFFICES ASSUME NEW i \in DOMAIN el'.triggers
               PROVE  /\ TriggeredBy[el'.triggers[i]] # NoTrigger
                      /\ \E g \in finished' \cap Causes(TriggeredBy[el'.triggers[i]]) :
                           ranAt'[g].finish = el'.now
    BY DEF AtOnce, JustReleased, Causes
  <2>1. i \in DOMAIN el.triggers /\ el'.triggers[i] = el.triggers[i]
    BY <1>4, <1>9
  <2>2. TriggeredBy[el.triggers[i]] # NoTrigger
    BY <2>1, <1>1 DEF AtOnce, JustReleased
  <2>3. PICK g \in finished \cap Causes(TriggeredBy[el.triggers[i]]) : ranAt[g].finish = el.now
    BY <2>1, <1>1 DEF AtOnce, JustReleased
  <2>4. ranAt'[g].finish = el'.now
    BY <2>3, <1>8, <1>10, <1>17
  <2> QED BY <2>1, <2>2, <2>3, <2>4, <1>7
<1>19. NoTimeInTriggers'
  <2> SUFFICES ASSUME NEW g \in started', TriggeredBy[g] # NoTrigger
               PROVE  \E h \in finished' \cap Causes(TriggeredBy[g]) :
                        ranAt'[h].finish = ranAt'[g].start
    BY DEF NoTimeInTriggers, Causes
  <2>1. CASE g = f
    BY <2>1, <1>5, <1>7, <1>10, <1>17 DEF JustReleased
  <2>2. CASE g # f
    <3>1. g \in started /\ g \in Flows
      BY <2>2, <1>2, <1>7
    <3>2. PICK h \in finished \cap Causes(TriggeredBy[g]) : ranAt[h].finish = ranAt[g].start
      BY <3>1, <1>1 DEF NoTimeInTriggers
    <3> QED BY <3>1, <3>2, <2>2, <1>7, <1>10, <1>17
  <2> QED BY <2>1, <2>2
<1> QED BY <1>11, <1>12, <1>14, <1>16, <1>18, <1>19 DEF IInv

(* A step that neither takes nor adds a target, starts no flow of a        *)
(* trigger and finishes none.                                              *)
LEMMA NothingReleased ==
  ASSUME IInv, el.triggers = <<>>, el'.triggers = <<>>, Shape',
         trig' = trig, finished' = finished, started \subseteq started',
         \A f \in started' : f \in started \/ TriggeredBy[f] = NoTrigger,
         \A f \in Flows : ranAt'[f].finish = ranAt[f].finish,
         \A f \in started : ranAt'[f].start = ranAt[f].start
  PROVE  IInv'
<1>1. Shape /\ Counted /\ ForemostReleased /\ NoTimeInTriggers
  BY DEF IInv
<1>2. Once' /\ AtOnce'
  BY DEF Once, AtOnce
<1>3. \A t : Activations(t)' = Activations(t)
  BY DEF Activations, Matrix!Causes
<1>4. Counted'
  BY <1>1, <1>3 DEF Counted, CountedBy
<1>5. Queued = {} /\ Queued' = {}
  BY DEF Queued
<1>6. ForemostReleased'
  <2> SUFFICES ASSUME NEW t \in Triggers
               PROVE  Matrix!Targets(t) \cap (started' \cup {})
                        = Foremost(t, Matrix!Released(t, Activations(t)))
    BY <1>3, <1>5 DEF ForemostReleased, Matrix!Targets, Foremost, Matrix!Released
  <2>1. Matrix!Targets(t) \cap (started \cup {})
          = Foremost(t, Matrix!Released(t, Activations(t)))
    BY <1>1, <1>5 DEF ForemostReleased
  <2>2. NoTrigger \notin Triggers
    BY MatrixAssumption
  <2>3. Matrix!Targets(t) \cap started' = Matrix!Targets(t) \cap started
    BY <2>2 DEF Matrix!Targets
  <2> QED BY <2>1, <2>3
<1>7. finished \subseteq Flows
  BY <1>1 DEF Shape
<1>8. NoTimeInTriggers'
  <2> SUFFICES ASSUME NEW g \in started', TriggeredBy[g] # NoTrigger
               PROVE  \E h \in finished' \cap Causes(TriggeredBy[g]) :
                        ranAt'[h].finish = ranAt'[g].start
    BY DEF NoTimeInTriggers, Causes
  <2>1. g \in started
    OBVIOUS
  <2>2. PICK h \in finished \cap Causes(TriggeredBy[g]) : ranAt[h].finish = ranAt[g].start
    BY <2>1, <1>1 DEF NoTimeInTriggers
  <2> QED BY <2>1, <2>2, <1>7
<1> QED BY <1>2, <1>4, <1>6, <1>8 DEF IInv

LEMMA FlowRuns == IInv /\ RunFlow => IInv'
<1> SUFFICES ASSUME IInv, RunFlow PROVE IInv'
  OBVIOUS
<1> DEFINE f == NextSource(el).flow
           e == TakeSource(el)
<1>1. Shape
  BY DEF IInv
<1>2. /\ el \in Lists(DueEvents(started)) /\ el.endtime \in 1 .. TRIGGER_START
      /\ started \in SUBSET Flows /\ finished \subseteq started
      /\ ranAt \in [Flows -> [start : Int, finish : Int]]
  BY <1>1 DEF Shape
<1>3. SourcePending(el) /\ NextSource(el).kind = "flow" /\ el.triggers = <<>>
  BY DEF RunFlow, SourcePending
<1>4. /\ e \in Lists(DueEvents(started)) /\ e.endtime = el.endtime /\ e.triggers = <<>>
      /\ f \in Flows /\ TriggeredBy[f] = NoTrigger
  BY <1>2, <1>3, NextDue
<1>5. StartFlow(e, f) /\ trig' = trig /\ finished' = finished
  BY DEF RunFlow
<1> HIDE DEF e, f
<1>6. CASE f \in started
  <2>1. el' = e /\ started' = started /\ ranAt' = ranAt
    BY <1>5, <1>6 DEF StartFlow
  <2>2. Shape'
    BY <2>1, <1>1, <1>2, <1>4, <1>5 DEF Shape
  <2> QED BY <2>1, <2>2, <1>3, <1>4, <1>5, NothingReleased
<1>7. CASE f \notin started
  <2> DEFINE S == started \cup {f}
  <2>1. S \in SUBSET Flows /\ started \subseteq S /\ f \in S
    BY <1>2, <1>4
  <2>2. /\ started' = S /\ ranAt' = [ranAt EXCEPT ![f].start = e.now]
        /\ \E d \in Transfers :
             el' = SourceIsPending(SourceIsPending(e, AckSource(f), e.now + d),
                                   AckSource(f), e.now + d + Straggle)
    BY <1>5, <1>7 DEF StartFlow
  <2>a. \A g \in S : g \in started \/ g = f
    OBVIOUS
  <2> HIDE DEF S
  <2>3. e \in Lists(DueEvents(S)) /\ e.now \in Int
    BY <1>4, <2>1, ListsGrow DEF Lists
  <2>4. PICK d \in Transfers :
           el' = SourceIsPending(SourceIsPending(e, AckSource(f), e.now + d),
                                 AckSource(f), e.now + d + Straggle)
    BY <2>2
  <2>5. /\ el' \in Lists(DueEvents(S)) /\ el'.endtime = e.endtime
        /\ el'.triggers = e.triggers
    BY <2>1, <2>3, <2>4, AcksPending
  <2>6. /\ ranAt' \in [Flows -> [start : Int, finish : Int]]
        /\ \A g \in Flows : ranAt'[g].finish = ranAt[g].finish
        /\ \A g \in started : ranAt'[g].start = ranAt[g].start
    BY <1>2, <1>4, <1>7, <2>2, <2>3
  <2>7. Shape'
    BY <1>1, <1>2, <1>4, <1>5, <2>1, <2>2, <2>5, <2>6 DEF Shape
  <2>8. \A g \in started' : g \in started \/ TriggeredBy[g] = NoTrigger
    BY <1>4, <2>2, <2>a
  <2>9. el'.triggers = <<>> /\ started \subseteq started'
    BY <1>4, <2>1, <2>2, <2>5
  <2> QED BY <2>6, <2>7, <2>8, <2>9, <1>3, <1>5, NothingReleased
<1> QED BY <1>6, <1>7

LEMMA ScannerRuns == IInv /\ RunScanner => IInv'
<1> SUFFICES ASSUME IInv, RunScanner PROVE IInv'
  OBVIOUS
<1> DEFINE e == TakeSource(el)
<1>1. Shape
  BY DEF IInv
<1>2. /\ el \in Lists(DueEvents(started)) /\ started \in SUBSET Flows
      /\ el.endtime \in 1 .. TRIGGER_START
  BY <1>1 DEF Shape
<1>3. /\ SourcePending(el) /\ el.triggers = <<>>
      /\ el' = SourceIsPending(e, ScanSource, e.now + ScanPeriod)
      /\ trig' = trig /\ started' = started /\ finished' = finished /\ ranAt' = ranAt
  BY DEF RunScanner, SourcePending
<1>4. e \in Lists(DueEvents(started)) /\ e.endtime = el.endtime /\ e.triggers = <<>>
  BY <1>2, <1>3, NextDue
<1> HIDE DEF e
<1>5. e.now + ScanPeriod \in Nat
  BY <1>4, MatrixAssumption DEF Lists
<1>6. [time |-> e.now + ScanPeriod, src |-> ScanSource] \in DueEvents(started)
  BY <1>5 DEF DueEvents, Sources, ScanSource
<1>7. /\ el' \in Lists(DueEvents(started)) /\ el'.endtime = e.endtime
      /\ el'.triggers = e.triggers
  BY <1>3, <1>4, <1>6, PendingKeeps
<1>8. Shape'
  BY <1>1, <1>2, <1>3, <1>4, <1>7 DEF Shape
<1> QED BY <1>3, <1>4, <1>7, <1>8, NothingReleased

(* LcpSrc::finish_flow: the trigger of the flow, if it has one, releases   *)
(* what one more activation of it releases, and no other trigger does.     *)
LEMMA FlowFinishes ==
  ASSUME IInv, el.triggers = <<>>, started' = started,
         NEW f \in started, f \notin finished,
         TakeSource(el) \in Lists(DueEvents(started)),
         TakeSource(el).endtime = el.endtime, TakeSource(el).triggers = <<>>,
         FinishFlow(TakeSource(el), f)
  PROVE  IInv'
<1> DEFINE e == TakeSource(el)
           t == SendDone[f]
           z == IF t = NoTrigger THEN <<>> ELSE Activated(t, trig[t]).targets
           e1 == TriggersArePending(e, z)
           now == e.now
           end == e.endtime
           G(u) == Foremost(u, Matrix!Released(u, Activations(u)))
           G1(u) == Foremost(u, Matrix!Released(u, Activations(u)'))
<1>1. Shape /\ Counted /\ ForemostReleased /\ NoTimeInTriggers
  BY DEF IInv
<1>2. /\ el.endtime \in 1 .. TRIGGER_START /\ f \in Flows
      /\ trig \in [Triggers -> TriggerStates]
      /\ started \in SUBSET Flows /\ finished \subseteq started
      /\ ranAt \in [Flows -> [start : Int, finish : Int]]
  BY <1>1 DEF Shape
<1>3. /\ finished' = finished \cup {f}
      /\ ranAt' = [ranAt EXCEPT ![f].finish = now]
      /\ trig' = IF t = NoTrigger THEN trig ELSE [trig EXCEPT ![t] = Activated(t, trig[t]).trig]
      /\ el' = CancelPendingSource(e1, FlowSource(f))
  BY DEF FinishFlow
<1>4. t \in Triggers \cup {NoTrigger} /\ NoTrigger \notin Triggers
  BY <1>2, MatrixAssumption
<1>5. \A u \in Triggers :
        /\ u # t => Activations(u)' = Activations(u)
        /\ u = t => /\ Activations(u)' = Activations(u) + 1
                    /\ MayActivate(u, Activations(u))
        /\ Activations(u) \in Nat
  <2> TAKE u \in Triggers
  <2> DEFINE A == finished \cap Matrix!Causes(u)
             B == finished' \cap Matrix!Causes(u)
             C == Cardinality(Causes(u))
  <2>1. Activations(u) = Cardinality(A) /\ Activations(u)' = Cardinality(B)
    BY DEF Activations, Matrix!Causes
  <2>a. finished \in SUBSET Flows /\ finished' \in SUBSET Flows
    BY <1>2, <1>3
  <2>2. IsFiniteSet(A) /\ Cardinality(A) \in Nat
    BY <2>a, CausesFinite
  <2>3. Cardinality(B) <= C /\ C \in Nat
    <3> HIDE DEF t
    <3> QED BY <2>a, CausesFinite
  <2>4. CASE u # t
    <3>1. B = A
      BY <2>4, <1>3 DEF Matrix!Causes
    <3> QED BY <3>1, <2>1, <2>2, <2>4
  <2>5. CASE u = t
    <3>1. B = A \cup {f} /\ f \notin A
      BY <2>5, <1>2, <1>3 DEF Matrix!Causes
    <3> HIDE DEF A, B, C, t
    <3>2. Cardinality(B) = Cardinality(A) + 1
      BY <3>1, <2>2, FS_AddElement
    <3>3. Kind[u] = "SINGLE_SHOT" => C <= 1
      BY ActivationsAssumption DEF C
    <3>4. Kind[u] = "BARRIER" => C = Count[u]
      BY ActivationsAssumption DEF C
    <3>5. MayActivate(u, Cardinality(A))
      BY <3>2, <3>3, <3>4, <2>2, <2>3 DEF MayActivate
    <3> QED BY <3>2, <3>5, <2>1, <2>2, <2>5
  <2> QED BY <2>4, <2>5
<1>6. /\ Listed(z, IF t = NoTrigger THEN {} ELSE G1(t) \ G(t))
      /\ t # NoTrigger => /\ Activated(t, trig[t]).trig \in TriggerStates
                          /\ CountedBy(t, Activated(t, trig[t]).trig, Activations(t)')
  <2>1. CASE t = NoTrigger
    BY <2>1, ListedNone
  <2>2. CASE t # NoTrigger
    <3>1. t \in Triggers
      BY <1>4, <2>2
    <3> DEFINE x == trig[t]
               n == Activations(t)
    <3>2. x \in TriggerStates /\ CountedBy(t, x, n)
      BY <3>1, <1>1, <1>2 DEF Counted
    <3>3. n \in Nat /\ MayActivate(t, n) /\ Activations(t)' = n + 1
      BY <3>1, <1>5
    <3> HIDE DEF x, n, t
    <3>4. /\ Activated(t, x).trig \in TriggerStates
          /\ CountedBy(t, Activated(t, x).trig, n + 1)
          /\ Listed(Activated(t, x).targets,
                    Foremost(t, Matrix!Released(t, n + 1)) \ Foremost(t, Matrix!Released(t, n)))
      BY <3>1, <3>2, <3>3, ActivatedReleases
    <3> QED BY <2>2, <3>3, <3>4 DEF x, n
  <2> QED BY <2>1, <2>2
<1>7. z \in Seq(Flows)
  BY <1>6 DEF Listed
<1> HIDE DEF z, t
<1>8. e1 \in Lists(DueEvents(started)) /\ e1.endtime = end /\ e1.now = now /\ e1.triggers = z
  <2>1. <<>> \o z = z
    BY <1>7
  <2>2. e1 = [e EXCEPT !.triggers = <<>> \o z]
    BY DEF TriggersArePending
  <2> HIDE DEF e, e1
  <2> QED BY <1>7, <2>1, <2>2 DEF Lists, e
<1> HIDE DEF e1
<1>9. /\ el' \in Lists(DueEvents(started)) /\ el'.endtime = end
      /\ el'.now = now /\ el'.triggers = z
  BY <1>3, <1>8, CancelKeeps
<1> HIDE DEF G, G1
<1>10. now \in Int /\ end = el.endtime
  BY DEF Lists
<1> HIDE DEF now, end, e
<1>11. /\ ranAt' \in [Flows -> [start : Int, finish : Int]]
       /\ ranAt'[f].finish = now
       /\ \A g \in Flows : ranAt'[g].start = ranAt[g].start
       /\ \A g \in Flows : g # f => ranAt'[g].finish = ranAt[g].finish
  BY <1>2, <1>3, <1>10
<1>12. trig' \in [Triggers -> TriggerStates]
  BY <1>2, <1>3, <1>4, <1>6
<1>13. Shape'
  BY <1>2, <1>3, <1>9, <1>10, <1>11, <1>12 DEF Shape
<1>14. Counted'
  <2> SUFFICES ASSUME NEW u \in Triggers PROVE CountedBy(u, trig'[u], Activations(u)')
    BY DEF Counted, CountedBy
  <2>1. CASE u = t
    <3>1. trig'[u] = Activated(t, trig[t]).trig
      BY <2>1, <1>2, <1>3, <1>4
    <3> QED BY <2>1, <3>1, <1>4, <1>6
  <2>2. CASE u # t
    <3>1. trig'[u] = trig[u]
      BY <2>2, <1>2, <1>3, <1>4
    <3>2. Activations(u)' = Activations(u)
      BY <2>2, <1>5
    <3>3. CountedBy(u, trig[u], Activations(u))
      BY <1>1 DEF Counted
    <3> QED BY <3>1, <3>2, <3>3
  <2> QED BY <2>1, <2>2
<1> DEFINE F == IF t = NoTrigger THEN {} ELSE G1(t) \ G(t)
<1>15. /\ Queued = {} /\ Listed(z, F)
       /\ \A g \in Queued' : g \in F
       /\ \A g \in F : g \in Queued'
  <2>1. Listed(z, F)
    BY <1>6
  <2> HIDE DEF F
  <2>2. Queued' = {z[i] : i \in DOMAIN z}
    BY <1>9 DEF Queued
  <2>3. Queued = {}
    BY DEF Queued
  <2> QED BY <2>1, <2>2, <2>3 DEF Listed
<1>16. Queued' = F
  <2> HIDE DEF F
  <2> QED BY <1>15 DEF Listed
<1>17. \A u \in Triggers : Matrix!Targets(u) \cap started = G(u)
  BY <1>1, <1>15 DEF ForemostReleased, G
<1>18. \A u \in Triggers : u # t => G1(u) = G(u)
  BY <1>5 DEF G, G1
<1>19. t \in Triggers => G(t) \subseteq G1(t) /\ G1(t) \subseteq Matrix!Targets(t)
  <2> SUFFICES ASSUME t \in Triggers PROVE G(t) \subseteq G1(t) /\ G1(t) \subseteq Matrix!Targets(t)
    OBVIOUS
  <2> DEFINE n == Activations(t)
  <2>1. n \in Nat /\ Activations(t)' = n + 1
    BY <1>5
  <2> HIDE DEF n
  <2>2. Foremost(t, Matrix!Released(t, n)) \subseteq Foremost(t, Matrix!Released(t, n + 1))
    BY <2>1, ForemostGrows
  <2> QED BY <2>1, <2>2 DEF G, G1, n, Foremost
<1>20. \A g \in F : t # NoTrigger /\ TriggeredBy[g] = t /\ g \in Matrix!Targets(t) /\ g \notin started
  BY <1>4, <1>17, <1>19 DEF Matrix!Targets
<1>21. Once'
  BY <1>9, <1>15, <1>20 DEF Once, Listed
<1>22. ForemostReleased'
  <2> SUFFICES ASSUME NEW u \in Triggers
               PROVE  Matrix!Targets(u) \cap (started \cup F) = G1(u)
    BY <1>16 DEF ForemostReleased, Matrix!Targets, Foremost, Matrix!Released, G1
  <2>1. CASE u = t
    <3>1. F = G1(t) \ G(t)
      BY <2>1, <1>4
    <3> HIDE DEF F
    <3> QED BY <2>1, <3>1, <1>17, <1>19
  <2>2. CASE u # t
    <3>1. Matrix!Targets(u) \cap F = {}
      <4> HIDE DEF F
      <4> QED BY <2>2, <1>20 DEF Matrix!Targets
    <3> HIDE DEF F
    <3> QED BY <3>1, <2>2, <1>17, <1>18
  <2> QED BY <2>1, <2>2
<1> HIDE DEF F
<1>23. AtOnce'
  <2> SUFFICES ASSUME NEW i \in DOMAIN el'.triggers
               PROVE  /\ TriggeredBy[el'.triggers[i]] # NoTrigger
                      /\ \E g \in finished' \cap Causes(TriggeredBy[el'.triggers[i]]) :
                           ranAt'[g].finish = el'.now
    BY DEF AtOnce, JustReleased, Causes
  <2>1. el'.triggers[i] \in F
    BY <1>9, <1>15 DEF Listed
  <2>2. TriggeredBy[el'.triggers[i]] = t /\ t # NoTrigger
    BY <2>1, <1>20
  <2>3. f \in finished' \cap Causes(t)
    BY <1>2, <1>3 DEF Causes, t
  <2> QED BY <2>2, <2>3, <1>9, <1>11
<1>24. finished \subseteq Flows
  BY <1>2
<1>25. NoTimeInTriggers'
  <2> SUFFICES ASSUME NEW g \in started, TriggeredBy[g] # NoTrigger
               PROVE  \E h \in finished' \cap Causes(TriggeredBy[g]) :
                        ranAt'[h].finish = ranAt'[g].start
    BY DEF NoTimeInTriggers, Causes
  <2>1. PICK h \in finished \cap Causes(TriggeredBy[g]) : ranAt[h].finish = ranAt[g].start
    BY <1>1 DEF NoTimeInTriggers
  <2>2. h # f /\ h \in Flows /\ g \in Flows
    BY <2>1, <1>2, <1>24
  <2> QED BY <2>1, <2>2, <1>3, <1>11
<1> QED BY <1>13, <1>14, <1>21, <1>22, <1>23, <1>25 DEF IInv

LEMMA AckRuns == IInv /\ RunAck => IInv'
<1> SUFFICES ASSUME IInv, RunAck PROVE IInv'
  OBVIOUS
<1> DEFINE f == NextSource(el).flow
           e == TakeSource(el)
<1>1. Shape
  BY DEF IInv
<1>2. /\ el \in Lists(DueEvents(started)) /\ el.endtime \in 1 .. TRIGGER_START
      /\ started \in SUBSET Flows
  BY <1>1 DEF Shape
<1>3. /\ SourcePending(el) /\ NextSource(el).kind = "ack" /\ el.triggers = <<>>
      /\ started' = started
  BY DEF RunAck, SourcePending
<1>4. /\ e \in Lists(DueEvents(started)) /\ e.endtime = el.endtime /\ e.triggers = <<>>
      /\ f \in started
  BY <1>2, <1>3, NextDue
<1>5. CASE f \in finished
  <2>1. el' = e /\ trig' = trig /\ finished' = finished /\ ranAt' = ranAt
    BY <1>5 DEF RunAck
  <2> HIDE DEF e
  <2>2. Shape'
    BY <2>1, <1>1, <1>2, <1>3, <1>4 DEF Shape
  <2> QED BY <2>1, <2>2, <1>3, <1>4, NothingReleased
<1>6. CASE f \notin finished
  <2>1. FinishFlow(e, f)
    BY <1>6 DEF RunAck
  <2> HIDE DEF f
  <2> QED BY <2>1, <1>3, <1>4, <1>6, FlowFinishes
<1> QED BY <1>5, <1>6

(* What triggers release, and when, for every matrix.                      *)
THEOREM TriggerInvariant == Spec => []IInv
<1>1. Init => IInv
  BY InitEstablishes
<1>2. IInv /\ [Next]_vars => IInv'
  <2> SUFFICES ASSUME IInv, [Next]_vars PROVE IInv'
    OBVIOUS
  <2>1. CASE RunTarget
    BY <2>1, TargetRuns
  <2>2. CASE RunFlow
    BY <2>2, FlowRuns
  <2>3. CASE RunAck
    BY <2>3, AckRuns
  <2>4. CASE RunScanner
    BY <2>4, ScannerRuns
  <2>5. CASE UNCHANGED vars
    <3>1. el' = el /\ trig' = trig /\ started' = started /\ finished' = finished /\ ranAt' = ranAt
      BY <2>5 DEF vars
    <3>2. Shape'
      BY <3>1 DEF IInv, Shape, DueEvents, Lists
    <3>3. Once' /\ AtOnce'
      BY <3>1 DEF IInv, Once, AtOnce, JustReleased, Causes
    <3>4. \A t : Activations(t)' = Activations(t)
      BY <3>1 DEF Activations, Matrix!Causes
    <3>5. Counted'
      BY <3>1, <3>4 DEF IInv, Counted, CountedBy
    <3>6. Queued' = Queued
      BY <3>1 DEF Queued
    <3>7. ForemostReleased'
      BY <3>1, <3>4, <3>6 DEF IInv, ForemostReleased, Foremost, Matrix!Targets, Matrix!Released
    <3>8. NoTimeInTriggers'
      BY <3>1 DEF IInv, NoTimeInTriggers, Causes
    <3> QED BY <3>2, <3>3, <3>5, <3>7, <3>8 DEF IInv
  <2> QED BY <2>1, <2>2, <2>3, <2>4, <2>5 DEF Next
<1> QED BY <1>1, <1>2, PTL DEF Spec

-----------------------------------------------------------------------------
LEMMA ReleasedAreExact == IInv => ReleasedExactly
<1> SUFFICES ASSUME IInv, NEW t \in Triggers
             PROVE  LET waiting == {i \in DOMAIN el.triggers : TriggeredBy[el.triggers[i]] = t}
                    IN  /\ Cardinality(started \cap Matrix!Targets(t)) + Cardinality(waiting)
                             = Matrix!Released(t, Activations(t))
                        /\ \A i, j \in waiting : el.triggers[i] = el.triggers[j] => i = j
                        /\ \A i \in waiting : el.triggers[i] \notin started
  BY DEF ReleasedExactly
<1> DEFINE waiting == {i \in DOMAIN el.triggers : TriggeredBy[el.triggers[i]] = t}
           T == Matrix!Targets(t)
           A == started \cap T
           Q == Queued \cap T
           r == Matrix!Released(t, Activations(t))
           g == [i \in waiting |-> el.triggers[i]]
<1>1. Shape /\ Once /\ ForemostReleased
  BY DEF IInv
<1>2. \A i, j \in waiting : el.triggers[i] = el.triggers[j] => i = j
  BY <1>1 DEF Once
<1>3. \A i \in waiting : el.triggers[i] \notin started
  BY <1>1 DEF Once
<1>4. T \in SUBSET Nat /\ IsFiniteSet(T) /\ Cardinality(T) \in Nat
  BY TargetsFinite
<1>5. el.triggers \in Seq(Flows) /\ finished \in SUBSET Flows
  BY <1>1 DEF Shape, Lists
<1>6. A \cup Q = Foremost(t, r) /\ A \cap Q = {}
  <2>1. T \cap (started \cup Queued) = Foremost(t, r)
    BY <1>1 DEF ForemostReleased
  <2>2. started \cap Queued = {}
    BY <1>1 DEF Once, Queued
  <2> HIDE DEF T, r
  <2> QED BY <2>1, <2>2
<1>7. \A q \in Q : \E i \in waiting : g[i] = q
  BY DEF Queued, Matrix!Targets
<1>8. \A i \in waiting : g[i] \in Q
  <2> TAKE i \in waiting
  <2>1. el.triggers[i] \in Flows
    BY <1>5
  <2> QED BY <2>1 DEF Queued, Matrix!Targets
<1>9. g \in [waiting -> Q] /\ \A i, j \in waiting : g[i] = g[j] => i = j
  BY <1>2, <1>8
<1> HIDE DEF g, waiting, T
<1>10. g \in Injection(waiting, Q) /\ g \in Surjection(waiting, Q)
  BY <1>7, <1>9 DEF Injection, IsInjective, Surjection
<1>11. A \in SUBSET T /\ Q \in SUBSET T
  OBVIOUS
<1> HIDE DEF A, Q
<1>12. IsFiniteSet(A) /\ IsFiniteSet(Q)
  BY <1>4, <1>11, FS_Subset
<1>13. Cardinality(waiting) = Cardinality(Q)
  BY <1>10, <1>12, FS_Injection
<1>14. Cardinality(A \cup Q) = Cardinality(A) + Cardinality(Q) - Cardinality(A \cap Q)
  BY <1>12, FS_Union
<1>15. Cardinality(A \cap Q) = 0
  BY <1>6, FS_EmptySet
<1>16. Cardinality(A) \in Nat /\ Cardinality(Q) \in Nat
  BY <1>12, FS_CardinalityType
<1>17. r \in 0 .. Cardinality(T)
  <2>1. Activations(t) \in Nat
    BY <1>5, CausesFinite DEF Activations
  <2> QED BY <2>1, ReleasedRange DEF T
<1> HIDE DEF r
<1>18. Cardinality(Foremost(t, r)) = r
  BY <1>4, <1>17, ForemostSize DEF Foremost, T
<1>a. Cardinality(A \cup Q) = r
  BY <1>6, <1>18
<1>19. Cardinality(A) + Cardinality(waiting) = r
  BY <1>a, <1>13, <1>14, <1>15, <1>16
<1> QED BY <1>2, <1>3, <1>19 DEF waiting, A, T, r

(* No target of a trigger (trigger.cpp) is lost in the event list and none *)
(* is run twice, whatever the matrix.                                      *)
THEOREM ReleasedExactlyAlways == Spec => []ReleasedExactly
BY TriggerInvariant, ReleasedAreExact, PTL

(* A triggered flow starts at the time the flow that released it finishes. *)
THEOREM NoTimeInTriggersAlways == Spec => []NoTimeInTriggers
<1>1. IInv => NoTimeInTriggers
  BY DEF IInv
<1> QED BY <1>1, TriggerInvariant, PTL

(* A step of the flows and the event list is a step of the matrix or none. *)
LEMMA MatrixStep == IInv /\ [Next]_vars => [Matrix!Next]_(Matrix!gvars)
<1> SUFFICES ASSUME IInv, [Next]_vars
             PROVE  Matrix!Next \/ (started' = started /\ finished' = finished)
  BY DEF Matrix!gvars
<1>1. Shape /\ Once /\ ForemostReleased /\ AtOnce
  BY DEF IInv
<1>2. /\ el \in Lists(DueEvents(started)) /\ started \in SUBSET Flows
  BY <1>1 DEF Shape
<1>3. CASE RunTarget
  <2> DEFINE f == NextTarget(el)
             n == Len(el.triggers)
             t == TriggeredBy[f]
             m == Activations(t)
  <2>1. el.triggers \in Seq(Flows) /\ el.triggers # <<>>
    BY <1>2, <1>3 DEF Lists, RunTarget, TargetPending
  <2>2. n \in DOMAIN el.triggers /\ f = el.triggers[n]
    BY <2>1 DEF NextTarget
  <2>3. f \in Flows /\ f \notin started /\ t # NoTrigger /\ f \in Queued
    BY <2>1, <2>2, <1>1 DEF Once, AtOnce, JustReleased, Queued
  <2>4. t \in Triggers
    BY <2>3, MatrixAssumption
  <2>5. f \in Matrix!Targets(t)
    BY <2>3 DEF Matrix!Targets
  <2>6. f \in Foremost(t, Matrix!Released(t, m))
    BY <2>3, <2>4, <2>5, <1>1 DEF ForemostReleased
  <2>7. Rank(Matrix!Targets(t), f) <= Matrix!Released(t, m)
    BY <2>6 DEF Foremost
  <2>8. m = Matrix!Cardinality(finished \cap Matrix!Causes(t))
    BY SameCardinality DEF Activations
  <2>9. Rank(Matrix!Targets(t), f) = Matrix!Cardinality({g \in Matrix!Targets(t) : g <= f})
    BY SameCardinality DEF Rank
  <2>10. Matrix!MayStart(f)
    <3> HIDE DEF m, f
    <3> QED BY <2>7, <2>8, <2>9 DEF Matrix!MayStart
  <2>11. started' = started \cup {f} /\ finished' = finished
    BY <1>3, <2>3 DEF RunTarget, StartFlow
  <2> HIDE DEF f
  <2> QED BY <2>3, <2>10, <2>11 DEF Matrix!Next, Matrix!Run
<1>4. CASE RunFlow
  <2> DEFINE f == NextSource(el).flow
  <2>1. SourcePending(el) /\ NextSource(el).kind = "flow" /\ finished' = finished
        /\ StartFlow(TakeSource(el), f)
    BY <1>4 DEF RunFlow
  <2>2. f \in Flows /\ TriggeredBy[f] = NoTrigger
    BY <2>1, <1>2, NextDue
  <2> HIDE DEF f
  <2>3. Matrix!MayStart(f)
    BY <2>2 DEF Matrix!MayStart
  <2>4. CASE f \in started
    BY <2>1, <2>4 DEF StartFlow
  <2>5. CASE f \notin started
    <3>1. started' = started \cup {f}
      BY <2>1, <2>5 DEF StartFlow
    <3> QED BY <3>1, <2>1, <2>2, <2>3, <2>5 DEF Matrix!Next, Matrix!Run
  <2> QED BY <2>4, <2>5
<1>5. CASE RunAck
  <2> DEFINE f == NextSource(el).flow
  <2>1. SourcePending(el) /\ NextSource(el).kind = "ack" /\ started' = started
    BY <1>5 DEF RunAck
  <2>2. f \in started
    BY <2>1, <1>2, NextDue
  <2>3. CASE f \in finished
    BY <1>5, <2>1, <2>3 DEF RunAck
  <2>4. CASE f \notin finished
    <3>1. finished' = finished \cup {f}
      BY <1>5, <2>4 DEF RunAck, FinishFlow
    <3> HIDE DEF f
    <3> QED BY <3>1, <2>1, <2>2, <2>4, <1>2 DEF Matrix!Next, Matrix!Finish
  <2> QED BY <2>3, <2>4
<1>6. CASE RunScanner
  BY <1>6 DEF RunScanner
<1>7. CASE UNCHANGED vars
  BY <1>7 DEF vars
<1> QED BY <1>3, <1>4, <1>5, <1>6, <1>7 DEF Next

(* The flows obey the traffic matrix: a flow starts once, when the matrix  *)
(* lets it, and finishes once.                                             *)
THEOREM FlowsObeyMatrix == Spec => MatrixSpec
<1>1. Init => Matrix!Init
  BY DEF Init, Matrix!Init
<1>2. IInv /\ [Next]_vars => [Matrix!Next]_(Matrix!gvars)
  BY MatrixStep
<1> QED BY <1>1, <1>2, TriggerInvariant, PTL DEF Spec, MatrixSpec, Matrix!Spec
=============================================================================
