------------------------ MODULE CompositeQueueProofs ------------------------
(***************************************************************************)
(* Proofs about CompositeQueue, for all packet sizes, weights, limits and  *)
(* periods: while flows are active the two clocks of the queue are never   *)
(* confused, its link is work conserving, and no class of it starves.      *)
(***************************************************************************)
EXTENDS CompositeQueue, LoopsProofs, FiniteSetTheorems, SequenceTheorems, TLAPS

QState ==
  [low : [{0, 1} -> Seq(DataSizes)], lowBytes : [{0, 1} -> Int],
   high : Seq(Kinds), highBytes : Int, serv : {"INVALID", "LOW", "HIGH"},
   crt : Int, weightCnt : Int, phantom : Int, firstTime : BOOLEAN,
   phantomNext : -1 .. PhantomDrain]

\* The link serves a class that has a packet, and none only if there is none.
Working(s) ==
  /\ s.serv = "INVALID" <=> Empty(s)
  /\ s.serv = "HIGH" => s.high # <<>>
  /\ s.serv = "LOW" => ~LowEmpty(s)

\* The clocks of s and t are the same, and so is the service in progress.
SameClock(s, t) ==
  t.serv = s.serv /\ t.firstTime = s.firstTime /\ t.phantomNext = s.phantomNext
SamePackets(s, t) == t.low = s.low /\ t.high = s.high

\* The phantom clock has started and stands at a time to come, or has not.
ClockSound(s) ==
  IF s.firstTime THEN s.phantomNext = -1 ELSE UsePhantom => s.phantomNext >= 0

\* The event list when the phantom clock is that of s and a service ends in
\* e, or none is in progress: e = -1.
OwedBy(s, d) == IF UsePhantom /\ ~s.firstTime /\ d = s.phantomNext THEN 1 ELSE 0
EndsAt(e, d) == IF d = e THEN 1 ELSE 0
Events(s, e) == [d \in 0 .. Horizon |-> OwedBy(s, d) + EndsAt(e, d)]
Ends(s) == IF s.serv = "INVALID" THEN {-1} ELSE 0 .. Horizon

IInv ==
  /\ q \in QState /\ Working(q) /\ ClockSound(q)
  /\ \E e \in Ends(q) : pending = Events(q, e)

-----------------------------------------------------------------------------
(* Operators.                                                              *)

LEMMA MinOfTwo ==
  ASSUME NEW a \in Int, NEW b \in Int PROVE Min({a, b}) \in {a, b}
<1>1. \E x \in {a, b} : \A y \in {a, b} : x =< y
  OBVIOUS
<1> QED
  BY <1>1, Zenon DEF Min

LEMMA MaxOfTwo ==
  ASSUME NEW a \in Int, NEW b \in Int
  PROVE /\ Max({a, b}) \in {a, b}
        /\ Max({a, b}) >= a /\ Max({a, b}) >= b
<1>1. \E x \in {a, b} : \A y \in {a, b} : x >= y
  OBVIOUS
<1>2. /\ Max({a, b}) \in {a, b}
      /\ \A y \in {a, b} : Max({a, b}) >= y
  BY <1>1, Zenon DEF Max
<1> QED
  BY <1>2

LEMMA Sizes ==
  /\ DataSizes \subseteq 1 .. Horizon
  /\ HeaderSize \in 1 .. Horizon /\ PhantomDrain \in 1 .. Horizon
  /\ PhantomStep \in Nat /\ PhantomSize \in Nat /\ Horizon \in Nat
BY CompositeAssumption

LEMMA QUpdate ==
  ASSUME NEW s \in QState,
         NEW lo \in [{0, 1} -> Seq(DataSizes)], NEW lb \in [{0, 1} -> Int],
         NEW hi \in Seq(Kinds), NEW hb \in Int
  PROVE  /\ [s EXCEPT !.low = lo, !.lowBytes = lb] \in QState
         /\ [s EXCEPT !.high = hi, !.highBytes = hb] \in QState
BY DEF QState

LEMMA AddPhantomFacts ==
  ASSUME NEW s \in QState, NEW n \in Int
  PROVE  /\ AddPhantom(n, s) \in QState
         /\ SameClock(s, AddPhantom(n, s)) /\ SamePackets(s, AddPhantom(n, s))
<1> DEFINE v == Min({s.phantom + n, PhantomSize})
<1>1. v \in Int
  <2>1. PICK a \in Int, b \in Int : a = s.phantom + n /\ b = PhantomSize
    BY Sizes DEF QState
  <2> QED
    BY <2>1, MinOfTwo
<1>2. AddPhantom(n, s) = [s EXCEPT !.phantom = v]
  BY DEF AddPhantom
<1> HIDE DEF v
<1> QED
  BY <1>1, <1>2 DEF QState, SameClock, SamePackets

LEMMA InSeriesFacts ==
  ASSUME NEW s \in QState, NEW n \in Int
  PROVE  /\ NotInSeries(n, s) \in QState /\ SameClock(s, NotInSeries(n, s))
         /\ SamePackets(s, NotInSeries(n, s))
         /\ OnlyInSeries(n, s) \in QState /\ SameClock(s, OnlyInSeries(n, s))
         /\ SamePackets(s, OnlyInSeries(n, s))
<1>1. SameClock(s, s) /\ SamePackets(s, s)
  BY DEF SameClock, SamePackets
<1> QED
  BY <1>1, AddPhantomFacts DEF NotInSeries, OnlyInSeries

LEMMA HeadIsSize ==
  ASSUME NEW s \in QState, NEW i \in Waiting(s)
  PROVE  /\ i \in {0, 1} /\ Head(s.low[i]) \in DataSizes
         /\ Tail(s.low[i]) \in Seq(DataSizes)
<1>1. i \in {0, 1} /\ s.low[i] \in Seq(DataSizes) /\ s.low[i] # <<>>
  BY DEF Waiting, QState
<1> QED
  BY <1>1, HeadTailProperties

LEMMA SomeWaits ==
  ASSUME NEW s, ~LowEmpty(s)
  PROVE  Waiting(s) # {}
BY DEF LowEmpty, Waiting

LEMMA MinDrainType ==
  ASSUME NEW s \in QState, ~LowEmpty(s)
  PROVE  MinDrain(s) \in DataSizes
<1> DEFINE H == {Head(s.low[i]) : i \in Waiting(s)}
<1>1. Waiting(s) \in {{0}, {1}, {0, 1}}
  BY SomeWaits DEF Waiting
<1>2. \A i \in Waiting(s) : Head(s.low[i]) \in DataSizes
  BY HeadIsSize
<1>3. \E a \in DataSizes, b \in DataSizes : H = {a, b}
  <2>1. CASE Waiting(s) = {0}
    BY <1>2, <2>1
  <2>2. CASE Waiting(s) = {1}
    BY <1>2, <2>2
  <2>3. CASE Waiting(s) = {0, 1}
    BY <1>2, <2>3
  <2> QED
    BY <1>1, <2>1, <2>2, <2>3
<1>4. PICK a \in DataSizes, b \in DataSizes : H = {a, b}
  BY <1>3
<1>5. Min({a, b}) \in {a, b}
  BY MinOfTwo, Sizes
<1> QED
  BY <1>4, <1>5 DEF MinDrain

LEMMA BeginServiceFacts ==
  ASSUME NEW s \in QState, ~Empty(s), ClockSound(s)
  PROVE  /\ BeginService(s).state \in QState
         /\ Working(BeginService(s).state) /\ ClockSound(BeginService(s).state)
         /\ BeginService(s).state.serv # "INVALID"
         /\ BeginService(s).state.firstTime = s.firstTime
         /\ BeginService(s).state.phantomNext = s.phantomNext
         /\ BeginService(s).delay \in 0 .. Horizon
<1> DEFINE c == IF Contended(s) THEN NextTurn(s) ELSE s.crt
           v == IF ServesHigh(s) THEN "HIGH" ELSE "LOW"
           t == [s EXCEPT !.crt = c, !.serv = v]
<1>1. BeginService(s).state = t
  BY DEF BeginService, QState
<1>2. c \in Int
  BY DEF NextTurn, QState
<1> HIDE DEF c
<1>3. t \in QState /\ t.serv = v /\ t.low = s.low /\ t.high = s.high
      /\ t.firstTime = s.firstTime /\ t.phantomNext = s.phantomNext
  BY <1>2 DEF QState
<1>4. v = "HIGH" => s.high # <<>>
  BY DEF ServesHigh
<1>5. v = "LOW" => ~LowEmpty(s)
  BY DEF ServesHigh, Empty
<1>6. Working(t) /\ ClockSound(t)
  BY <1>3, <1>4, <1>5 DEF Working, ClockSound, Empty, LowEmpty
<1>7. BeginService(s).delay \in 0 .. Horizon
  <2>1. CASE ServesHigh(s)
    BY <2>1, Sizes DEF BeginService
  <2>2. CASE ~ServesHigh(s)
    <3>1. MinDrain(s) \in DataSizes
      BY <1>5, <2>2, MinDrainType
    <3> QED
      BY <2>2, <3>1, Sizes DEF BeginService
  <2> QED
    BY <2>1, <2>2
<1> QED
  BY <1>1, <1>3, <1>6, <1>7

LEMMA SameClockTransitive ==
  ASSUME NEW r, NEW s, NEW t, SameClock(r, s), SameClock(s, t)
  PROVE  SameClock(r, t)
BY DEF SameClock

LEMMA PopLowFacts ==
  ASSUME NEW s \in QState, ~LowEmpty(s)
  PROVE  PopLowQueue(s) \in QState /\ SameClock(s, PopLowQueue(s))
<1>1. NextLow(s) \in Waiting(s)
  <2>1. CASE Waiting(s) = {0, 1}
    BY <2>1 DEF NextLow
  <2>2. CASE Waiting(s) # {0, 1}
    BY <2>2, SomeWaits, Zenon DEF NextLow
  <2> QED
    BY <2>1, <2>2
<1>2. PICK i \in Waiting(s) : i = NextLow(s)
  BY <1>1
<1>3. i \in {0, 1} /\ Head(s.low[i]) \in DataSizes /\ Tail(s.low[i]) \in Seq(DataSizes)
  BY HeadIsSize
<1>4. PICK h \in Int : h = Head(s.low[i])
  <2>1. DataSizes \subseteq Int
    BY Sizes
  <2> QED
    BY <1>3, <2>1, Zenon
<1> DEFINE lo == [s.low EXCEPT ![i] = Tail(s.low[i])]
           lb == [s.lowBytes EXCEPT ![i] = @ - h]
           w == IF Waiting(s) = {0, 1} THEN (s.weightCnt + 1) % 2 ELSE s.weightCnt
           t == [s EXCEPT !.low = lo, !.lowBytes = lb, !.weightCnt = w]
<1>5. PopLowQueue(s) = OnlyInSeries(h, t)
  BY <1>2, <1>4 DEF PopLowQueue, QState
<1>6. lo \in [{0, 1} -> Seq(DataSizes)]
  BY <1>3 DEF QState
<1>7. lb \in [{0, 1} -> Int]
  <2>1. i \in {0, 1} /\ s.lowBytes \in [{0, 1} -> Int]
    BY <1>3 DEF QState
  <2>2. s.lowBytes[i] - h \in Int
    BY <2>1
  <2> QED
    BY <2>1, <2>2, Zenon
<1>8. w \in Int
  BY DEF QState
<1> HIDE DEF lo, lb, w
<1>9. t \in QState /\ SameClock(s, t)
  BY <1>6, <1>7, <1>8 DEF QState, SameClock
<1> HIDE DEF t
<1>10. OnlyInSeries(h, t) \in QState /\ SameClock(t, OnlyInSeries(h, t))
  BY <1>4, <1>9, InSeriesFacts
<1> QED
  BY <1>5, <1>9, <1>10, SameClockTransitive

LEMMA PopHighFacts ==
  ASSUME NEW s \in QState, s.high # <<>>
  PROVE  PopHigh(s) \in QState /\ SameClock(s, PopHigh(s))
<1> DEFINE hi == Tail(s.high)
           hb == s.highBytes - HeaderSize
           t == [s EXCEPT !.high = hi, !.highBytes = hb]
           u == OnlyInSeries(PhantomStep, t)
<1>1. hi \in Seq(Kinds) /\ hb \in Int
  BY HeadTailProperties, Sizes DEF QState
<1>2. PopHigh(s) = t \/ PopHigh(s) = u
  BY DEF PopHigh, QState
<1> HIDE DEF hi, hb
<1>3. t \in QState /\ SameClock(s, t)
  BY <1>1 DEF QState, SameClock
<1> HIDE DEF t
<1>4. u \in QState /\ SameClock(t, u)
  BY <1>3, InSeriesFacts, Sizes
<1> HIDE DEF u
<1> QED
  BY <1>2, <1>3, <1>4, SameClockTransitive

-----------------------------------------------------------------------------
(* The event list.                                                         *)

LEMMA EventsType ==
  ASSUME NEW s, NEW e
  PROVE  Events(s, e) \in [0 .. Horizon -> 0 .. 2]
BY DEF Events, OwedBy, EndsAt

\* An update of one value, point by point.
LEMMA UpdateIs ==
  ASSUME NEW f, NEW g, NEW d, NEW n,
         f = [x \in 0 .. Horizon |-> f[x]], g = [x \in 0 .. Horizon |-> g[x]],
         \A x \in 0 .. Horizon : g[x] = IF x = d THEN n ELSE f[x]
  PROVE  [f EXCEPT ![d] = n] = g
OBVIOUS

LEMMA EventsAt ==
  ASSUME NEW s, NEW e
  PROVE  /\ Events(s, e) = [x \in 0 .. Horizon |-> Events(s, e)[x]]
         /\ \A x \in 0 .. Horizon :
              /\ Events(s, e)[x] = OwedBy(s, x) + EndsAt(e, x)
              /\ OwedBy(s, x) \in 0 .. 1 /\ EndsAt(e, x) \in 0 .. 1
BY DEF Events, OwedBy, EndsAt

LEMMA SchedService ==
  ASSUME NEW s, NEW d \in 0 .. Horizon
  PROVE  Sched(Events(s, -1), d) = Events(s, d)
<1> DEFINE n == Events(s, -1)[d] + 1
<1>1. ASSUME NEW x \in 0 .. Horizon
      PROVE  Events(s, d)[x] = IF x = d THEN n ELSE Events(s, -1)[x]
  BY EventsAt DEF EndsAt
<1>2. [Events(s, -1) EXCEPT ![d] = n] = Events(s, d)
  <2> DEFINE f == Events(s, -1)
             g == Events(s, d)
  <2>1. f = [x \in 0 .. Horizon |-> f[x]] /\ g = [x \in 0 .. Horizon |-> g[x]]
    BY EventsAt
  <2>2. \A x \in 0 .. Horizon : g[x] = IF x = d THEN n ELSE f[x]
    BY <1>1
  <2> HIDE DEF n, f, g
  <2>3. [f EXCEPT ![d] = n] = g
    BY <2>1, <2>2, UpdateIs
  <2> QED
    BY <2>3 DEF f, g
<1> QED
  BY <1>2 DEF Sched

LEMMA EventsSameClock ==
  ASSUME NEW s, NEW t, NEW e, t.firstTime = s.firstTime, t.phantomNext = s.phantomNext
  PROVE  Events(t, e) = Events(s, e)
BY DEF Events, OwedBy

\* The end of a service is taken from the list.
LEMMA ServiceEnds ==
  ASSUME NEW s, OwedBy(s, 0) = 0
  PROVE  [Events(s, 0) EXCEPT ![0] = @ - 1] = Events(s, -1)
<1> DEFINE n == Events(s, 0)[0] - 1
<1>1. ASSUME NEW x \in 0 .. Horizon
      PROVE  Events(s, -1)[x] = IF x = 0 THEN n ELSE Events(s, 0)[x]
  BY EventsAt, Sizes DEF EndsAt
<1>2. [Events(s, 0) EXCEPT ![0] = n] = Events(s, -1)
  <2> DEFINE f == Events(s, 0)
             g == Events(s, -1)
  <2>1. f = [x \in 0 .. Horizon |-> f[x]] /\ g = [x \in 0 .. Horizon |-> g[x]]
    BY EventsAt
  <2>2. \A x \in 0 .. Horizon : g[x] = IF x = 0 THEN n ELSE f[x]
    BY <1>1
  <2> HIDE DEF n, f, g
  <2>3. [f EXCEPT ![0] = n] = g
    BY <2>1, <2>2, UpdateIs
  <2> QED
    BY <2>3 DEF f, g
<1> QED
  BY <1>2

\* A tick is taken from the list and the next one put there.
LEMMA ClockTicks ==
  ASSUME NEW s, NEW t, NEW e, UsePhantom, ~s.firstTime, ~t.firstTime,
         s.phantomNext = 0, t.phantomNext = PhantomDrain
  PROVE  Sched([Events(s, e) EXCEPT ![0] = @ - 1], PhantomDrain) = Events(t, e)
<1> DEFINE rest == [x \in 0 .. Horizon |-> EndsAt(e, x)]
           n == Events(s, e)[0] - 1
           m == rest[PhantomDrain] + 1
<1>1. ASSUME NEW x \in 0 .. Horizon
      PROVE  rest[x] = IF x = 0 THEN n ELSE Events(s, e)[x]
  <2>1. OwedBy(s, x) = IF x = 0 THEN 1 ELSE 0
    BY DEF OwedBy
  <2>2. OwedBy(s, 0) = 1
    BY DEF OwedBy
  <2> QED
    BY <2>1, <2>2, EventsAt, Sizes
<1>2. ASSUME NEW x \in 0 .. Horizon
      PROVE  Events(t, e)[x] = IF x = PhantomDrain THEN m ELSE rest[x]
  <2>1. OwedBy(t, x) = IF x = PhantomDrain THEN 1 ELSE 0
    BY DEF OwedBy
  <2> QED
    BY <2>1, EventsAt, Sizes
<1>3. rest = [x \in 0 .. Horizon |-> rest[x]]
  OBVIOUS
<1> HIDE DEF rest
<1>4. [Events(s, e) EXCEPT ![0] = n] = rest
  <2> DEFINE f == Events(s, e)
             g == rest
  <2>1. f = [x \in 0 .. Horizon |-> f[x]] /\ g = [x \in 0 .. Horizon |-> g[x]]
    BY EventsAt, <1>3
  <2>2. \A x \in 0 .. Horizon : g[x] = IF x = 0 THEN n ELSE f[x]
    BY <1>1
  <2> HIDE DEF n, f, g
  <2>3. [f EXCEPT ![0] = n] = g
    BY <2>1, <2>2, UpdateIs
  <2> QED
    BY <2>3 DEF f, g
<1>5. [rest EXCEPT ![PhantomDrain] = m] = Events(t, e)
  <2> HIDE DEF m
  <2> QED
    BY <1>2, <1>3, EventsAt, UpdateIs
<1> QED
  BY <1>4, <1>5 DEF Sched

\* The first tick is put there.
LEMMA ClockStarts ==
  ASSUME NEW s, NEW t, NEW e, UsePhantom, s.firstTime, ~t.firstTime,
         t.phantomNext = PhantomDrain
  PROVE  Sched(Events(s, e), PhantomDrain) = Events(t, e)
<1> DEFINE n == Events(s, e)[PhantomDrain] + 1
<1>1. ASSUME NEW x \in 0 .. Horizon
      PROVE  Events(t, e)[x] = IF x = PhantomDrain THEN n ELSE Events(s, e)[x]
  <2>1. OwedBy(t, x) = IF x = PhantomDrain THEN 1 ELSE 0
    BY DEF OwedBy
  <2>2. OwedBy(s, x) = 0 /\ OwedBy(s, PhantomDrain) = 0
    BY DEF OwedBy
  <2> QED
    BY <2>1, <2>2, EventsAt, Sizes
<1>2. [Events(s, e) EXCEPT ![PhantomDrain] = n] = Events(t, e)
  <2> DEFINE f == Events(s, e)
             g == Events(t, e)
  <2>1. f = [x \in 0 .. Horizon |-> f[x]] /\ g = [x \in 0 .. Horizon |-> g[x]]
    BY EventsAt
  <2>2. \A x \in 0 .. Horizon : g[x] = IF x = PhantomDrain THEN n ELSE f[x]
    BY <1>1
  <2> HIDE DEF n, f, g
  <2>3. [f EXCEPT ![PhantomDrain] = n] = g
    BY <2>1, <2>2, UpdateIs
  <2> QED
    BY <2>3 DEF f, g
<1> QED
  BY <1>2 DEF Sched

Later(e) == IF e = -1 THEN -1 ELSE e - 1

\* Every event comes nearer when time passes.
LEMMA TimePasses ==
  ASSUME NEW s \in QState, NEW t, NEW e \in -1 .. Horizon, Events(s, e)[0] = 0,
         t.firstTime = s.firstTime, t.phantomNext = Max({s.phantomNext - 1, -1}),
         UsePhantom /\ ~s.firstTime => s.phantomNext >= 0
  PROVE  /\ [d \in 0 .. Horizon |-> IF d = Horizon THEN 0 ELSE Events(s, e)[d + 1]]
              = Events(t, Later(e))
         /\ t.phantomNext \in -1 .. PhantomDrain
         /\ UsePhantom /\ ~t.firstTime => t.phantomNext >= 0
         /\ e # 0
<1>1. s.phantomNext \in -1 .. PhantomDrain
  BY DEF QState
<1>2. t.phantomNext = IF s.phantomNext = -1 THEN -1 ELSE s.phantomNext - 1
  <2>1. PICK a \in Int, b \in Int : a = s.phantomNext - 1 /\ b = -1
    BY <1>1
  <2>2. /\ Max({a, b}) \in {a, b} /\ Max({a, b}) >= a /\ Max({a, b}) >= b
    BY MaxOfTwo
  <2>3. t.phantomNext = Max({a, b})
    BY <2>1
  <2> QED
    BY <1>1, <2>1, <2>2, <2>3
<1>3. Events(s, e)[0] = OwedBy(s, 0) + EndsAt(e, 0)
  BY Sizes DEF Events
<1>4. OwedBy(s, 0) = 0 /\ EndsAt(e, 0) = 0
  BY <1>3 DEF OwedBy, EndsAt
<1>5. e # 0 /\ (UsePhantom /\ ~s.firstTime => s.phantomNext # 0)
  BY <1>4 DEF OwedBy, EndsAt
<1>6. ASSUME NEW d \in 0 .. Horizon
      PROVE  Events(t, Later(e))[d] = IF d = Horizon THEN 0 ELSE Events(s, e)[d + 1]
  <2>1. Events(t, Later(e))[d] = OwedBy(t, d) + EndsAt(Later(e), d)
    BY DEF Events
  <2>2. CASE d = Horizon
    <3>1. OwedBy(t, d) = 0
      BY <2>2, <1>1, <1>2, Sizes DEF OwedBy
    <3>2. EndsAt(Later(e), d) = 0
      BY <2>2, Sizes DEF EndsAt, Later
    <3> QED
      BY <2>1, <2>2, <3>1, <3>2
  <2>3. CASE d # Horizon
    <3>1. d + 1 \in 0 .. Horizon
      BY <2>3, Sizes
    <3>2. Events(s, e)[d + 1] = OwedBy(s, d + 1) + EndsAt(e, d + 1)
      BY <3>1 DEF Events
    <3>3. OwedBy(t, d) = OwedBy(s, d + 1)
      BY <1>1, <1>2, <1>5 DEF OwedBy
    <3>4. EndsAt(Later(e), d) = EndsAt(e, d + 1)
      BY <1>5 DEF EndsAt, Later
    <3> QED
      BY <2>1, <2>3, <3>2, <3>3, <3>4
  <2> QED
    BY <2>2, <2>3
<1>7. Events(t, Later(e)) = [d \in 0 .. Horizon |-> Events(t, Later(e))[d]]
  BY DEF Events
<1> HIDE DEF Later
<1>8. [d \in 0 .. Horizon |-> IF d = Horizon THEN 0 ELSE Events(s, e)[d + 1]]
        = Events(t, Later(e))
  BY <1>6, <1>7, Zenon
<1>9. /\ t.phantomNext \in -1 .. PhantomDrain
      /\ UsePhantom /\ ~t.firstTime => t.phantomNext >= 0
  BY <1>1, <1>2, <1>5, Sizes
<1> QED
  BY <1>5, <1>8, <1>9

-----------------------------------------------------------------------------
(* The steps.                                                              *)

LEMMA DecreasePhantomFacts ==
  ASSUME NEW s \in QState
  PROVE  /\ DecreasePhantom(s) \in QState /\ SamePackets(s, DecreasePhantom(s))
         /\ DecreasePhantom(s).serv = s.serv
         /\ DecreasePhantom(s).firstTime = s.firstTime
         /\ DecreasePhantom(s).phantomNext = PhantomDrain
<1> DEFINE v == Max({s.phantom - PhantomStep, 0})
<1>1. v \in Int
  <2>1. PICK a \in Int, b \in Int : a = s.phantom - PhantomStep /\ b = 0
    BY Sizes DEF QState
  <2> QED
    BY <2>1, MaxOfTwo
<1>2. DecreasePhantom(s) = [s EXCEPT !.phantom = v, !.phantomNext = PhantomDrain]
  BY DEF DecreasePhantom
<1>3. PhantomDrain \in -1 .. PhantomDrain
  BY Sizes
<1> DEFINE t == [s EXCEPT !.phantom = v, !.phantomNext = PhantomDrain]
<1> HIDE DEF v
<1>4. t \in QState /\ t.low = s.low /\ t.high = s.high /\ t.serv = s.serv
      /\ t.firstTime = s.firstTime /\ t.phantomNext = PhantomDrain
  BY <1>1, <1>3 DEF QState
<1> QED
  BY <1>2, <1>4 DEF SamePackets

LEMMA WorkingSame ==
  ASSUME NEW s, NEW t, Working(s), SamePackets(s, t), t.serv = s.serv
  PROVE  Working(t)
BY DEF Working, SamePackets, Empty, LowEmpty

\* A packet more in the queue: the link is woken if it was idle.
LEMMA ServeKeeps ==
  ASSUME IInv, NEW s \in QState, SameClock(q, s), ~Empty(s),
         q.high # <<>> => s.high # <<>>, ~LowEmpty(q) => ~LowEmpty(s),
         Serve(s, pending)
  PROVE  IInv'
<1>1. PICK e \in Ends(q) : pending = Events(q, e)
  BY DEF IInv
<1>2. ClockSound(s) /\ s.firstTime = q.firstTime /\ s.phantomNext = q.phantomNext
      /\ s.serv = q.serv
  BY DEF IInv, ClockSound, SameClock
<1>3. pending = Events(s, e)
  BY <1>1, <1>2, EventsSameClock
<1>4. CASE Begins(s)
  <2>1. e = -1
    BY <1>1, <1>2, <1>4 DEF Begins, Ends
  <2>2. PICK b : b = BeginService(s)
    OBVIOUS
  <2>3. q' = b.state /\ pending' = Sched(pending, b.delay)
    BY <1>4, <2>2 DEF Serve
  <2>4. /\ q' \in QState /\ Working(q') /\ ClockSound(q') /\ q'.serv # "INVALID"
        /\ q'.firstTime = s.firstTime /\ q'.phantomNext = s.phantomNext
        /\ b.delay \in 0 .. Horizon
    BY <1>2, <2>2, <2>3, BeginServiceFacts
  <2>5. pending' = Events(s, b.delay)
    BY <1>3, <2>1, <2>3, <2>4, SchedService
  <2>6. pending' = Events(q', b.delay)
    BY <2>4, <2>5, EventsSameClock
  <2>7. b.delay \in Ends(q')
    BY <2>4 DEF Ends
  <2> QED
    BY <2>4, <2>6, <2>7 DEF IInv
<1>5. CASE ~Begins(s)
  <2>1. q' = s /\ pending' = pending
    BY <1>5 DEF Serve
  <2>2. s.serv # "INVALID"
    BY <1>5 DEF Begins
  <2>3. Working(s)
    BY <1>2, <2>2 DEF IInv, Working
  <2>4. e \in Ends(q')
    BY <1>1, <1>2, <2>1 DEF Ends
  <2> QED
    BY <1>2, <1>3, <2>1, <2>3, <2>4 DEF IInv
<1> QED
  BY <1>4, <1>5

LEMMA ReceiveDataKeeps ==
  ASSUME IInv, NEW i \in {0, 1}, NEW size \in DataSizes, ReceiveData(i, size)
  PROVE  IInv'
<1> USE DEF IInv
<1>0. size \in Int
  BY Sizes
<1>1. CASE q.lowBytes[i] + size <= MaxSize
  <2> DEFINE lo == [q.low EXCEPT ![i] = Append(@, size)]
             lb == [q.lowBytes EXCEPT ![i] = @ + size]
             s == [q EXCEPT !.low = lo, !.lowBytes = lb]
             t == NotInSeries(size, s)
  <2>1. Serve(t, pending)
    <3>1. s = [q EXCEPT !.low[i] = Append(@, size), !.lowBytes[i] = @ + size]
      BY DEF QState
    <3> QED
      BY <1>1, <3>1 DEF ReceiveData
  <2>2. lo \in [{0, 1} -> Seq(DataSizes)] /\ lo[i] # <<>>
        /\ \A j \in {0, 1} : j # i => lo[j] = q.low[j]
    <3>1. q.low \in [{0, 1} -> Seq(DataSizes)]
      BY DEF QState
    <3>2. q.low[i] \in Seq(DataSizes)
      BY <3>1
    <3>3. Append(q.low[i], size) \in Seq(DataSizes) /\ Append(q.low[i], size) # <<>>
      BY <3>2, AppendProperties
    <3> QED
      BY <3>1, <3>3, Zenon
  <2>3. lb \in [{0, 1} -> Int]
    <3>1. q.lowBytes \in [{0, 1} -> Int]
      BY DEF QState
    <3>2. q.lowBytes[i] + size \in Int
      BY <1>0, <3>1
    <3> QED
      BY <3>1, <3>2, Zenon
  <2> HIDE DEF lo, lb
  <2>4. s \in QState /\ SameClock(q, s) /\ s.low = lo /\ s.high = q.high
    BY <2>2, <2>3 DEF QState, SameClock
  <2> HIDE DEF s
  <2>5. t \in QState /\ SameClock(s, t) /\ SamePackets(s, t)
    BY <1>0, <2>4, InSeriesFacts
  <2>6. SameClock(q, t)
    BY <2>4, <2>5, SameClockTransitive
  <2>7. t.low = lo /\ t.high = q.high
    BY <2>4, <2>5 DEF SamePackets
  <2>8. ~LowEmpty(t) /\ ~Empty(t)
    BY <2>2, <2>7 DEF LowEmpty, Empty
  <2> HIDE DEF t
  <2> QED
    BY <2>1, <2>5, <2>6, <2>7, <2>8, ServeKeeps
<1>2. CASE ~(q.lowBytes[i] + size <= MaxSize)
  <2>1. q' = NotInSeries(size, q) /\ pending' = pending
    BY <1>2 DEF ReceiveData
  <2>2. q' \in QState /\ SameClock(q, q') /\ SamePackets(q, q')
    BY <1>0, <2>1, InSeriesFacts
  <2>3. Working(q') /\ ClockSound(q') /\ Ends(q') = Ends(q)
    BY <2>2, WorkingSame DEF SameClock, ClockSound, Ends
  <2>4. \A e \in Ends(q) : Events(q', e) = Events(q, e)
    BY <2>2, EventsSameClock DEF SameClock
  <2> QED
    BY <2>1, <2>2, <2>3, <2>4
<1> QED
  BY <1>1, <1>2

LEMMA ReceiveHeaderKeeps ==
  ASSUME IInv, NEW kind \in Kinds, ReceiveHeader(kind)
  PROVE  IInv'
<1> DEFINE hi == Append(q.high, kind)
           hb == q.highBytes + HeaderSize
           s == [q EXCEPT !.high = hi, !.highBytes = hb]
<1>1. Serve(s, pending)
  BY DEF ReceiveHeader
<1>2. hi \in Seq(Kinds) /\ hi # <<>> /\ hb \in Int
  <2>1. q.high \in Seq(Kinds) /\ q.highBytes \in Int
    BY DEF IInv, QState
  <2> QED
    BY <2>1, AppendProperties, Sizes
<1> HIDE DEF hi, hb
<1>3. s \in QState /\ SameClock(q, s) /\ s.low = q.low /\ s.high = hi
  BY <1>2 DEF IInv, QState, SameClock
<1> HIDE DEF s
<1>4. ~Empty(s) /\ (~LowEmpty(q) => ~LowEmpty(s))
  BY <1>2, <1>3 DEF Empty, LowEmpty
<1> QED
  BY <1>1, <1>2, <1>3, <1>4, ServeKeeps

LEMMA CompleteServiceKeeps ==
  ASSUME IInv, FlowsActive, pending[0] > 0, ~IsTick(q),
         CompleteService([pending EXCEPT ![0] = @ - 1])
  PROVE  IInv'
<1> DEFINE p == [pending EXCEPT ![0] = @ - 1]
           popped == IF q.serv = "LOW" THEN PopLowQueue(q) ELSE PopHigh(q)
           idle == [popped EXCEPT !.serv = "INVALID"]
           b == BeginService(idle)
           next == IF Begins(idle) THEN b ELSE [state |-> idle, delay |-> 0]
           served == IF Begins(idle) THEN Sched(p, next.delay) ELSE p
<1>1. /\ q' = IF StartsClock THEN DecreasePhantom([next.state EXCEPT !.firstTime = FALSE])
                             ELSE next.state
      /\ pending' = IF StartsClock THEN Sched(served, PhantomDrain) ELSE served
  BY Zenon DEF CompleteService, ArmPhantom
<1>2. PICK e \in Ends(q) : pending = Events(q, e)
  BY DEF IInv
<1>3. OwedBy(q, 0) = 0
  BY DEF OwedBy, IsTick
<1>4. e = 0
  BY <1>2, <1>3, EventsAt, Sizes DEF EndsAt
<1>5. q.serv # "INVALID" /\ p = Events(q, -1)
  BY <1>2, <1>3, <1>4, ServiceEnds DEF Ends
<1>6. popped \in QState /\ SameClock(q, popped)
  <2>1. q \in QState /\ q.serv \in {"LOW", "HIGH"} /\ Working(q)
    BY <1>5 DEF IInv, QState
  <2>2. CASE q.serv = "LOW"
    BY <2>1, <2>2, PopLowFacts DEF Working
  <2>3. CASE q.serv = "HIGH"
    BY <2>1, <2>3, PopHighFacts DEF Working
  <2> QED
    BY <2>1, <2>2, <2>3
<1> HIDE DEF popped
<1>7. /\ idle \in QState /\ idle.serv = "INVALID" /\ ClockSound(idle)
      /\ idle.firstTime = q.firstTime /\ idle.phantomNext = q.phantomNext
  BY <1>6 DEF IInv, QState, SameClock, ClockSound
<1> HIDE DEF idle, p
<1> DEFINE n == next.state
           end == IF Begins(idle) THEN next.delay ELSE -1
<1>8. /\ n \in QState /\ Working(n) /\ ClockSound(n) /\ end \in Ends(n)
      /\ n.firstTime = q.firstTime /\ n.phantomNext = q.phantomNext
      /\ served = Events(n, end)
  <2>1. CASE Begins(idle)
    <3>1. n = b.state /\ next.delay = b.delay /\ end = b.delay
      BY <2>1
    <3>2. /\ n \in QState /\ Working(n) /\ ClockSound(n) /\ n.serv # "INVALID"
          /\ n.firstTime = idle.firstTime /\ n.phantomNext = idle.phantomNext
          /\ end \in 0 .. Horizon
      BY <1>7, <2>1, <3>1, BeginServiceFacts DEF Begins
    <3>3. served = Events(q, end)
      BY <1>5, <2>1, <3>1, <3>2, SchedService
    <3>4. served = Events(n, end) /\ end \in Ends(n)
      BY <1>7, <3>2, <3>3, EventsSameClock DEF Ends
    <3> QED
      BY <1>7, <3>2, <3>4
  <2>2. CASE ~Begins(idle)
    <3>1. n = idle /\ end = -1 /\ served = p
      BY <2>2
    <3>2. Working(idle)
      BY <1>7, <2>2 DEF Begins, Working
    <3>3. Events(idle, -1) = Events(q, -1)
      BY <1>7, EventsSameClock
    <3> QED
      BY <1>5, <1>7, <3>1, <3>2, <3>3 DEF Ends
  <2> QED
    BY <2>1, <2>2
<1>9. n.firstTime \in BOOLEAN /\ end \in Ends(n)
  BY <1>8 DEF QState
<1> HIDE DEF n, end, served
<1>10. /\ q' = IF StartsClock THEN DecreasePhantom([n EXCEPT !.firstTime = FALSE]) ELSE n
       /\ pending' = IF StartsClock THEN Sched(served, PhantomDrain) ELSE served
  BY <1>1 DEF n
<1>11. CASE StartsClock
  <2> DEFINE m == [n EXCEPT !.firstTime = FALSE]
  <2>1. m \in QState /\ SamePackets(n, m) /\ m.serv = n.serv /\ m.firstTime = FALSE
    BY <1>8 DEF QState, SamePackets
  <2>2. q' = DecreasePhantom(m) /\ pending' = Sched(served, PhantomDrain)
    BY <1>10, <1>11
  <2> HIDE DEF m
  <2>3. /\ q' \in QState /\ SamePackets(m, q') /\ q'.serv = n.serv
        /\ q'.firstTime = FALSE /\ q'.phantomNext = PhantomDrain
    BY <2>1, <2>2, DecreasePhantomFacts
  <2>4. Working(q')
    BY <1>8, <2>1, <2>3, WorkingSame
  <2>5. ClockSound(q') /\ Ends(q') = Ends(n)
    BY <2>3, Sizes DEF ClockSound, Ends
  <2>6. pending' = Events(q', end)
    BY <1>8, <1>11, <2>2, <2>3, ClockStarts DEF StartsClock
  <2> QED
    BY <1>9, <2>3, <2>4, <2>5, <2>6 DEF IInv
<1>12. CASE ~StartsClock
  BY <1>8, <1>10, <1>12 DEF IInv
<1> QED
  BY <1>11, <1>12

LEMMA PhantomTickKeeps ==
  ASSUME IInv, FlowsActive, pending[0] > 0, IsTick(q), q' = DecreasePhantom(q),
         pending' = ArmPhantom([pending EXCEPT ![0] = @ - 1])
  PROVE  IInv'
<1>1. PICK e \in Ends(q) : pending = Events(q, e)
  BY DEF IInv
<1>2. /\ q' \in QState /\ SamePackets(q, q') /\ q'.serv = q.serv
      /\ q'.firstTime = q.firstTime /\ q'.phantomNext = PhantomDrain
  BY DecreasePhantomFacts DEF IInv
<1>3. q.firstTime = FALSE
  BY DEF IInv, QState, ClockSound, IsTick
<1>4. Working(q') /\ ClockSound(q') /\ Ends(q') = Ends(q)
  BY <1>2, <1>3, WorkingSame, Sizes DEF IInv, ClockSound, Ends
<1>5. pending' = Events(q', e)
  BY <1>1, <1>2, <1>3, ClockTicks DEF ArmPhantom, IsTick
<1> QED
  BY <1>2, <1>4, <1>5 DEF IInv

LEMMA TickKeeps ==
  ASSUME IInv, Tick
  PROVE  IInv'
<1>1. PICK e \in Ends(q) : pending = Events(q, e)
  BY DEF IInv
<1> DEFINE v == Max({q.phantomNext - 1, -1})
<1>2. q' = [q EXCEPT !.phantomNext = v]
  BY DEF Tick
<1>3. /\ q' = [q EXCEPT !.phantomNext = q'.phantomNext] /\ q'.firstTime = q.firstTime
      /\ q'.phantomNext = v
  BY <1>2 DEF IInv, QState
<1>4. /\ pending' = Events(q', Later(e)) /\ q'.phantomNext \in -1 .. PhantomDrain
      /\ UsePhantom /\ ~q'.firstTime => q'.phantomNext >= 0
      /\ e # 0
  <2>1. e \in -1 .. Horizon
    BY <1>1, Sizes DEF Ends
  <2>2. DOMAIN pending = 0 .. Horizon
    BY <1>1 DEF Events
  <2>3. /\ Events(q, e)[0] = 0
        /\ pending' = [d \in 0 .. Horizon |-> IF d = Horizon THEN 0 ELSE Events(q, e)[d + 1]]
    BY <1>1, <2>2, Zenon DEF Tick
  <2>4. UsePhantom /\ ~q.firstTime => q.phantomNext >= 0
    BY DEF IInv, ClockSound
  <2> HIDE DEF v
  <2> QED
    BY <1>3, <2>1, <2>3, <2>4, TimePasses DEF IInv, v
<1>5. q' \in QState /\ SamePackets(q, q') /\ q'.serv = q.serv
  BY <1>3, <1>4 DEF IInv, QState, SamePackets
<1>6. Later(e) \in Ends(q')
  BY <1>1, <1>4, <1>5, Sizes DEF Ends, Later
<1>7. Working(q')
  BY <1>5, WorkingSame DEF IInv
<1>8. ClockSound(q')
  <2>1. CASE q.firstTime
    <3>1. q.phantomNext = -1
      BY <2>1 DEF IInv, ClockSound
    <3>2. v = -1
      <4>1. PICK a \in Int, c \in Int : a = q.phantomNext - 1 /\ c = -1
        BY <3>1
      <4>2. Max({a, c}) \in {a, c} /\ Max({a, c}) >= c
        BY MaxOfTwo
      <4> QED
        BY <3>1, <4>1, <4>2
    <3> QED
      BY <1>3, <2>1, <3>2 DEF ClockSound
  <2>2. CASE ~q.firstTime
    BY <1>3, <1>4, <2>2 DEF ClockSound
  <2> QED
    BY <2>1, <2>2
<1> QED
  BY <1>4, <1>5, <1>6, <1>7, <1>8 DEF IInv

LEMMA InitEstablishes ==
  ASSUME Init PROVE IInv
<1>1. q \in QState
  <2>1. <<>> \in Seq(DataSizes) /\ <<>> \in Seq(Kinds)
    BY EmptySeq
  <2> DEFINE lo == [i \in {0, 1} |-> <<>>]
  <2>2. lo \in [{0, 1} -> Seq(DataSizes)]
    BY <2>1
  <2>3. -1 \in -1 .. PhantomDrain
    BY Sizes
  <2> QED
    BY <2>1, <2>2, <2>3 DEF Init, QState
<1>2. Working(q) /\ ClockSound(q)
  BY DEF Init, Working, ClockSound, Empty, LowEmpty
<1>3. Events(q, -1) = [d \in 0 .. Horizon |-> 0]
  <2>1. \A d \in 0 .. Horizon : OwedBy(q, d) + EndsAt(-1, d) = 0
    BY DEF Init, OwedBy, EndsAt
  <2> QED
    BY <2>1, Zenon DEF Events
<1> QED
  BY <1>1, <1>2, <1>3 DEF Init, Ends, IInv

LEMMA NextKeeps ==
  ASSUME FlowsActive, IInv, [Next]_vars PROVE IInv'
<1>1. ASSUME NEW i \in {0, 1}, NEW size \in DataSizes, ReceiveData(i, size)
      PROVE  IInv'
  BY <1>1, ReceiveDataKeeps
<1>2. ASSUME NEW kind \in Kinds, ReceiveHeader(kind)
      PROVE  IInv'
  BY <1>2, ReceiveHeaderKeeps
<1>3. CASE DoNextEvent
  <2>1. CASE IsTick(q)
    BY <1>3, <2>1, PhantomTickKeeps DEF DoNextEvent
  <2>2. CASE ~IsTick(q)
    BY <1>3, <2>2, CompleteServiceKeeps DEF DoNextEvent
  <2> QED
    BY <2>1, <2>2
<1>4. CASE Tick
  BY <1>4, TickKeeps
<1>5. CASE UNCHANGED vars
  BY <1>5 DEF vars, IInv, Working, Empty, LowEmpty, ClockSound, Ends, Events, OwedBy
<1> QED
  BY <1>1, <1>2, <1>3, <1>4, <1>5 DEF Next

LEMMA EventsMatchHolds ==
  ASSUME IInv PROVE EventsMatch
<1>1. PICK e \in Ends(q) : pending = Events(q, e)
  BY DEF IInv
<1>2. DOMAIN pending = 0 .. Horizon
  BY <1>1 DEF Events
<1>3. \A d : Owed(d) = OwedBy(q, d)
  BY DEF Owed, OwedBy, Ticking
<1>4. \A d \in 0 .. Horizon :
        pending[d] = Owed(d) + EndsAt(e, d) /\ Owed(d) \in 0 .. 1
  BY <1>1, <1>3, EventsAt
<1>5. Ticking => q.phantomNext >= 0
  BY DEF IInv, ClockSound, Ticking
<1>6. \A d \in DOMAIN pending : pending[d] \in Owed(d) .. Owed(d) + 1
  BY <1>2, <1>4 DEF EndsAt
<1>7. Cardinality(Services) = IF q.serv = "INVALID" THEN 0 ELSE 1
  <2>1. CASE q.serv = "INVALID"
    <3>1. e = -1
      BY <1>1, <2>1 DEF Ends
    <3>2. Services = {}
      BY <1>2, <1>4, <3>1 DEF Services, EndsAt
    <3> QED
      BY <2>1, <3>2, FS_EmptySet
  <2>2. CASE q.serv # "INVALID"
    <3>1. e \in 0 .. Horizon
      BY <1>1, <2>2 DEF Ends
    <3>2. \A d \in 0 .. Horizon : pending[d] > Owed(d) <=> d = e
      BY <1>4 DEF EndsAt
    <3>3. Services = {e}
      BY <1>2, <3>1, <3>2 DEF Services
    <3> QED
      BY <2>2, <3>3, FS_Singleton
  <2> QED
    BY <2>1, <2>2
<1> QED
  BY <1>5, <1>6, <1>7 DEF EventsMatch

-----------------------------------------------------------------------------
(* While a flow is active, the event list holds what the queue believes it
   holds: one event for the service in progress, one for the phantom clock
   (doNextEvent() can tell them apart, and the assert(0) of completeService()
   is not reached). *)
THEOREM ClocksNotConfused ==
  ASSUME FlowsActive PROVE Spec => []EventsMatch
<1>1. Init => IInv
  BY InitEstablishes
<1>2. IInv /\ [Next]_vars => IInv'
  BY NextKeeps
<1>3. IInv => EventsMatch
  BY EventsMatchHolds
<1> QED
  BY <1>1, <1>2, <1>3, PTL DEF Spec

(* While a flow is active, the link is idle only when every queue is empty, and
   the class it serves has a packet (beginService(), completeService()). *)
THEOREM LinkIsWorkConserving ==
  ASSUME FlowsActive PROVE Spec => []WorkConserving
<1>1. Init => IInv
  BY InitEstablishes
<1>2. IInv /\ [Next]_vars => IInv'
  BY NextKeeps
<1>3. IInv => WorkConserving
  BY DEF IInv, Working, WorkConserving
<1> QED
  BY <1>1, <1>2, <1>3, PTL DEF Spec

-----------------------------------------------------------------------------
(* How long a class waits.                                                 *)

PassedState == [high : Nat, data : Nat, other : [{0, 1} -> Nat]]

\* The turn is one of the cycle; what the histories p may be whatever is
\* served; one low queue has overtaken the other once only if its turn is over.
Bounds(s, p) ==
  /\ s.crt \in 0 .. RatioHigh + RatioLow - 1 /\ s.weightCnt \in {0, 1}
  /\ p.high <= RatioHigh + 1 /\ p.data <= RatioLow + 1
  /\ LowEmpty(s) => p.high = 0
  /\ s.high = <<>> => p.data = 0
  /\ \A i \in {0, 1} :
       p.other[i] = 0 \/ (p.other[i] = 1 /\ s.weightCnt = i /\ s.low[i] # <<>>)

\* A class that has overtaken the other and is served again has turns left.
HighTurn(c, p) == p.high = 0 \/ (c < RatioHigh /\ p.high <= c + 1)
LowTurn(c, p) == p.data = 0 \/ (c >= RatioHigh /\ p.data <= c - RatioHigh + 1)

Fair(s, p) ==
  /\ Bounds(s, p)
  /\ s.serv = "HIGH" => HighTurn(s.crt, p)
  /\ s.serv = "LOW" => LowTurn(s.crt, p)

\* So it will when the link takes up its next turn.
Ready(s, p) ==
  /\ Bounds(s, p)
  /\ NextTurn(s) < RatioHigh => HighTurn(NextTurn(s), p)
  /\ NextTurn(s) >= RatioHigh => LowTurn(NextTurn(s), p)

FInv == IInv /\ passed \in PassedState /\ Fair(q, passed)

SameTurn(s, t) == t.crt = s.crt /\ t.weightCnt = s.weightCnt

LEMMA Ratios == RatioHigh \in Nat \ {0} /\ RatioLow \in Nat \ {0}
BY CompositeAssumption

LEMMA NextTurnFacts ==
  ASSUME NEW s \in QState, s.crt \in 0 .. RatioHigh + RatioLow - 1
  PROVE  /\ NextTurn(s) \in 0 .. RatioHigh + RatioLow - 1
         /\ s.crt < RatioHigh => NextTurn(s) = s.crt + 1
         /\ s.crt >= RatioHigh => NextTurn(s) \in {s.crt + 1, 0}
BY Ratios DEF NextTurn

LEMMA AddPhantomTurn ==
  ASSUME NEW s \in QState, NEW n
  PROVE  SameTurn(s, NotInSeries(n, s)) /\ SameTurn(s, OnlyInSeries(n, s))
BY DEF NotInSeries, OnlyInSeries, AddPhantom, SameTurn, QState

LEMMA SameFair ==
  ASSUME NEW s, NEW t, NEW p, SameTurn(s, t), SamePackets(s, t), Fair(s, p), t.serv = s.serv
  PROVE  Fair(t, p)
BY DEF Fair, Bounds, SameTurn, SamePackets, LowEmpty

LEMMA SameBounds ==
  ASSUME NEW s, NEW t, NEW p, SameTurn(s, t), SamePackets(s, t), Bounds(s, p)
  PROVE  Bounds(t, p)
BY DEF Bounds, SameTurn, SamePackets, LowEmpty

\* The idle link takes up its next turn.
LEMMA BeginFair ==
  ASSUME NEW s \in QState, s.serv = "INVALID", NEW p \in PassedState, Ready(s, p)
  PROVE  Fair(IF Begins(s) THEN BeginService(s).state ELSE s, p)
<1>1. CASE ~Begins(s)
  BY <1>1 DEF Ready, Fair
<1>2. CASE Begins(s)
  <2> DEFINE c == IF Contended(s) THEN NextTurn(s) ELSE s.crt
             v == IF ServesHigh(s) THEN "HIGH" ELSE "LOW"
             t == [s EXCEPT !.crt = c, !.serv = v]
  <2>1. BeginService(s).state = t
    BY DEF BeginService, QState
  <2>2. s.crt \in 0 .. RatioHigh + RatioLow - 1 /\ Bounds(s, p)
    BY DEF Ready, Bounds
  <2>3. c \in 0 .. RatioHigh + RatioLow - 1
    BY <2>2, NextTurnFacts
  <2>4. v = "HIGH" => HighTurn(c, p)
    <3> SUFFICES ASSUME ServesHigh(s) PROVE HighTurn(c, p)
      OBVIOUS
    <3>1. CASE LowEmpty(s)
      BY <2>2, <3>1 DEF Bounds, HighTurn
    <3>2. CASE ~LowEmpty(s)
      BY <3>2 DEF ServesHigh, Contended, Ready
    <3> QED
      BY <3>1, <3>2
  <2>5. v = "LOW" => LowTurn(c, p)
    <3> SUFFICES ASSUME ~ServesHigh(s) PROVE LowTurn(c, p)
      OBVIOUS
    <3>1. CASE s.high = <<>>
      BY <2>2, <3>1 DEF Bounds, LowTurn
    <3>2. CASE s.high # <<>>
      <4>1. Contended(s) /\ ~(NextTurn(s) < RatioHigh)
        BY <3>2 DEF ServesHigh, Contended
      <4>2. NextTurn(s) >= RatioHigh
        BY <2>2, <4>1, NextTurnFacts, Ratios
      <4> QED
        BY <4>1, <4>2 DEF Ready
    <3> QED
      BY <3>1, <3>2
  <2> HIDE DEF c, v
  <2>6. /\ t.crt = c /\ t.serv = v /\ t.weightCnt = s.weightCnt
        /\ t.low = s.low /\ t.high = s.high
    BY DEF QState
  <2> HIDE DEF t
  <2>7. Bounds(t, p)
    BY <2>2, <2>3, <2>6 DEF Bounds, LowEmpty
  <2> QED
    BY <1>2, <2>1, <2>4, <2>5, <2>6, <2>7 DEF Fair
<1> QED
  BY <1>1, <1>2

LEMMA NextLowWaits ==
  ASSUME NEW s, ~LowEmpty(s)
  PROVE  /\ NextLow(s) \in Waiting(s)
         /\ Waiting(s) = {0, 1} => NextLow(s) = IF s.weightCnt < 1 THEN 0 ELSE 1
<1>1. CASE Waiting(s) = {0, 1}
  BY <1>1 DEF NextLow
<1>2. CASE Waiting(s) # {0, 1}
  BY <1>2, SomeWaits, Zenon DEF NextLow
<1> QED
  BY <1>1, <1>2

LEMMA PopLowQueueParts ==
  ASSUME NEW s \in QState, ~LowEmpty(s), NEW t, t = PopLowQueue(s),
         NEW i, i = NextLow(s)
  PROVE  /\ \A j \in {0, 1} : j # i => t.low[j] = s.low[j]
         /\ t.high = s.high /\ t.crt = s.crt
         /\ t.weightCnt = IF Waiting(s) = {0, 1} THEN (s.weightCnt + 1) % 2 ELSE s.weightCnt
<1>1. i \in {0, 1} /\ Head(s.low[i]) \in DataSizes /\ Tail(s.low[i]) \in Seq(DataSizes)
  BY NextLowWaits, HeadIsSize
<1>2. PICK h \in Int : h = Head(s.low[i])
  <2>1. DataSizes \subseteq Int
    BY Sizes
  <2> QED
    BY <1>1, <2>1, Zenon
<1> DEFINE lo == [s.low EXCEPT ![i] = Tail(s.low[i])]
           lb == [s.lowBytes EXCEPT ![i] = @ - h]
           w == IF Waiting(s) = {0, 1} THEN (s.weightCnt + 1) % 2 ELSE s.weightCnt
           u == [s EXCEPT !.low = lo, !.lowBytes = lb, !.weightCnt = w]
<1>3. t = OnlyInSeries(h, u)
  BY <1>2 DEF PopLowQueue, QState
<1>4. lo \in [{0, 1} -> Seq(DataSizes)] /\ \A j \in {0, 1} : j # i => lo[j] = s.low[j]
  BY <1>1 DEF QState
<1>5. lb \in [{0, 1} -> Int]
  <2>1. i \in {0, 1} /\ s.lowBytes \in [{0, 1} -> Int]
    BY <1>1 DEF QState
  <2>2. s.lowBytes[i] - h \in Int
    BY <2>1
  <2> QED
    BY <2>1, <2>2, Zenon
<1>6. w \in Int
  BY DEF QState
<1> HIDE DEF lo, lb, w
<1>7. u \in QState /\ u.low = lo /\ u.high = s.high /\ u.crt = s.crt /\ u.weightCnt = w
  BY <1>4, <1>5, <1>6 DEF QState
<1> HIDE DEF u
<1>8. SameTurn(u, t) /\ SamePackets(u, t)
  BY <1>2, <1>3, <1>7, AddPhantomTurn, InSeriesFacts
<1> QED
  BY <1>4, <1>7, <1>8 DEF SameTurn, SamePackets, w

LEMMA PopHighParts ==
  ASSUME NEW s \in QState, s.high # <<>>
  PROVE  PopHigh(s).low = s.low /\ SameTurn(s, PopHigh(s))
<1> DEFINE hi == Tail(s.high)
           hb == s.highBytes - HeaderSize
           t == [s EXCEPT !.high = hi, !.highBytes = hb]
           u == OnlyInSeries(PhantomStep, t)
<1>1. hi \in Seq(Kinds) /\ hb \in Int
  BY HeadTailProperties, Sizes DEF QState
<1>2. PopHigh(s) = t \/ PopHigh(s) = u
  BY DEF PopHigh, QState
<1> HIDE DEF hi, hb
<1>3. t \in QState /\ t.low = s.low /\ SameTurn(s, t)
  BY <1>1 DEF QState, SameTurn
<1> HIDE DEF t
<1>4. u.low = t.low /\ SameTurn(t, u)
  BY <1>3, InSeriesFacts, AddPhantomTurn, Sizes DEF SamePackets
<1> HIDE DEF u
<1> QED
  BY <1>2, <1>3, <1>4 DEF SameTurn

\* A header leaves; t is the queue without it, and idle.
LEMMA HeaderLeaves ==
  ASSUME NEW s \in QState, s.serv = "HIGH", NEW p \in PassedState, Fair(s, p),
         NEW t \in QState, t.low = s.low, SameTurn(s, t),
         NEW h, h = IF LowEmpty(s) THEN 0 ELSE p.high + 1,
         NEW r, r = [p EXCEPT !.high = h, !.data = 0]
  PROVE  r \in PassedState /\ Ready(t, r)
<1>1. /\ r \in PassedState /\ r.data = 0 /\ r.other = p.other
      /\ r.high = IF LowEmpty(s) THEN 0 ELSE p.high + 1
  <2>1. h \in Nat
    BY DEF PassedState
  <2> QED
    BY <2>1 DEF PassedState
<1>2. p.high \in Nat /\ HighTurn(s.crt, p) /\ Bounds(s, p)
  BY DEF Fair, PassedState
<1>3. s.crt \in 0 .. RatioHigh + RatioLow - 1 /\ t.crt = s.crt /\ t.weightCnt = s.weightCnt
  BY <1>2 DEF Bounds, SameTurn
<1>4. LowEmpty(t) <=> LowEmpty(s)
  BY DEF LowEmpty
<1>5. r.high <= RatioHigh + 1
  BY <1>1, <1>2, <1>3, Ratios DEF HighTurn
<1>6. Bounds(t, r)
  BY <1>1, <1>2, <1>3, <1>4, <1>5, Ratios DEF Bounds
<1>7. NextTurn(t) < RatioHigh => HighTurn(NextTurn(t), r)
  <2>1. NextTurn(t) \in Nat /\ (t.crt < RatioHigh => NextTurn(t) = t.crt + 1)
    BY <1>3, NextTurnFacts, Ratios
  <2> QED
    BY <1>1, <1>2, <1>3, <2>1 DEF HighTurn
<1> QED
  BY <1>1, <1>6, <1>7 DEF Ready, LowTurn

\* So does a data packet of queue i.
LEMMA DataLeaves ==
  ASSUME NEW s \in QState, s.serv = "LOW", ~LowEmpty(s), NEW p \in PassedState, Fair(s, p),
         NEW i, i = NextLow(s), NEW t \in QState,
         \A j \in {0, 1} : j # i => t.low[j] = s.low[j],
         t.high = s.high, t.crt = s.crt,
         t.weightCnt = IF Waiting(s) = {0, 1} THEN (s.weightCnt + 1) % 2 ELSE s.weightCnt,
         NEW r, r = [high |-> 0,
                     data |-> IF s.high = <<>> THEN 0 ELSE p.data + 1,
                     other |-> [j \in {0, 1} |->
                        IF j = i \/ s.low[j] = <<>> THEN 0 ELSE p.other[j] + 1]]
  PROVE  r \in PassedState /\ Ready(t, r)
<1>1. /\ r \in PassedState /\ r.high = 0
      /\ r.data = (IF s.high = <<>> THEN 0 ELSE p.data + 1)
      /\ \A j \in {0, 1} :
           r.other[j] = IF j = i \/ s.low[j] = <<>> THEN 0 ELSE p.other[j] + 1
  BY DEF PassedState
<1>2. p.data \in Nat /\ LowTurn(s.crt, p) /\ Bounds(s, p)
  BY DEF Fair, PassedState
<1>3. s.crt \in 0 .. RatioHigh + RatioLow - 1 /\ s.weightCnt \in {0, 1}
  BY <1>2 DEF Bounds
<1>4. r.data <= RatioLow + 1
  BY <1>1, <1>2, <1>3, Ratios DEF LowTurn
<1>5. t.weightCnt \in {0, 1}
  BY <1>3
<1>6. ASSUME NEW j \in {0, 1}
      PROVE  r.other[j] = 0 \/ (r.other[j] = 1 /\ t.weightCnt = j /\ t.low[j] # <<>>)
  <2>1. CASE j = i \/ s.low[j] = <<>>
    BY <1>1, <2>1
  <2>2. CASE j # i /\ s.low[j] # <<>>
    <3>1. Waiting(s) = {0, 1}
      <4>1. i \in Waiting(s) /\ j \in Waiting(s)
        BY <2>2, NextLowWaits DEF Waiting
      <4> QED
        BY <2>2, <4>1 DEF Waiting
    <3>2. i = (IF s.weightCnt < 1 THEN 0 ELSE 1) /\ t.weightCnt = (s.weightCnt + 1) % 2
      BY <3>1, NextLowWaits
    <3>3. s.weightCnt = i /\ t.weightCnt = j
      BY <1>3, <2>2, <3>2
    <3>4. p.other[j] = 0
      BY <1>2, <2>2, <3>3 DEF Bounds
    <3> QED
      BY <1>1, <2>2, <3>3, <3>4
  <2> QED
    BY <2>1, <2>2
<1>7. Bounds(t, r)
  BY <1>1, <1>3, <1>4, <1>5, <1>6, Ratios DEF Bounds
<1>8. NextTurn(t) >= RatioHigh => LowTurn(NextTurn(t), r)
  <2>1. /\ NextTurn(t) \in Nat
        /\ t.crt >= RatioHigh => NextTurn(t) \in {t.crt + 1, 0}
    BY <1>3, NextTurnFacts, Ratios
  <2> QED
    BY <1>1, <1>2, <1>3, <2>1, Ratios DEF LowTurn
<1> QED
  BY <1>1, <1>7, <1>8 DEF Ready, HighTurn

\* A packet more in the queue.
LEMMA ServeFair ==
  ASSUME FInv, NEW s \in QState, SameClock(q, s), SameTurn(q, s),
         q.high # <<>> => s.high # <<>>,
         \A i \in {0, 1} : q.low[i] # <<>> => s.low[i] # <<>>,
         Serve(s, pending)
  PROVE  Fair(q', passed)
<1>1. passed \in PassedState /\ Fair(q, passed) /\ s.serv = q.serv /\ Working(q)
  BY DEF FInv, IInv, SameClock
<1>2. Bounds(s, passed)
  BY <1>1 DEF Fair, Bounds, SameTurn, LowEmpty
<1>3. CASE Begins(s)
  <2>1. q' = BeginService(s).state /\ s.serv = "INVALID"
    BY <1>3 DEF Serve, Begins
  <2>2. passed.high = 0 /\ passed.data = 0
    BY <1>1, <2>1 DEF Fair, Bounds, Working, Empty
  <2>3. Ready(s, passed)
    BY <1>2, <2>2 DEF Ready, HighTurn, LowTurn
  <2> QED
    BY <1>1, <1>3, <2>1, <2>3, BeginFair
<1>4. CASE ~Begins(s)
  BY <1>1, <1>2, <1>4 DEF Serve, Fair, SameTurn
<1> QED
  BY <1>3, <1>4

LEMMA ReceiveDataFair ==
  ASSUME FInv, NEW i \in {0, 1}, NEW size \in DataSizes, ReceiveData(i, size)
  PROVE  Fair(q', passed')
<1> USE DEF IInv, FInv
<1>1. passed' = passed /\ size \in Int /\ q \in QState /\ Fair(q, passed)
  BY Sizes DEF ReceiveData
<1>2. CASE q.lowBytes[i] + size <= MaxSize
  <2> DEFINE lo == [q.low EXCEPT ![i] = Append(@, size)]
             lb == [q.lowBytes EXCEPT ![i] = @ + size]
             s == [q EXCEPT !.low = lo, !.lowBytes = lb]
             t == NotInSeries(size, s)
  <2>1. Serve(t, pending)
    <3>1. s = [q EXCEPT !.low[i] = Append(@, size), !.lowBytes[i] = @ + size]
      BY <1>1 DEF QState
    <3> QED
      BY <1>2, <3>1 DEF ReceiveData
  <2>2. /\ lo \in [{0, 1} -> Seq(DataSizes)]
        /\ \A j \in {0, 1} : q.low[j] # <<>> => lo[j] # <<>>
    <3>1. q.low \in [{0, 1} -> Seq(DataSizes)]
      BY <1>1 DEF QState
    <3>2. q.low[i] \in Seq(DataSizes)
      BY <3>1
    <3>3. Append(q.low[i], size) \in Seq(DataSizes) /\ Append(q.low[i], size) # <<>>
      BY <3>2, AppendProperties
    <3> QED
      BY <3>1, <3>3, Zenon
  <2>3. lb \in [{0, 1} -> Int]
    <3>1. q.lowBytes \in [{0, 1} -> Int]
      BY <1>1 DEF QState
    <3>2. q.lowBytes[i] + size \in Int
      BY <1>1, <3>1
    <3> QED
      BY <3>1, <3>2, Zenon
  <2> HIDE DEF lo, lb
  <2>4. /\ s \in QState /\ SameClock(q, s) /\ SameTurn(q, s)
        /\ s.low = lo /\ s.high = q.high
    BY <1>1, <2>2, <2>3 DEF QState, SameClock, SameTurn
  <2> HIDE DEF s
  <2>5. t \in QState /\ SameClock(s, t) /\ SamePackets(s, t) /\ SameTurn(s, t)
    BY <1>1, <2>4, InSeriesFacts, AddPhantomTurn
  <2>6. SameClock(q, t) /\ SameTurn(q, t) /\ t.low = lo /\ t.high = q.high
    BY <2>4, <2>5 DEF SameClock, SameTurn, SamePackets
  <2> HIDE DEF t
  <2> QED
    BY <1>1, <2>1, <2>2, <2>5, <2>6, ServeFair
<1>3. CASE ~(q.lowBytes[i] + size <= MaxSize)
  <2>1. q' = NotInSeries(size, q)
    BY <1>3 DEF ReceiveData
  <2>2. SameClock(q, q') /\ SamePackets(q, q') /\ SameTurn(q, q')
    BY <1>1, <2>1, InSeriesFacts, AddPhantomTurn
  <2> QED
    BY <1>1, <2>2, SameFair DEF SameClock
<1> QED
  BY <1>2, <1>3

LEMMA ReceiveHeaderFair ==
  ASSUME FInv, NEW kind \in Kinds, ReceiveHeader(kind)
  PROVE  Fair(q', passed')
<1> DEFINE hi == Append(q.high, kind)
           hb == q.highBytes + HeaderSize
           s == [q EXCEPT !.high = hi, !.highBytes = hb]
<1>1. Serve(s, pending) /\ passed' = passed
  BY DEF ReceiveHeader
<1>2. hi \in Seq(Kinds) /\ hi # <<>> /\ hb \in Int
  <2>1. q.high \in Seq(Kinds) /\ q.highBytes \in Int
    BY DEF FInv, IInv, QState
  <2> QED
    BY <2>1, AppendProperties, Sizes
<1> HIDE DEF hi, hb
<1>3. /\ s \in QState /\ SameClock(q, s) /\ SameTurn(q, s)
      /\ s.low = q.low /\ s.high = hi
  BY <1>2 DEF FInv, IInv, QState, SameClock, SameTurn
<1> HIDE DEF s
<1> QED
  BY <1>1, <1>2, <1>3, ServeFair

LEMMA DecreasePhantomTurn ==
  ASSUME NEW s \in QState
  PROVE  SameTurn(s, DecreasePhantom(s))
BY DEF DecreasePhantom, SameTurn, QState

LEMMA CompleteServiceFair ==
  ASSUME FInv, NEW p, CompleteService(p), q.serv # "INVALID"
  PROVE  passed' \in PassedState /\ Fair(q', passed')
<1> DEFINE popped == IF q.serv = "LOW" THEN PopLowQueue(q) ELSE PopHigh(q)
           idle == [popped EXCEPT !.serv = "INVALID"]
           n == IF Begins(idle) THEN BeginService(idle).state ELSE idle
<1>1. /\ q' = IF StartsClock THEN DecreasePhantom([n EXCEPT !.firstTime = FALSE]) ELSE n
      /\ Overtake(IF q.serv = "LOW" THEN NextLow(q) ELSE 0)
  BY Zenon DEF CompleteService
<1>2. /\ q \in QState /\ Working(q) /\ ClockSound(q)
      /\ passed \in PassedState /\ Fair(q, passed) /\ q.serv \in {"LOW", "HIGH"}
  BY DEF FInv, IInv, QState
<1>3. /\ idle \in QState /\ idle.serv = "INVALID" /\ ClockSound(idle)
      /\ passed' \in PassedState /\ Ready(idle, passed')
  <2>1. CASE q.serv = "LOW"
    <3> DEFINE i == NextLow(q)
    <3>1. popped = PopLowQueue(q) /\ ~LowEmpty(q)
      BY <1>2, <2>1 DEF Working
    <3>2. popped \in QState /\ SameClock(q, popped)
      BY <1>2, <3>1, PopLowFacts
    <3>3. /\ \A j \in {0, 1} : j # i => popped.low[j] = q.low[j]
          /\ popped.high = q.high /\ popped.crt = q.crt
          /\ popped.weightCnt = IF Waiting(q) = {0, 1} THEN (q.weightCnt + 1) % 2 ELSE q.weightCnt
      BY <1>2, <3>1, PopLowQueueParts
    <3> HIDE DEF popped
    <3>4. /\ idle \in QState /\ idle.serv = "INVALID"
          /\ idle.low = popped.low /\ idle.high = popped.high
          /\ idle.crt = popped.crt /\ idle.weightCnt = popped.weightCnt
          /\ ClockSound(idle)
      BY <1>2, <3>2 DEF QState, SameClock, ClockSound
    <3> HIDE DEF idle
    <3>5. passed' = [high |-> 0,
                     data |-> IF q.high = <<>> THEN 0 ELSE passed.data + 1,
                     other |-> [j \in {0, 1} |->
                        IF j = i \/ q.low[j] = <<>> THEN 0 ELSE passed.other[j] + 1]]
      BY <1>1, <2>1 DEF Overtake
    <3> HIDE DEF i
    <3>6. i = NextLow(q)
      BY DEF i
    <3>7. passed' \in PassedState /\ Ready(idle, passed')
      BY <1>2, <2>1, <3>1, <3>3, <3>4, <3>5, <3>6, DataLeaves
    <3> QED
      BY <3>4, <3>7
  <2>2. CASE q.serv = "HIGH"
    <3>1. popped = PopHigh(q) /\ q.high # <<>>
      BY <1>2, <2>2 DEF Working
    <3>2. /\ popped \in QState /\ SameClock(q, popped)
          /\ popped.low = q.low /\ SameTurn(q, popped)
      BY <1>2, <3>1, PopHighFacts, PopHighParts
    <3> HIDE DEF popped
    <3>3. /\ idle \in QState /\ idle.serv = "INVALID"
          /\ idle.low = q.low /\ SameTurn(q, idle) /\ ClockSound(idle)
      BY <1>2, <3>2 DEF QState, SameTurn, SameClock, ClockSound
    <3> HIDE DEF idle
    <3> DEFINE h == IF LowEmpty(q) THEN 0 ELSE passed.high + 1
    <3>4. passed' = [passed EXCEPT !.high = h, !.data = 0]
      BY <1>1, <2>2 DEF Overtake
    <3>5. passed' \in PassedState /\ Ready(idle, passed')
      BY <1>2, <2>2, <3>3, <3>4, HeaderLeaves
    <3> QED
      BY <3>3, <3>5
  <2> QED
    BY <1>2, <2>1, <2>2
<1> HIDE DEF idle
<1>4. Fair(n, passed')
  BY <1>3, BeginFair
<1>5. n \in QState
  <2>1. CASE Begins(idle)
    <3>1. ~Empty(idle) /\ n = BeginService(idle).state
      BY <2>1 DEF Begins
    <3> QED
      BY <1>3, <3>1, BeginServiceFacts
  <2> QED
    BY <1>3, <2>1
<1> HIDE DEF n
<1>6. CASE StartsClock
  <2> DEFINE m == [n EXCEPT !.firstTime = FALSE]
  <2>1. m \in QState /\ SamePackets(n, m) /\ SameTurn(n, m) /\ m.serv = n.serv
    BY <1>5 DEF QState, SamePackets, SameTurn
  <2>2. q' = DecreasePhantom(m)
    BY <1>1, <1>6
  <2> HIDE DEF m
  <2>3. SamePackets(m, q') /\ SameTurn(m, q') /\ q'.serv = m.serv
    BY <2>1, <2>2, DecreasePhantomFacts, DecreasePhantomTurn
  <2>4. Fair(m, passed')
    BY <1>4, <2>1, SameFair
  <2> QED
    BY <1>3, <2>3, <2>4, SameFair
<1>7. CASE ~StartsClock
  BY <1>1, <1>3, <1>4, <1>7
<1> QED
  BY <1>6, <1>7

LEMMA NextFair ==
  ASSUME FlowsActive, FInv, IInv', [Next]_vars
  PROVE  FInv'
<1> SUFFICES passed' \in PassedState /\ Fair(q', passed')
  BY DEF FInv
<1>1. passed \in PassedState /\ Fair(q, passed) /\ q \in QState /\ IInv
  BY DEF FInv, IInv
<1>2. ASSUME NEW i \in {0, 1}, NEW size \in DataSizes, ReceiveData(i, size)
      PROVE  passed' \in PassedState /\ Fair(q', passed')
  BY <1>1, <1>2, ReceiveDataFair DEF ReceiveData
<1>3. ASSUME NEW kind \in Kinds, ReceiveHeader(kind)
      PROVE  passed' \in PassedState /\ Fair(q', passed')
  BY <1>1, <1>3, ReceiveHeaderFair DEF ReceiveHeader
<1>4. CASE DoNextEvent
  <2>1. CASE IsTick(q)
    <3>1. q' = DecreasePhantom(q) /\ passed' = passed
      BY <1>4, <2>1 DEF DoNextEvent
    <3>2. SamePackets(q, q') /\ SameTurn(q, q') /\ q'.serv = q.serv
      BY <1>1, <3>1, DecreasePhantomFacts, DecreasePhantomTurn
    <3> QED
      BY <1>1, <3>1, <3>2, SameFair
  <2>2. CASE ~IsTick(q)
    <3>1. CompleteService([pending EXCEPT ![0] = @ - 1]) /\ pending[0] > 0
      BY <1>4, <2>2 DEF DoNextEvent
    <3>2. q.serv # "INVALID"
      <4>1. PICK e \in Ends(q) : pending = Events(q, e)
        BY <1>1 DEF IInv
      <4>2. OwedBy(q, 0) = 0
        BY <2>2 DEF OwedBy, IsTick
      <4>3. e = 0
        BY <3>1, <4>1, <4>2, EventsAt, Sizes DEF EndsAt
      <4> QED
        BY <4>1, <4>3 DEF Ends
    <3> QED
      BY <3>1, <3>2, CompleteServiceFair
  <2> QED
    BY <2>1, <2>2
<1>5. CASE Tick
  <2>1. SamePackets(q, q') /\ SameTurn(q, q') /\ q'.serv = q.serv /\ passed' = passed
    BY <1>1, <1>5 DEF Tick, QState, SamePackets, SameTurn
  <2> QED
    BY <1>1, <2>1, SameFair
<1>6. CASE UNCHANGED vars
  BY <1>1, <1>6 DEF vars
<1> QED
  BY <1>2, <1>3, <1>4, <1>5, <1>6 DEF Next

(* While a flow is active no class of the queue starves, for all weights and
   sizes: between two packets of a class the others get their turns and one
   packet more, that on the link when it came (beginService(), popLowQueue()). *)
THEOREM OvertakingIsBounded ==
  ASSUME FlowsActive PROVE Spec => []BoundedOvertaking
<1>1. Init => IInv /\ FInv
  <2> SUFFICES ASSUME Init PROVE IInv /\ FInv
    OBVIOUS
  <2>1. IInv
    BY InitEstablishes
  <2>2. passed \in PassedState /\ Fair(q, passed)
    BY Ratios DEF Init, PassedState, Fair, Bounds
  <2> QED
    BY <2>1, <2>2 DEF FInv
<1>2. IInv /\ [Next]_vars => IInv'
  BY NextKeeps
<1>3. FInv /\ IInv' /\ [Next]_vars => FInv'
  BY NextFair
<1>4. FInv => BoundedOvertaking
  BY DEF FInv, Fair, Bounds, BoundedOvertaking
<1> QED
  BY <1>1, <1>2, <1>3, <1>4, PTL DEF Spec

-----------------------------------------------------------------------------
(* The byte counts.  They are kept apart from the buffers, and a packet that
   comes or leaves changes the sum of the sizes by its own. *)

\* g gives the sum of the values of f over each set of indices.
Sums(g, f) ==
  /\ g \in [SUBSET (DOMAIN f) -> Int] /\ g[{}] = 0
  /\ \A T \in SUBSET (DOMAIN f) : \A x \in T : g[T] = f[x] + g[T \ {x}]

LEMMA SumIs ==
  ASSUME NEW f, NEW g, Sums(g, f), IsFiniteSet(DOMAIN f)
  PROVE  MapThenSumSet(LAMBDA k : f[k], DOMAIN f) = g[DOMAIN f]
<1> DEFINE S == DOMAIN f
           C(T) == CHOOSE x \in T : TRUE
           Iter(h) == h = [T \in SUBSET S |-> IF T = {} THEN 0 ELSE f[C(T)] + h[T \ {C(T)}]]
           iter == CHOOSE h : Iter(h)
<1>1. MapThenSumSet(LAMBDA k : f[k], DOMAIN f) = iter[S]
  BY DEF MapThenSumSet, MapThenFoldSet
<1>2. \A T \in SUBSET S : T # {} => C(T) \in T
  BY Zenon
<1> HIDE DEF C
<1>3. Iter(g)
  <2>1. \A T \in SUBSET S : g[T] = IF T = {} THEN 0 ELSE f[C(T)] + g[T \ {C(T)}]
    BY <1>2 DEF Sums
  <2>2. g = [T \in SUBSET S |-> g[T]]
    BY DEF Sums
  <2> QED BY <2>1, <2>2, Zenon
<1>4. Iter(iter)
  <2> HIDE DEF Iter
  <2> QED BY <1>3, Zenon
<1>5. \A T \in SUBSET S : IsFiniteSet(T) /\ Cardinality(T) \in Nat
  BY FS_Subset, FS_CardinalityType
<1> DEFINE Wrong == { T \in SUBSET S : iter[T] # g[T] }
<1> HIDE DEF iter
<1>6. Wrong = {}
  <2> SUFFICES ASSUME Wrong # {} PROVE FALSE
    OBVIOUS
  <2> DEFINE B == { Cardinality(T) : T \in Wrong }
  <2>1. B \subseteq Nat /\ B # {}
    BY <1>5
  <2>2. PICK m \in B : \A k \in B : m <= k
    <3> HIDE DEF B
    <3> QED BY <2>1, LeastNat
  <2>3. PICK T \in Wrong : \A U \in Wrong : Cardinality(T) <= Cardinality(U)
    BY <2>2
  <2>4. T \in SUBSET S /\ iter[T] # g[T]
    OBVIOUS
  <2>5. iter[T] = IF T = {} THEN 0 ELSE f[C(T)] + iter[T \ {C(T)}]
    BY <1>4, <2>4
  <2>6. g[T] = IF T = {} THEN 0 ELSE f[C(T)] + g[T \ {C(T)}]
    BY <1>3, <2>4
  <2>7. T # {}
    BY <2>4, <2>5, <2>6
  <2>8. C(T) \in T /\ T \ {C(T)} \in SUBSET S
    BY <1>2, <2>4, <2>7
  <2>9. Cardinality(T \ {C(T)}) = Cardinality(T) - 1
    BY <1>5, <2>4, <2>8, FS_RemoveElement
  <2>10. T \ {C(T)} \notin Wrong
    BY <1>5, <2>3, <2>4, <2>8, <2>9
  <2> QED BY <2>4, <2>5, <2>6, <2>8, <2>10
<1> QED BY <1>1, <1>6

\* b is the sum of the values of s.
Sized(b, s) == \E g : Sums(g, s) /\ b = g[DOMAIN s]

LEMMA SizedIsSum ==
  ASSUME NEW D, NEW s \in Seq(D), NEW b, Sized(b, s)
  PROVE  b = MapThenSumSet(LAMBDA k : s[k], DOMAIN s)
<1>1. DOMAIN s = 1 .. Len(s) /\ Len(s) \in Nat
  BY LenProperties
<1>2. IsFiniteSet(DOMAIN s)
  BY <1>1, FS_Interval
<1>3. PICK g : Sums(g, s) /\ b = g[DOMAIN s]
  BY DEF Sized
<1>4. MapThenSumSet(LAMBDA k : s[k], DOMAIN s) = g[DOMAIN s]
  BY <1>2, <1>3, SumIs
<1> QED BY <1>3, <1>4

LEMMA SizedEmpty == Sized(0, <<>>)
<1> DEFINE g == [T \in SUBSET (DOMAIN <<>>) |-> 0]
<1>1. Sums(g, <<>>) /\ 0 = g[DOMAIN <<>>]
  BY DEF Sums
<1> QED BY <1>1 DEF Sized

LEMMA SizedAppend ==
  ASSUME NEW D, D \subseteq Int, NEW s \in Seq(D), NEW b, Sized(b, s), NEW x \in D
  PROVE  Sized(b + x, Append(s, x))
<1> DEFINE n == Len(s)
           t == Append(s, x)
           S == SUBSET (1 .. n + 1)
<1>1. /\ n \in Nat /\ DOMAIN s = 1 .. n /\ DOMAIN t = 1 .. n + 1
      /\ \A i \in 1 .. n : t[i] = s[i] /\ s[i] \in Int
      /\ t[n + 1] = x /\ x \in Int
  <2>1. n \in Nat /\ DOMAIN s = 1 .. n /\ x \in Int
    BY LenProperties
  <2>2. \A i \in 1 .. n : s[i] \in Int
    BY ElementOfSeq
  <2>3. /\ Append(s, x) \in Seq(D) /\ Len(Append(s, x)) = Len(s) + 1
        /\ \A i \in 1 .. Len(s) : Append(s, x)[i] = s[i]
        /\ Append(s, x)[Len(s) + 1] = x
    BY AppendProperties
  <2>4. DOMAIN t = 1 .. n + 1
    BY <2>3, LenProperties
  <2> QED BY <2>1, <2>2, <2>3, <2>4
<1>2. PICK g : Sums(g, s) /\ b = g[DOMAIN s]
  BY DEF Sized
<1> HIDE DEF n, t
<1>3. /\ g \in [SUBSET (1 .. n) -> Int] /\ g[{}] = 0
      /\ \A T \in SUBSET (1 .. n) : \A y \in T : g[T] = s[y] + g[T \ {y}]
  BY <1>1, <1>2 DEF Sums
<1> DEFINE R(T) == T \ {n + 1}
           h == [T \in S |-> g[R(T)] + IF n + 1 \in T THEN x ELSE 0]
<1>4. \A T \in S : R(T) \in SUBSET (1 .. n) /\ g[R(T)] \in Int /\ h[T] \in Int
  BY <1>1, <1>3
<1>5. h[{}] = 0
  <2>1. R({}) = {} /\ {} \in S
    OBVIOUS
  <2> QED BY <1>3, <2>1
<1>6. \A T \in S : \A y \in T : h[T] = t[y] + h[T \ {y}]
  <2> TAKE T \in S
  <2> TAKE y \in T
  <2>0. T \ {y} \in S /\ y \in 1 .. n + 1
    OBVIOUS
  <2>1. CASE y = n + 1
    <3>1. R(T \ {y}) = R(T) /\ n + 1 \notin T \ {y} /\ n + 1 \in T
      BY <2>1
    <3>2. g[R(T)] \in Int
      BY <1>4
    <3> HIDE DEF R
    <3>3. h[T] = g[R(T)] + x /\ h[T \ {y}] = g[R(T \ {y})] + 0
      BY <2>0, <3>1
    <3> HIDE DEF h
    <3> QED BY <1>1, <2>1, <3>1, <3>2, <3>3
  <2>2. CASE y # n + 1
    <3>1. y \in 1 .. n /\ y \in R(T) /\ R(T \ {y}) = R(T) \ {y}
          /\ (n + 1 \in T \ {y} <=> n + 1 \in T)
          /\ R(T) \in SUBSET (1 .. n)
      BY <1>1, <1>4, <2>0, <2>2
    <3> HIDE DEF R
    <3>2. g[R(T)] = s[y] + g[R(T \ {y})]
      <4>1. PICK U \in SUBSET (1 .. n) : U = R(T)
        BY <3>1
      <4>2. g[U] = s[y] + g[U \ {y}]
        BY <1>3, <3>1, <4>1
      <4> QED BY <3>1, <4>1, <4>2
    <3>3. h[T] = g[R(T)] + (IF n + 1 \in T THEN x ELSE 0)
          /\ h[T \ {y}] = g[R(T \ {y})] + (IF n + 1 \in T THEN x ELSE 0)
      BY <2>0, <3>1
    <3>4. g[R(T)] \in Int /\ g[R(T \ {y})] \in Int /\ s[y] \in Int /\ t[y] = s[y]
      BY <1>1, <1>4, <2>0, <3>1
    <3> HIDE DEF h
    <3> QED BY <1>1, <3>2, <3>3, <3>4
  <2> QED BY <2>1, <2>2
<1>7. h[1 .. n + 1] = b + x
  <2>1. 1 .. n + 1 \in S /\ R(1 .. n + 1) = 1 .. n /\ n + 1 \in 1 .. n + 1
    BY <1>1
  <2> HIDE DEF R
  <2> QED BY <1>1, <1>2, <2>1
<1>8. Sums(h, t)
  <2>1. h \in [S -> Int]
    BY <1>4
  <2> HIDE DEF h
  <2> QED BY <1>1, <1>5, <1>6, <2>1 DEF Sums
<1> HIDE DEF h
<1> QED BY <1>1, <1>7, <1>8 DEF Sized, t

LEMMA SizedTail ==
  ASSUME NEW D, D \subseteq Int, NEW s \in Seq(D), s # <<>>, NEW b, Sized(b, s)
  PROVE  Sized(b - Head(s), Tail(s)) /\ b \in Int
<1> DEFINE n == Len(s)
           t == Tail(s)
           S == SUBSET (1 .. n - 1)
           Up(T) == { k + 1 : k \in T }
<1>1. /\ n \in Nat \ {0} /\ DOMAIN s = 1 .. n /\ DOMAIN t = 1 .. n - 1
      /\ \A i \in 1 .. n : s[i] \in Int
      /\ \A i \in 1 .. n - 1 : t[i] = s[i + 1]
      /\ Head(s) = s[1]
  <2>1. n \in Nat /\ n # 0 /\ DOMAIN s = 1 .. n
    BY LenProperties, EmptySeq
  <2>2. \A i \in 1 .. n : s[i] \in Int
    BY ElementOfSeq
  <2>3. /\ Tail(s) \in Seq(D) /\ Len(Tail(s)) = Len(s) - 1
        /\ \A i \in 1 .. Len(Tail(s)) : Tail(s)[i] = s[i + 1]
    BY HeadTailProperties
  <2>4. DOMAIN t = 1 .. n - 1
    BY <2>3, LenProperties
  <2>5. Head(s) = s[1]
    BY <2>1 DEF Head
  <2> QED BY <2>1, <2>2, <2>3, <2>4, <2>5
<1>2. PICK g : Sums(g, s) /\ b = g[DOMAIN s]
  BY DEF Sized
<1> HIDE DEF n, t
<1>3. /\ g \in [SUBSET (1 .. n) -> Int] /\ g[{}] = 0
      /\ \A T \in SUBSET (1 .. n) : \A y \in T : g[T] = s[y] + g[T \ {y}]
      /\ b = g[1 .. n] /\ b \in Int
  BY <1>1, <1>2 DEF Sums
<1> DEFINE h == [T \in S |-> g[Up(T)]]
<1>4. \A T \in S : Up(T) \in SUBSET (1 .. n) /\ h[T] = g[Up(T)] /\ h[T] \in Int
  BY <1>1, <1>3
<1>5. h[{}] = 0
  <2>1. Up({}) = {} /\ {} \in S
    OBVIOUS
  <2> QED BY <1>3, <2>1
<1>6. \A T \in S : \A y \in T : h[T] = t[y] + h[T \ {y}]
  <2> TAKE T \in S
  <2> TAKE y \in T
  <2>1. T \ {y} \in S /\ y \in 1 .. n - 1 /\ y + 1 \in Up(T)
    OBVIOUS
  <2>2. Up(T \ {y}) = Up(T) \ {y + 1}
    OBVIOUS
  <2> HIDE DEF Up, h
  <2>3. g[Up(T)] = s[y + 1] + g[Up(T) \ {y + 1}]
    BY <1>3, <1>4, <2>1
  <2> QED BY <1>1, <1>4, <2>1, <2>2, <2>3
<1>7. h[1 .. n - 1] = b - Head(s)
  <2>1. 1 .. n - 1 \in S /\ Up(1 .. n - 1) = (1 .. n) \ {1} /\ 1 \in 1 .. n
    <3>1. \A k \in (1 .. n) \ {1} : k - 1 \in 1 .. n - 1 /\ k = (k - 1) + 1
      BY <1>1
    <3>2. \A k \in (1 .. n) \ {1} : k \in Up(1 .. n - 1)
      BY <3>1
    <3>3. \A k \in 1 .. n - 1 : k + 1 \in (1 .. n) \ {1}
      BY <1>1
    <3>4. Up(1 .. n - 1) \subseteq (1 .. n) \ {1}
      BY <3>3
    <3> HIDE DEF Up
    <3>5. Up(1 .. n - 1) = (1 .. n) \ {1}
      BY <3>2, <3>4
    <3>6. 1 .. n - 1 \in S /\ 1 \in 1 .. n
      BY <1>1
    <3> QED BY <3>5, <3>6
  <2> HIDE DEF Up
  <2>2. g[1 .. n] = s[1] + g[(1 .. n) \ {1}]
    BY <1>3, <2>1
  <2>3. h[1 .. n - 1] = g[(1 .. n) \ {1}] /\ g[(1 .. n) \ {1}] \in Int
    BY <1>3, <2>1
  <2> HIDE DEF h
  <2> QED BY <1>1, <1>3, <2>2, <2>3
<1>8. Sums(h, t)
  <2>1. h \in [S -> Int]
    BY <1>4
  <2> HIDE DEF h
  <2> QED BY <1>1, <1>5, <1>6, <2>1 DEF Sums
<1> HIDE DEF h
<1> QED BY <1>1, <1>3, <1>7, <1>8 DEF Sized, t

\* The buffers of s and the counts of what they hold.
Stocked(s) ==
  /\ \A i \in {0, 1} : Sized(s.lowBytes[i], s.low[i]) /\ s.lowBytes[i] <= MaxSize
  /\ s.highBytes = HeaderSize * Len(s.high) /\ s.highBytes <= HighLimit

\* The turns of the scheduler and the phantom counter.
Ranged(s) ==
  /\ s.crt \in 0 .. RatioHigh + RatioLow - 1 /\ s.weightCnt \in {0, 1}
  /\ s.phantom \in 0 .. PhantomSize

SameStock(s, t) ==
  t.low = s.low /\ t.lowBytes = s.lowBytes /\ t.high = s.high /\ t.highBytes = s.highBytes

LEMMA Limits ==
  /\ MaxSize \in Nat /\ HighLimit \in Nat /\ HeaderSize \in Nat \ {0}
  /\ PhantomSize \in Nat \ {0} /\ PhantomStep \in Nat /\ DataSizes \subseteq Nat \ {0}
  /\ RatioHigh \in Nat \ {0} /\ RatioLow \in Nat \ {0}
BY CompositeAssumption

LEMMA SameStocked ==
  ASSUME NEW s, NEW t, Stocked(s), SameStock(s, t)
  PROVE  Stocked(t)
BY DEF Stocked, SameStock

LEMMA AddPhantomRanged ==
  ASSUME NEW s \in QState, NEW n \in Nat, Ranged(s)
  PROVE  Ranged(AddPhantom(n, s)) /\ SameStock(s, AddPhantom(n, s))
<1> DEFINE v == Min({s.phantom + n, PhantomSize})
<1>1. v \in 0 .. PhantomSize
  <2>1. PICK a \in Int, b \in Int : a = s.phantom + n /\ b = PhantomSize
    BY Limits DEF Ranged
  <2>2. a >= 0 /\ b >= 0
    BY <2>1, Limits DEF Ranged
  <2>3. \E x \in {a, b} : \A y \in {a, b} : x =< y
    BY <2>1
  <2>4. Min({a, b}) \in {a, b} /\ \A y \in {a, b} : Min({a, b}) =< y
    BY <2>3, Zenon DEF Min
  <2> QED BY <2>1, <2>2, <2>4
<1>2. AddPhantom(n, s) = [s EXCEPT !.phantom = v]
  BY DEF AddPhantom
<1> HIDE DEF v
<1> QED BY <1>1, <1>2 DEF QState, Ranged, SameStock

LEMMA InSeriesRanged ==
  ASSUME NEW s \in QState, NEW n \in Nat, Ranged(s)
  PROVE  /\ Ranged(NotInSeries(n, s)) /\ SameStock(s, NotInSeries(n, s))
         /\ Ranged(OnlyInSeries(n, s)) /\ SameStock(s, OnlyInSeries(n, s))
<1>1. SameStock(s, s)
  BY DEF SameStock
<1> QED BY <1>1, AddPhantomRanged DEF NotInSeries, OnlyInSeries

LEMMA BeginServiceRanged ==
  ASSUME NEW s \in QState, Ranged(s)
  PROVE  Ranged(BeginService(s).state) /\ SameStock(s, BeginService(s).state)
<1> DEFINE c == IF Contended(s) THEN NextTurn(s) ELSE s.crt
           v == IF ServesHigh(s) THEN "HIGH" ELSE "LOW"
           t == [s EXCEPT !.crt = c, !.serv = v]
<1>1. BeginService(s).state = t
  BY DEF BeginService, QState
<1>2. c \in 0 .. RatioHigh + RatioLow - 1
  BY Limits DEF NextTurn, Ranged
<1> HIDE DEF c, v
<1> QED BY <1>1, <1>2 DEF QState, Ranged, SameStock

LEMMA DecreasePhantomRanged ==
  ASSUME NEW s \in QState, Ranged(s)
  PROVE  Ranged(DecreasePhantom(s)) /\ SameStock(s, DecreasePhantom(s))
<1> DEFINE v == Max({s.phantom - PhantomStep, 0})
<1>1. v \in 0 .. PhantomSize
  <2>1. PICK a \in Int, b \in Int : a = s.phantom - PhantomStep /\ b = 0
    BY Limits DEF Ranged
  <2>2. a <= PhantomSize
    BY <2>1, Limits DEF Ranged
  <2>3. Max({a, b}) \in {a, b} /\ Max({a, b}) >= b
    BY MaxOfTwo
  <2> QED BY <2>1, <2>2, <2>3, Limits
<1>2. DecreasePhantom(s) = [s EXCEPT !.phantom = v, !.phantomNext = PhantomDrain]
  BY DEF DecreasePhantom
<1> HIDE DEF v
<1> QED BY <1>1, <1>2 DEF QState, Ranged, SameStock

(* popLowQueue() takes its packet from the buffer and from the count.        *)
LEMMA PopLowStocked ==
  ASSUME NEW s \in QState, ~LowEmpty(s), Ranged(s), Stocked(s)
  PROVE  Ranged(PopLowQueue(s)) /\ Stocked(PopLowQueue(s))
<1>1. NextLow(s) \in Waiting(s)
  BY NextLowWaits
<1>2. PICK i \in Waiting(s) : i = NextLow(s)
  BY <1>1
<1>3. i \in {0, 1} /\ Head(s.low[i]) \in DataSizes /\ Tail(s.low[i]) \in Seq(DataSizes)
      /\ s.low[i] # <<>> /\ s.low[i] \in Seq(DataSizes)
  BY HeadIsSize DEF Waiting, QState
<1>4. PICK h \in Nat : h = Head(s.low[i])
  BY <1>3, Limits, Zenon
<1> DEFINE lo == [s.low EXCEPT ![i] = Tail(s.low[i])]
           lb == [s.lowBytes EXCEPT ![i] = @ - h]
           w == IF Waiting(s) = {0, 1} THEN (s.weightCnt + 1) % 2 ELSE s.weightCnt
           t == [s EXCEPT !.low = lo, !.lowBytes = lb, !.weightCnt = w]
<1>5. PopLowQueue(s) = OnlyInSeries(h, t)
  BY <1>2, <1>4 DEF PopLowQueue, QState
<1>6. /\ lo \in [{0, 1} -> Seq(DataSizes)]
      /\ lo[i] = Tail(s.low[i]) /\ \A j \in {0, 1} : j # i => lo[j] = s.low[j]
  BY <1>3 DEF QState
<1>7. /\ lb \in [{0, 1} -> Int]
      /\ lb[i] = s.lowBytes[i] - h /\ \A j \in {0, 1} : j # i => lb[j] = s.lowBytes[j]
  <2>1. i \in {0, 1} /\ s.lowBytes \in [{0, 1} -> Int]
    BY <1>3 DEF QState
  <2>2. s.lowBytes[i] - h \in Int
    BY <2>1
  <2> QED BY <2>1, <2>2, Zenon
<1>8. w \in {0, 1} /\ w \in Int
  BY DEF Ranged
<1>9. \A j \in {0, 1} : Sized(lb[j], lo[j]) /\ lb[j] <= MaxSize
  <2> TAKE j \in {0, 1}
  <2>1. CASE j # i
    <3> HIDE DEF lo, lb
    <3> QED BY <1>6, <1>7, <2>1 DEF Stocked
  <2>2. CASE j = i
    <3>1. Sized(s.lowBytes[i], s.low[i]) /\ s.lowBytes[i] <= MaxSize
      BY <1>3 DEF Stocked
    <3>2. DataSizes \subseteq Int
      BY Limits
    <3>3. Sized(s.lowBytes[i] - Head(s.low[i]), Tail(s.low[i])) /\ s.lowBytes[i] \in Int
      BY <1>3, <3>1, <3>2, SizedTail
    <3>4. s.lowBytes[i] - h <= MaxSize
      BY <3>1, <3>3, Limits
    <3> HIDE DEF lo, lb
    <3> QED BY <1>4, <1>6, <1>7, <2>2, <3>3, <3>4
  <2> QED BY <2>1, <2>2
<1> HIDE DEF lo, lb, w
<1>10. /\ t \in QState /\ t.low = lo /\ t.lowBytes = lb /\ t.weightCnt = w
       /\ t.high = s.high /\ t.highBytes = s.highBytes
       /\ t.crt = s.crt /\ t.phantom = s.phantom
  BY <1>6, <1>7, <1>8 DEF QState
<1> HIDE DEF t
<1>11. Ranged(t) /\ Stocked(t)
  BY <1>8, <1>9, <1>10 DEF Ranged, Stocked
<1> QED BY <1>5, <1>10, <1>11, InSeriesRanged, SameStocked

LEMMA PopHighStocked ==
  ASSUME NEW s \in QState, s.high # <<>>, Ranged(s), Stocked(s)
  PROVE  Ranged(PopHigh(s)) /\ Stocked(PopHigh(s))
<1> DEFINE hi == Tail(s.high)
           hb == s.highBytes - HeaderSize
           t == [s EXCEPT !.high = hi, !.highBytes = hb]
           u == OnlyInSeries(PhantomStep, t)
<1>1. hi \in Seq(Kinds) /\ hb \in Int /\ Len(hi) = Len(s.high) - 1 /\ Len(s.high) \in Nat
  BY HeadTailProperties, LenProperties, Limits DEF QState
<1>2. PopHigh(s) = t \/ PopHigh(s) = u
  BY DEF PopHigh, QState
<1>3. hb = HeaderSize * Len(hi) /\ hb <= HighLimit
  <2>1. s.highBytes = HeaderSize * Len(s.high) /\ s.highBytes <= HighLimit /\ s.highBytes \in Int
    BY DEF Stocked, QState
  <2>2. HeaderSize * (Len(s.high) - 1) = HeaderSize * Len(s.high) - HeaderSize
    BY <1>1, Limits
  <2>3. hb = HeaderSize * Len(hi)
    BY <1>1, <2>1, <2>2
  <2> QED BY <2>1, <2>3, Limits
<1> HIDE DEF hi, hb
<1>4. /\ t \in QState /\ t.low = s.low /\ t.lowBytes = s.lowBytes
      /\ t.high = hi /\ t.highBytes = hb /\ t.weightCnt = s.weightCnt
      /\ t.crt = s.crt /\ t.phantom = s.phantom
  BY <1>1 DEF QState
<1> HIDE DEF t
<1>5. Ranged(t) /\ Stocked(t)
  BY <1>3, <1>4 DEF Ranged, Stocked
<1>6. Ranged(u) /\ Stocked(u)
  BY <1>4, <1>5, InSeriesRanged, SameStocked, Limits
<1> QED BY <1>2, <1>5, <1>6

LEMMA ServeStocked ==
  ASSUME NEW s \in QState, Ranged(s), Stocked(s), Serve(s, pending)
  PROVE  Ranged(q') /\ Stocked(q')
<1>1. CASE Begins(s)
  <2>1. q' = BeginService(s).state
    BY <1>1 DEF Serve
  <2> QED BY <2>1, BeginServiceRanged, SameStocked
<1>2. CASE ~Begins(s)
  BY <1>2 DEF Serve
<1> QED BY <1>1, <1>2

LEMMA ReceiveDataStocked ==
  ASSUME q \in QState, Ranged(q), Stocked(q),
         NEW i \in {0, 1}, NEW size \in DataSizes, ReceiveData(i, size)
  PROVE  Ranged(q') /\ Stocked(q')
<1>0. size \in Nat /\ DataSizes \subseteq Int
  BY Limits
<1>1. CASE q.lowBytes[i] + size <= MaxSize
  <2> DEFINE lo == [q.low EXCEPT ![i] = Append(@, size)]
             lb == [q.lowBytes EXCEPT ![i] = @ + size]
             s == [q EXCEPT !.low = lo, !.lowBytes = lb]
             t == NotInSeries(size, s)
  <2>1. Serve(t, pending)
    <3>1. s = [q EXCEPT !.low[i] = Append(@, size), !.lowBytes[i] = @ + size]
      BY DEF QState
    <3> QED BY <1>1, <3>1 DEF ReceiveData
  <2>2. /\ lo \in [{0, 1} -> Seq(DataSizes)] /\ lo[i] = Append(q.low[i], size)
        /\ \A j \in {0, 1} : j # i => lo[j] = q.low[j]
    <3>1. q.low \in [{0, 1} -> Seq(DataSizes)] /\ q.low[i] \in Seq(DataSizes)
      BY DEF QState
    <3>2. Append(q.low[i], size) \in Seq(DataSizes)
      BY <3>1, AppendProperties
    <3> QED BY <3>1, <3>2, Zenon
  <2>3. /\ lb \in [{0, 1} -> Int] /\ lb[i] = q.lowBytes[i] + size
        /\ \A j \in {0, 1} : j # i => lb[j] = q.lowBytes[j]
    <3>1. q.lowBytes \in [{0, 1} -> Int]
      BY DEF QState
    <3>2. q.lowBytes[i] + size \in Int
      BY <1>0, <3>1
    <3> QED BY <3>1, <3>2, Zenon
  <2> HIDE DEF lo, lb
  <2>4. /\ s \in QState /\ s.low = lo /\ s.lowBytes = lb /\ s.high = q.high
        /\ s.highBytes = q.highBytes /\ s.crt = q.crt /\ s.weightCnt = q.weightCnt
        /\ s.phantom = q.phantom
    BY <2>2, <2>3 DEF QState
  <2> HIDE DEF s
  <2>5. \A j \in {0, 1} : Sized(lb[j], lo[j]) /\ lb[j] <= MaxSize
    <3> TAKE j \in {0, 1}
    <3>1. CASE j # i
      BY <2>2, <2>3, <3>1 DEF Stocked
    <3>2. CASE j = i
      <4>1. Sized(q.lowBytes[i], q.low[i]) /\ q.low[i] \in Seq(DataSizes)
        BY DEF Stocked, QState
      <4>2. Sized(q.lowBytes[i] + size, Append(q.low[i], size))
        BY <1>0, <4>1, SizedAppend
      <4> QED BY <1>1, <2>2, <2>3, <3>2, <4>2
    <3> QED BY <3>1, <3>2
  <2>6. Ranged(s) /\ Stocked(s)
    BY <2>4, <2>5 DEF Ranged, Stocked
  <2>7. t \in QState /\ Ranged(t) /\ Stocked(t)
    BY <1>0, <2>4, <2>6, InSeriesFacts, InSeriesRanged, SameStocked
  <2> HIDE DEF t
  <2> QED BY <2>1, <2>7, ServeStocked
<1>2. CASE ~(q.lowBytes[i] + size <= MaxSize)
  <2>1. q' = NotInSeries(size, q)
    BY <1>2 DEF ReceiveData
  <2> QED BY <1>0, <2>1, InSeriesRanged, SameStocked
<1> QED BY <1>1, <1>2

LEMMA ReceiveHeaderStocked ==
  ASSUME q \in QState, Ranged(q), Stocked(q), NEW kind \in Kinds, ReceiveHeader(kind)
  PROVE  Ranged(q') /\ Stocked(q')
<1> DEFINE hi == Append(q.high, kind)
           hb == q.highBytes + HeaderSize
           s == [q EXCEPT !.high = hi, !.highBytes = hb]
<1>1. Serve(s, pending) /\ hb <= HighLimit
  BY DEF ReceiveHeader
<1>2. /\ hi \in Seq(Kinds) /\ Len(hi) = Len(q.high) + 1 /\ hb \in Int
      /\ hb = HeaderSize * Len(hi)
  <2>1. q.high \in Seq(Kinds) /\ q.highBytes \in Int /\ q.highBytes = HeaderSize * Len(q.high)
    BY DEF QState, Stocked
  <2>2. hi \in Seq(Kinds) /\ Len(hi) = Len(q.high) + 1 /\ Len(q.high) \in Nat
    BY <2>1, AppendProperties, LenProperties
  <2>3. HeaderSize * (Len(q.high) + 1) = HeaderSize * Len(q.high) + HeaderSize
    BY <2>2, Limits
  <2> QED BY <2>1, <2>2, <2>3, Limits
<1> HIDE DEF hi, hb
<1>3. /\ s \in QState /\ s.low = q.low /\ s.lowBytes = q.lowBytes
      /\ s.high = hi /\ s.highBytes = hb
      /\ s.crt = q.crt /\ s.weightCnt = q.weightCnt /\ s.phantom = q.phantom
  BY <1>2 DEF QState
<1> HIDE DEF s
<1>4. Ranged(s) /\ Stocked(s)
  BY <1>1, <1>2, <1>3 DEF Ranged, Stocked
<1> QED BY <1>1, <1>3, <1>4, ServeStocked

LEMMA CompleteServiceStocked ==
  ASSUME q \in QState, Working(q), Ranged(q), Stocked(q), NEW p, CompleteService(p),
         q.serv # "INVALID"
  PROVE  Ranged(q') /\ Stocked(q')
<1> DEFINE popped == IF q.serv = "LOW" THEN PopLowQueue(q) ELSE PopHigh(q)
           idle == [popped EXCEPT !.serv = "INVALID"]
           n == IF Begins(idle) THEN BeginService(idle).state ELSE idle
           m == [n EXCEPT !.firstTime = FALSE]
<1>1. q' = IF StartsClock THEN DecreasePhantom(m) ELSE n
  BY Zenon DEF CompleteService
<1>2. popped \in QState /\ Ranged(popped) /\ Stocked(popped)
  <2>1. q.serv \in {"LOW", "HIGH"}
    BY DEF QState
  <2>2. CASE q.serv = "LOW"
    BY <2>2, PopLowFacts, PopLowStocked DEF Working
  <2>3. CASE q.serv = "HIGH"
    BY <2>3, PopHighFacts, PopHighStocked DEF Working
  <2> QED BY <2>1, <2>2, <2>3
<1> HIDE DEF popped
<1>3. idle \in QState /\ Ranged(idle) /\ SameStock(popped, idle)
  BY <1>2 DEF QState, Ranged, SameStock
<1>4. Stocked(idle)
  BY <1>2, <1>3, SameStocked
<1> HIDE DEF idle
<1>5. Ranged(n) /\ Stocked(n)
  BY <1>3, <1>4, BeginServiceRanged, SameStocked
<1>6. n \in QState
  <2>1. CASE Begins(idle)
    <3>1. BeginService(idle).state \in QState
      <4> DEFINE c == IF Contended(idle) THEN NextTurn(idle) ELSE idle.crt
                 v == IF ServesHigh(idle) THEN "HIGH" ELSE "LOW"
      <4>1. BeginService(idle).state = [idle EXCEPT !.crt = c, !.serv = v]
        BY <1>3 DEF BeginService, QState
      <4>2. c \in Int
        <5>1. idle.crt \in Int
          BY <1>3 DEF QState
        <5> QED BY <5>1 DEF NextTurn
      <4> HIDE DEF c
      <4> QED BY <1>3, <4>1, <4>2 DEF QState
    <3> QED BY <2>1, <3>1
  <2> QED BY <1>3, <2>1
<1> HIDE DEF n
<1>7. m \in QState /\ Ranged(m) /\ SameStock(n, m)
  BY <1>5, <1>6 DEF QState, Ranged, SameStock
<1>8. Stocked(m)
  BY <1>5, <1>7, SameStocked
<1> HIDE DEF m
<1> QED BY <1>1, <1>5, <1>7, <1>8, DecreasePhantomRanged, SameStocked

LEMMA NextStocked ==
  ASSUME IInv, Ranged(q), Stocked(q), [Next]_vars
  PROVE  Ranged(q)' /\ Stocked(q)'
<1>0. q \in QState /\ Working(q)
  BY DEF IInv
<1> SUFFICES Ranged(q') /\ Stocked(q')
  BY DEF Ranged, Stocked, Sized, Sums
<1>1. ASSUME NEW i \in {0, 1}, NEW size \in DataSizes, ReceiveData(i, size)
      PROVE  Ranged(q') /\ Stocked(q')
  BY <1>0, <1>1, ReceiveDataStocked
<1>2. ASSUME NEW kind \in Kinds, ReceiveHeader(kind)
      PROVE  Ranged(q') /\ Stocked(q')
  BY <1>0, <1>2, ReceiveHeaderStocked
<1>3. CASE DoNextEvent
  <2>1. CASE IsTick(q)
    <3>1. q' = DecreasePhantom(q)
      BY <1>3, <2>1 DEF DoNextEvent
    <3> QED BY <1>0, <3>1, DecreasePhantomRanged, SameStocked
  <2>2. CASE ~IsTick(q)
    <3>1. CompleteService([pending EXCEPT ![0] = @ - 1]) /\ pending[0] > 0
      BY <1>3, <2>2 DEF DoNextEvent
    <3>2. q.serv # "INVALID"
      <4>1. PICK e \in Ends(q) : pending = Events(q, e)
        BY DEF IInv
      <4>2. OwedBy(q, 0) = 0
        BY <2>2 DEF OwedBy, IsTick
      <4>3. e = 0
        BY <3>1, <4>1, <4>2, EventsAt, Sizes DEF EndsAt
      <4> QED BY <4>1, <4>3 DEF Ends
    <3> QED BY <1>0, <3>1, <3>2, CompleteServiceStocked
  <2> QED BY <2>1, <2>2
<1>4. CASE Tick
  <2> DEFINE v == Max({q.phantomNext - 1, -1})
  <2>1. q' = [q EXCEPT !.phantomNext = v]
    BY <1>4 DEF Tick
  <2> HIDE DEF v
  <2>2. SameStock(q, q') /\ Ranged(q')
    BY <1>0, <2>1 DEF QState, Ranged, SameStock
  <2> QED BY <2>2, SameStocked
<1>5. CASE UNCHANGED vars
  BY <1>5 DEF vars
<1> QED BY <1>1, <1>2, <1>3, <1>4, <1>5 DEF Next

(* While a flow is active, the byte counts of the queue, which receivePacket()
   and completeService() keep apart from its buffers, are the sizes of what the
   buffers hold and within the limits, and its counters are in range. *)
THEOREM CountsAreSizes ==
  ASSUME FlowsActive PROVE Spec => []TypeOK
<1> DEFINE TInv == IInv /\ Ranged(q) /\ Stocked(q) /\ inSeries \in BOOLEAN
<1>1. Init => TInv
  <2> SUFFICES ASSUME Init PROVE TInv
    OBVIOUS
  <2>1. Ranged(q)
    BY Limits DEF Init, Ranged
  <2>2. Stocked(q)
    <3>1. Len(<<>>) = 0 /\ HeaderSize * 0 = 0
      BY EmptySeq, Limits
    <3> QED BY <3>1, SizedEmpty, Limits DEF Init, Stocked
  <2> QED BY <2>1, <2>2, InitEstablishes DEF Init
<1>2. TInv /\ [Next]_vars => TInv'
  <2> SUFFICES ASSUME TInv, [Next]_vars PROVE TInv'
    OBVIOUS
  <2>1. inSeries' = inSeries
    BY DEF Next, vars, ReceiveData, ReceiveHeader, DoNextEvent, Tick
  <2> QED BY <2>1, NextKeeps, NextStocked
<1>3. TInv => TypeOK
  <2> SUFFICES ASSUME TInv PROVE TypeOK
    OBVIOUS
  <2>1. q \in QState /\ \E e : pending = Events(q, e)
    BY DEF IInv
  <2>2. pending \in [0 .. Horizon -> 0 .. 2]
    BY <2>1, EventsType
  <2>3. ASSUME NEW i \in {0, 1}
        PROVE  /\ q.low[i] \in Seq(DataSizes) /\ q.lowBytes[i] <= MaxSize
               /\ q.lowBytes[i] = MapThenSumSet(LAMBDA k : q.low[i][k], DOMAIN q.low[i])
    <3>1. q.low[i] \in Seq(DataSizes) /\ Sized(q.lowBytes[i], q.low[i])
          /\ q.lowBytes[i] <= MaxSize
      BY <2>1 DEF QState, Stocked
    <3> QED BY <3>1, SizedIsSum
  <2> QED BY <2>1, <2>2, <2>3 DEF TypeOK, QState, Ranged, Stocked
<1> QED BY <1>1, <1>2, <1>3, PTL DEF Spec
=============================================================================
