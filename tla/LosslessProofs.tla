--------------------------- MODULE LosslessProofs ---------------------------
(***************************************************************************)
(* LosslessNet for all hosts, outputs, flows and times: the iterators stay *)
(* valid, PAUSE frames keep the two ends of a link in agreement, and the   *)
(* input queues are charged with what is in the switch, or was and has     *)
(* been dropped.  When moreover the outputs are too slow to empty an input *)
(* queue from the high threshold to the low one within one service of a    *)
(* host, a host serves one packet at a time, what comes after a PAUSE      *)
(* fits, and the network is to its flows a channel that keeps the order    *)
(* and loses only what the outputs drop.  Nothing is assumed of budgets.   *)
(* One lemma per action preserves each invariant.                          *)
(***************************************************************************)
EXTENDS LosslessNet, FiniteSetTheorems, SequenceTheorems, WellFoundedInduction, TLAPS

-----------------------------------------------------------------------------
(* The shapes of the state.                                                *)
AnyPacket == [flow : Flows, seq : Nat]
PacketsOf(h) == {p \in AnyPacket : Source[p.flow] = h}

Maps(h) == UNION {[F -> Seq(PacketsOf(h)) \ {<<>>}] : F \in SUBSET Flows}
PullQueues(h) ==
  {pq \in [map : Maps(h), current : Nat] : pq.current \in DOMAIN pq.map \cup {End}}

HostQueues(h) ==
  [queue : [Priorities -> PullQueues(h)], size : [Priorities -> Int],
   sending : PacketsOf(h) \cup {None}, servicing : Priorities \cup {Q_NONE},
   state : States, events : Seq(Int)]

OnWire(h) == [pkt : PacketsOf(h), left : Int]
InPipe == {x \in [pkt : AnyPacket, input : Hosts, left : Int] : Source[x.pkt.flow] = x.input}
Inputs == [size : Int, state : {READY, PAUSED}]
OutRecords ==
  [enqueued : Seq(AnyPacket), spare : Seq(Nat), popped : Seq(Flows), vq : Seq(Hosts),
   sending : BOOLEAN, state : States, left : Int]
OutQueues ==
  {q \in OutRecords : Len(q.spare) = Len(q.enqueued) /\ Len(q.enqueued) <= Len(q.vq)}

-----------------------------------------------------------------------------
(* The host queue.                                                         *)
LEMMA LeastOfNats ==
  ASSUME NEW S \in SUBSET Nat, S # {}
  PROVE  Least(S) \in S
<1> DEFINE R == {r \in Nat \X Nat : r[1] < r[2]}
<1>1. IsWellFoundedOn(R, Nat)
  BY NatLessThanWellFounded, Zenon DEF OpToRel
<1>2. PICK x \in S : \A y \in S : <<y, x>> \notin R
  <2> HIDE DEF R
  <2> QED BY <1>1, WFMin, Zenon
<1>3. ASSUME NEW y \in S  PROVE x <= y
  <2>1. x \in Nat /\ y \in Nat
    OBVIOUS
  <2>2. y < x => <<y, x>> \in R
    BY <2>1
  <2> HIDE DEF R
  <2> QED BY <1>2, <2>1, <2>2
<1> QED BY <1>3, Zenon DEF Least

LEMMA PullShape ==
  ASSUME NEW h, NEW F \in SUBSET Flows, NEW m \in [F -> Seq(PacketsOf(h)) \ {<<>>}],
         NEW c \in F \cup {End}
  PROVE  [map |-> m, current |-> c] \in PullQueues(h)
<1>1. m \in Maps(h) /\ DOMAIN m = F
  BY DEF Maps
<1>2. c \in Nat
  BY NetAssumption DEF End
<1> QED BY <1>1, <1>2 DEF PullQueues

LEMMA PullParts ==
  ASSUME NEW h, NEW pq \in PullQueues(h)
  PROVE  /\ pq = [map |-> pq.map, current |-> pq.current]
         /\ DOMAIN pq.map \in SUBSET Flows
         /\ pq.map \in [DOMAIN pq.map -> Seq(PacketsOf(h)) \ {<<>>}]
         /\ pq.current \in DOMAIN pq.map \cup {End}
  BY DEF PullQueues, Maps

(* A packet of the host's flows may come and go.                           *)
LEMMA EnqueueShape ==
  ASSUME NEW h, NEW pq \in PullQueues(h), NEW p \in PacketsOf(h)
  PROVE  Enqueue(pq, p) \in PullQueues(h)
<1> DEFINE F == DOMAIN pq.map \cup {p.flow}
           m == [f \in F |->
                   IF f # p.flow THEN pq.map[f]
                   ELSE IF f \in DOMAIN pq.map THEN Append(pq.map[f], p) ELSE <<p>>]
<1>1. F \in SUBSET Flows
  BY PullParts DEF PacketsOf, AnyPacket
<1>2. ASSUME NEW f \in F  PROVE m[f] \in Seq(PacketsOf(h)) \ {<<>>}
  <2>1. CASE f # p.flow
    BY <2>1, PullParts
  <2>2. CASE f = p.flow /\ f \in DOMAIN pq.map
    <3>1. pq.map[f] \in Seq(PacketsOf(h))
      BY <2>2, PullParts
    <3> QED BY <2>2, <3>1, AppendProperties
  <2>3. CASE f = p.flow /\ f \notin DOMAIN pq.map
    <3>1. m[f] = <<p>>
      BY <2>3
    <3>2. <<p>> \in Seq(PacketsOf(h)) /\ <<p>> # <<>>
      OBVIOUS
    <3> QED BY <3>1, <3>2
  <2> QED BY <2>1, <2>2, <2>3
<1>3. m \in [F -> Seq(PacketsOf(h)) \ {<<>>}]
  BY <1>2
<1>4. [map |-> m, current |-> pq.current] \in PullQueues(h)
  <2> HIDE DEF m
  <2> QED BY <1>1, <1>3, PullParts, PullShape
<1>5. Enqueue(pq, p) = [map |-> m, current |-> pq.current]
  <2>1. Enqueue(pq, p) = [pq EXCEPT !.map = m]
    BY DEF Enqueue
  <2> HIDE DEF m
  <2> QED BY <2>1, PullParts
<1> QED BY <1>4, <1>5

LEMMA TurnShape ==
  ASSUME NEW h, NEW pq \in PullQueues(h), DOMAIN pq.map # {}
  PROVE  Turn(pq) \in DOMAIN pq.map
<1>1. DOMAIN pq.map \in SUBSET Nat
  BY PullParts, NetAssumption
<1> QED BY <1>1, LeastOfNats, PullParts DEF Turn

LEMMA NextOutShape ==
  ASSUME NEW h, NEW pq \in PullQueues(h)
  PROVE  NextOut(pq) \in PacketsOf(h) \cup {None}
<1>1. CASE DOMAIN pq.map = {}
  BY <1>1 DEF NextOut
<1>2. CASE DOMAIN pq.map # {}
  <2>1. pq.map[Turn(pq)] \in Seq(PacketsOf(h)) \ {<<>>}
    BY <1>2, TurnShape, PullParts
  <2> QED BY <1>2, <2>1, HeadTailProperties DEF NextOut
<1> QED BY <1>1, <1>2

(* The iterator moves on before the entry it was at may go.                *)
LEMMA DequeueShape ==
  ASSUME NEW h, NEW pq \in PullQueues(h)
  PROVE  Dequeue(pq) \in PullQueues(h)
<1>1. CASE DOMAIN pq.map = {}
  BY <1>1 DEF Dequeue
<1>2. CASE DOMAIN pq.map # {}
  <2> DEFINE f == Turn(pq)
             rest == Tail(pq.map[f])
             F == IF rest = <<>> THEN DOMAIN pq.map \ {f} ELSE DOMAIN pq.map
             m == [g \in F |-> IF g = f THEN rest ELSE pq.map[g]]
  <2>1. f \in DOMAIN pq.map
    BY <1>2, TurnShape
  <2>2. rest \in Seq(PacketsOf(h))
    <3>1. pq.map[f] \in Seq(PacketsOf(h)) \ {<<>>}
      BY <2>1, PullParts
    <3> QED BY <3>1, HeadTailProperties
  <2>3. F \in SUBSET Flows
    BY PullParts
  <2>4. m \in [F -> Seq(PacketsOf(h)) \ {<<>>}]
    <3> HIDE DEF f
    <3> SUFFICES ASSUME NEW g \in F  PROVE m[g] \in Seq(PacketsOf(h)) \ {<<>>}
      OBVIOUS
    <3>1. CASE g = f
      BY <3>1, <2>2
    <3>2. CASE g # f
      BY <3>2, PullParts
    <3> QED BY <3>1, <3>2
  <2>5. Following(pq, f) \in F \cup {End}
    <3> DEFINE later == {g \in DOMAIN pq.map : g > f}
    <3>1. CASE later = {}
      BY <3>1 DEF Following
    <3>2. CASE later # {}
      <4>1. later \in SUBSET Nat /\ f \in Nat
        BY <2>1, PullParts, NetAssumption
      <4>2. Least(later) \in later
        BY <3>2, <4>1, LeastOfNats
      <4>3. Least(later) \in F
        BY <4>1, <4>2
      <4>4. Following(pq, f) = Least(later)
        BY <3>2 DEF Following
      <4> QED BY <4>3, <4>4
    <3> QED BY <3>1, <3>2
  <2>6. Dequeue(pq) = [map |-> m, current |-> Following(pq, f)]
    BY <1>2 DEF Dequeue
  <2> HIDE DEF m, F, rest, f
  <2> QED BY <2>3, <2>4, <2>5, <2>6, PullShape
<1> QED BY <1>1, <1>2

-----------------------------------------------------------------------------
(* The methods of the host queue keep its shape; what they do to its state *)
(* is that only a pause and a resume begin and end being held.             *)
LEMMA HostBeginShape ==
  ASSUME NEW h, NEW q \in HostQueues(h)
  PROVE  HostBegin(q) \in HostQueues(h) /\ HostBegin(q).state = q.state
<1>1. CASE QueueSize(q) = 0
  BY <1>1 DEF HostBegin
<1>2. CASE QueueSize(q) # 0
  <2> DEFINE c == IF q.size[Q_HI] > 0 THEN Q_HI ELSE Q_LO
  <2>1. c \in Priorities
    BY DEF Priorities
  <2> HIDE DEF c
  <2>2. q.queue[c] \in PullQueues(h)
    BY <2>1 DEF HostQueues
  <2> DEFINE next == NextOut(q.queue[c])
             rest == Dequeue(q.queue[c])
             es == Append(q.events, HostTime)
  <2>3. next \in PacketsOf(h) \cup {None} /\ rest \in PullQueues(h)
    BY <2>2, NextOutShape, DequeueShape
  <2>4. es \in Seq(Int)
    BY HostQueueAssumption, AppendProperties DEF HostQueues
  <2>5. HostBegin(q) = [q EXCEPT !.sending = next, !.queue[c] = rest,
                                 !.servicing = c, !.events = es]
    BY <1>2 DEF HostBegin, c
  <2> DEFINE Q == [q.queue EXCEPT ![c] = rest]
  <2>6. Q \in [Priorities -> PullQueues(h)]
    <3> HIDE DEF rest
    <3> QED BY <2>3 DEF HostQueues
  <2> HIDE DEF next, rest, es
  <2>7. HostBegin(q) = [queue |-> Q, size |-> q.size, sending |-> next,
                        servicing |-> c, state |-> q.state, events |-> es]
    BY <2>5 DEF HostQueues
  <2> HIDE DEF Q
  <2> QED BY <2>1, <2>3, <2>4, <2>6, <2>7 DEF HostQueues
<1> QED BY <1>1, <1>2

LEMMA HostReceiveShape ==
  ASSUME NEW h, NEW q \in HostQueues(h), NEW p \in PacketsOf(h), NEW c \in Priorities
  PROVE  HostReceive(q, p, c) \in HostQueues(h) /\ HostReceive(q, p, c).state = q.state
<1> DEFINE pq == Enqueue(q.queue[c], p)
           more == [q EXCEPT !.queue[c] = pq, !.size[c] = @ + 1]
<1>1. pq \in PullQueues(h)
  BY EnqueueShape DEF HostQueues
<1>2. more \in HostQueues(h) /\ more.state = q.state
  <2> HIDE DEF pq
  <2> DEFINE Q == [q.queue EXCEPT ![c] = pq]
             Z == [q.size EXCEPT ![c] = @ + 1]
  <2>1. Q \in [Priorities -> PullQueues(h)] /\ Z \in [Priorities -> Int]
    BY <1>1 DEF HostQueues
  <2> DEFINE one == [q EXCEPT !.queue[c] = pq]
  <2>3. one = [queue |-> Q, size |-> q.size, sending |-> q.sending,
               servicing |-> q.servicing, state |-> q.state, events |-> q.events]
    <3> HIDE DEF more
    <3>1. q = [queue |-> q.queue, size |-> q.size, sending |-> q.sending,
               servicing |-> q.servicing, state |-> q.state, events |-> q.events]
      BY DEF HostQueues
    <3>2. one = [q EXCEPT !.queue = Q]
      BY <3>1
    <3> HIDE DEF Q, one
    <3> QED BY <3>1, <3>2
  <2>4. more = [one EXCEPT !.size[c] = @ + 1]
    <3>1. one.size = q.size
      BY <2>3
    <3> QED BY <3>1
  <2>2. more = [queue |-> Q, size |-> Z, sending |-> q.sending,
                servicing |-> q.servicing, state |-> q.state, events |-> q.events]
    <3> HIDE DEF one, more
    <3> QED BY <2>3, <2>4
  <2> HIDE DEF Q, Z
  <2> QED BY <2>1, <2>2 DEF HostQueues
<1>3. HostReceive(q, p, c) \in {more, HostBegin(more)}
  BY DEF HostReceive
<1> HIDE DEF more
<1> QED BY <1>2, <1>3, HostBeginShape

LEMMA HostPauseShape ==
  ASSUME NEW h, NEW q \in HostQueues(h)
  PROVE  HostPause(q) \in HostQueues(h) /\ HostPause(q).state # READY
  BY DEF HostPause, HostQueues, States, READY, PAUSED, PAUSE_RECEIVED

LEMMA HostResumeShape ==
  ASSUME NEW h, NEW q \in HostQueues(h)
  PROVE  HostResume(q) \in HostQueues(h) /\ HostResume(q).state = READY
<1> DEFINE go == [q EXCEPT !.state = READY]
<1>1. go \in HostQueues(h) /\ go.state = READY
  BY DEF HostQueues, States
<1>2. HostResume(q) \in {go, HostBegin(go)}
  BY DEF HostResume
<1> HIDE DEF go
<1> QED BY <1>1, <1>2, HostBeginShape

LEMMA HostCompleteShape ==
  ASSUME NEW h, NEW q \in HostQueues(h)
  PROVE  /\ HostComplete(q) \in HostQueues(h)
         /\ HostComplete(q).state = READY <=> q.state = READY
<1>1. CASE q.state = PAUSED
  BY <1>1 DEF HostComplete
<1>2. CASE q.state # PAUSED
  <2> DEFINE left == IF HostSends(q)
                     THEN [q EXCEPT !.size[q.servicing] = @ - 1, !.sending = None]
                     ELSE q
             held == [left EXCEPT !.state = IF @ = PAUSE_RECEIVED THEN PAUSED ELSE @]
             idle == [held EXCEPT !.servicing = Q_NONE]
  <2>1. left \in HostQueues(h) /\ left.state = q.state
    <3>1. CASE HostSends(q)
      <4>1. q.servicing \in Priorities
        BY <3>1 DEF HostSends, HostQueues
      <4> DEFINE Z == [q.size EXCEPT ![q.servicing] = @ - 1]
      <4>2. Z \in [Priorities -> Int]
        BY <4>1 DEF HostQueues
      <4>3. left = [queue |-> q.queue, size |-> Z, sending |-> None,
                    servicing |-> q.servicing, state |-> q.state, events |-> q.events]
        BY <3>1 DEF HostQueues
      <4> HIDE DEF Z, left
      <4> QED BY <4>2, <4>3 DEF HostQueues
    <3>2. CASE ~HostSends(q)
      BY <3>2
    <3> QED BY <3>1, <3>2
  <2>2. held \in HostQueues(h) /\ (held.state = READY <=> q.state = READY)
    <3> HIDE DEF left
    <3> QED BY <2>1 DEF HostQueues, States, READY, PAUSED, PAUSE_RECEIVED
  <2>3. HostComplete(q) \in {HostBegin(held), idle}
    BY <1>2 DEF HostComplete
  <2>4. idle \in HostQueues(h) /\ idle.state = held.state
    <3> HIDE DEF held
    <3> QED BY <2>2 DEF HostQueues
  <2> HIDE DEF held, idle
  <2> QED BY <2>2, <2>3, <2>4, HostBeginShape
<1> QED BY <1>1, <1>2

LEMMA NewHostShape ==
  ASSUME NEW h
  PROVE  NewHostQueue \in HostQueues(h) /\ NewHostQueue.state = READY
<1>1. EmptyPull \in PullQueues(h)
  <2>1. <<>> \in [{} -> Seq(PacketsOf(h)) \ {<<>>}]
    OBVIOUS
  <2> QED BY <2>1, PullShape DEF EmptyPull
<1>2. <<>> \in Seq(Int)
  OBVIOUS
<1> QED BY <1>1, <1>2 DEF NewHostQueue, HostQueues, States

-----------------------------------------------------------------------------
(* Counting what is in the switch when the first of a queue goes.          *)
LEMMA ShiftDown ==
  ASSUME NEW A \in SUBSET (Nat \ {0}), IsFiniteSet(A),
         NEW B, B = {i \in Nat \ {0} : i + 1 \in A}
  PROVE  /\ IsFiniteSet(B)
         /\ Cardinality(A) = Cardinality(B) + (IF 1 \in A THEN 1 ELSE 0)
<1> DEFINE C == A \ {1}
           f == [i \in C |-> i - 1]
<1>1. f \in Bijection(C, B)
  <2>1. f \in [C -> B]
    OBVIOUS
  <2>2. \A a, b \in C : f[a] = f[b] => a = b
    OBVIOUS
  <2>3. \A t \in B : \E s \in C : f[s] = t
    <3> SUFFICES ASSUME NEW t \in B  PROVE \E s \in C : f[s] = t
      OBVIOUS
    <3>1. t + 1 \in C /\ f[t + 1] = t
      OBVIOUS
    <3> QED BY <3>1
  <2> HIDE DEF f, C
  <2> QED BY <2>1, <2>2, <2>3 DEF Bijection, Injection, IsInjective, Surjection
<1>2. IsFiniteSet(C) /\ Cardinality(C) = Cardinality(A) - (IF 1 \in A THEN 1 ELSE 0)
  BY FS_RemoveElement, FS_CardinalityType
<1>3. IsFiniteSet(B) /\ Cardinality(B) = Cardinality(C)
  <2>1. ExistsBijection(C, B)
    BY <1>1 DEF ExistsBijection
  <2> HIDE DEF C
  <2> QED BY <1>2, <2>1, FS_Bijection
<1>4. Cardinality(A) \in Nat /\ Cardinality(B) \in Nat
  BY <1>3, FS_CardinalityType
<1> HIDE DEF C
<1> QED BY <1>2, <1>3, <1>4

LEMMA ShiftPairsDown ==
  ASSUME NEW D, NEW o \in D, NEW A \in SUBSET (D \X (Nat \ {0})), IsFiniteSet(A),
         NEW B, B = {x \in D \X (Nat \ {0}) :
                       IF x[1] = o THEN <<o, x[2] + 1>> \in A ELSE x \in A}
  PROVE  /\ IsFiniteSet(B)
         /\ Cardinality(A) = Cardinality(B) + (IF <<o, 1>> \in A THEN 1 ELSE 0)
<1> DEFINE C == A \ {<<o, 1>>}
           f == [x \in C |-> IF x[1] = o THEN <<o, x[2] - 1>> ELSE x]
<1>1. f \in Bijection(C, B)
  <2>1. f \in [C -> B]
    <3> SUFFICES ASSUME NEW x \in C  PROVE f[x] \in B
      OBVIOUS
    <3>1. PICK d \in D, i \in Nat \ {0} : x = <<d, i>>
      OBVIOUS
    <3>2. CASE d = o
      <4>1. i # 1
        BY <3>1, <3>2
      <4>2. f[x] = <<o, i - 1>> /\ i - 1 \in Nat \ {0} /\ (i - 1) + 1 = i
        BY <3>1, <3>2, <4>1
      <4>3. <<o, i - 1>> \in D \X (Nat \ {0}) /\ <<o, (i - 1) + 1>> \in A
        BY <3>1, <3>2, <4>2
      <4> QED BY <4>2, <4>3
    <3>3. CASE d # o
      BY <3>1, <3>3
    <3> QED BY <3>2, <3>3
  <2>2. ASSUME NEW a \in C, NEW b \in C, f[a] = f[b]  PROVE a = b
    <3>1. PICK d \in D, i \in Nat \ {0} : a = <<d, i>>
      OBVIOUS
    <3>2. PICK e \in D, j \in Nat \ {0} : b = <<e, j>>
      OBVIOUS
    <3> QED BY <2>2, <3>1, <3>2
  <2>3. ASSUME NEW t \in B  PROVE \E s \in C : f[s] = t
    <3>1. PICK d \in D, i \in Nat \ {0} : t = <<d, i>>
      OBVIOUS
    <3>2. CASE d = o
      <4>1. <<o, i + 1>> \in A /\ i + 1 # 1 /\ (i + 1) - 1 = i
        BY <3>1, <3>2
      <4>2. <<o, i + 1>> \in C
        BY <4>1
      <4> HIDE DEF C
      <4>3. f[<<o, i + 1>>] = <<o, (i + 1) - 1>>
        BY <4>2
      <4>4. f[<<o, i + 1>>] = t
        BY <3>1, <3>2, <4>1, <4>3
      <4> HIDE DEF f
      <4> QED BY <4>2, <4>4
    <3>3. CASE d # o
      <4>1. t \in C /\ f[t] = t
        BY <3>1, <3>3
      <4> QED BY <4>1
    <3> QED BY <3>2, <3>3
  <2> HIDE DEF f, C
  <2> QED BY <2>1, <2>2, <2>3 DEF Bijection, Injection, IsInjective, Surjection
<1>2. IsFiniteSet(C) /\ Cardinality(C) = Cardinality(A) - (IF <<o, 1>> \in A THEN 1 ELSE 0)
  BY FS_RemoveElement, FS_CardinalityType
<1>3. IsFiniteSet(B) /\ Cardinality(B) = Cardinality(C)
  <2>1. ExistsBijection(C, B)
    BY <1>1 DEF ExistsBijection
  <2> HIDE DEF C
  <2> QED BY <1>2, <2>1, FS_Bijection
<1>4. Cardinality(A) \in Nat /\ Cardinality(B) \in Nat
  BY <1>3, FS_CardinalityType
<1> HIDE DEF C
<1> QED BY <1>2, <1>3, <1>4

-----------------------------------------------------------------------------
(* Of a function that is updated at one argument.                          *)
LEMMA UpdatedAt ==
  ASSUME NEW S, NEW f, f = [b \in S |-> f[b]], NEW a, NEW v,
         NEW g, g = [f EXCEPT ![a] = v]
  PROVE  /\ g = [b \in S |-> g[b]]
         /\ \A b \in S : g[b] = IF b = a THEN v ELSE f[b]
  OBVIOUS

-----------------------------------------------------------------------------
(* Host queues and input queues: an invariant that does not ask where the  *)
(* packets are.                                                            *)
NicShape == nic = [h \in Hosts |-> nic[h]] /\ \A h \in Hosts : nic[h] \in HostQueues(h)
InpShape == inp = [h \in Hosts |-> inp[h]] /\ \A h \in Hosts : inp[h] \in Inputs
SentShape == sent \in [Flows -> Nat]

HostInv == NicShape /\ InpShape /\ SentShape /\ PauseAgrees

LEMMA HostInvInit == Init => HostInv
<1> SUFFICES ASSUME Init  PROVE HostInv
  OBVIOUS
<1>1. NicShape
  BY NewHostShape DEF Init, NicShape
<1>2. InpShape
  BY DEF Init, InpShape, NewInput, Inputs
<1>3. SentShape
  BY DEF Init, SentShape
<1>4. \A h \in Hosts : nic[h].state = READY
  BY NewHostShape DEF Init
<1>5. PauseAgrees
  BY <1>4, LosslessAssumption DEF Init, PauseAgrees, NewInput, READY, PAUSED
<1> QED BY <1>1, <1>2, <1>3, <1>5 DEF HostInv

(* A step on one host queue that neither holds it nor lets it go.          *)
LEMMA HostStep ==
  ASSUME HostInv, NEW h \in Hosts, NEW q \in HostQueues(h),
         q.state = READY <=> nic[h].state = READY,
         nic' = [nic EXCEPT ![h] = q], inp' = inp
  PROVE  NicShape' /\ InpShape' /\ PauseAgrees'
<1>1. /\ nic' = [g \in Hosts |-> nic'[g]]
      /\ \A g \in Hosts : nic'[g] = IF g = h THEN q ELSE nic[g]
  BY UpdatedAt DEF HostInv, NicShape
<1>2. NicShape'
  BY <1>1 DEF HostInv, NicShape
<1>3. InpShape'
  BY DEF HostInv, InpShape
<1>4. PauseAgrees'
  BY <1>1 DEF HostInv, PauseAgrees
<1> QED BY <1>2, <1>3, <1>4

(* A step on the two ends of one link that leaves them in agreement.       *)
LEMMA LinkStep ==
  ASSUME HostInv, NEW h \in Hosts, NEW q \in HostQueues(h), NEW i \in Inputs,
         nic' = [nic EXCEPT ![h] = q], inp' = [inp EXCEPT ![h] = i],
         q.state # READY <=> i.state = PAUSED,
         i.state = PAUSED => i.size >= Low, i.state = READY => i.size <= High
  PROVE  NicShape' /\ InpShape' /\ PauseAgrees'
<1>1. /\ nic' = [g \in Hosts |-> nic'[g]]
      /\ \A g \in Hosts : nic'[g] = IF g = h THEN q ELSE nic[g]
  BY UpdatedAt DEF HostInv, NicShape
<1>2. /\ inp' = [g \in Hosts |-> inp'[g]]
      /\ \A g \in Hosts : inp'[g] = IF g = h THEN i ELSE inp[g]
  BY UpdatedAt DEF HostInv, InpShape
<1>3. NicShape'
  BY <1>1 DEF HostInv, NicShape
<1>4. InpShape'
  BY <1>2 DEF HostInv, InpShape
<1>5. PauseAgrees'
  BY <1>1, <1>2 DEF HostInv, PauseAgrees
<1> QED BY <1>3, <1>4, <1>5

LEMMA SendKeepsHosts ==
  ASSUME HostInv, NEW f \in Flows, Send(f)
  PROVE  HostInv'
<1> DEFINE h == Source[f]
           p == [flow |-> f, seq |-> sent[f] + 1]
           q == HostReceive(nic[h], p, Prio[f])
<1>1. h \in Hosts /\ Prio[f] \in Priorities
  BY NetAssumption
<1>2. p \in PacketsOf(h)
  BY DEF HostInv, SentShape, PacketsOf, AnyPacket
<1>3. q \in HostQueues(h) /\ q.state = nic[h].state
  BY <1>1, <1>2, HostReceiveShape DEF HostInv, NicShape
<1>4. nic' = [nic EXCEPT ![h] = q] /\ inp' = inp
  BY DEF Send
<1> HIDE DEF q, h
<1>5. NicShape' /\ InpShape' /\ PauseAgrees'
  BY <1>1, <1>3, <1>4, HostStep
<1>6. SentShape'
  BY DEF Send, HostInv, SentShape
<1> QED BY <1>5, <1>6 DEF HostInv

(* The event that runs is taken out of the list.                           *)
LEMMA EventRunShape ==
  ASSUME NEW h, NEW q \in HostQueues(h), NEW i \in 1 .. Len(q.events), NEW r,
         r = [q EXCEPT !.events =
                [j \in 1 .. Len(q.events) - 1 |->
                   IF j < i THEN q.events[j] ELSE q.events[j + 1]]]
  PROVE  r \in HostQueues(h) /\ r.state = q.state
<1> DEFINE es == q.events
           fs == [j \in 1 .. Len(es) - 1 |-> IF j < i THEN es[j] ELSE es[j + 1]]
<1>1. es \in Seq(Int)
  BY DEF HostQueues
<1>2. fs \in Seq(Int)
  <2>1. Len(es) - 1 \in Nat
    BY <1>1
  <2>2. \A j \in 1 .. Len(es) - 1 : fs[j] \in Int
    BY <1>1
  <2>3. fs \in [1 .. Len(es) - 1 -> Int]
    BY <2>2
  <2> HIDE DEF fs
  <2> QED BY <2>1, <2>3
<1>3. r = [q EXCEPT !.events = fs]
  OBVIOUS
<1> HIDE DEF fs
<1> QED BY <1>2, <1>3 DEF HostQueues

LEMMA HostEventKeepsHosts ==
  ASSUME HostInv, NEW h \in Hosts, HostEvent(h)
  PROVE  HostInv'
<1>1. PICK i \in DueEvents(h) :
        nic' = [nic EXCEPT ![h] =
                  HostComplete([nic[h] EXCEPT !.events =
                     [j \in 1 .. Len(nic[h].events) - 1 |->
                        IF j < i THEN nic[h].events[j] ELSE nic[h].events[j + 1]]])]
  BY DEF HostEvent
<1> DEFINE r == [nic[h] EXCEPT !.events =
                   [j \in 1 .. Len(nic[h].events) - 1 |->
                      IF j < i THEN nic[h].events[j] ELSE nic[h].events[j + 1]]]
<1>2. r \in HostQueues(h) /\ r.state = nic[h].state
  BY EventRunShape DEF DueEvents, HostInv, NicShape
<1>3. nic' = [nic EXCEPT ![h] = HostComplete(r)] /\ inp' = inp /\ sent' = sent
  BY <1>1 DEF HostEvent
<1> HIDE DEF r
<1>4. HostComplete(r) \in HostQueues(h) /\ (HostComplete(r).state = READY <=> r.state = READY)
  BY <1>2, HostCompleteShape
<1>5. NicShape' /\ InpShape' /\ PauseAgrees'
  BY <1>2, <1>3, <1>4, HostStep
<1>6. SentShape'
  BY <1>3 DEF HostInv, SentShape
<1> QED BY <1>5, <1>6 DEF HostInv

LEMMA WireEventKeepsHosts ==
  ASSUME HostInv, NEW h \in Hosts, WireEvent(h)
  PROVE  HostInv'
<1> DEFINE q == IF SendsPause(inp[h]) THEN HostPause(nic[h]) ELSE nic[h]
           i == InputReceive(inp[h])
<1>1. q \in HostQueues(h) /\ (SendsPause(inp[h]) => q.state # READY)
  BY HostPauseShape DEF HostInv, NicShape
<1>2. i \in Inputs
  BY DEF HostInv, InpShape, Inputs, InputReceive
<1>3. nic' = [nic EXCEPT ![h] = q] /\ inp' = [inp EXCEPT ![h] = i]
  BY DEF WireEvent, HostInv, NicShape
<1>4. /\ nic[h].state # READY <=> inp[h].state = PAUSED
      /\ inp[h].state = PAUSED => inp[h].size >= Low
      /\ inp[h].state = READY => inp[h].size <= High
      /\ inp[h] \in Inputs
  BY DEF HostInv, PauseAgrees, InpShape
<1>5. /\ q.state # READY <=> i.state = PAUSED
      /\ i.state = PAUSED => i.size >= Low
      /\ i.state = READY => i.size <= High
  BY <1>1, <1>4, LosslessAssumption DEF InputReceive, SendsPause, Inputs, READY, PAUSED
<1> HIDE DEF q, i
<1>6. NicShape' /\ InpShape' /\ PauseAgrees'
  BY <1>1, <1>2, <1>3, <1>5, LinkStep
<1>7. SentShape'
  BY DEF WireEvent, HostInv, SentShape
<1> QED BY <1>6, <1>7 DEF HostInv

(* The packet that leaves an output may lift the pause of the host it is   *)
(* credited to, which is then below the low threshold.                     *)
LEMMA OutEventKeepsHosts ==
  ASSUME HostInv, NEW o \in Outputs, OutEvent(o)
  PROVE  HostInv'
<1>1. SentShape'
  BY DEF OutEvent, HostInv, SentShape
<1>2. CASE UNCHANGED <<nic, inp>>
  BY <1>1, <1>2 DEF HostInv, NicShape, InpShape, PauseAgrees
<1>3. CASE ~UNCHANGED <<nic, inp>>
  <2> DEFINE h == Head(Filtered(out[o], transport.exempt).vq)
             q == IF SendsResume(inp[h]) THEN HostResume(nic[h]) ELSE nic[h]
             i == InputCompleted(inp[h])
  <2>1. /\ inp' = [inp EXCEPT ![h] = i]
        /\ nic' = IF SendsResume(inp[h]) THEN [nic EXCEPT ![h] = HostResume(@)] ELSE nic
    BY <1>3 DEF OutEvent
  <2>2. h \in Hosts
    BY <1>3, <2>1 DEF HostInv, NicShape, InpShape
  <2>3. nic' = [nic EXCEPT ![h] = q]
    BY <2>1, <2>2 DEF HostInv, NicShape
  <2>4. q \in HostQueues(h) /\ (SendsResume(inp[h]) => q.state = READY)
    BY <2>2, HostResumeShape DEF HostInv, NicShape
  <2>5. i \in Inputs
    BY <2>2 DEF HostInv, InpShape, Inputs, InputCompleted
  <2>6. /\ nic[h].state # READY <=> inp[h].state = PAUSED
        /\ inp[h].state = PAUSED => inp[h].size >= Low
        /\ inp[h].state = READY => inp[h].size <= High
        /\ inp[h] \in Inputs
    BY <2>2 DEF HostInv, PauseAgrees, InpShape
  <2>7. /\ q.state # READY <=> i.state = PAUSED
        /\ i.state = PAUSED => i.size >= Low
        /\ i.state = READY => i.size <= High
    BY <2>4, <2>6, LosslessAssumption DEF InputCompleted, SendsResume, Inputs, READY, PAUSED
  <2> HIDE DEF q, i, h
  <2>8. NicShape' /\ InpShape' /\ PauseAgrees'
    BY <2>1, <2>2, <2>3, <2>4, <2>5, <2>7, LinkStep
  <2> QED BY <1>1, <2>8 DEF HostInv
<1> QED BY <1>2, <1>3

LEMMA TickKeepsHosts ==
  ASSUME HostInv, Tick
  PROVE  HostInv'
<1>1. ASSUME NEW h \in Hosts
      PROVE  nic'[h] \in HostQueues(h) /\ nic'[h].state = nic[h].state
  <2> DEFINE es == [i \in DOMAIN nic[h].events |-> nic[h].events[i] - 1]
  <2>1. nic'[h] = [nic[h] EXCEPT !.events = es]
    BY DEF Tick
  <2>2. nic[h] \in HostQueues(h)
    BY DEF HostInv, NicShape
  <2>3. es \in Seq(Int)
    <3>1. nic[h].events \in Seq(Int)
      BY <2>2 DEF HostQueues
    <3>2. es \in [1 .. Len(nic[h].events) -> Int] /\ Len(nic[h].events) \in Nat
      BY <3>1
    <3> HIDE DEF es
    <3> QED BY <3>2
  <2> HIDE DEF es
  <2> QED BY <2>1, <2>2, <2>3 DEF HostQueues
<1>2. nic' = [h \in Hosts |-> nic'[h]]
  BY DEF Tick
<1>3. UNCHANGED <<inp, sent>>
  BY DEF Tick
<1> QED BY <1>1, <1>2, <1>3 DEF HostInv, NicShape, InpShape, SentShape, PauseAgrees

LEMMA HostInvNext == HostInv /\ [Next]_vars => HostInv'
<1> SUFFICES ASSUME HostInv, [Next]_vars  PROVE HostInv'
  OBVIOUS
<1>1. ASSUME NEW f \in Flows, Send(f)  PROVE HostInv'
  BY <1>1, SendKeepsHosts
<1>2. ASSUME NEW h \in Hosts, HostEvent(h)  PROVE HostInv'
  BY <1>2, HostEventKeepsHosts
<1>3. ASSUME NEW h \in Hosts, WireEvent(h)  PROVE HostInv'
  BY <1>3, WireEventKeepsHosts
<1>4. ASSUME NEW o \in Outputs, OutEvent(o)  PROVE HostInv'
  BY <1>4, OutEventKeepsHosts
<1>5. CASE Tick
  BY <1>5, TickKeepsHosts
<1>6. CASE UNCHANGED <<nic, inp, sent>>
  BY <1>6 DEF HostInv, NicShape, InpShape, SentShape, PauseAgrees
<1>7. FabricEvent => UNCHANGED <<nic, inp, sent>>
  BY DEF FabricEvent
<1>8. \A o \in Outputs : PausedFromBehind(o) \/ ResumedFromBehind(o) => UNCHANGED <<nic, inp, sent>>
  BY DEF PausedFromBehind, ResumedFromBehind
<1>9. UNCHANGED vars => UNCHANGED <<nic, inp, sent>>
  BY DEF vars
<1> QED BY <1>1, <1>2, <1>3, <1>4, <1>5, <1>6, <1>7, <1>8, <1>9 DEF Next, RunEvents

THEOREM HostInvAlways == Spec => []HostInv
<1>1. Init => HostInv
  BY HostInvInit
<1>2. HostInv /\ [Next]_vars => HostInv'
  BY HostInvNext
<1> QED BY <1>1, <1>2, PTL DEF Spec

(* PAUSE frames keep the queue of a host held exactly while the input      *)
(* queue of its link is filled (FairPriorityQueue::receivePacket and       *)
(* LosslessInputQueue), whatever is dropped.                               *)
THEOREM PauseAgreesAlways == Spec => []PauseAgrees
<1>1. HostInv => PauseAgrees
  BY DEF HostInv
<1> QED BY <1>1, HostInvAlways, PTL

(* FairPullQueue's iterator is never left on an entry that dequeue erased. *)
THEOREM IteratorValidAlways == Spec => []IteratorValid
<1>1. HostInv => IteratorValid
  <2> SUFFICES ASSUME HostInv, NEW h \in Hosts, NEW c \in Priorities
               PROVE  nic[h].queue[c].current \in DOMAIN nic[h].queue[c].map \cup {End}
    BY DEF IteratorValid
  <2>1. nic[h].queue[c] \in PullQueues(h)
    BY DEF HostInv, NicShape, HostQueues
  <2> QED BY <2>1, PullParts
<1> QED BY <1>1, HostInvAlways, PTL

-----------------------------------------------------------------------------
(* What an input queue is charged with: packets of its host on their way   *)
(* to an output, and the entries for it in the outputs.                    *)
WireShape == wire = [h \in Hosts |-> wire[h]] /\ \A h \in Hosts : wire[h] \in Seq(OnWire(h))
FabricShape == fabric \in Seq(InPipe)
OutShape == out = [o \in Outputs |-> out[o]] /\ \A o \in Outputs : out[o] \in OutQueues

TransportShape == transport \in [budget : [Flows -> Nat], exempt : SUBSET Flows]

Places == Outputs \X (Nat \ {0})
Mine(s, h) == {i \in Nat \ {0} : i <= Len(s) /\ s[i].input = h}
Stored(q, h) ==
  {x \in Places : x[2] <= Len(q[x[1]].vq) /\ q[x[1]].vq[x[2]] = h}

Charge(h) ==
  /\ IsFiniteSet(Mine(fabric, h)) /\ IsFiniteSet(Stored(out, h))
  /\ inp[h].size = Cardinality(Mine(fabric, h)) + Cardinality(Stored(out, h))

IInv ==
  /\ HostInv /\ WireShape /\ FabricShape /\ OutShape /\ TransportShape
  /\ \A h \in Hosts : Charge(h)

LEMMA ChargeMeaning ==
  ASSUME IInv, NEW h \in Hosts
  PROVE  inp[h].size = Cardinality(InFabric(h)) + Cardinality(InOutputs(h))
<1>1. Mine(fabric, h) = InFabric(h)
  BY DEF IInv, FabricShape, Mine, InFabric
<1>2. Stored(out, h) = InOutputs(h)
  <2>1. ASSUME NEW o \in Outputs
        PROVE  DOMAIN out[o].vq = 1 .. Len(out[o].vq) /\ Len(out[o].vq) \in Nat
    BY DEF IInv, OutShape, OutQueues, OutRecords
  <2>2. ASSUME NEW x \in Stored(out, h)  PROVE x \in InOutputs(h)
    <3>1. PICK o \in Outputs, i \in Nat \ {0} : x = <<o, i>>
      BY DEF Stored, Places
    <3>2. i \in DOMAIN out[o].vq /\ out[o].vq[i] = h
      BY <2>1, <3>1 DEF Stored
    <3> QED BY <3>1, <3>2 DEF InOutputs
  <2>3. ASSUME NEW x \in InOutputs(h)  PROVE x \in Stored(out, h)
    <3>1. PICK o \in Outputs : x \in {o} \X DOMAIN out[o].vq
      BY DEF InOutputs
    <3>2. PICK i \in DOMAIN out[o].vq : x = <<o, i>>
      BY <3>1
    <3>3. out[o].vq[i] = h
      BY <3>2 DEF InOutputs
    <3> QED BY <2>1, <3>2, <3>3 DEF Stored, Places
  <2> QED BY <2>2, <2>3
<1> QED BY <1>1, <1>2 DEF IInv, Charge

LEMMA IInvInit == Init => IInv
<1> SUFFICES ASSUME Init  PROVE IInv
  OBVIOUS
<1>1. WireShape /\ FabricShape
  BY DEF Init, WireShape, FabricShape
<1>2. OutShape /\ TransportShape
  BY NetAssumption DEF Init, OutShape, OutQueues, OutRecords, NewOutput, States, TransportShape
<1>3. ASSUME NEW h \in Hosts  PROVE Charge(h)
  <2>1. Mine(fabric, h) = {} /\ Stored(out, h) = {}
    BY DEF Init, Mine, Stored, Places, NewOutput
  <2>2. inp[h].size = 0
    BY DEF Init, NewInput
  <2>3. IsFiniteSet({}) /\ Cardinality({}) = 0
    BY FS_EmptySet
  <2> QED BY <2>1, <2>2, <2>3 DEF Charge
<1> QED BY <1>1, <1>2, <1>3, HostInvInit DEF IInv

-----------------------------------------------------------------------------
(* How the counts change: a pipe that takes a packet, a pipe that delivers *)
(* one, a buffer that takes a packet, a buffer that hands one on.          *)
LEMMA MineAppended ==
  ASSUME NEW s \in Seq(InPipe), NEW x \in InPipe, NEW h, IsFiniteSet(Mine(s, h))
  PROVE  /\ IsFiniteSet(Mine(Append(s, x), h))
         /\ Cardinality(Mine(Append(s, x), h))
              = Cardinality(Mine(s, h)) + (IF x.input = h THEN 1 ELSE 0)
<1> DEFINE t == Append(s, x)
           n == Len(s) + 1
<1>1. /\ Len(t) = n /\ t[n] = x /\ Len(s) \in Nat
      /\ \A i \in 1 .. Len(s) : t[i] = s[i]
  BY AppendProperties
<1> HIDE DEF t
<1>2. CASE x.input = h
  <2>1. Mine(t, h) = Mine(s, h) \cup {n}
    BY <1>1, <1>2 DEF Mine
  <2>2. n \notin Mine(s, h)
    BY <1>1 DEF Mine
  <2> QED BY <1>2, <2>1, <2>2, FS_AddElement DEF t
<1>3. CASE x.input # h
  <2>1. Mine(t, h) = Mine(s, h)
    BY <1>1, <1>3 DEF Mine
  <2> QED BY <1>3, <2>1, FS_CardinalityType DEF t
<1> QED BY <1>2, <1>3

LEMMA MineTail ==
  ASSUME NEW s \in Seq(InPipe), s # <<>>, NEW h, IsFiniteSet(Mine(s, h))
  PROVE  /\ IsFiniteSet(Mine(Tail(s), h))
         /\ Cardinality(Mine(s, h))
              = Cardinality(Mine(Tail(s), h)) + (IF Head(s).input = h THEN 1 ELSE 0)
<1> DEFINE t == Tail(s)
<1>1. /\ Len(s) \in Nat \ {0} /\ Len(t) = Len(s) - 1 /\ Head(s) = s[1]
      /\ \A i \in 1 .. Len(t) : t[i] = s[i + 1]
  BY HeadTailProperties, EmptySeq
<1> HIDE DEF t
<1>2. Mine(t, h) = {i \in Nat \ {0} : i + 1 \in Mine(s, h)}
  BY <1>1 DEF Mine
<1>3. 1 \in Mine(s, h) <=> Head(s).input = h
  BY <1>1 DEF Mine
<1>4. Mine(s, h) \in SUBSET (Nat \ {0})
  BY DEF Mine
<1> QED BY <1>2, <1>3, <1>4, ShiftDown DEF t

LEMMA StoredAppended ==
  ASSUME NEW o \in Outputs, NEW q, NEW r, NEW h, NEW p \in Hosts,
         \A a \in Outputs : q[a].vq \in Seq(Hosts),
         \A a \in Outputs : r[a].vq = IF a = o THEN Append(q[o].vq, p)
                                                     ELSE q[a].vq,
         IsFiniteSet(Stored(q, h))
  PROVE  /\ IsFiniteSet(Stored(r, h))
         /\ Cardinality(Stored(r, h))
              = Cardinality(Stored(q, h)) + (IF p = h THEN 1 ELSE 0)
<1> DEFINE s == q[o].vq
           t == Append(s, p)
           n == Len(s) + 1
<1>1. /\ Len(t) = n /\ t[n] = p /\ Len(s) \in Nat
      /\ \A i \in 1 .. Len(s) : t[i] = s[i]
  BY AppendProperties
<1>2. /\ r[o].vq = t /\ q[o].vq = s
      /\ \A a \in Outputs \ {o} : r[a].vq = q[a].vq
  OBVIOUS
<1> HIDE DEF t, s
<1>3. ASSUME NEW a \in Outputs, NEW i \in Nat \ {0}
      PROVE  <<a, i>> \in Stored(r, h)
               <=> \/ <<a, i>> \in Stored(q, h)
                   \/ p = h /\ <<a, i>> = <<o, n>>
  <2>1. CASE a # o
    BY <1>2, <2>1 DEF Stored, Places
  <2>2. CASE a = o /\ i <= Len(s)
    BY <1>1, <1>2, <2>2 DEF Stored, Places
  <2>3. CASE a = o /\ i = n
    BY <1>1, <1>2, <2>3 DEF Stored, Places
  <2>4. CASE a = o /\ i > n
    BY <1>1, <1>2, <2>4 DEF Stored, Places
  <2> QED BY <1>1, <2>1, <2>2, <2>3, <2>4
<1>4. <<o, n>> \notin Stored(q, h) /\ <<o, n>> \in Places
  BY <1>1, <1>2 DEF Stored, Places
<1>5. Stored(r, h) \in SUBSET Places /\ Stored(q, h) \in SUBSET Places
  BY DEF Stored
<1>6. CASE p = h
  <2>1. Stored(r, h) = Stored(q, h) \cup {<<o, n>>}
    BY <1>3, <1>4, <1>5, <1>6 DEF Places
  <2> QED BY <1>4, <1>6, <2>1, FS_AddElement
<1>7. CASE p # h
  <2>1. Stored(r, h) = Stored(q, h)
    <3>1. ASSUME NEW x \in Places  PROVE x \in Stored(r, h) <=> x \in Stored(q, h)
      <4>1. PICK a \in Outputs, i \in Nat \ {0} : x = <<a, i>>
        BY DEF Places
      <4> QED BY <1>3, <1>7, <4>1
    <3> QED BY <1>5, <3>1
  <2> QED BY <1>7, <2>1, FS_CardinalityType
<1> QED BY <1>6, <1>7

LEMMA StoredTail ==
  ASSUME NEW o \in Outputs, NEW q, NEW r, NEW h,
         \A a \in Outputs : q[a].vq \in Seq(Hosts),
         q[o].vq # <<>>,
         \A a \in Outputs : r[a].vq = IF a = o THEN Tail(q[o].vq)
                                                     ELSE q[a].vq,
         IsFiniteSet(Stored(q, h))
  PROVE  /\ IsFiniteSet(Stored(r, h))
         /\ Cardinality(Stored(q, h))
              = Cardinality(Stored(r, h))
                + (IF Head(q[o].vq) = h THEN 1 ELSE 0)
<1> DEFINE s == q[o].vq
           t == Tail(s)
<1>1. /\ Len(s) \in Nat \ {0} /\ Len(t) = Len(s) - 1 /\ Head(s) = s[1]
      /\ \A i \in 1 .. Len(t) : t[i] = s[i + 1]
  BY HeadTailProperties, EmptySeq
<1>2. /\ r[o].vq = t /\ q[o].vq = s
      /\ \A a \in Outputs \ {o} : r[a].vq = q[a].vq
  OBVIOUS
<1> HIDE DEF t, s
<1>3. ASSUME NEW a \in Outputs, NEW i \in Nat \ {0}
      PROVE  <<a, i>> \in Stored(r, h)
               <=> IF a = o THEN <<o, i + 1>> \in Stored(q, h) ELSE <<a, i>> \in Stored(q, h)
  <2>1. CASE a # o
    BY <1>2, <2>1 DEF Stored, Places
  <2>2. CASE a = o
    BY <1>1, <1>2, <2>2 DEF Stored, Places
  <2> QED BY <2>1, <2>2
<1>4. Stored(r, h) = {x \in Outputs \X (Nat \ {0}) :
                        IF x[1] = o THEN <<o, x[2] + 1>> \in Stored(q, h)
                                    ELSE x \in Stored(q, h)}
  <2>1. Stored(r, h) \in SUBSET (Outputs \X (Nat \ {0}))
    BY DEF Stored, Places
  <2>2. ASSUME NEW x \in Outputs \X (Nat \ {0})
        PROVE  x \in Stored(r, h)
                 <=> IF x[1] = o THEN <<o, x[2] + 1>> \in Stored(q, h)
                                 ELSE x \in Stored(q, h)
    <3>1. PICK a \in Outputs, i \in Nat \ {0} : x = <<a, i>>
      OBVIOUS
    <3> QED BY <1>3, <3>1
  <2> QED BY <2>1, <2>2
<1>5. Stored(q, h) \in SUBSET (Outputs \X (Nat \ {0}))
  BY DEF Stored, Places
<1>6. <<o, 1>> \in Stored(q, h) <=> Head(s) = h
  BY <1>1, <1>2 DEF Stored, Places
<1>7. /\ IsFiniteSet(Stored(r, h))
      /\ Cardinality(Stored(q, h))
           = Cardinality(Stored(r, h)) + (IF <<o, 1>> \in Stored(q, h) THEN 1 ELSE 0)
  BY <1>4, <1>5, ShiftPairsDown
<1> QED BY <1>6, <1>7 DEF s

-----------------------------------------------------------------------------
(* One lemma per action that moves a packet.                               *)
LEMMA OutMethodsShape ==
  ASSUME NEW q \in OutQueues
  PROVE  /\ OutBegin(q) \in OutQueues /\ OutBegin(q).enqueued = q.enqueued
         /\ OutBegin(q).vq = q.vq
         /\ OutPause(q) \in OutQueues /\ OutPause(q).enqueued = q.enqueued
         /\ OutPause(q).vq = q.vq
         /\ OutResume(q) \in OutQueues /\ OutResume(q).enqueued = q.enqueued
         /\ OutResume(q).vq = q.vq
<1>1. ASSUME NEW r \in OutQueues
      PROVE  /\ OutBegin(r) \in OutQueues /\ OutBegin(r).enqueued = r.enqueued
             /\ OutBegin(r).vq = r.vq
  <2>1. OutTime \in Int
    BY LosslessAssumption
  <2> QED BY <2>1 DEF OutBegin, OutQueues, OutRecords
<1>2. /\ OutPause(q) \in OutQueues /\ OutPause(q).enqueued = q.enqueued
      /\ OutPause(q).vq = q.vq
  BY DEF OutPause, OutQueues, OutRecords, States
<1>3. /\ OutResume(q) \in OutQueues /\ OutResume(q).enqueued = q.enqueued
      /\ OutResume(q).vq = q.vq
  <2> DEFINE go == [q EXCEPT !.state = READY]
  <2>1. go \in OutQueues /\ go.enqueued = q.enqueued /\ go.vq = q.vq
    BY DEF OutQueues, OutRecords, States
  <2>2. OutResume(q) \in {go, OutBegin(go)}
    BY DEF OutResume
  <2> HIDE DEF go
  <2> QED BY <1>1, <2>1, <2>2
<1> QED BY <1>1, <1>2, <1>3

LEMMA OutReceiveShape ==
  ASSUME NEW q \in OutQueues, NEW p \in AnyPacket, NEW h \in Hosts, NEW b \in Nat
  PROVE  /\ OutReceive(q, p, h, b) \in OutQueues
         /\ OutReceive(q, p, h, b).enqueued = Append(q.enqueued, p)
         /\ OutReceive(q, p, h, b).vq = Append(q.vq, h)
<1> DEFINE s == Append(q.enqueued, p)
           u == Append(q.spare, b)
           v == Append(q.vq, h)
           more == [q EXCEPT !.enqueued = s, !.spare = u, !.vq = v]
<1>1. /\ q.enqueued \in Seq(AnyPacket) /\ q.spare \in Seq(Nat) /\ q.vq \in Seq(Hosts)
      /\ Len(q.spare) = Len(q.enqueued) /\ Len(q.enqueued) <= Len(q.vq)
  BY DEF OutQueues, OutRecords
<1>2. /\ s \in Seq(AnyPacket) /\ u \in Seq(Nat) /\ v \in Seq(Hosts)
      /\ Len(u) = Len(s) /\ Len(s) <= Len(v)
  BY <1>1, AppendProperties
<1>3. OutReceive(q, p, h, b) \in {more, OutBegin(more)}
  BY DEF OutReceive
<1> HIDE DEF s, u, v
<1>4. more \in OutQueues /\ more.enqueued = s /\ more.vq = v
  BY <1>2 DEF OutQueues, OutRecords
<1> HIDE DEF more
<1>5. /\ OutReceive(q, p, h, b) \in OutQueues /\ OutReceive(q, p, h, b).enqueued = s
      /\ OutReceive(q, p, h, b).vq = v
  BY <1>3, <1>4, OutMethodsShape
<1> QED BY <1>5 DEF s, v

(* The elements of a set of positions in order: Nth is defined, grows and  *)
(* leaves none out.                                                        *)
Below(S, k) == {j \in S : j < k}

LEMMA BelowGrows ==
  ASSUME NEW S \in SUBSET Nat, IsFiniteSet(S), NEW k \in S
  PROVE  /\ IsFiniteSet(Below(S, k)) /\ Cardinality(Below(S, k)) \in 0 .. Cardinality(S) - 1
         /\ \A l \in S : k < l => Cardinality(Below(S, k)) < Cardinality(Below(S, l))
<1>1. \A T \in SUBSET S : IsFiniteSet(T) /\ Cardinality(T) \in Nat /\ Cardinality(S) \in Nat
  BY FS_Subset, FS_CardinalityType
<1>2. ASSUME NEW T \in SUBSET S, NEW U \in SUBSET T, U # T
      PROVE  Cardinality(U) < Cardinality(T)
  <2>1. IsFiniteSet(T) /\ Cardinality(T) \in Nat /\ Cardinality(U) \in Nat
    BY <1>1
  <2>2. Cardinality(U) <= Cardinality(T) /\ Cardinality(U) # Cardinality(T)
    BY <1>2, <2>1, FS_Subset
  <2> QED BY <2>1, <2>2
<1>3. Below(S, k) \in SUBSET S /\ k \notin Below(S, k)
  BY DEF Below
<1>4. Cardinality(Below(S, k)) < Cardinality(S)
  BY <1>2, <1>3
<1>5. ASSUME NEW l \in S, k < l
      PROVE  Cardinality(Below(S, k)) < Cardinality(Below(S, l))
  <2>1. Below(S, l) \in SUBSET S /\ Below(S, k) \in SUBSET Below(S, l) /\ k \in Below(S, l)
    <3>1. k \in Nat /\ l \in Nat /\ \A j \in S : j \in Nat
      OBVIOUS
    <3>2. \A j \in S : j < k => j < l
      BY <1>5, <3>1
    <3> QED BY <1>5, <3>2 DEF Below
  <2> QED BY <1>2, <1>3, <2>1
<1> QED BY <1>1, <1>3, <1>4, <1>5

LEMMA NthOrder ==
  ASSUME NEW S \in SUBSET Nat, IsFiniteSet(S)
  PROVE  /\ Cardinality(S) \in Nat
         /\ \A i \in 1 .. Cardinality(S) : Nth(S, i) \in S
         /\ \A i, j \in 1 .. Cardinality(S) : i < j => Nth(S, i) < Nth(S, j)
         /\ \A k \in S : \E i \in 1 .. Cardinality(S) : Nth(S, i) = k
<1> DEFINE c == Cardinality(S)
           rank == [k \in S |-> Cardinality(Below(S, k))]
<1>1. c \in Nat
  BY FS_CardinalityType
<1>2. rank \in [S -> 0 .. c - 1]
  BY BelowGrows
<1>3. ASSUME NEW k \in S, NEW l \in S  PROVE (k < l => rank[k] < rank[l]) /\ rank[k] \in Nat
  BY BelowGrows
<1> HIDE DEF rank
<1>4. ASSUME NEW k \in S, NEW l \in S, rank[k] <= rank[l]  PROVE k <= l
  <2>1. k \in Nat /\ l \in Nat /\ rank[k] \in Nat /\ rank[l] \in Nat /\ (l < k => rank[l] < rank[k])
    BY <1>3
  <2> QED BY <1>4, <2>1
<1>5. rank \in Injection(S, 0 .. c - 1)
  <2>1. ASSUME NEW k \in S, NEW l \in S, rank[k] = rank[l]  PROVE k = l
    <3>1. k \in Nat /\ l \in Nat /\ rank[k] \in Nat /\ rank[l] \in Nat
      BY <1>3
    <3>2. k <= l /\ l <= k
      BY <1>4, <2>1, <3>1
    <3> QED BY <3>1, <3>2
  <2> QED BY <1>2, <2>1, Zenon DEF Injection, IsInjective
<1>6. IsFiniteSet(0 .. c - 1) /\ Cardinality(0 .. c - 1) = c
  <2> HIDE DEF c
  <2>1. 0 \in Int /\ c - 1 \in Int
    BY <1>1
  <2>2. /\ IsFiniteSet(0 .. c - 1)
        /\ Cardinality(0 .. c - 1) = IF 0 > c - 1 THEN 0 ELSE c - 1 - 0 + 1
    BY <2>1, FS_Interval, Zenon
  <2> QED BY <1>1, <2>2
<1>7. rank \in Surjection(S, 0 .. c - 1)
  BY <1>5, <1>6, FS_Injection
<1>8. ASSUME NEW i \in 1 .. c  PROVE Nth(S, i) \in S /\ rank[Nth(S, i)] = i - 1
  <2>1. i - 1 \in 0 .. c - 1
    BY <1>1
  <2>2. \E k \in S : rank[k] = i - 1
    BY <1>7, <2>1 DEF Surjection
  <2>3. \E k \in S : Cardinality({j \in S : j < k}) = i - 1
    BY <2>2 DEF rank, Below
  <2>4. Nth(S, i) \in S /\ Cardinality({j \in S : j < Nth(S, i)}) = i - 1
    BY <2>3 DEF Nth
  <2> QED BY <2>4 DEF rank, Below
<1>9. ASSUME NEW i \in 1 .. c, NEW j \in 1 .. c, i < j  PROVE Nth(S, i) < Nth(S, j)
  <2> DEFINE k == Nth(S, i)
             l == Nth(S, j)
  <2>1. k \in S /\ l \in S /\ rank[k] = i - 1 /\ rank[l] = j - 1
    BY <1>8
  <2> HIDE DEF k, l
  <2>2. k \in Nat /\ l \in Nat /\ k <= l /\ k # l
    BY <1>1, <1>4, <1>9, <2>1
  <2> QED BY <2>2 DEF k, l
<1>10. ASSUME NEW k \in S  PROVE \E i \in 1 .. c : Nth(S, i) = k
  <2>1. rank[k] \in 0 .. c - 1
    BY <1>2
  <2> DEFINE i == rank[k] + 1
  <2>2. i \in 1 .. c /\ i - 1 = rank[k]
    BY <1>1, <2>1
  <2> HIDE DEF i
  <2>3. Nth(S, i) \in S /\ rank[Nth(S, i)] = rank[k]
    BY <1>8, <2>2
  <2>4. rank[k] <= rank[Nth(S, i)] /\ rank[Nth(S, i)] <= rank[k]
    BY <2>1, <2>3
  <2>5. Nth(S, i) <= k /\ k <= Nth(S, i) /\ k \in Nat /\ Nth(S, i) \in Nat
    BY <1>4, <2>3, <2>4
  <2> QED BY <2>2, <2>5
<1> QED BY <1>1, <1>8, <1>9, <1>10

LEMMA PickedShape ==
  ASSUME NEW T, NEW s \in Seq(T), NEW S \in SUBSET (1 .. Len(s))
  PROVE  /\ Picked(s, S) \in Seq(T) /\ Len(Picked(s, S)) = Cardinality(S)
         /\ Cardinality(S) \in 0 .. Len(s) /\ IsFiniteSet(S) /\ S \in SUBSET Nat
         /\ \A i \in 1 .. Cardinality(S) : Picked(s, S)[i] = s[Nth(S, i)] /\ Nth(S, i) \in S
<1>1. Len(s) \in Nat
  OBVIOUS
<1>2. IsFiniteSet(1 .. Len(s)) /\ Cardinality(1 .. Len(s)) = Len(s)
  <2> DEFINE n == Len(s)
  <2> HIDE DEF n
  <2>1. n \in Nat
    BY <1>1 DEF n
  <2>2. IsFiniteSet(1 .. n) /\ Cardinality(1 .. n) = IF 1 > n THEN 0 ELSE n - 1 + 1
    BY <2>1, FS_Interval
  <2>3. IsFiniteSet(1 .. n) /\ Cardinality(1 .. n) = n
    BY <2>1, <2>2
  <2> QED BY <2>3 DEF n
<1>3. IsFiniteSet(S) /\ Cardinality(S) <= Len(s)
  BY <1>2, FS_Subset
<1>4. Cardinality(S) \in Nat /\ \A i \in 1 .. Cardinality(S) : Nth(S, i) \in S
  <2>1. S \in SUBSET Nat
    BY <1>1
  <2> QED BY <1>3, <2>1, NthOrder
<1> DEFINE t == [i \in 1 .. Cardinality(S) |-> s[Nth(S, i)]]
<1>5. Picked(s, S) = t
  BY DEF Picked
<1>6. \A i \in 1 .. Cardinality(S) : t[i] = s[Nth(S, i)] /\ t[i] \in T
  <2> SUFFICES ASSUME NEW i \in 1 .. Cardinality(S)
               PROVE  t[i] = s[Nth(S, i)] /\ t[i] \in T
    OBVIOUS
  <2>1. Nth(S, i) \in 1 .. Len(s)
    BY <1>4
  <2>2. t[i] = s[Nth(S, i)]
    OBVIOUS
  <2>3. \A k \in 1 .. Len(s) : s[k] \in T
    OBVIOUS
  <2> QED BY <2>1, <2>2, <2>3
<1>7. t \in [1 .. Cardinality(S) -> T]
  BY <1>6
<1> HIDE DEF t
<1>8. t \in Seq(T) /\ Len(t) = Cardinality(S)
  BY <1>4, <1>7
<1> QED BY <1>1, <1>3, <1>4, <1>5, <1>6, <1>8

(* What the filter leaves, and which packets.                              *)
LEMMA KeptAre ==
  ASSUME NEW q \in OutQueues, NEW E
  PROVE  /\ Kept(q, E) \in SUBSET (1 .. Len(q.enqueued))
         /\ E = {} => \A i \in Kept(q, E) : q.spare[i] > 0
<1>1. DOMAIN q.enqueued = 1 .. Len(q.enqueued)
  BY DEF OutQueues, OutRecords
<1> QED BY <1>1 DEF Kept

LEMMA FilteredShape ==
  ASSUME NEW q \in OutQueues, NEW E
  PROVE  /\ Filtered(q, E) \in OutQueues
         /\ Filtered(q, E).enqueued = Picked(q.enqueued, Kept(q, E))
         /\ Filtered(q, E).vq = q.vq
<1> DEFINE K == Kept(q, E)
           s == Picked(q.enqueued, K)
           u == Picked(q.spare, K)
           r == [q EXCEPT !.enqueued = s, !.spare = u, !.popped = <<>>]
<1>1. /\ q.enqueued \in Seq(AnyPacket) /\ q.spare \in Seq(Nat) /\ q.vq \in Seq(Hosts)
      /\ Len(q.spare) = Len(q.enqueued) /\ Len(q.enqueued) <= Len(q.vq)
  BY DEF OutQueues, OutRecords
<1>2. Filtered(q, E) = r
  BY DEF Filtered
<1>3. K \in SUBSET (1 .. Len(q.enqueued))
  BY KeptAre
<1> HIDE DEF K
<1>4. /\ s \in Seq(AnyPacket) /\ Len(s) = Cardinality(K) /\ Len(s) <= Len(q.enqueued)
      /\ Len(s) \in Nat
  BY <1>1, <1>3, PickedShape
<1>5. u \in Seq(Nat) /\ Len(u) = Cardinality(K)
  BY <1>1, <1>3, PickedShape
<1>6. Len(u) = Len(s) /\ Len(s) <= Len(q.vq)
  BY <1>1, <1>4, <1>5
<1> HIDE DEF s, u
<1>7. r \in OutQueues /\ r.enqueued = s /\ r.vq = q.vq
  <2> DEFINE e == <<>>
  <2>1. e \in Seq(Flows)
    OBVIOUS
  <2> HIDE DEF e
  <2>2. [q EXCEPT !.enqueued = s, !.spare = u, !.popped = e] \in OutRecords
    BY <1>4, <1>5, <2>1 DEF OutQueues, OutRecords
  <2>3. /\ r.enqueued = s /\ r.spare = u /\ r.vq = q.vq
    BY DEF OutQueues, OutRecords
  <2> QED BY <1>6, <2>2, <2>3 DEF OutQueues, e
<1> QED BY <1>2, <1>7 DEF s, K

LEMMA OutCompleteShape ==
  ASSUME NEW q \in OutQueues
  PROVE  /\ OutComplete(q) \in OutQueues
         /\ q.enqueued = <<>> => OutComplete(q).enqueued = <<>> /\ OutComplete(q).vq = q.vq
         /\ q.enqueued # <<>> =>
              /\ OutComplete(q).enqueued = Tail(q.enqueued) /\ OutComplete(q).vq = Tail(q.vq)
              /\ q.vq # <<>> /\ Head(q.vq) \in Hosts
<1>1. /\ q.enqueued \in Seq(AnyPacket) /\ q.spare \in Seq(Nat) /\ q.vq \in Seq(Hosts)
      /\ Len(q.spare) = Len(q.enqueued) /\ Len(q.enqueued) <= Len(q.vq)
  BY DEF OutQueues, OutRecords
<1>2. CASE q.enqueued = <<>>
  BY <1>2 DEF OutComplete, OutQueues, OutRecords
<1>3. CASE q.enqueued # <<>>
  <2> DEFINE s == Tail(q.enqueued)
             u == Tail(q.spare)
             v == Tail(q.vq)
             z == <<Head(q.enqueued).flow>>
             w == IF q.state = PAUSE_RECEIVED THEN PAUSED ELSE q.state
             rest == [q EXCEPT !.enqueued = s, !.spare = u, !.vq = v, !.popped = z,
                               !.sending = FALSE, !.state = w]
  <2>1. /\ Len(q.enqueued) \in Nat \ {0} /\ Len(q.vq) \in Nat \ {0}
        /\ q.vq # <<>> /\ q.spare # <<>>
    BY <1>1, <1>3, EmptySeq
  <2>2. /\ s \in Seq(AnyPacket) /\ u \in Seq(Nat) /\ v \in Seq(Hosts)
        /\ Len(s) = Len(q.enqueued) - 1 /\ Len(u) = Len(q.spare) - 1
        /\ Len(v) = Len(q.vq) - 1
        /\ Head(q.enqueued) \in AnyPacket /\ Head(q.vq) \in Hosts
    BY <1>1, <1>3, <2>1, HeadTailProperties
  <2>3. Len(u) = Len(s) /\ Len(s) <= Len(v)
    BY <1>1, <2>1, <2>2
  <2>4. z \in Seq(Flows)
    BY <2>2 DEF AnyPacket
  <2>5. w \in States
    BY DEF States, OutQueues, OutRecords
  <2>6. OutComplete(q) \in {rest, OutBegin(rest)}
    <3> HIDE DEF s, u, v, z
    <3> QED BY <1>3 DEF OutComplete, s, u, v, z
  <2> HIDE DEF s, u, v, w, z
  <2>7. rest \in OutQueues /\ rest.enqueued = s /\ rest.vq = v
    BY <2>2, <2>3, <2>4, <2>5 DEF OutQueues, OutRecords
  <2> HIDE DEF rest
  <2>8. OutComplete(q) \in OutQueues /\ OutComplete(q).enqueued = s /\ OutComplete(q).vq = v
    BY <2>6, <2>7, OutMethodsShape
  <2> QED BY <1>3, <2>1, <2>2, <2>8 DEF s, v
<1> QED BY <1>2, <1>3

(* Time does to an output what it does to its service.                     *)
LEMMA StayedShape ==
  ASSUME NEW q \in OutQueues
  PROVE  /\ Stayed(q) \in OutQueues /\ Stayed(q).enqueued = q.enqueued /\ Stayed(q).vq = q.vq
         /\ Stayed(q).sending = q.sending
         /\ Stayed(q).left = IF q.sending THEN q.left - 1 ELSE q.left
<1> DEFINE u == [i \in DOMAIN q.spare |-> IF q.spare[i] > 0 THEN q.spare[i] - 1 ELSE 0]
           l == IF q.sending THEN q.left - 1 ELSE q.left
<1>1. q.spare \in Seq(Nat) /\ DOMAIN q.spare = 1 .. Len(q.spare) /\ Len(q.spare) \in Nat
  BY DEF OutQueues, OutRecords
<1>2. ASSUME NEW i \in 1 .. Len(q.spare)
      PROVE  (IF q.spare[i] > 0 THEN q.spare[i] - 1 ELSE 0) \in Nat
  <2>1. q.spare[i] \in Nat
    BY <1>1
  <2> QED BY <2>1
<1>3. u \in [1 .. Len(q.spare) -> Nat]
  BY <1>1, <1>2
<1>4. Stayed(q) = [q EXCEPT !.left = l, !.spare = u]
  BY DEF Stayed
<1>5. l \in Int
  BY DEF OutQueues, OutRecords
<1> HIDE DEF u, l
<1>6. u \in Seq(Nat) /\ Len(u) = Len(q.spare)
  BY <1>1, <1>3
<1>7. /\ Stayed(q) \in OutQueues /\ Stayed(q).enqueued = q.enqueued /\ Stayed(q).vq = q.vq
      /\ Stayed(q).sending = q.sending /\ Stayed(q).left = l
  BY <1>4, <1>5, <1>6 DEF OutQueues, OutRecords
<1> QED BY <1>7 DEF l

LEMMA HostSendsShape ==
  ASSUME NEW h, NEW q \in HostQueues(h), HostSends(q)
  PROVE  q.sending \in PacketsOf(h)
  BY DEF HostSends, HostQueues

LEMMA HostEventKeeps ==
  ASSUME IInv, NEW h \in Hosts, HostEvent(h)
  PROVE  IInv'
<1>1. HostInv'
  BY HostEventKeepsHosts DEF IInv
<1>2. FabricShape' /\ OutShape' /\ TransportShape' /\ \A g \in Hosts : Charge(g)'
  BY DEF HostEvent, IInv, FabricShape, OutShape, TransportShape, Charge
<1>3. WireShape'
  <2>1. CASE wire' = wire
    BY <2>1 DEF IInv, WireShape
  <2>2. CASE wire' # wire
    <3>1. PICK i, q :
            /\ i \in DueEvents(h)
            /\ q = [nic[h] EXCEPT !.events =
                      [j \in 1 .. Len(nic[h].events) - 1 |->
                         IF j < i THEN nic[h].events[j] ELSE nic[h].events[j + 1]]]
            /\ HostSends(q)
            /\ wire' = [wire EXCEPT ![h] = Append(@, [pkt |-> q.sending, left |-> WireTime])]
      BY <2>2 DEF HostEvent
    <3>2. q \in HostQueues(h)
      BY <3>1, EventRunShape DEF DueEvents, IInv, HostInv, NicShape
    <3>3. q.sending \in PacketsOf(h)
      BY <3>1, <3>2, HostSendsShape
    <3> DEFINE x == [pkt |-> q.sending, left |-> WireTime]
    <3>4. x \in OnWire(h) /\ wire[h] \in Seq(OnWire(h))
      BY <3>3, NetAssumption DEF OnWire, IInv, WireShape
    <3>5. wire' = [wire EXCEPT ![h] = Append(wire[h], x)]
      BY <3>1
    <3> HIDE DEF x
    <3>6. Append(wire[h], x) \in Seq(OnWire(h))
      BY <3>4, AppendProperties
    <3>7. /\ wire' = [g \in Hosts |-> wire'[g]]
          /\ \A g \in Hosts : wire'[g] = IF g = h THEN Append(wire[h], x) ELSE wire[g]
      BY <3>5, UpdatedAt DEF IInv, WireShape
    <3> QED BY <3>6, <3>7 DEF IInv, WireShape
  <2> QED BY <2>1, <2>2
<1> QED BY <1>1, <1>2, <1>3 DEF IInv

LEMMA WireEventKeeps ==
  ASSUME IInv, NEW h \in Hosts, WireEvent(h)
  PROVE  IInv'
<1> DEFINE x == [pkt |-> Head(wire[h]).pkt, input |-> h, left |-> SwitchTime]
<1>1. HostInv'
  BY WireEventKeepsHosts DEF IInv
<1>2. /\ wire[h] \in Seq(OnWire(h)) /\ wire[h] # <<>>
      /\ wire' = [wire EXCEPT ![h] = Tail(wire[h])]
  BY DEF IInv, WireShape, WireEvent
<1>3. Tail(wire[h]) \in Seq(OnWire(h)) /\ Head(wire[h]) \in OnWire(h)
  BY <1>2, HeadTailProperties
<1>4. WireShape'
  <2>1. /\ wire' = [g \in Hosts |-> wire'[g]]
        /\ \A g \in Hosts : wire'[g] = IF g = h THEN Tail(wire[h]) ELSE wire[g]
    BY <1>2, UpdatedAt DEF IInv, WireShape
  <2> QED BY <1>3, <2>1 DEF IInv, WireShape
<1>5. x \in InPipe
  BY <1>3, NetAssumption DEF OnWire, PacketsOf, InPipe
<1>6. fabric' = Append(fabric, x) /\ fabric \in Seq(InPipe) /\ x.input = h
  BY DEF WireEvent, IInv, FabricShape
<1> HIDE DEF x
<1>7. FabricShape'
  BY <1>5, <1>6, AppendProperties DEF FabricShape
<1>8. OutShape' /\ TransportShape'
  BY DEF WireEvent, IInv, OutShape, TransportShape
<1>9. ASSUME NEW g \in Hosts  PROVE Charge(g)'
  <2>1. /\ IsFiniteSet(Mine(fabric, g)) /\ IsFiniteSet(Stored(out, g))
        /\ inp[g].size = Cardinality(Mine(fabric, g)) + Cardinality(Stored(out, g))
    BY DEF IInv, Charge
  <2>2. /\ IsFiniteSet(Mine(fabric', g))
        /\ Cardinality(Mine(fabric', g))
             = Cardinality(Mine(fabric, g)) + (IF h = g THEN 1 ELSE 0)
    BY <1>5, <1>6, <2>1, MineAppended
  <2>3. out' = out
    BY DEF WireEvent
  <2>4. inp'[g].size = inp[g].size + (IF h = g THEN 1 ELSE 0)
    <3>1. inp' = [inp EXCEPT ![h] = InputReceive(inp[h])]
      BY DEF WireEvent
    <3>2. inp'[g] = IF g = h THEN InputReceive(inp[h]) ELSE inp[g]
      BY <3>1, UpdatedAt DEF IInv, HostInv, InpShape
    <3>3. InputReceive(inp[h]).size = inp[h].size + 1 /\ inp[g].size \in Int
      BY DEF InputReceive, IInv, HostInv, InpShape, Inputs
    <3> QED BY <3>2, <3>3
  <2>5. Cardinality(Mine(fabric, g)) \in Nat /\ Cardinality(Stored(out, g)) \in Nat
    BY <2>1, FS_CardinalityType
  <2> QED BY <2>1, <2>2, <2>3, <2>4, <2>5 DEF Charge
<1> QED BY <1>1, <1>4, <1>7, <1>8, <1>9 DEF IInv

LEMMA FabricEventKeeps ==
  ASSUME IInv, FabricEvent
  PROVE  IInv'
<1> DEFINE x == Head(fabric)
           o == Dest[x.pkt.flow]
           b == transport.budget[x.pkt.flow]
           r == OutReceive(out[o], x.pkt, x.input, b)
<1>1. fabric \in Seq(InPipe) /\ fabric # <<>> /\ fabric' = Tail(fabric)
  BY DEF IInv, FabricShape, FabricEvent
<1>2. x \in InPipe /\ fabric' \in Seq(InPipe)
  BY <1>1, HeadTailProperties
<1>3. /\ o \in Outputs /\ x.pkt \in AnyPacket /\ x.input \in Hosts
      /\ b \in Nat
  BY <1>2, NetAssumption DEF InPipe, AnyPacket, IInv, TransportShape
<1>4. out' = [out EXCEPT ![o] = r] /\ UNCHANGED <<nic, wire, inp, sent, transport>>
  BY DEF FabricEvent
<1>5. out[o] \in OutQueues
  BY <1>3 DEF IInv, OutShape
<1> HIDE DEF x, o, b
<1>6. r \in OutQueues /\ r.vq = Append(out[o].vq, x.input)
  BY <1>3, <1>5, OutReceiveShape
<1> HIDE DEF r
<1>7. /\ out' = [a \in Outputs |-> out'[a]]
      /\ \A a \in Outputs : out'[a] = IF a = o THEN r ELSE out[a]
  BY <1>4, UpdatedAt DEF IInv, OutShape
<1>8. OutShape'
  BY <1>6, <1>7 DEF IInv, OutShape
<1>9. HostInv' /\ WireShape' /\ TransportShape'
  BY <1>4 DEF IInv, HostInv, NicShape, InpShape, SentShape, PauseAgrees, WireShape, TransportShape
<1>10. ASSUME NEW g \in Hosts  PROVE Charge(g)'
  <2>1. /\ IsFiniteSet(Mine(fabric, g)) /\ IsFiniteSet(Stored(out, g))
        /\ inp[g].size = Cardinality(Mine(fabric, g)) + Cardinality(Stored(out, g))
    BY DEF IInv, Charge
  <2>2. /\ IsFiniteSet(Mine(fabric', g))
        /\ Cardinality(Mine(fabric, g))
             = Cardinality(Mine(fabric', g)) + (IF x.input = g THEN 1 ELSE 0)
    BY <1>1, <2>1, MineTail DEF x
  <2>3. \A a \in Outputs : out[a].vq \in Seq(Hosts)
    BY DEF IInv, OutShape, OutQueues, OutRecords
  <2>4. \A a \in Outputs :
          out'[a].vq = IF a = o THEN Append(out[o].vq, x.input) ELSE out[a].vq
    BY <1>6, <1>7
  <2>5. /\ IsFiniteSet(Stored(out', g))
        /\ Cardinality(Stored(out', g))
             = Cardinality(Stored(out, g)) + (IF x.input = g THEN 1 ELSE 0)
    BY <1>3, <2>1, <2>3, <2>4, StoredAppended
  <2>6. /\ Cardinality(Mine(fabric', g)) \in Nat /\ Cardinality(Stored(out, g)) \in Nat
    BY <2>1, <2>2, FS_CardinalityType
  <2> QED BY <1>3, <1>4, <2>1, <2>2, <2>5, <2>6 DEF Charge
<1> QED BY <1>1, <1>2, <1>8, <1>9, <1>10 DEF IInv, FabricShape

LEMMA OutEventKeeps ==
  ASSUME IInv, NEW o \in Outputs, OutEvent(o)
  PROVE  IInv'
<1> DEFINE k == Filtered(out[o], transport.exempt)
           r == OutComplete(k)
           h == Head(k.vq)
<1>1. HostInv'
  BY OutEventKeepsHosts DEF IInv
<1>2. WireShape' /\ FabricShape' /\ TransportShape'
  BY DEF OutEvent, IInv, WireShape, FabricShape, TransportShape
<1>3. out[o] \in OutQueues
  BY DEF IInv, OutShape
<1>4. k \in OutQueues /\ k.vq = out[o].vq
  BY <1>3, FilteredShape
<1>5. /\ out' = [out EXCEPT ![o] = r] /\ fabric' = fabric
      /\ k.enqueued = <<>> => inp' = inp
      /\ k.enqueued # <<>> => inp' = [inp EXCEPT ![h] = InputCompleted(inp[h])]
  BY DEF OutEvent
<1> HIDE DEF k
<1>6. /\ r \in OutQueues
      /\ k.enqueued = <<>> => r.vq = out[o].vq
      /\ k.enqueued # <<>> => r.vq = Tail(out[o].vq) /\ out[o].vq # <<>> /\ h \in Hosts
  BY <1>4, OutCompleteShape
<1>7. h = Head(out[o].vq)
  BY <1>4
<1> HIDE DEF r, h
<1>8. /\ out' = [a \in Outputs |-> out'[a]]
      /\ \A a \in Outputs : out'[a] = IF a = o THEN r ELSE out[a]
  BY <1>5, UpdatedAt DEF IInv, OutShape
<1>9. OutShape'
  BY <1>6, <1>8 DEF IInv, OutShape
<1>10. CASE k.enqueued = <<>>
  <2>1. \A a \in Outputs : out'[a].vq = out[a].vq
    BY <1>6, <1>8, <1>10
  <2>2. ASSUME NEW g \in Hosts  PROVE Charge(g)'
    <3>1. \A x \in Places : out'[x[1]].vq = out[x[1]].vq
      BY <2>1 DEF Places
    <3>2. Stored(out', g) = Stored(out, g)
      BY <3>1 DEF Stored
    <3> QED BY <1>5, <1>10, <3>2 DEF IInv, Charge
  <2> QED BY <1>1, <1>2, <1>9, <2>2 DEF IInv
<1>11. CASE k.enqueued # <<>>
  <2>1. ASSUME NEW g \in Hosts  PROVE Charge(g)'
    <3>1. /\ IsFiniteSet(Mine(fabric, g)) /\ IsFiniteSet(Stored(out, g))
          /\ inp[g].size = Cardinality(Mine(fabric, g)) + Cardinality(Stored(out, g))
      BY DEF IInv, Charge
    <3>2. \A a \in Outputs : out[a].vq \in Seq(Hosts)
      BY DEF IInv, OutShape, OutQueues, OutRecords
    <3>3. \A a \in Outputs : out'[a].vq = IF a = o THEN Tail(out[o].vq) ELSE out[a].vq
      BY <1>6, <1>8, <1>11
    <3>4. /\ IsFiniteSet(Stored(out', g))
          /\ Cardinality(Stored(out, g))
               = Cardinality(Stored(out', g)) + (IF h = g THEN 1 ELSE 0)
      BY <1>6, <1>7, <1>11, <3>1, <3>2, <3>3, StoredTail
    <3>5. inp'[g].size = inp[g].size - (IF h = g THEN 1 ELSE 0)
      <4>1. inp'[g] = IF g = h THEN InputCompleted(inp[h]) ELSE inp[g]
        BY <1>5, <1>11, UpdatedAt DEF IInv, HostInv, InpShape
      <4>2. InputCompleted(inp[h]).size = inp[h].size - 1 /\ inp[g].size \in Int
        BY DEF InputCompleted, IInv, HostInv, InpShape, Inputs
      <4> QED BY <4>1, <4>2
    <3>6. Cardinality(Mine(fabric, g)) \in Nat /\ Cardinality(Stored(out', g)) \in Nat
      BY <3>1, <3>4, FS_CardinalityType
    <3>7. inp'[g].size = Cardinality(Mine(fabric, g)) + Cardinality(Stored(out', g))
      BY <3>1, <3>4, <3>5, <3>6
    <3> QED BY <1>5, <3>1, <3>4, <3>7 DEF Charge
  <2> QED BY <1>1, <1>2, <1>9, <2>1 DEF IInv
<1> QED BY <1>10, <1>11

(* A step that leaves what the outputs hold as it is.                      *)
LEMMA OutputsKept ==
  ASSUME IInv, HostInv', WireShape', FabricShape', OutShape', transport' = transport,
         \A a \in Outputs : out'[a].vq = out[a].vq,
         \A g \in Hosts : Mine(fabric', g) = Mine(fabric, g), inp' = inp
  PROVE  IInv'
<1>1. ASSUME NEW g \in Hosts  PROVE Charge(g)'
  <2>1. \A x \in Places : out'[x[1]].vq = out[x[1]].vq
    BY DEF Places
  <2>2. Stored(out', g) = Stored(out, g)
    BY <2>1 DEF Stored
  <2> QED BY <2>2 DEF IInv, Charge
<1>2. TransportShape'
  BY DEF IInv, TransportShape
<1> QED BY <1>1, <1>2 DEF IInv

LEMMA BehindKeeps ==
  ASSUME IInv, NEW o \in Outputs, PausedFromBehind(o) \/ ResumedFromBehind(o)
  PROVE  IInv'
<1>1. out[o] \in OutQueues
  BY DEF IInv, OutShape
<1>2. PICK r \in OutQueues : r.vq = out[o].vq /\ out' = [out EXCEPT ![o] = r]
  BY <1>1, OutMethodsShape DEF PausedFromBehind, ResumedFromBehind
<1>3. UNCHANGED <<nic, wire, inp, fabric, sent, transport>>
  BY DEF PausedFromBehind, ResumedFromBehind
<1>4. /\ out' = [a \in Outputs |-> out'[a]]
      /\ \A a \in Outputs : out'[a] = IF a = o THEN r ELSE out[a]
  BY <1>2, UpdatedAt DEF IInv, OutShape
<1>5. OutShape'
  BY <1>2, <1>4 DEF IInv, OutShape
<1>6. HostInv' /\ WireShape' /\ FabricShape'
  BY <1>3 DEF IInv, HostInv, NicShape, InpShape, SentShape, PauseAgrees, WireShape, FabricShape
<1> QED BY <1>2, <1>3, <1>4, <1>5, <1>6, OutputsKept

LEMMA TickKeeps ==
  ASSUME IInv, Tick
  PROVE  IInv'
<1>1. HostInv'
  BY TickKeepsHosts DEF IInv
<1>2. WireShape'
  <2>1. ASSUME NEW h \in Hosts  PROVE wire'[h] \in Seq(OnWire(h))
    <3> DEFINE s == wire[h]
               t == [i \in 1 .. Len(s) |-> [s[i] EXCEPT !.left = @ - 1]]
    <3>1. s \in Seq(OnWire(h))
      BY DEF IInv, WireShape
    <3>2. wire'[h] = t
      BY <3>1 DEF Tick, Sooner
    <3>3. \A i \in 1 .. Len(s) : t[i] \in OnWire(h)
      <4>1. ASSUME NEW x \in OnWire(h)  PROVE [x EXCEPT !.left = @ - 1] \in OnWire(h)
        BY DEF OnWire
      <4>2. ASSUME NEW i \in 1 .. Len(s)  PROVE t[i] = [s[i] EXCEPT !.left = @ - 1] /\ s[i] \in OnWire(h)
        BY <3>1
      <4> HIDE DEF t, s
      <4> QED BY <4>1, <4>2
    <3>4. t = [i \in 1 .. Len(s) |-> t[i]] /\ Len(s) \in Nat
      BY <3>1
    <3> HIDE DEF t
    <3>5. t \in [1 .. Len(s) -> OnWire(h)]
      <4> HIDE DEF s
      <4> QED BY <3>3, <3>4
    <3> QED BY <3>2, <3>4, <3>5
  <2> QED BY <2>1 DEF Tick, WireShape
<1> DEFINE t == [i \in 1 .. Len(fabric) |-> [fabric[i] EXCEPT !.left = @ - 1]]
<1>3. fabric \in Seq(InPipe) /\ fabric' = t
  BY DEF IInv, FabricShape, Tick, Sooner
<1>4. \A i \in 1 .. Len(fabric) : t[i] \in InPipe /\ t[i].input = fabric[i].input
  BY <1>3 DEF InPipe
<1>5. t \in [1 .. Len(fabric) -> InPipe] /\ Len(fabric) \in Nat
  BY <1>3, <1>4
<1>6. t \in Seq(InPipe) /\ Len(t) = Len(fabric)
  <2> HIDE DEF t
  <2> QED BY <1>5
<1>7. FabricShape' /\ \A g \in Hosts : Mine(fabric', g) = Mine(fabric, g)
  <2> HIDE DEF t
  <2> QED BY <1>3, <1>4, <1>6 DEF FabricShape, Mine
<1>8. /\ \A o \in Outputs : out'[o] \in OutQueues /\ out'[o].vq = out[o].vq
      /\ out' = [o \in Outputs |-> out'[o]]
  BY StayedShape DEF IInv, OutShape, Tick
<1>9. OutShape' /\ inp' = inp /\ transport' = transport
  BY <1>8 DEF OutShape, Tick
<1> QED BY <1>1, <1>2, <1>7, <1>8, <1>9, OutputsKept

LEMMA SendKeeps ==
  ASSUME IInv, NEW f \in Flows, Send(f)
  PROVE  IInv'
<1>1. HostInv'
  BY SendKeepsHosts DEF IInv
<1>2. UNCHANGED <<wire, inp, fabric, out, transport>>
  BY DEF Send
<1> QED BY <1>1, <1>2 DEF IInv, WireShape, FabricShape, OutShape, TransportShape, Charge

LEMMA IInvNext == IInv /\ [Next]_vars => IInv'
<1> SUFFICES ASSUME IInv, [Next]_vars  PROVE IInv'
  OBVIOUS
<1>1. ASSUME NEW f \in Flows, Send(f)  PROVE IInv'
  BY <1>1, SendKeeps
<1>2. ASSUME NEW h \in Hosts, HostEvent(h)  PROVE IInv'
  BY <1>2, HostEventKeeps
<1>3. ASSUME NEW h \in Hosts, WireEvent(h)  PROVE IInv'
  BY <1>3, WireEventKeeps
<1>4. CASE FabricEvent
  BY <1>4, FabricEventKeeps
<1>5. ASSUME NEW o \in Outputs, OutEvent(o)  PROVE IInv'
  BY <1>5, OutEventKeeps
<1>6. ASSUME NEW o \in Outputs, PausedFromBehind(o) \/ ResumedFromBehind(o)  PROVE IInv'
  BY <1>6, BehindKeeps
<1>7. CASE Tick
  BY <1>7, TickKeeps
<1>8. CASE UNCHANGED vars
  BY <1>8 DEF vars, IInv, HostInv, NicShape, InpShape, SentShape, PauseAgrees,
              WireShape, FabricShape, OutShape, TransportShape, Charge
<1> QED BY <1>1, <1>2, <1>3, <1>4, <1>5, <1>6, <1>7, <1>8 DEF Next, RunEvents

(* Whatever is dropped, an input queue is charged with its packets on the  *)
(* way to an output and the entries for it there (receivePacket and        *)
(* completeService of LosslessOutputQueue): no sequence of PAUSE frames    *)
(* leaks room or counts a packet twice.  It is half of DropsStayCharged.   *)
ChargeIsEntries ==
  \A h \in Hosts : inp[h].size = Cardinality(InFabric(h)) + Cardinality(InOutputs(h))

THEOREM ChargeIsEntriesAlways == Spec => []ChargeIsEntries
<1>1. Init => IInv
  BY IInvInit
<1>2. IInv /\ [Next]_vars => IInv'
  BY IInvNext
<1>3. IInv => ChargeIsEntries
  BY ChargeMeaning DEF ChargeIsEntries
<1> QED BY <1>1, <1>2, <1>3, PTL DEF Spec

-----------------------------------------------------------------------------
(* One service at a time.                                                  *)

\* A pause and its end do not fit into one service of a host: within it the
\* outputs hand on fewer packets than it takes to fall from above the high
\* threshold to below the low one.
SlowOutputs == Cardinality(Outputs) * (1 + HostTime \div OutTime) <= High + 1 - Low

\* Where the packets of a class are in a host queue.
HeldIn(pq) ==
  {x \in Flows \X (Nat \ {0}) : x[1] \in DOMAIN pq.map /\ x[2] <= Len(pq.map[x[1]])}

SizesCount(q) ==
  \A c \in Priorities :
    /\ IsFiniteSet(HeldIn(q.queue[c]))
    /\ q.size[c] = Cardinality(HeldIn(q.queue[c]))
                   + (IF q.sending # None /\ q.servicing = c THEN 1 ELSE 0)

\* A host queue is in service, or else has nothing to do or is held.
Serving(q) ==
  /\ SizesCount(q)
  /\ q.sending = None =>
       /\ q.events = <<>> /\ q.servicing = Q_NONE /\ q.state # PAUSE_RECEIVED
       /\ q.state = READY => QueueSize(q) = 0
  /\ q.sending # None =>
       /\ Len(q.events) = 1 /\ q.events[1] \in 0 .. HostTime
       /\ q.servicing \in Priorities /\ q.state # PAUSED

LEMMA HeldIsHeldIn ==
  ASSUME NEW h, NEW q \in HostQueues(h), NEW c \in Priorities
  PROVE  Held(q, c) = HeldIn(q.queue[c])
<1> DEFINE m == q.queue[c].map
<1>1. q.queue[c] \in PullQueues(h)
  BY DEF HostQueues
<1>2. DOMAIN m \in SUBSET Flows /\ m \in [DOMAIN m -> Seq(PacketsOf(h)) \ {<<>>}]
  BY <1>1, PullParts
<1> HIDE DEF m
<1>3. \A f \in DOMAIN m : Len(m[f]) \in Nat /\ DOMAIN m[f] = 1 .. Len(m[f]) /\ f \in Flows
  BY <1>2
<1>4. ASSUME NEW x \in UNION {{f} \X DOMAIN m[f] : f \in DOMAIN m}  PROVE x \in HeldIn(q.queue[c])
  <2>1. PICK f \in DOMAIN m : x \in {f} \X DOMAIN m[f]
    OBVIOUS
  <2>2. PICK i \in DOMAIN m[f] : x = <<f, i>>
    BY <2>1
  <2>3. i \in Nat \ {0} /\ i <= Len(m[f]) /\ f \in Flows
    BY <1>3, <2>2
  <2> QED BY <2>2, <2>3 DEF HeldIn, m
<1>5. ASSUME NEW x \in HeldIn(q.queue[c])  PROVE x \in UNION {{f} \X DOMAIN m[f] : f \in DOMAIN m}
  <2>1. PICK f \in Flows, i \in Nat \ {0} : x = <<f, i>>
    BY DEF HeldIn
  <2>2. f \in DOMAIN m /\ i <= Len(m[f])
    BY <2>1 DEF HeldIn, m
  <2>3. i \in DOMAIN m[f]
    BY <2>2, <1>3
  <2> QED BY <2>1, <2>2, <2>3
<1> QED BY <1>4, <1>5 DEF Held, m

LEMMA HeldNone ==
  ASSUME NEW h, NEW pq \in PullQueues(h)
  PROVE  HeldIn(pq) = {} <=> DOMAIN pq.map = {}
<1> DEFINE m == pq.map
<1>1. DOMAIN m \in SUBSET Flows /\ m \in [DOMAIN m -> Seq(PacketsOf(h)) \ {<<>>}]
  BY PullParts
<1>2. ASSUME NEW f \in DOMAIN m  PROVE <<f, 1>> \in HeldIn(pq)
  <2>1. m[f] \in Seq(PacketsOf(h)) /\ m[f] # <<>> /\ f \in Flows
    BY <1>1
  <2>2. 1 <= Len(m[f]) /\ 1 \in Nat \ {0}
    BY <2>1
  <2> QED BY <2>1, <2>2 DEF HeldIn
<1> QED BY <1>2 DEF HeldIn

LEMMA EnqueueCounts ==
  ASSUME NEW h, NEW pq \in PullQueues(h), NEW p \in PacketsOf(h), IsFiniteSet(HeldIn(pq))
  PROVE  /\ IsFiniteSet(HeldIn(Enqueue(pq, p)))
         /\ Cardinality(HeldIn(Enqueue(pq, p))) = Cardinality(HeldIn(pq)) + 1
<1> DEFINE g == p.flow
           m == pq.map
           n == IF g \in DOMAIN m THEN Len(m[g]) + 1 ELSE 1
           r == Enqueue(pq, p)
<1>1. /\ DOMAIN m \in SUBSET Flows /\ m \in [DOMAIN m -> Seq(PacketsOf(h)) \ {<<>>}]
      /\ pq = [map |-> m, current |-> pq.current]
  BY PullParts
<1>2. g \in Flows
  BY DEF PacketsOf, AnyPacket
<1>3. \A f \in DOMAIN m : Len(m[f]) \in Nat /\ m[f] \in Seq(PacketsOf(h))
  BY <1>1
<1>4. r.map = [f \in DOMAIN m \cup {g} |->
                 IF f # g THEN m[f]
                 ELSE IF f \in DOMAIN m THEN Append(m[f], p) ELSE <<p>>]
  BY <1>1 DEF Enqueue
<1>5. \A f \in DOMAIN r.map : Len(r.map[f]) = IF f = g THEN n ELSE Len(m[f])
  <2> TAKE f \in DOMAIN r.map
  <2>1. CASE f # g
    BY <2>1, <1>4
  <2>2. CASE f = g /\ f \in DOMAIN m
    <3>1. Len(Append(m[f], p)) = Len(m[f]) + 1
      BY <2>2, <1>3
    <3> QED BY <3>1, <2>2, <1>4
  <2>3. CASE f = g /\ f \notin DOMAIN m
    <3>1. Len(<<p>>) = 1
      OBVIOUS
    <3> QED BY <3>1, <2>3, <1>4
  <2> QED BY <2>1, <2>2, <2>3
<1>6. n \in Nat \ {0}
  BY <1>3
<1>7. DOMAIN r.map = DOMAIN m \cup {g}
  BY <1>4
<1> HIDE DEF r
<1>8. ASSUME NEW f \in Flows, NEW i \in Nat \ {0}
      PROVE  <<f, i>> \in HeldIn(r) <=> <<f, i>> \in HeldIn(pq) \/ <<f, i>> = <<g, n>>
  <2>1. CASE f # g
    BY <2>1, <1>5, <1>7 DEF HeldIn
  <2>2. CASE f = g /\ f \in DOMAIN m
    <3>1. i <= n <=> i <= Len(m[f]) \/ i = n
      BY <2>2, <1>3
    <3> QED BY <2>2, <3>1, <1>5, <1>7 DEF HeldIn
  <2>3. CASE f = g /\ f \notin DOMAIN m
    <3>1. i <= n <=> i = n
      BY <2>3
    <3> QED BY <2>3, <3>1, <1>5, <1>7 DEF HeldIn
  <2> QED BY <2>1, <2>2, <2>3
<1>9. <<g, n>> \notin HeldIn(pq)
  BY <1>3 DEF HeldIn
<1> HIDE DEF n
<1>10. HeldIn(r) = HeldIn(pq) \cup {<<g, n>>}
  <2>1. HeldIn(r) \in SUBSET (Flows \X (Nat \ {0})) /\ HeldIn(pq) \in SUBSET (Flows \X (Nat \ {0}))
    BY DEF HeldIn
  <2>2. <<g, n>> \in Flows \X (Nat \ {0})
    BY <1>2, <1>6
  <2>3. ASSUME NEW x \in Flows \X (Nat \ {0})
        PROVE  x \in HeldIn(r) <=> x \in HeldIn(pq) \/ x = <<g, n>>
    <3>1. PICK f \in Flows, i \in Nat \ {0} : x = <<f, i>>
      OBVIOUS
    <3> QED BY <3>1, <1>8
  <2> QED BY <2>1, <2>2, <2>3
<1> QED BY <1>9, <1>10, FS_AddElement DEF r

LEMMA DequeueCounts ==
  ASSUME NEW h, NEW pq \in PullQueues(h), DOMAIN pq.map # {}, IsFiniteSet(HeldIn(pq))
  PROVE  /\ IsFiniteSet(HeldIn(Dequeue(pq)))
         /\ Cardinality(HeldIn(pq)) = Cardinality(HeldIn(Dequeue(pq))) + 1
<1> DEFINE g == Turn(pq)
           m == pq.map
           rest == Tail(m[g])
           r == Dequeue(pq)
<1>1. /\ DOMAIN m \in SUBSET Flows /\ m \in [DOMAIN m -> Seq(PacketsOf(h)) \ {<<>>}]
      /\ g \in DOMAIN m
  BY PullParts, TurnShape
<1>2. m[g] \in Seq(PacketsOf(h)) /\ m[g] # <<>> /\ g \in Flows
  BY <1>1
<1>a. Len(m[g]) \in Nat \ {0} /\ rest \in Seq(PacketsOf(h)) /\ Len(rest) = Len(m[g]) - 1
  BY <1>2, HeadTailProperties, EmptySeq
<1>b. rest = <<>> <=> Len(rest) = 0
  BY <1>a, EmptySeq
<1>3. Len(rest) = Len(m[g]) - 1 /\ Len(m[g]) \in Nat \ {0} /\ (rest = <<>> <=> Len(rest) = 0)
  BY <1>a, <1>b
<1>4. r.map = [f \in (IF rest = <<>> THEN DOMAIN m \ {g} ELSE DOMAIN m) |->
                 IF f = g THEN rest ELSE m[f]]
  BY DEF Dequeue
<1> HIDE DEF rest, r
<1>5. ASSUME NEW f \in Flows, NEW i \in Nat \ {0}
      PROVE  <<f, i>> \in HeldIn(r)
               <=> IF f = g THEN <<g, i + 1>> \in HeldIn(pq) ELSE <<f, i>> \in HeldIn(pq)
  <2>1. CASE f # g
    <3>1. f \in DOMAIN r.map <=> f \in DOMAIN m
      BY <2>1, <1>4
    <3>2. f \in DOMAIN m => r.map[f] = m[f]
      BY <2>1, <1>4
    <3> QED BY <2>1, <3>1, <3>2 DEF HeldIn
  <2>2. CASE f = g
    <3>1. i + 1 \in Nat \ {0} /\ (i + 1 <= Len(m[g]) <=> i <= Len(rest))
      BY <1>3
    <3>2. <<g, i + 1>> \in HeldIn(pq) <=> i <= Len(rest)
      BY <3>1, <1>1, <1>2 DEF HeldIn
    <3>3. CASE rest = <<>>
      <4>1. g \notin DOMAIN r.map
        BY <3>3, <1>4
      <4>2. ~ (i <= Len(rest))
        BY <3>3, <1>3
      <4> QED BY <2>2, <3>2, <4>1, <4>2 DEF HeldIn
    <3>4. CASE rest # <<>>
      <4>1. g \in DOMAIN r.map /\ r.map[g] = rest
        BY <3>4, <1>1, <1>4
      <4> QED BY <2>2, <3>2, <4>1, <1>2 DEF HeldIn
    <3> QED BY <3>3, <3>4
  <2> QED BY <2>1, <2>2
<1>6. HeldIn(r) = {x \in Flows \X (Nat \ {0}) :
                     IF x[1] = g THEN <<g, x[2] + 1>> \in HeldIn(pq) ELSE x \in HeldIn(pq)}
  <2>1. HeldIn(r) \in SUBSET (Flows \X (Nat \ {0}))
    BY DEF HeldIn
  <2>2. ASSUME NEW x \in Flows \X (Nat \ {0})
        PROVE  x \in HeldIn(r)
                 <=> IF x[1] = g THEN <<g, x[2] + 1>> \in HeldIn(pq) ELSE x \in HeldIn(pq)
    <3>1. PICK f \in Flows, i \in Nat \ {0} : x = <<f, i>>
      OBVIOUS
    <3> QED BY <1>5, <3>1
  <2> QED BY <2>1, <2>2
<1>7. HeldIn(pq) \in SUBSET (Flows \X (Nat \ {0}))
  BY DEF HeldIn
<1>8. <<g, 1>> \in HeldIn(pq)
  BY <1>1, <1>2, <1>3 DEF HeldIn
<1> HIDE DEF g
<1>9. /\ IsFiniteSet(HeldIn(r))
      /\ Cardinality(HeldIn(pq))
           = Cardinality(HeldIn(r)) + (IF <<g, 1>> \in HeldIn(pq) THEN 1 ELSE 0)
  BY <1>2, <1>6, <1>7, ShiftPairsDown
<1> QED BY <1>8, <1>9 DEF r

(* The fields of a host queue after beginService.                          *)
LEMMA HostBeginFields ==
  ASSUME NEW h, NEW q \in HostQueues(h), QueueSize(q) # 0
  PROVE  LET c == IF q.size[Q_HI] > 0 THEN Q_HI ELSE Q_LO
             r == HostBegin(q)
         IN  /\ r.queue = [q.queue EXCEPT ![c] = Dequeue(q.queue[c])]
             /\ r.size = q.size /\ r.sending = NextOut(q.queue[c])
             /\ r.servicing = c /\ r.events = Append(q.events, HostTime)
             /\ r.state = q.state
<1> DEFINE c == IF q.size[Q_HI] > 0 THEN Q_HI ELSE Q_LO
           next == NextOut(q.queue[c])
           rest == Dequeue(q.queue[c])
           es == Append(q.events, HostTime)
           Q == [q.queue EXCEPT ![c] = rest]
<1>1. HostBegin(q) = [q EXCEPT !.sending = next, !.queue[c] = rest,
                               !.servicing = c, !.events = es]
  BY DEF HostBegin
<1> HIDE DEF c, next, rest, es
<1>2. HostBegin(q) = [queue |-> [q.queue EXCEPT ![c] = rest], size |-> q.size, sending |-> next,
                      servicing |-> c, state |-> q.state, events |-> es]
  BY <1>1 DEF HostQueues
<1>3. HostBegin(q) = [queue |-> Q, size |-> q.size, sending |-> next,
                      servicing |-> c, state |-> q.state, events |-> es]
  BY <1>2
<1> HIDE DEF Q
<1>4. /\ HostBegin(q).queue = Q /\ HostBegin(q).size = q.size /\ HostBegin(q).sending = next
      /\ HostBegin(q).servicing = c /\ HostBegin(q).events = es /\ HostBegin(q).state = q.state
  BY <1>3
<1> QED BY <1>4 DEF Q, c, next, rest, es

(* The queue of a priority that has a size has a packet for beginService.  *)
LEMMA NextOutIsPacket ==
  ASSUME NEW h, NEW pq \in PullQueues(h), DOMAIN pq.map # {}
  PROVE  NextOut(pq) \in PacketsOf(h) /\ NextOut(pq) # None
<1>1. pq.map[Turn(pq)] \in Seq(PacketsOf(h)) \ {<<>>}
  BY TurnShape, PullParts
<1>2. NextOut(pq) = Head(pq.map[Turn(pq)])
  BY DEF NextOut
<1>3. NextOut(pq) \in PacketsOf(h)
  BY <1>1, <1>2, HeadTailProperties
<1>4. NextOut(pq).flow \in Flows
  BY <1>3 DEF PacketsOf, AnyPacket
<1>5. 0 \notin Flows
  BY NetAssumption
<1> QED BY <1>3, <1>4, <1>5 DEF None

LEMMA BeginHasPacket ==
  ASSUME NEW h, NEW q \in HostQueues(h), SizesCount(q), q.sending = None, QueueSize(q) # 0
  PROVE  LET c == IF q.size[Q_HI] > 0 THEN Q_HI ELSE Q_LO
         IN  /\ c \in Priorities /\ q.queue[c] \in PullQueues(h)
             /\ q.queue = [b \in Priorities |-> q.queue[b]]
             /\ DOMAIN q.queue[c].map # {}
<1> DEFINE c == IF q.size[Q_HI] > 0 THEN Q_HI ELSE Q_LO
<1>1. c \in Priorities /\ Q_HI \in Priorities /\ Q_LO \in Priorities
  BY DEF Priorities
<1>2. \A b \in Priorities : q.size[b] \in Nat /\ q.size[b] = Cardinality(HeldIn(q.queue[b]))
  <2>1. \A b \in Priorities : /\ IsFiniteSet(HeldIn(q.queue[b]))
                              /\ q.size[b] = Cardinality(HeldIn(q.queue[b])) + 0
    BY DEF SizesCount
  <2> QED BY <2>1, FS_CardinalityType
<1>3. q.size[c] # 0
  BY <1>1, <1>2 DEF QueueSize
<1> HIDE DEF c
<1>4. q.queue[c] \in PullQueues(h) /\ q.queue = [b \in Priorities |-> q.queue[b]]
  BY <1>1 DEF HostQueues
<1>5. HeldIn(q.queue[c]) # {}
  BY <1>1, <1>2, <1>3, FS_EmptySet
<1>6. DOMAIN q.queue[c].map # {}
  BY <1>4, <1>5, HeldNone
<1> QED BY <1>1, <1>4, <1>6 DEF c

(* FairPriorityQueue::beginService, when nothing is in service.            *)
LEMMA HostBeginServes ==
  ASSUME NEW h, NEW q \in HostQueues(h), SizesCount(q), q.sending = None, q.events = <<>>,
         QueueSize(q) # 0, q.state # PAUSED
  PROVE  LET r == HostBegin(q)
         IN  Serving(r) /\ r.sending # None /\ r.events = <<HostTime>> /\ r.state = q.state
<1> DEFINE c == IF q.size[Q_HI] > 0 THEN Q_HI ELSE Q_LO
           r == HostBegin(q)
           pq == q.queue[c]
<1>1. /\ r.queue = [q.queue EXCEPT ![c] = Dequeue(pq)]
      /\ r.size = q.size /\ r.sending = NextOut(pq)
      /\ r.servicing = c /\ r.events = Append(q.events, HostTime)
      /\ r.state = q.state
  BY HostBeginFields
<1>2. /\ c \in Priorities /\ pq \in PullQueues(h) /\ DOMAIN pq.map # {}
      /\ q.queue = [b \in Priorities |-> q.queue[b]]
  BY BeginHasPacket
<1> HIDE DEF c, r
<1>3. \A b \in Priorities : /\ IsFiniteSet(HeldIn(q.queue[b]))
                            /\ q.size[b] = Cardinality(HeldIn(q.queue[b])) + 0
                            /\ q.size[b] \in Int
  BY DEF SizesCount, HostQueues
<1>4. \A b \in Priorities : q.size[b] \in Nat /\ q.size[b] = Cardinality(HeldIn(q.queue[b]))
  BY <1>3, FS_CardinalityType
<1>5. r.sending # None
  <2> HIDE DEF pq
  <2> QED BY <1>1, <1>2, NextOutIsPacket
<1>6. /\ IsFiniteSet(HeldIn(Dequeue(pq)))
      /\ Cardinality(HeldIn(pq)) = Cardinality(HeldIn(Dequeue(pq))) + 1
  <2>1. IsFiniteSet(HeldIn(pq))
    BY <1>2, <1>3
  <2> HIDE DEF pq
  <2> QED BY <2>1, <1>2, DequeueCounts
<1>7. SizesCount(r)
  <2> SUFFICES ASSUME NEW b \in Priorities
               PROVE  /\ IsFiniteSet(HeldIn(r.queue[b]))
                      /\ r.size[b] = Cardinality(HeldIn(r.queue[b]))
                                     + (IF r.sending # None /\ r.servicing = b THEN 1 ELSE 0)
    BY DEF SizesCount
  <2>1. CASE b = c
    <3>1. r.queue[b] = Dequeue(pq)
      BY <2>1, <1>1, <1>2
    <3> HIDE DEF pq
    <3> QED BY <2>1, <3>1, <1>1, <1>4, <1>5, <1>6 DEF pq
  <2>2. CASE b # c
    <3>1. r.queue[b] = q.queue[b]
      BY <2>2, <1>1, <1>2
    <3> QED BY <2>2, <3>1, <1>1, <1>3
  <2> QED BY <2>1, <2>2
<1>8. r.events = <<HostTime>> /\ Len(r.events) = 1 /\ r.events[1] = HostTime
  BY <1>1
<1>9. HostTime \in 0 .. HostTime
  BY HostQueueAssumption
<1> QED BY <1>1, <1>2, <1>5, <1>7, <1>8, <1>9 DEF Serving, r

LEMMA SizesAre ==
  ASSUME NEW h, NEW q \in HostQueues(h), SizesCount(q)
  PROVE  /\ \A c \in Priorities : q.size[c] \in Nat
         /\ QueueSize(q) = 0 => q.sending = None \/ q.servicing \notin Priorities
<1>1. \A c \in Priorities : Cardinality(HeldIn(q.queue[c])) \in Nat
  BY FS_CardinalityType DEF SizesCount
<1>2. Q_HI \in Priorities /\ Q_LO \in Priorities /\ \A c \in Priorities : c = Q_HI \/ c = Q_LO
  BY DEF Priorities
<1>3. \A c \in Priorities : q.size[c] \in Nat
                            /\ (q.sending # None /\ q.servicing = c => q.size[c] # 0)
  BY <1>1 DEF SizesCount
<1> QED BY <1>2, <1>3 DEF QueueSize

(* A queue whose state, service and sizes are those of another.            *)
LEMMA SameSizes ==
  ASSUME NEW q, SizesCount(q), NEW r, r.queue = q.queue, r.size = q.size,
         r.sending = q.sending, r.servicing = q.servicing
  PROVE  SizesCount(r) /\ QueueSize(r) = QueueSize(q)
BY DEF SizesCount, QueueSize

(* FairPriorityQueue::receivePacket of a packet: it is queued ...           *)
LEMMA HostTakes ==
  ASSUME NEW h, NEW q \in HostQueues(h), NEW p \in PacketsOf(h), NEW c \in Priorities,
         Serving(q)
  PROVE  \E more \in HostQueues(h) :
           /\ QueueSize(q) = 0 /\ q.state = READY => HostReceive(q, p, c) = HostBegin(more)
           /\ ~(QueueSize(q) = 0 /\ q.state = READY) => HostReceive(q, p, c) = more
           /\ SizesCount(more)
           /\ more.queue[c] = Enqueue(q.queue[c], p) /\ more.size[c] = q.size[c] + 1
           /\ \A b \in Priorities :
                b # c => more.queue[b] = q.queue[b] /\ more.size[b] = q.size[b]
           /\ more.sending = q.sending /\ more.servicing = q.servicing
           /\ more.state = q.state /\ more.events = q.events
<1> DEFINE pq == Enqueue(q.queue[c], p)
           more == [q EXCEPT !.queue[c] = pq, !.size[c] = @ + 1]
           one == [q EXCEPT !.queue[c] = pq]
           Q == [q.queue EXCEPT ![c] = pq]
           Z == [q.size EXCEPT ![c] = @ + 1]
<1>1. q.queue[c] \in PullQueues(h) /\ SizesCount(q)
  BY DEF HostQueues, Serving
<1>2. pq \in PullQueues(h)
  BY <1>1, EnqueueShape
<1>3. IsFiniteSet(HeldIn(pq)) /\ Cardinality(HeldIn(pq)) = Cardinality(HeldIn(q.queue[c])) + 1
  BY <1>1, EnqueueCounts DEF SizesCount
<1>4. HostReceive(q, p, c) = IF QueueSize(q) = 0 /\ q.state = READY
                             THEN HostBegin(more) ELSE more
  BY DEF HostReceive
<1> HIDE DEF pq
<1>5. more = [queue |-> Q, size |-> Z, sending |-> q.sending,
              servicing |-> q.servicing, state |-> q.state, events |-> q.events]
  <2>1. q = [queue |-> q.queue, size |-> q.size, sending |-> q.sending,
             servicing |-> q.servicing, state |-> q.state, events |-> q.events]
    BY DEF HostQueues
  <2>2. one = [q EXCEPT !.queue = Q]
    BY <2>1
  <2>3. more = [one EXCEPT !.size[c] = @ + 1]
    <3>1. one = [queue |-> Q, size |-> q.size, sending |-> q.sending,
                 servicing |-> q.servicing, state |-> q.state, events |-> q.events]
      <4> HIDE DEF Q, one
      <4> QED BY <2>1, <2>2
    <3>2. one.size = q.size
      BY <3>1
    <3> QED BY <3>2
  <2>4. one = [queue |-> Q, size |-> q.size, sending |-> q.sending,
               servicing |-> q.servicing, state |-> q.state, events |-> q.events]
    <3> HIDE DEF Q, one
    <3> QED BY <2>1, <2>2
  <2> HIDE DEF one, more, Q
  <2> QED BY <2>3, <2>4
<1>6. Q \in [Priorities -> PullQueues(h)] /\ Z \in [Priorities -> Int]
      /\ Q[c] = pq /\ Z[c] = q.size[c] + 1
      /\ \A b \in Priorities : b # c => Q[b] = q.queue[b] /\ Z[b] = q.size[b]
  BY <1>2 DEF HostQueues
<1> HIDE DEF Q, Z, more
<1>7. more \in HostQueues(h)
  BY <1>5, <1>6 DEF HostQueues
<1>8. /\ more.queue = Q /\ more.size = Z /\ more.sending = q.sending
      /\ more.servicing = q.servicing /\ more.state = q.state /\ more.events = q.events
  BY <1>5
<1>9. SizesCount(more)
  <2> SUFFICES ASSUME NEW b \in Priorities
               PROVE  /\ IsFiniteSet(HeldIn(Q[b]))
                      /\ Z[b] = Cardinality(HeldIn(Q[b]))
                                + (IF q.sending # None /\ q.servicing = b THEN 1 ELSE 0)
    BY <1>8 DEF SizesCount
  <2>1. /\ IsFiniteSet(HeldIn(q.queue[b]))
        /\ q.size[b] = Cardinality(HeldIn(q.queue[b]))
                       + (IF q.sending # None /\ q.servicing = b THEN 1 ELSE 0)
    BY <1>1 DEF SizesCount
  <2>2. Cardinality(HeldIn(q.queue[b])) \in Nat
    BY <2>1, FS_CardinalityType
  <2>3. CASE b = c
    BY <2>1, <2>2, <2>3, <1>3, <1>6
  <2>4. CASE b # c
    BY <2>1, <2>4, <1>6
  <2> QED BY <2>3, <2>4
<1>10. /\ more.queue[c] = Enqueue(q.queue[c], p) /\ more.size[c] = q.size[c] + 1
       /\ \A b \in Priorities :
            b # c => more.queue[b] = q.queue[b] /\ more.size[b] = q.size[b]
  BY <1>6, <1>8 DEF pq
<1>11. /\ QueueSize(q) = 0 /\ q.state = READY => HostReceive(q, p, c) = HostBegin(more)
       /\ ~(QueueSize(q) = 0 /\ q.state = READY) => HostReceive(q, p, c) = more
  BY <1>4
<1> QED BY <1>7, <1>8, <1>9, <1>10, <1>11

(* ... and served at once if there is nothing else.                        *)
LEMMA HostReceiveServes ==
  ASSUME NEW h, NEW q \in HostQueues(h), NEW p \in PacketsOf(h), NEW c \in Priorities,
         Serving(q)
  PROVE  LET r == HostReceive(q, p, c)
         IN  /\ Serving(r) /\ r.state = q.state
             /\ q.sending # None => r.sending # None /\ r.events = q.events
             /\ q.sending = None /\ r.sending # None =>
                  r.events = <<HostTime>> /\ q.state = READY
<1> DEFINE r == HostReceive(q, p, c)
<1>1. SizesCount(q)
  BY DEF Serving
<1>2. PICK more \in HostQueues(h) :
        /\ QueueSize(q) = 0 /\ q.state = READY => HostReceive(q, p, c) = HostBegin(more)
        /\ ~(QueueSize(q) = 0 /\ q.state = READY) => HostReceive(q, p, c) = more
        /\ SizesCount(more)
        /\ more.queue[c] = Enqueue(q.queue[c], p) /\ more.size[c] = q.size[c] + 1
        /\ \A b \in Priorities :
             b # c => more.queue[b] = q.queue[b] /\ more.size[b] = q.size[b]
        /\ more.sending = q.sending /\ more.servicing = q.servicing
        /\ more.state = q.state /\ more.events = q.events
  BY HostTakes
<1>3. QueueSize(more) # 0
  <2>1. \A b \in Priorities : q.size[b] \in Nat
    BY <1>1, SizesAre
  <2>2. Q_HI \in Priorities /\ Q_LO \in Priorities /\ (c = Q_HI \/ c = Q_LO)
    BY DEF Priorities
  <2>3. more.size[Q_HI] \in Nat /\ more.size[Q_LO] \in Nat /\ more.size[c] # 0
    BY <1>2, <2>1, <2>2
  <2> QED BY <2>2, <2>3 DEF QueueSize
<1>4. CASE QueueSize(q) = 0 /\ q.state = READY
  <2>1. q.sending = None
    BY <1>4, <1>1, SizesAre DEF Serving
  <2>2. q.events = <<>>
    BY <2>1 DEF Serving
  <2>3. more.state # PAUSED
    BY <1>2, <1>4 DEF READY, PAUSED
  <2>4. Serving(r) /\ r.sending # None /\ r.events = <<HostTime>> /\ r.state = q.state
    BY <1>2, <1>3, <1>4, <2>1, <2>2, <2>3, HostBeginServes
  <2> QED BY <2>1, <2>4, <1>4
<1>5. CASE ~ (QueueSize(q) = 0 /\ q.state = READY)
  <2>1. r = more
    BY <1>2, <1>5
  <2>2. q.state = READY => q.sending # None
    BY <1>5 DEF Serving
  <2>3. Serving(more)
    BY <1>2, <2>2 DEF Serving
  <2> HIDE DEF r
  <2>4. Serving(r) /\ r.state = q.state /\ r.sending = q.sending /\ r.events = q.events
    BY <2>1, <2>3, <1>2
  <2> QED BY <2>4 DEF r
<1> QED BY <1>4, <1>5

(* FairPriorityQueue::receivePacket of a PAUSE frame that holds it.        *)
LEMMA HostPauseServes ==
  ASSUME NEW h, NEW q \in HostQueues(h), Serving(q), q.state = READY
  PROVE  LET r == HostPause(q)
         IN  /\ Serving(r) /\ r.sending = q.sending /\ r.events = q.events
             /\ r.state \in {PAUSED, PAUSE_RECEIVED}
<1> DEFINE r == HostPause(q)
<1>1. /\ r.queue = q.queue /\ r.size = q.size /\ r.sending = q.sending
      /\ r.servicing = q.servicing /\ r.events = q.events
      /\ r.state = IF QueueSize(q) > 0 THEN PAUSE_RECEIVED ELSE PAUSED
  BY DEF HostPause, HostQueues
<1> HIDE DEF r
<1>2. SizesCount(r) /\ QueueSize(r) = QueueSize(q)
  BY <1>1, SameSizes DEF Serving
<1>3. \A b \in Priorities : q.size[b] \in Nat
  BY SizesAre DEF Serving
<1>4. QueueSize(q) \in Nat
  BY <1>3 DEF QueueSize, Priorities
<1>5. q.sending = None <=> QueueSize(q) = 0
  BY SizesAre DEF Serving
<1>6. Serving(r)
  BY <1>1, <1>2, <1>4, <1>5 DEF Serving, READY, PAUSED, PAUSE_RECEIVED
<1> QED BY <1>1, <1>6 DEF r

(* ... and of one that lets it go on, if the service has ended.            *)
LEMMA HostResumeServes ==
  ASSUME NEW h, NEW q \in HostQueues(h), Serving(q), q.state = PAUSED
  PROVE  LET r == HostResume(q)
         IN  /\ Serving(r) /\ q.sending = None /\ r.state = READY
             /\ r.sending # None => r.events = <<HostTime>>
<1> DEFINE go == [q EXCEPT !.state = READY]
           r == HostResume(q)
<1>1. q.sending = None /\ q.events = <<>> /\ q.servicing = Q_NONE
  BY DEF Serving
<1>2. /\ go.queue = q.queue /\ go.size = q.size /\ go.sending = q.sending
      /\ go.servicing = q.servicing /\ go.events = q.events /\ go.state = READY
      /\ go \in HostQueues(h)
  BY DEF HostQueues, States
<1>3. r = IF QueueSize(go) > 0 THEN HostBegin(go) ELSE go
  BY DEF HostResume
<1> HIDE DEF go, r
<1>4. SizesCount(go)
  BY <1>2, SameSizes DEF Serving
<1>5. QueueSize(go) \in Nat
  <2>1. \A b \in Priorities : go.size[b] \in Nat
    BY <1>2, <1>4, SizesAre
  <2> QED BY <2>1 DEF QueueSize, Priorities
<1>6. CASE QueueSize(go) > 0
  <2>1. go.state # PAUSED
    BY <1>2 DEF READY, PAUSED
  <2>2. Serving(r) /\ r.sending # None /\ r.events = <<HostTime>> /\ r.state = go.state
    BY <1>1, <1>2, <1>3, <1>4, <1>5, <1>6, <2>1, HostBeginServes
  <2> QED BY <2>2, <1>1, <1>2 DEF r
<1>7. CASE ~ (QueueSize(go) > 0)
  <2>1. r = go /\ QueueSize(go) = 0
    BY <1>3, <1>5, <1>7
  <2>2. Serving(go)
    BY <2>1, <1>1, <1>2, <1>4 DEF Serving, READY, PAUSE_RECEIVED
  <2> QED BY <2>1, <2>2, <1>1, <1>2 DEF r
<1> QED BY <1>6, <1>7

(* FairPriorityQueue::completeService, at the end of the service of a      *)
(* packet: it is gone ...                                                  *)
LEMMA PacketServed ==
  ASSUME NEW h, NEW q \in HostQueues(h), SizesCount(q), q.events = <<>>, q.sending # None,
         q.servicing \in Priorities, q.state # PAUSED
  PROVE  /\ HostSends(q)
         /\ \E held \in HostQueues(h) :
              /\ HostComplete(q) = IF QueueSize(held) > 0 /\ held.state = READY
                                   THEN HostBegin(held)
                                   ELSE [held EXCEPT !.servicing = Q_NONE]
              /\ SizesCount(held) /\ held.queue = q.queue /\ held.sending = None
              /\ held.servicing = q.servicing /\ held.events = <<>>
              /\ held.state = IF q.state = PAUSE_RECEIVED THEN PAUSED ELSE q.state
<1> DEFINE c == q.servicing
           Z == [q.size EXCEPT ![c] = @ - 1]
           v == IF q.state = PAUSE_RECEIVED THEN PAUSED ELSE q.state
           left == [q EXCEPT !.size[c] = @ - 1, !.sending = None]
           held == [left EXCEPT !.state = IF @ = PAUSE_RECEIVED THEN PAUSED ELSE @]
<1>1. HostSends(q)
  BY DEF HostSends, Priorities, Q_NONE, Q_LO, Q_HI
<1>2. HostComplete(q) = IF QueueSize(held) > 0 /\ held.state = READY
                        THEN HostBegin(held) ELSE [held EXCEPT !.servicing = Q_NONE]
  BY <1>1 DEF HostComplete
<1>3. left = [queue |-> q.queue, size |-> Z, sending |-> None,
              servicing |-> c, state |-> q.state, events |-> q.events]
  <2> DEFINE one == [q EXCEPT !.size[c] = @ - 1]
  <2>1. q = [queue |-> q.queue, size |-> q.size, sending |-> q.sending,
             servicing |-> q.servicing, state |-> q.state, events |-> q.events]
    BY DEF HostQueues
  <2>2. one = [q EXCEPT !.size = Z]
    BY <2>1
  <2>3. left = [one EXCEPT !.sending = None]
    OBVIOUS
  <2> HIDE DEF one, left, Z
  <2>4. one = [queue |-> q.queue, size |-> Z, sending |-> q.sending,
               servicing |-> q.servicing, state |-> q.state, events |-> q.events]
    BY <2>1, <2>2
  <2> QED BY <2>3, <2>4
<1>4. /\ Z \in [Priorities -> Int] /\ Z[c] = q.size[c] - 1
      /\ \A b \in Priorities : b # c => Z[b] = q.size[b]
  BY DEF HostQueues
<1> HIDE DEF Z, left
<1>5. held = [queue |-> q.queue, size |-> Z, sending |-> None,
              servicing |-> c, state |-> v, events |-> q.events]
  BY <1>3
<1> HIDE DEF held
<1>6. held \in HostQueues(h)
  BY <1>4, <1>5 DEF HostQueues, States
<1> HIDE DEF v
<1>7. /\ held.queue = q.queue /\ held.size = Z /\ held.sending = None
      /\ held.servicing = c /\ held.state = v /\ held.events = <<>>
  BY <1>5
<1>8. SizesCount(held)
  <2> SUFFICES ASSUME NEW b \in Priorities
               PROVE  IsFiniteSet(HeldIn(q.queue[b])) /\ Z[b] = Cardinality(HeldIn(q.queue[b])) + 0
    BY <1>7 DEF SizesCount
  <2>1. /\ IsFiniteSet(HeldIn(q.queue[b]))
        /\ q.size[b] = Cardinality(HeldIn(q.queue[b])) + (IF c = b THEN 1 ELSE 0)
    BY DEF SizesCount
  <2>2. Cardinality(HeldIn(q.queue[b])) \in Nat
    BY <2>1, FS_CardinalityType
  <2> HIDE DEF c
  <2> QED BY <2>1, <2>2, <1>4
<1> QED BY <1>1, <1>2, <1>6, <1>7, <1>8 DEF c, v

(* ... and the next one is begun, unless a PAUSE came meanwhile.            *)
LEMMA HostCompleteServes ==
  ASSUME NEW h, NEW q \in HostQueues(h), SizesCount(q), q.events = <<>>, q.sending # None,
         q.servicing \in Priorities, q.state # PAUSED
  PROVE  LET r == HostComplete(q)
         IN  /\ HostSends(q) /\ Serving(r)
             /\ q.state = READY => r.state = READY
             /\ q.state = PAUSE_RECEIVED => r.state = PAUSED /\ r.sending = None
             /\ r.sending # None => r.events = <<HostTime>> /\ r.state = READY
<1> DEFINE r == HostComplete(q)
<1>1. HostSends(q)
  BY PacketServed
<1>2. PICK held \in HostQueues(h) :
        /\ r = IF QueueSize(held) > 0 /\ held.state = READY
               THEN HostBegin(held) ELSE [held EXCEPT !.servicing = Q_NONE]
        /\ SizesCount(held) /\ held.queue = q.queue /\ held.sending = None
        /\ held.servicing = q.servicing /\ held.events = <<>>
        /\ held.state = IF q.state = PAUSE_RECEIVED THEN PAUSED ELSE q.state
  BY PacketServed
<1> HIDE DEF r
<1>3. QueueSize(held) \in Nat
  <2>1. \A b \in Priorities : held.size[b] \in Nat
    BY <1>2, SizesAre
  <2> QED BY <2>1 DEF QueueSize, Priorities
<1>4. held.state \in {READY, PAUSED} /\ (held.state = READY <=> q.state = READY)
      /\ (q.state = PAUSE_RECEIVED => held.state = PAUSED)
  BY <1>2 DEF HostQueues, States, READY, PAUSED, PAUSE_RECEIVED
<1>5. CASE QueueSize(held) > 0 /\ held.state = READY
  <2>1. held.state # PAUSED
    BY <1>5 DEF READY, PAUSED
  <2>2. Serving(r) /\ r.sending # None /\ r.events = <<HostTime>> /\ r.state = READY
    BY <1>2, <1>3, <1>5, <2>1, HostBeginServes
  <2>3. q.state = READY /\ q.state # PAUSE_RECEIVED
    BY <1>4, <1>5 DEF READY, PAUSE_RECEIVED
  <2> QED BY <1>1, <2>2, <2>3 DEF r
<1>6. CASE ~ (QueueSize(held) > 0 /\ held.state = READY)
  <2>1. r = [held EXCEPT !.servicing = Q_NONE]
    BY <1>2, <1>6
  <2>2. /\ r.queue = held.queue /\ r.size = held.size /\ r.sending = None
        /\ r.servicing = Q_NONE /\ r.events = <<>> /\ r.state = held.state
    BY <1>2, <2>1 DEF HostQueues
  <2> HIDE <2>1
  <2>3. SizesCount(r) /\ QueueSize(r) = QueueSize(held)
    BY <2>2, <1>2 DEF SizesCount, QueueSize
  <2>4. r.state = READY => QueueSize(r) = 0
    BY <1>3, <1>6, <2>2, <2>3
  <2>5. r.state # PAUSE_RECEIVED
    BY <1>4, <2>2 DEF READY, PAUSED, PAUSE_RECEIVED
  <2>6. Serving(r)
    BY <2>2, <2>3, <2>4, <2>5 DEF Serving
  <2> QED BY <1>1, <1>4, <2>2, <2>6 DEF r
<1> QED BY <1>5, <1>6

-----------------------------------------------------------------------------
(* What the outputs can hand on in a time: the next packet of each, after  *)
(* the time that n says, and those that follow it.                         *)
Leaves(n, e) ==
  {x \in Outputs \X (Nat \ {0}) : n[x[1]] + (x[2] - 1) * OutTime <= e}

LEMMA FitsInto ==
  ASSUME NEW e \in Nat, NEW T \in Nat \ {0}, NEW i \in Nat, i * T <= e
  PROVE  i <= e \div T
<1> DEFINE k == e \div T
<1>1. T \in Int /\ T > 0
  OBVIOUS
<1>2. k \in Nat /\ e < k * T + T
  BY <1>1
<1> HIDE DEF k
<1>3. ASSUME NEW m \in Nat, i = k + 1 + m  PROVE FALSE
  <2>1. (k + 1 + m) * T = k * T + T + m * T
    BY <1>1, <1>2
  <2>2. m * T >= 0 /\ m * T \in Int /\ k * T \in Int
    BY <1>1, <1>2
  <2> QED BY <1>1, <1>2, <1>3, <2>1, <2>2
<1>4. i <= k
  <2> SUFFICES ASSUME i > k  PROVE FALSE
    BY <1>2
  <2>1. i - 1 - k \in Nat /\ i = k + 1 + (i - 1 - k)
    BY <1>2
  <2> QED BY <2>1, <1>3
<1> QED BY <1>4 DEF k

LEMMA LeavesBounded ==
  ASSUME NEW n \in [Outputs -> Nat], NEW e \in 0 .. HostTime
  PROVE  /\ IsFiniteSet(Leaves(n, e)) /\ Cardinality(Leaves(n, e)) \in Nat
         /\ Cardinality(Leaves(n, e)) <= Cardinality(Outputs) * (1 + HostTime \div OutTime)
<1> DEFINE k == 1 + HostTime \div OutTime
           D == 1 .. k
<1>1. HostTime \in Nat /\ OutTime \in Nat /\ OutTime > 0
  BY HostQueueAssumption, LosslessAssumption
<1>2. k \in Nat
  BY <1>1
<1>3. Leaves(n, e) \in SUBSET (Outputs \X D)
  <2> SUFFICES ASSUME NEW x \in Leaves(n, e)  PROVE x \in Outputs \X D
    OBVIOUS
  <2>1. PICK o \in Outputs, i \in Nat \ {0} : x = <<o, i>>
    BY DEF Leaves
  <2>2. n[o] + (i - 1) * OutTime <= e /\ n[o] \in Nat
    BY <2>1 DEF Leaves
  <2>3. (i - 1) * OutTime \in Int
    BY <1>1
  <2>4. (i - 1) * OutTime <= HostTime
    BY <1>1, <2>2, <2>3
  <2>5. i - 1 <= HostTime \div OutTime
    BY <1>1, <2>4, FitsInto
  <2>6. i \in D
    <3> DEFINE d == HostTime \div OutTime
    <3>1. i - 1 <= d /\ d \in Int
      BY <1>1, <2>5
    <3> HIDE DEF d
    <3>2. i <= 1 + d
      BY <3>1
    <3> QED BY <3>1, <3>2 DEF d
  <2> QED BY <2>1, <2>6
<1>4. IsFiniteSet(D) /\ Cardinality(D) = k
  <2> HIDE DEF k
  <2> QED BY <1>2, FS_Interval
<1> HIDE DEF D
<1>5. /\ IsFiniteSet(Outputs \X D)
      /\ Cardinality(Outputs \X D) = Cardinality(Outputs) * Cardinality(D)
  BY <1>4, NetAssumption, FS_Product
<1>6. /\ IsFiniteSet(Leaves(n, e))
      /\ Cardinality(Leaves(n, e)) <= Cardinality(Outputs \X D)
  BY <1>3, <1>5, FS_Subset
<1> QED BY <1>4, <1>5, <1>6, FS_CardinalityType

(* Time passes, and no output hands on sooner than it was about to.        *)
LEMMA LeavesPass ==
  ASSUME NEW n \in [Outputs -> Nat], NEW m \in [Outputs -> Nat],
         NEW e \in 0 .. HostTime, NEW t \in 0 .. e, \A o \in Outputs : m[o] >= n[o] - t
  PROVE  Cardinality(Leaves(m, e - t)) <= Cardinality(Leaves(n, e))
<1>1. Leaves(m, e - t) \in SUBSET Leaves(n, e)
  <2> SUFFICES ASSUME NEW x \in Leaves(m, e - t)  PROVE x \in Leaves(n, e)
    OBVIOUS
  <2>1. PICK o \in Outputs, i \in Nat \ {0} : x = <<o, i>>
    BY DEF Leaves
  <2> DEFINE d == (i - 1) * OutTime
  <2>2. m[o] + d <= e - t
    BY <2>1 DEF Leaves
  <2>3. d \in Int
    BY LosslessAssumption
  <2> HIDE DEF d
  <2>4. n[o] + d <= e
    BY <2>2, <2>3
  <2> QED BY <2>1, <2>4 DEF Leaves, d
<1>2. IsFiniteSet(Leaves(n, e))
  BY LeavesBounded
<1> QED BY <1>1, <1>2, FS_Subset

(* One output hands on a packet.                                           *)
LEMMA LeavesOne ==
  ASSUME NEW n \in [Outputs -> Nat], NEW m \in [Outputs -> Nat], NEW e \in 0 .. HostTime,
         NEW o \in Outputs, n[o] = 0, m[o] = OutTime,
         \A a \in Outputs : a # o => m[a] = n[a]
  PROVE  Cardinality(Leaves(n, e)) = Cardinality(Leaves(m, e)) + 1
<1> DEFINE A == Leaves(n, e)
           B == Leaves(m, e)
<1>1. A \in SUBSET (Outputs \X (Nat \ {0})) /\ B \in SUBSET (Outputs \X (Nat \ {0}))
  BY DEF Leaves
<1>2. ASSUME NEW x \in Outputs \X (Nat \ {0})
      PROVE  x \in B <=> IF x[1] = o THEN <<o, x[2] + 1>> \in A ELSE x \in A
  <2>1. PICK a \in Outputs, i \in Nat \ {0} : x = <<a, i>>
    OBVIOUS
  <2>2. x \in B <=> m[a] + (i - 1) * OutTime <= e
    BY <2>1 DEF Leaves
  <2>3. CASE a # o
    <3>1. x \in A <=> n[a] + (i - 1) * OutTime <= e
      BY <2>1 DEF Leaves
    <3> QED BY <2>1, <2>2, <2>3, <3>1
  <2>4. CASE a = o
    <3> DEFINE d == (i - 1) * OutTime
    <3>1. i + 1 \in Nat \ {0} /\ (i + 1 - 1) * OutTime = d + OutTime /\ d \in Int /\ OutTime \in Int
      BY LosslessAssumption
    <3>2. <<o, i + 1>> \in A <=> n[o] + (i + 1 - 1) * OutTime <= e
      <4>1. <<o, i + 1>> \in Outputs \X (Nat \ {0})
        BY <3>1
      <4> QED BY <4>1 DEF Leaves
    <3>3. x \in B <=> m[o] + d <= e
      BY <2>2, <2>4
    <3> HIDE DEF d, A, B
    <3>4. <<o, i + 1>> \in A <=> d + OutTime <= e
      BY <3>1, <3>2
    <3>5. x \in B <=> OutTime + d <= e
      BY <3>3
    <3>6. x \in B <=> <<o, i + 1>> \in A
      BY <3>1, <3>4, <3>5
    <3> QED BY <2>1, <2>4, <3>6
  <2> QED BY <2>3, <2>4
<1>3. B = {x \in Outputs \X (Nat \ {0}) : IF x[1] = o THEN <<o, x[2] + 1>> \in A ELSE x \in A}
  BY <1>1, <1>2
<1>4. <<o, 1>> \in A
  <2>1. (1 - 1) * OutTime = 0
    BY LosslessAssumption
  <2> QED BY <2>1 DEF Leaves
<1>5. IsFiniteSet(A) /\ Cardinality(A) \in Nat
  BY LeavesBounded
<1> HIDE DEF A, B
<1>6. Cardinality(A) = Cardinality(B) + (IF <<o, 1>> \in A THEN 1 ELSE 0)
  BY <1>1, <1>3, <1>5, ShiftPairsDown
<1> QED BY <1>4, <1>6 DEF A, B

-----------------------------------------------------------------------------
(* The time until an output can hand on its next packet.                   *)
NextLeft(q) == IF q.sending THEN q.left ELSE OutTime
NextLefts(w) == [o \in Outputs |-> NextLeft(w[o])]

Timed(q) == q.sending => q.left \in 0 .. OutTime

LEMMA OutBeginTimed ==
  ASSUME NEW q \in OutRecords
  PROVE  Timed(OutBegin(q)) /\ NextLeft(OutBegin(q)) = OutTime
<1>1. OutBegin(q).sending = TRUE /\ OutBegin(q).left = OutTime
  BY DEF OutBegin, OutRecords
<1> QED BY <1>1, LosslessAssumption DEF Timed, NextLeft

(* Nothing makes an output faster ...                                      *)
LEMMA OutMethodsTimed ==
  ASSUME NEW q \in OutQueues, Timed(q)
  PROVE  /\ NextLeft(q) \in 0 .. OutTime
         /\ Timed(OutPause(q)) /\ NextLeft(OutPause(q)) >= NextLeft(q)
         /\ Timed(OutResume(q)) /\ NextLeft(OutResume(q)) >= NextLeft(q)
<1>1. q \in OutRecords
  BY DEF OutQueues, OutRecords
<1>2. NextLeft(q) \in 0 .. OutTime
  BY LosslessAssumption DEF Timed, NextLeft
<1>3. OutPause(q).sending = q.sending /\ OutPause(q).left = q.left
  BY <1>1 DEF OutPause, OutRecords
<1>4. Timed(OutPause(q)) /\ NextLeft(OutPause(q)) = NextLeft(q)
  BY <1>3 DEF Timed, NextLeft
<1> DEFINE go == [q EXCEPT !.state = READY]
<1>5. go \in OutRecords /\ go.sending = q.sending /\ go.left = q.left
  BY <1>1 DEF OutRecords, States
<1>6. OutResume(q) \in {go, OutBegin(go)}
  BY DEF OutResume
<1> HIDE DEF go
<1>7. Timed(go) /\ NextLeft(go) = NextLeft(q)
  BY <1>5 DEF Timed, NextLeft
<1>8. Timed(OutBegin(go)) /\ NextLeft(OutBegin(go)) = OutTime
  BY <1>5, OutBeginTimed
<1>9. Timed(OutResume(q)) /\ NextLeft(OutResume(q)) >= NextLeft(q)
  BY <1>2, <1>6, <1>7, <1>8
<1> QED BY <1>2, <1>4, <1>9

LEMMA OutReceiveTimed ==
  ASSUME NEW q \in OutQueues, Timed(q), NEW p \in AnyPacket, NEW h \in Hosts, NEW b \in Nat
  PROVE  Timed(OutReceive(q, p, h, b)) /\ NextLeft(OutReceive(q, p, h, b)) >= NextLeft(q)
<1> DEFINE s == Append(q.enqueued, p)
           u == Append(q.spare, b)
           v == Append(q.vq, h)
           more == [q EXCEPT !.enqueued = s, !.spare = u, !.vq = v]
<1>1. s \in Seq(AnyPacket) /\ u \in Seq(Nat) /\ v \in Seq(Hosts)
  BY AppendProperties DEF OutQueues, OutRecords
<1>2. OutReceive(q, p, h, b) \in {more, OutBegin(more)}
  BY DEF OutReceive
<1> HIDE DEF s, u, v
<1>3. more \in OutRecords /\ more.sending = q.sending /\ more.left = q.left
  BY <1>1 DEF OutQueues, OutRecords
<1> HIDE DEF more
<1>4. Timed(more) /\ NextLeft(more) = NextLeft(q)
  BY <1>3 DEF Timed, NextLeft
<1>5. Timed(OutBegin(more)) /\ NextLeft(OutBegin(more)) = OutTime
  BY <1>3, OutBeginTimed
<1>6. NextLeft(q) \in 0 .. OutTime
  BY OutMethodsTimed
<1> QED BY <1>2, <1>4, <1>5, <1>6

(* ... and after a packet the next one takes a service.                    *)
LEMMA OutCompleteTimed ==
  ASSUME NEW q \in OutQueues
  PROVE  Timed(OutComplete(q)) /\ NextLeft(OutComplete(q)) = OutTime
<1>1. CASE q.enqueued = <<>>
  <2>1. OutComplete(q).sending = FALSE
    BY <1>1 DEF OutComplete, OutQueues, OutRecords
  <2> QED BY <2>1 DEF Timed, NextLeft
<1>2. CASE q.enqueued # <<>>
  <2> DEFINE s == Tail(q.enqueued)
             u == Tail(q.spare)
             v == Tail(q.vq)
             z == <<Head(q.enqueued).flow>>
             w == IF q.state = PAUSE_RECEIVED THEN PAUSED ELSE q.state
             rest == [q EXCEPT !.enqueued = s, !.spare = u, !.vq = v, !.popped = z,
                               !.sending = FALSE, !.state = w]
  <2>1. /\ s \in Seq(AnyPacket) /\ u \in Seq(Nat) /\ v \in Seq(Hosts) /\ z \in Seq(Flows)
        /\ w \in States
    <3>1. /\ q.enqueued \in Seq(AnyPacket) /\ q.spare \in Seq(Nat) /\ q.vq \in Seq(Hosts)
          /\ Len(q.spare) = Len(q.enqueued) /\ Len(q.enqueued) <= Len(q.vq)
      BY DEF OutQueues, OutRecords
    <3>2. q.spare # <<>> /\ q.vq # <<>>
      BY <1>2, <3>1, EmptySeq
    <3>3. s \in Seq(AnyPacket) /\ u \in Seq(Nat) /\ v \in Seq(Hosts) /\ Head(q.enqueued) \in AnyPacket
      BY <1>2, <3>1, <3>2, HeadTailProperties
    <3>4. z \in Seq(Flows)
      BY <3>3 DEF AnyPacket
    <3> QED BY <3>3, <3>4 DEF OutQueues, OutRecords, States
  <2>2. OutComplete(q) \in {rest, OutBegin(rest)}
    <3> HIDE DEF s, u, v, z
    <3> QED BY <1>2 DEF OutComplete, s, u, v, z
  <2> HIDE DEF s, u, v, w, z
  <2>3. rest \in OutRecords /\ rest.sending = FALSE
    BY <2>1 DEF OutQueues, OutRecords
  <2> HIDE DEF rest
  <2>4. Timed(rest) /\ NextLeft(rest) = OutTime
    BY <2>3 DEF Timed, NextLeft
  <2>5. Timed(OutBegin(rest)) /\ NextLeft(OutBegin(rest)) = OutTime
    BY <2>3, OutBeginTimed
  <2> QED BY <2>2, <2>4, <2>5
<1> QED BY <1>1, <1>2

-----------------------------------------------------------------------------
(* A host serves one packet at a time: the service in which a PAUSE came   *)
(* is over before the outputs can have handed on enough to lift it.        *)
OutTimes == \A o \in Outputs : Timed(out[o])

StaysHeld(q, i, n) ==
  q.state = PAUSE_RECEIVED => i.size - Cardinality(Leaves(n, q.events[1])) >= Low

ServiceInv ==
  /\ IInv /\ OutTimes
  /\ \A h \in Hosts : Serving(nic[h]) /\ StaysHeld(nic[h], inp[h], NextLefts(out))

LEMMA InService ==
  ASSUME NEW q, Serving(q), q.state = PAUSE_RECEIVED
  PROVE  q.sending # None /\ Len(q.events) = 1 /\ q.events[1] \in 0 .. HostTime
BY DEF Serving

LEMMA NextLeftsAre ==
  ASSUME IInv, OutTimes
  PROVE  /\ NextLefts(out) \in [Outputs -> Nat]
         /\ \A o \in Outputs : NextLefts(out)[o] = NextLeft(out[o])
<1>1. \A o \in Outputs : NextLeft(out[o]) \in 0 .. OutTime
  BY OutMethodsTimed DEF IInv, OutShape, OutTimes
<1>2. OutTime \in Nat
  BY LosslessAssumption
<1> QED BY <1>1, <1>2 DEF NextLefts

(* Outputs that have not become faster.                                    *)
LEMMA StillHeld ==
  ASSUME NEW n \in [Outputs -> Nat], NEW m \in [Outputs -> Nat],
         \A o \in Outputs : m[o] >= n[o],
         NEW q, Serving(q), NEW i, i.size \in Int, StaysHeld(q, i, n),
         NEW j, j.size \in Int, j.size >= i.size
  PROVE  StaysHeld(q, j, m)
<1> SUFFICES ASSUME q.state = PAUSE_RECEIVED
             PROVE  j.size - Cardinality(Leaves(m, q.events[1])) >= Low
  BY DEF StaysHeld
<1>1. q.events[1] \in 0 .. HostTime
  BY InService
<1>2. i.size - Cardinality(Leaves(n, q.events[1])) >= Low
  BY DEF StaysHeld
<1> DEFINE e == q.events[1]
<1>3. e \in 0 .. HostTime /\ i.size - Cardinality(Leaves(n, e)) >= Low
  BY <1>1, <1>2
<1> HIDE DEF e
<1>4. e - 0 = e /\ 0 \in 0 .. e /\ \A o \in Outputs : m[o] >= n[o] - 0
  BY <1>3
<1>5. Cardinality(Leaves(m, e)) <= Cardinality(Leaves(n, e))
  BY <1>3, <1>4, LeavesPass
<1>6. Cardinality(Leaves(m, e)) \in Nat /\ Cardinality(Leaves(n, e)) \in Nat
  BY <1>3, LeavesBounded
<1>7. j.size - Cardinality(Leaves(m, e)) >= Low
  BY <1>3, <1>5, <1>6, LosslessAssumption
<1> QED BY <1>7 DEF e

LEMMA ServiceInvInit == Init => ServiceInv
<1> SUFFICES ASSUME Init  PROVE ServiceInv
  OBVIOUS
<1>1. IInv
  BY IInvInit
<1>2. OutTimes
  BY DEF Init, OutTimes, Timed, NewOutput
<1>3. Serving(NewHostQueue) /\ NewHostQueue.state = READY
  <2> DEFINE q == NewHostQueue
  <2>1. /\ \A c \in Priorities : q.queue[c] = EmptyPull /\ q.size[c] = 0
        /\ q.sending = None /\ q.servicing = Q_NONE /\ q.state = READY /\ q.events = <<>>
    BY DEF NewHostQueue
  <2>2. HeldIn(EmptyPull) = {}
    BY DEF HeldIn, EmptyPull
  <2>3. IsFiniteSet({}) /\ Cardinality({}) = 0
    BY FS_EmptySet
  <2> HIDE DEF q
  <2>4. SizesCount(q)
    BY <2>1, <2>2, <2>3 DEF SizesCount
  <2>5. QueueSize(q) = 0
    BY <2>1 DEF QueueSize, Priorities
  <2>6. Serving(q)
    BY <2>1, <2>4, <2>5 DEF Serving, READY, PAUSE_RECEIVED
  <2> QED BY <2>1, <2>6 DEF q
<1>4. \A h \in Hosts : nic[h] = NewHostQueue
  BY DEF Init
<1>5. \A h \in Hosts : Serving(nic[h]) /\ StaysHeld(nic[h], inp[h], NextLefts(out))
  BY <1>3, <1>4 DEF StaysHeld, READY, PAUSE_RECEIVED
<1> QED BY <1>1, <1>2, <1>5 DEF ServiceInv

LEMMA HostShapes ==
  ASSUME IInv, NEW h \in Hosts
  PROVE  /\ nic[h] \in HostQueues(h) /\ inp[h] \in Inputs /\ inp[h].size \in Int
         /\ nic[h].state # READY <=> inp[h].state = PAUSED
         /\ inp[h].state = PAUSED => inp[h].size >= Low
         /\ inp[h].state = READY => inp[h].size <= High
  BY DEF IInv, HostInv, NicShape, InpShape, PauseAgrees, Inputs

(* A step that changes one link's ends at most, and makes no output faster.*)
LEMMA LinkServed ==
  ASSUME ServiceInv, IInv', OutTimes',
         \A o \in Outputs : NextLeft(out'[o]) >= NextLeft(out[o]),
         \A g \in Hosts :
           \/ nic'[g] = nic[g] /\ inp'[g].size >= inp[g].size
           \/ Serving(nic'[g]) /\ StaysHeld(nic'[g], inp'[g], NextLefts(out'))
  PROVE  ServiceInv'
<1> DEFINE n == NextLefts(out)
           m == NextLefts(out')
<1>1. n \in [Outputs -> Nat] /\ \A o \in Outputs : n[o] = NextLeft(out[o])
  BY NextLeftsAre DEF ServiceInv
<1>2. m \in [Outputs -> Nat] /\ \A o \in Outputs : m[o] = NextLeft(out'[o])
  <2>1. \A o \in Outputs : out'[o] \in OutQueues /\ Timed(out'[o])
    BY DEF IInv, OutShape, OutTimes
  <2>2. \A o \in Outputs : NextLeft(out'[o]) \in 0 .. OutTime
    BY <2>1, OutMethodsTimed
  <2>3. OutTime \in Nat
    BY LosslessAssumption
  <2> QED BY <2>2, <2>3 DEF NextLefts
<1>3. \A o \in Outputs : m[o] >= n[o]
  BY <1>1, <1>2
<1> HIDE DEF n, m
<1>4. ASSUME NEW g \in Hosts  PROVE Serving(nic'[g]) /\ StaysHeld(nic'[g], inp'[g], m)
  <2>1. Serving(nic[g]) /\ StaysHeld(nic[g], inp[g], n)
    BY DEF ServiceInv, n
  <2>2. CASE nic'[g] = nic[g] /\ inp'[g].size >= inp[g].size
    <3>1. inp[g].size \in Int
      BY HostShapes DEF ServiceInv
    <3>2. inp'[g].size \in Int
      BY DEF IInv, HostInv, InpShape, Inputs
    <3>3. StaysHeld(nic[g], inp'[g], m)
      BY <1>1, <1>2, <1>3, <2>1, <2>2, <3>1, <3>2, StillHeld
    <3> QED BY <2>1, <2>2, <3>3
  <2>3. CASE Serving(nic'[g]) /\ StaysHeld(nic'[g], inp'[g], NextLefts(out'))
    BY <2>3 DEF m
  <2> QED BY <2>2, <2>3
<1>5. (\A g \in Hosts : Serving(nic[g]) /\ StaysHeld(nic[g], inp[g], NextLefts(out)))'
  BY <1>4 DEF m
<1> QED BY <1>5 DEF ServiceInv

LEMMA SendDoes ==
  ASSUME ServiceInv, NEW f \in Flows, Send(f)
  PROVE  LET h == Source[f]
         IN  /\ h \in Hosts /\ inp' = inp /\ out' = out /\ wire' = wire
             /\ \A g \in Hosts \ {h} : nic'[g] = nic[g]
             /\ Serving(nic'[h]) /\ nic'[h].state = nic[h].state
             /\ nic[h].sending # None =>
                  nic'[h].sending # None /\ nic'[h].events = nic[h].events
             /\ nic[h].sending = None /\ nic'[h].sending # None =>
                  nic'[h].events = <<HostTime>> /\ nic[h].state = READY
<1> DEFINE h == Source[f]
           p == [flow |-> f, seq |-> sent[f] + 1]
           r == HostReceive(nic[h], p, Prio[f])
<1>1. h \in Hosts /\ Prio[f] \in Priorities
  BY NetAssumption
<1>2. p \in PacketsOf(h)
  BY DEF ServiceInv, IInv, HostInv, SentShape, PacketsOf, AnyPacket
<1>3. Serving(nic[h]) /\ nic[h] \in HostQueues(h)
  BY <1>1, HostShapes DEF ServiceInv
<1>4. nic' = [nic EXCEPT ![h] = r] /\ inp' = inp /\ out' = out /\ wire' = wire
  BY DEF Send
<1> HIDE DEF h, p
<1>5. /\ Serving(r) /\ r.state = nic[h].state
      /\ nic[h].sending # None => r.sending # None /\ r.events = nic[h].events
      /\ nic[h].sending = None /\ r.sending # None => r.events = <<HostTime>> /\ nic[h].state = READY
  BY <1>1, <1>2, <1>3, HostReceiveServes
<1> HIDE DEF r
<1>6. \A g \in Hosts : nic'[g] = IF g = h THEN r ELSE nic[g]
  BY <1>4, UpdatedAt DEF ServiceInv, IInv, HostInv, NicShape
<1>7. nic'[h] = r /\ \A g \in Hosts \ {h} : nic'[g] = nic[g]
  BY <1>1, <1>6
<1>8. /\ Serving(nic'[h]) /\ nic'[h].state = nic[h].state
      /\ nic[h].sending # None => nic'[h].sending # None /\ nic'[h].events = nic[h].events
      /\ nic[h].sending = None /\ nic'[h].sending # None =>
           nic'[h].events = <<HostTime>> /\ nic[h].state = READY
  BY <1>5, <1>7
<1>9. \A g \in Hosts \ {h} : nic'[g] = nic[g]
  BY <1>7
<1> QED BY <1>1, <1>4, <1>8, <1>9 DEF h

LEMMA SlowerAtMost ==
  ASSUME ServiceInv, out' = out
  PROVE  OutTimes' /\ \A o \in Outputs : NextLeft(out'[o]) >= NextLeft(out[o])
<1>1. \A o \in Outputs : NextLeft(out[o]) \in 0 .. OutTime
  BY OutMethodsTimed DEF ServiceInv, OutTimes, IInv, OutShape
<1> QED BY <1>1 DEF ServiceInv, OutTimes

LEMMA SendServed ==
  ASSUME ServiceInv, IInv', NEW f \in Flows, Send(f)
  PROVE  ServiceInv'
<1> DEFINE h == Source[f]
<1>1. /\ h \in Hosts /\ inp' = inp /\ out' = out
      /\ \A g \in Hosts \ {h} : nic'[g] = nic[g]
      /\ Serving(nic'[h]) /\ nic'[h].state = nic[h].state
      /\ nic[h].sending # None => nic'[h].events = nic[h].events
  BY SendDoes
<1> HIDE DEF h
<1>2. Serving(nic[h]) /\ StaysHeld(nic[h], inp[h], NextLefts(out))
  BY <1>1 DEF ServiceInv
<1>3. StaysHeld(nic'[h], inp[h], NextLefts(out))
  <2> SUFFICES ASSUME nic'[h].state = PAUSE_RECEIVED
               PROVE  inp[h].size - Cardinality(Leaves(NextLefts(out), nic'[h].events[1])) >= Low
    BY DEF StaysHeld
  <2>1. nic'[h].events = nic[h].events
    BY <1>1, <1>2, InService
  <2> QED BY <1>1, <1>2, <2>1 DEF StaysHeld
<1>4. \A g \in Hosts :
        \/ nic'[g] = nic[g] /\ inp'[g].size >= inp[g].size
        \/ Serving(nic'[g]) /\ StaysHeld(nic'[g], inp'[g], NextLefts(out'))
  <2> TAKE g \in Hosts
  <2>1. CASE g = h
    BY <1>1, <1>3, <2>1
  <2>2. CASE g # h
    <3>1. inp[g].size \in Int
      BY HostShapes DEF ServiceInv
    <3>2. inp'[g].size >= inp[g].size
      BY <1>1, <3>1
    <3> QED BY <1>1, <2>2, <3>2
  <2> QED BY <2>1, <2>2
<1> QED BY <1>1, <1>4, SlowerAtMost, LinkServed

(* The event of a host queue is the end of the service in progress.        *)
LEMMA EndOfService ==
  ASSUME ServiceInv, NEW h \in Hosts, HostEvent(h)
  PROVE  /\ nic[h].sending \in PacketsOf(h) /\ nic[h].sending # None
         /\ nic[h].events[1] = 0 /\ nic[h].state # PAUSED
         /\ \E r \in HostQueues(h) :
              /\ SizesCount(r) /\ r.queue = nic[h].queue /\ r.sending = nic[h].sending
              /\ r.servicing \in Priorities /\ r.state = nic[h].state /\ r.events = <<>>
              /\ nic' = [nic EXCEPT ![h] = HostComplete(r)]
              /\ wire' = IF HostSends(r)
                         THEN [wire EXCEPT ![h] = Append(@, [pkt |-> r.sending, left |-> WireTime])]
                         ELSE wire
<1> DEFINE q == nic[h]
<1>1. q \in HostQueues(h) /\ Serving(q)
  BY HostShapes DEF ServiceInv
<1>2. PICK i, r :
        /\ i \in DueEvents(h)
        /\ r = [nic[h] EXCEPT !.events =
                  [j \in 1 .. Len(nic[h].events) - 1 |->
                     IF j < i THEN nic[h].events[j] ELSE nic[h].events[j + 1]]]
        /\ nic' = [nic EXCEPT ![h] = HostComplete(r)]
        /\ wire' = IF HostSends(r)
                   THEN [wire EXCEPT ![h] = Append(@, [pkt |-> r.sending, left |-> WireTime])]
                   ELSE wire
  BY DEF HostEvent
<1>3. i \in 1 .. Len(q.events) /\ q.events[i] = 0
  BY <1>2 DEF DueEvents
<1>4. q.events \in Seq(Int)
  BY <1>1 DEF HostQueues
<1>5. q.sending # None /\ Len(q.events) = 1 /\ i = 1 /\ q.servicing \in Priorities
      /\ q.state # PAUSED
  <2>1. CASE q.sending = None
    <3>1. q.events = <<>>
      BY <1>1, <2>1 DEF Serving
    <3> HIDE DEF q
    <3> QED BY <1>3, <3>1
  <2>2. CASE q.sending # None
    <3>1. Len(q.events) = 1 /\ q.servicing \in Priorities /\ q.state # PAUSED
      BY <1>1, <2>2 DEF Serving
    <3> HIDE DEF q
    <3> QED BY <1>3, <2>2, <3>1
  <2> QED BY <2>1, <2>2
<1> DEFINE fs == [j \in 1 .. Len(q.events) - 1 |-> IF j < i THEN q.events[j] ELSE q.events[j + 1]]
<1>6. fs = <<>>
  <2>1. Len(q.events) - 1 = 0
    <3> HIDE DEF q
    <3> QED BY <1>5
  <2>2. fs \in [1 .. 0 -> Int]
    <3> DEFINE n == Len(q.events) - 1
    <3>1. fs = [j \in 1 .. n |-> IF j < i THEN q.events[j] ELSE q.events[j + 1]]
      OBVIOUS
    <3> HIDE DEF n, fs, q
    <3>2. n = 0 /\ \A j \in 1 .. 0 : FALSE
      BY <2>1 DEF n
    <3> QED BY <3>1, <3>2
  <2> HIDE DEF fs
  <2>3. \A n \in Nat : \A t \in [1 .. n -> Int] : t \in Seq(Int) /\ Len(t) = n
    OBVIOUS
  <2>4. fs \in Seq(Int) /\ Len(fs) = 0
    BY <2>2, <2>3
  <2> QED BY <2>4, EmptySeq
<1>7. r \in HostQueues(h) /\ r.state = q.state
  <2>1. r = [q EXCEPT !.events = fs]
    BY <1>2
  <2> HIDE DEF q
  <2> QED BY <1>1, <1>3, <2>1, EventRunShape
<1>8. r = [q EXCEPT !.events = fs]
  BY <1>2
<1> HIDE DEF fs, q
<1>9. /\ r.queue = q.queue /\ r.size = q.size /\ r.sending = q.sending
      /\ r.servicing = q.servicing /\ r.events = <<>>
  BY <1>1, <1>6, <1>8 DEF HostQueues
<1>10. SizesCount(r)
  BY <1>1, <1>9, SameSizes DEF Serving
<1>11. q.sending \in PacketsOf(h)
  BY <1>1, <1>5 DEF HostQueues
<1>12. q.events[1] = 0
  BY <1>3, <1>5
<1> QED BY <1>2, <1>5, <1>7, <1>9, <1>10, <1>11, <1>12 DEF q

LEMMA ServiceEnds ==
  ASSUME ServiceInv, NEW h \in Hosts, HostEvent(h)
  PROVE  /\ nic[h].sending \in PacketsOf(h) /\ nic[h].sending # None
         /\ nic[h].events[1] = 0
         /\ \A g \in Hosts \ {h} : nic'[g] = nic[g]
         /\ Serving(nic'[h]) /\ nic[h].state # PAUSED
         /\ nic[h].state = READY => nic'[h].state = READY
         /\ nic[h].state = PAUSE_RECEIVED => nic'[h].state = PAUSED /\ nic'[h].sending = None
         /\ nic'[h].sending # None => nic'[h].events = <<HostTime>> /\ nic'[h].state = READY
         /\ wire' = [wire EXCEPT ![h] =
                       Append(wire[h], [pkt |-> nic[h].sending, left |-> WireTime])]
<1> DEFINE q == nic[h]
<1>1. q.sending \in PacketsOf(h) /\ q.sending # None /\ q.events[1] = 0 /\ q.state # PAUSED
  BY EndOfService
<1>2. PICK r \in HostQueues(h) :
        /\ SizesCount(r) /\ r.sending = q.sending
        /\ r.servicing \in Priorities /\ r.state = q.state /\ r.events = <<>>
        /\ nic' = [nic EXCEPT ![h] = HostComplete(r)]
        /\ wire' = IF HostSends(r)
                   THEN [wire EXCEPT ![h] = Append(@, [pkt |-> r.sending, left |-> WireTime])]
                   ELSE wire
  BY EndOfService
<1> HIDE DEF q
<1> DEFINE s == HostComplete(r)
<1>3. /\ HostSends(r) /\ Serving(s)
      /\ r.state = READY => s.state = READY
      /\ r.state = PAUSE_RECEIVED => s.state = PAUSED /\ s.sending = None
      /\ s.sending # None => s.events = <<HostTime>> /\ s.state = READY
  BY <1>1, <1>2, HostCompleteServes
<1> HIDE DEF s
<1>4. nic'[h] = s /\ \A g \in Hosts \ {h} : nic'[g] = nic[g]
  <2>1. nic' = [nic EXCEPT ![h] = s]
    BY <1>2 DEF s
  <2>2. \A g \in Hosts : nic'[g] = IF g = h THEN s ELSE nic[g]
    BY <2>1, UpdatedAt DEF ServiceInv, IInv, HostInv, NicShape
  <2> QED BY <2>2
<1>5. wire' = [wire EXCEPT ![h] = Append(wire[h], [pkt |-> q.sending, left |-> WireTime])]
  BY <1>2, <1>3
<1>6. /\ Serving(nic'[h])
      /\ q.state = READY => nic'[h].state = READY
      /\ q.state = PAUSE_RECEIVED => nic'[h].state = PAUSED /\ nic'[h].sending = None
      /\ nic'[h].sending # None => nic'[h].events = <<HostTime>> /\ nic'[h].state = READY
  BY <1>2, <1>3, <1>4
<1>7. \A g \in Hosts \ {h} : nic'[g] = nic[g]
  BY <1>4
<1> QED BY <1>1, <1>5, <1>6, <1>7 DEF q

LEMMA HostEventServed ==
  ASSUME ServiceInv, IInv', NEW h \in Hosts, HostEvent(h)
  PROVE  ServiceInv'
<1>1. inp' = inp /\ out' = out
  BY DEF HostEvent
<1>2. /\ Serving(nic'[h]) /\ nic[h].state # PAUSED
      /\ nic[h].state = READY => nic'[h].state = READY
      /\ nic[h].state = PAUSE_RECEIVED => nic'[h].state = PAUSED
      /\ \A g \in Hosts \ {h} : nic'[g] = nic[g]
  BY ServiceEnds
<1>3. nic[h].state \in States
  BY HostShapes DEF ServiceInv, HostQueues
<1>4. nic'[h].state # PAUSE_RECEIVED
  BY <1>2, <1>3 DEF States, READY, PAUSED, PAUSE_RECEIVED
<1>5. StaysHeld(nic'[h], inp'[h], NextLefts(out'))
  BY <1>4 DEF StaysHeld
<1>6. \A g \in Hosts :
        \/ nic'[g] = nic[g] /\ inp'[g].size >= inp[g].size
        \/ Serving(nic'[g]) /\ StaysHeld(nic'[g], inp'[g], NextLefts(out'))
  <2> TAKE g \in Hosts
  <2>1. CASE g = h
    BY <1>2, <1>5, <2>1
  <2>2. CASE g # h
    <3>1. inp[g].size \in Int
      BY HostShapes DEF ServiceInv
    <3>2. inp'[g].size >= inp[g].size
      BY <1>1, <3>1
    <3> QED BY <1>2, <2>2, <3>2
  <2> QED BY <2>1, <2>2
<1> QED BY <1>1, <1>6, SlowerAtMost, LinkServed

(* A PAUSE comes above the high threshold ...                              *)
LEMMA WireEventServed ==
  ASSUME SlowOutputs, ServiceInv, IInv', NEW h \in Hosts, WireEvent(h)
  PROVE  ServiceInv'
<1> DEFINE n == NextLefts(out)
           q == nic[h]
           i == inp[h]
           r == HostPause(q)
           j == InputReceive(i)
<1>1. /\ q \in HostQueues(h) /\ i \in Inputs /\ i.size \in Int /\ Serving(q)
      /\ q.state # READY <=> i.state = PAUSED
      /\ i.state = PAUSED => i.size >= Low
      /\ i.state = READY => i.size <= High
  BY HostShapes DEF ServiceInv
<1>2. j.size = i.size + 1
  BY <1>1 DEF InputReceive
<1>3. out' = out
  BY DEF WireEvent
<1>4. \A g \in Hosts : inp'[g] = IF g = h THEN j ELSE inp[g]
  <2>1. inp' = [inp EXCEPT ![h] = j]
    BY DEF WireEvent
  <2> HIDE DEF j
  <2> QED BY <2>1, UpdatedAt DEF ServiceInv, IInv, HostInv, InpShape
<1>5. \A g \in Hosts : nic'[g] = IF g = h /\ SendsPause(i) THEN r ELSE nic[g]
  <2>1. CASE SendsPause(i)
    <3>1. nic' = [nic EXCEPT ![h] = r]
      BY <2>1 DEF WireEvent
    <3> HIDE DEF r
    <3> QED BY <2>1, <3>1, UpdatedAt DEF ServiceInv, IInv, HostInv, NicShape
  <2>2. CASE ~SendsPause(i)
    BY <2>2 DEF WireEvent
  <2> QED BY <2>1, <2>2
<1>6. CASE SendsPause(i)
  <2>1. i.size + 1 >= High + 1 /\ q.state = READY
    BY <1>1, <1>6, LosslessAssumption DEF SendsPause
  <2>2. /\ Serving(r) /\ r.sending = q.sending /\ r.events = q.events
    BY <1>1, <2>1, HostPauseServes
  <2>3. StaysHeld(r, j, n)
    <3> SUFFICES ASSUME r.state = PAUSE_RECEIVED
                 PROVE  j.size - Cardinality(Leaves(n, r.events[1])) >= Low
      BY DEF StaysHeld
    <3> DEFINE e == r.events[1]
    <3>1. e \in 0 .. HostTime
      BY <2>2, InService
    <3>2. n \in [Outputs -> Nat]
      BY NextLeftsAre DEF ServiceInv
    <3> HIDE DEF e, n, j, r
    <3> DEFINE a == Cardinality(Outputs) * (1 + HostTime \div OutTime)
    <3>3. Cardinality(Leaves(n, e)) \in Nat /\ Cardinality(Leaves(n, e)) <= a
      BY <3>1, <3>2, LeavesBounded
    <3>4. a <= High + 1 - Low
      BY DEF SlowOutputs
    <3>5. a \in Int
      <4>1. Cardinality(Outputs) \in Nat
        BY NetAssumption, FS_CardinalityType
      <4>2. HostTime \div OutTime \in Int
        BY HostQueueAssumption, LosslessAssumption
      <4> QED BY <4>1, <4>2
    <3> HIDE DEF a
    <3>6. j.size - Cardinality(Leaves(n, e)) >= Low
      BY <1>1, <1>2, <2>1, <3>3, <3>4, <3>5, LosslessAssumption
    <3> QED BY <3>6 DEF e
  <2> HIDE DEF r, j, n
  <2>4. Serving(nic'[h]) /\ StaysHeld(nic'[h], inp'[h], NextLefts(out'))
    BY <1>3, <1>4, <1>5, <1>6, <2>2, <2>3 DEF n
  <2>5. \A g \in Hosts :
          \/ nic'[g] = nic[g] /\ inp'[g].size >= inp[g].size
          \/ Serving(nic'[g]) /\ StaysHeld(nic'[g], inp'[g], NextLefts(out'))
    <3> TAKE g \in Hosts
    <3>1. inp[g].size \in Int
      BY HostShapes DEF ServiceInv
    <3>2. g # h => nic'[g] = nic[g] /\ inp'[g].size >= inp[g].size
      BY <1>4, <1>5, <3>1
    <3> QED BY <2>4, <3>2
  <2> QED BY <1>3, <2>5, SlowerAtMost, LinkServed
<1>7. CASE ~SendsPause(i)
  <2> HIDE DEF r, j
  <2>1. \A g \in Hosts : nic'[g] = nic[g] /\ inp'[g].size >= inp[g].size
    <3> TAKE g \in Hosts
    <3>1. inp[g].size \in Int
      BY HostShapes DEF ServiceInv
    <3> QED BY <1>2, <1>4, <1>5, <1>7, <3>1
  <2> QED BY <1>3, <2>1, SlowerAtMost, LinkServed
<1> QED BY <1>6, <1>7

(* ... and its end when the outputs have handed on enough since.           *)
Credited(h) ==
  \/ nic'[h] = nic[h] /\ inp'[h].state = inp[h].state /\ inp'[h].size <= inp[h].size
  \/ /\ inp'[h].state = READY /\ nic[h].state = PAUSED
     /\ nic'[h].sending # None => nic'[h].events = <<HostTime>>

LEMMA OutEventServed ==
  ASSUME ServiceInv, IInv', NEW o \in Outputs, OutEvent(o)
  PROVE  ServiceInv' /\ \A h \in Hosts : Credited(h)
<1> DEFINE k == Filtered(out[o], transport.exempt)
           s == k.enqueued
           r == OutComplete(k)
           n == NextLefts(out)
           m == NextLefts(out')
<1>1. out[o] \in OutQueues /\ out[o].sending /\ out[o].left = 0
  BY DEF ServiceInv, IInv, OutShape, OutEvent
<1>kept. k \in OutQueues
  BY <1>1, FilteredShape
<1>3. out' = [out EXCEPT ![o] = r]
  BY DEF OutEvent
<1>none. s = <<>> => UNCHANGED <<nic, inp>>
  BY DEF OutEvent
<1>some. s # <<>> =>
        LET h == Head(k.vq)
        IN  /\ inp' = [inp EXCEPT ![h] = InputCompleted(inp[h])]
            /\ nic' = IF SendsResume(inp[h]) THEN [nic EXCEPT ![h] = HostResume(nic[h])] ELSE nic
  BY DEF OutEvent
<1> HIDE DEF k
<1>2. Timed(r) /\ NextLeft(r) = OutTime
  BY <1>kept, OutCompleteTimed
<1> HIDE DEF r
<1>4. \A a \in Outputs : out'[a] = IF a = o THEN r ELSE out[a]
  BY <1>3, UpdatedAt DEF ServiceInv, IInv, OutShape
<1>5. OutTimes'
  BY <1>2, <1>4 DEF ServiceInv, OutTimes
<1>6. n \in [Outputs -> Nat] /\ \A a \in Outputs : n[a] = NextLeft(out[a])
  BY NextLeftsAre DEF ServiceInv
<1>7. m = [a \in Outputs |-> IF a = o THEN OutTime ELSE n[a]]
  BY <1>2, <1>4, <1>6 DEF NextLefts
<1>8. n[o] = 0 /\ OutTime \in Nat
  BY <1>1, <1>6, LosslessAssumption DEF NextLeft
<1> HIDE DEF n, m
<1>9. m \in [Outputs -> Nat] /\ m[o] = OutTime /\ \A a \in Outputs : a # o => m[a] = n[a]
  BY <1>6, <1>7, <1>8
<1>10. \A a \in Outputs : NextLeft(out'[a]) >= NextLeft(out[a])
  <2> TAKE a \in Outputs
  <2>1. NextLeft(out[a]) \in Nat
    BY <1>6
  <2>2. CASE a = o
    BY <1>2, <1>4, <1>6, <1>8, <2>2
  <2>3. CASE a # o
    BY <1>4, <2>1, <2>3
  <2> QED BY <2>2, <2>3
<1>11. CASE s = <<>>
  <2>1. UNCHANGED <<nic, inp>>
    BY <1>11, <1>none
  <2>2. \A g \in Hosts : inp[g].size \in Int
    BY HostShapes DEF ServiceInv
  <2>3. \A g \in Hosts : nic'[g] = nic[g] /\ inp'[g].size >= inp[g].size
    BY <2>1, <2>2
  <2>4. \A g \in Hosts : Credited(g)
    BY <2>1, <2>2 DEF Credited
  <2>5. ServiceInv'
    BY <1>5, <1>10, <2>3, LinkServed
  <2> QED BY <2>4, <2>5
<1>12. CASE s # <<>>
  <2> DEFINE h == Head(k.vq)
             i == inp[h]
             j == InputCompleted(i)
             q == nic[h]
             t == HostResume(q)
  <2>1. /\ inp' = [inp EXCEPT ![h] = j]
        /\ nic' = IF SendsResume(i) THEN [nic EXCEPT ![h] = t] ELSE nic
    BY <1>12, <1>some
  <2>2. h \in Hosts
    BY <1>kept, <1>12, OutCompleteShape
  <2> HIDE DEF h, s
  <2>3. /\ q \in HostQueues(h) /\ i \in Inputs /\ i.size \in Int /\ Serving(q)
        /\ q.state # READY <=> i.state = PAUSED
        /\ i.state = PAUSED => i.size >= Low
        /\ StaysHeld(q, i, n)
    BY <2>2, HostShapes DEF ServiceInv, n
  <2>4. j.size = i.size - 1 /\ j.state = IF SendsResume(i) THEN READY ELSE i.state
    BY <2>3 DEF InputCompleted
  <2>5. \A g \in Hosts : inp'[g] = IF g = h THEN j ELSE inp[g]
    <3> HIDE DEF j
    <3> QED BY <2>1, UpdatedAt DEF ServiceInv, IInv, HostInv, InpShape
  <2>6. \A g \in Hosts : nic'[g] = IF g = h /\ SendsResume(i) THEN t ELSE nic[g]
    <3>1. CASE SendsResume(i)
      <4> HIDE DEF t
      <4> QED BY <2>1, <3>1, UpdatedAt DEF ServiceInv, IInv, HostInv, NicShape
    <3>2. CASE ~SendsResume(i)
      BY <2>1, <3>2
    <3> QED BY <3>1, <3>2
  <2>7. q.state = PAUSE_RECEIVED => i.size - 1 - Cardinality(Leaves(m, q.events[1])) >= Low
                                    /\ Cardinality(Leaves(m, q.events[1])) \in Nat
    <3> SUFFICES ASSUME q.state = PAUSE_RECEIVED
                 PROVE  i.size - 1 - Cardinality(Leaves(m, q.events[1])) >= Low
                        /\ Cardinality(Leaves(m, q.events[1])) \in Nat
      OBVIOUS
    <3> DEFINE e == q.events[1]
    <3>1. e \in 0 .. HostTime
      BY <2>3, InService
    <3>2. i.size - Cardinality(Leaves(n, e)) >= Low
      BY <2>3 DEF StaysHeld
    <3> HIDE DEF e, i
    <3>3. Cardinality(Leaves(n, e)) = Cardinality(Leaves(m, e)) + 1
      BY <1>6, <1>8, <1>9, <3>1, LeavesOne
    <3>4. Cardinality(Leaves(m, e)) \in Nat
      BY <1>9, <3>1, LeavesBounded
    <3>5. i.size - 1 - Cardinality(Leaves(m, e)) >= Low
      BY <2>3, <3>2, <3>3, <3>4
    <3> QED BY <3>4, <3>5 DEF e
  <2>8. Serving(nic'[h]) /\ StaysHeld(nic'[h], inp'[h], m) /\ Credited(h)
    <3>1. CASE SendsResume(i)
      <4>1. i.state = PAUSED /\ i.size - 1 < Low
        BY <3>1 DEF SendsResume
      <4>2. q.state \in States
        BY <2>3 DEF HostQueues
      <4>3. q.state # PAUSE_RECEIVED
        <5> HIDE DEF q, i
        <5> QED BY <2>3, <2>7, <4>1, LosslessAssumption
      <4>4. q.state = PAUSED
        BY <2>3, <4>1, <4>2, <4>3 DEF States
      <4>5. Serving(t) /\ t.state = READY /\ (t.sending # None => t.events = <<HostTime>>)
        BY <2>3, <4>4, HostResumeServes
      <4>6. nic'[h] = t /\ inp'[h] = j
        BY <2>2, <2>5, <2>6, <3>1
      <4> HIDE DEF t, j
      <4>7. Credited(h)
        BY <2>4, <3>1, <4>4, <4>5, <4>6 DEF Credited
      <4>8. Serving(nic'[h]) /\ StaysHeld(nic'[h], inp'[h], m)
        BY <4>5, <4>6 DEF StaysHeld, READY, PAUSE_RECEIVED
      <4> QED BY <4>7, <4>8
    <3>2. CASE ~SendsResume(i)
      <4>1. nic'[h] = q /\ inp'[h] = j
        BY <2>2, <2>5, <2>6, <3>2
      <4>2. StaysHeld(q, j, m)
        <5> HIDE DEF q, j
        <5> QED BY <2>4, <2>7 DEF StaysHeld
      <4>3. Credited(h)
        <5> HIDE DEF q, j, i
        <5>1. j.size <= i.size /\ j.state = i.state
          BY <2>3, <2>4, <3>2
        <5> QED BY <4>1, <5>1 DEF Credited, q, i
      <4> QED BY <2>3, <4>1, <4>2, <4>3
    <3> QED BY <3>1, <3>2
  <2> HIDE DEF j, t
  <2>9. \A g \in Hosts :
          \/ nic'[g] = nic[g] /\ inp'[g].size >= inp[g].size
          \/ Serving(nic'[g]) /\ StaysHeld(nic'[g], inp'[g], NextLefts(out'))
    <3> TAKE g \in Hosts
    <3>1. inp[g].size \in Int
      BY HostShapes DEF ServiceInv
    <3>2. g # h => nic'[g] = nic[g] /\ inp'[g].size >= inp[g].size
      BY <2>5, <2>6, <3>1
    <3> QED BY <2>8, <3>2 DEF m
  <2>10. \A g \in Hosts : Credited(g)
    <3> TAKE g \in Hosts
    <3>1. inp[g].size \in Int
      BY HostShapes DEF ServiceInv
    <3>2. g # h => nic'[g] = nic[g] /\ inp'[g] = inp[g] /\ inp[g].size <= inp[g].size
      BY <2>5, <2>6, <3>1
    <3> QED BY <2>8, <3>2 DEF Credited
  <2>11. ServiceInv'
    BY <1>5, <1>10, <2>9, LinkServed
  <2> QED BY <2>10, <2>11
<1> QED BY <1>11, <1>12

(* The other steps of the outputs.                                         *)
LEMMA OutputServed ==
  ASSUME ServiceInv, IInv', NEW o \in Outputs, NEW r,
         out' = [out EXCEPT ![o] = r], UNCHANGED <<nic, inp>>,
         Timed(r), NextLeft(r) >= NextLeft(out[o])
  PROVE  ServiceInv'
<1>1. \A a \in Outputs : out'[a] = IF a = o THEN r ELSE out[a]
  BY UpdatedAt DEF ServiceInv, IInv, OutShape
<1>2. \A a \in Outputs : NextLeft(out[a]) \in Nat
  <2>1. NextLefts(out) \in [Outputs -> Nat] /\ \A a \in Outputs : NextLefts(out)[a] = NextLeft(out[a])
    BY NextLeftsAre DEF ServiceInv
  <2> QED BY <2>1
<1>3. OutTimes' /\ \A a \in Outputs : NextLeft(out'[a]) >= NextLeft(out[a])
  <2>1. OutTimes'
    BY <1>1 DEF ServiceInv, OutTimes
  <2>2. \A a \in Outputs : NextLeft(out'[a]) >= NextLeft(out[a])
    BY <1>1, <1>2
  <2> QED BY <2>1, <2>2
<1>4. \A g \in Hosts : inp[g].size \in Int
  BY HostShapes DEF ServiceInv
<1>5. \A g \in Hosts : nic'[g] = nic[g] /\ inp'[g].size >= inp[g].size
  BY <1>4
<1> QED BY <1>3, <1>5, LinkServed

LEMMA FabricEventServed ==
  ASSUME ServiceInv, IInv', FabricEvent
  PROVE  ServiceInv'
<1> DEFINE x == Head(fabric)
           o == Dest[x.pkt.flow]
           b == transport.budget[x.pkt.flow]
           r == OutReceive(out[o], x.pkt, x.input, b)
<1>1. fabric \in Seq(InPipe) /\ fabric # <<>>
  BY DEF ServiceInv, IInv, FabricShape, FabricEvent
<1>2. x \in InPipe
  BY <1>1, HeadTailProperties
<1>3. o \in Outputs /\ x.pkt \in AnyPacket /\ x.input \in Hosts /\ b \in Nat
  BY <1>2, NetAssumption DEF InPipe, AnyPacket, ServiceInv, IInv, TransportShape
<1>4. out' = [out EXCEPT ![o] = r] /\ UNCHANGED <<nic, inp>>
  BY DEF FabricEvent
<1>5. out[o] \in OutQueues /\ Timed(out[o])
  BY <1>3 DEF ServiceInv, IInv, OutShape, OutTimes
<1> HIDE DEF x, o, b
<1>6. Timed(r) /\ NextLeft(r) >= NextLeft(out[o])
  BY <1>3, <1>5, OutReceiveTimed
<1> HIDE DEF r
<1> QED BY <1>3, <1>4, <1>6, OutputServed

LEMMA BehindServed ==
  ASSUME ServiceInv, IInv', NEW o \in Outputs, PausedFromBehind(o) \/ ResumedFromBehind(o)
  PROVE  ServiceInv'
<1>1. out[o] \in OutQueues /\ Timed(out[o])
  BY DEF ServiceInv, IInv, OutShape, OutTimes
<1>2. PICK r : /\ out' = [out EXCEPT ![o] = r] /\ r \in {OutPause(out[o]), OutResume(out[o])}
               /\ UNCHANGED <<nic, inp>>
  BY DEF PausedFromBehind, ResumedFromBehind
<1>3. Timed(r) /\ NextLeft(r) >= NextLeft(out[o])
  BY <1>1, <1>2, OutMethodsTimed
<1> QED BY <1>2, <1>3, OutputServed

LEMMA TickServed ==
  ASSUME ServiceInv, IInv', Tick
  PROVE  ServiceInv'
<1> DEFINE n == NextLefts(out)
           m == NextLefts(out')
<1>1. /\ ~EventDue /\ inp' = inp
      /\ nic' = [h \in Hosts |-> [nic[h] EXCEPT !.events = [i \in DOMAIN @ |-> @[i] - 1]]]
      /\ out' = [o \in Outputs |-> Stayed(out[o])]
  BY DEF Tick
<1>2. \A o \in Outputs : Timed(out'[o]) /\ NextLeft(out'[o]) >= NextLeft(out[o]) - 1
  <2> TAKE o \in Outputs
  <2> DEFINE q == out[o]
             r == Stayed(q)
  <2>1. q \in OutQueues /\ Timed(q) /\ OutTime \in Nat
    BY LosslessAssumption DEF ServiceInv, OutTimes, IInv, OutShape
  <2>2. out'[o] = r
    BY <1>1
  <2>3. q.sending => q.left # 0
    BY <1>1 DEF EventDue
  <2>4. /\ r.sending = q.sending /\ q.left \in Int
        /\ r.left = IF q.sending THEN q.left - 1 ELSE q.left
    BY <2>1, StayedShape DEF OutQueues, OutRecords
  <2> HIDE DEF q, r
  <2>5. CASE q.sending
    <3>1. q.left \in 0 .. OutTime /\ q.left # 0
      BY <2>1, <2>3, <2>5 DEF Timed
    <3>2. r.left \in 0 .. OutTime /\ r.left >= q.left - 1
      BY <2>1, <2>4, <2>5, <3>1
    <3> QED BY <2>2, <2>4, <2>5, <3>2 DEF Timed, NextLeft, q
  <2>6. CASE ~q.sending
    <3>1. NextLeft(q) = OutTime /\ NextLeft(r) = OutTime /\ Timed(r)
      BY <2>4, <2>6 DEF NextLeft, Timed
    <3>2. OutTime >= OutTime - 1
      BY <2>1
    <3> QED BY <2>2, <3>1, <3>2 DEF q
  <2> QED BY <2>5, <2>6
<1>3. OutTimes'
  BY <1>2 DEF OutTimes
<1>4. n \in [Outputs -> Nat] /\ \A o \in Outputs : n[o] = NextLeft(out[o])
  BY NextLeftsAre DEF ServiceInv
<1>5. m \in [Outputs -> Nat] /\ \A o \in Outputs : m[o] = NextLeft(out'[o])
  <2>1. \A o \in Outputs : NextLeft(out'[o]) \in 0 .. OutTime
    BY <1>2, OutMethodsTimed DEF IInv, OutShape
  <2>2. OutTime \in Nat
    BY LosslessAssumption
  <2> QED BY <2>1, <2>2 DEF NextLefts
<1>6. \A o \in Outputs : m[o] >= n[o] - 1
  BY <1>2, <1>4, <1>5
<1> HIDE DEF n, m
<1>7. ASSUME NEW h \in Hosts  PROVE Serving(nic'[h]) /\ StaysHeld(nic'[h], inp'[h], m)
  <2> DEFINE q == nic[h]
             es == [i \in DOMAIN q.events |-> q.events[i] - 1]
             r == nic'[h]
  <2>1. q \in HostQueues(h) /\ Serving(q) /\ StaysHeld(q, inp[h], n) /\ inp[h].size \in Int
    BY HostShapes DEF ServiceInv, n
  <2>2. r = [q EXCEPT !.events = es]
    BY <1>1
  <2>3. q.events \in Seq(Int) /\ DueEvents(h) = {}
    BY <1>1, <2>1 DEF HostQueues, EventDue
  <2>4. \A i \in 1 .. Len(q.events) : q.events[i] # 0
    BY <2>3 DEF DueEvents
  <2> HIDE DEF r, es, q
  <2>5. /\ r.queue = q.queue /\ r.size = q.size /\ r.sending = q.sending
        /\ r.servicing = q.servicing /\ r.state = q.state /\ r.events = es
    BY <2>1, <2>2 DEF HostQueues
  <2>6. SizesCount(r) /\ QueueSize(r) = QueueSize(q)
    BY <2>1, <2>5, SameSizes DEF Serving
  <2>7. CASE q.sending = None
    <3>1. q.events = <<>>
      BY <2>1, <2>7 DEF Serving
    <3>2. es = <<>>
      BY <3>1 DEF es
    <3>3. Serving(r)
      BY <2>1, <2>5, <2>6, <2>7, <3>2 DEF Serving
    <3>4. r.state # PAUSE_RECEIVED
      BY <2>1, <2>5, <2>7 DEF Serving
    <3> QED BY <3>3, <3>4 DEF StaysHeld, r
  <2>8. CASE q.sending # None
    <3>1. Len(q.events) = 1 /\ q.events[1] \in 0 .. HostTime
          /\ q.servicing \in Priorities /\ q.state # PAUSED
      BY <2>1, <2>8 DEF Serving
    <3> DEFINE e == q.events[1]
    <3>2. e \in 1 .. HostTime
      BY <2>4, <3>1
    <3>3. es \in Seq(Int) /\ Len(es) = 1 /\ es[1] = e - 1
      <4>1. DOMAIN q.events = 1 .. 1
        BY <2>3, <3>1
      <4>2. es \in [1 .. 1 -> Int] /\ es[1] = q.events[1] - 1
        BY <2>3, <4>1 DEF es
      <4>3. ASSUME NEW t \in [1 .. 1 -> Int]  PROVE t \in Seq(Int) /\ Len(t) = 1
        <5>1. 1 \in Nat
          OBVIOUS
        <5>2. \A k \in Nat : t \in [1 .. k -> Int] => t \in Seq(Int) /\ Len(t) = k
          OBVIOUS
        <5> QED BY <5>1, <5>2
      <4> QED BY <4>2, <4>3
    <3> HIDE DEF e
    <3>4. es[1] \in 0 .. HostTime
      BY <3>2, <3>3, HostQueueAssumption
    <3>5. Serving(r)
      BY <2>5, <2>6, <2>8, <3>1, <3>3, <3>4 DEF Serving
    <3>6. StaysHeld(r, inp[h], m)
      <4> SUFFICES ASSUME q.state = PAUSE_RECEIVED
                   PROVE  inp[h].size - Cardinality(Leaves(m, e - 1)) >= Low
        BY <2>5, <3>3 DEF StaysHeld
      <4>1. inp[h].size - Cardinality(Leaves(n, e)) >= Low
        BY <2>1 DEF StaysHeld, e
      <4>2. e \in 0 .. HostTime /\ 1 \in 0 .. e /\ e - 1 \in 0 .. HostTime
        BY <3>2, HostQueueAssumption
      <4>3. Cardinality(Leaves(m, e - 1)) <= Cardinality(Leaves(n, e))
        BY <1>4, <1>5, <1>6, <4>2, LeavesPass
      <4>4. Cardinality(Leaves(m, e - 1)) \in Nat /\ Cardinality(Leaves(n, e)) \in Nat
        BY <1>4, <1>5, <4>2, LeavesBounded
      <4> DEFINE x == Cardinality(Leaves(m, e - 1))
                 y == Cardinality(Leaves(n, e))
      <4> HIDE DEF x, y
      <4>5. x <= y /\ x \in Nat /\ y \in Nat /\ inp[h].size - y >= Low
        BY <4>1, <4>3, <4>4 DEF x, y
      <4>6. inp[h].size - x >= Low
        BY <2>1, <4>5, LosslessAssumption
      <4> QED BY <4>6 DEF x
    <3> QED BY <1>1, <3>5, <3>6 DEF r
  <2> QED BY <2>7, <2>8
<1>8. (\A h \in Hosts : Serving(nic[h]) /\ StaysHeld(nic[h], inp[h], NextLefts(out)))'
  BY <1>7 DEF m
<1> QED BY <1>3, <1>8 DEF ServiceInv

LEMMA ServiceInvNext ==
  ASSUME SlowOutputs
  PROVE  ServiceInv /\ [Next]_vars => ServiceInv'
<1> SUFFICES ASSUME ServiceInv, [Next]_vars  PROVE ServiceInv'
  OBVIOUS
<1>0. IInv'
  BY IInvNext DEF ServiceInv
<1>1. ASSUME NEW f \in Flows, Send(f)  PROVE ServiceInv'
  BY <1>0, <1>1, SendServed
<1>2. ASSUME NEW h \in Hosts, HostEvent(h)  PROVE ServiceInv'
  BY <1>0, <1>2, HostEventServed
<1>3. ASSUME NEW h \in Hosts, WireEvent(h)  PROVE ServiceInv'
  BY <1>0, <1>3, WireEventServed
<1>4. CASE FabricEvent
  BY <1>0, <1>4, FabricEventServed
<1>5. ASSUME NEW o \in Outputs, OutEvent(o)  PROVE ServiceInv'
  BY <1>0, <1>5, OutEventServed
<1>6. ASSUME NEW o \in Outputs, PausedFromBehind(o) \/ ResumedFromBehind(o)  PROVE ServiceInv'
  BY <1>0, <1>6, BehindServed
<1>7. CASE Tick
  BY <1>0, <1>7, TickServed
<1>8. CASE UNCHANGED vars
  BY <1>0, <1>8 DEF vars, ServiceInv, OutTimes
<1> QED BY <1>1, <1>2, <1>3, <1>4, <1>5, <1>6, <1>7, <1>8 DEF Next, RunEvents

THEOREM ServiceInvariant ==
  ASSUME SlowOutputs
  PROVE  Spec => []ServiceInv
<1>1. Init => ServiceInv
  BY ServiceInvInit
<1>2. ServiceInv /\ [Next]_vars => ServiceInv'
  BY ServiceInvNext
<1> QED BY <1>1, <1>2, PTL DEF Spec

(* A host queue serves one packet at a time (queue.cpp 545): a PAUSE and   *)
(* its end do not come within one service, so no service is begun inside   *)
(* another one, and the sizes of the classes are those of what they hold.  *)
THEOREM OneServiceAlways ==
  ASSUME SlowOutputs
  PROVE  Spec => []OneServiceAtATime
<1>1. ServiceInv => OneServiceAtATime
  <2> SUFFICES ASSUME ServiceInv, NEW h \in Hosts
               PROVE  /\ \A c \in Priorities :
                           nic[h].size[c]
                             = Cardinality(Held(nic[h], c))
                               + (IF nic[h].sending # None /\ nic[h].servicing = c THEN 1 ELSE 0)
                      /\ Len(nic[h].events) = IF nic[h].sending = None THEN 0 ELSE 1
    BY DEF OneServiceAtATime
  <2>1. nic[h] \in HostQueues(h) /\ Serving(nic[h])
    BY HostShapes DEF ServiceInv
  <2>2. \A c \in Priorities : Held(nic[h], c) = HeldIn(nic[h].queue[c])
    BY <2>1, HeldIsHeldIn
  <2>3. Len(nic[h].events) = IF nic[h].sending = None THEN 0 ELSE 1
    BY <2>1, Len(<<>>) = 0 DEF Serving
  <2> QED BY <2>1, <2>2, <2>3 DEF Serving, SizesCount
<1> QED BY <1>1, ServiceInvariant, PTL

(* The assertion of FairPriorityQueue::beginService: a packet was there.   *)
THEOREM BeginFindsPacketAlways ==
  ASSUME SlowOutputs
  PROVE  Spec => []BeginFindsPacket
<1>1. ServiceInv => BeginFindsPacket
  BY DEF ServiceInv, Serving, BeginFindsPacket
<1> QED BY <1>1, ServiceInvariant, PTL

-----------------------------------------------------------------------------
(* Headroom.                                                               *)

\* The packets of a host are a service apart on its link.
Spaced(s) ==
  /\ \A i \in 1 .. Len(s) : s[i].left \in 0 .. WireTime
  /\ \A i \in 1 .. Len(s) : \A j \in i .. Len(s) : s[j].left >= s[i].left + (j - i) * HostTime

\* The one in service was begun when the last one had gone, or later.
BehindLast(q, s) ==
  q.sending # None /\ s # <<>> => s[Len(s)].left + HostTime - q.events[1] <= WireTime

\* An input queue that holds a host has room for what is on the link and in
\* service.
Room(q, s, i) ==
  i.state = PAUSED =>
    i.size + Len(s) + (IF q.sending = None THEN 0 ELSE 1) <= High + (WireTime \div HostTime) + 2

HeadroomInv ==
  /\ ServiceInv
  /\ \A h \in Hosts :
       Spaced(wire[h]) /\ BehindLast(nic[h], wire[h]) /\ Room(nic[h], wire[h], inp[h])

LEMMA Wires ==
  ASSUME HeadroomInv, NEW h \in Hosts
  PROVE  /\ wire[h] \in Seq(OnWire(h)) /\ inp[h].size \in Int /\ Serving(nic[h])
         /\ Spaced(wire[h]) /\ BehindLast(nic[h], wire[h]) /\ Room(nic[h], wire[h], inp[h])
BY HostShapes DEF HeadroomInv, ServiceInv, IInv, WireShape

(* A packet goes on the link at the end of its service.                    *)
LEMMA SpacedAppend ==
  ASSUME NEW S, NEW s \in Seq(S), NEW x \in S, x.left = WireTime, Spaced(s),
         s # <<>> => s[Len(s)].left + HostTime <= WireTime
  PROVE  Spaced(Append(s, x))
<1> DEFINE t == Append(s, x)
           n == Len(s)
<1>1. /\ Len(t) = n + 1 /\ n \in Nat /\ t[n + 1] = x /\ \A i \in 1 .. n : t[i] = s[i]
      /\ s # <<>> <=> n # 0
  BY AppendProperties, EmptySeq
<1>2. HostTime \in Nat /\ WireTime \in Nat
  BY HostQueueAssumption, NetAssumption
<1> HIDE DEF t
<1>3. /\ \A i \in 1 .. n : s[i].left \in 0 .. WireTime
      /\ \A i \in 1 .. n : \A j \in i .. n : s[j].left >= s[i].left + (j - i) * HostTime
  BY DEF Spaced
<1>4. \A i \in 1 .. n + 1 : t[i].left \in 0 .. WireTime
  <2> TAKE i \in 1 .. n + 1
  <2>1. CASE i = n + 1
    BY <1>1, <1>2, <2>1
  <2>2. CASE i # n + 1
    <3>1. i \in 1 .. n
      BY <1>1, <2>2
    <3> QED BY <1>1, <1>3, <3>1
  <2> QED BY <2>1, <2>2
<1>5. ASSUME NEW i \in 1 .. n + 1, NEW j \in i .. n + 1
      PROVE  t[j].left >= t[i].left + (j - i) * HostTime
  <2>1. CASE j # n + 1
    <3>1. i \in 1 .. n /\ j \in i .. n
      BY <1>1, <2>1
    <3>2. t[i] = s[i] /\ t[j] = s[j]
      BY <1>1, <3>1
    <3> QED BY <1>3, <3>1, <3>2
  <2>2. CASE j = n + 1 /\ i = n + 1
    <3>1. (j - i) * HostTime = 0 /\ t[j].left = WireTime /\ t[i].left = WireTime
      BY <1>1, <1>2, <2>2
    <3> QED BY <1>2, <3>1
  <2>3. CASE j = n + 1 /\ i # n + 1
    <3>1. i \in 1 .. n /\ n \in i .. n /\ n # 0
      BY <1>1, <2>3
    <3> DEFINE a == s[i].left
               b == s[n].left
               d == (n - i) * HostTime
    <3>2. b >= a + d /\ b + HostTime <= WireTime
      BY <1>1, <1>3, <3>1
    <3>3. a \in Int /\ b \in Int /\ d \in Int /\ (j - i) * HostTime = d + HostTime
      <4>1. n \in 1 .. n
        BY <1>1, <3>1
      <4>2. a \in Int /\ b \in Int
        <5>1. a \in 0 .. WireTime
          BY <1>3, <3>1
        <5>2. b \in 0 .. WireTime
          BY <1>3, <4>1
        <5> QED BY <5>1, <5>2
      <4> QED BY <1>1, <1>2, <2>3, <3>1, <4>2
    <3>4. t[j].left = WireTime /\ t[i].left = a
      BY <1>1, <2>3, <3>1
    <3> HIDE DEF a, b, d
    <3> QED BY <1>2, <3>2, <3>3, <3>4
  <2> QED BY <2>1, <2>2, <2>3
<1> QED BY <1>1, <1>4, <1>5 DEF Spaced, t

(* The link delivers its first packet.                                     *)
LEMMA SpacedTail ==
  ASSUME NEW S, NEW s \in Seq(S), s # <<>>, Spaced(s)
  PROVE  /\ Spaced(Tail(s))
         /\ Tail(s) # <<>> => Tail(s)[Len(Tail(s))] = s[Len(s)]
         /\ Len(Tail(s)) = Len(s) - 1
<1> DEFINE t == Tail(s)
           n == Len(s)
<1>1. /\ Len(t) = n - 1 /\ n \in Nat \ {0} /\ t \in Seq(S)
      /\ \A i \in 1 .. n - 1 : t[i] = s[i + 1]
  BY HeadTailProperties, EmptySeq
<1>2. t # <<>> <=> n - 1 # 0
  BY <1>1, EmptySeq
<1> HIDE DEF t
<1>3. /\ \A i \in 1 .. n : s[i].left \in 0 .. WireTime
      /\ \A i \in 1 .. n : \A j \in i .. n : s[j].left >= s[i].left + (j - i) * HostTime
  BY DEF Spaced
<1>4. ASSUME NEW i \in 1 .. n - 1  PROVE t[i].left \in 0 .. WireTime
  <2>1. i + 1 \in 1 .. n
    BY <1>1
  <2> QED BY <1>1, <1>3, <2>1
<1>5. ASSUME NEW i \in 1 .. n - 1, NEW j \in i .. n - 1
      PROVE  t[j].left >= t[i].left + (j - i) * HostTime
  <2>1. i + 1 \in 1 .. n /\ j + 1 \in i + 1 .. n /\ (j + 1) - (i + 1) = j - i /\ j \in 1 .. n - 1
    BY <1>1
  <2>2. s[j + 1].left >= s[i + 1].left + ((j + 1) - (i + 1)) * HostTime
    BY <1>3, <2>1
  <2>3. t[j] = s[j + 1] /\ t[i] = s[i + 1]
    BY <1>1, <2>1
  <2> QED BY <2>1, <2>2, <2>3
<1>6. t # <<>> => t[n - 1] = s[n]
  <2> SUFFICES ASSUME t # <<>>  PROVE t[n - 1] = s[n]
    OBVIOUS
  <2>1. n - 1 \in 1 .. n - 1 /\ (n - 1) + 1 = n
    BY <1>1, <1>2
  <2> QED BY <1>1, <2>1
<1> QED BY <1>1, <1>4, <1>5, <1>6 DEF Spaced, t

(* How many packets a link holds when its first one arrives.               *)
LEMMA LinkHolds ==
  ASSUME NEW S, NEW s \in Seq(S), s # <<>>, Spaced(s), s[1].left = 0
  PROVE  Len(s) - 1 <= WireTime \div HostTime
<1> DEFINE n == Len(s)
<1>1. n \in Nat \ {0} /\ 1 \in 1 .. n /\ n \in 1 .. n
  BY EmptySeq
<1>2. HostTime \in Nat \ {0} /\ WireTime \in Nat
  BY HostQueueAssumption, NetAssumption
<1>3. s[n].left \in 0 .. WireTime /\ s[n].left >= 0 + (n - 1) * HostTime
  BY <1>1 DEF Spaced
<1> HIDE DEF n
<1>4. (n - 1) * HostTime \in Int /\ n - 1 \in Nat
  BY <1>1, <1>2
<1>5. (n - 1) * HostTime <= WireTime
  BY <1>2, <1>3, <1>4
<1> QED BY <1>2, <1>4, <1>5, FitsInto DEF n

(* Time passes on a link.                                                  *)
LEMMA SpacedSooner ==
  ASSUME NEW S, NEW s \in Seq(S), Spaced(s), NEW t, t \in Seq(S), Len(t) = Len(s),
         \A i \in 1 .. Len(s) : t[i].left = s[i].left - 1,
         s # <<>> => s[1].left # 0
  PROVE  Spaced(t)
<1> DEFINE n == Len(s)
<1>1. n \in Nat /\ (s # <<>> <=> n # 0) /\ Len(t) = n
  BY EmptySeq
<1>2. HostTime \in Nat /\ WireTime \in Nat
  BY HostQueueAssumption, NetAssumption
<1>3. /\ \A i \in 1 .. n : s[i].left \in 0 .. WireTime
      /\ \A i \in 1 .. n : \A j \in i .. n : s[j].left >= s[i].left + (j - i) * HostTime
      /\ \A i \in 1 .. n : t[i].left = s[i].left - 1
  BY DEF Spaced
<1> HIDE DEF n
<1>4. ASSUME NEW i \in 1 .. n  PROVE t[i].left \in 0 .. WireTime
  <2>1. 1 \in 1 .. n /\ i \in 1 .. n /\ n # 0
    BY <1>1
  <2>2. s[1].left \in 0 .. WireTime /\ s[1].left # 0 /\ s[i].left \in 0 .. WireTime
    BY <1>1, <1>3, <2>1
  <2> DEFINE d == (i - 1) * HostTime
             a == s[1].left
             b == s[i].left
  <2>3. b >= a + d
    BY <1>3, <2>1
  <2>4. d \in Nat
    BY <1>1, <1>2
  <2> HIDE DEF d, a, b
  <2>5. a \in 0 .. WireTime /\ a # 0 /\ b \in 0 .. WireTime /\ t[i].left = b - 1
    BY <1>3, <2>2 DEF a, b
  <2> QED BY <1>2, <2>3, <2>4, <2>5
<1>5. ASSUME NEW i \in 1 .. n, NEW j \in i .. n
      PROVE  t[j].left >= t[i].left + (j - i) * HostTime
  <2>1. j \in 1 .. n
    BY <1>1
  <2> DEFINE d == (j - i) * HostTime
  <2>2. d \in Int
    BY <1>1, <1>2
  <2>3. s[j].left >= s[i].left + d /\ s[i].left \in Int /\ s[j].left \in Int
    BY <1>2, <1>3, <2>1
  <2> HIDE DEF d
  <2>4. t[j].left = s[j].left - 1
    BY <1>3, <2>1
  <2>5. t[i].left = s[i].left - 1
    BY <1>3
  <2> DEFINE a == s[i].left
             b == s[j].left
  <2>6. b >= a + d /\ a \in Int /\ b \in Int /\ t[j].left = b - 1 /\ t[i].left = a - 1
    BY <2>3, <2>4, <2>5
  <2> HIDE DEF a, b
  <2>7. t[j].left >= t[i].left + d
    BY <2>2, <2>6
  <2> QED BY <2>7 DEF d
<1> QED BY <1>1, <1>4, <1>5 DEF Spaced

LEMMA HeadroomInvInit == Init => HeadroomInv
<1> SUFFICES ASSUME Init  PROVE HeadroomInv
  OBVIOUS
<1>1. \A h \in Hosts : wire[h] = <<>> /\ nic[h].sending = None /\ inp[h].state = READY
  BY DEF Init, NewHostQueue, NewInput
<1>2. Len(<<>>) = 0 /\ 1 .. 0 = {}
  OBVIOUS
<1>3. \A h \in Hosts :
        Spaced(wire[h]) /\ BehindLast(nic[h], wire[h]) /\ Room(nic[h], wire[h], inp[h])
  BY <1>1, <1>2 DEF Spaced, BehindLast, Room, READY, PAUSED
<1> QED BY <1>3, ServiceInvInit DEF HeadroomInv

(* A step at one link at most.                                             *)
LEMMA LinkRoom ==
  ASSUME HeadroomInv, ServiceInv', NEW h \in Hosts,
         \A g \in Hosts \ {h} : nic'[g] = nic[g] /\ wire'[g] = wire[g] /\ inp'[g] = inp[g],
         Spaced(wire'[h]), BehindLast(nic'[h], wire'[h]), Room(nic'[h], wire'[h], inp'[h])
  PROVE  HeadroomInv'
<1>1. \A g \in Hosts :
        Spaced(wire'[g]) /\ BehindLast(nic'[g], wire'[g]) /\ Room(nic'[g], wire'[g], inp'[g])
  BY DEF HeadroomInv
<1>2. (\A g \in Hosts :
         Spaced(wire[g]) /\ BehindLast(nic[g], wire[g]) /\ Room(nic[g], wire[g], inp[g]))'
  BY <1>1
<1> QED BY <1>2 DEF HeadroomInv

(* A service that begins is behind all that is on the link.                *)
LEMMA JustBegun ==
  ASSUME NEW S, NEW s \in Seq(S), Spaced(s), NEW q, q.sending # None => q.events = <<HostTime>>
  PROVE  BehindLast(q, s)
<1> SUFFICES ASSUME q.sending # None, s # <<>>
             PROVE  s[Len(s)].left + HostTime - q.events[1] <= WireTime
  BY DEF BehindLast
<1>1. q.events[1] = HostTime
  OBVIOUS
<1>2. Len(s) \in 1 .. Len(s)
  BY EmptySeq
<1>3. s[Len(s)].left \in 0 .. WireTime
  BY <1>2 DEF Spaced
<1> QED BY <1>1, <1>3, HostQueueAssumption, NetAssumption

LEMMA SendLeavesRoom ==
  ASSUME HeadroomInv, ServiceInv', NEW f \in Flows, Send(f)
  PROVE  HeadroomInv'
<1> DEFINE h == Source[f]
           q == nic[h]
           r == nic'[h]
           s == wire[h]
<1>1. /\ h \in Hosts /\ inp' = inp /\ wire' = wire
      /\ \A g \in Hosts \ {h} : nic'[g] = nic[g]
      /\ r.state = q.state
      /\ q.sending # None => r.sending # None /\ r.events = q.events
      /\ q.sending = None /\ r.sending # None => r.events = <<HostTime>> /\ q.state = READY
  BY SendDoes DEF HeadroomInv
<1> HIDE DEF h
<1>2. /\ s \in Seq(OnWire(h)) /\ Spaced(s) /\ BehindLast(q, s) /\ Room(q, s, inp[h])
      /\ q.state # READY <=> inp[h].state = PAUSED
  BY <1>1, Wires, HostShapes DEF HeadroomInv, ServiceInv
<1> HIDE DEF q, r, s
<1>3. BehindLast(r, s)
  <2>1. CASE q.sending # None
    BY <1>1, <1>2, <2>1 DEF BehindLast
  <2>2. CASE q.sending = None
    <3>1. r.sending # None => r.events = <<HostTime>>
      BY <1>1, <2>2
    <3> QED BY <1>2, <3>1, JustBegun
  <2> QED BY <2>1, <2>2
<1>4. Room(r, s, inp[h])
  <2> SUFFICES ASSUME inp[h].state = PAUSED
               PROVE  r.sending = None <=> q.sending = None
    BY <1>2 DEF Room
  <2> QED BY <1>1, <1>2
<1> QED BY <1>1, <1>2, <1>3, <1>4, LinkRoom DEF r, s

LEMMA HostEventLeavesRoom ==
  ASSUME HeadroomInv, ServiceInv', NEW h \in Hosts, HostEvent(h)
  PROVE  HeadroomInv'
<1> DEFINE q == nic[h]
           r == nic'[h]
           s == wire[h]
           x == [pkt |-> q.sending, left |-> WireTime]
           t == Append(s, x)
<1>1. /\ q.sending \in PacketsOf(h) /\ q.sending # None /\ q.events[1] = 0
      /\ \A g \in Hosts \ {h} : nic'[g] = nic[g]
      /\ q.state # PAUSED
      /\ q.state = READY => r.state = READY
      /\ q.state = PAUSE_RECEIVED => r.state = PAUSED /\ r.sending = None
      /\ r.sending # None => r.events = <<HostTime>>
      /\ wire' = [wire EXCEPT ![h] = t]
  BY ServiceEnds DEF HeadroomInv
<1>2. /\ s \in Seq(OnWire(h)) /\ Spaced(s) /\ BehindLast(q, s) /\ Room(q, s, inp[h])
      /\ q.state # READY <=> inp[h].state = PAUSED
      /\ q.state \in States /\ inp[h].size \in Int
  BY Wires, HostShapes DEF HeadroomInv, ServiceInv, HostQueues
<1>3. inp' = inp
  BY DEF HostEvent
<1> HIDE DEF q, r, s
<1>4. x \in OnWire(h) /\ x.left = WireTime
  BY <1>1, NetAssumption DEF OnWire
<1> HIDE DEF x
<1>5. s # <<>> => s[Len(s)].left + HostTime <= WireTime
  <2> SUFFICES ASSUME s # <<>>  PROVE s[Len(s)].left + HostTime <= WireTime
    OBVIOUS
  <2>1. Len(s) \in 1 .. Len(s)
    BY <1>2, EmptySeq
  <2>2. s[Len(s)].left \in 0 .. WireTime
    BY <1>2, <2>1 DEF Spaced
  <2>3. s[Len(s)].left + HostTime - 0 <= WireTime
    BY <1>1, <1>2 DEF BehindLast
  <2> QED BY <2>2, <2>3, HostQueueAssumption, NetAssumption
<1>6. t \in Seq(OnWire(h)) /\ Spaced(t) /\ Len(t) = Len(s) + 1 /\ Len(s) \in Nat
  BY <1>2, <1>4, <1>5, SpacedAppend, AppendProperties
<1> HIDE DEF t
<1>7. wire'[h] = t /\ \A g \in Hosts \ {h} : wire'[g] = wire[g]
  <2>1. \A g \in Hosts : wire'[g] = IF g = h THEN t ELSE wire[g]
    BY <1>1, UpdatedAt DEF HeadroomInv, ServiceInv, IInv, WireShape
  <2> QED BY <2>1
<1>8. BehindLast(r, t)
  BY <1>1, <1>6, JustBegun
<1>9. Room(r, t, inp[h])
  <2> SUFFICES ASSUME inp[h].state = PAUSED
               PROVE  inp[h].size + Len(t) + (IF r.sending = None THEN 0 ELSE 1)
                        <= High + (WireTime \div HostTime) + 2
    BY DEF Room
  <2>1. q.state = PAUSE_RECEIVED
    BY <1>1, <1>2 DEF States
  <2>2. r.sending = None
    BY <1>1, <2>1
  <2>3. inp[h].size + Len(s) + 1 <= High + (WireTime \div HostTime) + 2
    BY <1>1, <1>2 DEF Room
  <2>4. inp[h].size + Len(t) + 0 = inp[h].size + Len(s) + 1
    BY <1>2, <1>6
  <2> QED BY <2>2, <2>3, <2>4
<1> QED BY <1>1, <1>3, <1>6, <1>7, <1>8, <1>9, LinkRoom DEF r

(* The packet that makes the input queue send a PAUSE comes when it is     *)
(* filled up to the high threshold.                                        *)
LEMMA WireDoes ==
  ASSUME ServiceInv, NEW h \in Hosts, WireEvent(h)
  PROVE  /\ \A g \in Hosts \ {h} : nic'[g] = nic[g] /\ wire'[g] = wire[g] /\ inp'[g] = inp[g]
         /\ nic'[h].sending = nic[h].sending /\ nic'[h].events = nic[h].events
         /\ wire[h] # <<>> /\ Head(wire[h]).left = 0 /\ wire'[h] = Tail(wire[h])
         /\ inp'[h].size = inp[h].size + 1
         /\ inp'[h].state = PAUSED => inp[h].state = PAUSED \/ inp[h].size <= High
<1> DEFINE q == nic[h]
           i == inp[h]
           r == HostPause(q)
           j == InputReceive(i)
           t == Tail(wire[h])
<1>1. /\ q \in HostQueues(h) /\ i \in Inputs /\ i.size \in Int /\ Serving(q)
      /\ q.state # READY <=> i.state = PAUSED
      /\ i.state = READY => i.size <= High
  BY HostShapes DEF ServiceInv
<1>2. j.size = i.size + 1
  BY <1>1 DEF InputReceive
<1>3. i.state \in {READY, PAUSED}
  BY <1>1 DEF Inputs
<1>4. \A g \in Hosts : inp'[g] = IF g = h THEN j ELSE inp[g]
  <2>1. inp' = [inp EXCEPT ![h] = j]
    BY DEF WireEvent
  <2> HIDE DEF j
  <2> QED BY <2>1, UpdatedAt DEF ServiceInv, IInv, HostInv, InpShape
<1>5. \A g \in Hosts : nic'[g] = IF g = h /\ SendsPause(i) THEN r ELSE nic[g]
  <2>1. CASE SendsPause(i)
    <3>1. nic' = [nic EXCEPT ![h] = r]
      BY <2>1 DEF WireEvent
    <3> HIDE DEF r
    <3> QED BY <2>1, <3>1, UpdatedAt DEF ServiceInv, IInv, HostInv, NicShape
  <2>2. CASE ~SendsPause(i)
    BY <2>2 DEF WireEvent
  <2> QED BY <2>1, <2>2
<1>6. wire[h] # <<>> /\ Head(wire[h]).left = 0 /\ wire' = [wire EXCEPT ![h] = t]
  BY DEF WireEvent
<1>7. \A g \in Hosts : wire'[g] = IF g = h THEN t ELSE wire[g]
  <2> HIDE DEF t
  <2> QED BY <1>6, UpdatedAt DEF ServiceInv, IInv, WireShape
<1>8. SendsPause(i) => r.sending = q.sending /\ r.events = q.events
  <2> SUFFICES ASSUME SendsPause(i)  PROVE r.sending = q.sending /\ r.events = q.events
    OBVIOUS
  <2>1. q.state = READY
    BY <1>1 DEF SendsPause
  <2> QED BY <1>1, <2>1, HostPauseServes
<1> HIDE DEF q, r, j, t
<1>9. nic'[h].sending = nic[h].sending /\ nic'[h].events = nic[h].events
  BY <1>5, <1>8 DEF q
<1>10. \A g \in Hosts \ {h} : nic'[g] = nic[g] /\ wire'[g] = wire[g] /\ inp'[g] = inp[g]
  BY <1>4, <1>5, <1>7
<1>11. inp'[h].state = PAUSED => i.state = PAUSED \/ i.size <= High
  BY <1>1, <1>3
<1>12. inp'[h].size = i.size + 1 /\ wire'[h] = t
  BY <1>2, <1>4, <1>7
<1> QED BY <1>6, <1>9, <1>10, <1>11, <1>12 DEF t

LEMMA WireEventLeavesRoom ==
  ASSUME HeadroomInv, ServiceInv', NEW h \in Hosts, WireEvent(h)
  PROVE  HeadroomInv'
<1> DEFINE q == nic[h]
           r == nic'[h]
           s == wire[h]
           t == wire'[h]
           i == inp[h]
           j == inp'[h]
<1>1. /\ \A g \in Hosts \ {h} : nic'[g] = nic[g] /\ wire'[g] = wire[g] /\ inp'[g] = inp[g]
      /\ r.sending = q.sending /\ r.events = q.events
      /\ s # <<>> /\ Head(s).left = 0 /\ t = Tail(s)
      /\ j.size = i.size + 1
      /\ j.state = PAUSED => i.state = PAUSED \/ i.size <= High
  BY WireDoes DEF HeadroomInv
<1>2. /\ s \in Seq(OnWire(h)) /\ Spaced(s) /\ BehindLast(q, s) /\ Room(q, s, i)
      /\ i.size \in Int
  BY Wires
<1> HIDE DEF q, r, s, t, i, j
<1>3. /\ Spaced(t) /\ Len(t) = Len(s) - 1 /\ Len(s) \in Nat \ {0}
      /\ t # <<>> => t[Len(t)] = s[Len(s)]
  BY <1>1, <1>2, SpacedTail, EmptySeq
<1>4. BehindLast(r, t)
  BY <1>1, <1>2, <1>3 DEF BehindLast
<1>5. Room(r, t, j)
  <2> DEFINE w == WireTime \div HostTime
             k == IF q.sending = None THEN 0 ELSE 1
  <2> SUFFICES ASSUME j.state = PAUSED  PROVE j.size + Len(t) + k <= High + w + 2
    BY <1>1 DEF Room
  <2>1. CASE i.state = PAUSED
    <3>1. i.size + Len(s) + k <= High + w + 2
      BY <1>2, <2>1 DEF Room
    <3>2. k \in Int
      OBVIOUS
    <3> HIDE DEF k, w
    <3>3. j.size + Len(t) + k = i.size + Len(s) + k
      BY <1>1, <1>2, <1>3, <3>2
    <3> QED BY <3>1, <3>3
  <2>2. CASE i.size <= High
    <3>1. s[1].left = 0
      BY <1>1, <1>2
    <3>2. Len(s) - 1 <= w
      BY <1>1, <1>2, <3>1, LinkHolds
    <3>3. k \in 0 .. 1 /\ w \in Int
      BY HostQueueAssumption, NetAssumption
    <3> HIDE DEF k, w
    <3> QED BY <1>1, <1>2, <1>3, <2>2, <3>2, <3>3, LosslessAssumption
  <2> QED BY <1>1, <2>1, <2>2
<1> QED BY <1>1, <1>3, <1>4, <1>5, LinkRoom DEF r, t, j

(* A credit frees room, and one that lifts the pause restarts the host.    *)
LEMMA OutEventLeavesRoom ==
  ASSUME HeadroomInv, ServiceInv', NEW o \in Outputs, OutEvent(o)
  PROVE  HeadroomInv'
<1>1. \A h \in Hosts : Credited(h)
  BY OutEventServed DEF HeadroomInv, ServiceInv
<1>2. wire' = wire
  BY DEF OutEvent
<1>3. ASSUME NEW h \in Hosts
      PROVE  Spaced(wire'[h]) /\ BehindLast(nic'[h], wire'[h]) /\ Room(nic'[h], wire'[h], inp'[h])
  <2> DEFINE q == nic[h]
             r == nic'[h]
             s == wire[h]
             i == inp[h]
             j == inp'[h]
  <2>1. /\ s \in Seq(OnWire(h)) /\ i.size \in Int
        /\ Spaced(s) /\ BehindLast(q, s) /\ Room(q, s, i)
    BY Wires
  <2>2. j.size \in Int
    BY DEF ServiceInv, IInv, HostInv, InpShape, Inputs
  <2>3. \/ r = q /\ j.state = i.state /\ j.size <= i.size
        \/ j.state = READY /\ (r.sending # None => r.events = <<HostTime>>)
    BY <1>1 DEF Credited
  <2>4. wire'[h] = s
    BY <1>2
  <2> HIDE DEF q, r, s, i, j
  <2>5. CASE r = q /\ j.state = i.state /\ j.size <= i.size
    <3> DEFINE k == IF q.sending = None THEN 0 ELSE 1
               w == WireTime \div HostTime
    <3>1. k \in Int /\ w \in Int /\ Len(s) \in Int /\ High \in Int
      BY <2>1, HostQueueAssumption, NetAssumption, LosslessAssumption
    <3>2. Room(r, s, j)
      <4> SUFFICES ASSUME j.state = PAUSED  PROVE j.size + Len(s) + k <= High + w + 2
        BY <2>5 DEF Room
      <4>1. i.size + Len(s) + k <= High + w + 2
        BY <2>1, <2>5 DEF Room
      <4> HIDE DEF k, w
      <4> QED BY <2>1, <2>2, <2>5, <3>1, <4>1
    <3> QED BY <2>1, <2>4, <2>5, <3>2 DEF r, j
  <2>6. CASE j.state = READY /\ (r.sending # None => r.events = <<HostTime>>)
    <3>1. BehindLast(r, s)
      BY <2>1, <2>6, JustBegun
    <3>2. Room(r, s, j)
      BY <2>6 DEF Room, READY, PAUSED
    <3> QED BY <2>1, <2>4, <3>1, <3>2 DEF r, j
  <2> QED BY <2>3, <2>5, <2>6
<1>4. (\A h \in Hosts :
         Spaced(wire[h]) /\ BehindLast(nic[h], wire[h]) /\ Room(nic[h], wire[h], inp[h]))'
  BY <1>3
<1> QED BY <1>4 DEF HeadroomInv

(* Time passes for the link and for the service alike.                     *)
LEMMA TickLeavesRoom ==
  ASSUME HeadroomInv, ServiceInv', Tick
  PROVE  HeadroomInv'
<1>1. /\ ~EventDue /\ inp' = inp
      /\ nic' = [h \in Hosts |-> [nic[h] EXCEPT !.events = [i \in DOMAIN @ |-> @[i] - 1]]]
      /\ wire' = [h \in Hosts |-> Sooner(wire[h])]
  BY DEF Tick
<1>2. ASSUME NEW h \in Hosts
      PROVE  Spaced(wire'[h]) /\ BehindLast(nic'[h], wire'[h]) /\ Room(nic'[h], wire'[h], inp'[h])
  <2> DEFINE q == nic[h]
             r == nic'[h]
             s == wire[h]
             t == wire'[h]
             es == [i \in DOMAIN q.events |-> q.events[i] - 1]
  <2>1. /\ s \in Seq(OnWire(h)) /\ q \in HostQueues(h) /\ Serving(q)
        /\ Spaced(s) /\ BehindLast(q, s) /\ Room(q, s, inp[h])
    BY Wires, HostShapes DEF HeadroomInv, ServiceInv
  <2>2. t \in Seq(OnWire(h))
    BY DEF ServiceInv, IInv, WireShape
  <2>3. t = Sooner(s) /\ r = [q EXCEPT !.events = es]
    BY <1>1
  <2>4. s # <<>> => Head(s).left # 0
    BY <1>1 DEF EventDue
  <2> HIDE DEF q, r, s, t
  <2>5. DOMAIN t = DOMAIN s /\ \A i \in DOMAIN s : t[i] = [s[i] EXCEPT !.left = @ - 1]
    BY <2>3 DEF Sooner
  <2>6. Len(t) = Len(s) /\ DOMAIN s = 1 .. Len(s) /\ Len(s) \in Nat
    BY <2>1, <2>2, <2>5
  <2>7. \A i \in 1 .. Len(s) : t[i].left = s[i].left - 1
    <3> TAKE i \in 1 .. Len(s)
    <3>1. s[i] \in OnWire(h) /\ t[i] = [s[i] EXCEPT !.left = @ - 1]
      BY <2>1, <2>5, <2>6
    <3> QED BY <3>1 DEF OnWire
  <2>8. s # <<>> => s[1].left # 0
    BY <2>1, <2>4
  <2>9. Spaced(t)
    BY <2>1, <2>2, <2>6, <2>7, <2>8, SpacedSooner
  <2>10. r.sending = q.sending /\ r.events = es
    BY <2>1, <2>3 DEF HostQueues
  <2>11. Room(r, t, inp[h])
    BY <2>1, <2>6, <2>10 DEF Room
  <2>12. BehindLast(r, t)
    <3> SUFFICES ASSUME q.sending # None, t # <<>>
                 PROVE  t[Len(t)].left + HostTime - r.events[1] <= WireTime
      BY <2>10 DEF BehindLast
    <3>1. s # <<>> /\ Len(s) \in 1 .. Len(s)
      BY <2>1, <2>2, <2>6, EmptySeq
    <3>2. s[Len(s)].left + HostTime - q.events[1] <= WireTime
      BY <2>1, <3>1 DEF BehindLast
    <3>3. Len(q.events) = 1 /\ q.events[1] \in 0 .. HostTime /\ q.events \in Seq(Int)
      BY <2>1 DEF Serving, HostQueues
    <3>4. es[1] = q.events[1] - 1
      BY <3>3
    <3>5. t[Len(t)].left = s[Len(s)].left - 1 /\ s[Len(s)].left \in 0 .. WireTime
      BY <2>1, <2>6, <2>7, <3>1 DEF Spaced
    <3> DEFINE a == s[Len(s)].left
               b == q.events[1]
    <3>6. a \in Int /\ b \in Int /\ a + HostTime - b <= WireTime
          /\ t[Len(t)].left = a - 1 /\ r.events[1] = b - 1
      BY <2>10, <3>2, <3>3, <3>4, <3>5, HostQueueAssumption, NetAssumption
    <3> HIDE DEF a, b, es
    <3> QED BY <3>6, HostQueueAssumption, NetAssumption
  <2> QED BY <1>1, <2>9, <2>11, <2>12 DEF r, t
<1>3. (\A h \in Hosts :
         Spaced(wire[h]) /\ BehindLast(nic[h], wire[h]) /\ Room(nic[h], wire[h], inp[h]))'
  BY <1>2
<1> QED BY <1>3 DEF HeadroomInv

LEMMA HeadroomInvNext ==
  ASSUME SlowOutputs
  PROVE  HeadroomInv /\ [Next]_vars => HeadroomInv'
<1> SUFFICES ASSUME HeadroomInv, [Next]_vars  PROVE HeadroomInv'
  OBVIOUS
<1>0. ServiceInv'
  BY ServiceInvNext DEF HeadroomInv
<1>1. ASSUME NEW f \in Flows, Send(f)  PROVE HeadroomInv'
  BY <1>0, <1>1, SendLeavesRoom
<1>2. ASSUME NEW h \in Hosts, HostEvent(h)  PROVE HeadroomInv'
  BY <1>0, <1>2, HostEventLeavesRoom
<1>3. ASSUME NEW h \in Hosts, WireEvent(h)  PROVE HeadroomInv'
  BY <1>0, <1>3, WireEventLeavesRoom
<1>4. ASSUME NEW o \in Outputs, OutEvent(o)  PROVE HeadroomInv'
  BY <1>0, <1>4, OutEventLeavesRoom
<1>5. CASE Tick
  BY <1>0, <1>5, TickLeavesRoom
<1>6. ASSUME UNCHANGED <<nic, wire, inp>>  PROVE HeadroomInv'
  BY <1>0, <1>6 DEF HeadroomInv
<1>7. CASE FabricEvent
  BY <1>6, <1>7 DEF FabricEvent
<1>8. ASSUME NEW o \in Outputs, PausedFromBehind(o) \/ ResumedFromBehind(o)  PROVE HeadroomInv'
  BY <1>6, <1>8 DEF PausedFromBehind, ResumedFromBehind
<1>9. CASE UNCHANGED vars
  BY <1>6, <1>9 DEF vars
<1> QED BY <1>1, <1>2, <1>3, <1>4, <1>5, <1>7, <1>8, <1>9 DEF Next, RunEvents

(* Above the high threshold of an input queue there is room for what its   *)
(* link and its host still deliver (queue_lossless_input.cpp 86-104).      *)
THEOREM HeadroomAlways ==
  ASSUME SlowOutputs
  PROVE  Spec => []HeadroomSuffices
<1>1. HeadroomInv => HeadroomSuffices
  <2> SUFFICES ASSUME HeadroomInv, NEW h \in Hosts
               PROVE  inp[h].size <= High + (WireTime \div HostTime) + 2
    BY DEF HeadroomSuffices
  <2> DEFINE w == WireTime \div HostTime
             i == inp[h]
             s == wire[h]
             k == IF nic[h].sending = None THEN 0 ELSE 1
  <2>1. /\ i.size \in Int /\ i.state \in {READY, PAUSED}
        /\ i.state = READY => i.size <= High
    BY HostShapes DEF HeadroomInv, ServiceInv, Inputs
  <2>2. s \in Seq(OnWire(h)) /\ (i.state = PAUSED => i.size + Len(s) + k <= High + w + 2)
    BY Wires DEF Room
  <2>3. w \in Nat /\ k \in Nat /\ Len(s) \in Nat /\ High \in Nat
    BY <2>2, HostQueueAssumption, NetAssumption, LosslessAssumption
  <2> HIDE DEF w, i, s, k
  <2>4. i.size <= High + w + 2
    BY <2>1, <2>2, <2>3
  <2> QED BY <2>4 DEF w, i
<1>2. Init => HeadroomInv
  BY HeadroomInvInit
<1>3. HeadroomInv /\ [Next]_vars => HeadroomInv'
  BY HeadroomInvNext
<1> QED BY <1>1, <1>2, <1>3, PTL DEF Spec

-----------------------------------------------------------------------------
(* The packets of a flow on their way, farthest first: they are in order,  *)
(* and with those that are lost together those sent.                       *)

\* The numbers of a flow's packets in a sequence.
Numbers(s, f) == {s[i].seq : i \in {j \in 1 .. Len(s) : s[j].flow = f}}

InOrder(s) ==
  \A i \in 1 .. Len(s) : \A j \in 1 .. i - 1 : s[j].flow = s[i].flow => s[j].seq < s[i].seq

Stages == 1 .. 6

InLine(v, N, L) ==
  /\ L \in SUBSET (1 .. N)
  /\ \A k \in Stages : v[k] \in SUBSET (1 .. N)
  /\ \A n \in 1 .. N : n \in L \/ \E k \in Stages : n \in v[k]
  /\ \A k \in 2 .. 6 : \A n \in v[k] : n \notin L
  /\ \A k \in Stages : \A j \in 1 .. k - 1 : \A n \in v[k] : \A m \in v[j] : m < n

\* The first of a stage moves on.
Onward(v, w, k, n) ==
  /\ v[k + 1] = w[k + 1] \cup {n} /\ \A m \in w[k + 1] : n < m
  /\ w[k] = v[k] \cup {n}
  /\ \A j \in Stages : j # k /\ j # k + 1 => w[j] = v[j]

MovesOn(v, w) ==
  \/ \A j \in Stages : w[j] = v[j]
  \/ \E k \in 1 .. 5, n \in Nat : Onward(v, w, k, n)

LEMMA OnwardInLine ==
  ASSUME NEW N \in Nat, NEW L, NEW v, NEW w, InLine(v, N, L), NEW k \in 1 .. 5, NEW n, Onward(v, w, k, n)
  PROVE  InLine(w, N, L)
<1>1. k \in Stages /\ k + 1 \in Stages /\ k \in Int
  BY DEF Stages
<1>2. /\ v[k + 1] = w[k + 1] \cup {n} /\ w[k] = v[k] \cup {n}
      /\ \A m \in w[k + 1] : n < m
      /\ \A j \in Stages : j # k /\ j # k + 1 => w[j] = v[j]
  BY DEF Onward
<1>3. /\ \A j \in Stages : v[j] \in SUBSET (1 .. N)
      /\ \A m \in 1 .. N : m \in L \/ \E j \in Stages : m \in v[j]
      /\ L \in SUBSET (1 .. N) /\ \A j \in 2 .. 6 : \A m \in v[j] : m \notin L
      /\ \A j \in Stages : \A i \in 1 .. j - 1 : \A m \in v[j] : \A l \in v[i] : l < m
  BY DEF InLine
<1>4. n \in 1 .. N
  BY <1>1, <1>2, <1>3
<1>5. \A j \in Stages : w[j] \in SUBSET (1 .. N)
  <2> TAKE j \in Stages
  <2>1. CASE j = k
    BY <1>1, <1>2, <1>3, <1>4, <2>1
  <2>2. CASE j = k + 1
    <3>1. v[k + 1] \in SUBSET (1 .. N)
      BY <1>1, <1>3
    <3> QED BY <1>2, <2>2, <3>1
  <2>3. CASE j # k /\ j # k + 1
    BY <1>2, <1>3, <2>3
  <2> QED BY <2>1, <2>2, <2>3
<1>6. \A m \in 1 .. N : m \in L \/ \E j \in Stages : m \in w[j]
  <2> SUFFICES ASSUME NEW m \in 1 .. N, m \notin L  PROVE \E j \in Stages : m \in w[j]
    OBVIOUS
  <2>1. PICK j \in Stages : m \in v[j]
    BY <1>3
  <2>2. CASE m = n
    BY <1>1, <1>2, <2>2
  <2>3. CASE m # n /\ j = k
    BY <1>1, <1>2, <2>1, <2>3
  <2>4. CASE m # n /\ j = k + 1
    BY <1>1, <1>2, <2>1, <2>4
  <2>5. CASE m # n /\ j # k /\ j # k + 1
    BY <1>2, <2>1, <2>5
  <2> QED BY <2>2, <2>3, <2>4, <2>5
<1>7. ASSUME NEW j \in Stages, NEW i \in 1 .. j - 1, NEW m \in w[j], NEW l \in w[i]
      PROVE  l < m
  <2>1. i \in Stages /\ i < j /\ i \in Int /\ j \in Int
    BY DEF Stages
  <2>2. CASE j = k
    <3>1. i # k /\ i # k + 1
      BY <2>1, <2>2
    <3>2. w[i] = v[i]
      BY <1>2, <2>1, <3>1
    <3>3. m \in v[k] \/ m = n
      BY <1>2, <2>2
    <3>4. CASE m \in v[k]
      BY <1>3, <2>2, <3>2, <3>4
    <3>5. CASE m = n
      <4>1. n \in v[k + 1] /\ i \in 1 .. (k + 1) - 1
        BY <1>1, <1>2, <2>1, <2>2
      <4> QED BY <1>1, <1>3, <3>2, <3>5, <4>1
    <3> QED BY <3>3, <3>4, <3>5
  <2>3. CASE i = k /\ j = k + 1
    <3>1. m \in v[k + 1] /\ n < m
      BY <1>2, <2>3
    <3>2. l \in v[k] \/ l = n
      BY <1>2, <2>3
    <3> QED BY <1>3, <2>3, <3>1, <3>2
  <2>4. CASE i = k /\ j # k + 1
    <3>1. j # k /\ w[j] = v[j] /\ k + 1 \in 1 .. j - 1
      BY <1>1, <1>2, <2>1, <2>4
    <3>2. l \in v[k] \/ l = n
      BY <1>2, <2>4
    <3>3. CASE l \in v[k]
      BY <1>3, <2>4, <3>1, <3>3
    <3>4. CASE l = n
      <4>1. n \in v[k + 1]
        BY <1>2
      <4> QED BY <1>3, <3>1, <3>4, <4>1
    <3> QED BY <3>2, <3>3, <3>4
  <2>5. CASE i # k /\ j # k
    <3>1. w[i] \in SUBSET v[i]
      <4>1. CASE i = k + 1
        BY <1>2, <4>1
      <4>2. CASE i # k + 1
        BY <1>2, <2>1, <2>5, <4>2
      <4> QED BY <4>1, <4>2
    <3>2. w[j] \in SUBSET v[j]
      <4>1. CASE j = k + 1
        BY <1>2, <4>1
      <4>2. CASE j # k + 1
        BY <1>2, <2>1, <2>5, <4>2
      <4> QED BY <4>1, <4>2
    <3> QED BY <1>3, <3>1, <3>2
  <2> QED BY <2>2, <2>3, <2>4, <2>5
<1>8. ASSUME NEW j \in 2 .. 6, NEW m \in w[j]  PROVE m \notin L
  <2>1. j \in Stages /\ k + 1 \in 2 .. 6
    BY DEF Stages
  <2>2. CASE j = k
    <3>1. m \in v[k] \/ m \in v[k + 1]
      BY <1>2, <2>2
    <3> QED BY <1>3, <2>1, <2>2, <3>1
  <2>3. CASE j = k + 1
    <3>1. m \in v[k + 1]
      BY <1>2, <2>3
    <3> QED BY <1>3, <2>1, <3>1
  <2>4. CASE j # k /\ j # k + 1
    BY <1>2, <1>3, <2>1, <2>4
  <2> QED BY <2>2, <2>3, <2>4
<1> QED BY <1>3, <1>5, <1>6, <1>7, <1>8 DEF InLine

LEMMA StaysInLine ==
  ASSUME NEW N \in Nat, NEW L, NEW v, NEW w, InLine(v, N, L), MovesOn(v, w)
  PROVE  InLine(w, N, L)
<1>1. CASE \A j \in Stages : w[j] = v[j]
  <2>1. \A j \in Stages : \A i \in 1 .. j - 1 : i \in Stages
    BY DEF Stages
  <2>2. \A j \in 2 .. 6 : j \in Stages
    BY DEF Stages
  <2> QED BY <1>1, <2>1, <2>2 DEF InLine
<1>2. ASSUME NEW k \in 1 .. 5, NEW n \in Nat, Onward(v, w, k, n)  PROVE InLine(w, N, L)
  BY <1>2, OnwardInLine
<1> QED BY <1>1, <1>2 DEF MovesOn

(* A new packet is behind all others.                                      *)
LEMMA JoinsLine ==
  ASSUME NEW N \in Nat, NEW L, NEW v, NEW w, InLine(v, N, L), w[6] = v[6] \cup {N + 1},
         \A k \in 1 .. 5 : w[k] = v[k]
  PROVE  InLine(w, N + 1, L)
<1>1. \A k \in Stages : k \in 1 .. 5 \/ k = 6
  BY DEF Stages
<1>2. /\ \A j \in Stages : v[j] \in SUBSET (1 .. N)
      /\ \A m \in 1 .. N : m \in L \/ \E j \in Stages : m \in v[j]
      /\ L \in SUBSET (1 .. N) /\ \A j \in 2 .. 6 : \A m \in v[j] : m \notin L
      /\ \A j \in Stages : \A i \in 1 .. j - 1 : \A m \in v[j] : \A l \in v[i] : l < m
  BY DEF InLine
<1>3. \A k \in Stages : w[k] \in SUBSET (1 .. N + 1)
  <2> TAKE k \in Stages
  <2>1. v[k] \in SUBSET (1 .. N)
    BY <1>2
  <2> QED BY <1>1, <2>1
<1>4. \A n \in 1 .. N + 1 : n \in L \/ \E k \in Stages : n \in w[k]
  <2> SUFFICES ASSUME NEW n \in 1 .. N + 1, n \notin L  PROVE \E k \in Stages : n \in w[k]
    OBVIOUS
  <2>1. CASE n = N + 1
    BY <2>1 DEF Stages
  <2>2. CASE n # N + 1
    <3>1. n \in 1 .. N
      BY <2>2
    <3>2. PICK k \in Stages : n \in v[k]
      BY <1>2, <3>1
    <3>3. n \in w[k]
      BY <1>1, <3>2
    <3> QED BY <3>3
  <2> QED BY <2>1, <2>2
<1>5. ASSUME NEW k \in Stages, NEW j \in 1 .. k - 1, NEW n \in w[k], NEW m \in w[j]
      PROVE  m < n
  <2>1. j \in 1 .. 5 /\ j \in Stages
    BY DEF Stages
  <2>2. m \in v[j] /\ m \in 1 .. N
    BY <1>2, <2>1
  <2>3. CASE n = N + 1
    BY <2>2, <2>3
  <2>4. CASE n # N + 1
    <3>1. n \in v[k]
      BY <1>1, <2>4
    <3> QED BY <1>2, <2>2, <3>1
  <2> QED BY <2>3, <2>4
<1>6. ASSUME NEW k \in 2 .. 6, NEW n \in w[k]  PROVE n \notin L
  <2>1. k \in Stages
    BY DEF Stages
  <2>2. n \in v[k] \/ n = N + 1
    BY <1>1, <2>1
  <2>3. N + 1 \notin L
    BY <1>2
  <2> QED BY <1>2, <2>2, <2>3
<1>7. L \in SUBSET (1 .. N + 1)
  BY <1>2
<1> QED BY <1>3, <1>4, <1>5, <1>6, <1>7 DEF InLine

(* Packets in an output's buffer that are lost.                            *)
LEMMA DropsInLine ==
  ASSUME NEW N \in Nat, NEW L, NEW v, NEW w, InLine(v, N, L), NEW D \in SUBSET v[2],
         w[2] = v[2] \ D, \A k \in Stages : k # 2 => w[k] = v[k]
  PROVE  InLine(w, N, L \cup D)
<1>1. /\ \A j \in Stages : v[j] \in SUBSET (1 .. N)
      /\ \A m \in 1 .. N : m \in L \/ \E j \in Stages : m \in v[j]
      /\ L \in SUBSET (1 .. N) /\ \A j \in 2 .. 6 : \A m \in v[j] : m \notin L
      /\ \A j \in Stages : \A i \in 1 .. j - 1 : \A m \in v[j] : \A l \in v[i] : l < m
  BY DEF InLine
<1>2. 2 \in Stages /\ \A j \in Stages : w[j] \in SUBSET v[j]
  <2>1. 2 \in Stages
    BY DEF Stages
  <2> QED BY <2>1
<1>3. \A j \in Stages : \A i \in 1 .. j - 1 : i \in Stages
  BY DEF Stages
<1>4. \A j \in 2 .. 6 : j \in Stages
  BY DEF Stages
<1>5. ASSUME NEW m \in 1 .. N, m \notin L \cup D  PROVE \E j \in Stages : m \in w[j]
  <2>1. PICK j \in Stages : m \in v[j]
    BY <1>1, <1>5
  <2>2. m \in w[j]
    BY <1>5, <2>1
  <2> QED BY <2>2
<1>6. ASSUME NEW j \in 2 .. 6, NEW m \in w[j]  PROVE m \notin L \cup D
  <2>1. m \in v[j] /\ j \in Stages
    BY <1>2, <1>4
  <2>2. CASE j = 2
    BY <1>1, <2>1, <2>2
  <2>3. CASE j # 2
    <3>1. 2 \in 1 .. j - 1
      BY <2>3
    <3>2. \A l \in D : l < m /\ l \in 1 .. N /\ m \in 1 .. N
      BY <1>1, <1>2, <2>1, <3>1
    <3>3. m \notin D
      BY <3>2
    <3> QED BY <1>1, <2>1, <3>3
  <2> QED BY <2>2, <2>3
<1>7. /\ L \cup D \in SUBSET (1 .. N)
      /\ \A j \in Stages : w[j] \in SUBSET (1 .. N)
  BY <1>1, <1>2
<1>8. \A j \in Stages : \A i \in 1 .. j - 1 : \A m \in w[j] : \A l \in w[i] : l < m
  BY <1>1, <1>2, <1>3
<1> QED BY <1>5, <1>6, <1>7, <1>8 DEF InLine

(* They are behind those that have arrived.                                *)
LEMMA BehindArrived ==
  ASSUME NEW N \in Nat, NEW L, NEW v, InLine(v, N, L), NEW a \in Nat, v[1] = 1 .. a,
         NEW n \in v[2]
  PROVE  n \in (a + 1) .. N
<1>1. 2 \in Stages /\ 1 \in 1 .. 2 - 1
  BY DEF Stages
<1>2. n \in 1 .. N /\ \A m \in 1 .. a : m < n
  BY <1>1 DEF InLine
<1>3. a < n
  <2>1. CASE a = 0
    BY <1>2, <2>1
  <2>2. CASE a # 0
    BY <1>2, <2>2
  <2> QED BY <2>1, <2>2
<1> QED BY <1>2, <1>3

(* The first of the buffer arrives: those before it are lost.              *)
Arrives(v, w, a, n) ==
  /\ v[1] = 1 .. a /\ w[1] = 1 .. n
  /\ v[2] = w[2] \cup {n} /\ \A m \in w[2] : n < m
  /\ \A k \in Stages : k # 1 /\ k # 2 => w[k] = v[k]

LEMMA HeadArrives ==
  ASSUME NEW N \in Nat, NEW L, NEW v, NEW w, InLine(v, N, L), NEW a \in Nat, NEW n,
         Arrives(v, w, a, n)
  PROVE  /\ n \in ((a + 1) .. N) \ L /\ (a + 1) .. (n - 1) \subseteq L
         /\ InLine(w, N, L)
<1>0. /\ v[1] = 1 .. a /\ w[1] = 1 .. n
      /\ v[2] = w[2] \cup {n} /\ \A m \in w[2] : n < m
      /\ \A k \in Stages : k # 1 /\ k # 2 => w[k] = v[k]
  BY DEF Arrives
<1>1. /\ \A j \in Stages : v[j] \in SUBSET (1 .. N)
      /\ \A m \in 1 .. N : m \in L \/ \E j \in Stages : m \in v[j]
      /\ L \in SUBSET (1 .. N) /\ \A j \in 2 .. 6 : \A m \in v[j] : m \notin L
      /\ \A j \in Stages : \A i \in 1 .. j - 1 : \A m \in v[j] : \A l \in v[i] : l < m
  BY DEF InLine
<1>2. 1 \in Stages /\ 2 \in Stages /\ 2 \in 2 .. 6
  BY DEF Stages
<1>3. n \in (a + 1) .. N /\ n \notin L
  BY <1>0, <1>1, <1>2, BehindArrived
<1>4. \A j \in Stages : j # 1 /\ j # 2 => j \in 3 .. 6 /\ 2 \in 1 .. j - 1
  BY DEF Stages
<1>5. \A j \in Stages : j # 1 => w[j] \in SUBSET v[j] /\ \A m \in w[j] : n < m
  <2> TAKE j \in Stages
  <2>1. CASE j = 2
    BY <1>0, <2>1
  <2>2. CASE j # 2 /\ j # 1
    BY <1>0, <1>1, <1>2, <1>4, <2>2
  <2> QED BY <2>1, <2>2
<1>6. ASSUME NEW m \in 1 .. N, m \notin L  PROVE m <= n \/ \E j \in Stages : j # 1 /\ m \in w[j]
  <2>1. PICK j \in Stages : m \in v[j]
    BY <1>1, <1>6
  <2>2. CASE j = 1
    BY <1>0, <1>3, <2>1, <2>2
  <2>3. CASE j = 2
    <3>1. m = n \/ m \in w[2]
      BY <1>0, <2>1, <2>3
    <3> QED BY <1>2, <1>3, <3>1
  <2>4. CASE j # 1 /\ j # 2
    BY <1>0, <2>1, <2>4
  <2> QED BY <2>2, <2>3, <2>4
<1>7. (a + 1) .. (n - 1) \subseteq L
  <2> SUFFICES ASSUME NEW m \in (a + 1) .. (n - 1), m \notin L  PROVE FALSE
    OBVIOUS
  <2>1. m \in 1 .. N /\ ~ (n < m) /\ m # n /\ m \notin 1 .. a
    BY <1>3
  <2>2. PICK j \in Stages : m \in v[j]
    BY <1>1, <2>1
  <2>3. j # 1
    BY <1>0, <2>1, <2>2
  <2>4. m \in w[j]
    BY <1>0, <2>1, <2>2, <2>3
  <2> QED BY <1>5, <2>1, <2>3, <2>4
<1>8. \A j \in Stages : w[j] \in SUBSET (1 .. N)
  <2> TAKE j \in Stages
  <2>1. CASE j = 1
    BY <1>0, <1>3, <2>1
  <2>2. CASE j # 1
    BY <1>1, <1>5, <2>2
  <2> QED BY <2>1, <2>2
<1>9. \A m \in 1 .. N : m \in L \/ \E j \in Stages : m \in w[j]
  <2> SUFFICES ASSUME NEW m \in 1 .. N, m \notin L  PROVE \E j \in Stages : m \in w[j]
    OBVIOUS
  <2>1. CASE m <= n
    <3>1. m \in w[1]
      BY <1>0, <1>3, <2>1
    <3> QED BY <1>2, <3>1
  <2>2. CASE ~ (m <= n)
    BY <1>6, <2>2
  <2> QED BY <2>1, <2>2
<1>10. ASSUME NEW j \in 2 .. 6, NEW m \in w[j]  PROVE m \notin L
  <2>1. j \in Stages /\ j # 1
    BY DEF Stages
  <2> QED BY <1>1, <1>5, <2>1
<1>11. ASSUME NEW j \in Stages, NEW i \in 1 .. j - 1, NEW m \in w[j], NEW l \in w[i]
       PROVE  l < m
  <2>1. j # 1 /\ i \in Stages
    BY DEF Stages
  <2>2. n < m /\ m \in v[j] /\ m \in 1 .. N
    BY <1>1, <1>5, <2>1
  <2>3. CASE i = 1
    BY <1>0, <1>3, <2>2, <2>3
  <2>4. CASE i # 1
    BY <1>1, <1>5, <2>1, <2>2, <2>4
  <2> QED BY <2>3, <2>4
<1> QED BY <1>1, <1>3, <1>7, <1>8, <1>9, <1>10, <1>11 DEF InLine

(* Of a queue that hands on its first packet ...                           *)
LEMMA HeadNumbers ==
  ASSUME NEW s \in Seq(AnyPacket), s # <<>>, InOrder(s)
  PROVE  /\ Head(s) \in AnyPacket /\ InOrder(Tail(s)) /\ Tail(s) \in Seq(AnyPacket)
         /\ \A f \in Flows :
              IF f = Head(s).flow
              THEN /\ Numbers(s, f) = Numbers(Tail(s), f) \cup {Head(s).seq}
                   /\ \A m \in Numbers(Tail(s), f) : Head(s).seq < m
              ELSE Numbers(s, f) = Numbers(Tail(s), f)
<1> DEFINE t == Tail(s)
           n == Len(s)
           p == Head(s)
<1>1. /\ t \in Seq(AnyPacket) /\ Len(t) = n - 1 /\ n \in Nat \ {0} /\ p = s[1]
      /\ \A i \in 1 .. n - 1 : t[i] = s[i + 1]
  BY HeadTailProperties, EmptySeq
<1>2. \A i \in 1 .. n : s[i] \in AnyPacket
  OBVIOUS
<1>3. p \in AnyPacket
  <2>1. 1 \in 1 .. n
    BY <1>1
  <2> QED BY <1>1, <1>2, <2>1
<1> HIDE DEF t, p
<1>4. \A i \in 1 .. n : \A j \in 1 .. i - 1 : s[j].flow = s[i].flow => s[j].seq < s[i].seq
  BY DEF InOrder
<1> HIDE DEF n
<1>5. InOrder(t)
  <2> SUFFICES ASSUME NEW i \in 1 .. n - 1, NEW j \in 1 .. i - 1, t[j].flow = t[i].flow
               PROVE  t[j].seq < t[i].seq
    BY <1>1 DEF InOrder
  <2>1. i + 1 \in 1 .. n /\ j + 1 \in 1 .. (i + 1) - 1 /\ j \in 1 .. n - 1
    BY <1>1
  <2>2. t[i] = s[i + 1] /\ t[j] = s[j + 1]
    BY <1>1, <2>1
  <2> QED BY <1>4, <2>1, <2>2
<1>6. ASSUME NEW f \in Flows, NEW m \in Numbers(t, f)  PROVE \E i \in 2 .. n : s[i].flow = f /\ s[i].seq = m
  <2>1. PICK i \in 1 .. n - 1 : t[i].flow = f /\ t[i].seq = m
    BY <1>1 DEF Numbers
  <2>2. i + 1 \in 2 .. n /\ s[i + 1] = t[i]
    BY <1>1
  <2> QED BY <2>1, <2>2
<1>7. ASSUME NEW f \in Flows, NEW i \in 2 .. n, s[i].flow = f  PROVE s[i].seq \in Numbers(t, f)
  <2>1. i - 1 \in 1 .. n - 1 /\ (i - 1) + 1 = i
    BY <1>1
  <2>2. t[i - 1] = s[i]
    BY <1>1, <2>1
  <2> QED BY <1>1, <1>7, <2>1, <2>2 DEF Numbers
<1>8. \A i \in 1 .. n : i = 1 \/ i \in 2 .. n
  BY <1>1
<1>9. 1 \in 1 .. n /\ \A i \in 2 .. n : i \in 1 .. n /\ 1 \in 1 .. i - 1
  BY <1>1
<1>10. ASSUME NEW f \in Flows, f = p.flow
       PROVE  /\ Numbers(s, f) = Numbers(t, f) \cup {p.seq}
              /\ \A m \in Numbers(t, f) : p.seq < m
  <2>1. \A m \in Numbers(t, f) : p.seq < m
    <3> TAKE m \in Numbers(t, f)
    <3>1. PICK i \in 2 .. n : s[i].flow = f /\ s[i].seq = m
      BY <1>6
    <3> QED BY <1>1, <1>4, <1>9, <1>10, <3>1
  <2>2. ASSUME NEW m \in Numbers(s, f)  PROVE m \in Numbers(t, f) \cup {p.seq}
    <3>1. PICK i \in 1 .. n : s[i].flow = f /\ s[i].seq = m
      BY DEF Numbers, n
    <3> QED BY <1>1, <1>7, <1>8, <3>1
  <2>3. ASSUME NEW m \in Numbers(t, f) \cup {p.seq}  PROVE m \in Numbers(s, f)
    <3>1. CASE m = p.seq
      BY <1>1, <1>9, <1>10, <3>1 DEF Numbers, n
    <3>2. CASE m \in Numbers(t, f)
      <4>1. PICK i \in 2 .. n : s[i].flow = f /\ s[i].seq = m
        BY <1>6, <3>2
      <4> QED BY <1>9, <4>1 DEF Numbers, n
    <3> QED BY <3>1, <3>2
  <2> QED BY <2>1, <2>2, <2>3
<1>11. ASSUME NEW f \in Flows, f # p.flow  PROVE Numbers(s, f) = Numbers(t, f)
  <2>1. ASSUME NEW m \in Numbers(s, f)  PROVE m \in Numbers(t, f)
    <3>1. PICK i \in 1 .. n : s[i].flow = f /\ s[i].seq = m
      BY DEF Numbers, n
    <3> QED BY <1>1, <1>7, <1>8, <1>11, <3>1
  <2>2. ASSUME NEW m \in Numbers(t, f)  PROVE m \in Numbers(s, f)
    <3>1. PICK i \in 2 .. n : s[i].flow = f /\ s[i].seq = m
      BY <1>6, <2>2
    <3> QED BY <1>9, <3>1 DEF Numbers, n
  <2> QED BY <2>1, <2>2
<1> QED BY <1>1, <1>3, <1>5, <1>10, <1>11 DEF t, p

(* ... and of one that takes a packet.                                     *)
LEMMA AppendNumbers ==
  ASSUME NEW s \in Seq(AnyPacket), InOrder(s), NEW p \in AnyPacket,
         \A m \in Numbers(s, p.flow) : m < p.seq
  PROVE  /\ InOrder(Append(s, p)) /\ Append(s, p) \in Seq(AnyPacket)
         /\ \A f \in Flows :
              Numbers(Append(s, p), f) =
                IF f = p.flow THEN Numbers(s, f) \cup {p.seq} ELSE Numbers(s, f)
<1> DEFINE t == Append(s, p)
           n == Len(s)
<1>1. /\ t \in Seq(AnyPacket) /\ Len(t) = n + 1 /\ n \in Nat /\ t[n + 1] = p
      /\ \A i \in 1 .. n : t[i] = s[i]
  BY AppendProperties
<1>2. \A i \in 1 .. n : \A j \in 1 .. i - 1 : s[j].flow = s[i].flow => s[j].seq < s[i].seq
  BY DEF InOrder
<1> HIDE DEF t
<1>3. \A i \in 1 .. n + 1 : i \in 1 .. n \/ i = n + 1
  BY <1>1
<1>4. InOrder(t)
  <2> SUFFICES ASSUME NEW i \in 1 .. n + 1, NEW j \in 1 .. i - 1, t[j].flow = t[i].flow
               PROVE  t[j].seq < t[i].seq
    BY <1>1 DEF InOrder
  <2>1. j \in 1 .. n
    BY <1>1
  <2>2. CASE i \in 1 .. n
    BY <1>1, <1>2, <2>1, <2>2
  <2>3. CASE i = n + 1
    <3>1. s[j].seq \in Numbers(s, p.flow)
      BY <1>1, <2>1, <2>3 DEF Numbers
    <3> QED BY <1>1, <2>1, <2>3, <3>1
  <2> QED BY <1>3, <2>2, <2>3
<1>5. ASSUME NEW f \in Flows
      PROVE  Numbers(t, f) = IF f = p.flow THEN Numbers(s, f) \cup {p.seq} ELSE Numbers(s, f)
  <2>1. ASSUME NEW m \in Numbers(t, f)
        PROVE  m \in Numbers(s, f) \/ (f = p.flow /\ m = p.seq)
    <3>1. PICK i \in 1 .. n + 1 : t[i].flow = f /\ t[i].seq = m
      BY <1>1 DEF Numbers
    <3>2. CASE i \in 1 .. n
      BY <1>1, <3>1, <3>2 DEF Numbers
    <3>3. CASE i = n + 1
      BY <1>1, <3>1, <3>3
    <3> QED BY <1>3, <3>2, <3>3
  <2>2. ASSUME NEW m \in Numbers(s, f)  PROVE m \in Numbers(t, f)
    <3>1. PICK i \in 1 .. n : s[i].flow = f /\ s[i].seq = m
      BY DEF Numbers
    <3>2. i \in 1 .. n + 1 /\ t[i] = s[i]
      BY <1>1
    <3> QED BY <1>1, <3>1, <3>2 DEF Numbers
  <2>3. f = p.flow => p.seq \in Numbers(t, f)
    <3>1. n + 1 \in 1 .. n + 1
      BY <1>1
    <3> QED BY <1>1, <3>1 DEF Numbers
  <2> QED BY <2>1, <2>2, <2>3
<1> QED BY <1>1, <1>4, <1>5 DEF t

(* What a filter takes away, for the flow that it is taken from.           *)
Gone(e, K, f) == {e[i].seq : i \in {j \in (1 .. Len(e)) \ K : e[j].flow = f}}

LEMMA FilterNumbers ==
  ASSUME NEW e \in Seq(AnyPacket), InOrder(e), NEW K \in SUBSET (1 .. Len(e))
  PROVE  /\ InOrder(Picked(e, K)) /\ Picked(e, K) \in Seq(AnyPacket)
         /\ \A i \in 1 .. Len(Picked(e, K)) :
              \E j \in K : Picked(e, K)[i] = e[j] /\ j = Nth(K, i)
         /\ \A f \in Flows : /\ Gone(e, K, f) \in SUBSET Numbers(e, f)
                             /\ Numbers(Picked(e, K), f) = Numbers(e, f) \ Gone(e, K, f)
<1> DEFINE s == Picked(e, K)
           n == Len(e)
           c == Cardinality(K)
<1>1. /\ s \in Seq(AnyPacket) /\ Len(s) = c /\ c \in Nat /\ n \in Nat
      /\ K \in SUBSET Nat /\ IsFiniteSet(K)
      /\ \A i \in 1 .. c : s[i] = e[Nth(K, i)] /\ Nth(K, i) \in K
  BY PickedShape
<1>2. /\ \A i, j \in 1 .. c : i < j => Nth(K, i) < Nth(K, j)
      /\ \A k \in K : \E i \in 1 .. c : Nth(K, i) = k
  BY <1>1, NthOrder
<1>3. \A i \in 1 .. n : \A j \in 1 .. i - 1 : e[j].flow = e[i].flow => e[j].seq < e[i].seq
  BY DEF InOrder
<1>4. \A i \in 1 .. n : e[i] \in AnyPacket
  OBVIOUS
<1> HIDE DEF s, c, n
<1>5. K \in SUBSET (1 .. n)
  BY DEF n
<1>6. InOrder(s)
  <2> SUFFICES ASSUME NEW i \in 1 .. c, NEW j \in 1 .. i - 1, s[j].flow = s[i].flow
               PROVE  s[j].seq < s[i].seq
    BY <1>1 DEF InOrder
  <2>1. j \in 1 .. c /\ j < i
    BY <1>1
  <2> DEFINE k == Nth(K, i)
             l == Nth(K, j)
  <2>2. k \in 1 .. n /\ l \in 1 .. n /\ l < k /\ s[i] = e[k] /\ s[j] = e[l]
    BY <1>1, <1>2, <1>5, <2>1
  <2> HIDE DEF k, l
  <2>3. l \in 1 .. k - 1
    BY <1>1, <2>2
  <2> QED BY <1>3, <2>2, <2>3
<1>7. ASSUME NEW f \in Flows
      PROVE  Gone(e, K, f) \in SUBSET Numbers(e, f)
  BY DEF Gone, Numbers, n
<1>8. ASSUME NEW f \in Flows, NEW m \in Numbers(s, f)
      PROVE  m \in Numbers(e, f) \ Gone(e, K, f)
  <2>1. PICK i \in 1 .. c : s[i].flow = f /\ s[i].seq = m
    BY <1>1 DEF Numbers
  <2> DEFINE k == Nth(K, i)
  <2>2. k \in K /\ e[k].flow = f /\ e[k].seq = m
    BY <1>1, <2>1
  <2> HIDE DEF k
  <2>3. m \in Numbers(e, f)
    BY <1>5, <2>2 DEF Numbers, n
  <2>4. ASSUME NEW l \in (1 .. n) \ K, e[l].flow = f  PROVE e[l].seq # m
    <3>1. k \in 1 .. n /\ k # l /\ e[k].seq \in Nat /\ e[l].seq \in Nat
      BY <1>4, <1>5, <2>2 DEF AnyPacket
    <3>2. k \in 1 .. l - 1 \/ l \in 1 .. k - 1
      BY <1>1, <3>1
    <3>3. e[k].seq < e[l].seq \/ e[l].seq < e[k].seq
      BY <1>3, <2>2, <2>4, <3>1, <3>2
    <3> QED BY <2>2, <3>1, <3>3
  <2> QED BY <2>3, <2>4 DEF Gone, n
<1>9. ASSUME NEW f \in Flows, NEW m \in Numbers(e, f), m \notin Gone(e, K, f)
      PROVE  m \in Numbers(s, f)
  <2>1. PICK k \in 1 .. n : e[k].flow = f /\ e[k].seq = m
    BY DEF Numbers, n
  <2>2. k \in K
    BY <1>9, <2>1 DEF Gone, n
  <2>3. PICK i \in 1 .. c : Nth(K, i) = k
    BY <1>2, <2>2
  <2>4. s[i] = e[k]
    BY <1>1, <2>3
  <2> QED BY <1>1, <2>1, <2>4 DEF Numbers
<1>10. \A f \in Flows : Numbers(s, f) = Numbers(e, f) \ Gone(e, K, f)
  BY <1>7, <1>8, <1>9
<1>11. \A i \in 1 .. Len(s) : \E j \in K : s[i] = e[j] /\ j = Nth(K, i)
  BY <1>1
<1> QED BY <1>1, <1>6, <1>7, <1>10, <1>11 DEF s

LEMMA PacketSeqs ==
  ASSUME NEW h, NEW s \in Seq(PacketsOf(h))
  PROVE  s \in Seq(AnyPacket)
<1>1. Len(s) \in Nat /\ s \in [1 .. Len(s) -> AnyPacket]
  BY DEF PacketsOf
<1> HIDE DEF AnyPacket
<1> QED BY <1>1

\* The packets in a pipe.
Pkts(s) == [i \in 1 .. Len(s) |-> s[i].pkt]

LEMMA PktsOfPipe ==
  ASSUME NEW S, \A x \in S : x.pkt \in AnyPacket, NEW s \in Seq(S)
  PROVE  /\ Pkts(s) \in Seq(AnyPacket) /\ Len(Pkts(s)) = Len(s)
         /\ \A i \in 1 .. Len(s) : Pkts(s)[i] = s[i].pkt
<1>1. Len(s) \in Nat /\ Pkts(s) \in [1 .. Len(s) -> AnyPacket]
  BY DEF Pkts
<1>2. \A n \in Nat : \A t \in [1 .. n -> AnyPacket] : t \in Seq(AnyPacket) /\ Len(t) = n
  <2> HIDE DEF AnyPacket
  <2> QED OBVIOUS
<1>3. Pkts(s) \in Seq(AnyPacket) /\ Len(Pkts(s)) = Len(s)
  BY <1>1, <1>2
<1> QED BY <1>3 DEF Pkts

LEMMA SamePkts ==
  ASSUME NEW s \in Seq(AnyPacket), NEW t \in Seq(AnyPacket), Len(s) = Len(t),
         \A i \in 1 .. Len(s) : s[i] = t[i]
  PROVE  s = t
BY SeqEqual

LEMMA PktsAppended ==
  ASSUME NEW S, \A x \in S : x.pkt \in AnyPacket, NEW s \in Seq(S), NEW x \in S
  PROVE  Pkts(Append(s, x)) = Append(Pkts(s), x.pkt)
<1> DEFINE t == Append(s, x)
           u == Append(Pkts(s), x.pkt)
           n == Len(s)
<1>1. /\ t \in Seq(S) /\ Len(t) = n + 1 /\ n \in Nat /\ t[n + 1] = x
      /\ \A i \in 1 .. n : t[i] = s[i]
  BY AppendProperties
<1>2. Pkts(s) \in Seq(AnyPacket) /\ Len(Pkts(s)) = n /\ \A i \in 1 .. n : Pkts(s)[i] = s[i].pkt
  BY PktsOfPipe
<1>3. /\ u \in Seq(AnyPacket) /\ Len(u) = n + 1 /\ u[n + 1] = x.pkt
      /\ \A i \in 1 .. n : u[i] = s[i].pkt
  <2> HIDE DEF n
  <2> QED BY <1>2, AppendProperties
<1> HIDE DEF t, u, n
<1>4. /\ Pkts(t) \in Seq(AnyPacket) /\ Len(Pkts(t)) = n + 1
      /\ \A i \in 1 .. n + 1 : Pkts(t)[i] = t[i].pkt
  BY <1>1, PktsOfPipe
<1>5. \A i \in 1 .. n + 1 : Pkts(t)[i] = u[i]
  <2> TAKE i \in 1 .. n + 1
  <2>1. CASE i = n + 1
    BY <1>1, <1>3, <1>4, <2>1
  <2>2. CASE i # n + 1
    <3>1. i \in 1 .. n
      BY <1>1, <2>2
    <3> QED BY <1>1, <1>3, <1>4, <3>1
  <2> QED BY <2>1, <2>2
<1> QED BY <1>3, <1>4, <1>5, SamePkts DEF t, u

LEMMA PktsTail ==
  ASSUME NEW S, \A x \in S : x.pkt \in AnyPacket, NEW s \in Seq(S), s # <<>>
  PROVE  /\ Pkts(s) # <<>> /\ Head(Pkts(s)) = Head(s).pkt /\ Pkts(Tail(s)) = Tail(Pkts(s))
<1> DEFINE t == Tail(s)
           p == Pkts(s)
           n == Len(s)
<1>1. /\ t \in Seq(S) /\ Len(t) = n - 1 /\ n \in Nat \ {0} /\ Head(s) = s[1]
      /\ \A i \in 1 .. n - 1 : t[i] = s[i + 1]
  BY HeadTailProperties, EmptySeq
<1>2. p \in Seq(AnyPacket) /\ Len(p) = n /\ \A i \in 1 .. n : p[i] = s[i].pkt
  BY PktsOfPipe
<1> HIDE DEF t, p, n
<1>3. p # <<>>
  BY <1>1, <1>2, EmptySeq
<1>4. /\ Tail(p) \in Seq(AnyPacket) /\ Len(Tail(p)) = n - 1 /\ Head(p) = p[1]
      /\ \A i \in 1 .. n - 1 : Tail(p)[i] = p[i + 1]
  BY <1>2, <1>3, HeadTailProperties
<1>5. Pkts(t) \in Seq(AnyPacket) /\ Len(Pkts(t)) = n - 1 /\ \A i \in 1 .. n - 1 : Pkts(t)[i] = t[i].pkt
  <2>1. Len(t) = n - 1 /\ t \in Seq(S)
    BY <1>1
  <2> QED BY <2>1, PktsOfPipe
<1>6. \A i \in 1 .. n - 1 : Pkts(t)[i] = Tail(p)[i]
  <2> TAKE i \in 1 .. n - 1
  <2>1. i + 1 \in 1 .. n
    BY <1>1
  <2> QED BY <1>1, <1>2, <1>4, <1>5, <2>1
<1>7. Pkts(t) = Tail(p)
  BY <1>4, <1>5, <1>6, SamePkts
<1>8. Head(p) = Head(s).pkt
  <2>1. 1 \in 1 .. n
    BY <1>1
  <2> QED BY <1>1, <1>2, <1>4, <2>1
<1> QED BY <1>3, <1>7, <1>8 DEF t, p

-----------------------------------------------------------------------------
\* The packets of a flow that wait in a host queue, and in its round robin.
InPull(pq, f) == IF f \in DOMAIN pq.map THEN Numbers(pq.map[f], f) ELSE {}
Waits(q, f) == InPull(q.queue[Prio[f]], f)
Served(q, f) == IF q.sending.flow = f THEN {q.sending.seq} ELSE {}

SortedPull(pq, c) ==
  \A f \in DOMAIN pq.map :
    /\ Prio[f] = c /\ InOrder(pq.map[f])
    /\ \A i \in 1 .. Len(pq.map[f]) : pq.map[f][i].flow = f

Sorted(q) == \A c \in Priorities : SortedPull(q.queue[c], c)

LEMMA OnePacket ==
  ASSUME NEW p \in AnyPacket
  PROVE  /\ <<p>> \in Seq(AnyPacket) /\ Len(<<p>>) = 1 /\ <<p>>[1] = p
         /\ InOrder(<<p>>) /\ Numbers(<<p>>, p.flow) = {p.seq}
<1>1. <<p>> \in Seq(AnyPacket) /\ Len(<<p>>) = 1 /\ <<p>>[1] = p
  <2> HIDE DEF AnyPacket
  <2> QED OBVIOUS
<1>2. InOrder(<<p>>)
  <2>1. \A i \in 1 .. 1 : 1 .. i - 1 = {}
    OBVIOUS
  <2> QED BY <1>1, <2>1 DEF InOrder
<1>3. Numbers(<<p>>, p.flow) = {p.seq}
  BY <1>1 DEF Numbers
<1> QED BY <1>1, <1>2, <1>3

LEMMA EnqueueInOrder ==
  ASSUME NEW h, NEW pq \in PullQueues(h), NEW c, SortedPull(pq, c),
         NEW p \in PacketsOf(h), Prio[p.flow] = c, \A m \in InPull(pq, p.flow) : m < p.seq
  PROVE  /\ SortedPull(Enqueue(pq, p), c)
         /\ \A f \in Flows :
              InPull(Enqueue(pq, p), f) =
                IF f = p.flow THEN InPull(pq, f) \cup {p.seq} ELSE InPull(pq, f)
<1> DEFINE g == p.flow
           m == Enqueue(pq, p).map
           s == pq.map[g]
<1>1. /\ pq = [map |-> pq.map, current |-> pq.current]
      /\ DOMAIN pq.map \in SUBSET Flows
      /\ pq.map \in [DOMAIN pq.map -> Seq(PacketsOf(h)) \ {<<>>}]
  BY PullParts
<1>2. p \in AnyPacket /\ g \in Flows
  BY DEF PacketsOf, AnyPacket
<1>3. m = [f \in DOMAIN pq.map \cup {g} |->
             IF f # g THEN pq.map[f]
             ELSE IF f \in DOMAIN pq.map THEN Append(pq.map[f], p) ELSE <<p>>]
  BY <1>1 DEF Enqueue
<1> HIDE DEF m, g
<1>4. DOMAIN m = DOMAIN pq.map \cup {g} /\ \A f \in DOMAIN pq.map : f # g => m[f] = pq.map[f]
  BY <1>3
<1>5. /\ InOrder(m[g]) /\ \A i \in 1 .. Len(m[g]) : m[g][i].flow = g
      /\ Numbers(m[g], g) = InPull(pq, g) \cup {p.seq}
  <2>1. CASE g \in DOMAIN pq.map
    <3>1. m[g] = Append(s, p)
      BY <1>3, <2>1
    <3>2. s \in Seq(AnyPacket)
      <4>1. s \in Seq(PacketsOf(h))
        BY <1>1, <2>1
      <4> QED BY <4>1, PacketSeqs
    <3>3. InOrder(s) /\ \A i \in 1 .. Len(s) : s[i].flow = g
      BY <2>1 DEF SortedPull
    <3>4. InPull(pq, g) = Numbers(s, g)
      BY <2>1 DEF InPull
    <3> HIDE DEF s
    <3>5. InOrder(Append(s, p)) /\ Numbers(Append(s, p), g) = Numbers(s, g) \cup {p.seq}
      BY <1>2, <3>2, <3>3, <3>4, AppendNumbers DEF g
    <3>6. \A i \in 1 .. Len(Append(s, p)) : Append(s, p)[i].flow = g
      <4> TAKE i \in 1 .. Len(Append(s, p))
      <4>1. Len(Append(s, p)) = Len(s) + 1 /\ Len(s) \in Nat /\ Append(s, p)[Len(s) + 1] = p
            /\ \A j \in 1 .. Len(s) : Append(s, p)[j] = s[j]
        BY <1>2, <3>2, AppendProperties
      <4>2. i \in 1 .. Len(s) \/ i = Len(s) + 1
        BY <4>1
      <4> QED BY <3>3, <4>1, <4>2 DEF g
    <3> QED BY <3>1, <3>4, <3>5, <3>6
  <2>2. CASE g \notin DOMAIN pq.map
    <3>1. m[g] = <<p>> /\ InPull(pq, g) = {}
      BY <1>3, <2>2 DEF InPull
    <3>2. /\ Len(<<p>>) = 1 /\ <<p>>[1] = p
          /\ InOrder(<<p>>) /\ Numbers(<<p>>, g) = {p.seq}
      BY <1>2, OnePacket DEF g
    <3>3. \A i \in 1 .. Len(<<p>>) : <<p>>[i].flow = g
      BY <3>2 DEF g
    <3> QED BY <3>1, <3>2, <3>3
  <2> QED BY <2>1, <2>2
<1>6. SortedPull(Enqueue(pq, p), c)
  <2> SUFFICES ASSUME NEW f \in DOMAIN m
               PROVE  /\ Prio[f] = c /\ InOrder(m[f])
                      /\ \A i \in 1 .. Len(m[f]) : m[f][i].flow = f
    BY DEF SortedPull, m
  <2>1. CASE f = g
    BY <1>5, <2>1 DEF g
  <2>2. CASE f # g
    BY <1>4, <2>2 DEF SortedPull
  <2> QED BY <2>1, <2>2
<1>7. ASSUME NEW f \in Flows
      PROVE  InPull(Enqueue(pq, p), f) =
               IF f = g THEN InPull(pq, f) \cup {p.seq} ELSE InPull(pq, f)
  <2>1. InPull(Enqueue(pq, p), f) = IF f \in DOMAIN m THEN Numbers(m[f], f) ELSE {}
    BY DEF InPull, m
  <2>2. CASE f = g
    BY <1>4, <1>5, <2>1, <2>2
  <2>3. CASE f # g
    BY <1>4, <2>1, <2>3 DEF InPull
  <2> QED BY <2>2, <2>3
<1> QED BY <1>6, <1>7 DEF g

LEMMA DequeueInOrder ==
  ASSUME NEW h, NEW pq \in PullQueues(h), NEW c, SortedPull(pq, c), DOMAIN pq.map # {}
  PROVE  /\ SortedPull(Dequeue(pq), c)
         /\ NextOut(pq) \in PacketsOf(h) /\ Prio[NextOut(pq).flow] = c
         /\ \A f \in Flows :
              IF f = NextOut(pq).flow
              THEN /\ InPull(pq, f) = InPull(Dequeue(pq), f) \cup {NextOut(pq).seq}
                   /\ \A m \in InPull(Dequeue(pq), f) : NextOut(pq).seq < m
              ELSE InPull(pq, f) = InPull(Dequeue(pq), f)
<1> DEFINE g == Turn(pq)
           s == pq.map[g]
           p == NextOut(pq)
           m == Dequeue(pq).map
<1>1. /\ DOMAIN pq.map \in SUBSET Flows
      /\ pq.map \in [DOMAIN pq.map -> Seq(PacketsOf(h)) \ {<<>>}]
  BY PullParts
<1>2. g \in DOMAIN pq.map
  BY TurnShape
<1>3. p = Head(s) /\ p \in PacketsOf(h)
  BY NextOutIsPacket DEF NextOut
<1>4. m = [f \in IF Tail(s) = <<>> THEN DOMAIN pq.map \ {g} ELSE DOMAIN pq.map |->
             IF f = g THEN Tail(s) ELSE pq.map[f]]
  BY DEF Dequeue
<1>5. s \in Seq(AnyPacket) /\ s # <<>>
  <2>1. s \in Seq(PacketsOf(h)) /\ s # <<>>
    BY <1>1, <1>2
  <2> QED BY <2>1, PacketSeqs
<1>6. Prio[g] = c /\ InOrder(s) /\ \A i \in 1 .. Len(s) : s[i].flow = g
  BY <1>2 DEF SortedPull
<1>7. InPull(pq, g) = Numbers(s, g)
  BY <1>2 DEF InPull
<1> HIDE DEF g, s, p, m
<1>8. /\ Len(Tail(s)) = Len(s) - 1 /\ Len(s) \in Nat \ {0} /\ Head(s) = s[1]
      /\ \A i \in 1 .. Len(s) - 1 : Tail(s)[i] = s[i + 1]
  BY <1>5, HeadTailProperties, EmptySeq
<1>9. p.flow = g
  <2>1. 1 \in 1 .. Len(s)
    BY <1>8
  <2> QED BY <1>3, <1>6, <1>8, <2>1
<1>10. /\ InOrder(Tail(s))
       /\ Numbers(s, g) = Numbers(Tail(s), g) \cup {p.seq}
       /\ \A n \in Numbers(Tail(s), g) : p.seq < n
  <2>1. g \in Flows
    BY <1>1, <1>2
  <2> QED BY <1>3, <1>5, <1>6, <1>9, <2>1, HeadNumbers
<1>11. \A i \in 1 .. Len(Tail(s)) : Tail(s)[i].flow = g
  <2> TAKE i \in 1 .. Len(Tail(s))
  <2>1. i \in 1 .. Len(s) - 1 /\ i + 1 \in 1 .. Len(s)
    BY <1>8
  <2> QED BY <1>6, <1>8, <2>1
<1>12. Tail(s) = <<>> => Numbers(Tail(s), g) = {}
  <2>1. Len(<<>>) = 0 /\ 1 .. 0 = {}
    OBVIOUS
  <2> QED BY <2>1 DEF Numbers
<1>13. SortedPull(Dequeue(pq), c)
  <2> SUFFICES ASSUME NEW f \in DOMAIN m
               PROVE  /\ Prio[f] = c /\ InOrder(m[f])
                      /\ \A i \in 1 .. Len(m[f]) : m[f][i].flow = f
    BY DEF SortedPull, m
  <2>1. CASE f = g
    BY <1>4, <1>6, <1>10, <1>11, <2>1
  <2>2. CASE f # g
    <3>1. f \in DOMAIN pq.map /\ m[f] = pq.map[f]
      BY <1>4, <2>2
    <3> QED BY <3>1 DEF SortedPull
  <2> QED BY <2>1, <2>2
<1>14. \A f \in Flows : InPull(Dequeue(pq), f) = IF f \in DOMAIN m THEN Numbers(m[f], f) ELSE {}
  BY DEF InPull, m
<1>15. InPull(Dequeue(pq), g) = Numbers(Tail(s), g)
  <2>1. g \in Flows
    BY <1>1, <1>2
  <2>2. CASE Tail(s) = <<>>
    <3>1. g \notin DOMAIN m
      BY <1>4, <2>2
    <3> QED BY <1>12, <1>14, <2>1, <2>2, <3>1
  <2>3. CASE Tail(s) # <<>>
    <3>1. g \in DOMAIN m /\ m[g] = Tail(s)
      BY <1>2, <1>4, <2>3
    <3> QED BY <1>14, <2>1, <3>1
  <2> QED BY <2>2, <2>3
<1>16. ASSUME NEW f \in Flows, f # g  PROVE InPull(pq, f) = InPull(Dequeue(pq), f)
  <2>1. f \in DOMAIN m <=> f \in DOMAIN pq.map
    BY <1>4, <1>16
  <2>2. f \in DOMAIN m => m[f] = pq.map[f]
    BY <1>4, <1>16
  <2> QED BY <1>14, <2>1, <2>2 DEF InPull
<1> QED BY <1>3, <1>6, <1>7, <1>9, <1>10, <1>13, <1>15, <1>16 DEF p

\* What a method does to the packets of the flows: of each, the first that
\* waits may be taken into service.
HostMoves(q, r) ==
  /\ Sorted(r)
  /\ \A f \in Flows :
       \/ Served(r, f) = Served(q, f) /\ Waits(r, f) = Waits(q, f)
       \/ \E n \in Nat : /\ Served(r, f) = Served(q, f) \cup {n}
                         /\ Waits(q, f) = Waits(r, f) \cup {n}
                         /\ \A m \in Waits(r, f) : n < m

LEMMA HostStays ==
  ASSUME NEW q, Sorted(q), NEW r, r.queue = q.queue, r.sending = q.sending
  PROVE  /\ HostMoves(q, r)
         /\ \A f \in Flows : Served(r, f) = Served(q, f) /\ Waits(r, f) = Waits(q, f)
BY DEF HostMoves, Sorted, Served, Waits

LEMMA NoneServed ==
  ASSUME NEW q, q.sending = None
  PROVE  \A f \in Flows : Served(q, f) = {}
BY NetAssumption DEF Served, None

LEMMA HostBeginMoves ==
  ASSUME NEW h, NEW q \in HostQueues(h), SizesCount(q), Sorted(q), q.sending = None
  PROVE  HostMoves(q, HostBegin(q))
<1> DEFINE r == HostBegin(q)
           c == IF q.size[Q_HI] > 0 THEN Q_HI ELSE Q_LO
           pq == q.queue[c]
           p == NextOut(pq)
           rest == Dequeue(pq)
<1>1. CASE QueueSize(q) = 0
  <2>1. r = q
    BY <1>1 DEF HostBegin
  <2> QED BY <2>1, HostStays
<1>2. CASE QueueSize(q) # 0
  <2>1. r.queue = [q.queue EXCEPT ![c] = rest] /\ r.sending = p
    BY <1>2, HostBeginFields
  <2>2. /\ c \in Priorities /\ pq \in PullQueues(h) /\ DOMAIN pq.map # {}
        /\ q.queue = [b \in Priorities |-> q.queue[b]]
    BY <1>2, BeginHasPacket
  <2> HIDE DEF r, c
  <2>3. SortedPull(pq, c)
    BY <2>2 DEF Sorted
  <2> HIDE DEF pq
  <2>4. /\ SortedPull(rest, c) /\ p \in PacketsOf(h) /\ Prio[p.flow] = c
        /\ \A f \in Flows :
             IF f = p.flow
             THEN /\ InPull(pq, f) = InPull(rest, f) \cup {p.seq}
                  /\ \A m \in InPull(rest, f) : p.seq < m
             ELSE InPull(pq, f) = InPull(rest, f)
    BY <2>2, <2>3, DequeueInOrder
  <2>5. p.flow \in Flows /\ p.seq \in Nat
    BY <2>4 DEF PacketsOf, AnyPacket
  <2> HIDE DEF p, rest
  <2>6. \A b \in Priorities : r.queue[b] = IF b = c THEN rest ELSE q.queue[b]
    BY <2>1, <2>2
  <2>7. Sorted(r)
    BY <2>4, <2>6 DEF Sorted
  <2>8. ASSUME NEW f \in Flows
        PROVE  \/ Served(r, f) = Served(q, f) /\ Waits(r, f) = Waits(q, f)
               \/ \E n \in Nat : /\ Served(r, f) = Served(q, f) \cup {n}
                                 /\ Waits(q, f) = Waits(r, f) \cup {n}
                                 /\ \A m \in Waits(r, f) : n < m
    <3>1. Served(q, f) = {}
      BY NoneServed
    <3>2. Served(r, f) = IF p.flow = f THEN {p.seq} ELSE {}
      BY <2>1 DEF Served
    <3>3. Prio[f] \in Priorities
      BY NetAssumption
    <3>4. CASE f = p.flow
      <4>1. Waits(r, f) = InPull(rest, f) /\ Waits(q, f) = InPull(pq, f)
        BY <2>2, <2>4, <2>6, <3>4 DEF Waits, pq
      <4> QED BY <2>4, <2>5, <3>1, <3>2, <3>4, <4>1
    <3>5. CASE f # p.flow
      <4>1. Served(r, f) = Served(q, f)
        BY <3>1, <3>2, <3>5
      <4>2. CASE Prio[f] = c
        <5>1. Waits(r, f) = InPull(rest, f) /\ Waits(q, f) = InPull(pq, f)
          BY <2>2, <2>6, <4>2 DEF Waits, pq
        <5> QED BY <2>4, <3>5, <4>1, <5>1
      <4>3. CASE Prio[f] # c
        <5>1. Waits(r, f) = Waits(q, f)
          BY <2>6, <3>3, <4>3 DEF Waits
        <5> QED BY <4>1, <5>1
      <4> QED BY <4>2, <4>3
    <3> QED BY <3>4, <3>5
  <2> QED BY <2>7, <2>8 DEF HostMoves, r
<1> QED BY <1>1, <1>2

LEMMA HostReceiveMoves ==
  ASSUME NEW h, NEW q \in HostQueues(h), Serving(q), Sorted(q),
         NEW p \in PacketsOf(h), NEW c \in Priorities, Prio[p.flow] = c,
         \A m \in Waits(q, p.flow) : m < p.seq
  PROVE  \E more :
           /\ \A f \in Flows :
                /\ Served(more, f) = Served(q, f)
                /\ Waits(more, f) = IF f = p.flow THEN Waits(q, f) \cup {p.seq} ELSE Waits(q, f)
           /\ HostMoves(more, HostReceive(q, p, c))
<1>1. PICK more \in HostQueues(h) :
        /\ QueueSize(q) = 0 /\ q.state = READY => HostReceive(q, p, c) = HostBegin(more)
        /\ ~(QueueSize(q) = 0 /\ q.state = READY) => HostReceive(q, p, c) = more
        /\ SizesCount(more)
        /\ more.queue[c] = Enqueue(q.queue[c], p) /\ more.size[c] = q.size[c] + 1
        /\ \A b \in Priorities :
             b # c => more.queue[b] = q.queue[b] /\ more.size[b] = q.size[b]
        /\ more.sending = q.sending /\ more.servicing = q.servicing
        /\ more.state = q.state /\ more.events = q.events
  BY HostTakes
<1> DEFINE pq == q.queue[c]
<1>2. pq \in PullQueues(h) /\ SortedPull(pq, c)
  BY DEF HostQueues, Sorted
<1>3. \A m \in InPull(pq, p.flow) : m < p.seq
  BY DEF Waits
<1> HIDE DEF pq
<1>4. /\ SortedPull(Enqueue(pq, p), c)
      /\ \A f \in Flows :
           InPull(Enqueue(pq, p), f) =
             IF f = p.flow THEN InPull(pq, f) \cup {p.seq} ELSE InPull(pq, f)
  BY <1>2, <1>3, EnqueueInOrder
<1>5. Sorted(more)
  BY <1>1, <1>4 DEF Sorted, pq
<1>6. ASSUME NEW f \in Flows
      PROVE  /\ Served(more, f) = Served(q, f)
             /\ Waits(more, f) = IF f = p.flow THEN Waits(q, f) \cup {p.seq} ELSE Waits(q, f)
  <2>1. Served(more, f) = Served(q, f)
    BY <1>1 DEF Served
  <2>2. Prio[f] \in Priorities
    BY NetAssumption
  <2>3. CASE Prio[f] = c
    <3>1. Waits(more, f) = InPull(Enqueue(pq, p), f) /\ Waits(q, f) = InPull(pq, f)
      BY <1>1, <2>3 DEF Waits, pq
    <3> QED BY <1>4, <2>1, <3>1
  <2>4. CASE Prio[f] # c
    <3>1. Waits(more, f) = Waits(q, f) /\ f # p.flow
      BY <1>1, <2>2, <2>4 DEF Waits
    <3> QED BY <2>1, <3>1
  <2> QED BY <2>3, <2>4
<1>7. HostMoves(more, HostReceive(q, p, c))
  <2>1. CASE QueueSize(q) = 0 /\ q.state = READY
    <3>1. q.sending = None
      BY <2>1, SizesAre DEF Serving
    <3>2. HostMoves(more, HostBegin(more))
      BY <1>1, <1>5, <3>1, HostBeginMoves
    <3> QED BY <1>1, <2>1, <3>2
  <2>2. CASE ~(QueueSize(q) = 0 /\ q.state = READY)
    <3>1. HostMoves(more, more)
      BY <1>5, HostStays
    <3> QED BY <1>1, <2>2, <3>1
  <2> QED BY <2>1, <2>2
<1> QED BY <1>6, <1>7

LEMMA HostCompleteMoves ==
  ASSUME NEW h, NEW q \in HostQueues(h), SizesCount(q), q.events = <<>>, q.sending # None,
         q.servicing \in Priorities, q.state # PAUSED, Sorted(q)
  PROVE  \E held :
           /\ \A f \in Flows : Served(held, f) = {} /\ Waits(held, f) = Waits(q, f)
           /\ HostMoves(held, HostComplete(q))
<1>1. PICK held \in HostQueues(h) :
        /\ HostComplete(q) = IF QueueSize(held) > 0 /\ held.state = READY
                             THEN HostBegin(held)
                             ELSE [held EXCEPT !.servicing = Q_NONE]
        /\ SizesCount(held) /\ held.queue = q.queue /\ held.sending = None
        /\ held.servicing = q.servicing /\ held.events = <<>>
        /\ held.state = IF q.state = PAUSE_RECEIVED THEN PAUSED ELSE q.state
  BY PacketServed
<1>2. \A f \in Flows : Served(held, f) = {} /\ Waits(held, f) = Waits(q, f)
  BY <1>1, NoneServed DEF Waits
<1>3. Sorted(held)
  BY <1>1 DEF Sorted
<1>4. HostMoves(held, HostBegin(held))
  BY <1>1, <1>3, HostBeginMoves
<1>5. HostMoves(held, [held EXCEPT !.servicing = Q_NONE])
  <2> DEFINE r == [held EXCEPT !.servicing = Q_NONE]
  <2>1. r.queue = held.queue /\ r.sending = held.sending
    BY DEF HostQueues
  <2> HIDE DEF r
  <2>2. HostMoves(held, r)
    BY <1>3, <2>1, HostStays
  <2> QED BY <2>2 DEF r
<1> QED BY <1>1, <1>2, <1>4, <1>5

LEMMA HostPauseMoves ==
  ASSUME NEW h, NEW q \in HostQueues(h), Sorted(q)
  PROVE  HostMoves(q, HostPause(q))
<1> DEFINE r == HostPause(q)
<1>1. r.queue = q.queue /\ r.sending = q.sending
  BY DEF HostPause, HostQueues
<1> HIDE DEF r
<1>2. HostMoves(q, r)
  BY <1>1, HostStays
<1> QED BY <1>2 DEF r

LEMMA HostResumeMoves ==
  ASSUME NEW h, NEW q \in HostQueues(h), Serving(q), Sorted(q), q.state = PAUSED
  PROVE  HostMoves(q, HostResume(q))
<1> DEFINE go == [q EXCEPT !.state = READY]
<1>1. /\ go.queue = q.queue /\ go.size = q.size /\ go.sending = q.sending
      /\ go.servicing = q.servicing /\ go \in HostQueues(h) /\ q.sending = None
  BY DEF HostQueues, States, Serving
<1>2. HostResume(q) = IF QueueSize(go) > 0 THEN HostBegin(go) ELSE go
  BY DEF HostResume
<1> HIDE DEF go
<1>3. SizesCount(go)
  BY <1>1, SameSizes DEF Serving
<1>4. /\ HostMoves(q, go)
      /\ \A f \in Flows : Served(go, f) = Served(q, f) /\ Waits(go, f) = Waits(q, f)
  BY <1>1, HostStays
<1>5. HostMoves(go, HostBegin(go))
  <2>1. Sorted(go)
    BY <1>4 DEF HostMoves
  <2> QED BY <1>1, <1>3, <2>1, HostBeginMoves
<1>6. HostMoves(q, HostBegin(go))
  BY <1>4, <1>5 DEF HostMoves
<1> QED BY <1>2, <1>4, <1>6

-----------------------------------------------------------------------------
\* Where the packets of a flow are: arrived, in its output, in the switch, on
\* the link, in service and waiting.
WayOf(f, a, s, x, w, q) ==
  <<1 .. a, Numbers(s, f), Numbers(x, f), Numbers(w, f), Served(q, f), Waits(q, f)>>

Way(f) ==
  WayOf(f, arrived[f], out[Dest[f]].enqueued, Pkts(fabric), Pkts(wire[Source[f]]), nic[Source[f]])

LeavesBy(s, o) == \A i \in 1 .. Len(s) : Dest[s[i].flow] = o

ChannelInv ==
  /\ ServiceInv
  /\ arrived = [f \in Flows |-> arrived[f]] /\ \A f \in Flows : arrived[f] \in Nat
  /\ \A o \in Outputs : InOrder(out[o].enqueued) /\ LeavesBy(out[o].enqueued, o)
  /\ InOrder(Pkts(fabric))
  /\ \A h \in Hosts : InOrder(Pkts(wire[h])) /\ Sorted(nic[h])
  /\ \A f \in Flows : InLine(Way(f), sent[f], lost[f])

LEMMA Ways ==
  ASSUME NEW f, NEW a, NEW s, NEW x, NEW w, NEW q
  PROVE  /\ WayOf(f, a, s, x, w, q)[1] = 1 .. a
         /\ WayOf(f, a, s, x, w, q)[2] = Numbers(s, f)
         /\ WayOf(f, a, s, x, w, q)[3] = Numbers(x, f)
         /\ WayOf(f, a, s, x, w, q)[4] = Numbers(w, f)
         /\ WayOf(f, a, s, x, w, q)[5] = Served(q, f)
         /\ WayOf(f, a, s, x, w, q)[6] = Waits(q, f)
BY DEF WayOf

LEMMA StagesAre ==
  /\ \A k \in Stages : k = 1 \/ k = 2 \/ k = 3 \/ k = 4 \/ k = 5 \/ k = 6
  /\ 1 \in Stages /\ 2 \in Stages /\ 3 \in Stages /\ 4 \in Stages /\ 5 \in Stages /\ 6 \in Stages
BY DEF Stages

LEMMA Behind ==
  ASSUME NEW N, NEW L, NEW v, InLine(v, N, L), NEW k \in 1 .. 5, NEW n \in v[k + 1], NEW m \in v[k]
  PROVE  m < n
<1>1. k + 1 \in Stages /\ k \in 1 .. (k + 1) - 1
  BY DEF Stages
<1> QED BY <1>1 DEF InLine

LEMMA HostMovesOn ==
  ASSUME NEW q, NEW r, HostMoves(q, r), NEW f \in Flows, NEW a, NEW s, NEW x, NEW w,
         NEW N \in Nat, NEW L, InLine(WayOf(f, a, s, x, w, q), N, L)
  PROVE  InLine(WayOf(f, a, s, x, w, r), N, L)
<1> DEFINE v == WayOf(f, a, s, x, w, q)
           u == WayOf(f, a, s, x, w, r)
<1>1. /\ v[1] = u[1] /\ v[2] = u[2] /\ v[3] = u[3] /\ v[4] = u[4]
      /\ v[5] = Served(q, f) /\ v[6] = Waits(q, f)
      /\ u[5] = Served(r, f) /\ u[6] = Waits(r, f)
  BY Ways
<1> HIDE DEF v, u
<1>2. \/ Served(r, f) = Served(q, f) /\ Waits(r, f) = Waits(q, f)
      \/ \E n \in Nat : /\ Served(r, f) = Served(q, f) \cup {n}
                        /\ Waits(q, f) = Waits(r, f) \cup {n}
                        /\ \A m \in Waits(r, f) : n < m
  BY DEF HostMoves
<1>3. MovesOn(v, u)
  <2>1. CASE Served(r, f) = Served(q, f) /\ Waits(r, f) = Waits(q, f)
    <3>1. \A j \in Stages : u[j] = v[j]
      BY <1>1, <2>1, StagesAre
    <3> QED BY <3>1 DEF MovesOn
  <2>2. ASSUME NEW n \in Nat, Served(r, f) = Served(q, f) \cup {n},
               Waits(q, f) = Waits(r, f) \cup {n}, \A m \in Waits(r, f) : n < m
        PROVE  MovesOn(v, u)
    <3>1. v[6] = u[6] \cup {n} /\ u[5] = v[5] \cup {n} /\ \A m \in u[6] : n < m
      BY <1>1, <2>2
    <3>2. \A j \in Stages : j # 5 /\ j # 6 => u[j] = v[j]
      BY <1>1, StagesAre
    <3>3. Onward(v, u, 5, n)
      BY <3>1, <3>2, 5 + 1 = 6 DEF Onward
    <3> QED BY <3>3 DEF MovesOn
  <2> QED BY <1>2, <2>1, <2>2
<1>4. InLine(u, N, L)
  BY <1>3, StaysInLine DEF v
<1> QED BY <1>4 DEF u

(* A step that moves no packet.                                            *)
LEMMA SameWay ==
  ASSUME ChannelInv, ServiceInv', arrived' = arrived, sent' = sent, lost' = lost,
         \A o \in Outputs : out'[o].enqueued = out[o].enqueued,
         Pkts(fabric') = Pkts(fabric),
         \A h \in Hosts : Pkts(wire'[h]) = Pkts(wire[h]),
         \A h \in Hosts : nic'[h].queue = nic[h].queue /\ nic'[h].sending = nic[h].sending
  PROVE  ChannelInv'
<1>1. (\A o \in Outputs : InOrder(out[o].enqueued) /\ LeavesBy(out[o].enqueued, o))'
  BY DEF ChannelInv
<1>2. (\A h \in Hosts : InOrder(Pkts(wire[h])) /\ Sorted(nic[h]))'
  BY DEF ChannelInv, Sorted
<1>3. (\A f \in Flows : InLine(Way(f), sent[f], lost[f]))'
  <2> SUFFICES ASSUME NEW f \in Flows  PROVE InLine(Way(f)', sent'[f], lost'[f])
    OBVIOUS
  <2>1. Source[f] \in Hosts /\ Dest[f] \in Outputs
    BY NetAssumption
  <2>2. Served(nic'[Source[f]], f) = Served(nic[Source[f]], f)
        /\ Waits(nic'[Source[f]], f) = Waits(nic[Source[f]], f)
    BY <2>1 DEF Served, Waits
  <2>3. Way(f)' = Way(f)
    BY <2>1, <2>2 DEF Way, WayOf
  <2> QED BY <2>3 DEF ChannelInv
<1>4. (arrived = [f \in Flows |-> arrived[f]] /\ \A f \in Flows : arrived[f] \in Nat)'
  BY DEF ChannelInv
<1>5. InOrder(Pkts(fabric))'
  BY DEF ChannelInv
<1> QED BY <1>1, <1>2, <1>3, <1>4, <1>5 DEF ChannelInv

LEMMA WhereFlows ==
  ASSUME NEW f \in Flows
  PROVE  Source[f] \in Hosts /\ Dest[f] \in Outputs
BY NetAssumption

LEMMA PipesHoldPackets ==
  /\ \A x \in InPipe : x.pkt \in AnyPacket
  /\ \A h : \A x \in OnWire(h) : x.pkt \in AnyPacket
BY DEF InPipe, OnWire, PacketsOf

LEMMA WhatMoves ==
  ASSUME ChannelInv
  PROVE  /\ IInv /\ ServiceInv /\ fabric \in Seq(InPipe) /\ Pkts(fabric) \in Seq(AnyPacket)
         /\ \A h \in Hosts : wire[h] \in Seq(OnWire(h)) /\ Pkts(wire[h]) \in Seq(AnyPacket)
         /\ \A o \in Outputs : out[o] \in OutQueues /\ out[o].enqueued \in Seq(AnyPacket)
         /\ \A f \in Flows : sent[f] \in Nat
<1>1. /\ IInv /\ ServiceInv /\ fabric \in Seq(InPipe)
      /\ \A h \in Hosts : wire[h] \in Seq(OnWire(h))
      /\ \A o \in Outputs : out[o] \in OutQueues
      /\ \A f \in Flows : sent[f] \in Nat
  BY DEF ChannelInv, ServiceInv, IInv, WireShape, FabricShape, OutShape, HostInv, SentShape
<1>2. Pkts(fabric) \in Seq(AnyPacket)
  BY <1>1, PipesHoldPackets, PktsOfPipe
<1>3. \A h \in Hosts : Pkts(wire[h]) \in Seq(AnyPacket)
  BY <1>1, PipesHoldPackets, PktsOfPipe
<1>4. \A o \in Outputs : out[o].enqueued \in Seq(AnyPacket)
  BY <1>1 DEF OutQueues, OutRecords
<1> QED BY <1>1, <1>2, <1>3, <1>4

(* The link hands a packet to the switch.                                  *)
LEMMA WireEventInLine ==
  ASSUME ChannelInv, ServiceInv', NEW h \in Hosts, WireEvent(h)
  PROVE  ChannelInv'
<1> DEFINE w == Pkts(wire[h])
           x == Pkts(fabric)
           p == Head(wire[h]).pkt
           y == [pkt |-> p, input |-> h, left |-> SwitchTime]
<1>1. /\ wire[h] # <<>> /\ wire' = [wire EXCEPT ![h] = Tail(wire[h])]
      /\ fabric' = Append(fabric, y)
      /\ out' = out /\ sent' = sent /\ arrived' = arrived /\ lost' = lost
  BY DEF WireEvent
<1>2. /\ wire[h] \in Seq(OnWire(h)) /\ w \in Seq(AnyPacket) /\ x \in Seq(AnyPacket)
      /\ fabric \in Seq(InPipe)
  BY WhatMoves
<1>3. w # <<>> /\ Head(w) = p /\ Pkts(Tail(wire[h])) = Tail(w)
  BY <1>1, <1>2, PipesHoldPackets, PktsTail
<1>4. p \in PacketsOf(h) /\ p \in AnyPacket /\ Source[p.flow] = h /\ p.flow \in Flows /\ p.seq \in Nat
  <2>1. Head(wire[h]) \in OnWire(h)
    BY <1>1, <1>2, HeadTailProperties
  <2> QED BY <2>1 DEF OnWire, PacketsOf, AnyPacket
<1>5. Pkts(fabric') = Append(x, p)
  <2>1. y \in InPipe /\ y.pkt = p
    <3>1. SwitchTime \in Int
      BY NetAssumption
    <3> HIDE DEF p
    <3> QED BY <1>4, <3>1 DEF InPipe
  <2> HIDE DEF y
  <2>2. Pkts(Append(fabric, y)) = Append(x, y.pkt)
    BY <1>2, <2>1, PipesHoldPackets, PktsAppended
  <2> QED BY <1>1, <2>1, <2>2
<1> HIDE DEF p, y, x, w
<1>6. /\ InOrder(x) /\ InOrder(w) /\ \A f \in Flows : InLine(Way(f), sent[f], lost[f]) /\ sent[f] \in Nat
  BY WhatMoves DEF ChannelInv, x, w
<1>7. /\ InOrder(Tail(w))
      /\ \A f \in Flows :
           IF f = p.flow
           THEN /\ Numbers(w, f) = Numbers(Tail(w), f) \cup {p.seq}
                /\ \A m \in Numbers(Tail(w), f) : p.seq < m
           ELSE Numbers(w, f) = Numbers(Tail(w), f)
  BY <1>2, <1>3, <1>6, HeadNumbers
<1>8. ASSUME NEW f \in Flows
      PROVE  /\ Way(f)[1] = 1 .. arrived[f] /\ Way(f)[2] = Numbers(out[Dest[f]].enqueued, f)
             /\ Way(f)[3] = Numbers(x, f) /\ Way(f)[4] = Numbers(Pkts(wire[Source[f]]), f)
             /\ Way(f)[5] = Served(nic[Source[f]], f) /\ Way(f)[6] = Waits(nic[Source[f]], f)
  BY Ways DEF Way, x
<1>9. \A m \in Numbers(x, p.flow) : m < p.seq
  <2> TAKE m \in Numbers(x, p.flow)
  <2>1. p.seq \in Way(p.flow)[3 + 1] /\ m \in Way(p.flow)[3]
    BY <1>4, <1>7, <1>8 DEF w
  <2> QED BY <1>4, <1>6, <2>1, Behind
<1>10. /\ InOrder(Append(x, p))
       /\ \A f \in Flows :
            Numbers(Append(x, p), f) = IF f = p.flow THEN Numbers(x, f) \cup {p.seq} ELSE Numbers(x, f)
  BY <1>2, <1>4, <1>6, <1>9, AppendNumbers
<1>11. \A g \in Hosts : wire'[g] = IF g = h THEN Tail(wire[h]) ELSE wire[g]
  BY <1>1, UpdatedAt DEF ChannelInv, ServiceInv, IInv, WireShape
<1>12. \A g \in Hosts : Pkts(wire'[g]) = IF g = h THEN Tail(w) ELSE Pkts(wire[g])
  BY <1>3, <1>11
<1>13. \A g \in Hosts : nic'[g].queue = nic[g].queue /\ nic'[g].sending = nic[g].sending
  <2> DEFINE r == HostPause(nic[h])
  <2>1. r.queue = nic[h].queue /\ r.sending = nic[h].sending
    <3>1. nic[h] \in HostQueues(h)
      BY WhatMoves, HostShapes
    <3> QED BY <3>1 DEF HostPause, HostQueues
  <2>2. nic' = IF SendsPause(inp[h]) THEN [nic EXCEPT ![h] = r] ELSE nic
    BY DEF WireEvent
  <2> HIDE DEF r
  <2>3. SendsPause(inp[h]) => \A g \in Hosts : nic'[g] = IF g = h THEN r ELSE nic[g]
    BY <2>2, UpdatedAt, WhatMoves DEF IInv, HostInv, NicShape
  <2> QED BY <2>1, <2>2, <2>3
<1>14. (\A f \in Flows : InLine(Way(f), sent[f], lost[f]))'
  <2> SUFFICES ASSUME NEW f \in Flows  PROVE InLine(Way(f)', sent[f], lost[f])
    BY <1>1
  <2> DEFINE v == Way(f)
             u == Way(f)'
  <2>1. Source[f] \in Hosts /\ Dest[f] \in Outputs
    BY WhereFlows
  <2>2. /\ u[1] = 1 .. arrived[f] /\ u[2] = Numbers(out[Dest[f]].enqueued, f)
        /\ u[3] = Numbers(Append(x, p), f) /\ u[4] = Numbers(Pkts(wire'[Source[f]]), f)
        /\ u[5] = Served(nic'[Source[f]], f) /\ u[6] = Waits(nic'[Source[f]], f)
    <3>1. u = WayOf(f, arrived[f], out[Dest[f]].enqueued, Append(x, p), Pkts(wire'[Source[f]]),
                    nic'[Source[f]])
      BY <1>1, <1>5 DEF Way
    <3> HIDE DEF u
    <3> QED BY <3>1, Ways
  <2>3. /\ v[1] = 1 .. arrived[f] /\ v[2] = Numbers(out[Dest[f]].enqueued, f)
        /\ v[3] = Numbers(x, f) /\ v[4] = Numbers(Pkts(wire[Source[f]]), f)
        /\ v[5] = Served(nic[Source[f]], f) /\ v[6] = Waits(nic[Source[f]], f)
    BY <1>8
  <2> HIDE DEF v, u
  <2>4. u[1] = v[1] /\ u[2] = v[2] /\ u[5] = v[5] /\ u[6] = v[6]
    BY <1>13, <2>1, <2>2, <2>3 DEF Served, Waits
  <2>5. CASE f = p.flow
    <3>1. /\ v[4] = u[4] \cup {p.seq} /\ \A m \in u[4] : p.seq < m
          /\ u[3] = v[3] \cup {p.seq}
      BY <1>4, <1>7, <1>10, <1>12, <2>1, <2>2, <2>3, <2>5 DEF w
    <3>2. \A j \in Stages : j # 3 /\ j # 4 => u[j] = v[j]
      BY <2>4, StagesAre
    <3>3. Onward(v, u, 3, p.seq)
      BY <3>1, <3>2, 3 + 1 = 4 DEF Onward
    <3>4. InLine(v, sent[f], lost[f]) /\ sent[f] \in Nat
      BY <1>6 DEF v
    <3>5. InLine(u, sent[f], lost[f])
      BY <3>3, <3>4, 3 \in 1 .. 5, OnwardInLine
    <3> QED BY <3>5 DEF u
  <2>6. CASE f # p.flow
    <3>1. u[3] = v[3]
      BY <1>10, <2>2, <2>3, <2>6
    <3>2. u[4] = v[4]
      BY <1>7, <1>12, <2>1, <2>2, <2>3, <2>6 DEF w
    <3>3. \A j \in Stages : u[j] = v[j]
      BY <2>4, <3>1, <3>2, StagesAre
    <3>4. InLine(u, sent[f], lost[f])
      BY <1>6, <3>3, StaysInLine DEF MovesOn, v
    <3> QED BY <3>4 DEF u
  <2> QED BY <2>5, <2>6
<1>15. (\A o \in Outputs : InOrder(out[o].enqueued) /\ LeavesBy(out[o].enqueued, o))'
  BY <1>1 DEF ChannelInv
<1>16. (\A g \in Hosts : InOrder(Pkts(wire[g])) /\ Sorted(nic[g]))'
  BY <1>7, <1>12, <1>13 DEF ChannelInv, Sorted
<1>17. (arrived = [f \in Flows |-> arrived[f]] /\ \A f \in Flows : arrived[f] \in Nat)'
  BY <1>1 DEF ChannelInv
<1>18. InOrder(Pkts(fabric))'
  BY <1>5, <1>10
<1> QED BY <1>14, <1>15, <1>16, <1>17, <1>18 DEF ChannelInv

(* The switch hands a packet to its output.                                *)
LEMMA FabricEventInLine ==
  ASSUME ChannelInv, ServiceInv', FabricEvent
  PROVE  ChannelInv'
<1> DEFINE x == Pkts(fabric)
           p == Head(fabric).pkt
           o == Dest[p.flow]
           s == out[o].enqueued
           r == OutReceive(out[o], p, Head(fabric).input, transport.budget[p.flow])
<1>1. /\ fabric # <<>> /\ fabric' = Tail(fabric)
      /\ out' = [out EXCEPT ![o] = r]
      /\ nic' = nic /\ wire' = wire /\ sent' = sent /\ arrived' = arrived /\ lost' = lost
  BY DEF FabricEvent
<1>2. /\ x \in Seq(AnyPacket) /\ fabric \in Seq(InPipe)
      /\ \A a \in Outputs : out[a] \in OutQueues /\ out[a].enqueued \in Seq(AnyPacket)
  BY WhatMoves
<1>3. x # <<>> /\ Head(x) = p /\ Pkts(fabric') = Tail(x)
  BY <1>1, <1>2, PipesHoldPackets, PktsTail
<1>4. /\ p \in AnyPacket /\ p.flow \in Flows /\ p.seq \in Nat /\ o \in Outputs
      /\ Head(fabric).input \in Hosts /\ transport.budget[p.flow] \in Nat
  <2>1. Head(fabric) \in InPipe
    BY <1>1, <1>2, HeadTailProperties
  <2>2. p \in AnyPacket /\ Head(fabric).input \in Hosts
    BY <2>1 DEF InPipe
  <2> HIDE DEF p
  <2>3. p.flow \in Flows /\ p.seq \in Nat
    BY <2>2 DEF AnyPacket
  <2>4. transport.budget[p.flow] \in Nat
    BY <2>3, WhatMoves DEF IInv, TransportShape
  <2> QED BY <2>2, <2>3, <2>4, WhereFlows
<1>5. r.enqueued = Append(s, p)
  <2> HIDE DEF p
  <2> QED BY <1>2, <1>4, OutReceiveShape
<1>6. \A a \in Outputs : out'[a] = IF a = o THEN r ELSE out[a]
  <2> HIDE DEF r
  <2> QED BY <1>1, UpdatedAt, WhatMoves DEF IInv, OutShape
<1> HIDE DEF p, x, o, s, r
<1>7. /\ InOrder(x) /\ InOrder(s) /\ \A f \in Flows : InLine(Way(f), sent[f], lost[f]) /\ sent[f] \in Nat
  BY <1>4, WhatMoves DEF ChannelInv, x, s
<1>8. s \in Seq(AnyPacket)
  BY <1>2, <1>4 DEF s
<1>9. /\ InOrder(Tail(x))
      /\ \A f \in Flows :
           IF f = p.flow
           THEN /\ Numbers(x, f) = Numbers(Tail(x), f) \cup {p.seq}
                /\ \A m \in Numbers(Tail(x), f) : p.seq < m
           ELSE Numbers(x, f) = Numbers(Tail(x), f)
  BY <1>2, <1>3, <1>7, HeadNumbers
<1>10. ASSUME NEW f \in Flows
       PROVE  /\ Way(f)[1] = 1 .. arrived[f] /\ Way(f)[2] = Numbers(out[Dest[f]].enqueued, f)
              /\ Way(f)[3] = Numbers(x, f) /\ Way(f)[4] = Numbers(Pkts(wire[Source[f]]), f)
              /\ Way(f)[5] = Served(nic[Source[f]], f) /\ Way(f)[6] = Waits(nic[Source[f]], f)
  BY Ways DEF Way, x
<1>11. \A m \in Numbers(s, p.flow) : m < p.seq
  <2> TAKE m \in Numbers(s, p.flow)
  <2>1. p.seq \in Way(p.flow)[2 + 1] /\ m \in Way(p.flow)[2]
    BY <1>4, <1>9, <1>10 DEF s, o
  <2> QED BY <1>4, <1>7, <2>1, Behind
<1>12. /\ InOrder(Append(s, p))
       /\ \A f \in Flows :
            Numbers(Append(s, p), f) = IF f = p.flow THEN Numbers(s, f) \cup {p.seq} ELSE Numbers(s, f)
  BY <1>4, <1>7, <1>8, <1>11, AppendNumbers
<1>13. \A a \in Outputs : out'[a].enqueued = IF a = o THEN Append(s, p) ELSE out[a].enqueued
  BY <1>5, <1>6
<1>14. (\A f \in Flows : InLine(Way(f), sent[f], lost[f]))'
  <2> SUFFICES ASSUME NEW f \in Flows  PROVE InLine(Way(f)', sent[f], lost[f])
    BY <1>1
  <2> DEFINE v == Way(f)
             u == Way(f)'
  <2>1. Source[f] \in Hosts /\ Dest[f] \in Outputs
    BY WhereFlows
  <2>2. /\ u[1] = 1 .. arrived[f] /\ u[2] = Numbers(out'[Dest[f]].enqueued, f)
        /\ u[3] = Numbers(Tail(x), f) /\ u[4] = Numbers(Pkts(wire[Source[f]]), f)
        /\ u[5] = Served(nic[Source[f]], f) /\ u[6] = Waits(nic[Source[f]], f)
    <3>1. u = WayOf(f, arrived[f], out'[Dest[f]].enqueued, Tail(x), Pkts(wire[Source[f]]),
                    nic[Source[f]])
      BY <1>1, <1>3 DEF Way
    <3> HIDE DEF u
    <3> QED BY <3>1, Ways
  <2>3. /\ v[1] = 1 .. arrived[f] /\ v[2] = Numbers(out[Dest[f]].enqueued, f)
        /\ v[3] = Numbers(x, f) /\ v[4] = Numbers(Pkts(wire[Source[f]]), f)
        /\ v[5] = Served(nic[Source[f]], f) /\ v[6] = Waits(nic[Source[f]], f)
    BY <1>10
  <2> HIDE DEF v, u
  <2>4. u[1] = v[1] /\ u[4] = v[4] /\ u[5] = v[5] /\ u[6] = v[6]
    BY <2>2, <2>3
  <2>5. CASE f = p.flow
    <3>1. /\ v[3] = u[3] \cup {p.seq} /\ \A m \in u[3] : p.seq < m
          /\ u[2] = v[2] \cup {p.seq}
      BY <1>4, <1>9, <1>12, <1>13, <2>1, <2>2, <2>3, <2>5 DEF s, o
    <3>2. \A j \in Stages : j # 2 /\ j # 3 => u[j] = v[j]
      BY <2>4, StagesAre
    <3>3. Onward(v, u, 2, p.seq)
      BY <3>1, <3>2, 2 + 1 = 3 DEF Onward
    <3>4. InLine(v, sent[f], lost[f]) /\ sent[f] \in Nat
      BY <1>7 DEF v
    <3>5. InLine(u, sent[f], lost[f])
      BY <3>3, <3>4, 2 \in 1 .. 5, OnwardInLine
    <3> QED BY <3>5 DEF u
  <2>6. CASE f # p.flow
    <3>1. u[2] = v[2]
      BY <1>12, <1>13, <2>1, <2>2, <2>3, <2>6 DEF s
    <3>2. u[3] = v[3]
      BY <1>9, <2>2, <2>3, <2>6
    <3>3. \A j \in Stages : u[j] = v[j]
      BY <2>4, <3>1, <3>2, StagesAre
    <3>4. InLine(u, sent[f], lost[f])
      BY <1>7, <3>3, StaysInLine DEF MovesOn, v
    <3> QED BY <3>4 DEF u
  <2> QED BY <2>5, <2>6
<1>15. (\A a \in Outputs : InOrder(out[a].enqueued) /\ LeavesBy(out[a].enqueued, a))'
  <2> SUFFICES ASSUME NEW a \in Outputs
               PROVE  InOrder(out'[a].enqueued) /\ LeavesBy(out'[a].enqueued, a)
    OBVIOUS
  <2>1. InOrder(out[a].enqueued) /\ LeavesBy(out[a].enqueued, a)
    BY DEF ChannelInv
  <2>2. CASE a # o
    BY <1>13, <2>1, <2>2
  <2>3. CASE a = o
    <3>1. LeavesBy(Append(s, p), o)
      <4>1. Len(Append(s, p)) = Len(s) + 1 /\ Len(s) \in Nat /\ Append(s, p)[Len(s) + 1] = p
            /\ \A j \in 1 .. Len(s) : Append(s, p)[j] = s[j]
        BY <1>4, <1>8, AppendProperties
      <4>2. \A i \in 1 .. Len(s) + 1 : i \in 1 .. Len(s) \/ i = Len(s) + 1
        BY <4>1
      <4>3. \A i \in 1 .. Len(s) : Dest[s[i].flow] = o
        BY <2>1, <2>3 DEF LeavesBy, s
      <4> QED BY <4>1, <4>2, <4>3 DEF LeavesBy, o
    <3> QED BY <1>12, <1>13, <2>3, <3>1
  <2> QED BY <2>2, <2>3
<1>16. (\A g \in Hosts : InOrder(Pkts(wire[g])) /\ Sorted(nic[g]))'
  BY <1>1 DEF ChannelInv
<1>17. (arrived = [f \in Flows |-> arrived[f]] /\ \A f \in Flows : arrived[f] \in Nat)'
  BY <1>1 DEF ChannelInv
<1>18. InOrder(Pkts(fabric))'
  BY <1>3, <1>9
<1> QED BY <1>14, <1>15, <1>16, <1>17, <1>18 DEF ChannelInv

(* A host queue ends a service and may begin another.                      *)
LEMMA HostEventInLine ==
  ASSUME ChannelInv, ServiceInv', NEW h \in Hosts, HostEvent(h)
  PROVE  ChannelInv'
<1> DEFINE q == nic[h]
           p == q.sending
           w == Pkts(wire[h])
           y == [pkt |-> p, left |-> WireTime]
<1>1. UNCHANGED <<inp, fabric, out, pauses, sent, arrived, lost>>
  BY DEF HostEvent
<1>2. /\ wire[h] \in Seq(OnWire(h)) /\ w \in Seq(AnyPacket) /\ ServiceInv /\ IInv
  BY WhatMoves
<1>3. /\ p \in PacketsOf(h) /\ p # None /\ q.state # PAUSED
      /\ \E r \in HostQueues(h) :
           /\ SizesCount(r) /\ r.queue = q.queue /\ r.sending = p
           /\ r.servicing \in Priorities /\ r.state = q.state /\ r.events = <<>>
           /\ nic' = [nic EXCEPT ![h] = HostComplete(r)]
  BY <1>2, EndOfService
<1>4. wire' = [wire EXCEPT ![h] = Append(wire[h], y)]
  BY <1>2, ServiceEnds
<1> HIDE DEF q
<1>5. PICK r \in HostQueues(h) :
        /\ SizesCount(r) /\ r.queue = q.queue /\ r.sending = p
        /\ r.servicing \in Priorities /\ r.state = q.state /\ r.events = <<>>
        /\ nic' = [nic EXCEPT ![h] = HostComplete(r)]
  BY <1>3
<1>6. p \in AnyPacket /\ Source[p.flow] = h /\ p.flow \in Flows /\ p.seq \in Nat
  BY <1>3 DEF PacketsOf, AnyPacket
<1>7. Pkts(Append(wire[h], y)) = Append(w, p)
  <2>1. y \in OnWire(h) /\ y.pkt = p
    <3>1. WireTime \in Int
      BY NetAssumption
    <3> HIDE DEF p
    <3> QED BY <1>3, <3>1 DEF OnWire
  <2> HIDE DEF y
  <2>2. Pkts(Append(wire[h], y)) = Append(w, y.pkt)
    BY <1>2, <2>1, PipesHoldPackets, PktsAppended
  <2> QED BY <2>1, <2>2
<1> HIDE DEF p, y, w
<1>8. \A g \in Hosts : Pkts(wire'[g]) = IF g = h THEN Append(w, p) ELSE Pkts(wire[g])
  <2>1. \A g \in Hosts : wire'[g] = IF g = h THEN Append(wire[h], y) ELSE wire[g]
    BY <1>2, <1>4, UpdatedAt DEF IInv, WireShape
  <2> QED BY <1>7, <2>1
<1>9. Sorted(q) /\ Sorted(r)
  <2>1. Sorted(q)
    BY DEF ChannelInv, q
  <2> QED BY <1>5, <2>1 DEF Sorted
<1>10. PICK held :
         /\ \A f \in Flows : Served(held, f) = {} /\ Waits(held, f) = Waits(r, f)
         /\ HostMoves(held, HostComplete(r))
  BY <1>3, <1>5, <1>9, HostCompleteMoves
<1> DEFINE t == HostComplete(r)
<1>11. \A g \in Hosts : nic'[g] = IF g = h THEN t ELSE nic[g]
  <2> HIDE DEF t
  <2>1. nic' = [nic EXCEPT ![h] = t]
    BY <1>5 DEF t
  <2> QED BY <1>2, <2>1, UpdatedAt DEF IInv, HostInv, NicShape
<1> HIDE DEF t
<1>12. HostMoves(held, t)
  BY <1>10 DEF t
<1>13. \A f \in Flows : /\ Served(q, f) = IF f = p.flow THEN {p.seq} ELSE {}
                        /\ Waits(held, f) = Waits(q, f) /\ Served(held, f) = {}
  <2>1. \A f \in Flows : Waits(r, f) = Waits(q, f)
    BY <1>5 DEF Waits
  <2>2. \A f \in Flows : Served(q, f) = IF f = p.flow THEN {p.seq} ELSE {}
    BY DEF Served, p
  <2> QED BY <1>10, <2>1, <2>2
<1>14. InOrder(w) /\ \A f \in Flows : InLine(Way(f), sent[f], lost[f]) /\ sent[f] \in Nat
  BY WhatMoves DEF ChannelInv, w
<1>15. ASSUME NEW f \in Flows
       PROVE  /\ Way(f)[1] = 1 .. arrived[f] /\ Way(f)[2] = Numbers(out[Dest[f]].enqueued, f)
              /\ Way(f)[3] = Numbers(Pkts(fabric), f) /\ Way(f)[4] = Numbers(Pkts(wire[Source[f]]), f)
              /\ Way(f)[5] = Served(nic[Source[f]], f) /\ Way(f)[6] = Waits(nic[Source[f]], f)
  BY Ways DEF Way
<1>16. \A m \in Numbers(w, p.flow) : m < p.seq
  <2> TAKE m \in Numbers(w, p.flow)
  <2>1. p.seq \in Way(p.flow)[4 + 1] /\ m \in Way(p.flow)[4]
    BY <1>6, <1>13, <1>15 DEF w, q
  <2> QED BY <1>6, <1>14, <2>1, Behind
<1>17. /\ InOrder(Append(w, p))
       /\ \A f \in Flows :
            Numbers(Append(w, p), f) = IF f = p.flow THEN Numbers(w, f) \cup {p.seq} ELSE Numbers(w, f)
  BY <1>2, <1>6, <1>14, <1>16, AppendNumbers
<1>18. ASSUME NEW f \in Flows, Source[f] = h
       PROVE  InLine(WayOf(f, arrived[f], out[Dest[f]].enqueued, Pkts(fabric), Append(w, p), held),
                     sent[f], lost[f])
  <2> DEFINE v == Way(f)
             u == WayOf(f, arrived[f], out[Dest[f]].enqueued, Pkts(fabric), Append(w, p), held)
  <2>1. /\ u[1] = 1 .. arrived[f] /\ u[2] = Numbers(out[Dest[f]].enqueued, f)
        /\ u[3] = Numbers(Pkts(fabric), f) /\ u[4] = Numbers(Append(w, p), f)
        /\ u[5] = Served(held, f) /\ u[6] = Waits(held, f)
    BY Ways
  <2>2. /\ v[1] = 1 .. arrived[f] /\ v[2] = Numbers(out[Dest[f]].enqueued, f)
        /\ v[3] = Numbers(Pkts(fabric), f) /\ v[4] = Numbers(w, f)
        /\ v[5] = Served(q, f) /\ v[6] = Waits(q, f)
    BY <1>15, <1>18 DEF w, q
  <2> HIDE DEF v, u
  <2>3. u[1] = v[1] /\ u[2] = v[2] /\ u[3] = v[3] /\ u[6] = v[6]
    BY <1>13, <2>1, <2>2
  <2>4. CASE f = p.flow
    <3>1. /\ v[5] = u[5] \cup {p.seq} /\ \A m \in u[5] : p.seq < m
          /\ u[4] = v[4] \cup {p.seq}
      BY <1>13, <1>17, <2>1, <2>2, <2>4
    <3>2. \A j \in Stages : j # 4 /\ j # 5 => u[j] = v[j]
      BY <2>3, StagesAre
    <3>3. Onward(v, u, 4, p.seq)
      BY <3>1, <3>2, 4 + 1 = 5 DEF Onward
    <3>4. InLine(v, sent[f], lost[f]) /\ sent[f] \in Nat
      BY <1>14 DEF v
    <3>5. InLine(u, sent[f], lost[f])
      BY <3>3, <3>4, 4 \in 1 .. 5, OnwardInLine
    <3> QED BY <3>5 DEF u
  <2>5. CASE f # p.flow
    <3>1. u[4] = v[4] /\ u[5] = v[5]
      BY <1>13, <1>17, <2>1, <2>2, <2>5
    <3>2. \A j \in Stages : u[j] = v[j]
      BY <2>3, <3>1, StagesAre
    <3>3. InLine(u, sent[f], lost[f])
      BY <1>14, <3>2, StaysInLine DEF MovesOn, v
    <3> QED BY <3>3 DEF u
  <2> QED BY <2>4, <2>5
<1>19. (\A f \in Flows : InLine(Way(f), sent[f], lost[f]))'
  <2> SUFFICES ASSUME NEW f \in Flows  PROVE InLine(Way(f)', sent[f], lost[f])
    BY <1>1
  <2>1. Source[f] \in Hosts /\ sent[f] \in Nat
    BY <1>14, WhereFlows
  <2>2. Way(f)' = WayOf(f, arrived[f], out[Dest[f]].enqueued, Pkts(fabric),
                        Pkts(wire'[Source[f]]), nic'[Source[f]])
    BY <1>1 DEF Way
  <2>3. CASE Source[f] = h
    <3>1. InLine(WayOf(f, arrived[f], out[Dest[f]].enqueued, Pkts(fabric), Append(w, p), t),
                 sent[f], lost[f])
      BY <1>12, <1>18, <2>1, <2>3, HostMovesOn
    <3> QED BY <1>8, <1>11, <2>2, <2>3, <3>1
  <2>4. CASE Source[f] # h
    <3>1. Way(f)' = Way(f)
      BY <1>8, <1>11, <2>1, <2>2, <2>4 DEF Way
    <3> QED BY <1>14, <3>1
  <2> QED BY <2>3, <2>4
<1>20. (\A g \in Hosts : InOrder(Pkts(wire[g])) /\ Sorted(nic[g]))'
  BY <1>8, <1>11, <1>12, <1>17 DEF ChannelInv, HostMoves
<1>21. (\A o \in Outputs : InOrder(out[o].enqueued) /\ LeavesBy(out[o].enqueued, o))'
  BY <1>1 DEF ChannelInv
<1>22. (arrived = [f \in Flows |-> arrived[f]] /\ \A f \in Flows : arrived[f] \in Nat)'
  BY <1>1 DEF ChannelInv
<1>23. InOrder(Pkts(fabric))'
  BY <1>1 DEF ChannelInv
<1> QED BY <1>19, <1>20, <1>21, <1>22, <1>23 DEF ChannelInv

(* A new packet joins those of its flow, and may be taken into service.    *)
LEMMA SendInLine ==
  ASSUME ChannelInv, ServiceInv', NEW f \in Flows, Send(f)
  PROVE  ChannelInv'
<1> DEFINE h == Source[f]
           q == nic[h]
           p == [flow |-> f, seq |-> sent[f] + 1]
           t == HostReceive(q, p, Prio[f])
<1>1. /\ UNCHANGED <<wire, inp, fabric, out, pauses, arrived, lost>>
      /\ sent' = [sent EXCEPT ![f] = sent[f] + 1] /\ nic' = [nic EXCEPT ![h] = t]
  BY DEF Send
<1>2. h \in Hosts /\ Prio[f] \in Priorities
  BY NetAssumption
<1>3. /\ q \in HostQueues(h) /\ Serving(q) /\ Sorted(q)
      /\ \A g \in Flows : InLine(Way(g), sent[g], lost[g]) /\ sent[g] \in Nat
  BY <1>2, WhatMoves, HostShapes DEF ChannelInv, ServiceInv
<1>4. p \in PacketsOf(h) /\ p.flow = f /\ p.seq = sent[f] + 1
  BY <1>3 DEF PacketsOf, AnyPacket
<1> HIDE DEF p, q, t, h
<1>5. ASSUME NEW g \in Flows
      PROVE  /\ Way(g)[1] = 1 .. arrived[g] /\ Way(g)[2] = Numbers(out[Dest[g]].enqueued, g)
             /\ Way(g)[3] = Numbers(Pkts(fabric), g) /\ Way(g)[4] = Numbers(Pkts(wire[Source[g]]), g)
             /\ Way(g)[5] = Served(nic[Source[g]], g) /\ Way(g)[6] = Waits(nic[Source[g]], g)
  BY Ways DEF Way
<1>6. \A m \in Waits(q, f) : m < p.seq
  <2> TAKE m \in Waits(q, f)
  <2>1. m \in Way(f)[6]
    BY <1>5 DEF q, h
  <2>2. Way(f)[6] \in SUBSET (1 .. sent[f])
    BY <1>3, StagesAre DEF InLine
  <2>3. m \in 1 .. sent[f]
    BY <2>1, <2>2
  <2> QED BY <1>3, <1>4, <2>3
<1>7. PICK more :
        /\ \A g \in Flows :
             /\ Served(more, g) = Served(q, g)
             /\ Waits(more, g) = IF g = p.flow THEN Waits(q, g) \cup {p.seq} ELSE Waits(q, g)
        /\ HostMoves(more, HostReceive(q, p, Prio[f]))
  BY <1>2, <1>3, <1>4, <1>6, HostReceiveMoves
<1>8. HostMoves(more, t)
  BY <1>7 DEF t
<1>9. \A g \in Hosts : nic'[g] = IF g = h THEN t ELSE nic[g]
  BY <1>1, UpdatedAt, WhatMoves DEF IInv, HostInv, NicShape
<1>10. \A g \in Flows : sent'[g] = IF g = f THEN sent[f] + 1 ELSE sent[g]
  <2>1. sent \in [Flows -> Nat]
    BY WhatMoves DEF IInv, HostInv, SentShape
  <2> QED BY <1>1, <2>1
<1>11. ASSUME NEW g \in Flows, Source[g] = h
       PROVE  InLine(WayOf(g, arrived[g], out[Dest[g]].enqueued, Pkts(fabric), Pkts(wire[h]), more),
                     sent'[g], lost[g])
  <2> DEFINE v == Way(g)
             u == WayOf(g, arrived[g], out[Dest[g]].enqueued, Pkts(fabric), Pkts(wire[h]), more)
  <2>1. /\ u[1] = 1 .. arrived[g] /\ u[2] = Numbers(out[Dest[g]].enqueued, g)
        /\ u[3] = Numbers(Pkts(fabric), g) /\ u[4] = Numbers(Pkts(wire[h]), g)
        /\ u[5] = Served(more, g) /\ u[6] = Waits(more, g)
    BY Ways
  <2>2. /\ v[1] = 1 .. arrived[g] /\ v[2] = Numbers(out[Dest[g]].enqueued, g)
        /\ v[3] = Numbers(Pkts(fabric), g) /\ v[4] = Numbers(Pkts(wire[h]), g)
        /\ v[5] = Served(q, g) /\ v[6] = Waits(q, g)
    BY <1>5, <1>11 DEF q
  <2>3. InLine(v, sent[g], lost[g]) /\ sent[g] \in Nat
    BY <1>3
  <2> HIDE DEF v, u
  <2>4. u[1] = v[1] /\ u[2] = v[2] /\ u[3] = v[3] /\ u[4] = v[4] /\ u[5] = v[5]
    BY <1>7, <2>1, <2>2
  <2>5. CASE g = f
    <3>1. u[6] = v[6] \cup {sent[f] + 1}
      BY <1>4, <1>7, <2>1, <2>2, <2>5
    <3>2. \A k \in 1 .. 5 : u[k] = v[k]
      BY <2>4
    <3>3. InLine(u, sent[f] + 1, lost[f])
      BY <2>3, <2>5, <3>1, <3>2, JoinsLine
    <3> QED BY <1>10, <2>5, <3>3 DEF u
  <2>6. CASE g # f
    <3>1. u[6] = v[6]
      BY <1>4, <1>7, <2>1, <2>2, <2>6
    <3>2. \A j \in Stages : u[j] = v[j]
      BY <2>4, <3>1, StagesAre
    <3>3. InLine(u, sent[g], lost[g])
      BY <2>3, <3>2, StaysInLine DEF MovesOn
    <3> QED BY <1>10, <2>6, <3>3 DEF u
  <2> QED BY <2>5, <2>6
<1>12. (\A g \in Flows : InLine(Way(g), sent[g], lost[g]))'
  <2> SUFFICES ASSUME NEW g \in Flows  PROVE InLine(Way(g)', sent'[g], lost[g])
    BY <1>1
  <2>1. Source[g] \in Hosts /\ sent'[g] \in Nat
    <3>1. Source[g] \in Hosts
      BY WhereFlows
    <3> QED BY <1>3, <1>10, <3>1
  <2>2. Way(g)' = WayOf(g, arrived[g], out[Dest[g]].enqueued, Pkts(fabric),
                        Pkts(wire[Source[g]]), nic'[Source[g]])
    BY <1>1 DEF Way
  <2>3. CASE Source[g] = h
    <3>1. InLine(WayOf(g, arrived[g], out[Dest[g]].enqueued, Pkts(fabric), Pkts(wire[h]), t),
                 sent'[g], lost[g])
      BY <1>8, <1>11, <2>1, <2>3, HostMovesOn
    <3> QED BY <1>9, <2>1, <2>2, <2>3, <3>1
  <2>4. CASE Source[g] # h
    <3>1. Way(g)' = Way(g) /\ g # f
      BY <1>9, <2>1, <2>2, <2>4 DEF Way, h
    <3> QED BY <1>3, <1>10, <3>1
  <2> QED BY <2>3, <2>4
<1>13. (\A g \in Hosts : InOrder(Pkts(wire[g])) /\ Sorted(nic[g]))'
  BY <1>1, <1>8, <1>9 DEF ChannelInv, HostMoves
<1>14. (\A o \in Outputs : InOrder(out[o].enqueued) /\ LeavesBy(out[o].enqueued, o))'
  BY <1>1 DEF ChannelInv
<1>15. (arrived = [g \in Flows |-> arrived[g]] /\ \A g \in Flows : arrived[g] \in Nat)'
  BY <1>1 DEF ChannelInv
<1>16. InOrder(Pkts(fabric))'
  BY <1>1 DEF ChannelInv
<1> QED BY <1>12, <1>13, <1>14, <1>15, <1>16 DEF ChannelInv

LEMMA TickInLine ==
  ASSUME ChannelInv, ServiceInv', Tick
  PROVE  ChannelInv'
<1>1. /\ nic' = [h \in Hosts |->
                   [nic[h] EXCEPT !.events = [i \in DOMAIN @ |-> @[i] - 1]]]
      /\ wire' = [h \in Hosts |-> Sooner(wire[h])] /\ fabric' = Sooner(fabric)
      /\ out' = [o \in Outputs |-> Stayed(out[o])]
      /\ sent' = sent /\ arrived' = arrived /\ lost' = lost
  BY DEF Tick
<1>2. ASSUME NEW S, \A x \in S : x.pkt \in AnyPacket /\ [x EXCEPT !.left = @ - 1].pkt = x.pkt,
             NEW s \in Seq(S)
      PROVE  Pkts(Sooner(s)) = Pkts(s)
  <2>1. DOMAIN s = 1 .. Len(s) /\ Len(s) \in Nat /\ \A i \in 1 .. Len(s) : s[i] \in S
    OBVIOUS
  <2>2. Sooner(s) = [i \in 1 .. Len(s) |-> [s[i] EXCEPT !.left = @ - 1]]
    BY <2>1 DEF Sooner
  <2>3. Len(Sooner(s)) = Len(s)
    <3> DEFINE n == Len(s)
    <3>1. n \in Nat /\ Sooner(s) = [i \in 1 .. n |-> [s[i] EXCEPT !.left = @ - 1]]
      BY <2>1, <2>2
    <3> HIDE DEF n
    <3>2. Len(Sooner(s)) = n
      BY <3>1
    <3> QED BY <3>2 DEF n
  <2>4. \A i \in 1 .. Len(s) : Sooner(s)[i].pkt = s[i].pkt
    BY <1>2, <2>1, <2>2
  <2> QED BY <2>3, <2>4 DEF Pkts
<1>3. Pkts(fabric') = Pkts(fabric)
  <2>1. \A x \in InPipe : x.pkt \in AnyPacket /\ [x EXCEPT !.left = @ - 1].pkt = x.pkt
    BY DEF InPipe
  <2>2. fabric \in Seq(InPipe)
    BY WhatMoves
  <2> QED BY <1>1, <1>2, <2>1, <2>2
<1>4. \A h \in Hosts : Pkts(wire'[h]) = Pkts(wire[h])
  <2> TAKE h \in Hosts
  <2>1. \A x \in OnWire(h) : x.pkt \in AnyPacket /\ [x EXCEPT !.left = @ - 1].pkt = x.pkt
    BY DEF OnWire, PacketsOf
  <2>2. wire[h] \in Seq(OnWire(h)) /\ wire'[h] = Sooner(wire[h])
    BY <1>1, WhatMoves
  <2> QED BY <1>2, <2>1, <2>2
<1>5. \A o \in Outputs : out'[o].enqueued = out[o].enqueued
  <2> TAKE o \in Outputs
  <2>1. out[o] \in OutQueues
    BY WhatMoves
  <2>2. out'[o] = Stayed(out[o])
    BY <1>1
  <2> QED BY <2>1, <2>2, StayedShape
<1>6. \A h \in Hosts : nic'[h].queue = nic[h].queue /\ nic'[h].sending = nic[h].sending
  <2> TAKE h \in Hosts
  <2>1. nic[h] \in HostQueues(h)
    BY WhatMoves, HostShapes
  <2>2. nic'[h] = [nic[h] EXCEPT !.events = [i \in DOMAIN @ |-> @[i] - 1]]
    BY <1>1
  <2> QED BY <2>1, <2>2 DEF HostQueues
<1> QED BY <1>1, <1>3, <1>4, <1>5, <1>6, SameWay

LEMMA BehindInLine ==
  ASSUME ChannelInv, ServiceInv', NEW o \in Outputs, PausedFromBehind(o) \/ ResumedFromBehind(o)
  PROVE  ChannelInv'
<1>1. out[o] \in OutQueues /\ IInv
  BY WhatMoves
<1>2. PICK r \in OutQueues : r.enqueued = out[o].enqueued /\ out' = [out EXCEPT ![o] = r]
  BY <1>1, OutMethodsShape DEF PausedFromBehind, ResumedFromBehind
<1>3. UNCHANGED <<nic, wire, inp, fabric, sent, arrived, lost>>
  BY DEF PausedFromBehind, ResumedFromBehind
<1>4. \A a \in Outputs : out'[a] = IF a = o THEN r ELSE out[a]
  BY <1>1, <1>2, UpdatedAt DEF IInv, OutShape
<1>5. \A a \in Outputs : out'[a].enqueued = out[a].enqueued
  BY <1>2, <1>4
<1> QED BY <1>3, <1>5, SameWay

(* Without exempt flows, packets without a budget have no time to spare.   *)
Starved(q, D) ==
  \A i \in 1 .. Len(q.enqueued) : q.enqueued[i].flow \in D => q.spare[i] = 0

StarvedInv == \A o \in Outputs : Starved(out[o], Doomed)

LEMMA OutMethodsStarve ==
  ASSUME NEW D, NEW q \in OutQueues, Starved(q, D)
  PROVE  Starved(OutPause(q), D) /\ Starved(OutResume(q), D)
<1>1. ASSUME NEW t \in OutRecords, t.enqueued = q.enqueued, t.spare = q.spare
      PROVE  Starved(t, D)
  BY <1>1 DEF Starved
<1>2. ASSUME NEW t \in OutRecords
      PROVE  /\ OutBegin(t) \in OutRecords /\ OutBegin(t).enqueued = t.enqueued
             /\ OutBegin(t).spare = t.spare
  <2>1. OutTime \in Int
    BY LosslessAssumption
  <2> QED BY <2>1 DEF OutBegin, OutRecords
<1>3. q \in OutRecords
  BY DEF OutQueues
<1>4. Starved(OutPause(q), D)
  <2>1. /\ OutPause(q) \in OutRecords /\ OutPause(q).enqueued = q.enqueued
        /\ OutPause(q).spare = q.spare
    BY <1>3 DEF OutPause, OutRecords, States
  <2> QED BY <1>1, <2>1
<1>5. Starved(OutResume(q), D)
  <2> DEFINE go == [q EXCEPT !.state = READY]
  <2>1. go \in OutRecords /\ go.enqueued = q.enqueued /\ go.spare = q.spare
    BY <1>3 DEF OutRecords, States
  <2>2. OutResume(q) \in {go, OutBegin(go)}
    BY DEF OutResume
  <2> HIDE DEF go
  <2>3. Starved(go, D) /\ Starved(OutBegin(go), D)
    BY <1>1, <1>2, <2>1
  <2> QED BY <2>2, <2>3
<1> QED BY <1>4, <1>5

LEMMA OutReceiveStarves ==
  ASSUME NEW D, NEW q \in OutQueues, Starved(q, D), NEW p \in AnyPacket, NEW h \in Hosts,
         NEW b \in Nat, p.flow \in D => b = 0
  PROVE  Starved(OutReceive(q, p, h, b), D)
<1> DEFINE e == Append(q.enqueued, p)
           u == Append(q.spare, b)
           v == Append(q.vq, h)
           more == [q EXCEPT !.enqueued = e, !.spare = u, !.vq = v]
           n == Len(q.enqueued)
<1>1. /\ q \in OutRecords /\ q.enqueued \in Seq(AnyPacket) /\ q.spare \in Seq(Nat)
      /\ q.vq \in Seq(Hosts) /\ Len(q.spare) = n /\ n \in Nat
  BY DEF OutQueues, OutRecords
<1>2. /\ e \in Seq(AnyPacket) /\ Len(e) = n + 1 /\ e[n + 1] = p
      /\ \A i \in 1 .. n : e[i] = q.enqueued[i]
  BY <1>1, AppendProperties
<1>3. u \in Seq(Nat) /\ u[n + 1] = b /\ \A i \in 1 .. n : u[i] = q.spare[i]
  <2> HIDE DEF n
  <2> QED BY <1>1, AppendProperties
<1>4. v \in Seq(Hosts)
  BY <1>1, AppendProperties
<1>5. OutReceive(q, p, h, b) \in {more, OutBegin(more)}
  BY DEF OutReceive
<1> HIDE DEF e, u, v, n
<1>6. more \in OutRecords /\ more.enqueued = e /\ more.spare = u
  BY <1>1, <1>2, <1>3, <1>4 DEF OutRecords
<1> HIDE DEF more
<1>7. \A i \in 1 .. Len(e) : e[i].flow \in D => u[i] = 0
  <2> TAKE i \in 1 .. Len(e)
  <2>1. i \in 1 .. n \/ i = n + 1
    BY <1>1, <1>2
  <2>2. \A j \in 1 .. n : q.enqueued[j].flow \in D => q.spare[j] = 0
    BY DEF Starved, n
  <2> QED BY <1>2, <1>3, <2>1, <2>2
<1>8. OutBegin(more).enqueued = e /\ OutBegin(more).spare = u
  BY <1>6 DEF OutBegin, OutRecords
<1>9. Starved(more, D) /\ Starved(OutBegin(more), D)
  BY <1>6, <1>7, <1>8 DEF Starved
<1> QED BY <1>5, <1>9

LEMMA OutEventStarves ==
  ASSUME NEW D, NEW q \in OutQueues, Starved(q, D), NEW E
  PROVE  Starved(OutComplete(Filtered(q, E)), D)
<1> DEFINE K == Kept(q, E)
           k == Filtered(q, E)
<1>1. /\ q \in OutRecords /\ q.enqueued \in Seq(AnyPacket) /\ q.spare \in Seq(Nat)
      /\ Len(q.spare) = Len(q.enqueued)
  BY DEF OutQueues, OutRecords
<1>2. K \in SUBSET (1 .. Len(q.enqueued)) /\ k \in OutQueues
  BY KeptAre, FilteredShape
<1>3. k.enqueued = Picked(q.enqueued, K) /\ k.spare = Picked(q.spare, K)
  <2>1. k = [q EXCEPT !.enqueued = Picked(q.enqueued, K), !.spare = Picked(q.spare, K),
                      !.popped = <<>>]
    BY DEF Filtered
  <2> HIDE DEF K, k
  <2> QED BY <1>1, <2>1 DEF OutRecords
<1> HIDE DEF K, k
<1>4. Starved(k, D)
  <2>1. /\ Len(Picked(q.enqueued, K)) = Cardinality(K)
        /\ \A i \in 1 .. Cardinality(K) :
             Picked(q.enqueued, K)[i] = q.enqueued[Nth(K, i)] /\ Nth(K, i) \in K
    BY <1>1, <1>2, PickedShape
  <2>2. \A i \in 1 .. Cardinality(K) : Picked(q.spare, K)[i] = q.spare[Nth(K, i)]
    BY <1>1, <1>2, PickedShape
  <2>3. \A j \in K : q.enqueued[j].flow \in D => q.spare[j] = 0
    BY <1>2 DEF Starved
  <2> QED BY <1>3, <2>1, <2>2, <2>3 DEF Starved
<1>5. CASE k.enqueued = <<>>
  <2>1. OutComplete(k).enqueued = <<>> /\ OutComplete(k).enqueued \in Seq(AnyPacket)
    BY <1>2, <1>5, OutCompleteShape DEF OutQueues, OutRecords
  <2>2. Len(OutComplete(k).enqueued) = 0
    BY <2>1, EmptySeq
  <2> QED BY <2>2 DEF Starved, k
<1>6. CASE k.enqueued # <<>>
  <2> DEFINE e == Tail(k.enqueued)
             u == Tail(k.spare)
             v == Tail(k.vq)
             z == <<Head(k.enqueued).flow>>
             w == IF k.state = PAUSE_RECEIVED THEN PAUSED ELSE k.state
             rest == [k EXCEPT !.enqueued = e, !.spare = u, !.vq = v, !.popped = z,
                               !.sending = FALSE, !.state = w]
             n == Len(k.enqueued)
  <2>1. /\ k.enqueued \in Seq(AnyPacket) /\ k.spare \in Seq(Nat) /\ Len(k.spare) = n
        /\ n \in Nat \ {0} /\ k.spare # <<>>
    BY <1>2, <1>6, EmptySeq DEF OutQueues, OutRecords
  <2>2. Len(e) = n - 1 /\ \A i \in 1 .. n - 1 : e[i] = k.enqueued[i + 1]
    BY <1>6, <2>1, HeadTailProperties
  <2>3. \A i \in 1 .. n - 1 : u[i] = k.spare[i + 1]
    <3> HIDE DEF n
    <3> QED BY <2>1, HeadTailProperties
  <2>4. OutComplete(k) \in {rest, OutBegin(rest)}
    <3> HIDE DEF e, u, v, z
    <3> QED BY <1>6 DEF OutComplete, e, u, v, z
  <2> HIDE DEF e, u, v, z, w
  <2>5. rest.enqueued = e /\ rest.spare = u
    BY <1>2 DEF OutQueues, OutRecords
  <2>6. OutBegin(rest).enqueued = e /\ OutBegin(rest).spare = u
    BY <1>2 DEF OutBegin, OutQueues, OutRecords
  <2> HIDE DEF rest
  <2>7. \A i \in 1 .. Len(e) : e[i].flow \in D => u[i] = 0
    <3> TAKE i \in 1 .. Len(e)
    <3>1. i \in 1 .. n - 1 /\ i + 1 \in 1 .. n
      BY <2>1, <2>2
    <3>2. k.enqueued[i + 1].flow \in D => k.spare[i + 1] = 0
      BY <1>4, <3>1 DEF Starved
    <3> QED BY <2>2, <2>3, <3>1, <3>2
  <2>8. Starved(rest, D) /\ Starved(OutBegin(rest), D)
    BY <2>5, <2>6, <2>7 DEF Starved
  <2> QED BY <2>4, <2>8 DEF k
<1> QED BY <1>5, <1>6

LEMMA StayedStarves ==
  ASSUME NEW D, NEW q \in OutQueues, Starved(q, D)
  PROVE  Starved(Stayed(q), D)
<1> DEFINE u == [i \in DOMAIN q.spare |-> IF q.spare[i] > 0 THEN q.spare[i] - 1 ELSE 0]
<1>1. /\ q.spare \in Seq(Nat) /\ Len(q.spare) = Len(q.enqueued)
      /\ DOMAIN q.spare = 1 .. Len(q.enqueued)
  BY DEF OutQueues, OutRecords
<1>2. Stayed(q).enqueued = q.enqueued /\ Stayed(q).spare = u
  <2>1. Stayed(q) = [q EXCEPT !.left = IF q.sending THEN q.left - 1 ELSE q.left, !.spare = u]
    BY DEF Stayed
  <2> HIDE DEF u
  <2> QED BY <2>1 DEF OutQueues, OutRecords
<1>3. \A i \in 1 .. Len(q.enqueued) : q.spare[i] = 0 => u[i] = 0
  BY <1>1
<1> HIDE DEF u
<1> QED BY <1>2, <1>3 DEF Starved

LEMMA StarvedInvInit == Init => StarvedInv
<1> SUFFICES ASSUME Init, NEW o \in Outputs  PROVE Starved(out[o], Doomed)
  BY DEF StarvedInv
<1>1. out[o].enqueued = <<>>
  BY DEF Init, NewOutput
<1>2. Len(out[o].enqueued) = 0
  BY <1>1
<1> QED BY <1>2 DEF Starved

LEMMA StarvedInvNext == IInv /\ StarvedInv /\ [Next]_vars => StarvedInv'
<1> SUFFICES ASSUME IInv, StarvedInv, [Next]_vars  PROVE StarvedInv'
  OBVIOUS
<1>1. \A o \in Outputs : out[o] \in OutQueues /\ Starved(out[o], Doomed)
  BY DEF IInv, OutShape, StarvedInv
<1>2. ASSUME transport' = transport,
             \A o \in Outputs : Starved(out'[o], Doomed)
      PROVE  StarvedInv'
  <2>1. Doomed' = Doomed
    BY <1>2 DEF Doomed
  <2> QED BY <1>2, <2>1 DEF StarvedInv
<1>3. ASSUME NEW o \in Outputs, NEW t, out' = [out EXCEPT ![o] = t], Starved(t, Doomed),
             transport' = transport
      PROVE  StarvedInv'
  <2>1. \A a \in Outputs : out'[a] = IF a = o THEN t ELSE out[a]
    BY <1>3, UpdatedAt DEF IInv, OutShape
  <2> QED BY <1>1, <1>2, <1>3, <2>1
<1>4. ASSUME UNCHANGED <<out, transport>>  PROVE StarvedInv'
  BY <1>1, <1>2, <1>4
<1>5. ASSUME NEW f \in Flows, Send(f)  PROVE StarvedInv'
  BY <1>4, <1>5 DEF Send
<1>6. ASSUME NEW h \in Hosts, HostEvent(h) \/ WireEvent(h)  PROVE StarvedInv'
  BY <1>4, <1>6 DEF HostEvent, WireEvent
<1>7. CASE FabricEvent
  <2> DEFINE x == Head(fabric)
             o == Dest[x.pkt.flow]
             b == transport.budget[x.pkt.flow]
             t == OutReceive(out[o], x.pkt, x.input, b)
  <2>1. fabric \in Seq(InPipe) /\ fabric # <<>>
    BY <1>7 DEF IInv, FabricShape, FabricEvent
  <2>2. x \in InPipe
    BY <2>1, HeadTailProperties
  <2>3. o \in Outputs /\ x.pkt \in AnyPacket /\ x.input \in Hosts /\ b \in Nat
    BY <2>2, NetAssumption DEF InPipe, AnyPacket, IInv, TransportShape
  <2>4. out' = [out EXCEPT ![o] = t] /\ transport' = transport
    BY <1>7 DEF FabricEvent
  <2>5. x.pkt.flow \in Doomed => b = 0
    BY DEF Doomed
  <2> HIDE DEF x, o, b
  <2>6. Starved(t, Doomed)
    BY <1>1, <2>3, <2>5, OutReceiveStarves
  <2> HIDE DEF t
  <2> QED BY <1>3, <2>3, <2>4, <2>6
<1>8. ASSUME NEW o \in Outputs, OutEvent(o)  PROVE StarvedInv'
  <2> DEFINE t == OutComplete(Filtered(out[o], transport.exempt))
  <2>1. out' = [out EXCEPT ![o] = t] /\ transport' = transport
    BY <1>8 DEF OutEvent
  <2>2. Starved(t, Doomed)
    BY <1>1, OutEventStarves
  <2> HIDE DEF t
  <2> QED BY <1>3, <2>1, <2>2
<1>9. ASSUME NEW o \in Outputs, PausedFromBehind(o) \/ ResumedFromBehind(o)  PROVE StarvedInv'
  <2>1. PICK t \in {OutPause(out[o]), OutResume(out[o])} :
          out' = [out EXCEPT ![o] = t] /\ transport' = transport
    BY <1>9 DEF PausedFromBehind, ResumedFromBehind
  <2>2. Starved(t, Doomed)
    BY <1>1, <2>1, OutMethodsStarve
  <2> QED BY <1>3, <2>1, <2>2
<1>10. CASE Tick
  <2>1. \A o \in Outputs : out'[o] = Stayed(out[o]) /\ Starved(Stayed(out[o]), Doomed)
    BY <1>1, <1>10, StayedStarves DEF Tick
  <2>2. transport' = transport
    BY <1>10 DEF Tick
  <2> QED BY <1>2, <2>1, <2>2
<1>11. CASE UNCHANGED vars
  BY <1>4, <1>11 DEF vars
<1> QED BY <1>5, <1>6, <1>7, <1>8, <1>9, <1>10, <1>11 DEF Next, RunEvents

(* What the filter of an output drops is lost, and the rest is in line.    *)
LEMMA FilterInLine ==
  ASSUME ChannelInv, NEW o \in Outputs, NEW f \in Flows
  PROVE  LET s == Filtered(out[o], transport.exempt).enqueued
             t == IF Dest[f] = o THEN s ELSE out[Dest[f]].enqueued
         IN  /\ s \in Seq(AnyPacket) /\ InOrder(s) /\ LeavesBy(s, o)
             /\ Dropped(o, f) \in SUBSET ((arrived[f] + 1) .. sent[f])
             /\ Dest[f] # o => Dropped(o, f) = {}
             /\ InLine(WayOf(f, arrived[f], t, Pkts(fabric), Pkts(wire[Source[f]]),
                             nic[Source[f]]), sent[f], lost[f] \cup Dropped(o, f))
<1> DEFINE e == out[o].enqueued
           K == Kept(out[o], transport.exempt)
           s == Filtered(out[o], transport.exempt).enqueued
           t == IF Dest[f] = o THEN s ELSE out[Dest[f]].enqueued
           D == Dropped(o, f)
           v == Way(f)
           w == WayOf(f, arrived[f], t, Pkts(fabric), Pkts(wire[Source[f]]), nic[Source[f]])
<1>1. out[o] \in OutQueues /\ e \in Seq(AnyPacket) /\ InOrder(e) /\ LeavesBy(e, o)
  BY WhatMoves DEF ChannelInv
<1>2. s = Picked(e, K) /\ K \in SUBSET (1 .. Len(e))
  BY <1>1, FilteredShape, KeptAre
<1>3. D = Gone(e, K, f)
  <2>1. DOMAIN e = 1 .. Len(e)
    BY <1>1
  <2> QED BY <2>1 DEF Dropped, Gone
<1>4. InLine(v, sent[f], lost[f]) /\ sent[f] \in Nat /\ arrived[f] \in Nat
  BY WhatMoves DEF ChannelInv
<1>5. /\ v[1] = 1 .. arrived[f] /\ v[2] = Numbers(out[Dest[f]].enqueued, f)
      /\ v[3] = Numbers(Pkts(fabric), f) /\ v[4] = Numbers(Pkts(wire[Source[f]]), f)
      /\ v[5] = Served(nic[Source[f]], f) /\ v[6] = Waits(nic[Source[f]], f)
  BY Ways DEF Way
<1>6. /\ w[1] = 1 .. arrived[f] /\ w[2] = Numbers(t, f)
      /\ w[3] = Numbers(Pkts(fabric), f) /\ w[4] = Numbers(Pkts(wire[Source[f]]), f)
      /\ w[5] = Served(nic[Source[f]], f) /\ w[6] = Waits(nic[Source[f]], f)
  <2> HIDE DEF t
  <2> QED BY Ways
<1>7. t = IF Dest[f] = o THEN s ELSE out[Dest[f]].enqueued
  OBVIOUS
<1>8. Dest[f] = o => v[2] = Numbers(e, f)
  BY <1>5
<1> HIDE DEF e, K, s, t, D, v, w
<1>9. /\ InOrder(s) /\ s \in Seq(AnyPacket)
      /\ \A i \in 1 .. Len(s) : \E k \in K : s[i] = e[k]
      /\ D \in SUBSET Numbers(e, f) /\ Numbers(s, f) = Numbers(e, f) \ D
  BY <1>1, <1>2, <1>3, FilterNumbers
<1>10. LeavesBy(s, o)
  BY <1>1, <1>2, <1>9 DEF LeavesBy
<1>11. Dest[f] # o => D = {}
  <2> SUFFICES ASSUME Dest[f] # o, NEW m \in D  PROVE FALSE
    OBVIOUS
  <2>1. PICK i \in 1 .. Len(e) : e[i].flow = f
    BY <1>9 DEF Numbers
  <2> QED BY <1>1, <2>1 DEF LeavesBy
<1>12. D \in SUBSET v[2] /\ w[2] = v[2] \ D
  <2>1. CASE Dest[f] = o
    BY <1>6, <1>7, <1>8, <1>9, <2>1
  <2>2. CASE Dest[f] # o
    BY <1>5, <1>6, <1>7, <1>11, <2>2
  <2> QED BY <2>1, <2>2
<1>13. \A k \in Stages : k # 2 => w[k] = v[k]
  BY <1>5, <1>6, StagesAre
<1>14. InLine(w, sent[f], lost[f] \cup D)
  BY <1>4, <1>12, <1>13, DropsInLine
<1>15. D \in SUBSET ((arrived[f] + 1) .. sent[f])
  BY <1>4, <1>5, <1>12, BehindArrived
<1> QED BY <1>9, <1>10, <1>11, <1>14, <1>15 DEF s, t, D, w

(* The first packet that an output keeps had time to spare, or could be    *)
(* kept for an exempt one.                                                 *)
LEMMA FirstNotDoomed ==
  ASSUME ChannelInv, StarvedInv, NEW o \in Outputs,
         Filtered(out[o], transport.exempt).enqueued # <<>>
  PROVE  Head(Filtered(out[o], transport.exempt).enqueued).flow \notin Doomed
<1> DEFINE e == out[o].enqueued
           K == Kept(out[o], transport.exempt)
           s == Filtered(out[o], transport.exempt).enqueued
<1>1. out[o] \in OutQueues /\ e \in Seq(AnyPacket) /\ InOrder(e)
  BY WhatMoves DEF ChannelInv
<1>2. /\ s = Picked(e, K) /\ K \in SUBSET (1 .. Len(e))
      /\ transport.exempt = {} => \A i \in K : out[o].spare[i] > 0
  BY <1>1, FilteredShape, KeptAre
<1> HIDE DEF K, s
<1>3. s \in Seq(AnyPacket) /\ \A i \in 1 .. Len(s) : \E k \in K : s[i] = e[k]
  BY <1>1, <1>2, FilterNumbers
<1>4. s # <<>>
  BY DEF s
<1>5. 1 \in 1 .. Len(s) /\ Head(s) = s[1]
  BY <1>3, <1>4, EmptySeq
<1>6. PICK k \in K : Head(s) = e[k]
  BY <1>3, <1>5
<1>7. e[k].flow \in Doomed => out[o].spare[k] = 0 /\ transport.exempt = {}
  BY <1>2 DEF StarvedInv, Starved, Doomed
<1>8. e[k].flow \in Doomed => out[o].spare[k] > 0 /\ out[o].spare[k] = 0
  BY <1>2, <1>7
<1>9. e[k].flow \notin Doomed
  BY <1>8
<1> QED BY <1>6, <1>9 DEF s

(* An output hands on the next packet of a flow that is not lost.          *)
LEMMA OutEventInLine ==
  ASSUME ChannelInv, StarvedInv, ServiceInv', NEW o \in Outputs, OutEvent(o)
  PROVE  ChannelInv' /\ Channel!Serve
<1> DEFINE k == Filtered(out[o], transport.exempt)
           s == k.enqueued
           r == OutComplete(k)
           p == Head(s)
           h == Head(k.vq)
           Left(f) == IF Dest[f] = o THEN s ELSE out[Dest[f]].enqueued
<1>1. /\ IInv' /\ ServiceInv /\ IInv /\ out[o] \in OutQueues
  BY WhatMoves DEF ServiceInv
<1>2. /\ wire' = wire /\ fabric' = fabric /\ sent' = sent /\ transport' = transport
      /\ out' = [out EXCEPT ![o] = r]
      /\ lost' = [f \in Flows |-> lost[f] \cup Dropped(o, f)]
  BY DEF OutEvent
<1>3. \A f \in Flows : lost'[f] = lost[f] \cup Dropped(o, f)
  BY <1>2
<1>4. s = <<>> => UNCHANGED <<nic, inp, arrived>>
  BY DEF OutEvent
<1>5. s # <<>> =>
        /\ arrived' = [arrived EXCEPT ![p.flow] = p.seq]
        /\ nic' = IF SendsResume(inp[h]) THEN [nic EXCEPT ![h] = HostResume(nic[h])] ELSE nic
  BY DEF OutEvent
<1>6. k \in OutQueues
  BY <1>1, FilteredShape
<1>7. ASSUME NEW f \in Flows
      PROVE  /\ s \in Seq(AnyPacket) /\ InOrder(s) /\ LeavesBy(s, o)
             /\ Dropped(o, f) \in SUBSET ((arrived[f] + 1) .. sent[f])
             /\ InLine(WayOf(f, arrived[f], Left(f), Pkts(fabric), Pkts(wire[Source[f]]),
                             nic[Source[f]]), sent[f], lost'[f])
  <2>1. /\ s \in Seq(AnyPacket) /\ InOrder(s) /\ LeavesBy(s, o)
        /\ Dropped(o, f) \in SUBSET ((arrived[f] + 1) .. sent[f])
        /\ InLine(WayOf(f, arrived[f], Left(f), Pkts(fabric), Pkts(wire[Source[f]]),
                        nic[Source[f]]), sent[f], lost[f] \cup Dropped(o, f))
    BY FilterInLine
  <2>2. lost'[f] = lost[f] \cup Dropped(o, f)
    BY <1>3
  <2> HIDE DEF s, Left
  <2> QED BY <2>1, <2>2
<1>8. s # <<>> => p.flow \notin Doomed
  BY FirstNotDoomed
<1> HIDE DEF k
<1>9. /\ s = <<>> => r.enqueued = <<>>
      /\ s # <<>> => r.enqueued = Tail(s) /\ h \in Hosts
  BY <1>6, OutCompleteShape
<1>10. \A a \in Outputs : out'[a] = IF a = o THEN r ELSE out[a]
  <2> HIDE DEF r
  <2> QED BY <1>1, <1>2, UpdatedAt DEF IInv, OutShape
<1>11. arrived = [f \in Flows |-> arrived[f]] /\ \A f \in Flows : arrived[f] \in Nat /\ sent[f] \in Nat
  BY WhatMoves DEF ChannelInv
<1>12. s \in Seq(AnyPacket) /\ InOrder(s) /\ LeavesBy(s, o)
  <2>1. CASE Flows # {}
    BY <1>7, <2>1
  <2>2. CASE Flows = {}
    <3>1. s \in Seq(AnyPacket)
      BY <1>6 DEF OutQueues, OutRecords
    <3>2. AnyPacket = {}
      BY <2>2 DEF AnyPacket
    <3>3. s = <<>>
      BY <3>1, <3>2, EmptySeq
    <3> QED BY <3>1, <3>3 DEF InOrder, LeavesBy
  <2> QED BY <2>1, <2>2
<1>13. Channel!Lose
  <2>1. \A f \in Flows : Dropped(o, f) \in SUBSET ((arrived[f] + 1) .. sent[f])
    BY <1>7
  <2>2. \A f \in Flows : lost[f] \in SUBSET (1 .. sent[f])
    BY DEF ChannelInv, InLine
  <2>3. \A f \in Flows : lost'[f] \in SUBSET Nat
    <3> TAKE f \in Flows
    <3>1. /\ Dropped(o, f) \in SUBSET ((arrived[f] + 1) .. sent[f]) /\ lost[f] \in SUBSET (1 .. sent[f])
          /\ arrived[f] \in Nat /\ sent[f] \in Nat /\ lost'[f] = lost[f] \cup Dropped(o, f)
      BY <1>3, <1>11, <2>1, <2>2
    <3>2. (arrived[f] + 1) .. sent[f] \subseteq Nat /\ 1 .. sent[f] \subseteq Nat
      BY <3>1
    <3> QED BY <3>1, <3>2
  <2>4. lost' \in [Flows -> SUBSET Nat]
    BY <1>2, <1>3, <2>3
  <2> QED BY <1>3, <2>1, <2>4 DEF Channel!Lose, Channel!Within
<1>14. Doomed' = Doomed
  BY <1>2 DEF Doomed
<1> HIDE DEF s, r, p, h
<1>15. \A f \in Flows : Dest[f] = o => Left(f) = s
  OBVIOUS
<1>16. \A f \in Flows : Dest[f] # o => Left(f) = out[Dest[f]].enqueued
  OBVIOUS
<1> HIDE DEF Left
<1>17. \A a \in Outputs : InOrder(out[a].enqueued) /\ LeavesBy(out[a].enqueued, a)
  BY DEF ChannelInv
<1>18. CASE s = <<>>
  <2>1. \A a \in Outputs : out'[a].enqueued = IF a = o THEN s ELSE out[a].enqueued
    BY <1>9, <1>10, <1>18
  <2>2. UNCHANGED <<nic, inp, arrived>>
    BY <1>4, <1>18
  <2>3. (\A f \in Flows : InLine(Way(f), sent[f], lost[f]))'
    <3> SUFFICES ASSUME NEW f \in Flows  PROVE InLine(Way(f)', sent[f], lost'[f])
      BY <1>2
    <3>1. out'[Dest[f]].enqueued = Left(f)
      BY <1>15, <1>16, <2>1, WhereFlows
    <3>2. Way(f)' = WayOf(f, arrived[f], Left(f), Pkts(fabric), Pkts(wire[Source[f]]),
                          nic[Source[f]])
      BY <1>2, <2>2, <3>1 DEF Way
    <3> QED BY <1>7, <3>2
  <2>4. (\A a \in Outputs : InOrder(out[a].enqueued) /\ LeavesBy(out[a].enqueued, a))'
    BY <1>12, <1>17, <2>1
  <2>5. (\A g \in Hosts : InOrder(Pkts(wire[g])) /\ Sorted(nic[g]))' /\ InOrder(Pkts(fabric))'
    BY <1>2, <2>2 DEF ChannelInv
  <2>6. (arrived = [f \in Flows |-> arrived[f]] /\ \A f \in Flows : arrived[f] \in Nat)'
    BY <1>11, <2>2
  <2>7. ChannelInv'
    BY <2>3, <2>4, <2>5, <2>6 DEF ChannelInv
  <2> QED BY <1>2, <1>13, <1>14, <2>2, <2>7 DEF Channel!Serve
<1>19. CASE s # <<>>
  <2>1. /\ arrived' = [arrived EXCEPT ![p.flow] = p.seq]
        /\ nic' = IF SendsResume(inp[h]) THEN [nic EXCEPT ![h] = HostResume(nic[h])] ELSE nic
        /\ p.flow \notin Doomed /\ r.enqueued = Tail(s) /\ h \in Hosts
    BY <1>5, <1>8, <1>9, <1>19
  <2>2. p \in AnyPacket /\ p.flow \in Flows /\ p.seq \in Nat /\ Dest[p.flow] = o
    <3>1. s[1] = p /\ 1 \in 1 .. Len(s)
      BY <1>12, <1>19, EmptySeq DEF p
    <3>2. p \in AnyPacket /\ Dest[p.flow] = o
      BY <1>12, <3>1 DEF LeavesBy
    <3> QED BY <3>2 DEF AnyPacket
  <2>3. /\ InOrder(Tail(s))
        /\ \A f \in Flows :
             IF f = p.flow
             THEN /\ Numbers(s, f) = Numbers(Tail(s), f) \cup {p.seq}
                  /\ \A m \in Numbers(Tail(s), f) : p.seq < m
             ELSE Numbers(s, f) = Numbers(Tail(s), f)
    BY <1>12, <1>19, HeadNumbers DEF p
  <2>4. \A f \in Flows : arrived'[f] = IF f = p.flow THEN p.seq ELSE arrived[f]
    BY <1>11, <2>1, UpdatedAt
  <2>5. \A a \in Outputs : out'[a].enqueued = IF a = o THEN Tail(s) ELSE out[a].enqueued
    BY <1>10, <2>1
  <2>6. ASSUME NEW f \in Flows
        PROVE  /\ InLine(WayOf(f, arrived'[f], out'[Dest[f]].enqueued, Pkts(fabric),
                               Pkts(wire[Source[f]]), nic[Source[f]]), sent[f], lost'[f])
               /\ f = p.flow =>
                    /\ p.seq \in ((arrived[f] + 1) .. sent[f]) \ lost'[f]
                    /\ (arrived[f] + 1) .. (p.seq - 1) \subseteq lost'[f]
    <3> DEFINE v == WayOf(f, arrived[f], Left(f), Pkts(fabric), Pkts(wire[Source[f]]),
                          nic[Source[f]])
               u == WayOf(f, arrived'[f], out'[Dest[f]].enqueued, Pkts(fabric),
                          Pkts(wire[Source[f]]), nic[Source[f]])
    <3>1. /\ u[1] = 1 .. arrived'[f] /\ u[2] = Numbers(out'[Dest[f]].enqueued, f)
          /\ u[3] = Numbers(Pkts(fabric), f) /\ u[4] = Numbers(Pkts(wire[Source[f]]), f)
          /\ u[5] = Served(nic[Source[f]], f) /\ u[6] = Waits(nic[Source[f]], f)
      BY Ways
    <3>2. /\ v[1] = 1 .. arrived[f] /\ v[2] = Numbers(Left(f), f)
          /\ v[3] = Numbers(Pkts(fabric), f) /\ v[4] = Numbers(Pkts(wire[Source[f]]), f)
          /\ v[5] = Served(nic[Source[f]], f) /\ v[6] = Waits(nic[Source[f]], f)
      BY Ways
    <3>3. InLine(v, sent[f], lost'[f]) /\ sent[f] \in Nat /\ arrived[f] \in Nat
      BY <1>7, <1>11
    <3>4. Dest[f] \in Outputs
      BY WhereFlows
    <3> HIDE DEF v, u
    <3>5. u[3] = v[3] /\ u[4] = v[4] /\ u[5] = v[5] /\ u[6] = v[6]
      BY <3>1, <3>2
    <3>6. CASE f = p.flow
      <4>1. v[2] = u[2] \cup {p.seq} /\ \A m \in u[2] : p.seq < m
        BY <1>15, <2>2, <2>3, <2>5, <3>1, <3>2, <3>6
      <4>2. u[1] = 1 .. p.seq
        BY <2>4, <3>1, <3>6
      <4>3. \A j \in Stages : j # 1 /\ j # 2 => u[j] = v[j]
        BY <3>5, StagesAre
      <4>4. /\ p.seq \in ((arrived[f] + 1) .. sent[f]) \ lost'[f]
            /\ (arrived[f] + 1) .. (p.seq - 1) \subseteq lost'[f]
            /\ InLine(u, sent[f], lost'[f])
        <5> DEFINE n == p.seq
                   a == arrived[f]
                   N == sent[f]
                   L == lost'[f]
        <5>1. /\ N \in Nat /\ a \in Nat /\ InLine(v, N, L) /\ v[1] = 1 .. a
              /\ v[2] = u[2] \cup {n} /\ (\A m \in u[2] : n < m) /\ u[1] = 1 .. n
          BY <3>2, <3>3, <4>1, <4>2
        <5> HIDE DEF n, a, N, L
        <5>2. Arrives(v, u, a, n)
          BY <4>3, <5>1 DEF Arrives
        <5>3. n \in ((a + 1) .. N) \ L /\ (a + 1) .. (n - 1) \subseteq L /\ InLine(u, N, L)
          BY <5>1, <5>2, HeadArrives
        <5> QED BY <5>3 DEF n, a, N, L
      <4> QED BY <4>4 DEF u
    <3>7. CASE f # p.flow
      <4>1. u[1] = v[1]
        BY <2>4, <3>1, <3>2, <3>7
      <4>2. u[2] = v[2]
        <5>1. CASE Dest[f] = o
          BY <1>15, <2>3, <2>5, <3>1, <3>2, <3>4, <3>7, <5>1
        <5>2. CASE Dest[f] # o
          BY <1>16, <2>5, <3>1, <3>2, <3>4, <5>2
        <5> QED BY <5>1, <5>2
      <4>3. \A j \in Stages : u[j] = v[j]
        BY <3>5, <4>1, <4>2, StagesAre
      <4>4. InLine(u, sent[f], lost'[f])
        BY <3>3, <4>3, StaysInLine DEF MovesOn
      <4> QED BY <3>7, <4>4 DEF u
    <3> QED BY <3>6, <3>7
  <2>7. ASSUME NEW g \in Hosts  PROVE HostMoves(nic[g], nic'[g])
    <3>1. Sorted(nic[g]) /\ Serving(nic[g]) /\ nic[g] \in HostQueues(g)
      BY <1>1, HostShapes DEF ChannelInv, ServiceInv
    <3>2. CASE nic'[g] = nic[g]
      BY <3>1, <3>2, HostStays
    <3>3. CASE nic'[g] # nic[g]
      <4>1. Credited(g)
        BY <1>1, OutEventServed
      <4>2. nic[g].state = PAUSED
        BY <3>3, <4>1 DEF Credited
      <4>3. nic'[g] = HostResume(nic[g])
        <5> DEFINE t == HostResume(nic[h])
        <5>1. nic' = IF SendsResume(inp[h]) THEN [nic EXCEPT ![h] = t] ELSE nic
          BY <2>1
        <5> HIDE DEF t
        <5>2. SendsResume(inp[h]) => \A b \in Hosts : nic'[b] = IF b = h THEN t ELSE nic[b]
          BY <1>1, <5>1, UpdatedAt DEF IInv, HostInv, NicShape
        <5>3. nic'[g] = t /\ g = h
          BY <3>3, <5>1, <5>2
        <5> QED BY <5>3 DEF t
      <4> QED BY <3>1, <4>2, <4>3, HostResumeMoves
    <3> QED BY <3>2, <3>3
  <2>8. (\A f \in Flows : InLine(Way(f), sent[f], lost[f]))'
    <3> SUFFICES ASSUME NEW f \in Flows  PROVE InLine(Way(f)', sent[f], lost'[f])
      BY <1>2
    <3>1. Way(f)' = WayOf(f, arrived'[f], out'[Dest[f]].enqueued, Pkts(fabric),
                          Pkts(wire[Source[f]]), nic'[Source[f]])
      BY <1>2 DEF Way
    <3>2. HostMoves(nic[Source[f]], nic'[Source[f]]) /\ sent[f] \in Nat
      BY <1>11, <2>7, WhereFlows
    <3>3. InLine(WayOf(f, arrived'[f], out'[Dest[f]].enqueued, Pkts(fabric),
                       Pkts(wire[Source[f]]), nic'[Source[f]]), sent[f], lost'[f])
      BY <2>6, <3>2, HostMovesOn
    <3> QED BY <3>1, <3>3
  <2>9. (\A a \in Outputs : InOrder(out[a].enqueued) /\ LeavesBy(out[a].enqueued, a))'
    <3> SUFFICES ASSUME NEW a \in Outputs
                 PROVE  InOrder(out'[a].enqueued) /\ LeavesBy(out'[a].enqueued, a)
      OBVIOUS
    <3>1. LeavesBy(Tail(s), o)
      <4>1. /\ Len(Tail(s)) = Len(s) - 1 /\ Len(s) \in Nat
            /\ \A i \in 1 .. Len(s) - 1 : Tail(s)[i] = s[i + 1]
        BY <1>12, <1>19, HeadTailProperties
      <4>2. \A i \in 1 .. Len(s) - 1 : i + 1 \in 1 .. Len(s)
        BY <4>1
      <4> QED BY <1>12, <4>1, <4>2 DEF LeavesBy
    <3> QED BY <1>17, <2>3, <2>5, <3>1
  <2>10. (\A g \in Hosts : InOrder(Pkts(wire[g])) /\ Sorted(nic[g]))' /\ InOrder(Pkts(fabric))'
    BY <1>2, <2>7 DEF ChannelInv, HostMoves
  <2>11. (arrived = [f \in Flows |-> arrived[f]] /\ \A f \in Flows : arrived[f] \in Nat)'
    <3>1. arrived' = [f \in Flows |-> arrived'[f]]
      BY <1>11, <2>1, UpdatedAt
    <3> QED BY <1>11, <2>2, <2>4, <3>1
  <2>12. ChannelInv'
    BY <2>8, <2>9, <2>10, <2>11 DEF ChannelInv
  <2>13. Channel!Arrive(p.flow)
    BY <2>1, <2>2, <2>6 DEF Channel!Arrive, Channel!Within
  <2> QED BY <1>2, <1>13, <1>14, <2>2, <2>12, <2>13 DEF Channel!Serve
<1> QED BY <1>18, <1>19

LEMMA ChannelInvInit == Init => ChannelInv
<1> SUFFICES ASSUME Init  PROVE ChannelInv
  OBVIOUS
<1>1. ServiceInv
  BY ServiceInvInit
<1>2. InOrder(<<>>) /\ \A f : Numbers(<<>>, f) = {}
  BY DEF InOrder, Numbers
<1>3. Pkts(<<>>) = <<>>
  BY DEF Pkts
<1>4. arrived = [f \in Flows |-> arrived[f]] /\ \A f \in Flows : arrived[f] \in Nat
  BY DEF Init
<1>5. \A o \in Outputs : out[o].enqueued = <<>>
  BY DEF Init, NewOutput
<1>6. \A o \in Outputs : InOrder(out[o].enqueued) /\ LeavesBy(out[o].enqueued, o)
  BY <1>2, <1>5 DEF LeavesBy
<1>7. InOrder(Pkts(fabric)) /\ \A h \in Hosts : InOrder(Pkts(wire[h]))
  BY <1>2, <1>3 DEF Init
<1>8. \A h \in Hosts : /\ nic[h].sending = None
                       /\ \A c \in Priorities : DOMAIN nic[h].queue[c].map = {}
  BY DEF Init, NewHostQueue, EmptyPull
<1>9. \A h \in Hosts : Sorted(nic[h])
  BY <1>8 DEF Sorted, SortedPull
<1>10. ASSUME NEW f \in Flows  PROVE InLine(Way(f), sent[f], lost[f])
  <2> DEFINE v == Way(f)
  <2>1. Source[f] \in Hosts /\ Dest[f] \in Outputs /\ Prio[f] \in Priorities
    BY NetAssumption
  <2>2. v[1] = {} /\ v[2] = {} /\ v[3] = {} /\ v[4] = {}
    <3>1. arrived[f] = 0 /\ 1 .. 0 = {}
      BY DEF Init
    <3>2. Pkts(fabric) = <<>> /\ Pkts(wire[Source[f]]) = <<>>
      BY <1>3, <2>1 DEF Init
    <3> QED BY <1>2, <1>5, <2>1, <3>1, <3>2, Ways DEF Way
  <2>3. v[5] = {} /\ v[6] = {}
    <3>1. Served(nic[Source[f]], f) = {} /\ Waits(nic[Source[f]], f) = {}
      BY <1>8, <2>1, NoneServed DEF Waits, InPull
    <3> QED BY <3>1, Ways DEF Way
  <2> HIDE DEF v
  <2>4. \A k \in Stages : v[k] = {}
    BY <2>2, <2>3, StagesAre
  <2>5. \A k \in Stages : \A j \in 1 .. k - 1 : j \in Stages
    BY DEF Stages
  <2>6. \A k \in 2 .. 6 : k \in Stages
    BY DEF Stages
  <2>7. InLine(v, 0, {})
    BY <2>4, <2>5, <2>6 DEF InLine
  <2> QED BY <2>7 DEF Init, v
<1> QED BY <1>1, <1>4, <1>6, <1>7, <1>9, <1>10 DEF ChannelInv

LEMMA ChannelInvNext ==
  ASSUME SlowOutputs
  PROVE  ChannelInv /\ StarvedInv /\ [Next]_vars
           => ChannelInv' /\ StarvedInv' /\ [Channel!Next]_(Channel!vars)
<1> SUFFICES ASSUME ChannelInv, StarvedInv, [Next]_vars
             PROVE  ChannelInv' /\ [Channel!Next]_(Channel!vars)
  BY StarvedInvNext DEF ChannelInv, ServiceInv
<1>0. ServiceInv'
  BY ServiceInvNext DEF ChannelInv
<1> DEFINE Seen == <<sent, arrived, lost, transport>>
<1>1. ASSUME UNCHANGED Seen  PROVE UNCHANGED Channel!vars
  BY <1>1 DEF Channel!vars, Doomed
<1>2. ASSUME NEW f \in Flows, Send(f)
      PROVE  ChannelInv' /\ Channel!Next
  <2>1. Channel!Send(f)
    BY <1>2 DEF Send, Channel!Send, Doomed
  <2> QED BY <1>0, <1>2, <2>1, SendInLine DEF Channel!Next
<1>3. ASSUME NEW h \in Hosts, HostEvent(h)
      PROVE  ChannelInv' /\ UNCHANGED Seen
  BY <1>0, <1>3, HostEventInLine DEF HostEvent
<1>4. ASSUME NEW h \in Hosts, WireEvent(h)
      PROVE  ChannelInv' /\ UNCHANGED Seen
  BY <1>0, <1>4, WireEventInLine DEF WireEvent
<1>5. CASE FabricEvent
  <2>1. ChannelInv' /\ UNCHANGED Seen
    BY <1>0, <1>5, FabricEventInLine DEF FabricEvent
  <2> QED BY <1>1, <2>1
<1>6. ASSUME NEW o \in Outputs, OutEvent(o)
      PROVE  ChannelInv' /\ Channel!Next
  BY <1>0, <1>6, OutEventInLine DEF Channel!Next
<1>7. ASSUME NEW o \in Outputs, PausedFromBehind(o) \/ ResumedFromBehind(o)
      PROVE  ChannelInv' /\ UNCHANGED Seen
  BY <1>0, <1>7, BehindInLine DEF PausedFromBehind, ResumedFromBehind
<1>8. CASE Tick
  <2>1. ChannelInv' /\ UNCHANGED Seen
    BY <1>0, <1>8, TickInLine DEF Tick
  <2> QED BY <1>1, <2>1
<1>9. CASE UNCHANGED vars
  <2>1. ChannelInv' /\ UNCHANGED Seen
    BY <1>0, <1>9, SameWay DEF vars
  <2> QED BY <1>1, <2>1
<1> HIDE DEF Seen
<1> QED BY <1>1, <1>2, <1>3, <1>4, <1>5, <1>6, <1>7, <1>8, <1>9 DEF Next, RunEvents

(* To a flow the network is a channel that keeps the order and loses only  *)
(* what the filters of the outputs drop (completeService): every step      *)
(* hands on the first packet of a flow that is not lost, or takes one, or  *)
(* loses some, or is not seen; and of a flow without a budget nothing is   *)
(* handed on in a program without exempt packets.  It is the safety part   *)
(* of ChannelSpec, and holds whatever the budgets are.                     *)
THEOREM NetworkIsChannel ==
  ASSUME SlowOutputs
  PROVE  Spec => Channel!Spec
<1>1. Init => ChannelInv /\ StarvedInv
  BY ChannelInvInit, StarvedInvInit
<1>2. Init => Channel!Init
  BY DEF Init, Channel!Init, Doomed
<1>3. ChannelInv /\ StarvedInv /\ [Next]_vars
        => ChannelInv' /\ StarvedInv' /\ [Channel!Next]_(Channel!vars)
  BY ChannelInvNext
<1> QED BY <1>1, <1>2, <1>3, PTL DEF Spec, Channel!Spec

-----------------------------------------------------------------------------
(* An output has an entry for each packet in it and for each it dropped.   *)
CountInv ==
  \A o \in Outputs :
    IsFiniteSet(LostAt(o)) /\ Len(out[o].vq) = Len(out[o].enqueued) + Cardinality(LostAt(o))

LEMMA LostAtHas ==
  ASSUME NEW o
  PROVE  \A x : x \in LostAt(o) <=> \E f \in Flows : Dest[f] = o /\ \E m \in lost[f] : x = <<f, m>>
BY DEF LostAt

(* The packets of a sequence in order, less some, are as many as places.   *)
LEMMA PlacesCount ==
  ASSUME NEW e \in Seq(AnyPacket), InOrder(e), NEW J \in SUBSET (1 .. Len(e))
  PROVE  LET P == {<<e[i].flow, e[i].seq>> : i \in J}
         IN  IsFiniteSet(P) /\ IsFiniteSet(J) /\ Cardinality(P) = Cardinality(J)
<1> DEFINE P == {<<e[i].flow, e[i].seq>> : i \in J}
           g == [i \in J |-> <<e[i].flow, e[i].seq>>]
<1>1. Len(e) \in Nat /\ \A i \in 1 .. Len(e) : e[i] \in AnyPacket
  OBVIOUS
<1>2. IsFiniteSet(J)
  BY PickedShape
<1>3. ASSUME NEW i \in J, NEW j \in J, i # j  PROVE g[i] # g[j]
  <2>1. i \in 1 .. Len(e) /\ j \in 1 .. Len(e) /\ e[i].seq \in Nat /\ e[j].seq \in Nat
    BY <1>1 DEF AnyPacket
  <2>2. i \in 1 .. j - 1 \/ j \in 1 .. i - 1
    BY <1>1, <1>3, <2>1
  <2>3. e[i].flow = e[j].flow => e[i].seq < e[j].seq \/ e[j].seq < e[i].seq
    BY <2>1, <2>2 DEF InOrder
  <2>4. e[i].flow = e[j].flow => e[i].seq # e[j].seq
    BY <2>1, <2>3
  <2>5. <<e[i].flow, e[i].seq>> # <<e[j].flow, e[j].seq>>
    BY <2>4
  <2> QED BY <2>5
<1>4. g \in [J -> P] /\ \A x \in P : \E i \in J : g[i] = x
  OBVIOUS
<1> HIDE DEF g, P
<1>5. g \in Bijection(J, P)
  <2>1. g \in Injection(J, P)
    BY <1>3, <1>4, Zenon DEF Injection, IsInjective
  <2>2. g \in Surjection(J, P)
    BY <1>4, Zenon DEF Surjection
  <2> QED BY <2>1, <2>2 DEF Bijection
<1>6. ExistsBijection(J, P)
  BY <1>5 DEF ExistsBijection
<1> QED BY <1>2, <1>6, FS_Bijection DEF P

(* What an output drops has not been dropped before.                       *)
LEMMA OutEventCounts ==
  ASSUME ChannelInv, ServiceInv', CountInv, NEW o \in Outputs, OutEvent(o)
  PROVE  CountInv'
<1> DEFINE e == out[o].enqueued
           K == Kept(out[o], transport.exempt)
           J == (1 .. Len(e)) \ K
           k == Filtered(out[o], transport.exempt)
           r == OutComplete(k)
           P == {<<e[i].flow, e[i].seq>> : i \in J}
<1>1. out[o] \in OutQueues /\ e \in Seq(AnyPacket) /\ InOrder(e) /\ LeavesBy(e, o) /\ IInv
  BY WhatMoves DEF ChannelInv
<1>2. /\ out' = [out EXCEPT ![o] = r]
      /\ \A f \in Flows : lost'[f] = lost[f] \cup Dropped(o, f)
  BY DEF OutEvent
<1>3. /\ k \in OutQueues /\ k.enqueued = Picked(e, K) /\ k.vq = out[o].vq
      /\ K \in SUBSET (1 .. Len(e))
  BY <1>1, FilteredShape, KeptAre
<1>4. Len(k.enqueued) = Cardinality(K) /\ IsFiniteSet(K) /\ Cardinality(K) \in Nat
  <2> HIDE DEF K, k
  <2>1. Len(Picked(e, K)) = Cardinality(K) /\ IsFiniteSet(K) /\ Cardinality(K) \in 0 .. Len(e)
    BY <1>1, <1>3, PickedShape
  <2> QED BY <1>1, <1>3, <2>1
<1>5. Cardinality(J) = Len(e) - Cardinality(K) /\ Len(e) \in Nat
  <2> DEFINE n == Len(e)
  <2>1. n \in Nat
    BY <1>1
  <2> HIDE DEF n, K
  <2>2. IsFiniteSet(1 .. n) /\ Cardinality(1 .. n) = n
    <3>1. IsFiniteSet(1 .. n) /\ Cardinality(1 .. n) = IF 1 > n THEN 0 ELSE n - 1 + 1
      BY <2>1, FS_Interval
    <3> QED BY <2>1, <3>1
  <2>3. Cardinality((1 .. n) \ K) = Cardinality(1 .. n) - Cardinality((1 .. n) \cap K)
    BY <2>2, FS_Difference
  <2>4. (1 .. n) \cap K = K
    BY <1>3 DEF n
  <2> QED BY <2>1, <2>2, <2>3, <2>4 DEF n
<1>6. ASSUME NEW f \in Flows
      PROVE  Dropped(o, f) = {m \in Nat : <<f, m>> \in P} /\ (Dest[f] # o => Dropped(o, f) = {})
  <2>1. DOMAIN e = 1 .. Len(e) /\ \A i \in 1 .. Len(e) : e[i].seq \in Nat
    <3> HIDE DEF e
    <3>1. DOMAIN e = 1 .. Len(e) /\ \A i \in 1 .. Len(e) : e[i] \in AnyPacket
      BY <1>1
    <3> QED BY <3>1 DEF AnyPacket
  <2>2. Dropped(o, f) = {e[i].seq : i \in {j \in J : e[j].flow = f}}
    BY <2>1 DEF Dropped
  <2>3. Dest[f] # o => Dropped(o, f) = {}
    BY FilterInLine
  <2> HIDE DEF K, e
  <2>4. ASSUME NEW m \in Dropped(o, f)  PROVE m \in Nat /\ <<f, m>> \in P
    BY <2>1, <2>2, <2>4
  <2>5. ASSUME NEW m \in Nat, <<f, m>> \in P  PROVE m \in Dropped(o, f)
    <3>1. PICK i \in J : <<f, m>> = <<e[i].flow, e[i].seq>>
      BY <2>5
    <3> QED BY <2>2, <3>1
  <2> QED BY <2>3, <2>4, <2>5
<1>7. /\ IsFiniteSet(P) /\ Cardinality(P) = Cardinality(J)
  <2> HIDE DEF K
  <2>1. J \in SUBSET (1 .. Len(e))
    OBVIOUS
  <2> HIDE DEF J, e
  <2> QED BY <1>1, <2>1, PlacesCount DEF e
<1>8. ASSUME NEW x \in P
      PROVE  \E f \in Flows : Dest[f] = o /\ \E m \in Nat : x = <<f, m>> /\ m \notin lost[f]
  <2>1. PICK i \in 1 .. Len(e) : x = <<e[i].flow, e[i].seq>>
    OBVIOUS
  <2>2. e[i] \in AnyPacket /\ Dest[e[i].flow] = o
    BY <1>1, <2>1 DEF LeavesBy
  <2>3. e[i].flow \in Flows /\ e[i].seq \in Nat
    BY <2>2 DEF AnyPacket
  <2>4. e[i].seq \in Numbers(e, e[i].flow)
    BY <2>1 DEF Numbers
  <2>5. \A f \in Flows, m \in Nat : Dest[f] = o /\ m \in Numbers(e, f) => m \notin lost[f]
    <3> SUFFICES ASSUME NEW f \in Flows, NEW m \in Nat, Dest[f] = o, m \in Numbers(e, f)
                 PROVE  m \notin lost[f]
      OBVIOUS
    <3>1. m \in Way(f)[2]
      BY Ways DEF Way
    <3>2. InLine(Way(f), sent[f], lost[f]) /\ 2 \in 2 .. 6
      BY DEF ChannelInv
    <3> QED BY <3>1, <3>2 DEF InLine
  <2> HIDE DEF e
  <2> QED BY <2>1, <2>2, <2>3, <2>4, <2>5
<1> HIDE DEF P, J
<1>9. ASSUME NEW a \in Outputs
      PROVE  LostAt(a)' = IF a = o THEN LostAt(o) \cup P ELSE LostAt(a)
  <2>1. \A x : x \in LostAt(a)' <=> \E f \in Flows : Dest[f] = a /\ \E m \in lost'[f] : x = <<f, m>>
    BY DEF LostAt
  <2>2. CASE a = o
    <3>1. ASSUME NEW x \in LostAt(a)'  PROVE x \in LostAt(o) \cup P
      <4>1. PICK f \in Flows : Dest[f] = a /\ \E m \in lost'[f] : x = <<f, m>>
        BY <2>1, <3>1
      <4>2. PICK m \in lost'[f] : x = <<f, m>>
        BY <4>1
      <4>3. m \in lost[f] \/ <<f, m>> \in P
        BY <1>2, <1>6, <4>2
      <4> QED BY <2>2, <4>1, <4>2, <4>3, LostAtHas
    <3>2. ASSUME NEW x \in LostAt(o)  PROVE x \in LostAt(a)'
      <4>1. PICK f \in Flows : Dest[f] = o /\ \E m \in lost[f] : x = <<f, m>>
        BY <3>2, LostAtHas
      <4>2. lost[f] \subseteq lost'[f]
        BY <1>2
      <4> QED BY <2>1, <2>2, <4>1, <4>2
    <3>3. ASSUME NEW x \in P  PROVE x \in LostAt(a)'
      <4>1. PICK f \in Flows, m \in Nat : Dest[f] = o /\ x = <<f, m>>
        BY <1>8, <3>3
      <4>2. m \in lost'[f]
        BY <1>2, <1>6, <3>3, <4>1
      <4> QED BY <2>1, <2>2, <4>1, <4>2
    <3> QED BY <2>2, <3>1, <3>2, <3>3
  <2>3. CASE a # o
    <3>1. \A f \in Flows : Dest[f] = a => lost'[f] = lost[f]
      BY <1>2, <1>6, <2>3
    <3>2. \A x : x \in LostAt(a)' <=> x \in LostAt(a)
      BY <2>1, <3>1, LostAtHas
    <3> QED BY <2>3, <3>2
  <2> QED BY <2>2, <2>3
<1>10. LostAt(o) \cap P = {}
  <2> SUFFICES ASSUME NEW x \in LostAt(o), x \in P  PROVE FALSE
    OBVIOUS
  <2>1. \E f \in Flows : \E m \in lost[f] : x = <<f, m>>
    BY LostAtHas
  <2>2. \E f \in Flows, m \in Nat : x = <<f, m>> /\ m \notin lost[f]
    BY <1>8
  <2> QED BY <2>1, <2>2
<1> HIDE DEF K, k, e
<1>11. /\ IsFiniteSet(LostAt(o)) /\ Len(out[o].vq) = Len(e) + Cardinality(LostAt(o))
       /\ Cardinality(LostAt(o)) \in Nat
  BY FS_CardinalityType DEF CountInv, e
<1>12. /\ IsFiniteSet(LostAt(o) \cup P)
       /\ Cardinality(LostAt(o) \cup P) = Cardinality(LostAt(o)) + Len(e) - Cardinality(K)
  <2>1. /\ IsFiniteSet(LostAt(o) \cup P)
        /\ Cardinality(LostAt(o) \cup P)
             = Cardinality(LostAt(o)) + Cardinality(P) - Cardinality(LostAt(o) \cap P)
    BY <1>7, <1>11, FS_Union
  <2>2. Cardinality(LostAt(o) \cap P) = 0
    BY <1>10, FS_EmptySet
  <2> QED BY <1>4, <1>5, <1>7, <1>11, <2>1, <2>2
<1>13. /\ r.enqueued \in Seq(AnyPacket)
       /\ Len(r.vq) = Len(r.enqueued) + Cardinality(LostAt(o) \cup P)
  <2>1. /\ k.enqueued \in Seq(AnyPacket) /\ k.vq \in Seq(Hosts)
        /\ Len(k.vq) = Len(k.enqueued) + Cardinality(LostAt(o) \cup P)
    <3>1. k.enqueued \in Seq(AnyPacket) /\ k.vq \in Seq(Hosts)
      BY <1>3 DEF OutQueues, OutRecords
    <3>2. Len(k.vq) = Len(e) + Cardinality(LostAt(o)) /\ Len(k.enqueued) = Cardinality(K)
      BY <1>3, <1>4, <1>11
    <3> QED BY <1>4, <1>5, <1>11, <1>12, <3>1, <3>2
  <2>2. CASE k.enqueued = <<>>
    <3>1. r.enqueued = <<>> /\ r.vq = k.vq
      BY <1>3, <2>2, OutCompleteShape
    <3> HIDE DEF r
    <3> QED BY <2>1, <2>2, <3>1
  <2>3. CASE k.enqueued # <<>>
    <3>1. r.enqueued = Tail(k.enqueued) /\ r.vq = Tail(k.vq) /\ k.vq # <<>>
      BY <1>3, <2>3, OutCompleteShape
    <3>2. /\ Len(Tail(k.enqueued)) = Len(k.enqueued) - 1 /\ Tail(k.enqueued) \in Seq(AnyPacket)
          /\ Len(Tail(k.vq)) = Len(k.vq) - 1 /\ Len(k.enqueued) \in Nat /\ Len(k.vq) \in Nat
      BY <2>1, <2>3, <3>1, HeadTailProperties
    <3>3. Cardinality(LostAt(o) \cup P) \in Nat
      BY <1>12, FS_CardinalityType
    <3> HIDE DEF r
    <3> QED BY <2>1, <3>1, <3>2, <3>3
  <2> QED BY <2>2, <2>3
<1> HIDE DEF r
<1>14. \A a \in Outputs : out'[a] = IF a = o THEN r ELSE out[a]
  BY <1>1, <1>2, UpdatedAt DEF IInv, OutShape
<1>15. ASSUME NEW a \in Outputs
       PROVE  /\ IsFiniteSet(LostAt(a)')
              /\ Len(out'[a].vq) = Len(out'[a].enqueued) + Cardinality(LostAt(a)')
  <2>1. CASE a = o
    BY <1>9, <1>12, <1>13, <1>14, <2>1
  <2>2. CASE a # o
    BY <1>9, <1>14, <2>2 DEF CountInv
  <2> QED BY <2>1, <2>2
<1> QED BY <1>15 DEF CountInv

LEMMA CountInvNext ==
  ASSUME ChannelInv, ServiceInv', CountInv, [Next]_vars
  PROVE  CountInv'
<1>1. IInv /\ \A o \in Outputs : out[o] \in OutQueues
  BY WhatMoves
<1>2. ASSUME lost' = lost,
             \A o \in Outputs : /\ Len(out'[o].enqueued) = Len(out[o].enqueued)
                                /\ Len(out'[o].vq) = Len(out[o].vq)
      PROVE  CountInv'
  <2>1. \A o \in Outputs : LostAt(o)' = LostAt(o)
    BY <1>2 DEF LostAt
  <2> QED BY <1>2, <2>1 DEF CountInv
<1>3. ASSUME UNCHANGED <<out, lost>>  PROVE CountInv'
  BY <1>2, <1>3
<1>4. ASSUME NEW f \in Flows, Send(f)  PROVE CountInv'
  BY <1>3, <1>4 DEF Send
<1>5. ASSUME NEW h \in Hosts, HostEvent(h) \/ WireEvent(h)  PROVE CountInv'
  BY <1>3, <1>5 DEF HostEvent, WireEvent
<1>6. CASE FabricEvent
  <2> DEFINE x == Head(fabric)
             o == Dest[x.pkt.flow]
             b == transport.budget[x.pkt.flow]
             t == OutReceive(out[o], x.pkt, x.input, b)
  <2>1. fabric \in Seq(InPipe) /\ fabric # <<>>
    BY <1>1, <1>6 DEF IInv, FabricShape, FabricEvent
  <2>2. x \in InPipe
    BY <2>1, HeadTailProperties
  <2>3. o \in Outputs /\ x.pkt \in AnyPacket /\ x.input \in Hosts /\ b \in Nat
    BY <1>1, <2>2, NetAssumption DEF InPipe, AnyPacket, IInv, TransportShape
  <2>4. out' = [out EXCEPT ![o] = t] /\ lost' = lost
    BY <1>6 DEF FabricEvent
  <2> HIDE DEF x, o, b
  <2>5. t.enqueued = Append(out[o].enqueued, x.pkt) /\ t.vq = Append(out[o].vq, x.input)
    <3>1. out[o] \in OutQueues
      BY <1>1, <2>3
    <3> DEFINE p == x.pkt
               h == x.input
    <3>2. p \in AnyPacket /\ h \in Hosts
      BY <2>3
    <3> HIDE DEF p, h
    <3>3. /\ OutReceive(out[o], p, h, b).enqueued = Append(out[o].enqueued, p)
          /\ OutReceive(out[o], p, h, b).vq = Append(out[o].vq, h)
      BY <2>3, <3>1, <3>2, OutReceiveShape
    <3> QED BY <3>3 DEF p, h
  <2>6. out[o].enqueued \in Seq(AnyPacket) /\ out[o].vq \in Seq(Hosts)
    BY <1>1, <2>3 DEF OutQueues, OutRecords
  <2>7. /\ Len(t.enqueued) = Len(out[o].enqueued) + 1 /\ Len(t.vq) = Len(out[o].vq) + 1
        /\ Len(out[o].enqueued) \in Nat /\ Len(out[o].vq) \in Nat
    BY <2>3, <2>5, <2>6, AppendProperties
  <2> HIDE DEF t
  <2>8. \A a \in Outputs : out'[a] = IF a = o THEN t ELSE out[a]
    BY <1>1, <2>4, UpdatedAt DEF IInv, OutShape
  <2>9. ASSUME NEW a \in Outputs
        PROVE  /\ IsFiniteSet(LostAt(a)')
               /\ Len(out'[a].vq) = Len(out'[a].enqueued) + Cardinality(LostAt(a)')
    <3>1. LostAt(a)' = LostAt(a)
      BY <2>4 DEF LostAt
    <3>2. /\ IsFiniteSet(LostAt(a)) /\ Len(out[a].vq) = Len(out[a].enqueued) + Cardinality(LostAt(a))
          /\ Cardinality(LostAt(a)) \in Nat
      BY FS_CardinalityType DEF CountInv
    <3>3. CASE a = o
      <4>1. Len(t.vq) = Len(t.enqueued) + Cardinality(LostAt(a))
        BY <2>7, <3>2, <3>3
      <4> QED BY <2>8, <3>1, <3>2, <3>3, <4>1
    <3>4. CASE a # o
      BY <2>8, <3>1, <3>2, <3>4
    <3> QED BY <3>3, <3>4
  <2> QED BY <2>9 DEF CountInv
<1>7. ASSUME NEW o \in Outputs, OutEvent(o)  PROVE CountInv'
  BY <1>7, OutEventCounts
<1>8. ASSUME NEW o \in Outputs, PausedFromBehind(o) \/ ResumedFromBehind(o)  PROVE CountInv'
  <2>1. PICK t \in OutQueues : /\ t.enqueued = out[o].enqueued /\ t.vq = out[o].vq
                               /\ out' = [out EXCEPT ![o] = t]
    BY <1>1, <1>8, OutMethodsShape DEF PausedFromBehind, ResumedFromBehind
  <2>2. lost' = lost
    BY <1>8 DEF PausedFromBehind, ResumedFromBehind
  <2>3. \A a \in Outputs : out'[a] = IF a = o THEN t ELSE out[a]
    BY <1>1, <2>1, UpdatedAt DEF IInv, OutShape
  <2>4. \A a \in Outputs : out'[a].enqueued = out[a].enqueued /\ out'[a].vq = out[a].vq
    BY <2>1, <2>3
  <2> QED BY <1>2, <2>2, <2>4
<1>9. CASE Tick
  <2>1. \A o \in Outputs : out'[o].enqueued = out[o].enqueued /\ out'[o].vq = out[o].vq
    BY <1>1, <1>9, StayedShape DEF Tick
  <2>2. lost' = lost
    BY <1>9 DEF Tick
  <2> QED BY <1>2, <2>1, <2>2
<1>10. CASE UNCHANGED vars
  BY <1>3, <1>10 DEF vars
<1> QED BY <1>4, <1>5, <1>6, <1>7, <1>8, <1>9, <1>10 DEF Next, RunEvents

(* What the filter of completeService drops stays charged for ever: an     *)
(* output has an entry for each packet in it and for each it has dropped,  *)
(* none counted twice, and an input queue is charged with the entries for  *)
(* it and its packets within the switch, whatever the budgets are.         *)
THEOREM DropsStayChargedAlways ==
  ASSUME SlowOutputs
  PROVE  Spec => []DropsStayCharged
<1>1. Init => ChannelInv /\ StarvedInv
  BY ChannelInvInit, StarvedInvInit
<1>2. Init => CountInv
  <2> SUFFICES ASSUME Init, NEW o \in Outputs
               PROVE  /\ IsFiniteSet(LostAt(o))
                      /\ Len(out[o].vq) = Len(out[o].enqueued) + Cardinality(LostAt(o))
    BY DEF CountInv
  <2>1. \A f \in Flows : lost[f] = {}
    BY DEF Init
  <2>2. LostAt(o) = {}
    BY <2>1, LostAtHas
  <2>3. out[o].vq = <<>> /\ out[o].enqueued = <<>>
    BY DEF Init, NewOutput
  <2>4. IsFiniteSet({}) /\ Cardinality({}) = 0
    BY FS_EmptySet
  <2>5. Len(out[o].vq) = 0 /\ Len(out[o].enqueued) = 0
    BY <2>3
  <2> QED BY <2>2, <2>4, <2>5
<1>3. ChannelInv /\ StarvedInv /\ [Next]_vars => ChannelInv' /\ StarvedInv'
  BY ChannelInvNext
<1>4. ChannelInv /\ ChannelInv' /\ CountInv /\ [Next]_vars => CountInv'
  BY CountInvNext DEF ChannelInv
<1>5. ChannelInv /\ CountInv => DropsStayCharged
  <2> SUFFICES ASSUME ChannelInv, CountInv  PROVE DropsStayCharged
    OBVIOUS
  <2>1. IInv
    BY WhatMoves
  <2>2. ChargeIsEntries
    BY <2>1, ChargeMeaning DEF ChargeIsEntries
  <2> QED BY <2>2 DEF DropsStayCharged, ChargeIsEntries, CountInv
<1> QED BY <1>1, <1>2, <1>3, <1>4, <1>5, PTL DEF Spec
=============================================================================
