-------------------------- MODULE LcpTransportProofs --------------------------
(***************************************************************************)
(* Proofs about LcpTransport.  First what needs only the sender: its types *)
(* its window, and that no loss is forgotten.  Then that it implements     *)
(* ReliableTransfer: the sender and the sink agree on what has arrived,    *)
(* whatever the network loses or reorders.                                 *)
(***************************************************************************)
EXTENDS LcpTransport, LoopsProofs, FiniteSetTheorems, TLAPS

-----------------------------------------------------------------------------
(* Constants.                                                              *)

LEMMA NeededNat == Needed \in Nat \ {0}
BY CodeAssumption DEF Needed

LEMMA NumBatchesNat == NumBatches \in Nat
<1>1. FlowPkts + Needed - 1 \in Nat
  BY FlowAssumption, NeededNat
<1> QED BY <1>1, NeededNat DEF NumBatches

LEMMA NumPktsNat == NumPkts \in Nat
<1>1. NumBatches * Group \in Nat
  BY NumBatchesNat, CodeAssumption
<1> QED BY <1>1, FlowAssumption DEF NumPkts

LEMMA PktsFinite == IsFiniteSet(Pkts)
BY NumPktsNat, FS_Interval DEF Pkts

LEMMA ParityIdNat == ASSUME NEW p \in Pkts PROVE ParityId(p) \in Nat \ {0}
<1>1. p - 1 \in Nat
  BY NumPktsNat DEF Pkts
<1> QED BY <1>1, CodeAssumption DEF ParityId

LEMMA BagRemoveType ==
  ASSUME NEW S, NEW B, IsABag(B), DOMAIN B \subseteq S, NEW E
  PROVE  IsABag(B (-) SetToBag(E)) /\ DOMAIN (B (-) SetToBag(E)) \subseteq S
<1> DEFINE C == [e \in DOMAIN B |-> IF e \in E THEN B[e] - 1 ELSE B[e]]
           D == {d \in DOMAIN B : C[d] > 0}
<1>1. B (-) SetToBag(E) = [e \in D |-> C[e]]
  BY DEF (-), SetToBag
<1>2. \A e \in D : C[e] \in Nat /\ C[e] > 0
  BY DEF IsABag
<1> HIDE DEF C
<1> QED BY <1>1, <1>2 DEF IsABag

LEMMA BagPlusSetType ==
  ASSUME NEW S, NEW B, IsABag(B), DOMAIN B \subseteq S, NEW E \in SUBSET S
  PROVE  IsABag(B (+) SetToBag(E)) /\ DOMAIN (B (+) SetToBag(E)) \subseteq S
BY DEF IsABag, SetToBag, (+)

-----------------------------------------------------------------------------
(* The sender's state.                                                     *)

(* The states of the sender in which no packet above _highest_sent awaits  *)
(* its ACK and, until the flow is finished, _unacked counts no more packets*)
(* than are in flight: the inductive strengthening of InFlightBound.       *)
AwaitedSent(s) ==
  \A p \in Pkts : s.entry[p] \in {"inflight", "lost"} => p <= s.highestSent

Bounded(s) == s.finished \/ s.unacked <= Cardinality(InFlight(s))

Sound == {s \in SrcState : AwaitedSent(s) /\ Bounded(s)}

LEMMA InFlightFinite ==
  ASSUME NEW s
  PROVE  IsFiniteSet(InFlight(s)) /\ Cardinality(InFlight(s)) \in Nat
<1>1. IsFiniteSet(Pkts)
  BY PktsFinite
<1>2. InFlight(s) \in SUBSET Pkts
  BY DEF InFlight
<1> QED BY <1>1, <1>2, FS_Subset, FS_CardinalityType

(* The state after one packet leaves or joins those in flight.             *)
LEMMA OneLess ==
  ASSUME NEW s, NEW t, NEW p, InFlight(t) = InFlight(s) \ {p}
  PROVE  Cardinality(InFlight(t)) >= Cardinality(InFlight(s)) - 1
BY InFlightFinite, FS_RemoveElement

LEMMA OneMore ==
  ASSUME NEW s, NEW t, NEW p, p \notin InFlight(s), InFlight(t) = InFlight(s) \cup {p}
  PROVE  Cardinality(InFlight(t)) = Cardinality(InFlight(s)) + 1
BY InFlightFinite, FS_AddElement

(* What the sending operators write keeps the state well typed.            *)
LEMMA SrcUpdate ==
  ASSUME NEW s \in SrcState, NEW u \in Nat, NEW w \in Nat,
         NEW e \in [Pkts -> EntryState], NEW o \in SUBSET Pkts
  PROVE  [s EXCEPT !.unacked = u, !.window = w, !.entry = e, !.out = o] \in SrcState
BY DEF SrcState

LEMMA EntryUpdate ==
  ASSUME NEW s \in SrcState, NEW p \in Pkts, NEW x \in EntryState
  PROVE  [s.entry EXCEPT ![p] = x] \in [Pkts -> EntryState]
<1>1. s.entry \in [Pkts -> EntryState]
  BY DEF SrcState
<1> QED BY <1>1

LEMMA ReduceUnackedType ==
  ASSUME NEW s \in SrcState, NEW n \in Nat
  PROVE  /\ ReduceUnacked(s, n) \in SrcState
         /\ ReduceUnacked(s, n) = [s EXCEPT !.unacked = ReduceUnacked(s, n).unacked]
         /\ ReduceUnacked(s, n).unacked = IF s.unacked >= n THEN s.unacked - n ELSE 0
BY DEF ReduceUnacked, Minus, SrcState

LEMMA ReduceUnackedFields ==
  ASSUME NEW s \in SrcState, NEW n \in Nat
  PROVE  LET t == ReduceUnacked(s, n)
         IN  /\ t.entry = s.entry /\ t.highestSent = s.highestSent
             /\ t.finished = s.finished /\ t.completed = s.completed
             /\ t.highestCompleted = s.highestCompleted /\ t.out = s.out
             /\ t.rtxPending = s.rtxPending
BY DEF ReduceUnacked, Minus, SrcState

(* The start of receivePacket gives one packet back to the window.         *)
LEMMA ReduceOneSound ==
  ASSUME NEW s \in Sound
  PROVE  LET r == ReduceUnacked(s, 1)
         IN  /\ r \in Sound /\ r \in SrcState /\ AwaitedSent(r)
             /\ InFlight(r) = InFlight(s)
             /\ r.entry = s.entry /\ r.finished = s.finished
             /\ r.unacked = IF s.unacked >= 1 THEN s.unacked - 1 ELSE 0
<1> DEFINE r == ReduceUnacked(s, 1)
<1>1. s \in SrcState /\ AwaitedSent(s) /\ Bounded(s) /\ s.unacked \in Nat
  BY DEF Sound, SrcState
<1>2. /\ r.entry = s.entry /\ r.finished = s.finished /\ r.highestSent = s.highestSent
      /\ r.unacked = IF s.unacked >= 1 THEN s.unacked - 1 ELSE 0
  BY <1>1 DEF ReduceUnacked, Minus, SrcState
<1>3. r \in SrcState /\ AwaitedSent(r) /\ InFlight(r) = InFlight(s)
  BY <1>1, <1>2, ReduceUnackedType DEF AwaitedSent, InFlight
<1> HIDE DEF r
<1>4. Bounded(r)
  BY <1>1, <1>2, <1>3, InFlightFinite DEF Bounded
<1>5. r \in Sound
  BY <1>3, <1>4 DEF Sound
<1> QED BY <1>2, <1>3, <1>5 DEF r

LEMMA TimeOutSound ==
  ASSUME NEW s \in Sound, NEW p \in Pkts, s.entry[p] = "inflight"
  PROVE  TimeOut(s, p) \in Sound
<1> DEFINE t == TimeOut(s, p)
<1>1. s \in SrcState
  BY DEF Sound
<1> DEFINE u == IF s.unacked >= 1 THEN s.unacked - 1 ELSE 0
           w == IF RtoReduceCwnd THEN IF s.window >= 4 THEN s.window - 2 ELSE 2
                ELSE s.window
           e == [s.entry EXCEPT ![p] = "lost"]
<1>2. t \in SrcState
  <2>1. u \in Nat /\ w \in Nat /\ s.out \in SUBSET Pkts
    BY <1>1 DEF SrcState
  <2>2. e \in [Pkts -> EntryState]
    BY <1>1, EntryUpdate DEF EntryState, Listed
  <2>3. t = [s EXCEPT !.unacked = u, !.window = w, !.entry = e, !.out = s.out]
    BY <1>1 DEF TimeOut, ReduceUnacked, Minus, SrcState
  <2> HIDE DEF t, u, w, e
  <2> QED BY <1>1, <2>1, <2>2, <2>3, SrcUpdate
<1>3. /\ t.entry = [s.entry EXCEPT ![p] = "lost"]
      /\ t.highestSent = s.highestSent
      /\ t.finished = s.finished
      /\ t.unacked = IF s.unacked >= 1 THEN s.unacked - 1 ELSE 0
  BY <1>1 DEF TimeOut, ReduceUnacked, Minus, SrcState
<1>4. AwaitedSent(t)
  BY <1>1, <1>3 DEF AwaitedSent, Sound, SrcState
<1>5. InFlight(t) = InFlight(s) \ {p}
  BY <1>1, <1>3 DEF InFlight, SrcState
<1>6. Bounded(t)
  <2> HIDE DEF t
  <2>1. Cardinality(InFlight(t)) >= Cardinality(InFlight(s)) - 1
    BY <1>5, OneLess
  <2>2. s.unacked \in Nat /\ Bounded(s)
    BY DEF Sound, SrcState
  <2>3. Cardinality(InFlight(t)) \in Nat /\ Cardinality(InFlight(s)) \in Nat
    BY InFlightFinite
  <2> QED BY <2>1, <2>2, <2>3, <1>3 DEF Bounded
<1> QED BY <1>2, <1>4, <1>6 DEF Sound

LEMMA ResendPacketSound ==
  ASSUME NEW s \in Sound, NEW p \in Pkts, s.entry[p] = "lost"
  PROVE  ResendPacket(s, p) \in Sound
<1>1. s \in SrcState
  BY DEF Sound
<1>2. CASE 2 * s.unacked < s.window
  <2> DEFINE t == ResendPacket(s, p)
  <2>1. t = [s EXCEPT !.unacked = @ + 1, !.entry[p] = "inflight", !.out = @ \cup {p}]
    BY <1>2 DEF ResendPacket
  <2> DEFINE e == [s.entry EXCEPT ![p] = "inflight"]
             o == s.out \cup {p}
  <2>2. t \in SrcState
    <3>1. s.unacked + 1 \in Nat /\ s.window \in Nat /\ o \in SUBSET Pkts
      BY <1>1 DEF SrcState
    <3>2. e \in [Pkts -> EntryState]
      BY <1>1, EntryUpdate DEF EntryState, Listed
    <3>3. t = [s EXCEPT !.unacked = s.unacked + 1, !.window = s.window, !.entry = e, !.out = o]
      BY <2>1, <1>1 DEF SrcState
    <3> HIDE DEF t, e, o
    <3> QED BY <1>1, <3>1, <3>2, <3>3, SrcUpdate
  <2>3. /\ t.entry = [s.entry EXCEPT ![p] = "inflight"]
        /\ t.highestSent = s.highestSent
        /\ t.finished = s.finished
        /\ t.unacked = s.unacked + 1
    BY <2>1, <1>1 DEF SrcState
  <2>4. AwaitedSent(t)
    BY <1>1, <2>3 DEF AwaitedSent, Sound, SrcState
  <2>5. p \notin InFlight(s) /\ InFlight(t) = InFlight(s) \cup {p}
    BY <1>1, <2>3 DEF InFlight, SrcState
  <2>6. Bounded(t)
    <3> HIDE DEF t
    <3>1. Cardinality(InFlight(t)) = Cardinality(InFlight(s)) + 1
      BY <2>5, OneMore
    <3>2. s.unacked \in Nat /\ Bounded(s)
      BY DEF Sound, SrcState
    <3> QED BY <3>1, <3>2, InFlightFinite, <2>3 DEF Bounded
  <2> QED BY <2>2, <2>4, <2>6 DEF Sound
<1>3. CASE ~(2 * s.unacked < s.window)
  BY <1>1, <1>3 DEF ResendPacket, Sound, SrcState, AwaitedSent, Bounded, InFlight
<1> QED BY <1>2, <1>3

LEMMA MarkAckedSound ==
  ASSUME NEW s \in Sound, NEW p \in Pkts, s.entry[p] # "inflight"
  PROVE  [s EXCEPT !.entry[p] = "acked"] \in Sound
<1> DEFINE t == [s EXCEPT !.entry[p] = "acked"]
<1>1. s \in SrcState
  BY DEF Sound
<1>2. t \in SrcState
  BY <1>1 DEF SrcState, EntryState, Listed
<1>3. InFlight(t) = InFlight(s)
  BY <1>1 DEF InFlight, SrcState
<1>4. AwaitedSent(t)
  BY <1>1 DEF AwaitedSent, Sound, SrcState
<1>5. t.finished = s.finished /\ t.unacked = s.unacked
  BY <1>1 DEF SrcState
<1>6. Bounded(t)
  BY <1>3, <1>5 DEF Bounded, Sound
<1> QED BY <1>2, <1>4, <1>6 DEF Sound

LEMMA RetransmitStepSound ==
  ASSUME NEW s \in Sound, NEW p \in Pkts, NEW T
  PROVE  RetransmitStep(s, p, T) \in Sound
<1> DEFINE t == IF s.entry[p] = "inflight" /\ p \in T THEN TimeOut(s, p) ELSE s
<1>1. t \in Sound
  BY TimeOutSound
<1>2. RetransmitStep(s, p, T) =
        IF t.entry[p] # "lost" THEN t
        ELSE IF KnownComplete(t, p) THEN [t EXCEPT !.entry[p] = "acked"]
        ELSE ResendPacket(t, p)
  BY DEF RetransmitStep
<1> HIDE DEF t
<1> QED BY <1>1, <1>2, MarkAckedSound, ResendPacketSound

LEMMA EraseType ==
  ASSUME NEW s \in SrcState, NEW S
  PROVE  /\ Erase(s, S) \in SrcState
         /\ InFlight(Erase(s, S)) = InFlight(s) \ S
         /\ Erase(s, S).entry = [p \in Pkts |-> IF p \in S THEN "erased" ELSE s.entry[p]]
         /\ Erase(s, S).unacked = s.unacked
         /\ Erase(s, S).highestSent = s.highestSent
         /\ Erase(s, S).finished = s.finished
BY DEF Erase, SrcState, InFlight, EntryState, Listed

LEMMA EraseFields ==
  ASSUME NEW s \in SrcState, NEW S
  PROVE  /\ Erase(s, S).completed = s.completed
         /\ Erase(s, S).highestCompleted = s.highestCompleted
         /\ Erase(s, S).out = s.out
         /\ Erase(s, S).rtxPending = s.rtxPending
BY DEF Erase, SrcState

LEMMA EraseAwaited ==
  ASSUME NEW s \in SrcState, AwaitedSent(s), NEW S
  PROVE  AwaitedSent(Erase(s, S))
<1> DEFINE t == Erase(s, S)
<1>1. t.entry = [p \in Pkts |-> IF p \in S THEN "erased" ELSE s.entry[p]]
  BY EraseType
<1>2. t.highestSent = s.highestSent
  BY EraseType
<1> HIDE DEF t
<1>3. AwaitedSent(t)
  BY <1>1, <1>2 DEF AwaitedSent
<1> QED BY <1>3 DEF t

LEMMA FrontInList ==
  ASSUME NEW s, NEW S
  PROVE  /\ Front(s, S) \subseteq InList(s)
         /\ InList(s) \subseteq Pkts
         /\ \A p \in Front(s, S) : p \in S \/ s.entry[p] = "acked"
<1>1. \A p \in Pkts : p <= p
  BY NumPktsNat DEF Pkts
<1> QED BY <1>1 DEF Front, InList

LEMMA DropAckedFrontSound ==
  ASSUME NEW s \in Sound
  PROVE  DropAckedFront[s] \in Sound
<1>1. s \in SrcState /\ AwaitedSent(s) /\ Bounded(s)
  BY DEF Sound
<1>2. DropAckedFront[s] = IF ErasureCoded THEN Erase(s, Front(s, {})) ELSE s
  BY <1>1 DEF DropAckedFront
<1>3. InFlight(s) \ Front(s, {}) = InFlight(s)
  BY FrontInList DEF InFlight
<1>4. Erase(s, Front(s, {})) \in Sound
  BY <1>1, <1>3, EraseType, EraseAwaited, FrontInList DEF Sound, Bounded
<1> QED BY <1>2, <1>4

LEMMA RetransmitPacketSound ==
  ASSUME NEW s \in Sound, NEW T
  PROVE  RetransmitPacket(s, T) \in Sound
<1> DEFINE x == [s EXCEPT !.rtxPending = FALSE]
<1>1. x \in Sound
  BY DEF Sound, SrcState, AwaitedSent, Bounded, InFlight
<1>2. \A i \in 1 .. NumPkts : \A y \in Sound : RetransmitLoop(T)[i][y] \in Sound
  <2> TAKE i \in 1 .. NumPkts
  <2> TAKE y \in Sound
  <2>1. RetransmitLoop(T)[i][y] = RetransmitStep(y, i, T)
    BY DEF RetransmitLoop, Pkts, Sound
  <2> QED BY <2>1, RetransmitStepSound DEF Pkts
<1>3. RunLoop(RetransmitLoop(T), NumPkts, x) \in Sound
  <2> HIDE DEF x
  <2> QED BY <1>1, <1>2, NumPktsNat, LoopResult
<1> QED BY <1>3, DropAckedFrontSound DEF RetransmitPacket

LEMMA ParityNackStepSound ==
  ASSUME NEW s \in Sound, NEW p \in Pkts, NEW b
  PROVE  ParityNackStep(s, p, b) \in Sound
<1>1. CASE s.entry[p] \in {"inflight", "lost"} /\ ParityId(p) = b
  <2> DEFINE t == [ReduceUnacked(s, 1) EXCEPT !.entry[p] = "lost"]
             u == IF s.unacked >= 1 THEN s.unacked - 1 ELSE 0
             e == [s.entry EXCEPT ![p] = "lost"]
  <2>1. s \in SrcState
    BY DEF Sound
  <2>2. t \in SrcState
    <3>1. u \in Nat /\ s.window \in Nat /\ s.out \in SUBSET Pkts
      BY <2>1 DEF SrcState
    <3>2. e \in [Pkts -> EntryState]
      BY <2>1, EntryUpdate DEF EntryState, Listed
    <3>3. t = [s EXCEPT !.unacked = u, !.window = s.window, !.entry = e, !.out = s.out]
      BY <2>1 DEF ReduceUnacked, Minus, SrcState
    <3> HIDE DEF t, u, e
    <3> QED BY <2>1, <3>1, <3>2, <3>3, SrcUpdate
  <2>3. /\ t.entry = [s.entry EXCEPT ![p] = "lost"]
        /\ t.highestSent = s.highestSent
        /\ t.finished = s.finished
        /\ t.unacked = u
    BY <2>1 DEF ReduceUnacked, Minus, SrcState
  <2>4. AwaitedSent(t)
    BY <1>1, <2>1, <2>3 DEF AwaitedSent, Sound, SrcState
  <2>5. InFlight(t) = InFlight(s) \ {p}
    BY <2>1, <2>3, <1>1 DEF InFlight, SrcState
  <2>6. Bounded(t)
    <3> HIDE DEF t
    <3>1. Cardinality(InFlight(t)) >= Cardinality(InFlight(s)) - 1
      BY <2>5, OneLess
    <3>2. s.unacked \in Nat /\ Bounded(s)
      BY DEF Sound, SrcState
    <3> QED BY <3>1, <3>2, InFlightFinite, <2>3 DEF Bounded
  <2>7. t \in Sound
    BY <2>2, <2>4, <2>6 DEF Sound
  <2>8. t.entry[p] = "lost"
    BY <2>1, <2>3 DEF SrcState
  <2>9. ParityNackStep(s, p, b) = ResendPacket(t, p)
    BY <1>1 DEF ParityNackStep
  <2> HIDE DEF t
  <2> QED BY <2>7, <2>8, <2>9, ResendPacketSound
<1>2. CASE ~(s.entry[p] \in {"inflight", "lost"} /\ ParityId(p) = b)
  BY <1>2 DEF ParityNackStep
<1> QED BY <1>1, <1>2

LEMMA ProcessParityNackSound ==
  ASSUME NEW s \in Sound, NEW b
  PROVE  ProcessParityNack(s, b) \in Sound
<1>1. \A i \in 1 .. NumPkts : \A y \in Sound : ParityNackLoop(b)[i][y] \in Sound
  <2> TAKE i \in 1 .. NumPkts
  <2> TAKE y \in Sound
  <2>1. ParityNackLoop(b)[i][y] = ParityNackStep(y, i, b)
    BY DEF ParityNackLoop, Pkts, Sound
  <2> QED BY <2>1, ParityNackStepSound DEF Pkts
<1>2. RunLoop(ParityNackLoop(b), NumPkts, s) \in Sound
  BY <1>1, NumPktsNat, LoopResult
<1> QED BY <1>2 DEF ProcessParityNack

LEMMA SendNewPacketsSound ==
  ASSUME NEW s \in Sound
  PROVE  SendNewPackets[s] \in Sound
<1> DEFINE room == Minus(s.window \div 2, s.unacked)
           left == Minus(NumPkts, s.highestSent)
           k    == IF room < left THEN room ELSE left
           new  == s.highestSent + 1 .. s.highestSent + k
           e    == [p \in Pkts |-> IF p \in new THEN "inflight" ELSE s.entry[p]]
           t    == [s EXCEPT !.highestSent = @ + k, !.unacked = @ + k,
                             !.entry = e, !.out = @ \cup new]
<1>1. /\ s \in SrcState /\ AwaitedSent(s) /\ Bounded(s)
      /\ s.highestSent \in Nat /\ s.unacked \in Nat
  BY DEF Sound, SrcState
<1>2. SendNewPackets[s] = t
  BY <1>1 DEF SendNewPackets
<1>3. /\ k \in Nat
      /\ k > 0 => s.highestSent + k <= NumPkts
  <2>1. s.window \div 2 \in Nat
    BY <1>1 DEF SrcState
  <2>2. room \in Nat /\ left \in Nat
    BY <1>1, <2>1, NumPktsNat DEF Minus
  <2>3. left > 0 => s.highestSent + left <= NumPkts
    BY <1>1, NumPktsNat DEF Minus
  <2> HIDE DEF room, left
  <2> QED BY <1>1, <2>2, <2>3, NumPktsNat
<1> HIDE DEF k
<1>4. /\ new \subseteq Pkts
      /\ \A p \in new : p <= s.highestSent + k
      /\ \A p \in new : ~(p <= s.highestSent)
      /\ \A p \in Pkts : p <= s.highestSent => p <= s.highestSent + k
  BY <1>1, <1>3, NumPktsNat DEF Pkts, AwaitedSent
<1>5. IsFiniteSet(new) /\ Cardinality(new) = k
  <2>1. s.highestSent + 1 \in Int /\ s.highestSent + k \in Int
    BY <1>1, <1>3
  <2>2. /\ IsFiniteSet(s.highestSent + 1 .. s.highestSent + k)
        /\ Cardinality(s.highestSent + 1 .. s.highestSent + k) =
             IF s.highestSent + 1 > s.highestSent + k THEN 0
             ELSE (s.highestSent + k) - (s.highestSent + 1) + 1
    BY <2>1, FS_Interval
  <2> QED BY <1>1, <1>3, <2>2
<1> HIDE DEF new
<1>6. e \in [Pkts -> EntryState]
  BY <1>1 DEF SrcState, EntryState, Listed
<1>7. t \in SrcState
  <2> HIDE DEF e
  <2>1. s.highestSent + k \in Nat /\ s.unacked + k \in Nat
    BY <1>1, <1>3
  <2>2. s.out \cup new \in SUBSET Pkts
    BY <1>1, <1>4 DEF SrcState
  <2> QED BY <1>1, <1>6, <2>1, <2>2 DEF SrcState
<1>8. /\ t.entry = e
      /\ t.highestSent = s.highestSent + k
      /\ t.unacked = s.unacked + k
      /\ t.finished = s.finished
  BY <1>1 DEF SrcState
<1> HIDE DEF t
<1>9. AwaitedSent(t)
  BY <1>1, <1>4, <1>8 DEF AwaitedSent
<1>10. InFlight(t) = InFlight(s) \cup new /\ InFlight(s) \cap new = {}
  <2>1. InFlight(t) = InFlight(s) \cup new
    BY <1>4, <1>8 DEF InFlight
  <2>2. InFlight(s) \cap new = {}
    BY <1>1, <1>4 DEF InFlight, AwaitedSent
  <2> QED BY <2>1, <2>2
<1>11. Cardinality(InFlight(t)) = Cardinality(InFlight(s)) + k
  <2>1. Cardinality(InFlight(s) \cup new) =
          Cardinality(InFlight(s)) + Cardinality(new) - Cardinality(InFlight(s) \cap new)
    BY <1>5, InFlightFinite, FS_Union
  <2>2. Cardinality(InFlight(s) \cap new) = 0
    BY <1>10, FS_EmptySet
  <2>3. Cardinality(InFlight(s)) \in Nat
    BY InFlightFinite
  <2> QED BY <1>3, <1>5, <1>10, <2>1, <2>2, <2>3
<1>12. Bounded(t)
  BY <1>1, <1>3, <1>8, <1>11, InFlightFinite DEF Bounded
<1> QED BY <1>2, <1>7, <1>9, <1>12 DEF Sound

LEMMA SendPacketsSound ==
  ASSUME NEW s \in Sound, NEW T
  PROVE  SendPackets(s, T) \in Sound
<1>1. (IF s.rtxPending THEN RetransmitPacket(s, T) ELSE s) \in Sound
  BY RetransmitPacketSound
<1> QED BY <1>1, SendNewPacketsSound DEF SendPackets

-----------------------------------------------------------------------------
(* ACKs.                                                                   *)

LEMMA CumulativeAckSound ==
  ASSUME NEW s \in Sound, NEW n
  PROVE  CumulativeAck(ReduceUnacked(s, 1), n) \in Sound
<1> DEFINE r     == ReduceUnacked(s, 1)
           gone  == Front(r, 1 .. n)
           newly == {p \in gone : r.entry[p] # "acked"}
           x     == Erase(r, gone)
           m     == Minus(Cardinality(newly), 1)
           t     == ReduceUnacked(x, m)
<1>1. /\ s \in SrcState /\ AwaitedSent(s) /\ Bounded(s)
      /\ s.unacked \in Nat
  BY DEF Sound, SrcState
<1>2. /\ r \in SrcState /\ AwaitedSent(r)
      /\ InFlight(r) = InFlight(s)
      /\ r.entry = s.entry /\ r.finished = s.finished
      /\ r.unacked = IF s.unacked >= 1 THEN s.unacked - 1 ELSE 0
  BY ReduceOneSound
<1>3. t = CumulativeAck(r, n)
  BY DEF CumulativeAck
<1> HIDE DEF r
<1>4. gone \subseteq InList(r) /\ gone \subseteq Pkts
  BY FrontInList
<1>5. newly \subseteq Pkts /\ InFlight(r) \cap gone \subseteq newly
  BY <1>4 DEF InFlight
<1> HIDE DEF gone, newly
<1>6. IsFiniteSet(newly) /\ Cardinality(newly) \in Nat
  <2>1. IsFiniteSet(Pkts)
    BY PktsFinite
  <2>2. newly \in SUBSET Pkts
    BY <1>5
  <2> QED BY <2>1, <2>2, FS_Subset, FS_CardinalityType
<1>7. m \in Nat /\ Cardinality(newly) <= m + 1
  BY <1>6 DEF Minus
<1> HIDE DEF m
<1>8. /\ x \in SrcState /\ AwaitedSent(x)
      /\ InFlight(x) = InFlight(r) \ gone
      /\ x.unacked = r.unacked /\ x.finished = r.finished
  BY <1>2, <1>4, EraseType, EraseAwaited
<1> HIDE DEF x
<1>9. /\ t \in SrcState /\ AwaitedSent(t)
      /\ InFlight(t) = InFlight(x) /\ t.finished = x.finished
      /\ t.unacked = IF x.unacked >= m THEN x.unacked - m ELSE 0
  <2>1. /\ t.entry = x.entry /\ t.finished = x.finished /\ t.highestSent = x.highestSent
        /\ t.unacked = IF x.unacked >= m THEN x.unacked - m ELSE 0
    BY <1>8 DEF ReduceUnacked, Minus, SrcState
  <2> QED BY <1>7, <1>8, <2>1, ReduceUnackedType DEF AwaitedSent, InFlight
<1>10. Cardinality(InFlight(t)) >= Cardinality(InFlight(s)) - (m + 1)
  <2>1. Cardinality(InFlight(r) \ gone) =
          Cardinality(InFlight(r)) - Cardinality(InFlight(r) \cap gone)
    BY InFlightFinite, FS_Difference
  <2>2. Cardinality(InFlight(r) \cap gone) <= Cardinality(newly)
    BY <1>5, <1>6, FS_Subset
  <2>3. Cardinality(InFlight(r) \cap gone) \in Nat
    BY InFlightFinite, FS_Intersection, FS_CardinalityType
  <2>4. Cardinality(InFlight(r)) \in Nat
    BY InFlightFinite
  <2> QED BY <1>2, <1>6, <1>7, <1>8, <1>9, <2>1, <2>2, <2>3, <2>4
<1>11. Bounded(t)
  <2>1. Cardinality(InFlight(t)) \in Nat /\ Cardinality(InFlight(s)) \in Nat
    BY InFlightFinite
  <2> HIDE DEF t
  <2> QED BY <1>1, <1>2, <1>7, <1>8, <1>9, <1>10, <2>1 DEF Bounded
<1> QED BY <1>3, <1>9, <1>11 DEF Sound, r

LEMMA SelectiveAckSound ==
  ASSUME NEW s \in Sound, NEW n \in Pkts
  PROVE  SelectiveAck(ReduceUnacked(s, 1), n) \in Sound
<1> DEFINE r == ReduceUnacked(s, 1)
           x == Erase(r, Front(r, {n}))
           y == [r EXCEPT !.entry[n] = "acked"]
<1>1. s \in SrcState /\ AwaitedSent(s) /\ Bounded(s) /\ s.unacked \in Nat
  BY DEF Sound, SrcState
<1>2. /\ r \in SrcState /\ AwaitedSent(r)
      /\ InFlight(r) = InFlight(s)
      /\ r.entry = s.entry /\ r.finished = s.finished
      /\ r.unacked = IF s.unacked >= 1 THEN s.unacked - 1 ELSE 0
  BY ReduceOneSound
<1> HIDE DEF r
<1>3. ASSUME NEW t \in SrcState, AwaitedSent(t),
             t.finished = r.finished, t.unacked = r.unacked,
             InFlight(t) = InFlight(r) \/ InFlight(t) = InFlight(r) \ {n}
      PROVE  t \in Sound
  <2>1. Cardinality(InFlight(t)) \in Nat /\ Cardinality(InFlight(s)) \in Nat
    BY InFlightFinite
  <2>2. Cardinality(InFlight(t)) >= Cardinality(InFlight(s)) - 1
    <3>1. CASE InFlight(t) = InFlight(s)
      BY <2>1, <3>1
    <3>2. CASE InFlight(t) = InFlight(s) \ {n}
      BY <3>2, OneLess
    <3> QED BY <1>2, <1>3, <3>1, <3>2
  <2>3. Bounded(t)
    BY <1>1, <1>2, <1>3, <2>1, <2>2 DEF Bounded
  <2> QED BY <1>3, <2>3 DEF Sound
<1>4. r \in Sound
  BY ReduceOneSound DEF r
<1>5. x \in Sound
  <2>1. InFlight(r) \ Front(r, {n}) \in {InFlight(r), InFlight(r) \ {n}}
    BY FrontInList DEF InFlight
  <2>2. /\ x \in SrcState /\ AwaitedSent(x)
        /\ InFlight(x) = InFlight(r) \ Front(r, {n})
        /\ x.unacked = r.unacked /\ x.finished = r.finished
    BY <1>2, EraseType, EraseAwaited
  <2> HIDE DEF x
  <2> QED BY <1>3, <2>1, <2>2
<1>6. y \in Sound
  <2> DEFINE e == [r.entry EXCEPT ![n] = "acked"]
  <2>1. /\ y = [r EXCEPT !.unacked = r.unacked, !.window = r.window,
                         !.entry = e, !.out = r.out]
        /\ r.unacked \in Nat /\ r.window \in Nat /\ r.out \in SUBSET Pkts
        /\ y.entry = e /\ y.highestSent = r.highestSent
        /\ y.unacked = r.unacked /\ y.finished = r.finished
    BY <1>2 DEF SrcState
  <2>2. e \in [Pkts -> EntryState]
    BY <1>2, EntryUpdate DEF EntryState, Listed
  <2>3. \A p \in Pkts : e[p] = IF p = n THEN "acked" ELSE r.entry[p]
    BY <1>2 DEF SrcState
  <2> HIDE DEF y, e
  <2>4. y \in SrcState
    BY <1>2, <2>1, <2>2, SrcUpdate
  <2>5. AwaitedSent(y)
    BY <1>2, <2>1, <2>3 DEF AwaitedSent
  <2>6. InFlight(y) = InFlight(r) \ {n}
    BY <2>1, <2>3 DEF InFlight
  <2> QED BY <1>3, <2>1, <2>4, <2>5, <2>6
<1>7. SelectiveAck(r, n) \in {r, x, y}
  BY DEF SelectiveAck
<1> HIDE DEF x, y
<1>8. SelectiveAck(r, n) \in Sound
  BY <1>4, <1>5, <1>6, <1>7
<1> QED BY <1>8 DEF r

LEMMA UpdatePendingPacketsListSound ==
  ASSUME NEW s \in Sound, NEW a \in AckMsg
  PROVE  UpdatePendingPacketsList(ReduceUnacked(s, 1), a) \in Sound
<1>1. a.n \in Pkts
  BY DEF AckMsg
<1> QED BY <1>1, CumulativeAckSound, SelectiveAckSound DEF UpdatePendingPacketsList

LEMMA LearnCompletedSound ==
  ASSUME NEW s \in Sound, NEW a \in AckMsg
  PROVE  LearnCompleted(s, a) \in Sound
<1> DEFINE t == LearnCompleted(s, a)
<1>1. s \in SrcState /\ AwaitedSent(s) /\ Bounded(s) /\ a.highest \in Nat
  BY DEF Sound, AckMsg
<1>2. /\ t \in SrcState
      /\ t.entry = s.entry /\ t.highestSent = s.highestSent
      /\ t.unacked = s.unacked /\ t.finished = s.finished
  BY <1>1 DEF LearnCompleted, SrcState
<1> HIDE DEF t
<1>3. AwaitedSent(t) /\ Bounded(t)
  BY <1>1, <1>2 DEF AwaitedSent, Bounded, InFlight
<1>4. t \in Sound
  BY <1>2, <1>3 DEF Sound
<1> QED BY <1>4 DEF t

LEMMA FinishFlowSound ==
  ASSUME NEW s \in Sound
  PROVE  FinishFlow(s) \in Sound
<1> DEFINE x == Erase(s, InList(s))
           t == FinishFlow(s)
<1>1. x \in SrcState /\ AwaitedSent(x)
  BY EraseType, EraseAwaited DEF Sound
<1>2. t = [x EXCEPT !.finished = TRUE]
  BY DEF FinishFlow
<1> HIDE DEF x
<1>3. /\ t \in SrcState
      /\ t.entry = x.entry /\ t.highestSent = x.highestSent /\ t.finished = TRUE
  BY <1>1, <1>2 DEF SrcState
<1> HIDE DEF t
<1>4. t \in Sound
  BY <1>1, <1>3 DEF AwaitedSent, Bounded, Sound
<1> QED BY <1>4 DEF t

LEMMA AdjustWindowSound ==
  ASSUME NEW s \in Sound, NEW a \in AckMsg, NEW w \in Windows
  PROVE  AdjustWindow(s, a, w) \in Sound
<1> DEFINE t == AdjustWindow(s, a, w)
<1>1. s \in SrcState /\ AwaitedSent(s) /\ Bounded(s) /\ s.highestSent \in Nat
  BY DEF Sound, SrcState
<1>2. a.n \in Nat /\ w \in Nat
  BY WindowAssumption, NumPktsNat DEF AckMsg, Pkts
<1>3. /\ t \in SrcState
      /\ t.entry = s.entry /\ t.unacked = s.unacked /\ t.finished = s.finished
      /\ t.highestSent = IF a.n >= s.highestSent THEN a.n ELSE s.highestSent
  BY <1>1, <1>2 DEF AdjustWindow, SrcState
<1> HIDE DEF t
<1>4. \A p \in Pkts : p <= s.highestSent => p <= t.highestSent
  BY <1>1, <1>2, <1>3, NumPktsNat DEF Pkts
<1>5. AwaitedSent(t) /\ Bounded(t)
  BY <1>1, <1>3, <1>4 DEF AwaitedSent, Bounded, InFlight
<1>6. t \in Sound
  BY <1>3, <1>5 DEF Sound
<1> QED BY <1>6 DEF t

-----------------------------------------------------------------------------
(* The sink.                                                               *)

(* The reassembly finds the end of the run of packets that follows p.      *)
LEMMA AdvanceEnd ==
  ASSUME NEW k \in SinkState, NEW p \in Pkts
  PROVE  LET Q(n) == /\ p + 1 .. n \subseteq k.received
                     /\ n + 1 \notin k.received
             cum  == CHOOSE n \in p .. NumPkts : Q(n)
         IN  cum \in p .. NumPkts /\ Q(cum)
<1> DEFINE Q(n) == /\ p + 1 .. n \subseteq k.received
                  /\ n + 1 \notin k.received
<1>1. k.received \subseteq Pkts /\ p \in Nat
  BY NumPktsNat DEF SinkState, Pkts
<1>2. \E n \in p .. NumPkts : Q(n)
  <2> DEFINE G == {n \in Nat : n >= p /\ n + 1 \notin k.received}
  <2>1. NumPkts \in G
    BY <1>1, NumPktsNat DEF Pkts
  <2>2. PICK n \in G : \A m \in G : n <= m
    <3> HIDE DEF G
    <3>1. G \subseteq Nat
      BY DEF G
    <3> QED BY <2>1, <3>1, LeastNat
  <2>3. \A m \in p + 1 .. n : m \in k.received
    <3> TAKE m \in p + 1 .. n
    <3>1. m - 1 \in Nat /\ m - 1 >= p /\ ~(n <= m - 1) /\ (m - 1) + 1 = m
      BY <1>1, <2>2
    <3> QED BY <2>2, <3>1
  <2> QED BY <1>1, <2>1, <2>2, <2>3, NumPktsNat
<1> QED BY <1>2

LEMMA AdvanceType ==
  ASSUME NEW k \in SinkState, NEW p \in Pkts
  PROVE  /\ Advance(k, p) \in SinkState
         /\ Advance(k, p).cumulative >= p
<1> DEFINE cum == CHOOSE n \in p .. NumPkts :
                    /\ p + 1 .. n \subseteq k.received
                    /\ n + 1 \notin k.received
<1>1. k.received \subseteq Pkts /\ p \in Nat
  BY NumPktsNat DEF SinkState, Pkts
<1>2. cum \in p .. NumPkts
  BY AdvanceEnd
<1>3. Advance(k, p) = [k EXCEPT !.cumulative = cum, !.received = @ \ (p + 1 .. cum)]
  BY DEF Advance
<1> HIDE DEF cum
<1>4. cum \in 0 .. NumPkts /\ cum >= p
  BY <1>1, <1>2, NumPktsNat
<1> QED BY <1>3, <1>4 DEF SinkState

LEMMA StoreType ==
  ASSUME NEW k \in SinkState, NEW p \in Pkts
  PROVE  Store(k, p) \in SinkState
BY AdvanceType DEF Store, SinkState

LEMMA JoinBatchType ==
  ASSUME NEW k \in SinkState, NEW p \in Pkts
  PROVE  /\ JoinBatch(k, p) \in SinkState
         /\ JoinBatch(k, p).cumulative = k.cumulative
<1> DEFINE b == ParityId(p)
           B == [k.batch EXCEPT ![b] = @ \cup {p}]
           T == [k.timer EXCEPT ![b] = "armed"]
<1>1. k.batch \in [Batches -> SUBSET Pkts] /\ k.timer \in [Batches -> TimerState]
  BY DEF SinkState
<1>2. B \in [Batches -> SUBSET Pkts]
  BY <1>1
<1>3. T \in [Batches -> TimerState]
  BY <1>1 DEF TimerState
<1>4. JoinBatch(k, p) = [k EXCEPT !.batch = B, !.timer = T]
  BY DEF JoinBatch, SinkState
<1> HIDE DEF B, T
<1> QED BY <1>2, <1>3, <1>4 DEF SinkState

(* The sink finds the end of the run of completed groups.                  *)
LEMMA CloseBatchesEnd ==
  ASSUME NEW k \in SinkState
  PROVE  LET Q(n) == /\ \A b \in k.highestCompleted + 1 .. n : Reached(k, b)
                     /\ n < NumBatches => ~Reached(k, n + 1)
             h    == CHOOSE n \in k.highestCompleted .. NumBatches : Q(n)
         IN  h \in k.highestCompleted .. NumBatches /\ Q(h)
<1> DEFINE low  == k.highestCompleted
           Q(n) == /\ \A b \in low + 1 .. n : Reached(k, b)
                   /\ n < NumBatches => ~Reached(k, n + 1)
<1>1. low \in 0 .. NumBatches /\ low \in Nat
  BY NumBatchesNat DEF SinkState
<1>2. \E n \in low .. NumBatches : Q(n)
  <2> DEFINE G == {n \in low .. NumBatches : n < NumBatches => ~Reached(k, n + 1)}
  <2>1. NumBatches \in G /\ G \subseteq Nat
    BY <1>1, NumBatchesNat
  <2>2. PICK n \in G : \A m \in G : n <= m
    <3> HIDE DEF G
    <3> QED BY <2>1, LeastNat
  <2>3. \A b \in low + 1 .. n : Reached(k, b)
    <3> TAKE b \in low + 1 .. n
    <3>1. /\ b - 1 \in low .. NumBatches /\ b - 1 < NumBatches
          /\ ~(n <= b - 1) /\ (b - 1) + 1 = b
      BY <1>1, <2>2, NumBatchesNat
    <3> QED BY <2>2, <3>1
  <2> QED BY <2>2, <2>3
<1> QED BY <1>2

LEMMA CloseBatchesType ==
  ASSUME NEW k \in SinkState
  PROVE  /\ CloseBatches(k) \in SinkState
         /\ CloseBatches(k).cumulative = k.cumulative
<1> DEFINE h == CHOOSE n \in k.highestCompleted .. NumBatches :
                  /\ \A b \in k.highestCompleted + 1 .. n : Reached(k, b)
                  /\ n < NumBatches => ~Reached(k, n + 1)
           B == [b \in Batches |-> IF b <= h THEN {} ELSE k.batch[b]]
           T == [b \in Batches |-> IF b <= h THEN "absent" ELSE k.timer[b]]
<1>1. k.highestCompleted \in 0 .. NumBatches
  BY DEF SinkState
<1>2. h \in k.highestCompleted .. NumBatches
  BY CloseBatchesEnd
<1>3. CloseBatches(k) = [k EXCEPT !.highestCompleted = h, !.batch = B, !.timer = T]
  BY DEF CloseBatches
<1> HIDE DEF h
<1>4. B \in [Batches -> SUBSET Pkts] /\ T \in [Batches -> TimerState]
  BY DEF SinkState, TimerState
<1> HIDE DEF B, T
<1>5. h \in 0 .. NumBatches
  BY <1>1, <1>2, NumBatchesNat
<1> QED BY <1>3, <1>4, <1>5 DEF SinkState

-----------------------------------------------------------------------------
(* The inductive invariant.                                                *)

IInv == TypeOK /\ src \in Sound

LEMMA LeaveSound ==
  ASSUME TypeOK, NEW s \in Sound, Leave(s)
  PROVE  src' \in Sound /\ dataNet' \in [Pkts -> Nat]
<1>1. src' = [s EXCEPT !.out = {}]
  BY DEF Leave
<1>2. /\ src' \in SrcState
      /\ src'.entry = s.entry /\ src'.highestSent = s.highestSent
      /\ src'.unacked = s.unacked /\ src'.finished = s.finished
  BY <1>1 DEF Sound, SrcState
<1>3. AwaitedSent(src') /\ Bounded(src')
  <2>1. AwaitedSent(s) /\ Bounded(s)
    BY DEF Sound
  <2>2. AwaitedSent(src')
    BY <1>2, <2>1 DEF AwaitedSent
  <2>3. InFlight(src') = InFlight(s)
    BY <1>2 DEF InFlight
  <2> QED BY <1>2, <2>1, <2>2, <2>3 DEF Bounded
<1>4. src' \in Sound
  BY <1>2, <1>3 DEF Sound
<1>5. dataNet' \in [Pkts -> Nat]
  BY DEF Leave, TypeOK
<1> QED BY <1>4, <1>5

LEMMA SpendType ==
  ASSUME TypeOK, NEW s, NEW T, T \subseteq InFlight(s), Spend(T)
  PROVE  budget' \in [loss : 0 .. MaxLoss, spurious : 0 .. MaxSpurious]
<1> DEFINE S     == {p \in T : Outstanding(p)}
           early == Cardinality(S)
<1>1. early \in Nat
  <2>1. S \in SUBSET InFlight(s)
    OBVIOUS
  <2> HIDE DEF S
  <2> QED BY <2>1, InFlightFinite, FS_Subset, FS_CardinalityType
<1>2. /\ early <= budget.spurious
      /\ budget' = [budget EXCEPT !.spurious = @ - early]
  BY DEF Spend
<1> HIDE DEF early
<1> QED BY <1>1, <1>2, BoundAssumption DEF TypeOK

LEMMA ExpiredInFlight ==
  ASSUME NEW s, NEW T \in Expired(s)
  PROVE  T \subseteq InFlight(s)
BY DEF Expired

LEMMA InitIInv == Init => IInv
<1> SUFFICES ASSUME Init PROVE IInv
  OBVIOUS
<1>1. PICK w \in Windows :
        src = [highestSent |-> 0, unacked |-> 0, window |-> w,
               entry |-> [p \in Pkts |-> "unsent"], rtxPending |-> FALSE,
               completed |-> {}, highestCompleted |-> 0,
               finished |-> FALSE, out |-> {}]
  BY DEF Init
<1>2. src \in SrcState
  <2>1. w \in Nat
    BY WindowAssumption
  <2> QED BY <1>1, <2>1 DEF SrcState, EntryState, Listed
<1>3. AwaitedSent(src) /\ Bounded(src)
  BY <1>1, InFlightFinite DEF AwaitedSent, Bounded
<1>4. sink \in SinkState
  BY NumPktsNat, NumBatchesNat DEF Init, SinkState, TimerState
<1>5. /\ IsABag(acks) /\ DOMAIN acks \subseteq AckMsg
      /\ IsABag(nacks) /\ DOMAIN nacks \subseteq Batches
  <2>1. acks = EmptyBag /\ nacks = EmptyBag
    BY DEF Init
  <2>2. IsABag(EmptyBag) /\ DOMAIN EmptyBag = {}
    BY DEF EmptyBag, SetToBag, IsABag
  <2> QED BY <2>1, <2>2
<1>6. /\ dataNet \in [Pkts -> Nat]
      /\ wake \in 0 .. MaxWake
      /\ budget \in [loss : 0 .. MaxLoss, spurious : 0 .. MaxSpurious]
  BY BoundAssumption DEF Init
<1> QED BY <1>2, <1>3, <1>4, <1>5, <1>6 DEF IInv, TypeOK, Sound

LEMMA DoNextEventIInv == IInv /\ DoNextEvent => IInv'
<1> SUFFICES ASSUME IInv, DoNextEvent PROVE IInv'
  OBVIOUS
<1>1. TypeOK /\ src \in Sound
  BY DEF IInv
<1>2. PICK T \in Expired(src) : Spend(T) /\ Leave(SendPackets(src, T))
  BY DEF DoNextEvent
<1>3. src' \in Sound /\ dataNet' \in [Pkts -> Nat]
  BY <1>1, <1>2, SendPacketsSound, LeaveSound
<1>4. budget' \in [loss : 0 .. MaxLoss, spurious : 0 .. MaxSpurious]
  BY <1>1, <1>2, ExpiredInFlight, SpendType
<1>5. wake' \in 0 .. MaxWake
  BY <1>1, BoundAssumption DEF DoNextEvent, TypeOK
<1>6. UNCHANGED <<sink, acks, nacks>>
  BY DEF DoNextEvent
<1> QED BY <1>1, <1>3, <1>4, <1>5, <1>6 DEF IInv, TypeOK, Sound

LEMMA RtxScanIInv ==
  ASSUME IInv, NEW T \in SUBSET InFlight(src), RtxScan(T)
  PROVE  IInv'
<1>1. TypeOK /\ src \in Sound
  BY DEF IInv
<1>2. src' \in Sound /\ dataNet' \in [Pkts -> Nat]
  <2>1. Leave(RetransmitPacket(src, T))
    BY DEF RtxScan
  <2> QED BY <1>1, <2>1, RetransmitPacketSound, LeaveSound
<1>3. budget' \in [loss : 0 .. MaxLoss, spurious : 0 .. MaxSpurious]
  <2>1. Spend(T)
    BY DEF RtxScan
  <2> QED BY <1>1, <2>1, SpendType
<1>4. UNCHANGED <<sink, acks, nacks, wake>>
  BY DEF RtxScan
<1> QED BY <1>1, <1>2, <1>3, <1>4 DEF IInv, TypeOK, Sound

LEMMA WakeLaterType ==
  ASSUME TypeOK, wake < MaxWake, NEW s, WakeLater(s)
  PROVE  wake' \in 0 .. MaxWake
<1>1. wake' \in {wake, wake + 1}
  BY DEF WakeLater
<1> QED BY <1>1, BoundAssumption DEF TypeOK

LEMMA ReceiveAckIInv ==
  ASSUME IInv, NEW a \in DOMAIN acks, ReceiveAck(a)
  PROVE  IInv'
<1>1. TypeOK /\ src \in Sound /\ a \in AckMsg /\ wake < MaxWake
  BY DEF IInv, TypeOK, ReceiveAck
<1>2. IsABag(acks') /\ DOMAIN acks' \subseteq AckMsg
  <2>1. acks' = acks (-) SetToBag({a}) /\ IsABag(acks) /\ DOMAIN acks \subseteq AckMsg
    BY <1>1 DEF ReceiveAck, TypeOK
  <2> QED BY <2>1, BagRemoveType
<1> DEFINE s == LearnCompleted(UpdatePendingPacketsList(ReduceUnacked(src, 1), a), a)
<1>3. s \in Sound
  BY <1>1, UpdatePendingPacketsListSound, LearnCompletedSound
<1>4. \/ /\ Leave(s)
         /\ UNCHANGED <<wake, budget>>
      \/ /\ Leave(FinishFlow(s))
         /\ CancelWake
         /\ UNCHANGED budget
      \/ \E w \in Windows, T \in Expired(s) :
           /\ Spend(T)
           /\ Leave(SendPackets(AdjustWindow(s, a, w), T))
           /\ WakeLater(SendPackets(AdjustWindow(s, a, w), T))
  BY DEF ReceiveAck
<1> HIDE DEF s
<1>5. /\ src' \in Sound /\ dataNet' \in [Pkts -> Nat]
      /\ wake' \in 0 .. MaxWake
      /\ budget' \in [loss : 0 .. MaxLoss, spurious : 0 .. MaxSpurious]
  <2>1. CASE Leave(s) /\ UNCHANGED <<wake, budget>>
    <3>1. src' \in Sound /\ dataNet' \in [Pkts -> Nat]
      BY <1>1, <1>3, <2>1, LeaveSound
    <3> QED BY <1>1, <2>1, <3>1 DEF TypeOK
  <2>2. CASE Leave(FinishFlow(s)) /\ CancelWake /\ UNCHANGED budget
    <3>1. src' \in Sound /\ dataNet' \in [Pkts -> Nat]
      BY <1>1, <1>3, <2>2, FinishFlowSound, LeaveSound
    <3>2. wake' \in 0 .. MaxWake
      BY <1>1, <2>2, BoundAssumption DEF CancelWake, Minus, TypeOK
    <3> QED BY <1>1, <2>2, <3>1, <3>2 DEF TypeOK
  <2>3. ASSUME NEW w \in Windows, NEW T \in Expired(s), Spend(T),
               Leave(SendPackets(AdjustWindow(s, a, w), T)),
               WakeLater(SendPackets(AdjustWindow(s, a, w), T))
        PROVE  /\ src' \in Sound /\ dataNet' \in [Pkts -> Nat]
               /\ wake' \in 0 .. MaxWake
               /\ budget' \in [loss : 0 .. MaxLoss, spurious : 0 .. MaxSpurious]
    <3>1. SendPackets(AdjustWindow(s, a, w), T) \in Sound
      BY <1>1, <1>3, AdjustWindowSound, SendPacketsSound
    <3>2. src' \in Sound /\ dataNet' \in [Pkts -> Nat]
      BY <1>1, <2>3, <3>1, LeaveSound
    <3>3. budget' \in [loss : 0 .. MaxLoss, spurious : 0 .. MaxSpurious]
      BY <1>1, <2>3, ExpiredInFlight, SpendType
    <3>4. wake' \in 0 .. MaxWake
      BY <1>1, <2>3, WakeLaterType
    <3> QED BY <3>2, <3>3, <3>4
  <2> QED BY <1>4, <2>1, <2>2, <2>3
<1>6. UNCHANGED <<sink, nacks>>
  BY DEF ReceiveAck
<1> QED BY <1>1, <1>2, <1>5, <1>6 DEF IInv, TypeOK, Sound

LEMMA ReceiveNackIInv ==
  ASSUME IInv, NEW b \in DOMAIN nacks, ReceiveNack(b)
  PROVE  IInv'
<1>1. TypeOK /\ src \in Sound /\ wake < MaxWake
  BY DEF IInv, ReceiveNack
<1>2. IsABag(nacks') /\ DOMAIN nacks' \subseteq Batches
  <2>1. nacks' = nacks (-) SetToBag({b}) /\ IsABag(nacks) /\ DOMAIN nacks \subseteq Batches
    BY <1>1 DEF ReceiveNack, TypeOK
  <2> QED BY <2>1, BagRemoveType
<1> DEFINE s == ProcessParityNack(ReduceUnacked(src, 1), b)
<1>3. s \in Sound
  BY <1>1, ReduceOneSound, ProcessParityNackSound
<1>4. Leave(s) /\ WakeLater(s) /\ UNCHANGED <<sink, acks, budget>>
  BY DEF ReceiveNack
<1> HIDE DEF s
<1>5. src' \in Sound /\ dataNet' \in [Pkts -> Nat]
  BY <1>1, <1>3, <1>4, LeaveSound
<1>6. wake' \in 0 .. MaxWake
  BY <1>1, <1>4, WakeLaterType
<1> QED BY <1>1, <1>2, <1>4, <1>5, <1>6 DEF IInv, TypeOK, Sound

LEMMA ReceiveDataIInv ==
  ASSUME IInv, NEW p \in Pkts, ReceiveData(p)
  PROVE  IInv'
<1>1. TypeOK /\ src \in Sound /\ sink \in SinkState /\ p \in Nat
  BY NumPktsNat DEF IInv, TypeOK, Pkts
<1> DEFINE k == Store(sink, p)
           j == IF Opens(k, p) THEN JoinBatch(k, p) ELSE k
           l == IF Opens(k, p) THEN CloseBatches(j) ELSE j
           a == [cumulative |-> p <= l.cumulative,
                 n |-> IF p <= l.cumulative THEN l.cumulative ELSE p,
                 completed |-> IF Opens(k, p) /\ Reached(j, ParityId(p))
                               THEN ParityId(p) ELSE 0,
                 highest |-> l.highestCompleted]
<1>2. /\ sink' = l
      /\ acks' = acks (+) SetToBag({a})
      /\ dataNet' = [dataNet EXCEPT ![p] = @ - 1]
      /\ dataNet[p] > 0
      /\ UNCHANGED <<src, nacks, wake, budget>>
  BY DEF ReceiveData
<1>3. k \in SinkState
  BY <1>1, StoreType
<1> HIDE DEF k
<1>4. j \in SinkState
  BY <1>3, JoinBatchType
<1> HIDE DEF j
<1>5. l \in SinkState
  BY <1>4, CloseBatchesType
<1> HIDE DEF l
<1>6. a \in AckMsg
  <2>1. p <= l.cumulative => l.cumulative \in Pkts
    BY <1>1, <1>5, NumPktsNat DEF SinkState, Pkts
  <2>2. l.highestCompleted \in Nat
    BY <1>5, NumBatchesNat DEF SinkState
  <2>3. ParityId(p) \in Nat
    BY ParityIdNat
  <2> QED BY <2>1, <2>2, <2>3 DEF AckMsg
<1> HIDE DEF a
<1>7. IsABag(acks') /\ DOMAIN acks' \subseteq AckMsg
  <2>1. IsABag(acks) /\ DOMAIN acks \subseteq AckMsg /\ {a} \in SUBSET AckMsg
    BY <1>1, <1>6 DEF TypeOK
  <2> QED BY <1>2, <2>1, BagPlusSetType
<1>8. dataNet' \in [Pkts -> Nat]
  BY <1>1, <1>2 DEF TypeOK
<1> QED BY <1>1, <1>2, <1>5, <1>7, <1>8 DEF IInv, TypeOK, Sound

LEMMA ParityScanIInv ==
  ASSUME IInv, NEW E \in SUBSET Batches, ParityScan(E)
  PROVE  IInv'
<1>1. TypeOK /\ src \in Sound
  BY DEF IInv
<1> DEFINE early == Cardinality({b \in E : ~Quiet(b)})
<1>2. /\ early <= budget.spurious
      /\ budget' = [budget EXCEPT !.spurious = @ - early]
      /\ sink' = [sink EXCEPT !.timer =
                    [b \in Batches |-> IF b \in E THEN "off" ELSE sink.timer[b]]]
      /\ nacks' = nacks (+) SetToBag(E)
      /\ UNCHANGED <<src, dataNet, acks, wake>>
  BY DEF ParityScan
<1>3. early \in Nat
  <2>1. IsFiniteSet(Batches)
    BY NumBatchesNat, FS_Interval, FS_EmptySet DEF Batches
  <2>2. {b \in E : ~Quiet(b)} \in SUBSET Batches
    OBVIOUS
  <2> QED BY <2>1, <2>2, FS_Subset, FS_CardinalityType
<1> HIDE DEF early
<1>4. budget' \in [loss : 0 .. MaxLoss, spurious : 0 .. MaxSpurious]
  BY <1>1, <1>2, <1>3, BoundAssumption DEF TypeOK
<1>5. sink' \in SinkState
  BY <1>1, <1>2 DEF TypeOK, SinkState, TimerState
<1>6. IsABag(nacks') /\ DOMAIN nacks' \subseteq Batches
  <2>1. IsABag(nacks) /\ DOMAIN nacks \subseteq Batches
    BY <1>1 DEF TypeOK
  <2> QED BY <1>2, <2>1, BagPlusSetType
<1> QED BY <1>1, <1>2, <1>4, <1>5, <1>6 DEF IInv, TypeOK, Sound

LEMMA LoseIInv == IInv /\ Lose => IInv'
<1> SUFFICES ASSUME IInv, Lose PROVE IInv'
  OBVIOUS
<1>1. TypeOK /\ src \in Sound
  BY DEF IInv
<1>2. budget' \in [loss : 0 .. MaxLoss, spurious : 0 .. MaxSpurious]
  BY <1>1, BoundAssumption DEF Lose, TypeOK
<1>3. dataNet' \in [Pkts -> Nat]
  BY <1>1 DEF Lose, TypeOK
<1>4. IsABag(acks') /\ DOMAIN acks' \subseteq AckMsg
  <2>1. IsABag(acks) /\ DOMAIN acks \subseteq AckMsg
    BY <1>1 DEF TypeOK
  <2>2. CASE acks' = acks
    BY <2>1, <2>2
  <2>3. ASSUME NEW a \in DOMAIN acks, acks' = acks (-) SetToBag({a})
        PROVE  IsABag(acks') /\ DOMAIN acks' \subseteq AckMsg
    BY <2>1, <2>3, BagRemoveType
  <2> QED BY <2>2, <2>3 DEF Lose
<1>5. IsABag(nacks') /\ DOMAIN nacks' \subseteq Batches
  <2>1. IsABag(nacks) /\ DOMAIN nacks \subseteq Batches
    BY <1>1 DEF TypeOK
  <2>2. CASE nacks' = nacks
    BY <2>1, <2>2
  <2>3. ASSUME NEW b \in DOMAIN nacks, nacks' = nacks (-) SetToBag({b})
        PROVE  IsABag(nacks') /\ DOMAIN nacks' \subseteq Batches
    BY <2>1, <2>3, BagRemoveType
  <2> QED BY <2>2, <2>3 DEF Lose
<1>6. UNCHANGED <<src, sink, wake>>
  BY DEF Lose
<1> QED BY <1>1, <1>2, <1>3, <1>4, <1>5, <1>6 DEF IInv, TypeOK, Sound

LEMMA NextIInv == IInv /\ [Next]_vars => IInv'
<1> SUFFICES ASSUME IInv, [Next]_vars PROVE IInv'
  OBVIOUS
<1>1. CASE DoNextEvent
  BY <1>1, DoNextEventIInv
<1>2. ASSUME NEW T \in SUBSET InFlight(src), RtxScan(T) PROVE IInv'
  BY <1>2, RtxScanIInv
<1>3. ASSUME NEW a \in DOMAIN acks, ReceiveAck(a) PROVE IInv'
  BY <1>3, ReceiveAckIInv
<1>4. ASSUME NEW b \in DOMAIN nacks, ReceiveNack(b) PROVE IInv'
  BY <1>4, ReceiveNackIInv
<1>5. ASSUME NEW p \in Pkts, ReceiveData(p) PROVE IInv'
  BY <1>5, ReceiveDataIInv
<1>6. ASSUME NEW E \in SUBSET Batches, ParityScan(E) PROVE IInv'
  BY <1>6, ParityScanIInv
<1>7. CASE Lose
  BY <1>7, LoseIInv
<1>8. CASE UNCHANGED vars
  BY <1>8 DEF vars, IInv, TypeOK, Sound
<1> QED BY <1>1, <1>2, <1>3, <1>4, <1>5, <1>6, <1>7, <1>8 DEF Next

-----------------------------------------------------------------------------
(* Every reachable state of the transport has the types of TypeOK.         *)
THEOREM TypeCorrect == Spec => []TypeOK
<1>1. Spec => []IInv
  BY InitIInv, NextIInv, PTL DEF Spec
<1>2. IInv => TypeOK
  BY DEF IInv
<1> QED BY <1>1, <1>2, PTL

(* reduce_unacked and its callers never let _unacked run ahead of the      *)
(* packets in flight, for flows of every length, with and without erasure  *)
(* coding, whatever the network loses and however often timers fire early. *)
THEOREM InFlightBounded == Spec => []InFlightBound
<1>1. Spec => []IInv
  BY InitIInv, NextIInv, PTL DEF Spec
<1>2. IInv => InFlightBound
  BY DEF IInv, Sound, Bounded, InFlightBound
<1> QED BY <1>1, <1>2, PTL

-----------------------------------------------------------------------------
(* Lost packets.                                                           *)

Pending(s) == \A p \in Pkts : s.entry[p] = "lost" => s.rtxPending

\* The senders that remember every lost packet.
Remembering == {s \in Sound : Pending(s)}

LEMMA RememberingUpdate ==
  ASSUME NEW s \in Remembering, NEW t \in Sound, t.rtxPending = s.rtxPending,
         \A p \in Pkts : t.entry[p] = "lost" => s.entry[p] = "lost"
  PROVE  t \in Remembering
BY DEF Remembering, Pending

LEMMA EraseLost ==
  ASSUME NEW s \in SrcState, NEW S
  PROVE  /\ Erase(s, S).rtxPending = s.rtxPending
         /\ \A p \in Pkts : Erase(s, S).entry[p] = "lost" => s.entry[p] = "lost"
<1>1. Erase(s, S).entry = [p \in Pkts |-> IF p \in S THEN "erased" ELSE s.entry[p]]
  BY EraseType
<1>2. \A p \in Pkts : [q \in Pkts |-> IF q \in S THEN "erased" ELSE s.entry[q]][p] = "lost"
                         => s.entry[p] = "lost"
  OBVIOUS
<1>3. Erase(s, S).rtxPending = s.rtxPending
  BY EraseFields
<1> QED BY <1>1, <1>2, <1>3

LEMMA ResendPacketFields ==
  ASSUME NEW s \in SrcState, NEW p \in Pkts
  PROVE  \/ /\ ResendPacket(s, p).entry = s.entry
            /\ ResendPacket(s, p).rtxPending = TRUE
         \/ /\ ResendPacket(s, p).entry = [s.entry EXCEPT ![p] = "inflight"]
            /\ ResendPacket(s, p).rtxPending = s.rtxPending
BY DEF ResendPacket, SrcState

(* After i rounds of the loop of retransmit_packet the lost packets up to  *)
(* i are remembered.                                                       *)
RememberedTo(i) ==
  {s \in Sound : \A p \in Pkts : p <= i /\ s.entry[p] = "lost" => s.rtxPending}

LEMMA RetransmitStepRemembers ==
  ASSUME NEW i \in Pkts, NEW s \in RememberedTo(i - 1), NEW T
  PROVE  RetransmitStep(s, i, T) \in RememberedTo(i)
<1> DEFINE t == IF s.entry[i] = "inflight" /\ i \in T THEN TimeOut(s, i) ELSE s
           u == RetransmitStep(s, i, T)
<1>1. /\ s \in Sound /\ s \in SrcState /\ t \in Sound /\ u \in Sound
      /\ s.entry \in [Pkts -> EntryState]
  BY TimeOutSound, RetransmitStepSound DEF RememberedTo, Sound, SrcState
<1>2. /\ \A p \in Pkts : p # i => t.entry[p] = s.entry[p]
      /\ t.rtxPending = s.rtxPending
  BY <1>1 DEF TimeOut, ReduceUnacked, Minus, SrcState
<1>3. u = IF t.entry[i] # "lost" THEN t
          ELSE IF KnownComplete(t, i) THEN [t EXCEPT !.entry[i] = "acked"]
          ELSE ResendPacket(t, i)
  BY DEF RetransmitStep
<1> HIDE DEF t, u
<1>4. t \in SrcState /\ t.entry \in [Pkts -> EntryState]
  BY <1>1 DEF Sound, SrcState
<1>5. /\ \A p \in Pkts : p # i => u.entry[p] = t.entry[p]
      /\ u.rtxPending = t.rtxPending \/ u.rtxPending = TRUE
      /\ u.entry[i] = "lost" => u.rtxPending = TRUE
  <2>1. CASE t.entry[i] # "lost"
    BY <1>3, <2>1
  <2>2. CASE t.entry[i] = "lost" /\ KnownComplete(t, i)
    <3>1. u = [t EXCEPT !.entry[i] = "acked"]
      BY <1>3, <2>2
    <3> QED BY <1>4, <3>1 DEF SrcState
  <2>3. CASE t.entry[i] = "lost" /\ ~KnownComplete(t, i)
    <3>1. u = ResendPacket(t, i)
      BY <1>3, <2>3
    <3>2. \/ u.entry = t.entry /\ u.rtxPending = TRUE
          \/ u.entry = [t.entry EXCEPT ![i] = "inflight"] /\ u.rtxPending = t.rtxPending
      BY <1>4, <3>1, ResendPacketFields
    <3> QED BY <1>4, <3>2
  <2> QED BY <2>1, <2>2, <2>3
<1>6. \A p \in Pkts : p <= i /\ p # i => p <= i - 1
  BY NumPktsNat DEF Pkts
<1>7. u \in RememberedTo(i)
  BY <1>1, <1>2, <1>5, <1>6 DEF RememberedTo
<1> QED BY <1>7 DEF u

LEMMA RetransmitPacketRemembers ==
  ASSUME NEW s \in Sound, NEW T
  PROVE  RetransmitPacket(s, T) \in Remembering
<1> DEFINE I == [i \in 0 .. NumPkts |-> RememberedTo(i)]
           x == [s EXCEPT !.rtxPending = FALSE]
           y == RunLoop(RetransmitLoop(T), NumPkts, x)
           t == DropAckedFront[y]
<1>1. x \in I[0]
  <2>1. x \in Sound
    BY DEF Sound, SrcState, AwaitedSent, Bounded, InFlight
  <2>2. \A p \in Pkts : ~(p <= 0)
    BY NumPktsNat DEF Pkts
  <2>3. x \in RememberedTo(0)
    BY <2>1, <2>2 DEF RememberedTo
  <2> QED BY <2>3, NumPktsNat
<1>2. \A i \in 1 .. NumPkts : \A z \in I[i - 1] : RetransmitLoop(T)[i][z] \in I[i]
  <2> TAKE i \in 1 .. NumPkts
  <2> TAKE z \in I[i - 1]
  <2>1. i \in Pkts /\ z \in RememberedTo(i - 1) /\ I[i] = RememberedTo(i)
    BY NumPktsNat DEF Pkts
  <2>2. RetransmitLoop(T)[i][z] = RetransmitStep(z, i, T)
    BY <2>1 DEF RetransmitLoop, RememberedTo, Sound
  <2> QED BY <2>1, <2>2, RetransmitStepRemembers
<1>3. y \in I[NumPkts]
  <2> HIDE DEF x, I
  <2> QED BY <1>1, <1>2, NumPktsNat, LoopRounds
<1>4. y \in RememberedTo(NumPkts)
  BY <1>3, NumPktsNat
<1> HIDE DEF x, y
<1>5. y \in Remembering /\ y \in SrcState
  BY <1>4, NumPktsNat DEF Remembering, Pending, RememberedTo, Sound, Pkts
<1>6. t \in Sound
  BY <1>5, DropAckedFrontSound DEF Remembering
<1>7. t.rtxPending = y.rtxPending /\ \A p \in Pkts : t.entry[p] = "lost" => y.entry[p] = "lost"
  <2>1. t = IF ErasureCoded THEN Erase(y, Front(y, {})) ELSE y
    BY <1>5 DEF DropAckedFront
  <2> QED BY <1>5, <2>1, EraseLost
<1> HIDE DEF t
<1>8. t \in Remembering
  BY <1>5, <1>6, <1>7, RememberingUpdate
<1> QED BY <1>8 DEF RetransmitPacket, t, y, x

LEMMA SendPacketsRemembers ==
  ASSUME NEW s \in Remembering, NEW T
  PROVE  SendPackets(s, T) \in Remembering
<1> DEFINE t == IF s.rtxPending THEN RetransmitPacket(s, T) ELSE s
           u == SendNewPackets[t]
<1>1. t \in Remembering
  BY RetransmitPacketRemembers DEF Remembering
<1>2. SendPackets(s, T) = u
  BY DEF SendPackets
<1> HIDE DEF t
<1>3. t \in Sound /\ t \in SrcState
  BY <1>1 DEF Remembering, Sound
<1>4. u \in Sound
  BY <1>3, SendNewPacketsSound
<1>5. u.rtxPending = t.rtxPending /\ \A p \in Pkts : u.entry[p] = "lost" => t.entry[p] = "lost"
  <2>1. \E new : /\ u.entry = [p \in Pkts |-> IF p \in new THEN "inflight" ELSE t.entry[p]]
                 /\ u.rtxPending = t.rtxPending
    BY <1>3 DEF SendNewPackets, SrcState
  <2> QED BY <2>1
<1> HIDE DEF u
<1> QED BY <1>1, <1>2, <1>4, <1>5, RememberingUpdate

LEMMA ProcessParityNackRemembers ==
  ASSUME NEW s \in Remembering, NEW b
  PROVE  ProcessParityNack(s, b) \in Remembering
<1>1. \A i \in 1 .. NumPkts : \A z \in Remembering : ParityNackLoop(b)[i][z] \in Remembering
  <2> TAKE i \in 1 .. NumPkts
  <2> TAKE z \in Remembering
  <2> DEFINE r == [ReduceUnacked(z, 1) EXCEPT !.entry[i] = "lost"]
             u == ParityNackStep(z, i, b)
  <2>1. i \in Pkts /\ z \in Sound /\ z \in SrcState /\ Pending(z)
    BY DEF Pkts, Remembering, Sound
  <2>2. ParityNackLoop(b)[i][z] = u
    BY <2>1 DEF ParityNackLoop
  <2>3. u \in Sound
    BY <2>1, ParityNackStepSound
  <2>4. u = z \/ u = ResendPacket(r, i)
    BY DEF ParityNackStep
  <2>5. /\ r \in SrcState /\ r.entry = [z.entry EXCEPT ![i] = "lost"]
        /\ r.rtxPending = z.rtxPending
    <3>1. ReduceUnacked(z, 1) \in SrcState /\ ReduceUnacked(z, 1).entry = z.entry
          /\ ReduceUnacked(z, 1).rtxPending = z.rtxPending
      BY <2>1, ReduceUnackedType, ReduceUnackedFields
    <3> QED BY <3>1 DEF SrcState, EntryState, Listed
  <2>6. z.entry \in [Pkts -> EntryState]
    BY <2>1 DEF SrcState
  <2> HIDE DEF r, u
  <2>7. CASE u = ResendPacket(r, i)
    <3>1. \/ u.entry = r.entry /\ u.rtxPending = TRUE
          \/ u.entry = [r.entry EXCEPT ![i] = "inflight"] /\ u.rtxPending = r.rtxPending
      BY <2>1, <2>5, <2>7, ResendPacketFields
    <3>2. Pending(u)
      BY <2>1, <2>5, <2>6, <3>1 DEF Pending
    <3> QED BY <2>2, <2>3, <3>2 DEF Remembering
  <2> QED BY <2>2, <2>4, <2>7
<1>2. RunLoop(ParityNackLoop(b), NumPkts, s) \in Remembering
  BY <1>1, NumPktsNat, LoopResult
<1> QED BY <1>2 DEF ProcessParityNack

LEMMA TakeAckRemembers ==
  ASSUME NEW s \in Remembering, NEW a \in AckMsg
  PROVE  LearnCompleted(UpdatePendingPacketsList(ReduceUnacked(s, 1), a), a) \in Remembering
<1> DEFINE r == ReduceUnacked(s, 1)
           t == UpdatePendingPacketsList(r, a)
           u == LearnCompleted(t, a)
<1>1. s \in Sound /\ s \in SrcState
  BY DEF Remembering, Sound
<1>2. r \in SrcState /\ r.entry = s.entry /\ r.rtxPending = s.rtxPending
  BY <1>1, ReduceUnackedType, ReduceUnackedFields
<1>3. t \in Sound /\ t \in SrcState
  BY <1>1, UpdatePendingPacketsListSound DEF Sound
<1> HIDE DEF r
<1>4. /\ t.rtxPending = r.rtxPending
      /\ \A p \in Pkts : t.entry[p] = "lost" => r.entry[p] = "lost"
  <2>1. CASE a.cumulative
    <3> DEFINE x == Erase(r, Front(r, 1 .. a.n))
    <3>1. x \in SrcState
      BY <1>2, EraseType
    <3>2. /\ x.rtxPending = r.rtxPending
          /\ \A p \in Pkts : x.entry[p] = "lost" => r.entry[p] = "lost"
      BY <1>2, EraseLost
    <3>3. \E m : t = ReduceUnacked(x, m)
      BY <2>1 DEF UpdatePendingPacketsList, CumulativeAck
    <3> HIDE DEF x, t
    <3>4. t.entry = x.entry /\ t.rtxPending = x.rtxPending
      BY <3>1, <3>3 DEF ReduceUnacked, SrcState
    <3> QED BY <3>2, <3>4
  <2>2. CASE ~a.cumulative
    <3>1. \/ t = r \/ t = Erase(r, Front(r, {a.n}))
          \/ t = [r EXCEPT !.entry[a.n] = "acked"]
      BY <2>2 DEF UpdatePendingPacketsList, SelectiveAck
    <3>2. r.entry \in [Pkts -> EntryState]
      BY <1>2 DEF SrcState
    <3> HIDE DEF t
    <3>3. CASE t = Erase(r, Front(r, {a.n}))
      BY <1>2, <3>3, EraseLost
    <3>4. CASE t = [r EXCEPT !.entry[a.n] = "acked"]
      BY <1>2, <3>2, <3>4 DEF SrcState
    <3> QED BY <3>1, <3>3, <3>4
  <2> QED BY <2>1, <2>2
<1> HIDE DEF t
<1>5. u.entry = t.entry /\ u.rtxPending = t.rtxPending
  BY <1>3 DEF LearnCompleted, SrcState
<1>6. u \in Sound
  BY <1>3, LearnCompletedSound
<1> HIDE DEF u
<1>7. u \in Remembering
  BY <1>2, <1>4, <1>5, <1>6, RememberingUpdate
<1> QED BY <1>7 DEF u, t, r

LEMMA LeaveRemembers ==
  ASSUME IInv', NEW s \in Remembering, Leave(s)
  PROVE  src' \in Remembering
<1>1. s \in SrcState
  BY DEF Remembering, Sound
<1>2. src' = [s EXCEPT !.out = {}] /\ src' \in Sound
  BY DEF Leave, IInv
<1>3. src'.entry = s.entry /\ src'.rtxPending = s.rtxPending
  BY <1>1, <1>2 DEF SrcState
<1> QED BY <1>2, <1>3, RememberingUpdate

LEMMA ReceiveAckRemembers ==
  ASSUME IInv, IInv', src \in Remembering, NEW a \in DOMAIN acks, ReceiveAck(a)
  PROVE  src' \in Remembering
<1> DEFINE s == LearnCompleted(UpdatePendingPacketsList(ReduceUnacked(src, 1), a), a)
<1>1. a \in AckMsg
  BY DEF IInv, TypeOK
<1>2. s \in Remembering
  BY <1>1, TakeAckRemembers
<1>3. \/ Leave(s)
      \/ Leave(FinishFlow(s))
      \/ \E w \in Windows, T \in Expired(s) : Leave(SendPackets(AdjustWindow(s, a, w), T))
  BY DEF ReceiveAck
<1> HIDE DEF s
<1>4. s \in Sound /\ s \in SrcState
  BY <1>2 DEF Remembering, Sound
<1>5. CASE Leave(s)
  BY <1>2, <1>5, LeaveRemembers
<1>6. CASE Leave(FinishFlow(s))
  <2> DEFINE x == Erase(s, InList(s))
             t == FinishFlow(s)
  <2>1. /\ x \in SrcState /\ x.rtxPending = s.rtxPending
        /\ \A p \in Pkts : x.entry[p] = "lost" => s.entry[p] = "lost"
    <3>1. x \in SrcState
      BY <1>4, EraseType
    <3>2. /\ x.rtxPending = s.rtxPending
          /\ \A p \in Pkts : x.entry[p] = "lost" => s.entry[p] = "lost"
      BY <1>4, EraseLost
    <3> QED BY <3>1, <3>2
  <2>2. t = [x EXCEPT !.finished = TRUE] /\ t \in Sound
    BY <1>4, FinishFlowSound DEF FinishFlow
  <2> HIDE DEF x, t
  <2>3. t.entry = x.entry /\ t.rtxPending = x.rtxPending
    BY <2>1, <2>2 DEF SrcState
  <2>4. t \in Remembering
    BY <1>2, <2>1, <2>2, <2>3, RememberingUpdate
  <2> QED BY <1>6, <2>4, LeaveRemembers DEF t
<1>7. ASSUME NEW w \in Windows, NEW T \in Expired(s),
             Leave(SendPackets(AdjustWindow(s, a, w), T))
      PROVE  src' \in Remembering
  <2> DEFINE t == AdjustWindow(s, a, w)
  <2>1. t \in Sound
    BY <1>1, <1>4, AdjustWindowSound
  <2>2. t.entry = s.entry /\ t.rtxPending = s.rtxPending
    BY <1>4 DEF AdjustWindow, SrcState
  <2> HIDE DEF t
  <2>3. t \in Remembering
    BY <1>2, <2>1, <2>2, RememberingUpdate
  <2>4. SendPackets(t, T) \in Remembering /\ Leave(SendPackets(t, T))
    BY <1>7, <2>3, SendPacketsRemembers DEF t
  <2> QED BY <2>4, LeaveRemembers
<1> QED BY <1>3, <1>5, <1>6, <1>7

LEMMA NextRemembers ==
  ASSUME IInv, IInv', src \in Remembering, [Next]_vars
  PROVE  src' \in Remembering
<1>1. src \in Sound
  BY DEF IInv
<1>2. CASE DoNextEvent
  <2>1. PICK T \in Expired(src) : Leave(SendPackets(src, T))
    BY <1>2 DEF DoNextEvent
  <2> QED BY <2>1, SendPacketsRemembers, LeaveRemembers
<1>3. ASSUME NEW T \in SUBSET InFlight(src), RtxScan(T) PROVE src' \in Remembering
  <2>1. Leave(RetransmitPacket(src, T))
    BY <1>3 DEF RtxScan
  <2> QED BY <1>1, <2>1, RetransmitPacketRemembers, LeaveRemembers
<1>4. ASSUME NEW a \in DOMAIN acks, ReceiveAck(a) PROVE src' \in Remembering
  BY <1>4, ReceiveAckRemembers
<1>5. ASSUME NEW b \in DOMAIN nacks, ReceiveNack(b) PROVE src' \in Remembering
  <2> DEFINE r == ReduceUnacked(src, 1)
  <2>1. r \in Sound
    BY <1>1, ReduceOneSound
  <2>2. r.entry = src.entry /\ r.rtxPending = src.rtxPending
    BY <1>1, ReduceUnackedFields DEF Sound
  <2> HIDE DEF r
  <2>3. r \in Remembering
    BY <2>1, <2>2, RememberingUpdate
  <2>4. Leave(ProcessParityNack(r, b))
    BY <1>5 DEF ReceiveNack, r
  <2> QED BY <2>3, <2>4, ProcessParityNackRemembers, LeaveRemembers
<1>6. CASE UNCHANGED src
  BY <1>6
<1> QED BY <1>2, <1>3, <1>4, <1>5, <1>6
        DEF Next, vars, ReceiveData, ParityScan, Lose

(* Whatever a handler does, a packet it declares lost and does not send    *)
(* again keeps _rtx_pending set: no lost packet is forgotten.              *)
THEOREM NoLossForgotten == Spec => []LostIsPending
<1>1. Init => src \in Remembering
  <2> SUFFICES ASSUME Init PROVE src \in Remembering
    OBVIOUS
  <2>1. \A p \in Pkts : src.entry[p] = "unsent"
    BY DEF Init
  <2>2. src \in Sound
    BY InitIInv DEF IInv
  <2> QED BY <2>1, <2>2 DEF Remembering, Pending
<1>2. IInv /\ src \in Remembering /\ [Next]_vars => IInv' /\ (src \in Remembering)'
  BY NextIInv, NextRemembers
<1>3. src \in Remembering => LostIsPending
  BY DEF Remembering, Pending, LostIsPending
<1> QED BY <1>1, <1>2, <1>3, InitIInv, PTL DEF Spec

-----------------------------------------------------------------------------
(* Refinement of ReliableTransfer: the inductive invariant.                *)

\* The groups that can be decoded from the packets of G.
Decoded(G) == {b \in Batches : Cardinality(G \cap Packets(b)) >= Needed}

\* A receiver that has the packets of G does not need p.
Covered(p, G) == p \in G \/ (ErasureCoded /\ ParityId(p) \in Decoded(G))

\* A sink that has the packets of G and calls the groups 1 .. H completed.
Known(G, H) ==
  /\ G \subseteq Pkts
  /\ H \in 0 .. NumBatches
  /\ \A b \in Batches : b <= H => b \in Decoded(G)

\* What the sink whose state is k has, and that it counts its groups exactly.
GotOf(k) == 1 .. k.cumulative \cup k.received

Matches(k) ==
  \A b \in Batches : b > k.highestCompleted => k.batch[b] = GotOf(k) \cap Packets(b)

\* The list is what was sent but for a beginning that was erased.
ErasedInOrder(s) ==
  \A p, q \in Pkts : p <= q /\ s.entry[q] = "erased" => s.entry[p] = "erased"

\* What the sender whose state is s may believe of such a sink.
Fits(s, G, H) ==
  /\ s.highestSent <= NumPkts
  /\ \A p \in G : p <= s.highestSent
  /\ \A p \in s.out : p <= s.highestSent
  /\ \A p \in Pkts : s.entry[p] = "unsent" <=> ~(p <= s.highestSent)
  /\ \A p \in Pkts : s.entry[p] \in {"acked", "erased"} => Covered(p, G)
  /\ s.completed \subseteq Decoded(G)
  /\ s.highestCompleted <= H
  /\ s.finished => InList(s) = {}
  /\ ErasedInOrder(s)

Fit(G, H) == {s \in Sound : Fits(s, G, H)}

\* What an ACK may say of such a sink.
AckFits(a, G, H) ==
  /\ a.n \in G
  /\ a.cumulative => 1 .. a.n \subseteq G
  /\ a.completed \in Batches => a.completed \in Decoded(G)
  /\ a.highest <= H

\* A finished flow has no wake-up pending: when its last ACK came there was
\* at most one, and finish_flow cancelled it.
RInv ==
  /\ IInv
  /\ Known(Got, sink.highestCompleted)
  /\ Matches(sink)
  /\ src \in Fit(Got, sink.highestCompleted)
  /\ \A a \in DOMAIN acks : AckFits(a, Got, sink.highestCompleted)
  /\ \A p \in Pkts : dataNet[p] > 0 => p <= src.highestSent
  /\ src.finished => wake = 0

-----------------------------------------------------------------------------
(* Parity groups.                                                          *)

(* Every packet of a coded flow is of one of its groups.                   *)
LEMMA ParityIdBatch ==
  ASSUME ErasureCoded, NEW p \in Pkts
  PROVE  ParityId(p) \in Batches /\ p \in Packets(ParityId(p))
<1>1. /\ NumBatches \in Nat /\ Group \in Nat \ {0}
      /\ p \in Nat /\ 1 <= p /\ p <= NumBatches * Group
  BY NumBatchesNat, CodeAssumption, NumPktsNat DEF Pkts, NumPkts
<1> DEFINE q == (p - 1) \div Group
<1>2. q \in Nat /\ q * Group <= p - 1
  BY <1>1
<1>3. q < NumBatches
  <2> SUFFICES ASSUME NumBatches <= q PROVE FALSE
    BY <1>1, <1>2
  <2>1. NumBatches * Group <= q * Group
    BY <1>1, <1>2
  <2> HIDE DEF q
  <2> QED BY <1>1, <1>2, <2>1
<1>4. ParityId(p) = 1 + q
  BY DEF ParityId
<1> HIDE DEF q
<1>5. ParityId(p) \in Batches
  BY <1>1, <1>2, <1>3, <1>4 DEF Batches
<1> QED BY <1>5 DEF Packets

LEMMA ParityIdGrows ==
  ASSUME NEW p \in Pkts, NEW q \in Pkts, p <= q
  PROVE  ParityId(p) <= ParityId(q)
<1>1. p - 1 \in Nat /\ q - 1 \in Nat /\ p - 1 <= q - 1 /\ Group \in Nat \ {0}
  BY NumPktsNat, CodeAssumption DEF Pkts
<1> DEFINE x == (p - 1) \div Group
           y == (q - 1) \div Group
<1>2. /\ x \in Nat /\ x * Group <= p - 1
      /\ y \in Nat /\ q - 1 < y * Group + Group
  BY <1>1
<1>3. ParityId(p) = 1 + x /\ ParityId(q) = 1 + y
  BY DEF ParityId
<1> HIDE DEF x, y
<1>4. x <= y
  <2> SUFFICES ASSUME y + 1 <= x PROVE FALSE
    BY <1>2
  <2>1. (y + 1) * Group <= x * Group /\ (y + 1) * Group = y * Group + Group
    BY <1>1, <1>2
  <2> QED BY <1>1, <1>2, <2>1
<1> QED BY <1>2, <1>3, <1>4

(* A group has all its packets, so that the receiver that has them decodes *)
(* it.                                                                     *)
LEMMA GroupSize ==
  ASSUME NEW b \in Batches
  PROVE  Cardinality(Packets(b)) = Group
<1>1. /\ ErasureCoded /\ NumBatches \in Nat /\ Group \in Nat \ {0}
      /\ b \in Nat /\ 1 <= b /\ b <= NumBatches
      /\ Pkts = 1 .. NumBatches * Group
  BY NumBatchesNat, CodeAssumption DEF Batches, Pkts, NumPkts
<1> DEFINE lo == (b - 1) * Group
<1>2. lo \in Nat /\ lo + Group <= NumBatches * Group
  <2>1. b - 1 \in Nat
    BY <1>1
  <2>2. lo \in Nat /\ lo + Group = b * Group
    BY <1>1, <2>1
  <2>3. b * Group <= NumBatches * Group
    BY <1>1
  <2>4. b * Group \in Nat /\ NumBatches * Group \in Nat
    BY <1>1
  <2> HIDE DEF lo
  <2> QED BY <2>2, <2>3, <2>4, <1>1
<1>3. \A p \in Nat \ {0} : (1 + (p - 1) \div Group = b) <=> (lo < p /\ p <= lo + Group)
  <2> TAKE p \in Nat \ {0}
  <2> DEFINE q == (p - 1) \div Group
  <2>1. q \in Nat /\ q * Group <= p - 1 /\ p - 1 < q * Group + Group
    BY <1>1
  <2> HIDE DEF q
  <2>2. CASE q = b - 1
    BY <2>1, <2>2, <1>1, <1>2
  <2>3. CASE q < b - 1
    <3>1. (q + 1) * Group <= (b - 1) * Group
      BY <2>1, <2>3, <1>1
    <3>2. (q + 1) * Group = q * Group + Group
      BY <2>1, <1>1
    <3>3. p <= lo
      BY <3>1, <3>2, <2>1, <1>1, <1>2
    <3> QED BY <3>3, <2>3, <2>1, <1>1, <1>2 DEF q
  <2>4. CASE q > b - 1
    <3>1. (b - 1 + 1) * Group <= q * Group
      BY <2>1, <2>4, <1>1
    <3>2. (b - 1 + 1) * Group = lo + Group
      BY <1>1
    <3>3. ~(p <= lo + Group)
      BY <3>1, <3>2, <2>1, <1>1, <1>2
    <3> QED BY <3>3, <2>4, <2>1, <1>1, <1>2 DEF q
  <2> QED BY <2>1, <2>2, <2>3, <2>4, <1>1 DEF q
<1> HIDE DEF lo
<1>4. Packets(b) = lo + 1 .. lo + Group
  <2>1. NumBatches * Group \in Nat
    BY <1>1
  <2> QED BY <1>1, <1>2, <1>3, <2>1 DEF Packets, ParityId
<1>5. Cardinality(lo + 1 .. lo + Group) = lo + Group - (lo + 1) + 1
  BY <1>1, <1>2, FS_Interval
<1> QED BY <1>1, <1>2, <1>4, <1>5

LEMMA GroupFinite ==
  ASSUME NEW G, NEW b
  PROVE  IsFiniteSet(G \cap Packets(b)) /\ Cardinality(G \cap Packets(b)) \in Nat
<1>1. G \cap Packets(b) \in SUBSET Pkts
  BY DEF Packets
<1> QED BY <1>1, PktsFinite, FS_Subset, FS_CardinalityType

(* More packets decode no less.                                            *)
LEMMA DecodedGrows ==
  ASSUME NEW G, NEW F, G \subseteq F
  PROVE  Decoded(G) \subseteq Decoded(F)
<1> SUFFICES ASSUME NEW b \in Batches, Cardinality(G \cap Packets(b)) >= Needed
             PROVE  Cardinality(F \cap Packets(b)) >= Needed
  BY DEF Decoded
<1>1. Cardinality(G \cap Packets(b)) <= Cardinality(F \cap Packets(b))
  <2>1. G \cap Packets(b) \in SUBSET (F \cap Packets(b))
    OBVIOUS
  <2> QED BY <2>1, GroupFinite, FS_Subset
<1> QED BY <1>1, GroupFinite, NeededNat

LEMMA FitsGrows ==
  ASSUME NEW s, NEW G, NEW H \in Nat, NEW F, NEW I \in Nat,
         Fits(s, G, H), s.highestCompleted \in Nat, G \subseteq F, H <= I,
         \A p \in F : p <= s.highestSent
  PROVE  Fits(s, F, I)
<1>1. Decoded(G) \subseteq Decoded(F)
  BY DecodedGrows
<1> QED BY <1>1 DEF Fits, Covered

LEMMA AckFitsGrows ==
  ASSUME NEW a, NEW G, NEW H \in Nat, NEW F, NEW I \in Nat,
         AckFits(a, G, H), a.highest \in Nat, G \subseteq F, H <= I
  PROVE  AckFits(a, F, I)
BY DecodedGrows DEF AckFits

-----------------------------------------------------------------------------
(* The sender's list.                                                      *)

\* The states of a sender that has sent 1 .. h and, if f, finished.
Stay(G, H, h, f) == {t \in Fit(G, H) : t.highestSent = h /\ t.finished = f}

LEMMA FitParts ==
  ASSUME NEW G, NEW H, NEW s \in Fit(G, H)
  PROVE  /\ s \in Sound /\ s \in SrcState /\ Fits(s, G, H) /\ AwaitedSent(s)
         /\ s.entry \in [Pkts -> EntryState]
         /\ s.highestSent \in Nat /\ s.unacked \in Nat /\ s.window \in Nat
         /\ s.highestCompleted \in Nat /\ s.completed \subseteq Batches
         /\ s.finished \in BOOLEAN /\ s.out \subseteq Pkts
         /\ s \in Stay(G, H, s.highestSent, s.finished)
BY DEF Fit, Stay, Sound, SrcState

\* A change of an entry of the list that keeps what the sender believes true.
Moves(s, t, p, G) ==
  \/ t.entry[p] = s.entry[p]
  \/ /\ s.entry[p] \in Listed /\ t.entry[p] \in Listed
     /\ t.entry[p] = "acked" => Covered(p, G)

LEMMA FitUpdate ==
  ASSUME NEW G, NEW H, NEW s \in Fit(G, H), NEW t \in Sound,
         t.highestSent = s.highestSent, t.finished = s.finished,
         t.completed = s.completed, t.highestCompleted = s.highestCompleted,
         \A p \in t.out : p \in s.out \/ s.entry[p] # "unsent",
         \A p \in Pkts : Moves(s, t, p, G)
  PROVE  t \in Stay(G, H, s.highestSent, s.finished)
<1>1. Fits(s, G, H) /\ t \in SrcState /\ t.out \subseteq Pkts
  BY FitParts DEF Sound, SrcState
<1>2. \A p \in Pkts : /\ t.entry[p] = "unsent" <=> s.entry[p] = "unsent"
                      /\ t.entry[p] = "erased" <=> s.entry[p] = "erased"
                      /\ t.entry[p] \in Listed <=> s.entry[p] \in Listed
  BY DEF Moves, Listed
<1>3. \A p \in t.out : p <= t.highestSent
  BY <1>1 DEF Fits
<1>4. \A p \in Pkts : t.entry[p] \in {"acked", "erased"} => Covered(p, G)
  BY <1>1, <1>2 DEF Moves, Fits
<1>5. t.finished => InList(t) = {}
  BY <1>1, <1>2 DEF Fits, InList
<1>6. ErasedInOrder(t)
  BY <1>1, <1>2 DEF Fits, ErasedInOrder
<1>7. Fits(t, G, H)
  BY <1>1, <1>2, <1>3, <1>4, <1>5, <1>6 DEF Fits
<1> QED BY <1>7 DEF Stay, Fit

LEMMA ListedRuns ==
  ASSUME NEW G, NEW H, NEW s \in Fit(G, H), NEW p \in Pkts, s.entry[p] \in Listed
  PROVE  ~s.finished /\ s.entry[p] # "unsent"
BY FitParts DEF Fits, InList, Listed

LEMMA KnownCompleteCovered ==
  ASSUME NEW G, NEW H, Known(G, H), NEW s \in Fit(G, H), NEW p \in Pkts,
         KnownComplete(s, p)
  PROVE  Covered(p, G)
<1>1. ErasureCoded /\ ParityId(p) \in Batches /\ ParityId(p) \in Nat
  BY ParityIdBatch, ParityIdNat DEF KnownComplete
<1>2. s.highestCompleted <= H /\ s.completed \subseteq Decoded(G) /\ s.highestCompleted \in Nat
  BY FitParts DEF Fits
<1>3. H \in Nat
  BY NumBatchesNat DEF Known
<1> QED BY <1>1, <1>2, <1>3 DEF Covered, KnownComplete, Known

LEMMA ReduceOneFit ==
  ASSUME NEW G, NEW H, NEW s \in Fit(G, H)
  PROVE  ReduceUnacked(s, 1) \in Stay(G, H, s.highestSent, s.finished)
<1> DEFINE t == ReduceUnacked(s, 1)
<1>1. t \in Sound
  BY FitParts, ReduceOneSound
<1>2. /\ t.entry = s.entry /\ t.highestSent = s.highestSent
      /\ t.finished = s.finished /\ t.completed = s.completed
      /\ t.highestCompleted = s.highestCompleted /\ t.out = s.out
  BY FitParts, ReduceUnackedFields
<1> HIDE DEF t
<1>3. t \in Stay(G, H, s.highestSent, s.finished)
  BY <1>1, <1>2, FitUpdate DEF Moves
<1> QED BY <1>3 DEF t

LEMMA TimeOutFit ==
  ASSUME NEW G, NEW H, NEW s \in Fit(G, H), NEW p \in Pkts, s.entry[p] = "inflight"
  PROVE  TimeOut(s, p) \in Stay(G, H, s.highestSent, s.finished)
<1> DEFINE t == TimeOut(s, p)
<1>1. t \in Sound
  BY FitParts, TimeOutSound
<1>2. s \in SrcState /\ ~s.finished /\ s.entry \in [Pkts -> EntryState]
  BY FitParts, ListedRuns DEF Listed
<1>3. /\ t.entry = [s.entry EXCEPT ![p] = "lost"]
      /\ t.highestSent = s.highestSent /\ t.finished = s.finished
      /\ t.completed = s.completed /\ t.highestCompleted = s.highestCompleted
      /\ t.out = s.out
  BY <1>2 DEF TimeOut, ReduceUnacked, Minus, SrcState
<1> HIDE DEF t
<1>4. \A q \in Pkts : Moves(s, t, q, G)
  BY <1>2, <1>3 DEF Moves, Listed
<1>5. t \in Stay(G, H, s.highestSent, s.finished)
  BY <1>1, <1>3, <1>4, FitUpdate
<1> QED BY <1>5 DEF t

LEMMA ResendPacketFit ==
  ASSUME NEW G, NEW H, NEW s \in Fit(G, H), NEW p \in Pkts, s.entry[p] = "lost"
  PROVE  ResendPacket(s, p) \in Stay(G, H, s.highestSent, s.finished)
<1> DEFINE t == ResendPacket(s, p)
<1>1. t \in Sound
  BY FitParts, ResendPacketSound
<1>2. s \in SrcState /\ ~s.finished /\ s.entry \in [Pkts -> EntryState]
  BY FitParts, ListedRuns DEF Listed
<1>3. /\ t.entry \in {s.entry, [s.entry EXCEPT ![p] = "inflight"]}
      /\ t.highestSent = s.highestSent /\ t.finished = s.finished
      /\ t.completed = s.completed /\ t.highestCompleted = s.highestCompleted
      /\ t.out \in {s.out, s.out \cup {p}}
  BY <1>2 DEF ResendPacket, SrcState
<1> HIDE DEF t
<1>4. \A q \in Pkts : Moves(s, t, q, G)
  BY <1>2, <1>3 DEF Moves, Listed
<1>5. t \in Stay(G, H, s.highestSent, s.finished)
  BY <1>1, <1>3, <1>4, FitUpdate
<1> QED BY <1>5 DEF t

LEMMA MarkAckedFit ==
  ASSUME NEW G, NEW H, NEW s \in Fit(G, H), NEW p \in Pkts,
         s.entry[p] = "lost", Covered(p, G)
  PROVE  [s EXCEPT !.entry[p] = "acked"] \in Stay(G, H, s.highestSent, s.finished)
<1> DEFINE t == [s EXCEPT !.entry[p] = "acked"]
<1>1. t \in Sound
  BY FitParts, MarkAckedSound
<1>2. s \in SrcState /\ ~s.finished /\ s.entry \in [Pkts -> EntryState]
  BY FitParts, ListedRuns DEF Listed
<1>3. /\ t.entry = [s.entry EXCEPT ![p] = "acked"]
      /\ t.highestSent = s.highestSent /\ t.finished = s.finished
      /\ t.completed = s.completed /\ t.highestCompleted = s.highestCompleted
      /\ t.out = s.out
  BY <1>2 DEF SrcState
<1> HIDE DEF t
<1>4. \A q \in Pkts : Moves(s, t, q, G)
  BY <1>2, <1>3 DEF Moves, Listed
<1>5. t \in Stay(G, H, s.highestSent, s.finished)
  BY <1>1, <1>3, <1>4, FitUpdate
<1> QED BY <1>5 DEF t

LEMMA FrontCovered ==
  ASSUME NEW G, NEW H, NEW s \in Fit(G, H), NEW S, S \subseteq G
  PROVE  /\ Front(s, S) \subseteq InList(s)
         /\ \A p \in Front(s, S) : Covered(p, G)
<1>1. \A p \in Front(s, S) : p \in Pkts /\ (p \in S \/ s.entry[p] = "acked")
  BY FrontInList
<1>2. \A p \in Pkts : s.entry[p] = "acked" => Covered(p, G)
  BY FitParts DEF Fits
<1> QED BY <1>1, <1>2, FrontInList DEF Covered

\* The front of the list may leave it when the receiver does not need it.
LEMMA EraseFrontFits ==
  ASSUME NEW G, NEW H, NEW s \in Fit(G, H), NEW S, S \subseteq G
  PROVE  Fits(Erase(s, Front(s, S)), G, H)
<1> DEFINE F == Front(s, S)
           t == Erase(s, F)
<1>1. s \in SrcState /\ Fits(s, G, H) /\ s.highestSent \in Nat
  BY FitParts
<1>2. /\ t.entry = [p \in Pkts |-> IF p \in F THEN "erased" ELSE s.entry[p]]
      /\ t.highestSent = s.highestSent /\ t.finished = s.finished
      /\ t.completed = s.completed /\ t.highestCompleted = s.highestCompleted
      /\ t.out = s.out
  BY <1>1, EraseType, EraseFields
<1>3. F \subseteq InList(s) /\ \A p \in F : Covered(p, G)
  BY FrontCovered
<1>4. ErasedInOrder(t)
  <2> SUFFICES ASSUME NEW p \in Pkts, NEW q \in Pkts, p <= q, t.entry[q] = "erased"
               PROVE  p \in F \/ s.entry[p] = "erased"
    BY <1>2 DEF ErasedInOrder
  <2>1. CASE s.entry[q] = "erased"
    BY <1>1, <2>1 DEF Fits, ErasedInOrder
  <2>2. CASE s.entry[q] # "erased"
    <3>1. q \in F /\ q \in InList(s)
      BY <1>2, <1>3, <2>2
    <3>2. p <= s.highestSent
      <4>1. s.entry[q] # "unsent"
        BY <3>1 DEF InList, Listed
      <4> QED BY <1>1, <4>1, NumPktsNat DEF Fits, Pkts
    <3>3. p \in InList(s) \/ s.entry[p] = "erased"
      BY <1>1, <3>2, FitParts DEF Fits, InList, EntryState
    <3>4. \A r \in InList(s) : r <= p => r <= q
      BY NumPktsNat DEF InList, Pkts
    <3>5. p \in InList(s) => p \in F
      BY <3>1, <3>4 DEF Front
    <3> QED BY <3>3, <3>5
  <2> QED BY <2>1, <2>2
<1> HIDE DEF t, F
<1>5. \A p \in Pkts : /\ t.entry[p] = "unsent" <=> s.entry[p] = "unsent"
                      /\ t.entry[p] \in {"acked", "erased"} => Covered(p, G)
                      /\ t.entry[p] \in Listed => s.entry[p] \in Listed
  BY <1>1, <1>2, <1>3 DEF Fits, InList, Listed
<1>6. t.finished => InList(t) = {}
  BY <1>1, <1>2, <1>5 DEF Fits, InList
<1>7. Fits(t, G, H)
  BY <1>1, <1>2, <1>4, <1>5, <1>6 DEF Fits
<1> QED BY <1>7 DEF t, F

LEMMA EraseFrontFit ==
  ASSUME NEW G, NEW H, NEW s \in Fit(G, H), NEW S, S \subseteq G,
         Erase(s, Front(s, S)) \in Sound
  PROVE  Erase(s, Front(s, S)) \in Stay(G, H, s.highestSent, s.finished)
<1>1. /\ Erase(s, Front(s, S)).highestSent = s.highestSent
      /\ Erase(s, Front(s, S)).finished = s.finished
  BY FitParts, EraseType
<1> QED BY <1>1, EraseFrontFits DEF Stay, Fit

LEMMA OldestInList ==
  ASSUME NEW s, InList(s) # {}
  PROVE  Oldest(s) \in InList(s) /\ \A q \in InList(s) : Oldest(s) <= q
<1>1. InList(s) \subseteq Nat
  BY NumPktsNat DEF InList, Pkts
<1>2. \E p \in InList(s) : \A q \in InList(s) : p <= q
  BY <1>1, LeastNat
<1> QED BY <1>2 DEF Oldest

\* What was sent and is not before the list is in it.
LEMMA BehindOldest ==
  ASSUME NEW G, NEW H, NEW s \in Fit(G, H), NEW p \in Pkts, p <= s.highestSent,
         InList(s) # {}, Oldest(s) <= p
  PROVE  p \in InList(s)
<1>1. Fits(s, G, H) /\ s.entry \in [Pkts -> EntryState]
  BY FitParts
<1>2. Oldest(s) \in Pkts /\ s.entry[Oldest(s)] \in Listed
  BY OldestInList DEF InList
<1>3. s.entry[p] # "erased" /\ s.entry[p] # "unsent"
  BY <1>1, <1>2 DEF Fits, ErasedInOrder, Listed
<1> QED BY <1>1, <1>3 DEF InList, EntryState

-----------------------------------------------------------------------------
(* What the handlers do to the list.                                       *)

LEMMA StayTrans ==
  ASSUME NEW G, NEW H, NEW s, NEW t \in Stay(G, H, s.highestSent, s.finished),
         NEW u \in Stay(G, H, t.highestSent, t.finished)
  PROVE  u \in Stay(G, H, s.highestSent, s.finished)
BY DEF Stay

LEMMA StayFit == ASSUME NEW G, NEW H, NEW h, NEW f, NEW t \in Stay(G, H, h, f)
                 PROVE  t \in Fit(G, H) /\ t.highestSent = h /\ t.finished = f
BY DEF Stay

LEMMA RetransmitStepFit ==
  ASSUME NEW G, NEW H, Known(G, H), NEW s \in Fit(G, H), NEW p \in Pkts, NEW T
  PROVE  RetransmitStep(s, p, T) \in Stay(G, H, s.highestSent, s.finished)
<1> DEFINE t == IF s.entry[p] = "inflight" /\ p \in T THEN TimeOut(s, p) ELSE s
           u == RetransmitStep(s, p, T)
<1>1. t \in Stay(G, H, s.highestSent, s.finished)
  BY TimeOutFit, FitParts
<1>2. u = IF t.entry[p] # "lost" THEN t
          ELSE IF KnownComplete(t, p) THEN [t EXCEPT !.entry[p] = "acked"]
          ELSE ResendPacket(t, p)
  BY DEF RetransmitStep
<1> HIDE DEF t, u
<1>3. t \in Fit(G, H)
  BY <1>1, StayFit
<1>4. u \in Stay(G, H, t.highestSent, t.finished)
  BY <1>2, <1>3, FitParts, KnownCompleteCovered, MarkAckedFit, ResendPacketFit
<1>5. u \in Stay(G, H, s.highestSent, s.finished)
  BY <1>1, <1>4, StayTrans
<1> QED BY <1>5 DEF u

LEMMA RetransmitPacketFit ==
  ASSUME NEW G, NEW H, Known(G, H), NEW s \in Fit(G, H), NEW T
  PROVE  RetransmitPacket(s, T) \in Stay(G, H, s.highestSent, s.finished)
<1> DEFINE I == Stay(G, H, s.highestSent, s.finished)
           x == [s EXCEPT !.rtxPending = FALSE]
           y == RunLoop(RetransmitLoop(T), NumPkts, x)
           t == DropAckedFront[y]
<1>1. x \in I
  <2>1. x \in Sound
    <3>1. s \in Sound
      BY FitParts
    <3> QED BY <3>1 DEF Sound, SrcState, AwaitedSent, Bounded, InFlight
  <2>2. /\ x.entry = s.entry /\ x.highestSent = s.highestSent
        /\ x.finished = s.finished /\ x.completed = s.completed
        /\ x.highestCompleted = s.highestCompleted /\ x.out = s.out
    BY FitParts DEF SrcState
  <2> HIDE DEF x
  <2> QED BY <2>1, <2>2, FitUpdate DEF Moves
<1>2. \A i \in 1 .. NumPkts : \A z \in I : RetransmitLoop(T)[i][z] \in I
  <2> TAKE i \in 1 .. NumPkts
  <2> TAKE z \in I
  <2>1. z \in Fit(G, H) /\ z.highestSent = s.highestSent /\ z.finished = s.finished
    BY StayFit
  <2>2. i \in Pkts /\ z \in SrcState
    BY <2>1, FitParts DEF Pkts
  <2>3. RetransmitLoop(T)[i][z] = RetransmitStep(z, i, T)
    BY <2>2 DEF RetransmitLoop
  <2>4. RetransmitStep(z, i, T) \in I
    BY <2>1, <2>2, RetransmitStepFit
  <2> QED BY <2>3, <2>4
<1>3. y \in I
  <2> HIDE DEF x, I
  <2> QED BY <1>1, <1>2, NumPktsNat, LoopResult
<1> HIDE DEF x, y, t
<1>4. y \in Fit(G, H) /\ y \in Sound /\ y \in SrcState
  BY <1>3, StayFit, FitParts
<1>5. t \in Stay(G, H, y.highestSent, y.finished)
  <2>1. t = IF ErasureCoded THEN Erase(y, Front(y, {})) ELSE y
    BY <1>4 DEF DropAckedFront, t
  <2>2. t \in Sound
    BY <1>4, DropAckedFrontSound DEF t
  <2>3. CASE ErasureCoded
    <3>1. t = Erase(y, Front(y, {})) /\ {} \subseteq G
      BY <2>1, <2>3
    <3> QED BY <3>1, <2>2, <1>4, EraseFrontFit
  <2>4. CASE ~ErasureCoded
    BY <2>1, <2>4, <1>4, FitParts
  <2> QED BY <2>3, <2>4
<1>6. t \in I
  BY <1>3, <1>5, StayTrans
<1>7. RetransmitPacket(s, T) = t
  BY DEF RetransmitPacket, t, y, x
<1> QED BY <1>6, <1>7

LEMMA ParityNackStepFit ==
  ASSUME NEW G, NEW H, NEW s \in Fit(G, H), NEW p \in Pkts, NEW b
  PROVE  ParityNackStep(s, p, b) \in Stay(G, H, s.highestSent, s.finished)
<1>1. CASE s.entry[p] \in {"inflight", "lost"} /\ ParityId(p) = b
  <2> DEFINE t == [ReduceUnacked(s, 1) EXCEPT !.entry[p] = "lost"]
             u == ParityNackStep(s, p, b)
  <2>1. u = ResendPacket(t, p)
    BY <1>1 DEF ParityNackStep
  <2>2. /\ s \in SrcState /\ s \in Sound /\ ~s.finished
        /\ s.entry \in [Pkts -> EntryState]
    BY <1>1, FitParts, ListedRuns DEF Listed
  <2>3. /\ t.entry = [s.entry EXCEPT ![p] = "lost"]
        /\ t.highestSent = s.highestSent /\ t.finished = s.finished
        /\ t.completed = s.completed /\ t.highestCompleted = s.highestCompleted
        /\ t.out = s.out
        /\ t.unacked = IF s.unacked >= 1 THEN s.unacked - 1 ELSE 0
    BY <2>2 DEF ReduceUnacked, Minus, SrcState
  <2>4. t \in SrcState
    <3>1. /\ s.entry \in [Pkts -> EntryState] /\ s.unacked \in Nat
          /\ ReduceUnacked(s, 1) \in SrcState
      BY <2>2, ReduceUnackedType DEF SrcState
    <3>2. "lost" \in EntryState
      BY DEF EntryState, Listed
    <3> QED BY <3>1, <3>2 DEF SrcState
  <2> HIDE DEF t, u
  <2>5. t \in Sound
    <3>1. AwaitedSent(t)
      BY <1>1, <2>2, <2>3 DEF AwaitedSent, Sound
    <3>2. InFlight(t) = InFlight(s) \ {p}
      BY <1>1, <2>2, <2>3 DEF InFlight
    <3>3. Cardinality(InFlight(t)) >= Cardinality(InFlight(s)) - 1
      BY <3>2, OneLess
    <3>4. s.unacked \in Nat /\ Bounded(s)
      BY <2>2 DEF Sound, SrcState
    <3>5. Cardinality(InFlight(t)) \in Nat /\ Cardinality(InFlight(s)) \in Nat
      BY InFlightFinite
    <3>6. Bounded(t)
      BY <3>3, <3>4, <3>5, <2>3 DEF Bounded
    <3> QED BY <2>4, <3>1, <3>6 DEF Sound
  <2>6. \A q \in Pkts : Moves(s, t, q, G)
    BY <1>1, <2>2, <2>3 DEF Moves, Listed
  <2>7. t \in Stay(G, H, s.highestSent, s.finished)
    BY <2>3, <2>5, <2>6, FitUpdate
  <2>8. t.entry[p] = "lost" /\ t \in Fit(G, H)
    BY <2>2, <2>3, <2>7, StayFit
  <2>9. u \in Stay(G, H, t.highestSent, t.finished)
    BY <2>1, <2>8, ResendPacketFit
  <2>10. u \in Stay(G, H, s.highestSent, s.finished)
    BY <2>7, <2>9, StayTrans
  <2> QED BY <2>10 DEF u
<1>2. CASE ~(s.entry[p] \in {"inflight", "lost"} /\ ParityId(p) = b)
  <2>1. ParityNackStep(s, p, b) = s
    BY <1>2 DEF ParityNackStep
  <2> QED BY <2>1, FitParts
<1> QED BY <1>1, <1>2

LEMMA ProcessParityNackFit ==
  ASSUME NEW G, NEW H, NEW s \in Fit(G, H), NEW b
  PROVE  ProcessParityNack(s, b) \in Stay(G, H, s.highestSent, s.finished)
<1> DEFINE I == Stay(G, H, s.highestSent, s.finished)
<1>1. s \in I
  BY FitParts
<1>2. \A i \in 1 .. NumPkts : \A z \in I : ParityNackLoop(b)[i][z] \in I
  <2> TAKE i \in 1 .. NumPkts
  <2> TAKE z \in I
  <2>1. z \in Fit(G, H) /\ z.highestSent = s.highestSent /\ z.finished = s.finished
    BY StayFit
  <2>2. i \in Pkts /\ z \in SrcState
    BY <2>1, FitParts DEF Pkts
  <2>3. ParityNackLoop(b)[i][z] = ParityNackStep(z, i, b)
    BY <2>2 DEF ParityNackLoop
  <2>4. ParityNackStep(z, i, b) \in I
    BY <2>1, <2>2, ParityNackStepFit
  <2> QED BY <2>3, <2>4
<1>3. RunLoop(ParityNackLoop(b), NumPkts, s) \in I
  <2> HIDE DEF I
  <2> QED BY <1>1, <1>2, NumPktsNat, LoopResult
<1> QED BY <1>1, <1>3 DEF ProcessParityNack

(* Only send_packets moves _highest_sent, never past the end of the flow.  *)
LEMMA SendNewPacketsFit ==
  ASSUME NEW G, NEW H, Known(G, H), NEW s \in Fit(G, H), ~s.finished
  PROVE  /\ SendNewPackets[s] \in Fit(G, H)
         /\ SendNewPackets[s].highestSent >= s.highestSent
         /\ ~SendNewPackets[s].finished
<1> DEFINE room == Minus(s.window \div 2, s.unacked)
           left == Minus(NumPkts, s.highestSent)
           k    == IF room < left THEN room ELSE left
           new  == s.highestSent + 1 .. s.highestSent + k
           e    == [p \in Pkts |-> IF p \in new THEN "inflight" ELSE s.entry[p]]
           t    == SendNewPackets[s]
<1>1. /\ s \in SrcState /\ Fits(s, G, H) /\ s.highestSent \in Nat
      /\ s.unacked \in Nat /\ s.window \in Nat
  BY FitParts
<1>2. /\ t.highestSent = s.highestSent + k /\ t.finished = s.finished
      /\ t.entry = e /\ t.out = s.out \cup new
      /\ t.completed = s.completed /\ t.highestCompleted = s.highestCompleted
  <2>1. t = [s EXCEPT !.highestSent = @ + k, !.unacked = @ + k,
                      !.entry = e, !.out = @ \cup new]
    BY <1>1 DEF SendNewPackets
  <2> HIDE DEF k, new, e, t
  <2> QED BY <2>1, <1>1 DEF SrcState
<1>3. k \in Nat /\ s.highestSent + k <= NumPkts
  <2>1. s.window \div 2 \in Nat
    BY <1>1
  <2>2. room \in Nat /\ left \in Nat /\ s.highestSent + left <= NumPkts
    BY <1>1, <2>1, NumPktsNat DEF Minus, Fits
  <2> HIDE DEF room, left
  <2> QED BY <1>1, <2>2, NumPktsNat
<1>4. t \in Sound
  BY FitParts, SendNewPacketsSound
<1> HIDE DEF k, t
<1>5. Fits(t, G, H)
  <2>1. /\ \A p \in Pkts : p \in Nat
        /\ G \subseteq Pkts /\ s.out \subseteq Pkts /\ new \subseteq Pkts
    BY <1>1, <1>3, NumPktsNat, FitParts DEF Pkts, Known
  <2>2. \A p \in Pkts : p <= t.highestSent <=> p <= s.highestSent \/ p \in new
    BY <1>1, <1>2, <1>3, <2>1
  <2> HIDE DEF new
  <2>3. \A p \in G : p <= t.highestSent
    BY <1>1, <2>1, <2>2 DEF Fits
  <2>4. \A p \in t.out : p <= t.highestSent
    BY <1>1, <1>2, <2>1, <2>2 DEF Fits
  <2>5. \A p \in Pkts : t.entry[p] = "unsent" <=> ~(p <= t.highestSent)
    BY <1>1, <1>2, <2>2 DEF Fits
  <2>6. \A p \in Pkts : t.entry[p] \in {"acked", "erased"} => Covered(p, G)
    BY <1>1, <1>2 DEF Fits
  <2>7. ErasedInOrder(t)
    <3>1. \A p \in Pkts : t.entry[p] = "erased" <=> s.entry[p] = "erased"
      BY <1>1, <1>2, <2>2, <1>3, NumPktsNat DEF Fits, Pkts, new
    <3> QED BY <1>1, <3>1 DEF Fits, ErasedInOrder
  <2> QED BY <1>1, <1>2, <1>3, <2>3, <2>4, <2>5, <2>6, <2>7 DEF Fits
<1>6. t \in Fit(G, H)
  BY <1>4, <1>5 DEF Fit
<1>7. t.highestSent >= s.highestSent /\ ~t.finished
  BY <1>1, <1>2, <1>3
<1> QED BY <1>6, <1>7 DEF t

LEMMA SendPacketsFit ==
  ASSUME NEW G, NEW H, Known(G, H), NEW s \in Fit(G, H), ~s.finished, NEW T
  PROVE  /\ SendPackets(s, T) \in Fit(G, H)
         /\ SendPackets(s, T).highestSent >= s.highestSent
         /\ ~SendPackets(s, T).finished
<1> DEFINE t == IF s.rtxPending THEN RetransmitPacket(s, T) ELSE s
<1>1. t \in Stay(G, H, s.highestSent, s.finished)
  BY RetransmitPacketFit, FitParts
<1>2. SendPackets(s, T) = SendNewPackets[t]
  BY DEF SendPackets
<1> HIDE DEF t
<1>3. t \in Fit(G, H) /\ t.highestSent = s.highestSent /\ ~t.finished
  BY <1>1, StayFit
<1> QED BY <1>2, <1>3, SendNewPacketsFit

-----------------------------------------------------------------------------
(* What an ACK does to the sender.                                         *)

LEMMA CumulativeAckFit ==
  ASSUME NEW G, NEW H, NEW s \in Fit(G, H), NEW n, 1 .. n \subseteq G
  PROVE  CumulativeAck(ReduceUnacked(s, 1), n) \in Stay(G, H, s.highestSent, s.finished)
<1> DEFINE r     == ReduceUnacked(s, 1)
           gone  == Front(r, 1 .. n)
           newly == {p \in gone : r.entry[p] # "acked"}
           x     == Erase(r, gone)
           m     == Minus(Cardinality(newly), 1)
           t     == CumulativeAck(r, n)
<1>1. r \in Stay(G, H, s.highestSent, s.finished)
  BY ReduceOneFit
<1>2. t \in Sound
  BY FitParts, CumulativeAckSound
<1> HIDE DEF r
<1>3. r \in Fit(G, H) /\ r \in SrcState
  BY <1>1, StayFit, FitParts
<1>4. Fits(x, G, H)
  BY <1>3, EraseFrontFits
<1>5. x \in SrcState /\ x.highestSent = r.highestSent /\ x.finished = r.finished
  BY <1>3, EraseType
<1>6. /\ t.entry = x.entry /\ t.highestSent = x.highestSent /\ t.finished = x.finished
      /\ t.completed = x.completed /\ t.highestCompleted = x.highestCompleted
      /\ t.out = x.out
  <2>1. t = ReduceUnacked(x, m)
    BY DEF CumulativeAck
  <2> HIDE DEF x, m, t
  <2> QED BY <2>1, <1>5 DEF ReduceUnacked, SrcState
<1> HIDE DEF x, t
<1>7. Fits(t, G, H)
  BY <1>4, <1>6 DEF Fits, InList, ErasedInOrder
<1>8. t \in Stay(G, H, r.highestSent, r.finished)
  BY <1>2, <1>5, <1>6, <1>7 DEF Stay, Fit
<1>9. t \in Stay(G, H, s.highestSent, s.finished)
  BY <1>1, <1>8, StayTrans
<1> QED BY <1>9 DEF t, r

LEMMA SelectiveAckFit ==
  ASSUME NEW G, NEW H, NEW s \in Fit(G, H), NEW n \in Pkts, n \in G,
         n <= s.highestSent
  PROVE  SelectiveAck(ReduceUnacked(s, 1), n) \in Stay(G, H, s.highestSent, s.finished)
<1> DEFINE r == ReduceUnacked(s, 1)
           t == SelectiveAck(r, n)
<1>1. r \in Stay(G, H, s.highestSent, s.finished)
  BY ReduceOneFit
<1>2. t \in Sound
  BY FitParts, SelectiveAckSound
<1> HIDE DEF r
<1>3. /\ r \in Fit(G, H) /\ r \in SrcState /\ r.entry \in [Pkts -> EntryState]
      /\ Fits(r, G, H)
  BY <1>1, StayFit, FitParts
<1>4. \/ t = r
      \/ t = Erase(r, Front(r, {n}))
      \/ /\ InList(r) # {} /\ ~(Oldest(r) > n)
         /\ t = [r EXCEPT !.entry[n] = "acked"]
  BY DEF SelectiveAck
<1> HIDE DEF t
<1>5. t \in Stay(G, H, r.highestSent, r.finished)
  <2>1. CASE t = r
    BY <1>3, <2>1, FitParts
  <2>2. CASE t = Erase(r, Front(r, {n}))
    BY <1>2, <1>3, <2>2, EraseFrontFit
  <2>3. CASE /\ InList(r) # {} /\ ~(Oldest(r) > n)
             /\ t = [r EXCEPT !.entry[n] = "acked"]
    <3>1. r.entry[n] \in Listed
      <4>1. Oldest(r) <= n /\ n <= r.highestSent
        BY <1>1, <2>3, StayFit, OldestInList, NumPktsNat DEF InList, Pkts
      <4> QED BY <1>3, <2>3, <4>1, BehindOldest DEF InList
    <3>2. /\ t.entry = [r.entry EXCEPT ![n] = "acked"]
          /\ t.highestSent = r.highestSent /\ t.finished = r.finished
          /\ t.completed = r.completed /\ t.highestCompleted = r.highestCompleted
          /\ t.out = r.out
      BY <1>3, <2>3 DEF SrcState
    <3>3. \A p \in Pkts : Moves(r, t, p, G)
      BY <1>3, <3>1, <3>2 DEF Moves, Covered, Listed
    <3> QED BY <1>2, <1>3, <3>2, <3>3, FitUpdate
  <2> QED BY <1>4, <2>1, <2>2, <2>3
<1>6. t \in Stay(G, H, s.highestSent, s.finished)
  BY <1>1, <1>5, StayTrans
<1> QED BY <1>6 DEF t, r

LEMMA LearnCompletedFit ==
  ASSUME NEW G, NEW H, NEW s \in Fit(G, H), NEW a \in AckMsg, AckFits(a, G, H)
  PROVE  LearnCompleted(s, a) \in Stay(G, H, s.highestSent, s.finished)
<1> DEFINE t == LearnCompleted(s, a)
           known == s.completed \cup (Batches \cap {a.completed})
<1>1. s \in SrcState /\ Fits(s, G, H) /\ s.highestCompleted \in Nat
  BY FitParts
<1>2. t \in Sound
  BY FitParts, LearnCompletedSound
<1>3. /\ t.entry = s.entry /\ t.highestSent = s.highestSent
      /\ t.finished = s.finished /\ t.out = s.out
      /\ t.completed \subseteq known
      /\ t.highestCompleted \in {s.highestCompleted, a.highest}
  BY <1>1 DEF LearnCompleted, SrcState
<1>4. known \subseteq Decoded(G)
  BY <1>1 DEF Fits, AckFits
<1> HIDE DEF t, known
<1>5. Fits(t, G, H)
  BY <1>1, <1>3, <1>4 DEF Fits, AckFits, InList, ErasedInOrder
<1>6. t \in Stay(G, H, s.highestSent, s.finished)
  BY <1>2, <1>3, <1>5 DEF Stay, Fit
<1> QED BY <1>6 DEF t

\* The first part of receivePacket and processAck, up to the test whether
\* the flow is finished.
LEMMA TakeAckFit ==
  ASSUME NEW G, NEW H, NEW s \in Fit(G, H), NEW a \in AckMsg, AckFits(a, G, H)
  PROVE  LearnCompleted(UpdatePendingPacketsList(ReduceUnacked(s, 1), a), a)
           \in Stay(G, H, s.highestSent, s.finished)
<1> DEFINE t == UpdatePendingPacketsList(ReduceUnacked(s, 1), a)
<1>1. /\ a.n \in Pkts /\ a.n \in G /\ (a.cumulative => 1 .. a.n \subseteq G)
      /\ a.n <= s.highestSent
  BY FitParts DEF AckMsg, AckFits, Fits
<1>2. t \in Stay(G, H, s.highestSent, s.finished)
  BY <1>1, CumulativeAckFit, SelectiveAckFit DEF UpdatePendingPacketsList
<1> HIDE DEF t
<1>3. t \in Fit(G, H)
  BY <1>2, StayFit
<1>4. LearnCompleted(t, a) \in Stay(G, H, t.highestSent, t.finished)
  BY <1>3, LearnCompletedFit
<1>5. LearnCompleted(t, a) \in Stay(G, H, s.highestSent, s.finished)
  BY <1>2, <1>4, StayTrans
<1> QED BY <1>5 DEF t

\* No ACK is for a packet that was not sent, so _highest_sent stays.
LEMMA AdjustWindowFit ==
  ASSUME NEW G, NEW H, Known(G, H), NEW s \in Fit(G, H), NEW a \in AckMsg,
         AckFits(a, G, H), NEW w \in Windows
  PROVE  AdjustWindow(s, a, w) \in Stay(G, H, s.highestSent, s.finished)
<1> DEFINE t == AdjustWindow(s, a, w)
<1>1. s \in SrcState /\ Fits(s, G, H) /\ s.highestSent \in Nat
  BY FitParts
<1>2. a.n \in Nat /\ a.n <= s.highestSent
  <2>1. a.n \in G /\ a.n \in Pkts
    BY DEF AckFits, AckMsg
  <2>2. \A p \in G : p <= s.highestSent
    BY <1>1 DEF Fits
  <2> QED BY <2>1, <2>2, NumPktsNat DEF Pkts
<1>3. t \in Sound
  BY FitParts, AdjustWindowSound
<1>4. /\ t.entry = s.entry /\ t.highestSent = s.highestSent
      /\ t.finished = s.finished /\ t.completed = s.completed
      /\ t.highestCompleted = s.highestCompleted /\ t.out = s.out
  BY <1>1, <1>2 DEF AdjustWindow, SrcState
<1> HIDE DEF t
<1>5. t \in Stay(G, H, s.highestSent, s.finished)
  BY <1>3, <1>4, FitUpdate DEF Moves
<1> QED BY <1>5 DEF t

-----------------------------------------------------------------------------
(* The end of the flow.                                                    *)

LEMMA DecodableCovers ==
  ASSUME NEW G, Decodable(G), NEW p \in Pkts
  PROVE  Covered(p, G)
BY ParityIdBatch DEF Decodable, Covered, Decoded

(* Whichever condition of processAck calls finish_flow, the receiver can   *)
(* rebuild the flow.                                                       *)
LEMMA FinishTriggeredDecodable ==
  ASSUME NEW G, NEW H, Known(G, H), NEW s \in Fit(G, H), NEW a \in AckMsg,
         AckFits(a, G, H), FinishTriggered(s, a)
  PROVE  Decodable(G)
<1>1. /\ Fits(s, G, H) /\ s.highestSent \in Nat /\ s.highestCompleted \in Nat
      /\ s.entry \in [Pkts -> EntryState]
  BY FitParts
<1>2. CASE a.n >= NumPkts /\ InList(s) = {}
  <2>1. \A p \in Pkts : p \in Nat /\ p <= s.highestSent
    <3>1. a.n \in G /\ a.n \in Pkts
      BY DEF AckFits, AckMsg
    <3>2. a.n <= s.highestSent
      BY <1>1, <3>1 DEF Fits
    <3> QED BY <1>1, <1>2, <3>1, <3>2, NumPktsNat DEF Pkts
  <2>2. \A p \in Pkts : s.entry[p] = "erased"
    BY <1>1, <1>2, <2>1 DEF Fits, InList, EntryState
  <2>3. \A p \in Pkts : Covered(p, G)
    BY <1>1, <2>2 DEF Fits
  <2>4. CASE ~ErasureCoded
    BY <2>3, <2>4 DEF Decodable, Covered, Known
  <2>5. CASE ErasureCoded
    <3> SUFFICES ASSUME NEW b \in Batches PROVE b \in Decoded(G)
      BY <2>5 DEF Decodable, Decoded
    <3>1. CASE \E p \in Packets(b) : ParityId(p) \in Decoded(G)
      BY <3>1 DEF Packets
    <3>2. CASE \A p \in Packets(b) : ParityId(p) \notin Decoded(G)
      <4>1. G \cap Packets(b) = Packets(b)
        BY <2>3, <3>2 DEF Covered, Packets
      <4>2. Cardinality(Packets(b)) = Group /\ Group >= Needed
        BY GroupSize, CodeAssumption DEF Needed
      <4> QED BY <4>1, <4>2 DEF Decoded
    <3> QED BY <3>1, <3>2
  <2> QED BY <2>4, <2>5
<1>3. CASE /\ ErasureCoded
           /\ \/ s.highestCompleted = HighestPossible
              \/ s.highestCompleted = HighestPossible - 1
  <2>1. NumBatches <= H
    BY <1>1, <1>3, NumBatchesNat DEF Fits, HighestPossible, Known
  <2>2. \A b \in Batches : b <= H
    BY <2>1, NumBatchesNat DEF Batches, Known
  <2> QED BY <1>3, <2>2 DEF Decodable, Decoded, Known
<1> QED BY <1>2, <1>3 DEF FinishTriggered

LEMMA FinishFlowFit ==
  ASSUME NEW G, NEW H, NEW s \in Fit(G, H), ~s.finished, Decodable(G)
  PROVE  FinishFlow(s) \in Stay(G, H, s.highestSent, TRUE)
<1> DEFINE x == Erase(s, InList(s))
           t == FinishFlow(s)
<1>1. s \in SrcState /\ Fits(s, G, H)
  BY FitParts
<1>2. t \in Sound
  BY FitParts, FinishFlowSound
<1>3. \A p \in Pkts : Covered(p, G)
  BY DecodableCovers
<1>4. /\ x \in SrcState
      /\ x.entry = [p \in Pkts |-> IF p \in InList(s) THEN "erased" ELSE s.entry[p]]
      /\ x.highestSent = s.highestSent /\ x.completed = s.completed
      /\ x.highestCompleted = s.highestCompleted /\ x.out = s.out
  BY <1>1, EraseType, EraseFields
<1>5. /\ t.entry = x.entry /\ t.highestSent = s.highestSent /\ t.finished = TRUE
      /\ t.completed = s.completed /\ t.highestCompleted = s.highestCompleted
      /\ t.out = s.out
  <2>1. t = [x EXCEPT !.finished = TRUE]
    BY DEF FinishFlow
  <2> HIDE DEF x, t
  <2> QED BY <2>1, <1>4 DEF SrcState
<1> HIDE DEF x, t
<1>6. InList(t) = {}
  BY <1>4, <1>5 DEF InList, Listed
<1>7. \A p \in Pkts : /\ t.entry[p] = "unsent" <=> s.entry[p] = "unsent"
                      /\ t.entry[p] = "erased" <=> s.entry[p] # "unsent"
  BY <1>1, <1>4, <1>5, FitParts DEF InList, Listed, EntryState
<1>8. ErasedInOrder(t)
  <2>1. \A p, q \in Pkts : p <= q /\ q <= s.highestSent => p <= s.highestSent
    BY <1>1, FitParts, NumPktsNat DEF Pkts
  <2> QED BY <1>1, <1>7, <2>1 DEF Fits, ErasedInOrder
<1>9. Fits(t, G, H)
  BY <1>1, <1>3, <1>5, <1>6, <1>7, <1>8 DEF Fits
<1>10. t \in Stay(G, H, s.highestSent, TRUE)
  BY <1>2, <1>5, <1>9 DEF Stay, Fit
<1> QED BY <1>10 DEF t

-----------------------------------------------------------------------------
(* The sink.                                                               *)

(* However the reassembly stores a packet, what it has grows by it.        *)
LEMMA StoreGot ==
  ASSUME NEW k \in SinkState, NEW p \in Pkts
  PROVE  /\ GotOf(Store(k, p)) = GotOf(k) \cup {p}
         /\ GotOf(Store(k, p)) \subseteq Pkts
         /\ Store(k, p).batch = k.batch
         /\ Store(k, p).highestCompleted = k.highestCompleted
<1>1. /\ k.cumulative \in 0 .. NumPkts /\ k.received \subseteq Pkts
      /\ p \in Nat /\ p >= 1
  BY NumPktsNat DEF SinkState, Pkts
<1>2. CASE p = k.cumulative + 1
  <2> DEFINE cum == CHOOSE n \in p .. NumPkts :
                      /\ p + 1 .. n \subseteq k.received
                      /\ n + 1 \notin k.received
  <2>1. cum \in p .. NumPkts /\ p + 1 .. cum \subseteq k.received
    BY AdvanceEnd
  <2>2. Store(k, p) = [k EXCEPT !.cumulative = cum, !.received = @ \ (p + 1 .. cum)]
    BY <1>2 DEF Store, Advance
  <2> HIDE DEF cum
  <2>3. /\ GotOf(Store(k, p)) = 1 .. cum \cup (k.received \ (p + 1 .. cum))
        /\ Store(k, p).batch = k.batch
        /\ Store(k, p).highestCompleted = k.highestCompleted
    BY <2>2 DEF GotOf, SinkState
  <2>4. 1 .. cum = 1 .. k.cumulative \cup {p} \cup p + 1 .. cum
    BY <1>1, <1>2, <2>1, NumPktsNat
  <2>5. GotOf(Store(k, p)) = GotOf(k) \cup {p}
    BY <2>1, <2>3, <2>4 DEF GotOf
  <2> QED BY <1>1, <2>3, <2>5, NumPktsNat DEF GotOf, Pkts
<1>3. CASE p <= k.cumulative
  <2>1. Store(k, p) = k /\ p \in 1 .. k.cumulative
    BY <1>1, <1>3, NumPktsNat DEF Store
  <2> QED BY <1>1, <2>1, NumPktsNat DEF GotOf, Pkts
<1>4. CASE ~(p <= k.cumulative) /\ p # k.cumulative + 1
  <2>1. Store(k, p) = [k EXCEPT !.received = @ \cup {p}]
    BY <1>4 DEF Store
  <2>2. /\ GotOf(Store(k, p)) = 1 .. k.cumulative \cup (k.received \cup {p})
        /\ Store(k, p).batch = k.batch
        /\ Store(k, p).highestCompleted = k.highestCompleted
    BY <2>1 DEF GotOf, SinkState
  <2> QED BY <1>1, <2>2, NumPktsNat DEF GotOf, Pkts
<1> QED BY <1>2, <1>3, <1>4

(* The groups the sink closes are decodable.                               *)
LEMMA CloseBatchesFields ==
  ASSUME NEW k \in SinkState
  PROVE  LET t == CloseBatches(k)
         IN  /\ GotOf(t) = GotOf(k)
             /\ t.highestCompleted \in k.highestCompleted .. NumBatches
             /\ \A b \in k.highestCompleted + 1 .. t.highestCompleted : Reached(k, b)
             /\ \A b \in Batches : b > t.highestCompleted => t.batch[b] = k.batch[b]
<1> DEFINE h == CHOOSE n \in k.highestCompleted .. NumBatches :
                  /\ \A b \in k.highestCompleted + 1 .. n : Reached(k, b)
                  /\ n < NumBatches => ~Reached(k, n + 1)
           B == [b \in Batches |-> IF b <= h THEN {} ELSE k.batch[b]]
           T == [b \in Batches |-> IF b <= h THEN "absent" ELSE k.timer[b]]
           t == CloseBatches(k)
<1>1. /\ h \in k.highestCompleted .. NumBatches
      /\ \A b \in k.highestCompleted + 1 .. h : Reached(k, b)
  BY CloseBatchesEnd
<1>2. t = [k EXCEPT !.highestCompleted = h, !.batch = B, !.timer = T]
  BY DEF CloseBatches
<1> HIDE DEF h, t
<1>3. /\ t.cumulative = k.cumulative /\ t.received = k.received
      /\ t.highestCompleted = h /\ t.batch = B
  <2> HIDE DEF B, T
  <2> QED BY <1>2 DEF SinkState
<1>4. /\ k.highestCompleted \in Nat /\ h \in Nat
      /\ \A b \in Batches : b \in Nat
  BY <1>1, NumBatchesNat DEF SinkState, Batches
<1>5. \A b \in Batches : b > h => t.batch[b] = k.batch[b]
  BY <1>3, <1>4
<1>6. /\ GotOf(t) = GotOf(k)
      /\ t.highestCompleted \in k.highestCompleted .. NumBatches
      /\ \A b \in k.highestCompleted + 1 .. t.highestCompleted : Reached(k, b)
      /\ \A b \in Batches : b > t.highestCompleted => t.batch[b] = k.batch[b]
  BY <1>1, <1>3, <1>5 DEF GotOf
<1> QED BY <1>6 DEF t

(* What receivePacket of the sink does to its state, and the ACK it sends. *)
LEMMA ReceiveDataSink ==
  ASSUME NEW s \in SinkState, NEW p \in Pkts,
         Known(GotOf(s), s.highestCompleted), Matches(s),
         NEW k, k = Store(s, p),
         NEW j, j = IF Opens(k, p) THEN JoinBatch(k, p) ELSE k,
         NEW l, l = IF Opens(k, p) THEN CloseBatches(j) ELSE j
  PROVE  /\ l \in SinkState
         /\ GotOf(l) = GotOf(s) \cup {p}
         /\ l.highestCompleted >= s.highestCompleted
         /\ Known(GotOf(l), l.highestCompleted)
         /\ Matches(l)
         /\ Opens(k, p) /\ Reached(j, ParityId(p)) => ParityId(p) \in Decoded(GotOf(l))
<1> DEFINE F == GotOf(s) \cup {p}
           H == s.highestCompleted
           b == ParityId(p)
<1>1. /\ k \in SinkState /\ GotOf(k) = F /\ F \subseteq Pkts
      /\ k.batch = s.batch /\ k.highestCompleted = H
  BY StoreType, StoreGot
<1>2. /\ H \in Nat /\ NumBatches \in Nat /\ H \in 0 .. NumBatches /\ b \in Nat
      /\ \A c \in Batches : c \in Nat
  BY NumBatchesNat, ParityIdNat DEF SinkState, Batches
<1>3. Known(F, H)
  <2>1. Decoded(GotOf(s)) \subseteq Decoded(F)
    BY DecodedGrows
  <2> QED BY <1>1, <2>1 DEF Known
<1>4. \A c \in Batches : c > H => s.batch[c] = GotOf(s) \cap Packets(c)
  BY DEF Matches
<1>5. CASE ~Opens(k, p)
  <2>1. l = k
    BY <1>5
  <2>2. \A c \in Batches : c > H => p \notin Packets(c)
    <3> SUFFICES ASSUME NEW c \in Batches, c > H, p \in Packets(c) PROVE FALSE
      OBVIOUS
    <3>1. ErasureCoded /\ b = c
      BY DEF Batches, Packets
    <3> QED BY <1>1, <1>5, <3>1 DEF Opens
  <2>3. Matches(k)
    BY <1>1, <1>4, <2>2 DEF Matches
  <2> QED BY <1>1, <1>2, <1>3, <1>5, <2>1, <2>3
<1>6. CASE Opens(k, p)
  <2>1. b \in Batches /\ b > H /\ ErasureCoded
    BY <1>1, <1>6, ParityIdBatch DEF Opens
  <2>2. j = JoinBatch(k, p) /\ l = CloseBatches(j) /\ j \in SinkState
    BY <1>1, <1>6, JoinBatchType
  <2>3. /\ j.cumulative = k.cumulative /\ j.received = k.received
        /\ j.highestCompleted = H
        /\ j.batch = [s.batch EXCEPT ![b] = @ \cup {p}]
    BY <1>1, <2>2 DEF JoinBatch, SinkState
  <2>4. GotOf(j) = F
    BY <1>1, <2>3 DEF GotOf
  <2>5. \A c \in Batches : c > H => j.batch[c] = F \cap Packets(c)
    <3> SUFFICES ASSUME NEW c \in Batches, c > H PROVE j.batch[c] = F \cap Packets(c)
      OBVIOUS
    <3>1. s.batch \in [Batches -> SUBSET Pkts]
      BY DEF SinkState
    <3>2. CASE c = b
      BY <1>4, <2>1, <2>3, <3>1, <3>2, ParityIdBatch
    <3>3. CASE c # b
      <4>1. p \notin Packets(c)
        BY <3>3 DEF Packets
      <4>2. j.batch[c] = s.batch[c]
        BY <2>3, <3>1, <3>3
      <4> QED BY <1>4, <4>1, <4>2
    <3> QED BY <3>2, <3>3
  <2>6. \A c \in Batches : c > H /\ Reached(j, c) => c \in Decoded(F)
    BY <2>5 DEF Reached, Decoded
  <2>7. /\ l \in SinkState /\ GotOf(l) = F
        /\ l.highestCompleted \in H .. NumBatches
        /\ \A c \in H + 1 .. l.highestCompleted : Reached(j, c)
        /\ \A c \in Batches : c > l.highestCompleted => l.batch[c] = j.batch[c]
    BY <2>2, <2>3, <2>4, CloseBatchesType, CloseBatchesFields
  <2>8. l.highestCompleted \in Nat /\ l.highestCompleted >= H
        /\ l.highestCompleted \in 0 .. NumBatches
    BY <1>2, <2>7
  <2>9. \A c \in Batches : c <= l.highestCompleted => c \in Decoded(F)
    <3> SUFFICES ASSUME NEW c \in Batches, c <= l.highestCompleted PROVE c \in Decoded(F)
      OBVIOUS
    <3>1. CASE c <= H
      BY <1>3, <3>1 DEF Known
    <3>2. CASE ~(c <= H)
      <4>1. c > H /\ c \in H + 1 .. l.highestCompleted
        BY <1>2, <2>8, <3>2
      <4> QED BY <2>6, <2>7, <4>1
    <3> QED BY <3>1, <3>2
  <2>10. Known(GotOf(l), l.highestCompleted)
    BY <1>1, <2>7, <2>8, <2>9 DEF Known
  <2>11. Matches(l)
    <3>1. \A c \in Batches : c > l.highestCompleted => c > H
      BY <1>2, <2>8
    <3> QED BY <2>5, <2>7, <3>1 DEF Matches
  <2>12. Reached(j, b) => b \in Decoded(GotOf(l))
    BY <2>1, <2>6, <2>7
  <2> QED BY <2>7, <2>8, <2>10, <2>11, <2>12
<1> QED BY <1>5, <1>6

-----------------------------------------------------------------------------
(* Every step keeps the invariant and is a step of ReliableTransfer or     *)
(* leaves its variables alone.                                             *)

AbsStep == [Abs!Next]_(Abs!vars)

LEMMA GotSink == Got = GotOf(sink) /\ Got' = GotOf(sink')
BY DEF Got, GotOf

LEMMA RInvParts ==
  ASSUME RInv
  PROVE  /\ IInv /\ TypeOK /\ sink \in SinkState
         /\ Known(Got, sink.highestCompleted)
         /\ src \in Fit(Got, sink.highestCompleted)
         /\ src.highestSent \in Nat /\ src.highestSent <= NumPkts
         /\ src.finished \in BOOLEAN
BY FitParts DEF RInv, IInv, TypeOK, Fits

(* What every handler of the sender has in common.                         *)
LEMMA LeaveRInv ==
  ASSUME RInv, IInv', UNCHANGED sink, DOMAIN acks' \subseteq DOMAIN acks,
         NEW s \in Fit(Got, sink.highestCompleted), Leave(s),
         s.highestSent >= src.highestSent, s.finished => wake' = 0
  PROVE  /\ RInv' /\ Got' = Got
         /\ src'.highestSent = s.highestSent /\ src'.finished = s.finished
         /\ src'.highestSent \in Nat /\ src'.highestSent <= NumPkts
<1> DEFINE H == sink.highestCompleted
           t == [s EXCEPT !.out = {}]
<1>1. src' = t /\ Got' = Got /\ sink' = sink
  BY DEF Leave, Got
<1>2. /\ s \in SrcState /\ Fits(s, Got, H) /\ s.highestSent \in Nat
      /\ s.out \subseteq Pkts
  BY FitParts
<1>3. /\ t.entry = s.entry /\ t.highestSent = s.highestSent
      /\ t.finished = s.finished /\ t.completed = s.completed
      /\ t.highestCompleted = s.highestCompleted /\ t.out = {}
  BY <1>2 DEF SrcState
<1>4. t \in Sound
  BY <1>1 DEF IInv
<1> HIDE DEF t
<1>5. t \in Stay(Got, H, s.highestSent, s.finished)
  BY <1>3, <1>4, FitUpdate DEF Moves
<1>6. \A p \in Pkts : dataNet'[p] > 0 => p <= src'.highestSent
  <2> SUFFICES ASSUME NEW p \in Pkts, dataNet'[p] > 0 PROVE p <= s.highestSent
    BY <1>1, <1>3
  <2>1. CASE p \in s.out
    BY <1>2, <2>1 DEF Fits
  <2>2. CASE p \notin s.out
    <3>1. dataNet[p] > 0
      BY <2>2 DEF Leave
    <3>2. p <= src.highestSent
      BY <3>1 DEF RInv
    <3> QED BY <3>2, <1>2, RInvParts, NumPktsNat DEF Pkts
  <2> QED BY <2>1, <2>2
<1>7. src' \in Fit(Got', sink'.highestCompleted) /\ src'.finished = s.finished
  BY <1>1, <1>3, <1>5, StayFit
<1>8. \A a \in DOMAIN acks' : AckFits(a, Got', sink'.highestCompleted)
  BY <1>1 DEF RInv
<1>9. Known(Got', sink'.highestCompleted) /\ Matches(sink')
  BY <1>1 DEF RInv
<1>10. RInv'
  BY <1>6, <1>7, <1>8, <1>9 DEF RInv
<1> QED BY <1>1, <1>2, <1>3, <1>10 DEF Fits

(* New packets go out, or nothing that ReliableTransfer sees happens.      *)
LEMMA SendStep ==
  ASSUME RInv, Got' = Got, src'.finished = src.finished,
         src'.highestSent \in Nat, src'.highestSent <= NumPkts,
         \/ src'.highestSent = src.highestSent
         \/ ~src.finished /\ src'.highestSent >= src.highestSent
  PROVE  AbsStep
<1>1. CASE src'.highestSent = src.highestSent
  BY <1>1 DEF AbsStep, Abs!vars
<1>2. CASE ~src.finished /\ src'.highestSent > src.highestSent
  <2>1. src'.highestSent \in src.highestSent + 1 .. NumPkts
    BY <1>2, RInvParts, NumPktsNat
  <2>2. Abs!Send
    BY <1>2, <2>1 DEF Abs!Send
  <2> QED BY <2>2 DEF AbsStep, Abs!Next
<1> QED BY <1>1, <1>2, RInvParts

LEMMA InitRInv == Init => RInv /\ Abs!Init
<1> SUFFICES ASSUME Init PROVE RInv /\ Abs!Init
  OBVIOUS
<1>1. IInv
  BY InitIInv
<1>2. PICK w \in Windows :
        src = [highestSent |-> 0, unacked |-> 0, window |-> w,
               entry |-> [p \in Pkts |-> "unsent"], rtxPending |-> FALSE,
               completed |-> {}, highestCompleted |-> 0,
               finished |-> FALSE, out |-> {}]
  BY DEF Init
<1>3. sink.highestCompleted = 0 /\ Got = {}
  BY DEF Init, Got
<1>4. \A p \in Pkts : p \in Nat /\ ~(p <= 0)
  BY NumPktsNat DEF Pkts
<1>5. \A b \in Batches : b \in Nat /\ ~(b <= 0)
  BY NumBatchesNat DEF Batches
<1>6. Known(Got, 0)
  BY <1>3, <1>5, NumBatchesNat DEF Known
<1>7. Matches(sink)
  BY <1>3, GotSink DEF Matches, Init
<1>8. Fits(src, Got, 0)
  BY <1>2, <1>3, <1>4, NumPktsNat DEF Fits, ErasedInOrder
<1>9. src \in Fit(Got, 0) /\ src.finished = FALSE /\ src.highestSent = 0
  BY <1>1, <1>2, <1>8 DEF Fit, IInv
<1>10. DOMAIN acks = {} /\ \A p \in Pkts : dataNet[p] = 0
  BY DEF Init, EmptyBag, SetToBag
<1> QED BY <1>1, <1>3, <1>6, <1>7, <1>9, <1>10 DEF RInv, Abs!Init

LEMMA DoNextEventRInv == RInv /\ IInv' /\ DoNextEvent => RInv' /\ AbsStep
<1> SUFFICES ASSUME RInv, IInv', DoNextEvent PROVE RInv' /\ AbsStep
  OBVIOUS
<1>1. ~src.finished
  BY DEF RInv, DoNextEvent
<1>2. PICK T \in Expired(src) : Leave(SendPackets(src, T))
  BY DEF DoNextEvent
<1> DEFINE s == SendPackets(src, T)
<1>3. s \in Fit(Got, sink.highestCompleted) /\ s.highestSent >= src.highestSent /\ ~s.finished
  BY <1>1, RInvParts, SendPacketsFit
<1>4. UNCHANGED sink /\ DOMAIN acks' \subseteq DOMAIN acks /\ Leave(s)
  BY <1>2 DEF DoNextEvent
<1> HIDE DEF s
<1>5. /\ RInv' /\ Got' = Got
      /\ src'.highestSent = s.highestSent /\ src'.finished = s.finished
      /\ src'.highestSent \in Nat /\ src'.highestSent <= NumPkts
  BY <1>3, <1>4, LeaveRInv
<1>6. src'.finished = src.finished
  <2>1. s.finished \in BOOLEAN /\ src.finished \in BOOLEAN
    BY <1>3, FitParts, RInvParts
  <2> QED BY <1>1, <1>3, <1>5, <2>1
<1> QED BY <1>1, <1>3, <1>5, <1>6, SendStep

(* Handlers that send no new packet.                                       *)
LEMMA StayStep ==
  ASSUME RInv, IInv', UNCHANGED sink, DOMAIN acks' \subseteq DOMAIN acks,
         NEW s \in Stay(Got, sink.highestCompleted, src.highestSent, src.finished),
         Leave(s), src.finished => wake' = 0
  PROVE  RInv' /\ AbsStep
<1>1. /\ s \in Fit(Got, sink.highestCompleted)
      /\ s.highestSent = src.highestSent /\ s.finished = src.finished
  BY StayFit
<1>2. s.highestSent >= src.highestSent
  BY <1>1, RInvParts
<1>3. /\ RInv' /\ Got' = Got
      /\ src'.highestSent = s.highestSent /\ src'.finished = s.finished
  BY <1>1, <1>2, LeaveRInv
<1> QED BY <1>1, <1>3 DEF AbsStep, Abs!vars

LEMMA RtxScanRInv ==
  ASSUME RInv, IInv', NEW T \in SUBSET InFlight(src), RtxScan(T)
  PROVE  RInv' /\ AbsStep
<1> DEFINE s == RetransmitPacket(src, T)
<1>1. s \in Stay(Got, sink.highestCompleted, src.highestSent, src.finished)
  BY RInvParts, RetransmitPacketFit
<1>2. /\ UNCHANGED sink /\ DOMAIN acks' \subseteq DOMAIN acks /\ Leave(s)
      /\ ~src.finished
  BY DEF RtxScan
<1> HIDE DEF s
<1> QED BY <1>1, <1>2, StayStep

LEMMA ReceiveNackRInv ==
  ASSUME RInv, IInv', NEW b \in DOMAIN nacks, ReceiveNack(b)
  PROVE  RInv' /\ AbsStep
<1> DEFINE r == ReduceUnacked(src, 1)
           s == ProcessParityNack(r, b)
<1>1. r \in Stay(Got, sink.highestCompleted, src.highestSent, src.finished)
  BY RInvParts, ReduceOneFit
<1>2. s \in Stay(Got, sink.highestCompleted, src.highestSent, src.finished)
  BY <1>1, StayFit, ProcessParityNackFit, StayTrans
<1>3. /\ UNCHANGED sink /\ DOMAIN acks' \subseteq DOMAIN acks
      /\ Leave(s) /\ WakeLater(s)
  BY DEF ReceiveNack
<1> HIDE DEF r, s
<1>4. src.finished => wake' = 0
  <2>1. s.finished = src.finished
    BY <1>2, StayFit
  <2>2. s.finished => wake' = wake
    BY <1>3 DEF WakeLater
  <2> QED BY <2>1, <2>2 DEF RInv
<1> QED BY <1>2, <1>3, <1>4, StayStep

(* The flow finishes: ReliableTransfer's Finish.  At most one wake-up was  *)
(* pending, and it is cancelled.                                           *)
LEMMA FinishStep ==
  ASSUME RInv, IInv', UNCHANGED sink, DOMAIN acks' \subseteq DOMAIN acks,
         NEW s \in Stay(Got, sink.highestCompleted, src.highestSent, FALSE),
         ~src.finished, Decodable(Got), Leave(FinishFlow(s)),
         wake' = 0
  PROVE  RInv' /\ AbsStep
<1> DEFINE t == FinishFlow(s)
<1>1. s \in Fit(Got, sink.highestCompleted) /\ s.highestSent = src.highestSent /\ ~s.finished
  BY DEF Stay
<1>2. t \in Stay(Got, sink.highestCompleted, s.highestSent, TRUE)
  BY <1>1, FinishFlowFit
<1> HIDE DEF t
<1>3. /\ t \in Fit(Got, sink.highestCompleted)
      /\ t.highestSent = src.highestSent /\ t.finished = TRUE
  BY <1>1, <1>2 DEF Stay
<1>4. t.highestSent >= src.highestSent /\ Leave(t)
  BY <1>3, RInvParts DEF t
<1>5. /\ RInv' /\ Got' = Got
      /\ src'.highestSent = src.highestSent /\ src'.finished = TRUE
  BY <1>3, <1>4, LeaveRInv
<1>6. Abs!Finish
  BY <1>5 DEF Abs!Finish
<1> QED BY <1>5, <1>6 DEF AbsStep, Abs!Next

LEMMA ReceiveAckRInv ==
  ASSUME MaxWake <= 2, RInv, IInv', NEW a \in DOMAIN acks, ReceiveAck(a)
  PROVE  RInv' /\ AbsStep
<1> DEFINE s == LearnCompleted(UpdatePendingPacketsList(ReduceUnacked(src, 1), a), a)
           H == sink.highestCompleted
<1>1. /\ a \in AckMsg /\ AckFits(a, Got, H) /\ Known(Got, H)
      /\ src \in Fit(Got, H)
      /\ wake \in Nat /\ wake < MaxWake
  BY RInvParts, BoundAssumption DEF RInv, TypeOK, ReceiveAck
<1>2. s \in Stay(Got, H, src.highestSent, src.finished)
  BY <1>1, TakeAckFit
<1>3. UNCHANGED sink /\ DOMAIN acks' \subseteq DOMAIN acks
  <2>1. acks' = acks (-) SetToBag({a}) /\ IsABag(acks)
    BY RInvParts DEF ReceiveAck, TypeOK
  <2> QED BY <2>1, BagRemoveType DEF ReceiveAck
<1>4. \/ /\ s.finished
         /\ Leave(s)
         /\ UNCHANGED <<wake, budget>>
      \/ /\ ~s.finished
         /\ FinishTriggered(s, a)
         /\ Leave(FinishFlow(s))
         /\ CancelWake
      \/ /\ ~s.finished
         /\ \E w \in Windows, T \in Expired(s) :
              Leave(SendPackets(AdjustWindow(s, a, w), T))
  BY DEF ReceiveAck
<1> HIDE DEF s
<1>5. /\ s \in Fit(Got, H)
      /\ s.highestSent = src.highestSent /\ s.finished = src.finished
  BY <1>2, StayFit
<1>6. CASE s.finished /\ Leave(s) /\ UNCHANGED <<wake, budget>>
  <2>1. src.finished => wake' = 0
    BY <1>6 DEF RInv
  <2> QED BY <1>2, <1>3, <1>6, <2>1, StayStep
<1>7. CASE /\ ~s.finished
           /\ FinishTriggered(s, a)
           /\ Leave(FinishFlow(s))
           /\ CancelWake
  <2>1. Decodable(Got)
    BY <1>1, <1>5, <1>7, FinishTriggeredDecodable
  <2>2. wake' = 0
    BY <1>1, <1>7, BoundAssumption DEF CancelWake, Minus
  <2>3. s \in Stay(Got, H, src.highestSent, FALSE) /\ ~src.finished
    BY <1>2, <1>5, <1>7, RInvParts
  <2> QED BY <1>3, <1>7, <2>1, <2>2, <2>3, FinishStep
<1>8. ASSUME ~s.finished, NEW w \in Windows, NEW T \in Expired(s),
             Leave(SendPackets(AdjustWindow(s, a, w), T))
      PROVE  RInv' /\ AbsStep
  <2> DEFINE u == AdjustWindow(s, a, w)
             t == SendPackets(u, T)
  <2>1. u \in Stay(Got, H, s.highestSent, s.finished)
    BY <1>1, <1>5, AdjustWindowFit
  <2> HIDE DEF u
  <2>2. u \in Fit(Got, H) /\ u.highestSent = src.highestSent /\ ~u.finished
    BY <1>5, <1>8, <2>1, StayFit
  <2>3. t \in Fit(Got, H) /\ t.highestSent >= src.highestSent /\ ~t.finished
    BY <1>1, <2>2, SendPacketsFit
  <2>4. Leave(t)
    BY <1>8 DEF u
  <2> HIDE DEF t
  <2>5. /\ RInv' /\ Got' = Got
        /\ src'.highestSent = t.highestSent /\ src'.finished = t.finished
        /\ src'.highestSent \in Nat /\ src'.highestSent <= NumPkts
    BY <1>3, <2>3, <2>4, LeaveRInv
  <2>6. src'.finished = src.finished /\ ~src.finished
    <3>1. t.finished \in BOOLEAN /\ src.finished \in BOOLEAN
      BY <2>3, FitParts, RInvParts
    <3> QED BY <1>5, <1>8, <2>3, <2>5, <3>1
  <2> QED BY <2>3, <2>5, <2>6, SendStep
<1> QED BY <1>4, <1>6, <1>7, <1>8

(* A packet arrives, for the first time or again.                          *)
LEMMA ReceiveDataRInv ==
  ASSUME RInv, IInv', NEW p \in Pkts, ReceiveData(p)
  PROVE  RInv' /\ AbsStep
<1> DEFINE k == Store(sink, p)
           j == IF Opens(k, p) THEN JoinBatch(k, p) ELSE k
           l == IF Opens(k, p) THEN CloseBatches(j) ELSE j
           a == [cumulative |-> p <= l.cumulative,
                 n |-> IF p <= l.cumulative THEN l.cumulative ELSE p,
                 completed |-> IF Opens(k, p) /\ Reached(j, ParityId(p))
                               THEN ParityId(p) ELSE 0,
                 highest |-> l.highestCompleted]
           H == sink.highestCompleted
<1>1. /\ sink' = l
      /\ acks' = acks (+) SetToBag({a})
      /\ dataNet' = [dataNet EXCEPT ![p] = @ - 1]
      /\ dataNet[p] > 0
      /\ UNCHANGED <<src, nacks, wake, budget>>
  BY DEF ReceiveData
<1>2. sink \in SinkState /\ Known(GotOf(sink), H) /\ Matches(sink)
  BY RInvParts, GotSink DEF RInv
<1>3. /\ l \in SinkState
      /\ GotOf(l) = GotOf(sink) \cup {p}
      /\ l.highestCompleted >= H
      /\ Known(GotOf(l), l.highestCompleted)
      /\ Matches(l)
      /\ Opens(k, p) /\ Reached(j, ParityId(p)) => ParityId(p) \in Decoded(GotOf(l))
  BY <1>2, ReceiveDataSink
<1> DEFINE c == IF Opens(k, p) /\ Reached(j, ParityId(p)) THEN ParityId(p) ELSE 0
<1>4. c \in Batches => c \in Decoded(GotOf(l))
  <2>1. \A b \in Batches : b # 0
    BY NumBatchesNat DEF Batches
  <2> QED BY <1>3, <2>1
<1>5. /\ a.cumulative = (p <= l.cumulative)
      /\ a.n = (IF p <= l.cumulative THEN l.cumulative ELSE p)
      /\ a.completed = c /\ a.highest = l.highestCompleted
  OBVIOUS
<1> HIDE DEF k, j, l, a, c
<1>6. /\ Got' = Got \cup {p} /\ Got' = GotOf(l)
      /\ sink'.highestCompleted = l.highestCompleted
  BY <1>1, <1>3, GotSink
<1>7. /\ H \in Nat /\ l.highestCompleted \in Nat /\ H <= l.highestCompleted
      /\ p \in Nat /\ p >= 1 /\ l.cumulative \in Nat
  BY <1>2, <1>3, NumBatchesNat, NumPktsNat DEF SinkState, Pkts
<1>8. AckFits(a, GotOf(l), l.highestCompleted)
  <2>1. a.n \in GotOf(l) /\ (a.cumulative => 1 .. a.n \subseteq GotOf(l))
    <3>1. GotOf(l) = 1 .. l.cumulative \cup l.received /\ p \in GotOf(l)
      BY <1>3 DEF GotOf
    <3>2. CASE p <= l.cumulative
      <4>1. a.n = l.cumulative /\ a.n \in 1 .. l.cumulative
        BY <1>5, <1>7, <3>2
      <4> QED BY <3>1, <4>1
    <3>3. CASE ~(p <= l.cumulative)
      BY <1>5, <3>1, <3>3
    <3> QED BY <3>2, <3>3
  <2> QED BY <1>4, <1>5, <1>7, <2>1 DEF AckFits
<1>9. p <= src.highestSent
  BY <1>1 DEF RInv
<1>10. src \in Fit(Got', l.highestCompleted)
  <2>1. Fits(src, Got, H) /\ src \in Sound /\ src.highestCompleted \in Nat
    BY RInvParts, FitParts
  <2>2. \A q \in Got' : q <= src.highestSent
    BY <1>6, <1>9, <2>1 DEF Fits
  <2>3. Fits(src, Got', l.highestCompleted)
    BY <1>6, <1>7, <2>1, <2>2, FitsGrows
  <2> QED BY <2>1, <2>3 DEF Fit
<1>11. \A e \in DOMAIN acks' : AckFits(e, Got', l.highestCompleted)
  <2>1. \A e \in DOMAIN acks : AckFits(e, Got', l.highestCompleted)
    <3> TAKE e \in DOMAIN acks
    <3>1. AckFits(e, Got, H) /\ e.highest \in Nat
      BY RInvParts DEF RInv, TypeOK, AckMsg
    <3> QED BY <1>6, <1>7, <3>1, AckFitsGrows
  <2>2. DOMAIN acks' \subseteq DOMAIN acks \cup {a}
    <3>1. IsABag(acks) /\ {a} \in SUBSET (DOMAIN acks \cup {a})
      BY RInvParts DEF TypeOK
    <3> QED BY <1>1, <3>1, BagPlusSetType
  <2> QED BY <1>6, <1>8, <2>1, <2>2
<1>12. \A q \in Pkts : dataNet'[q] > 0 => q <= src'.highestSent
  BY <1>1, <1>9 DEF RInv
<1>13. Known(Got', sink'.highestCompleted) /\ Matches(sink')
  BY <1>1, <1>3, <1>6
<1>14. src' = src /\ wake' = wake
  BY <1>1
<1>15. RInv'
  BY <1>6, <1>10, <1>11, <1>12, <1>13, <1>14 DEF RInv
<1>16. AbsStep
  <2>1. CASE p \in Got
    BY <1>6, <1>14, <2>1 DEF AbsStep, Abs!vars
  <2>2. CASE p \notin Got
    <3>1. p \in (1 .. src.highestSent) \ Got
      BY <1>7, <1>9, <2>2, RInvParts
    <3>2. Abs!Arrive
      BY <1>6, <1>14, <3>1 DEF Abs!Arrive
    <3> QED BY <3>2 DEF AbsStep, Abs!Next
  <2> QED BY <2>1, <2>2
<1> QED BY <1>15, <1>16

LEMMA ParityScanRInv ==
  ASSUME RInv, IInv', NEW E \in SUBSET Batches, ParityScan(E)
  PROVE  RInv' /\ AbsStep
<1>1. /\ sink' = [sink EXCEPT !.timer =
                    [b \in Batches |-> IF b \in E THEN "off" ELSE sink.timer[b]]]
      /\ UNCHANGED <<src, dataNet, acks, wake>>
  BY DEF ParityScan
<1>2. /\ sink'.cumulative = sink.cumulative /\ sink'.received = sink.received
      /\ sink'.highestCompleted = sink.highestCompleted /\ sink'.batch = sink.batch
  BY <1>1, RInvParts DEF SinkState
<1>3. Got' = Got
  BY <1>2 DEF Got
<1>4. Matches(sink')
  BY <1>2 DEF RInv, Matches, GotOf
<1>5. RInv'
  BY <1>1, <1>2, <1>3, <1>4 DEF RInv
<1> QED BY <1>1, <1>3, <1>5 DEF AbsStep, Abs!vars

LEMMA LoseRInv == RInv /\ IInv' /\ Lose => RInv' /\ AbsStep
<1> SUFFICES ASSUME RInv, IInv', Lose PROVE RInv' /\ AbsStep
  OBVIOUS
<1>1. UNCHANGED <<src, sink, wake>>
  BY DEF Lose
<1>2. Got' = Got
  BY <1>1 DEF Got
<1>3. DOMAIN acks' \subseteq DOMAIN acks
  <2>1. IsABag(acks)
    BY RInvParts DEF TypeOK
  <2>2. ASSUME NEW a \in DOMAIN acks, acks' = acks (-) SetToBag({a})
        PROVE  DOMAIN acks' \subseteq DOMAIN acks
    BY <2>1, <2>2, BagRemoveType
  <2> QED BY <2>2 DEF Lose
<1>4. \A p \in Pkts : dataNet'[p] > 0 => dataNet[p] > 0
  BY RInvParts DEF Lose, TypeOK
<1>5. RInv'
  BY <1>1, <1>2, <1>3, <1>4 DEF RInv
<1> QED BY <1>1, <1>2, <1>5 DEF AbsStep, Abs!vars

LEMMA NextRInv ==
  ASSUME MaxWake <= 2
  PROVE  RInv /\ [Next]_vars => RInv' /\ AbsStep
<1> SUFFICES ASSUME RInv, [Next]_vars PROVE RInv' /\ AbsStep
  OBVIOUS
<1>1. IInv'
  BY RInvParts, NextIInv
<1>2. CASE DoNextEvent
  BY <1>1, <1>2, DoNextEventRInv
<1>3. ASSUME NEW T \in SUBSET InFlight(src), RtxScan(T) PROVE RInv' /\ AbsStep
  BY <1>1, <1>3, RtxScanRInv
<1>4. ASSUME NEW a \in DOMAIN acks, ReceiveAck(a) PROVE RInv' /\ AbsStep
  BY <1>1, <1>4, ReceiveAckRInv
<1>5. ASSUME NEW b \in DOMAIN nacks, ReceiveNack(b) PROVE RInv' /\ AbsStep
  BY <1>1, <1>5, ReceiveNackRInv
<1>6. ASSUME NEW p \in Pkts, ReceiveData(p) PROVE RInv' /\ AbsStep
  BY <1>1, <1>6, ReceiveDataRInv
<1>7. ASSUME NEW E \in SUBSET Batches, ParityScan(E) PROVE RInv' /\ AbsStep
  BY <1>1, <1>7, ParityScanRInv
<1>8. CASE Lose
  BY <1>1, <1>8, LoseRInv
<1>9. CASE UNCHANGED vars
  <2>1. UNCHANGED <<src, sink, dataNet, acks, wake>> /\ Got' = Got
    BY <1>9 DEF vars, Got
  <2>2. RInv'
    BY <1>1, <2>1 DEF RInv
  <2> QED BY <2>1, <2>2 DEF AbsStep, Abs!vars
<1> QED BY <1>2, <1>3, <1>4, <1>5, <1>6, <1>7, <1>8, <1>9 DEF Next

-----------------------------------------------------------------------------
(* The theorems.                                                           *)

LEMMA RInvHolds ==
  ASSUME MaxWake <= 2
  PROVE  Spec => []RInv
<1>1. Init => RInv
  BY InitRInv
<1>2. RInv /\ [Next]_vars => RInv'
  BY NextRInv
<1> QED BY <1>1, <1>2, PTL DEF Spec

(* For flows of every length, with and without erasure coding, whatever    *)
(* the network loses or reorders and however timers fire: finish_flow is   *)
(* called only when the receiver can rebuild the flow, and nothing new is  *)
(* sent afterwards, provided no two wake-ups are pending when an ACK comes.*)
THEOREM TransportIsReliable ==
  ASSUME MaxWake <= 2
  PROVE  Spec => AbsSpec
<1>1. Init => Abs!Init
  BY InitRInv
<1>2. RInv /\ [Next]_vars => [Abs!Next]_(Abs!vars)
  BY NextRInv DEF AbsStep
<1>3. Spec => []RInv
  BY RInvHolds
<1> QED BY <1>1, <1>2, <1>3, PTL DEF Spec, AbsSpec, Abs!Spec

LEMMA DecodedComplete ==
  ASSUME RInv, NEW b \in Decoded(Got)
  PROVE  Complete(b)
<1>1. b \in Nat /\ sink.highestCompleted \in Nat /\ b \in Batches
  BY RInvParts, NumBatchesNat DEF Decoded, Batches, SinkState
<1>2. CASE b > sink.highestCompleted
  <2>1. sink.batch[b] = Got \cap Packets(b)
    BY <1>1, <1>2, GotSink DEF RInv, Matches
  <2> QED BY <2>1 DEF Decoded, Complete, Reached
<1> QED BY <1>1, <1>2 DEF Complete

(* A packet leaves the list or is marked acked only when the sink has it,  *)
(* or, with erasure coding, does not need it.                              *)
THEOREM AckedReceived ==
  ASSUME MaxWake <= 2
  PROVE  Spec => []AckedWasReceived
<1>1. RInv => AckedWasReceived
  <2> SUFFICES ASSUME RInv, NEW p \in Pkts, src.entry[p] \in {"acked", "erased"}
               PROVE  p \in Got \/ (ErasureCoded /\ Complete(ParityId(p)))
    BY DEF AckedWasReceived
  <2>1. Covered(p, Got)
    BY RInvParts, FitParts DEF Fits
  <2> QED BY <2>1, DecodedComplete DEF Covered
<1> QED BY <1>1, RInvHolds, PTL

(* The sink's count of a group is what its reassembly has of the group.    *)
THEOREM BatchesMatch ==
  ASSUME MaxWake <= 2
  PROVE  Spec => []BatchMatchesReassembly
<1>1. RInv => BatchMatchesReassembly
  BY GotSink DEF RInv, Matches, BatchMatchesReassembly
<1> QED BY <1>1, RInvHolds, PTL

(* The sender never takes a group for completed that the sink has not      *)
(* completed: the abort of processAck is out of reach.                     *)
THEOREM SenderNeverAhead ==
  ASSUME MaxWake <= 2
  PROVE  Spec => []SenderBehindSink
<1>1. RInv => SenderBehindSink
  <2> SUFFICES ASSUME RInv PROVE SenderBehindSink
    OBVIOUS
  <2>1. /\ src.highestCompleted <= sink.highestCompleted
        /\ src.highestCompleted \in Nat
        /\ src.completed \subseteq Decoded(Got)
    BY RInvParts, FitParts DEF Fits
  <2>2. sink.highestCompleted \in 0 .. NumBatches
    BY RInvParts DEF SinkState
  <2> QED BY <2>1, <2>2, NumBatchesNat, DecodedComplete DEF SenderBehindSink, HighestPossible
<1> QED BY <1>1, RInvHolds, PTL

(* The next new packet is not of a group below the highest completed one:  *)
(* the abort of send_packets is out of reach.                              *)
THEOREM NewPacketFresh ==
  ASSUME MaxWake <= 2
  PROVE  Spec => []NewPacketNotStale
<1>1. RInv => NewPacketNotStale
  <2> SUFFICES ASSUME RInv, ErasureCoded, src.highestSent < NumPkts
               PROVE  ParityId(src.highestSent + 1) >= src.highestCompleted
    BY DEF NewPacketNotStale
  <2> DEFINE c == src.highestCompleted
             n == src.highestSent + 1
  <2>1. /\ Fits(src, Got, sink.highestCompleted) /\ Known(Got, sink.highestCompleted)
        /\ src.highestSent \in Nat /\ c \in Nat /\ n \in Pkts /\ ParityId(n) \in Nat
    <3>1. src.highestSent \in Nat /\ n \in Pkts
      BY RInvParts, NumPktsNat DEF Pkts
    <3> QED BY <3>1, RInvParts, FitParts, ParityIdNat
  <2>2. CASE c = 0
    BY <2>1, <2>2
  <2>3. CASE c > 0
    <3>1. c \in Decoded(Got)
      <4>1. c <= sink.highestCompleted /\ c \in Batches
        BY <2>1, <2>3, NumBatchesNat DEF Fits, Known, Batches
      <4> QED BY <2>1, <4>1 DEF Known
    <3>2. PICK p \in Got : p \in Packets(c)
      <4>1. Cardinality(Got \cap Packets(c)) >= Needed
        BY <3>1 DEF Decoded
      <4>2. Got \cap Packets(c) # {}
        BY <4>1, NeededNat, FS_EmptySet
      <4> QED BY <4>2
    <3>3. p \in Pkts /\ ParityId(p) = c /\ p <= n
      <4>1. p \in Pkts /\ ParityId(p) = c
        BY <3>2 DEF Packets
      <4>2. p <= src.highestSent
        BY <2>1, <3>2 DEF Fits
      <4> QED BY <2>1, <4>1, <4>2, NumPktsNat DEF Pkts
    <3> QED BY <2>1, <3>3, ParityIdGrows
  <2> QED BY <2>1, <2>2, <2>3
<1> QED BY <1>1, RInvHolds, PTL

(* A selective ACK not behind the list names a packet of it: the walk of   *)
(* update_pending_packets_list does not run off its end.                   *)
THEOREM SackFindsIts ==
  ASSUME MaxWake <= 2
  PROVE  Spec => []SackFindsEntry
<1>1. RInv => SackFindsEntry
  <2> SUFFICES ASSUME RInv, NEW a \in DOMAIN acks, InList(src) # {}, Oldest(src) <= a.n
               PROVE  a.n \in InList(src)
    BY DEF SackFindsEntry
  <2>1. a.n \in Got /\ Got \subseteq Pkts
    BY DEF RInv, AckFits, Known
  <2>2. src \in Fit(Got, sink.highestCompleted) /\ a.n <= src.highestSent
    BY <2>1, RInvParts DEF Fit, Fits
  <2> QED BY <2>1, <2>2, BehindOldest
<1> QED BY <1>1, RInvHolds, PTL

-----------------------------------------------------------------------------
(* Without erasure coding the oldest packet of the list is one that no     *)
(* selective ACK has named or will name.                                   *)

\* What selective ACKs have marked, or will when they arrive.
Sacked(s, as) ==
  {p \in Pkts : s.entry[p] = "acked" \/ \E a \in as : ~a.cumulative /\ a.n = p}

Clear(s, S) == InList(s) # {} => Oldest(s) \notin S

\* Nor does one name the packet behind a cumulative ACK, which the sink has
\* not got when it sends one.
KInv ==
  /\ sink.cumulative + 1 \notin sink.received
  /\ \A a \in DOMAIN acks : a.cumulative => a.n + 1 \notin Sacked(src, DOMAIN acks)
  /\ Clear(src, Sacked(src, DOMAIN acks))

MarkedIn(s, S) == \A p \in Pkts : s.entry[p] = "acked" => p \in S

SameList(s, t) ==
  /\ t.highestSent = s.highestSent
  /\ \A p \in Pkts : /\ t.entry[p] = "acked" <=> s.entry[p] = "acked"
                     /\ t.entry[p] \in Listed <=> s.entry[p] \in Listed

LEMMA SameListFacts ==
  ASSUME NEW s, NEW t, SameList(s, t), NEW S
  PROVE  /\ InList(t) = InList(s) /\ Oldest(t) = Oldest(s)
         /\ Clear(s, S) => Clear(t, S)
         /\ MarkedIn(s, S) => MarkedIn(t, S)
<1>1. InList(t) = InList(s)
  BY DEF SameList, InList
<1>2. Oldest(t) = Oldest(s)
  BY <1>1 DEF Oldest
<1> QED BY <1>1, <1>2 DEF Clear, MarkedIn, SameList

LEMMA SameListTrans ==
  ASSUME NEW s, NEW t, NEW u, SameList(s, t), SameList(t, u)
  PROVE  SameList(s, u)
BY DEF SameList

LEMMA RetransmitStepList ==
  ASSUME ~ErasureCoded, NEW s \in Sound, NEW p \in Pkts, NEW T
  PROVE  SameList(s, RetransmitStep(s, p, T))
<1> DEFINE t == IF s.entry[p] = "inflight" /\ p \in T THEN TimeOut(s, p) ELSE s
           u == RetransmitStep(s, p, T)
<1>1. t \in Sound /\ SameList(s, t)
  <2>1. CASE s.entry[p] = "inflight" /\ p \in T
    <3>1. s \in SrcState /\ s.entry \in [Pkts -> EntryState] /\ t = TimeOut(s, p)
      BY <2>1 DEF Sound, SrcState
    <3>2. t.entry = [s.entry EXCEPT ![p] = "lost"] /\ t.highestSent = s.highestSent
      BY <3>1 DEF TimeOut, ReduceUnacked, Minus, SrcState
    <3>3. t \in Sound
      BY <2>1, <3>1, TimeOutSound
    <3> HIDE DEF t
    <3> QED BY <2>1, <3>1, <3>2, <3>3 DEF SameList, Listed
  <2>2. CASE ~(s.entry[p] = "inflight" /\ p \in T)
    BY <2>2 DEF SameList
  <2> QED BY <2>1, <2>2
<1>2. u = IF t.entry[p] # "lost" THEN t ELSE ResendPacket(t, p)
  BY DEF RetransmitStep, KnownComplete
<1> HIDE DEF t, u
<1>3. SameList(t, u)
  <2>1. CASE t.entry[p] # "lost"
    BY <1>2, <2>1 DEF SameList
  <2>2. CASE t.entry[p] = "lost"
    <3>1. t \in SrcState /\ t.entry \in [Pkts -> EntryState]
      BY <1>1 DEF Sound, SrcState
    <3>2. /\ u.entry = t.entry \/ u.entry = [t.entry EXCEPT ![p] = "inflight"]
          /\ u.highestSent = t.highestSent
      BY <1>2, <2>2, <3>1 DEF ResendPacket, SrcState
    <3> QED BY <2>2, <3>1, <3>2 DEF SameList, Listed
  <2> QED BY <2>1, <2>2
<1>4. SameList(s, u)
  BY <1>1, <1>3, SameListTrans
<1> QED BY <1>4 DEF u

LEMMA RetransmitPacketList ==
  ASSUME ~ErasureCoded, NEW s \in Sound, NEW T
  PROVE  SameList(s, RetransmitPacket(s, T))
<1> DEFINE I == {z \in Sound : SameList(s, z)}
           x == [s EXCEPT !.rtxPending = FALSE]
           y == RunLoop(RetransmitLoop(T), NumPkts, x)
<1>1. x \in I
  <2>1. x \in Sound
    BY DEF Sound, SrcState, AwaitedSent, Bounded, InFlight
  <2>2. x.entry = s.entry /\ x.highestSent = s.highestSent
    BY DEF Sound, SrcState
  <2> HIDE DEF x
  <2> QED BY <2>1, <2>2 DEF SameList
<1>2. \A i \in 1 .. NumPkts : \A z \in I : RetransmitLoop(T)[i][z] \in I
  <2> TAKE i \in 1 .. NumPkts
  <2> TAKE z \in I
  <2>1. i \in Pkts /\ z \in SrcState /\ z \in Sound
    BY DEF Pkts, Sound
  <2>2. RetransmitLoop(T)[i][z] = RetransmitStep(z, i, T)
    BY <2>1 DEF RetransmitLoop
  <2>3. RetransmitStep(z, i, T) \in Sound /\ SameList(s, RetransmitStep(z, i, T))
    BY <2>1, RetransmitStepSound, RetransmitStepList, SameListTrans
  <2> QED BY <2>2, <2>3
<1>3. y \in I
  <2> HIDE DEF x, I
  <2> QED BY <1>1, <1>2, NumPktsNat, LoopResult
<1> HIDE DEF x, y
<1>4. DropAckedFront[y] = y
  <2>1. y \in SrcState
    BY <1>3 DEF Sound
  <2> QED BY <2>1 DEF DropAckedFront
<1>5. RetransmitPacket(s, T) = y
  BY <1>4 DEF RetransmitPacket, y, x
<1> QED BY <1>3, <1>5

(* New packets join the list at its end.                                   *)
LEMMA SendPacketsClear ==
  ASSUME ~ErasureCoded, NEW G, NEW H, Known(G, H), NEW s \in Fit(G, H), ~s.finished,
         NEW T, NEW S, \A p \in S : p \in Nat /\ p <= s.highestSent,
         Clear(s, S), MarkedIn(s, S)
  PROVE  LET t == SendPackets(s, T) IN Clear(t, S) /\ MarkedIn(t, S)
<1> DEFINE r == IF s.rtxPending THEN RetransmitPacket(s, T) ELSE s
           t == SendNewPackets[r]
           room == Minus(r.window \div 2, r.unacked)
           left == Minus(NumPkts, r.highestSent)
           k    == IF room < left THEN room ELSE left
           new  == r.highestSent + 1 .. r.highestSent + k
           e    == [p \in Pkts |-> IF p \in new THEN "inflight" ELSE r.entry[p]]
<1>1. SendPackets(s, T) = t
  BY DEF SendPackets
<1>2. SameList(s, r)
  BY RetransmitPacketList, FitParts DEF SameList
<1>3. r \in Fit(G, H) /\ r.highestSent = s.highestSent
  BY RetransmitPacketFit, FitParts, StayFit
<1> HIDE DEF r
<1>4. Clear(r, S) /\ MarkedIn(r, S) /\ r \in SrcState /\ Fits(r, G, H) /\ r.highestSent \in Nat
  BY <1>2, <1>3, SameListFacts, FitParts
<1>5. t.entry = e
  <2>1. t = [r EXCEPT !.highestSent = @ + k, !.unacked = @ + k,
                      !.entry = e, !.out = @ \cup new]
    BY <1>4 DEF SendNewPackets
  <2> HIDE DEF k, new, e, t
  <2> QED BY <2>1, <1>4 DEF SrcState
<1> HIDE DEF k, t
<1>6. \A p \in Pkts : /\ t.entry[p] = r.entry[p] \/ (t.entry[p] = "inflight" /\ p > r.highestSent)
                      /\ p \in Nat
  BY <1>4, <1>5, NumPktsNat DEF Pkts
<1>7. MarkedIn(t, S)
  BY <1>4, <1>6 DEF MarkedIn
<1>8. Clear(t, S)
  <2> SUFFICES ASSUME InList(t) # {}, Oldest(t) \in S PROVE FALSE
    BY DEF Clear
  <2> DEFINE q == Oldest(t)
  <2>1. q \in Pkts /\ q \in InList(t) /\ \A p \in InList(t) : q <= p
    BY OldestInList DEF InList
  <2>2. q <= r.highestSent
    BY <1>3
  <2> HIDE DEF q
  <2>3. q \in InList(r)
    <3>1. ~(q > r.highestSent)
      BY <1>4, <1>6, <2>1, <2>2
    <3> QED BY <1>6, <2>1, <3>1 DEF InList
  <2>4. InList(r) \subseteq InList(t)
    <3> SUFFICES ASSUME NEW p \in InList(r) PROVE p \in InList(t)
      OBVIOUS
    <3>1. p \in Pkts /\ r.entry[p] \in Listed /\ p <= r.highestSent
      BY <1>4 DEF InList, Listed, Fits
    <3> QED BY <1>4, <1>6, <3>1 DEF InList
  <2>5. Oldest(r) \in InList(r) /\ Oldest(r) <= q
    BY <2>3, OldestInList
  <2>6. Oldest(r) \in Nat /\ q \in Nat /\ q <= Oldest(r)
    BY <1>6, <2>1, <2>4, <2>5 DEF InList
  <2>7. Oldest(r) = q
    BY <2>5, <2>6
  <2> QED BY <1>4, <2>3, <2>7 DEF Clear, q
<1> QED BY <1>1, <1>7, <1>8

LEMMA ReduceOneList ==
  ASSUME NEW s \in SrcState
  PROVE  SameList(s, ReduceUnacked(s, 1)) /\ ReduceUnacked(s, 1) \in SrcState
<1>1. /\ ReduceUnacked(s, 1).entry = s.entry
      /\ ReduceUnacked(s, 1).highestSent = s.highestSent
  BY ReduceUnackedFields
<1>2. ReduceUnacked(s, 1) \in SrcState
  BY DEF ReduceUnacked, Minus, SrcState
<1> QED BY <1>1, <1>2 DEF SameList

(* A cumulative ACK erases all before n + 1, which has not been named and  *)
(* so stops it.                                                            *)
LEMMA CumulativeClear ==
  ASSUME NEW G, NEW H, NEW s \in Fit(G, H), NEW n \in Pkts,
         NEW S, n + 1 \notin S, Clear(s, S), MarkedIn(s, S)
  PROVE  LET t == CumulativeAck(ReduceUnacked(s, 1), n)
         IN  Clear(t, S) /\ MarkedIn(t, S)
<1> DEFINE r    == ReduceUnacked(s, 1)
           gone == Front(r, 1 .. n)
           x    == Erase(r, gone)
           t    == CumulativeAck(r, n)
<1>1. /\ r \in Fit(G, H) /\ r.highestSent \in Nat /\ Fits(r, G, H) /\ r \in SrcState
      /\ Clear(r, S) /\ MarkedIn(r, S)
  BY ReduceOneFit, ReduceOneList, SameListFacts, FitParts, StayFit
<1> HIDE DEF r
<1>2. /\ x \in SrcState
      /\ x.entry = [p \in Pkts |-> IF p \in gone THEN "erased" ELSE r.entry[p]]
  BY <1>1, EraseType
<1>3. t.entry = x.entry
  <2> DEFINE m == Minus(Cardinality({p \in gone : r.entry[p] # "acked"}), 1)
  <2>1. t = ReduceUnacked(x, m)
    BY DEF CumulativeAck
  <2> HIDE DEF x, m, t
  <2> QED BY <2>1, <1>2 DEF ReduceUnacked, SrcState
<1> HIDE DEF x, t
<1>4. \A p \in Pkts : /\ p \in gone => t.entry[p] = "erased"
                      /\ p \notin gone => t.entry[p] = r.entry[p]
                      /\ p \in Nat /\ p >= 1
  BY <1>2, <1>3, NumPktsNat DEF Pkts
<1>5. MarkedIn(t, S)
  BY <1>1, <1>4 DEF MarkedIn
<1>6. \A p \in InList(r) : p \notin gone => p \in InList(t)
  BY <1>4 DEF InList
<1>7. Clear(t, S)
  <2> DEFINE q == Oldest(t)
             o == Oldest(r)
  <2> SUFFICES ASSUME InList(t) # {}, q \in S PROVE FALSE
    BY DEF Clear
  <2>1. q \in InList(t) /\ \A p \in InList(t) : q <= p
    BY OldestInList
  <2>2. q \in InList(r) /\ q \notin gone /\ q \in Pkts /\ q \in Nat
    BY <1>4, <2>1 DEF InList, Listed
  <2>3. /\ o \in InList(r) /\ (\A p \in InList(r) : o <= p) /\ o \in Nat /\ o \in Pkts
        /\ o \notin S
    BY <1>1, <1>4, <2>2, OldestInList DEF InList, Clear
  <2> HIDE DEF q, o
  <2>4. q \notin 1 .. n
    <3>1. PICK p \in InList(r) : p <= q /\ p \notin 1 .. n /\ r.entry[p] # "acked"
      BY <2>2 DEF Front
    <3>2. p \notin gone /\ p \in Nat
      BY <3>1, <1>4, FrontInList DEF InList
    <3>3. q <= p
      BY <1>6, <2>1, <3>1, <3>2
    <3>4. p = q
      BY <2>2, <3>1, <3>2, <3>3
    <3> QED BY <3>1, <3>4
  <2>5. o # q /\ o <= q
    BY <2>2, <2>3
  <2>6. \A p \in InList(r) : p < q => p \in 1 .. n \/ p \in S
    <3> SUFFICES ASSUME NEW p \in InList(r), p < q, p \notin S PROVE p \in 1 .. n
      OBVIOUS
    <3>1. p \in Pkts /\ p \in Nat
      BY <1>4 DEF InList
    <3>2. p \in gone
      BY <1>6, <2>1, <2>2, <3>1
    <3>3. r.entry[p] # "acked"
      BY <1>1, <3>1 DEF MarkedIn
    <3> QED BY <3>2, <3>3, FrontInList
  <2>7. o \in 1 .. n
    BY <2>2, <2>3, <2>5, <2>6
  <2>8. n \in Nat /\ n >= 1 /\ n + 1 < q
    BY <1>4, <2>2, <2>4
  <2>9. n + 1 \in Pkts /\ o <= n + 1 /\ n + 1 <= r.highestSent
    <3>1. q <= NumPkts /\ q <= r.highestSent
      BY <1>1, <2>2, NumPktsNat DEF Pkts, InList, Listed, Fits
    <3> QED BY <1>1, <2>2, <2>3, <2>7, <2>8, <3>1, NumPktsNat DEF Pkts
  <2>10. n + 1 \in InList(r)
    BY <1>1, <2>2, <2>9, BehindOldest DEF o
  <2>11. n + 1 \notin 1 .. n
    BY <2>8
  <2> QED BY <2>6, <2>8, <2>10, <2>11
<1> QED BY <1>5, <1>7 DEF t, r

(* A selective ACK marks an entry behind the oldest.                       *)
LEMMA SelectiveClear ==
  ASSUME NEW G, NEW H, NEW s \in Fit(G, H), NEW n \in Pkts, n <= s.highestSent,
         NEW S, n \in S, Clear(s, S), MarkedIn(s, S)
  PROVE  LET t == SelectiveAck(ReduceUnacked(s, 1), n)
         IN  Clear(t, S) /\ MarkedIn(t, S)
<1> DEFINE r == ReduceUnacked(s, 1)
           t == SelectiveAck(r, n)
<1>1. /\ r \in Fit(G, H) /\ r \in SrcState /\ r.highestSent = s.highestSent
      /\ r.entry \in [Pkts -> EntryState]
      /\ Clear(r, S) /\ MarkedIn(r, S)
  BY ReduceOneFit, ReduceOneList, SameListFacts, FitParts, StayFit
<1> HIDE DEF r
<1>2. \/ t = r
      \/ InList(r) # {} /\ n = Oldest(r)
      \/ /\ InList(r) # {} /\ ~(Oldest(r) > n)
         /\ t = [r EXCEPT !.entry[n] = "acked"]
  BY DEF SelectiveAck
<1> SUFFICES Clear(t, S) /\ MarkedIn(t, S)
  BY DEF t, r
<1> HIDE DEF t
<1>3. CASE t = r
  BY <1>1, <1>3
<1>4. CASE InList(r) # {} /\ n = Oldest(r)
  BY <1>1, <1>4 DEF Clear
<1>5. CASE /\ InList(r) # {} /\ ~(Oldest(r) > n)
           /\ t = [r EXCEPT !.entry[n] = "acked"]
  <2>1. n \in InList(r)
    <3>1. Oldest(r) <= n
      BY <1>5, OldestInList, NumPktsNat DEF InList, Pkts
    <3> QED BY <1>1, <1>5, <3>1, BehindOldest
  <2>2. t.entry = [r.entry EXCEPT ![n] = "acked"]
    BY <1>1, <1>5 DEF SrcState
  <2>3. InList(t) = InList(r)
    BY <1>1, <2>1, <2>2 DEF InList, Listed
  <2>4. Oldest(t) = Oldest(r)
    BY <2>3 DEF Oldest
  <2>5. MarkedIn(t, S)
    BY <1>1, <2>2 DEF MarkedIn
  <2> QED BY <1>1, <2>3, <2>4, <2>5 DEF Clear
<1> QED BY <1>2, <1>3, <1>4, <1>5

\* Up to the test whether the flow is finished, as in TakeAckFit.
LEMMA TakeAckClear ==
  ASSUME NEW G, NEW H, NEW s \in Fit(G, H), NEW a \in AckMsg, AckFits(a, G, H),
         NEW S, IF a.cumulative THEN a.n + 1 \notin S ELSE a.n \in S,
         Clear(s, S), MarkedIn(s, S)
  PROVE  LET t == LearnCompleted(UpdatePendingPacketsList(ReduceUnacked(s, 1), a), a)
         IN  Clear(t, S) /\ MarkedIn(t, S)
<1> DEFINE u == UpdatePendingPacketsList(ReduceUnacked(s, 1), a)
           t == LearnCompleted(u, a)
<1>1. a.n \in Pkts /\ a.n \in G /\ a.cumulative \in BOOLEAN
  BY DEF AckMsg, AckFits
<1>2. a.n <= s.highestSent
  BY <1>1, FitParts DEF Fits
<1>3. Clear(u, S) /\ MarkedIn(u, S) /\ u \in Fit(G, H)
  <2>1. CASE a.cumulative
    <3>1. u = CumulativeAck(ReduceUnacked(s, 1), a.n) /\ 1 .. a.n \subseteq G
      BY <2>1 DEF UpdatePendingPacketsList, AckFits
    <3>2. a.n + 1 \notin S
      BY <2>1
    <3> HIDE DEF u
    <3> QED BY <1>1, <3>1, <3>2, CumulativeAckFit, CumulativeClear, StayFit
  <2>2. CASE ~a.cumulative
    <3>1. u = SelectiveAck(ReduceUnacked(s, 1), a.n)
      BY <2>2 DEF UpdatePendingPacketsList
    <3>2. a.n \in S
      BY <2>2
    <3> HIDE DEF u
    <3> QED BY <1>1, <1>2, <3>1, <3>2, SelectiveAckFit, SelectiveClear, StayFit
  <2> QED BY <1>1, <2>1, <2>2
<1> HIDE DEF u
<1>4. u \in SrcState /\ t.entry = u.entry /\ t.highestSent = u.highestSent
  BY <1>3, FitParts DEF LearnCompleted, SrcState
<1>5. SameList(u, t)
  BY <1>4 DEF SameList
<1>6. Clear(t, S) /\ MarkedIn(t, S)
  BY <1>3, <1>5, SameListFacts
<1> QED BY <1>6 DEF t, u

LEMMA AdjustWindowList ==
  ASSUME NEW s \in SrcState, NEW a, NEW w, AdjustWindow(s, a, w).highestSent = s.highestSent
  PROVE  SameList(s, AdjustWindow(s, a, w))
<1>1. AdjustWindow(s, a, w).entry = s.entry
  BY DEF AdjustWindow, SrcState
<1> QED BY <1>1 DEF SameList

LEMMA FinishFlowClear ==
  ASSUME NEW s \in SrcState, NEW S, MarkedIn(s, S)
  PROVE  Clear(FinishFlow(s), S) /\ MarkedIn(FinishFlow(s), S)
<1> DEFINE x == Erase(s, InList(s))
           t == FinishFlow(s)
<1>1. /\ x \in SrcState
      /\ x.entry = [p \in Pkts |-> IF p \in InList(s) THEN "erased" ELSE s.entry[p]]
  BY EraseType
<1>2. t.entry = x.entry
  <2>1. t = [x EXCEPT !.finished = TRUE]
    BY DEF FinishFlow
  <2> HIDE DEF x, t
  <2> QED BY <1>1, <2>1 DEF SrcState
<1> HIDE DEF x, t
<1>3. InList(t) = {}
  BY <1>1, <1>2 DEF InList, Listed
<1>4. MarkedIn(t, S)
  BY <1>1, <1>2 DEF MarkedIn
<1> QED BY <1>3, <1>4 DEF Clear, t

\* A packet that has been named is at the sink.
LEMMA SackedGot ==
  ASSUME ~ErasureCoded, RInv
  PROVE  \A p \in Sacked(src, DOMAIN acks) : p \in Got /\ p \in Nat /\ p <= src.highestSent
<1> SUFFICES ASSUME NEW p \in Sacked(src, DOMAIN acks)
             PROVE  p \in Got /\ p \in Nat /\ p <= src.highestSent
  OBVIOUS
<1>1. Fits(src, Got, sink.highestCompleted) /\ p \in Pkts
  BY RInvParts, FitParts DEF Sacked
<1>2. p \in Got
  BY <1>1 DEF Sacked, RInv, AckFits, Fits, Covered
<1> QED BY <1>1, <1>2, NumPktsNat DEF Fits, Pkts

\* What every handler of the sender has in common.
LEMMA LeaveKInv ==
  ASSUME KInv, UNCHANGED sink, DOMAIN acks' \subseteq DOMAIN acks,
         NEW s \in SrcState, src' = [s EXCEPT !.out = {}],
         Clear(s, Sacked(src, DOMAIN acks)), MarkedIn(s, Sacked(src, DOMAIN acks))
  PROVE  KInv'
<1> DEFINE S == Sacked(src, DOMAIN acks)
<1>1. src'.entry = s.entry
  BY DEF SrcState
<1>2. InList(src') = InList(s)
  BY <1>1 DEF InList
<1>3. Oldest(src') = Oldest(s)
  BY <1>2 DEF Oldest
<1>4. Sacked(src', DOMAIN acks') \subseteq S
  BY <1>1 DEF Sacked, MarkedIn
<1> HIDE DEF S
<1>5. Clear(src', Sacked(src', DOMAIN acks'))
  BY <1>2, <1>3, <1>4 DEF Clear, S
<1>6. \A a \in DOMAIN acks' : a.cumulative => a.n + 1 \notin Sacked(src', DOMAIN acks')
  BY <1>4 DEF KInv, S
<1>7. sink'.cumulative + 1 \notin sink'.received
  BY DEF KInv
<1> QED BY <1>5, <1>6, <1>7 DEF KInv

LEMMA ReceiveAckKInv ==
  ASSUME ~ErasureCoded, RInv, KInv, NEW a \in DOMAIN acks, ReceiveAck(a)
  PROVE  KInv'
<1> DEFINE S == Sacked(src, DOMAIN acks)
           s == LearnCompleted(UpdatePendingPacketsList(ReduceUnacked(src, 1), a), a)
           H == sink.highestCompleted
<1>1. /\ a \in AckMsg /\ AckFits(a, Got, H) /\ Known(Got, H)
      /\ src \in Fit(Got, H)
  BY RInvParts DEF RInv, TypeOK
<1>2. Clear(src, S) /\ MarkedIn(src, S)
  BY DEF KInv, MarkedIn, Sacked
<1>3. IF a.cumulative THEN a.n + 1 \notin S ELSE a.n \in S
  BY <1>1 DEF KInv, Sacked, AckMsg
<1>4. \A p \in S : p \in Nat /\ p <= src.highestSent
  BY SackedGot
<1>5. UNCHANGED sink /\ DOMAIN acks' \subseteq DOMAIN acks
  <2>1. acks' = acks (-) SetToBag({a}) /\ IsABag(acks)
    BY RInvParts DEF ReceiveAck, TypeOK
  <2> QED BY <2>1, BagRemoveType DEF ReceiveAck
<1> HIDE DEF S
<1>6. s \in Stay(Got, H, src.highestSent, src.finished)
  BY <1>1, TakeAckFit
<1>7. Clear(s, S) /\ MarkedIn(s, S)
  BY <1>1, <1>2, <1>3, TakeAckClear
<1>8. \/ Leave(s)
      \/ Leave(FinishFlow(s))
      \/ /\ ~s.finished
         /\ \E w \in Windows, T \in Expired(s) :
              Leave(SendPackets(AdjustWindow(s, a, w), T))
  BY DEF ReceiveAck
<1> HIDE DEF s
<1>9. s \in Fit(Got, H) /\ s \in SrcState /\ s.highestSent = src.highestSent
  BY <1>6, StayFit, FitParts
<1>10. CASE Leave(s)
  BY <1>5, <1>7, <1>9, <1>10, LeaveKInv DEF Leave, S
<1>11. CASE Leave(FinishFlow(s))
  <2>1. FinishFlow(s) \in SrcState
    <3>1. Erase(s, InList(s)) \in SrcState
      BY <1>9, EraseType
    <3> QED BY <3>1 DEF FinishFlow, SrcState
  <2>2. Clear(FinishFlow(s), S) /\ MarkedIn(FinishFlow(s), S)
    BY <1>7, <1>9, FinishFlowClear
  <2> QED BY <1>5, <1>11, <2>1, <2>2, LeaveKInv DEF Leave, S
<1>12. ASSUME ~s.finished, NEW w \in Windows, NEW T \in Expired(s),
              Leave(SendPackets(AdjustWindow(s, a, w), T))
       PROVE  KInv'
  <2> DEFINE u == AdjustWindow(s, a, w)
             t == SendPackets(u, T)
  <2>1. u \in Stay(Got, H, s.highestSent, s.finished)
    BY <1>1, <1>9, AdjustWindowFit
  <2>2. u \in Fit(Got, H) /\ u.highestSent = s.highestSent /\ ~u.finished
    BY <1>12, <2>1, StayFit
  <2>3. Clear(u, S) /\ MarkedIn(u, S)
    BY <1>7, <1>9, <2>2, AdjustWindowList, SameListFacts
  <2> HIDE DEF u
  <2>4. Clear(t, S) /\ MarkedIn(t, S) /\ t \in SrcState
    BY <1>1, <1>4, <1>9, <2>2, <2>3, SendPacketsClear, SendPacketsFit, FitParts
  <2>5. src' = [t EXCEPT !.out = {}]
    BY <1>12 DEF Leave, t, u
  <2> HIDE DEF t
  <2> QED BY <1>5, <2>4, <2>5, LeaveKInv DEF S
<1> QED BY <1>8, <1>10, <1>11, <1>12

LEMMA SendingKInv ==
  ASSUME ~ErasureCoded, RInv, KInv,
         DoNextEvent \/ \E T \in SUBSET InFlight(src) : RtxScan(T)
  PROVE  KInv'
<1> DEFINE S == Sacked(src, DOMAIN acks)
           H == sink.highestCompleted
<1>1. Clear(src, S) /\ MarkedIn(src, S)
  BY DEF KInv, MarkedIn, Sacked
<1>2. \A p \in S : p \in Nat /\ p <= src.highestSent
  BY SackedGot
<1>3. Known(Got, H) /\ src \in Fit(Got, H) /\ src \in Sound
  BY RInvParts, FitParts
<1> HIDE DEF S
<1>4. CASE DoNextEvent
  <2>1. PICK T : Leave(SendPackets(src, T))
    BY <1>4 DEF DoNextEvent
  <2> DEFINE t == SendPackets(src, T)
  <2>2. ~src.finished
    BY <1>4 DEF RInv, DoNextEvent
  <2>3. Clear(t, S) /\ MarkedIn(t, S) /\ t \in SrcState
    BY <1>1, <1>2, <1>3, <2>2, SendPacketsClear, SendPacketsFit, FitParts
  <2>4. src' = [t EXCEPT !.out = {}] /\ UNCHANGED <<sink, acks>>
    BY <1>4, <2>1 DEF Leave, DoNextEvent
  <2> HIDE DEF t
  <2> QED BY <2>3, <2>4, LeaveKInv DEF S
<1>5. ASSUME NEW T \in SUBSET InFlight(src), RtxScan(T) PROVE KInv'
  <2> DEFINE t == RetransmitPacket(src, T)
  <2>1. t \in Sound /\ SameList(src, t)
    BY <1>3, RetransmitPacketList, RetransmitPacketFit, StayFit, FitParts
  <2>2. src' = [t EXCEPT !.out = {}] /\ UNCHANGED <<sink, acks>>
    BY <1>5 DEF Leave, RtxScan
  <2> HIDE DEF t
  <2>3. Clear(t, S) /\ MarkedIn(t, S) /\ t \in SrcState
    BY <1>1, <2>1, SameListFacts DEF Sound
  <2> QED BY <2>2, <2>3, LeaveKInv DEF S
<1> QED BY <1>4, <1>5

(* The sink names a packet only while it waits for one before, which the   *)
(* sender cannot have erased.                                              *)
LEMMA ReceiveDataKInv ==
  ASSUME ~ErasureCoded, RInv, RInv', KInv, NEW p \in Pkts, ReceiveData(p)
  PROVE  KInv'
<1> DEFINE k == Store(sink, p)
           a == [cumulative |-> p <= k.cumulative,
                 n |-> IF p <= k.cumulative THEN k.cumulative ELSE p,
                 completed |-> 0,
                 highest |-> k.highestCompleted]
           S == Sacked(src, DOMAIN acks)
           R == Sacked(src', DOMAIN acks')
           c == sink.cumulative
<1>1. /\ sink' = k
      /\ acks' = acks (+) SetToBag({a})
      /\ UNCHANGED src
      /\ dataNet[p] > 0
  BY DEF ReceiveData, Opens
<1>2. /\ sink \in SinkState /\ k \in SinkState
      /\ Fits(src, Got, sink.highestCompleted) /\ src \in Fit(Got, sink.highestCompleted)
      /\ src.highestSent \in Nat /\ p <= src.highestSent
      /\ src.entry \in [Pkts -> EntryState]
  BY <1>1, RInvParts, FitParts, StoreType DEF RInv
<1>3. /\ c \in Nat /\ c <= NumPkts /\ k.cumulative \in Nat /\ NumPkts \in Nat
      /\ p \in Nat /\ p >= 1 /\ p <= NumPkts
      /\ sink.received \subseteq Pkts
  BY <1>2, NumPktsNat DEF SinkState, Pkts
<1>4. c + 1 \notin sink.received /\ c + 1 \notin Got
  <2>1. c + 1 \notin sink.received
    BY DEF KInv
  <2> QED BY <2>1, <1>3 DEF Got
<1>5. \/ p = c + 1
      \/ k = sink /\ p <= c
      \/ p > c + 1 /\ k = [sink EXCEPT !.received = @ \cup {p}]
  BY <1>3 DEF Store
<1>6. k.cumulative + 1 \notin k.received
  <2>1. CASE p = c + 1
    <3> DEFINE cum == CHOOSE n \in p .. NumPkts :
                        /\ p + 1 .. n \subseteq sink.received
                        /\ n + 1 \notin sink.received
    <3>1. cum + 1 \notin sink.received
      BY <1>2, AdvanceEnd
    <3>2. k = [sink EXCEPT !.cumulative = cum, !.received = @ \ (p + 1 .. cum)]
      BY <2>1 DEF Store, Advance
    <3> HIDE DEF cum, k
    <3>3. k.cumulative = cum /\ k.received \subseteq sink.received
      BY <1>2, <3>2 DEF SinkState
    <3> QED BY <3>1, <3>3
  <2>2. CASE k = sink
    BY <1>4, <2>2
  <2>3. CASE p > c + 1 /\ k = [sink EXCEPT !.received = @ \cup {p}]
    <3>1. k.cumulative = c /\ k.received = sink.received \cup {p}
      BY <1>2, <2>3 DEF SinkState
    <3> QED BY <1>3, <1>4, <2>3, <3>1
  <2> QED BY <1>5, <2>1, <2>2, <2>3
<1>7. p <= k.cumulative \/ p > c + 1
  <2>1. CASE p = c + 1
    <3> DEFINE cum == CHOOSE n \in p .. NumPkts :
                        /\ p + 1 .. n \subseteq sink.received
                        /\ n + 1 \notin sink.received
    <3>1. cum \in p .. NumPkts
      BY <1>2, AdvanceEnd
    <3>2. k = [sink EXCEPT !.cumulative = cum, !.received = @ \ (p + 1 .. cum)]
      BY <2>1 DEF Store, Advance
    <3> HIDE DEF cum, k
    <3>3. k.cumulative = cum
      BY <1>2, <3>2 DEF SinkState
    <3> QED BY <1>3, <3>1, <3>3
  <2> QED BY <1>5, <2>1
<1> HIDE DEF k
<1>8. a.cumulative = (p <= k.cumulative) /\ (a.cumulative => a.n = k.cumulative)
      /\ (~a.cumulative => a.n = p)
  OBVIOUS
<1> HIDE DEF a
<1>9. DOMAIN acks' \subseteq DOMAIN acks \cup {a}
  <2>1. IsABag(acks) /\ {a} \in SUBSET (DOMAIN acks \cup {a})
    BY RInvParts DEF TypeOK
  <2> QED BY <1>1, <2>1, BagPlusSetType
<1>10. R \subseteq S \cup (IF a.cumulative THEN {} ELSE {p})
  BY <1>1, <1>8, <1>9 DEF Sacked
<1>11. R \subseteq Got'
  <2>1. \A q \in Sacked(src', DOMAIN acks') : q \in Got'
    <3>1. /\ \A e \in DOMAIN acks' : e.n \in Got'
          /\ \A q \in Pkts : src'.entry[q] = "acked" => q \in Got'
      BY RInvParts, FitParts DEF RInv, Fit, Fits, AckFits, Covered
    <3> QED BY <3>1 DEF Sacked
  <2> QED BY <2>1
<1> HIDE DEF R, S
<1>12. k.cumulative + 1 \notin Got'
  BY <1>1, <1>3, <1>6 DEF Got
<1>13. \A e \in DOMAIN acks' : e.cumulative => e.n + 1 \notin R
  <2> SUFFICES ASSUME NEW e \in DOMAIN acks', e.cumulative PROVE e.n + 1 \notin R
    OBVIOUS
  <2>1. CASE e = a
    BY <1>8, <1>11, <1>12, <2>1
  <2>2. CASE e \in DOMAIN acks
    <3>1. e.n + 1 \notin S
      BY <2>2 DEF KInv, S
    <3>2. 1 .. e.n \subseteq Got /\ e.n \in Nat
      BY <2>2, RInvParts, NumPktsNat DEF RInv, AckFits, TypeOK, AckMsg, Pkts
    <3>3. e.n <= c
      BY <1>3, <1>4, <3>2
    <3>4. ~a.cumulative => e.n + 1 # p
      <4>1. ~a.cumulative => p > c + 1
        BY <1>7, <1>8
      <4>2. p > c + 1 => e.n + 1 # p
        BY <1>3, <3>2, <3>3
      <4> QED BY <4>1, <4>2
    <3> QED BY <1>10, <3>1, <3>4
  <2> QED BY <1>9, <2>1, <2>2
<1>14. Clear(src', R)
  <2> DEFINE o == Oldest(src)
  <2> SUFFICES ASSUME InList(src) # {}, o \in R PROVE FALSE
    BY <1>1 DEF Clear
  <2>1. o \notin S
    BY DEF KInv, Clear, S
  <2>2. o = p /\ p > c + 1
    BY <1>7, <1>8, <1>10, <2>1
  <2>3. c + 1 \in Pkts /\ c + 1 <= src.highestSent
    BY <1>2, <1>3, <2>2 DEF Pkts
  <2>4. c + 1 \notin InList(src)
    BY <1>3, <2>2, OldestInList
  <2>5. src.entry[c + 1] = "erased"
    BY <1>2, <2>3, <2>4 DEF Fits, InList, EntryState
  <2>6. c + 1 \in Got
    BY <1>2, <2>3, <2>5 DEF Fits, Covered
  <2> QED BY <1>4, <2>6
<1> QED BY <1>1, <1>6, <1>13, <1>14 DEF KInv, R

LEMMA NextKInv ==
  ASSUME ~ErasureCoded
  PROVE  RInv /\ RInv' /\ KInv /\ [Next]_vars => KInv'
<1> SUFFICES ASSUME RInv, RInv', KInv, [Next]_vars PROVE KInv'
  OBVIOUS
<1>1. CASE DoNextEvent \/ \E T \in SUBSET InFlight(src) : RtxScan(T)
  BY <1>1, SendingKInv
<1>2. ASSUME NEW a \in DOMAIN acks, ReceiveAck(a) PROVE KInv'
  BY <1>2, ReceiveAckKInv
<1>3. ASSUME NEW p \in Pkts, ReceiveData(p) PROVE KInv'
  BY <1>3, ReceiveDataKInv
<1>4. Batches = {} /\ DOMAIN nacks = {}
  BY RInvParts DEF Batches, TypeOK
<1>5. ASSUME UNCHANGED <<src, sink>>, DOMAIN acks' \subseteq DOMAIN acks PROVE KInv'
  BY <1>5 DEF KInv, Clear, Sacked
<1>6. CASE Lose
  <2>1. IsABag(acks) /\ UNCHANGED <<src, sink>>
    BY <1>6, RInvParts DEF TypeOK, Lose
  <2>2. ASSUME NEW a \in DOMAIN acks, acks' = acks (-) SetToBag({a})
        PROVE  DOMAIN acks' \subseteq DOMAIN acks
    BY <2>1, <2>2, BagRemoveType
  <2>3. DOMAIN acks' \subseteq DOMAIN acks
    BY <1>6, <2>2 DEF Lose
  <2> QED BY <1>5, <2>1, <2>3
<1>7. CASE UNCHANGED vars
  BY <1>5, <1>7 DEF vars
<1>8. ASSUME NEW E \in SUBSET Batches, ParityScan(E) PROVE KInv'
  BY <1>4, <1>8 DEF ParityScan
<1> QED BY <1>1, <1>2, <1>3, <1>4, <1>6, <1>7, <1>8 DEF Next

(* The comment in update_pending_packets_list, for flows of every length   *)
(* without erasure coding: a selective ACK never names the oldest entry.   *)
THEOREM SackNotOldest ==
  ASSUME MaxWake <= 2, ~ErasureCoded
  PROVE  Spec => []SackNeverOldest
<1>1. Init => KInv
  <2> SUFFICES ASSUME Init PROVE KInv
    OBVIOUS
  <2>1. DOMAIN acks = {} /\ sink.received = {}
    BY DEF Init, EmptyBag, SetToBag
  <2>2. \A p \in Pkts : src.entry[p] = "unsent"
    BY DEF Init
  <2>3. InList(src) = {}
    BY <2>2 DEF InList, Listed
  <2> QED BY <2>1, <2>3 DEF KInv, Clear
<1>2. RInv /\ RInv' /\ KInv /\ [Next]_vars => KInv'
  BY NextKInv
<1>3. RInv /\ KInv => SackNeverOldest
  <2> SUFFICES ASSUME RInv, KInv, NEW a \in DOMAIN acks, ~a.cumulative, InList(src) # {}
               PROVE  a.n # Oldest(src)
    BY DEF SackNeverOldest
  <2>1. a.n \in Pkts
    BY RInvParts DEF TypeOK, AckMsg
  <2> QED BY <2>1 DEF KInv, Clear, Sacked
<1> QED BY <1>1, <1>2, <1>3, RInvHolds, PTL DEF Spec
=============================================================================
